------------------------- MODULE CallerAccessProofs -------------------------
(* Theorems about CallerAccess, for every value of its constants.          *)
EXTENDS CallerAccess, AdministrationProofs, TLAPS

-----------------------------------------------------------------------------
(* The nonce guard *)

\* The end of the last second in which a message passes.
Stale(m) == (Timestamp[m] + Tolerance + 1) * Ticks

\* A delivery that has passed the timestamp check passed it in tolerance, and
\* goes on to the claim within CheckDelay.
ChecksAreFresh ==
  \A d \in Deliveries : checked[d] # NotYet =>
    /\ checked[d] \in 0..now
    /\ InTolerance(MessageOf[d], checked[d])
    /\ at[d] = "authenticated" => now <= checked[d] + CheckDelay
    /\ at[d] \notin {"start", "resolved"}

\* The nonce key of an accepted message is kept for its whole time to live.
KeyOutlivesCheck ==
  \A d \in Deliveries : Accepted(d) => nonce[MessageOf[d]] >= KeyExpiry(checked[d])

\* The key of the delivery may be gone before its message stops passing.
Expiring(d) == KeyExpiry(checked[d]) < Stale(MessageOf[d]) + CheckDelay

\* A message is accepted twice only if the key of one delivery could expire.
ReplayOnlyIfExpiring ==
  \A d1, d2 \in Deliveries : AcceptedTwice(d1, d2) => Expiring(d1) \/ Expiring(d2)

\* The inductive invariant, whatever the lifetime of the keys.
NonceInv ==
  /\ at \in [Deliveries -> Positions]
  /\ checked \in [Deliveries -> Nat \cup {NotYet}]
  /\ nonce \in [Messages -> Nat \cup {NotYet}]
  /\ now \in Nat
  /\ ChecksAreFresh
  /\ KeyOutlivesCheck
  /\ ReplayOnlyIfExpiring

\* Whole seconds: what int(time()) says of the time.
LEMMA SecondBounds ==
  ASSUME NEW t \in Nat
  PROVE  /\ Second(t) \in Nat
         /\ Second(t) * Ticks <= t
         /\ t < (Second(t) + 1) * Ticks
<1>1. Ticks \in Nat /\ Ticks > 0
  BY AccessAssumption
<1>2. \A n \in Nat \ {0} : /\ t \div n \in Nat
                           /\ (t \div n) * n <= t
                           /\ t < (t \div n + 1) * n
  OBVIOUS
<1>3. QED
  BY <1>1, <1>2 DEF Second

\* A message passes from the second before its timestamp by the tolerance to
\* the one after it.
LEMMA PassingTimes ==
  ASSUME NEW m \in Messages, NEW t \in Nat, InTolerance(m, t)
  PROVE  (Timestamp[m] - Tolerance) * Ticks <= t /\ t < Stale(m)
<1>1. /\ Ticks \in Nat /\ Tolerance \in Nat /\ Timestamp[m] \in Nat
      /\ Second(t) \in Nat /\ Second(t) * Ticks <= t /\ t < (Second(t) + 1) * Ticks
  BY AccessAssumption, SecondBounds
<1>2. /\ Timestamp[m] - Tolerance <= Second(t)
      /\ Second(t) + 1 <= Timestamp[m] + Tolerance + 1
  BY <1>1 DEF InTolerance
<1>3. \A x, y \in Int : x <= y => x * Ticks <= y * Ticks
  BY <1>1
<1>4. /\ (Timestamp[m] - Tolerance) * Ticks <= Second(t) * Ticks
      /\ (Second(t) + 1) * Ticks <= (Timestamp[m] + Tolerance + 1) * Ticks
  BY <1>1, <1>2, <1>3
<1>5. (Timestamp[m] + Tolerance + 1) * Ticks \in Int /\ (Timestamp[m] - Tolerance) * Ticks \in Int
      /\ (Second(t) + 1) * Ticks \in Int /\ Second(t) * Ticks \in Int
  BY <1>1
<1>6. QED
  BY <1>1, <1>4, <1>5 DEF Stale

LEMMA KeyExpiryTypes ==
  ASSUME NEW t \in Nat
  PROVE  KeyExpiry(t) \in Nat /\ \A u \in Nat : t <= u => KeyExpiry(t) <= KeyExpiry(u)
<1>1. NonceTTL * Ticks \in Nat
  BY AccessAssumption
<1>2. QED
  BY <1>1 DEF KeyExpiry

\* Steps that leave the checks, the nonce keys and the clock alone, and send
\* nobody to the claim or back.
LEMMA QuietStep ==
  ASSUME NonceInv, at' \in [Deliveries -> Positions],
         UNCHANGED <<checked, nonce, now>>,
         \A d \in Deliveries :
           checked[d] # NotYet =>
             /\ at'[d] = "authenticated" <=> at[d] = "authenticated"
             /\ at'[d] \notin {"start", "resolved"}
  PROVE  NonceInv'
<1>0. \A d \in Deliveries : Accepted(d)' <=> Accepted(d)
  BY DEF Accepted
<1>1. ChecksAreFresh'
  BY DEF NonceInv, ChecksAreFresh, InTolerance
<1>2. KeyOutlivesCheck'
  BY <1>0 DEF NonceInv, KeyOutlivesCheck
<1>3. ReplayOnlyIfExpiring'
  BY <1>0 DEF NonceInv, ReplayOnlyIfExpiring, AcceptedTwice, Expiring
<1>4. QED
  BY <1>1, <1>2, <1>3 DEF NonceInv

\* The timestamp check.
LEMMA AuthenticateStep ==
  ASSUME NonceInv, NEW d \in Deliveries, authenticate(d)
  PROVE  NonceInv'
<1>0. at[d] = "resolved" /\ checked[d] = NotYet /\ UNCHANGED <<nonce, now>> /\ now \in Nat
  BY DEF authenticate, NonceInv, ChecksAreFresh
<1>1. at' \in [Deliveries -> Positions]
  BY DEF NonceInv, authenticate, Goto, Refused, Positions
<1>3. CASE InTolerance(MessageOf[d], now)
  <2>1. /\ checked' = [checked EXCEPT ![d] = now]
        /\ at' = [at EXCEPT ![d] = "authenticated"]
    BY <1>3 DEF authenticate, Goto
  <2>2. checked' \in [Deliveries -> Nat \cup {NotYet}]
    BY <2>1 DEF NonceInv
  <2>3. \A x \in Deliveries : x # d => checked'[x] = checked[x] /\ at'[x] = at[x]
    BY <2>1 DEF NonceInv
  <2>4. checked'[d] = now /\ at'[d] = "authenticated"
    BY <2>1 DEF NonceInv
  <2>5. ChecksAreFresh'
    <3> SUFFICES ASSUME NEW x \in Deliveries, checked'[x] # NotYet
                 PROVE  /\ checked'[x] \in 0..now
                        /\ InTolerance(MessageOf[x], checked'[x])
                        /\ at'[x] = "authenticated" => now <= checked'[x] + CheckDelay
                        /\ at'[x] \notin {"start", "resolved"}
      BY <1>0 DEF ChecksAreFresh, InTolerance
    <3>1. CASE x = d
      BY <1>0, <1>3, <2>4, <3>1, AccessAssumption
    <3>2. CASE x # d
      BY <2>3, <3>2 DEF NonceInv, ChecksAreFresh
    <3>3. QED
      BY <3>1, <3>2
  <2>6. \A x \in Deliveries : /\ Accepted(x)' <=> Accepted(x)
                              /\ Accepted(x) => checked'[x] = checked[x]
    BY <1>0, <2>3, <2>4 DEF Accepted
  <2>7. KeyOutlivesCheck'
    BY <1>0, <2>6 DEF NonceInv, KeyOutlivesCheck, KeyExpiry
  <2>8. ReplayOnlyIfExpiring'
    BY <2>6 DEF NonceInv, ReplayOnlyIfExpiring, AcceptedTwice, Expiring, KeyExpiry, Stale
  <2>9. QED
    BY <1>0, <1>1, <2>2, <2>5, <2>7, <2>8 DEF NonceInv
<1>4. CASE ~InTolerance(MessageOf[d], now)
  <2>1. /\ UNCHANGED checked
        /\ \A x \in Deliveries : x # d => at'[x] = at[x]
    BY <1>4 DEF NonceInv, authenticate, Goto, Refused
  <2>2. \A x \in Deliveries : checked[x] # NotYet => at'[x] = at[x] /\ at[x] \notin {"start", "resolved"}
    BY <1>0, <2>1 DEF NonceInv, ChecksAreFresh
  <2>3. QED
    BY <1>0, <1>1, <2>1, <2>2, QuietStep
<1>5. QED
  BY <1>3, <1>4

\* The claim, which may find the key, set it, or fail with or without having
\* set it.  A second delivery that finds no key comes after the key of the
\* first has expired, and before the message is stale.
LEMMA ClaimStep ==
  ASSUME NonceInv, NEW d \in Deliveries, claim(d)
  PROVE  NonceInv'
<1> DEFINE m == MessageOf[d]
           free == nonce[m] < now
<1>0. /\ m \in Messages /\ nonce[m] \in Nat \cup {NotYet} /\ now \in Nat
      /\ at[d] = "authenticated" /\ UNCHANGED now /\ CheckDelay \in Nat
      /\ \A n \in Messages : nonce[n] \in Int
  <2>1. /\ m \in Messages /\ now \in Nat /\ at[d] = "authenticated" /\ UNCHANGED now
        /\ CheckDelay \in Nat /\ \A n \in Messages : nonce[n] \in Nat \cup {NotYet}
    BY AccessAssumption DEF NonceInv, claim
  <2>2. NotYet \in Int
    BY DEF NotYet
  <2>3. QED
    BY <2>1, <2>2
<1>1. /\ nonce' \in {nonce, [nonce EXCEPT ![m] = IF free THEN KeyExpiry(now) ELSE @]}
      /\ \/ /\ free /\ at' = [at EXCEPT ![d] = "claimed"]
            /\ nonce' = [nonce EXCEPT ![m] = KeyExpiry(now)]
            /\ checked' = checked
         \/ /\ at' = [at EXCEPT ![d] = "refused"]
            /\ checked' = [checked EXCEPT ![d] = NotYet]
  BY DEF claim, Goto, Refused, NonceInv
<1>2. KeyExpiry(now) \in Nat
  BY <1>0, KeyExpiryTypes
<1>3. /\ at' \in [Deliveries -> Positions]
      /\ checked' \in [Deliveries -> Nat \cup {NotYet}]
      /\ nonce' \in [Messages -> Nat \cup {NotYet}]
  <2> HIDE DEF m
  <2>1. QED
    BY <1>0, <1>1, <1>2 DEF NonceInv, Positions
<1>4. /\ \A x \in Deliveries : x # d => checked'[x] = checked[x] /\ at'[x] = at[x]
      /\ at'[d] \in {"claimed", "refused"} /\ checked'[d] \in {checked[d], NotYet}
      /\ Accepted(d)' => /\ free /\ checked'[d] = checked[d] /\ checked[d] # NotYet
                         /\ nonce'[m] = KeyExpiry(now)
  BY <1>0, <1>1 DEF NonceInv, Accepted
<1>5. ~Accepted(d)
  BY <1>0 DEF Accepted
<1>6. \A n \in Messages : nonce'[n] \in Int /\ nonce'[n] >= nonce[n]
  <2> SUFFICES ASSUME NEW n \in Messages PROVE nonce'[n] \in Int /\ nonce'[n] >= nonce[n]
    OBVIOUS
  <2>1. free => KeyExpiry(now) >= nonce[m]
    <3>1. NonceTTL * Ticks \in Nat
      BY AccessAssumption
    <3>2. QED
      BY <1>0, <3>1 DEF KeyExpiry
  <2>2. CASE n = m
    BY <1>0, <1>1, <1>2, <2>1, <2>2 DEF NonceInv
  <2>3. CASE n # m
    BY <1>0, <1>1, <2>3 DEF NonceInv
  <2>4. QED
    BY <2>2, <2>3
<1>7. ChecksAreFresh'
  <2> SUFFICES ASSUME NEW x \in Deliveries, checked'[x] # NotYet
               PROVE  /\ checked'[x] \in 0..now
                      /\ InTolerance(MessageOf[x], checked'[x])
                      /\ at'[x] = "authenticated" => now <= checked'[x] + CheckDelay
                      /\ at'[x] \notin {"start", "resolved"}
    BY <1>0 DEF ChecksAreFresh, InTolerance
  <2>1. checked'[x] = checked[x]
    BY <1>4
  <2>2. QED
    BY <1>4, <2>1 DEF NonceInv, ChecksAreFresh
<1>8. \A x \in Deliveries : x # d => (Accepted(x)' <=> Accepted(x))
  BY <1>4 DEF Accepted
<1>9. \A x \in Deliveries : Accepted(x)' => /\ checked'[x] = checked[x] /\ checked[x] \in Nat
                                            /\ checked[x] <= now
  BY <1>0, <1>4, <1>8 DEF Accepted, NonceInv, ChecksAreFresh
<1>10. KeyOutlivesCheck'
  <2> SUFFICES ASSUME NEW x \in Deliveries, Accepted(x)'
               PROVE  nonce'[MessageOf[x]] >= KeyExpiry(checked[x])
    BY <1>9 DEF KeyOutlivesCheck, KeyExpiry
  <2>0. MessageOf[x] \in Messages /\ KeyExpiry(checked[x]) \in Nat
    BY <1>9, AccessAssumption, KeyExpiryTypes
  <2>1. CASE x # d
    <3>1. nonce[MessageOf[x]] >= KeyExpiry(checked[x])
      BY <1>8, <2>1 DEF NonceInv, KeyOutlivesCheck
    <3>2. nonce[MessageOf[x]] \in Int /\ nonce'[MessageOf[x]] \in Int
          /\ nonce'[MessageOf[x]] >= nonce[MessageOf[x]]
      BY <1>0, <1>6, <2>0
    <3>3. QED
      BY <2>0, <3>1, <3>2
  <2>2. CASE x = d
    <3>1. nonce'[m] = KeyExpiry(now)
      BY <1>4, <2>2
    <3>2. KeyExpiry(checked[x]) <= KeyExpiry(now)
      BY <1>0, <1>9, KeyExpiryTypes
    <3>3. QED
      BY <1>2, <2>0, <2>2, <3>1, <3>2
  <2>3. QED
    BY <2>1, <2>2
<1>11. ASSUME NEW x \in Deliveries, MessageOf[x] = m, Accepted(x), Accepted(d)'
       PROVE  Expiring(x)
  <2>1. checked[d] \in Nat /\ now <= checked[d] + CheckDelay /\ InTolerance(m, checked[d])
    BY <1>0, <1>4, <1>9, <1>11 DEF NonceInv, ChecksAreFresh
  <2>2. checked[d] < Stale(m)
    BY <1>0, <2>1, PassingTimes
  <2>3. nonce[m] >= KeyExpiry(checked[x]) /\ nonce[m] < now
    BY <1>4, <1>11 DEF NonceInv, KeyOutlivesCheck
  <2>4. checked[x] \in Nat
    BY <1>11 DEF NonceInv, Accepted
  <2>5. KeyExpiry(checked[x]) \in Nat /\ Stale(m) \in Int
    <3>1. Timestamp[m] \in Nat /\ Tolerance \in Nat /\ Ticks \in Nat
      BY <1>0, AccessAssumption
    <3>2. QED
      BY <2>4, <3>1, KeyExpiryTypes DEF Stale
  <2>6. KeyExpiry(checked[x]) < Stale(m) + CheckDelay
    BY <1>0, <2>1, <2>2, <2>3, <2>5
  <2>7. QED
    BY <1>11, <2>6 DEF Expiring
<1>12. ReplayOnlyIfExpiring'
  <2> HIDE DEF m
  <2> SUFFICES ASSUME NEW x \in Deliveries, NEW y \in Deliveries, AcceptedTwice(x, y)'
               PROVE  Expiring(x)' \/ Expiring(y)'
    BY DEF ReplayOnlyIfExpiring
  <2>1. /\ x # y /\ MessageOf[x] = MessageOf[y] /\ Accepted(x)' /\ Accepted(y)'
        /\ checked'[x] = checked[x] /\ checked'[y] = checked[y]
    BY <1>9 DEF AcceptedTwice
  <2>2. Expiring(x) => Expiring(x)'
    BY <2>1 DEF Expiring, KeyExpiry, Stale
  <2>3. Expiring(y) => Expiring(y)'
    BY <2>1 DEF Expiring, KeyExpiry, Stale
  <2>4. CASE x = d
    BY <1>8, <1>11, <2>1, <2>3, <2>4 DEF m
  <2>5. CASE y = d
    BY <1>8, <1>11, <2>1, <2>2, <2>5 DEF m
  <2>6. CASE x # d /\ y # d
    BY <1>8, <2>1, <2>2, <2>3, <2>6 DEF NonceInv, ReplayOnlyIfExpiring, AcceptedTwice
  <2>7. QED
    BY <2>4, <2>5, <2>6
<1>13. QED
  BY <1>0, <1>3, <1>7, <1>10, <1>12 DEF NonceInv

\* Time passes, but not past the deadline of a request between the checks.
LEMMA TickStep ==
  ASSUME NonceInv, Tick
  PROVE  NonceInv'
<1>1. UNCHANGED <<at, checked, nonce>> /\ now' = now + 1 /\ now \in Nat /\ CheckDelay \in Nat
  BY AccessAssumption DEF Tick, NonceInv
<1>2. ChecksAreFresh'
  <2> SUFFICES ASSUME NEW x \in Deliveries, checked[x] # NotYet
               PROVE  /\ checked[x] \in 0..(now + 1)
                      /\ InTolerance(MessageOf[x], checked[x])
                      /\ at[x] = "authenticated" => now + 1 <= checked[x] + CheckDelay
                      /\ at[x] \notin {"start", "resolved"}
    BY <1>1 DEF ChecksAreFresh, InTolerance
  <2>1. /\ InTolerance(MessageOf[x], checked[x]) /\ checked[x] \in 0..now
        /\ at[x] = "authenticated" => now < checked[x] + CheckDelay
        /\ at[x] \notin {"start", "resolved"}
    BY DEF NonceInv, ChecksAreFresh, Tick
  <2>2. QED
    BY <1>1, <2>1
<1>3. KeyOutlivesCheck' /\ ReplayOnlyIfExpiring'
  BY <1>1 DEF NonceInv, KeyOutlivesCheck, ReplayOnlyIfExpiring, AcceptedTwice, Accepted,
              Expiring, KeyExpiry, Stale
<1>4. QED
  BY <1>1, <1>2, <1>3 DEF NonceInv

\* The steps of a request after the claim, and credential resolution.
LEMMA OtherStep ==
  ASSUME NonceInv, NEW d \in Deliveries,
         _resolve(d) \/ load_policy(d) \/ admit(d) \/ reserve(d) \/ respond(d)
  PROVE  NonceInv'
<1>1. UNCHANGED <<checked, nonce, now>>
  BY DEF _resolve, load_policy, admit, reserve, respond
<1>2. PICK p \in {"resolved", "loaded", "admitted", "served", "refused"} :
        at' = [at EXCEPT ![d] = p]
  BY DEF _resolve, load_policy, admit, reserve, respond, Goto, Refused
<1>3. at[d] # "authenticated" /\ (p = "resolved" => at[d] = "start")
  BY <1>2 DEF _resolve, load_policy, admit, reserve, respond, Goto, Refused, NonceInv
<1>4. at' \in [Deliveries -> Positions]
  BY <1>2 DEF NonceInv, Positions
<1>5. \A x \in Deliveries : checked[x] # NotYet =>
        /\ at'[x] = "authenticated" <=> at[x] = "authenticated"
        /\ at'[x] \notin {"start", "resolved"}
  BY <1>2, <1>3 DEF NonceInv, ChecksAreFresh
<1>6. QED
  BY <1>1, <1>4, <1>5, QuietStep

\* The nonce guard's invariant holds in every state.
LEMMA NonceInvHolds == Spec => []NonceInv
<1>1. Init => NonceInv
  <2> SUFFICES ASSUME Init PROVE NonceInv
    OBVIOUS
  <2>1. \A d \in Deliveries : checked[d] = NotYet
    BY DEF Init
  <2>2. \A d \in Deliveries : ~Accepted(d)
    BY <2>1 DEF Accepted
  <2>3. QED
    BY <2>1, <2>2 DEF Init, NonceInv, Positions, ChecksAreFresh, KeyOutlivesCheck,
                      ReplayOnlyIfExpiring, AcceptedTwice
<1>2. NonceInv /\ [Next]_vars => NonceInv'
  <2> SUFFICES ASSUME NonceInv, [Next]_vars PROVE NonceInv'
    OBVIOUS
  <2>1. ASSUME NEW d \in Deliveries, Handle(d) PROVE NonceInv'
    BY <2>1, AuthenticateStep, ClaimStep, OtherStep DEF Handle
  <2>2. ASSUME UNCHANGED accvars PROVE NonceInv'
    <3>1. UNCHANGED <<at, checked, nonce, now>>
      BY <2>2 DEF accvars
    <3>2. \A x \in Deliveries : checked[x] # NotYet => at[x] \notin {"start", "resolved"}
      BY DEF NonceInv, ChecksAreFresh
    <3>3. at' \in [Deliveries -> Positions]
      BY <3>1 DEF NonceInv
    <3>4. QED
      BY <3>1, <3>2, <3>3, QuietStep
  <2>3. QED
    BY <2>1, <2>2, TickStep DEF Next, vars
<1>3. QED
  BY <1>1, <1>2, PTL DEF Spec

\* For any number of messages and deliveries, with the key lifetime the
\* settings demand, whatever Valkey calls fail and whatever administrators
\* do: a message gets past the nonce guard twice only if it was accepted in
\* the first second in which it passes.
THEOREM ReplaysAreEarly == Spec => []ReplayOnlyIfEarly
<1>1. ASSUME NonceInv, NEW d \in Deliveries, Accepted(d), Expiring(d) PROVE Early(d)
  <2> DEFINE m == MessageOf[d]
             ts == Timestamp[m]
             key == NonceTTL * Ticks
             twice == (2 * Tolerance) * Ticks
             stale == (ts + Tolerance + 1) * Ticks
             first == (ts - Tolerance + 1) * Ticks
  <2>0. /\ checked[d] \in Nat /\ ts \in Nat /\ CheckDelay \in Nat
        /\ Tolerance \in Nat /\ Ticks \in Nat /\ NonceTTL \in Nat
    BY <1>1, AccessAssumption DEF NonceInv, Accepted
  <2> HIDE DEF m, ts
  <2>1. key \in Int /\ twice \in Int /\ stale \in Int /\ first \in Int
    BY <2>0
  <2>2. key >= twice
    <3>1. \A x, y \in Nat : x >= y => x * Ticks >= y * Ticks
      BY <2>0
    <3>2. QED
      BY <2>0, <3>1, NonceAssumption
  <2>3. stale = first + twice
    BY <2>0
  <2>4. checked[d] + key < stale + CheckDelay
    BY <1>1 DEF Expiring, KeyExpiry, Stale, m, ts
  <2> HIDE DEF key, twice, stale, first
  <2>5. checked[d] < first + CheckDelay
    BY <2>0, <2>1, <2>2, <2>3, <2>4
  <2>6. QED
    BY <2>5 DEF Early, first, ts, m
<1>2. NonceInv => ReplayOnlyIfEarly
  BY <1>1 DEF NonceInv, ReplayOnlyIfExpiring, ReplayOnlyIfEarly, AcceptedTwice
<1>3. QED
  BY <1>2, NonceInvHolds, PTL

\* With keys that live a second longer than the settings demand, and as long
\* again as a request may take from the timestamp check to the claim, a
\* message gets past the nonce guard once.
THEOREM LongKeysAcceptOnce ==
  ASSUME NonceTTL * Ticks >= (2 * Tolerance + 1) * Ticks + CheckDelay
  PROVE  Spec => []SignedOnce
<1>1. ASSUME NonceInv, NEW d \in Deliveries, Accepted(d) PROVE ~Expiring(d)
  <2> DEFINE m == MessageOf[d]
             ts == Timestamp[m]
             key == NonceTTL * Ticks
             width == (2 * Tolerance + 1) * Ticks
             stale == (ts + Tolerance + 1) * Ticks
             first == (ts - Tolerance) * Ticks
  <2>0. /\ checked[d] \in Nat /\ ts \in Nat /\ CheckDelay \in Nat /\ m \in Messages
        /\ Tolerance \in Nat /\ Ticks \in Nat /\ NonceTTL \in Nat /\ InTolerance(m, checked[d])
    BY <1>1, AccessAssumption DEF NonceInv, Accepted, ChecksAreFresh
  <2>1. first <= checked[d]
    BY <2>0, PassingTimes
  <2> HIDE DEF m, ts
  <2>2. key \in Int /\ width \in Int /\ stale \in Int /\ first \in Int
    BY <2>0
  <2>3. stale = first + width
    BY <2>0
  <2>4. key >= width + CheckDelay
    OBVIOUS
  <2>5. Expiring(d) => checked[d] + key < stale + CheckDelay
    BY DEF Expiring, KeyExpiry, Stale, m, ts
  <2> HIDE DEF key, width, stale, first
  <2>6. QED
    BY <2>0, <2>1, <2>2, <2>3, <2>4, <2>5
<1>2. NonceInv => SignedOnce
  BY <1>1 DEF NonceInv, ReplayOnlyIfExpiring, SignedOnce, AcceptedTwice
<1>3. QED
  BY <1>2, NonceInvHolds, PTL

\* A step that adds an operation is the reservation of one delivery, which
\* finds its caller and credential active and its endpoint permitted, and
\* moves nobody else.
LEMMA ReservationStep ==
  ASSUME NonceInv, Next, operation' # operation
  PROVE  \A d \in Deliveries :
           at[d] # "served" /\ at'[d] = "served" => CallerActive(d) /\ Permitted(d)
<1>1. PICK d \in Deliveries : reserve(d)
  BY DEF Next, Handle, Tick, accvars, _resolve, authenticate, claim, load_policy,
         admit, respond
<1>2. CallerActive(d) /\ Permitted(d) /\ at' = [at EXCEPT ![d] = "served"]
  BY <1>1 DEF reserve, Goto
<1>3. QED
  BY <1>2 DEF NonceInv

\* However far a chat request had come when its caller was disabled, its
\* credential revoked or its permission withdrawn, and whatever policy it had
\* loaded before: it reserves nothing, since reserve_operation reads them
\* again under lock.
THEOREM RevocationStopsReservations == Spec => NoReservationAfterRevocation
<1>1. NonceInv /\ [Next]_vars =>
        [operation' # operation =>
           \A d \in Deliveries :
             at[d] # "served" /\ at'[d] = "served" => CallerActive(d) /\ Permitted(d)]_vars
  BY ReservationStep
<1>2. QED
  BY <1>1, NonceInvHolds, PTL DEF Spec, NoReservationAfterRevocation

-----------------------------------------------------------------------------
(* The QPS window *)

\* A caller that is there has a qps_limit, and a patch that is on its way is
\* one an administrator may send.
ColumnsInv ==
  /\ AccountInv
  /\ client # Absent =>
       "qps_limit" \in DOMAIN client.columns /\ client.columns["qps_limit"] \in Nat
  /\ \A a \in Admins : request[a].op = "update" => request[a].patch \in Patches

\* A flush writes a limit that is one, or leaves the one in the table.
LEMMA FlushKeepsLimit ==
  ASSUME DOMAIN client = {"status", "version", "columns"},
         "qps_limit" \in DOMAIN client.columns, client.columns["qps_limit"] \in Nat,
         NEW row, NEW columns, columns \in Patches \/ DOMAIN columns = {}
  PROVE  /\ "qps_limit" \in DOMAIN Flushed(row, columns).columns
         /\ Flushed(row, columns).columns["qps_limit"] \in Nat
<1>1. "qps_limit" \in DOMAIN columns => columns["qps_limit"] \in Nat
  BY LimitAssumption
<1>2. Flushed(row, columns).columns =
        [f \in DOMAIN client.columns |->
           IF f \in DOMAIN columns /\ columns[f] # row.columns[f]
             THEN columns[f] ELSE client.columns[f]]
  BY DEF Flushed
<1>3. QED
  BY <1>1, <1>2

\* Every step of an administrator keeps the caller's limit a number.
LEMMA ColumnsStep == ColumnsInv /\ (CallerStep \/ UNCHANGED avars) => ColumnsInv'
<1> SUFFICES ASSUME ColumnsInv, CallerStep \/ UNCHANGED avars PROVE ColumnsInv'
  OBVIOUS
<1>0. AccountInv /\ AccountInv' /\ DOMAIN client = {"status", "version", "columns"}
  BY AccountStep DEF ColumnsInv, AccountInv, AdminInv
<1>1. ASSUME client' = client \/ (client' # Absent => /\ "qps_limit" \in DOMAIN client'.columns
                                                      /\ client'.columns["qps_limit"] \in Nat),
             \A a \in Admins : \/ request'[a] = request[a]
                               \/ request'[a].op # "update"
                               \/ request'[a].patch \in Patches
      PROVE  ColumnsInv'
  BY <1>0, <1>1 DEF ColumnsInv
<1>2. ASSUME NEW a \in Admins, NEW r, Start(a, r), r.op = "update" => r.patch \in Patches
      PROVE  \A b \in Admins : \/ request'[b] = request[b]
                               \/ request'[b].op # "update"
                               \/ request'[b].patch \in Patches
  BY <1>0, <1>2 DEF Start, AccountInv
<1>3. ASSUME NEW a \in Admins, End(a)
      PROVE  \A b \in Admins : \/ request'[b] = request[b]
                               \/ request'[b].op # "update"
                               \/ request'[b].patch \in Patches
  <2>1. Start(a, Idle) /\ Idle.op # "update"
    BY <1>3 DEF Start, End, Idle
  <2>2. QED
    BY <1>2, <2>1
<1>4. ASSUME NEW c \in Credentials, NEW s \in Settings, create_caller(c, s)
      PROVE  ColumnsInv'
  <2>1. client'.columns = s /\ request' = request
    BY <1>4 DEF create_caller
  <2>2. "qps_limit" \in DOMAIN s /\ s["qps_limit"] \in Nat
    BY LimitAssumption
  <2>3. QED
    BY <1>1, <2>1, <2>2
<1>5. ASSUME NEW a \in Admins, Opened(a), End(a), NEW columns,
             columns \in Patches \/ DOMAIN columns = {},
             client'.columns = Flushed(request[a].row, columns).columns
      PROVE  ColumnsInv'
  <2>1. "qps_limit" \in DOMAIN client.columns /\ client.columns["qps_limit"] \in Nat
    BY <1>0, <1>5 DEF ColumnsInv, AccountInv
  <2>2. "qps_limit" \in DOMAIN client'.columns /\ client'.columns["qps_limit"] \in Nat
    BY <1>0, <1>5, <2>1, FlushKeepsLimit
  <2>3. QED
    BY <1>1, <1>3, <1>5, <2>2
<1>6. ASSUME NEW a \in Admins, commit_update(a) PROVE ColumnsInv'
  <2>1. /\ Opened(a) /\ End(a) /\ request[a].op = "update"
        /\ client' = Flushed(request[a].row, request[a].patch)
    BY <1>6 DEF commit_update, At, Opened
  <2>2. request[a].patch \in Patches
    BY <2>1 DEF ColumnsInv
  <2>3. QED
    BY <1>5, <2>1, <2>2
<1>7. DOMAIN <<>> = {}
  OBVIOUS
<1>8. ASSUME NEW a \in Admins, commit_rotate(a) \/ commit_revoke(a) PROVE ColumnsInv'
  <2>1. /\ Opened(a) /\ End(a)
        /\ client' = Flushed(request[a].row, <<>>)
    BY <1>8 DEF commit_rotate, commit_revoke, At, Opened
  <2>2. QED
    BY <1>5, <1>7, <2>1
<1>9. ASSUME NEW a \in Admins, commit_disable(a) PROVE ColumnsInv'
  <2> DEFINE flushed == Flushed(request[a].row, <<>>)
  <2>1. Opened(a) /\ End(a) /\ client' = [flushed EXCEPT !.status = "disabled"]
    BY <1>9 DEF commit_disable, At, Opened
  <2>2. DOMAIN flushed = {"status", "version", "columns"}
    BY <1>0, FlushKeepsStatus
  <2>3. client'.columns = flushed.columns
    <3> HIDE DEF flushed
    <3>1. QED
      BY <2>1, <2>2
  <2>4. QED
    BY <1>5, <1>7, <2>1, <2>3
<1>10. ASSUME NEW a \in Admins, NEW p \in Patches, NEW v, read_update(a, p, v)
       PROVE  ColumnsInv'
  <2> DEFINE r == [op |-> "update", step |-> "commit", row |-> client, patch |-> p]
  <2>1. client' = client /\ Start(a, r) /\ r.patch \in Patches
    BY <1>10 DEF read_update
  <2> HIDE DEF r
  <2>2. QED
    BY <1>1, <1>2, <2>1
<1>11. ASSUME NEW a \in Admins,
              \/ read_disable(a)
              \/ \E c \in Credentials : read_rotate(a, c) \/ read_revoke(a, c)
              \/ load_rotate(a)
       PROVE  ColumnsInv'
  <2>1. client' = client /\ \E r : r.op # "update" /\ Start(a, r)
    BY <1>11 DEF read_disable, read_rotate, read_revoke, load_rotate
  <2>2. QED
    BY <1>1, <1>2, <2>1
<1>12. ASSUME NEW a \in Admins, load_revoke(a) PROVE ColumnsInv'
  <2> DEFINE r == [request[a] EXCEPT !.step = "commit"]
  <2>1. request[a].op = "revoke" /\ client' = client /\ (Start(a, r) \/ End(a))
    BY <1>12 DEF load_revoke, At
  <2>2. r.op # "update"
    BY <1>0, <2>1 DEF AccountInv
  <2> HIDE DEF r
  <2>3. QED
    BY <1>1, <1>2, <1>3, <2>1, <2>2
<1>13. ASSUME NEW a \in Admins, Rollback(a) PROVE ColumnsInv'
  BY <1>1, <1>3, <1>13 DEF Rollback
<1>14. CASE UNCHANGED avars
  BY <1>1, <1>14 DEF avars
<1>15. QED
  BY <1>4, <1>6, <1>8, <1>9, <1>10, <1>11, <1>12, <1>13, <1>14 DEF CallerStep

WindowTypes ==
  /\ at \in [Deliveries -> Positions]
  /\ limit \in [Deliveries -> Nat]
  /\ admissions \in Seq(Deliveries \X Nat)
  /\ now \in Nat
  /\ IsFiniteSet(window)

Unadmitted == {"start", "resolved", "authenticated", "claimed", "loaded"}

\* The sorted set still has every admission that a window ending now covers.
\* A delivery has an admission only once it is past the window, so it has one
\* and the limit it was admitted under does not change any more.
Remembered ==
  \A k \in 1..Len(admissions) :
    /\ at[admissions[k][1]] \notin Unadmitted
    /\ admissions[k][2] <= now
    /\ admissions[k][2] > now - Window => admissions[k] \in window
    /\ \A j \in 1..Len(admissions) : admissions[j][1] = admissions[k][1] => j = k

\* The admissions in the window that ends with the k-th.
Recent(k) == {j \in 1..k : admissions[j][2] > admissions[k][2] - Window}

Within(k) == Cardinality(Recent(k)) <= limit[admissions[k][1]]

WindowInv ==
  /\ WindowTypes
  /\ Remembered
  /\ \A k \in 1..Len(admissions) : Within(k)

\* A step that admits nobody, forgets nothing a window still covers and loads
\* no limit for a delivery that was admitted.
LEMMA WindowFrame ==
  ASSUME WindowInv, WindowTypes', admissions' = admissions, now' \in {now, now + 1},
         \A d \in Deliveries :
           at[d] \notin Unadmitted => limit'[d] = limit[d] /\ at'[d] \notin Unadmitted,
         \A x \in InWindow(now) : x \in window'
  PROVE  WindowInv'
<1>1. now \in Nat /\ Window \in Nat /\ admissions \in Seq(Deliveries \X Nat)
  BY AccessAssumption DEF WindowInv, WindowTypes
<1>2. ASSUME NEW k \in 1..Len(admissions)
      PROVE  /\ admissions[k] \in Deliveries \X Nat
             /\ admissions[k][1] \in Deliveries /\ admissions[k][2] \in Nat
             /\ at[admissions[k][1]] \notin Unadmitted
             /\ admissions[k][2] <= now
             /\ admissions[k][2] > now - Window => admissions[k] \in window
             /\ \A j \in 1..Len(admissions) : admissions[j][1] = admissions[k][1] => j = k
  <2>1. admissions[k] \in Deliveries \X Nat
    BY <1>1
  <2>2. QED
    BY <2>1 DEF WindowInv, Remembered
<1>3. Remembered'
  <2> SUFFICES ASSUME NEW k \in 1..Len(admissions)
               PROVE  /\ at'[admissions[k][1]] \notin Unadmitted
                      /\ admissions[k][2] <= now'
                      /\ admissions[k][2] > now' - Window => admissions[k] \in window'
                      /\ \A j \in 1..Len(admissions) :
                           admissions[j][1] = admissions[k][1] => j = k
    BY DEF Remembered, Unadmitted
  <2>1. /\ admissions[k][2] <= now'
        /\ admissions[k][2] > now' - Window => admissions[k][2] > now - Window
    BY <1>1, <1>2
  <2>2. admissions[k][2] > now - Window => admissions[k] \in InWindow(now)
    BY <1>2 DEF InWindow
  <2>3. QED
    BY <1>2, <2>1, <2>2
<1>4. ASSUME NEW k \in 1..Len(admissions) PROVE Within(k)'
  <2>1. Recent(k)' = Recent(k) /\ Within(k)
    BY DEF Recent, WindowInv
  <2>2. limit'[admissions[k][1]] = limit[admissions[k][1]]
    BY <1>2
  <2>3. QED
    BY <2>1, <2>2 DEF Within
<1>5. QED
  BY <1>3, <1>4 DEF WindowInv

\* The script admits below the limit: whoever the window that ends now has
\* besides is still in the sorted set and has been counted.
LEMMA AdmissionStep ==
  ASSUME WindowInv, NEW d \in Deliveries, at[d] = "loaded",
         Cardinality(InWindow(now)) < limit[d],
         window' = InWindow(now) \cup {<<d, now>>},
         at' = [at EXCEPT ![d] = "admitted"],
         admissions' = Append(admissions, <<d, now>>),
         UNCHANGED <<limit, now>>
  PROVE  WindowInv'
<1> DEFINE kept == InWindow(now)
<1>1. /\ now \in Nat /\ Window \in Nat /\ Window > 0 /\ limit \in [Deliveries -> Nat] /\ limit[d] \in Nat
      /\ admissions \in Seq(Deliveries \X Nat) /\ at \in [Deliveries -> Positions]
  BY AccessAssumption DEF WindowInv, WindowTypes
<1>n. PICK n \in Nat : n = Len(admissions)
  BY <1>1
<1>2. /\ Len(admissions') = n + 1
      /\ \A k \in 1..n : admissions'[k] = admissions[k]
      /\ admissions'[n + 1] = <<d, now>>
      /\ admissions' \in Seq(Deliveries \X Nat)
  BY <1>1, <1>n
<1>e. admissions'[n + 1][1] = d /\ admissions'[n + 1][2] = now
  BY <1>2
<1>3. IsFiniteSet(kept) /\ Cardinality(kept) \in Nat
  <2>1. kept \in SUBSET window
    BY DEF InWindow
  <2>2. QED
    BY <2>1, FS_Subset, FS_CardinalityType DEF WindowInv, WindowTypes
<1>4. WindowTypes'
  <2>1. IsFiniteSet(window')
    BY <1>3, FS_AddElement
  <2>2. QED
    BY <1>1, <1>2, <2>1 DEF WindowTypes, Positions
<1>5. ASSUME NEW k \in 1..n
      PROVE  /\ admissions[k] \in Deliveries \X Nat /\ admissions[k][1] \in Deliveries
             /\ admissions[k][2] \in Nat /\ admissions[k][2] <= now
             /\ admissions[k][1] # d /\ at'[admissions[k][1]] \notin Unadmitted
             /\ admissions[k][2] > now - Window => admissions[k] \in kept
             /\ \A j \in 1..n : admissions[j][1] = admissions[k][1] => j = k
  <2>1. /\ admissions[k] \in Deliveries \X Nat /\ admissions[k][1] \in Deliveries
        /\ admissions[k][2] \in Nat
    BY <1>1, <1>n
  <2>2. /\ at[admissions[k][1]] \notin Unadmitted /\ admissions[k][2] <= now
        /\ admissions[k][2] > now - Window => admissions[k] \in window
        /\ \A j \in 1..n : admissions[j][1] = admissions[k][1] => j = k
    BY <1>n DEF WindowInv, Remembered
  <2>3. admissions[k][1] # d
    BY <2>2 DEF Unadmitted
  <2>4. at'[admissions[k][1]] = at[admissions[k][1]]
    BY <1>1, <2>1, <2>3
  <2>5. QED
    BY <2>1, <2>2, <2>3, <2>4 DEF InWindow
<1>6. at'[d] \notin Unadmitted
  BY <1>1 DEF Unadmitted
<1> HIDE DEF kept
<1>7. \A k \in 1..(n + 1) : k \in 1..n \/ k = n + 1
  BY <1>2
<1>8. Remembered'
  <2> SUFFICES ASSUME NEW k \in 1..(n + 1)
               PROVE  /\ at'[admissions'[k][1]] \notin Unadmitted
                      /\ admissions'[k][2] <= now
                      /\ admissions'[k][2] > now - Window => admissions'[k] \in window'
                      /\ \A j \in 1..(n + 1) : admissions'[j][1] = admissions'[k][1] => j = k
    BY <1>2 DEF Remembered, Unadmitted
  <2>1. CASE k = n + 1
    <3>1. admissions'[k] = <<d, now>> /\ admissions'[k] \in window'
      BY <1>2, <2>1
    <3>2. ASSUME NEW j \in 1..n PROVE admissions'[j][1] # d
      BY <1>2, <1>5
    <3>3. \A j \in 1..(n + 1) : admissions'[j][1] = admissions'[k][1] => j = k
      BY <1>7, <2>1, <3>1, <3>2
    <3>4. now <= now
      BY <1>1
    <3>5. QED
      BY <1>e, <1>6, <2>1, <3>1, <3>3, <3>4
  <2>2. CASE k \in 1..n
    <3>1. admissions'[k] = admissions[k]
      BY <1>2, <2>2
    <3>2. ASSUME NEW j \in 1..(n + 1), admissions'[j][1] = admissions[k][1] PROVE j = k
      <4>1. j # n + 1
        BY <1>e, <1>5, <2>2, <3>2
      <4>2. j \in 1..n /\ admissions'[j] = admissions[j]
        BY <1>2, <1>7, <4>1
      <4>3. QED
        BY <1>5, <2>2, <3>2, <4>2
    <3>3. QED
      BY <1>5, <2>2, <3>1, <3>2 DEF kept
  <2>3. QED
    BY <1>7, <2>1, <2>2
<1>9. ASSUME NEW k \in 1..n PROVE Within(k)'
  <2>1. \A j \in 1..k : j \in 1..n
    BY <1>2
  <2>2. Recent(k)' = Recent(k) /\ limit'[admissions'[k][1]] = limit[admissions[k][1]]
    BY <1>2, <2>1 DEF Recent
  <2>3. Within(k)
    BY <1>n DEF WindowInv
  <2>4. QED
    BY <2>2, <2>3 DEF Within
<1>10. Within(n + 1)'
  <2> DEFINE old == {j \in 1..n : admissions[j][2] > now - Window}
             f == [j \in old |-> admissions[j]]
  <2>1. Recent(n + 1)' = old \cup {n + 1} /\ n + 1 \notin old
    <3>1. \A j \in 1..(n + 1) : admissions'[j][2] > now - Window <=> j \in old \/ j = n + 1
      <4>1. now > now - Window
        BY <1>1
      <4>2. \A j \in 1..n : admissions'[j][2] > now - Window <=> j \in old
        BY <1>2
      <4>3. n + 1 \notin 1..n
        BY <1>n
      <4>4. QED
        BY <1>e, <1>7, <4>1, <4>2, <4>3
    <3>2. n + 1 \in 1..(n + 1) /\ \A j \in 1..n : j \in 1..(n + 1) /\ j # n + 1
      BY <1>2
    <3>3. Recent(n + 1)' = {j \in 1..(n + 1) : admissions'[j][2] > now - Window}
      BY <1>2 DEF Recent
    <3>4. QED
      BY <3>1, <3>2, <3>3
  <2>2. f \in Injection(old, kept)
    <3>1. \A j \in old : admissions[j] \in kept
      BY <1>5
    <3>2. \A j, k \in old : admissions[j] = admissions[k] => j = k
      BY <1>5
    <3> HIDE DEF old
    <3>3. QED
      BY <3>1, <3>2 DEF Injection, IsInjective
  <2> HIDE DEF old
  <2>3. IsFiniteSet(old) /\ Cardinality(old) <= Cardinality(kept)
    BY <1>3, <2>2, FS_Injection
  <2>4. Cardinality(old) \in Nat
    BY <2>3, FS_CardinalityType
  <2>5. Cardinality(old \cup {n + 1}) = Cardinality(old) + 1
    BY <2>1, <2>3, FS_AddElement
  <2>6. Cardinality(kept) < limit[d]
    BY DEF kept
  <2>7. Cardinality(Recent(n + 1)') <= limit[d]
    <3>1. Cardinality(Recent(n + 1)') = Cardinality(old) + 1
      BY <2>1, <2>5
    <3>2. Cardinality(old) + 1 <= limit[d]
      BY <1>1, <1>3, <2>3, <2>4, <2>6
    <3>3. QED
      BY <3>1, <3>2
  <2>8. limit'[admissions'[n + 1][1]] = limit[d]
    BY <1>2
  <2>9. QED
    BY <2>7, <2>8 DEF Within
<1>11. \A k \in 1..Len(admissions') : Within(k)'
  BY <1>2, <1>7, <1>9, <1>10
<1>12. QED
  BY <1>4, <1>8, <1>11 DEF WindowInv

\* Every step of a delivery, of time and of an administrator.
LEMMA WindowStep == WindowInv /\ ColumnsInv /\ [Next]_vars => WindowInv'
<1> SUFFICES ASSUME WindowInv, ColumnsInv, [Next]_vars PROVE WindowInv'
  OBVIOUS
<1>0. /\ at \in [Deliveries -> Positions] /\ limit \in [Deliveries -> Nat] /\ now \in Nat
      /\ admissions \in Seq(Deliveries \X Nat) /\ IsFiniteSet(window)
      /\ \A t : InWindow(t) \subseteq window
  BY DEF WindowInv, WindowTypes, InWindow
<1>1. ASSUME NEW d \in Deliveries,
             _resolve(d) \/ authenticate(d) \/ claim(d) \/ reserve(d) \/ respond(d)
      PROVE  WindowInv'
  <2>1. UNCHANGED <<limit, admissions, window, now>>
    BY <1>1 DEF _resolve, authenticate, claim, reserve, respond
  <2>2. \E p \in Positions : at' = [at EXCEPT ![d] = p]
    BY <1>1 DEF _resolve, authenticate, claim, reserve, respond, Goto, Refused, Positions
  <2>3. at[d] \notin Unadmitted => at'[d] \notin Unadmitted
    BY <1>0, <1>1 DEF _resolve, authenticate, claim, reserve, respond, Goto, Refused, Unadmitted
  <2>4. WindowTypes'
    BY <1>0, <2>1, <2>2 DEF WindowTypes
  <2>5. QED
    BY <1>0, <2>1, <2>2, <2>3, <2>4, WindowFrame
<1>2. ASSUME NEW d \in Deliveries, load_policy(d) PROVE WindowInv'
  <2>1. at[d] = "claimed" /\ UNCHANGED <<admissions, window, now>>
    BY <1>2 DEF load_policy
  <2>3. \/ at' = [at EXCEPT ![d] = "refused"] /\ limit' = limit
        \/ /\ at' = [at EXCEPT ![d] = "loaded"] /\ client.status = "active"
           /\ limit' = [limit EXCEPT ![d] = client.columns["qps_limit"]]
    BY <1>2 DEF load_policy, Goto, Refused, CallerActive
  <2>4. client.status = "active" => client.columns["qps_limit"] \in Nat
    BY DEF ColumnsInv, Absent
  <2>5. WindowTypes'
    BY <1>0, <2>1, <2>3, <2>4 DEF WindowTypes, Positions
  <2>6. \A x \in Deliveries : at[x] \notin Unadmitted => limit'[x] = limit[x] /\ at'[x] = at[x]
    BY <1>0, <2>1, <2>3 DEF Unadmitted
  <2>7. QED
    BY <1>0, <2>1, <2>5, <2>6, WindowFrame
<1>3. ASSUME NEW d \in Deliveries, admit(d) PROVE WindowInv'
  <2> DEFINE kept == InWindow(now)
             added == IF Cardinality(kept) < limit[d] THEN kept \cup {<<d, now>>} ELSE kept
  <2>1. at[d] = "loaded" /\ UNCHANGED <<limit, now>>
    BY <1>3 DEF admit
  <2>2. \/ /\ Cardinality(kept) < limit[d]
           /\ window' = kept \cup {<<d, now>>}
           /\ at' = [at EXCEPT ![d] = "admitted"]
           /\ admissions' = Append(admissions, <<d, now>>)
        \/ /\ window' \in {window, added}
           /\ at' = [at EXCEPT ![d] = "refused"]
           /\ admissions' = admissions
    BY <1>0, <1>3 DEF admit, Goto, Refused
  <2>3. IsFiniteSet(kept)
    <3>1. kept \in SUBSET window
      BY <1>0
    <3>2. QED
      BY <1>0, <3>1, FS_Subset
  <2>4. IsFiniteSet(added)
    BY <2>3, FS_AddElement
  <2>5. kept \subseteq window /\ kept \subseteq added
    BY <1>0
  <2>6. CASE /\ window' \in {window, added} /\ at' = [at EXCEPT ![d] = "refused"]
             /\ admissions' = admissions
    <3> HIDE DEF added
    <3>1. WindowTypes'
      BY <1>0, <2>1, <2>4, <2>6 DEF WindowTypes, Positions
    <3>2. \A x \in Deliveries : at[x] \notin Unadmitted => at'[x] \notin Unadmitted
      BY <1>0, <2>6 DEF Unadmitted
    <3>3. QED
      BY <1>0, <2>1, <2>5, <2>6, <3>1, <3>2, WindowFrame
  <2>7. CASE /\ Cardinality(kept) < limit[d]
             /\ window' = kept \cup {<<d, now>>}
             /\ at' = [at EXCEPT ![d] = "admitted"]
             /\ admissions' = Append(admissions, <<d, now>>)
    BY <2>1, <2>7, AdmissionStep
  <2>8. QED
    BY <2>2, <2>6, <2>7
<1>4. CASE Tick
  <2>1. now' = now + 1 /\ UNCHANGED <<at, limit, admissions, window>>
    BY <1>4 DEF Tick
  <2>2. WindowTypes'
    BY <1>0, <2>1 DEF WindowTypes
  <2>3. QED
    BY <1>0, <2>1, <2>2, WindowFrame
<1>5. CASE UNCHANGED accvars
  <2>1. UNCHANGED <<at, limit, admissions, window, now>>
    BY <1>5 DEF accvars
  <2>2. WindowTypes'
    BY <1>0, <2>1 DEF WindowTypes
  <2>3. QED
    BY <1>0, <2>1, <2>2, WindowFrame
<1>6. QED
  BY <1>1, <1>2, <1>3, <1>4, <1>5 DEF Next, Handle, vars

\* Whenever a request is admitted, the window that ends there has no more
\* admissions than the limit this request carries: for any number of
\* deliveries, any positive limits, raised or lowered between policy load and
\* admission, failed and half-done calls of the script included.
THEOREM WindowHolds == Spec => []WindowNeverExceeded
<1>1. Init => WindowInv /\ ColumnsInv
  <2> SUFFICES ASSUME Init PROVE WindowInv /\ ColumnsInv
    OBVIOUS
  <2>1. WindowTypes
    BY FS_EmptySet DEF Init, WindowTypes, Positions
  <2>2. Len(admissions) = 0
    BY DEF Init
  <2>3. WindowInv
    BY <2>1, <2>2 DEF WindowInv, Remembered
  <2>5. AccountInv /\ client = Absent /\ \A a \in Admins : request[a] = Idle
    <3>1. request = [a \in Admins |-> Idle] /\ client = Absent /\ Idle.op = "idle"
      BY DEF Init, AdminInit, Idle
    <3>2. AdminInv /\ RowTyped
      BY DEF Init, AdminInit, AdminInv, RowTyped, Absent, Statuses, DisabledHasNoCredential
    <3>3. QED
      BY <3>1, <3>2 DEF AccountInv, Opened
  <2>6. ColumnsInv
    BY <2>5 DEF ColumnsInv, Idle
  <2>7. QED
    BY <2>3, <2>6
<1>2. ColumnsInv /\ [Next]_vars => ColumnsInv'
  BY ColumnsStep DEF Next, vars
<1>3. WindowInv => WindowNeverExceeded
  BY DEF WindowInv, Within, Recent, WindowNeverExceeded
<1>4. QED
  BY <1>1, <1>2, <1>3, WindowStep, PTL DEF Spec

=============================================================================
