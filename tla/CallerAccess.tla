---------------------------- MODULE CallerAccess ----------------------------
(***************************************************************************)
(* How a signed request of a caller gets in, beside the administrators of  *)
(* Administration: credential resolution and signature check               *)
(* (services/callers.py, security/dependencies.py), the nonce guard        *)
(* (limits/nonce.py), the policy (services/callers.py), the sliding QPS    *)
(* window (limits/qps.py, lua/qps_sliding_window.lua) and, for a chat      *)
(* request, the locked re-read of reserve_operation (services/quota.py);   *)
(* a usage or models request is answered after the window                  *)
(* (services/metadata.py).                                                 *)
(*                                                                         *)
(* A message is what the caller signed: credential, timestamp, nonce,      *)
(* request id and endpoint.  It may be delivered more than once.  Headers, *)
(* canonical form and HMAC are a check that changes nothing; messages here *)
(* pass it.  The model-pool and concurrency gates between window and       *)
(* reservation are ModelPool's: here any time may pass there.              *)
(*                                                                         *)
(* The clock runs in ticks, Ticks to the second: the services compare      *)
(* whole seconds (int(time())), Valkey expires keys and members to the     *)
(* millisecond.                                                            *)
(***************************************************************************)
EXTENDS Administration

CONSTANTS
  Deliveries,    \* server request ids: one per HTTP request
  Messages,      \* signed messages
  MessageOf,     \* [Deliveries -> Messages]
  Signer,        \* [Messages -> Credentials]
  Timestamp,     \* [Messages -> signed timestamp, in seconds]
  Endpoint,      \* [Messages -> endpoint]
  Ticks,         \* ticks of the clock in a second
  Tolerance,     \* contract_api_timestamp_tolerance_seconds
  NonceTTL,      \* contract_api_nonce_ttl_seconds
  CheckDelay,    \* longest time from the timestamp check to the claim, in ticks
  Window,        \* QPS window, in ticks
  MaxTime,       \* bound: end of the modelled clock
  MaxFaults      \* bound: failed Valkey calls

ASSUME AccessAssumption ==
  /\ MessageOf \in [Deliveries -> Messages]
  /\ Signer \in [Messages -> Credentials]
  /\ Timestamp \in [Messages -> Nat]
  /\ {Tolerance, NonceTTL, CheckDelay, MaxTime, MaxFaults} \subseteq Nat
  /\ {Ticks, Window} \subseteq Nat \ {0}

\* What the settings demand; the defaults are 600 and 300 seconds.
ASSUME NonceAssumption == NonceTTL >= 2 * Tolerance

\* The request models and a check constraint demand a positive qps_limit.
ASSUME LimitAssumption ==
  /\ \A s \in Settings : "qps_limit" \in DOMAIN s
  /\ \A s \in Settings \cup Patches :
       "qps_limit" \in DOMAIN s => s.qps_limit \in Nat \ {0}

VARIABLES
  at,        \* position of a delivery
  checked,   \* when the timestamp was checked, unless it or the nonce was refused
  limit,     \* qps_limit of the policy that was loaded
  admissions,\* what the window admitted, in order: <<delivery, time>>
  nonce,     \* nonce keys: when the key of a message expires, if it was set
  window,    \* the QPS sorted set: <<delivery, score>>
  operation, \* messages whose request id has an operation
  now,
  faults

accvars == <<at, checked, limit, admissions, nonce, window, operation, now, faults>>
vars == <<avars, accvars>>

Positions ==
  {"start", "resolved", "authenticated", "claimed", "loaded", "admitted",
   "served", "refused"}

NotYet == -1

Key(d) == Signer[MessageOf[d]]
Goto(d, position) == at' = [at EXCEPT ![d] = position]
Fault == faults < MaxFaults /\ faults' = faults + 1

-----------------------------------------------------------------------------
(* Authentication *)

CallerActive(d) == client.status = "active" /\ credential[Key(d)] = "active"

\* The credential's expiry date, the model of the request and the binding of
\* the caller are not modelled: where they are checked, any request may be
\* refused.
Refused(d) == Goto(d, "refused")

\* DatabaseCredentialResolver._resolve: one snapshot of credential and caller.
\* What authenticate says to it later is decided by it.
_resolve(d) ==
  /\ at[d] = "start"
  /\ (CallerActive(d) /\ Goto(d, "resolved")) \/ Refused(d)
  /\ UNCHANGED <<checked, limit, admissions, nonce, window, operation, now, faults>>

\* int(time())
Second(t) == t \div Ticks

\* abs(current_time - timestamp) <= timestamp_tolerance_seconds
InTolerance(m, t) ==
  /\ Second(t) - Timestamp[m] <= Tolerance
  /\ Timestamp[m] - Second(t) <= Tolerance

authenticate(d) ==
  /\ at[d] = "resolved"
  /\ IF InTolerance(MessageOf[d], now)
       THEN Goto(d, "authenticated") /\ checked' = [checked EXCEPT ![d] = now]
       ELSE Refused(d) /\ UNCHANGED checked
  /\ UNCHANGED <<limit, admissions, nonce, window, operation, now, faults>>

\* The last moment a key set at t is there.
KeyExpiry(t) == t + NonceTTL * Ticks

\* Mutant: SET without NX.
Mutant_Overwrites(d) ==
  /\ at[d] = "authenticated"
  /\ nonce' = [nonce EXCEPT ![MessageOf[d]] = KeyExpiry(now)]
  /\ Goto(d, "claimed")
  /\ UNCHANGED <<checked, limit, admissions, window, operation, now, faults>>

\* SET key 1 NX EX ttl.  A failed call refuses the request; the key may be set.
claim(d) ==
  LET m == MessageOf[d]
      free == nonce[m] < now
      set == [nonce EXCEPT ![m] = IF free THEN KeyExpiry(now) ELSE @]
  IN  /\ at[d] = "authenticated"
      /\ \/ /\ nonce' = set
            /\ Goto(d, IF free THEN "claimed" ELSE "refused")
            /\ UNCHANGED faults
         \/ Fault /\ nonce' \in {nonce, set} /\ Refused(d)
      /\ checked' = [checked EXCEPT ![d] = IF at'[d] = "claimed" THEN @ ELSE NotYet]
      /\ UNCHANGED <<limit, admissions, window, operation, now>>

-----------------------------------------------------------------------------
(* Policy and window *)

Permitted(d) == Endpoint[MessageOf[d]] \in client.columns.allowed_endpoints

\* load_caller_policy and load_caller_metadata_policy: one snapshot.
load_policy(d) ==
  /\ at[d] = "claimed"
  /\ \/ /\ CallerActive(d) /\ Permitted(d)
        /\ Goto(d, "loaded")
        /\ limit' = [limit EXCEPT ![d] = client.columns.qps_limit]
     \/ Refused(d) /\ UNCHANGED limit
  /\ UNCHANGED <<checked, admissions, nonce, window, operation, now, faults>>

\* Mutant: windows that start at fixed times.
Mutant_FixedWindow(t) == {x \in window : x[2] \div Window = t \div Window}

\* ZREMRANGEBYSCORE -inf now - window; the key itself expires a window after
\* the last call, when every member has.
InWindow(t) == {x \in window : x[2] > t - Window}

\* qps_sliding_window.lua, and the services' answer to a refusal.
admit(d) ==
  LET kept == InWindow(now)
      allowed == Cardinality(kept) < limit[d]
      added == IF allowed THEN kept \cup {<<d, now>>} ELSE kept
  IN  /\ at[d] = "loaded"
      /\ \/ /\ window' = added
            /\ Goto(d, IF allowed THEN "admitted" ELSE "refused")
            /\ admissions' = IF allowed THEN Append(admissions, <<d, now>>) ELSE admissions
            /\ UNCHANGED faults
         \/ Fault /\ window' \in {window, added} /\ Refused(d) /\ UNCHANGED admissions
      /\ UNCHANGED <<checked, limit, nonce, operation, now>>

\* Mutant: the policy loaded before the queue is trusted.
Mutant_TrustsPolicy(d) ==
  /\ at[d] = "admitted"
  /\ Endpoint[MessageOf[d]] = "chat.completions"
  /\ Goto(d, "served")
  /\ operation' = operation \cup {MessageOf[d]}
  /\ UNCHANGED <<checked, limit, admissions, nonce, window, now, faults>>

\* reserve_operation reads caller and credential again under lock, permission
\* included, and the request id must be new.  The quota checks, which may
\* refuse it too, are QuotaLedger's.
reserve(d) ==
  /\ at[d] = "admitted"
  /\ Endpoint[MessageOf[d]] = "chat.completions"
  /\ \/ /\ CallerActive(d) /\ Permitted(d) /\ MessageOf[d] \notin operation
        /\ Goto(d, "served")
        /\ operation' = operation \cup {MessageOf[d]}
     \/ Refused(d) /\ UNCHANGED operation
  /\ UNCHANGED <<checked, limit, admissions, nonce, window, now, faults>>

\* A metadata request is answered from what was loaded.
respond(d) ==
  /\ at[d] = "admitted"
  /\ Endpoint[MessageOf[d]] # "chat.completions"
  /\ Goto(d, "served")
  /\ UNCHANGED <<checked, limit, admissions, nonce, window, operation, now, faults>>

\* Valkey and the hosts share a clock.  A request between its timestamp check
\* and its claim gets on within CheckDelay.
Tick ==
  /\ now < MaxTime
  /\ \A d \in Deliveries : at[d] = "authenticated" => now < checked[d] + CheckDelay
  /\ now' = now + 1
  /\ UNCHANGED <<at, checked, limit, admissions, nonce, window, operation, faults>>

-----------------------------------------------------------------------------

Init ==
  /\ AdminInit
  /\ at = [d \in Deliveries |-> "start"]
  /\ checked = [d \in Deliveries |-> NotYet]
  /\ limit = [d \in Deliveries |-> 0]
  /\ admissions = <<>>
  /\ nonce = [m \in Messages |-> NotYet]
  /\ window = {}
  /\ operation = {}
  /\ now = 0
  /\ faults = 0

Handle(d) ==
  \/ _resolve(d) \/ authenticate(d) \/ claim(d) \/ load_policy(d) \/ admit(d)
  \/ reserve(d) \/ respond(d)

Next ==
  \/ (\E d \in Deliveries : Handle(d)) /\ UNCHANGED avars
  \/ Tick /\ UNCHANGED avars
  \/ CallerStep /\ UNCHANGED accvars

Spec == Init /\ [][Next]_vars

-----------------------------------------------------------------------------
(* Properties *)

\* The delivery was let past the nonce guard, whatever came after.
Accepted(d) == checked[d] # NotYet /\ at[d] # "authenticated"

AcceptedTwice(d1, d2) ==
  d1 # d2 /\ MessageOf[d1] = MessageOf[d2] /\ Accepted(d1) /\ Accepted(d2)

\* A message that is delivered twice is let past the nonce guard at most once.
SignedOnce == \A d1, d2 \in Deliveries : ~AcceptedTwice(d1, d2)

\* The first moments at which a message passes: its first second, which is
\* the one before its timestamp by the whole tolerance.
Early(d) ==
  checked[d] < (Timestamp[MessageOf[d]] - Tolerance + 1) * Ticks + CheckDelay

\* A message is let past the nonce guard twice only if it was accepted in the
\* first second it passes, from a sender whose clock is ahead by the whole
\* tolerance: the key of any other first delivery is still there when the
\* last moment comes at which the message passes, failed claims and slow
\* requests included.
ReplayOnlyIfEarly ==
  \A d1, d2 \in Deliveries : AcceptedTwice(d1, d2) => Early(d1) \/ Early(d2)

\* When a request is admitted, the window that ends there has no more
\* admissions, itself included, than the limit it carries, while limits are
\* raised and lowered and each request carries the one of the policy it
\* loaded.
WindowNeverExceeded ==
  \A k \in 1..Len(admissions) :
    Cardinality({j \in 1..k : admissions[j][2] > admissions[k][2] - Window})
      <= limit[admissions[k][1]]

\* A chat request that is in flight when its caller is disabled, its
\* credential revoked or rotated away or its permission withdrawn reserves
\* nothing any more, however far it had come.
NoReservationAfterRevocation ==
  [][operation' # operation =>
       \A d \in Deliveries :
         at[d] # "served" /\ at'[d] = "served" => CallerActive(d) /\ Permitted(d)]_vars

=============================================================================
