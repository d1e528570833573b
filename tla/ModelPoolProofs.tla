--------------------------- MODULE ModelPoolProofs ---------------------------
(* Theorems about ModelPool, for every value of its constants.             *)
EXTENDS ModelPool, FiniteSetTheorems, SequenceTheorems, TLAPS

\* The pools and callers of an operation are subsets of the finite set Ops.
LEMMA PoolsFinite ==
  /\ \A p : IsFiniteSet(InPool(p)) /\ InPool(p) \subseteq Ops
  /\ \A c : IsFiniteSet(OfCaller(c)) /\ OfCaller(c) \subseteq Ops
<1>1. ASSUME NEW p PROVE IsFiniteSet(InPool(p)) /\ InPool(p) \subseteq Ops
  <2>1. InPool(p) \in SUBSET Ops
    BY DEF InPool
  <2>2. QED
    BY <2>1, FS_Subset, PoolAssumption
<1>2. ASSUME NEW c PROVE IsFiniteSet(OfCaller(c)) /\ OfCaller(c) \subseteq Ops
  <2>1. OfCaller(c) \in SUBSET Ops
    BY DEF OfCaller
  <2>2. QED
    BY <2>1, FS_Subset, PoolAssumption
<1>3. QED
  BY <1>1, <1>2

\* The timers and limits are numbers, with room for three calls and a heartbeat
\* in a lease.
LEMMA TimesType ==
  /\ LeaseTime \in Nat /\ HeartbeatTime \in Nat /\ CallTime \in Nat
  /\ HeartbeatTime + 3 * CallTime < LeaseTime
BY PoolAssumption

\* A handler holds no lease before the script that gives it one.
NoLeaseYet ==
  \A o \in Ops :
    /\ at[o] \in {"start", "queued"} => lease[o] = 0
    /\ at[o] \in {"start", "queued", "acquire"} => slot[o] = 0

\* What the gate itself keeps up, however long streams are held at a yield: no
\* more live leases than the limits.
GateInv == LeaseTypes /\ LeasesWithinLimits /\ NoLeaseYet

\* What model_pool_admit.lua does to the leases of an operation that has none:
\* nothing, or a full lease if the pool has room.
LEMMA AdmitEffect ==
  ASSUME LeaseTypes, NEW o \in Ops, lease[o] = 0, admit_or_enqueue(o)
  PROVE  /\ slot' = slot
         /\ \/ Decision(o) # "admitted" /\ lease' = lease
            \/ /\ Decision(o) = "admitted"
               /\ Cardinality(Active(PoolOf[o])) < ActiveLimit[PoolOf[o]]
               /\ lease' = [lease EXCEPT ![o] = LeaseTime]
<1>1. slot' = slot
  BY DEF admit_or_enqueue
<1>2. CASE Decision(o) = "admitted"
  <2>1. Cardinality(Active(PoolOf[o])) < ActiveLimit[PoolOf[o]]
    BY <1>2 DEF Decision
  <2>2. lease' = [lease EXCEPT ![o] = LeaseTime]
    BY <1>2 DEF admit_or_enqueue, LeaseTypes
  <2>3. QED
    BY <1>1, <1>2, <2>1, <2>2
<1>3. CASE Decision(o) # "admitted"
  BY <1>1, <1>3 DEF admit_or_enqueue
<1>4. QED
  BY <1>2, <1>3

\* Every step keeps the leases, the positions and the timers well formed.
LEMMA TypesStep == GateInv /\ [Next]_vars => LeaseTypes'
<1> SUFFICES ASSUME GateInv, [Next]_vars PROVE LeaseTypes'
  OBVIOUS
<1> USE TimesType DEF GateInv, LeaseTypes, Goto, NextCall, NextHeartbeat
<1>1. ASSUME NEW o \in Ops, Arrive(o) PROVE LeaseTypes'
  <2>1. lease[o] = 0
    BY <1>1 DEF Arrive, NoLeaseYet
  <2>2. lease' \in [Ops -> Nat] /\ slot' \in [Ops -> Nat]
    BY <1>1, <2>1, AdmitEffect DEF Arrive, redis
  <2>3. QED
    BY <1>1, <2>2 DEF Arrive, Positions
<1>2. ASSUME NEW o \in Ops, Poll(o) PROVE LeaseTypes'
  <2>1. lease[o] = 0
    BY <1>2 DEF Poll, NoLeaseYet
  <2>2. lease' \in [Ops -> Nat] /\ slot' \in [Ops -> Nat]
    BY <1>2, <2>1, AdmitEffect DEF Poll, redis
  <2>3. QED
    BY <1>2, <2>2 DEF Poll, Positions
<1>3. ASSUME NEW o \in Ops, Proceed(o) PROVE LeaseTypes'
  <2>1. CASE TimeOut(o) \/ cancel(o)
    BY <2>1 DEF TimeOut, cancel, Positions
  <2>2. CASE acquire(o)
    BY <2>2 DEF acquire, Positions
  <2>3. CASE heartbeat(o)
    BY <2>3 DEF heartbeat, Renewed, Positions
  <2>4. CASE heartbeat_pool(o)
    BY <2>4 DEF heartbeat_pool, Renewed, Positions
  <2>5. CASE release(o) \/ release_pool(o)
    BY <2>5 DEF release, release_pool, Positions
  <2>6. QED
    BY <1>3, <2>1, <2>2, <2>3, <2>4, <2>5 DEF Proceed
<1>4. ASSUME NEW o \in Ops, Disconnect(o) \/ Yield(o) \/ Resume(o) \/ Finish(o) \/ Crash(o)
      PROVE  LeaseTypes'
  BY <1>4 DEF Disconnect, Yield, Resume, Finish, Crash, Positions
<1>5. CASE Tick
  BY <1>5 DEF Tick, Down
<1>6. CASE UNCHANGED vars
  BY <1>6 DEF vars
<1>7. QED
  BY <1>1, <1>2, <1>3, <1>4, <1>5, <1>6 DEF Next

\* A step after which no operation has a lease it did not have before keeps the
\* sets of live leases within their limits.
LEMMA ShrinkKeepsLimits ==
  ASSUME GateInv, LeaseTypes',
         \A o \in Ops : (lease'[o] > 0 => lease[o] > 0) /\ (slot'[o] > 0 => slot[o] > 0)
  PROVE  LeasesWithinLimits'
<1>1. ASSUME NEW p \in Pools PROVE Cardinality(Active(p)') <= ActiveLimit[p]
  <2>1. IsFiniteSet(Active(p))
    <3>1. Active(p) \in SUBSET InPool(p)
      BY DEF Active
    <3>2. QED
      BY <3>1, PoolsFinite, FS_Subset
  <2>2. Active(p)' \in SUBSET Active(p)
    BY PoolsFinite DEF Active
  <2>3. Cardinality(Active(p)') <= Cardinality(Active(p)) /\ IsFiniteSet(Active(p)')
    BY <2>1, <2>2, FS_Subset
  <2>4. Cardinality(Active(p)') \in Nat /\ Cardinality(Active(p)) \in Nat
    BY <2>1, <2>3, FS_CardinalityType
  <2>5. Cardinality(Active(p)) <= ActiveLimit[p] /\ ActiveLimit[p] \in Nat
    BY PoolAssumption DEF GateInv, LeasesWithinLimits
  <2>6. QED
    BY <2>3, <2>4, <2>5
<1>2. ASSUME NEW c \in Callers PROVE Cardinality(Concurrent(c)') <= CallerLimit[c]
  <2>1. IsFiniteSet(Concurrent(c))
    <3>1. Concurrent(c) \in SUBSET OfCaller(c)
      BY DEF Concurrent
    <3>2. QED
      BY <3>1, PoolsFinite, FS_Subset
  <2>2. Concurrent(c)' \in SUBSET Concurrent(c)
    BY PoolsFinite DEF Concurrent
  <2>3. Cardinality(Concurrent(c)') <= Cardinality(Concurrent(c)) /\ IsFiniteSet(Concurrent(c)')
    BY <2>1, <2>2, FS_Subset
  <2>4. Cardinality(Concurrent(c)') \in Nat /\ Cardinality(Concurrent(c)) \in Nat
    BY <2>1, <2>3, FS_CardinalityType
  <2>5. Cardinality(Concurrent(c)) <= CallerLimit[c] /\ CallerLimit[c] \in Nat
    BY PoolAssumption DEF GateInv, LeasesWithinLimits
  <2>6. QED
    BY <2>3, <2>4, <2>5
<1>3. QED
  BY <1>1, <1>2 DEF LeasesWithinLimits

\* A pool lease granted where there is room keeps the limits.
LEMMA GrantKeepsLimits ==
  ASSUME GateInv, NEW o \in Ops, slot' = slot,
         Cardinality(Active(PoolOf[o])) < ActiveLimit[PoolOf[o]],
         lease' = [lease EXCEPT ![o] = LeaseTime]
  PROVE  LeasesWithinLimits'
<1>1. ASSUME NEW p \in Pools PROVE Cardinality(Active(p)') <= ActiveLimit[p]
  <2>1. Active(p) \in SUBSET InPool(p)
    BY DEF Active
  <2>2. IsFiniteSet(Active(p)) /\ Cardinality(Active(p)) \in Nat
    BY <2>1, PoolsFinite, FS_Subset, FS_CardinalityType
  <2>3. Cardinality(Active(p)) <= ActiveLimit[p] /\ ActiveLimit[p] \in Nat
    BY PoolAssumption DEF GateInv, LeasesWithinLimits
  <2>4. CASE PoolOf[o] = p
    <3>1. Active(p)' = Active(p) \cup {o}
      BY <2>4, TimesType DEF Active, InPool, GateInv, LeaseTypes
    <3>2. Cardinality(Active(p) \cup {o}) =
            IF o \in Active(p) THEN Cardinality(Active(p)) ELSE Cardinality(Active(p)) + 1
      BY <2>2, FS_AddElement
    <3>3. Cardinality(Active(p) \cup {o}) \in Nat
      BY <2>2, FS_AddElement, FS_CardinalityType
    <3>4. QED
      BY <2>2, <2>3, <2>4, <3>1, <3>2, <3>3
  <2>5. CASE PoolOf[o] # p
    <3>1. Active(p)' = Active(p)
      BY <2>5 DEF Active, InPool, GateInv, LeaseTypes
    <3>2. QED
      BY <2>3, <3>1
  <2>6. QED
    BY <2>4, <2>5
<1>2. ASSUME NEW c \in Callers PROVE Cardinality(Concurrent(c)') <= CallerLimit[c]
  <2>1. Concurrent(c)' = Concurrent(c)
    BY DEF Concurrent
  <2>2. QED
    BY <2>1 DEF GateInv, LeasesWithinLimits
<1>3. QED
  BY <1>1, <1>2 DEF LeasesWithinLimits

\* A caller lease taken below the concurrency limit keeps the limits.
LEMMA AcquireKeepsLimits ==
  ASSUME GateInv, NEW o \in Ops, lease' = lease,
         Cardinality(Concurrent(CallerOf[o])) < CallerLimit[CallerOf[o]],
         slot' = [slot EXCEPT ![o] = LeaseTime]
  PROVE  LeasesWithinLimits'
<1>1. ASSUME NEW c \in Callers PROVE Cardinality(Concurrent(c)') <= CallerLimit[c]
  <2>1. Concurrent(c) \in SUBSET OfCaller(c)
    BY DEF Concurrent
  <2>2. IsFiniteSet(Concurrent(c)) /\ Cardinality(Concurrent(c)) \in Nat
    BY <2>1, PoolsFinite, FS_Subset, FS_CardinalityType
  <2>3. Cardinality(Concurrent(c)) <= CallerLimit[c] /\ CallerLimit[c] \in Nat
    BY PoolAssumption DEF GateInv, LeasesWithinLimits
  <2>4. CASE CallerOf[o] = c
    <3>1. Concurrent(c)' = Concurrent(c) \cup {o}
      BY <2>4, TimesType DEF Concurrent, OfCaller, GateInv, LeaseTypes
    <3>2. Cardinality(Concurrent(c) \cup {o}) =
            IF o \in Concurrent(c) THEN Cardinality(Concurrent(c)) ELSE Cardinality(Concurrent(c)) + 1
      BY <2>2, FS_AddElement
    <3>3. Cardinality(Concurrent(c) \cup {o}) \in Nat
      BY <2>2, FS_AddElement, FS_CardinalityType
    <3>4. QED
      BY <2>2, <2>3, <2>4, <3>1, <3>2, <3>3
  <2>5. CASE CallerOf[o] # c
    <3>1. Concurrent(c)' = Concurrent(c)
      BY <2>5 DEF Concurrent, OfCaller, GateInv, LeaseTypes
    <3>2. QED
      BY <2>3, <3>1
  <2>6. QED
    BY <2>4, <2>5
<1>2. ASSUME NEW p \in Pools PROVE Cardinality(Active(p)') <= ActiveLimit[p]
  <2>1. Active(p)' = Active(p)
    BY DEF Active
  <2>2. QED
    BY <2>1 DEF GateInv, LeasesWithinLimits
<1>3. QED
  BY <1>1, <1>2 DEF LeasesWithinLimits

\* Every step keeps the live leases of each pool and caller within the limits.
LEMMA LimitsStep == GateInv /\ [Next]_vars => LeasesWithinLimits'
<1> SUFFICES ASSUME GateInv, [Next]_vars PROVE LeasesWithinLimits'
  OBVIOUS
<1>0. LeaseTypes'
  BY TypesStep
<1>1. ASSUME NEW o \in Ops, Arrive(o) \/ Poll(o) PROVE LeasesWithinLimits'
  <2>1. lease[o] = 0
    BY <1>1 DEF Arrive, Poll, GateInv, NoLeaseYet
  <2>2. admit_or_enqueue(o) \/ UNCHANGED redis
    BY <1>1 DEF Arrive, Poll
  <2>3. CASE admit_or_enqueue(o)
    <3>1. \/ lease' = lease /\ slot' = slot
          \/ /\ Cardinality(Active(PoolOf[o])) < ActiveLimit[PoolOf[o]]
             /\ lease' = [lease EXCEPT ![o] = LeaseTime] /\ slot' = slot
      BY <2>1, <2>3, AdmitEffect DEF GateInv
    <3>2. QED
      BY <1>0, <3>1, ShrinkKeepsLimits, GrantKeepsLimits
  <2>4. CASE UNCHANGED redis
    BY <1>0, <2>4, ShrinkKeepsLimits DEF redis
  <2>5. QED
    BY <2>2, <2>3, <2>4
<1>2. ASSUME NEW o \in Ops, acquire(o) PROVE LeasesWithinLimits'
  <2>1. slot[o] = 0
    BY <1>2 DEF acquire, GateInv, NoLeaseYet
  <2>2. \/ slot' = slot
        \/ /\ Cardinality(Concurrent(CallerOf[o])) < CallerLimit[CallerOf[o]]
           /\ slot' = [slot EXCEPT ![o] = LeaseTime]
    BY <1>2, <2>1 DEF acquire, GateInv, LeaseTypes
  <2>3. lease' = lease
    BY <1>2 DEF acquire
  <2>4. QED
    BY <1>0, <2>2, <2>3, ShrinkKeepsLimits, AcquireKeepsLimits
<1>3. ASSUME NEW o \in Ops, heartbeat(o) \/ heartbeat_pool(o) PROVE LeasesWithinLimits'
  BY <1>0, <1>3, ShrinkKeepsLimits
  DEF heartbeat, heartbeat_pool, Renewed, GateInv, LeaseTypes
<1>4. ASSUME NEW o \in Ops, release(o) \/ release_pool(o) PROVE LeasesWithinLimits'
  BY <1>0, <1>4, ShrinkKeepsLimits DEF release, release_pool, GateInv, LeaseTypes
<1>5. ASSUME NEW o \in Ops,
             \/ TimeOut(o) \/ cancel(o) \/ Disconnect(o) \/ Yield(o) \/ Resume(o)
             \/ Finish(o) \/ Crash(o)
      PROVE  LeasesWithinLimits'
  <2>1. lease' = lease /\ slot' = slot
    BY <1>5 DEF TimeOut, cancel, Disconnect, Yield, Resume, Finish, Crash
  <2>2. QED
    BY <1>0, <2>1, ShrinkKeepsLimits
<1>6. CASE Tick
  BY <1>0, <1>6, ShrinkKeepsLimits DEF Tick, Down, GateInv, LeaseTypes
<1>7. CASE UNCHANGED vars
  BY <1>0, <1>7, ShrinkKeepsLimits DEF vars
<1>8. QED
  BY <1>1, <1>2, <1>3, <1>4, <1>5, <1>6, <1>7 DEF Next, Proceed

\* While no stream is held at a yield, every step leaves each handler with
\* leases that outlast the time to its next call.
LEMMA OutlastStep ==
  ASSUME Unguarded = {}
  PROVE  LeaseInv /\ [Next]_vars => LeasesOutlast'
<1> SUFFICES ASSUME LeaseInv, [Next]_vars PROVE LeasesOutlast'
  OBVIOUS
<1> USE TimesType DEF LeaseInv, LeaseTypes, Goto, NextCall, NextHeartbeat, Positions
<1>1. ASSUME NEW o \in Ops, Arrive(o) PROVE LeasesOutlast'
  <2>1. lease[o] = 0 /\ slot[o] = 0
    BY <1>1 DEF Arrive, LeasesOutlast
  <2>2. slot' = slot /\ (lease' = lease \/ lease' = [lease EXCEPT ![o] = LeaseTime])
    BY <1>1, <2>1, AdmitEffect DEF Arrive, redis
  <2>3. \/ at' = [at EXCEPT ![o] = "acquire"] /\ due' = [due EXCEPT ![o] = CallTime]
           /\ lease' = [lease EXCEPT ![o] = LeaseTime]
        \/ at' = [at EXCEPT ![o] = "queued"] /\ due' = due /\ lease' = lease
        \/ at' = [at EXCEPT ![o] = "done"] /\ due' = due
    BY <1>1, <2>1, AdmitEffect DEF Arrive
  <2>4. QED
    BY <2>1, <2>2, <2>3 DEF LeasesOutlast
<1>2. ASSUME NEW o \in Ops, Poll(o) PROVE LeasesOutlast'
  <2>1. lease[o] = 0 /\ slot[o] = 0
    BY <1>2 DEF Poll, LeasesOutlast
  <2>2. slot' = slot /\ (lease' = lease \/ lease' = [lease EXCEPT ![o] = LeaseTime])
    BY <1>2, <2>1, AdmitEffect DEF Poll, redis
  <2>3. \/ at' = [at EXCEPT ![o] = "acquire"] /\ due' = [due EXCEPT ![o] = CallTime]
           /\ lease' = [lease EXCEPT ![o] = LeaseTime]
        \/ at' = at /\ due' = due /\ lease' = lease
        \/ at' = [at EXCEPT ![o] = "done"] /\ due' = due
        \/ at' = [at EXCEPT ![o] = "cancel_ticket"] /\ due' = due
    BY <1>2, <2>1, AdmitEffect DEF Poll
  <2>4. QED
    BY <2>1, <2>2, <2>3 DEF LeasesOutlast
<1>3. ASSUME NEW o \in Ops, acquire(o) PROVE LeasesOutlast'
  BY <1>3 DEF acquire, LeasesOutlast
<1>4. ASSUME NEW o \in Ops, heartbeat(o) PROVE LeasesOutlast'
  BY <1>4 DEF heartbeat, Renewed, LeasesOutlast
<1>5. ASSUME NEW o \in Ops, heartbeat_pool(o) PROVE LeasesOutlast'
  BY <1>5 DEF heartbeat_pool, Renewed, LeasesOutlast
<1>6. ASSUME NEW o \in Ops, release(o) \/ release_pool(o) PROVE LeasesOutlast'
  BY <1>6 DEF release, release_pool, LeasesOutlast
<1>7. ASSUME NEW o \in Ops,
             TimeOut(o) \/ cancel(o) \/ Disconnect(o) \/ Finish(o) \/ Crash(o)
      PROVE  LeasesOutlast'
  BY <1>7 DEF TimeOut, cancel, Disconnect, Finish, Crash, LeasesOutlast
<1>8. ASSUME NEW o \in Ops, Yield(o) \/ Resume(o) PROVE LeasesOutlast'
  BY <1>8 DEF Yield, Resume, LeasesOutlast
<1>9. CASE Tick
  <2> SUFFICES ASSUME NEW o \in Ops
               PROVE  LeasesOutlast!(o)'
    BY DEF LeasesOutlast
  <2>1. /\ lease'[o] = IF lease[o] > 0 THEN lease[o] - 1 ELSE 0
        /\ slot'[o] = IF slot[o] > 0 THEN slot[o] - 1 ELSE 0
        /\ due'[o] = IF due[o] > 0 THEN due[o] - 1 ELSE 0
        /\ at'[o] = at[o]
    BY <1>9 DEF Tick, Down
  <2>2. at[o] \in {"acquire", "running", "heartbeat"} => due[o] > 0
    BY <1>9 DEF Tick, Urgent
  <2>3. LeasesOutlast!(o)
    BY DEF LeasesOutlast
  <2>4. QED
    BY <2>1, <2>2, <2>3
<1>10. CASE UNCHANGED vars
  BY <1>10 DEF vars, LeasesOutlast
<1>11. QED
  BY <1>1, <1>2, <1>3, <1>4, <1>5, <1>6, <1>7, <1>8, <1>9, <1>10 DEF Next, Proceed

\* The inductive invariant holds from the start, when Valkey is empty.
LEMMA LeaseInit == Init => LeaseInv
<1> SUFFICES ASSUME Init PROVE LeaseInv
  OBVIOUS
<1>1. LeaseTypes /\ LeasesOutlast
  BY DEF Init, LeaseTypes, LeasesOutlast, Positions
<1>2. \A p \in Pools : Active(p) = {}
  BY PoolsFinite DEF Init, Active
<1>3. \A c \in Callers : Concurrent(c) = {}
  BY PoolsFinite DEF Init, Concurrent
<1>4. Cardinality({}) = 0
  BY FS_EmptySet
<1>5. ASSUME NEW p \in Pools PROVE Cardinality(Active(p)) <= ActiveLimit[p]
  <2>1. Cardinality(Active(p)) = 0
    BY <1>2, <1>4, Zenon
  <2>2. ActiveLimit[p] \in Nat
    BY PoolAssumption
  <2>3. QED
    BY <2>1, <2>2
<1>6. ASSUME NEW c \in Callers PROVE Cardinality(Concurrent(c)) <= CallerLimit[c]
  <2>1. Cardinality(Concurrent(c)) = 0
    BY <1>3, <1>4, Zenon
  <2>2. CallerLimit[c] \in Nat
    BY PoolAssumption
  <2>3. QED
    BY <2>1, <2>2
<1>7. QED
  BY <1>1, <1>5, <1>6 DEF LeaseInv, LeasesWithinLimits

\* Leases and handlers agree for ever, while no stream is held at a yield.
THEOREM LeasesHold ==
  ASSUME Unguarded = {}
  PROVE  Spec => []LeaseInv
<1>1. LeaseInv => GateInv
  BY DEF LeaseInv, GateInv, LeasesOutlast, NoLeaseYet
<1>2. LeaseInv /\ [Next]_vars => LeaseInv'
  BY <1>1, TypesStep, LimitsStep, OutlastStep DEF LeaseInv
<1>3. QED
  BY <1>2, LeaseInit, PTL DEF Spec

\* In a state of the invariant every busy handler holds two live leases.
LEMMA BusyHasLeases ==
  ASSUME LeaseInv, NEW o \in Ops, Busy(o)
  PROVE  lease[o] > 0 /\ slot[o] > 0
BY TimesType DEF LeaseInv, LeaseTypes, LeasesOutlast, Busy

\* model_active_limit is a hard gate: however requests queue, time out, crash
\* or lose replies, a pool never serves more handlers than its limit, provided
\* no stream is held at a yield for longer than a heartbeat can wait.
THEOREM PoolGateHolds ==
  ASSUME Unguarded = {}
  PROVE  Spec => []ActiveWithinLimit
<1>1. ASSUME LeaseInv, NEW p \in Pools
      PROVE  Cardinality({o \in InPool(p) : Busy(o)}) <= ActiveLimit[p]
  <2>1. Active(p) \in SUBSET InPool(p)
    BY DEF Active
  <2>2. IsFiniteSet(Active(p)) /\ Cardinality(Active(p)) \in Nat
    BY <2>1, PoolsFinite, FS_Subset, FS_CardinalityType
  <2>3. {o \in InPool(p) : Busy(o)} \in SUBSET Active(p)
    BY <1>1, BusyHasLeases, PoolsFinite DEF Active
  <2>4. /\ Cardinality({o \in InPool(p) : Busy(o)}) <= Cardinality(Active(p))
        /\ IsFiniteSet({o \in InPool(p) : Busy(o)})
    BY <2>2, <2>3, FS_Subset
  <2>5. Cardinality({o \in InPool(p) : Busy(o)}) \in Nat
    BY <2>4, FS_CardinalityType
  <2>6. Cardinality(Active(p)) <= ActiveLimit[p] /\ ActiveLimit[p] \in Nat
    BY <1>1, PoolAssumption DEF LeaseInv, LeasesWithinLimits
  <2>7. QED
    BY <2>2, <2>4, <2>5, <2>6
<1>2. LeaseInv => ActiveWithinLimit
  BY <1>1 DEF ActiveWithinLimit
<1>3. QED
  BY <1>2, LeasesHold, PTL

\* concurrency_limit holds in the same way for the requests of a caller.
THEOREM CallerGateHolds ==
  ASSUME Unguarded = {}
  PROVE  Spec => []CallerWithinLimit
<1>1. ASSUME LeaseInv, NEW c \in Callers
      PROVE  Cardinality({o \in OfCaller(c) : Busy(o)}) <= CallerLimit[c]
  <2>1. Concurrent(c) \in SUBSET OfCaller(c)
    BY DEF Concurrent
  <2>2. IsFiniteSet(Concurrent(c)) /\ Cardinality(Concurrent(c)) \in Nat
    BY <2>1, PoolsFinite, FS_Subset, FS_CardinalityType
  <2>3. {o \in OfCaller(c) : Busy(o)} \in SUBSET Concurrent(c)
    BY <1>1, BusyHasLeases, PoolsFinite DEF Concurrent
  <2>4. /\ Cardinality({o \in OfCaller(c) : Busy(o)}) <= Cardinality(Concurrent(c))
        /\ IsFiniteSet({o \in OfCaller(c) : Busy(o)})
    BY <2>2, <2>3, FS_Subset
  <2>5. Cardinality({o \in OfCaller(c) : Busy(o)}) \in Nat
    BY <2>4, FS_CardinalityType
  <2>6. Cardinality(Concurrent(c)) <= CallerLimit[c] /\ CallerLimit[c] \in Nat
    BY <1>1, PoolAssumption DEF LeaseInv, LeasesWithinLimits
  <2>7. QED
    BY <2>2, <2>4, <2>5, <2>6
<1>2. LeaseInv => CallerWithinLimit
  BY <1>1 DEF CallerWithinLimit
<1>3. QED
  BY <1>2, LeasesHold, PTL

-----------------------------------------------------------------------------
(* The queue *)

Members(q) == {q[i] : i \in DOMAIN q}
Distinct(q) == \A i, j \in DOMAIN q : q[i] = q[j] => i = j

\* In a finite set of numbers every rank up to its size is taken, and by one
\* number only.
LEMMA RanksAreTaken ==
  ASSUME NEW K \in SUBSET Nat, IsFiniteSet(K)
  PROVE  /\ \A n \in 1..Cardinality(K) : \E i \in K : Cardinality({j \in K : j <= i}) = n
         /\ \A i \in K : Cardinality({j \in K : j <= i}) \in 1..Cardinality(K)
         /\ \A i, k \in K : Cardinality({j \in K : j <= i}) = Cardinality({j \in K : j <= k})
              => i = k
<1> DEFINE below(i) == {j \in K : j <= i}
           rank == [i \in K |-> Cardinality(below(i))]
<1>1. Cardinality(K) \in Nat
  BY FS_CardinalityType
<1>2. ASSUME NEW i \in K
      PROVE  /\ IsFiniteSet(below(i)) /\ Cardinality(below(i)) \in Nat
             /\ Cardinality(below(i)) <= Cardinality(K)
             /\ Cardinality(below(i)) # 0
  <2>1. below(i) \in SUBSET K
    OBVIOUS
  <2>2. IsFiniteSet(below(i)) /\ Cardinality(below(i)) <= Cardinality(K)
    BY <2>1, FS_Subset
  <2>3. i \in below(i)
    OBVIOUS
  <2> HIDE DEF below
  <2>4. below(i) # {}
    BY <2>3
  <2>5. QED
    BY <2>2, <2>4, FS_CardinalityType, FS_EmptySet
<1>3. ASSUME NEW i \in K, NEW k \in K, i < k
      PROVE  Cardinality(below(i)) # Cardinality(below(k))
  <2>1. below(i) \in SUBSET below(k)
    <3>1. \A j \in K : j <= i => j <= k
      <4>1. i \in Nat /\ k \in Nat /\ \A j \in K : j \in Nat
        OBVIOUS
      <4>2. QED
        BY <1>3, <4>1
    <3>2. QED
      BY <3>1
  <2>2. k \in below(k) /\ k \notin below(i)
    BY <1>3
  <2>3. IsFiniteSet(below(k))
    BY <1>2
  <2> HIDE DEF below
  <2>4. below(k) # below(i)
    BY <2>2
  <2>5. QED
    BY <2>1, <2>3, <2>4, FS_Subset
<1>4. ASSUME NEW i \in K, NEW k \in K, Cardinality(below(i)) = Cardinality(below(k))
      PROVE  i = k
  <2> HIDE DEF below
  <2>1. i \in Nat /\ k \in Nat
    OBVIOUS
  <2>2. ~(i < k) /\ ~(k < i)
    BY <1>3, <1>4
  <2>3. QED
    BY <2>1, <2>2
<1>5. ASSUME NEW i \in K PROVE Cardinality(below(i)) \in 1..Cardinality(K)
  <2> HIDE DEF below
  <2>1. QED
    BY <1>1, <1>2
<1> HIDE DEF below
<1>6. rank \in [K -> 1..Cardinality(K)]
  BY <1>5
<1>7. rank \in Injection(K, 1..Cardinality(K))
  BY <1>4, <1>6 DEF Injection, IsInjective
<1>8. IsFiniteSet(1..Cardinality(K)) /\ Cardinality(1..Cardinality(K)) = Cardinality(K)
  <2>1. Cardinality(K) \in Int /\ 1 \in Int
    BY <1>1
  <2>2. /\ IsFiniteSet(1..Cardinality(K))
        /\ Cardinality(1..Cardinality(K)) =
             IF 1 > Cardinality(K) THEN 0 ELSE Cardinality(K) - 1 + 1
    BY <2>1, FS_Interval
  <2>3. QED
    BY <1>1, <2>2
<1>9. rank \in Surjection(K, 1..Cardinality(K))
  BY <1>7, <1>8, FS_Injection
<1>10. \A n \in 1..Cardinality(K) : \E i \in K : Cardinality(below(i)) = n
  BY <1>9 DEF Surjection
<1>11. QED
  BY <1>4, <1>5, <1>10 DEF below

\* Without takes the members of S out of a queue and nothing else, and leaves
\* nobody in it twice.
LEMMA WithoutEffect ==
  ASSUME NEW q \in Seq(Ops), NEW S, Distinct(q)
  PROVE  /\ Without(q, S) \in Seq(Ops)
         /\ Members(Without(q, S)) = Members(q) \ S
         /\ Distinct(Without(q, S))
<1> DEFINE kept == {i \in DOMAIN q : q[i] \notin S}
           nth(n) == CHOOSE i \in kept : Cardinality({j \in kept : j <= i}) = n
           w == [n \in 1..Cardinality(kept) |-> q[nth(n)]]
<1>0. Without(q, S) = w
  BY DEF Without
<1>1. DOMAIN q = 1..Len(q) /\ Len(q) \in Nat /\ \A i \in DOMAIN q : q[i] \in Ops
  OBVIOUS
<1>2. kept \in SUBSET (1..Len(q)) /\ kept \in SUBSET Nat
  BY <1>1
<1>3. IsFiniteSet(kept)
  <2>1. IsFiniteSet(1..Len(q))
    BY <1>1, FS_Interval
  <2>2. QED
    BY <1>2, <2>1, FS_Subset
<1>4. Cardinality(kept) \in Nat
  BY <1>3, FS_CardinalityType
<1>5. /\ \A n \in 1..Cardinality(kept) :
           \E i \in kept : Cardinality({j \in kept : j <= i}) = n
      /\ \A i \in kept : Cardinality({j \in kept : j <= i}) \in 1..Cardinality(kept)
      /\ \A i, k \in kept :
           Cardinality({j \in kept : j <= i}) = Cardinality({j \in kept : j <= k}) => i = k
  BY <1>2, <1>3, RanksAreTaken
<1>6. ASSUME NEW n \in 1..Cardinality(kept)
      PROVE  nth(n) \in kept /\ Cardinality({j \in kept : j <= nth(n)}) = n
  <2> HIDE DEF kept
  <2>1. \E i \in kept : Cardinality({j \in kept : j <= i}) = n
    BY <1>5
  <2>2. QED
    BY <2>1, Zenon
<1>7. ASSUME NEW i \in kept PROVE \E n \in 1..Cardinality(kept) : nth(n) = i
  <2> DEFINE n == Cardinality({j \in kept : j <= i})
  <2> HIDE DEF kept
  <2>1. n \in 1..Cardinality(kept)
    BY <1>5
  <2>2. nth(n) \in kept /\ Cardinality({j \in kept : j <= nth(n)}) = n
    BY <1>6, <2>1
  <2>3. nth(n) = i
    <3> HIDE DEF nth
    <3>1. QED
      BY <1>5, <2>2
  <2>4. QED
    BY <2>1, <2>3
<1> HIDE DEF nth
<1>8. \A n \in 1..Cardinality(kept) : nth(n) \in DOMAIN q /\ q[nth(n)] \in Ops /\ q[nth(n)] \notin S
  BY <1>1, <1>6
<1>9. w \in Seq(Ops) /\ DOMAIN w = 1..Cardinality(kept)
  <2> HIDE DEF kept
  <2>1. w \in [1..Cardinality(kept) -> Ops]
    BY <1>8
  <2>2. QED
    BY <1>4, <2>1
<1>10. Members(w) = Members(q) \ S
  <2>1. ASSUME NEW x \in Members(w) PROVE x \in Members(q) \ S
    <3>1. PICK n \in 1..Cardinality(kept) : x = w[n]
      BY <1>9 DEF Members
    <3>2. x = q[nth(n)]
      BY <3>1
    <3>3. QED
      BY <1>8, <3>2 DEF Members
  <2>2. ASSUME NEW x \in Members(q) \ S PROVE x \in Members(w)
    <3>1. PICK i \in DOMAIN q : x = q[i]
      BY DEF Members
    <3>2. i \in kept
      BY <2>2, <3>1
    <3>3. PICK n \in 1..Cardinality(kept) : nth(n) = i
      BY <1>7, <3>2
    <3>4. w[n] = x
      BY <3>1, <3>3
    <3>5. QED
      BY <1>9, <3>4 DEF Members
  <2>3. QED
    BY <2>1, <2>2
<1>11. Distinct(w)
  <2> SUFFICES ASSUME NEW m \in 1..Cardinality(kept), NEW n \in 1..Cardinality(kept), w[m] = w[n]
               PROVE  m = n
    BY <1>9 DEF Distinct
  <2>1. q[nth(m)] = q[nth(n)]
    OBVIOUS
  <2>2. nth(m) = nth(n)
    BY <1>8, <2>1 DEF Distinct
  <2>3. QED
    BY <1>6, <2>2
<1>12. QED
  BY <1>0, <1>9, <1>10, <1>11

\* Append puts a newcomer behind the others, once.
LEMMA AppendEffect ==
  ASSUME NEW q \in Seq(Ops), NEW o \in Ops, Distinct(q), o \notin Members(q)
  PROVE  /\ Append(q, o) \in Seq(Ops)
         /\ Members(Append(q, o)) = Members(q) \cup {o}
         /\ Distinct(Append(q, o))
<1> DEFINE a == Append(q, o)
<1>1. /\ a \in Seq(Ops) /\ DOMAIN a = 1..(Len(q) + 1) /\ Len(q) \in Nat
      /\ DOMAIN q = 1..Len(q)
      /\ a[Len(q) + 1] = o
      /\ \A i \in 1..Len(q) : a[i] = q[i]
  OBVIOUS
<1> HIDE DEF a
<1>2. Members(a) = Members(q) \cup {o}
  <2>1. Members(a) \subseteq Members(q) \cup {o}
    BY <1>1 DEF Members
  <2>2. o \in Members(a)
    <3>1. Len(q) + 1 \in DOMAIN a
      BY <1>1
    <3>2. QED
      BY <1>1, <3>1 DEF Members
  <2>3. Members(q) \subseteq Members(a)
    <3>1. \A i \in DOMAIN q : i \in DOMAIN a /\ a[i] = q[i]
      BY <1>1
    <3>2. QED
      BY <3>1, Zenon DEF Members
  <2>4. QED
    BY <2>1, <2>2, <2>3
<1>3. Distinct(a)
  BY <1>1 DEF Distinct, Members
<1>4. QED
  BY <1>1, <1>2, <1>3 DEF a

\* Every queue lists the live tickets of its pool, each once, and there are no
\* more of them than the global limit.
TicketsInOrder ==
  \A p \in Pools : Distinct(queue[p]) /\ Members(queue[p]) = Waiting \cap InPool(p)

QueueInv ==
  /\ ticket \in [Ops -> 0..QueueWait]
  /\ queue \in [Pools -> Seq(Ops)]
  /\ TicketsInOrder
  /\ Cardinality(Waiting) <= QueueLimit

\* Facts about the tickets that every queue step needs.
LEMMA QueueTypes ==
  /\ QueueWait \in Nat /\ QueueWait > 0 /\ QueueLimit \in Nat
  /\ \A o \in Ops : PoolOf[o] \in Pools
  /\ \A p : InPool(p) \subseteq Ops
  /\ IsFiniteSet(Waiting) /\ Cardinality(Waiting) \in Nat
<1>1. Waiting \in SUBSET Ops
  BY DEF Waiting
<1>2. IsFiniteSet(Waiting)
  BY <1>1, PoolAssumption, FS_Subset
<1>3. QED
  BY <1>2, PoolAssumption, PoolsFinite, FS_CardinalityType

\* A step after which nobody waits who did not wait before keeps the limit.
LEMMA FewerWait ==
  ASSUME QueueInv, Waiting' \in SUBSET Waiting
  PROVE  Cardinality(Waiting') <= QueueLimit
<1>1. IsFiniteSet(Waiting') /\ Cardinality(Waiting') <= Cardinality(Waiting)
  BY QueueTypes, FS_Subset
<1>2. Cardinality(Waiting') \in Nat
  BY <1>1, FS_CardinalityType
<1>3. QED
  BY <1>1, <1>2, QueueTypes DEF QueueInv

\* ZREM of a ticket from all its sets, whether it is there or not.
LEMMA DropKeepsQueue ==
  ASSUME QueueInv, NEW o \in Ops, DropTicket(o)
  PROVE  QueueInv'
<1>1. /\ ticket \in [Ops -> 0..QueueWait] /\ queue \in [Pools -> Seq(Ops)]
      /\ PoolOf[o] \in Pools /\ QueueWait \in Nat
      /\ ticket' = [ticket EXCEPT ![o] = 0]
      /\ queue' = [queue EXCEPT ![PoolOf[o]] = Without(queue[PoolOf[o]], {o})]
  BY QueueTypes DEF QueueInv, DropTicket
<1>2. Waiting' = Waiting \ {o}
  BY <1>1 DEF Waiting
<1>3. Cardinality(Waiting') <= QueueLimit
  BY <1>2, FewerWait
<1>4. ticket' \in [Ops -> 0..QueueWait]
  BY <1>1
<1>5. ASSUME NEW p \in Pools
      PROVE  /\ queue'[p] \in Seq(Ops) /\ Distinct(queue'[p])
             /\ Members(queue'[p]) = Waiting' \cap InPool(p)
  <2>1. queue[p] \in Seq(Ops) /\ Distinct(queue[p]) /\ Members(queue[p]) = Waiting \cap InPool(p)
    BY DEF QueueInv, TicketsInOrder
  <2>2. CASE p = PoolOf[o]
    <3>1. queue'[p] = Without(queue[p], {o})
      BY <1>1, <2>2
    <3>2. /\ Without(queue[p], {o}) \in Seq(Ops)
          /\ Members(Without(queue[p], {o})) = Members(queue[p]) \ {o}
          /\ Distinct(Without(queue[p], {o}))
      BY <2>1, WithoutEffect
    <3>3. Members(queue[p]) \ {o} = Waiting' \cap InPool(p)
      BY <1>2, <2>1
    <3>4. QED
      BY <3>1, <3>2, <3>3
  <2>3. CASE p # PoolOf[o]
    <3>1. queue'[p] = queue[p]
      BY <1>1, <2>3
    <3>2. o \notin InPool(p)
      BY <2>3 DEF InPool
    <3>3. QED
      BY <1>2, <2>1, <3>1, <3>2
  <2>4. QED
    BY <2>2, <2>3
<1>6. queue' \in [Pools -> Seq(Ops)]
  <2>1. DOMAIN queue' = Pools /\ queue' = [p \in Pools |-> queue'[p]]
    BY <1>1
  <2>2. QED
    BY <1>5, <2>1
<1>7. TicketsInOrder'
  BY <1>5 DEF TicketsInOrder
<1>8. QED
  BY <1>3, <1>4, <1>6, <1>7 DEF QueueInv

\* A new ticket below the global limit.
LEMMA EnqueueKeepsQueue ==
  ASSUME QueueInv, NEW o \in Ops, ticket[o] = 0, Cardinality(Waiting) < QueueLimit,
         ticket' = [ticket EXCEPT ![o] = QueueWait],
         queue' = [queue EXCEPT ![PoolOf[o]] = Append(@, o)]
  PROVE  QueueInv'
<1>1. /\ ticket \in [Ops -> 0..QueueWait] /\ queue \in [Pools -> Seq(Ops)]
      /\ PoolOf[o] \in Pools /\ QueueWait \in Nat /\ QueueWait > 0
  BY QueueTypes DEF QueueInv
<1>2. Waiting' = Waiting \cup {o} /\ o \notin Waiting
  BY <1>1 DEF Waiting
<1>3. Cardinality(Waiting') <= QueueLimit
  <2>1. Cardinality(Waiting \cup {o}) = Cardinality(Waiting) + 1
    BY <1>2, QueueTypes, FS_AddElement
  <2>2. QED
    BY <1>2, <2>1, QueueTypes
<1>4. ticket' \in [Ops -> 0..QueueWait]
  BY <1>1
<1>5. ASSUME NEW p \in Pools
      PROVE  /\ queue'[p] \in Seq(Ops) /\ Distinct(queue'[p])
             /\ Members(queue'[p]) = Waiting' \cap InPool(p)
  <2>1. queue[p] \in Seq(Ops) /\ Distinct(queue[p]) /\ Members(queue[p]) = Waiting \cap InPool(p)
    BY DEF QueueInv, TicketsInOrder
  <2>2. CASE p = PoolOf[o]
    <3>1. queue'[p] = Append(queue[p], o)
      BY <1>1, <2>2
    <3>2. o \notin Members(queue[p])
      BY <1>2, <2>1
    <3>3. /\ Append(queue[p], o) \in Seq(Ops)
          /\ Members(Append(queue[p], o)) = Members(queue[p]) \cup {o}
          /\ Distinct(Append(queue[p], o))
      BY <2>1, <3>2, AppendEffect
    <3>4. o \in InPool(p)
      BY <2>2 DEF InPool
    <3>5. Members(queue[p]) \cup {o} = Waiting' \cap InPool(p)
      BY <1>2, <2>1, <3>4
    <3>6. QED
      BY <3>1, <3>3, <3>5
  <2>3. CASE p # PoolOf[o]
    <3>1. queue'[p] = queue[p]
      BY <1>1, <2>3
    <3>2. o \notin InPool(p)
      BY <2>3 DEF InPool
    <3>3. QED
      BY <1>2, <2>1, <3>1, <3>2
  <2>4. QED
    BY <2>2, <2>3
<1>6. queue' \in [Pools -> Seq(Ops)]
  <2>1. DOMAIN queue' = Pools /\ queue' = [p \in Pools |-> queue'[p]]
    BY <1>1
  <2>2. QED
    BY <1>5, <2>1
<1>7. TicketsInOrder'
  BY <1>5 DEF TicketsInOrder
<1>8. QED
  BY <1>3, <1>4, <1>6, <1>7 DEF QueueInv

\* All tickets that expire at once leave their queues.
LEMMA TickKeepsQueue ==
  ASSUME QueueInv, Tick
  PROVE  QueueInv'
<1> DEFINE gone == {o \in Ops : ticket[o] = 1}
<1>1. /\ ticket \in [Ops -> 0..QueueWait] /\ queue \in [Pools -> Seq(Ops)]
      /\ QueueWait \in Nat
      /\ ticket' = [o \in Ops |-> IF ticket[o] > 0 THEN ticket[o] - 1 ELSE 0]
      /\ queue' = [p \in Pools |-> Without(queue[p], gone)]
  BY QueueTypes DEF QueueInv, Tick, Down
<1>2. Waiting' = Waiting \ gone
  BY <1>1 DEF Waiting
<1>3. Cardinality(Waiting') <= QueueLimit
  BY <1>2, FewerWait
<1>4. ticket' \in [Ops -> 0..QueueWait]
  BY <1>1
<1> HIDE DEF gone
<1>5. ASSUME NEW p \in Pools
      PROVE  /\ queue'[p] \in Seq(Ops) /\ Distinct(queue'[p])
             /\ Members(queue'[p]) = Waiting' \cap InPool(p)
  <2>1. queue[p] \in Seq(Ops) /\ Distinct(queue[p]) /\ Members(queue[p]) = Waiting \cap InPool(p)
    BY DEF QueueInv, TicketsInOrder
  <2>2. queue'[p] = Without(queue[p], gone)
    BY <1>1
  <2>3. /\ Without(queue[p], gone) \in Seq(Ops)
        /\ Members(Without(queue[p], gone)) = Members(queue[p]) \ gone
        /\ Distinct(Without(queue[p], gone))
    BY <2>1, WithoutEffect
  <2>4. Members(queue[p]) \ gone = Waiting' \cap InPool(p)
    BY <1>2, <2>1
  <2>5. QED
    BY <2>2, <2>3, <2>4
<1>6. queue' \in [Pools -> Seq(Ops)]
  <2>1. queue' = [p \in Pools |-> queue'[p]]
    BY <1>1
  <2>2. QED
    BY <1>5, <2>1
<1>7. TicketsInOrder'
  BY <1>5 DEF TicketsInOrder
<1>8. QED
  BY <1>3, <1>4, <1>6, <1>7 DEF QueueInv

\* A step that leaves the queue's sets alone.
LEMMA SameQueue ==
  ASSUME QueueInv, UNCHANGED <<ticket, queue>>
  PROVE  QueueInv'
BY DEF QueueInv, TicketsInOrder, Waiting, Distinct, Members

\* What model_pool_admit.lua does to the queue: the admitted drop their ticket,
\* a newcomer that is queued gets one below the limit, and nothing else changes.
\* Only an operation without a ticket is turned away.
LEMMA AdmitQueue ==
  ASSUME QueueInv, LeaseTypes, NEW o \in Ops, admit_or_enqueue(o)
  PROVE  \/ Decision(o) = "admitted" /\ DropTicket(o)
         \/ /\ Decision(o) = "queued" /\ ticket[o] = 0 /\ Cardinality(Waiting) < QueueLimit
            /\ ticket' = [ticket EXCEPT ![o] = QueueWait]
            /\ queue' = [queue EXCEPT ![PoolOf[o]] = Append(@, o)]
            /\ lease' = lease
         \/ Decision(o) = "queued" /\ ticket[o] # 0 /\ UNCHANGED <<lease, ticket, queue>>
         \/ /\ Decision(o) \notin {"admitted", "queued"} /\ ticket[o] = 0 /\ ~(lease[o] > 0)
            /\ UNCHANGED <<lease, ticket, queue>>
<1>0. /\ ticket[o] \in Nat /\ lease[o] \in Nat
      /\ Cardinality(Waiting) \in Nat /\ QueueLimit \in Nat
  BY QueueTypes DEF QueueInv, LeaseTypes
<1>1. CASE Decision(o) = "admitted"
  BY <1>1 DEF admit_or_enqueue
<1>2. CASE Decision(o) = "queued" /\ ticket[o] = 0
  <2>1. Cardinality(Waiting) < QueueLimit
    BY <1>0, <1>2 DEF Decision
  <2>2. QED
    BY <1>2, <2>1 DEF admit_or_enqueue
<1>3. CASE Decision(o) = "queued" /\ ticket[o] # 0
  BY <1>3 DEF admit_or_enqueue
<1>4. CASE Decision(o) \notin {"admitted", "queued"}
  <2>1. ticket[o] = 0 /\ ~(lease[o] > 0)
    BY <1>0, <1>4 DEF Decision
  <2>2. QED
    BY <1>4, <2>1 DEF admit_or_enqueue
<1>5. QED
  BY <1>1, <1>2, <1>3, <1>4

\* Every step keeps the queues and the tickets in agreement.
LEMMA QueueStep == QueueInv /\ LeaseTypes /\ [Next]_vars => QueueInv'
<1> SUFFICES ASSUME QueueInv, LeaseTypes, [Next]_vars PROVE QueueInv'
  OBVIOUS
<1>1. ASSUME NEW o \in Ops, admit_or_enqueue(o) PROVE QueueInv'
  BY <1>1, AdmitQueue, DropKeepsQueue, EnqueueKeepsQueue, SameQueue, Zenon
<1>2. ASSUME NEW o \in Ops, Arrive(o) \/ Poll(o) PROVE QueueInv'
  <2>1. admit_or_enqueue(o) \/ UNCHANGED redis
    BY <1>2 DEF Arrive, Poll
  <2>2. QED
    BY <1>1, <2>1, SameQueue DEF redis
<1>3. ASSUME NEW o \in Ops, cancel(o) PROVE QueueInv'
  <2>1. DropTicket(o) \/ UNCHANGED <<ticket, queue>>
    BY <1>3 DEF cancel
  <2>2. QED
    BY <2>1, DropKeepsQueue, SameQueue
<1>4. ASSUME NEW o \in Ops,
             \/ TimeOut(o) \/ acquire(o) \/ heartbeat(o) \/ heartbeat_pool(o)
             \/ release(o) \/ release_pool(o) \/ Disconnect(o)
             \/ Yield(o) \/ Resume(o) \/ Finish(o) \/ Crash(o)
      PROVE  QueueInv'
  <2>1. UNCHANGED <<ticket, queue>>
    BY <1>4 DEF TimeOut, acquire, heartbeat, heartbeat_pool, release, release_pool,
                Disconnect, Yield, Resume, Finish, Crash
  <2>2. QED
    BY <2>1, SameQueue
<1>5. CASE UNCHANGED vars
  BY <1>5, SameQueue DEF vars
<1>6. QED
  BY <1>2, <1>3, <1>4, <1>5, TickKeepsQueue DEF Next, Proceed

\* A queue without doubles is as long as the set of its members is large.
LEMMA DistinctLength ==
  ASSUME NEW q \in Seq(Ops), Distinct(q)
  PROVE  Len(q) = Cardinality(Members(q))
<1>1. DOMAIN q = 1..Len(q) /\ Len(q) \in Nat
  OBVIOUS
<1> DEFINE f == [i \in 1..Len(q) |-> q[i]]
<1>2. f \in Surjection(1..Len(q), Members(q)) /\ f \in Injection(1..Len(q), Members(q))
  BY <1>1 DEF Surjection, Injection, IsInjective, Members, Distinct
<1>3. IsFiniteSet(1..Len(q)) /\ Cardinality(1..Len(q)) = Len(q)
  <2>1. 1 \in Int /\ Len(q) \in Int
    BY <1>1
  <2>2. /\ IsFiniteSet(1..Len(q))
        /\ Cardinality(1..Len(q)) = IF 1 > Len(q) THEN 0 ELSE Len(q) - 1 + 1
    BY <2>1, FS_Interval
  <2>3. QED
    BY <1>1, <2>2
<1> HIDE DEF f
<1>4. Cardinality(Members(q)) = Cardinality(1..Len(q))
  BY <1>2, <1>3, FS_Surjection
<1>5. QED
  BY <1>3, <1>4

\* In a state of the invariant the properties of the queue hold.
LEMMA QueueInvSuffices == QueueInv => QueueIsTickets
<1> SUFFICES ASSUME QueueInv, NEW p \in Pools
             PROVE  /\ {queue[p][i] : i \in DOMAIN queue[p]} = Waiting \cap InPool(p)
                    /\ Len(queue[p]) = Cardinality(Waiting \cap InPool(p))
  BY DEF QueueIsTickets
<1>1. queue[p] \in Seq(Ops) /\ Distinct(queue[p]) /\ Members(queue[p]) = Waiting \cap InPool(p)
  BY DEF QueueInv, TicketsInOrder
<1>2. Len(queue[p]) = Cardinality(Members(queue[p]))
  BY <1>1, DistinctLength
<1>3. QED
  BY <1>1, <1>2 DEF Members

\* At the start nobody waits.
LEMMA QueueInit == Init => QueueInv
<1> SUFFICES ASSUME Init PROVE QueueInv
  OBVIOUS
<1>1. /\ ticket = [o \in Ops |-> 0] /\ queue = [p \in Pools |-> <<>>]
      /\ QueueWait \in Nat /\ QueueLimit \in Nat
  BY QueueTypes DEF Init
<1>2. Waiting = {}
  BY <1>1 DEF Waiting
<1>3. ticket \in [Ops -> 0..QueueWait] /\ queue \in [Pools -> Seq(Ops)]
  BY <1>1
<1>4. TicketsInOrder
  <2>1. Members(<<>>) = {} /\ Distinct(<<>>)
    BY DEF Members, Distinct
  <2>2. \A p \in Pools : queue[p] = <<>>
    BY <1>1
  <2>3. QED
    BY <1>2, <2>1, <2>2 DEF TicketsInOrder
<1>5. Cardinality(Waiting) <= QueueLimit
  BY <1>1, <1>2, FS_EmptySet
<1>6. QED
  BY <1>3, <1>4, <1>5 DEF QueueInv

\* Every step leaves a handler that has not been granted a lease without one.
LEMMA NoLeaseYetStep == GateInv /\ [Next]_vars => NoLeaseYet'
<1> SUFFICES ASSUME GateInv, [Next]_vars PROVE NoLeaseYet'
  OBVIOUS
<1> USE DEF GateInv, LeaseTypes, Goto
<1>1. ASSUME NEW o \in Ops, Arrive(o) \/ Poll(o) PROVE NoLeaseYet'
  <2>1. lease[o] = 0 /\ slot[o] = 0
    BY <1>1 DEF Arrive, Poll, NoLeaseYet
  <2>2. /\ slot' = slot
        /\ lease' = lease \/ lease' = [lease EXCEPT ![o] = LeaseTime]
    BY <1>1, <2>1, AdmitEffect DEF Arrive, Poll, redis
  <2>3. \/ at' = [at EXCEPT ![o] = "queued"] /\ lease' = lease
        \/ at' = at /\ lease' = lease
        \/ at' = [at EXCEPT ![o] = "acquire"]
        \/ at' = [at EXCEPT ![o] = "done"]
        \/ at' = [at EXCEPT ![o] = "cancel_ticket"]
    BY <1>1, <2>1, AdmitEffect DEF Arrive, Poll
  <2>4. QED
    BY <2>1, <2>2, <2>3 DEF NoLeaseYet
<1>2. ASSUME NEW o \in Ops, acquire(o) PROVE NoLeaseYet'
  BY <1>2 DEF acquire, NoLeaseYet
<1>3. ASSUME NEW o \in Ops, heartbeat(o) \/ heartbeat_pool(o) PROVE NoLeaseYet'
  BY <1>3 DEF heartbeat, heartbeat_pool, Renewed, NoLeaseYet
<1>4. ASSUME NEW o \in Ops, release(o) \/ release_pool(o) PROVE NoLeaseYet'
  BY <1>4 DEF release, release_pool, NoLeaseYet
<1>5. ASSUME NEW o \in Ops,
             \/ TimeOut(o) \/ cancel(o) \/ Disconnect(o) \/ Yield(o) \/ Resume(o)
             \/ Finish(o) \/ Crash(o)
      PROVE  NoLeaseYet'
  BY <1>5 DEF TimeOut, cancel, Disconnect, Yield, Resume, Finish, Crash, NoLeaseYet
<1>6. CASE Tick
  BY <1>6 DEF Tick, Down, NoLeaseYet
<1>7. CASE UNCHANGED vars
  BY <1>7 DEF vars, NoLeaseYet
<1>8. QED
  BY <1>1, <1>2, <1>3, <1>4, <1>5, <1>6, <1>7 DEF Next, Proceed

\* The bounds of the timers and of the count of faults.
TimersOK ==
  /\ lease \in [Ops -> 0..LeaseTime]
  /\ slot \in [Ops -> 0..LeaseTime]
  /\ wait \in [Ops -> 0..(QueueWait + CallTime)]
  /\ due \in [Ops -> 0..(HeartbeatTime + CallTime)]
  /\ faults \in 0..MaxFaults

\* Every step keeps the timers in their bounds.
LEMMA TimersStep == GateInv /\ TimersOK /\ [Next]_vars => TimersOK'
<1> SUFFICES ASSUME GateInv, TimersOK, [Next]_vars PROVE TimersOK'
  OBVIOUS
<1>0. QueueWait \in Nat /\ MaxFaults \in Nat
  BY PoolAssumption
<1> USE <1>0, TimesType DEF TimersOK, NextCall, NextHeartbeat, Fault, NoFault
<1>1. ASSUME NEW o \in Ops, Arrive(o) \/ Poll(o) PROVE TimersOK'
  <2>1. lease[o] = 0 /\ LeaseTypes
    BY <1>1 DEF Arrive, Poll, GateInv, NoLeaseYet
  <2>2. /\ slot' = slot
        /\ lease' = lease \/ lease' = [lease EXCEPT ![o] = LeaseTime]
    BY <1>1, <2>1, AdmitEffect DEF Arrive, Poll, redis
  <2>3. /\ due' = due \/ due' = [due EXCEPT ![o] = CallTime]
        /\ faults' = faults \/ (faults < MaxFaults /\ faults' = faults + 1)
        /\ \/ wait' = wait
           \/ \E latency \in 0..CallTime : wait' = [wait EXCEPT ![o] = QueueWait + latency]
    BY <1>1 DEF Arrive, Poll
  <2>4. wait' \in [Ops -> 0..(QueueWait + CallTime)]
    BY <2>3
  <2>5. QED
    BY <2>2, <2>3, <2>4
<1>2. ASSUME NEW o \in Ops, acquire(o) PROVE TimersOK'
  BY <1>2 DEF acquire
<1>3. ASSUME NEW o \in Ops, heartbeat(o) \/ heartbeat_pool(o) PROVE TimersOK'
  BY <1>3 DEF heartbeat, heartbeat_pool, Renewed
<1>4. ASSUME NEW o \in Ops, release(o) \/ release_pool(o) PROVE TimersOK'
  BY <1>4 DEF release, release_pool
<1>5. ASSUME NEW o \in Ops,
             \/ TimeOut(o) \/ cancel(o) \/ Disconnect(o) \/ Yield(o) \/ Resume(o)
             \/ Finish(o) \/ Crash(o)
      PROVE  TimersOK'
  BY <1>5 DEF TimeOut, cancel, Disconnect, Yield, Resume, Finish, Crash
<1>6. CASE Tick
  BY <1>6 DEF Tick, Down
<1>7. CASE UNCHANGED vars
  BY <1>7 DEF vars
<1>8. QED
  BY <1>1, <1>2, <1>3, <1>4, <1>5, <1>6, <1>7 DEF Next, Proceed

\* What a handler can still have in Valkey, by position.  Once it has a pool
\* lease it has no ticket; as long as no call failed, a handler that gave up
\* waiting has no lease, and one that is done has nothing.
Leftovers ==
  \A o \in Ops :
    /\ at[o] \in {"start", "acquire", "running", "heartbeat", "heartbeat_lost",
                  "yielding", "release", "release_pool"} => ticket[o] = 0
    /\ faults = 0 =>
         /\ at[o] = "cancel_ticket" => lease[o] = 0 /\ slot[o] = 0
         /\ at[o] = "release_pool" => slot[o] = 0
         /\ at[o] = "done" => lease[o] = 0 /\ slot[o] = 0 /\ ticket[o] = 0

\* What holds of gate, queue and handlers together in every state.
PoolInv == GateInv /\ TimersOK /\ QueueInv /\ Leftovers

\* Every step leaves behind only what the position of its handler says.
LEMMA LeftoversStep == PoolInv /\ [Next]_vars => Leftovers'
<1> SUFFICES ASSUME PoolInv, [Next]_vars PROVE Leftovers'
  OBVIOUS
<1>0. /\ lease \in [Ops -> Nat] /\ slot \in [Ops -> Nat] /\ at \in [Ops -> Positions]
      /\ ticket \in [Ops -> 0..QueueWait] /\ faults \in Nat /\ QueueWait \in Nat
      /\ LeaseTypes /\ NoLeaseYet /\ Leftovers /\ QueueInv
  BY PoolAssumption DEF PoolInv, GateInv, LeaseTypes, TimersOK, QueueInv
<1> USE <1>0 DEF Goto, Fault, NoFault
<1>1. ASSUME NEW o \in Ops, Arrive(o) \/ Poll(o) PROVE Leftovers'
  <2>1. lease[o] = 0 /\ slot[o] = 0 /\ at[o] \in {"start", "queued"}
    BY <1>1 DEF Arrive, Poll, NoLeaseYet
  <2>2. CASE faults' = faults
    <3>1. /\ admit_or_enqueue(o)
          /\ CASE Decision(o) = "admitted" -> at' = [at EXCEPT ![o] = "acquire"]
               [] Decision(o) = "queued" -> at' \in {at, [at EXCEPT ![o] = "queued"]} /\ at'[o] = "queued"
               [] OTHER -> at' = [at EXCEPT ![o] = "done"]
      BY <1>1, <2>2 DEF Arrive, Poll
    <3>2. slot' = slot /\ \A x \in Ops : x # o => lease'[x] = lease[x] /\ at'[x] = at[x]
      BY <2>1, <3>1, AdmitEffect
    <3>3. \A x \in Ops : x # o => ticket'[x] = ticket[x]
      BY <3>1, AdmitQueue DEF DropTicket
    <3>4. \/ at'[o] = "acquire" /\ ticket'[o] = 0
          \/ at'[o] = "queued"
          \/ at'[o] = "done" /\ ticket'[o] = 0 /\ lease'[o] = 0
      BY <2>1, <3>1, AdmitQueue DEF DropTicket
    <3>5. QED
      BY <2>1, <2>2, <3>2, <3>3, <3>4 DEF Leftovers
  <2>3. CASE faults' = faults + 1
    <3>1. /\ admit_or_enqueue(o) \/ UNCHANGED redis
          /\ at' \in {[at EXCEPT ![o] = "done"], [at EXCEPT ![o] = "cancel_ticket"]}
      BY <1>1, <2>3 DEF Arrive, Poll
    <3>2. \A x \in Ops : x # o => ticket'[x] = ticket[x]
      BY <3>1, AdmitQueue DEF DropTicket, redis
    <3>3. faults' # 0
      BY <2>3
    <3>4. QED
      BY <3>1, <3>2, <3>3 DEF Leftovers
  <2>4. QED
    BY <1>1, <2>2, <2>3 DEF Arrive, Poll
<1>2. ASSUME NEW o \in Ops, cancel(o) PROVE Leftovers'
  <2>1. /\ at[o] = "cancel_ticket" /\ at' = [at EXCEPT ![o] = "done"]
        /\ UNCHANGED <<lease, slot>>
        /\ \/ faults' = faults /\ ticket' = [ticket EXCEPT ![o] = 0]
           \/ faults' = faults + 1 /\ ticket' \in {ticket, [ticket EXCEPT ![o] = 0]}
    BY <1>2 DEF cancel, DropTicket
  <2>2. QED
    BY <2>1 DEF Leftovers
<1>3. ASSUME NEW o \in Ops, acquire(o) PROVE Leftovers'
  BY <1>3 DEF acquire, Leftovers, NoLeaseYet
<1>4. ASSUME NEW o \in Ops, heartbeat(o) \/ heartbeat_pool(o) PROVE Leftovers'
  BY <1>4 DEF heartbeat, heartbeat_pool, Renewed, Leftovers
<1>5. ASSUME NEW o \in Ops, release(o) \/ release_pool(o) PROVE Leftovers'
  BY <1>5 DEF release, release_pool, Leftovers
<1>6. ASSUME NEW o \in Ops,
             TimeOut(o) \/ Disconnect(o) \/ Yield(o) \/ Resume(o) \/ Finish(o)
      PROVE  Leftovers'
  BY <1>6 DEF TimeOut, Disconnect, Yield, Resume, Finish, Leftovers, NoLeaseYet
<1>7. ASSUME NEW o \in Ops, Crash(o) PROVE Leftovers'
  BY <1>7 DEF Crash, Leftovers
<1>8. CASE Tick
  BY <1>8 DEF Tick, Down, Leftovers
<1>9. CASE UNCHANGED vars
  BY <1>9 DEF vars, Leftovers
<1>10. QED
  BY <1>1, <1>2, <1>3, <1>4, <1>5, <1>6, <1>7, <1>8, <1>9 DEF Next, Proceed

\* Gate, queue and handlers agree in every state of every behaviour, streams
\* held at a yield included.
LEMMA PoolInvHolds == Spec => []PoolInv
<1>1. Init => PoolInv
  <2> SUFFICES ASSUME Init PROVE PoolInv
    OBVIOUS
  <2>1. GateInv
    BY LeaseInit DEF LeaseInv, GateInv, LeasesOutlast, NoLeaseYet
  <2>2. TimersOK
    BY PoolAssumption DEF Init, TimersOK
  <2>3. Leftovers
    BY DEF Init, Leftovers
  <2>4. QED
    BY <2>1, <2>2, <2>3, QueueInit DEF PoolInv
<1>2. PoolInv /\ [Next]_vars => PoolInv'
  <2>1. PoolInv /\ [Next]_vars => GateInv'
    BY TypesStep, LimitsStep, NoLeaseYetStep DEF PoolInv, GateInv
  <2>2. PoolInv /\ [Next]_vars => QueueInv'
    BY QueueStep DEF PoolInv, GateInv
  <2>3. QED
    BY <2>1, <2>2, TimersStep, LeftoversStep DEF PoolInv
<1>3. QED
  BY <1>1, <1>2, PTL DEF Spec

\* Type correctness of the Valkey sets and of the handlers, for every size of
\* the system.
THEOREM PoolTypeCorrect == Spec => []TypeOK
<1>1. PoolInv => TypeOK
  BY DEF PoolInv, GateInv, LeaseTypes, TimersOK, QueueInv, TypeOK
<1>2. QED
  BY <1>1, PoolInvHolds, PTL

\* For any number of requests and pools, and through lost replies, expiry and
\* cancellation: the order of a queue and the ticket expiries describe the same
\* tickets, each once.
THEOREM QueueAndTicketsAgree == Spec => []QueueIsTickets
<1>1. PoolInv => QueueIsTickets
  BY QueueInvSuffices DEF PoolInv
<1>2. QED
  BY <1>1, PoolInvHolds, PTL

\* As long as no call to Valkey fails, a request that is over has given back
\* its ticket and both leases, on whichever of the handler's paths it ended.
THEOREM FinishedLeaveNothing == Spec => []NothingLeftBehind
<1>1. PoolInv => NothingLeftBehind
  BY DEF PoolInv, Leftovers, NothingLeftBehind
<1>2. QED
  BY <1>1, PoolInvHolds, PTL

\* What the capacity page reports of a pool is what the admission script does
\* to the next newcomer, and neither ever sees a limit exceeded, whatever
\* expired, crashed or was held at a yield before.
THEOREM CapacityPageIsRight == Spec => []CapacityReportHolds
<1>1. ASSUME PoolInv, NEW o \in Ops, at[o] = "start"
      PROVE  Decision(o) = "admitted" <=> _pool_capacity(PoolOf[o]) \in {"idle", "available"}
  <2> DEFINE p == PoolOf[o]
  <2>1. p \in Pools /\ ActiveLimit[p] \in Nat /\ ActiveLimit[p] > 0
    BY PoolAssumption
  <2>2. lease[o] = 0 /\ ticket[o] = 0
    BY <1>1 DEF PoolInv, GateInv, NoLeaseYet, Leftovers
  <2>3. /\ Cardinality(Active(p)) \in Nat /\ Cardinality(Active(p)) <= ActiveLimit[p]
        /\ Active(p) = {} => Cardinality(Active(p)) = 0
    <3>1. Active(p) \in SUBSET InPool(p)
      BY DEF Active
    <3>2. IsFiniteSet(Active(p))
      BY <3>1, PoolsFinite, FS_Subset
    <3>3. QED
      BY <1>1, <2>1, <3>2, FS_CardinalityType, FS_EmptySet
      DEF PoolInv, GateInv, LeasesWithinLimits
  <2>4. queue[p] = <<>> <=> Waiting \cap InPool(p) = {}
    <3>1. queue[p] \in Seq(Ops) /\ Members(queue[p]) = Waiting \cap InPool(p)
      BY <1>1, <2>1 DEF PoolInv, QueueInv, TicketsInOrder
    <3>2. queue[p] = <<>> <=> Members(queue[p]) = {}
      <4>1. CASE queue[p] = <<>>
        BY <4>1 DEF Members
      <4>2. CASE queue[p] # <<>>
        <5>1. Len(queue[p]) \in Nat \ {0}
          BY <3>1, <4>2, EmptySeq
        <5>2. 1 \in DOMAIN queue[p]
          BY <3>1, <5>1
        <5>3. QED
          BY <4>2, <5>2 DEF Members
      <4>3. QED
        BY <4>1, <4>2
    <3>3. QED
      BY <3>1, <3>2
  <2>5. Decision(o) = "admitted" <=> Cardinality(Active(p)) < ActiveLimit[p] /\ queue[p] = <<>>
    BY <2>2 DEF Decision
  <2>6. _pool_capacity(p) \in {"idle", "available"} <=>
          /\ Waiting \cap InPool(p) = {}
          /\ Active(p) = {} \/ Cardinality(Active(p)) # ActiveLimit[p]
    <3> HIDE DEF p
    <3>1. CASE Waiting \cap InPool(p) # {}
      BY <3>1 DEF _pool_capacity
    <3>2. CASE Waiting \cap InPool(p) = {} /\ Active(p) = {}
      <4>1. Cardinality(Active(p)) # ActiveLimit[p]
        BY <2>1, <2>3, <3>2
      <4>2. QED
        BY <3>2, <4>1 DEF _pool_capacity
    <3>3. CASE Waiting \cap InPool(p) = {} /\ Active(p) # {}
      BY <3>3 DEF _pool_capacity
    <3>4. QED
      BY <3>1, <3>2, <3>3
  <2> HIDE DEF p
  <2>7. QED
    BY <2>1, <2>3, <2>4, <2>5, <2>6 DEF p
<1>2. PoolInv => CapacityReportHolds
  BY <1>1 DEF PoolInv, GateInv, LeasesWithinLimits, QueueInv, CapacityReportHolds
<1>3. QED
  BY <1>2, PoolInvHolds, PTL

\* Only model_pool_admit.lua grants a pool lease, and only to the head of the
\* queue or when nobody waits.
LEMMA GrantStep ==
  ASSUME PoolInv, [Next]_vars, NEW o \in Ops, lease[o] = 0, lease'[o] > 0
  PROVE  queue[PoolOf[o]] = <<>> \/ Head(queue[PoolOf[o]]) = o
<1>0. lease \in [Ops -> Nat]
  BY DEF PoolInv, GateInv, LeaseTypes
<1>1. ASSUME NEW x \in Ops, Proceed(x) PROVE FALSE
  BY <1>0, <1>1 DEF Proceed, TimeOut, cancel, acquire, heartbeat, heartbeat_pool, Renewed,
                    release, release_pool
<1>2. ASSUME NEW x \in Ops, Disconnect(x) \/ Yield(x) \/ Resume(x) \/ Finish(x) \/ Crash(x)
      PROVE  FALSE
  BY <1>0, <1>2 DEF Disconnect, Yield, Resume, Finish, Crash
<1>3. ~Tick
  BY <1>0 DEF Tick, Down
<1>4. ~UNCHANGED vars
  BY <1>0 DEF vars
<1>5. PICK x \in Ops : Arrive(x) \/ Poll(x)
  BY <1>1, <1>2, <1>3, <1>4 DEF Next
<1>6. admit_or_enqueue(x)
  BY <1>0, <1>5 DEF Arrive, Poll, redis
<1>7. x = o /\ Decision(o) = "admitted"
  BY <1>0, <1>6 DEF admit_or_enqueue
<1>8. QED
  BY <1>7 DEF Decision

\* First come, first served: however requests poll, a pool lease goes to nobody
\* while a ticket that was issued before waits in the same pool.
THEOREM NobodyIsOvertaken == Spec => NoOvertaking
<1>1. PoolInv /\ [Next]_vars =>
        [\A o \in Ops :
           lease[o] = 0 /\ lease'[o] > 0 =>
             \/ queue[PoolOf[o]] = <<>>
             \/ Head(queue[PoolOf[o]]) = o]_vars
  BY GrantStep
<1>2. QED
  BY <1>1, PoolInvHolds, PTL DEF Spec, NoOvertaking

=============================================================================
