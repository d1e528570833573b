------------------------------ MODULE ModelPool ------------------------------
(***************************************************************************)
(* The capacity gate in front of the models: the model-pool leases and the *)
(* FIFO queue (limits/model_pool.py, lua/model_pool_*.lua), the caller's   *)
(* concurrency leases (limits/concurrency.py, lua/concurrency_*.lua) and   *)
(* the part of a chat handler that takes, renews and gives them back       *)
(* (services/chat.py: _acquire_model_pool, _ConcurrencyLeaseGuard,         *)
(* _release_active_leases).                                                *)
(*                                                                         *)
(* A Lua script is atomic in Valkey, so one script is one action.  Every   *)
(* call may fail with its effect done or not done (a lost reply, a timeout,*)
(* a cancelled task); failures and crashes are counted up to MaxFaults.    *)
(*                                                                         *)
(* Time: expiry scores and deadlines are kept as the time that is left,    *)
(* and Tick counts them all down; 0 is expired, or absent.  Every script   *)
(* drops expired members before it reads a set, so they are gone here as   *)
(* soon as they expire.                                                    *)
(***************************************************************************)
EXTENDS Naturals, FiniteSets, Sequences

CONSTANTS
  Ops,              \* operation ids: one per chat request
  Callers, Pools,
  CallerOf, PoolOf, \* [Ops -> Callers], [Ops -> Pools]
  ActiveLimit,      \* [Pools -> model_active_limit]
  CallerLimit,      \* [Callers -> concurrency_limit]
  QueueLimit,       \* contract_api_global_queue_limit
  CallerQueueLimit, \* contract_api_caller_queue_limit
  QueueWait,        \* queue_wait_seconds
  LeaseTime,        \* concurrency_lease_seconds, of both leases
  HeartbeatTime,    \* concurrency_heartbeat_seconds
  CallTime,         \* longest time from one Valkey call to the next
  Unguarded,        \* streams that may stay at a yield for longer than that
  MaxFaults         \* bound: failed calls and crashes in a behaviour

ASSUME PoolAssumption ==
  /\ IsFiniteSet(Ops)
  /\ CallerOf \in [Ops -> Callers]
  /\ PoolOf \in [Ops -> Pools]
  /\ ActiveLimit \in [Pools -> Nat \ {0}]
  /\ CallerLimit \in [Callers -> Nat \ {0}]
  /\ QueueLimit \in Nat
  /\ CallerQueueLimit \in Nat
  /\ QueueLimit > 0 => CallerQueueLimit > 0
  /\ QueueWait \in Nat \ {0}
  /\ {LeaseTime, HeartbeatTime, CallTime, MaxFaults} \subseteq Nat
  /\ HeartbeatTime + 3 * CallTime < LeaseTime
  /\ Unguarded \subseteq Ops

VARIABLES
  lease,   \* model_active: time left of the pool lease of an operation
  slot,    \* concurrency: time left of the caller lease of an operation
  ticket,  \* model_queue_expiry, _global and _caller: time left of a ticket
  queue,   \* model_queue: per pool, the tickets in sequence order
  at,      \* position of the handler
  wait,    \* time left to queue_deadline, while queued
  due,     \* time left to the next Valkey call of the handler
  faults

redis == <<lease, slot, ticket, queue>>
vars == <<lease, slot, ticket, queue, at, wait, due, faults>>

Positions ==
  {"start", "queued", "cancel_ticket", "acquire", "running", "heartbeat",
   "heartbeat_lost", "yielding", "release", "release_pool", "done", "dead"}

\* The handler may be calling the model.
Busy(o) == at[o] \in {"running", "heartbeat", "heartbeat_lost", "yielding"}

-----------------------------------------------------------------------------
(* The sets the scripts count *)

InPool(p) == {o \in Ops : PoolOf[o] = p}
OfCaller(c) == {o \in Ops : CallerOf[o] = c}

Active(p) == {o \in InPool(p) : lease[o] > 0}
Concurrent(c) == {o \in OfCaller(c) : slot[o] > 0}
Waiting == {o \in Ops : ticket[o] > 0}

\* The members of a queue that are not in S, in their order.
Without(q, S) ==
  LET kept == {i \in DOMAIN q : q[i] \notin S}
      nth(n) == CHOOSE i \in kept : Cardinality({j \in kept : j <= i}) = n
  IN  [n \in 1..Cardinality(kept) |-> q[nth(n)]]

\* Mutant: the ticket stays in the order.
Mutant_KeepsRank(o) ==
  /\ ticket' = [ticket EXCEPT ![o] = 0]
  /\ UNCHANGED queue

\* ZREM from the order, expiry, global and caller sets.
DropTicket(o) ==
  /\ ticket' = [ticket EXCEPT ![o] = 0]
  /\ queue' = [queue EXCEPT ![PoolOf[o]] = Without(@, {o})]

\* Mutant: waiting tickets are looked at last.
Mutant_QueueLast(p) ==
  CASE Active(p) = {} -> "idle"
    [] Cardinality(Active(p)) < ActiveLimit[p] -> "available"
    [] Waiting \cap InPool(p) # {} -> "queued"
    [] OTHER -> "saturated"

\* What the administrators' capacity page says of a pool, from one
\* model_pool_observe.lua (services/capacity.py).
_pool_capacity(p) ==
  CASE Waiting \cap InPool(p) # {} -> "queued"
    [] Waiting \cap InPool(p) = {} /\ Active(p) = {} -> "idle"
    [] Waiting \cap InPool(p) = {} /\ Cardinality(Active(p)) = ActiveLimit[p] -> "saturated"
    [] OTHER -> "available"

-----------------------------------------------------------------------------
(* model_pool_admit.lua *)

\* Mutant: a newcomer takes a free slot although others wait.
Mutant_NewcomerFirst(o) ==
  LET p == PoolOf[o]
      room == Cardinality(Active(p)) < ActiveLimit[p]
  IN  CASE lease[o] > 0 -> "admitted"
        [] lease[o] = 0 /\ ticket[o] > 0 ->
             IF Head(queue[p]) = o /\ room THEN "admitted" ELSE "queued"
        [] OTHER ->
             IF room THEN "admitted"
             ELSE IF Cardinality(Waiting) >= QueueLimit THEN "queue_full"
             ELSE "queued"

Decision(o) ==
  LET p == PoolOf[o]
      room == Cardinality(Active(p)) < ActiveLimit[p]
  IN  CASE lease[o] > 0 -> "admitted"
        [] lease[o] = 0 /\ ticket[o] > 0 ->
             IF Head(queue[p]) = o /\ room THEN "admitted" ELSE "queued"
        [] OTHER ->
             IF room /\ queue[p] = <<>> THEN "admitted"
             ELSE IF Cardinality(Waiting) >= QueueLimit THEN "queue_full"
             ELSE IF Cardinality(Waiting \cap OfCaller(CallerOf[o])) >= CallerQueueLimit
               THEN "caller_queue_full"
             ELSE "queued"

admit_or_enqueue(o) ==
  /\ CASE Decision(o) = "admitted" ->
            /\ lease' = [lease EXCEPT ![o] = IF @ > 0 THEN @ ELSE LeaseTime]
            /\ DropTicket(o)
       [] Decision(o) = "queued" /\ ticket[o] = 0 ->
            /\ ticket' = [ticket EXCEPT ![o] = QueueWait]
            /\ queue' = [queue EXCEPT ![PoolOf[o]] = Append(@, o)]
            /\ UNCHANGED lease
       [] OTHER -> UNCHANGED <<lease, ticket, queue>>
  /\ UNCHANGED slot

-----------------------------------------------------------------------------
(* Handler steps *)

Goto(o, position) == at' = [at EXCEPT ![o] = position]
Fault == faults < MaxFaults /\ faults' = faults + 1
NoFault == UNCHANGED faults

\* The next call follows within CallTime.
NextCall(o) == due' = [due EXCEPT ![o] = CallTime]

\* The next heartbeat, an interval after the reply of a call whose effect is
\* now.
NextHeartbeat(o) ==
  \E latency \in 0..CallTime : due' = [due EXCEPT ![o] = HeartbeatTime + latency]

\* The first admit_or_enqueue of _acquire_model_pool, outside its try block.
\* queue_deadline is set from the reply, so it is not before the ticket's end.
Arrive(o) ==
  /\ at[o] = "start"
  /\ \/ /\ admit_or_enqueue(o)
        /\ NoFault
        /\ CASE Decision(o) = "admitted" ->
                  Goto(o, "acquire") /\ NextCall(o) /\ UNCHANGED wait
             [] Decision(o) = "queued" ->
                  /\ Goto(o, "queued")
                  /\ \E latency \in 0..CallTime :
                       wait' = [wait EXCEPT ![o] = QueueWait + latency]
                  /\ UNCHANGED due
             [] OTHER -> Goto(o, "done") /\ UNCHANGED <<wait, due>>
     \/ /\ Fault
        /\ admit_or_enqueue(o) \/ UNCHANGED redis
        /\ Goto(o, "done")
        /\ UNCHANGED <<wait, due>>

\* Mutant: every queued answer of Valkey sets a new deadline.
Mutant_NewDeadline(o) ==
  /\ at[o] = "queued"
  /\ admit_or_enqueue(o)
  /\ CASE Decision(o) = "admitted" -> Goto(o, "acquire") /\ NextCall(o) /\ UNCHANGED wait
       [] Decision(o) = "queued" -> /\ wait' = [wait EXCEPT ![o] = QueueWait]
                                   /\ UNCHANGED <<at, due>>
       [] OTHER -> Goto(o, "done") /\ UNCHANGED <<due, wait>>
  /\ UNCHANGED faults

\* A later round of the loop.  A failed poll cancels the ticket, no lease.
Poll(o) ==
  /\ at[o] = "queued"
  /\ wait[o] > 0
  /\ \/ /\ admit_or_enqueue(o)
        /\ NoFault
        /\ CASE Decision(o) = "admitted" -> Goto(o, "acquire") /\ NextCall(o)
             [] Decision(o) = "queued" -> UNCHANGED <<at, due>>
             [] OTHER -> Goto(o, "done") /\ UNCHANGED due
     \/ /\ Fault
        /\ admit_or_enqueue(o) \/ UNCHANGED redis
        /\ Goto(o, "cancel_ticket")
        /\ UNCHANGED due
  /\ UNCHANGED wait

\* queue_deadline has passed.
TimeOut(o) ==
  /\ at[o] = "queued"
  /\ wait[o] = 0
  /\ Goto(o, "cancel_ticket")
  /\ UNCHANGED <<lease, slot, ticket, queue, wait, due, faults>>

\* The task is cancelled while it sleeps between two polls.
Disconnect(o) ==
  /\ at[o] = "queued"
  /\ Goto(o, "cancel_ticket")
  /\ UNCHANGED <<lease, slot, ticket, queue, wait, due, faults>>

\* model_pool_cancel.lua
cancel(o) ==
  /\ at[o] = "cancel_ticket"
  /\ \/ DropTicket(o) /\ NoFault
     \/ Fault /\ (DropTicket(o) \/ UNCHANGED <<ticket, queue>>)
  /\ Goto(o, "done")
  /\ UNCHANGED <<lease, slot, wait, due>>

\* Mutants: a refused request keeps its pool lease; the limit is off by one.
Mutant_KeepsPoolLease(o) ==
  LET c == CallerOf[o]
      allowed == Cardinality(Concurrent(c)) < CallerLimit[c]
  IN  /\ at[o] = "acquire"
      /\ slot' = [slot EXCEPT ![o] = IF allowed THEN LeaseTime ELSE @]
      /\ NextHeartbeat(o)
      /\ Goto(o, IF allowed THEN "running" ELSE "done")
      /\ UNCHANGED <<lease, ticket, queue, wait, faults>>

Mutant_OffByOne(o) ==
  LET c == CallerOf[o]
      allowed == Cardinality(Concurrent(c)) <= CallerLimit[c]
  IN  /\ at[o] = "acquire"
      /\ slot' = [slot EXCEPT ![o] = IF allowed THEN LeaseTime ELSE @]
      /\ NextHeartbeat(o)
      /\ Goto(o, IF allowed THEN "running" ELSE "release_pool")
      /\ UNCHANGED <<lease, ticket, queue, wait, faults>>

\* concurrency_acquire.lua.  Refusal and failure give the pool lease back.
acquire(o) ==
  LET c == CallerOf[o]
      allowed == slot[o] > 0 \/ Cardinality(Concurrent(c)) < CallerLimit[c]
      taken == [slot EXCEPT ![o] = IF allowed /\ @ = 0 THEN LeaseTime ELSE @]
  IN  /\ at[o] = "acquire"
      /\ \/ /\ allowed
            /\ slot' = taken
            /\ Goto(o, "running")
            /\ NextHeartbeat(o)
            /\ NoFault
         \/ ~allowed /\ Goto(o, "release_pool") /\ UNCHANGED <<slot, due>> /\ NoFault
         \/ /\ Fault
            /\ slot' \in {slot, taken}
            /\ Goto(o, "release_pool")
            /\ UNCHANGED due
      /\ UNCHANGED <<lease, ticket, queue, wait>>

\* Mutant: the lease time is added to the time left.
Mutant_AddsLease(set, o) == [set EXCEPT ![o] = IF @ > 0 THEN @ + LeaseTime ELSE 0]

\* concurrency_heartbeat.lua on one set: only a live member is extended.
Renewed(set, o) == [set EXCEPT ![o] = IF @ > 0 THEN LeaseTime ELSE 0]

\* _ConcurrencyLeaseGuard.heartbeat: the caller lease, then the pool lease,
\* and only then the verdict on both.
heartbeat(o) ==
  /\ at[o] = "running"
  /\ due[o] = 0
  /\ \/ /\ slot' = Renewed(slot, o)
        /\ Goto(o, IF slot[o] > 0 THEN "heartbeat" ELSE "heartbeat_lost")
        /\ NextCall(o)
        /\ NoFault
     \/ /\ Fault
        /\ slot' \in {slot, Renewed(slot, o)}
        /\ Goto(o, "release")
        /\ UNCHANGED due
  /\ UNCHANGED <<lease, ticket, queue, wait>>

\* Mutant: the pool lease is not renewed with the caller lease.
Mutant_CallerLeaseOnly(o) ==
  /\ at[o] \in {"heartbeat", "heartbeat_lost"}
  /\ Goto(o, IF at[o] = "heartbeat" THEN "running" ELSE "release")
  /\ NextHeartbeat(o)
  /\ UNCHANGED <<lease, slot, ticket, queue, wait, faults>>

heartbeat_pool(o) ==
  /\ at[o] \in {"heartbeat", "heartbeat_lost"}
  /\ \/ /\ lease' = Renewed(lease, o)
        /\ IF at[o] = "heartbeat" /\ lease[o] > 0
             THEN Goto(o, "running") /\ NextHeartbeat(o)
             ELSE Goto(o, "release") /\ UNCHANGED due
        /\ NoFault
     \/ /\ Fault
        /\ lease' \in {lease, Renewed(lease, o)}
        /\ Goto(o, "release")
        /\ UNCHANGED due
  /\ UNCHANGED <<slot, ticket, queue, wait>>

\* A stream waits at a yield for its consumer, or for the end of its failure
\* path: the upstream call is open and nobody renews the leases.  Frames that
\* follow each other without a look at the heartbeat are one such wait.
Yield(o) ==
  /\ at[o] = "running"
  /\ due[o] > 0
  /\ o \in Unguarded
  /\ Goto(o, "yielding")
  /\ UNCHANGED <<lease, slot, ticket, queue, wait, due, faults>>

Resume(o) ==
  /\ at[o] = "yielding"
  /\ Goto(o, "running")
  /\ UNCHANGED <<lease, slot, ticket, queue, wait, due, faults>>

\* The request is answered or has failed: the finally clause is next.
Finish(o) ==
  /\ at[o] = "running"
  /\ Goto(o, "release")
  /\ UNCHANGED <<lease, slot, ticket, queue, wait, due, faults>>

\* _release_active_leases: a failed release does not stop the other one.
release(o) ==
  LET freed == [slot EXCEPT ![o] = 0]
  IN  /\ at[o] = "release"
      /\ \/ slot' = freed /\ NoFault
         \/ Fault /\ slot' \in {slot, freed}
      /\ Goto(o, "release_pool")
      /\ UNCHANGED <<lease, ticket, queue, wait, due>>

release_pool(o) ==
  LET freed == [lease EXCEPT ![o] = 0]
  IN  /\ at[o] = "release_pool"
      /\ \/ lease' = freed /\ NoFault
         \/ Fault /\ lease' \in {lease, freed}
      /\ Goto(o, "done")
      /\ UNCHANGED <<slot, ticket, queue, wait, due>>

Crash(o) ==
  /\ Fault
  /\ at[o] \notin {"start", "done", "dead"}
  /\ Goto(o, "dead")
  /\ UNCHANGED <<lease, slot, ticket, queue, wait, due>>

-----------------------------------------------------------------------------
(* Time *)

\* The handler has its next call to make: acquire after a grant, a heartbeat
\* when it is due.  The event loop gets to it within the current unit.
Urgent(o) == due[o] = 0 /\ at[o] \in {"acquire", "running", "heartbeat", "heartbeat_lost"}

Down(timer) == [o \in Ops |-> IF timer[o] > 0 THEN timer[o] - 1 ELSE 0]

Tick ==
  /\ \A o \in Ops : ~Urgent(o)
  /\ lease' = Down(lease)
  /\ slot' = Down(slot)
  /\ ticket' = Down(ticket)
  /\ queue' = [p \in Pools |-> Without(queue[p], {o \in Ops : ticket[o] = 1})]
  /\ wait' = Down(wait)
  /\ due' = Down(due)
  /\ UNCHANGED <<at, faults>>

-----------------------------------------------------------------------------

Init ==
  /\ lease = [o \in Ops |-> 0]
  /\ slot = [o \in Ops |-> 0]
  /\ ticket = [o \in Ops |-> 0]
  /\ queue = [p \in Pools |-> <<>>]
  /\ at = [o \in Ops |-> "start"]
  /\ wait = [o \in Ops |-> 0]
  /\ due = [o \in Ops |-> 0]
  /\ faults = 0

\* What an arrived handler does on its own account.
Proceed(o) ==
  \/ TimeOut(o) \/ cancel(o) \/ acquire(o) \/ heartbeat(o) \/ heartbeat_pool(o)
  \/ release(o) \/ release_pool(o)

Next ==
  \/ \E o \in Ops : \/ Arrive(o) \/ Poll(o) \/ Proceed(o) \/ Disconnect(o)
                    \/ Yield(o) \/ Resume(o) \/ Finish(o) \/ Crash(o)
  \/ Tick

Spec == Init /\ [][Next]_vars

\* Time passes, a handler's awaits return and a sleep between polls ends.
FairSpec ==
  /\ Spec
  /\ WF_vars(Tick)
  /\ \A o \in Ops : WF_vars(Proceed(o))

-----------------------------------------------------------------------------
(* Properties *)

\* Type correctness of the Valkey sets and of the handlers.
TypeOK ==
  /\ lease \in [Ops -> 0..LeaseTime]
  /\ slot \in [Ops -> 0..LeaseTime]
  /\ ticket \in [Ops -> 0..QueueWait]
  /\ queue \in [Pools -> Seq(Ops)]
  /\ at \in [Ops -> Positions]
  /\ wait \in [Ops -> 0..(QueueWait + CallTime)]
  /\ due \in [Ops -> 0..(HeartbeatTime + CallTime)]
  /\ faults \in 0..MaxFaults

\* The hard gate of the GPU: no more handlers call the models of a pool than
\* model_active_limit, although the gate counts leases that expire by
\* themselves and not handlers.
ActiveWithinLimit ==
  \A p \in Pools : Cardinality({o \in InPool(p) : Busy(o)}) <= ActiveLimit[p]

\* No caller has more requests at the models than its concurrency_limit.
CallerWithinLimit ==
  \A c \in Callers : Cardinality({o \in OfCaller(c) : Busy(o)}) <= CallerLimit[c]

\* Valkey holds at most the limit of live leases, and the leases of a handler
\* outlast the time to its next call: first acquire after the grant, then every
\* heartbeat, the pool lease being renewed one call after the caller lease.
\* A handler that has not got a lease yet holds none.
LeasesWithinLimits ==
  /\ \A p \in Pools : Cardinality(Active(p)) <= ActiveLimit[p]
  /\ \A c \in Callers : Cardinality(Concurrent(c)) <= CallerLimit[c]

LeasesOutlast ==
  \A o \in Ops :
    /\ at[o] \in {"start", "queued"} => lease[o] = 0
    /\ at[o] \in {"start", "queued", "acquire"} => slot[o] = 0
    /\ at[o] = "acquire" => lease[o] + CallTime >= LeaseTime + due[o]
    /\ at[o] = "running" =>
         /\ lease[o] + 2 * CallTime + HeartbeatTime >= LeaseTime + due[o]
         /\ slot[o] + 2 * CallTime + HeartbeatTime >= LeaseTime + due[o]
    /\ at[o] = "heartbeat" =>
         /\ lease[o] + 3 * CallTime + HeartbeatTime >= LeaseTime + due[o]
         /\ slot[o] + CallTime >= LeaseTime + due[o]
    /\ at[o] \notin {"heartbeat_lost", "yielding"}

LeaseTypes ==
  /\ lease \in [Ops -> Nat]
  /\ slot \in [Ops -> Nat]
  /\ at \in [Ops -> Positions]
  /\ due \in [Ops -> Nat]

\* The inductive strengthening of ActiveWithinLimit and CallerWithinLimit while
\* no stream is held at a yield: the gate counts live leases, so a busy handler
\* must be seen never to be without one.
LeaseInv == LeaseTypes /\ LeasesWithinLimits /\ LeasesOutlast

\* The queue order and the ticket expiries describe the same tickets, each once:
\* a poll of a live ticket always has a rank, and nobody waits behind a ghost.
QueueIsTickets ==
  \A p \in Pools :
    /\ {queue[p][i] : i \in DOMAIN queue[p]} = Waiting \cap InPool(p)
    /\ Len(queue[p]) = Cardinality(Waiting \cap InPool(p))

\* Without failed calls a handler that is done has left nothing in Valkey,
\* whether it was refused, timed out behind an expired ticket or was served.
NothingLeftBehind ==
  \A o \in Ops :
    at[o] = "done" /\ faults = 0 => lease[o] = 0 /\ slot[o] = 0 /\ ticket[o] = 0

\* The capacity page, computed apart from the admission script, agrees with
\* it while tickets and leases come, go and expire: observe never finds more
\* leases or tickets than the limits, which it would answer with an error, and
\* a newcomer is admitted at once exactly if its pool is idle or available.
CapacityReportHolds ==
  /\ Cardinality(Waiting) <= QueueLimit
  /\ \A p \in Pools : Cardinality(Active(p)) <= ActiveLimit[p]
  /\ \A o \in Ops :
       at[o] = "start" =>
         (Decision(o) = "admitted" <=> _pool_capacity(PoolOf[o]) \in {"idle", "available"})

\* First come, first served: a pool lease goes to nobody while a ticket that
\* was issued before waits in the same pool.
NoOvertaking ==
  [][\A o \in Ops :
       lease[o] = 0 /\ lease'[o] > 0 =>
         \/ queue[PoolOf[o]] = <<>>
         \/ Head(queue[PoolOf[o]]) = o]_vars

\* A queued request leaves the queue: it is admitted, or its wait ends after
\* queue_wait_seconds even if it is queued anew behind its own expired ticket.
QueueWaitEnds ==
  \A o \in Ops : at[o] = "queued" ~> at[o] # "queued"

=============================================================================
