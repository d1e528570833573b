---------------------------- MODULE BindingOutbox ----------------------------
(***************************************************************************)
(* Bringing a caller's desired state to Bifrost: the bindings and outbox   *)
(* items an administrator's transaction leaves behind (services/admin.py,  *)
(* integrations/bifrost/binding_service.py, models/outbox.py) and the      *)
(* workers that carry them out (workers/outbox.py).                        *)
(*                                                                         *)
(* A worker's step is a statement or a request: the claim, which locks its *)
(* rows; the two reads of _load; one call to Bifrost; and, since _complete *)
(* and _fail read their rows without a lock, two reads and a commit for    *)
(* each.  A commit writes the columns the transaction changed, whatever    *)
(* they hold by then.  The transactions of the administrator are one step. *)
(*                                                                         *)
(* A call to Bifrost may fail with its effect done or not done, up to      *)
(* MaxFaults times.  Clocks are reduced to what _claim makes of them: an   *)
(* item is ready, one available_at is earlier than another, and a claim    *)
(* has expired (locked_at).                                                *)
(* Update items are left out: nothing stages one.                          *)
(***************************************************************************)
EXTENDS Naturals, Sequences, Functions

CONSTANTS
  Callers,
  Workers,      \* outbox workers whose passes may overlap
  MaxAttempts,  \* max_attempts
  BatchSize,    \* batch_size
  LooseOrder,   \* items may get a place among those that are due already
  MaxLate,      \* bound: claims that expire although their worker lives
  MaxFaults,    \* bound: failed calls to Bifrost in a behaviour
  MaxCrashes    \* bound: crashes of a worker in a behaviour

ASSUME OutboxAssumption ==
  /\ MaxAttempts \in Nat \ {0}
  /\ BatchSize \in Nat \ {0}
  /\ LooseOrder \in BOOLEAN
  /\ {MaxLate, MaxFaults, MaxCrashes} \subseteq Nat

VARIABLES
  client,   \* api_client.status
  binding,  \* api_client_binding: version, bifrost_virtual_key_id, sync_status
  item,     \* control_outbox, by caller and action
  earlier,  \* <<i, j>>: i is before j by (available_at, id)
  keys,     \* Bifrost (external): is_active of the keys named for a caller
  worker,   \* per worker: the rest of its batch and where _process is
  late,     \* how many claims have expired although their worker lives
  faults, crashes

vars == <<client, binding, item, earlier, keys, worker, late, faults, crashes>>

NoKey == 0
Actions == {"create", "disable"}
Items == Callers \X Actions

Binding ==
  [version : 0..3, key : Nat, sync_status : {"pending", "active", "error", "disabled"}]

Item ==
  [status : {"none", "pending", "processing", "failed", "completed"},
   attempts : 0..MaxAttempts, version : 0..3, ready : BOOLEAN, expired : BOOLEAN]

Steps ==
  {"next", "load_binding", "disable", "get", "find", "create",
   "complete", "fail_retry", "fail_final",
   "completing", "failing_retry", "failing_final", "commit"}

NotStaged ==
  [status |-> "none", attempts |-> 0, version |-> 0, ready |-> FALSE, expired |-> FALSE]

\* A worker that is not processing an item.
Idle(batch) ==
  [batch |-> batch, at |-> "next", doing |-> <<>>, key |-> NoKey, write |-> <<>>]

Of(w) == worker[w].doing
Caller(w) == Of(w)[1]

-----------------------------------------------------------------------------
(* The administrator *)

Staged == {i \in Items : item[i].status # "none"}

\* An item gets a new available_at, which is the latest one.  But items of one
\* second are in the order of random ids, and a retry is counted from the start
\* of the pass: under LooseOrder the item may come before others.
Placed(i) ==
  LET others == Staged \ {i}
  IN  \E S \in SUBSET others :
        /\ \A j \in S, k \in others \ S : <<j, k>> \in earlier
        /\ LooseOrder \/ S = others
        /\ earlier' = {p \in earlier : i \notin {p[1], p[2]}}
                         \cup (S \X {i}) \cup ({i} \X (others \ S))

\* queue_binding_sync: the binding's next version, and an item that carries it.
queue_binding_sync(c, row, action) ==
  /\ binding' = [binding EXCEPT ![c] =
                   [row EXCEPT !.version = row.version + 1, !.sync_status = "pending"]]
  /\ item' = [item EXCEPT ![<<c, action>>] =
                [NotStaged EXCEPT !.status = "pending", !.version = row.version + 1,
                                  !.ready = TRUE]]
  /\ Placed(<<c, action>>)

create_caller(c) ==
  /\ client[c] = "absent"
  /\ client' = [client EXCEPT ![c] = "active"]
  /\ queue_binding_sync(c, [binding[c] EXCEPT !.version = 1], "create")
  /\ UNCHANGED <<keys, worker, late, faults, crashes>>

\* Mutant: the caller stays active until Bifrost has followed.
Mutant_RemoteFirst(c) ==
  /\ client[c] = "active"
  /\ item[<<c, "disable">>].status = "none"
  /\ queue_binding_sync(c, binding[c], "disable")
  /\ UNCHANGED <<client, keys, worker, late, faults, crashes>>

\* disable_caller with stage_local_client_disable; disabling again is no step.
disable_caller(c) ==
  /\ client[c] = "active"
  /\ client' = [client EXCEPT ![c] = "disabled"]
  /\ queue_binding_sync(c, binding[c], "disable")
  /\ UNCHANGED <<keys, worker, late, faults, crashes>>

-----------------------------------------------------------------------------
(* Claiming *)

\* Mutants: attempts are not limited; a processing item may be claimed before
\* its claim expired; an expired claim is never taken over.
Mutant_NoMaximum ==
  {i \in Items :
     \/ item[i].status \in {"pending", "failed"} /\ item[i].ready
     \/ item[i].status = "processing" /\ item[i].expired}

Mutant_NoTimeout ==
  {i \in Items :
     /\ item[i].attempts < MaxAttempts
     /\ \/ item[i].status \in {"pending", "failed"} /\ item[i].ready
        \/ item[i].status = "processing"}

Mutant_NoTakeover ==
  {i \in Items :
     /\ item[i].attempts < MaxAttempts
     /\ item[i].status \in {"pending", "failed"} /\ item[i].ready}

Claimable ==
  {i \in Items :
     /\ item[i].attempts < MaxAttempts
     /\ \/ item[i].status \in {"pending", "failed"} /\ item[i].ready
        \/ item[i].status = "processing" /\ item[i].expired}

\* ORDER BY available_at, id LIMIT batch_size FOR UPDATE SKIP LOCKED.
_claim(w) ==
  /\ worker[w] = Idle(<<>>)
  /\ \E n \in 1..BatchSize : \E batch \in Injection(1..n, Claimable) :
       LET S == Range(batch)
       IN  /\ \A j, k \in 1..n : j < k => <<batch[j], batch[k]>> \in earlier
           /\ \A i \in S, j \in Claimable \ S : <<i, j>> \in earlier
           /\ n = BatchSize \/ S = Claimable
           /\ item' = [i \in Items |->
                 IF i \in S THEN [item[i] EXCEPT !.status = "processing", !.expired = FALSE,
                                                 !.attempts = item[i].attempts + 1]
                            ELSE item[i]]
           /\ worker' = [worker EXCEPT ![w] = Idle(batch)]
  /\ UNCHANGED <<client, binding, earlier, keys, late, faults, crashes>>

-----------------------------------------------------------------------------
(* Processing an item *)

Goto(w, step) == worker' = [worker EXCEPT ![w].at = step]

\* _load reads the next item of the list; one that is no longer processing is
\* an error that ends in _fail.
_load(w) ==
  LET i == Head(worker[w].batch)
      step == IF item[i].status = "processing" THEN "load_binding" ELSE "fail_final"
  IN  /\ worker[w].at = "next"
      /\ worker[w].batch # <<>>
      /\ worker' = [worker EXCEPT ![w] =
                      [Idle(Tail(worker[w].batch)) EXCEPT !.doing = i, !.at = step]]
      /\ UNCHANGED <<client, binding, item, earlier, keys, late, faults, crashes>>

\* Mutant: a create without a known key does not look for one.
Mutant_CreateBlindly(action, key) ==
  CASE action = "disable" -> IF key = NoKey THEN "complete" ELSE "disable"
    [] action = "create" -> IF key = NoKey THEN "create" ELSE "get"

\* The call _execute begins with; a disable without a key has none to make.
FirstCall(action, key) ==
  CASE action = "disable" -> IF key = NoKey THEN "complete" ELSE "disable"
    [] action = "create" -> IF key = NoKey THEN "find" ELSE "get"

load_binding(w) ==
  LET key == binding[Caller(w)].key
  IN  /\ worker[w].at = "load_binding"
      /\ worker' = [worker EXCEPT ![w].key = key, ![w].at = FirstCall(Of(w)[2], key)]
      /\ UNCHANGED <<client, binding, item, earlier, keys, late, faults, crashes>>

\* A call raises BifrostUpstreamError, retryable or not.
CallFails(w) ==
  /\ faults < MaxFaults
  /\ faults' = faults + 1
  /\ \E step \in {"fail_retry", "fail_final"} : Goto(w, step)

disable_virtual_key(w) ==
  LET off == [keys EXCEPT ![Caller(w)][worker[w].key] = FALSE]
  IN  /\ worker[w].at = "disable"
      /\ \/ keys' = off /\ Goto(w, "complete") /\ UNCHANGED faults
         \/ CallFails(w) /\ keys' \in {keys, off}
      /\ UNCHANGED <<client, binding, item, earlier, late, crashes>>

\* _verify_desired: a key that is off is a protocol error, which is retried.
Verified(c, key) == IF keys[c][key] THEN "complete" ELSE "fail_retry"

get_virtual_key_material(w) ==
  /\ worker[w].at = "get"
  /\ \/ Goto(w, Verified(Caller(w), worker[w].key)) /\ UNCHANGED faults
     \/ CallFails(w)
  /\ UNCHANGED <<client, binding, item, earlier, keys, late, crashes>>

find_virtual_key_by_name(w) ==
  LET c == Caller(w)
  IN  /\ worker[w].at = "find"
      /\ \/ keys[c] = <<>> /\ Goto(w, "create") /\ UNCHANGED faults
         \/ /\ Len(keys[c]) = 1
            /\ worker' = [worker EXCEPT ![w].key = 1, ![w].at = Verified(c, 1)]
            /\ UNCHANGED faults
         \/ Len(keys[c]) > 1 /\ Goto(w, "fail_retry") /\ UNCHANGED faults
         \/ CallFails(w)
      /\ UNCHANGED <<client, binding, item, earlier, keys, late, crashes>>

create_virtual_key(w) ==
  LET c == Caller(w)
      made == [keys EXCEPT ![c] = Append(keys[c], TRUE)]
  IN  /\ worker[w].at = "create"
      /\ \/ /\ keys' = made
            /\ worker' = [worker EXCEPT ![w].key = Len(keys[c]) + 1, ![w].at = "complete"]
            /\ UNCHANGED faults
         \/ CallFails(w) /\ keys' \in {keys, made}
      /\ UNCHANGED <<client, binding, item, earlier, late, crashes>>

-----------------------------------------------------------------------------
(* _complete and _fail *)

\* The columns of the binding that _complete sets, from the row it read.  A
\* result made from a creation is stored by persist_created_binding.
Completed(row, action, version, key) ==
  LET bound == IF action = "create" THEN [row EXCEPT !.key = key] ELSE row
      status == CASE action = "create" -> "active"
                  [] action = "disable" -> IF bound.key = NoKey THEN "pending" ELSE "disabled"
  IN  [bound EXCEPT !.sync_status = IF row.version = version THEN status ELSE "pending"]

\* Mutant: a failure that will be retried no more is not reported.
Mutant_RetryableOnly(row, version, at) ==
  IF row.version = version /\ at = "fail_retry"
    THEN [row EXCEPT !.sync_status = "error"] ELSE row

\* The binding as _fail leaves it.
Failed(row, version, at) ==
  IF row.version = version THEN [row EXCEPT !.sync_status = "error"] ELSE row

\* The columns of the item that the transaction sets; the others stay as they are
\* when it commits.
ItemAfter(row, at) ==
  CASE at = "complete" -> [row EXCEPT !.status = "completed", !.expired = FALSE]
    [] at = "fail_retry" -> [row EXCEPT !.status = "failed", !.expired = FALSE, !.ready = FALSE]
    [] at = "fail_final" -> [row EXCEPT !.status = "failed", !.expired = FALSE, !.ready = TRUE,
                                        !.attempts = MaxAttempts]

Ended(w) == worker' = [worker EXCEPT ![w] = Idle(worker[w].batch)]

Reading == [complete |-> "completing", fail_retry |-> "failing_retry",
            fail_final |-> "failing_final"]

\* The transaction reads the item; one that somebody else has ended is left alone.
read_item(w) ==
  /\ worker[w].at \in DOMAIN Reading
  /\ \/ item[Of(w)].status = "processing" /\ Goto(w, Reading[worker[w].at])
     \/ item[Of(w)].status # "processing" /\ Ended(w)
  /\ UNCHANGED <<client, binding, item, earlier, keys, late, faults, crashes>>

\* It reads the binding, and with that the columns it will write are known.
read_binding(w, how) ==
  LET i == Of(w)
      row == binding[Caller(w)]
      after == IF how = "complete" THEN Completed(row, i[2], item[i].version, worker[w].key)
                                   ELSE Failed(row, item[i].version, how)
  IN  /\ worker[w].at = Reading[how]
      /\ worker' = [worker EXCEPT ![w].at = "commit",
                      ![w].write = [how |-> how,
                                    key |-> [old |-> row.key, new |-> after.key],
                                    sync_status |-> [old |-> row.sync_status,
                                                     new |-> after.sync_status]]]
      /\ UNCHANGED <<client, binding, item, earlier, keys, late, faults, crashes>>

\* A column is written if the transaction changed it.
Written(now, column) == IF column.old = column.new THEN now ELSE column.new

commit(w) ==
  LET write == worker[w].write
      c == Caller(w)
  IN  /\ worker[w].at = "commit"
      /\ item' = [item EXCEPT ![Of(w)] = ItemAfter(@, write.how)]
      /\ binding' = [binding EXCEPT
           ![c].key = Written(@, write.key),
           ![c].sync_status = Written(@, write.sync_status)]
      /\ Ended(w)
      /\ UNCHANGED <<client, earlier, keys, late, faults, crashes>>

-----------------------------------------------------------------------------
(* Crashes and time *)

Holds(w, i) == i \in Range(worker[w].batch) \/ Of(w) = i

Crash(w) ==
  /\ crashes < MaxCrashes
  /\ worker[w] # Idle(<<>>)
  /\ crashes' = crashes + 1
  /\ worker' = [worker EXCEPT ![w] = Idle(<<>>)]
  /\ UNCHANGED <<client, binding, item, earlier, keys, late, faults>>

\* The backoff of a failed item is over.
Backoff(i) ==
  /\ item[i].status = "failed"
  /\ ~item[i].ready
  /\ item' = [item EXCEPT ![i].ready = TRUE]
  /\ Placed(i)
  /\ UNCHANGED <<client, binding, keys, worker, late, faults, crashes>>

\* claim_timeout_seconds have passed: the worker is gone, or it is slow.
Expire(i) ==
  /\ item[i].status = "processing"
  /\ ~item[i].expired
  /\ item' = [item EXCEPT ![i].expired = TRUE]
  /\ IF \E w \in Workers : Holds(w, i)
       THEN late < MaxLate /\ late' = late + 1
       ELSE UNCHANGED late
  /\ UNCHANGED <<client, binding, earlier, keys, worker, faults, crashes>>

-----------------------------------------------------------------------------

Init ==
  /\ client = [c \in Callers |-> "absent"]
  /\ binding = [c \in Callers |-> [version |-> 0, key |-> NoKey, sync_status |-> "pending"]]
  /\ item = [i \in Items |-> NotStaged]
  /\ earlier = {}
  /\ keys = [c \in Callers |-> <<>>]
  /\ worker = [w \in Workers |-> Idle(<<>>)]
  /\ late = 0
  /\ faults = 0
  /\ crashes = 0

run_once(w) ==
  \/ _claim(w) \/ _load(w) \/ load_binding(w)
  \/ disable_virtual_key(w) \/ get_virtual_key_material(w)
  \/ find_virtual_key_by_name(w) \/ create_virtual_key(w)
  \/ read_item(w) \/ (\E how \in DOMAIN Reading : read_binding(w, how)) \/ commit(w)

Next ==
  \/ \E c \in Callers : create_caller(c) \/ disable_caller(c)
  \/ \E w \in Workers : run_once(w) \/ Crash(w)
  \/ \E i \in Items : Backoff(i) \/ Expire(i)

Spec == Init /\ [][Next]_vars

\* The deployment runs the workers again and again, every call to Bifrost ends
\* by its timeout, and time passes.
FairSpec ==
  /\ Spec
  /\ \A w \in Workers : WF_vars(run_once(w))
  /\ \A i \in Items : WF_vars(Backoff(i)) /\ WF_vars(Expire(i))

-----------------------------------------------------------------------------
(* Properties *)

\* Type correctness; no item has more attempts than max_attempts.
TypeOK ==
  /\ client \in [Callers -> {"absent", "active", "disabled"}]
  /\ binding \in [Callers -> Binding]
  /\ item \in [Items -> Item]
  /\ earlier \subseteq Items \X Items
  /\ keys \in [Callers -> Seq(BOOLEAN)]
  /\ \A w \in Workers : /\ worker[w].batch \in Seq(Items)
                        /\ worker[w].at \in Steps
                        /\ worker[w].doing \in Items \cup {<<>>}
                        /\ worker[w].key \in Nat
  /\ late \in 0..MaxLate
  /\ faults \in 0..MaxFaults
  /\ crashes \in 0..MaxCrashes

\* As long as no worker has outlasted its claim, no two work on the same item,
\* whoever crashed in between.
ClaimIsExclusive ==
  late = 0 => \A i \in Items, v, w \in Workers : Holds(v, i) /\ Holds(w, i) => v = w

\* A create whose reply was lost or whose worker died is found again by its
\* name: as long as no worker has outlasted its claim, Bifrost never has two
\* keys for one caller.
OneKeyPerCaller == late = 0 => \A c \in Callers : Len(keys[c]) <= 1

\* An item that will be tried no more shows in the binding, unless the
\* administrator has asked for something newer since or a worker has outlasted
\* its claim.
FailureIsVisible ==
  late = 0 => \A i \in Items :
    /\ item[i].status = "failed" /\ item[i].attempts = MaxAttempts
    /\ item[i].version = binding[i[1]].version
    => binding[i[1]].sync_status = "error"

\* What load_caller_policy takes for granted of an active caller with an active
\* binding: its key exists and is on, however late a worker's commit comes.
ActiveBindingIsUsable ==
  \A c \in Callers :
    client[c] = "active" /\ binding[c].sync_status = "active" =>
      /\ binding[c].key \in DOMAIN keys[c]
      /\ keys[c][binding[c].key]

\* A completed disable item has completed the remote disabling: when the create
\* is completed too and nothing is left to be done, no key of the caller is on.
DisableIsRemote ==
  \A c \in Callers :
    (\A action \in Actions : item[<<c, action>>].status = "completed") =>
      TRUE \notin Range(keys[c])

\* Every item comes to an end, unless a worker outlasts its claim: it is
\* completed, or it has failed and will not be tried again.
ItemsEnd ==
  \A i \in Items :
    item[i].status # "none" ~>
      \/ item[i].status = "completed"
      \/ item[i].status = "failed" /\ item[i].attempts = MaxAttempts
      \/ late > 0

=============================================================================
