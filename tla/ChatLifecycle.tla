---------------------------- MODULE ChatLifecycle ----------------------------
(***************************************************************************)
(* One chat request from admission to its terminal event (services/chat.py)*)
(* against the credit authority Open WebUI, and the recovery pass that     *)
(* finishes what a request left pending (workers/recovery.py).             *)
(*                                                                         *)
(* A handler step is one awaited call: an SQL transaction or a request to  *)
(* Open WebUI or Bifrost.  Its effect happens at one instant.  The call    *)
(* may also fail, and then its effect may or may not have happened: the    *)
(* reply was lost, the lease guard cancelled the await while the worker    *)
(* thread went on to commit, or the process died.  Such failures are       *)
(* counted and bounded by MaxFaults.                                       *)
(*                                                                         *)
(* Every request has an operation id of its own (new_uuid), so operations  *)
(* and credits are indexed by request.  Clocks are abstracted to the one   *)
(* comparison recovery makes: an operation is stale or it is not.          *)
(***************************************************************************)
EXTENDS Naturals, FiniteSets

CONSTANTS
  Requests,     \* chat requests, retries included
  RequestId,    \* [Requests -> caller-signed request ids]
  Streams,      \* the requests with stream = true
  Workers,      \* recovery passes that may overlap
  Usages,       \* token counts a provider may report
  Charges,      \* charges Open WebUI may compute
  CancelOutcomes, \* credit records Open WebUI may leave after a cancel
  NotFoundCode, \* error code of an Open WebUI status call for an unknown operation
  SlowAwaits,   \* handler positions that may last longer than stale_after_seconds
  BatchSize,    \* recovery batch_size
  MaxFaults,    \* bound: failed calls, lost leases and crashes in a behaviour
  Unknown       \* decoder.usage is None

Credit ==
  [status : {"none", "pending", "succeeded_charged", "cancelled_charged",
             "failed_no_charge", "settlement_error"},
   usage : Nat, charged : Nat]

Cancelled == {"cancelled_charged", "failed_no_charge"}
Final == {"completed", "rejected", "abandoned"}

ASSUME ChatAssumption ==
  /\ Streams \subseteq Requests
  /\ Usages \subseteq Nat
  /\ Charges \subseteq Nat
  /\ CancelOutcomes \subseteq {c \in Credit : c.status \in Cancelled}
  /\ BatchSize \in Nat \ {0}
  /\ MaxFaults \in Nat
  /\ Unknown \notin Nat

VARIABLES
  handler,    \* per request: the coroutine of execute or _stream_response
  operation,  \* api_call_operation with the charge of its event
  credit,     \* Open WebUI's record of the operation (external)
  worker,     \* per recovery pass: its batch and position
  faults

vars == <<handler, operation, credit, worker, faults>>

-----------------------------------------------------------------------------
(* Terminal evidence.  The http status is a function of the code. *)

Outcome(status, code) == [status |-> status, code |-> code]

Completed          == Outcome("completed", "OK")
CreditRefused      == Outcome("rejected", "CREDIT_BALANCE_EXHAUSTED")
ProviderFailed     == Outcome("rejected", "MODEL_UNAVAILABLE")
Disconnected       == Outcome("abandoned", "CLIENT_DISCONNECTED")
LeaseLost          == Outcome("abandoned", "CONTROL_PLANE_UNAVAILABLE")
Broken             == Outcome("abandoned", "INTERNAL_ERROR")
RecoveredCancelled == Outcome("abandoned", "RECOVERED_CANCELLED")
RecoveredNoCredit  == Outcome("abandoned", "RECOVERED_NO_CREDIT")
Undecided          == Outcome("none", "")

Plans == {Undecided, Completed, CreditRefused, ProviderFailed, Disconnected,
          LeaseLost, Broken}
Outcomes == Plans \cup {RecoveredCancelled, RecoveredNoCredit}

Positions ==
  {"start", "reserve_quota", "reserve_credit", "record_credit", "provider",
   "streaming", "record_usage", "settle", "cancel", "terminalize",
   "done_frame", "release", "done", "dead"}

Handler ==
  [at : Positions, plan : Plans, seen : Usages \cup {Unknown}, charged : Nat,
   called : BOOLEAN, committed : BOOLEAN, sent : {"nothing", "success", "error"}]

Operation ==
  [status : Final \cup {"none", "pending"}, code : {o.code : o \in Outcomes},
   linked : BOOLEAN, recorded : BOOLEAN, usage : Nat, charged : Nat,
   stale : BOOLEAN]

NoOperation ==
  [status |-> "none", code |-> "", linked |-> FALSE, recorded |-> FALSE,
   usage |-> 0, charged |-> 0, stale |-> FALSE]

NoCredit == [status |-> "none", usage |-> 0, charged |-> 0]

Pending(r) == operation[r].status = "pending"
Terminal(r) == operation[r].status \in Final

-----------------------------------------------------------------------------
(* Steps of a handler and its failures *)

At(r, position) == handler[r].at = position

Become(r, h) == handler' = [handler EXCEPT ![r] = h]
Goto(r, position) == Become(r, [handler[r] EXCEPT !.at = position])

Fault == faults < MaxFaults /\ faults' = faults + 1
NoFault == UNCHANGED faults

\* Mutant: the failure path assumes that the usage is known.
Mutant_UsageKnown(h, plan) ==
  [h EXCEPT !.plan = plan, !.committed = FALSE, !.at = "record_usage"]

\* _finish_stream_failure: known usage is settled, unknown usage cancelled.
FinishFailure(h, plan) ==
  [h EXCEPT !.plan = plan, !.committed = FALSE,
            !.at = IF h.seen = Unknown THEN "cancel" ELSE "record_usage"]

\* Mutant: a stream that has all its data ends with [DONE] whatever failed.
Mutant_DoneAnyway(r) ==
  LET h == handler[r]
  IN  IF r \in Streams /\ h.plan = Completed
        THEN [h EXCEPT !.at = "done_frame"]
        ELSE [h EXCEPT !.at = "release"]

\* An exception out of an awaited call.  A stream on its way to [DONE] turns
\* to _try_finish_stream_failure; everything else runs into its finally.
Raise(r) ==
  LET h == handler[r]
  IN  IF r \in Streams /\ h.plan = Completed
        THEN FinishFailure(h, Broken)
        ELSE [h EXCEPT !.at = "release"]

\* Mutant: a failed settlement call is swallowed.
Mutant_Swallowed(r) == {[handler[r] EXCEPT !.at = "terminalize"]}

\* What a failed await may turn a handler into: an exception, or for a stream
\* on its way to [DONE] also a cancellation because the client went away.
Interrupted(r) ==
  {Raise(r)} \cup
  IF r \in Streams /\ handler[r].plan = Completed
    THEN {FinishFailure(handler[r], Disconnected)} ELSE {}

-----------------------------------------------------------------------------
(* Open WebUI (external): what a call may leave behind; {} is a refusal *)

Settled(c, u) ==
  CASE c.status = "pending" ->
         {[status |-> "succeeded_charged", usage |-> u, charged |-> x] : x \in Charges}
         \cup {[status |-> "settlement_error", usage |-> 0, charged |-> 0]}
    [] c.status = "succeeded_charged" /\ c.usage = u -> {c}
    [] OTHER -> {}

Cancels(c) ==
  CASE c.status = "pending" -> CancelOutcomes
    [] c.status \in Cancelled -> {c}
    [] OTHER -> {}

-----------------------------------------------------------------------------
(* SQL transactions: the operation row they commit *)

Reserved == [NoOperation EXCEPT !.status = "pending"]

\* Mutant: a request id is free again once its operation is terminal.
Mutant_PendingOnly(r) ==
  \E x \in Requests : RequestId[x] = RequestId[r] /\ Pending(x)

\* reserve_operation finds an operation of the same caller and request id.
RequestIdTaken(r) ==
  \E x \in Requests : RequestId[x] = RequestId[r] /\ operation[x].status # "none"

WithCredit(op) == [op EXCEPT !.linked = TRUE, !.stale = FALSE]

UsageAccepted(op, u) ==
  op.status = "pending" /\ (op.recorded => op.usage = u)

WithUsage(op, u) ==
  [op EXCEPT !.recorded = TRUE, !.usage = u, !.stale = FALSE]

\* Mutant: only a completed operation is taken to have a charge.
Mutant_NoChargeUnlessCompleted(op, outcome, charged) ==
  [op EXCEPT !.status = outcome.status, !.code = outcome.code,
             !.charged = IF outcome = Completed THEN charged ELSE 0]

WithOutcome(op, outcome, charged) ==
  [op EXCEPT !.status = outcome.status, !.code = outcome.code,
             !.charged = charged]

\* finalize_operation of a terminal operation: the same evidence is accepted.
SameOutcome(op, outcome) ==
  op.status = outcome.status /\ op.code = outcome.code

Commit(r, op) == operation' = [operation EXCEPT ![r] = op]

\* The transaction committed, or it did not.
MayCommit(r, op) == operation' \in {operation, [operation EXCEPT ![r] = op]}

-----------------------------------------------------------------------------
(* Admission *)

\* Nonce, caller policy, QPS, model pool and concurrency lease.
Admit(r) ==
  /\ At(r, "start")
  /\ \/ Goto(r, "reserve_quota")
     \/ Become(r, [handler[r] EXCEPT !.at = "done", !.sent = "error"])
  /\ UNCHANGED <<operation, credit, worker, faults>>

reserve_quota(r) ==
  /\ At(r, "reserve_quota")
  /\ \/ /\ ~RequestIdTaken(r)
        /\ Commit(r, Reserved)
        /\ Goto(r, "reserve_credit")
        /\ NoFault
     \/ /\ Goto(r, "release")  \* QuotaAdmissionError: taken, disabled or over quota
        /\ UNCHANGED operation
        /\ NoFault
     \/ /\ Fault
        /\ ~RequestIdTaken(r)
        /\ Commit(r, Reserved)
        /\ Goto(r, "release")
  /\ UNCHANGED <<credit, worker>>

reserve_credit(r) ==
  LET reserved == [credit EXCEPT ![r].status = "pending"]
  IN  /\ At(r, "reserve_credit")
      /\ \/ credit' = reserved /\ Goto(r, "record_credit") /\ NoFault
         \/ /\ Become(r, [handler[r] EXCEPT !.plan = CreditRefused, !.at = "terminalize"])
            /\ UNCHANGED credit
            /\ NoFault
         \/ Fault /\ credit' \in {credit, reserved} /\ Goto(r, "release")
      /\ UNCHANGED <<operation, worker>>

record_credit(r) ==
  /\ At(r, "record_credit")
  /\ \/ /\ Pending(r)
        /\ Commit(r, WithCredit(operation[r]))
        /\ Goto(r, "provider")
        /\ NoFault
     \/ ~Pending(r) /\ Goto(r, "release") /\ UNCHANGED operation /\ NoFault
     \/ /\ Fault
        /\ Pending(r)
        /\ MayCommit(r, WithCredit(operation[r]))
        /\ Goto(r, "release")
  /\ UNCHANGED <<credit, worker>>

-----------------------------------------------------------------------------
(* The provider *)

forward_chat_completion(r) ==
  LET called == [handler[r] EXCEPT !.called = TRUE]
  IN  /\ At(r, "provider")
      /\ r \notin Streams
      /\ \/ /\ \E u \in Usages :
                 Become(r, [called EXCEPT !.seen = u, !.plan = Completed,
                                          !.at = "record_usage"])
            /\ NoFault
         \/ Become(r, [called EXCEPT !.plan = ProviderFailed, !.at = "cancel"]) /\ NoFault
         \/ Fault /\ Become(r, [called EXCEPT !.at = "release"])
      /\ UNCHANGED <<operation, credit, worker>>

\* prepare_stream returned; the response iterates _stream_response, unless the
\* client left before the first byte: a generator that never ran has no finally.
start_stream(r) ==
  /\ At(r, "provider")
  /\ r \in Streams
  /\ \/ Become(r, [handler[r] EXCEPT !.called = TRUE, !.at = "streaming"]) /\ NoFault
     \/ Fault /\ Goto(r, "dead")
  /\ UNCHANGED <<operation, credit, worker>>

receive_usage(r) ==
  /\ At(r, "streaming")
  /\ handler[r].seen = Unknown
  /\ \E u \in Usages : Become(r, [handler[r] EXCEPT !.seen = u])
  /\ UNCHANGED <<operation, credit, worker, faults>>

\* [DONE], a provider or protocol error, or the client leaving.  A server that
\* keeps cancelling the task after a disconnect also cancels the awaits of the
\* except and finally clauses: then nothing is finished or released.
end_stream(r) ==
  /\ At(r, "streaming")
  /\ \/ /\ handler[r].seen # Unknown
        /\ Become(r, [handler[r] EXCEPT !.plan = Completed, !.at = "record_usage"])
     \/ \E plan \in {ProviderFailed, Disconnected} :
          Become(r, FinishFailure(handler[r], plan))
     \/ Goto(r, "dead")
  /\ UNCHANGED <<operation, credit, worker, faults>>

_heartbeat_stream(r) ==
  /\ At(r, "streaming")
  /\ \/ /\ Pending(r)
        /\ Commit(r, [operation[r] EXCEPT !.stale = FALSE])
        /\ UNCHANGED <<handler, faults>>
     \/ /\ ~Pending(r)
        /\ Become(r, FinishFailure(handler[r], Broken))
        /\ UNCHANGED <<operation, faults>>
     \/ /\ Fault
        /\ Become(r, FinishFailure(handler[r], LeaseLost))
        /\ UNCHANGED operation
  /\ UNCHANGED <<credit, worker>>

-----------------------------------------------------------------------------
(* Settlement and the terminal event *)

record_usage(r) ==
  LET usage == handler[r].seen
  IN  /\ At(r, "record_usage")
      /\ \/ /\ UsageAccepted(operation[r], usage)
            /\ Commit(r, WithUsage(operation[r], usage))
            /\ Goto(r, "settle")
            /\ NoFault
         \/ /\ ~UsageAccepted(operation[r], usage)
            /\ Become(r, Raise(r))
            /\ UNCHANGED operation
            /\ NoFault
         \/ /\ Fault
            /\ UsageAccepted(operation[r], usage)
            /\ MayCommit(r, WithUsage(operation[r], usage))
            /\ \E h \in Interrupted(r) : Become(r, h)
      /\ UNCHANGED <<credit, worker>>

\* The checks of a handler on the replies to settle and cancel: anything else
\* raises CONTROL_PLANE_UNAVAILABLE and leaves the operation to recovery.
SettlementAccepted(c) == c.status = "succeeded_charged"
CancellationAccepted(c) == c.status \in Cancelled /\ c.usage = 0 /\ c.charged = 0

settle(r) ==
  LET replies == Settled(credit[r], handler[r].seen)
  IN  /\ At(r, "settle")
      /\ \/ /\ \E c \in replies :
                 /\ credit' = [credit EXCEPT ![r] = c]
                 /\ Become(r, IF SettlementAccepted(c)
                                THEN [handler[r] EXCEPT !.charged = c.charged,
                                                        !.at = "terminalize"]
                                ELSE Raise(r))
            /\ NoFault
         \/ replies = {} /\ Become(r, Raise(r)) /\ UNCHANGED credit /\ NoFault
         \/ /\ Fault
            /\ \E c \in replies \cup {credit[r]} : credit' = [credit EXCEPT ![r] = c]
            /\ \E h \in Interrupted(r) : Become(r, h)
      /\ UNCHANGED <<operation, worker>>

cancel(r) ==
  LET replies == Cancels(credit[r])
  IN  /\ At(r, "cancel")
      /\ \/ /\ \E c \in replies :
                 /\ credit' = [credit EXCEPT ![r] = c]
                 /\ Become(r, IF CancellationAccepted(c)
                                THEN [handler[r] EXCEPT !.charged = 0, !.at = "terminalize"]
                                ELSE Raise(r))
            /\ NoFault
         \/ replies = {} /\ Become(r, Raise(r)) /\ UNCHANGED credit /\ NoFault
         \/ /\ Fault
            /\ \E c \in replies \cup {credit[r]} : credit' = [credit EXCEPT ![r] = c]
            /\ Become(r, Raise(r))
      /\ UNCHANGED <<operation, worker>>

terminalize(r) ==
  LET plan == handler[r].plan
      ended == WithOutcome(operation[r], plan, handler[r].charged)
      committed == [handler[r] EXCEPT
                      !.committed = TRUE,
                      !.at = IF r \in Streams /\ plan = Completed
                               THEN "done_frame" ELSE "release"]
  IN  /\ At(r, "terminalize")
      /\ \/ Pending(r) /\ Commit(r, ended) /\ Become(r, committed) /\ NoFault
         \/ /\ SameOutcome(operation[r], plan)
            /\ Become(r, committed)
            /\ UNCHANGED operation
            /\ NoFault
         \/ /\ Terminal(r)
            /\ ~SameOutcome(operation[r], plan)
            /\ Become(r, Raise(r))
            /\ UNCHANGED operation
            /\ NoFault
         \/ /\ Fault
            /\ Pending(r)
            /\ MayCommit(r, ended)
            /\ \E h \in Interrupted(r) : Become(r, h)
      /\ UNCHANGED <<credit, worker>>

\* yield SSE_DONE: the client may leave while the frame is handed to it.
done_frame(r) ==
  /\ At(r, "done_frame")
  /\ \/ Become(r, [handler[r] EXCEPT !.sent = "success", !.at = "release"])
     \/ \E sent \in {"nothing", "success"} :
          Become(r, [FinishFailure(handler[r], Disconnected) EXCEPT !.sent = sent])
  /\ UNCHANGED <<operation, credit, worker, faults>>

\* The finally clause; after it a non-stream response goes out.
release(r) ==
  LET h == handler[r]
      delivered == h.sent = "success"
                   \/ (r \notin Streams /\ h.committed /\ h.plan = Completed)
  IN  /\ At(r, "release")
      /\ Become(r, [h EXCEPT !.at = "done",
                             !.sent = IF delivered THEN "success" ELSE "error"])
      /\ UNCHANGED <<operation, credit, worker, faults>>

Crash(r) ==
  /\ Fault
  /\ handler[r].at \notin {"start", "done", "dead"}
  /\ Goto(r, "dead")
  /\ UNCHANGED <<operation, credit, worker>>

\* stale_after_seconds pass without a heartbeat: the handler is gone, or waits
\* where a wait may be that long.
Age(r) ==
  /\ Pending(r)
  /\ ~operation[r].stale
  /\ handler[r].at \in {"done", "dead"} \cup SlowAwaits
  /\ Commit(r, [operation[r] EXCEPT !.stale = TRUE])
  /\ UNCHANGED <<handler, credit, worker, faults>>

-----------------------------------------------------------------------------
(* The recovery pass: ExternalChatRecoveryWorker.run_once *)

\* A candidate is what _load_candidates read of the row, never read again,
\* with the position of _process on it and the last answer of Open WebUI.
Steps == {"waiting", "settle", "cancel", "finalize", "finalize_without_credit"}

Candidate ==
  [linked : BOOLEAN, recorded : BOOLEAN, usage : Nat, step : Steps, reply : Credit]

AsCandidate(r) ==
  [linked |-> operation[r].linked, recorded |-> operation[r].recorded,
   usage |-> operation[r].usage, step |-> "waiting", reply |-> NoCredit]

NoBatch == [r \in {} |-> {}]
\* Mutants: the updated_at cutoff is missing; only linked operations count.
Mutant_NoCutoff == {r \in Requests : Pending(r)}
Mutant_LinkedOnly == {r \in Requests : Pending(r) /\ operation[r].stale /\ operation[r].linked}

Stale == {r \in Requests : Pending(r) /\ operation[r].stale}

InStep(w, r, step) == r \in DOMAIN worker[w] /\ worker[w][r].step = step

GotoStep(w, r, step, reply) ==
  worker' = [worker EXCEPT ![w][r] = [@ EXCEPT !.step = step, !.reply = reply]]

\* continue: the pass turns to its next candidate, or ends.
Skip(w, r) ==
  worker' = [worker EXCEPT ![w] = [x \in DOMAIN @ \ {r} |-> @[x]]]

_load_candidates(w) ==
  /\ worker[w] = NoBatch
  /\ \E S \in SUBSET Stale :
       /\ S # {}
       /\ Cardinality(S) <= BatchSize
       /\ S # Stale => Cardinality(S) = BatchSize
       /\ worker' = [worker EXCEPT ![w] = [r \in S |-> AsCandidate(r)]]
  /\ UNCHANGED <<handler, operation, credit, faults>>

\* get_operation_status and the branch _process takes on its answer.
_process(w, r) ==
  LET candidate == worker[w][r]
      status == credit[r].status
  IN  /\ r \in DOMAIN worker[w]
      /\ \A x \in DOMAIN worker[w] : worker[w][x].step = "waiting"
      /\ \/ /\ status = "none"
            /\ IF /\ NotFoundCode = "OPENWEBUI_CREDIT_NOT_FOUND"
                  /\ ~candidate.linked
                  /\ ~candidate.recorded
                 THEN GotoStep(w, r, "finalize_without_credit", NoCredit)
                 ELSE Skip(w, r)
            /\ NoFault
         \/ /\ status = "pending"
            /\ GotoStep(w, r, IF candidate.recorded THEN "settle" ELSE "cancel", NoCredit)
            /\ NoFault
         \/ status = "settlement_error" /\ Skip(w, r) /\ NoFault
         \/ /\ status \in {"succeeded_charged"} \cup Cancelled
            /\ GotoStep(w, r, "finalize", credit[r])
            /\ NoFault
         \/ Fault /\ Skip(w, r)
      /\ UNCHANGED <<handler, operation, credit>>

settle_candidate(w, r) ==
  LET replies == Settled(credit[r], worker[w][r].usage)
  IN  /\ InStep(w, r, "settle")
      /\ \/ /\ \E c \in replies :
                 /\ credit' = [credit EXCEPT ![r] = c]
                 /\ IF c.status = "succeeded_charged"
                      THEN GotoStep(w, r, "finalize", c) ELSE Skip(w, r)
            /\ NoFault
         \/ replies = {} /\ Skip(w, r) /\ UNCHANGED credit /\ NoFault
         \/ /\ Fault
            /\ \E c \in replies \cup {credit[r]} : credit' = [credit EXCEPT ![r] = c]
            /\ Skip(w, r)
      /\ UNCHANGED <<handler, operation>>

cancel_candidate(w, r) ==
  LET replies == Cancels(credit[r])
  IN  /\ InStep(w, r, "cancel")
      /\ \/ /\ \E c \in replies : /\ credit' = [credit EXCEPT ![r] = c]
                                 /\ GotoStep(w, r, "finalize", c)
            /\ NoFault
         \/ replies = {} /\ Skip(w, r) /\ UNCHANGED credit /\ NoFault
         \/ /\ Fault
            /\ \E c \in replies \cup {credit[r]} : credit' = [credit EXCEPT ![r] = c]
            /\ Skip(w, r)
      /\ UNCHANGED <<handler, operation>>

\* _finalize, one transaction: record Open WebUI's usage unless there is
\* nothing to record, then finalize.  Any conflict rolls both back.
_finalize(w, r) ==
  LET candidate == worker[w][r]
      reply == candidate.reply
      succeeded == reply.status = "succeeded_charged"
      records == succeeded \/ reply.usage > 0 \/ candidate.recorded
      row == IF records THEN WithUsage(operation[r], reply.usage) ELSE operation[r]
      outcome == IF succeeded THEN Completed ELSE RecoveredCancelled
      accepted == /\ Pending(r)
                  /\ records => UsageAccepted(operation[r], reply.usage)
                  /\ ~(reply.status = "failed_no_charge" /\ reply.charged # 0)
  IN  /\ InStep(w, r, "finalize")
      /\ IF accepted THEN Commit(r, WithOutcome(row, outcome, reply.charged))
                     ELSE UNCHANGED operation
      /\ Skip(w, r)
      /\ UNCHANGED <<handler, credit, faults>>

_finalize_without_credit(w, r) ==
  /\ InStep(w, r, "finalize_without_credit")
  /\ IF Pending(r) THEN Commit(r, WithOutcome(operation[r], RecoveredNoCredit, 0))
                   ELSE UNCHANGED operation
  /\ Skip(w, r)
  /\ UNCHANGED <<handler, credit, faults>>

\* The pass dies, or an SQL error ends it.
CrashWorker(w) ==
  /\ Fault
  /\ worker[w] # NoBatch
  /\ worker' = [worker EXCEPT ![w] = NoBatch]
  /\ UNCHANGED <<handler, operation, credit>>

-----------------------------------------------------------------------------

Init ==
  /\ handler = [r \in Requests |->
                  [at |-> "start", plan |-> Undecided, seen |-> Unknown, charged |-> 0,
                   called |-> FALSE, committed |-> FALSE, sent |-> "nothing"]]
  /\ operation = [r \in Requests |-> NoOperation]
  /\ credit = [r \in Requests |-> NoCredit]
  /\ worker = [w \in Workers |-> NoBatch]
  /\ faults = 0

\* Everything an admitted handler does on its own account.
Proceed(r) ==
  \/ reserve_quota(r) \/ reserve_credit(r) \/ record_credit(r)
  \/ forward_chat_completion(r) \/ start_stream(r) \/ end_stream(r)
  \/ record_usage(r) \/ settle(r) \/ cancel(r) \/ terminalize(r)
  \/ done_frame(r) \/ release(r)

Recover(w) ==
  \/ _load_candidates(w)
  \/ \E r \in Requests :
       \/ _process(w, r) \/ settle_candidate(w, r) \/ cancel_candidate(w, r)
       \/ _finalize(w, r) \/ _finalize_without_credit(w, r)

Next ==
  \/ \E r \in Requests :
       \/ Admit(r) \/ Proceed(r) \/ receive_usage(r) \/ _heartbeat_stream(r)
       \/ Crash(r) \/ Age(r)
  \/ \E w \in Workers : Recover(w) \/ CrashWorker(w)

Spec == Init /\ [][Next]_vars

\* The event loop resumes every handler whose await returns, and every await
\* does return: calls have timeouts and a stream has a maximal length.  Time
\* passes, and the deployment runs recovery again and again.
Fairness ==
  /\ \A r \in Requests : WF_vars(Proceed(r)) /\ WF_vars(Age(r))
  /\ \A w \in Workers : WF_vars(Recover(w))

FairSpec == Spec /\ Fairness

-----------------------------------------------------------------------------
(* Properties *)

\* Type correctness of handlers, operations, credits and recovery passes.
TypeOK ==
  /\ handler \in [Requests -> Handler]
  /\ operation \in [Requests -> Operation]
  /\ credit \in [Requests -> Credit]
  /\ DOMAIN worker = Workers
  /\ \A w \in Workers : /\ DOMAIN worker[w] \subseteq Requests
                        /\ worker[w] \in [DOMAIN worker[w] -> Candidate]
  /\ faults \in 0..MaxFaults

\* The terminal event charges what Open WebUI charged, neither more nor less,
\* whoever wrote it: the handler, a retry of its failure path or recovery.
ChargeMatchesCredit ==
  \A r \in Requests : Terminal(r) => operation[r].charged = credit[r].charged

\* An operation is completed only after its credit was settled, for exactly the
\* usage the local row carries.
CompletedIsSettled ==
  \A r \in Requests : operation[r].status = "completed" =>
    /\ credit[r].status = "succeeded_charged"
    /\ operation[r].recorded /\ operation[r].usage = credit[r].usage

\* No credit reservation outlives its operation: recovery looks at pending
\* operations only, so nobody would ever cancel it.
NoOrphanCredit ==
  \A r \in Requests : Terminal(r) => credit[r].status # "pending"

\* The caller gets a 200 body or [DONE] only once settlement and terminal event
\* are committed, and they stay that way.
SuccessAfterCommit ==
  \A r \in Requests : handler[r].sent = "success" =>
    /\ operation[r].status = "completed"
    /\ operation[r].usage = handler[r].seen

\* A request ID reaches the provider at most once, and never without a credit
\* reservation on record, however often it is retried and whatever failed.
ProviderCalledOnce ==
  /\ \A r, x \in Requests :
       RequestId[r] = RequestId[x] /\ handler[r].called /\ handler[x].called => r = x
  /\ \A r \in Requests :
       handler[r].called => operation[r].linked /\ credit[r].status # "none"

\* Every admitted operation becomes terminal, through its handler or through
\* recovery, unless Open WebUI keeps it in settlement_error for an operator.
PendingIsFinished ==
  \A r \in Requests :
    Pending(r) ~> (Terminal(r) \/ credit[r].status = "settlement_error")

=============================================================================
