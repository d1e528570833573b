------------------------- MODULE ChatLifecycleProofs -------------------------
(* Theorems about ChatLifecycle, for every value of its constants.         *)
EXTENDS ChatLifecycle, TLAPS

-----------------------------------------------------------------------------
(* Type correctness *)

\* A handler that records or settles a usage has seen one.
UsageIsKnown ==
  \A r \in Requests : handler[r].at \in {"record_usage", "settle"} => handler[r].seen # Unknown

\* The types, with what record_usage and settle need to write a number.
TypeInv == TypeOK /\ UsageIsKnown

\* The status of each evidence.
LEMMA OutcomeStatus ==
  /\ Undecided.status = "none" /\ Completed.status = "completed"
  /\ CreditRefused.status = "rejected" /\ ProviderFailed.status = "rejected"
  /\ Disconnected.status = "abandoned" /\ LeaseLost.status = "abandoned"
  /\ Broken.status = "abandoned" /\ RecoveredCancelled.status = "abandoned"
  /\ RecoveredNoCredit.status = "abandoned"
BY DEF Outcome, Undecided, Completed, CreditRefused, ProviderFailed,
       Disconnected, LeaseLost, Broken, RecoveredCancelled, RecoveredNoCredit

\* Every evidence a handler or recovery may commit.
LEMMA OutcomeTypes ==
  /\ \A o \in Outcomes : o.status \in Final \cup {"none", "pending"}
                         /\ o.code \in {x.code : x \in Outcomes}
  /\ Plans \subseteq Outcomes
  /\ {RecoveredCancelled, RecoveredNoCredit} \subseteq Outcomes
<1>1. Plans \subseteq Outcomes /\ {RecoveredCancelled, RecoveredNoCredit} \subseteq Outcomes
  BY DEF Outcomes
<1>2. ASSUME NEW o \in Outcomes PROVE o.status \in Final \cup {"none", "pending"}
  BY OutcomeStatus DEF Outcomes, Plans, Final
<1>3. ASSUME NEW o \in Outcomes PROVE o.code \in {x.code : x \in Outcomes}
  OBVIOUS
<1>4. QED
  BY <1>1, <1>2, <1>3

\* The rows a transaction commits are rows.
LEMMA RowTypes ==
  ASSUME NEW op \in Operation, NEW u \in Nat, NEW o \in Outcomes
  PROVE  /\ NoOperation \in Operation /\ Reserved \in Operation
         /\ WithCredit(op) \in Operation
         /\ WithUsage(op, u) \in Operation
         /\ WithOutcome(op, o, u) \in Operation
         /\ \A b \in BOOLEAN : [op EXCEPT !.stale = b] \in Operation
<1>1. "" \in {x.code : x \in Outcomes}
  <2>1. Undecided \in Outcomes /\ Undecided.code = ""
    BY DEF Outcomes, Plans, Undecided, Outcome
  <2>2. QED
    BY <2>1
<1>2. NoOperation \in Operation
  BY <1>1 DEF NoOperation, Operation
<1>3. WithOutcome(op, o, u) \in Operation
  BY OutcomeTypes DEF WithOutcome, Operation
<1>4. QED
  BY <1>2, <1>3 DEF Reserved, WithCredit, WithUsage, Operation

\* Open WebUI answers with credit records.
LEMMA CreditTypes ==
  ASSUME NEW c \in Credit, NEW u \in Nat
  PROVE  /\ NoCredit \in Credit
         /\ [c EXCEPT !.status = "pending"] \in Credit
         /\ Settled(c, u) \subseteq Credit
         /\ Cancels(c) \subseteq Credit
BY ChatAssumption DEF Credit, NoCredit, Settled, Cancels

\* Where an exception may take a handler.
LEMMA RaiseTypes ==
  ASSUME TypeOK, NEW r \in Requests
  PROVE  /\ \A plan \in Plans :
              FinishFailure(handler[r], plan) \in Handler
         /\ Raise(r) \in Handler
         /\ Interrupted(r) \subseteq Handler
<1>1. ASSUME NEW plan \in Plans PROVE FinishFailure(handler[r], plan) \in Handler
  BY <1>1 DEF TypeOK, FinishFailure, Handler, Positions
<1>2. Broken \in Plans /\ Disconnected \in Plans
  BY DEF Plans
<1>3. Raise(r) \in Handler
  BY <1>1, <1>2 DEF Raise, TypeOK, Handler, Positions
<1>4. QED
  BY <1>1, <1>2, <1>3 DEF Interrupted

\* A handler that fails records a usage only if it has seen one.
LEMMA RaiseKnown ==
  ASSUME TypeOK, NEW r \in Requests
  PROVE  \A h \in Interrupted(r) \cup {Raise(r), FinishFailure(handler[r], ProviderFailed),
                                       FinishFailure(handler[r], LeaseLost),
                                       FinishFailure(handler[r], Broken),
                                       FinishFailure(handler[r], Disconnected)} :
           h.at \in {"record_usage", "settle"} => h.seen # Unknown
BY DEF TypeOK, Handler, Interrupted, Raise, FinishFailure

\* A pass that turns to its next candidate keeps the other candidates.
LEMMA SkipEffect ==
  ASSUME TypeOK, NEW w \in Workers, NEW r \in DOMAIN worker[w], Skip(w, r)
  PROVE  /\ DOMAIN worker' = Workers
         /\ \A v \in Workers : v # w => worker'[v] = worker[v]
         /\ worker'[w] = [x \in DOMAIN worker[w] \ {r} |-> worker[w][x]]
BY DEF TypeOK, Skip

\* A pass that takes a step on a candidate changes its step and its answer.
LEMMA GotoStepEffect ==
  ASSUME TypeOK, NEW w \in Workers, NEW r \in DOMAIN worker[w],
         NEW step, NEW reply, GotoStep(w, r, step, reply)
  PROVE  /\ DOMAIN worker' = Workers
         /\ \A v \in Workers : v # w => worker'[v] = worker[v]
         /\ worker'[w] = [worker[w] EXCEPT ![r] =
                            [worker[w][r] EXCEPT !.step = step, !.reply = reply]]
BY DEF TypeOK, GotoStep

\* What TypeOK says of a pass.
PassTypes ==
  /\ DOMAIN worker = Workers
  /\ \A w \in Workers : /\ DOMAIN worker[w] \subseteq Requests
                        /\ worker[w] \in [DOMAIN worker[w] -> Candidate]

\* A pass that skips a candidate or takes a step on it keeps its type.
LEMMA PassStepTypes ==
  ASSUME TypeOK, NEW w \in Workers, NEW r \in DOMAIN worker[w],
         \/ Skip(w, r)
         \/ \E step \in Steps, reply \in Credit : GotoStep(w, r, step, reply)
  PROVE  PassTypes'
<1>1. \A v \in Workers : /\ DOMAIN worker[v] \subseteq Requests
                         /\ worker[v] \in [DOMAIN worker[v] -> Candidate]
  BY DEF TypeOK
<1>2. \A x \in DOMAIN worker[w] : worker[w][x] \in Candidate
  BY <1>1
<1>3. ASSUME NEW D \in SUBSET Requests, NEW f \in [D -> Candidate], worker'[w] = f,
             DOMAIN worker' = Workers, \A v \in Workers : v # w => worker'[v] = worker[v]
      PROVE  PassTypes'
  <2>1. DOMAIN worker'[w] \subseteq Requests /\ worker'[w] \in [DOMAIN worker'[w] -> Candidate]
    BY <1>3
  <2>2. \A v \in Workers : v # w => /\ DOMAIN worker'[v] \subseteq Requests
                                    /\ worker'[v] \in [DOMAIN worker'[v] -> Candidate]
    BY <1>1, <1>3
  <2>3. QED
    BY <1>3, <2>1, <2>2 DEF PassTypes
<1>4. CASE Skip(w, r)
  <2>1. [x \in DOMAIN worker[w] \ {r} |-> worker[w][x]] \in [DOMAIN worker[w] \ {r} -> Candidate]
    BY <1>2
  <2>2. DOMAIN worker[w] \ {r} \in SUBSET Requests
    BY <1>1
  <2>3. QED
    BY <1>3, <1>4, <2>1, <2>2, SkipEffect
<1>5. ASSUME NEW step \in Steps, NEW reply \in Credit, GotoStep(w, r, step, reply)
      PROVE  PassTypes'
  <2> DEFINE candidate == [worker[w][r] EXCEPT !.step = step, !.reply = reply]
  <2>1. candidate \in Candidate
    BY <1>2 DEF Candidate
  <2>2. [worker[w] EXCEPT ![r] = candidate] \in [DOMAIN worker[w] -> Candidate]
    BY <1>1, <2>1
  <2>3. DOMAIN worker[w] \in SUBSET Requests
    BY <1>1
  <2>4. /\ DOMAIN worker' = Workers
        /\ \A v \in Workers : v # w => worker'[v] = worker[v]
        /\ worker'[w] = [worker[w] EXCEPT ![r] = candidate]
    BY <1>5 DEF TypeOK, GotoStep
  <2>5. QED
    BY <1>3, <2>2, <2>3, <2>4
<1>6. QED
  BY <1>4, <1>5

\* The plans a handler may have.
LEMMA PlanTypes ==
  {Undecided, Completed, CreditRefused, ProviderFailed, Disconnected, LeaseLost, Broken} = Plans
BY DEF Plans

\* What a handler may become.
Known(h) == h \in Handler /\ (h.at \in {"record_usage", "settle"} => h.seen # Unknown)

\* A handler that becomes another one leaves the other handlers alone.
LEMMA BecomeTypes ==
  ASSUME TypeInv, NEW r \in Requests, NEW h, Known(h), Become(r, h)
  PROVE  handler' \in [Requests -> Handler] /\ UsageIsKnown'
BY DEF TypeInv, TypeOK, UsageIsKnown, Become, Known

\* A handler that only moves on keeps what it knows.
LEMMA GotoTypes ==
  ASSUME TypeInv, NEW r \in Requests, NEW position \in Positions \ {"record_usage", "settle"},
         Goto(r, position)
  PROVE  handler' \in [Requests -> Handler] /\ UsageIsKnown'
<1>1. Known([handler[r] EXCEPT !.at = position])
  BY DEF TypeInv, TypeOK, Known, Handler
<1>2. QED
  BY <1>1, BecomeTypes DEF Goto

\* Every step of a handler keeps the type of the handlers.
LEMMA HandlerStepTypes ==
  ASSUME TypeInv, NEW r \in Requests,
         Admit(r) \/ Proceed(r) \/ receive_usage(r) \/ _heartbeat_stream(r) \/ Crash(r) \/ Age(r)
  PROVE  handler' \in [Requests -> Handler] /\ UsageIsKnown'
<1>0. /\ handler[r] \in Handler /\ handler \in [Requests -> Handler]
      /\ handler[r].at \in {"record_usage", "settle"} => handler[r].seen # Unknown
  BY DEF TypeInv, TypeOK, UsageIsKnown
<1>a. Known(Raise(r)) /\ \A h \in Interrupted(r) : Known(h)
  BY RaiseTypes, RaiseKnown DEF Known, TypeInv
<1>b. \A plan \in {ProviderFailed, Disconnected, LeaseLost, Broken} :
        Known(FinishFailure(handler[r], plan))
  BY RaiseTypes, RaiseKnown, PlanTypes DEF Known, TypeInv
<1> USE GotoTypes, BecomeTypes DEF Positions
<1>1. CASE Admit(r)
  <2>1. Known([handler[r] EXCEPT !.at = "done", !.sent = "error"])
    BY <1>0 DEF Known, Handler
  <2>2. QED
    BY <1>1, <2>1 DEF Admit
<1>2. CASE reserve_quota(r)
  BY <1>2 DEF reserve_quota
<1>3. CASE reserve_credit(r)
  <2>1. Known([handler[r] EXCEPT !.plan = CreditRefused, !.at = "terminalize"])
    BY <1>0, PlanTypes DEF Known, Handler
  <2>2. QED
    BY <1>3, <2>1 DEF reserve_credit
<1>4. CASE record_credit(r)
  BY <1>4 DEF record_credit
<1>5. CASE forward_chat_completion(r)
  <2> DEFINE called == [handler[r] EXCEPT !.called = TRUE]
  <2>1. \A u \in Usages :
          Known([called EXCEPT !.seen = u, !.plan = Completed, !.at = "record_usage"])
    BY <1>0, PlanTypes, ChatAssumption DEF Known, Handler
  <2>2. /\ Known([called EXCEPT !.plan = ProviderFailed, !.at = "cancel"])
        /\ Known([called EXCEPT !.at = "release"])
    BY <1>0, PlanTypes DEF Known, Handler
  <2>3. QED
    BY <1>5, <2>1, <2>2 DEF forward_chat_completion
<1>6. CASE start_stream(r)
  <2>1. Known([handler[r] EXCEPT !.called = TRUE, !.at = "streaming"])
    BY <1>0 DEF Known, Handler
  <2>2. QED
    BY <1>6, <2>1 DEF start_stream
<1>7. CASE receive_usage(r)
  <2>1. \A u \in Usages : Known([handler[r] EXCEPT !.seen = u])
    BY <1>0, ChatAssumption DEF Known, Handler
  <2>2. QED
    BY <1>7, <2>1 DEF receive_usage
<1>8. CASE end_stream(r)
  <2>1. handler[r].seen # Unknown =>
          Known([handler[r] EXCEPT !.plan = Completed, !.at = "record_usage"])
    BY <1>0, PlanTypes DEF Known, Handler
  <2>2. QED
    BY <1>8, <1>b, <2>1 DEF end_stream
<1>9. CASE _heartbeat_stream(r)
  BY <1>9, <1>b DEF _heartbeat_stream, TypeInv, TypeOK, UsageIsKnown
<1>10. CASE record_usage(r)
  <2>1. At(r, "record_usage") => Known([handler[r] EXCEPT !.at = "settle"])
    BY <1>0 DEF Known, Handler, At
  <2>2. QED
    BY <1>10, <1>a, <2>1 DEF record_usage, Goto
<1>11. CASE settle(r)
  <2>1. handler[r].seen \in Nat /\ credit[r] \in Credit
    BY <1>0, <1>11, ChatAssumption DEF settle, At, Handler, TypeInv, TypeOK
  <2>2. \A c \in Settled(credit[r], handler[r].seen) : c.charged \in Nat
    <3>1. Settled(credit[r], handler[r].seen) \subseteq Credit
      BY <2>1, CreditTypes
    <3>2. \A c \in Credit : c.charged \in Nat
      BY DEF Credit
    <3>3. QED
      BY <3>1, <3>2
  <2>3. \A n \in Nat : Known([handler[r] EXCEPT !.charged = n, !.at = "terminalize"])
    BY <1>0 DEF Known, Handler
  <2>4. QED
    BY <1>11, <1>a, <2>2, <2>3 DEF settle
<1>12. CASE cancel(r)
  <2>1. Known([handler[r] EXCEPT !.charged = 0, !.at = "terminalize"])
    BY <1>0 DEF Known, Handler
  <2>2. QED
    BY <1>12, <1>a, <2>1 DEF cancel
<1>13. CASE terminalize(r)
  <2>1. \A position \in {"done_frame", "release"} :
          Known([handler[r] EXCEPT !.committed = TRUE, !.at = position])
    BY <1>0 DEF Known, Handler
  <2>2. QED
    BY <1>13, <1>a, <2>1 DEF terminalize
<1>14. CASE done_frame(r)
  <2>1. \A sent \in {"nothing", "success"} :
          /\ Known([handler[r] EXCEPT !.sent = sent, !.at = "release"])
          /\ Known([FinishFailure(handler[r], Disconnected) EXCEPT !.sent = sent])
    BY <1>0, <1>b DEF Known, Handler
  <2>2. QED
    BY <1>14, <2>1 DEF done_frame
<1>15. CASE release(r)
  <2>1. \A sent \in {"error", "success"} : Known([handler[r] EXCEPT !.at = "done", !.sent = sent])
    BY <1>0 DEF Known, Handler
  <2>2. QED
    BY <1>15, <2>1 DEF release
<1>16. CASE Crash(r)
  BY <1>16 DEF Crash
<1>17. CASE Age(r)
  BY <1>17 DEF Age, TypeInv, TypeOK, UsageIsKnown
<1>18. QED
  BY <1>1, <1>2, <1>3, <1>4, <1>5, <1>6, <1>7, <1>8, <1>9, <1>10, <1>11, <1>12, <1>13,
     <1>14, <1>15, <1>16, <1>17 DEF Proceed

\* Every step of a handler keeps the types of rows and credits.
LEMMA RowStepTypes ==
  ASSUME TypeInv, NEW r \in Requests,
         Admit(r) \/ Proceed(r) \/ receive_usage(r) \/ _heartbeat_stream(r) \/ Crash(r) \/ Age(r)
  PROVE  operation' \in [Requests -> Operation] /\ credit' \in [Requests -> Credit]
<1>0. /\ operation[r] \in Operation /\ credit[r] \in Credit
      /\ operation \in [Requests -> Operation] /\ credit \in [Requests -> Credit]
      /\ handler[r].plan \in Outcomes /\ handler[r].charged \in Nat
      /\ handler[r].at \in {"record_usage", "settle"} => handler[r].seen \in Nat
  BY ChatAssumption, OutcomeTypes DEF TypeInv, TypeOK, UsageIsKnown, Handler
<1>a. ASSUME NEW op \in Operation, Commit(r, op) \/ MayCommit(r, op)
      PROVE  operation' \in [Requests -> Operation]
  BY <1>0, <1>a DEF Commit, MayCommit
<1>b. ASSUME NEW c \in Credit, credit' = [credit EXCEPT ![r] = c]
      PROVE  credit' \in [Requests -> Credit]
  BY <1>0, <1>b
<1>1. CASE reserve_quota(r)
  BY <1>0, <1>1, <1>a, RowTypes DEF reserve_quota
<1>2. CASE reserve_credit(r)
  <2>1. [credit[r] EXCEPT !.status = "pending"] \in Credit
    BY <1>0, CreditTypes
  <2>2. QED
    BY <1>0, <1>2, <2>1 DEF reserve_credit
<1>3. CASE record_credit(r)
  BY <1>0, <1>3, <1>a, RowTypes DEF record_credit
<1>4. CASE _heartbeat_stream(r) \/ Age(r)
  BY <1>0, <1>4, <1>a, RowTypes DEF _heartbeat_stream, Age
<1>5. CASE record_usage(r)
  <2>1. WithUsage(operation[r], handler[r].seen) \in Operation
    BY <1>0, <1>5, RowTypes DEF record_usage, At
  <2>2. QED
    BY <1>0, <1>5, <1>a, <2>1 DEF record_usage
<1>6. CASE settle(r)
  <2>1. Settled(credit[r], handler[r].seen) \cup {credit[r]} \subseteq Credit
    BY <1>0, <1>6, CreditTypes DEF settle, At
  <2>2. QED
    BY <1>0, <1>6, <1>b, <2>1 DEF settle
<1>7. CASE cancel(r)
  <2>1. Cancels(credit[r]) \cup {credit[r]} \subseteq Credit
    BY <1>0, CreditTypes
  <2>2. QED
    BY <1>0, <1>7, <1>b, <2>1 DEF cancel
<1>8. CASE terminalize(r)
  <2>1. WithOutcome(operation[r], handler[r].plan, handler[r].charged) \in Operation
    BY <1>0, RowTypes
  <2>2. QED
    BY <1>0, <1>8, <1>a, <2>1 DEF terminalize
<1>9. CASE \/ Admit(r) \/ forward_chat_completion(r) \/ start_stream(r) \/ receive_usage(r)
           \/ end_stream(r) \/ done_frame(r) \/ release(r) \/ Crash(r)
  BY <1>0, <1>9 DEF Admit, forward_chat_completion, start_stream, receive_usage, end_stream,
                    done_frame, release, Crash
<1>10. QED
  BY <1>1, <1>2, <1>3, <1>4, <1>5, <1>6, <1>7, <1>8, <1>9 DEF Proceed

\* A handler touches no recovery pass, and the faults stay within their bound.
LEMMA HandlerLeavesPasses ==
  ASSUME NEW r \in Requests,
         Admit(r) \/ Proceed(r) \/ receive_usage(r) \/ _heartbeat_stream(r) \/ Crash(r) \/ Age(r)
  PROVE  UNCHANGED worker /\ (faults' = faults \/ Fault)
BY DEF Admit, Proceed, reserve_quota, reserve_credit, record_credit, forward_chat_completion,
       start_stream, end_stream, record_usage, settle, cancel, terminalize, done_frame, release,
       receive_usage, _heartbeat_stream, Crash, Age, NoFault

\* A recovery pass touches no handler.
LEMMA RecoveryLeavesHandlers ==
  ASSUME NEW w \in Workers, Recover(w) \/ CrashWorker(w)
  PROVE  UNCHANGED handler /\ (faults' = faults \/ Fault)
BY DEF Recover, _load_candidates, _process, settle_candidate, cancel_candidate, _finalize,
       _finalize_without_credit, CrashWorker, NoFault

\* What a pass replaces its batch with is a batch.
LEMMA BatchTypes ==
  ASSUME TypeOK, NEW w \in Workers, NEW D \in SUBSET Requests, NEW f \in [D -> Candidate],
         worker' = [worker EXCEPT ![w] = f]
  PROVE  PassTypes'
<1>1. DOMAIN worker' = Workers /\ worker'[w] = f /\ \A v \in Workers : v # w => worker'[v] = worker[v]
  BY DEF TypeOK
<1>2. DOMAIN worker'[w] \subseteq Requests /\ worker'[w] \in [DOMAIN worker'[w] -> Candidate]
  BY <1>1
<1>3. \A v \in Workers : v # w => /\ DOMAIN worker'[v] \subseteq Requests
                                  /\ worker'[v] \in [DOMAIN worker'[v] -> Candidate]
  BY <1>1 DEF TypeOK
<1>4. QED
  BY <1>1, <1>2, <1>3 DEF PassTypes

\* Every step of a recovery pass keeps the types.
LEMMA RecoveryStepTypes ==
  ASSUME TypeOK, NEW w \in Workers, Recover(w) \/ CrashWorker(w)
  PROVE  /\ PassTypes'
         /\ operation' \in [Requests -> Operation] /\ credit' \in [Requests -> Credit]
<1>0. /\ operation \in [Requests -> Operation] /\ credit \in [Requests -> Credit]
      /\ \A r \in DOMAIN worker[w] :
           /\ r \in Requests /\ worker[w][r] \in Candidate
           /\ worker[w][r].usage \in Nat /\ worker[w][r].reply \in Credit
           /\ worker[w][r].reply.usage \in Nat /\ worker[w][r].reply.charged \in Nat
           /\ operation[r] \in Operation /\ credit[r] \in Credit
  <2>1. \A c \in Candidate : c.usage \in Nat /\ c.reply \in Credit
    BY DEF Candidate
  <2>2. \A c \in Credit : c.usage \in Nat /\ c.charged \in Nat
    BY DEF Credit
  <2>3. \A r \in DOMAIN worker[w] : r \in Requests /\ worker[w][r] \in Candidate
    BY DEF TypeOK
  <2>4. QED
    BY <2>1, <2>2, <2>3 DEF TypeOK
<1>a. ASSUME NEW r \in DOMAIN worker[w], NEW op \in Operation, Commit(r, op)
      PROVE  operation' \in [Requests -> Operation]
  BY <1>0, <1>a DEF Commit
<1>b. ASSUME NEW r \in DOMAIN worker[w], NEW c \in Credit, credit' = [credit EXCEPT ![r] = c]
      PROVE  credit' \in [Requests -> Credit]
  BY <1>0, <1>b
<1>c. NoCredit \in Credit
  BY DEF Credit, NoCredit
<1>1. CASE _load_candidates(w)
  <2>1. PICK S \in SUBSET Stale : worker' = [worker EXCEPT ![w] = [r \in S |-> AsCandidate(r)]]
    BY <1>1 DEF _load_candidates
  <2>2. S \in SUBSET Requests
    BY DEF Stale
  <2>3. [r \in S |-> AsCandidate(r)] \in [S -> Candidate]
    <3>1. ASSUME NEW r \in Requests PROVE AsCandidate(r) \in Candidate
      <4>1. operation[r] \in Operation
        BY DEF TypeOK
      <4>2. QED
        BY <4>1, <1>c DEF AsCandidate, Candidate, Operation, Steps
    <3>2. QED
      BY <2>2, <3>1
  <2>4. PassTypes'
    BY <2>1, <2>2, <2>3, BatchTypes
  <2>5. QED
    BY <1>0, <1>1, <2>4 DEF _load_candidates
<1>2. CASE CrashWorker(w)
  <2>1. NoBatch \in [{} -> Candidate] /\ {} \in SUBSET Requests
    BY DEF NoBatch
  <2>2. PassTypes'
    BY <1>2, <2>1, BatchTypes DEF CrashWorker
  <2>3. QED
    BY <1>0, <1>2, <2>2 DEF CrashWorker
<1>3. ASSUME NEW r \in Requests, _process(w, r)
      PROVE  /\ PassTypes'
             /\ operation' \in [Requests -> Operation] /\ credit' \in [Requests -> Credit]
  <2>1. r \in DOMAIN worker[w]
    BY <1>3 DEF _process
  <2>2. \/ Skip(w, r)
        \/ \E step \in Steps, reply \in Credit : GotoStep(w, r, step, reply)
    BY <1>0, <1>3, <1>c, <2>1 DEF _process, Steps
  <2>3. PassTypes'
    BY <2>1, <2>2, PassStepTypes
  <2>4. QED
    BY <1>0, <1>3, <2>3 DEF _process
<1>4. ASSUME NEW r \in Requests, settle_candidate(w, r)
      PROVE  /\ PassTypes'
             /\ operation' \in [Requests -> Operation] /\ credit' \in [Requests -> Credit]
  <2>1. r \in DOMAIN worker[w]
    BY <1>4 DEF settle_candidate, InStep
  <2>2. Settled(credit[r], worker[w][r].usage) \cup {credit[r]} \subseteq Credit
    BY <1>0, <2>1, CreditTypes
  <2>3. \/ Skip(w, r)
        \/ \E step \in Steps, reply \in Credit : GotoStep(w, r, step, reply)
    BY <1>4, <2>2 DEF settle_candidate, Steps
  <2>4. PassTypes'
    BY <2>1, <2>3, PassStepTypes
  <2>5. credit' \in [Requests -> Credit]
    BY <1>0, <1>4, <1>b, <2>1, <2>2 DEF settle_candidate
  <2>6. QED
    BY <1>0, <1>4, <2>4, <2>5 DEF settle_candidate
<1>5. ASSUME NEW r \in Requests, cancel_candidate(w, r)
      PROVE  /\ PassTypes'
             /\ operation' \in [Requests -> Operation] /\ credit' \in [Requests -> Credit]
  <2>1. r \in DOMAIN worker[w]
    BY <1>5 DEF cancel_candidate, InStep
  <2>2. Cancels(credit[r]) \cup {credit[r]} \subseteq Credit
    BY <1>0, <2>1, CreditTypes
  <2>3. \/ Skip(w, r)
        \/ \E step \in Steps, reply \in Credit : GotoStep(w, r, step, reply)
    BY <1>5, <2>2 DEF cancel_candidate, Steps
  <2>4. PassTypes'
    BY <2>1, <2>3, PassStepTypes
  <2>5. credit' \in [Requests -> Credit]
    BY <1>0, <1>5, <1>b, <2>1, <2>2 DEF cancel_candidate
  <2>6. QED
    BY <1>0, <1>5, <2>4, <2>5 DEF cancel_candidate
<1>6. ASSUME NEW r \in Requests, _finalize(w, r) \/ _finalize_without_credit(w, r)
      PROVE  /\ PassTypes'
             /\ operation' \in [Requests -> Operation] /\ credit' \in [Requests -> Credit]
  <2>1. r \in DOMAIN worker[w] /\ Skip(w, r)
    BY <1>6 DEF _finalize, _finalize_without_credit, InStep
  <2>2. PassTypes'
    BY <2>1, PassStepTypes
  <2>3. \A row \in {operation[r], WithUsage(operation[r], worker[w][r].reply.usage)},
           outcome \in {Completed, RecoveredCancelled, RecoveredNoCredit},
           charged \in {0, worker[w][r].reply.charged} :
          WithOutcome(row, outcome, charged) \in Operation
    BY <1>0, <2>1, RowTypes, OutcomeTypes, PlanTypes
  <2>4. operation' \in [Requests -> Operation]
    BY <1>0, <1>6, <1>a, <2>1, <2>3 DEF _finalize, _finalize_without_credit
  <2>5. QED
    BY <1>0, <1>6, <2>2, <2>4 DEF _finalize, _finalize_without_credit
<1>7. QED
  BY <1>1, <1>2, <1>3, <1>4, <1>5, <1>6 DEF Recover

\* The initial state has its types.
LEMMA TypeInit == Init => TypeInv
<1> SUFFICES ASSUME Init PROVE TypeInv
  OBVIOUS
<1>1. handler \in [Requests -> Handler] /\ UsageIsKnown
  BY PlanTypes DEF Init, Handler, Positions, UsageIsKnown
<1>2. operation \in [Requests -> Operation]
  <2>1. NoOperation \in Operation
    BY OutcomeTypes, OutcomeStatus, PlanTypes DEF NoOperation, Operation, Undecided, Outcome
  <2>2. QED
    BY <2>1 DEF Init
<1>3. credit \in [Requests -> Credit]
  BY DEF Init, Credit, NoCredit
<1>4. PassTypes
  BY DEF Init, PassTypes, NoBatch
<1>5. faults \in 0..MaxFaults
  BY ChatAssumption DEF Init
<1>6. QED
  BY <1>1, <1>2, <1>3, <1>4, <1>5 DEF TypeInv, TypeOK, PassTypes

\* Every step keeps the types.
LEMMA TypeStep == TypeInv /\ [Next]_vars => TypeInv'
<1> SUFFICES ASSUME TypeInv, [Next]_vars PROVE TypeInv'
  OBVIOUS
<1>1. ASSUME faults' = faults \/ Fault PROVE faults' \in 0..MaxFaults
  BY <1>1, ChatAssumption DEF TypeInv, TypeOK, Fault
<1>2. ASSUME NEW r \in Requests,
             Admit(r) \/ Proceed(r) \/ receive_usage(r) \/ _heartbeat_stream(r) \/ Crash(r) \/ Age(r)
      PROVE  TypeInv'
  <2>1. /\ handler' \in [Requests -> Handler] /\ UsageIsKnown'
        /\ operation' \in [Requests -> Operation] /\ credit' \in [Requests -> Credit]
        /\ UNCHANGED worker /\ faults' \in 0..MaxFaults
    BY <1>1, <1>2, HandlerStepTypes, RowStepTypes, HandlerLeavesPasses
  <2>2. QED
    BY <2>1 DEF TypeInv, TypeOK
<1>3. ASSUME NEW w \in Workers, Recover(w) \/ CrashWorker(w) PROVE TypeInv'
  <2>1. /\ PassTypes' /\ operation' \in [Requests -> Operation] /\ credit' \in [Requests -> Credit]
        /\ UNCHANGED handler /\ faults' \in 0..MaxFaults
    BY <1>1, <1>3, RecoveryStepTypes, RecoveryLeavesHandlers DEF TypeInv
  <2>2. QED
    BY <2>1 DEF TypeInv, TypeOK, PassTypes, UsageIsKnown
<1>4. CASE UNCHANGED vars
  BY <1>4 DEF vars, TypeInv, TypeOK, UsageIsKnown
<1>5. QED
  BY <1>2, <1>3, <1>4 DEF Next

\* Handlers, operations, credits and passes keep their types, and the number of
\* faults its bound, whatever a handler is interrupted by and recovery does.
THEOREM ChatTypeCorrect == Spec => []TypeOK
<1>1. TypeInv => TypeOK
  BY DEF TypeInv
<1>2. QED
  BY <1>1, TypeInit, TypeStep, PTL DEF Spec

-----------------------------------------------------------------------------
(* The inductive invariant: what a handler, the row and the credit of its  *)
(* request, and the candidates of recovery know of each other.             *)

\* Up to the reservation of its credit a handler has nothing to lose.
Early == {"start", "reserve_quota", "reserve_credit"}

\* No operation becomes stale while its credit is being reserved.  Its age counts
\* from before the queue wait, so this asks that the wait (30 s by default) and
\* the timeout of the call to Open WebUI together are shorter than
\* stale_after_seconds (300 s by default); the settings do not enforce it.
Timely == "reserve_credit" \notin SlowAwaits

\* A handler that has asked nobody for anything but reservations.
Fresh(h) ==
  /\ h.plan = Undecided /\ h.seen = Unknown /\ h.charged = 0
  /\ ~h.called /\ ~h.committed /\ h.sent = "nothing"

\* What the position of a handler says of its row and its credit.  At
\* terminalize the credit is final and has the charge about to be committed: the
\* only positions it may have come from are settle, cancel and a refused credit.
HandlerAgrees(r) ==
  LET h == handler[r]
      op == operation[r]
      c == credit[r]
  IN  /\ h.at \in {"start", "reserve_quota"} => Fresh(h) /\ op = NoOperation /\ c = NoCredit
      /\ h.at = "reserve_credit" => Fresh(h) /\ c = NoCredit /\ (Timely => op = Reserved)
      /\ h.at \notin {"start", "reserve_quota", "release", "done", "dead"} => op.status # "none"
      /\ h.at \in {"record_credit", "provider"} => Fresh(h) /\ c.status # "none"
      /\ h.at = "provider" => op.linked
      /\ h.at = "streaming" => r \in Streams /\ h.sent = "nothing"
      /\ h.at \in {"record_usage", "settle"} => h.seen # Unknown
      /\ h.at \in {"record_usage", "settle", "cancel"} => h.plan # Undecided
      /\ h.at = "settle" => op.recorded /\ op.usage = h.seen
      /\ h.at = "cancel" => h.plan # Completed
      /\ h.at = "terminalize" =>
           /\ h.plan # Undecided
           /\ c.charged = h.charged
           /\ \/ h.plan = CreditRefused /\ c.status = "none"
              \/ h.plan # Completed /\ c.status \in Cancelled
              \/ /\ c.status = "succeeded_charged" /\ c.usage = h.seen
                 /\ op.recorded /\ op.usage = h.seen
      /\ h.at = "done_frame" => h.committed /\ h.plan = Completed /\ r \in Streams
      /\ h.committed => h.at \in {"done_frame", "release", "done", "dead"}
      /\ (h.committed /\ h.plan = Completed) \/ h.sent = "success" =>
           op.status = "completed" /\ op.usage = h.seen
      /\ h.called => op.linked

\* What a row says of its credit.  Only Timely keeps recovery away from a row
\* whose credit may still be reserved.
RowAgrees(r) ==
  LET h == handler[r]
      op == operation[r]
      c == credit[r]
  IN  /\ c.status = "none" => c = NoCredit
      /\ op.status = "none" => op = NoOperation
      /\ op.linked => op.status # "none" /\ c.status # "none"
      /\ Timely /\ (op.stale \/ Terminal(r)) => h.at \notin Early
      /\ Timely /\ Terminal(r) => c.status # "pending" /\ op.charged = c.charged
      /\ op.status = "completed" =>
           c.status = "succeeded_charged" /\ op.recorded /\ op.usage = c.usage

\* A candidate was read some time ago; what is still true of it when its pass
\* turns to it: the usage it read, and an answer that can no longer change.
CandidateAgrees(w, r) ==
  LET candidate == worker[w][r]
      op == operation[r]
      c == credit[r]
  IN  /\ op.status # "none"
      /\ Timely => handler[r].at \notin Early
      /\ candidate.recorded => op.recorded /\ op.usage = candidate.usage
      /\ candidate.step = "finalize" =>
           candidate.reply = c /\ c.status \in {"succeeded_charged"} \cup Cancelled
      /\ Timely /\ candidate.step = "finalize_without_credit" => c.status = "none"

\* A request ID has one operation at most: the unique key of reserve_operation.
IdsAreUnique ==
  \A r, x \in Requests :
    /\ RequestId[r] = RequestId[x]
    /\ operation[r].status # "none" /\ operation[x].status # "none"
    => r = x

\* The inductive invariant.
ChatInv ==
  /\ \A r \in Requests : HandlerAgrees(r)
  /\ \A r \in Requests : RowAgrees(r)
  /\ \A w \in Workers : \A r \in DOMAIN worker[w] : CandidateAgrees(w, r)
  /\ IdsAreUnique

\* What a step of anybody may do to a request: no position before the credit is
\* taken again, what a row records stays, a terminal event and a credit that has
\* come to an end are final.
Moves(r) ==
  /\ handler[r].at \notin Early => handler'[r].at \notin Early
  /\ operation[r].status # "none" => operation'[r].status # "none"
  /\ operation[r].linked => operation'[r].linked
  /\ operation[r].recorded => operation'[r].recorded /\ operation'[r].usage = operation[r].usage
  /\ Terminal(r) => operation'[r] = operation[r]
  /\ credit[r].status \notin {"none", "pending"} => credit'[r] = credit[r]
  /\ handler[r].at \notin Early /\ credit[r].status = "none" => credit'[r] = credit[r]
  /\ credit[r].status # "none" => credit'[r].status # "none"

\* The updates of a row, field by field.
LEMMA RowUpdates ==
  ASSUME NEW op \in Operation, NEW u, NEW o, NEW x
  PROVE  /\ WithCredit(op).status = op.status /\ WithCredit(op).linked
         /\ WithCredit(op).recorded = op.recorded /\ WithCredit(op).usage = op.usage
         /\ WithCredit(op).charged = op.charged /\ ~WithCredit(op).stale
         /\ WithUsage(op, u).status = op.status /\ WithUsage(op, u).linked = op.linked
         /\ WithUsage(op, u).recorded /\ WithUsage(op, u).usage = u
         /\ WithUsage(op, u).charged = op.charged /\ ~WithUsage(op, u).stale
         /\ WithOutcome(op, o, x).status = o.status /\ WithOutcome(op, o, x).code = o.code
         /\ WithOutcome(op, o, x).linked = op.linked
         /\ WithOutcome(op, o, x).recorded = op.recorded
         /\ WithOutcome(op, o, x).usage = op.usage /\ WithOutcome(op, o, x).charged = x
         /\ WithOutcome(op, o, x).stale = op.stale
         /\ Reserved.status = "pending" /\ ~Reserved.linked /\ ~Reserved.recorded
         /\ ~Reserved.stale
         /\ NoOperation.status = "none" /\ ~NoOperation.linked /\ ~NoOperation.recorded
         /\ ~NoOperation.stale
BY DEF WithCredit, WithUsage, WithOutcome, Operation, Reserved, NoOperation

\* Open WebUI keeps a credit that has come to an end, and forgets none.
LEMMA CreditMoves ==
  ASSUME NEW c \in Credit, NEW u, NEW d \in Settled(c, u) \cup Cancels(c) \cup {c}
  PROVE  /\ c.status \in {"none"} => d = c
         /\ c.status \notin {"none", "pending"} => d = c
         /\ c.status # "none" => d.status # "none"
         /\ d \in Settled(c, u) =>
              \/ d.status = "succeeded_charged" /\ d.usage = u
              \/ d.status = "settlement_error"
         /\ d \in Cancels(c) => d.status \in Cancelled
BY ChatAssumption DEF Settled, Cancels, Cancelled, Credit

\* The first awaits are behind a handler for good.
Onward(r) == handler[r].at \notin Early => handler'[r].at \notin Early

\* A step that leaves row and credit alone.
LEMMA KeepRow ==
  ASSUME NEW r \in Requests, RowAgrees(r), Onward(r),
         operation'[r] = operation[r], credit'[r] = credit[r]
  PROVE  Moves(r) /\ RowAgrees(r)'
BY DEF RowAgrees, Onward, Moves, Terminal

\* A transaction that links the credit, records a usage or says that the
\* operation is alive, or is not.
LEMMA TouchRow ==
  ASSUME TypeInv, NEW r \in Requests, RowAgrees(r), Onward(r), Pending(r), credit'[r] = credit[r],
         \/ operation'[r] = WithCredit(operation[r]) /\ credit[r].status # "none"
         \/ \E u \in Nat : /\ UsageAccepted(operation[r], u)
                           /\ operation'[r] = WithUsage(operation[r], u)
         \/ operation'[r] = [operation[r] EXCEPT !.stale = FALSE]
         \/ /\ operation'[r] = [operation[r] EXCEPT !.stale = TRUE]
            /\ Timely => handler'[r].at \notin Early
  PROVE  Moves(r) /\ RowAgrees(r)'
<1>1. operation[r] \in Operation /\ operation[r].status = "pending" /\ ~Terminal(r)
  BY DEF TypeInv, TypeOK, Pending, Terminal, Final
<1>2. /\ operation'[r].status = "pending"
      /\ operation[r].linked => operation'[r].linked
      /\ operation[r].recorded => operation'[r].recorded /\ operation'[r].usage = operation[r].usage
      /\ operation'[r].linked => operation[r].linked \/ credit[r].status # "none"
      /\ Timely /\ operation'[r].stale => operation[r].stale \/ handler'[r].at \notin Early
  BY <1>1 DEF WithCredit, WithUsage, UsageAccepted, Operation
<1>3. QED
  BY <1>1, <1>2 DEF RowAgrees, Onward, Moves, Terminal, Final

\* Open WebUI answers a call to settle or to cancel.
LEMMA CreditAnswers ==
  ASSUME TypeInv, NEW r \in Requests, RowAgrees(r), Onward(r), operation'[r] = operation[r],
         NEW u, credit'[r] \in Settled(credit[r], u) \cup Cancels(credit[r]) \cup {credit[r]}
  PROVE  Moves(r) /\ RowAgrees(r)'
<1>1. credit[r] \in Credit
  BY DEF TypeInv, TypeOK
<1>2. /\ credit[r].status = "none" => credit'[r] = credit[r]
      /\ credit[r].status \notin {"none", "pending"} => credit'[r] = credit[r]
      /\ credit[r].status # "none" => credit'[r].status # "none"
  BY <1>1, CreditMoves
<1>3. QED
  BY <1>2 DEF RowAgrees, Onward, Moves, Terminal

\* A transaction that ends the operation with the charge of a credit that has
\* come to an end itself, or has never been.
LEMMA EndRow ==
  ASSUME TypeInv, NEW r \in Requests, RowAgrees(r), Onward(r), Pending(r),
         credit'[r] = credit[r], NEW charged,
         Timely => /\ handler[r].at \notin Early
                   /\ credit[r].status # "pending" /\ charged = credit[r].charged,
         NEW row \in Operation, row.status = "pending", row.linked = operation[r].linked,
         operation[r].recorded => row.recorded /\ row.usage = operation[r].usage,
         NEW outcome \in Outcomes, outcome.status \in Final,
         outcome.status = "completed" =>
           credit[r].status = "succeeded_charged" /\ row.recorded /\ row.usage = credit[r].usage,
         operation'[r] = WithOutcome(row, outcome, charged)
  PROVE  Moves(r) /\ RowAgrees(r)'
<1>1. /\ operation'[r].status = outcome.status /\ operation'[r].linked = operation[r].linked
      /\ operation'[r].recorded = row.recorded /\ operation'[r].usage = row.usage
      /\ operation'[r].charged = charged
  BY DEF WithOutcome, Operation
<1>2. operation[r].status = "pending" /\ ~Terminal(r) /\ outcome.status # "none"
  BY DEF Pending, Terminal, Final
<1>3. QED
  BY <1>1, <1>2 DEF RowAgrees, Onward, Moves, Terminal, Final

\* The evidence of a failure is neither undecided nor that of a success.
Failures == {CreditRefused, ProviderFailed, Disconnected, LeaseLost, Broken}

\* No failure passes for a success.
LEMMA FailurePlans ==
  /\ \A plan \in Failures : plan # Completed /\ plan # Undecided
  /\ Completed # Undecided
BY OutcomeStatus DEF Failures

\* Two handlers that differ in their position only.
SameBut(g, h) ==
  /\ g.plan = h.plan /\ g.seen = h.seen /\ g.charged = h.charged /\ g.called = h.called
  /\ g.committed = h.committed /\ g.sent = h.sent

\* What Goto does to the handler it moves.
LEMMA GotoEffect ==
  ASSUME TypeInv, NEW r \in Requests, NEW position, Goto(r, position)
  PROVE  handler'[r].at = position /\ SameBut(handler'[r], handler[r])
BY DEF TypeInv, TypeOK, Handler, Goto, Become, SameBut

\* What Become does to its handler.
LEMMA BecomeEffect ==
  ASSUME TypeInv, NEW r \in Requests, NEW h, Become(r, h)
  PROVE  handler'[r] = h
BY DEF TypeInv, TypeOK, Become

\* A handler gives up, with nothing more to do than to release its leases.
LEMMA Leaves ==
  ASSUME NEW r \in Requests, HandlerAgrees(r), Moves(r),
         handler'[r].at \in {"release", "dead"},
         SameBut([handler'[r] EXCEPT !.called = handler[r].called], handler[r]),
         handler'[r] \in Handler,
         handler'[r].called => operation[r].linked
  PROVE  HandlerAgrees(r)'
<1>1. /\ handler'[r].plan = handler[r].plan /\ handler'[r].seen = handler[r].seen
      /\ handler'[r].committed = handler[r].committed /\ handler'[r].sent = handler[r].sent
  BY DEF SameBut, Handler
<1>2. QED
  BY <1>1 DEF HandlerAgrees, Moves, Terminal, Final

\* A handler turns to _finish_stream_failure.
LEMMA Fails ==
  ASSUME NEW r \in Requests, HandlerAgrees(r), Moves(r), handler[r] \in Handler,
         operation[r].status # "none", NEW plan \in Failures, NEW sent,
         handler'[r] = [FinishFailure(handler[r], plan) EXCEPT !.sent = sent],
         handler[r].sent = "success" \/ sent # "success" \/ At(r, "done_frame")
  PROVE  HandlerAgrees(r)'
<1>1. /\ handler'[r].at = IF handler[r].seen = Unknown THEN "cancel" ELSE "record_usage"
      /\ handler'[r].plan = plan /\ handler'[r].seen = handler[r].seen
      /\ ~handler'[r].committed /\ handler'[r].sent = sent
      /\ handler'[r].called = handler[r].called
  BY DEF FinishFailure, Handler
<1>2. QED
  BY <1>1, FailurePlans DEF HandlerAgrees, Moves, Terminal, Final, At

\* An exception, or a cancellation, out of an await after the provider's answer.
LEMMA Raises ==
  ASSUME TypeInv, NEW r \in Requests, HandlerAgrees(r), Moves(r),
         operation[r].status # "none", NEW h \in Interrupted(r), handler'[r] = h
  PROVE  HandlerAgrees(r)'
<1>1. handler[r] \in Handler /\ handler'[r] \in Handler
  BY RaiseTypes DEF TypeInv, TypeOK
<1>2. \/ handler'[r] = [handler[r] EXCEPT !.at = "release"]
      \/ \E plan \in {Broken, Disconnected} : handler'[r] = FinishFailure(handler[r], plan)
  BY DEF Interrupted, Raise
<1>3. CASE handler'[r] = [handler[r] EXCEPT !.at = "release"]
  <2>1. /\ handler'[r].at = "release" /\ handler'[r].called = handler[r].called
        /\ SameBut([handler'[r] EXCEPT !.called = handler[r].called], handler[r])
    BY <1>1, <1>3 DEF SameBut, Handler
  <2>2. QED
    BY <1>1, <2>1, Leaves DEF HandlerAgrees
<1>4. ASSUME NEW plan \in {Broken, Disconnected}, handler'[r] = FinishFailure(handler[r], plan)
      PROVE  HandlerAgrees(r)'
  <2>1. FinishFailure(handler[r], plan) =
          [FinishFailure(handler[r], plan) EXCEPT !.sent = handler[r].sent]
    BY <1>1 DEF FinishFailure, Handler
  <2>2. QED
    BY <1>1, <1>4, <2>1, Fails DEF Failures
<1>5. QED
  BY <1>2, <1>3, <1>4

\* Admission and the two reservations, up to the provider.
LEMMA AdmissionStep ==
  ASSUME TypeInv, NEW r \in Requests, HandlerAgrees(r), RowAgrees(r),
         Admit(r) \/ reserve_quota(r) \/ reserve_credit(r) \/ record_credit(r)
  PROVE  Moves(r) /\ HandlerAgrees(r)' /\ RowAgrees(r)'
<1>0. /\ handler[r] \in Handler /\ operation[r] \in Operation /\ credit[r] \in Credit
      /\ operation \in [Requests -> Operation] /\ credit \in [Requests -> Credit]
      /\ handler \in [Requests -> Handler]
  BY DEF TypeInv, TypeOK
<1>a. ASSUME Moves(r), Goto(r, "release") PROVE HandlerAgrees(r)'
  <2>1. handler'[r] = [handler[r] EXCEPT !.at = "release"]
    BY <1>a, BecomeEffect DEF Goto
  <2>2. /\ handler'[r].at = "release" /\ handler'[r].called = handler[r].called
        /\ SameBut([handler'[r] EXCEPT !.called = handler[r].called], handler[r])
        /\ handler'[r] \in Handler
    BY <1>0, <2>1 DEF SameBut, Handler, Positions
  <2>3. QED
    BY <1>a, <2>2, Leaves DEF HandlerAgrees
<1>1. CASE Admit(r)
  <2>0. /\ operation[r] = NoOperation /\ credit[r] = NoCredit /\ Fresh(handler[r])
    BY <1>1 DEF Admit, At, HandlerAgrees
  <2>1. operation'[r] = operation[r] /\ credit'[r] = credit[r] /\ handler[r].at = "start"
    BY <1>1 DEF Admit, At
  <2>2. Onward(r)
    BY <2>1 DEF Onward, Early
  <2>3. Moves(r) /\ RowAgrees(r)'
    BY <2>1, <2>2, KeepRow
  <2>4. CASE Goto(r, "reserve_quota")
    <3>1. handler'[r].at = "reserve_quota" /\ Fresh(handler'[r])
      BY <2>0, <2>4, GotoEffect DEF SameBut, Fresh
    <3>2. HandlerAgrees(r)'
      BY <2>0, <2>1, <3>1 DEF HandlerAgrees, Fresh
    <3>3. QED
      BY <2>3, <3>2
  <2>5. CASE Become(r, [handler[r] EXCEPT !.at = "done", !.sent = "error"])
    <3>1. handler'[r] = [handler[r] EXCEPT !.at = "done", !.sent = "error"]
      BY <2>5, BecomeEffect
    <3>2. /\ handler'[r].at = "done" /\ handler'[r].sent = "error" /\ ~handler'[r].committed
          /\ ~handler'[r].called
      BY <1>0, <2>0, <3>1 DEF Handler, Fresh
    <3>3. HandlerAgrees(r)'
      BY <3>2 DEF HandlerAgrees
    <3>4. QED
      BY <2>3, <3>3
  <2>6. QED
    BY <1>1, <2>4, <2>5 DEF Admit
<1>2. CASE reserve_quota(r)
  <2>0. operation[r].status = "none" /\ credit[r] = NoCredit /\ Fresh(handler[r])
        /\ operation[r] = NoOperation /\ handler[r].at \in Early
    <3>1. /\ credit[r] = NoCredit /\ Fresh(handler[r]) /\ operation[r] = NoOperation
          /\ handler[r].at \in Early
      BY <1>2 DEF reserve_quota, At, HandlerAgrees, Early
    <3>2. operation[r].status = "none"
      <4>1. NoOperation.status = "none"
        BY DEF NoOperation
      <4>2. QED
        BY <3>1, <4>1, Zenon
    <3>3. QED
      BY <3>1, <3>2
  <2>1. CASE Goto(r, "release") /\ UNCHANGED operation
    <3>1. operation'[r] = operation[r] /\ credit'[r] = credit[r] /\ handler'[r].at = "release"
      BY <1>2, <2>1, GotoEffect DEF reserve_quota
    <3>2. Onward(r)
      BY <3>1 DEF Onward, Early
    <3>3. Moves(r) /\ RowAgrees(r)'
      BY <3>1, <3>2, KeepRow
    <3>4. QED
      BY <1>a, <2>1, <3>3
  <2>2. CASE Commit(r, Reserved) /\ (Goto(r, "release") \/ Goto(r, "reserve_credit"))
    <3>1. /\ operation'[r] = Reserved /\ credit'[r] = credit[r]
          /\ handler'[r].at \in {"release", "reserve_credit"} /\ SameBut(handler'[r], handler[r])
      BY <1>0, <1>2, <2>2, GotoEffect DEF reserve_quota, Commit
    <3>2. Reserved.status = "pending" /\ ~Reserved.linked /\ ~Reserved.stale
          /\ ~NoOperation.linked /\ ~NoOperation.recorded /\ ~Terminal(r)
      BY <2>0 DEF Reserved, NoOperation, Terminal, Final
    <3>3. Moves(r)
      BY <2>0, <3>1, <3>2 DEF Moves, NoCredit
    <3>4. RowAgrees(r)'
      BY <2>0, <3>1, <3>2 DEF RowAgrees, Terminal, Final
    <3>5. Fresh(handler'[r])
      BY <2>0, <3>1 DEF Fresh, SameBut
    <3>6. HandlerAgrees(r)'
      BY <2>0, <3>1, <3>2, <3>5 DEF HandlerAgrees, Fresh
    <3>7. QED
      BY <3>3, <3>4, <3>6
  <2>3. QED
    BY <1>2, <2>1, <2>2 DEF reserve_quota
<1>3. CASE reserve_credit(r)
  <2>0. /\ credit[r] = NoCredit /\ Fresh(handler[r]) /\ handler[r].at \in Early
        /\ operation[r].status # "none" /\ operation[r].status # "completed"
        /\ Timely => ~Terminal(r) /\ ~operation[r].stale
    <3>1. /\ credit[r] = NoCredit /\ Fresh(handler[r]) /\ handler[r].at \in Early
          /\ operation[r].status # "none"
      BY <1>3 DEF reserve_credit, At, HandlerAgrees, Early
    <3>2. operation[r].status # "completed"
      BY <3>1 DEF RowAgrees, NoCredit
    <3>3. QED
      BY <3>1, <3>2 DEF RowAgrees
  <2>1. CASE credit' = [credit EXCEPT ![r].status = "pending"]
             /\ (Goto(r, "record_credit") \/ Goto(r, "release"))
    <3>1. /\ operation'[r] = operation[r] /\ credit'[r].status = "pending"
          /\ handler'[r].at \in {"release", "record_credit"} /\ SameBut(handler'[r], handler[r])
      BY <1>0, <1>3, <2>1, GotoEffect DEF reserve_credit, Credit
    <3>2. Moves(r)
      BY <2>0, <3>1 DEF Moves, NoCredit
    <3>3. RowAgrees(r)'
      BY <2>0, <3>1 DEF RowAgrees, Terminal, Final
    <3>4. Fresh(handler'[r])
      BY <2>0, <3>1 DEF Fresh, SameBut
    <3>5. HandlerAgrees(r)'
      BY <2>0, <3>1, <3>4 DEF HandlerAgrees, Fresh
    <3>6. QED
      BY <3>2, <3>3, <3>5
  <2>2. CASE credit' = credit /\ Goto(r, "release")
    <3>1. operation'[r] = operation[r] /\ credit'[r] = credit[r] /\ handler'[r].at = "release"
      BY <1>3, <2>2, GotoEffect DEF reserve_credit
    <3>2. Onward(r)
      BY <3>1 DEF Onward, Early
    <3>3. Moves(r) /\ RowAgrees(r)'
      BY <3>1, <3>2, KeepRow
    <3>4. QED
      BY <1>a, <2>2, <3>3
  <2>3. CASE /\ credit' = credit
             /\ Become(r, [handler[r] EXCEPT !.plan = CreditRefused, !.at = "terminalize"])
    <3>1. /\ operation'[r] = operation[r] /\ credit'[r] = credit[r]
          /\ handler'[r] = [handler[r] EXCEPT !.plan = CreditRefused, !.at = "terminalize"]
      BY <1>3, <2>3, BecomeEffect DEF reserve_credit
    <3>2. /\ handler'[r].at = "terminalize" /\ handler'[r].plan = CreditRefused
          /\ handler'[r].charged = 0 /\ ~handler'[r].called /\ ~handler'[r].committed
          /\ handler'[r].sent = "nothing"
      BY <1>0, <2>0, <3>1 DEF Handler, Fresh
    <3>3. Onward(r)
      BY <3>2 DEF Onward, Early
    <3>4. Moves(r) /\ RowAgrees(r)'
      BY <3>1, <3>3, KeepRow
    <3>5. credit'[r].status = "none" /\ credit'[r].charged = 0 /\ operation'[r].status # "none"
      BY <2>0, <3>1 DEF NoCredit
    <3>6. HandlerAgrees(r)'
      BY <3>2, <3>5, FailurePlans DEF HandlerAgrees, Failures
    <3>7. QED
      BY <3>4, <3>6
  <2>4. QED
    BY <1>3, <2>1, <2>2, <2>3 DEF reserve_credit
<1>4. CASE record_credit(r)
  <2>0. Fresh(handler[r]) /\ operation[r].status # "none" /\ credit[r].status # "none"
    BY <1>4 DEF record_credit, At, HandlerAgrees
  <2>1. /\ credit'[r] = credit[r] /\ handler'[r].at \in {"release", "provider"}
        /\ SameBut(handler'[r], handler[r])
    BY <1>4, GotoEffect DEF record_credit
  <2>2. Onward(r)
    BY <2>1 DEF Onward, Early
  <2>3. \/ operation'[r] = operation[r] /\ handler'[r].at = "release"
        \/ Pending(r) /\ operation'[r] = WithCredit(operation[r])
    BY <1>0, <1>4, GotoEffect DEF record_credit, Commit, MayCommit
  <2>4. Moves(r) /\ RowAgrees(r)'
    BY <2>0, <2>1, <2>2, <2>3, KeepRow, TouchRow
  <2>5. handler'[r].at = "provider" => operation'[r].linked
    BY <1>0, <2>3, RowUpdates
  <2>6. Fresh(handler'[r]) /\ operation'[r].status # "none" /\ credit'[r].status # "none"
    BY <2>0, <2>1, <2>4 DEF Fresh, SameBut, Moves
  <2>7. HandlerAgrees(r)'
    BY <2>1, <2>5, <2>6 DEF HandlerAgrees, Fresh
  <2>8. QED
    BY <2>4, <2>7
<1>5. QED
  BY <1>1, <1>2, <1>3, <1>4

\* The provider, plain or as a stream.
LEMMA ProviderStep ==
  ASSUME TypeInv, NEW r \in Requests, HandlerAgrees(r), RowAgrees(r),
         \/ forward_chat_completion(r) \/ start_stream(r) \/ receive_usage(r)
         \/ end_stream(r) \/ _heartbeat_stream(r)
  PROVE  Moves(r) /\ HandlerAgrees(r)' /\ RowAgrees(r)'
<1>0. /\ handler[r] \in Handler /\ operation[r] \in Operation /\ credit[r] \in Credit
      /\ operation \in [Requests -> Operation] /\ credit \in [Requests -> Credit]
      /\ handler \in [Requests -> Handler]
  BY DEF TypeInv, TypeOK
<1>a. ASSUME Moves(r), NEW called \in {handler[r].called, TRUE}, called => operation[r].linked,
             NEW position \in {"release", "dead"},
             handler'[r] = [handler[r] EXCEPT !.called = called, !.at = position]
      PROVE HandlerAgrees(r)'
  <2>1. /\ handler'[r].at = position /\ handler'[r].called = called
        /\ SameBut([handler'[r] EXCEPT !.called = handler[r].called], handler[r])
        /\ handler'[r] \in Handler
    BY <1>0, <1>a DEF SameBut, Handler, Positions
  <2>2. QED
    BY <1>a, <2>1, Leaves
<1>b. ASSUME NEW position, Goto(r, position)
      PROVE  handler'[r] = [handler[r] EXCEPT !.called = handler[r].called, !.at = position]
  <2>1. handler'[r] = [handler[r] EXCEPT !.at = position]
    BY <1>b, BecomeEffect DEF Goto
  <2>2. QED
    BY <1>0, <2>1 DEF Handler
<1>c. ASSUME Moves(r), At(r, "streaming"), NEW plan \in Failures,
             Become(r, FinishFailure(handler[r], plan))
      PROVE  HandlerAgrees(r)'
  <2>1. FinishFailure(handler[r], plan) =
          [FinishFailure(handler[r], plan) EXCEPT !.sent = handler[r].sent]
    BY <1>0 DEF FinishFailure, Handler
  <2>2. operation[r].status # "none"
    BY <1>c DEF At, HandlerAgrees
  <2>3. QED
    BY <1>0, <1>c, <2>1, <2>2, Fails, BecomeEffect
<1>d. ASSUME handler[r].at \in {"provider", "streaming"}, handler'[r].at \notin Early,
             operation' = operation, credit' = credit
      PROVE  Moves(r) /\ RowAgrees(r)'
  BY <1>d, KeepRow DEF Onward
<1>1. CASE forward_chat_completion(r)
  <2>0. /\ handler[r].at = "provider" /\ operation' = operation /\ credit' = credit
        /\ operation[r].linked /\ Fresh(handler[r])
    BY <1>1 DEF forward_chat_completion, At, HandlerAgrees
  <2>1. ASSUME NEW u \in Usages,
               Become(r, [[handler[r] EXCEPT !.called = TRUE] EXCEPT
                            !.seen = u, !.plan = Completed, !.at = "record_usage"])
        PROVE  Moves(r) /\ HandlerAgrees(r)' /\ RowAgrees(r)'
    <3>1. handler'[r] = [[handler[r] EXCEPT !.called = TRUE] EXCEPT
                           !.seen = u, !.plan = Completed, !.at = "record_usage"]
      BY <2>1, BecomeEffect
    <3>2. /\ handler'[r].at = "record_usage" /\ handler'[r].plan = Completed
          /\ handler'[r].seen = u /\ ~handler'[r].committed /\ handler'[r].sent = "nothing"
      BY <1>0, <2>0, <3>1 DEF Handler, Fresh
    <3>3. Moves(r) /\ RowAgrees(r)'
      BY <1>d, <2>0, <3>2 DEF Early
    <3>4. HandlerAgrees(r)'
      BY <2>0, <3>2, FailurePlans, ChatAssumption DEF HandlerAgrees
    <3>5. QED
      BY <3>3, <3>4
  <2>2. CASE Become(r, [[handler[r] EXCEPT !.called = TRUE] EXCEPT
                          !.plan = ProviderFailed, !.at = "cancel"])
    <3>1. handler'[r] = [[handler[r] EXCEPT !.called = TRUE] EXCEPT
                           !.plan = ProviderFailed, !.at = "cancel"]
      BY <2>2, BecomeEffect
    <3>2. /\ handler'[r].at = "cancel" /\ handler'[r].plan = ProviderFailed
          /\ ~handler'[r].committed /\ handler'[r].sent = "nothing"
      BY <1>0, <2>0, <3>1 DEF Handler, Fresh
    <3>3. Moves(r) /\ RowAgrees(r)'
      BY <1>d, <2>0, <3>2 DEF Early
    <3>4. HandlerAgrees(r)'
      BY <2>0, <3>2, FailurePlans DEF HandlerAgrees, Failures
    <3>5. QED
      BY <3>3, <3>4
  <2>3. CASE Become(r, [[handler[r] EXCEPT !.called = TRUE] EXCEPT !.at = "release"])
    <3>1. handler'[r] = [handler[r] EXCEPT !.called = TRUE, !.at = "release"]
      BY <2>3, BecomeEffect
    <3>2. handler'[r].at = "release"
      BY <1>0, <3>1 DEF Handler
    <3>3. Moves(r) /\ RowAgrees(r)'
      BY <1>d, <2>0, <3>2 DEF Early
    <3>4. HandlerAgrees(r)'
      BY <1>a, <2>0, <3>1, <3>3
    <3>5. QED
      BY <3>3, <3>4
  <2>4. QED
    BY <1>1, <2>1, <2>2, <2>3 DEF forward_chat_completion
<1>2. CASE start_stream(r)
  <2>0. /\ handler[r].at = "provider" /\ operation' = operation /\ credit' = credit
        /\ operation[r].linked /\ Fresh(handler[r]) /\ r \in Streams
    BY <1>2 DEF start_stream, At, HandlerAgrees
  <2>1. CASE Become(r, [handler[r] EXCEPT !.called = TRUE, !.at = "streaming"])
    <3>1. handler'[r] = [handler[r] EXCEPT !.called = TRUE, !.at = "streaming"]
      BY <2>1, BecomeEffect
    <3>2. /\ handler'[r].at = "streaming" /\ ~handler'[r].committed /\ handler'[r].sent = "nothing"
      BY <1>0, <2>0, <3>1 DEF Handler, Fresh
    <3>3. Moves(r) /\ RowAgrees(r)'
      BY <1>d, <2>0, <3>2 DEF Early
    <3>4. HandlerAgrees(r)'
      BY <2>0, <3>2 DEF HandlerAgrees
    <3>5. QED
      BY <3>3, <3>4
  <2>2. CASE Goto(r, "dead")
    <3>1. handler'[r].at = "dead"
      BY <2>2, GotoEffect
    <3>2. Moves(r) /\ RowAgrees(r)'
      BY <1>d, <2>0, <3>1 DEF Early
    <3>3. HandlerAgrees(r)'
      BY <1>0, <1>a, <1>b, <2>0, <2>2, <3>2 DEF Handler
    <3>4. QED
      BY <3>2, <3>3
  <2>3. QED
    BY <1>2, <2>1, <2>2 DEF start_stream
<1>3. CASE receive_usage(r)
  <2>0. /\ handler[r].at = "streaming" /\ operation' = operation /\ credit' = credit
        /\ r \in Streams /\ handler[r].sent = "nothing" /\ ~handler[r].committed
        /\ handler[r].called => operation[r].linked
    BY <1>3 DEF receive_usage, At, HandlerAgrees
  <2>1. PICK u \in Usages : handler'[r] = [handler[r] EXCEPT !.seen = u]
    BY <1>3, BecomeEffect DEF receive_usage
  <2>2. /\ handler'[r].at = "streaming" /\ ~handler'[r].committed /\ handler'[r].sent = "nothing"
        /\ handler'[r].called = handler[r].called
    BY <1>0, <2>0, <2>1 DEF Handler
  <2>3. Moves(r) /\ RowAgrees(r)'
    BY <1>d, <2>0, <2>2 DEF Early
  <2>4. HandlerAgrees(r)'
    BY <2>0, <2>2 DEF HandlerAgrees
  <2>5. QED
    BY <2>3, <2>4
<1>4. CASE end_stream(r)
  <2>0. /\ handler[r].at = "streaming" /\ operation' = operation /\ credit' = credit
        /\ r \in Streams /\ handler[r].sent = "nothing" /\ ~handler[r].committed
        /\ handler[r].called => operation[r].linked
    BY <1>4 DEF end_stream, At, HandlerAgrees
  <2>1. CASE /\ handler[r].seen # Unknown
             /\ Become(r, [handler[r] EXCEPT !.plan = Completed, !.at = "record_usage"])
    <3>1. handler'[r] = [handler[r] EXCEPT !.plan = Completed, !.at = "record_usage"]
      BY <2>1, BecomeEffect
    <3>2. /\ handler'[r].at = "record_usage" /\ handler'[r].plan = Completed
          /\ handler'[r].seen # Unknown /\ ~handler'[r].committed /\ handler'[r].sent = "nothing"
          /\ handler'[r].called = handler[r].called
      BY <1>0, <2>0, <2>1, <3>1 DEF Handler
    <3>3. Moves(r) /\ RowAgrees(r)'
      BY <1>d, <2>0, <3>2 DEF Early
    <3>4. HandlerAgrees(r)'
      BY <2>0, <3>2, FailurePlans DEF HandlerAgrees
    <3>5. QED
      BY <3>3, <3>4
  <2>2. ASSUME NEW plan \in Failures, Become(r, FinishFailure(handler[r], plan))
        PROVE  Moves(r) /\ HandlerAgrees(r)' /\ RowAgrees(r)'
    <3>1. handler'[r].at \in {"cancel", "record_usage"}
      <4>1. handler'[r] = FinishFailure(handler[r], plan)
        BY <2>2, BecomeEffect
      <4>2. QED
        BY <1>0, <4>1 DEF FinishFailure, Handler
    <3>2. Moves(r) /\ RowAgrees(r)'
      BY <1>d, <2>0, <3>1 DEF Early
    <3>3. QED
      BY <1>c, <2>0, <2>2, <3>2 DEF At
  <2>3. CASE Goto(r, "dead")
    <3>1. handler'[r].at = "dead"
      BY <2>3, GotoEffect
    <3>2. Moves(r) /\ RowAgrees(r)'
      BY <1>d, <2>0, <3>1 DEF Early
    <3>3. HandlerAgrees(r)'
      BY <1>0, <1>a, <1>b, <2>0, <2>3, <3>2 DEF Handler
    <3>4. QED
      BY <3>2, <3>3
  <2>4. QED
    BY <1>4, <2>1, <2>2, <2>3 DEF end_stream, Failures
<1>5. CASE _heartbeat_stream(r)
  <2>0. /\ handler[r].at = "streaming" /\ credit' = credit
        /\ r \in Streams /\ handler[r].sent = "nothing" /\ ~handler[r].committed
        /\ handler[r].called => operation[r].linked
    BY <1>5 DEF _heartbeat_stream, At, HandlerAgrees
  <2>1. CASE Pending(r) /\ Commit(r, [operation[r] EXCEPT !.stale = FALSE]) /\ UNCHANGED handler
    <3>1. operation'[r] = [operation[r] EXCEPT !.stale = FALSE] /\ Onward(r)
      BY <1>0, <2>1 DEF Commit, Onward
    <3>2. Moves(r) /\ RowAgrees(r)'
      BY <2>0, <2>1, <3>1, TouchRow
    <3>3. HandlerAgrees(r)'
      BY <2>0, <2>1, <3>2 DEF HandlerAgrees, Moves
    <3>4. QED
      BY <3>2, <3>3
  <2>2. ASSUME NEW plan \in Failures, Become(r, FinishFailure(handler[r], plan)), UNCHANGED operation
        PROVE  Moves(r) /\ HandlerAgrees(r)' /\ RowAgrees(r)'
    <3>1. handler'[r].at \in {"cancel", "record_usage"}
      <4>1. handler'[r] = FinishFailure(handler[r], plan)
        BY <2>2, BecomeEffect
      <4>2. QED
        BY <1>0, <4>1 DEF FinishFailure, Handler
    <3>2. Moves(r) /\ RowAgrees(r)'
      BY <1>d, <2>0, <2>2, <3>1 DEF Early
    <3>3. QED
      BY <1>c, <2>0, <2>2, <3>2 DEF At
  <2>3. QED
    BY <1>5, <2>1, <2>2 DEF _heartbeat_stream, Failures
<1>6. QED
  BY <1>1, <1>2, <1>3, <1>4, <1>5

\* Settlement, cancellation and the terminal event.
LEMMA SettlementStep ==
  ASSUME TypeInv, NEW r \in Requests, HandlerAgrees(r), RowAgrees(r),
         record_usage(r) \/ settle(r) \/ cancel(r) \/ terminalize(r)
  PROVE  Moves(r) /\ HandlerAgrees(r)' /\ RowAgrees(r)'
<1>0. /\ handler[r] \in Handler /\ operation[r] \in Operation /\ credit[r] \in Credit
      /\ operation \in [Requests -> Operation] /\ credit \in [Requests -> Credit]
      /\ handler \in [Requests -> Handler]
      /\ handler[r].at \in {"record_usage", "settle"} => handler[r].seen \in Nat
  BY ChatAssumption DEF TypeInv, TypeOK, UsageIsKnown, Handler
<1>a. Raise(r) \in Interrupted(r) /\ \A h \in Interrupted(r) : h.at \notin Early
  BY <1>0 DEF Interrupted, Raise, FinishFailure, Early, Handler
<1>b. ASSUME Moves(r), NEW h \in Interrupted(r), Become(r, h) PROVE HandlerAgrees(r)'
  <2>1. operation[r].status # "none"
    BY DEF record_usage, settle, cancel, terminalize, At, HandlerAgrees
  <2>2. QED
    BY <1>b, <2>1, Raises, BecomeEffect
<1>c. handler'[r].at \notin Early => Onward(r)
  BY DEF Onward
<1>1. CASE record_usage(r)
  <2> DEFINE u == handler[r].seen
  <2>0. /\ handler[r].at = "record_usage" /\ u \in Nat /\ credit'[r] = credit[r]
        /\ handler[r].plan # Undecided
    BY <1>0, <1>1 DEF record_usage, At, HandlerAgrees
  <2>1. CASE /\ UsageAccepted(operation[r], u)
             /\ Commit(r, WithUsage(operation[r], u)) /\ Goto(r, "settle")
    <3>1. operation'[r] = WithUsage(operation[r], u) /\ Pending(r)
      BY <1>0, <2>1 DEF Commit, UsageAccepted, Pending
    <3>2. handler'[r].at = "settle" /\ SameBut(handler'[r], handler[r])
      BY <2>1, GotoEffect
    <3>3. Moves(r) /\ RowAgrees(r)'
      BY <1>c, <2>0, <2>1, <3>1, <3>2, TouchRow DEF Early
    <3>4. operation'[r].recorded /\ operation'[r].usage = u
      BY <1>0, <3>1, RowUpdates
    <3>5. HandlerAgrees(r)'
      BY <2>0, <3>2, <3>3, <3>4 DEF HandlerAgrees, SameBut, Moves, Terminal, Final
    <3>6. QED
      BY <3>3, <3>5
  <2>2. ASSUME UNCHANGED operation, NEW h \in Interrupted(r), Become(r, h)
        PROVE  Moves(r) /\ HandlerAgrees(r)' /\ RowAgrees(r)'
    <3>1. handler'[r] = h
      BY <2>2, BecomeEffect
    <3>2. Moves(r) /\ RowAgrees(r)'
      BY <1>a, <1>c, <2>0, <2>2, <3>1, KeepRow
    <3>3. QED
      BY <1>b, <2>2, <3>2
  <2>3. ASSUME UsageAccepted(operation[r], u),
               operation' = [operation EXCEPT ![r] = WithUsage(operation[r], u)],
               NEW h \in Interrupted(r), Become(r, h)
        PROVE  Moves(r) /\ HandlerAgrees(r)' /\ RowAgrees(r)'
    <3>1. operation'[r] = WithUsage(operation[r], u) /\ Pending(r) /\ handler'[r] = h
      BY <1>0, <2>3, BecomeEffect DEF UsageAccepted, Pending
    <3>2. Moves(r) /\ RowAgrees(r)'
      BY <1>a, <1>c, <2>0, <2>3, <3>1, TouchRow
    <3>3. QED
      BY <1>b, <2>3, <3>2
  <2>4. QED
    BY <1>1, <1>a, <2>1, <2>2, <2>3 DEF record_usage, MayCommit
<1>2. CASE settle(r)
  <2> DEFINE u == handler[r].seen
             replies == Settled(credit[r], u)
  <2>0. /\ handler[r].at = "settle" /\ u \in Nat /\ u # Unknown /\ operation'[r] = operation[r]
        /\ handler[r].plan # Undecided /\ operation[r].recorded /\ operation[r].usage = u
        /\ ~handler[r].committed
    BY <1>0, <1>2, ChatAssumption DEF settle, At, HandlerAgrees
  <2>1. ASSUME NEW c \in replies \cup {credit[r]}, credit' = [credit EXCEPT ![r] = c],
               NEW h \in Interrupted(r), Become(r, h)
        PROVE  Moves(r) /\ HandlerAgrees(r)' /\ RowAgrees(r)'
    <3>1. handler'[r] = h /\ credit'[r] = c
      BY <1>0, <2>1, BecomeEffect
    <3>2. Moves(r) /\ RowAgrees(r)'
      BY <1>a, <1>c, <2>0, <2>1, <3>1, CreditAnswers
    <3>3. QED
      BY <1>b, <2>1, <3>2
  <2>2. ASSUME NEW c \in replies, credit' = [credit EXCEPT ![r] = c], SettlementAccepted(c),
               Become(r, [handler[r] EXCEPT !.charged = c.charged, !.at = "terminalize"])
        PROVE  Moves(r) /\ HandlerAgrees(r)' /\ RowAgrees(r)'
    <3>1. /\ handler'[r] = [handler[r] EXCEPT !.charged = c.charged, !.at = "terminalize"]
          /\ credit'[r] = c
      BY <1>0, <2>2, BecomeEffect
    <3>2. /\ handler'[r].at = "terminalize" /\ handler'[r].charged = c.charged
          /\ handler'[r].plan = handler[r].plan /\ handler'[r].seen = u
          /\ handler'[r].called = handler[r].called
          /\ handler'[r].committed = handler[r].committed /\ handler'[r].sent = handler[r].sent
      BY <1>0, <3>1 DEF Handler
    <3>3. Moves(r) /\ RowAgrees(r)'
      BY <1>c, <2>0, <3>1, <3>2, CreditAnswers DEF Early
    <3>4. c.status = "succeeded_charged" /\ c.usage = u
      BY <1>0, <2>2, CreditMoves DEF SettlementAccepted
    <3>5. operation'[r].status # "none"
      BY <2>0 DEF HandlerAgrees
    <3>6. HandlerAgrees(r)'
      BY <2>0, <3>1, <3>2, <3>3, <3>4, <3>5 DEF HandlerAgrees
    <3>7. QED
      BY <3>3, <3>6
  <2>3. ASSUME UNCHANGED credit, Become(r, Raise(r))
        PROVE  Moves(r) /\ HandlerAgrees(r)' /\ RowAgrees(r)'
    <3>1. credit' = [credit EXCEPT ![r] = credit[r]]
      BY <1>0, <2>3
    <3>2. QED
      BY <1>a, <2>1, <2>3, <3>1
  <2>4. QED
    BY <1>2, <1>a, <2>1, <2>2, <2>3 DEF settle
<1>3. CASE cancel(r)
  <2> DEFINE replies == Cancels(credit[r])
  <2>0. /\ handler[r].at = "cancel" /\ operation'[r] = operation[r]
        /\ handler[r].plan # Undecided /\ handler[r].plan # Completed /\ ~handler[r].committed
        /\ operation[r].status # "none"
    BY <1>0, <1>3 DEF cancel, At, HandlerAgrees
  <2>1. ASSUME NEW c \in replies \cup {credit[r]}, credit' = [credit EXCEPT ![r] = c],
               Become(r, Raise(r))
        PROVE  Moves(r) /\ HandlerAgrees(r)' /\ RowAgrees(r)'
    <3>1. handler'[r] = Raise(r) /\ credit'[r] = c
      BY <1>0, <2>1, BecomeEffect
    <3>2. Moves(r) /\ RowAgrees(r)'
      BY <1>a, <1>c, <2>0, <2>1, <3>1, CreditAnswers
    <3>3. QED
      BY <1>a, <1>b, <2>1, <3>2
  <2>2. ASSUME NEW c \in replies, credit' = [credit EXCEPT ![r] = c], CancellationAccepted(c),
               Become(r, [handler[r] EXCEPT !.charged = 0, !.at = "terminalize"])
        PROVE  Moves(r) /\ HandlerAgrees(r)' /\ RowAgrees(r)'
    <3>1. /\ handler'[r] = [handler[r] EXCEPT !.charged = 0, !.at = "terminalize"]
          /\ credit'[r] = c
      BY <1>0, <2>2, BecomeEffect
    <3>2. /\ handler'[r].at = "terminalize" /\ handler'[r].charged = 0
          /\ handler'[r].plan = handler[r].plan /\ handler'[r].seen = handler[r].seen
          /\ handler'[r].called = handler[r].called
          /\ handler'[r].committed = handler[r].committed /\ handler'[r].sent = handler[r].sent
      BY <1>0, <3>1 DEF Handler
    <3>3. Moves(r) /\ RowAgrees(r)'
      BY <1>c, <2>0, <3>1, <3>2, CreditAnswers DEF Early
    <3>4. c.status \in Cancelled /\ c.charged = 0
      BY <2>2 DEF CancellationAccepted
    <3>5. HandlerAgrees(r)'
      BY <2>0, <3>1, <3>2, <3>3, <3>4 DEF HandlerAgrees
    <3>6. QED
      BY <3>3, <3>5
  <2>3. ASSUME UNCHANGED credit, Become(r, Raise(r))
        PROVE  Moves(r) /\ HandlerAgrees(r)' /\ RowAgrees(r)'
    <3>1. credit' = [credit EXCEPT ![r] = credit[r]]
      BY <1>0, <2>3
    <3>2. QED
      BY <2>1, <2>3, <3>1
  <2>4. QED
    BY <1>3, <2>1, <2>2, <2>3 DEF cancel
<1>4. CASE terminalize(r)
  <2> DEFINE plan == handler[r].plan
             ended == WithOutcome(operation[r], plan, handler[r].charged)
             committed == [handler[r] EXCEPT !.committed = TRUE,
                             !.at = IF r \in Streams /\ plan = Completed
                                      THEN "done_frame" ELSE "release"]
  <2>0. /\ handler[r].at = "terminalize" /\ credit'[r] = credit[r]
        /\ plan # Undecided /\ plan \in Plans /\ credit[r].charged = handler[r].charged
        /\ credit[r].status # "pending"
        /\ plan = Completed => /\ credit[r].status = "succeeded_charged"
                               /\ credit[r].usage = handler[r].seen
                               /\ operation[r].recorded /\ operation[r].usage = handler[r].seen
    BY <1>0, <1>4, FailurePlans DEF terminalize, At, HandlerAgrees, Handler, Failures, Cancelled
  <2>1. /\ plan.status \in Final /\ plan \in Outcomes
        /\ plan.status = "completed" => plan = Completed
    BY <2>0, PlanTypes, OutcomeStatus, OutcomeTypes DEF Final
  <2>2. ASSUME Pending(r), operation'[r] = ended, handler'[r].at \notin Early
        PROVE  Moves(r) /\ RowAgrees(r)'
    <3>1. operation[r].status = "pending" /\ handler[r].at \notin Early
      BY <2>0, <2>2 DEF Pending, Early
    <3>2. QED
      BY <1>0, <1>c, <2>0, <2>1, <2>2, <3>1, EndRow
  <2>3. ASSUME Become(r, committed), Moves(r), RowAgrees(r)', SameOutcome(operation'[r], plan)
        PROVE  HandlerAgrees(r)'
    <3>1. handler'[r] = committed
      BY <2>3, BecomeEffect
    <3>2. /\ handler'[r].at = (IF r \in Streams /\ plan = Completed THEN "done_frame" ELSE "release")
          /\ handler'[r].plan = plan /\ handler'[r].seen = handler[r].seen
          /\ handler'[r].called = handler[r].called
          /\ handler'[r].committed /\ handler'[r].sent = handler[r].sent
      BY <1>0, <3>1 DEF Handler
    <3>3. plan = Completed => /\ operation'[r].status = "completed"
                              /\ operation'[r].usage = handler[r].seen
      BY <2>0, <2>3, OutcomeStatus DEF RowAgrees, SameOutcome
    <3>4. QED
      BY <2>0, <2>3, <3>2, <3>3 DEF HandlerAgrees, Moves, Terminal, Final
  <2>4. CASE Pending(r) /\ Commit(r, ended) /\ Become(r, committed)
    <3>1. operation'[r] = ended /\ handler'[r] = committed
      BY <1>0, <2>4, BecomeEffect DEF Commit
    <3>2. handler'[r].at \notin Early
      BY <1>0, <3>1 DEF Early, Handler
    <3>3. Moves(r) /\ RowAgrees(r)'
      BY <2>2, <2>4, <3>1, <3>2
    <3>4. SameOutcome(operation'[r], plan)
      BY <1>0, <3>1, RowUpdates DEF SameOutcome
    <3>5. QED
      BY <2>3, <2>4, <3>3, <3>4
  <2>5. CASE SameOutcome(operation[r], plan) /\ Become(r, committed) /\ UNCHANGED operation
    <3>1. handler'[r] = committed
      BY <2>5, BecomeEffect
    <3>2. handler'[r].at \notin Early
      BY <1>0, <3>1 DEF Early, Handler
    <3>3. Moves(r) /\ RowAgrees(r)'
      BY <1>c, <2>0, <2>5, <3>2, KeepRow
    <3>4. QED
      BY <2>3, <2>5, <3>3
  <2>6. ASSUME NEW h \in Interrupted(r), Become(r, h),
               \/ UNCHANGED operation
               \/ Pending(r) /\ operation' = [operation EXCEPT ![r] = ended]
        PROVE  Moves(r) /\ HandlerAgrees(r)' /\ RowAgrees(r)'
    <3>1. handler'[r] = h /\ (operation'[r] = operation[r] \/ (Pending(r) /\ operation'[r] = ended))
      BY <1>0, <2>6, BecomeEffect
    <3>2. Moves(r) /\ RowAgrees(r)'
      BY <1>a, <1>c, <2>0, <2>2, <3>1, KeepRow
    <3>3. QED
      BY <1>b, <2>6, <3>2
  <2>7. QED
    BY <1>4, <1>a, <2>4, <2>5, <2>6 DEF terminalize, MayCommit
<1>5. QED
  BY <1>1, <1>2, <1>3, <1>4

\* The end of a handler: [DONE], the finally clause, a crash; and time.
LEMMA EndingStep ==
  ASSUME TypeInv, NEW r \in Requests, HandlerAgrees(r), RowAgrees(r),
         done_frame(r) \/ release(r) \/ Crash(r) \/ Age(r)
  PROVE  Moves(r) /\ HandlerAgrees(r)' /\ RowAgrees(r)'
<1>0. /\ handler[r] \in Handler /\ operation[r] \in Operation
      /\ operation \in [Requests -> Operation] /\ handler \in [Requests -> Handler]
  BY DEF TypeInv, TypeOK
<1>a. ASSUME handler'[r].at \notin Early, operation' = operation, credit' = credit
      PROVE  Moves(r) /\ RowAgrees(r)'
  BY <1>a, KeepRow DEF Onward
<1>1. CASE done_frame(r)
  <2>0. /\ handler[r].at = "done_frame" /\ operation' = operation /\ credit' = credit
        /\ handler[r].committed /\ handler[r].plan = Completed
        /\ operation[r].status = "completed" /\ operation[r].usage = handler[r].seen
    BY <1>1 DEF done_frame, At, HandlerAgrees
  <2>1. CASE Become(r, [handler[r] EXCEPT !.sent = "success", !.at = "release"])
    <3>1. handler'[r] = [handler[r] EXCEPT !.sent = "success", !.at = "release"]
      BY <2>1, BecomeEffect
    <3>2. /\ handler'[r].at = "release" /\ handler'[r].seen = handler[r].seen
          /\ handler'[r].called = handler[r].called
      BY <1>0, <3>1 DEF Handler
    <3>3. Moves(r) /\ RowAgrees(r)'
      BY <1>a, <2>0, <3>2 DEF Early
    <3>4. HandlerAgrees(r)'
      BY <2>0, <3>2 DEF HandlerAgrees
    <3>5. QED
      BY <3>3, <3>4
  <2>2. ASSUME NEW sent \in {"nothing", "success"},
               Become(r, [FinishFailure(handler[r], Disconnected) EXCEPT !.sent = sent])
        PROVE  Moves(r) /\ HandlerAgrees(r)' /\ RowAgrees(r)'
    <3>1. handler'[r] = [FinishFailure(handler[r], Disconnected) EXCEPT !.sent = sent]
      BY <2>2, BecomeEffect
    <3>2. handler'[r].at \in {"cancel", "record_usage"}
      BY <1>0, <3>1 DEF FinishFailure, Handler
    <3>3. Moves(r) /\ RowAgrees(r)'
      BY <1>a, <2>0, <3>2 DEF Early
    <3>4. HandlerAgrees(r)'
      BY <1>0, <2>0, <3>1, <3>3, Fails DEF Failures, At
    <3>5. QED
      BY <3>3, <3>4
  <2>3. QED
    BY <1>1, <2>1, <2>2 DEF done_frame
<1>2. CASE release(r)
  <2>0. handler[r].at = "release" /\ operation' = operation /\ credit' = credit
    BY <1>2 DEF release, At
  <2>1. PICK sent \in {"success", "error"} :
          /\ handler'[r] = [handler[r] EXCEPT !.at = "done", !.sent = sent]
          /\ sent = "success" => \/ handler[r].sent = "success"
                                 \/ handler[r].committed /\ handler[r].plan = Completed
    BY <1>2, BecomeEffect DEF release
  <2>2. /\ handler'[r].at = "done" /\ handler'[r].seen = handler[r].seen
        /\ handler'[r].called = handler[r].called /\ handler'[r].plan = handler[r].plan
        /\ handler'[r].committed = handler[r].committed /\ handler'[r].sent = sent
    BY <1>0, <2>1 DEF Handler
  <2>3. Moves(r) /\ RowAgrees(r)'
    BY <1>a, <2>0, <2>2 DEF Early
  <2>4. HandlerAgrees(r)'
    BY <2>0, <2>1, <2>2 DEF HandlerAgrees
  <2>5. QED
    BY <2>3, <2>4
<1>3. CASE Crash(r)
  <2>0. operation' = operation /\ credit' = credit /\ Goto(r, "dead")
    BY <1>3 DEF Crash
  <2>1. handler'[r].at = "dead" /\ SameBut(handler'[r], handler[r])
    BY <2>0, GotoEffect
  <2>2. Moves(r) /\ RowAgrees(r)'
    BY <1>a, <2>0, <2>1 DEF Early
  <2>3. HandlerAgrees(r)'
    BY <2>0, <2>1 DEF HandlerAgrees, SameBut
  <2>4. QED
    BY <2>2, <2>3
<1>4. CASE Age(r)
  <2>0. /\ handler' = handler /\ credit' = credit /\ Pending(r)
        /\ operation'[r] = [operation[r] EXCEPT !.stale = TRUE]
        /\ handler[r].at \in {"done", "dead"} \cup SlowAwaits
    BY <1>0, <1>4 DEF Age, Commit
  <2>1. /\ handler[r].at \in Early => handler[r].at = "reserve_credit"
        /\ Timely => handler[r].at \notin Early
    <3>1. handler[r].at \in {"start", "reserve_quota"} => operation[r] = NoOperation
      BY DEF HandlerAgrees
    <3>2. operation[r] # NoOperation
      BY <2>0, RowUpdates, <1>0 DEF Pending
    <3>3. QED
      BY <2>0, <3>1, <3>2 DEF Early, Timely
  <2>2. Moves(r) /\ RowAgrees(r)'
    BY <2>0, <2>1, TouchRow DEF Onward
  <2>3. operation'[r].status = operation[r].status
    BY <1>0, <2>0 DEF Operation
  <2>4. HandlerAgrees(r)'
    BY <2>0, <2>1, <2>2, <2>3 DEF HandlerAgrees, Moves, Terminal, Pending, Final, Early
  <2>5. QED
    BY <2>2, <2>4
<1>5. QED
  BY <1>1, <1>2, <1>3, <1>4

\* Every step of a handler, put together.
LEMMA HandlerStep ==
  ASSUME TypeInv, NEW r \in Requests, HandlerAgrees(r), RowAgrees(r),
         Admit(r) \/ Proceed(r) \/ receive_usage(r) \/ _heartbeat_stream(r) \/ Crash(r) \/ Age(r)
  PROVE  Moves(r) /\ HandlerAgrees(r)' /\ RowAgrees(r)'
<1>1. CASE Admit(r) \/ reserve_quota(r) \/ reserve_credit(r) \/ record_credit(r)
  BY <1>1, AdmissionStep
<1>2. CASE \/ forward_chat_completion(r) \/ start_stream(r) \/ receive_usage(r)
           \/ end_stream(r) \/ _heartbeat_stream(r)
  BY <1>2, ProviderStep
<1>3. CASE record_usage(r) \/ settle(r) \/ cancel(r) \/ terminalize(r)
  BY <1>3, SettlementStep
<1>4. CASE done_frame(r) \/ release(r) \/ Crash(r) \/ Age(r)
  BY <1>4, EndingStep
<1>5. QED
  BY <1>1, <1>2, <1>3, <1>4 DEF Proceed

\* What a handler knows of row and credit survives what others do to them.
LEMMA HandlerStands ==
  ASSUME NEW r \in Requests, HandlerAgrees(r), RowAgrees(r), Moves(r), handler'[r] = handler[r],
         handler[r].at \in Early =>
           /\ operation'[r] = operation[r] \/ (operation[r].status # "none" /\ ~Timely)
           /\ credit'[r] = credit[r]
  PROVE  HandlerAgrees(r)'
<1>1. CASE handler[r].at \in Early
  <2>1. NoOperation.status = "none"
    BY DEF NoOperation
  <2>2. CASE operation'[r] = operation[r]
    BY <1>1, <2>2 DEF HandlerAgrees
  <2>3. CASE operation[r].status # "none" /\ ~Timely
    <3>1. handler[r].at = "reserve_credit"
      BY <1>1, <2>1, <2>3 DEF HandlerAgrees, Early
    <3>2. QED
      BY <1>1, <2>3, <3>1 DEF HandlerAgrees, Fresh, Moves
  <2>4. QED
    BY <1>1, <2>2, <2>3
<1>2. CASE handler[r].at \notin Early
  <2>1. handler[r].at = "terminalize" => credit'[r] = credit[r]
    BY <1>2 DEF HandlerAgrees, Moves, Cancelled
  <2>2. QED
    BY <1>2, <2>1 DEF HandlerAgrees, Moves, Terminal, Final, Early
<1>3. QED
  BY <1>1, <1>2

\* A candidate that nobody works on stays as true as it was.
LEMMA CandidateStands ==
  ASSUME NEW v \in Workers, NEW x \in Requests, CandidateAgrees(v, x), Moves(x),
         worker'[v][x] = worker[v][x]
  PROVE  CandidateAgrees(v, x)'
BY DEF CandidateAgrees, Moves, Cancelled

\* A handler's step concerns its own request only.
LEMMA HandlerIsLocal ==
  ASSUME TypeInv, NEW r \in Requests,
         Admit(r) \/ Proceed(r) \/ receive_usage(r) \/ _heartbeat_stream(r) \/ Crash(r) \/ Age(r)
  PROVE  /\ \A x \in Requests \ {r} : /\ handler'[x] = handler[x] /\ operation'[x] = operation[x]
                                      /\ credit'[x] = credit[x]
         /\ \/ operation'[r].status = "none" \/ operation[r].status # "none"
            \/ ~RequestIdTaken(r)
<1>0. /\ handler \in [Requests -> Handler] /\ operation \in [Requests -> Operation]
      /\ credit \in [Requests -> Credit]
  BY DEF TypeInv, TypeOK
<1>1. ASSUME NEW x \in Requests \ {r} PROVE handler'[x] = handler[x]
  BY <1>0 DEF Admit, Proceed, reserve_quota, reserve_credit, record_credit,
       forward_chat_completion, start_stream, end_stream, record_usage, settle, cancel,
       terminalize, done_frame, release, receive_usage, _heartbeat_stream, Crash, Age,
       Goto, Become
<1>2. ASSUME NEW x \in Requests \ {r} PROVE operation'[x] = operation[x]
  BY <1>0 DEF Admit, Proceed, reserve_quota, reserve_credit, record_credit,
       forward_chat_completion, start_stream, end_stream, record_usage, settle, cancel,
       terminalize, done_frame, release, receive_usage, _heartbeat_stream, Crash, Age,
       Commit, MayCommit
<1>3. ASSUME NEW x \in Requests \ {r} PROVE credit'[x] = credit[x]
  BY <1>0 DEF Admit, Proceed, reserve_quota, reserve_credit, record_credit,
       forward_chat_completion, start_stream, end_stream, record_usage, settle, cancel,
       terminalize, done_frame, release, receive_usage, _heartbeat_stream, Crash, Age
<1>4. operation' = operation \/ Pending(r) \/ ~RequestIdTaken(r)
  BY DEF Admit, Proceed, reserve_quota, reserve_credit, record_credit,
       forward_chat_completion, start_stream, end_stream, record_usage, settle, cancel,
       terminalize, done_frame, release, receive_usage, _heartbeat_stream, Crash, Age,
       UsageAccepted, Pending
<1>5. QED
  BY <1>1, <1>2, <1>3, <1>4 DEF Pending

\* No request runs backwards.
Forward == \A r \in Requests : Moves(r)

\* The invariant through a step of a handler.
LEMMA ChatInvHandler ==
  ASSUME TypeInv, ChatInv, NEW r \in Requests,
         Admit(r) \/ Proceed(r) \/ receive_usage(r) \/ _heartbeat_stream(r) \/ Crash(r) \/ Age(r)
  PROVE  ChatInv' /\ Forward
<1>1. \A x \in Requests : HandlerAgrees(x) /\ RowAgrees(x)
  BY DEF ChatInv
<1>2. Moves(r) /\ HandlerAgrees(r)' /\ RowAgrees(r)'
  BY <1>1, HandlerStep
<1>3. ASSUME NEW x \in Requests \ {r} PROVE Moves(x) /\ HandlerAgrees(x)' /\ RowAgrees(x)'
  <2>1. handler'[x] = handler[x] /\ operation'[x] = operation[x] /\ credit'[x] = credit[x]
    BY HandlerIsLocal
  <2>2. Moves(x) /\ RowAgrees(x)'
    BY <1>1, <2>1, KeepRow DEF Onward
  <2>3. QED
    BY <1>1, <2>1, <2>2, HandlerStands
<1>4. \A w \in Workers : \A x \in DOMAIN worker'[w] : CandidateAgrees(w, x)'
  <2> SUFFICES ASSUME NEW w \in Workers, NEW x \in DOMAIN worker'[w]
               PROVE  CandidateAgrees(w, x)'
    OBVIOUS
  <2>1. worker' = worker /\ x \in DOMAIN worker[w] /\ x \in Requests
    BY HandlerLeavesPasses DEF TypeInv, TypeOK
  <2>2. CandidateAgrees(w, x) /\ Moves(x)
    BY <1>2, <1>3, <2>1 DEF ChatInv
  <2>3. QED
    BY <2>1, <2>2, CandidateStands
<1>5. IdsAreUnique'
  BY HandlerIsLocal DEF ChatInv, IdsAreUnique, RequestIdTaken
<1>6. QED
  BY <1>2, <1>3, <1>4, <1>5 DEF ChatInv, Forward

\* A step of a pass on candidate r keeps what handlers and rows know.
LEMMA PassOnRequest ==
  ASSUME TypeInv, ChatInv, handler' = handler, NEW r \in Requests,
         Timely => handler[r].at \notin Early,
         operation[r].status # "none", Moves(r), RowAgrees(r)',
         credit[r].status = "none" => credit'[r] = credit[r],
         \A x \in Requests \ {r} : operation'[x] = operation[x] /\ credit'[x] = credit[x]
  PROVE  /\ \A x \in Requests : Moves(x) /\ HandlerAgrees(x)' /\ RowAgrees(x)'
         /\ IdsAreUnique'
<1>1. \A x \in Requests : HandlerAgrees(x) /\ RowAgrees(x)
  BY DEF ChatInv
<1>2. ASSUME NEW x \in Requests \ {r} PROVE Moves(x) /\ RowAgrees(x)'
  BY <1>1, <1>2, KeepRow DEF Onward
<1>3. ASSUME NEW x \in Requests PROVE Moves(x) /\ HandlerAgrees(x)' /\ RowAgrees(x)'
  <2>1. Moves(x) /\ RowAgrees(x)'
    BY <1>2
  <2>2. handler[x].at \in Early =>
          /\ operation'[x] = operation[x] \/ (operation[x].status # "none" /\ ~Timely)
          /\ credit'[x] = credit[x]
    BY <1>1 DEF HandlerAgrees, Early, NoCredit
  <2>3. HandlerAgrees(x)'
    BY <1>1, <2>1, <2>2, HandlerStands
  <2>4. QED
    BY <2>1, <2>3
<1>4. IdsAreUnique'
  BY DEF ChatInv, IdsAreUnique
<1>5. QED
  BY <1>3, <1>4

\* The candidates of all passes after a step of one of them.
LEMMA PassCandidates ==
  ASSUME TypeInv, ChatInv, NEW w \in Workers, NEW r \in DOMAIN worker[w],
         \A x \in Requests : Moves(x),
         \/ Skip(w, r)
         \/ \E step, reply : GotoStep(w, r, step, reply) /\ CandidateAgrees(w, r)'
  PROVE  \A v \in Workers : \A x \in DOMAIN worker'[v] : CandidateAgrees(v, x)'
<1>0. TypeOK /\ \A v \in Workers : DOMAIN worker[v] \subseteq Requests
  BY DEF TypeInv, TypeOK
<1>1. /\ \A v \in Workers : v # w => worker'[v] = worker[v]
      /\ DOMAIN worker'[w] \subseteq DOMAIN worker[w]
      /\ \A x \in DOMAIN worker'[w] : worker'[w][x] = worker[w][x] \/ (x = r /\ CandidateAgrees(w, r)')
  <2>1. CASE Skip(w, r)
    BY <1>0, <2>1, SkipEffect
  <2>2. ASSUME NEW step, NEW reply, GotoStep(w, r, step, reply), CandidateAgrees(w, r)'
        PROVE  /\ \A v \in Workers : v # w => worker'[v] = worker[v]
               /\ DOMAIN worker'[w] \subseteq DOMAIN worker[w]
               /\ \A x \in DOMAIN worker'[w] :
                    worker'[w][x] = worker[w][x] \/ (x = r /\ CandidateAgrees(w, r)')
    <3>1. PICK candidate : worker' = [worker EXCEPT ![w] = [worker[w] EXCEPT ![r] = candidate]]
      BY <2>2 DEF GotoStep
    <3>2. /\ \A v \in Workers : v # w => worker'[v] = worker[v]
          /\ worker'[w] = [worker[w] EXCEPT ![r] = candidate]
      BY <1>0, <3>1 DEF TypeOK
    <3>3. QED
      BY <2>2, <3>2
  <2>3. QED
    BY <2>1, <2>2
<1>2. ASSUME NEW v \in Workers, NEW x \in DOMAIN worker'[v] PROVE CandidateAgrees(v, x)'
  <2>1. x \in DOMAIN worker[v] /\ x \in Requests
    BY <1>0, <1>1
  <2>2. CandidateAgrees(v, x) /\ Moves(x)
    BY <2>1 DEF ChatInv
  <2>3. worker'[v][x] = worker[v][x] \/ CandidateAgrees(v, x)'
    BY <1>1
  <2>4. QED
    BY <2>1, <2>2, <2>3, CandidateStands
<1>3. QED
  BY <1>2

\* The invariant through a step of a recovery pass.
LEMMA ChatInvRecovery ==
  ASSUME TypeInv, ChatInv, NEW w \in Workers, Recover(w) \/ CrashWorker(w)
  PROVE  ChatInv' /\ Forward
<1>0. /\ handler' = handler /\ TypeOK
      /\ operation \in [Requests -> Operation] /\ credit \in [Requests -> Credit]
  BY RecoveryLeavesHandlers DEF TypeInv, TypeOK
<1>1. ASSUME NEW r \in DOMAIN worker[w]
      PROVE  /\ r \in Requests /\ CandidateAgrees(w, r) /\ RowAgrees(r) /\ Onward(r)
             /\ Timely => handler[r].at \notin Early
             /\ operation[r].status # "none"
             /\ operation[r] \in Operation /\ credit[r] \in Credit /\ worker[w][r] \in Candidate
  <2>1. r \in Requests /\ worker[w][r] \in Candidate
    BY <1>0 DEF TypeOK
  <2>2. CandidateAgrees(w, r) /\ RowAgrees(r)
    BY <2>1 DEF ChatInv
  <2>3. QED
    BY <1>0, <2>1, <2>2 DEF CandidateAgrees, Onward
<1>2. ASSUME NEW r \in DOMAIN worker[w], Moves(r), RowAgrees(r)',
             credit[r].status = "none" => credit'[r] = credit[r],
             \A x \in Requests \ {r} : operation'[x] = operation[x] /\ credit'[x] = credit[x],
             \/ Skip(w, r)
             \/ \E step, reply : GotoStep(w, r, step, reply) /\ CandidateAgrees(w, r)'
      PROVE  ChatInv' /\ Forward
  <2>1. /\ \A x \in Requests : Moves(x) /\ HandlerAgrees(x)' /\ RowAgrees(x)'
        /\ IdsAreUnique'
    BY <1>0, <1>1, <1>2, PassOnRequest
  <2>2. \A v \in Workers : \A x \in DOMAIN worker'[v] : CandidateAgrees(v, x)'
    BY <1>2, <2>1, PassCandidates
  <2>3. QED
    BY <2>1, <2>2 DEF ChatInv, Forward
<1>3. ASSUME NEW r \in DOMAIN worker[w], operation' = operation, credit' = credit
      PROVE  Moves(r) /\ RowAgrees(r)'
  BY <1>1, <1>3, KeepRow
<1>4. ASSUME NEW r \in DOMAIN worker[w], NEW step, NEW reply, GotoStep(w, r, step, reply)
      PROVE  /\ worker'[w][r].recorded = worker[w][r].recorded
             /\ worker'[w][r].usage = worker[w][r].usage
             /\ worker'[w][r].step = step /\ worker'[w][r].reply = reply
  <2>1. worker'[w][r] = [worker[w][r] EXCEPT !.step = step, !.reply = reply]
    BY <1>0, <1>4 DEF GotoStep, TypeOK
  <2>2. QED
    BY <1>1, <2>1 DEF Candidate
<1>5. CASE _load_candidates(w)
  <2>1. operation' = operation /\ credit' = credit
    BY <1>5 DEF _load_candidates
  <2>2. PICK S \in SUBSET Stale : worker' = [worker EXCEPT ![w] = [r \in S |-> AsCandidate(r)]]
    BY <1>5 DEF _load_candidates
  <2>3. ASSUME NEW x \in Requests PROVE Moves(x) /\ HandlerAgrees(x)' /\ RowAgrees(x)'
    <3>1. HandlerAgrees(x) /\ RowAgrees(x)
      BY DEF ChatInv
    <3>2. Moves(x) /\ RowAgrees(x)'
      BY <1>0, <2>1, <3>1, KeepRow DEF Onward
    <3>3. QED
      BY <1>0, <2>1, <3>1, <3>2, HandlerStands
  <2>4. ASSUME NEW v \in Workers, NEW x \in DOMAIN worker'[v] PROVE CandidateAgrees(v, x)'
    <3>1. CASE v = w
      <4>1. x \in S /\ worker'[w][x] = AsCandidate(x)
        BY <1>0, <2>2, <3>1 DEF TypeOK
      <4>2. x \in Requests /\ Pending(x) /\ operation[x].stale
        BY <4>1 DEF Stale
      <4>3. Timely => handler[x].at \notin Early
        BY <4>2 DEF ChatInv, RowAgrees
      <4>4. /\ worker'[w][x].step = "waiting"
            /\ worker'[w][x].recorded = operation[x].recorded
            /\ worker'[w][x].usage = operation[x].usage
        BY <4>1 DEF AsCandidate
      <4>5. QED
        BY <1>0, <2>1, <3>1, <4>2, <4>3, <4>4 DEF CandidateAgrees, Pending
    <3>2. CASE v # w
      <4>1. worker'[v] = worker[v] /\ x \in Requests
        BY <1>0, <2>2, <3>2 DEF TypeOK
      <4>2. CandidateAgrees(v, x)
        BY <4>1 DEF ChatInv
      <4>3. QED
        BY <2>3, <4>1, <4>2, CandidateStands
    <3>3. QED
      BY <3>1, <3>2
  <2>5. IdsAreUnique'
    BY <2>1 DEF ChatInv, IdsAreUnique
  <2>6. QED
    BY <2>3, <2>4, <2>5 DEF ChatInv, Forward
<1>6. CASE CrashWorker(w)
  <2>1. /\ operation' = operation /\ credit' = credit
        /\ DOMAIN worker'[w] = {} /\ \A v \in Workers : v # w => worker'[v] = worker[v]
    BY <1>0, <1>6 DEF CrashWorker, NoBatch, TypeOK
  <2>2. ASSUME NEW x \in Requests PROVE Moves(x) /\ HandlerAgrees(x)' /\ RowAgrees(x)'
    <3>1. HandlerAgrees(x) /\ RowAgrees(x)
      BY DEF ChatInv
    <3>2. Moves(x) /\ RowAgrees(x)'
      BY <1>0, <2>1, <3>1, KeepRow DEF Onward
    <3>3. QED
      BY <1>0, <2>1, <3>1, <3>2, HandlerStands
  <2>3. ASSUME NEW v \in Workers, NEW x \in DOMAIN worker'[v] PROVE CandidateAgrees(v, x)'
    <3>1. worker'[v] = worker[v] /\ x \in Requests
      BY <1>0, <2>1 DEF TypeOK
    <3>2. CandidateAgrees(v, x)
      BY <3>1 DEF ChatInv
    <3>3. QED
      BY <2>2, <3>1, <3>2, CandidateStands
  <2>4. IdsAreUnique'
    BY <2>1 DEF ChatInv, IdsAreUnique
  <2>5. QED
    BY <2>2, <2>3, <2>4 DEF ChatInv, Forward
<1>7. ASSUME NEW r \in Requests, _process(w, r) PROVE ChatInv' /\ Forward
  <2>1. r \in DOMAIN worker[w] /\ operation' = operation /\ credit' = credit
    BY <1>7 DEF _process
  <2>2. \/ Skip(w, r)
        \/ credit[r].status = "none" /\ GotoStep(w, r, "finalize_without_credit", NoCredit)
        \/ \E step \in {"settle", "cancel"} : GotoStep(w, r, step, NoCredit)
        \/ credit[r].status \in {"succeeded_charged"} \cup Cancelled
           /\ GotoStep(w, r, "finalize", credit[r])
    BY <1>7 DEF _process
  <2>3. ASSUME NEW step, NEW reply, GotoStep(w, r, step, reply),
               step = "finalize" =>
                 reply = credit[r] /\ credit[r].status \in {"succeeded_charged"} \cup Cancelled,
               step = "finalize_without_credit" => credit[r].status = "none"
        PROVE  CandidateAgrees(w, r)'
    <3>1. /\ worker'[w][r].recorded = worker[w][r].recorded
          /\ worker'[w][r].usage = worker[w][r].usage
          /\ worker'[w][r].step = step /\ worker'[w][r].reply = reply
      BY <1>4, <2>1, <2>3
    <3>2. CandidateAgrees(w, r)
      BY <1>1, <2>1
    <3>3. QED
      BY <1>0, <2>1, <2>3, <3>1, <3>2 DEF CandidateAgrees
  <2>4. \/ Skip(w, r)
        \/ \E step, reply : GotoStep(w, r, step, reply) /\ CandidateAgrees(w, r)'
    BY <2>2, <2>3
  <2>5. QED
    BY <1>2, <1>3, <2>1, <2>4
<1>8. ASSUME NEW r \in Requests, settle_candidate(w, r) \/ cancel_candidate(w, r) PROVE ChatInv' /\ Forward
  <2> DEFINE replies == Settled(credit[r], worker[w][r].usage) \cup Cancels(credit[r])
  <2>1. r \in DOMAIN worker[w] /\ operation' = operation
    BY <1>8 DEF settle_candidate, cancel_candidate, InStep
  <2>2. PICK c \in replies \cup {credit[r]} :
          /\ credit' = [credit EXCEPT ![r] = c]
          /\ \/ Skip(w, r)
             \/ /\ c \in replies /\ GotoStep(w, r, "finalize", c)
                /\ c.status \in {"succeeded_charged"} \cup Cancelled
    <3>1. credit = [credit EXCEPT ![r] = credit[r]]
      BY <1>0
    <3>2. CASE settle_candidate(w, r)
      BY <3>1, <3>2 DEF settle_candidate
    <3>3. CASE cancel_candidate(w, r)
      <4>1. \A c \in Cancels(credit[r]) : c.status \in Cancelled
        BY <1>1, <2>1, CreditMoves
      <4>2. QED
        BY <3>1, <3>3, <4>1 DEF cancel_candidate
    <3>4. QED
      BY <1>8, <3>2, <3>3
  <2>3. credit'[r] = c /\ \A x \in Requests \ {r} : credit'[x] = credit[x]
    BY <1>0, <2>2
  <2>4. /\ Moves(r) /\ RowAgrees(r)'
        /\ credit[r].status = "none" => credit'[r] = credit[r]
    <3>1. Moves(r) /\ RowAgrees(r)'
      BY <1>1, <2>1, <2>3, CreditAnswers DEF TypeInv
    <3>2. credit[r].status = "none" => credit'[r] = credit[r]
      BY <1>1, <2>1, <2>2, <2>3, CreditMoves
    <3>3. QED
      BY <3>1, <3>2
  <2>5. ASSUME GotoStep(w, r, "finalize", c), c.status \in {"succeeded_charged"} \cup Cancelled
        PROVE  CandidateAgrees(w, r)'
    <3>1. /\ worker'[w][r].recorded = worker[w][r].recorded
          /\ worker'[w][r].usage = worker[w][r].usage
          /\ worker'[w][r].step = "finalize" /\ worker'[w][r].reply = c
      BY <1>4, <2>1, <2>5
    <3>2. CandidateAgrees(w, r)
      BY <1>1, <2>1
    <3>3. QED
      BY <1>0, <2>1, <2>3, <2>5, <3>1, <3>2 DEF CandidateAgrees
  <2>6. \/ Skip(w, r)
        \/ \E step, reply : GotoStep(w, r, step, reply) /\ CandidateAgrees(w, r)'
    BY <2>2, <2>5
  <2>7. QED
    BY <1>2, <2>1, <2>3, <2>4, <2>6
<1>9. ASSUME NEW r \in Requests, _finalize(w, r) PROVE ChatInv' /\ Forward
  <2> DEFINE reply == worker[w][r].reply
             succeeded == reply.status = "succeeded_charged"
             records == succeeded \/ reply.usage > 0 \/ worker[w][r].recorded
             row == IF records THEN WithUsage(operation[r], reply.usage) ELSE operation[r]
             outcome == IF succeeded THEN Completed ELSE RecoveredCancelled
  <2>1. r \in DOMAIN worker[w] /\ credit' = credit /\ Skip(w, r)
    BY <1>9 DEF _finalize, InStep
  <2>2. reply = credit[r] /\ credit[r].status \in {"succeeded_charged"} \cup Cancelled
    BY <1>1, <1>9, <2>1 DEF _finalize, InStep, CandidateAgrees
  <2>3. CASE /\ Pending(r)
             /\ records => UsageAccepted(operation[r], reply.usage)
             /\ Commit(r, WithOutcome(row, outcome, reply.charged))
    <3>1. /\ operation'[r] = WithOutcome(row, outcome, credit[r].charged)
          /\ \A x \in Requests \ {r} : operation'[x] = operation[x]
      BY <1>0, <2>2, <2>3 DEF Commit
    <3>2. operation[r].status = "pending" /\ credit[r].usage \in Nat
      BY <1>1, <2>1, <2>3 DEF Pending, Credit
    <3>3. /\ row \in Operation /\ row.status = "pending" /\ row.linked = operation[r].linked
          /\ records => row.recorded /\ row.usage = credit[r].usage
          /\ operation[r].recorded => row.recorded /\ row.usage = operation[r].usage
      <4>1. CASE records
        <5>1. row = WithUsage(operation[r], credit[r].usage)
          BY <2>2, <4>1
        <5>2. WithUsage(operation[r], credit[r].usage) \in Operation
          BY <1>1, <2>1, <3>2, RowTypes, OutcomeTypes, PlanTypes
        <5>3. operation[r].recorded => operation[r].usage = credit[r].usage
          BY <2>2, <2>3, <4>1 DEF UsageAccepted
        <5>4. QED
          BY <1>1, <2>1, <3>2, <5>1, <5>2, <5>3, RowUpdates
      <4>2. CASE ~records
        BY <1>1, <2>1, <3>2, <4>2
      <4>3. QED
        BY <4>1, <4>2
    <3>4. /\ outcome \in Outcomes /\ outcome.status \in Final
          /\ outcome.status = "completed" => succeeded
      BY OutcomeTypes, OutcomeStatus, PlanTypes DEF Final
    <3>5. credit[r].status # "pending"
      BY <2>2 DEF Cancelled
    <3>6. credit'[r] = credit[r]
      BY <2>1
    <3>7. outcome.status = "completed" =>
            credit[r].status = "succeeded_charged" /\ row.recorded /\ row.usage = credit[r].usage
      BY <2>2, <3>3, <3>4
    <3>8. Moves(r) /\ RowAgrees(r)'
      <4> HIDE DEF row, outcome
      <4>1. QED
        BY <1>1, <2>1, <2>3, <3>1, <3>3, <3>4, <3>5, <3>6, <3>7, EndRow
    <3>9. QED
      BY <1>2, <2>1, <3>1, <3>8
  <2>4. CASE UNCHANGED operation
    BY <1>2, <1>3, <2>1, <2>4
  <2>5. QED
    BY <1>9, <2>3, <2>4 DEF _finalize
<1>10. ASSUME NEW r \in Requests, _finalize_without_credit(w, r) PROVE ChatInv' /\ Forward
  <2>1. r \in DOMAIN worker[w] /\ credit' = credit /\ Skip(w, r)
    BY <1>10 DEF _finalize_without_credit, InStep
  <2>2. Timely => credit[r].status = "none" /\ credit[r].charged = 0
    BY <1>1, <1>10, <2>1 DEF _finalize_without_credit, InStep, CandidateAgrees, RowAgrees, NoCredit
  <2>3. CASE Pending(r) /\ Commit(r, WithOutcome(operation[r], RecoveredNoCredit, 0))
    <3>1. /\ operation'[r] = WithOutcome(operation[r], RecoveredNoCredit, 0)
          /\ \A x \in Requests \ {r} : operation'[x] = operation[x]
      BY <1>0, <2>2, <2>3 DEF Commit
    <3>2. /\ operation[r].status = "pending" /\ credit'[r] = credit[r]
          /\ Timely => credit[r].status # "pending" /\ 0 = credit[r].charged
      BY <2>1, <2>2, <2>3 DEF Pending
    <3>3. /\ RecoveredNoCredit \in Outcomes /\ RecoveredNoCredit.status \in Final
          /\ RecoveredNoCredit.status # "completed"
      BY OutcomeTypes, OutcomeStatus DEF Final
    <3>4. Moves(r) /\ RowAgrees(r)'
      BY <1>1, <2>1, <2>3, <3>1, <3>2, <3>3, EndRow
    <3>5. QED
      BY <1>2, <2>1, <3>1, <3>4
  <2>4. CASE UNCHANGED operation
    BY <1>2, <1>3, <2>1, <2>4
  <2>5. QED
    BY <1>10, <2>3, <2>4 DEF _finalize_without_credit
<1>11. QED
  BY <1>5, <1>6, <1>7, <1>8, <1>9, <1>10 DEF Recover

\* Nothing has happened yet.
LEMMA ChatInvInit == Init => ChatInv
<1> SUFFICES ASSUME Init PROVE ChatInv
  OBVIOUS
<1>1. /\ NoOperation.status = "none" /\ ~NoOperation.linked /\ ~NoOperation.stale
      /\ NoCredit.status = "none"
  BY DEF NoOperation, NoCredit
<1>2. ASSUME NEW r \in Requests
      PROVE  /\ handler[r].at = "start" /\ Fresh(handler[r])
             /\ operation[r] = NoOperation /\ credit[r] = NoCredit
  BY DEF Init, Fresh
<1>3. ASSUME NEW r \in Requests PROVE HandlerAgrees(r) /\ RowAgrees(r)
  BY <1>1, <1>2 DEF HandlerAgrees, RowAgrees, Fresh, Terminal, Final
<1>4. \A w \in Workers : DOMAIN worker[w] = {}
  BY DEF Init, NoBatch
<1>5. IdsAreUnique
  BY <1>1, <1>2, Zenon DEF IdsAreUnique
<1>6. QED
  BY <1>3, <1>4, <1>5 DEF ChatInv

\* The invariant through every step, and what no step does.
LEMMA ChatInvStep == TypeInv /\ ChatInv /\ [Next]_vars => ChatInv' /\ Forward
<1> SUFFICES ASSUME TypeInv, ChatInv, [Next]_vars PROVE ChatInv' /\ Forward
  OBVIOUS
<1>1. CASE UNCHANGED vars
  <2>1. Forward
    BY <1>1 DEF vars, Forward, Moves
  <2>2. ChatInv'
    BY <1>1 DEF vars, ChatInv, HandlerAgrees, RowAgrees, CandidateAgrees, IdsAreUnique, Terminal
  <2>3. QED
    BY <2>1, <2>2
<1>2. CASE Next
  BY <1>2, ChatInvHandler, ChatInvRecovery DEF Next
<1>3. QED
  BY <1>1, <1>2

\* The invariant holds in every behaviour.
LEMMA ChatInvHolds == Spec => [](TypeInv /\ ChatInv)
<1>1. Init => TypeInv /\ ChatInv
  BY TypeInit, ChatInvInit
<1>2. TypeInv /\ ChatInv /\ [Next]_vars => (TypeInv /\ ChatInv)'
  BY TypeStep, ChatInvStep
<1>3. QED
  BY <1>1, <1>2, PTL DEF Spec

-----------------------------------------------------------------------------
(* What follows from it *)

\* Whoever completes an operation, its handler or a recovery pass, finds its
\* credit settled, for exactly the usage of the row, however the two interleave.
THEOREM CompletionFollowsSettlement == Spec => []CompletedIsSettled
<1>1. ChatInv => CompletedIsSettled
  BY DEF ChatInv, RowAgrees, CompletedIsSettled
<1>2. QED
  BY <1>1, ChatInvHolds, PTL

\* A 200 body or [DONE] goes out only for an operation that is completed with the
\* usage the handler has seen, and that stays so.
THEOREM SuccessIsCommitted == Spec => []SuccessAfterCommit
<1>1. ChatInv => SuccessAfterCommit
  BY DEF ChatInv, HandlerAgrees, SuccessAfterCommit
<1>2. QED
  BY <1>1, ChatInvHolds, PTL

\* A request ID reaches the provider at most once, and only with its credit on
\* record: whatever is retried, interrupted or recovered.
THEOREM ProviderIsCalledOnce == Spec => []ProviderCalledOnce
<1>1. ChatInv => ProviderCalledOnce
  <2> SUFFICES ASSUME ChatInv PROVE ProviderCalledOnce
    OBVIOUS
  <2>1. ASSUME NEW r \in Requests, handler[r].called
        PROVE  operation[r].linked /\ operation[r].status # "none" /\ credit[r].status # "none"
    BY <2>1 DEF ChatInv, HandlerAgrees, RowAgrees
  <2>2. QED
    BY <2>1 DEF ChatInv, IdsAreUnique, ProviderCalledOnce
<1>2. QED
  BY <1>1, ChatInvHolds, PTL

\* A terminal event and a settled or cancelled credit are final, a row forgets
\* neither its credit nor its usage, and no credit comes out of nowhere once its
\* handler is past reserving it.
THEOREM NoRequestRunsBack == Spec => [][Forward]_vars
<1>1. TypeInv /\ ChatInv /\ [Next]_vars => [Forward]_vars
  BY ChatInvStep
<1>2. QED
  BY <1>1, ChatInvHolds, PTL DEF Spec

\* Where reserving a credit takes less than stale_after_seconds, a terminal event
\* charges what Open WebUI charged, whoever wrote it.
THEOREM ChargesMatchCredits == ASSUME Timely PROVE Spec => []ChargeMatchesCredit
<1>1. ChatInv => ChargeMatchesCredit
  BY DEF ChatInv, RowAgrees, ChargeMatchesCredit
<1>2. QED
  BY <1>1, ChatInvHolds, PTL

\* Under the same assumption no credit is left pending by a terminal operation.
THEOREM NoCreditIsOrphaned == ASSUME Timely PROVE Spec => []NoOrphanCredit
<1>1. ChatInv => NoOrphanCredit
  BY DEF ChatInv, RowAgrees, NoOrphanCredit
<1>2. QED
  BY <1>1, ChatInvHolds, PTL

=============================================================================
