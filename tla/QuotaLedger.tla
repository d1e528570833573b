----------------------------- MODULE QuotaLedger -----------------------------
(***************************************************************************)
(* The SQL quota ledger of the control plane (services/quota.py): the      *)
(* tables api_call_operation, api_client_quota_usage and api_call_event.   *)
(*                                                                         *)
(* Every function of quota.py runs inside one SQL transaction of its       *)
(* caller, takes its rows with SELECT ... FOR UPDATE and either commits    *)
(* all of its writes or, when it raises, none of them.  So one committed   *)
(* transaction is one action here and a refused one is no step at all.     *)
(* The order of the row locks inside a transaction is not modelled here.   *)
(*                                                                         *)
(* A table is a function whose domain is the set of rows inserted so far.  *)
(* Timestamps are parameters: every process reads a clock of its own.      *)
(***************************************************************************)
EXTENDS Integers, FiniteSets

CONSTANTS
  Clients,       \* ids of API callers
  Operations,    \* server-generated operation ids
  RequestIds,    \* caller-signed request ids, the idempotency keys
  Models,        \* model ids
  Settlements,   \* Open WebUI settlement ids
  Policies,      \* the caller policies an administrator may put in force
  Codes,         \* business codes of terminal evidence
  Terminals,     \* the terminal evidence (status, code, charge) of callers
  Sizes,         \* token reservations a request may ask for
  Usages,        \* <<prompt, completion>> token counts a provider may report
  MaxTime,       \* last second of the modelled clock
  SecondsPerDay, \* 86_400 in the code
  BigIntMax,     \* SIGNED_BIGINT_MAX
  BatchSize,     \* events one retention purge deletes at most
  MaxAggregateRows, \* max_aggregate_rows: events a summary may cover
  NoLimit,       \* a quota ceiling that is not set
  NoSettlement   \* credit_settlement_id before the credit is reserved

Times == 0..MaxTime
Limit == Nat \cup {NoLimit}
Ceiling == [requests : Limit, tokens : Limit]

Endpoints == {"chat.completions", "models.read", "usage.read", "health.read"}

Policy ==
  [status : {"active", "disabled"}, credential : {"active", "revoked"},
   expires_at : Nat, endpoints : SUBSET Endpoints, models : SUBSET Models,
   daily : Ceiling, lifetime : Ceiling]

Terminal ==
  [status : {"completed", "rejected", "abandoned"}, code : Codes, charged : Nat]

ASSUME LedgerAssumption ==
  /\ MaxTime \in Nat
  /\ SecondsPerDay \in Nat \ {0}
  /\ BigIntMax \in Nat
  /\ {BatchSize, MaxAggregateRows} \subseteq Nat \ {0}
  /\ Sizes \subseteq Nat \ {0}
  /\ Usages \subseteq Nat \X Nat
  /\ Policies \subseteq Policy
  /\ Terminals \subseteq Terminal
  /\ NoLimit \notin Nat
  /\ NoSettlement \notin Settlements

VARIABLES
  policy,     \* caller and credential rows, as far as admission reads them
  operation,  \* api_call_operation, by operation id
  quota,      \* api_client_quota_usage, by <<client, scope, period start>>
  event       \* api_call_event, by operation id

vars == <<policy, operation, quota, event>>

-----------------------------------------------------------------------------
(* Rows and keys *)

utc_day_start(t) == t - (t % SecondsPerDay)

\* The two quota rows of a request that started at t.
QuotaKeys(c, t) == {<<c, "daily", utc_day_start(t)>>, <<c, "lifetime", 0>>}

Scopes == {"daily", "lifetime"}
QuotaKey == Clients \X Scopes \X Nat
QuotaRow == [requests : Nat, reserved : Nat, consumed : Nat]
EmptyRow == [requests |-> 0, reserved |-> 0, consumed |-> 0]

\* The row _insert_quota_row_if_missing leaves behind.
Row(k) == IF k \in DOMAIN quota THEN quota[k] ELSE EmptyRow

Total(usage) == usage[1] + usage[2]
NoUsage == <<0, 0>>

OperationRow ==
  [client : Clients, request_id : RequestIds, model : Models,
   status : {"pending", "completed", "rejected", "abandoned"},
   code : Codes \cup {""}, reserved : Nat,
   usage : Nat \X Nat, usage_recorded : BOOLEAN,
   settlement : Settlements \cup {NoSettlement},
   started_at : Times, updated_at : Times]

EventRow ==
  [status : {"completed", "rejected", "abandoned"}, code : Codes,
   charged : Nat, usage : Nat \X Nat, overrun : BOOLEAN,
   daily_requests_after : Nat, daily_tokens_after : Nat,
   total_requests_after : Nat, total_tokens_after : Nat, created_at : Times]

IsTable(f, Key, Value) == DOMAIN f \subseteq Key /\ f \in [DOMAIN f -> Value]

Insert(f, k, v) == [x \in DOMAIN f \cup {k} |-> IF x = k THEN v ELSE f[x]]

\* Mutant: a transaction that does not look at the status of the row it locks.
Mutant_AnyStatus(o) == o \in DOMAIN operation

Pending(o) == o \in DOMAIN operation /\ operation[o].status = "pending"

-----------------------------------------------------------------------------
(* Admission *)

Ceilings(p, k) == IF k[2] = "daily" THEN p.daily ELSE p.lifetime

\* Mutant: tokens reserved by requests in flight do not count.
Mutant_IgnoresReserved(row, ceiling, reserved_tokens) ==
  LET projected == row.consumed + reserved_tokens
  IN  /\ ceiling.requests # NoLimit => row.requests + 1 <= ceiling.requests
      /\ ceiling.tokens # NoLimit => projected <= ceiling.tokens
      /\ projected <= BigIntMax

\* Mutant: only the configured ceilings are checked.
Mutant_NoColumnLimit(row, ceiling, reserved_tokens) ==
  /\ ceiling.requests # NoLimit => row.requests + 1 <= ceiling.requests
  /\ ceiling.tokens # NoLimit => row.consumed + row.reserved + reserved_tokens <= ceiling.tokens

_check_quota_limit(row, ceiling, reserved_tokens) ==
  LET projected == row.consumed + row.reserved + reserved_tokens
  IN  /\ ceiling.requests # NoLimit => row.requests + 1 <= ceiling.requests
      /\ ceiling.tokens # NoLimit => projected <= ceiling.tokens
      /\ projected <= BigIntMax

\* The caller and its credential, re-read under lock at reservation time.
CallerAdmitted(c, m, t) ==
  /\ policy[c].status = "active"
  /\ policy[c].credential = "active"
  /\ policy[c].expires_at > t
  /\ "chat.completions" \in policy[c].endpoints
  /\ m \in policy[c].models

\* Mutant: a request id is free again once its operation is terminal.
Mutant_PendingOnly(c, q) ==
  \E x \in DOMAIN operation :
    /\ operation[x].client = c /\ operation[x].request_id = q
    /\ operation[x].status = "pending"

_raise_for_existing_operation(c, q) ==
  \E x \in DOMAIN operation :
    operation[x].client = c /\ operation[x].request_id = q

NewOperation(c, q, m, n, t) ==
  [client |-> c, request_id |-> q, model |-> m, status |-> "pending",
   code |-> "", reserved |-> n, usage |-> NoUsage, usage_recorded |-> FALSE,
   settlement |-> NoSettlement, started_at |-> t, updated_at |-> t]

reserve_operation(o, c, q, m, n, t) ==
  /\ CallerAdmitted(c, m, t)
  /\ ~_raise_for_existing_operation(c, q)
  /\ o \notin DOMAIN operation
  /\ \A k \in QuotaKeys(c, t) : _check_quota_limit(Row(k), Ceilings(policy[c], k), n)
  /\ quota' = [k \in DOMAIN quota \cup QuotaKeys(c, t) |->
                 IF k \in QuotaKeys(c, t)
                   THEN [requests |-> Row(k).requests + 1,
                         reserved |-> Row(k).reserved + n,
                         consumed |-> Row(k).consumed]
                   ELSE quota[k]]
  /\ operation' = Insert(operation, o, NewOperation(c, q, m, n, t))
  /\ UNCHANGED <<policy, event>>

-----------------------------------------------------------------------------
(* Evidence attached to a pending operation *)

record_credit_reservation(o, s, t) ==
  /\ Pending(o)
  /\ operation[o].settlement = NoSettlement
  /\ operation' = [operation EXCEPT ![o] =
                     [@ EXCEPT !.settlement = s, !.updated_at = t]]
  /\ UNCHANGED <<policy, quota, event>>

\* Mutant: a usage report that arrives after the terminal event is accepted.
Mutant_LateUsage(o, u, t) ==
  /\ Total(u) <= BigIntMax
  /\ operation' = [operation EXCEPT ![o] =
                     [@ EXCEPT !.usage = u, !.usage_recorded = TRUE,
                               !.updated_at = t]]
  /\ UNCHANGED <<policy, quota, event>>

record_provider_usage(o, u, t) ==
  /\ Total(u) <= BigIntMax
  /\ Pending(o)
  /\ operation[o].usage_recorded => operation[o].usage = u
  /\ operation' = [operation EXCEPT ![o] =
                     [@ EXCEPT !.usage = u, !.usage_recorded = TRUE,
                               !.updated_at = t]]
  /\ UNCHANGED <<policy, quota, event>>

Later(t1, t2) == IF t1 > t2 THEN t1 ELSE t2

\* Mutant: a heartbeat touches a terminal operation.
Mutant_TouchAny(o, t) ==
  /\ operation' = [operation EXCEPT ![o] =
                     [@ EXCEPT !.updated_at = Later(t, operation[o].updated_at)]]
  /\ UNCHANGED <<policy, quota, event>>

touch_pending_operation(o, t) ==
  /\ Pending(o)
  /\ operation' = [operation EXCEPT ![o] =
                     [@ EXCEPT !.updated_at = Later(t, operation[o].updated_at)]]
  /\ UNCHANGED <<policy, quota, event>>

-----------------------------------------------------------------------------
(* The terminal transaction *)

\* Mutants: only the lifetime row is released; the tokens used are released
\* instead of the tokens reserved.
Mutant_LifetimeOnly(op) ==
  [k \in DOMAIN quota |->
     IF k = <<op.client, "lifetime", 0>>
       THEN [requests |-> quota[k].requests,
             reserved |-> quota[k].reserved - op.reserved,
             consumed |-> quota[k].consumed + Total(op.usage)]
       ELSE quota[k]]

Mutant_ReleasesUsed(op) ==
  LET K == QuotaKeys(op.client, op.started_at)
  IN  [k \in DOMAIN quota |->
         IF k \in K
           THEN [requests |-> quota[k].requests,
                 reserved |-> quota[k].reserved - Total(op.usage),
                 consumed |-> quota[k].consumed + Total(op.usage)]
           ELSE quota[k]]

\* The quota rows with the operation's reservation released and its usage
\* charged.  The rows are those of the day the operation STARTED.
Released(op) ==
  LET K == QuotaKeys(op.client, op.started_at)
  IN  [k \in DOMAIN quota |->
         IF k \in K
           THEN [requests |-> quota[k].requests,
                 reserved |-> quota[k].reserved - op.reserved,
                 consumed |-> quota[k].consumed + Total(op.usage)]
           ELSE quota[k]]

\* Mutant: the running totals are those read before the update.
Mutant_TotalsBefore(op, tm, rows, t) ==
  LET daily    == quota[<<op.client, "daily", utc_day_start(op.started_at)>>]
      lifetime == quota[<<op.client, "lifetime", 0>>]
  IN  [status |-> tm.status, code |-> tm.code, charged |-> tm.charged,
       usage |-> op.usage, overrun |-> Total(op.usage) > op.reserved,
       daily_requests_after |-> daily.requests,
       daily_tokens_after |-> daily.consumed,
       total_requests_after |-> lifetime.requests,
       total_tokens_after |-> lifetime.consumed, created_at |-> t]

TerminalEvent(op, tm, rows, t) ==
  LET daily    == rows[<<op.client, "daily", utc_day_start(op.started_at)>>]
      lifetime == rows[<<op.client, "lifetime", 0>>]
  IN  [status |-> tm.status, code |-> tm.code, charged |-> tm.charged,
       usage |-> op.usage, overrun |-> Total(op.usage) > op.reserved,
       daily_requests_after |-> daily.requests,
       daily_tokens_after |-> daily.consumed,
       total_requests_after |-> lifetime.requests,
       total_tokens_after |-> lifetime.consumed, created_at |-> t]

\* Why finalize_operation accepts a pending operation.
Finalizable(op) ==
  /\ QuotaKeys(op.client, op.started_at) \subseteq DOMAIN quota
  /\ \A k \in QuotaKeys(op.client, op.started_at) :
       /\ quota[k].reserved >= op.reserved
       /\ quota[k].consumed + Total(op.usage) <= BigIntMax

finalize_operation(o, tm, t) ==
  /\ Pending(o)
  /\ Finalizable(operation[o])
  /\ t >= operation[o].started_at
  /\ quota' = Released(operation[o])
  /\ operation' = [operation EXCEPT ![o] =
                     [@ EXCEPT !.status = tm.status, !.code = tm.code,
                               !.updated_at = t]]
  /\ event' = Insert(event, o, TerminalEvent(operation[o], tm, quota', t))
  /\ UNCHANGED policy

-----------------------------------------------------------------------------
(* The usage report a caller reads (services/metadata.py) *)

_remaining(limit, used) ==
  IF limit = NoLimit THEN NoLimit ELSE IF limit > used THEN limit - used ELSE 0

\* Mutant: tokens in flight are still reported as remaining.
Mutant_ReportsConsumed(p, c, t) ==
  [k \in QuotaKeys(c, t) |->
     [requests |-> _remaining(Ceilings(p, k).requests, Row(k).requests),
      tokens |-> _remaining(Ceilings(p, k).tokens, Row(k).consumed)]]

\* What remains of the current day and of the caller's lifetime.  The policy
\* p was loaded in an earlier session than the rows, before the QPS window.
get_usage(p, c, t) ==
  [k \in QuotaKeys(c, t) |->
     [requests |-> _remaining(Ceilings(p, k).requests, Row(k).requests),
      tokens |-> _remaining(Ceilings(p, k).tokens, Row(k).consumed + Row(k).reserved)]]

-----------------------------------------------------------------------------
(* Administration *)

\* Create, update, disable, rotate or revoke: whatever the administrator
\* commits is a new policy for later admissions.
SetPolicy(c, p) ==
  /\ policy' = [policy EXCEPT ![c] = p]
  /\ UNCHANGED <<operation, quota, event>>

\* One retention purge: the oldest events before the cutoff, at most a batch.
\* Operations and quota rows are never deleted.
PurgeEvents(cutoff) ==
  LET eligible == {o \in DOMAIN event : event[o].created_at < cutoff}
  IN  \E S \in SUBSET eligible :
        /\ S # {}
        /\ Cardinality(S) <= BatchSize
        /\ S # eligible => Cardinality(S) = BatchSize
        /\ \A o \in S, x \in eligible \ S : event[o].created_at <= event[x].created_at
        /\ event' = [o \in DOMAIN event \ S |-> event[o]]
        /\ UNCHANGED <<policy, operation, quota>>

-----------------------------------------------------------------------------

Init ==
  /\ policy \in [Clients -> Policies]
  /\ operation = [o \in {} |-> {}]
  /\ quota = [k \in {} |-> EmptyRow]
  /\ event = [o \in {} |-> {}]

\* Callers never pass a clock reading from before the operation's start.
Since(o) == operation[o].started_at .. MaxTime

Next ==
  \/ \E o \in Operations, c \in Clients, q \in RequestIds, m \in Models,
        n \in Sizes, t \in Times : reserve_operation(o, c, q, m, n, t)
  \/ \E o \in DOMAIN operation, s \in Settlements : \E t \in Since(o) :
        record_credit_reservation(o, s, t)
  \/ \E o \in DOMAIN operation, u \in Usages : \E t \in Since(o) :
        record_provider_usage(o, u, t)
  \/ \E o \in DOMAIN operation : \E t \in Since(o) : touch_pending_operation(o, t)
  \/ \E o \in DOMAIN operation, tm \in Terminals, t \in Times :
        finalize_operation(o, tm, t)
  \/ \E c \in Clients, p \in Policies : SetPolicy(c, p)
  \/ \E cutoff \in Times : PurgeEvents(cutoff)

Spec == Init /\ [][Next]_vars

-----------------------------------------------------------------------------
(* What the ledger's counters ought to be, recomputed from the operations *)

\* The sum of f over S, as the number of elements of a disjoint union: this
\* form needs no recursion.
Cells(f, S) == UNION {{x} \X (1..f[x]) : x \in S}
Sum(f, S) == Cardinality(Cells(f, S))

OperationsIn(k) ==
  {o \in DOMAIN operation :
     k \in QuotaKeys(operation[o].client, operation[o].started_at)}
PendingIn(k) == {o \in OperationsIn(k) : operation[o].status = "pending"}
TerminalIn(k) == {o \in OperationsIn(k) : operation[o].status # "pending"}

ReservedBy == [o \in DOMAIN operation |-> operation[o].reserved]
ConsumedBy == [o \in DOMAIN operation |-> Total(operation[o].usage)]

-----------------------------------------------------------------------------
(* The administrators' event summary (services/observability.py) *)

\* Mutant: the end of the queried range is taken to be outside of it.
Mutant_OpenEnd(c, created_from, created_to) ==
  {o \in DOMAIN event : /\ operation[o].client = c
                        /\ event[o].created_at >= created_from
                        /\ event[o].created_at < created_to}

\* The events of a caller in a range of time that a query selects.
_conditions(c, created_from, created_to) ==
  {o \in DOMAIN event : /\ operation[o].client = c
                        /\ event[o].created_at >= created_from
                        /\ event[o].created_at <= created_to}

\* A query that selects more events is refused, by its count or, if events
\* came in between, by the rows it reads.
TooBroad(rows) == Cardinality(rows) > MaxAggregateRows

\* The totals and, per bucket of time with an event in it, the trend.
summarize(rows, bucket_seconds) ==
  LET BucketStart(o) == event[o].created_at - (event[o].created_at % bucket_seconds)
      tokens == [o \in rows |-> Total(event[o].usage)]
      charged == [o \in rows |-> event[o].charged]
      Success(S) == {o \in S : event[o].status = "completed"}
      Figures(S) == [request_count |-> Cardinality(S),
                     success_count |-> Cardinality(Success(S)),
                     failure_count |-> Cardinality(S \ Success(S)),
                     total_tokens |-> Sum(tokens, S),
                     charged_micro |-> Sum(charged, S)]
  IN  [totals |-> Figures(rows),
       quota_overrun_count |-> Cardinality({o \in rows : event[o].overrun}),
       trend |-> [b \in {BucketStart(o) : o \in rows} |->
                    Figures({o \in rows : BucketStart(o) = b})]]

-----------------------------------------------------------------------------
(* Properties *)

\* Type correctness of the four tables: every row has the shape its columns
\* allow, and all counters are nonnegative (the CHECK constraints).
TypeOK ==
  /\ policy \in [Clients -> Policy]
  /\ IsTable(operation, Operations, OperationRow)
  /\ IsTable(quota, QuotaKey, QuotaRow)
  /\ IsTable(event, Operations, EventRow)

\* Every daily and lifetime row equals what the operations imply: one request
\* per operation ever admitted in the period, the reservations of the pending
\* ones, the reported usage of the terminal ones.  No sequence of admissions,
\* late usage reports, finalisations across midnight or purges makes
\* reserve_operation and finalize_operation drift apart.
LedgerBalanced ==
  \A k \in DOMAIN quota :
    /\ quota[k].requests = Cardinality(OperationsIn(k))
    /\ quota[k].reserved = Sum(ReservedBy, PendingIn(k))
    /\ quota[k].consumed = Sum(ConsumedBy, TerminalIn(k))

\* Both rows of every operation ever admitted exist: finalize_operation, which
\* does not create rows, finds them.
RowsExist ==
  \A o \in DOMAIN operation :
    QuotaKeys(operation[o].client, operation[o].started_at) \subseteq DOMAIN quota

\* The inductive strengthening of LedgerBalanced: an operation's rows must
\* exist for its finalisation to be seen by them, and a missing row must have
\* no operations for _insert_quota_row_if_missing to be right about zero.
LedgerInv ==
  /\ TypeOK
  /\ IsFiniteSet(DOMAIN operation)
  /\ RowsExist
  /\ LedgerBalanced

\* finalize_operation never raises "quota rows are unavailable" or "quota
\* reservation is inconsistent": both rows of a pending operation exist and
\* still hold its reservation, however many others were finalised meanwhile.
ReservationCovered ==
  \A o \in DOMAIN operation :
    operation[o].status = "pending" =>
      \A k \in QuotaKeys(operation[o].client, operation[o].started_at) :
        k \in DOMAIN quota /\ quota[k].reserved >= operation[o].reserved

\* A caller-signed request ID admits at most one operation for ever, so a
\* retry, whatever became of the first try, can never be charged again.
OneOperationPerRequestId ==
  \A o1, o2 \in DOMAIN operation :
    operation[o1].client = operation[o2].client
    /\ operation[o1].request_id = operation[o2].request_id => o1 = o2

\* The running totals written into a caller's terminal events are those of
\* some serial order: of any two events, one counts the other's tokens and its
\* own on top.  A total computed from rows another finalisation changed
\* meanwhile would break it.
RunningTotalsAreSerial ==
  \A o1, o2 \in DOMAIN event :
    o1 # o2 /\ operation[o1].client = operation[o2].client =>
      \/ event[o2].total_tokens_after >= event[o1].total_tokens_after + Total(event[o2].usage)
      \/ event[o1].total_tokens_after >= event[o2].total_tokens_after + Total(event[o1].usage)

\* An event exists only for a terminal operation and tells the same story:
\* status, code and usage of event and operation agree, although usage is
\* recorded by earlier transactions than the one that writes the event.
EventMatchesOperation ==
  \A o \in DOMAIN event :
    /\ o \in DOMAIN operation
    /\ operation[o].status = event[o].status
    /\ operation[o].code = event[o].code
    /\ operation[o].usage = event[o].usage

\* A terminal operation is never changed or deleted again, by a late usage
\* report, a heartbeat, a second finalisation or a retention purge, and its
\* event is never rewritten.
TerminalIsFinal ==
  [][/\ \A o \in DOMAIN operation :
          /\ o \in DOMAIN operation'
          /\ operation[o].status # "pending" => operation'[o] = operation[o]
     /\ \A o \in DOMAIN event \cap DOMAIN event' : event'[o] = event[o]]_vars

\* The two BIGINT columns of a row have room for everything in flight, unless
\* a provider reported more than was reserved: consumed plus reserved stays in
\* range through any order of finalisations, so finalize_operation does not
\* raise for ever over a total that no column holds.
OverflowOnlyByOverrun ==
  \A k \in DOMAIN quota :
    \/ \E o \in OperationsIn(k) : Total(operation[o].usage) > operation[o].reserved
    \/ quota[k].consumed + quota[k].reserved <= BigIntMax

\* The usage report and the admission of quota.py, written apart from each
\* other, agree in every state, with reservations in flight and overruns: a
\* request is within the quotas exactly if the report leaves room for it.
\* The report may carry the ceilings of a policy that has been replaced since:
\* it then says what admission would say under those.
UsageReportMatchesAdmission ==
  \A p \in Policies, c \in Clients, t \in Times, n \in Sizes :
    (\A k \in QuotaKeys(c, t) : _check_quota_limit(Row(k), Ceilings(p, k), n)) <=>
      \A k \in QuotaKeys(c, t) :
        LET left == get_usage(p, c, t)[k]
        IN  /\ left.requests # NoLimit => left.requests >= 1
            /\ left.tokens # NoLimit => left.tokens >= n
            /\ Row(k).consumed + Row(k).reserved + n <= BigIntMax

\* The administrators' summary of a caller's events, which reads other rows,
\* is refused or agrees with the caller's lifetime row: until an event is purged both know
\* the same tokens and requests, afterwards the summary never knows more; and
\* the trend loses no event at the edge of a bucket.
SummaryMatchesLedger ==
  \A c \in Clients :
    LET k == <<c, "lifetime", 0>>
        rows == _conditions(c, 0, MaxTime)
        summary == summarize(rows, SecondsPerDay)
        trend == summary.trend
    IN  ~TooBroad(rows) =>
        /\ summary.totals.total_tokens <= Row(k).consumed
        /\ TerminalIn(k) \subseteq DOMAIN event =>
             /\ summary.totals.total_tokens = Row(k).consumed
             /\ summary.totals.request_count + Cardinality(PendingIn(k)) = Row(k).requests
        /\ Sum([b \in DOMAIN trend |-> trend[b].total_tokens], DOMAIN trend)
             = summary.totals.total_tokens

\* The operations as TokenBudget sees them.
Account ==
  [o \in DOMAIN operation |->
     [client |-> operation[o].client, request_id |-> operation[o].request_id,
      started_at |-> operation[o].started_at, reserved |-> operation[o].reserved,
      used |-> Total(operation[o].usage), open |-> operation[o].status = "pending"]]

CeilingsInForce ==
  [c \in Clients |-> [daily |-> policy[c].daily, lifetime |-> policy[c].lifetime]]

Budget == INSTANCE TokenBudget WITH account <- Account, ceiling <- CeilingsInForce

\* The ledger implements TokenBudget: although it decides from counters that
\* other transactions adjust, every admission is one that the operations of
\* the day and of the caller's life, counted and added up afresh, can afford;
\* usage is never revised and a closed operation never changes again.
ImplementsTokenBudget == Budget!Spec

=============================================================================
