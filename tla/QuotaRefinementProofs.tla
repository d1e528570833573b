------------------------ MODULE QuotaRefinementProofs ------------------------
(***************************************************************************)
(* The remaining invariants of QuotaLedger, and that it implements         *)
(* TokenBudget, for every value of its constants.  QuotaLedgerProofs has   *)
(* related the counters of the quota rows to the operations (LedgerInv);   *)
(* here that turns the comparison of _check_quota_limit into one of the    *)
(* operations themselves.                                                  *)
(***************************************************************************)
EXTENDS QuotaLedgerProofs

-----------------------------------------------------------------------------
(* What the transactions of quota.py do to the operation table *)

\* Everything of an operation that the properties below look at is kept.
SameOperation(x) ==
  /\ operation'[x].client = operation[x].client
  /\ operation'[x].request_id = operation[x].request_id
  /\ operation'[x].started_at = operation[x].started_at
  /\ operation'[x].reserved = operation[x].reserved

SameUsage(x) ==
  /\ operation'[x].usage = operation[x].usage
  /\ operation'[x].usage_recorded = operation[x].usage_recorded

SameStatus(x) == operation'[x].status = operation[x].status

\* A step that changes nothing but links, timestamps, policies and events.
Neutral ==
  /\ UNCHANGED quota
  /\ DOMAIN operation' = DOMAIN operation
  /\ \A x \in DOMAIN operation : SameOperation(x) /\ SameUsage(x) /\ SameStatus(x)

\* The usage u of the pending operation o becomes known.
Reports(o, u) ==
  /\ u \in Nat \X Nat
  /\ o \in DOMAIN operation
  /\ operation[o].status = "pending"
  /\ operation[o].usage_recorded => operation[o].usage = u
  /\ UNCHANGED <<quota, policy>>
  /\ DOMAIN operation' = DOMAIN operation
  /\ \A x \in DOMAIN operation : SameOperation(x) /\ SameStatus(x)
  /\ \A x \in DOMAIN operation : x # o => SameUsage(x)
  /\ operation'[o].usage = u
  /\ operation'[o].usage_recorded = TRUE

\* The pending operation o becomes terminal.
Closes(o) ==
  /\ o \in DOMAIN operation
  /\ operation[o].status = "pending"
  /\ operation'[o].status # "pending"
  /\ quota' = Released(operation[o])
  /\ UNCHANGED policy
  /\ DOMAIN operation' = DOMAIN operation
  /\ \A x \in DOMAIN operation : SameOperation(x) /\ SameUsage(x)
  /\ \A x \in DOMAIN operation : x # o => SameStatus(x)

\* Linking a credit or touching the operation is neutral.
LEMMA EvidenceShape ==
  ASSUME TypeOK, NEW o \in DOMAIN operation, NEW t \in Since(o),
         \/ \E s \in Settlements : record_credit_reservation(o, s, t)
         \/ touch_pending_operation(o, t)
  PROVE  Neutral /\ UNCHANGED policy
<1>1. operation[o] \in OperationRow
  BY OperationType
<1>2. ASSUME NEW s \in Settlements, record_credit_reservation(o, s, t)
      PROVE  Neutral /\ UNCHANGED policy
  <2>1. /\ DOMAIN operation' = DOMAIN operation /\ UNCHANGED <<quota, policy>>
        /\ \A x \in DOMAIN operation : x # o => operation'[x] = operation[x]
        /\ operation'[o] = [operation[o] EXCEPT !.settlement = s, !.updated_at = t]
    BY <1>2 DEF record_credit_reservation
  <2>2. SameOperation(o) /\ SameUsage(o) /\ SameStatus(o)
    BY <1>1, <2>1 DEF SameOperation, SameUsage, SameStatus, OperationRow
  <2>3. QED
    BY <2>1, <2>2 DEF Neutral, SameOperation, SameUsage, SameStatus
<1>3. ASSUME touch_pending_operation(o, t)
      PROVE  Neutral /\ UNCHANGED policy
  <2>1. /\ DOMAIN operation' = DOMAIN operation /\ UNCHANGED <<quota, policy>>
        /\ \A x \in DOMAIN operation : x # o => operation'[x] = operation[x]
        /\ operation'[o] = [operation[o] EXCEPT !.updated_at = Later(t, operation[o].updated_at)]
    BY <1>3 DEF touch_pending_operation
  <2>2. SameOperation(o) /\ SameUsage(o) /\ SameStatus(o)
    BY <1>1, <2>1 DEF SameOperation, SameUsage, SameStatus, OperationRow
  <2>3. QED
    BY <2>1, <2>2 DEF Neutral, SameOperation, SameUsage, SameStatus
<1>4. QED
  BY <1>2, <1>3

\* record_provider_usage reports, for the first time or again.
LEMMA ReportShape ==
  ASSUME TypeOK, NEW o \in DOMAIN operation, NEW u \in Usages, NEW t \in Since(o),
         record_provider_usage(o, u, t)
  PROVE  Reports(o, u)
<1>1. operation[o] \in OperationRow /\ u \in Nat \X Nat
  BY OperationType, LedgerAssumption
<1>2. /\ DOMAIN operation' = DOMAIN operation /\ UNCHANGED <<quota, policy>>
      /\ operation[o].status = "pending"
      /\ operation[o].usage_recorded => operation[o].usage = u
      /\ \A x \in DOMAIN operation : x # o => operation'[x] = operation[x]
      /\ operation'[o] = [operation[o] EXCEPT !.usage = u, !.usage_recorded = TRUE,
                                              !.updated_at = t]
  BY DEF record_provider_usage, Pending
<1>3. /\ SameOperation(o) /\ SameStatus(o)
      /\ operation'[o].usage = u /\ operation'[o].usage_recorded = TRUE
  BY <1>1, <1>2 DEF SameOperation, SameStatus, OperationRow
<1>4. QED
  BY <1>1, <1>2, <1>3 DEF Reports, SameOperation, SameUsage, SameStatus

\* finalize_operation closes.
LEMMA CloseShape ==
  ASSUME TypeOK, NEW o \in DOMAIN operation, NEW tm \in Terminals, NEW t \in Times,
         finalize_operation(o, tm, t)
  PROVE  Closes(o)
<1>1. operation[o] \in OperationRow /\ tm \in Terminal
  BY OperationType, LedgerAssumption
<1>2. /\ DOMAIN operation' = DOMAIN operation /\ UNCHANGED policy
      /\ operation[o].status = "pending" /\ quota' = Released(operation[o])
      /\ \A x \in DOMAIN operation : x # o => operation'[x] = operation[x]
      /\ operation'[o] = [operation[o] EXCEPT !.status = tm.status, !.code = tm.code,
                                              !.updated_at = t]
  BY DEF finalize_operation, Pending
<1>3. SameOperation(o) /\ SameUsage(o) /\ operation'[o].status = tm.status
  BY <1>1, <1>2 DEF SameOperation, SameUsage, OperationRow
<1>4. tm.status # "pending"
  BY <1>1 DEF Terminal
<1>5. QED
  BY <1>2, <1>3, <1>4 DEF Closes, SameOperation, SameUsage, SameStatus

\* Every step admits an operation, reports usage, closes one or is neutral.
LEMMA StepShape ==
  ASSUME TypeOK, [Next]_vars
  PROVE  \/ \E o \in Operations, c \in Clients, q \in RequestIds, m \in Models,
              n \in Sizes, t \in Times : reserve_operation(o, c, q, m, n, t)
         \/ \E o \in DOMAIN operation, u \in Usages : Reports(o, u)
         \/ \E o \in DOMAIN operation : Closes(o)
         \/ Neutral /\ UNCHANGED policy
         \/ Neutral /\ \E c \in Clients, p \in Policies : SetPolicy(c, p)
<1>1. ASSUME UNCHANGED <<operation, quota>> PROVE Neutral
  BY <1>1 DEF Neutral, SameOperation, SameUsage, SameStatus
<1>2. ASSUME NEW c \in Clients, NEW p \in Policies, SetPolicy(c, p)
      PROVE  Neutral /\ SetPolicy(c, p)
  BY <1>1, <1>2 DEF SetPolicy
<1>3. ASSUME NEW cutoff \in Times, PurgeEvents(cutoff)
      PROVE  Neutral /\ UNCHANGED policy
  BY <1>1, <1>3 DEF PurgeEvents
<1>4. ASSUME UNCHANGED vars PROVE Neutral /\ UNCHANGED policy
  BY <1>1, <1>4 DEF vars
<1>5. ASSUME NEW o \in DOMAIN operation, NEW s \in Settlements, NEW t \in Since(o),
             record_credit_reservation(o, s, t)
      PROVE  Neutral /\ UNCHANGED policy
  BY <1>5, EvidenceShape
<1>6. ASSUME NEW o \in DOMAIN operation, NEW t \in Since(o), touch_pending_operation(o, t)
      PROVE  Neutral /\ UNCHANGED policy
  BY <1>6, EvidenceShape
<1>7. ASSUME NEW o \in DOMAIN operation, NEW u \in Usages, NEW t \in Since(o),
             record_provider_usage(o, u, t)
      PROVE  Reports(o, u)
  BY <1>7, ReportShape
<1>8. ASSUME NEW o \in DOMAIN operation, NEW tm \in Terminals, NEW t \in Times,
             finalize_operation(o, tm, t)
      PROVE  Closes(o)
  BY <1>8, CloseShape
<1>9. QED
  BY <1>2, <1>3, <1>4, <1>5, <1>6, <1>7, <1>8 DEF Next

-----------------------------------------------------------------------------
(* Usage that was not recorded *)

\* Until record_provider_usage has run, the usage columns are zero.
UnrecordedIsZero ==
  \A o \in DOMAIN operation : ~operation[o].usage_recorded => operation[o].usage = NoUsage

\* What an admission does to the operation table and to the rows.
LEMMA AdmitShape ==
  ASSUME NEW o \in Operations, NEW c \in Clients, NEW q \in RequestIds,
         NEW m \in Models, NEW n \in Sizes, NEW t \in Times,
         reserve_operation(o, c, q, m, n, t)
  PROVE  /\ o \notin DOMAIN operation
         /\ DOMAIN operation' = DOMAIN operation \cup {o}
         /\ \A x \in DOMAIN operation : operation'[x] = operation[x]
         /\ operation'[o].client = c /\ operation'[o].request_id = q
         /\ operation'[o].started_at = t /\ operation'[o].reserved = n
         /\ operation'[o].status = "pending"
         /\ operation'[o].usage = NoUsage /\ operation'[o].usage_recorded = FALSE
<1> DEFINE new == NewOperation(c, q, m, n, t)
<1>1. /\ o \notin DOMAIN operation
      /\ DOMAIN operation' = DOMAIN operation \cup {o}
      /\ \A x \in DOMAIN operation : operation'[x] = operation[x]
      /\ operation'[o] = new
  BY DEF reserve_operation, Insert
<1>2. /\ new.client = c /\ new.request_id = q /\ new.started_at = t
      /\ new.reserved = n /\ new.status = "pending"
      /\ new.usage = NoUsage /\ new.usage_recorded = FALSE
  BY DEF NewOperation
<1> HIDE DEF new
<1>3. QED
  BY <1>1, <1>2

\* No transaction writes usage without marking it as recorded.
LEMMA UnrecordedStep ==
  TypeOK /\ UnrecordedIsZero /\ [Next]_vars => UnrecordedIsZero'
<1> SUFFICES ASSUME TypeOK, UnrecordedIsZero, [Next]_vars,
                    NEW x \in DOMAIN operation', ~operation'[x].usage_recorded
             PROVE  operation'[x].usage = NoUsage
  BY DEF UnrecordedIsZero
<1>1. ASSUME NEW o \in Operations, NEW c \in Clients, NEW q \in RequestIds,
             NEW m \in Models, NEW n \in Sizes, NEW t \in Times,
             reserve_operation(o, c, q, m, n, t)
      PROVE  operation'[x].usage = NoUsage
  <2>1. /\ DOMAIN operation' = DOMAIN operation \cup {o}
        /\ \A y \in DOMAIN operation : operation'[y] = operation[y]
        /\ operation'[o].usage = NoUsage
    BY <1>1, AdmitShape
  <2>2. QED
    BY <2>1 DEF UnrecordedIsZero
<1>2. ASSUME NEW o \in DOMAIN operation, NEW u \in Usages, Reports(o, u)
      PROVE  operation'[x].usage = NoUsage
  BY <1>2 DEF Reports, SameUsage, UnrecordedIsZero
<1>3. ASSUME NEW o \in DOMAIN operation, Closes(o)
      PROVE  operation'[x].usage = NoUsage
  BY <1>3 DEF Closes, SameUsage, UnrecordedIsZero
<1>4. ASSUME Neutral
      PROVE  operation'[x].usage = NoUsage
  BY <1>4 DEF Neutral, SameUsage, UnrecordedIsZero
<1>5. QED
  BY <1>1, <1>2, <1>3, <1>4, StepShape

\* Usage columns are zero until usage is recorded, for ever.
LEMMA UnrecordedInvariant == Spec => []UnrecordedIsZero
<1>1. Init => UnrecordedIsZero
  BY DEF Init, UnrecordedIsZero
<1>2. QED
  BY <1>1, UnrecordedStep, TypeCorrect, PTL DEF Spec

-----------------------------------------------------------------------------
(* Room in the columns, running totals and the usage report *)

\* An admission leaves every row it touches within the column.
LEMMA AdmitKeepsRoom ==
  ASSUME TypeOK, OverflowOnlyByOverrun,
         NEW o \in Operations, NEW c \in Clients, NEW q \in RequestIds,
         NEW m \in Models, NEW n \in Sizes, NEW t \in Times,
         reserve_operation(o, c, q, m, n, t)
  PROVE  OverflowOnlyByOverrun'
<1> SUFFICES ASSUME NEW k \in DOMAIN quota',
                    \A x \in OperationsIn(k)' :
                      ~(Total(operation'[x].usage) > operation'[x].reserved)
             PROVE  quota'[k].consumed + quota'[k].reserved <= BigIntMax
  BY DEF OverflowOnlyByOverrun
<1>1. CASE k \in QuotaKeys(c, t)
  <2>1. /\ quota'[k].reserved = Row(k).reserved + n
        /\ quota'[k].consumed = Row(k).consumed
    BY <1>1 DEF reserve_operation
  <2>2. _check_quota_limit(Row(k), Ceilings(policy[c], k), n)
    BY <1>1 DEF reserve_operation
  <2>3. Row(k).consumed + Row(k).reserved + n <= BigIntMax
    BY <2>2 DEF _check_quota_limit
  <2>4. Row(k).consumed \in Nat /\ Row(k).reserved \in Nat /\ n \in Nat
    BY RowType, LedgerAssumption DEF QuotaRow
  <2>5. QED
    BY <2>1, <2>3, <2>4
<1>2. CASE k \notin QuotaKeys(c, t)
  <2>1. k \in DOMAIN quota /\ quota'[k] = quota[k]
    BY <1>2 DEF reserve_operation
  <2>2. /\ DOMAIN operation' = DOMAIN operation \cup {o}
        /\ \A x \in DOMAIN operation : operation'[x] = operation[x]
    BY AdmitShape
  <2>3. \A x \in OperationsIn(k) : x \in OperationsIn(k)' /\ operation'[x] = operation[x]
    BY <2>2 DEF OperationsIn
  <2>4. QED
    BY <2>1, <2>3 DEF OverflowOnlyByOverrun
<1>3. QED
  BY <1>1, <1>2

\* A finalisation moves no more to consumed than it takes from reserved,
\* unless the operation overran its reservation.
LEMMA CloseKeepsRoom ==
  ASSUME TypeOK, OverflowOnlyByOverrun, NEW o \in DOMAIN operation, Closes(o)
  PROVE  OverflowOnlyByOverrun'
<1> SUFFICES ASSUME NEW k \in DOMAIN quota',
                    \A x \in OperationsIn(k)' :
                      ~(Total(operation'[x].usage) > operation'[x].reserved)
             PROVE  quota'[k].consumed + quota'[k].reserved <= BigIntMax
  BY DEF OverflowOnlyByOverrun
<1> DEFINE op == operation[o]
<1>1. k \in DOMAIN quota
  BY DEF Closes, Released
<1>2. /\ OperationsIn(k)' = OperationsIn(k)
      /\ \A x \in OperationsIn(k) : ~(Total(operation[x].usage) > operation[x].reserved)
  BY DEF Closes, OperationsIn, SameOperation, SameUsage
<1>3. quota[k].consumed + quota[k].reserved <= BigIntMax
  BY <1>1, <1>2 DEF OverflowOnlyByOverrun
<1>4. CASE k \in QuotaKeys(op.client, op.started_at)
  <2>1. /\ quota'[k].reserved = quota[k].reserved - op.reserved
        /\ quota'[k].consumed = quota[k].consumed + Total(op.usage)
    BY <1>1, <1>4 DEF Closes, Released
  <2>2. o \in OperationsIn(k)
    BY <1>4 DEF OperationsIn
  <2>3. op.reserved \in Nat /\ Total(op.usage) \in Nat
    BY OperationType, TotalType DEF OperationRow
  <2>4. quota[k].reserved \in Nat /\ quota[k].consumed \in Nat
    BY <1>1 DEF TypeOK, IsTable, QuotaRow
  <2>5. Total(op.usage) <= op.reserved
    BY <1>2, <2>2, <2>3
  <2>6. BigIntMax \in Nat
    BY LedgerAssumption
  <2> HIDE DEF op
  <2>7. QED
    BY <1>3, <2>1, <2>3, <2>4, <2>5, <2>6
<1>5. CASE k \notin QuotaKeys(op.client, op.started_at)
  <2>1. quota'[k] = quota[k]
    BY <1>1, <1>5 DEF Closes, Released
  <2>2. QED
    BY <1>3, <2>1
<1>6. QED
  BY <1>4, <1>5

\* For any number of callers, operations and days: unless a provider reported
\* more than was reserved, the BIGINT columns hold every total that
\* finalize_operation can come to.
THEOREM ColumnsHaveRoom == Spec => []OverflowOnlyByOverrun
<1>1. Init => OverflowOnlyByOverrun
  BY DEF Init, OverflowOnlyByOverrun
<1>2. TypeOK /\ UnrecordedIsZero /\ OverflowOnlyByOverrun /\ [Next]_vars =>
        OverflowOnlyByOverrun'
  <2> SUFFICES ASSUME TypeOK, UnrecordedIsZero, OverflowOnlyByOverrun, [Next]_vars
               PROVE  OverflowOnlyByOverrun'
    OBVIOUS
  <2>1. ASSUME NEW o \in DOMAIN operation, NEW u \in Usages, Reports(o, u)
        PROVE  OverflowOnlyByOverrun'
    <3>1. operation[o].reserved \in Nat
      BY OperationType DEF OperationRow
    <3>2. \A k : OperationsIn(k)' = OperationsIn(k)
      BY <2>1 DEF Reports, OperationsIn, SameOperation
    <3>3. \A x \in DOMAIN operation :
            Total(operation[x].usage) > operation[x].reserved =>
              Total(operation'[x].usage) > operation'[x].reserved
      <4> SUFFICES ASSUME NEW x \in DOMAIN operation,
                          Total(operation[x].usage) > operation[x].reserved
                   PROVE  Total(operation'[x].usage) > operation'[x].reserved
        OBVIOUS
      <4>1. operation[x].reserved \in Nat
        BY OperationType DEF OperationRow
      <4>2. operation[x].usage # NoUsage
        BY <4>1 DEF Total, NoUsage
      <4>3. operation[x].usage_recorded
        BY <4>2 DEF UnrecordedIsZero
      <4>4. operation'[x].usage = operation[x].usage
        BY <2>1, <4>3 DEF Reports, SameUsage
      <4>5. operation'[x].reserved = operation[x].reserved
        BY <2>1 DEF Reports, SameOperation
      <4>6. QED
        BY <4>4, <4>5
    <3>4. UNCHANGED quota
      BY <2>1 DEF Reports
    <3>5. \A k : OperationsIn(k) \subseteq DOMAIN operation
      BY DEF OperationsIn
    <3>6. QED
      BY <3>2, <3>3, <3>4, <3>5 DEF OverflowOnlyByOverrun
  <2>2. ASSUME Neutral PROVE OverflowOnlyByOverrun'
    <3>1. \A k : OperationsIn(k)' = OperationsIn(k)
      BY <2>2 DEF Neutral, OperationsIn, SameOperation
    <3>2. \A k : \A x \in OperationsIn(k) :
            /\ operation'[x].usage = operation[x].usage
            /\ operation'[x].reserved = operation[x].reserved
      BY <2>2 DEF Neutral, OperationsIn, SameOperation, SameUsage
    <3>3. UNCHANGED quota
      BY <2>2 DEF Neutral
    <3>4. QED
      BY <3>1, <3>2, <3>3 DEF OverflowOnlyByOverrun
  <2>3. QED
    BY <2>1, <2>2, StepShape, AdmitKeepsRoom, CloseKeepsRoom
<1>3. QED
  BY <1>1, <1>2, TypeCorrect, UnrecordedInvariant, PTL DEF Spec

\* For any policy, current or replaced since it was loaded, and any ledger:
\* the remaining quota that metadata.py reports admits a request exactly if
\* quota.py does under that policy.
THEOREM ReportMatchesAdmission == Spec => []UsageReportMatchesAdmission
<1>1. TypeOK => UsageReportMatchesAdmission
  <2> SUFFICES ASSUME TypeOK, NEW p \in Policies, NEW c \in Clients, NEW t \in Times, NEW n \in Sizes,
                      NEW k \in QuotaKeys(c, t)
               PROVE  _check_quota_limit(Row(k), Ceilings(p, k), n) <=>
                        LET left == get_usage(p, c, t)[k]
                        IN  /\ left.requests # NoLimit => left.requests >= 1
                            /\ left.tokens # NoLimit => left.tokens >= n
                            /\ Row(k).consumed + Row(k).reserved + n <= BigIntMax
    BY DEF UsageReportMatchesAdmission
  <2> DEFINE row == Row(k)
             limits == Ceilings(p, k)
             used == row.consumed + row.reserved
  <2>1. /\ row.requests \in Nat /\ row.consumed \in Nat /\ row.reserved \in Nat
        /\ n \in Nat \ {0}
    BY RowType, LedgerAssumption DEF QuotaRow
  <2>2. limits.requests \in Limit /\ limits.tokens \in Limit
    BY LedgerAssumption DEF Policy, Ceiling, Ceilings
  <2>3. /\ get_usage(p, c, t)[k].requests = _remaining(limits.requests, row.requests)
        /\ get_usage(p, c, t)[k].tokens = _remaining(limits.tokens, used)
    BY DEF get_usage
  <2> HIDE DEF row, limits
  <2>4. (limits.requests # NoLimit => row.requests + 1 <= limits.requests) <=>
          (_remaining(limits.requests, row.requests) # NoLimit =>
             _remaining(limits.requests, row.requests) >= 1)
    BY <2>1, <2>2, LedgerAssumption DEF _remaining, Limit
  <2>5. (limits.tokens # NoLimit => used + n <= limits.tokens) <=>
          (_remaining(limits.tokens, used) # NoLimit => _remaining(limits.tokens, used) >= n)
    BY <2>1, <2>2, LedgerAssumption DEF _remaining, Limit
  <2>6. _check_quota_limit(row, limits, n) <=>
          /\ limits.requests # NoLimit => row.requests + 1 <= limits.requests
          /\ limits.tokens # NoLimit => used + n <= limits.tokens
          /\ used + n <= BigIntMax
    BY DEF _check_quota_limit
  <2>7. QED
    BY <2>3, <2>4, <2>5, <2>6 DEF row, limits
<1>2. QED
  BY <1>1, TypeCorrect, PTL

\* Rows are never deleted and what was consumed stays consumed.
LEMMA ConsumedGrows ==
  ASSUME TypeOK, [Next]_vars, NEW k \in DOMAIN quota
  PROVE  /\ k \in DOMAIN quota'
         /\ quota[k].consumed \in Nat /\ quota'[k].consumed \in Nat
         /\ quota'[k].consumed >= quota[k].consumed
<1>0. TypeOK'
  BY TypeStep
<1>1. quota[k].consumed \in Nat
  BY DEF TypeOK, IsTable, QuotaRow
<1>2. ASSUME UNCHANGED quota
      PROVE  k \in DOMAIN quota' /\ quota'[k].consumed >= quota[k].consumed
  BY <1>1, <1>2
<1>3. ASSUME NEW o \in Operations, NEW c \in Clients, NEW q \in RequestIds,
             NEW m \in Models, NEW n \in Sizes, NEW t \in Times,
             reserve_operation(o, c, q, m, n, t)
      PROVE  k \in DOMAIN quota' /\ quota'[k].consumed >= quota[k].consumed
  BY <1>1, <1>3 DEF reserve_operation, Row
<1>4. ASSUME NEW o \in DOMAIN operation, Closes(o)
      PROVE  k \in DOMAIN quota' /\ quota'[k].consumed >= quota[k].consumed
  <2>1. Total(operation[o].usage) \in Nat
    BY OperationType, TotalType DEF OperationRow
  <2>2. QED
    BY <1>1, <1>4, <2>1 DEF Closes, Released
<1>5. k \in DOMAIN quota' /\ quota'[k].consumed >= quota[k].consumed
  BY <1>2, <1>3, <1>4, StepShape DEF Reports, Neutral
<1>6. quota'[k].consumed \in Nat
  BY <1>0, <1>5 DEF TypeOK, IsTable, QuotaRow
<1>7. QED
  BY <1>1, <1>5, <1>6

\* The lifetime row of an operation's caller.
LifetimeKey(o) == <<operation[o].client, "lifetime", 0>>

\* No event counts more tokens than its caller has consumed by now.
TotalsBounded ==
  \A o \in DOMAIN event : event[o].total_tokens_after <= quota[LifetimeKey(o)].consumed

\* A new event counts everything consumed before it and its own usage.
LEMMA NewTotal ==
  ASSUME LedgerInv, NEW o \in DOMAIN operation, NEW tm \in Terminals, NEW t \in Times,
         finalize_operation(o, tm, t)
  PROVE  /\ LifetimeKey(o) \in DOMAIN quota
         /\ DOMAIN event' = DOMAIN event \cup {o}
         /\ \A x \in DOMAIN event : x # o => event'[x] = event[x]
         /\ event'[o].usage = operation[o].usage
         /\ event'[o].total_tokens_after = quota'[LifetimeKey(o)].consumed
         /\ quota'[LifetimeKey(o)].consumed =
              quota[LifetimeKey(o)].consumed + Total(operation[o].usage)
<1> DEFINE ev == TerminalEvent(operation[o], tm, quota', t)
<1>1. event' = Insert(event, o, ev)
  BY DEF finalize_operation
<1>2. /\ ev.usage = operation[o].usage
      /\ ev.total_tokens_after = quota'[LifetimeKey(o)].consumed
  BY DEF TerminalEvent, LifetimeKey
<1> HIDE DEF ev
<1>3. /\ DOMAIN event' = DOMAIN event \cup {o} /\ event'[o] = ev
      /\ \A x \in DOMAIN event : x # o => event'[x] = event[x]
  BY <1>1 DEF Insert
<1>4. LifetimeKey(o) \in QuotaKeys(operation[o].client, operation[o].started_at)
  BY DEF LifetimeKey, QuotaKeys
<1>5. LifetimeKey(o) \in DOMAIN quota
  BY <1>4 DEF LedgerInv, RowsExist
<1>6. quota'[LifetimeKey(o)].consumed =
        quota[LifetimeKey(o)].consumed + Total(operation[o].usage)
  BY <1>4, <1>5 DEF finalize_operation, Released
<1>7. QED
  BY <1>2, <1>3, <1>5, <1>6

\* How a step changes the events, with the totals of a new one.
LEMMA TotalsStep ==
  ASSUME LedgerInv, EventMatchesOperation, TotalsBounded, RunningTotalsAreSerial,
         [Next]_vars
  PROVE  TotalsBounded' /\ RunningTotalsAreSerial'
<1>0. TypeOK
  BY DEF LedgerInv
<1>1. \A x \in DOMAIN event :
        /\ x \in DOMAIN operation /\ x \in DOMAIN operation'
        /\ operation'[x].client = operation[x].client
        /\ event[x].total_tokens_after \in Nat
        /\ Total(event[x].usage) \in Nat
        /\ LifetimeKey(x)' = LifetimeKey(x)
        /\ LifetimeKey(x) \in DOMAIN quota
        /\ quota[LifetimeKey(x)].consumed \in Nat
        /\ quota'[LifetimeKey(x)].consumed \in Nat
        /\ quota'[LifetimeKey(x)].consumed >= quota[LifetimeKey(x)].consumed
        /\ event[x].total_tokens_after <= quota[LifetimeKey(x)].consumed
  <2> TAKE x \in DOMAIN event
  <2>1. x \in DOMAIN operation
    BY DEF EventMatchesOperation
  <2>2. x \in DOMAIN operation' /\ operation'[x].client = operation[x].client
    BY <1>0, <2>1, OperationStep
  <2>3. event[x].total_tokens_after \in Nat /\ event[x].usage \in Nat \X Nat
    BY <1>0 DEF TypeOK, IsTable, EventRow
  <2>4. LifetimeKey(x)' = LifetimeKey(x)
    BY <2>2 DEF LifetimeKey
  <2>5. LifetimeKey(x) \in DOMAIN quota
    BY <2>1 DEF LedgerInv, RowsExist, LifetimeKey, QuotaKeys
  <2>6. QED
    BY <1>0, <2>1, <2>2, <2>3, <2>4, <2>5, ConsumedGrows, TotalType DEF TotalsBounded
<1>2. ASSUME DOMAIN event' \subseteq DOMAIN event,
             \A x \in DOMAIN event' : event'[x] = event[x]
      PROVE  TotalsBounded' /\ RunningTotalsAreSerial'
  <2>1. TotalsBounded'
    <3> SUFFICES ASSUME NEW x \in DOMAIN event'
                 PROVE  event'[x].total_tokens_after <= quota'[LifetimeKey(x)'].consumed
      BY DEF TotalsBounded
    <3>1. QED
      BY <1>1, <1>2
  <2>2. RunningTotalsAreSerial'
    BY <1>1, <1>2 DEF RunningTotalsAreSerial
  <2>3. QED
    BY <2>1, <2>2
<1>3. ASSUME NEW o \in DOMAIN operation, NEW tm \in Terminals, NEW t \in Times,
             finalize_operation(o, tm, t)
      PROVE  TotalsBounded' /\ RunningTotalsAreSerial'
  <2>1. /\ LifetimeKey(o) \in DOMAIN quota
        /\ DOMAIN event' = DOMAIN event \cup {o}
        /\ \A x \in DOMAIN event : x # o => event'[x] = event[x]
        /\ event'[o].usage = operation[o].usage
        /\ event'[o].total_tokens_after = quota'[LifetimeKey(o)].consumed
        /\ quota'[LifetimeKey(o)].consumed =
             quota[LifetimeKey(o)].consumed + Total(operation[o].usage)
    BY <1>3, NewTotal
  <2>2. operation'[o].client = operation[o].client /\ LifetimeKey(o)' = LifetimeKey(o)
    BY <1>0, OperationStep DEF LifetimeKey
  <2>3. Total(operation[o].usage) \in Nat /\ quota[LifetimeKey(o)].consumed \in Nat
    BY <1>0, <2>1, OperationType, TotalType, ConsumedGrows DEF OperationRow
  <2>4. TotalsBounded'
    <3> SUFFICES ASSUME NEW x \in DOMAIN event'
                 PROVE  event'[x].total_tokens_after <= quota'[LifetimeKey(x)'].consumed
      BY DEF TotalsBounded
    <3>1. CASE x = o
      BY <2>1, <2>2, <2>3, <3>1
    <3>2. CASE x # o
      BY <1>1, <2>1, <3>2
    <3>3. QED
      BY <3>1, <3>2
  <2>5. \A x \in DOMAIN event :
          x # o /\ operation[x].client = operation[o].client =>
            event'[o].total_tokens_after >=
              event'[x].total_tokens_after + Total(event'[o].usage)
    <3> SUFFICES ASSUME NEW x \in DOMAIN event, x # o,
                        operation[x].client = operation[o].client
                 PROVE  event'[o].total_tokens_after >=
                          event'[x].total_tokens_after + Total(event'[o].usage)
      OBVIOUS
    <3>1. LifetimeKey(x) = LifetimeKey(o)
      BY DEF LifetimeKey
    <3>2. event[x].total_tokens_after <= quota[LifetimeKey(o)].consumed
      BY <1>1, <3>1
    <3>3. event[x].total_tokens_after \in Nat
      BY <1>1
    <3>4. QED
      BY <2>1, <2>3, <3>2, <3>3
  <2>6. RunningTotalsAreSerial'
    <3> SUFFICES ASSUME NEW x \in DOMAIN event', NEW y \in DOMAIN event', x # y,
                        operation'[x].client = operation'[y].client
                 PROVE  \/ event'[y].total_tokens_after >=
                             event'[x].total_tokens_after + Total(event'[y].usage)
                        \/ event'[x].total_tokens_after >=
                             event'[y].total_tokens_after + Total(event'[x].usage)
      BY DEF RunningTotalsAreSerial
    <3>1. CASE x = o
      BY <1>1, <2>1, <2>2, <2>5, <3>1
    <3>2. CASE y = o
      BY <1>1, <2>1, <2>2, <2>5, <3>2
    <3>3. CASE x # o /\ y # o
      BY <1>1, <2>1, <3>3 DEF RunningTotalsAreSerial
    <3>4. QED
      BY <3>1, <3>2, <3>3
  <2>7. QED
    BY <2>4, <2>6
<1>4. ASSUME NEW cutoff \in Times, PurgeEvents(cutoff)
      PROVE  TotalsBounded' /\ RunningTotalsAreSerial'
  <2>1. /\ DOMAIN event' \subseteq DOMAIN event
        /\ \A x \in DOMAIN event' : event'[x] = event[x]
    BY <1>4 DEF PurgeEvents
  <2>2. QED
    BY <1>2, <2>1
<1>5. ASSUME UNCHANGED event
      PROVE  TotalsBounded' /\ RunningTotalsAreSerial'
  BY <1>2, <1>5
<1>6. QED
  BY <1>3, <1>4, <1>5
  DEF Next, vars, reserve_operation, record_credit_reservation,
      record_provider_usage, touch_pending_operation, SetPolicy

\* For any number of callers and operations: the running totals in a caller's
\* events are those of a serial order, because every event is written by the
\* transaction that updates the row the totals are taken from.
THEOREM TotalsAreSerial == Spec => []RunningTotalsAreSerial
<1>1. Init => TotalsBounded /\ RunningTotalsAreSerial
  BY DEF Init, TotalsBounded, RunningTotalsAreSerial
<1>2. LedgerInv /\ EventMatchesOperation /\ TotalsBounded /\ RunningTotalsAreSerial
        /\ [Next]_vars => TotalsBounded' /\ RunningTotalsAreSerial'
  BY TotalsStep
<1>3. QED
  BY <1>1, <1>2, LedgerInvariant, EventsAgree, PTL DEF Spec

-----------------------------------------------------------------------------
(* The abstract budget *)

\* The size of a disjoint union: sums over two sets add up.
LEMMA SumUnion ==
  ASSUME NEW S, NEW T, IsFiniteSet(S), IsFiniteSet(T), S \cap T = {},
         NEW f, \A x \in S \cup T : f[x] \in Nat
  PROVE  Sum(f, S \cup T) = Sum(f, S) + Sum(f, T)
<1>1. /\ IsFiniteSet(Cells(f, S)) /\ Sum(f, S) \in Nat
      /\ IsFiniteSet(Cells(f, T)) /\ Sum(f, T) \in Nat
  BY CellsFinite
<1>2. Cells(f, S \cup T) = Cells(f, S) \cup Cells(f, T)
  BY DEF Cells
<1>3. Cells(f, S) \cap Cells(f, T) = {}
  BY DEF Cells
<1>4. Cardinality(Cells(f, S) \cup Cells(f, T)) =
        Cardinality(Cells(f, S)) + Cardinality(Cells(f, T)) - 0
  BY <1>1, <1>3, FS_Union, FS_EmptySet
<1>5. /\ Cardinality(Cells(f, S)) \in Nat
      /\ Cardinality(Cells(f, T)) \in Nat
  BY <1>1 DEF Sum
<1>6. Cardinality(Cells(f, S) \cup Cells(f, T)) =
        Cardinality(Cells(f, S)) + Cardinality(Cells(f, T))
  BY <1>4, <1>5
<1>7. QED
  BY <1>2, <1>6, Zenon DEF Sum

\* Both modules count with the same Cardinality.
LEMMA SameCardinality ==
  ASSUME NEW S
  PROVE  Budget!Cardinality(S) = Cardinality(S)
BY DEF Budget!Cardinality, Cardinality, Budget!IsFiniteSet, IsFiniteSet

\* The operations of a period are those the abstract budget sees in it.
LEMMA SameOperationsIn ==
  ASSUME NEW k
  PROVE  Budget!In(k) = OperationsIn(k)
<1>1. DOMAIN Account = DOMAIN operation
  BY DEF Account
<1>2. \A o \in DOMAIN operation :
        Budget!Periods(Account[o]) = QuotaKeys(operation[o].client, operation[o].started_at)
  BY DEF Account, Budget!Periods, QuotaKeys, utc_day_start
<1>3. QED
  BY <1>1, <1>2 DEF Budget!In, OperationsIn

\* What the operations of a period commit is what its row has reserved and
\* consumed: this is where LedgerBalanced is used.
LEMMA CommittedIsRow ==
  ASSUME LedgerInv, NEW k
  PROVE  Budget!Committed(k) = Row(k).reserved + Row(k).consumed
<1> DEFINE P == PendingIn(k)
           T == TerminalIn(k)
           w == Budget!Weight
<1>1. /\ OperationsIn(k) = P \cup T /\ P \cap T = {}
      /\ IsFiniteSet(P) /\ IsFiniteSet(T)
  BY SumTypes DEF PendingIn, TerminalIn
<1>2. /\ \A x \in P : w[x] = ReservedBy[x]
      /\ \A x \in T : w[x] = ConsumedBy[x]
  BY DEF Budget!Weight, Account, ReservedBy, ConsumedBy, PendingIn, TerminalIn, OperationsIn
<1>3. /\ \A x \in P : ReservedBy[x] \in Nat
      /\ \A x \in T : ConsumedBy[x] \in Nat
  BY SumTypes DEF PendingIn, TerminalIn, OperationsIn
<1>4. Budget!Committed(k) = Sum(w, OperationsIn(k))
  BY SameOperationsIn, SameCardinality DEF Budget!Committed, Sum, Cells
<1> HIDE DEF P, T, w
<1>5. Sum(w, P \cup T) = Sum(w, P) + Sum(w, T)
  <2>1. \A x \in P \cup T : w[x] \in Nat
    BY <1>2, <1>3
  <2>2. QED
    BY <1>1, <2>1, SumUnion
<1>6. Sum(w, P) = Sum(ReservedBy, P) /\ Sum(w, T) = Sum(ConsumedBy, T)
  BY <1>2, SumSame
<1>7. QED
  BY <1>1, <1>4, <1>5, <1>6, RowBalanced DEF P, T

\* An admission of the ledger is one the abstract budget can afford.
LEMMA AdmitRefines ==
  ASSUME LedgerInv, NEW o \in Operations, NEW c \in Clients, NEW q \in RequestIds,
         NEW m \in Models, NEW n \in Sizes, NEW t \in Times,
         reserve_operation(o, c, q, m, n, t)
  PROVE  Budget!Admit(o)
<1>1. /\ o \notin DOMAIN operation
      /\ DOMAIN operation' = DOMAIN operation \cup {o}
      /\ \A x \in DOMAIN operation : operation'[x] = operation[x]
      /\ operation'[o].client = c /\ operation'[o].request_id = q
      /\ operation'[o].started_at = t /\ operation'[o].reserved = n
      /\ operation'[o].status = "pending" /\ operation'[o].usage = NoUsage
  BY AdmitShape
<1> DEFINE new == Account'[o]
<1>2. /\ DOMAIN Account = DOMAIN operation
      /\ DOMAIN Account' = DOMAIN operation \cup {o}
      /\ \A x \in DOMAIN operation : Account'[x] = Account[x]
  BY <1>1 DEF Account
<1>3. /\ new.client = c /\ new.request_id = q /\ new.started_at = t
      /\ new.reserved = n /\ new.open = TRUE /\ new.used = 0
  <2>1. new = [client |-> c, request_id |-> q, started_at |-> t, reserved |-> n,
               used |-> Total(NoUsage), open |-> TRUE]
    BY <1>1 DEF Account
  <2>2. Total(NoUsage) = 0
    BY DEF Total, NoUsage
  <2>3. QED
    BY <2>1, <2>2
<1>4. Account' = [x \in DOMAIN Account \cup {o} |-> IF x = o THEN Account'[o] ELSE Account[x]]
  <2>1. Account' = [x \in DOMAIN Account' |-> Account'[x]]
    BY DEF Account
  <2>2. QED
    BY <1>1, <1>2, <2>1
<1>5. \A x \in DOMAIN operation : ~(Account[x].client = c /\ Account[x].request_id = q)
  BY DEF reserve_operation, _raise_for_existing_operation, Account
<1> HIDE DEF new
<1>6. Budget!Affordable(new)
  <2>1. Budget!Periods(new) = QuotaKeys(c, t)
    BY <1>3 DEF Budget!Periods, QuotaKeys, utc_day_start
  <2> SUFFICES ASSUME NEW k \in QuotaKeys(c, t)
               PROVE  /\ Budget!CeilingOf(k).requests # NoLimit =>
                           Budget!Cardinality(Budget!In(k)) + 1 <= Budget!CeilingOf(k).requests
                      /\ Budget!CeilingOf(k).tokens # NoLimit =>
                           Budget!Committed(k) + new.reserved <= Budget!CeilingOf(k).tokens
                      /\ Budget!Committed(k) + new.reserved <= BigIntMax
    BY <2>1 DEF Budget!Affordable
  <2>2. Budget!CeilingOf(k) = Ceilings(policy[c], k)
    BY DEF Budget!CeilingOf, Ceilings, CeilingsInForce, QuotaKeys
  <2>3. _check_quota_limit(Row(k), Ceilings(policy[c], k), n)
    BY DEF reserve_operation
  <2>4. Row(k).requests = Budget!Cardinality(Budget!In(k))
    BY RowBalanced, SameOperationsIn, SameCardinality
  <2>5. Budget!Committed(k) = Row(k).reserved + Row(k).consumed
    BY CommittedIsRow
  <2>6. Row(k) \in QuotaRow /\ n \in Nat
    BY RowType, LedgerAssumption DEF LedgerInv
  <2>7. Budget!Committed(k) + n = Row(k).consumed + Row(k).reserved + n
    BY <2>5, <2>6 DEF QuotaRow
  <2>8. QED
    BY <1>3, <2>2, <2>3, <2>4, <2>7 DEF _check_quota_limit
<1>7. UNCHANGED CeilingsInForce
  BY DEF reserve_operation, CeilingsInForce
<1>8. QED
  BY <1>1, <1>2, <1>3, <1>4, <1>5, <1>6, <1>7 DEF Budget!Admit, new

\* The rows of the abstract budget.
AccountRow ==
  [client : Clients, request_id : RequestIds, started_at : Times,
   reserved : Nat, used : Nat, open : BOOLEAN]

\* The mapped operations are rows of the abstract budget, before and after.
LEMMA AccountRows ==
  ASSUME TypeOK, TypeOK', NEW o \in DOMAIN operation, o \in DOMAIN operation'
  PROVE  Account[o] \in AccountRow /\ Account'[o] \in AccountRow
<1>1. operation[o] \in OperationRow /\ operation'[o] \in OperationRow
  BY DEF TypeOK, IsTable
<1>2. Total(operation[o].usage) \in Nat /\ Total(operation'[o].usage) \in Nat
  BY <1>1, TotalType DEF OperationRow
<1>3. Account[o] \in AccountRow
  BY <1>1, <1>2 DEF Account, AccountRow, OperationRow
<1>4. Account'[o] \in AccountRow
  BY <1>1, <1>2 DEF Account, AccountRow, OperationRow
<1>5. QED
  BY <1>3, <1>4

\* A row that differs in used only is the old one with used replaced.
LEMMA UsedRow ==
  ASSUME NEW r \in AccountRow, NEW s \in AccountRow,
         s.client = r.client, s.request_id = r.request_id, s.open = r.open,
         s.started_at = r.started_at, s.reserved = r.reserved
  PROVE  s = [r EXCEPT !.used = s.used]
<1>1. [r EXCEPT !.used = s.used] \in AccountRow
  BY DEF AccountRow
<1>2. QED
  BY <1>1 DEF AccountRow

\* A row that differs in being closed only is the old one, closed.
LEMMA ClosedRow ==
  ASSUME NEW r \in AccountRow, NEW s \in AccountRow,
         s.client = r.client, s.request_id = r.request_id, s.used = r.used,
         s.started_at = r.started_at, s.reserved = r.reserved, s.open = FALSE
  PROVE  s = [r EXCEPT !.open = FALSE]
<1>1. [r EXCEPT !.open = FALSE] \in AccountRow
  BY DEF AccountRow
<1>2. QED
  BY <1>1 DEF AccountRow

\* A usage report is a use of the abstract budget: a first report meets zero,
\* a repeated one the same usage.
LEMMA ReportRefines ==
  ASSUME TypeOK, TypeOK', UnrecordedIsZero, NEW o \in DOMAIN operation, NEW u \in Usages,
         Reports(o, u)
  PROVE  Budget!Use(o)
<1>1. /\ DOMAIN Account = DOMAIN operation /\ DOMAIN Account' = DOMAIN operation
      /\ \A x \in DOMAIN operation : x # o => Account'[x] = Account[x]
  BY DEF Account, Reports, SameOperation, SameUsage, SameStatus
<1>2. Account[o] = [client |-> operation[o].client, request_id |-> operation[o].request_id,
                    started_at |-> operation[o].started_at,
                    reserved |-> operation[o].reserved,
                    used |-> Total(operation[o].usage), open |-> TRUE]
  BY DEF Account, Reports
<1>3. Account'[o] = [client |-> operation[o].client, request_id |-> operation[o].request_id,
                     started_at |-> operation[o].started_at,
                     reserved |-> operation[o].reserved,
                     used |-> Total(u), open |-> TRUE]
  BY DEF Account, Reports, SameOperation, SameStatus
<1>4. Account'[o] = [Account[o] EXCEPT !.used = Account'[o].used]
  <2>1. Account[o] \in AccountRow /\ Account'[o] \in AccountRow
    BY AccountRows DEF Reports
  <2>2. /\ Account'[o].client = Account[o].client
        /\ Account'[o].request_id = Account[o].request_id
        /\ Account'[o].started_at = Account[o].started_at
        /\ Account'[o].reserved = Account[o].reserved
        /\ Account'[o].open = Account[o].open
    BY <1>2, <1>3
  <2>3. QED
    BY <2>1, <2>2, UsedRow, Zenon
<1>5. Total(operation[o].usage) \in {0, Total(u)}
  BY DEF Reports, UnrecordedIsZero, Total, NoUsage
<1>6. Account' = [Account EXCEPT ![o] = [@ EXCEPT !.used = Account'[o].used]]
  <2>1. Account' = [x \in DOMAIN Account' |-> Account'[x]]
    BY DEF Account
  <2>2. Account = [x \in DOMAIN Account |-> Account[x]]
    BY DEF Account
  <2>3. QED
    BY <1>1, <1>4, <2>1, <2>2
<1>7. UNCHANGED CeilingsInForce
  BY DEF Reports, CeilingsInForce
<1>8. /\ Account[o].open /\ Account[o].used = Total(operation[o].usage)
      /\ Account'[o].used = Total(u)
  BY <1>2, <1>3
<1>9. QED
  BY <1>1, <1>5, <1>6, <1>7, <1>8 DEF Budget!Use

\* A finalisation closes the operation in the abstract budget.
LEMMA CloseRefines ==
  ASSUME TypeOK, TypeOK', NEW o \in DOMAIN operation, Closes(o)
  PROVE  Budget!Close(o)
<1>1. /\ DOMAIN Account = DOMAIN operation /\ DOMAIN Account' = DOMAIN operation
      /\ \A x \in DOMAIN operation : x # o => Account'[x] = Account[x]
  BY DEF Account, Closes, SameOperation, SameUsage, SameStatus
<1>2. Account[o] = [client |-> operation[o].client, request_id |-> operation[o].request_id,
                    started_at |-> operation[o].started_at,
                    reserved |-> operation[o].reserved,
                    used |-> Total(operation[o].usage), open |-> TRUE]
  BY DEF Account, Closes
<1>3. Account'[o] = [client |-> operation[o].client, request_id |-> operation[o].request_id,
                     started_at |-> operation[o].started_at,
                     reserved |-> operation[o].reserved,
                     used |-> Total(operation[o].usage), open |-> FALSE]
  BY DEF Account, Closes, SameOperation, SameUsage
<1>4. Account'[o] = [Account[o] EXCEPT !.open = FALSE]
  <2>1. Account[o] \in AccountRow /\ Account'[o] \in AccountRow
    BY AccountRows DEF Closes
  <2>2. /\ Account'[o].client = Account[o].client
        /\ Account'[o].request_id = Account[o].request_id
        /\ Account'[o].started_at = Account[o].started_at
        /\ Account'[o].reserved = Account[o].reserved
        /\ Account'[o].used = Account[o].used /\ Account'[o].open = FALSE
    BY <1>2, <1>3
  <2>3. QED
    BY <2>1, <2>2, ClosedRow, Zenon
<1>5. Account' = [Account EXCEPT ![o] = [@ EXCEPT !.open = FALSE]]
  <2>1. Account' = [x \in DOMAIN Account' |-> Account'[x]]
    BY DEF Account
  <2>2. Account = [x \in DOMAIN Account |-> Account[x]]
    BY DEF Account
  <2>3. QED
    BY <1>1, <1>4, <2>1, <2>2
<1>6. UNCHANGED CeilingsInForce
  BY DEF Closes, CeilingsInForce
<1>7. Account[o].open
  BY <1>2
<1>8. QED
  BY <1>1, <1>5, <1>6, <1>7 DEF Budget!Close

\* The abstract budget does not see a neutral step.
LEMMA NeutralRefines ==
  ASSUME Neutral
  PROVE  UNCHANGED Account
BY DEF Neutral, Account, SameOperation, SameUsage, SameStatus

\* A new policy is a new ceiling of one caller.
LEMMA PolicyRefines ==
  ASSUME TypeOK, Neutral, NEW c \in Clients, NEW p \in Policies, SetPolicy(c, p)
  PROVE  Budget!SetCeiling(c)
<1>1. UNCHANGED Account
  BY NeutralRefines
<1>2. \A x \in Clients : x # c => policy'[x] = policy[x]
  BY DEF SetPolicy, TypeOK
<1>3. /\ DOMAIN CeilingsInForce = Clients /\ DOMAIN CeilingsInForce' = Clients
      /\ \A x \in Clients : x # c => CeilingsInForce'[x] = CeilingsInForce[x]
  BY <1>2 DEF CeilingsInForce
<1>4. CeilingsInForce' = [CeilingsInForce EXCEPT ![c] = CeilingsInForce'[c]]
  <2>1. CeilingsInForce' = [x \in DOMAIN CeilingsInForce' |-> CeilingsInForce'[x]]
    BY DEF CeilingsInForce
  <2>2. CeilingsInForce = [x \in DOMAIN CeilingsInForce |-> CeilingsInForce[x]]
    BY DEF CeilingsInForce
  <2>3. QED
    BY <1>3, <2>1, <2>2
<1>5. QED
  BY <1>1, <1>4 DEF Budget!SetCeiling

\* For any number of callers, operations and days, and any ceilings: the
\* ledger, which decides from counters, implements the budget, which decides
\* from the operations themselves.
THEOREM LedgerImplementsBudget == Spec => ImplementsTokenBudget
<1>1. Init => Budget!Init
  <2> SUFFICES ASSUME Init PROVE Account = [o \in {} |-> {}]
    BY DEF Budget!Init
  <2>1. DOMAIN operation = {}
    BY DEF Init
  <2>2. QED
    BY <2>1 DEF Account
<1>2. LedgerInv /\ UnrecordedIsZero /\ [Next]_vars => [Budget!Next]_(Budget!bvars)
  <2> SUFFICES ASSUME LedgerInv, UnrecordedIsZero, [Next]_vars
               PROVE  Budget!Next \/ UNCHANGED Budget!bvars
    OBVIOUS
  <2>0. TypeOK /\ TypeOK'
    BY TypeStep DEF LedgerInv
  <2>1. ASSUME NEW o \in Operations, NEW c \in Clients, NEW q \in RequestIds,
               NEW m \in Models, NEW n \in Sizes, NEW t \in Times,
               reserve_operation(o, c, q, m, n, t)
        PROVE  Budget!Next
    <3>1. Budget!Admit(o)
      BY <2>1, AdmitRefines
    <3>2. o \in DOMAIN Account'
      BY <2>1, AdmitShape DEF Account
    <3>3. QED
      BY <3>1, <3>2 DEF Budget!Next
  <2>2. ASSUME NEW o \in DOMAIN operation, NEW u \in Usages, Reports(o, u)
        PROVE  Budget!Next
    <3>1. Budget!Use(o)
      BY <2>0, <2>2, ReportRefines
    <3>2. o \in DOMAIN Account'
      BY <2>2 DEF Account, Reports
    <3>3. QED
      BY <3>1, <3>2 DEF Budget!Next
  <2>3. ASSUME NEW o \in DOMAIN operation, Closes(o)
        PROVE  Budget!Next
    <3>1. Budget!Close(o)
      BY <2>0, <2>3, CloseRefines
    <3>2. o \in DOMAIN Account'
      BY <2>3 DEF Account, Closes
    <3>3. QED
      BY <3>1, <3>2 DEF Budget!Next
  <2>4. ASSUME Neutral, UNCHANGED policy
        PROVE  UNCHANGED Budget!bvars
    <3>1. UNCHANGED Account
      BY <2>4, NeutralRefines
    <3>2. UNCHANGED CeilingsInForce
      BY <2>4 DEF CeilingsInForce
    <3>3. QED
      BY <3>1, <3>2 DEF Budget!bvars
  <2>5. ASSUME Neutral, NEW c \in Clients, NEW p \in Policies, SetPolicy(c, p)
        PROVE  Budget!Next
    <3>1. Budget!SetCeiling(c)
      BY <2>5, PolicyRefines DEF LedgerInv
    <3>2. c \in DOMAIN CeilingsInForce
      BY DEF CeilingsInForce
    <3>3. QED
      BY <3>1, <3>2 DEF Budget!Next
  <2>6. QED
    BY <2>1, <2>2, <2>3, <2>4, <2>5, StepShape DEF LedgerInv
<1>3. QED
  BY <1>1, <1>2, LedgerInvariant, UnrecordedInvariant, PTL
  DEF Spec, ImplementsTokenBudget, Budget!Spec

=============================================================================
