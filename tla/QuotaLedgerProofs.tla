-------------------------- MODULE QuotaLedgerProofs --------------------------
(* Theorems about QuotaLedger, for every value of its constants.           *)
EXTENDS QuotaLedger, FiniteSetTheorems, TLAPS

\* The day an operation belongs to (utc_day_start) is a point in time.
LEMMA DayStartType ==
  ASSUME NEW t \in Times
  PROVE  utc_day_start(t) \in Nat
BY LedgerAssumption DEF utc_day_start, Times

\* The two keys of a request are keys of api_client_quota_usage.
LEMMA KeysType ==
  ASSUME NEW c \in Clients, NEW t \in Times
  PROVE  QuotaKeys(c, t) \subseteq QuotaKey
BY DayStartType DEF QuotaKeys, QuotaKey, Scopes

\* Total usage is a natural number.
LEMMA TotalType ==
  ASSUME NEW u \in Nat \X Nat
  PROVE  Total(u) \in Nat
BY DEF Total

\* A row of api_call_operation has the type of its columns.
LEMMA OperationType ==
  ASSUME TypeOK, NEW o \in DOMAIN operation
  PROVE  o \in Operations /\ operation[o] \in OperationRow
BY DEF TypeOK, IsTable

\* A clock reading since the start of an operation is a clock reading.
LEMMA SinceType ==
  ASSUME TypeOK, NEW o \in DOMAIN operation, NEW t \in Since(o)
  PROVE  t \in Times
<1>1. operation[o].started_at \in Times
  BY OperationType DEF OperationRow
<1>2. QED
  BY <1>1, LedgerAssumption DEF Since, Times

\* The row _insert_quota_row_if_missing leaves behind is well formed.
LEMMA RowType ==
  ASSUME TypeOK, NEW k
  PROVE  Row(k) \in QuotaRow
BY DEF TypeOK, Row, QuotaRow, EmptyRow, IsTable

\* Every transaction of quota.py, every administrative change and every purge
\* keeps the four tables well formed.
LEMMA TypeStep == TypeOK /\ [Next]_vars => TypeOK'
<1> SUFFICES ASSUME TypeOK, [Next]_vars PROVE TypeOK'
  OBVIOUS
<1>1. ASSUME NEW o \in Operations, NEW c \in Clients, NEW q \in RequestIds,
             NEW m \in Models, NEW n \in Sizes, NEW t \in Times,
             reserve_operation(o, c, q, m, n, t)
      PROVE  TypeOK'
  <2>1. IsTable(quota, QuotaKey, QuotaRow)'
    BY <1>1, KeysType, RowType, LedgerAssumption
    DEF reserve_operation, TypeOK, IsTable, QuotaRow
  <2>2. NewOperation(c, q, m, n, t) \in OperationRow
    <3>1. n \in Nat /\ NoUsage \in Nat \X Nat
      BY LedgerAssumption DEF NoUsage
    <3>2. QED
      BY <3>1 DEF NewOperation, OperationRow
  <2>3. IsTable(operation, Operations, OperationRow)'
    BY <1>1, <2>2 DEF reserve_operation, TypeOK, IsTable, Insert
  <2>4. QED
    BY <1>1, <2>1, <2>3 DEF reserve_operation, TypeOK
<1>2. ASSUME NEW o \in DOMAIN operation, NEW s \in Settlements,
             NEW t \in Since(o), record_credit_reservation(o, s, t)
      PROVE  TypeOK'
  <2>1. operation[o] \in OperationRow /\ t \in Times
    BY OperationType, SinceType
  <2>2. [operation[o] EXCEPT !.settlement = s, !.updated_at = t] \in OperationRow
    BY <2>1 DEF OperationRow
  <2>3. QED
    BY <1>2, <2>2 DEF record_credit_reservation, TypeOK, IsTable
<1>3. ASSUME NEW o \in DOMAIN operation, NEW u \in Usages,
             NEW t \in Since(o), record_provider_usage(o, u, t)
      PROVE  TypeOK'
  <2>1. operation[o] \in OperationRow /\ t \in Times /\ u \in Nat \X Nat
    BY OperationType, SinceType, LedgerAssumption
  <2>2. [operation[o] EXCEPT !.usage = u, !.usage_recorded = TRUE, !.updated_at = t]
          \in OperationRow
    BY <2>1 DEF OperationRow
  <2>3. QED
    BY <1>3, <2>2 DEF record_provider_usage, TypeOK, IsTable
<1>4. ASSUME NEW o \in DOMAIN operation, NEW t \in Since(o),
             touch_pending_operation(o, t)
      PROVE  TypeOK'
  <2>1. operation[o] \in OperationRow /\ t \in Times
    BY OperationType, SinceType
  <2>2. Later(t, operation[o].updated_at) \in Times
    BY <2>1 DEF Later, OperationRow
  <2>3. [operation[o] EXCEPT !.updated_at = Later(t, operation[o].updated_at)]
          \in OperationRow
    BY <2>1, <2>2 DEF OperationRow
  <2>4. QED
    BY <1>4, <2>3 DEF touch_pending_operation, TypeOK, IsTable
<1>5. ASSUME NEW o \in DOMAIN operation, NEW tm \in Terminals,
             NEW t \in Times, finalize_operation(o, tm, t)
      PROVE  TypeOK'
  <2> DEFINE op == operation[o]
  <2>1. op \in OperationRow
    BY DEF TypeOK, IsTable
  <2>2. tm \in Terminal
    BY LedgerAssumption
  <2>3. IsTable(operation, Operations, OperationRow)'
    <3>1. [op EXCEPT !.status = tm.status, !.code = tm.code, !.updated_at = t]
            \in OperationRow
      BY <2>1, <2>2 DEF OperationRow, Terminal
    <3>2. QED
      BY <1>5, <3>1 DEF finalize_operation, TypeOK, IsTable
  <2>4. IsTable(quota, QuotaKey, QuotaRow)'
    <3>1. op.reserved \in Nat /\ Total(op.usage) \in Nat
      BY <2>1, TotalType DEF OperationRow
    <3>2. \A k \in QuotaKeys(op.client, op.started_at) :
            k \in DOMAIN quota /\ quota[k].reserved - op.reserved \in Nat
      BY <1>5, <3>1 DEF finalize_operation, Finalizable, TypeOK, IsTable, QuotaRow
    <3>3. \A k \in QuotaKeys(op.client, op.started_at) :
            [requests |-> quota[k].requests,
             reserved |-> quota[k].reserved - op.reserved,
             consumed |-> quota[k].consumed + Total(op.usage)] \in QuotaRow
      BY <3>1, <3>2 DEF TypeOK, IsTable, QuotaRow
    <3>4. Released(op) \in [DOMAIN quota -> QuotaRow]
      BY <3>3 DEF Released, TypeOK, IsTable
    <3>5. QED
      BY <1>5, <3>4 DEF finalize_operation, TypeOK, IsTable
  <2>5. TerminalEvent(op, tm, quota', t) \in EventRow
    <3>1. \A k \in QuotaKeys(op.client, op.started_at) : quota'[k] \in QuotaRow
      BY <1>5, <2>4 DEF finalize_operation, Finalizable, Released, IsTable
    <3>2. op.usage \in Nat \X Nat
      BY <2>1 DEF OperationRow
    <3>3. QED
      BY <2>2, <3>1, <3>2
      DEF QuotaKeys, TerminalEvent, EventRow, QuotaRow, Terminal
  <2>6. IsTable(event, Operations, EventRow)'
    BY <1>5, <2>5 DEF finalize_operation, TypeOK, IsTable, Insert
  <2>7. QED
    BY <1>5, <2>3, <2>4, <2>6 DEF finalize_operation, TypeOK
<1>6. ASSUME NEW c \in Clients, NEW p \in Policies, SetPolicy(c, p)
      PROVE  TypeOK'
  BY <1>6, LedgerAssumption DEF SetPolicy, TypeOK
<1>7. ASSUME NEW cutoff \in Times, PurgeEvents(cutoff)
      PROVE  TypeOK'
  BY <1>7 DEF PurgeEvents, TypeOK, IsTable
<1>8. CASE UNCHANGED vars
  BY <1>8 DEF vars, TypeOK, IsTable
<1>9. QED
  BY <1>1, <1>2, <1>3, <1>4, <1>5, <1>6, <1>7, <1>8 DEF Next

\* The tables of the ledger stay well formed: in particular every counter of
\* api_client_quota_usage stays a natural number, so finalize_operation, which
\* subtracts a reservation, never runs into the nonnegativity constraint.
THEOREM TypeCorrect == Spec => []TypeOK
<1>1. Init => TypeOK
  BY LedgerAssumption DEF Init, TypeOK, IsTable
<1>2. TypeOK /\ [Next]_vars => TypeOK'
  BY TypeStep
<1>3. QED
  BY <1>1, <1>2, PTL DEF Spec

-----------------------------------------------------------------------------
(* Sums *)

\* A finite sum of natural numbers is a natural number.
LEMMA CellsFinite ==
  ASSUME NEW S, IsFiniteSet(S), NEW f, \A x \in S : f[x] \in Nat
  PROVE  IsFiniteSet(Cells(f, S)) /\ Sum(f, S) \in Nat
<1> DEFINE column(x) == {x} \X (1..f[x])
           T == {column(x) : x \in S}
           g == [x \in S |-> column(x)]
<1>1. g \in Surjection(S, T)
  BY DEF Surjection
<1>2. IsFiniteSet(T)
  <2> HIDE DEF T, g
  <2> QED BY <1>1, FS_Surjection
<1>3. \A C \in T : IsFiniteSet(C)
  <2> SUFFICES ASSUME NEW x \in S PROVE IsFiniteSet(column(x))
    OBVIOUS
  <2>1. IsFiniteSet({x})
    BY FS_Singleton
  <2>2. f[x] \in Int /\ 1 \in Int
    OBVIOUS
  <2>3. IsFiniteSet(1..f[x])
    BY <2>2, FS_Interval
  <2> QED BY <2>1, <2>3, FS_Product
<1>4. IsFiniteSet(Cells(f, S))
  <2> HIDE DEF T
  <2>1. IsFiniteSet(UNION T)
    BY <1>2, <1>3, FS_UNION
  <2> QED BY <2>1 DEF T, Cells
<1> QED BY <1>4, FS_CardinalityType DEF Sum

\* Adding an element adds its value to the sum.
LEMMA SumAdd ==
  ASSUME NEW S, IsFiniteSet(S), NEW f, NEW x, x \notin S,
         \A y \in S \cup {x} : f[y] \in Nat
  PROVE  Sum(f, S \cup {x}) = Sum(f, S) + f[x]
<1> DEFINE C == {x} \X (1..f[x])
<1>1. IsFiniteSet(C) /\ Cardinality(C) = f[x]
  <2>1. IsFiniteSet({x}) /\ Cardinality({x}) = 1
    BY FS_Singleton
  <2>2. IsFiniteSet(1..f[x]) /\ Cardinality(1..f[x]) = f[x]
    <3>1. 1 \in Int /\ f[x] \in Nat /\ f[x] \in Int
      OBVIOUS
    <3>2. /\ IsFiniteSet(1..f[x])
          /\ Cardinality(1..f[x]) = IF 1 > f[x] THEN 0 ELSE f[x] - 1 + 1
      BY <3>1, FS_Interval
    <3>3. QED
      BY <3>1, <3>2
  <2> QED BY <2>1, <2>2, FS_Product
<1>2. IsFiniteSet(Cells(f, S)) /\ Sum(f, S) \in Nat
  BY CellsFinite
<1>3. Cells(f, S \cup {x}) = Cells(f, S) \cup C
  BY DEF Cells
<1>4. Cells(f, S) \cap C = {}
  BY DEF Cells
<1>5. Cardinality(Cells(f, S) \cup C) = Cardinality(Cells(f, S)) + Cardinality(C) - 0
  <2> HIDE DEF C
  <2> QED BY <1>1, <1>2, <1>4, FS_Union, FS_EmptySet
<1>6. f[x] \in Nat
  OBVIOUS
<1> HIDE DEF C
<1>7. Cardinality(Cells(f, S)) \in Nat
  BY <1>2 DEF Sum
<1>8. Cardinality(Cells(f, S) \cup C) = Cardinality(Cells(f, S)) + f[x]
  BY <1>1, <1>5, <1>6, <1>7
<1> QED BY <1>3, <1>8, Zenon DEF Sum

\* A sum depends on the values of its elements only.
LEMMA SumSame ==
  ASSUME NEW S, NEW f, NEW g, \A x \in S : f[x] = g[x]
  PROVE  Sum(f, S) = Sum(g, S)
<1>1. Cells(f, S) = Cells(g, S)
  BY DEF Cells
<1> QED BY <1>1 DEF Sum

\* The empty sum is zero.
LEMMA SumEmpty == ASSUME NEW f PROVE Sum(f, {}) = 0
<1>1. Cells(f, {}) = {}
  BY DEF Cells
<1> QED BY <1>1, FS_EmptySet DEF Sum

-----------------------------------------------------------------------------
(* The ledger balances *)

\* The sets and sums that LedgerBalanced speaks of are finite.
LEMMA SumTypes ==
  ASSUME LedgerInv, NEW k
  PROVE  /\ IsFiniteSet(OperationsIn(k)) /\ IsFiniteSet(PendingIn(k))
         /\ IsFiniteSet(TerminalIn(k))
         /\ \A o \in DOMAIN operation :
              ReservedBy[o] \in Nat /\ ConsumedBy[o] \in Nat
         /\ Sum(ReservedBy, PendingIn(k)) \in Nat
         /\ Sum(ConsumedBy, TerminalIn(k)) \in Nat
<1>1. /\ OperationsIn(k) \in SUBSET DOMAIN operation
      /\ PendingIn(k) \in SUBSET DOMAIN operation
      /\ TerminalIn(k) \in SUBSET DOMAIN operation
  BY DEF OperationsIn, PendingIn, TerminalIn
<1>2. /\ IsFiniteSet(OperationsIn(k)) /\ IsFiniteSet(PendingIn(k))
      /\ IsFiniteSet(TerminalIn(k))
  BY <1>1, FS_Subset DEF LedgerInv
<1>3. ASSUME NEW o \in DOMAIN operation
      PROVE  ReservedBy[o] \in Nat /\ ConsumedBy[o] \in Nat
  <2>1. operation[o].reserved \in Nat /\ operation[o].usage \in Nat \X Nat
    BY OperationType DEF LedgerInv, OperationRow
  <2>2. QED
    BY <2>1, TotalType DEF ReservedBy, ConsumedBy
<1>4. QED
  BY <1>1, <1>2, <1>3, CellsFinite

\* A row that does not exist yet balances as well: it has no operations.
LEMMA RowBalanced ==
  ASSUME LedgerInv, NEW k
  PROVE  /\ Row(k).requests = Cardinality(OperationsIn(k))
         /\ Row(k).reserved = Sum(ReservedBy, PendingIn(k))
         /\ Row(k).consumed = Sum(ConsumedBy, TerminalIn(k))
<1>1. CASE k \in DOMAIN quota
  BY <1>1 DEF LedgerInv, LedgerBalanced, Row
<1>2. CASE k \notin DOMAIN quota
  <2>1. OperationsIn(k) = {}
    BY <1>2 DEF LedgerInv, RowsExist, OperationsIn
  <2>2. PendingIn(k) = {} /\ TerminalIn(k) = {}
    BY <2>1 DEF PendingIn, TerminalIn
  <2>3. QED
    BY <1>2, <2>1, <2>2, SumEmpty, FS_EmptySet DEF Row, EmptyRow
<1>3. QED
  BY <1>1, <1>2

\* Transactions that only attach evidence to a pending operation.
LEMMA EvidenceKeepsBalance ==
  ASSUME LedgerInv, TypeOK', UNCHANGED quota,
         DOMAIN operation' = DOMAIN operation,
         \A x \in DOMAIN operation :
           /\ operation'[x].client = operation[x].client
           /\ operation'[x].started_at = operation[x].started_at
           /\ operation'[x].status = operation[x].status
           /\ operation'[x].reserved = operation[x].reserved
           /\ operation[x].status # "pending" => operation'[x].usage = operation[x].usage
  PROVE  LedgerInv'
<1>1. \A k : /\ OperationsIn(k)' = OperationsIn(k)
             /\ PendingIn(k)' = PendingIn(k)
             /\ TerminalIn(k)' = TerminalIn(k)
  BY DEF OperationsIn, PendingIn, TerminalIn
<1>2. ASSUME NEW k
      PROVE  /\ Sum(ReservedBy, PendingIn(k))' = Sum(ReservedBy, PendingIn(k))
             /\ Sum(ConsumedBy, TerminalIn(k))' = Sum(ConsumedBy, TerminalIn(k))
  <2>1. \A x \in PendingIn(k) : ReservedBy'[x] = ReservedBy[x]
    BY DEF ReservedBy, PendingIn, OperationsIn
  <2>2. \A x \in TerminalIn(k) : ConsumedBy'[x] = ConsumedBy[x]
    BY DEF ConsumedBy, TerminalIn, OperationsIn
  <2>3. Sum(ReservedBy', PendingIn(k)) = Sum(ReservedBy, PendingIn(k))
    BY <2>1, SumSame
  <2>4. Sum(ConsumedBy', TerminalIn(k)) = Sum(ConsumedBy, TerminalIn(k))
    BY <2>2, SumSame
  <2>5. QED
    BY <1>1, <2>3, <2>4 DEF Sum, Cells
<1>3. RowsExist'
  BY DEF LedgerInv, RowsExist
<1>4. LedgerBalanced'
  BY <1>1, <1>2 DEF LedgerInv, LedgerBalanced
<1>5. QED
  BY <1>3, <1>4 DEF LedgerInv

\* An admission adds its operation to both rows, creating them if need be.
LEMMA ReserveKeepsBalance ==
  ASSUME LedgerInv, TypeOK',
         NEW o \in Operations, NEW c \in Clients, NEW q \in RequestIds,
         NEW m \in Models, NEW n \in Sizes, NEW t \in Times,
         reserve_operation(o, c, q, m, n, t)
  PROVE  LedgerInv'
<1> DEFINE K == QuotaKeys(c, t)
<1>1. /\ o \notin DOMAIN operation
      /\ DOMAIN operation' = DOMAIN operation \cup {o}
      /\ operation'[o] = NewOperation(c, q, m, n, t)
      /\ \A x \in DOMAIN operation : operation'[x] = operation[x]
  BY DEF reserve_operation, Insert
<1>2. /\ operation'[o].client = c /\ operation'[o].started_at = t
      /\ operation'[o].status = "pending" /\ operation'[o].reserved = n
  <2> DEFINE new == NewOperation(c, q, m, n, t)
  <2>1. /\ new.client = c /\ new.started_at = t
        /\ new.status = "pending" /\ new.reserved = n
    BY DEF NewOperation
  <2>2. operation'[o] = new
    BY <1>1
  <2> HIDE DEF new
  <2>3. QED
    BY <2>1, <2>2
<1>3. \A k \in K : /\ OperationsIn(k)' = OperationsIn(k) \cup {o}
                   /\ PendingIn(k)' = PendingIn(k) \cup {o}
                   /\ TerminalIn(k)' = TerminalIn(k)
  BY <1>1, <1>2 DEF OperationsIn, PendingIn, TerminalIn
<1>4. \A k : k \notin K => /\ OperationsIn(k)' = OperationsIn(k)
                          /\ PendingIn(k)' = PendingIn(k)
                          /\ TerminalIn(k)' = TerminalIn(k)
  BY <1>1, <1>2 DEF OperationsIn, PendingIn, TerminalIn
<1>5. /\ \A x \in DOMAIN operation : /\ ReservedBy'[x] = ReservedBy[x]
                                     /\ ConsumedBy'[x] = ConsumedBy[x]
      /\ ReservedBy'[o] = n
  BY <1>1, <1>2 DEF ReservedBy, ConsumedBy
<1>6. \A k : o \notin OperationsIn(k) /\ o \notin PendingIn(k)
  BY <1>1 DEF OperationsIn, PendingIn
<1>7. \A k : /\ Sum(ReservedBy', PendingIn(k)) = Sum(ReservedBy, PendingIn(k))
             /\ Sum(ConsumedBy', TerminalIn(k)) = Sum(ConsumedBy, TerminalIn(k))
  <2> TAKE k
  <2>1. /\ \A x \in PendingIn(k) : ReservedBy'[x] = ReservedBy[x]
        /\ \A x \in TerminalIn(k) : ConsumedBy'[x] = ConsumedBy[x]
    BY <1>5 DEF PendingIn, TerminalIn, OperationsIn
  <2>2. QED
    BY <2>1, SumSame
<1>8. n \in Nat
  BY LedgerAssumption
<1>9. \A k : Sum(ReservedBy', PendingIn(k) \cup {o}) = Sum(ReservedBy, PendingIn(k)) + n
  <2> TAKE k
  <2>1. \A x \in PendingIn(k) \cup {o} : ReservedBy'[x] \in Nat
    BY <1>5, <1>8, SumTypes DEF PendingIn, OperationsIn
  <2>2. Sum(ReservedBy', PendingIn(k) \cup {o}) = Sum(ReservedBy', PendingIn(k)) + ReservedBy'[o]
    BY <1>6, <2>1, SumTypes, SumAdd
  <2>3. QED
    BY <1>5, <1>7, <2>2
<1>10. \A k \in K : /\ k \in DOMAIN quota'
                    /\ quota'[k].requests = Row(k).requests + 1
                    /\ quota'[k].reserved = Row(k).reserved + n
                    /\ quota'[k].consumed = Row(k).consumed
  BY DEF reserve_operation
<1>11. /\ DOMAIN quota' = DOMAIN quota \cup K
       /\ \A k \in DOMAIN quota : k \notin K => quota'[k] = quota[k]
  BY DEF reserve_operation
<1>12. IsFiniteSet(DOMAIN operation)'
  BY <1>1, FS_AddElement DEF LedgerInv
<1>13. RowsExist'
  BY <1>1, <1>2, <1>11 DEF LedgerInv, RowsExist
<1>14. LedgerBalanced'
  <2> SUFFICES ASSUME NEW k \in DOMAIN quota'
               PROVE  /\ quota'[k].requests = Cardinality(OperationsIn(k)')
                      /\ quota'[k].reserved = Sum(ReservedBy', PendingIn(k)')
                      /\ quota'[k].consumed = Sum(ConsumedBy', TerminalIn(k)')
    BY DEF LedgerBalanced, Sum, Cells
  <2>1. CASE k \in K
    <3>1. Cardinality(OperationsIn(k) \cup {o}) = Cardinality(OperationsIn(k)) + 1
      BY <1>6, SumTypes, FS_AddElement
    <3>2. QED
      BY <2>1, <1>3, <1>7, <1>9, <1>10, <3>1, RowBalanced
  <2>2. CASE k \notin K
    <3>1. k \in DOMAIN quota /\ quota'[k] = quota[k]
      BY <2>2, <1>11
    <3>2. /\ quota[k].requests = Cardinality(OperationsIn(k))
          /\ quota[k].reserved = Sum(ReservedBy, PendingIn(k))
          /\ quota[k].consumed = Sum(ConsumedBy, TerminalIn(k))
      BY <3>1 DEF LedgerInv, LedgerBalanced
    <3>3. QED
      BY <2>2, <1>4, <1>7, <3>1, <3>2
  <2>3. QED
    BY <2>1, <2>2
<1>15. QED
  BY <1>12, <1>13, <1>14 DEF LedgerInv

\* A finalisation moves its operation from the reserved to the consumed side of
\* the rows of the day it STARTED, whatever the day it ends.
LEMMA FinalizeKeepsBalance ==
  ASSUME LedgerInv, TypeOK', NEW o \in DOMAIN operation, NEW tm \in Terminals,
         NEW t \in Times, finalize_operation(o, tm, t)
  PROVE  LedgerInv'
<1> DEFINE op == operation[o]
           K == QuotaKeys(op.client, op.started_at)
<1>1. /\ op \in OperationRow /\ op.status = "pending"
      /\ op.reserved \in Nat /\ Total(op.usage) \in Nat
  BY OperationType, TotalType DEF LedgerInv, finalize_operation, Pending, OperationRow
<1>2. tm.status # "pending"
  BY LedgerAssumption DEF Terminal
<1>3. /\ DOMAIN operation' = DOMAIN operation
      /\ \A x \in DOMAIN operation :
           /\ operation'[x].client = operation[x].client
           /\ operation'[x].started_at = operation[x].started_at
           /\ operation'[x].reserved = operation[x].reserved
           /\ operation'[x].usage = operation[x].usage
           /\ x # o => operation'[x].status = operation[x].status
      /\ operation'[o].status = tm.status
  <2>1. operation' = [operation EXCEPT ![o] =
           [op EXCEPT !.status = tm.status, !.code = tm.code, !.updated_at = t]]
    BY DEF finalize_operation
  <2>2. /\ DOMAIN operation' = DOMAIN operation
        /\ \A x \in DOMAIN operation : x # o => operation'[x] = operation[x]
        /\ operation'[o] = [op EXCEPT !.status = tm.status, !.code = tm.code, !.updated_at = t]
    BY <2>1 DEF LedgerInv, TypeOK, IsTable
  <2>3. /\ operation'[o].client = op.client
        /\ operation'[o].started_at = op.started_at
        /\ operation'[o].reserved = op.reserved
        /\ operation'[o].usage = op.usage
        /\ operation'[o].status = tm.status
    BY <1>1, <2>2 DEF OperationRow
  <2>4. QED
    BY <2>2, <2>3
<1>4. /\ ReservedBy' = ReservedBy /\ ConsumedBy' = ConsumedBy
      /\ \A k : OperationsIn(k)' = OperationsIn(k)
  BY <1>3 DEF ReservedBy, ConsumedBy, OperationsIn
<1>5. \A k \in K : /\ o \in PendingIn(k) /\ o \notin TerminalIn(k)
                   /\ PendingIn(k)' = PendingIn(k) \ {o}
                   /\ TerminalIn(k)' = TerminalIn(k) \cup {o}
  BY <1>1, <1>2, <1>3 DEF OperationsIn, PendingIn, TerminalIn
<1>6. \A k : k \notin K => /\ PendingIn(k)' = PendingIn(k)
                          /\ TerminalIn(k)' = TerminalIn(k)
  BY <1>3 DEF OperationsIn, PendingIn, TerminalIn
<1>7. ASSUME NEW k \in K
      PROVE  /\ Sum(ReservedBy, PendingIn(k)) = Sum(ReservedBy, PendingIn(k) \ {o}) + op.reserved
             /\ Sum(ReservedBy, PendingIn(k) \ {o}) \in Nat
             /\ Sum(ConsumedBy, TerminalIn(k) \cup {o}) =
                  Sum(ConsumedBy, TerminalIn(k)) + Total(op.usage)
  <2>1. /\ PendingIn(k) = (PendingIn(k) \ {o}) \cup {o}
        /\ IsFiniteSet(PendingIn(k) \ {o}) /\ IsFiniteSet(TerminalIn(k))
    BY <1>5, <1>7, SumTypes, FS_RemoveElement
  <2>2. /\ \A x \in PendingIn(k) : ReservedBy[x] \in Nat
        /\ \A x \in TerminalIn(k) \cup {o} : ConsumedBy[x] \in Nat
    BY SumTypes DEF PendingIn, TerminalIn, OperationsIn
  <2>3. ReservedBy[o] = op.reserved /\ ConsumedBy[o] = Total(op.usage)
    BY DEF ReservedBy, ConsumedBy
  <2>4. Sum(ReservedBy, (PendingIn(k) \ {o}) \cup {o}) =
          Sum(ReservedBy, PendingIn(k) \ {o}) + op.reserved
    <3> DEFINE S == PendingIn(k) \ {o}
    <3>1. IsFiniteSet(S) /\ o \notin S /\ \A x \in S \cup {o} : ReservedBy[x] \in Nat
      BY <1>5, <1>7, <2>1, <2>2
    <3> HIDE DEF S
    <3>2. Sum(ReservedBy, S \cup {o}) = Sum(ReservedBy, S) + ReservedBy[o]
      BY <3>1, SumAdd
    <3>3. QED
      BY <3>2, <2>3 DEF S
  <2>5. Sum(ConsumedBy, TerminalIn(k) \cup {o}) =
          Sum(ConsumedBy, TerminalIn(k)) + Total(op.usage)
    <3>1. o \notin TerminalIn(k)
      BY <1>5, <1>7
    <3>2. Sum(ConsumedBy, TerminalIn(k) \cup {o}) =
            Sum(ConsumedBy, TerminalIn(k)) + ConsumedBy[o]
      BY <2>1, <2>2, <3>1, SumAdd
    <3>3. QED
      BY <3>2, <2>3
  <2>6. Sum(ReservedBy, PendingIn(k) \ {o}) \in Nat
    BY <2>1, <2>2, CellsFinite
  <2>7. QED
    BY <2>1, <2>4, <2>5, <2>6
<1>8. /\ DOMAIN quota' = DOMAIN quota
      /\ \A k \in DOMAIN quota : k \notin K => quota'[k] = quota[k]
      /\ \A k \in DOMAIN quota \cap K :
           /\ quota'[k].requests = quota[k].requests
           /\ quota'[k].reserved = quota[k].reserved - op.reserved
           /\ quota'[k].consumed = quota[k].consumed + Total(op.usage)
  BY DEF finalize_operation, Released
<1>9. RowsExist'
  BY <1>3, <1>8 DEF LedgerInv, RowsExist
<1>10. LedgerBalanced'
  <2> SUFFICES ASSUME NEW k \in DOMAIN quota
               PROVE  /\ quota'[k].requests = Cardinality(OperationsIn(k)')
                      /\ quota'[k].reserved = Sum(ReservedBy', PendingIn(k)')
                      /\ quota'[k].consumed = Sum(ConsumedBy', TerminalIn(k)')
    BY <1>8 DEF LedgerBalanced, Sum, Cells
  <2>1. /\ quota[k].requests = Cardinality(OperationsIn(k))
        /\ quota[k].reserved = Sum(ReservedBy, PendingIn(k))
        /\ quota[k].consumed = Sum(ConsumedBy, TerminalIn(k))
    BY DEF LedgerInv, LedgerBalanced
  <2>2. CASE k \in K
    BY <2>1, <2>2, <1>1, <1>4, <1>5, <1>7, <1>8
  <2>3. CASE k \notin K
    BY <2>1, <2>3, <1>4, <1>6, <1>8
  <2>4. QED
    BY <2>2, <2>3
<1>11. QED
  BY <1>3, <1>9, <1>10 DEF LedgerInv

\* Every step keeps the inductive invariant.
LEMMA LedgerStep == LedgerInv /\ [Next]_vars => LedgerInv'
<1> SUFFICES ASSUME LedgerInv, [Next]_vars PROVE LedgerInv'
  OBVIOUS
<1>0. TypeOK'
  BY TypeStep DEF LedgerInv
<1>1. ASSUME NEW o \in Operations, NEW c \in Clients, NEW q \in RequestIds,
             NEW m \in Models, NEW n \in Sizes, NEW t \in Times,
             reserve_operation(o, c, q, m, n, t)
      PROVE  LedgerInv'
  BY <1>0, <1>1, ReserveKeepsBalance
<1>2. ASSUME NEW o \in DOMAIN operation, NEW s \in Settlements,
             NEW t \in Since(o), record_credit_reservation(o, s, t)
      PROVE  LedgerInv'
  <2>1. operation[o] \in OperationRow
    BY OperationType DEF LedgerInv
  <2>2. /\ DOMAIN operation' = DOMAIN operation
        /\ \A x \in DOMAIN operation : x # o => operation'[x] = operation[x]
        /\ operation'[o] = [operation[o] EXCEPT !.settlement = s, !.updated_at = t]
    BY <1>2 DEF record_credit_reservation
  <2>3. /\ operation'[o].client = operation[o].client
        /\ operation'[o].started_at = operation[o].started_at
        /\ operation'[o].status = operation[o].status
        /\ operation'[o].reserved = operation[o].reserved
        /\ operation'[o].usage = operation[o].usage
    BY <2>1, <2>2 DEF OperationRow
  <2>4. UNCHANGED quota
    BY <1>2 DEF record_credit_reservation
  <2>5. QED
    BY <1>0, <2>2, <2>3, <2>4, EvidenceKeepsBalance
<1>3. ASSUME NEW o \in DOMAIN operation, NEW u \in Usages,
             NEW t \in Since(o), record_provider_usage(o, u, t)
      PROVE  LedgerInv'
  <2>1. operation[o] \in OperationRow
    BY OperationType DEF LedgerInv
  <2>2. /\ DOMAIN operation' = DOMAIN operation
        /\ \A x \in DOMAIN operation : x # o => operation'[x] = operation[x]
        /\ operation'[o] = [operation[o] EXCEPT !.usage = u, !.usage_recorded = TRUE,
                                                !.updated_at = t]
    BY <1>3 DEF record_provider_usage
  <2>3. /\ operation'[o].client = operation[o].client
        /\ operation'[o].started_at = operation[o].started_at
        /\ operation'[o].status = operation[o].status
        /\ operation'[o].reserved = operation[o].reserved
    BY <2>1, <2>2 DEF OperationRow
  <2>4. UNCHANGED quota /\ operation[o].status = "pending"
    BY <1>3 DEF record_provider_usage, Pending
  <2>5. QED
    BY <1>0, <2>2, <2>3, <2>4, EvidenceKeepsBalance
<1>4. ASSUME NEW o \in DOMAIN operation, NEW t \in Since(o),
             touch_pending_operation(o, t)
      PROVE  LedgerInv'
  <2>1. operation[o] \in OperationRow
    BY OperationType DEF LedgerInv
  <2>2. /\ DOMAIN operation' = DOMAIN operation
        /\ \A x \in DOMAIN operation : x # o => operation'[x] = operation[x]
        /\ operation'[o] = [operation[o] EXCEPT !.updated_at = Later(t, operation[o].updated_at)]
    BY <1>4 DEF touch_pending_operation
  <2>3. /\ operation'[o].client = operation[o].client
        /\ operation'[o].started_at = operation[o].started_at
        /\ operation'[o].status = operation[o].status
        /\ operation'[o].reserved = operation[o].reserved
        /\ operation'[o].usage = operation[o].usage
    BY <2>1, <2>2 DEF OperationRow
  <2>4. UNCHANGED quota
    BY <1>4 DEF touch_pending_operation
  <2>5. QED
    BY <1>0, <2>2, <2>3, <2>4, EvidenceKeepsBalance
<1>5. ASSUME NEW o \in DOMAIN operation, NEW tm \in Terminals,
             NEW t \in Times, finalize_operation(o, tm, t)
      PROVE  LedgerInv'
  BY <1>0, <1>5, FinalizeKeepsBalance
<1>6. ASSUME UNCHANGED <<operation, quota>>
      PROVE  LedgerInv'
  BY <1>0, <1>6, EvidenceKeepsBalance
<1>7. ASSUME NEW c \in Clients, NEW p \in Policies, SetPolicy(c, p)
      PROVE  LedgerInv'
  BY <1>6, <1>7 DEF SetPolicy
<1>8. ASSUME NEW cutoff \in Times, PurgeEvents(cutoff)
      PROVE  LedgerInv'
  BY <1>6, <1>8 DEF PurgeEvents
<1>9. CASE UNCHANGED vars
  BY <1>6, <1>9 DEF vars
<1>10. QED
  BY <1>1, <1>2, <1>3, <1>4, <1>5, <1>7, <1>8, <1>9 DEF Next

\* The inductive invariant holds from the empty ledger on.
LEMMA LedgerInvariant == Spec => []LedgerInv
<1>1. Init => LedgerInv
  <2> SUFFICES ASSUME Init PROVE LedgerInv
    OBVIOUS
  <2>1. TypeOK
    BY LedgerAssumption DEF Init, TypeOK, IsTable
  <2>2. DOMAIN operation = {} /\ DOMAIN quota = {}
    BY DEF Init
  <2>3. IsFiniteSet(DOMAIN operation)
    BY <2>2, FS_EmptySet
  <2>4. QED
    BY <2>1, <2>2, <2>3 DEF LedgerInv, RowsExist, LedgerBalanced
<1>2. LedgerInv /\ [Next]_vars => LedgerInv'
  BY LedgerStep
<1>3. QED
  BY <1>1, <1>2, PTL DEF Spec

\* For any number of callers, operations and days: every quota row is at all
\* times what the operations imply, although reserve_operation and
\* finalize_operation only ever add to and subtract from it.
THEOREM LedgerIsBalanced == Spec => []LedgerBalanced
<1>1. LedgerInv => LedgerBalanced
  BY DEF LedgerInv
<1>2. QED
  BY <1>1, LedgerInvariant, PTL

\* For any number of callers, operations and days: finalize_operation always
\* finds both rows of a pending operation, still holding its reservation.
THEOREM ReservationIsCovered == Spec => []ReservationCovered
<1>1. LedgerInv => ReservationCovered
  <2> SUFFICES ASSUME LedgerInv, NEW o \in DOMAIN operation,
                      operation[o].status = "pending",
                      NEW k \in QuotaKeys(operation[o].client, operation[o].started_at)
               PROVE  k \in DOMAIN quota /\ quota[k].reserved >= operation[o].reserved
    BY DEF ReservationCovered
  <2> DEFINE S == PendingIn(k) \ {o}
  <2>1. k \in DOMAIN quota
    BY DEF LedgerInv, RowsExist
  <2>2. o \in PendingIn(k)
    BY DEF PendingIn, OperationsIn
  <2>3. \A x \in PendingIn(k) : ReservedBy[x] \in Nat
    BY SumTypes DEF PendingIn, OperationsIn
  <2>4. /\ PendingIn(k) = S \cup {o} /\ IsFiniteSet(S) /\ o \notin S
        /\ \A x \in S \cup {o} : ReservedBy[x] \in Nat
    BY <2>2, <2>3, SumTypes, FS_RemoveElement
  <2> HIDE DEF S
  <2>5. Sum(ReservedBy, S \cup {o}) = Sum(ReservedBy, S) + ReservedBy[o]
    BY <2>4, SumAdd
  <2>6. Sum(ReservedBy, S) \in Nat /\ ReservedBy[o] \in Nat
    BY <2>4, CellsFinite
  <2>7. ReservedBy[o] = operation[o].reserved
    BY DEF ReservedBy
  <2>8. quota[k].reserved = Sum(ReservedBy, PendingIn(k))
    BY <2>1 DEF LedgerInv, LedgerBalanced
  <2>9. QED
    BY <2>1, <2>4, <2>5, <2>6, <2>7, <2>8
<1>2. QED
  BY <1>1, LedgerInvariant, PTL

-----------------------------------------------------------------------------
(* Operations and events *)

\* What any step of the ledger may do to the operation table: nothing at all to
\* an operation that is terminal or to the identity of one that is pending, and
\* it admits at most one operation, under an identity nobody has used.
LEMMA OperationStep ==
  ASSUME TypeOK, [Next]_vars
  PROVE  /\ \A x \in DOMAIN operation :
              /\ x \in DOMAIN operation'
              /\ operation'[x].client = operation[x].client
              /\ operation'[x].request_id = operation[x].request_id
              /\ operation[x].status # "pending" => operation'[x] = operation[x]
         /\ \E o : /\ DOMAIN operation' \subseteq DOMAIN operation \cup {o}
                   /\ o \in DOMAIN operation' \ DOMAIN operation =>
                        ~_raise_for_existing_operation(operation'[o].client,
                                                       operation'[o].request_id)
<1> DEFINE Kept == \A x \in DOMAIN operation :
              /\ x \in DOMAIN operation'
              /\ operation'[x].client = operation[x].client
              /\ operation'[x].request_id = operation[x].request_id
              /\ operation[x].status # "pending" => operation'[x] = operation[x]
           New(o) == /\ DOMAIN operation' \subseteq DOMAIN operation \cup {o}
                     /\ o \in DOMAIN operation' \ DOMAIN operation =>
                          ~_raise_for_existing_operation(operation'[o].client,
                                                         operation'[o].request_id)
<1> SUFFICES Kept /\ \E o : New(o)
  OBVIOUS
<1>1. ASSUME NEW o \in Operations, NEW c \in Clients, NEW q \in RequestIds,
             NEW m \in Models, NEW n \in Sizes, NEW t \in Times,
             reserve_operation(o, c, q, m, n, t)
      PROVE  Kept /\ New(o)
  <2> DEFINE new == NewOperation(c, q, m, n, t)
  <2>1. /\ o \notin DOMAIN operation
        /\ DOMAIN operation' = DOMAIN operation \cup {o}
        /\ operation'[o] = new
        /\ \A x \in DOMAIN operation : operation'[x] = operation[x]
    BY <1>1 DEF reserve_operation, Insert
  <2>2. new.client = c /\ new.request_id = q
    BY DEF NewOperation
  <2>3. ~_raise_for_existing_operation(c, q)
    BY <1>1 DEF reserve_operation
  <2> HIDE DEF new
  <2>4. operation'[o].client = c /\ operation'[o].request_id = q
    BY <2>1, <2>2
  <2>5. QED
    BY <2>1, <2>3, <2>4
<1>2. ASSUME NEW o \in DOMAIN operation, operation[o].status = "pending",
             DOMAIN operation' = DOMAIN operation,
             \A x \in DOMAIN operation : x # o => operation'[x] = operation[x],
             operation'[o].client = operation[o].client,
             operation'[o].request_id = operation[o].request_id
      PROVE  Kept /\ New(o)
  BY <1>2
<1>3. ASSUME NEW o \in DOMAIN operation, NEW s \in Settlements,
             NEW t \in Since(o), record_credit_reservation(o, s, t)
      PROVE  Kept /\ New(o)
  <2>1. operation[o] \in OperationRow
    BY OperationType
  <2>2. /\ operation[o].status = "pending" /\ DOMAIN operation' = DOMAIN operation
        /\ \A x \in DOMAIN operation : x # o => operation'[x] = operation[x]
        /\ operation'[o] = [operation[o] EXCEPT !.settlement = s, !.updated_at = t]
    BY <1>3 DEF record_credit_reservation, Pending
  <2>3. /\ operation'[o].client = operation[o].client
        /\ operation'[o].request_id = operation[o].request_id
    BY <2>1, <2>2 DEF OperationRow
  <2>4. QED
    BY <1>2, <2>2, <2>3
<1>4. ASSUME NEW o \in DOMAIN operation, NEW u \in Usages,
             NEW t \in Since(o), record_provider_usage(o, u, t)
      PROVE  Kept /\ New(o)
  <2>1. operation[o] \in OperationRow
    BY OperationType
  <2>2. /\ operation[o].status = "pending" /\ DOMAIN operation' = DOMAIN operation
        /\ \A x \in DOMAIN operation : x # o => operation'[x] = operation[x]
        /\ operation'[o] = [operation[o] EXCEPT !.usage = u, !.usage_recorded = TRUE,
                                                !.updated_at = t]
    BY <1>4 DEF record_provider_usage, Pending
  <2>3. /\ operation'[o].client = operation[o].client
        /\ operation'[o].request_id = operation[o].request_id
    BY <2>1, <2>2 DEF OperationRow
  <2>4. QED
    BY <1>2, <2>2, <2>3
<1>5. ASSUME NEW o \in DOMAIN operation, NEW t \in Since(o),
             touch_pending_operation(o, t)
      PROVE  Kept /\ New(o)
  <2>1. operation[o] \in OperationRow
    BY OperationType
  <2>2. /\ operation[o].status = "pending" /\ DOMAIN operation' = DOMAIN operation
        /\ \A x \in DOMAIN operation : x # o => operation'[x] = operation[x]
        /\ operation'[o] = [operation[o] EXCEPT !.updated_at = Later(t, operation[o].updated_at)]
    BY <1>5 DEF touch_pending_operation, Pending
  <2>3. /\ operation'[o].client = operation[o].client
        /\ operation'[o].request_id = operation[o].request_id
    BY <2>1, <2>2 DEF OperationRow
  <2>4. QED
    BY <1>2, <2>2, <2>3
<1>6. ASSUME NEW o \in DOMAIN operation, NEW tm \in Terminals,
             NEW t \in Times, finalize_operation(o, tm, t)
      PROVE  Kept /\ New(o)
  <2>1. operation[o] \in OperationRow
    BY OperationType
  <2>2. /\ operation[o].status = "pending" /\ DOMAIN operation' = DOMAIN operation
        /\ \A x \in DOMAIN operation : x # o => operation'[x] = operation[x]
        /\ operation'[o] = [operation[o] EXCEPT !.status = tm.status, !.code = tm.code,
                                                !.updated_at = t]
    BY <1>6 DEF finalize_operation, Pending
  <2>3. /\ operation'[o].client = operation[o].client
        /\ operation'[o].request_id = operation[o].request_id
    BY <2>1, <2>2 DEF OperationRow
  <2>4. QED
    BY <1>2, <2>2, <2>3
<1>7. ASSUME UNCHANGED operation
      PROVE  Kept /\ \E o : New(o)
  BY <1>7
<1>8. ASSUME NEW c \in Clients, NEW p \in Policies, SetPolicy(c, p)
      PROVE  Kept /\ \E o : New(o)
  BY <1>7, <1>8 DEF SetPolicy
<1>9. ASSUME NEW cutoff \in Times, PurgeEvents(cutoff)
      PROVE  Kept /\ \E o : New(o)
  BY <1>7, <1>9 DEF PurgeEvents
<1>10. CASE UNCHANGED vars
  BY <1>7, <1>10 DEF vars
<1> HIDE DEF Kept, New
<1>11. QED
  BY <1>1, <1>3, <1>4, <1>5, <1>6, <1>8, <1>9, <1>10 DEF Next

\* For any number of callers and requests: a request ID is admitted at most
\* once for ever, although admission only looks for an existing operation and
\* operations end, and their events are purged, in between.
THEOREM RequestIdsAreIdempotent == Spec => []OneOperationPerRequestId
<1>1. Init => OneOperationPerRequestId
  BY DEF Init, OneOperationPerRequestId
<1>2. TypeOK /\ OneOperationPerRequestId /\ [Next]_vars => OneOperationPerRequestId'
  <2> SUFFICES ASSUME TypeOK, OneOperationPerRequestId, [Next]_vars,
                      NEW x1 \in DOMAIN operation', NEW x2 \in DOMAIN operation',
                      operation'[x1].client = operation'[x2].client,
                      operation'[x1].request_id = operation'[x2].request_id
               PROVE  x1 = x2
    BY DEF OneOperationPerRequestId
  <2>1. PICK o : /\ DOMAIN operation' \subseteq DOMAIN operation \cup {o}
                 /\ o \in DOMAIN operation' \ DOMAIN operation =>
                      ~_raise_for_existing_operation(operation'[o].client,
                                                     operation'[o].request_id)
    BY OperationStep
  <2>2. \A x \in DOMAIN operation :
          /\ operation'[x].client = operation[x].client
          /\ operation'[x].request_id = operation[x].request_id
    BY OperationStep
  <2>3. CASE x1 \in DOMAIN operation /\ x2 \in DOMAIN operation
    BY <2>2, <2>3 DEF OneOperationPerRequestId
  <2>4. CASE x1 \in DOMAIN operation /\ x2 \notin DOMAIN operation
    BY <2>1, <2>2, <2>4 DEF _raise_for_existing_operation
  <2>5. CASE x1 \notin DOMAIN operation /\ x2 \in DOMAIN operation
    BY <2>1, <2>2, <2>5 DEF _raise_for_existing_operation
  <2>6. CASE x1 \notin DOMAIN operation /\ x2 \notin DOMAIN operation
    BY <2>1, <2>6
  <2>7. QED
    BY <2>3, <2>4, <2>5, <2>6
<1>3. QED
  BY <1>1, <1>2, TypeCorrect, PTL DEF Spec

\* How a step changes the events: it inserts the event of the operation it
\* finalises, or deletes some, and otherwise leaves them alone.
LEMMA EventStep ==
  ASSUME TypeOK, [Next]_vars
  PROVE  \/ /\ DOMAIN event' \subseteq DOMAIN event
            /\ \A x \in DOMAIN event' : event'[x] = event[x]
         \/ \E o \in DOMAIN operation :
              /\ operation[o].status = "pending"
              /\ DOMAIN event' = DOMAIN event \cup {o}
              /\ \A x \in DOMAIN event : x # o => event'[x] = event[x]
              /\ o \in DOMAIN operation'
              /\ event'[o].status = operation'[o].status
              /\ event'[o].code = operation'[o].code
              /\ event'[o].usage = operation'[o].usage
<1> DEFINE Fewer == /\ DOMAIN event' \subseteq DOMAIN event
                    /\ \A x \in DOMAIN event' : event'[x] = event[x]
           Adds(o) ==
              /\ operation[o].status = "pending"
              /\ DOMAIN event' = DOMAIN event \cup {o}
              /\ \A x \in DOMAIN event : x # o => event'[x] = event[x]
              /\ o \in DOMAIN operation'
              /\ event'[o].status = operation'[o].status
              /\ event'[o].code = operation'[o].code
              /\ event'[o].usage = operation'[o].usage
<1> SUFFICES Fewer \/ \E o \in DOMAIN operation : Adds(o)
  OBVIOUS
<1>1. ASSUME UNCHANGED event PROVE Fewer
  BY <1>1
<1>2. ASSUME NEW o \in DOMAIN operation, NEW tm \in Terminals,
             NEW t \in Times, finalize_operation(o, tm, t)
      PROVE  Adds(o)
  <2> DEFINE ev == TerminalEvent(operation[o], tm, quota', t)
  <2>1. operation[o] \in OperationRow
    BY OperationType
  <2>2. /\ operation[o].status = "pending" /\ DOMAIN operation' = DOMAIN operation
        /\ operation'[o] = [operation[o] EXCEPT !.status = tm.status, !.code = tm.code,
                                                !.updated_at = t]
    BY <1>2 DEF finalize_operation, Pending
  <2>3. /\ operation'[o].status = tm.status /\ operation'[o].code = tm.code
        /\ operation'[o].usage = operation[o].usage
    BY <2>1, <2>2 DEF OperationRow
  <2>4. /\ ev.status = tm.status /\ ev.code = tm.code
        /\ ev.usage = operation[o].usage
    BY DEF TerminalEvent
  <2>5. event' = Insert(event, o, ev)
    BY <1>2 DEF finalize_operation
  <2> HIDE DEF ev
  <2>6. /\ DOMAIN event' = DOMAIN event \cup {o} /\ event'[o] = ev
        /\ \A x \in DOMAIN event : x # o => event'[x] = event[x]
    BY <2>5 DEF Insert
  <2>7. QED
    BY <2>2, <2>3, <2>4, <2>6
<1>3. ASSUME NEW cutoff \in Times, PurgeEvents(cutoff)
      PROVE  Fewer
  BY <1>3 DEF PurgeEvents
<1> HIDE DEF Fewer, Adds
<1>4. QED
  BY <1>1, <1>2, <1>3
  DEF Next, vars, reserve_operation, record_credit_reservation,
      record_provider_usage, touch_pending_operation, SetPolicy

\* A pending operation has no event yet.
LEMMA PendingHasNoEvent ==
  ASSUME TypeOK, EventMatchesOperation, NEW o \in DOMAIN event
  PROVE  o \in DOMAIN operation /\ operation[o].status # "pending"
<1>1. event[o].status \in {"completed", "rejected", "abandoned"}
  BY DEF TypeOK, IsTable, EventRow
<1>2. QED
  BY <1>1 DEF EventMatchesOperation

\* For any number of operations: event and operation agree for ever.
THEOREM EventsAgree == Spec => []EventMatchesOperation
<1>1. Init => EventMatchesOperation
  BY DEF Init, EventMatchesOperation
<1>2. TypeOK /\ EventMatchesOperation /\ [Next]_vars => EventMatchesOperation'
  <2> SUFFICES ASSUME TypeOK, EventMatchesOperation, [Next]_vars,
                      NEW x \in DOMAIN event'
               PROVE  /\ x \in DOMAIN operation'
                      /\ operation'[x].status = event'[x].status
                      /\ operation'[x].code = event'[x].code
                      /\ operation'[x].usage = event'[x].usage
    BY DEF EventMatchesOperation
  <2>1. CASE x \in DOMAIN event /\ event'[x] = event[x]
    <3>1. x \in DOMAIN operation /\ operation[x].status # "pending"
      BY <2>1, PendingHasNoEvent
    <3>2. x \in DOMAIN operation' /\ operation'[x] = operation[x]
      BY <3>1, OperationStep
    <3>3. QED
      BY <2>1, <3>2 DEF EventMatchesOperation
  <2>2. CASE ~(x \in DOMAIN event /\ event'[x] = event[x])
    <3>1. ~(/\ DOMAIN event' \subseteq DOMAIN event
            /\ \A y \in DOMAIN event' : event'[y] = event[y])
      BY <2>2
    <3>2. PICK o \in DOMAIN operation :
              /\ DOMAIN event' = DOMAIN event \cup {o}
              /\ \A y \in DOMAIN event : y # o => event'[y] = event[y]
              /\ o \in DOMAIN operation'
              /\ event'[o].status = operation'[o].status
              /\ event'[o].code = operation'[o].code
              /\ event'[o].usage = operation'[o].usage
      BY <3>1, EventStep
    <3>3. x = o
      BY <2>2, <3>2
    <3>4. QED
      BY <3>2, <3>3
  <2>3. QED
    BY <2>1, <2>2
<1>3. QED
  BY <1>1, <1>2, TypeCorrect, PTL DEF Spec

\* For any number of operations: once terminal, always the same, and an event
\* is never rewritten.  EventMatchesOperation is what rules out a second event
\* for the operation a finalisation works on.
THEOREM TerminalStaysFinal == Spec => TerminalIsFinal
<1>1. TypeOK /\ EventMatchesOperation /\ [Next]_vars =>
        [/\ \A o \in DOMAIN operation :
              /\ o \in DOMAIN operation'
              /\ operation[o].status # "pending" => operation'[o] = operation[o]
         /\ \A o \in DOMAIN event \cap DOMAIN event' : event'[o] = event[o]]_vars
  <2> SUFFICES ASSUME TypeOK, EventMatchesOperation, [Next]_vars
               PROVE  /\ \A o \in DOMAIN operation :
                           /\ o \in DOMAIN operation'
                           /\ operation[o].status # "pending" => operation'[o] = operation[o]
                      /\ \A o \in DOMAIN event \cap DOMAIN event' : event'[o] = event[o]
    OBVIOUS
  <2>1. \A o \in DOMAIN operation :
          /\ o \in DOMAIN operation'
          /\ operation[o].status # "pending" => operation'[o] = operation[o]
    BY OperationStep
  <2>2. \A o \in DOMAIN event \cap DOMAIN event' : event'[o] = event[o]
    BY EventStep, PendingHasNoEvent
  <2>3. QED
    BY <2>1, <2>2
<1>2. QED
  BY <1>1, TypeCorrect, EventsAgree, PTL DEF Spec, TerminalIsFinal

-----------------------------------------------------------------------------
(* The administrators' summary *)

\* A sum over a part is at most the sum over the whole.
LEMMA SumMonotone ==
  ASSUME NEW S, IsFiniteSet(S), NEW f, \A x \in S : f[x] \in Nat, NEW T \in SUBSET S
  PROVE  Sum(f, T) \in Nat /\ Sum(f, T) <= Sum(f, S)
<1>1. Cells(f, T) \in SUBSET Cells(f, S)
  BY DEF Cells
<1>2. IsFiniteSet(Cells(f, S))
  BY CellsFinite
<1>3. IsFiniteSet(T)
  BY FS_Subset
<1> QED BY <1>1, <1>2, <1>3, FS_Subset, CellsFinite DEF Sum

\* The classes p sorts S into, and h as the sum of f over each of them.
Classes(p, S) == {p[x] : x \in S}
SumsByClass(h, f, p, S) ==
  \A b \in Classes(p, S) : h[b] = Sum(f, {x \in S : p[x] = b})

\* A sum taken class by class is the sum: what the buckets of a trend add up
\* to.  Numbering the cells of each class maps the cells of the sum of the
\* class sums one to one onto the cells of the sum.
LEMMA SumOfParts ==
  ASSUME NEW S, IsFiniteSet(S), NEW f, \A x \in S : f[x] \in Nat,
         NEW p, NEW h, SumsByClass(h, f, p, S)
  PROVE  Sum(h, Classes(p, S)) = Sum(f, S)
<1> DEFINE B == Classes(p, S)
           Class(b) == {x \in S : p[x] = b}
           C(b) == Cells(f, Class(b))
           G == [b \in B |-> CHOOSE g : g \in Bijection(1..h[b], C(b))]
           D == Cells(h, B)
           R == Cells(f, S)
           m == [z \in D |-> G[z[1]][z[2]]]
<1>1. ASSUME NEW b \in B
      PROVE  h[b] \in Nat /\ G[b] \in Bijection(1..h[b], C(b))
  <2>1. Class(b) \in SUBSET S /\ IsFiniteSet(Class(b))
    BY FS_Subset
  <2>2. IsFiniteSet(C(b)) /\ Sum(f, Class(b)) \in Nat
    <3> HIDE DEF Class
    <3> QED BY <2>1, CellsFinite
  <2>3. h[b] = Cardinality(C(b)) /\ h[b] \in Nat
    BY <2>2 DEF Sum, SumsByClass
  <2>4. ExistsBijection(1..h[b], C(b))
    <3> HIDE DEF C
    <3> QED BY <2>2, <2>3, FS_CardinalityType
  <2> QED BY <2>3, <2>4 DEF ExistsBijection
<1>2. IsFiniteSet(B)
  <2>1. [x \in S |-> p[x]] \in Surjection(S, B)
    BY DEF Surjection, Classes
  <2> QED BY <2>1, FS_Surjection
<1>3. IsFiniteSet(D)
  BY <1>1, <1>2, CellsFinite
<1>4. \A z \in D : z[1] \in B /\ z[2] \in 1..h[z[1]] /\ z = <<z[1], z[2]>>
  BY DEF Cells
<1>5. \A b \in B : \A i \in 1..h[b] : <<b, i>> \in D
  BY DEF Cells
<1>6. \A b \in B : \A y \in C(b) : y \in R /\ p[y[1]] = b
  BY DEF Cells
<1>7. \A y \in R : p[y[1]] \in B /\ y \in C(p[y[1]])
  BY DEF Cells, Classes
<1>8. ASSUME NEW b \in B
      PROVE  /\ \A i \in 1..h[b] : G[b][i] \in C(b)
             /\ \A i, j \in 1..h[b] : G[b][i] = G[b][j] => i = j
             /\ \A y \in C(b) : \E i \in 1..h[b] : G[b][i] = y
  <2> HIDE DEF G, C
  <2> QED BY <1>1 DEF Bijection, Injection, Surjection, IsInjective
<1> HIDE DEF G, C, D, R
<1>9. m \in [D -> R]
  BY <1>4, <1>6, <1>8
<1>10. ASSUME NEW y \in D, NEW z \in D, m[y] = m[z] PROVE y = z
  <2>1. /\ G[y[1]][y[2]] \in C(y[1]) /\ G[z[1]][z[2]] \in C(z[1])
        /\ G[y[1]][y[2]] = G[z[1]][z[2]]
    BY <1>4, <1>8, <1>10
  <2>2. y[1] = z[1]
    BY <2>1, <1>4, <1>6
  <2>3. y[2] = z[2]
    BY <2>1, <2>2, <1>4, <1>8
  <2> QED BY <2>2, <2>3, <1>4
<1>11. ASSUME NEW y \in R PROVE \E z \in D : m[z] = y
  <2>1. PICK i \in 1..h[p[y[1]]] : G[p[y[1]]][i] = y
    BY <1>7, <1>8
  <2>2. <<p[y[1]], i>> \in D
    BY <1>5, <1>7
  <2> QED BY <2>1, <2>2
<1>12. ExistsBijection(D, R)
  <2> HIDE DEF m
  <2> QED BY <1>9, <1>10, <1>11
    DEF ExistsBijection, Bijection, Injection, Surjection, IsInjective
<1>13. Cardinality(R) = Cardinality(D)
  BY <1>3, <1>12, FS_Bijection
<1> QED BY <1>13 DEF D, R, Sum

\* The events a summary of a caller selects belong to terminal operations of
\* its lifetime row, and carry the usage those were charged.
LEMMA SelectedEvents ==
  ASSUME TypeOK, EventMatchesOperation, NEW c \in Clients
  PROVE  LET k == <<c, "lifetime", 0>>
             rows == _conditions(c, 0, MaxTime)
         IN  /\ rows \in SUBSET TerminalIn(k)
             /\ TerminalIn(k) \subseteq DOMAIN event => rows = TerminalIn(k)
             /\ \A o \in rows : /\ Total(event[o].usage) = ConsumedBy[o]
                                /\ event[o].created_at \in Nat
<1> DEFINE k == <<c, "lifetime", 0>>
           rows == _conditions(c, 0, MaxTime)
<1>1. rows = {o \in DOMAIN event : operation[o].client = c}
  <2>1. \A o \in DOMAIN event : event[o].created_at \in 0..MaxTime
    BY DEF TypeOK, IsTable, EventRow, Times
  <2> QED BY <2>1, LedgerAssumption DEF _conditions
<1>2. \A o \in DOMAIN operation : o \in OperationsIn(k) <=> operation[o].client = c
  BY DEF OperationsIn, QuotaKeys
<1>3. \A o \in DOMAIN event : o \in DOMAIN operation /\ operation[o].status # "pending"
  BY PendingHasNoEvent
<1>4. rows \in SUBSET TerminalIn(k)
  BY <1>1, <1>2, <1>3 DEF TerminalIn
<1>5. ASSUME TerminalIn(k) \subseteq DOMAIN event PROVE rows = TerminalIn(k)
  <2>1. \A o \in TerminalIn(k) : o \in DOMAIN operation /\ operation[o].client = c
    BY <1>2 DEF TerminalIn, OperationsIn
  <2> QED BY <1>1, <1>4, <1>5, <2>1
<1>6. \A o \in rows : /\ Total(event[o].usage) = ConsumedBy[o]
                      /\ event[o].created_at \in Nat
  <2> SUFFICES ASSUME NEW o \in rows
               PROVE  Total(event[o].usage) = ConsumedBy[o] /\ event[o].created_at \in Nat
    OBVIOUS
  <2>1. o \in DOMAIN event /\ o \in DOMAIN operation
    BY <1>1, <1>3
  <2>2. event[o].usage = operation[o].usage
    BY <2>1 DEF EventMatchesOperation
  <2>3. event[o].created_at \in Nat
    BY <2>1, LedgerAssumption DEF TypeOK, IsTable, EventRow, Times
  <2> QED BY <2>1, <2>2, <2>3 DEF ConsumedBy
<1> QED BY <1>4, <1>5, <1>6

\* An operation of a row is either in flight or terminal.
LEMMA InFlightOrTerminal ==
  ASSUME LedgerInv, NEW k
  PROVE  /\ Cardinality(TerminalIn(k)) \in Nat /\ Cardinality(PendingIn(k)) \in Nat
         /\ Cardinality(OperationsIn(k)) =
              Cardinality(TerminalIn(k)) + Cardinality(PendingIn(k))
<1>1. IsFiniteSet(TerminalIn(k)) /\ IsFiniteSet(PendingIn(k))
  BY SumTypes
<1>2. /\ OperationsIn(k) = TerminalIn(k) \cup PendingIn(k)
      /\ TerminalIn(k) \cap PendingIn(k) = {}
  BY DEF TerminalIn, PendingIn
<1>3. Cardinality(TerminalIn(k)) \in Nat /\ Cardinality(PendingIn(k)) \in Nat
  BY <1>1, FS_CardinalityType
<1>4. Cardinality(TerminalIn(k) \cup PendingIn(k)) =
        Cardinality(TerminalIn(k)) + Cardinality(PendingIn(k)) - Cardinality({})
  BY <1>1, <1>2, FS_Union
<1> QED BY <1>2, <1>3, <1>4, FS_EmptySet

\* For any number of callers, events and buckets: the administrators' summary
\* (summarize), which adds up event rows unless they are too many, agrees
\* with the quota row that reserve_operation and finalize_operation keep, and
\* its trend adds up to its totals.  Both accounts are sums over the same operations: LedgerInv says it
\* of the row, EventMatchesOperation of the events.
THEOREM SummaryAgreesWithLedger == Spec => []SummaryMatchesLedger
<1>1. LedgerInv /\ EventMatchesOperation => SummaryMatchesLedger
  <2> SUFFICES ASSUME LedgerInv, EventMatchesOperation, NEW c \in Clients
               PROVE  LET k == <<c, "lifetime", 0>>
                          rows == _conditions(c, 0, MaxTime)
                          summary == summarize(rows, SecondsPerDay)
                          trend == summary.trend
                      IN  /\ summary.totals.total_tokens <= Row(k).consumed
                          /\ TerminalIn(k) \subseteq DOMAIN event =>
                               /\ summary.totals.total_tokens = Row(k).consumed
                               /\ summary.totals.request_count + Cardinality(PendingIn(k))
                                    = Row(k).requests
                          /\ Sum([b \in DOMAIN trend |-> trend[b].total_tokens], DOMAIN trend)
                               = summary.totals.total_tokens
    BY DEF SummaryMatchesLedger
  <2> DEFINE k == <<c, "lifetime", 0>>
             rows == _conditions(c, 0, MaxTime)
             tokens == [o \in rows |-> Total(event[o].usage)]
             bucket == [o \in rows |-> event[o].created_at - (event[o].created_at % SecondsPerDay)]
             B == {bucket[o] : o \in rows}
             part == [b \in B |-> Sum(tokens, {o \in rows : bucket[o] = b})]
             summary == summarize(rows, SecondsPerDay)
             trend == summary.trend
  <2>1. TypeOK
    BY DEF LedgerInv
  <2>2. /\ rows \in SUBSET TerminalIn(k)
        /\ TerminalIn(k) \subseteq DOMAIN event => rows = TerminalIn(k)
        /\ \A o \in rows : Total(event[o].usage) = ConsumedBy[o]
    BY <2>1, SelectedEvents
  <2>3. summary.totals.total_tokens = Sum(tokens, rows)
    BY DEF summarize
  <2>4. summary.totals.request_count = Cardinality(rows)
    BY DEF summarize
  <2>5. DOMAIN trend = B /\ \A b \in B : trend[b].total_tokens = part[b]
    BY DEF summarize
  <2> HIDE DEF summary, rows
  <2>6. Sum(tokens, rows) = Sum(ConsumedBy, rows)
    BY <2>2, SumSame
  <2>7. /\ IsFiniteSet(TerminalIn(k)) /\ TerminalIn(k) \in SUBSET DOMAIN operation
        /\ \A o \in TerminalIn(k) : ConsumedBy[o] \in Nat
    BY SumTypes DEF TerminalIn, OperationsIn
  <2>8. Row(k).consumed = Sum(ConsumedBy, TerminalIn(k))
    BY RowBalanced
  <2>9. Row(k).requests = Cardinality(OperationsIn(k))
    BY RowBalanced
  <2>10. summary.totals.total_tokens <= Row(k).consumed
    BY <2>2, <2>3, <2>6, <2>7, <2>8, SumMonotone
  <2>11. ASSUME TerminalIn(k) \subseteq DOMAIN event
         PROVE  /\ summary.totals.total_tokens = Row(k).consumed
                /\ summary.totals.request_count + Cardinality(PendingIn(k)) = Row(k).requests
    BY <2>11, <2>2, <2>3, <2>4, <2>6, <2>8, <2>9, InFlightOrTerminal
  <2>12. Sum([b \in DOMAIN trend |-> trend[b].total_tokens], DOMAIN trend)
           = summary.totals.total_tokens
    <3>1. Sum([b \in DOMAIN trend |-> trend[b].total_tokens], DOMAIN trend) = Sum(part, B)
      BY <2>5, SumSame
    <3>2. IsFiniteSet(rows) /\ \A o \in rows : tokens[o] \in Nat
      BY <2>2, <2>7, FS_Subset
    <3>3. B = Classes(bucket, rows) /\ SumsByClass(part, tokens, bucket, rows)
      BY DEF Classes, SumsByClass
    <3> HIDE DEF part, tokens, bucket, trend, B
    <3>4. Sum(part, B) = Sum(tokens, rows)
      BY <3>2, <3>3, SumOfParts
    <3> QED BY <3>1, <3>4, <2>3
  <2> QED BY <2>10, <2>11, <2>12 DEF rows, summary
<1>2. QED
  BY <1>1, LedgerInvariant, EventsAgree, PTL

=============================================================================
