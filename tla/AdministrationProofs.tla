------------------------ MODULE AdministrationProofs ------------------------
(* Theorems about Administration, for every value of its constants.        *)
EXTENDS Administration, FiniteSetTheorems, SequenceTheorems, TLAPS

\* The caller row has its three parts, and a disabled one no active credential.
AdminInv ==
  /\ DOMAIN client = {"status", "version", "columns"}
  /\ credential \in [Credentials -> Statuses]
  /\ DisabledHasNoCredential

\* What every step keeps: the row's shape; a caller that is disabled is so
\* with all of its credentials; what is disabled or revoked stays so.
Kept ==
  /\ DOMAIN client' = {"status", "version", "columns"}
  /\ credential' \in [Credentials -> Statuses]
  /\ DisabledHasNoCredential'
  /\ client.status = "disabled" => client'.status = "disabled"
  /\ \A c \in Credentials : credential[c] = "revoked" => credential'[c] = "revoked"

\* A flush writes the version and columns of the caller row only: the status
\* is the one in the table, not the one the session read.
LEMMA FlushKeepsStatus ==
  ASSUME DOMAIN client = {"status", "version", "columns"}, NEW row, NEW columns
  PROVE  /\ DOMAIN Flushed(row, columns) = {"status", "version", "columns"}
         /\ Flushed(row, columns).status = client.status
BY DEF Flushed

\* Revoking credentials activates none.
LEMMA RevokeKeeps ==
  ASSUME AdminInv, NEW S, credential' = Revoked(S), client'.status = client.status,
         DOMAIN client' = {"status", "version", "columns"}
  PROVE  Kept
<1>1. credential' \in [Credentials -> Statuses]
  BY DEF AdminInv, Revoked, Statuses
<1>2. \A c \in Credentials : /\ credential'[c] = "active" => credential[c] = "active"
                             /\ credential[c] = "revoked" => credential'[c] = "revoked"
  BY DEF Revoked
<1>3. DisabledHasNoCredential'
  BY <1>2 DEF AdminInv, DisabledHasNoCredential, ActiveCredentials
<1>4. QED
  BY <1>1, <1>2, <1>3 DEF Kept

\* Reading, retention, rollbacks and the clock leave caller and credentials alone.
LEMMA UnchangedKeeps ==
  ASSUME AdminInv, UNCHANGED <<client, credential>>
  PROVE  Kept
BY DEF AdminInv, Kept, DisabledHasNoCredential, ActiveCredentials

\* create_caller meets no caller.
LEMMA CreateKeeps ==
  ASSUME AdminInv, NEW c \in Credentials, NEW s \in Settings, create_caller(c, s)
  PROVE  Kept
<1>1. client.status = "absent"
  BY DEF create_caller, Absent
<1>2. DOMAIN client' = {"status", "version", "columns"} /\ client'.status = "active"
  BY DEF create_caller
<1>3. credential' = [credential EXCEPT ![c] = "active"] /\ credential[c] = "none"
  BY DEF create_caller, Unused
<1>4. credential' \in [Credentials -> Statuses]
  BY <1>3 DEF AdminInv, Statuses
<1>5. \A x \in Credentials : credential[x] = "revoked" => credential'[x] = "revoked"
  BY <1>3 DEF AdminInv
<1>6. QED
  BY <1>1, <1>2, <1>4, <1>5 DEF Kept, DisabledHasNoCredential

\* The disable revokes what is active in the same step.
LEMMA DisableKeeps ==
  ASSUME AdminInv, NEW a \in Admins, commit_disable(a)
  PROVE  Kept
<1> DEFINE flushed == Flushed(request[a].row, <<>>)
<1>1. DOMAIN flushed = {"status", "version", "columns"}
  BY FlushKeepsStatus DEF AdminInv
<1>2. client' = [flushed EXCEPT !.status = "disabled"]
  BY DEF commit_disable
<1> HIDE DEF flushed
<1>3. DOMAIN client' = {"status", "version", "columns"} /\ client'.status = "disabled"
  BY <1>1, <1>2
<1>4. credential' = Revoked(ActiveCredentials)
  BY DEF commit_disable
<1>5. /\ credential' \in [Credentials -> Statuses]
      /\ \A c \in Credentials : /\ credential'[c] # "active"
                                /\ credential[c] = "revoked" => credential'[c] = "revoked"
  BY <1>4 DEF AdminInv, Revoked, Statuses, ActiveCredentials
<1>6. QED
  BY <1>3, <1>5 DEF Kept, DisabledHasNoCredential, ActiveCredentials

\* Every step keeps what Kept says.
LEMMA AdminStep ==
  ASSUME AdminInv, [CallerStep \/ RetentionStep]_avars
  PROVE  Kept
<1>1. ASSUME NEW a \in Admins, commit_update(a) PROVE Kept
  <2>1. /\ DOMAIN client' = {"status", "version", "columns"}
        /\ client'.status = client.status /\ UNCHANGED credential
    BY <1>1, FlushKeepsStatus DEF commit_update, AdminInv
  <2>2. QED
    BY <2>1 DEF Kept, AdminInv, DisabledHasNoCredential, ActiveCredentials
<1>2. ASSUME NEW a \in Admins, commit_rotate(a) PROVE Kept
  <2>1. /\ DOMAIN client' = {"status", "version", "columns"}
        /\ client'.status = client.status
        /\ credential' = Revoked(request[a].credentials)
    BY <1>2, FlushKeepsStatus DEF commit_rotate, AdminInv
  <2>2. QED
    BY <2>1, RevokeKeeps
<1>3. ASSUME NEW a \in Admins, commit_revoke(a) PROVE Kept
  <2>1. /\ DOMAIN client' = {"status", "version", "columns"}
        /\ client'.status = client.status
        /\ credential' = Revoked({request[a].credential})
    BY <1>3, FlushKeepsStatus DEF commit_revoke, AdminInv
  <2>2. QED
    BY <2>1, RevokeKeeps
<1>4. ASSUME CallerStep PROVE Kept
  <2>1. ASSUME NEW a \in Admins,
               \/ \E p \in Patches, v \in 1..(MaxAudits + 1) : read_update(a, p, v)
               \/ read_disable(a)
               \/ \E c \in Credentials : read_rotate(a, c) \/ read_revoke(a, c)
               \/ load_rotate(a) \/ load_revoke(a) \/ Rollback(a)
        PROVE  Kept
    <3>1. UNCHANGED <<client, credential>>
      BY <2>1 DEF read_update, read_disable, read_rotate, read_revoke, load_rotate,
                  load_revoke, Rollback
    <3>2. QED
      BY <3>1, UnchangedKeeps
  <2>2. QED
    BY <1>1, <1>2, <1>3, <1>4, <2>1, CreateKeeps, DisableKeeps DEF CallerStep
<1>5. ASSUME RetentionStep PROVE Kept
  <2>1. UNCHANGED <<client, credential>>
    BY <1>5 DEF RetentionStep, preview, count_purge, select_purge, delete_purge, NextDay
  <2>2. QED
    BY <2>1, UnchangedKeeps
<1>6. ASSUME UNCHANGED avars PROVE Kept
  BY <1>6, UnchangedKeeps DEF avars
<1>7. QED
  BY <1>4, <1>5, <1>6

\* The invariant holds from the empty tables on.
LEMMA AdminInvariant == AdminSpec => []AdminInv
<1>1. AdminInit => AdminInv
  BY DEF AdminInit, AdminInv, Absent, Statuses, DisabledHasNoCredential
<1>2. AdminInv /\ [CallerStep \/ RetentionStep]_avars => AdminInv'
  BY AdminStep DEF Kept, AdminInv
<1>3. QED
  BY <1>1, <1>2, PTL DEF AdminSpec

\* For any number of administrators, credentials and patches: a disabled
\* caller has no active credential, whatever ran beside the disable.
THEOREM DisabledIsLockedOut == AdminSpec => []DisabledHasNoCredential
<1>1. AdminInv => DisabledHasNoCredential
  BY DEF AdminInv
<1>2. QED
  BY <1>1, AdminInvariant, PTL

\* For any number of administrators, credentials and patches: disabling a
\* caller and revoking a credential are for good, although transactions that
\* read them as active may commit later.
THEOREM NothingEverComesBack == AdminSpec => NothingComesBack
<1>1. AdminInv /\ [CallerStep \/ RetentionStep]_avars =>
        [/\ client.status = "disabled" => client'.status = "disabled"
         /\ \A c \in Credentials :
              credential[c] = "revoked" => credential'[c] = "revoked"]_avars
  BY AdminStep DEF Kept
<1>2. QED
  BY <1>1, AdminInvariant, PTL DEF AdminSpec, NothingComesBack

-----------------------------------------------------------------------------
(* The caller row *)

\* A transaction of the caller is running.
Opened(a) == request[a].op \in {"update", "disable", "rotate", "revoke"}

Running == {a \in Admins : request[a] # Idle}

RowTyped ==
  client = Absent \/ /\ client.status \in {"active", "disabled"}
                     /\ client.version \in Nat \ {0}
                     /\ Columns \subseteq DOMAIN client.columns

\* A row that a transaction has read has a version, and its caller is still
\* there: callers are never deleted.
AccountInv ==
  /\ AdminInv
  /\ RowTyped
  /\ request = [a \in Admins |-> request[a]]
  /\ \A a \in Admins :
       /\ Opened(a) => client # Absent /\ request[a].row.version \in Nat
       /\ request[a].op = "revoke" =>
            DOMAIN request[a] = {"op", "step", "row", "credential"}

\* What a flush leaves of a caller that is there: the row's version goes past
\* the one that was read, and its columns keep their names.
LEMMA FlushKeepsRow ==
  ASSUME DOMAIN client = {"status", "version", "columns"}, RowTyped, client # Absent,
         NEW row, row.version \in Nat, NEW columns
  PROVE  /\ Flushed(row, columns).status \in {"active", "disabled"}
         /\ Flushed(row, columns).version \in Nat \ {0}
         /\ Columns \subseteq DOMAIN Flushed(row, columns).columns
BY DEF Flushed, RowTyped

\* A present caller has a status that tells it from no caller.
LEMMA PresentRow ==
  ASSUME NEW r, r.status \in {"active", "disabled"}
  PROVE  r # Absent
BY DEF Absent

\* A transaction that ends, or a step that is no request's, keeps the others.
LEMMA EndKeepsAccount ==
  ASSUME AccountInv, AdminInv', RowTyped', client # Absent => client' # Absent,
         \/ request' = request
         \/ \E a \in Admins : End(a)
  PROVE  AccountInv'
<1>1. request' = [a \in Admins |-> request'[a]]
  BY DEF AccountInv, End
<1>2. \A a \in Admins : request'[a] = request[a] \/ request'[a] = Idle
  BY DEF AccountInv, End
<1>3. Idle.op = "idle"
  BY DEF Idle
<1>4. QED
  BY <1>1, <1>2, <1>3 DEF AccountInv, Opened

\* A transaction of the caller that reads a present row, or reads on.
LEMMA StartKeepsAccount ==
  ASSUME AccountInv, UNCHANGED <<client, credential>>, NEW a \in Admins, NEW r,
         Start(a, r),
         r.op \in {"update", "disable", "rotate", "revoke"} =>
           client # Absent /\ r.row.version \in Nat,
         r.op = "revoke" => DOMAIN r = {"op", "step", "row", "credential"}
  PROVE  AccountInv'
<1>1. request' = [b \in Admins |-> request'[b]]
  BY DEF AccountInv, Start
<1>2. \A b \in Admins : request'[b] = IF b = a THEN r ELSE request[b]
  BY DEF AccountInv, Start
<1>3. AdminInv' /\ RowTyped'
  BY DEF AccountInv, AdminInv, RowTyped, DisabledHasNoCredential, ActiveCredentials
<1>4. QED
  BY <1>1, <1>2, <1>3 DEF AccountInv, Opened

\* Every step keeps the caller row well formed.
LEMMA AccountStep == AccountInv /\ [CallerStep \/ RetentionStep]_avars => AccountInv'
<1> SUFFICES ASSUME AccountInv, [CallerStep \/ RetentionStep]_avars PROVE AccountInv'
  OBVIOUS
<1>0. AdminInv' /\ AdminInv
  BY AdminStep DEF AccountInv, AdminInv, Kept
<1>1. ASSUME NEW c \in Credentials, NEW s \in Settings, create_caller(c, s)
      PROVE  AccountInv'
  <2>1. /\ client' = [status |-> "active", version |-> 1, columns |-> s]
        /\ request' = request
    BY <1>1 DEF create_caller
  <2>2. RowTyped'
    BY <2>1, AdministrationAssumption DEF RowTyped
  <2>3. client' # Absent
    BY <2>1, PresentRow
  <2>4. QED
    BY <1>0, <2>1, <2>2, <2>3, EndKeepsAccount
<1>2. ASSUME NEW a \in Admins, Opened(a), End(a), NEW columns,
             client' = Flushed(request[a].row, columns)
      PROVE  AccountInv'
  <2>1. RowTyped /\ client # Absent /\ request[a].row.version \in Nat
    BY <1>2 DEF AccountInv
  <2>2. /\ client'.status \in {"active", "disabled"}
        /\ client'.version \in Nat \ {0}
        /\ Columns \subseteq DOMAIN client'.columns
    BY <1>0, <1>2, <2>1, FlushKeepsRow DEF AdminInv
  <2>3. RowTyped' /\ client' # Absent
    BY <2>2, PresentRow DEF RowTyped
  <2>4. QED
    BY <1>0, <1>2, <2>3, EndKeepsAccount
<1>3. ASSUME NEW a \in Admins, commit_update(a) \/ commit_rotate(a) \/ commit_revoke(a)
      PROVE  AccountInv'
  <2>1. Opened(a) /\ End(a)
    BY <1>3 DEF commit_update, commit_rotate, commit_revoke, At, Opened
  <2>2. \E columns : client' = Flushed(request[a].row, columns)
    BY <1>3 DEF commit_update, commit_rotate, commit_revoke
  <2>3. QED
    BY <1>2, <2>1, <2>2
<1>4. ASSUME NEW a \in Admins, commit_disable(a) PROVE AccountInv'
  <2> DEFINE flushed == Flushed(request[a].row, <<>>)
  <2>1. Opened(a) /\ End(a) /\ client' = [flushed EXCEPT !.status = "disabled"]
    BY <1>4 DEF commit_disable, At, Opened
  <2>2. RowTyped /\ client # Absent /\ request[a].row.version \in Nat
    BY <2>1 DEF AccountInv
  <2>3. /\ flushed.version \in Nat \ {0} /\ Columns \subseteq DOMAIN flushed.columns
        /\ DOMAIN flushed = {"status", "version", "columns"}
    BY <1>0, <2>2, FlushKeepsRow, FlushKeepsStatus DEF AdminInv
  <2> HIDE DEF flushed
  <2>4. /\ client'.status = "disabled" /\ client'.version = flushed.version
        /\ client'.columns = flushed.columns
    BY <2>1, <2>3
  <2>5. RowTyped' /\ client' # Absent
    BY <2>3, <2>4, PresentRow DEF RowTyped
  <2>6. QED
    BY <1>0, <2>1, <2>5, EndKeepsAccount
<1>5. ASSUME client # Absent PROVE client.version \in Nat
  BY <1>5 DEF AccountInv, RowTyped
<1>6. ASSUME NEW a \in Admins, NEW p, NEW v, read_update(a, p, v) PROVE AccountInv'
  <2>1. /\ client # Absent /\ UNCHANGED <<client, credential>>
        /\ Start(a, [op |-> "update", step |-> "commit", row |-> client, patch |-> p])
    BY <1>6 DEF read_update
  <2>2. QED
    BY <1>5, <2>1, StartKeepsAccount
<1>7. ASSUME client.status = "active" PROVE client # Absent
  BY <1>7 DEF Absent
<1>8. ASSUME NEW a \in Admins, read_disable(a) PROVE AccountInv'
  <2>1. /\ client # Absent /\ UNCHANGED <<client, credential>>
        /\ Start(a, [op |-> "disable", step |-> "commit", row |-> client])
    BY <1>7, <1>8 DEF read_disable
  <2>2. QED
    BY <1>5, <2>1, StartKeepsAccount
<1>9. ASSUME NEW a \in Admins, NEW c, read_rotate(a, c) PROVE AccountInv'
  <2>1. /\ client # Absent /\ UNCHANGED <<client, credential>>
        /\ Start(a, [op |-> "rotate", step |-> "load", row |-> client, new |-> c])
    BY <1>7, <1>9 DEF read_rotate
  <2>2. QED
    BY <1>5, <2>1, StartKeepsAccount
<1>10. ASSUME NEW a \in Admins, NEW c, read_revoke(a, c) PROVE AccountInv'
  <2>1. /\ client # Absent /\ UNCHANGED <<client, credential>>
        /\ Start(a, [op |-> "revoke", step |-> "load", row |-> client, credential |-> c])
    BY <1>10 DEF read_revoke
  <2>2. QED
    BY <1>5, <2>1, StartKeepsAccount
<1>11. ASSUME NEW a \in Admins, load_rotate(a) PROVE AccountInv'
  <2> DEFINE r == [op |-> "rotate", step |-> "commit", row |-> request[a].row,
                   new |-> request[a].new,
                   credentials |-> ActiveCredentials \cup {request[a].new}]
  <2>1. Opened(a) /\ Start(a, r) /\ UNCHANGED <<client, credential>>
    BY <1>11 DEF load_rotate, At, Opened
  <2>2. client # Absent /\ r.op = "rotate" /\ r.row.version \in Nat
    BY <2>1 DEF AccountInv
  <2> HIDE DEF r
  <2>3. QED
    BY <2>1, <2>2, StartKeepsAccount
<1>12. ASSUME NEW a \in Admins, load_revoke(a) PROVE AccountInv'
  <2> DEFINE r == [request[a] EXCEPT !.step = "commit"]
  <2>1. /\ request[a].op = "revoke" /\ UNCHANGED <<client, credential>>
        /\ Start(a, r) \/ End(a)
    BY <1>12 DEF load_revoke, At
  <2>2. /\ client # Absent /\ request[a].row.version \in Nat
        /\ DOMAIN request[a] = {"op", "step", "row", "credential"}
    BY <2>1 DEF AccountInv, Opened
  <2>3. r.op = "revoke" /\ r.row = request[a].row /\ DOMAIN r = DOMAIN request[a]
    BY <2>1, <2>2
  <2> HIDE DEF r
  <2>4. CASE Start(a, r)
    BY <2>1, <2>2, <2>3, <2>4, StartKeepsAccount
  <2>5. CASE End(a)
    BY <1>0, <2>1, <2>5, EndKeepsAccount DEF AccountInv, RowTyped
  <2>6. QED
    BY <2>1, <2>4, <2>5
<1>13. ASSUME UNCHANGED <<client, credential>>, request' = request \/ \E a \in Admins : End(a)
       PROVE  AccountInv'
  BY <1>0, <1>13, EndKeepsAccount DEF AccountInv, RowTyped
<1>14. ASSUME NEW a \in Admins, Rollback(a) \/ delete_purge(a) PROVE AccountInv'
  BY <1>13, <1>14 DEF Rollback, delete_purge
<1>15. ASSUME NEW a \in Admins, preview(a) \/ count_purge(a) \/ select_purge(a)
       PROVE  AccountInv'
  <2>1. ASSUME NEW r, Start(a, r), r.op = "purge", UNCHANGED <<client, credential>>
        PROVE  AccountInv'
    BY <2>1, StartKeepsAccount
  <2>2. CASE preview(a)
    BY <2>1, <2>2 DEF preview
  <2>3. CASE count_purge(a)
    BY <1>13, <2>1, <2>3 DEF count_purge
  <2>4. CASE select_purge(a)
    BY <2>1, <2>4 DEF select_purge
  <2>5. QED
    BY <1>15, <2>2, <2>3, <2>4
<1>16. CASE NextDay \/ UNCHANGED avars
  BY <1>13, <1>16 DEF NextDay, avars
<1>17. QED
  BY <1>1, <1>3, <1>4, <1>6, <1>8, <1>9, <1>10, <1>11, <1>12, <1>14, <1>15, <1>16
  DEF CallerStep, RetentionStep

-----------------------------------------------------------------------------
(* The audit rows *)

\* The rows written and the transactions that may still write one are within
\* the bound together.
BudgetInv ==
  /\ \E S : audit \in Seq(S)
  /\ IsFiniteSet(Running)
  /\ Len(audit) + Cardinality(Running) <= MaxAudits

\* Facts about the numbers in BudgetInv.
LEMMA BudgetTypes ==
  ASSUME BudgetInv
  PROVE  Len(audit) \in Nat /\ Cardinality(Running) \in Nat /\ MaxAudits \in Nat
<1>1. Len(audit) \in Nat
  BY DEF BudgetInv
<1>2. Cardinality(Running) \in Nat
  BY FS_CardinalityType DEF BudgetInv
<1>3. QED
  BY <1>1, <1>2, AdministrationAssumption

\* One more row.
LEMMA AppendAudit ==
  ASSUME BudgetInv, NEW e, audit' = Append(audit, e)
  PROVE  (\E S : audit' \in Seq(S)) /\ Len(audit') = Len(audit) + 1
<1>1. PICK S : audit \in Seq(S)
  BY DEF BudgetInv
<1>2. audit \in Seq(S \cup {e})
  BY <1>1, SeqMonotonic
<1>3. audit' \in Seq(S \cup {e}) /\ Len(audit') = Len(audit) + 1
  BY <1>2
<1>4. QED
  BY <1>3

\* A transaction that starts where there is room, or reads on.
LEMMA BudgetStart ==
  ASSUME AccountInv, BudgetInv, NEW a \in Admins, NEW r, Start(a, r), audit' = audit,
         r.op # "idle", request[a] # Idle \/ Room
  PROVE  BudgetInv'
<1>1. r # Idle
  BY DEF Idle
<1>2. Running' = Running \cup {a}
  BY <1>1 DEF Running, Start, AccountInv
<1>3. /\ IsFiniteSet(Running \cup {a})
      /\ Cardinality(Running \cup {a}) =
           IF a \in Running THEN Cardinality(Running) ELSE Cardinality(Running) + 1
  BY FS_AddElement DEF BudgetInv
<1>4. Room => Len(audit) + Cardinality(Running) < MaxAudits
  BY DEF Room, Running
<1>5. request[a] # Idle => a \in Running
  BY DEF Running
<1>6. Len(audit) + Cardinality(Running \cup {a}) <= MaxAudits
  <2> HIDE DEF Running, Room
  <2>1. Len(audit) + Cardinality(Running) <= MaxAudits
    BY DEF BudgetInv
  <2>2. CASE a \in Running
    BY <1>3, <2>1, <2>2
  <2>3. CASE a \notin Running
    BY <1>3, <1>4, <1>5, <2>3, BudgetTypes
  <2>4. QED
    BY <2>2, <2>3
<1>7. QED
  BY <1>2, <1>3, <1>6 DEF BudgetInv

\* A transaction that ends, with its audit row or without one.
LEMMA BudgetEnd ==
  ASSUME AccountInv, BudgetInv, NEW a \in Admins, End(a), request[a] # Idle,
         audit' = audit \/ \E e : audit' = Append(audit, e)
  PROVE  BudgetInv'
<1>1. Running' = Running \ {a} /\ a \in Running
  BY DEF Running, End, AccountInv
<1>2. IsFiniteSet(Running \ {a}) /\ Cardinality(Running \ {a}) = Cardinality(Running) - 1
  BY <1>1, FS_RemoveElement DEF BudgetInv
<1>3. (\E S : audit' \in Seq(S)) /\ Len(audit') \in {Len(audit), Len(audit) + 1}
  BY AppendAudit DEF BudgetInv
<1>4. Len(audit') + Cardinality(Running \ {a}) <= MaxAudits
  <2>1. Len(audit) + Cardinality(Running) <= MaxAudits
    BY DEF BudgetInv
  <2>2. QED
    BY <1>2, <1>3, <2>1, BudgetTypes
<1>5. QED
  BY <1>1, <1>2, <1>3, <1>4 DEF BudgetInv

\* Every step keeps the audit rows within the bound.
LEMMA BudgetStep ==
  AccountInv /\ BudgetInv /\ [CallerStep \/ RetentionStep]_avars => BudgetInv'
<1> SUFFICES ASSUME AccountInv, BudgetInv, [CallerStep \/ RetentionStep]_avars
             PROVE  BudgetInv'
  OBVIOUS
<1>0. Idle.op = "idle"
  BY DEF Idle
<1>1. ASSUME NEW c \in Credentials, NEW s \in Settings, create_caller(c, s) PROVE BudgetInv'
  <2>1. Running' = Running /\ Len(audit) + Cardinality(Running) < MaxAudits
    BY <1>1 DEF create_caller, Running, Room
  <2>2. \E e : audit' = Append(audit, e)
    BY <1>1 DEF create_caller, _write_audit
  <2>3. (\E S : audit' \in Seq(S)) /\ Len(audit') = Len(audit) + 1
    BY <2>2, AppendAudit
  <2>4. QED
    BY <2>1, <2>3, BudgetTypes DEF BudgetInv
<1>2. ASSUME NEW a \in Admins,
             commit_update(a) \/ commit_disable(a) \/ commit_rotate(a) \/ commit_revoke(a)
      PROVE  BudgetInv'
  <2>1. End(a) /\ request[a].op # "idle" /\ \E e : audit' = Append(audit, e)
    BY <1>2 DEF commit_update, commit_disable, commit_rotate, commit_revoke, At, _write_audit
  <2>2. QED
    BY <1>0, <2>1, BudgetEnd
<1>3. ASSUME NEW a \in Admins, Rollback(a) \/ delete_purge(a) PROVE BudgetInv'
  <2>1. /\ End(a) /\ request[a] # Idle
        /\ audit' = audit \/ \E e : audit' = Append(audit, e)
    BY <1>0, <1>3 DEF Rollback, delete_purge, At, _write_audit
  <2>2. QED
    BY <2>1, BudgetEnd
<1>4. ASSUME NEW a \in Admins,
             \/ \E p \in Patches, v \in 1..(MaxAudits + 1) : read_update(a, p, v)
             \/ read_disable(a)
             \/ \E c \in Credentials : read_rotate(a, c) \/ read_revoke(a, c)
             \/ preview(a)
      PROVE  BudgetInv'
  <2>1. Room /\ audit' = audit /\ \E r : r.op # "idle" /\ Start(a, r)
    BY <1>4 DEF read_update, read_disable, read_rotate, read_revoke, preview, MayStart
  <2>2. QED
    BY <2>1, BudgetStart
<1>5. ASSUME NEW a \in Admins, load_rotate(a) \/ select_purge(a) PROVE BudgetInv'
  <2>1. request[a] # Idle /\ audit' = audit /\ \E r : r.op # "idle" /\ Start(a, r)
    BY <1>0, <1>5 DEF load_rotate, select_purge, At
  <2>2. QED
    BY <2>1, BudgetStart
<1>6. ASSUME NEW a \in Admins, count_purge(a) PROVE BudgetInv'
  <2>1. /\ request[a] # Idle /\ audit' = audit
        /\ End(a) \/ \E r : r.op # "idle" /\ Start(a, r)
    BY <1>0, <1>6 DEF count_purge, At
  <2>2. QED
    BY <2>1, BudgetStart, BudgetEnd
<1>7. ASSUME NEW a \in Admins, load_revoke(a) PROVE BudgetInv'
  <2> DEFINE r == [request[a] EXCEPT !.step = "commit"]
  <2>1. request[a].op = "revoke" /\ audit' = audit /\ (Start(a, r) \/ End(a))
    BY <1>7 DEF load_revoke, At
  <2>2. r.op = "revoke"
    BY <2>1 DEF AccountInv
  <2> HIDE DEF r
  <2>3. request[a] # Idle
    BY <1>0, <2>1
  <2>4. QED
    BY <2>1, <2>2, <2>3, BudgetStart, BudgetEnd
<1>8. CASE NextDay \/ UNCHANGED avars
  <2>1. audit' = audit /\ request' = request
    BY <1>8 DEF NextDay, avars
  <2>2. QED
    BY <2>1 DEF BudgetInv, Running
<1>9. QED
  BY <1>1, <1>2, <1>3, <1>4, <1>5, <1>6, <1>7, <1>8 DEF CallerStep, RetentionStep

-----------------------------------------------------------------------------
(* Retention *)

PurgeTypes ==
  /\ expired \in [Tables -> SUBSET (0..(Recorded - 1))]
  /\ today \in 0..MaxNow

\* A purge that has counted knows at least what is eligible now, since rows are
\* only ever deleted; what it has selected is before its cutoff.
Counted(a) ==
  \A t \in Tables :
    /\ request[a].counted[t] \in Nat
    /\ Cardinality(Eligible(t, request[a].cutoff)) <= request[a].counted[t]

Selected(a) ==
  \A t \in Tables : \A x \in request[a].rows[t] : x < request[a].cutoff[t]

PurgeInv ==
  /\ PurgeTypes
  /\ \A a \in Admins :
       request[a].op = "purge" =>
         /\ request[a].step \in {"select", "delete"} => Counted(a)
         /\ request[a].step = "delete" => Selected(a)
  /\ ZeroMeansEmpty

\* What is eligible is finite.
LEMMA EligibleFinite ==
  ASSUME PurgeTypes, NEW t \in Tables, NEW cutoff
  PROVE  /\ IsFiniteSet(Eligible(t, cutoff)) /\ Cardinality(Eligible(t, cutoff)) \in Nat
         /\ Eligible(t, cutoff) \subseteq 0..(Recorded - 1)
<1>1. Eligible(t, cutoff) \in SUBSET (0..(Recorded - 1))
  BY DEF Eligible, PurgeTypes
<1>2. IsFiniteSet(0..(Recorded - 1))
  <2>1. 0 \in Int /\ Recorded - 1 \in Int
    BY AdministrationAssumption
  <2>2. QED
    BY <2>1, FS_Interval
<1>3. QED
  BY <1>1, <1>2, FS_Subset, FS_CardinalityType

\* Deleting rows makes no row eligible.
LEMMA EligibleShrinks ==
  ASSUME NEW A \in SUBSET (0..(Recorded - 1)), NEW B \in SUBSET A, NEW n
  PROVE  Cardinality({x \in B : x < n}) <= Cardinality({x \in A : x < n})
<1>1. {x \in A : x < n} \in SUBSET (0..(Recorded - 1))
  OBVIOUS
<1>2. IsFiniteSet(0..(Recorded - 1))
  <2>1. 0 \in Int /\ Recorded - 1 \in Int
    BY AdministrationAssumption
  <2>2. QED
    BY <2>1, FS_Interval
<1>3. IsFiniteSet({x \in A : x < n})
  BY <1>1, <1>2, FS_Subset
<1>4. {x \in B : x < n} \in SUBSET {x \in A : x < n}
  OBVIOUS
<1>5. QED
  BY <1>3, <1>4, FS_Subset

\* What a purge has counted still covers what is eligible.
LEMMA CountedStays ==
  ASSUME PurgeTypes, PurgeTypes', \A t \in Tables : expired'[t] \subseteq expired[t],
         NEW a \in Admins, request'[a] = request[a], Counted(a)
  PROVE  Counted(a)'
<1> SUFFICES ASSUME NEW t \in Tables
             PROVE  /\ request'[a].counted[t] \in Nat
                    /\ Cardinality(Eligible(t, request[a].cutoff)') <= request'[a].counted[t]
  BY DEF Counted
<1> DEFINE n == request[a].cutoff[t]
           old == {x \in expired[t] : x < n}
           new == {x \in expired'[t] : x < n}
<1>1. request[a].counted[t] \in Nat /\ Cardinality(old) <= request[a].counted[t]
  BY DEF Counted, Eligible
<1>2. Cardinality(new) <= Cardinality(old)
  BY EligibleShrinks DEF PurgeTypes
<1>3. Cardinality(old) \in Nat /\ Cardinality(new) \in Nat
  <2>1. /\ IsFiniteSet(0..(Recorded - 1))
        /\ old \in SUBSET (0..(Recorded - 1)) /\ new \in SUBSET (0..(Recorded - 1))
    <3>1. 0 \in Int /\ Recorded - 1 \in Int
      BY AdministrationAssumption
    <3>2. QED
      BY <3>1, FS_Interval DEF PurgeTypes
  <2>2. QED
    BY <2>1, FS_Subset, FS_CardinalityType
<1>4. Eligible(t, request[a].cutoff)' = new
  BY DEF Eligible
<1> HIDE DEF old, new, n
<1>5. QED
  BY <1>1, <1>2, <1>3, <1>4

\* The reports that are written stay true, and a new one must be.
LEMMA ReportsStay ==
  ASSUME ZeroMeansEmpty, \E S : audit \in Seq(S),
         \A t \in Tables : expired'[t] \subseteq expired[t],
         \/ audit' = audit
         \/ \E e : /\ audit' = Append(audit, e)
                   /\ e.action = "retention.purged" =>
                        \A t \in Tables :
                          e.after.remaining[t] = 0 =>
                            \A x \in expired'[t] : ~(x < e.after.cutoff[t])
  PROVE  ZeroMeansEmpty'
<1> SUFFICES ASSUME NEW i \in Purges', NEW t \in Tables, audit'[i].after.remaining[t] = 0
             PROVE  \A x \in expired'[t] : ~(x < audit'[i].after.cutoff[t])
  BY DEF ZeroMeansEmpty, Eligible
<1>1. CASE i \in DOMAIN audit /\ audit'[i] = audit[i]
  <2>1. i \in Purges
    BY <1>1 DEF Purges
  <2>2. Eligible(t, audit[i].after.cutoff) = {}
    BY <1>1, <2>1 DEF ZeroMeansEmpty
  <2>3. \A x \in expired[t] : ~(x < audit[i].after.cutoff[t])
    BY <2>2 DEF Eligible
  <2>4. QED
    BY <1>1, <2>3
<1>2. CASE ~(i \in DOMAIN audit /\ audit'[i] = audit[i])
  <2>1. i \in DOMAIN audit' /\ audit'[i].action = "retention.purged"
    BY DEF Purges
  <2>2. audit' # audit
    BY <1>2, <2>1
  <2>3. PICK e : /\ audit' = Append(audit, e)
                 /\ e.action = "retention.purged" =>
                      \A u \in Tables :
                        e.after.remaining[u] = 0 =>
                          \A x \in expired'[u] : ~(x < e.after.cutoff[u])
    BY <2>2
  <2>4. PICK S : audit \in Seq(S)
    OBVIOUS
  <2>5. audit \in Seq(S \cup {e})
    BY <2>4, SeqMonotonic
  <2>6. audit'[i] = e
    BY <1>2, <2>1, <2>3, <2>5
  <2>7. QED
    BY <2>1, <2>3, <2>6
<1>3. QED
  BY <1>1, <1>2

\* A step that only ends transactions or starts one, and deletes at most.
LEMMA PurgeFrame ==
  ASSUME PurgeInv, PurgeTypes', ZeroMeansEmpty',
         \A t \in Tables : expired'[t] \subseteq expired[t],
         \A b \in Admins :
           \/ request'[b] = request[b]
           \/ request'[b].op # "purge"
           \/ /\ request'[b].step \in {"select", "delete"} => Counted(b)'
              /\ request'[b].step = "delete" => Selected(b)'
  PROVE  PurgeInv'
<1>1. ASSUME NEW b \in Admins, request'[b] = request[b], request[b].op = "purge"
      PROVE  /\ request'[b].step \in {"select", "delete"} => Counted(b)'
             /\ request'[b].step = "delete" => Selected(b)'
  BY <1>1, CountedStays DEF PurgeInv, Selected
<1>2. QED
  BY <1>1 DEF PurgeInv

\* A caller's transaction deletes no old row and reports no purge.
LEMMA CallerAudits ==
  ASSUME CallerStep
  PROVE  /\ UNCHANGED <<expired, today>>
         /\ audit' = audit \/ \E e : audit' = Append(audit, e) /\ e.action # "retention.purged"
<1>1. UNCHANGED <<expired, today>>
  BY DEF CallerStep, create_caller, read_update, commit_update, read_disable, commit_disable,
         read_rotate, read_revoke, load_rotate, commit_rotate, load_revoke, commit_revoke,
         Rollback
<1>2. audit' = audit \/ \E e : audit' = Append(audit, e) /\ e.action # "retention.purged"
  <2>1. ASSUME NEW action, action # "retention.purged", NEW before, NEW after,
               _write_audit(action, before, after)
        PROVE  \E e : audit' = Append(audit, e) /\ e.action # "retention.purged"
    BY <2>1 DEF _write_audit
  <2>2. ASSUME NEW c \in Credentials, NEW x \in Settings, create_caller(c, x)
        PROVE  \E e : audit' = Append(audit, e) /\ e.action # "retention.purged"
    BY <2>1, <2>2 DEF create_caller
  <2>3. ASSUME NEW a \in Admins, commit_update(a) \/ commit_disable(a)
        PROVE  \E e : audit' = Append(audit, e) /\ e.action # "retention.purged"
    BY <2>1, <2>3 DEF commit_update, commit_disable
  <2>4. ASSUME NEW a \in Admins, commit_rotate(a) \/ commit_revoke(a)
        PROVE  \E e : audit' = Append(audit, e) /\ e.action # "retention.purged"
    BY <2>1, <2>4 DEF commit_rotate, commit_revoke
  <2>5. QED
    BY <2>2, <2>3, <2>4 DEF CallerStep, read_update, read_disable, read_rotate, read_revoke,
                            load_rotate, load_revoke, Rollback
<1>3. QED
  BY <1>1, <1>2

\* A caller's transaction touches no purge and reports none.
LEMMA CallerKeepsPurge ==
  ASSUME AccountInv, BudgetInv, PurgeInv, CallerStep
  PROVE  PurgeInv'
<1>1. UNCHANGED <<expired, today>>
  BY CallerAudits
<1>2. audit' = audit \/ \E e : audit' = Append(audit, e) /\ e.action # "retention.purged"
  BY CallerAudits
<1>3. PurgeTypes' /\ \A t \in Tables : expired'[t] \subseteq expired[t]
  BY <1>1 DEF PurgeInv, PurgeTypes
<1>4. ZeroMeansEmpty'
  BY <1>2, <1>3, ReportsStay DEF PurgeInv, BudgetInv
<1>5. ASSUME NEW a \in Admins, NEW r, r.op # "purge", Start(a, r)
      PROVE  \A b \in Admins : request'[b] = request[b] \/ request'[b].op # "purge"
  BY <1>5 DEF Start, AccountInv
<1>6. ASSUME NEW a \in Admins, End(a)
      PROVE  \A b \in Admins : request'[b] = request[b] \/ request'[b].op # "purge"
  <2>1. Start(a, Idle) /\ Idle.op # "purge"
    BY <1>6 DEF Start, End, Idle
  <2>2. QED
    BY <1>5, <2>1
<1>7. ASSUME NEW a \in Admins, load_revoke(a)
      PROVE  \A b \in Admins : request'[b] = request[b] \/ request'[b].op # "purge"
  <2> DEFINE r == [request[a] EXCEPT !.step = "commit"]
  <2>1. request[a].op = "revoke" /\ (Start(a, r) \/ End(a))
    BY <1>7 DEF load_revoke, At
  <2>2. r.op # "purge"
    BY <2>1 DEF AccountInv
  <2> HIDE DEF r
  <2>3. QED
    BY <1>5, <1>6, <2>1, <2>2
<1>8. ASSUME NEW a \in Admins,
             \/ \E p \in Patches, v \in 1..(MaxAudits + 1) : read_update(a, p, v)
             \/ read_disable(a)
             \/ \E c \in Credentials : read_rotate(a, c) \/ read_revoke(a, c)
             \/ load_rotate(a)
      PROVE  \A b \in Admins : request'[b] = request[b] \/ request'[b].op # "purge"
  <2>1. \E r : r.op # "purge" /\ Start(a, r)
    BY <1>8 DEF read_update, read_disable, read_rotate, read_revoke, load_rotate
  <2>2. QED
    BY <1>5, <2>1
<1>9. ASSUME NEW a \in Admins,
             \/ commit_update(a) \/ commit_disable(a) \/ commit_rotate(a)
             \/ commit_revoke(a) \/ Rollback(a)
      PROVE  \A b \in Admins : request'[b] = request[b] \/ request'[b].op # "purge"
  BY <1>6, <1>9 DEF commit_update, commit_disable, commit_rotate, commit_revoke, Rollback
<1>10. ASSUME NEW c \in Credentials, NEW s \in Settings, create_caller(c, s)
       PROVE  \A b \in Admins : request'[b] = request[b] \/ request'[b].op # "purge"
  BY <1>10 DEF create_caller
<1>11. \A b \in Admins : request'[b] = request[b] \/ request'[b].op # "purge"
  BY <1>7, <1>8, <1>9, <1>10 DEF CallerStep
<1>12. QED
  BY <1>3, <1>4, <1>11, PurgeFrame

\* The statements of a purge.
LEMMA RetentionKeepsPurge ==
  ASSUME AccountInv, BudgetInv, PurgeInv, RetentionStep
  PROVE  PurgeInv'
<1>0. PurgeTypes /\ ZeroMeansEmpty /\ \E S : audit \in Seq(S)
  BY DEF PurgeInv, BudgetInv
<1>1. ASSUME UNCHANGED <<audit, expired, today>>, NEW a \in Admins, NEW r, Start(a, r),
             r.op = "purge" =>
               /\ r.step \in {"select", "delete"} =>
                    \A t \in Tables :
                      /\ r.counted[t] \in Nat
                      /\ Cardinality(Eligible(t, r.cutoff)) <= r.counted[t]
               /\ r.step = "delete" => \A t \in Tables : \A x \in r.rows[t] : x < r.cutoff[t]
      PROVE  PurgeInv'
  <2>1. PurgeTypes' /\ \A t \in Tables : expired'[t] \subseteq expired[t]
    BY <1>0, <1>1 DEF PurgeTypes
  <2>2. ZeroMeansEmpty'
    BY <1>0, <1>1, <2>1, ReportsStay
  <2>3. request'[a] = r /\ \A b \in Admins : b # a => request'[b] = request[b]
    BY <1>1 DEF Start, AccountInv
  <2>4. \A t \in Tables : Eligible(t, request[a].cutoff)' = {x \in expired[t] : x < r.cutoff[t]}
    BY <1>1, <2>3 DEF Eligible
  <2>5. r.op = "purge" => /\ request'[a].step \in {"select", "delete"} => Counted(a)'
                          /\ request'[a].step = "delete" => Selected(a)'
    BY <1>1, <2>3, <2>4 DEF Counted, Selected, Eligible
  <2>6. \A b \in Admins :
           \/ request'[b] = request[b]
           \/ request'[b].op # "purge"
           \/ /\ request'[b].step \in {"select", "delete"} => Counted(b)'
              /\ request'[b].step = "delete" => Selected(b)'
    BY <2>3, <2>5
  <2>7. QED
    BY <2>1, <2>2, <2>6, PurgeFrame
<1>2. ASSUME NEW a \in Admins, preview(a) PROVE PurgeInv'
  <2>1. /\ UNCHANGED <<audit, expired, today>>
        /\ \E r : Start(a, r) /\ r.op = "purge" /\ r.step = "count"
    BY <1>2 DEF preview
  <2>2. QED
    BY <1>1, <2>1
<1>3. ASSUME NEW a \in Admins, count_purge(a) PROVE PurgeInv'
  <2> DEFINE cut == _cutoffs(today)
             r == [op |-> "purge", step |-> "select", cutoff |-> cut, counted |-> Counts(cut)]
  <2>1. UNCHANGED <<audit, expired, today>> /\ (Start(a, r) \/ Start(a, Idle))
    BY <1>3 DEF count_purge, End, Start
  <2>2. /\ r.op = "purge" /\ r.step = "select"
        /\ \A t \in Tables : /\ r.counted[t] = Cardinality(Eligible(t, r.cutoff))
                             /\ r.counted[t] \in Nat
    <3>1. r.cutoff = cut /\ \A t \in Tables : r.counted[t] = Cardinality(Eligible(t, cut))
      BY DEF Counts
    <3>2. \A t \in Tables : Cardinality(Eligible(t, cut)) \in Nat
      BY <1>0, EligibleFinite
    <3> HIDE DEF cut
    <3>3. QED
      BY <3>1, <3>2
  <2>3. Idle.op = "idle"
    BY DEF Idle
  <2> HIDE DEF r
  <2>4. \A t \in Tables : /\ r.counted[t] \in Nat
                          /\ Cardinality(Eligible(t, r.cutoff)) <= r.counted[t]
    BY <2>2
  <2>5. QED
    BY <1>1, <2>1, <2>2, <2>3, <2>4
<1>4. ASSUME NEW a \in Admins, select_purge(a) PROVE PurgeInv'
  <2> DEFINE r == [op |-> "purge", step |-> "delete", cutoff |-> request[a].cutoff,
                   counted |-> request[a].counted,
                   rows |-> [t \in Tables |-> Batch(t, request[a].cutoff)]]
  <2>1. /\ UNCHANGED <<audit, expired, today>> /\ Start(a, r)
        /\ request[a].op = "purge" /\ request[a].step = "select"
    BY <1>4 DEF select_purge, At
  <2>2. Counted(a)
    BY <2>1 DEF PurgeInv
  <2>3. \A t \in Tables : \A x \in Batch(t, request[a].cutoff) : x < request[a].cutoff[t]
    BY DEF Batch, Eligible
  <2>4. /\ r.cutoff = request[a].cutoff /\ r.counted = request[a].counted
        /\ \A t \in Tables : r.rows[t] = Batch(t, request[a].cutoff)
    OBVIOUS
  <2> HIDE DEF r
  <2>5. /\ \A t \in Tables : /\ r.counted[t] \in Nat
                             /\ Cardinality(Eligible(t, r.cutoff)) <= r.counted[t]
        /\ \A t \in Tables : \A x \in r.rows[t] : x < r.cutoff[t]
    BY <2>2, <2>3, <2>4 DEF Counted
  <2>6. QED
    BY <1>1, <2>1, <2>5
<1>5. ASSUME NEW a \in Admins, delete_purge(a) PROVE PurgeInv'
  <2>1. /\ request[a].op = "purge" /\ request[a].step = "delete" /\ End(a)
        /\ today' = today
    BY <1>5 DEF delete_purge, At
  <2>2. Counted(a) /\ Selected(a)
    BY <2>1 DEF PurgeInv
  <2>3. PurgeTypes' /\ \A t \in Tables : expired'[t] \subseteq expired[t]
    BY <1>0, <1>5, <2>1 DEF delete_purge, PurgeTypes
  <2>4. \A b \in Admins : request'[b] = request[b] \/ request'[b].op # "purge"
    BY <2>1 DEF End, AccountInv, Idle
  <2>5. CASE ~AllDeleted(a)
    <3>1. audit' = audit
      BY <1>5, <2>5 DEF delete_purge
    <3>2. ZeroMeansEmpty'
      BY <1>0, <2>3, <3>1, ReportsStay
    <3>3. QED
      BY <2>3, <2>4, <3>2, PurgeFrame
  <2>6. CASE AllDeleted(a)
    <3> DEFINE q == request[a]
               e == [action |-> "retention.purged", before |-> q.counted, after |-> Report(q)]
    <3>1. /\ audit' = Append(audit, e)
          /\ \A t \in Tables : expired'[t] = expired[t] \ q.rows[t]
      BY <1>5, <2>6 DEF delete_purge, _write_audit
    <3>2. /\ e.after.cutoff = q.cutoff
          /\ \A t \in Tables : e.after.remaining[t] = q.counted[t] - Cardinality(q.rows[t])
      BY DEF Report
    <3>3. ASSUME NEW t \in Tables, e.after.remaining[t] = 0
          PROVE  \A x \in expired'[t] : ~(x < e.after.cutoff[t])
      <4> DEFINE E == Eligible(t, q.cutoff)
      <4>1. IsFiniteSet(E) /\ Cardinality(E) \in Nat
        BY <1>0, EligibleFinite
      <4>2. q.rows[t] \in SUBSET E
        BY <2>2, <2>6 DEF AllDeleted, Selected, Eligible
      <4>3. /\ Cardinality(q.rows[t]) <= Cardinality(E) /\ IsFiniteSet(q.rows[t])
            /\ Cardinality(E) = Cardinality(q.rows[t]) => E = q.rows[t]
        BY <4>1, <4>2, FS_Subset
      <4>4. Cardinality(q.rows[t]) \in Nat
        BY <4>3, FS_CardinalityType
      <4>5. q.counted[t] \in Nat /\ Cardinality(E) <= q.counted[t]
        BY <2>2 DEF Counted
      <4>6. q.counted[t] - Cardinality(q.rows[t]) = 0
        BY <3>2, <3>3
      <4> HIDE DEF E, q, e
      <4>7. E = q.rows[t]
        BY <4>1, <4>3, <4>4, <4>5, <4>6
      <4>8. \A x \in expired[t] : x < q.cutoff[t] => x \in q.rows[t]
        BY <4>7 DEF E, Eligible
      <4>9. QED
        BY <3>1, <3>2, <4>8
    <3> HIDE DEF e
    <3>4. ZeroMeansEmpty'
      BY <1>0, <2>3, <3>1, <3>3, ReportsStay
    <3>5. QED
      BY <2>3, <2>4, <3>4, PurgeFrame
  <2>7. QED
    BY <2>5, <2>6
<1>6. CASE NextDay
  <2>1. UNCHANGED <<audit, expired, request>> /\ today < MaxNow /\ today' = today + 1
    BY <1>6 DEF NextDay
  <2>2. PurgeTypes' /\ \A t \in Tables : expired'[t] \subseteq expired[t]
    BY <1>0, <2>1, AdministrationAssumption DEF PurgeTypes
  <2>3. ZeroMeansEmpty'
    BY <1>0, <2>1, <2>2, ReportsStay
  <2>4. QED
    BY <2>1, <2>2, <2>3, PurgeFrame
<1>7. QED
  BY <1>2, <1>3, <1>4, <1>5, <1>6 DEF RetentionStep

\* Rows, audits and purges agree in every state.
LEMMA AdministrationInvariant == AdminSpec => [](AccountInv /\ BudgetInv /\ PurgeInv)
<1>1. AdminInit => AccountInv /\ BudgetInv /\ PurgeInv
  <2> SUFFICES ASSUME AdminInit PROVE AccountInv /\ BudgetInv /\ PurgeInv
    OBVIOUS
  <2>1. request = [a \in Admins |-> Idle] /\ Idle.op = "idle" /\ audit = <<>>
    BY DEF AdminInit, Idle
  <2>2. AdminInv /\ RowTyped
    BY DEF AdminInit, AdminInv, RowTyped, Absent, Statuses, DisabledHasNoCredential
  <2>3. AccountInv
    BY <2>1, <2>2 DEF AccountInv, Opened
  <2>4. Running = {}
    BY <2>1 DEF Running
  <2>5. audit \in Seq({}) /\ Len(audit) = 0
    BY <2>1
  <2>6. IsFiniteSet(Running) /\ Cardinality(Running) = 0 /\ MaxAudits \in Nat
    BY <2>4, FS_EmptySet, AdministrationAssumption
  <2>7. BudgetInv
    BY <2>5, <2>6 DEF BudgetInv
  <2>8. PurgeTypes
    BY AdministrationAssumption DEF AdminInit, PurgeTypes
  <2>9. ZeroMeansEmpty
    BY <2>1 DEF ZeroMeansEmpty, Purges
  <2>10. PurgeInv
    BY <2>1, <2>8, <2>9 DEF PurgeInv
  <2>11. QED
    BY <2>3, <2>7, <2>10
<1>2. /\ AccountInv /\ BudgetInv /\ PurgeInv
      /\ [CallerStep \/ RetentionStep]_avars
      => PurgeInv'
  <2> SUFFICES ASSUME AccountInv, BudgetInv, PurgeInv, [CallerStep \/ RetentionStep]_avars
               PROVE  PurgeInv'
    OBVIOUS
  <2>1. CASE UNCHANGED avars
    <3>1. UNCHANGED <<audit, expired, today, request>>
      BY <2>1 DEF avars
    <3>2. PurgeTypes' /\ \A t \in Tables : expired'[t] \subseteq expired[t]
      BY <3>1 DEF PurgeInv, PurgeTypes
    <3>3. ZeroMeansEmpty'
      BY <3>1, <3>2, ReportsStay DEF PurgeInv, BudgetInv
    <3>4. QED
      BY <3>1, <3>2, <3>3, PurgeFrame
  <2>2. QED
    BY <2>1, CallerKeepsPurge, RetentionKeepsPurge
<1>3. QED
  BY <1>1, <1>2, AccountStep, BudgetStep, PTL DEF AdminSpec

\* Type correctness of the caller's rows and of the purged tables, for any
\* number of administrators, patches and rows.
THEOREM AdminTypeCorrect == AdminSpec => []AdminTypeOK
<1>1. AccountInv /\ BudgetInv /\ PurgeInv => AdminTypeOK
  <2> SUFFICES ASSUME AccountInv, BudgetInv, PurgeInv PROVE AdminTypeOK
    OBVIOUS
  <2>1. Len(audit) <= MaxAudits
    <3>1. Len(audit) + Cardinality(Running) <= MaxAudits
      BY DEF BudgetInv
    <3>2. QED
      BY <3>1, BudgetTypes
  <2>2. QED
    BY <2>1 DEF AccountInv, AdminInv, RowTyped, PurgeInv, PurgeTypes, AdminTypeOK
<1>2. QED
  BY <1>1, AdministrationInvariant, PTL

\* A purge that reports no remaining rows has left none before its cutoff,
\* however many purges run beside each other, whatever their batch size and
\* whenever the day changes between count, selection and deletion.
THEOREM ZeroRemainingIsEmpty == AdminSpec => []ZeroMeansEmpty
<1>1. PurgeInv => ZeroMeansEmpty
  BY DEF PurgeInv
<1>2. QED
  BY <1>1, AdministrationInvariant, PTL

-----------------------------------------------------------------------------
(* Purges report what they deleted *)

\* Each table has lost as many rows as the audit rows report.
TruthInv ==
  \A t \in Tables : /\ IsFiniteSet(ReportedDeleted(t))
                    /\ Cardinality(ReportedDeleted(t)) + Cardinality(expired[t]) = Recorded

\* The tables are finite.
LEMMA ExpiredFinite ==
  ASSUME PurgeTypes, NEW t \in Tables
  PROVE  IsFiniteSet(expired[t]) /\ Cardinality(expired[t]) \in Nat
<1>1. expired[t] \in SUBSET (0..(Recorded - 1))
  BY DEF PurgeTypes
<1>2. IsFiniteSet(0..(Recorded - 1))
  <2>1. 0 \in Int /\ Recorded - 1 \in Int
    BY AdministrationAssumption
  <2> QED BY <2>1, FS_Interval
<1> QED BY <1>1, <1>2, FS_Subset, FS_CardinalityType

\* An audit row is added behind the others.
LEMMA AuditGrows ==
  ASSUME BudgetInv, NEW e, audit' = Append(audit, e)
  PROVE  /\ Len(audit) + 1 \notin DOMAIN audit
         /\ DOMAIN audit' = DOMAIN audit \cup {Len(audit) + 1}
         /\ audit'[Len(audit) + 1] = e
         /\ \A i \in DOMAIN audit : audit'[i] = audit[i]
<1>1. PICK S : audit \in Seq(S)
  BY DEF BudgetInv
<1>2. audit \in Seq(S \cup {e})
  BY <1>1, SeqMonotonic
<1> QED BY <1>2

\* An audit row about something else than a purge reports no deleted row.
LEMMA OtherAuditsReportNothing ==
  ASSUME BudgetInv,
         audit' = audit \/ \E e : audit' = Append(audit, e) /\ e.action # "retention.purged",
         NEW t \in Tables
  PROVE  ReportedDeleted(t)' = ReportedDeleted(t)
<1>1. Purges' = Purges /\ \A i \in Purges : audit'[i] = audit[i]
  <2>1. CASE audit' = audit
    BY <2>1 DEF Purges
  <2>2. ASSUME NEW e, audit' = Append(audit, e), e.action # "retention.purged"
        PROVE  Purges' = Purges /\ \A i \in Purges : audit'[i] = audit[i]
    BY <2>2, AuditGrows DEF Purges
  <2> QED BY <2>1, <2>2
<1> QED BY <1>1 DEF ReportedDeleted

\* The deletes of a purge: the rows that go are the rows it reports, because
\* AllDeleted compared the row counts first.
LEMMA DeleteReportsTruth ==
  ASSUME BudgetInv, PurgeTypes, TruthInv, NEW a \in Admins, delete_purge(a), AllDeleted(a),
         NEW t \in Tables
  PROVE  /\ IsFiniteSet(ReportedDeleted(t))'
         /\ Cardinality(ReportedDeleted(t)') + Cardinality(expired'[t]) = Recorded
<1> DEFINE q == request[a]
           e == [action |-> "retention.purged", before |-> q.counted, after |-> Report(q)]
           n == Cardinality(q.rows[t])
           D == ReportedDeleted(t)
           C == {Len(audit) + 1} \X (1..n)
<1>1. /\ audit' = Append(audit, e) /\ expired'[t] = expired[t] \ q.rows[t]
      /\ q.rows[t] \in SUBSET expired[t]
  BY DEF delete_purge, _write_audit, AllDeleted
<1>2. IsFiniteSet(expired[t]) /\ Cardinality(expired[t]) \in Nat
  BY ExpiredFinite
<1>3. IsFiniteSet(q.rows[t]) /\ n \in Nat
  BY <1>1, <1>2, FS_Subset, FS_CardinalityType
<1>4. /\ IsFiniteSet(expired'[t]) /\ Cardinality(expired'[t]) \in Nat
      /\ Cardinality(expired'[t]) = Cardinality(expired[t]) - n
  <2>1. IsFiniteSet(expired[t] \ q.rows[t])
    BY <1>2, FS_Difference
  <2>2. Cardinality(expired[t] \ q.rows[t]) =
          Cardinality(expired[t]) - Cardinality(expired[t] \cap q.rows[t])
    BY <1>2, FS_Difference
  <2>3. expired[t] \cap q.rows[t] = q.rows[t]
    BY <1>1
  <2> QED BY <1>1, <2>1, <2>2, <2>3, FS_CardinalityType
<1>5. e.action = "retention.purged" /\ e.after.deleted[t] = n
  BY DEF Report
<1> HIDE DEF e, n
<1>6. /\ Purges' = Purges \cup {Len(audit) + 1} /\ \A i \in Purges : audit'[i] = audit[i]
      /\ audit'[Len(audit) + 1] = e /\ Len(audit) + 1 \notin Purges
  BY <1>1, <1>5, AuditGrows DEF Purges
<1>7. D' = D \cup C
  <2>1. D' = UNION {{i} \X (1..audit'[i].after.deleted[t]) : i \in Purges \cup {Len(audit) + 1}}
    BY <1>6 DEF ReportedDeleted
  <2> QED BY <2>1, <1>5, <1>6 DEF ReportedDeleted
<1>8. D \cap C = {}
  BY <1>6 DEF ReportedDeleted
<1>9. IsFiniteSet(C) /\ Cardinality(C) = n
  <2>1. IsFiniteSet({Len(audit) + 1}) /\ Cardinality({Len(audit) + 1}) = 1
    BY FS_Singleton
  <2>2. IsFiniteSet(1..n) /\ Cardinality(1..n) = n
    BY <1>3, FS_Interval
  <2> QED BY <1>3, <2>1, <2>2, FS_Product
<1>10. IsFiniteSet(D) /\ Cardinality(D) + Cardinality(expired[t]) = Recorded
  BY DEF TruthInv
<1> HIDE DEF C, D
<1>11. IsFiniteSet(D \cup C) /\ Cardinality(D \cup C) = Cardinality(D) + Cardinality(C) - 0
  BY <1>8, <1>9, <1>10, FS_Union, FS_EmptySet
<1>12. Cardinality(D) \in Nat
  BY <1>10, FS_CardinalityType
<1>13. Cardinality(D \cup C) + Cardinality(expired'[t]) = Recorded
  BY <1>2, <1>3, <1>4, <1>9, <1>10, <1>11, <1>12, AdministrationAssumption
<1> QED BY <1>7, <1>11, <1>13 DEF D

\* Every step keeps the two numbers together.
LEMMA TruthStep ==
  ASSUME BudgetInv, PurgeTypes, TruthInv, [CallerStep \/ RetentionStep]_avars
  PROVE  TruthInv'
<1>1. ASSUME expired' = expired,
             audit' = audit \/ \E e : audit' = Append(audit, e) /\ e.action # "retention.purged"
      PROVE  TruthInv'
  <2>1. \A t \in Tables : ReportedDeleted(t)' = ReportedDeleted(t)
    BY <1>1, OtherAuditsReportNothing
  <2> QED BY <1>1, <2>1 DEF TruthInv
<1>2. CASE CallerStep
  BY <1>1, <1>2, CallerAudits
<1>3. ASSUME NEW a \in Admins, delete_purge(a) PROVE TruthInv'
  <2>1. CASE AllDeleted(a)
    BY <1>3, <2>1, DeleteReportsTruth DEF TruthInv
  <2>2. CASE ~AllDeleted(a)
    BY <1>1, <1>3, <2>2 DEF delete_purge
  <2> QED BY <2>1, <2>2
<1>4. ASSUME NEW a \in Admins, preview(a) \/ count_purge(a) \/ select_purge(a)
      PROVE  TruthInv'
  BY <1>1, <1>4 DEF preview, count_purge, select_purge
<1>5. CASE NextDay
  BY <1>1, <1>5 DEF NextDay
<1>6. CASE UNCHANGED avars
  BY <1>1, <1>6 DEF avars
<1> QED BY <1>2, <1>3, <1>4, <1>5, <1>6 DEF RetentionStep

\* The deleted counts in the audit rows add up to the rows that are gone, for
\* any number of purges beside each other: a purge whose rows another one has
\* deleted meanwhile writes no report at all (the row counts in purge).
THEOREM PurgesTellTheTruth == AdminSpec => []PurgeReportsTruth
<1>1. AdminInit => TruthInv
  <2> SUFFICES ASSUME AdminInit, NEW t \in Tables
               PROVE  /\ IsFiniteSet(ReportedDeleted(t))
                      /\ Cardinality(ReportedDeleted(t)) + Cardinality(expired[t]) = Recorded
    BY DEF TruthInv
  <2>1. ReportedDeleted(t) = {} /\ expired[t] = 0..(Recorded - 1)
    BY DEF AdminInit, ReportedDeleted, Purges
  <2>2. Recorded \in Nat
    BY AdministrationAssumption
  <2>3. Cardinality(0..(Recorded - 1)) = Recorded
    BY <2>2, FS_Interval
  <2> QED BY <2>1, <2>2, <2>3, FS_EmptySet
<1>2. BudgetInv /\ PurgeInv /\ TruthInv /\ [CallerStep \/ RetentionStep]_avars => TruthInv'
  BY TruthStep DEF PurgeInv
<1>3. PurgeInv /\ TruthInv => PurgeReportsTruth
  <2> SUFFICES ASSUME PurgeInv, TruthInv, NEW t \in Tables
               PROVE  Cardinality(ReportedDeleted(t)) = Recorded - Cardinality(expired[t])
    BY DEF PurgeReportsTruth
  <2>1. Cardinality(expired[t]) \in Nat
    BY ExpiredFinite DEF PurgeInv
  <2>2. /\ Cardinality(ReportedDeleted(t)) \in Nat
        /\ Cardinality(ReportedDeleted(t)) + Cardinality(expired[t]) = Recorded
    BY FS_CardinalityType DEF TruthInv
  <2> QED BY <2>1, <2>2
<1>4. QED
  BY <1>1, <1>2, <1>3, AdministrationInvariant, PTL DEF AdminSpec

=============================================================================
