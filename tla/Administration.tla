--------------------------- MODULE Administration ---------------------------
(***************************************************************************)
(* The administrators' transactions on one caller (services/admin.py) and  *)
(* on the expired event and audit rows (services/retention.py).            *)
(*                                                                         *)
(* The sessions run at READ COMMITTED and read rows without locks, each    *)
(* statement its own snapshot; a commit writes the columns whose value     *)
(* differs from the one the session read, and no version column guards it. *)
(* The first UPDATE of the caller row locks it up to the commit, so what a *)
(* transaction does after it is one step with the commit.                  *)
(*                                                                         *)
(* A statement that changes nothing (a stale version, a caller that is     *)
(* already disabled, a conflict) ends the request and is otherwise no step.*)
(***************************************************************************)
EXTENDS Integers, FiniteSets, Sequences

CONSTANTS
  Admins,          \* administrator requests that run beside each other
  Credentials,     \* credential ids
  Settings,        \* what a caller may be created with: column -> value
  Patches,         \* what a PATCH may carry: some columns -> values
  Recorded,        \* events and audits have creation times 0 .. Recorded - 1
  EventRetention,  \* event_retention_days
  AuditRetention,  \* admin_audit_retention_days
  PurgeSize,       \* retention_batch_size
  MaxNow,          \* bound: last day of the modelled clock
  MaxAudits        \* bound: administrative changes in a behaviour

Columns == UNION {DOMAIN p : p \in Patches}

ASSUME AdministrationAssumption ==
  /\ {Recorded, EventRetention, AuditRetention, MaxNow, MaxAudits} \subseteq Nat
  /\ PurgeSize \in Nat \ {0}
  /\ EventRetention <= AuditRetention
  /\ \A p \in Patches : DOMAIN p # {}
  /\ \A s \in Settings : Columns \subseteq DOMAIN s

VARIABLES
  client,      \* api_client: the caller's row
  credential,  \* api_client_credential: the status of the caller's credentials
  audit,       \* api_client_admin_audit: what was written, in commit order
  expired,     \* creation times of the old rows of the two purged tables
  today,       \* the clock of the retention cutoffs
  request      \* the transaction of each administrator

avars == <<client, credential, audit, expired, today, request>>

Tables == {"event", "audit"}
Statuses == {"none", "active", "revoked"}

Idle == [op |-> "idle"]
Absent == [status |-> "absent", version |-> 0, columns |-> <<>>]

End(a) == request' = [request EXCEPT ![a] = Idle]
Start(a, r) == request' = [request EXCEPT ![a] = r]

At(a, op, step) == request[a].op = op /\ request[a].step = step

_write_audit(action, before, after) ==
  audit' = Append(audit, [action |-> action, before |-> before, after |-> after])

\* Each running request may add one audit row: the bound is kept by all.
Room == Len(audit) + Cardinality({b \in Admins : request[b] # Idle}) < MaxAudits
MayStart(a) == request[a] = Idle /\ Room

ActiveCredentials == {c \in Credentials : credential[c] = "active"}

\* A credential id nobody has used: new_uuid().
Unused(c) ==
  /\ credential[c] = "none"
  /\ \A b \in Admins : request[b] # Idle /\ request[b].op = "rotate" => request[b].new # c

Revoked(S) == [c \in Credentials |-> IF c \in S THEN "revoked" ELSE credential[c]]

-----------------------------------------------------------------------------
(* The caller and its credentials *)

\* create_caller is one transaction of inserts; the name is unique.
create_caller(c, s) ==
  /\ client = Absent
  /\ Unused(c)
  /\ Room
  /\ client' = [status |-> "active", version |-> 1, columns |-> s]
  /\ credential' = [credential EXCEPT ![c] = "active"]
  /\ _write_audit("caller.created", <<>>, s)
  /\ UNCHANGED <<expired, today, request>>

\* update_caller reads the row and compares its version with the one the
\* administrator gives, who may give any.
read_update(a, patch, expected_version) ==
  /\ MayStart(a)
  /\ client # Absent
  /\ client.version = expected_version
  /\ Start(a, [op |-> "update", step |-> "commit", row |-> client, patch |-> patch])
  /\ UNCHANGED <<client, credential, audit, expired, today>>

\* Mutant: the flush writes the whole row that was read.
Mutant_WholeRow(row, columns) ==
  [row EXCEPT !.version = row.version + 1,
     !.columns = [f \in DOMAIN @ |-> IF f \in DOMAIN columns THEN columns[f] ELSE @[f]]]

\* Mutant: a PATCH replaces the columns by the ones it names.
Mutant_Replaces(row, columns) ==
  [client EXCEPT !.version = row.version + 1,
     !.columns = IF DOMAIN columns = {} THEN @ ELSE columns]

\* The caller row after a flush of the session that read row: only columns
\* whose value changed in the session are written.
Flushed(row, columns) ==
  [client EXCEPT !.version = row.version + 1,
     !.columns = [f \in DOMAIN @ |->
                    IF f \in DOMAIN columns /\ columns[f] # row.columns[f]
                      THEN columns[f] ELSE @[f]]]

commit_update(a) ==
  /\ At(a, "update", "commit")
  /\ LET row == request[a].row
         patch == request[a].patch
     IN  /\ client' = Flushed(row, patch)
         /\ _write_audit("caller.updated", [f \in DOMAIN patch |-> row.columns[f]], patch)
  /\ End(a)
  /\ UNCHANGED <<credential, expired, today>>

\* disable_caller and rotate_credential go on only if the row read is active.
read_disable(a) ==
  /\ MayStart(a)
  /\ client.status = "active"
  /\ Start(a, [op |-> "disable", step |-> "commit", row |-> client])
  /\ UNCHANGED <<client, credential, audit, expired, today>>

\* stage_local_client_disable: loading the credentials flushes the new status,
\* so the caller row is locked from before they are read until the commit.
commit_disable(a) ==
  /\ At(a, "disable", "commit")
  /\ client' = [Flushed(request[a].row, <<>>) EXCEPT !.status = "disabled"]
  /\ credential' = Revoked(ActiveCredentials)
  /\ _write_audit("caller.disabled", [status |-> "active"], [status |-> "disabled"])
  /\ End(a)
  /\ UNCHANGED <<expired, today>>

read_rotate(a, c) ==
  /\ MayStart(a)
  /\ client.status = "active"
  /\ Unused(c)
  /\ Start(a, [op |-> "rotate", step |-> "load", row |-> client, new |-> c])
  /\ UNCHANGED <<client, credential, audit, expired, today>>

\* The first use of client.credentials loads it, and the load flushes the
\* session first: the credential added the statement before is among them.
load_rotate(a) ==
  /\ At(a, "rotate", "load")
  /\ Start(a, [op |-> "rotate", step |-> "commit", row |-> request[a].row,
               new |-> request[a].new,
               credentials |-> ActiveCredentials \cup {request[a].new}])
  /\ UNCHANGED <<client, credential, audit, expired, today>>

\* Mutant: the new credential is spared, as the administrator expects.
Mutant_SparesNew(a) ==
  /\ At(a, "rotate", "commit")
  /\ client' = Flushed(request[a].row, <<>>)
  /\ credential' = [Revoked(request[a].credentials) EXCEPT ![request[a].new] = "active"]
  /\ _write_audit("credential.rotated", [credentials |-> "active"], [credentials |-> "rotated"])
  /\ End(a)
  /\ UNCHANGED <<expired, today>>

commit_rotate(a) ==
  /\ At(a, "rotate", "commit")
  /\ client' = Flushed(request[a].row, <<>>)
  /\ credential' = Revoked(request[a].credentials)
  /\ _write_audit("credential.rotated", [credentials |-> "active"], [credentials |-> "rotated"])
  /\ End(a)
  /\ UNCHANGED <<expired, today>>

\* revoke_credential reads the caller, then the credential, which is of this
\* caller and active.
read_revoke(a, c) ==
  /\ MayStart(a)
  /\ client # Absent
  /\ Start(a, [op |-> "revoke", step |-> "load", row |-> client, credential |-> c])
  /\ UNCHANGED <<client, credential, audit, expired, today>>

load_revoke(a) ==
  /\ At(a, "revoke", "load")
  /\ IF credential[request[a].credential] = "active"
       THEN Start(a, [request[a] EXCEPT !.step = "commit"])
       ELSE End(a)
  /\ UNCHANGED <<client, credential, audit, expired, today>>

commit_revoke(a) ==
  /\ At(a, "revoke", "commit")
  /\ client' = Flushed(request[a].row, <<>>)
  /\ credential' = Revoked({request[a].credential})
  /\ _write_audit("credential.revoked", [credential_status |-> "active"],
                  [credential_status |-> "revoked"])
  /\ End(a)
  /\ UNCHANGED <<expired, today>>

-----------------------------------------------------------------------------
(* Retention *)

_cutoffs(now) ==
  LET Ago(days) == IF now > days THEN now - days ELSE 0
  IN  [t \in Tables |-> Ago(IF t = "event" THEN EventRetention ELSE AuditRetention)]

Eligible(t, cutoff) == {x \in expired[t] : x < cutoff[t]}

\* Mutant: the next batch is counted, not what is eligible.
Mutant_BatchCount(cutoff) ==
  [t \in Tables |-> LET n == Cardinality(Eligible(t, cutoff))
                    IN  IF n > PurgeSize THEN PurgeSize ELSE n]

Counts(cutoff) == [t \in Tables |-> Cardinality(Eligible(t, cutoff))]

\* The oldest rows, at most a batch of them.
Batch(t, cutoff) ==
  {x \in Eligible(t, cutoff) :
     Cardinality({y \in Eligible(t, cutoff) : y < x}) < PurgeSize}

preview(a) ==
  /\ MayStart(a)
  /\ Start(a, [op |-> "purge", step |-> "count", expected |-> Counts(_cutoffs(today))])
  /\ UNCHANGED <<client, credential, audit, expired, today>>

\* purge counts again, on the day it is confirmed.
count_purge(a) ==
  LET cutoff == _cutoffs(today)
  IN  /\ At(a, "purge", "count")
      /\ IF Counts(cutoff) = request[a].expected /\ \E t \in Tables : Counts(cutoff)[t] > 0
           THEN Start(a, [op |-> "purge", step |-> "select", cutoff |-> cutoff,
                          counted |-> Counts(cutoff)])
           ELSE End(a)
      /\ UNCHANGED <<client, credential, audit, expired, today>>

\* The two selects; each table is purged by its own statement.
select_purge(a) ==
  /\ At(a, "purge", "select")
  /\ Start(a, [op |-> "purge", step |-> "delete", cutoff |-> request[a].cutoff,
               counted |-> request[a].counted,
               rows |-> [t \in Tables |-> Batch(t, request[a].cutoff)]])
  /\ UNCHANGED <<client, credential, audit, expired, today>>

\* Mutant: the row counts of the two deletes are not looked at.
Mutant_NoRowCount(a) == TRUE

\* event_deleted = len(event_ids) and audit_deleted = len(audit_ids): a row
\* another purge has deleted meanwhile is not counted.
AllDeleted(a) == \A t \in Tables : request[a].rows[t] \subseteq expired[t]

Report(r) ==
  [deleted |-> [t \in Tables |-> Cardinality(r.rows[t])],
   remaining |-> [t \in Tables |-> r.counted[t] - Cardinality(r.rows[t])],
   cutoff |-> r.cutoff]

\* The deletes wait for the row locks of other purges; the audit row is
\* younger than any cutoff.
delete_purge(a) ==
  /\ At(a, "purge", "delete")
  /\ IF AllDeleted(a)
       THEN /\ expired' = [t \in Tables |-> expired[t] \ request[a].rows[t]]
            /\ _write_audit("retention.purged", request[a].counted, Report(request[a]))
       ELSE UNCHANGED <<expired, audit>>
  /\ End(a)
  /\ UNCHANGED <<client, credential, today>>

NextDay ==
  /\ today < MaxNow
  /\ today' = today + 1
  /\ UNCHANGED <<client, credential, audit, expired, request>>

\* The transaction of a fails or its process dies before the commit.
Rollback(a) ==
  /\ request[a] # Idle
  /\ End(a)
  /\ UNCHANGED <<client, credential, audit, expired, today>>

-----------------------------------------------------------------------------

AdminInit ==
  /\ client = Absent
  /\ credential = [c \in Credentials |-> "none"]
  /\ audit = <<>>
  /\ expired = [t \in Tables |-> 0..(Recorded - 1)]
  /\ today = 0
  /\ request = [a \in Admins |-> Idle]

CallerStep ==
  \/ \E c \in Credentials, s \in Settings : create_caller(c, s)
  \/ \E a \in Admins :
       \/ \E p \in Patches, v \in 1..(MaxAudits + 1) : read_update(a, p, v)
       \/ commit_update(a)
       \/ read_disable(a) \/ commit_disable(a)
       \/ \E c \in Credentials : read_rotate(a, c) \/ read_revoke(a, c)
       \/ load_rotate(a) \/ commit_rotate(a)
       \/ load_revoke(a) \/ commit_revoke(a)
       \/ Rollback(a)

RetentionStep ==
  \/ \E a \in Admins :
       preview(a) \/ count_purge(a) \/ select_purge(a) \/ delete_purge(a)
  \/ NextDay

AdminSpec == AdminInit /\ [][CallerStep \/ RetentionStep]_avars

-----------------------------------------------------------------------------
(* Properties *)

\* Type correctness of the caller's rows and of the purged tables.
AdminTypeOK ==
  /\ client = Absent \/ /\ client.status \in {"active", "disabled"}
                        /\ client.version \in Nat \ {0}
                        /\ Columns \subseteq DOMAIN client.columns
  /\ credential \in [Credentials -> Statuses]
  /\ expired \in [Tables -> SUBSET (0..(Recorded - 1))]
  /\ today \in 0..MaxNow
  /\ Len(audit) <= MaxAudits

\* A disabled caller has no active credential, although a rotation may read
\* the caller before it is disabled and insert its credential afterwards: the
\* disable cannot see that row, and nothing checks the caller again.
DisabledHasNoCredential ==
  client.status = "disabled" => ActiveCredentials = {}

\* Neither a disabled caller nor a revoked credential ever comes back, even
\* when a transaction that read the caller or the credential as active commits
\* afterwards.
NothingComesBack ==
  [][/\ client.status = "disabled" => client'.status = "disabled"
     /\ \A c \in Credentials : credential[c] = "revoked" => credential'[c] = "revoked"]_avars

Purges == {i \in DOMAIN audit : audit[i].action = "retention.purged"}

\* One element for each row of t that an audit row reports deleted, so that
\* their number is the sum of the deleted counts.
ReportedDeleted(t) ==
  UNION {{i} \X (1..audit[i].after.deleted[t]) : i \in Purges}

\* The deleted counts in the audit rows add up to the rows that are gone: of
\* two purges confirmed from one preview that select the same rows, the second
\* reports nothing.
PurgeReportsTruth ==
  \A t \in Tables :
    Cardinality(ReportedDeleted(t)) = Recorded - Cardinality(expired[t])

\* A purge that reports no remaining rows has left none before its cutoff: an
\* administrator who repeats purges until the remaining counts are zero has
\* purged everything, whatever purges ran in between.
ZeroMeansEmpty ==
  \A i \in Purges : \A t \in Tables :
    audit[i].after.remaining[t] = 0 => Eligible(t, audit[i].after.cutoff) = {}

\* A rotation replaces the caller's credential: the one it issues can be used.
IssuedIsActive ==
  [][\A c \in Credentials :
       credential[c] = "none" /\ credential'[c] # "none" => credential'[c] = "active"]_avars

=============================================================================
