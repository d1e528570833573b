# TLA+ verification of the Zangpu API control plane

Zangpu puts a contract API in front of a private model service. An external
caller sends a signed chat request; the control plane checks the caller's
policy, quotas and capacity, reserves credit at Open WebUI, calls the model
through Bifrost, settles the credit and writes one terminal event. This
directory models the parts in which that can go wrong without a test noticing:
the SQL quota ledger, the life of a chat request together with its recovery,
the capacity gate in Valkey, the outbox that carries a caller's desired state to
Bifrost, the administrators' transactions and retention, and the way of a signed
request past replay guard, rate window and policy.

Every definition follows the code under `src/`; `PROJECT.json` maps each one to
the lines it models. Definitions keep the names of the Python and Lua functions
where TLA+ allows it.

## 1. The system

| Part | State | Operations | Interacts with |
|---|---|---|---|
| Quota ledger, `services/quota.py` | SQL rows: `api_call_operation`, `api_client_quota_usage` (one per caller and day, one per caller), `api_call_event` | `reserve_operation`, `record_credit_reservation`, `record_provider_usage`, `touch_pending_operation`, `finalize_operation` | called by the chat service and by recovery, each call one transaction with `SELECT ... FOR UPDATE` |
| Chat service, `services/chat.py` | one coroutine per request; `_ChatAdmission`, the decoder's usage, `terminal_committed` | `execute` (JSON), `prepare_stream` and `_stream_response` (SSE), `_finish_stream_failure`, `_heartbeat_stream` | ledger, Valkey limiters, Open WebUI, Bifrost |
| Recovery, `workers/recovery.py` | none of its own; a batch of candidate snapshots per pass | `run_once`: `_load_candidates`, `_process`, `_finalize`, `_finalize_without_credit` | ledger and Open WebUI; runs beside live handlers and beside other passes |
| Model pools, `limits/model_pool.py`, `limits/lua/model_pool_*.lua` | Valkey sorted sets: active leases, queue order, ticket expiries (pool, global, caller), a sequence | admit or enqueue, heartbeat, release, cancel, observe | chat service |
| Caller concurrency, `limits/concurrency.py`, `limits/lua/concurrency_*.lua` | Valkey sorted set of leases per caller | acquire, heartbeat, release, observe | chat service, through `_ConcurrencyLeaseGuard` |
| QPS window and nonce guard, `limits/qps.py`, `limits/nonce.py` | Valkey sorted set per caller; one key per nonce | admit, claim | chat and metadata routes |
| Open WebUI (external) | a credit record per operation | reserve, settle, cancel, status | chat service, recovery |
| Bifrost (external) | virtual keys; completions | forward, stream; key administration | chat service, outbox worker |
| Binding service and outbox, `integrations/bifrost/binding_service.py`, `workers/outbox.py` | SQL rows `api_client_binding`, `control_outbox` | claim, load, execute, complete, fail | Bifrost, administration |
| Caller administration, `services/admin.py` | SQL rows `api_client`, `api_client_credential`, `api_client_admin_audit` | create, update, rotate, revoke, disable; READ COMMITTED sessions that take no locks | every request (credential and policy), ledger, outbox |
| Retention, `services/retention.py` | none; deletes events and audits, writes an audit | preview, purge | event and audit tables |
| Reports, `services/metadata.py`, `observability.py`, `capacity.py` | none | read only | all tables |
| Routes and security, `api/`, `security/` | none | parse, authenticate, map errors | chat, administration |
| SDKs, web console, load scripts, deployment | none on the server | | public contract |

What is hard here:

* **Interleavings.** Handlers of one caller share quota rows; recovery works on
  operations whose handler may still be alive; recovery passes overlap.
* **Lost replies.** Every call to Valkey, SQL or Open WebUI may have had its
  effect although its caller sees an exception. `_ConcurrencyLeaseGuard.run`
  makes this ordinary: it cancels an await whose worker thread goes on to commit.
* **Stale reads.** Recovery decides on snapshots; admission on a policy and a
  start time read before a queue wait of minutes; an administrator's session
  commits what it read before others committed.
* **Leases.** The gates count leases that expire by themselves, not handlers.
* **Two clocks of one message.** A timestamp tolerance says how long a signed
  message is good, a key in Valkey how long it is remembered.
* **Boundaries.** Midnight between start and end of an operation; the BIGINT
  limit; queue and batch limits.
* **Things that must happen.** Every pending operation must become terminal,
  every queued request must leave the queue.

`PROJECT.json` lists the hazards with the line at which each bites.

What makes each part correct:

* Ledger: the counters equal what the operations imply, at all times; a request
  id is admitted once; admission respects the ceilings in force; terminal rows
  never change.
* Chat and recovery: the charge in the event is Open WebUI's charge; success is
  reported only after it is committed; no reservation is stranded; the provider
  is called at most once per request id; everything pending ends.
* Pools and leases: never more handlers at a model than its limit; first come,
  first served; nothing is left behind; waiting is bounded.
* Outbox: an item has one worker at a time and ends; a caller has one key, which
  is on while the caller is served and goes off when it is disabled.
* Administration: what is disabled or revoked stays so, a disabled caller has no
  live credential, a rotation issues a credential that works; a purge reports
  what it removed.
* Access: a signed message gets in once, no admission exceeds the rate limit of
  its policy, and a caller that is locked out reserves nothing any more.
* Reports: what a caller or an administrator is told agrees with what admission
  does.

## 2. Modules

| Module | Models | Proofs |
|---|---|---|
| `QuotaLedger` | the SQL tables and the transactions of `quota.py`; policy changes; event purge; the usage report and the event summary | `QuotaLedgerProofs` |
| `TokenBudget` | abstract: what the ledger promises, without counters | `QuotaRefinementProofs` |
| `ChatLifecycle` | handlers, recovery passes, the operation row and Open WebUI's credit record | `ChatLifecycleProofs` |
| `ModelPool` | the Valkey sets, the queue, the lease guard, time; a pool's state on the capacity page | `ModelPoolProofs` |
| `BindingOutbox` | bindings, outbox items, the outbox workers, Bifrost's keys | `BindingOutboxProofs` |
| `Administration` | the administrators' transactions on a caller, its credentials and the audit table; retention | `AdministrationProofs` |
| `CallerAccess` | composes `Administration` with the signed requests of the caller | `CallerAccessProofs` (extends `AdministrationProofs`) |
| `MCQuotaLedger`, `MCChatLifecycle`, `MCModelPool`, `MCBindingOutbox`, `MCAdministration`, `MCCallerAccess` | instances for TLC | |

Each module also holds `Mutant_...` operators, placed before the definition they
vary. They are plausible mistakes in the code; no specification uses them. They
show that each property notices such a mistake.

### QuotaLedger

A table is a function whose domain is the set of rows inserted so far. A
function of `quota.py` runs in one transaction, locks its rows and writes all or
nothing, so a committed transaction is one action and a refused one is no step.
`policy` is what `reserve_operation` re-reads of caller and credential under
lock; `SetPolicy` stands for whatever the administrator commits. Timestamps are
parameters, since each process reads its own clock; callers never pass one from
before the operation's start (`chat.py` takes `max(now, started_at)`), which is
`Since`. Quota rows are keyed by the UTC day in which the operation *started*.
Not in this module: the order of row locks; audit rows and the retention preview,
which are in `Administration`.

Two reports are operators over the tables: `get_usage`, which a caller reads, and
`summarize`, which an administrator reads. Each is computed from other rows or by
another formula than admission, and a property compares them. `get_usage` loads
the policy in one session and the rows in a later one, so it takes any policy and
is compared with what admission under that policy would do. A summary over more
than `MaxAggregateRows` events is refused (`TooBroad`).

`TokenBudget` says the same with no counters: an operation commits its
reservation while it is open and its usage once it is closed, and each admission
adds up afresh what the operations of the day and of the caller's life commit.
The refinement mapping (`Budget`) sends `operation` to `account` (usage as one
number, the status as open or closed) and `policy` to `ceiling`; quota rows,
events, settlements and timestamps of updates have no counterpart.

### ChatLifecycle

A handler step is one awaited call. Its effect happens at one instant; the call
may also fail, with or without its effect (`Fault`, counted up to `MaxFaults`).
`handler[r].at` is the next call, `plan` the terminal evidence the handler will
write, `seen` the decoder's usage. `operation[r]` joins the operation row with
the charge of its event; `credit[r]` is Open WebUI's record. The reservation and
quota arithmetic is left to `QuotaLedger`, admission to `ModelPool`: here both
simply succeed or are refused. `settle` and `cancel` stand for the calls of
`execute` and of `_settle_stream` / `_cancel_stream`, which differ only in what an
exception leads to (`Raise`): a plain request runs into its `finally`, a stream on
its way to `[DONE]` tries `_finish_stream_failure` first.

Clocks are reduced to the one comparison recovery makes: `stale`. `Age` sets it,
heartbeats and recorded evidence clear it. `SlowAwaits` are the positions at
which a live handler may stay longer than `stale_after_seconds`. With the
default of 300 s that can be the provider call of a plain request, which sends
no heartbeat to SQL, and a stream held by its consumer.

A recovery candidate is what `_load_candidates` read, never read again. The
batch is any `BatchSize` of the stale operations: the order by `updated_at` is
not modelled.

Open WebUI is external and modelled from how its client and callers use it:
settling is idempotent for the same usage and refused otherwise, cancelling is
idempotent and refused after a settlement, a settlement may end in
`settlement_error`, a cancel may leave any record of `CancelOutcomes`.

### ModelPool

A Lua script is atomic in Valkey, so a script is an action. Expiry scores are
kept as the time that is left and `Tick` counts down; every script removes
expired members before it counts, so here they vanish when they expire. The four
ticket sets hold the same members, so `ticket` is one function; `queue` is the
order by sequence number. `due` is the time to the handler's next Valkey call
and a handler that is due is served before time passes (`Urgent`): a call takes
at most `CallTime`, which the 2 s socket timeout of `limits/redis.py` justifies.
The lease counts from the effect of the script, the next heartbeat from its
reply, which comes up to a `CallTime` later (`NextHeartbeat`). `PoolAssumption`
asks for `HeartbeatTime + 3 * CallTime < LeaseTime`; the defaults are
15 + 3·2 < 60. `settings.py` enforces twice the heartbeat below the lease time,
which is weaker when both are a few seconds.

`Unguarded` are streams that may stay at a `yield` for longer than that: the
generator is suspended while a slow consumer reads, and nobody renews its
leases. Frames that follow each other in one chunk without a look at the
heartbeat, and the failure path, which has no lease guard, count as such a wait.

### BindingOutbox

The administrator's transactions are one step each: `create_caller` and
`disable_caller`, both through `queue_binding_sync`, which gives the binding a new
version and stages an item that carries it. A caller is created once and
disabled once, so an item is known by its caller and action.

A worker's step is one statement or one request. `_claim` locks its rows
(`FOR UPDATE SKIP LOCKED`) and is atomic; the batch is worked through in its
order. `_load` reads the item and then the binding (`load_binding`), and `_execute`
makes one call after another. An item that somebody else has ended meanwhile is
an error in `_load`, and `_fail` reads it again: one that was claimed anew in
between is failed for good. `_complete` and `_fail` read item and binding without a
lock, so each is two reads (`read_item`, `read_binding`) and a `commit`, between which
others may commit; the commit writes only the columns the transaction changed,
as SQLAlchemy's update does. (In `_fail` the second read flushes the item and so
holds its row until the commit; leaving this lock out only adds behaviours.) A
call to Bifrost may fail, retryable or not, with or without its effect.

Clocks are reduced to what `_claim` makes of them. `ready`: `available_at` has come.
`earlier`: the order by `(available_at, id)`. An item that is staged or ends its
backoff goes behind the others; only under `LooseOrder` may it take a place before
some, since items of one second are in the order of random ids and a retry is
counted from the start of the pass. `expired`: the claim is older than
`claim_timeout_seconds`. A claim expires when no worker holds the item any more,
or, up to `MaxLate` times, under a living worker, whose pass works through its
batch one call after another; `late` counts these. Bifrost's keys are a sequence per
caller name with their `is_active`; nobody else deletes or changes them.

### Administration

`sessionmaker.begin()` gives READ COMMITTED transactions, and `session.get` reads
without a lock. A transaction is therefore split where another one can commit in
between: `read_*` is the first read with its checks, `load_*` a later statement,
`commit_*` everything from the first UPDATE on, which locks the caller row.
`Flushed` writes what SQLAlchemy's unit of work writes, the columns whose value
differs from the one that was read, onto the row as it is now.
`request[a]` is the transaction of administrator `a`; one that is refused ends
without a step, `Rollback` ends one anywhere.

A rotation adds the new credential to the session and then walks
`client.credentials`. The walk is a lazy load, and a load flushes the session
first: `load_rotate` has the new credential in its list.

A disable sets the status first, so loading the credentials locks the caller
row; hence read and update of the credentials are one step with the commit.

Retention works on the creation times of old rows of the two tables: `preview`,
`count_purge` (the confirmation counts again and compares), `select_purge` and
`delete_purge`, which compares the row counts of its deletes and rolls back if
another purge was faster. `audit` holds the rows written in the behaviour itself;
they are younger than any cutoff.

### CallerAccess

Extends `Administration` and adds the deliveries of signed messages: resolve the
credential, check timestamp and signature, claim the nonce, load the policy,
pass the QPS window, then either reserve an operation (a re-read under lock, as in
`QuotaLedger`) or answer a metadata request. Each is one statement or one
Valkey call; Valkey calls may fail with or without their effect. Between window
and reservation a chat request may queue for any time.

The caller's expiry date, its binding and the model it asks for are not part of
the state; where they are checked (`_resolve`, `load_policy`, `reserve`), a request
may be refused for no reason the model knows. Status, credential and endpoint are
checked against the administrators' rows, at the policy and again at the
reservation.

Message, nonce and request id are one: they are signed together. The clock runs
in ticks, `Ticks` to the second. `InTolerance` compares whole seconds, as the code
does with `int(time())`, while `nonce[m]`, the last moment at which the key of `m` is
there, is exact. Valkey and the hosts share a clock, and the time from the
timestamp check to the claim is at most `CheckDelay`. `NonceAssumption` is what
`settings.py:84` demands, `NonceTTL >= 2 * Tolerance`; the defaults, 600 and 300 s, are
exactly that. A message then passes the timestamp check for a second longer than
its key may live, which is finding 4. `ReplayOnlyIfEarly` says what holds: only a
message accepted in the first second it passes, which takes a sender whose clock
is ahead by the whole tolerance, can be accepted again.

`admissions` lists what the window let through. `WindowNeverExceeded` takes each
admission by itself: the window that ends with it is within the limit that this
request carries, even if others in the window carried a higher one.

## 3. Runs

| Run | Instance | Distinct states | Shows |
|---|---|---|---|
| `ledger` | 3 operations, 3 request ids, 1 caller, 2 days, 4 policies | 164 532 | counters, idempotency, events, reports, refinement of `TokenBudget` |
| `chat` | a request sent as a stream and again plain, same request id; 2 overlapping passes; 3 faults | 151 262 | charge, settlement, orphans, success, provider calls |
| `chat_liveness` | plain request and stream beside each other, 1 worker, 2 faults | 93 292 | every pending operation ends |
| `pool` | 4 requests, 1 pool of size 1, one stream may be held at a yield, no fault | 2 516 167 | queue consistency, FIFO, limits and capacity page, nothing left behind |
| `pool_faults` | 3 requests, 2 pools, 1 fault | 429 620 | the gate per pool and per caller; waiting in the queue ends |
| `outbox` | 1 caller, 2 workers, 3 attempts, 1 fault, 1 crash, 1 claim that expires under a living worker | 167 305 | a served caller has its key; until a claim expires like that: exclusive claims, one key, visible failures, every item ends |
| `admin` | 2 administrators, 3 credentials, 4 changes, 3 old rows per table, batches of 2, 5 days | 20 598 | lockout under races, truthful purges |
| `access` | 1 administrator, 3 deliveries of 2 messages, 2 changes, 1 fault | 4 294 849 | replay, rate window, lockout of requests in flight |
| `chat_stuck_usage`, `outbox_overtaken`, `admin_rotate`, `access_replay` | smallest that show it | | findings, below |

Why these bounds are enough to be interesting.

* `ledger`: the ceilings bind (two requests a day, four tokens in all), usage may
  be below or above the reservation, an operation may start on one day and end
  on the next, `BigIntMax` is small enough to refuse, and a purge batch is
  smaller than what is eligible. A policy may be replaced at any time, one of them
  without the chat endpoint; three events are one more than `MaxAggregateRows`. A
  day lasts one second, `SecondsPerDay`, so two clock readings are two days.
* `chat`: whichever of the two requests is admitted first keeps the request id,
  so every behaviour of a plain request and of a stream is there, each against a
  retry. Three faults are enough to lose the reply of the handler and of both
  passes, or a lease, or to crash, at any call. Operations of different requests
  meet only in a recovery batch, which `chat_liveness` has.
* `pool`: with a limit of one and four requests there is a holder, a full queue
  and a refusal; a ticket lasts two units and a lease five, so tickets expire
  before, at and after their handler's deadline. `CallerQueueLimit` 1 with two
  callers separates the caller limit from the global one. A heartbeat of one unit
  and calls of up to one make five the shortest lease the assumption allows. The
  two requests of caller `a` that are never held are interchangeable
  (`MCSymmetry`). `pool_faults` has two pools and a queue wait of one unit.
* `outbox`: bindings of different callers share nothing, so one caller has all
  the races between its create and its disable. A failure that is not retryable
  brings an item to its limit at once; three attempts are one beyond the fault and
  the crash of a behaviour, and without it the item may be lost, see below.
  `LooseOrder` is on, so every order of a batch occurs. The properties that need
  prompt workers are guarded by `late = 0`: they are checked in every behaviour up
  to the moment at which a worker outlasts its claim. `outbox_overtaken` has one
  worker, `LooseOrder` off, `MaxLate` 0 and one fault.
* `admin`: two administrators are enough for every pair of transactions to
  overlap, and `MaxAudits` 4 for a creation and three changes, so that a
  transaction can span a rotation and a disable. Three old rows and batches of
  two make a purge partial; five days let the cutoffs pass between preview and
  confirmation.
* `access`: a second has two ticks, the tolerance is one second and the nonce
  lifetime two, the least the assumption allows. The message that is delivered
  twice is signed for second 1 and passes from tick 0 to the end of the modelled
  clock, tick 5; a key set at tick 0 is gone at tick 5. The window is two ticks.
  The administrator's patch lowers the limit from 2 to 1 and withdraws the chat
  endpoint, so that requests with the old limit and with the new one meet in one
  window. `access_replay` is the same instance with two deliveries of one message,
  no fault and no delay.
* Deadlock checking is off everywhere: requests are finite, and when all are
  answered the system rightly stops.

### Fairness

* `ChatLifecycle`: weak fairness of each handler's own steps (the event loop
  resumes a coroutine whose await returns, and every await returns: HTTP, SQL and
  Valkey calls have timeouts and a stream has a maximal length), of `Age` (time
  passes) and of each worker (the deployment runs recovery again and again). No
  fairness of heartbeats, arrivals, or faults. `chat_liveness` has
  `SlowAwaits = {}`: recovery meets only operations whose handler is gone. The
  other case does not hold; see `chat_stuck_usage`.
* `ModelPool`: weak fairness of `Tick` and of a handler's own calls, the end of
  its queue wait included. None of polls, of the end of a request, or of a stream
  leaving its yield: `QueueWaitEnds` holds although the slot may never be free.
* `BindingOutbox`: weak fairness of each worker's steps (the deployment runs
  `run_once` again and again, and each call ends by its timeout), and of `Backoff`
  and `Expire` (time passes). None of the administrator or of crashes.

### Properties

`QuotaLedger`: `LedgerBalanced`, `ReservationCovered`, `OneOperationPerRequestId`,
`RunningTotalsAreSerial`, `EventMatchesOperation`, `TerminalIsFinal`,
`OverflowOnlyByOverrun`, `UsageReportMatchesAdmission`, `SummaryMatchesLedger`,
`ImplementsTokenBudget`. `ChatLifecycle`: `ChargeMatchesCredit`,
`CompletedIsSettled`, `NoOrphanCredit`, `SuccessAfterCommit`,
`ProviderCalledOnce`, `PendingIsFinished`. `ModelPool`: `ActiveWithinLimit`,
`CallerWithinLimit`, `QueueIsTickets`, `CapacityReportHolds`, `NothingLeftBehind`,
`NoOvertaking`, `QueueWaitEnds`. `BindingOutbox`:
`ClaimIsExclusive`, `OneKeyPerCaller`, `FailureIsVisible`, `ActiveBindingIsUsable`,
`ItemsEnd`. `Administration`: `DisabledHasNoCredential`, `NothingComesBack`,
`PurgeReportsTruth`, `ZeroMeansEmpty`. `CallerAccess`: `ReplayOnlyIfEarly`,
`WindowNeverExceeded`, `NoReservationAfterRevocation`. Each has its statement in
words above its definition. The state modules have one type invariant each; that
of `CallerAccess` is part of `NonceInv` and `WindowTypes` in its proofs.

### Findings

1. **An operation that recovery can never finish** (`chat_stuck_usage`). A
   stream slower than the cutoff is picked up by recovery, which cancels its
   credit and loses the reply. The live stream then records its usage. From then
   on every pass reads a cancelled credit with zero tokens together with
   recorded usage, calls `record_provider_usage` with zero and conflicts. The
   operation stays pending and its token reservation held.
   `docs/architecture.md:91,95` promises a later recovery.
2. **A disable overtakes a create** (`outbox_overtaken`). A worker has claimed the
   create when the disable is staged; the create's call to Bifrost fails, and its
   retry is due after a backoff, behind the disable. The next batch is worked
   through in order: the disable finds no key id, makes no call and completes; the
   create then makes a key, which stays on at Bifrost. The caller itself
   is disabled locally, so no request uses the key. `docs/admin-api.md:86` says the
   worker completes the remote disable.
3. **A rotation revokes what it issues** (`admin_rotate`). `rotate_credential`
   adds the new credential and then revokes every active one of
   `client.credentials`; the lazy load of that list flushes the new row first, so
   it is revoked too, and the caller has no credential that works.
   `docs/admin-api.md:43` says that the OLD credential is revoked. Finding and
   `DisabledHasNoCredential` belong together: a rotation that read the caller
   before a disable commits its credential afterwards, unseen by the disable, and
   only because it revokes the credential itself is the disabled caller without
   one. A repair of the rotation has to look at the caller again (the mutant of
   `DisabledHasNoCredential` is that repair without it).
4. **A nonce is forgotten a moment too early** (`access_replay`). A message passes
   the timestamp check for `2 * tolerance + 1` seconds, because the clock is cut to
   whole seconds; its key lives `nonce_ttl` seconds, for which `settings.py:84` demands
   `2 * tolerance`, the default. A message accepted in its first moment is accepted
   again in its last second. A chat message ends at its reservation, where its
   request id is taken; a metadata request is answered again.
   `docs/contract-coverage.md:25` lists replay protection as verified.
   `LongKeysAcceptOnce` has the margin that closes it.

Known divergences without a run of their own:

* A stream suspended at a `yield` renews nothing, its leases expire, and the next
  request is admitted while the first upstream call is open:
  `ActiveWithinLimit` fails as soon as `Unguarded` is not empty.
  `docs/200-user-capacity-architecture.md:41` calls `model_active_limit` the hard
  gate that protects the GPU.
* `_claim` counts the attempt first and limits expired claims by `max_attempts`
  too, so an item whose worker dies in its last attempt stays `processing` for
  ever: `ItemsEnd` fails without an attempt to spare (`MaxAttempts` 2).
* Two updates that read the same version before either commits both succeed, and
  the later one overwrites what its administrator has not seen.
  `docs/admin-api.md:52` says that `expected_version` prevents this; it does for
  updates that follow each other.
* Of finding 1: recovery decides on what `_load_candidates` read, so usage recorded
  after that is closed as `RECOVERED_CANCELLED` without a charge, without any
  failure (`recovery.py:108`).
* Also of finding 1: `PendingIsFinished` fails with `NotFoundCode =
  "CREDIT_SETTLEMENT_NOT_FOUND"`. The client passes that code on when Open WebUI
  sends it with a 404, and recovery abandons an operation without credit only for
  the client's fallback code `OPENWEBUI_CREDIT_NOT_FOUND`.
* Of finding 2: if a second worker stores the created key between the disable's
  `_load` and its `_complete`, the disable makes no call and marks the binding
  `disabled` while the key is on (`outbox.py:189`).

## 4. Proofs

TLAPS checks seven modules. The theorems hold for every value of the constants
that satisfies the named assumptions: any number of callers, requests, workers,
administrators, failures and crashes. Every safety property of the passing runs,
invariants and action properties, is stated by a theorem.

Three theorem hypotheses go beyond the assumptions of the modules; without them
the theorems are false, and the text below says what then happens:

| Hypothesis | Theorems | Says |
|---|---|---|
| `Timely` | `ChargesMatchCredits`, `NoCreditIsOrphaned` | no operation becomes stale while its credit is being reserved |
| `Unguarded = {}` | `LeasesHold`, `PoolGateHolds`, `CallerGateHolds` | no stream is held at a yield |
| `NonceTTL * Ticks >= (2 * Tolerance + 1) * Ticks + CheckDelay` | `LongKeysAcceptOnce` | a nonce key outlives the last moment at which its message can be claimed |

**QuotaLedgerProofs**, from `LedgerAssumption` (types and signs of the constants;
`NoLimit` is no number, `NoSettlement` no settlement).

* The inductive invariant is `LedgerInv`: `TypeOK`, finitely many operations,
  `RowsExist` and `LedgerBalanced`. `LedgerBalanced` alone is not inductive:
  finalising an operation changes the sums of both its rows, so both must exist,
  and a row inserted with zeros is right only if no operation belongs to it.
* Sums are cardinalities of disjoint unions (`Cells`), so that they need no
  recursion: lemmas give the effect of adding an element, of moving one from the
  pending to the terminal operations, and of changing a function outside the set.
* `TypeCorrect` and `LedgerIsBalanced` follow; `ReservationIsCovered` because a
  member's cells are among the sum's; `RequestIdsAreIdempotent`, `EventsAgree` and
  `TerminalStaysFinal` (an action property) are inductive with the types.
* `SummaryAgreesWithLedger`: row and summary are two sums over the same
  operations, the one by `LedgerInv`, the other because events agree with their
  operations and pending ones have none (`SelectedEvents`). That the trend adds up
  to the totals is `SumOfParts`: numbering the cells of each bucket maps the cells
  of the sum of the bucket sums one to one onto the cells of the whole sum, which
  replaces an induction over the number of buckets.

**QuotaRefinementProofs** builds on it.

* `LedgerImplementsBudget`: every step of the ledger is a step of `TokenBudget` or
  a stutter under the mapping. The core is that the counters a reservation reads
  are the abstract sums: by `LedgerBalanced`, reserved plus consumed of a row is
  the sum of the weights of the operations of its period, split into the open
  and the closed ones. Recording usage needs `UnrecordedIsZero`: until
  `usage_recorded` is set the columns are zero, so usage is set and never revised.
* `ColumnsHaveRoom`: a sum of weights stays in range since each operation was
  admitted within it, and weights shrink as long as nobody overruns.
* `TotalsAreSerial` needs `TotalsBounded`: no event counts more than its caller
  has consumed by now, so a new event counts all others and its own usage.
* `ReportMatchesAdmission` is arithmetic over the two formulas, for any policy the
  report may have loaded.

**ChatLifecycleProofs**, from `ChatAssumption`.

* `TypeInv` adds to the types that a handler which records or settles a usage has
  seen one. `ChatInv` has four parts. `HandlerAgrees`: what the position of a
  handler says of row and credit; above all, at `terminalize` the credit has
  ended and has the charge about to be written, whatever recovery did meanwhile.
  `RowAgrees`: what the row says of the credit; a completed row has a settled
  credit for the same usage. `CandidateAgrees`: what a recovery pass read some
  time ago and still relies on: recorded usage and an ended credit do not change.
  `IdsAreUnique`: a request id has one operation.
* The parts need each other: a handler may find its row closed by recovery, and
  recovery acts on a row whose handler is still on its way. What makes it
  inductive is `Moves`, a property of every step: recorded usage, links, terminal
  rows and ended credits never change. So what handler and pass know stays true
  while the other works. `NoRequestRunsBack` states it as a theorem.
* `ChatTypeCorrect`, `CompletionFollowsSettlement`, `SuccessIsCommitted` and
  `ProviderIsCalledOnce` need no hypothesis on how long an await lasts.
* `ChargesMatchCredits` and `NoCreditIsOrphaned` need `Timely`. Otherwise recovery
  finds a stale row without a credit, closes it as such, and the reservation
  succeeds afterwards: TLC shows `NoOrphanCredit` violated when `reserve_credit` is
  among `SlowAwaits`. The age of an operation counts from before its queue wait
  (`chat.py:603`), so `Timely` asks that queue wait and call timeout together stay
  below `stale_after_seconds`. The defaults (30 s of waiting, 300 s) leave the
  margin; the settings allow a wait of 300 s and a staleness of 30 s.

**ModelPoolProofs**, from `PoolAssumption`.

* The gate counts live leases, `ActiveWithinLimit` and `CallerWithinLimit` count
  handlers. `LeaseInv` bridges them: the live leases are within the limits, and
  each handler's leases outlast the time to its next call, by the margins that
  grant, acquire and the two-step heartbeat leave, late replies included.
  Hence a busy handler always has both leases (`BusyHasLeases`) and there are at
  most as many busy handlers as leases. `LeasesHold`, `PoolGateHolds` and
  `CallerGateHolds` need `Unguarded = {}`: a held stream outlives its leases and goes
  on (section 3).
* Everything else holds with held streams too, from `PoolInv`: `GateInv` (live
  leases within the limits, none before the script that gives one), `TimersOK`,
  `QueueInv` (each queue lists the live tickets of its pool, each once, and there
  are no more than the global limit) and `Leftovers` (what a handler can still
  have in Valkey, by position).
* The queue operators are characterised without induction: `Without` removes
  members and keeps their order by rank, and `RanksAreTaken` says that every rank
  is taken, so that what is left is again a duplicate-free sequence.
* `PoolTypeCorrect`, `QueueAndTicketsAgree`, `FinishedLeaveNothing` and
  `CapacityPageIsRight` follow. `NobodyIsOvertaken`, an action property: a lease is
  given by the admission script only, to the head of the queue, or to a newcomer
  whose pool has no queue.

**BindingOutboxProofs**, from `OutboxAssumption`.

* `KeyInv` holds for workers of any speed: what a caller's binding, items and keys
  say of each other (`CallerAgrees`), and what a worker has read and will write
  (`WorkerAgrees`): a commit that makes a binding active carries a key that exists.
  It survives overtaking because keys, their record in a binding and staged items
  never disappear, which `NothingIsLost` states as a theorem. `OutboxTypeCorrect` and
  `ActiveBindingsAreUsable` follow.
* `ShowInv` adds what holds while `late = 0`: an item in a worker's hands is being
  processed under a claim that has not expired, by nobody else, and it is once in
  its batch (`ClaimInv`), and what the binding shows of an item that was given up
  (`CallerShows`, `WorkerShows`). A worker that is about to create a key has seen
  none, and nobody else can create it; one that is about to fail an item of the
  current version will write `error` over the status it read, which nobody else
  changes. `ClaimsAreExclusive`, `KeysAreNotDoubled` and `FailuresAreVisible` follow.
  Once a worker has outlasted its claim two may hold one item, and each may create
  a key.

**AdministrationProofs**, from `AdministrationAssumption`.

* `AdminInv` is `DisabledHasNoCredential` with the shape of the caller row: a flush
  never writes the status it read (`Flushed` touches version and columns only),
  and every commit that touches credentials only revokes, except the creation,
  which finds no caller. `DisabledIsLockedOut` and `NothingEverComesBack` follow.
* `AccountInv` types the row through overlapping flushes: a transaction that has
  read the caller finds it there when it commits. `BudgetInv`: audit rows and
  running transactions together stay in the bound of the model.
  `AdminTypeCorrect` follows.
* `PurgeInv`: what a purge has counted is at least what is eligible now, since old
  rows are only deleted, and what it has selected is before its cutoff. So a
  report of zero remaining rows can only err in one direction, and
  `ZeroRemainingIsEmpty` follows, although count, selection and deletion are three
  statements.
* `TruthInv`: the sum of the reported counts (the size of a disjoint union, as in
  `QuotaLedger`) and the rows that are left make up the table. A delete keeps it
  because the row counts were compared; `PurgesTellTheTruth` follows.

**CallerAccessProofs**, from `AccessAssumption`, `NonceAssumption` and
`LimitAssumption` (a `qps_limit` is positive, as `services/admin.py:46,82` and the check
constraint of the table demand).

* `NonceInv` has the facts that meet at the claim: a delivery between its checks
  was in tolerance at most `CheckDelay` ago (`ChecksAreFresh`), and the key of an
  accepted message is kept for its whole lifetime from the check on
  (`KeyOutlivesCheck`). Hence a message is accepted twice only if the key of one
  delivery ends before the message stops passing (`ReplayOnlyIfExpiring`), whatever
  the lifetime is. `SecondBounds` and `PassingTimes` bound the ticks at which a
  message passes by its whole seconds.
* `ReplaysAreEarly` needs no more than what the settings demand: a key that is gone
  before the last moment of its message was set within the first second, and the
  delay, of the time in which the message passes. `LongKeysAcceptOnce` adds that
  second and the delay to the lifetime, and then no key is gone too early.
* `WindowHolds`: `WindowInv` says that the sorted set still has every admission that
  a window ending now covers, and that each admission so far counted the window
  before it against the limit it carries itself, which does not change afterwards.
  `ColumnsInv` carries the type of `qps_limit` through the administrators' flushes, on
  top of `AccountInv`.
* `RevocationStopsReservations`, an action property: the reservation reads caller,
  credential and endpoint again.

**Only model-checked**: the liveness properties `PendingIsFinished`, `QueueWaitEnds`
and `ItemsEnd`, and the four runs that show a violation. Liveness under fairness
is beyond the proof system, as are ENABLED, induction over data and modules with
RECURSIVE operators; the project's modules declare none.

## 5. What is not modelled

* Outbox items of action `update` (nothing stages one), and keys that others
  delete or change at Bifrost.
* The bytes of the SSE stream: `OpenAIStreamDecoder` is reduced to whether usage
  was seen before the end.
* The join with the binding and the order in which `_load_candidates` fills its batch
  (oldest `updated_at` first): as many operations that can never be finished as a
  batch holds would hide all younger ones, while here a batch is any stale
  operations of the right number. The policy of an admitted request had a binding
  with a service user, and nothing takes either away, so the join hides no
  operation.
* Limits and virtual key that a request loaded before its queue wait and uses
  after it take effect for later requests. `reserve_operation` reads status, expiry,
  endpoint, model and ceilings again (`quota.py:231-246`), which `QuotaLedger` and, for
  status, credential and endpoint, `CallerAccess` have.
* Row-lock order and SQL deadlocks: a ledger transaction is atomic, and a deadlock
  victim is a transaction that fails without effect, which `chat` has anywhere.
* The date at which a credential expires, in `CallerAccess` (there an expired one is
  a refusal that may happen; `QuotaLedger` has the date); idempotency keys of create
  and disable beyond the uniqueness of name and item.
* Eviction or loss of data by Valkey, and clocks of SQL, Valkey and hosts that
  disagree.
* The capacity page over all pools: its observations are made at different
  instants, so it promises nothing that relates them. Percentiles, paging and CSV
  of the event pages.
* Signatures, encryption, HTTP parsing, error mapping, migrations, SDKs, web
  console: functions of one request or tooling, without shared state. The SDKs
  keep no state and do not retry.

## 6. Plan

1. An abstract specification of one charged request (admitted, then terminal
   exactly once with the authority's charge), implemented by `ChatLifecycle`; the
   refinement rests on `ChatInv` and `NoRequestRunsBack`.
2. What holds of `ModelPool` with held streams, stated in handlers: those beyond
   the limit are held ones.
3. The composition of `ChatLifecycle` with `ModelPool`'s admission times, in which
   `Timely` becomes a relation between settings.
4. `StreamDecoder`: frames across chunk boundaries against a reference.
