# TLA+ models and proofs for Gradata

Gradata turns a user's corrections into lessons and graduates the ones that
hold up into rules. A *brain* is a directory: `lessons.md` (the lessons),
`events.jsonl` (the event log) and `system.db` (SQLite: a projection of the log,
queues, cursors). Several processes and threads work on one brain at a time: the
application that embeds `Brain`, the daemon, the hooks of an editor session, the
background workers; and a user may have the same brain on several devices that
meet in the cloud. Almost none of the code that makes this safe is a lock. It is
ordering (write this before that), idempotence (an event id, a unique index) and
retry, and that is what these models are about.

All paths below are relative to `src/Gradata/src/gradata/`.

## 1. Inventory

| Component | Source | State | Operations | What is hard |
|---|---|---|---|---|
| Write-through sync queue | `_sync_queue.py`, `_sync_worker.py`, `brain.py:570` | table `sync_queue`; thread, stop event | enqueue, tick (peek, POST, mark), start, stop with drain tick, startup drain | lost responses, two tickers on one table, 429, shutdown |
| Background worker pool | `_workers.py` | table `worker_jobs`; handlers, threads, deadline | enqueue, register, claim, handle, finalize, start, stop | crash between claim and handler, abandoned threads, deduplication |
| Event store | `_events.py` | `events.jsonl`, table `events` | emit (dual write), reconcile, queue and flush, supersede, queries | either write may fail, torn lines, replays |
| Cloud pull and merge | `cloud/pull.py`, `cloud/materializer.py`, `cloud/_apply_materialized.py`, `cloud/_sync_state.py` | pull cursor, `lessons.md` | page loop, fold, apply, save cursor | skewed clocks, conflicts, pulls cut short |
| Cloud push | `cloud/push.py` | push watermark | read batch, POST, move watermark | partial answers, two pushers, late commits |
| lessons.md and its lock | `_db.py`, and every writer | `lessons.md`, `.lessons.lock` | read, edit, write, approve | four locking disciplines on one file |
| Graduation | `enhancements/self_improvement/` | state and confidence of each lesson | update confidence, graduate, demote, kill | sweeps over stale comparisons, event before file |
| Rule canary | `enhancements/rule_canary.py` | one row per category | enrol, check, activate, roll back | keyed by category, replaced on insert |
| Brain facade, core | `brain.py`, `_core.py`, `brain_inspection.py` | caches | correct, end_session, forget, rollback, approve | orchestration of all of the above |
| Daemon | `daemon.py`, `_brain_lock.py` | brain lock, PID file, idle timer, session counter, /sync watermark | start, serve, idle shutdown, SIGTERM, cleanup, HTTP handlers, /sync | request threads race with each other, with the timer and with the end |
| MCP server | `mcp_server.py` | brain lock | open the brain, lock, serve one client, end | excludes the daemon, unless taking the lock fails |
| Hooks | `hooks/` | stamp file | session_close waterfall, context injection | run beside a brain, without its locks |
| Rule pipeline | `enhancements/rule_pipeline.py` | `lessons.md`, `AGENTS.md` | lift mined patterns, graduate, write | a second graduation, without a brain |
| Rule engine, retrieval, meta rules, self healing | `rules/`, `enhancements/`, `_query.py`, `_embed.py` | none between calls, or lessons.md | scoring, ranking, synthesis | heuristics, not protocols |
| Budgets, migrations, interfaces, packaging | `security/`, `_migrations/`, `cli.py`, ... | small | adapters | I/O |

How they meet: `correct` emits an event (event store), enqueues a row (sync
queue) and rewrites `lessons.md` (lessons file). `end_session` updates
confidences and graduates, which emits `RULE_GRADUATED`; push sends the log to
the cloud; pull on the other devices folds it back into their `lessons.md`. The
daemon drains the sync queue of the brain when it starts. All of them share
`system.db`, whose transactions are the only atomic steps.

What makes each one correct is stated by its properties in section 3; the
hazards they answer are listed, line by line, in `PROJECT.json`.

## 2. Modules

| Module | What it is |
|---|---|
| `Outbox` | abstract: what an outbox promises (submit, deliver, settle) |
| `SyncQueue` | the sync queue; implements `Outbox` |
| `JobLedger` | abstract: what is on record of background jobs, without threads |
| `WorkerPool` | the background worker pool; implements `JobLedger` |
| `Journal` | abstract: what two stores may lose of what was emitted |
| `EventLog` | the event store: emit, reconcile, retain queue; implements `Journal` |
| `CloudMerge` | graduation events, the cloud stream, pull, fold and apply on several devices |
| `Document` | abstract: one document, edited atomically |
| `LessonsFile` | `lessons.md` under its lock, with the four ways its writers use it; implements `Document` |
| `RuleLife` | abstract: the life of a lesson, without confidences and calls |
| `Learning` | how corrections become rules: confidence, graduation, canary, pipeline; implements `RuleLife` |
| `CloudPush` | the two pushers of the events table and their watermarks |
| `Daemon` | the services of a brain: lock, PID file, idle timer, requests, signals |
| `MC*` | instances for TLC |
| `*Proofs` | theorems about the component of that name, checked by TLAPS |

Each module has one action per step that another actor can see: a committed
statement, an append, a POST, a lock. `PROJECT.json` ("map") gives the lines of
each definition. Operators marked `MUTANT` are plausible bugs; they are used by
no specification, and replacing the definition below them by one must break a
property.

**SyncQueue.** Rows are numbered by AUTOINCREMENT. An actor is a background
thread, the caller of `stop()` or the caller of `drain_sync_queue` (another
process); each runs the tick `peek, check, post, mark` with its own batch, so
rows may be settled under its feet. The endpoint (external) answers 2xx, 429, a
permanent 4xx, a 4xx the code does not list (413, 409: `Oversized`), or nothing,
with the correction stored or not. A permanent refusal is two commits
(`MarkRejected`, `Bury`). Any database statement may fail, both processes may
crash.

**WorkerPool.** A job carries the key of its (type, payload hash). `Claim` is one
transaction; `CallHandler`, the outcome of the handler and `Finalize` are steps
of their own. `StopReturn` may leave threads behind; they see the stop event
until the next `Start` clears it. Each statement may fail in the place where the
code catches it, or does not (`ExitTestRaises`).

**EventLog.** The file is the set of its readable events plus one bit, whether it
ends without a newline (`torn`). A failed append leaves some whole lines and a
fragment; the next append loses its first line to the fragment. `reconcile`
reads while others append and inserts in one transaction. The retain queue is a
list, as `_pending` is: what is queued twice stands in it twice, and the flush
takes out only what it reads in the file, so it may write an event twice. It
computes its delta, appends, projects, clears.

**CloudMerge.** One rule key, since keys do not interact. Events carry unique
timestamps in no order (skewed clocks, late arrival). `Devices` are modelled
whole; `Elsewhere` stands for all others and the dashboard. A pull is
`PullBegin, FetchPage*, Fold*, FoldEnd, ReadLessons, WriteLessons,
PersistCursor`; each step may be its last, and graduations of the device go on
beside it. `Push` sends one event of the outbox, any of them, since the cloud may
take a part of a batch before the rest.

**LessonsFile.** The content is what it says of each lesson; an operation is one
edit. The four disciplines (`cycle`, `late`, `bare`, `resolve`) differ only in
where `Lock` comes relative to `Read`. `write_text` is `Truncate` and `Fill`,
and what another writer has put there meanwhile may show through. The lock
belongs to an open file, so taking it twice waits for oneself.

**Learning.** The model keeps the arithmetic of `_confidence.py` in hundredths,
since the thresholds, the cap on one call and the posterior are what the
properties are about. A lesson is measured by the bar of its brain (`OwnBar`:
salted thresholds, the minimums `MinPattern` and `MinRule` of
`brain-config.json`), or by `DefaultBar` in the hook and the pipeline, whose
processes have opened no brain. `Correct` is one call of `correct()` up to the write;
`EndSession` is read, `update_confidence` and `graduate`; what follows are the
steps of `end_session` a crash can fall between: `Announce` (event and canary
row), `WriteSwept`, `Export` (`AGENTS.md`), `CheckCanaries`. Nothing but the file
outlives a call, so what the code keeps in attributes of a lesson (streaks,
"already moved") lasts for one call, and the models drop what can never be set:
a lesson is never marked injected, the streak never reaches two. `HookGraduate`
and `Pipeline` are the sweeps of other processes. A gate may
block any candidate of their sweeps, or quarantine it (`blocked`, `suspect`); the
lower bound of the posterior, which is on by default, is one of the gates behind
`blocked`. A session's end needs no such choice: `update_confidence` has
promoted a ripe PATTERN before `graduate` comes to its gates.

**CloudPush.** Events are ranks of their `event_id`, the table a sequence, since
one pusher goes by id and the other by row. Runs of `push_pending_events` differ
only in `last`, `batch` and `tries`; an answer may say less, or nothing, of what
was stored. `/sync` is read file, select, POST, open and write `.tmp`, rename; a
handle goes on writing to its file after another request has renamed it
(`Overwritten` is what may then be in it). A watermark is a decimal numeral, so
a shorter one that is written over a longer leaves the longer one's last
digits (`Width`, `Longer`). The first `Before` rows are pushed at the start, so that
a small instance can cross the row at which numerals grow by a digit.

**Daemon.** `life` is where the main thread of a service is. The MCP server opens
its brain first (`McpOpen`) and then locks it; `McpLockedOut` ends it, while any
other failure to lock (`McpUnlocked`) leaves it serving without the lock, as
"bare". A timer is a number; `started` and `over` say which can still fire,
`timer` is the one `_idle_timer` holds. `_reset_idle_timer` is three steps of a
request thread. `Sigterm` runs in the main thread, so it stands still unless the
server loop has ended. The kernel frees a dead process's lock (`Crash`, `Exit`).

The modules meet in these places: `SyncQueue`'s drainer is `Daemon`'s `drain`
step; `CloudMerge`'s `Push` is one event more that a run of `CloudPush` has got
stored; `Learning`'s calls overlap in `LessonsFile`, where an edit is opaque.

## 3. What is checked

Safety properties are invariants or action properties; the liveness ones need
the fairness of section 4.

| Run | Shows |
|---|---|
| `SyncQueue_check` | `NoSilentLoss`: a row is settled only if the cloud holds its correction, or refused it and this was recorded. `FirstAttemptsInOrder`: whatever stops a tick, no row is POSTed before an older one has been. `ImplementsOutbox`: retries, races and crashes are stuttering or repeated deliveries of the abstract outbox. `EventuallySettled`: behind a row that is retried for ever everything else gets through, as long as there are fewer of those than a batch holds. `CallsReturn`: exit and startup are never blocked. |
| `WorkerPool_check` | `ImplementsLedger`: threads, claims, stops and crashes amount to a ledger of jobs, in which work is begun at most once, never beside open work of the same key, and a verdict is final and says what the handler did (so `HandledAtMostOnce` and `OutcomesAreTruthful`). `NoConcurrentTwins`, `StopDrains` (within the deadline), `PendingServed`, `StopReturns` (although a handler hangs). |
| `EventLog_safety` | `LossNeedsTornTail`: an acknowledged event is in a store, but for a line glued to a fragment. `ReconcileHeals`: after a reconcile no line is without its row, whatever was appended meanwhile. `DuplicateNeedsCause`: an event comes into the file a second time only if the file could not be read when the flush computed its delta, or if it was queued twice in that batch. `ImplementsJournal`: file and table together are one journal: what either holds stays, and success is reported only of such an event or of one glued to a torn line. |
| `CloudMerge_safety` | `CursorCovers`: no event is skipped for good. `AgreementSettles`: from the user's word on, or from the start, graduations that agree and come in the order of their timestamps settle on the last of them on every device that caught up, however it cut the stream into pulls; so the user's word alone is final (`AdjudicationSettles`). `DisagreementHolds`: no silent decision between two states. |
| `CloudMerge_recovery` | **violated**: a fresh device does not recover what the origin graduated, since two promotions of one device count as a disagreement. |
| `LessonsFile_check` | `ImplementsDocument`: an edit under the lock, or one that overlaps nothing, is one step of an atomic document, in the middle of a write too; so none is lost and none invented (`NoLostEdit`). `CallsReturn`: also one that waits for its own lock. |
| `LessonsFile_approve` | **violated**: `approve_lesson` approves nothing; it waits for its own lock. |
| `Learning_check` | `NoPromotionFromSilence`: surviving other corrections promotes nothing, however often. `OneTierPerCall`: the two passes of a call do not add up, and a lesson dies only when it was close to it. `FiredRuleStays`: only the user retires a rule that fired. `EvidenceMovesItsWay`: the posterior never turns a correction around. `TriedWhenSeen`: a promoted rule has its canary row before it can be read. `ImplementsLife`: whatever calls are cut short or overlap, every write moves each lesson by one edge of its lifecycle at most, upwards only on evidence heard before. |
| `Learning_idle` | **violated**: a lesson that fires in every call becomes UNTESTABLE for not firing. |
| `CloudPush_check` | `WatermarkSafe`: the watermark of a push run vouches for what is below it, late commits aside. `OkMeansPushed`: a run that says ok has left nothing else. `SyncSkipsNothing`: the watermark of /sync vouches for what is below it too, also where numerals grow by a digit, until a shorter one is written over a longer one. |
| `Daemon_check` | `OneService`: one service works on a brain at a time, but for requests that outlive a shutdown and an MCP server whose locking failed. `PidFileLeads`: no cleanup takes away the PID file of the next daemon. `StillArmed`: racing resets leave the timer armed. `QuietDaemonStops`: no requests, no daemon. |
| `Daemon_term` | **violated**: SIGTERM hangs the daemon with its lock. |

The violated runs are disagreements between the code and what the repository
says of it; `PROJECT.json` ("findings") quotes both sides.

Five more configurations check one property each, which TLC finds violated. They
are the other side of an exception that a property above names, and are kept as
examples:

| Configuration | Shows |
|---|---|
| `EventLog_retry` | `RetryNeverDuplicates`. `_events.py:770-772`: "interrupted writes never duplicate data"; a flush that cannot read the file (866) repeats what an earlier one has written. |
| `LessonsFile_stale` | `StaleNeverWritten`. `pattern_integration.py:37-38`: under the lock "concurrent callers can't read stale state and overwrite each other"; a caller that locks only to write (`_core.py:364`, 630; `_db.py:139`) takes away the lesson an `add_rule` has added under the lock. |
| `Learning_config` | `ConfiguredMinimums`. `_graduation.py:256-261`: "the fire-count gates are non-bypassable"; the hook (`session_close.py:108`) and the pipeline (`rule_pipeline.py:437`) graduate in a process that has not loaded `brain-config.json` (only `brain.py:167` does), so the default minimums of two and three fires apply whatever is configured. |
| `CloudPush_splice` | `SyncPushesPastWatermark`. `daemon.py:791`: /sync pushes "new events past the watermark"; after two requests wrote "9" over "10" (919) it is 90, and rows 11 to 90 are never pushed. |
| `Daemon_bare` | `McpServesAlone`. `CHANGES.md:28`: `mcp_server.py` acquires the lock "for the duration of `run_server()`"; when its file cannot be opened or its owner not written, the error is taken for a brain that cannot be opened (601-608), and the server serves the brain it has, beside a daemon. |

Disagreements that were met and have no run, because they need no interleaving
to be seen, or because the run they had made way for a deeper property:

- Sync worker: rule 5 (`_sync_worker.py:11`) calls every 4xx other than 429
  permanent, the code only the six of `_PERMANENT_4XX`; it retries the others for
  ever (`Oversized`). The comment at `_sync_worker.py:238` says a stopped thread
  bails early; after a join that timed out `self._thread` is None, and it does not.
- Worker pool: `_workers.py:12` says at-least-once, but a crash after the claim
  (203) orphans the job for good. At most once (`HandledAtMostOnce`) is what holds.
- Event store: `_events.py:436` says one of the two writes must succeed; an append
  glued to a torn line counts as one (this is the exception of `LossNeedsTornTail`).
- Export: `_core.py:1017` wants every new RULE visible; `correct()` may promote
  one inline and exports nothing, and so does a crash after the write.
- Push: `cloud/push.py:24` speaks of a watermark that moves after a whole run,
  357-360 moves it per batch; `:3` promises every event, late ones are skipped. A
  batch the server rejects in part, or with a 4xx, is sent again first by every
  run, and blocks all that comes later. Nothing in the package calls
  `push_pending_events`.
- /sync takes any 2xx for the whole batch and sends rows of every tenant. When two
  requests share the `.tmp` file, the second rename fails with a 500 although its
  rows were pushed.
- Learning: an inline promotion of `update_confidence` ignores `pending_approval`
  and `one_off`, which `graduate` respects, and it comes first, so that
  `end_session` never reaches the gates of `graduate` (similarity, contradiction,
  quarantine). The canary counts a field no event carries, so no rule is ever rolled
  back. A rule added by the user has not fired, is UNTESTABLE after `kill_limit`
  calls and killed five later. UNTESTABLE has a way back in `_types.py:82` that
  nothing takes. Freshness decay asks for a rule that is unreachable.
- Daemon: resets that race leave timers nobody cancels, so the daemon may stop
  before `IDLE_TIMEOUT_SECONDS` without a request have passed, and a request may
  end in a RuntimeError (`StartTwice`). A SIGTERM during the start hangs as well.
- Merge: the tie-break on `device_id` never applies, since the payload of
  `RULE_GRADUATED` holds none (`_graduation.py:132`); `pull_events` saves the
  watermark of a page and ignores its `next_cursor`; two pulls of half a stream
  each need not agree with one pull of all of it (which is why
  `AgreementSettles` says for which streams they do).

### Bounds

Bounds are constants: `MaxRows`, `MaxBatches`, `MaxJobs`, `MaxEvents`, `Limit`,
`PageCap`, `MaxQueue`, `Before`, and the sets. They are small, but above the
limits that matter:

- `SyncQueue_check` has two rows of which the older is retried for ever, a batch of
  two and a drain capped at one batch; three actors tick on the table.
- `WorkerPool_check` has two threads and two jobs, so a twin can be enqueued
  after its first has ended, and two threads compete; one key has no handler.
- `EventLog_safety` has two events, two emitters, a reconcile, and a flush of a
  queue of three (`MaxQueue`), so that an event may be queued twice beside another
  one, before a flush and after it. (Three events and a queue of two take four
  minutes, and show the same.)
- `CloudMerge_safety` has three events, pages of two and two pages a pull, so
  a stream may span pages and pulls; grades differ in state, by less than the
  threshold and by more.
- `LessonsFile_check` has two callers with any pair of disciplines, and two lessons.

- `Learning_check` has four calls and three sessions (the length of a canary), two
  lessons of one category of which the second is pending and one-off, and a
  category without lessons, whose corrections the two survive. Limits that would
  need more calls are scaled: `KillLimit` 3 and `Grace` 1 for 8 and 5, a blend
  that begins at one observation and is complete at three for 5 and 20. The
  thresholds are the salted ones of some brain, which is why the constants allow
  them to differ from 60 and 90. The minimums are the default ones; in
  `Learning_config` they are one higher.
- `CloudPush_check` has two runs and two requests, eight rows pushed before and three
  to come, in any order of their ids, of which the second is the first with a number
  of two digits, so that numerals of different length meet in one file; batches of
  one event and of two rows, one retry. Runs and requests meet nowhere but in
  the table, which neither writes, so the instance leaves out behaviours in which
  both are past their first state (`ApartSpec`; the proofs are about `Spec`). No
  event is of another tenant there (the proofs have any set of them).
- `Daemon_check` has two daemons and an MCP server, two request threads, and two
  requests, which can race for the timer of the start. (Three take nearly four
  minutes, and show the same.) A service may start again any number of times.

The safety properties of all eight components are also proved, for every value
of these constants that satisfies the assumptions (section 5), so what they state
does not depend on a bound. They state no more than that: their exceptions (a
late event, a line glued to a fragment, a batch with an event twice, a spliced
watermark, operations that overlap a writer without the lock, an MCP server
without it) say where the code breaks what one would like; the examples of
section 3 show it. `SyncSkipsNothing` in particular says nothing of /sync after two
overlapping requests have written numerals of different length, which can happen
whenever the numbers of rows grow by a digit. The liveness properties rest on the instances.

`CHECK_DEADLOCK FALSE` is set for `WorkerPool`, `EventLog`, `Learning` and
`CloudPush`: once every job, event or call is used up and everyone is idle
nothing is left to happen.

## 4. Fairness

- `SyncQueue`: weak fairness of each actor's own steps. Threads are scheduled,
  and the HTTP timeout (`_HTTP_TIMEOUT`) ends every POST with some answer. That
  the endpoint and the database stop failing is a premise of
  `EventuallySettled`, not part of the fairness.
- `WorkerPool`: each thread's own steps, the clock, and the return of `join`,
  which has a timeout. Nothing is assumed of handlers; `PendingServed` has
  "handlers end" as a premise.
- `LessonsFile`: a call that has begun goes on. A lock that is taken is polled
  with a deadline, so either `Lock` or `TimeOut` can always be taken.

- `Daemon`: the main thread of a daemon, its request threads and its timers: threads
  are scheduled and timers fall due. A request in a handler ends. SIGTERM, crashes,
  starts and new requests are not fair.

No fairness is put on callers beginning anything, on crashes or on errors.

## 5. What is proved

TLAPS checks, for any sets and bounds that satisfy the named assumptions of each
module (positive batch sizes, actors that differ, a null value outside the set
it is null for):

- **SyncQueue**: `TypeOK`, `NoSilentLoss`, `FirstAttemptsInOrder`, and the
  refinement of `Outbox`. None of them is inductive by itself. `RowInv` adds that
  the answer an actor is still holding is backed (an "ok" in hand means stored, a
  refusal refused, a burial that `mark_failed` is done); `BatchInv`, that whatever
  precedes a row of a batch is in the batch too or has been attempted, although
  rows are settled under the feet of whoever works it off.
- **WorkerPool**: all its safety properties. `HeldInv` (a claimed row is 'running'
  and has one holder), `LiveInv` (live rows differ in key: the index) and
  `CallInv` (a pending job has not been called, and what a thread is about to
  record is what the handler did) carry the invariants and the refinement of
  `JobLedger`, whose verdicts follow from them; `StopDrains` needs `StopInv`, an
  account of which threads of the pool have left and why.
- **EventLog**: all safety properties. `EmitInv` says what an emitter knows of its
  event (what `jsonl_ok` is worth), `ReconInv` that readable lines stay so, and
  `BatchInv` that what a flush is about to append is new, taken blind or twice in
  its batch. For the refinement of `Journal`, `RowInv` adds where rows come from:
  a row's event has a line in the file, or was emitted.
- **CloudMerge**: all safety properties. `Inv` adds to the types where a pull is
  (`Shape`), that everything before the cursor has been written (`Cover`), what
  the fold has computed for the part of the pull it has read (`FoldInv`: as long
  as all that was said up to there agrees, the winner is the last word of this
  pull), and that a device with nothing left to push, once it has pulled the last
  word of an agreement, holds it (`LessonInv`). `AdjudicationSettles`, which no
  run checks any more, is the agreement of one event.
- **LessonsFile**: `TypeOK`, `NoLostEdit`, the refinement of `Document`, and
  `ApprovalsNeverWrite`: in no behaviour does an approval reach its write.
  `Guarded` says when an operation holds the lock, `Apart` that an undisturbed
  file sees no overlap with a loose operation, `Current` that what an operation
  has read is then still what the file has to say.

- **Learning**: all the properties of the run, and two that no run checks,
  `DeltaCapped` (one call moves a confidence by `MAX_PER_SESSION_DELTA` at most)
  and `SweepLeavesNoDead`. `IInv` adds to the types that a fire count is backed by
  corrections (`EvidenceInv`), so that each bar has its floor of them (`Floors`),
  what the lessons in memory may differ in from the file (`MemInv`), and that a
  promotion not yet written has been announced or is still to be (`TrialInv`). The
  arithmetic is bounded in lemmas of its own (`GainedRange`, `LostRange`,
  `BlendedRange`). The refinement of `RuleLife` has two halves: what a sweep may
  do to one lesson in memory (`Wrote`, `Dying`), and that whatever is written is
  such a lesson; it needs `BirthInv`, that a lesson the file does not show is
  nothing at all.
- **CloudPush**: `TypeOK`, `WatermarkSafe`, `OkMeansPushed`, `SyncSkipsNothing`,
  and `RunAdvances` (no run checks it: an accepted batch takes a run further).
  `PushInv` says that what lies below the `last` of a run is stored or late, as
  long as it lasts; `SyncInv`, that every number on its way to the watermark file,
  in a request, in the `.tmp` file or under an open handle, has its rows posted.
  Nothing is assumed of the width of numerals: `WholeInv` has `SyncInv` up to the
  first numeral that is written over a longer one, which the history variable
  `spliced` remembers.
- **Daemon**: all four safety properties, and `StuckForGood`: a daemon that a
  SIGTERM has hung keeps the lock until its process is killed. `LockInv` says in
  which places of its main thread a daemon holds the lock, `HostInv` where a
  request's daemon can be, `TimerInv` what a thread in the middle of a reset owes.

Four more properties are proved and no run checks them any more. `HandledAtMostOnce`
and `OutcomesAreTruthful` of the worker pool and `NoLostEdit` of lessons.md are what
`ImplementsLedger` and `ImplementsDocument` say step by step, and the changes that
break the former in TLC break the latter; `ClaimsInOrder` of the worker pool stands
by itself.

Each proof is Init, one lemma per conjunct of the inductive invariant with one
step per action, and a temporal step that puts them together.

Only model-checked: the liveness properties (`EventuallySettled`, `CallsReturn` of
the queue and of the file, `PendingServed`, `StopReturns`, `QuietDaemonStops`),
which are out of reach of the installed provers.

## 6. Not modelled

- Contents: texts, similarity, wording. A correction, a job and an event are
  opaque; a lesson is so but in `Learning`, and in `CloudMerge`, where a grade keeps
  the state and the confidence, which the merge compares.
- In `Learning`: a confidence that falls between two hundredths is rounded up (the
  code's floats decide), machine mode, the preference damper, session types,
  several corrections of one category (poisoning), best-effort database failures,
  provenance, the archive, rewording and hook installation at a promotion.
- The cloud beyond what clients see: it stores, orders and deduplicates.
- File locks that fail (`_file_lock.py:123` then goes on without), network file
  systems, Windows variants.
- `supersede` and queries of the event store; the `pending_approvals` table;
  `rebuild_from` of pull; the spend budget; migrations; the session counter of the
  daemon (`_get_session_num`, unlocked); `_fired_rules`; patches of self healing.
- The components of the last rows of the inventory. They are most of the code:
  text heuristics, ranking, synthesis by a model, formatting, argument parsing and
  I/O. Between calls they keep no state that another actor could disturb, so a
  state machine would only repeat their text; and a recursive or string-processing
  definition is neither checked nor proved here for the inputs that matter. The
  share of the implementation the map covers stays small for that reason.

## 7. Plan

What is left that has a protocol in it, in this order:

1. `PendingApprovals`: the table and `lessons.md` together, on top of `LessonsFile`.
2. `Supersede`: versions of an event, with a crash between the two commits.
3. The atomic `Push` of `CloudMerge` refined by `CloudPush`, and `RULE_GRADUATED`
   emitted in `Learning`'s sweep, before the file is written.
4. The session counter and the rule state the daemon keeps between requests.
5. The spend budget (`_db.py:192`), checked in one statement and counted in another.

## Running

    tlc -config SyncQueue_check.cfg MCSyncQueue
    tlapm SyncQueueProofs.tla

Every run ends within three minutes on two workers; the longest are
`SyncQueue_check` and `Daemon_check`.
