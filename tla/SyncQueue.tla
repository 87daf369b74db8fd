------------------------------ MODULE SyncQueue ------------------------------
(***************************************************************************)
(* The write-through cloud queue of a brain: the sync_queue table          *)
(* (_sync_queue.py), the SyncWorker background thread and its stop()       *)
(* (_sync_worker.py), the startup drain another process runs on the same   *)
(* database (drain_sync_queue), and the cloud ingest endpoint they POST to *)
(* (external: it stores a correction and deduplicates on its event id).    *)
(*                                                                         *)
(* A tick is not atomic: peek, test of the stop event, POST and the update *)
(* of the row are separate steps, so a row another actor has settled may   *)
(* still be in a tick's batch.  A row stands for the correction it carries *)
(* (its event id is unique); attempts and last_error are one bit: some     *)
(* failure has been recorded.                                              *)
(***************************************************************************)
EXTENDS Integers, FiniteSets

CONSTANTS MaxRows,        \* bound: rows enqueued in a behaviour
          Batch,          \* _TICK_BATCH
          MaxBatches,     \* _MAX_BATCHES of a startup drain
          Threads,        \* background threads a SyncWorker may spawn
          Stopper,        \* the caller of SyncWorker.stop()
          Drainer,        \* the caller of drain_sync_queue()
          NoThread,       \* self._thread is None
          Oversized       \* rows the cloud always answers with a 4xx the code
                          \* does not list as permanent (413, 409, ...)

ASSUME SyncQueueAssumption ==
    /\ MaxRows \in Nat /\ Batch \in Nat \ {0} /\ MaxBatches \in Nat \ {0}
    /\ Stopper \notin Threads /\ Drainer \notin Threads /\ Stopper # Drainer
    /\ NoThread \notin Threads \cup {Stopper, Drainer}
    /\ Oversized \subseteq 1..MaxRows

VARIABLES
    enqueued,             \* rows are 1..enqueued, in AUTOINCREMENT order
    synced, failed,       \* rows with synced_at set / with attempts > 0
    cloud,                \* corrections the cloud has stored
    rejected, attempted,  \* history: permanently refused / POSTed at least once
    started, stopEvent, thread,   \* SyncWorker: _started, _stop_event, _thread
    pc, todo, row, answer,        \* per actor: the tick it is running
    before, batches               \* drain_sync_queue: count before the tick, loop index

dbVars     == <<enqueued, synced, failed>>
cloudVars  == <<cloud, rejected, attempted>>
workerVars == <<started, stopEvent, thread>>
tickVars   == <<pc, todo, row, answer>>
drainVars  == <<before, batches>>
vars == <<dbVars, cloudVars, workerVars, tickVars, drainVars>>

Rows   == 1..MaxRows
Actors == Threads \cup {Stopper, Drainer}

Pending == 1..enqueued \ synced

\* peek_pending: the Batch pending rows with the smallest ids.
FirstPending ==
    {i \in Pending : Cardinality({j \in Pending : j < i}) < Batch}

Init ==
    /\ enqueued = 0 /\ synced = {} /\ failed = {}
    /\ cloud = {} /\ rejected = {} /\ attempted = {}
    /\ started = FALSE /\ stopEvent = FALSE /\ thread = NoThread
    /\ pc = [a \in Actors |-> "idle"]
    /\ todo = [a \in Actors |-> {}]
    /\ row = [a \in Actors |-> 0]
    /\ answer = [a \in Actors |-> "none"]
    /\ before = 0 /\ batches = 0
-----------------------------------------------------------------------------
(* Brain.correct: a row is written only while a worker exists.             *)
Enqueue ==
    /\ started /\ enqueued < MaxRows
    /\ enqueued' = enqueued + 1
    /\ UNCHANGED <<synced, failed, cloudVars, workerVars, tickVars, drainVars>>

(* SyncWorker.start: a fresh thread object, the stop event cleared.  A     *)
(* thread an earlier stop() gave up joining may still be alive.            *)
Start(t) ==
    /\ ~started /\ pc[Stopper] = "idle" /\ pc[t] = "idle"
    /\ started' = TRUE /\ stopEvent' = FALSE /\ thread' = t
    /\ pc' = [pc EXCEPT ![t] = "loop"]
    /\ UNCHANGED <<dbVars, cloudVars, todo, row, answer, drainVars>>

(* SyncWorker.stop(drain): the event is set, then one tick in the caller.  *)
StopBegin(drain) ==
    /\ started /\ pc[Stopper] = "idle"
    /\ stopEvent' = TRUE
    /\ pc' = [pc EXCEPT ![Stopper] = IF drain THEN "peek" ELSE "join"]
    /\ UNCHANGED <<dbVars, cloudVars, started, thread, todo, row, answer, drainVars>>

(* join(timeout) returns when the thread has ended or the timeout is over; *)
(* the thread is forgotten either way.                                     *)
StopEnd ==
    /\ pc[Stopper] = "join"
    /\ thread' = NoThread /\ started' = FALSE
    /\ pc' = [pc EXCEPT ![Stopper] = "idle"]
    /\ UNCHANGED <<dbVars, cloudVars, stopEvent, todo, row, answer, drainVars>>

(* _run: the test at the head of the loop, after the wait of tick_sec.     *)
Loop(t) ==
    /\ pc[t] = "loop"
    /\ pc' = [pc EXCEPT ![t] = IF stopEvent THEN "idle" ELSE "peek"]
    /\ UNCHANGED <<dbVars, cloudVars, workerVars, todo, row, answer, drainVars>>
-----------------------------------------------------------------------------
(* _tick.  Where the caller goes when the tick returns, and when it raises.*)
\* MUTANT: stop() and the startup drain tick until the queue is empty.
TickAgain(a) == IF a \in Threads THEN "loop" ELSE "peek"

AfterTick(a) ==
    IF a \in Threads THEN "loop" ELSE IF a = Stopper THEN "join" ELSE "recount"
AfterRaise(a) == IF a = Drainer THEN "idle" ELSE AfterTick(a)

LeaveTick(a, next) ==
    /\ pc' = [pc EXCEPT ![a] = next]
    /\ todo' = [todo EXCEPT ![a] = {}]
    /\ row' = [row EXCEPT ![a] = 0]
    /\ answer' = [answer EXCEPT ![a] = "none"]

NextRow(a) ==
    /\ pc' = [pc EXCEPT ![a] = "check"]
    /\ todo' = [todo EXCEPT ![a] = @ \ {row[a]}]
    /\ row' = [row EXCEPT ![a] = 0]
    /\ answer' = [answer EXCEPT ![a] = "none"]

Peek(a) ==
    /\ pc[a] = "peek"
    /\ todo' = [todo EXCEPT ![a] = FirstPending]
    /\ pc' = [pc EXCEPT ![a] = "check"]
    /\ UNCHANGED <<dbVars, cloudVars, workerVars, row, answer, drainVars>>

\* Only the thread the worker still knows as its own leaves early: stop() runs
\* its tick in the caller, and a startup drain has a worker never stopped.
MustBail(a) == stopEvent /\ thread = a

EndOfBatch(a) ==
    /\ pc[a] = "check"
    /\ todo[a] = {} \/ MustBail(a)
    /\ LeaveTick(a, AfterTick(a))
    /\ UNCHANGED <<dbVars, cloudVars, workerVars, drainVars>>

\* MUTANT (ORDER BY id dropped): rows of a batch are taken in any order.
TakeAnyRow(a) ==
    /\ pc[a] = "check" /\ ~MustBail(a)
    /\ \E i \in todo[a] : row' = [row EXCEPT ![a] = i]
    /\ pc' = [pc EXCEPT ![a] = "post"]
    /\ UNCHANGED <<dbVars, cloudVars, workerVars, todo, answer, drainVars>>

TakeRow(a) ==
    /\ pc[a] = "check" /\ ~MustBail(a)
    /\ \E i \in todo[a] :
         /\ \A j \in todo[a] : i <= j
         /\ row' = [row EXCEPT ![a] = i]
    /\ pc' = [pc EXCEPT ![a] = "post"]
    /\ UNCHANGED <<dbVars, cloudVars, workerVars, todo, answer, drainVars>>

(* _post_one and the endpoint.  "retry" is a 5xx or a network error, with  *)
(* which the correction may or may not have been stored.                   *)
Answered(a, code) ==
    /\ pc[a] = "post"
    /\ attempted' = attempted \cup {row[a]}
    /\ answer' = [answer EXCEPT ![a] = code]
    /\ pc' = [pc EXCEPT ![a] = "mark"]
    /\ UNCHANGED <<dbVars, workerVars, todo, row, drainVars>>

PostAccepted(a) ==
    /\ row[a] \notin Oversized
    /\ Answered(a, "ok")
    /\ cloud' = cloud \cup {row[a]}
    /\ UNCHANGED rejected

\* MUTANT: a lost response is taken for an acceptance.
PostLostButTrusted(a) ==
    /\ Answered(a, "ok")
    /\ UNCHANGED <<cloud, rejected>>

PostLost(a) ==
    /\ Answered(a, "retry")
    /\ \/ UNCHANGED cloud
       \/ row[a] \notin Oversized /\ cloud' = cloud \cup {row[a]}
    /\ UNCHANGED rejected

PostThrottled(a) == Answered(a, "throttled") /\ UNCHANGED <<cloud, rejected>>

PostRejected(a) ==
    /\ row[a] \notin Oversized
    /\ Answered(a, "permanent")
    /\ rejected' = rejected \cup {row[a]}
    /\ UNCHANGED cloud

PostOversized(a) ==
    /\ row[a] \in Oversized
    /\ Answered(a, "unlisted4xx")
    /\ UNCHANGED <<cloud, rejected>>

Post(a) ==
    \/ PostAccepted(a) \/ PostLost(a) \/ PostThrottled(a)
    \/ PostRejected(a) \/ PostOversized(a)
-----------------------------------------------------------------------------
(* The row update that follows each answer.                                *)
MarkSynced(a) ==
    /\ pc[a] = "mark" /\ answer[a] = "ok"
    /\ synced' = synced \cup {row[a]}
    /\ NextRow(a)
    /\ UNCHANGED <<enqueued, failed, cloudVars, workerVars, drainVars>>

\* MUTANT: a transient failure is retried at once, within the tick.
MarkRetryAtOnce(a) ==
    /\ pc[a] = "mark" /\ answer[a] \in {"retry", "unlisted4xx"}
    /\ failed' = failed \cup {row[a]}
    /\ pc' = [pc EXCEPT ![a] = "post"]
    /\ UNCHANGED <<enqueued, synced, cloudVars, workerVars, todo, row, answer, drainVars>>

MarkRetry(a) ==
    /\ pc[a] = "mark" /\ answer[a] \in {"retry", "unlisted4xx"}
    /\ failed' = failed \cup {row[a]}
    /\ NextRow(a)
    /\ UNCHANGED <<enqueued, synced, cloudVars, workerVars, drainVars>>

MarkThrottled(a) ==
    /\ pc[a] = "mark" /\ answer[a] = "throttled"
    /\ failed' = failed \cup {row[a]}
    /\ LeaveTick(a, AfterTick(a))
    /\ UNCHANGED <<enqueued, synced, cloudVars, workerVars, drainVars>>

\* MUTANT: a refused row is marked synced with no mark_failed before it.
MarkRejectedSilently(a) ==
    /\ pc[a] = "mark" /\ answer[a] = "permanent"
    /\ synced' = synced \cup {row[a]}
    /\ NextRow(a)
    /\ UNCHANGED <<enqueued, failed, cloudVars, workerVars, drainVars>>

\* A permanent refusal takes two commits: mark_failed, then mark_synced.
MarkRejected(a) ==
    /\ pc[a] = "mark" /\ answer[a] = "permanent"
    /\ failed' = failed \cup {row[a]}
    /\ pc' = [pc EXCEPT ![a] = "bury"]
    /\ UNCHANGED <<enqueued, synced, cloudVars, workerVars, todo, row, answer, drainVars>>

Bury(a) ==
    /\ pc[a] = "bury"
    /\ synced' = synced \cup {row[a]}
    /\ NextRow(a)
    /\ UNCHANGED <<enqueued, failed, cloudVars, workerVars, drainVars>>

\* The database refuses the statement (locked, disk full): the tick raises,
\* and a count of the pending rows is taken for zero, which ends the drain.
DbError(a) ==
    /\ pc[a] \in {"peek", "mark", "bury", "count"}
    /\ LeaveTick(a, AfterRaise(a))
    /\ UNCHANGED <<dbVars, cloudVars, workerVars, drainVars>>

Mark(a) ==
    MarkSynced(a) \/ MarkRetry(a) \/ MarkThrottled(a) \/ MarkRejected(a) \/ Bury(a)
-----------------------------------------------------------------------------
(* drain_sync_queue: ticks while the pending count goes down.              *)
DrainBegin ==
    /\ pc[Drainer] = "idle"
    /\ pc' = [pc EXCEPT ![Drainer] = "count"]
    /\ batches' = 0 /\ before' = 0
    /\ UNCHANGED <<dbVars, cloudVars, workerVars, todo, row, answer>>

\* MUTANT: the cap of _MAX_BATCHES ticks is gone.
DrainCountUncapped ==
    /\ pc[Drainer] = "count"
    /\ IF Pending = {}
       THEN pc' = [pc EXCEPT ![Drainer] = "idle"] /\ UNCHANGED drainVars
       ELSE /\ pc' = [pc EXCEPT ![Drainer] = "peek"]
            /\ before' = Cardinality(Pending)
            /\ batches' = batches + 1
    /\ UNCHANGED <<dbVars, cloudVars, workerVars, todo, row, answer>>

DrainCount ==
    /\ pc[Drainer] = "count"
    /\ IF Pending = {} \/ batches = MaxBatches
       THEN pc' = [pc EXCEPT ![Drainer] = "idle"] /\ UNCHANGED drainVars
       ELSE /\ pc' = [pc EXCEPT ![Drainer] = "peek"]
            /\ before' = Cardinality(Pending)
            /\ batches' = batches + 1
    /\ UNCHANGED <<dbVars, cloudVars, workerVars, todo, row, answer>>

\* _count_pending gives 0 as well when the database refuses to answer.
DrainRecount ==
    /\ pc[Drainer] = "recount"
    /\ \E after \in {Cardinality(Pending), 0} :
         pc' = [pc EXCEPT ![Drainer] = IF after >= before THEN "idle" ELSE "count"]
    /\ UNCHANGED <<dbVars, cloudVars, workerVars, todo, row, answer, drainVars>>

Drain == DrainBegin \/ DrainCount \/ DrainRecount
-----------------------------------------------------------------------------
(* A crash of the process that owns the worker, or of the one that drains, *)
(* loses the ticks in flight; the table and the cloud keep their state.    *)
CrashBrain ==
    /\ started' = FALSE /\ stopEvent' = FALSE /\ thread' = NoThread
    /\ pc' = [a \in Actors |-> IF a = Drainer THEN pc[a] ELSE "idle"]
    /\ todo' = [a \in Actors |-> IF a = Drainer THEN todo[a] ELSE {}]
    /\ row' = [a \in Actors |-> IF a = Drainer THEN row[a] ELSE 0]
    /\ answer' = [a \in Actors |-> IF a = Drainer THEN answer[a] ELSE "none"]
    /\ UNCHANGED <<dbVars, cloudVars, drainVars>>

CrashDaemon ==
    /\ pc[Drainer] # "idle"
    /\ LeaveTick(Drainer, "idle")
    /\ UNCHANGED <<dbVars, cloudVars, workerVars, drainVars>>

Tick(a) == Peek(a) \/ EndOfBatch(a) \/ TakeRow(a) \/ Post(a) \/ Mark(a)

Next ==
    \/ Enqueue
    \/ \E t \in Threads : Start(t) \/ Loop(t)
    \/ \E d \in BOOLEAN : StopBegin(d)
    \/ StopEnd
    \/ \E a \in Actors : Tick(a) \/ DbError(a)
    \/ Drain
    \/ CrashBrain \/ CrashDaemon

Spec == Init /\ [][Next]_vars

(* Scheduling: threads and callers keep running, and the HTTP timeout ends *)
(* every POST with one answer or another.                                  *)
Fairness ==
    /\ \A t \in Threads : WF_vars(Loop(t) \/ Tick(t))
    /\ WF_vars(StopEnd \/ Tick(Stopper))
    /\ WF_vars(DrainCount \/ DrainRecount \/ Tick(Drainer))

FairSpec == Spec /\ Fairness
-----------------------------------------------------------------------------
Places == {"idle", "loop", "peek", "check", "post", "mark", "bury",
           "join", "count", "recount"}
Codes == {"ok", "retry", "throttled", "permanent", "unlisted4xx"}

(* The shape of every variable (the table, the cloud and the actors).      *)
TableTypeOK ==
    /\ enqueued \in 0..MaxRows
    /\ synced \subseteq 1..enqueued /\ failed \subseteq 1..enqueued
    /\ cloud \subseteq 1..enqueued /\ rejected \subseteq 1..enqueued
    /\ attempted \subseteq 1..enqueued
TickTypeOK ==
    /\ pc \in [Actors -> Places]
    /\ todo \in [Actors -> SUBSET (1..enqueued)]
    /\ row \in [Actors -> 0..enqueued]
    /\ answer \in [Actors -> Codes \cup {"none"}]
    /\ before \in 0..MaxRows /\ batches \in 0..MaxBatches
WorkerTypeOK ==
    /\ started \in BOOLEAN /\ stopEvent \in BOOLEAN
    /\ thread \in Threads \cup {NoThread}
TypeOK == TableTypeOK /\ TickTypeOK /\ WorkerTypeOK

(* No correction disappears from the queue unexplained: a row carries      *)
(* synced_at only if the cloud holds its correction, or refused it for     *)
(* good and mark_failed recorded that first.  Two ticks on the same row, a *)
(* crash between the two commits and a lost response must all respect it.  *)
NoSilentLoss ==
    \A i \in synced : i \in cloud \/ i \in rejected \cap failed

(* First attempts are made in queue order: whatever stops a tick (a 429, a *)
(* database error, stop(), a crash), no actor ever POSTs a row while an    *)
(* older one has not been POSTed at least once.                            *)
FirstAttemptsInOrder ==
    \A i \in attempted : \A j \in 1..i : j \in attempted

(* The queue implements the abstract outbox: the table is what has been    *)
(* submitted, synced_at is settlement, and retries, races and crashes are  *)
(* stuttering or repeated deliveries.                                      *)
Abstract == INSTANCE Outbox WITH
    Items <- Rows, submitted <- 1..enqueued, stored <- cloud,
    refused <- rejected, settled <- synced
ImplementsOutbox == Abstract!OutboxSpec

(* A worker that is left running empties the queue of everything the cloud *)
(* is able to take, once the database and the endpoint stop failing, and   *)
(* although fewer than Batch rows are of the kind the endpoint answers     *)
(* with an unlisted 4xx: those are retried for ever, from the head of the  *)
(* queue.                                                                  *)
Running == thread # NoThread /\ ~stopEvent
Fault == \E a \in Actors : DbError(a) \/ PostLost(a) \/ PostThrottled(a)
EventuallySettled ==
    <>[]Running /\ <>[][~Fault]_vars
        => <>[]((1..enqueued) \ Oversized \subseteq synced)

(* stop() and the startup drain return: neither a dead endpoint nor a      *)
(* thread that is stuck in a POST blocks exit or startup.                  *)
CallsReturn == \A a \in {Stopper, Drainer} : pc[a] # "idle" ~> pc[a] = "idle"
=============================================================================
