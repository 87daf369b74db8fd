------------------------------ MODULE WorkerPool ------------------------------
(***************************************************************************)
(* The background job queue of _workers.py: the worker_jobs table, the     *)
(* callers that enqueue, and a pool of threads that claim jobs and run     *)
(* their handlers, with its drain on stop() and its restart, in the same   *)
(* process or after a crash of it.                                         *)
(*                                                                         *)
(* A job carries a key, which stands for its (type, payload hash).  The    *)
(* claim is one transaction (BEGIN IMMEDIATE); the call of the handler and *)
(* the update that records its outcome are steps of their own, so a crash, *)
(* a database error or the drain deadline may fall between them.  A thread *)
(* that stop() gave up joining stays alive and is revived by a later       *)
(* start() of the same pool, which clears the stop event.                  *)
(***************************************************************************)
EXTENDS Integers, FiniteSets

CONSTANTS MaxJobs,      \* bound: jobs inserted in a behaviour
          Keys,         \* (type, payload hash) pairs
          Handled,      \* keys whose type has a handler when the pool is built
          Workers       \* threads a pool may spawn

ASSUME WorkerPoolAssumption ==
    /\ MaxJobs \in Nat
    /\ Handled \subseteq Keys

VARIABLES
    n, key, status,         \* worker_jobs: rows 1..n, their key and status
    handlers,               \* self._handlers
    started, stopEvent,     \* self._started, self._stop_event
    threads,                \* self._threads
    late,                   \* the clock has passed self._drain_deadline
    pc, job,                \* per thread: where it is, the job it holds
    called, returned,       \* history: jobs whose handler was called / returned
    refused,                \* history: jobs whose 'done' the database refused
    owed, died              \* history: pending when stop() was called /
                            \*   threads killed by an exception of _has_pending

tableVars == <<n, key, status>>
poolVars  == <<handlers, started, stopEvent, threads, late>>
history   == <<called, returned, refused, owed, died>>
vars == <<tableVars, poolVars, pc, job, history>>

Jobs    == 1..MaxJobs
Pending == {i \in 1..n : status[i] = "pending"}
Live    == {i \in 1..n : status[i] \in {"pending", "running"}}
LiveKeys == {key[i] : i \in Live}

Init ==
    /\ n = 0 /\ key = <<>> /\ status = <<>>
    /\ handlers = Handled
    /\ started = FALSE /\ stopEvent = FALSE /\ threads = {} /\ late = FALSE
    /\ pc = [w \in Workers |-> "off"] /\ job = [w \in Workers |-> 0]
    /\ called = {} /\ returned = {} /\ refused = {} /\ owed = {} /\ died = {}
-----------------------------------------------------------------------------
(* enqueue: the INSERT, which the partial unique index refuses while a row *)
(* with the same key is live; the caller then gets None and nothing        *)
(* changes.                                                                *)
Insert(k) ==
    /\ n < MaxJobs
    /\ n' = n + 1
    /\ key' = [i \in 1..n + 1 |-> IF i = n + 1 THEN k ELSE key[i]]
    /\ status' = [i \in 1..n + 1 |-> IF i = n + 1 THEN "pending" ELSE status[i]]
    /\ UNCHANGED <<poolVars, pc, job, history>>

\* MUTANT: the index covers the pending rows only.
EnqueueUnlessPending(k) == k \notin {key[i] : i \in Pending} /\ Insert(k)

Enqueue(k) == k \notin LiveKeys /\ Insert(k)

Register(k) ==
    /\ handlers' = handlers \cup {k}
    /\ UNCHANGED <<tableVars, started, stopEvent, threads, late, pc, job, history>>

\* MUTANT: rows a crash has left 'running' are put back in the queue.
StartRequeues(S) ==
    /\ ~started /\ S # {} /\ \A w \in S : pc[w] = "off"
    /\ started' = TRUE /\ stopEvent' = FALSE /\ late' = FALSE
    /\ threads' = S
    /\ pc' = [w \in Workers |-> IF w \in S THEN "top" ELSE pc[w]]
    /\ status' = [i \in 1..n |-> IF i \in Live THEN "pending" ELSE status[i]]
    /\ owed' = {} /\ died' = {}
    /\ UNCHANGED <<n, key, handlers, job, called, returned, refused>>

(* start: S are the threads it spawns, one at least.                       *)
Start(S) ==
    /\ ~started /\ S # {} /\ \A w \in S : pc[w] = "off"
    /\ started' = TRUE /\ stopEvent' = FALSE /\ late' = FALSE
    /\ threads' = S
    /\ pc' = [w \in Workers |-> IF w \in S THEN "top" ELSE pc[w]]
    /\ owed' = {} /\ died' = {}
    /\ UNCHANGED <<tableVars, handlers, job, called, returned, refused>>

(* stop: the deadline and the event are set, then the threads are joined.  *)
StopBegin ==
    /\ started /\ ~stopEvent
    /\ stopEvent' = TRUE
    /\ owed' = Pending
    /\ UNCHANGED <<tableVars, handlers, started, threads, late, pc, job,
                   called, returned, refused, died>>

DeadlinePasses ==
    /\ stopEvent /\ ~late
    /\ late' = TRUE
    /\ UNCHANGED <<tableVars, handlers, started, stopEvent, threads, pc, job, history>>

\* MUTANT: join() without a timeout.
StopReturnJoined ==
    /\ started /\ stopEvent
    /\ \A w \in threads : pc[w] = "off"
    /\ started' = FALSE /\ threads' = {}
    /\ UNCHANGED <<tableVars, handlers, stopEvent, late, pc, job, history>>

\* A join that times out does so a second after the deadline.
StopReturn ==
    /\ started /\ stopEvent
    /\ late \/ \A w \in threads : pc[w] = "off"
    /\ started' = FALSE /\ threads' = {}
    /\ UNCHANGED <<tableVars, handlers, stopEvent, late, pc, job, history>>

(* The process ends, by a crash or after stop(); the threads are daemons.  *)
Crash ==
    /\ handlers' = Handled
    /\ started' = FALSE /\ stopEvent' = FALSE /\ threads' = {} /\ late' = FALSE
    /\ pc' = [w \in Workers |-> "off"] /\ job' = [w \in Workers |-> 0]
    /\ owed' = {} /\ died' = {}
    /\ UNCHANGED <<tableVars, called, returned, refused>>
-----------------------------------------------------------------------------
Goto(w, p) == pc' = [pc EXCEPT ![w] = p]

BackToTop(w) == Goto(w, "top") /\ job' = [job EXCEPT ![w] = 0]

\* MUTANT: the pending jobs are forgotten once the event is set.
ExitAtOnce == stopEvent

\* _should_exit
ShouldExit == stopEvent /\ (late \/ Pending = {})

(* _worker_loop: the test at its head; idle waits are stuttering.          *)
Top(w) ==
    /\ pc[w] = "top"
    /\ Goto(w, IF ShouldExit THEN "off" ELSE "claim")
    /\ UNCHANGED <<tableVars, poolVars, job, history>>

(* _claim_one: the pending row with the smallest id becomes 'running'.     *)
TakeJob(w, i) ==
    /\ pc[w] = "claim"
    /\ status' = [status EXCEPT ![i] = "running"]
    /\ job' = [job EXCEPT ![w] = i]
    /\ Goto(w, "lookup")
    /\ UNCHANGED <<n, key, poolVars, history>>

\* MUTANT: rows left 'running' are claimed again.
ClaimLive(w) == \E i \in Live : (\A j \in Live : i <= j) /\ TakeJob(w, i)

Claim(w) == \E i \in Pending : (\A j \in Pending : i <= j) /\ TakeJob(w, i)

\* MUTANT: the result of the SELECT is not tested for None.
ClaimNull(w) ==
    /\ pc[w] = "claim" /\ Pending = {}
    /\ Goto(w, "lookup")
    /\ UNCHANGED <<tableVars, poolVars, job, history>>

ClaimNothing(w) ==
    /\ pc[w] = "claim" /\ Pending = {}
    /\ Goto(w, "top")
    /\ UNCHANGED <<tableVars, poolVars, job, history>>

(* drain_once, after the claim.                                            *)
CallHandler(w) ==
    /\ pc[w] = "lookup" /\ key[job[w]] \in handlers
    /\ called' = called \cup {job[w]}
    /\ Goto(w, "handling")
    /\ UNCHANGED <<tableVars, poolVars, job, returned, refused, owed, died>>

NoHandler(w) ==
    /\ pc[w] = "lookup" /\ key[job[w]] \notin handlers
    /\ Goto(w, "fail")
    /\ UNCHANGED <<tableVars, poolVars, job, history>>

HandlerReturns(w) ==
    /\ pc[w] = "handling"
    /\ returned' = returned \cup {job[w]}
    /\ Goto(w, "finish")
    /\ UNCHANGED <<tableVars, poolVars, job, called, refused, owed, died>>

\* MUTANT: the exception of a handler is swallowed.
HandlerSwallows(w) ==
    /\ pc[w] = "handling"
    /\ Goto(w, "finish")
    /\ UNCHANGED <<tableVars, poolVars, job, history>>

HandlerRaises(w) ==
    /\ pc[w] = "handling"
    /\ Goto(w, "fail")
    /\ UNCHANGED <<tableVars, poolVars, job, history>>

\* _finalize
Finalize(w, at, outcome) ==
    /\ pc[w] = at
    /\ status' = [status EXCEPT ![job[w]] = outcome]
    /\ BackToTop(w)
    /\ UNCHANGED <<n, key, poolVars, history>>

FinalizeDone(w)   == Finalize(w, "finish", "done")
FinalizeFailed(w) == Finalize(w, "fail", "failed")
-----------------------------------------------------------------------------
(* The database refuses a statement.  _has_pending runs outside the try of *)
(* the loop, so there the thread dies; a refused claim is logged and tried *)
(* again; a refused 'done' falls into the except branch, which marks the   *)
(* job failed; and when that is refused too, the row is left 'running'.    *)
ExitTestRaises(w) ==
    /\ pc[w] = "top" /\ stopEvent /\ ~late
    /\ Goto(w, "off")
    /\ died' = died \cup ({w} \cap threads)
    /\ UNCHANGED <<tableVars, poolVars, job, called, returned, refused, owed>>

\* MUTANT: the loop does not catch what drain_once raises.
ClaimKills(w) ==
    /\ pc[w] = "claim" /\ Pending # {}
    /\ Goto(w, "off")
    /\ UNCHANGED <<tableVars, poolVars, job, history>>

\* With nothing pending it looks like ClaimNothing.
ClaimRaises(w) ==
    /\ pc[w] = "claim" /\ Pending # {}
    /\ Goto(w, "top")
    /\ UNCHANGED <<tableVars, poolVars, job, history>>

DoneRaises(w) ==
    /\ pc[w] = "finish"
    /\ refused' = refused \cup {job[w]}
    /\ Goto(w, "fail")
    /\ UNCHANGED <<tableVars, poolVars, job, called, returned, owed, died>>

FailRaises(w) ==
    /\ pc[w] = "fail"
    /\ BackToTop(w)
    /\ UNCHANGED <<tableVars, poolVars, history>>

DbError(w) == ExitTestRaises(w) \/ ClaimRaises(w) \/ DoneRaises(w) \/ FailRaises(w)
-----------------------------------------------------------------------------
Handler(w) == HandlerReturns(w) \/ HandlerRaises(w)

\* What a thread does by itself, the time spent in a handler apart.
Step(w) ==
    \/ Top(w) \/ Claim(w) \/ ClaimNothing(w)
    \/ CallHandler(w) \/ NoHandler(w)
    \/ FinalizeDone(w) \/ FinalizeFailed(w)

Next ==
    \/ \E k \in Keys : Enqueue(k) \/ Register(k)
    \/ \E S \in SUBSET Workers : Start(S)
    \/ StopBegin \/ DeadlinePasses \/ StopReturn \/ Crash
    \/ \E w \in Workers : Step(w) \/ Handler(w) \/ DbError(w)

Spec == Init /\ [][Next]_vars

(* Threads run, the clock advances and joins return.  Nothing is assumed   *)
(* of the handlers: one may hang.                                          *)
FairSpec ==
    /\ Spec
    /\ \A w \in Workers : WF_vars(Step(w))
    /\ WF_vars(DeadlinePasses) /\ WF_vars(StopReturn)
-----------------------------------------------------------------------------
Busy   == {"lookup", "handling", "finish", "fail"}
Places == {"off", "top", "claim"} \cup Busy
Stati  == {"pending", "running", "done", "failed"}

(* The shape of every variable; a thread holds a job exactly between its   *)
(* claim and the update that ends it (drain_once).                         *)
TableTypeOK ==
    /\ n \in 0..MaxJobs
    /\ key \in [1..n -> Keys] /\ status \in [1..n -> Stati]
PoolTypeOK ==
    /\ handlers \in SUBSET Keys /\ threads \in SUBSET Workers
    /\ started \in BOOLEAN /\ stopEvent \in BOOLEAN /\ late \in BOOLEAN
ThreadTypeOK ==
    /\ pc \in [Workers -> Places] /\ job \in [Workers -> 0..n]
    /\ \A w \in Workers : job[w] = 0 <=> pc[w] \notin Busy
HistoryTypeOK ==
    /\ called \in SUBSET (1..n) /\ returned \in SUBSET (1..n)
    /\ refused \in SUBSET (1..n) /\ owed \in SUBSET (1..n)
    /\ died \in SUBSET Workers
TypeOK == TableTypeOK /\ PoolTypeOK /\ ThreadTypeOK /\ HistoryTypeOK

(* A job's handler is called at most once, whatever is stopped, revived,   *)
(* crashed or refused on the way: no path of drain_once puts a claimed row *)
(* back in the queue.                                                      *)
HandledAtMostOnce ==
    [][\A w \in Workers :
         pc[w] = "lookup" /\ pc'[w] = "handling" => job[w] \notin called]_vars

(* Two handlers never run at the same time for the same (type, payload):   *)
(* deduplication at enqueue and the atomic claim exclude it together, also *)
(* between a thread stop() has abandoned and those of the next start().    *)
NoConcurrentTwins ==
    \A v, w \in Workers :
        v # w /\ pc[v] = "handling" /\ pc[w] = "handling" => key[job[v]] # key[job[w]]

(* Jobs leave the queue in the order they were enqueued.                   *)
ClaimsInOrder ==
    \A i \in Pending : \A j \in i..n : j \in Pending

(* The table tells the truth: 'done' only when the handler came back, and  *)
(* 'failed' only when it was called without success, when no handler was   *)
(* known, or when the database had refused to record the success.          *)
OutcomesAreTruthful ==
    \A i \in 1..n :
        /\ status[i] = "done" => i \in returned
        /\ status[i] = "failed" /\ i \in returned => i \in refused

(* The pool implements the ledger of jobs, whose every step it takes in    *)
(* one statement of one thread: claims, drains, restarts, abandoned        *)
(* threads and refused claims are steps the ledger does not see, and a     *)
(* crash leaves a job open, which the ledger allows, never called twice.   *)
DoneJobs   == {i \in 1..n : status[i] = "done"}
FailedJobs == {i \in 1..n : status[i] = "failed"}
Ledger == INSTANCE JobLedger WITH
    open <- Live, spoiled <- refused, done <- DoneJobs, failed <- FailedJobs
ImplementsLedger == Ledger!LedgerSpec

(* A stop() that returns within its drain timeout has emptied the queue of *)
(* everything that was waiting when it was called, unless a database error *)
(* killed every thread of the pool on the way.                             *)
StopDrains ==
    [][started /\ ~started' /\ stopEvent' /\ ~late /\ died # threads
         => owed \cap Pending = {}]_vars

(* Every pending job is claimed in the end by a pool that stays up, once   *)
(* the database stops failing, provided no handler hangs.                  *)
Up == started /\ ~stopEvent
HandlersEnd == \A w \in Workers : []<>(pc[w] # "handling")
Calm == <>[]Up /\ <>[][\A w \in Workers : ~DbError(w)]_vars /\ HandlersEnd
PendingServed == Calm => \A i \in Jobs : i \in Pending ~> i \notin Pending

(* stop() returns even if a handler hangs.                                 *)
StopReturns == started /\ stopEvent ~> ~(started /\ stopEvent)
=============================================================================
