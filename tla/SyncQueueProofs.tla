--------------------------- MODULE SyncQueueProofs ---------------------------
(***************************************************************************)
(* Proofs about SyncQueue for every number of rows, batch size, number of  *)
(* batches, set of threads and set of oversized rows: its type invariant,  *)
(* that no correction is lost silently, that first attempts are made in    *)
(* queue order, and that the queue implements the abstract outbox.         *)
(***************************************************************************)
EXTENDS SyncQueue, FiniteSetTheorems, TLAPS

USE SyncQueueAssumption

(* What an actor in the middle of a row knows about it.  The answer it     *)
(* holds was really given, and the two commits of a refusal are in order.  *)
RowInv ==
    \A a \in Actors :
        /\ pc[a] \in {"post", "mark", "bury"} => row[a] \in todo[a]
        /\ pc[a] \in {"mark", "bury"} => row[a] \in attempted
        /\ pc[a] = "mark" /\ answer[a] = "ok" => row[a] \in cloud
        /\ pc[a] = "mark" /\ answer[a] = "permanent" => row[a] \in rejected
        /\ pc[a] = "bury" => row[a] \in rejected \cap failed

(* A batch is a segment of the queue: whatever precedes a row of it is in  *)
(* it too or has been attempted; the row being POSTed is its least one.    *)
BatchInv ==
    /\ synced \subseteq attempted
    /\ \A a \in Actors :
         /\ \A i \in todo[a] : \A j \in 1..i : j \in todo[a] \/ j \in attempted
         /\ pc[a] = "post" => \A j \in todo[a] : row[a] <= j

IInv == TableTypeOK /\ TickTypeOK /\ RowInv /\ NoSilentLoss /\ BatchInv /\ FirstAttemptsInOrder
-----------------------------------------------------------------------------
(* peek_pending is closed downwards: a pending row older than a row of the *)
(* batch is in the batch.                                                  *)
LEMMA FirstPendingDownClosed ==
  ASSUME enqueued \in Nat,
         NEW i \in FirstPending, NEW j \in Pending, j < i
  PROVE  j \in FirstPending
<1> DEFINE Below(k) == {m \in Pending : m < k}
<1>1. i \in 1..enqueued /\ j \in 1..enqueued /\ Pending \subseteq 1..enqueued
  BY DEF FirstPending, Pending
<1>2. Below(j) \subseteq Below(i)
  <2>1. SUFFICES ASSUME NEW m \in Pending, m < j
                 PROVE  m < i
    OBVIOUS
  <2>2. m \in Int /\ j \in Int /\ i \in Int
    BY <1>1
  <2> QED BY <2>1, <2>2
<1>3. IsFiniteSet(1..enqueued)
  BY FS_Interval, <1>1
<1>4. IsFiniteSet(Below(i)) /\ IsFiniteSet(Below(j))
  BY <1>1, <1>3, FS_Subset
<1>5. Cardinality(Below(j)) <= Cardinality(Below(i))
  BY <1>2, <1>4, FS_Subset
<1>6. Cardinality(Below(i)) \in Nat /\ Cardinality(Below(j)) \in Nat
  BY <1>4, FS_CardinalityType
<1>7. Cardinality(Below(i)) < Batch
  BY DEF FirstPending
<1>8. Cardinality(Below(j)) < Batch
  BY <1>5, <1>6, <1>7
<1> QED BY <1>8 DEF FirstPending

(* The count drain_sync_queue takes is a number of rows.                   *)
LEMMA PendingCount ==
  ASSUME enqueued \in 0..MaxRows
  PROVE  Cardinality(Pending) \in 0..MaxRows
<1>1. IsFiniteSet(1..enqueued) /\ Cardinality(1..enqueued) = enqueued
  BY FS_Interval
<1>2. IsFiniteSet(Pending) /\ Cardinality(Pending) <= enqueued
  BY <1>1, FS_Subset DEF Pending
<1>3. Cardinality(Pending) \in Nat
  BY <1>2, FS_CardinalityType
<1> QED BY <1>2, <1>3

LEMMA InitIInv == Init => IInv
<1> SUFFICES ASSUME Init PROVE IInv
  OBVIOUS
<1>1. TableTypeOK /\ TickTypeOK
  BY DEF Init, TableTypeOK, TickTypeOK, Places
<1>2. RowInv
  BY DEF Init, RowInv
<1>3. NoSilentLoss /\ FirstAttemptsInOrder
  BY DEF Init, NoSilentLoss, FirstAttemptsInOrder
<1>4. BatchInv
  BY DEF Init, BatchInv
<1> QED BY <1>1, <1>2, <1>3, <1>4 DEF IInv

LEMMA StepIInv == IInv /\ [Next]_vars => IInv'
<1> SUFFICES ASSUME IInv, [Next]_vars PROVE IInv'
  OBVIOUS
<1> USE DEF IInv, TableTypeOK, TickTypeOK, RowInv, BatchInv, NoSilentLoss, FirstAttemptsInOrder,
        Actors, Places, Codes, dbVars, cloudVars, workerVars, tickVars, drainVars
<1>1. CASE Enqueue
  BY <1>1 DEF Enqueue
<1>2. ASSUME NEW t \in Threads, Start(t) PROVE IInv'
  BY <1>2 DEF Start
<1>3. ASSUME NEW t \in Threads, Loop(t) PROVE IInv'
  BY <1>3 DEF Loop
<1>4. ASSUME NEW d \in BOOLEAN, StopBegin(d) PROVE IInv'
  BY <1>4 DEF StopBegin
<1>5. CASE StopEnd
  BY <1>5 DEF StopEnd
<1>6. ASSUME NEW a \in Actors, Peek(a) PROVE IInv'
  <2>1. TableTypeOK'
    BY <1>6, FirstPendingDownClosed DEF Peek, FirstPending, Pending
  <2>2. TickTypeOK'
    BY <1>6, FirstPendingDownClosed DEF Peek, FirstPending, Pending
  <2>3. RowInv'
    BY <1>6, FirstPendingDownClosed DEF Peek, FirstPending, Pending
  <2>4. NoSilentLoss' /\ FirstAttemptsInOrder'
    BY <1>6, FirstPendingDownClosed DEF Peek, FirstPending, Pending
  <2>5. BatchInv'
    BY <1>6, FirstPendingDownClosed DEF Peek, FirstPending, Pending
  <2> QED BY <2>1, <2>2, <2>3, <2>4, <2>5
<1>7. ASSUME NEW a \in Actors, EndOfBatch(a) PROVE IInv'
  BY <1>7 DEF EndOfBatch, LeaveTick, AfterTick
<1>8. ASSUME NEW a \in Actors, TakeRow(a) PROVE IInv'
  BY <1>8 DEF TakeRow
<1>9. ASSUME NEW a \in Actors, PostAccepted(a) PROVE IInv'
  <2>1. row[a] \in todo[a] /\ row[a] \in 1..enqueued
    BY <1>9 DEF PostAccepted, Answered
  <2>2. TableTypeOK'
    BY <1>9, <2>1 DEF PostAccepted, Answered
  <2>3. TickTypeOK'
    BY <1>9, <2>1 DEF PostAccepted, Answered
  <2>4. RowInv'
    BY <1>9, <2>1 DEF PostAccepted, Answered
  <2>5. NoSilentLoss' /\ FirstAttemptsInOrder'
    BY <1>9, <2>1 DEF PostAccepted, Answered
  <2>6. BatchInv'
    BY <1>9, <2>1 DEF PostAccepted, Answered
  <2> QED BY <2>2, <2>3, <2>4, <2>5, <2>6
<1>10. ASSUME NEW a \in Actors, PostLost(a) PROVE IInv'
  <2>1. row[a] \in todo[a] /\ row[a] \in 1..enqueued
    BY <1>10 DEF PostLost, Answered
  <2>2. TableTypeOK'
    BY <1>10, <2>1 DEF PostLost, Answered
  <2>3. TickTypeOK'
    BY <1>10, <2>1 DEF PostLost, Answered
  <2>4. RowInv'
    BY <1>10, <2>1 DEF PostLost, Answered
  <2>5. NoSilentLoss' /\ FirstAttemptsInOrder'
    BY <1>10, <2>1 DEF PostLost, Answered
  <2>6. BatchInv'
    BY <1>10, <2>1 DEF PostLost, Answered
  <2> QED BY <2>2, <2>3, <2>4, <2>5, <2>6
<1>11. ASSUME NEW a \in Actors, PostThrottled(a) PROVE IInv'
  <2>1. row[a] \in todo[a] /\ row[a] \in 1..enqueued
    BY <1>11 DEF PostThrottled, Answered
  <2>2. TableTypeOK'
    BY <1>11, <2>1 DEF PostThrottled, Answered
  <2>3. TickTypeOK'
    BY <1>11, <2>1 DEF PostThrottled, Answered
  <2>4. RowInv'
    BY <1>11, <2>1 DEF PostThrottled, Answered
  <2>5. NoSilentLoss' /\ FirstAttemptsInOrder'
    BY <1>11, <2>1 DEF PostThrottled, Answered
  <2>6. BatchInv'
    BY <1>11, <2>1 DEF PostThrottled, Answered
  <2> QED BY <2>2, <2>3, <2>4, <2>5, <2>6
<1>12. ASSUME NEW a \in Actors, PostRejected(a) PROVE IInv'
  <2>1. row[a] \in todo[a] /\ row[a] \in 1..enqueued
    BY <1>12 DEF PostRejected, Answered
  <2>2. TableTypeOK'
    BY <1>12, <2>1 DEF PostRejected, Answered
  <2>3. TickTypeOK'
    BY <1>12, <2>1 DEF PostRejected, Answered
  <2>4. RowInv'
    BY <1>12, <2>1 DEF PostRejected, Answered
  <2>5. NoSilentLoss' /\ FirstAttemptsInOrder'
    BY <1>12, <2>1 DEF PostRejected, Answered
  <2>6. BatchInv'
    BY <1>12, <2>1 DEF PostRejected, Answered
  <2> QED BY <2>2, <2>3, <2>4, <2>5, <2>6
<1>13. ASSUME NEW a \in Actors, PostOversized(a) PROVE IInv'
  <2>1. row[a] \in todo[a] /\ row[a] \in 1..enqueued
    BY <1>13 DEF PostOversized, Answered
  <2>2. TableTypeOK'
    BY <1>13, <2>1 DEF PostOversized, Answered
  <2>3. TickTypeOK'
    BY <1>13, <2>1 DEF PostOversized, Answered
  <2>4. RowInv'
    BY <1>13, <2>1 DEF PostOversized, Answered
  <2>5. NoSilentLoss' /\ FirstAttemptsInOrder'
    BY <1>13, <2>1 DEF PostOversized, Answered
  <2>6. BatchInv'
    BY <1>13, <2>1 DEF PostOversized, Answered
  <2> QED BY <2>2, <2>3, <2>4, <2>5, <2>6
<1>14. ASSUME NEW a \in Actors, MarkSynced(a) PROVE IInv'
  <2>1. row[a] \in todo[a] /\ row[a] \in 1..enqueued /\ row[a] \in attempted
    BY <1>14 DEF MarkSynced, NextRow
  <2>2. TableTypeOK'
    BY <1>14, <2>1 DEF MarkSynced, NextRow
  <2>3. TickTypeOK'
    BY <1>14, <2>1 DEF MarkSynced, NextRow
  <2>4. RowInv'
    BY <1>14, <2>1 DEF MarkSynced, NextRow
  <2>5. NoSilentLoss' /\ FirstAttemptsInOrder'
    BY <1>14, <2>1 DEF MarkSynced, NextRow
  <2>6. BatchInv'
    BY <1>14, <2>1 DEF MarkSynced, NextRow
  <2> QED BY <2>2, <2>3, <2>4, <2>5, <2>6
<1>15. ASSUME NEW a \in Actors, MarkRetry(a) PROVE IInv'
  <2>1. row[a] \in todo[a] /\ row[a] \in 1..enqueued /\ row[a] \in attempted
    BY <1>15 DEF MarkRetry, NextRow
  <2>2. TableTypeOK'
    BY <1>15, <2>1 DEF MarkRetry, NextRow
  <2>3. TickTypeOK'
    BY <1>15, <2>1 DEF MarkRetry, NextRow
  <2>4. RowInv'
    BY <1>15, <2>1 DEF MarkRetry, NextRow
  <2>5. NoSilentLoss' /\ FirstAttemptsInOrder'
    BY <1>15, <2>1 DEF MarkRetry, NextRow
  <2>6. BatchInv'
    BY <1>15, <2>1 DEF MarkRetry, NextRow
  <2> QED BY <2>2, <2>3, <2>4, <2>5, <2>6
<1>16. ASSUME NEW a \in Actors, MarkThrottled(a) PROVE IInv'
  <2>1. row[a] \in todo[a] /\ row[a] \in 1..enqueued /\ row[a] \in attempted
    BY <1>16 DEF MarkThrottled, LeaveTick, AfterTick
  <2>2. TableTypeOK'
    BY <1>16, <2>1 DEF MarkThrottled, LeaveTick, AfterTick
  <2>3. TickTypeOK'
    BY <1>16, <2>1 DEF MarkThrottled, LeaveTick, AfterTick
  <2>4. RowInv'
    BY <1>16, <2>1 DEF MarkThrottled, LeaveTick, AfterTick
  <2>5. NoSilentLoss' /\ FirstAttemptsInOrder'
    BY <1>16, <2>1 DEF MarkThrottled, LeaveTick, AfterTick
  <2>6. BatchInv'
    BY <1>16, <2>1 DEF MarkThrottled, LeaveTick, AfterTick
  <2> QED BY <2>2, <2>3, <2>4, <2>5, <2>6
<1>17. ASSUME NEW a \in Actors, MarkRejected(a) PROVE IInv'
  BY <1>17 DEF MarkRejected
<1>18. ASSUME NEW a \in Actors, Bury(a) PROVE IInv'
  <2>1. row[a] \in todo[a] /\ row[a] \in 1..enqueued /\ row[a] \in attempted
    BY <1>18 DEF Bury, NextRow
  <2>2. TableTypeOK'
    BY <1>18, <2>1 DEF Bury, NextRow
  <2>3. TickTypeOK'
    BY <1>18, <2>1 DEF Bury, NextRow
  <2>4. RowInv'
    BY <1>18, <2>1 DEF Bury, NextRow
  <2>5. NoSilentLoss' /\ FirstAttemptsInOrder'
    BY <1>18, <2>1 DEF Bury, NextRow
  <2>6. BatchInv'
    BY <1>18, <2>1 DEF Bury, NextRow
  <2> QED BY <2>2, <2>3, <2>4, <2>5, <2>6
<1>19. ASSUME NEW a \in Actors, DbError(a) PROVE IInv'
  BY <1>19 DEF DbError, LeaveTick, AfterRaise, AfterTick
<1>20. CASE Drain
  <2>1. Cardinality(Pending) \in 0..MaxRows
    BY PendingCount
  <2>2. CASE DrainBegin
    BY <2>2 DEF DrainBegin
  <2>3. CASE DrainCount
    BY <2>1, <2>3 DEF DrainCount
  <2>4. CASE DrainRecount
    BY <2>1, <2>4 DEF DrainRecount
  <2> QED BY <1>20, <2>2, <2>3, <2>4 DEF Drain
<1>21. CASE CrashBrain
  BY <1>21 DEF CrashBrain
<1>22. CASE CrashDaemon
  BY <1>22 DEF CrashDaemon, LeaveTick
<1>23. CASE UNCHANGED vars
  BY <1>23 DEF vars
<1> QED
  BY <1>1, <1>2, <1>3, <1>4, <1>5, <1>6, <1>7, <1>8, <1>9, <1>10, <1>11, <1>12,
     <1>13, <1>14, <1>15, <1>16, <1>17, <1>18, <1>19, <1>20, <1>21, <1>22, <1>23
  DEF Next, Tick, Post, Mark

LEMMA StepWorkerType == WorkerTypeOK /\ [Next]_vars => WorkerTypeOK'
<1> SUFFICES ASSUME WorkerTypeOK, [Next]_vars PROVE WorkerTypeOK'
  OBVIOUS
<1> USE DEF WorkerTypeOK, workerVars
<1>1. ASSUME NEW a \in Actors, Tick(a) \/ DbError(a) PROVE WorkerTypeOK'
  <2>1. UNCHANGED workerVars
    BY <1>1 DEF Tick, Peek, EndOfBatch, TakeRow, Post, PostAccepted, PostLost,
       PostThrottled, PostRejected, PostOversized, Answered, Mark, MarkSynced,
       MarkRetry, MarkThrottled, MarkRejected, Bury, DbError
  <2> QED BY <2>1
<1>2. ASSUME NEW t \in Threads, Start(t) \/ Loop(t) PROVE WorkerTypeOK'
  BY <1>2 DEF Start, Loop
<1>3. CASE Enqueue
  BY <1>3 DEF Enqueue
<1>4. CASE StopEnd \/ \E d \in BOOLEAN : StopBegin(d)
  BY <1>4 DEF StopEnd, StopBegin
<1>5. CASE Drain
  BY <1>5 DEF Drain, DrainBegin, DrainCount, DrainRecount
<1>6. CASE CrashBrain \/ CrashDaemon
  BY <1>6 DEF CrashBrain, CrashDaemon
<1>7. CASE UNCHANGED vars
  BY <1>7 DEF vars
<1> QED BY <1>1, <1>2, <1>3, <1>4, <1>5, <1>6, <1>7 DEF Next

(* The strengthened invariant holds in every reachable state.              *)
THEOREM Invariance == Spec => []IInv
<1> QED BY InitIInv, StepIInv, PTL DEF Spec

(* Every variable of the queue keeps its type.                             *)
THEOREM TypeCorrect == Spec => []TypeOK
<1>1. Init => WorkerTypeOK
  BY DEF Init, WorkerTypeOK
<1>2. Spec => []WorkerTypeOK
  BY <1>1, StepWorkerType, PTL DEF Spec
<1>3. IInv /\ WorkerTypeOK => TypeOK
  BY DEF IInv, TypeOK
<1> QED BY <1>2, <1>3, Invariance, PTL

(* A row that is marked synced is stored by the cloud, or was refused for  *)
(* good with the failure recorded.                                         *)
THEOREM NothingSilentlyLost == Spec => []NoSilentLoss
<1>1. IInv => NoSilentLoss
  BY DEF IInv
<1> QED BY <1>1, Invariance, PTL

(* Rows are POSTed for the first time in the order they were enqueued.     *)
THEOREM FirstAttemptsOrdered == Spec => []FirstAttemptsInOrder
<1>1. IInv => FirstAttemptsInOrder
  BY DEF IInv
<1> QED BY <1>1, Invariance, PTL
-----------------------------------------------------------------------------
(* The refinement: each step of the queue is a step of the outbox or       *)
(* leaves it alone.                                                        *)
LEMMA InitRefines == Init => Abstract!OutboxInit
BY DEF Init, Abstract!OutboxInit

LEMMA StepRefines ==
  IInv /\ [Next]_vars => [Abstract!OutboxNext]_(Abstract!outboxVars)
<1> SUFFICES ASSUME IInv, [Next]_vars
             PROVE  [Abstract!OutboxNext]_(Abstract!outboxVars)
  OBVIOUS
<1> DEFINE Same == UNCHANGED <<enqueued, cloud, rejected, synced>>
<1>1. Same => UNCHANGED Abstract!outboxVars
  BY DEF Abstract!outboxVars
<1>2. CASE Enqueue
  <2>1. enqueued' = enqueued + 1 /\ enqueued \in 0..MaxRows /\ enqueued + 1 \in Rows
    BY <1>2 DEF Enqueue, IInv, TableTypeOK, Rows
  <2>2. enqueued + 1 \notin 1..enqueued /\ 1..enqueued' = 1..enqueued \cup {enqueued + 1}
    BY <2>1
  <2>3. Abstract!Submit(enqueued + 1)
    BY <1>2, <2>2 DEF Enqueue, cloudVars, Abstract!Submit
  <2> QED BY <2>1, <2>3 DEF Abstract!OutboxNext
<1>3. ASSUME NEW a \in Actors, Post(a) PROVE [Abstract!OutboxNext]_(Abstract!outboxVars)
  <2>1. row[a] \in 1..enqueued /\ row[a] \in Rows
    BY <1>3 DEF Post, PostAccepted, PostLost, PostThrottled, PostRejected, PostOversized,
       Answered, IInv, TableTypeOK, TickTypeOK, RowInv, Rows
  <2>2. Same \/ Abstract!Store(row[a]) \/ Abstract!Refuse(row[a])
    BY <1>3, <2>1 DEF Post, PostAccepted, PostLost, PostThrottled, PostRejected,
       PostOversized, Answered, dbVars, Abstract!Store, Abstract!Refuse
  <2> QED BY <1>1, <2>1, <2>2 DEF Abstract!OutboxNext
<1>4. ASSUME NEW a \in Actors, MarkSynced(a) \/ Bury(a)
      PROVE  [Abstract!OutboxNext]_(Abstract!outboxVars)
  <2>1. row[a] \in Rows /\ row[a] \in cloud \cup rejected
    BY <1>4 DEF MarkSynced, Bury, IInv, TableTypeOK, TickTypeOK, RowInv, Rows
  <2>2. Abstract!Settle(row[a])
    BY <1>4, <2>1 DEF MarkSynced, Bury, cloudVars, Abstract!Settle
  <2> QED BY <2>1, <2>2 DEF Abstract!OutboxNext
<1>5. ASSUME NEW a \in Actors,
             Peek(a) \/ EndOfBatch(a) \/ TakeRow(a) \/ MarkRetry(a)
               \/ MarkThrottled(a) \/ MarkRejected(a) \/ DbError(a)
      PROVE  Same
  BY <1>5 DEF Peek, EndOfBatch, TakeRow, MarkRetry, MarkThrottled, MarkRejected, DbError,
     dbVars, cloudVars
<1>6. ASSUME NEW t \in Threads, Start(t) \/ Loop(t) PROVE Same
  BY <1>6 DEF Start, Loop, dbVars, cloudVars
<1>7. ASSUME StopEnd \/ \E d \in BOOLEAN : StopBegin(d) PROVE Same
  BY <1>7 DEF StopEnd, StopBegin, dbVars, cloudVars
<1>8. ASSUME Drain \/ CrashBrain \/ CrashDaemon \/ UNCHANGED vars PROVE Same
  BY <1>8 DEF Drain, DrainBegin, DrainCount, DrainRecount, CrashBrain, CrashDaemon,
     vars, dbVars, cloudVars
<1> QED
  BY <1>1, <1>2, <1>3, <1>4, <1>5, <1>6, <1>7, <1>8 DEF Next, Tick, Mark

(* The queue with its threads, retries, races and crashes implements the   *)
(* abstract outbox: a correction is settled only once stored or refused.   *)
THEOREM Refinement == Spec => ImplementsOutbox
<1> QED BY InitRefines, StepRefines, Invariance, PTL
        DEF Spec, ImplementsOutbox, Abstract!OutboxSpec
=============================================================================
