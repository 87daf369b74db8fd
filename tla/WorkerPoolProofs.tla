--------------------------- MODULE WorkerPoolProofs ---------------------------
(***************************************************************************)
(* Proofs about WorkerPool for every number of jobs and every set of keys, *)
(* handled keys and threads: its type invariant, at-most-once handling, no *)
(* two handlers at once for one key, claims in queue order, truthful       *)
(* outcomes, what a stop() that returns in time has achieved, and that all *)
(* of it amounts to the ledger of jobs.                                    *)
(***************************************************************************)
EXTENDS WorkerPool, TLAPS

USE WorkerPoolAssumption

(* A claimed row is 'running' and belongs to one thread.                   *)
HeldInv ==
    /\ \A w \in Workers : pc[w] \in Busy => status[job[w]] = "running"
    /\ \A v, w \in Workers : v # w /\ pc[v] \in Busy => job[v] # job[w]

(* Of the live rows no two have the same key.                              *)
LiveInv == \A i, j \in 1..n :
    i # j /\ status[i] \in {"pending", "running"} /\ status[j] \in {"pending", "running"}
        => key[i] # key[j]

(* What has been called is no longer pending, nor waiting for its call;    *)
(* what a thread is about to record agrees with what the handler did.      *)
CallInv ==
    /\ returned \subseteq called
    /\ \A i \in 1..n : status[i] = "pending" => i \notin called
    /\ \A w \in Workers :
         /\ pc[w] = "lookup" => job[w] \notin called
         /\ pc[w] = "handling" => job[w] \in called \ returned
         /\ pc[w] = "finish" => job[w] \in returned
         /\ pc[w] = "fail" /\ job[w] \in returned => job[w] \in refused

Shape == TableTypeOK /\ ThreadTypeOK /\ HistoryTypeOK

IInv == Shape /\ HeldInv /\ LiveInv /\ CallInv /\ ClaimsInOrder /\ OutcomesAreTruthful

(* While stop() waits: once a thread of the pool has left in time, and not *)
(* because of an exception, nothing of what was owed is pending any more.  *)
StopInv ==
    /\ threads \subseteq Workers
    /\ started => died \subseteq threads
    /\ started /\ ~stopEvent => \A w \in threads : pc[w] # "off"
    /\ started /\ stopEvent /\ ~late =>
         \A w \in threads \ died : pc[w] = "off" => owed \cap Pending = {}
-----------------------------------------------------------------------------
LEMMA InitIInv == Init => IInv
<1> SUFFICES ASSUME Init PROVE IInv
  OBVIOUS
<1>1. Shape
  BY DEF Init, Shape, TableTypeOK, ThreadTypeOK, HistoryTypeOK, Places, Busy
<1>2. HeldInv /\ LiveInv /\ CallInv /\ ClaimsInOrder /\ OutcomesAreTruthful
  BY DEF Init, HeldInv, LiveInv, CallInv, ClaimsInOrder, OutcomesAreTruthful, Pending, Busy
<1> QED BY <1>1, <1>2 DEF IInv

LEMMA StepIInv == IInv /\ [Next]_vars => IInv'
<1> SUFFICES ASSUME IInv, [Next]_vars PROVE IInv'
  OBVIOUS
<1> USE DEF IInv, Shape, TableTypeOK, ThreadTypeOK, HistoryTypeOK, HeldInv, LiveInv, CallInv,
        ClaimsInOrder, OutcomesAreTruthful, Pending, Busy, Places, Stati,
        tableVars, poolVars, history
<1>1. ASSUME NEW k \in Keys, Enqueue(k) PROVE IInv'
  <2>1. /\ n' = n + 1 /\ n \in Nat /\ n + 1 <= MaxJobs
        /\ 1..n' = 1..n \cup {n + 1} /\ n + 1 \notin 1..n
        /\ \A i \in 1..n : key'[i] = key[i] /\ status'[i] = status[i]
        /\ key'[n + 1] = k /\ status'[n + 1] = "pending"
        /\ \A i \in 1..n : status[i] \in {"pending", "running"} => key[i] # k
    BY <1>1 DEF Enqueue, Insert, LiveKeys, Live
  <2>2. UNCHANGED <<pc, job, called, returned, refused, owed, died>>
    BY <1>1 DEF Enqueue, Insert
  <2>3. TableTypeOK'
    BY <1>1, <2>1 DEF Enqueue, Insert
  <2>4. ThreadTypeOK' /\ HistoryTypeOK'
    BY <2>1, <2>2
  <2>5. HeldInv'
    BY <2>1, <2>2
  <2>6. LiveInv'
    <3> SUFFICES ASSUME NEW i \in 1..n', NEW j \in 1..n', i # j,
                        status'[i] \in {"pending", "running"},
                        status'[j] \in {"pending", "running"}
                 PROVE  key'[i] # key'[j]
      OBVIOUS
    <3>1. CASE i \in 1..n /\ j \in 1..n
      BY <2>1, <3>1
    <3>2. CASE i = n + 1 \/ j = n + 1
      BY <2>1, <3>2
    <3> QED BY <2>1, <3>1, <3>2
  <2>7. CallInv'
    BY <2>1, <2>2
  <2>8. ClaimsInOrder'
    BY <2>1
  <2>9. OutcomesAreTruthful'
    BY <2>1, <2>2
  <2> QED BY <2>3, <2>4, <2>5, <2>6, <2>7, <2>8, <2>9
<1>2. ASSUME NEW k \in Keys, Register(k) PROVE IInv'
  BY <1>2 DEF Register
<1>3. ASSUME NEW S \in SUBSET Workers, Start(S) PROVE IInv'
  BY <1>3 DEF Start
<1>4. CASE StopBegin
  BY <1>4 DEF StopBegin
<1>5. CASE DeadlinePasses
  BY <1>5 DEF DeadlinePasses
<1>6. CASE StopReturn
  BY <1>6 DEF StopReturn
<1>7. CASE Crash
  BY <1>7 DEF Crash
<1>8. ASSUME NEW w \in Workers, Top(w) PROVE IInv'
  BY <1>8 DEF Top, Goto
<1>9. ASSUME NEW w \in Workers, Claim(w) PROVE IInv'
  <2>1. PICK i \in Pending : (\A j \in Pending : i <= j) /\ TakeJob(w, i)
    BY <1>9 DEF Claim
  <2>2. i \in 1..n /\ status[i] = "pending" /\ i \notin called /\ i # 0
    BY <2>1
  <2>3. /\ \A j \in 1..n : j # i => status'[j] = status[j]
        /\ status'[i] = "running" /\ job'[w] = i /\ pc'[w] = "lookup"
        /\ \A v \in Workers : v # w => job'[v] = job[v] /\ pc'[v] = pc[v]
        /\ UNCHANGED <<n, key, called, returned, refused, owed, died>>
    BY <2>1, <2>2 DEF TakeJob, Goto
  <2>4. Shape'
    BY <2>1, <2>2 DEF TakeJob, Goto
  <2>5. HeldInv'
    <3>1. \A v \in Workers : v # w /\ pc[v] \in Busy => job[v] \in 1..n /\ job[v] # i
      BY <2>2
    <3> QED BY <2>2, <2>3, <3>1
  <2>6. LiveInv'
    BY <2>2, <2>3
  <2>7. CallInv'
    BY <2>2, <2>3
  <2>8. ClaimsInOrder'
    BY <2>1, <2>2, <2>3
  <2>9. OutcomesAreTruthful'
    BY <2>2, <2>3
  <2> QED BY <2>4, <2>5, <2>6, <2>7, <2>8, <2>9
<1>10. ASSUME NEW w \in Workers, ClaimNothing(w) \/ ClaimRaises(w) PROVE IInv'
  <2>1. /\ pc[w] = "claim" /\ Goto(w, "top")
        /\ UNCHANGED <<tableVars, poolVars, job, called, returned, refused, owed, died>>
    BY <1>10 DEF ClaimNothing, ClaimRaises
  <2> QED BY <2>1 DEF Goto
<1>11. ASSUME NEW w \in Workers, CallHandler(w) PROVE IInv'
  <2>1. job[w] \in 1..n /\ status[job[w]] = "running" /\ job[w] \notin returned
    BY <1>11 DEF CallHandler
  <2>2. Shape'
    BY <1>11, <2>1 DEF CallHandler, Goto
  <2>3. HeldInv'
    BY <1>11, <2>1 DEF CallHandler, Goto
  <2>4. LiveInv' /\ ClaimsInOrder'
    BY <1>11, <2>1 DEF CallHandler, Goto
  <2>5. CallInv'
    BY <1>11, <2>1 DEF CallHandler, Goto
  <2>6. OutcomesAreTruthful'
    BY <1>11, <2>1 DEF CallHandler, Goto
  <2> QED BY <2>2, <2>3, <2>4, <2>5, <2>6
<1>12. ASSUME NEW w \in Workers, NoHandler(w) PROVE IInv'
  BY <1>12 DEF NoHandler, Goto
<1>13. ASSUME NEW w \in Workers, HandlerReturns(w) PROVE IInv'
  <2>1. job[w] \in 1..n /\ status[job[w]] = "running"
    BY <1>13 DEF HandlerReturns
  <2>2. Shape'
    BY <1>13, <2>1 DEF HandlerReturns, Goto
  <2>3. HeldInv'
    BY <1>13, <2>1 DEF HandlerReturns, Goto
  <2>4. LiveInv' /\ ClaimsInOrder'
    BY <1>13, <2>1 DEF HandlerReturns, Goto
  <2>5. CallInv'
    <3>1. /\ returned' = returned \cup {job[w]} /\ pc'[w] = "finish"
          /\ \A v \in Workers : v # w => pc'[v] = pc[v]
          /\ UNCHANGED <<n, status, job, called, refused>> /\ job[w] \in called
      BY <1>13 DEF HandlerReturns, Goto
    <3>2. \A v \in Workers : v # w /\ pc[v] \in Busy => job[v] # job[w]
      OBVIOUS
    <3> QED BY <3>1, <3>2
  <2>6. OutcomesAreTruthful'
    BY <1>13, <2>1 DEF HandlerReturns, Goto
  <2> QED BY <2>2, <2>3, <2>4, <2>5, <2>6
<1>14. ASSUME NEW w \in Workers, HandlerRaises(w) PROVE IInv'
  BY <1>14 DEF HandlerRaises, Goto
<1>15. ASSUME NEW w \in Workers, FinalizeDone(w) PROVE IInv'
  BY <1>15 DEF FinalizeDone, Finalize, BackToTop, Goto
<1>16. ASSUME NEW w \in Workers, FinalizeFailed(w) PROVE IInv'
  BY <1>16 DEF FinalizeFailed, Finalize, BackToTop, Goto
<1>17. ASSUME NEW w \in Workers, ExitTestRaises(w) PROVE IInv'
  BY <1>17 DEF ExitTestRaises, Goto
<1>18. ASSUME NEW w \in Workers, DoneRaises(w) PROVE IInv'
  <2>1. job[w] \in 1..n /\ status[job[w]] = "running"
    BY <1>18 DEF DoneRaises
  <2>2. Shape'
    BY <1>18, <2>1 DEF DoneRaises, Goto
  <2>3. HeldInv'
    BY <1>18, <2>1 DEF DoneRaises, Goto
  <2>4. LiveInv' /\ ClaimsInOrder'
    BY <1>18, <2>1 DEF DoneRaises, Goto
  <2>5. CallInv'
    BY <1>18, <2>1 DEF DoneRaises, Goto
  <2>6. OutcomesAreTruthful'
    BY <1>18, <2>1 DEF DoneRaises, Goto
  <2> QED BY <2>2, <2>3, <2>4, <2>5, <2>6
<1>19. ASSUME NEW w \in Workers, FailRaises(w) PROVE IInv'
  BY <1>19 DEF FailRaises, BackToTop, Goto
<1>20. CASE UNCHANGED vars
  BY <1>20 DEF vars
<1> QED
  BY <1>1, <1>2, <1>3, <1>4, <1>5, <1>6, <1>7, <1>8, <1>9, <1>10, <1>11, <1>12,
     <1>13, <1>14, <1>15, <1>16, <1>17, <1>18, <1>19, <1>20
  DEF Next, Step, Handler, DbError

LEMMA StepPoolType == PoolTypeOK /\ [Next]_vars => PoolTypeOK'
<1> SUFFICES ASSUME PoolTypeOK, [Next]_vars PROVE PoolTypeOK'
  OBVIOUS
<1> USE DEF PoolTypeOK, poolVars
<1>1. ASSUME NEW k \in Keys, Enqueue(k) \/ Register(k) PROVE PoolTypeOK'
  BY <1>1 DEF Enqueue, Insert, Register
<1>2. ASSUME NEW S \in SUBSET Workers, Start(S) PROVE PoolTypeOK'
  BY <1>2 DEF Start
<1>3. CASE StopBegin \/ DeadlinePasses \/ StopReturn \/ Crash
  BY <1>3 DEF StopBegin, DeadlinePasses, StopReturn, Crash
<1>4. ASSUME NEW w \in Workers, Step(w) \/ Handler(w) \/ DbError(w) PROVE PoolTypeOK'
  <2>1. UNCHANGED poolVars
    BY <1>4 DEF Step, Top, Claim, TakeJob, ClaimNothing, CallHandler, NoHandler, FinalizeDone,
       FinalizeFailed, Finalize, Handler, HandlerReturns, HandlerRaises, DbError,
       ExitTestRaises, ClaimRaises, DoneRaises, FailRaises
  <2> QED BY <2>1
<1>5. CASE UNCHANGED vars
  BY <1>5 DEF vars
<1> QED BY <1>1, <1>2, <1>3, <1>4, <1>5 DEF Next

(* The strengthened invariant holds in every reachable state.              *)
THEOREM Invariance == Spec => []IInv
<1> QED BY InitIInv, StepIInv, PTL DEF Spec

(* Every variable keeps its type, and threads hold jobs when they should.  *)
THEOREM TypeCorrect == Spec => []TypeOK
<1>1. Init => PoolTypeOK
  BY DEF Init, PoolTypeOK
<1>2. Spec => []PoolTypeOK
  BY <1>1, StepPoolType, PTL DEF Spec
<1>3. IInv /\ PoolTypeOK => TypeOK
  BY DEF IInv, Shape, TypeOK
<1> QED BY <1>2, <1>3, Invariance, PTL

(* Jobs leave the queue in the order they were enqueued.                   *)
THEOREM ClaimsOrdered == Spec => []ClaimsInOrder
<1>1. IInv => ClaimsInOrder
  BY DEF IInv
<1> QED BY <1>1, Invariance, PTL

(* 'done' and 'failed' say what happened to the job.                       *)
THEOREM Truthful == Spec => []OutcomesAreTruthful
<1>1. IInv => OutcomesAreTruthful
  BY DEF IInv
<1> QED BY <1>1, Invariance, PTL

(* Two handlers never run at the same time for the same key: the two rows  *)
(* would both be live.                                                     *)
THEOREM NoTwins == Spec => []NoConcurrentTwins
<1>1. IInv => NoConcurrentTwins
  <2> SUFFICES ASSUME IInv, NEW v \in Workers, NEW w \in Workers, v # w,
                      pc[v] = "handling", pc[w] = "handling"
               PROVE  key[job[v]] # key[job[w]]
    BY DEF NoConcurrentTwins
  <2>1. job[v] \in 1..n /\ job[w] \in 1..n
    BY DEF IInv, Shape, TableTypeOK, ThreadTypeOK, Busy
  <2>2. status[job[v]] = "running" /\ status[job[w]] = "running" /\ job[v] # job[w]
    BY DEF IInv, HeldInv, Busy
  <2> QED BY <2>1, <2>2 DEF IInv, LiveInv
<1> QED BY <1>1, Invariance, PTL

(* No handler is called twice for a job: a thread about to call holds a    *)
(* job that has never been called.                                         *)
THEOREM AtMostOnce == Spec => HandledAtMostOnce
<1>1. IInv /\ [Next]_vars =>
        [\A w \in Workers :
           pc[w] = "lookup" /\ pc'[w] = "handling" => job[w] \notin called]_vars
  BY DEF IInv, CallInv
<1> QED BY <1>1, Invariance, PTL DEF Spec, HandledAtMostOnce
-----------------------------------------------------------------------------
(* The argument for stop().                                                *)
LEMMA StepStopInv == IInv /\ StopInv /\ [Next]_vars => StopInv'
<1> SUFFICES ASSUME IInv, StopInv, [Next]_vars PROVE StopInv'
  OBVIOUS
<1> USE DEF StopInv, tableVars, poolVars, history
<1>0. /\ pc \in [Workers -> Places] /\ owed \subseteq 1..n /\ n \in Nat
      /\ status \in [1..n -> Stati] /\ job \in [Workers -> 0..n]
      /\ \A w \in Workers : pc[w] \in Busy => job[w] \in 1..n
  BY DEF IInv, Shape, TableTypeOK, ThreadTypeOK, HistoryTypeOK
<1>1. ASSUME NEW k \in Keys, Enqueue(k) PROVE StopInv'
  <2>1. /\ \A i \in 1..n : status'[i] = status[i]
        /\ UNCHANGED <<poolVars, pc, owed, died>>
    BY <1>0, <1>1 DEF Enqueue, Insert
  <2>2. owed \cap Pending' = owed \cap Pending
    <3>1. 1..n \subseteq 1..n'
      BY <1>0, <1>1 DEF Enqueue, Insert
    <3> QED BY <1>0, <2>1, <3>1 DEF Pending
  <2> QED BY <2>1, <2>2
<1>2. ASSUME NEW k \in Keys, Register(k) PROVE StopInv'
  BY <1>2 DEF Register, Pending
<1>3. ASSUME NEW S \in SUBSET Workers, Start(S) PROVE StopInv'
  BY <1>0, <1>3 DEF Start
<1>4. CASE StopBegin
  BY <1>4 DEF StopBegin
<1>5. CASE DeadlinePasses
  BY <1>5 DEF DeadlinePasses
<1>6. CASE StopReturn \/ Crash
  BY <1>6 DEF StopReturn, Crash
<1>7. ASSUME NEW w \in Workers, Top(w) PROVE StopInv'
  BY <1>0, <1>7 DEF Top, Goto, ShouldExit, Pending
<1>8. ASSUME NEW w \in Workers, ExitTestRaises(w) PROVE StopInv'
  BY <1>0, <1>8 DEF ExitTestRaises, Goto, Pending
<1>9. ASSUME NEW w \in Workers,
             \/ Claim(w) \/ ClaimNothing(w) \/ CallHandler(w) \/ NoHandler(w)
             \/ FinalizeDone(w) \/ FinalizeFailed(w) \/ Handler(w)
             \/ ClaimRaises(w) \/ DoneRaises(w) \/ FailRaises(w)
      PROVE  StopInv'
  <2>1. /\ UNCHANGED <<poolVars, owed, died, n>>
        /\ pc[w] # "off" /\ \E p \in Places \ {"off"} : Goto(w, p)
    BY <1>9 DEF Claim, TakeJob, ClaimNothing, CallHandler, NoHandler, FinalizeDone,
       FinalizeFailed, Finalize, BackToTop, Handler, HandlerReturns, HandlerRaises,
       ClaimRaises, DoneRaises, FailRaises, Places, Busy
  <2>2. \A v \in Workers : pc'[v] = "off" <=> pc[v] = "off"
    BY <1>0, <2>1 DEF Goto
  <2>3. Pending' \subseteq Pending
    <3>1. UNCHANGED status \/ \E i \in 1..n, s \in Stati \ {"pending"} :
                                  status' = [status EXCEPT ![i] = s]
      BY <1>0, <1>9 DEF Claim, TakeJob, ClaimNothing, CallHandler, NoHandler, FinalizeDone,
         FinalizeFailed, Finalize, Handler, HandlerReturns, HandlerRaises,
         ClaimRaises, DoneRaises, FailRaises, Pending, Stati, Busy
    <3> QED BY <1>0, <2>1, <3>1 DEF Pending
  <2> QED BY <1>0, <2>1, <2>2, <2>3
<1>10. CASE UNCHANGED vars
  BY <1>10 DEF vars, Pending
<1> QED
  BY <1>1, <1>2, <1>3, <1>4, <1>5, <1>6, <1>7, <1>8, <1>9, <1>10
  DEF Next, Step, DbError

(* A stop() that returns before the deadline leaves nothing it owed        *)
(* pending, unless all the threads of the pool died.                       *)
THEOREM DrainedByStop == Spec => StopDrains
<1>1. Init => StopInv
  BY DEF Init, StopInv
<1>2. Spec => [](IInv /\ StopInv)
  BY <1>1, InitIInv, StepIInv, StepStopInv, PTL DEF Spec
<1>3. StopInv /\ [Next]_vars =>
        [started /\ ~started' /\ stopEvent' /\ ~late /\ died # threads
           => owed \cap Pending = {}]_vars
  <2> SUFFICES ASSUME StopInv, Next, started, ~started', stopEvent', ~late, died # threads
               PROVE  owed \cap Pending = {}
    BY DEF StopInv
  <2>1. StopReturn
    <3>1. ASSUME NEW k \in Keys, Enqueue(k) \/ Register(k) PROVE FALSE
      BY <3>1 DEF Enqueue, Insert, Register, poolVars
    <3>2. ASSUME NEW w \in Workers, Step(w) \/ Handler(w) \/ DbError(w) PROVE FALSE
      <4>1. UNCHANGED poolVars
        BY <3>2 DEF Step, Top, Claim, TakeJob, ClaimNothing, CallHandler, NoHandler,
           FinalizeDone, FinalizeFailed, Finalize, Handler, HandlerReturns, HandlerRaises,
           DbError, ExitTestRaises, ClaimRaises, DoneRaises, FailRaises
      <4> QED BY <4>1 DEF poolVars
    <3>3. ASSUME NEW S \in SUBSET Workers, Start(S) PROVE FALSE
      BY <3>3 DEF Start
    <3>4. CASE StopBegin \/ DeadlinePasses \/ Crash
      BY <3>4 DEF StopBegin, DeadlinePasses, Crash
    <3> QED BY <3>1, <3>2, <3>3, <3>4 DEF Next
  <2>2. stopEvent /\ \A w \in threads : pc[w] = "off"
    BY <2>1 DEF StopReturn
  <2>3. PICK w \in threads : w \notin died
    BY DEF StopInv
  <2> QED BY <2>2, <2>3 DEF StopInv
<1> QED BY <1>2, <1>3, PTL DEF Spec, StopDrains
-----------------------------------------------------------------------------
(* The refinement of the ledger.                                           *)
LEMMA LedgerInitRefined == Init => Ledger!LedgerInit
BY DEF Init, Ledger!LedgerInit, Live, DoneJobs, FailedJobs

(* A step that changes the status of one row, or of none, changes the sets *)
(* of the ledger by that row alone.                                        *)
LEMMA StatusChange ==
  ASSUME NEW i \in 1..n, NEW s \in Stati, status \in [1..n -> Stati],
         n' = n, status' = [status EXCEPT ![i] = s]
  PROVE  /\ Live' = IF s \in {"pending", "running"} THEN Live \cup {i} ELSE Live \ {i}
         /\ DoneJobs' = IF s = "done" THEN DoneJobs \cup {i} ELSE DoneJobs \ {i}
         /\ FailedJobs' = IF s = "failed" THEN FailedJobs \cup {i} ELSE FailedJobs \ {i}
BY DEF Live, DoneJobs, FailedJobs, Stati

LEMMA LedgerStepRefined ==
  IInv /\ [Next]_vars => [Ledger!LedgerNext]_(Ledger!ledgerVars)
<1> SUFFICES ASSUME IInv, [Next]_vars
             PROVE  [Ledger!LedgerNext]_(Ledger!ledgerVars)
  OBVIOUS
<1> USE DEF tableVars, poolVars, history
<1> DEFINE Same == UNCHANGED <<n, key, status, called, returned, refused>>
<1>0. /\ n \in 0..MaxJobs /\ 1..n \subseteq Jobs
      /\ key \in [1..n -> Keys] /\ status \in [1..n -> Stati]
      /\ \A w \in Workers : pc[w] \in Busy =>
            job[w] \in 1..n /\ job[w] \in Jobs /\ status[job[w]] = "running" /\ job[w] \in Live
  BY DEF IInv, Shape, TableTypeOK, ThreadTypeOK, HeldInv, Busy, Live, Jobs
<1>1. Same => UNCHANGED Ledger!ledgerVars
  BY DEF Ledger!ledgerVars, Live, DoneJobs, FailedJobs
<1>2. ASSUME NEW k \in Keys, Enqueue(k) PROVE [Ledger!LedgerNext]_(Ledger!ledgerVars)
  <2>1. /\ n' = n + 1 /\ n \in Nat /\ n + 1 \in Jobs /\ 1..n' = 1..n \cup {n + 1}
        /\ n + 1 \notin 1..n
        /\ status' = [i \in 1..n' |-> IF i = n + 1 THEN "pending" ELSE status[i]]
        /\ key' = [i \in 1..n \cup {n + 1} |-> IF i = n + 1 THEN k ELSE key[i]]
        /\ DOMAIN key = 1..n
        /\ UNCHANGED <<called, returned, refused>> /\ k \notin LiveKeys
    BY <1>0, <1>2 DEF Enqueue, Insert, Jobs
  <2>2. Live' = Live \cup {n + 1} /\ UNCHANGED <<DoneJobs, FailedJobs>>
    BY <2>1 DEF Live, DoneJobs, FailedJobs
  <2>3. \A j \in Live : key[j] # k
    BY <2>1 DEF LiveKeys
  <2>4. Ledger!Submit(n + 1, k)
    BY <2>1, <2>2, <2>3 DEF Ledger!Submit
  <2> QED BY <2>1, <2>4 DEF Ledger!LedgerNext
<1>3. ASSUME NEW w \in Workers, Claim(w) PROVE Same \/ UNCHANGED Ledger!ledgerVars
  <2>1. PICK i \in 1..n : status[i] = "pending" /\ TakeJob(w, i)
    BY <1>3 DEF Claim, Pending
  <2>2. i \in Live /\ i \notin DoneJobs /\ i \notin FailedJobs
    BY <2>1 DEF Live, DoneJobs, FailedJobs
  <2>3. Live' = Live /\ UNCHANGED <<DoneJobs, FailedJobs>>
    <3>1. n' = n /\ "running" \in Stati /\ status' = [status EXCEPT ![i] = "running"]
      BY <2>1 DEF TakeJob, Stati
    <3>2. Live' = Live \cup {i} /\ DoneJobs' = DoneJobs \ {i} /\ FailedJobs' = FailedJobs \ {i}
      <4>1. status \in [1..n -> Stati]
        BY <1>0
      <4> QED BY <3>1, <4>1, StatusChange
    <3> QED BY <2>2, <3>2
  <2> QED BY <2>1, <2>3 DEF TakeJob, Ledger!ledgerVars
<1>4. ASSUME NEW w \in Workers, CallHandler(w) PROVE [Ledger!LedgerNext]_(Ledger!ledgerVars)
  <2>1. job[w] \in Live \ called /\ job[w] \in Jobs
    BY <1>0, <1>4 DEF CallHandler, IInv, CallInv, Busy
  <2>2. Ledger!Call(job[w])
    BY <1>4, <2>1 DEF CallHandler, Ledger!Call, Live, DoneJobs, FailedJobs
  <2> QED BY <2>1, <2>2 DEF Ledger!LedgerNext
<1>5. ASSUME NEW w \in Workers, HandlerReturns(w) PROVE [Ledger!LedgerNext]_(Ledger!ledgerVars)
  <2>1. job[w] \in (Live \cap called) \ returned /\ job[w] \in Jobs
    BY <1>0, <1>5 DEF HandlerReturns, IInv, CallInv, Busy
  <2>2. Ledger!Return(job[w])
    BY <1>5, <2>1 DEF HandlerReturns, Ledger!Return, Live, DoneJobs, FailedJobs
  <2> QED BY <2>1, <2>2 DEF Ledger!LedgerNext
<1>6. ASSUME NEW w \in Workers, DoneRaises(w) PROVE [Ledger!LedgerNext]_(Ledger!ledgerVars)
  <2>1. job[w] \in Live \cap returned /\ job[w] \in Jobs
    BY <1>0, <1>6 DEF DoneRaises, IInv, CallInv, Busy
  <2>2. Ledger!Spoil(job[w])
    BY <1>6, <2>1 DEF DoneRaises, Ledger!Spoil, Live, DoneJobs, FailedJobs
  <2> QED BY <2>1, <2>2 DEF Ledger!LedgerNext
<1>7. ASSUME NEW w \in Workers, FinalizeDone(w) PROVE [Ledger!LedgerNext]_(Ledger!ledgerVars)
  <2>1. job[w] \in Live \cap returned /\ job[w] \in Jobs /\ job[w] \in 1..n
    BY <1>0, <1>7 DEF FinalizeDone, Finalize, IInv, CallInv, Busy
  <2>2. job[w] \notin FailedJobs
    BY <2>1 DEF Live, DoneJobs, FailedJobs
  <2>3. /\ Live' = Live \ {job[w]} /\ DoneJobs' = DoneJobs \cup {job[w]}
        /\ FailedJobs' = FailedJobs
    <3>1. n' = n /\ "done" \in Stati /\ status' = [status EXCEPT ![job[w]] = "done"]
      BY <1>7 DEF FinalizeDone, Finalize, Stati
    <3>2. /\ Live' = Live \ {job[w]} /\ DoneJobs' = DoneJobs \cup {job[w]}
          /\ FailedJobs' = FailedJobs \ {job[w]}
      <4>1. status \in [1..n -> Stati]
        BY <1>0
      <4> QED BY <2>1, <3>1, <4>1, StatusChange
    <3> QED BY <2>2, <3>2
  <2>4. Ledger!Succeed(job[w])
    BY <1>7, <2>1, <2>3 DEF FinalizeDone, Finalize, Ledger!Succeed
  <2> QED BY <2>1, <2>4 DEF Ledger!LedgerNext
<1>8. ASSUME NEW w \in Workers, FinalizeFailed(w) PROVE [Ledger!LedgerNext]_(Ledger!ledgerVars)
  <2>1. /\ job[w] \in Live /\ (job[w] \in returned => job[w] \in refused)
        /\ job[w] \in Jobs /\ job[w] \in 1..n
    BY <1>0, <1>8 DEF FinalizeFailed, Finalize, IInv, CallInv, Busy
  <2>2. job[w] \notin DoneJobs
    BY <2>1 DEF Live, DoneJobs, FailedJobs
  <2>3. /\ Live' = Live \ {job[w]} /\ FailedJobs' = FailedJobs \cup {job[w]}
        /\ DoneJobs' = DoneJobs
    <3>1. n' = n /\ "failed" \in Stati /\ status' = [status EXCEPT ![job[w]] = "failed"]
      BY <1>8 DEF FinalizeFailed, Finalize, Stati
    <3>2. /\ Live' = Live \ {job[w]} /\ FailedJobs' = FailedJobs \cup {job[w]}
          /\ DoneJobs' = DoneJobs \ {job[w]}
      <4>1. status \in [1..n -> Stati]
        BY <1>0
      <4> QED BY <2>1, <3>1, <4>1, StatusChange
    <3> QED BY <2>2, <3>2
  <2>4. Ledger!Fail(job[w])
    BY <1>8, <2>1, <2>3 DEF FinalizeFailed, Finalize, Ledger!Fail
  <2> QED BY <2>1, <2>4 DEF Ledger!LedgerNext
<1>9. ASSUME NEW w \in Workers,
             \/ Top(w) \/ ClaimNothing(w) \/ NoHandler(w) \/ HandlerRaises(w)
             \/ ExitTestRaises(w) \/ ClaimRaises(w) \/ FailRaises(w)
      PROVE  Same
  BY <1>9 DEF Top, ClaimNothing, NoHandler, HandlerRaises, ExitTestRaises, ClaimRaises, FailRaises
<1>10. ASSUME NEW S \in SUBSET Workers, Start(S) PROVE Same
  BY <1>10 DEF Start
<1>11. ASSUME NEW k \in Keys, Register(k) PROVE Same
  BY <1>11 DEF Register
<1>12. ASSUME StopBegin \/ DeadlinePasses \/ StopReturn \/ Crash \/ UNCHANGED vars PROVE Same
  BY <1>12 DEF StopBegin, DeadlinePasses, StopReturn, Crash, vars
<1> QED
  BY <1>1, <1>2, <1>3, <1>4, <1>5, <1>6, <1>7, <1>8, <1>9, <1>10, <1>11, <1>12
  DEF Next, Step, Handler, DbError

(* The pool, with its threads, its restarts and its crashes, implements    *)
(* the ledger of jobs.                                                     *)
THEOREM LedgerImplemented == Spec => ImplementsLedger
<1> QED BY LedgerInitRefined, LedgerStepRefined, Invariance, PTL
        DEF Spec, ImplementsLedger, Ledger!LedgerSpec
=============================================================================
