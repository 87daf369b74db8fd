----------------------------- MODULE DaemonProofs -----------------------------
(***************************************************************************)
(* Proofs about Daemon for every number of daemons, MCP servers and        *)
(* request threads: its type invariant, one service at a time on a brain   *)
(* directory, a PID file that leads to the daemon that serves, and an idle *)
(* timer that will fire whatever requests race to reset it.                *)
(***************************************************************************)
EXTENDS Daemon, TLAPS

USE DaemonAssumption

(* A daemon has the lock from its start until its cleanup, an MCP server   *)
(* while it serves, unless the lock has failed it.                         *)
LockInv ==
    /\ \A d \in Daemons : life[d] \notin {"off", "exit"} => lock = d
    /\ \A m \in Mcps : life[m] \in {"off", "open", "serve", "bare"} /\ (life[m] = "serve" => lock = m)

(* No timer before the daemon arms its first one, one from then on.        *)
EarlyInv == \A d \in Daemons :
    /\ life[d] \in {"off", "drain", "bind", "pid", "arm"} => made[d] = 0
    /\ life[d] \in {"pool", "serve"} => timer[d] >= 1

(* A request belongs to a daemon whose loop has begun, and which therefore *)
(* has had a timer.                                                        *)
HostInv == \A r \in Threads :
    /\ at[r] = "off" <=> host[r] = None
    /\ \A d \in Daemons : host[r] = d =>
         /\ life[d] \in {"serve", "cancel", "unlink", "unlock", "exit", "stuck"}
         /\ timer[d] >= 1

(* The timer in place is live, or a request is about to replace or to      *)
(* start it.                                                               *)
TimerInv == \A d \in Daemons : life[d] \in {"pool", "serve"} /\ ~asked[d] =>
    /\ timer[d] \in over[d] => \E r \in Threads : host[r] = d /\ at[r] = "make"
    /\ timer[d] \notin started[d] => \E r \in Threads : host[r] = d /\ at[r] = "start"

IInv == TypeOK /\ LockInv /\ EarlyInv /\ HostInv /\ PidFileLeads /\ TimerInv
-----------------------------------------------------------------------------
LEMMA InitIInv == Init => IInv
  BY DEF Init, IInv, TypeOK, LockInv, EarlyInv, HostInv, PidFileLeads, TimerInv, Services

(* The steps, one by one: a fact that each of them preserves, all preserve.*)
LEMMA Steps == Next <=>
    \/ \E d \in Daemons : Acquire(d) \/ Drained(d) \/ Bind(d) \/ WritePid(d) \/ Arm(d) \/ Serve(d)
    \/ \E d \in Daemons : StartFails(d) \/ LoopEnds(d) \/ CancelTimer(d) \/ Unlink(d) \/ Unlock(d)
    \/ \E d \in Daemons : Exit(d) \/ Crash(d) \/ Sigterm(d) \/ Fire(d)
    \/ \E d \in Daemons, r \in Threads : Accept(d, r)
    \/ \E r \in Threads : CancelOld(r) \/ MakeNew(r) \/ StartNew(r)
    \/ \E r \in Threads : StartTwice(r) \/ Enter(r) \/ Answer(r)
    \/ \E m \in Mcps : McpOpen(m) \/ McpLock(m) \/ McpLockedOut(m) \/ McpUnlocked(m) \/ McpEnd(m)
  BY DEF Next, Main, Request, Mcp

(* A request that is under way has a daemon.                               *)
LEMMA HostIs == ASSUME TypeOK, HostInv, NEW r \in Threads, at[r] # "off"
                PROVE  host[r] \in Daemons /\ timer[host[r]] \in 1..made[host[r]]
  BY DEF TypeOK, HostInv

LEMMA TypeStep == ASSUME TypeOK, LockInv, EarlyInv, HostInv, [Next]_vars PROVE TypeOK'
<1> USE DEF TypeOK, Services, EarlyInv, mainVars, timerVars, reqVars
<1>1. ASSUME NEW d \in Daemons, Acquire(d) PROVE TypeOK'
  BY <1>1 DEF Acquire, Go
<1>2. ASSUME NEW d \in Daemons, Drained(d) PROVE TypeOK'
  BY <1>2 DEF Drained, Go
<1>3. ASSUME NEW d \in Daemons, Bind(d) PROVE TypeOK'
  BY <1>3 DEF Bind, Go
<1>4. ASSUME NEW d \in Daemons, WritePid(d) PROVE TypeOK'
  BY <1>4 DEF WritePid, Go
<1>5. ASSUME NEW d \in Daemons, Arm(d) PROVE TypeOK'
  BY <1>5 DEF Arm, Go
<1>6. ASSUME NEW d \in Daemons, Serve(d) PROVE TypeOK'
  BY <1>6 DEF Serve, Go
<1>7. ASSUME NEW d \in Daemons, StartFails(d) PROVE TypeOK'
  BY <1>7 DEF StartFails, Go
<1>8. ASSUME NEW d \in Daemons, LoopEnds(d) PROVE TypeOK'
  BY <1>8 DEF LoopEnds, Go
<1>9. ASSUME NEW d \in Daemons, CancelTimer(d) PROVE TypeOK'
  BY <1>9 DEF CancelTimer, Go
<1>10. ASSUME NEW d \in Daemons, Unlink(d) PROVE TypeOK'
  BY <1>10 DEF Unlink, Go
<1>11. ASSUME NEW d \in Daemons, Unlock(d) PROVE TypeOK'
  BY <1>11 DEF Unlock, Go
<1>12. ASSUME NEW d \in Daemons, Exit(d) PROVE TypeOK'
  BY <1>12 DEF Exit, Go, Gone
<1>13. ASSUME NEW d \in Daemons, Crash(d) PROVE TypeOK'
  BY <1>13 DEF Crash, Go, Gone
<1>14. ASSUME NEW d \in Daemons, Sigterm(d) PROVE TypeOK'
  BY <1>14 DEF Sigterm, Go
<1>15. ASSUME NEW d \in Daemons, Fire(d) PROVE TypeOK'
  BY <1>15 DEF Fire, Live
<1>16. ASSUME NEW d \in Daemons, NEW r \in Threads, Accept(d, r) PROVE TypeOK'
  BY <1>16 DEF Accept
<1>17. ASSUME NEW r \in Threads, CancelOld(r) PROVE TypeOK'
  BY <1>17, HostIs DEF CancelOld
<1>18. ASSUME NEW r \in Threads, MakeNew(r) PROVE TypeOK'
  BY <1>18, HostIs DEF MakeNew
<1>19. ASSUME NEW r \in Threads, StartNew(r) PROVE TypeOK'
  BY <1>19, HostIs DEF StartNew
<1>20. ASSUME NEW r \in Threads, StartTwice(r) PROVE TypeOK'
  BY <1>20 DEF StartTwice
<1>21. ASSUME NEW r \in Threads, Enter(r) PROVE TypeOK'
  BY <1>21 DEF Enter
<1>22. ASSUME NEW r \in Threads, Answer(r) PROVE TypeOK'
  BY <1>22 DEF Answer
<1>23. ASSUME NEW m \in Mcps, McpOpen(m) \/ McpUnlocked(m) PROVE TypeOK'
  BY <1>23 DEF McpOpen, McpUnlocked, Go
<1>24. ASSUME NEW m \in Mcps, McpLock(m) \/ McpLockedOut(m) \/ McpEnd(m) PROVE TypeOK'
  BY <1>24 DEF McpLock, McpLockedOut, McpEnd, Go
<1>25. CASE UNCHANGED vars
  BY <1>25 DEF vars
<1> QED BY <1>1, <1>2, <1>3, <1>4, <1>5, <1>6, <1>7, <1>8, <1>9, <1>10, <1>11, <1>12, <1>13, <1>14, <1>15, <1>16, <1>17, <1>18, <1>19, <1>20, <1>21, <1>22, <1>23, <1>24, <1>25, Steps

LEMMA LockStep == ASSUME TypeOK, LockInv, PidFileLeads, [Next]_vars PROVE (LockInv /\ PidFileLeads)'
<1> USE DEF TypeOK, Services, LockInv, PidFileLeads, mainVars, timerVars, reqVars
<1>1. ASSUME NEW d \in Daemons, Acquire(d) PROVE (LockInv /\ PidFileLeads)'
  BY <1>1 DEF Acquire, Go
<1>2. ASSUME NEW d \in Daemons, Drained(d) PROVE (LockInv /\ PidFileLeads)'
  BY <1>2 DEF Drained, Go
<1>3. ASSUME NEW d \in Daemons, Bind(d) PROVE (LockInv /\ PidFileLeads)'
  BY <1>3 DEF Bind, Go
<1>4. ASSUME NEW d \in Daemons, WritePid(d) PROVE (LockInv /\ PidFileLeads)'
  BY <1>4 DEF WritePid, Go
<1>5. ASSUME NEW d \in Daemons, Arm(d) PROVE (LockInv /\ PidFileLeads)'
  BY <1>5 DEF Arm, Go
<1>6. ASSUME NEW d \in Daemons, Serve(d) PROVE (LockInv /\ PidFileLeads)'
  BY <1>6 DEF Serve, Go
<1>7. ASSUME NEW d \in Daemons, StartFails(d) PROVE (LockInv /\ PidFileLeads)'
  BY <1>7 DEF StartFails, Go
<1>8. ASSUME NEW d \in Daemons, LoopEnds(d) PROVE (LockInv /\ PidFileLeads)'
  BY <1>8 DEF LoopEnds, Go
<1>9. ASSUME NEW d \in Daemons, CancelTimer(d) PROVE (LockInv /\ PidFileLeads)'
  BY <1>9 DEF CancelTimer, Go
<1>10. ASSUME NEW d \in Daemons, Unlink(d) PROVE (LockInv /\ PidFileLeads)'
  BY <1>10 DEF Unlink, Go
<1>11. ASSUME NEW d \in Daemons, Unlock(d) PROVE (LockInv /\ PidFileLeads)'
  BY <1>11 DEF Unlock, Go
<1>12. ASSUME NEW d \in Daemons, Exit(d) PROVE (LockInv /\ PidFileLeads)'
  BY <1>12 DEF Exit, Go, Gone
<1>13. ASSUME NEW d \in Daemons, Crash(d) PROVE (LockInv /\ PidFileLeads)'
  BY <1>13 DEF Crash, Go, Gone
<1>14. ASSUME NEW d \in Daemons, Sigterm(d) PROVE (LockInv /\ PidFileLeads)'
  BY <1>14 DEF Sigterm, Go
<1>15. ASSUME NEW d \in Daemons, Fire(d) PROVE (LockInv /\ PidFileLeads)'
  BY <1>15 DEF Fire, Live
<1>16. ASSUME NEW d \in Daemons, NEW r \in Threads, Accept(d, r) PROVE (LockInv /\ PidFileLeads)'
  BY <1>16 DEF Accept
<1>17. ASSUME NEW r \in Threads, CancelOld(r) PROVE (LockInv /\ PidFileLeads)'
  BY <1>17, HostIs DEF CancelOld
<1>18. ASSUME NEW r \in Threads, MakeNew(r) PROVE (LockInv /\ PidFileLeads)'
  BY <1>18, HostIs DEF MakeNew
<1>19. ASSUME NEW r \in Threads, StartNew(r) PROVE (LockInv /\ PidFileLeads)'
  BY <1>19, HostIs DEF StartNew
<1>20. ASSUME NEW r \in Threads, StartTwice(r) PROVE (LockInv /\ PidFileLeads)'
  BY <1>20 DEF StartTwice
<1>21. ASSUME NEW r \in Threads, Enter(r) PROVE (LockInv /\ PidFileLeads)'
  BY <1>21 DEF Enter
<1>22. ASSUME NEW r \in Threads, Answer(r) PROVE (LockInv /\ PidFileLeads)'
  BY <1>22 DEF Answer
<1>23. ASSUME NEW m \in Mcps, McpOpen(m) \/ McpUnlocked(m) PROVE (LockInv /\ PidFileLeads)'
  BY <1>23 DEF McpOpen, McpUnlocked, Go
<1>24. ASSUME NEW m \in Mcps, McpLock(m) \/ McpLockedOut(m) \/ McpEnd(m) PROVE (LockInv /\ PidFileLeads)'
  BY <1>24 DEF McpLock, McpLockedOut, McpEnd, Go
<1>25. CASE UNCHANGED vars
  BY <1>25 DEF vars
<1> QED BY <1>1, <1>2, <1>3, <1>4, <1>5, <1>6, <1>7, <1>8, <1>9, <1>10, <1>11, <1>12, <1>13, <1>14, <1>15, <1>16, <1>17, <1>18, <1>19, <1>20, <1>21, <1>22, <1>23, <1>24, <1>25, Steps

LEMMA HostStep == ASSUME TypeOK, LockInv, EarlyInv, HostInv, [Next]_vars PROVE (EarlyInv /\ HostInv)'
<1> USE DEF TypeOK, Services, EarlyInv, HostInv, mainVars, timerVars, reqVars
<1>1. ASSUME NEW d \in Daemons, Acquire(d) PROVE (EarlyInv /\ HostInv)'
  BY <1>1 DEF Acquire, Go
<1>2. ASSUME NEW d \in Daemons, Drained(d) PROVE (EarlyInv /\ HostInv)'
  BY <1>2 DEF Drained, Go
<1>3. ASSUME NEW d \in Daemons, Bind(d) PROVE (EarlyInv /\ HostInv)'
  BY <1>3 DEF Bind, Go
<1>4. ASSUME NEW d \in Daemons, WritePid(d) PROVE (EarlyInv /\ HostInv)'
  BY <1>4 DEF WritePid, Go
<1>5. ASSUME NEW d \in Daemons, Arm(d) PROVE (EarlyInv /\ HostInv)'
  BY <1>5 DEF Arm, Go
<1>6. ASSUME NEW d \in Daemons, Serve(d) PROVE (EarlyInv /\ HostInv)'
  BY <1>6 DEF Serve, Go
<1>7. ASSUME NEW d \in Daemons, StartFails(d) PROVE (EarlyInv /\ HostInv)'
  BY <1>7 DEF StartFails, Go
<1>8. ASSUME NEW d \in Daemons, LoopEnds(d) PROVE (EarlyInv /\ HostInv)'
  BY <1>8 DEF LoopEnds, Go
<1>9. ASSUME NEW d \in Daemons, CancelTimer(d) PROVE (EarlyInv /\ HostInv)'
  BY <1>9 DEF CancelTimer, Go
<1>10. ASSUME NEW d \in Daemons, Unlink(d) PROVE (EarlyInv /\ HostInv)'
  BY <1>10 DEF Unlink, Go
<1>11. ASSUME NEW d \in Daemons, Unlock(d) PROVE (EarlyInv /\ HostInv)'
  BY <1>11 DEF Unlock, Go
<1>12. ASSUME NEW d \in Daemons, Exit(d) PROVE (EarlyInv /\ HostInv)'
  BY <1>12 DEF Exit, Go, Gone
<1>13. ASSUME NEW d \in Daemons, Crash(d) PROVE (EarlyInv /\ HostInv)'
  BY <1>13 DEF Crash, Go, Gone
<1>14. ASSUME NEW d \in Daemons, Sigterm(d) PROVE (EarlyInv /\ HostInv)'
  BY <1>14 DEF Sigterm, Go
<1>15. ASSUME NEW d \in Daemons, Fire(d) PROVE (EarlyInv /\ HostInv)'
  BY <1>15 DEF Fire, Live
<1>16. ASSUME NEW d \in Daemons, NEW r \in Threads, Accept(d, r) PROVE (EarlyInv /\ HostInv)'
  <2>1. /\ life[d] = "serve" /\ timer[d] >= 1 /\ UNCHANGED <<life, made, timer>>
        /\ at' = [at EXCEPT ![r] = "cancel"] /\ host' = [host EXCEPT ![r] = d]
    BY <1>16 DEF Accept
  <2> QED BY <2>1
<1>17. ASSUME NEW r \in Threads, CancelOld(r) PROVE (EarlyInv /\ HostInv)'
  BY <1>17, HostIs DEF CancelOld
<1>18. ASSUME NEW r \in Threads, MakeNew(r) PROVE (EarlyInv /\ HostInv)'
  BY <1>18, HostIs DEF MakeNew
<1>19. ASSUME NEW r \in Threads, StartNew(r) PROVE (EarlyInv /\ HostInv)'
  BY <1>19, HostIs DEF StartNew
<1>20. ASSUME NEW r \in Threads, StartTwice(r) PROVE (EarlyInv /\ HostInv)'
  BY <1>20 DEF StartTwice
<1>21. ASSUME NEW r \in Threads, Enter(r) PROVE (EarlyInv /\ HostInv)'
  BY <1>21 DEF Enter
<1>22. ASSUME NEW r \in Threads, Answer(r) PROVE (EarlyInv /\ HostInv)'
  BY <1>22 DEF Answer
<1>23. ASSUME NEW m \in Mcps, McpOpen(m) \/ McpUnlocked(m) PROVE (EarlyInv /\ HostInv)'
  BY <1>23 DEF McpOpen, McpUnlocked, Go
<1>24. ASSUME NEW m \in Mcps, McpLock(m) \/ McpLockedOut(m) \/ McpEnd(m) PROVE (EarlyInv /\ HostInv)'
  BY <1>24 DEF McpLock, McpLockedOut, McpEnd, Go
<1>25. CASE UNCHANGED vars
  BY <1>25 DEF vars
<1> QED BY <1>1, <1>2, <1>3, <1>4, <1>5, <1>6, <1>7, <1>8, <1>9, <1>10, <1>11, <1>12, <1>13, <1>14, <1>15, <1>16, <1>17, <1>18, <1>19, <1>20, <1>21, <1>22, <1>23, <1>24, <1>25, Steps

LEMMA TimerStep == ASSUME IInv, [Next]_vars PROVE TimerInv'
<1> USE DEF IInv, TypeOK, Services, EarlyInv, HostInv, TimerInv, mainVars, timerVars, reqVars
<1>1. ASSUME NEW d \in Daemons, Acquire(d) PROVE TimerInv'
  BY <1>1 DEF Acquire, Go
<1>2. ASSUME NEW d \in Daemons, Drained(d) PROVE TimerInv'
  BY <1>2 DEF Drained, Go
<1>3. ASSUME NEW d \in Daemons, Bind(d) PROVE TimerInv'
  BY <1>3 DEF Bind, Go
<1>4. ASSUME NEW d \in Daemons, WritePid(d) PROVE TimerInv'
  BY <1>4 DEF WritePid, Go
<1>5. ASSUME NEW d \in Daemons, Arm(d) PROVE TimerInv'
  BY <1>5 DEF Arm, Go
<1>6. ASSUME NEW d \in Daemons, Serve(d) PROVE TimerInv'
  BY <1>6 DEF Serve, Go
<1>7. ASSUME NEW d \in Daemons, StartFails(d) PROVE TimerInv'
  BY <1>7 DEF StartFails, Go
<1>8. ASSUME NEW d \in Daemons, LoopEnds(d) PROVE TimerInv'
  BY <1>8 DEF LoopEnds, Go
<1>9. ASSUME NEW d \in Daemons, CancelTimer(d) PROVE TimerInv'
  BY <1>9 DEF CancelTimer, Go
<1>10. ASSUME NEW d \in Daemons, Unlink(d) PROVE TimerInv'
  BY <1>10 DEF Unlink, Go
<1>11. ASSUME NEW d \in Daemons, Unlock(d) PROVE TimerInv'
  BY <1>11 DEF Unlock, Go
<1>12. ASSUME NEW d \in Daemons, Exit(d) PROVE TimerInv'
  BY <1>12 DEF Exit, Go, Gone
<1>13. ASSUME NEW d \in Daemons, Crash(d) PROVE TimerInv'
  BY <1>13 DEF Crash, Go, Gone
<1>14. ASSUME NEW d \in Daemons, Sigterm(d) PROVE TimerInv'
  BY <1>14 DEF Sigterm, Go
<1>15. ASSUME NEW d \in Daemons, Fire(d) PROVE TimerInv'
  BY <1>15 DEF Fire, Live
<1>16. ASSUME NEW d \in Daemons, NEW r \in Threads, Accept(d, r) PROVE TimerInv'
  BY <1>16 DEF Accept
<1>17. ASSUME NEW r \in Threads, CancelOld(r) PROVE TimerInv'
  BY <1>17, HostIs DEF CancelOld
<1>18. ASSUME NEW r \in Threads, MakeNew(r) PROVE TimerInv'
  BY <1>18, HostIs DEF MakeNew
<1>19. ASSUME NEW r \in Threads, StartNew(r) PROVE TimerInv'
  BY <1>19, HostIs DEF StartNew
<1>20. ASSUME NEW r \in Threads, StartTwice(r) PROVE TimerInv'
  BY <1>20 DEF StartTwice
<1>21. ASSUME NEW r \in Threads, Enter(r) PROVE TimerInv'
  BY <1>21 DEF Enter
<1>22. ASSUME NEW r \in Threads, Answer(r) PROVE TimerInv'
  BY <1>22 DEF Answer
<1>23. ASSUME NEW m \in Mcps, McpOpen(m) \/ McpUnlocked(m) PROVE TimerInv'
  BY <1>23 DEF McpOpen, McpUnlocked, Go
<1>24. ASSUME NEW m \in Mcps, McpLock(m) \/ McpLockedOut(m) \/ McpEnd(m) PROVE TimerInv'
  BY <1>24 DEF McpLock, McpLockedOut, McpEnd, Go
<1>25. CASE UNCHANGED vars
  BY <1>25 DEF vars
<1> QED BY <1>1, <1>2, <1>3, <1>4, <1>5, <1>6, <1>7, <1>8, <1>9, <1>10, <1>11, <1>12, <1>13, <1>14, <1>15, <1>16, <1>17, <1>18, <1>19, <1>20, <1>21, <1>22, <1>23, <1>24, <1>25, Steps

THEOREM Invariance == Spec => []IInv
<1>1. Init => IInv
  BY InitIInv
<1>2. IInv /\ [Next]_vars => IInv'
  BY TypeStep, LockStep, HostStep, TimerStep DEF IInv
<1> QED BY <1>1, <1>2, PTL DEF Spec

(* The variables keep their types, in every step of every process.         *)
THEOREM TypeCorrect == Spec => []TypeOK
<1>1. IInv => TypeOK
  BY DEF IInv
<1> QED BY <1>1, Invariance, PTL

(* Two services work on a brain directory at once only if one is an MCP    *)
(* server that could not use the lock, or a daemon that is leaving, while  *)
(* a request that its shutdown did not wait for outlives its lock.         *)
THEOREM OneServiceHolds == Spec => []OneService
<1>1. IInv => OneService
  <2> SUFFICES ASSUME IInv, NEW s \in Services, NEW t \in Services, s # t, Working(s), Working(t),
                      life[s] \notin {"bare", "exit"}, life[t] \notin {"bare", "exit"}
               PROVE  FALSE
    BY DEF OneService
  <2>1. ASSUME NEW u \in Services, Working(u), life[u] \notin {"bare", "exit"} PROVE lock = u
    BY <2>1 DEF IInv, LockInv, HostInv, Working, Services
  <2> QED BY <2>1
<1> QED BY <1>1, Invariance, PTL

(* The PID file names the daemon that serves, whatever starts and cleanups *)
(* went before.                                                            *)
THEOREM PidFileHolds == Spec => []PidFileLeads
<1>1. IInv => PidFileLeads
  BY DEF IInv
<1> QED BY <1>1, Invariance, PTL

(* However many requests race to reset it, a daemon that serves has a live *)
(* idle timer as soon as none of them is at it.                            *)
THEOREM StillArmedHolds == Spec => []StillArmed
<1>1. IInv => StillArmed
  BY DEF IInv, TimerInv, StillArmed, Live
<1> QED BY <1>1, Invariance, PTL

(* A SIGTERM that comes before the loop has ended hangs the daemon for     *)
(* good: it keeps the brain lock, whatever its timers and its requests do, *)
(* until its process is killed (shutdown() in the handler that start()     *)
(* registers).                                                             *)
THEOREM StuckForGood ==
    Spec => [][\A d \in Daemons :
                 life[d] = "stuck" => lock = d /\ (UNCHANGED <<lock, life[d]>> \/ Crash(d))]_vars
<1>1. ASSUME IInv, Next, NEW d \in Daemons, life[d] = "stuck"
      PROVE  lock = d /\ (UNCHANGED <<lock, life[d]>> \/ Crash(d))
  <2>1. TypeOK /\ lock = d /\ \A c \in Daemons \ {d} : life[c] \in {"off", "exit"}
    <3>1. \A c \in Daemons : life[c] \notin {"off", "exit"} => lock = c
      BY <1>1 DEF IInv, LockInv, Services
    <3> QED BY <1>1, <3>1 DEF IInv, Services
  <2> USE <1>1, <2>1 DEF TypeOK, Services, Go, mainVars, timerVars, reqVars
  <2>2. ASSUME NEW c \in Daemons,
               \/ Acquire(c) \/ Drained(c) \/ Bind(c) \/ WritePid(c) \/ Arm(c) \/ Serve(c)
               \/ StartFails(c) \/ LoopEnds(c) \/ CancelTimer(c) \/ Unlink(c) \/ Unlock(c)
        PROVE  FALSE
    BY <2>2 DEF Acquire, Drained, Bind, WritePid, Arm, Serve, StartFails, LoopEnds, CancelTimer, Unlink, Unlock
  <2>3. ASSUME NEW c \in Daemons, Exit(c) \/ Crash(c) \/ Sigterm(c) \/ Fire(c)
        PROVE  UNCHANGED <<lock, life[d]>> \/ Crash(d)
    BY <2>3 DEF Exit, Crash, Gone, Sigterm, Fire
  <2>4. ASSUME NEW r \in Threads,
               \/ CancelOld(r) \/ MakeNew(r) \/ StartNew(r) \/ StartTwice(r) \/ Enter(r) \/ Answer(r)
               \/ \E c \in Daemons : Accept(c, r)
        PROVE  UNCHANGED <<lock, life[d]>>
    BY <2>4 DEF CancelOld, MakeNew, StartNew, StartTwice, Enter, Answer, Accept
  <2>5. ASSUME NEW m \in Mcps,
               McpOpen(m) \/ McpLock(m) \/ McpLockedOut(m) \/ McpUnlocked(m) \/ McpEnd(m)
        PROVE  UNCHANGED <<lock, life[d]>>
    <3>1. m \in Services /\ d \in Services /\ m # d /\ lock # None /\ lock # m BY <2>5
    <3> QED BY <2>5, <3>1 DEF McpOpen, McpLock, McpLockedOut, McpUnlocked, McpEnd
  <2> QED BY <2>2, <2>3, <2>4, <2>5, Steps
<1>2. IInv /\ [Next]_vars =>
        [\A d \in Daemons :
           life[d] = "stuck" => lock = d /\ (UNCHANGED <<lock, life[d]>> \/ Crash(d))]_vars
  BY <1>1
<1> QED BY <1>2, Invariance, PTL DEF Spec
=============================================================================
