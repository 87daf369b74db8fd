-------------------------------- MODULE Daemon --------------------------------
(***************************************************************************)
(* The services of a brain directory: the HTTP daemon (daemon.py), with    *)
(* its start, request threads, idle timer, SIGTERM and cleanup, and the    *)
(* MCP server (mcp_server.py).  Both take the brain lock (_brain_lock.py), *)
(* which the system frees when its process ends.                           *)
(*                                                                         *)
(* The server loop is the standard library's: shutdown() asks the loop to  *)
(* end and waits until it has, and a signal handler runs in the main       *)
(* thread, the one that runs the loop.  A timer that is started, and not   *)
(* cancelled, is due at some time, no matter when.  What a request does to *)
(* the brain is for the other modules; here it holds _brain_lock meanwhile.*)
(***************************************************************************)
EXTENDS Naturals

CONSTANTS Daemons,        \* daemon processes
          Mcps,           \* MCP server processes
          Threads,        \* request threads
          None,           \* no process
          MaxRequests     \* bound: requests accepted in a behaviour

Services == Daemons \cup Mcps

ASSUME DaemonAssumption ==
    /\ Daemons \cap Mcps = {} /\ None \notin Services /\ MaxRequests \in Nat

VARIABLES
    lock,                 \* the holder of .brain.lock
    pidfile,              \* the daemon the PID file names
    life,                 \* per service: where its main thread is
    asked, ended,         \* per daemon: shutdown was asked for; its loop has ended
    made, timer,          \* per daemon: timers made so far, the one in _idle_timer
    started, over,        \* per daemon: timers started; timers cancelled or fired
    at, host,             \* per request thread: its place and its daemon
    accepted              \* requests so far

mainVars  == <<lock, pidfile, life, asked, ended>>
timerVars == <<made, timer, started, over>>
reqVars   == <<at, host, accepted>>
vars      == <<mainVars, timerVars, reqVars>>

Live(d) == started[d] \ over[d]

Init ==
    /\ lock = None /\ pidfile = None /\ life = [s \in Services |-> "off"]
    /\ asked = [d \in Daemons |-> FALSE] /\ ended = [d \in Daemons |-> FALSE]
    /\ made = [d \in Daemons |-> 0] /\ timer = [d \in Daemons |-> 0]
    /\ started = [d \in Daemons |-> {}] /\ over = [d \in Daemons |-> {}]
    /\ at = [r \in Threads |-> "off"] /\ host = [r \in Threads |-> None] /\ accepted = 0

Go(s, to) == life' = [life EXCEPT ![s] = to]
-----------------------------------------------------------------------------
(* start(): the lock first, without waiting for it.                        *)
Acquire(d) ==
    /\ life[d] = "off" /\ lock = None
    /\ lock' = d
    /\ Go(d, "drain")
    /\ UNCHANGED <<pidfile, asked, ended, timerVars, reqVars>>

\* The startup drain of sync_queue comes back, whatever came of it.
Drained(d) ==
    /\ life[d] = "drain"
    /\ Go(d, "bind")
    /\ UNCHANGED <<lock, pidfile, asked, ended, timerVars, reqVars>>

Bind(d) ==
    /\ life[d] = "bind"
    /\ Go(d, "pid")
    /\ UNCHANGED <<lock, pidfile, asked, ended, timerVars, reqVars>>

WritePid(d) ==
    /\ life[d] = "pid"
    /\ pidfile' = d
    /\ Go(d, "arm")
    /\ UNCHANGED <<lock, asked, ended, timerVars, reqVars>>

\* From here on SIGTERM is handled.  The first idle timer.
Arm(d) ==
    /\ life[d] = "arm"
    /\ made' = [made EXCEPT ![d] = 1] /\ timer' = [timer EXCEPT ![d] = 1]
    /\ started' = [started EXCEPT ![d] = {1}]
    /\ Go(d, "pool")
    /\ UNCHANGED <<lock, pidfile, asked, ended, over, reqVars>>

\* The worker pool is up, serve_forever begins.
Serve(d) ==
    /\ life[d] = "pool"
    /\ Go(d, "serve")
    /\ UNCHANGED <<lock, pidfile, asked, ended, timerVars, reqVars>>

\* No port, no PID file, no database: start() cleans up and raises.
StartFails(d) ==
    /\ life[d] \in {"bind", "pid", "pool"}
    /\ Go(d, "cancel")
    /\ UNCHANGED <<lock, pidfile, asked, ended, timerVars, reqVars>>

\* serve_forever sees that it was asked to end.
LoopEnds(d) ==
    /\ life[d] = "serve" /\ asked[d]
    /\ asked' = [asked EXCEPT ![d] = FALSE] /\ ended' = [ended EXCEPT ![d] = TRUE]
    /\ Go(d, "cancel")
    /\ UNCHANGED <<lock, pidfile, timerVars, reqVars>>

(* _cleanup: the timer is cancelled and the pool stopped, then the PID     *)
(* file is removed, then the lock.  Requests that are under way go on.     *)
\* MUTANT: the test for a timer is gone.
CancelTimerBlind(d) ==
    /\ life[d] = "cancel"
    /\ over' = [over EXCEPT ![d] = @ \cup {timer[d]}]
    /\ Go(d, "unlink")
    /\ UNCHANGED <<lock, pidfile, asked, ended, made, timer, started, reqVars>>

CancelTimer(d) ==
    /\ life[d] = "cancel"
    /\ over' = IF timer[d] = 0 THEN over ELSE [over EXCEPT ![d] = @ \cup {timer[d]}]
    /\ Go(d, "unlink")
    /\ UNCHANGED <<lock, pidfile, asked, ended, made, timer, started, reqVars>>

Unlink(d) ==
    /\ life[d] = "unlink"
    /\ pidfile' = None
    /\ Go(d, "unlock")
    /\ UNCHANGED <<lock, asked, ended, timerVars, reqVars>>

Unlock(d) ==
    /\ life[d] = "unlock"
    /\ lock' = None
    /\ Go(d, "exit")
    /\ UNCHANGED <<pidfile, asked, ended, timerVars, reqVars>>

\* The process is gone, its threads and timers with it.
Gone(d) ==
    /\ Go(d, "off")
    /\ asked' = [asked EXCEPT ![d] = FALSE] /\ ended' = [ended EXCEPT ![d] = FALSE]
    /\ made' = [made EXCEPT ![d] = 0] /\ timer' = [timer EXCEPT ![d] = 0]
    /\ started' = [started EXCEPT ![d] = {}] /\ over' = [over EXCEPT ![d] = {}]
    /\ at' = [r \in Threads |-> IF host[r] = d THEN "off" ELSE at[r]]
    /\ host' = [r \in Threads |-> IF host[r] = d THEN None ELSE host[r]]
    /\ UNCHANGED accepted

\* MUTANT: the PID file is removed when the process exits.
ExitUnlinks(d) ==
    /\ life[d] = "exit"
    /\ Gone(d)
    /\ pidfile' = None
    /\ UNCHANGED lock

Exit(d) ==
    /\ life[d] = "exit"
    /\ Gone(d)
    /\ UNCHANGED <<lock, pidfile>>

Crash(d) ==
    /\ life[d] # "off"
    /\ Gone(d)
    /\ lock' = IF lock = d THEN None ELSE lock
    /\ UNCHANGED pidfile

(* SIGTERM.  The handler calls shutdown() in the main thread, which waits  *)
(* there for a loop that it has interrupted, or that is never to begin; it *)
(* comes back at once if the loop has ended.  Earlier, and once the        *)
(* process is leaving, a signal is a crash.                                *)
Sigterm(d) ==
    /\ \/ life[d] \in {"arm", "pool", "serve"}
       \/ life[d] \in {"cancel", "unlink", "unlock"} /\ timer[d] # 0
    /\ asked' = [asked EXCEPT ![d] = TRUE]
    /\ IF ended[d] THEN UNCHANGED life ELSE Go(d, "stuck")
    /\ UNCHANGED <<lock, pidfile, ended, timerVars, reqVars>>

\* MUTANT: the idle shutdown gives up the lock itself.
FireReleases(d) ==
    /\ \E k \in Live(d) : over' = [over EXCEPT ![d] = @ \cup {k}]
    /\ asked' = [asked EXCEPT ![d] = TRUE]
    /\ lock' = IF lock = d THEN None ELSE lock
    /\ UNCHANGED <<pidfile, life, ended, made, timer, started, reqVars>>

\* MUTANT: no idle shutdown while a request is under way.
FireUnlessBusy(d) ==
    /\ \E k \in Live(d) : over' = [over EXCEPT ![d] = @ \cup {k}]
    /\ asked' = [asked EXCEPT ![d] = @ \/ \A r \in Threads : host[r] # d]
    /\ UNCHANGED <<lock, pidfile, life, ended, made, timer, started, reqVars>>

(* _idle_shutdown, in the timer's thread, which then waits for the loop.   *)
Fire(d) ==
    /\ \E k \in Live(d) : over' = [over EXCEPT ![d] = @ \cup {k}]
    /\ asked' = [asked EXCEPT ![d] = TRUE]
    /\ UNCHANGED <<lock, pidfile, life, ended, made, timer, started, reqVars>>
-----------------------------------------------------------------------------
(* A request, in a thread of its own, resets the idle timer first: cancel  *)
(* the one there is, put a new one in its place, start what is there.      *)
Accept(d, r) ==
    /\ life[d] = "serve" /\ at[r] = "off" /\ accepted < MaxRequests
    /\ at' = [at EXCEPT ![r] = "cancel"] /\ host' = [host EXCEPT ![r] = d]
    /\ accepted' = accepted + 1
    /\ UNCHANGED <<mainVars, timerVars>>

CancelOld(r) ==
    /\ at[r] = "cancel"
    /\ over' = [over EXCEPT ![host[r]] = @ \cup {timer[host[r]]}]
    /\ at' = [at EXCEPT ![r] = "make"]
    /\ UNCHANGED <<mainVars, made, timer, started, host, accepted>>

\* MUTANT: a timer that is there is kept.
MakeFirst(r) ==
    /\ at[r] = "make"
    /\ IF timer[host[r]] # 0 THEN UNCHANGED <<made, timer>>
       ELSE /\ made' = [made EXCEPT ![host[r]] = @ + 1]
            /\ timer' = [timer EXCEPT ![host[r]] = made[host[r]] + 1]
    /\ at' = [at EXCEPT ![r] = "start"]
    /\ UNCHANGED <<mainVars, started, over, host, accepted>>

MakeNew(r) ==
    /\ at[r] = "make"
    /\ made' = [made EXCEPT ![host[r]] = @ + 1]
    /\ timer' = [timer EXCEPT ![host[r]] = made[host[r]] + 1]
    /\ at' = [at EXCEPT ![r] = "start"]
    /\ UNCHANGED <<mainVars, started, over, host, accepted>>

StartNew(r) ==
    /\ at[r] = "start" /\ timer[host[r]] \notin started[host[r]]
    /\ started' = [started EXCEPT ![host[r]] = @ \cup {timer[host[r]]}]
    /\ at' = [at EXCEPT ![r] = "call"]
    /\ UNCHANGED <<mainVars, made, timer, over, host, accepted>>

\* Another request has started it already: RuntimeError, and no answer.
StartTwice(r) ==
    /\ at[r] = "start" /\ timer[host[r]] \in started[host[r]]
    /\ at' = [at EXCEPT ![r] = "off"] /\ host' = [host EXCEPT ![r] = None]
    /\ UNCHANGED <<mainVars, timerVars, accepted>>

\* The handler, under _brain_lock.
Enter(r) ==
    /\ at[r] = "call" /\ \A q \in Threads : host[q] = host[r] => at[q] # "inside"
    /\ at' = [at EXCEPT ![r] = "inside"]
    /\ UNCHANGED <<mainVars, timerVars, host, accepted>>

Answer(r) ==
    /\ at[r] = "inside"
    /\ at' = [at EXCEPT ![r] = "off"] /\ host' = [host EXCEPT ![r] = None]
    /\ UNCHANGED <<mainVars, timerVars, accepted>>

Request(r) == CancelOld(r) \/ MakeNew(r) \/ StartNew(r) \/ StartTwice(r) \/ Enter(r) \/ Answer(r)
-----------------------------------------------------------------------------
(* run_server.  The brain is opened, made if it is not there, before the   *)
(* lock is asked for.  (If it cannot be opened, every call of a tool is    *)
(* answered with an error until the client goes.)                          *)
McpOpen(m) ==
    /\ life[m] = "off"
    /\ Go(m, "open")
    /\ UNCHANGED <<lock, pidfile, asked, ended, timerVars, reqVars>>

McpLock(m) ==
    /\ life[m] = "open" /\ lock = None
    /\ lock' = m
    /\ Go(m, "serve")
    /\ UNCHANGED <<pidfile, asked, ended, timerVars, reqVars>>

\* BrainLockedError is raised again.
McpLockedOut(m) ==
    /\ life[m] = "open" /\ lock # None
    /\ Go(m, "off")
    /\ UNCHANGED <<lock, pidfile, asked, ended, timerVars, reqVars>>

\* The lock's file cannot be opened or its owner written: the error is logged,
\* and the brain, which is open, is served without the lock.
McpUnlocked(m) ==
    /\ life[m] = "open"
    /\ Go(m, "bare")
    /\ UNCHANGED <<lock, pidfile, asked, ended, timerVars, reqVars>>

\* End of input, a shutdown message, or the process is killed.
McpEnd(m) ==
    /\ life[m] \in {"open", "serve", "bare"}
    /\ lock' = IF lock = m THEN None ELSE lock
    /\ Go(m, "off")
    /\ UNCHANGED <<pidfile, asked, ended, timerVars, reqVars>>

Mcp(m) == McpOpen(m) \/ McpLock(m) \/ McpLockedOut(m) \/ McpUnlocked(m) \/ McpEnd(m)

Main(d) ==
    \/ Drained(d) \/ Bind(d) \/ WritePid(d) \/ Arm(d) \/ Serve(d) \/ StartFails(d)
    \/ LoopEnds(d) \/ CancelTimer(d) \/ Unlink(d) \/ Unlock(d) \/ Exit(d)

Next ==
    \/ \E d \in Daemons : Acquire(d) \/ Main(d) \/ Crash(d) \/ Sigterm(d) \/ Fire(d)
    \/ \E d \in Daemons, r \in Threads : Accept(d, r)
    \/ \E r \in Threads : Request(r)
    \/ \E m \in Mcps : Mcp(m)

Spec == Init /\ [][Next]_vars

\* The threads of a process are scheduled, its timers fall due.
FairSpec ==
    /\ Spec
    /\ \A d \in Daemons : WF_vars(Main(d)) /\ WF_vars(Fire(d))
    /\ \A r \in Threads : WF_vars(Request(r))
-----------------------------------------------------------------------------
TypeOK ==
    /\ lock \in Services \cup {None} /\ pidfile \in Daemons \cup {None}
    /\ life \in [Services -> {"off", "drain", "bind", "pid", "arm", "pool", "serve", "cancel",
                              "unlink", "unlock", "exit", "stuck", "open", "bare"}]
    /\ asked \in [Daemons -> BOOLEAN] /\ ended \in [Daemons -> BOOLEAN]
    /\ made \in [Daemons -> Nat] /\ timer \in [Daemons -> Nat]
    /\ started \in [Daemons -> SUBSET Nat] /\ over \in [Daemons -> SUBSET Nat]
    /\ at \in [Threads -> {"off", "cancel", "make", "start", "call", "inside"}]
    /\ host \in [Threads -> Daemons \cup {None}] /\ accepted \in 0..MaxRequests
    /\ \A d \in Daemons : timer[d] <= made[d] /\ started[d] \cup over[d] \subseteq 1..made[d]

(* A service that works on the brain: it serves a client, or a request of  *)
(* its is inside.  (Opening a brain is not meant: every program that uses  *)
(* one does that, and takes no service lock for it.)                       *)
Working(s) ==
    \/ s \in Mcps /\ life[s] \in {"serve", "bare"}
    \/ s \in Daemons /\ \/ life[s] \in {"drain", "serve"}
                        \/ \E r \in Threads : host[r] = s /\ at[r] = "inside"

(* One service per brain directory, for all the starts, crashes and        *)
(* shutdowns.  Two work on it at the same time in two cases only: one is   *)
(* an MCP server that an error other than BrainLockedError has left        *)
(* without the lock, or a daemon whose cleanup is over but for a request   *)
(* that it did not wait for.                                               *)
OneService ==
    \A s, t \in Services :
        s # t /\ Working(s) /\ Working(t) => {life[s], life[t]} \cap {"bare", "exit"} # {}

(* What the MCP server takes the lock "for the duration of run_server()"   *)
(* for: the client it serves has the brain to itself, but for requests     *)
(* that outlive a daemon's cleanup.                                        *)
McpServesAlone ==
    \A m \in Mcps, s \in Services :
        s # m /\ Working(m) /\ Working(s) => life[s] = "exit"

(* The PID file leads to the daemon that serves: neither the cleanup of an *)
(* earlier one nor a start that fails takes it away.                       *)
PidFileLeads ==
    \A d \in Daemons : life[d] \in {"arm", "pool", "serve"} => pidfile = d

(* Resets that race leave timers nobody can cancel, but never none: when   *)
(* no request is resetting it, the timer that is in place will fire.       *)
StillArmed ==
    \A d \in Daemons :
      /\ life[d] = "serve" /\ ~asked[d]
      /\ \A r \in Threads : host[r] = d => at[r] \in {"call", "inside"}
      => timer[d] \in Live(d)

(* Once requests cease, a daemon that serves shuts down and gives up the   *)
(* lock, unless a SIGTERM has come.                                        *)
QuietDaemonStops ==
    \A d \in Daemons : life[d] = "serve" ~> lock # d \/ life[d] = "stuck"

(* What registering SIGTERM is for: "cleanly shut down the daemon".        *)
TermStops ==
    \A d \in Daemons : asked[d] ~> lock # d
=============================================================================
