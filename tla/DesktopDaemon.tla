------------------------------- MODULE DesktopDaemon -------------------------------
(* runtime/daemon.py and the tool handlers of runtime/mcp/tools/lifecycle.py: the *)
(* programs that drive the session manager.  One coroutine per session launches   *)
(* (or attaches to) its target, creates the session, connects its webview core    *)
(* and activates it; maintenance cycles prune leases and sweep dead targets;      *)
(* shutdown closes everything.  They meet at the manager's lock (SessionManager), *)
(* the bridge's lock and the shutdown lock.                                       *)
(*                                                                                *)
(* "current" is the coroutine asyncio is running: between two suspensions of it   *)
(* no other coroutine takes a step, however many operations it calls.             *)
EXTENDS SessionStates, Integers, Sequences

CONSTANTS
  Sessions,       \* one per call of desktop_launch or desktop_attach
  NoSession,
  Maintainers,    \* coroutines that call run_maintenance_cycle
  Stoppers,       \* coroutines that call shutdown
  NoTask,
  LeaseTimeout,
  MaxTime,        \* bound of the clock
  PidReuse,       \* whether the system may give a dead target's pid away
  JobFailure,     \* whether the system may refuse a job object
  Kinds           \* of the calls: TRUE is desktop_launch, FALSE desktop_attach

Tasks == Sessions \cup Maintainers \cup Stoppers

(* Coroutines of one kind are not of another.                                     *)
ASSUME DaemonAssumption ==
  /\ NoTask \notin Tasks /\ NoSession \notin Sessions
  /\ Sessions \cap Maintainers = {} /\ Sessions \cap Stoppers = {}
  /\ Maintainers \cap Stoppers = {}
  /\ {LeaseTimeout, MaxTime} \subseteq Nat
  /\ {PidReuse, JobFailure} \subseteq BOOLEAN /\ Kinds \subseteq BOOLEAN

CloseReasons == {"target_process_exited", "daemon_shutdown"}

VARIABLES
  life, conn, core, hb, reason, clock, holder, waiters, call, ret,  \* SessionManager
  daemon,    \* DesktopDaemon.state
  current,   \* the coroutine that runs, or NoTask
  pc,        \* where each coroutine is
  todo,      \* the sessions a sweep or a shutdown has listed and not yet handled
  target,    \* sessions whose target_process is set
  at,        \* whose process it is: its own, or that of another session's call
  proc,      \* the process a call was the first to name: "none", "alive", "dead", "recycled"
  launched,  \* the processes this daemon has launched
  jobs,      \* those of them that are in their job object
  external,  \* those whose record is an attached one
  bridge,    \* holder of RuntimeBridge._lock
  stopper    \* holder of DesktopDaemon._shutdown_lock

managerVars == <<life, conn, core, hb, reason, clock, holder, waiters, call, ret>>
procVars == <<at, proc, launched, jobs, external>>
daemonVars == <<daemon, current, pc, todo, target, procVars, bridge, stopper>>
vars == <<managerVars, daemonVars>>

M == INSTANCE SessionManager

DaemonStates == {"UNINITIALIZED", "INITIALIZING", "RUNNING", "SHUTTING_DOWN", "STOPPED"}

TypeOK ==
  /\ M!TypeOK
  /\ daemon \in DaemonStates
  /\ current \in Tasks \cup {NoTask}
  /\ pc \in [Tasks -> {"idle", "creating", "discovering", "binding", "bound", "connecting",
                       "activating", "observing", "failed", "done", "pruning", "listing", "sweeping",
                       "counting"}]
  /\ todo \in [Maintainers \cup Stoppers -> SUBSET Sessions]
  /\ target \in SUBSET Sessions
  /\ proc \in [Sessions -> {"none", "alive", "dead", "recycled"}]
  /\ at \in [Sessions -> Sessions]
  /\ launched \subseteq Sessions /\ jobs \subseteq launched /\ external \subseteq Sessions
  /\ bridge \in Sessions \cup {NoTask}
  /\ stopper \in Stoppers \cup {NoTask}

Init ==
  /\ M!Init
  /\ daemon = "UNINITIALIZED"
  /\ current = NoTask
  /\ pc = [t \in Tasks |-> "idle"]
  /\ todo = [t \in Maintainers \cup Stoppers |-> {}]
  /\ target = {}
  /\ proc = [s \in Sessions |-> "none"]
  /\ at = [s \in Sessions |-> s]
  /\ launched = {} /\ jobs = {} /\ external = {}
  /\ bridge = NoTask
  /\ stopper = NoTask

--------------------------------------------------------------------------------
(* Scheduling.                                                                    *)

(* t may take a step: it is running, or it was suspended and the loop resumes it. *)
Runs(t) == current = t
Resumes(t) == current = NoTask

(* An "await" of an operation of the manager: t goes on without a suspension when *)
(* the operation is over, and leaves the loop to others when it is not.           *)
Await(t, op, s, why) ==
  LET c == M!Request(op, s, why)
  IN  /\ M!CallUnknown(t, c) \/ M!CallFree(t, c) \/ M!CallQueue(t, c)
      /\ current' = IF call'[t] = M!Idle THEN t ELSE NoTask

Goto(t, where) == pc' = [pc EXCEPT ![t] = where]
Suspend == current' = NoTask

(* The loop wakes the first waiter of the manager's lock, or the close_session    *)
(* whose core has disconnected.                                                   *)
Wake(t) ==
  /\ Resumes(t)
  /\ M!Grant(t) \/ M!FinishClose(t)
  /\ current' = IF call'[t] = M!Idle THEN t ELSE NoTask
  /\ UNCHANGED <<daemon, pc, todo, target, procVars, bridge, stopper>>

(* t is running and its last operation is over.                                   *)
Back(t, where) == Runs(t) /\ call[t] = M!Idle /\ pc[t] = where

--------------------------------------------------------------------------------
(* desktop_launch and desktop_attach.                                             *)

(* DesktopDaemon.initialize, at the start of every tool call.                     *)
Initialize ==
  /\ current = NoTask
  /\ daemon = "UNINITIALIZED"
  /\ daemon' = "RUNNING"
  /\ UNCHANGED <<managerVars, current, pc, todo, target, procVars, bridge, stopper>>

(* launch_process records the new process as the daemon's and puts it into a job   *)
(* object, unless creating the job or the assignment fails, which is ignored;      *)
(* register_external_process makes whatever record there is an external one, and   *)
(* leaves the job.                                                                 *)
Supervise(s, p, own) ==
  IF own
  THEN /\ p = s
       /\ launched' = launched \cup {p} /\ jobs' \in {jobs \cup {p}} \cup (IF JobFailure THEN {jobs} ELSE {})
       /\ UNCHANGED external
  ELSE /\ p = s \/ proc[p] = "alive"
       /\ external' = external \cup {p}
       /\ UNCHANGED <<launched, jobs>>

(* Mutant: the daemon's state is not checked.                                      *)
LaunchUnchecked(s, own) ==
  /\ Resumes(s) /\ pc[s] = "idle"
  /\ \E p \in Sessions :
       /\ Supervise(s, p, own)
       /\ at' = [at EXCEPT ![s] = p]
       /\ proc' = [proc EXCEPT ![p] = "alive"]
  /\ Goto(s, "creating")
  /\ Await(s, "create", s, "daemon_shutdown")
  /\ UNCHANGED <<daemon, todo, target, bridge, stopper>>

(* launch_target (own) or attach_target_process up to create_session: the daemon   *)
(* must be RUNNING; the process starts, or is attached to, in the same step.  An   *)
(* attach may name a process that was launched or attached to before.              *)
Launch(s, own) ==
  /\ Resumes(s) /\ pc[s] = "idle" /\ daemon = "RUNNING"
  /\ \E p \in Sessions :
       /\ Supervise(s, p, own)
       /\ at' = [at EXCEPT ![s] = p]
       /\ proc' = [proc EXCEPT ![p] = "alive"]
  /\ Goto(s, "creating")
  /\ Await(s, "create", s, "daemon_shutdown")
  /\ UNCHANGED <<daemon, todo, target, bridge, stopper>>

(* correlate_process finds that the process is already gone, or correlate_window   *)
(* that the window is not its: what was supervised stays so, without a session.    *)
LaunchFails(s, own) ==
  /\ Resumes(s) /\ pc[s] = "idle" /\ daemon = "RUNNING"
  /\ \E p \in Sessions :
       /\ Supervise(s, p, own)
       /\ \/ p = s /\ proc' = [proc EXCEPT ![p] = "dead"]
          \/ ~own /\ proc' = [proc EXCEPT ![p] = "alive"]
  /\ Goto(s, "failed") /\ Suspend
  /\ UNCHANGED <<managerVars, daemon, todo, target, at, bridge, stopper>>

(* The daemon does not run, or the process cannot be started.                      *)
LaunchRefused(s) ==
  /\ Resumes(s) /\ pc[s] = "idle" /\ daemon \in {"RUNNING", "SHUTTING_DOWN", "STOPPED"}
  /\ Goto(s, "failed") /\ Suspend
  /\ UNCHANGED <<managerVars, daemon, todo, target, procVars, bridge, stopper>>

(* The rest of launch_target, and the probe for a window, which sleeps.           *)
Created(s) ==
  /\ Back(s, "creating")
  /\ target' = target \cup {s}
  /\ Goto(s, "discovering") /\ Suspend
  /\ UNCHANGED <<managerVars, daemon, todo, procVars, bridge, stopper>>

(* initialize_session_engines: under the bridge's lock, wait for core.connect().  *)
BeginBind(s) ==
  /\ Resumes(s) /\ pc[s] = "discovering"
  /\ bridge = NoTask
  /\ bridge' = s
  /\ Goto(s, "binding") /\ Suspend
  /\ UNCHANGED <<managerVars, daemon, todo, target, procVars, stopper>>

(* Mutant: a failed connect leaves the bridge locked.                             *)
EndBindKeepsLock(s) ==
  /\ Resumes(s) /\ pc[s] = "binding"
  /\ Goto(s, "bound") /\ current' = s
  /\ \/ M!BindCore(s) /\ bridge' = NoTask
     \/ UNCHANGED managerVars /\ UNCHANGED bridge
  /\ UNCHANGED <<daemon, todo, target, procVars, stopper>>

(* The core is connected and bound, or there is no debugging port, no target or   *)
(* an error, which is logged: the session goes on without a core.                 *)
EndBind(s) ==
  /\ Resumes(s) /\ pc[s] = "binding"
  /\ bridge' = NoTask
  /\ Goto(s, "bound") /\ current' = s
  /\ \/ M!BindCore(s)
     \/ UNCHANGED managerVars
  /\ UNCHANGED <<daemon, todo, target, procVars, stopper>>

(* The window has gone when its bounds are read, or an engine cannot be made: the  *)
(* tool reports the error and leaves the session as it is.                         *)
Stumble(s) ==
  /\ Resumes(s)
  /\ \/ pc[s] = "discovering" /\ UNCHANGED <<managerVars, bridge>>
     \/ pc[s] = "binding" /\ (M!BindCore(s) \/ UNCHANGED managerVars) /\ bridge' = NoTask
  /\ Goto(s, "failed") /\ Suspend
  /\ UNCHANGED <<daemon, todo, target, procVars, stopper>>

Connect(s) ==
  /\ Back(s, "bound")
  /\ Goto(s, "connecting")
  /\ Await(s, "connect", s, "daemon_shutdown")
  /\ UNCHANGED <<daemon, todo, target, procVars, bridge, stopper>>

(* Mutant: an error of connect_session is not noticed.                            *)
ActivateAnyway(s) ==
  /\ Back(s, "connecting")
  /\ Goto(s, "observing") /\ Suspend
  /\ UNCHANGED <<managerVars, daemon, todo, target, procVars, bridge, stopper>>

Activate(s) ==
  /\ Back(s, "connecting") /\ ret[s] = "ok"
  /\ Goto(s, "activating")
  /\ Await(s, "activate", s, "daemon_shutdown")
  /\ UNCHANGED <<daemon, todo, target, procVars, bridge, stopper>>

(* The initial observation awaits the page; its errors are swallowed.              *)
Observe(s) ==
  /\ Back(s, "activating") /\ ret[s] = "ok"
  /\ Goto(s, "observing") /\ Suspend
  /\ UNCHANGED <<managerVars, daemon, todo, target, procVars, bridge, stopper>>

(* The tool call answers: it reports success when no operation raised, without     *)
(* another look at the session, and every exception is mapped to an error.         *)
Answer(s) ==
  /\ \/ Resumes(s) /\ pc[s] = "observing" /\ Goto(s, "done")
     \/ Back(s, "activating") /\ ret[s] = "raised" /\ Goto(s, "failed")
     \/ Back(s, "connecting") /\ ret[s] = "raised" /\ Goto(s, "failed")
  /\ Suspend
  /\ UNCHANGED <<managerVars, daemon, todo, target, procVars, bridge, stopper>>

LaunchBegins(s) ==
  LaunchRefused(s) \/ \E own \in Kinds : Launch(s, own) \/ LaunchFails(s, own)
LaunchGoesOn(s) ==
  \/ Created(s) \/ BeginBind(s) \/ EndBind(s)
  \/ Connect(s) \/ Activate(s) \/ Observe(s) \/ Answer(s)
LaunchStep(s) == LaunchBegins(s) \/ LaunchGoesOn(s) \/ Stumble(s)

--------------------------------------------------------------------------------
(* run_maintenance_cycle.                                                         *)

BeginCycle(m) ==
  /\ Resumes(m) /\ pc[m] = "idle"
  /\ Goto(m, "pruning")
  /\ Await(m, "prune", NoSession, "target_process_exited")
  /\ UNCHANGED <<daemon, todo, target, procVars, bridge, stopper>>

ListForCycle(m) ==
  /\ Back(m, "pruning")
  /\ Goto(m, "listing")
  /\ Await(m, "list", NoSession, "target_process_exited")
  /\ UNCHANGED <<daemon, todo, target, procVars, bridge, stopper>>

(* list_active_sessions has just returned, in the same step of the loop.          *)
BeginSweep(m) ==
  /\ Back(m, "listing")
  /\ todo' = [todo EXCEPT ![m] = M!OpenSessions]
  /\ Goto(m, "sweeping")
  /\ UNCHANGED <<managerVars, daemon, current, target, procVars, bridge, stopper>>

(* verify_process_identity finds the process alive, or there is no process yet.   *)
SweepAlive(m, s) ==
  /\ Back(m, "sweeping") /\ s \in todo[m]
  /\ s \notin target \/ proc[at[s]] = "alive"
  /\ todo' = [todo EXCEPT ![m] = @ \ {s}]
  /\ UNCHANGED <<managerVars, daemon, current, pc, target, procVars, bridge, stopper>>

(* Mutants: the dead target is noted and its session left alone; the session is   *)
(* closed without the manager's lock.                                             *)
SweepDeadNoClose(m, s) ==
  /\ Back(m, "sweeping") /\ s \in todo[m]
  /\ s \in target /\ proc[at[s]] = "dead"
  /\ todo' = [todo EXCEPT ![m] = @ \ {s}]
  /\ UNCHANGED <<managerVars, daemon, current, pc, target, procVars, bridge, stopper>>

SweepDeadUnlocked(m, s) ==
  /\ Back(m, "sweeping") /\ s \in todo[m]
  /\ s \in target /\ proc[at[s]] = "dead"
  /\ todo' = [todo EXCEPT ![m] = @ \ {s}]
  /\ life' = [life EXCEPT ![s] = "CLOSED"]
  /\ UNCHANGED <<conn, core, hb, reason, clock, holder, waiters, call, ret>>
  /\ UNCHANGED <<daemon, current, pc, target, procVars, bridge, stopper>>

(* TargetExitedException: the session is closed.                                  *)
SweepDead(m, s) ==
  /\ Back(m, "sweeping") /\ s \in todo[m]
  /\ s \in target /\ proc[at[s]] = "dead"
  /\ todo' = [todo EXCEPT ![m] = @ \ {s}]
  /\ Await(m, "close", s, "target_process_exited")
  /\ UNCHANGED <<daemon, pc, target, procVars, bridge, stopper>>

(* The pid belongs to another process: TargetMismatchException, which the cycle   *)
(* does not catch, ends it.                                                       *)
SweepRecycled(m, s) ==
  /\ Back(m, "sweeping") /\ s \in todo[m]
  /\ s \in target /\ proc[at[s]] = "recycled"
  /\ todo' = [todo EXCEPT ![m] = {}]
  /\ Goto(m, "idle") /\ Suspend
  /\ UNCHANGED <<managerVars, daemon, target, procVars, bridge, stopper>>

CountActive(m) ==
  /\ Back(m, "sweeping") /\ todo[m] = {}
  /\ Goto(m, "counting")
  /\ Await(m, "list", NoSession, "target_process_exited")
  /\ UNCHANGED <<daemon, todo, target, procVars, bridge, stopper>>

EndCycle(m) ==
  /\ Back(m, "counting")
  /\ Goto(m, "idle") /\ Suspend
  /\ UNCHANGED <<managerVars, daemon, todo, target, procVars, bridge, stopper>>

MaintenanceStep(m) ==
  \/ ListForCycle(m) \/ BeginSweep(m) \/ CountActive(m) \/ EndCycle(m)
  \/ \E s \in Sessions : SweepAlive(m, s) \/ SweepDead(m, s) \/ SweepRecycled(m, s)

--------------------------------------------------------------------------------
(* shutdown.                                                                      *)

(* Under the shutdown lock; a second shutdown that finds the daemon STOPPED       *)
(* returns at once.                                                               *)
BeginShutdown(x) ==
  /\ Resumes(x) /\ pc[x] = "idle" /\ stopper = NoTask
  /\ daemon # "STOPPED"
  /\ stopper' = x
  /\ daemon' = "SHUTTING_DOWN"
  /\ Goto(x, "listing")
  /\ Await(x, "list", NoSession, "daemon_shutdown")
  /\ UNCHANGED <<todo, target, procVars, bridge>>

ShutdownAgain(x) ==
  /\ Resumes(x) /\ pc[x] = "idle" /\ stopper = NoTask
  /\ daemon = "STOPPED"
  /\ Goto(x, "done") /\ Suspend
  /\ UNCHANGED <<managerVars, daemon, todo, target, procVars, bridge, stopper>>

BeginClosing(x) ==
  /\ Back(x, "listing")
  /\ todo' = [todo EXCEPT ![x] = M!OpenSessions]
  /\ Goto(x, "sweeping")
  /\ UNCHANGED <<managerVars, daemon, current, target, procVars, bridge, stopper>>

CloseOne(x, s) ==
  /\ Back(x, "sweeping") /\ s \in todo[x]
  /\ todo' = [todo EXCEPT ![x] = @ \ {s}]
  /\ Await(x, "close", s, "daemon_shutdown")
  /\ UNCHANGED <<daemon, pc, target, procVars, bridge, stopper>>

(* Mutant: jobs are closed by way of the records only.                             *)
CleanupByRecord ==
  \E spared \in SUBSET (launched \ (external \cup jobs)) :
    proc' = [p \in Sessions |->
               IF proc[p] = "alive" /\ p \in (launched \ external) \ spared
               THEN "dead" ELSE proc[p]]

(* cleanup_all(kill_external=False): a process whose record is the daemon's own is *)
(* terminated, which may fail and is then logged; every job object left is closed, *)
(* which kills what is in it, whatever its record says.                            *)
Cleanup ==
  \E spared \in SUBSET (launched \ (external \cup jobs)) :
    proc' = [p \in Sessions |->
               IF proc[p] = "alive" /\ p \in (jobs \cup (launched \ external)) \ spared
               THEN "dead" ELSE proc[p]]

(* Mutant of the last step: the daemon's state is left at SHUTTING_DOWN.           *)
EndShutdownForgets(x) ==
  /\ Back(x, "sweeping") /\ todo[x] = {}
  /\ Cleanup
  /\ stopper' = NoTask
  /\ Goto(x, "done") /\ Suspend
  /\ UNCHANGED <<managerVars, daemon, todo, target, at, launched, jobs, external, bridge>>

(* Then the daemon is STOPPED.                                                     *)
EndShutdown(x) ==
  /\ Back(x, "sweeping") /\ todo[x] = {}
  /\ Cleanup
  /\ daemon' = "STOPPED"
  /\ stopper' = NoTask
  /\ Goto(x, "done") /\ Suspend
  /\ UNCHANGED <<managerVars, todo, target, at, launched, jobs, external, bridge>>

ShutdownStep(x) ==
  \/ BeginClosing(x) \/ EndShutdown(x)
  \/ \E s \in Sessions : CloseOne(x, s)

--------------------------------------------------------------------------------
(* The environment: targets exit, pids are reused, time passes.                   *)
TargetExits(s) ==
  /\ current = NoTask
  /\ proc[s] = "alive"
  /\ proc' = [proc EXCEPT ![s] = "dead"]
  /\ UNCHANGED <<managerVars, daemon, current, pc, todo, target, at, launched, jobs, external>>
  /\ UNCHANGED <<bridge, stopper>>

PidReused(s) ==
  /\ PidReuse
  /\ current = NoTask
  /\ proc[s] = "dead"
  /\ proc' = [proc EXCEPT ![s] = "recycled"]
  /\ UNCHANGED <<managerVars, daemon, current, pc, todo, target, at, launched, jobs, external>>
  /\ UNCHANGED <<bridge, stopper>>

TimePasses ==
  /\ current = NoTask
  /\ M!Tick
  /\ UNCHANGED daemonVars

Next ==
  \/ Initialize \/ TimePasses
  \/ \E t \in Tasks : Wake(t)
  \/ \E s \in Sessions : LaunchStep(s) \/ TargetExits(s) \/ PidReused(s)
  \/ \E m \in Maintainers : BeginCycle(m) \/ MaintenanceStep(m)
  \/ \E x \in Stoppers : BeginShutdown(x) \/ ShutdownAgain(x) \/ ShutdownStep(x)

Spec == Init /\ [][Next]_vars

(* The event loop's ready queue is first in first out, so a coroutine that can be  *)
(* resumed again and again is resumed (strong fairness; the manager's lock lets at *)
(* most one be woken at a time, the first in its queue), one that runs goes on,    *)
(* and every wait (a sleep, a connect, an observation, a disconnect) ends: all but *)
(* the write of a CDP command have a timeout, and that is assumed to drain.        *)
(* Nobody is obliged to call a tool or to run maintenance.                         *)
Fairness ==
  /\ SF_vars(\E t \in Tasks : Wake(t))
  /\ \A s \in Sessions : SF_vars(LaunchGoesOn(s))
  /\ \A m \in Maintainers : WF_vars(MaintenanceStep(m))
  /\ \A x \in Stoppers : WF_vars(ShutdownStep(x))

FairSpec == Spec /\ Fairness

--------------------------------------------------------------------------------
(* Properties.                                                                    *)

(* The daemon uses the session manager by its operations only: every behaviour of *)
(* the daemon is one of the open session manager, whose properties it inherits.   *)
RefinesSessionManager == M!Spec

(* No process that got into its job outlives the daemon: not one whose launch had  *)
(* passed the check of its state when the shutdown began, and not one that was     *)
(* attached to since and whose record no longer says that it was launched.         *)
StoppedKillsLaunched ==
  daemon = "STOPPED" => \A p \in jobs : proc[p] # "alive"

(* A shutdown leaves no session open, although a launch may be waiting for the    *)
(* manager's lock when it begins: the launch has passed the check of the daemon's *)
(* state, and its session is created before the shutdown's list is taken.         *)
StoppedClosesSessions == daemon = "STOPPED" => M!OpenSessions = {}

(* An application the daemon did not launch is never killed by it: its process     *)
(* only ends by itself, in a step no coroutine takes.                              *)
AttachedIsSpared ==
  \A p \in Sessions : (proc[p] = "alive" /\ proc'[p] # "alive" /\ p \notin launched)
    => UNCHANGED <<managerVars, daemon, pc>>

(* A shutdown leaves nothing of what is in a job and kills nothing it did not      *)
(* launch.                                                                         *)
KillsWhatItLaunched == [][StoppedKillsLaunched' /\ AttachedIsSpared]_vars

(* shutdown's docstring: it terminates "all ... child processes".  It does not     *)
(* hold of a process that is in no job: the kill may fail, or an attach have made  *)
(* its record external.                                                            *)
StoppedKillsAll == daemon = "STOPPED" => \A p \in launched : proc[p] # "alive"

(* A launch goes on to its initial observation only when its session is ACTIVE,    *)
(* connected and bound to a process, although others may have closed it at any of  *)
(* the suspensions on the way; and one that reports success has such a session, or *)
(* one that a coroutine has begun to close since then.                             *)
LaunchedIsActive ==
  [][\A s \in Sessions :
       /\ pc[s] # "observing" /\ pc'[s] = "observing" =>
            life[s] = "ACTIVE" /\ conn[s] = "CONNECTED" /\ s \in target
       /\ pc[s] # "done" /\ pc'[s] = "done" =>
            /\ s \in target
            /\ \/ life[s] = "ACTIVE" /\ conn[s] = "CONNECTED"
               \/ life[s] \in {"DISCONNECTING", "CLOSED"}]_vars

(* shutdown ends: once begun, the daemon becomes STOPPED, whatever launches and   *)
(* cycles hold the locks it needs.                                                *)
ShutdownCompletes == daemon = "SHUTTING_DOWN" ~> daemon = "STOPPED"

(* Every launch answers, with success or with an error.                           *)
EveryLaunchAnswers ==
  \A s \in Sessions : pc[s] # "idle" ~> pc[s] \in {"done", "failed"}

(* A maintenance cycle closes the session of every dead target it has listed; only *)
(* a reused pid, at which the cycle raises, keeps it from doing so.                *)
CycleClosesDead ==
  \A m \in Maintainers, s \in Sessions :
    pc[m] = "sweeping" /\ s \in todo[m] /\ s \in target /\ proc[at[s]] = "dead"
      ~> ~M!IsOpen(s) \/ \E r \in target : proc[at[r]] = "recycled"

(* run_maintenance_cycle's docstring: "Detects dead target processes and           *)
(* transitions sessions to FAILED or CLOSED."  It does not hold: nothing in the    *)
(* runtime runs the cycle periodically, and one ends at the first reused pid.      *)
DeadTargetSwept ==
  \A s \in Sessions :
    s \in target /\ proc[at[s]] \in {"dead", "recycled"} ~> ~M!IsOpen(s)

(* shutdown's docstring: "Gracefully terminates the daemon, all active sessions,  *)
(* transports, and child processes."  No webview transport of a session   *)
(* whose lease ran out is left open by a shutdown.                                *)
StoppedClosesTransports ==
  daemon = "STOPPED" => \A s \in Sessions : reason[s] = "lease_timeout" => core[s] # "connected"
==================================================================================
