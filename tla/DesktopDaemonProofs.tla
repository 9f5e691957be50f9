---------------------------- MODULE DesktopDaemonProofs ----------------------------
(* The daemon's programs implement the session manager, and a shutdown leaves     *)
(* nothing behind, for every number of launches, cycles and shutdowns.  "M" is    *)
(* the manager the daemon drives, "S" the same manager with what is proved of it. *)
EXTENDS DesktopDaemon, TLAPS

S == INSTANCE SessionManagerProofs

------------------------------------------------------------------------------------
(* The two instances are one manager.                                             *)
LEMMA ManagerAssumptions ==
  S!LeaseAssumption /\ S!NullAssumption /\ S!ReasonAssumption
  BY DaemonAssumption DEF S!LeaseAssumption, S!NullAssumption, S!ReasonAssumption, CloseReasons

LEMMA SameTypes == M!TypeOK <=> S!TypeOK
  BY DEF M!TypeOK, S!TypeOK, M!Time, S!Time, M!Calls, S!Calls, M!Ops, S!Ops, M!Marks, S!Marks,
         M!MarkTarget, S!MarkTarget, M!Sweeps, S!Sweeps, M!Idle, S!Idle, M!Absent, S!Absent,
         M!CoreStates, S!CoreStates, M!LifecycleStates, S!LifecycleStates,
         M!ConnectionStates, S!ConnectionStates

LEMMA SameInit == M!Init <=> S!Init
  BY DEF M!Init, S!Init, M!Absent, S!Absent, M!Idle, S!Idle

LEMMA SameOpen == M!OpenSessions = S!OpenSessions
  BY DEF M!OpenSessions, S!OpenSessions, M!IsOpen, S!IsOpen, M!LifecycleStates,
         S!LifecycleStates, M!Terminal, S!Terminal

LEMMA SameCalls ==
  /\ M!Idle = S!Idle /\ M!Calls = S!Calls
  /\ \A op, s, why : M!Request(op, s, why) = S!Request(op, s, why)
  BY DEF M!Idle, S!Idle, M!Calls, S!Calls, M!Request, S!Request, M!Time, S!Time, M!Ops, S!Ops,
         M!Marks, S!Marks, M!MarkTarget, S!MarkTarget, M!Sweeps, S!Sweeps

LEMMA SameBody == \A t, c : M!Body(t, c) <=> S!Body(t, c)
  BY DEF M!Body, S!Body, M!Create, S!Create, M!Connect, S!Connect, M!Raise, S!Raise,
         M!Return, S!Return, M!Mark, S!Mark, M!MarkTarget, S!MarkTarget, M!Marks, S!Marks,
         M!Close, S!Close, M!MarkClosed, S!MarkClosed, M!Prune, S!Prune,
         M!OpenSessions, S!OpenSessions, M!Expired, S!Expired, M!IsOpen, S!IsOpen,
         M!Absent, S!Absent, M!Idle, S!Idle, M!CanTransition, S!CanTransition,
         M!LifecycleStates, S!LifecycleStates, M!Terminal, S!Terminal,
         M!NextStates, S!NextStates, M!Ends, S!Ends, M!Leave, S!Leave

LEMMA SameKnown == \A c : M!Known(c) <=> S!Known(c)
  BY DEF M!Known, S!Known, M!Ops, S!Ops, M!Marks, S!Marks, M!MarkTarget, S!MarkTarget,
         M!Sweeps, S!Sweeps, M!Absent, S!Absent

LEMMA SameAsking ==
  \A t, c : /\ M!CallUnknown(t, c) <=> S!CallUnknown(t, c)
            /\ M!CallFree(t, c) <=> S!CallFree(t, c)
            /\ M!CallQueue(t, c) <=> S!CallQueue(t, c)
  BY SameBody, SameKnown, SameCalls
     DEF M!CallUnknown, S!CallUnknown, M!CallFree, S!CallFree, M!CallQueue, S!CallQueue

LEMMA SameWaking ==
  \A t : /\ M!Grant(t) <=> S!Grant(t)
         /\ M!FinishClose(t) <=> S!FinishClose(t)
  BY SameBody DEF M!Grant, S!Grant, M!FinishClose, S!FinishClose, M!MarkClosed, S!MarkClosed,
         M!Return, S!Return, M!Idle, S!Idle, M!CanTransition, S!CanTransition,
         M!LifecycleStates, S!LifecycleStates, M!NextStates, S!NextStates, M!Ends, S!Ends,
         M!Leave, S!Leave, M!Terminal, S!Terminal

LEMMA SameRest ==
  /\ M!Tick <=> S!Tick
  /\ \A s : (M!BindCore(s) <=> S!BindCore(s)) /\ (M!Heartbeat(s) <=> S!Heartbeat(s))
  BY DEF M!Tick, S!Tick, M!BindCore, S!BindCore, M!Heartbeat, S!Heartbeat, M!Absent, S!Absent,
         M!IsOpen, S!IsOpen, M!LifecycleStates, S!LifecycleStates, M!Terminal, S!Terminal

LEMMA SameNext == [M!Next]_M!vars <=> [S!Next]_S!vars
<1>1. M!Ops = S!Ops /\ M!vars = S!vars
  BY DEF M!Ops, S!Ops, M!Marks, S!Marks, M!MarkTarget, S!MarkTarget, M!Sweeps, S!Sweeps,
         M!vars, S!vars
<1>2. M!Next <=> S!Next
  BY <1>1, SameCalls, SameAsking, SameWaking, SameRest DEF M!Next, S!Next
<1> QED
  BY <1>1, <1>2 DEF M!vars, S!vars

LEMMA SameSpec == M!Spec <=> S!Spec
  BY SameInit, SameNext, PTL DEF M!Spec, S!Spec

------------------------------------------------------------------------------------
(* The daemon's steps, seen from the manager.                                     *)
ManagerInv == S!IInv /\ S!LeaseInv

(* What "await manager.op(sid)" does.                                             *)
Asked(t, op, sid) ==
  /\ call[t] = S!Idle
  /\ current' = IF call'[t] = S!Idle THEN t ELSE NoTask
  /\ \E c \in S!Calls : c.op = op /\ c.sid = sid /\ S!Moved(t, c)

(* The operations the daemon awaits, and the session each names.                  *)
Askable(op, sid) ==
  \/ op \in {"create", "connect", "activate", "close"} /\ sid \in Sessions
  \/ op \in {"list", "prune"} /\ sid = NoSession

LEMMA AwaitAsks ==
  ASSUME ManagerInv, NEW t \in Tasks, NEW op, NEW sid, NEW why \in CloseReasons,
         Askable(op, sid), Await(t, op, sid, why)
  PROVE  Asked(t, op, sid) /\ S!Next
<1>1. PICK c : c = S!Request(op, sid, why)
  OBVIOUS
<1>2. clock \in Nat
  BY DEF ManagerInv, S!IInv, S!TypeOK, S!Time
<1>3. /\ c.op = op /\ c.sid = sid /\ c.why = why /\ c.now \in Nat /\ c.now <= clock
      /\ c = [op |-> op, sid |-> sid, why |-> why, now |-> c.now]
  BY <1>1, <1>2 DEF S!Request
<1>4. op \in S!Ops /\ (op \in S!Sweeps <=> sid = NoSession) /\ sid \in Sessions \cup {NoSession}
  BY DaemonAssumption DEF Askable, S!Ops, S!Marks, S!MarkTarget, S!Sweeps
<1>5. c \in S!Calls
  BY <1>3, <1>4 DEF S!Calls, S!Time
<1>6. S!CallUnknown(t, c) \/ S!CallFree(t, c) \/ S!CallQueue(t, c)
  BY <1>1, SameCalls, SameAsking DEF Await
<1>7. S!Moved(t, c) /\ call[t] = S!Idle
  BY <1>3, <1>5, <1>6, ManagerAssumptions, S!AskedMoves DEF ManagerInv
<1>8. S!Next
  BY <1>1, <1>4, <1>5, <1>6 DEF S!Next
<1>9. current' = IF call'[t] = S!Idle THEN t ELSE NoTask
  BY SameCalls DEF Await
<1> QED
  BY <1>3, <1>5, <1>7, <1>8, <1>9 DEF Asked

LEMMA WakeMoves ==
  ASSUME ManagerInv, NEW t \in Tasks, Wake(t)
  PROVE  /\ call[t] \in S!Calls /\ S!Moved(t, call[t])
         /\ current' = IF call'[t] = S!Idle THEN t ELSE NoTask
         /\ S!Next
<1>1. S!Grant(t) \/ S!FinishClose(t)
  BY SameWaking DEF Wake
<1>2. call[t] \in S!Calls /\ S!Moved(t, call[t])
  BY <1>1, ManagerAssumptions, S!WokenMoves DEF ManagerInv
<1>3. S!Next
  BY <1>1 DEF S!Next
<1> QED
  BY <1>2, <1>3, SameCalls DEF Wake

(* Every step of the daemon is a step of the manager, or none.                    *)
LEMMA StepOfManager ==
  ASSUME ManagerInv, [Next]_vars
  PROVE  [S!Next]_S!vars
<1>r. "daemon_shutdown" \in CloseReasons /\ "target_process_exited" \in CloseReasons
  BY DEF CloseReasons
<1>u. UNCHANGED managerVars => UNCHANGED S!vars
  BY DEF managerVars, S!vars
<1>1. CASE Initialize
  BY <1>1, <1>u DEF Initialize
<1>2. CASE TimePasses
  BY <1>2, SameRest DEF TimePasses, S!Next
<1>3. ASSUME NEW t \in Tasks, Wake(t)
      PROVE  S!Next
  BY <1>3, WakeMoves
<1>4. ASSUME NEW s \in Sessions, LaunchStep(s)
      PROVE  [S!Next]_S!vars
  <2>1. s \in Tasks
    BY DEF Tasks
  <2>2. ASSUME NEW own \in BOOLEAN, Launch(s, own)
        PROVE  S!Next
    BY <1>r, <2>1, <2>2, AwaitAsks DEF Launch, Askable
  <2>3. CASE Connect(s)
    BY <1>r, <2>1, <2>3, AwaitAsks DEF Connect, Askable
  <2>4. CASE Activate(s)
    BY <1>r, <2>1, <2>4, AwaitAsks DEF Activate, Askable
  <2>5. CASE EndBind(s)
    BY <1>u, <2>5, SameRest DEF EndBind, S!Next
  <2>6. ASSUME (\E own \in BOOLEAN : LaunchFails(s, own)) \/ LaunchRefused(s) \/ Created(s)
                 \/ BeginBind(s) \/ Observe(s) \/ Answer(s)
        PROVE  UNCHANGED S!vars
    BY <1>u, <2>6 DEF LaunchFails, LaunchRefused, Created, BeginBind, Observe, Answer
  <2>7. CASE Stumble(s)
    BY <1>u, <2>7, SameRest DEF Stumble, S!Next
  <2> QED
    BY <1>4, <2>2, <2>3, <2>4, <2>5, <2>6, <2>7, DaemonAssumption
       DEF LaunchStep, LaunchBegins, LaunchGoesOn
<1>5. ASSUME NEW s \in Sessions, TargetExits(s) \/ PidReused(s)
      PROVE  UNCHANGED S!vars
  BY <1>5, <1>u DEF TargetExits, PidReused
<1>6. ASSUME NEW m \in Maintainers, BeginCycle(m) \/ MaintenanceStep(m)
      PROVE  [S!Next]_S!vars
  <2>1. m \in Tasks
    BY DEF Tasks
  <2>2. CASE BeginCycle(m) \/ ListForCycle(m) \/ CountActive(m)
    BY <1>r, <2>1, <2>2, AwaitAsks DEF BeginCycle, ListForCycle, CountActive, Askable
  <2>3. ASSUME NEW s \in Sessions, SweepDead(m, s)
        PROVE  S!Next
    BY <1>r, <2>1, <2>3, AwaitAsks DEF SweepDead, Askable
  <2>4. ASSUME NEW s \in Sessions, SweepAlive(m, s) \/ SweepRecycled(m, s)
        PROVE  UNCHANGED S!vars
    BY <1>u, <2>4 DEF SweepAlive, SweepRecycled
  <2>5. CASE BeginSweep(m) \/ EndCycle(m)
    BY <1>u, <2>5 DEF BeginSweep, EndCycle
  <2> QED
    BY <1>6, <2>2, <2>3, <2>4, <2>5 DEF MaintenanceStep
<1>7. ASSUME NEW x \in Stoppers, BeginShutdown(x) \/ ShutdownAgain(x) \/ ShutdownStep(x)
      PROVE  [S!Next]_S!vars
  <2>1. x \in Tasks
    BY DEF Tasks
  <2>2. CASE BeginShutdown(x)
    BY <1>r, <2>1, <2>2, AwaitAsks DEF BeginShutdown, Askable
  <2>3. ASSUME NEW s \in Sessions, CloseOne(x, s)
        PROVE  S!Next
    BY <1>r, <2>1, <2>3, AwaitAsks DEF CloseOne, Askable
  <2>4. CASE ShutdownAgain(x) \/ BeginClosing(x) \/ EndShutdown(x)
    BY <1>u, <2>4 DEF ShutdownAgain, BeginClosing, EndShutdown
  <2> QED
    BY <1>7, <2>2, <2>3, <2>4 DEF ShutdownStep
<1>8. CASE UNCHANGED vars
  BY <1>8, <1>u DEF vars
<1> QED
  BY <1>1, <1>2, <1>3, <1>4, <1>5, <1>6, <1>7, <1>8 DEF Next

LEMMA ManagerInvKept ==
  ASSUME ManagerInv, [S!Next]_S!vars
  PROVE  ManagerInv'
<1>1. S!IInv'
  BY ManagerAssumptions, S!StepPreservesIInv DEF ManagerInv
<1>2. S!LeaseInv'
  BY ManagerAssumptions, S!StepKeeps DEF ManagerInv
<1> QED
  BY <1>1, <1>2 DEF ManagerInv

(* The manager's invariants hold of the manager inside the daemon.                *)
LEMMA ManagerInvHolds == Spec => []ManagerInv
<1>1. Init => ManagerInv
  BY ManagerAssumptions, SameInit, S!InitIInv, S!InitLeaseInv DEF Init, ManagerInv
<1>2. ManagerInv /\ [Next]_vars => ManagerInv'
  BY StepOfManager, ManagerInvKept
<1> QED
  BY <1>1, <1>2, PTL DEF Spec

(* The daemon implements the session manager: whatever its launches, cycles and   *)
(* shutdowns do, in whatever order, is something clients of the manager may do,   *)
(* so what is proved of the manager holds of the manager inside the daemon.       *)
THEOREM ImplementsManager == Spec => RefinesSessionManager
<1>1. Init => S!Init
  BY SameInit DEF Init
<1>2. ManagerInv /\ [Next]_vars => [S!Next]_S!vars
  BY StepOfManager
<1>3. Spec => S!Spec
  BY <1>1, <1>2, ManagerInvHolds, PTL DEF Spec, S!Spec
<1> QED
  BY <1>3, SameSpec DEF RefinesSessionManager

------------------------------------------------------------------------------------
(* The inductive invariant.                                                       *)
USE DEF procVars

DTypes ==
  /\ daemon \in DaemonStates
  /\ current \in Tasks \cup {NoTask}
  /\ pc \in [Tasks -> {"idle", "creating", "discovering", "binding", "bound", "connecting",
                       "activating", "observing", "failed", "done", "pruning", "listing", "sweeping",
                       "counting"}]
  /\ todo \in [Maintainers \cup Stoppers -> SUBSET Sessions]
  /\ target \in SUBSET Sessions
  /\ proc \in [Sessions -> {"none", "alive", "dead", "recycled"}]
  /\ at \in [Sessions -> Sessions]
  /\ launched \subseteq Sessions /\ jobs \subseteq launched /\ external \subseteq Sessions
  /\ bridge \in Sessions \cup {NoTask}
  /\ stopper \in Stoppers \cup {NoTask}

(* A coroutine waits for the operation that belongs to where it is: nobody else   *)
(* creates sessions, and a launch names its own.                                  *)
Matches(t, c, where) ==
  \/ /\ t \in Sessions /\ c.sid = t
     /\ \/ where = "creating" /\ c.op = "create"
        \/ where = "connecting" /\ c.op = "connect"
        \/ where = "activating" /\ c.op = "activate"
  \/ /\ t \in Maintainers /\ c.op \in {"prune", "list", "close"}
  \/ /\ t \in Stoppers
     /\ \/ where = "listing" /\ c.op = "list"
        \/ where = "sweeping" /\ c.op = "close"

CallsMatch == \A t \in Tasks : call[t] # S!Idle => Matches(t, call[t], pc[t])

(* No process before the launch, a target once the session exists, and what the   *)
(* answer of activate_session tells is still so while the coroutine goes on.      *)
Targeted == {"discovering", "binding", "bound", "connecting", "activating", "observing", "done"}
LaunchInv ==
  \A s \in Sessions :
    /\ pc[s] = "idle" => proc[s] = "none"
    /\ pc[s] \in Targeted => s \in target
    /\ (current = s /\ pc[s] = "activating" /\ call[s] = S!Idle /\ ret[s] = "ok")
         => life[s] = "ACTIVE"

(* One shutdown at a time; while it waits for the list of sessions every create   *)
(* that is still to run is ahead of it in the queue, and once it has the list no  *)
(* session is open but the listed ones it has not come to and the one it closes.  *)
StoppersInTurn ==
  /\ daemon = "SHUTTING_DOWN" <=> stopper \in Stoppers
  /\ \A x \in Stoppers : /\ pc[x] \in {"idle", "listing", "sweeping", "done"}
                         /\ pc[x] \in {"listing", "sweeping"} <=> stopper = x

Listing(x) ==
  /\ call[x] = S!Idle => S!Creators = {}
  /\ call[x] # S!Idle => S!CreatesAhead(x)

Closing(x) ==
  /\ S!Creators = {}
  /\ \A s \in S!OpenSessions : s \in todo[x] \/ (call[x] # S!Idle /\ call[x].sid = s)

ShutInv ==
  /\ daemon = "STOPPED" => S!Creators = {} /\ S!OpenSessions = {}
  /\ \A x \in Stoppers : /\ pc[x] = "listing" => Listing(x)
                         /\ pc[x] = "sweeping" => Closing(x)

DInv == DTypes /\ CallsMatch /\ LaunchInv /\ StoppersInTurn /\ ShutInv /\ StoppedKillsLaunched

------------------------------------------------------------------------------------
(* A step of the coroutine t (of none, when t is NoTask): the others stay where   *)
(* they are, and t runs on or nobody does.                                        *)
StepOf(t) ==
  /\ \A u \in Tasks \ {t} : pc'[u] = pc[u] /\ call'[u] = call[u] /\ ret'[u] = ret[u]
  /\ \A u \in (Maintainers \cup Stoppers) \ {t} : todo'[u] = todo[u]
  /\ current' \in {t, NoTask}
  /\ target \subseteq target'

(* ... that changes nothing in the manager the daemon's invariant speaks of.      *)
Quiet == UNCHANGED <<life, waiters, call, ret>>

(* ... and one that does not move the daemon, starts no process but that of t,    *)
(* and puts none into a job once the daemon has stopped.                          *)
Tame(t) ==
  /\ UNCHANGED <<daemon, stopper>>
  /\ \A s \in Sessions : proc[s] = "none" /\ s # t => proc'[s] = "none"
  /\ daemon = "STOPPED" => /\ jobs' = jobs
                           /\ \A s \in Sessions : proc'[s] = "alive" => proc[s] = "alive"

(* ... and what t itself has to do for the invariant.                             *)
Fits(t) ==
  /\ t \in Tasks => call'[t] = S!Idle \/ Matches(t, call'[t], pc'[t])
  /\ t \in Sessions => /\ pc'[t] = "idle" => proc'[t] = "none"
                       /\ pc'[t] \in Targeted => t \in target'
                       /\ (current' = t /\ pc'[t] = "activating" /\ call'[t] = S!Idle
                             /\ ret'[t] = "ok") => life'[t] = "ACTIVE"
  /\ t \in Stoppers => /\ pc'[t] \in {"idle", "listing", "sweeping", "done"}
                       /\ pc'[t] \in {"listing", "sweeping"} <=> stopper' = t

LEMMA TaskKinds ==
  /\ Sessions \subseteq Tasks /\ Maintainers \subseteq Tasks /\ Stoppers \subseteq Tasks
  /\ NoTask \notin Tasks
  /\ \A s \in Sessions : s \notin Maintainers /\ s \notin Stoppers
  /\ \A m \in Maintainers : m \notin Stoppers
  BY DaemonAssumption DEF Tasks

LEMMA IdleFacts == \A c \in S!Calls : c # S!Idle
  BY DEF S!Calls, S!Idle

LEMMA TypedCalls ==
  ASSUME ManagerInv
  PROVE  /\ call \in [Tasks -> S!Calls \cup {S!Idle}] /\ ret \in [Tasks -> {"ok", "raised"}]
         /\ waiters \in Seq(Tasks)
  BY DEF ManagerInv, S!IInv, S!TypeOK

LEMMA QuietOpen ==
  ASSUME Quiet
  PROVE  /\ S!OpenSessions' = S!OpenSessions /\ S!Creators' = S!Creators
         /\ \A x : S!CreatesAhead(x) => S!CreatesAhead(x)'
  BY DEF Quiet, S!OpenSessions, S!IsOpen, S!Creators, S!CreatesAhead

(* What is kept of each part of the invariant by a step of t.                     *)
LEMMA MatchesKept ==
  ASSUME CallsMatch, NEW t, StepOf(t), Fits(t)
  PROVE  CallsMatch'
<1>1. ASSUME NEW u \in Tasks, call'[u] # S!Idle
      PROVE  Matches(u, call'[u], pc'[u])
  BY <1>1 DEF CallsMatch, StepOf, Fits
<1> QED
  BY <1>1 DEF CallsMatch, Matches, S!Idle

LEMMA LaunchKept ==
  ASSUME LaunchInv, NEW t, StepOf(t), Fits(t),
         \A s \in Sessions : proc[s] = "none" /\ s # t => proc'[s] = "none"
  PROVE  LaunchInv'
<1>1. ASSUME NEW s \in Sessions
      PROVE  /\ pc'[s] = "idle" => proc'[s] = "none"
             /\ pc'[s] \in Targeted => s \in target'
             /\ (current' = s /\ pc'[s] = "activating" /\ call'[s] = S!Idle /\ ret'[s] = "ok")
                  => life'[s] = "ACTIVE"
  <2>1. CASE s = t
    BY <2>1 DEF Fits
  <2>2. CASE s # t
    <3>1. s \in Tasks /\ s # NoTask
      BY TaskKinds
    <3>2. pc'[s] = pc[s] /\ current' # s /\ target \subseteq target'
      BY <2>2, <3>1 DEF StepOf
    <3> QED
      BY <2>2, <3>2 DEF LaunchInv
  <2> QED
    BY <2>1, <2>2
<1> QED
  BY <1>1 DEF LaunchInv, S!Idle, Targeted

LEMMA TurnsKept ==
  ASSUME StoppersInTurn, NEW t, StepOf(t), Fits(t), UNCHANGED <<daemon, stopper>>
  PROVE  StoppersInTurn'
<1>1. \A x \in Stoppers : x # t => pc'[x] = pc[x]
  BY TaskKinds DEF StepOf
<1> QED
  BY <1>1 DEF StoppersInTurn, Fits

LEMMA TameKeeps ==
  ASSUME DInv, NEW t, StepOf(t), Fits(t), Tame(t), DTypes', ShutInv'
  PROVE  DInv'
<1>1. CallsMatch'
  BY MatchesKept DEF DInv
<1>2. LaunchInv'
  BY LaunchKept DEF DInv, Tame
<1>3. StoppersInTurn'
  BY TurnsKept DEF DInv, Tame
<1>4. StoppedKillsLaunched'
  BY DEF DInv, DTypes, Tame, StoppedKillsLaunched
<1> QED
  BY <1>1, <1>2, <1>3, <1>4 DEF DInv

LEMMA ShutQuiet ==
  ASSUME ShutInv, NEW t, StepOf(t), Quiet, UNCHANGED daemon,
         t \in Stoppers => pc'[t] \notin {"listing", "sweeping"}
  PROVE  ShutInv'
<1>1. \A x \in Stoppers : x # t => pc'[x] = pc[x] /\ todo'[x] = todo[x]
  BY TaskKinds DEF StepOf
<1>2. \A x \in Stoppers : Listing(x) => Listing(x)'
  BY QuietOpen DEF Listing, Quiet, S!Idle
<1>3. \A x \in Stoppers : x # t /\ Closing(x) => Closing(x)'
  BY <1>1, QuietOpen DEF Closing, Quiet, S!Idle
<1> QED
  BY <1>1, <1>2, <1>3, QuietOpen DEF ShutInv

(* A step of an operation of the manager, taken by anyone but a shutdown: asked   *)
(* for, it does not create; waited for, it may.                                   *)
LEMMA ShutMoved ==
  ASSUME ManagerInv, ShutInv, NEW t \in Tasks \ Stoppers, NEW c \in S!Calls, StepOf(t),
         S!Moved(t, c), UNCHANGED daemon, c.op # "create" \/ call[t] = c
  PROVE  ShutInv'
<1>1. \A x \in Stoppers : /\ x # t /\ x \in Tasks \ {t} /\ pc'[x] = pc[x] /\ todo'[x] = todo[x]
                          /\ call'[x] = call[x]
  BY TaskKinds DEF StepOf
<1>2. S!Creators' \subseteq S!Creators
  BY DEF S!Moved
<1>3. S!Creators = {} => S!OpenSessions' \subseteq S!OpenSessions
  BY DEF S!Creators, S!Moved
<1>4. \A x \in Stoppers : S!CreatesAhead(x) => S!CreatesAhead(x)'
  BY <1>1, <1>2 DEF S!Moved
<1>5. \A x \in Stoppers : Listing(x) => Listing(x)'
  BY <1>1, <1>2, <1>4 DEF Listing, S!Idle
<1>6. \A x \in Stoppers : Closing(x) => Closing(x)'
  BY <1>1, <1>2, <1>3 DEF Closing, S!Idle
<1> QED
  BY <1>1, <1>2, <1>3, <1>5, <1>6 DEF ShutInv

LEMMA AskedFacts ==
  ASSUME ManagerInv, NEW t \in Tasks, NEW op, NEW sid, Asked(t, op, sid)
  PROVE  /\ call[t] = S!Idle /\ current' \in {t, NoTask}
         /\ current' = t => call'[t] = S!Idle
         /\ \A u \in Tasks \ {t} : call'[u] = call[u] /\ ret'[u] = ret[u]
         /\ call'[t] # S!Idle => call'[t] \in S!Calls /\ call'[t].op = op /\ call'[t].sid = sid
         /\ \E c \in S!Calls : c.op = op /\ c.sid = sid /\ S!Moved(t, c)
<1>1. PICK c \in S!Calls : c.op = op /\ c.sid = sid /\ S!Moved(t, c)
  BY DEF Asked
<1>2. /\ \A u \in Tasks \ {t} : call'[u] = call[u] /\ ret'[u] = ret[u]
      /\ call'[t] \in {S!Idle, c}
  BY <1>1 DEF S!Moved
<1>3. /\ call[t] = S!Idle /\ current' \in {t, NoTask}
      /\ current' = t => call'[t] = S!Idle
  BY TaskKinds DEF Asked
<1> QED
  BY <1>1, <1>2, <1>3

(* An operation asked for by anyone but a shutdown, that does not create.         *)
LEMMA ShutAsked ==
  ASSUME ManagerInv, ShutInv, NEW t \in Tasks \ Stoppers, NEW op, NEW sid, StepOf(t),
         Asked(t, op, sid), op # "create", UNCHANGED daemon
  PROVE  ShutInv'
<1>1. PICK c \in S!Calls : c.op = op /\ c.sid = sid /\ S!Moved(t, c)
  BY DEF Asked
<1> QED
  BY <1>1, ShutMoved

LEMMA LaunchKeeps ==
  ASSUME ManagerInv, DInv, NEW s \in Sessions, LaunchStep(s)
  PROVE  DInv'
<1>r. "daemon_shutdown" \in CloseReasons
  BY DEF CloseReasons
<1>k. s \in Tasks /\ s \notin Stoppers /\ s \notin Maintainers /\ s # NoTask
  BY TaskKinds
<1>d. DTypes /\ CallsMatch /\ LaunchInv /\ ShutInv /\ StoppersInTurn
  BY DEF DInv
<1>c. pc[s] \notin {"creating", "connecting", "activating"} => call[s] = S!Idle
  BY <1>d, <1>k DEF CallsMatch, Matches
<1>q. Quiet /\ UNCHANGED daemon /\ StepOf(s) => ShutInv'
  BY <1>d, <1>k, ShutQuiet
<1>1. ASSUME NEW own \in BOOLEAN, Launch(s, own)
      PROVE  DInv'
  <2>1. Asked(s, "create", s)
    BY <1>r, <1>k, <1>1, AwaitAsks DEF Launch, Askable
  <2>p. PICK p \in Sessions : /\ Supervise(s, p, own) /\ at' = [at EXCEPT ![s] = p]
                              /\ proc' = [proc EXCEPT ![p] = "alive"]
    BY <1>1 DEF Launch
  <2>s. /\ p = s \/ proc[p] = "alive"
        /\ launched' \subseteq Sessions /\ jobs' \subseteq launched' /\ external' \subseteq Sessions
    BY <1>d, <2>p DEF Supervise, DTypes
  <2>2. /\ pc[s] = "idle" /\ daemon = "RUNNING" /\ pc' = [pc EXCEPT ![s] = "creating"]
        /\ proc' \in [Sessions -> {"none", "alive", "dead", "recycled"}]
        /\ \A u \in Sessions : proc[u] = "none" /\ u # s => proc'[u] = "none"
        /\ at' \in [Sessions -> Sessions]
        /\ UNCHANGED <<daemon, todo, target, bridge, stopper>>
    BY <1>1, <1>d, <2>p, <2>s DEF Launch, Goto, DTypes
  <2>3. DTypes'
    BY <1>d, <1>k, <2>s, <2>1, <2>2, AskedFacts DEF DTypes
  <2>4. StepOf(s)
    BY <1>d, <1>k, <2>1, <2>2, AskedFacts DEF StepOf, DTypes
  <2>5. Fits(s)
    BY <1>d, <1>k, <2>1, <2>2, AskedFacts DEF Fits, DTypes, Matches, Targeted
  <2>6. Tame(s)
    BY <1>d, <2>2 DEF Tame, DTypes
  <2>7. ShutInv'
    <3>1. \A x \in Stoppers : pc'[x] \notin {"listing", "sweeping"}
      BY <1>d, <1>k, <2>2, TaskKinds DEF StoppersInTurn, DTypes
    <3> QED
      BY <2>2, <3>1 DEF ShutInv
  <2> QED
    BY <2>3, <2>4, <2>5, <2>6, <2>7, TameKeeps
<1>2. ASSUME NEW own \in BOOLEAN, LaunchFails(s, own)
      PROVE  DInv'
  <2>p. PICK p \in Sessions : /\ Supervise(s, p, own)
                              /\ \/ p = s /\ proc' = [proc EXCEPT ![p] = "dead"]
                                 \/ ~own /\ proc' = [proc EXCEPT ![p] = "alive"]
    BY <1>2 DEF LaunchFails
  <2>s. /\ p = s \/ proc[p] = "alive"
        /\ launched' \subseteq Sessions /\ jobs' \subseteq launched' /\ external' \subseteq Sessions
    BY <1>d, <2>p DEF Supervise, DTypes
  <2>2. /\ pc[s] = "idle" /\ daemon = "RUNNING" /\ pc' = [pc EXCEPT ![s] = "failed"]
        /\ proc' \in [Sessions -> {"none", "alive", "dead", "recycled"}]
        /\ \A u \in Sessions : proc[u] = "none" /\ u # s => proc'[u] = "none"
        /\ current' = NoTask /\ Quiet
        /\ UNCHANGED <<daemon, todo, target, at, bridge, stopper>>
    BY <1>2, <1>d, <2>p, <2>s DEF LaunchFails, Goto, Suspend, managerVars, Quiet, DTypes
  <2>3. DTypes'
    BY <1>d, <1>k, <2>s, <2>2 DEF DTypes
  <2>4. StepOf(s)
    BY <1>d, <1>k, <2>2 DEF StepOf, DTypes, Quiet
  <2>5. Fits(s)
    BY <1>c, <1>d, <1>k, <2>2 DEF Fits, DTypes, Quiet, Targeted
  <2>6. Tame(s)
    BY <1>d, <2>2 DEF Tame, DTypes
  <2> QED
    BY <1>q, <2>2, <2>3, <2>4, <2>5, <2>6, TameKeeps
<1>3. ASSUME NEW from, NEW to \in {"failed", "discovering", "binding", "bound", "observing", "done"}, pc[s] = from,
             call[s] = S!Idle, pc' = [pc EXCEPT ![s] = to], current' \in {s, NoTask}, Quiet,
             target \subseteq target', target' \subseteq target \cup {s}, to # "failed" => s \in target',
             bridge' \in {bridge, s, NoTask}, UNCHANGED <<daemon, todo, procVars, stopper>>
      PROVE  DInv'
  <2>3. DTypes'
    BY <1>d, <1>k, <1>3 DEF DTypes
  <2>4. StepOf(s)
    BY <1>d, <1>k, <1>3 DEF StepOf, DTypes, Quiet
  <2>5. Fits(s)
    BY <1>d, <1>k, <1>3 DEF Fits, DTypes, Quiet, Targeted
  <2>6. Tame(s)
    BY <1>3 DEF Tame
  <2> QED
    BY <1>q, <1>3, <2>3, <2>4, <2>5, <2>6, TameKeeps
<1>4. CASE LaunchRefused(s)
  BY <1>c, <1>4, <1>3 DEF LaunchRefused, Goto, Suspend, managerVars, Quiet
<1>5. CASE Created(s)
  BY <1>3, <1>5, SameCalls DEF Created, Back, Goto, Suspend, managerVars, Quiet
<1>6. CASE BeginBind(s)
  <2>1. s \in target
    BY <1>d, <1>6 DEF BeginBind, LaunchInv, Targeted
  <2> QED
    BY <1>c, <1>3, <1>6, <2>1 DEF BeginBind, Goto, Suspend, managerVars, Quiet
<1>7. CASE EndBind(s)
  <2>1. s \in target
    BY <1>d, <1>7 DEF EndBind, LaunchInv, Targeted
  <2>2. Quiet
    BY <1>7 DEF EndBind, M!BindCore, managerVars, Quiet
  <2> QED
    BY <1>c, <1>3, <1>7, <2>1, <2>2 DEF EndBind, Goto
<1>8. CASE Observe(s) \/ Answer(s)
  <2>1. s \in target /\ call[s] = S!Idle
    BY <1>c, <1>d, <1>8, SameCalls DEF Observe, Answer, Back, LaunchInv, Targeted
  <2>2. \E to \in {"failed", "observing", "done"} : pc' = [pc EXCEPT ![s] = to]
    BY <1>8 DEF Observe, Answer, Goto
  <2>3. current' = NoTask /\ UNCHANGED <<managerVars, daemon, todo, target, procVars, bridge, stopper>>
    BY <1>8 DEF Observe, Answer, Suspend
  <2> QED
    BY <1>3, <2>1, <2>2, <2>3 DEF managerVars, Quiet
<1>12. CASE Stumble(s)
  <2>1. s \in target /\ call[s] = S!Idle
    BY <1>c, <1>d, <1>12 DEF Stumble, LaunchInv, Targeted
  <2>2. Quiet
    BY <1>12 DEF Stumble, M!BindCore, managerVars, Quiet
  <2> QED
    BY <1>3, <1>12, <2>1, <2>2 DEF Stumble, Goto, Suspend
<1>9. ASSUME NEW op \in {"connect", "activate"}, NEW to, Asked(s, op, s), s \in target,
             pc' = [pc EXCEPT ![s] = to],
             \/ op = "connect" /\ to = "connecting"
             \/ op = "activate" /\ to = "activating",
             UNCHANGED <<daemon, todo, target, procVars, bridge, stopper>>
      PROVE  DInv'
  <2>3. DTypes'
    BY <1>d, <1>k, <1>9, AskedFacts DEF DTypes
  <2>4. StepOf(s)
    BY <1>d, <1>k, <1>9, AskedFacts DEF StepOf, DTypes
  <2>5. Fits(s)
    <3>1. pc'[s] = to
      BY <1>d, <1>k, <1>9 DEF DTypes
    <3>2. call'[s] = S!Idle \/ Matches(s, call'[s], pc'[s])
      BY <1>k, <1>9, <3>1, AskedFacts DEF Matches
    <3>3. pc'[s] = "activating" /\ call'[s] = S!Idle /\ ret'[s] = "ok" => life'[s] = "ACTIVE"
      <4>1. PICK c \in S!Calls : c.op = op /\ c.sid = s /\ S!Moved(s, c)
        BY <1>9 DEF Asked
      <4> QED
        BY <1>9, <3>1, <4>1 DEF S!Moved
    <3> QED
      BY <1>k, <1>9, <3>1, <3>2, <3>3 DEF Fits
  <2>6. Tame(s)
    BY <1>9 DEF Tame
  <2>7. ShutInv'
    BY <1>d, <1>k, <1>9, <2>4, ShutAsked
  <2> QED
    BY <2>3, <2>4, <2>5, <2>6, <2>7, TameKeeps
<1>10. CASE Connect(s)
  <2>1. Asked(s, "connect", s) /\ s \in target
    BY <1>r, <1>k, <1>d, <1>10, AwaitAsks DEF Connect, Back, Askable, LaunchInv, Targeted
  <2> QED
    BY <1>9, <1>10, <2>1 DEF Connect, Goto
<1>11. CASE Activate(s)
  <2>1. Asked(s, "activate", s) /\ s \in target
    BY <1>r, <1>k, <1>d, <1>11, AwaitAsks DEF Activate, Back, Askable, LaunchInv, Targeted
  <2> QED
    BY <1>9, <1>11, <2>1 DEF Activate, Goto
<1> QED
  BY <1>1, <1>2, <1>4, <1>5, <1>6, <1>7, <1>8, <1>10, <1>11, <1>12, DaemonAssumption
     DEF LaunchStep, LaunchBegins, LaunchGoesOn

LEMMA MaintenanceKeeps ==
  ASSUME ManagerInv, DInv, NEW m \in Maintainers, BeginCycle(m) \/ MaintenanceStep(m)
  PROVE  DInv'
<1>r. "target_process_exited" \in CloseReasons
  BY DEF CloseReasons
<1>k. m \in Tasks /\ m \notin Stoppers /\ m \notin Sessions /\ m # NoTask
  BY TaskKinds
<1>d. DTypes /\ CallsMatch /\ LaunchInv /\ ShutInv /\ StoppersInTurn
  BY DEF DInv
<1>1. ASSUME NEW to \in {"idle", "pruning", "listing", "sweeping", "counting"}, NEW left \in SUBSET Sessions,
             pc' = [pc EXCEPT ![m] = to], todo' = [todo EXCEPT ![m] = left],
             current' \in {m, NoTask}, Quiet, call[m] = S!Idle,
             UNCHANGED <<daemon, target, procVars, bridge, stopper>>
      PROVE  DInv'
  <2>1. DTypes'
    BY <1>d, <1>k, <1>1 DEF DTypes
  <2>2. StepOf(m)
    BY <1>d, <1>k, <1>1 DEF StepOf, DTypes, Quiet
  <2>3. Fits(m)
    BY <1>d, <1>k, <1>1 DEF Fits, Quiet
  <2>4. Tame(m)
    BY <1>1 DEF Tame
  <2>5. ShutInv'
    BY <1>d, <1>k, <1>1, <2>2, ShutQuiet
  <2> QED
    BY <2>1, <2>2, <2>3, <2>4, <2>5, TameKeeps
<1>2. ASSUME NEW op \in {"list", "prune", "close"}, NEW sid, Asked(m, op, sid),
             NEW to \in {"pruning", "listing", "sweeping", "counting"}, NEW left \in SUBSET Sessions,
             pc' = [pc EXCEPT ![m] = to], todo' = [todo EXCEPT ![m] = left],
             UNCHANGED <<daemon, target, procVars, bridge, stopper>>
      PROVE  DInv'
  <2>1. DTypes'
    BY <1>d, <1>k, <1>2, AskedFacts DEF DTypes
  <2>2. StepOf(m)
    BY <1>d, <1>k, <1>2, AskedFacts DEF StepOf, DTypes
  <2>3. Fits(m)
    BY <1>k, <1>2, AskedFacts DEF Fits, Matches
  <2>4. Tame(m)
    BY <1>2 DEF Tame
  <2>5. ShutInv'
    BY <1>d, <1>k, <1>2, <2>2, ShutAsked
  <2> QED
    BY <2>1, <2>2, <2>3, <2>4, <2>5, TameKeeps
<1>t. /\ todo[m] \in SUBSET Sessions /\ {} \in SUBSET Sessions
      /\ todo = [todo EXCEPT ![m] = todo[m]]
      /\ pc[m] = "sweeping" => pc = [pc EXCEPT ![m] = "sweeping"]
  BY <1>d, <1>k DEF DTypes
<1>3. CASE BeginCycle(m)
  <2>1. Asked(m, "prune", NoSession)
    BY <1>r, <1>k, <1>3, AwaitAsks DEF BeginCycle, Askable
  <2> QED
    BY <1>2, <1>3, <1>t, <2>1 DEF BeginCycle, Goto
<1>4. CASE ListForCycle(m)
  <2>1. Asked(m, "list", NoSession)
    BY <1>r, <1>k, <1>4, AwaitAsks DEF ListForCycle, Askable
  <2> QED
    BY <1>2, <1>4, <1>t, <2>1 DEF ListForCycle, Goto
<1>5. CASE CountActive(m)
  <2>1. Asked(m, "list", NoSession)
    BY <1>r, <1>k, <1>5, AwaitAsks DEF CountActive, Askable
  <2> QED
    BY <1>2, <1>5, <1>t, <2>1 DEF CountActive, Goto
<1>6. ASSUME NEW s \in Sessions, SweepDead(m, s)
      PROVE  DInv'
  <2>1. Asked(m, "close", s) /\ pc[m] = "sweeping" /\ todo[m] \ {s} \in SUBSET Sessions
    BY <1>r, <1>k, <1>t, <1>6, AwaitAsks DEF SweepDead, Back, Askable
  <2>2. /\ todo' = [todo EXCEPT ![m] = todo[m] \ {s}] /\ pc' = [pc EXCEPT ![m] = "sweeping"]
        /\ UNCHANGED <<daemon, target, procVars, bridge, stopper>>
    <3>1. pc = [pc EXCEPT ![m] = "sweeping"]
      BY <1>t, <2>1
    <3> QED
      BY <1>6, <3>1 DEF SweepDead
  <2> QED
    BY <1>2, <2>1, <2>2
<1>7. CASE BeginSweep(m)
  <2>1. M!OpenSessions \in SUBSET Sessions
    BY DEF M!OpenSessions
  <2>2. Quiet /\ call[m] = S!Idle
    BY <1>7, SameCalls DEF BeginSweep, Back, Quiet, managerVars
  <2> QED
    BY <1>1, <1>7, <2>1, <2>2 DEF BeginSweep, Back, Runs, Goto
<1>8. ASSUME NEW s \in Sessions, SweepAlive(m, s)
      PROVE  DInv'
  <2>1. todo[m] \ {s} \in SUBSET Sessions /\ pc[m] = "sweeping"
    BY <1>t, <1>8 DEF SweepAlive, Back
  <2>2. Quiet /\ call[m] = S!Idle
    BY <1>8, SameCalls DEF SweepAlive, Back, Quiet, managerVars
  <2>3. /\ todo' = [todo EXCEPT ![m] = todo[m] \ {s}] /\ pc' = [pc EXCEPT ![m] = "sweeping"]
        /\ current' = m /\ UNCHANGED <<daemon, target, procVars, bridge, stopper>>
    <3>1. pc = [pc EXCEPT ![m] = "sweeping"]
      BY <1>t, <2>1
    <3> QED
      BY <1>8, <3>1 DEF SweepAlive, Back, Runs
  <2> QED
    BY <1>1, <2>1, <2>2, <2>3
<1>9. ASSUME NEW s \in Sessions, SweepRecycled(m, s)
      PROVE  DInv'
  <2>2. Quiet /\ call[m] = S!Idle
    BY <1>9, SameCalls DEF SweepRecycled, Back, Quiet, managerVars
  <2> QED
    BY <1>1, <1>9, <1>t, <2>2 DEF SweepRecycled, Goto, Suspend
<1>10. CASE EndCycle(m)
  <2>2. Quiet /\ call[m] = S!Idle
    BY <1>10, SameCalls DEF EndCycle, Back, Quiet, managerVars
  <2> QED
    BY <1>1, <1>10, <1>t, <2>2 DEF EndCycle, Goto, Suspend
<1> QED
  BY <1>3, <1>4, <1>5, <1>6, <1>7, <1>8, <1>9, <1>10 DEF MaintenanceStep

(* Once the list is taken, whoever was to create has created.                     *)
LEMMA ListedMoves ==
  ASSUME ManagerInv, NEW x \in Stoppers, NEW c \in S!Calls, c.op = "list", S!Moved(x, c),
         call[x] = S!Idle \/ (call[x] # S!Idle /\ S!CreatesAhead(x))
  PROVE  Listing(x)'
<1>1. call'[x] = S!Idle => S!Creators' = {}
  BY DEF S!Moved
<1>2. call'[x] # S!Idle => S!CreatesAhead(x)'
  <2>1. CASE call[x] = S!Idle
    BY <2>1 DEF S!Moved
  <2>2. CASE call[x] # S!Idle
    BY <2>2 DEF S!Moved
  <2> QED
    BY <2>1, <2>2
<1> QED
  BY <1>1, <1>2 DEF Listing, S!Idle

(* A close of one listed session leaves the others listed.                        *)
LEMMA ClosedMoves ==
  ASSUME ManagerInv, NEW x \in Stoppers, NEW c \in S!Calls, c.op = "close", S!Moved(x, c),
         S!Creators = {}, \A s \in S!OpenSessions : s \in todo'[x] \/ s = c.sid
  PROVE  Closing(x)'
<1>1. S!OpenSessions' \subseteq S!OpenSessions /\ S!Creators' \subseteq S!Creators
  BY DEF S!Moved
<1>2. call'[x] = S!Idle => c.sid \notin S!OpenSessions'
  BY DEF S!Moved
<1>3. call'[x] # S!Idle => call'[x] = c
  BY DEF S!Moved
<1>4. \A s \in S!OpenSessions' : s \in todo'[x] \/ (call'[x] # S!Idle /\ call'[x].sid = s)
  BY <1>1, <1>2, <1>3
<1> QED
  BY <1>1, <1>4 DEF Closing, S!Idle

LEMMA ShutdownKeeps ==
  ASSUME ManagerInv, DInv, NEW x \in Stoppers,
         BeginShutdown(x) \/ ShutdownAgain(x) \/ ShutdownStep(x)
  PROVE  DInv'
<1>r. "daemon_shutdown" \in CloseReasons
  BY DEF CloseReasons
<1>k. x \in Tasks /\ x \notin Maintainers /\ x \notin Sessions /\ x # NoTask
  BY TaskKinds
<1>d. DTypes /\ CallsMatch /\ LaunchInv /\ ShutInv /\ StoppersInTurn /\ StoppedKillsLaunched
  BY DEF DInv
<1>t. /\ todo[x] \in SUBSET Sessions /\ todo = [todo EXCEPT ![x] = todo[x]]
      /\ pc[x] = "sweeping" => pc = [pc EXCEPT ![x] = "sweeping"]
  BY <1>d, <1>k DEF DTypes
<1>o. pc[x] \in {"listing", "sweeping"} =>
        /\ stopper = x /\ daemon = "SHUTTING_DOWN"
        /\ \A y \in Stoppers \ {x} : pc[y] \notin {"listing", "sweeping"}
  BY <1>d DEF StoppersInTurn
<1>1. CASE BeginShutdown(x)
  <2>1. Asked(x, "list", NoSession)
    BY <1>r, <1>k, <1>1, AwaitAsks DEF BeginShutdown, Askable
  <2>2. /\ stopper = NoTask /\ stopper' = x /\ daemon' = "SHUTTING_DOWN"
        /\ pc' = [pc EXCEPT ![x] = "listing"] /\ UNCHANGED <<todo, target, procVars, bridge>>
    BY <1>1 DEF BeginShutdown, Goto
  <2>3. DTypes'
    BY <1>d, <1>k, <2>1, <2>2, AskedFacts DEF DTypes, DaemonStates
  <2>4. StepOf(x) /\ pc'[x] = "listing"
    BY <1>d, <1>k, <2>1, <2>2, AskedFacts DEF StepOf, DTypes
  <2>5. Fits(x)
    BY <1>k, <2>1, <2>2, <2>4, AskedFacts DEF Fits, Matches
  <2>6. CallsMatch' /\ LaunchInv'
    BY <1>d, <2>2, <2>4, <2>5, MatchesKept, LaunchKept
  <2>7. \A y \in Stoppers \ {x} : pc'[y] = pc[y] /\ pc'[y] \notin {"listing", "sweeping"}
    BY <1>d, <2>2, <2>4, TaskKinds DEF StoppersInTurn, StepOf
  <2>8. StoppersInTurn'
    BY <1>d, <2>2, <2>4, <2>7 DEF StoppersInTurn
  <2>9. Listing(x)'
    <3>1. PICK c \in S!Calls : c.op = "list" /\ S!Moved(x, c)
      BY <2>1 DEF Asked
    <3> QED
      BY <2>1, <3>1, ListedMoves DEF Asked
  <2>10. ShutInv'
    <3>1. \A y \in Stoppers : pc'[y] = "listing" => y = x
      BY <2>7
    <3>2. \A y \in Stoppers : pc'[y] # "sweeping"
      BY <2>4, <2>7
    <3> QED
      BY <2>2, <2>9, <3>1, <3>2 DEF ShutInv
  <2>11. StoppedKillsLaunched'
    BY <2>2 DEF StoppedKillsLaunched
  <2> QED
    BY <2>3, <2>6, <2>8, <2>10, <2>11 DEF DInv
<1>2. CASE ShutdownAgain(x)
  <2>1. /\ pc[x] = "idle" /\ stopper = NoTask /\ pc' = [pc EXCEPT ![x] = "done"]
        /\ current' = NoTask /\ Quiet
        /\ UNCHANGED <<daemon, todo, target, procVars, bridge, stopper>>
    BY <1>2 DEF ShutdownAgain, Goto, Suspend, managerVars, Quiet
  <2>2. DTypes'
    BY <1>d, <1>k, <2>1 DEF DTypes
  <2>3. StepOf(x) /\ pc'[x] = "done"
    BY <1>d, <1>k, <2>1 DEF StepOf, DTypes, Quiet
  <2>4. Fits(x)
    BY <1>d, <1>k, <2>1, <2>3 DEF Fits, CallsMatch, Matches, Quiet
  <2>5. Tame(x)
    BY <2>1 DEF Tame
  <2>6. ShutInv'
    BY <1>d, <2>1, <2>3, ShutQuiet
  <2> QED
    BY <2>2, <2>3, <2>4, <2>5, <2>6, TameKeeps
<1>3. CASE BeginClosing(x)
  <2>1. /\ pc[x] = "listing" /\ call[x] = S!Idle /\ pc' = [pc EXCEPT ![x] = "sweeping"]
        /\ todo' = [todo EXCEPT ![x] = S!OpenSessions]
        /\ UNCHANGED current /\ current = x /\ Quiet
        /\ UNCHANGED <<daemon, target, procVars, bridge, stopper>>
    BY <1>3, SameCalls, SameOpen DEF BeginClosing, Back, Runs, Goto, managerVars, Quiet
  <2>2. DTypes'
    BY <1>d, <1>k, <2>1 DEF DTypes, S!OpenSessions
  <2>3. StepOf(x) /\ pc'[x] = "sweeping" /\ todo'[x] = S!OpenSessions
    BY <1>d, <1>k, <2>1 DEF StepOf, DTypes, Quiet
  <2>4. Fits(x)
    BY <1>k, <1>o, <2>1, <2>3 DEF Fits, Quiet
  <2>5. Tame(x)
    BY <2>1 DEF Tame
  <2>6. Closing(x)'
    BY <1>d, <2>1, <2>3, QuietOpen DEF ShutInv, Listing, Closing
  <2>7. \A y \in Stoppers : pc'[y] \in {"listing", "sweeping"} => y = x
    BY <1>o, <2>1, <2>3, TaskKinds DEF StepOf
  <2>8. ShutInv'
    BY <1>o, <2>1, <2>3, <2>6, <2>7 DEF ShutInv
  <2> QED
    BY <2>2, <2>3, <2>4, <2>5, <2>8, TameKeeps
<1>4. ASSUME NEW s \in Sessions, CloseOne(x, s)
      PROVE  DInv'
  <2>1. Asked(x, "close", s) /\ pc[x] = "sweeping"
    BY <1>r, <1>k, <1>4, AwaitAsks DEF CloseOne, Back, Askable
  <2>2. /\ todo' = [todo EXCEPT ![x] = todo[x] \ {s}]
        /\ UNCHANGED <<daemon, pc, target, procVars, bridge, stopper>>
    BY <1>4 DEF CloseOne
  <2>3. DTypes'
    BY <1>d, <1>k, <1>t, <2>1, <2>2, AskedFacts DEF DTypes
  <2>4. StepOf(x) /\ pc'[x] = "sweeping" /\ todo'[x] = todo[x] \ {s}
    BY <1>d, <1>k, <2>1, <2>2, AskedFacts DEF StepOf, DTypes
  <2>5. Fits(x)
    BY <1>k, <1>o, <2>1, <2>2, <2>4, AskedFacts DEF Fits, Matches
  <2>6. Tame(x)
    BY <2>2 DEF Tame
  <2>7. Closing(x)'
    <3>1. PICK c \in S!Calls : c.op = "close" /\ c.sid = s /\ S!Moved(x, c)
      BY <2>1 DEF Asked
    <3>2. S!Creators = {} /\ \A y \in S!OpenSessions : y \in todo'[x] \/ y = c.sid
      BY <1>d, <2>1, <2>4, <3>1 DEF ShutInv, Closing, Asked
    <3> QED
      BY <3>1, <3>2, ClosedMoves
  <2>8. \A y \in Stoppers : pc'[y] \in {"listing", "sweeping"} => y = x
    BY <1>o, <2>1, <2>2
  <2>9. ShutInv'
    BY <1>o, <2>1, <2>2, <2>4, <2>7, <2>8 DEF ShutInv
  <2> QED
    BY <2>3, <2>4, <2>5, <2>6, <2>9, TameKeeps
<1>5. CASE EndShutdown(x)
  <2>1. /\ pc[x] = "sweeping" /\ call[x] = S!Idle /\ todo[x] = {} /\ pc' = [pc EXCEPT ![x] = "done"]
        /\ Cleanup
        /\ daemon' = "STOPPED" /\ stopper' = NoTask /\ current' = NoTask /\ Quiet
        /\ UNCHANGED <<todo, target, at, launched, jobs, external, bridge>>
    BY <1>5, SameCalls DEF EndShutdown, Back, Goto, Suspend, managerVars, Quiet
  <2>c. /\ proc' \in [Sessions -> {"none", "alive", "dead", "recycled"}]
        /\ \A s \in Sessions : proc[s] = "none" => proc'[s] = "none"
        /\ \A s \in jobs : proc'[s] # "alive"
    BY <1>d, <2>1 DEF Cleanup, DTypes
  <2>2. DTypes'
    BY <1>d, <1>k, <2>1, <2>c DEF DTypes, DaemonStates
  <2>3. StepOf(x) /\ pc'[x] = "done"
    BY <1>d, <1>k, <2>1 DEF StepOf, DTypes, Quiet
  <2>4. Fits(x)
    BY <1>k, <2>1, <2>3 DEF Fits, Quiet
  <2>5. CallsMatch' /\ LaunchInv'
    <3>1. \A s \in Sessions : proc[s] = "none" /\ s # x => proc'[s] = "none"
      BY <2>c
    <3> QED
      BY <1>d, <2>3, <2>4, <3>1, MatchesKept, LaunchKept
  <2>6. \A y \in Stoppers \ {x} : pc'[y] = pc[y] /\ pc'[y] \notin {"listing", "sweeping"}
    BY <1>o, <2>1, <2>3, TaskKinds DEF StepOf
  <2>7. StoppersInTurn'
    BY <1>d, <1>k, <2>1, <2>3, <2>6, TaskKinds DEF StoppersInTurn
  <2>8. S!Creators' = {} /\ S!OpenSessions' = {}
    BY <1>d, <2>1, QuietOpen DEF ShutInv, Closing
  <2>9. ShutInv'
    BY <2>3, <2>6, <2>8 DEF ShutInv
  <2>10. StoppedKillsLaunched'
    BY <2>1, <2>c DEF StoppedKillsLaunched
  <2> QED
    BY <2>2, <2>5, <2>7, <2>9, <2>10 DEF DInv
<1> QED
  BY <1>1, <1>2, <1>3, <1>4, <1>5 DEF ShutdownStep

LEMMA WakeKeeps ==
  ASSUME ManagerInv, DInv, NEW t \in Tasks, Wake(t)
  PROVE  DInv'
<1>d. DTypes /\ CallsMatch /\ LaunchInv /\ ShutInv /\ StoppersInTurn
  BY DEF DInv
<1>1. PICK c : c = call[t]
  OBVIOUS
<1>2. /\ c \in S!Calls /\ c # S!Idle /\ S!Moved(t, c)
      /\ current' = IF call'[t] = S!Idle THEN t ELSE NoTask
  BY <1>1, WakeMoves, IdleFacts
<1>3. UNCHANGED <<daemon, pc, todo, target, procVars, bridge, stopper>>
  BY DEF Wake
<1>4. Matches(t, c, pc[t])
  BY <1>d, <1>1, <1>2 DEF CallsMatch
<1>5. /\ \A u \in Tasks \ {t} : call'[u] = call[u] /\ ret'[u] = ret[u]
      /\ call'[t] \in {S!Idle, c}
  BY <1>2 DEF S!Moved
<1>6. DTypes'
  BY <1>d, <1>2, <1>3 DEF DTypes
<1>7. StepOf(t)
  BY <1>2, <1>3, <1>5 DEF StepOf
<1>8. Fits(t)
  <2>1. t \in Sessions /\ pc[t] = "activating" => c.op = "activate" /\ c.sid = t
    BY <1>4, TaskKinds DEF Matches
  <2>2. t \in Sessions /\ pc[t] = "activating" /\ call'[t] = S!Idle /\ ret'[t] = "ok"
          => life'[t] = "ACTIVE"
    BY <1>2, <2>1 DEF S!Moved
  <2>3. call'[t] = S!Idle \/ Matches(t, call'[t], pc'[t])
    BY <1>3, <1>4, <1>5
  <2> QED
    BY <1>d, <1>3, <2>2, <2>3 DEF Fits, LaunchInv, StoppersInTurn
<1>9. Tame(t)
  BY <1>3 DEF Tame
<1>10. ShutInv'
  <2>1. CASE t \notin Stoppers
    BY <1>d, <1>1, <1>2, <1>3, <1>7, <2>1, ShutMoved
  <2>2. CASE t \in Stoppers
    <3>1. \/ pc[t] = "listing" /\ c.op = "list"
          \/ pc[t] = "sweeping" /\ c.op = "close"
      BY <1>4, <2>2, TaskKinds DEF Matches
    <3>2. /\ daemon = "SHUTTING_DOWN"
          /\ \A y \in Stoppers : pc[y] \in {"listing", "sweeping"} => y = t
      BY <1>d, <2>2, <3>1 DEF StoppersInTurn
    <3>3. CASE pc[t] = "listing"
      <4>1. S!CreatesAhead(t) /\ c.op = "list"
        BY <1>d, <1>1, <1>2, <2>2, <3>1, <3>3 DEF ShutInv, Listing
      <4>2. Listing(t)'
        BY <1>1, <1>2, <2>2, <4>1, ListedMoves
      <4> QED
        BY <1>3, <3>2, <3>3, <4>2 DEF ShutInv
    <3>4. CASE pc[t] = "sweeping"
      <4>1. c.op = "close" /\ S!Creators = {} /\ \A s \in S!OpenSessions : s \in todo'[t] \/ s = c.sid
        BY <1>d, <1>1, <1>3, <2>2, <3>1, <3>4 DEF ShutInv, Closing
      <4>2. Closing(t)'
        BY <1>2, <2>2, <4>1, ClosedMoves
      <4> QED
        BY <1>3, <3>2, <3>4, <4>2 DEF ShutInv
    <3> QED
      BY <3>1, <3>3, <3>4
  <2> QED
    BY <2>1, <2>2
<1> QED
  BY <1>6, <1>7, <1>8, <1>9, <1>10, TameKeeps

LEMMA SurroundingsKeep ==
  ASSUME ManagerInv, DInv,
         \/ Initialize \/ TimePasses \/ UNCHANGED vars
         \/ \E s \in Sessions : TargetExits(s) \/ PidReused(s)
  PROVE  DInv'
<1>d. DTypes /\ CallsMatch /\ LaunchInv /\ ShutInv /\ StoppersInTurn /\ StoppedKillsLaunched
  BY DEF DInv
<1>k. NoTask \notin Tasks /\ NoTask \notin Sessions /\ NoTask \notin Stoppers
  BY TaskKinds
<1>1. CASE Initialize
  <2>1. /\ daemon = "UNINITIALIZED" /\ daemon' = "RUNNING" /\ Quiet
        /\ UNCHANGED <<current, pc, todo, target, procVars, bridge, stopper>>
    BY <1>1 DEF Initialize, managerVars, Quiet
  <2>2. DTypes' /\ StoppersInTurn' /\ StoppedKillsLaunched'
    BY <1>d, <2>1 DEF DTypes, DaemonStates, StoppersInTurn, StoppedKillsLaunched
  <2>3. CallsMatch' /\ LaunchInv'
    BY <1>d, <2>1 DEF CallsMatch, LaunchInv, Matches, Quiet, S!Idle, Targeted
  <2>4. \A x \in Stoppers : pc[x] \notin {"listing", "sweeping"}
    BY <1>d, <2>1 DEF StoppersInTurn
  <2>5. ShutInv'
    BY <2>1, <2>4 DEF ShutInv
  <2> QED
    BY <2>2, <2>3, <2>5 DEF DInv
<1>2. ASSUME Quiet, UNCHANGED <<daemon, pc, todo, target, at, launched, jobs, external, bridge, stopper>>,
             current' \in {NoTask, current}, DTypes',
             \A s \in Sessions : /\ proc[s] = "none" => proc'[s] = "none"
                                 /\ proc'[s] = "alive" => proc[s] = "alive"
      PROVE  DInv'
  <2>1. CallsMatch'
    BY <1>d, <1>2 DEF CallsMatch, Matches, Quiet, S!Idle
  <2>2. LaunchInv'
    BY <1>d, <1>2, <1>k DEF LaunchInv, Quiet, S!Idle, Targeted
  <2>3. StoppersInTurn' /\ StoppedKillsLaunched'
    BY <1>d, <1>2 DEF StoppersInTurn, StoppedKillsLaunched, DTypes
  <2>4. ShutInv'
    BY <1>d, <1>2, QuietOpen DEF ShutInv, Listing, Closing, Quiet, S!Idle
  <2> QED
    BY <1>2, <2>1, <2>2, <2>3, <2>4 DEF DInv
<1>3. CASE TimePasses \/ UNCHANGED vars
  <2>1. Quiet /\ UNCHANGED daemonVars
    BY <1>3 DEF TimePasses, M!Tick, vars, managerVars, Quiet
  <2>2. DTypes'
    BY <1>d, <2>1 DEF DTypes, daemonVars
  <2> QED
    BY <1>2, <2>1, <2>2 DEF daemonVars
<1>4. ASSUME NEW s \in Sessions, TargetExits(s) \/ PidReused(s)
      PROVE  DInv'
  <2>1. /\ Quiet /\ UNCHANGED <<daemon, current, pc, todo, target, at, launched, jobs, external, bridge, stopper>>
        /\ \/ proc[s] = "alive" /\ proc' = [proc EXCEPT ![s] = "dead"]
           \/ proc[s] = "dead" /\ proc' = [proc EXCEPT ![s] = "recycled"]
    BY <1>4 DEF TargetExits, PidReused, managerVars, Quiet
  <2>2. DTypes'
    BY <1>d, <2>1 DEF DTypes
  <2>3. \A u \in Sessions : /\ proc[u] = "none" => proc'[u] = "none"
                            /\ proc'[u] = "alive" => proc[u] = "alive"
    BY <1>d, <2>1 DEF DTypes
  <2> QED
    BY <1>2, <2>1, <2>2, <2>3
<1> QED
  BY <1>1, <1>3, <1>4

LEMMA StepKeepsDInv ==
  ASSUME ManagerInv, DInv, [Next]_vars
  PROVE  DInv'
  BY LaunchKeeps, MaintenanceKeeps, ShutdownKeeps, WakeKeeps, SurroundingsKeep DEF Next

LEMMA InitDInv ==
  ASSUME Init
  PROVE  DInv
<1>1. call = [t \in Tasks |-> S!Idle]
  BY SameCalls DEF Init, M!Init
<1>2. DTypes /\ CallsMatch /\ LaunchInv
  BY <1>1, TaskKinds DEF Init, DTypes, DaemonStates, CallsMatch, LaunchInv, Targeted
<1>3. StoppersInTurn /\ ShutInv /\ StoppedKillsLaunched
  BY TaskKinds DEF Init, StoppersInTurn, ShutInv, StoppedKillsLaunched
<1> QED
  BY <1>2, <1>3 DEF DInv

(* The invariant holds in every state the daemon and its manager reach, whatever is   *)
(* launched, closed, killed or shut down in between.                                  *)
THEOREM DaemonInvHolds == Spec => [](ManagerInv /\ DInv)
<1>1. Init => DInv
  BY InitDInv
<1>2. ManagerInv /\ DInv /\ [Next]_vars => DInv'
  BY StepKeepsDInv
<1> QED
  BY <1>1, <1>2, ManagerInvHolds, PTL DEF Spec

(* The daemon's and the manager's variables keep their types.                     *)
THEOREM DaemonTypes == Spec => []TypeOK
<1>1. ManagerInv /\ DInv => TypeOK
  BY SameTypes DEF ManagerInv, S!IInv, DInv, DTypes, TypeOK
<1> QED
  BY <1>1, DaemonInvHolds, PTL

(* A daemon that has stopped has no open session: a launch that had passed the    *)
(* check of the daemon's state before the shutdown has created its session before *)
(* the shutdown lists them, because it is ahead of it in the lock's queue.        *)
THEOREM ShutdownClosesAll == Spec => []StoppedClosesSessions
<1>1. DInv => StoppedClosesSessions
  BY SameOpen DEF DInv, ShutInv, StoppedClosesSessions
<1> QED
  BY <1>1, DaemonInvHolds, PTL

(* A shutdown leaves no process of a job object alive, whatever its record says   *)
(* and whichever kills fail, and no step of the daemon ends an application it did *)
(* not launch (ProcessSupervisor.cleanup_all).                                    *)
THEOREM KillsExactlyItsOwn == Spec => KillsWhatItLaunched
<1>1. ASSUME ManagerInv, DInv, DInv', [Next]_vars
      PROVE  AttachedIsSpared
  <2>1. SUFFICES ASSUME NEW s \in Sessions, proc[s] = "alive", proc'[s] # "alive", s \notin launched
                 PROVE  UNCHANGED <<managerVars, daemon, pc>>
    BY DEF AttachedIsSpared
  <2>2. DTypes /\ LaunchInv
    BY <1>1 DEF DInv
  <2>3. ASSUME NEW u \in Sessions, NEW own \in BOOLEAN, Launch(u, own) \/ LaunchFails(u, own)
        PROVE  FALSE
    <3>1. proc[u] = "none"
      BY <2>2, <2>3 DEF Launch, LaunchFails, LaunchInv
    <3>2. \E p \in Sessions : \/ proc' = [proc EXCEPT ![p] = "alive"]
                              \/ p = u /\ proc' = [proc EXCEPT ![p] = "dead"]
      BY <2>3 DEF Launch, LaunchFails
    <3> QED
      BY <2>1, <2>2, <3>1, <3>2 DEF DTypes
  <2>4. ASSUME NEW x \in Stoppers, EndShutdown(x)
        PROVE  FALSE
    BY <2>1, <2>2, <2>4 DEF EndShutdown, Cleanup, DTypes
  <2>5. ASSUME NEW u \in Sessions, TargetExits(u) \/ PidReused(u)
        PROVE  UNCHANGED <<managerVars, daemon, pc>>
    BY <2>5 DEF TargetExits, PidReused
  <2>6. ASSUME UNCHANGED proc
        PROVE  FALSE
    BY <2>1, <2>6
  <2>7. ASSUME NEW u \in Sessions, LaunchStep(u)
        PROVE  FALSE
    <3>1. ASSUME LaunchRefused(u) \/ LaunchGoesOn(u) \/ Stumble(u)
          PROVE  FALSE
      BY <2>6, <3>1 DEF LaunchRefused, LaunchGoesOn, Created, BeginBind, EndBind, Connect, Activate,
                        Observe, Answer, Stumble
    <3> QED
      BY <2>3, <2>7, <3>1, DaemonAssumption DEF LaunchStep, LaunchBegins
  <2>8. ASSUME NEW m \in Maintainers, BeginCycle(m) \/ MaintenanceStep(m)
        PROVE  FALSE
    BY <2>6, <2>8 DEF BeginCycle, MaintenanceStep, ListForCycle, BeginSweep, CountActive, EndCycle,
                      SweepAlive, SweepDead, SweepRecycled
  <2>9. ASSUME NEW x \in Stoppers, BeginShutdown(x) \/ ShutdownAgain(x) \/ ShutdownStep(x)
        PROVE  FALSE
    BY <2>4, <2>6, <2>9 DEF BeginShutdown, ShutdownAgain, ShutdownStep, BeginClosing, CloseOne
  <2>10. CASE Initialize \/ TimePasses \/ (\E t \in Tasks : Wake(t)) \/ UNCHANGED vars
    BY <2>6, <2>10 DEF Initialize, TimePasses, Wake, vars, daemonVars
  <2> QED
    BY <1>1, <2>5, <2>7, <2>8, <2>9, <2>10 DEF Next
<1>2. ManagerInv /\ DInv /\ DInv' /\ [Next]_vars => [StoppedKillsLaunched' /\ AttachedIsSpared]_vars
  BY <1>1 DEF DInv
<1> QED
  BY <1>2, DaemonInvHolds, PTL DEF Spec, KillsWhatItLaunched

(* Who moves the place of a launch: its own steps only.                           *)
LEMMA OwnStepsOnly ==
  ASSUME ManagerInv, DInv, [Next]_vars, NEW s \in Sessions, pc'[s] # pc[s]
  PROVE  LaunchStep(s)
<1>1. pc = [t \in Tasks |-> pc[t]]
  BY DEF DInv, DTypes
<1>2. s \in Tasks /\ s \notin Maintainers /\ s \notin Stoppers
  BY TaskKinds
<1>3. ASSUME NEW u \in Sessions, LaunchStep(u), u # s
      PROVE  FALSE
  <2>1. \E to : pc' = [pc EXCEPT ![u] = to]
    BY <1>3 DEF LaunchStep, LaunchBegins, LaunchGoesOn, Launch, LaunchFails, LaunchRefused, Created,
          BeginBind, EndBind, Connect, Activate, Observe, Answer, Stumble, Goto
  <2> QED
    BY <1>1, <1>2, <1>3, <2>1
<1>4. ASSUME NEW m \in Maintainers, BeginCycle(m) \/ MaintenanceStep(m)
      PROVE  FALSE
  BY <1>1, <1>2, <1>4 DEF BeginCycle, MaintenanceStep, ListForCycle, BeginSweep, CountActive,
        EndCycle, SweepAlive, SweepDead, SweepRecycled, Goto
<1>5. ASSUME NEW x \in Stoppers, BeginShutdown(x) \/ ShutdownAgain(x) \/ ShutdownStep(x)
      PROVE  FALSE
  BY <1>1, <1>2, <1>5 DEF BeginShutdown, ShutdownAgain, ShutdownStep, BeginClosing, CloseOne,
        EndShutdown, Goto
<1>6. ASSUME \/ Initialize \/ TimePasses \/ (\E t \in Tasks : Wake(t)) \/ UNCHANGED vars
             \/ \E u \in Sessions : TargetExits(u) \/ PidReused(u)
      PROVE  FALSE
  BY <1>6 DEF Initialize, TimePasses, Wake, vars, daemonVars, TargetExits, PidReused
<1> QED
  BY <1>3, <1>4, <1>5, <1>6 DEF Next

(* While a launch observes its session, the session stays ACTIVE and connected    *)
(* unless somebody begins to close it.                                            *)
LeftAlone(s) ==
  \/ life[s] = "ACTIVE" /\ conn[s] = "CONNECTED"
  \/ life[s] \in {"DISCONNECTING", "CLOSED"}
Observed == \A s \in Sessions : pc[s] = "observing" => LeftAlone(s)

LEMMA EntersObserving ==
  ASSUME ManagerInv, DInv, [Next]_vars, NEW s \in Sessions, pc[s] # "observing", pc'[s] = "observing"
  PROVE  /\ life[s] = "ACTIVE" /\ conn[s] = "CONNECTED" /\ s \in target
         /\ UNCHANGED managerVars
<1>1. DTypes /\ LaunchInv /\ pc = [t \in Tasks |-> pc[t]] /\ s \in Tasks
  BY TaskKinds DEF DInv, DTypes
<1>2. LaunchStep(s)
  BY OwnStepsOnly
<1>3. Observe(s)
  BY <1>1, <1>2 DEF LaunchStep, LaunchBegins, LaunchGoesOn, Launch, LaunchFails, LaunchRefused,
        Created, BeginBind, EndBind, Connect, Activate, Answer, Stumble, Goto
<1>4. pc[s] = "activating" /\ current = s /\ call[s] = S!Idle /\ ret[s] = "ok"
  BY <1>3, SameCalls DEF Observe, Back, Runs
<1>5. life[s] = "ACTIVE" /\ s \in target
  BY <1>1, <1>4 DEF LaunchInv, Targeted
<1>6. conn[s] = "CONNECTED"
  BY <1>5 DEF ManagerInv, S!IInv, S!SessionInv, S!ConnectionFollowsLife, S!Operational
<1> QED
  BY <1>3, <1>5, <1>6 DEF Observe

(* An operation of the kinds the daemon awaits, whoever asks for it, ends the     *)
(* session or leaves it as it is.                                                 *)
Awaited == {"create", "connect", "activate", "close", "list", "prune"}

LEMMA BodyLeavesAlone ==
  ASSUME ManagerInv, NEW t \in Tasks, NEW c \in S!Calls, c.op \in Awaited, S!Body(t, c),
         NEW s \in Sessions, LeftAlone(s)
  PROVE  LeftAlone(s)'
<1>t. /\ life \in [Sessions -> S!LifecycleStates \cup {S!Absent}]
      /\ conn \in [Sessions -> S!ConnectionStates]
  BY DEF ManagerInv, S!IInv, S!TypeOK
<1>f. /\ life[s] # S!Absent
      /\ life[s] \in {"ACTIVE", "DISCONNECTING", "CLOSED"}
      /\ ~S!CanTransition(life[s], "CONNECTING")
      /\ life[s] # "ACTIVE" => ~S!CanTransition(life[s], "ACTIVE")
      /\ life[s] = "ACTIVE" => S!CanTransition(life[s], "DISCONNECTING")
  BY DEF LeftAlone, S!Absent, S!CanTransition, S!LifecycleStates, S!NextStates, S!Ends, S!Leave,
         S!Terminal
<1>c. c.sid \in Sessions \cup {NoSession} /\ (c.op \in S!Sweeps <=> c.sid = NoSession)
  BY DEF S!Calls
<1>1. CASE c.op = "create"
  BY <1>1, <1>f, <1>t DEF S!Body, S!Create, S!Raise, LeftAlone, S!Marks, S!MarkTarget
<1>2. CASE c.op = "connect"
  BY <1>2, <1>f, <1>t DEF S!Body, S!Connect, S!Raise, LeftAlone, S!Marks, S!MarkTarget
<1>3. CASE c.op = "activate"
  <2>1. S!Mark(t, c.op, c.sid) /\ S!MarkTarget[c.op] = "ACTIVE"
    BY <1>3 DEF S!Body, S!MarkTarget
  <2>2. UNCHANGED <<life, conn>> \/ (UNCHANGED conn /\ life' = [life EXCEPT ![c.sid] = "ACTIVE"]
                                      /\ S!CanTransition(life[c.sid], "ACTIVE"))
    BY <2>1 DEF S!Mark, S!Raise
  <2> QED
    BY <1>f, <1>t, <2>2 DEF LeftAlone
<1>4. CASE c.op = "close"
  <2>1. S!Close(t, c)
    BY <1>4 DEF S!Body, S!Marks, S!MarkTarget
  <2>2. \/ UNCHANGED <<life, conn>>
        \/ life' = [life EXCEPT ![c.sid] = "CLOSED"]
        \/ /\ S!CanTransition(life[c.sid], "DISCONNECTING")
           /\ life' = [life EXCEPT ![c.sid] = "DISCONNECTING"]
        \/ /\ ~S!CanTransition(life[c.sid], "DISCONNECTING")
           /\ life' = [life EXCEPT ![c.sid] = life[c.sid]]
           /\ conn' = [conn EXCEPT ![c.sid] = conn[c.sid]]
    BY <2>1 DEF S!Close, S!MarkClosed
  <2>3. c.sid \in Sessions
    BY <1>4, <1>c DEF S!Sweeps
  <2>4. CASE s = c.sid
    BY <1>f, <1>t, <2>2, <2>4 DEF LeftAlone
  <2>5. CASE s # c.sid
    <3>1. life'[s] = life[s] /\ conn'[s] = conn[s]
      BY <1>t, <2>1, <2>5 DEF S!Close, S!MarkClosed
    <3> QED
      BY <3>1 DEF LeftAlone
  <2> QED
    BY <2>4, <2>5
<1>5. CASE c.op = "prune"
  BY <1>5, <1>t DEF S!Body, S!Prune, LeftAlone, S!Marks, S!MarkTarget
<1>6. CASE c.op = "list"
  BY <1>6 DEF S!Body, LeftAlone, S!Marks, S!MarkTarget
<1> QED
  BY <1>1, <1>2, <1>3, <1>4, <1>5, <1>6 DEF Awaited

LEMMA AwaitLeavesAlone ==
  ASSUME ManagerInv, NEW t \in Tasks, NEW op, NEW sid, NEW why \in CloseReasons,
         Askable(op, sid), Await(t, op, sid, why), NEW s \in Sessions, LeftAlone(s)
  PROVE  LeftAlone(s)'
<1>1. PICK c : c = S!Request(op, sid, why)
  OBVIOUS
<1>2. clock \in Nat
  BY DEF ManagerInv, S!IInv, S!TypeOK, S!Time
<1>3. c.op = op /\ c.now \in Nat /\ c = [op |-> op, sid |-> sid, why |-> why, now |-> c.now]
  BY <1>1, <1>2 DEF S!Request
<1>4. op \in S!Ops /\ op \in Awaited /\ (op \in S!Sweeps <=> sid = NoSession)
      /\ sid \in Sessions \cup {NoSession}
  BY DaemonAssumption DEF Askable, S!Ops, S!Marks, S!MarkTarget, S!Sweeps, Awaited
<1>5. c \in S!Calls
  BY <1>3, <1>4 DEF S!Calls, S!Time
<1>6. S!CallUnknown(t, c) \/ S!CallFree(t, c) \/ S!CallQueue(t, c)
  BY <1>1, SameCalls, SameAsking DEF Await
<1>7. S!Body(t, c) \/ UNCHANGED <<life, conn>>
  BY <1>6 DEF S!CallUnknown, S!CallFree, S!CallQueue
<1> QED
  BY <1>3, <1>4, <1>5, <1>7, BodyLeavesAlone DEF LeftAlone

LEMMA StepLeavesAlone ==
  ASSUME ManagerInv, DInv, [Next]_vars, NEW s \in Sessions, LeftAlone(s)
  PROVE  LeftAlone(s)'
<1>r. "daemon_shutdown" \in CloseReasons /\ "target_process_exited" \in CloseReasons
  BY DEF CloseReasons
<1>u. UNCHANGED <<life, conn>> => LeftAlone(s)'
  BY DEF LeftAlone
<1>1. ASSUME NEW t \in Tasks, Wake(t)
      PROVE  LeftAlone(s)'
  <2>1. PICK c : c = call[t]
    OBVIOUS
  <2>2. c \in S!Calls /\ c # S!Idle
    BY <1>1, <2>1, WakeMoves, IdleFacts
  <2>3. Matches(t, c, pc[t])
    BY <2>1, <2>2 DEF DInv, CallsMatch
  <2>4. c.op \in Awaited
    BY <2>3 DEF Matches, Awaited
  <2>5. CASE S!Grant(t)
    <3>1. S!Body(t, c)
      BY <2>1, <2>5 DEF S!Grant
    <3> QED
      BY <2>2, <2>4, <3>1, BodyLeavesAlone
  <2>6. CASE S!FinishClose(t)
    <3>1. /\ life \in [Sessions -> S!LifecycleStates \cup {S!Absent}]
          /\ conn \in [Sessions -> S!ConnectionStates]
      BY DEF ManagerInv, S!IInv, S!TypeOK
    <3>2. UNCHANGED <<life, conn>>
          \/ \E x : /\ life' = [life EXCEPT ![x] = "CLOSED"]
                    /\ conn' = [conn EXCEPT ![x] = "DISCONNECTED"]
      BY <2>6 DEF S!FinishClose, S!MarkClosed
    <3>3. UNCHANGED <<life, conn>> \/ life'[s] = "CLOSED" \/ (life'[s] = life[s] /\ conn'[s] = conn[s])
      BY <3>1, <3>2
    <3> QED
      BY <3>3 DEF LeftAlone
  <2> QED
    BY <1>1, <2>5, <2>6, SameWaking DEF Wake
<1>2. ASSUME NEW u \in Sessions, LaunchStep(u)
      PROVE  LeftAlone(s)'
  <2>1. u \in Tasks
    BY TaskKinds
  <2>2. ASSUME NEW own \in BOOLEAN, Launch(u, own)
        PROVE  LeftAlone(s)'
    BY <1>r, <2>1, <2>2, AwaitLeavesAlone DEF Launch, Askable
  <2>3. CASE Connect(u) \/ Activate(u)
    BY <1>r, <2>1, <2>3, AwaitLeavesAlone DEF Connect, Activate, Askable
  <2>4. ASSUME \/ \E own \in BOOLEAN : LaunchFails(u, own)
               \/ LaunchRefused(u) \/ Created(u) \/ BeginBind(u) \/ EndBind(u) \/ Observe(u)
               \/ Answer(u) \/ Stumble(u)
        PROVE  UNCHANGED <<life, conn>>
    BY <2>4 DEF LaunchFails, LaunchRefused, Created, BeginBind, EndBind, Observe, Answer, Stumble,
                M!BindCore, managerVars
  <2> QED
    BY <1>2, <1>u, <2>2, <2>3, <2>4, DaemonAssumption DEF LaunchStep, LaunchBegins, LaunchGoesOn
<1>3. ASSUME NEW m \in Maintainers, BeginCycle(m) \/ MaintenanceStep(m)
      PROVE  LeftAlone(s)'
  <2>1. m \in Tasks
    BY TaskKinds
  <2>2. CASE BeginCycle(m) \/ ListForCycle(m) \/ CountActive(m)
    BY <1>r, <2>1, <2>2, AwaitLeavesAlone DEF BeginCycle, ListForCycle, CountActive, Askable
  <2>3. ASSUME NEW u \in Sessions, SweepDead(m, u)
        PROVE  LeftAlone(s)'
    BY <1>r, <2>1, <2>3, AwaitLeavesAlone DEF SweepDead, Askable
  <2>4. ASSUME \/ \E u \in Sessions : SweepAlive(m, u) \/ SweepRecycled(m, u)
               \/ BeginSweep(m) \/ EndCycle(m)
        PROVE  UNCHANGED <<life, conn>>
    BY <2>4 DEF SweepAlive, SweepRecycled, BeginSweep, EndCycle, managerVars
  <2> QED
    BY <1>3, <1>u, <2>2, <2>3, <2>4 DEF MaintenanceStep
<1>4. ASSUME NEW x \in Stoppers, BeginShutdown(x) \/ ShutdownAgain(x) \/ ShutdownStep(x)
      PROVE  LeftAlone(s)'
  <2>1. x \in Tasks
    BY TaskKinds
  <2>2. CASE BeginShutdown(x)
    BY <1>r, <2>1, <2>2, AwaitLeavesAlone DEF BeginShutdown, Askable
  <2>3. ASSUME NEW u \in Sessions, CloseOne(x, u)
        PROVE  LeftAlone(s)'
    BY <1>r, <2>1, <2>3, AwaitLeavesAlone DEF CloseOne, Askable
  <2>4. ASSUME ShutdownAgain(x) \/ BeginClosing(x) \/ EndShutdown(x)
        PROVE  UNCHANGED <<life, conn>>
    BY <2>4 DEF ShutdownAgain, BeginClosing, EndShutdown, managerVars
  <2> QED
    BY <1>4, <1>u, <2>2, <2>3, <2>4 DEF ShutdownStep
<1>5. ASSUME \/ Initialize \/ TimePasses \/ UNCHANGED vars
             \/ \E u \in Sessions : TargetExits(u) \/ PidReused(u)
      PROVE  UNCHANGED <<life, conn>>
  BY <1>5 DEF Initialize, TimePasses, TargetExits, PidReused, M!Tick, vars, managerVars
<1> QED
  BY <1>1, <1>2, <1>3, <1>4, <1>5, <1>u DEF Next

(* A launch goes on to its observation only with an ACTIVE, connected session     *)
(* that has a target, whatever others did to it on the way; and when it reports   *)
(* success the session is still that, or somebody has begun to close it           *)
(* (mcp/tools/lifecycle.py, the handlers of desktop_launch and desktop_attach).   *)
THEOREM LaunchesAreActive == Spec => LaunchedIsActive
<1>1. ASSUME ManagerInv, DInv, Observed, [Next]_vars
      PROVE  Observed'
  <2>1. SUFFICES ASSUME NEW s \in Sessions, pc'[s] = "observing"
                 PROVE  LeftAlone(s)'
    BY DEF Observed, LeftAlone
  <2>2. CASE pc[s] = "observing"
    BY <1>1, <2>2, StepLeavesAlone DEF Observed
  <2>3. CASE pc[s] # "observing"
    BY <1>1, <2>1, <2>3, EntersObserving DEF LeftAlone, managerVars
  <2> QED
    BY <2>2, <2>3
<1>2. ASSUME ManagerInv, DInv, Observed, [Next]_vars, NEW s \in Sessions, pc[s] # "done", pc'[s] = "done"
      PROVE  s \in target /\ LeftAlone(s)
  <2>1. DTypes /\ LaunchInv /\ pc = [t \in Tasks |-> pc[t]] /\ s \in Tasks
    BY <1>2, TaskKinds DEF DInv, DTypes
  <2>2. LaunchStep(s)
    BY <1>2, OwnStepsOnly
  <2>3. pc[s] = "observing"
    BY <1>2, <2>1, <2>2 DEF LaunchStep, LaunchBegins, LaunchGoesOn, Launch, LaunchFails,
          LaunchRefused, Created, BeginBind, EndBind, Connect, Activate, Observe, Answer, Stumble, Goto
  <2> QED
    BY <1>2, <2>1, <2>3 DEF Observed, LaunchInv, Targeted
<1>3. Init => Observed
  BY TaskKinds DEF Init, Observed
<1>4. ManagerInv /\ DInv /\ Observed /\ [Next]_vars =>
        [\A s \in Sessions :
           /\ pc[s] # "observing" /\ pc'[s] = "observing" =>
                life[s] = "ACTIVE" /\ conn[s] = "CONNECTED" /\ s \in target
           /\ pc[s] # "done" /\ pc'[s] = "done" =>
                /\ s \in target
                /\ \/ life[s] = "ACTIVE" /\ conn[s] = "CONNECTED"
                   \/ life[s] \in {"DISCONNECTING", "CLOSED"}]_vars
  BY <1>2, EntersObserving DEF LeftAlone
<1> QED
  BY <1>1, <1>3, <1>4, DaemonInvHolds, PTL DEF Spec, LaunchedIsActive

------------------------------------------------------------------------------------
(* Nobody is stuck: the event loop, the manager's lock, the bridge's lock and the *)
(* shutdown lock.                                                                 *)

(* Between two operations of the manager, where a coroutine does not suspend.     *)
Running == {"creating", "bound", "connecting", "activating", "pruning", "listing", "sweeping",
            "counting"}

LaunchPlaces == {"idle", "creating", "discovering", "binding", "bound", "connecting", "activating",
                 "observing", "failed", "done"}
CyclePlaces == {"idle", "pruning", "listing", "sweeping", "counting"}

(* The loop runs exactly the coroutine that waits for nothing; the bridge's lock  *)
(* is held exactly while a core connects; a session that has a target has had a   *)
(* process.                                                                       *)
OneRuns == \A t \in Tasks : current = t <=> call[t] = S!Idle /\ pc[t] \in Running
BridgeHeld == \A s \in Sessions : bridge = s <=> pc[s] = "binding"
Started == \A s \in Sessions : pc[s] = "creating" \/ s \in target => proc[at[s]] # "none"
Places ==
  /\ \A s \in Sessions : pc[s] \in LaunchPlaces
  /\ \A m \in Maintainers : pc[m] \in CyclePlaces /\ (pc[m] = "idle" => call[m] = S!Idle)

LoopInv == OneRuns /\ BridgeHeld /\ Started /\ Places

(* How far a launch or a shutdown has come.                                       *)
Stage(p) ==
  CASE p = "idle" -> 0 [] p = "creating" -> 1 [] p = "discovering" -> 2 [] p = "binding" -> 3
    [] p = "bound" -> 4 [] p = "connecting" -> 5 [] p = "activating" -> 6 [] p = "listing" -> 1
    [] p = "sweeping" -> 2 [] p = "observing" -> 7 [] p \in {"done", "failed"} -> 8 [] OTHER -> 0

(* A launch or a shutdown only goes forward, and what a sweep or a shutdown has   *)
(* listed only gets less.                                                         *)
Onward(t) ==
  /\ t \notin Maintainers /\ pc'[t] # pc[t] => Stage(pc'[t]) > Stage(pc[t])
  /\ t \notin Sessions /\ pc[t] = "sweeping" /\ pc'[t] = "sweeping" => todo'[t] \subseteq todo[t]

(* What a step of t does to all that.                                             *)
Turn(t) ==
  /\ \A u \in Tasks \ {t} : pc'[u] = pc[u] /\ call'[u] = call[u]
  /\ \A u \in (Maintainers \cup Stoppers) \ {t} : todo'[u] = todo[u]
  /\ current \in {t, NoTask} /\ current' \in {t, NoTask}
  /\ current' = t <=> call'[t] = S!Idle /\ pc'[t] \in Running
  /\ \A s \in Sessions : s # t => (bridge' = s <=> bridge = s)
  /\ t \in Sessions => (bridge' = t <=> pc'[t] = "binding") /\ pc'[t] \in LaunchPlaces
  /\ t \in Maintainers => pc'[t] \in CyclePlaces /\ (pc'[t] = "idle" => call'[t] = S!Idle)
  /\ \A s \in Sessions : proc'[s] = "none" => proc[s] = "none"
  /\ target' \subseteq target \cup {t}
  /\ \A s \in Sessions : s # t => at'[s] = at[s]
  /\ t \in Sessions /\ (pc'[t] = "creating" \/ t \in target') => proc'[at'[t]] # "none"
  /\ t \notin Sessions => target' = target
  /\ Onward(t)

LEMMA Stages ==
  /\ Stage("idle") = 0 /\ Stage("creating") = 1 /\ Stage("discovering") = 2 /\ Stage("binding") = 3
  /\ Stage("bound") = 4 /\ Stage("connecting") = 5 /\ Stage("activating") = 6
  /\ Stage("listing") = 1 /\ Stage("sweeping") = 2 /\ Stage("observing") = 7
  /\ Stage("done") = 8 /\ Stage("failed") = 8
  BY DEF Stage

LEMMA TurnKeeps ==
  ASSUME DInv, LoopInv, NEW t \in Tasks, Turn(t)
  PROVE  LoopInv' /\ \A u \in Tasks : Onward(u)
<1>1. \A u \in Tasks : u # t => u # NoTask /\ current # u /\ current' # u
  BY TaskKinds DEF Turn
<1>2. OneRuns'
  <2>1. ASSUME NEW u \in Tasks
        PROVE  current' = u <=> call'[u] = S!Idle /\ pc'[u] \in Running
    <3>1. CASE u = t BY <3>1 DEF Turn
    <3>2. CASE u # t BY <1>1, <3>2 DEF Turn, LoopInv, OneRuns
    <3>. QED BY <3>1, <3>2
  <2>. QED BY <2>1 DEF OneRuns, S!Idle, Running
<1>3. BridgeHeld'
  BY TaskKinds DEF Turn, LoopInv, BridgeHeld
<1>4. Started'
  <2>1. SUFFICES ASSUME NEW s \in Sessions, pc'[s] = "creating" \/ s \in target'
                 PROVE  proc'[at'[s]] # "none"
    BY DEF Started
  <2>2. CASE s = t
    BY <2>1, <2>2 DEF Turn
  <2>3. CASE s # t
    <3>1. s \in Tasks /\ at'[s] = at[s] /\ pc'[s] = pc[s] /\ at[s] \in Sessions
      BY <2>3, TaskKinds DEF Turn, DInv, DTypes
    <3>2. pc[s] = "creating" \/ s \in target
      BY <2>1, <2>3, <3>1 DEF Turn
    <3> QED
      BY <3>1, <3>2 DEF Turn, LoopInv, Started
  <2> QED
    BY <2>2, <2>3
<1>5. Places'
  BY TaskKinds DEF Turn, LoopInv, Places, LaunchPlaces, CyclePlaces, S!Idle
<1>6. \A u \in Tasks : Onward(u)
  BY TaskKinds DEF Turn, Onward, Tasks
<1>. QED BY <1>2, <1>3, <1>4, <1>5, <1>6 DEF LoopInv

LEMMA LaunchTurns ==
  ASSUME ManagerInv, DInv, LoopInv, NEW s \in Sessions, LaunchStep(s)
  PROVE  Turn(s)
<1>r. "daemon_shutdown" \in CloseReasons
  BY DEF CloseReasons
<1>k. s \in Tasks /\ s \notin Stoppers /\ s \notin Maintainers /\ s # NoTask
  BY TaskKinds
<1>d. DTypes /\ CallsMatch
  BY DEF DInv
<1>b. /\ bridge = s <=> pc[s] = "binding"
      /\ pc[s] = "creating" \/ s \in target => proc[at[s]] # "none"
  BY DEF LoopInv, BridgeHeld, Started
<1>c. pc[s] \notin {"creating", "connecting", "activating"} => call[s] = S!Idle
  BY <1>d, <1>k DEF CallsMatch, Matches
<1>1. ASSUME NEW from \in LaunchPlaces, NEW to \in LaunchPlaces, Stage(to) > Stage(from), pc[s] = from,
             pc' = [pc EXCEPT ![s] = to],
             \A u \in Tasks \ {s} : call'[u] = call[u],
             current \in {s, NoTask}, current' = IF call'[s] = S!Idle /\ to \in Running THEN s ELSE NoTask,
             \/ bridge' = bridge /\ from # "binding" /\ to # "binding"
             \/ bridge = NoTask /\ bridge' = s /\ to = "binding"
             \/ from = "binding" /\ bridge' = NoTask /\ to # "binding",
             \A u \in Sessions : proc'[u] = "none" => proc[u] = "none",
             target' \subseteq target \cup {s}, \A u \in Sessions : u # s => at'[u] = at[u],
             to = "creating" \/ s \in target' => proc'[at'[s]] # "none", UNCHANGED todo
      PROVE  Turn(s)
  <2>1. pc'[s] = to /\ \A u \in Tasks \ {s} : pc'[u] = pc[u]
    BY <1>1, <1>k, <1>d DEF DTypes
  <2>2. Onward(s)
    BY <2>1, <1>1 DEF Onward
  <2>3. /\ \A u \in Sessions : u # s => (bridge' = u <=> bridge = u)
        /\ bridge' = s <=> to = "binding"
    BY <1>1, <1>b, <1>k, TaskKinds
  <2>4. current' = s <=> call'[s] = S!Idle /\ to \in Running
    BY <1>1, <1>k
  <2>. QED BY <1>1, <1>k, <2>1, <2>2, <2>3, <2>4 DEF Turn
<1>2. ASSUME NEW own \in BOOLEAN, Launch(s, own)
      PROVE  Turn(s)
  <2>1. Asked(s, "create", s)
    BY <1>r, <1>k, <1>2, AwaitAsks DEF Launch, Askable
  <2>2. /\ pc[s] = "idle" /\ pc' = [pc EXCEPT ![s] = "creating"]
        /\ current = NoTask
        /\ UNCHANGED <<todo, target, bridge>>
    BY <1>2 DEF Launch, Goto, Resumes
  <2>p. PICK p \in Sessions : at' = [at EXCEPT ![s] = p] /\ proc' = [proc EXCEPT ![p] = "alive"]
    BY <1>2 DEF Launch
  <2>3. current' = IF call'[s] = S!Idle /\ "creating" \in Running THEN s ELSE NoTask
    BY <2>1 DEF Asked, Running
  <2>4. /\ \A u \in Sessions : (proc'[u] = "none" => proc[u] = "none") /\ (u # s => at'[u] = at[u])
        /\ proc'[at'[s]] # "none"
    BY <2>p, <1>d DEF DTypes
  <2>5. \A u \in Tasks \ {s} : call'[u] = call[u]
    BY <1>k, <2>1, AskedFacts
  <2>. QED BY <1>1, <2>2, <2>3, <2>4, <2>5, Stages DEF LaunchPlaces
<1>3. ASSUME NEW own \in BOOLEAN, LaunchFails(s, own)
      PROVE  Turn(s)
  <2>2. /\ pc[s] = "idle" /\ pc' = [pc EXCEPT ![s] = "failed"]
        /\ current = NoTask /\ current' = NoTask
        /\ UNCHANGED <<todo, target, at, bridge, call>>
    BY <1>3 DEF LaunchFails, Goto, Resumes, Suspend, managerVars
  <2>p. PICK p \in Sessions, how \in {"alive", "dead"} : proc' = [proc EXCEPT ![p] = how]
    BY <1>3 DEF LaunchFails
  <2>4. \A u \in Sessions : proc'[u] = "none" => proc[u] = "none"
    BY <2>p, <1>d DEF DTypes
  <2>5. s \in target' => proc'[at'[s]] # "none"
    BY <1>b, <1>d, <2>2, <2>4 DEF DTypes
  <2>. QED BY <1>1, <2>2, <2>4, <2>5, Stages DEF LaunchPlaces, Running
<1>4. CASE LaunchRefused(s)
  <2>2. /\ pc[s] = "idle" /\ pc' = [pc EXCEPT ![s] = "failed"]
        /\ current = NoTask /\ current' = NoTask
        /\ UNCHANGED <<todo, target, bridge, call, proc, at>>
    BY <1>4 DEF LaunchRefused, Goto, Resumes, Suspend, managerVars
  <2>. QED BY <1>1, <1>b, <2>2, Stages DEF LaunchPlaces, Running
<1>5. CASE Created(s)
  <2>2. /\ pc[s] = "creating" /\ pc' = [pc EXCEPT ![s] = "discovering"]
        /\ current = s /\ current' = NoTask /\ target' = target \cup {s}
        /\ UNCHANGED <<todo, bridge, call, proc, at>>
    BY <1>5 DEF Created, Back, Runs, Goto, Suspend, managerVars
  <2>. QED BY <1>1, <1>b, <2>2, Stages DEF LaunchPlaces, Running
<1>6. CASE BeginBind(s)
  <2>2. /\ pc[s] = "discovering" /\ pc' = [pc EXCEPT ![s] = "binding"]
        /\ current = NoTask /\ current' = NoTask /\ bridge = NoTask /\ bridge' = s
        /\ UNCHANGED <<todo, target, call, proc, at>>
    BY <1>6 DEF BeginBind, Resumes, Goto, Suspend, managerVars
  <2>. QED BY <1>1, <1>b, <2>2, Stages DEF LaunchPlaces, Running
<1>7. CASE EndBind(s)
  <2>2. /\ pc[s] = "binding" /\ pc' = [pc EXCEPT ![s] = "bound"]
        /\ current = NoTask /\ current' = s /\ bridge' = NoTask
        /\ UNCHANGED <<todo, target, call, proc, at>>
    BY <1>7 DEF EndBind, M!BindCore, Resumes, Goto, managerVars
  <2>3. call'[s] = S!Idle BY <1>c, <2>2
  <2>. QED BY <1>1, <1>b, <2>2, <2>3, Stages DEF LaunchPlaces, Running
<1>8. ASSUME NEW op \in {"connect", "activate"}, NEW from, NEW to, Asked(s, op, s), pc[s] = from,
             <<from, to>> \in {<<"bound", "connecting">>, <<"connecting", "activating">>},
             pc' = [pc EXCEPT ![s] = to], current = s, UNCHANGED <<todo, target, proc, at, bridge>>
      PROVE  Turn(s)
  <2>1. \A u \in Tasks \ {s} : call'[u] = call[u]
    BY <1>k, <1>8, AskedFacts
  <2>2. current' = IF call'[s] = S!Idle /\ to \in Running THEN s ELSE NoTask
    BY <1>8 DEF Asked, Running
  <2>3. from \in LaunchPlaces /\ to \in LaunchPlaces /\ Stage(to) > Stage(from)
        /\ from # "binding" /\ to # "binding" /\ to # "creating"
    BY <1>8, Stages DEF LaunchPlaces
  <2>. QED BY <1>1, <1>8, <1>b, <2>1, <2>2, <2>3
<1>9. CASE Connect(s)
  <2>1. Asked(s, "connect", s)
    BY <1>r, <1>k, <1>9, AwaitAsks DEF Connect, Askable
  <2>2. pc[s] = "bound" /\ pc' = [pc EXCEPT ![s] = "connecting"] /\ current = s
        /\ UNCHANGED <<todo, target, proc, at, bridge>>
    BY <1>9 DEF Connect, Back, Runs, Goto
  <2>. QED BY <1>8, <2>1, <2>2
<1>10. CASE Activate(s)
  <2>1. Asked(s, "activate", s)
    BY <1>r, <1>k, <1>10, AwaitAsks DEF Activate, Askable
  <2>2. pc[s] = "connecting" /\ pc' = [pc EXCEPT ![s] = "activating"] /\ current = s
        /\ UNCHANGED <<todo, target, proc, at, bridge>>
    BY <1>10 DEF Activate, Back, Runs, Goto
  <2>. QED BY <1>8, <2>1, <2>2
<1>11. CASE Observe(s) \/ Answer(s) \/ (Stumble(s) /\ pc[s] = "discovering")
  <2>2. PICK to \in {"observing", "done", "failed"} :
               pc' = [pc EXCEPT ![s] = to] /\ (to = "observing" => pc[s] = "activating")
    BY <1>11 DEF Observe, Answer, Stumble, Back, Goto
  <2>1. UNCHANGED <<managerVars, todo, target, bridge, proc, at>> /\ current' = NoTask
    BY <1>11 DEF Observe, Answer, Stumble, Suspend
  <2>3. /\ pc[s] \in {"activating", "connecting", "observing", "discovering"}
        /\ pc[s] = "observing" => to # "observing"
        /\ current \in {s, NoTask} /\ current' = NoTask
        /\ UNCHANGED <<todo, target, bridge, call, proc, at>>
    <3>1. \/ Back(s, "activating") \/ Back(s, "connecting")
          \/ Resumes(s) /\ pc[s] \in {"observing", "discovering"}
      BY <1>11 DEF Observe, Answer, Stumble
    <3>2. /\ pc[s] \in {"activating", "connecting", "observing", "discovering"}
          /\ current \in {s, NoTask}
      BY <3>1 DEF Back, Runs, Resumes
    <3>3. UNCHANGED call BY <2>1 DEF managerVars
    <3>. QED BY <2>1, <2>2, <3>2, <3>3
  <2>4. Stage(to) > Stage(pc[s]) /\ to \notin Running BY <2>2, <2>3, Stages DEF Running
  <2>5. pc[s] \in LaunchPlaces /\ to \in LaunchPlaces BY <2>2, <2>3 DEF LaunchPlaces
  <2>6. \A u \in Tasks \ {s} : call'[u] = call[u] BY <2>3
  <2>7. pc[s] # "binding" /\ to # "binding" /\ to # "creating" BY <2>2, <2>3
  <2>8. /\ current \in {s, NoTask}
        /\ current' = IF call'[s] = S!Idle /\ to \in Running THEN s ELSE NoTask
    BY <2>3, <2>4
  <2>9. s \in target' => proc'[at'[s]] # "none" BY <1>b, <2>3
  <2>10. \A u \in Sessions : (proc'[u] = "none" => proc[u] = "none") /\ at'[u] = at[u] BY <2>3
  <2>. QED BY <1>1, <2>2, <2>3, <2>4, <2>5, <2>6, <2>7, <2>8, <2>9, <2>10
<1>12. CASE Stumble(s) /\ pc[s] = "binding"
  <2>2. /\ pc[s] = "binding" /\ pc' = [pc EXCEPT ![s] = "failed"]
        /\ current = NoTask /\ current' = NoTask /\ bridge' = NoTask
        /\ UNCHANGED <<todo, target, call, proc, at>>
    BY <1>12 DEF Stumble, M!BindCore, Resumes, Goto, Suspend, managerVars
  <2>. QED BY <1>1, <1>b, <2>2, Stages DEF LaunchPlaces, Running
<1>13. Stumble(s) => pc[s] \in {"discovering", "binding"}
  BY DEF Stumble
<1>. QED
  BY <1>2, <1>3, <1>4, <1>5, <1>6, <1>7, <1>9, <1>10, <1>11, <1>12, <1>13, DaemonAssumption
     DEF LaunchStep, LaunchBegins, LaunchGoesOn

LEMMA CycleTurns ==
  ASSUME ManagerInv, DInv, LoopInv, NEW m \in Maintainers, BeginCycle(m) \/ MaintenanceStep(m)
  PROVE  Turn(m)
<1>r. "target_process_exited" \in CloseReasons
  BY DEF CloseReasons
<1>k. m \in Tasks /\ m \notin Stoppers /\ m \notin Sessions /\ m # NoTask
  BY TaskKinds
<1>d. DTypes
  BY DEF DInv
<1>1. ASSUME NEW to \in CyclePlaces, NEW left \in SUBSET Sessions, pc' = [pc EXCEPT ![m] = to],
             todo' = [todo EXCEPT ![m] = left], pc[m] = "sweeping" /\ to = "sweeping" => left \subseteq todo[m],
             \A u \in Tasks \ {m} : call'[u] = call[u],
             current \in {m, NoTask}, current' = IF call'[m] = S!Idle /\ to \in Running THEN m ELSE NoTask,
             to = "idle" => call'[m] = S!Idle, UNCHANGED <<target, proc, at, bridge>>
      PROVE  Turn(m)
  <2>1. pc'[m] = to /\ \A u \in Tasks \ {m} : pc'[u] = pc[u]
    BY <1>1, <1>k, <1>d DEF DTypes
  <2>2. todo'[m] = left /\ \A u \in (Maintainers \cup Stoppers) \ {m} : todo'[u] = todo[u]
    BY <1>1, <1>k, <1>d DEF DTypes
  <2>3. Onward(m)
    BY <2>1, <2>2, <1>1 DEF Onward
  <2>4. current' = m <=> call'[m] = S!Idle /\ to \in Running
    BY <1>1, <1>k
  <2>. QED BY <1>1, <1>k, <2>1, <2>2, <2>3, <2>4 DEF Turn
<1>t. /\ todo[m] \in SUBSET Sessions /\ todo = [todo EXCEPT ![m] = todo[m]]
      /\ pc[m] = "sweeping" => pc = [pc EXCEPT ![m] = "sweeping"]
  BY <1>d, <1>k DEF DTypes
<1>2. ASSUME NEW op, NEW sid, Asked(m, op, sid),
             NEW to \in CyclePlaces \ {"idle"}, NEW left \in SUBSET Sessions, left \subseteq todo[m],
             pc' = [pc EXCEPT ![m] = to], todo' = [todo EXCEPT ![m] = left], current \in {m, NoTask},
             UNCHANGED <<target, proc, at, bridge>>
      PROVE  Turn(m)
  <2>1. \A u \in Tasks \ {m} : call'[u] = call[u]
    BY <1>k, <1>2, AskedFacts
  <2>2. current' = IF call'[m] = S!Idle /\ to \in Running THEN m ELSE NoTask
    BY <1>2 DEF Asked, Running, CyclePlaces
  <2>3. to \in CyclePlaces /\ to # "idle" BY <1>2
  <2>. QED BY <1>1, <1>2, <2>1, <2>2, <2>3
<1>3. CASE BeginCycle(m)
  <2>1. Asked(m, "prune", NoSession)
    BY <1>r, <1>k, <1>3, AwaitAsks DEF BeginCycle, Askable
  <2>2. /\ pc' = [pc EXCEPT ![m] = "pruning"] /\ current = NoTask
        /\ UNCHANGED <<todo, target, proc, at, bridge>>
    BY <1>3 DEF BeginCycle, Resumes, Goto
  <2>3. "pruning" \in CyclePlaces \ {"idle"} BY DEF CyclePlaces
  <2>. QED BY <1>2, <1>t, <2>1, <2>2, <2>3
<1>4. CASE ListForCycle(m)
  <2>1. Asked(m, "list", NoSession)
    BY <1>r, <1>k, <1>4, AwaitAsks DEF ListForCycle, Askable
  <2>2. /\ pc' = [pc EXCEPT ![m] = "listing"] /\ current = m
        /\ UNCHANGED <<todo, target, proc, at, bridge>>
    BY <1>4 DEF ListForCycle, Back, Runs, Goto
  <2>3. "listing" \in CyclePlaces \ {"idle"} BY DEF CyclePlaces
  <2>. QED BY <1>2, <1>t, <2>1, <2>2, <2>3
<1>5. CASE CountActive(m)
  <2>1. Asked(m, "list", NoSession)
    BY <1>r, <1>k, <1>5, AwaitAsks DEF CountActive, Askable
  <2>2. /\ pc' = [pc EXCEPT ![m] = "counting"] /\ current = m
        /\ UNCHANGED <<todo, target, proc, at, bridge>>
    BY <1>5 DEF CountActive, Back, Runs, Goto
  <2>3. "counting" \in CyclePlaces \ {"idle"} BY DEF CyclePlaces
  <2>. QED BY <1>2, <1>t, <2>1, <2>2, <2>3
<1>6. ASSUME NEW s \in Sessions, SweepDead(m, s)
      PROVE  Turn(m)
  <2>1. Asked(m, "close", s) /\ pc[m] = "sweeping" /\ current = m
    BY <1>r, <1>k, <1>6, AwaitAsks DEF SweepDead, Back, Runs, Askable
  <2>2. /\ todo' = [todo EXCEPT ![m] = todo[m] \ {s}] /\ UNCHANGED <<pc, target, proc, at, bridge>>
    BY <1>6 DEF SweepDead
  <2>3. pc' = [pc EXCEPT ![m] = "sweeping"] BY <1>t, <2>1, <2>2
  <2>4. "sweeping" \in CyclePlaces \ {"idle"} BY DEF CyclePlaces
  <2>5. todo[m] \ {s} \in SUBSET Sessions /\ todo[m] \ {s} \subseteq todo[m] BY <1>t
  <2>. QED BY <1>2, <2>1, <2>2, <2>3, <2>4, <2>5
<1>7. CASE BeginSweep(m)
  <2>1. M!OpenSessions \in SUBSET Sessions
    BY DEF M!OpenSessions
  <2>2. /\ pc[m] = "listing" /\ pc' = [pc EXCEPT ![m] = "sweeping"] /\ current = m /\ current' = m
        /\ todo' = [todo EXCEPT ![m] = M!OpenSessions] /\ UNCHANGED <<call, target, proc, at, bridge>>
    BY <1>7 DEF BeginSweep, Back, Runs, Goto, managerVars
  <2>3. call'[m] = S!Idle
    BY <1>7, <2>2, SameCalls DEF BeginSweep, Back
  <2>4. "sweeping" \in CyclePlaces /\ "sweeping" \in Running BY DEF CyclePlaces, Running
  <2>. QED BY <1>1, <2>1, <2>2, <2>3, <2>4
<1>8. ASSUME NEW s \in Sessions, SweepAlive(m, s)
      PROVE  Turn(m)
  <2>1. /\ pc[m] = "sweeping" /\ current = m /\ current' = m
        /\ todo' = [todo EXCEPT ![m] = todo[m] \ {s}] /\ UNCHANGED <<pc, call, target, proc, at, bridge>>
    BY <1>8 DEF SweepAlive, Back, Runs, managerVars
  <2>2. pc' = [pc EXCEPT ![m] = "sweeping"] BY <1>t, <2>1
  <2>3. call'[m] = S!Idle
    BY <1>8, <2>1, SameCalls DEF SweepAlive, Back
  <2>4. "sweeping" \in CyclePlaces /\ "sweeping" \in Running BY DEF CyclePlaces, Running
  <2>5. todo[m] \ {s} \in SUBSET Sessions /\ todo[m] \ {s} \subseteq todo[m] BY <1>t
  <2>. QED BY <1>1, <2>1, <2>2, <2>3, <2>4, <2>5
<1>9. ASSUME NEW s \in Sessions, SweepRecycled(m, s)
      PROVE  Turn(m)
  <2>1. /\ current = m /\ current' = NoTask /\ pc' = [pc EXCEPT ![m] = "idle"]
        /\ todo' = [todo EXCEPT ![m] = {}] /\ UNCHANGED <<call, target, proc, at, bridge>>
    BY <1>9 DEF SweepRecycled, Back, Runs, Goto, Suspend, managerVars
  <2>4. call'[m] = S!Idle
    BY <1>9, <2>1, SameCalls DEF SweepRecycled, Back
  <2>2. "idle" \in CyclePlaces /\ "idle" \notin Running BY DEF CyclePlaces, Running
  <2>3. {} \in SUBSET Sessions OBVIOUS
  <2>. QED BY <1>1, <2>1, <2>2, <2>3, <2>4
<1>10. CASE EndCycle(m)
  <2>1. /\ current = m /\ current' = NoTask /\ pc' = [pc EXCEPT ![m] = "idle"]
        /\ UNCHANGED <<todo, call, target, proc, at, bridge>>
    BY <1>10 DEF EndCycle, Back, Runs, Goto, Suspend, managerVars
  <2>4. call'[m] = S!Idle
    BY <1>10, <2>1, SameCalls DEF EndCycle, Back
  <2>2. "idle" \in CyclePlaces /\ "idle" \notin Running BY DEF CyclePlaces, Running
  <2>. QED BY <1>1, <1>t, <2>1, <2>2, <2>4
<1>. QED
  BY <1>3, <1>4, <1>5, <1>6, <1>7, <1>8, <1>9, <1>10 DEF MaintenanceStep

LEMMA ShutdownTurns ==
  ASSUME ManagerInv, DInv, LoopInv, NEW x \in Stoppers,
         BeginShutdown(x) \/ ShutdownAgain(x) \/ ShutdownStep(x)
  PROVE  Turn(x)
<1>r. "daemon_shutdown" \in CloseReasons
  BY DEF CloseReasons
<1>k. x \in Tasks /\ x \notin Maintainers /\ x \notin Sessions /\ x # NoTask
  BY TaskKinds
<1>d. DTypes
  BY DEF DInv
<1>1. ASSUME NEW to \in {"listing", "sweeping", "done"}, pc' = [pc EXCEPT ![x] = to], pc[x] # to => Stage(to) > Stage(pc[x]),
             \A u \in Tasks \ {x} : call'[u] = call[u],
             \A u \in (Maintainers \cup Stoppers) \ {x} : todo'[u] = todo[u],
             pc[x] = "sweeping" /\ to = "sweeping" => todo'[x] \subseteq todo[x],
             current \in {x, NoTask}, current' = IF call'[x] = S!Idle /\ to \in Running THEN x ELSE NoTask,
             \A s \in Sessions : proc'[s] = "none" => proc[s] = "none", UNCHANGED <<target, at, bridge>>
      PROVE  Turn(x)
  <2>1. pc'[x] = to /\ \A u \in Tasks \ {x} : pc'[u] = pc[u]
    BY <1>1, <1>k, <1>d DEF DTypes
  <2>2. Onward(x)
    BY <2>1, <1>1 DEF Onward
  <2>3. current' = x <=> call'[x] = S!Idle /\ to \in Running
    BY <1>1, <1>k
  <2>. QED BY <1>1, <1>k, <2>1, <2>2, <2>3 DEF Turn
<1>t. /\ todo[x] \in SUBSET Sessions /\ \A u \in (Maintainers \cup Stoppers) \ {x} : todo[u] = todo[u]
      /\ pc[x] = "sweeping" => pc = [pc EXCEPT ![x] = "sweeping"]
  BY <1>d, <1>k DEF DTypes
<1>2. CASE BeginShutdown(x)
  <2>1. Asked(x, "list", NoSession)
    BY <1>r, <1>k, <1>2, AwaitAsks DEF BeginShutdown, Askable
  <2>2. /\ pc[x] = "idle" /\ pc' = [pc EXCEPT ![x] = "listing"] /\ current = NoTask
        /\ UNCHANGED <<todo, target, proc, at, bridge>>
    BY <1>2 DEF BeginShutdown, Resumes, Goto
  <2>3. current' = IF call'[x] = S!Idle /\ "listing" \in Running THEN x ELSE NoTask
    BY <2>1 DEF Asked, Running
  <2>4. \A u \in Tasks \ {x} : call'[u] = call[u]
    BY <1>k, <2>1, AskedFacts
  <2>5. Stage("listing") > Stage(pc[x]) /\ pc[x] # "sweeping" BY <2>2, Stages
  <2>. QED BY <1>1, <2>2, <2>3, <2>4, <2>5
<1>3. CASE ShutdownAgain(x)
  <2>2. /\ pc[x] = "idle" /\ pc' = [pc EXCEPT ![x] = "done"] /\ current = NoTask /\ current' = NoTask
        /\ UNCHANGED <<todo, call, target, proc, at, bridge>>
    BY <1>3 DEF ShutdownAgain, Resumes, Suspend, Goto, managerVars
  <2>3. Stage("done") > Stage(pc[x]) /\ "done" \notin Running BY <2>2, Stages DEF Running
  <2>4. \A u \in Tasks \ {x} : call'[u] = call[u] BY <2>2
  <2>5. \A u \in (Maintainers \cup Stoppers) \ {x} : todo'[u] = todo[u] BY <2>2
  <2>. QED BY <1>1, <2>2, <2>3, <2>4, <2>5
<1>4. CASE BeginClosing(x)
  <2>2. /\ pc[x] = "listing" /\ pc' = [pc EXCEPT ![x] = "sweeping"] /\ current = x /\ current' = x
        /\ todo' = [todo EXCEPT ![x] = M!OpenSessions] /\ UNCHANGED <<call, target, proc, at, bridge>>
    BY <1>4 DEF BeginClosing, Back, Runs, Goto, managerVars
  <2>3. call'[x] = S!Idle
    BY <1>4, <2>2, SameCalls DEF BeginClosing, Back
  <2>4. \A u \in (Maintainers \cup Stoppers) \ {x} : todo'[u] = todo[u]
    BY <1>d, <2>2 DEF DTypes
  <2>5. Stage("sweeping") > Stage(pc[x]) /\ pc[x] # "sweeping" /\ "sweeping" \in Running
    BY <2>2, Stages DEF Running
  <2>6. \A u \in Tasks \ {x} : call'[u] = call[u] BY <2>2
  <2>. QED BY <1>1, <2>2, <2>3, <2>4, <2>5, <2>6
<1>5. ASSUME NEW s \in Sessions, CloseOne(x, s)
      PROVE  Turn(x)
  <2>1. Asked(x, "close", s) /\ pc[x] = "sweeping" /\ current = x
    BY <1>r, <1>k, <1>5, AwaitAsks DEF CloseOne, Back, Runs, Askable
  <2>2. /\ todo' = [todo EXCEPT ![x] = todo[x] \ {s}] /\ UNCHANGED <<pc, target, proc, at, bridge>>
    BY <1>5 DEF CloseOne
  <2>3. pc' = [pc EXCEPT ![x] = "sweeping"] BY <1>t, <2>1, <2>2
  <2>4. /\ todo'[x] \subseteq todo[x]
        /\ \A u \in (Maintainers \cup Stoppers) \ {x} : todo'[u] = todo[u]
    BY <1>d, <2>2 DEF DTypes
  <2>5. current' = IF call'[x] = S!Idle /\ "sweeping" \in Running THEN x ELSE NoTask
    BY <2>1 DEF Asked, Running
  <2>6. \A u \in Tasks \ {x} : call'[u] = call[u]
    BY <1>k, <2>1, AskedFacts
  <2>. QED BY <1>1, <2>1, <2>2, <2>3, <2>4, <2>5, <2>6
<1>6. CASE EndShutdown(x)
  <2>2. /\ pc[x] = "sweeping" /\ pc' = [pc EXCEPT ![x] = "done"] /\ current = x /\ current' = NoTask
        /\ UNCHANGED <<call, todo, target, at, bridge>>
    BY <1>6 DEF EndShutdown, Back, Runs, Goto, Suspend, managerVars
  <2>3. \A s \in Sessions : proc'[s] = "none" => proc[s] = "none"
    BY <1>6 DEF EndShutdown, Cleanup
  <2>4. Stage("done") > Stage(pc[x]) /\ "done" \notin Running BY <2>2, Stages DEF Running
  <2>5. \A u \in Tasks \ {x} : call'[u] = call[u] BY <2>2
  <2>6. \A u \in (Maintainers \cup Stoppers) \ {x} : todo'[u] = todo[u] BY <2>2
  <2>. QED BY <1>1, <2>2, <2>3, <2>4, <2>5, <2>6
<1>. QED
  BY <1>2, <1>3, <1>4, <1>5, <1>6 DEF ShutdownStep

LEMMA LoopKept ==
  ASSUME ManagerInv, DInv, LoopInv, [Next]_vars
  PROVE  LoopInv' /\ \A u \in Tasks : Onward(u)
<1>d. DTypes /\ CallsMatch
  BY DEF DInv
<1>1. ASSUME NEW t \in Tasks, Wake(t)
      PROVE  Turn(t)
  <2>1. PICK c : c = call[t]
    OBVIOUS
  <2>2. /\ c \in S!Calls /\ c # S!Idle /\ S!Moved(t, c)
        /\ current' = IF call'[t] = S!Idle THEN t ELSE NoTask
    BY <1>1, <2>1, WakeMoves, IdleFacts
  <2>3. current = NoTask /\ UNCHANGED <<pc, todo, target, proc, at, bridge>>
    BY <1>1 DEF Wake, Resumes
  <2>4. \A u \in Tasks \ {t} : call'[u] = call[u]
    BY <2>2 DEF S!Moved
  <2>5. pc[t] \in Running
    <3>1. Matches(t, c, pc[t]) BY <1>d, <2>1, <2>2 DEF CallsMatch
    <3>2. t \in Maintainers => pc[t] \in Running
      <4>1. ASSUME t \in Maintainers
            PROVE  pc[t] \in Running
        <5>1. pc[t] \in CyclePlaces BY <4>1 DEF LoopInv, Places
        <5>2. pc[t] # "idle" BY <4>1, <2>1, <2>2 DEF LoopInv, Places
        <5>. QED BY <5>1, <5>2 DEF CyclePlaces, Running
      <4>. QED BY <4>1
    <3>. QED BY <3>1, <3>2 DEF Matches, Running
  <2>6. current' = t <=> call'[t] = S!Idle /\ pc'[t] \in Running
    BY <2>2, <2>3, <2>5, TaskKinds
  <2>7. Onward(t)
    BY <2>3 DEF Onward
  <2>8. t \in Sessions => (bridge' = t <=> pc'[t] = "binding") /\ pc'[t] \in LaunchPlaces
    BY <2>3 DEF LoopInv, BridgeHeld, Places
  <2>9. t \in Maintainers => pc'[t] \in CyclePlaces /\ pc'[t] # "idle"
    BY <2>3, <2>5 DEF LoopInv, Places, Running
  <2>10. t \in Sessions /\ (pc'[t] = "creating" \/ t \in target') => proc'[at'[t]] # "none"
    BY <2>3 DEF LoopInv, Started
  <2>11. current' \in {t, NoTask} BY <2>2
  <2>. QED BY <2>3, <2>4, <2>6, <2>7, <2>8, <2>9, <2>10, <2>11 DEF Turn
<1>2. ASSUME UNCHANGED <<pc, call, current, bridge, target, at, todo>>,
             \A s \in Sessions : proc'[s] = "none" => proc[s] = "none"
      PROVE  LoopInv' /\ \A u \in Tasks : Onward(u)
  <2>1. OneRuns' /\ BridgeHeld' /\ Started' /\ Places'
    BY <1>2, <1>d DEF LoopInv, OneRuns, BridgeHeld, Started, Places, S!Idle, Running, LaunchPlaces,
                      CyclePlaces, DTypes
  <2>2. \A u \in Tasks : Onward(u) BY <1>2 DEF Onward
  <2>. QED BY <2>1, <2>2 DEF LoopInv
<1>3. CASE Initialize \/ TimePasses \/ UNCHANGED vars
  BY <1>2, <1>3 DEF Initialize, TimePasses, M!Tick, vars, daemonVars, managerVars
<1>4. ASSUME NEW s \in Sessions, TargetExits(s) \/ PidReused(s)
      PROVE  LoopInv' /\ \A u \in Tasks : Onward(u)
  <2>1. \E to \in {"dead", "recycled"} : proc' = [proc EXCEPT ![s] = to]
    BY <1>4 DEF TargetExits, PidReused
  <2>2. \A u \in Sessions : proc'[u] = "none" => proc[u] = "none"
    BY <1>d, <2>1 DEF DTypes
  <2>3. UNCHANGED <<pc, call, current, bridge, target, at, todo>>
    BY <1>4 DEF TargetExits, PidReused, managerVars
  <2>. QED BY <1>2, <2>2, <2>3
<1>. QED
  BY <1>1, <1>3, <1>4, LaunchTurns, CycleTurns, ShutdownTurns, TurnKeeps, TaskKinds DEF Next

LEMMA InitLoopInv ==
  ASSUME Init
  PROVE  LoopInv
<1>1. call = [t \in Tasks |-> S!Idle]
  BY SameCalls DEF Init, M!Init
<1>2. OneRuns /\ BridgeHeld /\ Started /\ Places
  BY <1>1, TaskKinds DEF Init, OneRuns, BridgeHeld, Started, Places, Running, LaunchPlaces, CyclePlaces
<1>. QED BY <1>2 DEF LoopInv

(* A coroutine is inside a tool call, a maintenance cycle or a shutdown.          *)
UnderWay(t) == pc[t] \notin {"idle", "done", "failed"}

(* The guard of t's next step: t runs and has something to do, or the loop is     *)
(* free and what t waits for is over or will be (a disconnect, a connect, an      *)
(* observation) or free                                                           *)
(* (the manager's lock and t its first waiter, the bridge's lock).                *)
CanGo(t) ==
  \/ /\ current = t /\ call[t] = S!Idle /\ pc[t] \in Running
     /\ t \in Maintainers /\ pc[t] = "sweeping" =>
          \A s \in todo[t] : s \in target => proc[at[s]] \in {"alive", "dead", "recycled"}
  \/ /\ current = NoTask
     /\ \/ holder = t
        \/ holder = NoTask /\ waiters # <<>> /\ t = Head(waiters)
        \/ t \in Sessions /\ pc[t] \in {"binding", "observing"}
        \/ t \in Sessions /\ pc[t] = "discovering" /\ bridge = NoTask

LEMMA SomebodyCanGo ==
  ASSUME ManagerInv, DInv, LoopInv, NEW t \in Tasks, UnderWay(t)
  PROVE  \E u \in Tasks : UnderWay(u) /\ CanGo(u)
<1>d. DTypes /\ CallsMatch /\ StoppersInTurn
  BY DEF DInv
<1>l. /\ S!NoCallerLost /\ waiters \in Seq(Tasks) /\ holder \in Tasks \cup {NoTask}
  BY DEF ManagerInv, S!IInv, S!LockInv, S!TypeOK
<1>1. ASSUME NEW u \in Tasks, call[u] # S!Idle
      PROVE  UnderWay(u)
  <2>1. Matches(u, call[u], pc[u]) BY <1>1, <1>d DEF CallsMatch
  <2>2. u \in Maintainers => pc[u] \in CyclePlaces /\ pc[u] # "idle" BY <1>1 DEF LoopInv, Places
  <2>. QED BY <2>1, <2>2 DEF Matches, UnderWay, CyclePlaces
<1>2. CASE current # NoTask
  <2>1. PICK u \in Tasks : u = current BY <1>2, <1>d DEF DTypes
  <2>2. call[u] = S!Idle /\ pc[u] \in Running BY <2>1 DEF LoopInv, OneRuns
  <2>3. UnderWay(u) BY <2>2 DEF Running, UnderWay
  <2>4. \A s \in Sessions : s \in target => proc[at[s]] \in {"alive", "dead", "recycled"}
    BY <1>d DEF LoopInv, Started, DTypes
  <2>5. u \in Maintainers => todo[u] \subseteq Sessions BY <1>d DEF DTypes
  <2>. QED BY <2>1, <2>2, <2>3, <2>4, <2>5 DEF CanGo
<1>3. CASE current = NoTask /\ call[t] # S!Idle
  <2>1. holder = t \/ S!Queued(t) BY <1>3, <1>l DEF S!NoCallerLost
  <2>2. CASE holder \in Tasks
    <3>1. call[holder] # S!Idle BY <1>l, <2>2 DEF S!NoCallerLost
    <3>. QED BY <1>1, <1>3, <2>2, <3>1 DEF CanGo
  <2>3. CASE holder = NoTask
    <3>1. PICK i \in 1 .. Len(waiters) : waiters[i] = t BY <2>1, <2>3, TaskKinds DEF S!Queued
    <3>2. waiters # <<>> /\ Head(waiters) = waiters[1] /\ 1 \in 1 .. Len(waiters) /\ waiters[1] \in Tasks
      BY <1>l, <3>1
    <3>3. S!Queued(Head(waiters)) BY <3>2 DEF S!Queued
    <3>4. call[Head(waiters)] # S!Idle BY <1>l, <3>2, <3>3 DEF S!NoCallerLost
    <3>. QED BY <1>1, <1>3, <2>3, <3>2, <3>4 DEF CanGo
  <2>. QED BY <1>l, <2>2, <2>3
<1>4. CASE current = NoTask /\ call[t] = S!Idle
  <2>1. pc[t] \notin Running BY <1>4, TaskKinds DEF LoopInv, OneRuns
  <2>2. t \in Sessions /\ pc[t] \in {"discovering", "binding", "observing"}
    <3>1. t \notin Stoppers BY <1>d, <2>1 DEF StoppersInTurn, UnderWay, Running
    <3>2. t \notin Maintainers BY <2>1 DEF LoopInv, Places, CyclePlaces, UnderWay, Running
    <3>3. t \in Sessions BY <3>1, <3>2 DEF Tasks
    <3>. QED BY <2>1, <3>3 DEF LoopInv, Places, LaunchPlaces, UnderWay, Running
  <2>3. CASE bridge = NoTask
    BY <1>4, <2>2, <2>3 DEF CanGo, UnderWay
  <2>4. CASE bridge \in Sessions
    <3>1. pc[bridge] = "binding" BY <2>4 DEF LoopInv, BridgeHeld
    <3>. QED BY <1>4, <2>4, <3>1, TaskKinds DEF CanGo, UnderWay
  <2>. QED BY <1>d, <2>3, <2>4 DEF DTypes
<1>. QED BY <1>2, <1>3, <1>4

(* No coroutine of the daemon waits for ever because all wait for each other:     *)
(* while a launch, a cycle or a shutdown is under way, one of them has a next     *)
(* step, whoever holds the manager's lock, the bridge's lock and the shutdown     *)
(* lock.  And steps lead to an end: a launch and a shutdown only go forward, and  *)
(* the sessions a sweep has still to look at only get fewer (daemon.py,           *)
(* session_manager.py, initialize_session_engines).                               *)
THEOREM NobodyIsStuck ==
  Spec => /\ []((\E t \in Tasks : UnderWay(t)) => \E t \in Tasks : UnderWay(t) /\ CanGo(t))
          /\ [][\A t \in Tasks : Onward(t)]_vars
<1>1. Init => LoopInv
  BY InitLoopInv
<1>2. ManagerInv /\ DInv /\ LoopInv /\ [Next]_vars => LoopInv' /\ \A t \in Tasks : Onward(t)
  BY LoopKept
<1>3. ManagerInv /\ DInv /\ LoopInv
        => ((\E t \in Tasks : UnderWay(t)) => \E t \in Tasks : UnderWay(t) /\ CanGo(t))
  BY SomebodyCanGo
<1>. QED
  BY <1>1, <1>2, <1>3, DaemonInvHolds, PTL DEF Spec
====================================================================================
