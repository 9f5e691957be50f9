# TLA+ verification of desktop-webview-reviewer

`runtime/` is one asyncio process that launches or attaches to Windows desktop applications, drives
them over a CDP WebSocket and native Win32 calls, and keeps evidence of what it saw; beside it run
short-lived commands (updates, the harness, learning) on the same files. There are no threads of
consequence in its core: what makes it hard is where coroutines suspend, what other coroutines, the
application, the network and the clock do meanwhile, and what a process that dies leaves on disk. The
modules here model that control. Paths are relative to the repository; `runtime/x.py:n` is line n.

Contents: 1 the system, 2 the modules, 3 the runs, 4 the proofs, 5 disagreements found, 6 what is
not modelled, 7 the plan. `PROJECT.json` holds the same in machine-readable form: every component,
the source lines of every definition, the hazards with the properties that cover them, and for each
property a mutated definition that breaks it.

## 1. The system

### 1.1 Parts, their state and what makes them correct

| Part | State | Operations | Correct when |
|---|---|---|---|
| Session manager (`session_manager.py`, `state.py`) | `_sessions` with lifecycle, connection, lease, core; one `asyncio.Lock` | create, connect, activate, mark_*, heartbeat, close, prune, list | only transitions of the table; CLOSED is final and always reachable; leases are taken only when they ran out; nobody is lost at the lock |
| Daemon (`daemon.py`) and launch tools (`mcp/tools/lifecycle.py`) | daemon state, shutdown lock, background tasks | initialize, launch, attach, maintenance cycle, shutdown | STOPPED means no open session and no living process of a job; what was not launched is never killed; a launch observes an active session only |
| Process supervisor (`process_supervisor.py`) | entries and job objects by pid | launch, register, terminate, tree, cleanup_all | no remembered job outlives the cleanup; no process from outside is killed |
| Runtime bridge (`mcp/runtime_bridge.py`) | a core and engines per session, one `asyncio.Lock`, `executed_actions` | initialize_session_engines, execute_action_deduplicated | a launch always answers; a retry is never a second input and is told the truth |
| CDP transport (`cdp_transport.py`) | socket, status, pending requests, read task, `_close_requested` | connect, disconnect, reconnect, send_command, read loop | each request settled once, with its own answer; a connection has exactly one reader; a loss is noticed; nothing stays open unknown |
| CDP target registry (`cdp_target.py`) | targets, session-to-target maps, primary target | initialize, five events, attach, detach, close | a command is never routed by a session that is not that target's |
| Frames and utility world (`frame_manager.py`, `utility_world.py`) | frame tree, execution contexts, isolated worlds, caches | events, ensure, evaluate with one retry, invalidate | one retry suffices unless a context is lost again |
| Action engine (`action_engine.py`) and locators | one lock per engine | execute, _resolve_target | input is sent only in the epoch its reference is of; one action per observed epoch |
| Gates and executors (`actionability.py`, `*_action_executor.py`, `native_input.py`) | a report, a receipt | five gates, each action type, scripted fallback | nothing is done more often than asked; nothing stays pressed |
| References and observation (`references.py`, `observation_engine.py`, `web_observation.py`) | epoch, active and stale references, last snapshot | register, resolve, increment_epoch, observe | a reference leads to the element it was given for |
| Verification (`verification_engine.py`, `native_supervisor.py`, `native_observation.py`, `settlement.py`) | none between transactions | observe, settle, classify, capture, evaluate_transaction | PASS only for what was dispatched, observed, captured and contradicted by nothing |
| Recovery (`recovery_engine.py`) | breaker: state, failure count, last failure | execute_recovery, record_success, record_failure | breaker agrees with its count; cooldown holds |
| Missions (`mission_orchestrator.py`, admission, discovery, dispatcher, plan) | lifecycle, results, cancellation requests, budgets | admit, run_mission, cancel_mission | verdict earned, budgets kept, failures halt, ended is ended |
| Evidence store (`evidence_store.py`, `mcp/tools/evidence.py`) | a directory per attempt: artifacts, manifest, checksums; a lock per session | store, seal, verify, collect | an audit fails only where something was changed; a failed collection gives the lock back |
| Updater (`lifecycle/`) | installed package, registry file | check, install, validate, commit, roll back, pin, doctor | what is reported installed is installed and was tested; a pin is kept |
| Harness injector (`harness/injector.py`) | entry file, client file, manifest in the developer's project | detect, apply, remove, release scan | no decodable line of the developer is lost unless a write was cut short; a removal without a warning is complete, after one framework |
| Harness service (`harness/protocol.py`, `service.py`, `transport.py`) | instances' last sequences, timeline | handshake, signal, wait, restart | a message is recorded once, and the numbers of an instance never go back |
| Experience store (`experience/store.py`, `adapter.py`, `schema.py`) | one SQLite file, a connection per process | migrate, record_*, queries, health, close | what was answered as recorded is in the file; reports agree |
| Learning (`experience/learning/`) | observations, patterns, candidates, decisions, knowledge | observe, analyse, gate, approve, reject, decay, revalidate | decayed knowledge revives by a person's decision only |
| Agent bridge (`experience/antigravity/`) | active sessions, recent actions, links | hooks, sanitise, persist, correlate | a link's action is of its session |

`PROJECT.json` lists the remaining parts, each with the reason why it has no module (section 6).

### 1.2 How they interact

- **The manager's lock.** Every manager operation takes it. Only `close_session` awaits anything
  while holding it (the core's disconnect), so that is the only place where others queue.
- **The bridge's lock.** All launches, and all action deduplications, share it: a launch holds it
  across `core.connect()`, a call that acts holds it only to look at and to write the cache.
- **The shutdown lock** makes a second shutdown wait for the first; a session's **evidence lock**
  admits one collection at a time; a **frame's lock** lets one caller create its isolated world.
- **The engine's lock.** All actions of one session are serialised; observations are not, so an
  inspector or a resource reads the page while an action is at its gates.
- **The registry of references** is shared by actions, inspections, navigation events and recovery;
  **the breaker** by all missions of all sessions.
- **Callbacks.** CDP events run listeners inside the read loop, between two awaits; whatever they
  change (epoch, targets, frames, contexts) is found changed by every coroutine that was suspended.
- **Files.** The registry of the updater, the harness manifest, the evidence directories and the
  experience file are shared with other processes, and outlive a process that dies.

### 1.3 What is hard

Interleavings at those awaits; state read before an await and used after it (the time for
`prune_expired_sessions`, the resolved reference, `_close_requested`, a target's entry, a context's
id); a disconnect during a reconnect; timeouts racing answers; a retry during the first attempt; a step
that fails in the middle of a plan, a launch or a maintenance cycle; pids the system gives away again;
a crash between two writes; a statement that fails and leaves its transaction open; two commands that
write back what they read. Each is listed as a hazard at its line, with the properties that would
catch it going wrong.

## 2. The modules

| Module | Models | Extends / uses |
|---|---|---|
| `SessionStates` | the sixteen lifecycle states and the table of transitions (`state.py:12-110`) | |
| `SessionManager` | the manager with any callers: the abstract specification of what the daemon may do to sessions | `SessionStates` |
| `DesktopDaemon` | daemon, launch/attach tools, bridge initialisation, maintenance, shutdown: the programs that call the manager | `INSTANCE SessionManager`, which it implements |
| `CommandReplies` | what `send_command` promises its callers: a call returns its own reply, once, or raises | |
| `CdpTransport` | `WebSocketCDPTransport` with its owner, commands, read loops and reconnects | `INSTANCE CommandReplies WITH call <- Calls`, which it implements |
| `CdpTargets` | the target registry beside a browser, a wire and its callers | |
| `WebviewFrames` | frame manager, utility world, observation and epoch over navigations and a lost connection | |
| `ActionEngine` | tool calls that act, observations, references, epochs, the action cache | |
| `NativeDesktop` | what the native supervisor reads off a desktop: operators without state | |
| `ActionExecutors` | one action from its gates to its receipt | `NativeDesktop` |
| `Verification` | one transaction from its observations to its verdict | `NativeDesktop` |
| `ProcessTrees` | supervisor and job objects beside an operating system that reuses pids | |
| `RecoveryEngine` | breaker and `execute_recovery` | |
| `MissionOrchestrator` | missions whose recoveries run under that breaker | `RecoveryEngine` |
| `Updater` | install, roll back, repair, over crashes | |
| `HarnessInjector` | the harness in and out of a project, over crashes and edits | |
| `HarnessService` | the messages of a harness and who waits for them | |
| `EvidenceStore` | sealing, collecting and auditing evidence | |
| `ExperienceFile` | what the store promises its callers: one file that takes one record at a time | |
| `ExperienceStore` | two processes on one SQLite file | `INSTANCE ExperienceFile WITH file <- db, answered <- told`, which it implements |
| `LearningGovernance` | learning commands that overlap | |
| `AgentBridge` | an agent's hooks and their correlation | |
| `SessionManagerProofs`, `DesktopDaemonProofs`, `CdpTransportProofs`, `MissionOrchestratorProofs`, `ActionEngineProofs` | theorems about the module of the name (missions: with the breaker) | the module, TLAPS |
| `RecordsProofs` | theorems about what is kept, part by part and composed | `MCRecords`, TLAPS |
| `ProcessTreesProofs` | theorems about process trees | `ProcessTrees`, TLAPS |
| `WorldProofs` | theorems about what faces the application, part by part and composed | `MCWorld`, `ProcessTreesProofs`, TLAPS |
| `MC*` | model values and symmetry for TLC; `MCRecords` and `MCWorld` run several components | the modules |

**An action is what a coroutine does between two of its awaits.** asyncio runs that without
interruption, so it is one step, with every call it makes. Where a process may die, an action is what
happens up to and including one write. The conventions of each module follow.

### 2.1 Sessions, actions, missions

*`SessionManager`.* A call finds the lock free and nobody waiting (`CallFree`: body and return in
one step, the uncontended path of `asyncio.Lock.acquire` does not suspend), or it queues
(`CallQueue`) and is granted the lock in order (`Grant`). `Close` on a session with a core keeps
the lock (`holder`) until `FinishClose`. `Heartbeat` takes no lock, as in the code; it and the
`mark_*` operations have callers only outside the runtime (tests, embedding programs), and are
kept because the manager promises to bear them. A session's core is `none`, `connected` or
`disconnected`; `BindCore` is the assignment the bridge makes without the lock.

*`DesktopDaemon`.* Its coroutines call several operations without suspending. `current` is the
coroutine that is running; while it is set no other takes a step, `Await` makes a call of the
manager (through `M!`), and `Wake` passes control to a coroutine whose wait is over. A pc names
the point at which a coroutine will go on. `launched` are the processes `launch_target` started,
`jobs` those that got into their job (an assignment the system refuses is ignored,
`process_supervisor.py:264`), `external` those whose record an attach has replaced
(`:302`), `at[s]` the process of session s: `Supervise` binds the session to one it launched or to any
that runs, a launched one included. `Cleanup` kills what is in a job by closing it, and of the rest
each process whose kill succeeds and whose record does not say external; both failures are
swallowed (`:384-386`, `:413-415`). After its session is active a tool still awaits the initial
observation (`mcp/tools/lifecycle.py:194`, `:323`; pc `observing`), whose outcome it does not look at:
maintenance or a shutdown may close the session there. `SweepRecycled` is the
`TargetMismatchException` the cycle does not catch.

*`CdpTransport`.* The k-th socket, the read loop that reads it and the reconnect that loop leaves
behind have the number k, the i-th command the id i. The owner calls connect once, because
`RuntimeBridge` makes a new transport for a new connection. Listeners' exceptions are swallowed,
so a read loop ends by itself only when the socket is closed; hence reconnect's close of the old
socket has nothing to await. Answers reach `inbox` and are read by the loop; late answers find no
request. `via` and `wire` say on which socket a command went and where its answer is; `Calls` maps
this to what `CommandReplies` shows a caller.

*`MissionOrchestrator`.* A run's locals are one record (`run[r]`). Suspensions are discovery, a
dispatched step, a recovery, a retry; at each of them `CancelMission`, `DeadlinePasses`, another run
and the clock may act. `Settle` ends a run: a transition the matrix refuses is swallowed there and the
result is stored all the same, so that a mission executed twice may have a result that is not its
status. A discovery that raises fails the mission without a look at a
cancellation that came meanwhile (`mission_orchestrator.py:205-217`). `Raise` is the exception of a run
that can neither begin nor fail the mission. Recovery's
effect is success or failure; which action it was is left out. What the code does not do is not
modelled either: a retry's tools are not counted in `MaxActions`, discovery's delegation is not counted
in `MaxDelegations`, cancellation is not looked at before a retry; HALF_OPEN admits any number of
probes; `RecoveryPolicy.max_attempts` is recorded and not enforced.

*`ActionEngine`.* One session's web plane. A reference is `[epoch, doc]`: when it was given and which
document its element is of; `doc` is the document of which the page's navigation event has been
handled. `Navigate` is `Page.frameNavigated`: new document, new epoch, active
references stale. `RestartReview` is the recovery RESTART_REVIEW_SESSION of a mission on the same
session: a new epoch without a navigation. An observation reads the epoch, suspends for the page's
answer (`CandidatesArrive` fixes the document it shows) and then registers the candidates. A call goes:
cache (`ExecuteDeduplicated`), lock, resolution (with `allow_stale_recovery`, True by default),
pre-action observation, gates, dispatch (epoch compared once more), settlement and epoch, post-action
observation, cache. Gates, input and settlement are single suspensions here (`ActionExecutors` and
`Verification` open them). A REJECTED or FAILED answer may carry a fused snapshot, a further
observation (`Fused`). Waiting is one state for the bridge's and the engine's lock: both are FIFO.

### 2.2 What faces the application

*`CdpTargets`.* The browser opens, crashes and destroys targets on its own; events and
replies are one sequence on the wire. The reader handles an event at once and hands a reply to its
caller, who resumes in a step of its own: `attach_target`'s write of ATTACHED comes after whatever
events were read meanwhile.

*`WebviewFrames`.* A root and a child frame. `realm` are the browser's contexts, `told` what it has
said of them to this connection, `cache` the client's. Losing the connection and restoring it drops
events on their way; a new connection is told nothing of its own accord. `core` is
connected once it has read the tree it asked for, behind the events sent before it.
`ensure_utility_world` takes the frame's record, which is immutable, before it waits for the manager's
one lock and compares the cache with it afterwards; `evaluate` retries once.

*`ActionExecutors`.* The page is one line of pixels with a target, something that may cover it and a
position that may move; the desktop is a record of `NativeDesktop`. The gates take two samples of the
bounds and a hit test. `todo` is the list of commands an action type still has to send; each may be
answered, refused, or carried out without an answer. The fallback's script is modelled by what it
does, which is to throw (section 5).

*`NativeDesktop` and `Verification`.* A window covers a range of one line; handles outlive windows.
`Verification` goes from the first observation through dispatch, settlement, the second
observation and the capture to the verdict, with the desktop and the page changing at each of those
points. The verdict's claims are a sequence, as in the code, and `SynthesizeVerdict` is the code's own
synthesis. The three callers are the engine, the evidence tool and a program that passes what
`evaluate_transaction` can use: a request says which screenshots that program brings (`pictures`: none,
plain ones, or a certifying one of the real desktop, which the verdict takes in place of the physical
capture, `verification_engine.py:850`) and whether it names the process it expects (`says`: without
`target_process_info` the pid and its creation time are not compared, `:767`).

*`ProcessTrees`.* Each process has a birth; a pid is given away again once it is free. `op` is the
supervisor's operation under way: a launch is start, inspection, assignment to the job, and the
process may spawn or exit between them; terminate asks, waits and kills. Closing the last handle of a
job kills its members.

### 2.3 What keeps records

*`Updater`.* A command is a process, and `CrashCommand` ends it between any two writes. `package` is
what is installed, `record` the registry's file (replaced atomically, so whole or lost), `answer` what the
command told its user, `pinWish` the user's last pin. A package may declare another version than its
name, and a version may fail its self-test.

*`HarnessInjector`.* Client file, block and manifest are separate writes in the code's order. Each
framework has its own client file and one of two kinds of marker (`Marker`: Electron and WebView2
comment with `//`, Qt with `#`), so an init as another framework leaves the first one's block and client where they
are and names only its own in the manifest. A file is the developer's text, as a count of revisions, whether
it has bytes that are not UTF-8 (`odd`), and for each kind of marker the state of its block. `Decoded` is
the read with `errors="ignore"`, which drops such bytes; a write is in place, and `WriteIsCut` leaves a
`Fragment` of it with any beginnings of its blocks. The manifest may be cut too. A command may
stop or die between two writes (`CommandStops`); between commands the developer edits, restores or
deletes a file, breaks a marker, or makes the project another framework's. `aim`, `torn`,
`tampered` and `wrote` record what happened for the properties and steer nothing.

*`HarnessService`.* One connection for each message and a thread for each post: messages on the wire are a
set. A message is the `nth` its client sent and carries a number, which is n for a client that
counts under a lock, and any number up to n for one that does not (`racing`: WebView2's `_sequence++`). The validator
drops what is below the last number and records what is equal to it (`protocol.py:183`).
`StopServer` and `StartServer` keep the validator's counters, as the code does. A wait polls.

*`EvidenceStore`.* Files are written one by one; `Following` is their order. A process may die and a
disk be full between any two; others may damage a file. Hashes are the identity of the contents.
`holder` is the session's `_evidence_lock`, which is not returned by a call that is cancelled (only
`Exception` is caught, `mcp/tools/evidence.py:257`).

*`ExperienceStore`.* `txn[p]` says how far the transaction open on a connection has come (`none`,
`begun`, `reading`, `stale`, `writing`), by the rules of SQLite in WAL mode (external). A store's
call is one step; what it leaves open is what other calls meet. The queries have the code's limits as
constants (`SessionLimit` is 50, `RowLimit` 100); a limited query is the set of the answers it may give,
for the order of rows of one time is not fixed.

*`LearningGovernance`.* One failure signature. A command reads a copy (`hands`), works and writes the
whole record back, one transaction for each record.

*`AgentBridge`.* Hooks go through the sanitiser, are stored and correlated by the five rules in order;
times are ages of three sizes (5 s and 60 s are the code's limits); a hook's own process has a
bridge that knows no session.

## 3. The runs

Passing runs check all their properties to the end of the state space within the bounds; together
they fire every action. A run whose system may come to rest has `CHECK_DEADLOCK FALSE` (all
but those of `ActionEngine`, where an inspector can always observe). Safety formulas that a theorem
proves for every value of the constants and that say little beyond types or guards (the manager's,
the missions' and the actions' invariants of section 4) are left to their theorems; a run names what is
worth a search. Some of the names below join formulas of their module: each is explained there.

### `session_manager` (`SessionManager.cfg`)
Two sessions, two tasks, one close reason, LeaseTimeout 1, MaxTime 2, symmetric. All operations in any
order. `ClosedIsFinal`; `CloseAlwaysCloses` (close never raises on a session it finds, and leaves no
connected core behind); `PruneOnlyExpired` (although the time is read before the lock is waited for).
Two tasks suffice for every pair that shares a session or the lock; a second session shows that a prune
or a close of one leaves the other alone; two ticks let a lease run out, be renewed, and be pruned
with an old reading.

### `daemon` (`DesktopDaemon.cfg`)
Two launches or attaches, a maintenance coroutine, two shutdowns, LeaseTimeout 0, MaxTime 1, reused
pids, failing jobs and kills, symmetric. `StoppedClosesSessions`; `KillsWhatItLaunched` (STOPPED leaves no
process alive that got into its job, even one an attach has since recorded as external, and
what was not launched is never killed; of processes outside a job nothing is claimed, section 5.2);
`LaunchedIsActive` (a launch goes on to its observation only when its session is active, connected and bound, and
answers with such a session or one that was closed since). Two shutdowns are needed for
the second to wait, two launches to contend for both locks; time 1 with timeout 0 lets any session be
pruned.

### `daemon_live` (`DesktopDaemonLive.cfg`)
Two launches, maintenance, one shutdown, no clock, reused pids, `FairSpec`.
`ShutdownCompletes`, `EveryLaunchAnswers`, `CycleClosesDead` (a cycle under way comes to each dead
process on its list and its session is closed, unless a reused pid ends the cycle first; nothing is said of sessions
when no cycle runs) and `RefinesSessionManager`: every behaviour of the daemon is one
of `SessionManager!Spec`, so the manager's safety properties, and its theorems, hold of the composed
system. `ImplementsManager` proves the same for any number of coroutines.

### `cdp_transport` (`CdpTransport.cfg`)
Three sockets, two commands, two attempts a reconnect, `FairSpec`. `TransportIsSound` (a request is
registered exactly while its caller can still be answered; a connected transport has its reader; read
loops and reconnects run one at a time; no open socket is forgotten), `ImplementsCommandReplies`
(the refinement: late answers and lost sockets never give a caller another's reply or a second one),
and live: `EveryCommandEnds` (a command whose write has ended, or whose socket closes during
the write, ends) and `LossIsNoticed` (a lost connection is reconnected or reported). Three
sockets make a reconnect after a reconnect; two attempts one that fails and is repeated; two commands
one that is answered when another times out.

### `missions` (`Missions.cfg`)
Two runs over two missions with the three roles; MaxActions 3, MaxDelegations 4, one recovery, three
candidates, one tool; threshold 1, cooldown 1, one tick; symmetric. `PassIsEarned`; `ReportsAreTrue`
(the result of a mission executed once is its lifecycle, and a cancelled mission ends CANCELLED, or FAILED
if its discovery raised; what it never does is pass or go on);
`NoRecoveryInCooldown`. Two runs are two missions under one breaker or one mission executed twice;
the budgets make plans that are cut by each of the limits, and one recovery per mission with a
threshold of one trips and probes the breaker.

### `actions` (`Actions.cfg`)
A click, its retry once the first call is over (`Overlap = FALSE`), another action, an inspector, and
one navigation or restart (`MaxMoves`) at any moment. `OneDispatchPerEpoch`, `NoReplay`,
`EveryCallEnds`. Actions advance the epoch too: with the one increment from outside, a reference can
become stale by an action, be recovered, and become stale again while the gates are evaluated. Three
calls are a first attempt, its retry, and one that comes between them.

### `records` (`Records.cfg`) and `world` (`World.cfg`)
`MCRecords` extends the modules of 2.3, `MCWorld` extends `CdpTargets`, `WebviewFrames`,
`ActionExecutors`, `Verification` and `ProcessTrees`, so the runs check the very definitions the
theorems are about. The components share no state: a behaviour is one of a single part, `part` says
which, the other parts stay in one of their initial states, and the state space is the sum, not the
product. Each property speaks of one part; `RecordsTypeOK` and `WorldTypeOK` are the type invariant of
the part that runs.

| Property | Part | Instance, and why it is enough |
|---|---|---|
| `DoneMeansInstalled`, `PinSurvives` | updater | four versions: one older, one installed, one whose package declares the version before it, one prerelease that fails its tests; crashes and the loss of the file at any time |
| `TextIsKept`, `RemovedMeansClean` | injector | two entry files, one of each of two frameworks whose markers differ; projects of the one, the other and both; two integrations planned, so that a second may be as another framework or repeat the first; each file rewritten once more; crashes and cut writes unbounded |
| `SignalsInOrder` | harness | one instance, which counts under a lock or not, three messages (so that one may pass between two others, or two have one number), timeline of two (so that one is dropped), one restart |
| `FailedMeansTampered`, `LockIsReturned` | evidence | two collections on one session and one execution, one crash, one damaged file |
| `StoreIsTransactional`, `ReportsAgree` | store | two processes, three rows, limits of one, crashes at any time: a writer, a reader whose snapshot goes stale, what a failed statement leaves to the next call, and lists shorter and longer than the limit. One session here; `ReportsAlwaysAgree` proves `ReportsAgree` for any number. Beyond its limit a list over all sessions is shorter than those of the sessions together, and the property says so |
| `OnlyPeopleRevive` | learning | one failure, two commands at a time, counts up to the five the gates ask for |
| `LinkedActionIsOfItsSession` | bridge | two sessions with an action each, a window of two, one hook at every moment and age |
| `RoutedSessionIsKnown` | targets, pair | one target, two callers, five messages on the wire; two targets, one caller, four messages: overlap on one target, and confusion of two |
| `RetryIsEnough` | frames | one caller, three documents, four contexts, one loss, two observations |
| `AskedOnce`, `NothingLeftDown` | executors | all fifteen action types on both planes, six desktops, one change and one failure at any point |
| `PassMeansProven` | judge | nine requests of the three callers, with and without certifying pictures and process information, two changes of desktop or page between the phases |
| `CleanupEmptiesJobs`, `StrangersUnharmed` | trees | two pids born four times, two launches: a pid is reused by a stranger, by a child and by a second launch |

### Runs that find a disagreement
`actions_replayed` (the instance of `actions` with overlapping retries and no navigation),
`learning_one_occurrence`, `typing_undisturbed`, `verdict_undisturbed` (the instances above): one
property each, taken from a docstring, a comment or a document, and violated by what the code does
(section 5).

### Fairness
The event loop's ready queue is first in, first out, and every await but one has a bound (sleeps,
`wait_for`, the timeouts of connects, closes and answers). The one is the write of a CDP command
(`cdp_transport.py:292`): `wait_for` covers only its answer, and keepalive is off. So:
- `DesktopDaemon`: strong fairness of some coroutine whose wait is over being run (`\E t : Wake(t)`)
  and of each launch under way (`LaunchGoesOn`), since a coroutine that is ready again and again is run
  although others come between; weak fairness of the steps of maintenance and shutdown once begun. Nobody
  is obliged to call a tool, to begin a maintenance cycle or to shut down: in the runtime nothing does.
  That a core's connect ends is assumed too: it sends commands.
- `CdpTransport`: weak fairness of the owner's steps inside connect and disconnect, of each read
  loop and reconnect, of a write that fails because its socket closed (`SendFails`), and of a
  command that was answered or ran out of time (`CommandEnds`, `Timeout`). None of a write's
  end (`Sent`), of the owner disconnecting, of the network failing or of the browser answering: a
  command that was written ends by its timeout if by nothing else.
- `ActionEngine`: weak fairness of each call's next step; its locks are FIFO, so a
  waiting call's step stays enabled once it is first. That its commands get onto the wire is assumed. None of navigations, restarts, inspectors, or
  the page's answers (an observation without an answer ends with no elements).
- `MCRecords` and `MCWorld` check safety only: their parts depend on people, other processes and a
  browser of which nothing can be demanded.

## 4. The proofs

Each theorem is about the specification of its component (and, by `RecordsComposed` and `WorldComposed`,
of whichever composed run has it as a part), for every value of the constants that the
assumptions below allow. The bounds (`MaxTime`, `MaxConns`, `MaxCmds`, `MaxMoves`, `MaxBirths`, `MaxSends`
and so on) are constants too, so the theorems hold for every bound, and for any number of
sessions, callers, processes, targets, rows or messages.

### 4.1 The assumptions

Each is in the module that declares the constants, and TLC evaluates it for the instances of the runs.
Most say that a bound is a number and that the value for "nobody" or "nothing" is not one of the things it
is told from (`LeaseAssumption`, `NullAssumption`, `ReasonAssumption`, `DaemonAssumption`,
`TargetsAssumption`, `TreesAssumption`, `EvidenceStoreAssumption`, `StoreAssumption`, `BridgeAssumption`, `HarnessServiceAssumption`, `BoundAssumption`,
`ActionAssumption`, `MissionAssumption`). The others:
- `BreakerAssumption`: the threshold is at least one; a breaker that trips at zero failures would be
  closed at its threshold before it began.
- `FramesAssumption`: there may be one document and one context at least, for the browser begins with one of
  each; no caller is called `None`, which stands for a frame without a record and a lock nobody holds.
- `UpdaterAssumption`: versions are positive numbers; what a package declares is free.
- `InjectorAssumption`: the candidates of a framework are a sequence of entry files, and what the
  detection counts are counts.
- `LearningAssumption`: a count can reach the five the gates ask for.
- `ExecutorAssumption`, `VerificationAssumption`: actions and requests have the shape their classes
  give them; the desktops an action may meet are records of windows.

### 4.2 What is proved, and along which argument

Every run's property that is an invariant, a step property or a refinement is stated by a theorem. What is
left to TLC alone is liveness (4.3).

| Theorem | Says | Argument |
|---|---|---|
| `TypeCorrect`, `HalfClosedOnlyUnderLock`, `ConnectionAgrees`, `CallersAccountedFor` | the invariants of the manager | `IInv` adds `Reached` (operations reach eight of the sixteen states) and `HolderCloses` (whoever holds the lock between two steps is closing). `BodyStep` is the body of any operation; the lemmas on the queue (`JoinQueue`, `LeaveQueue`) keep it free of repetitions |
| `ClosedForEver` | closed sessions stay closed, with their reason | from `IInv`: the table has no transition out of CLOSED, and a session in the hands of a closing task is DISCONNECTING |
| `ClosesAreComplete`, `PrunesOnlyExpired` | `CloseAlwaysCloses`, `PruneOnlyExpired` | `LeaseInv`: who is inside an operation named a registered session (`CalledKnown`), the session the holder closes is open until it is done (`HolderOpen`), and a time read before the wait is past (`NowIsPast`) |
| `ImplementsManager` | `RefinesSessionManager`: the daemon's programs are callers of the manager | initial states to initial states; every step of the daemon that awaits the manager is one of the manager's, every other leaves its variables alone. The manager's theorems then hold of the daemon, and `DesktopDaemonProofs` uses them |
| `DaemonTypes`, `ShutdownClosesAll`, `KillsExactlyItsOwn`, `LaunchesAreActive` | the daemon's properties | `ManagerInv` and `DInv`. The hard part is a create that runs while a shutdown waits for its list of sessions: the lock's queue is first in first out, so every create still to run is ahead of the listing (`Listing`), and what is open after it is on the list or being closed (`Closing`). `StoppedKillsLaunched` is inductive because a process enters `jobs` only while the daemon is not STOPPED; `LaunchInv` keeps a launch's session bound, and ACTIVE from the activation's return to the coroutine's next wait |
| `NobodyIsStuck` | the safety half of `ShutdownCompletes` and `EveryLaunchAnswers`: while a coroutine is under way, one of those under way has a next step, and steps only lead forward | `LoopInv`: the loop runs exactly the coroutine that waits for nothing (`OneRuns`), the bridge's lock is held exactly while a core connects (`BridgeHeld`), so its holder never waits for the manager's lock, and whoever holds that one is in a disconnect, which is bounded. `Turn` is what any step does to this |
| `RequestsSettledOnce` | `PendingIsWaitedFor` | not inductive alone: with `FreshIds`, no id beyond `_msg_id` was ever used |
| `TransportSound` | `TransportIsSound` | `ConnInv`: types, sockets are opened in order (`Numbered`), at most one coroutine reads or reconnects (`OneBusy`), and it is on the socket of the transport (`OnItsSocket`); only the transport's own socket is open, and who is closing it has it in hand (`SocketsKnown`); only disconnect requests the close and cancels (`Undisturbed`) |
| `TransportImplementsReplies` | `ImplementsCommandReplies` | `WireInv` (an answer in the inbox or given to its caller is to a command sent on that socket, and no longer on the wire), `ReadersWait`, `UsedIds`; `StepImplements` then takes each action to a step of `CommandReplies` or to none |
| `LossesAreWitnessed` | | `WitnessInv`: `StatusTells` (an up transport whose status is not CONNECTED is DEGRADED or has a reconnect), `UpHasSocket`, `FutureHeld`, `Attempts`; with `TransportIsSound` a read loop waits on the closed socket; `Stage` rises and `MovesLeft` falls with every move |
| `BreakerAgreesWithCount`, `CooldownHolds`, `MissionsRespectCooldown` | the breaker, however recoveries and missions overlap | types and agreement are inductive; the cooldown is a step property from them, and a mission's recovery is one of the engine's |
| `MissionTypes`, `PassEarned`, `ReportsHold`, `HaltsOnFailure`, `BudgetsHold` | missions | `IInv` has, for each run, what its locals are at each suspension (`Local`, `Running`, `Earned`), the types of the stores, what the stores say of its mission (`Report`), and that the runs awaiting a recovery are the engine's recoveries under way (`InRecovery`). `PlanInBudget` shows that a plan fits its budget by the arithmetic of `Min` and `Max` |
| `MissionsEnd` | the safety half of termination: how many moves a run has left (`Left`) is a number, falls with every move, and is zero exactly when the run is over | each suspension of a run is classed by the next it may reach (`Forward`: `...Goes`, one lemma per action), a delegation is taken for every step and every retry and never given back, and the budget bounds them (`RunInv`) |
| `EndIsFinal` | terminal missions | the matrix has no transition out of a terminal status and every change of status goes through it |
| `InputIsFenced`, `EpochsAreSpent` | actions and epochs | `CallInv`: the call that executes is the head of the lock's queue (`Locked`), input is begun between gates and answer (`Ordered`), an epoch in which input was begun is left behind unless the input failed or is under way (`Fenced`) |
| `RetriesNeverReplay`, `RetriesAreToldTheTruth` | the cache; under `Overlap = FALSE` | `RetryInv`: at most one call of an action_id is under way (`Alone`), inside `execute` nothing is kept for it (`Fresh`), what is not kept has no answer (`Unkept`). Without the condition both are false (section 5) |
| `TurnsAreTaken` | who holds the lock of `initialize_session_engines` and `execute`, and for how long | `Queued` (the queue has calls that execute or wait, each once) with `Locked` of `CallInv`; every kind of step raises a call's `Rank` or leaves it, and takes the head off the queue or appends to it |
| `TypesHold` | the types of `ActionEngine` | with `Referred`: what tasks and snapshots hold was given out by the registry, of no later epoch or document |
| `UpdaterTypes`, `CommitsAreTrue`, `PinsSurvive` | the updater over crashes | `UpdaterInv` adds `TestedIsCommitted` (a command about to commit has tested what is installed) and `Targeted` (its target is a version); a pin is carried by every write of the record |
| `HarnessTypes`, `SignalsOrdered` | messages that overtake each other | `Numbered` (`Placed`: no message has a place its sender has not reached, and a client that locks numbers by place), `Distinct` (two messages under way have two places), `Consumed` (what was received is not above the validator's last number and not under way again) |
| `InjectorTypes`, `TextSurvives`, `RemovalsClean` | the harness in and out of a project, over crashes, cut writes and edits | `InjectorInv`: the copy in hand is the decoded file (`CopyIsFile`), blocks and clients are of frameworks and files an apply aimed at, and broken only where a write was cut or a marker damaged (`BlocksAreAimed`, `ClientsAreAimed`), the command and the manifest know an aim (`AimsAreKnown`), and a removal before its last write has stripped what it must (`Stripped`). `Injected`, `IsStripped` and `IsCut` say what each write does to a file; the choice among candidates is an index found by the least-number principle (`Least`) |
| `TreesTypes`, `CleanupLeavesNoJob` | process trees over reused pids | `OpShape`: what the operation under way holds; `MembersOpen` and `OpenIsKnown`: a live member's job has an open handle, and an open handle is recorded or forgotten; `RecordedOnce` (under one pid), `NewJob` (a launch under way has none yet), `Emptied` (the cleanup leaves no record) |
| `StrangersAreSafe` | `StrangersUnharmed` | `OwnInv`: births tell processes apart (`ProcessesApart`), a record's birth is a launch's or of nobody who lives (`RecordsAreOurs`), and so is all that the operation under way has in hand (`TargetsAreOurs`). `ChildrenAreBelow` shows by least counterexample that what the recursion over a tree finds are children |
| `EvidenceTypes`, `FailureMeansTampering`, `LockComesBack` | evidence over crashes and damage | `EvidenceInv`: what is on the disk was put there by its call (`OnDisk`), and the manifest is written after all that it lists (`Sealed`) |
| `StoreTypes`, `AnswersAreDurable`, `ReportsAlwaysAgree` | the experience store | `StoreInv`: a snapshot in use is the file, a writer's rows are the file's and more (`Snapshot`), and in each set of rows what a row refers to is there, keys tell rows apart, and the rows are finitely many (`Linked`); that each answer of a list, limited or not, has what the records imply follows. The totals: the fold of the library satisfies the equation of a sum (`TotalIsFold`), so does counting the rows of a set of values, and only one function does, by least counterexample (`SumsAreOne`) |
| `LearningTypes`, `PeopleRevive` | learning commands that overlap | `LearningInv`: of what a command has read and may still write, only a person's command has a DURABLE one (`Writes`) |
| `StoreKeepsItsPromise` | `StoreIsTransactional`: every step of the store is one step of `ExperienceFile` or none | `StoreInv` and `Tied`: a writer's transaction is the file and, of calls that failed, projects, so the next commit takes only those along (`OnFile`, `CommitRecords`); a commit needs the write lock and a snapshot that is not stale, so no row of another process is overwritten. `TellRecords` reduces the eight record functions, as the adapter calls them, to one row |
| `BridgeTypes`, `LinksAreOwn` | the agent bridge | `BridgeInv`: the window has actions of the sessions it says (`OwnedWindow`), so has every link by name, argument or conversation (`OwnAction`) |
| `TargetsTypes`, `RoutesAreKnown` | the target registry against its browser | `CdpInv`: there is one function from CDP sessions to targets with which the browser, the messages on the wire, the calls under way and both maps of the registry agree (`Known`). It is an existential witness, extended by each session the browser opens; the code has no such variable |
| `FramesTypes`, `RetrySuffices` | `RetryIsEnough`: what the client knows of the page | `FramesInv`. A world is *counted on* by an observation if it is in the realm or a context was lost since the observation began (`Counted`). A retry empties the cache entry, so what it finds there later is a world made meanwhile; the lock of the utility world makes it newer than every observation that has had the lock (`Past`, `CountedByAll`), and a late reply is still of that kind when it is read (`ReplyOK`). Navigations are read in order and ahead of the epoch, and of each caller at most one reply is on its way (`InTurn`) |
| `ExecutorTypes`, `ActsOnce`, `ReleasesAll` | input of an action, whatever is lost | `ExecutorInv`: in the list of commands left every press has its release later (`Balanced`), all that is held has a release to come, and no more presses are left than the clicks asked for less the clicks made (`ClicksLeft`). What a native call has inserted after n events is shown by least counterexample (`AfterExists`). A web TYPE never gets past its first command (section 5), which is why no claim about what it holds down is needed |
| `JudgeTypes`, `PassesAreProven` | the verdict | `JudgeInv` types the desktop, the request and the second observation; the proof then goes through the claims as `SynthesizeVerdict` concatenates them: a PASS leaves none that is wrong or unverified, and rests on a capture or on a certifying picture that stands in for it |
| `RecordsComposed`, `WorldComposed` | a behaviour of a composed run is one of every part's specification | a step is one part's and leaves the variables of the others (`PartsStep`); the others stay in their initial states, which their specifications allow |
| `RecordsTyped`, `WorldTyped` | `RecordsTypeOK`, `WorldTypeOK` | the type theorem of each part under the composition; `part` itself never changes |

`ActionEngineProofs` and the larger of the others do not go through Next action by action for every
invariant: a lemma (`Kinds`) reduces a step to what it does to one call and leaves to the rest
(`CallStep`, `Elsewhere`), and each invariant is shown for kinds.

### 4.3 Only model-checked

All liveness: `ShutdownCompletes`, `EveryLaunchAnswers`, `CycleClosesDead`, `EveryCommandEnds`,
`LossIsNoticed`, `EveryCallEnds`. Fairness and ENABLED are out of the reach of the provers used here. What
can be said of them without fairness is proved where it carries the argument: `NobodyIsStuck` is what
`ShutdownCompletes` and `EveryLaunchAnswers` need besides the scheduler, `LossesAreWitnessed` what
`EveryCommandEnds` and `LossIsNoticed` need, `TurnsAreTaken` is what
`EveryCallEnds` rests on (nobody is overtaken, nobody goes back, and the lock's queue never holds a
call that has ended), and `MissionsEnd` that no mission goes on for ever once its steps are scheduled.

## 5. Where code and documentation disagree

### 5.1 Shown by a run

| Run | Documented | What happens |
|---|---|---|
| `actions_replayed` | `docs/architecture/PHASE7_MCP_CONTROL_PLANE_REPORT.md:215` a retry "returns the cached ActionOutcome rather than replaying physical input events" | the cache is written only when `execute` has returned: an early retry waits, recovers its reference, and sends the input again |
| `learning_one_occurrence` | `docs/architecture/35_...:161`, `learning/safety_gate.py:10` "One occurrence cannot create durable knowledge" | every run of the observation command adds the stored failure's count once more (`store.py:2031`): five runs over one failure pass the gates |
| `typing_undisturbed` | `web_action_executor.py:385` "Focuses element and types characters" | the focusing script calls Python's `.lower()` in JavaScript (lines 359-361) and throws; the fallback's script does too (677-679): TYPE never types |
| `verdict_undisturbed` | `docs/architecture/20_MIGRATION_PLAN.md:128` runs achieve `Verdict.PASS` | `execute` calls the capture without its required `expected_creation_time` (`native_supervisor.py:1014`); the TypeError is swallowed (`action_engine.py:681`), and without a capture no verdict is PASS |

### 5.2 Stated in the modules

These formulas say what the text at the line promises and do not hold of the code. They are kept in their
modules, named in the hazards, and can be put into a `.cfg` of their module's run to see the behaviour.

| Formula | Promised at | What the code does |
|---|---|---|
| `DesktopDaemon!DeadTargetSwept` | `daemon.py:157` maintenance detects dead targets and closes their sessions | nothing in the runtime runs the cycle, and a reused pid raises `TargetMismatchException` out of its loop (line 165): that session is never closed, those after it are not looked at, in this cycle or a later one |
| `DesktopDaemon!StoppedKillsAll` | `daemon.py:182` shutdown terminates "all ... child processes" | a process whose job assignment failed (`process_supervisor.py:264`, ignored) survives a kill that fails (`:384-386`, `:413-415`, swallowed), or an attach that has made its record external (`:302`) |
| `DesktopDaemon!StoppedClosesTransports` | `daemon.py:182` shutdown terminates all transports | a pruned session is CLOSED with its core connected (`session_manager.py:358`), and shutdown lists open sessions only |
| `CdpTransport!DisconnectTerminates` | `cdp_transport.py:42` disconnect "terminates read loops" | a reconnect looks at `_close_requested` only when it begins (line 220) and may open a socket after disconnect has returned |
| `CdpTransport!EverySendEnds` | `cdp_transport.py:292` the `timeout_seconds` of `send_command` | the timeout covers the answer (line 303); a write that back-pressure holds is awaited without one, and `ping_interval=None` (line 162) never finds the peer dead |
| `MissionOrchestrator!CancelledIsCancelled` | `docs/architecture/30` section 5 (line 127): a cancelled mission becomes CANCELLED | a discovery that raises after the request ends FAILED with the verdict FAIL (`mission_orchestrator.py:205-217`) |
| `MissionOrchestrator!PassIsSealed` | `docs/architecture/30` section 7: PASS requires a sealed evidence package | a retry spends the delegation of the evidence step; the step is skipped and the verdict is PASS |
| `ActionEngine!RefsAreLive` | `references.py:3` no stale node reuse across mutations | candidates are registered under the epoch of the moment (`web_observation.py:264`), not the one read at line 142 |
| `CdpTargets!ClosedStaysClosed` | `cdp_target.py:91` close safety | `detach_target`, `attach_target` and a late event write their state over CLOSED: a destroyed target comes back in the list |
| `WebviewFrames!EpochFollowsNavigation` | `frame_manager.py:78` navigation advances the epoch | not while the connection is lost: reconnecting advances nothing, and references to the old document stay active |
| `ActionExecutors!HitMeansTarget` | `docs/architecture/17_ACTION_MODEL.md` the hit element is the target | the gate asks whether the point is in the viewport: an element that covers the target is hit instead |
| `ActionExecutors!DispatchedWasSent` | `action_models.py:55` DISPATCHED is the result of dispatching input | how many events `SendInput` inserted is noted and not looked at: an action of which none was inserted is DISPATCHED |
| `Verification!ChangeIsSeen` | `verification_engine.py:1057` the expected change occurred | the epoch the action itself advanced counts as the change, so the claim passes although the two observations are equal |
| `Verification!CaptureShowsWindow` | `native_supervisor.py:1075` an authoritative capture of the window | the crop is of the screen, and what covers the window by then is in it: the checks repeated afterwards do not look at occlusion |
| `ProcessTrees!NoOrphans` | `process_supervisor.py:227` "100% cleanup" of the tree | a process whose assignment fails, children it started before, and a job forgotten with its reused pid outlive the cleanup |
| `Updater!AutomaticRollbackRestores` | `updater.py:191` a failed validation rolls back | to the registry's known-good version, which is not always the one that ran before |
| `HarnessInjector!NothingIsLost` | `harness/injector.py:3-4` nothing of the developer's is destroyed | bytes that are not UTF-8 are dropped by the first rewrite (`errors="ignore"`), and a process that dies inside `write_text` leaves a cut file |
| `HarnessInjector!EveryRemovalIsClean` | `harness/manifest.py:52` what a clean uninstallation needs | after an init as a second framework the manifest names only the second one's file and client: the first one's block and client stay behind a REMOVED |
| `HarnessService!EqualIsReplay` | `harness/protocol.py:185` "sequence ... <= last seen" is rejected as a replay | the test is `<` (line 183): an equal number, which an unlocked `_sequence++` (`adapters/webview2.py:87-95`) can produce, is recorded again |
| `EvidenceStore!AuditFindsSeal` | `specialists/evidence.py` an action without a manifest is UNVERIFIED | it looks in the directory of the action, where no attempt puts its manifest: every sealed action is UNVERIFIED too |
| `ExperienceStore!HealthyCanRecord` | `store.py:4` durable, transactional; health OK | a store whose snapshot has gone stale says OK and never records again |
| `AgentBridge!ExactIsCertain` | `correlator.py:7` never fabricates certainty | the rule for the active session takes the closest action, of whatever session, and calls the link EXACT |

### 5.3 Met while reading

`heartbeat`, the `mark_*` operations, `run_maintenance_cycle` and `daemon.shutdown` have no caller inside
the runtime. A recovery's RECONNECT returns True without reconnecting, and several recovery and
certification paths name attributes that do not exist (`transport.is_alive`, `capture_observation`,
`is_window_hung`). The tester specialist rejects the parameters the orchestrator gives it, so that a
real mission's tester steps fail. `doctor` makes the installed version the known-good one without testing
it. Two update commands at a time lose each other's writes of the registry (`registry.py:122`
replaces the whole file), which is why `Updater` has one command at a time. An evidence lock is not
given back by a collection that is cancelled.

## 6. What is not modelled, and why

- *Pure functions over data:* coordinate conversions (floating point), reality reconciliation,
  fingerprints, locator scores, normalisation and privacy filters, pagination and compaction, roles of the
  accessibility tree, the TeamPreview adapter, capability, diagnostics and certification tables.
- *No state of their own, or never reached:* `win32.py`, the UIA bridge and the C# sidecar
  (no session of the runtime connects one), sidecar transports (nothing creates one), the MCP server's dispatch, the
  command-line scripts other than those of learning, harness and updates.
- *The stand-alone reviewer* (`core/`, `adapters/`, `detectors/`, `launchers/`): the older synchronous
  library, one thread and one session.
- *Inside the modelled parts:* cancellation of tasks by the host (but for evidence collection); the
  deques of the trace engine that nothing reads back into control; exports and privacy deletion of the
  experience store; generated harness code; `desktop_assert`'s predicates; `skill_sync`; how windows and
  debug ports are found. `core.disconnect` swallows its errors, and is one bounded wait in
  `DesktopDaemon`. `discover_http` is synchronous, so it is no suspension.
- *The outside:* Windows, the browser, SQLite, GitHub and pip are modelled from how they are used, and
  marked external in `PROJECT.json`.

## 7. The plan

1. Composition of `Verification` with `ActionEngine`: an inspection begun earlier overwrites the last
   snapshot (`observation_engine.py:196`) and the verdict's difference is taken from it. Each fits
   TLC alone, both together do not yet; the abstraction of `ActionEngine` to the order of its snapshots
   comes first.
2. `webview_core.connect` split at its awaits in `DesktopDaemon`, with a
   transport that stays connected behind a launch that failed.
3. Two update commands at a time, with the registry's lost write.
4. Tables as operators: reconciliation's classification and the assertions of `desktop_assert`.
