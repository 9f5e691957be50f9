------------------------------ MODULE SessionManager ------------------------------
(* runtime/session_manager.py: the registry of sessions that every client of    *)
(* the daemon shares, its leases, and the one asyncio.Lock that serialises its   *)
(* coroutines.  Any task may call any operation at any time.                     *)
(*                                                                               *)
(* asyncio runs one task until it suspends, so the body of an operation is one   *)
(* step; the only body that suspends while it holds the lock is close_session,   *)
(* at "await session.webview_core.disconnect()".  asyncio.Lock hands the lock to *)
(* waiters first come first served, and a task that finds the lock free with no  *)
(* waiter takes it without suspending.                                           *)
EXTENDS SessionStates, Integers, Sequences

CONSTANTS
  Sessions,       \* identifiers create_session may be given or draw
  NoSession,      \* what a call that names no session names
  Tasks,          \* coroutines that call the manager
  NoTask,         \* the lock has no holder
  CloseReasons,   \* the reasons callers give to close_session
  LeaseTimeout,   \* SessionConfig.lease_timeout_sec, in ticks
  MaxTime         \* bound: the clock stops there

ASSUME LeaseAssumption == LeaseTimeout \in Nat /\ MaxTime \in Nat
ASSUME NullAssumption == NoTask \notin Tasks /\ NoSession \notin Sessions
ASSUME ReasonAssumption == CloseReasons \cap {"none", "lease_timeout"} = {}

Absent == "Absent"      \* the registry has no such session
Time == Nat

VARIABLES
  life,      \* lifecycle_state of each session, or Absent
  conn,      \* connection_state of each session
  core,      \* webview_core: "none", or the state of its transport
  hb,        \* last_heartbeat
  reason,    \* cleanup_state["close_reason"]
  clock,     \* datetime.now(timezone.utc)
  holder,    \* the task inside "async with self._lock", between two steps
  waiters,   \* the tasks queued on the lock
  call,      \* the operation each task is inside of
  ret        \* how each task's last operation ended

vars == <<life, conn, core, hb, reason, clock, holder, waiters, call, ret>>

--------------------------------------------------------------------------------
(* The operations that change one session by one transition, and its target.     *)
MarkTarget ==
  [activate         |-> "ACTIVE",
   mark_degraded    |-> "DEGRADED",
   mark_target_lost |-> "TARGET_LOST",
   mark_recoverable |-> "RECOVERABLE",
   mark_recovered   |-> "ACTIVE"]

Marks == DOMAIN MarkTarget
Sweeps == {"list", "prune"}
Ops == Marks \cup {"create", "connect", "close"} \cup Sweeps

(* A call: its operation, the session it names, the reason it gives              *)
(* close_session, and the time read before the lock was asked for, which only    *)
(* prune_expired_sessions does (0 otherwise).                                    *)
Calls ==
  {c \in [op: Ops, sid: Sessions \cup {NoSession}, why: CloseReasons, now: Time] :
     c.op \in Sweeps <=> c.sid = NoSession}
Request(op, s, why) ==
  [op |-> op, sid |-> s, why |-> why, now |-> IF op = "prune" THEN clock ELSE 0]
Idle == [op |-> "idle"]

(* The states of the session's webview_core: its transport is open or closed.    *)
CoreStates == {"none", "connected", "disconnected"}

(* States that connect_session, and only it, leads to.                           *)
Operational == {"CONNECTED", "ACTIVE", "DEGRADED", "TARGET_LOST", "RECOVERABLE"}

IsOpen(s) == life[s] \in LifecycleStates \ Terminal
OpenSessions == {s \in Sessions : IsOpen(s)}

(* is_lease_expired(now): strictly more than the timeout has passed.  The first  *)
(* is its mutant.                                                                *)
ExpiredOffByOne(s, now) == now - hb[s] >= LeaseTimeout
Expired(s, now) == now - hb[s] > LeaseTimeout

TypeOK ==
  /\ life \in [Sessions -> LifecycleStates \cup {Absent}]
  /\ conn \in [Sessions -> ConnectionStates]
  /\ core \in [Sessions -> CoreStates]
  /\ hb \in [Sessions -> Time]
  /\ reason \in [Sessions -> CloseReasons \cup {"none", "lease_timeout"}]
  /\ clock \in Time
  /\ holder \in Tasks \cup {NoTask}
  /\ waiters \in Seq(Tasks)
  /\ call \in [Tasks -> Calls \cup {Idle}]
  /\ ret \in [Tasks -> {"ok", "raised"}]

Init ==
  /\ life = [s \in Sessions |-> Absent]
  /\ conn = [s \in Sessions |-> "DISCONNECTED"]
  /\ core = [s \in Sessions |-> "none"]
  /\ hb = [s \in Sessions |-> 0]
  /\ reason = [s \in Sessions |-> "none"]
  /\ clock = 0
  /\ holder = NoTask
  /\ waiters = <<>>
  /\ call = [t \in Tasks |-> Idle]
  /\ ret = [t \in Tasks |-> "ok"]

--------------------------------------------------------------------------------
(* Bodies: what an operation does once it has the lock.                          *)

(* The operation of t ends and "async with" releases the lock.                   *)
Return(t, how) ==
  /\ call' = [call EXCEPT ![t] = Idle]
  /\ ret' = [ret EXCEPT ![t] = how]
  /\ holder' = NoTask

Raise(t) ==
  /\ Return(t, "raised")
  /\ UNCHANGED <<life, conn, core, hb, reason>>

(* create_session: an identifier already registered, even of a closed session,   *)
(* raises ValueError.                                                            *)
Create(t, s) ==
  IF life[s] # Absent
    THEN Raise(t)
    ELSE /\ life' = [life EXCEPT ![s] = "CREATED"]
         /\ conn' = [conn EXCEPT ![s] = "DISCONNECTED"]
         /\ hb' = [hb EXCEPT ![s] = clock]
         /\ UNCHANGED <<core, reason>>
         /\ Return(t, "ok")

(* connect_session: through CONNECTING to CONNECTED, or the first of the two     *)
(* transitions raises.                                                           *)
Connect(t, s) ==
  IF ~CanTransition(life[s], "CONNECTING")
    THEN Raise(t)
    ELSE /\ life' = [life EXCEPT ![s] = "CONNECTED"]
         /\ conn' = [conn EXCEPT ![s] = "CONNECTED"]
         /\ UNCHANGED <<core, hb, reason>>
         /\ Return(t, "ok")

(* activate_session and the mark_* operations.                                   *)
Mark(t, op, s) ==
  IF ~CanTransition(life[s], MarkTarget[op])
    THEN Raise(t)
    ELSE /\ life' = [life EXCEPT ![s] = MarkTarget[op]]
         /\ UNCHANGED <<conn, core, hb, reason>>
         /\ Return(t, "ok")

(* The end of close_session: -> CLOSED, and the reason on record.                *)
MarkClosed(t, s, why) ==
  IF ~CanTransition(life[s], "CLOSED")
    THEN /\ Return(t, "raised")
         /\ UNCHANGED <<life, conn, reason>>
    ELSE /\ life' = [life EXCEPT ![s] = "CLOSED"]
         /\ conn' = [conn EXCEPT ![s] = "DISCONNECTED"]
         /\ reason' = [reason EXCEPT ![s] = why]
         /\ Return(t, "ok")

(* Mutant of close_session: the check of an already closed session is missing.   *)
CloseTwice(t, c) ==
  /\ life' = [life EXCEPT ![c.sid] = "CLOSED"]
  /\ conn' = [conn EXCEPT ![c.sid] = "DISCONNECTED"]
  /\ reason' = [reason EXCEPT ![c.sid] = c.why]
  /\ Return(t, "ok")
  /\ UNCHANGED <<core, hb>>

(* close_session up to its await, or to its end when there is no core to         *)
(* disconnect: closing a closed session changes nothing; DISCONNECTING is only   *)
(* entered where the table allows it (not from CREATED).                         *)
Close(t, c) ==
  LET s == c.sid
      leaves == CanTransition(life[s], "DISCONNECTING")
  IN  \/ /\ life[s] = "CLOSED"
         /\ Return(t, "ok")
         /\ UNCHANGED <<life, conn, core, hb, reason>>
      \/ /\ life[s] # "CLOSED"
         /\ core[s] = "none"
         /\ MarkClosed(t, s, c.why)
         /\ UNCHANGED <<core, hb>>
      \/ /\ life[s] # "CLOSED"
         /\ core[s] # "none"
         /\ life' = [life EXCEPT ![s] = IF leaves THEN "DISCONNECTING" ELSE @]
         /\ conn' = [conn EXCEPT ![s] = IF leaves THEN "DISCONNECTED" ELSE @]
         /\ holder' = t
         /\ call' = [call EXCEPT ![t] = c]
         /\ UNCHANGED <<core, hb, reason, ret>>

(* prune_expired_sessions: every open session whose lease had run out at now     *)
(* is closed, by the table or, where it forbids it, by assignment.               *)
Prune(t, now) ==
  LET gone == {s \in OpenSessions : Expired(s, now)}
  IN  /\ life' = [s \in Sessions |-> IF s \in gone THEN "CLOSED" ELSE life[s]]
      /\ reason' = [s \in Sessions |-> IF s \in gone THEN "lease_timeout" ELSE reason[s]]
      /\ UNCHANGED <<conn, core, hb>>
      /\ Return(t, "ok")

Body(t, c) ==
  \/ c.op = "create" /\ Create(t, c.sid)
  \/ c.op = "connect" /\ Connect(t, c.sid)
  \/ c.op \in Marks /\ Mark(t, c.op, c.sid)
  \/ c.op = "close" /\ Close(t, c)
  \/ c.op = "prune" /\ Prune(t, c.now)
  \/ /\ c.op = "list"
     /\ Return(t, "ok")
     /\ UNCHANGED <<life, conn, core, hb, reason>>

--------------------------------------------------------------------------------
(* Actions.                                                                      *)

(* get_session, which connect, the marks and close call before they ask for the  *)
(* lock, finds the session; otherwise it raises SessionNotFoundException.        *)
Known(c) == c.op \in Ops \ ({"create"} \cup Sweeps) => life[c.sid] # Absent

CallUnknown(t, c) ==
  /\ call[t] = Idle
  /\ ~Known(c)
  /\ ret' = [ret EXCEPT ![t] = "raised"]
  /\ UNCHANGED <<life, conn, core, hb, reason, clock, holder, waiters, call>>

(* The lock is free and nobody queues: the body runs at once.                    *)
CallFree(t, c) ==
  /\ call[t] = Idle
  /\ Known(c)
  /\ holder = NoTask /\ waiters = <<>>
  /\ Body(t, c)
  /\ UNCHANGED <<clock, waiters>>

(* Mutant: the last in is the first out.                                         *)
CallQueueLifo(t, c) ==
  /\ call[t] = Idle
  /\ Known(c)
  /\ holder # NoTask \/ waiters # <<>>
  /\ waiters' = <<t>> \o waiters
  /\ call' = [call EXCEPT ![t] = c]
  /\ UNCHANGED <<life, conn, core, hb, reason, clock, holder, ret>>

(* The lock is taken or others wait for it: join the queue.                      *)
CallQueue(t, c) ==
  /\ call[t] = Idle
  /\ Known(c)
  /\ holder # NoTask \/ waiters # <<>>
  /\ waiters' = Append(waiters, t)
  /\ call' = [call EXCEPT ![t] = c]
  /\ UNCHANGED <<life, conn, core, hb, reason, clock, holder, ret>>

(* Lock.release has woken the first waiter, which runs its body.                 *)
Grant(t) ==
  /\ holder = NoTask
  /\ waiters # <<>>
  /\ t = Head(waiters)
  /\ waiters' = Tail(waiters)
  /\ Body(t, call[t])
  /\ UNCHANGED clock

(* webview_core.disconnect returns (it swallows every error of the transport)    *)
(* and close_session runs to its end.                                            *)
FinishClose(t) ==
  /\ holder = t
  /\ core' = [core EXCEPT ![call[t].sid] = "disconnected"]
  /\ MarkClosed(t, call[t].sid, call[t].why)
  /\ UNCHANGED <<hb, clock, waiters>>

(* heartbeat takes no lock, and raises on a closed session.                      *)
Heartbeat(s) ==
  /\ IsOpen(s)
  /\ hb' = [hb EXCEPT ![s] = clock]
  /\ UNCHANGED <<life, conn, core, reason, clock, holder, waiters, call, ret>>

(* initialize_session_engines, at the end of "await core.connect()", binds a     *)
(* connected core to a session it was given earlier.  It takes the bridge's      *)
(* lock and not the manager's, and never looks at the session's state.           *)
BindCore(s) ==
  /\ life[s] # Absent
  /\ core[s] = "none"
  /\ core' = [core EXCEPT ![s] = "connected"]
  /\ UNCHANGED <<life, conn, hb, reason, clock, holder, waiters, call, ret>>

Tick ==
  /\ clock < MaxTime
  /\ clock' = clock + 1
  /\ UNCHANGED <<life, conn, core, hb, reason, holder, waiters, call, ret>>

Next ==
  \/ \E t \in Tasks, op \in Ops, s \in Sessions \cup {NoSession}, why \in CloseReasons :
       LET c == Request(op, s, why)
       IN  c \in Calls /\ (CallUnknown(t, c) \/ CallFree(t, c) \/ CallQueue(t, c))
  \/ \E t \in Tasks : Grant(t) \/ FinishClose(t)
  \/ \E s \in Sessions : Heartbeat(s) \/ BindCore(s)
  \/ Tick

Spec == Init /\ [][Next]_vars

--------------------------------------------------------------------------------
(* Properties.                                                                   *)

(* A session is half closed (DISCONNECTING) only while the task that closes it   *)
(* holds the lock, so no operation ever finds a session in that state.           *)
HalfClosedUnderLock ==
  \A s \in Sessions : life[s] = "DISCONNECTING" =>
    /\ holder \in Tasks
    /\ call[holder].op = "close" /\ call[holder].sid = s

(* connection_state follows lifecycle_state until the session is closed: every   *)
(* state only connect_session leads to has a live connection, the states before  *)
(* it and the half-closed state have none.                                       *)
ConnectionFollowsLife ==
  \A s \in Sessions :
    /\ life[s] \in Operational => conn[s] = "CONNECTED"
    /\ life[s] \in {Absent, "CREATED", "DISCONNECTING"} => conn[s] = "DISCONNECTED"

(* The lock's bookkeeping loses nobody: a task inside an operation is either the *)
(* holder or queued, exactly once, and nobody else is.                           *)
Queued(t) == \E i \in 1..Len(waiters) : waiters[i] = t

NoCallerLost ==
  /\ \A i, j \in 1..Len(waiters) : waiters[i] = waiters[j] => i = j
  /\ ~Queued(holder)
  /\ \A t \in Tasks : call[t] # Idle <=> t = holder \/ Queued(t)

(* CLOSED is for ever: a closed session keeps its state and the reason it was    *)
(* closed with, whatever is called on it later (close_session is idempotent).    *)
ClosedIsFinal ==
  [][\A s \in Sessions :
       life[s] = "CLOSED" => life'[s] = "CLOSED" /\ reason'[s] = reason[s]]_vars

(* close_session never raises on a session it found: from every state the        *)
(* operations can reach, CLOSED can be entered.  And it leaves no socket behind: *)
(* a session that it closes has no connected webview core at that moment.        *)
CloseReturns(t) ==
  call[t] # Idle /\ call[t].op = "close" /\ call'[t] = Idle
    => life'[call[t].sid] = "CLOSED" /\ ret'[t] = "ok"
CoreReleased(s) == IsOpen(s) /\ reason'[s] \in CloseReasons => core'[s] # "connected"
CloseAlwaysCloses ==
  [][(\A t \in Tasks : CloseReturns(t)) /\ (\A s \in Sessions : CoreReleased(s))]_vars

(* A lease is only taken away when it has really run out at the moment of the    *)
(* closing, however long prune_expired_sessions waited for the lock with the     *)
(* time it had read before, and whatever heartbeats came meanwhile.              *)
PruneOnlyExpired ==
  [][\A s \in Sessions : (IsOpen(s) /\ reason'[s] = "lease_timeout")
       => clock - hb[s] > LeaseTimeout]_vars
==================================================================================
