---------------------------- MODULE SessionManagerProofs ----------------------------
(* Safety of the session manager for every number of sessions and callers, every  *)
(* lease and every time.  The inductive invariant adds to the properties what the *)
(* lock protects: which states a session can be in at all, and that whoever holds *)
(* the lock between two steps is inside close_session.                            *)
EXTENDS SessionManager, TLAPS

(* The states the operations can lead a session to: no operation ends in ATTACH,  *)
(* ATTACHED, CONNECTING, TERMINATING, TERMINATED, FAILED, ERROR or ABORTED.       *)
Reached ==
  \A s \in Sessions :
    life[s] \in {Absent, "CREATED", "DISCONNECTING", "CLOSED"} \cup Operational

(* Whoever holds the lock between two steps is closing a session.                 *)
HolderCloses == holder \in Tasks => call[holder].op = "close"

SessionInv == Reached /\ ConnectionFollowsLife
LockInv == NoCallerLost /\ HolderCloses

IInv == TypeOK /\ SessionInv /\ LockInv /\ HalfClosedUnderLock

------------------------------------------------------------------------------------
(* What the proofs need of the table of transitions.                              *)
LEMMA TableFacts ==
  /\ \A to : ~CanTransition(Absent, to) /\ ~CanTransition("CLOSED", to)
  /\ \A to \in Operational \cup {"DISCONNECTING"} :
       ~CanTransition("CREATED", to) /\ ~CanTransition("DISCONNECTING", to)
  /\ ~CanTransition("DISCONNECTING", "CONNECTING")
  /\ CanTransition("DISCONNECTING", "CLOSED")
  /\ CanTransition("CREATED", "CLOSED")
  /\ \A from \in Operational : CanTransition(from, "CLOSED")
BY DEF CanTransition, NextStates, LifecycleStates, Absent, Operational, Ends, Leave, Terminal

(* Marks lead from one operational state to another.                              *)
LEMMA MarkFacts ==
  /\ Marks = {"activate", "mark_degraded", "mark_target_lost", "mark_recoverable",
              "mark_recovered"}
  /\ \A op \in Marks : MarkTarget[op] \in Operational
BY DEF Marks, MarkTarget, Operational

LEMMA CallFacts ==
  ASSUME NEW c \in Calls
  PROVE  /\ c # Idle
         /\ c.op \in Ops
         /\ c.sid \in Sessions \cup {NoSession}
         /\ c.op \notin Sweeps => c.sid \in Sessions
         /\ c.why \in CloseReasons
         /\ c.now \in Time
<1>1. c.op \in Ops /\ c.sid \in Sessions \cup {NoSession} /\ c.why \in CloseReasons /\ c.now \in Time
  BY DEF Calls
<1>2. c.op \in Sweeps <=> c.sid = NoSession
  BY DEF Calls
<1>3. "idle" \notin Ops
  BY MarkFacts DEF Ops, Sweeps
<1>4. c # Idle
  BY <1>1, <1>3 DEF Idle
<1> QED
  BY <1>1, <1>2, <1>4

------------------------------------------------------------------------------------
(* One body at a time.  A body runs for a task that has the lock, so no session   *)
(* is half closed when it begins.                                                 *)
BodyResult(t, c) ==
  /\ TypeOK'
  /\ SessionInv'
  /\ HalfClosedUnderLock'
  /\ \/ call' = [call EXCEPT ![t] = Idle] /\ holder' = NoTask
     \/ call' = [call EXCEPT ![t] = c] /\ holder' = t /\ c.op = "close"

LEMMA ReturnFacts ==
  ASSUME NEW t \in Tasks, NEW how \in {"ok", "raised"}, Return(t, how),
         call \in [Tasks -> Calls \cup {Idle}], ret \in [Tasks -> {"ok", "raised"}]
  PROVE  /\ call' \in [Tasks -> Calls \cup {Idle}]
         /\ ret' \in [Tasks -> {"ok", "raised"}]
         /\ holder' = NoTask
         /\ call' = [call EXCEPT ![t] = Idle]
BY DEF Return

LEMMA NothingHalfClosed ==
  ASSUME IInv, holder = NoTask
  PROVE  \A s \in Sessions :
           life[s] \in {Absent, "CREATED", "CLOSED"} \cup Operational
BY NullAssumption DEF IInv, HalfClosedUnderLock, SessionInv, Reached

LEMMA BodyStep ==
  ASSUME IInv, holder = NoTask, NEW t \in Tasks, NEW c \in Calls, Body(t, c),
         clock' = clock, waiters' \in Seq(Tasks)
  PROVE  BodyResult(t, c)
<1>q. \A s \in Sessions : life[s] \in {Absent, "CREATED", "CLOSED"} \cup Operational
  BY NothingHalfClosed
<1>t. TypeOK /\ Reached /\ ConnectionFollowsLife
  BY DEF IInv, SessionInv
<1>c. /\ c.op \in Ops
      /\ c.op \notin Sweeps => c.sid \in Sessions
      /\ c.why \in CloseReasons /\ c.now \in Time
  BY CallFacts
<1>r. ASSUME Raise(t) PROVE BodyResult(t, c)
  <2>1. Return(t, "raised") /\ UNCHANGED <<life, conn, core, hb, reason>>
    BY <1>r DEF Raise
  <2>2. /\ call' \in [Tasks -> Calls \cup {Idle}] /\ ret' \in [Tasks -> {"ok", "raised"}]
        /\ holder' = NoTask /\ call' = [call EXCEPT ![t] = Idle]
    BY <2>1, <1>t, ReturnFacts DEF TypeOK
  <2>3. TypeOK'
    BY <2>1, <2>2, <1>t DEF TypeOK
  <2>4. SessionInv'
    BY <2>1, <1>t DEF SessionInv, Reached, ConnectionFollowsLife
  <2>5. HalfClosedUnderLock'
    BY <2>1, <1>q DEF HalfClosedUnderLock, Operational, Absent
  <2> QED
    BY <2>2, <2>3, <2>4, <2>5 DEF BodyResult
<1>e. ASSUME NEW s \in Sessions, NEW st \in {"CREATED", "CLOSED"} \cup Operational,
             life' = [life EXCEPT ![s] = st], conn' \in [Sessions -> ConnectionStates],
             \A x \in Sessions : x # s => conn'[x] = conn[x],
             st \in Operational => conn'[s] = "CONNECTED",
             st = "CREATED" => conn'[s] = "DISCONNECTED",
             core' = core, hb' \in [Sessions -> Time],
             reason' \in [Sessions -> CloseReasons \cup {"none", "lease_timeout"}],
             Return(t, "ok")
      PROVE  BodyResult(t, c)
  <2>2. /\ call' \in [Tasks -> Calls \cup {Idle}] /\ ret' \in [Tasks -> {"ok", "raised"}]
        /\ holder' = NoTask /\ call' = [call EXCEPT ![t] = Idle]
    BY <1>e, <1>t, ReturnFacts DEF TypeOK
  <2>3. TypeOK'
    <3>1. life' \in [Sessions -> LifecycleStates \cup {Absent}]
      BY <1>e, <1>t DEF TypeOK, Operational, LifecycleStates
    <3> QED
      BY <1>e, <1>t, <2>2, <3>1 DEF TypeOK
  <2>4. \A x \in Sessions : life'[x] = IF x = s THEN st ELSE life[x]
    BY <1>e, <1>t DEF TypeOK
  <2>5. Reached'
    BY <2>4, <1>t DEF Reached
  <2>6. ConnectionFollowsLife'
    BY <2>4, <1>t, <1>e DEF ConnectionFollowsLife, Operational, Absent
  <2>7. HalfClosedUnderLock'
    BY <2>4, <1>q DEF HalfClosedUnderLock, Operational, Absent
  <2> QED
    BY <2>2, <2>3, <2>5, <2>6, <2>7 DEF BodyResult, SessionInv
<1>1. CASE c.op = "create" /\ Create(t, c.sid)
  <2>1. c.sid \in Sessions
    BY <1>1, <1>c DEF Sweeps
  <2>2. CASE life[c.sid] # Absent
    BY <1>1, <2>2, <1>r DEF Create
  <2>3. CASE life[c.sid] = Absent
    <3>1. /\ life' = [life EXCEPT ![c.sid] = "CREATED"]
          /\ conn' = [conn EXCEPT ![c.sid] = "DISCONNECTED"]
          /\ hb' = [hb EXCEPT ![c.sid] = clock]
          /\ core' = core /\ reason' = reason /\ Return(t, "ok")
      BY <1>1, <2>3 DEF Create
    <3>2. conn' \in [Sessions -> ConnectionStates] /\ hb' \in [Sessions -> Time]
      BY <3>1, <1>t DEF TypeOK, ConnectionStates
    <3>3. conn'[c.sid] = "DISCONNECTED" /\ \A x \in Sessions : x # c.sid => conn'[x] = conn[x]
      BY <3>1, <2>1, <1>t DEF TypeOK
    <3> QED
      BY <3>1, <3>2, <3>3, <2>1, <1>e, <1>t DEF TypeOK, Operational
  <2> QED
    BY <2>2, <2>3
<1>2. CASE c.op = "connect" /\ Connect(t, c.sid)
  <2>1. c.sid \in Sessions
    BY <1>2, <1>c DEF Sweeps
  <2>2. CASE ~CanTransition(life[c.sid], "CONNECTING")
    BY <1>2, <2>2, <1>r DEF Connect
  <2>3. CASE CanTransition(life[c.sid], "CONNECTING")
    <3>1. /\ life' = [life EXCEPT ![c.sid] = "CONNECTED"]
          /\ conn' = [conn EXCEPT ![c.sid] = "CONNECTED"]
          /\ hb' = hb /\ core' = core /\ reason' = reason /\ Return(t, "ok")
      BY <1>2, <2>3 DEF Connect
    <3>2. conn' \in [Sessions -> ConnectionStates]
      BY <3>1, <1>t DEF TypeOK, ConnectionStates
    <3>3. conn'[c.sid] = "CONNECTED" /\ \A x \in Sessions : x # c.sid => conn'[x] = conn[x]
      BY <3>1, <2>1, <1>t DEF TypeOK
    <3> QED
      BY <3>1, <3>2, <3>3, <2>1, <1>e, <1>t DEF TypeOK, Operational
  <2> QED
    BY <2>2, <2>3
<1>3. CASE c.op \in Marks /\ Mark(t, c.op, c.sid)
  <2>1. c.sid \in Sessions
    BY <1>3, <1>c, MarkFacts DEF Sweeps
  <2>2. CASE ~CanTransition(life[c.sid], MarkTarget[c.op])
    BY <1>3, <2>2, <1>r DEF Mark
  <2>3. CASE CanTransition(life[c.sid], MarkTarget[c.op])
    <3>1. /\ life' = [life EXCEPT ![c.sid] = MarkTarget[c.op]]
          /\ conn' = conn /\ hb' = hb /\ core' = core /\ reason' = reason
          /\ Return(t, "ok")
      BY <1>3, <2>3 DEF Mark
    <3>2. MarkTarget[c.op] \in Operational
      BY <1>3, MarkFacts
    <3>3. life[c.sid] \in Operational
      BY <2>1, <2>3, <3>2, <1>q, TableFacts
    <3>4. conn'[c.sid] = "CONNECTED"
      BY <2>1, <3>1, <3>3, <1>t DEF ConnectionFollowsLife
    <3>5. MarkTarget[c.op] # "CREATED"
      BY <3>2 DEF Operational
    <3> QED
      BY <3>1, <3>2, <3>4, <3>5, <2>1, <1>e, <1>t DEF TypeOK
  <2> QED
    BY <2>2, <2>3
<1>4. CASE c.op = "close" /\ Close(t, c)
  <2>1. c.sid \in Sessions
    BY <1>4, <1>c DEF Sweeps
  <2> DEFINE s == c.sid
  <2>2. CASE /\ life[s] = "CLOSED" /\ Return(t, "ok")
             /\ UNCHANGED <<life, conn, core, hb, reason>>
    <3>1. life' = [life EXCEPT ![s] = "CLOSED"]
      BY <2>1, <2>2, <1>t DEF TypeOK
    <3> QED
      BY <2>1, <2>2, <3>1, <1>e, <1>t DEF TypeOK, Operational
  <2>3. CASE /\ life[s] # "CLOSED" /\ core[s] = "none"
             /\ MarkClosed(t, s, c.why) /\ UNCHANGED <<core, hb>>
    <3>1. CASE ~CanTransition(life[s], "CLOSED")
      BY <2>3, <3>1, <1>r DEF MarkClosed, Raise
    <3>2. CASE CanTransition(life[s], "CLOSED")
      <4>1. /\ life' = [life EXCEPT ![s] = "CLOSED"]
            /\ conn' = [conn EXCEPT ![s] = "DISCONNECTED"]
            /\ reason' = [reason EXCEPT ![s] = c.why]
            /\ Return(t, "ok") /\ core' = core /\ hb' = hb
        BY <2>3, <3>2 DEF MarkClosed
      <4>2. /\ conn' \in [Sessions -> ConnectionStates]
            /\ reason' \in [Sessions -> CloseReasons \cup {"none", "lease_timeout"}]
        BY <4>1, <1>c, <1>t DEF TypeOK, ConnectionStates
      <4>3. \A x \in Sessions : x # s => conn'[x] = conn[x]
        BY <4>1, <2>1, <1>t DEF TypeOK
      <4> QED
        BY <4>1, <4>2, <4>3, <2>1, <1>e, <1>t DEF TypeOK, Operational
    <3> QED
      BY <3>1, <3>2
  <2>4. CASE /\ life[s] # "CLOSED" /\ core[s] # "none"
             /\ life' = [life EXCEPT ![s] = IF CanTransition(life[s], "DISCONNECTING")
                                              THEN "DISCONNECTING" ELSE @]
             /\ conn' = [conn EXCEPT ![s] = IF CanTransition(life[s], "DISCONNECTING")
                                              THEN "DISCONNECTED" ELSE @]
             /\ holder' = t /\ call' = [call EXCEPT ![t] = c]
             /\ UNCHANGED <<core, hb, reason, ret>>
    <3>1. /\ life' \in [Sessions -> LifecycleStates \cup {Absent}]
          /\ conn' \in [Sessions -> ConnectionStates]
      BY <2>4, <1>t DEF TypeOK, LifecycleStates, ConnectionStates
    <3>2. call' \in [Tasks -> Calls \cup {Idle}]
      BY <2>4, <1>t DEF TypeOK
    <3>3. TypeOK'
      BY <3>1, <3>2, <2>4, <1>t DEF TypeOK
    <3>4. \A x \in Sessions :
            life'[x] = IF x = s /\ CanTransition(life[s], "DISCONNECTING")
                         THEN "DISCONNECTING" ELSE life[x]
      BY <2>4, <1>t DEF TypeOK
    <3>5. \A x \in Sessions :
            conn'[x] = IF x = s /\ CanTransition(life[s], "DISCONNECTING")
                         THEN "DISCONNECTED" ELSE conn[x]
      BY <2>4, <1>t DEF TypeOK
    <3>6. Reached'
      BY <3>4, <1>t DEF Reached
    <3>7. ConnectionFollowsLife'
      BY <3>4, <3>5, <1>t DEF ConnectionFollowsLife, Operational, Absent
    <3>8. call'[t] = c
      BY <2>4, <1>t DEF TypeOK
    <3>9. HalfClosedUnderLock'
      BY <3>4, <3>8, <2>4, <1>4, <1>q DEF HalfClosedUnderLock, Operational, Absent
    <3> QED
      BY <3>3, <3>6, <3>7, <3>9, <2>4, <1>4 DEF BodyResult, SessionInv
  <2> QED
    BY <1>4, <2>2, <2>3, <2>4 DEF Close
<1>5. CASE c.op = "prune" /\ Prune(t, c.now)
  <2> DEFINE gone == {s \in OpenSessions : Expired(s, c.now)}
  <2>1. /\ life' = [s \in Sessions |-> IF s \in gone THEN "CLOSED" ELSE life[s]]
        /\ reason' = [s \in Sessions |-> IF s \in gone THEN "lease_timeout" ELSE reason[s]]
        /\ UNCHANGED <<conn, core, hb>> /\ Return(t, "ok")
    BY <1>5 DEF Prune
  <2> HIDE DEF gone
  <2>2. /\ call' \in [Tasks -> Calls \cup {Idle}] /\ ret' \in [Tasks -> {"ok", "raised"}]
        /\ holder' = NoTask /\ call' = [call EXCEPT ![t] = Idle]
    BY <2>1, <1>t, ReturnFacts DEF TypeOK
  <2>3. TypeOK'
    BY <2>1, <2>2, <1>t DEF TypeOK, LifecycleStates
  <2>4. SessionInv'
    BY <2>1, <1>t DEF SessionInv, Reached, ConnectionFollowsLife, Operational, Absent
  <2>5. HalfClosedUnderLock'
    BY <2>1, <1>q DEF HalfClosedUnderLock, Operational, Absent
  <2> QED
    BY <2>2, <2>3, <2>4, <2>5 DEF BodyResult
<1>6. CASE c.op = "list" /\ Return(t, "ok") /\ UNCHANGED <<life, conn, core, hb, reason>>
  <2>2. /\ call' \in [Tasks -> Calls \cup {Idle}] /\ ret' \in [Tasks -> {"ok", "raised"}]
        /\ holder' = NoTask /\ call' = [call EXCEPT ![t] = Idle]
    BY <1>6, <1>t, ReturnFacts DEF TypeOK
  <2>3. TypeOK'
    BY <1>6, <2>2, <1>t DEF TypeOK
  <2>4. SessionInv'
    BY <1>6, <1>t DEF SessionInv, Reached, ConnectionFollowsLife
  <2>5. HalfClosedUnderLock'
    BY <1>6, <1>q DEF HalfClosedUnderLock, Operational, Absent
  <2> QED
    BY <2>2, <2>3, <2>4, <2>5 DEF BodyResult
<1> QED
  BY <1>1, <1>2, <1>3, <1>4, <1>5, <1>6 DEF Body

------------------------------------------------------------------------------------
(* The queue of the lock.                                                         *)
(* Joining the end of a queue, and leaving its head.                              *)
LEMMA JoinQueue ==
  ASSUME NEW T, NEW w \in Seq(T), NEW t \in T,
         \A i, j \in 1..Len(w) : w[i] = w[j] => i = j,
         \A i \in 1..Len(w) : w[i] # t
  PROVE  LET v == Append(w, t)
         IN  /\ v \in Seq(T)
             /\ \A i, j \in 1..Len(v) : v[i] = v[j] => i = j
             /\ \A u : (\E i \in 1..Len(v) : v[i] = u) <=> (u = t \/ \E i \in 1..Len(w) : w[i] = u)
<1> DEFINE v == Append(w, t)
<1>1. v \in Seq(T) /\ Len(v) = Len(w) + 1 /\ v[Len(w) + 1] = t
  OBVIOUS
<1>2. \A i \in 1..Len(w) : v[i] = w[i]
  OBVIOUS
<1>3. Len(w) \in Nat
  OBVIOUS
<1> HIDE DEF v
<1>4. \A i \in 1..Len(v) : i \in 1..Len(w) \/ i = Len(w) + 1
  BY <1>1, <1>3
<1>5. \A i, j \in 1..Len(v) : v[i] = v[j] => i = j
  BY <1>1, <1>2, <1>3, <1>4
<1>6. \A u : (\E i \in 1..Len(v) : v[i] = u) <=> (u = t \/ \E i \in 1..Len(w) : w[i] = u)
  <2>1. \A i \in 1..Len(w) : i \in 1..Len(v)
    BY <1>1, <1>3
  <2>2. Len(w) + 1 \in 1..Len(v)
    BY <1>1, <1>3
  <2> QED
    BY <1>1, <1>2, <1>4, <2>1, <2>2
<1> QED
  BY <1>1, <1>5, <1>6 DEF v

LEMMA LeaveQueue ==
  ASSUME NEW T, NEW w \in Seq(T), w # <<>>,
         \A i, j \in 1..Len(w) : w[i] = w[j] => i = j
  PROVE  LET v == Tail(w)
         IN  /\ v \in Seq(T) /\ Head(w) \in T
             /\ \A i, j \in 1..Len(v) : v[i] = v[j] => i = j
             /\ \E i \in 1..Len(w) : w[i] = Head(w)
             /\ \A u : (\E i \in 1..Len(v) : v[i] = u)
                        <=> (u # Head(w) /\ \E i \in 1..Len(w) : w[i] = u)
<1> DEFINE v == Tail(w)
<1>1. v \in Seq(T) /\ Len(w) \in Nat \ {0} /\ Len(v) = Len(w) - 1 /\ Head(w) = w[1] /\ w[1] \in T
  OBVIOUS
<1>2. \A i \in 1..Len(v) : v[i] = w[i + 1] /\ i + 1 \in 1..Len(w)
  BY <1>1
<1> HIDE DEF v
<1>3. 1 \in 1..Len(w)
  BY <1>1
<1>4. \A i, j \in 1..Len(v) : v[i] = v[j] => i = j
  <2> SUFFICES ASSUME NEW i \in 1..Len(v), NEW j \in 1..Len(v), v[i] = v[j] PROVE i = j
    OBVIOUS
  <2>1. i + 1 = j + 1
    BY <1>2
  <2> QED
    BY <2>1
<1>5. ASSUME NEW u, NEW i \in 1..Len(v), v[i] = u
      PROVE  u # Head(w) /\ \E k \in 1..Len(w) : w[k] = u
  <2>1. w[i + 1] = u /\ i + 1 \in 1..Len(w) /\ i + 1 # 1
    BY <1>5, <1>2
  <2> QED
    BY <2>1, <1>1, <1>3
<1>6. ASSUME NEW u, u # Head(w), NEW k \in 1..Len(w), w[k] = u
      PROVE  \E i \in 1..Len(v) : v[i] = u
  <2>1. k - 1 \in 1..Len(v) /\ (k - 1) + 1 = k
    BY <1>1, <1>6
  <2>2. v[k - 1] = u
    BY <2>1, <1>2, <1>6
  <2> QED
    BY <2>1, <2>2
<1>7. \A u : (\E i \in 1..Len(v) : v[i] = u) <=> (u # Head(w) /\ \E i \in 1..Len(w) : w[i] = u)
  BY <1>5, <1>6
<1> QED
  BY <1>1, <1>3, <1>4, <1>7 DEF v

------------------------------------------------------------------------------------
(* The steps.                                                                     *)
LEMMA CallFreeStep ==
  ASSUME IInv, NEW t \in Tasks, NEW c \in Calls, CallFree(t, c)
  PROVE  IInv'
<1>0. /\ call[t] = Idle /\ holder = NoTask /\ waiters = <<>> /\ waiters' = <<>>
      /\ clock' = clock /\ Body(t, c)
  BY DEF CallFree
<1>t. TypeOK /\ NoCallerLost
  BY DEF IInv, LockInv
<1>1. BodyResult(t, c)
  <2>1. waiters' \in Seq(Tasks)
    BY <1>0
  <2> QED
    BY <1>0, <2>1, BodyStep
<1>2. \A u \in Tasks : call[u] = Idle
  BY <1>0, <1>t, NullAssumption DEF NoCallerLost, Queued
<1>3. CASE call' = [call EXCEPT ![t] = Idle] /\ holder' = NoTask
  <2>1. \A u \in Tasks : call'[u] = Idle
    BY <1>2, <1>3, <1>t DEF TypeOK
  <2>2. NoCallerLost'
    BY <1>0, <1>3, <2>1, NullAssumption DEF NoCallerLost, Queued
  <2>3. HolderCloses'
    BY <1>3, NullAssumption DEF HolderCloses
  <2> QED
    BY <1>1, <2>2, <2>3 DEF IInv, LockInv, BodyResult
<1>4. CASE call' = [call EXCEPT ![t] = c] /\ holder' = t /\ c.op = "close"
  <2>1. \A u \in Tasks : call'[u] = IF u = t THEN c ELSE Idle
    BY <1>2, <1>4, <1>t DEF TypeOK
  <2>2. c # Idle
    BY CallFacts
  <2>3. NoCallerLost'
    BY <1>0, <1>4, <2>1, <2>2 DEF NoCallerLost, Queued
  <2>4. HolderCloses'
    BY <1>4, <2>1 DEF HolderCloses
  <2> QED
    BY <1>1, <2>3, <2>4 DEF IInv, LockInv, BodyResult
<1> QED
  BY <1>1, <1>3, <1>4 DEF BodyResult

LEMMA CallQueueStep ==
  ASSUME IInv, NEW t \in Tasks, NEW c \in Calls, CallQueue(t, c)
  PROVE  IInv'
<1>0. /\ call[t] = Idle /\ waiters' = Append(waiters, t) /\ call' = [call EXCEPT ![t] = c]
      /\ UNCHANGED <<life, conn, core, hb, reason, clock, holder, ret>>
  BY DEF CallQueue
<1>t. TypeOK /\ NoCallerLost /\ HolderCloses /\ HalfClosedUnderLock /\ SessionInv
  BY DEF IInv, LockInv
<1>1. \A i \in 1..Len(waiters) : waiters[i] # t
  BY <1>0, <1>t DEF NoCallerLost, Queued
<1>h. holder # t
  BY <1>0, <1>1, <1>t DEF NoCallerLost, Queued
<1>2. /\ waiters' \in Seq(Tasks)
      /\ \A i, j \in 1..Len(waiters') : waiters'[i] = waiters'[j] => i = j
      /\ \A u : (\E i \in 1..Len(waiters') : waiters'[i] = u)
                 <=> (u = t \/ \E i \in 1..Len(waiters) : waiters[i] = u)
  BY <1>0, <1>1, <1>t, JoinQueue DEF TypeOK, NoCallerLost, Queued
<1>3. c # Idle
  BY CallFacts
<1>4. \A u \in Tasks : call'[u] = IF u = t THEN c ELSE call[u]
  BY <1>0, <1>t DEF TypeOK
<1>5. TypeOK'
  <2>1. call' \in [Tasks -> Calls \cup {Idle}]
    BY <1>0, <1>t DEF TypeOK
  <2> QED
    BY <1>0, <1>2, <1>t, <2>1 DEF TypeOK
<1>6. NoCallerLost'
  <2>1. \A u \in Tasks : call'[u] # Idle <=> u = holder' \/ Queued(u)'
    <3> TAKE u \in Tasks
    <3>1. CASE u = t
      BY <3>1, <1>0, <1>2, <1>3, <1>4, <1>h DEF Queued
    <3>2. CASE u # t
      BY <3>2, <1>0, <1>2, <1>4, <1>t DEF NoCallerLost, Queued
    <3> QED
      BY <3>1, <3>2
  <2> QED
    BY <2>1, <1>0, <1>2, <1>h, <1>t DEF NoCallerLost, Queued
<1>7. HolderCloses' /\ HalfClosedUnderLock'
  BY <1>0, <1>4, <1>h, <1>t DEF HolderCloses, HalfClosedUnderLock
<1>8. SessionInv'
  BY <1>0, <1>t DEF SessionInv, Reached, ConnectionFollowsLife
<1> QED
  BY <1>5, <1>6, <1>7, <1>8 DEF IInv, LockInv

LEMMA GrantStep ==
  ASSUME IInv, NEW t \in Tasks, Grant(t)
  PROVE  IInv'
<1>0. /\ holder = NoTask /\ waiters # <<>> /\ t = Head(waiters) /\ waiters' = Tail(waiters)
      /\ clock' = clock /\ Body(t, call[t])
  BY DEF Grant
<1>t. TypeOK /\ NoCallerLost
  BY DEF IInv, LockInv
<1>1. /\ waiters' \in Seq(Tasks)
      /\ \A i, j \in 1..Len(waiters') : waiters'[i] = waiters'[j] => i = j
      /\ \E i \in 1..Len(waiters) : waiters[i] = t
      /\ \A u : (\E i \in 1..Len(waiters') : waiters'[i] = u)
                 <=> (u # t /\ \E i \in 1..Len(waiters) : waiters[i] = u)
  <2>1. waiters \in Seq(Tasks) /\ \A i, j \in 1..Len(waiters) : waiters[i] = waiters[j] => i = j
    BY <1>t DEF TypeOK, NoCallerLost
  <2>2. waiters # <<>>
    BY <1>0
  <2> QED
    BY <1>0, <2>1, <2>2, LeaveQueue
<1>2. call[t] # Idle /\ call[t] \in Calls
  BY <1>0, <1>1, <1>t, NullAssumption DEF NoCallerLost, Queued, TypeOK
<1>3. BodyResult(t, call[t])
  BY <1>0, <1>1, <1>2, BodyStep
<1>4. CASE call' = [call EXCEPT ![t] = Idle] /\ holder' = NoTask
  <2>1. \A u \in Tasks : call'[u] = IF u = t THEN Idle ELSE call[u]
    BY <1>4, <1>t DEF TypeOK
  <2>2. NoCallerLost'
    <3>1. ~Queued(holder)'
      BY <1>0, <1>1, <1>4, <1>t DEF NoCallerLost, Queued
    <3>2. \A u \in Tasks : call'[u] # Idle <=> u = holder' \/ Queued(u)'
      <4> TAKE u \in Tasks
      <4>1. u # holder /\ u # holder'
        BY <1>0, <1>4, NullAssumption
      <4>2. call[u] # Idle <=> Queued(u)
        BY <4>1, <1>t DEF NoCallerLost
      <4>3. Queued(u)' <=> u # t /\ Queued(u)
        BY <1>1 DEF Queued
      <4> QED
        BY <2>1, <4>1, <4>2, <4>3
    <3> QED
      BY <1>1, <3>1, <3>2 DEF NoCallerLost
  <2>3. HolderCloses'
    BY <1>4, NullAssumption DEF HolderCloses
  <2> QED
    BY <1>3, <2>2, <2>3 DEF IInv, LockInv, BodyResult
<1>5. CASE call' = [call EXCEPT ![t] = call[t]] /\ holder' = t /\ call[t].op = "close"
  <2>1. call' = call
    BY <1>5, <1>t DEF TypeOK
  <2>2. NoCallerLost'
    BY <1>0, <1>1, <1>2, <1>5, <1>t, <2>1, NullAssumption DEF NoCallerLost, Queued
  <2>3. HolderCloses'
    BY <1>5, <2>1 DEF HolderCloses
  <2> QED
    BY <1>3, <2>2, <2>3 DEF IInv, LockInv, BodyResult
<1> QED
  BY <1>3, <1>4, <1>5 DEF BodyResult

LEMMA FinishCloseStep ==
  ASSUME IInv, NEW t \in Tasks, FinishClose(t)
  PROVE  IInv'
<1> DEFINE c == call[t]
           s == call[t].sid
<1>0. /\ holder = t /\ core' = [core EXCEPT ![s] = "disconnected"]
      /\ MarkClosed(t, s, c.why) /\ hb' = hb /\ clock' = clock /\ waiters' = waiters
  BY DEF FinishClose
<1>t. TypeOK /\ NoCallerLost /\ HolderCloses /\ HalfClosedUnderLock /\ SessionInv
  BY DEF IInv, LockInv
<1>1. c \in Calls /\ c.op = "close"
  <2>1. c.op = "close"
    BY <1>0, <1>t DEF HolderCloses
  <2>2. c # Idle
    BY <2>1 DEF Idle
  <2> QED
    BY <2>1, <2>2, <1>t DEF TypeOK
<1>2. s \in Sessions /\ c.why \in CloseReasons
  BY <1>1, CallFacts DEF Sweeps
<1> HIDE DEF c, s
<1>3. \A x \in Sessions : life[x] = "DISCONNECTING" => x = s
  BY <1>0, <1>t DEF HalfClosedUnderLock, s
<1>4. /\ call' = [call EXCEPT ![t] = Idle] /\ holder' = NoTask
      /\ call' \in [Tasks -> Calls \cup {Idle}] /\ ret' \in [Tasks -> {"ok", "raised"}]
  <2>1. Return(t, "ok") \/ Return(t, "raised")
    BY <1>0 DEF MarkClosed
  <2> QED
    BY <2>1, <1>t, ReturnFacts DEF TypeOK
<1>5. core' \in [Sessions -> CoreStates]
  BY <1>0, <1>t DEF TypeOK, CoreStates
<1>6. CASE CanTransition(life[s], "CLOSED")
  <2>1. /\ life' = [life EXCEPT ![s] = "CLOSED"] /\ conn' = [conn EXCEPT ![s] = "DISCONNECTED"]
        /\ reason' = [reason EXCEPT ![s] = c.why]
    BY <1>0, <1>6 DEF MarkClosed
  <2>2. TypeOK'
    BY <2>1, <1>0, <1>2, <1>4, <1>5, <1>t DEF TypeOK, LifecycleStates, ConnectionStates
  <2>3. \A x \in Sessions : /\ life'[x] = IF x = s THEN "CLOSED" ELSE life[x]
                            /\ conn'[x] = IF x = s THEN "DISCONNECTED" ELSE conn[x]
    BY <2>1, <1>t DEF TypeOK
  <2>4. SessionInv'
    BY <2>3, <1>t DEF SessionInv, Reached, ConnectionFollowsLife, Operational, Absent
  <2>5. HalfClosedUnderLock'
    BY <2>3, <1>3 DEF HalfClosedUnderLock
  <2> QED
    <3>1. NoCallerLost'
      BY <1>0, <1>4, <1>t, NullAssumption DEF NoCallerLost, Queued, TypeOK
    <3>2. HolderCloses'
      BY <1>4, NullAssumption DEF HolderCloses
    <3> QED
      BY <2>2, <2>4, <2>5, <3>1, <3>2 DEF IInv, LockInv
<1>7. CASE ~CanTransition(life[s], "CLOSED")
  <2>1. UNCHANGED <<life, conn, reason>>
    BY <1>0, <1>7 DEF MarkClosed
  <2>2. TypeOK'
    BY <2>1, <1>0, <1>4, <1>5, <1>t DEF TypeOK
  <2>3. life[s] # "DISCONNECTING"
    BY <1>7, TableFacts
  <2>4. HalfClosedUnderLock'
    BY <2>1, <2>3, <1>3 DEF HalfClosedUnderLock
  <2>5. SessionInv'
    BY <2>1, <1>t DEF SessionInv, Reached, ConnectionFollowsLife
  <2>6. NoCallerLost' /\ HolderCloses'
    BY <1>0, <1>4, <1>t, NullAssumption DEF NoCallerLost, Queued, HolderCloses, TypeOK
  <2> QED
    BY <2>2, <2>4, <2>5, <2>6 DEF IInv, LockInv
<1> QED
  BY <1>6, <1>7

(* The steps that neither take nor release the lock.                              *)
LEMMA OtherStep ==
  ASSUME IInv, holder' = holder, waiters' = waiters, call' = call, life' = life, conn' = conn,
         TypeOK'
  PROVE  IInv'
BY DEF IInv, SessionInv, Reached, ConnectionFollowsLife, LockInv, NoCallerLost, Queued,
       HolderCloses, HalfClosedUnderLock

LEMMA StepPreservesIInv ==
  ASSUME IInv, [Next]_vars
  PROVE  IInv'
<1>t. TypeOK
  BY DEF IInv
<1>1. ASSUME NEW t \in Tasks, NEW op \in Ops, NEW s \in Sessions \cup {NoSession},
             NEW why \in CloseReasons, Request(op, s, why) \in Calls,
             \/ CallUnknown(t, Request(op, s, why)) \/ CallFree(t, Request(op, s, why))
             \/ CallQueue(t, Request(op, s, why))
      PROVE  IInv'
  <2> DEFINE c == Request(op, s, why)
  <2>1. c \in Calls
    BY <1>1
  <2> HIDE DEF c
  <2>2. CASE CallUnknown(t, c)
    <3>1. ret' \in [Tasks -> {"ok", "raised"}]
      BY <2>2, <1>t DEF CallUnknown, TypeOK
    <3>2. TypeOK'
      BY <3>1, <2>2, <1>t DEF CallUnknown, TypeOK
    <3> QED
      BY <2>2, <3>2, OtherStep DEF CallUnknown
  <2>3. CASE CallFree(t, c)
    BY <2>1, <2>3, CallFreeStep
  <2>4. CASE CallQueue(t, c)
    BY <2>1, <2>4, CallQueueStep
  <2> QED
    BY <1>1, <2>2, <2>3, <2>4 DEF c
<1>2. ASSUME NEW t \in Tasks, Grant(t) \/ FinishClose(t)
      PROVE  IInv'
  BY <1>2, GrantStep, FinishCloseStep
<1>3. ASSUME NEW s \in Sessions, Heartbeat(s)
      PROVE  IInv'
  <2>1. hb' \in [Sessions -> Time]
    BY <1>3, <1>t DEF Heartbeat, TypeOK
  <2>2. TypeOK'
    BY <1>3, <1>t, <2>1 DEF Heartbeat, TypeOK
  <2> QED
    BY <1>3, <2>2, OtherStep DEF Heartbeat
<1>4. ASSUME NEW s \in Sessions, BindCore(s)
      PROVE  IInv'
  <2>1. core' \in [Sessions -> CoreStates]
    BY <1>4, <1>t DEF BindCore, TypeOK, CoreStates
  <2>2. TypeOK'
    BY <1>4, <1>t, <2>1 DEF BindCore, TypeOK
  <2> QED
    BY <1>4, <2>2, OtherStep DEF BindCore
<1>5. CASE Tick
  <2>1. clock' \in Time
    BY <1>5, <1>t DEF Tick, TypeOK, Time
  <2>2. TypeOK'
    BY <1>5, <1>t, <2>1 DEF Tick, TypeOK
  <2> QED
    BY <1>5, <2>2, OtherStep DEF Tick
<1>6. CASE UNCHANGED vars
  <2>1. TypeOK'
    BY <1>6, <1>t DEF vars, TypeOK
  <2> QED
    BY <1>6, <2>1, OtherStep DEF vars
<1> QED
  BY <1>1, <1>2, <1>3, <1>4, <1>5, <1>6 DEF Next

LEMMA InitIInv ==
  ASSUME Init
  PROVE  IInv
<1>1. TypeOK
  BY DEF Init, TypeOK, ConnectionStates, CoreStates, Time
<1>2. SessionInv /\ HalfClosedUnderLock
  BY DEF Init, SessionInv, Reached, ConnectionFollowsLife, HalfClosedUnderLock, Operational, Absent
<1>3. NoCallerLost /\ HolderCloses
  BY NullAssumption DEF Init, NoCallerLost, Queued, HolderCloses
<1> QED
  BY <1>1, <1>2, <1>3 DEF IInv, LockInv

(* The invariant holds in every reachable state of the session manager.           *)
THEOREM InvariantHolds == Spec => []IInv
<1>1. Init => IInv
  BY InitIInv
<1>2. IInv /\ [Next]_vars => IInv'
  BY StepPreservesIInv
<1> QED
  BY <1>1, <1>2, PTL DEF Spec

(* Type correctness of the session manager.                                       *)
THEOREM TypeCorrect == Spec => []TypeOK
<1>1. IInv => TypeOK
  BY DEF IInv
<1> QED
  BY <1>1, InvariantHolds, PTL

(* A session is half closed only under the lock of the task that closes it: no    *)
(* operation of SessionManager ever meets a session in DISCONNECTING.             *)
THEOREM HalfClosedOnlyUnderLock == Spec => []HalfClosedUnderLock
<1>1. IInv => HalfClosedUnderLock
  BY DEF IInv
<1> QED
  BY <1>1, InvariantHolds, PTL

(* connection_state agrees with lifecycle_state in every open session.            *)
THEOREM ConnectionAgrees == Spec => []ConnectionFollowsLife
<1>1. IInv => ConnectionFollowsLife
  BY DEF IInv, SessionInv
<1> QED
  BY <1>1, InvariantHolds, PTL

(* Every caller inside an operation is the holder of the lock or queued, once.    *)
THEOREM CallersAccountedFor == Spec => []NoCallerLost
<1>1. IInv => NoCallerLost
  BY DEF IInv, LockInv
<1> QED
  BY <1>1, InvariantHolds, PTL

------------------------------------------------------------------------------------
(* What a closed session keeps.                                                   *)
KeepsClosed ==
  \A s \in Sessions : life[s] = "CLOSED" => life'[s] = "CLOSED" /\ reason'[s] = reason[s]

LEMMA MarkClosedKeeps ==
  ASSUME TypeOK, NEW t \in Tasks, NEW s \in Sessions, NEW why \in CloseReasons,
         MarkClosed(t, s, why)
  PROVE  KeepsClosed
<1>1. CASE ~CanTransition(life[s], "CLOSED")
  BY <1>1 DEF MarkClosed, KeepsClosed
<1>2. CASE CanTransition(life[s], "CLOSED")
  <2>1. life[s] # "CLOSED"
    BY <1>2, TableFacts
  <2>2. life' = [life EXCEPT ![s] = "CLOSED"] /\ reason' = [reason EXCEPT ![s] = why]
    BY <1>2 DEF MarkClosed
  <2> QED
    BY <2>1, <2>2 DEF KeepsClosed, TypeOK
<1> QED
  BY <1>1, <1>2

LEMMA BodyKeepsClosed ==
  ASSUME TypeOK, NEW t \in Tasks, NEW c \in Calls, Body(t, c)
  PROVE  KeepsClosed
<1>c. /\ c.op \notin Sweeps => c.sid \in Sessions
      /\ c.why \in CloseReasons
  BY CallFacts
<1>1. ASSUME UNCHANGED life, UNCHANGED reason PROVE KeepsClosed
  BY <1>1 DEF KeepsClosed
<1>2. ASSUME NEW s \in Sessions, life[s] # "CLOSED", NEW st, life' = [life EXCEPT ![s] = st],
             reason' = reason
      PROVE  KeepsClosed
  BY <1>2 DEF KeepsClosed, TypeOK
<1>3. CASE c.op = "create" /\ Create(t, c.sid)
  <2>1. c.sid \in Sessions
    BY <1>3, <1>c DEF Sweeps
  <2>2. CASE life[c.sid] # Absent
    BY <1>1, <1>3, <2>2 DEF Create, Raise
  <2>3. CASE life[c.sid] = Absent
    BY <1>2, <1>3, <2>1, <2>3 DEF Create, Absent
  <2> QED
    BY <2>2, <2>3
<1>4. CASE c.op = "connect" /\ Connect(t, c.sid)
  <2>1. c.sid \in Sessions
    BY <1>4, <1>c DEF Sweeps
  <2>2. CASE ~CanTransition(life[c.sid], "CONNECTING")
    BY <1>1, <1>4, <2>2 DEF Connect, Raise
  <2>3. CASE CanTransition(life[c.sid], "CONNECTING")
    <3>1. life[c.sid] # "CLOSED"
      BY <2>3, TableFacts
    <3> QED
      BY <1>2, <1>4, <2>1, <2>3, <3>1 DEF Connect
  <2> QED
    BY <2>2, <2>3
<1>5. CASE c.op \in Marks /\ Mark(t, c.op, c.sid)
  <2>1. c.sid \in Sessions
    BY <1>5, <1>c, MarkFacts DEF Sweeps
  <2>2. CASE ~CanTransition(life[c.sid], MarkTarget[c.op])
    BY <1>1, <1>5, <2>2 DEF Mark, Raise
  <2>3. CASE CanTransition(life[c.sid], MarkTarget[c.op])
    <3>1. life[c.sid] # "CLOSED"
      BY <2>3, TableFacts
    <3> QED
      BY <1>2, <1>5, <2>1, <2>3, <3>1 DEF Mark
  <2> QED
    BY <2>2, <2>3
<1>6. CASE c.op = "close" /\ Close(t, c)
  <2>1. c.sid \in Sessions
    BY <1>6, <1>c DEF Sweeps
  <2>2. CASE life[c.sid] = "CLOSED" /\ UNCHANGED <<life, conn, core, hb, reason>>
    BY <1>1, <2>2
  <2>3. CASE MarkClosed(t, c.sid, c.why)
    BY <1>c, <2>1, <2>3, MarkClosedKeeps
  <2>4. CASE life[c.sid] # "CLOSED" /\ UNCHANGED reason
             /\ life' = [life EXCEPT ![c.sid] = IF CanTransition(life[c.sid], "DISCONNECTING")
                                                 THEN "DISCONNECTING" ELSE @]
    BY <2>1, <2>4 DEF KeepsClosed, TypeOK
  <2> QED
    BY <1>6, <2>2, <2>3, <2>4 DEF Close
<1>7. CASE c.op = "prune" /\ Prune(t, c.now)
  <2>1. \A s \in OpenSessions : life[s] # "CLOSED"
    BY DEF OpenSessions, IsOpen, Terminal
  <2> QED
    BY <1>7, <2>1 DEF Prune, KeepsClosed
<1>8. CASE UNCHANGED <<life, conn, core, hb, reason>>
  BY <1>1, <1>8
<1> QED
  BY <1>3, <1>4, <1>5, <1>6, <1>7, <1>8 DEF Body

LEMMA StepKeepsClosed ==
  ASSUME IInv, [Next]_vars
  PROVE  KeepsClosed
<1>t. TypeOK
  BY DEF IInv
<1>1. ASSUME NEW t \in Tasks, NEW c \in Calls, CallUnknown(t, c) \/ CallQueue(t, c)
      PROVE  KeepsClosed
  BY <1>1 DEF CallUnknown, CallQueue, KeepsClosed
<1>2. ASSUME NEW t \in Tasks, NEW c \in Calls, CallFree(t, c)
      PROVE  KeepsClosed
  BY <1>2, <1>t, BodyKeepsClosed DEF CallFree
<1>3. ASSUME NEW t \in Tasks, Grant(t)
      PROVE  KeepsClosed
  <2>1. Queued(t)
    <3>1. waiters \in Seq(Tasks) /\ waiters # <<>> /\ t = Head(waiters)
      BY <1>3, <1>t DEF Grant, TypeOK
    <3>2. 1 \in 1..Len(waiters) /\ waiters[1] = t
      BY <3>1
    <3> QED
      BY <3>2 DEF Queued
  <2>2. call[t] \in Calls
    BY <2>1, <1>t DEF IInv, LockInv, NoCallerLost, TypeOK
  <2> QED
    BY <1>3, <1>t, <2>2, BodyKeepsClosed DEF Grant
<1>4. ASSUME NEW t \in Tasks, FinishClose(t)
      PROVE  KeepsClosed
  <2>1. call[t].op = "close"
    BY <1>4 DEF FinishClose, IInv, LockInv, HolderCloses
  <2>2. call[t] \in Calls
    BY <2>1, <1>t DEF TypeOK, Idle
  <2>3. call[t].sid \in Sessions /\ call[t].why \in CloseReasons
    BY <2>1, <2>2, CallFacts DEF Sweeps
  <2> QED
    BY <1>4, <1>t, <2>3, MarkClosedKeeps DEF FinishClose
<1>5. ASSUME NEW s \in Sessions, Heartbeat(s) \/ BindCore(s)
      PROVE  KeepsClosed
  BY <1>5 DEF Heartbeat, BindCore, KeepsClosed
<1>6. CASE Tick \/ UNCHANGED vars
  BY <1>6 DEF Tick, vars, KeepsClosed
<1> QED
  BY <1>1, <1>2, <1>3, <1>4, <1>5, <1>6 DEF Next

(* CLOSED is final, and so is the reason on record: close_session is idempotent   *)
(* and neither a prune nor a late launch step reopens a session.                  *)
THEOREM ClosedForEver == Spec => ClosedIsFinal
<1>1. IInv /\ [Next]_vars => [KeepsClosed]_vars
  BY StepKeepsClosed
<1>2. Spec => [][KeepsClosed]_vars
  BY <1>1, InvariantHolds, PTL DEF Spec
<1> QED
  BY <1>2 DEF ClosedIsFinal, KeepsClosed

------------------------------------------------------------------------------------
(* What a close and a prune may rely on: an operation in progress named a session  *)
(* that is registered, the session the lock's holder closes is still open, an open *)
(* session has no close reason yet, and the time a caller has read is past.        *)
CalledKnown == \A t \in Tasks : call[t] # Idle => Known(call[t])
HolderOpen == holder \in Tasks => life[call[holder].sid] \notin {Absent, "CLOSED"}
OpenHasNoReason == \A s \in Sessions : life[s] # "CLOSED" => reason[s] = "none"
NowIsPast == \A t \in Tasks : call[t] # Idle => call[t].now <= clock

LeaseInv == CalledKnown /\ HolderOpen /\ OpenHasNoReason /\ NowIsPast

(* A session is registered for good.                                              *)
KeepsRegistered == \A s \in Sessions : life[s] # Absent => life'[s] # Absent

(* A lease ends a session only where it has run out by the clock.                 *)
PrunesExpired ==
  \A s \in Sessions : IsOpen(s) /\ reason'[s] = "lease_timeout" => clock - hb[s] > LeaseTimeout

(* What a step leaves true of the sessions.                                       *)
SessionsKept ==
  /\ KeepsRegistered
  /\ OpenHasNoReason'
  /\ \A s \in Sessions : CoreReleased(s)
  /\ PrunesExpired

LEMMA ReasonFacts ==
  /\ \A why \in CloseReasons : why # "none" /\ why # "lease_timeout"
  /\ \A s \in Sessions : IsOpen(s) => life[s] # "CLOSED" /\ life[s] # Absent
  BY ReasonAssumption DEF IsOpen, Terminal, Absent, LifecycleStates

LEMMA ReasonsUntouched ==
  ASSUME OpenHasNoReason, UNCHANGED reason, KeepsRegistered,
         \A s \in Sessions : life[s] = "CLOSED" => life'[s] = "CLOSED"
  PROVE  SessionsKept
<1>1. \A s \in Sessions : IsOpen(s) => reason'[s] = "none"
  BY ReasonFacts DEF OpenHasNoReason
<1>2. OpenHasNoReason'
  BY DEF OpenHasNoReason
<1> QED
  BY <1>1, <1>2, ReasonFacts DEF SessionsKept, CoreReleased, PrunesExpired

(* The end of close_session: a registered, open session is CLOSED, with its core  *)
(* gone or never there.                                                           *)
LEMMA MarkClosedCloses ==
  ASSUME TypeOK, Reached, OpenHasNoReason, NEW t \in Tasks, NEW s \in Sessions,
         NEW why \in CloseReasons, MarkClosed(t, s, why), life[s] \notin {Absent, "CLOSED"},
         core'[s] # "connected"
  PROVE  /\ SessionsKept /\ life' = [life EXCEPT ![s] = "CLOSED"]
         /\ call' = [call EXCEPT ![t] = Idle] /\ ret' = [ret EXCEPT ![t] = "ok"] /\ holder' = NoTask
<1>1. CanTransition(life[s], "CLOSED")
  BY TableFacts DEF Reached
<1>2. /\ life' = [life EXCEPT ![s] = "CLOSED"] /\ reason' = [reason EXCEPT ![s] = why]
      /\ call' = [call EXCEPT ![t] = Idle] /\ ret' = [ret EXCEPT ![t] = "ok"] /\ holder' = NoTask
  BY <1>1 DEF MarkClosed, Return
<1>3. \A x \in Sessions : /\ life'[x] = IF x = s THEN "CLOSED" ELSE life[x]
                          /\ reason'[x] = IF x = s THEN why ELSE reason[x]
  BY <1>2 DEF TypeOK
<1>4. KeepsRegistered /\ OpenHasNoReason'
  BY <1>3 DEF KeepsRegistered, OpenHasNoReason, Absent
<1>5. \A x \in Sessions : IsOpen(x) /\ x # s => reason'[x] = "none"
  BY <1>3, ReasonFacts DEF OpenHasNoReason
<1>6. \A x \in Sessions : CoreReleased(x)
  BY <1>5, ReasonFacts DEF CoreReleased
<1>7. PrunesExpired
  BY <1>3, <1>5, ReasonFacts DEF PrunesExpired
<1> QED
  BY <1>2, <1>4, <1>6, <1>7 DEF SessionsKept

(* Any body: it keeps all that, and a close either has closed or goes on holding  *)
(* the lock with the session still open.                                          *)
LEMMA BodyKeeps ==
  ASSUME IInv, OpenHasNoReason, holder = NoTask, NEW t \in Tasks, NEW c \in Calls, Body(t, c),
         Known(c), c.now <= clock
  PROVE  /\ SessionsKept
         /\ c.op = "close" /\ call'[t] = Idle => life'[c.sid] = "CLOSED" /\ ret'[t] = "ok"
         /\ holder' = t => life'[c.sid] \notin {Absent, "CLOSED"}
<1>t. TypeOK /\ Reached /\ t # NoTask
  BY NullAssumption DEF IInv, SessionInv
<1>c. /\ c.op \notin Sweeps => c.sid \in Sessions
      /\ c.why \in CloseReasons /\ c.now \in Time /\ c.op \in Ops
  BY CallFacts
<1>k. KeepsClosed
  BY <1>t, BodyKeepsClosed
<1>1. CASE c.op = "close" /\ Close(t, c)
  <2>1. c.sid \in Sessions
    BY <1>1, <1>c DEF Sweeps
  <2>2. life[c.sid] # Absent
    BY <1>1, <1>c DEF Known, Sweeps
  <2>3. CASE life[c.sid] = "CLOSED" /\ Return(t, "ok") /\ UNCHANGED <<life, conn, core, hb, reason>>
    <3>1. ret'[t] = "ok" /\ holder' = NoTask /\ life'[c.sid] = "CLOSED"
      BY <2>3, <1>t DEF Return, TypeOK
    <3>2. SessionsKept
      BY <2>3, <1>k, ReasonsUntouched DEF KeepsRegistered, KeepsClosed
    <3> QED
      BY <1>t, <3>1, <3>2
  <2>4. CASE /\ life[c.sid] # "CLOSED" /\ core[c.sid] = "none"
             /\ MarkClosed(t, c.sid, c.why) /\ UNCHANGED <<core, hb>>
    <3>1. core'[c.sid] # "connected"
      BY <2>4
    <3>2. /\ SessionsKept /\ life' = [life EXCEPT ![c.sid] = "CLOSED"]
          /\ ret' = [ret EXCEPT ![t] = "ok"] /\ holder' = NoTask
      BY <1>c, <1>t, <2>1, <2>2, <2>4, <3>1, MarkClosedCloses
    <3> QED
      BY <1>t, <2>1, <3>2 DEF TypeOK
  <2>5. CASE /\ life[c.sid] # "CLOSED"
             /\ life' = [life EXCEPT ![c.sid] = IF CanTransition(life[c.sid], "DISCONNECTING")
                                                 THEN "DISCONNECTING" ELSE @]
             /\ holder' = t /\ call' = [call EXCEPT ![t] = c] /\ UNCHANGED reason
    <3>1. call'[t] # Idle
      BY <2>5, <1>t, CallFacts DEF TypeOK
    <3>2. \A x \in Sessions : life'[x] \in {life[x], "DISCONNECTING"}
      BY <2>5, <1>t DEF TypeOK
    <3>3. KeepsRegistered /\ life'[c.sid] \notin {Absent, "CLOSED"}
      BY <2>1, <2>2, <2>5, <3>2 DEF KeepsRegistered, Absent
    <3>4. SessionsKept
      BY <1>k, <2>5, <3>3, ReasonsUntouched DEF KeepsClosed
    <3> QED
      BY <3>1, <3>3, <3>4
  <2> QED
    BY <1>1, <2>3, <2>4, <2>5 DEF Close
<1>2. CASE c.op = "prune" /\ Prune(t, c.now)
  <2> DEFINE gone == {s \in OpenSessions : Expired(s, c.now)}
  <2>1. /\ life' = [s \in Sessions |-> IF s \in gone THEN "CLOSED" ELSE life[s]]
        /\ reason' = [s \in Sessions |-> IF s \in gone THEN "lease_timeout" ELSE reason[s]]
        /\ UNCHANGED <<conn, core, hb>> /\ holder' = NoTask
    BY <1>2 DEF Prune, Return
  <2>2. \A s \in gone : c.now - hb[s] > LeaseTimeout
    BY DEF Expired
  <2>3. \A s \in gone : clock - hb[s] > LeaseTimeout
    BY <2>2, <1>c, <1>t, LeaseAssumption DEF TypeOK, Time, OpenSessions
  <2> HIDE DEF gone
  <2>4. KeepsRegistered /\ OpenHasNoReason'
    BY <2>1 DEF KeepsRegistered, OpenHasNoReason, Absent
  <2>5. \A s \in Sessions : IsOpen(s) /\ s \notin gone => reason'[s] = "none"
    BY <2>1, ReasonFacts DEF OpenHasNoReason
  <2>6. PrunesExpired
    BY <2>1, <2>3, <2>5 DEF PrunesExpired
  <2>7. \A s \in Sessions : CoreReleased(s)
    BY <2>1, <2>5, ReasonFacts DEF CoreReleased
  <2> QED
    BY <1>2, <1>t, <2>1, <2>4, <2>6, <2>7 DEF SessionsKept
<1>3. CASE c.op \notin {"close", "prune"}
  <2>1. UNCHANGED reason /\ holder' = NoTask
    BY <1>3 DEF Body, Create, Connect, Mark, Raise, Return
  <2>2. KeepsRegistered
    <3>1. CASE UNCHANGED life
      BY <3>1 DEF KeepsRegistered
    <3>2. CASE \E s \in Sessions : \E st : st # Absent /\ life' = [life EXCEPT ![s] = st]
      BY <3>2, <1>t DEF KeepsRegistered, TypeOK
    <3>3. Absent # "CREATED" /\ Absent # "CONNECTED" /\ \A op \in Marks : MarkTarget[op] # Absent
      BY MarkFacts DEF Absent, Operational
    <3>4. c.op \in Marks \/ c.op \in {"create", "connect"} => c.sid \in Sessions
      BY <1>c, MarkFacts DEF Sweeps
    <3>5. CASE c.op = "create" /\ Create(t, c.sid)
      BY <3>1, <3>2, <3>3, <3>4, <3>5 DEF Create, Raise
    <3>6. CASE c.op = "connect" /\ Connect(t, c.sid)
      BY <3>1, <3>2, <3>3, <3>4, <3>6 DEF Connect, Raise
    <3>7. CASE c.op \in Marks /\ Mark(t, c.op, c.sid)
      BY <3>1, <3>2, <3>3, <3>4, <3>7 DEF Mark, Raise
    <3> QED
      BY <1>3, <3>1, <3>5, <3>6, <3>7 DEF Body
  <2>3. SessionsKept
    BY <1>k, <2>1, <2>2, ReasonsUntouched DEF KeepsClosed
  <2> QED
    BY <1>3, <1>t, <2>1, <2>3
<1> QED
  BY <1>1, <1>2, <1>3, MarkFacts DEF Body

(* One call moves: the others stay where they are.                                *)
CallMove(t, c) ==
  /\ SessionsKept /\ clock <= clock'
  /\ call' = [call EXCEPT ![t] = c]
  /\ c # Idle => Known(c) /\ c.now <= clock
  /\ holder' \in Tasks => life'[call'[holder'].sid] \notin {Absent, "CLOSED"}

LEMMA CallMoves ==
  ASSUME IInv, LeaseInv, IInv', NEW t \in Tasks, NEW c \in Calls \cup {Idle}, CallMove(t, c)
  PROVE  LeaseInv'
<1> USE DEF CallMove
<1>t. TypeOK /\ clock' \in Time
  BY DEF IInv, TypeOK
<1>1. \A u \in Tasks : call'[u] = IF u = t THEN c ELSE call[u]
  BY <1>t DEF TypeOK
<1>2. \A u \in Tasks : call'[u] # Idle => Known(call'[u]) /\ call'[u].now <= clock
  BY <1>1 DEF LeaseInv, CalledKnown, NowIsPast
<1>3. \A u \in Tasks : call'[u] # Idle => call'[u] \in Calls
  BY <1>1, <1>t DEF TypeOK
<1>4. CalledKnown'
  <2>1. SUFFICES ASSUME NEW u \in Tasks, call'[u] # Idle, NEW d, d = call'[u],
                        d.op \in Ops \ ({"create"} \cup Sweeps)
                 PROVE  life'[d.sid] # Absent
    BY DEF CalledKnown, Known
  <2>2. d.sid \in Sessions /\ life[d.sid] # Absent
    BY <1>2, <1>3, <2>1, CallFacts DEF Known
  <2> QED
    BY <2>2 DEF KeepsRegistered, SessionsKept
<1>5. NowIsPast'
  <2>1. SUFFICES ASSUME NEW u \in Tasks, call'[u] # Idle PROVE call'[u].now <= clock'
    BY DEF NowIsPast
  <2>2. call'[u].now \in Nat /\ call'[u].now <= clock /\ clock \in Nat /\ clock' \in Nat
    BY <1>2, <1>3, <1>t, <2>1, CallFacts DEF TypeOK, Time
  <2> QED
    BY <2>2
<1> QED
  BY <1>4, <1>5 DEF LeaseInv, HolderOpen, SessionsKept

(* No call moves and neither does the lock.                                       *)
LEMMA NoCallMoves ==
  ASSUME IInv, LeaseInv, IInv', UNCHANGED <<life, reason, call, holder>>, clock <= clock'
  PROVE  LeaseInv' /\ SessionsKept /\ \A t \in Tasks : CloseReturns(t)
<1>1. CalledKnown' /\ HolderOpen' /\ OpenHasNoReason'
  BY DEF LeaseInv, CalledKnown, HolderOpen, OpenHasNoReason, Known
<1>2. NowIsPast'
  <2>1. SUFFICES ASSUME NEW u \in Tasks, call[u] # Idle PROVE call[u].now <= clock'
    BY DEF NowIsPast
  <2>2. call[u].now \in Nat /\ call[u].now <= clock /\ clock \in Nat /\ clock' \in Nat
    BY <2>1, CallFacts DEF IInv, TypeOK, LeaseInv, NowIsPast, Time
  <2> QED
    BY <2>2
<1>3. SessionsKept
  BY ReasonsUntouched DEF LeaseInv, KeepsRegistered
<1> QED
  BY <1>1, <1>2, <1>3 DEF LeaseInv, CloseReturns

LEMMA HeldUp ==
  ASSUME TypeOK, NEW t \in Tasks, NEW c \in Calls, call[t] = Idle \/ call[t] = c,
         \/ call' = [call EXCEPT ![t] = Idle] /\ holder' = NoTask
         \/ call' = [call EXCEPT ![t] = c] /\ holder' = t /\ c.op = "close",
         call[t] # Idle /\ c.op = "close" /\ call'[t] = Idle => life'[c.sid] = "CLOSED" /\ ret'[t] = "ok"
  PROVE  \A u \in Tasks : CloseReturns(u)
<1>1. \A u \in Tasks : u # t => call'[u] = call[u]
  BY DEF TypeOK
<1> QED
  BY <1>1 DEF CloseReturns

LEMMA StepKeeps ==
  ASSUME IInv, LeaseInv, [Next]_vars
  PROVE  LeaseInv' /\ SessionsKept /\ \A t \in Tasks : CloseReturns(t)
<1>t. TypeOK /\ Reached /\ OpenHasNoReason /\ clock \in Nat
  BY DEF IInv, SessionInv, LeaseInv, TypeOK, Time
<1>i. IInv'
  BY StepPreservesIInv
<1>1. ASSUME NEW t \in Tasks, NEW op \in Ops, NEW s \in Sessions \cup {NoSession},
             NEW why \in CloseReasons, Request(op, s, why) \in Calls,
             \/ CallUnknown(t, Request(op, s, why)) \/ CallFree(t, Request(op, s, why))
             \/ CallQueue(t, Request(op, s, why))
      PROVE  LeaseInv' /\ SessionsKept /\ \A u \in Tasks : CloseReturns(u)
  <2> DEFINE c == Request(op, s, why)
  <2>1. c \in Calls /\ c.now <= clock
    BY <1>1, <1>t DEF Request
  <2> HIDE DEF c
  <2>2. CASE CallUnknown(t, c)
    BY <1>i, <1>t, <2>2, NoCallMoves DEF CallUnknown
  <2>3. CASE CallFree(t, c)
    <3>1. call[t] = Idle /\ Known(c) /\ holder = NoTask /\ Body(t, c) /\ clock' = clock /\ waiters' = waiters
      BY <2>3 DEF CallFree
    <3>2. /\ SessionsKept
          /\ c.op = "close" /\ call'[t] = Idle => life'[c.sid] = "CLOSED" /\ ret'[t] = "ok"
          /\ holder' = t => life'[c.sid] \notin {Absent, "CLOSED"}
      BY <1>t, <2>1, <3>1, BodyKeeps
    <3>3. \/ call' = [call EXCEPT ![t] = Idle] /\ holder' = NoTask
          \/ call' = [call EXCEPT ![t] = c] /\ holder' = t /\ c.op = "close"
      <4>1. BodyResult(t, c)
        BY <1>t, <2>1, <3>1, BodyStep DEF TypeOK
      <4> QED
        BY <4>1 DEF BodyResult
    <3>4. \A u \in Tasks : CloseReturns(u)
      BY <1>t, <2>1, <3>1, <3>3, HeldUp
    <3>5. PICK d \in Calls \cup {Idle} : d \in {c, Idle} /\ call' = [call EXCEPT ![t] = d]
      BY <2>1, <3>3
    <3>6. holder' \in Tasks => life'[call'[holder'].sid] \notin {Absent, "CLOSED"}
      BY <1>t, <3>2, <3>3, NullAssumption DEF TypeOK
    <3>7. CallMove(t, d)
      BY <1>t, <2>1, <3>1, <3>2, <3>5, <3>6 DEF CallMove
    <3>8. LeaseInv'
      BY <1>i, <3>5, <3>7, CallMoves
    <3> QED
      BY <3>2, <3>4, <3>8
  <2>4. CASE CallQueue(t, c)
    <3>1. /\ call[t] = Idle /\ Known(c) /\ call' = [call EXCEPT ![t] = c]
          /\ UNCHANGED <<life, conn, core, hb, reason, clock, holder, ret>>
      BY <2>4 DEF CallQueue
    <3>2. SessionsKept
      BY <1>t, <3>1, ReasonsUntouched DEF KeepsRegistered
    <3>3. holder # t
      BY <3>1 DEF IInv, LockInv, NoCallerLost
    <3>4. holder' \in Tasks => life'[call'[holder'].sid] \notin {Absent, "CLOSED"}
      BY <1>t, <3>1, <3>3 DEF LeaseInv, HolderOpen, TypeOK
    <3>5. LeaseInv'
      <4>1. CallMove(t, c)
        BY <1>t, <2>1, <3>1, <3>2, <3>4 DEF CallMove
      <4> QED
        BY <1>i, <2>1, <4>1, CallMoves
    <3>6. \A u \in Tasks : CloseReturns(u)
      BY <1>t, <2>1, <3>1, CallFacts DEF CloseReturns, TypeOK
    <3> QED
      BY <3>2, <3>5, <3>6
  <2> QED
    BY <1>1, <2>2, <2>3, <2>4 DEF c
<1>2. ASSUME NEW t \in Tasks, Grant(t)
      PROVE  LeaseInv' /\ SessionsKept /\ \A u \in Tasks : CloseReturns(u)
  <2>1. PICK c : c = call[t]
    OBVIOUS
  <2>2. /\ holder = NoTask /\ waiters # <<>> /\ t = Head(waiters) /\ waiters' = Tail(waiters)
        /\ Body(t, c) /\ clock' = clock
    BY <1>2, <2>1 DEF Grant
  <2>3. waiters \in Seq(Tasks) /\ waiters' \in Seq(Tasks)
    BY <1>t, <2>2 DEF TypeOK
  <2>4. c # Idle /\ c \in Calls
    <3>1. 1 \in 1..Len(waiters) /\ waiters[1] = t
      BY <2>2, <2>3
    <3> QED
      BY <1>t, <2>1, <3>1 DEF IInv, LockInv, NoCallerLost, Queued, TypeOK
  <2>5. Known(c) /\ c.now <= clock
    BY <2>1, <2>4 DEF LeaseInv, CalledKnown, NowIsPast
  <2>6. /\ SessionsKept
        /\ c.op = "close" /\ call'[t] = Idle => life'[c.sid] = "CLOSED" /\ ret'[t] = "ok"
        /\ holder' = t => life'[c.sid] \notin {Absent, "CLOSED"}
    BY <1>t, <2>2, <2>4, <2>5, BodyKeeps
  <2>7. \/ call' = [call EXCEPT ![t] = Idle] /\ holder' = NoTask
        \/ call' = [call EXCEPT ![t] = c] /\ holder' = t /\ c.op = "close"
    <3>1. BodyResult(t, c)
      BY <2>2, <2>3, <2>4, BodyStep
    <3> QED
      BY <3>1 DEF BodyResult
  <2>8. \A u \in Tasks : CloseReturns(u)
    BY <1>t, <2>1, <2>4, <2>6, <2>7, HeldUp
  <2>9. PICK d \in Calls \cup {Idle} : d \in {c, Idle} /\ call' = [call EXCEPT ![t] = d]
    BY <2>4, <2>7
  <2>10. holder' \in Tasks => life'[call'[holder'].sid] \notin {Absent, "CLOSED"}
    BY <1>t, <2>6, <2>7, NullAssumption DEF TypeOK
  <2>11. LeaseInv'
    <3>1. CallMove(t, d)
      BY <1>t, <2>2, <2>5, <2>6, <2>9, <2>10 DEF CallMove
    <3> QED
      BY <1>i, <2>9, <3>1, CallMoves
  <2> QED
    BY <2>6, <2>8, <2>11
<1>3. ASSUME NEW t \in Tasks, FinishClose(t)
      PROVE  LeaseInv' /\ SessionsKept /\ \A u \in Tasks : CloseReturns(u)
  <2>1. PICK c : c = call[t]
    OBVIOUS
  <2>2. /\ holder = t /\ core' = [core EXCEPT ![c.sid] = "disconnected"]
        /\ MarkClosed(t, c.sid, c.why) /\ UNCHANGED <<hb, clock, waiters>>
    BY <1>3, <2>1 DEF FinishClose
  <2>3. c.op = "close" /\ c \in Calls
    BY <1>t, <2>1, <2>2 DEF IInv, LockInv, HolderCloses, TypeOK, Idle
  <2>4. c.sid \in Sessions /\ c.why \in CloseReasons /\ life[c.sid] \notin {Absent, "CLOSED"}
    BY <2>1, <2>2, <2>3, CallFacts DEF Sweeps, LeaseInv, HolderOpen
  <2>5. core'[c.sid] # "connected"
    BY <1>t, <2>2, <2>4 DEF TypeOK
  <2>6. /\ SessionsKept /\ life' = [life EXCEPT ![c.sid] = "CLOSED"]
        /\ call' = [call EXCEPT ![t] = Idle] /\ ret' = [ret EXCEPT ![t] = "ok"] /\ holder' = NoTask
    BY <1>t, <2>2, <2>4, <2>5, MarkClosedCloses
  <2>7. \A u \in Tasks : CloseReturns(u)
    BY <1>t, <2>1, <2>4, <2>6 DEF CloseReturns, TypeOK
  <2>8. LeaseInv'
    <3>1. CallMove(t, Idle)
      BY <1>t, <2>2, <2>6, NullAssumption DEF CallMove
    <3> QED
      BY <1>i, <3>1, CallMoves
  <2> QED
    BY <2>6, <2>7, <2>8
<1>4. ASSUME NEW s \in Sessions, Heartbeat(s) \/ BindCore(s)
      PROVE  LeaseInv' /\ SessionsKept /\ \A u \in Tasks : CloseReturns(u)
  <2>1. UNCHANGED <<life, reason, call, holder, clock>>
    BY <1>4 DEF Heartbeat, BindCore
  <2> QED
    BY <1>i, <1>t, <2>1, NoCallMoves
<1>5. CASE Tick \/ UNCHANGED vars
  <2>1. UNCHANGED <<life, reason, call, holder>> /\ clock <= clock'
    BY <1>5, <1>t DEF Tick, vars
  <2> QED
    BY <1>i, <2>1, NoCallMoves
<1> QED
  BY <1>1, <1>2, <1>3, <1>4, <1>5 DEF Next

LEMMA InitLeaseInv ==
  ASSUME Init
  PROVE  LeaseInv
BY NullAssumption DEF Init, LeaseInv, CalledKnown, HolderOpen, OpenHasNoReason, NowIsPast

(* What else always holds of the calls: a call waits only for a session it found,  *)
(* close_session suspends only over a session that is registered and not closed,   *)
(* no session that is not closed has a reason of closing, and a time read before   *)
(* the wait for the lock is never ahead of the clock.                              *)
THEOREM LeasesHold == Spec => []LeaseInv
<1>1. Init => LeaseInv
  BY InitLeaseInv
<1>2. IInv /\ LeaseInv /\ [Next]_vars => LeaseInv'
  BY StepKeeps
<1> QED
  BY <1>1, <1>2, InvariantHolds, PTL DEF Spec

(* close_session never raises on a session it found and never leaves its webview  *)
(* core connected, whoever has closed, pruned or bound it in the meantime.        *)
THEOREM ClosesAreComplete == Spec => CloseAlwaysCloses
<1>1. IInv /\ LeaseInv /\ [Next]_vars
        => [(\A t \in Tasks : CloseReturns(t)) /\ (\A s \in Sessions : CoreReleased(s))]_vars
  BY StepKeeps DEF SessionsKept
<1>2. Spec => [][(\A t \in Tasks : CloseReturns(t)) /\ (\A s \in Sessions : CoreReleased(s))]_vars
  BY <1>1, InvariantHolds, LeasesHold, PTL DEF Spec
<1> QED
  BY <1>2 DEF CloseAlwaysCloses

(* A prune takes away only leases that have run out when it does, however old the *)
(* time it read before it queued.                                                 *)
THEOREM PrunesOnlyExpired == Spec => PruneOnlyExpired
<1>1. IInv /\ LeaseInv /\ [Next]_vars => [PrunesExpired]_vars
  BY StepKeeps DEF SessionsKept
<1>2. Spec => [][PrunesExpired]_vars
  BY <1>1, InvariantHolds, LeasesHold, PTL DEF Spec
<1> QED
  BY <1>2 DEF PruneOnlyExpired, PrunesExpired

------------------------------------------------------------------------------------
(* For the programs that call the manager: what one step of an operation does to  *)
(* the calls, to the queue and to the sessions that are open.                      *)
Creators == {u \in Tasks : call[u].op = "create"}

(* Whoever is still to create a session is ahead of x in the queue.               *)
CreatesAhead(x) ==
  \A i, j \in 1..Len(waiters) : waiters[i] = x /\ call[waiters[j]].op = "create" => j < i

Moved(t, c) ==
  /\ \A u \in Tasks \ {t} : call'[u] = call[u] /\ ret'[u] = ret[u]
  /\ call'[t] \in {Idle, c}
  /\ c.op # "create" => OpenSessions' \subseteq OpenSessions
  /\ c.op = "close" /\ call'[t] = Idle => c.sid \notin OpenSessions'
  /\ c.op = "activate" /\ call'[t] = Idle /\ ret'[t] = "ok" => life'[c.sid] = "ACTIVE"
  /\ c.op # "create" \/ call[t] = c => Creators' \subseteq Creators
  /\ \A x \in Tasks \ {t} : Creators' \subseteq Creators /\ CreatesAhead(x) => CreatesAhead(x)'
  /\ c.op = "list" => IF call'[t] = Idle
                        THEN call[t] = Idle \/ CreatesAhead(t) => Creators' = {}
                        ELSE call[t] = Idle /\ CreatesAhead(t)'

LEMMA OpenFacts ==
  ASSUME TypeOK
  PROVE  \A s \in Sessions : s \in OpenSessions => life[s] # "CLOSED" /\ life[s] # Absent
  BY ReasonFacts DEF OpenSessions

(* A body opens nothing but what it creates.                                      *)
LEMMA BodyOpens ==
  ASSUME IInv, NEW t \in Tasks, NEW c \in Calls, Body(t, c), c.op # "create"
  PROVE  OpenSessions' \subseteq OpenSessions
<1>t. TypeOK /\ Reached
  BY DEF IInv, SessionInv
<1>c. c.op \notin Sweeps => c.sid \in Sessions
  BY CallFacts
<1>k. \A s \in Sessions : life[s] = "CLOSED" => life'[s] = "CLOSED"
  BY <1>t, BodyKeepsClosed DEF KeepsClosed
<1>a. \A s \in Sessions : life[s] = Absent => life'[s] = Absent
  <2>1. ASSUME NEW x \in Sessions, life[x] # Absent, NEW st, life' = [life EXCEPT ![x] = st]
        PROVE  \A s \in Sessions : life[s] = Absent => life'[s] = Absent
    BY <1>t, <2>1 DEF TypeOK
  <2>2. CASE c.op = "connect" /\ Connect(t, c.sid)
    BY <1>c, <2>1, <2>2, TableFacts DEF Connect, Raise, Sweeps
  <2>3. CASE c.op \in Marks /\ Mark(t, c.op, c.sid)
    BY <1>c, <2>1, <2>3, TableFacts, MarkFacts DEF Mark, Raise, Sweeps
  <2>4. CASE c.op = "close" /\ Close(t, c)
    <3>1. c.sid \in Sessions
      BY <1>c, <2>4 DEF Sweeps
    <3>2. CASE life[c.sid] # Absent
      BY <2>1, <2>4, <3>1, <3>2 DEF Close, MarkClosed
    <3>3. CASE life[c.sid] = Absent
      <4>1. ~CanTransition(life[c.sid], "CLOSED") /\ ~CanTransition(life[c.sid], "DISCONNECTING")
        BY <3>3, TableFacts
      <4>2. UNCHANGED life \/ life' = [life EXCEPT ![c.sid] = life[c.sid]]
        BY <2>4, <4>1 DEF Close, MarkClosed
      <4> QED
        BY <1>t, <4>2 DEF TypeOK
    <3> QED
      BY <3>2, <3>3
  <2>5. CASE c.op = "prune" /\ Prune(t, c.now)
    BY <1>t, <2>5, OpenFacts DEF Prune
  <2>6. CASE UNCHANGED life
    BY <2>6
  <2> QED
    BY <2>2, <2>3, <2>4, <2>5, <2>6 DEF Body
<1>1. \A s \in Sessions : life[s] \notin {Absent, "CLOSED"} => IsOpen(s)
  BY <1>t DEF Reached, IsOpen, LifecycleStates, Terminal, Operational
<1>2. \A s \in Sessions : IsOpen(s)' => life'[s] \notin {Absent, "CLOSED"}
  BY DEF IsOpen, LifecycleStates, Terminal, Absent
<1> QED
  BY <1>k, <1>a, <1>1, <1>2 DEF OpenSessions

LEMMA ActivateBody ==
  ASSUME TypeOK, NEW t \in Tasks, NEW c \in Calls, Body(t, c), c.op = "activate", ret'[t] = "ok"
  PROVE  life'[c.sid] = "ACTIVE"
<1>1. c.sid \in Sessions /\ c.op \in Marks
  BY CallFacts, MarkFacts DEF Sweeps
<1>2. Mark(t, c.op, c.sid)
  BY <1>1, MarkFacts DEF Body
<1>3. CASE ~CanTransition(life[c.sid], MarkTarget[c.op])
  BY <1>2, <1>3 DEF Mark, Raise, Return, TypeOK
<1>4. CASE CanTransition(life[c.sid], MarkTarget[c.op])
  BY <1>1, <1>2, <1>4 DEF Mark, MarkTarget, TypeOK
<1> QED
  BY <1>3, <1>4

(* A body with the queue's head, or with an empty queue.                          *)
LEMMA BodyMoves ==
  ASSUME IInv, LeaseInv, holder = NoTask, NEW t \in Tasks, NEW c \in Calls, Body(t, c), Known(c),
         c.now <= clock, clock' = clock,
         \/ call[t] = Idle /\ waiters = <<>> /\ waiters' = waiters
         \/ call[t] = c /\ waiters # <<>> /\ t = Head(waiters) /\ waiters' = Tail(waiters)
  PROVE  Moved(t, c)
<1>t. TypeOK /\ waiters \in Seq(Tasks) /\ waiters' \in Seq(Tasks) /\ t # NoTask
  <2>1. TypeOK /\ waiters \in Seq(Tasks) /\ t # NoTask
    BY NullAssumption DEF IInv, TypeOK
  <2>2. CASE waiters' = waiters
    BY <2>1, <2>2
  <2>3. CASE waiters # <<>> /\ waiters' = Tail(waiters)
    BY <2>1, <2>3
  <2> QED
    BY <2>1, <2>2, <2>3
<1>1. /\ \/ call' = [call EXCEPT ![t] = Idle] /\ holder' = NoTask
         \/ call' = [call EXCEPT ![t] = c] /\ holder' = t /\ c.op = "close"
  <2>1. BodyResult(t, c)
    BY <1>t, BodyStep
  <2> QED
    BY <2>1 DEF BodyResult
<1>2. /\ \A u \in Tasks \ {t} : call'[u] = call[u]
      /\ call'[t] \in {Idle, c} /\ (call'[t] # Idle => c.op = "close")
  BY <1>1, <1>t DEF TypeOK
<1>3. \A u \in Tasks \ {t} : ret'[u] = ret[u]
  BY <1>t DEF Body, Create, Connect, Mark, Close, MarkClosed, Prune, Raise, Return, TypeOK
<1>4. c.op = "close" /\ call'[t] = Idle => c.sid \notin OpenSessions'
  <2>1. c.op = "close" /\ call'[t] = Idle => life'[c.sid] = "CLOSED"
    BY BodyKeeps DEF LeaseInv
  <2> QED
    BY <2>1 DEF OpenSessions, IsOpen, Terminal
<1>5. Creators' \subseteq Creators
  BY <1>2 DEF Creators, Idle
<1>6. \A x \in Tasks \ {t} : CreatesAhead(x) => CreatesAhead(x)'
  <2>1. SUFFICES ASSUME NEW x \in Tasks \ {t}, CreatesAhead(x), NEW i \in 1..Len(waiters'),
                        NEW j \in 1..Len(waiters'), waiters'[i] = x, call'[waiters'[j]].op = "create"
                 PROVE  j < i
    BY DEF CreatesAhead
  <2>2. waiters'[j] \in Tasks
    BY <1>t
  <2>3. call[waiters'[j]].op = "create"
    BY <1>5, <2>1, <2>2 DEF Creators
  <2>4. CASE waiters' = waiters
    BY <2>1, <2>3, <2>4 DEF CreatesAhead
  <2>5. CASE waiters # <<>> /\ waiters' = Tail(waiters)
    <3>1. /\ i + 1 \in 1..Len(waiters) /\ waiters[i + 1] = x
          /\ j + 1 \in 1..Len(waiters) /\ waiters[j + 1] = waiters'[j]
      BY <1>t, <2>1, <2>5
    <3>2. j + 1 < i + 1
      BY <2>1, <2>3, <3>1 DEF CreatesAhead
    <3> QED
      BY <3>2
  <2> QED
    BY <2>4, <2>5
<1>7. c.op = "list" => call'[t] = Idle /\ (call[t] = Idle \/ CreatesAhead(t) => Creators' = {})
  <2>1. SUFFICES ASSUME c.op = "list", call[t] = Idle \/ CreatesAhead(t), NEW u \in Tasks,
                        call[u].op = "create"
                 PROVE  FALSE
    BY <1>2, <1>5 DEF Creators
  <2>2. call[u] # Idle /\ u # NoTask
    BY <2>1, NullAssumption DEF Idle
  <2>3. Queued(u)
    BY <2>2 DEF IInv, LockInv, NoCallerLost
  <2>4. PICK j \in 1..Len(waiters) : waiters[j] = u
    BY <2>3 DEF Queued
  <2>5. waiters # <<>> /\ t = Head(waiters) /\ call[t] = c
    BY <1>t, <2>4
  <2>6. CreatesAhead(t) /\ 1 \in 1..Len(waiters) /\ waiters[1] = t
    BY <1>t, <2>1, <2>5, CallFacts
  <2>7. j < 1
    BY <2>1, <2>4, <2>6 DEF CreatesAhead
  <2> QED
    BY <2>4, <2>7
<1>8. c.op # "create" => OpenSessions' \subseteq OpenSessions
  BY BodyOpens
<1>9. c.op = "activate" /\ ret'[t] = "ok" => life'[c.sid] = "ACTIVE"
  BY <1>t, ActivateBody
<1> QED
  BY <1>2, <1>3, <1>4, <1>5, <1>6, <1>7, <1>8, <1>9 DEF Moved

(* A call is made.                                                                *)
LEMMA AskedMoves ==
  ASSUME IInv, LeaseInv, NEW t \in Tasks, NEW c \in Calls, c.now <= clock,
         CallUnknown(t, c) \/ CallFree(t, c) \/ CallQueue(t, c)
  PROVE  Moved(t, c) /\ call[t] = Idle
<1>t. TypeOK /\ waiters \in Seq(Tasks)
  BY DEF IInv, TypeOK
<1>1. CASE CallUnknown(t, c)
  <2>1. /\ call[t] = Idle /\ ret' = [ret EXCEPT ![t] = "raised"] /\ ~Known(c)
        /\ UNCHANGED <<life, waiters, call>>
    BY <1>1 DEF CallUnknown
  <2>2. life[c.sid] = Absent /\ c.op # "list" /\ c.op # "create"
    BY <2>1 DEF Known, Sweeps
  <2>3. OpenSessions' = OpenSessions /\ Creators' = Creators
    BY <2>1 DEF OpenSessions, IsOpen, Creators
  <2>4. \A x \in Tasks : CreatesAhead(x) => CreatesAhead(x)'
    BY <2>1 DEF CreatesAhead
  <2>5. c.sid \notin OpenSessions
    BY <1>t, <2>2, OpenFacts DEF OpenSessions
  <2>6. \A u \in Tasks : ret'[u] = IF u = t THEN "raised" ELSE ret[u]
    BY <1>t, <2>1 DEF TypeOK
  <2> QED
    BY <2>1, <2>2, <2>3, <2>4, <2>5, <2>6 DEF Moved
<1>2. CASE CallFree(t, c)
  <2>1. /\ call[t] = Idle /\ Known(c) /\ holder = NoTask /\ waiters = <<>> /\ Body(t, c)
        /\ UNCHANGED <<clock, waiters>>
    BY <1>2 DEF CallFree
  <2> QED
    BY <2>1, BodyMoves
<1>3. CASE CallQueue(t, c)
  <2>1. /\ call[t] = Idle /\ waiters' = Append(waiters, t) /\ call' = [call EXCEPT ![t] = c]
        /\ UNCHANGED <<life, ret>>
    BY <1>3 DEF CallQueue
  <2>2. call'[t] = c /\ c # Idle /\ \A u \in Tasks \ {t} : call'[u] = call[u]
    BY <1>t, <2>1, CallFacts DEF TypeOK
  <2>3. OpenSessions' = OpenSessions
    BY <2>1 DEF OpenSessions, IsOpen
  <2>4. c.op # "create" => Creators' \subseteq Creators
    BY <2>2 DEF Creators
  <2>5. /\ Len(waiters') = Len(waiters) + 1 /\ Len(waiters) \in Nat
        /\ waiters'[Len(waiters) + 1] = t /\ \A i \in 1..Len(waiters) : waiters'[i] = waiters[i]
    BY <1>t, <2>1
  <2>6. \A i \in 1..Len(waiters) : waiters[i] \in Tasks /\ waiters[i] # t
    <3>1. ~Queued(t)
      BY <2>1 DEF IInv, LockInv, NoCallerLost
    <3> QED
      BY <1>t, <3>1 DEF Queued
  <2>7. \A x \in Tasks \ {t} : Creators' \subseteq Creators /\ CreatesAhead(x) => CreatesAhead(x)'
    <3>1. SUFFICES ASSUME NEW x \in Tasks \ {t}, Creators' \subseteq Creators, CreatesAhead(x),
                          NEW i \in 1..Len(waiters'), NEW j \in 1..Len(waiters'),
                          waiters'[i] = x, call'[waiters'[j]].op = "create"
                   PROVE  j < i
      BY DEF CreatesAhead
    <3>2. i \in 1..Len(waiters) /\ waiters[i] = x
      BY <2>5, <3>1
    <3>3. CASE j \in 1..Len(waiters)
      <4>1. call[waiters[j]].op = "create"
        BY <2>2, <2>5, <2>6, <3>1, <3>3
      <4> QED
        BY <3>1, <3>2, <3>3, <4>1 DEF CreatesAhead
    <3>4. CASE j \notin 1..Len(waiters)
      <4>1. waiters'[j] = t
        BY <2>5, <3>4
      <4>2. call[t].op = "create"
        BY <3>1, <4>1 DEF Creators
      <4> QED
        BY <2>1, <4>2 DEF Idle
    <3> QED
      BY <3>3, <3>4
  <2>8. c.op = "list" => CreatesAhead(t)'
    <3>1. SUFFICES ASSUME c.op = "list", NEW i \in 1..Len(waiters'), NEW j \in 1..Len(waiters'),
                          waiters'[i] = t, call'[waiters'[j]].op = "create"
                   PROVE  j < i
      BY DEF CreatesAhead
    <3>9. i \in 1..Len(waiters) => waiters'[i] # t
      BY <2>5, <2>6
    <3>2. i = Len(waiters) + 1
      BY <2>5, <2>6, <3>1, <3>9
    <3>3. j # Len(waiters) + 1
      BY <2>2, <2>5, <3>1
    <3> QED
      BY <2>5, <3>2, <3>3
  <2> QED
    BY <2>1, <2>2, <2>3, <2>4, <2>7, <2>8 DEF Moved
<1> QED
  BY <1>1, <1>2, <1>3 DEF CallFree

(* A caller that waits is woken.                                                  *)
LEMMA WokenMoves ==
  ASSUME IInv, LeaseInv, NEW t \in Tasks, Grant(t) \/ FinishClose(t)
  PROVE  call[t] \in Calls /\ Moved(t, call[t])
<1>t. TypeOK /\ waiters \in Seq(Tasks)
  BY DEF IInv, TypeOK
<1>1. CASE Grant(t)
  <2>1. PICK c : c = call[t]
    OBVIOUS
  <2>2. /\ holder = NoTask /\ waiters # <<>> /\ t = Head(waiters) /\ waiters' = Tail(waiters)
        /\ Body(t, c) /\ clock' = clock
    BY <1>1, <2>1 DEF Grant
  <2>3. c # Idle /\ c \in Calls
    <3>1. 1 \in 1..Len(waiters) /\ waiters[1] = t
      BY <1>t, <2>2
    <3> QED
      BY <1>t, <2>1, <3>1 DEF IInv, LockInv, NoCallerLost, Queued, TypeOK
  <2>4. Known(c) /\ c.now <= clock
    BY <2>1, <2>3 DEF LeaseInv, CalledKnown, NowIsPast
  <2>5. Moved(t, c)
    BY <2>1, <2>2, <2>3, <2>4, BodyMoves
  <2> QED
    BY <2>1, <2>3, <2>5
<1>2. CASE FinishClose(t)
  <2>1. PICK c : c = call[t]
    OBVIOUS
  <2>2. /\ holder = t /\ core' = [core EXCEPT ![c.sid] = "disconnected"]
        /\ MarkClosed(t, c.sid, c.why) /\ UNCHANGED <<hb, clock, waiters>>
    BY <1>2, <2>1 DEF FinishClose
  <2>3. c.op = "close" /\ c \in Calls /\ c # Idle
    BY <1>t, <2>1, <2>2 DEF IInv, LockInv, HolderCloses, TypeOK, Idle
  <2>4. c.sid \in Sessions /\ c.why \in CloseReasons /\ life[c.sid] \notin {Absent, "CLOSED"}
    BY <2>1, <2>2, <2>3, CallFacts DEF Sweeps, LeaseInv, HolderOpen
  <2>5. core'[c.sid] # "connected"
    BY <1>t, <2>2, <2>4 DEF TypeOK
  <2>6. /\ life' = [life EXCEPT ![c.sid] = "CLOSED"]
        /\ call' = [call EXCEPT ![t] = Idle] /\ ret' = [ret EXCEPT ![t] = "ok"]
    BY <1>t, <2>2, <2>4, <2>5, MarkClosedCloses DEF IInv, SessionInv, LeaseInv
  <2>7. /\ call'[t] = Idle /\ \A u \in Tasks \ {t} : call'[u] = call[u] /\ ret'[u] = ret[u]
        /\ \A u \in Tasks : call'[u].op = "create" => call[u].op = "create"
    BY <1>t, <2>6 DEF TypeOK, Idle
  <2>8. OpenSessions' \subseteq OpenSessions /\ c.sid \notin OpenSessions'
    BY <1>t, <2>4, <2>6 DEF OpenSessions, IsOpen, Terminal, TypeOK
  <2>9. Creators' \subseteq Creators
    BY <2>7 DEF Creators
  <2>10. \A x \in Tasks : CreatesAhead(x) => CreatesAhead(x)'
    <3>1. \A j \in 1..Len(waiters) : waiters[j] \in Tasks
      BY <1>t
    <3> QED
      BY <2>2, <2>7, <3>1 DEF CreatesAhead
  <2>11. Moved(t, c)
    BY <2>3, <2>7, <2>8, <2>9, <2>10 DEF Moved
  <2> QED
    BY <2>1, <2>3, <2>11
<1> QED
  BY <1>1, <1>2

====================================================================================
