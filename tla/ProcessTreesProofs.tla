---------------------------- MODULE ProcessTreesProofs ---------------------------------
(* Proofs about the processes of the applications the program launches (ProcessTrees). *)
EXTENDS ProcessTrees, FiniteSetTheorems, WellFoundedInduction, TLAPS

------------------------------------------------------------------------------------
(* ProcessTrees: for any pids, however often they are reused, the jobs the          *)
(* supervisor records are open, and after cleanup_all no process is in a job but in *)
(* one whose entry another launch has replaced.                                     *)
(* A record of what the supervisor is in the middle of, with a pid when it is of one. *)
OpShape ==
  /\ op = [kind |-> op.kind, pid |-> op.pid, born |-> op.born, left |-> op.left, kids |-> op.kids]
  /\ op.kind \notin {"idle", "next"} => op.pid \in Pids

(* A live process is in an open job or in none.                                       *)
MembersOpen == \A p \in Pids : Live(p) /\ proc[p].job # Nil => proc[p].job \in handles

(* An open job is recorded under one pid, or it is forgotten.                         *)
Recorded == {jobObjects[p] : p \in Pids} \ {Nil}
OpenIsKnown == handles \subseteq Recorded \cup forgotten
RecordedOnce ==
  /\ Recorded \cap forgotten = {}
  /\ \A p, q \in Pids : jobObjects[p] = jobObjects[q] /\ jobObjects[p] # Nil => p = q

(* Jobs are made in the order of launches; the one under way has none yet.            *)
NewJob ==
  /\ \A j \in Recorded \cup forgotten : j <= launches
  /\ op.kind \in {"started", "inspected"} => launches \in Jobs /\ launches \notin Recorded \cup forgotten

(* After cleanup_all the tables are empty until the next launch or attach.            *)
Emptied ==
  cleaned => /\ processes = [p \in Pids |-> Nil] /\ jobObjects = [p \in Pids |-> Nil]
             /\ op.kind \in {"idle", "next"} /\ op.left = {}

TreesInv == TreesTypeOK /\ OpShape /\ MembersOpen /\ OpenIsKnown /\ RecordedOnce /\ NewJob /\ Emptied

LEMMA TreesInitInv == ASSUME TreesInit PROVE TreesInv
<1>1. op = [kind |-> "idle", pid |-> Nil, born |-> 0, left |-> {}, kids |-> {}]
  BY DEF TreesInit, Idle, Op
<1>2. op.kind = "idle" /\ op.pid = Nil /\ op.left = {} BY <1>1
<1>3. OpShape BY <1>1 DEF OpShape
<1>4. Recorded = {} BY DEF Recorded, TreesInit
<1>5. TreesTypeOK
  <2>1. 0 \in 0..MaxBirths /\ 0 \in 0..MaxLaunches BY TreesAssumption

  <2>2. QED BY <1>2, <1>4, <2>1 DEF TreesInit, TreesTypeOK, Recorded
<1>6. QED
  BY <1>2, <1>3, <1>4, <1>5 DEF TreesInit, TreesInv, MembersOpen, OpenIsKnown, RecordedOnce, NewJob, Emptied, Live

(* Processes may be killed at any time.                                               *)
LEMMA KilledKeeps ==
  ASSUME TreesInv, NEW ps, proc' = Killed(ps)
  PROVE  /\ proc' \in [Pids -> Process \cup {Nil}]
         /\ \A p \in Pids : Live(p)' => Live(p) /\ proc'[p] = proc[p] /\ p \notin ps
  BY DEF Killed, TreesInv, TreesTypeOK, Live

(* The steps of the operating system.                                                 *)
LEMMA SystemInv == ASSUME TreesInv, System PROVE TreesInv'
<1>1. ASSUME NEW p \in Pids, NEW parent \in Pids \cup {Nil}, NEW job \in handles \cup {Nil}, NEW ours \in BOOLEAN,
             Born(p, parent, job, ours), UNCHANGED supervisor
      PROVE  TreesInv'
  <2>1. births' \in 1..MaxBirths /\ births' = births + 1
    BY TreesAssumption, <1>1 DEF Born, TreesInv, TreesTypeOK
  <2>2. [born |-> births + 1, parent |-> parent, job |-> job, ours |-> ours] \in Process
    BY <2>1 DEF Process, TreesInv, TreesTypeOK
  <2>3. proc' \in [Pids -> Process \cup {Nil}] BY <1>1, <2>2 DEF Born, TreesInv, TreesTypeOK
  <2>4. UNCHANGED <<processes, jobObjects, handles, forgotten, op, launches, cleaned>>
    BY <1>1 DEF supervisor
  <2>5. TreesTypeOK' BY <2>1, <2>3, <2>4 DEF TreesInv, TreesTypeOK
  <2>6. MembersOpen' BY <1>1, <2>4 DEF Born, TreesInv, TreesTypeOK, MembersOpen, Live
  <2>7. QED BY <2>4, <2>5, <2>6
            DEF TreesInv, OpShape, Recorded, OpenIsKnown, RecordedOnce, NewJob, Emptied
<1>2. ASSUME NEW p \in Pids, StrangerStarts(p) PROVE TreesInv'
  BY <1>1, <1>2 DEF StrangerStarts
<1>3. ASSUME NEW p \in Pids, NEW c \in Pids, Spawn(p, c) PROVE TreesInv'
  <2>1. proc[p].job \in handles \cup {Nil} /\ proc[p].ours \in BOOLEAN
    BY <1>3 DEF Spawn, Live, TreesInv, TreesTypeOK, MembersOpen, Process
  <2>2. QED BY <1>1, <1>3, <2>1 DEF Spawn
<1>4. ASSUME NEW p \in Pids, Exit(p) PROVE TreesInv'
  <2>1. UNCHANGED <<births, processes, jobObjects, handles, forgotten, op, launches, cleaned>>
    BY <1>4 DEF Exit, supervisor
  <2>2. TreesTypeOK' BY <1>4, <2>1 DEF Exit, TreesInv, TreesTypeOK
  <2>3. MembersOpen' BY <1>4, <2>1 DEF Exit, TreesInv, TreesTypeOK, MembersOpen, Live
  <2>4. QED BY <2>1, <2>2, <2>3 DEF TreesInv, OpShape, Recorded, OpenIsKnown, RecordedOnce, NewJob, Emptied
<1>5. QED BY <1>2, <1>3, <1>4 DEF System

LEMMA PopenInv == ASSUME TreesInv, NEW p \in Pids, Popen(p) PROVE TreesInv'
<1>1. /\ launches' = launches + 1 /\ launches' \in Jobs /\ cleaned' = FALSE
      /\ UNCHANGED <<processes, jobObjects, handles, forgotten>>
  BY TreesAssumption DEF Popen, Jobs, TreesInv, TreesTypeOK
<1>2. op' = [kind |-> "started", pid |-> p, born |-> 0, left |-> {}, kids |-> {}]
  BY DEF Popen, Op
<1>3. births' \in 1..MaxBirths /\ proc' \in [Pids -> Process \cup {Nil}]
  <2>1. births' = births + 1 /\ births' \in 1..MaxBirths
    BY TreesAssumption DEF Popen, Born, TreesInv, TreesTypeOK
  <2>2. [born |-> births + 1, parent |-> Nil, job |-> Nil, ours |-> TRUE] \in Process
    BY <2>1 DEF Process
  <2>3. QED BY <2>1, <2>2 DEF Popen, Born, TreesInv, TreesTypeOK
<1>4. TreesTypeOK'
  <2>1. op'.kind = "started" /\ op'.pid = p /\ op'.left = {} BY <1>2
  <2>2. launches' \in 0..MaxLaunches /\ births' \in 0..MaxBirths
    BY TreesAssumption, <1>1, <1>3 DEF Jobs
  <2>3. QED BY <1>1, <1>3, <2>1, <2>2 DEF TreesInv, TreesTypeOK
<1>5. MembersOpen' BY <1>1 DEF Popen, Born, TreesInv, TreesTypeOK, MembersOpen, Live
<1>6. NewJob'
  <2>1. Recorded' = Recorded BY <1>1 DEF Recorded
  <2>2. launches \in Nat /\ \A j \in Recorded \cup forgotten : j \in Nat /\ j <= launches
    <3>1. forgotten \subseteq handles /\ handles \subseteq Jobs /\ Recorded \subseteq handles
      BY DEF TreesInv, TreesTypeOK, Recorded
    <3>2. launches \in Nat /\ Jobs \subseteq Nat BY TreesAssumption DEF TreesInv, TreesTypeOK, Jobs
    <3>3. QED BY <3>1, <3>2 DEF TreesInv, NewJob
  <2>3. QED BY <1>1, <2>1, <2>2 DEF NewJob
<1>7. QED BY <1>1, <1>2, <1>4, <1>5, <1>6 DEF TreesInv, OpShape, Recorded, OpenIsKnown, RecordedOnce, Emptied

LEMMA InspectInv == ASSUME TreesInv, Inspect PROVE TreesInv'
<1>1. /\ op.kind = "started" /\ op' = [op EXCEPT !.kind = "inspected"]
      /\ UNCHANGED <<proc, births, jobObjects, handles, forgotten, launches, cleaned>>
  BY DEF Inspect
<1>2. op' = [kind |-> "inspected", pid |-> op.pid, born |-> op.born, left |-> op.left, kids |-> op.kids]
  <2>1. OpShape BY DEF TreesInv
  <2>2. QED BY <1>1, <2>1 DEF OpShape
<1>3. op.pid \in Pids
  <2>1. OpShape BY DEF TreesInv
  <2>2. QED BY <1>1, <2>1 DEF OpShape
<1>4. CreatedAt(op.pid) \in 0..MaxBirths
  <2>1. births \in 0..MaxBirths /\ proc[op.pid] \in Process \cup {Nil}
    BY <1>3 DEF TreesInv, TreesTypeOK
  <2>2. CASE Live(op.pid)
    <3>1. proc[op.pid].born \in 1..MaxBirths BY <2>1, <2>2 DEF Live, Process
    <3>2. QED BY TreesAssumption, <2>2, <3>1 DEF CreatedAt
  <2>3. CASE ~Live(op.pid) BY <2>1, <2>3 DEF CreatedAt
  <2>4. QED BY <2>2, <2>3
<1>5. TreesTypeOK' BY <1>1, <1>2, <1>3, <1>4 DEF Inspect, TreesInv, TreesTypeOK
<1>6. QED BY <1>1, <1>2, <1>3, <1>5
          DEF TreesInv, OpShape, MembersOpen, Live, Recorded, OpenIsKnown, RecordedOnce, NewJob, Emptied

LEMMA BindJobInv == ASSUME TreesInv, BindJob PROVE TreesInv'
<1>1. /\ op.kind = "inspected" /\ ~cleaned /\ launches \in Jobs /\ launches \notin Recorded \cup forgotten
      /\ UNCHANGED <<births, processes, launches, cleaned>>
  BY DEF BindJob, TreesInv, NewJob, Emptied
<1>2. op.pid \in Pids
  <2>1. OpShape BY DEF TreesInv
  <2>2. QED BY <1>1, <2>1 DEF OpShape
<1>3. op' = [kind |-> "idle", pid |-> Nil, born |-> 0, left |-> {}, kids |-> {}]
  BY DEF BindJob, Idle, Op
<1>4. OpShape' /\ op'.kind = "idle" /\ op'.pid = Nil /\ op'.left = {} BY <1>3 DEF OpShape
<1>5. Emptied' BY <1>1 DEF Emptied
<1>6. CASE UNCHANGED <<proc, jobObjects, handles, forgotten>>
  BY <1>1, <1>4, <1>5, <1>6 DEF TreesInv, TreesTypeOK, MembersOpen, Live, Recorded, OpenIsKnown, RecordedOnce, NewJob
<1>7. CASE /\ jobObjects' = [jobObjects EXCEPT ![op.pid] = launches]
           /\ handles' = handles \cup {launches}
           /\ forgotten' = forgotten \cup ({jobObjects[op.pid]} \ {Nil})
           /\ \/ UNCHANGED proc
              \/ Live(op.pid) /\ proc' = [proc EXCEPT ![op.pid].job = launches]
  <2>1. jobObjects \in [Pids -> Jobs \cup {Nil}] /\ proc \in [Pids -> Process \cup {Nil}]
        /\ handles \subseteq Jobs /\ forgotten \subseteq handles /\ Recorded \subseteq handles
    BY DEF TreesInv, TreesTypeOK, Recorded
  <2>2. jobObjects' \in [Pids -> Jobs \cup {Nil}] /\ handles' \subseteq Jobs /\ forgotten' \subseteq handles'
    BY <1>1, <1>2, <1>7, <2>1 DEF Recorded
  <2>3. launches # Nil BY TreesAssumption, <1>1 DEF Jobs
  <2>4. Recorded' \subseteq Recorded \cup {launches} /\ Recorded' \subseteq handles'
    BY <1>2, <1>7, <2>1 DEF Recorded
  <2>5. \A j \in Recorded : j \in Recorded' \cup forgotten'
    BY <1>2, <1>7, <2>1 DEF Recorded
  <2>6. launches \in Recorded' BY <1>2, <1>7, <2>1, <2>3 DEF Recorded
  <2>7. proc' \in [Pids -> Process \cup {Nil}]
    <3>1. ASSUME Live(op.pid) PROVE [proc[op.pid] EXCEPT !.job = launches] \in Process
      BY <1>1, <1>2, <2>1, <3>1 DEF Live, Process
    <3>2. QED BY <1>2, <1>7, <2>1, <3>1
  <2>8. TreesTypeOK' BY <1>1, <1>4, <2>2, <2>4, <2>7 DEF TreesInv, TreesTypeOK, Recorded
  <2>9. MembersOpen'
    <3>1. ASSUME NEW p \in Pids, Live(p)', proc'[p].job # Nil PROVE proc'[p].job \in handles'
      <4>1. CASE proc'[p] = proc[p] BY <1>7, <3>1, <4>1 DEF TreesInv, MembersOpen, Live
      <4>2. CASE p = op.pid /\ Live(p) /\ proc'[p] = [proc[p] EXCEPT !.job = launches]
        <5>1. proc[p] \in Process BY <2>1, <4>2 DEF Live
        <5>2. proc'[p].job = launches BY <4>2, <5>1 DEF Process
        <5>3. QED BY <1>7, <5>2
      <4>3. QED BY <1>2, <1>7, <2>1, <4>1, <4>2
    <3>2. QED BY <3>1 DEF MembersOpen
  <2>10. OpenIsKnown' BY <1>7, <2>5, <2>6 DEF TreesInv, OpenIsKnown
  <2>11. RecordedOnce'
    <3>1. \A p, q \in Pids : jobObjects'[p] = jobObjects'[q] /\ jobObjects'[p] # Nil => p = q
      <4>1. \A p \in Pids \ {op.pid} : jobObjects'[p] = jobObjects[p] /\ jobObjects[p] # launches
        BY <1>1, <1>2, <1>7, <2>1, <2>3 DEF Recorded
      <4>2. jobObjects'[op.pid] = launches BY <1>2, <1>7, <2>1
      <4>3. QED BY <4>1, <4>2 DEF TreesInv, RecordedOnce
    <3>2. Recorded' \cap forgotten' = {}
      <4>1. ASSUME NEW j \in Recorded', j \in forgotten' PROVE FALSE
        <5>1. PICK p \in Pids : j = jobObjects'[p] /\ j # Nil BY <4>1 DEF Recorded
        <5>2. CASE p = op.pid
          <6>1. j = launches BY <1>2, <1>7, <2>1, <5>1, <5>2
          <6>2. j \in forgotten \cup Recorded BY <1>2, <1>7, <4>1, <5>1 DEF Recorded
          <6>3. QED BY <1>1, <6>1, <6>2
        <5>3. CASE p # op.pid
          <6>1. j = jobObjects[p] /\ j \in Recorded BY <1>7, <2>1, <5>1, <5>3 DEF Recorded
          <6>2. j \notin forgotten BY <6>1 DEF TreesInv, RecordedOnce
          <6>3. jobObjects[op.pid] # j BY <1>2, <5>1, <5>3, <6>1 DEF TreesInv, RecordedOnce
          <6>4. QED BY <1>7, <4>1, <6>2, <6>3
        <5>4. QED BY <5>2, <5>3
      <4>2. QED BY <4>1
    <3>3. QED BY <3>1, <3>2 DEF RecordedOnce
  <2>12. NewJob'
    <3>1. \A j \in Recorded' \cup forgotten' : j \in Recorded \cup forgotten \cup {launches}
      BY <1>2, <1>7, <2>4 DEF Recorded
    <3>2. launches <= launches BY TreesAssumption, <1>1 DEF Jobs
    <3>3. QED BY <1>1, <1>4, <3>1, <3>2 DEF TreesInv, NewJob
  <2>13. QED BY <1>4, <1>5, <2>8, <2>9, <2>10, <2>11, <2>12 DEF TreesInv
<1>8. QED BY <1>6, <1>7 DEF BindJob

LEMMA RegisterInv == ASSUME TreesInv, NEW p \in Pids, RegisterExternal(p) PROVE TreesInv'
<1>1. /\ cleaned' = FALSE /\ UNCHANGED <<proc, births, jobObjects, handles, forgotten, op, launches>>
  BY DEF RegisterExternal
<1>2. CreatedAt(p) \in 0..MaxBirths
  <2>1. births \in 0..MaxBirths /\ proc[p] \in Process \cup {Nil} BY DEF TreesInv, TreesTypeOK
  <2>2. CASE Live(p)
    <3>1. proc[p].born \in 1..MaxBirths BY <2>1, <2>2 DEF Live, Process
    <3>2. QED BY TreesAssumption, <2>2, <3>1 DEF CreatedAt
  <2>3. CASE ~Live(p) BY <2>1, <2>3 DEF CreatedAt
  <2>4. QED BY <2>2, <2>3
<1>3. TreesTypeOK' BY <1>1, <1>2 DEF RegisterExternal, TreesInv, TreesTypeOK
<1>4. QED BY <1>1, <1>3
          DEF TreesInv, OpShape, MembersOpen, Live, Recorded, OpenIsKnown, RecordedOnce, NewJob, Emptied

LEMMA BeginCleanupInv == ASSUME TreesInv, BeginCleanup PROVE TreesInv'
<1> DEFINE swept == {p \in Pids : processes[p] # Nil /\ ~processes[p].external}
<1>1. UNCHANGED <<proc, births, processes, jobObjects, handles, forgotten, launches, cleaned>>
  BY DEF BeginCleanup
<1>2. op' = [kind |-> "next", pid |-> Nil, born |-> 0, left |-> swept, kids |-> {}]
  BY DEF BeginCleanup, Op
<1>3. op'.kind = "next" /\ op'.pid = Nil /\ op'.left = swept /\ OpShape' BY <1>2 DEF OpShape
<1>4. swept \subseteq Pids /\ (cleaned => swept = {}) BY DEF TreesInv, Emptied
<1> HIDE DEF swept
<1>5. QED BY <1>1, <1>3, <1>4
          DEF TreesInv, TreesTypeOK, MembersOpen, Live, Recorded, OpenIsKnown, RecordedOnce, NewJob, Emptied

(* Closing a recorded job: its members die, the others' jobs stay open and recorded.  *)
LEMMA CloseJobKeeps ==
  ASSUME TreesInv, NEW p \in Pids, CloseJob(p),
         UNCHANGED <<births, processes, forgotten, launches, cleaned>>, ~cleaned,
         OpShape', op'.kind = "next", op'.pid \in Pids \cup {Nil}, op'.left \subseteq Pids
  PROVE  TreesInv'
<1>1. /\ jobObjects' = [jobObjects EXCEPT ![p] = Nil]
      /\ handles' = handles \ {jobObjects[p]}
  BY DEF CloseJob
<1>2. jobObjects \in [Pids -> Jobs \cup {Nil}] /\ proc \in [Pids -> Process \cup {Nil}]
      /\ handles \subseteq Jobs /\ forgotten \subseteq handles /\ Recorded \subseteq handles
  BY DEF TreesInv, TreesTypeOK, Recorded
<1>3. \A j \in Recorded' : j \in Recorded /\ j # jobObjects[p]
  BY <1>1, <1>2 DEF Recorded, TreesInv, RecordedOnce
<1>4. \A j \in Recorded : j = jobObjects[p] \/ j \in Recorded'
  <2>1. ASSUME NEW j \in Recorded, j # jobObjects[p] PROVE j \in Recorded'
    <3>1. PICK q \in Pids : j = jobObjects[q] BY DEF Recorded
    <3>2. q # p /\ jobObjects'[q] = j BY <1>1, <1>2, <2>1, <3>1
    <3>3. j # Nil BY DEF Recorded
    <3>4. QED BY <3>2, <3>3 DEF Recorded
  <2>2. QED BY <2>1
<1>5. jobObjects[p] \notin forgotten
  <2>1. CASE jobObjects[p] = Nil
    <3>1. Nil \notin Jobs BY TreesAssumption DEF Jobs
    <3>2. QED BY <1>2, <2>1, <3>1
  <2>2. CASE jobObjects[p] # Nil BY <2>2 DEF Recorded, TreesInv, RecordedOnce
  <2>3. QED BY <2>1, <2>2
<1>6. /\ proc' \in [Pids -> Process \cup {Nil}]
      /\ \A q \in Pids : Live(q)' => Live(q) /\ proc'[q] = proc[q]
           /\ (jobObjects[p] # Nil => proc[q].job # jobObjects[p])
  <2>1. CASE jobObjects[p] = Nil BY <1>2, <2>1 DEF CloseJob, Live
  <2>2. CASE jobObjects[p] # Nil
    <3>1. proc' = Killed(Member(jobObjects[p])) BY <2>2 DEF CloseJob
    <3>2. QED BY <2>2, <3>1, KilledKeeps DEF Member
  <2>3. QED BY <2>1, <2>2
<1>7. TreesTypeOK'
  <2>1. jobObjects' \in [Pids -> Jobs \cup {Nil}] BY <1>1, <1>2
  <2>2. handles' \subseteq Jobs /\ forgotten' \subseteq handles' BY <1>1, <1>2, <1>5
  <2>3. Recorded' \subseteq handles' BY <1>1, <1>2, <1>3
  <2>4. QED BY <1>6, <2>1, <2>2, <2>3 DEF TreesInv, TreesTypeOK, Recorded
<1>8. MembersOpen'
  <2>1. ASSUME NEW q \in Pids, Live(q)', proc'[q].job # Nil PROVE proc'[q].job \in handles'
    <3>1. Live(q) /\ proc'[q] = proc[q] /\ proc[q].job \in handles
      BY <1>6, <2>1 DEF TreesInv, MembersOpen
    <3>2. proc[q].job # jobObjects[p] BY <1>6, <2>1, <3>1
    <3>3. QED BY <1>1, <3>1, <3>2
  <2>2. QED BY <2>1 DEF MembersOpen
<1>9. OpenIsKnown' BY <1>1, <1>4 DEF TreesInv, OpenIsKnown
<1>10. RecordedOnce'
  <2>1. Recorded' \cap forgotten' = {} BY <1>3 DEF TreesInv, RecordedOnce
  <2>2. \A q, r \in Pids : jobObjects'[q] = jobObjects'[r] /\ jobObjects'[q] # Nil => q = r
    BY <1>1, <1>2 DEF TreesInv, RecordedOnce
  <2>3. QED BY <2>1, <2>2 DEF RecordedOnce
<1>11. NewJob' BY <1>3 DEF TreesInv, NewJob
<1>12. QED BY <1>7, <1>8, <1>9, <1>10, <1>11 DEF TreesInv, Emptied

LEMMA TerminateGoneInv == ASSUME TreesInv, NEW p \in Pids, TerminateGone(p) PROVE TreesInv'
<1>1. op' = [op EXCEPT !.left = @ \ {p}] /\ op.kind = "next" /\ p \in op.left /\ ~cleaned
  BY DEF TerminateGone, TreesInv, Emptied
<1>2. op' = [kind |-> op.kind, pid |-> op.pid, born |-> op.born, left |-> op.left \ {p}, kids |-> op.kids]
  <2>1. OpShape BY DEF TreesInv
  <2>2. QED BY <1>1, <2>1 DEF OpShape
<1>3. OpShape' /\ op'.kind = "next" /\ op'.pid \in Pids \cup {Nil} /\ op'.left \subseteq Pids
  BY <1>1, <1>2 DEF OpShape, TreesInv, TreesTypeOK
<1>4. QED BY <1>1, <1>3, CloseJobKeeps DEF TerminateGone

LEMMA TerminateEndsInv == ASSUME TreesInv, TerminateEnds PROVE TreesInv'
<1>1. op.kind = "close" /\ ~cleaned BY DEF TerminateEnds, TreesInv, Emptied
<1>2. op.pid \in Pids
  <2>1. OpShape BY DEF TreesInv
  <2>2. QED BY <1>1, <2>1 DEF OpShape
<1>3. op' = [kind |-> "next", pid |-> Nil, born |-> 0, left |-> op.left, kids |-> {}]
  BY DEF TerminateEnds, Op
<1>4. OpShape' /\ op'.kind = "next" /\ op'.pid \in Pids \cup {Nil} /\ op'.left \subseteq Pids
  BY <1>3 DEF OpShape, TreesInv, TreesTypeOK
<1>5. QED BY <1>1, <1>2, <1>4, CloseJobKeeps DEF TerminateEnds

(* The steps of a termination that kill single processes or none.                     *)
LEMMA TerminateInv ==
  ASSUME TreesInv,
         \/ \E p \in Pids : TerminateRefused(p) \/ TerminateBegins(p)
         \/ TerminateRoot \/ \E k \in op.kids : TerminateChild(k)
  PROVE  TreesInv'
<1>1. UNCHANGED <<births, processes, jobObjects, handles, forgotten, launches, cleaned>>
  BY DEF TerminateRefused, TerminateBegins, TerminateRoot, TerminateChild
<1>2. ~cleaned
  BY DEF TerminateRefused, TerminateBegins, TerminateRoot, TerminateChild, TreesInv, Emptied
<1>3. proc' = proc \/ \E ps : proc' = Killed(ps)
  BY DEF TerminateRefused, TerminateBegins, TerminateRoot, TerminateChild
<1>4. /\ proc' \in [Pids -> Process \cup {Nil}]
      /\ \A q \in Pids : Live(q)' => Live(q) /\ proc'[q] = proc[q]
  BY <1>3, KilledKeeps DEF TreesInv, TreesTypeOK, Live
<1>5. OpShape' /\ op'.kind \in {"next", "children", "close"} /\ op'.left \subseteq Pids
      /\ op'.pid \in Pids \cup {Nil}
  <2>1. OpShape /\ op.pid \in Pids \cup {Nil} /\ op.left \subseteq Pids BY DEF TreesInv, TreesTypeOK
  <2>2. ASSUME NEW p \in Pids, TerminateRefused(p) PROVE <1>5!:
    <3>1. op' = [kind |-> op.kind, pid |-> op.pid, born |-> op.born, left |-> op.left \ {p}, kids |-> op.kids]
      BY <2>1, <2>2 DEF TerminateRefused, OpShape
    <3>2. QED BY <2>1, <2>2, <3>1 DEF TerminateRefused, OpShape
  <2>3. ASSUME NEW p \in Pids, TerminateBegins(p) PROVE <1>5!:
    <3>1. PICK b, ks : op' = [kind |-> "children", pid |-> p, born |-> b, left |-> op.left \ {p}, kids |-> ks]
      BY <2>3 DEF TerminateBegins, Op
    <3>2. QED BY <2>1, <3>1 DEF OpShape
  <2>4. CASE TerminateRoot
    <3>1. op' = [kind |-> "close", pid |-> op.pid, born |-> op.born, left |-> op.left, kids |-> op.kids]
          /\ op.kind = "children"
      BY <2>1, <2>4 DEF TerminateRoot, OpShape
    <3>2. QED BY <2>1, <3>1 DEF OpShape
  <2>5. ASSUME NEW k \in op.kids, TerminateChild(k) PROVE <1>5!:
    <3>1. op' = [kind |-> op.kind, pid |-> op.pid, born |-> op.born, left |-> op.left, kids |-> op.kids \ {k}]
          /\ op.kind = "children"
      BY <2>1, <2>5 DEF TerminateChild, OpShape
    <3>2. QED BY <2>1, <3>1 DEF OpShape
  <2>6. QED BY <2>2, <2>3, <2>4, <2>5
<1>6. TreesTypeOK' BY <1>1, <1>4, <1>5 DEF TreesInv, TreesTypeOK
<1>7. MembersOpen' BY <1>1, <1>4 DEF TreesInv, MembersOpen
<1>8. QED BY <1>1, <1>2, <1>5, <1>6, <1>7
          DEF TreesInv, Recorded, OpenIsKnown, RecordedOnce, NewJob, Emptied

LEMMA CleanupEndsInv == ASSUME TreesInv, CleanupEnds PROVE TreesInv'
<1>1. /\ handles' = handles \ Recorded /\ proc' = Killed(UNION {Member(j) : j \in Recorded})
      /\ jobObjects' = [p \in Pids |-> Nil] /\ processes' = [p \in Pids |-> Nil]
      /\ cleaned' = TRUE /\ UNCHANGED <<births, forgotten, launches>>
  BY DEF CleanupEnds, Recorded
<1>2. op' = [kind |-> "idle", pid |-> Nil, born |-> 0, left |-> {}, kids |-> {}]
  BY DEF CleanupEnds, Idle, Op
<1>3. OpShape' /\ op'.kind = "idle" /\ op'.pid = Nil /\ op'.left = {} BY <1>2 DEF OpShape
<1>4. Recorded' = {} BY <1>1 DEF Recorded
<1>5. /\ proc' \in [Pids -> Process \cup {Nil}]
      /\ \A q \in Pids : Live(q)' => Live(q) /\ proc'[q] = proc[q] /\ proc[q].job \notin Recorded
  BY <1>1, KilledKeeps DEF Member
<1>6. TreesTypeOK' BY <1>1, <1>3, <1>4, <1>5 DEF TreesInv, TreesTypeOK, RecordedOnce, Recorded
<1>7. MembersOpen' BY <1>1, <1>5 DEF TreesInv, MembersOpen
<1>8. OpenIsKnown' BY <1>1 DEF TreesInv, OpenIsKnown
<1>9. RecordedOnce' BY <1>1, <1>4 DEF RecordedOnce
<1>10. NewJob' BY <1>1, <1>3, <1>4 DEF TreesInv, NewJob
<1>11. Emptied' BY <1>1, <1>3 DEF Emptied
<1>12. QED BY <1>3, <1>6, <1>7, <1>8, <1>9, <1>10, <1>11 DEF TreesInv

LEMMA TreesNextInv == ASSUME TreesInv, [TreesNext]_treeVars PROVE TreesInv'
<1>1. CASE UNCHANGED treeVars
  BY <1>1 DEF treeVars, TreesInv, TreesTypeOK, OpShape, MembersOpen, Live, Recorded, OpenIsKnown,
              RecordedOnce, NewJob, Emptied
<1>2. CASE System BY <1>2, SystemInv
<1>3. CASE Supervision
  BY <1>3, PopenInv, RegisterInv, InspectInv, BindJobInv, BeginCleanupInv, CleanupEndsInv,
     TerminateGoneInv, TerminateInv, TerminateEndsInv DEF Supervision
<1>4. QED BY <1>1, <1>2, <1>3 DEF TreesNext

LEMMA TreesAlways == TreesSpec => []TreesInv
<1>1. TreesInit => TreesInv BY TreesInitInv
<1>2. TreesInv /\ [TreesNext]_treeVars => TreesInv' BY TreesNextInv
<1>3. QED BY <1>1, <1>2, PTL DEF TreesSpec

(* For any pids and bounds every table keeps its type, and a job the supervisor has on *)
(* record is one whose handle is open (_job_objects).                                  *)
THEOREM TreesTypes == TreesSpec => []TreesTypeOK
<1>1. TreesInv => TreesTypeOK BY DEF TreesInv
<1>2. QED BY <1>1, TreesAlways, PTL

(* However pids are reused, a process that is in a job after cleanup_all is in one     *)
(* whose record another launch replaced (cleanup_all, terminate_process).              *)
THEOREM CleanupLeavesNoJob == TreesSpec => []CleanupEmptiesJobs
<1>1. TreesInv => CleanupEmptiesJobs
  <2>1. ASSUME TreesInv, cleaned, NEW p \in Pids, Live(p) PROVE proc[p].job \in forgotten \cup {Nil}
    <3>1. Recorded = {} BY <2>1 DEF TreesInv, Emptied, Recorded
    <3>2. handles \subseteq forgotten BY <2>1, <3>1 DEF TreesInv, OpenIsKnown
    <3>3. QED BY <2>1, <3>2 DEF TreesInv, MembersOpen
  <2>2. QED BY <2>1 DEF CleanupEmptiesJobs
<1>2. QED BY <1>1, TreesAlways, PTL

(* What the supervisor kills is its own.  A process of somebody else is in no job;   *)
(* no two processes are born at the same time.                                       *)
ProcessesApart ==
  /\ \A p \in Pids : Live(p) => proc[p].born <= births /\ (~proc[p].ours => proc[p].job = Nil)
  /\ \A p, q \in Pids : Live(p) /\ Live(q) /\ proc[p].born = proc[q].born => p = q

(* The process under a pid is the one on record only if it was launched.             *)
LaunchedAs(p, born) == born \in Nat /\ born <= births /\ (Live(p) /\ proc[p].born = born => proc[p].ours)
RecordsAreOurs ==
  \A p \in Pids : processes[p] # Nil =>
    /\ processes[p].created \in Nat /\ processes[p].created <= births
    /\ ~processes[p].external => LaunchedAs(p, processes[p].created)

(* A birth that is some child's.                                                     *)
ChildBirth(born) ==
  born \in Nat /\ born <= births /\ \A p \in Pids : Live(p) /\ proc[p].born = born => proc[p].parent # Nil

TargetsAreOurs ==
  /\ op.kind \in {"started", "inspected"} => op.left = {} /\ (Live(op.pid) => proc[op.pid].ours)
  /\ \A p \in op.left : processes[p] # Nil /\ ~processes[p].external
  /\ \A k \in op.kids : ChildBirth(k.born)
  /\ op.kind = "children" => LaunchedAs(op.pid, op.born)

OwnInv == TreesInv /\ ProcessesApart /\ RecordsAreOurs /\ TargetsAreOurs

(* Generation by generation, what is found below a root is a child of a process.     *)
Grown(r, n, g) == g = [i \in 0..n |-> IF i = 0 THEN {r} ELSE g[i - 1] \cup Below(r, g[i - 1])]

(* A set of numbers that is not empty has a least one.                             *)
LEMMA Least ==
  ASSUME NEW T \in SUBSET Nat, T # {}
  PROVE  \E i \in T : \A j \in T : i <= j
<1>1. \E R : IsWellFoundedOn(R, Nat) /\ R = OpToRel(<, Nat)
  BY NatLessThanWellFounded, Zenon
<1>2. \E R : IsWellFoundedOn(R, Nat) /\ \A x, y \in Nat : <<y, x>> \in R <=> y < x
  <2>1. \A x, y \in Nat : <<y, x>> \in OpToRel(<, Nat) <=> y < x
    BY DEF OpToRel
  <2>2. QED BY <1>1, <2>1, Zenon
<1>3. PICK R : IsWellFoundedOn(R, Nat) /\ \A x, y \in Nat : <<y, x>> \in R <=> y < x
  BY <1>2
<1>4. PICK x \in T : \A y \in T : ~ (<<y, x>> \in R)
  BY <1>3, WFMin
<1>5. ASSUME NEW y \in T PROVE x <= y
  <2>1. x \in Nat /\ y \in Nat /\ ~ (<<y, x>> \in R)
    BY <1>4
  <2>2. <<y, x>> \in R <=> y < x
    BY <1>3, <2>1
  <2>3. QED BY <2>1, <2>2
<1>6. QED BY <1>5

LEMMA GrownExists == ASSUME NEW r, NEW n \in Nat PROVE \E g : Grown(r, n, g)
<1> DEFINE T == {i \in Nat : ~\E g : Grown(r, i, g)}
<1>1. SUFFICES ASSUME T # {} PROVE FALSE BY DEF T
<1>2. PICK m \in T : \A j \in T : m <= j BY <1>1, Least
<1>3. m # 0
  <2>1. Grown(r, 0, [i \in 0..0 |-> {r}]) BY DEF Grown
  <2>2. QED BY <2>1
<1>4. m - 1 \in Nat /\ m - 1 \notin T BY <1>2, <1>3
<1>5. PICK g : Grown(r, m - 1, g) BY <1>4
<1>6. PICK h : h = [i \in 0..m |-> IF i = m THEN g[m - 1] \cup Below(r, g[m - 1]) ELSE g[i]]
  OBVIOUS
<1>7. ASSUME NEW i \in 0..m
      PROVE  h[i] = IF i = 0 THEN {r} ELSE h[i - 1] \cup Below(r, h[i - 1])
  <2>1. CASE i = m
    <3>1. h[m - 1] = g[m - 1] /\ h[m] = g[m - 1] \cup Below(r, g[m - 1]) BY <1>3, <1>4, <1>6
    <3>2. QED BY <1>3, <2>1, <3>1
  <2>2. CASE i # m
    <3>1. i \in 0..(m - 1) BY <1>4, <2>2
    <3>2. g[i] = IF i = 0 THEN {r} ELSE g[i - 1] \cup Below(r, g[i - 1]) BY <1>5, <3>1 DEF Grown
    <3>3. h[i] = g[i] BY <1>6, <2>2
    <3>4. i # 0 => h[i - 1] = g[i - 1] BY <1>6, <3>1, <1>4
    <3>5. QED BY <3>2, <3>3, <3>4
  <2>3. QED BY <2>1, <2>2
<1>8. Grown(r, m, h) BY <1>6, <1>7 DEF Grown
<1>9. QED BY <1>2, <1>8

LEMMA ChildrenAreBelow ==
  ASSUME NEW r \in Pids, NEW c \in Children(r)
  PROVE  c \in Pids /\ Live(c) /\ proc[c].parent \in Pids
<1>1. PICK n \in Nat : n = Cardinality(Pids) BY FS_CardinalityType, TreesAssumption
<1>2. PICK g : g = CHOOSE x : Grown(r, n, x) OBVIOUS
<1>3. Grown(r, n, g) BY <1>2, GrownExists
<1>4. Children(r) = g[n] \ {r} BY <1>1, <1>2 DEF Children, Grown
<1> DEFINE Belongs(s) == s \subseteq Pids /\ \A q \in s \ {r} : Live(q) /\ proc[q].parent \in Pids
           T == {i \in 0..n : ~Belongs(g[i])}
<1>5. CASE T # {}
  <2>0. T \in SUBSET Nat BY <1>1
  <2>1. PICK m \in T : \A j \in T : m <= j
    <3> HIDE DEF T
    <3> QED BY <1>5, <2>0, Least
  <2>2. m \in 0..n /\ g[m] = IF m = 0 THEN {r} ELSE g[m - 1] \cup Below(r, g[m - 1])
    BY <1>3 DEF Grown
  <2>3. CASE m = 0 BY <2>2, <2>3
  <2>4. CASE m # 0
    <3>1. m - 1 \in 0..n /\ m - 1 \notin T BY <2>1, <2>2, <2>4
    <3>2. Belongs(g[m - 1]) BY <3>1
    <3>3. Belongs(Below(r, g[m - 1])) BY <3>2 DEF Below
    <3>4. QED BY <2>2, <2>4, <3>2, <3>3
  <2>5. QED BY <2>3, <2>4
<1>6. CASE T = {}
  <2>1. Belongs(g[n]) BY <1>6
  <2>2. QED BY <1>4, <2>1
<1>7. QED BY <1>5, <1>6

LEMMA OwnInitInv == ASSUME TreesInit PROVE OwnInv
<1>1. TreesInv BY TreesInitInv
<1>2. op.kind = "idle" /\ op.left = {} /\ op.kids = {} BY DEF TreesInit, Idle, Op
<1>3. QED BY <1>1, <1>2 DEF TreesInit, OwnInv, ProcessesApart, RecordsAreOurs, TargetsAreOurs, Live

(* A step in which nothing is born: what is known of births stays true.              *)
LEMMA NothingBorn ==
  ASSUME OwnInv, births' = births,
         \A q \in Pids : Live(q)' =>
           /\ Live(q) /\ proc'[q].born = proc[q].born
           /\ proc'[q] = proc[q] \/ (proc[q].ours /\ proc'[q].ours /\ proc'[q].parent = proc[q].parent)
  PROVE  /\ ProcessesApart'
         /\ \A p \in Pids : \A b : LaunchedAs(p, b) => LaunchedAs(p, b)'
         /\ \A b : ChildBirth(b) => ChildBirth(b)'
         /\ processes' = processes => RecordsAreOurs'
<1>1. ProcessesApart' BY DEF OwnInv, ProcessesApart
<1>2. \A p \in Pids : \A b : LaunchedAs(p, b) => LaunchedAs(p, b)' BY DEF LaunchedAs
<1>3. \A b : ChildBirth(b) => ChildBirth(b)' BY DEF ChildBirth
<1>4. processes' = processes => RecordsAreOurs' BY <1>2 DEF OwnInv, RecordsAreOurs
<1>5. QED BY <1>1, <1>2, <1>3, <1>4

(* A birth later than every one on record.                                           *)
LEMMA SomethingBorn ==
  ASSUME OwnInv, NEW p \in Pids, NEW parent, NEW job, NEW ours, Born(p, parent, job, ours),
         ~ours => job = Nil
  PROVE  /\ ProcessesApart'
         /\ \A q \in Pids : \A b : LaunchedAs(q, b) => LaunchedAs(q, b)'
         /\ \A b : ChildBirth(b) => ChildBirth(b)'
         /\ processes' = processes => RecordsAreOurs'
<1>1. /\ births \in Nat /\ births' = births + 1 /\ ~Live(p)
      /\ proc' = [proc EXCEPT ![p] = [born |-> births + 1, parent |-> parent, job |-> job, ours |-> ours]]
      /\ proc \in [Pids -> Process \cup {Nil}]
  BY DEF Born, Free, OwnInv, TreesInv, TreesTypeOK
<1>2. PICK new : new = [born |-> births + 1, parent |-> parent, job |-> job, ours |-> ours] OBVIOUS
<1>3. \A q \in Pids : proc'[q] = IF q = p THEN new ELSE proc[q] BY <1>1, <1>2
<1>4. new.born = births + 1 /\ new.ours = ours /\ new.job = job BY <1>2
<1>5. \A q \in Pids : Live(q) => proc[q].born \in Nat /\ proc[q].born <= births
  BY <1>1 DEF OwnInv, ProcessesApart, Live, Process
<1>6. ProcessesApart'
  <2>1. ASSUME NEW q \in Pids, Live(q)'
        PROVE  proc'[q].born <= births' /\ (~proc'[q].ours => proc'[q].job = Nil)
    BY <1>1, <1>3, <1>4, <1>5, <2>1 DEF OwnInv, ProcessesApart, Live
  <2>2. ASSUME NEW q \in Pids, NEW r \in Pids, Live(q)', Live(r)', proc'[q].born = proc'[r].born
        PROVE  q = r
    BY <1>1, <1>3, <1>4, <1>5, <2>2 DEF OwnInv, ProcessesApart, Live
  <2>3. QED BY <2>1, <2>2 DEF ProcessesApart
<1>7. \A q \in Pids : \A b : LaunchedAs(q, b) => LaunchedAs(q, b)'
  BY <1>1, <1>3, <1>4 DEF LaunchedAs, Live
<1>8. \A b : ChildBirth(b) => ChildBirth(b)'
  BY <1>1, <1>3, <1>4 DEF ChildBirth, Live
<1>9. processes' = processes => RecordsAreOurs'
  BY <1>1, <1>7 DEF OwnInv, RecordsAreOurs
<1>10. QED BY <1>6, <1>7, <1>8, <1>9

LEMMA SystemOwn == ASSUME OwnInv, System PROVE OwnInv'
<1>0. TreesInv' BY SystemInv DEF OwnInv
<1>1. UNCHANGED supervisor /\ op' = op /\ processes' = processes
  BY DEF System, StrangerStarts, Spawn, Exit, supervisor
<1>2. op.pid \in Pids \cup {Nil} /\ op.left \subseteq Pids /\ proc \in [Pids -> Process \cup {Nil}]
      /\ (op.kind \notin {"idle", "next"} => op.pid \in Pids)
  BY DEF OwnInv, TreesInv, TreesTypeOK, OpShape
<1>3. ASSUME NEW p \in Pids, NEW parent, NEW job, NEW ours, Born(p, parent, job, ours), ~ours => job = Nil
      PROVE  OwnInv'
  <2>1. /\ ProcessesApart' /\ RecordsAreOurs'
        /\ \A q \in Pids : \A b : LaunchedAs(q, b) => LaunchedAs(q, b)'
        /\ \A b : ChildBirth(b) => ChildBirth(b)'
    BY <1>1, <1>3, SomethingBorn
  <2>2. op.kind \in {"started", "inspected"} => op.pid # p BY <1>3 DEF Born, Free
  <2>3. op.kind \in {"started", "inspected"} => proc'[op.pid] = proc[op.pid]
    BY <1>2, <1>3, <2>2 DEF Born
  <2>4. TargetsAreOurs'
    BY <1>1, <1>2, <2>1, <2>3 DEF OwnInv, TargetsAreOurs, Live
  <2>5. QED BY <1>0, <2>1, <2>4 DEF OwnInv
<1>4. ASSUME NEW p \in Pids, StrangerStarts(p) PROVE OwnInv'
  BY <1>3, <1>4 DEF StrangerStarts
<1>5. ASSUME NEW p \in Pids, NEW c \in Pids, Spawn(p, c) PROVE OwnInv'
  <2>1. ~proc[p].ours => proc[p].job = Nil BY <1>5 DEF Spawn, OwnInv, ProcessesApart
  <2>2. QED BY <1>3, <1>5, <2>1 DEF Spawn
<1>6. ASSUME NEW p \in Pids, Exit(p) PROVE OwnInv'
  <2>1. births' = births /\ \A q \in Pids : Live(q)' => Live(q) /\ proc'[q] = proc[q]
    BY <1>2, <1>6 DEF Exit, Live
  <2>2. /\ ProcessesApart' /\ RecordsAreOurs'
        /\ \A q \in Pids : \A b : LaunchedAs(q, b) => LaunchedAs(q, b)'
        /\ \A b : ChildBirth(b) => ChildBirth(b)'
    BY <1>1, <2>1, NothingBorn
  <2>3. TargetsAreOurs'
    BY <1>1, <1>2, <2>1, <2>2 DEF OwnInv, TargetsAreOurs, Live
  <2>4. QED BY <1>0, <2>2, <2>3 DEF OwnInv
<1>7. QED BY <1>4, <1>5, <1>6 DEF System

LEMMA LaunchOwn ==
  ASSUME OwnInv, Inspect \/ BindJob \/ \E p \in Pids : Popen(p) \/ RegisterExternal(p)
  PROVE  OwnInv'
<1>0. TreesInv' BY PopenInv, RegisterInv, InspectInv, BindJobInv DEF OwnInv
<1>t. /\ op.pid \in Pids \cup {Nil} /\ proc \in [Pids -> Process \cup {Nil}] /\ births \in Nat
      /\ processes \in [Pids -> [created : 0..MaxBirths, external : BOOLEAN] \cup {Nil}]
      /\ OpShape /\ (op.kind \notin {"idle", "next"} => op.pid \in Pids)
  BY DEF OwnInv, TreesInv, TreesTypeOK, OpShape
<1>1. ASSUME NEW p \in Pids, Popen(p) PROVE OwnInv'
  <2>1. /\ ProcessesApart' /\ RecordsAreOurs'
    BY <1>1, SomethingBorn DEF Popen
  <2>2. op' = [kind |-> "started", pid |-> p, born |-> 0, left |-> {}, kids |-> {}]
    BY <1>1 DEF Popen, Op
  <2>3. proc'[p].ours BY <1>1, <1>t DEF Popen, Born
  <2>4. TargetsAreOurs' BY <2>2, <2>3 DEF TargetsAreOurs
  <2>5. QED BY <1>0, <2>1, <2>4 DEF OwnInv
<1>2. CASE Inspect
  <2>1. /\ op.kind = "started" /\ op' = [op EXCEPT !.kind = "inspected"] /\ op.pid \in Pids
        /\ UNCHANGED <<proc, births>>
        /\ processes' = [processes EXCEPT ![op.pid] = [created |-> CreatedAt(op.pid), external |-> FALSE]]
    BY <1>2, <1>t DEF Inspect
  <2>2. op'.kind = "inspected" /\ op'.pid = op.pid /\ op'.left = op.left /\ op'.kids = op.kids
    BY <1>t, <2>1 DEF OpShape
  <2>3. /\ ProcessesApart'
        /\ \A q \in Pids : \A b : LaunchedAs(q, b) => LaunchedAs(q, b)'
        /\ \A b : ChildBirth(b) => ChildBirth(b)'
    BY <2>1, NothingBorn DEF Live
  <2>4. Live(op.pid) => proc[op.pid].ours /\ proc[op.pid].born \in Nat /\ proc[op.pid].born <= births
    BY <1>t, <2>1 DEF OwnInv, TargetsAreOurs, ProcessesApart, Live, Process
  <2>5. LaunchedAs(op.pid, CreatedAt(op.pid))
    BY <1>t, <2>4 DEF LaunchedAs, CreatedAt
  <2>p. PICK p \in Pids : p = op.pid BY <2>1
  <2>6. PICK b : b = CreatedAt(p) OBVIOUS
  <2>7. LaunchedAs(p, b)' /\ b \in Nat /\ b <= births
    <3>1. LaunchedAs(p, b) BY <2>5, <2>p, <2>6
    <3>2. QED BY <2>3, <3>1 DEF LaunchedAs
  <2>8. ASSUME NEW q \in Pids, processes'[q] # Nil
        PROVE  /\ processes'[q].created \in Nat /\ processes'[q].created <= births'
               /\ ~processes'[q].external => LaunchedAs(q, processes[q].created)'
    <3>1. CASE q = p
      <4>1. processes'[q].created = b BY <1>t, <2>1, <2>p, <2>6, <3>1
      <4>2. QED BY <2>1, <2>7, <3>1, <4>1
    <3>2. CASE q # p
      <4>1. processes'[q] = processes[q] BY <1>t, <2>1, <2>p, <2>6, <3>2
      <4>2. QED BY <2>1, <2>8, <4>1 DEF OwnInv, RecordsAreOurs, LaunchedAs, Live
    <3>3. QED BY <3>1, <3>2
  <2>9. RecordsAreOurs' BY <2>8 DEF RecordsAreOurs
  <2>10. \A q \in op'.left : processes'[q] # Nil /\ ~processes'[q].external
    BY <2>1, <2>2 DEF OwnInv, TargetsAreOurs
  <2>11. Live(op.pid)' => proc'[op.pid].ours BY <2>1, <2>4 DEF Live
  <2>12. TargetsAreOurs' BY <2>1, <2>2, <2>3, <2>10, <2>11 DEF OwnInv, TargetsAreOurs, Live
  <2>13. QED BY <1>0, <2>3, <2>9, <2>12 DEF OwnInv
<1>3. CASE BindJob
  <2>1. /\ op.kind = "inspected" /\ op.pid \in Pids
        /\ op' = [kind |-> "idle", pid |-> Nil, born |-> 0, left |-> {}, kids |-> {}]
        /\ UNCHANGED <<births, processes>>
        /\ proc' = proc \/ (Live(op.pid) /\ proc' = [proc EXCEPT ![op.pid].job = launches])
    BY <1>3, <1>t DEF BindJob, Idle, Op
  <2>2. Live(op.pid) => proc[op.pid].ours /\ proc[op.pid] \in Process
    BY <1>t, <2>1 DEF OwnInv, TargetsAreOurs, Live
  <2>3. \A q \in Pids : Live(q)' =>
          /\ Live(q) /\ proc'[q].born = proc[q].born
          /\ proc'[q] = proc[q] \/ (proc[q].ours /\ proc'[q].ours /\ proc'[q].parent = proc[q].parent)
    <3>1. CASE proc' = proc BY <3>1 DEF Live
    <3>2. CASE Live(op.pid) /\ proc' = [proc EXCEPT ![op.pid].job = launches]
      <4>1. PICK new : new = [proc[op.pid] EXCEPT !.job = launches] OBVIOUS
      <4>2. new.born = proc[op.pid].born /\ new.ours = proc[op.pid].ours /\ new.parent = proc[op.pid].parent
        BY <2>2, <3>2, <4>1 DEF Process
      <4>3. \A q \in Pids : proc'[q] = IF q = op.pid THEN new ELSE proc[q]
        BY <1>t, <2>1, <3>2, <4>1
      <4>4. QED BY <2>2, <3>2, <4>2, <4>3 DEF Live
    <3>3. QED BY <2>1, <3>1, <3>2
  <2>4. ProcessesApart' /\ RecordsAreOurs' BY <2>1, <2>3, NothingBorn
  <2>5. TargetsAreOurs' BY <2>1 DEF TargetsAreOurs
  <2>6. QED BY <1>0, <2>4, <2>5 DEF OwnInv
<1>4. ASSUME NEW p \in Pids, RegisterExternal(p) PROVE OwnInv'
  <2>1. /\ op = [kind |-> "idle", pid |-> Nil, born |-> 0, left |-> {}, kids |-> {}]
        /\ op' = op /\ UNCHANGED <<proc, births>>
        /\ processes' = [processes EXCEPT ![p] = [created |-> CreatedAt(p), external |-> TRUE]]
    BY <1>4 DEF RegisterExternal, Idle, Op
  <2>2. /\ ProcessesApart'
        /\ \A q \in Pids : \A b : LaunchedAs(q, b) => LaunchedAs(q, b)'
    BY <2>1, NothingBorn DEF Live
  <2>3. CreatedAt(p) \in Nat /\ CreatedAt(p) <= births
    BY <1>t DEF CreatedAt, OwnInv, ProcessesApart, Live, Process
  <2>4. ASSUME NEW q \in Pids, processes'[q] # Nil
        PROVE  /\ processes'[q].created \in Nat /\ processes'[q].created <= births'
               /\ ~processes'[q].external => LaunchedAs(q, processes[q].created)'
    <3>1. CASE q = p
      <4>1. processes'[q] = [created |-> CreatedAt(p), external |-> TRUE] BY <1>t, <2>1, <3>1
      <4>2. QED BY <2>1, <2>3, <4>1
    <3>2. CASE q # p
      <4>1. processes'[q] = processes[q] BY <1>t, <2>1, <3>2
      <4>2. QED BY <2>1, <2>4, <4>1 DEF OwnInv, RecordsAreOurs, LaunchedAs, Live
    <3>3. QED BY <3>1, <3>2
  <2>5. RecordsAreOurs' BY <2>4 DEF RecordsAreOurs
  <2>6. TargetsAreOurs' BY <2>1 DEF TargetsAreOurs
  <2>7. QED BY <1>0, <2>2, <2>5, <2>6 DEF OwnInv
<1>5. QED BY <1>1, <1>2, <1>3, <1>4

(* Closing jobs kills launched processes and their children only.                    *)
LEMMA JobsAreOurs ==
  ASSUME OwnInv, NEW p \in Pids, Live(p), proc[p].job # Nil
  PROVE  proc[p].ours
  BY DEF OwnInv, ProcessesApart

Stranger(p) == Live(p) /\ ~proc[p].ours /\ proc[p].parent = Nil

LEMMA KilledSpares ==
  ASSUME OwnInv, proc' = proc \/ \E ps : proc' = Killed(ps) /\ \A q \in ps \cap Pids : ~Stranger(q)
  PROVE  \A p \in Pids : Stranger(p) => proc'[p] = proc[p]
  BY DEF Killed, OwnInv, TreesInv, TreesTypeOK

LEMMA CloseJobSpares ==
  ASSUME OwnInv, NEW p \in Pids, CloseJob(p)
  PROVE  /\ \A q \in Pids : Stranger(q) => proc'[q] = proc[q]
         /\ \A q \in Pids : Live(q)' => Live(q) /\ proc'[q] = proc[q]
<1>1. proc' = proc \/ (jobObjects[p] # Nil /\ proc' = Killed(Member(jobObjects[p]))) BY DEF CloseJob
<1>2. jobObjects[p] # Nil => \A q \in Member(jobObjects[p]) : ~Stranger(q)
  BY JobsAreOurs DEF Member, Stranger
<1>3. \A q \in Pids : Stranger(q) => proc'[q] = proc[q] BY <1>1, <1>2, KilledSpares
<1>4. \A q \in Pids : Live(q)' => Live(q) /\ proc'[q] = proc[q] BY <1>1, KilledKeeps DEF OwnInv, Live
<1>5. QED BY <1>3, <1>4

LEMMA CleanupOwn ==
  ASSUME OwnInv,
         \/ BeginCleanup \/ CleanupEnds \/ TerminateRoot \/ TerminateEnds
         \/ \E p \in Pids : TerminateGone(p) \/ TerminateRefused(p) \/ TerminateBegins(p)
         \/ \E k \in op.kids : TerminateChild(k)
  PROVE  OwnInv' /\ \A p \in Pids : Stranger(p) => proc'[p] = proc[p]
<1>0. TreesInv'
  BY BeginCleanupInv, CleanupEndsInv, TerminateGoneInv, TerminateInv, TerminateEndsInv DEF OwnInv
<1>t. /\ op.pid \in Pids \cup {Nil} /\ op.left \subseteq Pids /\ proc \in [Pids -> Process \cup {Nil}]
      /\ births \in Nat /\ OpShape /\ (op.kind \notin {"idle", "next"} => op.pid \in Pids)
  BY DEF OwnInv, TreesInv, TreesTypeOK, OpShape
<1>1. ASSUME births' = births, processes' = processes, TargetsAreOurs',
             \A q \in Pids : Live(q)' => Live(q) /\ proc'[q] = proc[q]
      PROVE  OwnInv'
  <2>1. ProcessesApart' /\ RecordsAreOurs' BY <1>1, NothingBorn
  <2>2. QED BY <1>0, <1>1, <2>1 DEF OwnInv
<1>2. CASE BeginCleanup
  <2>1. /\ proc' = proc /\ births' = births /\ processes' = processes
        /\ op' = [kind |-> "next", pid |-> Nil, born |-> 0,
                  left |-> {p \in Pids : processes[p] # Nil /\ ~processes[p].external}, kids |-> {}]
    BY <1>2 DEF BeginCleanup, Op
  <2>2. TargetsAreOurs' BY <2>1 DEF TargetsAreOurs
  <2>3. QED BY <1>1, <2>1, <2>2 DEF Live
<1>3. CASE CleanupEnds
  <2>1. /\ proc' = Killed(UNION {Member(j) : j \in {jobObjects[p] : p \in Pids} \ {Nil}})
        /\ births' = births /\ processes' = [p \in Pids |-> Nil]
        /\ op' = [kind |-> "idle", pid |-> Nil, born |-> 0, left |-> {}, kids |-> {}]
    BY <1>3 DEF CleanupEnds, Idle, Op
  <2>2. \A q \in UNION {Member(j) : j \in {jobObjects[p] : p \in Pids} \ {Nil}} : ~Stranger(q)
    BY JobsAreOurs DEF Member, Stranger
  <2>3. \A p \in Pids : Stranger(p) => proc'[p] = proc[p] BY <2>1, <2>2, KilledSpares
  <2>4. \A q \in Pids : Live(q)' => Live(q) /\ proc'[q] = proc[q] BY <2>1, KilledKeeps DEF OwnInv
  <2>5. ProcessesApart' BY <2>1, <2>4, NothingBorn
  <2>6. RecordsAreOurs' BY <2>1 DEF RecordsAreOurs
  <2>7. TargetsAreOurs' BY <2>1 DEF TargetsAreOurs
  <2>8. QED BY <1>0, <2>3, <2>5, <2>6, <2>7 DEF OwnInv
<1>4. ASSUME NEW p \in Pids, TerminateGone(p)
      PROVE  OwnInv' /\ \A q \in Pids : Stranger(q) => proc'[q] = proc[q]
  <2>1. CloseJob(p) /\ births' = births /\ processes' = processes /\ op.kind = "next"
        /\ op' = [kind |-> op.kind, pid |-> op.pid, born |-> op.born, left |-> op.left \ {p}, kids |-> op.kids]
    BY <1>t, <1>4 DEF TerminateGone, OpShape
  <2>2. /\ \A q \in Pids : Stranger(q) => proc'[q] = proc[q]
        /\ \A q \in Pids : Live(q)' => Live(q) /\ proc'[q] = proc[q]
    BY <2>1, CloseJobSpares
  <2>3. TargetsAreOurs'
    BY <2>1, <2>2, NothingBorn DEF OwnInv, TargetsAreOurs
  <2>4. QED BY <1>1, <2>1, <2>2, <2>3
<1>5. ASSUME NEW p \in Pids, TerminateRefused(p)
      PROVE  OwnInv' /\ \A q \in Pids : Stranger(q) => proc'[q] = proc[q]
  <2>1. proc' = proc /\ births' = births /\ processes' = processes /\ op.kind = "next"
        /\ op' = [kind |-> op.kind, pid |-> op.pid, born |-> op.born, left |-> op.left \ {p}, kids |-> op.kids]
    BY <1>t, <1>5 DEF TerminateRefused, OpShape
  <2>2. \A q \in Pids : Live(q)' => Live(q) /\ proc'[q] = proc[q] BY <2>1 DEF Live
  <2>3. TargetsAreOurs'
    BY <2>1, <2>2, NothingBorn DEF OwnInv, TargetsAreOurs
  <2>4. QED BY <1>1, <2>1, <2>2, <2>3
<1>6. ASSUME NEW p \in Pids, TerminateBegins(p)
      PROVE  OwnInv' /\ \A q \in Pids : Stranger(q) => proc'[q] = proc[q]
  <2>1. proc' = proc /\ births' = births /\ processes' = processes /\ Same(p) /\ p \in op.left
        /\ op' = [kind |-> "children", pid |-> p, born |-> proc[p].born, left |-> op.left \ {p},
                  kids |-> {[pid |-> c, born |-> proc[c].born] : c \in Children(p)}]
    BY <1>6 DEF TerminateBegins, Op
  <2>2. \A q \in Pids : Live(q)' => Live(q) /\ proc'[q] = proc[q] BY <2>1 DEF Live
  <2>3. LaunchedAs(p, proc[p].born)
    BY <2>1 DEF OwnInv, TargetsAreOurs, RecordsAreOurs, Same
  <2>4. \A c \in Children(p) : ChildBirth(proc[c].born)
    <3>1. SUFFICES ASSUME NEW c \in Children(p) PROVE ChildBirth(proc[c].born) OBVIOUS
    <3>2. c \in Pids /\ Live(c) /\ proc[c].parent # Nil BY ChildrenAreBelow, TreesAssumption
    <3>3. proc[c].born \in Nat /\ proc[c].born <= births
      BY <1>t, <3>2 DEF OwnInv, ProcessesApart, Live, Process
    <3>4. \A q \in Pids : Live(q) /\ proc[q].born = proc[c].born => proc[q].parent # Nil
      BY <3>2 DEF OwnInv, ProcessesApart
    <3>5. QED BY <3>3, <3>4 DEF ChildBirth
  <2>5. TargetsAreOurs'
    <3>1. LaunchedAs(p, proc[p].born)' BY <2>1, <2>3 DEF LaunchedAs, Live
    <3>2. \A k \in op'.kids : ChildBirth(k.born)'
      <4>1. SUFFICES ASSUME NEW c \in Children(p) PROVE ChildBirth(proc[c].born)' BY <2>1
      <4>2. QED BY <2>1, <2>4 DEF ChildBirth, Live
    <3>3. LaunchedAs(op.pid, op.born)' BY <2>1, <3>1
    <3>4. \A q \in op'.left : processes'[q] # Nil /\ ~processes'[q].external
      BY <2>1 DEF OwnInv, TargetsAreOurs
    <3>5. op'.kind = "children" BY <2>1
    <3>6. QED BY <3>2, <3>3, <3>4, <3>5 DEF TargetsAreOurs
  <2>6. QED BY <1>1, <2>1, <2>2, <2>5
<1>7. ASSUME NEW k \in op.kids, TerminateChild(k)
      PROVE  OwnInv' /\ \A q \in Pids : Stranger(q) => proc'[q] = proc[q]
  <2>1. /\ births' = births /\ processes' = processes /\ op.kind = "children"
        /\ op' = [kind |-> op.kind, pid |-> op.pid, born |-> op.born, left |-> op.left, kids |-> op.kids \ {k}]
        /\ proc' = proc \/ (Live(k.pid) /\ proc[k.pid].born = k.born /\ proc' = Killed({k.pid}))
    BY <1>t, <1>7 DEF TerminateChild, OpShape
  <2>2. ChildBirth(k.born) BY DEF OwnInv, TargetsAreOurs
  <2>3. \A q \in Pids : Live(q)' => Live(q) /\ proc'[q] = proc[q]
    BY <2>1, KilledKeeps DEF OwnInv, Live
  <2>4. \A q \in Pids : Stranger(q) => proc'[q] = proc[q]
    <3>1. Live(k.pid) /\ proc[k.pid].born = k.born => \A q \in {k.pid} \cap Pids : ~Stranger(q)
      BY <2>2 DEF ChildBirth, Stranger
    <3>2. QED BY <2>1, <3>1, KilledSpares
  <2>5. LaunchedAs(op.pid, op.born) /\ op.pid \in Pids BY <1>t, <2>1 DEF OwnInv, TargetsAreOurs
  <2>6. TargetsAreOurs'
    BY <2>1, <2>3, <2>5, NothingBorn DEF OwnInv, TargetsAreOurs
  <2>7. QED BY <1>1, <2>1, <2>3, <2>4, <2>6
<1>8. CASE TerminateRoot
  <2>1. /\ births' = births /\ processes' = processes /\ op.kind = "children"
        /\ op' = [kind |-> "close", pid |-> op.pid, born |-> op.born, left |-> op.left, kids |-> op.kids]
        /\ proc' = proc \/ (Live(op.pid) /\ proc[op.pid].born = op.born /\ proc' = Killed({op.pid}))
    BY <1>t, <1>8 DEF TerminateRoot, OpShape
  <2>2. LaunchedAs(op.pid, op.born) /\ op.pid \in Pids BY <1>t, <2>1 DEF OwnInv, TargetsAreOurs
  <2>3. \A q \in Pids : Live(q)' => Live(q) /\ proc'[q] = proc[q]
    BY <2>1, KilledKeeps DEF OwnInv, Live
  <2>4. \A q \in Pids : Stranger(q) => proc'[q] = proc[q]
    <3>1. Live(op.pid) /\ proc[op.pid].born = op.born => \A q \in {op.pid} \cap Pids : ~Stranger(q)
      BY <2>2 DEF LaunchedAs, Stranger
    <3>2. QED BY <2>1, <3>1, KilledSpares
  <2>5. TargetsAreOurs'
    BY <2>1, <2>3, NothingBorn DEF OwnInv, TargetsAreOurs
  <2>6. QED BY <1>1, <2>1, <2>3, <2>4, <2>5
<1>9. CASE TerminateEnds
  <2>1. CloseJob(op.pid) /\ births' = births /\ processes' = processes /\ op.pid \in Pids
        /\ op' = [kind |-> "next", pid |-> Nil, born |-> 0, left |-> op.left, kids |-> {}]
    BY <1>t, <1>9 DEF TerminateEnds, Op
  <2>2. /\ \A q \in Pids : Stranger(q) => proc'[q] = proc[q]
        /\ \A q \in Pids : Live(q)' => Live(q) /\ proc'[q] = proc[q]
    BY <2>1, CloseJobSpares
  <2>3. TargetsAreOurs' BY <2>1 DEF OwnInv, TargetsAreOurs
  <2>4. QED BY <1>1, <2>1, <2>2, <2>3
<1>10. QED
  <2>1. CASE BeginCleanup BY <1>2, <2>1 DEF BeginCleanup
  <2>2. QED BY <1>3, <1>4, <1>5, <1>6, <1>7, <1>8, <1>9, <2>1

LEMMA LaunchSpares ==
  ASSUME OwnInv, Inspect \/ BindJob \/ \E p \in Pids : Popen(p) \/ RegisterExternal(p)
  PROVE  \A p \in Pids : Stranger(p) => proc'[p] = proc[p]
<1>1. CASE Inspect \/ \E p \in Pids : RegisterExternal(p)
  BY <1>1 DEF Inspect, RegisterExternal
<1>2. ASSUME NEW p \in Pids, Popen(p) PROVE \A q \in Pids : Stranger(q) => proc'[q] = proc[q]
  BY <1>2 DEF Popen, Born, Free, Stranger, OwnInv, TreesInv, TreesTypeOK
<1>3. CASE BindJob
  <2>1. op.kind = "inspected"
        /\ (proc' = proc \/ (Live(op.pid) /\ proc' = [proc EXCEPT ![op.pid].job = launches]))
    BY <1>3 DEF BindJob
  <2>2. Live(op.pid) => ~Stranger(op.pid) BY <2>1 DEF OwnInv, TargetsAreOurs, Stranger
  <2>3. QED BY <2>1, <2>2 DEF OwnInv, TreesInv, TreesTypeOK
<1>4. QED BY <1>1, <1>2, <1>3

LEMMA OwnNextInv ==
  ASSUME OwnInv, [TreesNext]_treeVars PROVE OwnInv' /\ [StrangersAreSpared]_treeVars
<1>1. CASE UNCHANGED treeVars
  BY <1>1 DEF treeVars, OwnInv, TreesInv, TreesTypeOK, OpShape, MembersOpen, Live, Recorded, OpenIsKnown,
              RecordedOnce, NewJob, Emptied, ProcessesApart, RecordsAreOurs, TargetsAreOurs, LaunchedAs,
              ChildBirth
<1>2. ASSUME Supervision PROVE OwnInv' /\ \A p \in Pids : Stranger(p) => proc'[p] = proc[p]
  BY <1>2, LaunchOwn, LaunchSpares, CleanupOwn DEF Supervision
<1>3. CASE TreesNext
  <2>1. OwnInv' BY <1>2, <1>3, SystemOwn DEF TreesNext
  <2>2. StrangersAreSpared BY <1>2 DEF StrangersAreSpared, Stranger
  <2>3. QED BY <2>1, <2>2
<1>4. QED BY <1>1, <1>3

(* For any pids, however they are reused, and whatever the supervisor does at any time: *)
(* a process it was not asked to launch, whose parent it did not launch, is not touched  *)
(* (the create_time checks of terminate_process, the job objects, cleanup_all).          *)
THEOREM StrangersAreSafe == TreesSpec => StrangersUnharmed
<1>1. TreesInit => OwnInv BY OwnInitInv
<1>2. OwnInv /\ [TreesNext]_treeVars => OwnInv' /\ [StrangersAreSpared]_treeVars BY OwnNextInv
<1>3. QED BY <1>1, <1>2, PTL DEF TreesSpec, StrangersUnharmed
====================================================================================
