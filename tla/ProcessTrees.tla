---------------------------- MODULE ProcessTrees ----------------------------
(***************************************************************************)
(* The process supervisor and its job objects (runtime/                     *)
(* process_supervisor.py), beside an operating system that starts, ends and *)
(* recycles processes at any moment.  Two processes are born at different   *)
(* times: a pid taken over is born more than the tolerance of one second    *)
(* later.  Closing the last handle of a job kills its members.              *)
(***************************************************************************)
EXTENDS Naturals, FiniteSets

CONSTANTS Pids, Nil,
          MaxBirths,    \* bound on the processes ever started
          MaxLaunches   \* bound on launch_process

\* What the constants must be.
ASSUME TreesAssumption ==
  /\ Nil \notin Pids \cup Nat /\ IsFiniteSet(Pids)
  /\ {MaxBirths, MaxLaunches} \subseteq Nat \ {0}

VARIABLES
  proc,       \* per pid, the process that runs under it, or Nothing
  births,     \* processes started so far: the clock
  processes,  \* _processes
  jobObjects, \* _job_objects
  handles,    \* the jobs whose handle is open
  forgotten,  \* of them, those another job replaced in _job_objects
  op,         \* what the supervisor is in the middle of
  launches, cleaned

treeVars == <<proc, births, processes, jobObjects, handles, forgotten, op,
              launches, cleaned>>

Jobs == 1..MaxLaunches
Process == [born : 1..MaxBirths, parent : Pids \cup {Nil}, job : Jobs \cup {Nil}, ours : BOOLEAN]
Op(kind, p, left, kids) ==
  [kind |-> kind, pid |-> p, born |-> IF kind = "children" THEN proc[p].born ELSE 0,
   left |-> left, kids |-> kids]
Idle == Op("idle", Nil, {}, {})

\* The types of the variables.
TreesTypeOK ==
  /\ proc \in [Pids -> Process \cup {Nil}]
  /\ births \in 0..MaxBirths /\ launches \in 0..MaxLaunches /\ cleaned \in BOOLEAN
  /\ processes \in [Pids -> [created : 0..MaxBirths, external : BOOLEAN] \cup {Nil}]
  /\ jobObjects \in [Pids -> Jobs \cup {Nil}]
  /\ handles \in SUBSET Jobs /\ forgotten \subseteq handles
  /\ {jobObjects[p] : p \in Pids} \ {Nil} \subseteq handles   \* a recorded job is open
  /\ op.kind \in {"idle", "started", "inspected", "next", "children", "root", "close"}
  /\ op.pid \in Pids \cup {Nil} /\ op.left \subseteq Pids

TreesInit ==
  /\ proc = [p \in Pids |-> Nil] /\ births = 0
  /\ processes = [p \in Pids |-> Nil]
  /\ jobObjects = [p \in Pids |-> Nil]
  /\ handles = {} /\ forgotten = {} /\ op = Idle /\ launches = 0 /\ cleaned = FALSE

Live(p) == proc[p] /= Nil
Member(j) == {p \in Pids : Live(p) /\ proc[p].job = j}
supervisor == <<processes, jobObjects, handles, forgotten, op, launches, cleaned>>

----------------------------------------------------------------------------
(* The operating system.  A pid whose Popen handle is held is not reused. *)

Free(p) == ~Live(p) /\ ~(op.kind \in {"started", "inspected"} /\ op.pid = p)

Born(p, parent, job, ours) ==
  /\ births < MaxBirths /\ Free(p)
  /\ births' = births + 1
  /\ proc' = [proc EXCEPT ![p] = [born |-> births + 1, parent |-> parent, job |-> job, ours |-> ours]]

\* A process of somebody else, whose parent is none of the processes modelled.
StrangerStarts(p) == Born(p, Nil, Nil, FALSE) /\ UNCHANGED supervisor

\* A child is born into the job of its parent.
Spawn(p, c) ==
  /\ Live(p) /\ Born(c, p, proc[p].job, proc[p].ours) /\ UNCHANGED supervisor

Exit(p) == /\ Live(p) /\ proc' = [proc EXCEPT ![p] = Nil]
           /\ UNCHANGED <<births, supervisor>>

Killed(ps) == [p \in Pids |-> IF p \in ps THEN Nil ELSE proc[p]]

\* psutil follows the parent pids of the live processes, from the root down, and
\* leaves out what is older than the root.
Below(r, s) == {c \in Pids : Live(c) /\ proc[c].parent \in s /\ proc[c].born >= proc[r].born}
Children(r) ==
  LET grown[n \in 0..Cardinality(Pids)] ==
        IF n = 0 THEN {r} ELSE grown[n - 1] \cup Below(r, grown[n - 1])
  IN grown[Cardinality(Pids)] \ {r}

----------------------------------------------------------------------------
(* launch_process and register_external_process *)

Popen(p) ==
  /\ op = Idle /\ launches < MaxLaunches /\ launches' = launches + 1
  /\ Born(p, Nil, Nil, TRUE)
  /\ op' = Op("started", p, {}, {}) /\ cleaned' = FALSE
  /\ UNCHANGED <<processes, jobObjects, handles, forgotten>>

CreatedAt(p) == IF Live(p) THEN proc[p].born ELSE births

Inspect ==
  /\ op.kind = "started"
  /\ processes' = [processes EXCEPT ![op.pid] = [created |-> CreatedAt(op.pid), external |-> FALSE]]
  /\ op' = [op EXCEPT !.kind = "inspected"]
  /\ UNCHANGED <<proc, births, jobObjects, handles, forgotten, launches, cleaned>>

\* The job is made or not.  If it is, the process joins it or not, and either way the
\* job replaces the one recorded under the pid, whose handle stays open.
BindJob ==
  /\ op.kind = "inspected" /\ op' = Idle
  /\ \/ UNCHANGED <<proc, jobObjects, handles, forgotten>>
     \/ /\ jobObjects' = [jobObjects EXCEPT ![op.pid] = launches]
        /\ handles' = handles \cup {launches}
        /\ forgotten' = forgotten \cup ({jobObjects[op.pid]} \ {Nil})
        /\ \/ UNCHANGED proc
           \/ Live(op.pid) /\ proc' = [proc EXCEPT ![op.pid].job = launches]
  /\ UNCHANGED <<births, processes, launches, cleaned>>

\* Whatever was recorded under the pid is replaced; a pid without a process is recorded too.
RegisterExternal(p) ==
  /\ op = Idle /\ cleaned' = FALSE
  /\ processes' = [processes EXCEPT ![p] = [created |-> CreatedAt(p), external |-> TRUE]]
  /\ UNCHANGED <<proc, births, jobObjects, handles, forgotten, op, launches>>

----------------------------------------------------------------------------
(* cleanup_all: terminate_process for each record, then the jobs left *)

BeginCleanup ==
  /\ op = Idle
  /\ op' = Op("next", Nil, {p \in Pids : processes[p] /= Nil /\ ~processes[p].external}, {})
  /\ UNCHANGED <<proc, births, processes, jobObjects, handles, forgotten, launches, cleaned>>

CloseKeepsEntry(p) ==
  /\ handles' = handles \ {jobObjects[p]}
  /\ proc' = IF jobObjects[p] = Nil THEN proc ELSE Killed(Member(jobObjects[p]))
  /\ UNCHANGED jobObjects
\* Closing the job of a pid, if one is recorded, kills its members.
CloseJob(p) ==
  /\ jobObjects' = [jobObjects EXCEPT ![p] = Nil]
  /\ handles' = handles \ {jobObjects[p]}
  /\ proc' = IF jobObjects[p] = Nil THEN proc ELSE Killed(Member(jobObjects[p]))

\* A process that is gone leaves its job to be closed.
TerminateGone(p) ==
  /\ op.kind = "next" /\ p \in op.left /\ ~Live(p)
  /\ CloseJob(p)
  /\ op' = [op EXCEPT !.left = @ \ {p}]
  /\ UNCHANGED <<births, processes, forgotten, launches, cleaned>>

\* Another process under the pid, or one that may not be inspected, is left alone, and
\* so is the job.
TerminateRefused(p) ==
  /\ op.kind = "next" /\ p \in op.left /\ Live(p)
  /\ op' = [op EXCEPT !.left = @ \ {p}]
  /\ UNCHANGED <<proc, births, processes, jobObjects, handles, forgotten, launches, cleaned>>

AnyLive(p) == Live(p)
Same(p) == Live(p) /\ proc[p].born = processes[p].created
TerminateBegins(p) ==
  /\ op.kind = "next" /\ p \in op.left /\ Same(p)
  /\ op' = Op("children", p, op.left \ {p}, {[pid |-> c, born |-> proc[c].born] : c \in Children(p)})
  /\ UNCHANGED <<proc, births, processes, jobObjects, handles, forgotten, launches, cleaned>>

\* A child is killed unless access is denied; one whose pid was taken over is left alone.
TerminateChild(k) ==
  /\ op.kind = "children" /\ k \in op.kids
  /\ op' = [op EXCEPT !.kids = @ \ {k}]
  /\ \/ UNCHANGED proc
     \/ Live(k.pid) /\ proc[k.pid].born = k.born /\ proc' = Killed({k.pid})
  /\ UNCHANGED <<births, processes, jobObjects, handles, forgotten, launches, cleaned>>

TerminateRoot ==
  /\ op.kind = "children" /\ op.kids = {}
  /\ op' = [op EXCEPT !.kind = "close"]
  /\ \/ UNCHANGED proc
     \/ Live(op.pid) /\ proc[op.pid].born = op.born /\ proc' = Killed({op.pid})
  /\ UNCHANGED <<births, processes, jobObjects, handles, forgotten, launches, cleaned>>

TerminateEnds ==
  /\ op.kind = "close"
  /\ CloseJob(op.pid)
  /\ op' = Op("next", Nil, op.left, {})
  /\ UNCHANGED <<births, processes, forgotten, launches, cleaned>>

CleanupForgets ==
  /\ op.kind = "next" /\ op.left = {}
  /\ jobObjects' = [p \in Pids |-> Nil] /\ processes' = [p \in Pids |-> Nil]
  /\ op' = Idle /\ cleaned' = TRUE
  /\ UNCHANGED <<proc, births, handles, forgotten, launches>>
CleanupEnds ==
  /\ op.kind = "next" /\ op.left = {}
  /\ LET rest == {jobObjects[p] : p \in Pids} \ {Nil} IN
     /\ proc' = Killed(UNION {Member(j) : j \in rest})
     /\ handles' = handles \ rest
  /\ jobObjects' = [p \in Pids |-> Nil] /\ processes' = [p \in Pids |-> Nil]
  /\ op' = Idle /\ cleaned' = TRUE
  /\ UNCHANGED <<births, forgotten, launches>>

----------------------------------------------------------------------------

System == \E p \in Pids : StrangerStarts(p) \/ Exit(p) \/ \E c \in Pids : Spawn(p, c)

Supervision ==
  \/ \E p \in Pids : Popen(p) \/ RegisterExternal(p)
  \/ Inspect \/ BindJob \/ BeginCleanup \/ CleanupEnds
  \/ \E p \in Pids : TerminateGone(p) \/ TerminateRefused(p) \/ TerminateBegins(p)
  \/ \E k \in op.kids : TerminateChild(k)
  \/ TerminateRoot \/ TerminateEnds

TreesNext == System \/ Supervision
TreesSpec == TreesInit /\ [][TreesNext]_treeVars

----------------------------------------------------------------------------
(* Properties *)

\* The supervisor kills no process that was started from outside, whatever pid it took
\* over and whether or not it was attached to (create_time checks of terminate_process,
\* cleanup_all leaves external processes alone).
StrangersAreSpared ==
  Supervision => \A p \in Pids :
    Live(p) /\ ~proc[p].ours /\ proc[p].parent = Nil => proc'[p] = proc[p]
StrangersUnharmed == [][StrangersAreSpared]_treeVars

\* After cleanup_all a live process is in no job, except in one whose pid was launched
\* again: that job was forgotten (cleanup_all closes what terminate_process left open).
CleanupEmptiesJobs ==
  cleaned => \A p \in Pids : Live(p) => proc[p].job \in forgotten \cup {Nil}

\* What launch_process says of itself: "Guarantees 100% cleanup of parent, child, and
\* grandchild processes when the Job Object closes": no process of a launched tree
\* outlives cleanup_all.
NoOrphans == cleaned => \A p \in Pids : Live(p) => ~proc[p].ours
=============================================================================
