--------------------------- MODULE MissionOrchestrator ---------------------------
(* runtime/mission_orchestrator.py: the missions of every session, run by one      *)
(* orchestrator with one recovery engine.  run_mission is a coroutine; an action   *)
(* here is what it does between two of its suspensions (a dispatched specialist,   *)
(* a recovery), and cancel_mission, a deadline or another run comes in between.    *)
EXTENDS RecoveryEngine, Sequences, SequencesExt

CONSTANTS
  Missions,        \* admitted with the same budgets and roles
  Roles,           \* authorized_specialist_roles that a plan can use
  MaxActions, MaxDelegations, MaxRecoveries,
  MaxCandidates,   \* bound on what discovery finds
  MaxTools         \* bound on the tools one tester uses

ASSUME MissionAssumption ==
  /\ "none" \notin Missions
  /\ Roles \subseteq {"TESTER", "REALITY_INSPECTOR", "EVIDENCE_SPECIALIST"}
  /\ MaxActions \in Nat \ {0} /\ MaxDelegations \in Nat \ {0} /\ MaxRecoveries \in Nat
  /\ MaxCandidates \in Nat /\ MaxTools \in Nat \ {0}

VARIABLES
  run,        \* the calls of run_mission, one for each member of Recoverers
  life,       \* lifecycle_status
  cancelled,  \* _cancellation_requests
  results,    \* _mission_results
  late        \* runs whose deadline has passed

missionVars == <<run, life, cancelled, results, late>>
vars == <<missionVars, engineVars>>

Terminal == {"COMPLETED", "FAILED", "UNVERIFIED", "CANCELLED", "TIMED_OUT", "REJECTED"}
Lives == Terminal \cup {"CREATED", "ADMITTED", "DISCOVERING", "EXECUTING"}

(* ALLOWED_MISSION_TRANSITIONS, without the states that last no longer than the    *)
(* code between two suspensions (VALIDATING, PLANNING) or are never entered.       *)
Allowed ==
  [ CREATED     |-> {"ADMITTED", "REJECTED"},
    ADMITTED    |-> {"DISCOVERING", "CANCELLED", "TIMED_OUT", "FAILED"},
    DISCOVERING |-> (Terminal \ {"REJECTED"}) \cup {"EXECUTING"},
    EXECUTING   |-> Terminal \ {"REJECTED"} ]

MayBecome(m, state) == life[m] \in DOMAIN Allowed /\ state \in Allowed[life[m]]

NoResult == [status |-> "none", verdict |-> "none"]
Idle == [ pc |-> "idle", mission |-> "none", plan |-> << >>, step |-> 1, done |-> {},
          failed |-> FALSE, reality |-> FALSE, actions |-> 0,
          delegations |-> 0, recoveries |-> 0, outcome |-> NoResult ]

MissionTypeOK ==
  /\ EngineTypeOK
  /\ \A r \in Recoverers :
       /\ run[r].pc \in {"idle", "discovery", "step", "recovery", "retry", "over", "raised"}
       /\ run[r].mission \in Missions \cup {"none"}
       /\ run[r].plan \in Seq(Roles) /\ Len(run[r].plan) <= MaxDelegations
       /\ run[r].step \in 1 .. Len(run[r].plan) + 1
       /\ run[r].done \subseteq 1 .. Len(run[r].plan)
       /\ run[r].pc = "recovery" <=> r \in recovering
  /\ life \in [Missions -> Lives]
  /\ cancelled \in SUBSET Missions
  /\ \A m \in Missions : results[m] = NoResult \/ results[m].status \in Terminal
  /\ late \in SUBSET Recoverers

Init ==
  /\ EngineInit
  /\ run = [r \in Recoverers |-> Idle]
  /\ life = [m \in Missions |-> "CREATED"]
  /\ cancelled = {}
  /\ results = [m \in Missions |-> NoResult]
  /\ late = {}

(* admit: the gate's thirteen points are a choice.                                 *)
Admit(m) ==
  /\ life[m] = "CREATED"
  /\ \E answer \in Allowed["CREATED"] : life' = [life EXCEPT ![m] = answer]
  /\ UNCHANGED <<run, cancelled, results, late, engineVars>>

(* _active_missions, which nothing is ever removed from.                           *)
Active == {m \in Missions : life[m] \notin {"CREATED", "REJECTED"}}

CancelMission(m) ==
  /\ m \in Active
  /\ cancelled' = cancelled \cup {m}
  /\ UNCHANGED <<run, life, results, late, engineVars>>

DeadlinePasses(r) ==
  /\ run[r].pc \in {"discovery", "step", "recovery", "retry"}
  /\ late' = late \cup {r}
  /\ UNCHANGED <<run, life, cancelled, results, engineVars>>

--------------------------------------------------------------------------------
(* Run r, whose locals are s, ends.  A transition the matrix forbids is swallowed, *)
(* the result is stored all the same.                                              *)
Settle(r, s, status, verdict) ==
  LET outcome == [status |-> status, verdict |-> verdict] IN
  /\ run' = [run EXCEPT ![r] = [s EXCEPT !.pc = "over", !.outcome = outcome]]
  /\ life' = [life EXCEPT ![s.mission] = IF MayBecome(s.mission, status) THEN status ELSE @]
  /\ results' = [results EXCEPT ![s.mission] = outcome]

Raise(r, s) ==
  /\ run' = [run EXCEPT ![r] = [s EXCEPT !.pc = "raised"]]
  /\ UNCHANGED <<life, results>>

(* A run that cannot enter the next state fails the mission, and raises when even  *)
(* that is forbidden.                                                              *)
FailOrRaise(r, s) ==
  IF MayBecome(s.mission, "FAILED") THEN Settle(r, s, "FAILED", "FAIL") ELSE Raise(r, s)

RealityMissing(s) == "REALITY_INSPECTOR" \in Roles /\ ~s.reality

(* The resolution of the verdict.  The first two are its mutants.                  *)
ConcludeFailureLast(r, s, timedOut) ==
  IF timedOut THEN Settle(r, s, "TIMED_OUT", "UNVERIFIED")
  ELSE IF s.mission \in cancelled THEN Settle(r, s, "CANCELLED", "UNVERIFIED")
  ELSE IF s.done = {} \/ RealityMissing(s)
    THEN Settle(r, s, "UNVERIFIED", "UNVERIFIED")
  ELSE Settle(r, s, "COMPLETED", "PASS")

ConcludeUncancelled(r, s, timedOut) ==
  IF timedOut THEN Settle(r, s, "TIMED_OUT", "UNVERIFIED")
  ELSE IF s.failed THEN Settle(r, s, "FAILED", "FAIL")
  ELSE IF s.done = {} \/ RealityMissing(s)
    THEN Settle(r, s, "UNVERIFIED", "UNVERIFIED")
  ELSE Settle(r, s, "COMPLETED", "PASS")

Conclude(r, s, timedOut) ==
  IF timedOut THEN Settle(r, s, "TIMED_OUT", "UNVERIFIED")
  ELSE IF s.mission \in cancelled THEN Settle(r, s, "CANCELLED", "UNVERIFIED")
  ELSE IF s.failed THEN Settle(r, s, "FAILED", "FAIL")
  ELSE IF s.done = {} \/ RealityMissing(s)
    THEN Settle(r, s, "UNVERIFIED", "UNVERIFIED")
  ELSE Settle(r, s, "COMPLETED", "PASS")

(* From the head of the loop over the plan's steps to the next dispatch, or to the *)
(* end of the run.                                                                 *)
OutOfBudget(s) == s.actions >= MaxActions \/ s.delegations >= MaxDelegations

Proceed(r, s) ==
  \/ /\ s.step > Len(s.plan)
     /\ Conclude(r, s, FALSE)
  \/ /\ s.step <= Len(s.plan) /\ s.mission \in cancelled
     /\ Settle(r, s, "CANCELLED", "UNVERIFIED")
  \/ /\ s.step <= Len(s.plan) /\ s.mission \notin cancelled /\ r \in late
     /\ Conclude(r, s, TRUE)
  \/ /\ s.step <= Len(s.plan) /\ s.mission \notin cancelled /\ r \notin late
     /\ OutOfBudget(s)
     /\ Conclude(r, s, FALSE)
  \/ /\ s.step <= Len(s.plan) /\ s.mission \notin cancelled /\ r \notin late
     /\ ~OutOfBudget(s)
     /\ run' = [run EXCEPT ![r] = [s EXCEPT !.pc = "step", !.delegations = @ + 1]]
     /\ life' = [life EXCEPT ![s.mission] = IF @ = "DISCOVERING" THEN "EXECUTING" ELSE @]
     /\ UNCHANGED results

Completed(s) ==
  [s EXCEPT !.done = @ \cup {s.step}, !.step = @ + 1, !.failed = FALSE]

--------------------------------------------------------------------------------
(* execute_mission and run_mission up to the dispatch of the explorer.  Nothing    *)
(* keeps the host from executing a mission again, even while it runs.              *)
Begin(r, m) ==
  LET s == [Idle EXCEPT !.mission = m] IN
  /\ run[r].pc = "idle" /\ m \in Active
  /\ \/ m \in cancelled /\ Settle(r, s, "CANCELLED", "UNVERIFIED")
     \/ /\ m \notin cancelled /\ MayBecome(m, "DISCOVERING")
        /\ run' = [run EXCEPT ![r] = [s EXCEPT !.pc = "discovery"]]
        /\ life' = [life EXCEPT ![m] = "DISCOVERING"]
        /\ UNCHANGED results
     \/ /\ m \notin cancelled /\ ~MayBecome(m, "DISCOVERING")
        /\ FailOrRaise(r, s)
  /\ UNCHANGED <<cancelled, late, engineVars>>

(* build_plan: a tester for each candidate the budgets admit, with two delegations *)
(* kept for the inspection and the sealing of the evidence.                        *)
IfAuthorized(role) == IF role \in Roles THEN <<role>> ELSE << >>
Closing == IfAuthorized("REALITY_INSPECTOR") \o IfAuthorized("EVIDENCE_SPECIALIST")

Testers(found) ==
  IF "TESTER" \in Roles THEN Max({0, Min({found, MaxActions, MaxDelegations - 2})}) ELSE 0

Plan(found) ==
  [i \in 1 .. Testers(found) |-> "TESTER"]
    \o SubSeq(Closing, 1, Min({Len(Closing), MaxDelegations - Testers(found)}))

(* The explorer has answered, or discovery raised: that fails the mission, and so  *)
(* does a COMPLETED the matrix forbids.  Nothing found ends it too, and all of     *)
(* this before any look at the cancellation requests.                              *)
Discovered(r) ==
  LET s == run[r] IN
  /\ s.pc = "discovery"
  /\ \/ IF MayBecome(s.mission, "COMPLETED")
          THEN Settle(r, s, "COMPLETED", "UNVERIFIED") ELSE FailOrRaise(r, s)
     \/ FailOrRaise(r, s)
     \/ /\ s.mission \in cancelled /\ Settle(r, s, "CANCELLED", "UNVERIFIED")
     \/ /\ s.mission \notin cancelled /\ ~MayBecome(s.mission, "EXECUTING")
        /\ Raise(r, s)
     \/ \E found \in 1 .. MaxCandidates :
          /\ s.mission \notin cancelled /\ MayBecome(s.mission, "EXECUTING")
          /\ Proceed(r, [s EXCEPT !.plan = Plan(found)])
  /\ UNCHANGED <<cancelled, late, engineVars>>

(* A specialist of the plan succeeds.  Only a tester's tools count as actions, and *)
(* the inspector may have found the window cloaked.                                *)
StepSucceeds(r) ==
  LET s == run[r]
      role == s.plan[s.step]
  IN
  /\ s.pc = "step"
  /\ \/ /\ role = "TESTER"
        /\ \E tools \in 1 .. MaxTools :
             Proceed(r, Completed([s EXCEPT !.actions = @ + tools]))
     \/ /\ role = "REALITY_INSPECTOR"
        /\ \E real \in BOOLEAN : Proceed(r, Completed([s EXCEPT !.reality = real]))
     \/ role = "EVIDENCE_SPECIALIST" /\ Proceed(r, Completed(s))
  /\ UNCHANGED <<cancelled, late, engineVars>>

(* It fails.  The diagnosis is "fatal", or recoverable with a recovery the policy  *)
(* knows or without; the breaker is asked, and may half-open, before the policy.   *)
StepFails(r) ==
  LET s == run[r]
      tools == IF s.plan[s.step] = "TESTER" THEN 1 .. MaxTools ELSE {0}
  IN
  /\ s.pc = "step"
  /\ \E used \in tools, diagnosis \in {"fatal", "without policy", "with policy"} :
       LET f == [s EXCEPT !.failed = TRUE, !.actions = @ + used] IN
       \/ /\ diagnosis = "fatal" \/ f.recoveries >= MaxRecoveries \/ Blocked
          /\ Conclude(r, f, FALSE)
          /\ UNCHANGED engineVars
       \/ /\ diagnosis = "without policy" /\ f.recoveries < MaxRecoveries
          /\ PassBreaker /\ UNCHANGED <<clock, recovering>>
          /\ Conclude(r, f, FALSE)
       \/ /\ diagnosis = "with policy" /\ f.recoveries < MaxRecoveries
          /\ BeginRecovery(r)
          /\ run' = [run EXCEPT ![r] = [f EXCEPT !.pc = "recovery"]]
          /\ UNCHANGED <<life, results>>
  /\ UNCHANGED <<cancelled, late>>

(* The recovery has ended.  One that succeeded is followed by a second dispatch of *)
(* the same delegation; neither the cancellation requests nor the actions are      *)
(* looked at.                                                                      *)
RecoveryEnds(r) ==
  LET s == [run[r] EXCEPT !.recoveries = @ + 1] IN
  /\ \/ /\ RecordSuccess(r)
        /\ s.delegations < MaxDelegations /\ r \notin late
        /\ run' = [run EXCEPT ![r] = [s EXCEPT !.pc = "retry", !.delegations = @ + 1]]
        /\ UNCHANGED <<life, results>>
     \/ /\ RecordSuccess(r)
        /\ s.delegations >= MaxDelegations \/ r \in late
        /\ Conclude(r, s, FALSE)
     \/ RecordFailure(r) /\ Conclude(r, s, FALSE)
  /\ UNCHANGED <<cancelled, late>>

(* The retry's answer: its tools are not counted, and an inspector's is not read.  *)
Retried(r) ==
  LET s == run[r] IN
  /\ s.pc = "retry"
  /\ Proceed(r, Completed(s)) \/ Conclude(r, s, FALSE)
  /\ UNCHANGED <<cancelled, late, engineVars>>

Advance(r) ==
  Discovered(r) \/ StepSucceeds(r) \/ StepFails(r) \/ RecoveryEnds(r) \/ Retried(r)

Next ==
  \/ \E m \in Missions : Admit(m) \/ CancelMission(m)
  \/ \E r \in Recoverers, m \in Missions : Begin(r, m)
  \/ \E r \in Recoverers : Advance(r) \/ DeadlinePasses(r)
  \/ Tick /\ UNCHANGED missionVars

Spec == Init /\ [][Next]_vars

--------------------------------------------------------------------------------
(* A PASS is earned: every step of the plan that was begun completed, with or      *)
(* without a recovery, at least one was, and where the mission may inspect         *)
(* physical reality the inspector itself completed and saw the window.             *)
PassIsEarned ==
  \A r \in Recoverers : LET s == run[r] IN
    s.outcome.verdict = "PASS" =>
      /\ ~s.failed /\ s.done = 1 .. s.step - 1 /\ s.done # {}
      /\ "REALITY_INSPECTOR" \in Roles =>
           s.reality /\ \E i \in s.done : s.plan[i] = "REALITY_INSPECTOR"

(* No blind retries: a step is begun only after all earlier ones completed; a      *)
(* failure that no recovery has made good halts the plan.                          *)
NothingAfterFailure ==
  \A r \in Recoverers : run[r].pc = "step" =>
    ~run[r].failed /\ run[r].done = 1 .. run[r].step - 1

(* Plan steps and retries together keep to the delegation budget, and recoveries   *)
(* to theirs, however failures, recoveries and other missions interleave.          *)
BudgetsKept ==
  \A r \in Recoverers : run[r].delegations <= MaxDelegations /\ run[r].recoveries <= MaxRecoveries

(* One call of run_mission at most has been made for the mission.                  *)
ExecutedOnce(m) ==
  \A r, q \in Recoverers : run[r].mission = m /\ run[q].mission = m => r = q

(* A run whose mission is cancelled before it concludes ends in neither PASS nor   *)
(* FAIL, at whatever suspension the request arrived, however many runs it has; but *)
(* a discovery that raised has failed it whatever was requested meanwhile.         *)
CancelIsHonoured ==
  \A r \in Recoverers, m \in cancelled :
    run[r].outcome = NoResult /\ run'[r].mission = m
      => \/ run'[r].outcome.verdict \in {"none", "UNVERIFIED"}
         \/ run[r].pc = "discovery" /\ run'[r].outcome.verdict = "FAIL"

(* cancel_mission "transitions the mission to CANCELLED" (docs/architecture/30,    *)
(* section 5).  It does not hold: what ends the discovery, and a deadline, are     *)
(* looked at first.                                                                *)
CancelledIsCancelled ==
  [][\A r \in Recoverers, m \in cancelled :
       run[r].outcome = NoResult /\ run'[r].mission = m
         => run'[r].outcome.status \in {"none", "CANCELLED"}]_vars

(* What get_mission_status reports is of one piece: the stored result's status is  *)
(* the mission's own, every verdict being a transition the matrix allows there.    *)
(* It takes two overlapping runs of one mission to part them.                      *)
ResultMatchesLife ==
  \A m \in Missions :
    results[m] # NoResult /\ ExecutedOnce(m) => results[m].status = life[m]

(* What is reported of a mission is true of it.                                    *)
ReportsAreTrue == [][ResultMatchesLife' /\ CancelIsHonoured]_vars

(* A mission that has ended stays as it ended, even when it is executed again.     *)
TerminalIsFinal ==
  [][\A m \in Missions : life[m] \in Terminal => life'[m] = life[m]]_vars

(* "PASS: All acceptance criteria verified + ... + cryptographic evidence package  *)
(* sealed" (docs/architecture/30, section 7).                                      *)
PassIsSealed ==
  \A r \in Recoverers :
    run[r].outcome.verdict = "PASS" /\ "EVIDENCE_SPECIALIST" \in Roles =>
      \E i \in run[r].done : run[r].plan[i] = "EVIDENCE_SPECIALIST"
=================================================================================
