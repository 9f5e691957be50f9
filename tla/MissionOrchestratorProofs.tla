------------------------ MODULE MissionOrchestratorProofs ------------------------
(* Proofs about RecoveryEngine and MissionOrchestrator, for any missions, runs,    *)
(* recoveries, roles and budgets.  RunInv says what the locals of a run are at     *)
(* each of its suspensions, Report what the stores say of its mission then; the    *)
(* invariants follow from the two.                                                 *)
EXTENDS MissionOrchestrator, SequenceTheorems, TLAPS

--------------------------------------------------------------------------------
(* The recovery engine alone: the breaker's count and its state agree, and its     *)
(* cooldown holds, for any threshold and any cooldown.  The agreement is inductive *)
(* once the types are known; it rests on the threshold being positive.             *)
EngineInv == EngineTypeOK /\ ClosedBelowThreshold

LEMMA EngineInitInv == EngineInit => EngineInv
  BY BreakerAssumption DEF EngineInit, EngineInv, EngineTypeOK, ClosedBelowThreshold

LEMMA EngineStepInv == EngineInv /\ [EngineNext]_engineVars => EngineInv'
<1> SUFFICES ASSUME EngineInv, [EngineNext]_engineVars PROVE EngineInv'
  OBVIOUS
<1> USE BreakerAssumption DEF EngineInv, EngineTypeOK, ClosedBelowThreshold
<1>1. CASE Tick
  BY <1>1 DEF Tick, breakerVars
<1>2. ASSUME NEW r \in Recoverers, BeginRecovery(r) PROVE EngineInv'
  BY <1>2 DEF BeginRecovery, PassBreaker
<1>3. ASSUME NEW r \in Recoverers, RecordSuccess(r) PROVE EngineInv'
  BY <1>3 DEF RecordSuccess
<1>4. ASSUME NEW r \in Recoverers, RecordFailure(r) PROVE EngineInv'
  BY <1>4 DEF RecordFailure
<1>5. CASE UNCHANGED engineVars
  BY <1>5 DEF engineVars, breakerVars
<1>6. QED
  BY <1>1, <1>2, <1>3, <1>4, <1>5 DEF EngineNext

(* The breaker is closed exactly while fewer failures in a row than the threshold  *)
(* are counted, for every order in which overlapping recoveries end.               *)
THEOREM BreakerAgreesWithCount == EngineSpec => []ClosedBelowThreshold
<1>1. EngineInv => ClosedBelowThreshold
  BY DEF EngineInv
<1>2. QED
  BY EngineInitInv, EngineStepInv, <1>1, PTL DEF EngineSpec

(* No recovery begins on a tripped breaker within the cooldown of the last failure *)
(* recorded, whichever recovery recorded it.                                       *)
THEOREM CooldownHolds == EngineSpec => NoRecoveryInCooldown
<1> DEFINE Late == \A r \in Recoverers :
                     r \notin recovering /\ r \in recovering' /\ breaker = "OPEN"
                       => clock - lastFailure >= Cooldown
<1>1. EngineInv /\ [EngineNext]_engineVars => [Late]_engineVars
  <2> SUFFICES ASSUME EngineInv, EngineNext, NEW r \in Recoverers,
                      r \notin recovering, r \in recovering', breaker = "OPEN"
               PROVE  clock - lastFailure >= Cooldown
    OBVIOUS
  <2>1. PICK q \in Recoverers : BeginRecovery(q)
    BY DEF EngineNext, Tick, RecordSuccess, RecordFailure
  <2>2. QED
    BY <2>1, BreakerAssumption DEF BeginRecovery, PassBreaker, Blocked, EngineInv, EngineTypeOK
<1>2. QED
  BY EngineInitInv, EngineStepInv, <1>1, PTL DEF EngineSpec, NoRecoveryInCooldown

--------------------------------------------------------------------------------
(* The plan keeps to the budget it is made for.                                    *)
LEMMA MinOfThree ==
  ASSUME NEW a \in Int, NEW b \in Int, NEW c \in Int
  PROVE  Min({a, b, c}) \in {a, b, c} /\ Min({a, b, c}) <= a /\ Min({a, b, c}) <= b /\ Min({a, b, c}) <= c
<1>1. \E x \in {a, b, c} : \A y \in {a, b, c} : x <= y OBVIOUS
<1>2. QED BY <1>1 DEF Min
LEMMA MinOfTwo ==
  ASSUME NEW a \in Int, NEW b \in Int
  PROVE  Min({a, b}) \in {a, b} /\ Min({a, b}) <= a /\ Min({a, b}) <= b
<1>1. \E x \in {a, b} : \A y \in {a, b} : x <= y OBVIOUS
<1>2. QED BY <1>1 DEF Min
LEMMA MaxOfTwo ==
  ASSUME NEW a \in Int, NEW b \in Int
  PROVE  Max({a, b}) \in {a, b} /\ Max({a, b}) >= a /\ Max({a, b}) >= b
<1>1. \E x \in {a, b} : \A y \in {a, b} : x >= y OBVIOUS
<1>2. QED BY <1>1 DEF Max

LEMMA TestersInBudget ==
  ASSUME NEW found \in Nat
  PROVE  Testers(found) \in Nat /\ Testers(found) <= MaxDelegations
<1> DEFINE m == Min({found, MaxActions, MaxDelegations - 2})
<1>1. MaxActions \in Int /\ MaxDelegations \in Nat /\ MaxDelegations - 2 \in Int /\ MaxDelegations >= 1
  BY MissionAssumption
<1>2. m \in Int /\ m <= MaxDelegations - 2
  BY <1>1, found \in Int, MinOfThree
<1> HIDE DEF m
<1>3. Max({0, m}) \in {0, m} /\ Max({0, m}) >= 0
  BY <1>2, MaxOfTwo
<1>4. Max({0, m}) \in Nat /\ Max({0, m}) <= MaxDelegations
  BY <1>1, <1>2, <1>3
<1>5. Testers(found) \in {0, Max({0, m})}
  BY DEF Testers, m
<1>6. QED BY <1>1, <1>4, <1>5

LEMMA PlanInBudget ==
  ASSUME NEW found \in Nat
  PROVE  Plan(found) \in Seq(Roles) /\ Len(Plan(found)) <= MaxDelegations
<1> DEFINE testers == Testers(found)
           len == Min({Len(Closing), MaxDelegations - testers})
           tests == [i \in 1 .. testers |-> "TESTER"]
           rest == SubSeq(Closing, 1, len)
<1>1. testers \in Nat /\ testers <= MaxDelegations
  BY TestersInBudget
<1>2. Closing \in Seq(Roles)
  BY DEF Closing, IfAuthorized
<1>3. len \in Nat /\ len <= Len(Closing) /\ len <= MaxDelegations - testers
  <2> DEFINE a == Len(Closing)
             b == MaxDelegations - testers
  <2>1. a \in Nat /\ b \in Nat
    BY <1>1, <1>2, MissionAssumption
  <2> HIDE DEF a, b
  <2>2. Min({a, b}) \in Nat /\ Min({a, b}) <= a /\ Min({a, b}) <= b
    BY <2>1, MinOfTwo
  <2>3. QED BY <2>2 DEF a, b
<1>4. tests \in Seq(Roles) /\ Len(tests) = testers
  <2>1. testers > 0 => "TESTER" \in Roles BY <1>1 DEF Testers
  <2>2. QED BY <1>1, <2>1
<1>5. rest \in Seq(Roles) /\ Len(rest) = len
  <2>1. \A i \in 1 .. len : Closing[i] \in Roles
    BY <1>2, <1>3
  <2> HIDE DEF len
  <2>2. Len(SubSeq(Closing, 1, len)) = len /\ SubSeq(Closing, 1, len) \in Seq(Roles)
    BY <1>3, <2>1, SubSeqProperties
  <2>3. QED BY <2>2
<1>6. Plan(found) = tests \o rest BY DEF Plan
<1> HIDE DEF tests, rest, len, testers
<1>7. tests \o rest \in Seq(Roles) /\ Len(tests \o rest) = testers + len
  BY <1>4, <1>5, ConcatProperties
<1>8. QED BY <1>1, <1>3, <1>6, <1>7, MissionAssumption
--------------------------------------------------------------------------------
(* The inductive invariant.                                                        *)
Verdicts == {"none", "PASS", "FAIL", "UNVERIFIED"}
Outcomes == [status : Terminal \cup {"none"}, verdict : Verdicts]
Runs ==
  [ pc : {"idle", "discovery", "step", "recovery", "retry", "over", "raised"},
    mission : Missions \cup {"none"}, plan : Seq(Roles), step : Nat \ {0},
    done : SUBSET Nat, failed : BOOLEAN, reality : BOOLEAN, actions : Nat,
    delegations : Nat, recoveries : Nat, outcome : Outcomes ]

(* What holds of a run's locals wherever it is: the plan and the counters are in   *)
(* budget, and reality is only what an inspector of the plan has reported.         *)
Local(s) ==
  /\ s \in Runs
  /\ Len(s.plan) <= MaxDelegations
  /\ s.step <= Len(s.plan) + 1
  /\ s.done \subseteq 1 .. Len(s.plan)
  /\ s.delegations <= MaxDelegations /\ s.recoveries <= MaxRecoveries
  /\ s.reality => \E i \in s.done : s.plan[i] = "REALITY_INSPECTOR"

(* What of them is still to be decided: no verdict, and all steps so far done.     *)
Running(s) ==
  Local(s) /\ s.mission \in Missions /\ s.outcome = NoResult /\ s.done = 1 .. s.step - 1

Earned(s) ==
  /\ ~s.failed /\ s.done = 1 .. s.step - 1 /\ s.done # {}
  /\ "REALITY_INSPECTOR" \in Roles =>
       s.reality /\ \E i \in s.done : s.plan[i] = "REALITY_INSPECTOR"

RunInv(s) ==
  /\ Local(s)
  /\ s.pc = "idle" => s = Idle
  /\ s.pc \in {"discovery", "step", "recovery", "retry"} => Running(s)
  /\ s.pc = "discovery" => s.step = 1 /\ ~s.failed /\ s.delegations = 0
  /\ s.pc = "step" => ~s.failed
  /\ s.pc \in {"step", "recovery", "retry"} => s.step <= Len(s.plan)
  /\ s.pc = "recovery" => s.recoveries < MaxRecoveries
  /\ s.outcome.verdict = "PASS" => Earned(s)

StoreTypes ==
  /\ life \in [Missions -> Lives]
  /\ cancelled \in SUBSET Missions
  /\ results \in [Missions -> Outcomes]
  /\ \A m \in Missions : results[m] = NoResult \/ results[m].status \in Terminal
  /\ late \in SUBSET Recoverers

InRecovery == \A r \in Recoverers : run[r].pc = "recovery" <=> r \in recovering

(* What the stores say of a mission executed once at most: nothing before its run, *)
(* the state of the run while it lasts, and its result afterwards.                 *)
Report(m) ==
  /\ (\A r \in Recoverers : run[r].mission # m) =>
       results[m] = NoResult /\ life[m] \in {"CREATED", "ADMITTED", "REJECTED"}
  /\ \A r \in Recoverers : run[r].mission = m =>
       /\ run[r].pc # "raised"
       /\ run[r].pc = "discovery" => results[m] = NoResult /\ life[m] = "DISCOVERING"
       /\ run[r].pc \in {"step", "recovery", "retry"} =>
            results[m] = NoResult /\ life[m] = "EXECUTING"
       /\ run[r].pc = "over" => results[m].status = life[m]

Reports == \A m \in Missions : ExecutedOnce(m) => Report(m)

IInv ==
  /\ EngineTypeOK
  /\ StoreTypes
  /\ run \in [Recoverers -> Runs]
  /\ \A r \in Recoverers : RunInv(run[r])
  /\ InRecovery
  /\ Reports

LEMMA IdleInv == RunInv(Idle)
  BY MissionAssumption DEF RunInv, Local, Idle, Runs, Outcomes, Verdicts, NoResult, Running

LEMMA InitInv == Init => IInv
<1> SUFFICES ASSUME Init PROVE IInv
  OBVIOUS
<1>1. EngineTypeOK BY DEF Init, EngineInit, EngineTypeOK
<1>2. StoreTypes
  BY DEF Init, StoreTypes, Lives, Outcomes, Verdicts, NoResult
<1>3. ASSUME NEW r \in Recoverers PROVE run[r] = Idle /\ r \notin recovering
  BY DEF Init, EngineInit
<1>4. Idle \in Runs /\ Idle.pc = "idle"
  BY IdleInv DEF RunInv, Local, Idle
<1>5. InRecovery BY <1>3, <1>4 DEF InRecovery
<1>6. run \in [Recoverers -> Runs] BY <1>4 DEF Init
<1>7. Reports
  <2>1. \A r \in Recoverers : run[r].mission = "none" BY <1>3 DEF Idle
  <2>2. QED BY <2>1, MissionAssumption DEF Reports, Report, Init
<1>8. QED BY <1>1, <1>2, <1>3, <1>5, <1>6, <1>7, IdleInv DEF IInv

(* What a run of m that becomes t leaves in the stores.  A run that had not begun  *)
(* ends, if at all, cancelled or failed.                                           *)
Told(r, m, t) ==
  \/ /\ t.pc = "over" /\ t.outcome.status \in Terminal \ {"REJECTED"}
     /\ t.outcome.status \in {"CANCELLED", "FAILED"} \/ run[r].pc # "idle"
     /\ results' = [results EXCEPT ![m] = t.outcome]
     /\ life' = [life EXCEPT ![m] =
                    IF MayBecome(m, t.outcome.status) THEN t.outcome.status ELSE @]
     /\ \/ m \in cancelled => t.outcome.verdict = "UNVERIFIED"
        \/ run[r].pc = "discovery" /\ t.outcome.verdict = "FAIL"
  \/ /\ t.pc = "raised" /\ t.outcome = NoResult /\ UNCHANGED <<life, results>>
     /\ \/ ~MayBecome(m, "DISCOVERING") /\ ~MayBecome(m, "FAILED")
        \/ /\ run[r].pc = "discovery"
           /\ ~MayBecome(m, "FAILED") \/ ~MayBecome(m, "EXECUTING")
  \/ /\ t.pc = "discovery" /\ t.outcome = NoResult /\ run[r].pc = "idle"
     /\ results' = results /\ life' = [life EXCEPT ![m] = "DISCOVERING"]
  \/ /\ t.pc = "step" /\ t.outcome = NoResult /\ run[r].pc # "idle" /\ results' = results
     /\ life' = [life EXCEPT ![m] = IF @ = "DISCOVERING" THEN "EXECUTING" ELSE @]
  \/ /\ t.pc = "retry" /\ t.outcome = NoResult /\ run[r].pc = "recovery"
     /\ UNCHANGED <<life, results>>

(* A run that is under way moves, or one for an active mission begins.             *)
Of(r, m) ==
  \/ run[r].mission = m /\ run[r].pc \in {"discovery", "step", "recovery", "retry"}
  \/ run[r] = Idle /\ m \in Active

(* One run of m moves, out of a recovery or not into one, and the stores keep      *)
(* their types: what every suspension of a run comes down to.                      *)
Moves(r, m) ==
  /\ StoreTypes' /\ cancelled' = cancelled
  /\ \E t \in Runs : /\ RunInv(t) /\ t.pc # "recovery" /\ run' = [run EXCEPT ![r] = t]
                    /\ t.mission = m /\ Told(r, m, t)

(* A mission executed once after the step has had no other run before it.          *)
LEMMA OnlyRun ==
  ASSUME IInv, NEW r \in Recoverers, NEW m \in Missions, Of(r, m),
         NEW t \in Runs, run' = [run EXCEPT ![r] = t], t.mission = m, ExecutedOnce(m)'
  PROVE  /\ \A q \in Recoverers : q # r => run[q].mission # m /\ run'[q].mission # m
         /\ run[r] # Idle \/ \A q \in Recoverers : run[q].mission # m
         /\ ExecutedOnce(m) /\ Report(m)
<1>1. \A q \in Recoverers : run'[q] = IF q = r THEN t ELSE run[q] BY DEF IInv
<1>2. \A q \in Recoverers : q # r => run[q].mission # m /\ run'[q].mission # m
  BY <1>1 DEF ExecutedOnce
<1>3. ASSUME run[r] = Idle PROVE \A q \in Recoverers : run[q].mission # m
  <2>1. run[r].mission = "none" BY <1>3 DEF Idle
  <2>2. QED BY <1>2, <2>1, MissionAssumption
<1>4. ExecutedOnce(m) BY <1>2 DEF ExecutedOnce
<1>5. QED BY <1>2, <1>3, <1>4 DEF IInv, Reports

LEMMA MovesReport ==
  ASSUME IInv, NEW r \in Recoverers, NEW m \in Missions, Of(r, m),
         NEW t \in Runs, run' = [run EXCEPT ![r] = t], t.mission = m, Told(r, m, t),
         ExecutedOnce(m)'
  PROVE  Report(m)'
<1>1. /\ \A q \in Recoverers : q # r => run'[q].mission # m
      /\ run[r] # Idle \/ \A q \in Recoverers : run[q].mission # m
      /\ Report(m)
  BY OnlyRun
<1>2. run'[r] = t /\ run'[r].mission = m BY DEF IInv
<1>3. life \in [Missions -> Lives] /\ results \in [Missions -> Outcomes]
  BY DEF IInv, StoreTypes
<1>4. \/ run[r].pc = "idle" /\ life[m] = "ADMITTED" /\ results[m] = NoResult
      \/ run[r].pc = "discovery" /\ life[m] = "DISCOVERING" /\ results[m] = NoResult
      \/ /\ run[r].pc \in {"step", "recovery", "retry"}
         /\ life[m] = "EXECUTING" /\ results[m] = NoResult
  <2>1. CASE run[r].mission = m /\ run[r].pc \in {"discovery", "step", "recovery", "retry"}
    BY <1>1, <2>1 DEF Report
  <2>2. CASE run[r] = Idle /\ m \in Active
    <3>1. run[r].pc = "idle" BY <2>2 DEF Idle
    <3>2. results[m] = NoResult /\ life[m] = "ADMITTED"
      BY <1>1, <2>2 DEF Report, Active
    <3>3. QED BY <3>1, <3>2
  <2>3. QED BY <2>1, <2>2 DEF Of
<1>5. /\ life[m] = "ADMITTED" => MayBecome(m, "CANCELLED") /\ MayBecome(m, "FAILED")
      /\ life[m] \in {"DISCOVERING", "EXECUTING"} =>
           \A status \in Terminal \ {"REJECTED"} : MayBecome(m, status)
      /\ life[m] = "DISCOVERING" => MayBecome(m, "EXECUTING")
  BY DEF MayBecome, Allowed, Terminal
<1>6. /\ t.pc # "raised"
      /\ t.pc = "discovery" => results'[m] = NoResult /\ life'[m] = "DISCOVERING"
      /\ t.pc \in {"step", "recovery", "retry"} =>
            results'[m] = NoResult /\ life'[m] = "EXECUTING"
      /\ t.pc = "over" => results'[m].status = life'[m]
  <2>1. CASE t.pc = "over"
    <3>1. /\ t.outcome.status \in Terminal \ {"REJECTED"}
          /\ t.outcome.status \in {"CANCELLED", "FAILED"} \/ run[r].pc # "idle"
          /\ results' = [results EXCEPT ![m] = t.outcome]
          /\ life' = [life EXCEPT ![m] =
                         IF MayBecome(m, t.outcome.status) THEN t.outcome.status ELSE @]
      BY <2>1 DEF Told
    <3>2. MayBecome(m, t.outcome.status) BY <1>4, <1>5, <3>1
    <3>3. QED BY <1>3, <2>1, <3>1, <3>2
  <2>2. CASE t.pc = "raised"
    <3>1. \/ ~MayBecome(m, "DISCOVERING") /\ ~MayBecome(m, "FAILED")
          \/ /\ run[r].pc = "discovery"
             /\ ~MayBecome(m, "FAILED") \/ ~MayBecome(m, "EXECUTING")
      BY <2>2 DEF Told
    <3>2. {"FAILED", "COMPLETED"} \subseteq Terminal \ {"REJECTED"} BY DEF Terminal
    <3>3. QED BY <1>4, <1>5, <3>1, <3>2
  <2>3. CASE t.pc = "discovery"
    <3>1. run[r].pc = "idle" /\ results' = results /\ life' = [life EXCEPT ![m] = "DISCOVERING"]
      BY <2>3 DEF Told
    <3>2. QED BY <1>3, <1>4, <2>3, <3>1
  <2>4. CASE t.pc = "step"
    <3>1. /\ run[r].pc # "idle" /\ results' = results
          /\ life' = [life EXCEPT ![m] = IF @ = "DISCOVERING" THEN "EXECUTING" ELSE @]
      BY <2>4 DEF Told
    <3>2. QED BY <1>3, <1>4, <2>4, <3>1
  <2>5. CASE t.pc = "retry"
    <3>1. run[r].pc = "recovery" /\ UNCHANGED <<life, results>>
      BY <2>5 DEF Told
    <3>2. QED BY <1>3, <1>4, <2>5, <3>1
  <2>6. QED BY <2>1, <2>2, <2>3, <2>4, <2>5 DEF Told
<1>7. QED BY <1>1, <1>2, <1>6 DEF Report

(* The other missions' reports are as they were.                                   *)
LEMMA OthersReport ==
  ASSUME IInv, NEW r \in Recoverers, NEW m \in Missions, Of(r, m),
         NEW t \in Runs, run' = [run EXCEPT ![r] = t], t.mission = m, Told(r, m, t),
         NEW n \in Missions, n # m, ExecutedOnce(n)'
  PROVE  Report(n)'
<1>1. \A q \in Recoverers : run'[q] = IF q = r THEN t ELSE run[q] BY DEF IInv
<1>2. run[r].mission # n BY MissionAssumption DEF Of, Idle
<1>3. life'[n] = life[n] /\ results'[n] = results[n]
  BY DEF IInv, StoreTypes, Told
<1>4. ExecutedOnce(n) BY <1>1, <1>2 DEF ExecutedOnce
<1>5. Report(n) BY <1>4 DEF IInv, Reports
<1>6. QED BY <1>1, <1>2, <1>3, <1>5 DEF Report

LEMMA MovesInv ==
  ASSUME IInv, NEW r \in Recoverers, NEW m \in Missions, Of(r, m), Moves(r, m),
         EngineTypeOK', recovering' = recovering \ {r}
  PROVE  IInv' /\ CancelIsHonoured
<1>1. PICK t \in Runs : /\ RunInv(t) /\ t.pc # "recovery" /\ run' = [run EXCEPT ![r] = t]
                        /\ t.mission = m /\ Told(r, m, t)
  BY DEF Moves
<1>2. run' \in [Recoverers -> Runs] BY <1>1 DEF IInv
<1>3. ASSUME NEW q \in Recoverers PROVE RunInv(run'[q])
  <2>1. run'[q] = IF q = r THEN t ELSE run[q] BY <1>1 DEF IInv
  <2>2. RunInv(run[q]) BY DEF IInv
  <2>3. QED BY <1>1, <2>1, <2>2
<1>4. InRecovery'
  <2>1. \A q \in Recoverers : run'[q] = IF q = r THEN t ELSE run[q] BY <1>1 DEF IInv
  <2>2. QED BY <1>1, <2>1 DEF InRecovery, IInv
<1>5. Reports'
  <2>1. ASSUME NEW n \in Missions, ExecutedOnce(n)' PROVE Report(n)'
    BY <1>1, <2>1, MovesReport, OthersReport
  <2>2. QED BY <2>1 DEF Reports
<1>6. CancelIsHonoured
  <2>1. ASSUME NEW q \in Recoverers, NEW n \in cancelled,
               run[q].outcome = NoResult, run'[q].mission = n
        PROVE  \/ run'[q].outcome.verdict \in {"none", "UNVERIFIED"}
               \/ run[q].pc = "discovery" /\ run'[q].outcome.verdict = "FAIL"
    <3>1. run'[q] = IF q = r THEN t ELSE run[q] BY <1>1 DEF IInv
    <3>2. CASE q # r BY <2>1, <3>1, <3>2 DEF NoResult
    <3>3. CASE q = r
      <4>1. n = m /\ run'[q] = t BY <1>1, <2>1, <3>1, <3>3
      <4>2. \/ t.outcome = NoResult \/ t.outcome.verdict = "UNVERIFIED"
            \/ run[r].pc = "discovery" /\ t.outcome.verdict = "FAIL"
        BY <1>1, <2>1, <4>1 DEF Told
      <4>3. QED BY <3>3, <4>1, <4>2 DEF NoResult
    <3>4. QED BY <3>2, <3>3
  <2>2. QED BY <2>1 DEF CancelIsHonoured
<1>7. QED BY <1>2, <1>3, <1>4, <1>5, <1>6 DEF IInv, Moves

LEMMA SettleMoves ==
  ASSUME StoreTypes, UNCHANGED <<cancelled, late>>, NEW r \in Recoverers,
         NEW s, Local(s), s.mission \in Missions, NEW status \in Terminal \ {"REJECTED"},
         status \in {"CANCELLED", "FAILED"} \/ run[r].pc # "idle",
         NEW verdict \in {"PASS", "FAIL", "UNVERIFIED"},
         \/ s.mission \in cancelled => verdict = "UNVERIFIED"
         \/ run[r].pc = "discovery" /\ verdict = "FAIL",
         verdict = "PASS" => Earned(s), Settle(r, s, status, verdict)
  PROVE  Moves(r, s.mission)
<1> DEFINE outcome == [status |-> status, verdict |-> verdict]
           t == [s EXCEPT !.pc = "over", !.outcome = outcome]
<1>1. outcome \in Outcomes BY DEF Outcomes, Verdicts
<1>2. t \in Runs BY <1>1 DEF Local, Runs
<1>3. RunInv(t)
  <2>1. /\ t.pc = "over" /\ t.outcome.verdict = verdict
        /\ t.plan = s.plan /\ t.step = s.step /\ t.done = s.done /\ t.failed = s.failed
        /\ t.reality = s.reality /\ t.delegations = s.delegations
        /\ t.recoveries = s.recoveries
    BY DEF Local, Runs
  <2>2. Local(t) BY <1>2, <2>1 DEF Local
  <2>3. verdict = "PASS" => Earned(t) BY <2>1 DEF Earned
  <2>4. QED BY <2>1, <2>2, <2>3 DEF RunInv
<1>4. run' = [run EXCEPT ![r] = t] /\ t.pc # "recovery"
  BY DEF Settle, Local, Runs
<1>5. StoreTypes'
  <2>1. life' \in [Missions -> Lives] BY DEF StoreTypes, Settle, Lives
  <2>2. results' = [results EXCEPT ![s.mission] = outcome] BY DEF Settle
  <2>3. /\ results' \in [Missions -> Outcomes]
        /\ \A m \in Missions : results'[m] = NoResult \/ results'[m].status \in Terminal
    BY <1>1, <2>2 DEF StoreTypes
  <2>4. QED BY <2>1, <2>3 DEF StoreTypes
<1>6. t.mission = s.mission /\ t.outcome = outcome /\ t.pc = "over"
  BY DEF Local, Runs
<1>7. Told(r, s.mission, t)
  <2>1. /\ results' = [results EXCEPT ![s.mission] = outcome]
        /\ life' = [life EXCEPT ![s.mission] = IF MayBecome(s.mission, status) THEN status ELSE @]
        /\ outcome.status = status /\ outcome.verdict = verdict
    BY DEF Settle
  <2> HIDE DEF t, outcome
  <2>2. QED BY <1>6, <2>1, Zenon DEF Told
<1>8. QED BY <1>2, <1>3, <1>4, <1>5, <1>6, <1>7 DEF Moves

LEMMA RaiseMoves ==
  ASSUME StoreTypes, UNCHANGED <<cancelled, late>>, NEW r \in Recoverers,
         NEW s, Local(s), s.outcome = NoResult, Raise(r, s),
         \/ ~MayBecome(s.mission, "DISCOVERING") /\ ~MayBecome(s.mission, "FAILED")
         \/ /\ run[r].pc = "discovery"
            /\ ~MayBecome(s.mission, "FAILED") \/ ~MayBecome(s.mission, "EXECUTING")
  PROVE  Moves(r, s.mission)
<1> DEFINE t == [s EXCEPT !.pc = "raised"]
<1>1. t \in Runs BY DEF Local, Runs
<1>2. /\ t.pc = "raised" /\ t.outcome = NoResult /\ t.mission = s.mission
      /\ t.plan = s.plan /\ t.step = s.step /\ t.done = s.done
      /\ t.reality = s.reality /\ t.delegations = s.delegations
      /\ t.recoveries = s.recoveries
  BY DEF Local, Runs
<1>3. Local(t) BY <1>1, <1>2 DEF Local
<1>4. RunInv(t) BY <1>2, <1>3 DEF RunInv, NoResult
<1>5. StoreTypes' BY DEF StoreTypes, Raise
<1>6. Told(r, s.mission, t) BY <1>2 DEF Told, Raise
<1>7. QED BY <1>1, <1>2, <1>4, <1>5, <1>6 DEF Moves, Raise

(* A verdict: PASS is reached only by a run whose last step did not fail.          *)
LEMMA ConcludeMoves ==
  ASSUME StoreTypes, UNCHANGED <<cancelled, late>>, NEW r \in Recoverers,
         NEW s, Local(s), s.mission \in Missions, ~s.failed => s.done = 1 .. s.step - 1,
         run[r].pc # "idle", NEW timedOut \in BOOLEAN, Conclude(r, s, timedOut)
  PROVE  Moves(r, s.mission)
<1>1. \/ Settle(r, s, "TIMED_OUT", "UNVERIFIED") \/ Settle(r, s, "CANCELLED", "UNVERIFIED")
      \/ s.mission \notin cancelled /\ Settle(r, s, "FAILED", "FAIL")
      \/ Settle(r, s, "UNVERIFIED", "UNVERIFIED")
      \/ /\ s.mission \notin cancelled /\ ~s.failed /\ s.done # {} /\ ~RealityMissing(s)
         /\ Settle(r, s, "COMPLETED", "PASS")
  BY DEF Conclude
<1>2. ASSUME ~s.failed, s.done # {}, ~RealityMissing(s) PROVE Earned(s)
  BY <1>2 DEF Earned, RealityMissing, Local
<1>3. {"TIMED_OUT", "CANCELLED", "FAILED", "UNVERIFIED", "COMPLETED"}
        \subseteq Terminal \ {"REJECTED"}
  BY DEF Terminal
<1>4. QED BY <1>1, <1>2, <1>3, SettleMoves

LEMMA ProceedMoves ==
  ASSUME StoreTypes, UNCHANGED <<cancelled, late>>, NEW r \in Recoverers,
         NEW s, Running(s), ~s.failed, run[r].pc # "idle", Proceed(r, s)
  PROVE  Moves(r, s.mission)
<1>1. Local(s) /\ s.mission \in Missions /\ (~s.failed => s.done = 1 .. s.step - 1)
  BY DEF Running
<1>2. CASE Settle(r, s, "CANCELLED", "UNVERIFIED")
  BY <1>1, <1>2, SettleMoves DEF Terminal
<1>3. CASE Conclude(r, s, TRUE) \/ Conclude(r, s, FALSE)
  BY <1>1, <1>3, ConcludeMoves
<1>4. CASE /\ s.step <= Len(s.plan) /\ ~OutOfBudget(s)
           /\ run' = [run EXCEPT ![r] = [s EXCEPT !.pc = "step", !.delegations = @ + 1]]
           /\ life' = [life EXCEPT ![s.mission] = IF @ = "DISCOVERING" THEN "EXECUTING" ELSE @]
           /\ UNCHANGED results
  <2> DEFINE t == [s EXCEPT !.pc = "step", !.delegations = @ + 1]
  <2>1. /\ s \in Runs /\ s.delegations \in Nat /\ s.delegations < MaxDelegations
    BY <1>1, <1>4, MissionAssumption DEF Local, Runs, OutOfBudget
  <2>2. t \in Runs
    <3>1. s.delegations + 1 \in Nat BY <2>1
    <3>2. QED BY <2>1, <3>1 DEF Runs
  <2>3. /\ t.pc = "step" /\ t.outcome = s.outcome /\ t.mission = s.mission
        /\ t.plan = s.plan /\ t.step = s.step /\ t.done = s.done /\ t.failed = s.failed
        /\ t.reality = s.reality /\ t.delegations = s.delegations + 1
        /\ t.recoveries = s.recoveries
    BY <2>1 DEF Runs
  <2>4. t.delegations <= MaxDelegations BY <2>1, <2>3, MissionAssumption
  <2> HIDE DEF t
  <2>5. Local(t) /\ Running(t)
    BY <1>1, <2>2, <2>3, <2>4 DEF Local, Running
  <2>6. RunInv(t) BY <1>4, <2>3, <2>5 DEF RunInv, Running, NoResult
  <2>7. StoreTypes' BY <1>4 DEF StoreTypes, Lives
  <2>8. Told(r, s.mission, t)
    BY <1>1, <1>4, <2>3 DEF Told, Running
  <2>9. QED BY <1>4, <2>2, <2>3, <2>6, <2>7, <2>8 DEF Moves, t
<1>5. QED BY <1>2, <1>3, <1>4 DEF Proceed

--------------------------------------------------------------------------------
(* The actions.                                                                    *)

(* The breaker keeps its types whatever a run makes it do.                         *)
LEMMA EngineTypes ==
  ASSUME EngineTypeOK, NEW r \in Recoverers,
         \/ UNCHANGED engineVars
         \/ PassBreaker /\ UNCHANGED <<clock, recovering>>
         \/ BeginRecovery(r) \/ RecordSuccess(r) \/ RecordFailure(r) \/ Tick
  PROVE  EngineTypeOK'
  BY DEF EngineTypeOK, engineVars, breakerVars, PassBreaker, BeginRecovery, RecordSuccess,
         RecordFailure, Tick

(* A run outside a recovery that leaves the recoveries as they are.                *)
LEMMA MovesOutside ==
  ASSUME IInv, NEW r \in Recoverers, run[r].pc # "recovery", NEW m \in Missions, Of(r, m),
         Moves(r, m), EngineTypeOK', UNCHANGED recovering
  PROVE  IInv' /\ CancelIsHonoured
  BY MovesInv DEF IInv, InRecovery

LEMMA BeginInv ==
  ASSUME IInv, NEW r \in Recoverers, NEW m \in Missions, Begin(r, m)
  PROVE  IInv' /\ CancelIsHonoured
<1>0. PICK s : s = [Idle EXCEPT !.mission = m]
  OBVIOUS
<1>1. StoreTypes /\ run[r].pc = "idle" BY DEF IInv, Begin
<1>2. s.mission = m /\ s.outcome = NoResult /\ ~s.failed /\ s.pc = "idle" /\ s.step = 1
      /\ s.delegations = 0 /\ s.done = {}
  BY <1>0 DEF Idle
<1>3. Local(s)
  <2>1. /\ s = [ pc |-> "idle", mission |-> m, plan |-> << >>, step |-> 1, done |-> {},
                 failed |-> FALSE, reality |-> FALSE, actions |-> 0, delegations |-> 0,
                 recoveries |-> 0, outcome |-> NoResult ]
    BY <1>0 DEF Idle
  <2>2. NoResult \in Outcomes BY DEF NoResult, Outcomes, Verdicts
  <2>3. << >> \in Seq(Roles) /\ Len(<< >>) = 0 OBVIOUS
  <2>4. s \in Runs BY <2>1, <2>2, <2>3 DEF Runs
  <2>5. s.plan = << >> /\ s.reality = FALSE /\ s.recoveries = 0 /\ s.delegations = 0
    BY <2>1
  <2>6. QED BY <1>2, <2>3, <2>4, <2>5, MissionAssumption DEF Local
<1>4. Running(s)
  <2>1. s.done = 1 .. s.step - 1 BY <1>2
  <2>2. QED BY <1>2, <1>3, <2>1 DEF Running
<1>5. ASSUME Settle(r, s, "CANCELLED", "UNVERIFIED") PROVE Moves(r, m)
  BY <1>1, <1>2, <1>3, <1>5, SettleMoves DEF Begin, Terminal
<1>6. ASSUME run' = [run EXCEPT ![r] = [s EXCEPT !.pc = "discovery"]],
             life' = [life EXCEPT ![m] = "DISCOVERING"], UNCHANGED results
      PROVE  Moves(r, m)
  <2> DEFINE t == [s EXCEPT !.pc = "discovery"]
  <2>1. t \in Runs BY <1>3 DEF Local, Runs
  <2>2. /\ t.pc = "discovery" /\ t.outcome = s.outcome /\ t.mission = s.mission
        /\ t.plan = s.plan /\ t.step = s.step /\ t.done = s.done /\ t.failed = s.failed
        /\ t.reality = s.reality /\ t.delegations = s.delegations
        /\ t.recoveries = s.recoveries
    BY <1>3 DEF Local, Runs
  <2> HIDE DEF t
  <2>3. Local(t) /\ Running(t) BY <1>3, <1>4, <2>1, <2>2 DEF Local, Running
  <2>4. RunInv(t) BY <1>2, <2>2, <2>3 DEF RunInv, Running, NoResult
  <2>5. StoreTypes' BY <1>1, <1>6 DEF StoreTypes, Lives, Begin
  <2>6. Told(r, m, t) BY <1>1, <1>2, <1>6, <2>2 DEF Told
  <2>7. cancelled' = cancelled BY DEF Begin
  <2>8. QED BY <1>2, <1>6, <2>1, <2>2, <2>4, <2>5, <2>6, <2>7 DEF Moves, t
<1>7. ASSUME m \notin cancelled, ~MayBecome(m, "DISCOVERING"), FailOrRaise(r, s)
      PROVE  Moves(r, m)
  BY <1>1, <1>2, <1>3, <1>7, SettleMoves, RaiseMoves DEF Begin, FailOrRaise, Terminal
<1>8. Moves(r, m)
  <2>1. \/ Settle(r, s, "CANCELLED", "UNVERIFIED")
        \/ /\ run' = [run EXCEPT ![r] = [s EXCEPT !.pc = "discovery"]]
           /\ life' = [life EXCEPT ![m] = "DISCOVERING"]
           /\ UNCHANGED results
        \/ m \notin cancelled /\ ~MayBecome(m, "DISCOVERING") /\ FailOrRaise(r, s)
    BY <1>0, Zenon DEF Begin
  <2>2. QED BY <1>5, <1>6, <1>7, <2>1
<1>9. UNCHANGED engineVars BY DEF Begin
<1>10. EngineTypeOK' /\ UNCHANGED recovering
  <2>1. EngineTypeOK' BY <1>9, EngineTypes DEF IInv
  <2>2. QED BY <1>9, <2>1 DEF engineVars
<1>11. Of(r, m)
  <2>1. run[r] = Idle BY <1>1 DEF IInv, RunInv
  <2>2. QED BY <2>1 DEF Of, Begin
<1>12. QED BY <1>1, <1>8, <1>10, <1>11, MovesOutside

LEMMA DiscoveredInv ==
  ASSUME IInv, NEW r \in Recoverers, Discovered(r)
  PROVE  IInv' /\ CancelIsHonoured
<1>0. PICK s : s = run[r]
  OBVIOUS
<1>1. StoreTypes /\ UNCHANGED <<cancelled, late>> BY DEF IInv, Discovered
<1>2. /\ s.pc = "discovery" /\ Local(s) /\ Running(s) /\ s.step = 1 /\ ~s.failed
      /\ s.mission \in Missions /\ s.outcome = NoResult
  BY <1>0 DEF IInv, Discovered, RunInv, Running
<1>3. ASSUME \/ Settle(r, s, "COMPLETED", "UNVERIFIED")
             \/ Settle(r, s, "CANCELLED", "UNVERIFIED")
      PROVE  Moves(r, s.mission)
  BY <1>0, <1>1, <1>2, <1>3, SettleMoves DEF Terminal
<1>4. ASSUME Raise(r, s), ~MayBecome(s.mission, "FAILED") \/ ~MayBecome(s.mission, "EXECUTING")
      PROVE  Moves(r, s.mission)
  BY <1>0, <1>1, <1>2, <1>4, RaiseMoves
<1>5. ASSUME NEW found \in 1 .. MaxCandidates, Proceed(r, [s EXCEPT !.plan = Plan(found)])
      PROVE  Moves(r, s.mission)
  <2>0. PICK t : t = [s EXCEPT !.plan = Plan(found)] /\ Proceed(r, t)
    BY <1>5
  <2>1. found \in Nat BY MissionAssumption
  <2>2. Plan(found) \in Seq(Roles) /\ Len(Plan(found)) <= MaxDelegations /\ Len(Plan(found)) \in Nat
    BY <2>1, PlanInBudget
  <2>3. t \in Runs BY <1>2, <2>0, <2>2 DEF Local, Runs
  <2>4. /\ t.outcome = s.outcome /\ t.mission = s.mission
        /\ t.plan = Plan(found) /\ t.step = s.step /\ t.done = s.done /\ t.failed = s.failed
        /\ t.reality = s.reality /\ t.delegations = s.delegations
        /\ t.recoveries = s.recoveries
    BY <1>2, <2>0 DEF Local, Runs
  <2>5. s.done = {} /\ ~s.reality BY <1>2 DEF Running, Local, Runs
  <2>6. Running(t) BY <1>2, <2>2, <2>3, <2>4, <2>5 DEF Local, Running
  <2>7. QED BY <1>0, <1>1, <1>2, <2>0, <2>4, <2>6, ProceedMoves
<1>6. ASSUME FailOrRaise(r, s)
      PROVE  Moves(r, s.mission)
  <2>1. CASE Settle(r, s, "FAILED", "FAIL")
    BY <1>0, <1>1, <1>2, <2>1, SettleMoves DEF Terminal
  <2>2. CASE Raise(r, s) /\ ~MayBecome(s.mission, "FAILED")
    BY <1>0, <1>1, <1>2, <2>2, RaiseMoves
  <2>3. QED BY <1>6, <2>1, <2>2 DEF FailOrRaise
<1>7. Moves(r, s.mission)
  <2>1. \/ Settle(r, s, "COMPLETED", "UNVERIFIED") \/ Settle(r, s, "CANCELLED", "UNVERIFIED")
        \/ FailOrRaise(r, s)
        \/ ~MayBecome(s.mission, "EXECUTING") /\ Raise(r, s)
        \/ \E found \in 1 .. MaxCandidates : Proceed(r, [s EXCEPT !.plan = Plan(found)])
    BY <1>0, Zenon DEF Discovered
  <2>2. QED BY <1>3, <1>4, <1>5, <1>6, <2>1
<1>8. EngineTypeOK' /\ UNCHANGED recovering
  <2>1. UNCHANGED engineVars BY DEF Discovered
  <2>2. EngineTypeOK' BY <2>1, EngineTypes DEF IInv
  <2>3. QED BY <2>1, <2>2 DEF engineVars
<1>9. Of(r, s.mission) BY <1>0, <1>2 DEF Of
<1>10. QED BY <1>0, <1>2, <1>7, <1>8, <1>9, MovesOutside

(* A completed step leaves a run that may go on: u is s with what the step counted *)
(* and what an inspector reported.                                                 *)
SameRun(u, s) ==
  /\ u \in Runs
  /\ u.outcome = s.outcome /\ u.mission = s.mission /\ u.plan = s.plan
  /\ u.step = s.step /\ u.done = s.done
  /\ u.delegations <= MaxDelegations /\ u.recoveries <= MaxRecoveries

LEMMA CompletedRunning ==
  ASSUME NEW s, Running(s), s.step <= Len(s.plan), NEW u, SameRun(u, s),
         u.reality => s.reality \/ s.plan[s.step] = "REALITY_INSPECTOR",
         NEW t, t = Completed(u)
  PROVE  Running(t) /\ ~t.failed /\ t.mission = s.mission
<1>1. Local(s) /\ s \in Runs /\ u \in Runs BY DEF Running, Local, SameRun
<1>2. /\ s.step \in Nat \ {0} /\ s.step + 1 \in Nat \ {0} /\ Len(s.plan) \in Nat
      /\ u.step = s.step /\ u.done = s.done /\ u.plan = s.plan
  BY <1>1 DEF Runs, SameRun
<1>3. u.done \cup {u.step} \in SUBSET Nat BY <1>1, <1>2 DEF Runs
<1>4. t \in Runs BY <1>1, <1>2, <1>3 DEF Runs, Completed
<1>5. /\ t.outcome = s.outcome /\ t.mission = s.mission
      /\ t.plan = s.plan /\ t.step = s.step + 1 /\ t.done = s.done \cup {s.step}
      /\ t.failed = FALSE /\ t.reality = u.reality /\ t.delegations = u.delegations
      /\ t.recoveries = u.recoveries
  BY <1>1 DEF Runs, Completed, SameRun
<1>6. t.done = 1 .. t.step - 1 BY <1>2, <1>5 DEF Running
<1>7. t.done \subseteq 1 .. Len(t.plan) /\ t.step <= Len(t.plan) + 1
  BY <1>1, <1>2, <1>5 DEF Local
<1>8. t.reality => \E i \in t.done : t.plan[i] = "REALITY_INSPECTOR"
  BY <1>1, <1>5 DEF Local
<1>9. Local(t) BY <1>1, <1>4, <1>5, <1>7, <1>8 DEF Local, SameRun
<1>10. QED BY <1>5, <1>6, <1>9 DEF Running

LEMMA StepSucceedsInv ==
  ASSUME IInv, NEW r \in Recoverers, StepSucceeds(r)
  PROVE  IInv' /\ CancelIsHonoured
<1>0. PICK s : s = run[r]
  OBVIOUS
<1>1. StoreTypes /\ UNCHANGED <<cancelled, late>> BY DEF IInv, StepSucceeds
<1>2. /\ s.pc = "step" /\ Local(s) /\ Running(s) /\ s.step <= Len(s.plan) /\ s \in Runs
      /\ s.delegations <= MaxDelegations /\ s.recoveries <= MaxRecoveries
      /\ s.mission \in Missions
  BY <1>0 DEF IInv, StepSucceeds, RunInv, Local, Running
<1>3. SameRun(s, s) BY <1>2 DEF SameRun
<1>4. ASSUME NEW tools \in 1 .. MaxTools, Proceed(r, Completed([s EXCEPT !.actions = @ + tools]))
      PROVE  Moves(r, s.mission)
  <2>1. PICK u : u = [s EXCEPT !.actions = @ + tools] /\ Proceed(r, Completed(u)) BY <1>4
  <2>2. PICK t : t = Completed(u) /\ Proceed(r, t) BY <2>1
  <2>3. s.actions + tools \in Nat BY <1>2, MissionAssumption DEF Runs
  <2>4. SameRun(u, s) /\ u.reality = s.reality BY <1>2, <2>1, <2>3 DEF Runs, SameRun
  <2>5. Running(t) /\ ~t.failed /\ t.mission = s.mission BY <1>2, <2>2, <2>4, CompletedRunning
  <2>6. QED BY <1>0, <1>1, <1>2, <2>2, <2>5, ProceedMoves
<1>5. ASSUME s.plan[s.step] = "REALITY_INSPECTOR", NEW real \in BOOLEAN,
             Proceed(r, Completed([s EXCEPT !.reality = real]))
      PROVE  Moves(r, s.mission)
  <2>1. PICK u : u = [s EXCEPT !.reality = real] /\ Proceed(r, Completed(u)) BY <1>5
  <2>2. PICK t : t = Completed(u) /\ Proceed(r, t) BY <2>1
  <2>3. SameRun(u, s) BY <1>2, <2>1 DEF Runs, SameRun
  <2>4. Running(t) /\ ~t.failed /\ t.mission = s.mission
    BY <1>2, <1>5, <2>2, <2>3, CompletedRunning
  <2>5. QED BY <1>0, <1>1, <1>2, <2>2, <2>4, ProceedMoves
<1>6. ASSUME Proceed(r, Completed(s)) PROVE Moves(r, s.mission)
  <2>1. PICK t : t = Completed(s) /\ Proceed(r, t) BY <1>6
  <2>2. Running(t) /\ ~t.failed /\ t.mission = s.mission BY <1>2, <1>3, <2>1, CompletedRunning
  <2>3. QED BY <1>0, <1>1, <1>2, <2>1, <2>2, ProceedMoves
<1>7. Moves(r, s.mission)
  <2>1. \/ \E tools \in 1 .. MaxTools : Proceed(r, Completed([s EXCEPT !.actions = @ + tools]))
        \/ /\ s.plan[s.step] = "REALITY_INSPECTOR"
           /\ \E real \in BOOLEAN : Proceed(r, Completed([s EXCEPT !.reality = real]))
        \/ Proceed(r, Completed(s))
    BY <1>0, Zenon DEF StepSucceeds
  <2>2. QED BY <1>4, <1>5, <1>6, <2>1
<1>8. EngineTypeOK' /\ UNCHANGED recovering
  <2>1. UNCHANGED engineVars BY DEF StepSucceeds
  <2>2. EngineTypeOK' BY <2>1, EngineTypes DEF IInv
  <2>3. QED BY <2>1, <2>2 DEF engineVars
<1>9. Of(r, s.mission) BY <1>0, <1>2 DEF Of
<1>10. QED BY <1>0, <1>2, <1>7, <1>8, <1>9, MovesOutside

(* A run enters a recovery.                                                        *)
LEMMA RecoveryBegins ==
  ASSUME IInv, NEW r \in Recoverers, NEW f, Running(f), f.failed, f.step <= Len(f.plan),
         f.recoveries < MaxRecoveries, BeginRecovery(r),
         run[r].pc = "step", run[r].mission = f.mission,
         run' = [run EXCEPT ![r] = [f EXCEPT !.pc = "recovery"]],
         UNCHANGED <<life, cancelled, results, late>>
  PROVE  IInv' /\ CancelIsHonoured
<1>1. PICK t : t = [f EXCEPT !.pc = "recovery"] OBVIOUS
<1>2. Local(f) /\ f \in Runs BY DEF Running, Local
<1>3. t \in Runs BY <1>1, <1>2 DEF Runs
<1>4. /\ t.pc = "recovery" /\ t.outcome = f.outcome /\ t.mission = f.mission
      /\ t.plan = f.plan /\ t.step = f.step /\ t.done = f.done /\ t.failed = f.failed
      /\ t.reality = f.reality /\ t.delegations = f.delegations
      /\ t.recoveries = f.recoveries
  BY <1>1, <1>2 DEF Runs
<1>5. Local(t) /\ Running(t) BY <1>2, <1>3, <1>4 DEF Local, Running
<1>6. RunInv(t) BY <1>4, <1>5 DEF RunInv, Running, NoResult
<1>7. \A q \in Recoverers : run'[q] = IF q = r THEN t ELSE run[q] BY <1>1 DEF IInv
<1>8. run' \in [Recoverers -> Runs] BY <1>1, <1>3 DEF IInv
<1>9. \A q \in Recoverers : RunInv(run'[q]) BY <1>6, <1>7 DEF IInv
<1>10. StoreTypes' BY DEF IInv, StoreTypes
<1>11. recovering' = recovering \cup {r} BY DEF BeginRecovery
<1>12. InRecovery' BY <1>4, <1>7, <1>11 DEF IInv, InRecovery
<1>13. EngineTypeOK' BY EngineTypes DEF IInv
<1>14. Reports'
  <2>1. \A q \in Recoverers : run'[q].mission = run[q].mission BY <1>4, <1>7
  <2>2. \A q \in Recoverers : \/ run'[q].pc = run[q].pc
                              \/ run[q].pc = "step" /\ run'[q].pc = "recovery"
    <3>1. ASSUME NEW q \in Recoverers, q # r PROVE run'[q].pc = run[q].pc BY <1>7, <3>1
    <3>2. run[r].pc = "step" /\ run'[r].pc = "recovery" BY <1>4, <1>7
    <3>3. QED BY <3>1, <3>2
  <2>3. ASSUME NEW m \in Missions, ExecutedOnce(m)' PROVE Report(m)'
    <3>1. ExecutedOnce(m) BY <2>1, <2>3 DEF ExecutedOnce
    <3>2. Report(m) BY <3>1 DEF IInv, Reports
    <3>3. QED BY <2>1, <2>2, <3>2 DEF Report
  <2>4. QED BY <2>3 DEF Reports
<1>15. CancelIsHonoured
  BY <1>4, <1>5, <1>7 DEF CancelIsHonoured, Running, NoResult
<1>16. QED BY <1>8, <1>9, <1>10, <1>12, <1>13, <1>14, <1>15 DEF IInv

LEMMA StepFailsInv ==
  ASSUME IInv, NEW r \in Recoverers, StepFails(r)
  PROVE  IInv' /\ CancelIsHonoured
<1>0. PICK s : s = run[r]
  OBVIOUS
<1>1. StoreTypes /\ UNCHANGED <<cancelled, late>> BY DEF IInv, StepFails
<1>2. /\ s.pc = "step" /\ Local(s) /\ Running(s) /\ s.step <= Len(s.plan) /\ s \in Runs
      /\ s.mission \in Missions
  BY <1>0 DEF IInv, StepFails, RunInv, Local, Running
<1>3. PICK used \in 0 .. MaxTools :
        LET f == [s EXCEPT !.failed = TRUE, !.actions = @ + used] IN
        \/ Conclude(r, f, FALSE) /\ UNCHANGED engineVars
        \/ PassBreaker /\ UNCHANGED <<clock, recovering>> /\ Conclude(r, f, FALSE)
        \/ /\ f.recoveries < MaxRecoveries /\ BeginRecovery(r)
           /\ run' = [run EXCEPT ![r] = [f EXCEPT !.pc = "recovery"]]
           /\ UNCHANGED <<life, results>>
  <2>1. \A n : n \in 1 .. MaxTools \/ n \in {0} => n \in 0 .. MaxTools BY MissionAssumption
  <2>2. QED BY <1>0, <2>1, Zenon DEF StepFails
<1>4. PICK f : f = [s EXCEPT !.failed = TRUE, !.actions = @ + used] OBVIOUS
<1>5. \/ Conclude(r, f, FALSE) /\ UNCHANGED engineVars
      \/ PassBreaker /\ UNCHANGED <<clock, recovering>> /\ Conclude(r, f, FALSE)
      \/ /\ f.recoveries < MaxRecoveries /\ BeginRecovery(r)
         /\ run' = [run EXCEPT ![r] = [f EXCEPT !.pc = "recovery"]]
         /\ UNCHANGED <<life, results>>
  BY <1>3, <1>4, Zenon
<1>6. s.actions + used \in Nat BY <1>2, MissionAssumption DEF Runs
<1>7. f \in Runs BY <1>2, <1>4, <1>6 DEF Runs
<1>8. /\ f.outcome = s.outcome /\ f.mission = s.mission
      /\ f.plan = s.plan /\ f.step = s.step /\ f.done = s.done /\ f.failed = TRUE
      /\ f.reality = s.reality /\ f.delegations = s.delegations
      /\ f.recoveries = s.recoveries
  BY <1>2, <1>4 DEF Runs
<1>9. Local(f) /\ Running(f) BY <1>2, <1>7, <1>8 DEF Local, Running
<1>10. ASSUME Conclude(r, f, FALSE) PROVE Moves(r, s.mission) /\ Of(r, s.mission)
  BY <1>0, <1>1, <1>2, <1>8, <1>9, <1>10, ConcludeMoves DEF Of
<1>11. CASE Conclude(r, f, FALSE) /\ UNCHANGED engineVars
  <2>1. EngineTypeOK' /\ UNCHANGED recovering BY <1>11, EngineTypes DEF IInv, engineVars
  <2>2. QED BY <1>0, <1>2, <1>10, <1>11, <2>1, MovesOutside
<1>12. CASE PassBreaker /\ UNCHANGED <<clock, recovering>> /\ Conclude(r, f, FALSE)
  <2>1. EngineTypeOK' BY <1>12, EngineTypes DEF IInv
  <2>2. QED BY <1>0, <1>2, <1>10, <1>12, <2>1, MovesOutside
<1>13. CASE /\ f.recoveries < MaxRecoveries /\ BeginRecovery(r)
            /\ run' = [run EXCEPT ![r] = [f EXCEPT !.pc = "recovery"]]
            /\ UNCHANGED <<life, results>>
  BY <1>0, <1>1, <1>2, <1>8, <1>9, <1>13, RecoveryBegins
<1>14. QED BY <1>5, <1>11, <1>12, <1>13

LEMMA RecoveryEndsInv ==
  ASSUME IInv, NEW r \in Recoverers, RecoveryEnds(r)
  PROVE  IInv' /\ CancelIsHonoured
<1>0. PICK s : s = [run[r] EXCEPT !.recoveries = @ + 1]
  OBVIOUS
<1>1. StoreTypes /\ UNCHANGED <<cancelled, late>> BY DEF IInv, RecoveryEnds
<1>2. RecordSuccess(r) \/ RecordFailure(r) BY DEF RecoveryEnds
<1>3. r \in recovering /\ recovering' = recovering \ {r} /\ EngineTypeOK'
  BY <1>2, EngineTypes DEF IInv, RecordSuccess, RecordFailure
<1>4. PICK q : q = run[r]
  OBVIOUS
<1>5. /\ q.pc = "recovery" /\ Local(q) /\ Running(q) /\ q.step <= Len(q.plan) /\ q \in Runs
      /\ q.recoveries < MaxRecoveries /\ q.recoveries \in Nat /\ q.mission \in Missions
  BY <1>3, <1>4 DEF IInv, InRecovery, RunInv, Local, Running, Runs
<1>6. q.recoveries + 1 \in Nat /\ q.recoveries + 1 <= MaxRecoveries
  BY <1>5, MissionAssumption
<1>7. s \in Runs BY <1>0, <1>4, <1>5, <1>6 DEF Runs
<1>8. /\ s.outcome = q.outcome /\ s.mission = q.mission
      /\ s.plan = q.plan /\ s.step = q.step /\ s.done = q.done /\ s.failed = q.failed
      /\ s.reality = q.reality /\ s.delegations = q.delegations
      /\ s.recoveries = q.recoveries + 1
  BY <1>0, <1>4, <1>5 DEF Runs
<1>9. Local(s) /\ Running(s) BY <1>5, <1>6, <1>7, <1>8 DEF Local, Running
<1>10. ASSUME Conclude(r, s, FALSE) PROVE Moves(r, s.mission)
  BY <1>1, <1>4, <1>5, <1>8, <1>9, <1>10, ConcludeMoves DEF Running
<1>11. ASSUME s.delegations < MaxDelegations,
              run' = [run EXCEPT ![r] = [s EXCEPT !.pc = "retry", !.delegations = @ + 1]],
              UNCHANGED <<life, results>>
       PROVE  Moves(r, s.mission)
  <2>1. PICK t : t = [s EXCEPT !.pc = "retry", !.delegations = @ + 1] OBVIOUS
  <2>2. s.delegations + 1 \in Nat /\ s.delegations + 1 <= MaxDelegations
    BY <1>7, <1>11, MissionAssumption DEF Runs
  <2>3. t \in Runs BY <1>7, <2>1, <2>2 DEF Runs
  <2>4. /\ t.pc = "retry" /\ t.outcome = s.outcome /\ t.mission = s.mission
        /\ t.plan = s.plan /\ t.step = s.step /\ t.done = s.done
        /\ t.reality = s.reality /\ t.delegations = s.delegations + 1
        /\ t.recoveries = s.recoveries
    BY <1>7, <2>1 DEF Runs
  <2>5. Local(t) /\ Running(t) BY <1>9, <2>2, <2>3, <2>4 DEF Local, Running
  <2>6. RunInv(t) BY <1>5, <1>8, <2>4, <2>5 DEF RunInv, Running, NoResult
  <2>7. StoreTypes' BY <1>1, <1>11 DEF StoreTypes
  <2>8. Told(r, s.mission, t) BY <1>4, <1>5, <1>9, <1>11, <2>4 DEF Told, Running
  <2>9. QED BY <1>1, <1>11, <2>1, <2>3, <2>4, <2>6, <2>7, <2>8 DEF Moves
<1>12. Moves(r, s.mission)
  <2>1. \/ /\ s.delegations < MaxDelegations
           /\ run' = [run EXCEPT ![r] = [s EXCEPT !.pc = "retry", !.delegations = @ + 1]]
           /\ UNCHANGED <<life, results>>
        \/ Conclude(r, s, FALSE)
    BY <1>0, Zenon DEF RecoveryEnds
  <2>2. QED BY <1>10, <1>11, <2>1
<1>13. Of(r, s.mission) BY <1>4, <1>5, <1>8 DEF Of
<1>14. QED BY <1>3, <1>5, <1>8, <1>12, <1>13, MovesInv

LEMMA RetriedInv ==
  ASSUME IInv, NEW r \in Recoverers, Retried(r)
  PROVE  IInv' /\ CancelIsHonoured
<1>0. PICK s : s = run[r]
  OBVIOUS
<1>1. StoreTypes /\ UNCHANGED <<cancelled, late>> BY DEF IInv, Retried
<1>2. /\ s.pc = "retry" /\ Local(s) /\ Running(s) /\ s.step <= Len(s.plan) /\ s \in Runs
      /\ s.delegations <= MaxDelegations /\ s.recoveries <= MaxRecoveries
      /\ s.mission \in Missions /\ s.done = 1 .. s.step - 1
  BY <1>0 DEF IInv, Retried, RunInv, Local, Running
<1>3. ASSUME Conclude(r, s, FALSE) PROVE Moves(r, s.mission)
  BY <1>0, <1>1, <1>2, <1>3, ConcludeMoves
<1>4. ASSUME Proceed(r, Completed(s)) PROVE Moves(r, s.mission)
  <2>1. PICK t : t = Completed(s) /\ Proceed(r, t) BY <1>4
  <2>2. SameRun(s, s) BY <1>2 DEF SameRun
  <2>3. Running(t) /\ ~t.failed /\ t.mission = s.mission BY <1>2, <2>1, <2>2, CompletedRunning
  <2>4. QED BY <1>0, <1>1, <1>2, <2>1, <2>3, ProceedMoves
<1>5. Moves(r, s.mission)
  <2>1. Proceed(r, Completed(s)) \/ Conclude(r, s, FALSE) BY <1>0, Zenon DEF Retried
  <2>2. QED BY <1>3, <1>4, <2>1
<1>6. EngineTypeOK' /\ UNCHANGED recovering
  <2>1. UNCHANGED engineVars BY DEF Retried
  <2>2. EngineTypeOK' BY <2>1, EngineTypes DEF IInv
  <2>3. QED BY <2>1, <2>2 DEF engineVars
<1>7. Of(r, s.mission) BY <1>0, <1>2 DEF Of
<1>8. QED BY <1>0, <1>2, <1>5, <1>6, <1>7, MovesOutside

(* The steps that leave every run where it is.                                     *)
LEMMA OtherInv ==
  ASSUME IInv, UNCHANGED <<run, recovering, results>>, StoreTypes', EngineTypeOK',
         \A m \in Missions :
           life'[m] = life[m] \/ (life[m] = "CREATED" /\ life'[m] \in {"ADMITTED", "REJECTED"})
  PROVE  IInv' /\ CancelIsHonoured
<1>1. Reports'
  <2>1. ASSUME NEW m \in Missions, ExecutedOnce(m)' PROVE Report(m)'
    <3>1. Report(m) BY <2>1 DEF IInv, Reports, ExecutedOnce
    <3>2. ASSUME NEW r \in Recoverers, run[r].mission = m, life[m] = "CREATED" PROVE FALSE
      <4>1. run[r].pc \in {"idle", "over"}
        BY <3>1, <3>2 DEF IInv, Runs, Report
      <4>2. run[r].pc # "idle" BY <3>2, MissionAssumption DEF IInv, RunInv, Idle
      <4>3. results[m] = NoResult \/ results[m].status \in Terminal BY DEF IInv, StoreTypes
      <4>4. QED BY <3>1, <3>2, <4>1, <4>2, <4>3 DEF Report, NoResult, Terminal
    <3>3. QED BY <3>1, <3>2 DEF Report
  <2>2. QED BY <2>1 DEF Reports
<1>2. CancelIsHonoured BY DEF CancelIsHonoured, NoResult
<1>3. QED BY <1>1, <1>2 DEF IInv, InRecovery

LEMMA NextInv == ASSUME IInv, [Next]_vars PROVE IInv' /\ CancelIsHonoured
<1>1. ASSUME NEW m \in Missions, Admit(m) \/ CancelMission(m) PROVE IInv' /\ CancelIsHonoured
  <2>1. StoreTypes' BY <1>1 DEF IInv, StoreTypes, Admit, CancelMission, Allowed, Lives, Terminal
  <2>2. EngineTypeOK' /\ UNCHANGED <<run, recovering, results>>
    BY <1>1 DEF IInv, Admit, CancelMission, engineVars, EngineTypeOK
  <2>3. \A n \in Missions :
          life'[n] = life[n] \/ (life[n] = "CREATED" /\ life'[n] \in {"ADMITTED", "REJECTED"})
    BY <1>1 DEF Admit, CancelMission, Allowed, IInv, StoreTypes
  <2>4. QED BY <2>1, <2>2, <2>3, OtherInv
<1>2. ASSUME NEW r \in Recoverers, DeadlinePasses(r) PROVE IInv' /\ CancelIsHonoured
  <2>1. StoreTypes' BY <1>2 DEF IInv, StoreTypes, DeadlinePasses
  <2>2. EngineTypeOK' /\ UNCHANGED <<run, recovering, results>>
    BY <1>2 DEF IInv, DeadlinePasses, engineVars, EngineTypeOK
  <2>3. QED BY <1>2, <2>1, <2>2, OtherInv DEF DeadlinePasses
<1>3. ASSUME NEW r \in Recoverers, Advance(r) PROVE IInv' /\ CancelIsHonoured
  BY <1>3, DiscoveredInv, StepSucceedsInv, StepFailsInv, RecoveryEndsInv, RetriedInv DEF Advance
<1>4. CASE Tick /\ UNCHANGED missionVars
  <2>1. StoreTypes' BY <1>4 DEF IInv, StoreTypes, missionVars
  <2>2. EngineTypeOK' /\ UNCHANGED <<run, recovering, results>>
    BY <1>4 DEF IInv, Tick, breakerVars, EngineTypeOK, missionVars
  <2>3. QED BY <1>4, <2>1, <2>2, OtherInv DEF missionVars
<1>5. CASE UNCHANGED vars
  <2>1. StoreTypes' BY <1>5 DEF IInv, StoreTypes, vars, missionVars
  <2>2. EngineTypeOK' /\ UNCHANGED <<run, recovering, results>>
    BY <1>5 DEF IInv, vars, missionVars, engineVars, EngineTypeOK
  <2>3. QED BY <1>5, <2>1, <2>2, OtherInv DEF vars, missionVars
<1>6. QED BY <1>1, <1>2, <1>3, <1>4, <1>5, BeginInv DEF Next

--------------------------------------------------------------------------------
(* The theorems.                                                                   *)
LEMMA InvHolds == Spec => []IInv
  BY InitInv, NextInv, PTL DEF Spec

(* Every run's locals, the stores and the breaker keep their types, and a plan     *)
(* never has more steps than its mission has delegations (run_mission,             *)
(* build_plan).                                                                    *)
THEOREM MissionTypes == Spec => []MissionTypeOK
<1>1. IInv => MissionTypeOK
  <2> SUFFICES ASSUME IInv PROVE MissionTypeOK OBVIOUS
  <2>1. \A m \in Missions : results[m] = NoResult \/ results[m].status \in Terminal
    BY DEF IInv, StoreTypes
  <2>2. ASSUME NEW r \in Recoverers
        PROVE  /\ run[r].pc \in {"idle", "discovery", "step", "recovery", "retry", "over", "raised"}
               /\ run[r].mission \in Missions \cup {"none"}
               /\ run[r].plan \in Seq(Roles) /\ Len(run[r].plan) <= MaxDelegations
               /\ run[r].step \in 1 .. Len(run[r].plan) + 1
               /\ run[r].done \subseteq 1 .. Len(run[r].plan)
    BY DEF IInv, RunInv, Local, Runs
  <2>3. QED BY <2>1, <2>2 DEF MissionTypeOK, IInv, StoreTypes, InRecovery
<1>2. QED BY InvHolds, <1>1, PTL

(* A PASS is earned by completed steps only, the inspector's among them, whatever  *)
(* failed and was recovered on the way (the verdict of run_mission).               *)
THEOREM PassEarned == Spec => []PassIsEarned
<1>1. IInv => PassIsEarned
  BY DEF IInv, RunInv, PassIsEarned, Earned
<1>2. QED BY InvHolds, <1>1, PTL

(* No step of a plan is begun after a failure that was not made good (the loop of  *)
(* run_mission).                                                                   *)
THEOREM HaltsOnFailure == Spec => []NothingAfterFailure
<1>1. IInv => NothingAfterFailure
  BY DEF IInv, RunInv, Running, NothingAfterFailure
<1>2. QED BY InvHolds, <1>1, PTL

(* Delegations and recoveries never exceed their budgets, retries included         *)
(* (run_mission).                                                                  *)
THEOREM BudgetsHold == Spec => []BudgetsKept
<1>1. IInv => BudgetsKept
  BY DEF IInv, RunInv, Local, BudgetsKept
<1>2. QED BY InvHolds, <1>1, PTL

(* What a run does to the lifecycle goes through the matrix, and no terminal state *)
(* is in its domain.                                                               *)
Ended(m) == m \in Missions /\ life[m] \in Terminal

LEMMA EndedStays ==
  ASSUME NEW m, Ended(m), NEW status PROVE ~MayBecome(m, status) /\ life[m] # "DISCOVERING"
  BY DEF Ended, MayBecome, Allowed, Terminal

LEMMA SettleKeeps ==
  ASSUME StoreTypes, NEW m, Ended(m), NEW r, NEW s, NEW status, NEW verdict,
         Settle(r, s, status, verdict)
  PROVE  life'[m] = life[m]
<1>1. life' = [life EXCEPT ![s.mission] = IF MayBecome(s.mission, status) THEN status ELSE @]
  BY DEF Settle
<1>2. CASE s.mission = m
  BY <1>1, <1>2, EndedStays DEF StoreTypes, Ended
<1>3. CASE s.mission # m
  BY <1>1, <1>3 DEF StoreTypes, Ended
<1>4. QED BY <1>2, <1>3

LEMMA ConcludeKeeps ==
  ASSUME StoreTypes, NEW m, Ended(m), NEW r, NEW s, NEW timedOut, Conclude(r, s, timedOut)
  PROVE  life'[m] = life[m]
  BY SettleKeeps DEF Conclude

LEMMA ProceedKeeps ==
  ASSUME StoreTypes, NEW m, Ended(m), NEW r, NEW s, Proceed(r, s)
  PROVE  life'[m] = life[m]
<1>1. CASE Settle(r, s, "CANCELLED", "UNVERIFIED")
  BY <1>1, SettleKeeps
<1>2. CASE Conclude(r, s, TRUE) \/ Conclude(r, s, FALSE)
  BY <1>2, ConcludeKeeps
<1>3. CASE life' = [life EXCEPT ![s.mission] = IF @ = "DISCOVERING" THEN "EXECUTING" ELSE @]
  <2>1. CASE s.mission = m
    BY <1>3, <2>1, EndedStays DEF StoreTypes, Ended
  <2>2. CASE s.mission # m
    BY <1>3, <2>2 DEF StoreTypes, Ended
  <2>3. QED BY <2>1, <2>2
<1>4. QED BY <1>1, <1>2, <1>3 DEF Proceed

LEMMA BeginKeeps ==
  ASSUME StoreTypes, NEW m, Ended(m), NEW r \in Recoverers, NEW n \in Missions, Begin(r, n)
  PROVE  life'[m] = life[m]
<1>1. PICK s : s = [Idle EXCEPT !.mission = n]
  OBVIOUS
<1>2. \/ Settle(r, s, "CANCELLED", "UNVERIFIED")
      \/ MayBecome(n, "DISCOVERING") /\ life' = [life EXCEPT ![n] = "DISCOVERING"]
      \/ FailOrRaise(r, s)
  BY <1>1, Zenon DEF Begin
<1>3. CASE Settle(r, s, "CANCELLED", "UNVERIFIED") BY <1>3, SettleKeeps
<1>4. CASE MayBecome(n, "DISCOVERING") /\ life' = [life EXCEPT ![n] = "DISCOVERING"]
  <2>1. n # m BY <1>4, EndedStays
  <2>2. QED BY <1>4, <2>1 DEF StoreTypes, Ended
<1>5. CASE FailOrRaise(r, s)
  BY <1>5, SettleKeeps DEF FailOrRaise, Raise
<1>6. QED BY <1>2, <1>3, <1>4, <1>5

LEMMA AdvanceKeeps ==
  ASSUME StoreTypes, NEW m, Ended(m), NEW r \in Recoverers, Advance(r)
  PROVE  life'[m] = life[m]
<1>1. \/ UNCHANGED life
      \/ \E s : \/ \E status, verdict : Settle(r, s, status, verdict)
                \/ Conclude(r, s, FALSE)
                \/ Proceed(r, s)
  <2>1. CASE Discovered(r) BY <2>1, Zenon DEF Discovered, FailOrRaise, Raise
  <2>2. CASE StepSucceeds(r) BY <2>2, Zenon DEF StepSucceeds
  <2>3. CASE StepFails(r) BY <2>3, Zenon DEF StepFails
  <2>4. CASE RecoveryEnds(r) BY <2>4, Zenon DEF RecoveryEnds
  <2>5. CASE Retried(r) BY <2>5, Zenon DEF Retried
  <2>6. QED BY <2>1, <2>2, <2>3, <2>4, <2>5 DEF Advance
<1>2. QED BY <1>1, SettleKeeps, ConcludeKeeps, ProceedKeeps

(* A mission that has reached an end keeps it, however often it is executed again  *)
(* (run_mission, transition_to).                                                   *)
THEOREM EndIsFinal == Spec => TerminalIsFinal
<1> DEFINE Final == \A m \in Missions : life[m] \in Terminal => life'[m] = life[m]
<1>1. IInv /\ [Next]_vars => [Final]_vars
  <2> SUFFICES ASSUME IInv, Next, NEW m \in Missions, life[m] \in Terminal
               PROVE  life'[m] = life[m]
    OBVIOUS
  <2>1. StoreTypes /\ Ended(m) BY DEF IInv, Ended
  <2>2. ASSUME NEW n \in Missions, Admit(n) PROVE life'[m] = life[m]
    <3>1. n # m BY <2>1, <2>2 DEF Admit, Ended, Terminal
    <3>2. QED BY <2>1, <2>2, <3>1 DEF Admit, StoreTypes
  <2>3. ASSUME NEW n \in Missions, CancelMission(n) PROVE life'[m] = life[m]
    BY <2>3 DEF CancelMission
  <2>4. ASSUME NEW r \in Recoverers, DeadlinePasses(r) PROVE life'[m] = life[m]
    BY <2>4 DEF DeadlinePasses
  <2>5. CASE Tick /\ UNCHANGED missionVars
    BY <2>5 DEF missionVars
  <2>6. ASSUME NEW r \in Recoverers, NEW n \in Missions, Begin(r, n) PROVE life'[m] = life[m]
    BY <2>1, <2>6, BeginKeeps
  <2>7. ASSUME NEW r \in Recoverers, Advance(r) PROVE life'[m] = life[m]
    BY <2>1, <2>7, AdvanceKeeps
  <2>8. QED BY <2>2, <2>3, <2>4, <2>5, <2>6, <2>7 DEF Next
<1>2. QED BY InvHolds, <1>1, PTL DEF Spec, TerminalIsFinal

(* What the stores report of a mission executed once is of one piece, and no run   *)
(* of a cancelled mission passes it, whenever the request came, nor fails it but   *)
(* where its discovery raised (run_mission, get_mission_status).                   *)
THEOREM ReportsHold == Spec => ReportsAreTrue
<1>1. IInv => ResultMatchesLife
  <2> SUFFICES ASSUME IInv, NEW m \in Missions, results[m] # NoResult, ExecutedOnce(m)
               PROVE  results[m].status = life[m]
    BY DEF ResultMatchesLife
  <2>1. Report(m) BY DEF IInv, Reports
  <2>2. PICK r \in Recoverers : run[r].mission = m BY <2>1 DEF Report
  <2>3. run[r].pc \in {"idle", "over"} BY <2>1, <2>2 DEF Report, IInv, Runs
  <2>4. run[r].pc # "idle" BY <2>2, MissionAssumption DEF IInv, RunInv, Idle
  <2>5. QED BY <2>1, <2>2, <2>3, <2>4 DEF Report
<1>2. IInv /\ [Next]_vars => [ResultMatchesLife' /\ CancelIsHonoured]_vars
  <2>1. IInv' => ResultMatchesLife' BY <1>1, PTL
  <2>2. QED BY <2>1, NextInv
<1>3. QED BY InvHolds, <1>2, PTL DEF Spec, ReportsAreTrue

(* The missions' own steps respect the cooldown: no mission's recovery begins on a *)
(* breaker that another mission's failures have tripped (StepFails, is_blocked).   *)
THEOREM MissionsRespectCooldown == Spec => NoRecoveryInCooldown
<1> DEFINE Late == \A r \in Recoverers :
                     r \notin recovering /\ r \in recovering' /\ breaker = "OPEN"
                       => clock - lastFailure >= Cooldown
<1>1. IInv /\ [Next]_vars => [Late]_engineVars
  <2> SUFFICES ASSUME IInv, Next, NEW r \in Recoverers,
                      r \notin recovering, r \in recovering', breaker = "OPEN"
               PROVE  clock - lastFailure >= Cooldown
    BY DEF vars, engineVars
  <2>1. ASSUME UNCHANGED engineVars \/ UNCHANGED recovering PROVE FALSE
    BY <2>1 DEF engineVars
  <2>2. PICK q \in Recoverers : StepFails(q) \/ RecoveryEnds(q)
    BY <2>1, Zenon DEF Next, Admit, CancelMission, DeadlinePasses, Begin, Advance, Discovered,
       StepSucceeds, Retried, Tick
  <2>3. ~RecoveryEnds(q) BY DEF RecoveryEnds, RecordSuccess, RecordFailure
  <2>4. BeginRecovery(q) BY <2>1, <2>2, <2>3, Zenon DEF StepFails
  <2>5. QED BY <2>4, BreakerAssumption DEF BeginRecovery, PassBreaker, Blocked, IInv, EngineTypeOK
<1>2. QED BY InvHolds, <1>1, PTL DEF Spec, NoRecoveryInCooldown

--------------------------------------------------------------------------------
(* Missions end.  Left is an upper bound of the moves a run still has before       *)
(* it: a step and a retry each take a delegation, a recovery is followed by a      *)
(* retry or by the end.                                                            *)
Over(s) == s.pc \in {"over", "raised"}

Left(s) ==
  IF Over(s) THEN 0
  ELSE 2 * (MaxDelegations - s.delegations) + IF s.pc \in {"discovery", "recovery"} THEN 1 ELSE 2

(* From one suspension of a run, s, to the next, t.                                *)
Forward(s, t) ==
  \/ ~Over(s) /\ Over(t)
  \/ s.pc = "idle" /\ t.pc = "discovery" /\ t.delegations = s.delegations
  \/ s.pc \in {"discovery", "step", "retry"} /\ t.pc = "step" /\ t.delegations = s.delegations + 1
  \/ s.pc = "step" /\ t.pc = "recovery" /\ t.delegations = s.delegations
  \/ s.pc = "recovery" /\ t.pc = "retry" /\ t.delegations = s.delegations + 1

Goes(r) ==
  Forward(run[r], run'[r]) /\ \A q \in Recoverers : q # r => run'[q] = run[q]

LEMMA LeftBound ==
  ASSUME NEW s, RunInv(s)
  PROVE  Left(s) \in 0 .. 2 * MaxDelegations + 2 /\ (~Over(s) => Left(s) > 0)
<1>1. s.delegations \in Nat /\ MaxDelegations \in Nat /\ s.delegations <= MaxDelegations
  BY MissionAssumption DEF RunInv, Local, Runs
<1>2. QED BY <1>1 DEF Left

LEMMA ForwardIsFewer ==
  ASSUME NEW s, RunInv(s), NEW t, RunInv(t), Forward(s, t) PROVE Left(t) < Left(s)
<1>1. /\ s.delegations \in Nat /\ t.delegations \in Nat /\ MaxDelegations \in Nat
  BY MissionAssumption DEF RunInv, Local, Runs
<1>2. Over(t) => Left(t) = 0 BY DEF Left
<1>3. CASE ~Over(s) /\ Over(t)
  BY <1>2, <1>3, LeftBound
<1>4. CASE ~(~Over(s) /\ Over(t))
  BY <1>1, <1>4 DEF Forward, Left, Over
<1>5. QED BY <1>3, <1>4

LEMMA PointGoes ==
  ASSUME IInv, NEW r \in Recoverers, NEW t, Forward(run[r], t), run' = [run EXCEPT ![r] = t]
  PROVE  Goes(r)
  BY DEF Goes, IInv

LEMMA SettleGoes ==
  ASSUME IInv, NEW r \in Recoverers, ~Over(run[r]), NEW s \in Runs, NEW status, NEW verdict,
         Settle(r, s, status, verdict)
  PROVE  Goes(r)
<1>1. PICK t : /\ t = [s EXCEPT !.pc = "over", !.outcome = [status |-> status, verdict |-> verdict]]
               /\ run' = [run EXCEPT ![r] = t]
  BY DEF Settle
<1>2. t.pc = "over" BY <1>1 DEF Runs
<1>3. QED BY <1>1, <1>2, PointGoes DEF Forward, Over

LEMMA RaiseGoes ==
  ASSUME IInv, NEW r \in Recoverers, ~Over(run[r]), NEW s \in Runs, Raise(r, s)
  PROVE  Goes(r)
<1>1. PICK t : t = [s EXCEPT !.pc = "raised"] /\ run' = [run EXCEPT ![r] = t]
  BY DEF Raise
<1>2. t.pc = "raised" BY <1>1 DEF Runs
<1>3. QED BY <1>1, <1>2, PointGoes DEF Forward, Over

LEMMA ConcludeGoes ==
  ASSUME IInv, NEW r \in Recoverers, ~Over(run[r]), NEW s \in Runs, NEW timedOut,
         Conclude(r, s, timedOut)
  PROVE  Goes(r)
  BY SettleGoes DEF Conclude

LEMMA ProceedGoes ==
  ASSUME IInv, NEW r \in Recoverers, run[r].pc \in {"discovery", "step", "retry"},
         NEW s \in Runs, s.delegations = run[r].delegations, Proceed(r, s)
  PROVE  Goes(r)
<1>1. ~Over(run[r]) BY DEF Over
<1>2. CASE Settle(r, s, "CANCELLED", "UNVERIFIED") BY <1>1, <1>2, SettleGoes
<1>3. CASE Conclude(r, s, TRUE) \/ Conclude(r, s, FALSE) BY <1>1, <1>3, ConcludeGoes
<1>4. CASE run' = [run EXCEPT ![r] = [s EXCEPT !.pc = "step", !.delegations = @ + 1]]
  <2>1. PICK t : t = [s EXCEPT !.pc = "step", !.delegations = @ + 1]
                 /\ run' = [run EXCEPT ![r] = t]
    BY <1>4
  <2>2. t.pc = "step" /\ t.delegations = s.delegations + 1 BY <2>1 DEF Runs
  <2>3. QED BY <2>1, <2>2, PointGoes DEF Forward
<1>5. QED BY <1>2, <1>3, <1>4 DEF Proceed

LEMMA CompletedDelegations ==
  ASSUME NEW s \in Runs, s.done \subseteq Nat
  PROVE  Completed(s) \in Runs /\ Completed(s).delegations = s.delegations
<1>1. s.step \in Nat \ {0} BY DEF Runs
<1>2. s.step + 1 \in Nat \ {0} /\ s.done \cup {s.step} \in SUBSET Nat BY <1>1
<1>3. QED BY <1>2 DEF Completed, Runs

LEMMA BeginGoes ==
  ASSUME IInv, NEW r \in Recoverers, NEW m \in Missions, Begin(r, m)
  PROVE  Goes(r)
<1>1. PICK s : s = [Idle EXCEPT !.mission = m]
  OBVIOUS
<1>2. run[r] = Idle /\ Idle \in Runs /\ Idle.pc = "idle" /\ ~Over(run[r])
  <2>1. run[r] = Idle BY DEF IInv, RunInv, Begin
  <2>2. Idle.pc = "idle" BY DEF Idle
  <2>3. QED BY <2>1, <2>2, IdleInv DEF RunInv, Local, Over
<1>3. s \in Runs /\ s.delegations = Idle.delegations BY <1>1, <1>2 DEF Runs
<1>4. \/ Settle(r, s, "CANCELLED", "UNVERIFIED")
      \/ run' = [run EXCEPT ![r] = [s EXCEPT !.pc = "discovery"]]
      \/ FailOrRaise(r, s)
  BY <1>1, Zenon DEF Begin
<1>5. CASE run' = [run EXCEPT ![r] = [s EXCEPT !.pc = "discovery"]]
  <2>1. PICK t : t = [s EXCEPT !.pc = "discovery"] /\ run' = [run EXCEPT ![r] = t]
    BY <1>5
  <2>2. t.pc = "discovery" /\ t.delegations = run[r].delegations
    BY <1>2, <1>3, <2>1 DEF Runs
  <2>3. QED BY <1>2, <2>1, <2>2, PointGoes DEF Forward
<1>6. QED BY <1>2, <1>3, <1>4, <1>5, SettleGoes, RaiseGoes DEF FailOrRaise

LEMMA DiscoveredGoes ==
  ASSUME IInv, NEW r \in Recoverers, Discovered(r)
  PROVE  Goes(r)
<1>1. PICK s : s = run[r]
  OBVIOUS
<1>2. s \in Runs /\ s.pc = "discovery" /\ ~Over(run[r]) BY <1>1 DEF IInv, Discovered, Over
<1>3. \/ Settle(r, s, "COMPLETED", "UNVERIFIED") \/ Settle(r, s, "CANCELLED", "UNVERIFIED")
      \/ Settle(r, s, "FAILED", "FAIL") \/ Raise(r, s)
      \/ \E found \in 1 .. MaxCandidates : Proceed(r, [s EXCEPT !.plan = Plan(found)])
  BY <1>1, Zenon DEF Discovered, FailOrRaise
<1>4. ASSUME NEW found \in 1 .. MaxCandidates, Proceed(r, [s EXCEPT !.plan = Plan(found)])
      PROVE  Goes(r)
  <2>1. PICK t : t = [s EXCEPT !.plan = Plan(found)] /\ Proceed(r, t) BY <1>4
  <2>2. Plan(found) \in Seq(Roles) BY MissionAssumption, PlanInBudget
  <2>3. t \in Runs /\ t.delegations = s.delegations BY <1>2, <2>1, <2>2 DEF Runs
  <2>4. QED BY <1>1, <1>2, <2>1, <2>3, ProceedGoes
<1>5. QED BY <1>2, <1>3, <1>4, SettleGoes, RaiseGoes

LEMMA StepSucceedsGoes ==
  ASSUME IInv, NEW r \in Recoverers, StepSucceeds(r)
  PROVE  Goes(r)
<1>1. PICK s : s = run[r]
  OBVIOUS
<1>2. s \in Runs /\ s.pc = "step" BY <1>1 DEF IInv, StepSucceeds
<1>3. ASSUME NEW u, u \in Runs, u.delegations = s.delegations, Proceed(r, Completed(u))
      PROVE  Goes(r)
  <2>1. PICK t : t = Completed(u) /\ Proceed(r, t) BY <1>3
  <2>2. t \in Runs /\ t.delegations = s.delegations
    BY <1>3, <2>1, CompletedDelegations DEF Runs
  <2>3. QED BY <1>1, <1>2, <2>1, <2>2, ProceedGoes
<1>4. \/ \E tools \in 1 .. MaxTools : Proceed(r, Completed([s EXCEPT !.actions = @ + tools]))
      \/ \E real \in BOOLEAN : Proceed(r, Completed([s EXCEPT !.reality = real]))
      \/ Proceed(r, Completed(s))
  BY <1>1, Zenon DEF StepSucceeds
<1>5. ASSUME NEW tools \in 1 .. MaxTools, Proceed(r, Completed([s EXCEPT !.actions = @ + tools]))
      PROVE  Goes(r)
  <2>1. PICK u : u = [s EXCEPT !.actions = @ + tools] /\ Proceed(r, Completed(u)) BY <1>5
  <2>2. s.actions + tools \in Nat BY <1>2, MissionAssumption DEF Runs
  <2>3. u \in Runs /\ u.delegations = s.delegations BY <1>2, <2>1, <2>2 DEF Runs
  <2>4. QED BY <1>3, <2>1, <2>3
<1>6. ASSUME NEW real \in BOOLEAN, Proceed(r, Completed([s EXCEPT !.reality = real]))
      PROVE  Goes(r)
  <2>1. PICK u : u = [s EXCEPT !.reality = real] /\ Proceed(r, Completed(u)) BY <1>6
  <2>2. u \in Runs /\ u.delegations = s.delegations BY <1>2, <2>1 DEF Runs
  <2>3. QED BY <1>3, <2>1, <2>2
<1>7. QED BY <1>2, <1>3, <1>4, <1>5, <1>6

LEMMA StepFailsGoes ==
  ASSUME IInv, NEW r \in Recoverers, StepFails(r)
  PROVE  Goes(r)
<1>1. PICK s : s = run[r]
  OBVIOUS
<1>2. s \in Runs /\ s.pc = "step" /\ ~Over(run[r]) BY <1>1 DEF IInv, StepFails, Over
<1>3. PICK used \in 0 .. MaxTools :
        LET f == [s EXCEPT !.failed = TRUE, !.actions = @ + used] IN
        Conclude(r, f, FALSE) \/ run' = [run EXCEPT ![r] = [f EXCEPT !.pc = "recovery"]]
  <2>1. \A n : n \in 1 .. MaxTools \/ n \in {0} => n \in 0 .. MaxTools BY MissionAssumption
  <2>2. QED BY <1>1, <2>1, Zenon DEF StepFails
<1>4. PICK f : /\ f = [s EXCEPT !.failed = TRUE, !.actions = @ + used]
               /\ Conclude(r, f, FALSE) \/ run' = [run EXCEPT ![r] = [f EXCEPT !.pc = "recovery"]]
  BY <1>3, Zenon
<1>5. s.actions + used \in Nat BY <1>2, MissionAssumption DEF Runs
<1>6. f \in Runs /\ f.delegations = s.delegations BY <1>2, <1>4, <1>5 DEF Runs
<1>7. CASE run' = [run EXCEPT ![r] = [f EXCEPT !.pc = "recovery"]]
  <2>1. PICK t : t = [f EXCEPT !.pc = "recovery"] /\ run' = [run EXCEPT ![r] = t]
    BY <1>7
  <2>2. t.pc = "recovery" /\ t.delegations = s.delegations BY <1>6, <2>1 DEF Runs
  <2>3. QED BY <1>1, <1>2, <2>1, <2>2, PointGoes DEF Forward
<1>8. QED BY <1>2, <1>4, <1>6, <1>7, ConcludeGoes

LEMMA RecoveryEndsGoes ==
  ASSUME IInv, NEW r \in Recoverers, RecoveryEnds(r)
  PROVE  Goes(r)
<1>1. PICK q : q = run[r]
  OBVIOUS
<1>2. r \in recovering BY DEF RecoveryEnds, RecordSuccess, RecordFailure
<1>3. q \in Runs /\ q.pc = "recovery" /\ ~Over(run[r])
  BY <1>1, <1>2 DEF IInv, InRecovery, Over
<1>4. PICK s : s = [q EXCEPT !.recoveries = @ + 1]
  OBVIOUS
<1>5. q.recoveries + 1 \in Nat BY <1>3 DEF Runs
<1>6. s \in Runs /\ s.delegations = q.delegations BY <1>3, <1>4, <1>5 DEF Runs
<1>7. \/ run' = [run EXCEPT ![r] = [s EXCEPT !.pc = "retry", !.delegations = @ + 1]]
      \/ Conclude(r, s, FALSE)
  BY <1>1, <1>4, Zenon DEF RecoveryEnds
<1>8. CASE run' = [run EXCEPT ![r] = [s EXCEPT !.pc = "retry", !.delegations = @ + 1]]
  <2>1. PICK t : t = [s EXCEPT !.pc = "retry", !.delegations = @ + 1]
                 /\ run' = [run EXCEPT ![r] = t]
    BY <1>8
  <2>2. t.pc = "retry" /\ t.delegations = q.delegations + 1 BY <1>6, <2>1 DEF Runs
  <2>3. QED BY <1>1, <1>3, <2>1, <2>2, PointGoes DEF Forward
<1>9. QED BY <1>3, <1>6, <1>7, <1>8, ConcludeGoes

LEMMA RetriedGoes ==
  ASSUME IInv, NEW r \in Recoverers, Retried(r)
  PROVE  Goes(r)
<1>1. PICK s : s = run[r]
  OBVIOUS
<1>2. s \in Runs /\ s.pc = "retry" /\ ~Over(run[r]) BY <1>1 DEF IInv, Retried, Over
<1>3. Proceed(r, Completed(s)) \/ Conclude(r, s, FALSE) BY <1>1, Zenon DEF Retried
<1>4. CASE Proceed(r, Completed(s))
  <2>1. PICK t : t = Completed(s) /\ Proceed(r, t) BY <1>4
  <2>2. t \in Runs /\ t.delegations = s.delegations
    BY <1>2, <2>1, CompletedDelegations DEF Runs
  <2>3. QED BY <1>1, <1>2, <2>1, <2>2, ProceedGoes
<1>5. QED BY <1>2, <1>3, <1>4, ConcludeGoes

(* A call of run_mission moves on 2 * MaxDelegations + 2 times at most, however     *)
(* its steps fail, are recovered and retried and whatever the other runs do: every  *)
(* step of it leaves it fewer moves, and a run that has ended none.                *)
THEOREM MissionsEnd ==
  Spec => /\ [](\A r \in Recoverers :
                  /\ Left(run[r]) \in 0 .. 2 * MaxDelegations + 2
                  /\ Left(run[r]) = 0 <=> Over(run[r]))
          /\ [][\A r \in Recoverers : run'[r] # run[r] => Left(run'[r]) < Left(run[r])]_vars
<1> DEFINE Bounded == \A r \in Recoverers :
                        /\ Left(run[r]) \in 0 .. 2 * MaxDelegations + 2
                        /\ Left(run[r]) = 0 <=> Over(run[r])
           Fewer == \A r \in Recoverers : run'[r] # run[r] => Left(run'[r]) < Left(run[r])
<1>1. IInv => Bounded
  <2> SUFFICES ASSUME IInv, NEW r \in Recoverers
               PROVE  /\ Left(run[r]) \in 0 .. 2 * MaxDelegations + 2
                      /\ Left(run[r]) = 0 <=> Over(run[r])
    OBVIOUS
  <2>1. RunInv(run[r]) BY DEF IInv
  <2>2. Over(run[r]) => Left(run[r]) = 0 BY DEF Left
  <2>3. QED BY <2>1, <2>2, LeftBound
<1>2. IInv /\ [Next]_vars => [Fewer]_vars
  <2> SUFFICES ASSUME IInv, Next, NEW r \in Recoverers, run'[r] # run[r]
               PROVE  Left(run'[r]) < Left(run[r])
    OBVIOUS
  <2>1. IInv' BY NextInv
  <2>2. \E q \in Recoverers : Goes(q)
    <3>1. ~UNCHANGED run OBVIOUS
    <3>2. \/ \E q \in Recoverers, m \in Missions : Begin(q, m)
          \/ \E q \in Recoverers : Advance(q)
      BY <3>1, Zenon DEF Next, Admit, CancelMission, DeadlinePasses, missionVars
    <3>3. ASSUME NEW q \in Recoverers, Advance(q) PROVE Goes(q)
      BY <3>3, DiscoveredGoes, StepSucceedsGoes, StepFailsGoes, RecoveryEndsGoes, RetriedGoes
         DEF Advance
    <3>4. QED BY <3>2, <3>3, BeginGoes
  <2>3. Forward(run[r], run'[r]) BY <2>2 DEF Goes
  <2>4. RunInv(run[r]) /\ RunInv(run'[r]) BY <2>1 DEF IInv
  <2>5. QED BY <2>3, <2>4, ForwardIsFewer
<1>3. QED BY InvHolds, <1>1, <1>2, PTL DEF Spec
==================================================================================
