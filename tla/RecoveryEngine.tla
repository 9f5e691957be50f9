------------------------------ MODULE RecoveryEngine ------------------------------
(* runtime/recovery_engine.py: recoveries that run under one circuit breaker.  The *)
(* breaker trips after Threshold failures in a row, blocks for Cooldown, and then  *)
(* lets a probe through.  RuntimeBridge has one mission orchestrator, hence one    *)
(* engine and one breaker for the missions of every session; execute_recovery      *)
(* suspends only while the chosen action runs.                                     *)
EXTENDS Integers, FiniteSets

CONSTANTS
  Recoverers,   \* coroutines that call execute_recovery
  Threshold,    \* max_consecutive_failures
  Cooldown,     \* cooldown_period_sec, in ticks
  MaxTime       \* bound of the clock

ASSUME BreakerAssumption == Threshold \in Nat \ {0} /\ Cooldown \in Nat /\ MaxTime \in Nat

VARIABLES
  breaker,       \* CircuitBreaker.state
  failures,      \* failure_count
  lastFailure,   \* last_failure_time
  clock,         \* time.time()
  recovering     \* coroutines inside _dispatch_action

breakerVars == <<breaker, failures, lastFailure>>
engineVars == <<breaker, failures, lastFailure, clock, recovering>>

EngineTypeOK ==
  /\ breaker \in {"CLOSED", "OPEN", "HALF_OPEN"}
  /\ failures \in Nat
  /\ lastFailure \in Nat
  /\ clock \in Nat
  /\ recovering \in SUBSET Recoverers

EngineInit ==
  /\ breaker = "CLOSED"
  /\ failures = 0
  /\ lastFailure = 0
  /\ clock = 0
  /\ recovering = {}

(* is_blocked: its answer, and the change it makes when it lets the caller pass.   *)
(* The first is its mutant.                                                        *)
BlockedShort == breaker = "OPEN" /\ clock - lastFailure < Cooldown - 1

Blocked == breaker = "OPEN" /\ clock - lastFailure < Cooldown

PassBreaker ==
  /\ ~Blocked
  /\ breaker' = IF breaker = "OPEN" THEN "HALF_OPEN" ELSE breaker
  /\ UNCHANGED <<failures, lastFailure>>

(* execute_recovery up to the action it dispatches.  While blocked it raises.      *)
BeginRecovery(r) ==
  /\ r \notin recovering
  /\ PassBreaker
  /\ recovering' = recovering \cup {r}
  /\ UNCHANGED clock

(* record_success.                                                                 *)
RecordSuccess(r) ==
  /\ r \in recovering
  /\ recovering' = recovering \ {r}
  /\ failures' = 0
  /\ breaker' = "CLOSED"
  /\ UNCHANGED <<lastFailure, clock>>

(* record_failure: the action failed, raised or ran out of time.                   *)
RecordFailure(r) ==
  /\ r \in recovering
  /\ recovering' = recovering \ {r}
  /\ failures' = failures + 1
  /\ lastFailure' = clock
  /\ breaker' = IF failures + 1 >= Threshold THEN "OPEN" ELSE breaker
  /\ UNCHANGED clock

Tick ==
  /\ clock < MaxTime
  /\ clock' = clock + 1
  /\ UNCHANGED <<breakerVars, recovering>>

EngineNext ==
  \/ Tick
  \/ \E r \in Recoverers : BeginRecovery(r) \/ RecordSuccess(r) \/ RecordFailure(r)

EngineSpec == EngineInit /\ [][EngineNext]_engineVars

--------------------------------------------------------------------------------
(* The breaker is closed exactly while fewer than Threshold recoveries have failed *)
(* in a row, whatever the order in which overlapping recoveries end: no success    *)
(* leaves a breaker open that counts nothing, no failure leaves a closed one that  *)
(* should have tripped.                                                            *)
ClosedBelowThreshold == breaker = "CLOSED" <=> failures < Threshold

(* A retry storm is cut off: a recovery begins on a breaker that has tripped only  *)
(* after the cooldown since the last failure, even one that failed while open.     *)
NoRecoveryInCooldown ==
  [][\A r \in Recoverers :
       r \notin recovering /\ r \in recovering' /\ breaker = "OPEN"
         => clock - lastFailure >= Cooldown]_engineVars

=================================================================================
