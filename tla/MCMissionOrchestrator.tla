-------------------------- MODULE MCMissionOrchestrator --------------------------
(* MissionOrchestrator on small instances.  Two calls of run_mission and two      *)
(* missions: enough for missions that share the breaker, and for one mission      *)
(* executed twice.                                                                *)
EXTENDS MissionOrchestrator, TLC

Symmetry == Permutations(Recoverers) \cup Permutations(Missions)
=================================================================================
