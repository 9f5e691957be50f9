------------------------------ MODULE SessionStates ------------------------------
(* The lifecycle state machine of one desktop session: the states of            *)
(* SessionLifecycleState and its table of permitted transitions.  CREATE is an  *)
(* alias of CREATED in the code and has no state of its own here.               *)

LifecycleStates ==
  {"CREATED", "ATTACH", "ATTACHED", "CONNECTING", "CONNECTED", "ACTIVE",
   "DEGRADED", "TARGET_LOST", "RECOVERABLE", "DISCONNECTING", "TERMINATING",
   "CLOSED", "TERMINATED", "FAILED", "ERROR", "ABORTED"}

(* SessionState.is_closed and SessionLifecycleState.is_terminal.                *)
Terminal == {"CLOSED", "TERMINATED"}

(* ConnectionState: the values a session's connection_state field may take.     *)
ConnectionStates ==
  {"DISCONNECTED", "CONNECTING", "CONNECTED", "RECONNECTING", "FAILED"}

(* The two groups of targets most rows of the table share: what a failure may   *)
(* lead to, and how an established session may start to go away.                *)
Ends == {"FAILED", "ABORTED", "CLOSED", "TERMINATED"}
Leave == {"DISCONNECTING", "TERMINATING"}

(* A mutant of the table in which a degraded session has no way out.            *)
NextStatesDegradedStuck ==
  [s \in LifecycleStates |->
    CASE s = "CREATED"     -> {"CONNECTING", "ATTACH", "ATTACHED"} \cup Ends
      [] s = "CONNECTING"  -> {"CONNECTED"} \cup Ends
      [] s = "CONNECTED"   -> {"ACTIVE", "DEGRADED", "TARGET_LOST"} \cup Leave \cup Ends
      [] s = "ACTIVE"      -> {"ACTIVE", "DEGRADED", "TARGET_LOST", "RECOVERABLE"} \cup Leave \cup Ends
      [] s = "DEGRADED"    -> {"ACTIVE", "TARGET_LOST", "RECOVERABLE", "FAILED", "ABORTED"}
      [] s \in Leave       -> Ends
      [] OTHER             -> {}]

NextStates ==
  [s \in LifecycleStates |->
    CASE s = "CREATED"     -> {"CONNECTING", "ATTACH", "ATTACHED"} \cup Ends
      [] s = "CONNECTING"  -> {"CONNECTED", "ATTACHED", "ACTIVE", "DEGRADED"} \cup Ends
      [] s = "CONNECTED"   -> {"ACTIVE", "DEGRADED", "TARGET_LOST"} \cup Leave \cup Ends
      [] s = "ATTACH"      -> {"ATTACHED", "CONNECTED", "ACTIVE", "DEGRADED",
                               "TARGET_LOST", "TERMINATING"} \cup Ends
      [] s = "ATTACHED"    -> {"ACTIVE", "DEGRADED", "TARGET_LOST"} \cup Leave \cup Ends
      [] s = "ACTIVE"      -> {"ACTIVE", "DEGRADED", "TARGET_LOST", "RECOVERABLE", "ERROR"}
                                \cup Leave \cup Ends
      [] s = "DEGRADED"    -> {"ACTIVE", "TARGET_LOST", "RECOVERABLE"} \cup Leave \cup Ends
      [] s = "TARGET_LOST" -> {"RECOVERABLE"} \cup Leave \cup Ends
      [] s = "RECOVERABLE" -> {"CONNECTING", "ATTACH", "ATTACHED", "ACTIVE", "DEGRADED",
                               "TARGET_LOST"} \cup Leave \cup Ends
      [] s \in Leave       -> Ends
      [] s = "ERROR"       -> {"RECOVERABLE", "FAILED", "CLOSED", "TERMINATED"} \cup Leave
      [] s \in {"FAILED", "ABORTED"} -> Terminal
      [] s \in Terminal    -> {}]

CanTransition(from, to) == from \in LifecycleStates /\ to \in NextStates[from]
==================================================================================
