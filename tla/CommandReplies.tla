----------------------------- MODULE CommandReplies -----------------------------
(* What ICDPTransport.send_command promises to the engines above it (runtime/     *)
(* cdp_transport.py): "Sends a JSON-RPC command and awaits the correlated         *)
(* response.  Supports concurrent outstanding requests safely."  No sockets, read *)
(* loops or reconnects: a command is asked, the browser replies or does not, and  *)
(* the call returns that reply or raises.                                         *)
EXTENDS Integers

CONSTANT MaxCmds   \* bound: commands that can be sent

VARIABLE call      \* each command, to its caller

Cmds == 1 .. MaxCmds
Open(i) == call[i] \in {"asked", "replied"}

Init == call = [i \in Cmds |-> "fresh"]

(* Identifiers are used in order and once; a connection that is lost refuses.     *)
Ask(i) ==
  /\ call[i] = "fresh"
  /\ \A j \in Cmds : j < i => call[j] # "fresh"
  /\ \E s \in {"asked", "raised"} : call' = [call EXCEPT ![i] = s]

(* The browser's, once per command.                                               *)
Reply(i) == call[i] = "asked" /\ call' = [call EXCEPT ![i] = "replied"]

(* Nothing is returned but the reply to this very command.                        *)
Return(i) == call[i] = "replied" /\ call' = [call EXCEPT ![i] = "returned"]

(* A timeout or a lost connection; a disconnect raises in several calls at once.  *)
Raise(s) ==
  /\ s # {} /\ \A i \in s : Open(i)
  /\ call' = [i \in Cmds |-> IF i \in s THEN "raised" ELSE call[i]]

Next ==
  \/ \E i \in Cmds : Ask(i) \/ Reply(i) \/ Return(i)
  \/ \E s \in SUBSET Cmds : Raise(s)

Spec == Init /\ [][Next]_call
=================================================================================
