---------------------------- MODULE CdpTransportProofs ----------------------------
(* Proofs about CdpTransport: however many sockets are opened and commands sent,   *)
(* a request is registered exactly while somebody can still be given its answer.   *)
EXTENDS CdpTransport, TLAPS

(* The part of the types the requests depend on.                                   *)
CmdTypes ==
  /\ msgId \in Nat
  /\ cmd \in [Cmds -> {"unsent", "sending", "waiting", "returned", "raised"}]
  /\ fut \in [Cmds -> {"none", "pending", "answered", "failed", "cancelled"}]
  /\ pending \in SUBSET Cmds

(* An identifier beyond _msg_id has never been used: without it a new request      *)
(* could find an old one in its place.                                             *)
FreshIds == \A i \in Cmds : i > msgId => cmd[i] = "unsent"

IInv == CmdTypes /\ FreshIds /\ PendingIsWaitedFor

LEMMA InitInv == Init => IInv
  BY BoundAssumption DEF Init, IInv, CmdTypes, FreshIds, PendingIsWaitedFor, Cmds

(* The end of disconnect settles every registered request.                         *)
LEMMA FailPendingInv ==
  ASSUME IInv, FailPending, UNCHANGED <<msgId, cmd>>
  PROVE  IInv'
  BY DEF IInv, CmdTypes, FreshIds, PendingIsWaitedFor, FailPending, Cmds

(* The steps of the owner, the network and the reconnects touch no request but by  *)
(* failing them all.                                                               *)
LEMMA Untouched ==
  ASSUME IInv, UNCHANGED <<msgId, cmd, fut, pending>>
  PROVE  IInv'
  BY DEF IInv, CmdTypes, FreshIds, PendingIsWaitedFor, Cmds

LEMMA OwnerInv == ASSUME IInv, OwnerStep PROVE IInv'
<1>1. CASE Connect \/ ConnectFails \/ \E k \in Conns : ConnectOk(k)
  <2>1. UNCHANGED <<msgId, cmd, fut, pending>>
    BY <1>1 DEF Connect, ConnectFails, ConnectOk, cmdVars
  <2>2. QED BY <2>1, Untouched
<1>2. CASE Disconnect \/ DisconnectJoined
  <2>1. UNCHANGED <<msgId, cmd>> BY <1>2 DEF Disconnect, DisconnectJoined
  <2>2. FailPending \/ UNCHANGED <<fut, pending>>
    BY <1>2 DEF Disconnect, DisconnectJoined, CloseSocket
  <2>3. QED BY <2>1, <2>2, FailPendingInv, Untouched
<1>3. CASE DisconnectClosed
  BY <1>3, FailPendingInv DEF DisconnectClosed
<1>4. QED BY <1>1, <1>2, <1>3 DEF OwnerStep

LEMMA ReaderInv == ASSUME IInv, NEW k \in Conns, ReaderStep(k) PROVE IInv'
<1>1. CASE ReadStart(k) \/ ReadCancelled(k) \/ ReadLost(k)
  <2>1. UNCHANGED <<msgId, cmd, fut, pending>>
    BY <1>1 DEF ReadStart, ReadCancelled, ReadLost, cmdVars
  <2>2. QED BY <2>1, Untouched
<1>2. CASE ReadResponse(k)
  <2>1. PICK i \in inbox[on[k]] :
          /\ pending' = pending \ {i}
          /\ fut' = IF i \in pending THEN [fut EXCEPT ![i] = "answered"] ELSE fut
    BY <1>2 DEF ReadResponse
  <2>2. UNCHANGED <<msgId, cmd>> BY <1>2 DEF ReadResponse
  <2>3. CASE i \in pending
    BY <2>1, <2>2, <2>3 DEF IInv, CmdTypes, FreshIds, PendingIsWaitedFor, Cmds
  <2>4. CASE i \notin pending
    <3>1. UNCHANGED <<fut, pending>> BY <2>1, <2>4
    <3>2. QED BY <2>2, <3>1, Untouched
  <2>5. QED BY <2>3, <2>4
<1>3. QED BY <1>1, <1>2 DEF ReaderStep

LEMMA ReconnectInv == ASSUME IInv, NEW k \in Conns, ReconnectStep(k) \/ Drop(k) PROVE IInv'
<1>1. UNCHANGED <<msgId, cmd, fut, pending>>
  BY DEF ReconnectStep, ReconnectBegins, ReconnectWakes, ReconnectOk,
         ReconnectFails, Drop, cmdVars
<1>2. QED BY <1>1, Untouched

LEMMA CommandInv == ASSUME IInv, NEW i \in Cmds, CommandStep(i) PROVE IInv'
<1>1. CASE Send(i)
  <2>1. msgId' = i /\ i = msgId + 1 BY <1>1 DEF Send
  <2>2. cmd[i] = "unsent" /\ i \notin pending
    BY <2>1 DEF IInv, CmdTypes, FreshIds, PendingIsWaitedFor, Cmds
  <2>3. CASE sock[ws] = "closed" /\ cmd' = [cmd EXCEPT ![i] = "raised"] /\ UNCHANGED <<fut, pending>>
    BY <2>1, <2>2, <2>3 DEF IInv, CmdTypes, FreshIds, PendingIsWaitedFor, Cmds
  <2>4. CASE /\ cmd' = [cmd EXCEPT ![i] = "sending"]
             /\ fut' = [fut EXCEPT ![i] = "pending"]
             /\ pending' = pending \cup {i}
    BY <2>1, <2>2, <2>4 DEF IInv, CmdTypes, FreshIds, PendingIsWaitedFor, Cmds
  <2>5. QED BY <1>1, <2>3, <2>4 DEF Send
<1>2. CASE Sent(i)
  BY <1>2 DEF Sent, IInv, CmdTypes, FreshIds, PendingIsWaitedFor, Cmds
<1>3. CASE SendFails(i)
  BY <1>3 DEF SendFails, IInv, CmdTypes, FreshIds, PendingIsWaitedFor, Cmds
<1>4. CASE CommandEnds(i)
  BY <1>4 DEF CommandEnds, IInv, CmdTypes, FreshIds, PendingIsWaitedFor, Cmds
<1>5. CASE Timeout(i)
  BY <1>5 DEF Timeout, IInv, CmdTypes, FreshIds, PendingIsWaitedFor, Cmds
<1>6. QED BY <1>1, <1>2, <1>3, <1>4, <1>5 DEF CommandStep

LEMMA NextInv == ASSUME IInv, [Next]_vars PROVE IInv'
<1>1. CASE OwnerStep BY <1>1, OwnerInv
<1>2. CASE \E k \in Conns : ReaderStep(k) \/ ReconnectStep(k) \/ Drop(k)
  BY <1>2, ReaderInv, ReconnectInv
<1>3. CASE \E i \in Cmds : CommandStep(i)
  BY <1>3, CommandInv
<1>4. CASE \E i \in Cmds : \E k \in Conns : Answer(k, i)
  <2>1. UNCHANGED <<msgId, cmd, fut, pending>> BY <1>4 DEF Answer, cmdVars
  <2>2. QED BY <2>1, Untouched
<1>5. CASE UNCHANGED vars
  BY <1>5, Untouched DEF vars, cmdVars
<1>6. QED BY <1>1, <1>2, <1>3, <1>4, <1>5 DEF Next

(* Every request of the transport is registered exactly while its caller can still *)
(* be answered: answers, timeouts, failed sends and disconnects settle it once     *)
(* (send_command, _read_loop, disconnect).                                         *)
THEOREM RequestsSettledOnce == Spec => []PendingIsWaitedFor
<1>1. Spec => []IInv BY InitInv, NextInv, PTL DEF Spec
<1>2. IInv => PendingIsWaitedFor BY DEF IInv
<1>3. QED BY <1>1, <1>2, PTL

--------------------------------------------------------------------------------
(* The refinement.  A command is with the browser over the socket it was sent on   *)
(* or has been replied to, and only a command replied to has an answer.            *)
WireTypes ==
  /\ ws \in Conns \cup {NoConn}
  /\ via \in [Cmds -> Conns \cup {NoConn}]
  /\ wire \in [Conns -> SUBSET Cmds]
  /\ inbox \in [Conns -> SUBSET Cmds]
OnItsWire == \A k \in Conns : \A i \in wire[k] : via[i] = k /\ cmd[i] # "unsent"
RepliedOnce ==
  \A k \in Conns : \A i \in inbox[k] : via[i] = k /\ i \notin wire[k] /\ cmd[i] # "unsent"
AnswerIsReply ==
  \A i \in Cmds : fut[i] = "answered" => via[i] \in Conns /\ i \notin wire[via[i]] /\ cmd[i] # "unsent"
WireInv == WireTypes /\ OnItsWire /\ RepliedOnce /\ AnswerIsReply

(* A read loop that receives does so on a socket.                                  *)
ReadersWait ==
  /\ ws \in Conns \cup {NoConn}
  /\ on \in [Conns -> Conns \cup {NoConn}]
  /\ \A k \in Conns : reader[k] = "receiving" => on[k] \in Conns
  /\ reader \in [Conns -> {"none", "starting", "receiving", "done"}]

LEMMA ReadersInit == Init => ReadersWait
  BY DEF Init, ReadersWait, NoConn

LEMMA OpenedWaits ==
  ASSUME ReadersWait, NEW k \in Conns, Opened(k), UNCHANGED on PROVE ReadersWait'
  BY DEF ReadersWait, Opened

LEMMA HeadWaits ==
  ASSUME ReadersWait, NEW k \in Conns, Head(k), UNCHANGED ws PROVE ReadersWait'
<1>1. CASE IsConnected /\ reader' = [reader EXCEPT ![k] = "receiving"] /\ on' = [on EXCEPT ![k] = ws]
  BY <1>1 DEF ReadersWait, IsConnected
<1>2. CASE Exit(k)
  BY <1>2 DEF ReadersWait, Exit
<1>3. QED BY <1>1, <1>2 DEF Head

LEMMA ReadersInv == ASSUME ReadersWait, [Next]_vars PROVE ReadersWait'
<1>1. CASE OwnerStep
  <2>1. CASE \E k \in Conns : ConnectOk(k) BY <2>1, OpenedWaits DEF ConnectOk
  <2>2. CASE Connect \/ ConnectFails \/ Disconnect \/ DisconnectJoined \/ DisconnectClosed
    BY <2>2 DEF Connect, ConnectFails, Disconnect, DisconnectJoined, DisconnectClosed,
            CloseSocket, ReadersWait, readVars
  <2>3. QED BY <1>1, <2>1, <2>2 DEF OwnerStep
<1>2. ASSUME NEW k \in Conns, ReaderStep(k) PROVE ReadersWait'
  <2>1. UNCHANGED ws BY <1>2 DEF ReaderStep, ReadStart, ReadCancelled, ReadResponse, ReadLost
  <2>2. CASE ReadStart(k) \/ ReadResponse(k)
    BY <2>1, <2>2, HeadWaits DEF ReadStart, ReadResponse
  <2>3. CASE ReadCancelled(k) \/ ReadLost(k)
    BY <2>1, <2>3 DEF ReadCancelled, ReadLost, Exit, ReadersWait
  <2>4. QED BY <1>2, <2>2, <2>3 DEF ReaderStep
<1>3. ASSUME NEW k \in Conns, ReconnectStep(k) PROVE ReadersWait'
  <2>1. CASE ReconnectOk(k) BY <2>1, OpenedWaits DEF ReconnectOk
  <2>2. CASE ReconnectBegins(k) \/ ReconnectWakes(k) \/ ReconnectFails(k)
    BY <2>2 DEF ReconnectBegins, ReconnectWakes, ReconnectFails, ReadersWait, readVars, connVars
  <2>3. QED BY <1>3, <2>1, <2>2 DEF ReconnectStep
<1>4. CASE UNCHANGED <<ws, readVars>>
  BY <1>4 DEF ReadersWait, readVars
<1>5. ASSUME NEW k \in Conns, Drop(k) PROVE ReadersWait'
  BY <1>4, <1>5 DEF Drop
<1>6. ASSUME NEW i \in Cmds, CommandStep(i) PROVE ReadersWait'
  BY <1>4, <1>6 DEF CommandStep, Send, Sent, SendFails, CommandEnds, Timeout, connVars
<1>7. ASSUME NEW i \in Cmds, NEW k \in Conns, Answer(k, i) PROVE ReadersWait'
  BY <1>4, <1>7 DEF Answer
<1>8. CASE UNCHANGED vars
  BY <1>4, <1>8 DEF vars, connVars
<1>9. QED BY <1>1, <1>2, <1>3, <1>5, <1>6, <1>7, <1>8 DEF Next

LEMMA WireInit == Init => WireInv
  BY DEF Init, WireInv, WireTypes, OnItsWire, RepliedOnce, AnswerIsReply, NoConn

(* What neither asks, replies nor answers keeps it, whatever else it settles.      *)
LEMMA WireKept ==
  ASSUME IInv, WireInv, UNCHANGED <<via, wire, inbox>>, ws' \in Conns \cup {NoConn},
         \A i \in Cmds : cmd[i] # "unsent" => cmd'[i] # "unsent",
         \A i \in Cmds : fut'[i] = "answered" => fut[i] = "answered"
  PROVE  WireInv'
  BY DEF WireInv, WireTypes, OnItsWire, RepliedOnce, AnswerIsReply

LEMMA OwnerWire == ASSUME IInv, WireInv, OwnerStep PROVE WireInv'
<1>1. UNCHANGED <<via, wire, inbox, cmd>>
  BY DEF OwnerStep, Connect, ConnectFails, ConnectOk, Disconnect, DisconnectJoined,
         DisconnectClosed, cmdVars
<1>2. ws' \in Conns \cup {NoConn}
  BY DEF OwnerStep, Connect, ConnectFails, ConnectOk, Opened, Disconnect, DisconnectJoined,
         DisconnectClosed, CloseSocket, WireInv, WireTypes
<1>3. FailPending \/ UNCHANGED fut
  BY DEF OwnerStep, Connect, ConnectFails, ConnectOk, Disconnect, DisconnectJoined,
         DisconnectClosed, CloseSocket, cmdVars
<1>4. \A i \in Cmds : fut'[i] = "answered" => fut[i] = "answered"
  BY <1>3 DEF FailPending
<1>5. QED BY <1>1, <1>2, <1>4, WireKept

LEMMA ReaderWire == ASSUME IInv, WireInv, ReadersWait, NEW k \in Conns, ReaderStep(k) PROVE WireInv'
<1>1. CASE ReadStart(k) \/ ReadCancelled(k) \/ ReadLost(k)
  <2>1. UNCHANGED <<via, wire, inbox, cmd, fut, ws>>
    BY <1>1 DEF ReadStart, ReadCancelled, ReadLost, cmdVars
  <2>2. ws' \in Conns \cup {NoConn} BY <2>1 DEF WireInv, WireTypes
  <2>3. QED BY <2>1, <2>2, WireKept
<1>2. CASE ReadResponse(k)
  <2>1. PICK i \in inbox[on[k]] :
          /\ inbox' = [inbox EXCEPT ![on[k]] = @ \ {i}]
          /\ fut' = IF i \in pending THEN [fut EXCEPT ![i] = "answered"] ELSE fut
    BY <1>2 DEF ReadResponse
  <2>2. UNCHANGED <<via, wire, cmd, ws>> BY <1>2 DEF ReadResponse
  <2>3. CASE on[k] \in Conns
    <3>1. i \in Cmds /\ via[i] = on[k] /\ i \notin wire[via[i]] /\ cmd[i] # "unsent"
      BY <2>1, <2>3 DEF WireInv, WireTypes, RepliedOnce
    <3>2. WireTypes' /\ OnItsWire' /\ RepliedOnce'
      BY <2>1, <2>2, <2>3 DEF WireInv, WireTypes, OnItsWire, RepliedOnce
    <3>3. AnswerIsReply'
      <4>1. ASSUME NEW j \in Cmds, fut'[j] = "answered"
            PROVE  via[j] \in Conns /\ j \notin wire[via[j]] /\ cmd[j] # "unsent"
        <5>1. j = i \/ fut[j] = "answered" BY <2>1, <4>1 DEF IInv, CmdTypes
        <5>2. QED BY <5>1, <3>1, <2>3 DEF WireInv, AnswerIsReply
      <4>2. QED BY <4>1, <2>2 DEF AnswerIsReply
    <3>4. QED BY <3>2, <3>3 DEF WireInv
  <2>4. on[k] \in Conns
    BY <1>2 DEF ReadResponse, ReadersWait
  <2>5. QED BY <2>3, <2>4
<1>3. QED BY <1>1, <1>2 DEF ReaderStep

LEMMA CommandWire == ASSUME IInv, WireInv, NEW i \in Cmds, CommandStep(i) PROVE WireInv'
<1>1. CASE Send(i)
  <2>1. ws \in Conns /\ msgId' = i /\ i = msgId + 1 /\ via' = [via EXCEPT ![i] = ws]
    BY <1>1 DEF Send, IsConnected, WireInv, WireTypes
  <2>2. cmd[i] = "unsent" /\ UNCHANGED <<ws, inbox>>
    BY <1>1, <2>1 DEF Send, IInv, CmdTypes, FreshIds, Cmds
  <2>3. fut[i] # "answered" /\ \A k \in Conns : i \notin wire[k] /\ i \notin inbox[k]
    BY <2>2 DEF WireInv, OnItsWire, RepliedOnce, AnswerIsReply
  <2>4. CASE cmd' = [cmd EXCEPT ![i] = "raised"] /\ UNCHANGED <<fut, wire>>
    BY <2>1, <2>2, <2>3, <2>4
       DEF IInv, CmdTypes, WireInv, WireTypes, OnItsWire, RepliedOnce, AnswerIsReply
  <2>5. CASE /\ cmd' = [cmd EXCEPT ![i] = "sending"]
             /\ fut' = [fut EXCEPT ![i] = "pending"]
             /\ wire' = [wire EXCEPT ![ws] = @ \cup {i}]
    <3>1. WireTypes' BY <2>1, <2>2, <2>5 DEF WireInv, WireTypes
    <3>2. OnItsWire' BY <2>1, <2>2, <2>3, <2>5 DEF IInv, CmdTypes, WireInv, WireTypes, OnItsWire
    <3>3. RepliedOnce' BY <2>1, <2>2, <2>3, <2>5 DEF IInv, CmdTypes, WireInv, WireTypes, RepliedOnce
    <3>4. AnswerIsReply' BY <2>1, <2>2, <2>3, <2>5 DEF IInv, CmdTypes, WireInv, WireTypes, AnswerIsReply
    <3>5. QED BY <3>1, <3>2, <3>3, <3>4 DEF WireInv
  <2>6. QED BY <1>1, <2>4, <2>5 DEF Send
<1>2. CASE Sent(i) \/ SendFails(i) \/ CommandEnds(i) \/ Timeout(i)
  <2>1. UNCHANGED <<via, wire, inbox, ws>>
    BY <1>2 DEF Sent, SendFails, CommandEnds, Timeout, connVars
  <2>2. ws' \in Conns \cup {NoConn} BY <2>1 DEF WireInv, WireTypes
  <2>3. \A j \in Cmds : cmd[j] # "unsent" => cmd'[j] # "unsent"
    BY <1>2 DEF Sent, SendFails, CommandEnds, Timeout, IInv, CmdTypes
  <2>4. \A j \in Cmds : fut'[j] = "answered" => fut[j] = "answered"
    BY <1>2 DEF Sent, SendFails, CommandEnds, Timeout, IInv, CmdTypes
  <2>5. QED BY <2>1, <2>2, <2>3, <2>4, WireKept
<1>3. QED BY <1>1, <1>2 DEF CommandStep

LEMMA AnswerWire ==
  ASSUME WireInv, NEW i \in Cmds, NEW k \in Conns, Answer(k, i) PROVE WireInv'
<1>1. i \in wire[k] /\ via[i] = k /\ UNCHANGED <<via, ws, cmd, fut>>
  BY DEF Answer, cmdVars, WireInv, OnItsWire
<1>2. wire' = [wire EXCEPT ![k] = @ \ {i}] /\ inbox' = [inbox EXCEPT ![k] = @ \cup {i}]
  BY DEF Answer
<1>3. WireTypes' /\ OnItsWire' BY <1>1, <1>2 DEF WireInv, WireTypes, OnItsWire
<1>4. RepliedOnce' BY <1>1, <1>2 DEF WireInv, WireTypes, OnItsWire, RepliedOnce
<1>5. AnswerIsReply' BY <1>1, <1>2 DEF WireInv, WireTypes, AnswerIsReply
<1>6. QED BY <1>3, <1>4, <1>5 DEF WireInv

LEMMA WireNext == ASSUME IInv, WireInv, ReadersWait, [Next]_vars PROVE WireInv'
<1>1. CASE OwnerStep BY <1>1, OwnerWire
<1>2. ASSUME NEW k \in Conns, ReaderStep(k) PROVE WireInv' BY <1>2, ReaderWire
<1>3. ASSUME NEW k \in Conns, ReconnectStep(k) \/ Drop(k) PROVE WireInv'
  <2>1. UNCHANGED <<via, wire, inbox, cmd, fut>>
    BY <1>3 DEF ReconnectStep, ReconnectBegins, ReconnectWakes, ReconnectOk, ReconnectFails,
            Drop, cmdVars, connVars
  <2>2. ws' \in Conns \cup {NoConn}
    BY <1>3 DEF ReconnectStep, ReconnectBegins, ReconnectWakes, ReconnectOk, ReconnectFails,
            Drop, Opened, connVars, WireInv, WireTypes
  <2>3. QED BY <2>1, <2>2, WireKept
<1>4. ASSUME NEW i \in Cmds, CommandStep(i) PROVE WireInv' BY <1>4, CommandWire
<1>5. ASSUME NEW i \in Cmds, NEW k \in Conns, Answer(k, i) PROVE WireInv' BY <1>5, AnswerWire
<1>6. CASE UNCHANGED vars
  <2>1. UNCHANGED <<via, wire, inbox, cmd, fut, ws>> BY <1>6 DEF vars, connVars, cmdVars
  <2>2. ws' \in Conns \cup {NoConn} BY <2>1 DEF WireInv, WireTypes
  <2>3. QED BY <2>1, <2>2, WireKept
<1>7. QED BY <1>1, <1>2, <1>3, <1>4, <1>5, <1>6 DEF Next

(* Each step to the commands' callers.                                             *)
Calls == [i \in Cmds |-> CallOf(i)]
Settled(i) == cmd[i] \in {"returned", "raised"} \/ fut[i] \in {"failed", "cancelled"}

LEMMA SameCalls ==
  ASSUME \A i \in Cmds : CallOf(i)' = CallOf(i) PROVE Calls' = Calls
  BY DEF Calls

LEMMA OneCall ==
  ASSUME NEW i \in Cmds, NEW s, CallOf(i)' = s, \A j \in Cmds \ {i} : CallOf(j)' = CallOf(j)
  PROVE  Calls' = [Calls EXCEPT ![i] = s]
  BY DEF Calls

LEMMA Unmoved ==
  ASSUME UNCHANGED <<cmd, fut, via, wire>> PROVE [R!Next]_Calls
<1>1. \A i \in Cmds : CallOf(i)' = CallOf(i) BY DEF CallOf
<1>2. QED BY <1>1, SameCalls

(* What is in the hands of its caller is open to the interface.                    *)
LEMMA OpenIsOpen ==
  ASSUME IInv, NEW i \in Cmds, i \in pending PROVE Calls[i] \in {"asked", "replied"}
  BY DEF IInv, PendingIsWaitedFor, Calls, CallOf

(* A disconnect raises in every call that is pending.                              *)
LEMMA FailPendingCalls ==
  ASSUME IInv, FailPending, UNCHANGED <<cmd, via, wire>> PROVE [R!Next]_Calls
<1>1. \A i \in Cmds \ pending : CallOf(i)' = CallOf(i) BY DEF FailPending, CallOf
<1>2. \A i \in pending : CallOf(i)' = "raised"
  BY DEF FailPending, CallOf, IInv, PendingIsWaitedFor, CmdTypes
<1>3. Calls' = [i \in Cmds |-> IF i \in pending THEN "raised" ELSE Calls[i]]
  BY <1>1, <1>2 DEF Calls
<1>4. CASE pending = {}
  <2>1. Calls' = Calls BY <1>3, <1>4 DEF Calls
  <2>2. QED BY <2>1
<1>5. CASE pending # {}
  <2>1. pending \in SUBSET R!Cmds BY DEF IInv, CmdTypes, Cmds, R!Cmds
  <2>2. R!Raise(pending)
    BY <1>3, <1>5, <2>1, OpenIsOpen DEF R!Raise, R!Open, R!Cmds, Calls, Cmds, IInv, CmdTypes
  <2>3. QED BY <2>1, <2>2 DEF R!Next
<1>6. QED BY <1>4, <1>5

LEMMA ReadResponseCalls ==
  ASSUME IInv, WireInv, ReadersWait, NEW k \in Conns, ReadResponse(k) PROVE [R!Next]_Calls
<1>1. PICK i \in inbox[on[k]] :
        fut' = IF i \in pending THEN [fut EXCEPT ![i] = "answered"] ELSE fut
  BY DEF ReadResponse
<1>2. UNCHANGED <<cmd, via, wire>> BY DEF ReadResponse
<1>3. \A j \in Cmds : CallOf(j)' = CallOf(j)
  BY <1>1, <1>2 DEF CallOf, IInv, CmdTypes, PendingIsWaitedFor
<1>4. QED BY <1>3, SameCalls

(* Identifiers are used without gaps, each over a socket.                          *)
UsedIds ==
  \A i \in Cmds : (i <= msgId => cmd[i] # "unsent") /\ (cmd[i] # "unsent" => via[i] \in Conns)

LEMMA UsedIdsInit == Init => UsedIds
  BY DEF Init, UsedIds, Cmds

LEMMA UsedIdsNext == ASSUME IInv, WireInv, UsedIds, [Next]_vars PROVE UsedIds'
<1>1. ASSUME NEW i \in Cmds, CommandStep(i) PROVE UsedIds'
  <2>1. CASE Send(i)
    <3>1. ws \in Conns /\ msgId' = i /\ i = msgId + 1 /\ via' = [via EXCEPT ![i] = ws]
      BY <2>1 DEF Send, IsConnected, WireInv, WireTypes
    <3>2. cmd'[i] # "unsent" /\ \A j \in Cmds \ {i} : cmd'[j] = cmd[j]
      BY <2>1 DEF Send, IInv, CmdTypes
    <3>3. QED BY <3>1, <3>2 DEF UsedIds, IInv, CmdTypes, WireInv, WireTypes, Cmds
  <2>2. CASE Sent(i) \/ SendFails(i) \/ CommandEnds(i) \/ Timeout(i)
    BY <2>2 DEF Sent, SendFails, CommandEnds, Timeout, UsedIds, IInv, CmdTypes
  <2>3. QED BY <1>1, <2>1, <2>2 DEF CommandStep
<1>2. CASE UNCHANGED <<msgId, cmd, via>> BY <1>2 DEF UsedIds
<1>3. CASE OwnerStep
  BY <1>2, <1>3 DEF OwnerStep, Connect, ConnectFails, ConnectOk, Disconnect, DisconnectJoined,
         DisconnectClosed, cmdVars
<1>4. CASE \E k \in Conns : ReaderStep(k) \/ ReconnectStep(k) \/ Drop(k)
  BY <1>2, <1>4 DEF ReaderStep, ReadStart, ReadCancelled, ReadResponse, ReadLost, ReconnectStep,
         ReconnectBegins, ReconnectWakes, ReconnectOk, ReconnectFails, Drop, cmdVars
<1>5. CASE \E i \in Cmds : \E k \in Conns : Answer(k, i)
  BY <1>2, <1>5 DEF Answer, cmdVars
<1>6. CASE UNCHANGED vars BY <1>2, <1>6 DEF vars, cmdVars
<1>7. QED BY <1>1, <1>3, <1>4, <1>5, <1>6 DEF Next

LEMMA SendCalls == ASSUME IInv, WireInv, UsedIds, NEW i \in Cmds, Send(i) PROVE [R!Next]_Calls
<1>1. ws \in Conns /\ i = msgId + 1 /\ via' = [via EXCEPT ![i] = ws]
  BY DEF Send, IsConnected, WireInv, WireTypes
<1>2. Calls[i] = "fresh"
  <2>1. i > msgId BY <1>1 DEF IInv, CmdTypes
  <2>2. cmd[i] = "unsent" BY <2>1 DEF IInv, FreshIds
  <2>3. QED BY <2>2 DEF Calls, CallOf
<1>3. \A j \in Cmds : j < i => Calls[j] # "fresh"
  BY <1>1 DEF UsedIds, Calls, CallOf, IInv, CmdTypes, Cmds
<1>4. \A j \in Cmds \ {i} : CallOf(j)' = CallOf(j)
  <2>1. ASSUME NEW j \in Cmds \ {i} PROVE CallOf(j)' = CallOf(j)
    <3>1. cmd'[j] = cmd[j] /\ fut'[j] = fut[j] /\ via'[j] = via[j]
      BY <1>1 DEF Send, IInv, CmdTypes, WireInv, WireTypes
    <3>2. \A k \in Conns : j \in wire'[k] <=> j \in wire[k]
      BY <1>1 DEF Send, WireInv, WireTypes
    <3>3. cmd[j] = "unsent" \/ via[j] \in Conns BY DEF UsedIds
    <3>4. QED BY <3>1, <3>2, <3>3 DEF CallOf
  <2>2. QED BY <2>1
<1>5. CallOf(i)' \in {"asked", "raised"}
  <2>1. CASE cmd' = [cmd EXCEPT ![i] = "raised"]
    BY <2>1 DEF CallOf, IInv, CmdTypes
  <2>2. CASE /\ cmd' = [cmd EXCEPT ![i] = "sending"]
             /\ fut' = [fut EXCEPT ![i] = "pending"]
             /\ wire' = [wire EXCEPT ![ws] = @ \cup {i}]
    <3>1. cmd'[i] = "sending" /\ fut'[i] = "pending" /\ via'[i] = ws
      BY <1>1, <2>2 DEF IInv, CmdTypes, WireInv, WireTypes
    <3>2. i \in wire'[ws] BY <1>1, <2>2 DEF WireInv, WireTypes
    <3>3. QED BY <3>1, <3>2 DEF CallOf
  <2>3. QED BY <2>1, <2>2 DEF Send
<1>6. PICK s \in {"asked", "raised"} : CallOf(i)' = s BY <1>5
<1>7. Calls' = [Calls EXCEPT ![i] = s] BY <1>4, <1>6, OneCall
<1>8. R!Ask(i) BY <1>2, <1>3, <1>7 DEF R!Ask, R!Cmds, Cmds, Calls
<1>9. QED BY <1>8 DEF R!Next, R!Cmds, Cmds

LEMMA CommandCalls ==
  ASSUME IInv, WireInv, NEW i \in Cmds, Sent(i) \/ SendFails(i) \/ CommandEnds(i) \/ Timeout(i)
  PROVE  [R!Next]_Calls
<1>1. UNCHANGED <<via, wire>> BY DEF Sent, SendFails, CommandEnds, Timeout, connVars
<1>2. \A j \in Cmds \ {i} : CallOf(j)' = CallOf(j)
  BY <1>1 DEF Sent, SendFails, CommandEnds, Timeout, CallOf, IInv, CmdTypes
<1>3. CASE CallOf(i)' = CallOf(i)
  <2>1. \A j \in Cmds : CallOf(j)' = CallOf(j) BY <1>2, <1>3
  <2>2. QED BY <2>1, SameCalls
<1>4. CASE CallOf(i)' # CallOf(i) /\ CallOf(i)' = "raised"
  <2>1. Calls[i] \in {"asked", "replied"}
    BY <1>4 DEF Sent, SendFails, CommandEnds, Timeout, Calls, CallOf
  <2>2. Calls' = [Calls EXCEPT ![i] = "raised"] BY <1>2, <1>4, OneCall
  <2>3. {i} \in SUBSET R!Cmds BY DEF Cmds, R!Cmds
  <2>4. R!Raise({i}) BY <2>1, <2>2, <2>3 DEF R!Raise, R!Open, R!Cmds, Calls, Cmds
  <2>5. QED BY <2>3, <2>4 DEF R!Next
<1>5. CASE CallOf(i)' # CallOf(i) /\ CallOf(i)' # "raised"
  <2>1. Calls[i] = "replied" /\ CallOf(i)' = "returned"
    BY <1>1, <1>5 DEF Sent, SendFails, CommandEnds, Timeout, Calls, CallOf, IInv, CmdTypes,
              WireInv, AnswerIsReply
  <2>2. Calls' = [Calls EXCEPT ![i] = "returned"] BY <1>2, <2>1, OneCall
  <2>3. R!Return(i) BY <2>1, <2>2 DEF R!Return, Calls
  <2>4. QED BY <2>3 DEF R!Next, R!Cmds, Cmds
<1>6. QED BY <1>3, <1>4, <1>5

LEMMA AnswerCalls ==
  ASSUME IInv, WireInv, NEW i \in Cmds, NEW k \in Conns, Answer(k, i) PROVE [R!Next]_Calls
<1>1. via[i] = k /\ i \in wire[k] /\ cmd[i] # "unsent" BY DEF Answer, WireInv, OnItsWire
<1>2. UNCHANGED <<cmd, fut, via>> /\ wire' = [wire EXCEPT ![k] = @ \ {i}] BY DEF Answer, cmdVars
<1>3. \A j \in Cmds \ {i} : CallOf(j)' = CallOf(j)
  BY <1>2 DEF CallOf, WireInv, WireTypes
<1>4. CASE Settled(i)
  <2>1. CallOf(i)' = CallOf(i) BY <1>1, <1>2, <1>4 DEF CallOf, Settled
  <2>2. \A j \in Cmds : CallOf(j)' = CallOf(j) BY <1>3, <2>1
  <2>3. QED BY <2>2, SameCalls
<1>5. CASE ~Settled(i)
  <2>1. Calls[i] = "asked" BY <1>1, <1>5 DEF Calls, CallOf, Settled
  <2>2. CallOf(i)' = "replied"
    BY <1>1, <1>2, <1>5 DEF CallOf, Settled, WireInv, WireTypes
  <2>3. Calls' = [Calls EXCEPT ![i] = "replied"] BY <1>3, <2>2, OneCall
  <2>4. R!Reply(i) BY <2>1, <2>3 DEF R!Reply, Calls
  <2>5. QED BY <2>4 DEF R!Next, R!Cmds, Cmds
<1>6. QED BY <1>4, <1>5

LEMMA StepImplements ==
  ASSUME IInv, WireInv, ReadersWait, UsedIds, [Next]_vars PROVE [R!Next]_Calls
<1>1. CASE OwnerStep
  <2>1. UNCHANGED <<cmd, via, wire>>
    BY <1>1 DEF OwnerStep, Connect, ConnectFails, ConnectOk, Disconnect, DisconnectJoined,
           DisconnectClosed, cmdVars
  <2>2. FailPending \/ UNCHANGED fut
    BY <1>1 DEF OwnerStep, Connect, ConnectFails, ConnectOk, Disconnect, DisconnectJoined,
           DisconnectClosed, CloseSocket, cmdVars
  <2>3. QED BY <2>1, <2>2, FailPendingCalls, Unmoved
<1>2. CASE \E k \in Conns : ReadResponse(k) BY <1>2, ReadResponseCalls
<1>3. CASE \E k \in Conns : ReadStart(k) \/ ReadCancelled(k) \/ ReadLost(k) \/ ReconnectStep(k) \/ Drop(k)
  <2>1. UNCHANGED <<cmd, fut, via, wire>>
    BY <1>3 DEF ReadStart, ReadCancelled, ReadLost, ReconnectStep, ReconnectBegins, ReconnectWakes,
           ReconnectOk, ReconnectFails, Drop, cmdVars, connVars
  <2>2. QED BY <2>1, Unmoved
<1>4. CASE \E i \in Cmds : CommandStep(i) BY <1>4, SendCalls, CommandCalls DEF CommandStep
<1>5. CASE \E i \in Cmds : \E k \in Conns : Answer(k, i) BY <1>5, AnswerCalls
<1>6. CASE UNCHANGED vars
  <2>1. UNCHANGED <<cmd, fut, via, wire>> BY <1>6 DEF vars, cmdVars, connVars
  <2>2. QED BY <2>1, Unmoved
<1>7. QED BY <1>1, <1>2, <1>3, <1>4, <1>5, <1>6 DEF Next, ReaderStep

(* For any number of sockets, commands and attempts the transport is what its      *)
(* interface promises: a command returns the reply to it alone, or raises          *)
(* (ICDPTransport.send_command, _read_loop, disconnect).                           *)
THEOREM TransportImplementsReplies == Spec => ImplementsCommandReplies
<1>1. Init => R!Init
  BY DEF Init, R!Init, CallOf, R!Cmds, Cmds
<1>2. Spec => [](IInv /\ WireInv /\ ReadersWait /\ UsedIds)
  BY InitInv, NextInv, WireInit, WireNext, ReadersInit, ReadersInv, UsedIdsInit, UsedIdsNext, PTL DEF Spec
<1>3. IInv /\ WireInv /\ ReadersWait /\ UsedIds /\ [Next]_vars => [R!Next]_([i \in Cmds |-> CallOf(i)])
  BY StepImplements DEF Calls
<1>4. QED BY <1>1, <1>2, <1>3, PTL DEF Spec, R!Spec, ImplementsCommandReplies

--------------------------------------------------------------------------------
(* Readers, reconnects and sockets.  One coroutine at a time is busy with the      *)
(* connection: a read loop, or the reconnect it leaves behind.                     *)
ConnTypes ==
  /\ ws \in Conns \cup {NoConn}
  /\ readTask \in Conns \cup {NoConn}
  /\ sock \in [Conns -> {"unborn", "open", "closed"}]
  /\ reader \in [Conns -> {"none", "starting", "receiving", "done"}]
  /\ on \in [Conns -> Conns \cup {NoConn}]
  /\ recon \in [Conns -> {"none", "scheduled", "sleeping", "opening", "done"}]
  /\ core \in {"idle", "opening", "up", "joining", "closing", "down"}

(* A read loop and a reconnect have the number of a socket that was opened, and    *)
(* the owner's connect opens the first.                                            *)
Numbered ==
  /\ \A k \in Conns : sock[k] = "unborn" => reader[k] = "none" /\ recon[k] = "none"
  /\ core \in {"idle", "opening"} => \A k \in Conns : sock[k] = "unborn"

Busy(k) == Alive(k) \/ Reconnecting(k)
OneBusy ==
  /\ \A j, k \in Conns : Busy(j) /\ Busy(k) => j = k
  /\ \A k \in Conns : recon[k] # "none" => reader[k] = "done"

(* A read loop waits on the transport's socket, until somebody disconnects.        *)
OnItsSocket ==
  \A k \in Conns :
    /\ on[k] # NoConn => reader[k] = "receiving"
    /\ ~closing /\ reader[k] = "receiving" => on[k] = ws

(* Nobody reconnects while the transport's socket is open, nor while it is closed  *)
(* on request; an open socket is the transport's.                                  *)
SocketsKnown ==
  /\ \A k \in Conns : Reconnecting(k) => ~SocketOpen
  /\ core \in {"joining", "closing"} => closing /\ \A k \in Conns : ~Reconnecting(k)
  /\ core = "closing" => closes = ws /\ ws \in Conns
  /\ \A k \in Conns : sock[k] = "open" => k = ws

(* Only disconnect sets _close_requested and cancels.                              *)
Undisturbed ==
  /\ core \in {"idle", "opening", "up"} => ~closing
  /\ ~closing => cancelled = {}

ConnInv ==
  /\ ConnTypes /\ Numbered /\ OneBusy /\ OnItsSocket /\ SocketsKnown /\ Undisturbed
  /\ ConnectedHasReader

LEMMA ConnInit == Init => ConnInv
  BY DEF Init, ConnInv, ConnTypes, Numbered, OneBusy, Busy, Alive, Reconnecting, OnItsSocket,
         SocketsKnown, SocketOpen, Undisturbed, ConnectedHasReader, IsConnected, NoConn

ConnState == <<status, ws, closing, readTask, sock, closes, core, reader, on, cancelled, recon>>

LEMMA ConnKept == ASSUME ConnInv, UNCHANGED ConnState PROVE ConnInv'
  BY DEF ConnState, ConnInv, ConnTypes, Numbered, OneBusy, Busy, Alive, Reconnecting, OnItsSocket,
         SocketsKnown, SocketOpen, Undisturbed, ConnectedHasReader, IsConnected

(* A read loop ends by itself only when the transport's socket is gone.            *)
LEMMA ExitConn ==
  ASSUME ConnInv, NEW k \in Conns, Alive(k), Exit(k),
         UNCHANGED <<ws, closing, readTask, sock, closes, core, cancelled>>,
         ~closing /\ status = "CONNECTED" => ~SocketOpen
  PROVE  ConnInv'
<1>1. /\ reader' = [reader EXCEPT ![k] = "done"] /\ on' = [on EXCEPT ![k] = NoConn]
      /\ \A j \in Conns : j # k => ~Busy(j)
      /\ sock[k] # "unborn"
  BY DEF Exit, ConnInv, OneBusy, Busy, Numbered, Alive
<1>2. CASE ~closing /\ status = "CONNECTED"
  <2>1. status' = "DEGRADED" /\ recon' = [recon EXCEPT ![k] = "scheduled"] BY <1>2 DEF Exit
  <2>2. ConnTypes' BY <1>1, <2>1 DEF ConnInv, ConnTypes
  <2>3. Numbered' BY <1>1, <2>1 DEF ConnInv, ConnTypes, Numbered
  <2>4. OneBusy' BY <1>1, <2>1 DEF ConnInv, ConnTypes, OneBusy, Busy, Alive, Reconnecting
  <2>5. OnItsSocket' BY <1>1, <2>1 DEF ConnInv, ConnTypes, OnItsSocket
  <2>6. SocketsKnown' BY <1>1, <1>2, <2>1 DEF ConnInv, ConnTypes, SocketsKnown, SocketOpen, Undisturbed
  <2>7. Undisturbed' BY DEF ConnInv, Undisturbed
  <2>8. ConnectedHasReader' BY <2>1 DEF ConnectedHasReader, IsConnected
  <2>9. QED BY <2>2, <2>3, <2>4, <2>5, <2>6, <2>7, <2>8 DEF ConnInv
<1>3. CASE ~(~closing /\ status = "CONNECTED")
  <2>1. UNCHANGED <<status, recon>> BY <1>3 DEF Exit
  <2>2. ConnTypes' BY <1>1, <2>1 DEF ConnInv, ConnTypes
  <2>3. Numbered' BY <1>1, <2>1 DEF ConnInv, ConnTypes, Numbered
  <2>4. OneBusy' BY <1>1, <2>1 DEF ConnInv, ConnTypes, OneBusy, Busy, Alive, Reconnecting
  <2>5. OnItsSocket' BY <1>1, <2>1 DEF ConnInv, ConnTypes, OnItsSocket
  <2>6. SocketsKnown' BY <2>1 DEF ConnInv, SocketsKnown, SocketOpen, Reconnecting
  <2>7. Undisturbed' BY DEF ConnInv, Undisturbed
  <2>8. ConnectedHasReader' BY <1>3, <2>1 DEF ConnInv, Undisturbed, ConnectedHasReader, IsConnected
  <2>9. QED BY <2>2, <2>3, <2>4, <2>5, <2>6, <2>7, <2>8 DEF ConnInv
<1>4. QED BY <1>2, <1>3

LEMMA HeadConn ==
  ASSUME ConnInv, NEW k \in Conns, Alive(k), Head(k),
         UNCHANGED <<ws, closing, readTask, sock, closes, core, cancelled>>
  PROVE  ConnInv'
<1>1. \A j \in Conns : j # k => on[j] = NoConn
  BY DEF ConnInv, ConnTypes, OneBusy, Busy, Alive, OnItsSocket
<1>2. CASE /\ IsConnected
           /\ reader' = [reader EXCEPT ![k] = "receiving"] /\ on' = [on EXCEPT ![k] = ws]
           /\ UNCHANGED <<status, recon>>
  <2>1. ConnTypes' BY <1>2 DEF ConnInv, ConnTypes
  <2>2. Numbered' BY <1>2 DEF ConnInv, ConnTypes, Numbered, Alive
  <2>3. OneBusy' BY <1>2 DEF ConnInv, ConnTypes, OneBusy, Busy, Alive, Reconnecting
  <2>4. OnItsSocket' BY <1>2 DEF ConnInv, ConnTypes, OnItsSocket
  <2>5. SocketsKnown' BY <1>2 DEF ConnInv, SocketsKnown, SocketOpen, Reconnecting
  <2>6. Undisturbed' BY DEF ConnInv, Undisturbed
  <2>7. ConnectedHasReader'
    <3>1. reader'[k] = "receiving" BY <1>2 DEF ConnInv, ConnTypes
    <3>2. QED BY <3>1 DEF ConnectedHasReader, Alive
  <2>8. QED BY <2>1, <2>2, <2>3, <2>4, <2>5, <2>6, <2>7 DEF ConnInv
<1>3. CASE Exit(k) /\ ~(IsConnected /\ \A j \in Conns \ {k} : on[j] # ws)
  <2>1. status = "CONNECTED" => ws = NoConn BY <1>1, <1>3 DEF IsConnected
  <2>2. ~closing /\ status = "CONNECTED" => ~SocketOpen BY <2>1 DEF SocketOpen
  <2>3. QED BY <1>3, <2>2, ExitConn
<1>4. QED BY <1>2, <1>3 DEF Head

(* A socket is opened when nobody reads and none is open.                          *)
LEMMA OpenedConn ==
  ASSUME ConnInv, NEW c \in Conns, Opened(c), ~SocketOpen, \A j \in Conns : ~Alive(j),
         recon' \in [Conns -> {"none", "scheduled", "sleeping", "opening", "done"}],
         \A j \in Conns : ~Reconnecting(j)' /\ (recon'[j] # "none" => recon[j] # "none"),
         core \notin {"joining", "closing"}, core' \in {"up", "down"}, core' = "up" => ~closing,
         UNCHANGED <<closing, closes, on, cancelled>>
  PROVE  ConnInv'
<1>1. /\ sock[c] = "unborn" /\ sock' = [sock EXCEPT ![c] = "open"] /\ ws' = c
      /\ reader' = [reader EXCEPT ![c] = "starting"] /\ readTask' = c
  BY DEF Opened, Unborn
<1>2. reader[c] = "none" /\ recon[c] = "none" BY <1>1 DEF ConnInv, Numbered
<1>3. ConnTypes' BY <1>1 DEF ConnInv, ConnTypes
<1>4. Numbered' BY <1>1 DEF ConnInv, ConnTypes, Numbered
<1>5. OneBusy'
  <2>1. \A j \in Conns : j # c => ~Alive(j)' BY <1>1 DEF ConnInv, ConnTypes, Alive
  <2>2. \A j \in Conns : recon'[j] # "none" => reader'[j] = "done"
    BY <1>1, <1>2 DEF ConnInv, ConnTypes, OneBusy
  <2>3. QED BY <2>1, <2>2 DEF OneBusy, Busy
<1>6. OnItsSocket' BY <1>1, <1>2 DEF ConnInv, ConnTypes, OnItsSocket, Alive
<1>7. SocketsKnown'
  <2>1. \A j \in Conns : sock[j] # "open" BY DEF ConnInv, SocketsKnown, SocketOpen, NoConn, Conns
  <2>2. QED BY <1>1, <2>1 DEF ConnInv, ConnTypes, SocketsKnown
<1>8. Undisturbed' BY DEF ConnInv, Undisturbed
<1>9. ConnectedHasReader'
  <2>1. reader'[c] = "starting" BY <1>1 DEF ConnInv, ConnTypes
  <2>2. QED BY <2>1 DEF ConnectedHasReader, Alive
<1>10. QED BY <1>3, <1>4, <1>5, <1>6, <1>7, <1>8, <1>9 DEF ConnInv

LEMMA ConnectConn == ASSUME ConnInv, Connect \/ ConnectFails \/ \E c \in Conns : ConnectOk(c) PROVE ConnInv'
<1>1. core \in {"idle", "opening"} => \A j \in Conns : ~Alive(j) /\ ~Reconnecting(j) /\ ~SocketOpen
  BY DEF ConnInv, ConnTypes, Numbered, Alive, Reconnecting, SocketOpen
<1>2. CASE Connect
  BY <1>2 DEF Connect, readVars, reconVars, ConnInv, ConnTypes, Numbered, OneBusy, Busy, Alive, Reconnecting, OnItsSocket,
         SocketsKnown, SocketOpen, Undisturbed, ConnectedHasReader, IsConnected
<1>3. CASE ConnectFails
  BY <1>3 DEF ConnectFails, readVars, reconVars, ConnInv, ConnTypes, Numbered, OneBusy, Busy, Alive, Reconnecting, OnItsSocket,
         SocketsKnown, SocketOpen, Undisturbed, ConnectedHasReader, IsConnected
<1>4. ASSUME NEW c \in Conns, ConnectOk(c) PROVE ConnInv'
  <2>1. UNCHANGED <<closing, closes, on, cancelled, recon>> /\ core = "opening" /\ core' = "up"
    BY <1>4 DEF ConnectOk, reconVars
  <2>2. \A j \in Conns : ~Reconnecting(j)' BY <1>1, <2>1 DEF Reconnecting
  <2>3. ~closing /\ ~SocketOpen /\ \A j \in Conns : ~Alive(j)
    BY <1>1, <2>1 DEF ConnInv, Undisturbed
  <2>4. recon' \in [Conns -> {"none", "scheduled", "sleeping", "opening", "done"}]
    BY <2>1 DEF ConnInv, ConnTypes
  <2>5. Opened(c) BY <1>4 DEF ConnectOk
  <2>6. QED BY <2>1, <2>2, <2>3, <2>4, <2>5, OpenedConn
<1>5. QED BY <1>2, <1>3, <1>4

(* disconnect: the socket it goes on to.                                           *)
LEMMA CloseSocketConn ==
  ASSUME ConnInv, CloseSocket, closing', core \in {"up", "joining"},
         status' = "CLOSED" \/ core # "up",
         readTask' \in Conns \cup {NoConn},
         UNCHANGED <<sock, reader, on, recon>>
  PROVE  ConnInv'
<1>1. \A j \in Conns : Reconnecting(j) => ~SocketOpen BY DEF ConnInv, SocketsKnown
<1>2. \/ SocketOpen /\ closes' = ws /\ core' = "closing" /\ ws' = ws
      \/ ~SocketOpen /\ ws' = NoConn /\ core' = "down"
  BY DEF CloseSocket
<1>3. ConnTypes' BY <1>2 DEF ConnInv, ConnTypes
<1>4. Numbered' BY <1>2 DEF ConnInv, Numbered
<1>5. OneBusy' BY DEF ConnInv, OneBusy, Busy, Alive, Reconnecting
<1>6. OnItsSocket' BY DEF ConnInv, OnItsSocket
<1>7. SocketsKnown'
  <2>1. CASE SocketOpen /\ closes' = ws /\ core' = "closing" /\ ws' = ws
    BY <1>1, <2>1 DEF ConnInv, ConnTypes, SocketsKnown, SocketOpen, Reconnecting
  <2>2. CASE ~SocketOpen /\ ws' = NoConn /\ core' = "down"
    <3>1. \A j \in Conns : sock[j] # "open" BY <2>2 DEF ConnInv, SocketsKnown, SocketOpen, NoConn, Conns
    <3>2. QED BY <2>2, <3>1 DEF ConnInv, SocketsKnown, SocketOpen, NoConn, Conns
  <2>3. QED BY <1>2, <2>1, <2>2
<1>8. Undisturbed' BY <1>2 DEF Undisturbed
<1>9. ConnectedHasReader' BY <1>2 DEF ConnectedHasReader
<1>10. QED BY <1>3, <1>4, <1>5, <1>6, <1>7, <1>8, <1>9 DEF ConnInv

LEMMA DisconnectConn ==
  ASSUME ConnInv, Disconnect \/ DisconnectJoined \/ DisconnectClosed PROVE ConnInv'
<1>1. CASE Disconnect
  <2>1. core = "up" /\ closing' /\ status' = "CLOSED" /\ UNCHANGED <<readTask, sock, reader, on, recon>>
    BY <1>1 DEF Disconnect, reconVars
  <2>2. CASE CloseSocket
    BY <2>1, <2>2, CloseSocketConn DEF ConnInv, ConnTypes
  <2>3. CASE /\ readTask # NoConn /\ Alive(readTask) /\ core' = "joining"
             /\ UNCHANGED <<ws, closes>>
    <3>1. readTask \in Conns BY <2>3 DEF ConnInv, ConnTypes
    <3>2. \A j \in Conns : ~Reconnecting(j)
      BY <2>3, <3>1 DEF ConnInv, OneBusy, Busy, Alive, Reconnecting
    <3>3. ConnTypes' /\ Numbered' BY <2>1, <2>3 DEF ConnInv, ConnTypes, Numbered
    <3>4. OneBusy' BY <2>1 DEF ConnInv, OneBusy, Busy, Alive, Reconnecting
    <3>5. OnItsSocket' BY <2>1 DEF ConnInv, OnItsSocket
    <3>6. SocketsKnown' BY <2>1, <2>3, <3>2 DEF ConnInv, SocketsKnown, SocketOpen, Reconnecting
    <3>7. Undisturbed' /\ ConnectedHasReader' BY <2>1, <2>3 DEF Undisturbed, ConnectedHasReader
    <3>8. QED BY <3>3, <3>4, <3>5, <3>6, <3>7 DEF ConnInv
  <2>4. QED BY <1>1, <2>2, <2>3 DEF Disconnect
<1>2. CASE DisconnectJoined
  <2>1. /\ core = "joining" /\ readTask' = NoConn /\ CloseSocket
        /\ UNCHANGED <<closing, sock, reader, on, recon>>
    BY <1>2 DEF DisconnectJoined, readVars, reconVars
  <2>2. closing' BY <2>1 DEF ConnInv, SocketsKnown
  <2>3. QED BY <2>1, <2>2, CloseSocketConn
<1>3. CASE DisconnectClosed
  <2>1. /\ core = "closing" /\ sock' = [sock EXCEPT ![closes] = "closed"] /\ ws' = NoConn
        /\ core' = "down" /\ UNCHANGED <<closing, readTask, reader, on, cancelled, recon>>
    BY <1>3 DEF DisconnectClosed, readVars, reconVars
  <2>2. closing /\ closes = ws /\ ws \in Conns BY <2>1 DEF ConnInv, SocketsKnown
  <2>3. ConnTypes' /\ Numbered' BY <2>1, <2>2 DEF ConnInv, ConnTypes, Numbered
  <2>4. OneBusy' BY <2>1 DEF ConnInv, OneBusy, Busy, Alive, Reconnecting
  <2>5. OnItsSocket' BY <2>1, <2>2 DEF ConnInv, OnItsSocket
  <2>6. SocketsKnown' BY <2>1, <2>2 DEF ConnInv, ConnTypes, SocketsKnown, SocketOpen, NoConn, Conns
  <2>7. Undisturbed' /\ ConnectedHasReader' BY <2>1, <2>2 DEF Undisturbed, ConnectedHasReader
  <2>8. QED BY <2>3, <2>4, <2>5, <2>6, <2>7 DEF ConnInv
<1>4. QED BY <1>1, <1>2, <1>3

LEMMA ReaderConn == ASSUME ConnInv, NEW k \in Conns, ReaderStep(k) PROVE ConnInv'
<1>1. UNCHANGED <<ws, closing, readTask, sock, closes, core, cancelled>>
  BY DEF ReaderStep, ReadStart, ReadCancelled, ReadResponse, ReadLost
<1>2. CASE ReadStart(k) \/ ReadResponse(k)
  <2>1. Alive(k) /\ Head(k) BY <1>2 DEF ReadStart, ReadResponse, Alive
  <2>2. QED BY <1>1, <2>1, HeadConn
<1>3. CASE ReadCancelled(k)
  <2>1. closing BY <1>3 DEF ReadCancelled, ConnInv, Undisturbed
  <2>2. CASE reader[k] = "receiving" /\ Exit(k)
    <3>1. Alive(k) BY <2>2 DEF Alive
    <3>2. QED BY <1>1, <2>1, <2>2, <3>1, ExitConn
  <2>3. CASE /\ reader[k] = "starting" /\ reader' = [reader EXCEPT ![k] = "done"]
             /\ UNCHANGED <<status, on, recon>>
    <3>1. ConnTypes' /\ Numbered' BY <1>1, <2>3 DEF ConnInv, ConnTypes, Numbered
    <3>2. OneBusy' BY <2>3 DEF ConnInv, ConnTypes, OneBusy, Busy, Alive, Reconnecting
    <3>3. OnItsSocket' BY <1>1, <2>3 DEF ConnInv, ConnTypes, OnItsSocket
    <3>4. SocketsKnown' BY <1>1, <2>3 DEF ConnInv, SocketsKnown, SocketOpen, Reconnecting
    <3>5. Undisturbed' /\ ConnectedHasReader'
      BY <1>1, <2>1 DEF ConnInv, Undisturbed, ConnectedHasReader
    <3>6. QED BY <3>1, <3>2, <3>3, <3>4, <3>5 DEF ConnInv
  <2>4. QED BY <1>3, <2>2, <2>3 DEF ReadCancelled
<1>4. CASE ReadLost(k)
  <2>1. Alive(k) /\ Exit(k) /\ sock[on[k]] = "closed" /\ reader[k] = "receiving"
    BY <1>4 DEF ReadLost, Alive
  <2>2. ~closing => ~SocketOpen BY <2>1 DEF ConnInv, OnItsSocket, SocketOpen
  <2>3. QED BY <1>1, <2>1, <2>2, ExitConn
<1>5. QED BY <1>2, <1>3, <1>4 DEF ReaderStep

LEMMA ReconnectConn == ASSUME ConnInv, NEW k \in Conns, ReconnectStep(k) PROVE ConnInv'
<1>1. /\ Reconnecting(k) /\ recon[k] # "none"
      /\ core \notin {"idle", "opening", "joining", "closing"}
      /\ ~SocketOpen /\ \A j \in Conns : ~Alive(j)
  <2>1. Reconnecting(k) /\ recon[k] # "none"
    BY DEF ReconnectStep, ReconnectBegins, ReconnectWakes, ReconnectOk, ReconnectFails, Reconnecting
  <2>2. core \notin {"idle", "opening", "joining", "closing"}
    BY <2>1 DEF ConnInv, Numbered, SocketsKnown
  <2>3. ~SocketOpen BY <2>1 DEF ConnInv, SocketsKnown
  <2>4. \A j \in Conns : ~Alive(j)
    BY <2>1 DEF ConnInv, OneBusy, Busy, Alive
  <2>5. QED BY <2>1, <2>2, <2>3, <2>4
<1>2. CASE ReconnectBegins(k) \/ ReconnectWakes(k) \/ ReconnectFails(k)
  <2>1. /\ UNCHANGED <<ws, closing, readTask, sock, closes, core, reader, on, cancelled>>
        /\ \E r \in {"sleeping", "opening", "done"} : recon' = [recon EXCEPT ![k] = r]
    BY <1>2 DEF ReconnectBegins, ReconnectWakes, ReconnectFails, connVars, coreVars, readVars
  <2>2. status' = status \/ status' # "CONNECTED"
    BY <1>2 DEF ReconnectBegins, ReconnectWakes, ReconnectFails, connVars
  <2>3. \A j \in Conns : j # k => ~Busy(j) BY <1>1 DEF ConnInv, OneBusy, Busy
  <2>4. ConnTypes' /\ Numbered' BY <1>1, <2>1 DEF ConnInv, ConnTypes, Numbered
  <2>5. OneBusy' BY <1>1, <2>1, <2>3 DEF ConnInv, ConnTypes, OneBusy, Busy, Alive, Reconnecting
  <2>6. OnItsSocket' BY <2>1 DEF ConnInv, OnItsSocket
  <2>7. SocketsKnown' BY <1>1, <2>1 DEF ConnInv, SocketsKnown, SocketOpen
  <2>8. Undisturbed' BY <2>1 DEF ConnInv, Undisturbed
  <2>9. ConnectedHasReader' BY <2>1, <2>2 DEF ConnInv, ConnectedHasReader, IsConnected, Alive
  <2>10. QED BY <2>4, <2>5, <2>6, <2>7, <2>8, <2>9 DEF ConnInv
<1>3. CASE ReconnectOk(k)
  <2>1. PICK c \in Conns : Opened(c) BY <1>3 DEF ReconnectOk
  <2>2. recon' = [recon EXCEPT ![k] = "done"] /\ UNCHANGED <<closing, closes, core, on, cancelled>>
    BY <1>3 DEF ReconnectOk, coreVars
  <2>3. recon' \in [Conns -> {"none", "scheduled", "sleeping", "opening", "done"}]
    BY <2>2 DEF ConnInv, ConnTypes
  <2>4. \A j \in Conns : ~Reconnecting(j)' /\ (recon'[j] # "none" => recon[j] # "none")
    BY <1>1, <2>2 DEF ConnInv, ConnTypes, OneBusy, Busy, Reconnecting
  <2>5. core' \in {"up", "down"} /\ (core' = "up" => ~closing)
    BY <1>1, <2>2 DEF ConnInv, ConnTypes, Undisturbed
  <2>6. QED BY <1>1, <2>1, <2>2, <2>3, <2>4, <2>5, OpenedConn
<1>4. QED BY <1>2, <1>3 DEF ReconnectStep

LEMMA DropConn == ASSUME ConnInv, NEW k \in Conns, Drop(k) PROVE ConnInv'
<1>1. /\ sock' = [sock EXCEPT ![k] = "closed"]
      /\ UNCHANGED <<status, ws, closing, readTask, closes, core, reader, on, cancelled, recon>>
      /\ sock[k] = "open"
  BY DEF Drop, coreVars, readVars, reconVars
<1>2. ConnTypes' /\ Numbered' BY <1>1 DEF ConnInv, ConnTypes, Numbered
<1>3. OneBusy' /\ OnItsSocket' BY <1>1 DEF ConnInv, OneBusy, Busy, Alive, Reconnecting, OnItsSocket
<1>4. SocketsKnown' BY <1>1 DEF ConnInv, ConnTypes, SocketsKnown, SocketOpen, Reconnecting
<1>5. Undisturbed' /\ ConnectedHasReader'
  BY <1>1 DEF ConnInv, Undisturbed, ConnectedHasReader, IsConnected, Alive
<1>6. QED BY <1>2, <1>3, <1>4, <1>5 DEF ConnInv

LEMMA ConnNext == ASSUME ConnInv, [Next]_vars PROVE ConnInv'
<1>1. CASE OwnerStep BY <1>1, ConnectConn, DisconnectConn DEF OwnerStep
<1>2. CASE \E k \in Conns : ReaderStep(k) \/ ReconnectStep(k) \/ Drop(k)
  BY <1>2, ReaderConn, ReconnectConn, DropConn
<1>3. CASE \E i \in Cmds : CommandStep(i)
  BY <1>3, ConnKept DEF CommandStep, Send, Sent, SendFails, CommandEnds, Timeout, ConnState,
         connVars, coreVars, readVars, reconVars
<1>4. CASE \E i \in Cmds : \E k \in Conns : Answer(k, i)
  BY <1>4, ConnKept DEF Answer, ConnState, coreVars, readVars, reconVars
<1>5. CASE UNCHANGED vars
  BY <1>5, ConnKept DEF vars, ConnState, connVars, coreVars, readVars, reconVars
<1>6. QED BY <1>1, <1>2, <1>3, <1>4, <1>5 DEF Next

(* For any number of sockets, commands and attempts: requests are settled once, a  *)
(* connected transport is read, by one loop, one coroutine reconnects it, and no   *)
(* socket is left open that it does not know of (connect, disconnect, reconnect    *)
(* and _read_loop of WebSocketCDPTransport).                                       *)
THEOREM TransportSound == Spec => []TransportIsSound
<1>1. Spec => [](IInv /\ ConnInv)
  BY InitInv, NextInv, ConnInit, ConnNext, PTL DEF Spec
<1>2. IInv /\ ConnInv => TransportIsSound
  <2>1. ConnInv => OneAtATime BY DEF ConnInv, OneBusy, Busy, OneAtATime
  <2>2. ConnInv => NoLeakedSocket BY DEF ConnInv, SocketsKnown, NoLeakedSocket
  <2>3. QED BY <2>1, <2>2 DEF IInv, ConnInv, TransportIsSound
<1>3. QED BY <1>1, <1>2, PTL

--------------------------------------------------------------------------------
(* Nothing waits for ever: the safety half of EveryCommandEnds and LossIsNoticed.  *)

(* A transport its owner keeps up has a socket that was opened, and says that it   *)
(* is connected or degraded, or is being reconnected.                              *)
UpHasSocket ==
  /\ core = "up" => ws # NoConn
  /\ ws # NoConn => sock[ws] # "unborn"
StatusTells ==
  core = "up" => status \in {"CONNECTED", "DEGRADED"} \/ \E k \in Conns : Reconnecting(k)

(* A future somebody waits for is still open, or holds an answer or an error.      *)
FutureHeld ==
  \A i \in Cmds : cmd[i] \in {"sending", "waiting"} => fut[i] \in {"pending", "answered", "failed"}

Attempts ==
  /\ attempt \in [Conns -> 0 .. MaxAttempts]
  /\ \A k \in Conns : recon[k] \in {"sleeping", "opening"} => attempt[k] \in 1 .. MaxAttempts

WitnessInv == UpHasSocket /\ StatusTells /\ FutureHeld /\ Attempts

(* How far a command has come, and how many moves a reconnect has left.            *)
Stage(c) == IF c = "unsent" THEN 0 ELSE IF c = "sending" THEN 1 ELSE IF c = "waiting" THEN 2 ELSE 3
MovesLeft(r, n) ==
  IF r = "none" THEN 2 * MaxAttempts + 2
  ELSE IF r = "scheduled" THEN 2 * MaxAttempts + 1
  ELSE IF r = "sleeping" THEN 2 * (MaxAttempts - n) + 2
  ELSE IF r = "opening" THEN 2 * (MaxAttempts - n) + 1 ELSE 0

CommandOnward(i) == cmd'[i] # cmd[i] => Stage(cmd'[i]) > Stage(cmd[i])
ReconnectOnward(k) ==
  recon'[k] # recon[k] \/ attempt'[k] # attempt[k]
    => MovesLeft(recon'[k], attempt'[k]) < MovesLeft(recon[k], attempt[k])
Onward == (\A i \in Cmds : CommandOnward(i)) /\ (\A k \in Conns : ReconnectOnward(k))

LEMMA WitnessInit == Init => WitnessInv
  BY BoundAssumption
     DEF Init, WitnessInv, UpHasSocket, StatusTells, FutureHeld, Attempts, Conns, Cmds, NoConn

(* What leaves the requests, or the reconnects, alone.                             *)
LEMMA CommandsRest ==
  ASSUME FutureHeld, UNCHANGED <<cmd, fut>>
  PROVE  FutureHeld' /\ \A i \in Cmds : CommandOnward(i)
  BY DEF FutureHeld, CommandOnward

LEMMA CommandsFail ==
  ASSUME FutureHeld, FailPending, UNCHANGED cmd
  PROVE  FutureHeld' /\ \A i \in Cmds : CommandOnward(i)
  BY DEF FutureHeld, CommandOnward, FailPending

LEMMA ReconnectsRest ==
  ASSUME Attempts, UNCHANGED <<recon, attempt>>
  PROVE  Attempts' /\ \A k \in Conns : ReconnectOnward(k)
  BY DEF Attempts, ReconnectOnward

LEMMA OwnerWitness == ASSUME ConnInv, WitnessInv, OwnerStep PROVE WitnessInv' /\ Onward
<1>1. UNCHANGED <<recon, attempt>>
  BY DEF OwnerStep, Connect, ConnectFails, ConnectOk, Disconnect, DisconnectJoined, DisconnectClosed, reconVars
<1>2. Attempts' /\ \A k \in Conns : ReconnectOnward(k)
  BY <1>1, ReconnectsRest DEF WitnessInv
<1>3. FutureHeld' /\ \A i \in Cmds : CommandOnward(i)
  <2>1. CASE Connect \/ ConnectFails \/ \E k \in Conns : ConnectOk(k)
    <3>1. UNCHANGED <<cmd, fut>> BY <2>1 DEF Connect, ConnectFails, ConnectOk, cmdVars
    <3>2. QED BY <3>1, CommandsRest DEF WitnessInv
  <2>2. CASE Disconnect \/ DisconnectJoined \/ DisconnectClosed
    <3>1. UNCHANGED cmd BY <2>2 DEF Disconnect, DisconnectJoined, DisconnectClosed
    <3>2. FailPending \/ UNCHANGED fut
      BY <2>2 DEF Disconnect, DisconnectJoined, DisconnectClosed, CloseSocket
    <3>3. QED BY <3>1, <3>2, CommandsRest, CommandsFail DEF WitnessInv
  <2>3. QED BY <2>1, <2>2 DEF OwnerStep
<1>4. UpHasSocket' /\ StatusTells'
  <2>1. ASSUME NEW k \in Conns, ConnectOk(k)
        PROVE  UpHasSocket' /\ StatusTells'
    <3>1. ws' = k /\ status' = "CONNECTED" /\ sock' = [sock EXCEPT ![k] = "open"] /\ core' = "up"
      BY <2>1 DEF ConnectOk, Opened
    <3>2. sock'[k] = "open" BY <3>1 DEF ConnInv, ConnTypes
    <3>3. QED BY <3>1, <3>2 DEF UpHasSocket, StatusTells, Conns, NoConn
  <2>2. CASE Connect \/ ConnectFails \/ Disconnect \/ DisconnectJoined
    <3>1. core' # "up" /\ UNCHANGED sock /\ ws' \in {ws, NoConn}
      BY <2>2 DEF Connect, ConnectFails, Disconnect, DisconnectJoined, CloseSocket
    <3>2. QED BY <3>1 DEF WitnessInv, UpHasSocket, StatusTells
  <2>3. CASE DisconnectClosed
    <3>1. core' = "down" /\ ws' = NoConn BY <2>3 DEF DisconnectClosed
    <3>2. QED BY <3>1 DEF UpHasSocket, StatusTells
  <2>4. QED BY <2>1, <2>2, <2>3 DEF OwnerStep
<1>5. QED BY <1>2, <1>3, <1>4 DEF WitnessInv, Onward

LEMMA ReaderWitness ==
  ASSUME IInv, ConnInv, WitnessInv, NEW k \in Conns, ReaderStep(k)
  PROVE  WitnessInv' /\ Onward
<1>1. UNCHANGED <<ws, sock, core, cmd, attempt>>
  BY DEF ReaderStep, ReadStart, ReadCancelled, ReadResponse, ReadLost, cmdVars
<1>2. \/ UNCHANGED <<status, recon>>
      \/ status' = "DEGRADED" /\ recon' = [recon EXCEPT ![k] = "scheduled"] /\ recon[k] = "none"
  <2>1. Alive(k)
    BY DEF ReaderStep, ReadStart, ReadCancelled, ReadResponse, ReadLost, Alive
  <2>2. recon[k] = "none" BY <2>1 DEF ConnInv, OneBusy, Alive
  <2>3. QED BY <2>2 DEF ReaderStep, ReadStart, ReadCancelled, ReadResponse, ReadLost, Head, Exit
<1>3. UpHasSocket' /\ StatusTells'
  BY <1>1, <1>2 DEF WitnessInv, UpHasSocket, StatusTells, Reconnecting
<1>4. Attempts'
  BY <1>1, <1>2 DEF WitnessInv, Attempts, ConnInv, ConnTypes
<1>5. \A j \in Conns : ReconnectOnward(j)
  <2>1. CASE UNCHANGED recon BY <1>1, <2>1 DEF ReconnectOnward
  <2>2. CASE recon' = [recon EXCEPT ![k] = "scheduled"] /\ recon[k] = "none"
    <3>1. recon'[k] = "scheduled" /\ \A j \in Conns : j # k => recon'[j] = recon[j]
      BY <2>2 DEF ConnInv, ConnTypes
    <3>2. MovesLeft("scheduled", attempt'[k]) < MovesLeft("none", attempt[k])
      BY BoundAssumption DEF MovesLeft
    <3>3. QED BY <1>1, <2>2, <3>1, <3>2 DEF ReconnectOnward
  <2>3. QED BY <1>2, <2>1, <2>2
<1>6. FutureHeld' /\ \A i \in Cmds : CommandOnward(i)
  <2>1. CASE ReadResponse(k)
    <3>1. \E i : fut' = IF i \in pending THEN [fut EXCEPT ![i] = "answered"] ELSE fut
      BY <2>1 DEF ReadResponse
    <3>2. \A i \in Cmds : fut'[i] \in {fut[i], "answered"} BY <3>1 DEF IInv, CmdTypes
    <3>3. QED BY <1>1, <3>2 DEF WitnessInv, FutureHeld, CommandOnward
  <2>2. CASE ReadStart(k) \/ ReadCancelled(k) \/ ReadLost(k)
    <3>1. UNCHANGED <<cmd, fut>> BY <2>2 DEF ReadStart, ReadCancelled, ReadLost, cmdVars
    <3>2. QED BY <3>1, CommandsRest DEF WitnessInv
  <2>3. QED BY <2>1, <2>2 DEF ReaderStep
<1>7. QED BY <1>3, <1>4, <1>5, <1>6 DEF WitnessInv, Onward

LEMMA ReconnectWitness ==
  ASSUME ConnInv, WitnessInv, NEW k \in Conns, ReconnectStep(k)
  PROVE  WitnessInv' /\ Onward
<1>1. UNCHANGED <<core, cmd, fut>>
  BY DEF ReconnectStep, ReconnectBegins, ReconnectWakes, ReconnectOk, ReconnectFails, coreVars, cmdVars
<1>2. FutureHeld' /\ \A i \in Cmds : CommandOnward(i)
  BY <1>1, CommandsRest DEF WitnessInv
<1>3. Reconnecting(k)
  BY DEF ReconnectStep, ReconnectBegins, ReconnectWakes, ReconnectOk, ReconnectFails, Reconnecting
<1>4. UpHasSocket' /\ StatusTells'
  <2>1. CASE ReconnectOk(k)
    <3>1. PICK c \in Conns : Opened(c) BY <2>1 DEF ReconnectOk
    <3>2. ws' = c /\ status' = "CONNECTED" /\ sock' = [sock EXCEPT ![c] = "open"] BY <3>1 DEF Opened
    <3>3. sock'[c] = "open" BY <3>2 DEF ConnInv, ConnTypes
    <3>4. QED BY <3>2, <3>3 DEF UpHasSocket, StatusTells, Conns, NoConn
  <2>2. CASE ReconnectBegins(k) \/ ReconnectWakes(k) \/ ReconnectFails(k)
    <3>1. UNCHANGED <<ws, sock>>
      BY <2>2 DEF ReconnectBegins, ReconnectWakes, ReconnectFails, connVars
    <3>2. core = "up" => ~closing BY DEF ConnInv, Undisturbed
    <3>3. core = "up" => \/ recon' = [recon EXCEPT ![k] = "sleeping"]
                         \/ recon' = [recon EXCEPT ![k] = "opening"]
                         \/ status' = "DEGRADED"
      BY <2>2, <3>2 DEF ReconnectBegins, ReconnectWakes, ReconnectFails
    <3>4. core = "up" => Reconnecting(k)' \/ status' = "DEGRADED"
      BY <3>3 DEF ConnInv, ConnTypes, Reconnecting
    <3>5. QED BY <1>1, <3>1, <3>4 DEF WitnessInv, UpHasSocket, StatusTells
  <2>3. QED BY <2>1, <2>2 DEF ReconnectStep
<1>5. ASSUME NEW r \in {"sleeping", "opening", "done"}, NEW n \in 0 .. MaxAttempts,
             recon' = [recon EXCEPT ![k] = r], attempt' = [attempt EXCEPT ![k] = n],
             r # "done" => n \in 1 .. MaxAttempts,
             MovesLeft(r, n) < MovesLeft(recon[k], attempt[k])
      PROVE  Attempts' /\ \A j \in Conns : ReconnectOnward(j)
  <2>1. /\ recon'[k] = r /\ attempt'[k] = n
        /\ \A j \in Conns : j # k => recon'[j] = recon[j] /\ attempt'[j] = attempt[j]
    BY <1>5 DEF ConnInv, ConnTypes, WitnessInv, Attempts
  <2>2. attempt' \in [Conns -> 0 .. MaxAttempts] BY <1>5 DEF WitnessInv, Attempts
  <2>3. Attempts' BY <1>5, <2>1, <2>2 DEF WitnessInv, Attempts
  <2>4. QED BY <1>5, <2>1, <2>3 DEF ReconnectOnward
<1>6. /\ MaxAttempts \in Nat \ {0} /\ attempt[k] \in 0 .. MaxAttempts
      /\ recon[k] \in {"sleeping", "opening"} => attempt[k] \in 1 .. MaxAttempts
      /\ attempt = [attempt EXCEPT ![k] = attempt[k]]
  BY BoundAssumption DEF WitnessInv, Attempts
<1>7. CASE ReconnectBegins(k)
  <2>1. recon[k] = "scheduled" BY <1>7 DEF ReconnectBegins
  <2>2. CASE recon' = [recon EXCEPT ![k] = "done"] /\ UNCHANGED attempt
    <3>1. MovesLeft("done", attempt[k]) < MovesLeft(recon[k], attempt[k])
      BY <1>6, <2>1 DEF MovesLeft
    <3>2. QED BY <1>2, <1>4, <1>5, <1>6, <2>2, <3>1 DEF WitnessInv, Onward
  <2>3. CASE recon' = [recon EXCEPT ![k] = "sleeping"] /\ attempt' = [attempt EXCEPT ![k] = 1]
    <3>1. MovesLeft("sleeping", 1) < MovesLeft(recon[k], attempt[k]) /\ 1 \in 1 .. MaxAttempts /\ 1 \in 0 .. MaxAttempts
      BY <1>6, <2>1 DEF MovesLeft
    <3>2. QED BY <1>2, <1>4, <1>5, <2>3, <3>1 DEF WitnessInv, Onward
  <2>4. QED BY <1>7, <2>2, <2>3 DEF ReconnectBegins
<1>8. CASE ReconnectWakes(k)
  <2>1. recon[k] = "sleeping" /\ recon' = [recon EXCEPT ![k] = "opening"] /\ UNCHANGED attempt
    BY <1>8 DEF ReconnectWakes
  <2>2. MovesLeft("opening", attempt[k]) < MovesLeft(recon[k], attempt[k])
    BY <1>6, <2>1 DEF MovesLeft
  <2>3. QED BY <1>2, <1>4, <1>5, <1>6, <2>1, <2>2 DEF WitnessInv, Onward
<1>9. CASE ReconnectOk(k)
  <2>1. recon[k] = "opening" /\ recon' = [recon EXCEPT ![k] = "done"] /\ UNCHANGED attempt
    BY <1>9 DEF ReconnectOk
  <2>2. MovesLeft("done", attempt[k]) < MovesLeft(recon[k], attempt[k])
    BY <1>6, <2>1 DEF MovesLeft
  <2>3. QED BY <1>2, <1>4, <1>5, <1>6, <2>1, <2>2 DEF WitnessInv, Onward
<1>10. CASE ReconnectFails(k)
  <2>1. recon[k] = "opening" BY <1>10 DEF ReconnectFails
  <2>2. CASE /\ attempt[k] < MaxAttempts /\ recon' = [recon EXCEPT ![k] = "sleeping"]
             /\ attempt' = [attempt EXCEPT ![k] = attempt[k] + 1]
    <3>1. /\ MovesLeft("sleeping", attempt[k] + 1) < MovesLeft(recon[k], attempt[k])
          /\ attempt[k] + 1 \in 1 .. MaxAttempts /\ attempt[k] + 1 \in 0 .. MaxAttempts
      BY <1>6, <2>1, <2>2 DEF MovesLeft
    <3>2. QED BY <1>2, <1>4, <1>5, <2>2, <3>1 DEF WitnessInv, Onward
  <2>3. CASE recon' = [recon EXCEPT ![k] = "done"] /\ UNCHANGED attempt
    <3>1. MovesLeft("done", attempt[k]) < MovesLeft(recon[k], attempt[k])
      BY <1>6, <2>1 DEF MovesLeft
    <3>2. QED BY <1>2, <1>4, <1>5, <1>6, <2>3, <3>1 DEF WitnessInv, Onward
  <2>4. QED BY <1>10, <2>2, <2>3 DEF ReconnectFails
<1>11. QED BY <1>7, <1>8, <1>9, <1>10 DEF ReconnectStep

LEMMA CommandWitness ==
  ASSUME IInv, WitnessInv, NEW i \in Cmds, CommandStep(i)
  PROVE  WitnessInv' /\ Onward
<1>1. UNCHANGED <<status, ws, sock, core, recon, attempt>>
  BY DEF CommandStep, Send, Sent, SendFails, CommandEnds, Timeout, connVars, coreVars, reconVars
<1>2. UpHasSocket' /\ StatusTells' BY <1>1 DEF WitnessInv, UpHasSocket, StatusTells, Reconnecting
<1>3. Attempts' /\ \A k \in Conns : ReconnectOnward(k) BY <1>1, ReconnectsRest DEF WitnessInv
<1>4. ASSUME NEW c \in {"sending", "waiting", "returned", "raised"},
             NEW f \in {"none", "pending", "answered", "failed", "cancelled"},
             cmd' = [cmd EXCEPT ![i] = c], fut' = [fut EXCEPT ![i] = f], Stage(c) > Stage(cmd[i]),
             c \in {"sending", "waiting"} => f \in {"pending", "answered", "failed"}
      PROVE  WitnessInv' /\ Onward
  <2>1. /\ cmd'[i] = c /\ fut'[i] = f
        /\ \A j \in Cmds : j # i => cmd'[j] = cmd[j] /\ fut'[j] = fut[j]
    BY <1>4 DEF IInv, CmdTypes
  <2>2. FutureHeld' BY <1>4, <2>1 DEF WitnessInv, FutureHeld
  <2>3. \A j \in Cmds : CommandOnward(j) BY <1>4, <2>1 DEF CommandOnward
  <2>4. QED BY <1>2, <1>3, <2>2, <2>3 DEF WitnessInv, Onward
<1>5. /\ fut = [fut EXCEPT ![i] = fut[i]]
      /\ fut[i] \in {"none", "pending", "answered", "failed", "cancelled"}
  BY DEF IInv, CmdTypes
<1>6. CASE Send(i)
  <2>1. cmd[i] = "unsent" BY <1>6 DEF Send, IInv, CmdTypes, FreshIds, Cmds
  <2>2. Stage("raised") > Stage(cmd[i]) /\ Stage("sending") > Stage(cmd[i]) BY <2>1 DEF Stage
  <2>3. CASE cmd' = [cmd EXCEPT ![i] = "raised"] /\ fut' = fut
    <3>1. fut' = [fut EXCEPT ![i] = fut[i]] BY <1>5, <2>3
    <3>2. QED BY <1>4, <1>5, <2>2, <2>3, <3>1
  <2>4. CASE cmd' = [cmd EXCEPT ![i] = "sending"] /\ fut' = [fut EXCEPT ![i] = "pending"]
    BY <1>4, <2>2, <2>4
  <2>5. QED BY <1>6, <2>3, <2>4 DEF Send
<1>7. CASE Sent(i)
  <2>1. cmd[i] = "sending" /\ cmd' = [cmd EXCEPT ![i] = "waiting"] /\ fut' = fut BY <1>7 DEF Sent
  <2>2. Stage("waiting") > Stage(cmd[i]) BY <2>1 DEF Stage
  <2>3. fut[i] \in {"pending", "answered", "failed"} BY <2>1 DEF WitnessInv, FutureHeld
  <2>4. fut' = [fut EXCEPT ![i] = fut[i]] BY <1>5, <2>1
  <2>5. QED BY <1>4, <1>5, <2>1, <2>2, <2>3, <2>4
<1>8. CASE SendFails(i)
  <2>1. cmd[i] = "sending" /\ cmd' = [cmd EXCEPT ![i] = "raised"] /\ fut' = fut BY <1>8 DEF SendFails
  <2>2. Stage("raised") > Stage(cmd[i]) BY <2>1 DEF Stage
  <2>3. fut' = [fut EXCEPT ![i] = fut[i]] BY <1>5, <2>1
  <2>4. QED BY <1>4, <1>5, <2>1, <2>2, <2>3
<1>9. CASE CommandEnds(i)
  <2>1. cmd[i] = "waiting" /\ fut' = fut BY <1>9 DEF CommandEnds
  <2>2. PICK c \in {"returned", "raised"} : cmd' = [cmd EXCEPT ![i] = c] BY <1>9 DEF CommandEnds
  <2>3. Stage(c) > Stage(cmd[i]) BY <2>1, <2>2 DEF Stage
  <2>4. fut' = [fut EXCEPT ![i] = fut[i]] BY <1>5, <2>1
  <2>5. QED BY <1>4, <1>5, <2>2, <2>3, <2>4
<1>10. CASE Timeout(i)
  <2>1. /\ cmd[i] = "waiting" /\ cmd' = [cmd EXCEPT ![i] = "raised"]
        /\ fut' = [fut EXCEPT ![i] = "cancelled"]
    BY <1>10 DEF Timeout
  <2>2. Stage("raised") > Stage(cmd[i]) BY <2>1 DEF Stage
  <2>3. QED BY <1>4, <2>1, <2>2
<1>11. QED BY <1>6, <1>7, <1>8, <1>9, <1>10 DEF CommandStep

LEMMA WitnessNext == ASSUME IInv, ConnInv, WitnessInv, [Next]_vars PROVE WitnessInv' /\ Onward
<1>1. ASSUME UNCHANGED <<status, ws, core, recon, attempt, cmd, fut>>,
             \A k \in Conns : sock'[k] = "unborn" => sock[k] = "unborn"
      PROVE  WitnessInv' /\ Onward
  <2>1. UpHasSocket' /\ StatusTells'
    BY <1>1 DEF WitnessInv, UpHasSocket, StatusTells, Reconnecting, ConnInv, ConnTypes
  <2>2. QED BY <1>1, <2>1, CommandsRest, ReconnectsRest DEF WitnessInv, Onward
<1>2. ASSUME NEW k \in Conns, Drop(k) PROVE WitnessInv' /\ Onward
  <2>1. UNCHANGED <<status, ws, core, recon, attempt, cmd, fut>>
    BY <1>2 DEF Drop, coreVars, reconVars, cmdVars
  <2>2. \A j \in Conns : sock'[j] = "unborn" => sock[j] = "unborn"
    BY <1>2 DEF Drop, ConnInv, ConnTypes
  <2>3. QED BY <1>1, <2>1, <2>2
<1>3. ASSUME NEW i \in Cmds, NEW k \in Conns, Answer(k, i) PROVE WitnessInv' /\ Onward
  BY <1>1, <1>3 DEF Answer, coreVars, reconVars, cmdVars
<1>4. CASE UNCHANGED vars
  BY <1>1, <1>4 DEF vars, connVars, coreVars, reconVars, cmdVars
<1>5. QED
  BY <1>2, <1>3, <1>4, OwnerWitness, ReaderWitness, ReconnectWitness, CommandWitness DEF Next

(* Somebody is about to find out: a read loop that starts or whose socket has      *)
(* closed under it, or a reconnect under way.                                      *)
Notices(k) ==
  \/ k \notin cancelled /\ reader[k] = "starting"
  \/ k \notin cancelled /\ reader[k] = "receiving" /\ sock[on[k]] = "closed"
  \/ Reconnecting(k)

(* No loss goes unwitnessed and no caller is left with nothing to wait for: while  *)
(* the owner keeps the transport up and its socket is gone, a read loop is about   *)
(* to notice or a reconnect is under way, or the transport says that it is         *)
(* degraded; a command that waits has a future that can still be settled or has    *)
(* been; and a command and a reconnect only move towards their ends, a reconnect   *)
(* in at most 2 * MaxAttempts + 2 moves (_read_loop, reconnect, send_command).     *)
THEOREM LossesAreWitnessed ==
  Spec => /\ [](core = "up" /\ ~SocketOpen => status = "DEGRADED" \/ \E k \in Conns : Notices(k))
          /\ []FutureHeld
          /\ [][Onward]_vars
<1>1. Spec => [](IInv /\ ConnInv)
  BY InitInv, NextInv, ConnInit, ConnNext, PTL DEF Spec
<1>2. Spec => []ReadersWait
  BY ReadersInit, ReadersInv, PTL DEF Spec
<1>3. IInv /\ ConnInv /\ WitnessInv /\ [Next]_vars => WitnessInv' /\ Onward
  BY WitnessNext
<1>4. ConnInv /\ ReadersWait /\ WitnessInv
        => (core = "up" /\ ~SocketOpen => status = "DEGRADED" \/ \E k \in Conns : Notices(k))
  <2>1. SUFFICES ASSUME ConnInv, ReadersWait, WitnessInv, core = "up", ~SocketOpen, status # "DEGRADED",
                        \A k \in Conns : ~Reconnecting(k)
                 PROVE  \E k \in Conns : Notices(k)
    BY DEF Notices
  <2>2. status = "CONNECTED" /\ ws # NoConn /\ ws \in Conns /\ sock[ws] = "closed"
    BY <2>1 DEF WitnessInv, StatusTells, UpHasSocket, ConnInv, ConnTypes, SocketOpen
  <2>3. PICK k \in Conns : Alive(k)
    BY <2>1, <2>2 DEF ConnInv, ConnectedHasReader, IsConnected
  <2>4. k \notin cancelled /\ ~closing BY <2>1 DEF ConnInv, Undisturbed
  <2>5. reader[k] = "receiving" => on[k] = ws BY <2>1, <2>4 DEF ConnInv, OnItsSocket
  <2>6. QED BY <2>2, <2>3, <2>4, <2>5 DEF Alive, Notices
<1>5. WitnessInv => FutureHeld BY DEF WitnessInv
<1>6. QED BY <1>1, <1>2, <1>3, <1>4, <1>5, WitnessInit, PTL DEF Spec
==================================================================================
