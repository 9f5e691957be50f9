------------------------------- MODULE CdpTransport -------------------------------
(* runtime/cdp_transport.py: one WebSocket to a page's debugger, the coroutines    *)
(* that share it and the sockets it goes through.  WebviewAutomationCore connects  *)
(* and disconnects it, one call at a time under its own lock; any coroutine sends  *)
(* commands; every socket opened has a read loop; a read loop that loses its       *)
(* socket leaves a reconnect coroutine behind.                                     *)
(*                                                                                 *)
(* An action is what a coroutine does between two of its awaits.  The k-th socket, *)
(* its read loop and the reconnect coroutine that loop may schedule are numbered k;*)
(* the i-th command sent has the request id i.                                     *)
EXTENDS Integers, FiniteSets

CONSTANTS
  MaxConns,      \* bound: sockets that can be opened
  MaxCmds,       \* bound: commands that can be sent
  MaxAttempts    \* reconnect's max_attempts

ASSUME BoundAssumption == MaxConns \in Nat \ {0} /\ MaxCmds \in Nat /\ MaxAttempts \in Nat \ {0}

Conns == 1 .. MaxConns
Cmds == 1 .. MaxCmds
NoConn == 0

VARIABLES
  status,     \* _status
  ws,         \* _websocket
  closing,    \* _close_requested
  readTask,   \* _read_task
  sock,       \* each socket: "unborn", "open", "closed"
  closes,     \* the socket disconnect awaits the close of
  wire,       \* commands the browser has and has not answered, per socket
  inbox,      \* answers that wait to be received, per socket
  core,       \* where the owner is in connect or disconnect
  reader,     \* each read loop
  on,         \* the socket each read loop waits in recv of
  cancelled,  \* read loops that were cancelled
  recon,      \* each reconnect coroutine
  attempt,    \* its attempt
  msgId,      \* _msg_id
  cmd,        \* where each send_command is
  fut,        \* its future
  via,        \* the socket it was sent over
  pending     \* _pending_requests

connVars == <<status, ws, closing, readTask, sock, closes, wire, inbox>>
coreVars == <<core>>
readVars == <<reader, on, cancelled>>
reconVars == <<recon, attempt>>
cmdVars == <<msgId, cmd, fut, via, pending>>
vars == <<connVars, coreVars, readVars, reconVars, cmdVars>>

Statuses == {"DISCONNECTED", "CONNECTING", "CONNECTED", "RECONNECTING", "DEGRADED", "CLOSED"}

TypeOK ==
  /\ status \in Statuses
  /\ ws \in Conns \cup {NoConn}
  /\ closing \in BOOLEAN
  /\ readTask \in Conns \cup {NoConn}
  /\ sock \in [Conns -> {"unborn", "open", "closed"}]
  /\ closes \in Conns \cup {NoConn}
  /\ wire \in [Conns -> SUBSET Cmds]
  /\ inbox \in [Conns -> SUBSET Cmds]
  /\ core \in {"idle", "opening", "up", "joining", "closing", "down"}
  /\ reader \in [Conns -> {"none", "starting", "receiving", "done"}]
  /\ on \in [Conns -> Conns \cup {NoConn}]
  /\ cancelled \in SUBSET Conns
  /\ recon \in [Conns -> {"none", "scheduled", "sleeping", "opening", "done"}]
  /\ attempt \in [Conns -> 0 .. MaxAttempts]
  /\ msgId \in 0 .. MaxCmds
  /\ cmd \in [Cmds -> {"unsent", "sending", "waiting", "returned", "raised"}]
  /\ fut \in [Cmds -> {"none", "pending", "answered", "failed", "cancelled"}]
  /\ via \in [Cmds -> Conns \cup {NoConn}]
  /\ pending \in SUBSET Cmds

Init ==
  /\ status = "DISCONNECTED"
  /\ ws = NoConn
  /\ closing = FALSE
  /\ readTask = NoConn
  /\ sock = [k \in Conns |-> "unborn"]
  /\ closes = NoConn
  /\ wire = [k \in Conns |-> {}]
  /\ inbox = [k \in Conns |-> {}]
  /\ core = "idle"
  /\ reader = [k \in Conns |-> "none"]
  /\ on = [k \in Conns |-> NoConn]
  /\ cancelled = {}
  /\ recon = [k \in Conns |-> "none"]
  /\ attempt = [k \in Conns |-> 0]
  /\ msgId = 0
  /\ cmd = [i \in Cmds |-> "unsent"]
  /\ fut = [i \in Cmds |-> "none"]
  /\ via = [i \in Cmds |-> NoConn]
  /\ pending = {}

IsConnected == status = "CONNECTED" /\ ws # NoConn
SocketOpen == ws # NoConn /\ sock[ws] = "open"

(* The next socket to be opened, and a successful open: the socket is the          *)
(* transport's, the status says so and a read loop is created for it.              *)
Unborn(k) == sock[k] = "unborn" /\ \A j \in Conns : j < k => sock[j] # "unborn"

Opened(k) ==
  /\ Unborn(k)
  /\ sock' = [sock EXCEPT ![k] = "open"]
  /\ ws' = k
  /\ status' = "CONNECTED"
  /\ reader' = [reader EXCEPT ![k] = "starting"]
  /\ readTask' = k

--------------------------------------------------------------------------------
(* The owner: connect and disconnect.                                              *)

(* connect is called once: RuntimeBridge makes a new transport for every session.  *)
Connect ==
  /\ core = "idle"
  /\ status' = "CONNECTING"
  /\ closing' = FALSE
  /\ core' = "opening"
  /\ UNCHANGED <<ws, readTask, sock, closes, wire, inbox, readVars, reconVars, cmdVars>>

ConnectOk(k) ==
  /\ core = "opening"
  /\ Opened(k)
  /\ core' = "up"
  /\ UNCHANGED <<closing, closes, wire, inbox, on, cancelled, reconVars, cmdVars>>

(* The endpoint refuses, or the timeout runs out.                                  *)
ConnectFails ==
  /\ core = "opening"
  /\ status' = "DISCONNECTED"
  /\ core' = "down"
  /\ UNCHANGED <<ws, closing, readTask, sock, closes, wire, inbox, readVars, reconVars, cmdVars>>

(* The end of disconnect: every request still pending fails.                      *)
FailPending ==
  /\ fut' = [i \in Cmds |-> IF i \in pending THEN "failed" ELSE fut[i]]
  /\ pending' = {}

Alive(k) == reader[k] \in {"starting", "receiving"}

(* disconnect goes on to the socket it finds: closing one that is open takes a     *)
(* handshake; one that is closed already, or none, takes no await.                 *)
CloseSocket ==
  \/ /\ SocketOpen
     /\ closes' = ws
     /\ core' = "closing"
     /\ UNCHANGED <<ws, fut, pending>>
  \/ /\ ~SocketOpen
     /\ ws' = NoConn
     /\ core' = "down"
     /\ FailPending
     /\ UNCHANGED closes

(* disconnect, to its first await: the read task's end, then the socket's close.   *)
Disconnect ==
  /\ core = "up"
  /\ closing' = TRUE
  /\ status' = "CLOSED"
  /\ \/ /\ readTask # NoConn /\ Alive(readTask)
        /\ cancelled' = cancelled \cup {readTask}
        /\ core' = "joining"
        /\ UNCHANGED <<ws, closes, fut, pending>>
     \/ /\ readTask = NoConn \/ ~Alive(readTask)
        /\ CloseSocket
        /\ UNCHANGED cancelled
  /\ UNCHANGED <<readTask, sock, wire, inbox, reader, on, reconVars, msgId, cmd, via>>

(* The cancelled read task has ended.                                              *)
DisconnectJoined ==
  /\ core = "joining"
  /\ \A k \in cancelled : reader[k] = "done"
  /\ readTask' = NoConn
  /\ CloseSocket
  /\ UNCHANGED <<status, closing, sock, wire, inbox, readVars, reconVars, msgId, cmd, via>>

(* The socket has been closed; whatever _websocket names by now is forgotten.      *)
DisconnectClosed ==
  /\ core = "closing"
  /\ sock' = [sock EXCEPT ![closes] = "closed"]
  /\ closes' = NoConn
  /\ ws' = NoConn
  /\ core' = "down"
  /\ FailPending
  /\ UNCHANGED <<status, closing, readTask, wire, inbox, readVars, reconVars, msgId, cmd, via>>

--------------------------------------------------------------------------------
(* The read loops.                                                                 *)

(* The end of read loop k: a connection lost that nobody asked to close is         *)
(* degraded, and a reconnect coroutine is scheduled.  The first is its mutant.     *)
ExitSilently(k) ==
  /\ reader' = [reader EXCEPT ![k] = "done"]
  /\ on' = [on EXCEPT ![k] = NoConn]
  /\ UNCHANGED <<status, recon>>

Exit(k) ==
  /\ reader' = [reader EXCEPT ![k] = "done"]
  /\ on' = [on EXCEPT ![k] = NoConn]
  /\ IF ~closing /\ status = "CONNECTED"
     THEN status' = "DEGRADED" /\ recon' = [recon EXCEPT ![k] = "scheduled"]
     ELSE UNCHANGED <<status, recon>>

(* The head of the loop: it waits on the transport's socket of the moment, and     *)
(* recv refuses a second waiter.                                                   *)
Head(k) ==
  IF IsConnected /\ \A j \in Conns \ {k} : on[j] # ws
  THEN /\ reader' = [reader EXCEPT ![k] = "receiving"]
       /\ on' = [on EXCEPT ![k] = ws]
       /\ UNCHANGED <<status, recon>>
  ELSE Exit(k)

ReadStart(k) ==
  /\ reader[k] = "starting"
  /\ k \notin cancelled
  /\ Head(k)
  /\ UNCHANGED <<ws, closing, readTask, sock, closes, wire, inbox, core, cancelled, attempt, cmdVars>>

(* A task cancelled before it starts never runs its body.                          *)
ReadCancelled(k) ==
  /\ k \in cancelled
  /\ \/ /\ reader[k] = "starting"
        /\ reader' = [reader EXCEPT ![k] = "done"]
        /\ UNCHANGED <<status, on, recon>>
     \/ reader[k] = "receiving" /\ Exit(k)
  /\ UNCHANGED <<ws, closing, readTask, sock, closes, wire, inbox, core, cancelled, attempt, cmdVars>>

ReadResponseInOrder(k) ==
  /\ reader[k] = "receiving"
  /\ k \notin cancelled
  /\ \E i \in inbox[on[k]] : inbox' = [inbox EXCEPT ![on[k]] = @ \ {i}]
  /\ \E i \in pending :
       /\ \A j \in pending : i <= j
       /\ pending' = pending \ {i}
       /\ fut' = [fut EXCEPT ![i] = "answered"]
  /\ Head(k)
  /\ UNCHANGED <<ws, closing, readTask, sock, closes, wire, core, cancelled, attempt, msgId, cmd, via>>

(* A response: matched by its id alone, dropped when nobody waits for it.  The one *)
(* above, its mutant, gives it to the oldest request.                              *)
ReadResponse(k) ==
  /\ reader[k] = "receiving"
  /\ k \notin cancelled
  /\ \E i \in inbox[on[k]] :
       /\ inbox' = [inbox EXCEPT ![on[k]] = @ \ {i}]
       /\ pending' = pending \ {i}
       /\ fut' = IF i \in pending THEN [fut EXCEPT ![i] = "answered"] ELSE fut
  /\ Head(k)
  /\ UNCHANGED <<ws, closing, readTask, sock, closes, wire, core, cancelled, attempt, msgId, cmd, via>>

(* ConnectionClosed, once what was received before has been read.                  *)
ReadLost(k) ==
  /\ reader[k] = "receiving"
  /\ k \notin cancelled
  /\ sock[on[k]] = "closed"
  /\ inbox[on[k]] = {}
  /\ Exit(k)
  /\ UNCHANGED <<ws, closing, readTask, sock, closes, wire, inbox, core, cancelled, attempt, cmdVars>>

--------------------------------------------------------------------------------
(* reconnect.                                                                      *)

(* _close_requested is looked at here and never again.                             *)
ReconnectBegins(k) ==
  /\ recon[k] = "scheduled"
  /\ IF closing
     THEN /\ recon' = [recon EXCEPT ![k] = "done"]
          /\ UNCHANGED <<status, attempt>>
     ELSE /\ recon' = [recon EXCEPT ![k] = "sleeping"]
          /\ attempt' = [attempt EXCEPT ![k] = 1]
          /\ status' = "RECONNECTING"
  /\ UNCHANGED <<ws, closing, readTask, sock, closes, wire, inbox, coreVars, readVars, cmdVars>>

(* A read loop ends by itself only when its socket is closed, so the close of the  *)
(* old socket takes no await here.                                                 *)
ReconnectWakes(k) ==
  /\ recon[k] = "sleeping"
  /\ recon' = [recon EXCEPT ![k] = "opening"]
  /\ UNCHANGED <<connVars, coreVars, readVars, attempt, cmdVars>>

(* The first open that succeeds ends the loop over attempts.                       *)
ReconnectOk(k) ==
  /\ recon[k] = "opening"
  /\ \E c \in Conns : Opened(c)
  /\ recon' = [recon EXCEPT ![k] = "done"]
  /\ UNCHANGED <<closing, closes, wire, inbox, coreVars, on, cancelled, attempt, cmdVars>>

(* An attempt fails: the next one, or DEGRADED.                                    *)
ReconnectFails(k) ==
  /\ recon[k] = "opening"
  /\ IF attempt[k] < MaxAttempts
     THEN /\ recon' = [recon EXCEPT ![k] = "sleeping"]
          /\ attempt' = [attempt EXCEPT ![k] = @ + 1]
          /\ UNCHANGED status
     ELSE /\ recon' = [recon EXCEPT ![k] = "done"]
          /\ status' = "DEGRADED"
          /\ UNCHANGED attempt
  /\ UNCHANGED <<ws, closing, readTask, sock, closes, wire, inbox, coreVars, readVars, cmdVars>>

--------------------------------------------------------------------------------
(* send_command.                                                                   *)

(* The request is registered and written.  On a closed socket send raises at once; *)
(* otherwise it is in the browser's hands while send may still wait for the buffer *)
(* to drain.  A transport that is not connected refuses and changes nothing.       *)
Send(i) ==
  /\ IsConnected
  /\ i = msgId + 1
  /\ msgId' = i
  /\ via' = [via EXCEPT ![i] = ws]
  /\ \/ /\ sock[ws] = "closed"
        /\ cmd' = [cmd EXCEPT ![i] = "raised"]
        /\ UNCHANGED <<fut, pending, wire>>
     \/ /\ sock[ws] = "open"
        /\ cmd' = [cmd EXCEPT ![i] = "sending"]
        /\ fut' = [fut EXCEPT ![i] = "pending"]
        /\ pending' = pending \cup {i}
        /\ wire' = [wire EXCEPT ![ws] = @ \cup {i}]
  /\ UNCHANGED <<status, ws, closing, readTask, sock, closes, inbox, coreVars, readVars, reconVars>>

Sent(i) ==
  /\ cmd[i] = "sending"
  /\ cmd' = [cmd EXCEPT ![i] = "waiting"]
  /\ UNCHANGED <<connVars, coreVars, readVars, reconVars, msgId, fut, via, pending>>

(* The socket closes while send drains: the request is withdrawn.                  *)
SendFails(i) ==
  /\ cmd[i] = "sending"
  /\ sock[via[i]] = "closed"
  /\ cmd' = [cmd EXCEPT ![i] = "raised"]
  /\ pending' = pending \ {i}
  /\ UNCHANGED <<connVars, coreVars, readVars, reconVars, msgId, fut, via>>

(* The caller goes on with what its future holds.                                  *)
CommandEnds(i) ==
  /\ cmd[i] = "waiting"
  /\ fut[i] \in {"answered", "failed"}
  /\ cmd' = [cmd EXCEPT ![i] = IF fut[i] = "answered" THEN "returned" ELSE "raised"]
  /\ UNCHANGED <<connVars, coreVars, readVars, reconVars, msgId, fut, via, pending>>

(* wait_for gives up and the request is withdrawn.  The first two are its mutants. *)
TimeoutIfConnected(i) ==
  /\ IsConnected
  /\ cmd[i] = "waiting"
  /\ fut[i] = "pending"
  /\ cmd' = [cmd EXCEPT ![i] = "raised"]
  /\ fut' = [fut EXCEPT ![i] = "cancelled"]
  /\ pending' = pending \ {i}
  /\ UNCHANGED <<connVars, coreVars, readVars, reconVars, msgId, via>>

TimeoutKeeps(i) ==
  /\ cmd[i] = "waiting"
  /\ fut[i] = "pending"
  /\ cmd' = [cmd EXCEPT ![i] = "raised"]
  /\ fut' = [fut EXCEPT ![i] = "cancelled"]
  /\ UNCHANGED <<connVars, coreVars, readVars, reconVars, msgId, via, pending>>

Timeout(i) ==
  /\ cmd[i] = "waiting"
  /\ fut[i] = "pending"
  /\ cmd' = [cmd EXCEPT ![i] = "raised"]
  /\ fut' = [fut EXCEPT ![i] = "cancelled"]
  /\ pending' = pending \ {i}
  /\ UNCHANGED <<connVars, coreVars, readVars, reconVars, msgId, via>>

--------------------------------------------------------------------------------
(* The browser and the network.                                                    *)
Answer(k, i) ==
  /\ sock[k] = "open"
  /\ i \in wire[k]
  /\ wire' = [wire EXCEPT ![k] = @ \ {i}]
  /\ inbox' = [inbox EXCEPT ![k] = @ \cup {i}]
  /\ UNCHANGED <<status, ws, closing, readTask, sock, closes, coreVars, readVars, reconVars, cmdVars>>

Drop(k) ==
  /\ sock[k] = "open"
  /\ sock' = [sock EXCEPT ![k] = "closed"]
  /\ UNCHANGED <<status, ws, closing, readTask, closes, wire, inbox, coreVars, readVars, reconVars, cmdVars>>

OwnerStep ==
  \/ Connect \/ ConnectFails
  \/ \E k \in Conns : ConnectOk(k)
  \/ Disconnect \/ DisconnectJoined \/ DisconnectClosed
ReaderStep(k) == ReadStart(k) \/ ReadCancelled(k) \/ ReadResponse(k) \/ ReadLost(k)
ReconnectStep(k) ==
  \/ ReconnectBegins(k) \/ ReconnectWakes(k)
  \/ ReconnectOk(k) \/ ReconnectFails(k)
CommandStep(i) == Send(i) \/ Sent(i) \/ SendFails(i) \/ CommandEnds(i) \/ Timeout(i)

Next ==
  \/ OwnerStep
  \/ \E k \in Conns : ReaderStep(k) \/ ReconnectStep(k) \/ Drop(k)
  \/ \E i \in Cmds : CommandStep(i) \/ \E k \in Conns : Answer(k, i)

Spec == Init /\ [][Next]_vars

(* The event loop runs every coroutine that is ready, and every sleep, close, open *)
(* and wait_for has a timeout.  Nothing makes the owner disconnect, the network    *)
(* fail, the browser answer, or a write to a full buffer drain: send has no        *)
(* timeout, and keepalive is off.                                                  *)
Fairness ==
  /\ WF_vars(DisconnectJoined \/ DisconnectClosed \/ ConnectFails)
  /\ \A k \in Conns : WF_vars(ReaderStep(k)) /\ WF_vars(ReconnectStep(k))
  /\ \A i \in Cmds : WF_vars(SendFails(i)) /\ WF_vars(CommandEnds(i) \/ Timeout(i))

FairSpec == Spec /\ Fairness

--------------------------------------------------------------------------------
(* Every future somebody may still wait for is registered, and nothing else is: a  *)
(* response, a disconnect or a timeout each settle a request exactly once, however *)
(* they race.                                                                      *)
PendingIsWaitedFor ==
  \A i \in Cmds :
    i \in pending <=> cmd[i] \in {"sending", "waiting"} /\ fut[i] = "pending"

(* A transport that says it is connected has a read loop alive to receive answers  *)
(* and to notice the connection's end, until its owner disconnects it.             *)
ConnectedHasReader == core = "up" /\ IsConnected => \E k \in Conns : Alive(k)

(* Two read loops never run at once (recv of a WebSocket admits one waiter), and   *)
(* at most one coroutine is reconnecting (two would close each other's sockets).   *)
Reconnecting(k) == recon[k] \in {"scheduled", "sleeping", "opening"}
OneAtATime ==
  \A j, k \in Conns :
    (Alive(j) /\ Alive(k)) \/ (Reconnecting(j) /\ Reconnecting(k)) => j = k

(* No socket is left open that the transport no longer knows of or is closing.     *)
NoLeakedSocket ==
  \A k \in Conns : sock[k] = "open" => k \in {ws, closes}

(* The transport's safety: requests, readers, reconnects and sockets are each      *)
(* accounted for.                                                                  *)
TransportIsSound == PendingIsWaitedFor /\ ConnectedHasReader /\ OneAtATime /\ NoLeakedSocket

(* disconnect "Cleanly closes the transport connection and terminates read loops"  *)
(* (ICDPTransport.disconnect): once it has returned, the transport is closed and   *)
(* nothing reads.                                                                  *)
DisconnectTerminates ==
  core = "down" /\ closing => status = "CLOSED" /\ \A k \in Conns : ~Alive(k)

(* A command that is written ends, by its answer, by a disconnect or by its        *)
(* timeout, and one that is being written when its socket closes ends too.         *)
Ended(i) == cmd[i] \in {"returned", "raised"}
EveryCommandEnds ==
  \A i \in Cmds :
    cmd[i] = "waiting" \/ (cmd[i] = "sending" /\ sock[via[i]] = "closed") ~> Ended(i)

(* What timeout_seconds suggests: a command ends.  It does not hold: the timeout   *)
(* covers the answer, and a write that never drains is waited for for ever.        *)
EverySendEnds == \A i \in Cmds : cmd[i] = "sending" ~> Ended(i)

(* While its owner keeps it up, a transport does not go on saying CONNECTED over a *)
(* socket that is gone -- is_connected gates every engine of the session -- nor    *)
(* reconnecting for ever: it ends on a new socket, or given up as DEGRADED.        *)
LossIsNoticed ==
  core = "up" /\ ~SocketOpen ~>
    SocketOpen \/ core # "up" \/ (status = "DEGRADED" /\ \A k \in Conns : ~Reconnecting(k))

(* What a command is to its caller: nobody looks at a future that has failed, and  *)
(* what the browser no longer holds it has replied to.                             *)
CallOf(i) ==
  IF cmd[i] = "unsent" THEN "fresh"
  ELSE IF cmd[i] = "returned" THEN "returned"
  ELSE IF cmd[i] = "raised" \/ fut[i] \in {"failed", "cancelled"} THEN "raised"
  ELSE IF i \in wire[via[i]] THEN "asked" ELSE "replied"
R == INSTANCE CommandReplies WITH call <- [i \in Cmds |-> CallOf(i)]

(* Through losses, reconnects, timeouts and late answers the transport is what its *)
(* interface promises: a command returns the reply to it and to no other, or       *)
(* raises (ICDPTransport.send_command).                                            *)
ImplementsCommandReplies == R!Spec
=================================================================================
