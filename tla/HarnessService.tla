------------------------------- MODULE HarnessService -------------------------------
(* runtime/harness/transport.py, protocol.py and service.py: the application posts  *)
(* its lifecycle signals to the reviewer over loopback HTTP, one connection for     *)
(* each message and one thread of the client for each post, so that two messages    *)
(* of one instance may overtake each other; wait_for_harness_signal (settlement.py) *)
(* polls what arrived, and the trace engine keeps the newest of it.                 *)
EXTENDS Integers, Sequences, FiniteSets

CONSTANTS
  Instances,    \* harness instances: a restarted application is a new one
  Signals,      \* lifecycle signals
  Waiters,      \* settlements that wait for a signal
  MaxSends,     \* bound: messages of one instance
  MaxEvents,    \* capacity of a session's timeline
  MaxRestarts   \* bound: how often the server is started again

\* What the constants must be.
ASSUME HarnessServiceAssumption ==
  /\ MaxSends \in Nat /\ MaxEvents \in Nat \ {0} /\ MaxRestarts \in Nat
  /\ "none" \notin Signals \cup Instances

VARIABLES
  racing,         \* instances whose client numbers its messages without a lock
  running,        \* the transport accepts connections
  restarts,       \* how often it was started
  sequence,       \* instance -> the messages it was asked to send
  wire,           \* messages posted and not yet accepted or refused
  accepted,       \* messages whose connection is open
  lastSequences,  \* the validator's last sequence of each instance
  connected,      \* connected_instance_id, or "none"
  handshake,      \* handshake_completed
  received,       \* received_signals, each with the message it came in
  timeline,       \* the session's bounded timeline
  waiting         \* waiter -> its progress and the signal it wants

harnessVars == <<racing, running, restarts, sequence, wire, accepted, lastSequences, connected, handshake,
                 received, timeline, waiting>>

Types == {"HANDSHAKE", "LIFECYCLE", "DIAGNOSTICS", "HEALTH_PING"}
(* nth is its place among the messages of its instance, sequence the number in it.  *)
HarnessMessage == [instance : Instances, type : Types, nth : 1..MaxSends, sequence : 1..MaxSends,
                   signal : Signals \cup {"none"}, authentic : BOOLEAN]
Event == [type : {"HARNESS_SIGNAL", "HARNESS_TELEMETRY"}, signal : Signals \cup {"none"}]

HarnessTypeOK ==
  /\ racing \in SUBSET Instances
  /\ running \in BOOLEAN /\ restarts \in 0..MaxRestarts
  /\ sequence \in [Instances -> 0..MaxSends]
  /\ wire \in SUBSET HarnessMessage /\ accepted \in SUBSET HarnessMessage
  /\ lastSequences \in [Instances -> -1..MaxSends]
  /\ connected \in Instances \cup {"none"} /\ handshake \in BOOLEAN
  /\ received \in Seq(HarnessMessage)
  /\ timeline \in Seq(Event) /\ Len(timeline) <= MaxEvents
  /\ waiting \in [Waiters -> [step : {"idle", "polling", "HARNESS_SIGNAL", "TIMEOUT"},
                              signal : Signals \cup {"none"}]]

HarnessInit ==
  /\ racing \in SUBSET Instances
  /\ running = FALSE /\ restarts = 0
  /\ sequence = [i \in Instances |-> 0]
  /\ wire = {} /\ accepted = {}
  /\ lastSequences = [i \in Instances |-> -1]
  /\ connected = "none" /\ handshake = FALSE
  /\ received = <<>> /\ timeline = <<>>
  /\ waiting = [w \in Waiters |-> [step |-> "idle", signal |-> "none"]]

(* The service lives as long as its session: start and stop keep the validator and  *)
(* what was received.                                                               *)
StartServer ==
  /\ ~running /\ restarts < MaxRestarts
  /\ running' = TRUE /\ restarts' = restarts + 1
  /\ UNCHANGED <<racing, sequence, wire, accepted, lastSequences, connected, handshake, received,
                 timeline, waiting>>

StopServer ==
  /\ running
  /\ running' = FALSE /\ handshake' = FALSE
  /\ UNCHANGED <<racing, restarts, sequence, wire, accepted, lastSequences, connected, received,
                 timeline, waiting>>

(* The number a client gives to its nth message.  Those of Electron and Qt count    *)
(* one by one; the webview2 client's static _sequence++ is unsynchronised, and read *)
(* again for the message: of overlapping calls increments are lost and numbers      *)
(* shared.                                                                          *)
Number(i, nth, n) == IF i \in racing THEN n \in 1..nth ELSE n = nth

(* send_message: posted from a pool of threads.                                     *)
SendMessage(i, type, signal) ==
  /\ sequence[i] < MaxSends
  /\ type = "LIFECYCLE" <=> signal # "none"
  /\ sequence' = [sequence EXCEPT ![i] = @ + 1]
  /\ \E authentic \in BOOLEAN, n \in 1..MaxSends :
       /\ Number(i, sequence[i] + 1, n)
       /\ wire' = wire \cup {[instance |-> i, type |-> type, nth |-> sequence[i] + 1,
                              sequence |-> n, signal |-> signal, authentic |-> authentic]}
  /\ UNCHANGED <<racing, running, restarts, accepted, lastSequences, connected, handshake, received,
                 timeline, waiting>>

(* The server takes a connection, or none is listening and the post fails.          *)
ConnectInstance(m) ==
  /\ m \in wire
  /\ wire' = wire \ {m}
  /\ accepted' = IF running THEN accepted \cup {m} ELSE accepted
  /\ UNCHANGED <<racing, running, restarts, sequence, lastSequences, connected, handshake, received,
                 timeline, waiting>>

(* The request ends before its body, or is too large, or does not parse.            *)
Malformed(m) ==
  /\ m \in accepted
  /\ accepted' = accepted \ {m}
  /\ UNCHANGED <<racing, running, restarts, sequence, wire, lastSequences, connected, handshake,
                 received, timeline, waiting>>

(* validate: the session and the token, the clock, and last the sequence, of which  *)
(* only an older one is refused, not an equal one.  The first is the mutant that    *)
(* only remembers it.                                                               *)
ValidateOnce(m, timely) == m.authentic /\ timely

Validate(m, timely) ==
  /\ m.authentic /\ timely
  /\ m.sequence >= lastSequences[m.instance]

(* A deque of MaxEvents: the oldest event makes room.  The first is the mutant that  *)
(* never makes any.                                                                 *)
RecordUnbounded(event) == timeline' = Append(timeline, event)
Record(event) ==
  timeline' = IF Len(timeline) < MaxEvents THEN Append(timeline, event)
              ELSE Append(Tail(timeline), event)

IngestHarnessEvent(type, signal) == Record([type |-> type, signal |-> signal])

HandleHandshake(m) ==
  /\ m.type = "HANDSHAKE"
  /\ connected' = m.instance /\ handshake' = TRUE
  /\ IngestHarnessEvent("HARNESS_SIGNAL", "none")
  /\ UNCHANGED received

HandleLifecycle(m) ==
  /\ m.type = "LIFECYCLE"
  /\ received' = Append(received, m)
  /\ IngestHarnessEvent("HARNESS_SIGNAL", m.signal)
  /\ UNCHANGED <<connected, handshake>>

HandleDiagnostics(m) ==
  /\ m.type = "DIAGNOSTICS"
  /\ IngestHarnessEvent("HARNESS_TELEMETRY", "none")
  /\ UNCHANGED <<connected, handshake, received>>

HandlePing(m) ==
  /\ m.type = "HEALTH_PING"
  /\ UNCHANGED <<connected, handshake, received, timeline>>

(* _route_request: nothing in it is suspended between the check and the handler.    *)
RouteRequest(m) ==
  /\ m \in accepted
  /\ accepted' = accepted \ {m}
  /\ \E timely \in BOOLEAN :
       \/ /\ Validate(m, timely)
          /\ lastSequences' = [lastSequences EXCEPT ![m.instance] = m.sequence]
          /\ HandleHandshake(m) \/ HandleLifecycle(m) \/ HandleDiagnostics(m) \/ HandlePing(m)
       \/ /\ ~Validate(m, timely)
          /\ UNCHANGED <<lastSequences, connected, handshake, received, timeline>>
  /\ UNCHANGED <<racing, running, restarts, sequence, wire, waiting>>

(* wait_for_harness_signal polls everything received since the session began.       *)
BeginWait(w, signal) ==
  /\ waiting[w].step = "idle"
  /\ waiting' = [waiting EXCEPT ![w] = [step |-> "polling", signal |-> signal]]
  /\ UNCHANGED <<racing, running, restarts, sequence, wire, accepted, lastSequences, connected,
                 handshake, received, timeline>>

CheckSignal(signal) == \E k \in DOMAIN received : received[k].signal = signal

PollSignal(w) ==
  /\ waiting[w].step = "polling"
  /\ \/ /\ CheckSignal(waiting[w].signal)
        /\ waiting' = [waiting EXCEPT ![w].step = "HARNESS_SIGNAL"]
     \/ waiting' = [waiting EXCEPT ![w].step = "TIMEOUT"]
  /\ UNCHANGED <<racing, running, restarts, sequence, wire, accepted, lastSequences, connected,
                 handshake, received, timeline>>

HarnessNext ==
  \/ StartServer
  \/ StopServer
  \/ \E i \in Instances, type \in Types, signal \in Signals \cup {"none"} :
       SendMessage(i, type, signal)
  \/ \E m \in wire : ConnectInstance(m)
  \/ \E m \in accepted : Malformed(m) \/ RouteRequest(m)
  \/ \E w \in Waiters : PollSignal(w) \/ \E signal \in Signals : BeginWait(w, signal)

HarnessSpec == HarnessInit /\ [][HarnessNext]_harnessVars

(* protocol.py's "Guarantees ... temporal ordering": a message is recorded at most  *)
(* once, the numbers of an instance's signals never go back, and those of a client  *)
(* that counts one by one are recorded in the order in which they were sent,        *)
(* whatever overtook what on the way and however often the server was restarted.    *)
SignalsInOrder ==
  \A j, k \in DOMAIN received :
    j < k /\ received[j].instance = received[k].instance
      => /\ received[j].nth # received[k].nth
         /\ received[j].sequence <= received[k].sequence
         /\ received[k].instance \notin racing => received[j].nth < received[k].nth

(* protocol.py:185, "sequence ... <= last seen" is a replay.  It does not hold: the *)
(* test is "<", and a client that numbers without a lock repeats a number.          *)
EqualIsReplay ==
  \A j, k \in DOMAIN received :
    j < k /\ received[j].instance = received[k].instance
      => received[j].sequence < received[k].sequence
=============================================================================
