----------------------------- MODULE CdpTargets -----------------------------
(***************************************************************************)
(* The registry of the targets of a debugging endpoint (runtime/            *)
(* cdp_target.py).  The browser creates, destroys and crashes targets and   *)
(* answers commands; its events and replies reach the client over one       *)
(* connection, in order.  The reader handles an event at once and hands a   *)
(* reply to the caller waiting for it, who resumes later: other events may  *)
(* be handled in between.                                                   *)
(***************************************************************************)
EXTENDS Naturals, Sequences, FiniteSets, SequencesExt

CONSTANTS Targets, Callers, Absent,
          MaxSids,       \* bound on the CDP sessions the browser opens
          MaxCalls,      \* bound on attach, detach and close calls
          MaxWire        \* bound on the messages on their way

\* What the constants must be.
ASSUME TargetsAssumption ==
  /\ IsFiniteSet(Targets) /\ Absent \notin Targets \cup Nat
  /\ {MaxSids, MaxCalls, MaxWire} \subseteq Nat

VARIABLES
  pages,       \* per target, in the browser: its life and its CDP sessions
  discovering, \* whether Target.setDiscoverTargets has reached the browser
  wire,        \* events and replies on their way to the client
  targets,     \* _targets: a record or Absent
  toSession,   \* _target_to_session
  toTarget,    \* _session_to_target
  primary,     \* _primary_target_id
  started,     \* initialize: "no", "list", "yes"
  call,        \* per caller: the command it waits for and what it read before
  sids, calls  \* counters

targetVars == <<pages, discovering, wire, targets, toSession, toTarget, primary, started,
                call, sids, calls>>

Sids == 1..MaxSids
Lifecycle == {"CREATED", "ATTACHED", "DETACHED", "CRASHED", "CLOSED"}
TargetInfo == [state : Lifecycle, attached : BOOLEAN, session : Sids \cup {Absent}]
Dead == {"CLOSED", "CRASHED"}
NoCall == [kind |-> "none", target |-> Absent, step |-> "idle", session |-> Absent, read |-> Absent]

\* The types of the variables.
TargetsTypeOK ==
  /\ pages \in [Targets -> [life : {"none", "live", "crashed", "gone"}, sessions : SUBSET Sids]]
  /\ discovering \in BOOLEAN
  /\ Len(wire) <= MaxWire
  /\ targets \in [Targets -> TargetInfo \cup {Absent}]
  /\ toSession \in [Targets -> Sids \cup {Absent}]
  /\ toTarget \in [Sids -> Targets \cup {Absent}]
  /\ primary \in Targets \cup {Absent}
  /\ started \in {"no", "discover", "list", "yes"}
  /\ \A c \in Callers : call[c].step \in {"idle", "sent", "served", "answered", "refused"}
  /\ sids \in 0..MaxSids /\ calls \in 0..MaxCalls

TargetsInit ==
  /\ pages = [t \in Targets |-> [life |-> "none", sessions |-> {}]]
  /\ discovering = FALSE
  /\ wire = <<>>
  /\ targets = [t \in Targets |-> Absent]
  /\ toSession = [t \in Targets |-> Absent]
  /\ toTarget = [s \in Sids |-> Absent]
  /\ primary = Absent
  /\ started = "no"
  /\ call = [c \in Callers |-> NoCall]
  /\ sids = 0 /\ calls = 0

client == <<targets, toSession, toTarget, primary>>
Room(n) == Len(wire) + n <= MaxWire

----------------------------------------------------------------------------
(* The browser *)

Event(kind, t, s) == [kind |-> kind, target |-> t, session |-> s]
TargetCreated(t) == [kind |-> "created", target |-> t, attached |-> pages[t].sessions /= {}]
Says(e) == IF discovering THEN <<e>> ELSE <<>>
Detachments(t) ==
  LET sessions == SetToSeq(pages[t].sessions)
  IN [i \in DOMAIN sessions |-> Event("detached", t, sessions[i])]

PageCreated(t) ==
  /\ pages[t].life = "none" /\ Room(1)
  /\ pages' = [pages EXCEPT ![t].life = "live"]
  /\ wire' = wire \o Says(TargetCreated(t))
  /\ UNCHANGED <<discovering, client, started, call, sids, calls>>

PageGone(t) ==
  /\ pages[t].life \in {"live", "crashed"} /\ Room(MaxSids + 1)
  /\ pages' = [pages EXCEPT ![t] = [life |-> "gone", sessions |-> {}]]
  /\ wire' = wire \o Detachments(t) \o Says(Event("destroyed", t, Absent))
  /\ UNCHANGED <<discovering, client, started, call, sids, calls>>

PageCrashed(t) ==
  /\ pages[t].life = "live" /\ Room(1)
  /\ pages' = [pages EXCEPT ![t].life = "crashed"]
  /\ wire' = wire \o Says(Event("crashed", t, Absent))
  /\ UNCHANGED <<discovering, client, started, call, sids, calls>>

Reply(c, ok, s) == [kind |-> "reply", caller |-> c, ok |-> ok, session |-> s]
CallSent(c, kind) == call[c].kind = kind /\ call[c].step = "sent"
Refuse(c) ==
  /\ wire' = Append(wire, Reply(c, FALSE, Absent))
  /\ UNCHANGED <<pages, sids>>
Alive(t) == pages[t].life \in {"live", "crashed"}

\* The browser serves a command: its events come before its reply.
Serve(c) ==
  LET t == call[c].target IN
  /\ call[c].step = "sent" /\ Room(MaxSids + 2)
  /\ call' = [call EXCEPT ![c].step = "served"]
  /\ \/ CallSent(c, "attach") /\ Alive(t) /\ sids < MaxSids
        /\ sids' = sids + 1
        /\ pages' = [pages EXCEPT ![t].sessions = @ \cup {sids + 1}]
        /\ wire' = wire \o <<Event("attached", t, sids + 1), Reply(c, TRUE, sids + 1)>>
     \/ CallSent(c, "detach") /\ call[c].session \in pages[t].sessions
        /\ pages' = [pages EXCEPT ![t].sessions = @ \ {call[c].session}]
        /\ wire' = wire \o <<Event("detached", t, call[c].session), Reply(c, TRUE, Absent)>>
        /\ UNCHANGED sids
     \/ CallSent(c, "close") /\ Alive(t)
        /\ pages' = [pages EXCEPT ![t] = [life |-> "gone", sessions |-> {}]]
        /\ wire' = wire \o <<Reply(c, TRUE, Absent)>> \o Detachments(t)
                        \o Says(Event("destroyed", t, Absent))
        /\ UNCHANGED sids
     \/ CallSent(c, "attach") /\ ~Alive(t) /\ Refuse(c)
     \/ CallSent(c, "detach") /\ call[c].session \notin pages[t].sessions /\ Refuse(c)
     \/ CallSent(c, "close") /\ ~Alive(t) /\ Refuse(c)
  /\ UNCHANGED <<discovering, client, started, calls>>

----------------------------------------------------------------------------
(* initialize: listen, discover, list.  Either command may fail unnoticed. *)

Living == {t \in Targets : Alive(t)}
Announce == LET living == SetToSeq(Living)
            IN [i \in DOMAIN living |-> TargetCreated(living[i])]

Initialize ==
  /\ started = "no" /\ Room(Cardinality(Targets))
  /\ started' = "discover"
  /\ \/ discovering' = TRUE /\ wire' = wire \o Announce
     \/ UNCHANGED <<discovering, wire>>
  /\ UNCHANGED <<pages, client, call, sids, calls>>

ListTargets ==
  /\ started = "discover" /\ Room(1)
  /\ \/ started' = "list"
        /\ wire' = Append(wire, [kind |-> "list",
                     infos |-> [t \in Living |-> pages[t].sessions /= {}]])
     \/ started' = "yes" /\ UNCHANGED wire
  /\ UNCHANGED <<pages, discovering, client, call, sids, calls>>

----------------------------------------------------------------------------
(* Handlers of the reader *)

SessionOfTarget(t) == IF targets[t] = Absent THEN Absent ELSE targets[t].session
AttachedOfTarget(t) == targets[t] /= Absent /\ targets[t].attached

UpdateOrAddTarget(t, attached) ==
  [state |-> "CREATED", attached |-> attached, session |-> SessionOfTarget(t)]
PrimaryWith(S) == IF primary = Absent /\ S /= {} THEN CHOOSE t \in S : TRUE ELSE primary

OnTargetCreated(t, attached) ==
  /\ targets' = [targets EXCEPT ![t] = UpdateOrAddTarget(t, attached)]
  /\ primary' = PrimaryWith({t})
  /\ UNCHANGED <<toSession, toTarget>>

Without(maps, s) == IF s = Absent THEN maps ELSE [maps EXCEPT ![s] = Absent]
Inactive(state) == [state |-> state, attached |-> FALSE, session |-> Absent]

\* Wrong on purpose: the sessions of a destroyed target stay known by target.
DestroyedHalf(t) ==
  IF targets[t] = Absent THEN UNCHANGED client
  ELSE /\ targets' = [targets EXCEPT ![t] = Inactive("CLOSED")]
       /\ toTarget' = Without(toTarget, toSession[t])
       /\ UNCHANGED <<toSession, primary>>

OnTargetDestroyed(t) ==
  IF targets[t] = Absent THEN UNCHANGED client
  ELSE /\ targets' = [targets EXCEPT ![t] = Inactive("CLOSED")]
       /\ toTarget' = Without(toTarget, toSession[t])
       /\ toSession' = [toSession EXCEPT ![t] = Absent]
       /\ UNCHANGED primary

\* A crash keeps the session maps.
OnTargetCrashed(t) ==
  /\ targets' = IF targets[t] = Absent THEN targets
                ELSE [targets EXCEPT ![t] = Inactive("CRASHED")]
  /\ UNCHANGED <<toSession, toTarget, primary>>

Attached(s) == [state |-> "ATTACHED", attached |-> TRUE, session |-> s]
OnAttachedToTarget(t, s) ==
  /\ targets' = [targets EXCEPT ![t] = Attached(s)]
  /\ toTarget' = [toTarget EXCEPT ![s] = t]
  /\ toSession' = [toSession EXCEPT ![t] = s]
  /\ UNCHANGED primary

\* Any session that goes takes the target's latest with it.
OnDetachedFromTarget(t, s) ==
  IF targets[t] = Absent THEN UNCHANGED client
  ELSE /\ targets' = [targets EXCEPT ![t] = Inactive("DETACHED")]
       /\ toTarget' = [toTarget EXCEPT ![s] = Absent]
       /\ toSession' = [toSession EXCEPT ![t] = Absent]
       /\ UNCHANGED primary

\* The answer of Target.getTargets overwrites what events have told.
OnTargetList(infos) ==
  /\ targets' = [t \in Targets |-> IF t \in DOMAIN infos THEN UpdateOrAddTarget(t, infos[t])
                                   ELSE targets[t]]
  /\ primary' = PrimaryWith(DOMAIN infos)
  /\ UNCHANGED <<toSession, toTarget>>

ReadMessage ==
  /\ wire /= <<>>
  /\ LET m == Head(wire) IN
     /\ wire' = Tail(wire)
     /\ \/ m.kind = "created" /\ OnTargetCreated(m.target, m.attached) /\ UNCHANGED <<started, call>>
        \/ m.kind = "destroyed" /\ OnTargetDestroyed(m.target) /\ UNCHANGED <<started, call>>
        \/ m.kind = "crashed"   /\ OnTargetCrashed(m.target)   /\ UNCHANGED <<started, call>>
        \/ m.kind = "attached"  /\ OnAttachedToTarget(m.target, m.session)
                                /\ UNCHANGED <<started, call>>
        \/ m.kind = "detached"  /\ OnDetachedFromTarget(m.target, m.session)
                                /\ UNCHANGED <<started, call>>
        \/ m.kind = "list" /\ OnTargetList(m.infos) /\ started' = "yes" /\ UNCHANGED call
        \/ m.kind = "reply"
             /\ call' = [call EXCEPT ![m.caller].step = IF m.ok THEN "answered" ELSE "refused",
                                     ![m.caller].session = IF m.session = Absent THEN @ ELSE m.session]
             /\ UNCHANGED <<client, started>>
  /\ UNCHANGED <<pages, discovering, sids, calls>>

----------------------------------------------------------------------------
(* Calls of the client *)

Ask(c, kind, t, s) ==
  /\ call[c] = NoCall /\ calls < MaxCalls
  /\ calls' = calls + 1
  /\ call' = [call EXCEPT ![c] = [kind |-> kind, target |-> t, step |-> "sent",
                                  session |-> s, read |-> targets[t]]]
  /\ UNCHANGED <<pages, discovering, wire, client, started, sids>>

\* Refused for a dead target; a target known as attached needs no command.
AttachTarget(c, t) ==
  /\ targets[t] /= Absent
  /\ targets[t].state \notin Dead
  /\ ~(targets[t].session /= Absent /\ targets[t].attached)
  /\ Ask(c, "attach", t, Absent)

\* Back from the await: ATTACHED, whatever events have said meanwhile.
AttachAnswered(c) ==
  /\ call[c].kind = "attach" /\ call[c].step = "answered"
  /\ OnAttachedToTarget(call[c].target, call[c].session)
  /\ call' = [call EXCEPT ![c] = NoCall]
  /\ UNCHANGED <<pages, discovering, wire, started, sids, calls>>

DetachTarget(c, t) == toSession[t] /= Absent /\ Ask(c, "detach", t, toSession[t])
DetachUnknown(t) ==
  /\ toSession[t] = Absent /\ targets[t] /= Absent
  /\ targets' = [targets EXCEPT ![t] = Inactive("DETACHED")]
  /\ UNCHANGED <<pages, discovering, wire, toSession, toTarget, primary, started, call, sids, calls>>
DetachAnswered(c) ==
  /\ call[c].kind = "detach" /\ call[c].step \in {"answered", "refused"}
  /\ OnDetachedFromTarget(call[c].target, call[c].session)
  /\ call' = [call EXCEPT ![c] = NoCall]
  /\ UNCHANGED <<pages, discovering, wire, started, sids, calls>>

CloseTarget(c, t) == Ask(c, "close", t, Absent)
\* The record is closed, the session maps are left to the event.
CloseAnswered(c) ==
  /\ call[c].kind = "close" /\ call[c].step = "answered"
  /\ LET t == call[c].target IN
     targets' = IF targets[t] = Absent THEN targets ELSE [targets EXCEPT ![t] = Inactive("CLOSED")]
  /\ call' = [call EXCEPT ![c] = NoCall]
  /\ UNCHANGED <<pages, discovering, wire, toSession, toTarget, primary, started, sids, calls>>

CallRefused(c) ==
  /\ call[c].kind \in {"attach", "close"} /\ call[c].step = "refused"
  /\ call' = [call EXCEPT ![c] = NoCall]
  /\ UNCHANGED <<pages, discovering, wire, client, started, sids, calls>>

SelectPrimaryTarget(t) ==
  /\ targets[t] /= Absent /\ primary /= t
  /\ primary' = t
  /\ UNCHANGED <<pages, discovering, wire, targets, toSession, toTarget, started, call, sids, calls>>

\* The primary target if it is known, dead or not, else some living page.
ListTargetsActive == {t \in Targets : targets[t] /= Absent /\ targets[t].state \notin Dead}
PrimaryTarget ==
  IF primary /= Absent THEN primary
  ELSE IF ListTargetsActive = {} THEN Absent ELSE CHOOSE t \in ListTargetsActive : TRUE

TargetsNext ==
  \/ \E t \in Targets : PageCreated(t) \/ PageGone(t) \/ PageCrashed(t)
                        \/ SelectPrimaryTarget(t) \/ DetachUnknown(t)
  \/ Initialize \/ ListTargets \/ ReadMessage
  \/ \E c \in Callers : \/ Serve(c) \/ AttachAnswered(c) \/ DetachAnswered(c)
                        \/ CloseAnswered(c) \/ CallRefused(c)
                        \/ \E t \in Targets : AttachTarget(c, t) \/ DetachTarget(c, t)
                                              \/ CloseTarget(c, t)

TargetsSpec == TargetsInit /\ [][TargetsNext]_targetVars
----------------------------------------------------------------------------
\* A session the registry would route a command for a target by is known to be
\* that target's: events, late replies and concurrent calls never cross sessions.
RoutedSessionIsKnown ==
  \A t \in Targets : toSession[t] /= Absent => toTarget[toSession[t]] = t

\* cdp_target.py:91 says crash and close safety is enforced, "marking dead targets,
\* preventing misrouted commands": a target told closed would stay closed.
ClosedIsKept ==
  \A t \in Targets : targets[t] /= Absent /\ targets[t].state = "CLOSED" => targets'[t].state = "CLOSED"
ClosedStaysClosed == [][ClosedIsKept]_targetVars
=============================================================================
