----------------------------- MODULE AgentBridge -----------------------------
(***************************************************************************)
(* The bridge between the coding agent's lifecycle hooks and the review     *)
(* sessions (runtime/experience/antigravity): the daemon tells the          *)
(* correlator which session and mission are active and which actions have   *)
(* settled; hooks become envelopes, are sanitised, stored as agent records  *)
(* and linked to a session, a mission and an action by five rules in order. *)
(* A hook is ingested either by the daemon's own bridge or by the bridge of *)
(* a process started for that hook alone, which knows no session.           *)
(* Times are kept as ages: "near" (at most 5 s), "far" (at most 60 s) and   *)
(* "gone"; settled actions are appended in the order of their times.        *)
(***************************************************************************)
EXTENDS Naturals, Sequences, FiniteSets, SequencesExt

CONSTANTS Sessions, Missions, Actions, Conversations, Projects, Nobody,
          WindowSize,    \* correlator window_size
          MaxHooks       \* bound on the hooks of a behaviour

\* What the constants must be.
ASSUME BridgeAssumption ==
  WindowSize \in Nat \ {0} /\ MaxHooks \in Nat /\ Nobody \notin Sessions \cup Missions

VARIABLES
  active,     \* the correlator's active session, mission and project
  talks,      \* _session_conversation_map
  recent,     \* _recent_actions
  owner,      \* the session each settled action belongs to
  reviewed,   \* sessions with a row in review_sessions
  agent,      \* agent_sessions, agent_turns, agent_tool_calls, agent_corrections
  links,      \* agent_dwr_correlations
  hooks       \* hooks so far

bridgeVars == <<active, talks, recent, owner, reviewed, agent, links, hooks>>

Ages == {"near", "far", "gone"}
OrNobody(S) == S \cup {Nobody}
Settled == [action : Actions, session : Sessions, mission : OrNobody(Missions), age : Ages]
Tools == {"desktop_click", "desktop_inspect", "run_command"}
Rules == {"action id", "session id", "tool argument", "active session",
          "conversation and action", "conversation", "project and action", "project"}

\* The types of the variables.
BridgeTypeOK ==
  /\ active \in [session : OrNobody(Sessions), mission : OrNobody(Missions),
                 project : OrNobody(Projects)]
  /\ talks \in [Sessions -> OrNobody(Conversations)]
  /\ recent \in Seq(Settled) /\ Len(recent) <= WindowSize
  /\ owner \in [Actions -> OrNobody(Sessions)]
  /\ reviewed \subseteq Sessions
  /\ links \subseteq [rule : Rules, session : OrNobody(Sessions), mission : OrNobody(Missions),
                      action : OrNobody(Actions), sure : {"EXACT", "HIGH", "MEDIUM", "LOW"}]
  /\ hooks \in 0..MaxHooks

Unknown == [session |-> Nobody, mission |-> Nobody, project |-> Nobody]
NoRows == [sessions |-> {}, turns |-> {}, tools |-> {}, corrections |-> {}]

BridgeInit ==
  /\ active = Unknown
  /\ talks = [s \in Sessions |-> Nobody]
  /\ recent = <<>>
  /\ owner = [a \in Actions |-> Nobody]
  /\ reviewed = {}
  /\ agent = NoRows
  /\ links = {}
  /\ hooks = 0

----------------------------------------------------------------------------
(* What the daemon tells the correlator; nothing ever takes it back. *)

\* A session begins; its row may be missing when the store refused it.
SetActiveSession(s, p, c, stored) ==
  /\ active' = [active EXCEPT !.session = s, !.project = IF p = Nobody THEN @ ELSE p]
  /\ talks' = IF c = Nobody THEN talks ELSE [talks EXCEPT ![s] = c]
  /\ reviewed' = IF stored THEN reviewed \cup {s} ELSE reviewed
  /\ UNCHANGED <<recent, owner, agent, links, hooks>>

SetActiveMission(m, s) ==
  /\ active' = [active EXCEPT !.mission = m, !.session = s]
  /\ UNCHANGED <<talks, recent, owner, reviewed, agent, links, hooks>>

\* An action settles: the newest of the window, the oldest falls out of it.
RecordDwrAction(a, s) ==
  LET entry == [action |-> a, session |-> s, mission |-> active.mission, age |-> "near"]
      longer == Append(recent, entry)
  IN /\ owner[a] = Nobody
     /\ owner' = [owner EXCEPT ![a] = s]
     /\ recent' = IF Len(longer) > WindowSize THEN Tail(longer) ELSE longer
     /\ UNCHANGED <<active, talks, reviewed, agent, links, hooks>>

Older(age) == IF age = "near" THEN "far" ELSE "gone"
Tick ==
  /\ recent /= <<>>
  /\ recent' = [i \in DOMAIN recent |-> [recent[i] EXCEPT !.age = Older(@)]]
  /\ UNCHANGED <<active, talks, owner, reviewed, agent, links, hooks>>

----------------------------------------------------------------------------
(* Hook payloads to envelopes.  A payload names a conversation, a step, a   *)
(* tool with its session argument, a workspace and, for a correction, the   *)
(* session it is about; "forbidden" marks arguments the sanitiser refuses.  *)

Envelope(kind, p) ==
  [kind |-> kind, conversation |-> p.conversation, turn |-> <<kind, p.step>>,
   tool |-> Nobody, session |-> Nobody, project |-> Nobody, about |-> Nobody, ok |-> TRUE]

\* Only tools without a summary of their own keep their scalar arguments.
SanitizeToolArgs(tool, session) == IF tool = "desktop_inspect" THEN session ELSE Nobody
CheckForbiddenKeys(p) == ~p.forbidden

ParsePreToolUse(p) ==
  [Envelope("tool", p) EXCEPT !.turn = <<"turn", p.step>>, !.tool = p.tool,
     !.session = SanitizeToolArgs(p.tool, p.session), !.project = p.project]
ParsePostToolUse(p, error) == [ParsePreToolUse(p) EXCEPT !.ok = ~error]
ParsePreInvocation(p)  == [Envelope("turn", p) EXCEPT !.turn = <<"inv", p.step>>]
ParsePostInvocation(p) == [Envelope("turn", p) EXCEPT !.turn = <<"inv", p.step>>]
ParseStop(p) == Envelope("session", p)
ParseCorrection(p) == [Envelope("correction", p) EXCEPT !.about = p.session]

\* One name, one parser; any other name is taken for a tool without a name.
TranslateHook(name, p) ==
  CASE name = "PreToolUse"     -> ParsePreToolUse(p)
    [] name = "PostToolUse"    -> ParsePostToolUse(p, FALSE)
    [] name = "PostToolFailed" -> ParsePostToolUse(p, TRUE)
    [] name = "PreInvocation"  -> ParsePreInvocation(p)
    [] name = "PostInvocation" -> ParsePostInvocation(p)
    [] name = "Stop"           -> ParseStop(p)
    [] name = "Correction"     -> ParseCorrection(p)
    [] OTHER                   -> Envelope("tool", p)

HookNames == {"PreToolUse", "PostToolUse", "PostToolFailed", "PreInvocation",
              "PostInvocation", "Stop", "Correction", "Unknown"}

----------------------------------------------------------------------------
(* Agent records: turns are keyed by a number that conversations share and   *)
(* keep their first conversation; every tool event is a row of its own.      *)

RecordAgentSession(e) == [agent EXCEPT !.sessions = @ \cup {e.conversation}]
RecordAgentTurn(e) ==
  IF \E t \in agent.turns : t.turn = e.turn THEN agent
  ELSE [agent EXCEPT !.turns = @ \cup {[turn |-> e.turn, conversation |-> e.conversation]}]
RecordAgentToolCall(e) == [agent EXCEPT !.tools = @ \cup {<<hooks, e.ok>>}]
RecordAgentCorrection(e) == [agent EXCEPT !.corrections = @ \cup {<<hooks, e.about>>}]

PersistEntityRecord(e) ==
  CASE e.kind = "session"    -> RecordAgentSession(e)
    [] e.kind = "turn"       -> RecordAgentTurn(e)
    [] e.kind = "tool"       -> RecordAgentToolCall(e)
    [] e.kind = "correction" -> RecordAgentCorrection(e)

----------------------------------------------------------------------------
(* Correlation *)

\* The newest settled action not older than the limit: a set of at most one.
FindClosestAction(window, limit) ==
  LET Fits == {i \in DOMAIN window :
                 window[i].age = "near" \/ (limit = "far" /\ window[i].age = "far")}
      Nearest == IF \E i \in Fits : window[i].age = "near"
                 THEN {i \in Fits : window[i].age = "near"} ELSE Fits
  IN {window[i] : i \in {j \in Nearest : \A k \in Nearest : k <= j}}

Link(rule, s, m, a, sure) ==
  [rule |-> rule, session |-> s, mission |-> m, action |-> a, sure |-> sure]
ActionIn(found) == IF found = {} THEN Nobody ELSE (CHOOSE r \in found : TRUE).action

\* Rule 1: the event names an action of the window or the active session.
ExplicitMatch(e, c, w) ==
  LET named == {w[i] : i \in {j \in DOMAIN w : w[j].action = e.about}}
  IN IF named /= {}
     THEN LET r == CHOOSE x \in named : TRUE
          IN {Link("action id", r.session, r.mission, r.action, "EXACT")}
     ELSE IF e.about /= Nobody /\ e.about = c.session
          THEN {Link("session id", c.session, c.mission, Nobody, "EXACT")} ELSE {}

IsDwrTool(e) == e.tool \in {"desktop_click", "desktop_inspect"}
\* Rule 2: a desktop tool that names its session.
ToolArgument(e, c, w) ==
  LET near == FindClosestAction(w, "near")
      mine == {r \in near : r.session = e.session}
      mission == {r.mission : r \in near} \ {Nobody}
  IN {Link("tool argument", e.session,
           IF mission = {} THEN c.mission ELSE CHOOSE m \in mission : TRUE,
           ActionIn(mine), "EXACT")}
\* Rule 3: a desktop tool while some session is active.
ToolInActiveSession(e, c, w) ==
  LET near == FindClosestAction(w, "near")
  IN {Link("active session", c.session, c.mission, ActionIn(near),
           IF near = {} THEN "HIGH" ELSE "EXACT")}
\* Wrong on purpose: the closest action is taken without looking at its session.
ClosestWhoever(e, c, w, s) ==
  LET near == FindClosestAction(w, "near")
  IN IF near = {} THEN {Link("conversation", s, c.mission, Nobody, "MEDIUM")}
     ELSE {Link("conversation and action", s, r.mission, r.action, "HIGH") : r \in near}
\* Rule 4: a session (in the order they were told) of the same conversation.
ConversationMatch(e, c, w, s) ==
  LET mine == {r \in FindClosestAction(w, "near") : r.session = s}
  IN IF mine = {} THEN {Link("conversation", s, c.mission, Nobody, "MEDIUM")}
     ELSE {Link("conversation and action", s, r.mission, r.action, "HIGH") : r \in mine}
\* Rule 5: the same project as the one last told.
ProjectMatch(e, c, w) ==
  LET found == FindClosestAction(w, "far")
  IN IF found = {} THEN {Link("project", c.session, c.mission, Nobody, "LOW")}
     ELSE {Link("project and action", c.session, c.mission, ActionIn(found), "MEDIUM")}

\* The first rule that applies: a set of at most one link.
CorrelateEvent(e, c, w, t) ==
  LET same == {s \in Sessions : t[s] = e.conversation}
  IN IF ExplicitMatch(e, c, w) /= {} THEN ExplicitMatch(e, c, w)
     ELSE IF IsDwrTool(e) /\ e.session /= Nobody THEN ToolArgument(e, c, w)
     ELSE IF IsDwrTool(e) /\ c.session /= Nobody THEN ToolInActiveSession(e, c, w)
     ELSE IF same /= {} THEN ConversationMatch(e, c, w, CHOOSE s \in same : TRUE)
     ELSE IF e.project /= Nobody /\ e.project = c.project /\ c.session /= Nobody
          THEN ProjectMatch(e, c, w)
     ELSE {}

\* A link to a session the store does not know is refused by its foreign key.
RecordAgentCorrelation(found) ==
  links' = links \cup {l \in found : l.session \in OrNobody(reviewed)}

\* A hook reaches a bridge: the daemon's, or that of a process of its own.
IngestEvent(e, own) ==
  /\ agent' = PersistEntityRecord(e)
  /\ RecordAgentCorrelation(
       IF own THEN CorrelateEvent(e, active, recent, talks)
       ELSE CorrelateEvent(e, Unknown, <<>>, [s \in Sessions |-> Nobody]))

ExecuteHook(name, p, own) ==
  /\ hooks' = hooks + 1
  /\ IF CheckForbiddenKeys(p) THEN IngestEvent(TranslateHook(name, p), own)
     ELSE UNCHANGED <<agent, links>>
  /\ UNCHANGED <<active, talks, recent, owner, reviewed>>

Payloads ==
  [conversation : Conversations, step : {1}, tool : Tools,
   session : OrNobody(Sessions \cup Actions), project : OrNobody(Projects), forbidden : BOOLEAN]
\* What the payload of a hook holds: fields that nobody reads are absent.
Holds(name, p) ==
  /\ p.session \in Actions => name = "Correction"
  /\ p.forbidden => p.tool = "run_command" /\ p.session = Nobody /\ p.project = Nobody
  /\ name \notin {"PreToolUse", "PostToolUse", "PostToolFailed"} =>
       p.tool = "run_command" /\ ~p.forbidden /\ p.project = Nobody
  /\ name \in {"PreInvocation", "PostInvocation", "Stop", "Unknown"} => p.session = Nobody

Hooks == {h \in [name : HookNames, payload : Payloads] : Holds(h.name, h.payload)}

\* Nothing after the last hook is of interest.
BridgeNext ==
  /\ hooks < MaxHooks
  /\ \/ \E s \in Sessions, p \in OrNobody(Projects), c \in OrNobody(Conversations), b \in BOOLEAN :
          SetActiveSession(s, p, c, b)
     \/ \E m \in Missions, s \in Sessions : SetActiveMission(m, s)
     \/ \E a \in Actions, s \in Sessions : RecordDwrAction(a, s)
     \/ Tick
     \/ \E h \in Hooks, own \in BOOLEAN : ExecuteHook(h.name, h.payload, own)

BridgeSpec == BridgeInit /\ [][BridgeNext]_bridgeVars

----------------------------------------------------------------------------
\* A link found by name, by argument or by conversation names an action of the
\* session it names: the closest action may be another session's.
LinkedActionIsOfItsSession ==
  \A l \in links :
    l.rule \in {"action id", "tool argument", "conversation and action"} /\ l.action /= Nobody
      => owner[l.action] = l.session

\* correlator.py:7 says the engine never fabricates certainty when a link is
\* only inferred: an EXACT link would then name an action of its own session.
ExactIsCertain ==
  \A l \in links : l.sure = "EXACT" /\ l.action /= Nobody => owner[l.action] = l.session
=============================================================================
