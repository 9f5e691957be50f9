------------------------------ MODULE ActionEngine ------------------------------
(* The tools that act on a page, and those that observe it: execute_action_       *)
(* deduplicated (runtime/mcp/runtime_bridge.py), the engine's execute             *)
(* (runtime/action_engine.py), observe (runtime/observation_engine.py) and the    *)
(* epochs of the reference registry (runtime/references.py), for the references   *)
(* of the web plane of one session.  An action is the code between two awaits.    *)
EXTENDS Integers, Sequences, FiniteSets

CONSTANTS
  Calls,         \* tool calls that act on an element; each is made once
  Inspectors,    \* tasks that observe: desktop_inspect, the resources
  ActionIds,
  IdOf,          \* the action_id of each call
  Overlap,       \* may a call repeat an action_id whose first call is not over?
  MaxMoves       \* bound: navigations and restarts

ASSUME ActionAssumption ==
  /\ IdOf \in [Calls -> ActionIds]
  /\ Calls \cap Inspectors = {}
  /\ Overlap \in BOOLEAN
  /\ MaxMoves \in Nat

VARIABLES
  epoch, active, stale,   \* the registry: _current_epoch, _active_refs, _stale_refs
  doc,         \* the document the page shows, as far as its events tell
  last,        \* _last_snapshot: its epoch and the references in it
  executed,    \* executed_actions: the status kept for each action_id
  queue,       \* the engine's lock: the holder, then those that wait
  pc,
  target,      \* the reference a call names, then the one it acts on
  obs,         \* the observation a task has under way
  sent,        \* for each call: when and where its input began
  answer       \* the status of each call's outcome

registry == <<epoch, active, stale>>
vars == <<epoch, active, stale, doc, last, executed, queue, pc, target, obs, sent, answer>>

Tasks == Calls \cup Inspectors
(* A reference, with the document its element was found in.                       *)
Refs == [epoch : Nat, doc : Nat]
NoRef == [epoch |-> 0, doc |-> 0]
NotSent == [ref |-> NoRef, epoch |-> 0]
NoSnapshot == [epoch |-> 0, refs |-> {}]
Quiet == [epoch |-> 0, seen |-> 0]
Statuses == {"DISPATCHED", "REJECTED", "FAILED"}

TypeOK ==
  /\ epoch \in Nat \ {0} /\ doc \in Nat \ {0}
  /\ active \in SUBSET Refs /\ stale \in SUBSET Refs
  /\ last.epoch \in 0 .. epoch /\ last.refs \subseteq active \cup stale
  /\ executed \in [ActionIds -> Statuses \cup {"none"}]
  /\ queue \in Seq(Calls)
  /\ pc \in [Tasks -> {"idle", "waiting", "observing", "gates", "input", "settling",
                       "concluding", "fusing", "inspecting", "over"}]
  /\ \A c \in Calls :
       /\ target[c] \in active \cup stale \cup {NoRef}
       /\ sent[c] = NotSent \/ sent[c].ref \in active \cup stale
       /\ pc[c] \in {"observing", "gates", "input", "settling", "concluding"}
            => queue # << >> /\ Head(queue) = c
       /\ answer[c] \in Statuses \cup {"none", "raised"}
  /\ \A p \in Tasks : obs[p].epoch <= epoch /\ obs[p].seen <= doc

Init ==
  /\ epoch = 1 /\ doc = 1
  /\ active = {} /\ stale = {}
  /\ last = NoSnapshot
  /\ executed = [a \in ActionIds |-> "none"]
  /\ queue = << >>
  /\ pc = [p \in Tasks |-> "idle"]
  /\ target = [c \in Calls |-> NoRef]
  /\ obs = [p \in Tasks |-> Quiet]
  /\ sent = [c \in Calls |-> NotSent]
  /\ answer = [c \in Calls |-> "none"]

--------------------------------------------------------------------------------
(* increment_epoch, in a step that may change the document too.                   *)
IncrementEpoch ==
  /\ epoch' = epoch + 1
  /\ stale' = stale \cup active
  /\ active' = {}

(* The increments that no action has made.                                        *)
Moves ==
  epoch - 1 - Cardinality({c \in Calls :
    pc[c] = "concluding" \/ (sent[c] # NotSent /\ answer[c] = "DISPATCHED")})

(* _on_frame_navigated for the top-level frame.                                   *)
Navigate ==
  /\ Moves < MaxMoves
  /\ doc' = doc + 1
  /\ IncrementEpoch
  /\ UNCHANGED <<last, executed, queue, pc, target, obs, sent, answer>>

(* RESTART_REVIEW_SESSION, a recovery of a mission on the same session.           *)
RestartReview ==
  /\ Moves < MaxMoves
  /\ IncrementEpoch
  /\ UNCHANGED <<doc, last, executed, queue, pc, target, obs, sent, answer>>

--------------------------------------------------------------------------------
(* observe, from its first await on: at the epoch e it has read, it waits for the *)
(* candidates the page's script finds.                                            *)
Observe(p, e) == obs' = [obs EXCEPT ![p] = [epoch |-> e, seen |-> 0]]

(* The page's answer is read from the socket; the task that waits runs later.     *)
CandidatesArrive(p) ==
  /\ pc[p] \in {"observing", "concluding", "fusing", "inspecting"}
  /\ obs[p].seen = 0
  /\ obs' = [obs EXCEPT ![p].seen = doc]
  /\ UNCHANGED <<registry, doc, last, executed, queue, pc, target, sent, answer>>

(* The end of the observation: register_ref gives each candidate a reference of   *)
(* the registry's epoch, and the snapshot is kept.  Without an answer (the script *)
(* failed, or no page is connected) it holds no element.                          *)
Candidates(p) ==
  IF obs[p].seen = 0 THEN {} ELSE {[epoch |-> epoch, doc |-> obs[p].seen]}

Observed(p) ==
  /\ active' = active \cup Candidates(p)
  /\ last' = [epoch |-> obs[p].epoch, refs |-> Candidates(p)]
  /\ UNCHANGED <<epoch, stale>>

Inspect(i) ==
  /\ pc[i] = "idle"
  /\ pc' = [pc EXCEPT ![i] = "inspecting"]
  /\ Observe(i, epoch)
  /\ UNCHANGED <<registry, doc, last, executed, queue, target, sent, answer>>

Inspected(i) ==
  /\ pc[i] = "inspecting"
  /\ Observed(i)
  /\ pc' = [pc EXCEPT ![i] = "idle"]
  /\ obs' = [obs EXCEPT ![i] = Quiet]
  /\ UNCHANGED <<doc, executed, queue, target, sent, answer>>

--------------------------------------------------------------------------------
(* execute returns an outcome that was not dispatched; the epoch stays.  It is    *)
(* kept for the action_id, and the fused snapshot is taken if the call wants one. *)
(* The first is its mutant.                                                       *)
NotDispatchedLocked(c, status) ==
  /\ answer' = [answer EXCEPT ![c] = status]
  /\ executed' = [executed EXCEPT ![IdOf[c]] = status]
  /\ pc' = [pc EXCEPT ![c] = "over"]
  /\ obs' = [obs EXCEPT ![c] = Quiet]
  /\ UNCHANGED queue

NotDispatched(c, status) ==
  /\ answer' = [answer EXCEPT ![c] = status]
  /\ executed' = [executed EXCEPT ![IdOf[c]] = status]
  /\ queue' = Tail(queue)
  /\ \/ /\ pc' = [pc EXCEPT ![c] = "fusing"]
        /\ Observe(c, epoch)
     \/ /\ pc' = [pc EXCEPT ![c] = "over"]
        /\ obs' = [obs EXCEPT ![c] = Quiet]

(* evaluate_actionability for the resolved reference r, when live is _active_refs. *)
(* It answers at once for a stale reference, and for a page that is not connected. *)
EvaluateActionability(c, r, live) ==
  IF r \notin live THEN NotDispatched(c, "REJECTED") /\ UNCHANGED sent
  ELSE \/ /\ pc' = [pc EXCEPT ![c] = "gates"]
          /\ obs' = [obs EXCEPT ![c] = Quiet]
          /\ UNCHANGED <<executed, queue, sent, answer>>
       \/ NotDispatched(c, "FAILED") /\ UNCHANGED sent

Resolved(c, r) ==
  /\ target' = [target EXCEPT ![c] = r]
  /\ IF last.epoch = epoch THEN EvaluateActionability(c, r, active)
     ELSE /\ pc' = [pc EXCEPT ![c] = "observing"]
          /\ Observe(c, epoch)
          /\ UNCHANGED <<executed, queue, sent, answer>>

Raise(c) ==
  /\ pc' = [pc EXCEPT ![c] = "over"]
  /\ answer' = [answer EXCEPT ![c] = "raised"]
  /\ queue' = Tail(queue)
  /\ UNCHANGED <<executed, target, obs, sent>>

(* _resolve_target: an active reference is itself, a stale one is sought in the   *)
(* last snapshot, where its element may be missing or ambiguous, or found under a *)
(* reference that is stale too.                                                   *)
ResolveTarget(c) ==
  LET r == target[c] IN
  IF r \in active THEN Resolved(c, r)
  ELSE \/ \E found \in last.refs \cap active : Resolved(c, found)
       \/ Raise(c)

--------------------------------------------------------------------------------
MayRepeat(c) ==
  Overlap \/ \A d \in Calls \ {c} : IdOf[d] = IdOf[c] => pc[d] \in {"idle", "over"}

(* execute_action_deduplicated, called with a reference r the registry has handed *)
(* out: an action_id that was executed is answered from executed_actions; the     *)
(* others wait for the lock of initialize_session_engines and for the engine's.   *)
(* The first is its mutant.                                                       *)
ExecuteUnchecked(c) ==
  /\ pc[c] = "idle" /\ MayRepeat(c)
  /\ \E r \in active \cup stale :
       /\ pc' = [pc EXCEPT ![c] = "waiting"]
       /\ target' = [target EXCEPT ![c] = r]
       /\ queue' = Append(queue, c)
       /\ UNCHANGED answer
  /\ UNCHANGED <<registry, doc, last, executed, obs, sent>>

ExecuteDeduplicated(c) ==
  /\ pc[c] = "idle" /\ MayRepeat(c)
  /\ \E r \in active \cup stale :
       IF executed[IdOf[c]] # "none"
       THEN /\ pc' = [pc EXCEPT ![c] = "over"]
            /\ answer' = [answer EXCEPT ![c] = executed[IdOf[c]]]
            /\ UNCHANGED <<target, queue>>
       ELSE /\ pc' = [pc EXCEPT ![c] = "waiting"]
            /\ target' = [target EXCEPT ![c] = r]
            /\ queue' = Append(queue, c)
            /\ UNCHANGED answer
  /\ UNCHANGED <<registry, doc, last, executed, obs, sent>>

(* execute, with the lock.                                                        *)
Execute(c) ==
  /\ pc[c] = "waiting" /\ Head(queue) = c
  /\ ResolveTarget(c)
  /\ UNCHANGED <<registry, doc, last>>

(* The pre-action observation, taken when the last one is of another epoch.       *)
PreObserved(c) ==
  /\ pc[c] = "observing"
  /\ Observed(c)
  /\ EvaluateActionability(c, target[c], active')
  /\ UNCHANGED <<doc, target>>

(* The gates have been evaluated: the executor's checks and the begin of the      *)
(* input.                                                                         *)
Dispatch(c) ==
  /\ pc[c] = "gates"
  /\ \/ NotDispatched(c, "REJECTED") /\ UNCHANGED sent
     \/ target[c].epoch = epoch /\ NotDispatched(c, "FAILED") /\ UNCHANGED sent
     \/ /\ target[c].epoch = epoch
        /\ pc' = [pc EXCEPT ![c] = "input"]
        /\ sent' = [sent EXCEPT ![c] = [ref |-> target[c], epoch |-> epoch]]
        /\ UNCHANGED <<executed, queue, obs, answer>>
  /\ UNCHANGED <<registry, doc, last, target>>

(* The input events are through, or they and the scripted fallback have failed.   *)
Dispatched(c) ==
  /\ pc[c] = "input"
  /\ \/ /\ pc' = [pc EXCEPT ![c] = "settling"]
        /\ UNCHANGED <<executed, queue, obs, answer>>
     \/ NotDispatched(c, "FAILED")
  /\ UNCHANGED <<registry, doc, last, target, sent>>

(* settle is over: a new epoch, and the post-action observation in it.  The first *)
(* is its mutant.                                                                 *)
SettledSameEpoch(c) ==
  /\ pc[c] = "settling"
  /\ pc' = [pc EXCEPT ![c] = "concluding"]
  /\ Observe(c, epoch)
  /\ UNCHANGED <<registry, doc, last, executed, queue, target, sent, answer>>

Settled(c) ==
  /\ pc[c] = "settling"
  /\ IncrementEpoch
  /\ pc' = [pc EXCEPT ![c] = "concluding"]
  /\ Observe(c, epoch + 1)
  /\ UNCHANGED <<doc, last, executed, queue, target, sent, answer>>

(* execute returns and the outcome is kept, with the snapshot it holds.           *)
PostObserved(c) ==
  /\ pc[c] = "concluding"
  /\ Observed(c)
  /\ answer' = [answer EXCEPT ![c] = "DISPATCHED"]
  /\ executed' = [executed EXCEPT ![IdOf[c]] = "DISPATCHED"]
  /\ queue' = Tail(queue)
  /\ pc' = [pc EXCEPT ![c] = "over"]
  /\ obs' = [obs EXCEPT ![c] = Quiet]
  /\ UNCHANGED <<doc, target, sent>>

(* The snapshot is fused into the outcome, which is kept once more.               *)
Fused(c) ==
  /\ pc[c] = "fusing"
  /\ Observed(c)
  /\ executed' = [executed EXCEPT ![IdOf[c]] = answer[c]]
  /\ pc' = [pc EXCEPT ![c] = "over"]
  /\ obs' = [obs EXCEPT ![c] = Quiet]
  /\ UNCHANGED <<doc, queue, target, sent, answer>>

Resumes(c) ==
  Execute(c) \/ PreObserved(c) \/ Dispatch(c) \/ Dispatched(c) \/ Settled(c)
    \/ PostObserved(c) \/ Fused(c)

Next ==
  \/ \E c \in Calls : ExecuteDeduplicated(c) \/ Resumes(c)
  \/ \E i \in Inspectors : Inspect(i) \/ Inspected(i)
  \/ \E p \in Tasks : CandidatesArrive(p)
  \/ Navigate \/ RestartReview

(* Every await of a call ends: locks are granted in order, the answers of         *)
(* commands, gates, settlement and observations are bounded in time.  That a      *)
(* command gets onto the wire is assumed: the write has no timeout of its own     *)
(* (CdpTransport, EverySendEnds).                                                 *)
Fairness == \A c \in Calls : WF_vars(Resumes(c))

Spec == Init /\ [][Next]_vars /\ Fairness

--------------------------------------------------------------------------------
Begun(c) == sent[c] # NotSent

(* However a call was suspended between resolving its reference and its first     *)
(* input event, that event is sent in the epoch the reference is of: a navigation *)
(* during the recovery, the pre-action observation or the gates stops it.         *)
DispatchFenced == \A c \in Calls : Begun(c) => sent[c].ref.epoch = sent[c].epoch

(* What an epoch has shown is acted upon once: of two inputs begun in one epoch,  *)
(* by whatever calls, at least one failed on the way.                             *)
OneDispatchPerEpoch ==
  \A c, d \in Calls :
    c # d /\ Begun(c) /\ Begun(d) /\ sent[c].epoch = sent[d].epoch
      => "FAILED" \in {answer[c], answer[d]}

(* A retry never replays: input is begun at most once for an action_id.           *)
NoReplay ==
  \A c, d \in Calls : Begun(c) /\ Begun(d) /\ IdOf[c] = IdOf[d] => c = d

(* What a retry is told is what happened: the status kept for an action_id says   *)
(* DISPATCHED exactly when a call of it has dispatched, REJECTED only when none   *)
(* has begun its input.                                                           *)
CacheIsTrue ==
  \A a \in ActionIds :
    LET dispatched == \E c \in Calls : IdOf[c] = a /\ answer[c] = "DISPATCHED" /\ Begun(c) IN
    /\ executed[a] = "DISPATCHED" <=> dispatched
    /\ executed[a] = "REJECTED" => \A c \in Calls : IdOf[c] = a => ~Begun(c)

(* No action_id is dispatched twice, even when the retry comes early.             *)
DispatchedOnce ==
  \A c, d \in Calls :
    /\ Begun(c) /\ answer[c] = "DISPATCHED"
    /\ Begun(d) /\ answer[d] = "DISPATCHED"
    /\ IdOf[c] = IdOf[d]
    => c = d

(* An active reference is of the document the page shows.                         *)
RefsAreLive == \A r \in active : r.doc = doc

(* Every call that was made ends, whatever the others do.                         *)
EveryCallEnds == \A c \in Calls : pc[c] = "waiting" ~> pc[c] = "over"
================================================================================
