---------------------------- MODULE WebviewFrames ----------------------------
(***************************************************************************)
(* What the client knows of the page: the frame manager, the utility world  *)
(* and the web observation built on them (runtime/frame_manager.py,         *)
(* utility_world.py, ax_runtime.py, web_observation.py, webview_core.py and *)
(* the epochs of references.py).  The browser navigates, adds and removes a *)
(* child frame and creates execution contexts; its events and replies reach *)
(* the client in order over one connection, which may be lost and restored: *)
(* the browser then tells a new connection nothing of its own accord.       *)
(* A document is named by its number; what an observation extracts is the   *)
(* number of the document it ran in.                                        *)
(***************************************************************************)
EXTENDS Naturals, Sequences, FiniteSets

CONSTANTS FrameCallers, None,
          MaxDocuments, MaxContexts, MaxObservations, MaxLosses, MaxEvents  \* bounds

\* What the constants must be.
ASSUME FramesAssumption ==
  /\ {MaxDocuments, MaxContexts} \subseteq Nat \ {0}
  /\ {MaxObservations, MaxLosses, MaxEvents} \subseteq Nat
  /\ None \notin FrameCallers

VARIABLES
  document,  \* the browser's root document
  child,     \* whether the browser has the child frame
  realm,     \* living execution contexts: frame and kind
  told,      \* the connection has the Page and Runtime domains enabled
  events,    \* events and replies on their way
  core,      \* connection step, frames, accessibility domain enabled
  cache,     \* _utility_contexts of the utility world manager
  epoch, refs,      \* reference registry: current epoch, active references
  world,     \* who holds the lock of ensure_utility_world
  task,      \* per caller, the observation under way
  contexts, churn, losses, observations  \* counters; churn counts lost contexts

framesVars == <<document, child, realm, told, events, core, cache, epoch, refs, world, task,
                contexts, churn, losses, observations>>
browser == <<document, child, realm, told, contexts, churn, losses>>
known == <<core, cache, epoch, refs>>

Frames == {"root", "child"}
Ids == 0..MaxContexts
FrameContext == [state : {"ATTACHED", "NAVIGATED", "DETACHED"}, loader : 0..MaxDocuments,
                 main : Ids, utility : Ids, open : BOOLEAN]
NoTask == [step |-> "idle", frame |-> "root", ctx |-> 0, cached |-> 0, epoch |-> 0,
           since |-> 0, retried |-> FALSE, found |-> 0]

\* The types of the variables.
FramesTypeOK ==
  /\ document \in 1..MaxDocuments /\ child \in BOOLEAN /\ told \in BOOLEAN
  /\ Len(events) <= MaxEvents
  /\ core.frames \in [Frames -> FrameContext \cup {None}]
  /\ cache \in [Frames -> Ids]
  /\ refs \subseteq [epoch : 1..MaxDocuments, document : 1..MaxDocuments]
  /\ world \in FrameCallers \cup {None}

FramesInit ==
  /\ document = 1 /\ child = FALSE
  /\ realm = {[id |-> 1, frame |-> "root", utility |-> FALSE]}
  /\ told = FALSE
  /\ events = <<>>
  /\ core = [step |-> "new", frames |-> [f \in Frames |-> None], ax |-> FALSE]
  /\ cache = [f \in Frames |-> 0]
  /\ epoch = 1 /\ refs = {}
  /\ world = None
  /\ task = [c \in FrameCallers |-> NoTask]
  /\ contexts = 1 /\ churn = 0 /\ losses = 0 /\ observations = 0

----------------------------------------------------------------------------
(* The browser *)

Tell(s) == events' = IF told THEN events \o s ELSE events
Fits(n) == Len(events) + n <= MaxEvents
ContextCreated(id, f, utility) == [kind |-> "context", id |-> id, frame |-> f, utility |-> utility]

\* A new root document: the contexts go, the child goes, the main world is created.
Navigate ==
  /\ document < MaxDocuments /\ contexts < MaxContexts /\ Fits(3)
  /\ document' = document + 1 /\ child' = FALSE
  /\ contexts' = contexts + 1 /\ churn' = churn + 1
  /\ realm' = {[id |-> contexts + 1, frame |-> "root", utility |-> FALSE]}
  /\ Tell(<<[kind |-> "cleared"], [kind |-> "navigated", frame |-> "root", document |-> document + 1],
            ContextCreated(contexts + 1, "root", FALSE)>>)
  /\ UNCHANGED <<told, losses, known, world, task, observations>>

ChildAppears ==
  /\ ~child /\ contexts < MaxContexts /\ Fits(3)
  /\ child' = TRUE /\ contexts' = contexts + 1
  /\ realm' = realm \cup {[id |-> contexts + 1, frame |-> "child", utility |-> FALSE]}
  /\ Tell(<<[kind |-> "attached"], [kind |-> "navigated", frame |-> "child", document |-> document],
            ContextCreated(contexts + 1, "child", FALSE)>>)
  /\ UNCHANGED <<document, told, losses, churn, known, world, task, observations>>

Ended(r) == [kind |-> "ended", id |-> r.id]
ChildGoes ==
  LET its == {r \in realm : r.frame = "child"} IN
  /\ child /\ Fits(3) /\ Cardinality(its) <= 2
  /\ child' = FALSE /\ realm' = realm \ its /\ churn' = churn + 1
  /\ \E order \in {s \in [1..Cardinality(its) -> its] : \A r \in its : \E i \in DOMAIN s : s[i] = r} :
       Tell([i \in DOMAIN order |-> Ended(order[i])] \o <<[kind |-> "detached"]>>)
  /\ UNCHANGED <<document, told, contexts, losses, known, world, task, observations>>

Answer(c, ok, value) == [kind |-> "reply", caller |-> c, ok |-> ok, value |-> value]
Exists(f) == f = "root" \/ child

\* Page.createIsolatedWorld: one utility world per frame and call, announced.
ServeWorld(c) ==
  /\ task[c].step = "create" /\ contexts < MaxContexts /\ Fits(2)
  /\ task' = [task EXCEPT ![c].step = "creating"]
  /\ IF Exists(task[c].frame)
     THEN /\ contexts' = contexts + 1
          /\ realm' = realm \cup {[id |-> contexts + 1, frame |-> task[c].frame, utility |-> TRUE]}
          /\ events' = events \o (IF told THEN <<ContextCreated(contexts + 1, task[c].frame, TRUE)>> ELSE <<>>)
                              \o <<Answer(c, TRUE, contexts + 1)>>
     ELSE /\ events' = Append(events, Answer(c, FALSE, 0))
          /\ UNCHANGED <<contexts, realm>>
  /\ UNCHANGED <<document, child, told, churn, losses, known, world, observations>>

\* Runtime.evaluate: the document's number, or "cannot find context".
ServeEvaluate(c) ==
  /\ task[c].step = "evaluate" /\ Fits(1)
  /\ task' = [task EXCEPT ![c].step = "evaluating"]
  /\ events' = Append(events, Answer(c, \E r \in realm : r.id = task[c].ctx, document))
  /\ UNCHANGED <<browser, known, world, observations>>

----------------------------------------------------------------------------
(* Connecting: the domains are enabled once, then the tree is asked for. *)

CoreConnect ==
  /\ core.step = "new" /\ Fits(3)
  /\ core' = [core EXCEPT !.step = "asked"]
  /\ told' = TRUE
  /\ events' = events \o <<ContextCreated(CHOOSE i \in Ids : \E r \in realm : r.id = i /\ r.frame = "root",
                                   "root", FALSE), [kind |-> "tree", document |-> document, child |-> child]>>
  /\ UNCHANGED <<document, child, realm, contexts, churn, losses, cache, epoch, refs, world, task,
                 observations>>

\* The connection drops with what was on it and is restored by itself: waiting
\* callers get an error, nothing is enabled again and nothing is forgotten.
ConnectionRestored ==
  /\ core.step = "connected" /\ losses < MaxLosses
  /\ losses' = losses + 1
  /\ told' = FALSE /\ events' = <<>>
  /\ task' = [c \in FrameCallers |-> IF task[c].step = "idle" THEN NoTask
                                ELSE [NoTask EXCEPT !.step = "offline"]]
  /\ world' = None
  /\ UNCHANGED <<document, child, realm, contexts, churn, known, observations>>

\* The core is closed and connected again: only the cache is emptied.
CoreDisconnect ==
  /\ core.step = "connected" /\ losses < MaxLosses /\ \A c \in FrameCallers : task[c] = NoTask
  /\ losses' = losses + 1
  /\ told' = FALSE /\ events' = <<>>
  /\ core' = [core EXCEPT !.ax = FALSE]
  /\ cache' = [f \in Frames |-> 0]
  /\ UNCHANGED <<document, child, realm, contexts, churn, epoch, refs, world, task, observations>>

----------------------------------------------------------------------------
(* Events *)

Fresh == [state |-> "ATTACHED", loader |-> 0, main |-> 0, utility |-> 0, open |-> TRUE]
Kept(f) == IF core.frames[f] = None THEN Fresh ELSE core.frames[f]
WithFrame(f, r) == core' = [core EXCEPT !.frames[f] = r]

\* A navigated root forgets the other frames and begins a new epoch.
OnFrameNavigated(f, d) ==
  LET record == [state |-> "NAVIGATED", loader |-> d, main |-> 0, utility |-> 0, open |-> TRUE] IN
  IF f = "root"
  THEN /\ core' = [core EXCEPT !.frames = [g \in Frames |-> IF g = f THEN record ELSE None]]
       /\ epoch' = epoch + 1 /\ refs' = {}
  ELSE WithFrame(f, record) /\ UNCHANGED <<epoch, refs>>

OnFrameAttached == WithFrame("child", Fresh) /\ UNCHANGED <<epoch, refs>>

OnFrameDetached ==
  /\ IF core.frames["child"] = None THEN UNCHANGED core
     ELSE WithFrame("child", [core.frames["child"] EXCEPT
                                !.state = "DETACHED", !.main = 0, !.utility = 0, !.open = FALSE])
  /\ UNCHANGED <<epoch, refs>>

OnExecutionContextCreated(f, id, utility) ==
  /\ core' = [core EXCEPT !.frames[f] = IF utility THEN [Kept(f) EXCEPT !.utility = id]
                                        ELSE [Kept(f) EXCEPT !.main = id]]
  /\ UNCHANGED <<epoch, refs>>

Forgotten(r, gone) == IF r = None THEN None
                 ELSE [r EXCEPT !.main = IF @ \in gone THEN 0 ELSE @,
                                !.utility = IF @ \in gone THEN 0 ELSE @]
OnExecutionContextDestroyed(id) ==
  /\ core' = [core EXCEPT !.frames = [f \in Frames |-> Forgotten(@[f], {id})]]
  /\ UNCHANGED <<epoch, refs>>
OnExecutionContextsCleared ==
  /\ core' = [core EXCEPT !.frames = [f \in Frames |-> Forgotten(@[f], Ids)]]
  /\ UNCHANGED <<epoch, refs>>

\* The tree keeps the contexts it knows and every frame it does not mention;
\* a child of another origin is closed to inspection.
ParseFrameTree(d, has) ==
  \E foreign \in BOOLEAN :
    /\ core' = [core EXCEPT !.frames =
                  [f \in Frames |-> IF f = "child" /\ ~has THEN @[f]
                     ELSE [Kept(f) EXCEPT !.state = "ATTACHED", !.loader = d,
                                          !.open = ~(f = "child" /\ foreign)]],
                            !.step = "connected"]
    /\ UNCHANGED <<epoch, refs>>

ReadEvent ==
  /\ events /= <<>>
  /\ LET e == Head(events) IN
     /\ events' = Tail(events)
     /\ \/ e.kind = "navigated" /\ OnFrameNavigated(e.frame, e.document) /\ UNCHANGED task
        \/ e.kind = "attached"  /\ OnFrameAttached /\ UNCHANGED task
        \/ e.kind = "detached"  /\ OnFrameDetached /\ UNCHANGED task
        \/ e.kind = "context"   /\ OnExecutionContextCreated(e.frame, e.id, e.utility)
                                /\ UNCHANGED task
        \/ e.kind = "ended"     /\ OnExecutionContextDestroyed(e.id) /\ UNCHANGED task
        \/ e.kind = "cleared"   /\ OnExecutionContextsCleared /\ UNCHANGED task
        \/ e.kind = "tree"      /\ ParseFrameTree(e.document, e.child) /\ UNCHANGED task
        \/ e.kind = "reply"
             /\ task' = [task EXCEPT ![e.caller].found = e.value, ![e.caller].step =
                           IF @ = "creating" THEN IF e.ok THEN "created" ELSE "failed"
                           ELSE IF e.ok THEN "evaluated" ELSE "lost"]
             /\ UNCHANGED <<core, epoch, refs>>
  /\ UNCHANGED <<browser, cache, world, observations>>

----------------------------------------------------------------------------
(* An observation *)

\* It notes the epoch; the accessibility snapshot it takes first may fail.
BeginObservation(c, f) ==
  /\ core.step = "connected" /\ task[c] = NoTask /\ observations < MaxObservations
  /\ observations' = observations + 1
  /\ task' = [task EXCEPT ![c] = [NoTask EXCEPT !.step = "ensure", !.frame = f, !.epoch = epoch,
                                                !.since = churn]]
  /\ core' = [core EXCEPT !.ax = TRUE]
  /\ UNCHANGED <<browser, events, cache, epoch, refs, world>>

GetFrame(f) == core.frames[f] /= None /\ core.frames[f].state /= "DETACHED"

\* The frame is read before the lock: a cached world it still names is used.
EnsureUtilityWorld(c) ==
  LET f == task[c].frame IN
  /\ task[c].step = "ensure"
  /\ task' = [task EXCEPT ![c] = IF GetFrame(f)
                THEN [@ EXCEPT !.step = "lock", !.cached = core.frames[f].utility]
                ELSE [@ EXCEPT !.step = "gone"]]
  /\ UNCHANGED <<browser, events, known, world, observations>>

UtilityWorldLocked(c) ==
  LET f == task[c].frame IN
  /\ task[c].step = "lock" /\ world = None
  /\ IF cache[f] /= 0 /\ cache[f] = task[c].cached
     THEN /\ task' = [task EXCEPT ![c].step = "evaluate", ![c].ctx = cache[f]]
          /\ UNCHANGED world
     ELSE /\ task' = [task EXCEPT ![c].step = "create"]
          /\ world' = c
  /\ UNCHANGED <<browser, events, known, observations>>

\* The new world is recorded, even for a document that has gone meanwhile.
UtilityWorldCreated(c) ==
  LET f == task[c].frame
      id == task[c].found
  IN /\ task[c].step = "created"
     /\ cache' = [cache EXCEPT ![f] = id]
     /\ core' = IF core.frames[f] = None THEN core ELSE [core EXCEPT !.frames[f].utility = id]
     /\ world' = None
     /\ task' = [task EXCEPT ![c].step = "evaluate", ![c].ctx = id]
     /\ UNCHANGED <<browser, events, epoch, refs, observations>>

UtilityWorldFailed(c) ==
  /\ task[c].step = "failed"
  /\ world' = None
  /\ task' = [task EXCEPT ![c].step = "gone"]
  /\ UNCHANGED <<browser, events, known, observations>>

\* Wrong on purpose: the retry keeps the cached world.
RetryWithCache(c) ==
  /\ task[c].step = "lost" /\ ~task[c].retried
  /\ task' = [task EXCEPT ![c].step = "ensure", ![c].retried = TRUE]
  /\ UNCHANGED <<browser, events, known, world, observations>>

\* The context was lost: the cached world is dropped and one more made.
RetryEvaluate(c) ==
  /\ task[c].step = "lost" /\ ~task[c].retried
  /\ cache' = [cache EXCEPT ![task[c].frame] = 0]
  /\ task' = [task EXCEPT ![c].step = "ensure", ![c].retried = TRUE]
  /\ UNCHANGED <<browser, events, core, epoch, refs, world, observations>>

EvaluateLost(c) == task[c].step = "lost" /\ task[c].retried

\* What was extracted becomes references of the epoch that is current now.
ObserveWebview(c) ==
  /\ task[c].step = "evaluated"
  /\ refs' = refs \cup {[epoch |-> epoch, document |-> task[c].found]}
  /\ task' = [task EXCEPT ![c] = NoTask]
  /\ UNCHANGED <<browser, events, core, cache, epoch, world, observations>>

\* Without a result the observation is empty.
ObserveNothing(c) ==
  /\ task[c].step \in {"gone", "offline"} \/ EvaluateLost(c)
  /\ task' = [task EXCEPT ![c] = NoTask]
  /\ UNCHANGED <<browser, events, known, world, observations>>

FramesNext ==
  \/ Navigate \/ ChildAppears \/ ChildGoes
  \/ CoreConnect \/ ConnectionRestored \/ CoreDisconnect \/ ReadEvent
  \/ \E c \in FrameCallers :
       \/ ServeWorld(c) \/ ServeEvaluate(c)
       \/ \E f \in Frames : BeginObservation(c, f)
       \/ EnsureUtilityWorld(c) \/ UtilityWorldLocked(c) \/ UtilityWorldCreated(c)
       \/ UtilityWorldFailed(c) \/ RetryEvaluate(c) \/ ObserveWebview(c) \/ ObserveNothing(c)

FramesSpec == FramesInit /\ [][FramesNext]_framesVars
----------------------------------------------------------------------------
\* One retry is enough: an evaluation finds no living world twice only when a
\* context was lost after it began, whatever earlier navigations, late replies
\* or restored connections left in the cache.
RetryIsEnough == \A c \in FrameCallers : EvaluateLost(c) => churn > task[c].since

\* frame_manager.py:78 says navigation advances the epoch by itself: with nothing
\* on its way, every active reference would be to the document on the screen.
EpochFollowsNavigation ==
  core.step = "connected" /\ events = <<>> /\ (\A c \in FrameCallers : task[c] = NoTask)
    => \A r \in refs : r.document = document
=============================================================================
