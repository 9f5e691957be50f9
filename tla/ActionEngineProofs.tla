--------------------------- MODULE ActionEngineProofs ---------------------------
(* What ActionEngine's runs show on an instance, for every number of calls,       *)
(* inspectors, action_ids and epochs: input is fenced by epochs, an epoch is      *)
(* acted upon once, and a retry that waits for the first call never replays and   *)
(* is told the truth.                                                             *)
EXTENDS ActionEngine, TLAPS

PCs == {"idle", "waiting", "observing", "gates", "input", "settling",
        "concluding", "fusing", "inspecting", "over"}
Holding == {"observing", "gates", "input", "settling", "concluding"}
InExecute == Holding \cup {"waiting"}

(* The registry, the snapshots and what tasks hold of them.                       *)
RegistryTypes ==
  /\ epoch \in Nat \ {0} /\ doc \in Nat
  /\ active \in SUBSET Refs /\ stale \in SUBSET Refs
  /\ last \in [epoch : Nat, refs : SUBSET Refs]
  /\ target \in [Calls -> Refs]
  /\ obs \in [Tasks -> [epoch : Nat, seen : Nat]]

CallTypes ==
  /\ executed \in [ActionIds -> Statuses \cup {"none"}]
  /\ queue \in Seq(Calls)
  /\ pc \in [Tasks -> PCs]
  /\ sent \in [Calls -> [ref : Refs, epoch : Nat]]
  /\ answer \in [Calls -> Statuses \cup {"none", "raised"}]

(* The engine's lock: the call that executes is the head of the queue, and a call *)
(* that waits is in it.                                                           *)
Locked(c) ==
  /\ pc[c] \in Holding => queue # << >> /\ Head(queue) = c
  /\ pc[c] = "waiting" => \E n \in 1 .. Len(queue) : queue[n] = c

(* Input is begun between the gates and the answer.                               *)
Ordered(c) ==
  /\ pc[c] # "inspecting"
  /\ Begun(c) => pc[c] \in {"input", "settling", "concluding", "fusing", "over"}
  /\ pc[c] \in {"input", "settling", "concluding"} => Begun(c)
  /\ answer[c] # "none" => pc[c] \in {"fusing", "over"}
  /\ pc[c] = "fusing" => answer[c] \in {"REJECTED", "FAILED"}

(* An epoch is left behind by its action unless that failed or is under way.      *)
Fenced(c) ==
  Begun(c) =>
    /\ sent[c].ref.epoch = sent[c].epoch
    /\ sent[c].epoch <= epoch
    /\ sent[c].epoch = epoch => pc[c] \in {"input", "settling"} \/ answer[c] = "FAILED"

(* One call of an action_id at a time, and what executed_actions says of it.      *)
Alone(c, d) ==
  c # d /\ IdOf[c] = IdOf[d] /\ pc[c] \notin {"idle", "over"} => pc[d] \in {"idle", "over"}
Fresh(c) == pc[c] \in InExecute => executed[IdOf[c]] = "none"
Unkept(c) ==
  executed[IdOf[c]] = "none" =>
    /\ answer[c] \in {"none", "raised"}
    /\ Begun(c) => pc[c] \in {"input", "settling", "concluding"}
Fusing(c) == pc[c] = "fusing" => executed[IdOf[c]] = answer[c]

Single ==
  /\ \A c, d \in Calls : Alone(c, d)
  /\ \A c \in Calls : Fresh(c) /\ Unkept(c) /\ Fusing(c)

CallInv ==
  /\ CallTypes
  /\ \A c \in Calls : Locked(c) /\ Ordered(c) /\ Fenced(c)
  /\ OneDispatchPerEpoch

RetryInv == Single /\ NoReplay /\ CacheIsTrue

--------------------------------------------------------------------------------
(* What a step does to the calls: the kinds of steps, without the registry.       *)
Goes(c, from, to) == pc[c] \in from /\ pc' = [pc EXCEPT ![c] = to]

Queues(c) ==
  /\ Goes(c, {"idle"}, "waiting") /\ MayRepeat(c)
  /\ executed[IdOf[c]] = "none"
  /\ queue' = Append(queue, c)
  /\ UNCHANGED <<epoch, executed, sent, answer>>

Repeats(c) ==
  /\ Goes(c, {"idle"}, "over") /\ MayRepeat(c)
  /\ executed[IdOf[c]] # "none"
  /\ answer' = [answer EXCEPT ![c] = executed[IdOf[c]]]
  /\ UNCHANGED <<epoch, executed, queue, sent>>

Proceeds(c) ==
  /\ \/ /\ pc[c] = "waiting" /\ Head(queue) = c
        /\ pc' = [pc EXCEPT ![c] = "observing"] \/ pc' = [pc EXCEPT ![c] = "gates"]
     \/ Goes(c, {"observing"}, "gates")
     \/ Goes(c, {"input"}, "settling")
  /\ UNCHANGED <<epoch, executed, queue, sent, answer>>

Refuses(c) ==
  /\ pc[c] \in {"waiting", "observing", "gates", "input"}
  /\ pc[c] = "waiting" => Head(queue) = c
  /\ pc' = [pc EXCEPT ![c] = "fusing"] \/ pc' = [pc EXCEPT ![c] = "over"]
  /\ \E s \in {"REJECTED", "FAILED"} :
       /\ pc[c] = "input" => s = "FAILED"
       /\ answer' = [answer EXCEPT ![c] = s]
       /\ executed' = [executed EXCEPT ![IdOf[c]] = s]
  /\ queue' = Tail(queue)
  /\ UNCHANGED <<epoch, sent>>

Raises(c) ==
  /\ Goes(c, {"waiting"}, "over") /\ Head(queue) = c
  /\ answer' = [answer EXCEPT ![c] = "raised"]
  /\ queue' = Tail(queue)
  /\ UNCHANGED <<epoch, executed, sent>>

Dispatches(c) ==
  /\ Goes(c, {"gates"}, "input")
  /\ target[c].epoch = epoch
  /\ sent' = [sent EXCEPT ![c] = [ref |-> target[c], epoch |-> epoch]]
  /\ UNCHANGED <<epoch, executed, queue, answer>>

Settles(c) ==
  /\ Goes(c, {"settling"}, "concluding")
  /\ epoch' = epoch + 1
  /\ UNCHANGED <<executed, queue, sent, answer>>

Concludes(c) ==
  /\ Goes(c, {"concluding"}, "over")
  /\ answer' = [answer EXCEPT ![c] = "DISPATCHED"]
  /\ executed' = [executed EXCEPT ![IdOf[c]] = "DISPATCHED"]
  /\ queue' = Tail(queue)
  /\ UNCHANGED <<epoch, sent>>

Fuses(c) ==
  /\ Goes(c, {"fusing"}, "over")
  /\ executed' = [executed EXCEPT ![IdOf[c]] = answer[c]]
  /\ UNCHANGED <<epoch, queue, sent, answer>>

Elsewhere ==
  /\ \A c \in Calls : pc'[c] = pc[c]
  /\ pc' \in [Tasks -> PCs]
  /\ epoch' \in {epoch, epoch + 1}
  /\ UNCHANGED <<executed, queue, sent, answer>>

CallStep(c) ==
  \/ Queues(c) \/ Repeats(c) \/ Proceeds(c) \/ Refuses(c) \/ Raises(c)
  \/ Dispatches(c) \/ Settles(c) \/ Concludes(c) \/ Fuses(c)

--------------------------------------------------------------------------------
(* The registry keeps its types, whatever is observed.                            *)
LEMMA CandidateTypes ==
  ASSUME RegistryTypes, NEW p \in Tasks
  PROVE  Candidates(p) \subseteq Refs
BY DEF RegistryTypes, Candidates, Refs

LEMMA ObservedTypes ==
  ASSUME RegistryTypes, NEW p \in Tasks, Observed(p)
  PROVE  /\ active' \in SUBSET Refs /\ last' \in [epoch : Nat, refs : SUBSET Refs]
         /\ epoch' = epoch /\ stale' = stale
BY CandidateTypes DEF RegistryTypes, Observed

LEMMA ObserveTypes ==
  ASSUME RegistryTypes, NEW p \in Tasks, NEW e \in Nat,
         Observe(p, e) \/ obs' = [obs EXCEPT ![p] = Quiet]
  PROVE  obs' \in [Tasks -> [epoch : Nat, seen : Nat]]
BY DEF RegistryTypes, Observe, Quiet

LEMMA EpochTypes ==
  ASSUME RegistryTypes, IncrementEpoch
  PROVE  /\ epoch' \in Nat \ {0} /\ active' \in SUBSET Refs /\ stale' \in SUBSET Refs
         /\ epoch' = epoch + 1
BY DEF RegistryTypes, IncrementEpoch

--------------------------------------------------------------------------------
(* Every step is of one of the kinds.                                             *)
LEMMA RefusalKind ==
  ASSUME CallTypes, NEW c \in Calls, NEW s \in {"REJECTED", "FAILED"},
         pc[c] \in {"waiting", "observing", "gates", "input"},
         pc[c] = "waiting" => Head(queue) = c,
         pc[c] = "input" => s = "FAILED",
         NotDispatched(c, s), sent' = sent, epoch' = epoch
  PROVE  Refuses(c)
BY DEF NotDispatched, Refuses

LEMMA GatesKind ==
  ASSUME CallTypes, NEW c \in Calls, NEW r, NEW live, epoch' = epoch,
         pc[c] = "observing" \/ (pc[c] = "waiting" /\ Head(queue) = c),
         EvaluateActionability(c, r, live)
  PROVE  Proceeds(c) \/ Refuses(c)
<1>1. CASE r \notin live
  <2>1. NotDispatched(c, "REJECTED") /\ sent' = sent
    BY <1>1 DEF EvaluateActionability
  <2>. QED BY <2>1, RefusalKind
<1>2. CASE NotDispatched(c, "FAILED") /\ sent' = sent
  BY <1>2, RefusalKind
<1>3. CASE pc' = [pc EXCEPT ![c] = "gates"] /\ UNCHANGED <<executed, queue, sent, answer>>
  BY <1>3 DEF Proceeds, Goes
<1>. QED BY <1>1, <1>2, <1>3 DEF EvaluateActionability

LEMMA ResolvedKind ==
  ASSUME CallTypes, NEW c \in Calls, NEW r, epoch' = epoch,
         pc[c] = "waiting", Head(queue) = c, Resolved(c, r)
  PROVE  Proceeds(c) \/ Refuses(c)
<1>1. CASE last.epoch = epoch
  <2>1. EvaluateActionability(c, r, active)
    BY <1>1 DEF Resolved
  <2>. QED BY <2>1, GatesKind
<1>2. CASE last.epoch # epoch
  <2>1. pc' = [pc EXCEPT ![c] = "observing"] /\ UNCHANGED <<executed, queue, sent, answer>>
    BY <1>2 DEF Resolved
  <2>. QED BY <2>1 DEF Proceeds
<1>. QED BY <1>1, <1>2

LEMMA CallKinds ==
  ASSUME CallTypes, NEW c \in Calls, ExecuteDeduplicated(c) \/ Resumes(c)
  PROVE  CallStep(c)
<1>1. CASE ExecuteDeduplicated(c)
  BY <1>1 DEF ExecuteDeduplicated, CallStep, Queues, Repeats, Goes, registry
<1>2. CASE Execute(c)
  <2>1. pc[c] = "waiting" /\ Head(queue) = c /\ epoch' = epoch /\ ResolveTarget(c)
    BY <1>2 DEF Execute, registry
  <2>2. CASE Raise(c)
    BY <2>1, <2>2 DEF Raise, Raises, Goes, CallStep
  <2>3. CASE \E r \in {target[c]} \cup (last.refs \cap active) : Resolved(c, r)
    <3>1. PICK r : Resolved(c, r)
      BY <2>3
    <3>. QED BY <2>1, <3>1, ResolvedKind DEF CallStep
  <2>. QED BY <2>1, <2>2, <2>3 DEF ResolveTarget
<1>3. CASE PreObserved(c)
  <2>1. pc[c] = "observing" /\ epoch' = epoch
    BY <1>3 DEF PreObserved, Observed
  <2>2. PICK r, live : r = target[c] /\ live = active'
    OBVIOUS
  <2>3. EvaluateActionability(c, r, live)
    BY <1>3, <2>2 DEF PreObserved, EvaluateActionability
  <2>. QED BY <2>1, <2>3, GatesKind DEF CallStep
<1>4. CASE Dispatch(c)
  <2>0. pc[c] = "gates" /\ epoch' = epoch
    BY <1>4 DEF Dispatch, registry
  <2>1. CASE \E s \in {"REJECTED", "FAILED"} : NotDispatched(c, s) /\ sent' = sent
    <3>1. PICK s \in {"REJECTED", "FAILED"} : NotDispatched(c, s) /\ sent' = sent
      BY <2>1
    <3>. QED BY <2>0, <3>1, RefusalKind DEF CallStep
  <2>2. CASE /\ target[c].epoch = epoch
             /\ pc' = [pc EXCEPT ![c] = "input"]
             /\ sent' = [sent EXCEPT ![c] = [ref |-> target[c], epoch |-> epoch]]
             /\ UNCHANGED <<executed, queue, obs, answer>>
    BY <2>0, <2>2 DEF CallStep, Dispatches, Goes
  <2>. QED BY <1>4, <2>1, <2>2 DEF Dispatch
<1>5. CASE Dispatched(c)
  <2>0. pc[c] = "input" /\ epoch' = epoch /\ sent' = sent
    BY <1>5 DEF Dispatched, registry
  <2>1. CASE NotDispatched(c, "FAILED")
    BY <2>0, <2>1, RefusalKind DEF CallStep
  <2>2. CASE pc' = [pc EXCEPT ![c] = "settling"] /\ UNCHANGED <<executed, queue, obs, answer>>
    BY <2>0, <2>2 DEF CallStep, Proceeds, Goes
  <2>. QED BY <1>5, <2>1, <2>2 DEF Dispatched
<1>6. CASE Settled(c)
  BY <1>6 DEF Settled, IncrementEpoch, CallStep, Settles, Goes
<1>7. CASE PostObserved(c)
  BY <1>7 DEF PostObserved, Observed, CallStep, Concludes, Goes
<1>8. CASE Fused(c)
  BY <1>8 DEF Fused, Observed, CallStep, Fuses, Goes
<1>. QED BY <1>1, <1>2, <1>3, <1>4, <1>5, <1>6, <1>7, <1>8 DEF Resumes

LEMMA Kinds ==
  ASSUME CallTypes, [Next]_vars
  PROVE  (\E c \in Calls : CallStep(c)) \/ Elsewhere
<1>1. CASE UNCHANGED vars
  BY <1>1 DEF vars, registry, Elsewhere, CallTypes
<1>2. ASSUME NEW i \in Inspectors, Inspect(i) \/ Inspected(i)
      PROVE  Elsewhere
  <2>1. i \notin Calls /\ i \in Tasks
    BY ActionAssumption DEF Tasks
  <2>2. pc' \in [Tasks -> PCs] /\ \A c \in Calls : pc'[c] = pc[c]
    BY <1>2, <2>1 DEF CallTypes, PCs, Inspect, Inspected, Tasks
  <2>. QED BY <1>2, <2>2 DEF Elsewhere, Inspect, Inspected, Observed, registry
<1>3. ASSUME NEW p \in Tasks, CandidatesArrive(p)
      PROVE  Elsewhere
  BY <1>3 DEF Elsewhere, CandidatesArrive, registry, CallTypes
<1>4. CASE Navigate \/ RestartReview
  BY <1>4 DEF Elsewhere, Navigate, RestartReview, IncrementEpoch, CallTypes
<1>. QED BY <1>1, <1>2, <1>3, <1>4, CallKinds DEF Next

--------------------------------------------------------------------------------
LEMMA NotDispatchedTypes ==
  ASSUME RegistryTypes, NEW c \in Calls, NEW s, NotDispatched(c, s)
  PROVE  obs' \in [Tasks -> [epoch : Nat, seen : Nat]]
<1>1. c \in Tasks /\ epoch \in Nat
  BY DEF Tasks, RegistryTypes
<1>2. Observe(c, epoch) \/ obs' = [obs EXCEPT ![c] = Quiet]
  BY DEF NotDispatched
<1>. QED BY <1>1, <1>2, ObserveTypes

LEMMA GatesTypes ==
  ASSUME RegistryTypes, NEW c \in Calls, NEW r, NEW live, EvaluateActionability(c, r, live)
  PROVE  obs' \in [Tasks -> [epoch : Nat, seen : Nat]]
<1>1. CASE \E s : NotDispatched(c, s)
  BY <1>1, NotDispatchedTypes
<1>2. CASE obs' = [obs EXCEPT ![c] = Quiet]
  BY <1>2, ObserveTypes DEF Tasks, RegistryTypes
<1>. QED BY <1>1, <1>2 DEF EvaluateActionability

LEMMA ResolvedTypes ==
  ASSUME RegistryTypes, NEW c \in Calls, NEW r \in Refs, Resolved(c, r)
  PROVE  /\ target' \in [Calls -> Refs]
         /\ obs' \in [Tasks -> [epoch : Nat, seen : Nat]]
<1>1. target' \in [Calls -> Refs]
  BY DEF Resolved, RegistryTypes
<1>2. CASE EvaluateActionability(c, r, active)
  BY <1>1, <1>2, GatesTypes
<1>3. CASE Observe(c, epoch)
  BY <1>1, <1>3, ObserveTypes DEF Tasks, RegistryTypes
<1>. QED BY <1>2, <1>3 DEF Resolved

LEMMA RegistryKept ==
  ASSUME RegistryTypes, [Next]_vars
  PROVE  RegistryTypes'
<1>. Calls \subseteq Tasks /\ Inspectors \subseteq Tasks
  BY DEF Tasks
<1>1. CASE UNCHANGED vars
  BY <1>1 DEF vars, registry, RegistryTypes
<1>2. ASSUME NEW c \in Calls, ExecuteDeduplicated(c) PROVE RegistryTypes'
  BY <1>2 DEF ExecuteDeduplicated, registry, RegistryTypes
<1>3. ASSUME NEW c \in Calls, Execute(c) PROVE RegistryTypes'
  <2>1. UNCHANGED <<epoch, active, stale, doc, last>> /\ ResolveTarget(c)
    BY <1>3 DEF Execute, registry
  <2>2. CASE Raise(c)
    BY <2>1, <2>2 DEF Raise, RegistryTypes
  <2>3. CASE \E r \in Refs : Resolved(c, r)
    BY <2>1, <2>3, ResolvedTypes DEF RegistryTypes
  <2>. QED BY <2>1, <2>2, <2>3 DEF ResolveTarget, RegistryTypes
<1>4. ASSUME NEW c \in Calls, PreObserved(c) PROVE RegistryTypes'
  <2>1. PICK r, live : r = target[c] /\ live = active'
    OBVIOUS
  <2>2. EvaluateActionability(c, r, live)
    BY <1>4, <2>1 DEF PreObserved, EvaluateActionability
  <2>3. Observed(c) /\ UNCHANGED <<doc, target>>
    BY <1>4 DEF PreObserved
  <2>. QED BY <2>2, <2>3, GatesTypes, ObservedTypes DEF RegistryTypes
<1>5. ASSUME NEW c \in Calls, Dispatch(c) PROVE RegistryTypes'
  <2>1. UNCHANGED <<epoch, active, stale, doc, last, target>>
    BY <1>5 DEF Dispatch, registry
  <2>2. CASE \E s : NotDispatched(c, s)
    BY <2>1, <2>2, NotDispatchedTypes DEF RegistryTypes
  <2>3. CASE UNCHANGED obs
    BY <2>1, <2>3 DEF RegistryTypes
  <2>. QED BY <1>5, <2>2, <2>3 DEF Dispatch
<1>6. ASSUME NEW c \in Calls, Dispatched(c) PROVE RegistryTypes'
  <2>1. UNCHANGED <<epoch, active, stale, doc, last, target>>
    BY <1>6 DEF Dispatched, registry
  <2>2. CASE NotDispatched(c, "FAILED")
    BY <2>1, <2>2, NotDispatchedTypes DEF RegistryTypes
  <2>3. CASE UNCHANGED obs
    BY <2>1, <2>3 DEF RegistryTypes
  <2>. QED BY <1>6, <2>2, <2>3 DEF Dispatched
<1>7. ASSUME NEW c \in Calls, Settled(c) PROVE RegistryTypes'
  <2>1. epoch + 1 \in Nat
    BY DEF RegistryTypes
  <2>2. obs' \in [Tasks -> [epoch : Nat, seen : Nat]]
    BY <1>7, <2>1, ObserveTypes DEF Settled
  <2>. QED BY <1>7, <2>2, EpochTypes DEF Settled, RegistryTypes
<1>8. ASSUME NEW c \in Calls, PostObserved(c) \/ Fused(c) PROVE RegistryTypes'
  <2>1. Observed(c) /\ obs' = [obs EXCEPT ![c] = Quiet] /\ UNCHANGED <<doc, target>>
    BY <1>8 DEF PostObserved, Fused
  <2>. QED BY <2>1, ObserveTypes, ObservedTypes DEF RegistryTypes
<1>9. ASSUME NEW i \in Inspectors, Inspect(i) PROVE RegistryTypes'
  <2>1. obs' \in [Tasks -> [epoch : Nat, seen : Nat]]
    BY <1>9, ObserveTypes DEF Inspect, RegistryTypes
  <2>. QED BY <1>9, <2>1 DEF Inspect, registry, RegistryTypes
<1>10. ASSUME NEW i \in Inspectors, Inspected(i) PROVE RegistryTypes'
  <2>1. Observed(i) /\ obs' = [obs EXCEPT ![i] = Quiet] /\ UNCHANGED <<doc, target>>
    BY <1>10 DEF Inspected
  <2>. QED BY <2>1, ObserveTypes, ObservedTypes DEF RegistryTypes
<1>11. ASSUME NEW p \in Tasks, CandidatesArrive(p) PROVE RegistryTypes'
  <2>1. obs[p] \in [epoch : Nat, seen : Nat] /\ doc \in Nat
    BY DEF RegistryTypes
  <2>2. [obs[p] EXCEPT !.seen = doc] \in [epoch : Nat, seen : Nat]
    BY <2>1
  <2>3. obs' = [obs EXCEPT ![p] = [obs[p] EXCEPT !.seen = doc]]
    BY <1>11 DEF CandidatesArrive
  <2>4. obs' \in [Tasks -> [epoch : Nat, seen : Nat]]
    BY <2>2, <2>3, Zenon DEF RegistryTypes
  <2>. QED BY <1>11, <2>4 DEF CandidatesArrive, registry, RegistryTypes
<1>12. CASE Navigate \/ RestartReview
  BY <1>12, EpochTypes DEF Navigate, RestartReview, RegistryTypes
<1>. QED
  BY <1>1, <1>2, <1>3, <1>4, <1>5, <1>6, <1>7, <1>8, <1>9, <1>10, <1>11, <1>12
  DEF Next, Resumes

--------------------------------------------------------------------------------
(* The lock.                                                                      *)
LEMMA TailKeeps ==
  ASSUME NEW S, NEW q \in Seq(S), NEW n \in 1 .. Len(q), q[n] # Head(q)
  PROVE  \E m \in 1 .. Len(Tail(q)) : Tail(q)[m] = q[n]
<1>1. q # << >> /\ n # 1
  OBVIOUS
<1>2. n - 1 \in 1 .. Len(Tail(q)) /\ Tail(q)[n - 1] = q[n]
  BY <1>1
<1>. QED BY <1>2

LEMMA AppendKeeps ==
  ASSUME NEW S, NEW q \in Seq(S), NEW x \in S
  PROVE  /\ \A n \in 1 .. Len(q) : n \in 1 .. Len(Append(q, x)) /\ Append(q, x)[n] = q[n]
         /\ Len(q) + 1 \in 1 .. Len(Append(q, x)) /\ Append(q, x)[Len(q) + 1] = x
         /\ Append(q, x) # << >>
         /\ q # << >> => Head(Append(q, x)) = Head(q)
OBVIOUS

(* A call that is done passes the lock on.                                        *)
LEMMA Released ==
  ASSUME CallTypes, \A d \in Calls : Locked(d), NEW c \in Calls,
         queue # << >>, Head(queue) = c, queue' = Tail(queue),
         pc'[c] \notin InExecute, \A d \in Calls \ {c} : pc'[d] = pc[d]
  PROVE  \A d \in Calls : Locked(d)'
<1>. SUFFICES ASSUME NEW d \in Calls PROVE Locked(d)'
  OBVIOUS
<1>1. CASE d = c
  BY <1>1 DEF Locked, InExecute, Holding
<1>2. CASE d # c
  <2>1. pc[d] \notin Holding
    BY <1>2 DEF Locked
  <2>2. ASSUME pc[d] = "waiting" PROVE \E n \in 1 .. Len(queue') : queue'[n] = d
    <3>1. PICK n \in 1 .. Len(queue) : queue[n] = d
      BY <2>2 DEF Locked
    <3>. QED BY <1>2, <3>1, TailKeeps DEF CallTypes
  <2>. QED BY <1>2, <2>1, <2>2 DEF Locked
<1>. QED BY <1>1, <1>2

LEMMA HeadHolds ==
  ASSUME CallTypes, NEW c \in Calls, Locked(c),
         pc[c] \in Holding \/ (pc[c] = "waiting" /\ Head(queue) = c)
  PROVE  queue # << >> /\ Head(queue) = c
<1>1. CASE pc[c] \in Holding
  BY <1>1 DEF Locked
<1>2. CASE pc[c] = "waiting" /\ Head(queue) = c
  <2>1. PICK n \in 1 .. Len(queue) : queue[n] = c
    BY <1>2 DEF Locked
  <2>. QED BY <1>2, <2>1 DEF CallTypes
<1>. QED BY <1>1, <1>2

LEMMA CallTypesKept ==
  ASSUME RegistryTypes, CallTypes, NEW c \in Calls, Locked(c), Ordered(c), CallStep(c)
  PROVE  CallTypes'
<1>. c \in Tasks /\ IdOf[c] \in ActionIds
  BY ActionAssumption DEF Tasks
<1>. USE DEF CallTypes, Goes, PCs, Statuses
<1>1. CASE Queues(c)
  BY <1>1 DEF Queues
<1>2. CASE Repeats(c)
  BY <1>2 DEF Repeats
<1>3. CASE Proceeds(c)
  BY <1>3 DEF Proceeds
<1>4. CASE Refuses(c) \/ Raises(c) \/ Concludes(c)
  <2>1. pc' \in [Tasks -> PCs]
    BY <1>4 DEF Refuses, Raises, Concludes
  <2>2. executed' \in [ActionIds -> Statuses \cup {"none"}]
    BY <1>4 DEF Refuses, Raises, Concludes
  <2>3. answer' \in [Calls -> Statuses \cup {"none", "raised"}]
    BY <1>4 DEF Refuses, Raises, Concludes
  <2>4. queue' = Tail(queue) /\ sent' = sent
    BY <1>4 DEF Refuses, Raises, Concludes
  <2>5. pc[c] \in Holding \/ (pc[c] = "waiting" /\ Head(queue) = c)
    BY <1>4 DEF Refuses, Raises, Concludes, Holding
  <2>6. queue # << >>
    BY <2>5, HeadHolds
  <2>. QED BY <2>1, <2>2, <2>3, <2>4, <2>6
<1>5. CASE Dispatches(c)
  <2>1. [ref |-> target[c], epoch |-> epoch] \in [ref : Refs, epoch : Nat]
    BY DEF RegistryTypes
  <2>. QED BY <1>5, <2>1 DEF Dispatches
<1>6. CASE Settles(c)
  BY <1>6 DEF Settles
<1>7. CASE Fuses(c)
  BY <1>7 DEF Fuses, Ordered
<1>. QED BY <1>1, <1>2, <1>3, <1>4, <1>5, <1>6, <1>7 DEF CallStep

LEMMA LockedKept ==
  ASSUME CallTypes, \A d \in Calls : Locked(d), NEW c \in Calls, CallStep(c)
  PROVE  \A d \in Calls : Locked(d)'
<1>. c \in Tasks /\ \A d \in Calls : d \in Tasks
  BY DEF Tasks
<1>1. CASE Queues(c)
  <2>. SUFFICES ASSUME NEW d \in Calls PROVE Locked(d)'
    OBVIOUS
  <2>1. queue' = Append(queue, c) /\ pc'[c] = "waiting" /\ (d # c => pc'[d] = pc[d])
    BY <1>1 DEF Queues, Goes, CallTypes
  <2>. QED BY <2>1, AppendKeeps DEF Locked, CallTypes, Holding
<1>2. CASE Refuses(c) \/ Raises(c) \/ Concludes(c)
  <2>1. pc[c] \in Holding \/ (pc[c] = "waiting" /\ Head(queue) = c)
    BY <1>2 DEF Refuses, Raises, Concludes, Goes, Holding
  <2>2. queue # << >> /\ Head(queue) = c
    BY <2>1, HeadHolds
  <2>3. /\ queue' = Tail(queue) /\ pc'[c] \in {"fusing", "over"}
        /\ \A d \in Calls \ {c} : pc'[d] = pc[d]
    BY <1>2 DEF Refuses, Raises, Concludes, Goes, CallTypes
  <2>. QED BY <2>2, <2>3, Released DEF InExecute, Holding
<1>3. CASE Proceeds(c) \/ Dispatches(c) \/ Settles(c)
  <2>1. pc[c] \in Holding \/ (pc[c] = "waiting" /\ Head(queue) = c)
    BY <1>3 DEF Proceeds, Dispatches, Settles, Goes, Holding
  <2>2. queue # << >> /\ Head(queue) = c
    BY <2>1, HeadHolds
  <2>3. /\ queue' = queue /\ pc'[c] \in Holding
        /\ \A d \in Calls \ {c} : pc'[d] = pc[d]
    BY <1>3 DEF Proceeds, Dispatches, Settles, Goes, CallTypes, Holding
  <2>. QED BY <2>2, <2>3 DEF Locked, Holding
<1>4. CASE Repeats(c) \/ Fuses(c)
  <2>1. /\ queue' = queue /\ pc'[c] = "over"
        /\ \A d \in Calls \ {c} : pc'[d] = pc[d]
    BY <1>4 DEF Repeats, Fuses, Goes, CallTypes
  <2>. QED BY <2>1 DEF Locked, Holding
<1>. QED BY <1>1, <1>2, <1>3, <1>4 DEF CallStep

--------------------------------------------------------------------------------
(* The order within a call.                                                       *)
LEMMA Others ==
  ASSUME CallTypes, NEW c \in Calls, CallStep(c), NEW d \in Calls \ {c}
  PROVE  pc'[d] = pc[d] /\ sent'[d] = sent[d] /\ answer'[d] = answer[d]
<1>. c \in Tasks /\ d \in Tasks
  BY DEF Tasks
<1>. USE DEF CallTypes, Goes
<1>1. CASE Queues(c) \/ Repeats(c) \/ Proceeds(c)
  BY <1>1 DEF Queues, Repeats, Proceeds
<1>2. CASE Refuses(c) \/ Raises(c) \/ Dispatches(c)
  BY <1>2 DEF Refuses, Raises, Dispatches
<1>3. CASE Settles(c) \/ Concludes(c) \/ Fuses(c)
  BY <1>3 DEF Settles, Concludes, Fuses
<1>. QED BY <1>1, <1>2, <1>3 DEF CallStep

(* Input is begun at the dispatch and nowhere else.                               *)
LEMMA Begins ==
  ASSUME RegistryTypes, CallTypes, NEW c \in Calls, Dispatches(c)
  PROVE  /\ Begun(c)' /\ sent'[c].epoch = epoch /\ sent'[c].ref.epoch = epoch
         /\ pc[c] = "gates" /\ pc'[c] = "input"
         /\ epoch' = epoch /\ answer' = answer /\ executed' = executed
<1>1. c \in Tasks
  BY DEF Tasks
<1>2. sent'[c] = [ref |-> target[c], epoch |-> epoch] /\ target[c].epoch = epoch
  BY DEF Dispatches, CallTypes
<1>3. sent'[c] # NotSent
  <2>1. sent'[c].epoch = epoch /\ NotSent.epoch = 0
    BY <1>2 DEF NotSent
  <2>. QED BY <2>1 DEF RegistryTypes
<1>. QED BY <1>1, <1>2, <1>3 DEF Dispatches, Goes, CallTypes, Begun

LEMMA OrderedKept ==
  ASSUME RegistryTypes, CallTypes, \A d \in Calls : Ordered(d), NEW c \in Calls, CallStep(c)
  PROVE  \A d \in Calls : Ordered(d)'
<1>1. ASSUME NEW d \in Calls \ {c} PROVE Ordered(d)'
  BY <1>1, Others DEF Ordered, Begun
<1>2. Ordered(c)'
  <2>. c \in Tasks /\ IdOf[c] \in ActionIds
    BY ActionAssumption DEF Tasks
  <2>1. CASE Dispatches(c)
    BY <2>1, Begins DEF Ordered
  <2>2. CASE ~Dispatches(c)
    <3>1. sent'[c] = sent[c]
      BY <2>2 DEF CallStep, Queues, Repeats, Proceeds, Refuses, Raises, Settles, Concludes, Fuses
    <3>. USE <3>1 DEF CallTypes, Goes, Begun, Ordered, Statuses
    <3>2. CASE Queues(c) \/ Repeats(c)
      BY <3>2 DEF Queues, Repeats
    <3>3. CASE Proceeds(c)
      BY <3>3 DEF Proceeds
    <3>4. CASE Refuses(c)
      BY <3>4 DEF Refuses
    <3>5. CASE Raises(c)
      BY <3>5 DEF Raises
    <3>6. CASE Settles(c) \/ Concludes(c)
      BY <3>6 DEF Settles, Concludes
    <3>7. CASE Fuses(c)
      BY <3>7 DEF Fuses
    <3>. QED BY <2>2, <3>2, <3>3, <3>4, <3>5, <3>6, <3>7 DEF CallStep
  <2>. QED BY <2>1, <2>2
<1>. QED BY <1>1, <1>2

--------------------------------------------------------------------------------
(* Epochs.                                                                        *)
LEMMA EpochGrows ==
  ASSUME RegistryTypes, (\E c \in Calls : CallStep(c)) \/ Elsewhere
  PROVE  epoch' \in {epoch, epoch + 1}
BY DEF CallStep, Queues, Repeats, Proceeds, Refuses, Raises, Dispatches, Settles, Concludes,
       Fuses, Elsewhere

LEMMA FencedElsewhere ==
  ASSUME RegistryTypes, CallTypes, NEW d \in Calls, Fenced(d),
         pc'[d] = pc[d], sent'[d] = sent[d], answer'[d] = answer[d],
         epoch' \in {epoch, epoch + 1}
  PROVE  Fenced(d)'
<1>1. CASE ~Begun(d)
  BY <1>1 DEF Fenced, Begun
<1>2. CASE Begun(d)
  <2>1. /\ sent[d].ref.epoch = sent[d].epoch
        /\ sent[d].epoch <= epoch
        /\ sent[d].epoch = epoch => pc[d] \in {"input", "settling"} \/ answer[d] = "FAILED"
        /\ sent[d].epoch \in Nat /\ epoch \in Nat
    BY <1>2 DEF Fenced, CallTypes, RegistryTypes
  <2>2. CASE epoch' = epoch
    BY <2>1, <2>2 DEF Fenced, Begun
  <2>3. CASE epoch' = epoch + 1
    BY <2>1, <2>3 DEF Fenced, Begun
  <2>. QED BY <2>2, <2>3
<1>. QED BY <1>1, <1>2

LEMMA FencedKept ==
  ASSUME RegistryTypes, CallTypes, \A d \in Calls : Ordered(d) /\ Fenced(d),
         NEW c \in Calls, CallStep(c)
  PROVE  \A d \in Calls : Fenced(d)'
<1>1. ASSUME NEW d \in Calls \ {c} PROVE Fenced(d)'
  BY <1>1, Others, EpochGrows, FencedElsewhere
<1>2. Fenced(c)'
  <2>. c \in Tasks /\ IdOf[c] \in ActionIds /\ epoch \in Nat /\ sent[c].epoch \in Nat
    BY ActionAssumption DEF Tasks, RegistryTypes, CallTypes
  <2>1. CASE Dispatches(c)
    BY <2>1, Begins DEF Fenced
  <2>2. CASE ~Dispatches(c)
    <3>1. sent'[c] = sent[c] /\ (Begun(c)' => Begun(c))
      BY <2>2 DEF CallStep, Queues, Repeats, Proceeds, Refuses, Raises, Settles, Concludes, Fuses, Begun
    <3>2. CASE ~Begun(c)
      BY <3>1, <3>2 DEF Fenced
    <3>3. CASE Begun(c)
      <4>1. /\ pc[c] \in {"input", "settling", "concluding", "fusing", "over"}
            /\ pc[c] \in {"input", "settling", "concluding"} => answer[c] = "none"
            /\ sent[c].ref.epoch = sent[c].epoch /\ sent[c].epoch <= epoch
            /\ sent[c].epoch = epoch => pc[c] \in {"input", "settling"} \/ answer[c] = "FAILED"
        BY <3>3 DEF Ordered, Fenced
      <4>2. CASE Proceeds(c)
        BY <3>1, <4>1, <4>2 DEF Proceeds, Goes, Fenced, CallTypes
      <4>3. CASE Refuses(c)
        <5>1. answer'[c] = "FAILED" /\ epoch' = epoch
          BY <4>1, <4>3 DEF Refuses, CallTypes
        <5>. QED BY <3>1, <4>1, <5>1 DEF Fenced
      <4>4. CASE Settles(c)
        BY <3>1, <4>1, <4>4 DEF Settles, Fenced
      <4>5. CASE Concludes(c)
        <5>1. sent[c].epoch # epoch /\ epoch' = epoch
          BY <4>1, <4>5 DEF Concludes, Goes
        <5>. QED BY <3>1, <4>1, <5>1 DEF Fenced
      <4>6. CASE Fuses(c)
        BY <3>1, <4>1, <4>6 DEF Fuses, Goes, Fenced, CallTypes
      <4>7. ~Queues(c) /\ ~Repeats(c) /\ ~Raises(c)
        BY <4>1 DEF Queues, Repeats, Raises, Goes
      <4>. QED BY <2>2, <4>2, <4>3, <4>4, <4>5, <4>6, <4>7 DEF CallStep
    <3>. QED BY <3>2, <3>3
  <2>. QED BY <2>1, <2>2
<1>. QED BY <1>1, <1>2

(* A call that begins its input holds the lock: no other is in its input or       *)
(* settling, so those that began in this epoch have failed.  A status that says   *)
(* so stays.                                                                      *)
LEMMA FailedStays ==
  ASSUME RegistryTypes, CallTypes, \A d \in Calls : Ordered(d), NEW c \in Calls, CallStep(c),
         NEW d \in Calls, Begun(d), answer[d] = "FAILED"
  PROVE  answer'[d] = "FAILED"
<1>1. CASE d # c
  BY <1>1, Others
<1>2. CASE d = c
  <2>1. pc[c] \in {"fusing", "over"}
    BY <1>2 DEF Ordered
  <2>2. Fuses(c)
    BY <2>1 DEF CallStep, Queues, Repeats, Proceeds, Refuses, Raises, Dispatches, Settles,
                Concludes, Goes
  <2>. QED BY <1>2, <2>2 DEF Fuses
<1>. QED BY <1>1, <1>2

LEMMA OncePerEpoch ==
  ASSUME RegistryTypes, CallInv, NEW c \in Calls, CallStep(c)
  PROVE  OneDispatchPerEpoch'
<1>. USE DEF CallInv
<1>1. CASE ~Dispatches(c)
  <2>1. \A d \in Calls : sent'[d] = sent[d] /\ (Begun(d)' => Begun(d))
    BY <1>1 DEF CallStep, Queues, Repeats, Proceeds, Refuses, Raises, Settles, Concludes, Fuses, Begun
  <2>. SUFFICES ASSUME NEW a \in Calls, NEW b \in Calls, a # b, Begun(a)', Begun(b)',
                       sent'[a].epoch = sent'[b].epoch
                PROVE  "FAILED" \in {answer'[a], answer'[b]}
    BY DEF OneDispatchPerEpoch
  <2>2. Begun(a) /\ Begun(b) /\ sent[a].epoch = sent[b].epoch
    BY <2>1
  <2>3. answer[a] = "FAILED" \/ answer[b] = "FAILED"
    BY <2>2 DEF OneDispatchPerEpoch
  <2>. QED BY <2>2, <2>3, FailedStays
<1>2. CASE Dispatches(c)
  <2>1. ASSUME NEW d \in Calls, d # c, Begun(d), sent[d].epoch = epoch
        PROVE  answer[d] = "FAILED"
    <3>1. pc[c] = "gates" /\ Head(queue) = c
      BY <1>2 DEF Dispatches, Goes, Locked, Holding
    <3>2. pc[d] \notin {"input", "settling"}
      BY <2>1, <3>1 DEF Locked, Holding
    <3>. QED BY <2>1, <3>2 DEF Fenced
  <2>2. /\ sent'[c].epoch = epoch /\ answer' = answer
        /\ \A d \in Calls \ {c} : sent'[d] = sent[d] /\ (Begun(d)' => Begun(d))
    BY <1>2, Begins, Others DEF Begun
  <2>. QED BY <2>1, <2>2 DEF OneDispatchPerEpoch
<1>. QED BY <1>1, <1>2

--------------------------------------------------------------------------------
LEMMA CallKept ==
  ASSUME RegistryTypes, CallInv, [Next]_vars
  PROVE  CallInv'
<1>1. CASE \E c \in Calls : CallStep(c)
  <2>1. PICK c \in Calls : CallStep(c)
    BY <1>1
  <2>2. CallTypes /\ \A d \in Calls : Locked(d) /\ Ordered(d) /\ Fenced(d)
    BY DEF CallInv
  <2>. QED BY <2>1, <2>2, CallTypesKept, LockedKept, OrderedKept, FencedKept, OncePerEpoch DEF CallInv
<1>2. CASE Elsewhere
  <2>1. CallTypes'
    BY <1>2 DEF Elsewhere, CallInv, CallTypes
  <2>2. ASSUME NEW d \in Calls PROVE Locked(d)' /\ Ordered(d)'
    BY <1>2, <2>2 DEF Elsewhere, CallInv, Locked, Ordered, Begun
  <2>3. ASSUME NEW d \in Calls PROVE Fenced(d)'
    BY <1>2, <2>3, FencedElsewhere DEF Elsewhere, CallInv
  <2>4. OneDispatchPerEpoch'
    BY <1>2 DEF Elsewhere, CallInv, OneDispatchPerEpoch, Begun
  <2>. QED BY <2>1, <2>2, <2>3, <2>4 DEF CallInv
<1>. QED BY <1>1, <1>2, Kinds DEF CallInv

--------------------------------------------------------------------------------
(* Retries made when the first call is over.  A call that executes has found no   *)
(* status for its action_id, and no other call of it is under way.                *)
LEMMA AloneKept ==
  ASSUME Overlap = FALSE, CallTypes, \A a, b \in Calls : Alone(a, b),
         \A d \in Calls : Ordered(d), NEW c \in Calls, CallStep(c)
  PROVE  \A a, b \in Calls : Alone(a, b)'
<1>. \A d \in Calls : d \in Tasks
  BY DEF Tasks
<1>. SUFFICES ASSUME NEW a \in Calls, NEW b \in Calls, a # b, IdOf[a] = IdOf[b],
                     pc'[a] \notin {"idle", "over"}
              PROVE  pc'[b] \in {"idle", "over"}
  BY DEF Alone
<1>1. CASE Queues(c) \/ Repeats(c)
  <2>1. /\ pc[c] = "idle" /\ pc'[c] \in {"waiting", "over"}
        /\ \A d \in Calls \ {c} : IdOf[d] = IdOf[c] => pc[d] \in {"idle", "over"}
    BY <1>1 DEF Queues, Repeats, Goes, MayRepeat, CallTypes
  <2>. QED BY <2>1, Others DEF Alone
<1>2. CASE ~Queues(c) /\ ~Repeats(c)
  <2>1. pc[c] \notin {"idle", "over"}
    BY <1>2 DEF CallStep, Proceeds, Refuses, Raises, Dispatches, Settles, Concludes, Fuses, Goes
  <2>2. pc[a] \notin {"idle", "over"}
    BY <2>1, Others
  <2>3. pc[b] \in {"idle", "over"} /\ b # c
    BY <2>1, <2>2 DEF Alone
  <2>. QED BY <2>3, Others
<1>. QED BY <1>1, <1>2

(* What becomes of the kept status of the action_id of the call that steps.       *)
LEMMA OtherIds ==
  ASSUME CallTypes, NEW c \in Calls, CallStep(c), NEW a \in ActionIds, a # IdOf[c]
  PROVE  executed'[a] = executed[a]
<1>. USE DEF CallTypes
<1>1. CASE Refuses(c) \/ Concludes(c) \/ Fuses(c)
  BY <1>1 DEF Refuses, Concludes, Fuses
<1>2. CASE ~Refuses(c) /\ ~Concludes(c) /\ ~Fuses(c)
  BY <1>2 DEF CallStep, Queues, Repeats, Proceeds, Raises, Dispatches, Settles
<1>. QED BY <1>1, <1>2

(* The step keeps executed, or writes it for an action_id that had no status.     *)
LEMMA Writes ==
  ASSUME CallTypes, \A d \in Calls : Fresh(d) /\ Fusing(d), NEW c \in Calls, CallStep(c)
  PROVE  \/ executed' = executed
         \/ /\ Refuses(c) \/ Concludes(c)
            /\ executed[IdOf[c]] = "none"
            /\ answer'[c] = executed'[IdOf[c]] /\ answer'[c] \in Statuses
            /\ pc'[c] \in {"fusing", "over"}
<1>. c \in Tasks /\ IdOf[c] \in ActionIds
  BY ActionAssumption DEF Tasks
<1>1. CASE Refuses(c)
  <2>1. PICK s \in {"REJECTED", "FAILED"} :
          answer' = [answer EXCEPT ![c] = s] /\ executed' = [executed EXCEPT ![IdOf[c]] = s]
    BY <1>1 DEF Refuses
  <2>2. pc[c] \in InExecute /\ pc'[c] \in {"fusing", "over"}
    BY <1>1 DEF Refuses, InExecute, Holding, CallTypes
  <2>. QED BY <1>1, <2>1, <2>2 DEF Fresh, CallTypes, Statuses
<1>2. CASE Concludes(c)
  <2>1. pc[c] \in InExecute /\ pc'[c] = "over"
    BY <1>2 DEF Concludes, Goes, InExecute, Holding, CallTypes
  <2>. QED BY <1>2, <2>1 DEF Concludes, Fresh, CallTypes, Statuses
<1>3. CASE Fuses(c)
  <2>1. pc[c] = "fusing"
    BY <1>3 DEF Fuses, Goes
  <2>2. executed[IdOf[c]] = answer[c]
    BY <2>1 DEF Fusing
  <2>. QED BY <1>3, <2>2 DEF Fuses, CallTypes
<1>4. CASE ~Refuses(c) /\ ~Concludes(c) /\ ~Fuses(c)
  BY <1>4 DEF CallStep, Queues, Repeats, Proceeds, Raises, Dispatches, Settles
<1>. QED BY <1>1, <1>2, <1>3, <1>4

LEMMA SingleKept ==
  ASSUME Overlap = FALSE, RegistryTypes, CallInv, Single, NEW c \in Calls, CallStep(c)
  PROVE  Single'
<1>. \A d \in Calls : d \in Tasks /\ IdOf[d] \in ActionIds
  BY ActionAssumption DEF Tasks
<1>0. /\ CallTypes /\ \A d \in Calls : Ordered(d)
      /\ \A d \in Calls : Fresh(d) /\ Unkept(d) /\ Fusing(d)
      /\ \A a, b \in Calls : Alone(a, b)
  BY DEF CallInv, Single
<1>1. \A a, b \in Calls : Alone(a, b)'
  BY <1>0, AloneKept
<1>2. ASSUME NEW d \in Calls \ {c} PROVE Fresh(d)' /\ Unkept(d)' /\ Fusing(d)'
  <2>1. pc'[d] = pc[d] /\ answer'[d] = answer[d] /\ (Begun(d)' <=> Begun(d))
    BY <1>0, Others DEF Begun
  <2>2. CASE executed'[IdOf[d]] = executed[IdOf[d]]
    BY <1>0, <2>1, <2>2 DEF Fresh, Unkept, Fusing
  <2>3. CASE executed'[IdOf[d]] # executed[IdOf[d]]
    <3>1. IdOf[d] = IdOf[c] /\ (Refuses(c) \/ Concludes(c)) /\ executed'[IdOf[c]] \in Statuses
      BY <1>0, <2>3, OtherIds, Writes
    <3>2. pc[c] \notin {"idle", "over"}
      BY <3>1 DEF Refuses, Concludes, Goes
    <3>3. pc[d] \in {"idle", "over"}
      BY <1>0, <3>1, <3>2 DEF Alone
    <3>. QED BY <2>1, <3>1, <3>3 DEF Fresh, Unkept, Fusing, InExecute, Holding, Statuses
  <2>. QED BY <2>2, <2>3
<1>3. Fresh(c)' /\ Unkept(c)' /\ Fusing(c)'
  <2>1. CASE executed' # executed
    <3>1. /\ answer'[c] = executed'[IdOf[c]] /\ answer'[c] \in Statuses
          /\ pc'[c] \in {"fusing", "over"}
      BY <1>0, <2>1, Writes
    <3>. QED BY <3>1 DEF Fresh, Unkept, Fusing, InExecute, Holding, Statuses
  <2>2. CASE executed' = executed
    <3>. USE <2>2 DEF CallTypes, Goes, Fresh, Unkept, Fusing, InExecute, Holding
    <3>1. CASE Dispatches(c)
      BY <1>0, <3>1, Begins
    <3>2. CASE Queues(c)
      BY <1>0, <3>2 DEF Queues, Ordered, Begun
    <3>3. CASE Repeats(c)
      BY <1>0, <3>3 DEF Repeats, Ordered
    <3>4. CASE Proceeds(c)
      BY <1>0, <3>4 DEF Proceeds, Ordered, Begun
    <3>5. CASE Raises(c)
      BY <1>0, <3>5 DEF Raises, Ordered, Begun
    <3>6. CASE Settles(c)
      BY <1>0, <3>6 DEF Settles, Ordered, Begun
    <3>7. CASE Fuses(c)
      BY <1>0, <3>7 DEF Fuses, Ordered, Begun
    <3>8. CASE Refuses(c) \/ Concludes(c)
      <4>1. executed[IdOf[c]] = "none"
        BY <1>0, <3>8 DEF Refuses, Concludes
      <4>2. executed'[IdOf[c]] # "none"
        BY <1>0, <3>8 DEF Refuses, Concludes
      <4>. QED BY <4>1, <4>2
    <3>. QED BY <3>1, <3>2, <3>3, <3>4, <3>5, <3>6, <3>7, <3>8 DEF CallStep
  <2>. QED BY <2>1, <2>2
<1>. QED BY <1>1, <1>2, <1>3 DEF Single

(* Who begins an input finds no other call of its action_id that has.             *)
LEMMA NoReplayKept ==
  ASSUME RegistryTypes, CallInv, Single, NoReplay, NEW c \in Calls, CallStep(c)
  PROVE  NoReplay'
<1>1. CASE ~Dispatches(c)
  <2>1. \A d \in Calls : Begun(d)' => Begun(d)
    BY <1>1 DEF CallStep, Queues, Repeats, Proceeds, Refuses, Raises, Settles, Concludes, Fuses, Begun
  <2>. QED BY <2>1 DEF NoReplay
<1>2. CASE Dispatches(c)
  <2>1. ASSUME NEW d \in Calls, d # c, IdOf[d] = IdOf[c] PROVE ~Begun(d)
    <3>1. pc[c] = "gates"
      BY <1>2 DEF Dispatches, Goes
    <3>2. pc[d] \in {"idle", "over"}
      BY <2>1, <3>1 DEF Single, Alone
    <3>3. executed[IdOf[d]] = "none"
      BY <2>1, <3>1 DEF Single, Fresh, InExecute, Holding
    <3>. QED BY <3>2, <3>3 DEF Single, Unkept
  <2>2. \A d \in Calls \ {c} : Begun(d)' => Begun(d)
    BY <1>2, Others DEF CallInv, Begun
  <2>. QED BY <2>1, <2>2 DEF NoReplay
<1>. QED BY <1>1, <1>2

(* CacheIsTrue for one action_id.                                                 *)
CacheOf(a) ==
  /\ executed[a] = "DISPATCHED"
       <=> \E c \in Calls : IdOf[c] = a /\ answer[c] = "DISPATCHED" /\ Begun(c)
  /\ executed[a] = "REJECTED" => \A c \in Calls : IdOf[c] = a => ~Begun(c)

LEMMA CacheOfOthers ==
  ASSUME CallInv, NEW c \in Calls, CallStep(c), NEW a \in ActionIds, a # IdOf[c], CacheOf(a)
  PROVE  CacheOf(a)'
<1>1. executed'[a] = executed[a]
  BY OtherIds DEF CallInv
<1>2. \A d \in Calls : IdOf[d] = a => answer'[d] = answer[d] /\ (Begun(d)' <=> Begun(d))
  BY Others DEF CallInv, Begun
<1>. QED BY <1>1, <1>2 DEF CacheOf

(* executed_actions is written: no call of the action_id had an answer before.    *)
LEMMA CacheOfWritten ==
  ASSUME RegistryTypes, CallInv, Single, NEW c \in Calls, CallStep(c), executed' # executed
  PROVE  CacheOf(IdOf[c])'
<1>. c \in Tasks /\ IdOf[c] \in ActionIds
  BY ActionAssumption DEF Tasks
<1>0. CallTypes /\ \A d \in Calls : Ordered(d) /\ Fresh(d) /\ Fusing(d) /\ Unkept(d)
  BY DEF CallInv, Single
<1>1. /\ Refuses(c) \/ Concludes(c)
      /\ executed[IdOf[c]] = "none"
      /\ answer'[c] = executed'[IdOf[c]]
  BY <1>0, Writes
<1>2. sent' = sent /\ pc[c] \notin {"idle", "over"}
  BY <1>1 DEF Refuses, Concludes, Goes
<1>3. ASSUME NEW d \in Calls \ {c}, IdOf[d] = IdOf[c]
      PROVE  ~Begun(d)' /\ answer'[d] \in {"none", "raised"}
  <2>1. pc[d] \in {"idle", "over"}
    BY <1>2, <1>3 DEF Single, Alone
  <2>. QED BY <1>0, <1>1, <1>2, <1>3, <2>1, Others DEF Unkept, Begun
<1>4. answer'[c] = "DISPATCHED" => Begun(c)'
  BY <1>0, <1>1, <1>2 DEF Refuses, Concludes, Goes, CallTypes, Ordered, Begun
<1>5. answer'[c] = "REJECTED" => ~Begun(c)'
  BY <1>0, <1>1, <1>2 DEF Refuses, Concludes, CallTypes, Ordered, Begun
<1>. QED BY <1>1, <1>3, <1>4, <1>5 DEF CacheOf

LEMMA CacheOfUnwritten ==
  ASSUME RegistryTypes, CallInv, Single, NEW c \in Calls, CallStep(c), executed' = executed,
         CacheOf(IdOf[c])
  PROVE  CacheOf(IdOf[c])'
<1>. c \in Tasks /\ IdOf[c] \in ActionIds
  BY ActionAssumption DEF Tasks
<1>0. CallTypes /\ \A d \in Calls : Ordered(d) /\ Fresh(d) /\ Fusing(d) /\ Unkept(d)
  BY DEF CallInv, Single
<1>1. \A d \in Calls \ {c} : answer'[d] = answer[d] /\ (Begun(d)' <=> Begun(d))
  BY <1>0, Others DEF Begun
<1>2. CASE Dispatches(c)
  <2>1. executed[IdOf[c]] = "none" /\ answer'[c] = "none"
    BY <1>0, <1>2, Begins DEF Fresh, InExecute, Holding, Ordered
  <2>2. ~(answer[c] = "DISPATCHED")
    BY <1>0, <2>1 DEF Unkept
  <2>. QED BY <1>1, <2>1, <2>2 DEF CacheOf
<1>3. CASE ~Dispatches(c)
  <2>1. Begun(c)' <=> Begun(c)
    BY <1>3 DEF CallStep, Queues, Repeats, Proceeds, Refuses, Raises, Settles, Concludes, Fuses, Begun
  <2>2. CASE ~Begun(c)
    BY <1>1, <2>1, <2>2 DEF CacheOf
  <2>3. CASE Begun(c)
    <3>1. answer'[c] = answer[c]
      <4>1. pc[c] \notin {"idle", "waiting", "observing", "gates"}
        BY <1>0, <2>3 DEF Ordered
      <4>2. ~Refuses(c) /\ ~Concludes(c)
        <5>1. ASSUME Refuses(c) \/ Concludes(c) PROVE FALSE
          <6>1. executed[IdOf[c]] = "none"
            BY <1>0, <4>1, <5>1 DEF Fresh, InExecute, Holding, Refuses, Concludes, Goes
          <6>2. executed'[IdOf[c]] # "none"
            BY <1>0, <5>1 DEF Refuses, Concludes, CallTypes
          <6>. QED BY <6>1, <6>2
        <5>. QED BY <5>1
      <4>. QED BY <1>3, <4>1, <4>2
           DEF CallStep, Queues, Repeats, Proceeds, Raises, Settles, Fuses, Goes
    <3>. QED BY <1>1, <2>1, <3>1 DEF CacheOf
  <2>. QED BY <2>2, <2>3
<1>. QED BY <1>2, <1>3

LEMMA RetryKept ==
  ASSUME Overlap = FALSE, RegistryTypes, CallInv, RetryInv, [Next]_vars
  PROVE  RetryInv'
<1>1. CASE \E c \in Calls : CallStep(c)
  <2>1. PICK c \in Calls : CallStep(c)
    BY <1>1
  <2>2. Single' /\ NoReplay'
    BY <2>1, SingleKept, NoReplayKept DEF RetryInv
  <2>3. ASSUME NEW a \in ActionIds PROVE CacheOf(a)'
    <3>1. CacheOf(a)
      BY DEF RetryInv, CacheIsTrue, CacheOf
    <3>. QED BY <2>1, <3>1, CacheOfOthers, CacheOfWritten, CacheOfUnwritten DEF RetryInv
  <2>. QED BY <2>2, <2>3 DEF RetryInv, CacheIsTrue, CacheOf
<1>2. CASE Elsewhere
  BY <1>2 DEF Elsewhere, RetryInv, Single, Alone, Fresh, Unkept, Fusing, NoReplay, CacheIsTrue, Begun
<1>. QED BY <1>1, <1>2, Kinds DEF CallInv

--------------------------------------------------------------------------------
LEMMA Starts ==
  ASSUME Init
  PROVE  RegistryTypes /\ CallInv /\ RetryInv
<1>. USE DEF Init
<1>1. RegistryTypes
  BY DEF RegistryTypes, Refs, NoRef, NoSnapshot, Quiet
<1>2. CallTypes
  BY DEF CallTypes, PCs, Statuses, NotSent, NoRef, Refs
<1>3. \A c \in Calls : ~Begun(c) /\ pc[c] = "idle" /\ answer[c] = "none"
  BY DEF Begun, Tasks
<1>4. \A c \in Calls : Locked(c) /\ Ordered(c) /\ Fenced(c)
  BY <1>3 DEF Locked, Ordered, Fenced, Holding
<1>5. OneDispatchPerEpoch /\ NoReplay
  BY <1>3 DEF OneDispatchPerEpoch, NoReplay
<1>6. Single
  BY <1>3 DEF Single, Alone, Fresh, Unkept, Fusing, InExecute, Holding
<1>7. CacheIsTrue
  BY <1>3 DEF CacheIsTrue
<1>. QED BY <1>1, <1>2, <1>4, <1>5, <1>6, <1>7 DEF CallInv, RetryInv

LEMMA CallsInvariant == Spec => [](RegistryTypes /\ CallInv)
<1>1. Init => RegistryTypes /\ CallInv
  BY Starts
<1>2. RegistryTypes /\ CallInv /\ [Next]_vars => (RegistryTypes /\ CallInv)'
  BY RegistryKept, CallKept
<1>. QED BY <1>1, <1>2, PTL DEF Spec

(* However many calls, inspectors, navigations and restarts there are, input is   *)
(* sent in the epoch its reference is of.                                         *)
THEOREM InputIsFenced == Spec => []DispatchFenced
<1>1. CallInv => DispatchFenced
  BY DEF CallInv, Fenced, DispatchFenced
<1>. QED BY <1>1, CallsInvariant, PTL

(* Of two inputs begun in one epoch at least one has failed.                      *)
THEOREM EpochsAreSpent == Spec => []OneDispatchPerEpoch
<1>1. CallInv => OneDispatchPerEpoch
  BY DEF CallInv
<1>. QED BY <1>1, CallsInvariant, PTL

LEMMA RetriesInvariant ==
  ASSUME Overlap = FALSE
  PROVE  Spec => [](RegistryTypes /\ CallInv /\ RetryInv)
<1>1. Init => RegistryTypes /\ CallInv /\ RetryInv
  BY Starts
<1>2. RegistryTypes /\ CallInv /\ RetryInv /\ [Next]_vars => (RegistryTypes /\ CallInv /\ RetryInv)'
  BY RegistryKept, CallKept, RetryKept
<1>. QED BY <1>1, <1>2, PTL DEF Spec

(* When no call repeats an action_id that is still executing, an action_id begins *)
(* its input at most once.                                                        *)
THEOREM RetriesNeverReplay ==
  ASSUME Overlap = FALSE
  PROVE  Spec => []NoReplay
<1>1. RetryInv => NoReplay
  BY DEF RetryInv
<1>. QED BY <1>1, RetriesInvariant, PTL

(* And what executed_actions tells a retry is what happened.                      *)
THEOREM RetriesAreToldTheTruth ==
  ASSUME Overlap = FALSE
  PROVE  Spec => []CacheIsTrue
<1>1. RetryInv => CacheIsTrue
  BY DEF RetryInv
<1>. QED BY <1>1, RetriesInvariant, PTL

--------------------------------------------------------------------------------
(* What tasks and the snapshot refer to is in the registry, active or stale, and  *)
(* no older than it.                                                              *)
Known == active \cup stale
Referred ==
  /\ doc # 0
  /\ last.epoch <= epoch /\ last.refs \subseteq Known
  /\ \A c \in Calls : target[c] \in Known \cup {NoRef} /\ (sent[c] = NotSent \/ sent[c].ref \in Known)
  /\ \A p \in Tasks : obs[p].epoch <= epoch /\ obs[p].seen <= doc

(* Each step only adds references, and what it changes refers to known ones.      *)
Grows ==
  /\ Known \subseteq Known' /\ epoch <= epoch' /\ doc <= doc'
  /\ last' = last \/ (last'.epoch <= epoch' /\ last'.refs \subseteq Known')
Recent(p) == obs'[p] = obs[p] \/ (obs'[p].epoch <= epoch' /\ obs'[p].seen <= doc')
Aims(c) ==
  /\ target'[c] = target[c] \/ target'[c] \in Known'
  /\ sent'[c] = sent[c] \/ sent'[c].ref \in Known'

LEMMA ReferredKept ==
  ASSUME RegistryTypes, RegistryTypes', Referred, Grows,
         \A p \in Tasks : Recent(p), \A c \in Calls : Aims(c)
  PROVE  Referred'
<1>. epoch \in Nat /\ epoch' \in Nat /\ doc \in Nat /\ doc' \in Nat /\ last.epoch \in Nat
  BY DEF RegistryTypes
<1>1. doc' # 0
  BY DEF Referred, Grows
<1>2. last'.epoch <= epoch' /\ last'.refs \subseteq Known'
  BY DEF Referred, Grows
<1>3. ASSUME NEW c \in Calls
      PROVE  target'[c] \in Known' \cup {NoRef} /\ (sent'[c] = NotSent \/ sent'[c].ref \in Known')
  BY DEF Referred, Grows, Aims
<1>4. ASSUME NEW p \in Tasks PROVE obs'[p].epoch <= epoch' /\ obs'[p].seen <= doc'
  <2>1. obs[p].epoch \in Nat /\ obs[p].seen \in Nat
    BY DEF RegistryTypes
  <2>. QED BY <2>1 DEF Referred, Grows, Recent
<1>. QED BY <1>1, <1>2, <1>3, <1>4 DEF Referred

LEMMA ObservedGrows ==
  ASSUME RegistryTypes, Referred, NEW p \in Tasks, Observed(p), doc' = doc
  PROVE  Grows
<1>1. last' = [epoch |-> obs[p].epoch, refs |-> Candidates(p)] /\ epoch' = epoch
  BY DEF Observed
<1>2. obs[p].epoch <= epoch
  BY DEF Referred
<1>. QED BY <1>1, <1>2 DEF Observed, Grows, Known, RegistryTypes

LEMMA StepGrows ==
  ASSUME RegistryTypes, Referred, [Next]_vars
  PROVE  Grows
<1>. Calls \subseteq Tasks /\ Inspectors \subseteq Tasks
  BY DEF Tasks
<1>1. CASE UNCHANGED <<epoch, active, stale, doc, last>>
  BY <1>1 DEF Grows, Known, RegistryTypes
<1>2. ASSUME NEW c \in Calls, ExecuteDeduplicated(c) \/ Resumes(c) PROVE Grows
  <2>1. CASE ExecuteDeduplicated(c) \/ Execute(c) \/ Dispatch(c) \/ Dispatched(c)
    BY <1>1, <2>1 DEF ExecuteDeduplicated, Execute, Dispatch, Dispatched, registry
  <2>2. CASE PreObserved(c) \/ PostObserved(c) \/ Fused(c)
    BY <2>2, ObservedGrows DEF PreObserved, PostObserved, Fused
  <2>3. CASE Settled(c)
    BY <2>3 DEF Settled, IncrementEpoch, Grows, Known, RegistryTypes
  <2>. QED BY <1>2, <2>1, <2>2, <2>3 DEF Resumes
<1>3. ASSUME NEW i \in Inspectors, Inspect(i) \/ Inspected(i) PROVE Grows
  BY <1>1, <1>3, ObservedGrows DEF Inspect, Inspected, registry
<1>4. ASSUME NEW p \in Tasks, CandidatesArrive(p) PROVE Grows
  BY <1>1, <1>4 DEF CandidatesArrive, registry
<1>5. CASE Navigate \/ RestartReview
  BY <1>5 DEF Navigate, RestartReview, IncrementEpoch, Grows, Known, RegistryTypes
<1>. QED BY <1>1, <1>2, <1>3, <1>4, <1>5 DEF Next, vars, registry

(* An observation begins at the epoch of the step, or ends.                       *)
LEMMA ObserveRecent ==
  ASSUME RegistryTypes, NEW p \in Tasks, NEW e \in Nat, e <= epoch', doc' \in Nat, epoch' \in Nat,
         Observe(p, e) \/ obs' = [obs EXCEPT ![p] = Quiet]
  PROVE  \A q \in Tasks : Recent(q)
BY DEF RegistryTypes, Observe, Quiet, Recent

LEMMA GatesRecent ==
  ASSUME RegistryTypes, RegistryTypes', NEW c \in Calls, NEW r, NEW live, epoch' = epoch,
         EvaluateActionability(c, r, live) \/ (\E s : NotDispatched(c, s))
  PROVE  \A q \in Tasks : Recent(q)
<1>1. c \in Tasks /\ epoch \in Nat /\ doc' \in Nat /\ epoch <= epoch'
  BY DEF Tasks, RegistryTypes
<1>2. Observe(c, epoch) \/ obs' = [obs EXCEPT ![c] = Quiet]
  BY DEF EvaluateActionability, NotDispatched
<1>. QED BY <1>1, <1>2, ObserveRecent

LEMMA StepRecent ==
  ASSUME RegistryTypes, RegistryTypes', Referred, [Next]_vars
  PROVE  \A q \in Tasks : Recent(q)
<1>. /\ Calls \subseteq Tasks /\ Inspectors \subseteq Tasks
     /\ epoch \in Nat /\ epoch' \in Nat /\ doc \in Nat /\ doc' \in Nat
  BY DEF Tasks, RegistryTypes
<1>1. CASE UNCHANGED obs
  BY <1>1 DEF Recent
<1>2. ASSUME NEW p \in Tasks, obs' = [obs EXCEPT ![p] = Quiet] PROVE \A q \in Tasks : Recent(q)
  <2>1. 0 \in Nat /\ 0 <= epoch'
    OBVIOUS
  <2>. QED BY <1>2, <2>1, ObserveRecent
<1>3. ASSUME NEW c \in Calls, Execute(c) PROVE \A q \in Tasks : Recent(q)
  <2>1. epoch' = epoch /\ ResolveTarget(c)
    BY <1>3 DEF Execute, registry
  <2>2. CASE Raise(c)
    BY <1>1, <2>2 DEF Raise
  <2>3. ASSUME NEW r, Resolved(c, r) PROVE \A q \in Tasks : Recent(q)
    <3>1. CASE EvaluateActionability(c, r, active)
      BY <2>1, <3>1, GatesRecent
    <3>2. CASE Observe(c, epoch)
      BY <2>1, <3>2, ObserveRecent
    <3>. QED BY <2>3, <3>1, <3>2 DEF Resolved
  <2>. QED BY <2>1, <2>2, <2>3 DEF ResolveTarget
<1>4. ASSUME NEW c \in Calls, PreObserved(c) PROVE \A q \in Tasks : Recent(q)
  <2>1. PICK r, live : r = target[c] /\ live = active'
    OBVIOUS
  <2>2. EvaluateActionability(c, r, live) /\ epoch' = epoch
    BY <1>4, <2>1 DEF PreObserved, Observed, EvaluateActionability
  <2>. QED BY <2>2, GatesRecent
<1>5. ASSUME NEW c \in Calls, Dispatch(c) \/ Dispatched(c) PROVE \A q \in Tasks : Recent(q)
  <2>1. epoch' = epoch
    BY <1>5 DEF Dispatch, Dispatched, registry
  <2>2. UNCHANGED obs \/ \E s : NotDispatched(c, s)
    BY <1>5 DEF Dispatch, Dispatched
  <2>. QED BY <1>1, <2>1, <2>2, GatesRecent
<1>6. ASSUME NEW c \in Calls, Settled(c) PROVE \A q \in Tasks : Recent(q)
  <2>1. Observe(c, epoch + 1) /\ epoch' = epoch + 1
    BY <1>6 DEF Settled, IncrementEpoch
  <2>. QED BY <2>1, ObserveRecent
<1>7. ASSUME NEW c \in Calls, PostObserved(c) \/ Fused(c) PROVE \A q \in Tasks : Recent(q)
  BY <1>2, <1>7 DEF PostObserved, Fused
<1>8. ASSUME NEW i \in Inspectors, Inspect(i) PROVE \A q \in Tasks : Recent(q)
  <2>1. Observe(i, epoch) /\ epoch' = epoch
    BY <1>8 DEF Inspect, registry
  <2>. QED BY <2>1, ObserveRecent
<1>9. ASSUME NEW i \in Inspectors, Inspected(i) PROVE \A q \in Tasks : Recent(q)
  BY <1>2, <1>9 DEF Inspected
<1>10. ASSUME NEW p \in Tasks, CandidatesArrive(p), NEW q \in Tasks PROVE Recent(q)
  <2>1. obs' = [obs EXCEPT ![p] = [obs[p] EXCEPT !.seen = doc]] /\ doc' = doc /\ epoch' = epoch
    BY <1>10 DEF CandidatesArrive, registry
  <2>2. obs[p] \in [epoch : Nat, seen : Nat]
    BY DEF RegistryTypes
  <2>3. [obs[p] EXCEPT !.seen = doc].epoch = obs[p].epoch /\ [obs[p] EXCEPT !.seen = doc].seen = doc
    BY <2>2
  <2>4. CASE q = p
    <3>1. obs'[p] = [obs[p] EXCEPT !.seen = doc]
      BY <2>1, Zenon DEF RegistryTypes
    <3>. QED BY <2>1, <2>3, <2>4, <3>1 DEF Recent, Referred
  <2>5. CASE q # p
    <3>1. obs'[q] = obs[q]
      BY <2>1, <2>5, Zenon DEF RegistryTypes
    <3>. QED BY <3>1 DEF Recent
  <2>. QED BY <2>4, <2>5
<1>. QED
  BY <1>1, <1>3, <1>4, <1>5, <1>6, <1>7, <1>8, <1>9, <1>10
  DEF Next, Resumes, vars, ExecuteDeduplicated, Navigate, RestartReview

LEMMA StepAims ==
  ASSUME RegistryTypes, CallTypes, Referred, Grows, [Next]_vars, NEW c \in Calls
  PROVE  Aims(c)
<1>1. CASE UNCHANGED <<target, sent>>
  BY <1>1 DEF Aims
<1>2. ASSUME NEW d \in Calls, ExecuteDeduplicated(d) PROVE Aims(c)
  BY <1>2 DEF ExecuteDeduplicated, registry, Aims, Known, RegistryTypes
<1>3. ASSUME NEW d \in Calls, NEW r, Resolved(d, r), r \in Known', sent' = sent PROVE Aims(c)
  BY <1>3 DEF Resolved, Aims, RegistryTypes
<1>4. ASSUME NEW d \in Calls, Execute(d) PROVE Aims(c)
  <2>1. UNCHANGED <<active, stale>> /\ ResolveTarget(d)
    BY <1>4 DEF Execute, registry
  <2>2. CASE Raise(d)
    BY <1>1, <2>2 DEF Raise
  <2>3. ASSUME NEW r, r \in active, Resolved(d, r) PROVE Aims(c)
    <3>1. sent' = sent /\ r \in Known'
      BY <2>1, <2>3 DEF Resolved, EvaluateActionability, Known
    <3>. QED BY <1>3, <2>3, <3>1
  <2>. QED BY <2>1, <2>2, <2>3 DEF ResolveTarget
<1>5. ASSUME NEW d \in Calls, PreObserved(d) PROVE Aims(c)
  BY <1>1, <1>5 DEF PreObserved, EvaluateActionability
<1>6. ASSUME NEW d \in Calls, Dispatch(d) PROVE Aims(c)
  <2>1. target' = target /\ UNCHANGED <<active, stale>>
    BY <1>6 DEF Dispatch, registry
  <2>2. CASE UNCHANGED sent
    BY <1>1, <2>1, <2>2
  <2>3. CASE /\ target[d].epoch = epoch
             /\ sent' = [sent EXCEPT ![d] = [ref |-> target[d], epoch |-> epoch]]
    <3>1. target[d] # NoRef
      BY <2>3 DEF RegistryTypes, NoRef
    <3>2. target[d] \in Known'
      BY <2>1, <3>1 DEF Referred, Known
    <3>. QED BY <2>1, <2>3, <3>2 DEF Aims, CallTypes
  <2>. QED BY <1>6, <2>2, <2>3 DEF Dispatch
<1>7. ASSUME NEW d \in Calls, Dispatched(d) \/ Settled(d) \/ PostObserved(d) \/ Fused(d) PROVE Aims(c)
  BY <1>1, <1>7 DEF Dispatched, Settled, PostObserved, Fused
<1>. QED
  BY <1>1, <1>2, <1>4, <1>5, <1>6, <1>7
  DEF Next, Resumes, vars, Inspect, Inspected, CandidatesArrive, Navigate, RestartReview

LEMMA ReferencesInvariant == Spec => [](RegistryTypes /\ CallInv /\ Referred)
<1>1. Init => RegistryTypes /\ CallInv /\ Referred
  BY Starts DEF Init, Referred, Known, NoSnapshot, Quiet
<1>2. RegistryTypes /\ CallInv /\ Referred /\ [Next]_vars => (RegistryTypes /\ CallInv /\ Referred)'
  <2>. SUFFICES ASSUME RegistryTypes, CallInv, Referred, [Next]_vars
                PROVE  (RegistryTypes /\ CallInv /\ Referred)'
    OBVIOUS
  <2>1. RegistryTypes' /\ CallInv'
    BY RegistryKept, CallKept
  <2>2. Grows /\ (\A q \in Tasks : Recent(q)) /\ (\A c \in Calls : Aims(c))
    BY <2>1, StepGrows, StepRecent, StepAims DEF CallInv
  <2>. QED BY <2>1, <2>2, ReferredKept
<1>. QED BY <1>1, <1>2, PTL DEF Spec

(* Types, the call that executes at the head of the lock's queue, and references  *)
(* that the registry knows, in every reachable state.                             *)
THEOREM TypesHold == Spec => []TypeOK
<1>1. RegistryTypes /\ CallInv /\ Referred => TypeOK
  <2>. SUFFICES ASSUME RegistryTypes, CallInv, Referred PROVE TypeOK
    OBVIOUS
  <2>1. last.epoch \in 0 .. epoch /\ last.refs \subseteq active \cup stale /\ doc \in Nat \ {0}
    BY DEF RegistryTypes, Referred, Known
  <2>2. CallTypes /\ \A c \in Calls : Locked(c)
    BY DEF CallInv
  <2>. QED BY <2>1, <2>2 DEF TypeOK, RegistryTypes, CallTypes, PCs, Locked, Holding, Referred, Known
<1>. QED BY <1>1, ReferencesInvariant, PTL

--------------------------------------------------------------------------------
(* The engine's lock is handed on in order.  Its queue holds each call that       *)
(* executes or waits once, and no other.                                          *)
Queued ==
  /\ \A n \in 1 .. Len(queue) : pc[queue[n]] \in InExecute
  /\ \A m, n \in 1 .. Len(queue) : queue[m] = queue[n] => m = n

(* How far a call has come.                                                       *)
Rank(p) ==
  CASE p = "idle" -> 0 [] p = "waiting" -> 1 [] p = "observing" -> 2 [] p = "gates" -> 3
    [] p = "input" -> 4 [] p = "settling" -> 5 [] p = "concluding" -> 6 [] p = "fusing" -> 7
    [] p = "over" -> 8

(* A call only goes forward, and while it is in the queue nobody gets in before   *)
(* it.                                                                            *)
GoesForward(c) == pc'[c] # pc[c] => Rank(pc'[c]) > Rank(pc[c])
KeepsItsTurn(c) ==
  \A n \in 1 .. Len(queue) :
    queue[n] = c /\ pc'[c] \in InExecute
      => \E k \in 1 .. n : k <= Len(queue') /\ queue'[k] = c

LEMMA TailTurn ==
  ASSUME NEW S, NEW q \in Seq(S), q # << >>
  PROVE  /\ Tail(q) \in Seq(S) /\ Len(Tail(q)) = Len(q) - 1
         /\ \A n \in 1 .. Len(Tail(q)) : n + 1 \in 1 .. Len(q) /\ Tail(q)[n] = q[n + 1]
         /\ \A n \in 1 .. Len(q) : n # 1 => n - 1 \in 1 .. Len(Tail(q)) /\ Tail(q)[n - 1] = q[n]
OBVIOUS

(* A call at the head that is done leaves the others one place further.           *)
LEMMA HeadLeaves ==
  ASSUME CallTypes, Queued, NEW c \in Calls, queue # << >>, Head(queue) = c,
         queue' = Tail(queue), pc'[c] \notin InExecute, \A d \in Calls \ {c} : pc'[d] = pc[d]
  PROVE  Queued' /\ \A d \in Calls : KeepsItsTurn(d)
<1>1. queue \in Seq(Calls) /\ queue[1] = c /\ 1 \in 1 .. Len(queue)
  BY DEF CallTypes
<1>2. /\ queue' \in Seq(Calls) /\ Len(queue') = Len(queue) - 1
      /\ \A n \in 1 .. Len(queue') : n + 1 \in 1 .. Len(queue) /\ queue'[n] = queue[n + 1]
      /\ \A n \in 1 .. Len(queue) : n # 1 => n - 1 \in 1 .. Len(queue') /\ queue'[n - 1] = queue[n]
  BY <1>1, TailTurn
<1>3. ASSUME NEW n \in 1 .. Len(queue') PROVE pc'[queue'[n]] \in InExecute
  <2>1. n + 1 \in 1 .. Len(queue) /\ n + 1 # 1 /\ queue'[n] = queue[n + 1]
    BY <1>2
  <2>2. queue[n + 1] # c /\ queue[n + 1] \in Calls
    BY <1>1, <2>1 DEF Queued
  <2>. QED BY <2>1, <2>2 DEF Queued
<1>4. ASSUME NEW m \in 1 .. Len(queue'), NEW n \in 1 .. Len(queue'), queue'[m] = queue'[n] PROVE m = n
  <2>1. m + 1 = n + 1
    BY <1>2, <1>4 DEF Queued
  <2>. QED BY <2>1
<1>5. ASSUME NEW d \in Calls, NEW n \in 1 .. Len(queue), queue[n] = d, pc'[d] \in InExecute
      PROVE  \E k \in 1 .. n : k <= Len(queue') /\ queue'[k] = d
  <2>1. n # 1
    BY <1>1, <1>5
  <2>2. n - 1 \in 1 .. Len(queue') /\ queue'[n - 1] = d
    BY <1>2, <1>5, <2>1
  <2>3. n - 1 \in 1 .. n /\ n - 1 <= Len(queue')
    BY <1>2, <2>1, <2>2
  <2>. QED BY <2>2, <2>3
<1>. QED BY <1>3, <1>4, <1>5 DEF Queued, KeepsItsTurn

(* A new call is the last.                                                        *)
LEMMA CallJoins ==
  ASSUME CallTypes, Queued, NEW c \in Calls, pc[c] \notin InExecute, pc'[c] \in InExecute,
         queue' = Append(queue, c), \A d \in Calls \ {c} : pc'[d] = pc[d]
  PROVE  Queued' /\ \A d \in Calls : KeepsItsTurn(d)
<1>1. queue \in Seq(Calls) /\ Len(queue) \in Nat
  BY DEF CallTypes
<1>2. /\ Len(queue') = Len(queue) + 1 /\ queue'[Len(queue) + 1] = c
      /\ \A n \in 1 .. Len(queue) : queue'[n] = queue[n]
  BY <1>1
<1>3. \A n \in 1 .. Len(queue) : queue[n] \in Calls /\ queue[n] # c
  BY <1>1 DEF Queued
<1>4. \A n \in 1 .. Len(queue') : n \in 1 .. Len(queue) \/ n = Len(queue) + 1
  BY <1>1, <1>2
<1>5. \A n \in 1 .. Len(queue') : pc'[queue'[n]] \in InExecute
  BY <1>2, <1>3, <1>4 DEF Queued
<1>6. \A m, n \in 1 .. Len(queue') : queue'[m] = queue'[n] => m = n
  BY <1>2, <1>3, <1>4 DEF Queued
<1>7. \A d \in Calls : KeepsItsTurn(d)
  BY <1>1, <1>2 DEF KeepsItsTurn
<1>. QED BY <1>5, <1>6, <1>7 DEF Queued

(* The queue stays, and who is in it stays in it.                                 *)
LEMMA QueueStays ==
  ASSUME CallTypes, Queued, queue' = queue,
         \A d \in Calls : pc[d] \in InExecute => pc'[d] \in InExecute
  PROVE  Queued' /\ \A d \in Calls : KeepsItsTurn(d)
<1>1. queue \in Seq(Calls)
  BY DEF CallTypes
<1>2. Queued'
  BY <1>1 DEF Queued
<1>3. \A n \in 1 .. Len(queue) : n \in 1 .. n /\ n <= Len(queue')
  BY <1>1
<1>. QED BY <1>2, <1>3 DEF KeepsItsTurn

LEMMA TurnsKept ==
  ASSUME CallTypes, \A d \in Calls : Locked(d), Queued, NEW c \in Calls, CallStep(c)
  PROVE  Queued' /\ \A d \in Calls : KeepsItsTurn(d) /\ GoesForward(d)
<1>. c \in Tasks /\ \A d \in Calls : d \in Tasks
  BY DEF Tasks
<1>0. \A d \in Calls \ {c} : pc'[d] = pc[d]
  BY DEF CallTypes, CallStep, Queues, Repeats, Proceeds, Refuses, Raises, Dispatches, Settles,
         Concludes, Fuses, Goes
<1>1. \A d \in Calls : GoesForward(d)
  <2>1. GoesForward(c)
    BY DEF GoesForward, Rank, CallTypes, CallStep, Queues, Repeats, Proceeds, Refuses, Raises,
           Dispatches, Settles, Concludes, Fuses, Goes
  <2>. QED BY <1>0, <2>1 DEF GoesForward
<1>2. CASE Queues(c)
  <2>1. pc[c] \notin InExecute /\ pc'[c] \in InExecute /\ queue' = Append(queue, c)
    BY <1>2 DEF Queues, Goes, CallTypes, InExecute, Holding
  <2>. QED BY <1>0, <1>1, <2>1, CallJoins
<1>3. CASE Refuses(c) \/ Raises(c) \/ Concludes(c)
  <2>1. pc[c] \in Holding \/ (pc[c] = "waiting" /\ Head(queue) = c)
    BY <1>3 DEF Refuses, Raises, Concludes, Goes, Holding
  <2>2. pc'[c] \notin InExecute /\ queue' = Tail(queue)
    BY <1>3 DEF Refuses, Raises, Concludes, Goes, CallTypes, InExecute, Holding
  <2>. QED BY <1>0, <1>1, <2>1, <2>2, HeadHolds, HeadLeaves
<1>4. CASE Repeats(c) \/ Proceeds(c) \/ Dispatches(c) \/ Settles(c) \/ Fuses(c)
  <2>1. queue' = queue
    BY <1>4 DEF Repeats, Proceeds, Dispatches, Settles, Fuses
  <2>2. pc[c] \in InExecute => pc'[c] \in InExecute
    BY <1>4 DEF Repeats, Proceeds, Dispatches, Settles, Fuses, Goes, CallTypes, InExecute, Holding
  <2>. QED BY <1>0, <1>1, <2>1, <2>2, QueueStays
<1>. QED BY <1>2, <1>3, <1>4 DEF CallStep

(* The lock is handed on in the order of the calls: in every state its queue      *)
(* holds the calls that execute or wait, each once, so it is never left with a    *)
(* call that has ended; and no step sends a call back or lets another before one  *)
(* that waits (asyncio.Lock in initialize_session_engines and execute).           *)
THEOREM TurnsAreTaken ==
  Spec => /\ [](/\ \A c \in Calls :
                     pc[c] \in InExecute <=> \E n \in 1 .. Len(queue) : queue[n] = c
                /\ \A m, n \in 1 .. Len(queue) : queue[m] = queue[n] => m = n)
          /\ [][\A c \in Calls : GoesForward(c) /\ KeepsItsTurn(c)]_vars
<1>. DEFINE Served == /\ \A c \in Calls :
                           pc[c] \in InExecute <=> \E n \in 1 .. Len(queue) : queue[n] = c
                      /\ \A m, n \in 1 .. Len(queue) : queue[m] = queue[n] => m = n
            Turns == \A c \in Calls : GoesForward(c) /\ KeepsItsTurn(c)
<1>1. Init => Queued
  BY DEF Init, Queued
<1>2. CallInv /\ Queued /\ [Next]_vars => Queued' /\ [Turns]_vars
  <2>. SUFFICES ASSUME CallInv, Queued, [Next]_vars PROVE Queued' /\ Turns
    OBVIOUS
  <2>1. CallTypes /\ \A d \in Calls : Locked(d)
    BY DEF CallInv
  <2>2. CASE Elsewhere
    <3>1. queue' = queue /\ \A d \in Calls : pc'[d] = pc[d]
      BY <2>2 DEF Elsewhere
    <3>. QED BY <2>1, <3>1, QueueStays DEF GoesForward
  <2>. QED BY <2>1, <2>2, Kinds, TurnsKept
<1>3. CallInv /\ Queued => Served
  <2>. SUFFICES ASSUME CallInv, Queued, NEW c \in Calls, pc[c] \in InExecute
                PROVE  \E n \in 1 .. Len(queue) : queue[n] = c
    BY DEF Queued
  <2>1. CallTypes /\ Locked(c)
    BY DEF CallInv
  <2>2. CASE pc[c] = "waiting"
    BY <2>1, <2>2 DEF Locked
  <2>3. CASE pc[c] \in Holding
    <3>1. queue # << >> /\ Head(queue) = c
      BY <2>1, <2>3 DEF Locked
    <3>2. 1 \in 1 .. Len(queue) /\ queue[1] = c
      BY <2>1, <3>1 DEF CallTypes
    <3>. QED BY <3>2
  <2>. QED BY <2>2, <2>3 DEF InExecute
<1>4. Spec => []CallInv
  BY CallsInvariant, PTL
<1>. QED BY <1>1, <1>2, <1>3, <1>4, PTL DEF Spec
================================================================================
