-------------------------------- MODULE WorldProofs --------------------------------
(* Proofs about what faces the application under review: the targets of its            *)
(* debugging endpoint (CdpTargets), the page as the client knows it (WebviewFrames),   *)
(* the input that an action sends (ActionExecutors) and the verdict on the action     *)
(* (Verification); and their composition, with the processes it runs in.              *)
EXTENDS MCWorld, ProcessTreesProofs, FiniteSetTheorems, SequenceTheorems, TLAPS

------------------------------------------------------------------------------------
(* CdpTargets: for any targets, callers and messages on their way, a CDP session is  *)
(* one target's in whatever mentions it, so the registry's two maps agree.           *)
Messages ==
  [kind : {"created"}, target : Targets, attached : BOOLEAN]
    \cup [kind : {"destroyed", "crashed", "attached", "detached"}, target : Targets,
          session : Sids \cup {Absent}]
    \cup [kind : {"list"}, infos : UNION {[S -> BOOLEAN] : S \in SUBSET Targets}]
    \cup [kind : {"reply"}, caller : Callers, ok : BOOLEAN, session : Sids \cup {Absent}]

Calls ==
  [kind : {"none", "attach", "detach", "close"}, target : Targets \cup {Absent},
   step : {"idle", "sent", "served", "answered", "refused"}, session : Sids \cup {Absent},
   read : TargetInfo \cup {Absent}]

(* Session s is one of target t; of[s] is the target a session was opened on.        *)
Opened(of, s, t) == s \in 1..sids /\ of[s] = t

(* What a message says of a session is so; a reply is to a call that is served.      *)
SidsFit(of, m) ==
  /\ m.kind \in {"attached", "detached"} => Opened(of, m.session, m.target)
  /\ m.kind = "reply" =>
       /\ call[m.caller].step = "served"
       /\ m.session # Absent => Opened(of, m.session, call[m.caller].target)

OneReply ==
  \A i, j \in 1..Len(wire) :
    /\ wire[i].kind = "reply" /\ wire[j].kind = "reply"
    /\ wire[i].caller = wire[j].caller
    => i = j

WireOK(of) ==
  /\ wire \in Seq(Messages) /\ Len(wire) <= MaxWire
  /\ \A i \in 1..Len(wire) : SidsFit(of, wire[i])
  /\ OneReply

BrowserOK(of) == \A t \in Targets : \A s \in pages[t].sessions : Opened(of, s, t)

CallsOK(of) ==
  \A c \in Callers :
    /\ call[c] # NoCall => call[c].target \in Targets
    /\ call[c].session # Absent => Opened(of, call[c].session, call[c].target)

ClientOK(of) ==
  /\ targets \in [Targets -> TargetInfo \cup {Absent}]
  /\ toSession \in [Targets -> Sids \cup {Absent}]
  /\ toTarget \in [Sids -> Targets \cup {Absent}]
  /\ primary \in Targets \cup {Absent}
  /\ \A t \in Targets : toSession[t] # Absent => Opened(of, toSession[t], t)
  /\ RoutedSessionIsKnown

EndpointOK ==
  /\ pages \in [Targets -> [life : {"none", "live", "crashed", "gone"}, sessions : SUBSET Sids]]
  /\ discovering \in BOOLEAN
  /\ started \in {"no", "discover", "list", "yes"}
  /\ call \in [Callers -> Calls]
  /\ sids \in 0..MaxSids /\ calls \in 0..MaxCalls

Known(of) == EndpointOK /\ WireOK(of) /\ BrowserOK(of) /\ CallsOK(of) /\ ClientOK(of)
CdpInv == \E of : Known(of)

LEMMA SetInOrder ==
  ASSUME NEW S, IsFiniteSet(S)
  PROVE  /\ SetToSeq(S) \in Seq(S) /\ Len(SetToSeq(S)) = Cardinality(S) /\ Cardinality(S) \in Nat
         /\ \A i \in 1..Cardinality(S) : SetToSeq(S)[i] \in S
<1>1. PICK n \in Nat : n = Cardinality(S) BY FS_CardinalityType
<1>2. ExistsBijection(1..n, S) BY <1>1, FS_CardinalityType
<1>3. \E f \in [1..n -> S] : IsInjective(f)
  BY <1>2 DEF ExistsBijection, Bijection, Injection, IsInjective
<1>4. PICK f \in [1..n -> S] : f = SetToSeq(S) BY <1>1, <1>3 DEF SetToSeq
<1>5. f \in Seq(S) /\ Len(f) = n OBVIOUS
<1>6. QED BY <1>1, <1>4, <1>5

LEMMA OneMessage ==
  ASSUME NEW a \in Messages, NEW w, w = <<a>>
  PROVE  w \in Seq(Messages) /\ Len(w) = 1 /\ w[1] = a /\ 1..Len(w) = {1}
<1>1. w \in Seq(Messages) /\ Len(w) = 1 /\ w[1] = a OBVIOUS
<1>2. QED BY <1>1

LEMMA TwoMessages ==
  ASSUME NEW a \in Messages, NEW b \in Messages, NEW w, w = <<a, b>>
  PROVE  w \in Seq(Messages) /\ Len(w) = 2 /\ w[1] = a /\ w[2] = b /\ 1..Len(w) = {1, 2}
<1>1. w \in Seq(Messages) /\ Len(w) = 2 /\ w[1] = a /\ w[2] = b OBVIOUS
<1>2. QED BY <1>1

LEMMA GrowingWire ==
  ASSUME NEW old \in Seq(Messages), NEW new \in Seq(Messages)
  PROVE  /\ old \o new \in Seq(Messages) /\ Len(old \o new) = Len(old) + Len(new)
         /\ \A i \in 1..Len(old) : (old \o new)[i] = old[i]
         /\ \A i \in 1..Len(old) + Len(new) :
              i \notin 1..Len(old) => i - Len(old) \in 1..Len(new) /\ (old \o new)[i] = new[i - Len(old)]
  OBVIOUS

(* Messages are sent: what they say must be so, and no call has two replies.         *)
LEMMA SentWire ==
  ASSUME NEW of, NEW of2, WireOK(of), NEW new \in Seq(Messages), wire' = wire \o new,
         Len(wire) + Len(new) <= MaxWire,
         \A m : SidsFit(of, m) /\ (\E i \in 1..Len(wire) : wire[i] = m) => SidsFit(of2, m)',
         \A i \in 1..Len(new) : SidsFit(of2, new[i])',
         \A i, j \in 1..Len(new) : new[i].kind = "reply" /\ new[j].kind = "reply" => i = j,
         \A i \in 1..Len(new), j \in 1..Len(wire) :
           new[i].kind = "reply" /\ wire[j].kind = "reply" => new[i].caller # wire[j].caller
  PROVE  WireOK(of2)'
<1>1. /\ wire' \in Seq(Messages) /\ Len(wire') = Len(wire) + Len(new) /\ Len(wire) \in Nat /\ Len(new) \in Nat
      /\ \A i \in 1..Len(wire) : wire'[i] = wire[i]
      /\ \A i \in 1..Len(wire') :
           i \notin 1..Len(wire) => i - Len(wire) \in 1..Len(new) /\ wire'[i] = new[i - Len(wire)]
  BY GrowingWire DEF WireOK
<1>2. \A i \in 1..Len(wire') : SidsFit(of2, wire[i])'
  <2>1. SUFFICES ASSUME NEW i \in 1..Len(wire') PROVE SidsFit(of2, wire[i])' OBVIOUS
  <2>2. PICK m : m = wire'[i] OBVIOUS
  <2>3. SidsFit(of2, m)'
    <3>1. CASE i \in 1..Len(wire) BY <1>1, <2>2, <3>1 DEF WireOK
    <3>2. CASE i \notin 1..Len(wire)
      <4>1. PICK j \in 1..Len(new) : m = new[j] BY <1>1, <2>2, <3>2
      <4>2. SidsFit(of2, new[j])' OBVIOUS
      <4>3. QED BY <4>1, <4>2
    <3>3. QED BY <3>1, <3>2
  <2>4. QED BY <2>2, <2>3 DEF SidsFit, Opened
<1>3. OneReply'
  <2>1. SUFFICES ASSUME NEW i \in 1..Len(wire'), NEW j \in 1..Len(wire'),
                        wire'[i].kind = "reply", wire'[j].kind = "reply", wire'[i].caller = wire'[j].caller
                 PROVE  i = j
    BY DEF OneReply
  <2>2. CASE i \in 1..Len(wire) /\ j \in 1..Len(wire) BY <1>1, <2>1, <2>2 DEF WireOK, OneReply
  <2>3. CASE i \notin 1..Len(wire) /\ j \notin 1..Len(wire)
    <3>1. PICK k, l : k = i - Len(wire) /\ l = j - Len(wire) OBVIOUS
    <3>2. /\ k \in 1..Len(new) /\ l \in 1..Len(new) /\ wire'[i] = new[k] /\ wire'[j] = new[l]
      BY <1>1, <2>3, <3>1
    <3>3. k = l BY <2>1, <3>2
    <3>4. QED BY <1>1, <3>1, <3>3
  <2>4. CASE i \in 1..Len(wire) /\ j \notin 1..Len(wire) BY <1>1, <2>1, <2>4
  <2>5. CASE i \notin 1..Len(wire) /\ j \in 1..Len(wire) BY <1>1, <2>1, <2>5
  <2>6. QED BY <2>2, <2>3, <2>4, <2>5
<1>4. QED BY <1>1, <1>2, <1>3 DEF WireOK

(* The next message is read.                                                         *)
LEMMA ReadWire ==
  ASSUME NEW of, WireOK(of), wire # <<>>, wire' = Tail(wire),
         \A i \in 2..Len(wire) : \A m : m = wire[i] /\ SidsFit(of, m) => SidsFit(of, m)'
  PROVE  WireOK(of)'
<1>1. /\ wire' \in Seq(Messages) /\ Len(wire') = Len(wire) - 1 /\ Len(wire) \in Nat \ {0}
      /\ \A i \in 1..Len(wire') : i + 1 \in 2..Len(wire) /\ wire'[i] = wire[i + 1]
  BY DEF WireOK
<1>2. \A i \in 1..Len(wire') : SidsFit(of, wire[i])'
  <2>1. SUFFICES ASSUME NEW i \in 1..Len(wire') PROVE SidsFit(of, wire[i])' OBVIOUS
  <2>2. PICK m : m = wire'[i] OBVIOUS
  <2>3. m = wire[i + 1] /\ i + 1 \in 2..Len(wire) BY <1>1, <2>2
  <2>4. SidsFit(of, m) BY <1>1, <2>3 DEF WireOK
  <2>5. SidsFit(of, m)' BY <2>3, <2>4
  <2>6. QED BY <2>2, <2>5 DEF SidsFit, Opened
<1>3. OneReply'
  <2>1. \A i, j \in 1..Len(wire') : i + 1 = j + 1 => i = j BY <1>1
  <2>2. QED BY <1>1, <2>1 DEF WireOK, OneReply
<1>4. MaxWire \in Nat BY TargetsAssumption
<1>5. QED BY <1>1, <1>2, <1>3, <1>4 DEF WireOK

(* The handlers of events and of answers keep the registry's two maps agreed.        *)
LEMMA HandlerAttached ==
  ASSUME NEW of, ClientOK(of), sids' = sids, NEW t \in Targets, NEW s \in Sids \cup {Absent},
         s # Absent => Opened(of, s, t), OnAttachedToTarget(t, s)
  PROVE  ClientOK(of)'
<1>1. /\ targets' = [targets EXCEPT ![t] = Attached(s)] /\ toTarget' = [toTarget EXCEPT ![s] = t]
      /\ toSession' = [toSession EXCEPT ![t] = s] /\ primary' = primary
  BY DEF OnAttachedToTarget
<1>2. Attached(s) \in TargetInfo BY DEF Attached, TargetInfo, Lifecycle
<1>3. targets' \in [Targets -> TargetInfo \cup {Absent}] BY <1>1, <1>2 DEF ClientOK
<1>4. /\ toSession' \in [Targets -> Sids \cup {Absent}] /\ toTarget' \in [Sids -> Targets \cup {Absent}]
      /\ primary' \in Targets \cup {Absent}
  BY <1>1 DEF ClientOK
<1>5. \A q \in Targets : toSession'[q] # Absent => Opened(of, toSession'[q], q)
  BY <1>1 DEF ClientOK
<1>6. \A q \in Targets : toSession'[q] # Absent => toTarget'[toSession'[q]] = q
  <2>1. SUFFICES ASSUME NEW q \in Targets, toSession'[q] # Absent PROVE toTarget'[toSession'[q]] = q
    OBVIOUS
  <2>2. CASE q = t
    <3>1. toSession'[q] = s /\ s \in Sids BY <1>1, <2>1, <2>2 DEF ClientOK
    <3>2. QED BY <1>1, <2>2, <3>1 DEF ClientOK
  <2>3. CASE q # t
    <3>1. toSession'[q] = toSession[q] /\ toSession[q] \in Sids BY <1>1, <1>4, <2>1, <2>3 DEF ClientOK
    <3>2. Opened(of, toSession[q], q) /\ toTarget[toSession[q]] = q
      BY <2>1, <3>1 DEF ClientOK, RoutedSessionIsKnown
    <3>3. toSession[q] # s BY <2>3, <3>1, <3>2, TargetsAssumption DEF Opened
    <3>4. QED BY <1>1, <3>1, <3>2, <3>3 DEF ClientOK
  <2>4. QED BY <2>2, <2>3
<1>7. QED BY <1>3, <1>4, <1>5, <1>6 DEF ClientOK, RoutedSessionIsKnown, Opened

(* Where a target loses its session, its session and nobody else's is forgotten.     *)
LEMMA SessionLost ==
  ASSUME NEW of, ClientOK(of), sids' = sids, NEW t \in Targets, NEW s \in Sids \cup {Absent},
         s # Absent => Opened(of, s, t),
         targets' \in [Targets -> TargetInfo \cup {Absent}], primary' = primary,
         toSession' = [toSession EXCEPT ![t] = Absent],
         toTarget' = Without(toTarget, s)
  PROVE  ClientOK(of)'
<1>1. toSession' \in [Targets -> Sids \cup {Absent}] /\ toTarget' \in [Sids -> Targets \cup {Absent}]
  BY DEF ClientOK, Without
<1>2. \A q \in Targets : toSession'[q] # Absent => Opened(of, toSession'[q], q)
  BY DEF ClientOK
<1>3. \A q \in Targets : toSession'[q] # Absent => toTarget'[toSession'[q]] = q
  <2>1. SUFFICES ASSUME NEW q \in Targets, toSession'[q] # Absent PROVE toTarget'[toSession'[q]] = q
    OBVIOUS
  <2>2. q # t /\ toSession'[q] = toSession[q] /\ toSession[q] \in Sids BY <1>1, <2>1 DEF ClientOK
  <2>3. Opened(of, toSession[q], q) /\ toTarget[toSession[q]] = q
    BY <2>1, <2>2 DEF ClientOK, RoutedSessionIsKnown
  <2>4. s # Absent => toSession[q] # s BY <2>2, <2>3 DEF Opened
  <2>5. QED BY <2>2, <2>3, <2>4 DEF ClientOK, Without
<1>4. QED BY <1>1, <1>2, <1>3 DEF ClientOK, RoutedSessionIsKnown, Opened

LEMMA InactiveIsInfo ==
  \A state \in {"CREATED", "ATTACHED", "DETACHED", "CRASHED", "CLOSED"} : Inactive(state) \in TargetInfo
  BY DEF Inactive, TargetInfo, Lifecycle

LEMMA HandlerDestroyed ==
  ASSUME NEW of, ClientOK(of), sids' = sids, NEW t \in Targets, OnTargetDestroyed(t)
  PROVE  ClientOK(of)'
<1>1. CASE targets[t] = Absent
  BY <1>1 DEF OnTargetDestroyed, client, ClientOK, RoutedSessionIsKnown, Opened
<1>2. CASE targets[t] # Absent
  <2>1. /\ targets' = [targets EXCEPT ![t] = Inactive("CLOSED")] /\ primary' = primary
        /\ toTarget' = Without(toTarget, toSession[t]) /\ toSession' = [toSession EXCEPT ![t] = Absent]
    BY <1>2 DEF OnTargetDestroyed
  <2>2. PICK s : s = toSession[t] OBVIOUS
  <2>3. s \in Sids \cup {Absent} /\ (s # Absent => Opened(of, s, t)) BY <2>2 DEF ClientOK
  <2>4. targets' \in [Targets -> TargetInfo \cup {Absent}] BY <2>1, InactiveIsInfo DEF ClientOK
  <2>5. QED BY <2>1, <2>2, <2>3, <2>4, SessionLost
<1>3. QED BY <1>1, <1>2

LEMMA HandlerDetached ==
  ASSUME NEW of, ClientOK(of), sids' = sids, NEW t \in Targets, NEW s \in Sids \cup {Absent},
         s # Absent => Opened(of, s, t), OnDetachedFromTarget(t, s)
  PROVE  ClientOK(of)'
<1>1. CASE targets[t] = Absent
  BY <1>1 DEF OnDetachedFromTarget, client, ClientOK, RoutedSessionIsKnown, Opened
<1>2. CASE targets[t] # Absent
  <2>1. /\ targets' = [targets EXCEPT ![t] = Inactive("DETACHED")] /\ primary' = primary
        /\ toTarget' = [toTarget EXCEPT ![s] = Absent] /\ toSession' = [toSession EXCEPT ![t] = Absent]
    BY <1>2 DEF OnDetachedFromTarget
  <2>2. s = Absent => s \notin Sids BY TargetsAssumption DEF Sids
  <2>3. toTarget' = Without(toTarget, s)
    <3>1. CASE s = Absent
      <4>1. [toTarget EXCEPT ![s] = Absent] = toTarget BY <2>2, <3>1 DEF ClientOK
      <4>2. QED BY <2>1, <3>1, <4>1 DEF Without
    <3>2. CASE s # Absent BY <2>1, <3>2 DEF Without
    <3>3. QED BY <3>1, <3>2
  <2>4. targets' \in [Targets -> TargetInfo \cup {Absent}] BY <2>1, InactiveIsInfo DEF ClientOK
  <2>5. QED BY <2>1, <2>3, <2>4, SessionLost
<1>3. QED BY <1>1, <1>2

(* Where only records and the choice of the primary change, the maps are untouched.  *)
LEMMA RecordsOnly ==
  ASSUME NEW of, ClientOK(of), sids' = sids, UNCHANGED <<toSession, toTarget>>,
         targets' \in [Targets -> TargetInfo \cup {Absent}], primary' \in Targets \cup {Absent}
  PROVE  ClientOK(of)'
  BY DEF ClientOK, RoutedSessionIsKnown, Opened

LEMMA UpdatedIsInfo ==
  ASSUME NEW of, ClientOK(of), NEW t \in Targets, NEW attached \in BOOLEAN
  PROVE  UpdateOrAddTarget(t, attached) \in TargetInfo
<1>1. SessionOfTarget(t) \in Sids \cup {Absent}
  BY DEF SessionOfTarget, ClientOK, TargetInfo
<1>2. QED BY <1>1 DEF UpdateOrAddTarget, TargetInfo, Lifecycle

LEMMA HandlerCreated ==
  ASSUME NEW of, ClientOK(of), sids' = sids, NEW t \in Targets, NEW attached \in BOOLEAN,
         OnTargetCreated(t, attached)
  PROVE  ClientOK(of)'
<1>1. targets' \in [Targets -> TargetInfo \cup {Absent}]
  BY UpdatedIsInfo DEF OnTargetCreated, ClientOK
<1>2. primary' \in Targets \cup {Absent} BY DEF OnTargetCreated, ClientOK, PrimaryWith
<1>3. QED BY <1>1, <1>2, RecordsOnly DEF OnTargetCreated

LEMMA HandlerCrashed ==
  ASSUME NEW of, ClientOK(of), sids' = sids, NEW t \in Targets, OnTargetCrashed(t)
  PROVE  ClientOK(of)'
<1>1. targets' \in [Targets -> TargetInfo \cup {Absent}]
  BY InactiveIsInfo DEF OnTargetCrashed, ClientOK
<1>2. QED BY <1>1, RecordsOnly DEF OnTargetCrashed, ClientOK

LEMMA HandlerListed ==
  ASSUME NEW of, ClientOK(of), sids' = sids, NEW infos \in UNION {[S -> BOOLEAN] : S \in SUBSET Targets},
         OnTargetList(infos)
  PROVE  ClientOK(of)'
<1>1. DOMAIN infos \subseteq Targets /\ \A t \in DOMAIN infos : infos[t] \in BOOLEAN OBVIOUS
<1>2. \A t \in Targets : t \in DOMAIN infos => UpdateOrAddTarget(t, infos[t]) \in TargetInfo
  BY <1>1, UpdatedIsInfo
<1>3. targets' \in [Targets -> TargetInfo \cup {Absent}]
  BY <1>2 DEF OnTargetList, ClientOK
<1>4. primary' \in Targets \cup {Absent} BY <1>1 DEF OnTargetList, ClientOK, PrimaryWith
<1>5. QED BY <1>3, <1>4, RecordsOnly DEF OnTargetList

(* What the browser says by itself: it changes neither calls nor sessions' owners.   *)
LEMMA Told ==
  ASSUME NEW of, Known(of), NEW new \in Seq(Messages), wire' = wire \o new,
         Len(wire) + Len(new) <= MaxWire, UNCHANGED <<call, sids>>,
         \A i \in 1..Len(new) : new[i].kind # "reply" /\ SidsFit(of, new[i])
  PROVE  WireOK(of)'
<1>1. \A i \in 1..Len(new) : SidsFit(of, new[i])' BY DEF SidsFit, Opened
<1>2. \A m : SidsFit(of, m) /\ (\E i \in 1..Len(wire) : wire[i] = m) => SidsFit(of, m)' BY DEF SidsFit, Opened
<1>3. QED BY <1>1, <1>2, SentWire DEF Known

LEMMA SaysNothingOrOne ==
  ASSUME NEW of, Known(of), NEW e \in Messages, e.kind \in {"created", "destroyed", "crashed"}
  PROVE  /\ Says(e) \in Seq(Messages) /\ Len(Says(e)) <= 1 /\ Len(Says(e)) \in Nat
         /\ \A i \in 1..Len(Says(e)) : Says(e)[i].kind # "reply" /\ SidsFit(of, Says(e)[i])
  BY DEF Says, SidsFit

LEMMA Detached ==
  ASSUME NEW of, Known(of), NEW t \in Targets
  PROVE  /\ Detachments(t) \in Seq(Messages) /\ Len(Detachments(t)) <= MaxSids
         /\ Len(Detachments(t)) \in Nat
         /\ \A i \in 1..Len(Detachments(t)) :
              Detachments(t)[i].kind # "reply" /\ SidsFit(of, Detachments(t)[i])
<1>1. pages[t].sessions \subseteq Sids /\ MaxSids \in Nat
  BY TargetsAssumption DEF Known, EndpointOK
<1>2. IsFiniteSet(Sids) /\ Cardinality(Sids) = MaxSids BY <1>1, FS_Interval DEF Sids
<1>3. IsFiniteSet(pages[t].sessions) /\ Cardinality(pages[t].sessions) <= MaxSids
  BY <1>1, <1>2, FS_Subset
<1>4. PICK q : q = SetToSeq(pages[t].sessions) OBVIOUS
<1>5. q \in Seq(pages[t].sessions) /\ Len(q) \in Nat /\ Len(q) <= MaxSids
      /\ \A i \in 1..Len(q) : q[i] \in pages[t].sessions
  BY <1>3, <1>4, SetInOrder
<1>6. Detachments(t) = [i \in 1..Len(q) |-> Event("detached", t, q[i])] BY <1>4, <1>5 DEF Detachments
<1>7. \A i \in 1..Len(q) : Event("detached", t, q[i]) \in Messages BY <1>1, <1>5 DEF Event, Messages
<1>8. Detachments(t) \in Seq(Messages) /\ Len(Detachments(t)) = Len(q) BY <1>5, <1>6, <1>7
<1>9. \A i \in 1..Len(q) : /\ Event("detached", t, q[i]).kind # "reply"
                            /\ SidsFit(of, Event("detached", t, q[i]))
  BY <1>5 DEF Event, SidsFit, Known, BrowserOK
<1>10. QED BY <1>5, <1>6, <1>8, <1>9

LEMMA Joined ==
  ASSUME NEW of, NEW a \in Seq(Messages), NEW b \in Seq(Messages),
         \A i \in 1..Len(a) : a[i].kind # "reply" /\ SidsFit(of, a[i]),
         \A i \in 1..Len(b) : b[i].kind # "reply" /\ SidsFit(of, b[i])
  PROVE  /\ a \o b \in Seq(Messages) /\ Len(a \o b) = Len(a) + Len(b)
         /\ \A i \in 1..Len(a \o b) : (a \o b)[i].kind # "reply" /\ SidsFit(of, (a \o b)[i])
<1>1. /\ a \o b \in Seq(Messages) /\ Len(a \o b) = Len(a) + Len(b) /\ Len(a) \in Nat /\ Len(b) \in Nat
      /\ \A i \in 1..Len(a) : (a \o b)[i] = a[i]
      /\ \A i \in 1..Len(a) + Len(b) :
           i \notin 1..Len(a) => i - Len(a) \in 1..Len(b) /\ (a \o b)[i] = b[i - Len(a)]
  BY GrowingWire
<1>2. SUFFICES ASSUME NEW i \in 1..Len(a) + Len(b)
               PROVE  (a \o b)[i].kind # "reply" /\ SidsFit(of, (a \o b)[i])
  BY <1>1
<1>3. CASE i \in 1..Len(a) BY <1>1, <1>3
<1>4. CASE i \notin 1..Len(a)
  <2>1. PICK j \in 1..Len(b) : (a \o b)[i] = b[j] BY <1>1, <1>4
  <2>2. QED BY <2>1
<1>5. QED BY <1>3, <1>4

LEMMA ClientKept ==
  ASSUME NEW of, ClientOK(of), UNCHANGED client, sids' = sids
  PROVE  ClientOK(of)'
  BY DEF client, ClientOK, RoutedSessionIsKnown, Opened

LEMMA CallsKept ==
  ASSUME NEW of, CallsOK(of), UNCHANGED <<call, sids>>
  PROVE  CallsOK(of)'
  BY DEF CallsOK, Opened

LEMMA BrowserStep ==
  ASSUME NEW of, Known(of), NEW t \in Targets, PageCreated(t) \/ PageGone(t) \/ PageCrashed(t)
  PROVE  Known(of)'
<1> /\ wire \in Seq(Messages) /\ Len(wire) \in Nat /\ MaxWire \in Nat /\ MaxSids \in Nat
  BY TargetsAssumption DEF Known, WireOK
<1>1. UNCHANGED <<discovering, client, started, call, sids, calls>>
  BY DEF PageCreated, PageGone, PageCrashed
<1>2. PICK p \in [life : {"none", "live", "crashed", "gone"}, sessions : SUBSET Sids] :
        /\ pages' = [pages EXCEPT ![t] = p]
        /\ p.sessions \subseteq pages[t].sessions
  <2>1. pages[t] \in [life : {"none", "live", "crashed", "gone"}, sessions : SUBSET Sids]
    BY DEF Known, EndpointOK
  <2>2. CASE PageCreated(t)
    <3>1. PICK p : p = [pages[t] EXCEPT !.life = "live"] OBVIOUS
    <3>2. pages' = [pages EXCEPT ![t] = p] BY <2>2, <3>1 DEF PageCreated
    <3>3. /\ p \in [life : {"none", "live", "crashed", "gone"}, sessions : SUBSET Sids]
          /\ p.sessions = pages[t].sessions
      BY <2>1, <3>1
    <3>4. QED BY <3>2, <3>3
  <2>3. CASE PageGone(t)
    <3>1. PICK p : p = [life |-> "gone", sessions |-> {}] OBVIOUS
    <3>2. pages' = [pages EXCEPT ![t] = p] BY <2>3, <3>1 DEF PageGone
    <3>3. /\ p \in [life : {"none", "live", "crashed", "gone"}, sessions : SUBSET Sids]
          /\ p.sessions = {}
      BY <3>1
    <3>4. QED BY <3>2, <3>3
  <2>4. CASE PageCrashed(t)
    <3>1. PICK p : p = [pages[t] EXCEPT !.life = "crashed"] OBVIOUS
    <3>2. pages' = [pages EXCEPT ![t] = p] BY <2>4, <3>1 DEF PageCrashed
    <3>3. /\ p \in [life : {"none", "live", "crashed", "gone"}, sessions : SUBSET Sids]
          /\ p.sessions = pages[t].sessions
      BY <2>1, <3>1
    <3>4. QED BY <3>2, <3>3
  <2>5. QED BY <2>2, <2>3, <2>4
<1>3. EndpointOK' /\ BrowserOK(of)'
  <2>1. EndpointOK' BY <1>1, <1>2 DEF Known, EndpointOK
  <2>2. \A q \in Targets : pages'[q].sessions \subseteq pages[q].sessions
    BY <1>2 DEF Known, EndpointOK
  <2>3. BrowserOK(of)' BY <1>1, <2>2 DEF Known, BrowserOK, Opened
  <2>4. QED BY <2>1, <2>3
<1>4. CallsOK(of)' /\ ClientOK(of)' BY <1>1, CallsKept, ClientKept DEF Known
<1>5. WireOK(of)'
  <2>1. CASE PageCreated(t)
    <3>1. TargetCreated(t) \in Messages /\ TargetCreated(t).kind = "created"
      BY DEF TargetCreated, Messages
    <3>2. PICK new : new = Says(TargetCreated(t)) OBVIOUS
    <3>3. new \in Seq(Messages) /\ Len(new) <= 1 /\ Len(new) \in Nat
          /\ \A i \in 1..Len(new) : new[i].kind # "reply" /\ SidsFit(of, new[i])
      BY <3>1, <3>2, SaysNothingOrOne
    <3>4. wire' = wire \o new /\ Len(wire) + 1 <= MaxWire BY <2>1, <3>2 DEF PageCreated, Room
    <3>5. QED BY <1>1, <3>3, <3>4, Told
  <2>2. CASE PageGone(t)
    <3>1. Event("destroyed", t, Absent) \in Messages /\ Event("destroyed", t, Absent).kind = "destroyed"
      BY DEF Event, Messages
    <3>2. PICK a, b : a = Detachments(t) /\ b = Says(Event("destroyed", t, Absent)) OBVIOUS
    <3>3. b \in Seq(Messages) /\ Len(b) <= 1 /\ Len(b) \in Nat
          /\ \A i \in 1..Len(b) : b[i].kind # "reply" /\ SidsFit(of, b[i])
      BY <3>1, <3>2, SaysNothingOrOne
    <3>4. a \in Seq(Messages) /\ Len(a) <= MaxSids /\ Len(a) \in Nat
          /\ \A i \in 1..Len(a) : a[i].kind # "reply" /\ SidsFit(of, a[i])
      BY <3>2, Detached
    <3>5. /\ a \o b \in Seq(Messages) /\ Len(a \o b) = Len(a) + Len(b)
          /\ \A i \in 1..Len(a \o b) : (a \o b)[i].kind # "reply" /\ SidsFit(of, (a \o b)[i])
      BY <3>3, <3>4, Joined
    <3>6. wire' = wire \o a \o b /\ Len(wire) + (MaxSids + 1) <= MaxWire
      BY <2>2, <3>2 DEF PageGone, Room
    <3>7. wire' = wire \o (a \o b)
      <4>1. wire \in Seq(Messages) /\ a \in Seq(Messages) /\ b \in Seq(Messages) BY <1>1, <3>3, <3>4
      <4>2. (wire \o a) \o b = wire \o (a \o b) BY <4>1, ConcatAssociative
      <4>3. QED BY <3>6, <4>2
    <3>8. Len(wire) + Len(a \o b) <= MaxWire BY <3>3, <3>4, <3>5, <3>6
    <3>9. QED BY <1>1, <3>5, <3>7, <3>8, Told
  <2>3. CASE PageCrashed(t)
    <3>1. Event("crashed", t, Absent) \in Messages /\ Event("crashed", t, Absent).kind = "crashed"
      BY DEF Event, Messages
    <3>2. PICK new : new = Says(Event("crashed", t, Absent)) OBVIOUS
    <3>3. new \in Seq(Messages) /\ Len(new) <= 1 /\ Len(new) \in Nat
          /\ \A i \in 1..Len(new) : new[i].kind # "reply" /\ SidsFit(of, new[i])
      BY <3>1, <3>2, SaysNothingOrOne
    <3>4. wire' = wire \o new /\ Len(wire) + 1 <= MaxWire BY <2>3, <3>2 DEF PageCrashed, Room
    <3>5. QED BY <1>1, <3>3, <3>4, Told
  <2>4. QED BY <2>1, <2>2, <2>3
<1>6. QED BY <1>3, <1>4, <1>5 DEF Known

(* A command is served: its one reply goes out, and a session it opens is its        *)
(* target's.                                                                         *)
Serving(of, of2, c, new) ==
  /\ call[c].step = "sent" /\ call' = [call EXCEPT ![c].step = "served"]
  /\ UNCHANGED client
  /\ sids' \in {sids, sids + 1} /\ \A s \in 1..sids : of2[s] = of[s]
  /\ new \in Seq(Messages) /\ wire' = wire \o new /\ Len(wire) + Len(new) <= MaxWire
  /\ \A i, j \in 1..Len(new) : new[i].kind = "reply" /\ new[j].kind = "reply" => i = j
  /\ \A i \in 1..Len(new) :
       /\ new[i].kind \in {"attached", "detached"} =>
            new[i].session \in 1..sids' /\ of2[new[i].session] = new[i].target
       /\ new[i].kind = "reply" =>
            /\ new[i].caller = c
            /\ new[i].session # Absent =>
                 new[i].session \in 1..sids' /\ of2[new[i].session] = call[c].target

LEMMA Served ==
  ASSUME NEW of, NEW of2, Known(of), NEW c \in Callers, NEW new, Serving(of, of2, c, new)
  PROVE  WireOK(of2)' /\ CallsOK(of2)' /\ ClientOK(of2)' /\ call' \in [Callers -> Calls]
<1> USE DEF Serving
<1>1. /\ call \in [Callers -> Calls] /\ WireOK(of) /\ CallsOK(of) /\ ClientOK(of) /\ sids \in Nat
  BY TargetsAssumption DEF Known, EndpointOK
<1>2. PICK r : r = [call[c] EXCEPT !.step = "served"] OBVIOUS
<1>3. /\ r \in Calls /\ r.step = "served" /\ r.target = call[c].target /\ r.session = call[c].session
      /\ r # NoCall
  BY <1>1, <1>2 DEF Calls, NoCall
<1>4. call' = [call EXCEPT ![c] = r] BY <1>2
<1>5. call' \in [Callers -> Calls] /\ call'[c] = r /\ \A d \in Callers \ {c} : call'[d] = call[d]
  BY <1>1, <1>3, <1>4
<1>6. \A s, t : Opened(of, s, t) => s \in 1..sids' /\ of2[s] = t BY <1>1 DEF Opened
<1>7. call[c] # NoCall BY DEF NoCall
<1>8. \A m : SidsFit(of, m) /\ (\E i \in 1..Len(wire) : wire[i] = m) => SidsFit(of2, m)'
  <2>1. SUFFICES ASSUME NEW m, NEW i \in 1..Len(wire), wire[i] = m, SidsFit(of, m) PROVE SidsFit(of2, m)'
    OBVIOUS
  <2>2. m \in Messages BY <1>1, <2>1 DEF WireOK
  <2>3. m.kind = "reply" => m.caller \in Callers \ {c} BY <2>1, <2>2 DEF SidsFit, Messages
  <2>4. QED BY <1>5, <1>6, <2>1, <2>3 DEF SidsFit, Opened
<1>9. \A i \in 1..Len(new) : SidsFit(of2, new[i])'
  BY <1>3, <1>5 DEF SidsFit, Opened
<1>10. \A i \in 1..Len(new), j \in 1..Len(wire) :
         new[i].kind = "reply" /\ wire[j].kind = "reply" => new[i].caller # wire[j].caller
  BY <1>1 DEF WireOK, SidsFit
<1>11. WireOK(of2)' BY <1>1, <1>8, <1>9, <1>10, SentWire
<1>12. CallsOK(of2)'
  <2>1. SUFFICES ASSUME NEW d \in Callers
                 PROVE  /\ call'[d] # NoCall => call'[d].target \in Targets
                        /\ call'[d].session # Absent =>
                             call'[d].session \in 1..sids' /\ of2[call'[d].session] = call'[d].target
    BY DEF CallsOK, Opened
  <2>2. call'[d].target = call[d].target /\ call'[d].session = call[d].session BY <1>3, <1>5
  <2>3. call'[d] # NoCall => call[d] # NoCall BY <1>5, <1>7
  <2>4. QED BY <1>1, <1>6, <2>2, <2>3 DEF CallsOK
<1>13. ClientOK(of2)' BY <1>1, <1>6 DEF ClientOK, client, RoutedSessionIsKnown, Opened
<1>14. QED BY <1>5, <1>11, <1>12, <1>13

LEMMA ServeStep ==
  ASSUME NEW of, Known(of), NEW c \in Callers, Serve(c)
  PROVE  \E of2 : Known(of2)'
<1> DEFINE t == call[c].target
<1>1. /\ wire \in Seq(Messages) /\ Len(wire) \in Nat /\ MaxWire \in Nat /\ MaxSids \in Nat
      /\ Len(wire) + (MaxSids + 2) <= MaxWire /\ sids \in 0..MaxSids /\ sids \in Nat
  BY TargetsAssumption DEF Known, WireOK, EndpointOK, Serve, Room
<1>2. /\ call[c].step = "sent" /\ call' = [call EXCEPT ![c].step = "served"]
      /\ UNCHANGED <<discovering, client, started, calls>>
  BY DEF Serve
<1>3. t \in Targets /\ t # Absent BY <1>2, TargetsAssumption DEF Known, CallsOK, NoCall
<1>4. pages \in [Targets -> [life : {"none", "live", "crashed", "gone"}, sessions : SUBSET Sids]]
  BY DEF Known, EndpointOK
<1>5. call[c].session \in Sids \cup {Absent} BY DEF Known, EndpointOK, Calls
<1>6. CASE CallSent(c, "attach") /\ Alive(t) /\ sids < MaxSids
           /\ sids' = sids + 1
           /\ pages' = [pages EXCEPT ![t].sessions = @ \cup {sids + 1}]
           /\ wire' = wire \o <<Event("attached", t, sids + 1), Reply(c, TRUE, sids + 1)>>
  <2>1. PICK s : s = sids + 1 OBVIOUS
  <2>2. s \in Sids /\ s # Absent BY <1>1, <1>6, <2>1, TargetsAssumption DEF Sids
  <2>3. PICK of2 : of2 = [q \in 1..s |-> IF q = s THEN t ELSE of[q]] OBVIOUS
  <2>4. of2[s] = t /\ s \in 1..s /\ \A q \in 1..sids : of2[q] = of[q] BY <1>1, <2>1, <2>3
  <2>5. PICK new : new = <<Event("attached", t, s), Reply(c, TRUE, s)>> OBVIOUS
  <2>6. /\ Event("attached", t, s) \in Messages /\ Reply(c, TRUE, s) \in Messages
        /\ Event("attached", t, s).kind = "attached" /\ Event("attached", t, s).target = t
        /\ Event("attached", t, s).session = s
        /\ Reply(c, TRUE, s).kind = "reply" /\ Reply(c, TRUE, s).caller = c
        /\ Reply(c, TRUE, s).session = s
    BY <1>3, <2>2 DEF Event, Reply, Messages
  <2>7. new \in Seq(Messages) /\ Len(new) = 2 /\ 1..Len(new) = {1, 2}
        /\ new[1] = Event("attached", t, s) /\ new[2] = Reply(c, TRUE, s)
    <3>1. PICK e, m : e = Event("attached", t, s) /\ m = Reply(c, TRUE, s) OBVIOUS
    <3>2. e \in Messages /\ m \in Messages BY <2>6, <3>1
    <3>3. new = <<e, m>> BY <2>5, <3>1
    <3>4. new \in Seq(Messages) /\ Len(new) = 2 /\ new[1] = e /\ new[2] = m /\ 1..Len(new) = {1, 2}
      BY <3>2, <3>3, TwoMessages
    <3>5. QED BY <3>1, <3>4
  <2>8. WireOK(of2)' /\ CallsOK(of2)' /\ ClientOK(of2)' /\ call' \in [Callers -> Calls]
    <3>1. /\ sids' \in {sids, sids + 1} /\ wire' = wire \o new /\ Len(wire) + Len(new) <= MaxWire
          /\ UNCHANGED client
      BY <1>1, <1>2, <1>6, <2>1, <2>5, <2>7
    <3>2. \A i, j \in 1..Len(new) : new[i].kind = "reply" /\ new[j].kind = "reply" => i = j
      BY <2>6, <2>7
    <3>3. \A i \in 1..Len(new) :
           /\ new[i].kind \in {"attached", "detached"} =>
                new[i].session \in 1..sids' /\ of2[new[i].session] = new[i].target
           /\ new[i].kind = "reply" =>
                /\ new[i].caller = c
                /\ new[i].session # Absent =>
                     new[i].session \in 1..sids' /\ of2[new[i].session] = call[c].target
      BY <1>6, <2>1, <2>4, <2>6, <2>7
    <3>4. Serving(of, of2, c, new) BY <1>2, <2>4, <2>7, <3>1, <3>2, <3>3 DEF Serving
    <3>5. QED BY <3>4, Served
  <2>9. PICK p : p = [pages[t] EXCEPT !.sessions = @ \cup {s}] OBVIOUS
  <2>10. /\ p \in [life : {"none", "live", "crashed", "gone"}, sessions : SUBSET Sids]
         /\ p.sessions = pages[t].sessions \cup {s}
    <3>1. pages[t] \in [life : {"none", "live", "crashed", "gone"}, sessions : SUBSET Sids]
      BY <1>3, <1>4
    <3>2. QED BY <2>2, <2>9, <3>1
  <2>11. pages' = [pages EXCEPT ![t] = p] BY <1>6, <2>1, <2>9
  <2>12. BrowserOK(of2)'
    <3>1. SUFFICES ASSUME NEW q \in Targets, NEW r \in pages'[q].sessions PROVE r \in 1..sids' /\ of2[r] = q
      BY DEF BrowserOK, Opened
    <3>2. CASE q = t /\ r = s BY <1>6, <2>1, <2>4, <3>2
    <3>3. CASE ~(q = t /\ r = s)
      <4>1. r \in pages[q].sessions BY <1>3, <1>4, <2>10, <2>11, <3>1, <3>3
      <4>2. r \in 1..sids /\ of[r] = q BY <4>1 DEF Known, BrowserOK, Opened
      <4>3. QED BY <1>1, <1>6, <2>4, <4>2
    <3>4. QED BY <3>2, <3>3
  <2>13. EndpointOK'
    <3>1. pages' \in [Targets -> [life : {"none", "live", "crashed", "gone"}, sessions : SUBSET Sids]]
      BY <1>3, <1>4, <2>10, <2>11
    <3>2. sids' \in 0..MaxSids BY <1>1, <1>6
    <3>3. QED BY <1>2, <2>8, <3>1, <3>2 DEF Known, EndpointOK
  <2>14. QED BY <2>8, <2>12, <2>13 DEF Known
<1>7. CASE CallSent(c, "detach") /\ call[c].session \in pages[t].sessions
           /\ pages' = [pages EXCEPT ![t].sessions = @ \ {call[c].session}]
           /\ wire' = wire \o <<Event("detached", t, call[c].session), Reply(c, TRUE, Absent)>>
           /\ UNCHANGED sids
  <2>1. PICK s : s = call[c].session OBVIOUS
  <2>2. s \in Sids /\ s \in 1..sids /\ of[s] = t
    BY <1>3, <1>4, <1>7, <2>1 DEF Known, BrowserOK, Opened
  <2>3. PICK new : new = <<Event("detached", t, s), Reply(c, TRUE, Absent)>> OBVIOUS
  <2>4. /\ Event("detached", t, s) \in Messages /\ Reply(c, TRUE, Absent) \in Messages
        /\ Event("detached", t, s).kind = "detached" /\ Event("detached", t, s).target = t
        /\ Event("detached", t, s).session = s
        /\ Reply(c, TRUE, Absent).kind = "reply" /\ Reply(c, TRUE, Absent).caller = c
        /\ Reply(c, TRUE, Absent).session = Absent
    BY <1>3, <2>2 DEF Event, Reply, Messages
  <2>5. new \in Seq(Messages) /\ Len(new) = 2 /\ 1..Len(new) = {1, 2}
        /\ new[1] = Event("detached", t, s) /\ new[2] = Reply(c, TRUE, Absent)
    <3>1. PICK e, m : e = Event("detached", t, s) /\ m = Reply(c, TRUE, Absent) OBVIOUS
    <3>2. e \in Messages /\ m \in Messages BY <2>4, <3>1
    <3>3. new = <<e, m>> BY <2>3, <3>1
    <3>4. new \in Seq(Messages) /\ Len(new) = 2 /\ new[1] = e /\ new[2] = m /\ 1..Len(new) = {1, 2}
      BY <3>2, <3>3, TwoMessages
    <3>5. QED BY <3>1, <3>4
  <2>6. WireOK(of)' /\ CallsOK(of)' /\ ClientOK(of)' /\ call' \in [Callers -> Calls]
    <3>1. /\ sids' \in {sids, sids + 1} /\ wire' = wire \o new /\ Len(wire) + Len(new) <= MaxWire
          /\ UNCHANGED client /\ \A q \in 1..sids : of[q] = of[q]
      BY <1>1, <1>2, <1>7, <2>1, <2>3, <2>5
    <3>2. \A i, j \in 1..Len(new) : new[i].kind = "reply" /\ new[j].kind = "reply" => i = j
      BY <2>4, <2>5
    <3>3. \A i \in 1..Len(new) :
           /\ new[i].kind \in {"attached", "detached"} =>
                new[i].session \in 1..sids' /\ of[new[i].session] = new[i].target
           /\ new[i].kind = "reply" =>
                /\ new[i].caller = c
                /\ new[i].session # Absent =>
                     new[i].session \in 1..sids' /\ of[new[i].session] = call[c].target
      BY <1>7, <2>2, <2>4, <2>5
    <3>4. Serving(of, of, c, new) BY <1>2, <2>5, <3>1, <3>2, <3>3 DEF Serving
    <3>5. QED BY <3>4, Served
  <2>7. PICK p : p = [pages[t] EXCEPT !.sessions = @ \ {s}] OBVIOUS
  <2>8. /\ p \in [life : {"none", "live", "crashed", "gone"}, sessions : SUBSET Sids]
        /\ p.sessions \subseteq pages[t].sessions
    <3>1. pages[t] \in [life : {"none", "live", "crashed", "gone"}, sessions : SUBSET Sids]
      BY <1>3, <1>4
    <3>2. QED BY <2>7, <3>1
  <2>9. pages' = [pages EXCEPT ![t] = p] BY <1>7, <2>1, <2>7
  <2>10. \A q \in Targets : pages'[q].sessions \subseteq pages[q].sessions BY <1>4, <2>8, <2>9
  <2>11. BrowserOK(of)' BY <1>7, <2>10 DEF Known, BrowserOK, Opened
  <2>12. EndpointOK'
    <3>1. pages' \in [Targets -> [life : {"none", "live", "crashed", "gone"}, sessions : SUBSET Sids]]
      BY <1>3, <1>4, <2>8, <2>9
    <3>2. QED BY <1>2, <1>7, <2>6, <3>1 DEF Known, EndpointOK
  <2>13. QED BY <2>6, <2>11, <2>12 DEF Known
<1>8. CASE CallSent(c, "close") /\ Alive(t)
           /\ pages' = [pages EXCEPT ![t] = [life |-> "gone", sessions |-> {}]]
           /\ wire' = wire \o <<Reply(c, TRUE, Absent)>> \o Detachments(t)
                           \o Says(Event("destroyed", t, Absent))
           /\ UNCHANGED sids
  <2>1. /\ Event("destroyed", t, Absent) \in Messages /\ Event("destroyed", t, Absent).kind = "destroyed"
        /\ Reply(c, TRUE, Absent) \in Messages /\ Reply(c, TRUE, Absent).kind = "reply"
        /\ Reply(c, TRUE, Absent).caller = c /\ Reply(c, TRUE, Absent).session = Absent
    BY <1>3 DEF Event, Reply, Messages
  <2>2. PICK a, b, m : /\ a = Detachments(t) /\ b = Says(Event("destroyed", t, Absent))
                       /\ m = Reply(c, TRUE, Absent)
    OBVIOUS
  <2>3. b \in Seq(Messages) /\ Len(b) <= 1 /\ Len(b) \in Nat
        /\ \A i \in 1..Len(b) : b[i].kind # "reply" /\ SidsFit(of, b[i])
    BY <2>1, <2>2, SaysNothingOrOne
  <2>4. a \in Seq(Messages) /\ Len(a) <= MaxSids /\ Len(a) \in Nat
        /\ \A i \in 1..Len(a) : a[i].kind # "reply" /\ SidsFit(of, a[i])
    BY <1>3, <2>2, Detached
  <2>5. PICK ab : ab = a \o b OBVIOUS
  <2>6. /\ ab \in Seq(Messages) /\ Len(ab) = Len(a) + Len(b)
        /\ \A i \in 1..Len(ab) : ab[i].kind # "reply" /\ SidsFit(of, ab[i])
    BY <2>3, <2>4, <2>5, Joined
  <2>7. PICK new : new = <<m>> \o ab OBVIOUS
  <2>8. /\ new \in Seq(Messages) /\ Len(new) = 1 + Len(ab) /\ Len(ab) \in Nat /\ new[1] = m
        /\ \A i \in 1..Len(new) : i # 1 => i - 1 \in 1..Len(ab) /\ new[i] = ab[i - 1]
    <3>1. PICK w : w = <<m>> OBVIOUS
    <3>2. w \in Seq(Messages) /\ Len(w) = 1 /\ w[1] = m /\ 1..Len(w) = {1}
      BY <2>1, <2>2, <3>1, OneMessage
    <3>3. new = w \o ab BY <2>7, <3>1
    <3>4. /\ w \o ab \in Seq(Messages) /\ Len(w \o ab) = Len(w) + Len(ab)
          /\ \A i \in 1..Len(w) : (w \o ab)[i] = w[i]
          /\ \A i \in 1..Len(w) + Len(ab) :
               i \notin 1..Len(w) => i - Len(w) \in 1..Len(ab) /\ (w \o ab)[i] = ab[i - Len(w)]
      BY <2>6, <3>2, GrowingWire
    <3>5. Len(ab) \in Nat BY <2>3, <2>4, <2>6
    <3>6. QED BY <3>2, <3>3, <3>4, <3>5
  <2>9. wire' = wire \o new
    <3>1. PICK w : w = <<m>> OBVIOUS
    <3>2. wire' = wire \o w \o a \o b BY <1>8, <2>2, <3>1
    <3>3. w \in Seq(Messages) BY <2>1, <2>2, <3>1, OneMessage
    <3>4. PICK v : v = wire \o w OBVIOUS
    <3>5. v \in Seq(Messages) BY <1>1, <3>3, <3>4
    <3>6. (v \o a) \o b = v \o (a \o b) BY <2>3, <2>4, <3>5, ConcatAssociative
    <3>7. (wire \o w) \o ab = wire \o (w \o ab) BY <1>1, <2>6, <3>3, ConcatAssociative
    <3>8. QED BY <2>5, <2>7, <3>1, <3>2, <3>4, <3>6, <3>7
  <2>10. WireOK(of)' /\ CallsOK(of)' /\ ClientOK(of)' /\ call' \in [Callers -> Calls]
    <3>1. /\ sids' \in {sids, sids + 1} /\ Len(wire) + Len(new) <= MaxWire
          /\ UNCHANGED client /\ \A q \in 1..sids : of[q] = of[q]
      BY <1>1, <1>2, <1>8, <2>3, <2>4, <2>6, <2>8
    <3>2. \A i \in 1..Len(new) : i # 1 => new[i].kind # "reply" /\ SidsFit(of, new[i])
      <4>1. SUFFICES ASSUME NEW i \in 1..Len(new), i # 1
                     PROVE  new[i].kind # "reply" /\ SidsFit(of, new[i])
        OBVIOUS
      <4>2. PICK k \in 1..Len(ab) : new[i] = ab[k] BY <2>8, <4>1
      <4>3. QED BY <2>6, <4>2
    <3>3. \A i, j \in 1..Len(new) : new[i].kind = "reply" /\ new[j].kind = "reply" => i = j
      BY <3>2
    <3>4. \A i \in 1..Len(new) :
           /\ new[i].kind \in {"attached", "detached"} =>
                new[i].session \in 1..sids' /\ of[new[i].session] = new[i].target
           /\ new[i].kind = "reply" =>
                /\ new[i].caller = c
                /\ new[i].session # Absent =>
                     new[i].session \in 1..sids' /\ of[new[i].session] = call[c].target
      <4>1. SUFFICES ASSUME NEW i \in 1..Len(new)
                     PROVE  /\ new[i].kind \in {"attached", "detached"} =>
                                 new[i].session \in 1..sids' /\ of[new[i].session] = new[i].target
                            /\ new[i].kind = "reply" => new[i].caller = c /\ new[i].session = Absent
        OBVIOUS
      <4>2. CASE i = 1 BY <2>1, <2>2, <2>8, <4>2
      <4>3. CASE i # 1 BY <1>8, <3>2, <4>3 DEF SidsFit, Opened
      <4>4. QED BY <4>2, <4>3
    <3>5. Serving(of, of, c, new) BY <1>2, <2>8, <2>9, <3>1, <3>3, <3>4 DEF Serving
    <3>6. QED BY <3>5, Served
  <2>11. PICK p : p = [life |-> "gone", sessions |-> {}] OBVIOUS
  <2>12. /\ pages' = [pages EXCEPT ![t] = p] /\ p.sessions = {}
         /\ p \in [life : {"none", "live", "crashed", "gone"}, sessions : SUBSET Sids]
    BY <1>8, <2>11
  <2>13. \A q \in Targets : pages'[q].sessions \subseteq pages[q].sessions BY <1>4, <2>12
  <2>14. BrowserOK(of)' BY <1>8, <2>13 DEF Known, BrowserOK, Opened
  <2>15. EndpointOK'
    <3>1. pages' \in [Targets -> [life : {"none", "live", "crashed", "gone"}, sessions : SUBSET Sids]]
      BY <1>3, <1>4, <2>12
    <3>2. QED BY <1>2, <1>8, <2>10, <3>1 DEF Known, EndpointOK
  <2>16. QED BY <2>10, <2>14, <2>15 DEF Known
<1>9. CASE Refuse(c)
  <2>1. PICK new : new = <<Reply(c, FALSE, Absent)>> OBVIOUS
  <2>2. /\ Reply(c, FALSE, Absent) \in Messages /\ Reply(c, FALSE, Absent).kind = "reply"
        /\ Reply(c, FALSE, Absent).caller = c /\ Reply(c, FALSE, Absent).session = Absent
    BY DEF Reply, Messages
  <2>3. new \in Seq(Messages) /\ Len(new) = 1 /\ 1..Len(new) = {1} /\ new[1] = Reply(c, FALSE, Absent)
    <3>1. PICK m : m = Reply(c, FALSE, Absent) OBVIOUS
    <3>2. m \in Messages /\ new = <<m>> BY <2>1, <2>2, <3>1
    <3>3. new \in Seq(Messages) /\ Len(new) = 1 /\ new[1] = m /\ 1..Len(new) = {1}
      BY <3>2, OneMessage
    <3>4. QED BY <3>1, <3>3
  <2>4. wire' = wire \o new /\ UNCHANGED <<pages, sids>>
    <3>1. PICK m : m = Reply(c, FALSE, Absent) OBVIOUS
    <3>2. m \in Messages BY <2>2, <3>1
    <3>3. Append(wire, m) = wire \o <<m>> BY <1>1, <3>2, AppendIsConcat
    <3>4. QED BY <1>9, <2>1, <3>1, <3>3 DEF Refuse
  <2>5. WireOK(of)' /\ CallsOK(of)' /\ ClientOK(of)' /\ call' \in [Callers -> Calls]
    <3>1. /\ sids' \in {sids, sids + 1} /\ Len(wire) + Len(new) <= MaxWire
          /\ UNCHANGED client /\ \A q \in 1..sids : of[q] = of[q]
      BY <1>1, <1>2, <2>3, <2>4
    <3>2. \A i, j \in 1..Len(new) : new[i].kind = "reply" /\ new[j].kind = "reply" => i = j BY <2>3
    <3>3. \A i \in 1..Len(new) :
           /\ new[i].kind \in {"attached", "detached"} =>
                new[i].session \in 1..sids' /\ of[new[i].session] = new[i].target
           /\ new[i].kind = "reply" =>
                /\ new[i].caller = c
                /\ new[i].session # Absent =>
                     new[i].session \in 1..sids' /\ of[new[i].session] = call[c].target
      BY <2>2, <2>3
    <3>4. Serving(of, of, c, new) BY <1>2, <2>3, <2>4, <3>1, <3>2, <3>3 DEF Serving
    <3>5. QED BY <3>4, Served
  <2>6. BrowserOK(of)' BY <2>4 DEF Known, BrowserOK, Opened
  <2>7. EndpointOK' BY <1>2, <2>4, <2>5 DEF Known, EndpointOK
  <2>8. QED BY <2>5, <2>6, <2>7 DEF Known
<1>10. QED BY <1>6, <1>7, <1>8, <1>9 DEF Serve

(* The connection is set up: what is alive is announced, then listed.                *)
LEMMA InitializeStep ==
  ASSUME NEW of, Known(of), Initialize
  PROVE  Known(of)'
<1>1. /\ wire \in Seq(Messages) /\ Len(wire) \in Nat /\ MaxWire \in Nat
      /\ Len(wire) + Cardinality(Targets) <= MaxWire
  BY TargetsAssumption DEF Known, WireOK, Initialize, Room
<1>2. UNCHANGED <<pages, client, call, sids, calls>> /\ started' = "discover" BY DEF Initialize
<1>3. EndpointOK' BY <1>2 DEF Known, EndpointOK, Initialize
<1>4. BrowserOK(of)' BY <1>2 DEF Known, BrowserOK, Opened
<1>5. CallsOK(of)' /\ ClientOK(of)' BY <1>2, CallsKept, ClientKept DEF Known
<1>6. WireOK(of)'
  <2>1. CASE UNCHANGED wire BY <1>2, <2>1 DEF Known, WireOK, OneReply, SidsFit, Opened
  <2>2. CASE wire' = wire \o Announce
    <3>1. IsFiniteSet(Living) /\ Cardinality(Living) <= Cardinality(Targets)
      BY TargetsAssumption, FS_Subset DEF Living
    <3>2. PICK q : q = SetToSeq(Living) OBVIOUS
    <3>3. Cardinality(Targets) \in Nat BY TargetsAssumption, FS_CardinalityType
    <3>4. q \in Seq(Living) /\ Len(q) \in Nat /\ Len(q) <= Cardinality(Targets)
          /\ \A i \in 1..Len(q) : q[i] \in Targets
      BY <3>1, <3>2, SetInOrder DEF Living
    <3>5. PICK new : new = Announce OBVIOUS
    <3>6. new = [i \in 1..Len(q) |-> TargetCreated(q[i])] BY <3>2, <3>4, <3>5 DEF Announce
    <3>7. \A t \in Targets : TargetCreated(t) \in Messages /\ TargetCreated(t).kind = "created"
      BY DEF TargetCreated, Messages
    <3>8. \A i \in 1..Len(q) : TargetCreated(q[i]) \in Messages /\ TargetCreated(q[i]).kind = "created"
      BY <3>4, <3>7
    <3>9. new \in Seq(Messages) /\ Len(new) = Len(q) BY <3>4, <3>6, <3>8
    <3>10. \A i \in 1..Len(new) : new[i].kind = "created" BY <3>6, <3>8, <3>9
    <3>11. \A i \in 1..Len(new) : new[i].kind # "reply" /\ SidsFit(of, new[i]) BY <3>10 DEF SidsFit
    <3>12. Len(wire) + Len(new) <= MaxWire BY <1>1, <3>3, <3>4, <3>9
    <3>13. QED BY <1>2, <2>2, <3>5, <3>9, <3>11, <3>12, Told
  <2>3. QED BY <2>1, <2>2 DEF Initialize
<1>7. QED BY <1>3, <1>4, <1>5, <1>6 DEF Known

LEMMA ListStep ==
  ASSUME NEW of, Known(of), ListTargets
  PROVE  Known(of)'
<1>1. /\ wire \in Seq(Messages) /\ Len(wire) \in Nat /\ MaxWire \in Nat /\ Len(wire) + 1 <= MaxWire
  BY TargetsAssumption DEF Known, WireOK, ListTargets, Room
<1>2. UNCHANGED <<pages, discovering, client, call, sids, calls>> /\ started' \in {"list", "yes"}
  BY DEF ListTargets
<1>3. EndpointOK' BY <1>2 DEF Known, EndpointOK
<1>4. BrowserOK(of)' BY <1>2 DEF Known, BrowserOK, Opened
<1>5. CallsOK(of)' /\ ClientOK(of)' BY <1>2, CallsKept, ClientKept DEF Known
<1>6. WireOK(of)'
  <2>1. CASE UNCHANGED wire BY <1>2, <2>1 DEF Known, WireOK, OneReply, SidsFit, Opened
  <2>2. CASE wire' = Append(wire, [kind |-> "list", infos |-> [t \in Living |-> pages[t].sessions /= {}]])
    <3>1. PICK infos : infos = [t \in Living |-> pages[t].sessions /= {}] OBVIOUS
    <3>2. infos \in [Living -> BOOLEAN] /\ Living \in SUBSET Targets BY <3>1 DEF Living
    <3>3. infos \in UNION {[S -> BOOLEAN] : S \in SUBSET Targets} BY <3>2
    <3>4. PICK m : m = [kind |-> "list", infos |-> infos] OBVIOUS
    <3>5. m \in Messages /\ m.kind = "list" BY <3>3, <3>4 DEF Messages
    <3>6. PICK new : new = <<m>> OBVIOUS
    <3>7. new \in Seq(Messages) /\ Len(new) = 1 /\ new[1] = m /\ 1..Len(new) = {1}
      BY <3>5, <3>6, OneMessage
    <3>8. wire' = wire \o new BY <1>1, <2>2, <3>1, <3>4, <3>5, <3>6, AppendIsConcat
    <3>9. \A i \in 1..Len(new) : new[i].kind # "reply" /\ SidsFit(of, new[i]) BY <3>5, <3>7 DEF SidsFit
    <3>10. QED BY <1>1, <1>2, <3>7, <3>8, <3>9, Told
  <2>3. QED BY <2>1, <2>2 DEF ListTargets
<1>7. QED BY <1>3, <1>4, <1>5, <1>6 DEF Known

(* The reader handles the next message.                                              *)
LEMMA ReadStep ==
  ASSUME NEW of, Known(of), ReadMessage
  PROVE  Known(of)'
<1>1. PICK m : m = Head(wire) OBVIOUS
<1>2. /\ wire # <<>> /\ wire' = Tail(wire) /\ UNCHANGED <<pages, discovering, sids, calls>>
      /\ \/ m.kind = "created" /\ OnTargetCreated(m.target, m.attached) /\ UNCHANGED <<started, call>>
         \/ m.kind = "destroyed" /\ OnTargetDestroyed(m.target) /\ UNCHANGED <<started, call>>
         \/ m.kind = "crashed"   /\ OnTargetCrashed(m.target)   /\ UNCHANGED <<started, call>>
         \/ m.kind = "attached"  /\ OnAttachedToTarget(m.target, m.session)
                                 /\ UNCHANGED <<started, call>>
         \/ m.kind = "detached"  /\ OnDetachedFromTarget(m.target, m.session)
                                 /\ UNCHANGED <<started, call>>
         \/ m.kind = "list" /\ OnTargetList(m.infos) /\ started' = "yes" /\ UNCHANGED call
         \/ m.kind = "reply"
              /\ call' = [call EXCEPT ![m.caller].step = IF m.ok THEN "answered" ELSE "refused",
                                      ![m.caller].session = IF m.session = Absent THEN @ ELSE m.session]
              /\ UNCHANGED <<client, started>>
  BY <1>1 DEF ReadMessage
<1>3. wire \in Seq(Messages) /\ Len(wire) \in Nat \ {0} /\ 1 \in 1..Len(wire) /\ m = wire[1]
  BY <1>1, <1>2 DEF Known, WireOK
<1>4. m \in Messages /\ SidsFit(of, m) BY <1>3 DEF Known, WireOK
<1>5. BrowserOK(of)' BY <1>2 DEF Known, BrowserOK, Opened
<1>6. CASE m.kind # "reply"
  <2>1. UNCHANGED <<call, sids>> /\ started' \in {started, "yes"} BY <1>2, <1>6
  <2>2. EndpointOK' BY <1>2, <2>1 DEF Known, EndpointOK
  <2>3. CallsOK(of)' BY <2>1, CallsKept DEF Known
  <2>4. WireOK(of)'
    <3>1. \A i \in 2..Len(wire) : \A n : n = wire[i] /\ SidsFit(of, n) => SidsFit(of, n)'
      BY <2>1 DEF SidsFit, Opened
    <3>2. QED BY <1>2, <3>1, ReadWire DEF Known
  <2>5. ClientOK(of)'
    <3>1. CASE m.kind = "created" /\ OnTargetCreated(m.target, m.attached)
      <4>1. m.target \in Targets /\ m.attached \in BOOLEAN BY <1>4, <3>1 DEF Messages
      <4>2. QED BY <1>2, <3>1, <4>1, HandlerCreated DEF Known
    <3>2. CASE m.kind = "destroyed" /\ OnTargetDestroyed(m.target)
      <4>1. m.target \in Targets BY <1>4, <3>2 DEF Messages
      <4>2. QED BY <1>2, <3>2, <4>1, HandlerDestroyed DEF Known
    <3>3. CASE m.kind = "crashed" /\ OnTargetCrashed(m.target)
      <4>1. m.target \in Targets BY <1>4, <3>3 DEF Messages
      <4>2. QED BY <1>2, <3>3, <4>1, HandlerCrashed DEF Known
    <3>4. CASE m.kind = "attached" /\ OnAttachedToTarget(m.target, m.session)
      <4>1. m.target \in Targets /\ m.session \in Sids \cup {Absent} BY <1>4, <3>4 DEF Messages
      <4>2. Opened(of, m.session, m.target) BY <1>4, <3>4 DEF SidsFit
      <4>3. QED BY <1>2, <3>4, <4>1, <4>2, HandlerAttached DEF Known
    <3>5. CASE m.kind = "detached" /\ OnDetachedFromTarget(m.target, m.session)
      <4>1. m.target \in Targets /\ m.session \in Sids \cup {Absent} BY <1>4, <3>5 DEF Messages
      <4>2. Opened(of, m.session, m.target) BY <1>4, <3>5 DEF SidsFit
      <4>3. QED BY <1>2, <3>5, <4>1, <4>2, HandlerDetached DEF Known
    <3>6. CASE m.kind = "list" /\ OnTargetList(m.infos)
      <4>1. m.infos \in UNION {[S -> BOOLEAN] : S \in SUBSET Targets} BY <1>4, <3>6 DEF Messages
      <4>2. QED BY <1>2, <3>6, <4>1, HandlerListed DEF Known
    <3>7. QED BY <1>2, <1>6, <3>1, <3>2, <3>3, <3>4, <3>5, <3>6
  <2>6. QED BY <1>5, <2>2, <2>3, <2>4, <2>5 DEF Known
<1>7. CASE m.kind = "reply"
  <2>1. PICK c \in Callers : c = m.caller BY <1>4, <1>7 DEF Messages
  <2>2. /\ m.session \in Sids \cup {Absent} /\ m.ok \in BOOLEAN /\ call[c].step = "served"
        /\ m.session # Absent => Opened(of, m.session, call[c].target)
    BY <1>4, <1>7, <2>1 DEF Messages, SidsFit
  <2>3. PICK step : step = IF m.ok THEN "answered" ELSE "refused" OBVIOUS
  <2>4. PICK s : s = IF m.session = Absent THEN call[c].session ELSE m.session OBVIOUS
  <2>5. PICK r : r = [call[c] EXCEPT !.step = step, !.session = s] OBVIOUS
  <2>6. call \in [Callers -> Calls] /\ call[c] # NoCall /\ call[c].target \in Targets
        /\ (call[c].session # Absent => Opened(of, call[c].session, call[c].target))
    BY <2>2 DEF Known, EndpointOK, CallsOK, NoCall
  <2>7. /\ r \in Calls /\ r.step = step /\ r.session = s /\ r.target = call[c].target
        /\ r # NoCall
    <3>1. call[c] \in Calls BY <2>6
    <3>2. step \in {"answered", "refused"} /\ s \in Sids \cup {Absent} BY <2>2, <2>3, <2>4, <3>1 DEF Calls
    <3>3. r \in Calls /\ r.step = step /\ r.session = s /\ r.target = call[c].target
      BY <2>5, <3>1, <3>2 DEF Calls
    <3>4. QED BY <3>2, <3>3 DEF NoCall
  <2>8. call' = [call EXCEPT ![c] = r] /\ UNCHANGED <<client, started>>
    <3>1. /\ call' = [call EXCEPT ![c].step = IF m.ok THEN "answered" ELSE "refused",
                                  ![c].session = IF m.session = Absent THEN @ ELSE m.session]
          /\ UNCHANGED <<client, started>>
      BY <1>2, <1>7, <2>1
    <3>2. QED BY <2>3, <2>4, <2>5, <2>6, <3>1
  <2>9. call' \in [Callers -> Calls] /\ call'[c] = r /\ \A d \in Callers \ {c} : call'[d] = call[d]
    BY <2>6, <2>7, <2>8
  <2>10. EndpointOK' BY <1>2, <2>8, <2>9 DEF Known, EndpointOK
  <2>11. s # Absent => Opened(of, s, call[c].target) BY <2>2, <2>4, <2>6
  <2>12. CallsOK(of)'
    <3>1. SUFFICES ASSUME NEW d \in Callers
                   PROVE  /\ call'[d] # NoCall => call'[d].target \in Targets
                          /\ call'[d].session # Absent => Opened(of, call'[d].session, call'[d].target)
      BY <1>2 DEF CallsOK, Opened
    <3>2. CASE d = c BY <2>6, <2>7, <2>9, <2>11, <3>2
    <3>3. CASE d # c BY <2>9, <3>3 DEF Known, CallsOK
    <3>4. QED BY <3>2, <3>3
  <2>13. ClientOK(of)' BY <1>2, <2>8, ClientKept DEF Known
  <2>14. WireOK(of)'
    <3>1. SUFFICES ASSUME NEW i \in 2..Len(wire), NEW n, n = wire[i], SidsFit(of, n) PROVE SidsFit(of, n)'
      BY <1>2, ReadWire DEF Known
    <3>2. i \in 1..Len(wire) /\ i # 1 BY <1>3
    <3>3. n.kind = "reply" => n.caller \in Callers \ {c}
      <4>1. n \in Messages BY <1>3, <3>1, <3>2
      <4>2. n.kind = "reply" => n.caller # m.caller BY <1>3, <1>7, <3>1, <3>2 DEF Known, WireOK, OneReply
      <4>3. QED BY <2>1, <4>1, <4>2 DEF Messages
    <3>4. QED BY <1>2, <2>9, <3>1, <3>3 DEF SidsFit, Opened
  <2>15. QED BY <1>5, <2>10, <2>12, <2>13, <2>14 DEF Known
<1>8. QED BY <1>6, <1>7

(* A caller that has no reply on its way starts over: nothing it left behind is lost.*)
LEMMA CallChanged ==
  ASSUME NEW of, Known(of), NEW c \in Callers, call[c].step # "served", NEW r \in Calls,
         call' = [call EXCEPT ![c] = r], UNCHANGED <<wire, sids>>,
         r # NoCall => r.target \in Targets,
         r.session # Absent => Opened(of, r.session, r.target)
  PROVE  WireOK(of)' /\ CallsOK(of)' /\ call' \in [Callers -> Calls]
<1>1. /\ call \in [Callers -> Calls] /\ WireOK(of) /\ CallsOK(of) BY DEF Known, EndpointOK
<1>2. call' \in [Callers -> Calls] /\ call'[c] = r /\ \A d \in Callers \ {c} : call'[d] = call[d]
  BY <1>1
<1>3. CallsOK(of)'
  <2>1. SUFFICES ASSUME NEW d \in Callers
                 PROVE  /\ call'[d] # NoCall => call'[d].target \in Targets
                        /\ call'[d].session # Absent => Opened(of, call'[d].session, call'[d].target)
    BY DEF CallsOK, Opened
  <2>2. QED BY <1>1, <1>2 DEF CallsOK
<1>4. \A i \in 1..Len(wire) : SidsFit(of, wire[i])'
  <2>1. SUFFICES ASSUME NEW i \in 1..Len(wire), NEW m, m = wire[i] PROVE SidsFit(of, m)'
    BY DEF SidsFit, Opened
  <2>2. m \in Messages /\ SidsFit(of, m) BY <1>1, <2>1 DEF WireOK
  <2>3. m.kind = "reply" => m.caller \in Callers \ {c} BY <2>2 DEF Messages, SidsFit
  <2>4. QED BY <1>2, <2>2, <2>3 DEF SidsFit, Opened
<1>5. WireOK(of)' BY <1>1, <1>4 DEF WireOK, OneReply
<1>6. QED BY <1>2, <1>3, <1>5

LEMMA NoCallIsCall == NoCall \in Calls /\ NoCall.session = Absent
  BY DEF NoCall, Calls

LEMMA AskStep ==
  ASSUME NEW of, Known(of), NEW c \in Callers, NEW t \in Targets,
         NEW kind \in {"attach", "detach", "close"}, NEW s \in Sids \cup {Absent},
         s # Absent => Opened(of, s, t), Ask(c, kind, t, s)
  PROVE  Known(of)'
<1>1. PICK r : r = [kind |-> kind, target |-> t, step |-> "sent", session |-> s, read |-> targets[t]]
  OBVIOUS
<1>2. r \in Calls /\ r.target = t /\ r.session = s BY <1>1 DEF Calls, Known, ClientOK
<1>3. /\ call[c] = NoCall /\ calls < MaxCalls /\ calls' = calls + 1 /\ call' = [call EXCEPT ![c] = r]
      /\ UNCHANGED <<pages, discovering, wire, client, started, sids>>
  BY <1>1 DEF Ask
<1>4. call[c].step # "served" BY <1>3 DEF NoCall
<1>5. WireOK(of)' /\ CallsOK(of)' /\ call' \in [Callers -> Calls]
  BY <1>2, <1>3, <1>4, CallChanged
<1>6. ClientOK(of)' BY <1>3, ClientKept DEF Known
<1>7. BrowserOK(of)' BY <1>3 DEF Known, BrowserOK, Opened
<1>8. calls' \in 0..MaxCalls BY <1>3, TargetsAssumption DEF Known, EndpointOK
<1>9. EndpointOK' BY <1>3, <1>5, <1>8 DEF Known, EndpointOK
<1>10. QED BY <1>5, <1>6, <1>7, <1>9 DEF Known

(* A call ends: its answer is handled and its caller has no call.                    *)
LEMMA CallEnds ==
  ASSUME NEW of, Known(of), NEW c \in Callers, call[c].step # "served",
         call' = [call EXCEPT ![c] = NoCall], ClientOK(of)',
         UNCHANGED <<pages, discovering, wire, started, sids, calls>>
  PROVE  Known(of)'
<1>1. WireOK(of)' /\ CallsOK(of)' /\ call' \in [Callers -> Calls] BY NoCallIsCall, CallChanged
<1>2. BrowserOK(of)' BY DEF Known, BrowserOK, Opened
<1>3. EndpointOK' BY <1>1 DEF Known, EndpointOK
<1>4. QED BY <1>1, <1>2, <1>3 DEF Known

LEMMA AnswerStep ==
  ASSUME NEW of, Known(of), NEW c \in Callers,
         AttachAnswered(c) \/ DetachAnswered(c) \/ CloseAnswered(c) \/ CallRefused(c)
  PROVE  Known(of)'
<1>1. /\ call[c].step \in {"answered", "refused"} /\ call' = [call EXCEPT ![c] = NoCall]
      /\ UNCHANGED <<pages, discovering, wire, started, sids, calls>>
  BY DEF AttachAnswered, DetachAnswered, CloseAnswered, CallRefused
<1>2. PICK t, s : t = call[c].target /\ s = call[c].session OBVIOUS
<1>3. call[c] # NoCall BY <1>1 DEF NoCall
<1>4. t \in Targets /\ s \in Sids \cup {Absent} /\ (s # Absent => Opened(of, s, t))
  BY <1>2, <1>3 DEF Known, EndpointOK, CallsOK, Calls
<1>5. ClientOK(of)'
  <2>1. CASE AttachAnswered(c)
    <3>1. OnAttachedToTarget(t, s) BY <1>2, <2>1 DEF AttachAnswered
    <3>2. QED BY <1>1, <1>4, <3>1, HandlerAttached DEF Known
  <2>2. CASE DetachAnswered(c)
    <3>1. OnDetachedFromTarget(t, s) BY <1>2, <2>2 DEF DetachAnswered
    <3>2. QED BY <1>1, <1>4, <3>1, HandlerDetached DEF Known
  <2>3. CASE CloseAnswered(c)
    <3>1. /\ targets' = IF targets[t] = Absent THEN targets ELSE [targets EXCEPT ![t] = Inactive("CLOSED")]
          /\ UNCHANGED <<toSession, toTarget, primary>>
      BY <1>2, <2>3 DEF CloseAnswered
    <3>2. targets' \in [Targets -> TargetInfo \cup {Absent}] /\ primary' \in Targets \cup {Absent}
      BY <3>1, InactiveIsInfo DEF Known, ClientOK
    <3>3. QED BY <1>1, <3>1, <3>2, RecordsOnly DEF Known
  <2>4. CASE CallRefused(c)
    <3>1. UNCHANGED client BY <2>4 DEF CallRefused
    <3>2. QED BY <1>1, <3>1, ClientKept DEF Known
  <2>5. QED BY <2>1, <2>2, <2>3, <2>4
<1>6. call[c].step # "served" BY <1>1
<1>7. QED BY <1>1, <1>5, <1>6, CallEnds

LEMMA RegistryStep ==
  ASSUME NEW of, Known(of), NEW t \in Targets, SelectPrimaryTarget(t) \/ DetachUnknown(t)
  PROVE  Known(of)'
<1>1. UNCHANGED <<pages, discovering, wire, toSession, toTarget, started, call, sids, calls>>
  BY DEF SelectPrimaryTarget, DetachUnknown
<1>2. targets' \in [Targets -> TargetInfo \cup {Absent}] /\ primary' \in Targets \cup {Absent}
  BY InactiveIsInfo DEF Known, ClientOK, SelectPrimaryTarget, DetachUnknown
<1>3. ClientOK(of)' BY <1>1, <1>2, RecordsOnly DEF Known
<1>4. CallsOK(of)' BY <1>1, CallsKept DEF Known
<1>5. WireOK(of)' BY <1>1 DEF Known, WireOK, OneReply, SidsFit, Opened
<1>6. EndpointOK' /\ BrowserOK(of)' BY <1>1 DEF Known, EndpointOK, BrowserOK, Opened
<1>7. QED BY <1>3, <1>4, <1>5, <1>6 DEF Known

LEMMA CdpInitially == TargetsInit => CdpInv
<1>1. SUFFICES ASSUME TargetsInit PROVE Known(<<>>) BY DEF CdpInv
<1>2. EndpointOK
  <2>1. call \in [Callers -> Calls] BY <1>1, NoCallIsCall DEF TargetsInit
  <2>2. pages \in [Targets -> [life : {"none", "live", "crashed", "gone"}, sessions : SUBSET Sids]]
    BY <1>1 DEF TargetsInit
  <2>3. sids \in 0..MaxSids /\ calls \in 0..MaxCalls BY <1>1, TargetsAssumption DEF TargetsInit
  <2>4. discovering \in BOOLEAN /\ started \in {"no", "discover", "list", "yes"} BY <1>1 DEF TargetsInit
  <2>5. QED BY <2>1, <2>2, <2>3, <2>4 DEF EndpointOK
<1>3. WireOK(<<>>) BY <1>1, TargetsAssumption DEF TargetsInit, WireOK, OneReply
<1>4. BrowserOK(<<>>) BY <1>1 DEF TargetsInit, BrowserOK
<1>5. CallsOK(<<>>) BY <1>1, NoCallIsCall DEF TargetsInit, CallsOK
<1>6. ClientOK(<<>>) BY <1>1 DEF TargetsInit, ClientOK, RoutedSessionIsKnown
<1>7. QED BY <1>2, <1>3, <1>4, <1>5, <1>6 DEF Known

LEMMA CdpKept == CdpInv /\ [TargetsNext]_targetVars => CdpInv'
<1>1. SUFFICES ASSUME NEW of, Known(of), [TargetsNext]_targetVars PROVE \E of2 : Known(of2)'
  BY DEF CdpInv
<1>2. ASSUME NEW t \in Targets, PageCreated(t) \/ PageGone(t) \/ PageCrashed(t) PROVE Known(of)'
  BY <1>1, <1>2, BrowserStep
<1>3. ASSUME NEW t \in Targets, SelectPrimaryTarget(t) \/ DetachUnknown(t) PROVE Known(of)'
  BY <1>1, <1>3, RegistryStep
<1>4. CASE Initialize BY <1>1, <1>4, InitializeStep
<1>5. CASE ListTargets BY <1>1, <1>5, ListStep
<1>6. CASE ReadMessage BY <1>1, <1>6, ReadStep
<1>7. ASSUME NEW c \in Callers, Serve(c) PROVE \E of2 : Known(of2)' BY <1>1, <1>7, ServeStep
<1>8. ASSUME NEW c \in Callers, AttachAnswered(c) \/ DetachAnswered(c) \/ CloseAnswered(c) \/ CallRefused(c)
      PROVE  Known(of)'
  BY <1>1, <1>8, AnswerStep
<1>9. ASSUME NEW c \in Callers, NEW t \in Targets,
             AttachTarget(c, t) \/ DetachTarget(c, t) \/ CloseTarget(c, t)
      PROVE  Known(of)'
  <2>1. CASE AttachTarget(c, t)
    <3>1. Ask(c, "attach", t, Absent) BY <2>1 DEF AttachTarget
    <3>2. QED BY <1>1, <3>1, AskStep
  <2>2. CASE DetachTarget(c, t)
    <3>1. PICK s : s = toSession[t] OBVIOUS
    <3>2. s \in Sids \cup {Absent} /\ (s # Absent => Opened(of, s, t)) /\ Ask(c, "detach", t, s)
      BY <1>1, <2>2, <3>1 DEF DetachTarget, Known, ClientOK
    <3>3. QED BY <1>1, <3>2, AskStep
  <2>3. CASE CloseTarget(c, t)
    <3>1. Ask(c, "close", t, Absent) BY <2>3 DEF CloseTarget
    <3>2. QED BY <1>1, <3>1, AskStep
  <2>4. QED BY <1>9, <2>1, <2>2, <2>3
<1>10. CASE UNCHANGED targetVars
  <2>1. UNCHANGED <<pages, discovering, wire, targets, toSession, toTarget, primary, started,
                    call, sids, calls>>
    BY <1>10 DEF targetVars
  <2>2. EndpointOK' /\ BrowserOK(of)' /\ CallsOK(of)'
    BY <1>1, <2>1 DEF Known, EndpointOK, BrowserOK, CallsOK, Opened
  <2>3. WireOK(of)'
    BY <1>1, <2>1 DEF Known, WireOK, OneReply, SidsFit, Opened
  <2>4. ClientOK(of)'
    BY <1>1, <2>1 DEF Known, ClientOK, RoutedSessionIsKnown, Opened
  <2>5. QED BY <2>2, <2>3, <2>4 DEF Known
<1>11. QED BY <1>1, <1>2, <1>3, <1>4, <1>5, <1>6, <1>7, <1>8, <1>9, <1>10 DEF TargetsNext

LEMMA CdpHolds == TargetsSpec => []CdpInv
  BY CdpInitially, CdpKept, PTL DEF TargetsSpec

(* The registry's state has its types, and the bounds hold.                           *)
THEOREM TargetsTypes == TargetsSpec => []TargetsTypeOK
<1>1. CdpInv => TargetsTypeOK
  BY DEF CdpInv, Known, EndpointOK, WireOK, ClientOK, TargetsTypeOK, Calls
<1>2. QED BY <1>1, CdpHolds, PTL

(* The session a target is routed by is known to be that target's, however events,   *)
(* replies and callers interleave.                                                   *)
THEOREM RoutesAreKnown == TargetsSpec => []RoutedSessionIsKnown
<1>1. CdpInv => RoutedSessionIsKnown BY DEF CdpInv, Known, ClientOK
<1>2. QED BY <1>1, CdpHolds, PTL

------------------------------------------------------------------------------------
(* ActionExecutors: for any actions, desktops and failures, no action clicks or types  *)
(* more than it was asked to, and a dispatched web action leaves nothing pressed.     *)
Keys == {"none", "left", "right", "Enter", "ArrowDown", "ctrl", "shift", ToString(1), ToString(2)}
Dos == {"move", "press", "release", "wheel", "keydown", "keyup", "focus", "clear", "select", "dialog", "modal"}
Commands(x) == [do : Dos, at : {0, 2, x}, key : Keys]
Downs == {"press", "keydown"}
Ups == {"release", "keyup"}

(* What goes down comes up later in the same sequence.                              *)
ComesUp(k, s, n) == \E j \in 1..Len(s) : j > n /\ s[j].do \in Ups /\ s[j].key = k
Balanced(s) == \A i \in 1..Len(s) : s[i].do \in Downs => ComesUp(s[i].key, s, i)

(* The places where a button is pressed, and that there are at most n of them.       *)
Pressing(s) == {i \in 1..Len(s) : s[i].do = "press"}
AtMost(n, places) ==
  \/ n = 0 /\ places = {}
  \/ n = 1 /\ \A i, j \in places : i = j
  \/ n = 2 /\ \A i, j, k \in places : i = j \/ j = k \/ i = k

InputOK(in) ==
  /\ in = [held |-> in.held, clicks |-> in.clicks, keys |-> in.keys, events |-> in.events]
  /\ in.clicks \in Seq({"cover", "target", "page"}) /\ in.keys \in Seq(Keys)

ClickBound == IF order.type = "DOUBLE_CLICK" THEN 2 ELSE 1
ClicksLeft(places) == \E n \in 0..2 : AtMost(n, places) /\ Len(input.clicks) + n <= ClickBound

(* Of a web action the commands that are left; typing never gets past the first.     *)
WebSending ==
  IF order.type = "TYPE" THEN todo # <<>> /\ Head(todo).do = "focus" /\ input = NoInput
  ELSE /\ \E x : todo \in Seq(Commands(x))
       /\ Balanced(todo) /\ \A k \in input.held : ComesUp(k, todo, 0)
       /\ ClicksLeft(Pressing(todo))

(* Of a native action the calls of SendInput that are left.                         *)
NativeSending ==
  /\ \E x : todo \in Seq(Seq(Commands(x)))
  /\ \A i \in 1..Len(todo) : AtMost(1, Pressing(todo[i]))
  /\ ClicksLeft({i \in 1..Len(todo) : Pressing(todo[i]) # {}})
  /\ order.type = "TYPE" =>
       \/ todo \in {<<<<Bring>>, Chars(order.text)>>, <<Chars(order.text)>>} /\ input.keys = <<>>
       \/ todo = <<>>

ExecutorInv ==
  /\ ExecutorTypeOK /\ InputOK(input) /\ AskedOnce
  /\ pc \in {"asked", "sampled", "hit"} => input = NoInput /\ todo = <<>>
  /\ pc \in {"hit", "fallback"} => order.plane = "web"
  /\ pc = "sending" => IF order.plane = "web" THEN WebSending ELSE NativeSending
  /\ receipt.status = "DISPATCHED" => pc = "done"
  /\ NothingLeftDown

----------------------------------------------------------------------------
(* The commands of an action *)

LEMMA CommandsAre ==
  ASSUME NEW x, NEW k \in Keys, NEW y \in {0, 2, x}, NEW s \in {"focus", "clear", "select", "dialog", "modal"}
  PROVE  /\ Move(y) \in Commands(x) /\ Press(k, y) \in Commands(x) /\ Release(k, y) \in Commands(x)
         /\ Wheel(y) \in Commands(x) /\ KeyDown(k) \in Commands(x) /\ KeyUp(k) \in Commands(x)
         /\ Script(s) \in Commands(x)
  BY DEF Commands, Move, Press, Release, Wheel, KeyDown, KeyUp, Script, Dos, Keys

LEMMA CharsAre ==
  ASSUME NEW x, NEW text \in Seq({1, 2})
  PROVE  /\ Chars(text) \in Seq(Commands(x)) /\ Len(Chars(text)) = 2 * Len(text)
         /\ \A i \in 1..Len(Chars(text)) : Chars(text)[i].do = IF i % 2 = 1 THEN "keydown" ELSE "keyup"
<1>1. PICK c : c = Chars(text)
      OBVIOUS
<1>2. PICK n : n = 2 * Len(text)
      OBVIOUS
<1>3. n \in Nat /\ Len(text) \in Nat /\ n = 2 * Len(text)
      BY <1>2
<1>4. c = [i \in 1..n |-> IF i % 2 = 1 THEN KeyDown(ToString(text[(i + 1) \div 2])) ELSE KeyUp(ToString(text[i \div 2]))]
      BY <1>1, <1>2 DEF Chars
<1>5. ASSUME NEW i \in 1..n
      PROVE  c[i] \in Commands(x) /\ c[i].do = IF i % 2 = 1 THEN "keydown" ELSE "keyup"
  <2>1. CASE i % 2 = 1
    <3>1. (i + 1) \div 2 \in 1..Len(text)
          BY <1>3, <2>1
    <3>2. PICK k : k = ToString(text[(i + 1) \div 2])
          OBVIOUS
    <3>3. k \in Keys
          BY <3>1, <3>2 DEF Keys
    <3>4. c[i] = KeyDown(k)
          BY <1>4, <2>1, <3>2
    <3> QED BY <2>1, <3>3, <3>4, CommandsAre DEF KeyDown
  <2>2. CASE i % 2 # 1
    <3>1. i \div 2 \in 1..Len(text)
          BY <1>3, <2>2
    <3>2. PICK k : k = ToString(text[i \div 2])
          OBVIOUS
    <3>3. k \in Keys
          BY <3>1, <3>2 DEF Keys
    <3>4. c[i] = KeyUp(k)
          BY <1>4, <2>2, <3>2
    <3> QED BY <2>2, <3>3, <3>4, CommandsAre DEF KeyUp
  <2> QED BY <2>1, <2>2
<1>6. c \in [1..n -> Commands(x)]
      BY <1>4, <1>5
<1>7. c \in Seq(Commands(x)) /\ Len(c) = n
      BY <1>3, <1>6
<1> QED BY <1>1, <1>2, <1>5, <1>7

LEMMA JoinIs ==
  ASSUME NEW S, NEW a \in Seq(S), NEW b \in Seq(S), NEW c, c = a \o b
  PROVE  /\ c \in Seq(S) /\ Len(c) = Len(a) + Len(b)
         /\ \A i \in 1..(Len(a) + Len(b)) : c[i] = IF i <= Len(a) THEN a[i] ELSE b[i - Len(a)]
  BY ConcatProperties

LEMMA ShortcutIs ==
  ASSUME NEW x, NEW k \in {"Enter", "ArrowDown"}, NEW mods \in Seq({"ctrl", "shift"}),
         NEW c, c = KeyboardShortcut(k, mods)
  PROVE  /\ c \in Seq(Commands(x)) /\ Len(c) = 2 * Len(mods) + 2
         /\ \A i \in 1..Len(mods) : c[i] = KeyDown(mods[i]) /\ c[2 * Len(mods) + 3 - i] = KeyUp(mods[i])
         /\ c[Len(mods) + 1] = KeyDown(k) /\ c[Len(mods) + 2] = KeyUp(k)
<1>1. PICK n : n = Len(mods)
      OBVIOUS
<1>2. n \in Nat /\ \A i \in 1..n : mods[i] \in Keys
      BY <1>1 DEF Keys
<1>3. PICK d : d = [i \in 1..n |-> KeyDown(mods[i])]
      OBVIOUS
<1>4. PICK u : u = [i \in 1..n |-> KeyUp(mods[i])]
      OBVIOUS
<1>5. d \in Seq(Commands(x)) /\ Len(d) = n /\ u \in Seq(Commands(x)) /\ Len(u) = n
  <2>1. \A i \in 1..n : KeyDown(mods[i]) \in Commands(x) /\ KeyUp(mods[i]) \in Commands(x)
        BY <1>2, CommandsAre
  <2> QED BY <1>2, <1>3, <1>4, <2>1
<1>6. PICK r : r = Reverse(u)
      OBVIOUS
<1>7. r \in Seq(Commands(x)) /\ Len(r) = n /\ \A i \in 1..n : r[i] = u[n - i + 1]
  <2>1. r = [i \in 1..n |-> u[(n - i) + 1]]
        BY <1>5, <1>6 DEF Reverse
  <2>2. \A i \in 1..n : u[(n - i) + 1] \in Commands(x)
        BY <1>2, <1>5
  <2> QED BY <1>2, <2>1, <2>2
<1>8. PICK p : p = KeyPress(k)
      OBVIOUS
<1>9. k \in Keys
      BY DEF Keys
<1>10. p \in Seq(Commands(x)) /\ Len(p) = 2 /\ p[1] = KeyDown(k) /\ p[2] = KeyUp(k)
      BY <1>8, <1>9, CommandsAre DEF KeyPress
<1>11. PICK dp : dp = d \o p
      OBVIOUS
<1>12. dp \in Seq(Commands(x)) /\ Len(dp) = n + 2
       /\ \A i \in 1..(n + 2) : dp[i] = IF i <= n THEN d[i] ELSE p[i - n]
  <2>1. /\ dp \in Seq(Commands(x)) /\ Len(dp) = Len(d) + Len(p)
        /\ \A i \in 1..(Len(d) + Len(p)) : dp[i] = IF i <= Len(d) THEN d[i] ELSE p[i - Len(d)]
    <3>1. d \in Seq(Commands(x)) /\ p \in Seq(Commands(x))
          BY <1>5, <1>10
    <3> QED BY <1>11, <3>1, JoinIs
  <2> QED BY <1>5, <1>10, <2>1
<1>13. c = dp \o r
      BY <1>1, <1>3, <1>4, <1>6, <1>8, <1>11 DEF KeyboardShortcut
<1>14. c \in Seq(Commands(x)) /\ Len(c) = n + 2 + n
       /\ \A i \in 1..(n + 2 + n) : c[i] = IF i <= n + 2 THEN dp[i] ELSE r[i - (n + 2)]
  <2>1. /\ c \in Seq(Commands(x)) /\ Len(c) = Len(dp) + Len(r)
        /\ \A i \in 1..(Len(dp) + Len(r)) : c[i] = IF i <= Len(dp) THEN dp[i] ELSE r[i - Len(dp)]
    <3>1. dp \in Seq(Commands(x)) /\ r \in Seq(Commands(x))
          BY <1>7, <1>12
    <3> QED BY <1>13, <3>1, JoinIs
  <2> QED BY <1>7, <1>12, <2>1
<1>15. ASSUME NEW i \in 1..n
       PROVE  c[i] = KeyDown(mods[i]) /\ c[2 * n + 3 - i] = KeyUp(mods[i])
  <2>1. c[i] = dp[i] /\ dp[i] = d[i]
        BY <1>2, <1>12, <1>14
  <2>2. c[2 * n + 3 - i] = r[n + 1 - i]
        BY <1>2, <1>14
  <2>3. r[n + 1 - i] = u[i]
        BY <1>2, <1>7
  <2> QED BY <1>3, <1>4, <2>1, <2>2, <2>3
<1>16. c[n + 1] = KeyDown(k) /\ c[n + 2] = KeyUp(k)
  <2>1. n + 1 \in 1..(n + 2) /\ n + 2 \in 1..(n + 2) /\ n + 1 \in 1..(n + 2 + n) /\ n + 2 \in 1..(n + 2 + n)
        BY <1>2
  <2>2. c[n + 1] = dp[n + 1] /\ c[n + 2] = dp[n + 2]
        BY <1>2, <1>14, <2>1
  <2>3. dp[n + 1] = p[(n + 1) - n] /\ dp[n + 2] = p[(n + 2) - n]
        BY <1>2, <1>12, <2>1
  <2>4. (n + 1) - n = 1 /\ (n + 2) - n = 2
        BY <1>2
  <2>5. dp[n + 1] = p[1] /\ dp[n + 2] = p[2]
        BY <2>3, <2>4
  <2>6. p[1] = KeyDown(k) /\ p[2] = KeyUp(k)
        BY <1>10
  <2> QED BY <2>2, <2>5, <2>6, Zenon
<1>17. c \in Seq(Commands(x)) /\ Len(c) = 2 * n + 2
      BY <1>2, <1>14
<1>18. \A i \in 1..n : c[i] = KeyDown(mods[i]) /\ c[2 * n + 3 - i] = KeyUp(mods[i])
      BY <1>15
<1> QED BY <1>1, <1>16, <1>17, <1>18, Zenon

(* A shortcut presses no button, and every key it holds comes up.                    *)
LEMMA ShortcutBalanced ==
  ASSUME NEW x, NEW k \in {"Enter", "ArrowDown"}, NEW mods \in Seq({"ctrl", "shift"}),
         NEW c, c = KeyboardShortcut(k, mods)
  PROVE  c \in Seq(Commands(x)) /\ Balanced(c) /\ Pressing(c) = {}
<1>1. PICK n : n = Len(mods)
      OBVIOUS
<1>2. /\ n \in Nat /\ c \in Seq(Commands(x)) /\ Len(c) = 2 * n + 2
      /\ \A i \in 1..n : c[i] = KeyDown(mods[i]) /\ c[2 * n + 3 - i] = KeyUp(mods[i])
      /\ c[n + 1] = KeyDown(k) /\ c[n + 2] = KeyUp(k)
  <2>1. n \in Nat
        BY <1>1
  <2> QED BY <1>1, <2>1, ShortcutIs
<1>3. ASSUME NEW i \in 1..Len(c), i > n + 1
      PROVE  c[i].do = "keyup"
  <2>1. CASE i = n + 2
        BY <1>2, <2>1 DEF KeyUp
  <2>2. CASE i # n + 2
    <3>1. PICK j \in 1..n : i = 2 * n + 3 - j
      <4>1. 2 * n + 3 - i \in 1..n /\ i = 2 * n + 3 - (2 * n + 3 - i)
            BY <1>2, <1>3, <2>2
      <4> QED BY <4>1
    <3>2. c[2 * n + 3 - j] = KeyUp(mods[j])
          BY <1>2, <3>1
    <3> QED BY <3>1, <3>2 DEF KeyUp
  <2> QED BY <2>1, <2>2
<1>4. ASSUME NEW i \in 1..Len(c), i <= n + 1
      PROVE  c[i].do = "keydown" /\ ComesUp(c[i].key, c, i)
  <2>1. CASE i = n + 1
    <3>1. n + 2 \in 1..Len(c) /\ n + 2 > i
          BY <1>2, <2>1
    <3>2. c[i].do = "keydown" /\ c[i].key = k /\ c[n + 2].do = "keyup" /\ c[n + 2].key = k
          BY <1>2, <2>1 DEF KeyDown, KeyUp
    <3> QED BY <3>1, <3>2 DEF ComesUp, Ups
  <2>2. CASE i # n + 1
    <3>1. i \in 1..n /\ 2 * n + 3 - i \in 1..Len(c) /\ 2 * n + 3 - i > i
          BY <1>2, <1>4, <2>2
    <3>2. c[i].do = "keydown" /\ c[i].key = mods[i] /\ c[2 * n + 3 - i].do = "keyup" /\ c[2 * n + 3 - i].key = mods[i]
      <4>1. c[i] = KeyDown(mods[i]) /\ c[2 * n + 3 - i] = KeyUp(mods[i])
            BY <1>2, <3>1
      <4> QED BY <4>1 DEF KeyDown, KeyUp
    <3> QED BY <3>1, <3>2 DEF ComesUp, Ups
  <2> QED BY <2>1, <2>2
<1>5. \A i \in 1..Len(c) : i <= n + 1 \/ i > n + 1
      BY <1>2
<1>6. Balanced(c)
      BY <1>3, <1>4, <1>5 DEF Balanced, Downs
<1>7. Pressing(c) = {}
      BY <1>3, <1>4, <1>5 DEF Pressing
<1> QED BY <1>2, <1>6, <1>7

LEMMA Joins ==
  ASSUME NEW m, NEW u, NEW v
  PROVE  <<m>> \o <<u, v>> = <<m, u, v>> /\ <<m>> \o <<u, v>> \o <<u, v>> = <<m, u, v, u, v>>
<1>1. PICK S, a, b, t, f : S = {m, u, v} /\ a = <<m>> /\ b = <<u, v>> /\ t = <<m, u, v>> /\ f = <<m, u, v, u, v>>
      OBVIOUS
<1>2. a \in Seq(S) /\ b \in Seq(S) /\ t \in Seq(S) /\ f \in Seq(S)
      BY <1>1
<1>3. Len(a) = 1 /\ Len(b) = 2 /\ Len(t) = 3 /\ Len(f) = 5
      BY <1>1
<1>4. PICK c, d : c = a \o b /\ d = t \o b
      OBVIOUS
<1>5. c = t
  <2>1. c \in Seq(S) /\ Len(c) = Len(a) + Len(b)
        /\ \A i \in 1..(Len(a) + Len(b)) : c[i] = IF i <= Len(a) THEN a[i] ELSE b[i - Len(a)]
        BY <1>2, <1>4, JoinIs
  <2>2. c[1] = t[1] /\ c[2] = t[2] /\ c[3] = t[3]
        BY <1>1, <1>3, <2>1
  <2>3. Len(c) = Len(t) /\ \A i \in 1..Len(c) : c[i] = t[i]
        BY <1>3, <2>1, <2>2
  <2> QED BY <1>2, <2>1, <2>3, SeqEqual
<1>6. d = f
  <2>1. d \in Seq(S) /\ Len(d) = Len(t) + Len(b)
        /\ \A i \in 1..(Len(t) + Len(b)) : d[i] = IF i <= Len(t) THEN t[i] ELSE b[i - Len(t)]
        BY <1>2, <1>4, JoinIs
  <2>2. d[1] = f[1] /\ d[2] = f[2] /\ d[3] = f[3] /\ d[4] = f[4] /\ d[5] = f[5]
        BY <1>1, <1>3, <2>1
  <2>3. Len(d) = Len(f) /\ \A i \in 1..Len(d) : d[i] = f[i]
        BY <1>3, <2>1, <2>2
  <2> QED BY <1>2, <2>1, <2>3, SeqEqual
<1> QED BY <1>1, <1>4, <1>5, <1>6

(* What the web executor sends for an action other than typing.                      *)
LEMMA WebCommandsAre ==
  ASSUME NEW r \in Request, r.type # "TYPE", NEW x, NEW c, c = WebCommands(r, x)
  PROVE  /\ c \in Seq(Commands(x)) /\ Balanced(c)
         /\ AtMost(IF r.type = "DOUBLE_CLICK" THEN 2 ELSE 1, Pressing(c))
<1>0. "left" \in Keys /\ "right" \in Keys /\ r.key \in Keys
      BY DEF Request, Keys
<1>1. CASE r.type = "CLICK" \/ r.type = "RIGHT_CLICK"
  <2>1. PICK k \in Keys : c = <<Move(x)>> \o Click(k, x)
        BY <1>0, <1>1 DEF WebCommands
  <2>2. c = <<Move(x), Press(k, x), Release(k, x)>>
        BY <2>1, Joins DEF Click
  <2>3. Move(x).do = "move" /\ Press(k, x).do = "press" /\ Release(k, x).do = "release" /\ Press(k, x).key = Release(k, x).key
        BY DEF Move, Press, Release
  <2>4. c \in Seq(Commands(x)) /\ Len(c) = 3
        BY <2>2, CommandsAre
  <2>5. Balanced(c)
        BY <2>2, <2>3, <2>4 DEF Balanced, ComesUp, Downs, Ups
  <2>6. AtMost(1, Pressing(c))
        BY <2>2, <2>3, <2>4 DEF AtMost, Pressing
  <2> QED BY <1>1, <2>4, <2>5, <2>6
<1>2. CASE r.type = "DOUBLE_CLICK"
  <2>1. c = <<Move(x)>> \o Click("left", x) \o Click("left", x)
        BY <1>2 DEF WebCommands
  <2>2. c = <<Move(x), Press("left", x), Release("left", x), Press("left", x), Release("left", x)>>
        BY <2>1, Joins DEF Click
  <2>3. Move(x).do = "move" /\ Press("left", x).do = "press" /\ Release("left", x).do = "release" /\ Press("left", x).key = Release("left", x).key
        BY DEF Move, Press, Release
  <2>4. c \in Seq(Commands(x)) /\ Len(c) = 5
        BY <1>0, <2>2, CommandsAre
  <2>5. Balanced(c)
    <3>1. c[2].key = c[3].key /\ c[4].key = c[5].key /\ c[3].do \in Ups /\ c[5].do \in Ups /\ c[1].do \notin Downs
          BY <2>2, <2>3 DEF Ups, Downs
    <3>2. c[3].do \notin Downs /\ c[5].do \notin Downs
          BY <2>2, <2>3 DEF Ups, Downs
    <3>3. ComesUp(c[2].key, c, 2) /\ ComesUp(c[4].key, c, 4)
          BY <2>4, <3>1 DEF ComesUp
    <3> QED BY <2>4, <3>1, <3>2, <3>3 DEF Balanced
  <2>6. AtMost(2, Pressing(c))
    <3>1. c[1].do # "press" /\ c[3].do # "press" /\ c[5].do # "press"
          BY <2>2, <2>3
    <3>2. Pressing(c) \subseteq {2, 4}
          BY <2>4, <3>1 DEF Pressing
    <3> QED BY <3>2 DEF AtMost
  <2> QED BY <1>2, <2>4, <2>5, <2>6
<1>3. CASE r.type = "DRAG_AND_DROP"
  <2>1. c = <<Move(x), Press("left", x), Move(2), Release("left", 2)>>
        BY <1>3 DEF WebCommands, DragAndDrop
  <2>3. Move(x).do = "move" /\ Move(2).do = "move" /\ Press("left", x).do = "press" /\ Release("left", 2).do = "release" /\ Press("left", x).key = Release("left", 2).key
        BY DEF Move, Press, Release
  <2>4. c \in Seq(Commands(x)) /\ Len(c) = 4
        BY <1>0, <2>1, CommandsAre
  <2>5. Balanced(c)
    <3>1. c[2].key = c[4].key /\ c[4].do \in Ups /\ c[1].do \notin Downs /\ c[3].do \notin Downs /\ c[4].do \notin Downs
          BY <2>1, <2>3 DEF Ups, Downs
    <3>2. ComesUp(c[2].key, c, 2)
          BY <2>4, <3>1 DEF ComesUp
    <3> QED BY <2>4, <3>1, <3>2 DEF Balanced
  <2>6. AtMost(1, Pressing(c))
        BY <2>1, <2>3, <2>4 DEF AtMost, Pressing
  <2> QED BY <1>3, <2>4, <2>5, <2>6
<1>4. CASE r.type = "KEY_PRESS"
  <2>1. c = <<KeyDown(r.key), KeyUp(r.key)>>
        BY <1>4 DEF WebCommands, KeyPress
  <2>3. KeyDown(r.key).do = "keydown" /\ KeyUp(r.key).do = "keyup" /\ KeyUp(r.key).key = KeyDown(r.key).key
        BY DEF KeyDown, KeyUp
  <2>4. c \in Seq(Commands(x)) /\ Len(c) = 2
        BY <1>0, <2>1, CommandsAre
  <2>5. Balanced(c)
        BY <2>1, <2>3, <2>4 DEF Balanced, ComesUp, Downs, Ups
  <2>6. AtMost(1, Pressing(c))
        BY <2>1, <2>3, <2>4 DEF AtMost, Pressing
  <2> QED BY <1>4, <2>4, <2>5, <2>6
<1>5. CASE r.type = "KEYBOARD_SHORTCUT"
  <2>1. c = KeyboardShortcut(r.key, r.mods) /\ r.key \in {"Enter", "ArrowDown"} /\ r.mods \in Seq({"ctrl", "shift"})
        BY <1>5 DEF WebCommands, Request
  <2>2. c \in Seq(Commands(x)) /\ Balanced(c) /\ Pressing(c) = {}
        BY <2>1, ShortcutBalanced
  <2> QED BY <1>5, <2>2 DEF AtMost
<1>6. CASE r.type \in {"HOVER", "DROP", "SELECT", "DIALOG_INTERACTION", "SCROLL", "FOCUS"}
  <2>1. PICK m \in Commands(x) : c = <<m>> /\ m.do \notin {"press", "keydown"}
    <3>1. c = <<Move(x)>> \/ c = <<Release("left", x)>> \/ c = <<Script("select")>> \/ c = <<Script("dialog")>>
          \/ c = <<Wheel(x)>> \/ c = <<Script("focus")>>
          BY <1>6 DEF WebCommands, Drop
    <3>2. Move(x).do = "move" /\ Release("left", x).do = "release" /\ Script("select").do = "select"
          /\ Script("dialog").do = "dialog" /\ Wheel(x).do = "wheel" /\ Script("focus").do = "focus"
          BY DEF Move, Release, Script, Wheel
    <3>3. /\ Move(x) \in Commands(x) /\ Release("left", x) \in Commands(x) /\ Wheel(x) \in Commands(x)
          /\ Script("select") \in Commands(x) /\ Script("dialog") \in Commands(x) /\ Script("focus") \in Commands(x)
          BY <1>0, CommandsAre
    <3> QED BY <3>1, <3>2, <3>3
  <2>2. c \in Seq(Commands(x)) /\ Len(c) = 1 /\ c[1] = m
        BY <2>1
  <2> QED BY <1>6, <2>1, <2>2 DEF Balanced, Downs, Pressing, AtMost
<1>7. CASE r.type \in {"FILE_PICKER", "WAIT"}
  <2>1. c = <<>>
        BY <1>7 DEF WebCommands, FilePicker
  <2> QED BY <1>7, <2>1 DEF Balanced, Pressing, AtMost
<1> QED BY <1>1, <1>2, <1>3, <1>4, <1>5, <1>6, <1>7 DEF Request, Types

LEMMA WebTypes ==
  ASSUME NEW r \in Request, r.type = "TYPE", NEW x, NEW c, c = WebCommands(r, x)
  PROVE  c # <<>> /\ Head(c).do = "focus"
<1>1. c = TypeText(r.text, r.clear) /\ r.text \in Seq({1, 2})
      BY DEF WebCommands, Request
<1>2. PICK a, b, d : a = <<Script("focus")>> /\ b = (IF r.clear THEN <<Script("clear")>> ELSE <<>>) /\ d = Chars(r.text)
      OBVIOUS
<1>3. a \in Seq(Commands(x)) /\ b \in Seq(Commands(x)) /\ d \in Seq(Commands(x)) /\ Len(a) = 1
  <2>1. Script("focus") \in Commands(x) /\ Script("clear") \in Commands(x)
        BY CommandsAre DEF Keys
  <2>2. d \in Seq(Commands(x))
        BY <1>1, <1>2, CharsAre
  <2> QED BY <1>2, <2>1, <2>2
<1>4. PICK ab : ab = a \o b
      OBVIOUS
<1>5. ab \in Seq(Commands(x)) /\ Len(ab) >= 1 /\ ab[1] = a[1]
  <2>1. ab \in Seq(Commands(x)) /\ Len(ab) = Len(a) + Len(b)
        /\ \A i \in 1..(Len(a) + Len(b)) : ab[i] = IF i <= Len(a) THEN a[i] ELSE b[i - Len(a)]
    <3>1. a \in Seq(Commands(x)) /\ b \in Seq(Commands(x))
          BY <1>3
    <3> QED BY <1>4, <3>1, JoinIs
  <2> QED BY <1>3, <2>1
<1>6. c = ab \o d
      BY <1>1, <1>2, <1>4 DEF TypeText
<1>7. c \in Seq(Commands(x)) /\ Len(c) >= 1 /\ c[1] = a[1]
  <2>1. c \in Seq(Commands(x)) /\ Len(c) = Len(ab) + Len(d)
        /\ \A i \in 1..(Len(ab) + Len(d)) : c[i] = IF i <= Len(ab) THEN ab[i] ELSE d[i - Len(ab)]
    <3>1. ab \in Seq(Commands(x)) /\ d \in Seq(Commands(x))
          BY <1>3, <1>5
    <3> QED BY <1>6, <3>1, JoinIs
  <2> QED BY <1>3, <1>5, <2>1
<1>8. Head(c) = Script("focus")
      BY <1>2, <1>7
<1> QED BY <1>7, <1>8 DEF Script

(* The calls of the native executor.                                                 *)
CallsPress(r, c) ==
  /\ \A i \in 1..Len(c) : AtMost(1, Pressing(c[i]))
  /\ AtMost(IF r.type = "DOUBLE_CLICK" THEN 2 ELSE 1, {i \in 1..Len(c) : Pressing(c[i]) # {}})

LEMMA QuietCall ==
  ASSUME NEW x, NEW m \in Commands(x), m.do # "press"
  PROVE  <<m>> \in Seq(Commands(x)) /\ Pressing(<<m>>) = {} /\ AtMost(1, Pressing(<<m>>))
<1>1. PICK s : s = <<m>>
      OBVIOUS
<1>2. s \in Seq(Commands(x)) /\ Len(s) = 1 /\ s[1] = m
      BY <1>1
<1>3. Pressing(s) = {}
      BY <1>2 DEF Pressing
<1> QED BY <1>1, <1>2, <1>3 DEF AtMost

LEMMA ClickCall ==
  ASSUME NEW x, NEW k \in Keys, NEW y \in {0, 2, x}
  PROVE  Click(k, y) \in Seq(Commands(x)) /\ AtMost(1, Pressing(Click(k, y)))
<1>1. PICK s : s = Click(k, y)
      OBVIOUS
<1>2. PICK p, q \in Commands(x) : s = <<p, q>> /\ q.do = "release"
  <2>1. Press(k, y) \in Commands(x) /\ Release(k, y) \in Commands(x)
        BY CommandsAre DEF Dos
  <2>2. Release(k, y).do = "release"
        BY DEF Release
  <2> QED BY <1>1, <2>1, <2>2 DEF Click
<1>3. s \in Seq(Commands(x)) /\ Len(s) = 2 /\ s[2] = q
      BY <1>2
<1>4. AtMost(1, Pressing(s))
      BY <1>2, <1>3 DEF AtMost, Pressing
<1> QED BY <1>1, <1>3, <1>4

LEMMA PressCall ==
  ASSUME NEW x, NEW m \in Commands(x)
  PROVE  <<m>> \in Seq(Commands(x)) /\ AtMost(1, Pressing(<<m>>))
<1>1. PICK s : s = <<m>>
      OBVIOUS
<1>2. s \in Seq(Commands(x)) /\ Len(s) = 1
      BY <1>1
<1>3. AtMost(1, Pressing(s))
      BY <1>2 DEF AtMost, Pressing
<1> QED BY <1>1, <1>2, <1>3

LEMMA PressKeyQuiet ==
  ASSUME NEW x, NEW k \in {"Enter", "ArrowDown"}, NEW mods \in Seq({"ctrl", "shift"})
  PROVE  PressKey(k, mods) \in Seq(Commands(x)) /\ Pressing(PressKey(k, mods)) = {} /\ AtMost(1, Pressing(PressKey(k, mods)))
  BY ShortcutBalanced DEF PressKey, ResolveVk, AtMost

LEMMA CharsQuiet ==
  ASSUME NEW x, NEW text \in Seq({1, 2})
  PROVE  Chars(text) \in Seq(Commands(x)) /\ Pressing(Chars(text)) = {} /\ AtMost(1, Pressing(Chars(text)))
  BY CharsAre DEF AtMost, Pressing

LEMMA OneCall ==
  ASSUME NEW T, NEW r, NEW a \in T, AtMost(1, Pressing(a))
  PROVE  <<a>> \in Seq(T) /\ CallsPress(r, <<a>>)
<1>1. PICK c : c = <<a>>
      OBVIOUS
<1>2. c \in Seq(T) /\ Len(c) = 1 /\ c[1] = a
      BY <1>1
<1>3. CallsPress(r, c)
      BY <1>2 DEF CallsPress, AtMost
<1> QED BY <1>1, <1>2, <1>3

LEMMA TwoCalls ==
  ASSUME NEW T, NEW r, NEW a \in T, NEW b \in T, Pressing(a) = {}, AtMost(1, Pressing(b))
  PROVE  <<a, b>> \in Seq(T) /\ CallsPress(r, <<a, b>>)
<1>1. PICK c : c = <<a, b>>
      OBVIOUS
<1>2. c \in Seq(T) /\ Len(c) = 2 /\ c[1] = a /\ c[2] = b
      BY <1>1
<1>3. {i \in 1..Len(c) : Pressing(c[i]) # {}} \subseteq {2} /\ AtMost(1, Pressing(c[1])) /\ AtMost(1, Pressing(c[2]))
      BY <1>2 DEF AtMost
<1>4. CallsPress(r, c)
      BY <1>2, <1>3 DEF CallsPress, AtMost
<1> QED BY <1>1, <1>2, <1>4

LEMMA NativeCallsAre ==
  ASSUME NEW r \in Request, r.type \notin Unsupported, NEW x, NEW c, c = NativeCalls(r, x)
  PROVE  /\ c \in Seq(Seq(Commands(x))) /\ CallsPress(r, c)
         /\ r.type = "TYPE" => c = <<<<Bring>>, Chars(r.text)>>
<1>0. /\ "left" \in Keys /\ "right" \in Keys /\ r.key \in {"Enter", "ArrowDown"}
      /\ r.text \in Seq({1, 2}) /\ r.mods \in Seq({"ctrl", "shift"})
      BY DEF Request, Keys
<1>1. PICK move, bring, wheel : move = <<Move(x)>> /\ bring = <<Bring>> /\ wheel = <<Wheel(x)>>
      OBVIOUS
<1>2. /\ move \in Seq(Commands(x)) /\ Pressing(move) = {} /\ AtMost(1, Pressing(move))
      /\ bring \in Seq(Commands(x)) /\ Pressing(bring) = {} /\ AtMost(1, Pressing(bring))
      /\ wheel \in Seq(Commands(x)) /\ Pressing(wheel) = {} /\ AtMost(1, Pressing(wheel))
  <2>1. Move(x) \in Commands(x) /\ Wheel(x) \in Commands(x) /\ Bring \in Commands(x)
        BY <1>0, CommandsAre DEF Bring
  <2>2. Move(x).do = "move" /\ Wheel(x).do = "wheel" /\ Bring.do = "focus"
        BY DEF Move, Wheel, Bring, Script
  <2> QED BY <1>1, <2>1, <2>2, QuietCall
<1>3. CASE r.type \in {"CLICK", "RIGHT_CLICK"}
  <2>1. PICK k \in Keys : c = <<move, Click(k, x)>>
        BY <1>0, <1>1, <1>3 DEF NativeCalls
  <2>2. Click(k, x) \in Seq(Commands(x)) /\ AtMost(1, Pressing(Click(k, x)))
        BY ClickCall
  <2> QED BY <1>2, <1>3, <2>1, <2>2, TwoCalls
<1>4. CASE r.type = "DOUBLE_CLICK"
  <2>1. PICK k : k = Click("left", x)
        OBVIOUS
  <2>2. c = <<move, k, k>>
        BY <1>1, <1>4, <2>1 DEF NativeCalls
  <2>3. k \in Seq(Commands(x)) /\ AtMost(1, Pressing(k))
        BY <1>0, <2>1, ClickCall
  <2>4. c \in Seq(Seq(Commands(x))) /\ Len(c) = 3 /\ c[1] = move /\ c[2] = k /\ c[3] = k
        BY <1>2, <2>2, <2>3
  <2>5. {i \in 1..Len(c) : Pressing(c[i]) # {}} \subseteq {2, 3}
        BY <1>2, <2>4
  <2>6. \A i \in 1..Len(c) : AtMost(1, Pressing(c[i]))
    <3>1. AtMost(1, Pressing(c[1])) /\ AtMost(1, Pressing(c[2])) /\ AtMost(1, Pressing(c[3]))
          BY <1>2, <2>3, <2>4
    <3> QED BY <2>4, <3>1
  <2>7. AtMost(2, {i \in 1..Len(c) : Pressing(c[i]) # {}})
        BY <2>5 DEF AtMost
  <2> QED BY <1>4, <2>4, <2>6, <2>7 DEF CallsPress
<1>5. CASE r.type = "HOVER"
      BY <1>1, <1>2, <1>5, OneCall DEF NativeCalls
<1>6. CASE r.type = "TYPE"
  <2>1. c = <<bring, Chars(r.text)>>
        BY <1>1, <1>6 DEF NativeCalls
  <2>2. Chars(r.text) \in Seq(Commands(x)) /\ AtMost(1, Pressing(Chars(r.text)))
        BY <1>0, CharsQuiet
  <2>3. c \in Seq(Seq(Commands(x))) /\ CallsPress(r, c)
        BY <1>2, <2>1, <2>2, TwoCalls
  <2> QED BY <1>1, <2>1, <2>3
<1>7. CASE r.type \in {"KEY_PRESS", "KEYBOARD_SHORTCUT"}
  <2>1. c = <<bring, PressKey(r.key, r.mods)>>
        BY <1>1, <1>7 DEF NativeCalls
  <2>2. PressKey(r.key, r.mods) \in Seq(Commands(x)) /\ AtMost(1, Pressing(PressKey(r.key, r.mods)))
        BY <1>0, PressKeyQuiet
  <2> QED BY <1>2, <1>7, <2>1, <2>2, TwoCalls
<1>8. CASE r.type = "DRAG_AND_DROP"
  <2>1. PICK d : d = DragAndDrop(x)
        OBVIOUS
  <2>2. PICK m, p, n, u \in Commands(x) : d = <<m, p, n, u>> /\ m.do = "move" /\ n.do = "move" /\ u.do = "release"
    <3>1. Move(x) \in Commands(x) /\ Press("left", x) \in Commands(x) /\ Move(2) \in Commands(x) /\ Release("left", 2) \in Commands(x)
          BY <1>0, CommandsAre
    <3>2. Move(x).do = "move" /\ Move(2).do = "move" /\ Release("left", 2).do = "release"
          BY DEF Move, Release
    <3> QED BY <2>1, <3>1, <3>2 DEF DragAndDrop
  <2>3. c = [i \in 1..4 |-> <<d[i]>>]
        BY <1>8, <2>1 DEF NativeCalls
  <2>4. c[1] = <<m>> /\ c[2] = <<p>> /\ c[3] = <<n>> /\ c[4] = <<u>>
        BY <2>2, <2>3
  <2>5. \A i \in 1..4 : c[i] \in Seq(Commands(x)) /\ AtMost(1, Pressing(c[i])) /\ (i # 2 => Pressing(c[i]) = {})
    <3>1. /\ <<m>> \in Seq(Commands(x)) /\ AtMost(1, Pressing(<<m>>)) /\ Pressing(<<m>>) = {}
          /\ <<n>> \in Seq(Commands(x)) /\ AtMost(1, Pressing(<<n>>)) /\ Pressing(<<n>>) = {}
          /\ <<u>> \in Seq(Commands(x)) /\ AtMost(1, Pressing(<<u>>)) /\ Pressing(<<u>>) = {}
          BY <2>2, QuietCall
    <3>2. <<p>> \in Seq(Commands(x)) /\ AtMost(1, Pressing(<<p>>))
          BY PressCall
    <3>3. \A i \in 1..4 : i = 1 \/ i = 2 \/ i = 3 \/ i = 4
          OBVIOUS
    <3> QED BY <2>4, <3>1, <3>2, <3>3
  <2>6. c \in Seq(Seq(Commands(x))) /\ Len(c) = 4
        BY <2>3, <2>5
  <2> QED BY <1>8, <2>5, <2>6 DEF CallsPress, AtMost
<1>9. CASE r.type = "SCROLL"
      BY <1>1, <1>2, <1>9, TwoCalls DEF NativeCalls
<1>10. CASE r.type = "FOCUS"
      BY <1>1, <1>2, <1>10, OneCall DEF NativeCalls
<1>11. CASE r.type = "DIALOG_INTERACTION"
  <2>1. Script("modal") \in Commands(x) /\ Script("modal").do # "press"
        BY <1>0, CommandsAre DEF Script
  <2>2. c = <<<<Script("modal")>>>>
        BY <1>11 DEF NativeCalls
  <2>3. PICK q : q = <<Script("modal")>>
        OBVIOUS
  <2>4. q \in Seq(Commands(x)) /\ AtMost(1, Pressing(q))
        BY <2>1, <2>3, QuietCall
  <2> QED BY <1>11, <2>2, <2>3, <2>4, OneCall
<1>12. CASE r.type = "WAIT"
  <2>1. c = <<>>
        BY <1>12 DEF NativeCalls
  <2> QED BY <1>12, <2>1 DEF CallsPress, AtMost
<1> QED BY <1>3, <1>4, <1>5, <1>6, <1>7, <1>8, <1>9, <1>10, <1>11, <1>12 DEF Request, Types, Unsupported

----------------------------------------------------------------------------
(* What the input becomes *)

LEMMA ReceivedIs ==
  ASSUME NEW in, InputOK(in), NEW x, NEW c \in Commands(x), NEW r, r = Received(in, c)
  PROVE  /\ InputOK(r)
         /\ r.held = CASE c.do \in Downs -> in.held \cup {c.key} [] c.do \in Ups -> in.held \ {c.key} [] OTHER -> in.held
         /\ Len(r.clicks) = Len(in.clicks) + IF c.do = "press" THEN 1 ELSE 0
         /\ Len(r.keys) = Len(in.keys) + IF c.do = "keydown" THEN 1 ELSE 0
<1>1. PICK held, clicks, keys, number :
        in = [held |-> held, clicks |-> clicks, keys |-> keys, events |-> number]
      BY DEF InputOK
<1>2. clicks \in Seq({"cover", "target", "page"}) /\ keys \in Seq(Keys)
      BY <1>1 DEF InputOK
<1>3. PICK e, u : e = [in EXCEPT !.events = @ + 1] /\ u = Under(c.at)
      OBVIOUS
<1>4. e = [held |-> held, clicks |-> clicks, keys |-> keys, events |-> number + 1]
      BY <1>1, <1>3
<1>5. u \in {"cover", "target", "page"} /\ c.key \in Keys
      BY <1>3 DEF Under, Commands
<1>6. CASE c.do = "press"
  <2>1. r = [e EXCEPT !.held = @ \cup {c.key}, !.clicks = Append(@, u)]
        BY <1>3, <1>6 DEF Received
  <2>2. r = [held |-> held \cup {c.key}, clicks |-> Append(clicks, u), keys |-> keys, events |-> number + 1]
        BY <1>4, <2>1
  <2>3. Append(clicks, u) \in Seq({"cover", "target", "page"}) /\ Len(Append(clicks, u)) = Len(clicks) + 1
        BY <1>2, <1>5
  <2>4. r.held = held \cup {c.key} /\ r.clicks = Append(clicks, u) /\ r.keys = keys
        BY <2>2
  <2>5. InputOK(r)
        BY <1>2, <2>2, <2>3, <2>4 DEF InputOK
  <2>6. in.held = held /\ in.clicks = clicks /\ in.keys = keys /\ Len(keys) \in Nat
        BY <1>1, <1>2
  <2> QED BY <1>6, <2>3, <2>4, <2>5, <2>6 DEF Downs, Ups
<1>7. CASE c.do = "keydown"
  <2>1. r = [e EXCEPT !.held = @ \cup {c.key}, !.keys = Append(@, c.key)]
        BY <1>3, <1>7 DEF Received
  <2>2. r = [held |-> held \cup {c.key}, clicks |-> clicks, keys |-> Append(keys, c.key), events |-> number + 1]
        BY <1>4, <2>1
  <2>3. Append(keys, c.key) \in Seq(Keys) /\ Len(Append(keys, c.key)) = Len(keys) + 1
        BY <1>2, <1>5
  <2>4. r.held = held \cup {c.key} /\ r.keys = Append(keys, c.key) /\ r.clicks = clicks
        BY <2>2
  <2>5. InputOK(r)
        BY <1>2, <2>2, <2>3, <2>4 DEF InputOK
  <2>6. in.held = held /\ in.clicks = clicks /\ in.keys = keys /\ Len(clicks) \in Nat
        BY <1>1, <1>2
  <2> QED BY <1>7, <2>3, <2>4, <2>5, <2>6 DEF Downs, Ups
<1>8. CASE c.do \in Ups
  <2>1. r = [e EXCEPT !.held = @ \ {c.key}]
        BY <1>3, <1>8 DEF Received, Ups
  <2>2. r = [held |-> held \ {c.key}, clicks |-> clicks, keys |-> keys, events |-> number + 1]
        BY <1>4, <2>1
  <2> QED BY <1>1, <1>2, <1>8, <2>2 DEF InputOK, Downs, Ups
<1>9. CASE c.do \notin Downs \cup Ups
  <2>1. r = e
        BY <1>3, <1>9 DEF Received, Downs, Ups
  <2> QED BY <1>1, <1>2, <1>4, <1>9, <2>1 DEF InputOK, Downs, Ups
<1> QED BY <1>6, <1>7, <1>8, <1>9 DEF Downs, Ups

(* Event by event, what a call leaves of the input.                                   *)
After(inputs, n, f) == f = [i \in 0..n |-> IF i = 0 THEN input ELSE Received(f[i - 1], inputs[i])]

LEMMA AfterExists == ASSUME NEW inputs, NEW n \in Nat PROVE \E f : After(inputs, n, f)
<1> DEFINE T == {i \in Nat : ~\E f : After(inputs, i, f)}
<1>1. SUFFICES ASSUME T # {} PROVE FALSE
      BY DEF T
<1>2. PICK m \in T : \A j \in T : m <= j
      BY <1>1, Least
<1>3. m # 0
  <2>1. After(inputs, 0, [i \in 0..0 |-> input])
        BY DEF After
  <2> QED BY <2>1
<1>4. m - 1 \in Nat /\ m - 1 \notin T
      BY <1>2, <1>3
<1>5. PICK f : After(inputs, m - 1, f)
      BY <1>4
<1>6. PICK h : h = [i \in 0..m |-> IF i = m THEN Received(f[m - 1], inputs[m]) ELSE f[i]]
      OBVIOUS
<1>7. ASSUME NEW i \in 0..m
      PROVE  h[i] = IF i = 0 THEN input ELSE Received(h[i - 1], inputs[i])
  <2>1. CASE i = m
    <3>1. h[m - 1] = f[m - 1] /\ h[m] = Received(f[m - 1], inputs[m])
          BY <1>3, <1>4, <1>6
    <3> QED BY <1>3, <2>1, <3>1
  <2>2. CASE i # m
    <3>1. i \in 0..(m - 1)
          BY <1>4, <2>2
    <3>2. f[i] = IF i = 0 THEN input ELSE Received(f[i - 1], inputs[i])
          BY <1>5, <3>1 DEF After
    <3>3. h[i] = f[i]
          BY <1>6, <2>2
    <3>4. i # 0 => h[i - 1] = f[i - 1]
          BY <1>4, <1>6, <3>1
    <3> QED BY <3>2, <3>3, <3>4
  <2> QED BY <2>1, <2>2
<1>8. After(inputs, m, h)
      BY <1>6, <1>7 DEF After
<1> QED BY <1>2, <1>8

(* Before event i + 1 of a call at most one button was pressed and every other event     *)
(* was a key going down.                                                             *)
Pressed(sent, i) == IF \E j \in Pressing(sent) : j <= i THEN 1 ELSE 0
Good(sent, in, i) ==
  /\ InputOK(in)
  /\ Len(in.clicks) <= Len(input.clicks) + Pressed(sent, i)
  /\ \A text \in Seq({1, 2}) : sent = Chars(text) => 2 * Len(in.keys) <= 2 * Len(input.keys) + i + 1

LEMMA GoodStep ==
  ASSUME InputOK(input), NEW x, NEW sent \in Seq(Commands(x)), AtMost(1, Pressing(sent)),
         NEW m \in 1..Len(sent), NEW in, Good(sent, in, m - 1), NEW r, r = Received(in, sent[m])
  PROVE  Good(sent, r, m)
<1>0. m \in Nat /\ Len(input.clicks) \in Nat /\ Len(input.keys) \in Nat
      BY DEF InputOK
<1>1. sent[m] \in Commands(x) /\ InputOK(in)
      BY DEF Good
<1>2. PICK c : c = sent[m]
      OBVIOUS
<1>3. InputOK(r) /\ Len(r.clicks) = Len(in.clicks) + (IF c.do = "press" THEN 1 ELSE 0)
      /\ Len(r.keys) = Len(in.keys) + IF c.do = "keydown" THEN 1 ELSE 0
  <2>1. c \in Commands(x) /\ r = Received(in, c) /\ InputOK(in)
        BY <1>1, <1>2
  <2> QED BY <2>1, ReceivedIs
<1>4. Len(in.clicks) \in Nat /\ Len(in.keys) \in Nat
      BY <1>1 DEF InputOK
<1>5. Len(in.clicks) <= Len(input.clicks) + Pressed(sent, m - 1)
      BY DEF Good
<1>6. Len(r.clicks) <= Len(input.clicks) + Pressed(sent, m)
  <2>1. CASE c.do = "press"
    <3>1. m \in Pressing(sent)
          BY <1>2, <2>1 DEF Pressing
    <3>2. \A j \in Pressing(sent) : j = m
          BY <3>1 DEF AtMost
    <3>3. Pressed(sent, m - 1) = 0 /\ Pressed(sent, m) = 1
          BY <1>0, <3>1, <3>2 DEF Pressed
    <3> QED BY <1>0, <1>3, <1>4, <1>5, <2>1, <3>3
  <2>2. CASE c.do # "press"
    <3>1. \A j \in Pressing(sent) : j \in Nat /\ (j <= m - 1 => j <= m)
          BY <1>0 DEF Pressing
    <3>2. Pressed(sent, m - 1) \in {0, 1} /\ Pressed(sent, m) \in {0, 1} /\ Pressed(sent, m - 1) <= Pressed(sent, m)
          BY <3>1 DEF Pressed
    <3> QED BY <1>0, <1>3, <1>4, <1>5, <2>2, <3>2
  <2> QED BY <2>1, <2>2
<1>7. ASSUME NEW text \in Seq({1, 2}), sent = Chars(text)
      PROVE  2 * Len(r.keys) <= 2 * Len(input.keys) + m + 1
  <2>1. 2 * Len(in.keys) <= 2 * Len(input.keys) + (m - 1) + 1
        BY <1>7 DEF Good
  <2>2. c.do = IF m % 2 = 1 THEN "keydown" ELSE "keyup"
        BY <1>2, <1>7, CharsAre
  <2>3. PICK a, b \in Nat : a = Len(in.keys) /\ b = Len(input.keys)
        BY <1>0, <1>4
  <2>4. 2 * a <= 2 * b + m
        BY <1>0, <2>1, <2>3
  <2>5. m % 2 = 1 => 2 * a <= 2 * b + m - 1
    <3>1. m % 2 = 1 => 2 * a # 2 * b + m
          BY <1>0
    <3> QED BY <1>0, <2>4, <3>1
  <2>6. CASE m % 2 = 1
    <3>1. Len(r.keys) = a + 1
          BY <1>3, <2>2, <2>3, <2>6
    <3> QED BY <1>0, <2>3, <2>5, <2>6, <3>1
  <2>7. CASE m % 2 # 1
    <3>1. Len(r.keys) = a
          BY <1>3, <2>2, <2>3, <2>7
    <3> QED BY <1>0, <2>3, <2>4, <3>1
  <2> QED BY <2>6, <2>7
<1> QED BY <1>3, <1>6, <1>7 DEF Good

LEMMA InsertedIs ==
  ASSUME InputOK(input), NEW x, NEW sent \in Seq(Commands(x)), AtMost(1, Pressing(sent)),
         NEW n \in 0..Len(sent), NEW r, r = Inserted(sent, n)
  PROVE  Good(sent, r, n)
<1>0. n \in Nat /\ Len(sent) \in Nat /\ Len(input.clicks) \in Nat /\ Len(input.keys) \in Nat
      BY DEF InputOK
<1>1. PICK f : f = CHOOSE g : After(sent, n, g)
      OBVIOUS
<1>2. After(sent, n, f)
      BY <1>0, <1>1, AfterExists
<1>3. r = f[n]
      BY <1>1 DEF Inserted, After
<1>4. f[0] = input /\ \A i \in 1..n : f[i] = Received(f[i - 1], sent[i])
      BY <1>0, <1>2 DEF After
<1> DEFINE T == {i \in 0..n : ~Good(sent, f[i], i)}
<1>5. Good(sent, f[0], 0)
  <2>1. Len(input.clicks) <= Len(input.clicks) + Pressed(sent, 0)
    <3>1. Pressed(sent, 0) = 0 \/ Pressed(sent, 0) = 1
          BY DEF Pressed
    <3> QED BY <1>0, <3>1
  <2> QED BY <1>0, <1>4, <2>1 DEF Good
<1>6. CASE T # {}
  <2>1. T \in SUBSET Nat
        BY <1>0
  <2>2. PICK m \in T : \A j \in T : m <= j
    <3> HIDE DEF T
    <3> QED BY <1>6, <2>1, Least
  <2>3. m \in 0..n /\ ~Good(sent, f[m], m)
        BY <2>2
  <2>4. m # 0
        BY <1>5, <2>3
  <2>5. m \in 1..n /\ m - 1 \in 0..n /\ m - 1 \notin T
        BY <1>0, <2>2, <2>3, <2>4
  <2>6. Good(sent, f[m - 1], m - 1)
        BY <2>5
  <2>7. m \in 1..Len(sent) /\ f[m] = Received(f[m - 1], sent[m])
        BY <1>0, <1>4, <2>5
  <2> QED BY <2>3, <2>6, <2>7, GoodStep
<1>7. CASE T = {}
  <2>1. n \in 0..n
        BY <1>0
  <2> QED BY <1>3, <1>7, <2>1
<1> QED BY <1>6, <1>7

----------------------------------------------------------------------------
(* The steps *)

LEMMA Shift ==
  ASSUME NEW P, NEW Q, P \subseteq Nat, Q \subseteq Nat \ {0}, \A j \in Q : j + 1 \in P, NEW n \in 0..2, AtMost(n, P)
  PROVE  AtMost(n, Q) /\ (1 \in P => n > 0 /\ AtMost(n - 1, Q))
<1>1. \A i, j \in Q : i + 1 = j + 1 => i = j
      OBVIOUS
<1>2. \A i \in Q : i + 1 # 1
      OBVIOUS
<1>3. CASE n = 0
      BY <1>3 DEF AtMost
<1>4. CASE n = 1
      BY <1>1, <1>2, <1>4 DEF AtMost
<1>5. CASE n = 2
      BY <1>1, <1>2, <1>5 DEF AtMost
<1> QED BY <1>3, <1>4, <1>5

LEMMA TailIs ==
  ASSUME NEW S, NEW s \in Seq(S), s # <<>>, NEW t, t = Tail(s)
  PROVE  /\ t \in Seq(S) /\ Len(s) \in Nat \ {0} /\ Len(t) = Len(s) - 1 /\ Head(s) = s[1] /\ s[1] \in S
         /\ \A j \in 1..Len(t) : t[j] = s[j + 1] /\ j + 1 \in 1..Len(s)
<1>1. /\ t \in Seq(S) /\ Len(s) \in Nat \ {0} /\ Len(t) = Len(s) - 1 /\ Head(s) = s[1]
      BY EmptySeq
<1>2. s[1] \in S
      BY <1>1
<1>3. \A j \in 1..Len(t) : t[j] = s[j + 1] /\ j + 1 \in 1..Len(s)
      BY <1>1
<1> QED BY <1>1, <1>2, <1>3

LEMMA SendingKept ==
  ASSUME UNCHANGED <<todo, input, order>>
  PROVE  (WebSending => WebSending') /\ (NativeSending => NativeSending')
<1>1. ClickBound' = ClickBound
      BY DEF ClickBound
<1>2. WebSending => WebSending'
      BY <1>1 DEF WebSending, ClicksLeft
<1>3. NativeSending => NativeSending'
      BY <1>1 DEF NativeSending, ClicksLeft
<1> QED BY <1>2, <1>3

LEMMA Requested == ASSUME ExecutorTypeOK PROVE order \in Request
  BY ExecutorAssumption DEF ExecutorTypeOK

LEMMA NothingYet ==
  ASSUME input = NoInput
  PROVE  InputOK(input) /\ input.held = {} /\ Len(input.clicks) = 0 /\ input.keys = <<>> /\ Len(input.keys) = 0
  BY DEF NoInput, InputOK

LEMMA WebBegun ==
  ASSUME ExecutorInv, input = NoInput, NEW x, todo' = WebCommands(order, x), UNCHANGED <<order, input>>
  PROVE  WebSending'
<1>1. order \in Request
      BY Requested DEF ExecutorInv
<1>2. CASE order.type = "TYPE"
  <2>1. todo' # <<>> /\ Head(todo').do = "focus"
        BY <1>1, <1>2, WebTypes
  <2> QED BY <1>2, <2>1 DEF WebSending
<1>3. CASE order.type # "TYPE"
  <2>1. /\ todo' \in Seq(Commands(x)) /\ Balanced(todo')
        /\ AtMost(IF order.type = "DOUBLE_CLICK" THEN 2 ELSE 1, Pressing(todo'))
        BY <1>1, <1>3, WebCommandsAre
  <2>2. input'.held = {} /\ Len(input'.clicks) = 0
        BY NothingYet
  <2>3. \E n \in 0..2 : AtMost(n, Pressing(todo')) /\ Len(input'.clicks) + n <= ClickBound'
        BY <2>1, <2>2 DEF ClickBound
  <2> QED BY <1>3, <2>1, <2>2, <2>3 DEF WebSending, ClicksLeft
<1> QED BY <1>2, <1>3

LEMMA NativeBegun ==
  ASSUME ExecutorInv, input = NoInput, NEW x, todo' = NativeCalls(order, x), order.type \notin Unsupported,
         UNCHANGED <<order, input>>
  PROVE  NativeSending'
<1>1. order \in Request
      BY Requested DEF ExecutorInv
<1>2. /\ todo' \in Seq(Seq(Commands(x))) /\ CallsPress(order, todo')
      /\ order.type = "TYPE" => todo' = <<<<Bring>>, Chars(order.text)>>
      BY <1>1, NativeCallsAre
<1>3. Len(input'.clicks) = 0 /\ input'.keys = <<>>
      BY NothingYet
<1>4. \E n \in 0..2 : /\ AtMost(n, {i \in 1..Len(todo') : Pressing(todo'[i]) # {}})
                      /\ Len(input'.clicks) + n <= ClickBound'
      BY <1>2, <1>3 DEF CallsPress, ClickBound
<1> QED BY <1>2, <1>3, <1>4 DEF NativeSending, ClicksLeft, CallsPress

(* One command more has reached the page.                                             *)
LEMMA WebCarried ==
  ASSUME WebSending, order.type # "TYPE", InputOK(input), todo # <<>>, UNCHANGED order,
         input' = Received(input, Head(todo))
  PROVE  /\ InputOK(input') /\ Len(input'.clicks) <= ClickBound
         /\ todo' = Tail(todo) => WebSending'
<1>1. PICK x : todo \in Seq(Commands(x))
      BY DEF WebSending
<1>2. PICK t : t = Tail(todo)
      OBVIOUS
<1>3. /\ t \in Seq(Commands(x)) /\ Len(todo) \in Nat \ {0} /\ Len(t) = Len(todo) - 1
      /\ Head(todo) = todo[1] /\ todo[1] \in Commands(x)
      /\ \A j \in 1..Len(t) : t[j] = todo[j + 1] /\ j + 1 \in 1..Len(todo)
      BY <1>1, <1>2, TailIs
<1>4. PICK c \in Commands(x) : c = todo[1] /\ input' = Received(input, c)
      BY <1>3
<1>5. /\ InputOK(input')
      /\ input'.held = CASE c.do \in Downs -> input.held \cup {c.key} [] c.do \in Ups -> input.held \ {c.key}
                         [] OTHER -> input.held
      /\ Len(input'.clicks) = Len(input.clicks) + IF c.do = "press" THEN 1 ELSE 0
  <2>1. PICK r : r = input'
        OBVIOUS
  <2>2. r = Received(input, c)
        BY <1>4, <2>1
  <2>3. /\ InputOK(r)
        /\ r.held = CASE c.do \in Downs -> input.held \cup {c.key} [] c.do \in Ups -> input.held \ {c.key}
                       [] OTHER -> input.held
        /\ Len(r.clicks) = Len(input.clicks) + IF c.do = "press" THEN 1 ELSE 0
        BY <2>2, ReceivedIs
  <2>4. InputOK(input')
        BY <2>1, <2>3 DEF InputOK
  <2> QED BY <2>1, <2>3, <2>4
<1>6. Len(input.clicks) \in Nat /\ ClickBound' = ClickBound
      BY DEF InputOK, ClickBound
<1>7. PICK n \in 0..2 : AtMost(n, Pressing(todo)) /\ Len(input.clicks) + n <= ClickBound
      BY DEF WebSending, ClicksLeft
<1>8. AtMost(n, Pressing(t)) /\ (c.do = "press" => n > 0 /\ AtMost(n - 1, Pressing(t)))
  <2>1. Pressing(todo) \subseteq Nat /\ Pressing(t) \subseteq Nat \ {0} /\ \A j \in Pressing(t) : j + 1 \in Pressing(todo)
        BY <1>3 DEF Pressing
  <2>2. c.do = "press" => 1 \in Pressing(todo)
        BY <1>3, <1>4 DEF Pressing
  <2> QED BY <1>7, <2>1, <2>2, Shift
<1>9. PICK m \in 0..2 : AtMost(m, Pressing(t)) /\ Len(input'.clicks) + m <= ClickBound
  <2>1. CASE c.do = "press"
    <3>1. n - 1 \in 0..2 /\ Len(input'.clicks) + (n - 1) <= ClickBound
          BY <1>5, <1>6, <1>7, <1>8, <2>1 DEF ClickBound
    <3> QED BY <1>8, <2>1, <3>1
  <2>2. CASE c.do # "press"
        BY <1>5, <1>6, <1>7, <1>8, <2>2
  <2> QED BY <2>1, <2>2
<1>10. Len(input'.clicks) <= ClickBound
  <2>1. Len(input'.clicks) \in Nat
        BY <1>5 DEF InputOK
  <2> QED BY <1>9, <2>1 DEF ClickBound
<1>11. ASSUME NEW k, NEW i \in 0..Len(t), ComesUp(k, todo, i + 1)
       PROVE  ComesUp(k, t, i)
  <2>1. PICK j \in 1..Len(todo) : j > i + 1 /\ todo[j].do \in Ups /\ todo[j].key = k
        BY <1>11 DEF ComesUp
  <2>2. j - 1 \in 1..Len(t) /\ j - 1 > i /\ t[j - 1] = todo[j]
    <3>1. j - 1 \in 1..Len(t) /\ j - 1 > i
          BY <1>3, <2>1
    <3>2. t[j - 1] = todo[(j - 1) + 1]
          BY <1>3, <3>1
    <3> QED BY <2>1, <3>1, <3>2
  <2> QED BY <2>1, <2>2 DEF ComesUp
<1>12. Balanced(t)
  <2>1. ASSUME NEW i \in 1..Len(t), t[i].do \in Downs
        PROVE  ComesUp(t[i].key, t, i)
    <3>1. t[i] = todo[i + 1] /\ i + 1 \in 1..Len(todo)
          BY <1>3
    <3>2. ComesUp(todo[i + 1].key, todo, i + 1)
          BY <2>1, <3>1 DEF WebSending, Balanced
    <3> QED BY <1>11, <3>1, <3>2
  <2> QED BY <2>1 DEF Balanced
<1>13. ASSUME NEW k \in input'.held
       PROVE  ComesUp(k, t, 0)
  <2>1. 1 \in 1..Len(todo) /\ 0 \in 0..Len(t)
        BY <1>3
  <2>2. CASE c.do \in Downs /\ k = c.key
    <3>1. ComesUp(k, todo, 1)
          BY <1>4, <2>1, <2>2 DEF WebSending, Balanced
    <3> QED BY <1>11, <2>1, <3>1
  <2>3. CASE ~(c.do \in Downs /\ k = c.key)
    <3>1. k \in input.held /\ ~(c.do \in Ups /\ k = c.key)
          BY <1>5, <1>13, <2>3 DEF Downs, Ups
    <3>2. ComesUp(k, todo, 0)
          BY <3>1 DEF WebSending
    <3>3. PICK j \in 1..Len(todo) : todo[j].do \in Ups /\ todo[j].key = k
          BY <3>2 DEF ComesUp
    <3>4. j # 1
          BY <1>4, <3>1, <3>3
    <3>5. ComesUp(k, todo, 1)
          BY <3>3, <3>4 DEF ComesUp
    <3> QED BY <1>11, <2>1, <3>5
  <2> QED BY <2>2, <2>3
<1>14. ASSUME todo' = Tail(todo)
       PROVE  WebSending'
  <2>1. todo' = t
        BY <1>2, <1>14
  <2>2. ClicksLeft(Pressing(todo))'
        BY <1>6, <1>9, <2>1 DEF ClicksLeft
  <2> QED BY <1>3, <1>12, <1>13, <2>1, <2>2 DEF WebSending
<1> QED BY <1>5, <1>10, <1>14

(* Whatever ends an action that was not dispatched.                                   *)
LEMMA EndsInv ==
  ASSUME ExecutorInv, UNCHANGED <<page, boundEpoch, connected, moves, order, failures, desk, input>>,
         NEW s \in {"REJECTED", "FAILED", "raised"},
         NEW m \in {"none", "CDP_INPUT", "NATIVE_SENDINPUT"}, Ends(s, m)
  PROVE  ExecutorInv'
<1>1. receipt' = [status |-> s, method |-> m] /\ pc' = "done" /\ todo' = <<>> /\ receipt'.status = s
      BY DEF Ends
<1>2. ExecutorTypeOK'
      BY <1>1 DEF ExecutorInv, ExecutorTypeOK, Statuses, IsDesktop
<1>3. InputOK(input)' /\ AskedOnce'
      BY DEF ExecutorInv, InputOK, AskedOnce
<1> QED BY <1>1, <1>2, <1>3 DEF ExecutorInv, NothingLeftDown

LEMMA MethodIs == Method \in {"none", "CDP_INPUT", "NATIVE_SENDINPUT"}
  BY DEF Method

(* The action is about to be sent.                                                    *)
LEMMA SendingInv ==
  ASSUME ExecutorInv, UNCHANGED <<page, boundEpoch, connected, moves, order, failures, desk, input, receipt>>,
         pc' = "sending", pc \in {"asked", "sampled", "hit"},
         IF order.plane = "web" THEN WebSending' ELSE NativeSending'
  PROVE  ExecutorInv'
<1>1. ExecutorTypeOK'
      BY DEF ExecutorInv, ExecutorTypeOK, IsDesktop
<1>2. InputOK(input)' /\ AskedOnce'
      BY DEF ExecutorInv, InputOK, AskedOnce
<1>3. receipt'.status # "DISPATCHED"
      BY DEF ExecutorInv
<1> QED BY <1>1, <1>2, <1>3 DEF ExecutorInv, NothingLeftDown

LEMMA WebExecuteInv ==
  ASSUME ExecutorInv, UNCHANGED <<page, boundEpoch, connected, moves, order, failures, desk, input>>,
         pc \in {"asked", "sampled", "hit"}, order.plane = "web", NEW g, WebExecute(g)
  PROVE  ExecutorInv'
<1>1. CASE Ends("REJECTED", Method) \/ Ends("FAILED", Method)
      BY <1>1, EndsInv, MethodIs
<1>2. CASE todo' = WebCommands(order, g.point) /\ pc' = "sending" /\ UNCHANGED receipt
  <2>1. input = NoInput
        BY DEF ExecutorInv
  <2>2. WebSending'
        BY <1>2, <2>1, WebBegun
  <2> QED BY <1>2, <2>2, SendingInv
<1> QED BY <1>1, <1>2 DEF WebExecute

LEMMA NativeExecuteInv ==
  ASSUME ExecutorInv, UNCHANGED <<page, boundEpoch, connected, moves, order, failures, desk, input>>,
         pc \in {"asked", "sampled"}, order.plane = "native", NEW g, NativeExecute(g)
  PROVE  ExecutorInv'
<1>1. CASE Ends("REJECTED", Method) \/ Ends("FAILED", Method)
      BY <1>1, EndsInv, MethodIs
<1>2. CASE /\ todo' = NativeCalls(order, g.point) /\ pc' = "sending" /\ UNCHANGED receipt
           /\ order.type \notin Unsupported
  <2>1. input = NoInput
        BY DEF ExecutorInv
  <2>2. NativeSending'
        BY <1>2, <2>1, NativeBegun
  <2> QED BY <1>2, <2>2, SendingInv
<1> QED BY <1>1, <1>2 DEF NativeExecute

(* A step of the gates.                                                               *)
LEMMA GatesInv ==
  ASSUME ExecutorInv, UNCHANGED <<page, boundEpoch, connected, moves, order, failures, desk, input, receipt, todo>>,
         pc \in {"asked", "sampled"}, pc' \in {"sampled", "hit"}, pc' = "hit" => order.plane = "web"
  PROVE  ExecutorInv'
<1>1. ExecutorTypeOK'
      BY DEF ExecutorInv, ExecutorTypeOK, IsDesktop
<1>2. InputOK(input)' /\ AskedOnce'
      BY DEF ExecutorInv, InputOK, AskedOnce
<1>3. receipt'.status # "DISPATCHED"
      BY DEF ExecutorInv
<1>4. input' = NoInput' /\ todo' = <<>>
      BY DEF ExecutorInv, NoInput
<1> QED BY <1>1, <1>2, <1>3, <1>4 DEF ExecutorInv, NothingLeftDown

LEMMA BeginsInv == ASSUME ExecutorInv, WebBegins \/ WebSampled \/ WebResampled \/ WebTested PROVE ExecutorInv'
<1> USE DEF surroundings
<1>1. CASE WebBegins
  <2>1. CASE boundEpoch # 1 \/ ~connected
        BY <1>1, <2>1, WebExecuteInv DEF WebBegins
  <2>2. CASE Ends("raised", "none")
        BY <1>1, <2>2, EndsInv DEF WebBegins
  <2>3. CASE pc' = "sampled" /\ UNCHANGED <<todo, receipt>>
        BY <1>1, <2>3, GatesInv DEF WebBegins
  <2> QED BY <1>1, <2>1, <2>2, <2>3 DEF WebBegins
<1>2. CASE WebSampled
      BY <1>2, GatesInv DEF WebSampled
<1>3. CASE WebResampled
  <2>1. CASE pc' = "hit" /\ UNCHANGED <<todo, receipt>>
        BY <1>3, <2>1, GatesInv DEF WebResampled
  <2>2. CASE WebExecute(gate)
        BY <1>3, <2>2, WebExecuteInv DEF WebResampled
  <2> QED BY <1>3, <2>1, <2>2 DEF WebResampled
<1>4. CASE WebTested
  <2>1. PICK g : WebExecute(g)
        BY <1>4 DEF WebTested
  <2>2. order.plane = "web"
        BY <1>4 DEF WebTested, ExecutorInv
  <2> QED BY <1>4, <2>1, <2>2, WebExecuteInv DEF WebTested
<1> QED BY <1>1, <1>2, <1>3, <1>4

LEMMA NativeGatesInv == ASSUME ExecutorInv, NativeBegins \/ NativeSampled PROVE ExecutorInv'
<1> USE DEF surroundings
<1>1. CASE NativeBegins
  <2>1. CASE NativeExecute(NoGate)
        BY <1>1, <2>1, NativeExecuteInv DEF NativeBegins
  <2>2. CASE pc' = "sampled" /\ UNCHANGED <<todo, receipt>>
        BY <1>1, <2>2, GatesInv DEF NativeBegins
  <2> QED BY <1>1, <2>1, <2>2 DEF NativeBegins
<1>2. CASE NativeSampled
  <2>1. CASE Ends("raised", "none")
        BY <1>2, <2>1, EndsInv DEF NativeSampled
  <2>2. CASE \E g : NativeExecute(g)
        BY <1>2, <2>2, NativeExecuteInv DEF NativeSampled
  <2> QED BY <1>2, <2>1, <2>2 DEF NativeSampled
<1> QED BY <1>1, <1>2

LEMMA WorldInv == ASSUME ExecutorInv, WorldChanges PROVE ExecutorInv'
<1>1. moves' \in 0..MaxMoves
      BY ExecutorAssumption DEF WorldChanges, ExecutorInv, ExecutorTypeOK
<1>2. page' \in [at : 1..3, found : BOOLEAN, shown : BOOLEAN, disabled : BOOLEAN, framed : BOOLEAN, over : SUBSET {1, 2}]
  <2>0. page \in [at : 1..3, found : BOOLEAN, shown : BOOLEAN, disabled : BOOLEAN, framed : BOOLEAN, over : SUBSET {1, 2}]
        BY DEF ExecutorInv, ExecutorTypeOK
  <2>1. CASE page' = [page EXCEPT !.at = 2] \/ page' = [page EXCEPT !.at = 3]
        BY <2>0, <2>1
  <2>2. CASE page' = [page EXCEPT !.found = FALSE]
        BY <2>0, <2>2
  <2>3. CASE page' = [page EXCEPT !.shown = FALSE]
        BY <2>0, <2>3
  <2>4. CASE page' = [page EXCEPT !.framed = FALSE]
        BY <2>0, <2>4
  <2>5. CASE page' = [page EXCEPT !.over = {1, 2}]
        BY <2>0, <2>5
  <2>6. CASE page' = page
        BY <2>0, <2>6
  <2> QED BY <2>1, <2>2, <2>3, <2>4, <2>5, <2>6 DEF WorldChanges
<1>3. IsDesktop(desk')
  <2>1. CASE desk' \in Desktops
        BY <2>1, ExecutorAssumption
  <2>2. CASE desk' = desk
        BY <2>2 DEF ExecutorInv, ExecutorTypeOK
  <2> QED BY <2>1, <2>2 DEF WorldChanges
<1>4. boundEpoch' \in 1..2 /\ connected' \in BOOLEAN
  <2>1. (boundEpoch' = boundEpoch \/ boundEpoch' = 2) /\ (connected' = connected \/ connected' = FALSE)
        BY DEF WorldChanges
  <2>2. boundEpoch \in 1..2 /\ connected \in BOOLEAN
        BY DEF ExecutorInv, ExecutorTypeOK
  <2>3. boundEpoch' \in 1..2
        BY <2>1, <2>2
  <2>4. connected' \in BOOLEAN
        BY <2>1, <2>2, Zenon
  <2> QED BY <2>3, <2>4
<1>5. UNCHANGED <<order, pc, gate, todo, input, receipt, failures>>
      BY DEF WorldChanges
<1>6. ExecutorTypeOK'
      BY <1>1, <1>2, <1>3, <1>4, <1>5 DEF ExecutorInv, ExecutorTypeOK
<1>7. InputOK(input)' /\ AskedOnce' /\ NothingLeftDown'
      BY <1>5 DEF ExecutorInv, InputOK, AskedOnce, NothingLeftDown
<1>8. (WebSending => WebSending') /\ (NativeSending => NativeSending') /\ (input = NoInput => input' = NoInput')
      BY <1>5, SendingKept DEF NoInput
<1> QED BY <1>5, <1>6, <1>7, <1>8 DEF ExecutorInv

LEMMA SendInv == ASSUME ExecutorInv, Send PROVE ExecutorInv'
<1>0. /\ pc = "sending" /\ order.plane = "web" /\ todo # <<>> /\ WebSending /\ InputOK(input)
      /\ UNCHANGED <<page, desk, boundEpoch, connected, moves, order, gate, receipt>>
      /\ receipt.status # "DISPATCHED"
      BY DEF Send, surroundings, ExecutorInv
<1>1. ExecutorTypeOK'
  <2>1. failures' \in 0..MaxFailures /\ pc' \in {"sending", "fallback"}
        BY <1>0, ExecutorAssumption DEF Send, ExecutorInv, ExecutorTypeOK
  <2> QED BY <1>0, <2>1 DEF ExecutorInv, ExecutorTypeOK, IsDesktop
<1>2. CASE Refused(Head(todo)) \/ ~connected
  <2>1. pc' = "fallback" /\ UNCHANGED input
        BY <1>2 DEF Send
  <2>2. InputOK(input)' /\ AskedOnce'
        BY <1>0, <2>1 DEF ExecutorInv, InputOK, AskedOnce
  <2> QED BY <1>0, <1>1, <2>1, <2>2 DEF ExecutorInv, NothingLeftDown
<1>3. CASE ~Refused(Head(todo)) /\ connected
  <2>1. order.type # "TYPE"
        BY <1>0, <1>3 DEF WebSending, Refused, FocusThrows, HasLower
  <2>2. CASE Carried /\ todo' = Tail(todo) /\ pc' = pc
    <3>1. InputOK(input') /\ Len(input'.clicks) <= ClickBound /\ WebSending'
          BY <1>0, <2>1, <2>2, WebCarried DEF Carried
    <3>2. AskedOnce'
          BY <1>0, <2>1, <3>1 DEF AskedOnce, ClickBound
    <3> QED BY <1>0, <1>1, <2>2, <3>1, <3>2 DEF ExecutorInv, NothingLeftDown, InputOK
  <2>3. CASE Carried /\ pc' = "fallback"
    <3>1. InputOK(input') /\ Len(input'.clicks) <= ClickBound
          BY <1>0, <2>1, <2>3, WebCarried DEF Carried
    <3>2. AskedOnce'
          BY <1>0, <2>1, <3>1 DEF AskedOnce, ClickBound
    <3> QED BY <1>0, <1>1, <2>3, <3>1, <3>2 DEF ExecutorInv, NothingLeftDown, InputOK
  <2>4. CASE UNCHANGED input /\ pc' = "fallback"
    <3>1. InputOK(input)' /\ AskedOnce'
          BY <1>0, <2>4 DEF ExecutorInv, InputOK, AskedOnce
    <3> QED BY <1>0, <1>1, <2>4, <3>1 DEF ExecutorInv, NothingLeftDown
  <2> QED BY <1>3, <2>2, <2>3, <2>4 DEF Send
<1> QED BY <1>2, <1>3

LEMMA DispatchedInv ==
  ASSUME ExecutorInv, pc = "sending", todo = <<>>,
         UNCHANGED <<page, desk, boundEpoch, connected, moves, order, gate, input, failures>>,
         NEW m \in {"CDP_INPUT", "NATIVE_SENDINPUT"}, Ends("DISPATCHED", m)
  PROVE  ExecutorInv'
<1>1. receipt' = [status |-> "DISPATCHED", method |-> m] /\ pc' = "done" /\ todo' = <<>>
      BY DEF Ends
<1>2. ExecutorTypeOK'
      BY <1>1 DEF ExecutorInv, ExecutorTypeOK, Statuses, IsDesktop
<1>3. InputOK(input)' /\ AskedOnce'
      BY DEF ExecutorInv, InputOK, AskedOnce
<1>4. order.plane = "web" => input.held = {}
  <2>1. \A k : ~ComesUp(k, todo, 0)
        BY DEF ComesUp
  <2> QED BY <2>1, NothingYet DEF ExecutorInv, WebSending
<1> QED BY <1>1, <1>2, <1>3, <1>4 DEF ExecutorInv, NothingLeftDown

LEMMA DoneInv == ASSUME ExecutorInv, WebSent \/ NativeSent \/ Fallback PROVE ExecutorInv'
<1>1. CASE WebSent \/ NativeSent
      BY <1>1, DispatchedInv DEF WebSent, NativeSent, surroundings
<1>2. CASE Fallback
      BY <1>2, EndsInv DEF Fallback, surroundings, HasLower
<1> QED BY <1>1, <1>2

----------------------------------------------------------------------------
(* A call of SendInput *)

LEMMA RaisedDesk == ASSUME NEW d, IsDesktop(d), NEW h PROVE IsDesktop(BringToForeground(d, h))
<1>1. PICK w, o, f : d = [win |-> w, order |-> o, front |-> f] /\ w \in [DOMAIN w -> Window]
      BY DEF IsDesktop
<1>2. PICK q, p : q = Raised(d, h) /\ p = BringToForeground(d, h)
      OBVIOUS
<1>3. PICK o2 : q = [win |-> w, order |-> o2, front |-> h]
      BY <1>1, <1>2 DEF Raised
<1>4. CASE p = [q EXCEPT !.win[h].iconic = FALSE]
  <2>1. PICK v : v = [w[h] EXCEPT !.iconic = FALSE]
        OBVIOUS
  <2>2. PICK u : u = [w EXCEPT ![h] = v]
        OBVIOUS
  <2>3. p = [win |-> u, order |-> o2, front |-> h]
        BY <1>3, <1>4, <2>1, <2>2
  <2>4. h \in DOMAIN w => v \in Window
    <3>1. ASSUME h \in DOMAIN w PROVE w[h] \in Window
          BY <1>1, <3>1
    <3>2. ASSUME NEW s \in Window PROVE [s EXCEPT !.iconic = FALSE] \in Window
          BY DEF Window
    <3> QED BY <2>1, <3>1, <3>2
  <2>5. u \in [DOMAIN u -> Window]
        BY <1>1, <2>2, <2>4
  <2> QED BY <1>2, <2>3, <2>5 DEF IsDesktop
<1> QED BY <1>2, <1>4 DEF BringToForeground

(* The first n events of a call are in, and the calls behind it are left.                *)
LEMMA NativeInserted ==
  ASSUME NativeSending, InputOK(input), todo # <<>>, UNCHANGED order, NEW t, t = Tail(todo),
         NEW n \in 0..Len(Head(todo)), input' = input \/ input' = Inserted(Head(todo), n)
  PROVE  /\ InputOK(input') /\ Len(input'.clicks) <= ClickBound
         /\ \E x : t \in Seq(Seq(Commands(x)))
         /\ \A i \in 1..Len(t) : AtMost(1, Pressing(t[i]))
         /\ \E m \in 0..2 : AtMost(m, {i \in 1..Len(t) : Pressing(t[i]) # {}}) /\ Len(input'.clicks) + m <= ClickBound
<1>1. PICK x : todo \in Seq(Seq(Commands(x)))
      BY DEF NativeSending
<1>2. /\ t \in Seq(Seq(Commands(x))) /\ Len(todo) \in Nat \ {0} /\ Len(t) = Len(todo) - 1
      /\ Head(todo) = todo[1] /\ todo[1] \in Seq(Commands(x))
      /\ \A j \in 1..Len(t) : t[j] = todo[j + 1] /\ j + 1 \in 1..Len(todo)
      BY <1>1, TailIs
<1>3. PICK sent \in Seq(Commands(x)) : sent = todo[1] /\ sent = Head(todo)
      BY <1>2
<1>4. AtMost(1, Pressing(sent)) /\ n \in 0..Len(sent)
      BY <1>2, <1>3 DEF NativeSending
<1>5. Len(input.clicks) \in Nat /\ ClickBound' = ClickBound
      BY DEF InputOK, ClickBound
<1>6. InputOK(input') /\ Len(input'.clicks) <= Len(input.clicks) + IF Pressing(sent) = {} THEN 0 ELSE 1
  <2>1. PICK r : r = input'
        OBVIOUS
  <2>2. CASE r = input
    <3>1. InputOK(input') /\ input' = input
          BY <2>1, <2>2 DEF InputOK
    <3>2. PICK e \in {0, 1} : e = IF Pressing(sent) = {} THEN 0 ELSE 1
          OBVIOUS
    <3>3. Len(input'.clicks) <= Len(input.clicks) + e
          BY <1>5, <3>1
    <3> QED BY <3>1, <3>2, <3>3
  <2>3. CASE r = Inserted(sent, n)
    <3>1. Good(sent, r, n)
          BY <1>4, <2>3, InsertedIs
    <3>2. Pressed(sent, n) = 0 \/ (Pressed(sent, n) = 1 /\ Pressing(sent) # {})
          BY DEF Pressed
    <3>3. InputOK(r) /\ Len(r.clicks) <= Len(input.clicks) + Pressed(sent, n)
          BY <3>1 DEF Good
    <3>4. Len(r.clicks) \in Nat
          BY <3>3 DEF InputOK
    <3>5. InputOK(input')
          BY <2>1, <3>3 DEF InputOK
    <3>6. Len(r.clicks) <= Len(input.clicks) + IF Pressing(sent) = {} THEN 0 ELSE 1
      <4>1. PICK e : e = IF Pressing(sent) = {} THEN 0 ELSE 1
            OBVIOUS
      <4>2. e \in {0, 1} /\ Pressed(sent, n) \in {0, 1} /\ Pressed(sent, n) <= e
            BY <3>2, <4>1
      <4>3. Len(r.clicks) <= Len(input.clicks) + e
            BY <1>5, <3>3, <3>4, <4>2
      <4> QED BY <4>1, <4>3
    <3> QED BY <2>1, <3>5, <3>6
  <2> QED BY <1>3, <2>1, <2>2, <2>3
<1> DEFINE P == {i \in 1..Len(todo) : Pressing(todo[i]) # {}}
           Q == {i \in 1..Len(t) : Pressing(t[i]) # {}}
<1>7. PICK k \in 0..2 : AtMost(k, P) /\ Len(input.clicks) + k <= ClickBound
      BY DEF NativeSending, ClicksLeft
<1>8. AtMost(k, Q) /\ (Pressing(sent) # {} => k > 0 /\ AtMost(k - 1, Q))
  <2>1. P \subseteq Nat /\ Q \subseteq Nat \ {0} /\ \A j \in Q : j + 1 \in P
        BY <1>2
  <2>2. Pressing(sent) # {} => 1 \in P
        BY <1>2, <1>3
  <2> HIDE DEF P, Q
  <2> QED BY <1>7, <2>1, <2>2, Shift
<1>9. Len(input'.clicks) \in Nat
      BY <1>6 DEF InputOK
<1>10. \E m \in 0..2 : AtMost(m, Q) /\ Len(input'.clicks) + m <= ClickBound
  <2> HIDE DEF P, Q
  <2>1. CASE Pressing(sent) # {}
    <3>1. k - 1 \in 0..2 /\ Len(input'.clicks) + (k - 1) <= ClickBound
      <4>1. PICK a, b \in Nat : a = Len(input.clicks) /\ b = Len(input'.clicks)
            BY <1>5, <1>9
      <4>2. b <= a + 1 /\ k > 0 /\ a + k <= ClickBound
            BY <1>6, <1>7, <1>8, <2>1, <4>1
      <4> QED BY <4>1, <4>2 DEF ClickBound
    <3> QED BY <1>8, <2>1, <3>1
  <2>2. CASE Pressing(sent) = {}
    <3>1. Len(input'.clicks) + k <= ClickBound
          BY <1>5, <1>6, <1>7, <1>9, <2>2 DEF ClickBound
    <3> QED BY <1>8, <3>1
  <2> QED BY <2>1, <2>2
<1>11. Len(input'.clicks) <= ClickBound
      BY <1>9, <1>10 DEF ClickBound
<1>12. \A i \in 1..Len(t) : AtMost(1, Pressing(t[i]))
      BY <1>2 DEF NativeSending
<1> QED BY <1>2, <1>6, <1>10, <1>11, <1>12

LEMMA CharsAreNoScript ==
  ASSUME NEW text \in Seq({1, 2}), NEW m
  PROVE  Chars(text) # <<m>>
<1>1. Chars(text) \in Seq(Commands(0)) /\ Len(Chars(text)) = 2 * Len(text) /\ Len(text) \in Nat
      BY CharsAre
<1>2. Len(<<m>>) = 1
      OBVIOUS
<1> QED BY <1>1, <1>2

LEMMA SendNativeInv == ASSUME ExecutorInv, SendNative PROVE ExecutorInv'
<1>0. /\ pc = "sending" /\ order.plane = "native" /\ todo # <<>> /\ NativeSending /\ InputOK(input)
      /\ UNCHANGED <<page, boundEpoch, connected, moves, order, pc, gate, receipt>>
      /\ receipt.status # "DISPATCHED"
      BY DEF SendNative, ExecutorInv
<1>1. order \in Request /\ order.text \in Seq({1, 2})
      BY Requested DEF ExecutorInv, Request
<1>2. PICK sent : sent = Head(todo)
      OBVIOUS
<1>3. ExecutorTypeOK'
  <2>1. failures' \in 0..MaxFailures
        BY <1>2, ExecutorAssumption DEF SendNative, ExecutorInv, ExecutorTypeOK
  <2>2. desk' = desk \/ desk' = BringToForeground(desk, Main)
        BY <1>2 DEF SendNative
  <2>3. IsDesktop(desk')
        BY <2>2, RaisedDesk DEF ExecutorInv, ExecutorTypeOK
  <2> QED BY <1>0, <2>1, <2>3 DEF ExecutorInv, ExecutorTypeOK
<1>4. SUFFICES InputOK(input') /\ AskedOnce' /\ NativeSending'
      BY <1>0, <1>3 DEF ExecutorInv, NothingLeftDown, InputOK
<1>5. \E x : sent \in Seq(Commands(x)) /\ Len(sent) \in Nat
  <2>1. PICK x : todo \in Seq(Seq(Commands(x)))
        BY <1>0 DEF NativeSending
  <2>2. sent \in Seq(Commands(x))
        BY <1>0, <1>2, <2>1
  <2> QED BY <2>2
<1>6. order.type = "TYPE" =>
        /\ input.keys = <<>> /\ sent # <<Script("modal")>>
        /\ \/ sent = <<Bring>> /\ Tail(todo) = <<Chars(order.text)>>
           \/ sent = Chars(order.text) /\ sent # <<Bring>> /\ Tail(todo) = <<>>
  <2>1. ASSUME order.type = "TYPE", todo = <<<<Bring>>, Chars(order.text)>>
        PROVE  sent = <<Bring>> /\ Tail(todo) = <<Chars(order.text)>> /\ sent # <<Script("modal")>>
    <3>1. sent = <<Bring>>
          BY <1>2, <2>1
    <3>2. Bring # Script("modal")
          BY DEF Bring, Script
    <3>3. PICK a, b : a = <<Bring>> /\ b = Chars(order.text)
          OBVIOUS
    <3>4. todo = <<a, b>>
          BY <2>1, <3>3
    <3>5. Tail(todo) = <<b>>
          BY <3>4
    <3> QED BY <3>1, <3>2, <3>3, <3>5
  <2>2. ASSUME order.type = "TYPE", todo = <<Chars(order.text)>>
        PROVE  sent = Chars(order.text) /\ Tail(todo) = <<>> /\ sent # <<Script("modal")>> /\ sent # <<Bring>>
    <3>1. PICK b : b = Chars(order.text)
          OBVIOUS
    <3>2. todo = <<b>>
          BY <2>2, <3>1
    <3>3. Tail(todo) = <<>> /\ sent = b
          BY <1>2, <3>2
    <3> QED BY <1>1, <3>1, <3>3, CharsAreNoScript
  <2> QED BY <1>0, <2>1, <2>2 DEF NativeSending
<1>7. CASE sent = <<Bring>>
  <2>1. todo' = Tail(todo) /\ input' = input
    <3>1. Bring # Script("modal")
          BY DEF Bring, Script
    <3>2. sent # <<Script("modal")>>
          BY <1>7, <3>1
    <3>3. sent \in {<<Bring>>, <<Script("modal")>>}
          BY <1>7, Zenon
    <3> QED BY <1>2, <3>2, <3>3 DEF SendNative
  <2>2. 0 \in 0..Len(sent)
        BY <1>5
  <2>3. /\ InputOK(input') /\ Len(input'.clicks) <= ClickBound
        /\ \E x : todo' \in Seq(Seq(Commands(x)))
        /\ \A i \in 1..Len(todo') : AtMost(1, Pressing(todo'[i]))
        /\ \E m \in 0..2 : AtMost(m, {i \in 1..Len(todo') : Pressing(todo'[i]) # {}}) /\ Len(input'.clicks) + m <= ClickBound
        BY <1>0, <1>2, <2>1, <2>2, NativeInserted
  <2>4. order.type = "TYPE" => todo' = <<Chars(order.text)>> /\ input'.keys = <<>>
        BY <1>1, <1>6, <1>7, <2>1
  <2>5. NativeSending'
        BY <1>0, <2>3, <2>4 DEF NativeSending, ClicksLeft, ClickBound
  <2>6. AskedOnce'
        BY <1>0, <2>1 DEF ExecutorInv, AskedOnce
  <2> QED BY <2>3, <2>5, <2>6
<1>8. CASE sent = <<Script("modal")>>
  <2>0. sent # <<Bring>>
    <3>1. Bring # Script("modal")
          BY DEF Bring, Script
    <3> QED BY <1>8, <3>1
  <2>1. input' = input /\ (todo' = <<>> \/ todo' = <<PressKey("Enter", <<>>)>>)
        BY <1>2, <1>8, <2>0 DEF SendNative
  <2>2. order.type # "TYPE"
        BY <1>6, <1>8
  <2>3. PICK p : p = PressKey("Enter", <<>>)
        OBVIOUS
  <2>4. p \in Seq(Commands(0)) /\ Pressing(p) = {} /\ AtMost(1, Pressing(p))
    <3>1. <<>> \in Seq({"ctrl", "shift"})
          OBVIOUS
    <3> QED BY <2>3, <3>1, PressKeyQuiet
  <2>5. /\ todo' \in Seq(Seq(Commands(0)))
        /\ \A i \in 1..Len(todo') : AtMost(1, Pressing(todo'[i])) /\ Pressing(todo'[i]) = {}
    <3>1. CASE todo' = <<>>
          BY <3>1
    <3>2. CASE todo' = <<p>>
      <4>1. PICK t : t = todo'
            OBVIOUS
      <4>2. t \in Seq(Seq(Commands(0))) /\ Len(t) = 1 /\ t[1] = p
            BY <2>4, <3>2, <4>1
      <4>3. t \in Seq(Seq(Commands(0))) /\ \A i \in 1..Len(t) : AtMost(1, Pressing(t[i])) /\ Pressing(t[i]) = {}
        <5>1. \A i \in 1..Len(t) : t[i] = p
              BY <4>2
        <5> QED BY <2>4, <4>2, <5>1
      <4> QED BY <4>1, <4>3
    <3> QED BY <2>1, <2>3, <3>1, <3>2
  <2>6. Len(input'.clicks) <= ClickBound'
        BY <1>0, <2>1 DEF ExecutorInv, AskedOnce, ClickBound
  <2>7. Len(input'.clicks) + 0 <= ClickBound' /\ AtMost(0, {i \in 1..Len(todo') : Pressing(todo'[i]) # {}})
    <3>1. Len(input'.clicks) \in Nat
          BY <1>0, <2>1 DEF InputOK
    <3>2. {i \in 1..Len(todo') : Pressing(todo'[i]) # {}} = {}
          BY <2>5
    <3>3. Len(input'.clicks) + 0 <= ClickBound'
          BY <2>6, <3>1
    <3> QED BY <3>2, <3>3 DEF AtMost
  <2>8. NativeSending'
        BY <1>0, <2>2, <2>5, <2>7 DEF NativeSending, ClicksLeft
  <2>9. AskedOnce' /\ InputOK(input')
        BY <1>0, <2>1 DEF ExecutorInv, AskedOnce
  <2> QED BY <2>8, <2>9
<1>9. CASE sent # <<Bring>> /\ sent # <<Script("modal")>>
  <2>1. todo' = Tail(todo) /\ \E n \in 0..Len(sent) : input' = Inserted(sent, n)
    <3>1. Len(sent) \in 0..Len(sent) /\ 0..(Len(sent) - 1) \subseteq 0..Len(sent)
          BY <1>5
    <3> QED BY <1>2, <1>9, <3>1 DEF SendNative
  <2>2. PICK n \in 0..Len(sent) : input' = Inserted(sent, n)
        BY <2>1
  <2>3. /\ InputOK(input') /\ Len(input'.clicks) <= ClickBound
        /\ \E x : todo' \in Seq(Seq(Commands(x)))
        /\ \A i \in 1..Len(todo') : AtMost(1, Pressing(todo'[i]))
        /\ \E m \in 0..2 : AtMost(m, {i \in 1..Len(todo') : Pressing(todo'[i]) # {}}) /\ Len(input'.clicks) + m <= ClickBound
        BY <1>0, <1>2, <2>1, <2>2, NativeInserted
  <2>4. order.type = "TYPE" => todo' = <<>> /\ Len(input'.keys) <= Len(order.text)
    <3> SUFFICES ASSUME order.type = "TYPE" PROVE todo' = <<>> /\ Len(input'.keys) <= Len(order.text)
        OBVIOUS
    <3>1. sent = Chars(order.text) /\ todo' = <<>> /\ input.keys = <<>>
          BY <1>6, <1>9, <2>1
    <3>2. sent \in Seq(Commands(0)) /\ AtMost(1, Pressing(sent)) /\ Len(sent) = 2 * Len(order.text)
          BY <1>1, <3>1, CharsQuiet, CharsAre
    <3>3. PICK r : r = input'
          OBVIOUS
    <3>4. Good(sent, r, n)
          BY <1>0, <2>2, <3>2, <3>3, InsertedIs
    <3>5. 2 * Len(r.keys) <= 2 * Len(input.keys) + n + 1
          BY <1>1, <3>1, <3>4 DEF Good
    <3>6. Len(r.keys) \in Nat
          BY <3>4 DEF Good, InputOK
    <3>7. PICK a, b \in Nat : a = Len(r.keys) /\ b = Len(order.text)
          BY <1>1, <3>6
    <3>8. 2 * a <= n + 1 /\ n <= 2 * b
          BY <3>1, <3>2, <3>5, <3>7
    <3>9. a <= b
          BY <3>8
    <3> QED BY <3>1, <3>3, <3>7, <3>9
  <2>5. NativeSending'
        BY <1>0, <2>3, <2>4 DEF NativeSending, ClicksLeft, ClickBound
  <2>6. AskedOnce'
        BY <1>0, <2>3, <2>4 DEF AskedOnce, ClickBound
  <2> QED BY <2>3, <2>5, <2>6
<1> QED BY <1>7, <1>8, <1>9

LEMMA ExecutorInitInv == ASSUME ExecutorInit PROVE ExecutorInv
<1>1. IsDesktop(desk)
      BY ExecutorAssumption DEF ExecutorInit
<1>2. page \in [at : 1..3, found : BOOLEAN, shown : BOOLEAN, disabled : BOOLEAN, framed : BOOLEAN, over : SUBSET {1, 2}]
  <2>1. PICK disabled \in BOOLEAN, over \in {{}, {1}} :
          page = [at |-> 1, found |-> TRUE, shown |-> TRUE, disabled |-> disabled, framed |-> TRUE, over |-> over]
        BY DEF ExecutorInit
  <2> QED BY <2>1
<1>3. ExecutorTypeOK
      BY <1>1, <1>2, ExecutorAssumption DEF ExecutorInit, ExecutorTypeOK, Statuses
<1>4. input = NoInput
      BY DEF ExecutorInit
<1>5. InputOK(input) /\ Len(input.clicks) = 0 /\ Len(input.keys) = 0
      BY <1>4, NothingYet
<1>6. AskedOnce
  <2>1. order.text \in Seq({1, 2})
        BY <1>3, Requested DEF Request
  <2> QED BY <1>5, <2>1 DEF AskedOnce
<1> QED BY <1>3, <1>4, <1>5, <1>6 DEF ExecutorInit, ExecutorInv, NothingLeftDown

LEMMA ExecutorNextInv == ASSUME ExecutorInv, [ExecutorNext]_executorVars PROVE ExecutorInv'
<1>1. CASE UNCHANGED executorVars
  <2>1. (WebSending => WebSending') /\ (NativeSending => NativeSending') /\ (input = NoInput => input' = NoInput')
        BY <1>1, SendingKept DEF executorVars, NoInput
  <2>2. ExecutorTypeOK' /\ InputOK(input)' /\ AskedOnce' /\ NothingLeftDown'
        BY <1>1 DEF executorVars, ExecutorInv, ExecutorTypeOK, IsDesktop, InputOK, AskedOnce, NothingLeftDown
  <2> QED BY <1>1, <2>1, <2>2 DEF executorVars, ExecutorInv
<1>2. CASE ExecutorNext
      BY <1>2, WorldInv, BeginsInv, SendInv, DoneInv, NativeGatesInv, SendNativeInv DEF ExecutorNext
<1> QED BY <1>1, <1>2

LEMMA ExecutorAlways == ExecutorSpec => []ExecutorInv
  BY ExecutorInitInv, ExecutorNextInv, PTL DEF ExecutorSpec

(* The variables of an action's execution have their types, for any actions, desktops,  *)
(* changes and failures.                                                              *)
THEOREM ExecutorTypes == ExecutorSpec => []ExecutorTypeOK
<1>1. ExecutorInv => ExecutorTypeOK
      BY DEF ExecutorInv
<1> QED BY <1>1, ExecutorAlways, PTL

(* No action clicks or types more often than it was asked to, whatever was lost,        *)
(* refused or inserted in part.                                                       *)
THEOREM ActsOnce == ExecutorSpec => []AskedOnce
<1>1. ExecutorInv => AskedOnce
      BY DEF ExecutorInv
<1> QED BY <1>1, ExecutorAlways, PTL

(* A dispatched web action has released every button and key it pressed, however many   *)
(* modifiers a shortcut holds.                                                        *)
THEOREM ReleasesAll == ExecutorSpec => []NothingLeftDown
<1>1. ExecutorInv => NothingLeftDown
      BY DEF ExecutorInv
<1> QED BY <1>1, ExecutorAlways, PTL

------------------------------------------------------------------------------------
(* Verification: for any requests and either policy, a PASS is backed by what was     *)
(* observed and captured.                                                            *)
Handles == {"main", "other", "dialog"}
(* A desktop of the three windows, none of them of the idle process.               *)
DeskOK(d) ==
  /\ d = [win |-> d.win, order |-> d.order, front |-> d.front]
  /\ d.win \in [Handles -> Window]
  /\ \A h \in Handles : d.win[h].pid > 0

(* A window that was shown when it was observed had a process and a size.           *)
SnapOK(s) ==
  /\ s.native.width \in Nat /\ s.native.pid \in Nat
  /\ s.native.visible => s.native.pid > 0

TxShape ==
  tx = [receipt |-> tx.receipt, pre |-> tx.pre, post |-> tx.post, epoch |-> tx.epoch, initial |-> tx.initial,
        settled |-> tx.settled, change |-> tx.change, capture |-> tx.capture,
        picture |-> tx.picture, aged |-> tx.aged]

AnyRequest ==
  [caller : {"engine", "library", "evidence"}, expect : BOOLEAN, url : {Nothing, 1},
   claim : {"none", "NavigationOccurred", "NativeModalAppeared", "ElementDisappeared"},
   interactive : BOOLEAN, confirmed : BOOLEAN, pictures : {"none", "plain", "certifying"},
   says : BOOLEAN, level : 3..4]

(* Nothing is judged before there is a verdict, and what was judged stays.           *)
JudgeInv ==
  /\ JudgeTypeOK /\ DeskOK(desktop) /\ TxShape /\ request \in AnyRequest
  /\ tx.post # Nothing => SnapOK(tx.post)
  /\ phase \notin {"judged", "done"} => verdict = NoVerdict
  /\ PassMeansProven

LEMMA OneWindow ==
  ASSUME NEW d, DeskOK(d), NEW h \in Handles, NEW w \in Window, w.pid > 0, NEW o, NEW f
  PROVE  DeskOK([win |-> [d.win EXCEPT ![h] = w], order |-> o, front |-> f])
  BY DEF DeskOK

LEMMA InFront ==
  ASSUME NEW d, DeskOK(d), NEW o, NEW f
  PROVE  DeskOK([win |-> d.win, order |-> o, front |-> f])
  BY DEF DeskOK

LEMMA BehindOK == ASSUME NEW d, DeskOK(d) PROVE DeskOK(Behind(d))
<1>1. Behind(d) = [win |-> d.win, order |-> d.order, front |-> IF d.front = Main THEN "other" ELSE d.front]
      BY DEF Behind, DeskOK
<1> QED BY <1>1, InFront

LEMMA RaisedIs ==
  ASSUME NEW d, NEW w, NEW o, NEW f, d = [win |-> w, order |-> o, front |-> f], NEW h,
         NEW q, q = Raised(d, h)
  PROVE  q = [win |-> w, order |-> q.order, front |-> h]
  BY DEF Raised

LEMMA RaisedOK == ASSUME NEW d, DeskOK(d), NEW h, NEW q, q = Raised(d, h) PROVE DeskOK(q)
<1>1. PICK w, o, f : d = [win |-> w, order |-> o, front |-> f]
      BY DEF DeskOK
<1>2. q = [win |-> w, order |-> q.order, front |-> h]
      BY <1>1, RaisedIs
<1> QED BY <1>1, <1>2, InFront

LEMMA OverlayOK == ASSUME NEW d, DeskOK(d), NEW q, q = Overlay(d) PROVE DeskOK(q)
<1>1. PICK w, o, f : d = [win |-> w, order |-> o, front |-> f]
      BY DEF DeskOK
<1>2. q = [win |-> w, order |-> q.order, front |-> f]
      BY <1>1 DEF Overlay
<1> QED BY <1>1, <1>2, InFront

(* A change of one window, field by field. *)
Positive == {w \in Window : w.pid > 0}
LEMMA WindowChanges ==
  ASSUME NEW w \in Positive
  PROVE  /\ [w EXCEPT !.iconic = TRUE] \in Positive /\ [w EXCEPT !.cloaked = TRUE] \in Positive
         /\ [w EXCEPT !.visible = FALSE] \in Positive /\ [w EXCEPT !.open = FALSE] \in Positive
         /\ [w EXCEPT !.hung = TRUE] \in Positive /\ [w EXCEPT !.hi = 3] \in Positive
         /\ [w EXCEPT !.pid = 9] \in Positive /\ [w EXCEPT !.open = TRUE] \in Positive
         /\ [w EXCEPT !.enabled = FALSE] \in Positive
<1>1. [w EXCEPT !.iconic = TRUE] \in Positive BY DEF Positive, Window
<1>2. [w EXCEPT !.cloaked = TRUE] \in Positive BY DEF Positive, Window
<1>3. [w EXCEPT !.visible = FALSE] \in Positive BY DEF Positive, Window
<1>4. [w EXCEPT !.open = FALSE] \in Positive BY DEF Positive, Window
<1>5. [w EXCEPT !.hung = TRUE] \in Positive BY DEF Positive, Window
<1>6. [w EXCEPT !.hi = 3] \in Positive BY DEF Positive, Window
<1>7. [w EXCEPT !.pid = 9] \in Positive BY DEF Positive, Window
<1>8. [w EXCEPT !.open = TRUE] \in Positive BY DEF Positive, Window
<1>9. [w EXCEPT !.enabled = FALSE] \in Positive BY DEF Positive, Window
<1> QED BY <1>1, <1>2, <1>3, <1>4, <1>5, <1>6, <1>7, <1>8, <1>9

LEMMA MainChanged ==
  ASSUME NEW d, DeskOK(d), NEW q, NEW h \in Handles, NEW w, NEW o, NEW f,
         d = [win |-> w, order |-> o, front |-> f], NEW v \in Positive,
         q = [win |-> [w EXCEPT ![h] = v], order |-> o, front |-> f]
  PROVE  DeskOK(q)
  BY OneWindow DEF Positive

LEMMA ChangedDesksOK ==
  ASSUME DeskOK(desktop), NEW d \in ChangedDesks
  PROVE  DeskOK(d)
<1>0. Main \in Handles /\ "main" \in Handles /\ "dialog" \in Handles
      BY DEF Handles, Main
<1>1. PICK win, stack, front : desktop = [win |-> win, order |-> stack, front |-> front]
      BY DEF DeskOK
<1>2. win["main"] \in Positive
      BY <1>0, <1>1 DEF DeskOK, Positive
<1> DEFINE main == win["main"]
<1>3. CASE \/ d = Behind([desktop EXCEPT !.win.main.iconic = TRUE])
           \/ d = Behind([desktop EXCEPT !.win.main.cloaked = TRUE])
           \/ d = Behind([desktop EXCEPT !.win.main.visible = FALSE])
           \/ d = Behind([desktop EXCEPT !.win.main.open = FALSE])
  <2>1. PICK q : /\ d = Behind(q)
                 /\ \/ q = [desktop EXCEPT !.win.main.iconic = TRUE]
                    \/ q = [desktop EXCEPT !.win.main.cloaked = TRUE]
                    \/ q = [desktop EXCEPT !.win.main.visible = FALSE]
                    \/ q = [desktop EXCEPT !.win.main.open = FALSE]
        BY <1>3
  <2>2. PICK v \in Positive : q = [win |-> [win EXCEPT !["main"] = v], order |-> stack, front |-> front]
    <3>1. CASE q = [desktop EXCEPT !.win.main.iconic = TRUE]
          BY <1>1, <1>2, <3>1, WindowChanges
    <3>2. CASE q = [desktop EXCEPT !.win.main.cloaked = TRUE]
          BY <1>1, <1>2, <3>2, WindowChanges
    <3>3. CASE q = [desktop EXCEPT !.win.main.visible = FALSE]
          BY <1>1, <1>2, <3>3, WindowChanges
    <3>4. CASE q = [desktop EXCEPT !.win.main.open = FALSE]
          BY <1>1, <1>2, <3>4, WindowChanges
    <3> QED BY <2>1, <3>1, <3>2, <3>3, <3>4
  <2>3. DeskOK(q)
        BY <1>0, <1>1, <2>2, MainChanged
  <2> QED BY <2>1, <2>3, BehindOK
<1>4. CASE \/ d = [desktop EXCEPT !.win.main.hung = TRUE] \/ d = [desktop EXCEPT !.win.main.hi = 3]
           \/ d = [desktop EXCEPT !.win.main.pid = 9]
  <2>1. PICK v \in Positive : d = [win |-> [win EXCEPT !["main"] = v], order |-> stack, front |-> front]
    <3>1. CASE d = [desktop EXCEPT !.win.main.hung = TRUE]
          BY <1>1, <1>2, <3>1, WindowChanges
    <3>2. CASE d = [desktop EXCEPT !.win.main.hi = 3]
          BY <1>1, <1>2, <3>2, WindowChanges
    <3>3. CASE d = [desktop EXCEPT !.win.main.pid = 9]
          BY <1>1, <1>2, <3>3, WindowChanges
    <3> QED BY <1>4, <3>1, <3>2, <3>3
  <2> QED BY <1>0, <1>1, <2>1, MainChanged
<1>5. CASE d = [Raised(desktop, Main) EXCEPT !.win.main = W(0, 2, 1, "none", TRUE, FALSE)]
  <2>1. PICK r : r = Raised(desktop, Main)
        OBVIOUS
  <2>2. DeskOK(r)
        BY <2>1, RaisedOK
  <2>3. PICK v : v = W(0, 2, 1, "none", TRUE, FALSE)
        OBVIOUS
  <2>4. v \in Positive
    <3>1. v \in Window
          BY <2>3 DEF W, Window
    <3>2. v.pid = 1
          BY <2>3 DEF W
    <3> QED BY <3>1, <3>2 DEF Positive
  <2>5. PICK w, o, f : r = [win |-> w, order |-> o, front |-> f]
        BY <2>2 DEF DeskOK
  <2>6. d = [win |-> [w EXCEPT !["main"] = v], order |-> o, front |-> f]
    <3>1. d = [r EXCEPT !.win.main = v]
          BY <1>5, <2>1, <2>3
    <3> QED BY <2>5, <3>1
  <2> QED BY <1>0, <2>2, <2>4, <2>5, <2>6, MainChanged
<1>6. CASE d = [Raised(desktop, "dialog") EXCEPT !.win.dialog.open = TRUE, !.win.main.enabled = FALSE]
  <2>1. PICK r : r = Raised(desktop, "dialog")
        OBVIOUS
  <2>2. DeskOK(r)
        BY <2>1, RaisedOK
  <2>3. PICK w, o, f : r = [win |-> w, order |-> o, front |-> f]
        BY <2>2 DEF DeskOK
  <2>4. PICK u : u = [w["dialog"] EXCEPT !.open = TRUE]
        OBVIOUS
  <2>5. w["dialog"] \in Positive
        BY <1>0, <2>2, <2>3 DEF DeskOK, Positive
  <2>6. u \in Positive
        BY <2>4, <2>5, WindowChanges
  <2>7. PICK q, wq : wq = [w EXCEPT !["dialog"] = u] /\ q = [win |-> wq, order |-> o, front |-> f]
        OBVIOUS
  <2>8. DeskOK(q)
        BY <1>0, <2>2, <2>3, <2>6, <2>7, MainChanged
  <2>9. PICK v : v = [wq["main"] EXCEPT !.enabled = FALSE]
        OBVIOUS
  <2>10. wq["main"] \in Positive
        BY <1>0, <2>7, <2>8 DEF DeskOK, Positive
  <2>11. v \in Positive
        BY <2>9, <2>10, WindowChanges
  <2>12. d = [win |-> [wq EXCEPT !["main"] = v], order |-> o, front |-> f]
    <3>1. d = [r EXCEPT !.win.dialog.open = TRUE, !.win.main.enabled = FALSE]
          BY <1>6, <2>1
    <3> QED BY <2>3, <2>4, <2>7, <2>9, <3>1
  <2> QED BY <1>0, <2>7, <2>8, <2>11, <2>12, MainChanged
<1> QED BY <1>3, <1>4, <1>5, <1>6, OverlayOK, RaisedOK DEF ChangedDesks

LEMMA SnapshotOK == ASSUME DeskOK(desktop), NEW n, NEW s, s = Snapshot(n) PROVE SnapOK(s)
<1>1. Main \in Handles
      BY DEF Main, Handles
<1>2. desktop.win[Main] \in Window /\ desktop.win[Main].pid > 0
      BY <1>1 DEF DeskOK
<1>3. s.native = ObserveNativeWindow(desktop, Main)
      BY DEF Snapshot
<1>4. PICK w : w = InspectWindow(desktop, Main)
      OBVIOUS
<1>5. w.valid = IsWindow(desktop, Main) /\ w.pid = WindowPid(desktop, Main)
      BY <1>4 DEF InspectWindow
<1>6. w.bounds = CanonicalBounds(desktop, Main)
      BY <1>4 DEF InspectWindow
<1>7. Width(w.bounds) \in Nat
      BY <1>2, <1>6 DEF Width, CanonicalBounds, Window
<1>8. CASE ~IsWindow(desktop, Main)
      BY <1>3, <1>4, <1>5, <1>8 DEF ObserveNativeWindow, SnapOK
<1>9. CASE IsWindow(desktop, Main)
  <2>1. s.native.pid = w.pid /\ s.native.width = Width(w.bounds)
        BY <1>3, <1>4, <1>5, <1>9 DEF ObserveNativeWindow
  <2>2. w.pid \in Nat /\ w.pid > 0
        BY <1>2, <1>5, <1>9 DEF WindowPid, Window
  <2> QED BY <1>7, <2>1, <2>2 DEF SnapOK
<1> QED BY <1>8, <1>9

(* The checks of the visibility claim give no reason when none of them fails.         *)
Reasons == {"PHYSICAL_STATE_UNKNOWN", "WINDOW_CLOAKED_OR_MINIMIZED", "WINDOW_NON_RENDERABLE", "PID_MISMATCH",
            "PROCESS_IDENTITY_MISMATCH", "SCREENSHOT_UNAVAILABLE", "NON_AUTHORITATIVE_CAPTURE", "EVIDENCE_STALE",
            "BOUNDS_MISMATCH"}

LEMMA BothEmpty ==
  ASSUME NEW s \in Seq(Reasons), NEW t \in Seq(Reasons)
  PROVE  s \o t \in Seq(Reasons) /\ (s \o t = <<>> => s = <<>> /\ t = <<>>)
  OBVIOUS

LEMMA ThreeEmpty ==
  ASSUME NEW a \in Seq(Reasons), NEW b \in Seq(Reasons), NEW c \in Seq(Reasons)
  PROVE  a \o b \o c \in Seq(Reasons) /\ (a \o b \o c = <<>> => a = <<>> /\ b = <<>> /\ c = <<>>)
<1>1. a \o b \in Seq(Reasons) /\ (a \o b = <<>> => a = <<>> /\ b = <<>>)
      BY BothEmpty
<1> QED BY <1>1, BothEmpty

LEMMA FourEmpty ==
  ASSUME NEW a \in Seq(Reasons), NEW b \in Seq(Reasons), NEW c \in Seq(Reasons), NEW d \in Seq(Reasons)
  PROVE  /\ a \o b \o c \o d \in Seq(Reasons)
         /\ a \o b \o c \o d = <<>> => a = <<>> /\ b = <<>> /\ c = <<>> /\ d = <<>>
<1>1. a \o b \o c \in Seq(Reasons) /\ (a \o b \o c = <<>> => a = <<>> /\ b = <<>> /\ c = <<>>)
      BY ThreeEmpty
<1> QED BY <1>1, BothEmpty

LEMMA SixEmpty ==
  ASSUME NEW a \in Seq(Reasons), NEW b \in Seq(Reasons), NEW c \in Seq(Reasons),
         NEW d \in Seq(Reasons), NEW e \in Seq(Reasons), NEW f \in Seq(Reasons)
  PROVE  /\ a \o b \o c \o d \o e \o f \in Seq(Reasons)
         /\ a \o b \o c \o d \o e \o f = <<>> =>
              a = <<>> /\ b = <<>> /\ c = <<>> /\ d = <<>> /\ e = <<>> /\ f = <<>>
<1>1. PICK q : q = a \o b \o c \o d
      OBVIOUS
<1>2. q \in Seq(Reasons) /\ (q = <<>> => a = <<>> /\ b = <<>> /\ c = <<>> /\ d = <<>>)
      BY <1>1, FourEmpty
<1>3. q \o e \o f \in Seq(Reasons) /\ (q \o e \o f = <<>> => q = <<>> /\ e = <<>> /\ f = <<>>)
      BY <1>2, ThreeEmpty
<1> QED BY <1>1, <1>2, <1>3

LEMMA WindowShown ==
  ASSUME NEW o
  PROVE  /\ WindowChecks(o) \in Seq(Reasons)
         /\ WindowChecks(o) = <<>> =>
              RequireVisibleGui /\ o # Nothing /\ o.visible /\ ~o.minimized /\ ~o.cloaked /\ o.width # 0
<1>1. PICK a0, b0, c0, d0, e0, f0 :
        /\ a0 = Because(~RequireVisibleGui, "PHYSICAL_STATE_UNKNOWN")
        /\ b0 = Because(o = Nothing, "PHYSICAL_STATE_UNKNOWN")
        /\ c0 = Because(o # Nothing /\ ~o.visible, "PHYSICAL_STATE_UNKNOWN")
        /\ d0 = Because(o # Nothing /\ o.minimized, "WINDOW_CLOAKED_OR_MINIMIZED")
        /\ e0 = Because(o # Nothing /\ o.cloaked, "WINDOW_CLOAKED_OR_MINIMIZED")
        /\ f0 = Because(o # Nothing /\ o.width = 0, "WINDOW_NON_RENDERABLE")
      OBVIOUS
<1>2. WindowChecks(o) = a0 \o b0 \o c0 \o d0 \o e0 \o f0
      BY <1>1 DEF WindowChecks
<1>3. a0 \in Seq(Reasons) /\ (a0 = <<>> => ~(~RequireVisibleGui))
  <2>1. a0 = <<"PHYSICAL_STATE_UNKNOWN">> \/ (a0 = <<>> /\ ~(~RequireVisibleGui))
        BY <1>1 DEF Because
  <2>2. <<"PHYSICAL_STATE_UNKNOWN">> \in Seq(Reasons) /\ <<"PHYSICAL_STATE_UNKNOWN">> # <<>> /\ <<>> \in Seq(Reasons)
        BY DEF Reasons
  <2>3. a0 \in Seq(Reasons)
        BY <2>1, <2>2
  <2>4. a0 = <<>> => ~(~RequireVisibleGui)
        BY <2>1, <2>2
  <2> QED BY <2>3, <2>4
<1>4. b0 \in Seq(Reasons) /\ (b0 = <<>> => ~(o = Nothing))
  <2>1. b0 = <<"PHYSICAL_STATE_UNKNOWN">> \/ (b0 = <<>> /\ ~(o = Nothing))
        BY <1>1 DEF Because
  <2>2. <<"PHYSICAL_STATE_UNKNOWN">> \in Seq(Reasons) /\ <<"PHYSICAL_STATE_UNKNOWN">> # <<>> /\ <<>> \in Seq(Reasons)
        BY DEF Reasons
  <2>3. b0 \in Seq(Reasons)
        BY <2>1, <2>2
  <2>4. b0 = <<>> => ~(o = Nothing)
        BY <2>1, <2>2
  <2> QED BY <2>3, <2>4
<1>5. c0 \in Seq(Reasons) /\ (c0 = <<>> => ~(o # Nothing /\ ~o.visible))
  <2>1. c0 = <<"PHYSICAL_STATE_UNKNOWN">> \/ (c0 = <<>> /\ ~(o # Nothing /\ ~o.visible))
        BY <1>1 DEF Because
  <2>2. <<"PHYSICAL_STATE_UNKNOWN">> \in Seq(Reasons) /\ <<"PHYSICAL_STATE_UNKNOWN">> # <<>> /\ <<>> \in Seq(Reasons)
        BY DEF Reasons
  <2>3. c0 \in Seq(Reasons)
        BY <2>1, <2>2
  <2>4. c0 = <<>> => ~(o # Nothing /\ ~o.visible)
        BY <2>1, <2>2
  <2> QED BY <2>3, <2>4
<1>6. d0 \in Seq(Reasons) /\ (d0 = <<>> => ~(o # Nothing /\ o.minimized))
  <2>1. d0 = <<"WINDOW_CLOAKED_OR_MINIMIZED">> \/ (d0 = <<>> /\ ~(o # Nothing /\ o.minimized))
        BY <1>1 DEF Because
  <2>2. <<"WINDOW_CLOAKED_OR_MINIMIZED">> \in Seq(Reasons) /\ <<"WINDOW_CLOAKED_OR_MINIMIZED">> # <<>> /\ <<>> \in Seq(Reasons)
        BY DEF Reasons
  <2>3. d0 \in Seq(Reasons)
        BY <2>1, <2>2
  <2>4. d0 = <<>> => ~(o # Nothing /\ o.minimized)
        BY <2>1, <2>2
  <2> QED BY <2>3, <2>4
<1>7. e0 \in Seq(Reasons) /\ (e0 = <<>> => ~(o # Nothing /\ o.cloaked))
  <2>1. e0 = <<"WINDOW_CLOAKED_OR_MINIMIZED">> \/ (e0 = <<>> /\ ~(o # Nothing /\ o.cloaked))
        BY <1>1 DEF Because
  <2>2. <<"WINDOW_CLOAKED_OR_MINIMIZED">> \in Seq(Reasons) /\ <<"WINDOW_CLOAKED_OR_MINIMIZED">> # <<>> /\ <<>> \in Seq(Reasons)
        BY DEF Reasons
  <2>3. e0 \in Seq(Reasons)
        BY <2>1, <2>2
  <2>4. e0 = <<>> => ~(o # Nothing /\ o.cloaked)
        BY <2>1, <2>2
  <2> QED BY <2>3, <2>4
<1>8. f0 \in Seq(Reasons) /\ (f0 = <<>> => ~(o # Nothing /\ o.width = 0))
  <2>1. f0 = <<"WINDOW_NON_RENDERABLE">> \/ (f0 = <<>> /\ ~(o # Nothing /\ o.width = 0))
        BY <1>1 DEF Because
  <2>2. <<"WINDOW_NON_RENDERABLE">> \in Seq(Reasons) /\ <<"WINDOW_NON_RENDERABLE">> # <<>> /\ <<>> \in Seq(Reasons)
        BY DEF Reasons
  <2>3. f0 \in Seq(Reasons)
        BY <2>1, <2>2
  <2>4. f0 = <<>> => ~(o # Nothing /\ o.width = 0)
        BY <2>1, <2>2
  <2> QED BY <2>3, <2>4
<1>9. /\ a0 \o b0 \o c0 \o d0 \o e0 \o f0 \in Seq(Reasons)
      /\ a0 \o b0 \o c0 \o d0 \o e0 \o f0 = <<>> => a0 = <<>> /\ b0 = <<>> /\ c0 = <<>> /\ d0 = <<>> /\ e0 = <<>> /\ f0 = <<>>
      BY <1>3, <1>4, <1>5, <1>6, <1>7, <1>8, SixEmpty
<1> QED BY <1>2, <1>3, <1>4, <1>5, <1>6, <1>7, <1>8, <1>9

LEMMA IdentityShown ==
  ASSUME NEW o, NEW p, NEW shot
  PROVE  /\ IdentityChecks(o, p, shot) \in Seq(Reasons)
         /\ IdentityChecks(o, p, shot) = <<>> =>
              (p # Nothing => p.creation # 0 /\ (o # Nothing /\ o.pid # 0 => o.pid \in p.tree))
<1>1. PICK a0, b0, c0 :
        /\ a0 = Because(p # Nothing /\ o # Nothing /\ o.pid # 0 /\ o.pid \notin p.tree, "PID_MISMATCH")
        /\ b0 = Because(p # Nothing /\ p.creation = 0, "PROCESS_IDENTITY_MISMATCH")
        /\ c0 = Because(p # Nothing /\ shot # Nothing /\ shot.creation # p.creation, "PROCESS_IDENTITY_MISMATCH")
      OBVIOUS
<1>2. IdentityChecks(o, p, shot) = a0 \o b0 \o c0
      BY <1>1 DEF IdentityChecks
<1>3. a0 \in Seq(Reasons) /\ (a0 = <<>> => ~(p # Nothing /\ o # Nothing /\ o.pid # 0 /\ o.pid \notin p.tree))
  <2>1. a0 = <<"PID_MISMATCH">> \/ (a0 = <<>> /\ ~(p # Nothing /\ o # Nothing /\ o.pid # 0 /\ o.pid \notin p.tree))
        BY <1>1 DEF Because
  <2>2. <<"PID_MISMATCH">> \in Seq(Reasons) /\ <<"PID_MISMATCH">> # <<>> /\ <<>> \in Seq(Reasons)
        BY DEF Reasons
  <2>3. a0 \in Seq(Reasons)
        BY <2>1, <2>2
  <2>4. a0 = <<>> => ~(p # Nothing /\ o # Nothing /\ o.pid # 0 /\ o.pid \notin p.tree)
        BY <2>1, <2>2
  <2> QED BY <2>3, <2>4
<1>4. b0 \in Seq(Reasons) /\ (b0 = <<>> => ~(p # Nothing /\ p.creation = 0))
  <2>1. b0 = <<"PROCESS_IDENTITY_MISMATCH">> \/ (b0 = <<>> /\ ~(p # Nothing /\ p.creation = 0))
        BY <1>1 DEF Because
  <2>2. <<"PROCESS_IDENTITY_MISMATCH">> \in Seq(Reasons) /\ <<"PROCESS_IDENTITY_MISMATCH">> # <<>> /\ <<>> \in Seq(Reasons)
        BY DEF Reasons
  <2>3. b0 \in Seq(Reasons)
        BY <2>1, <2>2
  <2>4. b0 = <<>> => ~(p # Nothing /\ p.creation = 0)
        BY <2>1, <2>2
  <2> QED BY <2>3, <2>4
<1>5. c0 \in Seq(Reasons) /\ (c0 = <<>> => ~(p # Nothing /\ shot # Nothing /\ shot.creation # p.creation))
  <2>1. c0 = <<"PROCESS_IDENTITY_MISMATCH">> \/ (c0 = <<>> /\ ~(p # Nothing /\ shot # Nothing /\ shot.creation # p.creation))
        BY <1>1 DEF Because
  <2>2. <<"PROCESS_IDENTITY_MISMATCH">> \in Seq(Reasons) /\ <<"PROCESS_IDENTITY_MISMATCH">> # <<>> /\ <<>> \in Seq(Reasons)
        BY DEF Reasons
  <2>3. c0 \in Seq(Reasons)
        BY <2>1, <2>2
  <2>4. c0 = <<>> => ~(p # Nothing /\ shot # Nothing /\ shot.creation # p.creation)
        BY <2>1, <2>2
  <2> QED BY <2>3, <2>4
<1>6. /\ a0 \o b0 \o c0 \in Seq(Reasons)
      /\ a0 \o b0 \o c0 = <<>> => a0 = <<>> /\ b0 = <<>> /\ c0 = <<>>
      BY <1>3, <1>4, <1>5, ThreeEmpty
<1> QED BY <1>2, <1>3, <1>4, <1>5, <1>6

LEMMA CaptureShown ==
  ASSUME NEW o, NEW shot
  PROVE  /\ CaptureChecks(o, shot) \in Seq(Reasons)
         /\ CaptureChecks(o, shot) = <<>> =>
              /\ Surface(shot) # Nothing /\ ~tx.aged
              /\ o # Nothing => Width(Surface(shot).bounds) = o.width
              /\ shot = Nothing => Picture.certifying
<1>1. PICK a0, b0, c0, d0 :
        /\ a0 = Because(shot = Nothing /\ Picture = Nothing, "SCREENSHOT_UNAVAILABLE")
        /\ b0 = Because(shot = Nothing /\ Picture # Nothing /\ ~Picture.certifying, "NON_AUTHORITATIVE_CAPTURE")
        /\ c0 = Because(tx.aged, "EVIDENCE_STALE")
        /\ d0 = Because(Surface(shot) # Nothing /\ o # Nothing /\ Width(Surface(shot).bounds) # o.width, "BOUNDS_MISMATCH")
      OBVIOUS
<1>2. CaptureChecks(o, shot) = a0 \o b0 \o c0 \o d0
      BY <1>1 DEF CaptureChecks
<1>3. a0 \in Seq(Reasons) /\ (a0 = <<>> => ~(shot = Nothing /\ Picture = Nothing))
  <2>1. a0 = <<"SCREENSHOT_UNAVAILABLE">> \/ (a0 = <<>> /\ ~(shot = Nothing /\ Picture = Nothing))
        BY <1>1 DEF Because
  <2>2. <<"SCREENSHOT_UNAVAILABLE">> \in Seq(Reasons) /\ <<"SCREENSHOT_UNAVAILABLE">> # <<>> /\ <<>> \in Seq(Reasons)
        BY DEF Reasons
  <2>3. a0 \in Seq(Reasons)
        BY <2>1, <2>2
  <2>4. a0 = <<>> => ~(shot = Nothing /\ Picture = Nothing)
        BY <2>1, <2>2
  <2> QED BY <2>3, <2>4
<1>4. b0 \in Seq(Reasons) /\ (b0 = <<>> => ~(shot = Nothing /\ Picture # Nothing /\ ~Picture.certifying))
  <2>1. b0 = <<"NON_AUTHORITATIVE_CAPTURE">> \/ (b0 = <<>> /\ ~(shot = Nothing /\ Picture # Nothing /\ ~Picture.certifying))
        BY <1>1 DEF Because
  <2>2. <<"NON_AUTHORITATIVE_CAPTURE">> \in Seq(Reasons) /\ <<"NON_AUTHORITATIVE_CAPTURE">> # <<>> /\ <<>> \in Seq(Reasons)
        BY DEF Reasons
  <2>3. b0 \in Seq(Reasons)
        BY <2>1, <2>2
  <2>4. b0 = <<>> => ~(shot = Nothing /\ Picture # Nothing /\ ~Picture.certifying)
        BY <2>1, <2>2
  <2> QED BY <2>3, <2>4
<1>5. c0 \in Seq(Reasons) /\ (c0 = <<>> => ~(tx.aged))
  <2>1. c0 = <<"EVIDENCE_STALE">> \/ (c0 = <<>> /\ ~(tx.aged))
        BY <1>1 DEF Because
  <2>2. <<"EVIDENCE_STALE">> \in Seq(Reasons) /\ <<"EVIDENCE_STALE">> # <<>> /\ <<>> \in Seq(Reasons)
        BY DEF Reasons
  <2>3. c0 \in Seq(Reasons)
        BY <2>1, <2>2
  <2>4. c0 = <<>> => ~(tx.aged)
        BY <2>1, <2>2
  <2> QED BY <2>3, <2>4
<1>6. d0 \in Seq(Reasons) /\ (d0 = <<>> => ~(Surface(shot) # Nothing /\ o # Nothing /\ Width(Surface(shot).bounds) # o.width))
  <2>1. d0 = <<"BOUNDS_MISMATCH">> \/ (d0 = <<>> /\ ~(Surface(shot) # Nothing /\ o # Nothing /\ Width(Surface(shot).bounds) # o.width))
        BY <1>1 DEF Because
  <2>2. <<"BOUNDS_MISMATCH">> \in Seq(Reasons) /\ <<"BOUNDS_MISMATCH">> # <<>> /\ <<>> \in Seq(Reasons)
        BY DEF Reasons
  <2>3. d0 \in Seq(Reasons)
        BY <2>1, <2>2
  <2>4. d0 = <<>> => ~(Surface(shot) # Nothing /\ o # Nothing /\ Width(Surface(shot).bounds) # o.width)
        BY <2>1, <2>2
  <2> QED BY <2>3, <2>4
<1>7. /\ a0 \o b0 \o c0 \o d0 \in Seq(Reasons)
      /\ a0 \o b0 \o c0 \o d0 = <<>> => a0 = <<>> /\ b0 = <<>> /\ c0 = <<>> /\ d0 = <<>>
      BY <1>3, <1>4, <1>5, <1>6, FourEmpty
<1>8. CaptureChecks(o, shot) = <<>> => Surface(shot) # Nothing
      BY <1>2, <1>3, <1>7 DEF Surface
<1> QED BY <1>2, <1>3, <1>4, <1>5, <1>6, <1>7, <1>8

(* The first four claims are always made.                                            *)
LEMMA FourClaims ==
  ASSUME NEW S, NEW a \in S, NEW b \in S, NEW c \in S, NEW d \in S, NEW t \in Seq(S),
         NEW s, s = <<a, b, c, d>> \o t
  PROVE  {1, 2, 3, 4} \subseteq DOMAIN s /\ s[1] = a /\ s[2] = b /\ s[4] = d
<1>1. PICK q : q = <<a, b, c, d>>
      OBVIOUS
<1>2. q \in Seq(S) /\ Len(q) = 4 /\ q[1] = a /\ q[2] = b /\ q[4] = d
      BY <1>1
<1> QED BY <1>1, <1>2

LEMMA ClaimsMade ==
  /\ {1, 2, 3, 4} \subseteq DOMAIN Claims
  /\ Claims[1] = ClaimDispatch /\ Claims[2] = ClaimVisible /\ Claims[4] = ClaimState
<1>1. PICK S : {ClaimDispatch, ClaimVisible, ClaimInput, ClaimState, ClaimNavigation, ClaimModal, ClaimDisappeared}
                 \subseteq S
      OBVIOUS
<1>2. OptionalClaim \in Seq(S)
      BY <1>1 DEF OptionalClaim
<1> QED BY <1>1, <1>2, FourClaims DEF Claims

LEMMA PassHas ==
  ASSUME NEW claims, NEW contradictions, SynthesizeVerdict(claims, contradictions)[1] = "PASS"
  PROVE  /\ \A i \in DOMAIN claims : claims[i].status # "FAIL" /\ claims[i].status # "UNVERIFIED"
         /\ contradictions = {} /\ (request.interactive => request.confirmed)
         /\ request.level = 4 => Picture # Nothing
<1>1. PICK v : v = SynthesizeVerdict(claims, contradictions)
      OBVIOUS
<1>2. v[1] = "PASS"
      BY <1>1
<1>3. ~\E i \in DOMAIN claims : claims[i].status = "FAIL"
      BY <1>1, <1>2 DEF SynthesizeVerdict
<1>4. contradictions = {}
      BY <1>1, <1>2 DEF SynthesizeVerdict
<1>5. ~\E i \in DOMAIN claims : claims[i].status = "UNVERIFIED"
      BY <1>1, <1>2 DEF SynthesizeVerdict
<1>6. ~(request.interactive /\ ~request.confirmed)
      BY <1>1, <1>2 DEF SynthesizeVerdict
<1>7. ~(request.level = 4 /\ Picture = Nothing)
      BY <1>1, <1>2 DEF SynthesizeVerdict
<1> QED BY <1>3, <1>4, <1>5, <1>6, <1>7

Proven ==
  /\ tx.receipt = "DISPATCHED" /\ tx.pre # Nothing /\ tx.post # Nothing
  /\ tx.post.native.visible /\ ~tx.post.native.minimized /\ ~tx.post.native.cloaked
  /\ tx.post.web # Nothing => tx.post.native.modals = {}
  /\ Surface(tx.capture) # Nothing /\ ~tx.aged /\ Width(Surface(tx.capture).bounds) = tx.post.native.width
  /\ tx.capture = Nothing => Picture.certifying
  /\ tx.post.native.width > 0 /\ (request.says => tx.post.native.pid = 1)
  /\ request.level = 4 => Picture # Nothing
  /\ request.interactive => request.confirmed

LEMMA ClaimsMean ==
  ASSUME ClaimDispatch.status # "FAIL", ClaimVisible.status # "UNVERIFIED", ClaimState.status # "UNVERIFIED"
  PROVE  /\ tx.receipt = "DISPATCHED" /\ tx.pre # Nothing /\ tx.post # Nothing
         /\ WindowChecks(Native) = <<>> /\ IdentityChecks(Native, ProcessInfo, tx.capture) = <<>>
         /\ CaptureChecks(Native, tx.capture) = <<>>
<1>1. tx.receipt = "DISPATCHED"
      BY DEF ClaimDispatch, Claim
<1>2. tx.pre # Nothing /\ tx.post # Nothing
      BY DEF ClaimState, Claim
<1>3. PICK w, i, c : /\ w = WindowChecks(Native) /\ i = IdentityChecks(Native, ProcessInfo, tx.capture)
                     /\ c = CaptureChecks(Native, tx.capture)
      OBVIOUS
<1>4. w \in Seq(Reasons) /\ i \in Seq(Reasons) /\ c \in Seq(Reasons)
      BY <1>3, WindowShown, IdentityShown, CaptureShown
<1>5. w \o i \o c = <<>>
      BY <1>3 DEF ClaimVisible, Claim
<1> QED BY <1>1, <1>2, <1>3, <1>4, <1>5, ThreeEmpty

LEMMA PassIsProven ==
  ASSUME JudgeInv, SynthesizeVerdict(Claims, Contradictions)[1] = "PASS"
  PROVE  Proven
<1>1. /\ \A i \in DOMAIN Claims : Claims[i].status # "FAIL" /\ Claims[i].status # "UNVERIFIED"
      /\ Contradictions = {} /\ (request.interactive => request.confirmed)
      /\ request.level = 4 => Picture # Nothing
      BY PassHas
<1>2. ClaimDispatch.status # "FAIL" /\ ClaimVisible.status # "UNVERIFIED" /\ ClaimState.status # "UNVERIFIED"
      BY <1>1, ClaimsMade
<1>3. /\ tx.receipt = "DISPATCHED" /\ tx.pre # Nothing /\ tx.post # Nothing
      /\ WindowChecks(Native) = <<>> /\ IdentityChecks(Native, ProcessInfo, tx.capture) = <<>>
      /\ CaptureChecks(Native, tx.capture) = <<>>
      BY <1>2, ClaimsMean
<1>4. PICK o : o = tx.post.native
      OBVIOUS
<1>5. Native = o /\ Web = tx.post.web
      BY <1>3, <1>4 DEF Native, Web
<1>6. o # Nothing /\ o.visible /\ ~o.minimized /\ ~o.cloaked /\ o.width # 0
      BY <1>3, <1>5, WindowShown
<1>7. /\ Surface(tx.capture) # Nothing /\ ~tx.aged /\ Width(Surface(tx.capture).bounds) = o.width
      /\ tx.capture = Nothing => Picture.certifying
      BY <1>3, <1>5, <1>6, CaptureShown
<1>8. o.width \in Nat /\ o.pid \in Nat /\ o.pid > 0
      BY <1>3, <1>4, <1>6 DEF JudgeInv, SnapOK
<1>9. ASSUME request.says PROVE o.pid = 1
  <2>1. request.caller \in {"engine", "library", "evidence"}
        BY DEF JudgeInv, AnyRequest
  <2>2. ExpectedPid \in Nat
        BY <1>4, <1>8 DEF ExpectedPid
  <2>3. PICK p : p = ProcessInfo
        OBVIOUS
  <2>4. p # Nothing => p.creation # 0 /\ (o.pid # 0 => o.pid \in p.tree)
        BY <1>3, <1>5, <1>6, <2>3, IdentityShown
  <2>5. CASE request.caller = "engine"
    <3>1. PICK r : r = IsWindow(desktop, Main)
          OBVIOUS
    <3>2. p = [pid |-> 1, tree |-> {1}, creation |-> 0, running |-> TRUE]
          BY <1>3, <2>3, <2>5 DEF ProcessInfo
    <3>3. p \in [pid : Nat, tree : SUBSET Nat, creation : Nat, running : BOOLEAN] /\ p.creation = 0
          BY <3>2
    <3> QED BY <2>4, <3>3, VerificationAssumption
  <2>6. CASE request.caller = "evidence"
    <3>1. PICK e : e = ExpectedPid
          OBVIOUS
    <3>2. p = [pid |-> e, tree |-> {1, e}, creation |-> 0, running |-> TRUE]
          BY <2>3, <2>6, <3>1 DEF ProcessInfo
    <3>3. p \in [pid : Nat, tree : SUBSET Nat, creation : Nat, running : BOOLEAN] /\ p.creation = 0
          BY <2>2, <3>1, <3>2
    <3> QED BY <2>4, <3>3, VerificationAssumption
  <2>7. CASE request.caller = "library"
    <3>1. p = [pid |-> 1, tree |-> {1}, creation |-> 1, running |-> IsWindow(desktop, Main)]
          BY <1>9, <2>3, <2>7 DEF ProcessInfo
    <3>2. IsWindow(desktop, Main) \in BOOLEAN
      <4>1. Main \in Handles
            BY DEF Main, Handles
      <4> QED BY <4>1 DEF JudgeInv, DeskOK, IsWindow, Window
    <3>3. p \in [pid : Nat, tree : SUBSET Nat, creation : Nat, running : BOOLEAN] /\ p.tree = {1}
          BY <3>1, <3>2
    <3> QED BY <1>8, <2>4, <3>3, VerificationAssumption
  <2> QED BY <2>1, <2>5, <2>6, <2>7
<1>10. tx.post.web # Nothing => o.modals = {}
  <2>1. "modal" \notin Contradictions
        BY <1>1
  <2> QED BY <1>5, <1>6, <2>1 DEF Contradictions
<1> QED BY <1>1, <1>3, <1>4, <1>6, <1>7, <1>8, <1>9, <1>10 DEF Proven

LEMMA JudgeInitially == ASSUME JudgeInit PROVE JudgeInv
<1>1. PICK m, o, g : /\ m = W(0, 2, 1, "none", TRUE, FALSE) /\ o = W(0, 1, 9, "none", TRUE, FALSE)
                     /\ g = W(0, 1, 1, "main", FALSE, TRUE)
      OBVIOUS
<1>2. m \in Window /\ o \in Window /\ g \in Window
      BY <1>1 DEF W, Window, Main
<1>3. m.pid = 1 /\ o.pid = 9 /\ g.pid = 1
      BY <1>1 DEF W
<1>4. PICK win : win = [main |-> m, other |-> o, dialog |-> g]
      OBVIOUS
<1>5. desktop = [win |-> win, order |-> <<"main", "dialog", "other">>, front |-> "main"]
      BY <1>1, <1>4 DEF JudgeInit
<1>6. DOMAIN win = Handles /\ win["main"] = m /\ win["other"] = o /\ win["dialog"] = g
      BY <1>4 DEF Handles
<1>7. win = [h \in Handles |-> win[h]]
      BY <1>4, <1>6
<1>8. win \in [Handles -> Window] /\ \A h \in Handles : win[h].pid > 0
      BY <1>2, <1>3, <1>6, <1>7 DEF Handles
<1>9. DeskOK(desktop)
      BY <1>5, <1>8 DEF DeskOK
<1>10. TxShape /\ tx.post = Nothing
      BY DEF JudgeInit, NoTx, TxShape
<1>11. request \in AnyRequest
      BY VerificationAssumption DEF JudgeInit, RequestType, AnyRequest
<1>12. verdict = NoVerdict /\ verdict.status = "none"
      BY DEF JudgeInit, NoVerdict
<1>13. JudgeTypeOK
  <2>1. \A h \in DOMAIN desktop.win : desktop.win[h] \in Window
        BY <1>9 DEF DeskOK
  <2>2. view \in [url : 0..1, present : BOOLEAN, text : 0..1, answers : BOOLEAN] /\ phase \in Phases
        BY DEF JudgeInit, Phases
  <2>3. changes \in 0..MaxChanges
        BY VerificationAssumption DEF JudgeInit
  <2> QED BY <1>12, <2>1, <2>2, <2>3 DEF JudgeTypeOK
<1> QED BY <1>9, <1>10, <1>11, <1>12, <1>13 DEF JudgeInv, PassMeansProven

(* What a step has to show: the desktop, the page and the count stay well formed, and    *)
(* either the judgement stands untouched or there is none.                               *)
LEMMA JudgedOrNot ==
  ASSUME JudgeInv, DeskOK(desktop)', view' \in [url : 0..1, present : BOOLEAN, text : 0..1, answers : BOOLEAN],
         changes' \in 0..MaxChanges, phase' \in Phases, TxShape', request' \in AnyRequest,
         (tx.post # Nothing => SnapOK(tx.post))',
         \/ UNCHANGED <<tx, request, phase, verdict>>
         \/ verdict' = NoVerdict
  PROVE  JudgeInv'
<1>1. verdict'.status \in {"none", "PASS", "FAIL", "UNVERIFIED"}
      BY DEF JudgeInv, JudgeTypeOK, NoVerdict
<1>2. JudgeTypeOK'
      BY <1>1 DEF JudgeTypeOK, DeskOK
<1>3. PassMeansProven'
  <2>1. CASE UNCHANGED <<tx, request, phase, verdict>>
        BY <2>1 DEF JudgeInv, PassMeansProven, Surface, Picture
  <2>2. CASE verdict' = NoVerdict
        BY <2>2 DEF NoVerdict, PassMeansProven
  <2> QED BY <2>1, <2>2
<1>4. (phase \notin {"judged", "done"} => verdict = NoVerdict)'
      BY DEF JudgeInv
<1> QED BY <1>2, <1>3, <1>4 DEF JudgeInv

(* A step of the transaction that only gathers, before anything is judged.                *)
LEMMA Gathers ==
  ASSUME JudgeInv, phase \notin {"judged", "done"}, UNCHANGED <<desktop, request, verdict, changes>>,
         view' \in [url : 0..1, present : BOOLEAN, text : 0..1, answers : BOOLEAN],
         phase' \in Phases, TxShape', (tx.post # Nothing => SnapOK(tx.post))'
  PROVE  JudgeInv'
<1>1. DeskOK(desktop)' /\ changes' \in 0..MaxChanges /\ request' \in AnyRequest
      BY DEF JudgeInv, JudgeTypeOK, DeskOK
<1>2. verdict' = NoVerdict
      BY DEF JudgeInv
<1> QED BY <1>1, <1>2, JudgedOrNot

LEMMA PagesOK ==
  ASSUME view \in [url : 0..1, present : BOOLEAN, text : 0..1, answers : BOOLEAN]
  PROVE  ChangedPages \subseteq [url : 0..1, present : BOOLEAN, text : 0..1, answers : BOOLEAN]
<1>1. [view EXCEPT !.url = 1] \in [url : 0..1, present : BOOLEAN, text : 0..1, answers : BOOLEAN]
      OBVIOUS
<1>2. [view EXCEPT !.present = FALSE] \in [url : 0..1, present : BOOLEAN, text : 0..1, answers : BOOLEAN]
      OBVIOUS
<1>3. [view EXCEPT !.text = 1] \in [url : 0..1, present : BOOLEAN, text : 0..1, answers : BOOLEAN]
      OBVIOUS
<1>4. [view EXCEPT !.answers = ~view.answers] \in [url : 0..1, present : BOOLEAN, text : 0..1, answers : BOOLEAN]
      OBVIOUS
<1> QED BY <1>1, <1>2, <1>3, <1>4 DEF ChangedPages

LEMMA WorldKeeps == ASSUME JudgeInv, DesktopChanges PROVE JudgeInv'
<1>1. view \in [url : 0..1, present : BOOLEAN, text : 0..1, answers : BOOLEAN] /\ changes \in 0..MaxChanges
      BY DEF JudgeInv, JudgeTypeOK
<1>2. changes' \in 0..MaxChanges
      BY <1>1, VerificationAssumption DEF DesktopChanges
<1>3. DeskOK(desktop)' /\ view' \in [url : 0..1, present : BOOLEAN, text : 0..1, answers : BOOLEAN]
  <2>1. CASE desktop' \in ChangedDesks \ {desktop} /\ UNCHANGED view
    <3>1. DeskOK(desktop')
          BY <2>1, ChangedDesksOK DEF JudgeInv
    <3> QED BY <1>1, <2>1, <3>1 DEF DeskOK
  <2>2. CASE view' \in ChangedPages \ {view} /\ UNCHANGED desktop
        BY <1>1, <2>2, PagesOK DEF JudgeInv, DeskOK
  <2> QED BY <2>1, <2>2 DEF DesktopChanges
<1>4. UNCHANGED <<tx, request, phase, verdict>>
      BY DEF DesktopChanges
<1>5. TxShape' /\ request' \in AnyRequest /\ (tx.post # Nothing => SnapOK(tx.post))' /\ phase' \in Phases
      BY <1>4 DEF JudgeInv, TxShape, SnapOK, JudgeTypeOK
<1> QED BY <1>2, <1>3, <1>4, <1>5, JudgedOrNot

Pages == [url : 0..1, present : BOOLEAN, text : 0..1, answers : BOOLEAN]

(* A transaction with one field changed.                                                 *)
LEMMA TxKept ==
  ASSUME TxShape, NEW r, NEW p, NEW q, NEW e, NEW i, NEW s, NEW c, NEW k, NEW g, NEW a,
         tx' = [receipt |-> r, pre |-> p, post |-> q, epoch |-> e, initial |-> i, settled |-> s, change |-> c,
                capture |-> k, picture |-> g, aged |-> a]
  PROVE  TxShape' /\ tx'.post = q
  BY DEF TxShape

LEMMA ObservesKeep == ASSUME JudgeInv, PreObserve PROVE JudgeInv'
<1>1. PICK snap : tx' = [tx EXCEPT !.pre = snap]
      BY DEF PreObserve
<1>2. TxShape' /\ tx'.post = tx.post
      BY <1>1 DEF JudgeInv, TxShape
<1>3. phase = "idle" /\ phase' = "observed" /\ UNCHANGED <<desktop, view, request, verdict, changes>>
      BY DEF PreObserve
<1> QED BY <1>2, <1>3, Gathers DEF JudgeInv, JudgeTypeOK, Phases, SnapOK

LEMMA DispatchKeeps == ASSUME JudgeInv, DispatchOk \/ DispatchNotOk PROVE JudgeInv'
<1>1. /\ phase = "observed" /\ phase' \in {"dispatched", "captured"}
      /\ UNCHANGED <<desktop, request, verdict, changes>>
      BY DEF DispatchOk, DispatchNotOk
<1>2. view' \in Pages
  <2>1. view \in Pages
        BY DEF JudgeInv, JudgeTypeOK, Pages
  <2> QED BY <2>1, PagesOK DEF DispatchOk, DispatchNotOk, Pages
<1>3. TxShape' /\ tx'.post = tx.post
  <2>1. CASE DispatchOk
    <3>1. PICK p : tx' = [tx EXCEPT !.receipt = "DISPATCHED", !.initial = p.url]
          BY <2>1 DEF DispatchOk
    <3> QED BY <3>1 DEF JudgeInv, TxShape
  <2>2. CASE DispatchNotOk
    <3>1. PICK s : tx' = [tx EXCEPT !.receipt = s]
          BY <2>2 DEF DispatchNotOk
    <3> QED BY <3>1 DEF JudgeInv, TxShape
  <2> QED BY <2>1, <2>2
<1> QED BY <1>1, <1>2, <1>3, Gathers DEF JudgeInv, Phases, Pages, SnapOK

LEMMA SettleKeeps == ASSUME JudgeInv, Settle PROVE JudgeInv'
<1>1. PICK s : tx' = [tx EXCEPT !.settled = s, !.epoch = @ + 1]
      BY DEF Settle
<1>2. TxShape' /\ tx'.post = tx.post
      BY <1>1 DEF JudgeInv, TxShape
<1>3. phase = "dispatched" /\ phase' = "settled" /\ UNCHANGED <<desktop, view, request, verdict, changes>>
      BY DEF Settle
<1> QED BY <1>2, <1>3, Gathers DEF JudgeInv, JudgeTypeOK, Phases, SnapOK

LEMMA PostObserveKeeps == ASSUME JudgeInv, PostObserve PROVE JudgeInv'
<1>1. PICK post : post = Snapshot(tx.epoch)
      OBVIOUS
<1>2. SnapOK(post)
      BY <1>1, SnapshotOK DEF JudgeInv
<1>3. PICK c, g : tx' = [tx EXCEPT !.post = post, !.picture = g, !.change = c]
      BY <1>1 DEF PostObserve
<1>4. TxShape' /\ tx'.post = post
      BY <1>3 DEF JudgeInv, TxShape
<1>5. phase = "settled" /\ phase' \in {"captured", "posted"} /\ UNCHANGED <<desktop, view, request, verdict, changes>>
      BY DEF PostObserve
<1> QED BY <1>2, <1>4, <1>5, Gathers DEF JudgeInv, JudgeTypeOK, Phases, SnapOK

LEMMA CaptureKeeps ==
  ASSUME JudgeInv, CaptureAges \/ CaptureRefused \/ CaptureChecked \/ CaptureValidated
  PROVE  JudgeInv'
<1>1. /\ phase \in {"posted", "cropped", "captured"} /\ phase' \in {"cropped", "captured"}
      /\ UNCHANGED <<desktop, view, request, verdict, changes>>
      BY DEF CaptureAges, CaptureRefused, CaptureChecked, CaptureValidated
<1>2. TxShape' /\ tx'.post = tx.post
  <2>1. CASE CaptureAges
        BY <2>1 DEF CaptureAges, JudgeInv, TxShape
  <2>2. CASE CaptureRefused
        BY <2>2 DEF CaptureRefused, JudgeInv, TxShape
  <2>3. CASE CaptureChecked
    <3>1. PICK k : tx' = [tx EXCEPT !.capture = k]
          BY <2>3 DEF CaptureChecked
    <3> QED BY <3>1 DEF JudgeInv, TxShape
  <2>4. CASE CaptureValidated
    <3>1. tx' = tx \/ tx' = [tx EXCEPT !.capture = Nothing]
          BY <2>4 DEF CaptureValidated
    <3> QED BY <3>1 DEF JudgeInv, TxShape
  <2> QED BY <2>1, <2>2, <2>3, <2>4
<1> QED BY <1>1, <1>2, Gathers DEF JudgeInv, JudgeTypeOK, Phases, SnapOK

LEMMA EvaluateKeeps == ASSUME JudgeInv, EvaluateTransaction PROVE JudgeInv'
<1>1. PICK v, claims : /\ v = SynthesizeVerdict(Claims, Contradictions) /\ claims = Claims
      OBVIOUS
<1>2. verdict' = [status |-> v[1], reason |-> v[2], claims |-> claims]
      BY <1>1 DEF EvaluateTransaction
<1>3. v[1] \in {"PASS", "FAIL", "UNVERIFIED"}
      BY <1>1 DEF SynthesizeVerdict
<1>4. phase' \in {"judged", "done"} /\ UNCHANGED <<desktop, view, request, tx, changes>>
      BY DEF EvaluateTransaction
<1>5. v[1] = "PASS" => Proven
      BY <1>1, PassIsProven
<1>6. JudgeTypeOK'
      BY <1>2, <1>3, <1>4 DEF JudgeInv, JudgeTypeOK, Phases
<1>7. Proven => Proven'
      BY <1>4 DEF Proven, Picture, Surface
<1>8. PassMeansProven'
      BY <1>2, <1>5, <1>7 DEF PassMeansProven, Proven, Picture
<1> QED BY <1>4, <1>6, <1>8 DEF JudgeInv, DeskOK, TxShape, SnapOK

LEMMA CollectKeeps == ASSUME JudgeInv, CollectEvidence \/ CollectBaseline PROVE JudgeInv'
<1>1. request' = [request EXCEPT !.caller = "evidence", !.expect = TRUE, !.url = Nothing, !.claim = "none",
                                 !.interactive = FALSE, !.confirmed = FALSE, !.level = 3]
      BY DEF CollectEvidence, CollectBaseline
<1>2. request' \in AnyRequest
  <2>1. PICK pictures \in {"none", "plain", "certifying"}, says \in BOOLEAN :
          request' = [caller |-> "evidence", expect |-> TRUE, url |-> Nothing, claim |-> "none",
                      interactive |-> FALSE, confirmed |-> FALSE, pictures |-> pictures,
                      says |-> says, level |-> 3]
        BY <1>1 DEF JudgeInv, AnyRequest
  <2> QED BY <2>1 DEF AnyRequest
<1>3. verdict' = NoVerdict
      BY DEF CollectEvidence, CollectBaseline, JudgeInv
<1>4. phase' = "posted" /\ UNCHANGED <<desktop, view, changes>>
      BY DEF CollectEvidence, CollectBaseline
<1>5. TxShape' /\ (tx'.post # Nothing => SnapOK(tx'.post))
  <2>1. CASE CollectEvidence
    <3>1. PICK post : /\ post = IF tx.post # Nothing THEN tx.post ELSE Snapshot(tx.epoch)
                      /\ tx' = [tx EXCEPT !.post = post, !.pre = IF @ = Nothing THEN post ELSE @,
                                          !.capture = Nothing, !.picture = Nothing, !.aged = FALSE]
          BY <2>1 DEF CollectEvidence
    <3>2. SnapOK(post)
      <4>1. CASE tx.post # Nothing
            BY <3>1, <4>1 DEF JudgeInv
      <4>2. CASE tx.post = Nothing
            BY <3>1, <4>2, SnapshotOK DEF JudgeInv
      <4> QED BY <4>1, <4>2
    <3>3. TxShape' /\ tx'.post = post
          BY <3>1 DEF JudgeInv, TxShape
    <3> QED BY <3>2, <3>3
  <2>2. CASE CollectBaseline
    <3>1. PICK s : s = Snapshot(0)
          OBVIOUS
    <3>2. SnapOK(s)
          BY <3>1, SnapshotOK DEF JudgeInv
    <3>3. tx' = [tx EXCEPT !.receipt = "DISPATCHED", !.post = s, !.pre = s]
          BY <2>2, <3>1 DEF CollectBaseline
    <3>4. TxShape' /\ tx'.post = s
          BY <3>3 DEF JudgeInv, TxShape
    <3> QED BY <3>2, <3>4
  <2> QED BY <2>1, <2>2
<1>6. DeskOK(desktop)' /\ view' \in Pages /\ changes' \in 0..MaxChanges /\ phase' \in Phases
      BY <1>4 DEF JudgeInv, JudgeTypeOK, DeskOK, Pages, Phases
<1> QED BY <1>2, <1>3, <1>5, <1>6, JudgedOrNot DEF Pages, SnapOK

LEMMA JudgeKept == JudgeInv /\ [JudgeNext]_judgeVars => JudgeInv'
<1> SUFFICES ASSUME JudgeInv, [JudgeNext]_judgeVars PROVE JudgeInv'
    OBVIOUS
<1>1. CASE UNCHANGED judgeVars
      BY <1>1 DEF judgeVars, JudgeInv, JudgeTypeOK, DeskOK, TxShape, SnapOK, PassMeansProven, Surface, Picture
<1> QED BY <1>1, WorldKeeps, ObservesKeep, DispatchKeeps, SettleKeeps, PostObserveKeeps, CaptureKeeps,
           EvaluateKeeps, CollectKeeps DEF JudgeNext

LEMMA JudgeAlways == JudgeSpec => []JudgeInv
  BY JudgeInitially, JudgeKept, PTL DEF JudgeSpec

(* The verdict's variables have their types, for any requests and either policy.          *)
THEOREM JudgeTypes == JudgeSpec => []JudgeTypeOK
<1>1. JudgeInv => JudgeTypeOK BY DEF JudgeInv
<1> QED BY <1>1, JudgeAlways, PTL

(* A PASS was never given while what it rests on was missing: whoever asks, and         *)
(* whatever changed between the observation, the capture and the verdict, the window     *)
(* was shown, a capture or a picture the caller certifies had its size, and its process  *)
(* was the expected one where the caller says which (evaluate_transaction).              *)
THEOREM PassesAreProven == JudgeSpec => []PassMeansProven
<1>1. JudgeInv => PassMeansProven BY DEF JudgeInv
<1> QED BY <1>1, JudgeAlways, PTL
------------------------------------------------------------------------------------
(* WebviewFrames: whatever the browser does and whenever its events, replies and     *)
(* losses come, an observation that retries counts on a world that is in the realm   *)
(* or on nothing, unless a context was lost since it began.                          *)

(* What the client may have to read.                                                 *)
Reports ==
  [kind : {"cleared", "attached", "detached"}]
    \cup [kind : {"navigated"}, frame : Frames, document : 1..MaxDocuments]
    \cup [kind : {"context"}, id : Ids, frame : Frames, utility : BOOLEAN]
    \cup [kind : {"ended"}, id : Ids]
    \cup [kind : {"tree"}, document : 1..MaxDocuments, child : BOOLEAN]
    \cup [kind : {"reply"}, caller : FrameCallers, ok : BOOLEAN, value : Nat]

(* The steps of an observation, and those that hold the lock.                        *)
Phase == {"idle", "ensure", "lock", "create", "creating", "created", "failed", "evaluate",
          "evaluating", "evaluated", "lost", "gone", "offline"}
Holding == {"create", "creating", "created", "failed"}
Observing == [step : Phase, frame : Frames, ctx : Ids, cached : Ids, epoch : Nat,
              since : Nat, retried : BOOLEAN, found : Nat]

(* A world an observation may count on: it lives, or a context was lost since the     *)
(* observation began.                                                                *)
InRealm(n) == \E r \in realm : r.id = n
Counted(c, n) == InRealm(n) \/ churn > task[c].since

(* An observation that has had the lock: a world made since is newer than it.        *)
Past(c) ==
  task[c].retried \/ task[c].step \in {"create", "creating", "created", "evaluate", "evaluating", "lost"}
CountedByAll(n) == \A c \in FrameCallers : Past(c) => Counted(c, n)

(* The browser's side.                                                               *)
PageOK ==
  /\ document \in 1..MaxDocuments /\ child \in BOOLEAN /\ told \in BOOLEAN
  /\ contexts \in 1..MaxContexts /\ churn \in Nat
  /\ realm \subseteq [id : 1..contexts, frame : Frames, utility : BOOLEAN] /\ IsFiniteSet(realm)
  /\ \E r \in realm : r.frame = "root"

(* What the client knows of it.                                                      *)
ClientTypes ==
  /\ core = [step |-> core.step, frames |-> core.frames, ax |-> core.ax]
  /\ core.frames \in [Frames -> FrameContext \cup {None}]
  /\ cache \in [Frames -> Ids]
  /\ epoch \in 1..document
  /\ refs \subseteq [epoch : 1..MaxDocuments, document : 1..MaxDocuments]
  /\ world \in FrameCallers \cup {None}

(* What is on its way: navigations in their row and ahead of the epoch, and of each *)
(* caller at most the one reply it waits for.                                        *)
ReplyOK(e) ==
  LET t == task[e.caller] IN
  /\ t.step \in {"creating", "evaluating"}
  /\ t.step = "creating" /\ e.ok => e.value \in Ids /\ CountedByAll(e.value)
  /\ t.step = "evaluating" => e.value \in 1..MaxDocuments /\ (t.retried /\ ~e.ok => churn > t.since)

ReportOK(e) ==
  /\ e.kind = "navigated" /\ e.frame = "root" => epoch < e.document /\ e.document <= document
  /\ e.kind = "reply" => ReplyOK(e)

InTurn(d, e) ==
  /\ d.kind = "navigated" /\ e.kind = "navigated" /\ d.frame = "root" /\ e.frame = "root"
       => d.document < e.document
  /\ ~(d.kind = "reply" /\ e.kind = "reply" /\ d.caller = e.caller)

EventsOK ==
  /\ events \in Seq(Reports) /\ Len(events) <= MaxEvents
  /\ \A i \in 1..Len(events) : ReportOK(events[i])
  /\ \A i, j \in 1..Len(events) : i < j => InTurn(events[i], events[j])

(* An observation: once it retries, whatever it may evaluate in is counted on.        *)
TaskOK(c) ==
  /\ task[c].since <= churn
  /\ world = c <=> task[c].step \in Holding
  /\ task[c].step = "created" => task[c].found \in Ids /\ CountedByAll(task[c].found)
  /\ task[c].step = "evaluated" => task[c].found \in 1..MaxDocuments
  /\ task[c].retried =>
       /\ task[c].step \in {"ensure", "lock"} =>
            cache[task[c].frame] = 0 \/ Counted(c, cache[task[c].frame])
       /\ task[c].step = "evaluate" => Counted(c, task[c].ctx)
       /\ task[c].step = "lost" => churn > task[c].since

TasksOK == task \in [FrameCallers -> Observing] /\ \A c \in FrameCallers : TaskOK(c)

FramesInv == PageOK /\ ClientTypes /\ EventsOK /\ TasksOK

----------------------------------------------------------------------------
(* The sequence of reports *)

LEMMA GrowingReports ==
  ASSUME NEW old \in Seq(Reports), NEW new \in Seq(Reports)
  PROVE  /\ old \o new \in Seq(Reports) /\ Len(old \o new) = Len(old) + Len(new)
         /\ \A i \in 1..Len(old) : (old \o new)[i] = old[i]
         /\ \A i \in 1..Len(old) + Len(new) :
              i \notin 1..Len(old) => i - Len(old) \in 1..Len(new) /\ (old \o new)[i] = new[i - Len(old)]
  OBVIOUS

LEMMA AddedReports ==
  ASSUME NEW old \in Seq(Reports), NEW new \in Seq(Reports), NEW q, q = old \o new
  PROVE  /\ q \in Seq(Reports) /\ Len(q) = Len(old) + Len(new) /\ Len(old) \in Nat
         /\ \A i \in 1..Len(old) : q[i] = old[i]
         /\ \A i \in 1..Len(new) : q[Len(old) + i] = new[i]
  OBVIOUS

LEMMA TailReports ==
  ASSUME NEW s \in Seq(Reports), s # <<>>
  PROVE  /\ Tail(s) \in Seq(Reports) /\ Len(Tail(s)) = Len(s) - 1
         /\ \A i \in 1..Len(Tail(s)) : Tail(s)[i] = s[i + 1]
         /\ Head(s) = s[1] /\ Head(s) \in Reports /\ Len(s) \in Nat /\ Len(s) > 0
  OBVIOUS

(* Reports are sent: what they say must be so, and in turn.                          *)
LEMMA ReportsSent ==
  ASSUME EventsOK, NEW new \in Seq(Reports), events' = events \o new,
         Len(events) + Len(new) <= MaxEvents,
         \A e \in Reports, i \in 1..Len(events) : e = events[i] => ReportOK(e)',
         \A i \in 1..Len(new) : ReportOK(new[i])',
         \A i, j \in 1..Len(new) : i < j => InTurn(new[i], new[j]),
         \A i \in 1..Len(events), j \in 1..Len(new) : InTurn(events[i], new[j])
  PROVE  EventsOK'
<1>1. /\ events' \in Seq(Reports) /\ Len(events') = Len(events) + Len(new)
      /\ Len(events) \in Nat /\ Len(new) \in Nat
      /\ \A i \in 1..Len(events) : events'[i] = events[i]
      /\ \A i \in 1..Len(events') :
           i \notin 1..Len(events) => i - Len(events) \in 1..Len(new) /\ events'[i] = new[i - Len(events)]
  BY GrowingReports DEF EventsOK
<1>2. \A i \in 1..Len(events') : ReportOK(events[i])'
  <2>1. SUFFICES ASSUME NEW i \in 1..Len(events') PROVE ReportOK(events[i])' OBVIOUS
  <2>2. PICK e \in Reports : e = events'[i] BY <1>1
  <2>3. ReportOK(e)'
    <3>1. CASE i \in 1..Len(events) BY <1>1, <2>2, <3>1 DEF EventsOK
    <3>2. CASE i \notin 1..Len(events)
      <4>1. PICK j \in 1..Len(new) : e = new[j] BY <1>1, <2>2, <3>2
      <4>2. ReportOK(new[j])' OBVIOUS
      <4>3. QED BY <4>1, <4>2
    <3>3. QED BY <3>1, <3>2
  <2>4. QED BY <2>2, <2>3
<1>3. ASSUME NEW i \in 1..Len(events'), NEW j \in 1..Len(events'), i < j
      PROVE  InTurn(events'[i], events'[j])
  <2>1. CASE i \in 1..Len(events) /\ j \in 1..Len(events) BY <1>1, <1>3, <2>1 DEF EventsOK
  <2>2. CASE i \in 1..Len(events) /\ j \notin 1..Len(events)
    <3>1. PICK k \in 1..Len(new) : events'[j] = new[k] BY <1>1, <2>2
    <3>2. QED BY <1>1, <2>2, <3>1
  <2>3. CASE i \notin 1..Len(events) /\ j \notin 1..Len(events)
    <3>1. PICK k, l : k = i - Len(events) /\ l = j - Len(events) OBVIOUS
    <3>2. /\ k \in 1..Len(new) /\ l \in 1..Len(new) /\ events'[i] = new[k] /\ events'[j] = new[l]
          /\ k < l
      BY <1>1, <1>3, <2>3, <3>1
    <3>3. QED BY <3>2
  <2>4. i \notin 1..Len(events) => j \notin 1..Len(events) BY <1>1, <1>3
  <2>5. QED BY <2>1, <2>2, <2>3, <2>4
<1>4. Len(events') <= MaxEvents BY <1>1
<1>5. QED BY <1>1, <1>2, <1>3, <1>4, Zenon DEF EventsOK

(* The next report is read: nothing else need be said of it.                         *)
LEMMA ReportRead ==
  ASSUME EventsOK, events # <<>>, events' = Tail(events),
         \A e \in Reports : ReportOK(e) /\ InTurn(Head(events), e) => ReportOK(e)'
  PROVE  EventsOK'
<1>1. /\ events' \in Seq(Reports) /\ Len(events') = Len(events) - 1 /\ Len(events) \in Nat \ {0}
      /\ \A i \in 1..Len(events') : i + 1 \in 2..Len(events) /\ events'[i] = events[i + 1]
      /\ Head(events) = events[1] /\ MaxEvents \in Nat
  BY TailReports, FramesAssumption DEF EventsOK
<1>2. \A i \in 1..Len(events') : ReportOK(events[i])'
  <2>1. SUFFICES ASSUME NEW i \in 1..Len(events') PROVE ReportOK(events[i])' OBVIOUS
  <2>2. PICK e \in Reports : e = events'[i] BY <1>1
  <2>3. e = events[i + 1] /\ i + 1 \in 1..Len(events) /\ 1 \in 1..Len(events) /\ 1 < i + 1 BY <1>1, <2>2
  <2>4. ReportOK(e) /\ InTurn(Head(events), e) BY <1>1, <2>3 DEF EventsOK
  <2>5. QED BY <2>2, <2>4
<1>3. ASSUME NEW i \in 1..Len(events'), NEW j \in 1..Len(events'), i < j
      PROVE  InTurn(events'[i], events'[j])
  <2>1. i + 1 \in 1..Len(events) /\ j + 1 \in 1..Len(events) /\ i + 1 < j + 1 BY <1>1, <1>3
  <2>2. QED BY <1>1, <2>1 DEF EventsOK
<1>4. Len(events') <= MaxEvents BY <1>1 DEF EventsOK
<1>5. QED BY <1>1, <1>2, <1>3, <1>4, Zenon DEF EventsOK

(* Every report in the sequence is one.                                              *)
LEMMA ReportsAre ==
  ASSUME EventsOK, NEW i \in 1..Len(events) PROVE events[i] \in Reports
  BY DEF EventsOK

----------------------------------------------------------------------------
(* What the steps of the page and of one observation leave to the others *)

(* Contexts come, or one was lost: nobody counts on more than before.                *)
LEMMA PageMoves ==
  ASSUME PageOK, TasksOK, UNCHANGED <<task, epoch, cache, world>>, document' \in {document, document + 1},
         (churn' = churn /\ realm \subseteq realm') \/ churn' = churn + 1
  PROVE  /\ TasksOK'
         /\ \A e \in Reports : ReportOK(e) => ReportOK(e)'
<1>1. churn \in Nat /\ document \in Nat BY FramesAssumption DEF PageOK
<1>2. ASSUME NEW c \in FrameCallers PROVE task[c].since \in Nat /\ task[c].since <= churn
  BY DEF TasksOK, TaskOK, Observing
<1>3. ASSUME NEW c \in FrameCallers, NEW n, Counted(c, n) PROVE Counted(c, n)'
  BY <1>1, <1>2, <1>3 DEF Counted, InRealm
<1>4. ASSUME NEW n, CountedByAll(n) PROVE CountedByAll(n)'
  BY <1>3, <1>4 DEF CountedByAll, Past
<1>5. ASSUME NEW c \in FrameCallers PROVE TaskOK(c)'
  <2>1. TaskOK(c) BY DEF TasksOK
  <2>2. churn' >= churn /\ churn' \in Nat BY <1>1
  <2>3. \A n : CountedByAll(n) => CountedByAll(n)' BY <1>4
  <2>4. \A n : Counted(c, n) => Counted(c, n)' BY <1>3
  <2>5. task[c].since <= churn' /\ (churn > task[c].since => churn' > task[c].since) BY <1>1, <1>2, <2>2
  <2>6. QED BY <2>1, <2>3, <2>4, <2>5 DEF TaskOK
<1>6. ASSUME NEW e \in Reports, ReportOK(e) PROVE ReportOK(e)'
  <2>1. e.kind = "navigated" => e.document \in Nat BY FramesAssumption DEF Reports
  <2>2. e.kind = "reply" => e.caller \in FrameCallers BY DEF Reports
  <2>3. e.kind = "reply" => ReplyOK(e)'
    <3>1. SUFFICES ASSUME e.kind = "reply" PROVE ReplyOK(e)' OBVIOUS
    <3>2. ReplyOK(e) /\ e.caller \in FrameCallers BY <1>6, <2>2, <3>1 DEF ReportOK
    <3>3. churn > task[e.caller].since => churn' > task[e.caller].since BY <1>1, <1>2, <3>2
    <3>4. CountedByAll(e.value) => CountedByAll(e.value)' BY <1>4
    <3>5. QED BY <3>2, <3>3, <3>4 DEF ReplyOK
  <2>4. e.kind = "navigated" /\ e.frame = "root" => epoch' < e.document /\ e.document <= document'
    BY <1>1, <1>6, <2>1 DEF ReportOK
  <2>5. QED BY <2>3, <2>4 DEF ReportOK
<1>7. QED BY <1>5, <1>6 DEF TasksOK

(* An observation moves on: what the others count on is still there, unless it is     *)
(* given the lock, when no world is being made.                                      *)
Steady(c, t) == (Past(c)' => Past(c) /\ t.since = task[c].since) \/ world = None
CacheKept(c) ==
  \A d \in FrameCallers \ {c} :
    \/ cache'[task[d].frame] = 0 \/ cache'[task[d].frame] = cache[task[d].frame]
    \/ Past(d) => Counted(d, cache'[task[d].frame])

LEMMA OthersGoOn ==
  ASSUME PageOK, TasksOK, NEW c \in FrameCallers, NEW t \in Observing, task' = [task EXCEPT ![c] = t],
         UNCHANGED <<churn, document, epoch>>, realm \subseteq realm', Steady(c, t), CacheKept(c),
         \A d \in FrameCallers \ {c} : world' = d <=> world = d
  PROVE  /\ task' \in [FrameCallers -> Observing]
         /\ \A d \in FrameCallers \ {c} : TaskOK(d)'
         /\ \A e \in Reports : ReportOK(e) /\ (e.kind = "reply" => e.caller # c) => ReportOK(e)'
         /\ Past(c) /\ t.since = task[c].since => \A n : CountedByAll(n) => CountedByAll(n)'
<1>1. /\ task' \in [FrameCallers -> Observing] /\ task \in [FrameCallers -> Observing] /\ task'[c] = t
      /\ \A d \in FrameCallers \ {c} : task'[d] = task[d]
  BY DEF TasksOK
<1>2. ASSUME NEW d \in FrameCallers \ {c}, NEW n, Counted(d, n) PROVE Counted(d, n)'
  BY <1>1, <1>2 DEF Counted, InRealm
<1>3. ASSUME Past(c)' => Past(c) /\ t.since = task[c].since, NEW n, CountedByAll(n) PROVE CountedByAll(n)'
  <2>1. SUFFICES ASSUME NEW d \in FrameCallers, Past(d)' PROVE Counted(d, n)' BY DEF CountedByAll
  <2>2. CASE d = c
    <3>1. Counted(c, n) BY <1>3, <2>1, <2>2 DEF CountedByAll
    <3>2. QED BY <1>1, <1>3, <2>1, <2>2, <3>1 DEF Counted, InRealm
  <2>3. CASE d # c
    <3>1. Past(d) BY <1>1, <2>1, <2>3 DEF Past
    <3>2. Counted(d, n) BY <1>3, <3>1 DEF CountedByAll
    <3>3. QED BY <1>2, <2>3, <3>2
  <2>4. QED BY <2>2, <2>3
<1>4. ASSUME world = None, NEW d \in FrameCallers PROVE task[d].step \notin Holding
  BY <1>4, FramesAssumption DEF TasksOK, TaskOK
<1>5. ASSUME NEW d \in FrameCallers \ {c} PROVE TaskOK(d)'
  <2>1. PICK b : b = task[d] OBVIOUS
  <2>2. PICK n : n = cache'[b.frame] OBVIOUS
  <2>3. TaskOK(d) /\ task'[d] = b BY <1>1, <2>1 DEF TasksOK
  <2>4. b.step = "created" => CountedByAll(b.found)'
    <3>1. CASE world = None BY <1>4, <2>1, <3>1 DEF Holding
    <3>2. CASE Past(c)' => Past(c) /\ t.since = task[c].since BY <1>3, <2>1, <2>3, <3>2 DEF TaskOK
    <3>3. QED BY <3>1, <3>2 DEF Steady
  <2>5. b.retried /\ b.step \in {"ensure", "lock"} => n = 0 \/ Counted(d, n)'
    <3>1. SUFFICES ASSUME b.retried, b.step \in {"ensure", "lock"}, n # 0 PROVE Counted(d, n)'
      OBVIOUS
    <3>2. Counted(d, n) BY <2>1, <2>2, <2>3, <3>1 DEF TaskOK, CacheKept, Past
    <3>3. QED BY <1>2, <3>2
  <2>6. b.retried /\ b.step = "evaluate" => Counted(d, b.ctx)' BY <1>2, <2>1, <2>3 DEF TaskOK
  <2>7. /\ b.since <= churn'
        /\ world' = d <=> b.step \in Holding
        /\ b.step = "evaluated" => b.found \in 1..MaxDocuments
        /\ b.retried /\ b.step = "lost" => churn' > b.since
        /\ b.step = "created" => b.found \in Ids
    BY <2>1, <2>3 DEF TaskOK
  <2>8. QED BY <2>2, <2>3, <2>4, <2>5, <2>6, <2>7 DEF TaskOK
<1>6. ASSUME NEW e \in Reports, ReportOK(e), e.kind = "reply" => e.caller # c PROVE ReportOK(e)'
  <2>1. e.kind = "reply" => ReplyOK(e)'
    <3>1. SUFFICES ASSUME e.kind = "reply" PROVE ReplyOK(e)' OBVIOUS
    <3>2. ReplyOK(e) /\ e.caller \in FrameCallers \ {c} BY <1>6, <3>1 DEF ReportOK, Reports
    <3>3. task'[e.caller] = task[e.caller] BY <1>1, <3>2
    <3>4. task[e.caller].step = "creating" /\ e.ok => CountedByAll(e.value)'
      <4>1. CASE world = None BY <1>4, <3>2, <4>1 DEF Holding
      <4>2. CASE Past(c)' => Past(c) /\ t.since = task[c].since BY <1>3, <3>2, <4>2 DEF ReplyOK
      <4>3. QED BY <4>1, <4>2 DEF Steady
    <3>5. QED BY <3>2, <3>3, <3>4 DEF ReplyOK
  <2>2. QED BY <1>6, <2>1 DEF ReportOK
<1>7. Past(c) /\ t.since = task[c].since => \A n : CountedByAll(n) => CountedByAll(n)' BY <1>3
<1>8. QED BY <1>1, <1>5, <1>6, <1>7

(* A caller that waits for no reply has none on its way.                             *)
LEMMA NoReplyComes ==
  ASSUME EventsOK, NEW c \in FrameCallers, task[c].step \notin {"creating", "evaluating"},
         NEW i \in 1..Len(events), events[i].kind = "reply"
  PROVE  events[i].caller # c
  BY DEF EventsOK, ReportOK, ReplyOK

(* A step of an observation that the wire has no part in.                            *)
LEMMA ObservationMoves ==
  ASSUME PageOK, EventsOK, TasksOK, NEW c \in FrameCallers, NEW t \in Observing,
         task' = [task EXCEPT ![c] = t], UNCHANGED <<realm, churn, document, epoch, events>>,
         task[c].step \notin {"creating", "evaluating"}, Steady(c, t), CacheKept(c),
         \A d \in FrameCallers \ {c} : world' = d <=> world = d,
         TaskOK(c)'
  PROVE  EventsOK' /\ TasksOK'
<1>1. /\ task' \in [FrameCallers -> Observing]
      /\ \A d \in FrameCallers \ {c} : TaskOK(d)'
      /\ \A e \in Reports : ReportOK(e) /\ (e.kind = "reply" => e.caller # c) => ReportOK(e)'
  BY OthersGoOn
<1>2. TasksOK' BY <1>1 DEF TasksOK
<1>3. \A i \in 1..Len(events) : ReportOK(events[i])'
  <2>1. SUFFICES ASSUME NEW i \in 1..Len(events) PROVE ReportOK(events[i])' OBVIOUS
  <2>2. PICK e \in Reports : e = events[i] BY ReportsAre
  <2>3. ReportOK(e) /\ (e.kind = "reply" => e.caller # c) BY <2>2, NoReplyComes DEF EventsOK
  <2>4. ReportOK(e)' BY <1>1, <2>3
  <2>5. QED BY <2>2, <2>4
<1>4. QED BY <1>2, <1>3 DEF EventsOK
----------------------------------------------------------------------------
(* The page *)

LEMMA NoTaskTypes ==
  /\ NoTask \in Observing /\ NoTask.step = "idle" /\ NoTask.since = 0 /\ NoTask.retried = FALSE
  BY FramesAssumption DEF NoTask, Observing, Phase, Frames, Ids

LEMMA FramesInitially == FramesInit => FramesInv
<1> SUFFICES ASSUME FramesInit PROVE FramesInv OBVIOUS
<1>1. PageOK
  <2>1. IsFiniteSet(realm) BY FS_Singleton DEF FramesInit
  <2>2. PICK r : r = [id |-> 1, frame |-> "root", utility |-> FALSE] OBVIOUS
  <2>3. realm = {r} /\ contexts = 1 /\ r \in [id : 1..1, frame : Frames, utility : BOOLEAN] /\ r.frame = "root"
    BY <2>2 DEF FramesInit, Frames
  <2>4. document \in 1..MaxDocuments /\ contexts \in 1..MaxContexts /\ churn \in Nat
    BY FramesAssumption DEF FramesInit
  <2>5. child \in BOOLEAN /\ told \in BOOLEAN BY DEF FramesInit
  <2>6. QED BY <2>1, <2>3, <2>4, <2>5 DEF PageOK
<1>2. ClientTypes BY FramesAssumption DEF FramesInit, ClientTypes, Frames, Ids
<1>3. EventsOK BY FramesAssumption DEF FramesInit, EventsOK
<1>4. TasksOK
  <2>1. NoTask \in Observing BY FramesAssumption DEF NoTask, Observing, Phase, Frames, Ids
  <2>2. \A c \in FrameCallers : TaskOK(c)
    BY FramesAssumption DEF FramesInit, TaskOK, NoTask, Holding
  <2>3. QED BY <2>1, <2>2 DEF FramesInit, TasksOK
<1>5. QED BY <1>1, <1>2, <1>3, <1>4 DEF FramesInv

LEMMA Triple ==
  ASSUME NEW a \in Reports, NEW b \in Reports, NEW d \in Reports
  PROVE  /\ <<a, b, d>> \in Seq(Reports) /\ Len(<<a, b, d>>) = 3
         /\ \A i \in 1..3 : <<a, b, d>>[i] \in {a, b, d}
         /\ <<a, b, d>>[1] = a /\ <<a, b, d>>[2] = b /\ <<a, b, d>>[3] = d
  OBVIOUS

LEMMA Single ==
  ASSUME NEW a \in Reports PROVE <<a>> \in Seq(Reports) /\ Len(<<a>>) = 1 /\ <<a>>[1] = a
  OBVIOUS

LEMMA Pair ==
  ASSUME NEW w \in Reports, NEW a \in Reports
  PROVE  /\ <<w, a>> \in Seq(Reports) /\ Len(<<w, a>>) = 2 /\ <<w, a>>[1] = w /\ <<w, a>>[2] = a
         /\ <<w>> \o <<a>> = <<w, a>>
<1>1. <<w, a>> \in Seq(Reports) /\ Len(<<w, a>>) = 2 /\ <<w, a>>[1] = w /\ <<w, a>>[2] = a OBVIOUS
<1>2. PICK p, q, u, v : p = u \o v /\ q = <<w, a>> /\ u = <<w>> /\ v = <<a>> OBVIOUS
<1>3. u \in Seq(Reports) /\ v \in Seq(Reports) /\ Len(u) = 1 /\ Len(v) = 1 /\ u[1] = w /\ v[1] = a
  BY <1>2, Single
<1>4. p \in Seq(Reports) /\ Len(p) = 2 /\ p[1] = w /\ p[2] = a BY <1>2, <1>3, GrowingReports
<1>5. q \in Seq(Reports) /\ Len(q) = 2 /\ q[1] = w /\ q[2] = a BY <1>1, <1>2
<1>6. \A i \in 1..2 : p[i] = q[i] BY <1>4, <1>5
<1>7. p = q BY <1>4, <1>5, <1>6, SeqEqual
<1>8. QED BY <1>1, <1>2, <1>7, Zenon

LEMMA ReportThenReply ==
  ASSUME NEW s \in Seq(Reports), NEW w \in Reports, NEW a \in Reports
  PROVE  /\ s \o <<w>> \o <<a>> = s \o <<w, a>> /\ s \o <<>> = s
         /\ <<w, a>> \in Seq(Reports) /\ Len(<<w, a>>) = 2 /\ <<w, a>>[1] = w /\ <<w, a>>[2] = a
         /\ <<a>> \in Seq(Reports) /\ Len(<<a>>) = 1 /\ <<a>>[1] = a
<1>1. PICK u, v, p : u = <<w>> /\ v = <<a>> /\ p = <<w, a>> OBVIOUS
<1>2. u \in Seq(Reports) /\ v \in Seq(Reports) /\ p \in Seq(Reports) BY <1>1, Single, Pair, Zenon
<1>3. Len(u) = 1 /\ Len(v) = 1 /\ Len(p) = 2 /\ u[1] = w /\ v[1] = a /\ p[1] = w /\ p[2] = a
  BY <1>1, Single, Pair, Zenon
<1>4. PICK q, y, z : q = s \o u /\ y = q \o v /\ z = s \o p OBVIOUS
<1>5. q \in Seq(Reports) /\ y \in Seq(Reports) /\ z \in Seq(Reports) BY <1>2, <1>4, AddedReports
<1>6. \A r, t, n : r \in Seq(Reports) /\ t \in Seq(Reports) /\ n = r \o t =>
        /\ Len(n) = Len(r) + Len(t) /\ Len(r) \in Nat
        /\ \A i \in 1..Len(r) : n[i] = r[i]
        /\ \A i \in 1..Len(t) : n[Len(r) + i] = t[i]
  BY AddedReports
<1>7. /\ Len(q) = Len(s) + 1 /\ Len(s) \in Nat /\ Len(y) = Len(q) + 1 /\ Len(z) = Len(s) + 2
      /\ q[Len(s) + 1] = w /\ y[Len(q) + 1] = a /\ z[Len(s) + 1] = w /\ z[Len(s) + 2] = a
      /\ \A i \in 1..Len(s) : q[i] = s[i] /\ z[i] = s[i]
      /\ \A i \in 1..Len(q) : y[i] = q[i]
  <2>1. /\ Len(q) = Len(s) + Len(u) /\ Len(s) \in Nat
        /\ \A i \in 1..Len(s) : q[i] = s[i]
        /\ \A i \in 1..Len(u) : q[Len(s) + i] = u[i]
    BY <1>2, <1>4, <1>6, SMT
  <2>2. /\ Len(y) = Len(q) + Len(v)
        /\ \A i \in 1..Len(q) : y[i] = q[i]
        /\ \A i \in 1..Len(v) : y[Len(q) + i] = v[i]
    BY <1>2, <1>4, <1>5, <1>6, SMT
  <2>3. /\ Len(z) = Len(s) + Len(p)
        /\ \A i \in 1..Len(s) : z[i] = s[i]
        /\ \A i \in 1..Len(p) : z[Len(s) + i] = p[i]
    BY <1>2, <1>4, <1>6, SMT
  <2>4. QED BY <1>3, <2>1, <2>2, <2>3
<1>8. Len(y) = Len(z) /\ \A i \in 1..Len(y) : y[i] = z[i]
  <2>1. \A i \in 1..Len(s) : i \in 1..Len(q) BY <1>7
  <2>2. \A i \in 1..Len(y) : i \in 1..Len(s) \/ i = Len(s) + 1 \/ i = Len(s) + 2 BY <1>7
  <2>3. y[Len(s) + 1] = w BY <1>7
  <2>4. QED BY <1>7, <2>1, <2>2, <2>3
<1>10. y = z BY <1>5, <1>8, SeqEqual
<1>11. s \o <<w>> \o <<a>> = s \o <<w, a>> BY <1>1, <1>4, <1>10, Zenon
<1>12. s \o <<>> = s OBVIOUS
<1>13. QED BY <1>11, <1>12, Pair, Single, Zenon

(* A context that is made is of the page.                                            *)
LEMMA RealmGrows ==
  ASSUME PageOK, contexts < MaxContexts, NEW f \in Frames, NEW u \in BOOLEAN
  PROVE  LET q == [id |-> contexts + 1, frame |-> f, utility |-> u] IN
         /\ contexts + 1 \in 1..MaxContexts /\ contexts + 1 \in Ids
         /\ realm \cup {q} \subseteq [id : 1..(contexts + 1), frame : Frames, utility : BOOLEAN]
         /\ {q} \subseteq [id : 1..(contexts + 1), frame : Frames, utility : BOOLEAN]
         /\ IsFiniteSet(realm \cup {q}) /\ IsFiniteSet({q})
<1>1. PICK q : q = [id |-> contexts + 1, frame |-> f, utility |-> u] OBVIOUS
<1>2. contexts \in Nat /\ contexts + 1 \in 1..MaxContexts /\ contexts + 1 \in Ids
  BY FramesAssumption DEF PageOK, Ids
<1>3. q \in [id : 1..(contexts + 1), frame : Frames, utility : BOOLEAN] BY <1>1, <1>2
<1>4. realm \subseteq [id : 1..(contexts + 1), frame : Frames, utility : BOOLEAN]
  <2>1. SUFFICES ASSUME NEW r \in realm PROVE r \in [id : 1..(contexts + 1), frame : Frames, utility : BOOLEAN]
    OBVIOUS
  <2>2. r \in [id : 1..contexts, frame : Frames, utility : BOOLEAN] BY DEF PageOK
  <2>3. QED BY <1>2, <2>2
<1>5. IsFiniteSet({q}) /\ IsFiniteSet(realm \cup {q}) BY FS_Singleton, FS_Union DEF PageOK
<1>6. QED BY <1>1, <1>2, <1>3, <1>4, <1>5

(* A step of the page, that tells at most three reports and keeps its types.          *)
LEMMA PageStep ==
  ASSUME FramesInv, PageOK', UNCHANGED <<known, world, task>>, document' \in {document, document + 1},
         (churn' = churn /\ realm \subseteq realm') \/ churn' = churn + 1,
         NEW new \in Seq(Reports), Len(events) + Len(new) <= MaxEvents, Tell(new),
         \A i \in 1..Len(new) :
           /\ new[i].kind # "reply"
           /\ new[i].kind = "navigated" /\ new[i].frame = "root" =>
                document' = document + 1 /\ new[i].document = document'
                /\ \A j \in 1..Len(new) : new[j].kind = "navigated" => j = i
  PROVE  FramesInv'
<1>0. /\ document \in Nat /\ epoch \in Nat /\ epoch <= document /\ document' >= document
      /\ UNCHANGED <<core, cache, epoch, refs>>
  BY FramesAssumption DEF FramesInv, PageOK, ClientTypes, known
<1>1. TasksOK' /\ \A e \in Reports : ReportOK(e) => ReportOK(e)'
  BY <1>0, PageMoves DEF FramesInv
<1>2. ClientTypes' BY <1>0 DEF FramesInv, ClientTypes
<1>3. EventsOK'
  <2>1. CASE told
    <3>1. \A i \in 1..Len(new) : ReportOK(new[i])'
      <4>1. SUFFICES ASSUME NEW i \in 1..Len(new) PROVE ReportOK(new[i])' OBVIOUS
      <4>2. PICK e : e = new[i] OBVIOUS
      <4>3. ReportOK(e)' BY <1>0, <4>2 DEF ReportOK
      <4>4. QED BY <4>2, <4>3
    <3>2. \A i, j \in 1..Len(new) : i < j => InTurn(new[i], new[j]) BY DEF InTurn
    <3>3. \A i \in 1..Len(events), j \in 1..Len(new) : InTurn(events[i], new[j])
      <4>1. SUFFICES ASSUME NEW i \in 1..Len(events), NEW j \in 1..Len(new) PROVE InTurn(events[i], new[j])
        OBVIOUS
      <4>2. events[i].kind = "navigated" /\ events[i].frame = "root" => events[i].document <= document
        BY DEF FramesInv, EventsOK, ReportOK
      <4>3. events[i].kind = "navigated" => events[i].document \in Nat
        <5>1. events[i] \in Reports BY ReportsAre DEF FramesInv
        <5>2. QED BY <5>1, FramesAssumption DEF Reports
      <4>4. QED BY <1>0, <4>2, <4>3 DEF InTurn
    <3>4. events' = events \o new BY <2>1 DEF Tell
    <3>5. \A e \in Reports, i \in 1..Len(events) : e = events[i] => ReportOK(e)'
      <4>1. SUFFICES ASSUME NEW e \in Reports, NEW i \in 1..Len(events), e = events[i] PROVE ReportOK(e)'
        OBVIOUS
      <4>2. ReportOK(e) BY <4>1 DEF FramesInv, EventsOK
      <4>3. QED BY <1>1, <4>2
    <3>6. QED BY <3>1, <3>2, <3>3, <3>4, <3>5, ReportsSent DEF FramesInv
  <2>2. CASE ~told
    <3>1. events' = events BY <2>2 DEF Tell
    <3>2. \A i \in 1..Len(events) : ReportOK(events[i])'
      <4>1. SUFFICES ASSUME NEW i \in 1..Len(events) PROVE ReportOK(events[i])' OBVIOUS
      <4>2. PICK e \in Reports : e = events[i] BY ReportsAre DEF FramesInv
      <4>3. ReportOK(e) BY <4>2 DEF FramesInv, EventsOK
      <4>4. ReportOK(e)' BY <1>1, <4>3
      <4>5. QED BY <3>1, <4>2, <4>4
    <3>3. QED BY <3>1, <3>2 DEF FramesInv, EventsOK
  <2>3. QED BY <2>1, <2>2
<1>4. QED BY <1>1, <1>2, <1>3 DEF FramesInv

LEMMA NavigateInv == ASSUME FramesInv, Navigate PROVE FramesInv'
<1>1. PageOK /\ contexts < MaxContexts /\ document < MaxDocuments BY DEF FramesInv, Navigate
<1>2. PICK a, b, d : /\ a = [kind |-> "cleared"]
                     /\ b = [kind |-> "navigated", frame |-> "root", document |-> document + 1]
                     /\ d = ContextCreated(contexts + 1, "root", FALSE)
  OBVIOUS
<1>3. document \in Nat /\ document + 1 \in 1..MaxDocuments /\ contexts + 1 \in Ids
      /\ contexts + 1 \in 1..MaxContexts /\ Len(events) \in Nat
  BY <1>1, FramesAssumption DEF PageOK, Ids, FramesInv, EventsOK
<1>4. a \in Reports /\ b \in Reports /\ d \in Reports
  BY <1>2, <1>3 DEF Reports, ContextCreated, Frames
<1>5. PICK new : new = <<a, b, d>> OBVIOUS
<1>6. new \in Seq(Reports) /\ Len(new) = 3 /\ new[1] = a /\ new[2] = b /\ new[3] = d
  BY <1>4, <1>5, Triple
<1>7. PageOK'
  <2>1. PICK q : q = [id |-> contexts + 1, frame |-> "root", utility |-> FALSE] OBVIOUS
  <2>2. realm' = {q} BY <2>1 DEF Navigate
  <2>3. {q} \subseteq [id : 1..(contexts + 1), frame : Frames, utility : BOOLEAN] /\ IsFiniteSet({q})
    BY <1>1, <2>1, RealmGrows DEF Frames
  <2>4. q.frame = "root" BY <2>1
  <2>5. contexts' = contexts + 1 /\ document' = document + 1 /\ child' = FALSE /\ told' = told /\ churn' = churn + 1
    BY DEF Navigate
  <2>6. /\ realm' \subseteq [id : 1..contexts', frame : Frames, utility : BOOLEAN] /\ IsFiniteSet(realm')
        /\ \E r \in realm' : r.frame = "root"
    BY <2>2, <2>3, <2>4, <2>5
  <2>7. /\ document' \in 1..MaxDocuments /\ contexts' \in 1..MaxContexts /\ churn' \in Nat
        /\ child' \in BOOLEAN /\ told' \in BOOLEAN
    <3>1. churn \in Nat /\ told \in BOOLEAN BY <1>1 DEF PageOK
    <3>2. churn + 1 \in Nat BY <3>1
    <3>3. QED BY <1>3, <2>5, <3>1, <3>2
  <2>8. QED BY <2>6, <2>7 DEF PageOK
<1>8. Tell(new) BY <1>2, <1>5 DEF Navigate
<1>9. Len(events) + Len(new) <= MaxEvents BY <1>6 DEF Navigate, Fits
<1>10. \A i \in 1..Len(new) :
           /\ new[i].kind # "reply"
           /\ new[i].kind = "navigated" /\ new[i].frame = "root" =>
                document' = document + 1 /\ new[i].document = document'
                /\ \A j \in 1..Len(new) : new[j].kind = "navigated" => j = i
  <2>1. a.kind = "cleared" /\ b.kind = "navigated" /\ b.document = document + 1 /\ d.kind = "context"
    BY <1>2 DEF ContextCreated
  <2>2. \A i \in 1..Len(new) : i = 1 \/ i = 2 \/ i = 3 BY <1>6
  <2>3. document' = document + 1 BY DEF Navigate
  <2>4. QED BY <1>6, <2>1, <2>2, <2>3
<1>11. UNCHANGED <<known, world, task>> /\ document' = document + 1 /\ churn' = churn + 1 BY DEF Navigate
<1>12. QED BY <1>6, <1>7, <1>8, <1>9, <1>10, <1>11, PageStep

LEMMA ChildAppearsInv == ASSUME FramesInv, ChildAppears PROVE FramesInv'
<1>1. PageOK /\ contexts < MaxContexts BY DEF FramesInv, ChildAppears
<1>2. PICK a, b, d : /\ a = [kind |-> "attached"]
                     /\ b = [kind |-> "navigated", frame |-> "child", document |-> document]
                     /\ d = ContextCreated(contexts + 1, "child", FALSE)
  OBVIOUS
<1>3. document \in 1..MaxDocuments /\ contexts + 1 \in Ids
      /\ contexts + 1 \in 1..MaxContexts /\ Len(events) \in Nat
  BY <1>1, FramesAssumption DEF PageOK, Ids, FramesInv, EventsOK
<1>4. a \in Reports /\ b \in Reports /\ d \in Reports
  BY <1>2, <1>3 DEF Reports, ContextCreated, Frames
<1>5. PICK new : new = <<a, b, d>> OBVIOUS
<1>6. new \in Seq(Reports) /\ Len(new) = 3 /\ new[1] = a /\ new[2] = b /\ new[3] = d
  BY <1>4, <1>5, Triple
<1>7. PageOK' /\ realm \subseteq realm'
  <2>1. PICK q : q = [id |-> contexts + 1, frame |-> "child", utility |-> FALSE] OBVIOUS
  <2>2. realm' = realm \cup {q} BY <2>1 DEF ChildAppears
  <2>3. /\ realm \cup {q} \subseteq [id : 1..(contexts + 1), frame : Frames, utility : BOOLEAN]
        /\ IsFiniteSet(realm \cup {q})
    BY <1>1, <2>1, RealmGrows DEF Frames
  <2>4. contexts' = contexts + 1 /\ document' = document /\ child' = TRUE /\ told' = told /\ churn' = churn
    BY DEF ChildAppears
  <2>5. \E r \in realm' : r.frame = "root" BY <1>1, <2>2 DEF PageOK
  <2>6. QED BY <1>1, <1>3, <2>2, <2>3, <2>4, <2>5 DEF PageOK
<1>8. Tell(new) BY <1>2, <1>5 DEF ChildAppears
<1>9. Len(events) + Len(new) <= MaxEvents BY <1>6 DEF ChildAppears, Fits
<1>10. \A i \in 1..Len(new) :
           /\ new[i].kind # "reply"
           /\ ~(new[i].kind = "navigated" /\ new[i].frame = "root")
  <2>1. a.kind = "attached" /\ b.frame = "child" /\ d.kind = "context" /\ b.kind = "navigated"
    BY <1>2 DEF ContextCreated
  <2>2. \A i \in 1..Len(new) : i = 1 \/ i = 2 \/ i = 3 BY <1>6
  <2>3. QED BY <1>6, <2>1, <2>2
<1>11. UNCHANGED <<known, world, task>> /\ document' = document /\ churn' = churn BY DEF ChildAppears
<1>12. QED BY <1>6, <1>7, <1>8, <1>9, <1>10, <1>11, PageStep

LEMMA ChildGoesInv == ASSUME FramesInv, ChildGoes PROVE FramesInv'
<1>1. PICK its, n : its = {r \in realm : r.frame = "child"} /\ n = Cardinality(its) OBVIOUS
<1>2. PICK row \in [1..n -> its] :
        Tell([i \in DOMAIN row |-> Ended(row[i])] \o <<[kind |-> "detached"]>>)
  BY <1>1 DEF ChildGoes
<1>3. n <= 2 /\ realm' = realm \ its BY <1>1 DEF ChildGoes
<1>4. IsFiniteSet(its) /\ n \in Nat /\ IsFiniteSet(realm') BY <1>1, <1>3, FS_Subset, FS_CardinalityType DEF FramesInv, PageOK
<1>5. PICK a, b : a = [i \in DOMAIN row |-> Ended(row[i])] /\ b = <<[kind |-> "detached"]>> OBVIOUS
<1>6. \A r \in realm : Ended(r) \in Reports /\ Ended(r).kind = "ended"
  <2>1. SUFFICES ASSUME NEW r \in realm PROVE Ended(r) \in Reports /\ Ended(r).kind = "ended" OBVIOUS
  <2>2. r \in [id : 1..contexts, frame : Frames, utility : BOOLEAN] BY DEF FramesInv, PageOK
  <2>3. r.id \in Ids BY <2>2, FramesAssumption DEF FramesInv, PageOK, Ids
  <2>4. QED BY <2>3 DEF Ended, Reports
<1>7. a \in Seq(Reports) /\ Len(a) = n /\ \A i \in 1..n : a[i].kind = "ended"
  <2>1. a = [i \in 1..n |-> Ended(row[i])] BY <1>5
  <2>2. \A i \in 1..n : a[i] = Ended(row[i]) /\ row[i] \in realm BY <1>1, <2>1
  <2>3. \A i \in 1..n : a[i] \in Reports /\ a[i].kind = "ended" BY <1>6, <2>2
  <2>4. a \in [1..n -> Reports] BY <2>1, <2>3
  <2>5. QED BY <1>4, <2>3, <2>4
<1>8. PICK d : d = [kind |-> "detached"] OBVIOUS
<1>9. d \in Reports /\ d.kind = "detached" BY <1>8 DEF Reports
<1>10. b \in Seq(Reports) /\ Len(b) = 1 /\ b[1] = d BY <1>5, <1>8, <1>9
<1>11. PICK new : new = a \o b OBVIOUS
<1>12. /\ new \in Seq(Reports) /\ Len(new) = n + 1
       /\ \A i \in 1..n : new[i] = a[i]
       /\ \A i \in 1..(n + 1) : i \notin 1..n => i - n \in 1..1 /\ new[i] = b[i - n]
  <2>1. a \in Seq(Reports) /\ b \in Seq(Reports) BY <1>7, <1>10
  <2>2. /\ a \o b \in Seq(Reports) /\ Len(a \o b) = Len(a) + Len(b)
        /\ \A i \in 1..Len(a) : (a \o b)[i] = a[i]
        /\ \A i \in 1..Len(a) + Len(b) :
             i \notin 1..Len(a) => i - Len(a) \in 1..Len(b) /\ (a \o b)[i] = b[i - Len(a)]
    BY <2>1, GrowingReports
  <2>3. QED BY <1>7, <1>10, <1>11, <2>2
<1>13. \A i \in 1..Len(new) : new[i].kind \in {"ended", "detached"}
  BY <1>4, <1>7, <1>9, <1>10, <1>12
<1>14. PageOK'
  <2>1. realm' \subseteq realm BY <1>3
  <2>2. \E r \in realm' : r.frame = "root" BY <1>1, <1>3 DEF FramesInv, PageOK
  <2>3. document' = document /\ child' = FALSE /\ told' = told /\ contexts' = contexts /\ churn' = churn + 1
    BY DEF ChildGoes
  <2>4. churn \in Nat /\ PageOK BY DEF FramesInv, PageOK
  <2>5. realm' \subseteq [id : 1..contexts, frame : Frames, utility : BOOLEAN] BY <2>1, <2>4 DEF PageOK
  <2>6. document \in 1..MaxDocuments /\ contexts \in 1..MaxContexts /\ told \in BOOLEAN BY <2>4 DEF PageOK
  <2>7. churn' \in Nat BY <2>3, <2>4
  <2>8. /\ document' \in 1..MaxDocuments /\ contexts' \in 1..MaxContexts
        /\ child' \in BOOLEAN /\ told' \in BOOLEAN
        /\ realm' \subseteq [id : 1..contexts', frame : Frames, utility : BOOLEAN]
    BY <2>3, <2>5, <2>6
  <2>9. QED BY <1>4, <2>2, <2>7, <2>8 DEF PageOK
<1>15. Tell(new) BY <1>2, <1>5, <1>11
<1>16. Len(events) + Len(new) <= MaxEvents
  <2>1. Len(events) \in Nat /\ Len(events) + 3 <= MaxEvents /\ MaxEvents \in Nat
    BY FramesAssumption DEF ChildGoes, Fits, FramesInv, EventsOK
  <2>2. QED BY <1>3, <1>4, <1>12, <2>1
<1>17. UNCHANGED <<known, world, task>> /\ document' = document /\ churn' = churn + 1 BY DEF ChildGoes
<1>18. QED BY <1>12, <1>13, <1>14, <1>15, <1>16, <1>17, PageStep
----------------------------------------------------------------------------
(* The browser serves an observation *)

LEMMA ServeWorldInv == ASSUME FramesInv, NEW c \in FrameCallers, ServeWorld(c) PROVE FramesInv'
<1>1. PICK t : t = [task[c] EXCEPT !.step = "creating"] OBVIOUS
<1>2. /\ task[c] \in Observing /\ task \in [FrameCallers -> Observing] /\ task[c].step = "create"
      /\ PageOK /\ EventsOK /\ TasksOK /\ ClientTypes
  BY DEF FramesInv, TasksOK, ServeWorld
<1>3. /\ t \in Observing /\ t.step = "creating" /\ t.since = task[c].since /\ t.retried = task[c].retried
      /\ t.frame = task[c].frame
  BY <1>1, <1>2 DEF Observing, Phase
<1>4. task' = [task EXCEPT ![c] = t] BY <1>1, <1>2 DEF ServeWorld
<1>5. /\ UNCHANGED <<churn, document, child, told, epoch, core, cache, refs, world>>
      /\ Len(events) + 2 <= MaxEvents /\ contexts < MaxContexts
  BY DEF ServeWorld, known, Fits
<1>6. PICK q : q = [id |-> contexts + 1, frame |-> task[c].frame, utility |-> TRUE] OBVIOUS
<1>7. task[c].frame \in Frames BY <1>2 DEF Observing
<1>8. PageOK' /\ realm \subseteq realm' /\ (realm' = realm \/ realm' = realm \cup {q})
  <2>1. CASE Exists(task[c].frame)
    <3>1. realm' = realm \cup {q} /\ contexts' = contexts + 1 BY <1>6, <2>1 DEF ServeWorld
    <3>2. /\ realm \cup {q} \subseteq [id : 1..(contexts + 1), frame : Frames, utility : BOOLEAN]
          /\ IsFiniteSet(realm \cup {q}) /\ contexts + 1 \in 1..MaxContexts
      BY <1>2, <1>5, <1>6, <1>7, RealmGrows
    <3>3. \E r \in realm' : r.frame = "root" BY <1>2, <3>1 DEF PageOK
    <3>4. document \in 1..MaxDocuments /\ told \in BOOLEAN /\ child \in BOOLEAN /\ churn \in Nat BY <1>2 DEF PageOK
    <3>5. QED BY <1>5, <3>1, <3>2, <3>3, <3>4 DEF PageOK
  <2>2. CASE ~Exists(task[c].frame)
    <3>1. realm' = realm /\ contexts' = contexts BY <2>2 DEF ServeWorld
    <3>2. QED BY <1>2, <1>5, <3>1 DEF PageOK
  <2>3. QED BY <2>1, <2>2
<1>9. Past(c) BY <1>2 DEF Past
<1>10. /\ task' \in [FrameCallers -> Observing]
       /\ \A d \in FrameCallers \ {c} : TaskOK(d)'
       /\ \A e \in Reports : ReportOK(e) /\ (e.kind = "reply" => e.caller # c) => ReportOK(e)'
  <2>1. Steady(c, t) /\ CacheKept(c) BY <1>3, <1>5, <1>9 DEF Steady, CacheKept
  <2>2. QED BY <1>2, <1>3, <1>4, <1>5, <1>8, <2>1, OthersGoOn
<1>11. TaskOK(c)'
  <2>1. TaskOK(c) /\ task'[c] = t BY <1>2, <1>4 DEF TasksOK
  <2>2. t.since <= churn' /\ (world' = c <=> t.step \in Holding)
    BY <1>2, <1>3, <1>5, <2>1 DEF TaskOK, Holding
  <2>3. QED BY <1>3, <2>1, <2>2 DEF TaskOK
<1>12. TasksOK' BY <1>10, <1>11 DEF TasksOK
<1>13. ClientTypes' BY <1>2, <1>5 DEF ClientTypes
<1>14. \A i \in 1..Len(events) : events[i].kind = "reply" => events[i].caller # c
  BY <1>2, NoReplyComes
<1>15. PICK ok, v : /\ ok = Exists(task[c].frame) /\ ok \in BOOLEAN
                    /\ v = IF ok THEN contexts + 1 ELSE 0
  BY DEF Exists
<1>16. PICK a : a = Answer(c, ok, v) OBVIOUS
<1>17. contexts + 1 \in Ids /\ contexts + 1 \in Nat /\ Len(events) \in Nat /\ MaxEvents \in Nat
  BY <1>2, <1>5, FramesAssumption DEF PageOK, Ids, EventsOK
<1>18. a \in Reports /\ a.kind = "reply" /\ a.caller = c /\ a.ok = ok /\ a.value = v
  BY <1>15, <1>16, <1>17 DEF Answer, Reports
<1>19. ReportOK(a)'
  <2>1. task'[c] = t BY <1>2, <1>4
  <2>2. CASE ok
    <3>1. InRealm(v)'
      <4>1. realm' = realm \cup {q} /\ v = contexts + 1 BY <1>6, <1>15, <2>2 DEF ServeWorld
      <4>2. q \in realm' /\ q.id = v BY <1>6, <4>1
      <4>3. QED BY <4>2 DEF InRealm
    <3>2. CountedByAll(v)' BY <3>1 DEF CountedByAll, Counted
    <3>3. v \in Ids BY <1>15, <1>17, <2>2
    <3>4. ReplyOK(a)' BY <1>3, <1>18, <2>1, <3>2, <3>3 DEF ReplyOK
    <3>5. QED BY <1>18, <3>4 DEF ReportOK
  <2>3. CASE ~ok
    <3>1. ReplyOK(a)' BY <1>3, <1>18, <2>1, <2>3 DEF ReplyOK
    <3>2. QED BY <1>18, <3>1 DEF ReportOK
  <2>4. QED BY <1>15, <2>2, <2>3
<1>20. PICK w : w = ContextCreated(contexts + 1, task[c].frame, TRUE) OBVIOUS
<1>21. w \in Reports /\ w.kind = "context" BY <1>7, <1>17, <1>20 DEF ContextCreated, Reports
<1>22. PICK new : events' = events \o new /\ (new = <<a>> \/ new = <<w, a>>)
  <2>1. CASE ok
    <3>1. v = contexts + 1 BY <1>15, <2>1
    <3>2. events' = events \o (IF told THEN <<w>> ELSE <<>>) \o <<a>>
      BY <1>15, <1>16, <1>20, <2>1, <3>1 DEF ServeWorld
    <3>3. CASE told
      <4>1. events' = events \o <<w>> \o <<a>> BY <3>2, <3>3
      <4>2. events \in Seq(Reports) BY <1>2 DEF EventsOK
      <4>3. events \o <<w>> \o <<a>> = events \o <<w, a>> BY <1>18, <1>21, <4>2, ReportThenReply
      <4>4. QED BY <4>1, <4>3
    <3>4. CASE ~told
      <4>1. events' = events \o <<>> \o <<a>> BY <3>2, <3>4
      <4>2. events \o <<>> = events BY <1>2 DEF EventsOK
      <4>3. QED BY <4>1, <4>2
    <3>5. QED BY <3>3, <3>4
  <2>2. CASE ~ok
    <3>1. events' = Append(events, a) BY <1>15, <1>16, <2>2 DEF ServeWorld
    <3>2. events' = events \o <<a>> BY <1>2, <1>18, <3>1 DEF EventsOK
    <3>3. QED BY <3>2
  <2>3. QED BY <1>15, <2>1, <2>2
<1>23. /\ new \in Seq(Reports) /\ Len(new) \in 1..2 /\ new[Len(new)] = a
       /\ \A i \in 1..Len(new) : i # Len(new) => new[i] = w
  <2>1. EventsOK /\ events \in Seq(Reports) BY <1>2 DEF EventsOK
  <2>2. /\ <<w, a>> \in Seq(Reports) /\ Len(<<w, a>>) = 2 /\ <<w, a>>[1] = w /\ <<w, a>>[2] = a
        /\ <<a>> \in Seq(Reports) /\ Len(<<a>>) = 1 /\ <<a>>[1] = a
    BY <1>18, <1>21, <2>1, ReportThenReply
  <2>3. CASE new = <<a>> BY <2>2, <2>3
  <2>4. CASE new = <<w, a>>
    <3>1. Len(new) = 2 /\ new[1] = w /\ new[2] = a /\ new \in Seq(Reports) BY <2>2, <2>4
    <3>2. QED BY <3>1
  <2>5. QED BY <1>22, <2>3, <2>4
<1>24. EventsOK'
  <2>1. ReportOK(w)' BY <1>21 DEF ReportOK
  <2>2. \A i \in 1..Len(new) : ReportOK(new[i])'
    <3>1. SUFFICES ASSUME NEW i \in 1..Len(new) PROVE ReportOK(new[i])' OBVIOUS
    <3>2. PICK e : e = new[i] OBVIOUS
    <3>3. e = a \/ e = w BY <1>23, <3>2
    <3>4. ReportOK(e)' BY <1>19, <2>1, <3>3
    <3>5. QED BY <3>2, <3>4
  <2>3. \A i, j \in 1..Len(new) : i < j => InTurn(new[i], new[j]) BY <1>21, <1>23 DEF InTurn
  <2>4. \A i \in 1..Len(events), j \in 1..Len(new) : InTurn(events[i], new[j])
    BY <1>14, <1>18, <1>21, <1>23 DEF InTurn
  <2>5. Len(events) + Len(new) <= MaxEvents BY <1>5, <1>17, <1>23
  <2>6. \A e \in Reports, i \in 1..Len(events) : e = events[i] => ReportOK(e)'
    <3>1. SUFFICES ASSUME NEW e \in Reports, NEW i \in 1..Len(events), e = events[i] PROVE ReportOK(e)'
      OBVIOUS
    <3>2. ReportOK(e) BY <1>2, <3>1 DEF EventsOK
    <3>3. e.kind = "reply" => e.caller # c BY <1>14, <3>1
    <3>4. QED BY <1>10, <3>2, <3>3
  <2>7. QED BY <1>2, <1>22, <1>23, <2>2, <2>3, <2>4, <2>5, <2>6, ReportsSent
<1>25. QED BY <1>8, <1>12, <1>13, <1>24 DEF FramesInv

LEMMA ServeEvaluateInv == ASSUME FramesInv, NEW c \in FrameCallers, ServeEvaluate(c) PROVE FramesInv'
<1>1. PICK t : t = [task[c] EXCEPT !.step = "evaluating"] OBVIOUS
<1>2. /\ task[c] \in Observing /\ task \in [FrameCallers -> Observing] /\ task[c].step = "evaluate"
      /\ PageOK /\ EventsOK /\ TasksOK /\ ClientTypes
  BY DEF FramesInv, TasksOK, ServeEvaluate
<1>3. /\ t \in Observing /\ t.step = "evaluating" /\ t.since = task[c].since /\ t.retried = task[c].retried
  BY <1>1, <1>2 DEF Observing, Phase
<1>4. task' = [task EXCEPT ![c] = t] BY <1>1, <1>2 DEF ServeEvaluate
<1>5. /\ UNCHANGED <<churn, document, child, realm, contexts, told, epoch, core, cache, refs, world>>
      /\ Len(events) + 1 <= MaxEvents
  BY DEF ServeEvaluate, known, browser, Fits
<1>6. PageOK' /\ ClientTypes' BY <1>2, <1>5 DEF PageOK, ClientTypes
<1>7. Past(c) BY <1>2 DEF Past
<1>8. /\ task' \in [FrameCallers -> Observing]
      /\ \A d \in FrameCallers \ {c} : TaskOK(d)'
      /\ \A e \in Reports : ReportOK(e) /\ (e.kind = "reply" => e.caller # c) => ReportOK(e)'
  <2>1. Steady(c, t) /\ CacheKept(c) BY <1>3, <1>5, <1>7 DEF Steady, CacheKept
  <2>2. QED BY <1>2, <1>3, <1>4, <1>5, <2>1, OthersGoOn
<1>9. TaskOK(c) /\ task'[c] = t BY <1>2, <1>4 DEF TasksOK
<1>10. TaskOK(c)'
  <2>1. t.since <= churn' /\ (world' = c <=> t.step \in Holding)
    BY <1>2, <1>3, <1>5, <1>9 DEF TaskOK, Holding
  <2>2. QED BY <1>3, <1>9, <2>1 DEF TaskOK
<1>11. TasksOK' BY <1>8, <1>10 DEF TasksOK
<1>12. \A i \in 1..Len(events) : events[i].kind = "reply" => events[i].caller # c
  BY <1>2, NoReplyComes
<1>13. PICK ok : ok = (\E r \in realm : r.id = task[c].ctx) /\ ok \in BOOLEAN OBVIOUS
<1>14. PICK a : a = Answer(c, ok, document) OBVIOUS
<1>15. document \in Nat /\ document \in 1..MaxDocuments /\ Len(events) \in Nat /\ MaxEvents \in Nat
  BY <1>2, FramesAssumption DEF PageOK, EventsOK
<1>16. a \in Reports /\ a.kind = "reply" /\ a.caller = c /\ a.ok = ok /\ a.value = document
  BY <1>13, <1>14, <1>15 DEF Answer, Reports
<1>17. ReportOK(a)'
  <2>1. task[c].retried /\ ~ok => churn > task[c].since
    BY <1>2, <1>9, <1>13 DEF TaskOK, Counted, InRealm
  <2>2. t.retried /\ ~ok => churn' > t.since BY <1>3, <1>5, <2>1
  <2>3. ReplyOK(a)' BY <1>3, <1>9, <1>15, <1>16, <2>2 DEF ReplyOK
  <2>4. QED BY <1>16, <2>3 DEF ReportOK
<1>18. PICK new : new = <<a>> OBVIOUS
<1>19. new \in Seq(Reports) /\ Len(new) = 1 /\ new[1] = a BY <1>16, <1>18
<1>20. events' = events \o new
  <2>1. events' = Append(events, a) BY <1>13, <1>14 DEF ServeEvaluate
  <2>2. QED BY <1>2, <1>16, <1>18, <2>1 DEF EventsOK
<1>21. EventsOK'
  <2>1. \A i \in 1..Len(new) : ReportOK(new[i])'
    <3>1. SUFFICES ASSUME NEW i \in 1..Len(new) PROVE ReportOK(new[i])' OBVIOUS
    <3>2. new[i] = a BY <1>19
    <3>3. QED BY <1>17, <3>2
  <2>2. \A i, j \in 1..Len(new) : i < j => InTurn(new[i], new[j]) BY <1>19
  <2>3. \A i \in 1..Len(events), j \in 1..Len(new) : InTurn(events[i], new[j])
    BY <1>12, <1>16, <1>19 DEF InTurn
  <2>4. Len(events) + Len(new) <= MaxEvents BY <1>5, <1>19
  <2>5. \A e \in Reports, i \in 1..Len(events) : e = events[i] => ReportOK(e)'
    <3>1. SUFFICES ASSUME NEW e \in Reports, NEW i \in 1..Len(events), e = events[i] PROVE ReportOK(e)'
      OBVIOUS
    <3>2. ReportOK(e) BY <1>2, <3>1 DEF EventsOK
    <3>3. e.kind = "reply" => e.caller # c BY <1>12, <3>1
    <3>4. QED BY <1>8, <3>2, <3>3
  <2>6. QED BY <1>2, <1>19, <1>20, <2>1, <2>2, <2>3, <2>4, <2>5, ReportsSent
<1>22. QED BY <1>6, <1>11, <1>21 DEF FramesInv
----------------------------------------------------------------------------
(* The connection *)

LEMMA CoreConnectInv == ASSUME FramesInv, CoreConnect PROVE FramesInv'
<1>1. PageOK /\ EventsOK /\ TasksOK /\ ClientTypes BY DEF FramesInv
<1>2. /\ UNCHANGED <<document, child, realm, contexts, churn, cache, epoch, refs, world, task>>
      /\ core' = [core EXCEPT !.step = "asked"] /\ told' = TRUE /\ Len(events) + 3 <= MaxEvents
  BY DEF CoreConnect, Fits
<1>3. PICK id : id = CHOOSE i \in Ids : \E r \in realm : r.id = i /\ r.frame = "root" OBVIOUS
<1>4. id \in Ids
  <2>1. PICK r \in realm : r.frame = "root" BY <1>1 DEF PageOK
  <2>2. r \in [id : 1..contexts, frame : Frames, utility : BOOLEAN] BY <1>1 DEF PageOK
  <2>3. r.id \in Ids BY <1>1, <2>2, FramesAssumption DEF PageOK, Ids
  <2>4. QED BY <1>3, <2>1, <2>3
<1>5. PICK w, a : /\ w = ContextCreated(id, "root", FALSE)
                  /\ a = [kind |-> "tree", document |-> document, child |-> child]
  OBVIOUS
<1>6. /\ w \in Reports /\ w.kind = "context"
      /\ a \in Reports /\ a.kind = "tree"
  BY <1>1, <1>4, <1>5 DEF ContextCreated, Reports, Frames, PageOK
<1>7. PICK new : new = <<w, a>> OBVIOUS
<1>8. new \in Seq(Reports) /\ Len(new) = 2 /\ new[1] = w /\ new[2] = a BY <1>6, <1>7, Pair, Zenon
<1>9. events' = events \o new BY <1>3, <1>5, <1>7 DEF CoreConnect
<1>10. \A i \in 1..Len(new) : new[i].kind \in {"context", "tree"} BY <1>6, <1>8
<1>11. EventsOK'
  <2>1. \A i \in 1..Len(new) : ReportOK(new[i])' BY <1>10 DEF ReportOK
  <2>2. \A i, j \in 1..Len(new) : i < j => InTurn(new[i], new[j]) BY <1>10 DEF InTurn
  <2>3. \A i \in 1..Len(events), j \in 1..Len(new) : InTurn(events[i], new[j]) BY <1>10 DEF InTurn
  <2>4. \A e \in Reports, i \in 1..Len(events) : e = events[i] => ReportOK(e)'
    <3>1. SUFFICES ASSUME NEW e \in Reports, NEW i \in 1..Len(events), e = events[i] PROVE ReportOK(e)'
      OBVIOUS
    <3>2. ReportOK(e) BY <1>1, <3>1 DEF EventsOK
    <3>3. ReportOK(e)' = ReportOK(e)
      BY <1>2 DEF ReportOK, ReplyOK, CountedByAll, Counted, Past, InRealm
    <3>4. QED BY <3>2, <3>3
  <2>5. Len(events) + Len(new) <= MaxEvents
    BY <1>1, <1>2, <1>8, FramesAssumption DEF EventsOK
  <2>6. QED BY <1>1, <1>8, <1>9, <2>1, <2>2, <2>3, <2>4, <2>5, ReportsSent
<1>12. PageOK' BY <1>1, <1>2 DEF PageOK
<1>13. TasksOK' BY <1>1, <1>2 DEF TasksOK, TaskOK, CountedByAll, Counted, Past, InRealm
<1>14. ClientTypes' BY <1>1, <1>2 DEF ClientTypes
<1>15. QED BY <1>11, <1>12, <1>13, <1>14 DEF FramesInv

LEMMA ConnectionRestoredInv == ASSUME FramesInv, ConnectionRestored PROVE FramesInv'
<1>1. PageOK /\ TasksOK /\ ClientTypes BY DEF FramesInv
<1>2. /\ UNCHANGED <<document, child, realm, contexts, churn, core, cache, epoch, refs>>
      /\ told' = FALSE /\ events' = <<>> /\ world' = None
  BY DEF ConnectionRestored, known
<1>3. PICK t : t = [NoTask EXCEPT !.step = "offline"] OBVIOUS
<1>4. task' = [c \in FrameCallers |-> IF task[c].step = "idle" THEN NoTask ELSE t]
  BY <1>3 DEF ConnectionRestored
<1>5. /\ NoTask \in Observing /\ NoTask.step = "idle" /\ NoTask.since = 0 /\ ~NoTask.retried
      /\ t \in Observing /\ t.step = "offline" /\ t.since = 0 /\ ~t.retried
  <2>1. NoTask \in Observing /\ NoTask.step = "idle" /\ NoTask.since = 0 /\ ~NoTask.retried BY NoTaskTypes
  <2>2. t.step = "offline" /\ t.since = NoTask.since /\ t.retried = NoTask.retried BY <1>3 DEF NoTask
  <2>3. t \in Observing BY <1>3, <2>1 DEF Observing, Phase
  <2>4. QED BY <2>1, <2>2, <2>3
<1>6. \A c \in FrameCallers : TaskOK(c)'
  <2>1. SUFFICES ASSUME NEW c \in FrameCallers PROVE TaskOK(c)' OBVIOUS
  <2>2. PICK b : b = task'[c] OBVIOUS
  <2>3. b.step \in {"idle", "offline"} /\ b.since = 0 /\ ~b.retried BY <1>4, <1>5, <2>2
  <2>4. churn' \in Nat BY <1>1, <1>2 DEF PageOK
  <2>5. QED BY <1>2, <2>2, <2>3, <2>4, FramesAssumption DEF TaskOK, Holding
<1>7. TasksOK' BY <1>4, <1>5, <1>6 DEF TasksOK
<1>8. EventsOK'
  <2>1. <<>> \in Seq(Reports) /\ Len(<<>>) = 0 OBVIOUS
  <2>2. QED BY <1>2, <2>1, FramesAssumption DEF EventsOK
<1>9. PageOK' BY <1>1, <1>2 DEF PageOK
<1>10. ClientTypes' BY <1>1, <1>2 DEF ClientTypes
<1>11. QED BY <1>7, <1>8, <1>9, <1>10 DEF FramesInv

LEMMA CoreDisconnectInv == ASSUME FramesInv, CoreDisconnect PROVE FramesInv'
<1>1. PageOK /\ TasksOK /\ ClientTypes BY DEF FramesInv
<1>2. /\ UNCHANGED <<document, child, realm, contexts, churn, epoch, refs, world, task>>
      /\ told' = FALSE /\ events' = <<>> /\ core' = [core EXCEPT !.ax = FALSE]
      /\ cache' = [f \in Frames |-> 0]
      /\ \A c \in FrameCallers : task[c] = NoTask
  BY DEF CoreDisconnect
<1>3. NoTask.step = "idle" /\ ~NoTask.retried BY DEF NoTask
<1>4. \A c \in FrameCallers : TaskOK(c)'
  <2>1. SUFFICES ASSUME NEW c \in FrameCallers PROVE TaskOK(c)' OBVIOUS
  <2>2. TaskOK(c) /\ task'[c] = NoTask /\ task[c] = NoTask BY <1>1, <1>2 DEF TasksOK
  <2>3. QED BY <1>2, <1>3, <2>2 DEF TaskOK
<1>5. TasksOK' BY <1>1, <1>2, <1>4 DEF TasksOK
<1>6. EventsOK'
  <2>1. <<>> \in Seq(Reports) /\ Len(<<>>) = 0 OBVIOUS
  <2>2. QED BY <1>2, <2>1, FramesAssumption DEF EventsOK
<1>7. PageOK' BY <1>1, <1>2 DEF PageOK
<1>8. ClientTypes'
  <2>1. cache' \in [Frames -> Ids] BY <1>2, FramesAssumption DEF Ids
  <2>2. QED BY <1>1, <1>2, <2>1 DEF ClientTypes
<1>9. QED BY <1>5, <1>6, <1>7, <1>8 DEF FramesInv
----------------------------------------------------------------------------
(* Events *)

(* Nothing but the client's view changes, and the epoch only for a navigated root.   *)
LEMMA EventRead ==
  ASSUME FramesInv, events # <<>>, events' = Tail(events), UNCHANGED <<browser, cache, world, task>>,
         ClientTypes',
         \/ epoch' = epoch
         \/ epoch' = epoch + 1 /\ Head(events).kind = "navigated" /\ Head(events).frame = "root"
  PROVE  FramesInv'
<1>1. PageOK /\ EventsOK /\ TasksOK /\ ClientTypes BY DEF FramesInv
<1>2. UNCHANGED <<document, child, realm, told, contexts, churn>> BY DEF browser
<1>3. PageOK' BY <1>1, <1>2 DEF PageOK
<1>4. TasksOK' BY <1>1, <1>2 DEF TasksOK, TaskOK, CountedByAll, Counted, Past, InRealm
<1>5. \A x \in Reports : ReportOK(x) /\ InTurn(Head(events), x) => ReportOK(x)'
  <2>1. SUFFICES ASSUME NEW x \in Reports, ReportOK(x), InTurn(Head(events), x) PROVE ReportOK(x)' OBVIOUS
  <2>2. x.kind = "reply" => ReplyOK(x)'
    BY <1>2, <2>1 DEF ReportOK, ReplyOK, CountedByAll, Counted, Past, InRealm
  <2>3. x.kind = "navigated" /\ x.frame = "root" => epoch' < x.document /\ x.document <= document'
    <3>1. SUFFICES ASSUME x.kind = "navigated", x.frame = "root"
                   PROVE  epoch' < x.document /\ x.document <= document'
      OBVIOUS
    <3>2. epoch < x.document /\ x.document <= document BY <2>1, <3>1 DEF ReportOK
    <3>3. x.document \in Nat /\ epoch \in Nat
      BY <1>1, <3>1, FramesAssumption DEF Reports, ClientTypes, PageOK
    <3>4. CASE epoch' = epoch BY <1>2, <3>2, <3>4
    <3>5. CASE epoch' = epoch + 1 /\ Head(events).kind = "navigated" /\ Head(events).frame = "root"
      <4>1. PICK h \in Reports : h = Head(events) BY <1>1, TailReports DEF EventsOK
      <4>2. 1 \in 1..Len(events) /\ events[1] = h BY <1>1, <4>1, TailReports DEF EventsOK
      <4>3. ReportOK(h) BY <1>1, <4>2 DEF EventsOK
      <4>4. epoch < h.document /\ h.document \in Nat BY <3>5, <4>1, <4>3, FramesAssumption DEF ReportOK, Reports
      <4>5. h.document < x.document BY <2>1, <3>1, <3>5, <4>1 DEF InTurn
      <4>6. QED BY <1>2, <3>2, <3>3, <3>5, <4>4, <4>5
    <3>6. QED BY <3>4, <3>5
  <2>4. QED BY <2>2, <2>3 DEF ReportOK
<1>6. EventsOK' BY <1>1, <1>5, ReportRead
<1>7. QED BY <1>3, <1>4, <1>6 DEF FramesInv

(* The client's view after an event.                                                 *)
LEMMA ViewOf ==
  ASSUME ClientTypes, PageOK, UNCHANGED <<document, cache, world>>,
         NEW fs \in [Frames -> FrameContext \cup {None}], NEW s,
         core' = [core EXCEPT !.frames = fs] \/ core' = [core EXCEPT !.frames = fs, !.step = s],
         UNCHANGED <<epoch, refs>> \/ (epoch' \in 1..document /\ refs' = {})
  PROVE  ClientTypes'
<1>1. core = [step |-> core.step, frames |-> core.frames, ax |-> core.ax] BY DEF ClientTypes
<1>2. core' = [step |-> core'.step, frames |-> core'.frames, ax |-> core'.ax] /\ core'.frames = fs
  <2>1. CASE core' = [core EXCEPT !.frames = fs] BY <1>1, <2>1
  <2>2. CASE core' = [core EXCEPT !.frames = fs, !.step = s] BY <1>1, <2>2
  <2>3. QED BY <2>1, <2>2
<1>3. QED BY <1>2 DEF ClientTypes

LEMMA OneFrame ==
  ASSUME ClientTypes, PageOK, UNCHANGED <<document, cache, world, epoch, refs>>,
         NEW f \in Frames, NEW r \in FrameContext, core' = [core EXCEPT !.frames[f] = r]
  PROVE  ClientTypes'
<1>1. PICK fs : fs = [core.frames EXCEPT ![f] = r] OBVIOUS
<1>2. fs \in [Frames -> FrameContext \cup {None}] BY <1>1 DEF ClientTypes
<1>3. core' = [core EXCEPT !.frames = fs] BY <1>1
<1>4. QED BY <1>2, <1>3, ViewOf

LEMMA Contexts ==
  /\ Fresh \in FrameContext
  /\ ClientTypes => \A f \in Frames : Kept(f) \in FrameContext
  /\ \A gone : \A r \in FrameContext \cup {None} : Forgotten(r, gone) \in FrameContext \cup {None}
<1>1. Fresh \in FrameContext BY FramesAssumption DEF Fresh, FrameContext, Ids
<1>2. ClientTypes => \A f \in Frames : Kept(f) \in FrameContext BY <1>1 DEF ClientTypes, Kept
<1>3. ASSUME NEW r \in FrameContext \cup {None}, NEW gone PROVE Forgotten(r, gone) \in FrameContext \cup {None}
  <2>1. CASE r = None BY <2>1 DEF Forgotten
  <2>2. CASE r # None
    <3>1. r \in FrameContext /\ 0 \in Ids BY <2>2, FramesAssumption DEF Ids
    <3>2. Forgotten(r, gone) = [r EXCEPT !.main = IF r.main \in gone THEN 0 ELSE r.main,
                                         !.utility = IF r.utility \in gone THEN 0 ELSE r.utility]
      BY <2>2, <3>1 DEF Forgotten, FrameContext
    <3>3. QED BY <3>1, <3>2 DEF FrameContext
  <2>3. QED BY <2>1, <2>2
<1>4. QED BY <1>1, <1>2, <1>3

LEMMA FrameNavigatedInv ==
  ASSUME FramesInv, events # <<>>, events' = Tail(events), UNCHANGED <<browser, cache, world, task>>,
         NEW e \in Reports, e = Head(events), ReportOK(e), e.kind = "navigated",
         OnFrameNavigated(e.frame, e.document)
  PROVE  FramesInv'
<1>1. PageOK /\ ClientTypes /\ UNCHANGED <<document, cache, world>> BY DEF FramesInv, browser
<1>2. e.frame \in Frames /\ e.document \in 1..MaxDocuments BY DEF Reports
<1>3. PICK f, d : f = e.frame /\ d = e.document OBVIOUS
<1>4. PICK r : r = [state |-> "NAVIGATED", loader |-> d, main |-> 0, utility |-> 0, open |-> TRUE]
  OBVIOUS
<1>5. r \in FrameContext BY <1>2, <1>3, <1>4, FramesAssumption DEF FrameContext, Ids
<1>6. CASE f = "root"
  <2>1. PICK fs : fs = [g \in Frames |-> IF g = f THEN r ELSE None] OBVIOUS
  <2>2. fs \in [Frames -> FrameContext \cup {None}] BY <1>5, <2>1
  <2>3. core' = [core EXCEPT !.frames = fs] /\ epoch' = epoch + 1 /\ refs' = {}
    BY <1>3, <1>4, <1>6, <2>1 DEF OnFrameNavigated
  <2>4. epoch < d /\ d <= document BY <1>3, <1>6 DEF ReportOK
  <2>5. epoch' \in 1..document BY <1>1, <1>2, <1>3, <2>3, <2>4, FramesAssumption DEF ClientTypes, PageOK
  <2>6. ClientTypes' BY <1>1, <2>2, <2>3, <2>5, ViewOf
  <2>7. QED BY <1>3, <1>6, <2>3, <2>6, EventRead
<1>7. CASE f # "root"
  <2>1. core' = [core EXCEPT !.frames[f] = r] /\ UNCHANGED <<epoch, refs>>
    BY <1>3, <1>4, <1>7 DEF OnFrameNavigated, WithFrame
  <2>2. ClientTypes' BY <1>1, <1>2, <1>3, <1>5, <2>1, OneFrame
  <2>3. QED BY <2>1, <2>2, EventRead
<1>8. QED BY <1>6, <1>7

LEMMA FrameAttachedInv ==
  ASSUME FramesInv, events # <<>>, events' = Tail(events), UNCHANGED <<browser, cache, world, task>>,
         OnFrameAttached \/ OnFrameDetached
  PROVE  FramesInv'
<1>1. PageOK /\ ClientTypes /\ UNCHANGED <<document, cache, world>> BY DEF FramesInv, browser
<1>2. "child" \in Frames BY DEF Frames
<1>3. CASE OnFrameAttached
  <2>1. core' = [core EXCEPT !.frames["child"] = Fresh] /\ UNCHANGED <<epoch, refs>>
    BY <1>3 DEF OnFrameAttached, WithFrame
  <2>2. ClientTypes' BY <1>1, <1>2, <2>1, OneFrame, Contexts
  <2>3. QED BY <2>1, <2>2, EventRead
<1>4. CASE OnFrameDetached
  <2>1. UNCHANGED <<epoch, refs>> BY <1>4 DEF OnFrameDetached
  <2>2. CASE core.frames["child"] = None
    <3>1. core' = core BY <1>4, <2>2 DEF OnFrameDetached
    <3>2. ClientTypes' BY <1>1, <2>1, <3>1 DEF ClientTypes
    <3>3. QED BY <2>1, <3>2, EventRead
  <2>3. CASE core.frames["child"] # None
    <3>1. PICK b : b = core.frames["child"] OBVIOUS
    <3>2. b \in FrameContext BY <1>1, <1>2, <2>3, <3>1 DEF ClientTypes
    <3>3. PICK r : r = [b EXCEPT !.state = "DETACHED", !.main = 0, !.utility = 0, !.open = FALSE] OBVIOUS
    <3>4. r \in FrameContext
      <4>1. 0 \in Ids BY FramesAssumption DEF Ids
      <4>2. r = [state |-> "DETACHED", loader |-> b.loader, main |-> 0, utility |-> 0, open |-> FALSE]
        BY <3>2, <3>3 DEF FrameContext
      <4>3. b.loader \in 0..MaxDocuments BY <3>2 DEF FrameContext
      <4>4. QED BY <4>1, <4>2, <4>3 DEF FrameContext
    <3>5. core' = [core EXCEPT !.frames["child"] = r]
      BY <1>4, <2>3, <3>1, <3>3 DEF OnFrameDetached, WithFrame
    <3>6. ClientTypes' BY <1>1, <1>2, <2>1, <3>4, <3>5, OneFrame
    <3>7. QED BY <2>1, <3>6, EventRead
  <2>4. QED BY <2>2, <2>3
<1>5. QED BY <1>3, <1>4

LEMMA ContextCreatedInv ==
  ASSUME FramesInv, events # <<>>, events' = Tail(events), UNCHANGED <<browser, cache, world, task>>,
         NEW e \in Reports, e.kind = "context", OnExecutionContextCreated(e.frame, e.id, e.utility)
  PROVE  FramesInv'
<1>1. PageOK /\ ClientTypes /\ UNCHANGED <<document, cache, world>> BY DEF FramesInv, browser
<1>2. PICK f, b : f = e.frame /\ b = Kept(f) OBVIOUS
<1>3. f \in Frames /\ e.id \in Ids BY <1>2 DEF Reports
<1>4. b \in FrameContext BY <1>1, <1>2, <1>3, Contexts
<1>5. PICK r : r = IF e.utility THEN [b EXCEPT !.utility = e.id] ELSE [b EXCEPT !.main = e.id] OBVIOUS
<1>6. r \in FrameContext
  <2>1. CASE e.utility BY <1>3, <1>4, <1>5, <2>1 DEF FrameContext
  <2>2. CASE ~e.utility BY <1>3, <1>4, <1>5, <2>2 DEF FrameContext
  <2>3. QED BY <2>1, <2>2
<1>7. core' = [core EXCEPT !.frames[f] = r] /\ UNCHANGED <<epoch, refs>>
  BY <1>2, <1>5 DEF OnExecutionContextCreated
<1>8. ClientTypes' BY <1>1, <1>3, <1>6, <1>7, OneFrame
<1>9. QED BY <1>7, <1>8, EventRead

LEMMA ContextsForgottenInv ==
  ASSUME FramesInv, events # <<>>, events' = Tail(events), UNCHANGED <<browser, cache, world, task>>,
         NEW gone, UNCHANGED <<epoch, refs>>,
         core' = [core EXCEPT !.frames = [f \in Frames |-> Forgotten(@[f], gone)]]
  PROVE  FramesInv'
<1>1. PageOK /\ ClientTypes /\ UNCHANGED <<document, cache, world>> BY DEF FramesInv, browser
<1>2. PICK fs : fs = [f \in Frames |-> Forgotten(core.frames[f], gone)] OBVIOUS
<1>3. fs \in [Frames -> FrameContext \cup {None}]
  <2>1. \A f \in Frames : core.frames[f] \in FrameContext \cup {None} BY <1>1 DEF ClientTypes
  <2>2. \A f \in Frames : Forgotten(core.frames[f], gone) \in FrameContext \cup {None} BY <2>1, Contexts
  <2>3. QED BY <1>2, <2>2
<1>4. core' = [core EXCEPT !.frames = fs] BY <1>2
<1>5. ClientTypes' BY <1>1, <1>3, <1>4, ViewOf
<1>6. QED BY <1>5, EventRead

LEMMA FrameTreeInv ==
  ASSUME FramesInv, events # <<>>, events' = Tail(events), UNCHANGED <<browser, cache, world, task>>,
         NEW e \in Reports, e.kind = "tree", ParseFrameTree(e.document, e.child)
  PROVE  FramesInv'
<1>1. PageOK /\ ClientTypes /\ UNCHANGED <<document, cache, world>> BY DEF FramesInv, browser
<1>2. PICK foreign \in BOOLEAN :
        /\ core' = [core EXCEPT !.frames =
                       [f \in Frames |-> IF f = "child" /\ ~e.child THEN @[f]
                          ELSE [Kept(f) EXCEPT !.state = "ATTACHED", !.loader = e.document,
                                               !.open = ~(f = "child" /\ foreign)]],
                                !.step = "connected"]
        /\ UNCHANGED <<epoch, refs>>
  BY DEF ParseFrameTree
<1>3. PICK fs : fs = [f \in Frames |-> IF f = "child" /\ ~e.child THEN core.frames[f]
                          ELSE [Kept(f) EXCEPT !.state = "ATTACHED", !.loader = e.document,
                                               !.open = ~(f = "child" /\ foreign)]]
  OBVIOUS
<1>4. core' = [core EXCEPT !.frames = fs, !.step = "connected"] BY <1>2, <1>3
<1>5. \A f \in Frames : fs[f] \in FrameContext \cup {None}
  <2>1. SUFFICES ASSUME NEW f \in Frames PROVE fs[f] \in FrameContext \cup {None} OBVIOUS
  <2>2. CASE f = "child" /\ ~e.child BY <1>1, <1>3, <2>2 DEF ClientTypes
  <2>3. CASE ~(f = "child" /\ ~e.child)
    <3>1. PICK b, o : b = Kept(f) /\ o = ~(f = "child" /\ foreign) /\ o \in BOOLEAN OBVIOUS
    <3>2. b \in FrameContext BY <1>1, <3>1, Contexts
    <3>3. e.document \in 0..MaxDocuments BY FramesAssumption DEF Reports
    <3>4. fs[f] = [b EXCEPT !.state = "ATTACHED", !.loader = e.document, !.open = o]
      BY <1>3, <2>3, <3>1
    <3>5. QED BY <3>2, <3>3, <3>1, <3>4 DEF FrameContext
  <2>4. QED BY <2>2, <2>3
<1>6. fs \in [Frames -> FrameContext \cup {None}] BY <1>3, <1>5
<1>7. ClientTypes' BY <1>1, <1>2, <1>4, <1>6, ViewOf
<1>8. QED BY <1>2, <1>7, EventRead

(* The reply an observation waited for: no other is on its way to it.                *)
LEMMA ReplyInv ==
  ASSUME FramesInv, events # <<>>, events' = Tail(events), UNCHANGED <<browser, cache, world>>,
         NEW e \in Reports, e = Head(events), ReportOK(e), e.kind = "reply",
         task' = [task EXCEPT ![e.caller].found = e.value, ![e.caller].step =
                    IF @ = "creating" THEN IF e.ok THEN "created" ELSE "failed"
                    ELSE IF e.ok THEN "evaluated" ELSE "lost"],
         UNCHANGED <<core, epoch, refs>>
  PROVE  FramesInv'
<1>1. /\ PageOK /\ EventsOK /\ TasksOK /\ ClientTypes
      /\ UNCHANGED <<document, child, realm, told, contexts, churn, cache, world, core, epoch, refs>>
  BY DEF FramesInv, browser
<1>2. PICK c \in FrameCallers : c = e.caller BY DEF Reports
<1>3. PICK b, s : /\ b = task[c]
                  /\ s = IF b.step = "creating" THEN IF e.ok THEN "created" ELSE "failed"
                         ELSE IF e.ok THEN "evaluated" ELSE "lost"
  OBVIOUS
<1>4. /\ b \in Observing /\ task \in [FrameCallers -> Observing] /\ TaskOK(c)
      /\ b.step \in {"creating", "evaluating"} /\ ReplyOK(e)
  BY <1>1, <1>2, <1>3 DEF TasksOK, ReportOK, ReplyOK
<1>5. PICK t : t = [b EXCEPT !.found = e.value, !.step = s] OBVIOUS
<1>6. e.value \in Nat /\ s \in Phase BY <1>3 DEF Reports, Phase
<1>7. /\ t \in Observing /\ t.step = s /\ t.found = e.value
      /\ t.since = b.since /\ t.retried = b.retried /\ t.frame = b.frame
  BY <1>4, <1>5, <1>6 DEF Observing
<1>8. task' = [task EXCEPT ![c] = t] BY <1>2, <1>3, <1>4, <1>5
<1>9. Past(c) BY <1>3, <1>4 DEF Past
<1>10. Steady(c, t) /\ CacheKept(c) BY <1>1, <1>3, <1>7, <1>9 DEF Steady, CacheKept
<1>11. /\ task' \in [FrameCallers -> Observing]
       /\ \A d \in FrameCallers \ {c} : TaskOK(d)'
       /\ \A x \in Reports : ReportOK(x) /\ (x.kind = "reply" => x.caller # c) => ReportOK(x)'
       /\ \A n : CountedByAll(n) => CountedByAll(n)'
  <2>1. UNCHANGED <<churn, document, epoch>> /\ realm \subseteq realm' BY <1>1
  <2>2. \A d \in FrameCallers \ {c} : world' = d <=> world = d BY <1>1
  <2>3. t \in Observing /\ t.since = task[c].since BY <1>3, <1>7
  <2>4. /\ task' \in [FrameCallers -> Observing]
        /\ \A d \in FrameCallers \ {c} : TaskOK(d)'
        /\ \A x \in Reports : ReportOK(x) /\ (x.kind = "reply" => x.caller # c) => ReportOK(x)'
        /\ Past(c) /\ t.since = task[c].since => \A n : CountedByAll(n) => CountedByAll(n)'
    BY <1>1, <1>8, <1>10, <2>1, <2>2, <2>3, OthersGoOn
  <2>5. QED BY <1>9, <2>3, <2>4, Zenon
<1>12. task'[c] = t BY <1>4, <1>8
<1>13. TaskOK(c)'
  <2>1. t.since <= churn' BY <1>1, <1>3, <1>4, <1>7 DEF TaskOK
  <2>2. world' = c <=> t.step \in Holding BY <1>1, <1>3, <1>4, <1>7 DEF TaskOK, Holding
  <2>3. t.step = "created" => t.found \in Ids /\ CountedByAll(t.found)'
    BY <1>2, <1>3, <1>4, <1>7, <1>11 DEF ReplyOK
  <2>4. t.step = "evaluated" => t.found \in 1..MaxDocuments BY <1>2, <1>3, <1>4, <1>7 DEF ReplyOK
  <2>5. t.retried /\ t.step = "lost" => churn' > t.since BY <1>1, <1>2, <1>3, <1>4, <1>7 DEF ReplyOK
  <2>6. t.step \notin {"ensure", "lock", "evaluate"} BY <1>3, <1>7
  <2>7. QED BY <1>12, <2>1, <2>2, <2>3, <2>4, <2>5, <2>6 DEF TaskOK
<1>14. TasksOK' BY <1>11, <1>13 DEF TasksOK
<1>15. \A x \in Reports : ReportOK(x) /\ InTurn(Head(events), x) => ReportOK(x)'
  BY <1>2, <1>11 DEF InTurn
<1>16. EventsOK' BY <1>1, <1>15, ReportRead
<1>17. PageOK' /\ ClientTypes' BY <1>1 DEF PageOK, ClientTypes
<1>18. QED BY <1>14, <1>16, <1>17 DEF FramesInv

LEMMA ReadEventInv == ASSUME FramesInv, ReadEvent PROVE FramesInv'
<1>1. events # <<>> /\ events' = Tail(events) /\ UNCHANGED <<browser, cache, world>> BY DEF ReadEvent
<1>2. EventsOK BY DEF FramesInv
<1>3. PICK e \in Reports : e = Head(events) BY <1>1, <1>2, TailReports DEF EventsOK
<1>4. ReportOK(e)
  <2>1. 1 \in 1..Len(events) /\ events[1] = e BY <1>1, <1>2, <1>3, TailReports DEF EventsOK
  <2>2. QED BY <1>2, <2>1 DEF EventsOK
<1>5. \/ e.kind = "navigated" /\ OnFrameNavigated(e.frame, e.document) /\ UNCHANGED task
      \/ (OnFrameAttached \/ OnFrameDetached) /\ UNCHANGED task
      \/ e.kind = "context" /\ OnExecutionContextCreated(e.frame, e.id, e.utility) /\ UNCHANGED task
      \/ (\E gone : /\ core' = [core EXCEPT !.frames = [f \in Frames |-> Forgotten(@[f], gone)]]
                    /\ UNCHANGED <<epoch, refs>>) /\ UNCHANGED task
      \/ e.kind = "tree" /\ ParseFrameTree(e.document, e.child) /\ UNCHANGED task
      \/ e.kind = "reply"
           /\ task' = [task EXCEPT ![e.caller].found = e.value, ![e.caller].step =
                         IF @ = "creating" THEN IF e.ok THEN "created" ELSE "failed"
                         ELSE IF e.ok THEN "evaluated" ELSE "lost"]
           /\ UNCHANGED <<core, epoch, refs>>
  BY <1>3, Zenon DEF ReadEvent, OnExecutionContextDestroyed, OnExecutionContextsCleared
<1>6. QED BY <1>1, <1>3, <1>4, <1>5, FrameNavigatedInv, FrameAttachedInv, ContextCreatedInv,
             ContextsForgottenInv, FrameTreeInv, ReplyInv
----------------------------------------------------------------------------
(* An observation *)

LEMMA BeginObservationInv ==
  ASSUME FramesInv, NEW c \in FrameCallers, NEW f \in Frames, BeginObservation(c, f) PROVE FramesInv'
<1>1. /\ PageOK /\ EventsOK /\ TasksOK /\ ClientTypes
      /\ UNCHANGED <<document, child, realm, told, contexts, churn, events, cache, epoch, refs, world>>
      /\ core' = [core EXCEPT !.ax = TRUE] /\ task[c] = NoTask
  BY DEF FramesInv, BeginObservation, browser
<1>2. PICK t : t = [NoTask EXCEPT !.step = "ensure", !.frame = f, !.epoch = epoch, !.since = churn] OBVIOUS
<1>3. task' = [task EXCEPT ![c] = t] BY <1>2 DEF BeginObservation
<1>4. epoch \in Nat /\ churn \in Nat BY <1>1 DEF ClientTypes, PageOK
<1>5. t \in Observing /\ t.step = "ensure" /\ t.since = churn /\ t.retried = FALSE
  <2>1. t = [step |-> "ensure", frame |-> f, ctx |-> 0, cached |-> 0, epoch |-> epoch,
             since |-> churn, retried |-> FALSE, found |-> 0]
    BY <1>2 DEF NoTask
  <2>2. 0 \in Ids BY FramesAssumption DEF Ids
  <2>3. QED BY <1>4, <2>1, <2>2 DEF Observing, Phase
<1>6. task'[c] = t BY <1>1, <1>3 DEF TasksOK
<1>7. TaskOK(c)'
  <2>1. world # c BY <1>1, NoTaskTypes DEF TasksOK, TaskOK, Holding
  <2>2. QED BY <1>1, <1>4, <1>5, <1>6, <2>1 DEF TaskOK, Holding
<1>8. ~Past(c)' BY <1>5, <1>6 DEF Past
<1>9. Steady(c, t) /\ CacheKept(c) BY <1>1, <1>8 DEF Steady, CacheKept
<1>10. task[c].step \notin {"creating", "evaluating"} BY <1>1, NoTaskTypes
<1>11. EventsOK' /\ TasksOK' BY <1>1, <1>3, <1>5, <1>7, <1>9, <1>10, ObservationMoves
<1>12. PageOK' BY <1>1 DEF PageOK
<1>13. ClientTypes' BY <1>1 DEF ClientTypes
<1>14. QED BY <1>11, <1>12, <1>13 DEF FramesInv

(* A step that leaves what the client knows, and the lock, alone.                    *)
LEMMA OwnStep ==
  ASSUME FramesInv, NEW c \in FrameCallers, NEW t \in Observing, task' = [task EXCEPT ![c] = t],
         UNCHANGED <<browser, events, core, cache, epoch, world>>,
         refs' = refs \/ ClientTypes',
         task[c].step \notin {"creating", "evaluating"}, Past(c)' => Past(c) /\ t.since = task[c].since,
         TaskOK(c)'
  PROVE  FramesInv'
<1>1. /\ PageOK /\ EventsOK /\ TasksOK /\ ClientTypes
      /\ UNCHANGED <<document, child, realm, told, contexts, churn>>
  BY DEF FramesInv, browser
<1>2. Steady(c, t) /\ CacheKept(c) BY DEF Steady, CacheKept
<1>3. EventsOK' /\ TasksOK' BY <1>1, <1>2, ObservationMoves
<1>4. PageOK' BY <1>1 DEF PageOK
<1>5. ClientTypes' BY <1>1 DEF ClientTypes
<1>6. QED BY <1>3, <1>4, <1>5 DEF FramesInv

LEMMA EnsureUtilityWorldInv ==
  ASSUME FramesInv, NEW c \in FrameCallers, EnsureUtilityWorld(c) PROVE FramesInv'
<1>1. /\ PageOK /\ TasksOK /\ ClientTypes /\ TaskOK(c) /\ task[c].step = "ensure"
      /\ UNCHANGED <<browser, events, core, cache, epoch, refs, world>>
      /\ task \in [FrameCallers -> Observing]
  BY DEF FramesInv, EnsureUtilityWorld, TasksOK, known
<1>2. PICK b, r : b = task[c] /\ r = core.frames[b.frame] OBVIOUS
<1>3. b \in Observing /\ b.frame \in Frames BY <1>1, <1>2 DEF Observing
<1>4. PICK t : t = IF GetFrame(b.frame) THEN [b EXCEPT !.step = "lock", !.cached = r.utility]
                   ELSE [b EXCEPT !.step = "gone"]
  OBVIOUS
<1>5. task' = [task EXCEPT ![c] = t] BY <1>2, <1>4 DEF EnsureUtilityWorld
<1>6. t \in Observing /\ t.step \in {"lock", "gone"} /\ t.since = b.since /\ t.retried = b.retried
      /\ t.frame = b.frame
  <2>1. CASE GetFrame(b.frame)
    <3>1. r \in FrameContext BY <1>1, <1>2, <1>3, <2>1 DEF GetFrame, ClientTypes
    <3>2. r.utility \in Ids BY <3>1 DEF FrameContext
    <3>3. QED BY <1>3, <1>4, <2>1, <3>2 DEF Observing, Phase
  <2>2. CASE ~GetFrame(b.frame) BY <1>3, <1>4, <2>2 DEF Observing, Phase
  <2>3. QED BY <2>1, <2>2
<1>7. task'[c] = t BY <1>1, <1>5
<1>8. Past(c)' => Past(c) BY <1>2, <1>6, <1>7 DEF Past
<1>9. churn' = churn /\ cache' = cache /\ world' = world /\ realm' = realm BY <1>1 DEF browser
<1>10. TaskOK(c)'
  <2>1. t.since <= churn' BY <1>1, <1>2, <1>6, <1>9 DEF TaskOK
  <2>2. world' = c <=> t.step \in Holding BY <1>1, <1>6, <1>9 DEF TaskOK, Holding
  <2>3. PICK n : n = cache[t.frame] OBVIOUS
  <2>4. t.retried /\ t.step = "lock" => n = 0 \/ Counted(c, n)
    BY <1>1, <1>2, <1>6, <2>3 DEF TaskOK
  <2>5. Counted(c, n) => Counted(c, n)' BY <1>2, <1>6, <1>7, <1>9 DEF Counted, InRealm
  <2>6. QED BY <1>6, <1>7, <1>9, <2>1, <2>2, <2>3, <2>4, <2>5 DEF TaskOK
<1>11. task[c].step \notin {"creating", "evaluating"} BY <1>1
<1>12. QED BY <1>1, <1>2, <1>5, <1>6, <1>8, <1>10, <1>11, OwnStep

LEMMA UtilityWorldLockedInv ==
  ASSUME FramesInv, NEW c \in FrameCallers, UtilityWorldLocked(c) PROVE FramesInv'
<1>1. /\ PageOK /\ EventsOK /\ TasksOK /\ ClientTypes /\ TaskOK(c)
      /\ task[c].step = "lock" /\ world = None
      /\ UNCHANGED <<document, child, realm, told, contexts, churn, events, core, cache, epoch, refs>>
      /\ task \in [FrameCallers -> Observing]
  BY DEF FramesInv, UtilityWorldLocked, TasksOK, known, browser
<1>2. PICK b, n : b = task[c] /\ n = cache[b.frame] OBVIOUS
<1>3. b \in Observing /\ b.frame \in Frames BY <1>1, <1>2 DEF Observing
<1>4. n \in Ids BY <1>1, <1>2, <1>3 DEF ClientTypes
<1>5. PICK t \in Observing :
        /\ task' = [task EXCEPT ![c] = t]
        /\ t.since = b.since /\ t.retried = b.retried
        /\ \/ t.step = "evaluate" /\ t.ctx = n /\ n # 0 /\ world' = world
           \/ t.step = "create" /\ world' = c
  <2>1. CASE n # 0 /\ n = b.cached
    <3>1. task' = [task EXCEPT ![c].step = "evaluate", ![c].ctx = n] /\ world' = world
      BY <1>2, <2>1 DEF UtilityWorldLocked
    <3>2. PICK t : t = [b EXCEPT !.step = "evaluate", !.ctx = n] OBVIOUS
    <3>3. task' = [task EXCEPT ![c] = t] BY <1>1, <1>2, <3>1, <3>2
    <3>4. t \in Observing /\ t.step = "evaluate" /\ t.ctx = n /\ t.since = b.since /\ t.retried = b.retried
      BY <1>3, <1>4, <3>2 DEF Observing, Phase
    <3>5. n # 0 BY <2>1
    <3>6. QED BY <3>1, <3>3, <3>4, <3>5
  <2>2. CASE ~(n # 0 /\ n = b.cached)
    <3>1. task' = [task EXCEPT ![c].step = "create"] /\ world' = c
      BY <1>2, <2>2 DEF UtilityWorldLocked
    <3>2. PICK t : t = [b EXCEPT !.step = "create"] OBVIOUS
    <3>3. task' = [task EXCEPT ![c] = t] BY <1>1, <1>2, <3>1, <3>2
    <3>4. t \in Observing /\ t.step = "create" /\ t.since = b.since /\ t.retried = b.retried
      BY <1>3, <3>2 DEF Observing, Phase
    <3>5. QED BY <3>1, <3>3, <3>4
  <2>3. QED BY <2>1, <2>2
<1>6. task'[c] = t BY <1>1, <1>5
<1>7. \A d \in FrameCallers \ {c} : world' = d <=> world = d BY <1>1, <1>5, FramesAssumption
<1>8. Steady(c, t) /\ CacheKept(c) BY <1>1 DEF Steady, CacheKept
<1>9. TaskOK(c)'
  <2>1. t.since <= churn' BY <1>1, <1>2, <1>5 DEF TaskOK
  <2>2. world' = c <=> t.step \in Holding BY <1>1, <1>5, FramesAssumption DEF Holding
  <2>3. t.retried /\ t.step = "evaluate" => Counted(c, n) BY <1>1, <1>2, <1>5 DEF TaskOK
  <2>4. Counted(c, n) => Counted(c, n)' BY <1>1, <1>2, <1>5, <1>6 DEF Counted, InRealm
  <2>5. t.step = "evaluate" => t.ctx = n BY <1>5
  <2>6. t.step \in {"evaluate", "create"} BY <1>5
  <2>7. QED BY <1>6, <2>1, <2>2, <2>3, <2>4, <2>5, <2>6 DEF TaskOK
<1>10. EventsOK' /\ TasksOK' BY <1>1, <1>5, <1>7, <1>8, <1>9, ObservationMoves
<1>11. PageOK' BY <1>1 DEF PageOK
<1>12. ClientTypes' BY <1>1, <1>5 DEF ClientTypes
<1>13. QED BY <1>10, <1>11, <1>12 DEF FramesInv

LEMMA UtilityWorldCreatedInv ==
  ASSUME FramesInv, NEW c \in FrameCallers, UtilityWorldCreated(c) PROVE FramesInv'
<1>1. /\ PageOK /\ EventsOK /\ TasksOK /\ ClientTypes /\ TaskOK(c) /\ task[c].step = "created"
      /\ UNCHANGED <<document, child, realm, told, contexts, churn, events, epoch, refs>> /\ world' = None
      /\ task \in [FrameCallers -> Observing]
  BY DEF FramesInv, UtilityWorldCreated, TasksOK, browser
<1>2. PICK b, f, id : b = task[c] /\ f = b.frame /\ id = b.found OBVIOUS
<1>3. b \in Observing /\ f \in Frames /\ id \in Ids /\ CountedByAll(id)
  BY <1>1, <1>2 DEF Observing, TaskOK
<1>4. /\ cache' = [cache EXCEPT ![f] = id]
      /\ core' = IF core.frames[f] = None THEN core ELSE [core EXCEPT !.frames[f].utility = id]
      /\ task' = [task EXCEPT ![c].step = "evaluate", ![c].ctx = id]
  BY <1>2 DEF UtilityWorldCreated
<1>5. PICK t : t = [b EXCEPT !.step = "evaluate", !.ctx = id] OBVIOUS
<1>6. task' = [task EXCEPT ![c] = t] BY <1>1, <1>2, <1>4, <1>5
<1>7. t \in Observing /\ t.step = "evaluate" /\ t.ctx = id /\ t.since = b.since /\ t.retried = b.retried
  BY <1>3, <1>5 DEF Observing, Phase
<1>8. task'[c] = t BY <1>1, <1>6
<1>9. Steady(c, t) BY <1>1, <1>2, <1>7 DEF Steady, Past
<1>10. CacheKept(c)
  <2>1. SUFFICES ASSUME NEW d \in FrameCallers \ {c}
                 PROVE  \/ cache'[task[d].frame] = cache[task[d].frame]
                        \/ Past(d) => Counted(d, cache'[task[d].frame])
    BY DEF CacheKept
  <2>2. task[d].frame \in Frames /\ cache \in [Frames -> Ids] BY <1>1 DEF Observing, ClientTypes
  <2>3. CASE task[d].frame = f
    <3>1. cache'[task[d].frame] = id BY <1>4, <2>2, <2>3
    <3>2. Past(d) => Counted(d, id) BY <1>3 DEF CountedByAll
    <3>3. QED BY <3>1, <3>2
  <2>4. CASE task[d].frame # f BY <1>4, <2>2, <2>4
  <2>5. QED BY <2>3, <2>4
<1>11. \A d \in FrameCallers \ {c} : world' = d <=> world = d
  <2>1. world = c BY <1>1 DEF TaskOK, Holding
  <2>2. QED BY <1>1, <2>1, FramesAssumption
<1>12. TaskOK(c)'
  <2>1. t.since <= churn' BY <1>1, <1>2, <1>7 DEF TaskOK
  <2>2. world' # c /\ t.step \notin Holding BY <1>1, <1>7, FramesAssumption DEF Holding
  <2>3. Counted(c, id) BY <1>1, <1>3 DEF CountedByAll, Past
  <2>4. Counted(c, id)' BY <1>1, <1>2, <1>7, <1>8, <2>3 DEF Counted, InRealm
  <2>5. QED BY <1>7, <1>8, <2>1, <2>2, <2>4 DEF TaskOK
<1>13. EventsOK' /\ TasksOK'
  BY <1>1, <1>6, <1>7, <1>9, <1>10, <1>11, <1>12, ObservationMoves
<1>14. PageOK' BY <1>1 DEF PageOK
<1>15. ClientTypes'
  <2>1. cache' \in [Frames -> Ids] BY <1>1, <1>3, <1>4 DEF ClientTypes
  <2>2. /\ core' = [step |-> core'.step, frames |-> core'.frames, ax |-> core'.ax]
        /\ core'.frames \in [Frames -> FrameContext \cup {None}]
    <3>1. CASE core.frames[f] = None BY <1>1, <1>4, <3>1 DEF ClientTypes
    <3>2. CASE core.frames[f] # None
      <4>1. PICK r : r = [core.frames[f] EXCEPT !.utility = id] OBVIOUS
      <4>2. core.frames[f] \in FrameContext BY <1>1, <1>3, <3>2 DEF ClientTypes
      <4>3. r \in FrameContext BY <1>3, <4>1, <4>2 DEF FrameContext
      <4>4. PICK fs : fs = [core.frames EXCEPT ![f] = r] OBVIOUS
      <4>5. fs \in [Frames -> FrameContext \cup {None}] BY <1>1, <4>3, <4>4 DEF ClientTypes
      <4>6. core' = [core EXCEPT !.frames = fs] BY <1>1, <1>3, <1>4, <3>2, <4>1, <4>4 DEF ClientTypes
      <4>7. QED BY <1>1, <4>5, <4>6 DEF ClientTypes
    <3>3. QED BY <3>1, <3>2
  <2>3. QED BY <1>1, <2>1, <2>2 DEF ClientTypes
<1>16. QED BY <1>13, <1>14, <1>15 DEF FramesInv

LEMMA UtilityWorldFailedInv ==
  ASSUME FramesInv, NEW c \in FrameCallers, UtilityWorldFailed(c) PROVE FramesInv'
<1>1. /\ PageOK /\ EventsOK /\ TasksOK /\ ClientTypes /\ TaskOK(c) /\ task[c].step = "failed"
      /\ UNCHANGED <<document, child, realm, told, contexts, churn, events, core, cache, epoch, refs>>
      /\ world' = None /\ task \in [FrameCallers -> Observing]
  BY DEF FramesInv, UtilityWorldFailed, TasksOK, known, browser
<1>2. PICK t : t = [task[c] EXCEPT !.step = "gone"] OBVIOUS
<1>3. task' = [task EXCEPT ![c] = t] BY <1>1, <1>2 DEF UtilityWorldFailed
<1>4. t \in Observing /\ t.step = "gone" /\ t.since = task[c].since /\ t.retried = task[c].retried
  BY <1>1, <1>2 DEF Observing, Phase
<1>5. task'[c] = t BY <1>1, <1>3
<1>6. \A d \in FrameCallers \ {c} : world' = d <=> world = d
  <2>1. world = c BY <1>1 DEF TaskOK, Holding
  <2>2. QED BY <1>1, <2>1, FramesAssumption
<1>7. Steady(c, t) /\ CacheKept(c) BY <1>1, <1>4, <1>5 DEF Steady, CacheKept, Past
<1>8. TaskOK(c)'
  <2>1. t.since <= churn' BY <1>1, <1>4 DEF TaskOK
  <2>2. world' # c BY <1>1, FramesAssumption
  <2>3. QED BY <1>4, <1>5, <2>1, <2>2 DEF TaskOK, Holding
<1>9. EventsOK' /\ TasksOK' BY <1>1, <1>3, <1>4, <1>6, <1>7, <1>8, ObservationMoves
<1>10. PageOK' BY <1>1 DEF PageOK
<1>11. ClientTypes' BY <1>1 DEF ClientTypes
<1>12. QED BY <1>9, <1>10, <1>11 DEF FramesInv

(* The retry counts on nothing that is cached.                                       *)
LEMMA RetryEvaluateInv ==
  ASSUME FramesInv, NEW c \in FrameCallers, RetryEvaluate(c) PROVE FramesInv'
<1>1. /\ PageOK /\ EventsOK /\ TasksOK /\ ClientTypes /\ TaskOK(c) /\ task[c].step = "lost"
      /\ UNCHANGED <<document, child, realm, told, contexts, churn, events, core, epoch, refs, world>>
      /\ task \in [FrameCallers -> Observing]
  BY DEF FramesInv, RetryEvaluate, TasksOK, browser
<1>2. PICK b, f : b = task[c] /\ f = b.frame OBVIOUS
<1>3. b \in Observing /\ f \in Frames /\ cache \in [Frames -> Ids]
  BY <1>1, <1>2 DEF Observing, ClientTypes
<1>4. cache' = [cache EXCEPT ![f] = 0] BY <1>2 DEF RetryEvaluate
<1>5. PICK t : t = [b EXCEPT !.step = "ensure", !.retried = TRUE] OBVIOUS
<1>6. task' = [task EXCEPT ![c] = t] BY <1>1, <1>2, <1>5 DEF RetryEvaluate
<1>7. t \in Observing /\ t.step = "ensure" /\ t.since = b.since /\ t.frame = f
  BY <1>2, <1>3, <1>5 DEF Observing, Phase
<1>8. task'[c] = t BY <1>1, <1>6
<1>9. Steady(c, t) BY <1>1, <1>2, <1>7 DEF Steady, Past
<1>10. CacheKept(c)
  <2>1. SUFFICES ASSUME NEW d \in FrameCallers \ {c}
                 PROVE  \/ cache'[task[d].frame] = 0
                        \/ cache'[task[d].frame] = cache[task[d].frame]
    BY DEF CacheKept
  <2>2. task[d].frame \in Frames BY <1>1 DEF Observing
  <2>3. QED BY <1>3, <1>4, <2>2
<1>11. TaskOK(c)'
  <2>1. t.since <= churn' BY <1>1, <1>2, <1>7 DEF TaskOK
  <2>2. world' # c BY <1>1 DEF TaskOK, Holding
  <2>3. cache'[t.frame] = 0 BY <1>3, <1>4, <1>7
  <2>4. QED BY <1>7, <1>8, <2>1, <2>2, <2>3 DEF TaskOK, Holding
<1>12. task[c].step \notin {"creating", "evaluating"} BY <1>1
<1>13. \A d \in FrameCallers \ {c} : world' = d <=> world = d BY <1>1
<1>14. EventsOK' /\ TasksOK'
  BY <1>1, <1>6, <1>7, <1>9, <1>10, <1>11, <1>12, <1>13, ObservationMoves
<1>15. PageOK' BY <1>1 DEF PageOK
<1>16. ClientTypes'
  <2>1. cache' \in [Frames -> Ids] BY <1>3, <1>4, FramesAssumption DEF Ids
  <2>2. QED BY <1>1, <2>1 DEF ClientTypes
<1>17. QED BY <1>14, <1>15, <1>16 DEF FramesInv

(* An observation ends.                                                              *)
LEMMA ObservationEnds ==
  ASSUME FramesInv, NEW c \in FrameCallers, task[c].step \in {"gone", "offline", "evaluated", "lost"},
         task' = [task EXCEPT ![c] = NoTask],
         UNCHANGED <<browser, events, core, cache, epoch, world>>, refs' = refs \/ ClientTypes'
  PROVE  FramesInv'
<1>1. TaskOK(c) /\ task \in [FrameCallers -> Observing] /\ churn \in Nat /\ churn' = churn /\ world' = world
  BY DEF FramesInv, TasksOK, PageOK, browser
<1>2. task'[c] = NoTask BY <1>1
<1>3. ~Past(c)' BY <1>2, NoTaskTypes DEF Past
<1>4. TaskOK(c)'
  <2>1. world' # c BY <1>1 DEF TaskOK, Holding
  <2>2. 0 <= churn' BY <1>1
  <2>3. QED BY <1>2, <2>1, <2>2, NoTaskTypes DEF TaskOK, Holding
<1>5. NoTask \in Observing /\ task[c].step \notin {"creating", "evaluating"} BY NoTaskTypes
<1>6. QED BY <1>3, <1>4, <1>5, OwnStep

LEMMA ObserveWebviewInv ==
  ASSUME FramesInv, NEW c \in FrameCallers, ObserveWebview(c) PROVE FramesInv'
<1>1. /\ task[c].step = "evaluated" /\ task' = [task EXCEPT ![c] = NoTask]
      /\ UNCHANGED <<browser, events, core, cache, epoch, world>>
      /\ refs' = refs \cup {[epoch |-> epoch, document |-> task[c].found]}
  BY DEF ObserveWebview
<1>2. task[c].found \in 1..MaxDocuments BY <1>1 DEF FramesInv, TasksOK, TaskOK
<1>3. epoch \in 1..MaxDocuments
  BY FramesAssumption DEF FramesInv, ClientTypes, PageOK
<1>4. refs' \subseteq [epoch : 1..MaxDocuments, document : 1..MaxDocuments]
  BY <1>1, <1>2, <1>3 DEF FramesInv, ClientTypes
<1>5. document' = document BY <1>1 DEF browser
<1>6. ClientTypes' BY <1>1, <1>4, <1>5 DEF FramesInv, ClientTypes
<1>7. QED BY <1>1, <1>6, ObservationEnds

LEMMA ObserveNothingInv ==
  ASSUME FramesInv, NEW c \in FrameCallers, ObserveNothing(c) PROVE FramesInv'
<1>1. /\ task[c].step \in {"gone", "offline", "lost"} /\ task' = [task EXCEPT ![c] = NoTask]
      /\ UNCHANGED <<browser, events, core, cache, epoch, refs, world>>
  BY DEF ObserveNothing, EvaluateLost, known
<1>2. QED BY <1>1, ObservationEnds
----------------------------------------------------------------------------
LEMMA FramesNextInv == FramesInv /\ [FramesNext]_framesVars => FramesInv'
<1>1. SUFFICES ASSUME FramesInv, [FramesNext]_framesVars PROVE FramesInv' OBVIOUS
<1>2. CASE UNCHANGED framesVars
  BY <1>1, <1>2 DEF framesVars, FramesInv, PageOK, ClientTypes, EventsOK, TasksOK, TaskOK, ReportOK,
                    ReplyOK, CountedByAll, Counted, Past, InRealm
<1>3. CASE Navigate \/ ChildAppears \/ ChildGoes \/ CoreConnect \/ ConnectionRestored \/ CoreDisconnect
           \/ ReadEvent
  BY <1>1, <1>3, NavigateInv, ChildAppearsInv, ChildGoesInv, CoreConnectInv, ConnectionRestoredInv,
     CoreDisconnectInv, ReadEventInv
<1>4. ASSUME NEW c \in FrameCallers,
             \/ ServeWorld(c) \/ ServeEvaluate(c)
             \/ \E f \in Frames : BeginObservation(c, f)
             \/ EnsureUtilityWorld(c) \/ UtilityWorldLocked(c) \/ UtilityWorldCreated(c)
             \/ UtilityWorldFailed(c) \/ RetryEvaluate(c) \/ ObserveWebview(c) \/ ObserveNothing(c)
      PROVE  FramesInv'
  BY <1>1, <1>4, ServeWorldInv, ServeEvaluateInv, BeginObservationInv, EnsureUtilityWorldInv,
     UtilityWorldLockedInv, UtilityWorldCreatedInv, UtilityWorldFailedInv, RetryEvaluateInv,
     ObserveWebviewInv, ObserveNothingInv
<1>5. QED BY <1>1, <1>2, <1>3, <1>4 DEF FramesNext

(* The types of the client's view of the page.                                       *)
THEOREM FramesTypes == FramesSpec => []FramesTypeOK
<1>1. FramesInv => FramesTypeOK
  BY FramesAssumption DEF FramesInv, PageOK, ClientTypes, EventsOK, FramesTypeOK
<1>2. QED BY <1>1, FramesInitially, FramesNextInv, PTL DEF FramesSpec

(* One retry is enough: an evaluation finds no living world twice only when a context *)
(* was lost after its observation began (web_observation.py, the retry of             *)
(* Runtime.evaluate with a fresh utility world).                                      *)
THEOREM RetrySuffices == FramesSpec => []RetryIsEnough
<1>1. FramesInv => RetryIsEnough BY DEF FramesInv, TasksOK, TaskOK, RetryIsEnough, EvaluateLost
<1>2. QED BY <1>1, FramesInitially, FramesNextInv, PTL DEF FramesSpec

------------------------------------------------------------------------------------
(* The composition (MCWorld).  A behaviour of the whole is one of each part: the part  *)
(* that runs takes its own steps, the others none.                                     *)
worldVars == <<part, targetVars, framesVars, executorVars, judgeVars, treeVars>>

LEMMA PartsStep ==
  ASSUME [Next]_worldVars
  PROVE  /\ [TargetsNext]_targetVars /\ [FramesNext]_framesVars /\ [ExecutorNext]_executorVars
         /\ [JudgeNext]_judgeVars /\ [TreesNext]_treeVars
<1>1. \/ RunTargets \/ RunFrames \/ RunExecutors \/ RunJudge \/ RunTrees
      \/ UNCHANGED worldVars
  BY DEF Next
<1>2. CASE RunTargets BY <1>2 DEF RunTargets
<1>3. CASE RunFrames BY <1>3 DEF RunFrames
<1>4. CASE RunExecutors BY <1>4 DEF RunExecutors
<1>5. CASE RunJudge BY <1>5 DEF RunJudge
<1>6. CASE RunTrees BY <1>6 DEF RunTrees
<1>7. CASE UNCHANGED worldVars BY <1>7 DEF worldVars
<1>8. QED BY <1>1, <1>2, <1>3, <1>4, <1>5, <1>6, <1>7, Zenon

(* What MCWorld composes are behaviours of the five components.                         *)
THEOREM WorldComposed ==
  Spec => /\ TargetsSpec /\ FramesSpec /\ ExecutorSpec /\ JudgeSpec /\ TreesSpec
<1>1. Init => TargetsInit /\ FramesInit /\ ExecutorInit /\ JudgeInit /\ TreesInit
  BY DEF Init
<1>2. [Next]_worldVars
        => /\ [TargetsNext]_targetVars /\ [FramesNext]_framesVars /\ [ExecutorNext]_executorVars
           /\ [JudgeNext]_judgeVars /\ [TreesNext]_treeVars
  BY PartsStep
<1>3. Spec => Init /\ [][Next]_worldVars BY DEF Spec, worldVars
<1>4. QED
  BY <1>1, <1>2, <1>3, PTL DEF TargetsSpec, FramesSpec, ExecutorSpec, JudgeSpec, TreesSpec

(* In every instance of the components that face the application all of their          *)
(* variables have their types, whichever of them runs.                                 *)
THEOREM WorldTyped == Spec => []WorldTypeOK
<1>1. /\ TargetsTypeOK /\ FramesTypeOK /\ ExecutorTypeOK /\ JudgeTypeOK /\ TreesTypeOK
      => WorldTypeOK
  BY DEF WorldTypeOK
<1>2. QED
  BY <1>1, WorldComposed, TargetsTypes, FramesTypes, ExecutorTypes, JudgeTypes, TreesTypes, PTL
====================================================================================
