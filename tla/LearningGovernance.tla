------------------------- MODULE LearningGovernance -------------------------
(***************************************************************************)
(* Learning from recorded failures (runtime/experience/learning/ and       *)
(* scripts/learning_cli.py), for one failure signature: the facts in the   *)
(* experience store, the observation made of them, the pattern, the        *)
(* improvement candidate, the people's decisions on it, the knowledge that *)
(* an approval creates and its decay.                                      *)
(*                                                                         *)
(* Every command is a process of its own.  It reads a record, works on its *)
(* copy and writes the copy back, in one transaction per record; the store *)
(* may answer any of those writes None (ExperienceStore says when), which  *)
(* no command looks at.  hands[c] is what command c holds and has still to *)
(* write.                                                                  *)
(***************************************************************************)
EXTENDS Naturals, FiniteSets, Sequences

CONSTANTS
  Facts,       \* the failures of this signature the runtime may record
  SessionOf,   \* SessionOf[f]: the review session of a failure
  Commands,    \* the commands that may run at a time
  None,        \* no such record yet
  MaxCount     \* occurrences are counted up to here

\* What the constants must be.
ASSUME LearningAssumption ==
  /\ None \notin Facts
  /\ MaxCount \in Nat /\ MaxCount >= 5

VARIABLES
  facts,       \* the failures in the store
  observation, \* None or [count, session, refs]
  pattern,     \* None or [count, sessions]
  candidate,   \* None or [status, evidence, sessions]
  decisions,   \* the governance records, by decision
  knowledge,   \* None or [status, age]; age counts past review_due_at
  hands        \* hands[c]: <<>> or the records c has still to write

learningVars ==
  <<facts, observation, pattern, candidate, decisions, knowledge, hands>>

MIN_PATTERN_OCCURRENCES == 2
MIN_CANDIDATE_OCCURRENCES == 3
MIN_VALIDATION_OCCURRENCES == 5
MIN_CANDIDATE_SESSIONS == 2

Counted(n) == IF n > MaxCount THEN MaxCount ELSE n

LearningInit ==
  /\ facts = {} /\ decisions = {}
  /\ observation = None /\ pattern = None
  /\ candidate = None /\ knowledge = None
  /\ hands = [c \in Commands |-> <<>>]

\* the runtime records one more failure
FactRecorded(f) ==
  /\ f \notin facts
  /\ facts' = facts \cup {f}
  /\ UNCHANGED <<observation, pattern, candidate, decisions, knowledge, hands>>

(***************************************************************************)
(* run-observations: every recorded failure becomes an observation whose   *)
(* id is made of the signature, and recording an observation that is there *)
(* adds to its count.  Its session stays that of the first.                *)
(***************************************************************************)
DeriveFromFailure(f) == [count |-> 1, session |-> SessionOf[f], refs |-> {f}]

RecordObservation(old, new) ==
  IF old = None THEN new
  ELSE [old EXCEPT !.count = Counted(@ + new.count), !.refs = @ \cup new.refs]

RunObservations ==
  /\ \E f \in facts :   \* one turn of the loop over the failures
       observation' = RecordObservation(observation, DeriveFromFailure(f))
  /\ UNCHANGED <<facts, pattern, candidate, decisions, knowledge, hands>>

(***************************************************************************)
(* run-patterns: one cluster per signature; its sessions are those of its  *)
(* observations.                                                           *)
(***************************************************************************)
DetectPatterns(observations) ==
  LET total    == observations.count
      sessions == Cardinality({observations.session})
  IN IF total < MIN_PATTERN_OCCURRENCES THEN None
     ELSE [count |-> total, sessions |-> sessions]

RunPatterns ==
  /\ observation # None
  /\ pattern' = IF DetectPatterns(observation) = None THEN pattern
                ELSE DetectPatterns(observation)
  /\ UNCHANGED <<facts, observation, candidate, decisions, knowledge, hands>>

(***************************************************************************)
(* The evidence gates.  What a generated candidate always meets (grounded  *)
(* rationale, clean payload, a scope below GLOBAL) is left out; no caller  *)
(* passes contradictions.                                                  *)
(***************************************************************************)
EvaluateCandidateSafety(c, approved) ==
  /\ c.evidence >= IF c.status = "VALIDATION_REQUIRED" THEN MIN_VALIDATION_OCCURRENCES
                   ELSE MIN_CANDIDATE_OCCURRENCES
  /\ c.sessions >= MIN_CANDIDATE_SESSIONS
  /\ c.status \in {"HUMAN_APPROVED", "DURABLE"} => approved

GenerateCandidate(p) ==
  [status   |-> IF /\ p.count >= MIN_VALIDATION_OCCURRENCES
                   /\ p.sessions >= MIN_CANDIDATE_SESSIONS
                THEN "VALIDATION_REQUIRED"
                ELSE IF p.count >= MIN_CANDIDATE_OCCURRENCES THEN "CANDIDATE"
                ELSE "OBSERVED",
   evidence |-> p.count,
   sessions |-> p.sessions]

\* run-candidates: the candidate's row is rewritten, its status with it
RunCandidates ==
  /\ pattern # None
  /\ candidate' = GenerateCandidate(pattern)
  /\ UNCHANGED <<facts, observation, pattern, decisions, knowledge, hands>>

(***************************************************************************)
(* validate, approve, reject.                                              *)
(***************************************************************************)
Idle(c) == hands[c] = <<>>

Hold(c, writes) ==
  /\ Idle(c)
  /\ hands' = [hands EXCEPT ![c] = writes]
  /\ UNCHANGED <<facts, observation, pattern, candidate, decisions, knowledge>>

Write(table, value, by) == [table |-> table, value |-> value, by |-> by]

CmdValidate(c) ==
  /\ candidate # None
  /\ candidate.status \notin {"REJECTED", "SUPERSEDED"}
  /\ Hold(c, <<Write("candidate",
       IF EvaluateCandidateSafety(candidate, FALSE)
       THEN [candidate EXCEPT !.status = "VALIDATED"] ELSE candidate, "command")>>)

\* apply_human_decision: an approval starts from these states only
CmdApprove(c) ==
  /\ candidate # None
  /\ candidate.status \in {"VALIDATED", "VALIDATION_REQUIRED", "CANDIDATE"}
  /\ Hold(c, <<Write("candidate", [candidate EXCEPT !.status = "DURABLE"], "person"),
               Write("decision", "APPROVE", "person"),
               Write("knowledge", [status |-> "DURABLE", age |-> 0], "person")>>)

CmdReject(c) ==
  /\ candidate # None
  /\ Hold(c, <<Write("candidate", [candidate EXCEPT !.status = "REJECTED"], "person"),
               Write("decision", "REJECT", "person")>>)

(***************************************************************************)
(* decay.py.  Age 0 is before review_due_at, 1 past it, 2 past the grace.  *)
(***************************************************************************)
Retired == {"SUPERSEDED", "RETIRED"}

EvaluateKnowledge(k) ==
  IF k.status \in Retired \/ k.age = 0 THEN k
  ELSE [k EXCEPT !.status = IF k.age = 2 THEN "STALE" ELSE "REVIEW_DUE"]

\* writes every record back, changed or not
DecayAll(c) ==
  /\ knowledge # None
  /\ Hold(c, <<Write("knowledge", EvaluateKnowledge(knowledge), "command")>>)

\* apply_decay_transitions
CmdDecay(c) ==
  /\ knowledge # None
  /\ EvaluateKnowledge(knowledge) # knowledge
  /\ Hold(c, <<Write("knowledge", EvaluateKnowledge(knowledge), "command")>>)

RevalidateKnowledge(c) ==
  /\ knowledge # None
  /\ Hold(c, <<Write("knowledge", [status |-> "DURABLE", age |-> 0], "person")>>)

SupersedeKnowledge(c) ==
  /\ knowledge # None
  /\ Hold(c, <<Write("knowledge", [knowledge EXCEPT !.status = "SUPERSEDED"], "person")>>)

(***************************************************************************)
(* A command's next write: stored, or refused without the command noticing.*)
(***************************************************************************)
Rest(c) == hands' = [hands EXCEPT ![c] = Tail(@)]

RecordImprovementCandidate(c) ==
  /\ ~Idle(c) /\ Head(hands[c]).table = "candidate"
  /\ candidate' = Head(hands[c]).value
  /\ Rest(c)
  /\ UNCHANGED <<facts, observation, pattern, decisions, knowledge>>

RecordGovernanceDecision(c) ==
  /\ ~Idle(c) /\ Head(hands[c]).table = "decision"
  /\ decisions' = decisions \cup {Head(hands[c]).value}
  /\ Rest(c)
  /\ UNCHANGED <<facts, observation, pattern, candidate, knowledge>>

RecordDurableKnowledge(c) ==
  /\ ~Idle(c) /\ Head(hands[c]).table = "knowledge"
  /\ knowledge' = Head(hands[c]).value
  /\ Rest(c)
  /\ UNCHANGED <<facts, observation, pattern, candidate, decisions>>

Refuse(c) ==
  /\ ~Idle(c)
  /\ Rest(c)
  /\ UNCHANGED <<facts, observation, pattern, candidate, decisions, knowledge>>

Kill(c) ==
  /\ ~Idle(c)
  /\ hands' = [hands EXCEPT ![c] = <<>>]
  /\ UNCHANGED <<facts, observation, pattern, candidate, decisions, knowledge>>

Day ==
  /\ knowledge # None /\ knowledge.age < 2
  /\ knowledge' = [knowledge EXCEPT !.age = @ + 1]
  /\ UNCHANGED <<facts, observation, pattern, candidate, decisions, hands>>

LearningNext ==
  \/ \E f \in Facts : FactRecorded(f)
  \/ RunObservations \/ RunPatterns \/ RunCandidates
  \/ \E c \in Commands :
       \/ CmdValidate(c) \/ CmdApprove(c) \/ CmdReject(c)
       \/ CmdDecay(c) \/ RevalidateKnowledge(c) \/ SupersedeKnowledge(c)
       \/ RecordImprovementCandidate(c) \/ RecordGovernanceDecision(c)
       \/ RecordDurableKnowledge(c) \/ Refuse(c) \/ Kill(c)
  \/ Day

LearningSpec == LearningInit /\ [][LearningNext]_learningVars

Statuses == {"OBSERVED", "CANDIDATE", "VALIDATION_REQUIRED", "VALIDATED",
             "DURABLE", "REJECTED"}

CandidateRecords == [status : Statuses, evidence : 1 .. MaxCount, sessions : {1}]

KnowledgeRecords ==
  [status : {"DURABLE", "REVIEW_DUE", "STALE", "SUPERSEDED"}, age : 0 .. 2]

LearningTypeOK ==
  /\ facts \subseteq Facts
  /\ decisions \subseteq {"APPROVE", "REJECT"}
  /\ candidate = None \/ candidate \in CandidateRecords
  /\ knowledge = None \/ knowledge \in KnowledgeRecords

(***************************************************************************)
(* Knowledge that has lost its standing -- stale, due for review,          *)
(* superseded -- gets it back only from a person's approval or             *)
(* revalidation.  Decay works on copies it has read earlier, and must not  *)
(* put an old one back.                                                    *)
(***************************************************************************)
RevivedByPerson ==
  knowledge # None /\ knowledge.status # "DURABLE" /\ knowledge'.status = "DURABLE"
    => \E c \in Commands : RecordDurableKnowledge(c) /\ Head(hands[c]).by = "person"
OnlyPeopleRevive == [][RevivedByPerson]_learningVars

(***************************************************************************)
(* "One occurrence cannot create durable knowledge" (invariant 5 of the    *)
(* learning document): knowledge rests on more than one recorded failure.  *)
(* The same failure is counted again by every run of run-observations.     *)
(***************************************************************************)
OneOccurrenceIsNotEnough == knowledge # None => Cardinality(facts) > 1
=============================================================================
