-------------------------------- MODULE EvidenceStore --------------------------------
(* runtime/evidence_store.py and those who use it: the verification engine seals    *)
(* what it judged, one directory for each attempt, file by file, and a process may  *)
(* die between two files; desktop_collect_evidence (mcp/tools/evidence.py) does so  *)
(* under a lock of the session; the evidence specialist and the resources of the    *)
(* server read what was sealed, which other programs may damage.                    *)
EXTENDS Integers, FiniteSets

CONSTANTS
  Collectors,    \* calls of desktop_collect_evidence
  Executions,    \* calls of the action engine that verify what they did
  ActionIds,     \* action_ids those calls carry
  MaxCrashes,    \* bound: how often the process dies
  MaxDamage      \* bound: how many files others damage

\* What the constants must be.
ASSUME EvidenceStoreAssumption ==
  /\ Collectors \cap Executions = {}
  /\ MaxCrashes \in Nat /\ MaxDamage \in Nat

VARIABLES
  disk,        \* attempt -> file -> "absent", "whole" or "damaged"
  listed,      \* attempt -> the artifacts its manifest lists
  shots,       \* action_id -> the attempt whose screenshot the action's directory holds
  call,        \* attempt -> where its call is, and its action_id
  holder,      \* who holds the session's _evidence_lock, or NoOne
  crashes,     \* how often the process died
  written      \* attempt -> the files it ever put on the disk (observed)

evidenceVars == <<disk, listed, shots, call, holder, crashes, written>>

Attempts == Collectors \cup Executions
NoOne == "no one"
Artifacts == {"receipt", "outcome", "diff"}
EvidenceFiles == Artifacts \cup {"manifest", "checksums"}
Running == {"waiting", "observing", "receipt", "outcome", "diff", "manifest", "checksums"}
Ended == {"answered", "refused", "cancelled", "died"}

EvidenceTypeOK ==
  /\ disk \in [Attempts -> [EvidenceFiles -> {"absent", "whole", "damaged"}]]
  /\ listed \in [Attempts -> SUBSET Artifacts]
  /\ shots \in [ActionIds -> Attempts \cup {NoOne}]
  /\ call \in [Attempts -> [step : {"idle"} \cup Running \cup Ended, action : ActionIds]]
  /\ holder \in Collectors \cup {NoOne}
  /\ crashes \in 0..MaxCrashes
  /\ written \in [Attempts -> SUBSET EvidenceFiles]

EvidenceInit ==
  /\ disk = [a \in Attempts |-> [f \in EvidenceFiles |-> "absent"]]
  /\ listed = [a \in Attempts |-> {}]
  /\ shots = [i \in ActionIds |-> NoOne]
  /\ call \in [Attempts -> [step : {"idle"}, action : ActionIds]]
  /\ holder = NoOne
  /\ crashes = 0
  /\ written = [a \in Attempts |-> {}]

At(a, step) == call[a].step = step
Go(a, step) == call' = [call EXCEPT ![a].step = step]

(* Sealing is synchronous: while one attempt writes, nothing else in the process    *)
(* runs.                                                                            *)
Sealing == \E a \in Attempts : call[a].step \in EvidenceFiles

(* desktop_collect_evidence: acquire, then the awaits of its observation.           *)
Collect(a) ==
  /\ ~Sealing /\ At(a, "idle")
  /\ Go(a, "waiting")
  /\ UNCHANGED <<disk, listed, shots, holder, crashes, written>>

Acquire(a) ==
  /\ ~Sealing /\ At(a, "waiting") /\ holder = NoOne
  /\ holder' = a
  /\ Go(a, "observing")
  /\ UNCHANGED <<disk, listed, shots, crashes, written>>

(* The observation failed: the handler releases the lock.  The first is the mutant  *)
(* that does not.                                                                   *)
CollectFailedLocked(a) ==
  /\ ~Sealing /\ At(a, "observing") /\ a \in Collectors
  /\ Go(a, "refused")
  /\ UNCHANGED <<disk, listed, shots, holder, crashes, written>>

CollectFailed(a) ==
  /\ ~Sealing /\ At(a, "observing") /\ a \in Collectors
  /\ holder' = NoOne
  /\ Go(a, "refused")
  /\ UNCHANGED <<disk, listed, shots, crashes, written>>

(* A client gives up: CancelledError passes the handler by, which is for Exception. *)
CancelCollect(a) ==
  /\ ~Sealing
  /\ call[a].step \in {"waiting", "observing"} /\ a \in Collectors
  /\ Go(a, "cancelled")
  /\ UNCHANGED <<disk, listed, shots, holder, crashes, written>>

(* The engine's call: its screenshot goes to the directory of the action, not of    *)
(* the attempt, and a second one is refused there, which is only logged.            *)
CaptureScreenshot(a) ==
  /\ ~Sealing /\ At(a, "idle") /\ a \in Executions
  /\ shots' = [shots EXCEPT ![call[a].action] = IF @ = NoOne THEN a ELSE @]
  /\ Go(a, "observing")
  /\ UNCHANGED <<disk, listed, holder, crashes, written>>

(* evaluate_transaction persists: the artifacts in this order, then the manifest    *)
(* that lists them, then its checksums.  Only the engine has a diff.  The first is   *)
(* the mutant that seals first.                                                     *)
ManifestFirst(step, diff) ==
  CASE step = "observing" -> "manifest"
    [] step = "manifest" -> "receipt"
    [] step = "receipt" -> "outcome"
    [] step = "outcome" -> IF diff THEN "diff" ELSE "checksums"
    [] step = "diff" -> "checksums"
    [] step = "checksums" -> "answered"

Following(step, diff) ==
  CASE step = "observing" -> "receipt"
    [] step = "receipt" -> "outcome"
    [] step = "outcome" -> IF diff THEN "diff" ELSE "manifest"
    [] step = "diff" -> "manifest"
    [] step = "manifest" -> "checksums"
    [] step = "checksums" -> "answered"

EvaluateTransaction(a) ==
  /\ ~Sealing /\ At(a, "observing")
  /\ \E diff \in {FALSE} \cup {a \in Executions} :
       /\ listed' = [listed EXCEPT ![a] = Artifacts \ (IF diff THEN {} ELSE {"diff"})]
       /\ Go(a, Following("observing", diff))
  /\ UNCHANGED <<disk, shots, holder, crashes, written>>

(* store_bytes and store_manifest: a temporary file, then the name.                 *)
StoreFile(a) ==
  /\ call[a].step \in EvidenceFiles
  /\ disk' = [disk EXCEPT ![a][call[a].step] = "whole"]
  /\ written' = [written EXCEPT ![a] = @ \cup {call[a].step}]
  /\ Go(a, Following(call[a].step, "diff" \in listed[a]))
  /\ holder' = IF At(a, "checksums") /\ holder = a THEN NoOne ELSE holder
  /\ UNCHANGED <<listed, shots, crashes>>

(* The disk is full: what the attempt stored before stays, and the call ends with an*)
(* error, which the engine only logs.                                               *)
StoreFailed(a) ==
  /\ call[a].step \in EvidenceFiles
  /\ Go(a, IF a \in Executions THEN "answered" ELSE "refused")
  /\ holder' = IF holder = a THEN NoOne ELSE holder
  /\ UNCHANGED <<disk, listed, shots, crashes, written>>

(* The process dies: its calls and its lock with it.                                *)
Crash ==
  /\ crashes < MaxCrashes
  /\ crashes' = crashes + 1
  /\ call' = [a \in Attempts |-> IF call[a].step \in Running
                                   THEN [call[a] EXCEPT !.step = "died"] ELSE call[a]]
  /\ holder' = NoOne
  /\ UNCHANGED <<disk, listed, shots, written>>

Damaged == {p \in Attempts \X EvidenceFiles : p[2] \in written[p[1]] /\ disk[p[1]][p[2]] # "whole"}

DamageFile(a, f) ==
  /\ call[a].step \in Ended /\ Cardinality(Damaged) < MaxDamage
  /\ disk[a][f] = "whole"
  /\ \E state \in {"absent", "damaged"} : disk' = [disk EXCEPT ![a][f] = state]
  /\ UNCHANGED <<listed, shots, call, holder, crashes, written>>

(* verify_manifest_integrity: the checksums count only where they are.              *)
Valid(a) ==
  /\ disk[a]["manifest"] = "whole"
  /\ \A f \in listed[a] : disk[a][f] = "whole"
  /\ disk[a]["checksums"] # "damaged"

(* The evidence specialist, given a manifest's path, audits that; without one it    *)
(* looks in the directory of the action, where no attempt puts its manifest.        *)
AuditPath(a) ==
  IF disk[a]["manifest"] = "absent" THEN "UNVERIFIED"
  ELSE IF Valid(a) THEN "SUCCEEDED" ELSE "FAILED"

AuditAction(i) == "UNVERIFIED"

EvidenceNext ==
  \/ \E a \in Collectors : Collect(a) \/ Acquire(a) \/ CollectFailed(a) \/ CancelCollect(a)
  \/ \E a \in Executions : CaptureScreenshot(a)
  \/ \E a \in Attempts : EvaluateTransaction(a) \/ StoreFile(a) \/ StoreFailed(a)
  \/ \E a \in Attempts, f \in EvidenceFiles : DamageFile(a, f)
  \/ Crash

EvidenceSpec == EvidenceInit /\ [][EvidenceNext]_evidenceVars

(* An audit that reports FAILED means tampering: whenever the process dies, whatever *)
(* the disk refuses and however the calls interleave, an attempt whose manifest does *)
(* not verify has lost, or had changed, a file that was stored.                       *)
FailedMeansTampered ==
  \A a \in Attempts : AuditPath(a) = "FAILED" => \E f \in EvidenceFiles : <<a, f>> \in Damaged

(* The session's lock is held by a call that is under way, or by one that was       *)
(* cancelled while it held it: whichever way a call fails, it gives the lock back.   *)
LockIsReturned == holder # NoOne => call[holder].step \in (Running \ {"waiting"}) \cup {"cancelled"}

(* What the evidence specialist promises (specialists/evidence.py): an action is    *)
(* reported UNVERIFIED when it has no manifest.                                     *)
AuditFindsSeal ==
  \A a \in Attempts : disk[a]["manifest"] = "whole" => AuditAction(call[a].action) # "UNVERIFIED"
=============================================================================
