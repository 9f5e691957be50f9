----------------------------- MODULE RecordsProofs -----------------------------
(***************************************************************************)
(* Proofs about what is kept: the installed version and its registry       *)
(* (Updater), the harness in a project (HarnessInjector), its messages     *)
(* (HarnessService), evidence on disk (EvidenceStore), the experience      *)
(* database (ExperienceStore), learning from it (LearningGovernance) and   *)
(* the agent's hooks (AgentBridge); and about their composition.           *)
(***************************************************************************)
EXTENDS MCRecords, FiniteSetTheorems, SequenceTheorems, WellFoundedInduction, TLAPS

------------------------------------------------------------------------------------
(* Updater: for any versions, releases, packages and self-tests the registry and    *)
(* the installed package keep their types, a commit is only ever true, and the pin  *)
(* is never lost.                                                                   *)
(* Between a validation and its commit the process changes neither the package nor  *)
(* its target: what was tested is what is recorded.                                 *)
TestedIsCommitted ==
  command.step \in {"committing", "recommitting"} => package = command.target /\ package \in Good

(* A command that runs has a version to install.                                    *)
Targeted == command.step # "idle" => command.target \in Versions

UpdaterInv == UpdaterTypeOK /\ TestedIsCommitted /\ Targeted /\ PinSurvives

LEMMA UpdaterInitInv == ASSUME UpdaterInit PROVE UpdaterInv
  BY UpdaterAssumption DEF UpdaterInit, UpdaterInv, UpdaterTypeOK, TestedIsCommitted, Targeted, PinSurvives,
         UpdaterCommands, NoCommand, Steps, NoFile, NoVersion

(* Whatever the file, a command starts from a record that keeps the pin.            *)
LEMMA GetStateIsRecord ==
  ASSUME UpdaterTypeOK PROVE GetState \in Records /\ GetState.pin = record.pin
<1>1. CASE record = NoFile
  <2>1. InitializeDefaultState \in Records /\ InitializeDefaultState.pin = NoVersion
    BY DEF InitializeDefaultState, Records, UpdaterTypeOK
  <2>2. QED BY <1>1, <2>1 DEF GetState, NoFile
<1>2. CASE record # NoFile
  BY <1>2 DEF GetState, UpdaterTypeOK
<1>3. QED BY <1>1, <1>2

LEMMA WrittenIsRecord ==
  ASSUME UpdaterTypeOK, NEW v \in Versions, NEW w \in Versions \cup {NoVersion}
  PROVE  /\ SetPin(w) \in Records /\ SetPin(w).pin = w
         /\ RecordValidationSuccess(v) \in Records /\ RecordValidationSuccess(v).pin = record.pin
         /\ RecordUpdateFailure \in Records /\ RecordUpdateFailure.pin = record.pin
         /\ RecordUpdateSuccess(v, w) \in Records /\ RecordUpdateSuccess(v, w).pin = record.pin
         /\ RecordUpdateSuccess(v, w).installed = v
<1>1. GetState \in Records /\ GetState.pin = record.pin BY GetStateIsRecord
<1>2. QED BY <1>1 DEF SetPin, RecordValidationSuccess, RecordUpdateFailure, RecordUpdateSuccess, Records

(* The writes of one step that is no commit: record, package and command together.  *)
LEMMA QuietStep ==
  ASSUME UpdaterInv,
         package' \in Versions, record' \in Records \cup {NoFile}, record'.pin = pinWish',
         command' \in UpdaterCommands, answer' \in {"none", "done", "already", "refused", "failed", "PINNED",
           "UP_TO_DATE", "UPDATE_AVAILABLE", "CHECK_UNAVAILABLE", "PASS", "FAIL"},
         pinWish' \in Versions \cup {NoVersion},
         command'.step \in {"committing", "recommitting"} =>
           package' = command'.target /\ package' \in Good,
         command'.step # "idle" => command'.target \in Versions
  PROVE  UpdaterInv'
  BY DEF UpdaterInv, UpdaterTypeOK, TestedIsCommitted, Targeted, PinSurvives

LEMMA IdleIsCommand == NoCommand \in UpdaterCommands /\ NoCommand.step = "idle"
  BY DEF NoCommand, UpdaterCommands, Steps

LEMMA CheckInv == ASSUME UpdaterInv, NEW b \in BOOLEAN, CheckForUpdates(b) PROVE UpdaterInv'
<1>1. UpdateCheck(GetState, FetchReleases(b)) \in {"PINNED", "CHECK_UNAVAILABLE", "UPDATE_AVAILABLE", "UP_TO_DATE"}
  BY DEF UpdateCheck
<1>2. QED BY <1>1, GetStateIsRecord DEF CheckForUpdates, UpdaterInv, UpdaterTypeOK, TestedIsCommitted, Targeted, PinSurvives

LEMMA PinInv ==
  ASSUME UpdaterInv, Unpin \/ \E v \in Versions : Pin(v) PROVE UpdaterInv'
<1>1. UpdaterTypeOK /\ UNCHANGED <<package, command>> /\ answer' = "done" BY DEF UpdaterInv, Pin, Unpin
<1>2. PICK w \in Versions \cup {NoVersion} : pinWish' = w /\ record' = SetPin(w)
  BY DEF Pin, Unpin, SetPin, ClearPin
<1>3. \E v \in Versions : TRUE BY UpdaterAssumption

<1>4. record' \in Records /\ record'.pin = w BY <1>1, <1>2, <1>3, WrittenIsRecord
<1>5. QED BY <1>1, <1>2, <1>4 DEF UpdaterInv, UpdaterTypeOK, TestedIsCommitted, Targeted, PinSurvives

LEMMA BeginInv ==
  ASSUME UpdaterInv,
         BeginRollback \/ \E v \in Versions, b \in BOOLEAN : BeginInstall(v, b)
  PROVE  UpdaterInv'
<1>1. GetState \in Records /\ GetState.pin = record.pin BY GetStateIsRecord DEF UpdaterInv
<1>2. record' = GetState /\ UNCHANGED <<package, pinWish>> BY DEF BeginRollback, BeginInstall
<1>3. CASE command' = NoCommand /\ answer' \in {"already", "refused"}
  BY <1>1, <1>2, <1>3, IdleIsCommand DEF UpdaterInv, UpdaterTypeOK, TestedIsCommitted, Targeted, PinSurvives
<1>4. ASSUME NEW v \in Versions, v # GetState.installed, UNCHANGED answer,
             command' = [step |-> "installing", target |-> v, was |-> GetState.installed]
      PROVE  UpdaterInv'
  BY <1>1, <1>2, <1>4 DEF UpdaterInv, UpdaterTypeOK, TestedIsCommitted, Targeted, PinSurvives, UpdaterCommands, Steps, Records
<1>5. ASSUME RollbackAvailable(GetState), UNCHANGED answer,
             command' = [command EXCEPT !.step = "restoring", !.target = GetState.known]
      PROVE  UpdaterInv'
  <2>1. GetState.known \in Versions BY <1>1, <1>5 DEF RollbackAvailable, Records
  <2>2. command \in UpdaterCommands BY DEF UpdaterInv, UpdaterTypeOK
  <2>3. command' \in UpdaterCommands /\ command'.step = "restoring" /\ command'.target \in Versions
    BY <1>5, <2>1, <2>2 DEF UpdaterCommands, Steps
  <2>4. QED BY <1>1, <1>2, <1>5, <2>3 DEF UpdaterInv, UpdaterTypeOK, TestedIsCommitted, Targeted, PinSurvives
<1>6. QED BY <1>3, <1>4, <1>5 DEF BeginRollback, BeginInstall, Answer

LEMMA InstallInv ==
  ASSUME UpdaterInv, InstallPackage \/ RestorePackage PROVE UpdaterInv'
<1>1. command.target \in Versions /\ command \in UpdaterCommands /\ package \in Versions
  BY DEF InstallPackage, RestorePackage, UpdaterInv, UpdaterTypeOK, Targeted
<1>2. PICK r \in DefaultPackageInstall(command.target) : package' = r.left
  BY DEF InstallPackage, RestorePackage
<1>3. UNCHANGED <<record, pinWish>> BY DEF InstallPackage, RestorePackage
<1>4. command' \in UpdaterCommands /\ command'.step \notin {"committing", "recommitting"}
      /\ (command'.step # "idle" => command'.target \in Versions)
  BY <1>1, IdleIsCommand DEF InstallPackage, RestorePackage, Answer, UpdaterCommands, Steps
<1>5. answer' \in {answer, "failed"} BY DEF InstallPackage, RestorePackage, Answer
<1>6. r.left \in Versions
  <2>1. Delivers[command.target] \in Versions BY UpdaterAssumption, <1>1

  <2>2. r.left = Delivers[command.target] \/ r.left = package
    BY <1>2 DEF DefaultPackageInstall
  <2>3. QED BY <1>1, <2>1, <2>2
<1>7. QED BY <1>2, <1>3, <1>4, <1>5, <1>6, QuietStep DEF UpdaterInv, UpdaterTypeOK, PinSurvives

LEMMA ValidateInv ==
  ASSUME UpdaterInv, ValidateInstall \/ VerifyRestore PROVE UpdaterInv'
<1>1. RecordUpdateFailure \in Records /\ RecordUpdateFailure.pin = record.pin
  <2>1. \E v \in Versions : TRUE BY UpdaterAssumption

  <2>2. QED BY <2>1, WrittenIsRecord DEF UpdaterInv
<1>2. UNCHANGED <<package, pinWish>> /\ answer' \in {answer, "failed"}
  BY DEF ValidateInstall, VerifyRestore, Answer
<1>3. record' \in Records \cup {NoFile} /\ record'.pin = pinWish'
  BY <1>1, <1>2 DEF ValidateInstall, VerifyRestore, UpdaterInv, UpdaterTypeOK, PinSurvives
<1>4. command' \in UpdaterCommands
  BY IdleIsCommand DEF ValidateInstall, VerifyRestore, Answer, UpdaterInv, UpdaterTypeOK, UpdaterCommands, Steps
<1>5. command'.step \in {"committing", "recommitting"} => package' = command'.target /\ package' \in Good
  BY <1>2, IdleIsCommand DEF ValidateInstall, VerifyRestore, Answer, UpdaterInv, UpdaterTypeOK, UpdaterCommands, PostInstallValidation
<1>6. command'.step # "idle" => command'.target \in Versions
  BY IdleIsCommand DEF ValidateInstall, VerifyRestore, Answer, UpdaterInv, UpdaterTypeOK, UpdaterCommands, Targeted
<1>7. QED BY <1>2, <1>3, <1>4, <1>5, <1>6, QuietStep DEF UpdaterInv, UpdaterTypeOK

(* The two commits; their target is a version, for it is the package's.             *)
LEMMA UpdateCommitInv ==
  ASSUME UpdaterInv, CommitInstall \/ CommitRollback
  PROVE  UpdaterInv' /\ CommitIsTrue
<1>1. command.step \in {"committing", "recommitting"} /\ command' = NoCommand /\ answer' \in {"done", "failed"}
      /\ UNCHANGED <<package, pinWish>>
  BY DEF CommitInstall, CommitRollback, Answer
<1>2. command.target \in Versions /\ command.target = package /\ package \in Good
      /\ command.was \in Versions \cup {NoVersion}
  BY <1>1 DEF UpdaterInv, UpdaterTypeOK, TestedIsCommitted, UpdaterCommands
<1>3. PICK w \in Versions \cup {NoVersion} : record' = RecordUpdateSuccess(command.target, w)
  BY <1>2 DEF CommitInstall, CommitRollback
<1>4. record' \in Records /\ record'.pin = record.pin /\ record'.installed = command.target
  BY <1>2, <1>3, WrittenIsRecord DEF UpdaterInv
<1>5. UpdaterInv'
  BY <1>1, <1>4, IdleIsCommand DEF UpdaterInv, UpdaterTypeOK, TestedIsCommitted, Targeted, PinSurvives
<1>6. QED BY <1>1, <1>2, <1>4, <1>5 DEF CommitIsTrue

LEMMA RestInv ==
  ASSUME UpdaterInv, FailInstall \/ RunDoctor \/ CrashCommand \/ LoseRecord
  PROVE  UpdaterInv'
<1>1. GetState \in Records /\ GetState.pin = record.pin BY GetStateIsRecord DEF UpdaterInv
<1>2. /\ RecordUpdateFailure \in Records /\ RecordUpdateFailure.pin = record.pin
      /\ RecordValidationSuccess(package) \in Records /\ RecordValidationSuccess(package).pin = record.pin
  BY WrittenIsRecord DEF UpdaterInv, UpdaterTypeOK
<1>3. CASE FailInstall
  BY <1>2, <1>3, IdleIsCommand DEF FailInstall, Answer, UpdaterInv, UpdaterTypeOK, TestedIsCommitted, Targeted, PinSurvives
<1>4. CASE RunDoctor
  BY <1>1, <1>2, <1>4 DEF RunDoctor, UpdaterInv, UpdaterTypeOK, TestedIsCommitted, Targeted, PinSurvives
<1>5. CASE CrashCommand
  BY <1>5, IdleIsCommand DEF CrashCommand, Answer, UpdaterInv, UpdaterTypeOK, TestedIsCommitted, Targeted, PinSurvives
<1>6. CASE LoseRecord
  BY <1>6 DEF LoseRecord, UpdaterInv, UpdaterTypeOK, TestedIsCommitted, Targeted, PinSurvives, NoFile, NoCommand
<1>7. QED BY <1>3, <1>4, <1>5, <1>6

LEMMA UpdaterNextInv == ASSUME UpdaterInv, [UpdaterNext]_updaterVars PROVE UpdaterInv'
<1>1. CASE UNCHANGED updaterVars
  BY <1>1 DEF updaterVars, UpdaterInv, UpdaterTypeOK, TestedIsCommitted, Targeted, PinSurvives
<1>2. CASE UpdaterNext
  BY <1>2, CheckInv, PinInv, BeginInv, InstallInv, ValidateInv, UpdateCommitInv, RestInv DEF UpdaterNext
<1>3. QED BY <1>1, <1>2

(* A record is written in those two steps only by the commits.                      *)
LEMMA OnlyCommitsCommit ==
  ASSUME UpdaterInv, [UpdaterNext]_updaterVars PROVE CommitIsTrue
<1>1. CASE CommitInstall \/ CommitRollback BY <1>1, UpdateCommitInv
<1>2. CASE ~(command.step \in {"committing", "recommitting"} /\ record' # record)
  BY <1>2 DEF CommitIsTrue
<1>3. ASSUME command.step \in {"committing", "recommitting"}, record' # record
      PROVE  CommitInstall \/ CommitRollback
  BY <1>3, IdleIsCommand DEF UpdaterNext, updaterVars, CheckForUpdates, Pin, Unpin, BeginInstall,
     InstallPackage, FailInstall, ValidateInstall, BeginRollback, RestorePackage, VerifyRestore, RunDoctor,
     CrashCommand, LoseRecord
<1>4. QED BY <1>1, <1>2, <1>3

LEMMA UpdaterAlways == UpdaterSpec => []UpdaterInv
<1>1. UpdaterInit => UpdaterInv BY UpdaterInitInv
<1>2. UpdaterInv /\ [UpdaterNext]_updaterVars => UpdaterInv' BY UpdaterNextInv
<1>3. QED BY <1>1, <1>2, PTL DEF UpdaterSpec

(* For any versions and releases the package, the registry and the command keep     *)
(* their types through failures and crashes (registry.py, updater.py).              *)
THEOREM UpdaterTypes == UpdaterSpec => []UpdaterTypeOK
<1>1. UpdaterInv => UpdaterTypeOK BY DEF UpdaterInv
<1>2. QED BY <1>1, UpdaterAlways, PTL

(* What a command records as installed is what it left installed, tested            *)
(* (_run_post_install_validation before record_update_success).                     *)
THEOREM CommitsAreTrue == UpdaterSpec => DoneMeansInstalled
<1>1. UpdaterInv /\ [UpdaterNext]_updaterVars => [CommitIsTrue]_updaterVars BY OnlyCommitsCommit
<1>2. QED BY <1>1, UpdaterAlways, PTL DEF UpdaterSpec, DoneMeansInstalled

(* The user's last pin is in the registry through every update, failure, rollback   *)
(* and repair (every write of registry.py starts from the record it read).          *)
THEOREM PinsSurvive == UpdaterSpec => []PinSurvives
<1>1. UpdaterInv => PinSurvives BY DEF UpdaterInv
<1>2. QED BY <1>1, UpdaterAlways, PTL

------------------------------------------------------------------------------------
(* HarnessService: for any instances, signals and waiters, and however many         *)
(* messages, restarts and events, its state keeps its type and the signals of an    *)
(* instance are received once, their numbers never go back, and those of a client   *)
(* that counts one by one arrive in the order in which they were sent.              *)
Underway == wire \cup accepted

(* The nth message of an instance was sent after those before it, and bears the     *)
(* number n unless its client races.                                                *)
Placed(m) ==
  m.nth <= sequence[m.instance] /\ (m.instance \notin racing => m.sequence = m.nth)
Numbered == \A m \in Underway : Placed(m)

(* A message is on the wire or accepted, and no two of an instance have one place.  *)
Distinct ==
  /\ wire \cap accepted = {}
  /\ \A m, n \in Underway : m.instance = n.instance /\ m.nth = n.nth => m = n

(* What was received is behind the validator, numbered, and not under way again.    *)
Consumed ==
  \A k \in DOMAIN received :
    /\ received[k].sequence <= lastSequences[received[k].instance]
    /\ Placed(received[k])
    /\ \A m \in Underway : m.instance = received[k].instance => m.nth # received[k].nth

HarnessInv == HarnessTypeOK /\ Numbered /\ Distinct /\ Consumed /\ SignalsInOrder

LEMMA HarnessInitInv == ASSUME HarnessInit PROVE HarnessInv
<1>1. HarnessTypeOK
  <2>1. received \in Seq(HarnessMessage) /\ timeline \in Seq(Event) /\ Len(timeline) = 0
    BY DEF HarnessInit
  <2>2. /\ sequence \in [Instances -> 0..MaxSends]
        /\ lastSequences \in [Instances -> -1..MaxSends]
    BY HarnessServiceAssumption DEF HarnessInit
  <2>3. waiting \in [Waiters -> [step : {"idle", "polling", "HARNESS_SIGNAL", "TIMEOUT"},
                                 signal : Signals \cup {"none"}]]
    BY DEF HarnessInit
  <2>4. restarts \in 0..MaxRestarts /\ 0 <= MaxEvents
    BY HarnessServiceAssumption DEF HarnessInit
  <2>5. running \in BOOLEAN /\ handshake \in BOOLEAN
    BY Zenon DEF HarnessInit
  <2>6. wire = {} /\ accepted = {} /\ racing \in SUBSET Instances /\ connected \in Instances \cup {"none"}
    BY DEF HarnessInit
  <2>7. QED BY <2>1, <2>2, <2>3, <2>4, <2>5, <2>6 DEF HarnessTypeOK
<1>2. Numbered /\ Distinct BY DEF HarnessInit, Placed, Numbered, Distinct, Underway
<1>3. Consumed /\ SignalsInOrder BY DEF HarnessInit, Consumed, SignalsInOrder
<1>4. QED BY <1>1, <1>2, <1>3 DEF HarnessInv

(* Numbering, order and the like depend on these variables only.                    *)
messages == <<racing, sequence, wire, accepted, lastSequences, received>>

LEMMA Elsewhere ==
  ASSUME HarnessInv, UNCHANGED messages, HarnessTypeOK' PROVE HarnessInv'
  BY DEF HarnessInv, messages, Placed, Numbered, Distinct, Consumed, SignalsInOrder, Underway

LEMMA StartInv == ASSUME HarnessInv, StartServer \/ StopServer PROVE HarnessInv'
<1>1. HarnessTypeOK'
  <2>1. restarts' \in 0..MaxRestarts
    BY HarnessServiceAssumption DEF HarnessInv, HarnessTypeOK, StartServer, StopServer
  <2>2. running' \in BOOLEAN /\ handshake' \in BOOLEAN
    BY Zenon DEF HarnessInv, HarnessTypeOK, StartServer, StopServer
  <2>3. UNCHANGED <<racing, sequence, wire, accepted, lastSequences, connected, received, timeline, waiting>>
    BY DEF StartServer, StopServer
  <2>4. QED BY <2>1, <2>2, <2>3 DEF HarnessInv, HarnessTypeOK
<1>2. UNCHANGED messages BY DEF StartServer, StopServer, messages
<1>3. QED BY <1>1, <1>2, Elsewhere

LEMMA SendInv ==
  ASSUME HarnessInv,
         NEW i \in Instances, NEW type \in Types, NEW signal \in Signals \cup {"none"},
         SendMessage(i, type, signal)
  PROVE HarnessInv'
<1>1. PICK authentic \in BOOLEAN, n \in 1..MaxSends :
        /\ Number(i, sequence[i] + 1, n)
        /\ wire' = wire \cup {[instance |-> i, type |-> type, nth |-> sequence[i] + 1, sequence |-> n,
                               signal |-> signal, authentic |-> authentic]}
  BY DEF SendMessage
<1> DEFINE sent == [instance |-> i, type |-> type, nth |-> sequence[i] + 1, sequence |-> n,
                    signal |-> signal, authentic |-> authentic]
<1>2. sent \in HarnessMessage /\ sequence'[i] = sequence[i] + 1 /\ sequence[i] \in Nat
  BY HarnessServiceAssumption DEF HarnessInv, HarnessTypeOK, HarnessMessage, SendMessage
<1>3. /\ UNCHANGED <<racing, running, restarts, accepted, lastSequences, connected, handshake, received,
                     timeline, waiting>>
      /\ sequence' = [sequence EXCEPT ![i] = @ + 1]
      /\ sequence[i] < MaxSends
  BY DEF SendMessage
<1>4. HarnessTypeOK'
  BY HarnessServiceAssumption, <1>1, <1>2, <1>3 DEF HarnessInv, HarnessTypeOK
<1>5. \A m \in Underway : m \in HarnessMessage /\ m.nth \in Nat /\ Placed(m)
  BY DEF HarnessInv, HarnessTypeOK, HarnessMessage, Numbered, Underway
<1>6. \A j \in Instances : sequence[j] \in Nat /\ sequence'[j] \in Nat /\ sequence[j] <= sequence'[j]
  BY <1>3 DEF HarnessInv, HarnessTypeOK
<1>7. /\ Underway' = Underway \cup {sent} /\ sent.instance = i /\ sent.nth = sequence[i] + 1
      /\ i \notin racing => sent.sequence = sent.nth
  BY <1>1, <1>3 DEF Underway, Number
<1>8. \A m \in Underway : m.instance \in Instances BY <1>5 DEF HarnessMessage
<1>9. Numbered'
  <2>1. ASSUME NEW m \in Underway
        PROVE  m.nth <= sequence'[m.instance] /\ (m.instance \notin racing' => m.sequence = m.nth)
    BY <1>3, <1>5, <1>6, <1>8 DEF Placed
  <2>2. sent.nth <= sequence'[sent.instance] /\ (sent.instance \notin racing' => sent.sequence = sent.nth)
    BY <1>2, <1>3, <1>7
  <2>3. QED BY <2>1, <2>2, <1>7 DEF Numbered, Placed
<1>10. \A m \in Underway : m.instance = i => m.nth # sent.nth
  BY <1>5, <1>7, <1>2 DEF Placed
<1>11. Distinct'
  <2>1. sent \notin Underway BY <1>10, <1>7
  <2>2. (wire \cap accepted = {})' BY <2>1, <1>1, <1>3 DEF HarnessInv, Distinct, Underway
  <2>3. ASSUME NEW m \in Underway', NEW o \in Underway', m.instance = o.instance, m.nth = o.nth
        PROVE m = o
    <3>1. CASE m \in Underway /\ o \in Underway BY <3>1, <2>3 DEF HarnessInv, Distinct
    <3>2. CASE m = sent \/ o = sent BY <3>2, <2>3, <1>7, <1>10
    <3>3. QED BY <3>1, <3>2, <1>7
  <2>4. QED BY <2>2, <2>3 DEF Distinct
<1>12. Consumed'
  <2>1. SUFFICES ASSUME NEW k \in DOMAIN received
        PROVE /\ received[k].sequence <= lastSequences[received[k].instance]
              /\ received[k].nth <= sequence'[received[k].instance]
              /\ received[k].instance \notin racing => received[k].sequence = received[k].nth
              /\ \A m \in Underway' : m.instance = received[k].instance => m.nth # received[k].nth
    BY <1>3 DEF Consumed, Placed
  <2>2. received[k] \in HarnessMessage
    BY DEF HarnessInv, HarnessTypeOK
  <2>3. received[k].nth \in Nat /\ received[k].instance \in Instances
    BY <2>2 DEF HarnessMessage
  <2>4. /\ received[k].sequence <= lastSequences[received[k].instance]
        /\ received[k].nth <= sequence[received[k].instance]
        /\ received[k].instance \notin racing => received[k].sequence = received[k].nth
        /\ \A m \in Underway : m.instance = received[k].instance => m.nth # received[k].nth
    BY DEF HarnessInv, Consumed, Placed
  <2>5. received[k].nth <= sequence'[received[k].instance]
    <3>1. sequence'[received[k].instance] \in Nat BY <2>3, <1>4 DEF HarnessTypeOK
    <3>2. QED BY <2>3, <2>4, <1>6, <3>1
  <2>6. sent.instance = received[k].instance => sent.nth # received[k].nth
    BY <2>3, <2>4, <1>7, <1>2
  <2>7. QED BY <2>4, <2>5, <2>6, <1>7
<1>13. SignalsInOrder' BY <1>3 DEF HarnessInv, SignalsInOrder
<1>14. QED BY <1>4, <1>9, <1>11, <1>12, <1>13 DEF HarnessInv

(* A message that is accepted, refused or found malformed: fewer are under way.     *)
LEMMA FewerInv ==
  ASSUME HarnessInv, HarnessTypeOK', UNCHANGED <<racing, sequence, lastSequences, received>>,
         (wire \cap accepted = {})', Underway' \subseteq Underway
  PROVE HarnessInv'
<1>1. Numbered' BY DEF HarnessInv, Placed, Numbered
<1>2. Distinct' BY DEF HarnessInv, Distinct
<1>3. Consumed' BY DEF HarnessInv, Placed, Consumed
<1>4. SignalsInOrder' BY DEF HarnessInv, SignalsInOrder
<1>5. QED BY <1>1, <1>2, <1>3, <1>4 DEF HarnessInv

LEMMA ConnectInv == ASSUME HarnessInv, NEW m \in wire, ConnectInstance(m) PROVE HarnessInv'
<1>1. /\ wire' = wire \ {m} /\ accepted' \subseteq accepted \cup {m}
      /\ UNCHANGED <<racing, running, restarts, sequence, lastSequences, connected, handshake, received,
                     timeline, waiting>>
  BY DEF ConnectInstance
<1>2. HarnessTypeOK' BY <1>1 DEF HarnessInv, HarnessTypeOK
<1>3. Underway' \subseteq Underway BY <1>1 DEF Underway
<1>4. (wire \cap accepted = {})' BY <1>1 DEF HarnessInv, Distinct
<1>5. QED BY <1>1, <1>2, <1>3, <1>4, FewerInv

LEMMA MalformedInv == ASSUME HarnessInv, NEW m \in accepted, Malformed(m) PROVE HarnessInv'
<1>1. /\ accepted' = accepted \ {m} /\ wire' = wire
      /\ UNCHANGED <<racing, running, restarts, sequence, lastSequences, connected, handshake, received,
                     timeline, waiting>>
  BY DEF Malformed
<1>2. HarnessTypeOK' BY <1>1 DEF HarnessInv, HarnessTypeOK
<1>3. Underway' \subseteq Underway BY <1>1 DEF Underway
<1>4. (wire \cap accepted = {})' BY <1>1 DEF HarnessInv, Distinct
<1>5. QED BY <1>1, <1>2, <1>3, <1>4, FewerInv

(* The timeline stays within its capacity.                                          *)
LEMMA RecordBounded ==
  ASSUME timeline \in Seq(Event), Len(timeline) <= MaxEvents,
         NEW event \in Event, Record(event)
  PROVE timeline' \in Seq(Event) /\ Len(timeline') <= MaxEvents
<1>1. CASE Len(timeline) < MaxEvents
  <2>1. timeline' = Append(timeline, event) BY <1>1 DEF Record
  <2>2. QED BY HarnessServiceAssumption, <1>1, <2>1, AppendProperties

<1>2. CASE ~(Len(timeline) < MaxEvents)
  <2>1. timeline' = Append(Tail(timeline), event) BY <1>2 DEF Record
  <2>2. Len(timeline) = MaxEvents /\ MaxEvents \in Nat \ {0} /\ Len(timeline) \in Nat
    BY HarnessServiceAssumption, <1>2

  <2>3. timeline # <<>> BY <2>2
  <2>4. Tail(timeline) \in Seq(Event) /\ Len(Tail(timeline)) = Len(timeline) - 1
    BY <2>3, HeadTailProperties
  <2>5. QED BY <2>1, <2>2, <2>4, AppendProperties
<1>3. QED BY <1>1, <1>2

(* What a handler does: the received signals grow by this message or not at all.    *)
LEMMA Handled ==
  ASSUME HarnessTypeOK, NEW m \in HarnessMessage,
         HandleHandshake(m) \/ HandleLifecycle(m) \/ HandleDiagnostics(m) \/ HandlePing(m)
  PROVE /\ connected' \in Instances \cup {"none"} /\ handshake' \in BOOLEAN
        /\ timeline' \in Seq(Event) /\ Len(timeline') <= MaxEvents
        /\ received' = received \/ received' = Append(received, m)
<1>1. /\ connected \in Instances \cup {"none"} /\ handshake \in BOOLEAN
      /\ timeline \in Seq(Event) /\ Len(timeline) <= MaxEvents
      /\ m.instance \in Instances /\ m.signal \in Signals \cup {"none"}
  BY DEF HarnessTypeOK, HarnessMessage
<1>2. \A type \in {"HARNESS_SIGNAL", "HARNESS_TELEMETRY"}, signal \in Signals \cup {"none"} :
        IngestHarnessEvent(type, signal) => timeline' \in Seq(Event) /\ Len(timeline') <= MaxEvents
  <2>1. ASSUME NEW type \in {"HARNESS_SIGNAL", "HARNESS_TELEMETRY"},
               NEW signal \in Signals \cup {"none"}, IngestHarnessEvent(type, signal)
        PROVE timeline' \in Seq(Event) /\ Len(timeline') <= MaxEvents
    <3>1. [type |-> type, signal |-> signal] \in Event BY DEF Event
    <3>2. QED BY <1>1, <2>1, <3>1, RecordBounded DEF IngestHarnessEvent
  <2>2. QED BY <2>1
<1>3. CASE HandleHandshake(m) BY <1>1, <1>2, <1>3 DEF HandleHandshake
<1>4. CASE HandleLifecycle(m) BY <1>1, <1>2, <1>4 DEF HandleLifecycle
<1>5. CASE HandleDiagnostics(m) BY <1>1, <1>2, <1>5 DEF HandleDiagnostics
<1>6. CASE HandlePing(m) BY <1>1, <1>6 DEF HandlePing
<1>7. QED BY <1>3, <1>4, <1>5, <1>6

(* The message passes the validator, so it is not older than what was received, and *)
(* being under way it is none of it.                                                *)
LEMMA ReceiveInv ==
  ASSUME HarnessInv, NEW m \in accepted,
         m.sequence >= lastSequences[m.instance],
         accepted' = accepted \ {m},
         lastSequences' = [lastSequences EXCEPT ![m.instance] = m.sequence],
         HandleHandshake(m) \/ HandleLifecycle(m) \/ HandleDiagnostics(m) \/ HandlePing(m),
         UNCHANGED <<racing, running, restarts, sequence, wire, waiting>>
  PROVE HarnessInv'
<1>1. m \in HarnessMessage /\ m \in Underway BY DEF HarnessInv, HarnessTypeOK, Underway
<1>2. m.instance \in Instances /\ m.sequence \in 1..MaxSends BY <1>1 DEF HarnessMessage
<1>3. /\ connected' \in Instances \cup {"none"} /\ handshake' \in BOOLEAN
      /\ timeline' \in Seq(Event) /\ Len(timeline') <= MaxEvents
      /\ received' = received \/ received' = Append(received, m)
  BY <1>1, Handled DEF HarnessInv
<1>4. received \in Seq(HarnessMessage) BY DEF HarnessInv, HarnessTypeOK
<1>5. received' \in Seq(HarnessMessage) BY <1>1, <1>3, <1>4, AppendProperties
<1>6. HarnessTypeOK'
  <2>1. lastSequences' \in [Instances -> -1..MaxSends]
    BY HarnessServiceAssumption, <1>2 DEF HarnessInv, HarnessTypeOK
  <2>2. accepted' \in SUBSET HarnessMessage BY DEF HarnessInv, HarnessTypeOK
  <2>3. QED BY <2>1, <2>2, <1>3, <1>5 DEF HarnessInv, HarnessTypeOK
<1>7. Underway' \subseteq Underway /\ m \notin Underway' BY DEF HarnessInv, Distinct, Underway
<1>8. Numbered' BY <1>7 DEF HarnessInv, Placed, Numbered
<1>9. Distinct' BY <1>7 DEF HarnessInv, Distinct
<1>10. \A i \in Instances : lastSequences[i] \in Int /\ lastSequences[i] <= lastSequences'[i]
  BY <1>2 DEF HarnessInv, HarnessTypeOK
<1>11. lastSequences'[m.instance] = m.sequence BY <1>2 DEF HarnessInv, HarnessTypeOK
<1>12. \A n \in Underway' : n.instance = m.instance => n.nth # m.nth
  BY <1>1, <1>7 DEF HarnessInv, Distinct
<1>13. Placed(m) BY <1>1 DEF HarnessInv, Numbered
<1>14. \A k \in DOMAIN received :
         /\ received[k] \in HarnessMessage
         /\ received[k].instance \in Instances /\ received[k].sequence \in Int /\ received[k].nth \in Int
  <2>1. \A k \in DOMAIN received : received[k] \in HarnessMessage BY <1>4
  <2>2. \A n \in HarnessMessage : n.instance \in Instances /\ n.sequence \in Int /\ n.nth \in Int
    BY DEF HarnessMessage
  <2>3. QED BY <2>1, <2>2
<1>15. \A k \in DOMAIN received :
         /\ received[k].sequence <= lastSequences'[received[k].instance]
         /\ Placed(received[k])
         /\ \A n \in Underway' : n.instance = received[k].instance => n.nth # received[k].nth
  <2>1. SUFFICES ASSUME NEW k \in DOMAIN received
        PROVE /\ received[k].sequence <= lastSequences'[received[k].instance]
              /\ Placed(received[k])
              /\ \A n \in Underway' : n.instance = received[k].instance => n.nth # received[k].nth
    OBVIOUS
  <2>2. /\ received[k].sequence <= lastSequences[received[k].instance]
        /\ Placed(received[k])
        /\ \A n \in Underway : n.instance = received[k].instance => n.nth # received[k].nth
    BY DEF HarnessInv, Consumed
  <2>3. lastSequences'[received[k].instance] \in Int BY <1>14, <1>6 DEF HarnessTypeOK
  <2>4. received[k].sequence <= lastSequences'[received[k].instance] BY <1>10, <1>14, <2>2, <2>3
  <2>5. QED BY <1>7, <2>2, <2>4
<1>16. \A k \in DOMAIN received : received[k].instance = m.instance =>
         /\ received[k].nth # m.nth
         /\ received[k].sequence <= m.sequence
         /\ m.instance \notin racing => received[k].nth < m.nth
  <2>1. SUFFICES ASSUME NEW k \in DOMAIN received, received[k].instance = m.instance
        PROVE /\ received[k].nth # m.nth
              /\ received[k].sequence <= m.sequence
              /\ m.instance \notin racing => received[k].nth < m.nth
    OBVIOUS
  <2>2. /\ received[k].sequence <= lastSequences[m.instance] /\ m.nth # received[k].nth
        /\ Placed(received[k])
    BY <1>1, <2>1 DEF HarnessInv, Consumed
  <2>3. lastSequences[m.instance] \in Int BY <1>2, <1>10
  <2>4. received[k].sequence <= m.sequence BY <1>2, <1>14, <2>2, <2>3
  <2>5. m.nth \in Int BY <1>1 DEF HarnessMessage
  <2>6. m.instance \notin racing => received[k].nth < m.nth
    BY <1>13, <1>14, <2>1, <2>2, <2>4, <2>5 DEF Placed
  <2>7. QED BY <2>2, <2>4, <2>6
<1>17. CASE received' = received
  <2>1. Consumed' BY <1>15, <1>17 DEF Consumed, Placed
  <2>2. SignalsInOrder' BY <1>17 DEF HarnessInv, SignalsInOrder
  <2>3. QED BY <1>6, <1>8, <1>9, <2>1, <2>2 DEF HarnessInv
<1>18. CASE received' = Append(received, m)
  <2>1. /\ DOMAIN received = 1..Len(received) /\ Len(received) \in Nat
        /\ DOMAIN received' = 1..(Len(received) + 1)
        /\ received'[Len(received) + 1] = m
        /\ \A k \in DOMAIN received : received'[k] = received[k]
    BY <1>1, <1>4, <1>18, AppendProperties, LenProperties
  <2>2. \A k \in DOMAIN received' : k \in DOMAIN received \/ k = Len(received) + 1 BY <2>1
  <2>3. Consumed'
    <3>1. SUFFICES ASSUME NEW k \in DOMAIN received'
          PROVE /\ received'[k].sequence <= lastSequences'[received'[k].instance]
                /\ Placed(received'[k])
                /\ \A n \in Underway' : n.instance = received'[k].instance => n.nth # received'[k].nth
      BY DEF Consumed, Placed
    <3>2. CASE k \in DOMAIN received BY <3>2, <2>1, <1>15
    <3>3. CASE k = Len(received) + 1
      <4>1. received'[k] = m BY <3>3, <2>1
      <4>2. m.sequence <= lastSequences'[m.instance] BY <1>11, <1>2
      <4>3. QED BY <4>1, <4>2, <1>12, <1>13
    <3>4. QED BY <3>2, <3>3, <2>2
  <2>4. SignalsInOrder'
    <3>1. SUFFICES ASSUME NEW j \in DOMAIN received', NEW k \in DOMAIN received', j < k,
                          received'[j].instance = received'[k].instance
          PROVE /\ received'[j].nth # received'[k].nth
                /\ received'[j].sequence <= received'[k].sequence
                /\ received'[k].instance \notin racing => received'[j].nth < received'[k].nth
      BY DEF SignalsInOrder
    <3>2. j \in DOMAIN received BY <3>1, <2>1
    <3>3. CASE k \in DOMAIN received
      BY <3>1, <3>2, <3>3, <2>1 DEF HarnessInv, SignalsInOrder
    <3>4. CASE k = Len(received) + 1 BY <3>1, <3>2, <3>4, <2>1, <1>16
    <3>5. QED BY <3>3, <3>4, <2>2
  <2>5. QED BY <1>6, <1>8, <1>9, <2>3, <2>4 DEF HarnessInv
<1>19. QED BY <1>3, <1>17, <1>18

LEMMA RouteInv ==
  ASSUME HarnessInv, NEW m \in accepted, RouteRequest(m) PROVE HarnessInv'
<1>1. /\ accepted' = accepted \ {m} /\ UNCHANGED <<racing, running, restarts, sequence, wire, waiting>>
  BY DEF RouteRequest
<1>2. CASE /\ m.sequence >= lastSequences[m.instance]
           /\ lastSequences' = [lastSequences EXCEPT ![m.instance] = m.sequence]
           /\ HandleHandshake(m) \/ HandleLifecycle(m) \/ HandleDiagnostics(m) \/ HandlePing(m)
  BY <1>1, <1>2, ReceiveInv
<1>3. CASE UNCHANGED <<lastSequences, connected, handshake, received, timeline>>
  <2>1. HarnessTypeOK' BY <1>1, <1>3 DEF HarnessInv, HarnessTypeOK
  <2>2. (wire \cap accepted = {})' /\ Underway' \subseteq Underway
    BY <1>1 DEF HarnessInv, Distinct, Underway
  <2>3. QED BY <1>1, <1>3, <2>1, <2>2, FewerInv
<1>4. QED BY <1>2, <1>3 DEF RouteRequest, Validate

LEMMA WaitInv ==
  ASSUME HarnessInv, NEW w \in Waiters, PollSignal(w) \/ \E signal \in Signals : BeginWait(w, signal)
  PROVE HarnessInv'
<1>1. CASE PollSignal(w)
  <2>1. HarnessTypeOK' BY <1>1 DEF HarnessInv, HarnessTypeOK, PollSignal
  <2>2. QED BY <1>1, <2>1, Elsewhere DEF PollSignal, messages
<1>2. CASE \E signal \in Signals : BeginWait(w, signal)
  <2>1. HarnessTypeOK' BY <1>2 DEF HarnessInv, HarnessTypeOK, BeginWait
  <2>2. QED BY <1>2, <2>1, Elsewhere DEF BeginWait, messages
<1>3. QED BY <1>1, <1>2

LEMMA HarnessStepInv == ASSUME HarnessInv, [HarnessNext]_harnessVars PROVE HarnessInv'
<1>1. CASE StartServer \/ StopServer BY <1>1, StartInv
<1>2. CASE \E i \in Instances, type \in Types, signal \in Signals \cup {"none"} :
             SendMessage(i, type, signal)
  BY <1>2, SendInv
<1>3. CASE \E m \in wire : ConnectInstance(m) BY <1>3, ConnectInv
<1>4. CASE \E m \in accepted : Malformed(m) \/ RouteRequest(m) BY <1>4, MalformedInv, RouteInv
<1>5. CASE \E w \in Waiters : PollSignal(w) \/ \E signal \in Signals : BeginWait(w, signal)
  BY <1>5, WaitInv
<1>6. CASE UNCHANGED harnessVars
  <2>1. HarnessTypeOK' BY <1>6 DEF HarnessInv, HarnessTypeOK, harnessVars
  <2>2. QED BY <1>6, <2>1, Elsewhere DEF harnessVars, messages
<1>7. QED BY <1>1, <1>2, <1>3, <1>4, <1>5, <1>6 DEF HarnessNext

(* The harness service is well typed, its timeline within its capacity, for any     *)
(* number of instances, messages, waiters and restarts.                             *)
THEOREM HarnessTypes == HarnessSpec => []HarnessTypeOK
<1>1. HarnessInit => HarnessInv BY HarnessInitInv
<1>2. HarnessInv /\ [HarnessNext]_harnessVars => HarnessInv' BY HarnessStepInv
<1>3. HarnessInv => HarnessTypeOK BY DEF HarnessInv
<1>4. QED BY <1>1, <1>2, <1>3, PTL DEF HarnessSpec

(* Whatever overtakes what on the way and however often the server is restarted,    *)
(* a message is received once, the numbers of an instance never go back, and the    *)
(* signals of a client that counts one by one come in the order in which they were  *)
(* sent (protocol.py, validate of HarnessProtocolValidator, which refuses only what *)
(* is older: equal numbers of a client that races are all received).                *)
THEOREM SignalsOrdered == HarnessSpec => []SignalsInOrder
<1>1. HarnessInit => HarnessInv BY HarnessInitInv
<1>2. HarnessInv /\ [HarnessNext]_harnessVars => HarnessInv' BY HarnessStepInv
<1>3. HarnessInv => SignalsInOrder BY DEF HarnessInv
<1>4. QED BY <1>1, <1>2, <1>3, PTL DEF HarnessSpec

------------------------------------------------------------------------------------
(* HarnessInjector: for any files, frameworks and developers the developer's text   *)
(* survives, and a file is clean once a remove says so.                             *)
LEMMA Least ==
  ASSUME NEW T \in SUBSET Nat, T # {}
  PROVE  \E i \in T : \A j \in T : i <= j
<1>1. \E R : IsWellFoundedOn(R, Nat) /\ R = OpToRel(<, Nat)
  BY NatLessThanWellFounded, Zenon
<1>2. \E R : IsWellFoundedOn(R, Nat) /\ \A x, y \in Nat : <<y, x>> \in R <=> y < x
  <2>1. \A x, y \in Nat : <<y, x>> \in OpToRel(<, Nat) <=> y < x
    BY DEF OpToRel
  <2>2. QED BY <1>1, <2>1, Zenon
<1>3. PICK R : IsWellFoundedOn(R, Nat) /\ \A x, y \in Nat : <<y, x>> \in R <=> y < x
  BY <1>2
<1>4. PICK x \in T : \A y \in T : ~ (<<y, x>> \in R)
  BY <1>3, WFMin
<1>5. ASSUME NEW y \in T PROVE x <= y
  <2>1. x \in Nat /\ y \in Nat /\ ~ (<<y, x>> \in R)
    BY <1>4
  <2>2. <<y, x>> \in R <=> y < x
    BY <1>3, <2>1
  <2>3. QED BY <2>1, <2>2
<1>6. QED BY <1>5

(* A copy in hand is the file as it is: nobody writes while a command runs.         *)
CopyIsFile ==
  session.step \in {"planned", "entry"} /\ session.target # NoTarget =>
    /\ session.target \in EntryFiles
    /\ session.copy = Decoded(files[session.target]) /\ Exists(session.target)

(* A block is in an existing file an apply aimed at, with the markers of its         *)
(* framework, and whole where nothing was torn and nobody meddled; a client file is  *)
(* of a framework an apply was of.                                                   *)
AimedBlock(f, k) ==
  aim = Several \/ (aim.state = "one" /\ aim.target = f /\ Marker[aim.framework] = k)
AimedClient(fw) == aim = Several \/ (aim.state = "one" /\ aim.framework = fw)
BlocksAreAimed ==
  \A f \in EntryFiles : \A k \in MarkerKinds :
    /\ files[f].block[k] # "none" => Exists(f) /\ AimedBlock(f, k)
    /\ files[f].block[k] \in {"broken", "mixed"} => f \in torn \cup tampered
ClientsAreAimed == \A fw \in clients : AimedClient(fw)

(* The command and the manifest know an aim of the applies.                         *)
AimCovers(fw, t) == fw \in Frameworks /\ aim \in {Several, AimAt(fw, t)}
AimsAreKnown ==
  /\ session.step = "planned" => session.framework \in Frameworks
  /\ session.step = "entry" => session.target # NoTarget
  /\ session.step \in {"entry", "manifest"} => AimCovers(session.framework, session.target)
  /\ manifest.state = "whole" => AimCovers(manifest.framework, manifest.modified)

(* What remove has done up to its last write.                                       *)
Stripped ==
  /\ session.step \in {"stripping", "unlinking"} =>
       /\ manifest.state = "whole"
       /\ session.warned \/ manifest.framework \notin clients
  /\ session.step = "unlinking" =>
       \A f \in EntryFiles \ (torn \cup tampered) :
         f = manifest.modified => files[f].block[Marker[manifest.framework]] = "none"

InjectorInv ==
  /\ InjectorTypeOK
  /\ TextIsKept
  /\ CopyIsFile
  /\ BlocksAreAimed
  /\ ClientsAreAimed
  /\ AimsAreKnown
  /\ Stripped

InjectorSessions == [step : CommandSteps, framework : Frameworks \cup {NoFramework}, target : Targets,
              copy : File, warned : BOOLEAN]

LEMMA MarkersAre == ASSUME NEW fw \in Frameworks PROVE Marker[fw] \in MarkerKinds
  BY DEF Marker, MarkerKinds

LEMMA QuietIsTyped ==
  /\ Absent \in File /\ Absent.version = 0 /\ Absent.block = NoBlock /\ ~ Absent.odd
  /\ Quiet \in InjectorSessions
  /\ \A w \in BOOLEAN : [Quiet EXCEPT !.step = "stripping", !.warned = w] \in InjectorSessions
<1>1. Absent \in File /\ Absent.version = 0 /\ Absent.block = NoBlock /\ ~ Absent.odd
  BY InjectorAssumption DEF Absent, File, Blocks, Fragment, NoBlock
<1>2. QED BY <1>1 DEF Quiet, InjectorSessions, CommandSteps, Targets

(* What is done to a file: its type, its text, and its blocks.                      *)
LEMMA Injected ==
  ASSUME NEW file \in File, NEW kind \in MarkerKinds
  PROVE  LET new == InjectBlock(Decoded(file), kind) IN
         /\ new \in File /\ new.version = file.version /\ ~ new.odd
         /\ new.block[kind] \in {"whole", "mixed"}
         /\ new.block[kind] = "mixed" => file.block[kind] \in {"broken", "mixed"}
         /\ \A k \in MarkerKinds \ {kind} : new.block[k] = file.block[k]
<1>1. Decoded(file) \in File /\ Decoded(file).version = file.version /\ ~ Decoded(file).odd
      /\ Decoded(file).block = file.block
  BY DEF Decoded, File
<1>2. QED BY <1>1 DEF InjectBlock, File, Blocks

LEMMA IsStripped ==
  ASSUME NEW file \in File, NEW kind \in MarkerKinds
  PROVE  LET new == Strip(file, kind) IN
         /\ new \in File /\ new.version = file.version /\ ~ new.odd
         /\ new.block[kind] = IF file.block[kind] = "mixed" THEN "broken" ELSE "none"
         /\ \A k \in MarkerKinds \ {kind} : new.block[k] = file.block[k]
<1>1. Decoded(file) \in File /\ Decoded(file).version = file.version /\ ~ Decoded(file).odd
      /\ Decoded(file).block = file.block
  BY DEF Decoded, File
<1>2. QED BY <1>1 DEF Strip, File, Blocks

LEMMA TextBounds == MaxText \in Nat \ {0} /\ 0..MaxText \subseteq 0..Fragment /\ Fragment \in 0..Fragment
<1>1. MaxText \in Nat \ {0} BY InjectorAssumption
<1>2. QED BY <1>1 DEF Fragment

LEMMA IsCut ==
  ASSUME NEW file \in File, NEW cut \in CutShort(file)
  PROVE  /\ cut \in File /\ cut.version = Fragment /\ cut.odd = file.odd
         /\ \A k \in MarkerKinds : cut.block[k] # "none" => file.block[k] # "none"
<1>1. PICK b \in [MarkerKinds -> Blocks] : cut = [file EXCEPT !.version = Fragment, !.block = b]
  BY DEF CutShort
<1>2. cut.version = Fragment /\ cut.odd = file.odd /\ cut.block = b
  BY <1>1 DEF File
<1>3. cut \in File
  <2>1. Fragment \in 0..Fragment BY TextBounds
  <2>2. QED BY <1>1, <2>1 DEF File
<1>4. ASSUME NEW k \in MarkerKinds, cut.block[k] # "none" PROVE file.block[k] # "none"
  <2>1. cut.block[k] \in Beginnings(file.block[k]) BY DEF CutShort
  <2>2. file.block[k] = "none" => Beginnings(file.block[k]) = {"none"} BY DEF Beginnings
  <2>3. QED BY <1>4, <2>1, <2>2
<1>5. QED BY <1>2, <1>3, <1>4

LEMMA InjectorInitInv == ASSUME InjectorInit PROVE InjectorInv
<1>1. ASSUME NEW f \in EntryFiles
      PROVE  /\ files[f] \in File /\ files[f].block = NoBlock
             /\ files[f].version \in 0..MaxText
  <2>1. files[f] = Absent \/ \E odd \in BOOLEAN :
          files[f] = [version |-> 1, odd |-> odd, block |-> NoBlock]
    BY DEF InjectorInit
  <2>2. NoBlock \in [MarkerKinds -> Blocks] BY DEF NoBlock, Blocks
  <2>3. 0 \in 0..MaxText /\ 1 \in 0..MaxText /\ 0..MaxText \subseteq 0..Fragment
    BY TextBounds
  <2>4. CASE files[f] = Absent BY <2>2, <2>3, <2>4 DEF File, Absent
  <2>5. CASE \E odd \in BOOLEAN : files[f] = [version |-> 1, odd |-> odd, block |-> NoBlock]
    <3>1. PICK odd \in BOOLEAN : files[f] = [version |-> 1, odd |-> odd, block |-> NoBlock]
      BY <2>5
    <3>2. [version |-> 1, odd |-> odd, block |-> NoBlock] \in File BY <2>2, <2>3 DEF File
    <3>3. QED BY <2>3, <3>1, <3>2
  <2>6. QED BY <2>1, <2>4, <2>5
<1>2. files \in [EntryFiles -> File] BY <1>1 DEF InjectorInit
<1>3. wrote = [f \in EntryFiles |-> [version |-> files[f].version, odd |-> files[f].odd]]
  BY DEF InjectorInit, TextOf
<1>4. InjectorTypeOK
  <2>1. wrote \in [EntryFiles -> Text] BY <1>1, <1>3 DEF Text, File
  <2>2. /\ indicators \in ProjectKinds /\ clients \in SUBSET Frameworks /\ outcome \in Outcomes
        /\ torn \in SUBSET EntryFiles /\ tampered \in SUBSET EntryFiles
    BY DEF InjectorInit, Outcomes
  <2>3. plans \in 0..MaxPlans
    <3>1. MaxPlans \in Nat BY InjectorAssumption
    <3>2. plans = 0 BY DEF InjectorInit
    <3>3. QED BY <3>1, <3>2
  <2>4. session \in InjectorSessions BY QuietIsTyped DEF InjectorInit
  <2>5. /\ manifest \in [state : {"none", "cut", "whole"},
                         framework : Frameworks \cup {NoFramework}, modified : Targets]
        /\ aim \in [state : {"none", "one", "several"},
                    framework : Frameworks \cup {NoFramework}, target : Targets]
    BY DEF InjectorInit, NoManifest, NoAim, Targets
  <2>6. QED BY <1>2, <2>1, <2>2, <2>3, <2>4, <2>5 DEF InjectorTypeOK, InjectorSessions
<1>5. TextIsKept BY <1>3 DEF TextIsKept
<1>6. CopyIsFile /\ Stripped /\ AimsAreKnown /\ ClientsAreAimed
  BY DEF InjectorInit, CopyIsFile, Stripped, AimsAreKnown, ClientsAreAimed, Quiet, NoManifest
<1>7. BlocksAreAimed BY <1>1 DEF BlocksAreAimed, NoBlock
<1>8. QED BY <1>4, <1>5, <1>6, <1>7 DEF InjectorInv

(* What the detector and the plan choose is a framework, and one of its entry points. *)
LEMMA ExistingAre ==
  ASSUME NEW list \in Seq(EntryFiles)
  PROVE  /\ Existing(list) \in SUBSET Nat /\ Existing(list) \subseteq DOMAIN list
         /\ IsFiniteSet(Existing(list)) /\ Cardinality(Existing(list)) \in Nat
<1>1. DOMAIN list = 1..Len(list) /\ Len(list) \in Nat OBVIOUS
<1>2. Existing(list) \subseteq 1..Len(list) BY <1>1 DEF Existing
<1>3. IsFiniteSet(1..Len(list)) BY <1>1, FS_Interval
<1>4. IsFiniteSet(Existing(list)) BY <1>2, <1>3, FS_Subset
<1>5. Cardinality(Existing(list)) \in Nat BY <1>4, FS_CardinalityType
<1>6. QED BY <1>1, <1>2, <1>4, <1>5

LEMMA DetectedIsFramework ==
  ASSUME NEW p \in ProjectKinds PROVE Detect(p) \in Frameworks \cup {NoFramework}
<1> DEFINE s(i) == Score(p, ProbeOrder[i])
           before(i, j) == s(i) > s(j) \/ (s(i) = s(j) /\ i < j)
           top == CHOOSE i \in 1..3 : \A j \in 1..3 \ {i} : before(i, j)
<1>1. s(1) \in Int /\ s(2) \in Int /\ s(3) \in Int
  <2>1. \A fw \in Frameworks : p.entries[fw] \in Seq(EntryFiles) BY InjectorAssumption
  <2>2. Cardinality(Existing(p.entries["electron"])) \in Nat BY <2>1, ExistingAre DEF Frameworks
  <2>3. Cardinality(Existing(p.entries["qt"])) \in Nat BY <2>1, ExistingAre DEF Frameworks
  <2>4. ProbeElectron(p) \in Int
    BY <2>2 DEF ProbeElectron, Capped, Points
  <2>5. ProbeWebview2(p) \in Int
    <3>1. p.csprojs \in Nat /\ p.webview2Refs \in Nat BY InjectorAssumption
    <3>2. QED BY <3>1 DEF ProbeWebview2, Capped, Points
  <2>6. ProbeQt(p) \in Int
    <3>1. p.qtDeclared \in Nat BY InjectorAssumption
    <3>2. QED BY <2>3, <3>1 DEF ProbeQt, Capped, Points
  <2>7. QED BY <2>4, <2>5, <2>6 DEF Score, ProbeOrder
<1> HIDE DEF s
<1>2. \E i \in 1..3 : \A j \in 1..3 \ {i} : before(i, j)
  <2>1. CASE s(1) >= s(2) /\ s(1) >= s(3)
    <3>1. \A j \in 1..3 \ {1} : before(1, j) BY <1>1, <2>1
    <3>2. QED BY <3>1
  <2>2. CASE s(2) > s(1) /\ s(2) >= s(3)
    <3>1. \A j \in 1..3 \ {2} : before(2, j) BY <1>1, <2>2
    <3>2. QED BY <3>1
  <2>3. CASE s(3) > s(1) /\ s(3) > s(2)
    <3>1. \A j \in 1..3 \ {3} : before(3, j) BY <1>1, <2>3
    <3>2. QED BY <3>1
  <2>4. QED BY <1>1, <2>1, <2>2, <2>3
<1> HIDE DEF before
<1>3. top \in 1..3 BY <1>2
<1> HIDE DEF top
<1>4. ProbeOrder[top] \in Frameworks BY <1>3 DEF ProbeOrder, Frameworks
<1>5. Detect(p) \in {NoFramework, ProbeOrder[top]} BY DEF Detect, top, before, s
<1>6. QED BY <1>4, <1>5

LEMMA FirstExists ==
  ASSUME NEW list \in Seq(EntryFiles), FirstOf(list) # NoTarget
  PROVE  FirstOf(list) \in EntryFiles /\ Exists(FirstOf(list))
<1>1. Existing(list) \in SUBSET Nat /\ Existing(list) \subseteq DOMAIN list BY ExistingAre
<1>2. Existing(list) # {} BY DEF FirstOf
<1>3. \E i \in Existing(list) : \A j \in Existing(list) : i <= j BY <1>1, <1>2, Least
<1>4. PICK i \in Existing(list) :
        i = CHOOSE k \in Existing(list) : \A j \in Existing(list) : k <= j
  BY <1>3
<1>5. FirstOf(list) = list[i] BY <1>2, <1>4 DEF FirstOf
<1>6. Exists(list[i]) /\ i \in DOMAIN list BY <1>4 DEF Existing
<1>7. list[i] \in EntryFiles BY <1>6
<1>8. QED BY <1>5, <1>6, <1>7

LEMMA EntryPointExists ==
  ASSUME InjectorTypeOK, NEW fw \in Frameworks, NEW detected \in Frameworks \cup {NoFramework},
         EntryPoint(detected, fw) # NoTarget
  PROVE  EntryPoint(detected, fw) \in EntryFiles /\ Exists(EntryPoint(detected, fw))
<1>1. Candidates[fw] \in Seq(EntryFiles) BY InjectorAssumption
<1>2. CASE detected # NoFramework /\ Existing(indicators.entries[detected]) # {}
  <2>1. indicators.entries[detected] \in Seq(EntryFiles)
    BY <1>2, InjectorAssumption DEF InjectorTypeOK
  <2>2. EntryPoint(detected, fw) = FirstOf(indicators.entries[detected]) BY <1>2 DEF EntryPoint
  <2>3. QED BY <2>1, <2>2, FirstExists
<1>3. CASE ~ (detected # NoFramework /\ Existing(indicators.entries[detected]) # {})
  <2>1. EntryPoint(detected, fw) = FirstOf(Candidates[fw]) BY <1>3 DEF EntryPoint
  <2>2. QED BY <1>1, <2>1, FirstExists
<1>4. QED BY <1>2, <1>3

(* Steps that write no file: what has to be shown of them.                          *)
LEMMA CommandStep ==
  ASSUME InjectorInv, UNCHANGED <<files, wrote, torn, tampered>>, InjectorTypeOK',
         CopyIsFile', ClientsAreAimed', AimsAreKnown', Stripped',
         \A f \in EntryFiles : \A k \in MarkerKinds :
           files[f].block[k] # "none" /\ AimedBlock(f, k) => AimedBlock(f, k)'
  PROVE  InjectorInv'
<1>1. TextIsKept' BY DEF InjectorInv, TextIsKept
<1>2. BlocksAreAimed' BY DEF InjectorInv, BlocksAreAimed, Exists
<1>3. QED BY <1>1, <1>2 DEF InjectorInv

(* Steps that write one file, whoever writes it.                                    *)
LEMMA FileStep ==
  ASSUME InjectorInv, NEW f \in EntryFiles, NEW new \in File, files' = [files EXCEPT ![f] = new],
         UNCHANGED aim,
         \A g \in EntryFiles \ {f} : /\ wrote'[g] = wrote[g]
                                     /\ (g \in torn') <=> (g \in torn)
                                     /\ (g \in tampered') <=> (g \in tampered),
         f \notin torn' => new.version = wrote'[f].version,
         new.odd => wrote'[f].odd,
         \A k \in MarkerKinds : new.block[k] # "none" => new.version # 0 /\ AimedBlock(f, k),
         \A k \in MarkerKinds : new.block[k] \in {"broken", "mixed"} => f \in torn' \cup tampered'
  PROVE  TextIsKept' /\ BlocksAreAimed' /\ files' \in [EntryFiles -> File]
<1>1. files \in [EntryFiles -> File] BY DEF InjectorInv, InjectorTypeOK
<1>2. \A g \in EntryFiles : files'[g] = IF g = f THEN new ELSE files[g] BY <1>1
<1>3. files' \in [EntryFiles -> File] BY <1>1
<1>4. TextIsKept' BY <1>2 DEF InjectorInv, TextIsKept
<1>5. ASSUME NEW g \in EntryFiles, NEW k \in MarkerKinds
      PROVE  /\ files'[g].block[k] # "none" => Exists(g)' /\ AimedBlock(g, k)'
             /\ files'[g].block[k] \in {"broken", "mixed"} => g \in torn' \cup tampered'
  <2>1. CASE g = f BY <1>2, <2>1 DEF Exists, AimedBlock
  <2>2. CASE g # f
    <3>1. files'[g] = files[g] BY <1>2, <2>2
    <3>2. /\ files[g].block[k] # "none" => Exists(g) /\ AimedBlock(g, k)
          /\ files[g].block[k] \in {"broken", "mixed"} => g \in torn \cup tampered
      BY DEF InjectorInv, BlocksAreAimed
    <3>3. QED BY <2>2, <3>1, <3>2 DEF Exists, AimedBlock
  <2>3. QED BY <2>1, <2>2
<1>6. BlocksAreAimed' BY <1>5 DEF BlocksAreAimed
<1>7. QED BY <1>3, <1>4, <1>6

LEMMA PlanInv ==
  ASSUME InjectorInv, NEW override \in Frameworks \cup {NoFramework}, Plan(override)
  PROVE  InjectorInv'
<1>1. PICK detected, fw, target :
        /\ detected = Detect(indicators)
        /\ fw = IF override # NoFramework THEN override ELSE detected
        /\ target = EntryPoint(detected, fw)
  OBVIOUS
<1>2. InjectorTypeOK BY DEF InjectorInv
<1>3. UNCHANGED <<indicators, files, clients, manifest, wrote, aim, torn, tampered>>
  BY DEF Plan
<1>4. \A f \in EntryFiles : \A k \in MarkerKinds :
        files[f].block[k] # "none" /\ AimedBlock(f, k) => AimedBlock(f, k)'
  BY <1>3 DEF AimedBlock
<1>5. ClientsAreAimed' BY <1>3 DEF InjectorInv, ClientsAreAimed, AimedClient
<1>6. CASE fw = NoFramework
  <2>1. outcome' = "ERROR" /\ session' = session /\ plans' = plans BY <1>1, <1>6 DEF Plan
  <2>2. InjectorTypeOK' BY <1>2, <1>3, <2>1 DEF InjectorTypeOK, Outcomes
  <2>3. CopyIsFile' /\ AimsAreKnown' /\ Stripped'
    BY <1>3, <2>1 DEF InjectorInv, CopyIsFile, AimsAreKnown, AimCovers, Stripped, Exists
  <2>4. QED BY <1>3, <1>4, <1>5, <2>2, <2>3, CommandStep
<1>7. CASE fw # NoFramework
  <2>1. fw \in Frameworks /\ detected \in Frameworks \cup {NoFramework}
    BY <1>1, <1>2, <1>7, DetectedIsFramework DEF InjectorTypeOK
  <2>2. target # NoTarget => target \in EntryFiles /\ Exists(target)
    BY <1>1, <1>2, <2>1, EntryPointExists
  <2>3. /\ session' = [step |-> "planned", framework |-> fw, target |-> target,
                       copy |-> IF target = NoTarget THEN Absent ELSE Decoded(files[target]),
                       warned |-> FALSE]
        /\ outcome' = "none" /\ plans < MaxPlans /\ plans' = plans + 1
    BY <1>1, <1>7 DEF Plan
  <2>4. session'.copy \in File
    <3>1. CASE target = NoTarget BY <2>3, <3>1, QuietIsTyped
    <3>2. CASE target # NoTarget
      <4>1. files[target] \in File BY <1>2, <2>2, <3>2 DEF InjectorTypeOK
      <4>2. Decoded(files[target]) \in File BY <4>1 DEF Decoded, File
      <4>3. QED BY <2>3, <3>2, <4>2
    <3>3. QED BY <3>1, <3>2
  <2>5. InjectorTypeOK'
    <3>1. session' \in InjectorSessions
      BY <2>1, <2>2, <2>3, <2>4 DEF InjectorSessions, CommandSteps, Targets
    <3>2. plans' \in 0..MaxPlans BY <1>2, <2>3, InjectorAssumption DEF InjectorTypeOK
    <3>3. QED BY <1>2, <1>3, <2>3, <3>1, <3>2 DEF InjectorTypeOK, InjectorSessions, Outcomes
  <2>6. CopyIsFile' BY <1>3, <2>2, <2>3 DEF CopyIsFile, Exists, Decoded
  <2>7. AimsAreKnown' /\ Stripped'
    BY <1>3, <2>1, <2>3 DEF InjectorInv, AimsAreKnown, AimCovers, Stripped
  <2>8. QED BY <1>3, <1>4, <1>5, <2>5, <2>6, <2>7, CommandStep
<1>8. QED BY <1>6, <1>7

LEMMA ReportInv ==
  ASSUME InjectorInv, DryRun \/ ValidateIntegration \/ ScanArtifact \/ CommandStops
                      \/ DeveloperChangesProject
  PROVE  InjectorInv'
<1>1. UNCHANGED <<files, clients, manifest, wrote, aim, torn, tampered, plans>>
  BY DEF DryRun, ValidateIntegration, ScanArtifact, CommandStops, DeveloperChangesProject
<1>2. session' = session \/ session' = Quiet
  BY DEF DryRun, ValidateIntegration, ScanArtifact, CommandStops, DeveloperChangesProject, End
<1>3. InjectorTypeOK'
  <2>1. session' \in InjectorSessions
    BY <1>2, QuietIsTyped DEF InjectorInv, InjectorTypeOK, InjectorSessions
  <2>2. indicators' \in ProjectKinds
    BY DEF DryRun, ValidateIntegration, ScanArtifact, CommandStops, DeveloperChangesProject,
           InjectorInv, InjectorTypeOK
  <2>3. outcome' \in Outcomes
    BY DEF DryRun, ValidateIntegration, ScanArtifact, CommandStops, DeveloperChangesProject,
           InjectorInv, InjectorTypeOK, End, Outcomes
  <2>4. QED BY <1>1, <2>1, <2>2, <2>3 DEF InjectorInv, InjectorTypeOK, InjectorSessions
<1>4. CopyIsFile' /\ AimsAreKnown' /\ Stripped' /\ ClientsAreAimed'
  BY <1>1, <1>2 DEF InjectorInv, CopyIsFile, AimsAreKnown, AimCovers, Stripped, Quiet, Exists,
     ClientsAreAimed, AimedClient
<1>5. \A f \in EntryFiles : \A k \in MarkerKinds :
        files[f].block[k] # "none" /\ AimedBlock(f, k) => AimedBlock(f, k)'
  BY <1>1 DEF AimedBlock
<1>6. QED BY <1>1, <1>3, <1>4, <1>5, CommandStep

(* apply.                                                                           *)
LEMMA WriteClientInv == ASSUME InjectorInv, WriteClient PROVE InjectorInv'
<1>1. InjectorTypeOK BY DEF InjectorInv
<1> DEFINE here == AimAt(session.framework, session.target)
<1>2. /\ session' = [session EXCEPT !.step =
                       IF session.target = NoTarget THEN "manifest" ELSE "entry"]
      /\ aim' = IF aim \in {NoAim, here} THEN here ELSE Several
      /\ clients' = clients \cup {session.framework}
      /\ session.step = "planned"
      /\ UNCHANGED <<indicators, files, manifest, outcome, wrote, torn, tampered, plans>>
  BY DEF WriteClient
<1>3. /\ session'.target = session.target /\ session'.copy = session.copy
      /\ session'.framework = session.framework /\ session.framework \in Frameworks
      /\ session'.step = IF session.target = NoTarget THEN "manifest" ELSE "entry"
  BY <1>1, <1>2 DEF InjectorTypeOK, InjectorInv, AimsAreKnown
<1>4. /\ aim' \in {here, Several}
      /\ aim = Several => aim' = Several
      /\ aim.state = "one" => aim' \in {aim, Several}
      /\ here.state = "one" /\ here.framework = session.framework /\ here.target = session.target
  BY <1>2 DEF Several, NoAim, AimAt
<1>5. InjectorTypeOK'
  <2>1. aim' \in [state : {"none", "one", "several"}, framework : Frameworks \cup {NoFramework},
                  target : Targets]
    BY <1>1, <1>3, <1>4 DEF InjectorTypeOK, AimAt, Several, NoAim, Targets
  <2>2. session' \in InjectorSessions BY <1>1, <1>2 DEF InjectorTypeOK, InjectorSessions, CommandSteps
  <2>3. QED BY <1>1, <1>2, <1>3, <2>1, <2>2 DEF InjectorTypeOK, InjectorSessions
<1>6. CopyIsFile' BY <1>2, <1>3 DEF InjectorInv, CopyIsFile, Exists
<1>7. ClientsAreAimed'
  <2>1. ASSUME NEW fw \in clients' PROVE AimedClient(fw)'
    <3>1. CASE fw \in clients
      BY <1>4, <3>1 DEF InjectorInv, ClientsAreAimed, AimedClient
    <3>2. CASE fw = session.framework BY <1>4, <3>2 DEF AimedClient
    <3>3. QED BY <1>2, <3>1, <3>2
  <2>2. QED BY <2>1 DEF ClientsAreAimed
<1>8. AimsAreKnown'
  <2>1. AimCovers(session.framework, session.target)' BY <1>3, <1>4 DEF AimCovers
  <2>2. manifest.state = "whole" => AimCovers(manifest.framework, manifest.modified)'
    <3>1. ASSUME NEW fw \in Frameworks, NEW t, aim \in {Several, AimAt(fw, t)}
          PROVE  aim' \in {Several, AimAt(fw, t)}
      <4>1. AimAt(fw, t).state = "one" BY DEF AimAt
      <4>2. QED BY <1>4, <3>1, <4>1
    <3>2. manifest.state = "whole" => AimCovers(manifest.framework, manifest.modified)
      BY DEF InjectorInv, AimsAreKnown
    <3>3. manifest' = manifest BY <1>2
    <3>4. QED BY <3>1, <3>2, <3>3 DEF AimCovers
  <2>3. QED BY <1>2, <1>3, <2>1, <2>2 DEF AimsAreKnown, AimCovers
<1>9. Stripped' BY <1>3 DEF Stripped
<1>10. \A f \in EntryFiles : \A k \in MarkerKinds :
        files[f].block[k] # "none" /\ AimedBlock(f, k) => AimedBlock(f, k)'
  BY <1>4 DEF AimedBlock
<1>11. QED BY <1>2, <1>5, <1>6, <1>7, <1>8, <1>9, <1>10, CommandStep

(* What apply writes into the entry file, whole or cut.                             *)
LEMMA EntryContent ==
  ASSUME InjectorInv, session.step = "entry"
  PROVE  \E f \in EntryFiles : \E new \in File :
           /\ f = session.target /\ new = InjectBlock(session.copy, Marker[session.framework])
           /\ new.version = files[f].version /\ new.version # 0 /\ ~ new.odd
           /\ \A k \in MarkerKinds : new.block[k] # "none" => AimedBlock(f, k)
           /\ \A k \in MarkerKinds : new.block[k] \in {"broken", "mixed"} => f \in torn \cup tampered
<1>1. PICK f \in EntryFiles : f = session.target /\ session.copy = Decoded(files[f]) /\ Exists(f)
  BY DEF InjectorInv, CopyIsFile, AimsAreKnown
<1>2. AimCovers(session.framework, f) BY <1>1 DEF InjectorInv, AimsAreKnown
<1>3. PICK kind \in MarkerKinds : kind = Marker[session.framework]
  BY <1>2, MarkersAre DEF AimCovers
<1>4. PICK file \in File : file = files[f] BY DEF InjectorInv, InjectorTypeOK
<1>5. PICK new : new = InjectBlock(Decoded(file), kind) OBVIOUS
<1>6. /\ new \in File /\ new.version = file.version /\ ~ new.odd
      /\ new.block[kind] \in {"whole", "mixed"}
      /\ new.block[kind] = "mixed" => file.block[kind] \in {"broken", "mixed"}
      /\ \A k \in MarkerKinds \ {kind} : new.block[k] = file.block[k]
  BY <1>5, Injected
<1>7. AimedBlock(f, kind)
  BY <1>2, <1>3 DEF AimCovers, AimedBlock, AimAt
<1>8. \A k \in MarkerKinds : new.block[k] # "none" => AimedBlock(f, k)
  BY <1>4, <1>6, <1>7 DEF InjectorInv, BlocksAreAimed
<1>9. \A k \in MarkerKinds : new.block[k] \in {"broken", "mixed"} => f \in torn \cup tampered
  BY <1>4, <1>6 DEF InjectorInv, BlocksAreAimed
<1>10. new.version # 0 BY <1>1, <1>4, <1>6 DEF Exists
<1>11. QED BY <1>1, <1>3, <1>4, <1>5, <1>6, <1>8, <1>9, <1>10

LEMMA WriteEntryInv == ASSUME InjectorInv, WriteEntry PROVE InjectorInv'
<1>1. InjectorTypeOK /\ session.step = "entry" BY DEF InjectorInv, WriteEntry
<1>2. PICK f \in EntryFiles, new \in File :
           /\ f = session.target /\ new = InjectBlock(session.copy, Marker[session.framework])
           /\ new.version = files[f].version /\ new.version # 0 /\ ~ new.odd
           /\ \A k \in MarkerKinds : new.block[k] # "none" => AimedBlock(f, k)
           /\ \A k \in MarkerKinds : new.block[k] \in {"broken", "mixed"} => f \in torn \cup tampered
  BY <1>1, EntryContent
<1>3. /\ files' = [files EXCEPT ![f] = new]
      /\ session' = [session EXCEPT !.step = "manifest"]
      /\ UNCHANGED <<indicators, clients, manifest, outcome, wrote, aim, torn, tampered, plans>>
  BY <1>2 DEF WriteEntry
<1>4. /\ session'.target = session.target /\ session'.step = "manifest"
      /\ session'.framework = session.framework
  BY <1>1, <1>3 DEF InjectorTypeOK
<1>5. f \notin torn => new.version = wrote[f].version BY <1>2 DEF InjectorInv, TextIsKept
<1>6. TextIsKept' /\ BlocksAreAimed' /\ files' \in [EntryFiles -> File]
  <2>1. /\ UNCHANGED <<wrote, torn, tampered, aim>>
        /\ files' = [files EXCEPT ![f] = new]
    BY <1>3
  <2>2. \A g \in EntryFiles \ {f} : /\ wrote'[g] = wrote[g]
                                    /\ (g \in torn') <=> (g \in torn)
                                    /\ (g \in tampered') <=> (g \in tampered)
    BY <2>1
  <2>3. /\ f \notin torn' => new.version = wrote'[f].version
        /\ new.odd => wrote'[f].odd
    BY <1>2, <1>5, <2>1
  <2>4. /\ \A k \in MarkerKinds : new.block[k] # "none" => new.version # 0 /\ AimedBlock(f, k)
        /\ \A k \in MarkerKinds :
             new.block[k] \in {"broken", "mixed"} => f \in torn' \cup tampered'
    BY <1>2, <2>1
  <2>5. QED BY <2>1, <2>2, <2>3, <2>4, FileStep
<1>7. InjectorTypeOK'
  <2>1. session' \in InjectorSessions BY <1>1, <1>3 DEF InjectorTypeOK, InjectorSessions, CommandSteps
  <2>2. QED BY <1>1, <1>3, <1>6, <2>1 DEF InjectorTypeOK, InjectorSessions
<1>8. CopyIsFile' /\ Stripped' BY <1>4 DEF CopyIsFile, Stripped
<1>9. AimsAreKnown' /\ ClientsAreAimed'
  BY <1>1, <1>3, <1>4 DEF InjectorInv, AimsAreKnown, AimCovers, ClientsAreAimed, AimedClient
<1>10. QED BY <1>6, <1>7, <1>8, <1>9 DEF InjectorInv

(* A write that is cut: the file is torn, and has no more blocks than the content.  *)
LEMMA CutInv ==
  ASSUME InjectorInv, NEW f \in EntryFiles, NEW content \in File, WriteIsCut(f, content), ~ content.odd,
         \A k \in MarkerKinds : content.block[k] # "none" => AimedBlock(f, k)
  PROVE  InjectorInv'
<1>1. InjectorTypeOK BY DEF InjectorInv
<1>2. PICK cut \in CutShort(content) : files' = [files EXCEPT ![f] = cut] BY DEF WriteIsCut
<1>3. /\ cut \in File /\ cut.version = Fragment /\ cut.odd = content.odd
      /\ \A k \in MarkerKinds : cut.block[k] # "none" => content.block[k] # "none"
  BY IsCut
<1>4. /\ torn' = torn \cup {f} /\ session' = Quiet /\ outcome' = "ERROR"
      /\ UNCHANGED <<indicators, clients, manifest, wrote, aim, tampered, plans>>
  BY DEF WriteIsCut, End
<1>5. Fragment # 0 BY InjectorAssumption DEF Fragment
<1>6. TextIsKept' /\ BlocksAreAimed' /\ files' \in [EntryFiles -> File]
  BY <1>2, <1>3, <1>4, <1>5, FileStep
<1>7. InjectorTypeOK'
  BY <1>1, <1>4, <1>6, QuietIsTyped DEF InjectorTypeOK, InjectorSessions, Outcomes
<1>8. CopyIsFile' /\ Stripped' /\ AimsAreKnown' /\ ClientsAreAimed'
  BY <1>4 DEF CopyIsFile, Stripped, Quiet, InjectorInv, AimsAreKnown, AimCovers, ClientsAreAimed,
     AimedClient
<1>9. QED BY <1>6, <1>7, <1>8 DEF InjectorInv

LEMMA EntryIsCutInv == ASSUME InjectorInv, EntryIsCut PROVE InjectorInv'
<1>1. session.step = "entry" BY DEF EntryIsCut
<1>2. PICK f \in EntryFiles, new \in File :
           /\ f = session.target /\ new = InjectBlock(session.copy, Marker[session.framework])
           /\ ~ new.odd
           /\ \A k \in MarkerKinds : new.block[k] # "none" => AimedBlock(f, k)
  BY <1>1, EntryContent
<1>3. WriteIsCut(f, new) BY <1>2 DEF EntryIsCut
<1>4. QED BY <1>2, <1>3, CutInv

LEMMA WriteManifestInv ==
  ASSUME InjectorInv, WriteManifest \/ ManifestIsCut PROVE InjectorInv'
<1>1. InjectorTypeOK /\ session.step = "manifest" BY DEF InjectorInv, WriteManifest, ManifestIsCut
<1>2. /\ session' = Quiet /\ outcome' \in {"READY", "ERROR"}
      /\ UNCHANGED <<indicators, files, clients, wrote, aim, torn, tampered, plans>>
  BY DEF WriteManifest, ManifestIsCut, End
<1>3. \/ manifest' = [state |-> "whole", framework |-> session.framework, modified |-> session.target]
      \/ manifest' = [NoManifest EXCEPT !.state = "cut"]
  BY DEF WriteManifest, ManifestIsCut, CutManifest
<1>4. AimCovers(session.framework, session.target) BY <1>1 DEF InjectorInv, AimsAreKnown
<1>5. InjectorTypeOK'
  <2>1. manifest' \in [state : {"none", "cut", "whole"}, framework : Frameworks \cup {NoFramework},
                       modified : Targets]
    BY <1>1, <1>3 DEF InjectorTypeOK, NoManifest, Targets
  <2>2. QED BY <1>1, <1>2, <2>1, QuietIsTyped DEF InjectorTypeOK, InjectorSessions, Outcomes
<1>6. CopyIsFile' /\ Stripped' /\ ClientsAreAimed'
  BY <1>2 DEF CopyIsFile, Stripped, Quiet, InjectorInv, ClientsAreAimed, AimedClient
<1>7. AimsAreKnown'
  <2>1. manifest'.state = "whole" => AimCovers(manifest'.framework, manifest'.modified)
    BY <1>3, <1>4 DEF NoManifest
  <2>2. QED BY <1>2, <2>1 DEF AimsAreKnown, AimCovers, Quiet
<1>8. \A f \in EntryFiles : \A k \in MarkerKinds :
        files[f].block[k] # "none" /\ AimedBlock(f, k) => AimedBlock(f, k)'
  BY <1>2 DEF AimedBlock
<1>9. QED BY <1>2, <1>5, <1>6, <1>7, <1>8, CommandStep

(* remove.                                                                          *)
LEMMA BeginRemoveInv == ASSUME InjectorInv, BeginRemove PROVE InjectorInv'
<1>1. InjectorTypeOK BY DEF InjectorInv
<1>2. session = Quiet /\ UNCHANGED <<indicators, files, manifest, wrote, aim, torn, tampered, plans>>
  BY DEF BeginRemove
<1>3. \A f \in EntryFiles : \A k \in MarkerKinds :
        files[f].block[k] # "none" /\ AimedBlock(f, k) => AimedBlock(f, k)'
  BY <1>2 DEF AimedBlock
<1>4. CASE UNCHANGED <<session, clients>> /\ outcome' = "ERROR"
  <2>1. InjectorTypeOK' BY <1>1, <1>2, <1>4 DEF InjectorTypeOK, Outcomes
  <2>2. CopyIsFile' /\ AimsAreKnown' /\ Stripped' /\ ClientsAreAimed'
    BY <1>2, <1>4 DEF InjectorInv, CopyIsFile, AimsAreKnown, AimCovers, Stripped, Exists,
       ClientsAreAimed, AimedClient
  <2>3. QED BY <1>2, <1>3, <2>1, <2>2, CommandStep
<1>5. CASE /\ manifest.state = "whole" /\ clients' \in {clients, clients \ {manifest.framework}}
           /\ session' = [Quiet EXCEPT !.step = "stripping", !.warned = manifest.framework \in clients']
           /\ outcome' = "none"
  <2> DEFINE w == manifest.framework \in clients'
  <2>1. w \in BOOLEAN OBVIOUS
  <2>2. session' = [Quiet EXCEPT !.step = "stripping", !.warned = w] BY <1>5
  <2> HIDE DEF w
  <2>3. session' \in InjectorSessions BY <2>1, <2>2, QuietIsTyped
  <2>4. session'.step = "stripping" /\ session'.warned = w BY <2>2 DEF Quiet
  <2>5. clients' \subseteq clients BY <1>5
  <2>6. InjectorTypeOK' BY <1>1, <1>2, <1>5, <2>3, <2>5 DEF InjectorTypeOK, InjectorSessions, Outcomes
  <2>7. CopyIsFile' BY <2>4 DEF CopyIsFile
  <2>8. ClientsAreAimed' BY <1>2, <2>5 DEF InjectorInv, ClientsAreAimed, AimedClient
  <2>9. AimsAreKnown' BY <1>2, <2>4 DEF InjectorInv, AimsAreKnown, AimCovers
  <2>10. Stripped' BY <1>2, <1>5, <2>4 DEF Stripped, w
  <2>11. QED BY <1>2, <1>3, <2>6, <2>7, <2>8, <2>9, <2>10, CommandStep
<1>6. QED BY <1>4, <1>5 DEF BeginRemove

(* What remove writes into the entry file.                                          *)
LEMMA StrippedContent ==
  ASSUME InjectorInv, session.step = "stripping", NEW f \in EntryFiles, IsToStrip(f)
  PROVE  \E kind \in MarkerKinds : \E new \in File :
           /\ kind = Marker[manifest.framework] /\ new = Strip(files[f], kind)
           /\ new.version = files[f].version /\ new.version # 0 /\ ~ new.odd
           /\ f \in torn \cup tampered \/ new.block[kind] = "none"
           /\ \A k \in MarkerKinds : new.block[k] # "none" => AimedBlock(f, k)
           /\ \A k \in MarkerKinds : new.block[k] \in {"broken", "mixed"} => f \in torn \cup tampered
<1>1. manifest.framework \in Frameworks
  BY DEF InjectorInv, Stripped, AimsAreKnown, AimCovers
<1>2. PICK kind \in MarkerKinds : kind = Marker[manifest.framework] BY <1>1, MarkersAre
<1>3. PICK file \in File : file = files[f] BY DEF InjectorInv, InjectorTypeOK
<1>4. PICK new : new = Strip(file, kind) OBVIOUS
<1>5. /\ new \in File /\ new.version = file.version /\ ~ new.odd
      /\ new.block[kind] = IF file.block[kind] = "mixed" THEN "broken" ELSE "none"
      /\ \A k \in MarkerKinds \ {kind} : new.block[k] = file.block[k]
  BY <1>4, IsStripped
<1>6. \A k \in MarkerKinds : /\ file.block[k] # "none" => AimedBlock(f, k)
                             /\ file.block[k] \in {"broken", "mixed"} => f \in torn \cup tampered
  BY <1>3 DEF InjectorInv, BlocksAreAimed
<1>7. \A k \in MarkerKinds : new.block[k] # "none" => AimedBlock(f, k) BY <1>5, <1>6
<1>8. \A k \in MarkerKinds : new.block[k] \in {"broken", "mixed"} => f \in torn \cup tampered
  BY <1>5, <1>6
<1>9. f \in torn \cup tampered \/ new.block[kind] = "none" BY <1>5, <1>6
<1>10. new.version # 0 BY <1>3, <1>5 DEF IsToStrip, Exists
<1>11. QED BY <1>2, <1>3, <1>4, <1>5, <1>7, <1>8, <1>9, <1>10

LEMMA StripIsCutInv ==
  ASSUME InjectorInv, NEW f \in EntryFiles, StripIsCut(f) PROVE InjectorInv'
<1>1. session.step = "stripping" /\ IsToStrip(f) BY DEF StripIsCut
<1>2. PICK kind \in MarkerKinds, new \in File :
        /\ kind = Marker[manifest.framework] /\ new = Strip(files[f], kind) /\ ~ new.odd
        /\ \A k \in MarkerKinds : new.block[k] # "none" => AimedBlock(f, k)
  BY <1>1, StrippedContent
<1>3. WriteIsCut(f, new) BY <1>2 DEF StripIsCut
<1>4. QED BY <1>2, <1>3, CutInv

LEMMA StripEntryInv == ASSUME InjectorInv, StripEntry PROVE InjectorInv'
<1>1. InjectorTypeOK BY DEF InjectorInv
<1>2. /\ session.step = "stripping" /\ manifest.state = "whole"
      /\ session.warned \/ manifest.framework \notin clients
      /\ UNCHANGED <<indicators, clients, manifest, wrote, aim, torn, tampered, plans>>
  BY DEF StripEntry, InjectorInv, Stripped
<1>3. \A f \in EntryFiles : \A k \in MarkerKinds :
        files[f].block[k] # "none" /\ AimedBlock(f, k) => AimedBlock(f, k)'
  BY <1>2 DEF AimedBlock
<1>4. CASE session' = Quiet /\ outcome' = "UNSAFE" /\ files' = files
  <2>1. InjectorTypeOK' BY <1>1, <1>2, <1>4, QuietIsTyped DEF InjectorTypeOK, InjectorSessions, Outcomes
  <2>2. CopyIsFile' /\ AimsAreKnown' /\ Stripped' /\ ClientsAreAimed'
    BY <1>2, <1>4 DEF InjectorInv, CopyIsFile, AimsAreKnown, AimCovers, Stripped, Quiet,
       ClientsAreAimed, AimedClient
  <2>3. QED BY <1>2, <1>3, <1>4, <2>1, <2>2, CommandStep
<1>5. CASE /\ files' = [f \in EntryFiles |-> IF IsToStrip(f) THEN Strip(files[f], Marker[manifest.framework])
                                             ELSE files[f]]
           /\ session' = [session EXCEPT !.step = "unlinking"] /\ outcome' = outcome
  <2>1. session'.step = "unlinking" /\ session'.warned = session.warned
    BY <1>1, <1>5 DEF InjectorTypeOK
  <2>2. session' \in InjectorSessions BY <1>1, <1>5 DEF InjectorTypeOK, InjectorSessions, CommandSteps
  <2>3. CopyIsFile' /\ AimsAreKnown' /\ ClientsAreAimed'
    BY <1>2, <2>1 DEF CopyIsFile, InjectorInv, AimsAreKnown, AimCovers, ClientsAreAimed, AimedClient
  <2>4. CASE \A f \in EntryFiles : ~ IsToStrip(f)
    <3>1. files' = files BY <1>1, <1>5, <2>4 DEF InjectorTypeOK
    <3>2. InjectorTypeOK' BY <1>1, <1>2, <1>5, <2>2, <3>1 DEF InjectorTypeOK, InjectorSessions
    <3>3. ASSUME NEW f \in EntryFiles \ (torn \cup tampered), f = manifest.modified
          PROVE  files[f].block[Marker[manifest.framework]] = "none"
      <4>1. Marker[manifest.framework] \in MarkerKinds
        BY <1>2, MarkersAre DEF InjectorInv, AimsAreKnown, AimCovers
      <4>2. ~ Exists(f) BY <2>4, <3>3 DEF IsToStrip
      <4>3. QED BY <4>1, <4>2 DEF InjectorInv, BlocksAreAimed
    <3>4. Stripped' BY <1>2, <2>1, <3>1, <3>3 DEF Stripped
    <3>5. QED BY <1>2, <1>3, <2>3, <3>1, <3>2, <3>4, CommandStep
  <2>5. CASE \E f \in EntryFiles : IsToStrip(f)
    <3>1. PICK f \in EntryFiles : IsToStrip(f) BY <2>5
    <3>2. PICK kind \in MarkerKinds, new \in File :
           /\ kind = Marker[manifest.framework] /\ new = Strip(files[f], kind)
           /\ new.version = files[f].version /\ new.version # 0 /\ ~ new.odd
           /\ f \in torn \cup tampered \/ new.block[kind] = "none"
           /\ \A k \in MarkerKinds : new.block[k] # "none" => AimedBlock(f, k)
           /\ \A k \in MarkerKinds : new.block[k] \in {"broken", "mixed"} => f \in torn \cup tampered
      BY <1>2, <3>1, StrippedContent
    <3>3. \A g \in EntryFiles : IsToStrip(g) => g = f BY <3>1 DEF IsToStrip
    <3>4. files' = [files EXCEPT ![f] = new]
      BY <1>1, <1>5, <3>1, <3>2, <3>3 DEF InjectorTypeOK
    <3>5. f \notin torn => new.version = wrote[f].version BY <3>2 DEF InjectorInv, TextIsKept
    <3>6. TextIsKept' /\ BlocksAreAimed' /\ files' \in [EntryFiles -> File]
      BY <1>2, <3>2, <3>4, <3>5, FileStep
    <3>7. InjectorTypeOK' BY <1>1, <1>2, <1>5, <2>2, <3>6 DEF InjectorTypeOK, InjectorSessions
    <3>8. files'[f] = new /\ f = manifest.modified
      BY <1>1, <3>1, <3>4 DEF InjectorTypeOK, IsToStrip
    <3>9. Stripped' BY <1>2, <2>1, <3>2, <3>8 DEF Stripped
    <3>10. QED BY <2>3, <3>6, <3>7, <3>9 DEF InjectorInv
  <2>6. QED BY <2>4, <2>5
<1>6. QED BY <1>4, <1>5 DEF StripEntry, End

LEMMA UnlinkManifestInv == ASSUME InjectorInv, UnlinkManifest PROVE InjectorInv'
<1>1. InjectorTypeOK BY DEF InjectorInv
<1>2. /\ aim' = (IF NothingLeft THEN NoAim ELSE aim) /\ manifest' = NoManifest
      /\ session' = Quiet /\ outcome' \in {"REMOVED", "WARNED"}
      /\ UNCHANGED <<indicators, files, clients, wrote, torn, tampered, plans>>
  BY DEF UnlinkManifest, End
<1>3. InjectorTypeOK'
  <2>1. aim' \in [state : {"none", "one", "several"}, framework : Frameworks \cup {NoFramework},
                  target : Targets]
    BY <1>1, <1>2 DEF InjectorTypeOK, NoAim, Targets
  <2>2. QED BY <1>1, <1>2, <2>1, QuietIsTyped
            DEF InjectorTypeOK, NoManifest, InjectorSessions, Outcomes, Targets
<1>4. CopyIsFile' /\ Stripped' /\ AimsAreKnown'
  BY <1>2 DEF CopyIsFile, Stripped, AimsAreKnown, Quiet, NoManifest
<1>5. ClientsAreAimed'
  BY <1>2 DEF InjectorInv, ClientsAreAimed, AimedClient, NothingLeft
<1>6. \A f \in EntryFiles : \A k \in MarkerKinds :
        files[f].block[k] # "none" /\ AimedBlock(f, k) => AimedBlock(f, k)'
  BY <1>2 DEF NothingLeft, NoBlock, AimedBlock
<1>7. QED BY <1>2, <1>3, <1>4, <1>5, <1>6, CommandStep

(* The developer.                                                                   *)
LEMMA WritesInv ==
  ASSUME InjectorInv, NEW f \in EntryFiles,
         \/ \E odd \in BOOLEAN : DeveloperWrites(f, odd)
         \/ DeveloperRestores(f) \/ DeveloperDeletes(f) \/ DeveloperBreaksMarker(f)
  PROVE  InjectorInv'
<1>1. InjectorTypeOK BY DEF InjectorInv
<1>2. /\ session = Quiet
      /\ UNCHANGED <<indicators, clients, manifest, session, outcome, aim, plans>>
  BY DEF DeveloperWrites, DeveloperRestores, DeveloperDeletes, DeveloperBreaksMarker
<1>3. PICK file \in File : file = files[f] BY <1>1 DEF InjectorTypeOK
<1>4. \A k \in MarkerKinds : /\ file.block[k] # "none" => file.version # 0 /\ AimedBlock(f, k)
                             /\ file.block[k] \in {"broken", "mixed"} => f \in torn \cup tampered
  BY <1>3 DEF InjectorInv, BlocksAreAimed, Exists
<1>5. (f \notin torn => file.version = wrote[f].version) /\ (file.odd => wrote[f].odd)
      /\ wrote[f] \in Text
  BY <1>1, <1>3 DEF InjectorInv, InjectorTypeOK, TextIsKept
<1>6. PICK new \in File, text \in Text :
        /\ files' = [files EXCEPT ![f] = new] /\ wrote' = [wrote EXCEPT ![f] = text]
        /\ \A g \in EntryFiles \ {f} : /\ (g \in torn') <=> (g \in torn)
                                       /\ (g \in tampered') <=> (g \in tampered)
        /\ torn' \in SUBSET EntryFiles /\ tampered' \in SUBSET EntryFiles
        /\ f \notin torn' => new.version = text.version
        /\ new.odd => text.odd
        /\ \A k \in MarkerKinds : new.block[k] # "none" => new.version # 0 /\ AimedBlock(f, k)
        /\ \A k \in MarkerKinds : new.block[k] \in {"broken", "mixed"} => f \in torn' \cup tampered'
  <2>1. ASSUME NEW odd \in BOOLEAN, DeveloperWrites(f, odd)
        PROVE  /\ files' = [files EXCEPT ![f] = [file EXCEPT !.version = @ + 1, !.odd = odd]]
               /\ wrote' = [wrote EXCEPT ![f] = [version |-> file.version + 1, odd |-> odd]]
               /\ [file EXCEPT !.version = @ + 1, !.odd = odd] \in File
               /\ [version |-> file.version + 1, odd |-> odd] \in Text
    <3>1. file.version \in 0..Fragment /\ file.version < MaxText BY <1>3, <2>1 DEF DeveloperWrites, File
    <3>2. file.version + 1 \in 0..Fragment BY <3>1, TextBounds DEF Fragment
    <3>3. PICK new : new = [file EXCEPT !.version = @ + 1, !.odd = odd] OBVIOUS
    <3>4. new = [file EXCEPT !.version = file.version + 1, !.odd = odd] BY <3>3
    <3>5. new \in File BY <3>2, <3>4 DEF File
    <3>6. files' = [files EXCEPT ![f] = [files[f] EXCEPT !.version = @ + 1, !.odd = odd]]
      <4>1. files \in [EntryFiles -> File] BY <1>1 DEF InjectorTypeOK
      <4>2. files' = [files EXCEPT ![f].version = @ + 1, ![f].odd = odd]
        BY <2>1 DEF DeveloperWrites
      <4>3. QED BY <4>1, <4>2 DEF File
    <3>7. wrote' = [wrote EXCEPT ![f] = [version |-> file.version + 1, odd |-> odd]]
      BY <1>3, <2>1 DEF DeveloperWrites
    <3>8. [version |-> file.version + 1, odd |-> odd] \in Text BY <3>2 DEF Text
    <3>9. QED BY <1>3, <3>3, <3>5, <3>6, <3>7, <3>8
  <2>2. CASE \E odd \in BOOLEAN : DeveloperWrites(f, odd)
    <3>1. PICK odd \in BOOLEAN : DeveloperWrites(f, odd) BY <2>2
    <3>2. PICK new \in File, text \in Text :
            /\ new = [file EXCEPT !.version = @ + 1, !.odd = odd]
            /\ text = [version |-> file.version + 1, odd |-> odd]
            /\ files' = [files EXCEPT ![f] = new] /\ wrote' = [wrote EXCEPT ![f] = text]
      BY <2>1, <3>1
    <3>3. /\ new.version = file.version + 1 /\ new.odd = odd /\ new.block = file.block
          /\ text.version = file.version + 1 /\ text.odd = odd /\ file.version + 1 # 0
      BY <3>2, InjectorAssumption DEF File, Fragment
    <3>4. torn' = torn /\ tampered' = tampered BY <3>1 DEF DeveloperWrites
    <3>5. QED BY <1>1, <1>4, <3>2, <3>3, <3>4 DEF InjectorTypeOK
  <2>3. CASE DeveloperRestores(f)
    <3>1. PICK new : new = [version |-> wrote[f].version, odd |-> wrote[f].odd, block |-> NoBlock]
      OBVIOUS
    <3>2. /\ new \in File /\ new.version = wrote[f].version /\ new.odd = wrote[f].odd
          /\ \A k \in MarkerKinds : new.block[k] = "none"
      BY <1>5, <3>1 DEF File, Text, NoBlock, Blocks
    <3>3. /\ files' = [files EXCEPT ![f] = new] /\ wrote' = [wrote EXCEPT ![f] = wrote[f]]
          /\ torn' = torn \ {f} /\ tampered' = tampered \ {f}
      BY <1>1, <2>3, <3>1 DEF DeveloperRestores, InjectorTypeOK
    <3>4. QED BY <1>1, <1>5, <3>2, <3>3 DEF InjectorTypeOK
  <2>4. CASE DeveloperDeletes(f)
    <3>1. TextOf(Absent) \in Text /\ TextOf(Absent).version = 0
      BY InjectorAssumption DEF TextOf, Absent, Text, Fragment
    <3>2. /\ files' = [files EXCEPT ![f] = Absent] /\ wrote' = [wrote EXCEPT ![f] = TextOf(Absent)]
          /\ torn' = torn \ {f} /\ tampered' = tampered \ {f}
      BY <2>4 DEF DeveloperDeletes
    <3>3. \A k \in MarkerKinds : Absent.block[k] = "none" BY QuietIsTyped DEF NoBlock
    <3>4. QED BY <1>1, <3>1, <3>2, <3>3, QuietIsTyped DEF InjectorTypeOK
  <2>5. CASE DeveloperBreaksMarker(f)
    <3>1. PICK k \in MarkerKinds :
            /\ file.block[k] = "whole"
            /\ files' = [files EXCEPT ![f] = [file EXCEPT !.block[k] = "broken"]]
      BY <1>1, <1>3, <2>5 DEF DeveloperBreaksMarker, InjectorTypeOK
    <3>2. PICK new : new = [file EXCEPT !.block[k] = "broken"] OBVIOUS
    <3>3. /\ new \in File /\ new.version = file.version /\ new.odd = file.odd
          /\ \A j \in MarkerKinds : new.block[j] = IF j = k THEN "broken" ELSE file.block[j]
      BY <3>2 DEF File, Blocks
    <3>4. /\ wrote' = [wrote EXCEPT ![f] = wrote[f]] /\ torn' = torn
          /\ tampered' = tampered \cup {f}
      BY <1>1, <2>5 DEF DeveloperBreaksMarker, InjectorTypeOK
    <3>5. files' = [files EXCEPT ![f] = new] BY <3>1, <3>2
    <3>6. \A j \in MarkerKinds : new.block[j] # "none" => new.version # 0 /\ AimedBlock(f, j)
      BY <1>4, <3>1, <3>3
    <3>7. QED BY <1>1, <1>5, <3>3, <3>4, <3>5, <3>6 DEF InjectorTypeOK
  <2>6. QED BY <2>2, <2>3, <2>4, <2>5
<1>7. wrote'[f] = text /\ \A g \in EntryFiles \ {f} : wrote'[g] = wrote[g]
  BY <1>1, <1>6 DEF InjectorTypeOK
<1>8. TextIsKept' /\ BlocksAreAimed' /\ files' \in [EntryFiles -> File]
  BY <1>2, <1>6, <1>7, FileStep
<1>9. InjectorTypeOK'
  <2>1. wrote' \in [EntryFiles -> Text] BY <1>1, <1>6 DEF InjectorTypeOK
  <2>2. QED BY <1>1, <1>2, <1>6, <1>8, <2>1 DEF InjectorTypeOK
<1>10. CopyIsFile' /\ Stripped' /\ AimsAreKnown' /\ ClientsAreAimed'
  BY <1>2 DEF CopyIsFile, Stripped, Quiet, InjectorInv, AimsAreKnown, AimCovers, ClientsAreAimed,
     AimedClient
<1>11. QED BY <1>8, <1>9, <1>10 DEF InjectorInv

LEMMA InjectorNextInv == ASSUME InjectorInv, [InjectorNext]_injectorVars PROVE InjectorInv'
<1>1. CASE UNCHANGED injectorVars
  BY <1>1 DEF injectorVars, InjectorInv, InjectorTypeOK, TextIsKept, CopyIsFile, BlocksAreAimed,
     AimsAreKnown, AimCovers, Stripped, ClientsAreAimed, AimedClient, AimedBlock, Exists
<1>2. CASE InjectorNext
  BY <1>2, PlanInv, ReportInv, WriteClientInv, WriteEntryInv, EntryIsCutInv, WriteManifestInv,
     BeginRemoveInv, StripEntryInv, StripIsCutInv, UnlinkManifestInv, WritesInv DEF InjectorNext
<1>3. QED BY <1>1, <1>2

LEMMA InjectorAlways == InjectorSpec => []InjectorInv
<1>1. InjectorInit => InjectorInv BY InjectorInitInv
<1>2. InjectorInv /\ [InjectorNext]_injectorVars => InjectorInv' BY InjectorNextInv
<1>3. QED BY <1>1, <1>2, PTL DEF InjectorSpec

(* A step that reports REMOVED: where all applies were of one framework and aimed at *)
(* one place, it is the one the manifest names, and that one is stripped.            *)
LEMMA RemovalStep ==
  ASSUME InjectorInv, [InjectorNext]_injectorVars PROVE [RemovalIsTrue]_injectorVars
<1>1. SUFFICES ASSUME InjectorNext, session.step = "unlinking", outcome' \in {"REMOVED", "WARNED"},
                      aim # Several
               PROVE  OnlyDamageIsLeft /\ (outcome' = "REMOVED" => clients' = {})
  BY DEF RemovalIsTrue
<1>2. UnlinkManifest
  <2>1. session # Quiet BY <1>1 DEF Quiet
  <2>2. CASE \E override \in Frameworks \cup {NoFramework} : Plan(override)
    BY <2>1, <2>2 DEF Plan
  <2>3. CASE DryRun \/ WriteClient \/ WriteEntry \/ WriteManifest \/ StripEntry \/ EntryIsCut
             \/ ManifestIsCut
    BY <1>1, <2>3 DEF DryRun, WriteClient, WriteEntry, WriteManifest, StripEntry, EntryIsCut,
       ManifestIsCut
  <2>4. CASE BeginRemove \/ ValidateIntegration \/ ScanArtifact
    BY <2>1, <2>4 DEF BeginRemove, ValidateIntegration, ScanArtifact
  <2>5. CASE CommandStops
    BY <1>1, <2>5 DEF CommandStops, End
  <2>6. CASE \/ \E g \in EntryFiles, odd \in BOOLEAN : DeveloperWrites(g, odd)
             \/ \E g \in EntryFiles : DeveloperRestores(g)
             \/ \E g \in EntryFiles : DeveloperDeletes(g)
             \/ \E g \in EntryFiles : DeveloperBreaksMarker(g)
             \/ DeveloperChangesProject
    BY <2>1, <2>6 DEF DeveloperWrites, DeveloperRestores, DeveloperDeletes, DeveloperBreaksMarker,
       DeveloperChangesProject
  <2>7. CASE \E g \in EntryFiles : StripIsCut(g) BY <1>1, <2>7 DEF StripIsCut
  <2>8. QED BY <1>1, <2>2, <2>3, <2>4, <2>5, <2>6, <2>7 DEF InjectorNext
<1>3. files' = files /\ clients' = clients
      /\ outcome' = IF session.warned THEN "WARNED" ELSE "REMOVED"
  BY <1>2 DEF UnlinkManifest, End
<1>4. manifest.state = "whole" /\ (session.warned \/ manifest.framework \notin clients)
  BY <1>1 DEF InjectorInv, Stripped
<1>5. manifest.framework \in Frameworks /\ aim = AimAt(manifest.framework, manifest.modified)
  BY <1>1, <1>4 DEF InjectorInv, AimsAreKnown, AimCovers
<1>6. aim.framework = manifest.framework /\ aim.target = manifest.modified BY <1>5 DEF AimAt
<1>7. ASSUME NEW f \in EntryFiles \ (torn \cup tampered) PROVE files[f].block = NoBlock
  <2>1. ASSUME NEW k \in MarkerKinds, files[f].block[k] # "none" PROVE FALSE
    <3>1. aim.target = f /\ Marker[aim.framework] = k
      BY <1>1, <2>1 DEF InjectorInv, BlocksAreAimed, AimedBlock
    <3>2. files[f].block[Marker[manifest.framework]] = "none"
      BY <1>1, <1>6, <3>1 DEF InjectorInv, Stripped
    <3>3. QED BY <1>6, <2>1, <3>1, <3>2
  <2>2. files[f].block \in [MarkerKinds -> Blocks] BY DEF InjectorInv, InjectorTypeOK, File
  <2>3. QED BY <2>1, <2>2 DEF NoBlock
<1>8. outcome' = "REMOVED" => clients = {}
  <2>1. SUFFICES ASSUME ~ session.warned, NEW fw \in clients PROVE FALSE
    BY <1>3
  <2>2. fw = manifest.framework
    BY <1>1, <1>6 DEF InjectorInv, ClientsAreAimed, AimedClient
  <2>3. QED BY <1>4, <2>1, <2>2
<1>9. QED BY <1>3, <1>7, <1>8 DEF OnlyDamageIsLeft

(* The files, the manifest and the command have their types (injector.py).          *)
THEOREM InjectorTypes == InjectorSpec => []InjectorTypeOK
<1>1. InjectorInv => InjectorTypeOK BY DEF InjectorInv
<1>2. QED BY InjectorAlways, <1>1, PTL

(* For any entry files, preferences and projects, whatever dies between two writes   *)
(* or inside one: a file of which no write was cut keeps the text the developer      *)
(* wrote last, up to the bytes that lenient decoding drops (inject and remove).      *)
THEOREM TextSurvives == InjectorSpec => []TextIsKept
<1>1. InjectorInv => TextIsKept BY DEF InjectorInv
<1>2. QED BY InjectorAlways, <1>1, PTL

(* For the same: where the applies since the project was clean were of one framework *)
(* and aimed at one place, a remove that reports success has left no block and no    *)
(* marker in an undamaged file, and without a warning no client file (remove).       *)
THEOREM RemovalsClean == InjectorSpec => RemovedMeansClean
<1>1. InjectorInv /\ [InjectorNext]_injectorVars => [RemovalIsTrue]_injectorVars BY RemovalStep
<1>2. QED BY InjectorAlways, <1>1, PTL DEF InjectorSpec, RemovedMeansClean

--------------------------------------------------------------------------------
(* The evidence store.  What is on the disk was written, and the manifest is       *)
(* written after all it lists; before the sealing nothing is.                      *)
OnDisk(a) == \A f \in EvidenceFiles : disk[a][f] # "absent" => f \in written[a]

Sealed(a) ==
  /\ call[a].step \in {"idle", "waiting", "observing"} => written[a] = {}
  /\ call[a].step = "outcome" => "receipt" \in written[a]
  /\ call[a].step = "diff" => {"receipt", "outcome"} \subseteq written[a] /\ "diff" \in listed[a]
  /\ call[a].step \in {"manifest", "checksums"} => listed[a] \subseteq written[a]
  /\ "manifest" \in written[a] => listed[a] \subseteq written[a]

EvidenceInv ==
  /\ EvidenceTypeOK
  /\ \A a \in Attempts : OnDisk(a) /\ Sealed(a)
  /\ LockIsReturned

LEMMA EvidenceInitInv == EvidenceInit => EvidenceInv
<1> SUFFICES ASSUME EvidenceInit PROVE EvidenceInv
  OBVIOUS
<1>1. EvidenceTypeOK
  BY EvidenceStoreAssumption DEF EvidenceInit, EvidenceTypeOK
<1>2. ASSUME NEW a \in Attempts PROVE OnDisk(a) /\ Sealed(a)
  BY DEF EvidenceInit, OnDisk, Sealed
<1>3. QED
  BY <1>1, <1>2 DEF EvidenceInit, EvidenceInv, LockIsReturned

(* A step of one call that writes nothing.                                         *)
LEMMA CallMoves ==
  ASSUME EvidenceInv, NEW a \in Attempts, NEW step,
         step # "idle", step \in {"waiting", "observing"} => call[a].step \in {"idle", "waiting"},
         step \in {"idle"} \cup Running \cup Ended, step \notin EvidenceFiles,
         Go(a, step), UNCHANGED <<disk, listed, crashes, written>>,
         shots' \in [ActionIds -> Attempts \cup {NoOne}],
         holder' \in Collectors \cup {NoOne}, LockIsReturned'
  PROVE  EvidenceInv'
<1>1. /\ call' \in [Attempts -> [step : {"idle"} \cup Running \cup Ended, action : ActionIds]]
      /\ \A b \in Attempts : call'[b].step = IF b = a THEN step ELSE call[b].step
  BY DEF EvidenceInv, EvidenceTypeOK, Go
<1>2. EvidenceTypeOK' BY <1>1 DEF EvidenceInv, EvidenceTypeOK
<1>3. ASSUME NEW b \in Attempts PROVE OnDisk(b)' /\ Sealed(b)'
  <2>1. OnDisk(b) /\ Sealed(b) BY DEF EvidenceInv
  <2>2. CASE b = a
    <3>1. step \notin {"outcome", "diff", "manifest", "checksums"} BY DEF EvidenceFiles, Artifacts
    <3>2. QED BY <1>1, <2>1, <2>2, <3>1 DEF OnDisk, Sealed
  <2>3. CASE b # a
    BY <1>1, <2>1, <2>3 DEF OnDisk, Sealed
  <2>4. QED BY <2>2, <2>3
<1>4. QED BY <1>2, <1>3 DEF EvidenceInv

(* The calls that only move, or fail before the sealing.                           *)
LEMMA CallStepInv ==
  ASSUME EvidenceInv, NEW a \in Attempts,
         \/ a \in Collectors /\ (Collect(a) \/ Acquire(a) \/ CollectFailed(a) \/ CancelCollect(a))
         \/ a \in Executions /\ CaptureScreenshot(a)
  PROVE  EvidenceInv'
<1>1. /\ shots \in [ActionIds -> Attempts \cup {NoOne}] /\ holder \in Collectors \cup {NoOne}
      /\ call \in [Attempts -> [step : {"idle"} \cup Running \cup Ended, action : ActionIds]]
      /\ LockIsReturned /\ Collectors \subseteq Attempts
  BY DEF EvidenceInv, EvidenceTypeOK, Attempts
<1>2. ASSUME NEW step, Go(a, step), step \in {"idle"} \cup Running \cup Ended
      PROVE  \A b \in Attempts : call'[b].step = IF b = a THEN step ELSE call[b].step
  BY <1>1, <1>2 DEF Go
<1>3. CASE a \in Collectors /\ Collect(a)
  <2>1. Go(a, "waiting") /\ call[a].step = "idle" /\ holder' = holder BY <1>3 DEF Collect, At
  <2>2. LockIsReturned'
    <3>1. \A b \in Attempts : call'[b].step = IF b = a THEN "waiting" ELSE call[b].step
      BY <1>2, <2>1 DEF Running
    <3>2. QED BY <1>1, <2>1, <3>1 DEF LockIsReturned, Running
  <2>3. QED BY <1>1, <1>3, <2>1, <2>2, CallMoves DEF Collect, Running, EvidenceFiles, Artifacts
<1>4. CASE a \in Collectors /\ Acquire(a)
  <2>1. Go(a, "observing") /\ call[a].step = "waiting" /\ holder' = a BY <1>4 DEF Acquire, At
  <2>2. LockIsReturned'
    <3>1. call'[a].step = "observing" BY <1>2, <2>1 DEF Running
    <3>2. QED BY <2>1, <3>1 DEF LockIsReturned, Running
  <2>3. QED BY <1>1, <1>4, <2>1, <2>2, CallMoves DEF Acquire, Running, EvidenceFiles, Artifacts
<1>5. CASE a \in Collectors /\ CollectFailed(a)
  <2>1. Go(a, "refused") /\ holder' = NoOne BY <1>5 DEF CollectFailed
  <2>2. LockIsReturned' BY <2>1 DEF LockIsReturned
  <2>3. QED BY <1>1, <1>5, <2>1, <2>2, CallMoves DEF CollectFailed, Ended, EvidenceFiles, Artifacts
<1>6. CASE a \in Collectors /\ CancelCollect(a)
  <2>1. Go(a, "cancelled") /\ holder' = holder BY <1>6 DEF CancelCollect
  <2>2. LockIsReturned'
    <3>1. \A b \in Attempts : call'[b].step = IF b = a THEN "cancelled" ELSE call[b].step
      BY <1>2, <2>1 DEF Ended
    <3>2. QED BY <1>1, <2>1, <3>1 DEF LockIsReturned
  <2>3. QED BY <1>1, <1>6, <2>1, <2>2, CallMoves DEF CancelCollect, Ended, EvidenceFiles, Artifacts
<1>7. CASE a \in Executions /\ CaptureScreenshot(a)
  <2>1. Go(a, "observing") /\ call[a].step = "idle" /\ holder' = holder
    BY <1>7 DEF CaptureScreenshot, At
  <2>2. LockIsReturned'
    <3>1. \A b \in Attempts : call'[b].step = IF b = a THEN "observing" ELSE call[b].step
      BY <1>2, <2>1 DEF Running
    <3>2. QED BY <1>1, <2>1, <3>1 DEF LockIsReturned, Running
  <2>3. shots' \in [ActionIds -> Attempts \cup {NoOne}] BY <1>1, <1>7 DEF CaptureScreenshot
  <2>4. QED BY <1>1, <1>7, <2>1, <2>2, <2>3, CallMoves
               DEF CaptureScreenshot, Running, EvidenceFiles, Artifacts
<1>8. QED BY <1>3, <1>4, <1>5, <1>6, <1>7

LEMMA EvaluateInv ==
  ASSUME EvidenceInv, NEW a \in Attempts, EvaluateTransaction(a)
  PROVE  EvidenceInv'
<1>1. PICK diff : /\ listed' = [listed EXCEPT ![a] = Artifacts \ (IF diff THEN {} ELSE {"diff"})]
                  /\ Go(a, "receipt")
  BY DEF EvaluateTransaction, Following
<1>2. /\ At(a, "observing") /\ UNCHANGED <<disk, shots, holder, crashes, written>>
      /\ EvidenceTypeOK
  BY DEF EvaluateTransaction, EvidenceInv
<1>3. \A b \in Attempts : call'[b].step = IF b = a THEN "receipt" ELSE call[b].step
  BY <1>1, <1>2 DEF EvidenceTypeOK, Go
<1>4. EvidenceTypeOK'
  BY <1>1, <1>2 DEF EvidenceTypeOK, Go, Running, Artifacts
<1>5. ASSUME NEW b \in Attempts PROVE OnDisk(b)' /\ Sealed(b)'
  <2>1. OnDisk(b) /\ Sealed(b) /\ (b = a => written[b] = {})
    BY <1>2 DEF EvidenceInv, Sealed, At
  <2>2. CASE b = a BY <1>2, <1>3, <2>1, <2>2 DEF OnDisk, Sealed
  <2>3. CASE b # a
    <3>1. listed'[b] = listed[b] BY <1>1, <1>2, <2>3 DEF EvidenceTypeOK
    <3>2. QED BY <1>2, <1>3, <2>1, <2>3, <3>1 DEF OnDisk, Sealed
  <2>4. QED BY <2>2, <2>3
<1>6. LockIsReturned'
  BY <1>2, <1>3 DEF EvidenceInv, LockIsReturned, Running, EvidenceTypeOK, Attempts
<1>7. QED BY <1>4, <1>5, <1>6 DEF EvidenceInv

(* A file is stored, and the writing goes on with the next one.                    *)
LEMMA StoreFileInv ==
  ASSUME EvidenceInv, NEW a \in Attempts, StoreFile(a)
  PROVE  EvidenceInv'
<1>1. PICK file \in EvidenceFiles : file = call[a].step
  BY DEF StoreFile
<1>2. PICK next : next = Following(file, "diff" \in listed[a])
  OBVIOUS
<1>3. /\ disk' = [disk EXCEPT ![a][file] = "whole"]
      /\ written' = [written EXCEPT ![a] = @ \cup {file}]
      /\ Go(a, next) /\ holder' = (IF file = "checksums" /\ holder = a THEN NoOne ELSE holder)
      /\ UNCHANGED <<listed, shots, crashes>> /\ EvidenceTypeOK
  BY <1>1, <1>2 DEF StoreFile, At, EvidenceInv
<1>4. /\ file = "receipt" => next = "outcome"
      /\ file = "outcome" => next = IF "diff" \in listed[a] THEN "diff" ELSE "manifest"
      /\ file = "diff" => next = "manifest"
      /\ file = "manifest" => next = "checksums"
      /\ file = "checksums" => next = "answered"
      /\ file # "checksums" => next \in Running \ {"waiting"}
  BY <1>2 DEF Following, EvidenceFiles, Artifacts, Running
<1>5. next \in Running \cup Ended BY <1>4 DEF Ended
<1>6. \A b \in Attempts : call'[b].step = IF b = a THEN next ELSE call[b].step
  BY <1>3, <1>5 DEF EvidenceTypeOK, Go
<1>7. EvidenceTypeOK'
  <2>1. disk' \in [Attempts -> [EvidenceFiles -> {"absent", "whole", "damaged"}]]
    BY <1>3 DEF EvidenceTypeOK
  <2>2. call' \in [Attempts -> [step : {"idle"} \cup Running \cup Ended, action : ActionIds]]
    BY <1>3, <1>5 DEF EvidenceTypeOK, Go
  <2>3. QED BY <1>3, <2>1, <2>2 DEF EvidenceTypeOK
<1>8. ASSUME NEW b \in Attempts PROVE OnDisk(b)' /\ Sealed(b)'
  <2>1. OnDisk(b) /\ Sealed(b) BY DEF EvidenceInv
  <2>2. CASE b # a
    BY <1>3, <1>6, <2>1, <2>2 DEF OnDisk, Sealed, EvidenceTypeOK
  <2>3. CASE b = a
    <3>1. written'[a] = written[a] \cup {file} /\ listed'[a] = listed[a]
      BY <1>3 DEF EvidenceTypeOK
    <3>2. OnDisk(a)'
      <4>1. \A f \in EvidenceFiles : disk'[a][f] = IF f = file THEN "whole" ELSE disk[a][f]
        BY <1>3 DEF EvidenceTypeOK
      <4>2. QED BY <2>1, <2>3, <3>1, <4>1 DEF OnDisk
    <3>3. listed[a] \subseteq Artifacts BY <1>3 DEF EvidenceTypeOK
    <3>4. Sealed(a)'
      BY <1>1, <1>4, <1>6, <2>1, <2>3, <3>1, <3>3
         DEF Sealed, EvidenceFiles, Artifacts, Running
    <3>5. QED BY <2>3, <3>2, <3>4
  <2>4. QED BY <2>2, <2>3
<1>9. LockIsReturned'
  <2>1. SUFFICES ASSUME holder' # NoOne
                 PROVE  call'[holder'].step \in (Running \ {"waiting"}) \cup {"cancelled"}
    BY DEF LockIsReturned
  <2>2. holder' = holder /\ holder \in Attempts /\ (file = "checksums" => holder # a)
    BY <1>3, <2>1 DEF EvidenceTypeOK, Attempts
  <2>3. QED BY <1>4, <1>6, <2>1, <2>2 DEF EvidenceInv, LockIsReturned
<1>10. QED BY <1>7, <1>8, <1>9 DEF EvidenceInv

LEMMA StoreFailedInv ==
  ASSUME EvidenceInv, NEW a \in Attempts, StoreFailed(a)
  PROVE  EvidenceInv'
<1>1. PICK step \in {"answered", "refused"} : Go(a, step)
  BY DEF StoreFailed
<1>2. /\ holder' = (IF holder = a THEN NoOne ELSE holder) /\ EvidenceTypeOK
      /\ UNCHANGED <<disk, listed, shots, crashes, written>>
  BY DEF StoreFailed, EvidenceInv
<1>3. LockIsReturned'
  <2>1. \A b \in Attempts : call'[b].step = IF b = a THEN step ELSE call[b].step
    BY <1>1, <1>2 DEF EvidenceTypeOK, Go
  <2>2. QED BY <1>2, <2>1 DEF EvidenceInv, LockIsReturned, EvidenceTypeOK, Attempts
<1>4. /\ shots' \in [ActionIds -> Attempts \cup {NoOne}] /\ holder' \in Collectors \cup {NoOne}
  BY <1>2 DEF EvidenceTypeOK
<1>5. step \in Ended /\ step \notin EvidenceFiles BY DEF Ended, EvidenceFiles, Artifacts
<1>6. QED BY <1>1, <1>2, <1>3, <1>4, <1>5, CallMoves

LEMMA EvidenceNextInv == ASSUME EvidenceInv, [EvidenceNext]_evidenceVars PROVE EvidenceInv'
<1>1. CASE Crash
  <2>1. EvidenceTypeOK /\ UNCHANGED <<disk, listed, shots, written>> /\ holder' = NoOne
    BY <1>1 DEF EvidenceInv, Crash
  <2>2. \A b \in Attempts :
          /\ call'[b] \in [step : {"idle"} \cup Running \cup Ended, action : ActionIds]
          /\ call'[b].step = IF call[b].step \in Running THEN "died" ELSE call[b].step
    BY <1>1, <2>1 DEF EvidenceTypeOK, Crash, Ended
  <2>3. EvidenceTypeOK'
    BY <1>1, <2>1, <2>2, EvidenceStoreAssumption DEF EvidenceTypeOK, Crash
  <2>4. ASSUME NEW b \in Attempts PROVE OnDisk(b)' /\ Sealed(b)'
    <3>1. OnDisk(b) /\ Sealed(b) BY DEF EvidenceInv
    <3>2. QED BY <2>1, <2>2, <3>1 DEF OnDisk, Sealed, Running
  <2>5. QED BY <2>1, <2>3, <2>4 DEF EvidenceInv, LockIsReturned
<1>2. ASSUME NEW a \in Attempts, NEW f \in EvidenceFiles, DamageFile(a, f) PROVE EvidenceInv'
  <2>1. PICK state \in {"absent", "damaged"} : disk' = [disk EXCEPT ![a][f] = state]
    BY <1>2 DEF DamageFile
  <2>2. /\ UNCHANGED <<listed, shots, call, holder, crashes, written>> /\ disk[a][f] = "whole"
        /\ EvidenceTypeOK
    BY <1>2 DEF DamageFile, EvidenceInv
  <2>3. EvidenceTypeOK' BY <2>1, <2>2 DEF EvidenceTypeOK
  <2>4. ASSUME NEW b \in Attempts PROVE OnDisk(b)' /\ Sealed(b)'
    <3>1. OnDisk(b) /\ Sealed(b) /\ OnDisk(a) BY DEF EvidenceInv
    <3>2. \A g \in EvidenceFiles : disk'[b][g] = IF b = a /\ g = f THEN state ELSE disk[b][g]
      BY <2>1, <2>2 DEF EvidenceTypeOK
    <3>3. OnDisk(b)' BY <2>2, <3>1, <3>2 DEF OnDisk
    <3>4. Sealed(b)' BY <2>2, <3>1 DEF Sealed
    <3>5. QED BY <3>3, <3>4
  <2>5. QED BY <2>2, <2>3, <2>4 DEF EvidenceInv, LockIsReturned
<1>3. CASE UNCHANGED evidenceVars
  BY <1>3 DEF EvidenceInv, EvidenceTypeOK, OnDisk, Sealed, LockIsReturned, evidenceVars
<1>4. QED
  BY <1>1, <1>2, <1>3, CallStepInv, EvaluateInv, StoreFileInv, StoreFailedInv
     DEF EvidenceNext, Attempts

LEMMA EvidenceAlways == EvidenceSpec => []EvidenceInv
  BY EvidenceInitInv, EvidenceNextInv, PTL DEF EvidenceSpec

(* The files, the calls and the lock have their types (evidence_store.py).         *)
THEOREM EvidenceTypes == EvidenceSpec => []EvidenceTypeOK
<1>1. EvidenceInv => EvidenceTypeOK BY DEF EvidenceInv
<1>2. QED BY EvidenceAlways, <1>1, PTL

(* However often the process dies between two files, whatever the disk refuses and *)
(* whoever waits: a manifest that does not verify had a stored file taken away or  *)
(* changed (verify_manifest_integrity).                                            *)
THEOREM FailureMeansTampering == EvidenceSpec => []FailedMeansTampered
<1>1. EvidenceInv => FailedMeansTampered
  <2> SUFFICES ASSUME EvidenceInv, NEW a \in Attempts, AuditPath(a) = "FAILED"
               PROVE  \E f \in EvidenceFiles : <<a, f>> \in Damaged
    BY DEF FailedMeansTampered
  <2>1. /\ disk[a]["manifest"] # "absent" /\ ~Valid(a) /\ OnDisk(a) /\ Sealed(a)
        /\ listed[a] \subseteq EvidenceFiles
    BY DEF AuditPath, EvidenceInv, EvidenceTypeOK, EvidenceFiles
  <2>2. "manifest" \in EvidenceFiles /\ "checksums" \in EvidenceFiles BY DEF EvidenceFiles
  <2>3. listed[a] \subseteq written[a] BY <2>1, <2>2 DEF OnDisk, Sealed
  <2>4. \E f \in EvidenceFiles : f \in written[a] /\ disk[a][f] # "whole"
    BY <2>1, <2>2, <2>3 DEF Valid, OnDisk
  <2>5. QED BY <2>4 DEF Damaged
<1>2. QED BY EvidenceAlways, <1>1, PTL

(* The session's evidence lock is held by a call under way or by one cancelled     *)
(* with it, in whatever way the calls fail (desktop_collect_evidence).             *)
THEOREM LockComesBack == EvidenceSpec => []LockIsReturned
<1>1. EvidenceInv => LockIsReturned BY DEF EvidenceInv
<1>2. QED BY EvidenceAlways, <1>1, PTL

--------------------------------------------------------------------------------
(* The experience store.  A row is of a session the file knows, and is there once; *)
(* an outcome is one of the two verdicts the reports count.                        *)
RowOK(r) ==
  /\ r = Row(r.table, r.key, r.session, r.label)
  /\ r.table = "projects" => r.session = Nothing /\ r.label = Nothing
  /\ r.table = "sessions" => r.session = Nothing /\ r.key \in StoreSessions
  /\ r.table \notin {"projects", "sessions"} => r.session \in StoreSessions
  /\ r.table = "outcomes" => r.label \in {"PASS", "UNVERIFIED"}

Linked(rows) ==
  /\ IsFiniteSet(rows)
  /\ \A r \in rows : RowOK(r) /\ (r.session # Nothing => Known(rows, r.session))
  /\ \A r, q \in rows : SameRow(r, q) => r = q

(* A snapshot in use is the file, and a writer's rows are the file's and more.     *)
Covers(rows, q) == \E r \in rows : SameRow(r, q)

Snapshot(p) ==
  /\ (writer = p) <=> (txn[p] = "writing")
  /\ txn[p] = "reading" => view[p] = db
  /\ txn[p] = "writing" => \A q \in db : Covers(view[p], q)
  /\ life[p] \notin Usable => txn[p] = "none"
  /\ Linked(view[p])

StoreInv ==
  /\ StoreTypeOK
  /\ view = [p \in Stores |-> view[p]]
  /\ Linked(db)
  /\ \A p \in Stores : Snapshot(p)
  /\ AnsweredIsCommitted

LEMMA NoRowsLinked == Linked({})
  BY FS_EmptySet DEF Linked

LEMMA StoreInitInv == StoreInit => StoreInv
<1> SUFFICES ASSUME StoreInit PROVE StoreInv
  OBVIOUS
<1>1. StoreTypeOK
  BY StoreAssumption DEF StoreInit, StoreTypeOK, CURRENT_SCHEMA_VERSION, Usable
<1>2. \A p \in Stores : Snapshot(p)
  BY NoRowsLinked, StoreAssumption DEF StoreInit, Snapshot
<1>3. QED BY <1>1, <1>2, NoRowsLinked DEF StoreInit, StoreInv, AnsweredIsCommitted

LEMMA UpsertLinked ==
  ASSUME NEW rows, Linked(rows), NEW r, RowOK(r),
         r.session # Nothing => Known(rows, r.session)
  PROVE  Linked(Upserted(rows, r)) /\ \A q \in rows : Covers(Upserted(rows, r), q)
<1>1. \A q \in Upserted(rows, r) : q = r \/ (q \in rows /\ ~SameRow(q, r))
  BY DEF Upserted
<1>2. r \in Upserted(rows, r) /\ \A q \in rows : q \in Upserted(rows, r) \/ SameRow(q, r)
  BY DEF Upserted
<1>3. \A q \in rows : Covers(Upserted(rows, r), q)
  BY <1>2 DEF Covers, SameRow
<1>4. ASSUME NEW s, Known(rows, s) PROVE Known(Upserted(rows, r), s)
  <2>1. PICK q \in rows : q.table = "sessions" /\ q.key = s BY <1>4 DEF Known, Of
  <2>2. QED BY <1>2, <2>1 DEF Known, Of, SameRow
<1>5. \A q \in Upserted(rows, r) : RowOK(q) /\ (q.session # Nothing => Known(Upserted(rows, r), q.session))
  BY <1>1, <1>4 DEF Linked
<1>6. ASSUME NEW q \in Upserted(rows, r), NEW t \in Upserted(rows, r), SameRow(q, t)
      PROVE  q = t
  BY <1>1, <1>6 DEF Linked, SameRow
<1>7. IsFiniteSet(Upserted(rows, r))
  <2>1. IsFiniteSet(rows \cup {r}) BY FS_AddElement DEF Linked
  <2>2. Upserted(rows, r) \in SUBSET (rows \cup {r}) BY <1>1
  <2>3. QED BY <2>1, <2>2, FS_Subset
<1>8. QED BY <1>3, <1>5, <1>6, <1>7 DEF Linked

LEMMA ProjectLinked ==
  ASSUME NEW rows, Linked(rows), NEW project
  PROVE  Linked(rows \cup {Row("projects", project, Nothing, Nothing)})
<1>1. PICK t : t = Row("projects", project, Nothing, Nothing) OBVIOUS
<1>2. t.table = "projects" /\ t.key = project /\ t.session = Nothing /\ t.label = Nothing
  BY <1>1 DEF Row
<1>3. RowOK(t) BY <1>1, <1>2 DEF RowOK
<1>4. ASSUME NEW s, Known(rows, s) PROVE Known(rows \cup {t}, s) BY <1>4 DEF Known, Of
<1>5. ASSUME NEW q \in rows, SameRow(q, t) PROVE q = t
  <2>1. RowOK(q) BY DEF Linked
  <2>2. QED BY <1>1, <1>2, <1>5, <2>1 DEF RowOK, SameRow
<1>6. IsFiniteSet(rows \cup {t}) BY FS_AddElement DEF Linked
<1>7. QED BY <1>1, <1>2, <1>3, <1>4, <1>5, <1>6 DEF Linked, SameRow

LEMMA SeenRows ==
  ASSUME StoreInv, NEW p \in Stores
  PROVE  /\ Linked(Visible(p))
         /\ MayWrite(p) => \A q \in db : Covers(Visible(p), q)
<1>1. Snapshot(p) /\ Linked(db) /\ writer \in Stores \cup {NoStore} /\ NoStore \notin Stores
      /\ txn[p] \in {"none", "begun", "reading", "stale", "writing"}
  BY StoreAssumption DEF StoreInv, StoreTypeOK
<1>2. \A q \in db : Covers(db, q) BY DEF Covers, SameRow
<1>3. QED BY <1>1, <1>2 DEF Visible, MayWrite, Snapshot

(* A store that writes takes no other's write lock.                                *)
LEMMA OnlyWriter ==
  ASSUME StoreInv, NEW p \in Stores, MayWrite(p), NEW q \in Stores, q # p
  PROVE  txn[q] # "writing" /\ writer # q
  BY StoreAssumption DEF StoreInv, MayWrite, Snapshot

LEMMA RefusedInv ==
  ASSUME StoreInv, NEW p \in Stores, NEW reads, Refused(p, reads), life[p] \in Usable,
         UNCHANGED <<schema, life, pending>>
  PROVE  StoreInv'
<1>1. /\ ~MayWrite(p) /\ UNCHANGED <<db, writer, told>> /\ Snapshot(p) /\ StoreTypeOK
      /\ writer # p
  BY DEF Refused, StoreInv, MayWrite
<1>2. \E t, v :
        /\ t \in {"none", "begun", "reading", "stale"} /\ txn' = [txn EXCEPT ![p] = t]
        /\ view' = [view EXCEPT ![p] = v] /\ (t = "reading" => v = db) /\ Linked(v)
  <2>1. CASE view' = [view EXCEPT ![p] = db] /\ txn' = [txn EXCEPT ![p] = "reading"]
    BY <2>1 DEF StoreInv
  <2>2. CASE /\ UNCHANGED view
             /\ txn' = [txn EXCEPT ![p] = IF txn[p] = "none" THEN "begun" ELSE txn[p]]
    <3>1. view' = [view EXCEPT ![p] = view[p]] BY <2>2 DEF StoreInv
    <3>2. PICK t : t = IF txn[p] = "none" THEN "begun" ELSE txn[p] OBVIOUS
    <3>3. /\ t \in {"none", "begun", "reading", "stale"}
          /\ t = "reading" => txn[p] = "reading"
      BY <1>1, <3>2 DEF StoreTypeOK, Snapshot
    <3>4. QED BY <1>1, <2>2, <3>1, <3>2, <3>3 DEF Snapshot
  <2>3. QED BY <2>1, <2>2 DEF Refused
<1>3. PICK t, v :
        /\ t \in {"none", "begun", "reading", "stale"} /\ txn' = [txn EXCEPT ![p] = t]
        /\ view' = [view EXCEPT ![p] = v] /\ (t = "reading" => v = db) /\ Linked(v)
  BY <1>2
<1>4. ASSUME NEW q \in Stores PROVE Snapshot(q)'
  <2>1. Snapshot(q) /\ txn'[q] = (IF q = p THEN t ELSE txn[q]) /\ view'[q] = (IF q = p THEN v ELSE view[q])
    BY <1>1, <1>3 DEF StoreInv, StoreTypeOK
  <2>2. QED BY <1>1, <1>3, <2>1 DEF Snapshot
<1>5. StoreTypeOK' BY <1>1, <1>3 DEF StoreTypeOK
<1>6. view' = [q \in Stores |-> view'[q]] BY <1>3 DEF StoreInv
<1>7. QED BY <1>1, <1>4, <1>5, <1>6 DEF StoreInv, AnsweredIsCommitted

LEMMA LeftOpenInv ==
  ASSUME StoreInv, NEW p \in Stores, NEW rows, LeftOpen(p, rows), Linked(rows), life[p] \in Usable,
         \A q \in db : Covers(rows, q), UNCHANGED <<schema, life, pending>>
  PROVE  StoreInv'
<1>1. /\ MayWrite(p) /\ UNCHANGED <<db, told>> /\ StoreTypeOK /\ writer' = p
      /\ txn' = [txn EXCEPT ![p] = "writing"] /\ view' = [view EXCEPT ![p] = rows]
  BY DEF LeftOpen, StoreInv
<1>2. ASSUME NEW q \in Stores PROVE Snapshot(q)'
  <2>1. /\ Snapshot(q) /\ txn'[q] = (IF q = p THEN "writing" ELSE txn[q])
        /\ view'[q] = (IF q = p THEN rows ELSE view[q])
    BY <1>1 DEF StoreInv, StoreTypeOK
  <2>2. q # p => txn[q] # "writing" BY <1>1, OnlyWriter
  <2>3. QED BY <1>1, <2>1, <2>2 DEF Snapshot
<1>3. StoreTypeOK' BY <1>1 DEF StoreTypeOK
<1>4. view' = [q \in Stores |-> view'[q]] BY <1>1 DEF StoreInv
<1>5. QED BY <1>1, <1>2, <1>3, <1>4 DEF StoreInv, AnsweredIsCommitted

LEMMA CommitInv ==
  ASSUME StoreInv, NEW p \in Stores, NEW rows, NEW r, Commit(p, rows, r), Linked(rows), life[p] \in Usable,
         \A q \in db : Covers(rows, q), Covers(rows, r), RowOK(r),
         UNCHANGED <<schema, life, pending>>
  PROVE  StoreInv'
<1>1. /\ MayWrite(p) /\ db' = rows /\ told' = told \cup {<<r.table, r.key>>} /\ StoreTypeOK
      /\ writer' = NoStore /\ txn' = [Overtaken EXCEPT ![p] = "none"]
      /\ view' = [view EXCEPT ![p] = {}]
  BY DEF Commit, StoreInv
<1>2. ASSUME NEW q \in Stores PROVE Snapshot(q)' /\ txn'[q] \in {"none", "begun", "stale"}
  <2>1. /\ Snapshot(q) /\ view'[q] = (IF q = p THEN {} ELSE view[q])
        /\ txn'[q] = (IF q = p THEN "none" ELSE IF txn[q] = "reading" THEN "stale" ELSE txn[q])
    BY <1>1 DEF StoreInv, Overtaken
  <2>2. q # p => txn[q] # "writing" BY <1>1, OnlyWriter
  <2>3. txn[q] \in {"none", "begun", "reading", "stale", "writing"} BY <1>1 DEF StoreTypeOK
  <2>4. txn'[q] \in {"none", "begun", "stale"} BY <2>1, <2>2, <2>3
  <2>5. QED BY <1>1, <2>1, <2>4, NoRowsLinked, StoreAssumption DEF Snapshot
<1>3. StoreTypeOK'
  <2>1. txn' \in [Stores -> {"none", "begun", "reading", "stale", "writing"}]
    BY <1>1, <1>2 DEF Overtaken
  <2>2. QED BY <1>1, <2>1 DEF StoreTypeOK
<1>4. view' = [q \in Stores |-> view'[q]] BY <1>1 DEF StoreInv
<1>5. AnsweredIsCommitted'
  <2>1. ASSUME NEW t \in told PROVE \E q \in rows : <<q.table, q.key>> = t
    <3>1. PICK q \in db : <<q.table, q.key>> = t BY DEF StoreInv, AnsweredIsCommitted
    <3>2. Covers(rows, q) OBVIOUS
    <3>3. QED BY <3>1, <3>2 DEF Covers, SameRow
  <2>2. \E q \in rows : <<q.table, q.key>> = <<r.table, r.key>> BY DEF Covers, SameRow
  <2>3. QED BY <1>1, <2>1, <2>2 DEF AnsweredIsCommitted
<1>6. QED BY <1>1, <1>2, <1>3, <1>4, <1>5 DEF StoreInv

LEMMA RecordRowInv ==
  ASSUME StoreInv, NEW p \in Stores, NEW project, NEW r, RowOK(r), NEW upsert, NEW reads,
         RecordRow(p, project, r, upsert, reads)
  PROVE  StoreInv'
<1>1. PICK based : based = IF project = Nothing THEN Visible(p)
                           ELSE Visible(p) \cup {Row("projects", project, Nothing, Nothing)}
  OBVIOUS
<1>2. UNCHANGED <<schema, life, pending>> /\ life[p] \in Usable BY DEF RecordRow
<1>3. \/ Refused(p, reads)
      \/ LeftOpen(p, based)
      \/ ~Broken(based, r, upsert) /\ Commit(p, Upserted(based, r), r)
  BY <1>1 DEF RecordRow
<1>4. Linked(based) BY <1>1, SeenRows, ProjectLinked
<1>5. MayWrite(p) => \A q \in db : Covers(based, q) BY <1>1, SeenRows DEF Covers
<1>6. CASE Refused(p, reads) BY <1>2, <1>6, RefusedInv
<1>7. CASE LeftOpen(p, based)
  <2>1. MayWrite(p) BY <1>7 DEF LeftOpen
  <2>2. QED BY <1>2, <1>4, <1>5, <1>7, <2>1, LeftOpenInv
<1>8. CASE ~Broken(based, r, upsert) /\ Commit(p, Upserted(based, r), r)
  <2>1. MayWrite(p) BY <1>8 DEF Commit
  <2>2. r.session # Nothing => Known(based, r.session) BY <1>8 DEF Broken
  <2>3. PICK rows : rows = Upserted(based, r) OBVIOUS
  <2>4. Linked(rows) /\ \A q \in based : Covers(rows, q) BY <1>4, <2>2, <2>3, UpsertLinked
  <2>5. \A q \in db : Covers(rows, q) BY <1>5, <2>1, <2>4 DEF Covers, SameRow
  <2>6. Covers(rows, r) BY <2>3 DEF Covers, Upserted, SameRow
  <2>7. QED BY <1>2, <1>8, <2>3, <2>4, <2>5, <2>6, CommitInv
<1>9. QED BY <1>3, <1>6, <1>7, <1>8

(* Whatever the runtime tells the store is a row of a session; the outcomes, the   *)
(* failures and the recoveries are only inserted.                                  *)
Recorded(p, r, upsert, reads) ==
  /\ RowOK(r) /\ (upsert \/ r.table \in Promise!Kept) /\ (r.table \in Promise!Kept => ~upsert)
  /\ \E project : RecordRow(p, project, r, upsert, reads)

LEMMA TellRecords ==
  ASSUME NEW p \in Stores, NEW s \in StoreSessions, Tell(p, s)
  PROVE  \E r, upsert, reads : Recorded(p, r, upsert, reads)
<1>0. Promise!Kept = {"outcomes", "failures", "recoveries"} BY DEF Promise!Kept
<1>1. ASSUME NEW project, NEW status, NEW reads, RecordSession(p, project, s, status, reads)
      PROVE  \E r, upsert, read : Recorded(p, r, upsert, read)
  <2>1. PICK r : r = Row("sessions", s, Nothing, status) OBVIOUS
  <2>2. RowOK(r) /\ r.table \notin Promise!Kept BY <1>0, <2>1 DEF Row, RowOK
  <2>3. RecordRow(p, project, r, TRUE, reads) BY <1>1, <2>1, Zenon DEF RecordSession
  <2>4. QED BY <2>2, <2>3, Zenon DEF Recorded
<1>2. ASSUME NEW table \in {"missions", "action_references", "trace_references",
                            "evidence_references"},
             NEW key, NEW label, Upsert(p, Nothing, Row(table, key, s, label))
      PROVE  \E r, upsert, read : Recorded(p, r, upsert, read)
  <2>1. PICK r : r = Row(table, key, s, label) OBVIOUS
  <2>2. RowOK(r) /\ r.table \notin Promise!Kept BY <1>0, <2>1 DEF Row, RowOK
  <2>3. RecordRow(p, Nothing, r, TRUE, FALSE) BY <1>2, <2>1, Zenon DEF Upsert
  <2>4. QED BY <2>2, <2>3, Zenon DEF Recorded
<1>3. ASSUME NEW table \in {"outcomes", "failures", "recoveries"}, NEW key, NEW label,
             table = "outcomes" => label \in {"PASS", "UNVERIFIED"},
             Insert(p, Row(table, key, s, label))
      PROVE  \E r, upsert, read : Recorded(p, r, upsert, read)
  <2>1. PICK r : r = Row(table, key, s, label) OBVIOUS
  <2>2. RowOK(r) /\ r.table \in Promise!Kept BY <1>0, <1>3, <2>1 DEF Row, RowOK
  <2>3. RecordRow(p, Nothing, r, FALSE, FALSE) BY <1>3, <2>1, Zenon DEF Insert
  <2>4. QED BY <2>2, <2>3, Zenon DEF Recorded
<1>4. ASSUME OnSessionCreated(p, s) \/ OnSessionUpdated(p, s) \/ OnSessionClosed(p, s)
      PROVE  \E r, upsert, read : Recorded(p, r, upsert, read)
  <2>1. \E project, status, reads : RecordSession(p, project, s, status, reads)
    BY <1>4, Zenon DEF OnSessionCreated, OnSessionUpdated, OnSessionClosed
  <2>2. QED BY <1>1, <2>1, Zenon
<1>5. ASSUME OnMissionAdmitted(p, s) \/ OnMissionCompleted(p, s) \/ OnTraceEvent(p, s)
      PROVE  \E r, upsert, read : Recorded(p, r, upsert, read)
  <2>1. \E table \in {"missions", "action_references", "trace_references",
                      "evidence_references"} : \E key, label :
          Upsert(p, Nothing, Row(table, key, s, label))
    BY <1>5, Zenon DEF OnMissionAdmitted, OnMissionCompleted, OnTraceEvent, RecordMission,
       RecordTraceReference
  <2>2. QED BY <1>2, <2>1, Zenon
<1>6. ASSUME NEW a,
             \/ OnActionRequested(p, s, a) \/ OnActionDispatched(p, s, a) \/ OnActionSettled(p, s, a)
             \/ OnEvidenceCreated(p, s, a)
      PROVE  \E r, upsert, read : Recorded(p, r, upsert, read)
  <2>1. \E table \in {"missions", "action_references", "trace_references",
                      "evidence_references"} : \E key, label :
          Upsert(p, Nothing, Row(table, key, s, label))
    BY <1>6, Zenon DEF OnActionRequested, OnActionDispatched, OnActionSettled, OnEvidenceCreated,
       RecordActionReference, RecordEvidenceReference
  <2>2. QED BY <1>2, <2>1, Zenon
<1>7. ASSUME NEW a, OnVerificationCompleted(p, s, a)
      PROVE  \E r, upsert, read : Recorded(p, r, upsert, read)
  <2>1. PICK verdict \in {"PASS", "UNVERIFIED"} : Insert(p, Row("outcomes", a, s, verdict))
    BY <1>7, Zenon DEF OnVerificationCompleted, RecordOutcome
  <2>2. QED BY <1>3, <2>1
<1>8. ASSUME NEW a, OnFailureDiagnosed(p, s, a) \/ OnRecoveryCompleted(p, s, a)
      PROVE  \E r, upsert, read : Recorded(p, r, upsert, read)
  <2>1. \E table \in {"failures", "recoveries"} : \E key, label : Insert(p, Row(table, key, s, label))
    BY <1>8, Zenon DEF OnFailureDiagnosed, OnRecoveryCompleted, RecordFailure, RecordRecoveryAttempt
  <2>2. QED BY <1>3, <2>1
<1>9. QED
  BY <1>4, <1>5, <1>6, <1>7, <1>8, Zenon DEF Tell

(* Opening, closing, querying and dying touch no row and lose no snapshot.         *)
LEMMA OpeningInv ==
  ASSUME StoreInv, NEW p \in Stores,
         \/ OpenConnection(p)
         \/ MigrationStatements(p)
         \/ RecordVersion(p)
         \/ RecordInstallation(p)
  PROVE  StoreInv'
<1>1. /\ UNCHANGED <<db, writer, view, told>> /\ StoreTypeOK
      /\ \A q \in Stores : q # p => life'[q] = life[q]
      /\ life[p] \notin Usable
      /\ \/ txn' = txn
         \/ txn' = [txn EXCEPT ![p] = "begun"] /\ life'[p] \in Usable
         \/ txn' = Overtaken
      /\ schema' \in [version : 0 .. CURRENT_SCHEMA_VERSION, altered : BOOLEAN]
      /\ life' \in [Stores -> {"closed", "migrating", "migrated", "installing"} \cup Usable]
      /\ pending' \in [Stores -> 1 .. CURRENT_SCHEMA_VERSION]
  <2>1. StoreTypeOK BY DEF StoreInv
  <2>2. CASE OpenConnection(p)
    BY <2>1, <2>2 DEF OpenConnection, StoreTypeOK, Usable, CURRENT_SCHEMA_VERSION
  <2>3. CASE MigrationStatements(p)
    <3>1. /\ UNCHANGED <<db, writer, txn, view, told>> /\ life[p] = "migrating"
          /\ \E l \in {"degraded", "migrated"} : life' = [life EXCEPT ![p] = l]
          /\ \/ pending' = pending
             \/ pending' = [pending EXCEPT ![p] = 1]
          /\ \/ schema' = schema
             \/ schema' = [schema EXCEPT !.altered = TRUE]
      BY <2>3 DEF MigrationStatements, MigrationV5
    <3>2. schema' \in [version : 0 .. CURRENT_SCHEMA_VERSION, altered : BOOLEAN]
      BY <2>1, <3>1 DEF StoreTypeOK
    <3>3. pending' \in [Stores -> 1 .. CURRENT_SCHEMA_VERSION]
      BY <2>1, <3>1 DEF StoreTypeOK, CURRENT_SCHEMA_VERSION
    <3>4. /\ life' \in [Stores -> {"closed", "migrating", "migrated", "installing"} \cup Usable]
          /\ \A q \in Stores : q # p => life'[q] = life[q]
          /\ life[p] \notin Usable
      BY <2>1, <3>1 DEF StoreTypeOK, Usable
    <3>5. QED BY <2>1, <3>1, <3>2, <3>3, <3>4
  <2>4. CASE RecordVersion(p)
    BY <2>1, <2>4 DEF RecordVersion, OpeningFails, StoreTypeOK, Usable, CURRENT_SCHEMA_VERSION
  <2>5. CASE RecordInstallation(p)
    BY <2>1, <2>5 DEF RecordInstallation, OpeningFails, StoreTypeOK, Usable, CURRENT_SCHEMA_VERSION
  <2>6. QED BY <2>2, <2>3, <2>4, <2>5
<1>2. ASSUME NEW q \in Stores
      PROVE  Snapshot(q)' /\ txn'[q] \in {"none", "begun", "reading", "stale", "writing"}
  <2>1. Snapshot(q) /\ Snapshot(p) BY DEF StoreInv
  <2>2. txn[p] = "none" /\ txn[q] \in {"none", "begun", "reading", "stale", "writing"}
    BY <1>1, <2>1 DEF Snapshot, StoreTypeOK
  <2>3. \/ txn'[q] = txn[q]
        \/ q = p /\ txn'[q] = "begun" /\ life'[p] \in Usable
        \/ q # p /\ txn[q] = "reading" /\ txn'[q] = "stale"
    BY <1>1, <2>2 DEF StoreTypeOK, Overtaken
  <2>4. q = p \/ life'[q] = life[q] BY <1>1
  <2>5. QED BY <1>1, <2>1, <2>2, <2>3, <2>4 DEF Snapshot
<1>3. StoreTypeOK'
  <2>1. txn' \in [Stores -> {"none", "begun", "reading", "stale", "writing"}]
    BY <1>1, <1>2 DEF StoreTypeOK, Overtaken
  <2>2. QED BY <1>1, <2>1 DEF StoreTypeOK
<1>4. QED BY <1>1, <1>2, <1>3 DEF StoreInv, AnsweredIsCommitted

LEMMA QueryInv ==
  ASSUME StoreInv, NEW p \in Stores, Query(p)
  PROVE  StoreInv'
<1>1. /\ UNCHANGED <<schema, db, writer, life, pending, told>> /\ StoreTypeOK
      /\ life[p] \in Usable
      /\ \/ UNCHANGED <<txn, view>>
         \/ /\ txn[p] = "begun" /\ txn' = [txn EXCEPT ![p] = "reading"]
            /\ view' = [view EXCEPT ![p] = db]
  BY DEF Query, StoreInv
<1>2. ASSUME NEW q \in Stores PROVE Snapshot(q)'
  <2>1. Snapshot(q) /\ Linked(db) BY DEF StoreInv
  <2>2. \/ txn'[q] = txn[q] /\ view'[q] = view[q]
        \/ q = p /\ txn[q] = "begun" /\ txn'[q] = "reading" /\ view'[q] = db
    BY <1>1 DEF StoreInv, StoreTypeOK
  <2>3. QED BY <1>1, <2>1, <2>2 DEF Snapshot
<1>3. StoreTypeOK' BY <1>1 DEF StoreTypeOK
<1>4. view' = [q \in Stores |-> view'[q]] BY <1>1 DEF StoreInv
<1>5. QED BY <1>1, <1>2, <1>3, <1>4 DEF StoreInv, AnsweredIsCommitted

LEMMA DroppedInv ==
  ASSUME StoreInv, NEW p \in Stores, Dropped(p)
  PROVE  StoreInv'
<1>1. /\ UNCHANGED <<schema, db, told>> /\ StoreTypeOK
      /\ pending' = [pending EXCEPT ![p] = 1]
      /\ life' = [life EXCEPT ![p] = "closed"] /\ txn' = [txn EXCEPT ![p] = "none"]
      /\ view' = [view EXCEPT ![p] = {}]
      /\ writer' = IF writer = p THEN NoStore ELSE writer
  BY DEF Dropped, StoreInv
<1>2. ASSUME NEW q \in Stores PROVE Snapshot(q)'
  <2>1. Snapshot(q) /\ Snapshot(p) BY DEF StoreInv
  <2>2. /\ txn'[q] = (IF q = p THEN "none" ELSE txn[q]) /\ view'[q] = (IF q = p THEN {} ELSE view[q])
        /\ life'[q] = (IF q = p THEN "closed" ELSE life[q])
    BY <1>1 DEF StoreInv, StoreTypeOK
  <2>3. QED BY <1>1, <2>1, <2>2, NoRowsLinked, StoreAssumption DEF Snapshot
<1>3. StoreTypeOK' BY <1>1 DEF StoreTypeOK, CURRENT_SCHEMA_VERSION
<1>4. view' = [q \in Stores |-> view'[q]] BY <1>1 DEF StoreInv
<1>5. QED BY <1>1, <1>2, <1>3, <1>4 DEF StoreInv, AnsweredIsCommitted

LEMMA StoreNextInv == ASSUME StoreInv, [StoreNext]_storeVars PROVE StoreInv'
<1>1. ASSUME NEW p \in Stores, NEW s \in StoreSessions, Tell(p, s) PROVE StoreInv'
  BY <1>1, TellRecords, RecordRowInv DEF Recorded
<1>2. ASSUME NEW p \in Stores, Close(p) \/ StoreCrash(p) PROVE StoreInv'
  BY <1>2, DroppedInv DEF Close, StoreCrash
<1>3. CASE UNCHANGED storeVars
  BY <1>3 DEF storeVars, StoreInv, StoreTypeOK, Snapshot, AnsweredIsCommitted
<1>4. QED BY <1>1, <1>2, <1>3, OpeningInv, QueryInv DEF StoreNext

LEMMA StoreAlways == StoreSpec => []StoreInv
  BY StoreInitInv, StoreNextInv, PTL DEF StoreSpec

(* The schema, the connections and their transactions have their types (store.py). *)
THEOREM StoreTypes == StoreSpec => []StoreTypeOK
<1>1. StoreInv => StoreTypeOK BY DEF StoreInv
<1>2. QED BY StoreAlways, <1>1, PTL

(* For any number of processes and records, whatever calls fail and leave open and *)
(* whichever process is killed: what a call answered as recorded is in the file    *)
(* (every record_ operation of the store).                                         *)
THEOREM AnswersAreDurable == StoreSpec => []AnsweredIsCommitted
<1>1. StoreInv => AnsweredIsCommitted BY DEF StoreInv
<1>2. QED BY StoreAlways, <1>1, PTL

(* The store keeps what ExperienceFile promises.  What a writer's transaction holds *)
(* besides the file is projects, of calls that failed: the commit of the next call  *)
(* that succeeds takes them along, and loses nothing.                               *)
Tied(p) ==
  txn[p] = "writing" =>
    db \subseteq view[p] /\ \A q \in view[p] : q \in db \/ q.table = "projects"

(* The rows a store that may write builds on.                                       *)
OnFile(rows) == db \subseteq rows /\ \A q \in rows : q \in db \/ q.table = "projects"

LEMMA SeenOnFile ==
  ASSUME StoreInv, NEW p \in Stores, Tied(p), MayWrite(p), NEW project, NEW rows,
         rows = IF project = Nothing THEN Visible(p)
                ELSE Visible(p) \cup {Row("projects", project, Nothing, Nothing)}
  PROVE  OnFile(rows)
<1>1. Snapshot(p) /\ txn[p] \in {"none", "begun", "reading", "stale", "writing"}
  BY DEF StoreInv, StoreTypeOK
<1>2. OnFile(Visible(p))
  BY <1>1, StoreAssumption DEF OnFile, Visible, MayWrite, Snapshot, Tied
<1>3. Row("projects", project, Nothing, Nothing).table = "projects" BY DEF Row
<1>4. QED BY <1>2, <1>3 DEF OnFile

(* One call that records: a step of the promise, or none.                           *)
LEMMA CommitRecords ==
  ASSUME StoreInv, NEW p \in Stores, NEW rows, Linked(rows), OnFile(rows), NEW r, RowOK(r),
         NEW upsert, r.table \in Promise!Kept => ~upsert, ~Broken(rows, r, upsert),
         Commit(p, Upserted(rows, r), r)
  PROVE  Promise!Next
<1>1. /\ db' = {q \in rows : ~SameRow(q, r)} \cup {r}
      /\ told' = told \cup {<<r.table, r.key>>}
  BY DEF Commit, Upserted
<1>2. \A q : Promise!Key(q) = Promise!Key(r) <=> SameRow(q, r)
  BY DEF Promise!Key, SameRow
<1>3. r \in db' /\ told' = told \cup {Promise!Key(r)} BY <1>1 DEF Promise!Key
<1>4. \A q \in db : Promise!Key(q) # Promise!Key(r) => q \in db'
  BY <1>1, <1>2 DEF OnFile
<1>5. \A q \in db' : q = r \/ (Promise!Key(q) # Promise!Key(r) /\ (q \in db \/ q.table = "projects"))
  BY <1>1, <1>2 DEF OnFile
<1>6. ASSUME r.table \in Promise!Kept, NEW q \in db PROVE Promise!Key(q) # Promise!Key(r)
  BY <1>2, <1>6 DEF Broken, OnFile
<1>7. ASSUME r.session # Nothing
      PROVE  \E s \in db' : Promise!Key(s) = <<"sessions", r.session>>
  <2>1. PICK s \in rows : s.table = "sessions" /\ s.key = r.session
    BY <1>7 DEF Broken, Known, Of
  <2>2. r.table # "sessions" BY <1>7 DEF RowOK
  <2>3. s \in db' BY <1>1, <2>1, <2>2 DEF SameRow
  <2>4. QED BY <2>1, <2>3 DEF Promise!Key
<1>8. Promise!Record(r) BY <1>3, <1>4, <1>5, <1>6, <1>7, Zenon DEF Promise!Record
<1>9. QED BY <1>3, <1>8 DEF Promise!Next

LEMMA RecordedPromise ==
  ASSUME StoreInv, \A p \in Stores : Tied(p), NEW p \in Stores, NEW r, NEW upsert, NEW reads,
         Recorded(p, r, upsert, reads)
  PROVE  (Promise!Next \/ UNCHANGED <<db, told>>) /\ \A q \in Stores : Tied(q)'
<1>1. PICK project : RecordRow(p, project, r, upsert, reads) BY DEF Recorded
<1>2. PICK based : based = IF project = Nothing THEN Visible(p)
                           ELSE Visible(p) \cup {Row("projects", project, Nothing, Nothing)}
  OBVIOUS
<1>3. \/ Refused(p, reads)
      \/ LeftOpen(p, based)
      \/ ~Broken(based, r, upsert) /\ Commit(p, Upserted(based, r), r)
  BY <1>1, <1>2 DEF RecordRow
<1>4. Linked(based) BY <1>2, SeenRows, ProjectLinked
<1>5. MayWrite(p) => OnFile(based) BY <1>2, SeenOnFile
<1>6. StoreTypeOK /\ view = [q \in Stores |-> view[q]] BY DEF StoreInv
<1>7. CASE Refused(p, reads)
  <2>1. UNCHANGED <<db, told>> /\ txn[p] # "writing"
    BY <1>7 DEF Refused, StoreInv, Snapshot, MayWrite
  <2>2. ASSUME NEW q \in Stores PROVE Tied(q)'
    <3>1. CASE q = p
      <4>1. txn'[p] # "writing" BY <1>6, <1>7, <2>1 DEF Refused, StoreTypeOK
      <4>2. QED BY <3>1, <4>1 DEF Tied
    <3>2. CASE q # p
      <4>1. txn'[q] = txn[q] /\ view'[q] = view[q] BY <1>6, <1>7, <3>2 DEF Refused, StoreTypeOK
      <4>2. QED BY <2>1, <4>1 DEF Tied
    <3>3. QED BY <3>1, <3>2
  <2>3. QED BY <2>1, <2>2
<1>8. CASE LeftOpen(p, based)
  <2>1. /\ UNCHANGED <<db, told>> /\ MayWrite(p)
        /\ txn' = [txn EXCEPT ![p] = "writing"] /\ view' = [view EXCEPT ![p] = based]
    BY <1>8 DEF LeftOpen
  <2>2. ASSUME NEW q \in Stores PROVE Tied(q)'
    <3>1. CASE q = p
      <4>1. view'[p] = based BY <1>6, <2>1
      <4>2. QED BY <1>5, <2>1, <3>1, <4>1 DEF Tied, OnFile
    <3>2. CASE q # p
      <4>1. txn'[q] = txn[q] /\ view'[q] = view[q] BY <1>6, <2>1, <3>2 DEF StoreTypeOK
      <4>2. QED BY <2>1, <4>1 DEF Tied
    <3>3. QED BY <3>1, <3>2
  <2>3. QED BY <2>1, <2>2
<1>9. CASE ~Broken(based, r, upsert) /\ Commit(p, Upserted(based, r), r)
  <2>1. MayWrite(p) /\ txn' = [Overtaken EXCEPT ![p] = "none"] BY <1>9 DEF Commit
  <2>2. Promise!Next
    BY <1>4, <1>5, <1>9, <2>1, CommitRecords DEF Recorded
  <2>3. ASSUME NEW q \in Stores PROVE Tied(q)'
    <3>1. q # p => txn[q] # "writing" BY <2>1, OnlyWriter
    <3>2. txn'[q] # "writing" BY <2>1, <3>1 DEF Overtaken
    <3>3. QED BY <3>2 DEF Tied
  <2>4. QED BY <2>2, <2>3
<1>10. QED BY <1>3, <1>7, <1>8, <1>9

(* Every other step leaves the file and what was answered alone.                    *)
LEMMA StorePromise ==
  ASSUME StoreInv, \A p \in Stores : Tied(p), [StoreNext]_storeVars
  PROVE  (Promise!Next \/ UNCHANGED <<db, told>>) /\ \A q \in Stores : Tied(q)'
<1>0. StoreTypeOK /\ view = [q \in Stores |-> view[q]] BY DEF StoreInv
<1>1. ASSUME UNCHANGED <<db, told>>,
             \A q \in Stores : txn'[q] = "writing" => txn[q] = "writing" /\ view'[q] = view[q]
      PROVE  (Promise!Next \/ UNCHANGED <<db, told>>) /\ \A q \in Stores : Tied(q)'
  BY <1>1 DEF Tied
<1>2. CASE UNCHANGED storeVars BY <1>1, <1>2 DEF storeVars
<1>3. ASSUME NEW p \in Stores,
             OpenConnection(p) \/ MigrationStatements(p) \/ RecordVersion(p) \/ RecordInstallation(p)
      PROVE  (Promise!Next \/ UNCHANGED <<db, told>>) /\ \A q \in Stores : Tied(q)'
  <2>1. /\ UNCHANGED <<db, told, view>>
        /\ txn' = txn \/ txn' = [txn EXCEPT ![p] = "begun"] \/ txn' = Overtaken
    BY <1>3 DEF OpenConnection, MigrationStatements, MigrationV5, RecordVersion,
                RecordInstallation, OpeningFails
  <2>2. \A q \in Stores : txn'[q] = "writing" => txn[q] = "writing"
    BY <1>0, <2>1 DEF Overtaken, StoreTypeOK
  <2>3. QED BY <1>1, <2>1, <2>2
<1>4. ASSUME NEW p \in Stores, Query(p)
      PROVE  (Promise!Next \/ UNCHANGED <<db, told>>) /\ \A q \in Stores : Tied(q)'
  <2>1. /\ UNCHANGED <<db, told>>
        /\ \/ UNCHANGED <<txn, view>>
           \/ txn' = [txn EXCEPT ![p] = "reading"] /\ view' = [view EXCEPT ![p] = db]
    BY <1>4 DEF Query
  <2>2. \A q \in Stores : txn'[q] = "writing" => txn[q] = "writing" /\ view'[q] = view[q]
    BY <1>0, <2>1 DEF StoreTypeOK
  <2>3. QED BY <1>1, <2>1, <2>2
<1>5. ASSUME NEW p \in Stores, Close(p) \/ StoreCrash(p)
      PROVE  (Promise!Next \/ UNCHANGED <<db, told>>) /\ \A q \in Stores : Tied(q)'
  <2>1. /\ UNCHANGED <<db, told>>
        /\ txn' = [txn EXCEPT ![p] = "none"] /\ view' = [view EXCEPT ![p] = {}]
    BY <1>5 DEF Close, StoreCrash, Dropped
  <2>2. \A q \in Stores : txn'[q] = "writing" => txn[q] = "writing" /\ view'[q] = view[q]
    BY <1>0, <2>1 DEF StoreTypeOK
  <2>3. QED BY <1>1, <2>1, <2>2
<1>6. ASSUME NEW p \in Stores, NEW s \in StoreSessions, Tell(p, s)
      PROVE  (Promise!Next \/ UNCHANGED <<db, told>>) /\ \A q \in Stores : Tied(q)'
  BY <1>6, TellRecords, RecordedPromise
<1>7. QED BY <1>2, <1>3, <1>4, <1>5, <1>6 DEF StoreNext

(* The store is transactional to its callers: every step of any number of          *)
(* processes, with their snapshots, open transactions, failures and deaths, is one *)
(* record added to one file as a whole, or leaves the file as it is (every record_ *)
(* operation of the store).                                                        *)
THEOREM StoreKeepsItsPromise == StoreSpec => StoreIsTransactional
<1> DEFINE AllTied == \A p \in Stores : Tied(p)
<1>1. StoreInit => Promise!Init /\ AllTied
  BY DEF StoreInit, Promise!Init, Tied
<1>2. StoreInv /\ AllTied /\ [StoreNext]_storeVars
        => AllTied' /\ [Promise!Next]_<<db, told>>
  BY StorePromise
<1>3. QED BY <1>1, <1>2, StoreAlways, PTL DEF StoreSpec, StoreIsTransactional, Promise!Spec

(* What a limited query answers: all the rows, when it answers fewer than it may.  *)
LEMMA LimitedFacts ==
  ASSUME NEW rows, IsFiniteSet(rows), NEW limit \in Nat, NEW list \in Limited(rows, limit)
  PROVE  /\ list \in SUBSET rows /\ Cardinality(list) = UpTo(Cardinality(rows), limit)
         /\ Cardinality(list) < limit => list = rows /\ Cardinality(rows) < limit
<1>1. list \in SUBSET rows /\ Cardinality(list) = UpTo(Cardinality(rows), limit)
  BY DEF Limited
<1>2. Cardinality(rows) \in Nat BY FS_CardinalityType
<1>3. ASSUME Cardinality(list) < limit PROVE Cardinality(list) = Cardinality(rows)
  BY <1>1, <1>2, <1>3 DEF UpTo
<1>4. Cardinality(list) = Cardinality(rows) => list = rows BY <1>1, FS_Subset
<1>5. QED BY <1>1, <1>3, <1>4

(* A limited query of fewer rows than it may answer has one answer.                *)
LEMMA UnlimitedBelow ==
  ASSUME NEW rows, IsFiniteSet(rows), NEW limit \in Nat, Cardinality(rows) < limit
  PROVE  Limited(rows, limit) = {rows}
<1>1. Cardinality(rows) \in Nat BY FS_CardinalityType
<1>2. rows \in Limited(rows, limit) BY DEF Limited, UpTo
<1>3. ASSUME NEW list \in Limited(rows, limit) PROVE list = rows
  <2>1. Cardinality(list) = Cardinality(rows) BY LimitedFacts DEF UpTo
  <2>2. QED BY <1>1, <2>1, LimitedFacts
<1>4. QED BY <1>2, <1>3

(* The rows of a table are those of the sessions the file knows.                   *)
LEMMA TableBySession ==
  ASSUME NEW rows, Linked(rows), NEW table, table \notin {"projects", "sessions"}
  PROVE  /\ \A r \in Of(rows, table) : r.session \in Reviewed(rows)
         /\ Of(rows, table) = UNION {OfSession(Of(rows, table), s) : s \in Reviewed(rows)}
<1>1. ASSUME NEW r \in Of(rows, table)
      PROVE  r.session \in StoreSessions /\ GetSession(rows, r.session) # {}
  <2>1. r \in rows /\ r.session \in StoreSessions /\ r.session # Nothing
    BY StoreAssumption DEF Of, Linked, RowOK
  <2>2. PICK q \in Of(rows, "sessions") : q.key = r.session BY <2>1 DEF Linked, Known
  <2>3. QED BY <2>1, <2>2 DEF GetSession
<1>2. \A r \in Of(rows, table) : r.session \in Reviewed(rows) BY <1>1 DEF Reviewed
<1>3. \A s \in Reviewed(rows) : s # Nothing BY StoreAssumption DEF Reviewed
<1>4. QED BY <1>2, <1>3 DEF OfSession

(* The lists of one session that are not limited.                                  *)
LEMMA WholeLists ==
  ASSUME NEW rows, Linked(rows), NEW table, table \notin {"projects", "sessions"},
         NEW list \in WholeIfOf(Nothing, Of(rows, table)), Cardinality(list) < RowLimit
  PROVE  list = UNION {UNION WholeIfOf(s, Of(rows, table)) : s \in Reviewed(rows)}
<1>1. PICK T : T = Of(rows, table) OBVIOUS
<1>2. IsFiniteSet(T)
  <2>1. T \in SUBSET rows BY <1>1 DEF Of
  <2>2. QED BY <2>1, FS_Subset DEF Linked
<1>3. list = T
  <2>1. list \in Limited(T, RowLimit) BY <1>1 DEF WholeIfOf
  <2>2. QED BY <1>2, <2>1, LimitedFacts, StoreAssumption
<1>4. ASSUME NEW s \in Reviewed(rows) PROVE UNION WholeIfOf(s, T) = OfSession(T, s)
  BY StoreAssumption DEF WholeIfOf, Reviewed
<1>5. T = UNION {OfSession(T, s) : s \in Reviewed(rows)} BY <1>1, TableBySession
<1>6. T = UNION {UNION WholeIfOf(s, T) : s \in Reviewed(rows)} BY <1>4, <1>5
<1>7. QED BY <1>1, <1>3, <1>6

(* The lists of one session that are.                                              *)
LEMMA LimitedLists ==
  ASSUME NEW rows, Linked(rows), NEW table, table \notin {"projects", "sessions"},
         NEW list \in Limited(OfSession(Of(rows, table), Nothing), RowLimit),
         Cardinality(list) < RowLimit
  PROVE  list = UNION {UNION Limited(OfSession(Of(rows, table), s), RowLimit) : s \in Reviewed(rows)}
<1>1. PICK T : T = Of(rows, table) OBVIOUS
<1>2. IsFiniteSet(T)
  <2>1. T \in SUBSET rows BY <1>1 DEF Of
  <2>2. QED BY <2>1, FS_Subset DEF Linked
<1>3. list = T /\ Cardinality(T) < RowLimit
  <2>1. list \in Limited(T, RowLimit) BY <1>1 DEF OfSession
  <2>2. QED BY <1>2, <2>1, LimitedFacts, StoreAssumption
<1>4. ASSUME NEW s \in Reviewed(rows) PROVE UNION Limited(OfSession(T, s), RowLimit) = OfSession(T, s)
  <2>1. OfSession(T, s) \in SUBSET T BY DEF OfSession
  <2>2. IsFiniteSet(OfSession(T, s)) /\ Cardinality(OfSession(T, s)) <= Cardinality(T)
    BY <1>2, <2>1, FS_Subset
  <2>3. Cardinality(OfSession(T, s)) < RowLimit
    BY <1>2, <1>3, <2>2, FS_CardinalityType, StoreAssumption
  <2>4. Limited(OfSession(T, s), RowLimit) = {OfSession(T, s)}
    BY <2>2, <2>3, UnlimitedBelow, StoreAssumption
  <2>5. QED BY <2>4
<1>5. T = UNION {OfSession(T, s) : s \in Reviewed(rows)} BY <1>1, TableBySession
<1>6. T = UNION {UNION Limited(OfSession(T, s), RowLimit) : s \in Reviewed(rows)} BY <1>4, <1>5
<1>7. QED BY <1>1, <1>3, <1>6

(* The lists of linked rows.                                                       *)
LEMMA LinkedListsWhole ==
  ASSUME NEW rows, Linked(rows)
  PROVE  ListsAreWhole(rows)
<1>1. ASSUME NEW table, table \notin {"projects", "sessions"}
      PROVE  \A list \in SUBSET Of(rows, table) : \A r \in list : r.session \in Reviewed(rows)
  BY <1>1, TableBySession
<1>2. ASSUME NEW table, table \notin {"projects", "sessions"}
      PROVE  \A list \in WholeIfOf(Nothing, Of(rows, table)) :
               /\ \A r \in list : r.session \in Reviewed(rows)
               /\ Cardinality(list) < RowLimit =>
                    list = UNION {UNION WholeIfOf(s, Of(rows, table)) : s \in Reviewed(rows)}
  BY <1>1, <1>2, WholeLists DEF WholeIfOf, Limited
<1>3. ASSUME NEW table, table \notin {"projects", "sessions"}
      PROVE  \A list \in Limited(OfSession(Of(rows, table), Nothing), RowLimit) :
               /\ \A r \in list : r.session \in Reviewed(rows)
               /\ Cardinality(list) < RowLimit =>
                    list = UNION {UNION Limited(OfSession(Of(rows, table), s), RowLimit) :
                                    s \in Reviewed(rows)}
  BY <1>1, <1>3, LimitedLists DEF OfSession, Limited
<1>4. ASSUME NEW s PROVE GetActions(rows, s) = WholeIfOf(s, Of(rows, "action_references"))
  BY DEF GetActions, GetActionReferences, WholeIfOf
<1>5. ASSUME NEW some PROVE InCategory(some, Nothing) = some BY DEF InCategory
<1>6. Of(rows, "evidence_references")
        = UNION {GetEvidenceReferences(rows, s) : s \in Reviewed(rows)}
  BY TableBySession DEF GetEvidenceReferences
<1>7. ASSUME NEW list \in ListSessions(rows), Cardinality(list) < SessionLimit
      PROVE  {r.key : r \in list} = Reviewed(rows)
  <2>1. IsFiniteSet(Of(rows, "sessions"))
    <3>1. Of(rows, "sessions") \in SUBSET rows BY DEF Of
    <3>2. QED BY <3>1, FS_Subset DEF Linked
  <2>2. list = Of(rows, "sessions") BY <1>7, <2>1, LimitedFacts, StoreAssumption DEF ListSessions
  <2>3. \A r \in Of(rows, "sessions") : r.key \in StoreSessions BY DEF Of, Linked, RowOK
  <2>4. QED BY <2>2, <2>3 DEF Reviewed, GetSession
<1>8. ASSUME NEW s \in Reviewed(rows) PROVE Cardinality(GetSession(rows, s)) = 1
  <2>1. PICK r : r \in GetSession(rows, s) BY DEF Reviewed
  <2>2. GetSession(rows, s) = {r} BY <2>1 DEF GetSession, Of, Linked, SameRow
  <2>3. QED BY <2>2, FS_Singleton
<1>9. QED
  BY <1>2, <1>3, <1>4, <1>5, <1>6, <1>7, <1>8
     DEF ListsAreWhole, GetMissions, GetTraceReferences, GetOutcomes, GetFailures, GetRecoveryAttempts

(* The sums of counts, as the fold of the library computes them: by an element     *)
(* chosen out of each set.                                                         *)
Chosen(s) == CHOOSE x \in s : TRUE

Sums(counts, F) ==
  F = [s \in SUBSET DOMAIN counts |->
         IF s = {} THEN 0 ELSE counts[Chosen(s)] + F[s \ {Chosen(s)}]]

Fold(counts) == CHOOSE F : Sums(counts, F)

LEMMA TotalIsFold == ASSUME NEW counts PROVE Total(counts) = Fold(counts)[DOMAIN counts]
  BY Zenon DEF Total, MapThenSumSet, MapThenFoldSet, Fold, Sums, Chosen

(* There is one function with these sums.                                          *)
LEMMA SumsAreOne ==
  ASSUME NEW counts, IsFiniteSet(DOMAIN counts), NEW F, Sums(counts, F), NEW G, Sums(counts, G)
  PROVE  F[DOMAIN counts] = G[DOMAIN counts]
<1> DEFINE D == DOMAIN counts
           T == {Cardinality(s) : s \in {u \in SUBSET D : F[u] # G[u]}}
<1>1. ASSUME NEW s \in SUBSET D PROVE IsFiniteSet(s) /\ Cardinality(s) \in Nat
  BY FS_Subset, FS_CardinalityType
<1>2. T \in SUBSET Nat BY <1>1
<1>3. CASE T = {}
  <2>1. F[D] = G[D] BY <1>3
  <2>2. QED BY <2>1
<1>4. CASE T # {}
  <2>1. PICK n \in T : \A m \in T : n <= m BY <1>2, <1>4, Least
  <2>2. PICK s \in SUBSET D : F[s] # G[s] /\ n = Cardinality(s) BY <2>1
  <2>3. PICK x : x = Chosen(s) OBVIOUS
  <2>4. /\ F[s] = IF s = {} THEN 0 ELSE counts[x] + F[s \ {x}]
        /\ G[s] = IF s = {} THEN 0 ELSE counts[x] + G[s \ {x}]
    BY <2>3 DEF Sums
  <2>5. s # {} BY <2>2, <2>4
  <2>6. x \in s BY <2>3, <2>5 DEF Chosen
  <2>7. s \ {x} \in SUBSET D /\ F[s \ {x}] # G[s \ {x}] BY <2>2, <2>4, <2>5
  <2>8. Cardinality(s \ {x}) \in T BY <2>7
  <2>9. Cardinality(s \ {x}) = n - 1 BY <1>1, <2>2, <2>6, FS_RemoveElement
  <2>10. QED BY <1>2, <2>1, <2>8, <2>9
<1>5. QED BY <1>3, <1>4

(* Rows counted by a column add up to the rows.                                    *)
LEMMA CountsAddUp ==
  ASSUME NEW rows, IsFiniteSet(rows), NEW D, IsFiniteSet(D), NEW cat \in [rows -> D],
         NEW counts, counts = [l \in D |-> Cardinality({r \in rows : cat[r] = l})]
  PROVE  Total(counts) = Cardinality(rows)
<1> DEFINE In(s) == {r \in rows : cat[r] \in s}
<1>1. PICK N : N = [s \in SUBSET D |-> Cardinality(In(s))] OBVIOUS
<1>2. DOMAIN counts = D OBVIOUS
<1>3. ASSUME NEW s \in SUBSET D, s # {}
      PROVE  N[s] = counts[Chosen(s)] + N[s \ {Chosen(s)}]
  <2>1. PICK x : x = Chosen(s) OBVIOUS
  <2>2. x \in s /\ x \in D BY <1>3, <2>1 DEF Chosen
  <2>3. PICK A : A = {r \in rows : cat[r] = x} OBVIOUS
  <2>4. PICK B : B = In(s \ {x}) OBVIOUS
  <2>5. A \cup B = In(s) /\ A \cap B = {} BY <2>2, <2>3, <2>4
  <2>6. IsFiniteSet(A) /\ IsFiniteSet(B)
    <3>1. A \in SUBSET rows /\ B \in SUBSET rows BY <2>3, <2>4
    <3>2. QED BY <3>1, FS_Subset
  <2>7. Cardinality(A) \in Nat /\ Cardinality(B) \in Nat BY <2>6, FS_CardinalityType
  <2>8. Cardinality(A \cap B) = 0 BY <2>5, FS_EmptySet
  <2>9. Cardinality(A \cup B) = Cardinality(A) + Cardinality(B)
    <3>1. Cardinality(A \cup B) = Cardinality(A) + Cardinality(B) - Cardinality(A \cap B)
      BY <2>6, FS_Union, Zenon
    <3>2. QED BY <2>7, <2>8, <3>1
  <2>10. N[s] = Cardinality(A \cup B) BY <1>1, <2>5
  <2>11. N[s \ {x}] = Cardinality(B) BY <1>1, <2>4
  <2>12. counts[x] = Cardinality(A) BY <2>2, <2>3
  <2>13. QED BY <2>1, <2>9, <2>10, <2>11, <2>12
<1>4. N[{}] = 0
  <2>1. In({}) = {} OBVIOUS
  <2>2. QED BY <1>1, <2>1, FS_EmptySet
<1>5. Sums(counts, N)
  <2>1. PICK M : M = [s \in SUBSET D |-> IF s = {} THEN 0 ELSE counts[Chosen(s)] + N[s \ {Chosen(s)}]]
    OBVIOUS
  <2>2. \A s \in SUBSET D : N[s] = M[s] BY <1>3, <1>4, <2>1
  <2>3. N = M BY <1>1, <2>1, <2>2
  <2>4. QED BY <1>2, <2>1, <2>3 DEF Sums
<1>6. Sums(counts, Fold(counts)) BY <1>5, Zenon DEF Fold
<1>7. Fold(counts)[D] = N[D] BY <1>2, <1>5, <1>6, SumsAreOne
<1>8. In(D) = rows OBVIOUS
<1>9. QED BY <1>1, <1>2, <1>7, <1>8, TotalIsFold

(* A column of finitely many rows has finitely many values.                        *)
LEMMA ColumnFinite ==
  ASSUME NEW rows, IsFiniteSet(rows), NEW D, NEW cat \in [rows -> D],
         \A l \in D : \E r \in rows : cat[r] = l
  PROVE  IsFiniteSet(D)
<1>1. cat \in Surjection(rows, D) BY DEF Surjection
<1>2. QED BY <1>1, FS_Surjection

LEMMA CountByAddsUp ==
  ASSUME NEW rows, IsFiniteSet(rows)
  PROVE  Total(CountBy(rows)) = Cardinality(rows)
<1>1. PICK D : D = {r.label : r \in rows} OBVIOUS
<1>2. PICK cat : cat = [r \in rows |-> r.label] OBVIOUS
<1>3. cat \in [rows -> D] /\ \A l \in D : \E r \in rows : cat[r] = l BY <1>1, <1>2
<1>4. IsFiniteSet(D) BY <1>3, ColumnFinite
<1>5. \A l \in D : {r \in rows : r.label = l} = {r \in rows : cat[r] = l} BY <1>2
<1>6. CountBy(rows) = [l \in D |-> Cardinality({r \in rows : cat[r] = l})]
  BY <1>1, <1>5 DEF CountBy
<1>7. QED BY <1>3, <1>4, <1>6, CountsAddUp

LEMMA RecordCountsAddUp ==
  ASSUME NEW rows, IsFiniteSet(rows)
  PROVE  Total(GetRecordCounts(rows)) = Cardinality(rows)
<1>1. PICK D : D = {r.table : r \in rows} OBVIOUS
<1>2. PICK cat : cat = [r \in rows |-> r.table] OBVIOUS
<1>3. cat \in [rows -> D] /\ \A l \in D : \E r \in rows : cat[r] = l BY <1>1, <1>2
<1>4. IsFiniteSet(D) BY <1>3, ColumnFinite
<1>5. \A l \in D : Of(rows, l) = {r \in rows : cat[r] = l} BY <1>2 DEF Of
<1>6. GetRecordCounts(rows) = [l \in D |-> Cardinality({r \in rows : cat[r] = l})]
  BY <1>1, <1>5 DEF GetRecordCounts
<1>7. QED BY <1>3, <1>4, <1>6, CountsAddUp

LEMMA VerdictsAddUp ==
  ASSUME NEW rows, IsFiniteSet(rows),
         \A r \in rows : r.table = "outcomes" => r.label \in {"PASS", "UNVERIFIED"}
  PROVE  Total(GetVerificationDistribution(rows, Nothing)) = Cardinality(Of(rows, "outcomes"))
<1>1. PICK outcomes : outcomes = OfSession(Of(rows, "outcomes"), Nothing) OBVIOUS
<1>2. PICK D : D = {"PASS", "UNVERIFIED"} OBVIOUS
<1>3. outcomes \in SUBSET rows /\ \A r \in outcomes : r.label \in D
  BY <1>1, <1>2 DEF OfSession, Of
<1>4. PICK cat : cat = [r \in outcomes |-> r.label] OBVIOUS
<1>5. cat \in [outcomes -> D] BY <1>3, <1>4
<1>6. IsFiniteSet(outcomes) BY <1>3, FS_Subset
<1>7. IsFiniteSet(D)
  <2>1. D = {"PASS"} \cup {"UNVERIFIED"} BY <1>2
  <2>2. QED BY <2>1, FS_Singleton, FS_AddElement
<1>8. \A l \in D : {r \in outcomes : r.label = l} = {r \in outcomes : cat[r] = l} BY <1>4
<1>9. GetVerificationDistribution(rows, Nothing)
        = [l \in D |-> Cardinality({r \in outcomes : cat[r] = l})]
  BY <1>1, <1>2, <1>8 DEF GetVerificationDistribution
<1>10. outcomes = Of(rows, "outcomes") BY <1>1 DEF OfSession
<1>11. QED BY <1>5, <1>6, <1>7, <1>9, <1>10, CountsAddUp

(* The totals of linked rows.                                                      *)
LEMMA LinkedTotalsAgree ==
  ASSUME NEW rows, Linked(rows)
  PROVE  TotalsAgree(rows)
<1>1. IsFiniteSet(rows) BY DEF Linked
<1>2. ASSUME NEW table PROVE IsFiniteSet(Of(rows, table))
  <2>1. Of(rows, table) \in SUBSET rows BY DEF Of
  <2>2. QED BY <1>1, <2>1, FS_Subset
<1>3. ASSUME NEW table
      PROVE  IsTotalOf(Cardinality(Of(rows, table)), Limited(OfSession(Of(rows, table), Nothing), RowLimit))
  BY DEF IsTotalOf, Limited, OfSession
<1>4. Total(GetFailureCategoryCounts(rows)) = Cardinality(Of(rows, "failures"))
  BY <1>2, CountByAddsUp DEF GetFailureCategoryCounts
<1>5. /\ Total(GetRecoveryStatistics(rows).by) = Cardinality(Of(rows, "recoveries"))
      /\ GetRecoveryStatistics(rows).total = Cardinality(Of(rows, "recoveries"))
  <2>1. /\ GetRecoveryStatistics(rows).by = CountBy(Of(rows, "recoveries"))
        /\ GetRecoveryStatistics(rows).total = Cardinality(Of(rows, "recoveries"))
    BY DEF GetRecoveryStatistics
  <2>2. QED BY <1>2, <2>1, CountByAddsUp
<1>6. Total(GetVerificationDistribution(rows, Nothing)) = Cardinality(Of(rows, "outcomes"))
  BY <1>1, VerdictsAddUp DEF Linked, RowOK
<1>7. Total(GetRecordCounts(rows)) = Cardinality(rows) BY <1>1, RecordCountsAddUp
<1>8. ASSUME NEW some PROVE InCategory(some, Nothing) = some BY DEF InCategory
<1>9. QED
  BY <1>3, <1>4, <1>5, <1>6, <1>7, <1>8 DEF TotalsAgree, GetFailures, GetRecoveryAttempts, GetOutcomes

(* Whatever transaction a store's connection is in and whatever the limits of its  *)
(* lists, its reports agree: a list over all sessions has rows of sessions the     *)
(* file knows only, and is the lists of those sessions together when it is shorter *)
(* than its limit, as no session is there twice (Broken, the foreign keys); the    *)
(* counts by category, result, verdict and table add up to the rows, and a list    *)
(* has as many of them as its limit lets it.                                       *)
THEOREM ReportsAlwaysAgree == StoreSpec => []ReportsAgree
<1>1. StoreInv => ReportsAgree
  BY SeenRows, LinkedListsWhole, LinkedTotalsAgree DEF ReportsAgree
<1>2. QED BY StoreAlways, <1>1, PTL

----------------------------------------------------------------------------
(* LearningGovernance                                                       *)

Observations == [count : 1 .. MaxCount, session : {SessionOf[f] : f \in Facts},
                 refs : SUBSET Facts]
Patterns == [count : 1 .. MaxCount, sessions : {1}]

\* What a command may hold: whatever makes knowledge durable, a person decided.
Outdated == [status : {"REVIEW_DUE", "STALE", "SUPERSEDED"}, age : 0 .. 2]
Writes ==
  [table : {"candidate"}, value : CandidateRecords, by : {"command", "person"}]
    \cup [table : {"decision"}, value : {"APPROVE", "REJECT"}, by : {"person"}]
    \cup [table : {"knowledge"}, value : Outdated, by : {"command", "person"}]
    \cup [table : {"knowledge"}, value : KnowledgeRecords, by : {"person"}]

LearningInv ==
  /\ LearningTypeOK
  /\ observation = None \/ observation \in Observations
  /\ pattern = None \/ pattern \in Patterns
  /\ hands \in [Commands -> Seq(Writes)]

\* A write to a table has a value of that table.
LEMMA WriteFacts ==
  ASSUME NEW w \in Writes
  PROVE  /\ w.table = "candidate" => w.value \in CandidateRecords
         /\ w.table = "decision" => w.value \in {"APPROVE", "REJECT"}
         /\ w.table = "knowledge" => w.value \in KnowledgeRecords
         /\ w.table = "knowledge" /\ w.value.status = "DURABLE" => w.by = "person"
  BY DEF Writes, Outdated, KnowledgeRecords

LEMMA LearningInitInv == LearningInit => LearningInv
  BY DEF LearningInit, LearningInv, LearningTypeOK

\* One more turn of run-observations counts on from what is there.
LEMMA ObservedAgain ==
  ASSUME NEW f \in Facts, observation = None \/ observation \in Observations
  PROVE  RecordObservation(observation, DeriveFromFailure(f)) \in Observations
  <1> USE LearningAssumption
  <1>1. DeriveFromFailure(f) \in Observations
        BY DEF DeriveFromFailure, Observations
  <1>2. CASE observation = None
        BY <1>1, <1>2 DEF RecordObservation
  <1>3. CASE observation # None
    <2>1. Counted(observation.count + DeriveFromFailure(f).count) \in 1 .. MaxCount
          BY <1>1, <1>3 DEF Counted, Observations
    <2> QED BY <1>1, <1>3, <2>1 DEF RecordObservation, Observations
  <1> QED BY <1>2, <1>3

\* The one signature's observations are of one session: a cluster has one.
LEMMA ClusterOfOne ==
  ASSUME observation \in Observations
  PROVE  DetectPatterns(observation) \in Patterns \cup {None}
  <1>1. Cardinality({observation.session}) = 1
        BY FS_Singleton
  <1> QED BY <1>1 DEF DetectPatterns, Observations, Patterns

LEMMA GeneratedCandidate ==
  ASSUME NEW p \in Patterns
  PROVE  GenerateCandidate(p) \in CandidateRecords
  BY DEF GenerateCandidate, Patterns, CandidateRecords, Statuses

\* What a command takes in hand keeps the invariant.
LEMMA HoldKeeps ==
  ASSUME LearningInv, NEW c \in Commands, NEW w \in Seq(Writes), Hold(c, w)
  PROVE  LearningInv'
  BY DEF LearningInv, LearningTypeOK, Hold

LEMMA CommandHolds ==
  ASSUME LearningInv, NEW c \in Commands,
         \/ CmdValidate(c) \/ CmdApprove(c) \/ CmdReject(c)
         \/ CmdDecay(c) \/ RevalidateKnowledge(c) \/ SupersedeKnowledge(c)
  PROVE  LearningInv' /\ knowledge' = knowledge
  <1>0. \A w \in Seq(Writes) : Hold(c, w) => LearningInv' /\ knowledge' = knowledge
    <2> SUFFICES ASSUME NEW w \in Seq(Writes), Hold(c, w)
                 PROVE  LearningInv' /\ knowledge' = knowledge
          OBVIOUS
    <2> QED BY HoldKeeps DEF Hold
  <1>1. CASE CmdValidate(c)
    <2> DEFINE v == IF EvaluateCandidateSafety(candidate, FALSE)
                    THEN [candidate EXCEPT !.status = "VALIDATED"] ELSE candidate
    <2>1. candidate \in CandidateRecords
          BY <1>1 DEF CmdValidate, LearningInv, LearningTypeOK
    <2>2. [candidate EXCEPT !.status = "VALIDATED"] \in CandidateRecords
          BY <2>1 DEF CandidateRecords, Statuses
    <2>3. v \in CandidateRecords
          BY <2>1, <2>2
    <2> HIDE DEF v
    <2>4. <<Write("candidate", v, "command")>> \in Seq(Writes)
          BY <2>3 DEF Write, Writes
    <2>5. Hold(c, <<Write("candidate", v, "command")>>)
          BY <1>1 DEF CmdValidate, v
    <2> QED BY <1>0, <2>4, <2>5
  <1>2. CASE CmdApprove(c)
    <2>1. [candidate EXCEPT !.status = "DURABLE"] \in CandidateRecords
          BY <1>2 DEF CmdApprove, LearningInv, LearningTypeOK, CandidateRecords, Statuses
    <2>2. Write("candidate", [candidate EXCEPT !.status = "DURABLE"], "person") \in Writes
          BY <2>1 DEF Write, Writes
    <2>3. Write("decision", "APPROVE", "person") \in Writes
          BY DEF Write, Writes
    <2>4. Write("knowledge", [status |-> "DURABLE", age |-> 0], "person") \in Writes
          BY DEF Write, Writes, KnowledgeRecords
    <2>5. <<Write("candidate", [candidate EXCEPT !.status = "DURABLE"], "person"),
            Write("decision", "APPROVE", "person"),
            Write("knowledge", [status |-> "DURABLE", age |-> 0], "person")>> \in Seq(Writes)
          BY <2>2, <2>3, <2>4
    <2> QED BY <1>0, <1>2, <2>5 DEF CmdApprove
  <1>3. CASE CmdReject(c)
    <2>1. [candidate EXCEPT !.status = "REJECTED"] \in CandidateRecords
          BY <1>3 DEF CmdReject, LearningInv, LearningTypeOK, CandidateRecords, Statuses
    <2>2. Write("candidate", [candidate EXCEPT !.status = "REJECTED"], "person") \in Writes
          BY <2>1 DEF Write, Writes
    <2>3. Write("decision", "REJECT", "person") \in Writes
          BY DEF Write, Writes
    <2>4. <<Write("candidate", [candidate EXCEPT !.status = "REJECTED"], "person"),
            Write("decision", "REJECT", "person")>> \in Seq(Writes)
          BY <2>2, <2>3
    <2> QED BY <1>0, <1>3, <2>4 DEF CmdReject
  <1>4. CASE CmdDecay(c)
    <2>1. knowledge \in KnowledgeRecords
          BY <1>4 DEF CmdDecay, LearningInv, LearningTypeOK
    <2>2. EvaluateKnowledge(knowledge) \in Outdated
          BY <1>4, <2>1 DEF CmdDecay, EvaluateKnowledge, KnowledgeRecords, Outdated
    <2>3. <<Write("knowledge", EvaluateKnowledge(knowledge), "command")>> \in Seq(Writes)
          BY <2>2 DEF Write, Writes
    <2> QED BY <1>0, <1>4, <2>3 DEF CmdDecay
  <1>5. CASE RevalidateKnowledge(c)
    <2>1. <<Write("knowledge", [status |-> "DURABLE", age |-> 0], "person")>> \in Seq(Writes)
          BY DEF Write, Writes, KnowledgeRecords
    <2> QED BY <1>0, <1>5, <2>1 DEF RevalidateKnowledge
  <1>6. CASE SupersedeKnowledge(c)
    <2>1. [knowledge EXCEPT !.status = "SUPERSEDED"] \in Outdated
          BY <1>6 DEF SupersedeKnowledge, LearningInv, LearningTypeOK, KnowledgeRecords, Outdated
    <2>2. <<Write("knowledge", [knowledge EXCEPT !.status = "SUPERSEDED"], "person")>>
            \in Seq(Writes)
          BY <2>1 DEF Write, Writes
    <2> QED BY <1>0, <1>6, <2>2 DEF SupersedeKnowledge
  <1> QED BY <1>1, <1>2, <1>3, <1>4, <1>5, <1>6

\* The store's answers to a command's next write, and the end of a command.
LEMMA WriteStep ==
  ASSUME LearningInv, NEW c \in Commands,
         \/ RecordImprovementCandidate(c) \/ RecordGovernanceDecision(c)
         \/ RecordDurableKnowledge(c) \/ Refuse(c) \/ Kill(c)
  PROVE  LearningInv' /\ RevivedByPerson
  <1>1. hands \in [Commands -> Seq(Writes)]
        BY DEF LearningInv
  <1>2. CASE Kill(c)
        BY <1>1, <1>2 DEF Kill, LearningInv, LearningTypeOK, RevivedByPerson
  <1>3. CASE ~Kill(c)
    <2>1. ~Idle(c) /\ Rest(c)
          BY <1>3 DEF RecordImprovementCandidate, RecordGovernanceDecision,
                      RecordDurableKnowledge, Refuse
    <2>2. hands[c] \in Seq(Writes) /\ hands[c] # << >>
          BY <1>1, <2>1 DEF Idle
    <2>3. Head(hands[c]) \in Writes /\ Tail(hands[c]) \in Seq(Writes)
          BY <2>2
    <2>4. hands' \in [Commands -> Seq(Writes)]
          BY <1>1, <2>1, <2>3 DEF Rest
    <2>5. PICK w \in Writes : w = Head(hands[c])
          BY <2>3
    <2>6. CASE RecordImprovementCandidate(c)
          BY <2>4, <2>5, <2>6, WriteFacts DEF RecordImprovementCandidate, LearningInv,
             LearningTypeOK, RevivedByPerson
    <2>7. CASE RecordGovernanceDecision(c)
          BY <2>4, <2>5, <2>7, WriteFacts DEF RecordGovernanceDecision, LearningInv,
             LearningTypeOK, RevivedByPerson
    <2>8. CASE RecordDurableKnowledge(c)
      <3>1. w.value \in KnowledgeRecords /\ knowledge' = w.value
            BY <2>5, <2>8, WriteFacts DEF RecordDurableKnowledge
      <3>2. LearningInv'
            BY <2>4, <2>8, <3>1 DEF RecordDurableKnowledge, LearningInv, LearningTypeOK
      <3>3. RevivedByPerson
            BY <2>5, <2>8, <3>1, WriteFacts DEF RecordDurableKnowledge, RevivedByPerson
      <3> QED BY <3>2, <3>3
    <2>9. CASE Refuse(c)
          BY <2>4, <2>9 DEF Refuse, LearningInv, LearningTypeOK, RevivedByPerson
    <2> QED BY <1>3, <2>6, <2>7, <2>8, <2>9
  <1> QED BY <1>2, <1>3

LEMMA LearningStep == LearningInv /\ LearningNext => LearningInv' /\ RevivedByPerson
  <1> SUFFICES ASSUME LearningInv, LearningNext
               PROVE  LearningInv' /\ RevivedByPerson
        OBVIOUS
  <1>1. ASSUME NEW f \in Facts, FactRecorded(f)
        PROVE  LearningInv' /\ RevivedByPerson
        BY <1>1 DEF FactRecorded, LearningInv, LearningTypeOK, RevivedByPerson
  <1>2. CASE RunObservations
    <2>1. PICK f \in facts :
            observation' = RecordObservation(observation, DeriveFromFailure(f))
          BY <1>2 DEF RunObservations
    <2>2. f \in Facts
          BY DEF LearningInv, LearningTypeOK
    <2>3. observation' \in Observations
          BY <2>1, <2>2, ObservedAgain DEF LearningInv
    <2> QED BY <1>2, <2>3 DEF RunObservations, LearningInv, LearningTypeOK, RevivedByPerson
  <1>3. CASE RunPatterns
    <2>1. pattern' = None \/ pattern' \in Patterns
          BY <1>3, ClusterOfOne DEF RunPatterns, LearningInv
    <2> QED BY <1>3, <2>1 DEF RunPatterns, LearningInv, LearningTypeOK, RevivedByPerson
  <1>4. CASE RunCandidates
    <2>1. candidate' \in CandidateRecords
          BY <1>4, GeneratedCandidate DEF RunCandidates, LearningInv
    <2> QED BY <1>4, <2>1 DEF RunCandidates, LearningInv, LearningTypeOK, RevivedByPerson
  <1>5. ASSUME NEW c \in Commands,
               \/ CmdValidate(c) \/ CmdApprove(c) \/ CmdReject(c)
               \/ CmdDecay(c) \/ RevalidateKnowledge(c) \/ SupersedeKnowledge(c)
        PROVE  LearningInv' /\ RevivedByPerson
        BY <1>5, CommandHolds DEF RevivedByPerson
  <1>6. CASE Day
    <2>1. knowledge \in KnowledgeRecords
          BY <1>6 DEF Day, LearningInv, LearningTypeOK
    <2>2. knowledge' \in KnowledgeRecords /\ knowledge'.status = knowledge.status
          BY <1>6, <2>1 DEF Day, KnowledgeRecords
    <2> QED BY <1>6, <2>2 DEF Day, LearningInv, LearningTypeOK, RevivedByPerson
  <1> QED BY <1>1, <1>2, <1>3, <1>4, <1>5, <1>6, WriteStep DEF LearningNext

LEMMA LearningAlways == LearningSpec => []LearningInv
  <1>1. LearningInv /\ UNCHANGED learningVars => LearningInv'
        BY DEF LearningInv, LearningTypeOK, learningVars
  <1>2. LearningInv /\ [LearningNext]_learningVars => LearningInv'
        BY <1>1, LearningStep
  <1> QED BY LearningInitInv, <1>2, PTL DEF LearningSpec

\* For any failures and commands: the records and what commands hold of them
\* have their types, and a candidate's evidence stays within what was counted.
THEOREM LearningTypes == LearningSpec => []LearningTypeOK
  <1>1. LearningInv => LearningTypeOK
        BY DEF LearningInv
  <1> QED BY LearningAlways, <1>1, PTL

\* For any number of commands that read, are overtaken and write late: stale
\* knowledge becomes durable again only by a person's write.
THEOREM PeopleRevive == LearningSpec => OnlyPeopleRevive
  <1>1. LearningInv /\ [LearningNext]_learningVars => [RevivedByPerson]_learningVars
        BY LearningStep
  <1> QED BY LearningAlways, <1>1, PTL DEF LearningSpec, OnlyPeopleRevive

----------------------------------------------------------------------------
(* AgentBridge                                                              *)

Context == [session : OrNobody(Sessions), mission : OrNobody(Missions),
            project : OrNobody(Projects)]
Links(S) == [rule : Rules, session : S, mission : OrNobody(Missions),
             action : OrNobody(Actions), sure : {"EXACT", "HIGH", "MEDIUM", "LOW"}]

\* A settled action that its session owns, and a window of such actions.
Owns(o, r) == r \in Settled /\ o[r.action] = r.session
Owned(r) == Owns(owner, r)
OwnedWindow(w) == w \in Seq(Settled) /\ \A i \in DOMAIN w : Owned(w[i])

\* A link by name, argument or conversation is to the session's own action.
OwnAction(l) ==
  l.rule \in {"action id", "tool argument", "conversation and action"} /\ l.action /= Nobody
    => l.session \in Sessions /\ l.action \in Actions /\ owner[l.action] = l.session

BridgeInv ==
  /\ BridgeTypeOK
  /\ OwnedWindow(recent)
  /\ \A l \in links : OwnAction(l)

LEMMA BridgeInitInv == BridgeInit => BridgeInv
  <1> SUFFICES ASSUME BridgeInit PROVE BridgeInv
        OBVIOUS
  <1>1. recent = << >> /\ << >> \in Seq(Settled) /\ Len(<< >>) = 0
        BY DEF BridgeInit
  <1>2. BridgeTypeOK
        BY <1>1, BridgeAssumption DEF BridgeInit, BridgeTypeOK, Unknown, OrNobody
  <1>3. OwnedWindow(recent)
        BY <1>1 DEF OwnedWindow
  <1> QED BY <1>2, <1>3 DEF BridgeInit, BridgeInv

\* The closest action is an action of the window.
LEMMA ClosestIsOwned ==
  ASSUME NEW w, OwnedWindow(w), NEW limit
  PROVE  \A r \in FindClosestAction(w, limit) : Owned(r)
  BY DEF FindClosestAction, OwnedWindow

LEMMA ActionInWindow ==
  ASSUME NEW found, \A r \in found : Owned(r)
  PROVE  /\ ActionIn(found) \in OrNobody(Actions)
         /\ ActionIn(found) /= Nobody =>
              \E r \in found : ActionIn(found) = r.action
  BY DEF ActionIn, Owned, Owns, Settled, OrNobody

\* Whatever the rules find is a link, and one of the session's own where they
\* went by name, argument or conversation.
LEMMA RuleExplicit ==
  ASSUME NEW e, NEW c \in Context, NEW w, OwnedWindow(w),
         NEW l \in ExplicitMatch(e, c, w)
  PROVE  l \in Links(OrNobody(Sessions)) /\ OwnAction(l)
  <1> DEFINE named == {w[i] : i \in {j \in DOMAIN w : w[j].action = e.about}}
  <1>1. CASE named /= {}
    <2>1. PICK r : r = (CHOOSE x \in named : TRUE)
          OBVIOUS
    <2>2. r \in named
          BY <1>1, <2>1
    <2>3. Owned(r)
          BY <2>2 DEF OwnedWindow
    <2>4. l = Link("action id", r.session, r.mission, r.action, "EXACT")
          BY <1>1, <2>1 DEF ExplicitMatch
    <2> QED BY <2>3, <2>4 DEF Link, Links, Rules, OwnAction, Owned, Owns, Settled, OrNobody
  <1>2. CASE named = {}
    <2>1. l = Link("session id", c.session, c.mission, Nobody, "EXACT")
          BY <1>2 DEF ExplicitMatch
    <2> QED BY <2>1 DEF Link, Links, Rules, OwnAction, Context, OrNobody
  <1> QED BY <1>1, <1>2

LEMMA RuleToolArgument ==
  ASSUME NEW e, NEW c \in Context, NEW w, OwnedWindow(w),
         NEW l \in ToolArgument(e, c, w)
  PROVE  l \in Links({e.session}) /\ OwnAction(l)
  <1> DEFINE near == FindClosestAction(w, "near")
             mine == {r \in near : r.session = e.session}
             mission == {r.mission : r \in near} \ {Nobody}
  <1>1. PICK m : m = IF mission = {} THEN c.mission ELSE CHOOSE x \in mission : TRUE
        OBVIOUS
  <1>2. PICK a : a = ActionIn(mine)
        OBVIOUS
  <1>3. l = Link("tool argument", e.session, m, a, "EXACT")
        BY <1>1, <1>2 DEF ToolArgument
  <1>4. \A r \in near : Owned(r)
        BY ClosestIsOwned
  <1>5. m \in OrNobody(Missions)
    <2>1. \A x \in mission : x \in OrNobody(Missions)
          BY <1>4 DEF Owns, Owned, Settled
    <2> QED BY <1>1, <2>1 DEF Context
  <1>6. a \in OrNobody(Actions) /\ (a /= Nobody => \E r \in mine : a = r.action)
        BY <1>2, <1>4, ActionInWindow
  <1>7. a /= Nobody => e.session \in Sessions /\ a \in Actions /\ owner[a] = e.session
        BY <1>4, <1>6 DEF Owns, Owned, Settled
  <1> HIDE DEF near, mine, mission
  <1> QED BY <1>3, <1>5, <1>6, <1>7 DEF Link, Links, Rules, OwnAction

LEMMA RuleActiveSession ==
  ASSUME NEW e, NEW c \in Context, NEW w, OwnedWindow(w),
         NEW l \in ToolInActiveSession(e, c, w)
  PROVE  l \in Links(OrNobody(Sessions)) /\ OwnAction(l)
  <1>1. PICK a : a = ActionIn(FindClosestAction(w, "near"))
        OBVIOUS
  <1>2. a \in OrNobody(Actions)
        BY <1>1, ClosestIsOwned, ActionInWindow
  <1>3. PICK sure \in {"EXACT", "HIGH"} :
          l = Link("active session", c.session, c.mission, a, sure)
        BY <1>1 DEF ToolInActiveSession
  <1> QED BY <1>2, <1>3 DEF Link, Links, Rules, OwnAction, Context

LEMMA RuleConversation ==
  ASSUME NEW e, NEW c \in Context, NEW w, OwnedWindow(w), NEW s \in Sessions,
         NEW l \in ConversationMatch(e, c, w, s)
  PROVE  l \in Links(OrNobody(Sessions)) /\ OwnAction(l)
  <1> DEFINE mine == {r \in FindClosestAction(w, "near") : r.session = s}
  <1>1. \A r \in mine : Owned(r) /\ r.session = s
        BY ClosestIsOwned
  <1>2. CASE mine = {}
    <2>1. l = Link("conversation", s, c.mission, Nobody, "MEDIUM")
          BY <1>2 DEF ConversationMatch
    <2> QED BY <2>1 DEF Link, Links, Rules, OwnAction, Context, OrNobody
  <1>3. CASE mine /= {}
    <2>1. PICK r \in mine :
            l = Link("conversation and action", s, r.mission, r.action, "HIGH")
          BY <1>3 DEF ConversationMatch
    <2>2. Owned(r) /\ r.session = s
          BY <1>1
    <2> QED BY <2>1, <2>2 DEF Link, Links, Rules, OwnAction, Owned, Owns, Settled, OrNobody
  <1> QED BY <1>2, <1>3

LEMMA RuleProject ==
  ASSUME NEW e, NEW c \in Context, NEW w, OwnedWindow(w),
         NEW l \in ProjectMatch(e, c, w)
  PROVE  l \in Links(OrNobody(Sessions)) /\ OwnAction(l)
  <1>1. PICK a : a = ActionIn(FindClosestAction(w, "far"))
        OBVIOUS
  <1>2. a \in OrNobody(Actions)
        BY <1>1, ClosestIsOwned, ActionInWindow
  <1>3. \/ l = Link("project", c.session, c.mission, Nobody, "LOW")
        \/ l = Link("project and action", c.session, c.mission, a, "MEDIUM")
        BY <1>1 DEF ProjectMatch
  <1>4. CASE l = Link("project", c.session, c.mission, Nobody, "LOW")
        BY <1>4 DEF Link, Links, Rules, OwnAction, Context, OrNobody
  <1>5. CASE l = Link("project and action", c.session, c.mission, a, "MEDIUM")
        BY <1>2, <1>5 DEF Link, Links, Rules, OwnAction, Context
  <1> QED BY <1>3, <1>4, <1>5

LEMMA CorrelatedLinks ==
  ASSUME NEW e, NEW c \in Context, NEW w, OwnedWindow(w), NEW t,
         NEW l \in CorrelateEvent(e, c, w, t), l.session \in OrNobody(Sessions)
  PROVE  l \in Links(OrNobody(Sessions)) /\ OwnAction(l)
  <1> DEFINE same == {s \in Sessions : t[s] = e.conversation}
  <1>1. CASE l \in ExplicitMatch(e, c, w)
        BY <1>1, RuleExplicit
  <1>2. CASE l \in ToolArgument(e, c, w)
    <2>1. l \in Links({e.session}) /\ OwnAction(l)
          BY <1>2, RuleToolArgument
    <2>2. l \in Links(OrNobody(Sessions))
          BY <2>1 DEF Links
    <2> QED BY <2>1, <2>2
  <1>3. CASE l \in ToolInActiveSession(e, c, w)
        BY <1>3, RuleActiveSession
  <1>4. CASE same /= {} /\ l \in ConversationMatch(e, c, w, CHOOSE s \in same : TRUE)
    <2>1. PICK s \in Sessions : s = CHOOSE x \in same : TRUE
          BY <1>4
    <2> QED BY <1>4, <2>1, RuleConversation
  <1>5. CASE l \in ProjectMatch(e, c, w)
        BY <1>5, RuleProject
  <1> QED BY <1>1, <1>2, <1>3, <1>4, <1>5 DEF CorrelateEvent

LEMMA HookKeeps ==
  ASSUME BridgeInv, hooks < MaxHooks, NEW name, NEW p, NEW own \in BOOLEAN,
         ExecuteHook(name, p, own)
  PROVE  BridgeInv'
  <1>1. hooks' \in 0 .. MaxHooks
        BY BridgeAssumption DEF ExecuteHook, BridgeInv, BridgeTypeOK
  <1>2. UNCHANGED <<active, talks, recent, owner, reviewed>>
        BY DEF ExecuteHook
  <1>3. CASE CheckForbiddenKeys(p)
    <2>1. PICK e : e = TranslateHook(name, p)
          OBVIOUS
    <2>2. PICK found : /\ found = IF own THEN CorrelateEvent(e, active, recent, talks)
                                  ELSE CorrelateEvent(e, Unknown, <<>>, [s \in Sessions |-> Nobody])
                       /\ links' = links \cup {l \in found : l.session \in OrNobody(reviewed)}
          BY <1>3, <2>1 DEF ExecuteHook, IngestEvent, RecordAgentCorrelation
    <2>3. active \in Context /\ OwnedWindow(recent)
          BY DEF BridgeInv, BridgeTypeOK, Context
    <2>4. Unknown \in Context /\ OwnedWindow(<<>>)
          BY DEF Unknown, Context, OrNobody, OwnedWindow
    <2>5. \A l \in links' : l \in Links(OrNobody(Sessions)) /\ OwnAction(l)
      <3> SUFFICES ASSUME NEW l \in links'
                   PROVE  l \in Links(OrNobody(Sessions)) /\ OwnAction(l)
            OBVIOUS
      <3>1. CASE l \in links
            BY <3>1 DEF BridgeInv, BridgeTypeOK, Links
      <3>2. CASE l \notin links
        <4>1. l \in found /\ l.session \in OrNobody(Sessions)
              BY <2>2, <3>2 DEF BridgeInv, BridgeTypeOK, OrNobody
        <4>2. CASE own
              BY <2>2, <2>3, <4>1, <4>2, CorrelatedLinks
        <4>3. CASE ~own
              BY <2>2, <2>4, <4>1, <4>3, CorrelatedLinks
        <4> QED BY <4>2, <4>3
      <3> QED BY <3>1, <3>2
    <2>6. links' \subseteq Links(OrNobody(Sessions))
          BY <2>5
    <2>7. \A l \in links' : OwnAction(l)'
          BY <1>2, <2>5 DEF OwnAction
    <2>8. BridgeTypeOK'
          BY <1>1, <1>2, <2>6 DEF BridgeInv, BridgeTypeOK, Links
    <2>9. OwnedWindow(recent)'
          BY <1>2, <2>3 DEF OwnedWindow, Owned, Owns
    <2> QED BY <2>7, <2>8, <2>9 DEF BridgeInv
  <1>4. CASE ~CheckForbiddenKeys(p)
    <2>1. UNCHANGED links
          BY <1>4 DEF ExecuteHook
    <2>2. BridgeTypeOK'
          BY <1>1, <1>2, <2>1 DEF BridgeInv, BridgeTypeOK
    <2> QED BY <1>2, <2>1, <2>2 DEF BridgeInv, OwnedWindow, Owned, Owns, OwnAction
  <1> QED BY <1>3, <1>4

\* An action settles once, in one session: the links to others are untouched.
LEMMA SettledKeeps ==
  ASSUME BridgeInv, NEW a \in Actions, NEW s \in Sessions, RecordDwrAction(a, s)
  PROVE  BridgeInv'
  <1> DEFINE entry == [action |-> a, session |-> s, mission |-> active.mission, age |-> "near"]
             longer == Append(recent, entry)
  <1>1. owner \in [Actions -> OrNobody(Sessions)] /\ owner[a] = Nobody
        BY DEF BridgeInv, BridgeTypeOK, RecordDwrAction
  <1>2. owner' = [owner EXCEPT ![a] = s]
        BY DEF RecordDwrAction
  <1>3. \A r : Owned(r) => Owns(owner', r)
        BY <1>1, <1>2, BridgeAssumption DEF Owns, Owned, Settled
  <1>4. entry \in Settled /\ Owns(owner', entry)
        BY <1>1, <1>2 DEF Owns, Owned, Settled, Ages, BridgeInv, BridgeTypeOK
  <1> HIDE DEF entry
  <1>5. /\ recent \in Seq(Settled) /\ Len(recent) <= WindowSize
        /\ \A i \in 1 .. Len(recent) : Owned(recent[i])
        BY DEF BridgeInv, BridgeTypeOK, OwnedWindow
  <1>6. /\ longer \in Seq(Settled) /\ Len(longer) = Len(recent) + 1
        /\ \A i \in 1 .. Len(longer) : Owns(owner', longer[i])
    <2>1. \A i \in 1 .. Len(recent) + 1 :
            longer[i] = IF i = Len(recent) + 1 THEN entry ELSE recent[i]
          BY <1>4, <1>5
    <2>2. longer \in Seq(Settled) /\ Len(longer) = Len(recent) + 1
          BY <1>4, <1>5
    <2>3. ASSUME NEW i \in 1 .. Len(recent) + 1
          PROVE  Owns(owner', longer[i])
      <3>1. CASE i = Len(recent) + 1
            BY <1>4, <2>1, <3>1
      <3>2. CASE i # Len(recent) + 1
        <4>1. i \in 1 .. Len(recent) /\ longer[i] = recent[i]
              BY <1>5, <2>1, <3>2
        <4> QED BY <1>3, <1>5, <4>1
      <3> QED BY <3>1, <3>2
    <2> QED BY <2>2, <2>3
  <1>7. recent' = IF Len(longer) > WindowSize THEN Tail(longer) ELSE longer
        BY DEF RecordDwrAction, entry
  <1> HIDE DEF longer
  <1>8. recent' \in Seq(Settled) /\ Len(recent') <= WindowSize
        BY <1>5, <1>6, <1>7, BridgeAssumption
  <1>9. \A i \in 1 .. Len(recent') : \E j \in 1 .. Len(longer) : recent'[i] = longer[j]
    <2>1. CASE Len(longer) > WindowSize
      <3>1. /\ recent' = Tail(longer) /\ longer # << >> /\ Len(recent') = Len(longer) - 1
            /\ \A i \in 1 .. Len(recent') : recent'[i] = longer[i + 1]
            BY <1>5, <1>6, <1>7, <2>1, BridgeAssumption
      <3>2. Len(longer) \in Nat
            BY <1>6
      <3> QED BY <3>1, <3>2
    <2>2. CASE ~(Len(longer) > WindowSize)
          BY <1>7, <2>2
    <2> QED BY <2>1, <2>2
  <1>10. OwnedWindow(recent)'
    <2>1. \A i \in 1 .. Len(recent') : Owns(owner', recent'[i])
          BY <1>6, <1>9
    <2> QED BY <1>8, <2>1 DEF Owned, OwnedWindow
  <1>11. BridgeTypeOK'
        BY <1>1, <1>2, <1>8 DEF RecordDwrAction, BridgeInv, BridgeTypeOK, OrNobody
  <1>12. \A l \in links' : OwnAction(l)'
        BY <1>1, <1>2, BridgeAssumption DEF RecordDwrAction, BridgeInv, OwnAction
  <1> QED BY <1>10, <1>11, <1>12 DEF BridgeInv

LEMMA TickKeeps == BridgeInv /\ Tick => BridgeInv'
  <1> SUFFICES ASSUME BridgeInv, Tick PROVE BridgeInv'
        OBVIOUS
  <1>1. recent \in Seq(Settled) /\ Len(recent) <= WindowSize /\ DOMAIN recent = 1 .. Len(recent)
        BY DEF BridgeInv, BridgeTypeOK
  <1>2. \A i \in 1 .. Len(recent) :
          /\ [recent[i] EXCEPT !.age = Older(@)] \in Settled
          /\ [recent[i] EXCEPT !.age = Older(@)].action = recent[i].action
          /\ [recent[i] EXCEPT !.age = Older(@)].session = recent[i].session
    <2> SUFFICES ASSUME NEW r \in Settled
                 PROVE  /\ [r EXCEPT !.age = Older(@)] \in Settled
                        /\ [r EXCEPT !.age = Older(@)].action = r.action
                        /\ [r EXCEPT !.age = Older(@)].session = r.session
          BY <1>1
    <2> QED BY DEF Settled, Ages, Older
  <1>3. recent' = [i \in 1 .. Len(recent) |-> [recent[i] EXCEPT !.age = Older(@)]]
        BY <1>1 DEF Tick
  <1>4. recent' \in Seq(Settled) /\ Len(recent') = Len(recent)
        BY <1>1, <1>2, <1>3
  <1>5. \A i \in 1 .. Len(recent) :
          recent'[i].action = recent[i].action /\ recent'[i].session = recent[i].session
        BY <1>2, <1>3
  <1>6. OwnedWindow(recent)'
        BY <1>1, <1>4, <1>5 DEF BridgeInv, OwnedWindow, Owned, Owns, Tick
  <1>7. BridgeTypeOK'
        BY <1>1, <1>4 DEF Tick, BridgeInv, BridgeTypeOK
  <1> QED BY <1>6, <1>7 DEF Tick, BridgeInv, OwnAction

LEMMA BridgeNextInv == BridgeInv /\ [BridgeNext]_bridgeVars => BridgeInv'
  <1> SUFFICES ASSUME BridgeInv, [BridgeNext]_bridgeVars PROVE BridgeInv'
        OBVIOUS
  <1>1. CASE UNCHANGED bridgeVars
        BY <1>1 DEF bridgeVars, BridgeInv, BridgeTypeOK, OwnedWindow, Owned, Owns, OwnAction
  <1>2. ASSUME NEW s \in Sessions, NEW p \in OrNobody(Projects),
               NEW c \in OrNobody(Conversations), NEW b \in BOOLEAN,
               SetActiveSession(s, p, c, b)
        PROVE  BridgeInv'
    <2>1. BridgeTypeOK'
          BY <1>2 DEF SetActiveSession, BridgeInv, BridgeTypeOK, OrNobody
    <2> QED BY <1>2, <2>1 DEF SetActiveSession, BridgeInv, OwnedWindow, Owned, Owns, OwnAction
  <1>3. ASSUME NEW m \in Missions, NEW s \in Sessions, SetActiveMission(m, s)
        PROVE  BridgeInv'
    <2>1. BridgeTypeOK'
          BY <1>3 DEF SetActiveMission, BridgeInv, BridgeTypeOK, OrNobody
    <2> QED BY <1>3, <2>1 DEF SetActiveMission, BridgeInv, OwnedWindow, Owned, Owns, OwnAction
  <1>4. CASE BridgeNext
        BY <1>2, <1>3, <1>4, SettledKeeps, TickKeeps, HookKeeps DEF BridgeNext
  <1> QED BY <1>1, <1>4

LEMMA BridgeAlways == BridgeSpec => []BridgeInv
  BY BridgeInitInv, BridgeNextInv, PTL DEF BridgeSpec

\* For any sessions, missions, actions, payloads and window: the correlator's
\* state and the links in the store have their types and the window its bound.
THEOREM BridgeTypes == BridgeSpec => []BridgeTypeOK
  <1>1. BridgeInv => BridgeTypeOK
        BY DEF BridgeInv
  <1> QED BY BridgeAlways, <1>1, PTL

\* For any number of sessions active at a time, hooks and settled actions: a
\* link made by name, argument or conversation is to the session's own action.
THEOREM LinksAreOwn == BridgeSpec => []LinkedActionIsOfItsSession
  <1>1. BridgeInv => LinkedActionIsOfItsSession
        BY DEF BridgeInv, OwnAction, LinkedActionIsOfItsSession
  <1> QED BY BridgeAlways, <1>1, PTL

--------------------------------------------------------------------------------
(* The composition (MCRecords).  A behaviour of the whole is one of each part: the *)
(* part that runs takes its own steps, the others none.  So each theorem above is  *)
(* about what the runs check.                                                      *)
recordsVars == <<part, updaterVars, injectorVars, harnessVars, evidenceVars, storeVars,
                 learningVars, bridgeVars>>

Parts == {"updater", "injector", "harness", "evidence", "store", "learning", "bridge"}

LEMMA PartsStep ==
  ASSUME [Next]_recordsVars
  PROVE  /\ [UpdaterNext]_updaterVars /\ [InjectorNext]_injectorVars /\ [HarnessNext]_harnessVars
         /\ [EvidenceNext]_evidenceVars /\ [StoreNext]_storeVars
         /\ [LearningNext]_learningVars /\ [BridgeNext]_bridgeVars
         /\ UNCHANGED part
<1>1. \/ RunUpdater \/ RunInjector \/ RunHarness \/ RunEvidence \/ RunStore \/ RunLearning
      \/ RunBridge \/ UNCHANGED recordsVars
  BY DEF Next
<1>2. CASE RunUpdater BY <1>2 DEF RunUpdater
<1>3. CASE RunInjector BY <1>3 DEF RunInjector
<1>4. CASE RunHarness BY <1>4 DEF RunHarness
<1>5. CASE RunEvidence BY <1>5 DEF RunEvidence
<1>6. CASE RunStore BY <1>6 DEF RunStore
<1>7. CASE RunLearning BY <1>7 DEF RunLearning
<1>8. CASE RunBridge BY <1>8 DEF RunBridge
<1>9. CASE UNCHANGED recordsVars BY <1>9 DEF recordsVars
<1>10. QED BY <1>1, <1>2, <1>3, <1>4, <1>5, <1>6, <1>7, <1>8, <1>9, Zenon

(* What MCRecords composes are the specifications of the seven components.          *)
THEOREM RecordsComposed ==
  Spec => /\ UpdaterSpec /\ InjectorSpec /\ HarnessSpec /\ EvidenceSpec
          /\ StoreSpec /\ LearningSpec /\ BridgeSpec
<1>1. Init => /\ UpdaterInit /\ InjectorInit /\ HarnessInit /\ EvidenceInit
              /\ StoreInit /\ LearningInit /\ BridgeInit
  BY DEF Init
<1>2. [Next]_recordsVars
        => /\ [UpdaterNext]_updaterVars /\ [InjectorNext]_injectorVars /\ [HarnessNext]_harnessVars
           /\ [EvidenceNext]_evidenceVars /\ [StoreNext]_storeVars
           /\ [LearningNext]_learningVars /\ [BridgeNext]_bridgeVars
  BY PartsStep
<1>3. Spec => Init /\ [][Next]_recordsVars BY DEF Spec, recordsVars
<1>4. QED
  BY <1>1, <1>2, <1>3, PTL
     DEF UpdaterSpec, InjectorSpec, HarnessSpec, EvidenceSpec, StoreSpec, LearningSpec, BridgeSpec

(* Whichever of the components that keep records runs, its variables have their    *)
(* types, in every instance of them.                                               *)
THEOREM RecordsTyped == Spec => []RecordsTypeOK
<1> DEFINE OnePart == part \in Parts
<1>1. Init => OnePart BY DEF Init, Parts
<1>2. OnePart /\ [Next]_recordsVars => OnePart'
  BY PartsStep
<1>3. /\ OnePart
      /\ UpdaterTypeOK /\ InjectorTypeOK /\ HarnessTypeOK /\ EvidenceTypeOK
      /\ StoreTypeOK /\ LearningTypeOK /\ BridgeTypeOK
      => RecordsTypeOK
  BY DEF Parts, RecordsTypeOK
<1>4. Spec => Init /\ [][Next]_recordsVars BY DEF Spec, recordsVars
<1>5. Spec => []OnePart
  BY <1>1, <1>2, <1>4, PTL
<1>6. Spec => []UpdaterTypeOK /\ []InjectorTypeOK /\ []HarnessTypeOK /\ []EvidenceTypeOK
  BY RecordsComposed, UpdaterTypes, InjectorTypes, HarnessTypes, EvidenceTypes
<1>7. Spec => []StoreTypeOK /\ []LearningTypeOK /\ []BridgeTypeOK
  BY RecordsComposed, StoreTypes, LearningTypes, BridgeTypes
<1>8. QED
  BY <1>3, <1>5, <1>6, <1>7, PTL
=============================================================================
