---------------------------------- MODULE Updater ----------------------------------
(* runtime/lifecycle: install, roll back and repair the installed package against *)
(* a registry file that outlives the process.  A command is one process; it may   *)
(* die between any two of its writes.  The file is replaced atomically, so it is   *)
(* either whole or, when something else destroyed it, absent.                      *)
EXTENDS Integers, FiniteSets

CONSTANTS
  Versions,     \* semantic versions, in the order of the integers
  Released,     \* the versions GitHub lists
  Prereleases,  \* those of them that are marked so
  Good,         \* the versions whose self-test passes
  Delivers      \* the version the package under a version's name really declares

\* What the constants must be.
ASSUME UpdaterAssumption ==
  /\ Versions \subseteq Nat \ {0}
  /\ Versions # {}
  /\ Released \subseteq Versions
  /\ Prereleases \subseteq Released
  /\ Good \subseteq Versions
  /\ Delivers \in [Versions -> Versions]

VARIABLES
  package,    \* the version of the installed package
  record,     \* the registry file
  command,    \* the running command: its step, target, and the version it read first
  answer,     \* what the last command told its user
  pinWish     \* the pin the user asked for last (observed, not in the code)

updaterVars == <<package, record, command, answer, pinWish>>

NoVersion == 0
NoFile == [installed |-> NoVersion, known |-> NoVersion, pin |-> NoVersion, status |-> "ABSENT"]

Records ==
  [installed: Versions, known: Versions \cup {NoVersion}, pin: Versions \cup {NoVersion},
   status: {"NONE", "SUCCESS", "FAILED"}]

Steps == {"idle", "installing", "validating", "committing", "failing", "reverting",
          "restoring", "verifying", "recommitting"}

UpdaterCommands == [step: Steps, target: Versions \cup {NoVersion}, was: Versions \cup {NoVersion}]
NoCommand == [step |-> "idle", target |-> NoVersion, was |-> NoVersion]

UpdaterTypeOK ==
  /\ package \in Versions
  /\ record \in Records \cup {NoFile}
  /\ command \in UpdaterCommands
  /\ answer \in {"none", "done", "already", "refused", "failed", "PINNED", "UP_TO_DATE",
                 "UPDATE_AVAILABLE", "CHECK_UNAVAILABLE", "PASS", "FAIL"}
  /\ pinWish \in Versions \cup {NoVersion}

UpdaterInit ==
  /\ package \in Good
  /\ record = NoFile
  /\ command = NoCommand
  /\ answer = "none"
  /\ pinWish = NoVersion

(* The registry.  get_state makes a default record when there is no file.          *)
InitializeDefaultState ==
  [installed |-> package, known |-> NoVersion, pin |-> NoVersion, status |-> "NONE"]

GetState == IF record = NoFile THEN InitializeDefaultState ELSE record

RecordValidationSuccess(v) == [GetState EXCEPT !.installed = v]

SetPin(v) == [GetState EXCEPT !.pin = v]

ClearPin == [GetState EXCEPT !.pin = NoVersion]

(* record_update_success; the first, which starts from a default record, is its    *)
(* mutant.                                                                         *)
RecordFreshSuccess(v, previous) ==
  [InitializeDefaultState EXCEPT !.known = previous, !.installed = v, !.status = "SUCCESS"]

RecordUpdateSuccess(v, previous) ==
  LET state == GetState IN
  [state EXCEPT !.known = IF previous # NoVersion THEN previous ELSE state.installed,
                !.installed = v, !.status = "SUCCESS"]

RecordUpdateFailure == [GetState EXCEPT !.status = "FAILED"]

(* The releases, when GitHub answers; none of them when it does not.               *)
FetchReleases(online) == IF online THEN Released ELSE {}

LatestStable(releases) ==
  LET stable == releases \ Prereleases IN
  IF stable = {} THEN NoVersion ELSE CHOOSE v \in stable : \A w \in stable : w <= v

ReleaseByVersion(v, releases) == IF v \in releases THEN v ELSE NoVersion

(* check_for_updates.                                                              *)
UpdateCheck(state, releases) ==
  LET latest == LatestStable(releases) IN
  CASE state.pin # NoVersion -> "PINNED"
    [] state.pin = NoVersion /\ releases = {} -> "CHECK_UNAVAILABLE"
    [] state.pin = NoVersion /\ releases # {} /\ latest > state.installed -> "UPDATE_AVAILABLE"
    [] OTHER -> "UP_TO_DATE"

CheckForUpdates(online) ==
  /\ command = NoCommand
  /\ record' = GetState
  /\ answer' = UpdateCheck(GetState, FetchReleases(online))
  /\ UNCHANGED <<package, command, pinWish>>

(* get_status: whether it advertises a rollback.                                   *)
RollbackAvailable(state) == state.known # NoVersion /\ state.known # state.installed

Pin(v) ==
  /\ command = NoCommand
  /\ record' = SetPin(v)
  /\ pinWish' = v
  /\ answer' = "done"
  /\ UNCHANGED <<package, command>>

Unpin ==
  /\ command = NoCommand
  /\ record' = ClearPin
  /\ pinWish' = NoVersion
  /\ answer' = "done"
  /\ UNCHANGED <<package, command>>

Answer(a) == command' = NoCommand /\ answer' = a

(* install, up to the installer: it trusts the registry for the version it runs.   *)
BeginInstall(v, online) ==
  LET releases == FetchReleases(online) IN
  /\ command = NoCommand
  /\ record' = GetState
  /\ \/ v = GetState.installed /\ Answer("already")
     \/ /\ v # GetState.installed
        /\ ReleaseByVersion(v, releases) = NoVersion /\ releases # {}
        /\ Answer("refused")
     \/ /\ v # GetState.installed
        /\ v \in releases \/ releases = {}
        /\ command' = [step |-> "installing", target |-> v, was |-> GetState.installed]
        /\ UNCHANGED answer
  /\ UNCHANGED <<package, pinWish>>

(* _default_package_install: pip succeeds and what the package declares is         *)
(* installed, or it fails, before or after it replaced the files.                  *)
DefaultPackageInstall(v) ==
  {[ok |-> TRUE, left |-> Delivers[v]]} \cup {[ok |-> FALSE, left |-> w] : w \in {package, Delivers[v]}}

InstallPackage ==
  /\ command.step = "installing"
  /\ \E r \in DefaultPackageInstall(command.target) :
       /\ package' = r.left
       /\ command' = [command EXCEPT !.step = IF r.ok THEN "validating" ELSE "failing"]
  /\ UNCHANGED <<record, answer, pinWish>>

FailInstall ==
  /\ command.step = "failing"
  /\ record' = RecordUpdateFailure
  /\ Answer("failed")
  /\ UNCHANGED <<package, pinWish>>

(* _run_post_install_validation: the running package must be the expected one and  *)
(* pass its self-test, in time.  The first does not compare versions: its mutant.  *)
ImportsCleanly(v) == v \in Versions /\ package \in Good

PostInstallValidation(v) == package = v /\ package \in Good

ValidateInstall ==
  /\ command.step = "validating"
  /\ \/ /\ PostInstallValidation(command.target)
        /\ command' = [command EXCEPT !.step = "committing"]
        /\ UNCHANGED record
     \/ /\ record' = RecordUpdateFailure
        /\ command' = [command EXCEPT !.step = "reverting"]
  /\ UNCHANGED <<package, answer, pinWish>>

CommitInstall ==
  /\ command.step = "committing"
  /\ record' = RecordUpdateSuccess(command.target, command.was)
  /\ Answer("done")
  /\ UNCHANGED <<package, pinWish>>

(* rollback, as a command of its own or called by install: there the answer is     *)
(* that the update failed, whatever the rollback achieved.                         *)
Automatic == command.was # NoVersion

BeginRollback ==
  /\ command = NoCommand \/ command.step = "reverting"
  /\ record' = GetState
  /\ \/ ~RollbackAvailable(GetState) /\ Answer("refused")
     \/ /\ RollbackAvailable(GetState)
        /\ command' = [command EXCEPT !.step = "restoring", !.target = GetState.known]
        /\ UNCHANGED answer
  /\ UNCHANGED <<package, pinWish>>

RestorePackage ==
  /\ command.step = "restoring"
  /\ \E r \in DefaultPackageInstall(command.target) :
       /\ package' = r.left
       /\ \/ r.ok /\ command' = [command EXCEPT !.step = "verifying"] /\ UNCHANGED answer
          \/ ~r.ok /\ Answer("failed")
  /\ UNCHANGED <<record, pinWish>>

VerifyRestore ==
  /\ command.step = "verifying"
  /\ \/ /\ PostInstallValidation(command.target)
        /\ command' = [command EXCEPT !.step = "recommitting"]
        /\ UNCHANGED answer
     \/ Answer("failed")
  /\ UNCHANGED <<package, record, pinWish>>

CommitRollback ==
  /\ command.step = "recommitting"
  /\ record' = RecordUpdateSuccess(command.target, NoVersion)
  /\ Answer(IF Automatic THEN "failed" ELSE "done")
  /\ UNCHANGED <<package, pinWish>>

(* run_doctor: a record that disagrees with the runtime is made to agree.          *)
RunDoctor ==
  /\ command = NoCommand
  /\ record' = IF GetState.installed = package THEN GetState ELSE RecordValidationSuccess(package)
  /\ answer' = IF package \in Good THEN "PASS" ELSE "FAIL"
  /\ UNCHANGED <<package, command, pinWish>>

(* The process of a command dies.                                                  *)
CrashCommand ==
  /\ command # NoCommand
  /\ Answer("none")
  /\ UNCHANGED <<package, record, pinWish>>

(* The file is deleted, or damaged: then get_state copies it away and starts anew. *)
LoseRecord ==
  /\ command = NoCommand
  /\ record' = NoFile
  /\ pinWish' = NoVersion
  /\ UNCHANGED <<package, command, answer>>

UpdaterNext ==
  \/ \E online \in BOOLEAN : CheckForUpdates(online)
  \/ \E v \in Versions : Pin(v)
  \/ Unpin
  \/ \E v \in Versions, online \in BOOLEAN : BeginInstall(v, online)
  \/ InstallPackage
  \/ FailInstall
  \/ ValidateInstall
  \/ CommitInstall
  \/ BeginRollback
  \/ RestorePackage
  \/ VerifyRestore
  \/ CommitRollback
  \/ RunDoctor
  \/ CrashCommand
  \/ LoseRecord

UpdaterSpec == UpdaterInit /\ [][UpdaterNext]_updaterVars

(* An update or a rollback that is reported done, or recorded as such, left the    *)
(* version it was asked for installed, recorded, and passing its self-test, though  *)
(* installers fail midway, packages carry other versions than their names, and      *)
(* commands before it died between their writes.                                    *)
CommitIsTrue ==
  command.step \in {"committing", "recommitting"} /\ record' # record =>
    /\ record'.installed = command.target
    /\ package' = command.target
    /\ package' \in Good
DoneMeansInstalled == [][CommitIsTrue]_updaterVars

(* The version the user pinned last is in the registry, through every update,       *)
(* failure, rollback and repair, as long as the file itself is not lost.            *)
PinSurvives == record.pin = pinWish

(* updater.py:191: a failed validation rolls the update back.  When that automatic  *)
(* rollback has succeeded the version that ran before the update runs again.        *)
AutomaticRollbackRestores ==
  [][command.step = "recommitting" /\ Automatic /\ record' # record =>
       record'.installed = command.was]_updaterVars
=====================================================================================
