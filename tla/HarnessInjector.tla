------------------------------ MODULE HarnessInjector ------------------------------
(* runtime/harness/injector.py, with the detector that chooses what it touches and  *)
(* the release scan that looks for what it left: a block between the two markers of *)
(* the framework's adapter in one entry file of the developer's project, the client *)
(* file of that framework, and a manifest written last.  Files are decoded leniently *)
(* and rewritten in place.  The command may die between any two of those writes, or *)
(* inside one; the developer works on the files between commands.                   *)
EXTENDS Integers, Sequences, FiniteSets

CONSTANTS
  EntryFiles,     \* files the harness may put its block into
  Candidates,     \* for each framework, its fallback entry points in order of preference
  ProjectKinds,   \* what the detector may see: records of indicators
  MaxText,        \* bound: how often the developer rewrites a file
  MaxPlans        \* bound: how many integrations are planned

Frameworks == {"electron", "webview2", "qt"}
NoFramework == "none"
NoTarget == "no target"

\* The two kinds of comment the adapters put their markers in.
MarkerKinds == {"slash", "hash"}
Marker == [fw \in Frameworks |-> IF fw = "qt" THEN "hash" ELSE "slash"]

\* What the constants must be: entries are the files that import the framework, in the
\* order in which they are probed (the main entry of package.json first).
ASSUME InjectorAssumption ==
  /\ NoTarget \notin EntryFiles
  /\ Candidates \in [Frameworks -> Seq(EntryFiles)]
  /\ MaxText \in Nat \ {0} /\ MaxPlans \in Nat
  /\ \A p \in ProjectKinds :
       /\ p.packageJson \in BOOLEAN /\ p.electronDep \in BOOLEAN
       /\ p.csprojs \in Nat /\ p.webview2Refs \in Nat /\ p.qtDeclared \in 0..3
       /\ p.entries \in [Frameworks -> Seq(EntryFiles)]

VARIABLES
  indicators,   \* the project as the detector sees it
  files,        \* entry file -> the developer's text, and the state of each kind of block
  clients,      \* the frameworks whose client file is there
  manifest,     \* the manifest, or NoManifest
  session,      \* the running command: its step, framework, target and the copy it read
  outcome,      \* what the last command reported, ERROR also where it died
  wrote,        \* what the developer wrote last in each file (observed)
  aim,          \* what the applies since the project was last clean aimed at (observed)
  torn,         \* files of which a write was cut short (observed)
  tampered,     \* files whose markers the developer damaged (observed)
  plans         \* how many integrations were planned

injectorVars == <<indicators, files, clients, manifest, session, outcome, wrote, aim, torn,
                 tampered, plans>>

Targets == EntryFiles \cup {NoTarget}
NoManifest == [state |-> "none", framework |-> NoFramework, modified |-> NoTarget]
CutManifest == [NoManifest EXCEPT !.state = "cut"]

(* A text is the version of it, 0 of a file that is not there and Fragment of one    *)
(* that was cut; odd when it has bytes that are not UTF-8.                           *)
Fragment == MaxText + 1
Blocks == {"none", "whole", "broken", "mixed"}
Text == [version : 0..Fragment, odd : BOOLEAN]
File == [version : 0..Fragment, odd : BOOLEAN, block : [MarkerKinds -> Blocks]]
NoBlock == [k \in MarkerKinds |-> "none"]
Absent == [version |-> 0, odd |-> FALSE, block |-> NoBlock]
TextOf(file) == [version |-> file.version, odd |-> file.odd]

NoAim == [state |-> "none", framework |-> NoFramework, target |-> NoTarget]
AimAt(fw, target) == [state |-> "one", framework |-> fw, target |-> target]
Several == [NoAim EXCEPT !.state = "several"]

Quiet == [step |-> "idle", framework |-> NoFramework, target |-> NoTarget, copy |-> Absent,
          warned |-> FALSE]

CommandSteps == {"idle", "planned", "entry", "manifest", "stripping", "unlinking"}
Outcomes == {"none", "READY", "PREVIEW", "REMOVED", "WARNED", "ERROR", "UNSAFE", "VALID",
             "CORRUPTED", "PASS", "FAIL"}

InjectorTypeOK ==
  /\ indicators \in ProjectKinds
  /\ files \in [EntryFiles -> File]
  /\ clients \in SUBSET Frameworks
  /\ manifest \in [state : {"none", "cut", "whole"}, framework : Frameworks \cup {NoFramework},
                   modified : Targets]
  /\ session \in [step : CommandSteps, framework : Frameworks \cup {NoFramework}, target : Targets,
                  copy : File, warned : BOOLEAN]
  /\ outcome \in Outcomes
  /\ wrote \in [EntryFiles -> Text]
  /\ aim \in [state : {"none", "one", "several"}, framework : Frameworks \cup {NoFramework},
              target : Targets]
  /\ torn \in SUBSET EntryFiles
  /\ tampered \in SUBSET EntryFiles
  /\ plans \in 0..MaxPlans

InjectorInit ==
  /\ indicators \in ProjectKinds
  /\ files \in [EntryFiles -> {Absent} \cup
                 {[version |-> 1, odd |-> odd, block |-> NoBlock] : odd \in BOOLEAN}]
  /\ clients = {}
  /\ manifest = NoManifest
  /\ session = Quiet
  /\ outcome = "none"
  /\ wrote = [f \in EntryFiles |-> TextOf(files[f])]
  /\ aim = NoAim
  /\ torn = {}
  /\ tampered = {}
  /\ plans = 0

(* ProjectDetector: scores in hundredths, capped at 100; the files that import a    *)
(* framework count where they exist, and are its entry points.                      *)
Capped(score) == IF score > 100 THEN 100 ELSE score

Points(condition, score) == IF condition THEN score ELSE 0

Exists(f) == files[f].version # 0

Existing(list) == {i \in DOMAIN list : Exists(list[i])}

ProbeElectron(p) ==
  Capped(Points(p.packageJson, 20) + Points(p.packageJson /\ p.electronDep, 50)
         + 20 * Cardinality(Existing(p.entries["electron"])))

ProbeWebview2(p) ==
  Capped(20 * p.csprojs + 50 * p.webview2Refs + Points(Existing(p.entries["webview2"]) # {}, 30))

ProbeQt(p) == Capped(40 * p.qtDeclared + 50 * Cardinality(Existing(p.entries["qt"])))

Score(p, fw) ==
  CASE fw = "electron" -> ProbeElectron(p)
    [] fw = "webview2" -> ProbeWebview2(p)
    [] fw = "qt" -> ProbeQt(p)

(* detect: the sort is stable, so a tie goes to the one probed first.               *)
ProbeOrder == <<"electron", "webview2", "qt">>

Detect(p) ==
  LET before(i, j) == \/ Score(p, ProbeOrder[i]) > Score(p, ProbeOrder[j])
                      \/ Score(p, ProbeOrder[i]) = Score(p, ProbeOrder[j]) /\ i < j
      top == CHOOSE i \in 1..3 : \A j \in 1..3 \ {i} : before(i, j)
      second == CHOOSE i \in 1..3 \ {top} : \A j \in 1..3 \ {i, top} : before(i, j)
      best == Score(p, ProbeOrder[top])
      next == Score(p, ProbeOrder[second])
      ambiguous == best > 40 /\ next > 40 /\ best - next < 15
  IN IF ambiguous \/ best < 35 THEN NoFramework ELSE ProbeOrder[top]

FirstOf(list) ==
  IF Existing(list) = {} THEN NoTarget
  ELSE list[CHOOSE i \in Existing(list) : \A j \in Existing(list) : i <= j]

(* The entry points the detection found, whatever the override; the fallback list of *)
(* the framework chosen where it found none.                                        *)
EntryPoint(detected, fw) ==
  IF detected # NoFramework /\ Existing(indicators.entries[detected]) # {}
  THEN FirstOf(indicators.entries[detected]) ELSE FirstOf(Candidates[fw])

(* read_text(errors="ignore"): what is not UTF-8 is dropped.                        *)
Decoded(file) == [file EXCEPT !.odd = FALSE]

(* plan: the entry file is read now; what apply writes is made from this copy.      *)
Plan(override) ==
  LET detected == Detect(indicators)
      fw == IF override # NoFramework THEN override ELSE detected
      target == EntryPoint(detected, fw)
  IN
  /\ session = Quiet
  /\ \/ fw = NoFramework /\ outcome' = "ERROR" /\ UNCHANGED <<session, plans>>
     \/ /\ fw # NoFramework /\ plans < MaxPlans /\ plans' = plans + 1
        /\ session' = [step |-> "planned", framework |-> fw, target |-> target,
                       copy |-> IF target = NoTarget THEN Absent ELSE Decoded(files[target]),
                       warned |-> FALSE]
        /\ outcome' = "none"
  /\ UNCHANGED <<indicators, files, clients, manifest, wrote, aim, torn, tampered>>

End(report) == session' = Quiet /\ outcome' = report

DryRun ==
  /\ session.step = "planned"
  /\ End("PREVIEW")
  /\ UNCHANGED <<indicators, files, clients, manifest, wrote, aim, torn, tampered, plans>>

(* apply, write by write: the client file of this framework, whatever others left.  *)
WriteClient ==
  LET here == AimAt(session.framework, session.target) IN
  /\ session.step = "planned"
  /\ clients' = clients \cup {session.framework}
  /\ aim' = IF aim \in {NoAim, here} THEN here ELSE Several
  /\ session' = [session EXCEPT !.step = IF session.target = NoTarget THEN "manifest" ELSE "entry"]
  /\ UNCHANGED <<indicators, files, manifest, outcome, wrote, torn, tampered, plans>>

(* The block goes in front of the text, or in the place of one with the same        *)
(* markers: a marker alone, and a block with other markers, stay where they are.    *)
(* The first is the mutant that writes the block as the file.                       *)
OverwriteEntry(copy, kind) == [Absent EXCEPT !.block = [NoBlock EXCEPT ![kind] = "whole"]]

InjectBlock(copy, kind) ==
  [copy EXCEPT !.block[kind] = IF @ \in {"none", "whole"} THEN "whole" ELSE "mixed"]

WriteEntry ==
  /\ session.step = "entry"
  /\ files' = [files EXCEPT ![session.target] = InjectBlock(session.copy, Marker[session.framework])]
  /\ session' = [session EXCEPT !.step = "manifest"]
  /\ UNCHANGED <<indicators, clients, manifest, outcome, wrote, aim, torn, tampered, plans>>

WriteManifest ==
  /\ session.step = "manifest"
  /\ manifest' = [state |-> "whole", framework |-> session.framework, modified |-> session.target]
  /\ End("READY")
  /\ UNCHANGED <<indicators, files, clients, wrote, aim, torn, tampered, plans>>

(* remove.  A client file that cannot be deleted is only warned of, and so is an    *)
(* entry file that is no longer there; a manifest that cannot be read is none.      *)
BeginRemove ==
  /\ session = Quiet
  /\ \/ manifest.state # "whole" /\ outcome' = "ERROR" /\ UNCHANGED <<session, clients>>
     \/ /\ manifest.state = "whole"
        /\ clients' \in {clients, clients \ {manifest.framework}}
        /\ session' = [Quiet EXCEPT !.step = "stripping", !.warned = manifest.framework \in clients']
        /\ outcome' = "none"
  /\ UNCHANGED <<indicators, files, manifest, wrote, aim, torn, tampered, plans>>

(* Take the blocks of one kind out of a file.  The first takes out only the opening *)
(* marker.                                                                          *)
StripHalf(file, kind) == [Decoded(file) EXCEPT !.block[kind] = "broken"]

Strip(file, kind) ==
  [Decoded(file) EXCEPT !.block[kind] = IF @ = "mixed" THEN "broken" ELSE "none"]

\* The entry file of the manifest, where it is still there, and whether both its markers are.
IsToStrip(f) == f = manifest.modified /\ Exists(f)
HasMarkers(f) == files[f].block[Marker[manifest.framework]] \in {"whole", "mixed"}

StripEntry ==
  /\ session.step = "stripping"
  /\ \/ /\ \A f \in EntryFiles : IsToStrip(f) => HasMarkers(f)
        /\ files' = [f \in EntryFiles |-> IF IsToStrip(f) THEN Strip(files[f], Marker[manifest.framework])
                                          ELSE files[f]]
        /\ session' = [session EXCEPT !.step = "unlinking"]
        /\ UNCHANGED outcome
     \/ /\ \E f \in EntryFiles : IsToStrip(f) /\ ~ HasMarkers(f)
        /\ End("UNSAFE")
        /\ UNCHANGED files
  /\ UNCHANGED <<indicators, clients, manifest, wrote, aim, torn, tampered, plans>>

NothingLeft == clients = {} /\ \A f \in EntryFiles : files[f].block = NoBlock

UnlinkManifest ==
  /\ session.step = "unlinking"
  /\ manifest' = NoManifest
  /\ aim' = IF NothingLeft THEN NoAim ELSE aim
  /\ End(IF session.warned THEN "WARNED" ELSE "REMOVED")
  /\ UNCHANGED <<indicators, files, clients, wrote, torn, tampered, plans>>

(* cmd_validate of scripts/harness.py.                                              *)
ValidateIntegration ==
  /\ session = Quiet
  /\ outcome' = IF manifest.state # "whole" THEN "ERROR"
                ELSE IF manifest.framework \in clients THEN "VALID" ELSE "CORRUPTED"
  /\ UNCHANGED <<indicators, files, clients, manifest, session, wrote, aim, torn, tampered, plans>>

(* scan_artifact on the project as it would be shipped.                             *)
ScanArtifact ==
  /\ session = Quiet
  /\ outcome' = IF NothingLeft /\ manifest = NoManifest THEN "PASS" ELSE "FAIL"
  /\ UNCHANGED <<indicators, files, clients, manifest, session, wrote, aim, torn, tampered, plans>>

(* The command raises or dies between two writes.                                   *)
CommandStops ==
  /\ session # Quiet
  /\ End("ERROR")
  /\ UNCHANGED <<indicators, files, clients, manifest, wrote, aim, torn, tampered, plans>>

(* Or inside write_text, which has emptied the file: what is left is a beginning of *)
(* the new content, in which only the first kind of block may be whole.             *)
Beginnings(block) ==
  CASE block = "none" -> {"none"}
    [] block = "broken" -> {"none", "broken"}
    [] block = "whole" -> {"none", "broken", "whole"}
    [] block = "mixed" -> Blocks

CutShort(file) ==
  {cut \in {[file EXCEPT !.version = Fragment, !.block = b] : b \in [MarkerKinds -> Blocks]} :
     /\ \A k \in MarkerKinds : cut.block[k] \in Beginnings(file.block[k])
     /\ \E first \in MarkerKinds : \A k \in MarkerKinds \ {first} :
          cut.block[first] = file.block[first] \/ cut.block[k] = "none"}

WriteIsCut(f, content) ==
  /\ \E cut \in CutShort(content) : files' = [files EXCEPT ![f] = cut]
  /\ torn' = torn \cup {f}
  /\ End("ERROR")
  /\ UNCHANGED <<indicators, clients, manifest, wrote, aim, tampered, plans>>

EntryIsCut ==
  /\ session.step = "entry"
  /\ WriteIsCut(session.target, InjectBlock(session.copy, Marker[session.framework]))

StripIsCut(f) ==
  /\ session.step = "stripping"
  /\ IsToStrip(f) /\ HasMarkers(f)
  /\ WriteIsCut(f, Strip(files[f], Marker[manifest.framework]))

ManifestIsCut ==
  /\ session.step = "manifest"
  /\ manifest' = CutManifest
  /\ End("ERROR")
  /\ UNCHANGED <<indicators, files, clients, wrote, aim, torn, tampered, plans>>

(* The developer, while no command runs: writes a file or creates one, restores one *)
(* as it was before the harness, deletes one, damages a marker, or makes the project *)
(* another framework's.                                                             *)
DeveloperWrites(f, odd) ==
  /\ session = Quiet
  /\ files[f].version < MaxText
  /\ files' = [files EXCEPT ![f].version = @ + 1, ![f].odd = odd]
  /\ wrote' = [wrote EXCEPT ![f] = [version |-> files[f].version + 1, odd |-> odd]]
  /\ UNCHANGED <<indicators, clients, manifest, session, outcome, aim, torn, tampered, plans>>

DeveloperRestores(f) ==
  /\ session = Quiet
  /\ f \in torn
  /\ files' = [files EXCEPT ![f] = [version |-> wrote[f].version, odd |-> wrote[f].odd,
                                    block |-> NoBlock]]
  /\ torn' = torn \ {f} /\ tampered' = tampered \ {f}
  /\ UNCHANGED <<indicators, clients, manifest, session, outcome, wrote, aim, plans>>

DeveloperDeletes(f) ==
  /\ session = Quiet
  /\ Exists(f)
  /\ files' = [files EXCEPT ![f] = Absent]
  /\ wrote' = [wrote EXCEPT ![f] = TextOf(Absent)]
  /\ torn' = torn \ {f} /\ tampered' = tampered \ {f}
  /\ UNCHANGED <<indicators, clients, manifest, session, outcome, aim, plans>>

DeveloperBreaksMarker(f) ==
  /\ session = Quiet
  /\ \E k \in MarkerKinds : /\ files[f].block[k] = "whole"
                            /\ files' = [files EXCEPT ![f].block[k] = "broken"]
  /\ tampered' = tampered \cup {f}
  /\ UNCHANGED <<indicators, clients, manifest, session, outcome, wrote, aim, torn, plans>>

DeveloperChangesProject ==
  /\ session = Quiet
  /\ indicators' \in ProjectKinds
  /\ UNCHANGED <<files, clients, manifest, session, outcome, wrote, aim, torn, tampered, plans>>

InjectorNext ==
  \/ \E override \in Frameworks \cup {NoFramework} : Plan(override)
  \/ DryRun
  \/ WriteClient
  \/ WriteEntry
  \/ WriteManifest
  \/ BeginRemove
  \/ StripEntry
  \/ UnlinkManifest
  \/ ValidateIntegration
  \/ ScanArtifact
  \/ CommandStops
  \/ EntryIsCut
  \/ \E f \in EntryFiles : StripIsCut(f)
  \/ ManifestIsCut
  \/ \E f \in EntryFiles, odd \in BOOLEAN : DeveloperWrites(f, odd)
  \/ \E f \in EntryFiles : DeveloperRestores(f)
  \/ \E f \in EntryFiles : DeveloperDeletes(f)
  \/ \E f \in EntryFiles : DeveloperBreaksMarker(f)
  \/ DeveloperChangesProject

InjectorSpec == InjectorInit /\ [][InjectorNext]_injectorVars

(* Applying as any framework, crashing, applying again and removing never costs the  *)
(* developer the decodable text written between commands, except in a file of which  *)
(* a write was cut short; and no file gets bytes its developer did not write.        *)
TextIsKept ==
  \A f \in EntryFiles :
    /\ f \notin torn => files[f].version = wrote[f].version
    /\ files[f].odd => wrote[f].odd

(* A remove that reports REMOVED without a warning has taken everything out, whatever *)
(* crashed before it, when all applies since the project was clean were of one        *)
(* framework and aimed at one file: no client file is left, and no block and no       *)
(* marker of any kind, except in a file whose markers were damaged.  With a warning   *)
(* the client file may be left.                                                       *)
OnlyDamageIsLeft == \A f \in EntryFiles \ (torn \cup tampered) : files'[f].block = NoBlock
RemovalIsTrue ==
  session.step = "unlinking" /\ outcome' \in {"REMOVED", "WARNED"} /\ aim # Several =>
    /\ OnlyDamageIsLeft
    /\ outcome' = "REMOVED" => clients' = {}
RemovedMeansClean == [][RemovalIsTrue]_injectorVars

----------------------------------------------------------------------------
(* What the code's own words say, and what does not hold of it (README, 5.2).       *)

(* The harness comes and goes without destroying what the developer wrote            *)
(* (runtime/harness/injector.py, lines 3-4): not when a write is cut short, and not  *)
(* for bytes that are not UTF-8.                                                     *)
NothingIsLost == \A f \in EntryFiles : TextOf(files[f]) = wrote[f]

(* A removal is a clean uninstallation (runtime/harness/manifest.py, line 52): not   *)
(* when the project was integrated as two frameworks in turn, whose markers or       *)
(* client files differ.                                                              *)
EveryRemovalIsClean ==
  [][session.step = "unlinking" /\ outcome' = "REMOVED" /\ torn = {} /\ tampered = {}
       => NothingLeft']_injectorVars
=====================================================================================
