------------------------------ MODULE MCRecords ------------------------------
(***************************************************************************)
(* The components that keep records, on small instances: the installed      *)
(* version and its registry, the harness in a project, the messages of a    *)
(* harness, the sealed evidence, the experience store, what is learned from *)
(* it, and the bridge to a coding agent.  They share no state, so a         *)
(* behaviour is one of a single part: part says which one runs, and the     *)
(* others stay in one of their initial states.                              *)
(***************************************************************************)
EXTENDS Updater, HarnessInjector, HarnessService, EvidenceStore, ExperienceStore,
        LearningGovernance, AgentBridge

VARIABLE part

----------------------------------------------------------------------------
(* The values of the constants. *)

\* Version 4 is a prerelease whose self-test fails; the package of 3 declares 2.
MCVersions == 1..4
MCPrereleases == {4}
MCGood == 1..3
MCDelivers == [v \in MCVersions |-> IF v = 3 THEN 2 ELSE v]

\* A file of each framework, in a project of Electron and perhaps of Qt: which of two is
\* detected depends on the files that are there.
MCProject(qt) ==
  [packageJson |-> TRUE, electronDep |-> TRUE, csprojs |-> 0, webview2Refs |-> 0,
   qtDeclared |-> IF qt THEN 1 ELSE 0,
   entries |-> [electron |-> <<"a">>, webview2 |-> <<>>, qt |-> IF qt THEN <<"b">> ELSE <<>>]]
MCProjectKinds == {MCProject(FALSE), MCProject(TRUE)}
MCCandidates == [electron |-> <<"a">>, webview2 |-> <<>>, qt |-> <<"b">>]

\* Every fact is of a session of its own.
MCSessionOf == [f \in Facts |-> f]

----------------------------------------------------------------------------
Init ==
  /\ part \in {"updater", "injector", "harness", "evidence", "store", "learning", "bridge"}
  /\ UpdaterInit /\ (part # "updater" => package = 1)
  /\ InjectorInit /\ (part # "injector" => /\ indicators = MCProject(FALSE)
                                           /\ \A f \in EntryFiles : files[f] = Absent)
  /\ HarnessInit /\ (part # "harness" => racing = {})
  /\ EvidenceInit /\ StoreInit /\ LearningInit /\ BridgeInit

RunUpdater ==
  /\ part = "updater" /\ UpdaterNext
  /\ UNCHANGED <<part, injectorVars, harnessVars, evidenceVars, storeVars, learningVars, bridgeVars>>
RunInjector ==
  /\ part = "injector" /\ InjectorNext
  /\ UNCHANGED <<part, updaterVars, harnessVars, evidenceVars, storeVars, learningVars, bridgeVars>>
RunHarness ==
  /\ part = "harness" /\ HarnessNext
  /\ UNCHANGED <<part, updaterVars, injectorVars, evidenceVars, storeVars, learningVars, bridgeVars>>
RunEvidence ==
  /\ part = "evidence" /\ EvidenceNext
  /\ UNCHANGED <<part, updaterVars, injectorVars, harnessVars, storeVars, learningVars, bridgeVars>>
RunStore ==
  /\ part = "store" /\ StoreNext
  /\ UNCHANGED <<part, updaterVars, injectorVars, harnessVars, evidenceVars, learningVars, bridgeVars>>
RunLearning ==
  /\ part = "learning" /\ LearningNext
  /\ UNCHANGED <<part, updaterVars, injectorVars, harnessVars, evidenceVars, storeVars, bridgeVars>>
RunBridge ==
  /\ part = "bridge" /\ BridgeNext
  /\ UNCHANGED <<part, updaterVars, injectorVars, harnessVars, evidenceVars, storeVars, learningVars>>

Next == RunUpdater \/ RunInjector \/ RunHarness \/ RunEvidence \/ RunStore \/ RunLearning \/ RunBridge

Spec == Init /\ [][Next]_<<part, updaterVars, injectorVars, harnessVars, evidenceVars, storeVars,
                          learningVars, bridgeVars>>

\* Every variable of the part that runs has its type; the others keep their initial values.
RecordsTypeOK ==
  CASE part = "updater" -> UpdaterTypeOK
    [] part = "injector" -> InjectorTypeOK
    [] part = "harness" -> HarnessTypeOK
    [] part = "evidence" -> EvidenceTypeOK
    [] part = "store" -> StoreTypeOK
    [] part = "learning" -> LearningTypeOK
    [] part = "bridge" -> BridgeTypeOK
=============================================================================
