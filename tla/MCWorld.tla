------------------------------- MODULE MCWorld -------------------------------
(***************************************************************************)
(* The components that face the application under review, on small          *)
(* instances: the targets and the frames of its browser, one action from    *)
(* its gates to its receipt, the verdict on an action, and the processes it  *)
(* is made of.  They share no state, so a behaviour is one of a single      *)
(* part: part says which one runs, and the others stay in one of their      *)
(* initial states.                                                          *)
(***************************************************************************)
EXTENDS CdpTargets, WebviewFrames, ActionExecutors, Verification, ProcessTrees

VARIABLE part

----------------------------------------------------------------------------
(* The values of the constants. *)

\* Every type of action, on the web and on a native control.
MCAction(plane, type, key, mods) ==
  [plane |-> plane, type |-> type, key |-> key, text |-> <<1, 2>>, mods |-> mods, clear |-> TRUE]
MCTypes == {"CLICK", "DOUBLE_CLICK", "RIGHT_CLICK", "HOVER", "TYPE", "KEY_PRESS", "KEYBOARD_SHORTCUT",
            "DRAG_AND_DROP", "DROP", "SELECT", "DIALOG_INTERACTION", "FILE_PICKER", "SCROLL", "FOCUS", "WAIT"}
MCAsked == {MCAction("web", t, "Enter", <<"ctrl", "shift">>) : t \in MCTypes}
           \cup {MCAction("native", t, "ArrowDown", <<"ctrl">>) : t \in MCTypes}

\* The window of the application, another program's window and a dialog of the application.
MCWindow(lo, hi, pid, owner, open, iconic) ==
  [open |-> open, visible |-> TRUE, iconic |-> iconic, cloaked |-> FALSE, enabled |-> TRUE, hung |-> FALSE,
   lo |-> lo, hi |-> hi, pid |-> pid, owner |-> owner, dialog |-> owner # "none"]
MCDesktop(lo, stack, iconic, dialog, open, front) ==
  [win |-> [main |-> MCWindow(lo, lo + 2, 1, "none", open, iconic), other |-> MCWindow(0, 3, 9, "none", TRUE, FALSE),
            dialog |-> MCWindow(0, 1, 1, "main", dialog, FALSE)],
   order |-> stack, front |-> front]
MCTop == <<"main", "dialog", "other">>
MCDesktops ==
  {MCDesktop(0, MCTop, FALSE, FALSE, TRUE, "main"), MCDesktop(1, MCTop, FALSE, FALSE, TRUE, "main"),
   MCDesktop(0, <<"other", "main", "dialog">>, FALSE, FALSE, TRUE, "other"),
   MCDesktop(0, MCTop, TRUE, FALSE, TRUE, "other"), MCDesktop(0, MCTop, FALSE, FALSE, FALSE, "other"),
   MCDesktop(0, <<"dialog", "main", "other">>, FALSE, TRUE, TRUE, "dialog")}
\* Requests of the engine and of the library, with a claim, an address, pictures
\* of its own, no process to expect or a person to confirm.
MCRequest(caller, claim, pictures, says, level) ==
  [caller |-> caller, expect |-> TRUE, url |-> Nothing, claim |-> claim, interactive |-> FALSE,
   confirmed |-> FALSE, pictures |-> pictures, says |-> says, level |-> level]
MCRequests ==
  {MCRequest("engine", "none", "none", TRUE, 3),
   [MCRequest("library", "none", "none", TRUE, 3) EXCEPT !.url = 1],
   MCRequest("library", "NavigationOccurred", "certifying", TRUE, 3),
   MCRequest("library", "NativeModalAppeared", "none", TRUE, 3),
   MCRequest("library", "ElementDisappeared", "certifying", FALSE, 4)}
  \cup {[MCRequest("library", "none", "plain", TRUE, 4) EXCEPT !.expect = FALSE, !.interactive = TRUE,
                                                             !.confirmed = f] : f \in BOOLEAN}

----------------------------------------------------------------------------
MCPlainRequest == MCRequest("engine", "none", "none", TRUE, 3)

Init ==
  /\ part \in {"targets", "pair", "frames", "executors", "judge", "trees"}
  /\ TargetsInit /\ FramesInit /\ TreesInit
  /\ ExecutorInit /\ (part # "executors" => /\ order = MCAction("web", "CLICK", "Enter", <<"ctrl", "shift">>)
                                            /\ desk = MCDesktop(0, MCTop, FALSE, FALSE, TRUE, "main")
                                            /\ ~page.disabled /\ page.over = {})
  /\ JudgeInit /\ (part # "judge" => request = MCPlainRequest)

\* The targets part has one target and two callers, the pair part two targets, whose
\* sessions must not be crossed, and one caller.
OneTarget == pages'["t2"] = pages["t2"] /\ \A c \in Callers : call'[c].target # "t2"
OneCaller == call'["c2"] = call["c2"] /\ Len(wire') < MaxWire

RunTargets ==
  /\ TargetsNext
  /\ \/ part = "targets" /\ OneTarget
     \/ part = "pair" /\ OneCaller
  /\ UNCHANGED <<part, framesVars, executorVars, judgeVars, treeVars>>
RunFrames ==
  /\ part = "frames" /\ FramesNext
  /\ UNCHANGED <<part, targetVars, executorVars, judgeVars, treeVars>>
RunExecutors ==
  /\ part = "executors" /\ ExecutorNext
  /\ UNCHANGED <<part, targetVars, framesVars, judgeVars, treeVars>>
RunJudge ==
  /\ part = "judge" /\ JudgeNext
  /\ UNCHANGED <<part, targetVars, framesVars, executorVars, treeVars>>
RunTrees ==
  /\ part = "trees" /\ TreesNext
  /\ UNCHANGED <<part, targetVars, framesVars, executorVars, judgeVars>>

Next == RunTargets \/ RunFrames \/ RunExecutors \/ RunJudge \/ RunTrees

Spec == Init /\ [][Next]_<<part, targetVars, framesVars, executorVars, judgeVars, treeVars>>

\* Every variable of every part has its type.
WorldTypeOK ==
  TargetsTypeOK /\ FramesTypeOK /\ ExecutorTypeOK /\ JudgeTypeOK /\ TreesTypeOK
=============================================================================
