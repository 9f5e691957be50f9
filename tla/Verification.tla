---------------------------- MODULE Verification ----------------------------
(***************************************************************************)
(* From an action to its verdict: what the action engine observes before    *)
(* and after, how it waits for the page to settle and classifies the change *)
(* (runtime/action_engine.py, runtime/settlement.py, runtime/               *)
(* observation_diff.py), how the physical desktop is captured, and how      *)
(* runtime/verification_engine.py turns all of it into PASS, FAIL or        *)
(* UNVERIFIED.  Desktop and page change while this goes on.  The action     *)
(* engine, the evidence tool (runtime/mcp/tools/evidence.py) and a caller   *)
(* of the library that passes everything the engine can use are the three   *)
(* callers.                                                                 *)
(***************************************************************************)
EXTENDS NativeDesktop

CONSTANTS Requests,            \* the requests looked at, records of RequestType
          RequireVisibleGui,   \* the engine's policy
          MaxChanges           \* bound on changes of desktop and page

VARIABLES desktop,      \* the desktop, see NativeDesktop
          view,      \* the page in the window
          request,   \* the ActionRequest and who asks for the verdict
          phase,     \* how far the transaction is
          tx,        \* what has been gathered: receipt, snapshots, settlement, evidence
          verdict,   \* the last verdict, its reason and its claims
          changes    \* number of changes so far

judgeVars == <<desktop, view, request, phase, tx, verdict, changes>>

\* pictures: the screenshots a caller of the library passes; says: it says which
\* process it expects (target_process_info).
RequestType == [caller : {"engine", "library"}, expect : BOOLEAN, url : {Nothing, 1},
                claim : {"none", "NavigationOccurred", "NativeModalAppeared", "ElementDisappeared"},
                interactive : BOOLEAN, confirmed : BOOLEAN, pictures : {"none", "plain", "certifying"},
                says : BOOLEAN, level : 3..4]
Phases == {"idle", "observed", "dispatched", "settled", "posted", "cropped", "captured", "judged", "done"}
NoTx == [receipt |-> Nothing, pre |-> Nothing, post |-> Nothing, epoch |-> 0, initial |-> 0,
         settled |-> "TIMEOUT", change |-> "NO_EFFECT", capture |-> Nothing, picture |-> Nothing,
         aged |-> FALSE]
NoVerdict == [status |-> "none", reason |-> "none", claims |-> <<>>]

\* What the constants must be.
ASSUME VerificationAssumption ==
  /\ Requests \subseteq RequestType /\ RequireVisibleGui \in BOOLEAN /\ MaxChanges \in Nat
  /\ Nothing \notin [pid : Nat, tree : SUBSET Nat, creation : Nat, running : BOOLEAN]
  /\ Nothing \notin [certifying : BOOLEAN, bounds : [lo : Nat, hi : Nat]]

\* The types of the variables.
JudgeTypeOK ==
  /\ \A h \in DOMAIN desktop.win : desktop.win[h] \in Window
  /\ view \in [url : 0..1, present : BOOLEAN, text : 0..1, answers : BOOLEAN]
  /\ phase \in Phases
  /\ verdict.status \in {"none", "PASS", "FAIL", "UNVERIFIED"}
  /\ changes \in 0..MaxChanges

W(lo, hi, pid, owner, open, dialog) ==
  [open |-> open, visible |-> TRUE, iconic |-> FALSE, cloaked |-> FALSE, enabled |-> TRUE, hung |-> FALSE,
   lo |-> lo, hi |-> hi, pid |-> pid, owner |-> owner, dialog |-> dialog]

JudgeInit ==
  /\ desktop = [win   |-> [main |-> W(0, 2, 1, "none", TRUE, FALSE), other |-> W(0, 1, 9, "none", TRUE, FALSE),
                        dialog |-> W(0, 1, 1, "main", FALSE, TRUE)],
             order |-> <<"main", "dialog", "other">>, front |-> "main"]
  /\ view = [url |-> 0, present |-> TRUE, text |-> 0, answers |-> TRUE]
  /\ request \in Requests
  /\ phase = "idle" /\ tx = NoTx /\ verdict = NoVerdict /\ changes = 0

----------------------------------------------------------------------------
(* The world *)

Behind(d) == [d EXCEPT !.front = IF d.front = Main THEN "other" ELSE d.front]
Overlay(d) == [d EXCEPT !.order = <<"other">> \o SelectSeq(d.order, LAMBDA h : h /= "other")]
ChangedDesks ==
  {Behind([desktop EXCEPT !.win.main[f] = TRUE]) : f \in {"iconic", "cloaked"}}
  \cup {Behind([desktop EXCEPT !.win.main.visible = FALSE]), Behind([desktop EXCEPT !.win.main.open = FALSE])}
  \cup {[desktop EXCEPT !.win.main.hung = TRUE], [desktop EXCEPT !.win.main.hi = 3], Overlay(desktop), Raised(desktop, "other"),
        [Raised(desktop, Main) EXCEPT !.win.main = W(0, 2, 1, "none", TRUE, FALSE)],
        [desktop EXCEPT !.win.main.pid = 9],
        [Raised(desktop, "dialog") EXCEPT !.win.dialog.open = TRUE, !.win.main.enabled = FALSE]}
ChangedPages ==
  {[view EXCEPT !.url = 1], [view EXCEPT !.present = FALSE], [view EXCEPT !.text = 1],
   [view EXCEPT !.answers = ~view.answers]}

DesktopChanges ==
  /\ changes < MaxChanges /\ phase \notin {"idle", "done"}
  /\ changes' = changes + 1
  /\ \/ desktop' \in ChangedDesks \ {desktop} /\ UNCHANGED view
     \/ view' \in ChangedPages \ {view} /\ UNCHANGED desktop
  /\ UNCHANGED <<request, phase, tx, verdict>>

\* More than five seconds pass between the capture, or the caller's picture that
\* stands in for it, and its judgement.
CaptureAges ==
  /\ phase = "captured" /\ (tx.capture /= Nothing \/ tx.picture /= Nothing) /\ ~tx.aged
  /\ tx' = [tx EXCEPT !.aged = TRUE]
  /\ UNCHANGED <<desktop, view, request, phase, verdict, changes>>

----------------------------------------------------------------------------
(* Observing and acting *)

WebObservation == IF view.answers THEN [url |-> view.url, present |-> view.present, text |-> view.text] ELSE Nothing
Snapshot(n) == [native |-> ObserveNativeWindow(desktop, Main), web |-> WebObservation, epoch |-> n]

Differ(a, b) ==
  IF a = Nothing \/ b = Nothing THEN Nothing
  ELSE [mutated |-> /\ a.web /= Nothing /\ b.web /= Nothing
                    /\ a.web.present /= b.web.present \/ (a.web.present /\ a.web.text /= b.web.text)]
Mutated(diff) == diff /= Nothing /\ diff.mutated

\* The snapshot before the action may be missing; the action is then taken all the same.
PreObserve ==
  /\ phase = "idle"
  /\ \E snap \in {Snapshot(0), Nothing} : tx' = [tx EXCEPT !.pre = snap]
  /\ phase' = "observed"
  /\ UNCHANGED <<desktop, view, request, verdict, changes>>

\* The page may have changed by the time its address is read for the settlement.
DispatchOk ==
  /\ phase = "observed"
  /\ \E p \in {view} \cup ChangedPages :
       view' = p /\ tx' = [tx EXCEPT !.receipt = "DISPATCHED", !.initial = p.url]
  /\ phase' = "dispatched"
  /\ UNCHANGED <<desktop, request, verdict, changes>>

\* Nothing is observed after an action that was not dispatched.
DispatchNotOk ==
  /\ phase = "observed"
  /\ \E s \in {"REJECTED", "FAILED"} : tx' = [tx EXCEPT !.receipt = s]
  /\ phase' = "captured"
  /\ UNCHANGED <<desktop, view, request, verdict, changes>>

\* settle: a dialog first, then the address, then the element; a page that does not
\* answer counts as an element that is gone.
Settlement ==
  IF request.caller = "engine" /\ DetectModals(desktop, 1, Nothing) /= {} THEN {"MODAL_APPEARED"}
  ELSE IF view.url /= tx.initial THEN {"NAVIGATED"}
  ELSE IF ~view.present \/ ~view.answers THEN {"TARGET_DISAPPEARED"}
  ELSE {"STABLE", "TIMEOUT"}

Settle ==
  /\ phase = "dispatched"
  /\ \E s \in Settlement : tx' = [tx EXCEPT !.settled = s, !.epoch = @ + 1]
  /\ phase' = "settled"
  /\ UNCHANGED <<desktop, view, request, verdict, changes>>

Classify(settled, diff, post) ==
  IF settled \in {"MODAL_APPEARED", "NAVIGATED", "TARGET_DISAPPEARED"} THEN settled
  ELSE IF Mutated(diff) THEN "STATE_CHANGED"
  ELSE IF post.web = Nothing \/ ~post.web.present THEN "TARGET_DISAPPEARED" ELSE "NO_EFFECT"

\* What a caller of the library may take of the window, in the size it has or had.
Pictures ==
  IF request.caller = "engine" \/ request.pictures = "none" THEN {Nothing}
  ELSE {[certifying |-> request.pictures = "certifying", bounds |-> CanonicalBounds(d, Main)] :
          d \in {desktop, [desktop EXCEPT !.win.main.hi = 3]}}

\* The engine's own call of capture_authoritative_physical_desktop leaves out the
\* creation time, a required argument: it raises, and the engine goes on without.
PostObserve ==
  /\ phase = "settled"
  /\ \E picture \in Pictures :
       LET post == Snapshot(tx.epoch) IN
         tx' = [tx EXCEPT !.post = post, !.picture = picture,
                          !.change = Classify(tx.settled, Differ(tx.pre, post), post)]
  /\ phase' = IF request.caller = "engine" THEN "captured" ELSE "posted"
  /\ UNCHANGED <<desktop, view, request, verdict, changes>>

----------------------------------------------------------------------------
(* capture_authoritative_physical_desktop *)

CanCapture(d, pid) ==
  /\ IsWindow(d, Main) /\ WindowPid(d, Main) = pid
  /\ pid = 1   \* the creation time is that of the launched process
  /\ IsVisible(d, Main) /\ ~d.win.main.iconic /\ ~d.win.main.cloaked
  /\ d.front = Main
  /\ Width(CanonicalBounds(d, Main)) > 1
  /\ Occlusion(d, Main) = "NOT_OCCLUDED"

ExpectedPid == IF request.caller = "evidence" /\ tx.post.native.pid /= 0 THEN tx.post.native.pid ELSE 1

\* A caller of the library may do without the capture.
CaptureRefused ==
  /\ phase = "posted" /\ (~CanCapture(desktop, ExpectedPid) \/ request.caller = "library")
  /\ phase' = "captured"
  /\ UNCHANGED <<desktop, view, request, tx, verdict, changes>>

\* The crop is taken after the checks: something may have come in between.
CaptureChecked ==
  /\ phase = "posted" /\ CanCapture(desktop, ExpectedPid)
  /\ \E d \in {desktop, Overlay(desktop)} :
       tx' = [tx EXCEPT !.capture = [bounds |-> CanonicalBounds(desktop, Main), creation |-> 1,
                                     shows |-> Range(DesktopCrop(d, CanonicalBounds(desktop, Main)))]]
  /\ phase' = "cropped"
  /\ UNCHANGED <<desktop, view, request, verdict, changes>>

\* Checked again; that nothing covers the window is not.
StillThere(d, bounds) ==
  /\ IsWindow(d, Main) /\ IsVisible(d, Main) /\ ~d.win.main.iconic /\ ~d.win.main.cloaked
  /\ d.front = Main /\ CanonicalBounds(d, Main) = bounds

CaptureValidated ==
  /\ phase = "cropped"
  /\ phase' = "captured"
  /\ tx' = IF StillThere(desktop, tx.capture.bounds) THEN tx ELSE [tx EXCEPT !.capture = Nothing]
  /\ UNCHANGED <<desktop, view, request, verdict, changes>>

----------------------------------------------------------------------------
(* The claims of evaluate_transaction *)

Claim(type, status, reason) == [type |-> type, status |-> status, reason |-> reason]
Native == IF tx.post /= Nothing THEN tx.post.native ELSE IF tx.pre /= Nothing THEN tx.pre.native ELSE Nothing
Web == IF tx.post /= Nothing THEN tx.post.web ELSE Nothing

\* What each caller says of the process: the engine and the evidence tool give no
\* creation time under the name the engine reads; a caller of the library may say
\* nothing.
ProcessInfo ==
  CASE request.caller = "engine"   -> IF tx.post = Nothing THEN Nothing
                                      ELSE [pid |-> 1, tree |-> {1}, creation |-> 0, running |-> TRUE]
    [] request.caller = "evidence" -> [pid |-> ExpectedPid, tree |-> {1, ExpectedPid}, creation |-> 0, running |-> TRUE]
    [] request.caller = "library"  ->
         IF request.says THEN [pid |-> 1, tree |-> {1}, creation |-> 1, running |-> IsWindow(desktop, Main)]
         ELSE Nothing

\* The native_screenshot of the call, and what stands for the desktop in its judgement.
Picture == tx.picture
Surface(shot) == IF shot /= Nothing THEN shot ELSE Picture

Contradictions ==
  {c \in {"hidden", "modal", "exited"} :
    \/ /\ c = "hidden" /\ Native /= Nothing /\ Web /= Nothing /\ Web.present
       /\ Native.minimized \/ Native.cloaked \/ ~Native.visible
    \/ c = "modal" /\ Native /= Nothing /\ Web /= Nothing /\ Native.modals /= {}
    \/ c = "exited" /\ tx.receipt = "DISPATCHED" /\ ProcessInfo /= Nothing /\ ~ProcessInfo.running}

ClaimDispatch ==
  Claim("ActionWasDispatched", IF tx.receipt = "DISPATCHED" THEN "PASS" ELSE "FAIL", "none")

\* The checks of the visibility claim, in order: each gives its reason when it fails.
Because(wrong, reason) == IF wrong THEN <<reason>> ELSE <<>>
WindowChecks(o) ==
  Because(~RequireVisibleGui, "PHYSICAL_STATE_UNKNOWN") \o Because(o = Nothing, "PHYSICAL_STATE_UNKNOWN")
  \o Because(o /= Nothing /\ ~o.visible, "PHYSICAL_STATE_UNKNOWN")
  \o Because(o /= Nothing /\ o.minimized, "WINDOW_CLOAKED_OR_MINIMIZED")
  \o Because(o /= Nothing /\ o.cloaked, "WINDOW_CLOAKED_OR_MINIMIZED")
  \o Because(o /= Nothing /\ o.width = 0, "WINDOW_NON_RENDERABLE")
IdentityChecks(o, p, shot) ==
  Because(p /= Nothing /\ o /= Nothing /\ o.pid /= 0 /\ o.pid \notin p.tree, "PID_MISMATCH")
  \o Because(p /= Nothing /\ p.creation = 0, "PROCESS_IDENTITY_MISMATCH")
  \o Because(p /= Nothing /\ shot /= Nothing /\ shot.creation /= p.creation, "PROCESS_IDENTITY_MISMATCH")
CaptureChecks(o, shot) ==
  Because(shot = Nothing /\ Picture = Nothing, "SCREENSHOT_UNAVAILABLE")
  \o Because(shot = Nothing /\ Picture /= Nothing /\ ~Picture.certifying, "NON_AUTHORITATIVE_CAPTURE")
  \o Because(tx.aged, "EVIDENCE_STALE")
  \o Because(Surface(shot) /= Nothing /\ o /= Nothing /\ Width(Surface(shot).bounds) /= o.width, "BOUNDS_MISMATCH")

ClaimVisible ==
  LET wrong == WindowChecks(Native) \o IdentityChecks(Native, ProcessInfo, tx.capture)
                 \o CaptureChecks(Native, tx.capture)
  IN IF wrong = <<>> THEN Claim("TargetWasPhysicallyVisible", "PASS", "none")
     ELSE Claim("TargetWasPhysicallyVisible", "UNVERIFIED", Head(wrong))

ClaimInput ==
  IF ClaimDispatch.status /= "PASS" THEN Claim("InputReachedTarget", ClaimDispatch.status, "none")
  ELSE IF RequireVisibleGui /\ ClaimVisible.status /= "PASS"
       THEN Claim("InputReachedTarget", "UNVERIFIED", ClaimVisible.reason)
  ELSE IF Contradictions /= {} THEN Claim("InputReachedTarget", "UNVERIFIED", "CONTRADICTORY_EVIDENCE")
  ELSE Claim("InputReachedTarget", "PASS", "none")

\* Neither of the engine's callers leaves out the advance of the epoch, which alone
\* counts as a change.
Changed ==
  \/ tx.change \in {"STATE_CHANGED", "NAVIGATED", "MODAL_APPEARED", "TARGET_DISAPPEARED"}
  \/ request.caller /= "evidence" /\ Mutated(Differ(tx.pre, tx.post))
  \/ tx.post.epoch > tx.pre.epoch
ClaimState ==
  LET t == "ExpectedStateOccurred" IN
  IF tx.pre = Nothing THEN Claim(t, "UNVERIFIED", "PRE_STATE_MISSING")
  ELSE IF tx.post = Nothing THEN Claim(t, "UNVERIFIED", "POST_STATE_MISSING")
  ELSE IF Contradictions /= {} THEN Claim(t, "UNVERIFIED", "CONTRADICTORY_EVIDENCE")
  ELSE IF request.expect THEN Claim(t, IF Changed THEN "PASS" ELSE "FAIL", "none")
  ELSE Claim(t, IF tx.change = "NO_EFFECT" /\ ~Mutated(Differ(tx.pre, tx.post)) THEN "PASS" ELSE "FAIL", "none")

UrlOf(snap) == IF snap = Nothing \/ snap.web = Nothing THEN Nothing ELSE snap.web.url
ClaimNavigation ==
  LET went == IF UrlOf(tx.post) /= Nothing THEN UrlOf(tx.post) ELSE IF tx.change = "NAVIGATED" THEN 1 ELSE Nothing
  IN Claim("NavigationOccurred",
           IF request.url /= Nothing THEN IF went = request.url THEN "PASS" ELSE "FAIL"
           ELSE IF UrlOf(tx.pre) /= went \/ tx.change = "NAVIGATED" THEN "PASS" ELSE "FAIL", "none")

ClaimModal ==
  Claim("NativeModalAppeared", IF Native /= Nothing /\ Native.modals /= {} THEN "PASS" ELSE "FAIL", "none")

In(snap) == snap /= Nothing /\ snap.web /= Nothing /\ snap.web.present
ClaimDisappeared ==
  IF In(tx.pre) /\ ~In(tx.post) THEN Claim("ElementDisappeared", "PASS", "none")
  ELSE IF In(tx.post) THEN Claim("ElementDisappeared", "FAIL", "none")
  ELSE Claim("ElementDisappeared", "UNVERIFIED", "TARGET_DISAPPEARED_WITHOUT_EXPECTATION")

OptionalClaim ==
  IF tx.change = "NAVIGATED" \/ request.claim = "NavigationOccurred" \/ request.url /= Nothing
  THEN <<ClaimNavigation>>
  ELSE IF tx.change = "MODAL_APPEARED" \/ request.claim = "NativeModalAppeared" THEN <<ClaimModal>>
  ELSE IF tx.change = "TARGET_DISAPPEARED" \/ request.claim = "ElementDisappeared" THEN <<ClaimDisappeared>>
  ELSE <<>>

Claims == <<ClaimDispatch, ClaimVisible, ClaimInput, ClaimState>> \o OptionalClaim

----------------------------------------------------------------------------
(* The verdict *)

Priority(reason) ==
  CASE reason = "USER_CONFIRMATION_PENDING" -> 1
    [] reason = "POST_STATE_MISSING" -> 2
    [] reason = "SCREENSHOT_UNAVAILABLE" -> 3
    [] reason = "PHYSICAL_STATE_UNKNOWN" -> 4
    [] reason = "NON_AUTHORITATIVE_CAPTURE" -> 5
    [] OTHER -> 99

\* The most telling reason of the unverified claims; of several, the first.
MainReason(claims) ==
  LET open == {i \in DOMAIN claims : claims[i].status = "UNVERIFIED"}
      best == CHOOSE i \in open : \A j \in open :
                \/ Priority(claims[i].reason) < Priority(claims[j].reason)
                \/ Priority(claims[i].reason) = Priority(claims[j].reason) /\ i <= j
  IN claims[best].reason

SynthesizeWithoutUnverified(claims, contradictions) ==
  IF \E i \in DOMAIN claims : claims[i].status = "FAIL" THEN <<"FAIL", "none">>
  ELSE IF contradictions /= {} THEN <<"UNVERIFIED", "CONTRADICTORY_EVIDENCE">>
  ELSE IF request.interactive /\ ~request.confirmed THEN <<"UNVERIFIED", "USER_CONFIRMATION_PENDING">>
  ELSE <<"PASS", "none">>

SynthesizeVerdict(claims, contradictions) ==
  IF \E i \in DOMAIN claims : claims[i].status = "FAIL" THEN <<"FAIL", "none">>
  ELSE IF contradictions /= {} THEN <<"UNVERIFIED", "CONTRADICTORY_EVIDENCE">>
  ELSE IF \E i \in DOMAIN claims : claims[i].status = "UNVERIFIED" THEN <<"UNVERIFIED", MainReason(claims)>>
  ELSE IF request.level = 4 /\ Picture = Nothing
       THEN <<"UNVERIFIED", "SCREENSHOT_UNAVAILABLE">>
  ELSE IF request.interactive /\ ~request.confirmed THEN <<"UNVERIFIED", "USER_CONFIRMATION_PENDING">>
  ELSE <<"PASS", "none">>

EvaluateTransaction ==
  /\ phase = "captured"
  /\ LET v == SynthesizeVerdict(Claims, Contradictions)
     IN verdict' = [status |-> v[1], reason |-> v[2], claims |-> Claims]
  /\ phase' = IF request.caller = "engine" THEN "judged" ELSE "done"
  /\ UNCHANGED <<desktop, view, request, tx, changes>>

\* desktop_collect_evidence judges the last outcome again, which is the engine's.  The request it makes up
\* has lost what the action was expected to do; a missing snapshot is taken now, and
\* stands in for the one before the action too.
CollectEvidence ==
  /\ phase = "judged"
  /\ request' = [request EXCEPT !.caller = "evidence", !.expect = TRUE, !.url = Nothing, !.claim = "none",
                                !.interactive = FALSE, !.confirmed = FALSE, !.level = 3]
  /\ LET post == IF tx.post /= Nothing THEN tx.post ELSE Snapshot(tx.epoch)
     IN tx' = [tx EXCEPT !.post = post, !.pre = IF @ = Nothing THEN post ELSE @, !.capture = Nothing,
                         !.picture = Nothing, !.aged = FALSE]
  /\ phase' = "posted" /\ verdict' = NoVerdict
  /\ UNCHANGED <<desktop, view, changes>>

\* Before any action it judges a made-up one that is said to have been dispatched.
CollectBaseline ==
  /\ phase = "idle" /\ request.caller = "engine"
  /\ request' = [request EXCEPT !.caller = "evidence", !.expect = TRUE, !.url = Nothing, !.claim = "none",
                                !.interactive = FALSE, !.confirmed = FALSE, !.level = 3]
  /\ tx' = [tx EXCEPT !.receipt = "DISPATCHED", !.post = Snapshot(0), !.pre = Snapshot(0)]
  /\ phase' = "posted"
  /\ UNCHANGED <<desktop, view, verdict, changes>>

JudgeNext ==
  \/ DesktopChanges \/ CaptureAges
  \/ PreObserve \/ DispatchOk \/ DispatchNotOk \/ Settle \/ PostObserve
  \/ CaptureRefused \/ CaptureChecked \/ CaptureValidated
  \/ EvaluateTransaction \/ CollectEvidence \/ CollectBaseline

JudgeSpec == JudgeInit /\ [][JudgeNext]_judgeVars

----------------------------------------------------------------------------
(* Properties *)

\* PASS is given only to an action that was dispatched and observed before and after,
\* in a window that was shown and unblocked when observed, that the desktop capture or
\* a picture the caller vouches for shows in the size it had then, not five seconds
\* ago; in a window of the expected process, where the caller says which that is; with
\* both pictures where the level asks for them, and with the confirmation where a
\* person has to give it (verification_engine.py:1317: all claims pass, all proofs
\* are there).
PassMeansProven ==
  verdict.status = "PASS" =>
    /\ tx.receipt = "DISPATCHED" /\ tx.pre /= Nothing /\ tx.post /= Nothing
    /\ LET o == tx.post.native
           shown == Surface(tx.capture) IN
         /\ o.visible /\ ~o.minimized /\ ~o.cloaked
         /\ tx.post.web /= Nothing => o.modals = {}
         /\ shown /= Nothing /\ ~tx.aged /\ Width(shown.bounds) = o.width /\ o.width > 0
         /\ tx.capture = Nothing => tx.picture.certifying
         /\ request.says => o.pid = 1
    /\ request.level = 4 => tx.picture /= Nothing
    /\ request.interactive => request.confirmed

\* On a desktop and a page that nothing disturbs, an action that is dispatched and
\* observed on both sides gets its PASS in an automated run (docs/architecture/
\* 20_MIGRATION_PLAN.md:128).
UndisturbedPasses ==
  (/\ phase = "judged" /\ changes = 0 /\ request.caller = "engine" /\ request.expect /\ request.claim = "none" /\ request.url = Nothing
   /\ request.level = 3 /\ ~request.interactive /\ tx.receipt = "DISPATCHED" /\ tx.pre /= Nothing /\ ~tx.aged
   /\ tx.change = "STATE_CHANGED")
    => verdict.status = "PASS"

\* The claim that the expected change occurred is upheld only where something did
\* change (verification_engine.py:1057, 1082).
ChangeIsSeen ==
  \A i \in DOMAIN verdict.claims :
    (/\ verdict.claims[i].type = "ExpectedStateOccurred" /\ verdict.claims[i].status = "PASS" /\ request.expect)
      => tx.change /= "NO_EFFECT" \/ Mutated(Differ(tx.pre, tx.post))

\* An authoritative capture shows the window and nothing else.
CaptureShowsWindow == phase = "captured" /\ tx.capture /= Nothing => tx.capture.shows = {Main}
=============================================================================
