--------------------------- MODULE NativeDesktop ---------------------------
(***************************************************************************)
(* What the native supervisor reads off a desktop (runtime/                 *)
(* native_supervisor.py) and what the native observation makes of it        *)
(* (runtime/native_observation.py).  A desktop d is a record: d.win, the    *)
(* windows; d.order, the top-level windows from the top down; d.front, the  *)
(* foreground window.  A window covers the pixels lo..hi-1 of one line.     *)
(* A handle outlives its window: the window is then closed.                 *)
(***************************************************************************)
EXTENDS Naturals, Sequences, FiniteSets, FiniteSetsExt, SequencesExt

CONSTANT Nothing

Main == "main"   \* the handle of the application's window

Window == [open : BOOLEAN, visible : BOOLEAN, iconic : BOOLEAN, cloaked : BOOLEAN,
           enabled : BOOLEAN, hung : BOOLEAN, lo : Nat, hi : Nat, pid : Nat,
           owner : {"none", Main}, dialog : BOOLEAN]

IsDesktop(d) ==
  d = [win |-> d.win, order |-> d.order, front |-> d.front] /\ d.win \in [DOMAIN d.win -> Window]

----------------------------------------------------------------------------
(* Single windows *)

IsWindow(d, h) == d.win[h].open
WindowPid(d, h) == IF IsWindow(d, h) THEN d.win[h].pid ELSE 0
WindowOwner(d, h) == IF IsWindow(d, h) THEN d.win[h].owner ELSE "none"
IsVisible(d, h) == IsWindow(d, h) /\ d.win[h].visible

CheckResponsiveness(d, h) ==
  IF ~IsWindow(d, h) THEN "TERMINATED" ELSE IF d.win[h].hung THEN "HUNG" ELSE "HEALTHY"

EnsureResponsive(d, h) == CheckResponsiveness(d, h) = "HEALTHY"

\* The extended frame that DWM reports; a closed window has none.
CanonicalBounds(d, h) ==
  IF IsWindow(d, h) THEN [lo |-> d.win[h].lo, hi |-> d.win[h].hi] ELSE [lo |-> 0, hi |-> 0]
Width(b) == IF b.hi > b.lo THEN b.hi - b.lo ELSE 0

PhysicalVisibility(d, h) ==
  [exists |-> IsWindow(d, h), visible |-> IsVisible(d, h),
   minimized |-> IsWindow(d, h) /\ d.win[h].iconic,
   cloaked |-> IsWindow(d, h) /\ d.win[h].cloaked,
   foreground |-> IsWindow(d, h) /\ d.front = h,
   enabled |-> IsWindow(d, h) /\ d.win[h].enabled,
   responsive |-> EnsureResponsive(d, h),
   bounded |-> Width(CanonicalBounds(d, h)) > 0]

Interactable(v) ==
  v.exists /\ v.visible /\ ~v.minimized /\ ~v.cloaked /\ v.enabled /\ v.responsive /\ v.bounded

----------------------------------------------------------------------------
(* Several windows *)

TopLevel(d) == SelectSeq(d.order, LAMBDA h : IsWindow(d, h))
WindowsOfPid(d, pid) == {h \in Range(TopLevel(d)) : WindowPid(d, h) = pid}

Overlap(a, b) ==
  LET left  == IF a.lo > b.lo THEN a.lo ELSE b.lo
      right == IF a.hi < b.hi THEN a.hi ELSE b.hi
  IN Width([lo |-> left, hi |-> right])

\* The windows above h that can cover it: those it owns do not count.
Coverers(d, h) ==
  LET z == TopLevel(d) IN
  {z[i] : i \in {i \in 1..Len(z) :
     /\ \E j \in (i + 1)..Len(z) : z[j] = h
     /\ IsVisible(d, z[i]) /\ ~d.win[z[i]].iconic /\ ~d.win[z[i]].cloaked
     /\ WindowOwner(d, z[i]) /= h}}

\* The covered parts are added up, whether or not they overlap each other.
Occlusion(d, h) ==
  LET mine == CanonicalBounds(d, h)
      area == FoldSet(LAMBDA w, n : n + Overlap(mine, CanonicalBounds(d, w)), 0, Coverers(d, h))
  IN IF h \notin Range(TopLevel(d)) \/ Width(mine) = 0 THEN "UNKNOWN"
     ELSE IF 100 * area >= 95 * Width(mine) THEN "LIKELY_OCCLUDED"
     ELSE IF area > 0 THEN "PARTIALLY_OCCLUDED" ELSE "NOT_OCCLUDED"

\* The dialogs that block the windows of a process; main may be Nothing.
DetectModals(d, pid, main) ==
  LET disabled == main /= Nothing /\ IsWindow(d, main) /\ ~d.win[main].enabled
  IN {h \in Range(TopLevel(d)) :
        /\ IsVisible(d, h) /\ ~d.win[h].iconic
        /\ WindowPid(d, h) = pid \/ (main /= Nothing /\ WindowOwner(d, h) = main)
        /\ d.win[h].dialog \/ (WindowOwner(d, h) /= "none" /\ disabled)}

\* inspect_window raises on a handle whose window is gone.
InspectWindow(d, h) ==
  LET v == PhysicalVisibility(d, h) IN
  [valid |-> IsWindow(d, h), pid |-> WindowPid(d, h), vis |-> v, bounds |-> CanonicalBounds(d, h),
   occlusion |-> IF v.visible /\ ~v.minimized THEN Occlusion(d, h) ELSE "UNKNOWN",
   modals |-> IF WindowPid(d, h) > 0 THEN DetectModals(d, WindowPid(d, h), h) ELSE {}]

\* The observation looks for dialogs of the process alone: a dialog that another
\* process owns for the window does not count.
ObserveNativeWindow(d, h) ==
  LET w == InspectWindow(d, h) IN
  IF ~w.valid
  THEN [hwnd |-> h, pid |-> 0, visible |-> FALSE, minimized |-> FALSE, cloaked |-> FALSE,
        responsive |-> FALSE, width |-> 0, modals |-> {}]
  ELSE [hwnd |-> h, pid |-> w.pid, visible |-> w.vis.visible, minimized |-> w.vis.minimized,
        cloaked |-> w.vis.cloaked, responsive |-> w.vis.responsive, width |-> Width(w.bounds),
        modals |-> DetectModals(d, w.pid, Nothing)]

----------------------------------------------------------------------------
(* Pictures and focus *)

\* capture_window_screenshot prints the window itself, whatever covers it.
WindowScreenshot(d, h) == EnsureResponsive(d, h) /\ Width(CanonicalBounds(d, h)) > 0

\* A crop of the desktop shows, pixel by pixel, the topmost visible window there.
Shown(d, x) ==
  LET z == SelectSeq(TopLevel(d), LAMBDA h : /\ IsVisible(d, h) /\ ~d.win[h].iconic /\ ~d.win[h].cloaked
                                             /\ x \in d.win[h].lo..(d.win[h].hi - 1))
  IN IF z = <<>> THEN Nothing ELSE Head(z)
DesktopCrop(d, b) == [x \in b.lo..(b.hi - 1) |-> Shown(d, x)]

Raised(d, h) == [d EXCEPT !.order = <<h>> \o SelectSeq(d.order, LAMBDA w : w /= h), !.front = h]

\* set_foreground and bring_to_foreground: restore if minimised, then to the front.
BringToForeground(d, h) ==
  IF IsWindow(d, h) THEN [Raised(d, h) EXCEPT !.win[h].iconic = FALSE] ELSE d
=============================================================================
