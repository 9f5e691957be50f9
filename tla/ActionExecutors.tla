-------------------------- MODULE ActionExecutors --------------------------
(***************************************************************************)
(* One action from its gates to its receipt: the five gates of              *)
(* runtime/actionability.py, the executors of runtime/                      *)
(* web_action_executor.py and runtime/native_action_executor.py, and the    *)
(* input they produce (runtime/native_input.py).  Page, desktop and         *)
(* connection change between any two awaits, and a command may fail or be   *)
(* carried out although no answer comes.  The page has one line of pixels:  *)
(* 1 and 2 are in the viewport, 3 is not.                                   *)
(***************************************************************************)
EXTENDS NativeDesktop

CONSTANTS Asked,        \* the actions looked at, records of Request
          Desktops,     \* the desktops the window may be found on
          MaxMoves,     \* bound on changes of page, desktop and epoch
          MaxFailures   \* bound on commands that are not answered

VARIABLES page, desk, boundEpoch, connected,
          order, pc,
          gate,      \* the gates so far: a sample and the final report
          todo,      \* commands left to send
          input,     \* what page and desktop have received
          receipt,   \* status and method
          moves, failures

executorVars ==
  <<page, desk, boundEpoch, connected, order, pc, gate, todo, input, receipt, moves, failures>>
surroundings == <<page, desk, boundEpoch, connected, moves>>

Types == {"CLICK", "DOUBLE_CLICK", "RIGHT_CLICK", "HOVER", "TYPE", "KEY_PRESS", "KEYBOARD_SHORTCUT",
          "DRAG_AND_DROP", "DROP", "SELECT", "DIALOG_INTERACTION", "FILE_PICKER", "SCROLL", "FOCUS",
          "WAIT"}
Request == [plane : {"web", "native"}, type : Types, key : {"Enter", "ArrowDown"}, text : Seq({1, 2}),
            mods : Seq({"ctrl", "shift"}), clear : BOOLEAN]
ASSUME ExecutorAssumption ==
  /\ Asked \subseteq Request /\ MaxMoves \in Nat /\ MaxFailures \in Nat
  /\ \A d \in Desktops : IsDesktop(d)
Statuses == {"none", "DISPATCHED", "REJECTED", "FAILED", "raised"}

\* The types of the variables.
ExecutorTypeOK ==
  /\ page \in [at : 1..3, found : BOOLEAN, shown : BOOLEAN, disabled : BOOLEAN, framed : BOOLEAN,
               over : SUBSET {1, 2}]
  /\ IsDesktop(desk)
  /\ boundEpoch \in 1..2 /\ connected \in BOOLEAN /\ order \in Asked
  /\ pc \in {"asked", "sampled", "hit", "sending", "fallback", "done"}
  /\ receipt \in [status : Statuses, method : {"none", "CDP_INPUT", "SCRIPTED_FALLBACK", "NATIVE_SENDINPUT"}]
  /\ moves \in 0..MaxMoves /\ failures \in 0..MaxFailures

NoGate == [visible |-> FALSE, sample |-> Nothing, point |-> Nothing, stable |-> FALSE,
           enabled |-> FALSE, attached |-> FALSE, ready |-> FALSE, top |-> "none"]
NoInput == [held |-> {}, clicks |-> <<>>, keys |-> <<>>, events |-> 0]

ExecutorInit ==
  /\ page \in [at : {1}, found : {TRUE}, shown : {TRUE}, disabled : BOOLEAN, framed : {TRUE},
               over : {{}, {1}}]
  /\ desk \in Desktops /\ boundEpoch = 1 /\ connected = TRUE /\ order \in Asked
  /\ pc = "asked" /\ gate = NoGate /\ todo = <<>> /\ input = NoInput
  /\ receipt = [status |-> "none", method |-> "none"] /\ moves = 0 /\ failures = 0

----------------------------------------------------------------------------
(* The world *)

\* The element moves, disappears, is hidden or covered; its frame goes; the page is left;
\* the connection is lost; the desktop changes.
WorldChanges ==
  /\ pc # "done" /\ moves < MaxMoves /\ moves' = moves + 1
  /\ \/ /\ page' \in {[page EXCEPT !.at = 2], [page EXCEPT !.at = 3], [page EXCEPT !.found = FALSE],
                      [page EXCEPT !.shown = FALSE], [page EXCEPT !.framed = FALSE],
                      [page EXCEPT !.over = {1, 2}]} \ {page}
        /\ UNCHANGED <<desk, boundEpoch, connected>>
     \/ desk' \in Desktops \ {desk} /\ UNCHANGED <<page, boundEpoch, connected>>
     \/ boundEpoch = 1 /\ boundEpoch' = 2 /\ UNCHANGED <<page, desk, connected>>
     \/ connected /\ connected' = FALSE /\ UNCHANGED <<page, desk, boundEpoch>>
  /\ UNCHANGED <<order, pc, gate, todo, input, receipt, failures>>

Ends(status, method) ==
  /\ receipt' = [status |-> status, method |-> method] /\ pc' = "done" /\ todo' = <<>>
Method == IF order.plane = "web" THEN "CDP_INPUT" ELSE "NATIVE_SENDINPUT"

----------------------------------------------------------------------------
(* The commands of an action, as the executors lay them out *)

Move(x) == [do |-> "move", at |-> x, key |-> "none"]
Press(b, x) == [do |-> "press", at |-> x, key |-> b]
Release(b, x) == [do |-> "release", at |-> x, key |-> b]
Wheel(x) == [do |-> "wheel", at |-> x, key |-> "none"]
KeyDown(k) == [do |-> "keydown", at |-> 0, key |-> k]
KeyUp(k) == [do |-> "keyup", at |-> 0, key |-> k]
Script(s) == [do |-> s, at |-> 0, key |-> "none"]

Click(b, x) == <<Press(b, x), Release(b, x)>>

\* every character goes down and up
Chars(text) ==
  [i \in 1..2 * Len(text) |-> IF i % 2 = 1 THEN KeyDown(ToString(text[(i + 1) \div 2]))
                                          ELSE KeyUp(ToString(text[i \div 2]))]
TypeText(text, clear) ==
  <<Script("focus")>> \o (IF clear THEN <<Script("clear")>> ELSE <<>>) \o Chars(text)

\* A key press tells the modifiers in the event; a shortcut holds them down.
KeyPress(k) == <<KeyDown(k), KeyUp(k)>>
ShortcutHeld(k, mods) == [i \in 1..Len(mods) |-> KeyDown(mods[i])] \o KeyPress(k)
KeyboardShortcut(k, mods) ==
  [i \in 1..Len(mods) |-> KeyDown(mods[i])] \o KeyPress(k) \o Reverse([i \in 1..Len(mods) |-> KeyUp(mods[i])])

\* The destination is 2; one move stands for the ten of the interpolation.
DragAndDrop(x) == <<Move(x), Press("left", x), Move(2), Release("left", 2)>>
Drop(x) == <<Release("left", x)>>

\* A reference has no backend_node_id: the files are only logged.
FilePicker == <<>>

WebCommands(r, x) ==
  CASE r.type = "CLICK" -> <<Move(x)>> \o Click("left", x)
    [] r.type = "DOUBLE_CLICK" -> <<Move(x)>> \o Click("left", x) \o Click("left", x)
    [] r.type = "RIGHT_CLICK" -> <<Move(x)>> \o Click("right", x)
    [] r.type = "HOVER" -> <<Move(x)>>
    [] r.type = "TYPE" -> TypeText(r.text, r.clear)
    [] r.type = "KEY_PRESS" -> KeyPress(r.key)
    [] r.type = "KEYBOARD_SHORTCUT" -> KeyboardShortcut(r.key, r.mods)
    [] r.type = "DRAG_AND_DROP" -> DragAndDrop(x)
    [] r.type = "DROP" -> Drop(x)
    [] r.type = "SELECT" -> <<Script("select")>>
    [] r.type = "DIALOG_INTERACTION" -> <<Script("dialog")>>
    [] r.type = "FILE_PICKER" -> FilePicker
    [] r.type = "SCROLL" -> <<Wheel(x)>>
    [] r.type = "FOCUS" -> <<Script("focus")>>
    [] r.type = "WAIT" -> <<>>

----------------------------------------------------------------------------
(* What a command does where it arrives *)

Under(x) == IF x \in page.over THEN "cover" ELSE IF page.found /\ page.shown /\ page.at = x THEN "target" ELSE "page"
Received(in, c) ==
  LET e == [in EXCEPT !.events = @ + 1] IN
  CASE c.do = "press" -> [e EXCEPT !.held = @ \cup {c.key}, !.clicks = Append(@, Under(c.at))]
    [] c.do = "release" -> [e EXCEPT !.held = @ \ {c.key}]
    [] c.do = "keydown" -> [e EXCEPT !.held = @ \cup {c.key}, !.keys = Append(@, c.key)]
    [] c.do = "keyup" -> [e EXCEPT !.held = @ \ {c.key}]
    [] OTHER -> e

\* The focus and fallback scripts call lower() on the text of the first element they look
\* at.  No JavaScript string has it: both throw on every page.
HasToLowerCase == TRUE
HasLower == FALSE

FocusThrows(c) == c.do = "focus" /\ ~HasLower
\* A dialog command is refused when no dialog is open, which is so on a page that answers.
Refused(c) == FocusThrows(c) \/ c.do = "dialog"

\* The fallback clicks twice, by click() and by an event of its own, or appends the text;
\* for every other action it does nothing and succeeds.
ScriptedFallback(in) ==
  CASE ~page.found -> in
    [] order.type = "CLICK" -> [in EXCEPT !.clicks = @ \o <<"target", "target">>, !.events = @ + 1]
    [] order.type = "TYPE" -> [in EXCEPT !.keys = @ \o [i \in 1..Len(order.text) |-> ToString(order.text[i])],
                                           !.events = @ + 1]
    [] OTHER -> in

----------------------------------------------------------------------------
(* The gates of a web element *)

Sample == IF connected /\ page.found
          THEN [at |-> page.at, shown |-> page.shown, disabled |-> page.disabled] ELSE Nothing
PhysicallyBlocked ==
  LET v == PhysicalVisibility(desk, Main) IN v.minimized \/ v.cloaked \/ ~v.visible \/ ~v.responsive

\* execute_action of the web executor, given the report of the gates.
WebExecute(g) ==
  IF boundEpoch # 1 THEN Ends("REJECTED", Method)
  ELSE IF ~connected THEN Ends("FAILED", Method)
  ELSE IF ~g.ready THEN Ends("REJECTED", Method)
  ELSE /\ todo' = WebCommands(order, g.point) /\ pc' = "sending" /\ UNCHANGED receipt

\* Attachment, and the state of the window before the first look at the element.  A window
\* that is gone raises out of inspect_window.
WebBegins ==
  /\ pc = "asked" /\ order.plane = "web"
  /\ IF boundEpoch # 1 \/ ~connected THEN gate' = NoGate /\ WebExecute(NoGate)
     ELSE IF ~IsWindow(desk, Main) THEN gate' = NoGate /\ Ends("raised", "none")
     ELSE /\ gate' = [NoGate EXCEPT !.attached = page.framed, !.visible = ~PhysicallyBlocked]
          /\ pc' = "sampled" /\ UNCHANGED <<todo, receipt>>
  /\ UNCHANGED <<surroundings, order, input, failures>>

WebSampled ==
  /\ pc = "sampled" /\ order.plane = "web" /\ gate.sample = Nothing
  /\ \/ /\ Sample # Nothing
        /\ gate' = [gate EXCEPT !.sample = Sample, !.visible = @ /\ Sample.shown]
     \/ gate' = [gate EXCEPT !.sample = [at |-> 0, shown |-> FALSE, disabled |-> FALSE], !.visible = FALSE]
  /\ UNCHANGED <<surroundings, order, pc, todo, input, receipt, failures>>

\* The second sample, and the point to hit; without one the gates end here.
WebResampled ==
  /\ pc = "sampled" /\ order.plane = "web" /\ gate.sample # Nothing
  /\ \/ /\ Sample # Nothing
        /\ gate' = [gate EXCEPT !.stable = gate.sample.at = Sample.at, !.enabled = ~Sample.disabled,
                                !.point = Sample.at]
        /\ pc' = "hit" /\ UNCHANGED <<todo, receipt>>
     \/ gate' = gate /\ WebExecute(gate)
  /\ UNCHANGED <<surroundings, order, input, failures>>

\* elementFromPoint finds some element at every point of the viewport.
HitIsTarget(x) == Under(x) = "target"
HitTest(x) == x \in {1, 2}

WebTested ==
  /\ pc = "hit"
  /\ \E answered \in {connected, FALSE} :
     LET hit == answered /\ HitTest(gate.point) /\ Occlusion(desk, Main) # "LIKELY_OCCLUDED"
         g == [gate EXCEPT !.ready = gate.attached /\ gate.visible /\ gate.stable /\ gate.enabled /\ hit,
                           !.top = Under(gate.point)]
     IN gate' = g /\ WebExecute(g)
  /\ UNCHANGED <<surroundings, order, input, failures>>

----------------------------------------------------------------------------
(* Sending to the page *)

Carried == input' = Received(input, Head(todo))

\* A command is answered, or refused, or lost after or before it was carried out.
Send ==
  /\ pc = "sending" /\ order.plane = "web" /\ todo # <<>>
  /\ \/ /\ connected /\ ~Refused(Head(todo)) /\ Carried
        /\ todo' = Tail(todo) /\ UNCHANGED <<pc, failures>>
     \/ /\ ~connected \/ Refused(Head(todo))
        /\ pc' = "fallback" /\ UNCHANGED <<todo, input, failures>>
     \/ /\ connected /\ ~Refused(Head(todo)) /\ failures < MaxFailures
        /\ failures' = failures + 1 /\ pc' = "fallback" /\ UNCHANGED todo
        /\ Carried \/ UNCHANGED input
  /\ UNCHANGED <<surroundings, order, gate, receipt>>

WebSent ==
  /\ pc = "sending" /\ order.plane = "web" /\ todo = <<>>
  /\ Ends("DISPATCHED", "CDP_INPUT")
  /\ UNCHANGED <<surroundings, order, gate, input, failures>>

Fallback ==
  /\ pc = "fallback"
  /\ \/ Ends("FAILED", "CDP_INPUT") /\ UNCHANGED input
     \/ /\ HasLower /\ connected /\ boundEpoch = 1
        /\ Ends("DISPATCHED", "SCRIPTED_FALLBACK") /\ input' = ScriptedFallback(input)
  /\ UNCHANGED <<surroundings, order, gate, failures>>

----------------------------------------------------------------------------
(* Native controls: the whole desktop is one line too, and the window is hit at 0 *)

\* A key nobody knows is pressed as Enter.
ResolveVk(k) == IF k = "ArrowDown" THEN "Enter" ELSE k
PressKey(k, mods) == KeyboardShortcut(ResolveVk(k), mods)
Bring == Script("focus")

\* The calls of SendInput, each the events it inserts, and what is done to windows before.
NativeCalls(r, x) ==
  CASE r.type = "CLICK" -> <<<<Move(x)>>, Click("left", x)>>
    [] r.type = "DOUBLE_CLICK" -> <<<<Move(x)>>, Click("left", x), Click("left", x)>>
    [] r.type = "RIGHT_CLICK" -> <<<<Move(x)>>, Click("right", x)>>
    [] r.type = "HOVER" -> <<<<Move(x)>>>>
    [] r.type = "TYPE" -> <<<<Bring>>, Chars(r.text)>>
    [] r.type \in {"KEY_PRESS", "KEYBOARD_SHORTCUT"} -> <<<<Bring>>, PressKey(r.key, r.mods)>>
    [] r.type = "DRAG_AND_DROP" -> [i \in 1..4 |-> <<DragAndDrop(x)[i]>>]
    [] r.type = "SCROLL" -> <<<<Move(x)>>, <<Wheel(x)>>>>
    [] r.type = "FOCUS" -> <<<<Bring>>>>
    [] r.type = "DIALOG_INTERACTION" -> <<<<Script("modal")>>>>
    [] OTHER -> <<>>
Unsupported == {"DROP", "SELECT", "FILE_PICKER"}

NativeExecute(g) ==
  IF boundEpoch # 1 THEN Ends("REJECTED", Method)
  ELSE IF ~IsWindow(desk, Main) THEN Ends("FAILED", Method)
  ELSE IF ~g.ready THEN Ends("REJECTED", Method)
  ELSE IF order.type \in Unsupported THEN Ends("FAILED", Method)
  ELSE /\ todo' = NativeCalls(order, g.point) /\ pc' = "sending" /\ UNCHANGED receipt

NativeBegins ==
  /\ pc = "asked" /\ order.plane = "native"
  /\ IF boundEpoch # 1 \/ ~IsWindow(desk, Main) THEN gate' = NoGate /\ NativeExecute(NoGate)
     ELSE LET v == PhysicalVisibility(desk, Main) IN
          /\ gate' = [NoGate EXCEPT !.attached = TRUE, !.visible = ~v.minimized /\ ~v.cloaked /\ v.visible,
                                    !.sample = CanonicalBounds(desk, Main)]
          /\ pc' = "sampled" /\ UNCHANGED <<todo, receipt>>
  /\ UNCHANGED <<surroundings, order, input, failures>>

NativeSampled ==
  /\ pc = "sampled" /\ order.plane = "native"
  /\ IF ~IsWindow(desk, Main) THEN gate' = gate /\ Ends("raised", "none")
     ELSE LET v == PhysicalVisibility(desk, Main)
              g == [gate EXCEPT !.point = 0, !.stable = gate.sample = CanonicalBounds(desk, Main),
                                !.enabled = v.responsive /\ v.enabled]
              clear == /\ DetectModals(desk, WindowPid(desk, Main), Nothing) = {}
                       /\ Occlusion(desk, Main) # "LIKELY_OCCLUDED"
              h == [g EXCEPT !.ready = g.attached /\ g.visible /\ g.stable /\ g.enabled /\ clear]
          IN gate' = h /\ NativeExecute(h)
  /\ UNCHANGED <<surroundings, order, input, failures>>

\* SendInput may insert only the first n of its events, which is noted in their record and nowhere
\* else; the window may refuse the foreground, which is noted nowhere.
Inserted(events, n) ==
  LET after[i \in 0..n] == IF i = 0 THEN input ELSE Received(after[i - 1], events[i])
  IN after[n]

SendNative ==
  /\ pc = "sending" /\ order.plane = "native" /\ todo # <<>>
  /\ LET call == Head(todo) IN
     \/ /\ call = <<Bring>>
        /\ desk' \in {desk, BringToForeground(desk, Main)}
        /\ todo' = Tail(todo) /\ UNCHANGED <<input, failures>>
     \/ /\ call = <<Script("modal")>>
        /\ todo' = IF DetectModals(desk, WindowPid(desk, Main), Nothing) = {} THEN <<>>
                   ELSE <<PressKey("Enter", <<>>)>>
        /\ UNCHANGED <<input, failures, desk>>
     \/ /\ call \notin {<<Bring>>, <<Script("modal")>>}
        /\ todo' = Tail(todo) /\ UNCHANGED desk
        /\ \/ input' = Inserted(call, Len(call)) /\ UNCHANGED failures
           \/ /\ failures < MaxFailures /\ failures' = failures + 1
              /\ \E n \in 0..(Len(call) - 1) : input' = Inserted(call, n)
  /\ UNCHANGED <<page, boundEpoch, connected, moves, order, pc, gate, receipt>>

NativeSent ==
  /\ pc = "sending" /\ order.plane = "native" /\ todo = <<>>
  /\ Ends("DISPATCHED", "NATIVE_SENDINPUT")
  /\ UNCHANGED <<surroundings, order, gate, input, failures>>

----------------------------------------------------------------------------

ExecutorNext ==
  \/ WorldChanges
  \/ WebBegins \/ WebSampled \/ WebResampled \/ WebTested \/ Send \/ WebSent \/ Fallback
  \/ NativeBegins \/ NativeSampled \/ SendNative \/ NativeSent
ExecutorSpec == ExecutorInit /\ [][ExecutorNext]_executorVars

----------------------------------------------------------------------------
(* Properties *)

\* Whatever command was lost or answered late, the page is not clicked or typed into more
\* often than was asked: the fallback never acts a second time.
AskedOnce ==
  /\ Len(input.clicks) <= IF order.type = "DOUBLE_CLICK" THEN 2 ELSE 1
  /\ order.type = "TYPE" => Len(input.keys) <= Len(order.text)

\* No web action that was dispatched leaves a button or a modifier down.
NothingLeftDown == receipt.status = "DISPATCHED" /\ order.plane = "web" => input.held = {}

\* What docs/architecture/17_ACTION_MODEL.md says of the fifth gate: "The check passes if
\* the hit element is the target element or one of its descendants."
HitMeansTarget == gate.ready /\ order.plane = "web" => gate.top = "target"

\* What action_models.py says of DISPATCHED: "Immediate result of input dispatch placing
\* events into the queue/stream."
DispatchedWasSent ==
  receipt.status = "DISPATCHED" /\ order.type \notin {"WAIT", "FOCUS", "SELECT"} => input.events > 0

\* What _dispatch_type says of itself: "Focuses element and types characters": on a page
\* that does not change and answers everything a ready element is typed into.
UndisturbedTypes ==
  pc = "done" /\ order.type = "TYPE" /\ gate.ready /\ moves = 0 /\ failures = 0 => receipt.status = "DISPATCHED"
=============================================================================
