---------------------------- MODULE FocusWindow ----------------------------
(***************************************************************************)
(* Focus, keyboard routing and mouse routing of a DOMWindow whose root is  *)
(* a DOMStackLayout with leaf children (rbs_tui_dom/dom/__init__.py and    *)
(* dom/layout.py).                                                         *)
(*                                                                         *)
(* The layout's render state is that of the StackLayout module, used      *)
(* through INSTANCE.  On top of it: the window's focused_element, every   *)
(* element's focused flag, the KEYBOARD observers of window.input (the    *)
(* _key_press of the elements, in order) with that emitter's deferred     *)
(* queue, the layout's _focused_child_index and whether the poll loop     *)
(* still runs.  Elements are the layout (Root) and its children 1..n.    *)
(*                                                                         *)
(* A key press and a mouse event are each one emission of window.input,  *)
(* and one action here: the whole chain of calls it makes (bubbling,      *)
(* _move, focus, blur, _set_focus) runs inside it, so subscription calls  *)
(* on window.input are queued and applied when it ends.  The chain is a   *)
(* record s threaded through the operators below; s.err is an exception  *)
(* raised on the way, which stops the rest of the chain.                  *)
(***************************************************************************)
EXTENDS Integers, Sequences, SequencesExt

CONSTANTS
  MaxKids, Lengths, Heights,   \* as in StackLayout
  Policy,      \* the layout's computed scroll: "LINE" or "CHILD"
  AnyBlur      \* whether application code calls blur() on any element

VARIABLES
  kids, height, offset, positions, fullSize, rects, clear,
  holder,      \* window.focused_element (NoHolder for None)
  focused,     \* element -> its focused flag
  keyreg,      \* window.input's KEYBOARD observers: elements, in order
  pending,     \* window.input._pending_operations
  fci,         \* the layout's _focused_child_index (NoHolder for None)
  alive        \* the poll loop of DOMWindow._run still runs

layoutVars == <<kids, height, offset, positions, fullSize, rects, clear>>
vars == <<layoutVars, holder, focused, keyreg, pending, fci, alive>>

Layout == INSTANCE StackLayout

Root == Layout!Self
NoHolder == Layout!None
Elements == 0..Len(kids)

\* The keys _on_keyboard_event moves on along the main axis and the
\* mouse buttons _on_mouse_event tells apart.
Keys == {"DOWN", "UP", "PAGE_DOWN", "PAGE_UP"}
Buttons == {"CLICK", "WHEEL_DOWN", "WHEEL_UP"}

KeyDelta(k) ==
  CASE k = "DOWN" -> 1 [] k = "UP" -> -1
    [] k = "PAGE_DOWN" -> height [] k = "PAGE_UP" -> -height

(***************************************************************************)
(* Subscriptions of _key_press on window.input: queued while it emits,    *)
(* applied at once otherwise, where a remove of an absent observer raises *)
(* ValueError (list.remove).                                              *)
(***************************************************************************)
AddKey(s, x) ==
  IF s.emitting THEN [s EXCEPT !.queue = Append(@, [add |-> TRUE, e |-> x])]
  ELSE [s EXCEPT !.reg = Append(@, x)]

RemoveKey(s, x) ==
  IF s.emitting THEN [s EXCEPT !.queue = Append(@, [add |-> FALSE, e |-> x])]
  ELSE IF Contains(s.reg, x) THEN [s EXCEPT !.reg = RemoveFirst(@, x)]
  ELSE [s EXCEPT !.err = TRUE]

\* The flush at the end of window.input.emit: the queue is applied in
\* order and cleared, unless a remove raises part way, which leaves the
\* operations applied so far in place and the whole queue uncleared.
RECURSIVE Flush(_, _)
Flush(reg, q) ==
  IF q = <<>> THEN [reg |-> reg, ok |-> TRUE]
  ELSE IF Head(q).add THEN Flush(Append(reg, Head(q).e), Tail(q))
  ELSE IF Contains(reg, Head(q).e) THEN Flush(RemoveFirst(reg, Head(q).e), Tail(q))
  ELSE [reg |-> reg, ok |-> FALSE]

(***************************************************************************)
(* The chain of calls.                                                     *)
(***************************************************************************)

\* _ensure_focus_visible(i) on a rendered layout: nothing when i is the
\* kept index; otherwise the index is stored and child.get_desired_size()
\* raises TypeError (its max_size argument is missing).
EnsureFocusVisible(s, i) ==
  IF i = s.fci THEN s ELSE [s EXCEPT !.fci = i, !.err = TRUE]

\* DOMElement._on_focus / _on_blur.
SetFlag(s, x, isFocus) == [s EXCEPT !.focused[x] = isFocus]

\* A FOCUS or BLUR event emitted on x: x's _on_focus/_on_blur sets its
\* flag; for a child, the layout's _on_child_event first keeps a focused
\* child visible (ByChild policy), then re-emits the event on the layout,
\* whose own _on_focus/_on_blur sets the layout's flag.
FocusEvent(s, x, isFocus) ==
  LET s1 == SetFlag(s, x, isFocus)
      s2 == IF x /= Root /\ isFocus /\ Policy = "CHILD"
            THEN EnsureFocusVisible(s1, x) ELSE s1
  IN IF s2.err THEN s2 ELSE SetFlag(s2, Root, isFocus)

\* DOMElement.blur(), with window._set_blur().
Blur(s, x) ==
  IF ~s.focused[x] THEN s
  ELSE LET s1 == RemoveKey([s EXCEPT !.focused[x] = FALSE, !.holder = NoHolder], x)
       IN IF s1.err THEN s1 ELSE FocusEvent(s1, x, FALSE)

\* Mutant: the previous holder is not blurred.
SetFocusNoBlur(s, y) == [s EXCEPT !.holder = y]

\* DOMWindow._set_focus(y): blur the previous holder, then record y.
SetFocus(s, y) ==
  LET s1 == IF s.holder /= NoHolder THEN Blur(s, s.holder) ELSE s
  IN IF s1.err THEN s1 ELSE [s1 EXCEPT !.holder = y]

\* Mutant: focus() emits FOCUS before it calls _set_focus.
FocusEmitFirst(s, y) ==
  IF s.holder = y THEN s
  ELSE LET s1 == FocusEvent([s EXCEPT !.focused[y] = TRUE], y, TRUE)
           s2 == IF s1.err THEN s1 ELSE SetFocus(s1, y)
       IN IF s2.err THEN s2 ELSE AddKey(s2, y)

\* DOMElement.focus().
Focus(s, y) ==
  IF s.holder = y THEN s
  ELSE LET s1 == SetFocus([s EXCEPT !.focused[y] = TRUE], y)
       IN IF s1.err THEN s1 ELSE FocusEvent(AddKey(s1, y), y, TRUE)

\* _move_by_child: the first or last child when no index is kept, else
\* the kept index moved by d and clamped to the children.
MoveByChild(s, d) ==
  IF kids = <<>> THEN s
  ELSE IF s.fci = NoHolder THEN Focus(s, IF d >= 0 THEN 1 ELSE Len(kids))
  ELSE Focus(s, Layout!Maximum(1, Layout!Minimum(Len(kids), s.fci + d)))

\* _move(d) along the main axis: ignored when the content fits (unless
\* ByChild), then _move_by_line or _move_by_child by the policy.
Move(s, d) ==
  IF fullSize <= height /\ Policy /= "CHILD" THEN s
  ELSE IF Policy = "LINE"
       THEN [s EXCEPT !.off = Layout!MoveByLine(s.off, d, height, fullSize)]
  ELSE MoveByChild(s, d)

\* A mouse event reaching the layout's _on_mouse_event.
OnMouse(s, b) ==
  CASE b = "WHEEL_DOWN" -> Move(s, 1)
    [] b = "WHEEL_UP" -> Move(s, -1)
    [] OTHER -> s

\* The record a chain starts from, inside window.input's emission or not.
Start(inEmission) ==
  [holder |-> holder, focused |-> focused, reg |-> keyreg, queue |-> pending,
   fci |-> fci, off |-> offset, emitting |-> inEmission, err |-> FALSE]

\* The state after a chain: _render_move re-renders the layout at the
\* offset reached; window.input's queue is flushed when the chain ran in
\* its emission and reached its end.
Finish(s, flushed) ==
  LET f == Flush(s.reg, s.queue) IN
  /\ holder' = s.holder
  /\ focused' = s.focused
  /\ fci' = s.fci
  /\ keyreg' = IF flushed THEN f.reg ELSE s.reg
  /\ pending' = IF ~flushed THEN s.queue ELSE IF f.ok THEN <<>> ELSE s.queue
  /\ Layout!Rendered(kids, height, s.off)

(***************************************************************************)
(* Actions.                                                                *)
(***************************************************************************)

\* DOMInput.check_value emits KEYBOARD: each registered _key_press runs
\* (the list is not changed during the emission); the key bubbles from a
\* child to the layout's _on_keyboard_event.  An exception leaves
\* check_value, and _run's handler calls _exit(): the loop ends.
RECURSIVE PressAll(_, _, _)
PressAll(s, xs, k) ==
  IF xs = <<>> \/ s.err THEN s
  ELSE PressAll(Move(s, KeyDelta(k)), Tail(xs), k)

KeyPress(k) ==
  /\ alive
  /\ LET s == PressAll(Start(TRUE), keyreg, k) IN
     /\ Finish(s, ~s.err)
     /\ alive' = ~s.err

\* t._mouse_event: emit MOUSE on t, which reaches the layout's
\* _on_mouse_event (directly, or bubbling from a child), then focus t
\* (the mask of every button is non-zero).
MouseTarget(s, t, b) ==
  LET s1 == OnMouse(s, b) IN IF s1.err THEN s1 ELSE Focus(s1, t)

\* DOMInput emits MOUSE to DOMWindow._on_mouse_event: the target is
\* find_descendant_at_position, None when the position is off the root.
\* The window catches any exception, so the emission always completes.
MouseEvent(p, b) ==
  /\ alive
  /\ LET t == Layout!DescendantAt(p) IN
     IF t = NoHolder THEN UNCHANGED vars
     ELSE /\ Finish(MouseTarget(Start(TRUE), t, b), TRUE)
          /\ UNCHANGED alive

\* Application code calls focus() or blur() between two ticks; an
\* exception goes back to that code and the window keeps running.
AppFocus(e) ==
  /\ alive
  /\ Finish(Focus(Start(FALSE), e), FALSE)
  /\ UNCHANGED alive

AppBlur(e) ==
  /\ alive
  /\ AnyBlur \/ e = holder
  /\ Finish(Blur(Start(FALSE), e), FALSE)
  /\ UNCHANGED alive

\* DOMWindow._run: the root is attached and focused before the first
\* forced render.
Init ==
  /\ Layout!Init
  /\ holder = Root
  /\ focused = [e \in Elements |-> e = Root]
  /\ keyreg = <<Root>>
  /\ pending = <<>>
  /\ fci = NoHolder
  /\ alive = TRUE

Next ==
  \/ \E k \in Keys : KeyPress(k)
  \/ \E p \in -1..height, b \in Buttons : MouseEvent(p, b)
  \/ \E e \in Elements : AppFocus(e) \/ AppBlur(e)

Spec == Init /\ [][Next]_vars

-----------------------------------------------------------------------------

\* Spec 4.2: only the focused element subscribes to raw keyboard events.
\* Whenever the window is between two ticks, window.input calls exactly
\* one _key_press, the holder's, and has nothing queued: focus() and
\* blur() subscribe and unsubscribe in step with _set_focus, also when
\* they run inside window.input's own emission and are deferred.
KeyboardRouting ==
  alive => /\ keyreg = IF holder = NoHolder THEN <<>> ELSE <<holder>>
           /\ pending = <<>>

\* The focused flags (set by focus/blur and by _on_focus/_on_blur on the
\* FOCUS and BLUR events, which bubble from a child to the layout): a
\* child's flag says it holds the focus and the layout's flag says the
\* focus is within the layout, whatever the order of the events of a
\* focus change made by a click, a key or the application.
FocusWithin ==
  alive => /\ \A i \in 1..Len(kids) : focused[i] = (holder = i)
           /\ focused[Root] = (holder /= NoHolder)

\* The main-axis length of child i in the last render pass.
ChildLength(i) ==
  (IF i < Len(kids) THEN positions[i + 1] ELSE fullSize) - positions[i]

\* Spec 4.3, keep-focused-visible: in a ByChild layout, a displayed child
\* that holds the focus and fits the screen is entirely on screen after
\* _ensure_focus_visible has run for it.
FocusKeptVisible ==
  (alive /\ Policy = "CHILD" /\ holder \in 1..Len(kids)) =>
    LET i == holder IN
    (kids[i].shown /\ ChildLength(i) <= height) =>
      /\ positions[i] + offset >= 0
      /\ positions[i] + offset + ChildLength(i) <= height

=============================================================================
