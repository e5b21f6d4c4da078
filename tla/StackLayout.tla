---------------------------- MODULE StackLayout ----------------------------
(***************************************************************************)
(* DOMStackLayout of rbs_tui_dom/dom/layout.py as the window's root        *)
(* element, along its main axis.                                           *)
(*                                                                         *)
(* The children are leaves known by their desired main-axis length (a     *)
(* number, or FULL_LENGTH = -1 for a "fill" child) and their display.     *)
(* Every operation of the layout ends in a render pass (_render), which   *)
(* is the operator RenderPass: distribution of the free space, offset     *)
(* reset, placement walk (_render_child), trailing clear and the size     *)
(* fed back in _render_full_size.  The state is what the pass caches:     *)
(* the offered screen length and scroll offset (_render_screen), the      *)
(* start-position cache (_children_positions), the achieved length        *)
(* (_render_full_size) and each child's rendered rectangle.               *)
(***************************************************************************)
EXTENDS Integers, Sequences, FiniteSets, SequencesExt

CONSTANTS
  MaxKids,     \* bound on the number of children
  Lengths,     \* desired main-axis lengths a child may have (numbers)
  Heights      \* main-axis lengths the window may offer the layout

FULL == -1     \* FULL_LENGTH in dom/types.py

ASSUME Lengths \subseteq Nat /\ Heights \subseteq Nat \ {0}

\* A child: its desired main-axis length and whether display is not NONE.
Kid == [len : Lengths \cup {FULL}, shown : BOOLEAN]

\* A child's rendered rectangle along the main axis, or NoRect when its
\* _render_screen is None (display NONE).
Rect == [pos : Int, size : Nat]
NoRect == [pos |-> 0, size |-> -1]

VARIABLES
  kids,        \* self._children
  height,      \* self._render_screen.size[orientation]
  offset,      \* self._render_screen.offset[orientation]
  positions,   \* self._children_positions
  fullSize,    \* self._render_full_size[orientation]
  rects,       \* child._render_screen of each child
  clear        \* the trailing region cleared by the last render pass

vars == <<kids, height, offset, positions, fullSize, rects, clear>>

Maximum(a, b) == IF a >= b THEN a ELSE b
Minimum(a, b) == IF a <= b THEN a ELSE b

SumOf(s) == FoldLeft(LAMBDA a, b : a + b, 0, s)

\* DOMElement._calculate_desired_size: a child with display NONE is (0, 0).
DesiredLen(k) == IF k.shown THEN k.len ELSE 0

(***************************************************************************)
(* The steps of one render pass.  Each operator preceded by a "mutant"    *)
(* is a plausible slip in that step, used to confirm that the properties  *)
(* below can detect it.                                                    *)
(***************************************************************************)

\* The free space shared by the fill children, integer-divided among them.
SharedLength(totalShared, nFull) ==
  totalShared \div (IF nFull = 0 THEN 1 ELSE nFull)

\* Mutant: the reset only when the children leave space over.
ResetOffsetStrict(length, shared, nFull, h, off) ==
  IF length + shared * nFull < h THEN 0 ELSE off

\* The scroll offset is reset when all the children fit the screen.
ResetOffset(length, shared, nFull, h, off) ==
  IF length + shared * nFull <= h THEN 0 ELSE off

\* Mutant: the remainder of the division is never given out.
ResolvedLengthNoExtra(dlen, isLastFull, shared, extra) ==
  IF dlen /= FULL THEN dlen ELSE shared

\* The length a child is given: its desired length, or the shared length
\* plus the remainder for the last fill child.
ResolvedLength(dlen, isLastFull, shared, extra) ==
  IF dlen /= FULL THEN dlen ELSE shared + (IF isLastFull THEN extra ELSE 0)

\* Mutant: the part of a child scrolled above the screen is not clipped.
VisibleLengthUnclipped(len, start, h) ==
  Minimum(len, h - Maximum(start, 0))

\* _render_child: the child's length clipped at both ends of the screen.
VisibleLength(len, start, h) ==
  Minimum(len + Minimum(start, 0), h - Maximum(start, 0))

\* Mutant: the child's screen length is not floored at 0.
ChildRectNoFloor(shown, len, start, h) ==
  IF ~shown THEN NoRect
  ELSE [pos |-> Minimum(Maximum(start, 0), h),
        size |-> VisibleLength(len, start, h)]

\* _render_child builds the child's screen and DOMElement._render caches it,
\* or caches None when the child's display is NONE.
ChildRect(shown, len, start, h) ==
  IF ~shown THEN NoRect
  ELSE [pos |-> Minimum(Maximum(start, 0), h),
        size |-> Maximum(VisibleLength(len, start, h), 0)]

\* The unused space after the last child, cleared by _clear.
TrailingClear(cursor, h) ==
  [pos |-> Maximum(0, cursor), size |-> Maximum(0, h - Maximum(0, cursor))]

(***************************************************************************)
(* DOMStackLayout._render on a screen of length h with incoming offset     *)
(* off: the desired-size pass, the distribution, the offset reset, the     *)
(* placement walk over _render_child, the trailing clear and the achieved  *)
(* length.                                                                 *)
(***************************************************************************)
RenderPass(ks, h, off) ==
  LET n == Len(ks)
      d == [i \in 1..n |-> DesiredLen(ks[i])]
      fulls == {i \in 1..n : d[i] = FULL}
      nFull == Cardinality(fulls)
      length == SumOf([i \in 1..n |-> IF i \in fulls THEN 0 ELSE d[i]])
      totalShared == Maximum(h - length, 0)
      shared == SharedLength(totalShared, nFull)
      extra == totalShared - shared * nFull
      off0 == ResetOffset(length, shared, nFull, h, off)
      res == [i \in 1..n |->
                ResolvedLength(d[i], fulls /= {} /\ i = Max(fulls), shared, extra)]
      \* the running child_position when child i is placed
      start == [i \in 1..n |-> off0 + SumOf(SubSeq(res, 1, i - 1))]
      cursor == off0 + SumOf(res)
  IN [offset |-> off0,
      positions |-> [i \in 1..n |-> start[i] - off0],
      fullSize |-> IF n > 0 THEN cursor - off0 ELSE 0,
      rects |-> [i \in 1..n |-> ChildRect(ks[i].shown, res[i], start[i], h)],
      clear |-> TrailingClear(cursor, h)]

\* The layout renders children ks on a screen of length h, offset off.
Rendered(ks, h, off) ==
  LET r == RenderPass(ks, h, off) IN
  /\ kids' = ks
  /\ height' = h
  /\ offset' = r.offset
  /\ positions' = r.positions
  /\ fullSize' = r.fullSize
  /\ rects' = r.rects
  /\ clear' = r.clear

(***************************************************************************)
(* Operations.  The layout is the root element, so every _rerender of it   *)
(* renders it directly on its cached _render_screen (no resize bubbling).  *)
(***************************************************************************)

\* DOMWindow._run: set_children in the constructor does not render (no
\* window yet); run() then forces one full render at offset (0, 0).
Init ==
  \E ks \in BoundedSeq(Kid, MaxKids), h \in Heights :
    LET r == RenderPass(ks, h, 0) IN
    /\ kids = ks
    /\ height = h
    /\ offset = r.offset
    /\ positions = r.positions
    /\ fullSize = r.fullSize
    /\ rects = r.rects
    /\ clear = r.clear

\* DOMWindow.render after screen.has_resized(): the root is rendered with
\* force on a new DOMScreen whose offset is (0, 0).
WindowResize(h) ==
  /\ h /= height
  /\ Rendered(kids, h, 0)

\* _on_keyboard_event / _on_mouse_event -> _move -> _move_by_line with the
\* Scroll.LINE policy along the main axis: the move is ignored when the
\* content fits; otherwise the offset is clamped to
\* [-fullSize + height, 0] and, if it changes, _render_move re-renders.
\* When it does not change, the event bubbles and nothing changes here.
\* The clamped offset computed by _move_by_line.
MoveByLine(off, delta, h, full) ==
  Minimum(0, Maximum(h - full, off - delta))

ScrollByLine(delta) ==
  /\ fullSize > height
  /\ LET newOffset == MoveByLine(offset, delta, height, fullSize) IN
     /\ newOffset /= offset
     /\ Rendered(kids, height, newOffset)

\* The deltas of _on_keyboard_event and _on_mouse_event on the main axis:
\* arrow keys and the wheel move one line, page keys the screen height.
ScrollDeltas == {1, -1, height, -height}

\* A child whose main-axis size grows with its content changes length: it
\* emits RESIZE and _on_child_resize re-renders the layout on its cached
\* screen, keeping the current offset.
ChildResize(i, n) ==
  /\ kids[i].len /= FULL
  /\ n /= kids[i].len
  /\ Rendered([kids EXCEPT ![i].len = n], height, offset)

\* set_style on a child changing display: _update_style forces a resize,
\* which bubbles to the layout as above.
ChildSetDisplay(i) ==
  Rendered([kids EXCEPT ![i].shown = ~@], height, offset)

\* add_child(element, index): insert, then _rerender(resize=(True, True)).
AddChild(k, i) ==
  /\ Len(kids) < MaxKids
  /\ Rendered(InsertAt(kids, i, k), height, offset)

\* remove_child(index): delete the child and its cached position, then
\* _rerender(resize=(True, True)).
RemoveChild(i) ==
  Rendered(RemoveAt(kids, i), height, offset)

Next ==
  \/ \E h \in Heights : WindowResize(h)
  \/ \E delta \in ScrollDeltas : ScrollByLine(delta)
  \/ \E i \in 1..Len(kids), n \in Lengths : ChildResize(i, n)
  \/ \E i \in 1..Len(kids) : ChildSetDisplay(i)
  \/ \E k \in Kid, i \in 1..Len(kids) + 1 : AddChild(k, i)
  \/ \E i \in 1..Len(kids) : RemoveChild(i)

Spec == Init /\ [][Next]_vars

(***************************************************************************)
(* Hit testing: DOMStackLayout.find_descendant_at_position on the root.    *)
(* Results are a child index, Self (the layout) or None.                   *)
(***************************************************************************)
Self == 0
None == -1

\* DOMScreen._contains_position along the main axis.
ScreenContains(r, p) == r.pos <= p /\ p <= r.pos + r.size

\* find_child_index_at_position(position, relative=True, left, right): the
\* recursive binary search over the start-position cache (1-based here).
RECURSIVE ChildIndexAt(_, _, _)
ChildIndexAt(rel, left, right) ==
  IF left <= right
  THEN LET mid == left + (right - left) \div 2 IN
       IF positions[mid] = rel
       THEN LET hits == {j \in left..right : positions[j] = rel /\ kids[j].shown}
            IN IF hits /= {} THEN Min(hits) ELSE mid
       ELSE IF positions[mid] > rel
            THEN ChildIndexAt(rel, left, mid - 1)
            ELSE ChildIndexAt(rel, mid + 1, right)
  ELSE Maximum(1, Minimum(Len(kids), right))

\* find_descendant_at_position for a position p on the layout's main axis
\* (the root is at position 0); the children are leaves.
DescendantAt(p) ==
  IF ~ScreenContains([pos |-> 0, size |-> height], p) \/ kids = <<>> THEN None
  ELSE LET i == ChildIndexAt(p - offset, 1, Len(positions)) IN
       IF ~kids[i].shown THEN Self
       ELSE IF ScreenContains(rects[i], p) THEN i
       ELSE Self

-----------------------------------------------------------------------------

TypeOK ==
  /\ kids \in BoundedSeq(Kid, MaxKids)
  /\ height \in Heights
  /\ offset \in Int /\ offset <= 0
  /\ positions \in Seq(Int) /\ Len(positions) = Len(kids)
  /\ fullSize \in Nat
  /\ rects \in Seq(Rect \cup {NoRect}) /\ Len(rects) = Len(kids)
  /\ clear \in Rect

\* The rows of the layout a child occupies or the trailing clear covers.
Covers(r, p) == r /= NoRect /\ r.pos <= p /\ p < r.pos + r.size

\* _render / _render_child / _clear: after every render pass each row of the
\* layout's screen is drawn by exactly one painter, a displayed child or
\* the trailing clear, whatever the scroll offset and the mix of fill,
\* fixed and hidden children: no row is left stale and no two children
\* overlap.
ExactlyOnePainter ==
  \A p \in 0..(height - 1) :
    Cardinality({i \in 1..Len(kids) : Covers(rects[i], p)})
      + (IF Covers(clear, p) THEN 1 ELSE 0) = 1

\* Spec 8, remainder placement (the distribution in _render): when the
\* fixed-length children fit and some child is fill-length, the children
\* fill the screen, all fill children get the same length except the last,
\* which also gets the division remainder (less than their number).
RemainderAtLastFill ==
  LET F == {i \in 1..Len(kids) : DesiredLen(kids[i]) = FULL}
      fixed == SumOf([i \in 1..Len(kids) |->
                        IF i \in F THEN 0 ELSE DesiredLen(kids[i])])
  IN (F /= {} /\ fixed <= height) =>
       /\ clear.size = 0
       /\ \A i, j \in F \ {Max(F)} : rects[i].size = rects[j].size
       /\ \A i \in F \ {Max(F)} :
            rects[Max(F)].size - rects[i].size \in 0..(Cardinality(F) - 1)

\* Spec 8, offset reset (_render): once the content fits the screen the
\* scroll offset is zero, whatever it was before the render.
OffsetReset == fullSize <= height => offset = 0

\* Spec 8, scroll clamp as a state property: the offset never exceeds
\* -(content - visible), so no blank rows are scrolled into view below the
\* content while content above is hidden.  TLC finds it violated when a
\* child shrinks while the layout is scrolled to the end (layout.py:396).
OffsetWithinRange == offset >= Minimum(0, height - fullSize)

=============================================================================
