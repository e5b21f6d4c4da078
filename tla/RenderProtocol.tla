--------------------------- MODULE RenderProtocol ---------------------------
(***************************************************************************)
(* The resize / re-render protocol of rbs_tui_dom (dom/__init__.py,        *)
(* dom/layout.py, dom/text.py) along the vertical (main) axis of a tree of *)
(* stack layouts whose leaves are DOMText and DOMTextFlex elements.        *)
(*                                                                         *)
(* Each element caches its desired size (_desired_size, NONE for None),    *)
(* its force flag (_render_force) and the screen it was last rendered on  *)
(* (_render_screen): "NONE" (None), "ZERO" (a screen of no area: the       *)
(* element gets no cell) or "SHOWN".  A layout remembers, per child, the  *)
(* length its last placement pass gave it (alloc).                         *)
(*                                                                         *)
(* Abstractions.  Widths are fixed by style, so no change escalates along *)
(* the horizontal axis; margins are 0; the window is tall enough for all   *)
(* the content, so a child's screen has area exactly when its allocated    *)
(* length is positive.  Drawing, the render gate of a leaf (which decides *)
(* only whether to draw) and the screen refresh are left out.  The root    *)
(* has a fixed size; every other layout has an Auto main-axis size.        *)
(* RESIZE reaches a layout twice (its typed observer and its global        *)
(* _on_child_event); the second _on_child_resize repeats the first with   *)
(* the same caches and is left out, so the observers of an element are    *)
(* kept as the set of layouts its RESIZE reaches.                          *)
(*                                                                         *)
(* The tree changes through DOMLayout.add_child, add_children,             *)
(* remove_child and set_children.  A layout's children are a list; of     *)
(* _children_positions only the length matters (remove_child deletes by  *)
(* index from it).  A removed element is never detached: it keeps its     *)
(* window, its cached screen and its typed RESIZE observer.                *)
(***************************************************************************)
EXTENDS Integers, FiniteSets, FiniteSetsExt, SequencesExt, TLC

CONSTANTS
  Root,          \* window.root_element, a DOMStackLayout
  Nested,        \* nested DOMStackLayouts with an Auto height
  Texts,         \* DOMText elements (content: the number of lines)
  Flexes,        \* DOMTextFlex elements (content: the length of the value)
  Parent,        \* element -> its layout in the tree built before the
                 \* first render, for every element but Root and Spares
  Spares,        \* leaves constructed but not yet added to any layout
  SizeChoices,   \* the heights a style may give a leaf: AUTO or a number
  MaxLines,      \* bound on the number of lines of a text
  MaxLength,     \* bound on the length of a flex text's value
  Width,         \* the width every layout offers its children
  MaxEdits       \* bound on add/remove/set_children calls in a behaviour

Leaves == Texts \cup Flexes
Layouts == {Root} \cup Nested
Elements == Layouts \cup Leaves
Children(e) == {c \in DOMAIN Parent : Parent[c] = e}

AUTO == 0           \* style.size[1] is None (a fixed height is at least 1)
NONE == -1          \* _desired_size is None
Screens == {"NONE", "ZERO", "SHOWN"}

VARIABLES
  size,      \* leaf -> computed height: AUTO or a number
  content,   \* text -> len(self.values); flex -> len(self._value)
  shown,     \* leaf -> computed display is not Display.NONE
  desired,   \* element -> _desired_size[1], or NONE
  force,     \* element -> _render_force
  screen,    \* element -> _render_screen, as one of Screens
  alloc,     \* layout -> child -> length given by the last placement pass
  kids,      \* layout -> self._children
  pos,       \* layout -> len(self._children_positions)
  win,       \* element -> self.window is not None
  typed,     \* element -> layouts with _on_child_resize on its RESIZE
  glob,      \* element -> layouts with _on_child_event as global observer
  drawn,     \* leaves that drew in the last step (history, not code state)
  edits      \* tree changes made so far (bounded by MaxEdits)

vars == <<size, content, shown, desired, force, screen, alloc,
          kids, pos, win, typed, glob, drawn, edits>>

\* The whole state as one record, so that a handler is a chain of operators;
\* a handler starts with nothing drawn.
Current == [size |-> size, content |-> content, shown |-> shown, desired |-> desired,
            force |-> force, screen |-> screen, alloc |-> alloc, kids |-> kids,
            pos |-> pos, win |-> win, typed |-> typed, glob |-> glob,
            drawn |-> {}]

Commit(s) ==
  /\ size' = s.size /\ content' = s.content /\ shown' = s.shown
  /\ desired' = s.desired /\ force' = s.force /\ screen' = s.screen
  /\ alloc' = s.alloc /\ kids' = s.kids /\ pos' = s.pos /\ win' = s.win
  /\ typed' = s.typed /\ glob' = s.glob /\ drawn' = s.drawn

\* A handler that changes content or style leaves the tree alone.
CommitStyle(s) == Commit(s) /\ UNCHANGED edits

\* A tree change, within the bound.
CommitTree(s) == edits < MaxEdits /\ Commit(s) /\ edits' = edits + 1

Kids(e, s) == ToSet(s.kids[e])

\* The layouts whose _on_child_resize a RESIZE of e reaches.
Watchers(e, s) == s.typed[e] \cup s.glob[e]

\* The elements below e in the tree.
RECURSIVE Below(_, _)
Below(e, s) ==
  IF e \in Leaves THEN {}
  ELSE Kids(e, s) \cup UNION {Below(c, s) : c \in Kids(e, s)}

\* The elements window.root_element reaches.
Attached(s) == {Root} \cup Below(Root, s)

\* Elements in no layout's children list.
Free(s) == {c \in Elements \ {Root} : \A l \in Layouts : c \notin Kids(l, s)}

\* Whether the element's main-axis size grows with its content.
IsAuto(e, s) == e \in Nested \/ (e \in Leaves /\ s.size[e] = AUTO)

\* DOMText._calculate_desired_size: DOMElement's (0 when hidden, the styled
\* height when the style sets one), else the number of lines.
TextLen(l, s) ==
  IF ~s.shown[l] THEN 0 ELSE IF s.size[l] /= AUTO THEN s.size[l] ELSE s.content[l]

\* DOMTextFlex._calculate_desired_size: DOMElement's, else the rows the
\* value wraps onto, len(value) // max_size width + 1.
FlexLen(l, s) ==
  IF ~s.shown[l] THEN 0 ELSE IF s.size[l] /= AUTO THEN s.size[l]
  ELSE s.content[l] \div Width + 1

LeafLen(l, s) == IF l \in Texts THEN TextLen(l, s) ELSE FlexLen(l, s)

\* get_desired_size(max_size): the cache when set, else computed and
\* cached; a layout computes it with LayoutDesired.
RECURSIVE GetDesired(_, _), LayoutDesired(_, _)
GetDesired(e, s) ==
  IF s.desired[e] /= NONE THEN s
  ELSE IF e \in Leaves THEN [s EXCEPT !.desired[e] = LeafLen(e, s)]
  ELSE LayoutDesired(e, s)

\* DOMStackLayout._calculate_desired_size for an Auto height: the sum of
\* the children's get_desired_size, which fills their caches as well.
LayoutDesired(e, s) ==
  LET s2 == FoldSet(LAMBDA c, t : GetDesired(c, t), s, Kids(e, s))
  IN [s2 EXCEPT !.desired[e] =
        FoldSet(LAMBDA c, n : s2.desired[c] + n, 0, Kids(e, s))]

\* DOMElement._render, which every _render ends in: force cleared, screen
\* cached, and the screen dropped when the element is not displayed.
Rendered(e, scr, s) ==
  [s EXCEPT !.force[e] = FALSE,
            !.screen[e] = IF e \in Leaves /\ ~s.shown[e] THEN "NONE" ELSE scr]

\* DOMText._render: when it can display it draws and sets _render_full_size
\* to get_desired_size(screen.size), which fills the cache.
RenderText(l, scr, s) ==
  Rendered(l, scr, IF scr = "SHOWN" THEN GetDesired(l, s) ELSE s)

\* DOMTextFlex._render: it copies _desired_size without computing it.
RenderFlex(l, scr, s) == Rendered(l, scr, s)

\* A displayed leaf rendered on a screen with area draws its text there
\* at least when its _render_force is set (its _should_render then passes);
\* drawn records those draws.
RenderLeaf(l, scr, s) ==
  LET s2 == IF l \in Texts THEN RenderText(l, scr, s) ELSE RenderFlex(l, scr, s)
  IN IF scr = "SHOWN" /\ s.shown[l] /\ s.force[l]
     THEN [s2 EXCEPT !.drawn = @ \cup {l}] ELSE s2

\* Mutant: a layout whose screen has no area returns without passing it on
\* to its children.
RECURSIVE RenderSkipHidden(_, _, _)
RenderSkipHidden(e, scr, s) ==
  IF e \in Leaves THEN RenderLeaf(e, scr, s)
  ELSE IF scr /= "SHOWN" THEN Rendered(e, scr, s)
  ELSE LET s2 == FoldSet(LAMBDA c, t : GetDesired(c, t), s, Kids(e, s))
           a  == [c \in Kids(e, s) |-> s2.desired[c]]
       IN Rendered(e, scr, FoldSet(LAMBDA c, t : RenderSkipHidden(c,
                                    IF a[c] > 0 THEN "SHOWN" ELSE "ZERO", t),
                                  [s2 EXCEPT !.alloc[e] = a,
                                             !.pos[e] = Len(s.kids[e])],
                                  Kids(e, s)))

\* element._render(screen, force); for a layout, DOMStackLayout._render.
\* Its gate always passes (it compares _desired_size with the list
\* _render_full_size).  A layout that cannot display (a screen of no area)
\* passes that screen on to its children; otherwise it runs the placement
\* pass: _children_positions emptied, each child's get_desired_size, then
\* each child rendered on a screen of that length, appending its position.
RECURSIVE Render(_, _, _)
Render(e, scr, s) ==
  IF e \in Leaves THEN RenderLeaf(e, scr, s)
  ELSE IF scr /= "SHOWN"
  THEN Rendered(e, scr, FoldSet(LAMBDA c, t : Render(c, scr, t), s, Kids(e, s)))
  ELSE LET s2 == FoldSet(LAMBDA c, t : GetDesired(c, t), s, Kids(e, s))
           a  == [c \in Kids(e, s) |-> s2.desired[c]]
       IN Rendered(e, scr, FoldSet(LAMBDA c, t : Render(c,
                                    IF a[c] > 0 THEN "SHOWN" ELSE "ZERO", t),
                                  [s2 EXCEPT !.alloc[e] = a,
                                             !.pos[e] = Len(s.kids[e])],
                                  Kids(e, s)))

\* Mutant: only a forced change escalates to the parent.
RECURSIVE RerenderForceOnly(_, _, _, _), EscalateForceOnly(_, _, _)
EscalateForceOnly(e, r, s) ==
  FoldSet(LAMBDA l, t : RerenderForceOnly(l, FALSE, r, t), s, Watchers(e, s))
RerenderForceOnly(e, f, r, s) ==
  IF ~s.win[e] THEN s
  ELSE LET s1 == [s EXCEPT !.force[e] = TRUE] IN
  IF r /\ e /= Root /\ f
  THEN EscalateForceOnly(e, IsAuto(e, s), [s1 EXCEPT !.desired[e] = NONE])
  ELSE IF s1.screen[e] = "NONE" THEN EscalateForceOnly(e, TRUE, s1)
  ELSE Render(e, s1.screen[e], s1)

\* emit(RESIZE, (False, r)): each layout observing the element runs
\* _on_child_resize, which re-renders it with that resize.
RECURSIVE Rerender(_, _, _, _), Escalate(_, _, _)
Escalate(e, r, s) ==
  FoldSet(LAMBDA l, t : Rerender(l, FALSE, r, t), s, Watchers(e, s))

\* element._rerender(force, resize), r being resize[VERTICAL].  Nothing
\* happens without a window.  A resize of an Auto element, or a forced
\* one, clears the desired size and emits RESIZE with parent_resize.  An
\* element with no cached screen emits RESIZE (True, True).  Otherwise it
\* renders itself on its cached screen.  The root emits only the latter,
\* and nothing observes it.
Rerender(e, f, r, s) ==
  IF ~s.win[e] THEN s
  ELSE LET s1 == [s EXCEPT !.force[e] = TRUE] IN
  IF r /\ e /= Root /\ (f \/ IsAuto(e, s))
  THEN Escalate(e, IsAuto(e, s), [s1 EXCEPT !.desired[e] = NONE])
  ELSE IF s1.screen[e] = "NONE" THEN Escalate(e, TRUE, s1)
  ELSE Render(e, s1.screen[e], s1)

-----------------------------------------------------------------------------

\* DOMText.set_value: resize[1] is False when the line count is unchanged.
SetValue(l, k) ==
  CommitStyle(Rerender(l, FALSE, k /= content[l], [Current EXCEPT !.content[l] = k]))

\* DOMTextFlex.set_value: always _rerender(resize=(False, True)).
SetFlexValue(l, k) ==
  CommitStyle(Rerender(l, FALSE, TRUE, [Current EXCEPT !.content[l] = k]))

\* set_style with a new height: _update_style sees a size change (resize
\* (True, True)) unless the height is the same (resize None).
SetSize(l, z) ==
  CommitStyle(Rerender(l, FALSE, z /= size[l], [Current EXCEPT !.size[l] = z]))

\* set_style with a display: a change forces and resizes both axes.
SetDisplay(l, v) ==
  CommitStyle(Rerender(l, v /= shown[l], v /= shown[l], [Current EXCEPT !.shown[l] = v]))

\* DOMWindow.render(force=True): the root rendered on the whole screen.
WindowResize ==
  CommitStyle(Render(Root, "SHOWN", Current))

\* DOMElement._set_parent(parent): _set_parent_style re-renders the element
\* (its computed style is unchanged, so with resize None) while self.window
\* is still the old one; then the window is set and the element registered.
ElementSetParent(c, s) == [Rerender(c, FALSE, FALSE, s) EXCEPT !.win[c] = TRUE]

\* DOMLayout._set_parent: the element's, then each child's _set_parent.
RECURSIVE SetParent(_, _)
SetParent(c, s) ==
  LET s1 == ElementSetParent(c, s) IN
  IF c \in Leaves THEN s1
  ELSE FoldLeft(LAMBDA t, k : SetParent(k, t), s1, s1.kids[c])

\* The layouts a free element c may be added to: not c, nor below it.
Hosts(c, s) == Layouts \ ({c} \cup Below(c, s))

\* One child of add_child / add_children: _set_parent, then the RESIZE and
\* global observers.
Adopt(e, c, s) ==
  [SetParent(c, s) EXCEPT !.typed[c] = @ \cup {e}, !.glob[c] = @ \cup {e}]

\* DOMLayout.add_child(element, index): insert, adopt, _rerender((True, True)).
AddChild(e, c, i) ==
  LET s1 == [Current EXCEPT !.kids[e] = InsertAt(@, i + 1, c)]
  IN CommitTree(Rerender(e, FALSE, TRUE, Adopt(e, c, s1)))

\* DOMLayout.add_children(elements): append and adopt each, one _rerender.
AddChildren(e, cs) ==
  LET step(t, c) == Adopt(e, c, [t EXCEPT !.kids[e] = Append(@, c)])
  IN CommitTree(Rerender(e, FALSE, TRUE, FoldLeft(step, Current, cs)))

\* DOMElement.remove_observer calls add_observer.
RemoveObserver(c, e, s) == [s EXCEPT !.typed[c] = @ \cup {e}]

\* DOMLayout.remove_child(index): delete from _children, then from
\* _children_positions, which raises IndexError when the last visible
\* render pass saw fewer children; else the observers and _rerender.
RemoveChild(e, i) ==
  LET c == kids[e][i + 1]
      s1 == [Current EXCEPT !.kids[e] = RemoveAt(@, i + 1)]
  IN IF i >= pos[e] THEN CommitTree(s1)
     ELSE CommitTree(Rerender(e, FALSE, TRUE,
                   [RemoveObserver(c, e, [s1 EXCEPT !.pos[e] = @ - 1])
                      EXCEPT !.glob[c] = @ \ {e}]))

\* DOMLayout.set_children(children): the old children lose the global
\* observer; each new one gets _set_parent and the global observer (no
\* RESIZE observer); the list is replaced and the layout re-rendered.
SetChildren(e, cs) ==
  LET s1 == [Current EXCEPT !.glob = [c \in Elements |->
                               IF c \in Kids(e, Current) THEN @[c] \ {e} ELSE @[c]]]
      s2 == FoldLeft(LAMBDA t, c : [SetParent(c, t) EXCEPT !.glob[c] = @ \cup {e}],
                     s1, cs)
  IN CommitTree(Rerender(e, FALSE, TRUE, [s2 EXCEPT !.kids[e] = cs]))

\* Elements constructed with any content and style, the tree built by the
\* layouts' constructors (set_children: global observers only); the
\* window's first render sees no cache filled (every _rerender before it
\* found no window).  Spares have no window.
Init ==
  \E z \in [Leaves -> SizeChoices], v \in [Leaves -> BOOLEAN],
     k \in [Texts -> 1..MaxLines], n \in [Flexes -> 0..MaxLength] :
    LET s0 == [size |-> z, content |-> k @@ n, shown |-> v,
               desired |-> [e \in Elements |-> NONE],
               force |-> [e \in Elements |-> FALSE],
               screen |-> [e \in Elements |-> "NONE"],
               alloc |-> [e \in Layouts |-> <<>>],
               kids |-> [e \in Layouts |-> SetToSeq(Children(e))],
               pos |-> [e \in Layouts |-> 0],
               win |-> [e \in Elements |-> e \notin Spares],
               typed |-> [e \in Elements |-> {}],
               glob |-> [e \in Elements |->
                           IF e \in DOMAIN Parent THEN {Parent[e]} ELSE {}],
               drawn |-> {}]
        s1 == Render(Root, "SHOWN", s0)
    IN /\ size = s1.size /\ content = s1.content /\ shown = s1.shown
       /\ desired = s1.desired /\ force = s1.force /\ screen = s1.screen
       /\ alloc = s1.alloc /\ kids = s1.kids /\ pos = s1.pos /\ win = s1.win
       /\ typed = s1.typed /\ glob = s1.glob /\ drawn = s1.drawn
       /\ edits = 0

Next ==
  \/ \E l \in Texts, k \in 1..MaxLines : SetValue(l, k)
  \/ \E l \in Flexes, k \in 0..MaxLength : SetFlexValue(l, k)
  \/ \E l \in Leaves, z \in SizeChoices : SetSize(l, z)
  \/ \E l \in Leaves, v \in BOOLEAN : SetDisplay(l, v)
  \/ WindowResize
  \/ \E c \in Free(Current) : \E e \in Hosts(c, Current) :
       \E i \in 0..Len(kids[e]) : AddChild(e, c, i)
  \/ \E e \in Layouts : \E S \in SUBSET {c \in Free(Current) : e \in Hosts(c, Current)} :
       S /= {} /\ AddChildren(e, SetToSeq(S))
  \/ \E e \in Layouts : \E i \in 0..Len(kids[e]) - 1 : RemoveChild(e, i)
  \/ \E e \in Layouts : \E S \in SUBSET (Kids(e, Current) \cup
                                    {c \in Free(Current) : e \in Hosts(c, Current)}) :
       SetChildren(e, SetToSeq(S))

Spec == Init /\ [][Next]_vars

-----------------------------------------------------------------------------

\* The height an element really wants now, from its content and style.
RECURSIVE TrueLen(_)
TrueLen(e) ==
  IF e \in Leaves THEN LeafLen(e, Current)
  ELSE FoldSet(LAMBDA c, n : TrueLen(c) + n, 0, Kids(e, Current))

\* After every content, size, display or tree change, each layout on screen
\* has given each child exactly the height the child now wants (spec 3: the
\* desired-size cache is invalidated by a size or display change).  It
\* takes _update_style, _rerender's escalation test, the cache clear and
\* the parent's get_desired_size over several elements to get right.
AllocationFresh ==
  \A e \in Layouts \cap Attached(Current) : screen[e] = "SHOWN" =>
    \A c \in Kids(e, Current) : c \in DOMAIN alloc[e] /\ alloc[e][c] = TrueLen(c)

\* Every _rerender of an element in the tree ends with it rendered: no
\* force flag is left set once a handler returns (spec 4.2: render always
\* clears it), also for the children of a layout that got no screen area.
RerenderCompletes ==
  \A e \in Attached(Current) : ~force[e]

\* remove_child's docstring: "The child is unrendered immediately".  Only
\* elements in the window's tree draw: a removed text whose value changes
\* must not draw on the rows its old layout has given to others.
DrawsInTree ==
  drawn \subseteq Attached(Current)

=============================================================================
