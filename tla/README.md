# TLA+ models of rbs_tui_dom

This directory holds TLA+ models of the terminal DOM library in
`src/lib/rbs-tui-dom/rbs_tui_dom`. They are checked with TLC. Each module is
translated from the Python source. `PROJECT.json` maps every definition to
the lines it models, and lists the runs, the mutants, the findings and the
hazards.

## 1. The system

The library draws a tree of widgets onto a curses/asciimatics screen and
routes input events to them.

| Part | Source | State | Operations |
|---|---|---|---|
| EventEmitter | `event_emitter.py` | `_observers` (type -> list), `_global_observers`, `_emitting`, `_pending_operations` | add/remove (global) observer, `emit` |
| DOMElement | `dom/__init__.py` | style / computed style, parent, window, `_desired_size`, `_render_screen`, `_render_style`, `_render_full_size`, `_render_force` | `set_style`, `_update_style`, `get_desired_size`, `_rerender`, `_render`, `focus`/`blur` |
| DOMScreen | `dom/__init__.py` | size, position, offset | `contains_position` |
| DOMLayout / DOMStackLayout | `dom/layout.py` | children, `_children_positions`, `_focused_child_index` | `add_child`, `remove_child`, `set_children`, child event bubbling, `_render`, `_move_by_line`, `_move_by_child`, `_ensure_focus_visible`, `find_descendant_at_position` |
| DOMWindow | `dom/__init__.py` | root, focused element, `_elements` registry, screen size | `_run` poll loop, `render`, `_set_focus`, `_register_element`/`_unregister_element`, mouse routing |
| DOMInput | `dom/__init__.py` | an EventEmitter | decodes keys and mouse into events |
| Text widgets | `dom/text.py` | text, cursor, scroll offset, cached desired size | editing (`_key_press`), `set_value`, offset computation, rendering |
| Observable entities | `entity.py` | fields, collection and index map | set/add/remove with change events |
| Extras | `extra/tree.py`, `extra/terminal.py` | tree rows; the shell's input (prompt, task mode, task prefix), its active task and scheduled commands | string layout; Enter, cd, process start/exit, output, Ctrl-C, history; subprocess and pty I/O |

How the parts interact:
- Every DOMElement is an EventEmitter.
- A layout subscribes to the RESIZE event and to all events of each of its
  children. Events bubble up by re-emission inside the child's emission.
- A resize goes up through `_rerender` until an element with a fixed size
  along the changed axis re-renders itself in place.
- The window's input emitter calls the focused element's keyboard handler.
  That handler may move the focus, which blurs and focuses elements during
  the emission.

The behaviours that make the system hard to test:
- observer lists changed during an emission;
- nested emissions on one emitter;
- observers that raise;
- integer division and clipping in the render pass;
- a cached scroll offset reused after the content changed;
- an inclusive bound in hit testing;
- cached desired sizes and render gates that go stale;
- a text input's scroll offset computed from negative positions with
  Python's floor division;
- shell commands scheduled as futures that start and end in any order.

## 2. Modules

### EventEmitter (`EventEmitter.tla`, `MCEventEmitter.tla`)

One emitter with its observer lists, its flag and its queue.

- `Request` models the four subscription calls. While `_emitting` is set it
  appends to `pending`. Otherwise it applies the operation. A remove of an
  absent observer raises, which is modelled by `Abort`.
- `emit()` is split into steps, because observers run inside it:
  - `Emit` sets the flag and pushes a frame.
  - `CallObserver` calls the observer at the loop index.
  - Then `ObserverReturns` advances the index, or `ObserverRaises` abandons
    the frame.
  - `StartGlobalLoop` moves from the typed loop to the global loop.
  - `EndEmit` clears the flag and runs `Flush`. The queue is cleared only
    when no queued operation raised.
- Python iterates the live list by index, so a frame stores the list it
  walks (`Walked`) and an index.
- While an observer runs (`inCb`), the environment may do any of these:
  - call the API;
  - emit again on the same emitter (bounded by `MaxDepth`);
  - raise.

### AtomicEmitter (`AtomicEmitter.tla`)

What an emitter promises its callers (spec 4.1), with no flag and no queue.
Every subscription call takes effect at once, in call order. An emission
fixes at its start the observers it owes a call (typed, then global) and
calls them one by one. `EventEmitter` instantiates it with the refinement
mapping: the observer lists are `View` (the real lists with the queued
operations applied), and each stack frame maps to an emission whose `due`
is the snapshot taken at `Emit` and whose `done` is the calls made so far.
`ImplementsAtomic == Atomic!Spec` is checked as a temporal property.

`FairSpec` adds weak fairness on `EmitterStep`: the steps `emit()` takes by
itself (`CallObserver`, `ObserverReturns`, `StartGlobalLoop`, `EndEmit`).
Under it, `QueuedApplied` states that a non-empty queue is eventually
emptied, without a further `emit()`.

### StackLayout (`StackLayout.tla`, `MCStackLayout.tla`)

A root DOMStackLayout along its main axis, with leaf children.

- Each child is abstracted to its desired length and whether it is
  displayed:
  - a hidden child has desired size 0 (`DesiredLen`);
  - `FULL` marks a child that takes a share of the free space.
- `RenderPass` is `DOMStackLayout._render`:
  1. the shared length and its remainder;
  2. the offset reset;
  3. the placement walk with `_render_child`'s clipping;
  4. the trailing clear;
  5. `_render_full_size`.
- The actions are:
  - the window's first render (`Init`) and `WindowResize`;
  - `ScrollByLine`, which is `_move` then `_move_by_line`, for the key and
    wheel deltas (`ScrollDeltas`);
  - `ChildResize` and `ChildSetDisplay`, a child's size or display change
    that bubbles up as RESIZE;
  - `AddChild` and `RemoveChild`.
- Every action ends in the full render pass, as the code does.
- `ChildIndexAt` and `DescendantAt` model the binary search and
  `find_descendant_at_position`. `ScreenContains` models
  `DOMScreen.contains_position`.

### FocusWindow (`FocusWindow.tla`, `MCFocusWindow.tla`)

The window's focus holder and keyboard routing, composed with a root stack
layout (through `INSTANCE StackLayout`) and the window input's emitter.

- State: the holder (`window.focused_element`), each element's `focused`
  flag, the input emitter's KEYBOARD observers (`keyreg`) and its queue
  (`pending`), the layout's `_focused_child_index` (`fci`), the layout
  state of StackLayout, and whether the application is still running
  (`alive`).
- `Focus`, `Blur` and `SetFocus` are `focus()`, `blur()` and
  `DOMWindow._set_focus`. `FocusEvent` is the FOCUS/BLUR emission with its
  bubbling to the layout (`_on_focus`/`_on_blur`, and for ByChild
  `_ensure_focus_visible`).
- `KeyPress` is one key from the poll loop: the input emitter calls every
  registered `_key_press`; subscription calls made meanwhile are queued and
  flushed at the end (`Start`, `Flush`, `Finish`). An exception ends the
  application (`_run` calls `_exit`).
- `MouseEvent` is `_on_mouse_event`: hit test, wheel scroll, focus of the
  target; exceptions are swallowed.
- `AppFocus`/`AppBlur` are application calls of `focus()`/`blur()`.
- `Policy` selects ByLine or ByChild navigation; `AnyBlur` lets the
  application call `blur()` on any element, not only the holder.

### RenderProtocol (`RenderProtocol.tla`, `MCRenderProtocol.tla`)

The resize / re-render protocol along the vertical axis, for a tree of
stack layouts: a fixed-size root, nested layouts with an Auto height, and
DOMText and DOMTextFlex leaves.

- State per element: `desired` (`_desired_size`, or NONE), `force`
  (`_render_force`) and `screen` (`_render_screen`: None, a screen of no
  area, or a shown one). Each layout keeps the length its last placement
  pass gave each child (`alloc`). Each leaf has a height style (Auto or a
  number), a display flag and its content (line count, or value length).
- A handler is a chain of operators over one state record, ending in
  `Commit`:
  - `SetValue`/`SetFlexValue` are the two `set_value`s;
  - `SetSize`/`SetDisplay` are `set_style`, then `_update_style`;
  - `WindowResize` is `DOMWindow.render(True)`.
- `Rerender` is `_rerender`:
  - a vertical resize of an Auto element, or a forced one, clears the
    cache and re-renders the parent (the RESIZE event, then
    `_on_child_resize`);
  - an element never rendered escalates with (True, True);
  - otherwise the element renders in place on its cached screen.
- `Render` is `DOMStackLayout._render`. Its gate always passes (see
  hazards). A layout with a screen of no area passes that screen on to its
  children; otherwise it runs `get_desired_size` on each child
  (`GetDesired`, `LayoutDesired`) and renders each on a screen of the
  allocated length. `RenderText` fills a text's cache; `RenderFlex` does
  not, as in the code.
- The tree changes (`kids`, `pos`, `win`, `typed`, `glob`):
  - `AddChild`, `AddChildren`, `RemoveChild` and `SetChildren` are the
    four `DOMLayout` methods;
  - each added child goes through `SetParent`, which is `_set_parent`. It
    re-renders the child with its old window, old screen and old
    observers (`ElementSetParent`), sets the window, and recurses into a
    layout's children;
  - `RemoveObserver` adds, as `DOMElement.remove_observer` does;
  - `RemoveChild` stops with IndexError when `_children_positions` (its
    length `pos`, rebuilt only by a visible placement pass) is too short;
  - a RESIZE reaches every layout in `Watchers` (typed or global
    observers), so a removed child still re-renders its old layout;
  - `Spares` are leaves built apart, with no window, whose `_rerender`
    returns at once until they are added;
  - `drawn` is a history variable: the leaves that certainly drew in the
    last step (their `_render_force` was set, so `_should_render` passed).
- Abstractions:
  - widths are fixed by style;
  - margins are 0;
  - the window is tall enough for the content, so a screen has area exactly
    when its allocated length is positive;
  - drawing is left out;
  - the second `_on_child_resize` of each RESIZE (typed observer, then
    global observer) repeats the first with equal caches, and is left out.

### Collection (`Collection.tla`, `MCCollection.tla`)

`ObservableCollection`'s list of entities and its id-to-index map
(`_children_map`), which `add_child` and `remove_child_at` repair by hand.
Python index semantics are modelled:
- `list.insert` clamps its index (`InsertPos`);
- negative indices count from the end (`PyAt`);
- the repair loop stops with IndexError below `-len` (`Reindex`).

The actions are `add_child` (appending or at an index), `remove_child_at`,
`remove_child`, `remove_child_by_id`, `set_children` (stopping at a
repeated id) and `set_loading`. Events change no collection state and are
left out.

The entities of `LoadIds` also carry `ObservableEntity`'s load state:
`_is_loading` (`eLoading`) and `_model` (`model`). `EntitySetLoading` and
`EntitySetModel` are `set_loading` and `set_model`. The application drives
them in three ways:
- `FetchStart` calls `set_loading()` and starts a fetch;
- `FetchDone` passes the fetch's answer (from `Answers`) to `set_model`;
- `PushModel` stores a model, or None, without a fetch.

`FairSpec` assumes that a started fetch returns.

### TextInput (`TextInput.tla`, `MCTextInput.tla`)

One `DOMTextInput`, or the `DOMShellInput` of a `DOMShell`
(`kind`), on a screen of fixed width `Width`.

- State:
  - the input's `_value` (a sequence over `Chars`), `_cursor_position`
    and `_value_offset`;
  - its cached desired height (`desired`), which is also the height of
    the screen its parent grants;
  - for the shell: `_static_prefix_length` (`prefixLen`), `_task_mode`,
    and the length of `_task_prefix`;
  - the height the parent offers (`maxH`);
  - the shell's scheduled `_run_command` futures (`queued`), the running
    processes (`running`), and whether `_active_task` is set (`active`).
- Python semantics are kept where the code relies on them:
  - negative slice bounds (`Slice`);
  - `rstrip`/`rfind`/`lstrip`/`find` (`RStrip`, `RFind`, `Leading`,
    `Find`);
  - floor division and modulo of negative numbers, which TLC's `\div` and
    `%` share.
- `Edited` is the edit chain of `_key_press`, one disjunct per key.
  `KeyEdit` adds the offset for the cursor's move and the re-render that
  resizes when the line count changed (`Relayout`: the parent grants the
  new desired height, and `_render` recomputes the offset with prev 0).
- `CalculateOffset` is `_calculate_offset`, with `ShortScrollOffset` for
  inputs one or two rows high and `LongScrollOffset` for taller ones.
- The methods are functions of the input's state (`SetValueOf`,
  `SetTaskPrefixOf`, `EnableTaskModeOf`, `DisableTaskModeOf`, `SetCwdOf`,
  `CommandEndOf`). Each action composes them in the order of its handler:
  - `KeyPress` for a key the input handles;
  - `SetValue`, an application's `set_value` on a plain input;
  - `RunCommand` is `_on_run_command`: Enter with no active task schedules
    the future, enables task mode and clears the value;
  - `RunCd` and `RunProcess` are the two paths of a future;
    `ProcessExit` is the end of the awaited process, and `ProcessFail`
    a `run()` that raises (the pty or the subprocess cannot be created, or
    a pipe's UTF-8 decode fails): the end of `_run_command` is skipped;
  - `TaskOutput` is `DOMShellStdout.write` ending in an unterminated line;
  - `TaskInput` is Enter with an active task; `Interrupt` is `_on_sigint`;
  - `History` is an up/down move to a stored command;
  - `WindowResize`: the parent offers another height. Layouts ask for the
    input's desired size without force, so the cached size stays.
- Left out: the characters drawn (the '<', '>' and '>....' marks are
  accounted for in `CursorCell`), the output log, the history list (its
  entries are `Values`), and the process's own I/O.

## 3. Runs

| Run | Result | What it shows |
|---|---|---|
| `emitter_deferral` | pass, 54 244 states | Without reentrant emit, an emission calls exactly the observers registered when it began, in order (`DeliversRegistered`). Observers may add, remove or raise meanwhile. |
| `emitter_reentrant` | violation | With one nested emit, an observer added during the outer emission is called by it. The inner `emit` resets `_emitting` and flushes the queue under the outer loop (event_emitter.py:69). |
| `emitter_refinement` | pass, 29 820 states | Without nested emits (`MaxDepth` 1, which `emitter_reentrant` shows breaks it), with observers that never raise and callers that remove only registered observers, the deferred emitter implements `AtomicEmitter` (`ImplementsAtomic`). Under `FairSpec`, every queued call is eventually applied (`QueuedApplied`). |
| `layout_render` | pass, 2 101 states | Each screen row is painted by exactly one child or the trailing clear (`ExactlyOnePainter`). The remainder goes to the last FULL child (`RemainderAtLastFill`). The offset is 0 when the content fits (`OffsetReset`). |
| `focus_routing` | pass, 2 968 states | Under ByLine navigation, keys, clicks, wheel and application focus/blur of the holder leave exactly the holder subscribed to the keyboard with nothing queued (`KeyboardRouting`). A child's flag is set exactly when it holds the focus, and the layout's exactly when some element does (`FocusWithin`). |
| `focus_blurlayout` | violation | `blur()` on a layout whose child has the focus clears the window's holder, then raises before the child is blurred; the child stays subscribed to the keyboard (dom/__init__.py:434). |
| `text_edit` | pass, 211 122 states | Word moves and ctrl+w land on the word starts of a reference definition (`WordMovesAgree`). This holds for every value and cursor reached by a plain input or a shell input, through typing, `set_value`, history, commands (cd, processes that exit or whose `run()` raises), their output, task input, Ctrl-C and resizes. |
| `text_cursor` | violation | A one-row shell input that scrolled keeps its offset on Home. The cursor falls before the input: its line index in `_render` is -1, so no cursor is drawn (text.py:274). |
| `collection_index` | pass, 6 500 states | With indices in [0, len], the map agrees with the list after every call (`LookupAgrees`), and each id is held once (`TypeOK`). Indices past the end or negative break the map (hazards at entity.py:219 and 234); the library itself passes only None, 0 and positions read from the map. |
| `render_auto` | pass, 58 950 states | For leaves with an Auto height, after every `set_value`, `set_style`, window render and tree change (up to two per behaviour), each displayed layout of the window's tree allocates each child its current height (`AllocationFresh`). This holds through escalation across the nested layout, through a nested layout whose children are all hidden, and through removal and re-adding. No force flag is left set in the tree (`RerenderCompletes`). |
| `render_detached` | violation | `remove_child` takes the nested stack out of the root. A later `set_style` on its flex text that changes nothing re-renders the text in place, and it draws on rows the root has cleared (layout.py:99, against the docstring "The child is unrendered immediately"). |
| `render_fixed` | violation | A fixed-height leaf is shown again inside an Auto-height layout whose children were all hidden. It gets no rows: it escalates with (False, False), the layout re-renders in place on its empty screen, and the root never re-allocates (dom/__init__.py:387). |

Every property of a passing run is broken by a mutant of the code it is
about:
- the immediate (undeferred) request;
- a global loop restarted at index 0;
- the unclipped child length;
- a child screen length not floored at 0;
- the dropped remainder;
- the strict `<` reset test;
- a flush that does not clear the queue (for both `ImplementsAtomic` and
  `QueuedApplied`);
- focus without blurring the previous holder;
- FOCUS emitted before the holder changes;
- `add_child` without the duplicate check;
- the map repair starting one past the hole;
- escalation only for forced changes;
- a layout with no screen area that does not pass it on to its children;
- a backspace that does not clamp the cursor at 0;
- a word move that stops at the space after the word.

`PROJECT.json` lists them.

### Findings

- **event_emitter.py:69.** A nested `emit` ends the deferral of the outer
  emission (`emitter_reentrant`).
- **dom/__init__.py:434.** `blur()` trusts a flag that bubbling sets on
  layouts (`focus_blurlayout`).
- **text.py:274.** The short-scroll offset is kept when the cursor jumps
  before it (`text_cursor`). The line indices are computed from a negative
  `cursor - offset`, and the '<' adjustment makes them equal. The cursor
  is then on line -1, and `_render` draws no cursor at all. The same
  happens at 80 columns (prefix 10, offset 85, cursor 120, Home).
- **layout.py:99.** `remove_child` does not unrender the child, so a
  removed text can still draw (`render_detached`).
- **dom/__init__.py:387.** A forced change of a fixed-height element does
  not re-render its Auto-height parent's parent (`render_fixed`). The same
  test makes a Fixed-to-Fixed `set_style` render in its old rectangle with
  a stale `_desired_size`. Both break `AllocationFresh`.
- Some counterexamples found with TLC are kept in the hazard list rather
  than as runs:
  - a queued remove of an absent observer raises in the flush and the
    queue is applied twice (event_emitter.py:79);
  - the inclusive upper bound of `DOMScreen._contains_position` gives a
    zero-length child the hit (dom/__init__.py:184);
  - `add_child(e, 1)` on an empty collection appends e but records index 1
    (entity.py:219, with `IndexSlack = 1`);
  - a fetch that answers None leaves the entity loading for good
    (entity.py:120, with None among `Answers`);
  - an observer that raises while a call is queued leaves the call
    unapplied for good (event_emitter.py:65, `QueuedApplied` with
    `Raising = TRUE`);
  - the layout keeps its offset past the end of shrunk content
    (layout.py:396, StackLayout's `OffsetWithinRange`);
  - `_ensure_focus_visible` calls `get_desired_size()` without `max_size`,
    so a clicked ByChild child stays half off screen; on the keyboard path
    the exception ends the application (layout.py:261, FocusWindow's
    `FocusKeptVisible`);
  - a `run()` that raises leaves the shell in task mode for good, with
    `_active_task` set and nothing running (terminal.py:349,
    `PromptWhenIdle` violated in 3 steps: Enter, the process starts,
    `run()` raises). The decode at terminal.py:202 raises when the
    1000-byte or 0.1 s flush splits a UTF-8 character;
  - two commands entered in one tick: the cd ends first and disables task
    mode, then the process starts, and the input shows the prompt while
    Enter goes to the process (terminal.py:391, in 4 steps);
  - a resize from one row to several keeps the short-scroll offset, and
    the cursor ends on the '>....' line (text.py:422, with values up to 9).

### Bounds

- **Emitter:**
  - 2 observers and 2 event types. That is enough for a removal and an
    addition to hit different lists.
  - Up to 5 API calls and lists of at most 2.
  - `MaxDepth` 1 (no reentrant emit) or 2 (one nested emit).
  - Symmetry over observers.
- **Layout:**
  - up to 3 children;
  - lengths 0..2 or FULL;
  - screen heights 2..4.

  These bounds cover the cases that matter:
  - two or more FULL children with a non-zero remainder;
  - content longer than the screen;
  - children clipped on both sides;
  - zero-length children.
- **Focus:** up to 3 children of lengths 1..2 on screens of 2..3 rows. This
  gives clipped children, a holder that scrolls out of view, and blur and
  focus in every order.
- **Collection:**
  - 4 ids and lists of up to 4;
  - index slack 0 (legal indices);
  - load state on 2 of the ids, one model object, fetches that find it.
- **Render:**
  - `render_fixed`: a root with a text and a nested layout holding a text
    and a flex text, heights Auto or 1..2. This is the smallest tree where
    a resize escalates through a layout and a layout can lose all its area.
  - `render_auto` and `render_detached`: a root holding a nested layout
    with a flex text, and a spare text with no window. Auto heights; at
    most 2 tree changes (`MaxEdits`). That allows removing and re-adding
    the nested layout, or adding the spare and moving it. `MaxEdits = 3`
    also passes (411 270 states, 2 minutes) and is kept out of the
    routine run.
  - 1..2 lines and values of length 0..2 on a width of 2 (one or two rows).
- **TextInput:**
  - width 4, offered heights 1..3, so both the short (1 row) and the long
    (3 rows) scroll happen, and the shell's 2-to-1 and 2-to-3 rules;
  - characters `a` and space, values up to 6: longer than a row, so the
    one-row input scrolls. A 3-row screen holds 12 cells, so the long
    scroll overflows only for values of 9 or more, and a full run already
    takes over 4 minutes at 7. The counterexample it gave is recorded with
    the findings (text.py:422);
  - the shell prompt of 3 cells (a one-letter directory), task prefixes of
    0 or 2 cells, history values empty or `aa aa`;
  - at most 2 commands scheduled or running, the smallest bound at which
    two futures interleave.

Deadlock is not checked in these runs:
The emitter runs are the only ones. There, the only states without a
successor are those where the `MaxCalls` bound has been used up with no
emission in progress, and that bound is an artefact of the model.

### Fairness

One liveness property is checked, under the weakest fairness that the code
justifies:
- **`QueuedApplied`** (`emitter_refinement`). Weak fairness is assumed on
  the steps of `emit()` itself: calling the next observer, returning from
  it, moving to the global loop, and the final flush. `emit()` runs these
  steps without waiting on anything else, once the observer it called has
  returned. That return is the one assumption made of observer code.
  Callers (`Request`, `Emit`) and raising observers get no fairness. With
  `Raising = TRUE` the property fails, as the hazard at event_emitter.py:65
  describes.

Collection defines `FairSpec` (a started fetch answers) and `LoadEnds` (a
loading entity stops loading). Under `FairSpec` `LoadEnds` fails as soon as
a fetch may answer None (entity.py:120). With found entities only, it would
just restate set_model's assignment. So no run checks it.

TextInput checks safety only, so it assumes no fairness. All other steps
are made by the user (input, resize) or by application
code, and nothing is assumed of them. Symmetry is not used in the runs
that check liveness.

## 4. Not modelled

Modelled:
- EventEmitter, its refinement of AtomicEmitter, and its queue's liveness;
- the root StackLayout render pass, ByLine scrolling and hit testing;
- focus, blur and keyboard routing with ByLine and ByChild navigation;
- the resize / re-render protocol over nested layouts, with the tree
  changes of DOMLayout and their observer wiring;
- ObservableCollection's index map and ObservableEntity's load state;
- DOMTextInput's editing and scroll offset, and DOMShellInput with the
  DOMShell handlers that drive it.

Not modelled, and why:
- **Id registry.** `_register_element`/`_unregister_element` keep
  `window._elements_by_id`. `_unregister_element` keys the element by
  itself (dom/__init__.py:577), but only `get_element_by_id` reads the
  registry, and the library never calls it.
- **Stale `_focused_child_index`** after `add_child`/`remove_child`
  (layout.py:251). This needs FocusWindow and RenderProtocol's tree changes
  in one model, which is larger than TLC checks in the time of a run.
- **Style cascade.** `dom/style.py` is not in the repository; what the
  layouts do with computed styles is covered by RenderProtocol's display
  and size changes.
- **Entity property values.** `UpdatablePropertyValue` and the
  ENTITY_CHANGED chain (entity.py:61) only emit events. The reordering of
  nested VALUE_CHANGED events is the emitter's behaviour under a nested
  emit, which `emitter_reentrant` shows.
- **Margins, the cross axis, and nested scroll offsets** (layout.py:473).
  They are arithmetic on positions that no property tells apart from the
  main axis.
- **Character layout.** DOMText's word wrapping, the drawing of the input's
  marks, the ASCII tree renderer (`extra/tree.py`) and the shell's log
  items are formatting with no state.
- **I/O.** Terminal input decoding (DOMInput, asciimatics), the shell's
  subprocess, pty and signals, logging, and the example applications.
