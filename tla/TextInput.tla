------------------------------ MODULE TextInput ------------------------------
(***************************************************************************)
(* DOMTextInput of rbs_tui_dom/dom/text.py, alone (as an application uses *)
(* it) or as the DOMShellInput that DOMShell of rbs_tui_dom/extra/         *)
(* terminal.py drives.                                                     *)
(*                                                                         *)
(* The input holds a value and a cursor, and draws the value from          *)
(* _value_offset on.  A key press edits value and cursor, recomputes the   *)
(* offset from the cursor's move (_calculate_offset), and re-renders: when *)
(* the number of lines changes, the parent lays the input out again with   *)
(* a new desired size, and _render recomputes the offset for that size.    *)
(*                                                                         *)
(* The shell input shows a prefix before the value: "-> dir " normally,   *)
(* and in task mode (while a command runs) the unterminated last line the *)
(* command wrote.  The shell runs a command in a future it schedules; the *)
(* future either changes directory at once or starts a process and waits  *)
(* for it.                                                                 *)
(*                                                                         *)
(* The input's width is fixed (Width); its height is the desired size the  *)
(* parent grants.  The parent offers its own height (maxH), which the user *)
(* changes by resizing the terminal; the desired size is cached and is     *)
(* recomputed only when the input asks its parent to lay it out again.     *)
(* Characters are a small set; " " is the one whitespace character.        *)
(***************************************************************************)
EXTENDS Integers, Sequences, SequencesExt

CONSTANTS
  Chars,       \* printable characters a key may insert, " " among them
  Width,       \* the input's width (desired_size[HORIZONTAL])
  MaxHeights,  \* heights the parent may offer
  MaxLen,      \* bound on the length of the value
  Values,      \* values set_value is given: an application's, or history
  DirLens,     \* lengths of the directory names a shell input shows
  TaskPrefixLens, \* lengths of the unterminated lines a command writes
  MaxTasks,    \* bound on the shell's scheduled and running commands
  NoDir        \* a cd to a directory that does not exist

VARIABLES
  kind,        \* "input" (DOMTextInput) or "shell" (DOMShellInput)
  value,       \* self._value
  cursor,      \* self._cursor_position
  offset,      \* self._value_offset
  desired,     \* self._desired_size[VERTICAL], equal to _render_full_size
  prefixLen,   \* self._static_prefix_length
  taskMode,    \* DOMShellInput._task_mode
  taskPrefix,  \* len(DOMShellInput._task_prefix)
  maxH,        \* the height the parent offers (max_size[VERTICAL])
  queued,      \* DOMShell: _run_command futures scheduled, not yet started
  running,     \* DOMShell: _run_command futures awaiting their process
  active       \* DOMShell._active_task is not None

input == <<value, cursor, offset, desired, prefixLen, taskMode, taskPrefix>>
shell == <<queued, running, active>>
vars == <<kind, input, maxH, shell>>

Keys == Chars \cup {"BACKSPACE", "DELETE", "CLEAR_WORD_BACKWARD",
  "CLEAR_LINE_FORWARD", "CLEAR_LINE", "ARROW_LEFT", "ARROW_RIGHT",
  "MOVE_WORD_BACKWARD", "MOVE_WORD_FORWARD", "HOME", "END"}

-----------------------------------------------------------------------------
(* Python string operations on the value.                                  *)

\* A slice bound i of s[i:j], for a string of length n.
SliceBound(i, n) == IF i < 0 THEN IF i + n < 0 THEN 0 ELSE i + n
                    ELSE IF i > n THEN n ELSE i

\* s[i:j]
Slice(s, i, j) == SubSeq(s, SliceBound(i, Len(s)) + 1, SliceBound(j, Len(s)))

IsSpace(ch) == ch = " "

\* s.rstrip()
RStrip(s) == SubSeq(s, 1, SelectLastInSeq(s, LAMBDA ch : ~IsSpace(ch)))

\* len(s) - len(s.lstrip()): the number of leading spaces.
Leading(s) == IF \A i \in 1..Len(s) : IsSpace(s[i]) THEN Len(s)
              ELSE SelectInSeq(s, LAMBDA ch : ~IsSpace(ch)) - 1

\* s.find(" ") and s.rfind(" ")
Find(s) == SelectInSeq(s, IsSpace) - 1
RFind(s) == SelectLastInSeq(s, IsSpace) - 1

-----------------------------------------------------------------------------
(* The edits of _key_press, one per key, each from (value, cursor) to the *)
(* new [value, cursor].                                                    *)

Ed(v, c) == [value |-> v, cursor |-> c]

InsertChar(ch, v, c) == Ed(Slice(v, 0, c) \o <<ch>> \o Slice(v, c, Len(v)), c + 1)

\* A backspace that does not clamp the cursor at the start.
BackspaceUnclamped(v, c) == Ed(Slice(v, 0, c - 1) \o Slice(v, c, Len(v)), c - 1)

Backspace(v, c) == Ed(Slice(v, 0, c - 1) \o Slice(v, c, Len(v)), Max({0, c - 1}))

Delete(v, c) == Ed(Slice(v, 0, c) \o Slice(v, c + 1, Len(v)), c)

\* The start of the word before the cursor, less one.
WordBefore(v, c) == RFind(RStrip(Slice(v, 0, c)))

ClearWordBackward(v, c) ==
  Ed(Slice(v, 0, WordBefore(v, c) + 1) \o Slice(v, c, Len(v)), WordBefore(v, c) + 1)

\* A word move that stops at the space after the current word.
WordForwardNoSkip(v, c) ==
  LET in == Slice(v, c, Len(v))
  IN IF Leading(in) > 0 THEN Min({Len(v), c + Leading(in)})
     ELSE IF Find(in) = -1 THEN Len(v) ELSE c + Find(in)

\* The cursor after a move to the start of the next word.
WordForward(v, c) ==
  LET in == Slice(v, c, Len(v))
      idx == Find(in)
      after == Slice(v, c + idx, Len(v))
  IN IF Leading(in) > 0 THEN Min({Len(v), c + Leading(in)})
     ELSE IF idx = -1 THEN Len(v)
     ELSE Min({Len(v), idx + c + Leading(after)})

Edited(k, v, c) ==
  CASE k \in Chars                 -> InsertChar(k, v, c)
    [] k = "BACKSPACE"             -> Backspace(v, c)
    [] k = "DELETE"                -> Delete(v, c)
    [] k = "CLEAR_WORD_BACKWARD"   -> ClearWordBackward(v, c)
    [] k = "CLEAR_LINE_FORWARD"    -> Ed(Slice(v, 0, c), c)
    [] k = "CLEAR_LINE"            -> Ed(<<>>, 0)
    [] k = "ARROW_LEFT"            -> Ed(v, Max({0, c - 1}))
    [] k = "ARROW_RIGHT"           -> Ed(v, Min({Len(v), c + 1}))
    [] k = "MOVE_WORD_BACKWARD"    -> Ed(v, Max({0, WordBefore(v, c) + 1}))
    [] k = "MOVE_WORD_FORWARD"     -> Ed(v, WordForward(v, c))
    [] k = "HOME"                  -> Ed(v, 0)
    [] k = "END"                   -> Ed(v, Len(v))

-----------------------------------------------------------------------------
(* Sizes and the scroll offset.  P is _get_static_prefix_size(), h the    *)
(* desired height, which is also the height of the screen the input gets. *)

\* _get_static_prefix_size(): a shell input in task mode shows the task
\* prefix.
PrefixSize(s) == IF s.taskMode THEN s.taskPrefix ELSE s.prefixLen

\* _get_line_count(): the lines the prefix and the value take.
LineCount(v, P) == (Len(v) + P) \div Width + 1

\* DOMTextInput._calculate_desired_size() with max_size = (Width, mh),
\* for an Auto height.
InputDesiredHeight(s, mh) == Min({LineCount(s.value, PrefixSize(s)), mh})

\* DOMShellInput._calculate_desired_size(): it never asks for 2 rows and
\* never takes 2, and it counts _static_prefix_length, not the prefix it
\* shows.
ShellDesiredHeight(s, mh) ==
  LET dh == (Len(s.value) + s.prefixLen) \div Width + 1
  IN Min({IF dh = 2 THEN 3 ELSE dh, IF mh = 2 THEN 1 ELSE mh})

DesiredHeight(k, s, mh) ==
  IF k = "input" THEN InputDesiredHeight(s, mh) ELSE ShellDesiredHeight(s, mh)

\* _is_short_scroll(): the value scrolls along one line.
IsShortScroll(h) == h \in 1..2

\* _calculate_short_scroll_offset()
ShortScrollOffset(prev, v, c, off, P) ==
  LET cp == c + P
      pp == prev + P
      truncStart == off /= 0
      truncEnd == Len(v) - off > Width - P
      atStart == (cp - off) % Width <= P /\ truncStart
      atEnd == ~atStart /\ (cp - off) % Width = Width - 1 /\ truncEnd
      prevLine == (pp - off) \div Width - (IF atStart THEN 1 ELSE 0)
      nextLine == (cp - off) \div Width + (IF atEnd THEN 1 ELSE 0)
  IN IF prevLine /= nextLine THEN Max({0, cp - (Width + P) \div 2}) ELSE off

\* _calculate_long_scroll_offset()
LongScrollOffset(prev, v, c, off, P, h) ==
  LET cp == c + P
      prevLineOffset == (off + P) \div Width
      prevLine == (prev + P) \div Width
      line == cp \div Width
  IN IF prevLine < line /\ line - prevLineOffset >= h - 1
     THEN Max({0, Width * Min({line - 1, LineCount(v, P) - h}) - P})
     ELSE IF prevLine > line /\ line - prevLineOffset < 1
     THEN Max({0, Width * (line - (h - 2)) - P})
     ELSE off

\* _calculate_offset(prev_cursor_position), with the desired size set.
CalculateOffset(prev, v, c, off, P, h) ==
  LET count == IF IsShortScroll(h) THEN Width ELSE Width * h
  IN IF Len(v) + P < count THEN 0
     ELSE IF IsShortScroll(h) THEN ShortScrollOffset(prev, v, c, off, P)
     ELSE LongScrollOffset(prev, v, c, off, P, h)

-----------------------------------------------------------------------------
(* The input's methods, as functions of its state s.                      *)

Current == [value |-> value, cursor |-> cursor, offset |-> offset,
            desired |-> desired, prefixLen |-> prefixLen,
            taskMode |-> taskMode, taskPrefix |-> taskPrefix]

\* self._calculate_offset(prev), at the cached desired size.
Offset(prev, s) ==
  CalculateOffset(prev, s.value, s.cursor, s.offset, PrefixSize(s), s.desired)

\* The re-render that ends a change, _rerender(force, resize=(False, r)).
\* With r, the input drops its desired size and its parent lays it out
\* again; _render then recomputes the offset when the new size differs
\* from the one it was drawn at.  Without r, it is drawn in place.
Relayout(s, r) ==
  LET h == IF r THEN DesiredHeight(kind, s, maxH) ELSE s.desired
  IN [s EXCEPT !.desired = h,
               !.offset = IF h /= s.desired
                          THEN CalculateOffset(0, s.value, s.cursor, @,
                                               PrefixSize(s), h)
                          ELSE @]

\* _key_press(key) for a key the input handles: the edit, the offset for
\* the cursor's move, and a re-render that resizes when the line count
\* changed.
KeyEdit(k, s) ==
  LET e == Edited(k, s.value, s.cursor)
      s1 == [s EXCEPT !.value = e.value, !.cursor = e.cursor]
  IN Relayout([s1 EXCEPT !.offset = Offset(s.cursor, s1)],
              LineCount(s.value, PrefixSize(s)) /= LineCount(e.value, PrefixSize(s)))

\* set_value(v, render)
SetValueOf(s, v, render) ==
  LET s1 == [s EXCEPT !.value = v, !.cursor = Len(v)]
      s2 == [s1 EXCEPT !.offset = Offset(0, s1)]
  IN IF render THEN Relayout(s2, TRUE) ELSE s2

\* DOMShellInput.set_task_prefix(prefix); its re-render, when asked for,
\* draws in place.
SetTaskPrefixOf(s, t) ==
  LET s1 == [s EXCEPT !.taskPrefix = t]
  IN [s1 EXCEPT !.offset = Offset(s1.cursor, s1)]

\* enable_task_mode() and disable_task_mode()
EnableTaskModeOf(s) ==
  IF s.taskMode THEN s ELSE SetTaskPrefixOf([s EXCEPT !.taskMode = TRUE], 0)
DisableTaskModeOf(s) ==
  IF ~s.taskMode THEN s ELSE SetTaskPrefixOf([s EXCEPT !.taskMode = FALSE], 0)

\* set_cwd(cwd): the prefix is "-> ", the directory's name and a space.
SetCwdOf(s, d) ==
  LET s1 == [s EXCEPT !.prefixLen = 3 + d]
  IN [s1 EXCEPT !.offset = Offset(s1.cursor, s1)]

\* The end of DOMShell._run_command: set_value("", render=False), then
\* disable_task_mode().
CommandEndOf(s) == DisableTaskModeOf(SetValueOf(s, <<>>, FALSE))

Commit(s) ==
  /\ value' = s.value /\ cursor' = s.cursor /\ offset' = s.offset
  /\ desired' = s.desired /\ prefixLen' = s.prefixLen
  /\ taskMode' = s.taskMode /\ taskPrefix' = s.taskPrefix

-----------------------------------------------------------------------------
(* The actions.                                                            *)

\* A key reaches the focused input's _key_press.  The value is bounded.
KeyPress(k) ==
  LET s == KeyEdit(k, Current)
  IN /\ Len(s.value) <= MaxLen
     /\ Commit(s)
     /\ UNCHANGED <<kind, maxH, shell>>

\* An application calls set_value(v, render) on a DOMTextInput.
SetValue(v, render) ==
  /\ kind = "input"
  /\ Commit(SetValueOf(Current, v, render))
  /\ UNCHANGED <<kind, maxH, shell>>

\* Enter with no active task, DOMShell._on_run_command: schedule
\* _run_command, enable_task_mode(render=False), set_value("").
RunCommand ==
  /\ kind = "shell" /\ ~active
  /\ queued + running < MaxTasks
  /\ Commit(SetValueOf(EnableTaskModeOf(Current), <<>>, TRUE))
  /\ queued' = queued + 1
  /\ UNCHANGED <<kind, maxH, running, active>>

\* The future runs a "cd": set_cwd(dir, render=False) when the directory
\* exists (d), nothing when it does not (NoDir), then the end of
\* _run_command.
RunCd(d) ==
  /\ queued > 0
  /\ Commit(CommandEndOf(IF d = NoDir THEN Current ELSE SetCwdOf(Current, d)))
  /\ queued' = queued - 1
  /\ active' = FALSE
  /\ UNCHANGED <<kind, maxH, running>>

\* The future runs another command: it sets _active_task and awaits it.
RunProcess ==
  /\ queued > 0
  /\ queued' = queued - 1
  /\ running' = running + 1
  /\ active' = TRUE
  /\ UNCHANGED <<kind, input, maxH>>

\* The process exits: _active_task = None and the end of _run_command.
ProcessExit ==
  /\ running > 0
  /\ Commit(CommandEndOf(Current))
  /\ running' = running - 1
  /\ active' = FALSE
  /\ UNCHANGED <<kind, maxH, queued>>

\* run() raises: pty.openpty or create_subprocess_shell fails, or the
\* decode of a buffer that splits a UTF-8 character fails in a pipe and
\* asyncio.gather passes the error on.  The exception leaves
\* _run_command before its last lines: _active_task stays set and the
\* input keeps task mode and its value.
ProcessFail ==
  /\ running > 0
  /\ running' = running - 1
  /\ UNCHANGED <<kind, input, maxH, queued, active>>

\* The process writes a line it does not terminate: DOMShellStdout.write
\* hands it to set_task_prefix.
TaskOutput(t) ==
  /\ running > 0
  /\ Commit(SetTaskPrefixOf(Current, t))
  /\ UNCHANGED <<kind, maxH, shell>>

\* Enter with an active task, DOMShell._on_task_input:
\* set_task_prefix("", render=False), set_value().
TaskInput ==
  /\ kind = "shell" /\ active
  /\ Commit(SetValueOf(SetTaskPrefixOf(Current, 0), <<>>, TRUE))
  /\ UNCHANGED <<kind, maxH, shell>>

\* Ctrl-C, DOMShell._on_sigint: set_value("", render=False).
Interrupt ==
  /\ kind = "shell"
  /\ Commit(SetValueOf(Current, <<>>, FALSE))
  /\ UNCHANGED <<kind, maxH, shell>>

\* Up or down with no active task: set_value(history entry).
History(v) ==
  /\ kind = "shell" /\ ~active
  /\ Commit(SetValueOf(Current, v, TRUE))
  /\ UNCHANGED <<kind, maxH, shell>>

\* The terminal is resized: the parent offers another height.  Layouts
\* ask for the input's desired size without force, so the cached size
\* stays, and the input is drawn again as it was.
WindowResize(h) ==
  /\ maxH' = h
  /\ UNCHANGED <<kind, input, shell>>

\* A new input after the parent's first layout: DOMTextInput(), or the
\* DOMShellInput(cwd) of a new DOMShell.  The first _render finds no
\* _render_full_size and keeps the constructor's offset.
Init ==
  /\ kind \in {"input", "shell"}
  /\ value = <<>> /\ cursor = 0 /\ offset = 0
  /\ prefixLen \in IF kind = "input" THEN {0} ELSE {3 + d : d \in DirLens}
  /\ taskMode = FALSE /\ taskPrefix = 0
  /\ maxH \in MaxHeights
  /\ desired = DesiredHeight(kind, [value |-> <<>>, prefixLen |-> prefixLen,
                                    taskMode |-> FALSE, taskPrefix |-> 0], maxH)
  /\ queued = 0 /\ running = 0 /\ active = FALSE

Next ==
  \/ \E k \in Keys : KeyPress(k)
  \/ \E v \in Values, r \in BOOLEAN : SetValue(v, r)
  \/ RunCommand
  \/ \E d \in DirLens \cup {NoDir} : RunCd(d)
  \/ RunProcess
  \/ ProcessExit
  \/ ProcessFail
  \/ \E t \in TaskPrefixLens : TaskOutput(t)
  \/ TaskInput
  \/ Interrupt
  \/ \E v \in Values : History(v)
  \/ \E h \in MaxHeights : WindowResize(h)

Spec == Init /\ [][Next]_vars

-----------------------------------------------------------------------------
(* Properties.                                                             *)

TypeOK ==
  /\ kind \in {"input", "shell"}
  /\ value \in Seq(Chars) /\ Len(value) <= MaxLen
  /\ cursor \in 0..Len(value)
  /\ desired \in Nat \ {0}
  /\ taskMode \in BOOLEAN
  /\ maxH \in MaxHeights
  /\ queued + running <= MaxTasks
  /\ active \in BOOLEAN

\* The cell, counted from the input's first one, at which _render draws
\* the cursor: the prefix shares the first line unless a multi-line value
\* is cut off at its start, when the first line shows ">...." instead.
CursorCell ==
  cursor - offset +
    (IF offset = 0 \/ IsShortScroll(desired) THEN PrefixSize(Current) ELSE 0)

\* After every key press, set_value, prefix change and resize, the cursor
\* _render draws is on a line that shows the value: the first line for a
\* one-line scroll, and for a multi-line input a line of its screen past
\* the ">...." line when the start is cut off.
CursorShown ==
  LET line == CursorCell \div Width
  IN /\ CursorCell >= 0
     /\ IF IsShortScroll(desired) THEN line = 0
        ELSE line \in (IF offset /= 0 THEN 1 ELSE 0)..(desired - 1)

\* A word starts at 0-based position i: a non-space after a space or at 0.
WordStart(v, i) == ~IsSpace(v[i + 1]) /\ (i = 0 \/ IsSpace(v[i]))

\* The reference for word moves: the next word start after c, or the end;
\* the last word start before c, or 0.
NextWordStart(v, c) == Min({i \in (c + 1)..(Len(v) - 1) : WordStart(v, i)} \cup {Len(v)})
PrevWordStart(v, c) == Max({i \in 0..(c - 1) : WordStart(v, i)} \cup {0})

\* The word keys of _key_press (alt/ctrl + f, alt/ctrl + b, ctrl + w) move
\* to the start of the next or the previous word, and ctrl + w deletes
\* exactly the text from the previous word start to the cursor: the
\* nested find/lstrip and rstrip/rfind of the code agree with the word
\* starts, for every value and cursor the input reaches.
WordMovesAgree ==
  LET p == PrevWordStart(value, cursor)
  IN /\ Edited("MOVE_WORD_FORWARD", value, cursor).cursor = NextWordStart(value, cursor)
     /\ Edited("MOVE_WORD_BACKWARD", value, cursor).cursor = p
     /\ Edited("CLEAR_WORD_BACKWARD", value, cursor) =
          Ed(Slice(value, 0, p) \o Slice(value, cursor, Len(value)), p)

\* Once every command the shell scheduled has ended, the input is out of
\* task mode and shows the shell's prompt again.  It holds while every
\* run() returns, whatever the order of the futures of commands entered in
\* one tick; a run() that raises (ProcessFail) skips the end of
\* _run_command and leaves the input in task mode for good, and TLC finds
\* this violated in 3 steps.
PromptWhenIdle == queued + running = 0 => ~taskMode

====
