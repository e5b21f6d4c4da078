--------------------------- MODULE MCFocusWindow ---------------------------
(***************************************************************************)
(* Model-checking instance of FocusWindow.                                 *)
(***************************************************************************)
EXTENDS FocusWindow, TLC

MCLengths == 1..2
MCHeights == 2..3

=============================================================================
