--------------------------- MODULE MCStackLayout ---------------------------
(***************************************************************************)
(* Model-checking instance of StackLayout.                                 *)
(***************************************************************************)
EXTENDS StackLayout, TLC

MCLengths == 0..2
MCHeights == 2..4

=============================================================================
