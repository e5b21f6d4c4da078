--------------------------- MODULE MCEventEmitter ---------------------------
(***************************************************************************)
(* Model-checking instance of EventEmitter: two observers, two event       *)
(* types.  The observers are interchangeable model values.                 *)
(***************************************************************************)
EXTENDS EventEmitter, TLC

CONSTANTS o1, o2, e1, e2

MCObserver == {o1, o2}
MCEventType == {e1, e2}

ObserverSymmetry == Permutations(MCObserver)

=============================================================================
