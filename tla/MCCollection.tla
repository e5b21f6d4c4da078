---------------------------- MODULE MCCollection ----------------------------
(***************************************************************************)
(* Model-checking instance of Collection: four entity ids, two of which    *)
(* carry a load state, and one model object.                               *)
(***************************************************************************)
EXTENDS Collection, TLC

CONSTANTS a, b, c, d, m1

MCIds == {a, b, c, d}
MCLoadIds == {a, b}
MCModels == {m1}
\* Fetches that always find the entity.
MCFound == {m1}

=============================================================================
