-------------------------- MODULE MCRenderProtocol --------------------------
(* A root stack holding a text and a nested Auto-height stack of a text   *)
(* and a flex text: the smallest tree where a resize escalates through a  *)
(* layout, with both leaf kinds under the nested layout.                   *)
EXTENDS RenderProtocol

MCParent == [a |-> "R", N |-> "R", b |-> "N", c |-> "N"]
\* For the runs that also change the tree: the nested stack holding the
\* flex text under the root, and a text d constructed apart (a spare, with
\* no window) that the tree changes may add anywhere; the nested stack can
\* leave and rejoin the root.
MCParentTree == [N |-> "R", c |-> "N"]
MCAutoOnly == {AUTO}
MCSizes == {AUTO, 1, 2}
=============================================================================
