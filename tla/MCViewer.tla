------------------------------ MODULE MCViewer ------------------------------
(* Viewer on small instances. *)
EXTENDS Viewer

CONSTANTS c1, c2

Both == {c1, c2}
=============================================================================
