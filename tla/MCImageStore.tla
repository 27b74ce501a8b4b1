---------------------------- MODULE MCImageStore ----------------------------
(* ImageStore on small instances: children are model values. *)
EXTENDS ImageStore
CONSTANTS f1, f2, v1, v2

OneFeeder == {f1}
OneViewer == {v1}
TwoViewers == {v1, v2}
=============================================================================
