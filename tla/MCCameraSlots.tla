---------------------------- MODULE MCCameraSlots ----------------------------
(* CameraSlots on small instances. *)
EXTENDS CameraSlots, TLC
CONSTANTS d1, d2, s1, s2, s3

TwoDevices == {d1, d2}
TwoSessions == {s1, s2}
ThreeSessions == {s1, s2, s3}
Symmetry == Permutations({d1, d2}) \cup Permutations({s1, s2})
=============================================================================
