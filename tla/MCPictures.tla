----------------------------- MODULE MCPictures -----------------------------
(***************************************************************************)
(* A picture's way on small instances: the camera that takes frames and sends*)
(* them, the frame it halves, and the server's memory it is stored in.  The  *)
(* parts meet in whole messages only, which each models for itself, so a     *)
(* behaviour checked is one of a single part with the other two at rest.     *)
(***************************************************************************)
EXTENDS MCImageStore, Camera, Scaling

CONSTANTS a1, a2, s1, s2

VARIABLE part

AddrSet == {a1, a2}
SizeSet == {s1, s2}

\* The driver has no other size than s1 for certain.
GrantSet == [s \in SizeSet |-> {s1, s}]

\* A pixel is the sequence of the places of the frame it is the mean of.
Joined(p, q) == p \o q
Frame24(width, height) ==
  [w |-> width, h |-> height, mem |-> [i \in 0..(width * height) |-> <<i>>]]
OddAndEven == {Frame24(x, y) : x \in 8..11, y \in 8..9}

\* A new camera, told where the server is or not, with a device that has no RGB24
\* and no -yuv.
CameraStart == host # a2 /\ server = a1 /\ ~id /\ ~rgb /\ ~useyuv
CameraRest == host = None /\ server = None /\ ~id /\ ~rgb /\ ~useyuv
FrameRest == w = 8 /\ h = 8 /\ smallest = 1

PartInit ==
  /\ Init /\ CameraInit /\ ScalingInit
  /\ \/ part = "store" /\ CameraRest /\ FrameRest
     \/ part = "camera" /\ CameraStart /\ FrameRest
     \/ part = "frame" /\ CameraRest

PartNext ==
  /\ \/ part = "store" /\ Next /\ UNCHANGED <<cameraVars, scalingVars>>
     \/ part = "camera" /\ CameraNext /\ UNCHANGED <<vars, scalingVars>>
     \/ part = "frame" /\ ScalingNext /\ UNCHANGED <<vars, cameraVars>>
  /\ UNCHANGED part

partVars == <<part, vars, cameraVars, scalingVars>>

\* Fairness is owed by the part that is not at rest.
PartSpec ==
  /\ PartInit /\ [][PartNext]_partVars
  /\ \A p \in Procs : WF_vars(part = "store" /\ Child(p))
  /\ WF_vars(part = "store" /\ Tick)
  /\ WF_cameraVars(part = "camera" /\ Main)
  /\ SF_cameraVars(part = "camera" /\ Resume)
  /\ WF_cameraVars(part = "camera" /\ Fill) /\ WF_cameraVars(part = "camera" /\ Answer)

=============================================================================
