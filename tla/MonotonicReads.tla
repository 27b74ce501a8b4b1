--------------------------- MODULE MonotonicReads ---------------------------
(***************************************************************************)
(* What the settings channel promises a reader, whatever lies between: items *)
(* are written over and over, each write giving the item its next version,   *)
(* and a reader's view of an item only moves forward, to a version that has  *)
(* been written.  It may skip versions.                                      *)
(***************************************************************************)
EXTENDS Naturals

CONSTANTS Readers, Items

VARIABLES version, view

Init ==
  /\ version = [n \in Items |-> 0]
  /\ view = [r \in Readers |-> [n \in Items |-> 0]]

Write(n) ==
  /\ version' = [version EXCEPT ![n] = @ + 1]
  /\ UNCHANGED view

Learn(r, n) ==
  /\ \E x \in view[r][n]..version[n] : view' = [view EXCEPT ![r][n] = x]
  /\ UNCHANGED version

Next == (\E n \in Items : Write(n)) \/ (\E r \in Readers, n \in Items : Learn(r, n))

Spec == Init /\ [][Next]_<<version, view>>

=============================================================================
