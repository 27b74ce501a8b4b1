------------------------------ MODULE MCServer ------------------------------
(***************************************************************************)
(* Server on a small instance.  Its three parts do not meet, so a behaviour   *)
(* checked is one of the first with the other two at rest, of the second or of *)
(* the third; the theorems of ServerProofs are about all three at once.       *)
(***************************************************************************)
EXTENDS Server

CONSTANTS k1, k2, k3, a1, a2, h1, x1, x2, w1, w2, c1

VARIABLE part

ConnSet == {k1, k2, k3}
AddrSet == {a1, a2}
HttpSet == {h1}
ExchangeSet == {x1, x2}
WriterSet == {w1, w2}
ClientSet == {c1}

PartInit ==
  /\ ServerInit
  /\ part \in {"processes", "keys", "sensors"}
  /\ part # "keys" => turn = "off" /\ enable = KX!Off

PartNext ==
  /\ \/ part = "processes" /\ ProcessStep
     \/ part = "keys" /\ KeyStep
     \/ part = "sensors" /\ SensorStep
  /\ UNCHANGED part

partVars == <<part, serverVars>>

\* A part at rest enables no action that is fair.
PartSpec == PartInit /\ [][PartNext]_partVars /\ Fairness /\ KX!Fairness /\ Sn!Fairness

=============================================================================
