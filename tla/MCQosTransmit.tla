--------------------------- MODULE MCQosTransmit ---------------------------
(***************************************************************************)
(* Two faces and two levels for TLC.  mcPart, chosen at the start, says    *)
(* which instance it is.                                                   *)
(*   wake   four packets of one kind for any faces, two refills per level  *)
(*   order  three packets of two kinds, for one face at a time, and a      *)
(*          clock                                                          *)
(***************************************************************************)
EXTENDS QosTransmitProps, TLC

CONSTANTS f1, f2, pi, pd

VARIABLE mcPart

mcVars == <<mcPart, histVars>>

MCSize == [p \in Packet |-> IF p = pi THEN 3 ELSE 6]
MCCapacity == [l \in Level |-> 1]
FaceSymmetry == Permutations({f1, f2})

Kinds(q) == UNION {{q[f].items[l][i] : i \in DOMAIN q[f].items[l]} : f \in Face, l \in Level}

InPart ==
  IF mcPart = "wake" THEN now' = 0 /\ Kinds(txq') \subseteq {pi}
  ELSE /\ arrived' < MaxArrivals /\ Cardinality(Backlogged(txq')) < 2
       /\ \A l \in Level : refills'[l] < MaxRefills

MCInit == HistInit /\ mcPart \in {"wake", "order"}
MCNext == HistNext /\ InPart /\ UNCHANGED mcPart
MCSpec == MCInit /\ [][MCNext]_mcVars
=============================================================================
