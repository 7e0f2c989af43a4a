--------------------------- MODULE MCQosLiveness ---------------------------
(* Two faces that compete for tokens, with devices that never fill up. *)
EXTENDS QosTransmit, TLC

CONSTANTS f1, f2, p1

MCSize == p1 :> 3
MCCapacity == [l \in Level |-> 1]
=============================================================================
