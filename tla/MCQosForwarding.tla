-------------------------- MODULE MCQosForwarding --------------------------
(* A downstream and one or two upstreams, queues of two packets. *)
EXTENDS QosForwarding, TLC

CONSTANTS down, up1, up2, k1, k2, n1, n2, d1

MCNameOf == [k \in Key |-> k]
MCMatches == [d \in Data |-> Key]
Symmetry == {p @@ q : p \in Permutations({up1, up2}), q \in Permutations({n1, n2})}
=============================================================================
