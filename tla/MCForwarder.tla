---------------------------- MODULE MCForwarder ----------------------------
(***************************************************************************)
(* The forwarding pipelines for TLC.  mcPart, chosen at the start, says    *)
(* which instance moves, so that the state spaces of the parts add up.     *)
(*   one     one key, an application, a point-to-point and an ad hoc face  *)
(*   many    two keys of one /localhop name that one Data answers together *)
(***************************************************************************)
EXTENDS ForwarderProps, TLC

CONSTANTS MCParts,   \* the parts to explore
          app, net, radio, k0, k1, k2, n1, n2, d0, d1, dl

VARIABLE mcPart

mcVars == <<mcPart, histVars>>

MCNameOf == (k0 :> k0) @@ (k1 :> k1) @@ (k2 :> k1)
MCMatches == (d0 :> {k0}) @@ (d1 :> {k1, k2}) @@ (dl :> {k2})
NonceSymmetry == Permutations({n1, n2})

MCKeys == [one |-> {k0}, many |-> {k1, k2}]
MCData == [one |-> {d0}, many |-> {d1, dl}]

MCInit == HistInit /\ faces = Face /\ mcPart \in MCParts

\* the keys and Data of the part; two keys get a shorter horizon
InPart ==
  /\ cs' \subseteq MCData[mcPart]
  /\ mcPart = "many" => now' < 2 /\ \A k \in DOMAIN pit' : pit'[k].timer < 2

MCNext == HistStep(MCKeys[mcPart], MCData[mcPart]) /\ InPart /\ UNCHANGED mcPart
MCSpec == MCInit /\ [][MCNext]_mcVars
=============================================================================
