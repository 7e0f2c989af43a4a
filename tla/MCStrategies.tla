--------------------------- MODULE MCStrategies ---------------------------
(***************************************************************************)
(* The forwarding strategies, each a part that runs alone: mcPart says     *)
(* which one moves, the others stay in one initial state.                  *)
(***************************************************************************)
EXTENDS RetxStrategies, AccessStrategy, NccStrategy, AsfStrategy, SelfLearning, QosSelection

CONSTANT MCParts   \* the parts to check

VARIABLE mcPart

mcVars == <<mcPart, rtVars, nxVars, acVars, ncVars, asVars, slVars, qsVars>>

MCThree == <<"u1", "u2", "d2">>
MCTwo == <<"u1", "u2">>
\* The Interests of flow b are the ones the losses of flow a are charged to.
MCFlow == [n1 |-> [one |-> "a", two |-> "b"], n2 |-> [one |-> "b", two |-> "c"]]
MCReqs == <<1000, 1000, 400, 0>>
\* Nothing, or a flow that is already monitored and lossy.
MCMonitors == {NoMonitor, [NoMonitor EXCEPT !.monitored = ("a" :> 833)]}

MCInit ==
  /\ mcPart \in MCParts
  /\ RtInit /\ (mcPart = "retx" \/ (rtKind = "multicast" /\ rtScope = "global"))
  /\ QsInit /\ (mcPart = "select" \/ (qsKind = "qos" /\ qsType = 1))
  /\ NxInit /\ AcInit /\ NcInit /\ AsInit /\ SlInit

RetxPart   == mcPart = "retx" /\ RtNext /\ UNCHANGED <<mcPart, nxVars, acVars, ncVars, asVars, slVars, qsVars>>
NackPart   == mcPart = "nack" /\ NxNext /\ UNCHANGED <<mcPart, rtVars, acVars, ncVars, asVars, slVars, qsVars>>
AccessPart == mcPart = "access" /\ AcNext /\ UNCHANGED <<mcPart, rtVars, nxVars, ncVars, asVars, slVars, qsVars>>
NccPart    == mcPart = "ncc" /\ NcNext /\ UNCHANGED <<mcPart, rtVars, nxVars, acVars, asVars, slVars, qsVars>>
AsfPart    == mcPart = "asf" /\ AsNext /\ UNCHANGED <<mcPart, rtVars, nxVars, acVars, ncVars, slVars, qsVars>>
LearnPart  == mcPart = "learn" /\ SlNext /\ UNCHANGED <<mcPart, rtVars, nxVars, acVars, ncVars, asVars, qsVars>>
SelectPart == mcPart = "select" /\ QsNext /\ UNCHANGED <<mcPart, rtVars, nxVars, acVars, ncVars, asVars, slVars>>

MCNext == RetxPart \/ NackPart \/ AccessPart \/ NccPart \/ AsfPart \/ LearnPart \/ SelectPart

MCSpec == MCInit /\ [][MCNext]_mcVars
=============================================================================
