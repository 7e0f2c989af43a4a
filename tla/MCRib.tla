-------------------------------- MODULE MCRib --------------------------------
(***************************************************************************)
(* The RIB service and readvertising on small instances.  mcPart says      *)
(* which of four questions a behaviour is about; it never changes, so the  *)
(* state spaces of the parts add up.                                       *)
(*   tree      registrations and removals in any order on a chain of three *)
(*             names, each with a face of its own, no faults               *)
(*   faults    lost commands and answers, a destroyed face, a missed       *)
(*             notification, expiring routes                               *)
(*   grow      readvertising while a prefix keeps at least one route       *)
(*   flap      readvertising with routes coming and going                  *)
(***************************************************************************)
EXTENDS RibManager, Readvertise

VARIABLE mcPart

A == <<"a">>
AB == <<"a", "b">>
ABC == <<"a", "b", "c">>
MCNames == {A, AB, ABC}
MCFaces == {1, 2, 3}

In(n, f, o, c, i, k) ==
    [name |-> n, expires |-> FALSE, route |-> NewRoute(f, o, c, i, k)]

\* one origin, each face at one level of the tree, no capture
TreeInputs == {In(n, Len(n), "app", c, i, FALSE) : n \in MCNames, c \in {1, 2}, i \in BOOLEAN}

\* two names on one face, one of the routes with a lifetime
FaultInputs == {[In(A, 1, "prefixann", 1, FALSE, FALSE) EXCEPT !.expires = TRUE],
                In(AB, 1, "app", 1, FALSE, FALSE)}

RdR(n) == [name |-> n, origin |-> "app"]
MCRoutes == {RdR(<<"a", "x">>), RdR(<<"a", "y">>), RdR(<<"b">>), RdR(<<"localhost", "z">>)}
MCIdentities == {<<"a">>, <<"a", "x">>, <<"b", "nrd">>}

CalmNext(inputs) == (\E in \in inputs : RegisterEntry(in) \/ UnregisterEntry(in)) \/ RibAnswer
FaultNext == RibNext /\ {2, 3} \subseteq live'
GrowNext == RdNext /\ \A r \in (rdRib \ rdRib') \cap DOMAIN routeToRr : rrs[routeToRr[r].prefix].n > 1

mcVars == <<ribVars, rdVars, mcPart>>
RibPart == UNCHANGED <<rdVars, mcPart>>
RdPart == UNCHANGED <<ribVars, mcPart>>

MCInit == RibInit /\ RdInit /\ mcPart \in {"tree", "faults", "grow", "flap"}

MCNext ==
    \/ mcPart = "tree" /\ CalmNext(TreeInputs) /\ RibPart
    \/ mcPart = "faults" /\ FaultNext /\ RibPart
    \/ mcPart = "grow" /\ GrowNext /\ RdPart
    \/ mcPart = "flap" /\ RdNext /\ RdPart

\* Fairness, with enabling conditions written out where TLC would be slow to
\* find them.  In the fault part the controller answers or times out, the
\* scheduler runs its events, and the active faces are fetched and compared
\* again and again; readvertising gets its answers and its timers fire.
MCDue == mcPart = "faults" /\ ribd.cmds # EmptyBag /\ ~ribd.crashed
MCFairness ==
    /\ []<>~MCDue \/ []<><<RibAnswer>>_mcVars
    /\ []<>(mcPart # "faults" \/ tasks = {} \/ ribd.crashed) \/ []<><<RibTask>>_mcVars
    /\ []<>(mcPart = "faults" => ribd.crashed \/ dataset = NoDataset)
    /\ []<>(mcPart = "faults" => ribd.crashed \/ dataset # NoDataset)
    /\ \A p \in RdPrefixes : /\ WF_mcVars(mcPart = "grow" /\ RdAnswer(p) /\ RdPart)
                             /\ WF_mcVars(mcPart = "grow" /\ RetryTimer(p) /\ RdPart)
MCSpec == MCInit /\ [][MCNext]_mcVars /\ MCFairness

\* A prefix that the RIB needs is readvertised in the end when the destination
\* stays available (Readvertise::advertise with its retries).
GrowNeededBecomesKnown == mcPart = "grow" => NeededBecomesKnown

\* The FIB is what the RIB's inheritance rules ask for once no update is pending
\* (FibUpdater::computeUpdates).
TreeFibFollowsRib == mcPart = "tree" => FibFollowsRib

=============================================================================
