----------------------------- MODULE FibUpdates -----------------------------
(***************************************************************************)
(* The FIB updates one RIB update gives rise to (rib/fib-updater.cpp,      *)
(* computeUpdates and everything below it).  The result is                 *)
(*   fib  (name, face) -> [action, cost]: m_updatesForBatchFaceId and      *)
(*        m_updatesForNonBatchFaceId, told apart by the face; addFibUpdate *)
(*        keeps one update for a name and face, the last one;              *)
(*   inh  (name, face) -> BOOLEAN: m_inheritedRoutes, the records to add   *)
(*        (TRUE) and remove; the last one for a name and face decides;     *)
(*   crash  a null pointer was dereferenced on the way.                    *)
(* A RouteSet holds one route per face: RouteSets here are sets of routes  *)
(* with distinct faces.                                                    *)
(***************************************************************************)
EXTENDS Rib

NoUpdates == [fib |-> << >>, inh |-> << >>, crash |-> FALSE]

createAddUpdate(cost) == [action |-> "ADD_NEXTHOP", cost |-> cost]
createRemoveUpdate == [action |-> "REMOVE_NEXTHOP", cost |-> 0]

addFibUpdate(acc, n, face, u) == [acc EXCEPT !.fib = (<<n, face>> :> u) @@ @]
addFibUpdateIf(cond, acc, n, face, u) == IF cond THEN addFibUpdate(acc, n, face, u) ELSE acc

\* records and updates for routes gained, and lost, by inheritance at a name
AddInherited(acc, n, routes) ==
    [acc EXCEPT !.fib = [k \in {<<n, r.face>> : r \in routes} |->
                           createAddUpdate((CHOOSE r \in routes : r.face = k[2]).cost)] @@ @,
                !.inh = [k \in {<<n, r.face>> : r \in routes} |-> TRUE] @@ @]
RemoveInherited(acc, n, routes) ==
    [acc EXCEPT !.fib = [k \in {<<n, r.face>> : r \in routes} |-> createRemoveUpdate] @@ @,
                !.inh = [k \in {<<n, r.face>> : r \in routes} |-> FALSE] @@ @]

\* the entry's overload skips faces the entry has; the name's overload skips
\* the face of the route being added
addInheritedRoutes(acc, n, e, routes) ==
    AddInherited(acc, n, {r \in routes : ~hasFaceId(e, r.face)})
removeInheritedRoutes(acc, n, e, routes) ==
    RemoveInherited(acc, n, {r \in routes : r.face \in e.inherited})

----------------------------------------------------------------------------
RECURSIVE getAncestorRoutes(_, _)
\* the routes a child of n inherits; a nearer entry, and in an entry the
\* earlier route, wins the face
getAncestorRoutes(table, n) ==
    IF n = NoName THEN {}
    ELSE LET e == table[n]
             own == {e.routes[i] : i \in {i \in DOMAIN e.routes :
                        /\ e.routes[i].inherit
                        /\ \A j \in 1..i - 1 : ~(e.routes[j].inherit /\ e.routes[j].face = e.routes[i].face)}}
         IN  IF hasCapture(e) THEN own
             ELSE own \cup {r \in getAncestorRoutes(table, e.parent) : \A o \in own : o.face # r.face}

RECURSIVE traverseSubTree(_, _, _, _, _)
RECURSIVE modifyChildrensInheritedRoutes(_, _, _, _, _)
\* mutant: the change stops at the children
traverseSubTree_OneLevel(acc, table, n, routesToAdd, routesToRemove) ==
    LET e == table[n]
        rem == {r \in routesToRemove : ~hasChildInheritOnFaceId(e, r.face)}
        add == {r \in routesToAdd : ~hasChildInheritOnFaceId(e, r.face)}
    IN  IF hasCapture(e) THEN acc
        ELSE addInheritedRoutes(removeInheritedRoutes(acc, n, e, rem), n, e, add)

traverseSubTree(acc, table, n, routesToAdd, routesToRemove) ==
    LET e == table[n]
        rem == {r \in routesToRemove : ~hasChildInheritOnFaceId(e, r.face)}
        add == {r \in routesToAdd : ~hasChildInheritOnFaceId(e, r.face)}
    IN  IF hasCapture(e) THEN acc
        ELSE modifyChildrensInheritedRoutes(
               addInheritedRoutes(removeInheritedRoutes(acc, n, e, rem), n, e, add),
               table, childrenOf(table, n), add, rem)

modifyChildrensInheritedRoutes(acc, table, children, routesToAdd, routesToRemove) ==
    IF children = {} THEN acc
    ELSE LET c == CHOOSE c \in children : TRUE
         IN  modifyChildrensInheritedRoutes(
               traverseSubTree(acc, table, c, routesToAdd, routesToRemove),
               table, children \ {c}, routesToAdd, routesToRemove)

----------------------------------------------------------------------------
\* the routes of a RouteSet on the route's face (find(route) compares faces)
OnFaceOf(routes, route) == {r \in routes : r.face = route.face}

createFibUpdatesForNewRibEntry(acc, table, n, route, children) ==
    LET ancestors == getAncestorRoutes(table, findParent(table, n))
        others == IF route.capture THEN {} ELSE ancestors \ OnFaceOf(ancestors, route)
    IN  modifyChildrensInheritedRoutes(
          AddInherited(addFibUpdate(acc, n, route.face, createAddUpdate(route.cost)), n, others),
          table, children,
          IF route.inherit THEN others \cup {route} ELSE {},
          IF route.capture THEN ancestors ELSE {})

createFibUpdatesForNewRoute(acc, table, n, e, route, captureWasTurnedOn) ==
    LET prev == getRouteWithLowestCostAndChildInheritByFaceId(e, route.face)
        add == IF route.inherit /\ \A p \in prev : route.cost <= p.cost THEN {route} ELSE {}
        rem == IF captureWasTurnedOn THEN getAncestorRoutes(table, e.parent) ELSE {}
        acc2 == modifyChildrensInheritedRoutes(removeInheritedRoutes(acc, n, e, rem),
                                               table, childrenOf(table, n), add, rem)
        other == getRouteWithLowestCostByFaceId(e, route.face)
    IN  addFibUpdateIf(\A o \in other : route.cost <= o.cost,
                       acc2, n, route.face, createAddUpdate(route.cost))

\* the update of the entry itself when the route's cost changed; a route that
\* stops being the cheapest is replaced by the cheapest child-inherit route of
\* its face, which the code dereferences without asking whether there is one
CostUpdate(acc, n, e, route, existing) ==
    LET lowest == CHOOSE r \in getRouteWithLowestCostByFaceId(e, route.face) : TRUE
        prev == getRouteWithLowestCostAndChildInheritByFaceId(e, route.face)
    IN  IF route.cost = existing.cost THEN acc
        ELSE IF route.cost <= lowest.cost
               THEN addFibUpdate(acc, n, route.face, createAddUpdate(route.cost))
        ELSE IF existing.cost >= lowest.cost THEN acc
        ELSE IF prev = {} THEN [acc EXCEPT !.crash = TRUE]
        ELSE addFibUpdate(acc, n, route.face, createAddUpdate((CHOOSE p \in prev : TRUE).cost))

\* the children when child-inherit was turned on or off, or when only the cost
\* of a child-inherit route changed
InheritUpdate(acc, table, n, e, route, existing) ==
    LET prev == getRouteWithLowestCostAndChildInheritByFaceId(e, route.face)
        offered == /\ route.inherit /\ \A p \in prev : route.cost <= p.cost
                   /\ existing.inherit => route.cost # existing.cost /\ route.capture = existing.capture
        turnedOff == existing.inherit /\ ~route.inherit
        blocked == OnFaceOf(getAncestorRoutes(table, e.parent), route)
    IN  modifyChildrensInheritedRoutes(acc, table, childrenOf(table, n),
          IF offered THEN {route}
          ELSE IF ~turnedOff THEN {} ELSE IF prev # {} THEN prev ELSE blocked,
          IF turnedOff THEN {route} ELSE {})

\* the entry and its children when capture was turned on or off
CaptureUpdate(acc, table, n, e, route, existing) ==
    LET ancestors == getAncestorRoutes(table, e.parent)
        add == IF existing.capture /\ ~route.capture THEN ancestors ELSE {}
        rem == IF ~existing.capture /\ route.capture THEN ancestors ELSE {}
    IN  modifyChildrensInheritedRoutes(
          addInheritedRoutes(removeInheritedRoutes(acc, n, e, rem), n, e, add),
          table, childrenOf(table, n), add, rem)

\* e is a copy of the entry with the route's new flags and cost
createFibUpdatesForUpdatedRoute(acc, table, n, e, route, existing) ==
    CaptureUpdate(InheritUpdate(CostUpdate(acc, n, e, route, existing),
                                table, n, e, route, existing),
                  table, n, e, route, existing)

\* e is a copy of the entry without the route
createFibUpdatesForErasedRoute(acc, table, n, e, route, captureWasTurnedOff) ==
    LET ancestors == getAncestorRoutes(table, e.parent)
        unblocked == IF route.capture /\ captureWasTurnedOff /\ e.routes # << >> THEN ancestors ELSE {}
        add == IF ~route.capture /\ route.inherit /\ ~hasCapture(e) THEN ancestors ELSE unblocked
        below == modifyChildrensInheritedRoutes(
                   addInheritedRoutes(addFibUpdate(acc, n, route.face, createRemoveUpdate), n, e, unblocked),
                   table, childrenOf(table, n), add, IF route.inherit THEN {route} ELSE {})
    IN  AddInherited(below, n,
          IF ~hasCapture(e) /\ e.routes # << >> THEN OnFaceOf(ancestors, route) ELSE {})

createFibUpdatesForErasedRibEntry(acc, n, e) ==
    [acc EXCEPT !.fib = [k \in {<<n, f>> : f \in e.inherited} |-> createRemoveUpdate] @@ @]

----------------------------------------------------------------------------
computeUpdatesForRegistration(table, n, route) ==
    IF n \in DOMAIN table
      THEN LET e == table[n]
               i == findRoute(e, route)
           IN  IF i = 0
                 THEN createFibUpdatesForNewRoute(NoUpdates, table, n, e, route,
                                                  ~hasCapture(e) /\ route.capture)
                 ELSE createFibUpdatesForUpdatedRoute(NoUpdates, table, n,
                        [e EXCEPT !.routes[i] = route], route, e.routes[i])
      ELSE LET parent == findParent(table, n)
           IN  createFibUpdatesForNewRibEntry(NoUpdates, table, n, route,
                 {c \in findDescendants(table, n) : table[c].parent = parent})

\* the cheapest other route of the face takes the place of the erased one
ReplaceErased(acc, table, n, e, next) ==
    IF next = {} THEN acc
    ELSE createFibUpdatesForNewRoute(acc, table, n, e, CHOOSE r \in next : TRUE, FALSE)

EraseEmptied(acc, n, e) ==
    IF Len(e.routes) = 1 THEN createFibUpdatesForErasedRibEntry(acc, n, e) ELSE acc

computeUpdatesForUnregistration(table, n, route) ==
    LET e == table[n]
        i == findRoute(e, route)
        temp == eraseRoute(e, i)
        erased == createFibUpdatesForErasedRoute(NoUpdates, table, n, temp, e.routes[i],
                                                 hasCapture(e) /\ ~hasCapture(temp))
        next == getRouteWithSecondLowestCostByFaceId(e, route.face)
    IN  IF n \notin DOMAIN table THEN NoUpdates
        ELSE IF i = 0 THEN NoUpdates
        ELSE EraseEmptied(ReplaceErased(erased, table, n, temp, next), n, e)

\* updates for a destroyed face would be refused: they are dropped
DropFaces(acc, gone) ==
    [acc EXCEPT !.fib = [k \in {k \in DOMAIN @ : k[2] \notin gone} |-> acc.fib[k]]]

computeUpdates(table, u) ==
    IF u.action = "REGISTER" THEN computeUpdatesForRegistration(table, u.name, u.route)
    ELSE DropFaces(computeUpdatesForUnregistration(table, u.name, u.route),
                   IF u.action = "REMOVE_FACE" THEN {u.route.face} ELSE {})
=============================================================================
