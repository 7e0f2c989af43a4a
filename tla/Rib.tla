-------------------------------- MODULE Rib --------------------------------
(***************************************************************************)
(* The Routing Information Base (rib/rib.cpp, rib-entry.cpp, route.hpp):   *)
(* a tree of RIB entries, each with its own routes and the faces it has    *)
(* inherited from its ancestors, and the index from faces to entries that  *)
(* is used when a face is destroyed.                                       *)
(*                                                                         *)
(* A name is a sequence of components.  A route is identified inside an    *)
(* entry by its face and origin.  Of an inherited route the program only   *)
(* ever reads the face, so an entry's m_inheritedRoutes is a set of faces. *)
(* m_nRoutesWithCaptureSet is kept as the counter it is.                   *)
(*                                                                         *)
(* The operators take and return the record [table, faceMap, nItems];      *)
(* FibUpdater and RibManager make them steps.                              *)
(***************************************************************************)
EXTENDS Integers, Sequences, FiniteSets, TLC

CONSTANTS RibNames,     \* the names routes are registered under
          RibFaces,     \* the faces routes point to
          NoName        \* "no parent"

ToSetOf(s) == {s[i] : i \in DOMAIN s}
isPrefixOf(p, n) == Len(p) <= Len(n) /\ SubSeq(n, 1, Len(p)) = p

----------------------------------------------------------------------------
(* Routes and RIB entries. *)

\* event is the pending expiration event, 0 for none
NewRoute(face, origin, cost, inherit, capture) ==
    [face |-> face, origin |-> origin, cost |-> cost, inherit |-> inherit, capture |-> capture, event |-> 0]

compareFaceIdAndOrigin(a, b) == a.face = b.face /\ a.origin = b.origin

\* index of the matching route in the entry's list, 0 for end()
findRoute(e, route) ==
    IF \E i \in DOMAIN e.routes : compareFaceIdAndOrigin(e.routes[i], route)
      THEN CHOOSE i \in DOMAIN e.routes : compareFaceIdAndOrigin(e.routes[i], route)
      ELSE 0

hasFaceId(e, face) == \E r \in ToSetOf(e.routes) : r.face = face

hasCapture(e) == e.nCapture # 0          \* an unsigned counter

hasChildInheritOnFaceId(e, face) ==
    \E r \in ToSetOf(e.routes) : r.face = face /\ r.inherit

\* the first of the cheapest routes in list order; {} stands for nullptr
FirstCheapest(routes) ==
    LET best == {i \in DOMAIN routes : \A j \in DOMAIN routes : routes[i].cost <= routes[j].cost}
    IN  {routes[i] : i \in {i \in best : \A j \in best : i <= j}}

getRouteWithLowestCostByFaceId(e, face) ==
    FirstCheapest(SelectSeq(e.routes, LAMBDA r : r.face = face))

getRouteWithLowestCostAndChildInheritByFaceId(e, face) ==
    FirstCheapest(SelectSeq(e.routes, LAMBDA r : r.face = face /\ r.inherit))

\* std::nth_element at position 1: of up to three routes it is the second in
\* the stable order by cost
getRouteWithSecondLowestCostByFaceId(e, face) ==
    LET m == SelectSeq(e.routes, LAMBDA r : r.face = face)
        Before(i) == {j \in DOMAIN m : \/ m[j].cost < m[i].cost
                                       \/ m[j].cost = m[i].cost /\ j < i}
    IN  {m[i] : i \in {i \in DOMAIN m : Cardinality(Before(i)) = 1}}

\* insertRoute when the route is new: the counter follows the new route's flag
insertRoute(e, route) ==
    [e EXCEPT !.routes = Append(@, route),
              !.nCapture = IF route.capture THEN @ + 1 ELSE @]

\* eraseRoute: the counter follows the flag the stored route has now
eraseRoute(e, i) ==
    [e EXCEPT !.routes = SubSeq(@, 1, i - 1) \o SubSeq(@, i + 1, Len(@)),
              !.nCapture = IF e.routes[i].capture THEN @ - 1 ELSE @]

----------------------------------------------------------------------------
(* The table and its tree. *)

\* the longest proper prefix of the name that has an entry
findParent(table, prefix) ==
    LET above == {n \in DOMAIN table : isPrefixOf(n, prefix) /\ n # prefix}
    IN  IF above = {} THEN NoName
        ELSE CHOOSE n \in above : \A m \in above : Len(m) <= Len(n)

childrenOf(table, n) == {c \in DOMAIN table : table[c].parent = n}

findDescendants(table, prefix) == {n \in DOMAIN table : isPrefixOf(prefix, n) /\ n # prefix}

NewEntry(route, parent) ==
    insertRoute([routes |-> << >>, inherited |-> {}, nCapture |-> 0, parent |-> parent], route)

FaceMapAdd(faceMap, face, n) == [faceMap EXCEPT ![face] = Append(@, n)]

\* a new prefix takes over those children of its parent that lie below it
InsertEntry(r, prefix, route) ==
    LET parent == findParent(r.table, prefix)
        adopted == {c \in findDescendants(r.table, prefix) : r.table[c].parent = parent}
    IN  [table |-> [n \in DOMAIN r.table \cup {prefix} |->
                      IF n = prefix THEN NewEntry(route, parent)
                      ELSE IF n \in adopted THEN [r.table[n] EXCEPT !.parent = prefix]
                      ELSE r.table[n]],
         faceMap |-> FaceMapAdd(r.faceMap, route.face, prefix),
         nItems |-> r.nItems + 1]

\* Rib::insert.  An existing route is overwritten as a whole; the entry's
\* capture counter is not touched then.
insert(r, prefix, route) ==
    IF prefix \notin DOMAIN r.table THEN InsertEntry(r, prefix, route)
    ELSE LET e == r.table[prefix]
             i == findRoute(e, route)
         IN  IF i = 0
               THEN [table |-> [r.table EXCEPT ![prefix] = insertRoute(e, route)],
                     faceMap |-> FaceMapAdd(r.faceMap, route.face, prefix),
                     nItems |-> r.nItems + 1]
               ELSE [r EXCEPT !.table[prefix].routes[i] = route]

\* eraseEntry: the children go to the parent, or become roots
eraseEntry(table, prefix) ==
    [n \in DOMAIN table \ {prefix} |->
        IF table[n].parent = prefix
          THEN [table[n] EXCEPT !.parent = table[prefix].parent] ELSE table[n]]

\* Rib::erase.  The face index keeps one list item per route added.
erase(r, prefix, route) ==
    LET e == r.table[prefix]
        i == findRoute(e, route)
        left == eraseRoute(e, i)
    IN  IF prefix \notin DOMAIN r.table THEN r
        ELSE IF i = 0 THEN r
        ELSE [table |-> IF left.routes = << >> THEN eraseEntry(r.table, prefix)
                        ELSE [r.table EXCEPT ![prefix] = left],
              faceMap |-> IF hasFaceId(left, route.face) THEN r.faceMap
                          ELSE [r.faceMap EXCEPT ![route.face] =
                                  SelectSeq(@, LAMBDA n : n # prefix)],
              nItems |-> r.nItems - 1]

\* the (name, route) pairs of a destroyed face, once per item of the index
findRoutesWithFaceId(r, face) ==
    LET OfEntry(n) == SelectSeq(r.table[n].routes, LAMBDA x : x.face = face)
        lists == [i \in DOMAIN r.faceMap[face] |->
                    LET n == r.faceMap[face][i]
                    IN  [k \in DOMAIN OfEntry(n) |-> [name |-> n, route |-> OfEntry(n)[k]]]]
        cat[i \in 0..Len(lists)] == IF i = 0 THEN << >> ELSE cat[i - 1] \o lists[i]
    IN  cat[Len(lists)]

EmptyRib == [table |-> [n \in {} |-> 0], faceMap |-> [f \in RibFaces |-> << >>], nItems |-> 0]
=============================================================================
