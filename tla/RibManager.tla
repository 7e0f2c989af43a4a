----------------------------- MODULE RibManager -----------------------------
(***************************************************************************)
(* The RIB service at work: RibManager takes commands, face events and     *)
(* route expirations (rib/rib-manager.cpp); Rib queues the updates and     *)
(* applies them one after the other (rib/rib.cpp); FibUpdater sends the    *)
(* FIB commands of an update, retries them on timeout and reports success  *)
(* or failure (rib/fib-updater.cpp); NFD's FIB and face table, on the      *)
(* other end of the management protocol, carry the commands out.           *)
(*                                                                         *)
(* The state of the service is the record ribd:                            *)
(*   rib         the table (module Rib)                                    *)
(*   queue       m_updateBatches: updates [action, name, route, managed],  *)
(*               managed when RibManager's callbacks are attached          *)
(*   busy        m_isUpdateInProgress                                      *)
(*   batchFace, upd, inh   FibUpdater's m_batchFaceId, its update lists    *)
(*               and m_inheritedRoutes                                     *)
(*   cmds        bag of FIB commands under way; op is what was sent, upd   *)
(*               the update it was sent for, batch the update whose        *)
(*               callbacks are bound                                       *)
(*   events      scheduled route expirations                               *)
(*   registered  m_registeredFaces                                         *)
(*   fetch       m_activeFaceFetchEvent is due soon                        *)
(*   crashed     an exception or a null pointer ended the process          *)
(***************************************************************************)
EXTENDS FibUpdates, Bags

CONSTANTS RouteInputs,   \* what may be registered: [name, route, expires]
          MaxTimeouts,   \* MAX_NUM_TIMEOUTS
          MaxQueue,      \* bound: updates waiting
          MaxFaults,     \* bound: lost commands and lost notifications
          MaxEvents      \* bound: expiration events at a time

VARIABLES ribd,
          fib,       \* NFD's FIB: name -> (face -> cost)
          live,      \* NFD's face table
          tasks,     \* faces whose onFaceDestroyedEvent is scheduled
          dataset,   \* the face dataset on its way, or NoDataset
          faults

NoDataset == {NoName}
ribVars == <<ribd, fib, live, tasks, dataset, faults>>

RibUpdateOf(action, n, route, managed) ==
    [action |-> action, name |-> n, route |-> route, managed |-> managed]

----------------------------------------------------------------------------
(* FibUpdater: sending the updates of a batch. *)

BatchKeys(s) == {k \in DOMAIN s.upd : k[2] = s.batchFace}
NonBatchKeys(s) == {k \in DOMAIN s.upd : k[2] # s.batchFace}

sendUpdates(s, keys, u) ==
    [s EXCEPT !.cmds = @ (+) SetToBag({[name |-> k[1], face |-> k[2], upd |-> s.upd[k],
                                        op |-> s.upd[k].action, nTimeouts |-> 0, batch |-> u] : k \in keys})]

\* FibUpdateList::remove(update): only an equal update goes
DropUpdate(s, c) ==
    LET k == <<c.name, c.face>>
    IN  IF k \in DOMAIN s.upd /\ s.upd[k] = c.upd
          THEN [s EXCEPT !.upd = [x \in DOMAIN s.upd \ {k} |-> s.upd[x]]] ELSE s

\* the expiration event of the stored route an update is about to replace or erase
StoredEvent(s, u) ==
    IF u.name \notin DOMAIN s.rib.table THEN 0
    ELSE LET e == s.rib.table[u.name]
             i == findRoute(e, u.route)
         IN  IF i = 0 THEN 0 ELSE e.routes[i].event

cancelEvent(events, id) == {ev \in events : ev.id # id}

modifyInheritedRoutes(r, inh) ==
    [r EXCEPT !.table = [n \in DOMAIN r.table |->
        [r.table[n] EXCEPT !.inherited =
            {f \in RibFaces : IF <<n, f>> \in DOMAIN inh THEN inh[<<n, f>>] ELSE f \in @}]]]

RECURSIVE sendBatchFromQueue(_)
RECURSIVE onFibUpdateSuccess(_, _)

\* the RIB takes the update only now that the FIB has it; then the next batch starts
onFibUpdateSuccess(s, u) ==
    LET r == IF u.action = "REGISTER" THEN insert(s.rib, u.name, u.route)
             ELSE erase(s.rib, u.name, u.route)
    IN  IF \E k \in DOMAIN s.inh : k[1] \notin DOMAIN r.table
          THEN [s EXCEPT !.crashed = TRUE]
          ELSE sendBatchFromQueue([s EXCEPT !.rib = modifyInheritedRoutes(r, s.inh),
                                            !.events = cancelEvent(@, StoredEvent(s, u)),
                                            !.busy = FALSE])

onFibUpdateFailure(s, u) ==
    sendBatchFromQueue([s EXCEPT !.busy = FALSE, !.fetch = @ \/ u.managed])

sendUpdatesForNonBatchFaceId(s, u) ==
    IF NonBatchKeys(s) # {} THEN sendUpdates(s, NonBatchKeys(s), u) ELSE onFibUpdateSuccess(s, u)

sendUpdatesForBatchFaceId(s, u) ==
    IF BatchKeys(s) # {} THEN sendUpdates(s, BatchKeys(s), u) ELSE sendUpdatesForNonBatchFaceId(s, u)

WithUpdates(s, face, acc) ==
    [s EXCEPT !.batchFace = face, !.upd = acc.fib, !.inh = acc.inh, !.crashed = @ \/ acc.crash]

computeAndSendFibUpdates(s, u) ==
    sendUpdatesForBatchFaceId(WithUpdates(s, u.route.face, computeUpdates(s.rib.table, u)), u)

sendBatchFromQueue(s) ==
    IF s.queue = << >> \/ s.busy THEN s
    ELSE computeAndSendFibUpdates([s EXCEPT !.busy = TRUE, !.queue = Tail(@)], Head(s.queue))

----------------------------------------------------------------------------
(* FibUpdater: answers to the commands. *)

onUpdateSuccess(s, c) ==
    LET s2 == DropUpdate(s, c)
    IN  IF c.face = s.batchFace
          THEN IF BatchKeys(s2) = {} THEN sendUpdatesForNonBatchFaceId(s2, c.batch) ELSE s2
          ELSE IF NonBatchKeys(s2) = {} THEN onFibUpdateSuccess(s2, c.batch) ELSE s2

\* whatever the update was, what is sent again is an AddNextHop
onUpdateTimeout(s, c) ==
    IF c.nTimeouts < MaxTimeouts
      THEN [s EXCEPT !.cmds = @ (+) SetToBag({[c EXCEPT !.op = "ADD_NEXTHOP", !.nTimeouts = @ + 1]})]
      ELSE [s EXCEPT !.crashed = TRUE]

onFaceNotFound(s, c) ==
    LET s2 == DropUpdate(s, c)
    IN  IF c.face = s.batchFace THEN onFibUpdateFailure(s, c.batch)
        ELSE IF NonBatchKeys(s2) = {} THEN onFibUpdateSuccess(s2, c.batch) ELSE s2

TakeCmd(s, c) == [s EXCEPT !.cmds = @ (-) SetToBag({c})]

----------------------------------------------------------------------------
(* NFD's side: FibManager and the cleanup after a face. *)

addNextHop(c) == [fib EXCEPT ![c.name] = (c.face :> c.upd.cost) @@ @]
removeNextHop(c) ==
    [fib EXCEPT ![c.name] = [f \in DOMAIN @ \ {c.face} |-> fib[c.name][f]]]

\* an AddNextHop is refused when the face is gone; a RemoveNextHop always succeeds
Executes(c) ==
    fib' = IF c.op = "REMOVE_NEXTHOP" THEN removeNextHop(c)
           ELSE IF c.face \in live THEN addNextHop(c) ELSE fib

FibCommandDone(c) ==
    /\ Executes(c)
    /\ ribd' = IF c.op = "ADD_NEXTHOP" /\ c.face \notin live
                 THEN onFaceNotFound(TakeCmd(ribd, c), c)
                 ELSE onUpdateSuccess(TakeCmd(ribd, c), c)
    /\ UNCHANGED <<live, tasks, dataset, faults>>

\* the command, or its answer, is lost
FibCommandTimesOut(c) ==
    /\ faults < MaxFaults
    /\ faults' = faults + 1
    /\ UNCHANGED fib \/ Executes(c)
    /\ ribd' = onUpdateTimeout(TakeCmd(ribd, c), c)
    /\ UNCHANGED <<live, tasks, dataset>>

\* a destroyed face leaves the FIB at once; the notification may be missed
DestroyFace(f) ==
    /\ f \in live
    /\ live' = live \ {f}
    /\ fib' = [n \in RibNames |-> [g \in DOMAIN fib[n] \ {f} |-> fib[n][g]]]
    /\ \/ tasks' = tasks \cup {f} /\ UNCHANGED faults
       \/ faults < MaxFaults /\ faults' = faults + 1 /\ UNCHANGED tasks
    /\ UNCHANGED <<ribd, dataset>>

----------------------------------------------------------------------------
(* RibManager. *)

Enqueue(s, us) == sendBatchFromQueue([s EXCEPT !.queue = @ \o us])

FreshEvent(s) ==
    LET used == {ev.id : ev \in s.events}
                \cup UNION {{r.event : r \in ToSetOf(s.rib.table[n].routes)} : n \in DOMAIN s.rib.table}
                \cup {u.route.event : u \in ToSetOf(s.queue)}
                \cup {c.batch.route.event : c \in BagToSet(s.cmds)}
    IN  {id \in 1..MaxEvents : id \notin used /\ \A j \in 1..id - 1 : j \in used}

\* a route with a lifetime gets its timer before the update is queued
beginAddRoute(in) ==
    /\ Len(ribd.queue) < MaxQueue
    /\ \E id \in IF in.expires THEN FreshEvent(ribd) ELSE {in.route.event} :
         LET route == [in.route EXCEPT !.event = id]
             timers == IF in.expires THEN {[id |-> id, name |-> in.name, route |-> route]} ELSE {}
         IN  ribd' = Enqueue([ribd EXCEPT !.events = @ \cup timers, !.registered = @ \cup {route.face}],
                             <<RibUpdateOf("REGISTER", in.name, route, TRUE)>>)
    /\ UNCHANGED <<fib, live, tasks, dataset, faults>>

\* an announcement that has expired on arrival removes the route instead
AddExpiredRoute(in) ==
    /\ Len(ribd.queue) < MaxQueue /\ in.expires
    /\ ribd' = Enqueue(ribd, <<RibUpdateOf("UNREGISTER", in.name, in.route, FALSE)>>)
    /\ UNCHANGED <<fib, live, tasks, dataset, faults>>

RegisterEntry(in) == in.route.origin # "prefixann" /\ beginAddRoute(in)

\* a validated announcement; it lives no longer than maxLifetime
SlAnnounce(in) == in.route.origin = "prefixann" /\ in.expires /\ beginAddRoute(in)

\* where the announced route of the face is: at the name itself, else at its
\* parent entry (no further up)
HasAnnounced(n, face) ==
    n \in DOMAIN ribd.rib.table /\ findRoute(ribd.rib.table[n], [face |-> face, origin |-> "prefixann"]) # 0

findLongestPrefix(name, face) ==
    IF HasAnnounced(name, face) THEN {name}
    ELSE {findParent(ribd.rib.table, name)} \cap {n \in RibNames : HasAnnounced(n, face)}

\* the announced route found gets a new lifetime
SlRenew(name, face) ==
    \E n \in findLongestPrefix(name, face) :
        \E r \in ToSetOf(ribd.rib.table[n].routes) :
            /\ r.face = face /\ r.origin = "prefixann"
            /\ beginAddRoute([name |-> n, route |-> r, expires |-> TRUE])

UnregisterEntry(in) ==
    /\ Len(ribd.queue) < MaxQueue
    /\ ribd' = Enqueue(ribd, <<RibUpdateOf("UNREGISTER", in.name, in.route, TRUE)>>)
    /\ UNCHANGED <<fib, live, tasks, dataset, faults>>

\* onRouteExpiration: the event fires
RouteExpires(ev) ==
    /\ ribd' = Enqueue([ribd EXCEPT !.events = cancelEvent(@, ev.id)],
                       <<RibUpdateOf("UNREGISTER", ev.name, ev.route, FALSE)>>)
    /\ UNCHANGED <<fib, live, tasks, dataset, faults>>
\* mutant: only the first route of the face is removed
OnFaceDestroyedEvent_FirstOnly(f) ==
    /\ f \in tasks
    /\ tasks' = tasks \ {f}
    /\ LET found == findRoutesWithFaceId(ribd.rib, f)
       IN  ribd' = [Enqueue(ribd, [i \in DOMAIN found \cap {1} |->
                        RibUpdateOf("REMOVE_FACE", found[i].name, found[i].route, FALSE)])
                      EXCEPT !.registered = @ \ {f}]
    /\ UNCHANGED <<fib, live, dataset, faults>>

OnFaceDestroyedEvent(f) ==
    /\ f \in tasks
    /\ tasks' = tasks \ {f}
    /\ LET found == findRoutesWithFaceId(ribd.rib, f)
           us == [i \in DOMAIN found |-> RibUpdateOf("REMOVE_FACE", found[i].name, found[i].route, FALSE)]
       IN  ribd' = [Enqueue(ribd, us) EXCEPT !.registered = @ \ {f}]
    /\ UNCHANGED <<fib, live, dataset, faults>>

\* the periodic check, or the one after a refused update; NFD answers with
\* the faces it has at that time
FetchActiveFaces ==
    /\ dataset = NoDataset
    /\ dataset' = live
    /\ ribd' = [ribd EXCEPT !.fetch = FALSE]
    /\ UNCHANGED <<fib, live, tasks, faults>>

RemoveInvalidFaces ==
    /\ dataset # NoDataset
    /\ dataset' = NoDataset
    /\ tasks' = tasks \cup (ribd.registered \ dataset)
    /\ UNCHANGED <<ribd, fib, live, faults>>

----------------------------------------------------------------------------
RibInit ==
    /\ ribd = [rib |-> EmptyRib, queue |-> << >>, busy |-> FALSE, batchFace |-> 0,
               upd |-> << >>, inh |-> << >>, cmds |-> EmptyBag, events |-> {},
               registered |-> {}, fetch |-> FALSE, crashed |-> FALSE]
    /\ fib = [n \in RibNames |-> << >>]
    /\ live = RibFaces
    /\ tasks = {}
    /\ dataset = NoDataset
    /\ faults = 0

RibCommand ==
    \/ \E in \in RouteInputs : RegisterEntry(in) \/ UnregisterEntry(in) \/ SlAnnounce(in) \/ AddExpiredRoute(in)
    \/ \E n \in RibNames, f \in RibFaces : SlRenew(n, f)
RibAnswer == \E c \in BagToSet(ribd.cmds) : FibCommandDone(c)
RibExpiry == \E ev \in ribd.events : RouteExpires(ev)
RibTask == \E f \in RibFaces : OnFaceDestroyedEvent(f)

RibNext ==
    /\ ~ribd.crashed
    /\ \/ RibCommand
       \/ RibAnswer
       \/ \E c \in BagToSet(ribd.cmds) : FibCommandTimesOut(c)
       \/ RibExpiry
       \/ RibTask
       \/ \E f \in RibFaces : DestroyFace(f)
       \/ FetchActiveFaces
       \/ RemoveInvalidFaces

RibSpec == RibInit /\ [][RibNext]_ribVars

----------------------------------------------------------------------------
(* What the RIB service promises. *)

Tbl == ribd.rib.table
RoutesOf(n) == ToSetOf(Tbl[n].routes)
Idle == ~ribd.busy /\ ribd.queue = << >> /\ ribd.cmds = EmptyBag

----------------------------------------------------------------------------
(* The FIB against the RIB. *)

MinCost(S) == CHOOSE c \in {r.cost : r \in S} : \A r \in S : c <= r.cost
OwnOn(n, f) == {r \in RoutesOf(n) : r.face = f}
InheritableOn(n, f) == {r \in OwnOn(n, f) : r.inherit}
Captures(n) == \E r \in RoutesOf(n) : r.capture

\* the entries n may inherit face f from: the nearest one above n that offers
\* the face, unless a capture lies between
SourcesOf(n, f) ==
    {a \in DOMAIN Tbl :
        /\ isPrefixOf(a, n) /\ a # n /\ InheritableOn(a, f) # {}
        /\ \A x \in DOMAIN Tbl \ {a} : isPrefixOf(a, x) /\ isPrefixOf(x, n) =>
                ~Captures(x) /\ (x # n => InheritableOn(x, f) = {})}

\* the cost, if any, the FIB should have for a name and a face
ExpectedOn(n, f) ==
    IF n \notin DOMAIN Tbl THEN {}
    ELSE IF OwnOn(n, f) # {} THEN {MinCost(OwnOn(n, f))}
    ELSE {MinCost(InheritableOn(a, f)) : a \in SourcesOf(n, f)}

\* Whenever no update is under way the FIB has, for every name in the RIB,
\* the name's own next hops and those inherited from its ancestors, each at
\* the lowest cost, and nothing else: the increments FibUpdater computes for
\* one update at a time (fib-updater.cpp:376-714) add up to what the whole
\* RIB calls for.
FibFollowsRib ==
    Idle => \A n \in RibNames, f \in RibFaces :
              ExpectedOn(n, f) = IF f \in DOMAIN fib[n] THEN {fib[n][f]} ELSE {}

----------------------------------------------------------------------------
(* Expiration and destroyed faces. *)

Removes(u, n, r) == u.action # "REGISTER" /\ u.name = n /\ compareFaceIdAndOrigin(u.route, r)

\* the timer of a route with a lifetime is set, or its removal is queued or
\* under way
ExpiringRouteHasTimer ==
    \A n \in DOMAIN Tbl : \A r \in RoutesOf(n) :
        r.event # 0 /\ r.face \in live =>
            \/ \E ev \in ribd.events : ev.id = r.event
            \/ \E u \in ToSetOf(ribd.queue) : Removes(u, n, r)
            \/ \E c \in BagToSet(ribd.cmds) : Removes(c.batch, n, r)

\* No route is left behind when its reason has gone.  The routes of a destroyed
\* face leave the RIB in the end, even when the notification was missed: the
\* periodic check of active faces finds them (rib-manager.cpp:465-486).  A route
\* registered with a lifetime does not outlive it on a live face, also when it
\* is registered again meanwhile (rib.cpp:121-127, rib-manager.cpp:139-143).
NoRouteLeftBehind ==
    /\ []ExpiringRouteHasTimer
    /\ \A f \in RibFaces :
         f \notin live ~> (ribd.crashed \/ \A n \in DOMAIN Tbl : ~hasFaceId(Tbl[n], f))
=============================================================================
