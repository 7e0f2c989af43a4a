---------------------------- MODULE SelfLearning ----------------------------
(***************************************************************************)
(* SelfLearningStrategy (daemon/fw/self-learning-strategy.cpp) on one      *)
(* forwarder, for one Interest name: discovery Interests are broadcast,    *)
(* the prefix announcement on the Data that comes back becomes a route,    *)
(* and a Nack takes the route away.  Routes live in the RIB; forwarder and *)
(* RIB post closures to each other: io_services of two threads in NFD,     *)
(* zero-delay events of one queue in the simulator (core/global-io.cpp).   *)
(* Two queues, each in order, cover both.                                  *)
(*                                                                         *)
(* The RIB is abstracted to the faces with an announced route; what it     *)
(* does to get there is in module RibManager.  Time stands still at 1: a   *)
(* timer of 1 is due, a later one pending, and a pending one does not fire *)
(* while a lookup is on its way (the RIB answers within a second and       *)
(* sooner than Interests expire).  slEvents is a history: the faces last   *)
(* announced and not Nacked since.                                         *)
(***************************************************************************)
EXTENDS StrategyBase

CONSTANTS SlRemote,       \* the faces to other forwarders; SgLocal are applications
          SlStatic,       \* next hops with a route that was not announced
          SlMaxInterests, SlMaxNacks   \* bounds (model checking)

ASSUME SlStaticAssumption == SlStatic \subseteq SgLocal \cup SlRemote

SlAll == SgLocal \cup SlRemote
SlNow == 1

VARIABLES slFaces, slEntry,
          slInNd, slOutNd,  \* isNonDiscoveryInterest of InRecordInfo, OutRecordInfo
          slFib,            \* the FIB next hops
          slRib,            \* the faces with an announced route in the RIB
          slRibQ, slMainQ,  \* what is posted to the RIB and the forwarder
          slReceived, slNacks, slEvents

slVars == <<slFaces, slEntry, slInNd, slOutNd, slFib, slRib, slRibQ, slMainQ,
            slReceived, slNacks, slEvents>>

SlInit ==
  /\ slFaces = SlAll /\ slEntry = NewEntry
  /\ slInNd = [f \in SlAll |-> FALSE] /\ slOutNd = [f \in SlAll |-> FALSE]
  /\ slFib = SlStatic /\ slRib = {} /\ slRibQ = << >> /\ slMainQ = << >>
  /\ slReceived = 0 /\ slNacks = 0 /\ slEvents = {}

\* A closure: the operation, a face, and whether the PIT entry is still the
\* one its weak_ptr was taken from.
Posted(op, f) == [op |-> op, face |-> f, entry |-> TRUE]
Lost(q) == [i \in DOMAIN q |-> [q[i] EXCEPT !.entry = FALSE]]

SlSendAll(e, to) == FoldSet(LAMBDA u, x : sendInterest(x, u, 0, SlNow), e, to)

SlHandled(e) == slEntry' = [e EXCEPT !.fx = << >>]

-----------------------------------------------------------------------------
\* broadcastInterest and multicastInterest
Broadcast(e, f) ==
  LET to == {u \in (slFaces \cap SlRemote) \ {f} : ~ wouldViolateScope("global", f, u)}
  IN  /\ SlHandled(SlSendAll(e, to))
      /\ slOutNd' = [u \in SlAll |-> u \notin to /\ slOutNd[u]]

SlMulticast(e, f) ==
  LET to == {u \in slFib \ {f} : ~ wouldViolateScope("global", f, u)}
  IN  /\ SlHandled(SlSendAll(e, to))
      /\ slOutNd' = [u \in SlAll |-> u \in to \/ slOutNd[u]]

SlInterest(f, isNonDiscovery) ==
  /\ f \in slFaces /\ slReceived < SlMaxInterests
  /\ LET e == InterestIn(slEntry, f, 0, SlNow)
     IN  \/ /\ isNonDiscovery /\ slFib = {}
            /\ SlHandled(rejectPendingInterest(sendNack(e, f, "NoRoute"), SlNow))
            /\ UNCHANGED slOutNd
         \/ ~ isNonDiscovery /\ slFib = {} /\ Broadcast(e, f)
         \/ slFib # {} /\ SlMulticast(e, f)
  /\ slInNd' = [slInNd EXCEPT ![f] = isNonDiscovery]
  /\ slReceived' = slReceived + 1
  /\ UNCHANGED <<slFaces, slFib, slRib, slRibQ, slMainQ, slNacks, slEvents>>

SlPending == {f \in DOMAIN slEntry.in : slEntry.in[f].expiry > SlNow}

needPrefixAnn ==
  /\ \E f \in SlPending : ~ slInNd[f]
  /\ ~ (SlPending \subseteq SgLocal)

\* afterReceiveData within onIncomingData.  Only an answer to a discovery
\* Interest brings an announcement, if the upstream supports it.
SlData(u, hasAnn) ==
  /\ u \in slFaces /\ u \in DOMAIN slEntry.out
  /\ ~ (hasAnn /\ slOutNd[u])
  /\ LET e == Satisfied(slEntry, SlNow) IN
     \/ /\ slOutNd[u] /\ needPrefixAnn      \* asyncProcessData: 1 s
        /\ SlHandled(deleteOutRecord([e EXCEPT !.timer = SlNow + 1], u))
        /\ slRibQ' = Append(slRibQ, Posted("find", u))
        /\ UNCHANGED slEvents
     \/ /\ ~ (slOutNd[u] /\ needPrefixAnn)
        /\ SlHandled(deleteOutRecord(sendDataToAll(e, u, SlNow), u))
        /\ slRibQ' = IF hasAnn THEN Append(slRibQ, Posted("announce", u)) ELSE slRibQ
        /\ slEvents' = IF hasAnn THEN slEvents \cup {u} ELSE slEvents
  /\ UNCHANGED <<slFaces, slInNd, slOutNd, slFib, slRib, slMainQ, slReceived, slNacks>>

renewRoute_Forgotten(u) == UNCHANGED slRibQ

renewRoute(u) == slRibQ' = Append(slRibQ, Posted("renew", u))

\* afterReceiveNack within onIncomingNack, for any reason.
SlNack(u, reason) ==
  /\ u \in DOMAIN slEntry.out /\ slNacks < SlMaxNacks
  /\ LET e == NackIn(slEntry, u, reason, SlNow) IN
     \/ /\ reason = "NoRoute"
        /\ SlHandled(sendNacks(e, reason))
        /\ renewRoute(u)
        /\ slEvents' = slEvents \ {u}
     \/ reason # "NoRoute" /\ SlHandled(e) /\ UNCHANGED <<slRibQ, slEvents>>
  /\ slNacks' = slNacks + 1
  /\ UNCHANGED <<slFaces, slInNd, slOutNd, slFib, slRib, slMainQ, slReceived>>

\* The RIB thread: slAnnounce, slRenew for no time at all, slFindAnn.  The
\* FIB follows by commands to the main thread; a face that has gone gets no
\* route.  slFindAnn answers when the RIB has an entry.
RibStep ==
  /\ slRibQ # << >>
  /\ LET t == Head(slRibQ) IN
     \/ /\ t.op = "announce" /\ t.face \in slFaces
        /\ slRib' = slRib \cup {t.face}
        /\ slMainQ' = Append(slMainQ, Posted("add", t.face))
     \/ /\ t.op = "renew" /\ t.face \in slRib
        /\ slRib' = slRib \ {t.face}
        /\ slMainQ' = Append(slMainQ, Posted("remove", t.face))
     \/ /\ t.op = "find" /\ slRib \cup SlStatic # {}
        /\ slMainQ' = Append(slMainQ, [t EXCEPT !.op = "found"])
        /\ UNCHANGED slRib
     \/ /\ \/ t.op = "announce" /\ t.face \notin slFaces
           \/ t.op = "renew" /\ t.face \notin slRib
           \/ t.op = "find" /\ slRib \cup SlStatic = {}
        /\ UNCHANGED <<slRib, slMainQ>>
  /\ slRibQ' = Tail(slRibQ)
  /\ UNCHANGED <<slFaces, slEntry, slInNd, slOutNd, slFib, slReceived, slNacks, slEvents>>

\* The main thread: the answer of slFindAnn, or a FIB command.
MainStep ==
  /\ slMainQ # << >>
  /\ LET t == Head(slMainQ) IN
     \/ /\ t.op = "found" /\ t.entry /\ t.face \in slFaces
        /\ SlHandled([sendDataToAll(slEntry, t.face, SlNow) EXCEPT !.timer = SlNow])
        /\ UNCHANGED slFib
     \/ /\ t.op = "found" /\ ~ (t.entry /\ t.face \in slFaces)
        /\ UNCHANGED <<slEntry, slFib>>
     \/ /\ t.op = "add"
        /\ slFib' = slFib \cup ({t.face} \cap slFaces)
        /\ UNCHANGED slEntry
     \/ /\ t.op = "remove"
        /\ slFib' = slFib \ ({t.face} \ SlStatic)
        /\ UNCHANGED slEntry
  /\ slMainQ' = Tail(slMainQ)
  /\ UNCHANGED <<slFaces, slInNd, slOutNd, slRib, slRibQ, slReceived, slNacks, slEvents>>

IsLookup(t) == t.op \in {"find", "found"} /\ t.entry
InLookup == (\E i \in DOMAIN slRibQ : IsLookup(slRibQ[i])) \/ (\E i \in DOMAIN slMainQ : IsLookup(slMainQ[i]))

\* The entry's timer fires: the closures that look for the entry will not
\* find it.
SlFinalize ==
  /\ slEntry.timer # 0 /\ (slEntry.timer > SlNow => ~ InLookup)
  /\ slEntry' = NewEntry
  /\ slRibQ' = Lost(slRibQ) /\ slMainQ' = Lost(slMainQ)
  /\ UNCHANGED <<slFaces, slInNd, slOutNd, slFib, slRib, slReceived, slNacks, slEvents>>

\* An in-record expires before the others.
SlExpireIn(f) ==
  /\ f \in SlPending /\ SlPending # {f}
  /\ slEntry' = [slEntry EXCEPT !.in[f].expiry = SlNow]
  /\ UNCHANGED <<slFaces, slInNd, slOutNd, slFib, slRib, slRibQ, slMainQ, slReceived, slNacks, slEvents>>

\* A face ends; the RIB drops its routes when it hears of it.
SlRemoveFace(f) ==
  /\ f \in slFaces /\ slFaces' = slFaces \ {f}
  /\ slEntry' = [slEntry EXCEPT !.in = Restrict(@, DOMAIN @ \ {f}),
                                !.out = Restrict(@, DOMAIN @ \ {f})]
  /\ slFib' = slFib \ {f} /\ slEvents' = slEvents \ {f}
  /\ slRibQ' = Append(slRibQ, Posted("renew", f))
  /\ UNCHANGED <<slInNd, slOutNd, slRib, slMainQ, slReceived, slNacks>>

SlNext ==
  \/ \E f \in SlAll, nd \in BOOLEAN : SlInterest(f, nd)
  \/ \E u \in SlRemote : \/ \E hasAnn \in BOOLEAN : SlData(u, hasAnn)
                         \/ \E reason \in {"NoRoute", "Duplicate"} : SlNack(u, reason)
                         \/ SlRemoveFace(u)
  \/ \E f \in SlAll : SlExpireIn(f)
  \/ RibStep \/ MainStep \/ SlFinalize

-----------------------------------------------------------------------------
\* Two threads and their queues do not reorder what was learnt: when both
\* queues are empty, the FIB has exactly the routes of the last announcement
\* or Nack of each face, and the routes that were never announced
\* (addRoute, renewRoute, runOnRibIoService, runOnMainIoService).
RoutesFollowEvents ==
  slRibQ = << >> /\ slMainQ = << >> => slFib = slEvents \cup (SlStatic \cap slFaces)

\* "the PIT entry's expiry timer is extended first to ensure that the entry
\* will not be removed before the whole processing is finished"
\* (self-learning-strategy.cpp, asyncProcessData): no entry is removed while
\* the announcement for its Data is being looked up.
EntryOutlivesLookup == [][ InLookup => ~ SlFinalize ]_slVars
=============================================================================
