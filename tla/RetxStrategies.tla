--------------------------- MODULE RetxStrategies ---------------------------
(***************************************************************************)
(* The strategies that decide from the PIT entry alone: BestRouteStrategy  *)
(* ("best-route"), BestRouteStrategy2 ("best-route2") and                  *)
(* MulticastStrategy ("multicast"), each serving one Interest name from    *)
(* its first transmission, through retransmissions, Nacks and Data, to the *)
(* expiry of the entry.                                                    *)
(*                                                                         *)
(* rtLog is a history of the Interests sent since the entry was created or *)
(* last satisfied.                                                         *)
(***************************************************************************)
EXTENDS StrategyBase

CONSTANTS RtHops,          \* the FIB next hops in order of cost
          RtDownstreams,   \* the faces that ask
          RtMaxInterests,  \* bound on Interests received (model checking)
          RtMaxTime        \* bound on the clock (model checking)

VARIABLES rtKind, rtScope,
          rtNow,
          rtEntry,     \* NewEntry while the PIT has none
          rtReceived,
          rtLog

rtVars == <<rtKind, rtScope, rtNow, rtEntry, rtReceived, rtLog>>

RtKinds == {"best-route", "best-route2", "multicast"}

\* Every Interest has a nonce of its own and only a Nack of the last one
\* sent counts, so the nonces need not be told apart.
RtNonce == 0

RtInit ==
  /\ rtKind \in RtKinds
  /\ rtScope \in {"global", "localhop"}
  /\ rtNow = 1 /\ rtEntry = NewEntry /\ rtReceived = 0 /\ rtLog = << >>

HopsWhere(P(_)) == SelectSeq(RtHops, P)

isNextHopEligible(f, u) == u # f /\ ~ wouldViolateScope(rtScope, f, u)

\* wantUnused
IsUnused(e, u) == ~ (u \in DOMAIN e.out /\ e.out[u].expiry > rtNow)

BestRouteStrategyBase_afterReceiveInterest(e, f) ==
  LET usable == HopsWhere(LAMBDA u : /\ ~ wouldViolateScope(rtScope, f, u)
                                     /\ canForwardToLegacy(e, u, rtNow))
  IN  IF hasPendingOutRecords(e, rtNow) THEN e
      ELSE IF usable # << >> THEN sendInterest(e, Head(usable), RtNonce, rtNow)
      ELSE rejectPendingInterest(e, rtNow)

\* The first of the eligible hops whose out-record was renewed longest ago.
findEligibleNextHopWithEarliestOutRecord(e, eligible) ==
  Head(SelectSeq(eligible, LAMBDA u : \A v \in Range(eligible) :
                                        e.out[u].renewed <= e.out[v].renewed))

BestRouteStrategy2_afterReceiveInterest(e, f) ==
  LET decision == decidePerPitEntry(e, rtNow)
      e1       == AfterDecision(e, decision)
      eligible == HopsWhere(LAMBDA u : isNextHopEligible(f, u))
      unused   == SelectSeq(eligible, LAMBDA u : IsUnused(e, u))
  IN  CASE decision = "SUPPRESS" -> e1
        [] decision = "NEW" /\ eligible = << >> ->
             rejectPendingInterest(sendNack(e1, f, "NoRoute"), rtNow)
        [] decision = "NEW" /\ eligible # << >> -> sendInterest(e1, Head(eligible), RtNonce, rtNow)
        [] decision = "FORWARD" /\ unused # << >> -> sendInterest(e1, Head(unused), RtNonce, rtNow)
        [] decision = "FORWARD" /\ eligible = << >> -> e1
        [] OTHER -> sendInterest(e1, findEligibleNextHopWithEarliestOutRecord(e, eligible),
                                 RtNonce, rtNow)

\* One next hop of the multicast loop.
MulticastTo(e, u, nonce, now) ==
  LET e1 == sendInterest(e, u, nonce, now)
  IN  IF decidePerUpstream(e, u, now) = "FORWARD"
      THEN incrementIntervalForOutRecord(e1, u) ELSE e1

\* hops: the next hops; eligible: those that may get this Interest.
Multicast(e, f, nonce, hops, eligible, now) ==
  LET isSuppressed(u) == decidePerUpstream(e, u, now) = "SUPPRESS"
      chosen == SelectSeq(hops, LAMBDA u : u \in eligible /\ ~ isSuppressed(u))
  IN  IF chosen = << >> /\ \A u \in Range(hops) : ~ isSuppressed(u)
      THEN rejectPendingInterest(sendNack(e, f, "NoRoute"), now)
      ELSE FoldFunction(LAMBDA u, x : MulticastTo(x, u, nonce, now), e, chosen)

MulticastStrategy_afterReceiveInterest(e, f) ==
  Multicast(e, f, RtNonce, RtHops, {u \in Range(RtHops) : isNextHopEligible(f, u)}, rtNow)

Rt_afterReceiveInterest(e, f) ==
  CASE rtKind = "best-route"  -> BestRouteStrategyBase_afterReceiveInterest(e, f)
    [] rtKind = "best-route2" -> BestRouteStrategy2_afterReceiveInterest(e, f)
    [] rtKind = "multicast"   -> MulticastStrategy_afterReceiveInterest(e, f)

-----------------------------------------------------------------------------
\* The history gains the Interests of the step; re marks a retransmission
\* that the strategy decided to forward.
RtLogged(e, e1) ==
  LET sent == SelectSeq(e1.fx, LAMBDA x : x.kind = "interest")
      re(u) == IF rtKind = "multicast" THEN u \in DOMAIN e.out
               ELSE hasPendingOutRecords(e, rtNow)
  IN  rtLog \o [i \in 1..Len(sent) |-> [to |-> sent[i].to, at |-> rtNow, re |-> re(sent[i].to)]]

RtHandled(e1) == rtEntry' = [e1 EXCEPT !.fx = << >>]

RtInterest(f) ==
  /\ rtReceived < RtMaxInterests
  /\ LET e  == InterestIn(rtEntry, f, RtNonce, rtNow)
         e1 == Rt_afterReceiveInterest(e, f)
     IN  RtHandled(e1) /\ rtLog' = RtLogged(e, e1)
  /\ rtReceived' = rtReceived + 1
  /\ UNCHANGED <<rtKind, rtScope, rtNow>>

\* BestRouteStrategy leaves afterReceiveNack to the base class.
RtNack(u, reason) ==
  /\ u \in DOMAIN rtEntry.out
  /\ LET e == NackIn(rtEntry, u, reason, rtNow)
     IN  RtHandled(IF rtKind = "best-route" THEN e ELSE processNack(e))
  /\ UNCHANGED <<rtKind, rtScope, rtNow, rtReceived, rtLog>>

RtData(u) ==
  /\ u \in DOMAIN rtEntry.out
  /\ RtHandled(deleteOutRecord(sendDataToAll(Satisfied(rtEntry, rtNow), u, rtNow), u))
  /\ rtLog' = << >>
  /\ UNCHANGED <<rtKind, rtScope, rtNow, rtReceived>>

RtIsDue == rtEntry.timer \in 1..rtNow

RtFinalize ==
  /\ RtIsDue
  /\ rtEntry' = NewEntry /\ rtLog' = << >>
  /\ UNCHANGED <<rtKind, rtScope, rtNow, rtReceived>>

RtTick ==
  /\ ~ RtIsDue /\ rtNow < RtMaxTime
  /\ rtNow' = rtNow + 1
  /\ UNCHANGED <<rtKind, rtScope, rtEntry, rtReceived, rtLog>>

RtNext ==
  \/ \E f \in RtDownstreams : RtInterest(f)
  \/ \E u \in Range(RtHops) : RtData(u) \/ RtNack(u, "NoRoute")
  \/ RtFinalize
  \/ RtTick

-----------------------------------------------------------------------------
Forwards(log) == Cardinality({i \in DOMAIN log : log[i].re})

SpacedBy(log) ==
  \A i \in 2..Len(log) :
    log[i].re => log[i].at - log[i - 1].at >=
                   Min({RetxMax, RetxInitial * 2 ^ Forwards(SubSeq(log, 1, i - 1))})

\* The k-th retransmission that suppression lets pass leaves at least
\* initialInterval * 2^(k-1), at most maxInterval, after the transmission
\* before it: of the entry for best-route, of the upstream for multicast
\* (retx-suppression-exponential.cpp), whatever Nacks, other downstreams and
\* expired out-records come between.
RetransmissionsSpaced ==
  IF rtKind = "multicast"
  THEN \A u \in Range(RtHops) : SpacedBy(SelectSeq(rtLog, LAMBDA x : x.to = u))
  ELSE rtKind = "best-route2" => SpacedBy(rtLog)

-----------------------------------------------------------------------------
(***************************************************************************)
(* Two forwarders that are each other's next hop for a name, each with a   *)
(* consumer ("app") and an upstream ("up") that answers every Interest     *)
(* with a Nack: the situation processNack (process-nack-traits.cpp) has    *)
(* its rule for the last upstream for.  Both run MulticastStrategy over    *)
(* the Interest, Nack and loop pipelines of forwarder.cpp.  The links      *)
(* between them are FIFO and lose nothing.                                 *)
(*                                                                         *)
(* Time is abstracted away: out-records do not expire during the exchange  *)
(* and, with NxSuppresses, suppression may be either way for an upstream   *)
(* used before.                                                            *)
(***************************************************************************)
CONSTANTS NxNodes,       \* the two forwarders
          NxSuppresses   \* whether an Interest may meet a suppressed upstream

NxPeer(n) == CHOOSE m \in NxNodes \ {n} : TRUE
NxHops == <<"peer", "up">>

VARIABLES nxEntry,  \* the PIT entry of each forwarder
          nxDnl,    \* the dead nonces of each
          nxLink,   \* packets on the way to each forwarder, a queue per face
          nxAsked   \* the consumers that have asked

nxVars == <<nxEntry, nxDnl, nxLink, nxAsked>>

NxInit ==
  /\ nxEntry = [n \in NxNodes |-> NewEntry]
  /\ nxDnl = [n \in NxNodes |-> {}]
  /\ nxLink = [n \in NxNodes |-> [peer |-> << >>, up |-> << >>]]
  /\ nxAsked = {}

\* The upstream Nacks whatever reaches it.
NxSent(links, n, x) ==
  CASE x.to = "app"  -> links
    [] x.to = "up"   -> [links EXCEPT ![n].up = Append(@, [kind |-> "nack", nonce |-> x.nonce,
                                                           reason |-> "NoRoute"])]
    [] x.to = "peer" -> [links EXCEPT ![NxPeer(n)].peer = Append(@, x)]

\* A handler of n ends with entry e and its effects on the links.
NxEnds(n, e, links) ==
  /\ nxEntry' = [nxEntry EXCEPT ![n] = [e EXCEPT !.fx = << >>]]
  /\ nxLink' = FoldFunction(LAMBDA x, acc : NxSent(acc, n, x), links, e.fx)

\* findDuplicateNonce: the same nonce from the same face is no loop, unless
\* an out-record has it too.
NxLooped(n, f, nonce) ==
  LET e == nxEntry[n] IN
  \/ nonce \in nxDnl[n]
  \/ /\ ~ (f \in DOMAIN e.in /\ e.in[f].nonce = nonce)
     /\ \/ \E g \in DOMAIN e.in : e.in[g].nonce = nonce
        \/ \E u \in DOMAIN e.out : e.out[u].nonce = nonce

\* A suppressed upstream is one whose interval has not passed: S says which.
NxMulticast(e, f, nonce, S) ==
  LET aged == [e EXCEPT !.out = [u \in DOMAIN e.out |->
                 [e.out[u] EXCEPT !.renewed = IF u \in S THEN 1 ELSE 0, !.interval = 1]]]
  IN  Multicast(aged, f, nonce, NxHops, {"peer", "up"} \ {f}, 1)

NxInterest(n, f, nonce, links) ==
  IF NxLooped(n, f, nonce)
  THEN NxEnds(n, Effect(nxEntry[n], [kind |-> "nack", to |-> f, nonce |-> nonce,
                                     reason |-> "Duplicate"]), links)
  ELSE \E S \in IF NxSuppresses THEN SUBSET DOMAIN nxEntry[n].out ELSE {{}} :
         NxEnds(n, NxMulticast(InterestIn(nxEntry[n], f, nonce, 1), f, nonce, S), links)

NxAsk(n) ==
  /\ n \notin nxAsked
  /\ NxInterest(n, "app", n, nxLink)
  /\ nxAsked' = nxAsked \cup {n}
  /\ UNCHANGED nxDnl

NxReceive(n, f) ==
  /\ nxLink[n][f] # << >>
  /\ LET x == Head(nxLink[n][f])
         links == [nxLink EXCEPT ![n][f] = Tail(@)]
         e == nxEntry[n]
     IN  IF x.kind = "interest" THEN NxInterest(n, f, x.nonce, links)
         ELSE IF f \in DOMAIN e.out /\ e.out[f].nonce = x.nonce
         THEN NxEnds(n, processNack(NackIn(e, f, x.reason, 1)), links)
         ELSE NxEnds(n, e, links)
  /\ UNCHANGED <<nxDnl, nxAsked>>

\* The expiry timer set by NackIn or a rejection fires.
NxFinalize(n) ==
  /\ nxEntry[n].timer = 1
  /\ nxEntry' = [nxEntry EXCEPT ![n] = NewEntry]
  /\ nxDnl' = [nxDnl EXCEPT ![n] = @ \cup {nxEntry[n].out[u].nonce : u \in DOMAIN nxEntry[n].out}]
  /\ UNCHANGED <<nxLink, nxAsked>>

NxNext == \E n \in NxNodes : NxAsk(n) \/ NxFinalize(n) \/ \E f \in {"peer", "up"} : NxReceive(n, f)

-----------------------------------------------------------------------------
NxQuiet ==
  /\ nxAsked = NxNodes
  /\ \A n \in NxNodes : /\ nxLink[n] = [peer |-> << >>, up |-> << >>]
                        /\ nxEntry[n].timer # 1

\* Nobody is left waiting for a Nack that will never come (the "live
\* deadlock" of process-nack-traits.hpp): once every packet has been handled
\* and every timer set to now has fired, no downstream of either forwarder
\* still has an in-record.
NackReachesEveryone == NxQuiet => \A n \in NxNodes : nxEntry[n].in = NoRecords
=============================================================================
