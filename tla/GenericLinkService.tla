------------------------- MODULE GenericLinkService -------------------------
(***************************************************************************)
(* Two GenericLinkServices (daemon/face/generic-link-service.cpp) talking  *)
(* over a datagram link: fragmentation, link reliability and reassembly    *)
(* together.  The link loses, delays, reorders and duplicates.  The RTO,   *)
(* idle Ack and reassembly timers may fire at any moment they run: how     *)
(* long they take relative to each other is left open.                     *)
(***************************************************************************)
EXTENDS LpReliability

CONSTANTS LinkEnds,       \* the two faces of the link
          LinkPackets,    \* LinkPackets[x]: the network packets x sends, each once
          LinkInterests,  \* those that are Interests
          LinkCapacity,   \* bound on the LpPackets on their way at a time
          FirstTxSeq,     \* the TxSequence number the next fragment gets
          MaxDuplicates,  \* bound on the packets the link duplicates
          MaxOptionChanges \* bound on the setOptions calls

VARIABLES lkEnd,       \* the two LpReliability instances
          lkPartial,   \* m_partialPackets: packet |-> fragments received
          lkNet,       \* LpPackets on their way: [to, pkt]
          lkSent,      \* packets handed to sendNetPacket, each with its reliability
          lkArrived,   \* fragments that reached the far end at some time
          lkDelivered, \* packets that reached the network layer of the far end
          lkTimedOut,  \* packets a reassembly timeout was counted for
          lkDups,      \* packets duplicated so far
          lkChanges    \* setOptions calls so far

lkVars == <<lkEnd, lkPartial, lkNet, lkSent, lkArrived, lkDelivered, lkTimedOut, lkDups, lkChanges>>

Peer(x) == CHOOSE y \in LinkEnds : y # x
Fragments(p, isEnabled) == [i \in 1..Len(Payloads(p, isEnabled)) |-> <<p, i, isEnabled>>]

\* Constructors of the two ends; no traffic.
LkInit ==
  /\ lkEnd = [x \in LinkEnds |-> NewEndpoint((FirstTxSeq - 1) % TxSeqMod, TRUE)]
  /\ lkPartial = [x \in LinkEnds |-> << >>]
  /\ lkNet = {} /\ lkSent = {} /\ lkArrived = {} /\ lkDelivered = {} /\ lkTimedOut = {}
  /\ lkDups = 0 /\ lkChanges = 0

\* The end of every handler of x: what e hands to the transport is on its way.
Transmit(x, e, net) ==
  /\ lkEnd' = [lkEnd EXCEPT ![x] = [e EXCEPT !.out = <<>>, !.mark = FALSE]]
  /\ lkNet' = net \cup {[to |-> Peer(x), pkt |-> p] : p \in ToSet(e.out)}
  /\ e.out # <<>> => Cardinality(lkNet') <= LinkCapacity

\* An end while its transport is congested or not (see checkCongestionLevel).
With(x, mark) == [lkEnd[x] EXCEPT !.mark = mark]

\* sendNetPacket: cut, store for retransmission if reliability is on, send.
sendNetPacket(x, p, mark) ==
  LET e == With(x, mark)
      frags == Fragments(p, e.enabled)
      stored == IF e.enabled THEN handleOutgoing(e, frags, p \in LinkInterests) ELSE e
      txOf(i) == IF e.enabled THEN stored.netPkts[p].unackedFrags[i] ELSE EndOfMap
      send(d, i) == sendLpPacket(d, LpPacket(frags[i], txOf(i)))
  IN /\ p \in LinkPackets[x] /\ \A s \in lkSent : s[1] # p
     /\ frags # <<>>                                     \* else nFragmentationErrors
     /\ Transmit(x, FoldLeft(send, stored, [i \in 1..Len(frags) |-> i]), lkNet)
     /\ lkSent' = lkSent \cup {<<p, e.enabled>>}
     /\ UNCHANGED <<lkPartial, lkArrived, lkDelivered, lkTimedOut, lkDups, lkChanges>>

\* LpReassembler::receiveFragment of fragment f at x.
receiveFragment(x, f) ==
  LET n == Len(Payloads(f[1], f[3]))
      had == IF f[1] \in DOMAIN lkPartial[x] THEN lkPartial[x][f[1]] ELSE {}
      complete == had \cup {f[2]} = 1..n
  IN [complete |-> complete,
      partial |-> IF n = 1 THEN lkPartial[x]
                  ELSE IF complete THEN Restrict(lkPartial[x], DOMAIN lkPartial[x] \ {f[1]})
                  ELSE (f[1] :> (had \cup {f[2]})) @@ lkPartial[x]]

\* doReceivePacket: Acks first, then the fragment.  The packet may stay on the
\* link as a duplicate.
doReceivePacket(x, pkt, mark, dup) ==
  LET m == [to |-> x, pkt |-> pkt]
      e == IF lkEnd[x].enabled THEN processIncomingPacket(With(x, mark), pkt) ELSE lkEnd[x]
      r == receiveFragment(x, pkt.frag)
  IN /\ m \in lkNet
     /\ dup => lkDups < MaxDuplicates
     /\ lkDups' = IF dup THEN lkDups + 1 ELSE lkDups
     /\ Transmit(x, e, IF dup THEN lkNet ELSE lkNet \ {m})
     /\ IF pkt.frag = NoFragment
        THEN UNCHANGED <<lkArrived, lkPartial, lkDelivered>>
        ELSE /\ lkArrived' = lkArrived \cup {pkt.frag}
             /\ lkPartial' = [lkPartial EXCEPT ![x] = r.partial]
             /\ lkDelivered' = IF r.complete THEN lkDelivered \cup {pkt.frag[1]} ELSE lkDelivered
     /\ UNCHANGED <<lkSent, lkTimedOut, lkChanges>>

\* The link loses a packet.
LkLose(m) ==
  /\ m \in lkNet
  /\ lkNet' = lkNet \ {m}
  /\ UNCHANGED <<lkEnd, lkPartial, lkSent, lkArrived, lkDelivered, lkTimedOut, lkDups, lkChanges>>

\* The RTO timer of fragment s.
RtoTimer(x, s, mark) ==
  /\ s \in Keys(lkEnd[x]) /\ lkEnd[x].unacked[s].rtoTimer
  /\ Transmit(x, onLpPacketLost(With(x, mark), s), lkNet)
  /\ UNCHANGED <<lkPartial, lkSent, lkArrived, lkDelivered, lkTimedOut, lkDups, lkChanges>>

\* The idle Ack timer.
IdleAckTimer(x, mark) ==
  /\ lkEnd[x].idleTimer
  /\ Transmit(x, idleAckTimer(With(x, mark)), lkNet)
  /\ UNCHANGED <<lkPartial, lkSent, lkArrived, lkDelivered, lkTimedOut, lkDups, lkChanges>>

\* timeoutPartialPacket: what has arrived of p is dropped and counted.
timeoutPartialPacket(x, p) ==
  /\ p \in DOMAIN lkPartial[x]
  /\ lkPartial' = [lkPartial EXCEPT ![x] = Restrict(@, DOMAIN @ \ {p})]
  /\ lkTimedOut' = lkTimedOut \cup {p}
  /\ UNCHANGED <<lkEnd, lkNet, lkSent, lkArrived, lkDelivered, lkDups, lkChanges>>

\* GenericLinkService::setOptions turning reliability on or off.
LkSetOptions(x) ==
  /\ lkChanges < MaxOptionChanges
  /\ lkChanges' = lkChanges + 1
  /\ lkEnd' = [lkEnd EXCEPT ![x] = setOptions(@, ~@.enabled)]
  /\ UNCHANGED <<lkPartial, lkNet, lkSent, lkArrived, lkDelivered, lkTimedOut, lkDups>>

\* A step at x that sends some of packets, with its transport congested or not
\* as marks has it and the link duplicating or not as dups has it.
LkStep(x, packets, marks, dups) ==
  \/ \E mark \in marks :
       \/ \E p \in packets : sendNetPacket(x, p, mark)
       \/ \E m \in {k \in lkNet : k.to = x} : \E dup \in dups : doReceivePacket(x, m.pkt, mark, dup)
       \/ \E s \in Keys(lkEnd[x]) : RtoTimer(x, s, mark)
       \/ IdleAckTimer(x, mark)
LkFault(x) ==
  \/ \E p \in DOMAIN lkPartial[x] : timeoutPartialPacket(x, p)
  \/ \E m \in {k \in lkNet : k.to = x} : LkLose(m)

LkNext == \E x \in LinkEnds :
            LkStep(x, LinkPackets[x], BOOLEAN, BOOLEAN) \/ LkFault(x) \/ LkSetOptions(x)

-----------------------------------------------------------------------------
\* The fate of the packets x has sent.
Outstanding(x) == DOMAIN lkEnd[x].netPkts
Confirmed(x) == lkEnd[x].nAcknowledged \cup lkEnd[x].nRetransmitted

\* a packet sent reliably is outstanding, confirmed or given up, never two of
\* them, and each Interest given up is reported once
OneFatePerPacket ==
  \A x \in LinkEnds : LET e == lkEnd[x] IN
    /\ {s[1] : s \in {k \in lkSent : k[2]}} \cap LinkPackets[x]
         = Outstanding(x) \cup Confirmed(x) \cup e.nRetxExhausted
    /\ Outstanding(x) \cap (Confirmed(x) \cup e.nRetxExhausted) = {}
    /\ Confirmed(x) \cap e.nRetxExhausted = {}
    /\ e.nAcknowledged \cap e.nRetransmitted = {}
    /\ IsInjective(e.dropped) /\ ToSet(e.dropped) = e.nRetxExhausted \cap LinkInterests

\* every fragment of a confirmed packet has arrived, and the packet was delivered
\* or the far end has it in reassembly or counted a reassembly timeout for it
ConfirmedHasArrived ==
  \A x \in LinkEnds : \A p \in Confirmed(x) :
    /\ \A f \in ToSet(Fragments(p, TRUE)) : f \in lkArrived
    /\ p \in lkDelivered \cup lkTimedOut \cup DOMAIN lkPartial[Peer(x)]

\* Whatever is lost, reordered or duplicated, a packet sent reliably has one fate
\* (onLpPacketAcknowledged, onLpPacketLost): what nAcknowledged and nRetransmitted
\* promise has arrived, the strategy hears once of each Interest given up
\* (onDroppedInterest), and lp-reliability.cpp's assertions and its length_error
\* are not met across the wrap of the sequence space.
FatesAreTrue ==
  OneFatePerPacket /\ ConfirmedHasArrived /\ \A x \in LinkEnds : ~lkEnd[x].fault

\* Every packet sent reliably meets its fate: retransmissions end, and when no
\* more is sent nothing stays outstanding.
FatesAreDecided == (\E x \in LinkEnds : Outstanding(x) # {}) ~> (\A x \in LinkEnds : Outstanding(x) = {})

\* The scheduler runs every event that is due: while RTO timers are running, one
\* goes on firing.  (A link at LinkCapacity for ever is not considered.)
LkDue == \E x \in LinkEnds : \E s \in Keys(lkEnd[x]) : lkEnd[x].unacked[s].rtoTimer
LkDueStep == \E x \in LinkEnds : \E s \in Keys(lkEnd[x]) : \E mark \in BOOLEAN : RtoTimer(x, s, mark)

-----------------------------------------------------------------------------
(***************************************************************************)
(* GenericLinkService::checkCongestionLevel                                *)
(* (daemon/face/generic-link-service.cpp): which packets are marked while  *)
(* the send queue of the transport is too long.                            *)
(***************************************************************************)
CONSTANTS CgInterval,   \* baseCongestionMarkingInterval
          CgThreshold,  \* defaultCongestionThreshold
          CgCapacities, \* send queue capacities, negative: unknown
          CgLengths,    \* send queue lengths, negative: unsupported
          CgMaxTime,    \* bound on the time that passes
          CgMaxMarks    \* bound on the packets marked

VARIABLES cg,      \* now, m_nextMarkTime, m_lastMarkTime, m_nMarkedSinceInMarkingState
          cgMarks  \* when packets were marked: <<time, number in its incident>>

cgVars == <<cg, cgMarks>>

CgNever == CgMaxTime + 2 * CgInterval   \* TimePoint::max()

\* base / sqrt(n), cut to a whole number as the cast does
CgStep_Linear(n) == CgInterval \div n
CgStep(n) == CHOOSE k \in 0..CgInterval :
               /\ k * k * n <= CgInterval * CgInterval
               /\ (k + 1) * (k + 1) * n > CgInterval * CgInterval

CgInit == /\ cg = [now |-> 0, next |-> CgNever, last |-> -CgInterval, n |-> 0]
          /\ cgMarks = <<>>

Congested(len, capacity) ==
  LET half == capacity \div 2
  IN len > IF capacity >= 0 /\ half < CgThreshold THEN half ELSE CgThreshold

MayMark == cg.now >= cg.next \/ cg.now >= cg.last + CgInterval

\* A packet is sent while the queue is len long.
checkCongestionLevel(len, capacity) ==
  /\ UNCHANGED cgMarks
  /\ cg' = IF len >= 0 /\ ~Congested(len, capacity) /\ cg.next # CgNever
           THEN [cg EXCEPT !.next = CgNever, !.n = 0] ELSE cg
MarkPacket(len, capacity) ==
  /\ len >= 0 /\ Congested(len, capacity) /\ MayMark
  /\ Len(cgMarks) < CgMaxMarks
  /\ cg' = [cg EXCEPT !.next = (IF cg.n = 0 THEN cg.now ELSE @) + CgStep(cg.n + 1),
                      !.n = @ + 1, !.last = cg.now]
  /\ cgMarks' = Append(cgMarks, <<cg.now, cg.n + 1>>)
SendPacket(len, capacity) ==
  \/ MarkPacket(len, capacity)
  \/ ~(len >= 0 /\ Congested(len, capacity) /\ MayMark) /\ checkCongestionLevel(len, capacity)

CgTick == cg.now < CgMaxTime /\ cg' = [cg EXCEPT !.now = @ + 1] /\ UNCHANGED cgMarks

CgNext == CgTick \/ \E len \in CgLengths : \E c \in CgCapacities : SendPacket(len, c)

\* when the k-th mark of an incident is due, after the first
Root(x) == CHOOSE k \in 0..x : k * k <= x /\ (k + 1) * (k + 1) > x
Due[k \in Nat] == IF k <= 1 THEN 0 ELSE Due[k - 1] + Root((CgInterval * CgInterval) \div (k - 1))
\* "Decrease the marking interval by the inverse of the square root of the number
\* of packets marked": the k-th mark of an incident is not early on that schedule
\* counted from the first, whatever the gaps in the traffic.  "Mark at most one
\* initial packet per baseCongestionMarkingInterval": the first mark comes that
\* long after the mark before it, however often the queue falls below the threshold.
MarksOnSchedule ==
  \A i \in DOMAIN cgMarks :
    LET k == cgMarks[i][2]
    IN /\ cgMarks[i][1] - cgMarks[i - k + 1][1] >= Due[k]
       /\ k = 1 /\ i > 1 => cgMarks[i][1] - cgMarks[i - 1][1] >= CgInterval

-----------------------------------------------------------------------------
(***************************************************************************)
(* The NDNLPv2 fields of a network packet on its way from an application   *)
(* through a chain of forwarders: encodeLpFields and decodeInterest,       *)
(* decodeData, decodeNack (daemon/face/generic-link-service.cpp).  A       *)
(* packet at a forwarder has tags, a packet on a link has fields.          *)
(***************************************************************************)
CONSTANTS LpNodes,     \* length of the chain of forwarders
          LpAppFields  \* sets of fields the application may put on its packet

ASSUME LpNodesAssumption == LpNodes \in Nat

VARIABLES lpKind,      \* "Interest", "Data" or "Nack"
          lpOptions,   \* lpOptions[i]: options of the faces forwarder i receives and sends on
          lpAt,        \* forwarder the packet is at, 0: the application
          lpTags, lpHops, \* its tags, and HopCountTag: none is LpNoHops
          lpMarked,    \* it was marked as congested somewhere on the way
          lpDropped    \* "no", "ignored" or "invalid" (nInNetInvalid)

lpVars == <<lpKind, lpOptions, lpAt, lpTags, lpHops, lpMarked, lpDropped>>

LpNoHops == LpNodes + 2
FaceOptions == [local : BOOLEAN, selfLearning : BOOLEAN]

\* encodeLpFields of forwarder i; NextHopFaceId and CachePolicy are not sent on.
encodeLpFields_Copies(i) ==
  lpTags \ (IF lpOptions[i].tx.selfLearning THEN {} ELSE {"NonDiscovery", "PrefixAnnouncement"})
encodeLpFields(i) ==
  (lpTags \cap {"CongestionMark"})
  \cup (lpTags \cap IF lpOptions[i].tx.local THEN {"IncomingFaceId"} ELSE {})
  \cup (lpTags \cap IF lpOptions[i].tx.selfLearning THEN {"NonDiscovery", "PrefixAnnouncement"}
                    ELSE {})

\* The three decoders: what is refused, and what becomes a tag.  IncomingFaceId
\* is always ignored.
Refused(kind, fields, o) ==
  CASE kind = "Interest" /\ "NextHopFaceId" \in fields /\ ~o.local -> "ignored"
    [] kind = "Interest" /\ fields \cap {"CachePolicy", "PrefixAnnouncement"} # {} -> "invalid"
    [] kind = "Data" /\ fields \cap {"NextHopFaceId", "NonDiscovery"} # {} -> "invalid"
    [] kind = "Nack" /\ fields \cap {"NextHopFaceId", "CachePolicy", "NonDiscovery",
                                     "PrefixAnnouncement"} # {} -> "invalid"
    [] OTHER -> "no"
Decoded(kind, fields, o) ==
  fields \cap ({"CongestionMark", "NextHopFaceId", "CachePolicy"}
               \cup IF o.selfLearning THEN {"NonDiscovery", "PrefixAnnouncement"} ELSE {})
HopsDecoded(kind, hops) == IF kind = "Nack" \/ hops = LpNoHops THEN LpNoHops ELSE hops + 1

\* One link: sent by the application or forwarder lpAt, perhaps marked by
\* checkCongestionLevel, received by the next.  The forwarder tags what it
\* receives with the face it came from.
CrossLink(mark) ==
  LET o == lpOptions[lpAt + 1].rx
      sent == (IF lpAt = 0 THEN lpTags ELSE encodeLpFields(lpAt))
              \cup (IF mark THEN {"CongestionMark"} ELSE {})
      hops == IF lpAt = 0 \/ lpHops # LpNoHops THEN lpHops ELSE 0
  IN /\ lpAt < LpNodes /\ lpDropped = "no"
     /\ lpDropped' = Refused(lpKind, sent, o)
     /\ lpTags' = Decoded(lpKind, sent, o) \cup {"IncomingFaceId"}
     /\ lpHops' = HopsDecoded(lpKind, hops)
     /\ lpMarked' = (lpMarked \/ mark)
     /\ lpAt' = lpAt + 1
     /\ UNCHANGED <<lpKind, lpOptions>>

LpInit ==
  /\ lpKind \in {"Interest", "Data", "Nack"}
  /\ lpOptions \in [1..LpNodes -> [rx : FaceOptions, tx : FaceOptions]]
  /\ lpTags \in LpAppFields
  /\ lpMarked = ("CongestionMark" \in lpTags)
  /\ lpAt = 0 /\ lpHops = LpNoHops /\ lpDropped = "no"
LpNext == \E mark \in BOOLEAN : CrossLink(mark)

Here == lpAt > 0 /\ lpDropped = "no"

\* Link fields stay right over any hops and options.  HopCount counts the links
\* between forwarders.  A congestion mark set anywhere on the way is still there.
\* Self-learning fields arrive only if every face on the way allows them.  What a
\* forwarder accepted and sends on, the next one accepts: encodeLpFields leaves
\* out what decoding would refuse.
FieldsSurviveHops ==
  /\ lpDropped # "no" => lpAt = 1
  /\ Here /\ lpKind # "Nack" => lpHops = IF lpAt = 1 THEN LpNoHops ELSE lpAt - 1
  /\ Here /\ lpMarked => "CongestionMark" \in lpTags
  /\ Here /\ lpTags \cap {"NonDiscovery", "PrefixAnnouncement"} # {} =>
       /\ \A i \in 1..lpAt : lpOptions[i].rx.selfLearning
       /\ \A i \in 1..(lpAt - 1) : lpOptions[i].tx.selfLearning
=============================================================================
