---------------------------- MODULE LpReliability ----------------------------
(***************************************************************************)
(* One end of an NDNLPv2 link: LpFragmenter (daemon/face/lp-fragmenter.cpp *)
(* on sizes), LpReliability (lp-reliability.cpp) and the sendLpPacket of   *)
(* its GenericLinkService, through which acknowledgements leave.           *)
(*                                                                         *)
(* An endpoint is a record; a handler is an operator from endpoint to      *)
(* endpoint, and what it hands to the transport is appended to out.  A     *)
(* fragment is <<packet, index, reliability was on>>.                      *)
(* TxSequence numbers are taken modulo TxSeqMod (2^64 in the code).        *)
(***************************************************************************)
EXTENDS Integers, FiniteSetsExt, SequencesExt, Functions, TLC

CONSTANTS MaxSingleFragOverhead, \* MAX_SINGLE_FRAG_OVERHEAD
          MaxFragOverhead,       \* MAX_FRAG_OVERHEAD
          WholeOverhead,         \* the LpPacket and Fragment headers of an uncut packet
          LpHeaderSize,          \* the other NDNLPv2 headers, on the first fragment
          NMaxFragments          \* Options::nMaxFragments

CONSTANTS TxSeqMod,            \* lp::Sequence is unsigned: arithmetic wraps here
          MaxRetx,             \* Options::maxRetx
          SeqNumLossThreshold, \* Options::seqNumLossThreshold
          LinkMtu,             \* the transport's MTU
          AckSize,             \* an Ack field
          TxSeqSize,           \* RESERVED_HEADER_SPACE, a TxSequence field
          MarkReserve,         \* CONGESTION_MARK_SIZE, reserved for one
          MarkSize,            \* a CongestionMark field as encoded
          NetPktSize           \* the size of each network packet

\* What the code's constants satisfy (30 and 50 octets; at most 8 for the two
\* headers): adding the fragmentation fields costs more than leaving them out.
ASSUME OverheadAssumption ==
  /\ {MaxSingleFragOverhead, MaxFragOverhead, WholeOverhead, LpHeaderSize} \subseteq Nat
  /\ MaxSingleFragOverhead + WholeOverhead <= MaxFragOverhead
  /\ NMaxFragments \in Nat \ {0}

ASSUME LpAssumption == /\ MaxRetx \in Nat /\ SeqNumLossThreshold \in Nat \ {0}
                       /\ TxSeqMod \in Nat \ {0, 1}
                       /\ AckSize + MarkSize <= LinkMtu

\* LpFragmenter::fragmentPacket: the sizes of the payloads, in order; none when
\* fragmentation fails.  Sizes are octets in a coarser unit.  An uncut packet is
\* one payload and carries no FragIndex.
FitsWhole(size, mtu) == MaxSingleFragOverhead + WholeOverhead + LpHeaderSize + size <= mtu

fragmentPacket(size, mtu) ==
  LET payload == mtu - MaxFragOverhead
      first == Min({size, payload - LpHeaderSize})
      rest == size - first
      count == 1 + rest \div payload + (IF rest % payload # 0 THEN 1 ELSE 0)
  IN IF FitsWhole(size, mtu) THEN <<size>>
     ELSE IF payload - LpHeaderSize < 1 THEN <<>>        \* MTU too small
     ELSE IF count > NMaxFragments THEN <<>>             \* FragCount over limit
     ELSE [i \in 1..count |-> IF i = 1 THEN first
                              ELSE Min({payload, rest - (i - 2) * payload})]

\* What fragment i of n carries besides its payload.
FragOverhead(i, n) == (IF n = 1 THEN MaxSingleFragOverhead ELSE MaxFragOverhead)
                      + (IF i = 1 THEN LpHeaderSize ELSE 0)

EndOfMap == TxSeqMod          \* m_unackedFrags.end()
NoFragment == <<>>            \* an IDLE packet has no Fragment field

\* UnackedFrag, stored with its rtoTimer running.
UnackedFrag(f, n) == [frag |-> f, retxCount |-> n, rtoTimer |-> TRUE, nGreaterSeqAcks |-> 0]

\* A new endpoint; lastTxSeqNo stands for a link that has sent before.
NewEndpoint(lastTxSeqNo, isEnabled) ==
  [ unacked |-> << >>, first |-> EndOfMap, last |-> lastTxSeqNo,
    netPkts |-> << >>, ackQueue |-> <<>>, idleTimer |-> FALSE, enabled |-> isEnabled,
    nAcknowledged |-> {}, nRetransmitted |-> {}, nRetxExhausted |-> {}, dropped |-> <<>>,
    nOutOverMtu |-> 0, mark |-> FALSE, fault |-> FALSE, out |-> <<>> ]

Keys(e) == DOMAIN e.unacked

\* The fragments of packet p, cut so that the feature fields still fit
\* (sendNetPacket), and the size of an LpPacket.
Payloads(p, isEnabled) ==
  fragmentPacket(NetPktSize[p],
                 LinkMtu - (IF isEnabled THEN TxSeqSize ELSE 0) - MarkReserve)
FragSize(f) == LET ps == Payloads(f[1], f[3])
               IN ps[f[2]] + FragOverhead(f[2], Len(ps))
LpSize(p) == (IF p.frag = NoFragment THEN 0 ELSE FragSize(p.frag))
             + (IF p.tx = EndOfMap THEN 0 ELSE TxSeqSize)
             + AckSize * Len(p.acks) + (IF p.mark THEN MarkSize ELSE 0)

\* piggyback: as many queued Acks as the MTU leaves room for.
piggyback(e, p) ==
  LET room == (LinkMtu - LpSize(p)) \div AckSize
      n == IF room < Len(e.ackQueue) THEN Max({room, 0}) ELSE Len(e.ackQueue)
  IN IF e.enabled THEN n ELSE 0

\* GenericLinkService::sendLpPacket: Acks, then the congestion mark, then the
\* size is checked; what has outgrown the MTU is dropped, Acks and all.
sendChecked(e, p) ==
  IF LpSize(p) > LinkMtu THEN [e EXCEPT !.nOutOverMtu = 1] ELSE [e EXCEPT !.out = Append(@, p)]
sendWithAcks(e, p, n) ==
  sendChecked([e EXCEPT !.ackQueue = SubSeq(@, n + 1, Len(@))],
              [p EXCEPT !.acks = SubSeq(e.ackQueue, 1, n), !.mark = e.mark])
sendLpPacket(e, p) == sendWithAcks(e, p, piggyback(e, p))

LpPacket(f, tx) == [frag |-> f, tx |-> tx, acks |-> <<>>, mark |-> FALSE]

\* assignTxSequence, with the length_error it throws when the window is full.
assignTxSequence(e) ==
  LET tx == (e.last + 1) % TxSeqMod
  IN [e EXCEPT !.last = tx, !.fault = @ \/ (Keys(e) # {} /\ tx = e.first)]

\* deleteUnackedFrag: the window's start moves to the next key of the map, or
\* round to its first one.
deleteUnackedFrag(e, s) ==
  LET keys == Keys(e) \ {s}
      above == {k \in keys : k > s}
  IN [e EXCEPT !.unacked = Restrict(@, keys),
               !.first = IF keys = {} THEN EndOfMap
                         ELSE IF @ # s THEN @
                         ELSE IF above # {} THEN Min(above) ELSE Min(keys)]

\* handleOutgoing for one fragment: number it, store it, note it in its NetPkt.
storeFragment(e, f) ==
  LET d == assignTxSequence(e)
  IN [d EXCEPT !.unacked = (d.last :> UnackedFrag(f, 0)) @@ @,
               !.first = IF Keys(d) \subseteq {d.last} THEN d.last ELSE @,
               !.netPkts[f[1]].unackedFrags = Append(@, d.last)]
handleOutgoing(e, frags, isInterest) ==
  LET p == Head(frags)[1]
      netPkt == [unackedFrags |-> <<>>, isInterest |-> isInterest, didRetx |-> FALSE]
  IN FoldLeft(storeFragment, [e EXCEPT !.netPkts = (p :> netPkt) @@ @], frags)

\* onLpPacketLost: give the network packet up after maxRetx, or send the
\* fragment again under a new number.
GiveUp(e, s) ==
  LET p == e.unacked[s].frag[1]
      all == ToSet(e.netPkts[p].unackedFrags)
      d == FoldLeft(deleteUnackedFrag, e, SetToSeq(all \ {s}) \o <<s>>)
  IN [d EXCEPT !.nRetxExhausted = @ \cup {p},
               !.dropped = IF e.netPkts[p].isInterest THEN Append(@, p) ELSE @,
               !.netPkts = Restrict(@, DOMAIN @ \ {p})]
Retransmit_NoTimer(e, s) ==
  LET u == e.unacked[s]
      d == assignTxSequence(e)
      replace(q) == [i \in DOMAIN q |-> IF q[i] = s THEN d.last ELSE q[i]]
      moved == [d EXCEPT !.unacked = (d.last :> [u EXCEPT !.retxCount = @ + 1, !.rtoTimer = FALSE]) @@ @,
                         !.netPkts[u.frag[1]].unackedFrags = replace(@),
                         !.netPkts[u.frag[1]].didRetx = TRUE]
  IN sendLpPacket(deleteUnackedFrag(moved, s), LpPacket(u.frag, d.last))
Retransmit(e, s) ==
  LET u == e.unacked[s]
      d == assignTxSequence(e)
      replace(q) == [i \in DOMAIN q |-> IF q[i] = s THEN d.last ELSE q[i]]
      moved == [d EXCEPT !.unacked = (d.last :> UnackedFrag(u.frag, u.retxCount + 1)) @@ @,
                         !.netPkts[u.frag[1]].unackedFrags = replace(@),
                         !.netPkts[u.frag[1]].didRetx = TRUE]
  IN sendLpPacket(deleteUnackedFrag(moved, s), LpPacket(u.frag, d.last))
onLpPacketLost(e, s) ==
  IF s \notin Keys(e) THEN [e EXCEPT !.fault = TRUE]     \* BOOST_ASSERT
  ELSE IF e.unacked[s].retxCount >= MaxRetx THEN GiveUp(e, s)
  ELSE Retransmit(e, s)

\* findLostLpPackets: the entries from the window's start up to the
\* acknowledged one each saw one more greater Ack.
Passed(e, s) == {k \in Keys(e) : (k - e.first) % TxSeqMod < (s - e.first) % TxSeqMod}
CountGreaterAck(e, s) ==
  [e EXCEPT !.unacked = [k \in Keys(e) |->
     IF k \in Passed(e, s) THEN [@[k] EXCEPT !.nGreaterSeqAcks = @ + 1] ELSE @[k]]]
findLostLpPackets(e, s) ==
  LET older(a, b) == (a - e.first) % TxSeqMod < (b - e.first) % TxSeqMod
  IN SetToSortSeq({k \in Passed(e, s) :
                     e.unacked[k].nGreaterSeqAcks + 1 >= SeqNumLossThreshold}, older)

\* onLpPacketAcknowledged: the last acknowledged fragment completes its packet.
onLpPacketAcknowledged_FirstAck(e, s) ==
  LET p == e.unacked[s].frag[1]
      d == FoldLeft(deleteUnackedFrag, e, e.netPkts[p].unackedFrags)
  IN [d EXCEPT !.netPkts = Restrict(@, DOMAIN @ \ {p}), !.nAcknowledged = @ \cup {p}]
onLpPacketAcknowledged(e, s) ==
  LET p == e.unacked[s].frag[1]
      left == SelectSeq(e.netPkts[p].unackedFrags, LAMBDA k : k # s)
      didRetx == e.netPkts[p].didRetx
      d == deleteUnackedFrag(e, s)
  IN IF left # <<>> THEN [d EXCEPT !.netPkts[p].unackedFrags = left]
     ELSE [d EXCEPT !.netPkts = Restrict(@, DOMAIN @ \ {p}),
                    !.nRetransmitted = IF didRetx THEN @ \cup {p} ELSE @,
                    !.nAcknowledged = IF didRetx THEN @ ELSE @ \cup {p}]

\* One Ack of processIncomingPacket.  The lost fragments are listed before the
\* acknowledged one goes, and one that left with its network packet meanwhile
\* (removedLpPackets) is skipped.
processAck(e, s) ==
  LET lose(d, k) == IF k \in Keys(d) THEN onLpPacketLost(d, k) ELSE d
  IN IF s \notin Keys(e) THEN e
     ELSE FoldLeft(lose, onLpPacketAcknowledged(CountGreaterAck(e, s), s),
                   findLostLpPackets(e, s))

\* processIncomingPacket: the Acks of p, then the Ack p itself is owed.
oweAck(e, p) ==
  IF p.frag = NoFragment \/ p.tx = EndOfMap THEN e
  ELSE [e EXCEPT !.ackQueue = Append(@, p.tx), !.idleTimer = TRUE]
processIncomingPacket(e, p) == oweAck(FoldLeft(processAck, e, p.acks), p)

\* The idle Ack timer: IDLE packets until the queue is empty.
idleAckTimer(e) ==
  LET sendIdle(d, i) == IF d.ackQueue = <<>> THEN d
                        ELSE sendLpPacket(d, LpPacket(NoFragment, EndOfMap))
  IN [FoldLeft(sendIdle, e, e.ackQueue) EXCEPT !.idleTimer = FALSE]

\* setOptions: disabling stops the idle Ack timer; nothing else is reset.
setOptions(e, isEnabled) ==
  [e EXCEPT !.enabled = isEnabled, !.idleTimer = @ /\ ~(e.enabled /\ ~isEnabled)]
==============================================================================
