----------------------------- MODULE QosQueues -----------------------------
(***************************************************************************)
(* The two data structures of the QoS strategy, as values.                 *)
(*                                                                         *)
(* A token bucket (daemon/fw/ndn-token-bucket) belongs to a priority level *)
(* and keeps a separate count for every face.  It is a record:             *)
(*   tokens      the count prioritySend reads for a face: the entry of     *)
(*               m_tokens, or m_capacity when the face has no entry;       *)
(*   known       the faces that have an entry in m_tokens;                 *)
(*   need        m_need, 0 where the code has no entry;                    *)
(*   atCapacity  m_atCapacity.                                             *)
(* Counts are doubles in the code but only ever move by 1.                 *)
(*                                                                         *)
(* The weighted-fair transmit queue of one face                            *)
(* (daemon/fw/ndn-priority-tx-queue and ndn-qos-queue) is a bounded FIFO   *)
(* per priority level, each with the virtual finish time of the packet     *)
(* that entered it last: a record [items, vft] of two functions over       *)
(* Level; level 0 is the highest priority.                                 *)
(***************************************************************************)
EXTENDS Integers, Sequences

CONSTANT Face

Bucket(cap) == [tokens : [Face -> 0..cap], known : SUBSET Face,
                need : [Face -> {0, 1}], atCapacity : BOOLEAN]

\* The constructor, once the driver has set m_capacity to cap.
NewBucket(cap) ==
  [tokens |-> [f \in Face |-> cap], known |-> {},
   need |-> [f \in Face |-> 0], atCapacity |-> FALSE]

\* Mutant: refills without looking at the capacity.
BelowCapacityUnchecked(b, cap) == b.known

\* The faces whose count the next addToken raises.
BelowCapacity(b, cap) == {f \in b.known : b.tokens[f] < cap}

\* addToken, without the send signal it may raise at its end.
AddToken(b, cap) ==
  [tokens |-> [f \in Face |-> IF f \in BelowCapacity(b, cap)
                                THEN b.tokens[f] + 1 ELSE b.tokens[f]],
   known |-> b.known, need |-> b.need, atCapacity |-> BelowCapacity(b, cap) = {}]

\* Mutant: the wake-up waits for one token more than is needed.
CallsSendLate(b) == \E f \in b.known : b.need[f] # 0 /\ b.tokens[f] > b.need[f]

\* addToken raises send() when the refilled count of some face covers its need.
CallsSend(b) == \E f \in b.known : b.need[f] # 0 /\ b.tokens[f] >= b.need[f]

\* consumeToken(1, f); the first use of a face creates its entry.
ConsumeToken(b, f) ==
  [tokens |-> [b.tokens EXCEPT ![f] = @ - 1], known |-> b.known \cup {f},
   need |-> b.need, atCapacity |-> FALSE]

\* Mutant: the request is also written to m_tokens.
SetNeedGrants(b, f, n) ==
  [tokens |-> [b.tokens EXCEPT ![f] = IF n = 0 THEN @ ELSE n], known |-> b.known,
   need |-> [b.need EXCEPT ![f] = n], atCapacity |-> b.atCapacity]

\* prioritySend writes m_need directly.
SetNeed(b, f, n) ==
  [tokens |-> b.tokens, known |-> b.known, need |-> [b.need EXCEPT ![f] = n],
   atCapacity |-> b.atCapacity]

-----------------------------------------------------------------------------
(* NdnPriorityTxQueue.                                                     *)

CONSTANTS NumLevels,   \* totalQueues
          QueueSize,   \* QUEUE_SIZE, the bound of one level
          Packet,      \* the queue items
          PacketSize   \* wireEncode.size() of each item

ASSUME LevelsAssumption == NumLevels \in Nat \ {0} /\ QueueSize \in Nat
ASSUME SizeAssumption == PacketSize \in [Packet -> Nat]

Level == 0..NumLevels - 1
NoLevel == -1

\* initialize gives level i the weight NumLevels - i.
Weight(l) == NumLevels - l
TotalWeight == (NumLevels * (NumLevels + 1)) \div 2

\* packet.size() * (1 - GetFlowRate(queue)), truncated as the code's uint64.
VirtualLength(p, l) == (PacketSize[p] * (TotalWeight - Weight(l))) \div TotalWeight

TxQueue == [items : [Level -> Seq(Packet)], vft : [Level -> Nat]]
NewTxQueue == [items |-> [l \in Level |-> <<>>], vft |-> [l \in Level |-> 0]]

IsEmpty(q) == \A l \in Level : q.items[l] = <<>>

\* Mutant: the bound of QosQueue::Enqueue is off by one.
HasRoomOffByOne(q, l) == Len(q.items[l]) <= QueueSize

HasRoom(q, l) == Len(q.items[l]) < QueueSize

\* UpdateTime
FinishTime(q, p, l, now) ==
  (IF now > q.vft[l] THEN now ELSE q.vft[l]) + VirtualLength(p, l)

\* DoEnqueue at time now; a full level rejects the packet.
DoEnqueue(q, p, l, now) ==
  IF HasRoom(q, l)
    THEN [items |-> [q.items EXCEPT ![l] = Append(@, p)],
          vft |-> [q.vft EXCEPT ![l] = FinishTime(q, p, l, now)]]
    ELSE q

DoDequeue(q, l) == [items |-> [q.items EXCEPT ![l] = Tail(@)], vft |-> q.vft]

\* The levels that have a packet and a token for it.
Sendable(q, tokens) == {l \in Level : q.items[l] # <<>> /\ tokens[l] >= 1}

\* SelectQueueToSend: the least finish time, the lowest index among equals.
SelectQueueToSend(q, tokens) ==
  LET S == Sendable(q, tokens)
  IN  IF S = {} THEN NoLevel
      ELSE CHOOSE l \in S :
             \A m \in S : q.vft[l] < q.vft[m] \/ (q.vft[l] = q.vft[m] /\ l <= m)

tokenReq(q, l) == IF q.items[l] # <<>> THEN 1 ELSE 0
=============================================================================
