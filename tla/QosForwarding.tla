--------------------------- MODULE QosForwarding ---------------------------
(***************************************************************************)
(* The forwarding pipelines with QosStrategy, which does not send at once: *)
(* a packet waits in the queue of its outgoing face and leaves in some     *)
(* later call of prioritySend.  The queue item keeps a shared_ptr to the   *)
(* PIT entry, which may be erased meanwhile; live says whether it is still *)
(* the table's entry.                                                      *)
(*                                                                         *)
(* A call of prioritySend takes any number of packets from the head of     *)
(* each queue: QosTransmit implements PolicedLanes, which promises no more *)
(* about when a packet leaves.  One level stands for all.  Faces without a *)
(* device are not served.                                                  *)
(***************************************************************************)
EXTENDS Forwarder, Sequences

CONSTANTS DeviceFace,  \* faces over a NetDeviceTransport
          QueueSize    \* QUEUE_SIZE

ASSUME QueueAssumption == DeviceFace \subseteq Face /\ QueueSize \in Nat

VARIABLES lane,     \* the queue items of each face
          late,     \* an Interest was sent after its entry was erased (history)
          balance,  \* accepted Interests less Data sent, per face (history)
          repeated  \* Data received for satisfied entries (history)

qvars == <<vars, lane, late, balance, repeated>>

\* QueueItem: an Interest with its nonce and lifetime, or Data.
InterestItem(k, n, life) ==
  [kind |-> "interest", key |-> k, nonce |-> n, life |-> life, live |-> TRUE]
DataItem(k) == [kind |-> "data", key |-> k, live |-> TRUE]

QosInit ==
  /\ Init
  /\ lane = [f \in Face |-> <<>>]
  /\ late = FALSE /\ balance = [f \in Face |-> 0] /\ repeated = 0

HasRoom(f) == Len(lane[f]) < QueueSize
Enqueue(item, U) == [f \in Face |-> IF f \in U /\ HasRoom(f) THEN Append(lane[f], item) ELSE lane[f]]

\* How many packets of the queues L leave in one call of prioritySend.
Departures(L) ==
  {c \in [Face -> 0..Max({Len(L[f]) : f \in Face})] :
     \A f \in Face : c[f] <= Len(L[f]) /\ (f \notin DeviceFace => c[f] = 0)}
Sent(L, c) == [f \in Face |-> SubSeq(L[f], 1, c[f])]

\* Mutant: the head is sent but not removed.
KeptWithHead(L, c) ==
  [f \in Face |-> SubSeq(L[f], IF c[f] = 0 THEN 1 ELSE c[f], Len(L[f]))]

Kept(L, c) == [f \in Face |-> SubSeq(L[f], c[f] + 1, Len(L[f]))]

\* The positions of the items in s that are of this kind, for entry k itself.
Positions(s, kind, k) == {i \in DOMAIN s : s[i].kind = kind /\ s[i].key = k /\ s[i].live}

\* Entry e of k once the packets S left: an out-record per upstream, for the
\* last Interest sent to it, and no in-record for a face that got Data.
EntryAfterSend(e, k, S) ==
  LET U == {f \in Face : Positions(S[f], "interest", k) # {}}
      D == {f \in Face : Positions(S[f], "data", k) # {}}
      last(f) == S[f][Max(Positions(S[f], "interest", k))]
  IN  [e EXCEPT !.inr = Restrict(@, DOMAIN @ \ D),
                !.outr = [f \in DOMAIN @ \cup U |->
                  IF f \in U THEN [nonce |-> last(f).nonce, expiry |-> now + last(f).life,
                                   nacked |-> f \in DOMAIN @ /\ @[f].nacked]
                             ELSE @[f]]]

PitAfterSend(p, S) == [k \in DOMAIN p |-> EntryAfterSend(p[k], k, S)]

Count(s, kind) == Cardinality({i \in DOMAIN s : s[i].kind = kind})

\* prioritySend sends c packets of the queues L, after an Interest of the
\* faces in A was accepted.  What it does to the PIT is PitAfterSend.
PrioritySend(L, c, A) ==
  LET S == Sent(L, c)
  IN  /\ lane' = Kept(L, c)
      /\ late' = (late \/ \E f \in Face : \E i \in DOMAIN S[f] :
                            S[f][i].kind = "interest" /\ ~S[f][i].live)
      /\ balance' = [f \in Face |-> balance[f] + (IF f \in A THEN 1 ELSE 0) - Count(S[f], "data")]

\* Mutant: an Interest counts as forwarded although every queue dropped it.
TakenIfChosen(U) == U # {}

\* forwarded: some queue of the chosen upstreams takes the Interest.
Taken(U) == \E u \in U : HasRoom(u)

\* afterReceiveInterest of a typed Interest chooses the upstreams U.  If some
\* queue took it the entry waits.  Otherwise it is rejected, with a Nack for
\* want of a next hop, unless an earlier transmission suppresses this one.
QosInterest(f, k, n, life, U) ==
  LET L == Enqueue(InterestItem(k, n, life), U)
      sent(c) == PitAfterSend(Put(pit, k, EntryAfterMiss(f, k, n, life)), Sent(L, c))
  IN  /\ InterestAccepted(f, k, n) /\ now + life <= MaxTime /\ U \subseteq Forwardable(f, k)
      /\ \E c \in Departures(L) :
           /\ PrioritySend(L, c, {f})
           /\ \/ /\ Taken(U) \/ DOMAIN sent(c)[k].outr # {}
                 /\ pit' = sent(c)
              \/ /\ ~Taken(U)
                 /\ \E D \in {{}, {f}} :
                      /\ D # {} => U = {}
                      /\ pit' = Put(sent(c), k, [NackTo(sent(c)[k], D) EXCEPT !.timer = now])
      /\ UNCHANGED <<dnl, cs, repeated>>

Repeats(d) == IF \E k \in MatchedBy(d) : pit[k].satisfied THEN repeated + 1 ELSE repeated

\* onIncomingData for one entry: afterReceiveData queues the Data for the
\* pending downstreams, whose in-records stay until it is sent.
QosData(f, d, k) ==
  LET L == Enqueue(DataItem(k), PendingDownstreams(pit[k], f, now))
  IN  /\ Receive(f) /\ ~ViolatesLocalhost(f, d) /\ MatchedBy(d) = {k}
      /\ \E c \in Departures(L) :
           LET p == PitAfterSend(pit, Sent(L, c))
               e == [p[k] EXCEPT !.timer = now, !.satisfied = TRUE, !.stale = d \in StaleData]
           IN  /\ PrioritySend(L, c, {})
               /\ pit' = Put(p, k, deleteOutRecord(e, f))
               /\ dnl' = dnl \cup DeadNonces(k, e, {f})
      /\ cs' = cs \cup {d}
      /\ repeated' = Repeats(d)
      /\ UNCHANGED <<faces, now>>

\* Data for several entries does not go through the queues.
QosDataMany(f, d) ==
  /\ Cardinality(MatchedBy(d)) > 1 /\ IncomingData(f, d)
  /\ balance' = [g \in Face |-> IF g \in DataTo(f, d) THEN balance[g] - 1 ELSE balance[g]]
  /\ repeated' = Repeats(d)
  /\ UNCHANGED <<lane, late>>

\* A token bucket's send signal.
Wake ==
  /\ \E c \in Departures(lane) : PrioritySend(lane, c, {}) /\ pit' = PitAfterSend(pit, Sent(lane, c))
  /\ UNCHANGED <<faces, dnl, cs, now, received, repeated>>

\* The entry leaves the table; queue items keep the object.
QosFinalize(k) ==
  /\ InterestFinalize(k)
  /\ lane' = [f \in Face |-> [i \in DOMAIN lane[f] |->
                IF lane[f][i].key = k THEN [lane[f][i] EXCEPT !.live = FALSE] ELSE lane[f][i]]]
  /\ UNCHANGED <<late, balance, repeated>>

\* The pipelines the strategy has no part in; afterReceiveNack returns at once
\* and a Content Store hit is answered directly.
QosOther ==
  /\ \/ \E f \in Face, k \in Key, n \in Nonce :
          \/ InterestDropped(f, k, n)
          \/ \E d \in Data : ContentStoreHit(f, k, n, d)
          \/ IncomingNack(f, k, n, {})
     \/ \E f \in Face, d \in Data : DataUnsolicited(f, d)
     \/ Tick
  /\ UNCHANGED <<lane, late, balance, repeated>>

QosNext ==
  \/ \E f \in Face, k \in Key, n \in Nonce, life \in Lifetime, U \in SUBSET Face :
       QosInterest(f, k, n, life, U)
  \/ \E f \in Face, d \in Data : QosDataMany(f, d) \/ \E k \in Key : QosData(f, d, k)
  \/ Wake
  \/ \E k \in Key : QosFinalize(k)
  \/ QosOther

QosSpec == QosInit /\ [][QosNext]_qvars

\* The scheduler runs due timers and time passes; nothing is assumed of Wake.
QosDue == now < MaxTime \/ \E k \in DOMAIN pit : pit[k].timer = now
QosDueStep == Tick \/ \E k \in Key : QosFinalize(k)
QosFairSpec == QosSpec /\ ([]<>~QosDue \/ []<><<QosDueStep>>_qvars)

(* A downstream gets more Data than it sent Interests only when a second    *)
(* Data meets the satisfied entry before onInterestFinalize erases it:      *)
(* afterReceiveData has queued the first and left the in-record in place.   *)
SurplusDataIsRepeated == \A f \in Face : balance[f] + repeated >= 0

(* Nothing waits for nothing: while an entry is neither satisfied nor about *)
(* to be erased, QosStrategy has sent its Interest or has it queued.        *)
NothingHangs ==
  \A k \in DOMAIN pit :
    ~pit[k].satisfied /\ pit[k].timer > now =>
      \/ DOMAIN pit[k].outr # {}
      \/ \E f \in Face : Positions(lane[f], "interest", k) # {}

(* "invoke sendInterest for each upstream, either now or shortly after via  *)
(* a scheduler event, but before PIT entry expires" (strategy.hpp:128): no  *)
(* Interest leaves its queue after its entry was erased.                    *)
SentBeforeExpiry == ~late
=============================================================================
