---------------------------- MODULE QosTransmit ----------------------------
(***************************************************************************)
(* The transmit side of QosStrategy (daemon/fw/qos-strategy.cpp): packets  *)
(* are queued per outgoing face and priority level and leave in            *)
(* prioritySend, which spends tokens of the level's bucket, looks at the   *)
(* length of the face's device queue, and records in m_need what it waits  *)
(* for.  prioritySend runs at the end of every packet handler and whenever *)
(* a bucket's addToken raises send().                                      *)
(*                                                                         *)
(* The daemon is single-threaded: a handler runs to its end before the     *)
(* next event.  A handler therefore starts one or more passes, and no      *)
(* other handler is enabled until the passes are over (Idle).  The steps   *)
(* of a pass are the iterations of prioritySend's two loops.  The order in *)
(* which the unordered_map m_tx_queue is walked is left open.              *)
(***************************************************************************)
EXTENDS QosQueues, FiniteSets

CONSTANTS DeviceFace,    \* the faces over a NetDeviceTransport
          Capacity,      \* m_capacity of each level's bucket
          DeviceLimit,   \* 25: no sending into a longer device queue
          NoFace,        \* no face is being visited
          MaxArrivals,   \* bound on the number of packets (model checking)
          MaxTime        \* bound on the clock (model checking)

ASSUME FacesAssumption == DeviceFace \subseteq Face /\ NoFace \notin Face
ASSUME CapacityAssumption == Capacity \in [Level -> Nat]
ASSUME LimitAssumption == DeviceLimit \in Nat
ASSUME BoundsAssumption == MaxArrivals \in Nat /\ MaxTime \in Nat

VARIABLES txq,        \* m_tx_queue, an empty queue where there is no entry
          bucket,     \* the level's token bucket
          device,     \* packets in the face's device queue (ns-3)
          now,        \* Simulator::Now()
          arrived,    \* packets received so far
          passes,     \* prioritySend calls the running handler still makes
          todo,       \* faces the current call has not visited yet
          cur,        \* the face it is at
          rate,       \* its local count for that face
          tokenwait   \* its local flag; keeps its last value between calls

passVars == <<passes, todo, cur, rate, tokenwait>>
vars == <<txq, bucket, device, now, arrived, passVars>>

\* The types of the variables; a token count stays between 0 and m_capacity.
TypeOK ==
  /\ txq \in [Face -> TxQueue]
  /\ DOMAIN bucket = Level /\ \A l \in Level : bucket[l] \in Bucket(Capacity[l])
  /\ device \in [Face -> Nat]
  /\ now \in Nat /\ arrived \in Nat
  /\ passes \in 0..2 /\ todo \in SUBSET Face /\ cur \in Face \cup {NoFace}
  /\ rate \in Nat /\ tokenwait \in BOOLEAN

Idle == passes = 0
Backlogged(q) == {f \in Face : ~IsEmpty(q[f])}

\* The start of n consecutive calls of prioritySend over the queues q.  Faces
\* with nothing queued are skipped: a visit to them changes nothing.
BeginPasses(n, q) ==
  /\ passes' = n
  /\ todo' = Backlogged(q)
  /\ tokenwait' = FALSE

Init ==
  /\ txq = [f \in Face |-> NewTxQueue]
  /\ bucket = [l \in Level |-> NewBucket(Capacity[l])]
  /\ device = [f \in Face |-> 0]
  /\ now = 0 /\ arrived = 0
  /\ passes = 0 /\ todo = {} /\ cur = NoFace /\ rate = 0 /\ tokenwait = FALSE

\* DoEnqueue of p at level l on the queues of the faces in out.
EnqueueAll(p, l, out) ==
  [f \in Face |-> IF f \in out THEN DoEnqueue(txq[f], p, l, now) ELSE txq[f]]

\* afterReceiveInterest of a typed Interest, for any set of chosen upstreams:
\* it enqueues, sends, and sends once more unless nothing was accepted or the
\* retransmission suppression of the PIT entry returns early.
AfterReceiveInterest(p, l, out) ==
  /\ Idle /\ arrived < MaxArrivals
  /\ arrived' = arrived + 1
  /\ txq' = EnqueueAll(p, l, out)
  /\ \E n \in IF \E f \in out : HasRoom(txq[f], l) THEN {1, 2} ELSE {1} :
       BeginPasses(n, txq')
  /\ UNCHANGED <<bucket, device, now, cur, rate>>

\* afterReceiveData towards the pending downstreams out.
AfterReceiveData(p, l, out) ==
  /\ Idle /\ arrived < MaxArrivals
  /\ arrived' = arrived + 1
  /\ txq' = EnqueueAll(p, l, out)
  /\ BeginPasses(1, txq')
  /\ UNCHANGED <<bucket, device, now, cur, rate>>

\* The token driver fills the bucket of level l, whose send signal runs
\* prioritySend.
DriverTick(l) ==
  /\ Idle
  /\ bucket' = [bucket EXCEPT ![l] = AddToken(@, Capacity[l])]
  /\ IF CallsSend(bucket'[l])
       THEN BeginPasses(1, txq)
       ELSE UNCHANGED <<passes, todo, tokenwait>>
  /\ UNCHANGED <<txq, device, now, arrived, cur, rate>>

\* The device of f puts a packet on the wire.
DeviceDrain(f) ==
  /\ Idle /\ device[f] > 0
  /\ device' = [device EXCEPT ![f] = @ - 1]
  /\ UNCHANGED <<txq, bucket, now, arrived, passVars>>

Tick ==
  /\ Idle /\ now < MaxTime
  /\ now' = now + 1
  /\ UNCHANGED <<txq, bucket, device, arrived, passVars>>

\* The outer loop of prioritySend moves to f and reads its device queue; a
\* face without a device counts as full.
VisitFace(f) ==
  /\ ~Idle /\ cur = NoFace /\ f \in todo
  /\ cur' = f
  /\ todo' = todo \ {f}
  /\ rate' = IF f \in DeviceFace THEN device[f] ELSE DeviceLimit
  /\ UNCHANGED <<txq, bucket, device, now, arrived, passes, tokenwait>>

\* The condition of the inner loop.
MayServe == cur # NoFace /\ ~IsEmpty(txq[cur]) /\ ~tokenwait /\ rate < DeviceLimit

TokensOf(f) == [l \in Level |-> bucket[l].tokens[f]]
Choice == SelectQueueToSend(txq[cur], TokensOf(cur))

\* A transmission spends a token and clears the need of its level.
BucketAfterSend(l) == SetNeed(ConsumeToken(bucket[l], cur), cur, 0)

\* One iteration of the inner loop that sends.  A packet sent into an idle
\* device goes to the wire at once, otherwise it joins the device queue.
SendOne ==
  /\ ~Idle /\ MayServe /\ Choice # NoLevel
  /\ bucket' = [bucket EXCEPT ![Choice] = BucketAfterSend(Choice)]
  /\ txq' = [txq EXCEPT ![cur] = DoDequeue(@, Choice)]
  /\ rate' = rate + 1
  /\ \E d \in IF device[cur] = 0 THEN {0, 1} ELSE {device[cur] + 1} :
       device' = [device EXCEPT ![cur] = d]
  /\ UNCHANGED <<now, arrived, passes, todo, cur, tokenwait>>

\* Mutant: only the highest backlogged level asks to be woken.
NeedAtFirstOnly(l) ==
  IF \A m \in 0..l - 1 : txq[cur].items[m] = <<>> THEN tokenReq(txq[cur], l) ELSE 0

\* What the waiting face asks of the bucket of level l.
NeedAt(l) == tokenReq(txq[cur], l)

\* The iteration that finds no level with a token: every bucket is told what
\* the face needs, and the flag ends the service of all faces of this call.
WaitForTokens ==
  /\ ~Idle /\ MayServe /\ Choice = NoLevel
  /\ bucket' = [l \in Level |-> SetNeed(bucket[l], cur, NeedAt(l))]
  /\ tokenwait' = TRUE
  /\ UNCHANGED <<txq, device, now, arrived, passes, todo, cur, rate>>

\* itt++
LeaveFace ==
  /\ ~Idle /\ cur # NoFace /\ ~MayServe
  /\ cur' = NoFace
  /\ UNCHANGED <<txq, bucket, device, now, arrived, passes, todo, rate, tokenwait>>

\* prioritySend returns; the handler may call it again.
EndPass ==
  /\ ~Idle /\ cur = NoFace /\ todo = {}
  /\ IF passes = 1 THEN passes' = 0 /\ UNCHANGED <<todo, tokenwait>>
                   ELSE BeginPasses(passes - 1, txq)
  /\ UNCHANGED <<txq, bucket, device, now, arrived, cur, rate>>

PassStep == (\E f \in Face : VisitFace(f)) \/ SendOne \/ WaitForTokens \/ LeaveFace \/ EndPass

Next ==
  \/ \E p \in Packet, l \in Level, out \in SUBSET Face :
       AfterReceiveInterest(p, l, out) \/ AfterReceiveData(p, l, out)
  \/ \E l \in Level : DriverTick(l)
  \/ \E f \in Face : DeviceDrain(f)
  \/ Tick
  \/ PassStep

Spec == Init /\ [][Next]_vars

\* A handler runs to its end, devices transmit, and the driver fills a bucket
\* until it reports that it is at capacity (noLongerAtCapacity restarts it).
Fairness ==
  /\ WF_vars(PassStep)
  /\ \A f \in Face : WF_vars(DeviceDrain(f))
  /\ \A l \in Level : WF_vars(DriverTick(l) /\ ~bucket[l].atCapacity)

FairSpec == Spec /\ Fairness

(* Where devices never fill up, a backlog is sent once arrivals stop: the   *)
(* wake-ups of addToken reach every face behind the waiting ones.           *)
BacklogDrains == \A f \in DeviceFace : ~IsEmpty(txq[f]) ~> IsEmpty(txq[f])
=============================================================================
