------------------------- MODULE QosTransmitProofs -------------------------
(***************************************************************************)
(* Theorems about the transmit side of the QoS strategy, for every number  *)
(* of faces, levels and packets, every capacity and every queue size.      *)
(***************************************************************************)
EXTENDS QosTransmitProps, SequenceTheorems, WellFoundedInduction, TLAPS

(* The operators of QosQueues.                                             *)

\* A non-empty set of naturals has a least element.
LEMMA LeastNatural ==
  ASSUME NEW S \in SUBSET Nat, S # {}
  PROVE  \E x \in S : \A y \in S : x <= y
<1> DEFINE R == {ss \in Nat \X Nat : ss[1] < ss[2]}
<1>1. IsWellFoundedOn(R, Nat)
  BY NatLessThanWellFounded DEF OpToRel
<1>2. \A x, y \in Nat : <<y, x>> \notin R => x <= y
  OBVIOUS
<1> HIDE DEF R
<1>3. PICK x \in S : \A y \in S : ~(<<y, x>> \in R)
  BY Zenon, <1>1, WFMin
<1> QED BY Zenon, <1>2, <1>3

\* Level is a set of naturals.
LEMMA LevelIsNat == Level \subseteq Nat /\ NoLevel \notin Level
BY LevelsAssumption DEF Level, NoLevel

\* SelectQueueToSend finds a level whenever one is sendable, and what it
\* finds is sendable.
LEMMA SelectIsSendable ==
  ASSUME NEW q \in TxQueue, NEW tokens, Sendable(q, tokens) # {}
  PROVE  SelectQueueToSend(q, tokens) \in Sendable(q, tokens)
<1> DEFINE S == Sendable(q, tokens)
           V == {q.vft[l] : l \in S}
<1>1. S \subseteq Level /\ S # {}
  BY DEF Sendable
<1>2. q.vft \in [Level -> Nat]
  BY DEF TxQueue
<1>3. V \in SUBSET Nat /\ V # {}
  BY <1>1, <1>2
<1>4. PICK v \in V : \A w \in V : v <= w
  BY Zenon, <1>3, LeastNatural
<1> DEFINE M == {l \in S : q.vft[l] = v}
<1>5. M \in SUBSET Nat /\ M # {}
  BY Zenon, <1>1, <1>4, LevelIsNat
<1>6. PICK l \in M : \A m \in M : l <= m
  BY Zenon, <1>5, LeastNatural
<1>7. \A m \in S : q.vft[l] < q.vft[m] \/ (q.vft[l] = q.vft[m] /\ l <= m)
  <2> SUFFICES ASSUME NEW m \in S
               PROVE  q.vft[l] < q.vft[m] \/ (q.vft[l] = q.vft[m] /\ l <= m)
    OBVIOUS
  <2>1. q.vft[l] = v /\ v <= q.vft[m] /\ v \in Nat /\ q.vft[m] \in Nat
    BY <1>1, <1>2, <1>3, <1>4, <1>6
  <2>2. CASE q.vft[m] = v
    BY <2>1, <2>2, <1>6
  <2>3. CASE q.vft[m] # v
    BY <2>1, <2>3
  <2> QED BY <2>2, <2>3
<1> HIDE DEF S
<1>8. l \in S
  BY <1>6
<1> QED BY <1>1, <1>7, <1>8 DEF SelectQueueToSend, S

\* It answers NoLevel exactly when no level is sendable.
LEMMA SelectNoLevel ==
  ASSUME NEW q \in TxQueue, NEW tokens
  PROVE  SelectQueueToSend(q, tokens) = NoLevel <=> Sendable(q, tokens) = {}
<1>1. Sendable(q, tokens) \subseteq Level
  BY DEF Sendable
<1>2. CASE Sendable(q, tokens) = {}
  BY <1>2 DEF SelectQueueToSend
<1>3. CASE Sendable(q, tokens) # {}
  BY <1>1, <1>3, SelectIsSendable, LevelIsNat
<1> QED BY <1>2, <1>3

\* The share of a packet's size that enters the finish time is a natural.
LEMMA VirtualLengthType ==
  ASSUME NEW p \in Packet, NEW l \in Level
  PROVE  VirtualLength(p, l) \in Nat
<1>1. NumLevels \in Nat /\ NumLevels >= 1 /\ l \in 0..NumLevels - 1
  BY LevelsAssumption DEF Level
<1>2. NumLevels * (NumLevels + 1) \in Nat /\ NumLevels * (NumLevels + 1) >= 2 * NumLevels
  BY <1>1
<1>3. TotalWeight \in Nat /\ TotalWeight >= NumLevels
  <2> DEFINE n == NumLevels * (NumLevels + 1)
  <2>1. n \in Nat /\ n >= 2 * NumLevels
    BY <1>2
  <2> HIDE DEF n
  <2>2. n \div 2 \in Nat /\ n \div 2 >= NumLevels
    BY <2>1, <1>1
  <2> QED BY <2>2 DEF TotalWeight, n
<1>4. Weight(l) \in Nat /\ Weight(l) <= NumLevels
  BY <1>1 DEF Weight
<1>5. TotalWeight - Weight(l) \in Nat
  BY <1>1, <1>3, <1>4
<1>6. PacketSize[p] \in Nat
  BY SizeAssumption
<1>7. PacketSize[p] * (TotalWeight - Weight(l)) \in Nat
  BY <1>5, <1>6
<1>8. \A a \in Nat, b \in Nat \ {0} : a \div b \in Nat
  OBVIOUS
<1> QED BY <1>1, <1>3, <1>7, <1>8 DEF VirtualLength

\* A fresh queue is a queue, and stays one through DoEnqueue and DoDequeue.
LEMMA NewTxQueueType == NewTxQueue \in TxQueue
BY EmptySeq DEF NewTxQueue, TxQueue

\* What DoEnqueue does to a queue, field by field.
LEMMA DoEnqueueFields ==
  ASSUME NEW q \in TxQueue, NEW p \in Packet, NEW l \in Level, NEW t \in Nat
  PROVE  LET r == DoEnqueue(q, p, l, t)
         IN  /\ r \in TxQueue
             /\ \A m \in Level : r.items[m] =
                  IF m = l /\ HasRoom(q, l) THEN Append(q.items[l], p) ELSE q.items[m]
<1>1. q.items \in [Level -> Seq(Packet)] /\ q.vft \in [Level -> Nat]
  BY DEF TxQueue
<1>2. Append(q.items[l], p) \in Seq(Packet)
  BY <1>1, AppendProperties
<1>3. FinishTime(q, p, l, t) \in Nat
  <2>1. VirtualLength(p, l) \in Nat
    BY VirtualLengthType
  <2>2. q.vft[l] \in Nat
    BY <1>1
  <2> QED BY <2>1, <2>2 DEF FinishTime
<1>4. CASE HasRoom(q, l)
  <2>1. DoEnqueue(q, p, l, t) =
          [items |-> [q.items EXCEPT ![l] = Append(q.items[l], p)],
           vft |-> [q.vft EXCEPT ![l] = FinishTime(q, p, l, t)]]
    BY <1>4, <1>1 DEF DoEnqueue, TxQueue
  <2> QED BY <2>1, <1>1, <1>2, <1>3, <1>4 DEF TxQueue
<1>5. CASE ~HasRoom(q, l)
  BY <1>5 DEF DoEnqueue
<1> QED BY <1>4, <1>5

\* DoDequeue takes the head of one level.
LEMMA DoDequeueFields ==
  ASSUME NEW q \in TxQueue, NEW l \in Level, q.items[l] # <<>>
  PROVE  /\ DoDequeue(q, l) \in TxQueue
         /\ DoDequeue(q, l).items = [q.items EXCEPT ![l] = Tail(q.items[l])]
<1>1. q.items \in [Level -> Seq(Packet)] /\ q.vft \in [Level -> Nat]
  BY DEF TxQueue
<1>2. Tail(q.items[l]) \in Seq(Packet)
  BY <1>1, HeadTailProperties
<1>3. DoDequeue(q, l) =
        [items |-> [q.items EXCEPT ![l] = Tail(q.items[l])], vft |-> q.vft]
  BY <1>1 DEF DoDequeue, TxQueue
<1> QED BY <1>1, <1>2, <1>3 DEF TxQueue

\* A new bucket is a bucket, with m_capacity tokens for every face.
LEMMA NewBucketType ==
  ASSUME NEW c \in Nat
  PROVE  NewBucket(c) \in Bucket(c)
BY DEF NewBucket, Bucket

\* addToken adds at most one token per face, never past the capacity.
LEMMA AddTokenFields ==
  ASSUME NEW c \in Nat, NEW b \in Bucket(c)
  PROVE  /\ AddToken(b, c) \in Bucket(c)
         /\ AddToken(b, c).need = b.need /\ AddToken(b, c).known = b.known
         /\ \A f \in Face : AddToken(b, c).tokens[f] =
              IF f \in BelowCapacity(b, c) THEN b.tokens[f] + 1 ELSE b.tokens[f]
<1> DEFINE T == [f \in Face |-> IF f \in BelowCapacity(b, c)
                                  THEN b.tokens[f] + 1 ELSE b.tokens[f]]
<1>1. b.tokens \in [Face -> 0..c] /\ b.known \in SUBSET Face
        /\ b.need \in [Face -> {0, 1}]
  BY DEF Bucket
<1>2. T \in [Face -> 0..c]
  BY <1>1 DEF BelowCapacity
<1>3. AddToken(b, c) = [tokens |-> T, known |-> b.known, need |-> b.need,
                        atCapacity |-> BelowCapacity(b, c) = {}]
  BY DEF AddToken
<1> QED BY <1>1, <1>2, <1>3 DEF Bucket

\* consumeToken takes one token of one face and touches no need.
LEMMA ConsumeTokenFields ==
  ASSUME NEW c \in Nat, NEW b \in Bucket(c), NEW f \in Face, b.tokens[f] >= 1
  PROVE  LET r == SetNeed(ConsumeToken(b, f), f, 0)
         IN  /\ r \in Bucket(c)
             /\ r.tokens = [b.tokens EXCEPT ![f] = b.tokens[f] - 1]
             /\ r.need = [b.need EXCEPT ![f] = 0]
<1>1. b.tokens \in [Face -> 0..c] /\ b.known \in SUBSET Face
        /\ b.need \in [Face -> {0, 1}]
  BY DEF Bucket
<1>2. SetNeed(ConsumeToken(b, f), f, 0) =
        [tokens |-> [b.tokens EXCEPT ![f] = b.tokens[f] - 1],
         known |-> b.known \cup {f}, need |-> [b.need EXCEPT ![f] = 0],
         atCapacity |-> FALSE]
  BY DEF ConsumeToken, SetNeed
<1> DEFINE T == [b.tokens EXCEPT ![f] = b.tokens[f] - 1]
           N == [b.need EXCEPT ![f] = 0]
           A == FALSE
<1>3. T \in [Face -> 0..c]
  BY <1>1
<1>4. N \in [Face -> {0, 1}] /\ b.known \cup {f} \in SUBSET Face
  BY <1>1
<1>5. SetNeed(ConsumeToken(b, f), f, 0) =
        [tokens |-> T, known |-> b.known \cup {f}, need |-> N, atCapacity |-> A]
        /\ A \in BOOLEAN
  BY <1>2
<1> HIDE DEF T, N, A
<1>6. SetNeed(ConsumeToken(b, f), f, 0) \in Bucket(c)
  BY <1>3, <1>4, <1>5 DEF Bucket
<1>7. SetNeed(ConsumeToken(b, f), f, 0).tokens = T
        /\ SetNeed(ConsumeToken(b, f), f, 0).need = N
  BY <1>5
<1> QED BY <1>6, <1>7 DEF T, N

\* Writing m_need of one face changes nothing else in the bucket.
LEMMA SetNeedFields ==
  ASSUME NEW c \in Nat, NEW b \in Bucket(c), NEW f \in Face, NEW n, n = 0 \/ n = 1
  PROVE  /\ SetNeed(b, f, n) \in Bucket(c)
         /\ SetNeed(b, f, n).tokens = b.tokens
         /\ SetNeed(b, f, n).need = [b.need EXCEPT ![f] = n]
<1>1. b.tokens \in [Face -> 0..c] /\ b.known \in SUBSET Face
        /\ b.need \in [Face -> {0, 1}] /\ b.atCapacity \in BOOLEAN
  BY DEF Bucket
<1>2. SetNeed(b, f, n) = [tokens |-> b.tokens, known |-> b.known,
                          need |-> [b.need EXCEPT ![f] = n],
                          atCapacity |-> b.atCapacity]
  BY DEF SetNeed, Bucket
<1> QED BY <1>1, <1>2 DEF Bucket

-----------------------------------------------------------------------------
(* The steps of QosTransmit.                                                *)

\* Capacities are naturals.
LEMMA CapacityType == \A l \in Level : Capacity[l] \in Nat
BY CapacityAssumption

\* The queues after DoEnqueue on some faces.
LEMMA EnqueueAllType ==
  ASSUME TypeOK, NEW p \in Packet, NEW l \in Level, NEW out \in SUBSET Face
  PROVE  /\ EnqueueAll(p, l, out) \in [Face -> TxQueue]
         /\ \A f \in Face, m \in Level : EnqueueAll(p, l, out)[f].items[m] =
              IF f \in out /\ m = l /\ HasRoom(txq[f], l)
                THEN Append(txq[f].items[l], p) ELSE txq[f].items[m]
<1>1. txq \in [Face -> TxQueue] /\ now \in Nat
  BY DEF TypeOK
<1>2. \A f \in Face : txq[f] \in TxQueue
  BY <1>1
<1>3. \A f \in Face : /\ DoEnqueue(txq[f], p, l, now) \in TxQueue
                      /\ \A m \in Level : DoEnqueue(txq[f], p, l, now).items[m] =
                           IF m = l /\ HasRoom(txq[f], l)
                             THEN Append(txq[f].items[l], p) ELSE txq[f].items[m]
  BY Zenon, <1>1, <1>2, DoEnqueueFields
<1> QED BY <1>2, <1>3 DEF EnqueueAll

\* Where the inner loop of prioritySend sends, it is at a face, and the level
\* it chose has a packet and a token.
LEMMA ChoiceFacts ==
  ASSUME TypeOK, MayServe
  PROVE  /\ cur \in Face /\ txq[cur] \in TxQueue
         /\ Choice = NoLevel <=> Sendable(txq[cur], TokensOf(cur)) = {}
         /\ Choice # NoLevel =>
              Choice \in Level /\ txq[cur].items[Choice] # <<>>
                /\ bucket[Choice].tokens[cur] >= 1
<1>1. cur \in Face
  BY DEF TypeOK, MayServe
<1>2. txq[cur] \in TxQueue
  BY <1>1 DEF TypeOK
<1>3. Choice = NoLevel <=> Sendable(txq[cur], TokensOf(cur)) = {}
  BY <1>2, SelectNoLevel DEF Choice
<1>4. ASSUME Choice # NoLevel
      PROVE  Choice \in Level /\ txq[cur].items[Choice] # <<>>
               /\ bucket[Choice].tokens[cur] >= 1
  <2>1. Choice \in Sendable(txq[cur], TokensOf(cur))
    BY <1>2, <1>3, <1>4, SelectIsSendable DEF Choice
  <2> QED BY <2>1 DEF Sendable, TokensOf
<1> QED BY <1>1, <1>2, <1>3, <1>4

\* What one transmission does to the bucket of the chosen level.
LEMMA BucketAfterSendFields ==
  ASSUME TypeOK, MayServe, Choice # NoLevel
  PROVE  /\ BucketAfterSend(Choice) \in Bucket(Capacity[Choice])
         /\ BucketAfterSend(Choice).tokens =
              [bucket[Choice].tokens EXCEPT ![cur] = bucket[Choice].tokens[cur] - 1]
         /\ BucketAfterSend(Choice).need = [bucket[Choice].need EXCEPT ![cur] = 0]
<1>1. cur \in Face /\ Choice \in Level /\ bucket[Choice].tokens[cur] >= 1
  BY ChoiceFacts
<1>2. bucket[Choice] \in Bucket(Capacity[Choice]) /\ Capacity[Choice] \in Nat
  BY <1>1, CapacityType DEF TypeOK
<1> QED BY <1>1, <1>2, ConsumeTokenFields DEF BucketAfterSend

\* What a waiting face does to the bucket of a level.
LEMMA BucketAtWaitFields ==
  ASSUME TypeOK, MayServe, NEW l \in Level
  PROVE  /\ SetNeed(bucket[l], cur, NeedAt(l)) \in Bucket(Capacity[l])
         /\ SetNeed(bucket[l], cur, NeedAt(l)).tokens = bucket[l].tokens
         /\ SetNeed(bucket[l], cur, NeedAt(l)).need =
              [bucket[l].need EXCEPT ![cur] = NeedAt(l)]
<1>1. cur \in Face
  BY ChoiceFacts
<1>2. bucket[l] \in Bucket(Capacity[l]) /\ Capacity[l] \in Nat
  BY CapacityType DEF TypeOK
<1>3. NeedAt(l) = 0 \/ NeedAt(l) = 1
  BY DEF NeedAt, tokenReq
<1> QED BY <1>1, <1>2, <1>3, SetNeedFields

\* The initial state of the strategy is well typed.
LEMMA TypeInit == Init => TypeOK
<1> SUFFICES ASSUME Init PROVE TypeOK
  OBVIOUS
<1>1. txq \in [Face -> TxQueue]
  BY NewTxQueueType DEF Init
<1>2. DOMAIN bucket = Level /\ \A l \in Level : bucket[l] \in Bucket(Capacity[l])
  BY NewBucketType, CapacityType DEF Init
<1>3. device \in [Face -> Nat] /\ now \in Nat /\ arrived \in Nat
        /\ passes \in 0..2 /\ todo \in SUBSET Face
        /\ cur \in Face \cup {NoFace} /\ rate \in Nat
  BY DEF Init
<1>4. tokenwait \in BOOLEAN
  BY Zenon DEF Init
<1> QED BY <1>1, <1>2, <1>3, <1>4 DEF TypeOK

\* Every step of the strategy, the driver, the devices and the clock keeps
\* the types; in particular no token count leaves 0..m_capacity.
LEMMA TypeStep == TypeOK /\ [Next]_vars => TypeOK'
<1> SUFFICES ASSUME TypeOK, [Next]_vars PROVE TypeOK'
  OBVIOUS
<1> USE DEF TypeOK
<1>b. Backlogged(txq') \in SUBSET Face /\ Backlogged(txq) \in SUBSET Face
  BY DEF Backlogged
<1>1. ASSUME NEW p \in Packet, NEW l \in Level, NEW out \in SUBSET Face,
             AfterReceiveInterest(p, l, out) \/ AfterReceiveData(p, l, out)
      PROVE  TypeOK'
  <2>1. txq' \in [Face -> TxQueue]
    BY <1>1, EnqueueAllType DEF AfterReceiveInterest, AfterReceiveData
  <2>2. passes' \in 0..2 /\ todo' = Backlogged(txq')
    BY <1>1 DEF AfterReceiveInterest, AfterReceiveData, BeginPasses
  <2>4. tokenwait' \in BOOLEAN
    BY <1>1, Zenon DEF AfterReceiveInterest, AfterReceiveData, BeginPasses
  <2>3. arrived' \in Nat /\ UNCHANGED <<bucket, device, now, cur, rate>>
    BY <1>1 DEF AfterReceiveInterest, AfterReceiveData
  <2> QED BY <1>b, <2>1, <2>2, <2>3, <2>4
<1>2. ASSUME NEW l \in Level, DriverTick(l)
      PROVE  TypeOK'
  <2>1. AddToken(bucket[l], Capacity[l]) \in Bucket(Capacity[l])
    BY AddTokenFields, CapacityType
  <2>2. DOMAIN bucket' = Level /\ \A m \in Level : bucket'[m] \in Bucket(Capacity[m])
    BY <1>2, <2>1 DEF DriverTick
  <2>3. passes' \in 0..2 /\ todo' \in SUBSET Face
    BY <1>2, <1>b DEF DriverTick, BeginPasses
  <2>5. tokenwait' \in BOOLEAN
    BY <1>2, Zenon DEF DriverTick, BeginPasses
  <2>4. UNCHANGED <<txq, device, now, arrived, cur, rate>>
    BY <1>2 DEF DriverTick
  <2> QED BY <2>2, <2>3, <2>4, <2>5
<1>3. ASSUME NEW f \in Face, DeviceDrain(f)
      PROVE  TypeOK'
  <2>1. device' \in [Face -> Nat]
    BY <1>3 DEF DeviceDrain
  <2> QED BY <1>3, <2>1 DEF DeviceDrain, passVars
<1>4. CASE Tick
  BY <1>4 DEF Tick, passVars
<1>5. ASSUME NEW f \in Face, VisitFace(f)
      PROVE  TypeOK'
  BY <1>5, LimitAssumption DEF VisitFace
<1>6. CASE SendOne
  <2>1. MayServe /\ Choice # NoLevel
    BY <1>6 DEF SendOne
  <2>2. cur \in Face /\ Choice \in Level /\ txq[cur] \in TxQueue
          /\ txq[cur].items[Choice] # <<>>
    BY <2>1, ChoiceFacts
  <2>3. BucketAfterSend(Choice) \in Bucket(Capacity[Choice])
    BY <2>1, BucketAfterSendFields
  <2>4. DoDequeue(txq[cur], Choice) \in TxQueue
    BY Zenon, <2>2, DoDequeueFields
  <2>5. txq' \in [Face -> TxQueue]
    BY <1>6, <2>2, <2>4 DEF SendOne
  <2>6. DOMAIN bucket' = Level /\ \A m \in Level : bucket'[m] \in Bucket(Capacity[m])
    BY <1>6, <2>2, <2>3 DEF SendOne
  <2>7. device' \in [Face -> Nat] /\ rate' \in Nat
    BY <1>6, <2>2 DEF SendOne
  <2> QED BY <1>6, <2>5, <2>6, <2>7 DEF SendOne
<1>7. CASE WaitForTokens
  <2>1. MayServe
    BY <1>7 DEF WaitForTokens
  <2>2. \A l \in Level : SetNeed(bucket[l], cur, NeedAt(l)) \in Bucket(Capacity[l])
    BY Zenon, <2>1, BucketAtWaitFields
  <2>3. DOMAIN bucket' = Level /\ \A m \in Level : bucket'[m] \in Bucket(Capacity[m])
    BY <1>7, <2>2 DEF WaitForTokens
  <2> QED BY <1>7, <2>3 DEF WaitForTokens
<1>8. CASE LeaveFace
  BY <1>8 DEF LeaveFace
<1>9. CASE EndPass
  <2>1. passes' \in 0..2 /\ todo' \in SUBSET Face
    BY <1>9, <1>b DEF EndPass, BeginPasses, Idle
  <2>2. tokenwait' \in BOOLEAN
    BY <1>9, Zenon DEF EndPass, BeginPasses
  <2>3. UNCHANGED <<txq, bucket, device, now, arrived, cur, rate>>
    BY <1>9 DEF EndPass
  <2> QED BY <2>1, <2>2, <2>3
<1>10. CASE UNCHANGED vars
  BY <1>10 DEF vars, passVars
<1> QED
  BY <1>1, <1>2, <1>3, <1>4, <1>5, <1>6, <1>7, <1>8, <1>9, <1>10 DEF Next, PassStep

\* The transmit side is type correct: queues hold packets, and the token count
\* of every level and face stays between 0 and m_capacity.
THEOREM TypeCorrect == Spec => []TypeOK
<1>1. Init => TypeOK
  BY TypeInit
<1>2. TypeOK /\ [Next]_vars => TypeOK'
  BY TypeStep
<1> QED BY <1>1, <1>2, PTL DEF Spec

-----------------------------------------------------------------------------
\* The types of the history variables.
HistTypeOK ==
  /\ refills \in [Level -> Nat]
  /\ spent \in [Level -> [Face -> Nat]]
  /\ stalled \in SUBSET Face

\* The history variables only watch: every step with them is a step without.
LEMMA HistImpliesStep == [HistNext]_histVars => [Next]_vars
BY DEF HistNext, HistTick, HistSend, HistLeave, HistOther, Next, PassStep, histVars

\* The history variables start well typed.
LEMMA HistTypeInit == HistInit => TypeOK /\ HistTypeOK
<1> SUFFICES ASSUME HistInit PROVE TypeOK /\ HistTypeOK
  OBVIOUS
<1>1. TypeOK
  BY TypeInit DEF HistInit
<1> QED BY <1>1 DEF HistInit, HistTypeOK

\* The history variables stay well typed.
LEMMA HistTypeStep == TypeOK /\ HistTypeOK /\ [HistNext]_histVars => TypeOK' /\ HistTypeOK'
<1> SUFFICES ASSUME TypeOK, HistTypeOK, [HistNext]_histVars PROVE TypeOK' /\ HistTypeOK'
  OBVIOUS
<1>1. TypeOK'
  BY HistImpliesStep, TypeStep
<1>2. ASSUME NEW l \in Level, HistTick(l) PROVE HistTypeOK'
  BY <1>2 DEF HistTick, HistTypeOK
<1>3. CASE HistSend
  <2>1. MayServe /\ Choice # NoLevel
    BY <1>3 DEF HistSend, SendOne
  <2>2. cur \in Face /\ Choice \in Level
    BY <2>1, ChoiceFacts
  <2> QED BY <1>1, <1>3, <2>2 DEF HistSend, HistTypeOK
<1>4. CASE HistLeave
  <2>1. cur \in Face
    BY <1>4 DEF HistLeave, LeaveFace, TypeOK
  <2> QED BY <1>1, <1>4, <2>1 DEF HistLeave, HistTypeOK
<1>5. CASE HistOther
  BY <1>1, <1>5 DEF HistOther, HistTypeOK
<1>6. CASE UNCHANGED histVars
  BY <1>1, <1>6 DEF histVars, HistTypeOK
<1> QED BY <1>1, <1>2, <1>3, <1>4, <1>5, <1>6 DEF HistNext

\* Of the actions of HistOther only a waiting face touches the buckets, and
\* it does not touch the counts.
LEMMA OtherKeepsTokens ==
  ASSUME TypeOK, HistOther
  PROVE  \A l \in Level : bucket'[l].tokens = bucket[l].tokens
<1>1. CASE WaitForTokens
  <2>1. MayServe
    BY <1>1 DEF WaitForTokens
  <2> QED BY Zenon, <1>1, <2>1, BucketAtWaitFields DEF WaitForTokens
<1>2. CASE ~WaitForTokens
  BY <1>2 DEF HistOther, AfterReceiveInterest, AfterReceiveData, DeviceDrain, Tick,
              VisitFace, EndPass
<1> QED BY <1>1, <1>2

\* prioritySend polices every level and face: what it ever sent is covered by
\* one full bucket and the addToken calls so far.
THEOREM Conformance == HistSpec => []TokenConformance
<1>1. HistInit => TypeOK /\ HistTypeOK /\ TokenConformance
  <2> SUFFICES ASSUME HistInit PROVE TokenConformance
    BY HistTypeInit
  <2>1. \A l \in Level, f \in Face : bucket[l].tokens[f] = Capacity[l]
    BY Zenon DEF HistInit, Init, NewBucket
  <2>2. \A l \in Level, f \in Face : spent[l][f] = 0 /\ refills[l] = 0
    BY DEF HistInit
  <2> QED BY <2>1, <2>2, CapacityType DEF TokenConformance
<1>2. TypeOK /\ HistTypeOK /\ TokenConformance /\ [HistNext]_histVars
        => TypeOK' /\ HistTypeOK' /\ TokenConformance'
  <2> SUFFICES ASSUME TypeOK, HistTypeOK, TokenConformance, [HistNext]_histVars
               PROVE  TokenConformance'
    BY HistTypeStep
  <2>t. \A l \in Level, f \in Face :
          /\ spent[l][f] \in Nat /\ refills[l] \in Nat /\ Capacity[l] \in Nat
          /\ bucket[l].tokens[f] \in Nat
          /\ spent[l][f] + bucket[l].tokens[f] <= Capacity[l] + refills[l]
    BY CapacityType DEF TypeOK, HistTypeOK, Bucket, TokenConformance
  <2>1. ASSUME NEW l \in Level, HistTick(l) PROVE TokenConformance'
    <3>1. \A f \in Face : \/ AddToken(bucket[l], Capacity[l]).tokens[f] = bucket[l].tokens[f]
                          \/ AddToken(bucket[l], Capacity[l]).tokens[f] = bucket[l].tokens[f] + 1
      BY AddTokenFields, CapacityType DEF TypeOK
    <3>2. \A m \in Level : bucket'[m] =
            IF m = l THEN AddToken(bucket[l], Capacity[l]) ELSE bucket[m]
      BY <2>1 DEF HistTick, DriverTick, TypeOK
    <3>3. \A m \in Level : refills'[m] = IF m = l THEN refills[l] + 1 ELSE refills[m]
      BY <2>1 DEF HistTick, HistTypeOK
    <3>4. spent' = spent
      BY <2>1 DEF HistTick
    <3>5. ASSUME NEW m \in Level, NEW f \in Face
          PROVE  spent'[m][f] + bucket'[m].tokens[f] <= Capacity[m] + refills'[m]
      <4>1. CASE m = l
        BY <2>t, <3>1, <3>2, <3>3, <3>4, <4>1
      <4>2. CASE m # l
        BY <2>t, <3>2, <3>3, <3>4, <4>2
      <4> QED BY <4>1, <4>2
    <3> QED BY <3>5 DEF TokenConformance
  <2>2. CASE HistSend
    <3>1. MayServe /\ Choice # NoLevel
      BY <2>2 DEF HistSend, SendOne
    <3>2. cur \in Face /\ Choice \in Level /\ bucket[Choice].tokens \in [Face -> 0..Capacity[Choice]]
      BY <3>1, ChoiceFacts DEF TypeOK, Bucket
    <3>3. BucketAfterSend(Choice).tokens =
            [bucket[Choice].tokens EXCEPT ![cur] = bucket[Choice].tokens[cur] - 1]
      BY <3>1, BucketAfterSendFields
    <3>4. \A m \in Level : bucket'[m] = IF m = Choice THEN BucketAfterSend(Choice) ELSE bucket[m]
      BY <2>2, <3>2 DEF HistSend, SendOne, TypeOK
    <3>5. \A m \in Level, f \in Face :
            spent'[m][f] = IF m = Choice /\ f = cur THEN spent[m][f] + 1 ELSE spent[m][f]
      BY <2>2, <3>2 DEF HistSend, HistTypeOK
    <3>6. refills' = refills
      BY <2>2 DEF HistSend
    <3> HIDE DEF Choice
    <3>7. ASSUME NEW m \in Level, NEW f \in Face
          PROVE  spent'[m][f] + bucket'[m].tokens[f] <= Capacity[m] + refills'[m]
      <4>1. CASE m = Choice /\ f = cur
        BY <2>t, <3>2, <3>3, <3>4, <3>5, <3>6, <4>1
      <4>2. CASE m = Choice /\ f # cur
        BY <2>t, <3>2, <3>3, <3>4, <3>5, <3>6, <4>2
      <4>3. CASE m # Choice
        BY <2>t, <3>4, <3>5, <3>6, <4>3
      <4> QED BY <4>1, <4>2, <4>3
    <3> QED BY <3>7 DEF TokenConformance
  <2>3. CASE HistLeave
    BY <2>3 DEF HistLeave, LeaveFace, TokenConformance
  <2>4. CASE HistOther
    BY <2>4, OtherKeepsTokens DEF HistOther, TokenConformance
  <2>5. CASE UNCHANGED histVars
    BY <2>5 DEF histVars, vars, TokenConformance
  <2> QED BY <2>1, <2>2, <2>3, <2>4, <2>5 DEF HistNext
<1> QED BY <1>1, <1>2, PTL DEF HistSpec

-----------------------------------------------------------------------------
\* Enqueuing never empties a level.
LEMMA EnqueueKeepsBacklog ==
  ASSUME TypeOK, NEW p \in Packet, NEW l \in Level, NEW out \in SUBSET Face,
         NEW f \in Face, NEW m \in Level, txq[f].items[m] # <<>>
  PROVE  EnqueueAll(p, l, out)[f].items[m] # <<>>
<1>1. txq[f].items[l] \in Seq(Packet)
  BY DEF TypeOK, TxQueue
<1>2. Append(txq[f].items[l], p) # <<>>
  BY <1>1, AppendProperties
<1>3. \A g \in Face, k \in Level : EnqueueAll(p, l, out)[g].items[k] =
        IF g \in out /\ k = l /\ HasRoom(txq[g], l)
          THEN Append(txq[g].items[l], p) ELSE txq[g].items[k]
  BY EnqueueAllType, Zenon
<1>4. \/ EnqueueAll(p, l, out)[f].items[m] = Append(txq[f].items[l], p)
      \/ EnqueueAll(p, l, out)[f].items[m] = txq[f].items[m]
  BY Zenon, <1>3
<1> QED BY <1>2, <1>4

\* What a transmission does to the items of every face.
LEMMA SendOneItems ==
  ASSUME TypeOK, SendOne
  PROVE  /\ cur \in Face /\ Choice \in Level
         /\ \A f \in Face, m \in Level : txq'[f].items[m] =
              IF f = cur /\ m = Choice THEN Tail(txq[f].items[m]) ELSE txq[f].items[m]
         /\ \A f \in Face, m \in Level : bucket'[m].tokens[f] =
              IF f = cur /\ m = Choice THEN bucket[m].tokens[f] - 1 ELSE bucket[m].tokens[f]
         /\ \A f \in Face, m \in Level : bucket'[m].need[f] =
              IF f = cur /\ m = Choice THEN 0 ELSE bucket[m].need[f]
<1>1. MayServe /\ Choice # NoLevel
  BY DEF SendOne
<1>2. cur \in Face /\ Choice \in Level /\ txq[cur] \in TxQueue
        /\ txq[cur].items[Choice] # <<>>
  BY <1>1, ChoiceFacts
<1>3. bucket[Choice].tokens \in [Face -> 0..Capacity[Choice]]
        /\ bucket[Choice].need \in [Face -> {0, 1}]
        /\ txq[cur].items \in [Level -> Seq(Packet)]
  BY <1>2 DEF TypeOK, Bucket, TxQueue
<1>4. DoDequeue(txq[cur], Choice).items =
        [txq[cur].items EXCEPT ![Choice] = Tail(txq[cur].items[Choice])]
  BY <1>2, DoDequeueFields
<1>5. \A f \in Face : txq'[f] = IF f = cur THEN DoDequeue(txq[cur], Choice) ELSE txq[f]
  BY <1>2 DEF SendOne, TypeOK
<1>6. \A m \in Level : bucket'[m] = IF m = Choice THEN BucketAfterSend(Choice) ELSE bucket[m]
  BY <1>2 DEF SendOne, TypeOK
<1>7. /\ BucketAfterSend(Choice).tokens =
           [bucket[Choice].tokens EXCEPT ![cur] = bucket[Choice].tokens[cur] - 1]
      /\ BucketAfterSend(Choice).need = [bucket[Choice].need EXCEPT ![cur] = 0]
  BY <1>1, BucketAfterSendFields
<1> HIDE DEF Choice
<1>8. \A f \in Face, m \in Level : txq'[f].items[m] =
        IF f = cur /\ m = Choice THEN Tail(txq[f].items[m]) ELSE txq[f].items[m]
  BY Zenon, <1>2, <1>3, <1>4, <1>5
<1>9. \A f \in Face, m \in Level : bucket'[m].tokens[f] =
        IF f = cur /\ m = Choice THEN bucket[m].tokens[f] - 1 ELSE bucket[m].tokens[f]
  BY <1>2, <1>3, <1>6, <1>7
<1>10. \A f \in Face, m \in Level : bucket'[m].need[f] =
         IF f = cur /\ m = Choice THEN 0 ELSE bucket[m].need[f]
  BY <1>2, <1>3, <1>6, <1>7
<1> QED BY <1>2, <1>8, <1>9, <1>10

\* What a waiting face leaves in the buckets.
LEMMA WaitForTokensNeed ==
  ASSUME TypeOK, WaitForTokens
  PROVE  /\ cur \in Face
         /\ \A f \in Face, m \in Level : bucket'[m].need[f] =
              IF f = cur THEN NeedAt(m) ELSE bucket[m].need[f]
         /\ \A m \in Level : bucket'[m].tokens = bucket[m].tokens
<1>1. MayServe
  BY DEF WaitForTokens
<1>2. cur \in Face
  BY <1>1, ChoiceFacts
<1>3. \A m \in Level : bucket[m].need \in [Face -> {0, 1}]
  BY DEF TypeOK, Bucket
<1>4. \A m \in Level : /\ bucket'[m].tokens = bucket[m].tokens
                       /\ bucket'[m].need = [bucket[m].need EXCEPT ![cur] = NeedAt(m)]
  BY <1>1, BucketAtWaitFields DEF WaitForTokens
<1> QED BY Zenon, <1>2, <1>3, <1>4

\* m_need never asks for a wake-up on behalf of a level that has nothing left.
THEOREM NeedIsBacklog == Spec => []NeedMeansBacklog
<1>1. Init => TypeOK /\ NeedMeansBacklog
  <2> SUFFICES ASSUME Init PROVE NeedMeansBacklog
    BY TypeInit
  <2>1. \A l \in Level, f \in Face : bucket[l].need[f] = 0
    BY Zenon DEF Init, NewBucket
  <2> QED BY <2>1 DEF NeedMeansBacklog
<1>2. TypeOK /\ NeedMeansBacklog /\ [Next]_vars => TypeOK' /\ NeedMeansBacklog'
  <2> SUFFICES ASSUME TypeOK, NeedMeansBacklog, [Next]_vars PROVE NeedMeansBacklog'
    BY TypeStep
  <2>1. ASSUME NEW p \in Packet, NEW l \in Level, NEW out \in SUBSET Face,
               AfterReceiveInterest(p, l, out) \/ AfterReceiveData(p, l, out)
        PROVE  NeedMeansBacklog'
    <3>1. txq' = EnqueueAll(p, l, out) /\ bucket' = bucket
      BY <2>1 DEF AfterReceiveInterest, AfterReceiveData
    <3> QED BY <3>1, EnqueueKeepsBacklog DEF NeedMeansBacklog
  <2>2. ASSUME NEW l \in Level, DriverTick(l)
        PROVE  NeedMeansBacklog'
    <3>1. AddToken(bucket[l], Capacity[l]).need = bucket[l].need
      BY AddTokenFields, CapacityType DEF TypeOK
    <3>2. \A m \in Level : bucket'[m].need = bucket[m].need
      BY <2>2, <3>1 DEF DriverTick, TypeOK
    <3> QED BY <2>2, <3>2 DEF DriverTick, NeedMeansBacklog
  <2>3. CASE SendOne
    BY <2>3, SendOneItems DEF NeedMeansBacklog
  <2>4. CASE WaitForTokens
    <3>1. txq' = txq
      BY <2>4 DEF WaitForTokens
    <3> QED BY <2>4, <3>1, WaitForTokensNeed DEF NeedMeansBacklog, NeedAt, tokenReq
  <2>5. ASSUME UNCHANGED <<txq, bucket>> PROVE NeedMeansBacklog'
    BY <2>5 DEF NeedMeansBacklog
  <2> QED BY <2>1, <2>2, <2>3, <2>4, <2>5
       DEF Next, PassStep, DeviceDrain, Tick, VisitFace, LeaveFace, EndPass, vars
<1> QED BY <1>1, <1>2, PTL DEF Spec

-----------------------------------------------------------------------------
\* The items of a queue decide whether it is empty.
LEMMA BackloggedFaces ==
  \A q : Backlogged(q) = {f \in Face : \E l \in Level : q[f].items[l] # <<>>}
BY DEF Backlogged, IsEmpty

\* A driver tick that raises no send() leaves a waiting face waiting.
LEMMA QuietTickKeepsWaiting ==
  ASSUME TypeOK, NEW l \in Level, DriverTick(l), ~CallsSend(bucket'[l]),
         NEW f \in Face, Waiting(f)
  PROVE  Waiting(f)'
<1> DEFINE b == bucket[l]
           a == AddToken(b, Capacity[l])
<1>1. \A m \in Level : bucket'[m] = IF m = l THEN a ELSE bucket[m]
  BY DEF DriverTick, TypeOK
<1>2. b \in Bucket(Capacity[l]) /\ Capacity[l] \in Nat /\ b.tokens \in [Face -> 0..Capacity[l]]
  BY CapacityType DEF TypeOK, Bucket
<1>3. /\ a.need = b.need /\ a.known = b.known
      /\ a.tokens[f] = IF f \in BelowCapacity(b, Capacity[l]) THEN b.tokens[f] + 1
                                                              ELSE b.tokens[f]
  BY <1>2, AddTokenFields
<1>4. txq' = txq
  BY DEF DriverTick
<1>5. ~CallsSend(a)
  BY <1>1
<1> HIDE DEF a, b
<1>6. ASSUME txq[f].items[l] # <<>> PROVE a.need[f] = 1 /\ a.tokens[f] = 0
  <2>1. b.need[f] = 1 /\ b.tokens[f] = 0
    BY <1>6 DEF Waiting, b
  <2>2. CASE f \in BelowCapacity(b, Capacity[l])
    <3>1. f \in a.known /\ a.need[f] = 1 /\ a.tokens[f] = 1
      BY <1>3, <2>1, <2>2 DEF BelowCapacity
    <3> QED BY <1>5, <3>1 DEF CallsSend
  <2>3. CASE f \notin BelowCapacity(b, Capacity[l])
    BY <1>3, <2>1, <2>3
  <2> QED BY <2>2, <2>3
<1>7. \A m \in Level : txq[f].items[m] # <<>> =>
        bucket'[m].need[f] = 1 /\ bucket'[m].tokens[f] = 0
  BY <1>1, <1>6 DEF Waiting
<1>8. ~IsEmpty(txq'[f])
  BY <1>4 DEF Waiting
<1> QED BY <1>4, <1>7, <1>8 DEF Waiting

\* A wait is a real one: every backlogged level of the face is registered and
\* has no token.
LEMMA WaitForTokensWaits ==
  ASSUME TypeOK, WaitForTokens
  PROVE  cur \in Face /\ Waiting(cur)'
<1>1. MayServe /\ Choice = NoLevel /\ txq' = txq /\ cur' = cur
  BY DEF WaitForTokens
<1>2. cur \in Face /\ Sendable(txq[cur], TokensOf(cur)) = {}
  BY <1>1, ChoiceFacts
<1>3. ~IsEmpty(txq'[cur])
  BY <1>1 DEF MayServe
<1>4. ASSUME NEW l \in Level, txq[cur].items[l] # <<>>
      PROVE  bucket'[l].need[cur] = 1 /\ bucket'[l].tokens[cur] = 0
  <2>1. bucket[l].tokens[cur] \in Nat
    BY <1>2 DEF TypeOK, Bucket
  <2>2. ~(bucket[l].tokens[cur] >= 1)
    BY Zenon, <1>2, <1>4 DEF Sendable, TokensOf
  <2>3. bucket'[l].tokens[cur] = bucket[l].tokens[cur] /\ bucket'[l].need[cur] = NeedAt(l)
    BY <1>2, WaitForTokensNeed
  <2> QED BY <1>4, <2>1, <2>2, <2>3 DEF NeedAt, tokenReq
<1> QED BY <1>1, <1>2, <1>3, <1>4 DEF Waiting

\* ServiceInv holds initially.
LEMMA ServiceInit == HistInit => ServiceInv
<1> SUFFICES ASSUME HistInit PROVE ServiceInv
  OBVIOUS
<1>1. \A f \in Face, l \in Level : txq[f].items[l] = <<>>
  BY DEF HistInit, Init, NewTxQueue
<1>2. Backlogged(txq) = {}
  BY <1>1, BackloggedFaces
<1> QED BY <1>2 DEF HistInit, Init, ServiceInv

\* ServiceInv is inductive.
LEMMA ServiceStep ==
  TypeOK /\ HistTypeOK /\ ServiceInv /\ [HistNext]_histVars => ServiceInv'
<1> SUFFICES ASSUME TypeOK, HistTypeOK, ServiceInv, [HistNext]_histVars
             PROVE  ServiceInv'
  OBVIOUS
<1>f. NoFace \notin Face
  BY FacesAssumption
<1>1. ASSUME NEW n, n # 0, BeginPasses(n, txq')
      PROVE  ServiceInv'
  <2>1. ~Idle' /\ ~tokenwait' /\ todo' = Backlogged(txq')
    BY <1>1 DEF BeginPasses, Idle
  <2>2. Backlogged(txq)' = Backlogged(txq')
    BY DEF Backlogged
  <2> QED BY <2>1, <2>2 DEF ServiceInv
<1>2. ASSUME NEW p \in Packet, NEW l \in Level, NEW out \in SUBSET Face,
             AfterReceiveInterest(p, l, out) \/ AfterReceiveData(p, l, out)
      PROVE  ServiceInv'
  <2>1. \E n \in {1, 2} : BeginPasses(n, txq')
    BY <1>2 DEF AfterReceiveInterest, AfterReceiveData
  <2> QED BY <2>1, <1>1
<1>3. ASSUME NEW l \in Level, HistTick(l)
      PROVE  ServiceInv'
  <2>1. DriverTick(l) /\ stalled' = stalled /\ txq' = txq /\ cur' = cur /\ Idle
    BY <1>3 DEF HistTick, DriverTick
  <2>2. CASE CallsSend(bucket'[l])
    BY <2>1, <2>2, <1>1 DEF DriverTick
  <2>3. CASE ~CallsSend(bucket'[l])
    <3>1. UNCHANGED <<passes, todo, tokenwait>>
      BY <2>1, <2>3 DEF DriverTick
    <3>2. Backlogged(txq)' = Backlogged(txq)
      BY <2>1 DEF Backlogged
    <3>3. tokenwait => \E f \in Face : Waiting(f)'
      BY <2>1, <2>3, QuietTickKeepsWaiting DEF ServiceInv
    <3> QED BY <2>1, <3>1, <3>2, <3>3 DEF ServiceInv, Idle
  <2> QED BY <2>2, <2>3
<1>4. CASE HistSend
  <2>1. SendOne /\ stalled' = stalled /\ ~Idle /\ ~tokenwait
    BY Zenon, <1>4 DEF HistSend, SendOne, MayServe
  <2>2. UNCHANGED <<passes, todo, cur, tokenwait>>
    BY <2>1 DEF SendOne
  <2>3. \A f \in Face, m \in Level : txq'[f].items[m] # <<>> => f \in Backlogged(txq)
    <3> SUFFICES ASSUME NEW f \in Face, NEW m \in Level, txq'[f].items[m] # <<>>
                 PROVE  f \in Backlogged(txq)
      OBVIOUS
    <3>1. CASE f = cur
      BY <2>1, <3>1 DEF SendOne, MayServe, Backlogged
    <3>2. CASE f # cur
      BY <2>1, <3>2, SendOneItems, BackloggedFaces
    <3> QED BY <3>1, <3>2
  <2>4. Backlogged(txq') \subseteq Backlogged(txq)
    BY <2>3, BackloggedFaces
  <2>5. Backlogged(txq)' = Backlogged(txq')
    BY DEF Backlogged
  <2> QED BY <2>1, <2>2, <2>4, <2>5 DEF ServiceInv, Idle
<1>5. CASE HistLeave
  <2>1. LeaveFace /\ ~Idle /\ cur \in Face /\ cur' = NoFace
    BY <1>5 DEF HistLeave, LeaveFace, TypeOK
  <2>2. UNCHANGED <<txq, bucket, passes, todo, tokenwait>>
    BY <2>1 DEF LeaveFace
  <2>3. Backlogged(txq)' = Backlogged(txq)
    BY <2>2 DEF Backlogged
  <2>4. CASE tokenwait
    BY <2>1, <2>2, <2>4 DEF ServiceInv, Waiting, Idle
  <2>5. CASE ~tokenwait
    <3>1. cur \in Backlogged(txq) => cur \in stalled'
      BY <1>5, <2>1, <2>5 DEF HistLeave, Backlogged
    <3>2. stalled \ {cur} \subseteq stalled'
      BY <1>5 DEF HistLeave
    <3>3. Backlogged(txq) \subseteq todo \cup stalled'
      BY <2>5, <3>1, <3>2 DEF ServiceInv
    <3> QED BY <2>1, <2>2, <2>3, <2>5, <3>3 DEF ServiceInv, Idle
  <2> QED BY <2>4, <2>5
<1>6. ASSUME NEW f \in Face, VisitFace(f), stalled' = stalled
      PROVE  ServiceInv'
  <2>1. ~Idle /\ cur = NoFace /\ cur' = f /\ todo' = todo \ {f}
          /\ UNCHANGED <<txq, bucket, passes, tokenwait>>
    BY <1>6 DEF VisitFace
  <2>2. Backlogged(txq)' = Backlogged(txq) /\ Backlogged(txq) \subseteq Face
    BY <2>1 DEF Backlogged
  <2>3. CASE tokenwait
    BY <2>1, <2>3 DEF ServiceInv, Waiting, Idle
  <2>4. CASE ~tokenwait
    <3>1. Backlogged(txq) \subseteq todo \cup stalled
      BY <1>f, <2>1, <2>2, <2>4 DEF ServiceInv
    <3>2. Backlogged(txq)' \subseteq todo' \cup {cur'} \cup stalled'
      BY <1>6, <2>1, <2>2, <3>1
    <3> QED BY <2>1, <2>4, <3>2 DEF ServiceInv, Idle
  <2> QED BY <2>3, <2>4
<1>7. CASE WaitForTokens
  <2>1. cur \in Face /\ Waiting(cur)' /\ tokenwait' /\ ~Idle' /\ cur' = cur
    BY <1>7, WaitForTokensWaits DEF WaitForTokens, Idle
  <2>2. \E f \in Face : Waiting(f)'
    BY <2>1 DEF Waiting
  <2> QED BY <2>1, <2>2 DEF ServiceInv
<1>8. ASSUME EndPass, stalled' = stalled
      PROVE  ServiceInv'
  <2>1. ~Idle /\ cur = NoFace /\ todo = {} /\ UNCHANGED <<txq, bucket, cur>> /\ passes \in 0..2
    BY <1>8 DEF EndPass, TypeOK
  <2>2. CASE passes = 1
    <3>1. passes' = 0 /\ UNCHANGED <<todo, tokenwait>>
      BY <1>8, <2>2 DEF EndPass
    <3>2. Backlogged(txq)' = Backlogged(txq)
      BY <2>1 DEF Backlogged
    <3> QED BY <1>8, <2>1, <3>1, <3>2 DEF ServiceInv, Waiting
  <2>3. CASE passes # 1
    <3>1. BeginPasses(passes - 1, txq') /\ passes - 1 # 0
      BY <1>8, <2>1, <2>3 DEF EndPass
    <3> QED BY Zenon, <3>1, <1>1
  <2> QED BY <2>2, <2>3
<1>9. ASSUME UNCHANGED <<txq, bucket, passes, todo, cur, tokenwait, stalled>>
      PROVE  ServiceInv'
  BY <1>9 DEF ServiceInv, Waiting, Backlogged, Idle
<1>10. ASSUME NEW f \in Face, DeviceDrain(f), stalled' = stalled
       PROVE  ServiceInv'
  BY <1>10, <1>9 DEF DeviceDrain, passVars
<1>11. ASSUME Tick, stalled' = stalled
       PROVE  ServiceInv'
  BY <1>11, <1>9 DEF Tick, passVars
<1>12. CASE HistOther
  BY <1>12, <1>2, <1>6, <1>7, <1>8, <1>10, <1>11 DEF HistOther
<1>13. CASE UNCHANGED histVars
  BY <1>13, <1>9 DEF histVars, vars, passVars
<1> QED BY <1>3, <1>4, <1>5, <1>12, <1>13 DEF HistNext

\* Between handlers no backlog is forgotten: some face waits with every
\* backlogged level registered in m_need, or all backlogged faces were left
\* at the device limit.
THEOREM NoForgottenBacklog == HistSpec => []WakeupOrStall
<1>1. HistInit => TypeOK /\ HistTypeOK /\ ServiceInv
  BY HistTypeInit, ServiceInit
<1>2. TypeOK /\ HistTypeOK /\ ServiceInv /\ [HistNext]_histVars
        => TypeOK' /\ HistTypeOK' /\ ServiceInv'
  BY HistTypeStep, ServiceStep
<1>3. ServiceInv => WakeupOrStall
  <2> SUFFICES ASSUME ServiceInv, Idle PROVE WakeupOrStall
    BY DEF WakeupOrStall
  <2>1. cur \notin Face /\ todo = {}
    BY FacesAssumption DEF ServiceInv
  <2>2. Backlogged(txq) \subseteq Face
    BY DEF Backlogged
  <2> QED BY <2>1, <2>2 DEF ServiceInv, WakeupOrStall
<1> QED BY <1>1, <1>2, <1>3, PTL DEF HistSpec

-----------------------------------------------------------------------------
\* The lanes and credits of the abstract specification.
LanesOf == [f \in Face |-> txq[f].items]
CreditOf == [l \in Level |-> bucket[l].tokens]

\* A step that changes neither the items nor the counts is a stutter.
LEMMA LanesStutter ==
  ASSUME TypeOK, \A f \in Face : txq'[f].items = txq[f].items,
         \A l \in Level : bucket'[l].tokens = bucket[l].tokens
  PROVE  UNCHANGED <<LanesOf, CreditOf>>
BY DEF LanesOf, CreditOf

\* An arrival is an Offer.
LEMMA ArrivalIsOffer ==
  ASSUME TypeOK, NEW p \in Packet, NEW l \in Level, NEW out \in SUBSET Face,
         txq' = EnqueueAll(p, l, out), bucket' = bucket
  PROVE  Lanes!Offer(p, l, out)
<1>1. \A f \in Face : txq[f].items \in [Level -> Seq(Packet)]
  BY DEF TypeOK, TxQueue
<1>2. \A f \in Face : txq'[f].items =
        IF f \in out /\ Len(txq[f].items[l]) < QueueSize
          THEN [txq[f].items EXCEPT ![l] = Append(txq[f].items[l], p)]
          ELSE txq[f].items
  BY Zenon DEF EnqueueAll, DoEnqueue, HasRoom
<1>3. LanesOf' = [f \in Face |->
        IF f \in out /\ Len(LanesOf[f][l]) < QueueSize
          THEN [LanesOf[f] EXCEPT ![l] = Append(@, p)] ELSE LanesOf[f]]
  BY <1>2 DEF LanesOf
<1>4. CreditOf' = CreditOf
  BY DEF CreditOf
<1> QED BY <1>3, <1>4 DEF Lanes!Offer, LanesOf, CreditOf

\* A transmission is an Emit.
LEMMA SendIsEmit ==
  ASSUME TypeOK, SendOne, NEW g, NEW k, g = cur, k = Choice
  PROVE  Lanes!Emit(g, k)
<1>1. MayServe /\ Choice # NoLevel
  BY DEF SendOne
<1>2. cur \in Face /\ Choice \in Level /\ txq[cur].items[Choice] # <<>>
        /\ bucket[Choice].tokens[cur] >= 1
  BY <1>1, ChoiceFacts
<1>3. \A f \in Face : txq[f].items \in [Level -> Seq(Packet)]
  BY DEF TypeOK, TxQueue
<1>4. \A m \in Level : bucket[m].tokens \in [Face -> 0..Capacity[m]]
  BY DEF TypeOK, Bucket
<1>5. \A f \in Face : txq'[f].items =
        IF f = cur THEN [txq[f].items EXCEPT ![Choice] = Tail(txq[f].items[Choice])]
                   ELSE txq[f].items
  BY Zenon, <1>2 DEF SendOne, DoDequeue, TypeOK
<1>6. \A m \in Level : bucket'[m].tokens =
        IF m = Choice THEN [bucket[m].tokens EXCEPT ![cur] = bucket[m].tokens[cur] - 1]
                      ELSE bucket[m].tokens
  <2>1. BucketAfterSend(Choice).tokens =
          [bucket[Choice].tokens EXCEPT ![cur] = bucket[Choice].tokens[cur] - 1]
    BY <1>1, BucketAfterSendFields
  <2> QED BY <1>2, <2>1 DEF SendOne, TypeOK
<1> HIDE DEF Choice
<1>7. LanesOf' = [LanesOf EXCEPT ![g][k] = Tail(@)]
  BY Zenon, <1>2, <1>3, <1>5 DEF LanesOf
<1>8. CreditOf' = [CreditOf EXCEPT ![k][g] = @ - 1]
  BY Zenon, <1>2, <1>4, <1>6 DEF CreditOf
<1>9. LanesOf[g][k] # <<>> /\ CreditOf[k][g] > 0
  <2>1. bucket[Choice].tokens[cur] \in Nat
    BY <1>2, <1>4
  <2> QED BY <1>2, <2>1 DEF LanesOf, CreditOf
<1> QED BY <1>2, <1>7, <1>8, <1>9 DEF Lanes!Emit, LanesOf, CreditOf

\* A driver tick is a Refill of the faces below capacity.
LEMMA TickIsRefill ==
  ASSUME TypeOK, NEW l \in Level, DriverTick(l),
         NEW R, R = BelowCapacity(bucket[l], Capacity[l])
  PROVE  Lanes!Refill(l, R)
<1>1. \A m \in Level : bucket[m].tokens \in [Face -> 0..Capacity[m]]
  BY DEF TypeOK, Bucket
<1>2. \A f \in R : CreditOf[l][f] < Capacity[l]
  BY DEF BelowCapacity, CreditOf
<1>3. bucket'[l].tokens = [f \in Face |-> IF f \in R THEN bucket[l].tokens[f] + 1
                                                     ELSE bucket[l].tokens[f]]
  BY DEF DriverTick, AddToken, TypeOK
<1>4. \A m \in Level \ {l} : bucket'[m].tokens = bucket[m].tokens
  BY DEF DriverTick, TypeOK
<1>5. CreditOf' = [CreditOf EXCEPT ![l] = [f \in Face |->
                     IF f \in R THEN CreditOf[l][f] + 1 ELSE CreditOf[l][f]]]
  BY Zenon, <1>3, <1>4 DEF CreditOf
<1>6. LanesOf' = LanesOf
  BY DEF DriverTick, LanesOf
<1> QED BY <1>2, <1>5, <1>6 DEF Lanes!Refill, LanesOf, CreditOf

\* The transmit side implements bounded FIFO lanes policed by credits: the
\* WFQ scheduling, the device limit and the wake-ups never reorder, lose or
\* duplicate a packet of a level, and never send one without a token.
THEOREM Refinement == Spec => ImplementsPolicedLanes
<1>1. Init => Lanes!Init
  <2> SUFFICES ASSUME Init PROVE Lanes!Init
    OBVIOUS
  <2>1. \A f \in Face : txq[f].items = [l \in Level |-> <<>>]
    BY Zenon DEF Init, NewTxQueue
  <2>2. \A l \in Level : bucket[l].tokens = [f \in Face |-> Capacity[l]]
    BY DEF Init, NewBucket
  <2> QED BY <2>1, <2>2 DEF Lanes!Init
<1>2. TypeOK /\ [Next]_vars => [Lanes!Next]_<<LanesOf, CreditOf>>
  <2> SUFFICES ASSUME TypeOK, [Next]_vars
               PROVE  Lanes!Next \/ UNCHANGED <<LanesOf, CreditOf>>
    OBVIOUS
  <2>1. ASSUME NEW p \in Packet, NEW l \in Level, NEW out \in SUBSET Face,
               AfterReceiveInterest(p, l, out) \/ AfterReceiveData(p, l, out)
        PROVE  Lanes!Next
    <3>1. txq' = EnqueueAll(p, l, out) /\ bucket' = bucket
      BY <2>1 DEF AfterReceiveInterest, AfterReceiveData
    <3>2. Lanes!Offer(p, l, out)
      BY <3>1, ArrivalIsOffer
    <3> QED BY <3>2 DEF Lanes!Next
  <2>2. ASSUME NEW l \in Level, DriverTick(l)
        PROVE  Lanes!Next
    <3>1. PICK R \in SUBSET Face : R = BelowCapacity(bucket[l], Capacity[l])
      BY Zenon DEF BelowCapacity, TypeOK, Bucket
    <3>2. Lanes!Refill(l, R)
      BY Zenon, <2>2, <3>1, TickIsRefill
    <3> QED BY <3>1, <3>2 DEF Lanes!Next
  <2>3. CASE SendOne
    <3>1. PICK g \in Face, k \in Level : g = cur /\ k = Choice
      BY <2>3, SendOneItems
    <3>2. Lanes!Emit(g, k)
      BY <2>3, <3>1, SendIsEmit
    <3> QED BY <3>2 DEF Lanes!Next
  <2>4. CASE WaitForTokens
    <3>1. txq' = txq /\ \A l \in Level : bucket'[l].tokens = bucket[l].tokens
      BY <2>4, WaitForTokensNeed DEF WaitForTokens
    <3> QED BY <3>1, LanesStutter
  <2>5. ASSUME UNCHANGED <<txq, bucket>>
        PROVE  UNCHANGED <<LanesOf, CreditOf>>
    BY <2>5 DEF LanesOf, CreditOf
  <2> QED BY <2>1, <2>2, <2>3, <2>4, <2>5
       DEF Next, PassStep, DeviceDrain, Tick, VisitFace, LeaveFace, EndPass, vars
<1>3. Init => TypeOK
  BY TypeInit
<1>4. TypeOK /\ [Next]_vars => TypeOK'
  BY TypeStep
<1> QED BY <1>1, <1>2, <1>3, <1>4, PTL
     DEF Spec, ImplementsPolicedLanes, Lanes!Spec, LanesOf, CreditOf
=============================================================================
