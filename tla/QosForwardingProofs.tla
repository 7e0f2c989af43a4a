------------------------ MODULE QosForwardingProofs ------------------------
(***************************************************************************)
(* Proofs about QosForwarding, for every set of faces, keys and nonces,    *)
(* every queue size, every lifetime and every horizon: no entry waits for  *)
(* nothing, and a downstream is sent more Data than it asked for only when *)
(* a second Data meets a satisfied entry.                                  *)
(***************************************************************************)
EXTENDS QosForwarding, ForwarderLemmas, SequenceTheorems

Item == [kind : {"interest"}, key : Key, nonce : Nonce, life : Lifetime, live : BOOLEAN]
          \cup [kind : {"data"}, key : Key, live : BOOLEAN]

\* The queues hold items, no more than QUEUE_SIZE, and only faces that exist
\* have any.
LanesOK(L) ==
  /\ L \in [Face -> Seq(Item)]
  /\ \A f \in Face : Len(L[f]) <= QueueSize /\ (f \notin faces => L[f] = <<>>)

QosTypeOK ==
  /\ PitTypeOK /\ LanesOK(lane)
  /\ balance \in [Face -> Int] /\ repeated \in Nat

\* The unsatisfied entries with an in-record of face f.
Waiting(f) == {k \in DOMAIN pit : ~pit[k].satisfied /\ f \in DOMAIN pit[k].inr}

\* Every Data that waits for f, or is still to be queued for it, answers an
\* Interest of f that no Data was sent for, or is a repetition.
DataIsOwed ==
  \A f \in Face : balance[f] + repeated >= Cardinality(Waiting(f)) + Count(lane[f], "data")

-----------------------------------------------------------------------------
(* The queues.                                                              *)

\* S and K are the head and the tail of s.
Splits(s, S, K) ==
  /\ Len(s) = Len(S) + Len(K)
  /\ \A i \in 1..Len(S) : S[i] = s[i]
  /\ \A i \in 1..Len(K) : K[i] = s[Len(S) + i]

\* What prioritySend takes from the queues is their heads, the rest stays.
LEMMA SendSplits ==
  ASSUME NEW L, LanesOK(L), NEW c \in Departures(L)
  PROVE  /\ LanesOK(Sent(L, c)) /\ LanesOK(Kept(L, c))
         /\ \A f \in Face : Splits(L[f], Sent(L, c)[f], Kept(L, c)[f])
<1> DEFINE S == Sent(L, c)
           K == Kept(L, c)
           lens == {Len(L[f]) : f \in Face}
<1>1. ASSUME NEW f \in Face
      PROVE  /\ S[f] \in Seq(Item) /\ K[f] \in Seq(Item)
             /\ Len(S[f]) <= QueueSize /\ Len(K[f]) <= QueueSize
             /\ f \notin faces => S[f] = <<>> /\ K[f] = <<>>
             /\ Splits(L[f], S[f], K[f])
  <2> DEFINE s == L[f]
             m == c[f]
  <2>0. \A g \in Face : L[g] \in Seq(Item) /\ Len(L[g]) \in Nat /\ Len(L[g]) <= QueueSize
    BY DEF LanesOK
  <2>1. /\ lens \in SUBSET Nat /\ lens # {} /\ \A x \in lens : x <= QueueSize
        /\ s \in Seq(Item) /\ Len(s) <= QueueSize
    BY Zenon, <2>0
  <2>2. QueueSize \in Nat
    BY QueueAssumption
  <2>3. Max(lens) \in Nat
    BY Zenon, <2>1, <2>2, MaxOfBounded
  <2>4. c \in [Face -> 0..Max(lens)] /\ m <= Len(s)
    BY DEF Departures
  <2> HIDE DEF lens
  <2>5. m \in 0..Len(s)
    BY <2>1, <2>3, <2>4
  <2>6. f \notin faces => s = <<>>
    BY DEF LanesOK
  <2>7. S[f] = SubSeq(s, 1, m) /\ K[f] = SubSeq(s, m + 1, Len(s))
    BY Zenon DEF Sent, Kept
  <2> HIDE DEF S, K, s, m
  <2>8. /\ SubSeq(s, 1, m) \in Seq(Item) /\ Len(SubSeq(s, 1, m)) = m
        /\ \A i \in 1..m : SubSeq(s, 1, m)[i] = s[i]
    BY <2>1, <2>5
  <2>9. /\ SubSeq(s, m + 1, Len(s)) \in Seq(Item)
        /\ Len(SubSeq(s, m + 1, Len(s))) = Len(s) - m
        /\ \A i \in 1..(Len(s) - m) : SubSeq(s, m + 1, Len(s))[i] = s[m + i]
    BY <2>1, <2>5
  <2>10. Splits(s, S[f], K[f])
    <3>1. Len(S[f]) = m /\ \A i \in 1..m : S[f][i] = s[i]
      BY <2>7, <2>8
    <3>2. Len(K[f]) = Len(s) - m /\ \A i \in 1..(Len(s) - m) : K[f][i] = s[m + i]
      BY <2>7, <2>9
    <3>3. m + (Len(s) - m) = Len(s)
      BY <2>1, <2>5
    <3> QED BY <3>1, <3>2, <3>3 DEF Splits
  <2>11. f \notin faces => Len(S[f]) = 0 /\ Len(K[f]) = 0
    BY <2>1, <2>5, <2>6, <2>7, <2>8, <2>9
  <2>12. f \notin faces => S[f] = <<>> /\ K[f] = <<>>
    BY <2>7, <2>8, <2>9, <2>11
  <2>13. Len(S[f]) <= QueueSize /\ Len(K[f]) <= QueueSize
    BY <2>1, <2>2, <2>5, <2>7, <2>8, <2>9
  <2> QED BY Zenon, <2>7, <2>8, <2>9, <2>10, <2>12, <2>13 DEF s
<1>2. DOMAIN S = Face /\ DOMAIN K = Face /\ S = [f \in Face |-> S[f]] /\ K = [f \in Face |-> K[f]]
  BY Zenon DEF Sent, Kept
<1> HIDE DEF S, K
<1>3. S \in [Face -> Seq(Item)] /\ K \in [Face -> Seq(Item)]
  BY <1>1, <1>2
<1> QED BY <1>1, <1>3 DEF LanesOK, S, K

\* An item of L is sent or stays.
LEMMA SentOrKept ==
  ASSUME NEW s \in Seq(Item), NEW S \in Seq(Item), NEW K \in Seq(Item), Splits(s, S, K),
         NEW kind, NEW k, Positions(s, kind, k) # {}
  PROVE  Positions(S, kind, k) # {} \/ Positions(K, kind, k) # {}
<1>1. PICK i \in 1..Len(s) : s[i].kind = kind /\ s[i].key = k /\ s[i].live
  BY DEF Positions
<1>2. CASE i <= Len(S)
  <2>1. i \in DOMAIN S /\ S[i] = s[i]
    BY <1>2 DEF Splits
  <2> QED BY <1>1, <2>1 DEF Positions
<1>3. CASE i > Len(S)
  <2> DEFINE j == i - Len(S)
  <2>1. j \in 1..Len(K) /\ Len(S) + j = i
    BY <1>3 DEF Splits
  <2>2. j \in DOMAIN K /\ K[j] = s[i]
    BY <2>1 DEF Splits
  <2> QED BY <1>1, <2>2 DEF Positions
<1> QED BY <1>2, <1>3

\* The number of Data in a queue.
LEMMA CountType ==
  ASSUME NEW s \in Seq(Item), NEW kind
  PROVE  /\ Count(s, kind) \in Nat
         /\ IsFiniteSet({i \in DOMAIN s : s[i].kind = kind})
<1> DEFINE T == {i \in DOMAIN s : s[i].kind = kind}
<1>1. IsFiniteSet(1..Len(s)) /\ T \subseteq 1..Len(s)
  BY FS_Interval
<1>2. IsFiniteSet(T)
  BY <1>1, FS_Subset
<1> QED BY <1>2, FS_CardinalityType DEF Count

\* What is sent and what stays of a queue was in the queue.
LEMMA CountSplit ==
  ASSUME NEW s \in Seq(Item), NEW S \in Seq(Item), NEW K \in Seq(Item), Splits(s, S, K),
         NEW kind
  PROVE  Count(K, kind) + Count(S, kind) <= Count(s, kind)
<1> DEFINE T(q) == {i \in DOMAIN q : q[i].kind = kind}
           R == {i \in T(s) : i > Len(S)}
           g == [i \in T(K) |-> Len(S) + i]
<1>1. /\ IsFiniteSet(T(s)) /\ IsFiniteSet(T(S)) /\ IsFiniteSet(T(K))
  BY Zenon, CountType
<1>2. T(S) \subseteq T(s) /\ T(S) \cap R = {} /\ T(S) \cup R \subseteq T(s)
  BY DEF Splits
<1>3. IsFiniteSet(R)
  BY <1>1, FS_Subset
<1>4. \A i \in T(K) : Len(S) + i \in R
  BY DEF Splits
<1>5. g \in [T(K) -> R] /\ \A i, j \in T(K) : g[i] = g[j] => i = j
  BY <1>4
<1>6. g \in Injection(T(K), R)
  BY <1>5 DEF Injection, IsInjective
<1>7. Cardinality(T(K)) <= Cardinality(R)
  BY <1>3, <1>6, FS_Injection
<1>8. Cardinality(T(S) \cup R) = Cardinality(T(S)) + Cardinality(R) - Cardinality(T(S) \cap R)
  BY Zenon, <1>1, <1>3, FS_Union
<1>9. Cardinality(T(S) \cup R) <= Cardinality(T(s))
  BY <1>1, <1>2, FS_Subset
<1>10. Cardinality(T(S) \cap R) = 0
  BY Zenon, <1>2, FS_EmptySet
<1>11. /\ Cardinality(T(S)) \in Nat /\ Cardinality(R) \in Nat /\ Cardinality(T(K)) \in Nat
       /\ Cardinality(T(s)) \in Nat
  BY <1>1, <1>3, FS_CardinalityType
<1>12. Cardinality(T(K)) + Cardinality(T(S)) <= Cardinality(T(s))
  <2> HIDE DEF T, R
  <2> QED BY <1>7, <1>8, <1>9, <1>10, <1>11
<1> QED BY <1>12 DEF Count
\* A packet at the end of a queue.
LEMMA AppendFields ==
  ASSUME NEW s \in Seq(Item), NEW x \in Item, NEW kind, NEW k
  PROVE  /\ Append(s, x) \in Seq(Item) /\ Len(Append(s, x)) = Len(s) + 1
         /\ Positions(s, kind, k) # {} => Positions(Append(s, x), kind, k) # {}
         /\ x.kind = kind /\ x.key = k /\ x.live => Positions(Append(s, x), kind, k) # {}
         /\ Count(Append(s, x), kind) <= Count(s, kind) + 1
         /\ x.kind # kind => Count(Append(s, x), kind) = Count(s, kind)
<1> DEFINE a == Append(s, x)
           T(q) == {i \in DOMAIN q : q[i].kind = kind}
<1>1. /\ a \in Seq(Item) /\ Len(a) = Len(s) + 1 /\ a[Len(s) + 1] = x
      /\ \A i \in 1..Len(s) : a[i] = s[i]
      /\ DOMAIN a = 1..(Len(s) + 1) /\ DOMAIN s = 1..Len(s) /\ Len(s) \in Nat
  OBVIOUS
<1> HIDE DEF a
<1>2. Positions(s, kind, k) # {} => Positions(a, kind, k) # {}
  BY <1>1 DEF Positions
<1>3. x.kind = kind /\ x.key = k /\ x.live => Positions(a, kind, k) # {}
  <2>1. Len(s) + 1 \in DOMAIN a
    BY <1>1
  <2> QED BY <1>1, <2>1 DEF Positions
<1>4. T(a) \subseteq T(s) \cup {Len(s) + 1}
  BY <1>1
<1>5. x.kind # kind => T(a) = T(s)
  BY <1>1
<1>6. IsFiniteSet(T(s))
  BY Zenon, CountType
<1>7. Cardinality(T(a)) <= Cardinality(T(s)) + 1
  <2> HIDE DEF T
  <2> QED BY <1>4, <1>6, CardinalityBounds
<1> QED BY Zenon, <1>1, <1>2, <1>3, <1>5, <1>7 DEF a, Count

\* sendToQueue for the faces in U: every item stays, and a queue with room
\* takes the new one.
AfterEnqueue(L, item, U) ==
  /\ LanesOK(L)
  /\ \A f \in Face, kind \in {"interest", "data"}, k \in Key :
       /\ Positions(lane[f], kind, k) # {} => Positions(L[f], kind, k) # {}
       /\ f \in U /\ HasRoom(f) /\ item.kind = kind /\ item.key = k /\ item.live =>
            Positions(L[f], kind, k) # {}
  /\ \A f \in Face, kind \in {"interest", "data"} :
       /\ f \notin U \/ item.kind # kind => Count(L[f], kind) = Count(lane[f], kind)
       /\ Count(L[f], kind) <= Count(lane[f], kind) + 1

\* DoEnqueue on the faces of U.
LEMMA EnqueueFields ==
  ASSUME LanesOK(lane), NEW item \in Item, NEW U, U \subseteq faces
  PROVE  AfterEnqueue(Enqueue(item, U), item, U)
<1> DEFINE L == Enqueue(item, U)
<1>1. DOMAIN L = Face /\ L = [f \in Face |-> L[f]]
  BY DEF Enqueue
<1>2. ASSUME NEW f \in Face
      PROVE  /\ L[f] \in Seq(Item) /\ Len(L[f]) <= QueueSize
             /\ f \notin faces => L[f] = <<>>
             /\ \A kind, k :
                  /\ Positions(lane[f], kind, k) # {} => Positions(L[f], kind, k) # {}
                  /\ f \in U /\ HasRoom(f) /\ item.kind = kind /\ item.key = k /\ item.live =>
                       Positions(L[f], kind, k) # {}
             /\ \A kind :
                  /\ f \notin U \/ item.kind # kind => Count(L[f], kind) = Count(lane[f], kind)
                  /\ Count(L[f], kind) <= Count(lane[f], kind) + 1
  <2> DEFINE s == lane[f]
  <2>1. s \in Seq(Item) /\ Len(s) <= QueueSize /\ Len(s) \in Nat /\ (f \notin faces => s = <<>>)
    BY DEF LanesOK
  <2>2. CASE f \in U /\ HasRoom(f)
    <3>1. L[f] = Append(s, item) /\ Len(s) < QueueSize /\ QueueSize \in Nat
      BY <2>2, QueueAssumption DEF Enqueue, HasRoom
    <3> HIDE DEF s, L
    <3>2. L[f] \in Seq(Item) /\ Len(L[f]) = Len(s) + 1
      BY <2>1, <3>1, AppendFields
    <3>3. Len(L[f]) <= QueueSize
      BY <2>1, <3>1, <3>2
    <3>4. ASSUME NEW kind, NEW k
          PROVE  /\ Positions(s, kind, k) # {} => Positions(L[f], kind, k) # {}
                 /\ item.kind = kind /\ item.key = k /\ item.live => Positions(L[f], kind, k) # {}
                 /\ Count(L[f], kind) <= Count(s, kind) + 1
                 /\ item.kind # kind => Count(L[f], kind) = Count(s, kind)
      <4> DEFINE a == Append(s, item)
      <4>1. /\ Positions(s, kind, k) # {} => Positions(a, kind, k) # {}
            /\ item.kind = kind /\ item.key = k /\ item.live => Positions(a, kind, k) # {}
            /\ Count(a, kind) <= Count(s, kind) + 1
            /\ item.kind # kind => Count(a, kind) = Count(s, kind)
        BY <2>1, AppendFields, Zenon
      <4> QED BY <3>1, <4>1
    <3> QED BY <2>2, <3>2, <3>3, <3>4 DEF s
  <2>3. CASE ~(f \in U /\ HasRoom(f))
    <3>1. L[f] = s
      BY <2>3 DEF Enqueue
    <3>2. \A kind : Count(s, kind) \in Nat
      BY Zenon, <2>1, CountType
    <3>3. \A kind : Count(s, kind) <= Count(s, kind) + 1
      BY <3>2
    <3> HIDE DEF L
    <3> QED BY <2>1, <2>3, <3>1, <3>3, Zenon
  <2> QED BY <2>2, <2>3
<1> HIDE DEF L
<1>3. LanesOK(L)
  BY <1>1, <1>2 DEF LanesOK
<1> QED BY Zenon, <1>2, <1>3 DEF AfterEnqueue, L
-----------------------------------------------------------------------------
(* The PIT after a call of prioritySend.                                    *)

GotInterest(S, k) == {f \in Face : Positions(S[f], "interest", k) # {}}
GotData(S, k) == {f \in Face : Positions(S[f], "data", k) # {}}

\* x is entry e of k once the packets S left.
AfterSend(x, e, k, S) ==
  /\ IsEntry(x)
  /\ DOMAIN x.inr = DOMAIN e.inr \ GotData(S, k)
  /\ \A g \in DOMAIN x.inr : x.inr[g] = e.inr[g]
  /\ DOMAIN x.outr = DOMAIN e.outr \cup GotInterest(S, k)
  /\ x.timer = e.timer /\ x.satisfied = e.satisfied /\ x.stale = e.stale

\* An entry after the items of its queues that left.
LEMMA SendFields ==
  ASSUME NEW e, IsEntry(e), NEW k, NEW S, LanesOK(S), now \in Nat
  PROVE  /\ AfterSend(EntryAfterSend(e, k, S), e, k, S)
         /\ GotInterest(S, k) \subseteq faces
<1> DEFINE U == {f \in Face : Positions(S[f], "interest", k) # {}}
           D == {f \in Face : Positions(S[f], "data", k) # {}}
           last(f) == S[f][Max(Positions(S[f], "interest", k))]
           b(f) == f \in DOMAIN e.outr /\ e.outr[f].nacked
           r(f) == [nonce |-> last(f).nonce, expiry |-> now + last(f).life, nacked |-> b(f)]
           x == EntryAfterSend(e, k, S)
<1>1. \A f \in U : last(f).nonce \in Nonce /\ last(f).life \in Nat /\ f \in faces
  <2> SUFFICES ASSUME NEW f \in U
               PROVE  last(f).nonce \in Nonce /\ last(f).life \in Nat /\ f \in faces
    OBVIOUS
  <2> DEFINE P == Positions(S[f], "interest", k)
  <2>1. f \in Face /\ P # {} /\ S[f] \in Seq(Item) /\ (f \notin faces => S[f] = <<>>)
    BY DEF LanesOK
  <2>2. P \in SUBSET Nat /\ Len(S[f]) \in Nat /\ \A i \in P : i <= Len(S[f]) /\ i \in 1..Len(S[f])
    BY <2>1 DEF Positions
  <2>3. Max(P) \in P
    BY <2>1, <2>2, MaxOfBounded
  <2>4. last(f) \in Item /\ last(f).kind = "interest"
    <3>1. Max(P) \in 1..Len(S[f]) /\ S[f][Max(P)].kind = "interest"
      BY <2>3, <2>2 DEF Positions
    <3> QED BY <2>1, <3>1
  <2>5. f \in faces
    BY <2>1, <2>2, <2>3
  <2>6. last(f).nonce \in Nonce /\ last(f).life \in Lifetime
    BY <2>4 DEF Item
  <2> QED BY Zenon, <2>5, <2>6, LifetimeAssumption
<1>2. \A f \in U : r(f) \in OutRecord
  <2> SUFFICES ASSUME NEW f \in U
               PROVE  r(f) \in OutRecord
    OBVIOUS
  <2>1. b(f) \in BOOLEAN
    OBVIOUS
  <2>2. last(f).nonce \in Nonce /\ now + last(f).life \in Nat
    BY <1>1
  <2> HIDE DEF b, last
  <2> QED BY <2>1, <2>2 DEF OutRecord
<1>3. x = [e EXCEPT !.inr = Restrict(@, DOMAIN @ \ D),
                    !.outr = [f \in DOMAIN @ \cup U |-> IF f \in U THEN r(f) ELSE @[f]]]
  BY DEF EntryAfterSend
<1> HIDE DEF r, U, D, x
<1>4. /\ DOMAIN x = {"inr", "outr", "timer", "satisfied", "stale"}
      /\ DOMAIN x.inr = DOMAIN e.inr \ D
      /\ \A g \in DOMAIN x.inr : x.inr[g] = e.inr[g]
      /\ DOMAIN x.outr = DOMAIN e.outr \cup U
      /\ \A g \in DOMAIN x.outr : x.outr[g] = IF g \in U THEN r(g) ELSE e.outr[g]
      /\ x.timer = e.timer /\ x.satisfied = e.satisfied /\ x.stale = e.stale
  BY <1>3 DEF Restrict, IsEntry
<1>5. U \subseteq Face
  BY DEF U
<1>6. IsEntry(x)
  BY <1>2, <1>4, <1>5 DEF IsEntry
<1>7. GotInterest(S, k) = U /\ GotData(S, k) = D
  BY DEF GotInterest, GotData, U, D
<1>8. U \subseteq faces
  BY <1>1
<1> QED BY <1>4, <1>6, <1>7, <1>8 DEF AfterSend, x
\* The queues and the balance once the packets S of the queues L left, and an
\* Interest of the faces in A was accepted.
Leaves(L, S, A) ==
  /\ LanesOK(L) /\ LanesOK(S) /\ LanesOK(lane')
  /\ \A f \in Face : Splits(L[f], S[f], lane'[f])
  /\ balance' \in [Face -> Int]
  /\ \A f \in Face : balance'[f] = balance[f] + (IF f \in A THEN 1 ELSE 0) - Count(S[f], "data")

\* prioritySend splits every queue and books the Data it sends.
LEMMA PrioritySendFields ==
  ASSUME QosTypeOK, NEW L, LanesOK(L), NEW c \in Departures(L), NEW A, PrioritySend(L, c, A)
  PROVE  Leaves(L, Sent(L, c), A)
<1> DEFINE S == Sent(L, c)
<1>1. LanesOK(S) /\ LanesOK(lane') /\ \A f \in Face : Splits(L[f], S[f], lane'[f])
  BY SendSplits DEF PrioritySend
<1>2. balance' = [f \in Face |-> balance[f] + (IF f \in A THEN 1 ELSE 0) - Count(S[f], "data")]
  BY DEF PrioritySend
<1> HIDE DEF S
<1>3. \A f \in Face : Count(S[f], "data") \in Nat
  BY Zenon, <1>1, CountType DEF LanesOK
<1>4. \A f \in Face : balance[f] \in Int
  BY DEF QosTypeOK
<1>5. balance' \in [Face -> Int]
  BY <1>2, <1>3, <1>4
<1> QED BY <1>1, <1>2, <1>5 DEF Leaves, S

\* afterReceiveInterest: the entry has the new in-record unless it was nacked,
\* and it waits only if it is upstream or some queue took the Interest.
AfterInterest(f, k, U, L, S) ==
  LET e == pit'[k]
      o == EntryOf(k)
  IN  /\ f \in faces /\ U \subseteq faces
      /\ DOMAIN pit' = DOMAIN pit \cup {k}
      /\ \A j \in DOMAIN pit : j # k => AfterSend(pit'[j], pit[j], j, S)
      /\ IsEntry(e)
      /\ DOMAIN e.inr \subseteq DOMAIN o.inr \cup {f}
      /\ \A g \in DOMAIN e.inr : e.inr[g].expiry <= MaxTime
      /\ DOMAIN e.outr = DOMAIN o.outr \cup GotInterest(S, k)
      /\ e.timer \in now..MaxTime /\ e.satisfied = o.satisfied
      /\ e.timer = now \/ Taken(U) \/ DOMAIN e.outr # {}

\* afterReceiveInterest: the item is queued, then prioritySend runs.
LEMMA InterestFields ==
  ASSUME QosTypeOK, NEW f \in Face, NEW k \in Key, NEW n \in Nonce, NEW life \in Lifetime,
         NEW U \in SUBSET Face, QosInterest(f, k, n, life, U)
  PROVE  LET L == Enqueue(InterestItem(k, n, life), U)
         IN  \E S : /\ AfterEnqueue(L, InterestItem(k, n, life), U)
                    /\ Leaves(L, S, {f}) /\ AfterInterest(f, k, U, L, S)
<1> DEFINE item == InterestItem(k, n, life)
           L == Enqueue(item, U)
           o == EntryOf(k)
           m == EntryAfterMiss(f, k, n, life)
           p == Put(pit, k, m)
           sent(c) == PitAfterSend(p, Sent(L, c))
<1>1. /\ f \in faces /\ now + life <= MaxTime /\ U \subseteq faces /\ faces \subseteq Face
      /\ now \in Nat /\ MaxTime \in Nat
  BY BoundsAssumption DEF QosInterest, InterestAccepted, Receive, Forwardable, QosTypeOK, PitTypeOK, TypeOK
<1>2. item \in Item
  BY DEF InterestItem, Item
<1>3. AfterEnqueue(L, item, U)
  BY <1>1, <1>2, EnqueueFields DEF QosTypeOK
<1>4. PICK c \in Departures(L) :
        /\ PrioritySend(L, c, {f})
        /\ \/ /\ Taken(U) \/ DOMAIN sent(c)[k].outr # {}
              /\ pit' = sent(c)
           \/ \E D : pit' = Put(sent(c), k, [NackTo(sent(c)[k], D) EXCEPT !.timer = now])
  BY Zenon DEF QosInterest
<1> DEFINE S == Sent(L, c)
           x == EntryAfterSend(m, k, S)
<1>5. Leaves(L, S, {f}) /\ LanesOK(S)
  BY <1>3, <1>4, PrioritySendFields DEF AfterEnqueue, Leaves
<1> PitTypeOK
  BY DEF QosTypeOK
<1>6. /\ IsEntry(m)
      /\ DOMAIN m.inr = DOMAIN o.inr \cup {f}
      /\ m.inr[f] = [nonce |-> n, expiry |-> now + life]
      /\ \A g \in DOMAIN o.inr : g # f => m.inr[g] = o.inr[g]
      /\ \A g \in DOMAIN m.inr : m.inr[g].expiry <= m.timer
      /\ m.timer \in now..MaxTime
      /\ m.outr = o.outr /\ m.satisfied = o.satisfied /\ m.stale = o.stale
  BY <1>1, MissFields
<1>7. \A g \in DOMAIN m.inr : m.inr[g].expiry <= MaxTime
  <2>1. \A g \in DOMAIN m.inr : m.inr[g].expiry \in Nat
    BY <1>6 DEF IsEntry, InRecord
  <2>2. m.timer \in Nat /\ m.timer <= MaxTime
    BY <1>1, <1>6
  <2> HIDE DEF m, o
  <2> QED BY <1>1, <1>6, <2>1, <2>2
<1>8. AfterSend(x, m, k, S)
  BY <1>1, <1>5, <1>6, SendFields
<1> HIDE DEF m, o, L, item
<1>9. /\ DOMAIN sent(c) = DOMAIN pit \cup {k} /\ sent(c)[k] = x
      /\ \A j \in DOMAIN pit : j # k => sent(c)[j] = EntryAfterSend(pit[j], j, S)
  BY DEF PitAfterSend, Put
<1> DEFINE q == sent(c)
<1> HIDE DEF S, x, q
<1>10. \A j \in DOMAIN pit : j # k => AfterSend(q[j], pit[j], j, S)
  <2> SUFFICES ASSUME NEW j \in DOMAIN pit, j # k
               PROVE  AfterSend(q[j], pit[j], j, S)
    OBVIOUS
  <2>1. IsEntry(pit[j])
    BY DEF QosTypeOK, PitTypeOK, TypeOK
  <2>2. AfterSend(EntryAfterSend(pit[j], j, S), pit[j], j, S)
    BY <1>1, <1>5, <2>1, SendFields
  <2> QED BY <1>9, <2>2 DEF q
<1>11. AfterInterest(f, k, U, L, S)
  <2>0. /\ IsEntry(x) /\ DOMAIN x.inr \subseteq DOMAIN o.inr \cup {f}
        /\ \A g \in DOMAIN x.inr : x.inr[g].expiry <= MaxTime
        /\ DOMAIN x.outr = DOMAIN o.outr \cup GotInterest(S, k)
        /\ x.timer \in now..MaxTime /\ x.satisfied = o.satisfied
    BY <1>6, <1>7, <1>8 DEF AfterSend
  <2>1. CASE (Taken(U) \/ DOMAIN q[k].outr # {}) /\ pit' = q
    <3>1. pit'[k] = x /\ DOMAIN pit' = DOMAIN pit \cup {k}
      BY <1>9, <2>1 DEF q
    <3> QED BY <1>1, <1>10, <2>0, <2>1, <3>1 DEF AfterInterest, o
  <2>2. ASSUME NEW D, pit' = Put(q, k, [NackTo(q[k], D) EXCEPT !.timer = now])
        PROVE  AfterInterest(f, k, U, L, S)
    <3> DEFINE y == [NackTo(x, D) EXCEPT !.timer = now]
    <3>1. /\ DOMAIN y.inr \subseteq DOMAIN x.inr
          /\ \A g \in DOMAIN y.inr : y.inr[g] = x.inr[g]
          /\ y.outr = x.outr /\ y.timer = now /\ y.satisfied = x.satisfied /\ y.stale = x.stale
          /\ DOMAIN y = {"inr", "outr", "timer", "satisfied", "stale"}
      BY <2>0 DEF NackTo, Restrict, IsEntry
    <3>2. pit' = Put(q, k, y)
      BY <1>9, <2>2 DEF q
    <3> HIDE DEF y
    <3>3. DOMAIN pit' = DOMAIN pit \cup {k} /\ pit'[k] = y /\ \A j \in DOMAIN pit : j # k => pit'[j] = q[j]
      BY <1>9, <3>2 DEF Put, q
    <3>4. IsEntry(y)
      BY <1>1, <2>0, <3>1 DEF IsEntry
    <3>5. y.timer \in now..MaxTime
      BY <1>1, <2>0, <3>1
    <3> QED BY <1>1, <1>10, <2>0, <3>1, <3>3, <3>4, <3>5 DEF AfterInterest, o
  <2> QED BY Zenon, <1>4, <2>1, <2>2 DEF q, L, m, o, item
<1> QED BY <1>3, <1>5, <1>11 DEF L, item
\* afterReceiveData for entry k: it is satisfied, and its in-records stay but
\* for the downstreams whose Data left at once.
AfterData(f, d, k, L, S) ==
  LET e == pit'[k]
      o == pit[k]
  IN  /\ MatchedBy(d) = {k} /\ k \in DOMAIN pit /\ DOMAIN pit' = DOMAIN pit
      /\ \A j \in DOMAIN pit : j # k => AfterSend(pit'[j], pit[j], j, S)
      /\ IsEntry(e)
      /\ DOMAIN e.inr \subseteq DOMAIN o.inr /\ \A g \in DOMAIN e.inr : e.inr[g] = o.inr[g]
      /\ DOMAIN e.outr \subseteq DOMAIN o.outr \cup GotInterest(S, k)
      /\ e.timer = now /\ e.satisfied
      /\ dnl' \subseteq {NameOf[j] : j \in Key} \X Nonce

\* afterReceiveData: Data is queued for the pending downstreams, then
\* prioritySend runs.
LEMMA QosDataFields ==
  ASSUME QosTypeOK, NEW f \in Face, NEW d \in Data, NEW k \in Key, QosData(f, d, k)
  PROVE  LET D == PendingDownstreams(pit[k], f, now)
             L == Enqueue(DataItem(k), D)
         IN  \E S : /\ AfterEnqueue(L, DataItem(k), D) /\ D \subseteq DOMAIN pit[k].inr
                    /\ Leaves(L, S, {}) /\ AfterData(f, d, k, L, S)
<1> DEFINE D == PendingDownstreams(pit[k], f, now)
           L == Enqueue(DataItem(k), D)
           b == d \in StaleData
           t(q) == [q EXCEPT !.timer = now, !.satisfied = TRUE, !.stale = b]
           T == {NameOf[j] : j \in Key} \X Nonce
<1>1. k \in DOMAIN pit /\ MatchedBy(d) = {k} /\ now \in Nat /\ b \in BOOLEAN
  BY DEF QosData, MatchedBy, QosTypeOK, PitTypeOK, TypeOK
<1>2. \A j \in DOMAIN pit : IsEntry(pit[j]) /\ DOMAIN pit[j].inr \cup DOMAIN pit[j].outr \subseteq faces
  BY DEF QosTypeOK, PitTypeOK, TypeOK
<1>3. D \subseteq DOMAIN pit[k].inr /\ D \subseteq faces
  BY <1>1, <1>2 DEF PendingDownstreams
<1>4. DataItem(k) \in Item
  BY DEF DataItem, Item
<1>5. AfterEnqueue(L, DataItem(k), D)
  BY <1>3, <1>4, EnqueueFields DEF QosTypeOK
<1>6. PICK c \in Departures(L) :
        LET p == PitAfterSend(pit, Sent(L, c))
        IN  /\ PrioritySend(L, c, {})
            /\ pit' = Put(p, k, deleteOutRecord(t(p[k]), f))
            /\ dnl' = dnl \cup DeadNonces(k, t(p[k]), {f})
  BY Zenon DEF QosData
<1> DEFINE S == Sent(L, c)
           p == PitAfterSend(pit, S)
           x == p[k]
           y == t(x)
           z == deleteOutRecord(y, f)
<1>7. Leaves(L, S, {}) /\ LanesOK(S)
  BY <1>5, <1>6, PrioritySendFields DEF AfterEnqueue, Leaves
<1> HIDE DEF L, D, b
<1>8. DOMAIN p = DOMAIN pit /\ \A j \in DOMAIN pit : p[j] = EntryAfterSend(pit[j], j, S)
  BY DEF PitAfterSend
<1>9. pit' = Put(p, k, z) /\ dnl' = dnl \cup DeadNonces(k, y, {f})
  BY <1>6
<1> HIDE DEF S, p
<1>10. \A j \in DOMAIN pit : AfterSend(p[j], pit[j], j, S)
  <2> SUFFICES ASSUME NEW j \in DOMAIN pit
               PROVE  AfterSend(p[j], pit[j], j, S)
    OBVIOUS
  <2>1. AfterSend(EntryAfterSend(pit[j], j, S), pit[j], j, S)
    BY <1>1, <1>2, <1>7, SendFields
  <2> QED BY <1>8, <2>1
<1>11. /\ IsEntry(x)
       /\ DOMAIN x.inr \subseteq DOMAIN pit[k].inr /\ \A g \in DOMAIN x.inr : x.inr[g] = pit[k].inr[g]
       /\ DOMAIN x.outr = DOMAIN pit[k].outr \cup GotInterest(S, k)
  BY <1>1, <1>10 DEF AfterSend
<1> HIDE DEF x
<1>12. /\ DOMAIN y = {"inr", "outr", "timer", "satisfied", "stale"}
       /\ y.inr = x.inr /\ y.outr = x.outr /\ y.timer = now /\ y.satisfied = TRUE /\ y.stale = b
  BY <1>11 DEF IsEntry
<1> HIDE DEF y, t
<1>13. /\ DOMAIN z = {"inr", "outr", "timer", "satisfied", "stale"}
       /\ z.inr = x.inr /\ DOMAIN z.outr \subseteq DOMAIN x.outr
       /\ \A g \in DOMAIN z.outr : z.outr[g] = x.outr[g]
       /\ z.timer = now /\ z.satisfied = TRUE /\ z.stale = b
  BY <1>12 DEF deleteOutRecord, Remove, Restrict
<1> HIDE DEF z
<1>14. IsEntry(z)
  BY Zenon, <1>1, <1>11, <1>13 DEF IsEntry
<1>15. /\ DOMAIN pit' = DOMAIN pit /\ pit'[k] = z
       /\ \A j \in DOMAIN pit : j # k => pit'[j] = p[j]
  BY <1>1, <1>8, <1>9 DEF Put
<1>16. dnl' \subseteq T
  <2>1. \A u \in DOMAIN y.outr : y.outr[u].nonce \in Nonce
    BY <1>11, <1>12 DEF IsEntry, OutRecord
  <2>2. DeadNonces(k, y, {f}) \subseteq T
    BY <2>1, DeadNoncesType
  <2>3. dnl \subseteq T
    BY DEF QosTypeOK, PitTypeOK, TypeOK
  <2> HIDE DEF T
  <2> QED BY <1>9, <2>2, <2>3
<1>17. AfterData(f, d, k, L, S)
  BY Zenon, <1>1, <1>10, <1>11, <1>13, <1>14, <1>15, <1>16 DEF AfterData
<1> QED BY <1>3, <1>5, <1>7, <1>17 DEF L, D

\* A send signal.
LEMMA WakeFields ==
  ASSUME QosTypeOK, Wake
  PROVE  \E S : /\ Leaves(lane, S, {}) /\ DOMAIN pit' = DOMAIN pit
                /\ \A j \in DOMAIN pit : AfterSend(pit'[j], pit[j], j, S)
<1>1. PICK c \in Departures(lane) :
        PrioritySend(lane, c, {}) /\ pit' = PitAfterSend(pit, Sent(lane, c))
  BY DEF Wake
<1> DEFINE S == Sent(lane, c)
<1>2. Leaves(lane, S, {}) /\ LanesOK(S)
  BY <1>1, PrioritySendFields DEF QosTypeOK, Leaves
<1>3. DOMAIN pit' = DOMAIN pit /\ \A j \in DOMAIN pit : pit'[j] = EntryAfterSend(pit[j], j, S)
  BY <1>1 DEF PitAfterSend
<1> HIDE DEF S
<1>4. ASSUME NEW j \in DOMAIN pit
      PROVE  AfterSend(pit'[j], pit[j], j, S)
  <2>1. IsEntry(pit[j]) /\ now \in Nat
    BY DEF QosTypeOK, PitTypeOK, TypeOK
  <2>2. AfterSend(EntryAfterSend(pit[j], j, S), pit[j], j, S)
    BY <1>2, <2>1, SendFields
  <2> QED BY <1>3, <2>2
<1> QED BY <1>2, <1>3, <1>4
\* onInterestFinalize: the items of k no longer belong to an entry.
LEMMA FinalizeLanes ==
  ASSUME QosTypeOK, NEW k, QosFinalize(k)
  PROVE  /\ LanesOK(lane')
         /\ \A f \in Face :
              /\ Count(lane'[f], "data") = Count(lane[f], "data")
              /\ \A j : j # k => Positions(lane'[f], "interest", j) = Positions(lane[f], "interest", j)
<1> DEFINE x(f, i) == IF lane[f][i].key = k THEN [lane[f][i] EXCEPT !.live = FALSE] ELSE lane[f][i]
<1>1. lane' = [f \in Face |-> [i \in DOMAIN lane[f] |-> x(f, i)]]
  BY DEF QosFinalize
<1>2. ASSUME NEW f \in Face
      PROVE  /\ lane'[f] \in Seq(Item) /\ Len(lane'[f]) <= QueueSize
             /\ f \notin faces => lane'[f] = <<>>
             /\ Count(lane'[f], "data") = Count(lane[f], "data")
             /\ \A j : j # k => Positions(lane'[f], "interest", j) = Positions(lane[f], "interest", j)
  <2> DEFINE s == lane[f]
  <2>1. s \in Seq(Item) /\ Len(s) <= QueueSize /\ (f \notin faces => s = <<>>)
    BY DEF QosTypeOK, LanesOK
  <2>2. DOMAIN s = 1..Len(s) /\ Len(s) \in Nat
    BY <2>1
  <2>3. lane'[f] = [i \in 1..Len(s) |-> x(f, i)]
    BY <1>1, <2>2
  <2>4. \A i \in 1..Len(s) : /\ x(f, i) \in Item /\ x(f, i).kind = s[i].kind
                             /\ x(f, i).key = s[i].key
                             /\ s[i].key # k => x(f, i) = s[i]
    <3> SUFFICES ASSUME NEW i \in 1..Len(s)
                 PROVE  /\ x(f, i) \in Item /\ x(f, i).kind = s[i].kind
                        /\ x(f, i).key = s[i].key
                        /\ s[i].key # k => x(f, i) = s[i]
      OBVIOUS
    <3> DEFINE y == s[i]
               z == [y EXCEPT !.live = FALSE]
    <3>1. y \in Item
      BY <2>1
    <3>2. z \in Item /\ z.kind = y.kind /\ z.key = y.key
      <4> HIDE DEF y
      <4>1. CASE y \in [kind : {"interest"}, key : Key, nonce : Nonce, life : Lifetime, live : BOOLEAN]
        BY Zenon, <4>1 DEF Item
      <4>2. CASE y \in [kind : {"data"}, key : Key, live : BOOLEAN]
        BY Zenon, <4>2 DEF Item
      <4> QED BY <3>1, <4>1, <4>2 DEF Item
    <3>3. x(f, i) = IF y.key = k THEN z ELSE y
      OBVIOUS
    <3> HIDE DEF y, z, x
    <3> QED BY <3>1, <3>2, <3>3 DEF y
  <2> HIDE DEF x, s
  <2>5. lane'[f] \in [1..Len(s) -> Item]
    BY <2>3, <2>4
  <2>6. lane'[f] \in Seq(Item) /\ Len(lane'[f]) = Len(s) /\ DOMAIN lane'[f] = DOMAIN s
    BY <2>2, <2>5, SeqDef
  <2>7. \A i \in DOMAIN s : /\ lane'[f][i].kind = s[i].kind /\ lane'[f][i].key = s[i].key
                            /\ s[i].key # k => lane'[f][i] = s[i]
    BY <2>2, <2>3, <2>4
  <2>8. Count(lane'[f], "data") = Count(s, "data")
    <3>1. {i \in DOMAIN lane'[f] : lane'[f][i].kind = "data"} = {i \in DOMAIN s : s[i].kind = "data"}
      BY <2>6, <2>7
    <3> QED BY <3>1 DEF Count
  <2>9. \A j : j # k => Positions(lane'[f], "interest", j) = Positions(s, "interest", j)
    BY <2>6, <2>7 DEF Positions
  <2>10. f \notin faces => lane'[f] = <<>>
    <3>1. f \notin faces => Len(s) = 0
      BY <2>1
    <3> QED BY Zenon, <2>6, <3>1, EmptySeq
  <2> QED BY <2>1, <2>6, <2>8, <2>9, <2>10 DEF s
<1>3. lane' \in [Face -> Seq(Item)]
  <2>1. DOMAIN lane' = Face /\ lane' = [f \in Face |-> lane'[f]]
    BY <1>1
  <2> HIDE DEF x
  <2> QED BY <1>2, <2>1
<1> QED BY <1>2, <1>3 DEF LanesOK

\* Every step keeps the types.
LEMMA QosTypeStep ==
  ASSUME QosTypeOK, [QosNext]_qvars
  PROVE  QosTypeOK'
<1> PitTypeOK /\ LanesOK(lane) /\ balance \in [Face -> Int] /\ repeated \in Nat
  BY DEF QosTypeOK
<1>0. PitOK /\ RestOK /\ now \in 0..MaxTime /\ MaxTime \in Nat
  BY TypeParts, BoundsAssumption DEF RestOK
<1>a. ASSUME NEW x, NEW e, NEW j, NEW S, LanesOK(S), EntryOK(e), AfterSend(x, e, j, S)
      PROVE  EntryOK(x)
  <2>1. GotInterest(S, j) \subseteq faces
    BY <1>a, <1>0, SendFields DEF EntryOK
  <2> QED BY <1>a, <2>1 DEF EntryOK, AfterSend
<1>b. ASSUME PitOK', RestOK', LanesOK(lane'), balance' \in [Face -> Int], repeated' \in Nat,
             faces' = faces
      PROVE  QosTypeOK'
  <2>1. PitTypeOK'
    BY <1>b DEF PitTypeOK, TypeOK, TimerArmed, PitOK, RestOK, EntryOK
  <2> QED BY <1>b, <2>1 DEF QosTypeOK, LanesOK
<1>c. ASSUME NEW d
      PROVE  Repeats(d) \in Nat
  BY DEF Repeats
<1>1. ASSUME NEW f \in Face, NEW k \in Key, NEW n \in Nonce, NEW life \in Lifetime,
             NEW U \in SUBSET Face, QosInterest(f, k, n, life, U)
      PROVE  QosTypeOK'
  <2> DEFINE L == Enqueue(InterestItem(k, n, life), U)
  <2>1. PICK S : Leaves(L, S, {f}) /\ AfterInterest(f, k, U, L, S)
    BY Zenon, <1>1, InterestFields
  <2>2. Receive(f) /\ UNCHANGED <<faces, now, dnl, cs, repeated>>
    BY <1>1 DEF QosInterest, InterestAccepted
  <2>3. RestOK'
    BY <1>0, <2>2, ReceiveType DEF RestOK
  <2> HIDE DEF L
  <2>4. LanesOK(S) /\ LanesOK(lane') /\ balance' \in [Face -> Int]
    BY <2>1 DEF Leaves
  <2>5. /\ f \in faces /\ DOMAIN pit' = DOMAIN pit \cup {k}
        /\ \A j \in DOMAIN pit : j # k => AfterSend(pit'[j], pit[j], j, S)
    BY <2>1 DEF AfterInterest
  <2>6. EntryOK(pit'[k])
    <3> DEFINE e == pit'[k]
               o == EntryOf(k)
    <3>1. /\ IsEntry(e) /\ DOMAIN e.inr \subseteq DOMAIN o.inr \cup {f}
          /\ \A g \in DOMAIN e.inr : e.inr[g].expiry <= MaxTime
          /\ DOMAIN e.outr = DOMAIN o.outr \cup GotInterest(S, k)
          /\ e.timer \in now..MaxTime
      BY <2>1 DEF AfterInterest
    <3>2. DOMAIN o.inr \cup DOMAIN o.outr \subseteq faces
      BY EntryOfType
    <3>3. GotInterest(S, k) \subseteq faces
      BY <1>0, <2>4, <3>1, SendFields
    <3> HIDE DEF e, o
    <3>4. EntryOK(e)
      BY <2>5, <3>1, <3>2, <3>3 DEF EntryOK
    <3> QED BY <3>4 DEF e
  <2>7. \A j \in DOMAIN pit' : EntryOK(pit'[j])
    BY <1>0, <1>a, <2>4, <2>5, <2>6 DEF PitOK
  <2>8. DOMAIN pit' \subseteq Key /\ IsFiniteSet(DOMAIN pit')
    BY <1>0, <2>5, FS_AddElement DEF PitOK
  <2>9. PitOK'
    BY <2>2, <2>7, <2>8 DEF PitOK, EntryOK
  <2> QED BY <1>b, <2>2, <2>3, <2>4, <2>9
<1>2. ASSUME NEW f \in Face, NEW d \in Data, NEW k \in Key, QosData(f, d, k)
      PROVE  QosTypeOK'
  <2> DEFINE L == Enqueue(DataItem(k), PendingDownstreams(pit[k], f, now))
  <2>1. PICK S : Leaves(L, S, {}) /\ AfterData(f, d, k, L, S)
    BY <1>2, QosDataFields
  <2>2. /\ Receive(f) /\ UNCHANGED <<faces, now>> /\ cs' = cs \cup {d}
        /\ repeated' = Repeats(d)
    BY <1>2 DEF QosData
  <2>3. RestOK'
    BY <1>0, <2>1, <2>2, ReceiveType DEF RestOK, AfterData
  <2> HIDE DEF L
  <2>4. LanesOK(S) /\ LanesOK(lane') /\ balance' \in [Face -> Int]
    BY <2>1 DEF Leaves
  <2>5. /\ k \in DOMAIN pit /\ DOMAIN pit' = DOMAIN pit
        /\ \A j \in DOMAIN pit : j # k => AfterSend(pit'[j], pit[j], j, S)
    BY <2>1 DEF AfterData
  <2>6. EntryOK(pit'[k])
    <3> DEFINE e == pit'[k]
               o == pit[k]
    <3>1. /\ IsEntry(e) /\ DOMAIN e.inr \subseteq DOMAIN o.inr
          /\ \A g \in DOMAIN e.inr : e.inr[g] = o.inr[g]
          /\ DOMAIN e.outr \subseteq DOMAIN o.outr \cup GotInterest(S, k)
          /\ e.timer = now
      BY <2>1 DEF AfterData
    <3>2. EntryOK(o)
      BY <1>0, <2>5 DEF PitOK
    <3>3. GotInterest(S, k) \subseteq faces
      BY <1>0, <2>4, <3>1, SendFields
    <3> HIDE DEF e, o
    <3>4. EntryOK(e)
      BY <1>0, <3>1, <3>2, <3>3 DEF EntryOK
    <3> QED BY <3>4 DEF e
  <2>7. \A j \in DOMAIN pit' : EntryOK(pit'[j])
    BY <1>0, <1>a, <2>4, <2>5, <2>6 DEF PitOK
  <2>8. PitOK'
    BY <1>0, <2>2, <2>5, <2>7 DEF PitOK, EntryOK
  <2> QED BY <1>b, <1>c, <2>2, <2>3, <2>4, <2>8
<1>3. ASSUME Wake
      PROVE  QosTypeOK'
  <2>1. PICK S : /\ Leaves(lane, S, {}) /\ DOMAIN pit' = DOMAIN pit
                 /\ \A j \in DOMAIN pit : AfterSend(pit'[j], pit[j], j, S)
    BY <1>3, WakeFields
  <2>2. UNCHANGED <<faces, dnl, cs, now, received, repeated>>
    BY <1>3 DEF Wake
  <2>3. LanesOK(S) /\ LanesOK(lane') /\ balance' \in [Face -> Int]
    BY <2>1 DEF Leaves
  <2>4. \A j \in DOMAIN pit' : EntryOK(pit'[j])
    BY <1>0, <1>a, <2>1, <2>3 DEF PitOK
  <2>5. PitOK' /\ RestOK'
    BY <1>0, <2>1, <2>2, <2>4 DEF PitOK, EntryOK, RestOK
  <2> QED BY <1>b, <2>2, <2>3, <2>5
<1>4. ASSUME NEW f \in Face, NEW d \in Data, QosDataMany(f, d)
      PROVE  QosTypeOK'
  <2>1. IncomingData(f, d) /\ repeated' = Repeats(d) /\ lane' = lane
    BY <1>4 DEF QosDataMany
  <2>2. PitTypeOK' /\ faces' = faces
    BY Zenon, <2>1, PipelineTypeStep DEF Next, IncomingData
  <2>3. balance' \in [Face -> Int]
    BY <1>4 DEF QosDataMany
  <2> QED BY <1>c, <2>1, <2>2, <2>3 DEF QosTypeOK, LanesOK
<1>5. ASSUME NEW k \in Key, QosFinalize(k)
      PROVE  QosTypeOK'
  <2>1. InterestFinalize(k) /\ UNCHANGED <<balance, repeated>>
    BY <1>5 DEF QosFinalize
  <2>2. PitTypeOK' /\ faces' = faces
    BY <2>1, PipelineTypeStep DEF Next, InterestFinalize
  <2>3. LanesOK(lane')
    BY <1>5, FinalizeLanes
  <2> QED BY <2>1, <2>2, <2>3 DEF QosTypeOK, LanesOK
<1>6. ASSUME QosOther
      PROVE  QosTypeOK'
  <2>1. Next /\ UNCHANGED <<lane, balance, repeated>>
    BY <1>6 DEF QosOther, Next
  <2>2. faces' = faces
    BY Zenon, <1>6 DEF QosOther, InterestDropped, ContentStoreHit, InterestAccepted, IncomingNack, DataUnsolicited, Tick
  <2>3. PitTypeOK'
    BY <2>1, PipelineTypeStep
  <2> QED BY <2>1, <2>2, <2>3 DEF QosTypeOK, LanesOK
<1>7. CASE UNCHANGED qvars
  <2>1. PitTypeOK'
    BY <1>7, PipelineTypeStep DEF qvars
  <2> QED BY <1>7, <2>1 DEF qvars, vars, QosTypeOK, LanesOK
<1> QED BY <1>1, <1>2, <1>3, <1>4, <1>5, <1>6, <1>7 DEF QosNext
-----------------------------------------------------------------------------
(* NothingHangs.                                                            *)

\* An Interest leaves its queue only for an out-record.
LEMMA LeavingIsRecorded ==
  ASSUME NEW L, NEW S, NEW A, Leaves(L, S, A), NEW j, NEW f \in Face,
         Positions(L[f], "interest", j) # {}
  PROVE  GotInterest(S, j) # {} \/ Positions(lane'[f], "interest", j) # {}
<1>1. /\ L[f] \in Seq(Item) /\ S[f] \in Seq(Item) /\ lane'[f] \in Seq(Item)
      /\ Splits(L[f], S[f], lane'[f])
  BY DEF Leaves, LanesOK
<1>2. Positions(S[f], "interest", j) # {} \/ Positions(lane'[f], "interest", j) # {}
  BY <1>1, SentOrKept
<1> QED BY <1>2 DEF GotInterest

\* What NothingHangs asks of entry j.
Upstream(j) ==
  \/ DOMAIN pit[j].outr # {}
  \/ \E f \in Face : Positions(lane[f], "interest", j) # {}

\* An entry the packet is not about stays upstream.
LEMMA OthersStayUpstream ==
  ASSUME NEW L, NEW S, NEW A, Leaves(L, S, A), NEW j,
         \A f \in Face : Positions(lane[f], "interest", j) # {} => Positions(L[f], "interest", j) # {},
         AfterSend(pit'[j], pit[j], j, S), Upstream(j)
  PROVE  Upstream(j)'
<1>1. CASE DOMAIN pit[j].outr # {}
  BY <1>1 DEF AfterSend, Upstream
<1>2. ASSUME NEW f \in Face, Positions(lane[f], "interest", j) # {}
      PROVE  Upstream(j)'
  <2>1. GotInterest(S, j) # {} \/ Positions(lane'[f], "interest", j) # {}
    BY <1>2, LeavingIsRecorded
  <2> QED BY <2>1 DEF AfterSend, Upstream
<1> QED BY <1>1, <1>2 DEF Upstream

\* No step leaves an entry waiting for nothing.
LEMMA HangStep ==
  ASSUME QosTypeOK, NothingHangs, [QosNext]_qvars
  PROVE  NothingHangs'
<1> DEFINE Waits(j) == ~pit[j].satisfied /\ pit[j].timer > now
<1>0. \A j \in DOMAIN pit : Waits(j) => Upstream(j)
  BY DEF NothingHangs, Upstream
<1> SUFFICES ASSUME NEW j \in DOMAIN pit', Waits(j)'
             PROVE  Upstream(j)'
  BY DEF NothingHangs, Upstream
<1> PitTypeOK /\ LanesOK(lane)
  BY DEF QosTypeOK
<1>t. now \in Nat /\ \A i \in DOMAIN pit : pit[i].timer \in Int /\ pit[i].timer >= now /\ i \in Key
  BY BoundsAssumption DEF PitTypeOK, TypeOK, TimerArmed
<1>1. ASSUME NEW f \in Face, NEW k \in Key, NEW n \in Nonce, NEW life \in Lifetime,
             NEW U \in SUBSET Face, QosInterest(f, k, n, life, U)
      PROVE  Upstream(j)'
  <2> DEFINE item == InterestItem(k, n, life)
             L == Enqueue(item, U)
  <2>1. PICK S : AfterEnqueue(L, item, U) /\ Leaves(L, S, {f}) /\ AfterInterest(f, k, U, L, S)
    BY Zenon, <1>1, InterestFields
  <2>2. now' = now
    BY <1>1 DEF QosInterest, InterestAccepted
  <2>3. item.kind = "interest" /\ item.key = k /\ item.live
    BY DEF InterestItem
  <2> HIDE DEF item, L
  <2>4. \A g \in Face, i \in Key :
          /\ Positions(lane[g], "interest", i) # {} => Positions(L[g], "interest", i) # {}
          /\ g \in U /\ HasRoom(g) /\ i = k => Positions(L[g], "interest", i) # {}
    BY Zenon, <2>1, <2>3 DEF AfterEnqueue
  <2>5. DOMAIN pit' = DOMAIN pit \cup {k}
    BY Zenon, <2>1 DEF AfterInterest
  <2>6. CASE j = k
    <3>1. Taken(U) \/ DOMAIN pit'[k].outr # {}
      <4>1. pit'[k].timer = now \/ Taken(U) \/ DOMAIN pit'[k].outr # {}
        BY <2>1 DEF AfterInterest
      <4> QED BY <1>t, <2>2, <2>6, <4>1
    <3>2. CASE Taken(U)
      <4>1. PICK u \in U : HasRoom(u)
        BY <3>2 DEF Taken
      <4>2. Positions(L[u], "interest", k) # {}
        BY <2>4, <4>1
      <4>3. GotInterest(S, k) # {} \/ Positions(lane'[u], "interest", k) # {}
        BY <2>1, <4>2, LeavingIsRecorded
      <4> QED BY Zenon, <2>1, <2>6, <4>3 DEF AfterInterest, Upstream
    <3> QED BY <2>6, <3>1, <3>2 DEF Upstream
  <2>7. CASE j # k
    <3>1. j \in DOMAIN pit /\ AfterSend(pit'[j], pit[j], j, S)
      BY Zenon, <2>1, <2>5, <2>7 DEF AfterInterest
    <3>2. Upstream(j)
      BY <1>0, <2>2, <3>1 DEF AfterSend
    <3> QED BY Zenon, <1>t, <2>1, <2>4, <3>1, <3>2, OthersStayUpstream
  <2> QED BY <2>6, <2>7
<1>2. ASSUME NEW f \in Face, NEW d \in Data, NEW k \in Key, QosData(f, d, k)
      PROVE  Upstream(j)'
  <2> DEFINE D == PendingDownstreams(pit[k], f, now)
             L == Enqueue(DataItem(k), D)
  <2>1. PICK S : AfterEnqueue(L, DataItem(k), D) /\ Leaves(L, S, {}) /\ AfterData(f, d, k, L, S)
    BY Zenon, <1>2, QosDataFields
  <2>2. now' = now
    BY <1>2 DEF QosData
  <2> HIDE DEF L, D
  <2>3. \A g \in Face, i \in Key :
          Positions(lane[g], "interest", i) # {} => Positions(L[g], "interest", i) # {}
    BY Zenon, <2>1 DEF AfterEnqueue
  <2>4. j \in DOMAIN pit /\ j # k /\ AfterSend(pit'[j], pit[j], j, S)
    BY Zenon, <2>1 DEF AfterData
  <2>5. Upstream(j)
    BY <1>0, <2>2, <2>4 DEF AfterSend
  <2> QED BY Zenon, <1>t, <2>1, <2>3, <2>4, <2>5, OthersStayUpstream
<1>3. ASSUME Wake
      PROVE  Upstream(j)'
  <2>1. PICK S : /\ Leaves(lane, S, {}) /\ DOMAIN pit' = DOMAIN pit
                 /\ \A i \in DOMAIN pit : AfterSend(pit'[i], pit[i], i, S)
    BY <1>3, WakeFields
  <2>2. now' = now
    BY <1>3 DEF Wake
  <2>3. Upstream(j)
    BY <1>0, <2>1, <2>2 DEF AfterSend
  <2> QED BY <2>1, <2>3, OthersStayUpstream
<1>4. ASSUME NEW f \in Face, NEW d \in Data, QosDataMany(f, d)
      PROVE  Upstream(j)'
  <2>1. IncomingData(f, d) /\ lane' = lane /\ now' = now
    BY Zenon, <1>4 DEF QosDataMany, IncomingData
  <2>2. /\ DOMAIN pit' = DOMAIN pit
        /\ \A i \in DOMAIN pit \ MatchedBy(d) : pit'[i] = pit[i]
        /\ \A i \in MatchedBy(d) : pit'[i].satisfied
    BY Zenon, <2>1, DataFields
  <2> QED BY <1>0, <2>1, <2>2 DEF Upstream
<1>5. ASSUME NEW k \in Key, QosFinalize(k)
      PROVE  Upstream(j)'
  <2>1. InterestFinalize(k) /\ now' = now
    BY <1>5 DEF QosFinalize, InterestFinalize
  <2>2. DOMAIN pit' = DOMAIN pit \ {k} /\ \A i \in DOMAIN pit' : pit'[i] = pit[i]
    BY Zenon, <2>1, FinalizeFields
  <2>3. Upstream(j)
    BY <1>0, <2>1, <2>2
  <2>4. \A f \in Face : Positions(lane'[f], "interest", j) = Positions(lane[f], "interest", j)
    BY <1>5, <2>2, FinalizeLanes
  <2> QED BY <2>2, <2>3, <2>4 DEF Upstream
<1>6. ASSUME QosOther
      PROVE  Upstream(j)'
  <2>0. lane' = lane
    BY <1>6 DEF QosOther
  <2>1. ASSUME NEW f \in Face, NEW k \in Key, NEW n \in Nonce, NEW d \in Data, ContentStoreHit(f, k, n, d)
        PROVE  Upstream(j)'
    <3>1. now' = now /\ AfterHit(k)
      BY Zenon, <2>1, HitFields DEF ContentStoreHit, InterestAccepted
    <3>2. j \in DOMAIN pit /\ pit'[j] = pit[j]
      BY <3>1 DEF AfterHit
    <3> QED BY <1>0, <2>0, <3>1, <3>2 DEF Upstream
  <2>2. ASSUME NEW f \in Face, NEW k \in Key, NEW n \in Nonce, IncomingNack(f, k, n, {})
        PROVE  Upstream(j)'
    <3>1. now' = now /\ AfterNack(k)
      BY <2>2, NackFields DEF IncomingNack
    <3>2. /\ j \in DOMAIN pit /\ DOMAIN pit'[j].outr = DOMAIN pit[j].outr
          /\ pit'[j].satisfied = pit[j].satisfied
          /\ pit'[j].timer = pit[j].timer \/ pit'[j].timer = now
      BY <3>1 DEF AfterNack
    <3>3. Waits(j)
      BY <1>t, <3>1, <3>2
    <3> QED BY <1>0, <2>0, <3>2, <3>3 DEF Upstream
  <2>3. CASE pit' = pit /\ now' \in {now, now + 1}
    <3>1. Waits(j)
      BY <1>t, <2>3
    <3> QED BY <1>0, <2>0, <2>3, <3>1 DEF Upstream
  <2>4. \/ \E f \in Face, k \in Key, n \in Nonce, d \in Data : ContentStoreHit(f, k, n, d)
        \/ \E f \in Face, k \in Key, n \in Nonce : IncomingNack(f, k, n, {})
        \/ pit' = pit /\ now' \in {now, now + 1}
    BY Zenon, <1>6 DEF QosOther, InterestDropped, DataUnsolicited, Tick
  <2> QED BY <2>1, <2>2, <2>3, <2>4
<1>7. CASE UNCHANGED qvars
  BY <1>0, <1>7 DEF qvars, vars, Upstream
<1> QED BY Zenon, <1>1, <1>2, <1>3, <1>4, <1>5, <1>6, <1>7 DEF QosNext
-----------------------------------------------------------------------------
(* SurplusDataIsRepeated.                                                   *)

\* The balance of g after a call of prioritySend: what more is queued or
\* waits for g is covered by an Interest of g or by a repetition.
LEMMA BooksBalance ==
  ASSUME QosTypeOK, DataIsOwed, NEW L, NEW S, NEW A, Leaves(L, S, A), NEW g \in Face,
         Cardinality(Waiting(g)') \in Nat, repeated' \in Nat,
         Cardinality(Waiting(g)') + Count(L[g], "data") + repeated
           <= Cardinality(Waiting(g)) + Count(lane[g], "data") + repeated'
                + (IF g \in A THEN 1 ELSE 0)
  PROVE  balance'[g] + repeated' >= Cardinality(Waiting(g)') + Count(lane'[g], "data")
<1> DEFINE cL == Count(L[g], "data")
           cS == Count(S[g], "data")
           cl == Count(lane[g], "data")
           cK == Count(lane'[g], "data")
           w == Cardinality(Waiting(g))
           W == Cardinality(Waiting(g)')
           a == IF g \in A THEN 1 ELSE 0
<1>1. /\ L[g] \in Seq(Item) /\ S[g] \in Seq(Item) /\ lane'[g] \in Seq(Item) /\ lane[g] \in Seq(Item)
      /\ Splits(L[g], S[g], lane'[g])
  BY DEF QosTypeOK, Leaves, LanesOK
<1>2. cL \in Nat /\ cS \in Nat /\ cl \in Nat /\ cK \in Nat
  BY Zenon, <1>1, CountType
<1>3. cK + cS <= cL
  BY <1>1, CountSplit
<1>4. balance'[g] = balance[g] + a - cS /\ balance[g] \in Int /\ repeated \in Nat /\ a \in Nat
  BY DEF Leaves, QosTypeOK
<1>5. w \in Nat
  <2>1. IsFiniteSet(DOMAIN pit) /\ Waiting(g) \subseteq DOMAIN pit
    BY DEF QosTypeOK, PitTypeOK, Waiting
  <2> QED BY <2>1, FS_Subset, FS_CardinalityType
<1>6. balance[g] + repeated >= w + cl
  BY DEF DataIsOwed
<1> HIDE DEF cL, cS, cl, cK, w, W, a
<1>7. W \in Nat /\ repeated' \in Nat /\ W + cL + repeated <= w + cl + repeated' + a
  BY DEF cL, cl, w, W, a
<1>8. balance'[g] + repeated' >= W + cK
  BY <1>2, <1>3, <1>4, <1>5, <1>6, <1>7
<1> QED BY <1>8 DEF W, cK

\* The same when no Interest of g arrives in the step.
LEMMA BooksBalanceQuiet ==
  ASSUME QosTypeOK, DataIsOwed, NEW L, NEW S, Leaves(L, S, {}), NEW g \in Face,
         Cardinality(Waiting(g)') \in Nat, repeated' \in Nat,
         Cardinality(Waiting(g)') + Count(L[g], "data") + repeated
           <= Cardinality(Waiting(g)) + Count(lane[g], "data") + repeated'
  PROVE  balance'[g] + repeated' >= Cardinality(Waiting(g)') + Count(lane'[g], "data")
<1> DEFINE more == Cardinality(Waiting(g)') + Count(L[g], "data") + repeated
           owed == Cardinality(Waiting(g)) + Count(lane[g], "data") + repeated'
<1>1. lane[g] \in Seq(Item) /\ L[g] \in Seq(Item) /\ IsFiniteSet(Waiting(g))
  <2>1. IsFiniteSet(DOMAIN pit) /\ Waiting(g) \subseteq DOMAIN pit
    BY DEF QosTypeOK, PitTypeOK, Waiting
  <2> QED BY <2>1, FS_Subset DEF QosTypeOK, Leaves, LanesOK
<1>2. /\ Cardinality(Waiting(g)) \in Nat
      /\ Count(lane[g], "data") \in Nat /\ Count(L[g], "data") \in Nat
  BY Zenon, <1>1, CountType, FS_CardinalityType
<1>3. owed \in Nat
  BY <1>2
<1> HIDE DEF more, owed
<1>4. PICK A : A = {}
  OBVIOUS
<1>5. owed + (IF g \in A THEN 1 ELSE 0) = owed
  BY <1>3, <1>4
<1>6. more <= owed
  BY DEF more, owed
<1>7. Leaves(L, S, A) /\ more <= owed + (IF g \in A THEN 1 ELSE 0)
  BY Zenon, <1>4, <1>5, <1>6
<1> QED BY Zenon, <1>7, BooksBalance DEF more, owed

\* No step sends or queues more Data than is owed.
LEMMA OwedStep ==
  ASSUME QosTypeOK, DataIsOwed, [QosNext]_qvars
  PROVE  DataIsOwed'
<1> SUFFICES ASSUME NEW g \in Face
             PROVE  balance'[g] + repeated' >= Cardinality(Waiting(g)') + Count(lane'[g], "data")
  BY DEF DataIsOwed
<1> DEFINE Goal == balance'[g] + repeated' >= Cardinality(Waiting(g)') + Count(lane'[g], "data")
           w == Cardinality(Waiting(g))
           W == Cardinality(Waiting(g)')
           c == Count(lane[g], "data")
<1> PitTypeOK /\ LanesOK(lane)
  BY DEF QosTypeOK
<1>f. IsFiniteSet(Waiting(g)) /\ w \in Nat
  <2>1. IsFiniteSet(DOMAIN pit) /\ Waiting(g) \subseteq DOMAIN pit
    BY DEF PitTypeOK, Waiting
  <2> QED BY <2>1, FS_Subset, FS_CardinalityType
<1>c. c \in Nat /\ balance[g] \in Int /\ repeated \in Nat /\ balance[g] + repeated >= w + c
  BY Zenon, CountType DEF QosTypeOK, LanesOK, DataIsOwed
<1>s. ASSUME Waiting(g)' \subseteq Waiting(g)
      PROVE  W \in Nat /\ W <= w
  BY <1>f, <1>s, CardinalityBounds
<1>k. ASSUME UNCHANGED <<balance, repeated>>, Count(lane'[g], "data") = c,
             Waiting(g)' \subseteq Waiting(g)
      PROVE  Goal
  <2>1. W \in Nat /\ W <= w
    BY <1>s, <1>k
  <2> HIDE DEF W, w, c
  <2>2. balance'[g] + repeated' >= W + c
    BY <1>c, <1>f, <1>k, <2>1
  <2> QED BY <1>k, <2>2 DEF W
<1>1. ASSUME NEW f \in Face, NEW k \in Key, NEW n \in Nonce, NEW life \in Lifetime,
             NEW U \in SUBSET Face, QosInterest(f, k, n, life, U)
      PROVE  Goal
  <2> DEFINE item == InterestItem(k, n, life)
             L == Enqueue(item, U)
             a == IF g \in {f} THEN 1 ELSE 0
  <2>1. PICK S : AfterEnqueue(L, item, U) /\ Leaves(L, S, {f}) /\ AfterInterest(f, k, U, L, S)
    BY Zenon, <1>1, InterestFields
  <2>2. repeated' = repeated
    BY <1>1 DEF QosInterest
  <2>3. item.kind = "interest"
    BY DEF InterestItem
  <2> HIDE DEF item, L
  <2>4. Count(L[g], "data") = c
    BY <2>1, <2>3 DEF AfterEnqueue
  <2>5. \A j \in Waiting(g)' : j # k => j \in Waiting(g)
    <3> SUFFICES ASSUME NEW j \in Waiting(g)', j # k
                 PROVE  j \in Waiting(g)
      OBVIOUS
    <3>1. j \in DOMAIN pit' /\ ~pit'[j].satisfied /\ g \in DOMAIN pit'[j].inr
      BY DEF Waiting
    <3>2. j \in DOMAIN pit /\ AfterSend(pit'[j], pit[j], j, S)
      BY Zenon, <2>1, <3>1 DEF AfterInterest
    <3> QED BY Zenon, <3>1, <3>2 DEF AfterSend, Waiting
  <2>6. k \in Waiting(g)' => g = f \/ k \in Waiting(g)
    <3> SUFFICES ASSUME k \in Waiting(g)', g # f
                 PROVE  k \in Waiting(g)
      OBVIOUS
    <3>1. ~pit'[k].satisfied /\ g \in DOMAIN pit'[k].inr
      BY DEF Waiting
    <3>2. ~EntryOf(k).satisfied /\ g \in DOMAIN EntryOf(k).inr
      BY Zenon, <2>1, <3>1 DEF AfterInterest
    <3>3. k \in DOMAIN pit
      BY Zenon, <3>2 DEF EntryOf, NewEntry, EmptyRecords
    <3> QED BY <3>2, <3>3 DEF EntryOf, Waiting
  <2>7. W \in Nat /\ W <= w + a
    <3>1. CASE g = f
      <4>1. Waiting(g)' \subseteq Waiting(g) \cup {k}
        BY <2>5
      <4>2. W \in Nat /\ W <= w + 1
        BY <1>f, <4>1, CardinalityBounds
      <4> QED BY <3>1, <4>2
    <3>2. CASE g # f
      <4>1. W \in Nat /\ W <= w
        BY <1>s, <2>5, <2>6, <3>2
      <4> QED BY <1>f, <3>2, <4>1
    <3> QED BY <3>1, <3>2
  <2>8. a \in Nat
    OBVIOUS
  <2> HIDE DEF W, w, c, a
  <2>9. W + c + repeated <= w + c + repeated' + a /\ repeated' \in Nat
    BY <1>c, <1>f, <2>2, <2>7, <2>8
  <2> QED BY Zenon, <2>1, <2>4, <2>7, <2>9, BooksBalance DEF W, w, c, a
<1>2. ASSUME NEW f \in Face, NEW d \in Data, NEW k \in Key, QosData(f, d, k)
      PROVE  Goal
  <2> DEFINE D == PendingDownstreams(pit[k], f, now)
             item == DataItem(k)
             L == Enqueue(item, D)
  <2>1. PICK S : /\ AfterEnqueue(L, item, D) /\ D \subseteq DOMAIN pit[k].inr
                 /\ Leaves(L, S, {}) /\ AfterData(f, d, k, L, S)
    BY <1>2, QosDataFields
  <2>2. /\ pit[k].satisfied => repeated' = repeated + 1
        /\ ~pit[k].satisfied => repeated' = repeated
    <3>1. repeated' = Repeats(d) /\ MatchedBy(d) = {k}
      BY <1>2 DEF QosData
    <3> QED BY <1>c, <3>1 DEF Repeats
  <2> HIDE DEF item, L, D
  <2> DEFINE cL == Count(L[g], "data")
  <2>3. /\ cL \in Nat /\ cL <= c + 1
        /\ g \notin D => cL = c
    <3>1. L[g] \in Seq(Item)
      BY <2>1 DEF Leaves, LanesOK
    <3>2. cL <= c + 1 /\ (g \notin D => cL = c)
      BY Zenon, <2>1 DEF AfterEnqueue
    <3> QED BY Zenon, <3>1, <3>2, CountType
  <2>4. Waiting(g)' \subseteq Waiting(g) \ {k}
    <3> SUFFICES ASSUME NEW j \in Waiting(g)'
                 PROVE  j # k /\ j \in Waiting(g)
      OBVIOUS
    <3>1. j \in DOMAIN pit' /\ ~pit'[j].satisfied /\ g \in DOMAIN pit'[j].inr
      BY DEF Waiting
    <3>2. j \in DOMAIN pit /\ j # k /\ AfterSend(pit'[j], pit[j], j, S)
      BY Zenon, <2>1, <3>1 DEF AfterData
    <3> QED BY <3>1, <3>2 DEF AfterSend, Waiting
  <2>5. W \in Nat /\ W <= w
    BY <1>s, <2>4
  <2>6. ~pit[k].satisfied /\ g \in D => W <= w - 1
    <3> SUFFICES ASSUME ~pit[k].satisfied, g \in D
                 PROVE  W <= w - 1
      OBVIOUS
    <3>1. k \in Waiting(g)
      BY Zenon, <2>1 DEF Waiting, AfterData
    <3> QED BY <1>f, <2>4, <3>1, CardinalityBounds
  <2> HIDE DEF W, w, c, cL
  <2>7. W + cL + repeated <= w + c + repeated' /\ repeated' \in Nat
    <3>1. CASE pit[k].satisfied
      BY <1>c, <1>f, <2>2, <2>3, <2>5, <3>1
    <3>2. CASE ~pit[k].satisfied /\ g \notin D
      BY <1>c, <1>f, <2>2, <2>3, <2>5, <3>2
    <3>3. CASE ~pit[k].satisfied /\ g \in D
      BY <1>c, <1>f, <2>2, <2>3, <2>5, <2>6, <3>3
    <3> QED BY <3>1, <3>2, <3>3
  <2> QED BY Zenon, <2>1, <2>5, <2>7, BooksBalanceQuiet DEF W, w, c, cL
<1>3. ASSUME Wake
      PROVE  Goal
  <2>1. PICK S : /\ Leaves(lane, S, {}) /\ DOMAIN pit' = DOMAIN pit
                 /\ \A j \in DOMAIN pit : AfterSend(pit'[j], pit[j], j, S)
    BY <1>3, WakeFields
  <2>2. repeated' = repeated
    BY <1>3 DEF Wake
  <2>3. Waiting(g)' \subseteq Waiting(g)
    BY <2>1 DEF Waiting, AfterSend
  <2>4. W \in Nat /\ W <= w
    BY <1>s, <2>3
  <2> HIDE DEF W, w, c
  <2>5. W + c + repeated <= w + c + repeated' /\ repeated' \in Nat
    BY <1>c, <1>f, <2>2, <2>4
  <2> QED BY Zenon, <2>1, <2>4, <2>5, BooksBalanceQuiet DEF W, w, c
<1>4. ASSUME NEW f \in Face, NEW d \in Data, QosDataMany(f, d)
      PROVE  Goal
  <2>1. /\ IncomingData(f, d) /\ lane' = lane /\ repeated' = Repeats(d)
        /\ balance'[g] = IF g \in DataTo(f, d) THEN balance[g] - 1 ELSE balance[g]
    BY <1>4 DEF QosDataMany
  <2>2. /\ DOMAIN pit' = DOMAIN pit
        /\ \A j \in DOMAIN pit \ MatchedBy(d) : pit'[j] = pit[j]
        /\ \A j \in MatchedBy(d) : pit'[j].satisfied
    BY Zenon, <2>1, DataFields
  <2>3. Waiting(g)' \subseteq Waiting(g) \ MatchedBy(d)
    BY <2>2 DEF Waiting
  <2>4. W \in Nat /\ W <= w
    BY <1>s, <2>3
  <2>5. CASE g \notin DataTo(f, d)
    <3>1. repeated' \in Nat /\ repeated' >= repeated
      BY <1>c, <2>1 DEF Repeats
    <3> HIDE DEF W, w, c
    <3>2. balance'[g] + repeated' >= W + c
      BY <1>c, <1>f, <2>1, <2>4, <2>5, <3>1
    <3> QED BY <2>1, <3>2 DEF W, c
  <2>6. CASE g \in DataTo(f, d)
    <3>1. CASE \E k \in MatchedBy(d) : pit[k].satisfied
      <4>1. repeated' = repeated + 1
        BY Zenon, <2>1, <3>1 DEF Repeats
      <4> HIDE DEF W, w, c
      <4>2. balance'[g] + repeated' >= W + c
        BY <1>c, <1>f, <2>1, <2>4, <2>6, <4>1
      <4> QED BY <2>1, <4>2 DEF W, c
    <3>2. CASE \A k \in MatchedBy(d) : ~pit[k].satisfied
      <4>1. repeated' = repeated
        BY <2>1, <3>2 DEF Repeats
      <4>2. PICK k \in MatchedBy(d) : g \in PendingDownstreams(pit[k], f, now)
        BY <2>6 DEF DataTo
      <4>3. k \in Waiting(g)
        BY <3>2, <4>2 DEF Waiting, PendingDownstreams, MatchedBy
      <4>4. Waiting(g)' \subseteq Waiting(g) \ {k}
        BY <2>3
      <4>5. W <= w - 1
        BY <1>f, <4>3, <4>4, CardinalityBounds
      <4> HIDE DEF W, w, c
      <4>6. balance'[g] + repeated' >= W + c
        BY <1>c, <1>f, <2>1, <2>4, <2>6, <4>1, <4>5
      <4> QED BY <2>1, <4>6 DEF W, c
    <3> QED BY <3>1, <3>2
  <2> QED BY <2>5, <2>6
<1>5. ASSUME NEW k \in Key, QosFinalize(k)
      PROVE  Goal
  <2>1. InterestFinalize(k) /\ UNCHANGED <<balance, repeated>>
    BY <1>5 DEF QosFinalize
  <2>2. DOMAIN pit' = DOMAIN pit \ {k} /\ \A i \in DOMAIN pit' : pit'[i] = pit[i]
    BY Zenon, <2>1, FinalizeFields
  <2>3. Waiting(g)' \subseteq Waiting(g)
    BY <2>2 DEF Waiting
  <2>4. Count(lane'[g], "data") = c
    BY <1>5, FinalizeLanes
  <2> QED BY <1>k, <2>1, <2>3, <2>4
<1>6. ASSUME QosOther
      PROVE  Goal
  <2>0. lane' = lane /\ UNCHANGED <<balance, repeated>>
    BY <1>6 DEF QosOther
  <2>1. ASSUME NEW f \in Face, NEW k \in Key, NEW n \in Nonce, NEW d \in Data, ContentStoreHit(f, k, n, d)
        PROVE  Waiting(g)' \subseteq Waiting(g)
    <3>1. AfterHit(k)
      BY <2>1, HitFields
    <3> QED BY <3>1 DEF AfterHit, Waiting
  <2>2. ASSUME NEW f \in Face, NEW k \in Key, NEW n \in Nonce, IncomingNack(f, k, n, {})
        PROVE  Waiting(g)' \subseteq Waiting(g)
    <3>1. AfterNack(k)
      BY <2>2, NackFields
    <3> QED BY <3>1 DEF AfterNack, Waiting
  <2>3. \/ \E f \in Face, k \in Key, n \in Nonce, d \in Data : ContentStoreHit(f, k, n, d)
        \/ \E f \in Face, k \in Key, n \in Nonce : IncomingNack(f, k, n, {})
        \/ pit' = pit
    BY Zenon, <1>6 DEF QosOther, InterestDropped, DataUnsolicited, Tick
  <2>4. Waiting(g)' \subseteq Waiting(g)
    BY <2>1, <2>2, <2>3 DEF Waiting
  <2> QED BY <1>k, <2>0, <2>4
<1>7. CASE UNCHANGED qvars
  <2>1. lane' = lane /\ UNCHANGED <<balance, repeated>> /\ Waiting(g)' = Waiting(g)
    BY <1>7 DEF qvars, vars, Waiting
  <2> QED BY <1>k, <2>1
<1> QED BY Zenon, <1>1, <1>2, <1>3, <1>4, <1>5, <1>6, <1>7 DEF QosNext
-----------------------------------------------------------------------------
\* The invariants hold at the start.
LEMMA QosInitial ==
  ASSUME QosInit
  PROVE  QosTypeOK /\ NothingHangs /\ DataIsOwed
<1>1. DOMAIN pit = {} /\ PitTypeOK
  BY PipelineInitial DEF QosInit
<1>2. lane = [f \in Face |-> <<>>] /\ balance = [f \in Face |-> 0] /\ repeated = 0
  BY DEF QosInit
<1>3. LanesOK(lane)
  <2>1. <<>> \in Seq(Item) /\ Len(<<>>) = 0
    BY EmptySeq
  <2> QED BY <1>2, <2>1, QueueAssumption DEF LanesOK
<1>4. NothingHangs
  BY <1>1 DEF NothingHangs
<1>5. ASSUME NEW f \in Face
      PROVE  balance[f] + repeated >= Cardinality(Waiting(f)) + Count(lane[f], "data")
  <2>1. Waiting(f) = {} /\ {i \in DOMAIN lane[f] : lane[f][i].kind = "data"} = {}
    BY <1>1, <1>2 DEF Waiting
  <2>2. Cardinality(Waiting(f)) = 0 /\ Count(lane[f], "data") = 0
    BY <2>1, FS_EmptySet DEF Count
  <2>3. balance[f] = 0 /\ repeated = 0
    BY <1>2
  <2> QED BY <2>2, <2>3
<1>6. QosTypeOK
  BY <1>1, <1>2, <1>3 DEF QosTypeOK
<1> QED BY <1>4, <1>5, <1>6 DEF DataIsOwed

(* The types of the PIT and of the queues: an entry's timer is armed and    *)
(* not overdue, no queue exceeds QUEUE_SIZE, and queue items and records    *)
(* refer to faces that exist.                                               *)
THEOREM QosTypeCorrect == QosSpec => []QosTypeOK
<1>1. QosInit => QosTypeOK
  BY QosInitial
<1>2. QosTypeOK /\ [QosNext]_qvars => QosTypeOK'
  BY QosTypeStep
<1> QED BY <1>1, <1>2, PTL DEF QosSpec

(* Nothing waits for nothing: while an entry is neither satisfied nor about *)
(* to be erased, QosStrategy has sent its Interest or has it queued.        *)
THEOREM NothingEverHangs == QosSpec => []NothingHangs
<1>1. QosInit => QosTypeOK /\ NothingHangs
  BY QosInitial
<1>2. QosTypeOK /\ NothingHangs /\ [QosNext]_qvars => QosTypeOK' /\ NothingHangs'
  BY QosTypeStep, HangStep
<1> QED BY <1>1, <1>2, PTL DEF QosSpec

(* A downstream gets more Data than it sent Interests only when a second    *)
(* Data meets the satisfied entry before onInterestFinalize erases it.      *)
THEOREM SurplusIsRepeated == QosSpec => []SurplusDataIsRepeated
<1>1. QosInit => QosTypeOK /\ DataIsOwed
  BY QosInitial
<1>2. QosTypeOK /\ DataIsOwed /\ [QosNext]_qvars => QosTypeOK' /\ DataIsOwed'
  BY QosTypeStep, OwedStep
<1>3. QosTypeOK /\ DataIsOwed => SurplusDataIsRepeated
  <2> SUFFICES ASSUME QosTypeOK, DataIsOwed, NEW f \in Face
               PROVE  balance[f] + repeated >= 0
    BY DEF SurplusDataIsRepeated
  <2>1. IsFiniteSet(Waiting(f))
    <3>1. IsFiniteSet(DOMAIN pit) /\ Waiting(f) \subseteq DOMAIN pit
      BY DEF QosTypeOK, PitTypeOK, Waiting
    <3> QED BY <3>1, FS_Subset
  <2>2. Cardinality(Waiting(f)) \in Nat
    BY <2>1, FS_CardinalityType
  <2>3. Count(lane[f], "data") \in Nat
    BY Zenon, CountType DEF QosTypeOK, LanesOK
  <2>4. balance[f] + repeated >= Cardinality(Waiting(f)) + Count(lane[f], "data")
    BY DEF DataIsOwed
  <2>5. balance[f] \in Int /\ repeated \in Nat
    BY DEF QosTypeOK
  <2> QED BY <2>2, <2>3, <2>4, <2>5
<1> QED BY <1>1, <1>2, <1>3, PTL DEF QosSpec
=============================================================================
