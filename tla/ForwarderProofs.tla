-------------------------- MODULE ForwarderProofs --------------------------
(***************************************************************************)
(* Theorems about the forwarding pipelines, for any faces, names, nonces   *)
(* and Data, any choice of the strategy and any number of packets.         *)
(***************************************************************************)
EXTENDS ForwarderProps, ForwarderLemmas

HistTypeOK ==
  /\ PitTypeOK
  /\ forwarded \subseteq Key \X Nonce \X Face
  /\ credit \in [Face -> Int]

(* What strengthens FlowBalance: a face has a credit for every entry that   *)
(* holds an in-record of it.                                                *)
AskedBy(p, f) == {k \in DOMAIN p : f \in DOMAIN p[k].inr}
CreditCoversRecords == \A f \in Face : credit[f] >= Cardinality(AskedBy(pit, f))

(* What strengthens NoForwardingLoop: a nonce that was sent upstream is     *)
(* still known, from an out-record of its entry or the Dead Nonce List,     *)
(* unless it was dropped deliberately; the in-records of an entry have      *)
(* different nonces; and one whose nonce was sent upstream is of the face   *)
(* it was sent for.                                                         *)
Forgotten(a) == <<NameOf[a[1]], a[2]>> \in forgotten
InOutRecord(a) ==
  /\ a[1] \in DOMAIN pit
  /\ \E u \in DOMAIN pit[a[1]].outr : pit[a[1]].outr[u].nonce = a[2]
NoncesKept ==
  /\ \A a \in forwarded : Forgotten(a) \/ <<NameOf[a[1]], a[2]>> \in dnl \/ InOutRecord(a)
  /\ \A k \in DOMAIN pit : \A f, g \in DOMAIN pit[k].inr :
       pit[k].inr[f].nonce = pit[k].inr[g].nonce => f = g
  /\ \A a \in forwarded : a[1] \in DOMAIN pit =>
       \A f \in DOMAIN pit[a[1]].inr :
         pit[a[1]].inr[f].nonce = a[2] => f = a[3] \/ Forgotten(a)
LoopInv == NoncesKept /\ NoForwardingLoop

-----------------------------------------------------------------------------
(* Types.                                                                   *)

\* The history variables do not disturb the pipelines.
LEMMA HistStepIsStep ==
  ASSUME [HistNext]_histVars
  PROVE  [Next]_vars
<1>1. CASE HistOther
  BY <1>1 DEF HistOther, Next
<1>2. CASE UNCHANGED histVars
  BY <1>2 DEF histVars
<1>3. CASE \E f \in Face, k \in Key, n \in Nonce :
             \/ \E d \in Data : HistHit(f, k, n, d)
             \/ \E life \in Lifetime, U \in SUBSET Face : HistForward(f, k, n, life, U)
             \/ \E life \in Lifetime, D \in SUBSET Face : HistReject(f, k, n, life, D)
             \/ \E D \in SUBSET Face : HistNack(f, k, n, D)
  BY <1>3 DEF HistHit, HistForward, HistReject, HistNack, Next
<1>4. CASE \/ \E f \in Face, d \in Data : HistData(f, d)
           \/ \E k \in Key : HistFinalize(k)
           \/ \E f \in Face : HistRemoveFace(f)
  BY Zenon, <1>4 DEF HistData, HistFinalize, HistRemoveFace, Next
<1> QED BY <1>1, <1>2, <1>3, <1>4 DEF HistNext, HistStep

\* Credits are integers.
LEMMA CreditType ==
  ASSUME HistTypeOK, NEW f \in Face, NEW D
  PROVE  Earned(f) \in [Face -> Int] /\ Paid(D) \in [Face -> Int]
BY DEF HistTypeOK, Earned, Paid

\* Every step keeps the types and leaves every entry with an armed timer.
LEMMA TypeStep ==
  ASSUME HistTypeOK, [HistNext]_histVars
  PROVE  HistTypeOK'
<1>1. PitTypeOK'
  BY HistStepIsStep, PipelineTypeStep DEF HistTypeOK
<1> SUFFICES forwarded' \subseteq Key \X Nonce \X Face /\ credit' \in [Face -> Int]
  BY <1>1 DEF HistTypeOK
<1>2. ASSUME NEW f \in Face, NEW k \in Key, NEW n \in Nonce, NEW life \in Lifetime,
             NEW U \in SUBSET Face, HistForward(f, k, n, life, U)
      PROVE  forwarded' \subseteq Key \X Nonce \X Face /\ credit' \in [Face -> Int]
  <2>1. credit' = Earned(f) /\ forwarded' \subseteq forwarded \cup {<<k, n, f>>}
    BY <1>2 DEF HistForward
  <2> QED BY <2>1, CreditType DEF HistTypeOK
<1>3. ASSUME NEW f \in Face, NEW D, forwarded' = forwarded, credit' \in {credit, Earned(f), Paid(D)}
      PROVE  forwarded' \subseteq Key \X Nonce \X Face /\ credit' \in [Face -> Int]
  BY <1>3, CreditType DEF HistTypeOK
<1>4. ASSUME NEW f \in Face, NEW k \in Key, NEW n \in Nonce, NEW d \in Data, HistHit(f, k, n, d)
      PROVE  forwarded' \subseteq Key \X Nonce \X Face /\ credit' \in [Face -> Int]
  BY <1>3, <1>4 DEF HistHit
<1>5. ASSUME NEW f \in Face, NEW k \in Key, NEW n \in Nonce, NEW life \in Lifetime,
             NEW D \in SUBSET Face, HistReject(f, k, n, life, D)
      PROVE  forwarded' \subseteq Key \X Nonce \X Face /\ credit' \in [Face -> Int]
  BY <1>3, <1>5 DEF HistReject
<1>6. ASSUME NEW f \in Face, NEW k \in Key, NEW n \in Nonce, NEW D \in SUBSET Face,
             HistNack(f, k, n, D)
      PROVE  forwarded' \subseteq Key \X Nonce \X Face /\ credit' \in [Face -> Int]
  BY Zenon, <1>3, <1>6 DEF HistNack
<1>7. ASSUME NEW f \in Face, NEW d \in Data, HistData(f, d)
      PROVE  forwarded' \subseteq Key \X Nonce \X Face /\ credit' \in [Face -> Int]
  BY <1>3, <1>7 DEF HistData
<1>8. CASE UNCHANGED <<forwarded, credit>>
  BY <1>8 DEF HistTypeOK
<1> QED BY Zenon, <1>2, <1>4, <1>5, <1>6, <1>7, <1>8
        DEF HistNext, HistStep, HistFinalize, HistRemoveFace, HistOther, hist, histVars

-----------------------------------------------------------------------------
(* Flow balance.                                                            *)

\* An answer costs one credit and one in-record; an Interest brings one
\* credit and at most one in-record.
LEMMA CreditStep ==
  ASSUME HistTypeOK, CreditCoversRecords, [HistNext]_histVars
  PROVE  CreditCoversRecords'
<1> PitTypeOK
  BY DEF HistTypeOK
<1> DEFINE A(g) == AskedBy(pit, g)
           B(g) == AskedBy(pit', g)
<1>0. \A g \in Face : credit[g] \in Int /\ IsFiniteSet(A(g)) /\ credit[g] >= Cardinality(A(g))
  <2>1. \A g : A(g) \subseteq DOMAIN pit
    BY DEF AskedBy
  <2>2. \A g : IsFiniteSet(A(g))
    BY <2>1, FS_Subset DEF PitTypeOK
  <2> QED BY <2>2 DEF HistTypeOK, CreditCoversRecords
<1>a. ASSUME NEW g \in Face, B(g) \subseteq A(g), credit'[g] = credit[g]
      PROVE  credit'[g] >= Cardinality(B(g))
  <2>1. /\ Cardinality(A(g)) \in Nat /\ Cardinality(B(g)) \in Nat
        /\ Cardinality(B(g)) <= Cardinality(A(g))
    BY <1>0, <1>a, CardinalityBounds
  <2> QED BY <1>0, <1>a, <2>1
<1>b. ASSUME NEW g \in Face, NEW k, B(g) \subseteq A(g) \cup {k}, credit'[g] = credit[g] + 1
      PROVE  credit'[g] >= Cardinality(B(g))
  <2>1. /\ Cardinality(A(g)) \in Nat /\ Cardinality(B(g)) \in Nat
        /\ Cardinality(B(g)) <= Cardinality(A(g)) + 1
    BY <1>0, <1>b, CardinalityBounds
  <2> QED BY <1>0, <1>b, <2>1
<1>c. ASSUME NEW g \in Face, NEW k \in A(g), B(g) \subseteq A(g) \ {k}, credit'[g] = credit[g] - 1
      PROVE  credit'[g] >= Cardinality(B(g))
  <2>1. /\ Cardinality(A(g)) \in Nat /\ Cardinality(B(g)) \in Nat
        /\ Cardinality(B(g)) <= Cardinality(A(g)) - 1
    BY <1>0, <1>c, CardinalityBounds
  <2> QED BY <1>0, <1>c, <2>1
<1> SUFFICES ASSUME NEW g \in Face
             PROVE  credit'[g] >= Cardinality(B(g))
  BY DEF CreditCoversRecords
<1> HIDE DEF A, B
<1>1. ASSUME NEW f \in Face, NEW k \in Key, NEW n \in Nonce, NEW d \in Data, HistHit(f, k, n, d)
      PROVE  credit'[g] >= Cardinality(B(g))
  <2>1. AfterHit(k) /\ UNCHANGED credit
    BY <1>1, HitFields DEF HistHit
  <2>2. B(g) \subseteq A(g)
    BY <2>1 DEF AfterHit, A, B, AskedBy
  <2> QED BY <1>a, <2>1, <2>2
<1>2. ASSUME NEW f \in Face, NEW k \in Key, NEW n \in Nonce, NEW life \in Lifetime,
             NEW U \in SUBSET Face, HistForward(f, k, n, life, U)
      PROVE  credit'[g] >= Cardinality(B(g))
  <2>1. Forward(f, k, n, life, U) /\ credit' = Earned(f)
    BY <1>2 DEF HistForward
  <2>2. AfterForward(f, k, n, life, U)
    BY <2>1, ForwardFields
  <2>3. B(g) \subseteq A(g) \cup (IF g = f THEN {k} ELSE {})
    BY <2>2 DEF AfterForward, EntryOf, NewEntry, EmptyRecords, A, B, AskedBy
  <2>4. credit'[g] = IF g = f THEN credit[g] + 1 ELSE credit[g]
    BY <2>1 DEF HistTypeOK, Earned
  <2> QED BY <1>a, <1>b, <2>3, <2>4
<1>3. ASSUME NEW f \in Face, NEW k \in Key, NEW n \in Nonce, NEW life \in Lifetime,
             NEW D \in SUBSET Face, HistReject(f, k, n, life, D)
      PROVE  credit'[g] >= Cardinality(B(g))
  <2>1. /\ Reject(f, k, n, life, D)
        /\ credit' = IF D \cap PointToPoint = {} THEN Earned(f) ELSE credit
    BY <1>3 DEF HistReject
  <2>2. AfterReject(f, k, n, life, D)
    BY <2>1, RejectFields
  <2>3. CASE D \cap PointToPoint = {}
    <3>1. B(g) \subseteq A(g) \cup (IF g = f THEN {k} ELSE {})
      BY <2>2 DEF AfterReject, EntryOf, NewEntry, EmptyRecords, A, B, AskedBy
    <3>2. credit'[g] = IF g = f THEN credit[g] + 1 ELSE credit[g]
      BY <2>1, <2>3 DEF HistTypeOK, Earned
    <3> QED BY <1>a, <1>b, <3>1, <3>2
  <2>4. CASE D \cap PointToPoint # {}
    <3>1. f \in D \cap PointToPoint
      BY <2>2, <2>4 DEF AfterReject
    <3>2. B(g) \subseteq A(g)
      BY <2>2, <3>1 DEF AfterReject, EntryOf, NewEntry, EmptyRecords, A, B, AskedBy
    <3> QED BY <1>a, <2>1, <2>4, <3>2
  <2> QED BY <2>3, <2>4
<1>4. ASSUME NEW f \in Face, NEW k \in Key, NEW n \in Nonce, NEW D \in SUBSET Face,
             HistNack(f, k, n, D)
      PROVE  credit'[g] >= Cardinality(B(g))
  <2>1. IncomingNack(f, k, n, D) /\ credit' = Paid(DOMAIN pit[k].inr \ DOMAIN pit'[k].inr)
    BY <1>4 DEF HistNack
  <2>2. AfterNack(k)
    BY <2>1, NackFields
  <2>3. B(g) \subseteq A(g)
    BY <2>2 DEF AfterNack, A, B, AskedBy
  <2>4. CASE g \in DOMAIN pit[k].inr \ DOMAIN pit'[k].inr
    <3>1. k \in A(g) /\ B(g) \subseteq A(g) \ {k}
      BY <2>2, <2>3, <2>4 DEF AfterNack, A, B, AskedBy
    <3>2. credit'[g] = credit[g] - 1
      BY <2>1, <2>4 DEF Paid
    <3> QED BY <1>c, <3>1, <3>2
  <2>5. CASE g \notin DOMAIN pit[k].inr \ DOMAIN pit'[k].inr
    BY <1>a, <2>1, <2>3, <2>5 DEF Paid
  <2> QED BY <2>4, <2>5
<1>5. ASSUME NEW f \in Face, NEW d \in Data, HistData(f, d)
      PROVE  credit'[g] >= Cardinality(B(g))
  <2> DEFINE many == Cardinality(MatchedBy(d)) > 1
  <2>1. IncomingData(f, d) /\ credit' = Paid(DataTo(f, d))
    BY <1>5 DEF HistData
  <2>2. /\ DOMAIN pit' = DOMAIN pit
        /\ \A j \in DOMAIN pit \ MatchedBy(d) : pit'[j] = pit[j]
        /\ \A j \in MatchedBy(d) :
             DOMAIN pit'[j].inr = DOMAIN pit[j].inr \ Answered(pit[j], f, many)
    BY <2>1, DataFields
  <2> HIDE DEF many
  <2>3. B(g) \subseteq A(g)
    BY <2>2 DEF A, B, AskedBy, MatchedBy
  <2>4. CASE g \in DataTo(f, d)
    <3>1. PICK k \in MatchedBy(d) : g \in PendingDownstreams(pit[k], f, now)
      BY <2>4 DEF DataTo
    <3>2. g \in DOMAIN pit[k].inr /\ g \in Answered(pit[k], f, many)
      BY <3>1 DEF PendingDownstreams, Answered
    <3>3. k \in A(g) /\ B(g) \subseteq A(g) \ {k}
      BY <2>2, <2>3, <3>1, <3>2 DEF A, B, AskedBy, MatchedBy
    <3>4. credit'[g] = credit[g] - 1
      BY <2>1, <2>4 DEF Paid
    <3> QED BY <1>c, <3>3, <3>4
  <2>5. CASE g \notin DataTo(f, d)
    BY <1>a, <2>1, <2>3, <2>5 DEF Paid
  <2> QED BY <2>4, <2>5
<1>6. ASSUME NEW k \in Key, HistFinalize(k)
      PROVE  credit'[g] >= Cardinality(B(g))
  <2>1. UNCHANGED credit /\ DOMAIN pit' = DOMAIN pit \ {k} /\ \A j \in DOMAIN pit' : pit'[j] = pit[j]
    BY Zenon, <1>6, FinalizeFields DEF HistFinalize
  <2>2. B(g) \subseteq A(g)
    BY <2>1 DEF A, B, AskedBy
  <2> QED BY <1>a, <2>1, <2>2
<1>7. ASSUME NEW f \in Face, HistRemoveFace(f)
      PROVE  credit'[g] >= Cardinality(B(g))
  <2>1. /\ UNCHANGED credit /\ DOMAIN pit' = DOMAIN pit
        /\ \A j \in DOMAIN pit : DOMAIN pit'[j].inr = DOMAIN pit[j].inr \ {f}
    BY <1>7, RemoveFaceFields DEF HistRemoveFace
  <2>2. B(g) \subseteq A(g)
    BY <2>1 DEF A, B, AskedBy
  <2> QED BY <1>a, <2>1, <2>2
<1>8. CASE HistOther \/ UNCHANGED histVars
  <2>1. UNCHANGED <<credit, pit>>
    BY <1>8 DEF HistOther, hist, histVars, vars, Tick, InterestDropped, DataUnsolicited
  <2>2. B(g) \subseteq A(g)
    BY <2>1 DEF A, B, AskedBy
  <2> QED BY <1>a, <2>1, <2>2
<1> QED BY <1>1, <1>2, <1>3, <1>4, <1>5, <1>6, <1>7, <1>8 DEF HistNext, HistStep

-----------------------------------------------------------------------------
(* The expiryTimer and the downstreams.                                     *)

\* A pending entry keeps a timer that covers its in-records.
LEMMA TimerStep ==
  ASSUME HistTypeOK, TimerCoversDownstreams, [HistNext]_histVars
  PROVE  TimerCoversDownstreams'
<1> PitTypeOK
  BY DEF HistTypeOK
<1> DEFINE Covered(e, t) == ~e.satisfied /\ hasPendingOutRecords(e, t) =>
                              \A f \in DOMAIN e.inr : e.inr[f].expiry <= e.timer
<1>0. \A j \in DOMAIN pit \ rejected : Covered(pit[j], now)
  BY DEF TimerCoversDownstreams
<1> SUFFICES ASSUME NEW j \in DOMAIN pit' \ rejected'
             PROVE  Covered(pit'[j], now')
  BY DEF TimerCoversDownstreams
<1>t. \A i \in DOMAIN pit : IsEntry(pit[i])
  BY DEF PitTypeOK, TypeOK
<1>1. ASSUME NEW f \in Face, NEW k \in Key, NEW n \in Nonce, NEW d \in Data, HistHit(f, k, n, d)
      PROVE  Covered(pit'[j], now')
  <2>1. AfterHit(k) /\ UNCHANGED <<rejected, now>>
    BY Zenon, <1>1, HitFields DEF HistHit, ContentStoreHit, InterestAccepted
  <2> QED BY <1>0, <2>1 DEF AfterHit
<1>2. ASSUME NEW f \in Face, NEW k \in Key, NEW n \in Nonce, NEW life \in Lifetime,
             NEW U \in SUBSET Face, HistForward(f, k, n, life, U)
      PROVE  Covered(pit'[j], now')
  <2>1. Forward(f, k, n, life, U) /\ rejected' = rejected \ {k}
    BY <1>2 DEF HistForward
  <2>2. AfterForward(f, k, n, life, U) /\ now' = now
    BY <2>1, ForwardFields DEF Forward, InterestAccepted
  <2> QED BY <1>0, <2>1, <2>2 DEF AfterForward
<1>3. ASSUME NEW f \in Face, NEW k \in Key, NEW n \in Nonce, NEW life \in Lifetime,
             NEW D \in SUBSET Face, HistReject(f, k, n, life, D)
      PROVE  Covered(pit'[j], now')
  <2>1. Reject(f, k, n, life, D) /\ rejected' = rejected \cup {k}
    BY <1>3 DEF HistReject
  <2>2. AfterReject(f, k, n, life, D) /\ now' = now
    BY <2>1, RejectFields DEF Reject, InterestAccepted
  <2> QED BY <1>0, <2>1, <2>2 DEF AfterReject
<1>4. ASSUME NEW f \in Face, NEW k \in Key, NEW n \in Nonce, NEW D \in SUBSET Face,
             HistNack(f, k, n, D)
      PROVE  Covered(pit'[j], now')
  <2>1. IncomingNack(f, k, n, D) /\ UNCHANGED <<rejected, now>>
    BY <1>4 DEF HistNack, IncomingNack
  <2>2. AfterNack(k)
    BY <2>1, NackFields
  <2>3. CASE j # k
    BY <1>0, <2>1, <2>2, <2>3 DEF AfterNack
  <2>4. CASE j = k
    <3>1. hasPendingOutRecords(pit'[k], now) => hasPendingOutRecords(pit[k], now)
      BY <2>2 DEF AfterNack, hasPendingOutRecords
    <3> QED BY <1>0, <2>1, <2>2, <2>4, <3>1 DEF AfterNack
  <2> QED BY <2>3, <2>4
<1>5. ASSUME NEW f \in Face, NEW d \in Data, HistData(f, d)
      PROVE  Covered(pit'[j], now')
  <2>1. IncomingData(f, d) /\ UNCHANGED <<rejected, now>>
    BY <1>5 DEF HistData, IncomingData
  <2>2. /\ DOMAIN pit' = DOMAIN pit
        /\ \A i \in DOMAIN pit \ MatchedBy(d) : pit'[i] = pit[i]
        /\ \A i \in MatchedBy(d) : pit'[i].satisfied
    BY <2>1, DataFields
  <2> QED BY <1>0, <2>1, <2>2
<1>6. ASSUME NEW k \in Key, HistFinalize(k)
      PROVE  Covered(pit'[j], now')
  <2>1. /\ rejected' = rejected \ {k} /\ now' = now
        /\ DOMAIN pit' = DOMAIN pit \ {k} /\ \A i \in DOMAIN pit' : pit'[i] = pit[i]
    BY <1>6, FinalizeFields DEF HistFinalize, InterestFinalize
  <2> QED BY <1>0, <2>1
<1>7. ASSUME NEW f \in Face, HistRemoveFace(f)
      PROVE  Covered(pit'[j], now')
  <2>1. /\ UNCHANGED <<rejected, now>> /\ DOMAIN pit' = DOMAIN pit
        /\ DOMAIN pit'[j].inr = DOMAIN pit[j].inr \ {f}
        /\ \A g \in DOMAIN pit'[j].inr : pit'[j].inr[g] = pit[j].inr[g]
        /\ DOMAIN pit'[j].outr = DOMAIN pit[j].outr \ {f}
        /\ \A g \in DOMAIN pit'[j].outr : pit'[j].outr[g] = pit[j].outr[g]
        /\ pit'[j].timer = pit[j].timer /\ pit'[j].satisfied = pit[j].satisfied
    BY <1>7, RemoveFaceFields DEF HistRemoveFace, RemoveFace
  <2>2. hasPendingOutRecords(pit'[j], now) => hasPendingOutRecords(pit[j], now)
    BY <2>1 DEF hasPendingOutRecords
  <2> QED BY <1>0, <2>1, <2>2
<1>8. CASE HistOther \/ UNCHANGED histVars
  <2>1. UNCHANGED <<rejected, pit>> /\ (now' = now \/ now' = now + 1)
    BY <1>8 DEF HistOther, hist, histVars, vars, Tick, InterestDropped, DataUnsolicited
  <2>2. now \in Nat /\ \A u \in DOMAIN pit[j].outr : pit[j].outr[u].expiry \in Nat
    BY <1>t, <2>1 DEF PitTypeOK, TypeOK, IsEntry, OutRecord
  <2>3. hasPendingOutRecords(pit[j], now') => hasPendingOutRecords(pit[j], now)
    BY <2>1, <2>2 DEF hasPendingOutRecords
  <2> QED BY <1>0, <2>1, <2>3
<1> QED BY <1>1, <1>2, <1>3, <1>4, <1>5, <1>6, <1>7, <1>8 DEF HistNext, HistStep

-----------------------------------------------------------------------------
(* Forwarding loops.                                                        *)

\* The first conjunct of NoncesKept, for one Interest.
Known(a) == Forgotten(a) \/ <<NameOf[a[1]], a[2]>> \in dnl \/ InOutRecord(a)

\* The in-records of the PIT are among those it had: no loop can appear.
InRecordsKept ==
  \A k \in DOMAIN pit' : \A f \in DOMAIN pit'[k].inr :
    k \in DOMAIN pit /\ f \in DOMAIN pit[k].inr /\ pit'[k].inr[f].nonce = pit[k].inr[f].nonce

\* A step that forwards nothing and keeps the nonces it must.
LEMMA KeptRecords ==
  ASSUME LoopInv, forwarded' = forwarded, forgotten \subseteq forgotten', InRecordsKept,
         \A a \in forwarded : Known(a)'
  PROVE  LoopInv'
<1>1. \A a \in forwarded' : Forgotten(a)' \/ <<NameOf[a[1]], a[2]>> \in dnl' \/ InOutRecord(a)'
  BY DEF Known
<1>2. \A k \in DOMAIN pit' : \A f, g \in DOMAIN pit'[k].inr :
        pit'[k].inr[f].nonce = pit'[k].inr[g].nonce => f = g
  BY DEF LoopInv, NoncesKept, InRecordsKept
<1>3. \A a \in forwarded' : a[1] \in DOMAIN pit' =>
        \A f \in DOMAIN pit'[a[1]].inr :
          pit'[a[1]].inr[f].nonce = a[2] => f = a[3] \/ Forgotten(a)'
  BY DEF LoopInv, NoncesKept, InRecordsKept, Forgotten
<1>4. NoForwardingLoop'
  BY DEF LoopInv, NoForwardingLoop
<1> QED BY <1>1, <1>2, <1>3, <1>4 DEF LoopInv, NoncesKept

\* An Interest that is no loop puts its nonce in the in-record of f, and may
\* be sent upstream.
LEMMA NewRecord ==
  ASSUME HistTypeOK, LoopInv, NEW f \in Face, NEW k \in Key, NEW n \in Nonce,
         ~IsLoop(f, k, n),
         DOMAIN pit' = DOMAIN pit \cup {k},
         \A j \in DOMAIN pit : j # k => pit'[j] = pit[j],
         DOMAIN pit'[k].inr \subseteq DOMAIN EntryOf(k).inr \cup {f},
         f \in DOMAIN pit'[k].inr => pit'[k].inr[f].nonce = n,
         \A g \in DOMAIN pit'[k].inr : g # f => pit'[k].inr[g] = EntryOf(k).inr[g],
         \/ forwarded' = forwarded
         \/ forwarded' = forwarded \cup {<<k, n, f>>} /\ f \in DOMAIN pit'[k].inr,
         forgotten \subseteq forgotten',
         \A a \in forwarded' : Known(a)'
  PROVE  LoopInv'
<1> DEFINE o == EntryOf(k)
           e == pit'[k]
<1>0. /\ k \in DOMAIN pit => o = pit[k]
      /\ k \notin DOMAIN pit => DOMAIN o.inr = {} /\ DOMAIN o.outr = {}
  BY DEF EntryOf, NewEntry, EmptyRecords
<1>1. /\ <<NameOf[k], n>> \notin dnl
      /\ (\E g \in DOMAIN o.inr : o.inr[g].nonce = n) \/ (\E u \in DOMAIN o.outr : o.outr[u].nonce = n) =>
           k \in DOMAIN pit /\ f \in DOMAIN o.inr /\ o.inr[f].nonce = n
  BY <1>0 DEF IsLoop, HasDuplicateNonce
<1>2. \A g \in DOMAIN e.inr : g # f => g \in DOMAIN o.inr /\ k \in DOMAIN pit
  BY <1>0
<1> HIDE DEF o, e
<1>3. \A g, h \in DOMAIN e.inr : e.inr[g].nonce = e.inr[h].nonce => g = h
  <2>1. \A g, h \in DOMAIN o.inr : o.inr[g].nonce = o.inr[h].nonce => g = h
    BY <1>0 DEF LoopInv, NoncesKept
  <2>2. \A g \in DOMAIN e.inr : e.inr[g].nonce = n => g = f
    BY <1>1, <1>2, <2>1 DEF o, e
  <2>3. \A g \in DOMAIN e.inr : g # f => e.inr[g] = o.inr[g] /\ g \in DOMAIN o.inr
    BY <1>2 DEF o, e
  <2>4. f \in DOMAIN e.inr => e.inr[f].nonce = n
    BY DEF e
  <2> QED BY <2>1, <2>2, <2>3, <2>4
<1>4. ASSUME NEW a \in forwarded, a[1] = k, NEW g \in DOMAIN e.inr, e.inr[g].nonce = a[2]
      PROVE  g = a[3] \/ Forgotten(a)'
  <2>1. Forgotten(a) => Forgotten(a)'
    BY DEF Forgotten
  <2>2. CASE g # f
    <3>1. k \in DOMAIN pit /\ g \in DOMAIN pit[k].inr /\ pit[k].inr[g].nonce = a[2]
      BY <1>0, <1>2, <1>4, <2>2 DEF o, e
    <3> QED BY <1>4, <2>1, <3>1 DEF LoopInv, NoncesKept
  <2>3. CASE g = f
    <3>1. a[2] = n
      BY <1>4, <2>3 DEF e
    <3>2. Forgotten(a) \/ InOutRecord(a)
      BY <1>1, <1>4, <3>1 DEF LoopInv, NoncesKept
    <3>3. InOutRecord(a) => k \in DOMAIN pit /\ f \in DOMAIN pit[k].inr /\ pit[k].inr[f].nonce = a[2]
      BY <1>0, <1>1, <1>4, <3>1 DEF InOutRecord
    <3> QED BY <1>4, <2>1, <2>3, <3>2, <3>3 DEF LoopInv, NoncesKept
  <2> QED BY <2>2, <2>3
<1>5. ASSUME NEW a \in forwarded', a[1] \in DOMAIN pit', NEW g \in DOMAIN pit'[a[1]].inr,
             pit'[a[1]].inr[g].nonce = a[2]
      PROVE  g = a[3] \/ Forgotten(a)'
  <2>1. CASE a \in forwarded /\ a[1] # k
    BY <1>5, <2>1 DEF LoopInv, NoncesKept, Forgotten
  <2>2. CASE a \in forwarded /\ a[1] = k
    BY <1>4, <1>5, <2>2 DEF e
  <2>3. CASE a = <<k, n, f>> /\ f \in DOMAIN e.inr
    BY <1>3, <1>5, <2>3 DEF e
  <2> QED BY <2>1, <2>2, <2>3 DEF e
<1>6. NoForwardingLoop'
  <2> SUFFICES ASSUME NEW a \in forwarded', NEW b \in forwarded',
                      a[1] = b[1], a[2] = b[2], a[3] # b[3]
               PROVE  <<NameOf[a[1]], a[2]>> \in forgotten'
    BY DEF NoForwardingLoop
  <2>1. CASE a \in forwarded /\ b \in forwarded
    BY <2>1 DEF LoopInv, NoForwardingLoop
  <2>2. CASE (a = <<k, n, f>> \/ b = <<k, n, f>>) /\ f \in DOMAIN pit'[k].inr
    BY <1>5, <2>2 DEF Forgotten
  <2> QED BY <2>1, <2>2
<1>7. \A j \in DOMAIN pit' : \A g, h \in DOMAIN pit'[j].inr :
        pit'[j].inr[g].nonce = pit'[j].inr[h].nonce => g = h
  BY <1>3 DEF e, LoopInv, NoncesKept
<1>8. \A a \in forwarded' : Forgotten(a)' \/ <<NameOf[a[1]], a[2]>> \in dnl' \/ InOutRecord(a)'
  BY DEF Known
<1> QED BY <1>5, <1>6, <1>7, <1>8 DEF LoopInv, NoncesKept

\* No step of the pipelines lets an Interest loop.
LEMMA LoopStep ==
  ASSUME HistTypeOK, LoopInv, [HistNext]_histVars
  PROVE  LoopInv'
<1> PitTypeOK
  BY DEF HistTypeOK
<1>0. \A a \in forwarded : Known(a)
  BY DEF LoopInv, NoncesKept, Known
<1>1. ASSUME NEW f \in Face, NEW k \in Key, NEW n \in Nonce, NEW d \in Data, HistHit(f, k, n, d)
      PROVE  LoopInv'
  <2>1. AfterHit(k) /\ UNCHANGED <<forwarded, forgotten, dnl>>
    BY Zenon, <1>1, HitFields DEF HistHit, ContentStoreHit
  <2>2. InRecordsKept
    BY <2>1 DEF AfterHit, InRecordsKept
  <2>3. \A a \in forwarded : InOutRecord(a) => InOutRecord(a)'
    BY <2>1 DEF AfterHit, InOutRecord, EntryOf
  <2>4. \A a \in forwarded : Known(a)'
    BY <1>0, <2>1, <2>3 DEF Known, Forgotten
  <2> QED BY <2>1, <2>2, <2>4, KeptRecords
<1>2. ASSUME NEW f \in Face, NEW k \in Key, NEW n \in Nonce, NEW life \in Lifetime,
             NEW U \in SUBSET Face, HistForward(f, k, n, life, U)
      PROVE  LoopInv'
  <2>1. /\ Forward(f, k, n, life, U)
        /\ forwarded' = IF U = {} THEN forwarded ELSE forwarded \cup {<<k, n, f>>}
        /\ forgotten' = IF k \in DOMAIN pit THEN forgotten \cup OutNonces(k, U) ELSE forgotten
    BY <1>2 DEF HistForward
  <2>2. AfterForward(f, k, n, life, U)
    BY <2>1, ForwardFields
  <2>3. ~IsLoop(f, k, n) /\ dnl' = dnl
    BY <2>1 DEF Forward, InterestAccepted
  <2>4. ASSUME NEW a \in forwarded, InOutRecord(a)
        PROVE  Known(a)'
    <3>1. PICK u \in DOMAIN pit[a[1]].outr : a[1] \in DOMAIN pit /\ pit[a[1]].outr[u].nonce = a[2]
      BY <2>4 DEF InOutRecord
    <3>2. CASE a[1] = k /\ u \in U
      <4>1. <<NameOf[a[1]], a[2]>> \in OutNonces(k, U)
        BY <3>1, <3>2 DEF OutNonces
      <4> QED BY <2>1, <3>1, <3>2, <4>1 DEF Known, Forgotten
    <3>3. CASE ~(a[1] = k /\ u \in U)
      <4>1. a[1] \in DOMAIN pit' /\ u \in DOMAIN pit'[a[1]].outr /\ pit'[a[1]].outr[u].nonce = a[2]
        BY <2>2, <3>1, <3>3 DEF AfterForward, EntryOf
      <4> QED BY <4>1 DEF Known, InOutRecord
    <3> QED BY <3>2, <3>3
  <2>5. U # {} => InOutRecord(<<k, n, f>>)'
    BY <2>2 DEF AfterForward, InOutRecord
  <2>6. \A a \in forwarded' : Known(a)'
    BY <1>0, <2>1, <2>3, <2>4, <2>5 DEF Known, Forgotten
  <2>7. /\ DOMAIN pit' = DOMAIN pit \cup {k}
        /\ \A j \in DOMAIN pit : j # k => pit'[j] = pit[j]
        /\ DOMAIN pit'[k].inr = DOMAIN EntryOf(k).inr \cup {f}
        /\ pit'[k].inr[f].nonce = n
        /\ \A g \in DOMAIN pit'[k].inr : g # f => pit'[k].inr[g] = EntryOf(k).inr[g]
    BY <2>2, SMTT(20) DEF AfterForward
  <2>8. forgotten \subseteq forgotten'
    BY <2>1
  <2> QED BY <2>1, <2>3, <2>6, <2>7, <2>8, NewRecord
<1>3. ASSUME NEW f \in Face, NEW k \in Key, NEW n \in Nonce, NEW life \in Lifetime,
             NEW D \in SUBSET Face, HistReject(f, k, n, life, D)
      PROVE  LoopInv'
  <2>1. Reject(f, k, n, life, D) /\ UNCHANGED <<forwarded, forgotten>>
    BY <1>3 DEF HistReject
  <2>2. AfterReject(f, k, n, life, D)
    BY <2>1, RejectFields
  <2>3. ~IsLoop(f, k, n) /\ dnl' = dnl
    BY <2>1 DEF Reject, InterestAccepted
  <2>4. \A a \in forwarded : InOutRecord(a) => InOutRecord(a)'
    BY <2>2 DEF AfterReject, InOutRecord, EntryOf
  <2>5. \A a \in forwarded' : Known(a)'
    BY <1>0, <2>1, <2>3, <2>4 DEF Known, Forgotten
  <2>6. /\ DOMAIN pit' = DOMAIN pit \cup {k}
        /\ \A j \in DOMAIN pit : j # k => pit'[j] = pit[j]
        /\ DOMAIN pit'[k].inr \subseteq DOMAIN EntryOf(k).inr \cup {f}
        /\ f \in DOMAIN pit'[k].inr => pit'[k].inr[f].nonce = n
        /\ \A g \in DOMAIN pit'[k].inr : g # f => pit'[k].inr[g] = EntryOf(k).inr[g]
    BY <2>2 DEF AfterReject
  <2> QED BY <2>1, <2>3, <2>5, <2>6, NewRecord
<1>4. ASSUME NEW f \in Face, NEW k \in Key, NEW n \in Nonce, NEW D \in SUBSET Face,
             HistNack(f, k, n, D)
      PROVE  LoopInv'
  <2>1. IncomingNack(f, k, n, D) /\ UNCHANGED <<forwarded, forgotten, dnl>>
    BY <1>4 DEF HistNack, IncomingNack
  <2>2. AfterNack(k)
    BY <2>1, NackFields
  <2>3. InRecordsKept
    BY <2>2 DEF AfterNack, InRecordsKept
  <2>4. \A a \in forwarded : InOutRecord(a) => InOutRecord(a)'
    BY <2>2 DEF AfterNack, InOutRecord
  <2>5. \A a \in forwarded : Known(a)'
    BY <1>0, <2>1, <2>4 DEF Known, Forgotten
  <2> QED BY <2>1, <2>3, <2>5, KeptRecords
<1>5. ASSUME NEW f \in Face, NEW d \in Data, HistData(f, d)
      PROVE  LoopInv'
  <2> DEFINE fresh == {j \in MatchedBy(d) : j \notin MustBeFresh \/ d \notin StaleData}
             sat(j) == Satisfied(pit[j], f, d, Cardinality(MatchedBy(d)) > 1)
  <2>1. /\ IncomingData(f, d) /\ forwarded' = forwarded
        /\ forgotten' = forgotten \cup UNION {OutNonces(k, {f}) : k \in fresh}
    BY <1>5 DEF HistData
  <2>2. /\ DOMAIN pit' = DOMAIN pit
        /\ \A j \in DOMAIN pit \ MatchedBy(d) : pit'[j] = pit[j]
        /\ \A j \in MatchedBy(d) :
              /\ DOMAIN pit'[j].inr \subseteq DOMAIN pit[j].inr
              /\ \A g \in DOMAIN pit'[j].inr : pit'[j].inr[g] = pit[j].inr[g]
              /\ DOMAIN pit'[j].outr = DOMAIN pit[j].outr \ {f}
              /\ \A g \in DOMAIN pit'[j].outr : pit'[j].outr[g] = pit[j].outr[g]
    BY <2>1, DataFields, SMTT(20)
  <2>3. dnl' = dnl \cup UNION {DeadNonces(k, sat(k), {f}) : k \in MatchedBy(d)}
    BY <2>1 DEF IncomingData
  <2>4. InRecordsKept
    BY <2>2 DEF InRecordsKept
  <2>5. ASSUME NEW a \in forwarded, InOutRecord(a)
        PROVE  Known(a)'
    <3>1. PICK u \in DOMAIN pit[a[1]].outr : a[1] \in DOMAIN pit /\ pit[a[1]].outr[u].nonce = a[2]
      BY <2>5 DEF InOutRecord
    <3>2. CASE a[1] \in fresh /\ u = f
      <4>1. <<NameOf[a[1]], a[2]>> \in OutNonces(a[1], {f})
        BY <3>1, <3>2 DEF OutNonces
      <4> QED BY <2>1, <3>2, <4>1 DEF Known, Forgotten
    <3>3. CASE a[1] \in MatchedBy(d) \ fresh /\ u = f
      <4> DEFINE b == d \in StaleData
                 A == Answered(pit[a[1]], f, Cardinality(MatchedBy(d)) > 1)
                 e == [pit[a[1]] EXCEPT !.inr = Restrict(@, DOMAIN @ \ A),
                                        !.timer = now, !.satisfied = TRUE, !.stale = b]
      <4>1. sat(a[1]) = e /\ b /\ a[1] \in MustBeFresh /\ IsEntry(pit[a[1]])
        BY <3>1, <3>3 DEF Satisfied, PitTypeOK, TypeOK
      <4> HIDE DEF b, A
      <4>2. e.satisfied = TRUE /\ e.stale = b /\ e.outr = pit[a[1]].outr
        BY <4>1 DEF IsEntry
      <4> HIDE DEF e
      <4>3. <<NameOf[a[1]], a[2]>> \in DeadNonces(a[1], e, {f})
        BY <3>1, <3>3, <4>1, <4>2 DEF DeadNonces, NeedDnl
      <4>4. <<NameOf[a[1]], a[2]>> \in dnl'
        BY <2>3, <3>3, <4>1, <4>3
      <4> QED BY <4>4 DEF Known
    <3>4. CASE ~(a[1] \in MatchedBy(d) /\ u = f)
      <4>1. a[1] \in DOMAIN pit' /\ u \in DOMAIN pit'[a[1]].outr /\ pit'[a[1]].outr[u].nonce = a[2]
        BY <2>2, <3>1, <3>4
      <4> QED BY <4>1 DEF Known, InOutRecord
    <3> QED BY <3>2, <3>3, <3>4
  <2>6. forgotten \subseteq forgotten' /\ dnl \subseteq dnl'
    BY <2>1, <2>3
  <2>7. \A a \in forwarded : Known(a)'
    BY <1>0, <2>5, <2>6 DEF Known, Forgotten
  <2> QED BY <2>1, <2>4, <2>6, <2>7, KeptRecords
<1>6. ASSUME NEW k \in Key, HistFinalize(k)
      PROVE  LoopInv'
  <2>1. /\ InterestFinalize(k) /\ forwarded' = forwarded
        /\ forgotten' = IF pit[k].satisfied /\ (k \notin MustBeFresh \/ ~pit[k].stale)
                           THEN forgotten \cup OutNonces(k, Face) ELSE forgotten
    BY <1>6 DEF HistFinalize
  <2>2. k \in DOMAIN pit /\ DOMAIN pit' = DOMAIN pit \ {k} /\ \A j \in DOMAIN pit' : pit'[j] = pit[j]
    BY Zenon, <2>1, FinalizeFields
  <2>3. dnl' = dnl \cup DeadNonces(k, pit[k], Face)
    BY <2>1 DEF InterestFinalize
  <2>4. InRecordsKept
    BY <2>2 DEF InRecordsKept
  <2>5. ASSUME NEW a \in forwarded, InOutRecord(a)
        PROVE  Known(a)'
    <3>1. PICK u \in DOMAIN pit[a[1]].outr : a[1] \in DOMAIN pit /\ pit[a[1]].outr[u].nonce = a[2]
      BY <2>5 DEF InOutRecord
    <3>2. u \in Face
      BY <3>1 DEF PitTypeOK, TypeOK, IsEntry
    <3>3. CASE a[1] = k /\ NeedDnl(k, pit[k])
      <4>1. <<NameOf[a[1]], a[2]>> \in DeadNonces(k, pit[k], Face)
        BY <3>1, <3>2, <3>3 DEF DeadNonces
      <4> QED BY <2>3, <4>1 DEF Known
    <3>4. CASE a[1] = k /\ ~NeedDnl(k, pit[k])
      <4>1. <<NameOf[a[1]], a[2]>> \in OutNonces(k, Face)
        BY <3>1, <3>2, <3>4 DEF OutNonces
      <4>2. pit[k].satisfied /\ (k \notin MustBeFresh \/ ~pit[k].stale)
        BY <3>4 DEF NeedDnl
      <4> QED BY <2>1, <4>1, <4>2 DEF Known, Forgotten
    <3>5. CASE a[1] # k
      BY <2>2, <3>1, <3>5 DEF Known, InOutRecord
    <3> QED BY <3>3, <3>4, <3>5
  <2>6. forgotten \subseteq forgotten' /\ dnl \subseteq dnl'
    BY <2>1, <2>3
  <2>7. \A a \in forwarded : Known(a)'
    BY <1>0, <2>5, <2>6 DEF Known, Forgotten
  <2> QED BY <2>1, <2>4, <2>6, <2>7, KeptRecords
<1>7. ASSUME NEW f \in Face, HistRemoveFace(f)
      PROVE  LoopInv'
  <2>1. /\ RemoveFace(f) /\ UNCHANGED <<forwarded, dnl>>
        /\ forgotten' = forgotten \cup UNION {OutNonces(k, {f}) : k \in DOMAIN pit}
    BY <1>7 DEF HistRemoveFace, RemoveFace
  <2>2. /\ DOMAIN pit' = DOMAIN pit
        /\ \A j \in DOMAIN pit :
              /\ DOMAIN pit'[j].inr \subseteq DOMAIN pit[j].inr
              /\ \A g \in DOMAIN pit'[j].inr : pit'[j].inr[g] = pit[j].inr[g]
              /\ DOMAIN pit'[j].outr = DOMAIN pit[j].outr \ {f}
              /\ \A g \in DOMAIN pit'[j].outr : pit'[j].outr[g] = pit[j].outr[g]
    BY <2>1, RemoveFaceFields
  <2>3. InRecordsKept
    BY <2>2 DEF InRecordsKept
  <2>4. ASSUME NEW a \in forwarded, InOutRecord(a)
        PROVE  Known(a)'
    <3>1. PICK u \in DOMAIN pit[a[1]].outr : a[1] \in DOMAIN pit /\ pit[a[1]].outr[u].nonce = a[2]
      BY <2>4 DEF InOutRecord
    <3>2. CASE u = f
      <4>1. <<NameOf[a[1]], a[2]>> \in OutNonces(a[1], {f})
        BY <3>1, <3>2 DEF OutNonces
      <4> QED BY <2>1, <3>1, <4>1 DEF Known, Forgotten
    <3>3. CASE u # f
      BY <2>2, <3>1, <3>3 DEF Known, InOutRecord
    <3> QED BY <3>2, <3>3
  <2>5. \A a \in forwarded : Known(a)'
    BY Zenon, <1>0, <2>1, <2>4 DEF Known, Forgotten
  <2> QED BY <2>1, <2>3, <2>5, KeptRecords
<1>8. CASE HistOther \/ UNCHANGED histVars
  <2>1. UNCHANGED <<forwarded, forgotten, dnl, pit>>
    BY <1>8 DEF HistOther, hist, histVars, vars, Tick, InterestDropped, DataUnsolicited
  <2> QED BY <2>1 DEF LoopInv, NoncesKept, NoForwardingLoop, Forgotten, InOutRecord
<1> QED BY <1>1, <1>2, <1>3, <1>4, <1>5, <1>6, <1>7, <1>8 DEF HistNext, HistStep

-----------------------------------------------------------------------------
\* The invariants hold at the start.
LEMMA HistInitial ==
  ASSUME HistInit
  PROVE  HistTypeOK /\ CreditCoversRecords /\ LoopInv /\ TimerCoversDownstreams
<1>1. DOMAIN pit = {} /\ PitTypeOK /\ forwarded = {} /\ credit = [f \in Face |-> 0]
  BY PipelineInitial DEF HistInit
<1>2. HistTypeOK
  BY <1>1 DEF HistTypeOK
<1>3. ASSUME NEW f \in Face
      PROVE  credit[f] >= Cardinality(AskedBy(pit, f))
  <2>1. AskedBy(pit, f) = {}
    BY <1>1 DEF AskedBy
  <2>2. credit[f] = 0 /\ Cardinality(AskedBy(pit, f)) = 0
    BY <1>1, <2>1, FS_EmptySet
  <2> QED BY <2>2
<1>4. LoopInv /\ TimerCoversDownstreams
  BY Zenon, <1>1 DEF LoopInv, NoncesKept, NoForwardingLoop, TimerCoversDownstreams
<1> QED BY <1>2, <1>3, <1>4 DEF CreditCoversRecords

(* The PIT, the Dead Nonce List and the face table keep their types, the    *)
(* records of an entry are of faces that still exist, and every entry has   *)
(* an armed expiryTimer that is not overdue: no sequence of packets, timers *)
(* and face removals leaves an entry that nothing will ever erase.          *)
THEOREM ForwarderTypeCorrect == HistSpec => [](TypeOK /\ TimerArmed)
<1>1. HistInit => HistTypeOK
  BY HistInitial
<1>2. HistTypeOK /\ [HistNext]_histVars => HistTypeOK'
  BY TypeStep
<1>3. HistTypeOK => TypeOK /\ TimerArmed
  BY DEF HistTypeOK, PitTypeOK
<1> QED BY <1>1, <1>2, <1>3, PTL DEF HistSpec

(* A downstream never gets more Data and Nacks than the Interests accepted  *)
(* from it, for any faces, links and strategy choices.                      *)
THEOREM FlowIsBalanced == HistSpec => []FlowBalance
<1> DEFINE Inv == HistTypeOK /\ CreditCoversRecords
<1>1. HistInit => Inv
  BY HistInitial
<1>2. Inv /\ [HistNext]_histVars => Inv'
  BY TypeStep, CreditStep
<1>3. Inv => FlowBalance
  <2> SUFFICES ASSUME Inv, NEW f \in Face
               PROVE  credit[f] >= 0
    BY DEF FlowBalance
  <2>1. AskedBy(pit, f) \subseteq DOMAIN pit /\ IsFiniteSet(DOMAIN pit)
    BY DEF AskedBy, HistTypeOK, PitTypeOK
  <2>2. Cardinality(AskedBy(pit, f)) \in Nat
    BY <2>1, FS_Subset, FS_CardinalityType
  <2> QED BY <2>2 DEF CreditCoversRecords, HistTypeOK
<1> QED BY <1>1, <1>2, <1>3, PTL DEF HistSpec

(* An Interest that was sent upstream and comes back on another face is not *)
(* sent upstream again while the code has not dropped its nonce on purpose. *)
THEOREM InterestsDoNotLoop == HistSpec => []NoForwardingLoop
<1> DEFINE Inv == HistTypeOK /\ LoopInv
<1>1. HistInit => Inv
  BY HistInitial
<1>2. Inv /\ [HistNext]_histVars => Inv'
  BY TypeStep, LoopStep
<1>3. Inv => NoForwardingLoop
  BY DEF LoopInv
<1> QED BY <1>1, <1>2, <1>3, PTL DEF HistSpec

(* The expiryTimer of an entry that still waits for an upstream covers the  *)
(* lifetime of every in-record.                                             *)
THEOREM TimersCoverDownstreams == HistSpec => []TimerCoversDownstreams
<1> DEFINE Inv == HistTypeOK /\ TimerCoversDownstreams
<1>1. HistInit => Inv
  BY HistInitial
<1>2. Inv /\ [HistNext]_histVars => Inv'
  BY TypeStep, TimerStep
<1> QED BY <1>1, <1>2, PTL DEF HistSpec
=============================================================================
