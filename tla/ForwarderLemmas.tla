-------------------------- MODULE ForwarderLemmas --------------------------
(***************************************************************************)
(* What the actions of Forwarder leave in the PIT, field by field, and     *)
(* that they keep the types.  ForwarderProofs and QosForwardingProofs      *)
(* build on it.                                                            *)
(***************************************************************************)
EXTENDS Forwarder, FiniteSetTheorems, WellFoundedInduction, TLAPS

(* Every entry has an armed expiryTimer that is not overdue, whatever the   *)
(* pipelines did to it since m_pit.insert created it without one, and no    *)
(* record outlives the horizon of the clock.                                *)
TimerArmed ==
  \A k \in DOMAIN pit :
    /\ pit[k].timer \in now..MaxTime
    /\ \A f \in DOMAIN pit[k].inr : pit[k].inr[f].expiry <= MaxTime

PitTypeOK == TypeOK /\ TimerArmed /\ IsFiniteSet(DOMAIN pit)

-----------------------------------------------------------------------------
\* A non-empty set of naturals has a least element.
LEMMA LeastNatural ==
  ASSUME NEW S \in SUBSET Nat, S # {}
  PROVE  \E x \in S : \A y \in S : x <= y
<1> DEFINE R == {ss \in Nat \X Nat : ss[1] < ss[2]}
<1>1. IsWellFoundedOn(R, Nat)
  BY NatLessThanWellFounded DEF OpToRel
<1>2. \A x, y \in Nat : <<y, x>> \notin R => x <= y
  OBVIOUS
<1> HIDE DEF R
<1>3. PICK x \in S : \A y \in S : ~(<<y, x>> \in R)
  BY Zenon, <1>1, WFMin
<1> QED BY Zenon, <1>2, <1>3

\* A non-empty set of naturals with a bound has a greatest element, Max.
LEMMA MaxOfBounded ==
  ASSUME NEW S \in SUBSET Nat, S # {}, NEW b \in Nat, \A x \in S : x <= b
  PROVE  Max(S) \in S /\ \A y \in S : y <= Max(S)
<1> DEFINE B == {m \in Nat : \A x \in S : x <= m}
<1>1. B \in SUBSET Nat /\ B # {}
  OBVIOUS
<1>2. PICK m \in B : \A n \in B : m <= n
  BY Zenon, <1>1, LeastNatural
<1>3. m \in S
  <2> SUFFICES ASSUME m \notin S
               PROVE  FALSE
    OBVIOUS
  <2>1. \A x \in S : x \in Nat /\ x < m
    BY <1>2
  <2>2. PICK x0 \in S : x0 \in Nat /\ x0 < m
    BY Zenon, <2>1
  <2>3. m \in Nat /\ m - 1 \in Nat
    BY <2>2
  <2>4. \A x \in S : x <= m - 1
    BY <2>1, <2>3
  <2>5. m - 1 \in B
    BY <2>3, <2>4
  <2> QED BY <2>3, <2>5, <1>2
<1>4. m \in S /\ \A y \in S : m >= y
  BY <1>2, <1>3
<1>5. Max(S) \in S /\ \A y \in S : Max(S) >= y
  BY Zenon, <1>4 DEF Max
<1> QED BY <1>5

-----------------------------------------------------------------------------
(* What the pipelines leave in the PIT, field by field.                     *)

\* m_pit.insert returns an entry with records of faces that exist.
LEMMA EntryOfType ==
  ASSUME PitTypeOK, NEW k \in Key
  PROVE  /\ IsEntry(EntryOf(k))
         /\ DOMAIN EntryOf(k).inr \cup DOMAIN EntryOf(k).outr \subseteq faces
         /\ \A f \in DOMAIN EntryOf(k).inr : EntryOf(k).inr[f].expiry <= MaxTime
<1>1. CASE k \in DOMAIN pit
  BY <1>1 DEF PitTypeOK, TypeOK, TimerArmed, EntryOf
<1>2. CASE k \notin DOMAIN pit
  BY <1>2 DEF EntryOf, NewEntry, EmptyRecords, IsEntry, NoTimer
<1> QED BY <1>1, <1>2

\* onContentStoreMiss: the in-record of f is replaced, and the timer covers
\* every in-record.
LEMMA MissFields ==
  ASSUME PitTypeOK, NEW f \in faces, NEW k \in Key, NEW n \in Nonce,
         NEW life \in Lifetime, now + life <= MaxTime
  PROVE  LET e == EntryAfterMiss(f, k, n, life)
             o == EntryOf(k)
         IN  /\ IsEntry(e)
             /\ DOMAIN e.inr = DOMAIN o.inr \cup {f}
             /\ e.inr[f] = [nonce |-> n, expiry |-> now + life]
             /\ \A g \in DOMAIN o.inr : g # f => e.inr[g] = o.inr[g]
             /\ \A g \in DOMAIN e.inr : e.inr[g].expiry <= e.timer
             /\ e.timer \in now..MaxTime
             /\ e.outr = o.outr /\ e.satisfied = o.satisfied /\ e.stale = o.stale
<1> DEFINE o == EntryOf(k)
           r == [nonce |-> n, expiry |-> now + life]
           i == insertOrUpdateInRecord(o, f, n, now + life)
           E == {i.inr[g].expiry : g \in DOMAIN i.inr}
<1>1. now \in Nat /\ life \in Nat /\ MaxTime \in Nat /\ faces \subseteq Face
  BY LifetimeAssumption, BoundsAssumption DEF PitTypeOK, TypeOK
<1>2. r \in InRecord
  BY <1>1 DEF InRecord
<1>3. /\ IsEntry(o) /\ \A g \in DOMAIN o.inr : o.inr[g].expiry <= MaxTime
  BY EntryOfType
<1>4. /\ DOMAIN i.inr = DOMAIN o.inr \cup {f}
      /\ \A g \in DOMAIN i.inr : i.inr[g] = IF g = f THEN r ELSE o.inr[g]
      /\ i.outr = o.outr /\ i.timer = o.timer /\ i.satisfied = o.satisfied /\ i.stale = o.stale
      /\ DOMAIN i = {"inr", "outr", "timer", "satisfied", "stale"}
  BY <1>3 DEF insertOrUpdateInRecord, IsEntry, Put
<1>11. EntryAfterMiss(f, k, n, life) = [i EXCEPT !.timer = LastExpiry(i)]
  BY DEF EntryAfterMiss
<1> HIDE DEF i, o
<1>5. \A g \in DOMAIN i.inr : i.inr[g] \in InRecord /\ i.inr[g].expiry \in 0..MaxTime
  BY <1>1, <1>2, <1>3, <1>4 DEF IsEntry, InRecord
<1>6. E \in SUBSET Nat /\ E # {} /\ \A x \in E : x <= MaxTime
  BY <1>1, <1>4, <1>5
<1>7. Max(E) \in E /\ \A x \in E : x <= Max(E)
  BY Zenon, <1>1, <1>6, MaxOfBounded
<1>8. now + life \in E
  BY <1>4
<1>9. LastExpiry(i) = Max(E) /\ \A g \in DOMAIN i.inr : i.inr[g].expiry \in E
  BY DEF LastExpiry
<1> HIDE DEF E
<1>10. LastExpiry(i) \in now..MaxTime /\ \A g \in DOMAIN i.inr : i.inr[g].expiry <= LastExpiry(i)
  <2>1. Max(E) \in Nat /\ Max(E) <= MaxTime /\ now + life <= Max(E)
    BY Zenon, <1>6, <1>7, <1>8
  <2> QED BY <1>1, <1>7, <1>9, <2>1
<1> QED BY <1>1, <1>3, <1>4, <1>5, <1>10, <1>11 DEF IsEntry, o

\* afterReceiveInterest forwards to U: their out-records have the nonce n.
AfterForward(f, k, n, life, U) ==
  LET e == pit'[k]
      o == EntryOf(k)
  IN  /\ DOMAIN pit' = DOMAIN pit \cup {k}
      /\ \A j \in DOMAIN pit : j # k => pit'[j] = pit[j]
      /\ f \in faces /\ U \subseteq faces
      /\ IsEntry(e)
      /\ DOMAIN e.inr = DOMAIN o.inr \cup {f}
      /\ e.inr[f] = [nonce |-> n, expiry |-> now + life]
      /\ \A g \in DOMAIN o.inr : g # f => e.inr[g] = o.inr[g]
      /\ \A g \in DOMAIN e.inr : e.inr[g].expiry <= e.timer
      /\ e.timer \in now..MaxTime
      /\ DOMAIN e.outr = DOMAIN o.outr \cup U
      /\ \A u \in U : e.outr[u].nonce = n
      /\ \A u \in DOMAIN o.outr : u \notin U => e.outr[u] = o.outr[u]
      /\ e.satisfied = o.satisfied /\ e.stale = o.stale

\* onContentStoreMiss and onOutgoingInterest.
LEMMA ForwardFields ==
  ASSUME PitTypeOK, NEW f \in Face, NEW k \in Key, NEW n \in Nonce, NEW life \in Lifetime,
         NEW U, Forward(f, k, n, life, U)
  PROVE  AfterForward(f, k, n, life, U)
<1> DEFINE o == EntryOf(k)
           m == EntryAfterMiss(f, k, n, life)
           e == SendInterest(m, U, n, now + life)
<1>1. f \in faces /\ now + life <= MaxTime /\ U \subseteq faces /\ faces \subseteq Face
  BY DEF Forward, InterestAccepted, Receive, Forwardable, PitTypeOK, TypeOK
<1>2. /\ IsEntry(m)
      /\ DOMAIN m.inr = DOMAIN o.inr \cup {f}
      /\ m.inr[f] = [nonce |-> n, expiry |-> now + life]
      /\ \A g \in DOMAIN o.inr : g # f => m.inr[g] = o.inr[g]
      /\ \A g \in DOMAIN m.inr : m.inr[g].expiry <= m.timer
      /\ m.timer \in now..MaxTime
      /\ m.outr = o.outr /\ m.satisfied = o.satisfied /\ m.stale = o.stale
  BY <1>1, MissFields
<1> HIDE DEF m, o
<1>3. now + life \in Nat
  BY LifetimeAssumption DEF PitTypeOK, TypeOK
<1>4. /\ e.inr = m.inr /\ e.timer = m.timer /\ e.satisfied = m.satisfied /\ e.stale = m.stale
      /\ DOMAIN e.outr = DOMAIN m.outr \cup U
      /\ \A u \in U : e.outr[u] = [nonce |-> n, expiry |-> now + life,
                                   nacked |-> u \in DOMAIN m.outr /\ m.outr[u].nacked]
      /\ \A u \in DOMAIN m.outr : u \notin U => e.outr[u] = m.outr[u]
      /\ DOMAIN e = {"inr", "outr", "timer", "satisfied", "stale"}
  BY <1>2 DEF SendInterest, IsEntry
<1>5. /\ \A u \in DOMAIN e.outr : e.outr[u] \in OutRecord
      /\ \A u \in U : e.outr[u].nonce = n
  <2>1. ASSUME NEW u \in U
        PROVE  e.outr[u] \in OutRecord /\ e.outr[u].nonce = n
    <3> DEFINE b == u \in DOMAIN m.outr /\ m.outr[u].nacked
    <3>1. b \in BOOLEAN
      OBVIOUS
    <3>2. e.outr[u] = [nonce |-> n, expiry |-> now + life, nacked |-> b]
      BY <1>4
    <3> HIDE DEF b, e
    <3> QED BY <1>3, <3>1, <3>2 DEF OutRecord
  <2>2. \A u \in DOMAIN m.outr : u \notin U => e.outr[u] \in OutRecord
    BY <1>2, <1>4 DEF IsEntry
  <2> HIDE DEF e
  <2> QED BY <1>4, <2>1, <2>2
<1>6. IsEntry(e)
  BY <1>1, <1>2, <1>4, <1>5 DEF IsEntry
<1>7. pit' = Put(pit, k, e)
  BY DEF Forward, e, m
<1> HIDE DEF e
<1>8. /\ DOMAIN pit' = DOMAIN pit \cup {k} /\ pit'[k] = e
      /\ \A j \in DOMAIN pit : j # k => pit'[j] = pit[j]
  BY <1>7 DEF Put
<1>9. \A u \in DOMAIN o.outr : u \notin U => e.outr[u] = o.outr[u]
  BY <1>2, <1>4
<1> QED BY <1>1, <1>2, <1>4, <1>5, <1>6, <1>8, <1>9 DEF o, AfterForward

\* A Content Store hit leaves the records alone and ends the entry.
AfterHit(k) ==
  LET e == pit'[k]
      o == EntryOf(k)
  IN  /\ DOMAIN pit' = DOMAIN pit \cup {k}
      /\ \A j \in DOMAIN pit : j # k => pit'[j] = pit[j]
      /\ IsEntry(e)
      /\ e.inr = o.inr /\ e.outr = o.outr /\ e.timer = now /\ e.satisfied
      /\ DOMAIN o.inr = {}

\* onContentStoreHit.
LEMMA HitFields ==
  ASSUME PitTypeOK, NEW f \in Face, NEW k \in Key, NEW n \in Nonce, NEW d \in Data,
         ContentStoreHit(f, k, n, d)
  PROVE  AfterHit(k)
<1> DEFINE o == EntryOf(k)
           b == d \in StaleData
           e == [o EXCEPT !.satisfied = TRUE, !.timer = now, !.stale = b]
<1>1. IsEntry(o)
  BY EntryOfType
<1>2. now \in Nat /\ b \in BOOLEAN
  BY DEF PitTypeOK, TypeOK
<1>3. DOMAIN o.inr = {} /\ pit' = Put(pit, k, e)
  BY DEF ContentStoreHit, hasInRecords
<1> HIDE DEF o, b
<1>4. IsEntry(e) /\ e.inr = o.inr /\ e.outr = o.outr /\ e.timer = now /\ e.satisfied
  BY <1>1, <1>2 DEF IsEntry
<1> HIDE DEF e
<1>5. /\ DOMAIN pit' = DOMAIN pit \cup {k} /\ pit'[k] = e
      /\ \A j \in DOMAIN pit : j # k => pit'[j] = pit[j]
  BY <1>3 DEF Put
<1> QED BY <1>3, <1>4, <1>5 DEF o, AfterHit

\* A rejection leaves the out-records alone; a point-to-point downstream that
\* is sent a Nack has no in-record.
AfterReject(f, k, n, life, D) ==
  LET e == pit'[k]
      o == EntryOf(k)
  IN  /\ DOMAIN pit' = DOMAIN pit \cup {k}
      /\ \A j \in DOMAIN pit : j # k => pit'[j] = pit[j]
      /\ f \in faces
      /\ IsEntry(e)
      /\ DOMAIN e.inr = (DOMAIN o.inr \cup {f}) \ (D \cap PointToPoint)
      /\ f \in DOMAIN e.inr => e.inr[f] = [nonce |-> n, expiry |-> now + life]
      /\ \A g \in DOMAIN e.inr : g # f => e.inr[g] = o.inr[g]
      /\ \A g \in DOMAIN e.inr : e.inr[g].expiry <= MaxTime
      /\ e.outr = o.outr /\ e.timer = now
      /\ D \subseteq {f}

\* onContentStoreMiss and rejectPendingInterest.
LEMMA RejectFields ==
  ASSUME PitTypeOK, NEW f \in Face, NEW k \in Key, NEW n \in Nonce, NEW life \in Lifetime,
         NEW D, Reject(f, k, n, life, D)
  PROVE  AfterReject(f, k, n, life, D)
<1> DEFINE o == EntryOf(k)
           m == EntryAfterMiss(f, k, n, life)
           e == [NackTo(m, D) EXCEPT !.timer = now]
<1>1. f \in faces /\ now + life <= MaxTime /\ D \subseteq {f} /\ now \in Nat /\ MaxTime \in Nat
  BY BoundsAssumption DEF Reject, InterestAccepted, Receive, PitTypeOK, TypeOK
<1>2. /\ IsEntry(m)
      /\ DOMAIN m.inr = DOMAIN o.inr \cup {f}
      /\ m.inr[f] = [nonce |-> n, expiry |-> now + life]
      /\ \A g \in DOMAIN o.inr : g # f => m.inr[g] = o.inr[g]
      /\ \A g \in DOMAIN m.inr : m.inr[g].expiry <= m.timer
      /\ m.timer \in now..MaxTime
      /\ m.outr = o.outr
  BY <1>1, MissFields
<1>3. pit' = Put(pit, k, e)
  BY DEF Reject
<1> HIDE DEF m, o
<1>4. /\ DOMAIN e.inr = DOMAIN m.inr \ (D \cap PointToPoint)
      /\ \A g \in DOMAIN e.inr : e.inr[g] = m.inr[g]
      /\ e.outr = m.outr /\ e.timer = now /\ e.satisfied = m.satisfied /\ e.stale = m.stale
      /\ DOMAIN e = {"inr", "outr", "timer", "satisfied", "stale"}
  BY <1>2 DEF NackTo, Restrict, IsEntry
<1> HIDE DEF e
<1>5. IsEntry(e)
  BY <1>1, <1>2, <1>4 DEF IsEntry
<1>6. \A g \in DOMAIN e.inr : e.inr[g].expiry <= MaxTime
  <2>1. \A g \in DOMAIN m.inr : m.inr[g].expiry \in Nat /\ m.timer \in Nat /\ m.timer <= MaxTime
    BY <1>1, <1>2 DEF IsEntry, InRecord
  <2> QED BY <1>1, <1>2, <1>4, <2>1
<1>7. /\ DOMAIN pit' = DOMAIN pit \cup {k} /\ pit'[k] = e
      /\ \A j \in DOMAIN pit : j # k => pit'[j] = pit[j]
  BY <1>3 DEF Put
<1> QED BY <1>1, <1>2, <1>4, <1>5, <1>6, <1>7 DEF o, AfterReject

\* Data from f: the entries it satisfies lose the in-records that were answered
\* and the out-record of f.
LEMMA DataFields ==
  ASSUME PitTypeOK, NEW f \in Face, NEW d \in Data, IncomingData(f, d)
  PROVE  /\ DOMAIN pit' = DOMAIN pit
         /\ \A j \in DOMAIN pit \ MatchedBy(d) : pit'[j] = pit[j]
         /\ \A j \in MatchedBy(d) :
              /\ IsEntry(pit'[j])
              /\ DOMAIN pit'[j].inr =
                   DOMAIN pit[j].inr \ Answered(pit[j], f, Cardinality(MatchedBy(d)) > 1)
              /\ \A g \in DOMAIN pit'[j].inr : pit'[j].inr[g] = pit[j].inr[g]
              /\ DOMAIN pit'[j].outr = DOMAIN pit[j].outr \ {f}
              /\ \A g \in DOMAIN pit'[j].outr : pit'[j].outr[g] = pit[j].outr[g]
              /\ pit'[j].timer = now /\ pit'[j].satisfied
<1> DEFINE many == Cardinality(MatchedBy(d)) > 1
           sat(j) == Satisfied(pit[j], f, d, many)
<1>1. /\ DOMAIN pit' = DOMAIN pit
      /\ \A j \in DOMAIN pit \ MatchedBy(d) : pit'[j] = pit[j]
      /\ \A j \in MatchedBy(d) : pit'[j] = deleteOutRecord(sat(j), f)
  BY DEF IncomingData, MatchedBy
<1>2. ASSUME NEW j \in MatchedBy(d)
      PROVE  /\ IsEntry(pit'[j])
             /\ DOMAIN pit'[j].inr = DOMAIN pit[j].inr \ Answered(pit[j], f, many)
             /\ \A g \in DOMAIN pit'[j].inr : pit'[j].inr[g] = pit[j].inr[g]
             /\ DOMAIN pit'[j].outr = DOMAIN pit[j].outr \ {f}
             /\ \A g \in DOMAIN pit'[j].outr : pit'[j].outr[g] = pit[j].outr[g]
             /\ pit'[j].timer = now /\ pit'[j].satisfied
  <2> DEFINE o == pit[j]
             b == d \in StaleData
             A == Answered(o, f, many)
             t == [o EXCEPT !.inr = Restrict(@, DOMAIN @ \ A),
                            !.timer = now, !.satisfied = TRUE, !.stale = b]
             e == [t EXCEPT !.outr = Remove(@, f)]
  <2>1. IsEntry(o) /\ now \in Nat /\ b \in BOOLEAN
    BY DEF PitTypeOK, TypeOK, MatchedBy
  <2>2. pit'[j] = e
    BY Zenon, <1>1 DEF Satisfied, deleteOutRecord
  <2> HIDE DEF o, b, A
  <2>3. /\ DOMAIN e = {"inr", "outr", "timer", "satisfied", "stale"}
        /\ DOMAIN e.inr = DOMAIN o.inr \ A
        /\ \A g \in DOMAIN e.inr : e.inr[g] = o.inr[g]
        /\ DOMAIN e.outr = DOMAIN o.outr \ {f}
        /\ \A g \in DOMAIN e.outr : e.outr[g] = o.outr[g]
        /\ e.timer = now /\ e.satisfied = TRUE /\ e.stale = b
    BY <2>1 DEF Remove, Restrict, IsEntry
  <2> HIDE DEF e
  <2>4. IsEntry(e)
    BY Zenon, <2>1, <2>3 DEF IsEntry
  <2> QED BY <2>2, <2>3, <2>4 DEF o, A
<1> QED BY <1>1, <1>2

\* setIncomingNack touches one out-record.
LEMMA SetNackFields ==
  ASSUME NEW o, IsEntry(o), NEW f \in DOMAIN o.outr
  PROVE  LET e == setIncomingNack(o, f)
         IN  /\ IsEntry(e)
             /\ e.inr = o.inr /\ DOMAIN e.outr = DOMAIN o.outr
             /\ \A u \in DOMAIN o.outr :
                  /\ e.outr[u].nonce = o.outr[u].nonce /\ e.outr[u].expiry = o.outr[u].expiry
                  /\ o.outr[u].nacked => e.outr[u].nacked
             /\ e.timer = o.timer /\ e.satisfied = o.satisfied /\ e.stale = o.stale
<1> DEFINE r == [o.outr[f] EXCEPT !.nacked = TRUE]
           x == [o.outr EXCEPT ![f] = r]
           e == [o EXCEPT !.outr = x]
<1>1. o.outr[f] \in OutRecord
  BY DEF IsEntry
<1>2. /\ r \in OutRecord /\ r.nonce = o.outr[f].nonce /\ r.expiry = o.outr[f].expiry
      /\ r.nacked = TRUE
  BY Zenon, <1>1 DEF OutRecord
<1>3. setIncomingNack(o, f) = e
  BY DEF setIncomingNack
<1> HIDE DEF r
<1>4. DOMAIN x = DOMAIN o.outr /\ \A u \in DOMAIN o.outr : x[u] = IF u = f THEN r ELSE o.outr[u]
  OBVIOUS
<1> HIDE DEF x
<1>5. /\ DOMAIN e = {"inr", "outr", "timer", "satisfied", "stale"}
      /\ e.inr = o.inr /\ e.outr = x /\ e.timer = o.timer
      /\ e.satisfied = o.satisfied /\ e.stale = o.stale
  BY DEF IsEntry
<1> HIDE DEF e
<1>6. IsEntry(e)
  BY <1>1, <1>2, <1>4, <1>5 DEF IsEntry
<1> QED BY <1>2, <1>3, <1>4, <1>5, <1>6

\* A Nack touches one out-record and drops the in-records it is passed on to;
\* the timer moves only when no out-record is pending any more.
AfterNack(k) ==
  LET e == pit'[k]
      o == pit[k]
  IN  /\ k \in DOMAIN pit /\ DOMAIN pit' = DOMAIN pit
      /\ \A j \in DOMAIN pit : j # k => pit'[j] = pit[j]
      /\ IsEntry(e)
      /\ DOMAIN e.inr \subseteq DOMAIN o.inr
      /\ \A g \in DOMAIN e.inr : e.inr[g] = o.inr[g]
      /\ DOMAIN e.outr = DOMAIN o.outr
      /\ \A u \in DOMAIN o.outr :
           /\ e.outr[u].nonce = o.outr[u].nonce /\ e.outr[u].expiry = o.outr[u].expiry
           /\ o.outr[u].nacked => e.outr[u].nacked
      /\ e.timer = o.timer \/ (e.timer = now /\ ~hasPendingOutRecords(e, now))
      /\ e.satisfied = o.satisfied

\* onIncomingNack.
LEMMA NackFields ==
  ASSUME PitTypeOK, NEW f \in Face, NEW k \in Key, NEW n \in Nonce, NEW D,
         IncomingNack(f, k, n, D)
  PROVE  AfterNack(k)
<1> DEFINE o == pit[k]
           s == setIncomingNack(o, f)
           a == EntryAfterNack(o, f)
           e == NackTo(a, D)
<1>1. k \in DOMAIN pit /\ f \in DOMAIN o.outr /\ pit' = Put(pit, k, e)
  BY DEF IncomingNack, NackAccepted
<1>2. IsEntry(o) /\ now \in Nat
  BY <1>1 DEF PitTypeOK, TypeOK
<1>3. a = IF hasPendingOutRecords(s, now) THEN s ELSE [s EXCEPT !.timer = now]
  BY DEF EntryAfterNack
<1>4. /\ IsEntry(s)
      /\ s.inr = o.inr /\ DOMAIN s.outr = DOMAIN o.outr
      /\ \A u \in DOMAIN o.outr :
           /\ s.outr[u].nonce = o.outr[u].nonce /\ s.outr[u].expiry = o.outr[u].expiry
           /\ o.outr[u].nacked => s.outr[u].nacked
      /\ s.timer = o.timer /\ s.satisfied = o.satisfied /\ s.stale = o.stale
  BY <1>1, <1>2, SetNackFields
<1> HIDE DEF o, s, a
<1>5. /\ DOMAIN a = {"inr", "outr", "timer", "satisfied", "stale"}
      /\ a.inr = s.inr /\ a.outr = s.outr /\ a.satisfied = s.satisfied /\ a.stale = s.stale
      /\ a.timer = s.timer \/ (a.timer = now /\ ~hasPendingOutRecords(s, now))
  <2>1. CASE hasPendingOutRecords(s, now)
    BY <1>3, <1>4, <2>1 DEF IsEntry
  <2>2. CASE ~hasPendingOutRecords(s, now)
    BY <1>3, <1>4, <2>2 DEF IsEntry
  <2> QED BY <2>1, <2>2
<1>6. /\ DOMAIN e = {"inr", "outr", "timer", "satisfied", "stale"}
      /\ DOMAIN e.inr \subseteq DOMAIN a.inr
      /\ \A g \in DOMAIN e.inr : e.inr[g] = a.inr[g]
      /\ e.outr = a.outr /\ e.timer = a.timer /\ e.satisfied = a.satisfied /\ e.stale = a.stale
  BY <1>5 DEF NackTo, Restrict
<1> HIDE DEF e
<1>7. IsEntry(e)
  BY <1>2, <1>4, <1>5, <1>6 DEF IsEntry
<1>8. hasPendingOutRecords(e, now) <=> hasPendingOutRecords(s, now)
  BY <1>5, <1>6 DEF hasPendingOutRecords
<1>9. /\ DOMAIN pit' = DOMAIN pit /\ pit'[k] = e
      /\ \A j \in DOMAIN pit : j # k => pit'[j] = pit[j]
  BY <1>1 DEF Put
<1> QED BY <1>1, <1>4, <1>5, <1>6, <1>7, <1>8, <1>9 DEF o, AfterNack

\* onInterestFinalize erases the entry.
LEMMA FinalizeFields ==
  ASSUME NEW k, InterestFinalize(k)
  PROVE  /\ k \in DOMAIN pit /\ DOMAIN pit' = DOMAIN pit \ {k}
         /\ \A j \in DOMAIN pit' : pit'[j] = pit[j]
BY DEF InterestFinalize, Remove, Restrict

\* cleanupOnFaceRemoval drops the records of the face from every entry.
LEMMA RemoveFaceFields ==
  ASSUME PitTypeOK, NEW f, RemoveFace(f)
  PROVE  /\ DOMAIN pit' = DOMAIN pit
         /\ \A j \in DOMAIN pit :
              /\ IsEntry(pit'[j])
              /\ DOMAIN pit'[j].inr = DOMAIN pit[j].inr \ {f}
              /\ \A g \in DOMAIN pit'[j].inr : pit'[j].inr[g] = pit[j].inr[g]
              /\ DOMAIN pit'[j].outr = DOMAIN pit[j].outr \ {f}
              /\ \A g \in DOMAIN pit'[j].outr : pit'[j].outr[g] = pit[j].outr[g]
              /\ pit'[j].timer = pit[j].timer /\ pit'[j].satisfied = pit[j].satisfied
<1>1. /\ DOMAIN pit' = DOMAIN pit
      /\ \A j \in DOMAIN pit : pit'[j] = deleteOutRecord(deleteInRecord(pit[j], f), f)
  BY DEF RemoveFace
<1>2. ASSUME NEW j \in DOMAIN pit
      PROVE  /\ IsEntry(pit'[j])
             /\ DOMAIN pit'[j].inr = DOMAIN pit[j].inr \ {f}
             /\ \A g \in DOMAIN pit'[j].inr : pit'[j].inr[g] = pit[j].inr[g]
             /\ DOMAIN pit'[j].outr = DOMAIN pit[j].outr \ {f}
             /\ \A g \in DOMAIN pit'[j].outr : pit'[j].outr[g] = pit[j].outr[g]
             /\ pit'[j].timer = pit[j].timer /\ pit'[j].satisfied = pit[j].satisfied
  <2> DEFINE o == pit[j]
             e == deleteOutRecord(deleteInRecord(o, f), f)
  <2>1. IsEntry(o) /\ pit'[j] = e
    BY <1>1 DEF PitTypeOK, TypeOK
  <2> HIDE DEF o
  <2>2. /\ DOMAIN e = {"inr", "outr", "timer", "satisfied", "stale"}
        /\ DOMAIN e.inr = DOMAIN o.inr \ {f}
        /\ \A g \in DOMAIN e.inr : e.inr[g] = o.inr[g]
        /\ DOMAIN e.outr = DOMAIN o.outr \ {f}
        /\ \A g \in DOMAIN e.outr : e.outr[g] = o.outr[g]
        /\ e.timer = o.timer /\ e.satisfied = o.satisfied /\ e.stale = o.stale
    BY <2>1 DEF IsEntry, deleteOutRecord, deleteInRecord, Remove, Restrict
  <2> HIDE DEF e
  <2>3. IsEntry(e)
    BY <2>1, <2>2 DEF IsEntry
  <2> QED BY <2>1, <2>2, <2>3 DEF o
<1> QED BY <1>1, <1>2

-----------------------------------------------------------------------------
(* Types.                                                                   *)

\* The part of PitTypeOK that is about the PIT.
EntryOK(e) ==
  /\ IsEntry(e) /\ DOMAIN e.inr \cup DOMAIN e.outr \subseteq faces
  /\ e.timer \in now..MaxTime
  /\ \A f \in DOMAIN e.inr : e.inr[f].expiry <= MaxTime
PitOK == DOMAIN pit \subseteq Key /\ IsFiniteSet(DOMAIN pit) /\ \A k \in DOMAIN pit : EntryOK(pit[k])
RestOK ==
  /\ faces \subseteq Face
  /\ dnl \subseteq {NameOf[k] : k \in Key} \X Nonce
  /\ cs \subseteq Data /\ now \in 0..MaxTime /\ received \in 0..MaxPackets

\* The part of the type invariant about entries, and the rest.
LEMMA TypeParts == PitTypeOK <=> PitOK /\ RestOK
BY DEF PitTypeOK, TypeOK, TimerArmed, PitOK, RestOK, EntryOK

\* One entry is put into the table.
LEMMA PutKeepsPitOK ==
  ASSUME PitTypeOK, NEW k \in Key, DOMAIN pit' = DOMAIN pit \cup {k},
         \A j \in DOMAIN pit : j # k => pit'[j] = pit[j],
         EntryOK(pit[k])', UNCHANGED <<faces, now>>
  PROVE  PitOK'
<1>1. PitOK
  BY TypeParts
<1>2. DOMAIN pit' \subseteq Key
  BY <1>1 DEF PitOK
<1>3. IsFiniteSet(DOMAIN pit')
  BY <1>1, FS_AddElement DEF PitOK
<1>4. \A j \in DOMAIN pit' : EntryOK(pit[j])'
  BY <1>1 DEF PitOK, EntryOK
<1> QED BY <1>2, <1>3, <1>4 DEF PitOK

\* insertDeadNonceList adds pairs of a name and a nonce.
LEMMA DeadNoncesType ==
  ASSUME NEW k \in Key, NEW e, NEW U,
         \A u \in DOMAIN e.outr : e.outr[u].nonce \in Nonce
  PROVE  DeadNonces(k, e, U) \subseteq {NameOf[j] : j \in Key} \X Nonce
BY DEF DeadNonces

\* The bound on incoming packets.
LEMMA ReceiveType ==
  ASSUME RestOK, NEW f, Receive(f)
  PROVE  received' \in 0..MaxPackets
BY BoundsAssumption DEF RestOK, Receive

\* Every step keeps the types and leaves every entry with an armed timer.
LEMMA PipelineTypeStep ==
  ASSUME PitTypeOK, [Next]_vars
  PROVE  PitTypeOK'
<1>0. PitOK /\ RestOK
  BY TypeParts
<1> SUFFICES PitOK' /\ RestOK'
  BY TypeParts DEF PitTypeOK, TypeOK, TimerArmed, PitOK, RestOK, EntryOK
<1>1. ASSUME NEW f \in Face, NEW k \in Key, NEW n \in Nonce, NEW d \in Data, ContentStoreHit(f, k, n, d)
      PROVE  PitOK' /\ RestOK'
  <2>0. AfterHit(k)
    BY <1>1, HitFields
  <2>2. Receive(f) /\ UNCHANGED <<faces, now, dnl, cs>>
    BY <1>1 DEF ContentStoreHit, InterestAccepted
  <2>3. RestOK'
    BY <1>0, <2>2, ReceiveType DEF RestOK
  <2>4. EntryOK(pit[k])'
    <3>1. now \in 0..MaxTime /\ MaxTime \in Nat
      BY <1>0, BoundsAssumption DEF RestOK
    <3> DEFINE e == pit'[k]
               o == EntryOf(k)
    <3>2. IsEntry(e) /\ e.inr = o.inr /\ e.outr = o.outr /\ e.timer = now /\ DOMAIN o.inr = {}
      BY <2>0 DEF AfterHit
    <3>3. DOMAIN o.outr \subseteq faces
      BY EntryOfType
    <3> QED BY <2>2, <3>1, <3>2, <3>3 DEF EntryOK
  <2>5. DOMAIN pit' = DOMAIN pit \cup {k} /\ \A j \in DOMAIN pit : j # k => pit'[j] = pit[j]
    BY <2>0 DEF AfterHit
  <2> QED BY <2>2, <2>3, <2>4, <2>5, PutKeepsPitOK
<1>2. ASSUME NEW f \in Face, NEW k \in Key, NEW n \in Nonce, NEW life \in Lifetime,
             NEW U \in SUBSET Face, Forward(f, k, n, life, U)
      PROVE  PitOK' /\ RestOK'
  <2>0. AfterForward(f, k, n, life, U)
    BY <1>2, ForwardFields
  <2>2. Receive(f) /\ UNCHANGED <<faces, now, dnl, cs>> /\ now + life <= MaxTime
    BY <1>2 DEF Forward, InterestAccepted
  <2>3. RestOK'
    BY <1>0, <2>2, ReceiveType DEF RestOK
  <2>4. EntryOK(pit[k])'
    <3> DEFINE e == pit'[k]
               o == EntryOf(k)
    <3>1. /\ IsEntry(e) /\ f \in faces /\ U \subseteq faces
          /\ DOMAIN e.inr = DOMAIN o.inr \cup {f}
          /\ DOMAIN e.outr = DOMAIN o.outr \cup U
          /\ e.timer \in now..MaxTime
          /\ \A g \in DOMAIN e.inr : e.inr[g].expiry <= e.timer
      BY <2>0 DEF AfterForward
    <3>2. DOMAIN o.inr \cup DOMAIN o.outr \subseteq faces
      BY EntryOfType
    <3>3. \A g \in DOMAIN e.inr : e.inr[g].expiry \in Nat
      BY <3>1 DEF IsEntry, InRecord
    <3>4. now \in Nat /\ MaxTime \in Nat
      BY <1>0, BoundsAssumption DEF RestOK
    <3> HIDE DEF o
    <3>5. \A g \in DOMAIN e.inr : e.inr[g].expiry <= MaxTime
      BY <3>1, <3>3, <3>4
    <3> QED BY <2>2, <3>1, <3>2, <3>5 DEF EntryOK
  <2>5. DOMAIN pit' = DOMAIN pit \cup {k} /\ \A j \in DOMAIN pit : j # k => pit'[j] = pit[j]
    BY <2>0 DEF AfterForward
  <2> QED BY <2>2, <2>3, <2>4, <2>5, PutKeepsPitOK
<1>3. ASSUME NEW f \in Face, NEW k \in Key, NEW n \in Nonce, NEW life \in Lifetime,
             NEW D \in SUBSET Face, Reject(f, k, n, life, D)
      PROVE  PitOK' /\ RestOK'
  <2>0. AfterReject(f, k, n, life, D)
    BY <1>3, RejectFields
  <2>2. Receive(f) /\ UNCHANGED <<faces, now, dnl, cs>>
    BY <1>3 DEF Reject, InterestAccepted
  <2>3. RestOK'
    BY <1>0, <2>2, ReceiveType DEF RestOK
  <2>4. EntryOK(pit[k])'
    <3>1. now \in 0..MaxTime /\ MaxTime \in Nat
      BY <1>0, BoundsAssumption DEF RestOK
    <3> DEFINE e == pit'[k]
               o == EntryOf(k)
    <3>2. /\ IsEntry(e) /\ e.outr = o.outr /\ e.timer = now /\ f \in faces
          /\ DOMAIN e.inr \subseteq DOMAIN o.inr \cup {f}
          /\ \A g \in DOMAIN e.inr : e.inr[g].expiry <= MaxTime
      BY <2>0 DEF AfterReject
    <3>3. DOMAIN o.inr \cup DOMAIN o.outr \subseteq faces
      BY EntryOfType
    <3> QED BY <2>2, <3>1, <3>2, <3>3 DEF EntryOK
  <2>5. DOMAIN pit' = DOMAIN pit \cup {k} /\ \A j \in DOMAIN pit : j # k => pit'[j] = pit[j]
    BY <2>0 DEF AfterReject
  <2> QED BY <2>2, <2>3, <2>4, <2>5, PutKeepsPitOK
<1>4. ASSUME NEW f \in Face, NEW k \in Key, NEW n \in Nonce, NEW D \in SUBSET Face,
             IncomingNack(f, k, n, D)
      PROVE  PitOK' /\ RestOK'
  <2>0. AfterNack(k)
    BY <1>4, NackFields
  <2>2. Receive(f) /\ UNCHANGED <<faces, now, dnl, cs>>
    BY <1>4 DEF IncomingNack
  <2>3. RestOK'
    BY <1>0, <2>2, ReceiveType DEF RestOK
  <2>4. EntryOK(pit[k])'
    <3> DEFINE e == pit'[k]
               o == pit[k]
    <3>1. /\ k \in DOMAIN pit /\ IsEntry(e)
          /\ DOMAIN e.inr \subseteq DOMAIN o.inr /\ DOMAIN e.outr = DOMAIN o.outr
          /\ \A g \in DOMAIN e.inr : e.inr[g] = o.inr[g]
          /\ e.timer = o.timer \/ e.timer = now
      BY <2>0 DEF AfterNack
    <3>2. EntryOK(o)
      BY <1>0, <3>1 DEF PitOK
    <3>3. now \in 0..MaxTime /\ MaxTime \in Nat
      BY <1>0, BoundsAssumption DEF RestOK
    <3> QED BY <2>2, <3>1, <3>2, <3>3 DEF EntryOK
  <2>5. DOMAIN pit' = DOMAIN pit \cup {k} /\ \A j \in DOMAIN pit : j # k => pit'[j] = pit[j]
    BY Zenon, <2>0 DEF AfterNack
  <2> QED BY <2>2, <2>3, <2>4, <2>5, PutKeepsPitOK
<1>5. ASSUME NEW f \in Face, NEW d \in Data, IncomingData(f, d)
      PROVE  PitOK' /\ RestOK'
  <2>2. Receive(f) /\ UNCHANGED <<faces, now>> /\ cs' = cs \cup {d}
    BY <1>5 DEF IncomingData
  <2> DEFINE sat == [k \in MatchedBy(d) |-> Satisfied(pit[k], f, d, Cardinality(MatchedBy(d)) > 1)]
  <2>3. dnl' = dnl \cup UNION {DeadNonces(k, sat[k], {f}) : k \in MatchedBy(d)}
    BY <1>5 DEF IncomingData
  <2>4. \A k \in MatchedBy(d) : DeadNonces(k, sat[k], {f}) \subseteq {NameOf[j] : j \in Key} \X Nonce
    <3> SUFFICES ASSUME NEW k \in MatchedBy(d)
                 PROVE  DeadNonces(k, sat[k], {f}) \subseteq {NameOf[j] : j \in Key} \X Nonce
      BY Zenon
    <3>1. k \in Key /\ IsEntry(pit[k])
      BY <1>0 DEF PitOK, EntryOK, MatchedBy
    <3>2. sat[k].outr = pit[k].outr
      BY Zenon, <3>1 DEF Satisfied, IsEntry
    <3>3. \A u \in DOMAIN sat[k].outr : sat[k].outr[u].nonce \in Nonce
      BY <3>1, <3>2 DEF IsEntry, OutRecord
    <3> HIDE DEF sat
    <3> QED BY <3>1, <3>3, DeadNoncesType
  <2> HIDE DEF sat
  <2>5. dnl' \subseteq {NameOf[k] : k \in Key} \X Nonce
    <3> DEFINE T == {NameOf[k] : k \in Key} \X Nonce
    <3>1. dnl \subseteq T
      BY <1>0 DEF RestOK
    <3>2. \A k \in MatchedBy(d) : DeadNonces(k, sat[k], {f}) \subseteq T
      BY Zenon, <2>4
    <3> HIDE DEF T
    <3>3. dnl' \subseteq T
      BY Zenon, <2>3, <3>1, <3>2
    <3> QED BY <3>3 DEF T
  <2>6. RestOK'
    BY <1>0, <2>2, <2>5, ReceiveType DEF RestOK
  <2>7. DOMAIN pit' = DOMAIN pit
    BY <1>5, DataFields
  <2>8. ASSUME NEW j \in DOMAIN pit
        PROVE  EntryOK(pit[j])'
    <3>1. EntryOK(pit[j]) /\ now \in 0..MaxTime /\ MaxTime \in Nat
      BY <1>0, BoundsAssumption DEF PitOK, RestOK
    <3>2. CASE j \notin MatchedBy(d)
      BY <1>5, <2>2, <3>1, <3>2, DataFields DEF EntryOK
    <3>3. CASE j \in MatchedBy(d)
      <4>1. /\ IsEntry(pit'[j]) /\ pit'[j].timer = now
            /\ DOMAIN pit'[j].inr \subseteq DOMAIN pit[j].inr
            /\ DOMAIN pit'[j].outr \subseteq DOMAIN pit[j].outr
            /\ \A g \in DOMAIN pit'[j].inr : pit'[j].inr[g] = pit[j].inr[g]
        BY <1>5, <3>3, DataFields
      <4> QED BY <2>2, <3>1, <4>1 DEF EntryOK
    <3> QED BY <3>2, <3>3
  <2> QED BY <1>0, <2>6, <2>7, <2>8 DEF PitOK
<1>6. ASSUME NEW k \in Key, InterestFinalize(k)
      PROVE  PitOK' /\ RestOK'
  <2>2. UNCHANGED <<faces, cs, now, received>> /\ dnl' = dnl \cup DeadNonces(k, pit[k], Face)
    BY <1>6 DEF InterestFinalize
  <2>3. /\ k \in DOMAIN pit /\ DOMAIN pit' = DOMAIN pit \ {k}
        /\ \A j \in DOMAIN pit' : pit'[j] = pit[j]
    BY Zenon, <1>6, FinalizeFields
  <2>4. \A u \in DOMAIN pit[k].outr : pit[k].outr[u].nonce \in Nonce
    BY <1>0, <2>3 DEF PitOK, EntryOK, IsEntry, OutRecord
  <2>5. DeadNonces(k, pit[k], Face) \subseteq {NameOf[j] : j \in Key} \X Nonce
    BY <2>4, DeadNoncesType
  <2>6. RestOK'
    BY <1>0, <2>2, <2>5 DEF RestOK
  <2>7. IsFiniteSet(DOMAIN pit')
    BY <1>0, <2>3, FS_RemoveElement DEF PitOK
  <2>8. \A j \in DOMAIN pit' : EntryOK(pit[j])'
    BY <1>0, <2>2, <2>3 DEF PitOK, EntryOK
  <2> QED BY <1>0, <2>3, <2>6, <2>7, <2>8 DEF PitOK
<1>7. ASSUME NEW f \in Face, RemoveFace(f)
      PROVE  PitOK' /\ RestOK'
  <2>2. UNCHANGED <<dnl, cs, now, received>> /\ faces' = faces \ {f}
    BY <1>7 DEF RemoveFace
  <2>3. RestOK'
    BY <1>0, <2>2 DEF RestOK
  <2>4. DOMAIN pit' = DOMAIN pit
    BY <1>7, RemoveFaceFields
  <2>5. ASSUME NEW j \in DOMAIN pit
        PROVE  EntryOK(pit[j])'
    <3>1. EntryOK(pit[j])
      BY <1>0 DEF PitOK
    <3>2. /\ IsEntry(pit'[j]) /\ pit'[j].timer = pit[j].timer
          /\ DOMAIN pit'[j].inr = DOMAIN pit[j].inr \ {f}
          /\ DOMAIN pit'[j].outr = DOMAIN pit[j].outr \ {f}
          /\ \A g \in DOMAIN pit'[j].inr : pit'[j].inr[g] = pit[j].inr[g]
      BY <1>7, RemoveFaceFields
    <3> QED BY <2>2, <3>1, <3>2 DEF EntryOK
  <2> QED BY <1>0, <2>3, <2>4, <2>5 DEF PitOK
<1>8. CASE Tick
  <2>1. /\ UNCHANGED <<faces, pit, dnl, cs, received>> /\ now' = now + 1 /\ now < MaxTime
        /\ \A k \in DOMAIN pit : pit[k].timer # now
    BY <1>8 DEF Tick
  <2>2. RestOK'
    BY <1>0, <2>1, BoundsAssumption DEF RestOK
  <2>3. \A k \in DOMAIN pit : EntryOK(pit[k])'
    <3>1. now \in Nat /\ MaxTime \in Nat
      BY <1>0, BoundsAssumption DEF RestOK
    <3>2. \A k \in DOMAIN pit : pit[k].timer \in now + 1..MaxTime
      BY <1>0, <2>1, <3>1 DEF PitOK, EntryOK
    <3> QED BY <1>0, <2>1, <3>2 DEF PitOK, EntryOK
  <2> QED BY <1>0, <2>1, <2>2, <2>3 DEF PitOK
<1>9. ASSUME NEW f \in Face, NEW k \in Key, NEW n \in Nonce, InterestDropped(f, k, n)
      PROVE  PitOK' /\ RestOK'
  <2>1. Receive(f) /\ UNCHANGED <<faces, pit, dnl, cs, now>>
    BY <1>9 DEF InterestDropped
  <2> QED BY <1>0, <2>1, ReceiveType DEF RestOK, PitOK, EntryOK
<1>10. ASSUME NEW f \in Face, NEW d \in Data, DataUnsolicited(f, d)
       PROVE  PitOK' /\ RestOK'
  <2>1. Receive(f) /\ cs' \subseteq cs \cup {d} /\ UNCHANGED <<faces, pit, dnl, now>>
    BY <1>10 DEF DataUnsolicited
  <2> QED BY <1>0, <2>1, ReceiveType DEF RestOK, PitOK, EntryOK
<1>11. CASE UNCHANGED vars
  BY <1>0, <1>11 DEF vars, RestOK, PitOK, EntryOK
<1> QED BY <1>1, <1>2, <1>3, <1>4, <1>5, <1>6, <1>7, <1>8, <1>9, <1>10, <1>11 DEF Next

\* The daemon starts with an empty PIT and an empty Dead Nonce List.
LEMMA PipelineInitial ==
  ASSUME Init
  PROVE  DOMAIN pit = {} /\ PitTypeOK
<1>1. DOMAIN pit = {}
  BY DEF Init, EmptyRecords
<1>2. IsFiniteSet(DOMAIN pit)
  BY <1>1, FS_EmptySet
<1> QED BY <1>1, <1>2, BoundsAssumption DEF Init, PitTypeOK, TypeOK, TimerArmed

-----------------------------------------------------------------------------
(* Cardinality.                                                             *)

\* Sizes of sets that gain or lose an element.
LEMMA CardinalityBounds ==
  ASSUME NEW T, IsFiniteSet(T), NEW S, NEW x
  PROVE  /\ Cardinality(T) \in Nat
         /\ S \subseteq T => Cardinality(S) \in Nat /\ Cardinality(S) <= Cardinality(T)
         /\ S \subseteq T \cup {x} => Cardinality(S) \in Nat /\ Cardinality(S) <= Cardinality(T) + 1
         /\ x \in T /\ S \subseteq T \ {x} =>
              Cardinality(S) \in Nat /\ Cardinality(S) <= Cardinality(T) - 1
<1>1. Cardinality(T) \in Nat
  BY FS_CardinalityType
<1>2. ASSUME S \subseteq T
      PROVE  Cardinality(S) \in Nat /\ Cardinality(S) <= Cardinality(T)
  <2>1. IsFiniteSet(S) /\ Cardinality(S) <= Cardinality(T)
    BY <1>2, FS_Subset
  <2> QED BY <2>1, FS_CardinalityType
<1>3. ASSUME S \subseteq T \cup {x}
      PROVE  Cardinality(S) \in Nat /\ Cardinality(S) <= Cardinality(T) + 1
  <2>1. IsFiniteSet(T \cup {x}) /\ Cardinality(T \cup {x}) <= Cardinality(T) + 1
    BY <1>1, FS_AddElement
  <2>2. IsFiniteSet(S) /\ Cardinality(S) <= Cardinality(T \cup {x})
    BY <1>3, <2>1, FS_Subset
  <2>3. Cardinality(S) \in Nat /\ Cardinality(T \cup {x}) \in Nat
    BY <2>1, <2>2, FS_CardinalityType
  <2> QED BY <1>1, <2>1, <2>2, <2>3
<1>4. ASSUME x \in T, S \subseteq T \ {x}
      PROVE  Cardinality(S) \in Nat /\ Cardinality(S) <= Cardinality(T) - 1
  <2>1. IsFiniteSet(T \ {x}) /\ Cardinality(T \ {x}) = Cardinality(T) - 1
    BY <1>4, FS_RemoveElement
  <2>2. IsFiniteSet(S) /\ Cardinality(S) <= Cardinality(T \ {x})
    BY <1>4, <2>1, FS_Subset
  <2>3. Cardinality(S) \in Nat
    BY <2>2, FS_CardinalityType
  <2> QED BY <2>1, <2>2, <2>3
<1> QED BY <1>1, <1>2, <1>3, <1>4
=============================================================================
