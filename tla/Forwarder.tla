----------------------------- MODULE Forwarder -----------------------------
(***************************************************************************)
(* The forwarding pipelines (daemon/fw/forwarder.cpp) over the PIT, the    *)
(* Dead Nonce List and the Content Store, with a strategy that forwards,   *)
(* rejects and answers at once: the default bodies of strategy.cpp and any *)
(* choice of upstreams.  Every action is one packet, one timer or one face *)
(* event; the daemon is single-threaded, so each runs whole.               *)
(*                                                                         *)
(* cs is the set of Data ever cached: a lookup may hit any matching member *)
(* and may always miss (eviction, staleness).  dnl is never evicted: the   *)
(* horizon of a run is shorter than the list's lifetime.                   *)
(***************************************************************************)
EXTENDS Pit

CONSTANTS Local,       \* faces with local scope
          Key,         \* Interest names with their selectors: PIT keys
          NameOf,      \* the Interest name of a key
          MustBeFresh, \* keys with MustBeFresh
          Data,
          Matches,     \* the keys a Data satisfies
          StaleData,   \* Data with FreshnessPeriod below the DNL lifetime
          Localhost,   \* keys and Data under /localhost
          Localhop,    \* keys under /localhop
          Lifetime,    \* the InterestLifetimes used
          MaxPackets,  \* bound on incoming packets (model checking)
          MaxTime      \* bound on the clock (model checking)

ASSUME ScopeAssumption == Local \subseteq Face /\ MustBeFresh \subseteq Key
ASSUME MatchAssumption == Matches \in [Data -> SUBSET Key]
ASSUME LifetimeAssumption == Lifetime \subseteq Nat
ASSUME BoundsAssumption == MaxPackets \in Nat /\ MaxTime \in Nat

VARIABLES faces,    \* the face table
          pit,      \* a function from the keys that have an entry
          dnl,      \* the (name, nonce) pairs of the Dead Nonce List
          cs, now,
          received  \* incoming packets so far

vars == <<faces, pit, dnl, cs, now, received>>

\* The types of the variables; records refer only to faces that still exist.
TypeOK ==
  /\ faces \subseteq Face
  /\ DOMAIN pit \subseteq Key /\ \A k \in DOMAIN pit : IsEntry(pit[k])
  /\ \A k \in DOMAIN pit : DOMAIN pit[k].inr \cup DOMAIN pit[k].outr \subseteq faces
  /\ dnl \subseteq {NameOf[k] : k \in Key} \X Nonce
  /\ cs \subseteq Data /\ now \in 0..MaxTime /\ received \in 0..MaxPackets

Init ==
  /\ faces \in SUBSET Face
  /\ pit = EmptyRecords
  /\ dnl = {} /\ cs = {} /\ now = 0 /\ received = 0

ViolatesLocalhost(f, x) == f \notin Local /\ x \in Localhost

\* wouldViolateScope
WouldViolateScope(f, k, u) ==
  u \notin Local /\ (k \in Localhost \/ (k \in Localhop /\ f \notin Local))

\* The upstreams a strategy may choose for an Interest from f.
Forwardable(f, k) ==
  {u \in faces : (u # f \/ u \in AdHoc) /\ ~WouldViolateScope(f, k, u)}

\* m_pit.insert
EntryOf(k) == IF k \in DOMAIN pit THEN pit[k] ELSE NewEntry

\* Mutant: a satisfied entry never needs the list.
NeedDnlUnsatisfied(k, e) == ~e.satisfied

\* Whether insertDeadNonceList adds the nonces of e.
NeedDnl(k, e) == e.satisfied => k \in MustBeFresh /\ e.stale

\* The pairs insertDeadNonceList adds for the upstreams U of entry e of k.
DeadNonces(k, e, U) ==
  IF NeedDnl(k, e) THEN {<<NameOf[k], e.outr[u].nonce>> : u \in U \cap DOMAIN e.outr} ELSE {}

\* An incoming packet is counted; the pipelines it enters do the rest.
Receive(f) == f \in faces /\ received < MaxPackets /\ received' = received + 1

IsLoop(f, k, n) == <<NameOf[k], n>> \in dnl \/ HasDuplicateNonce(EntryOf(k), n, f)

\* onIncomingInterest up to the Content Store lookup.
InterestAccepted(f, k, n) ==
  /\ Receive(f)
  /\ ~ViolatesLocalhost(f, k) /\ ~IsLoop(f, k, n)
  /\ UNCHANGED <<faces, now>>

\* The scope check and onInterestLoop: the Interest is dropped, or sent back
\* as a Nack that needs no in-record.
InterestDropped(f, k, n) ==
  /\ Receive(f)
  /\ ViolatesLocalhost(f, k) \/ IsLoop(f, k, n)
  /\ UNCHANGED <<faces, pit, dnl, cs, now>>

\* onContentStoreHit and afterContentStoreHit.
ContentStoreHit(f, k, n, d) ==
  /\ InterestAccepted(f, k, n)
  /\ ~hasInRecords(EntryOf(k)) /\ d \in cs /\ k \in Matches[d]
  /\ pit' = Put(pit, k, [EntryOf(k) EXCEPT !.satisfied = TRUE, !.timer = now,
                                           !.stale = d \in StaleData])
  /\ UNCHANGED <<dnl, cs>>

\* Mutant: the timer follows the newest in-record, not the last to expire.
EntryAfterMissNewest(f, k, n, life) ==
  [insertOrUpdateInRecord(EntryOf(k), f, n, now + life) EXCEPT !.timer = now + life]

\* onContentStoreMiss up to the dispatch.
EntryAfterMiss(f, k, n, life) ==
  LET e == insertOrUpdateInRecord(EntryOf(k), f, n, now + life)
  IN  [e EXCEPT !.timer = LastExpiry(e)]

\* afterReceiveInterest forwards to the upstreams U, perhaps none; with a
\* NextHopFaceId the one upstream is the sender's choice.
Forward(f, k, n, life, U) ==
  /\ InterestAccepted(f, k, n) /\ now + life <= MaxTime
  /\ U \subseteq Forwardable(f, k) \/ (f \in Local /\ \E u \in faces : U = {u})
  /\ pit' = Put(pit, k, SendInterest(EntryAfterMiss(f, k, n, life), U, n, now + life))
  /\ UNCHANGED <<dnl, cs>>

\* afterReceiveInterest sends Nacks to the downstreams D and rejects.
Reject(f, k, n, life, D) ==
  /\ InterestAccepted(f, k, n) /\ now + life <= MaxTime
  /\ D \subseteq {f}
  /\ pit' = Put(pit, k, [NackTo(EntryAfterMiss(f, k, n, life), D) EXCEPT !.timer = now])
  /\ UNCHANGED <<dnl, cs>>

MatchedBy(d) == DOMAIN pit \cap Matches[d]

\* The scope check and onDataUnsolicited, under any unsolicited Data policy.
DataUnsolicited(f, d) ==
  /\ Receive(f)
  /\ \/ ViolatesLocalhost(f, d) /\ cs' = cs
     \/ ~ViolatesLocalhost(f, d) /\ MatchedBy(d) = {} /\ cs' \in {cs, cs \cup {d}}
  /\ UNCHANGED <<faces, pit, dnl, now>>

\* Mutant: the in-records of the answered downstreams stay.
AnsweredKept(e, f, many) == {}

\* The downstreams that lose their in-record to Data from f: sendDataToAll
\* answers the pending ones, the pipeline for several entries clears all.
Answered(e, f, many) == IF many THEN DOMAIN e.inr ELSE PendingDownstreams(e, f, now)

\* An entry that Data d from f satisfied, its upstream f still in place.
Satisfied(e, f, d, many) ==
  [e EXCEPT !.inr = Restrict(@, DOMAIN @ \ Answered(e, f, many)),
            !.timer = now, !.satisfied = TRUE, !.stale = d \in StaleData]

\* The faces that are sent Data d from f.
DataTo(f, d) ==
  {g \in UNION {PendingDownstreams(pit[k], f, now) : k \in MatchedBy(d)} :
     ~ViolatesLocalhost(g, d)}

\* onIncomingData with at least one matching entry.
IncomingData(f, d) ==
  LET K == MatchedBy(d)
      sat == [k \in K |-> Satisfied(pit[k], f, d, Cardinality(K) > 1)]
  IN  /\ Receive(f)
      /\ ~ViolatesLocalhost(f, d) /\ K # {}
      /\ pit' = [k \in DOMAIN pit |-> IF k \in K THEN deleteOutRecord(sat[k], f) ELSE pit[k]]
      /\ dnl' = dnl \cup UNION {DeadNonces(k, sat[k], {f}) : k \in K}
      /\ cs' = cs \cup {d}
      /\ UNCHANGED <<faces, now>>

NackAccepted(f, k, n) ==
  /\ f \in PointToPoint /\ k \in DOMAIN pit
  /\ f \in DOMAIN pit[k].outr /\ pit[k].outr[f].nonce = n

\* onIncomingNack up to the dispatch.
EntryAfterNack(e, f) ==
  LET nacked == setIncomingNack(e, f)
  IN  IF hasPendingOutRecords(nacked, now) THEN nacked ELSE [nacked EXCEPT !.timer = now]

\* onIncomingNack; afterReceiveNack does nothing (D is empty) or runs
\* processNack.  A Nack that is not accepted is dropped without effect.
IncomingNack(f, k, n, D) ==
  /\ Receive(f) /\ NackAccepted(f, k, n)
  /\ LET e == EntryAfterNack(pit[k], f)
     IN  D \in {{}, NackedDownstreams(e)} /\ pit' = Put(pit, k, NackTo(e, D))
  /\ UNCHANGED <<faces, dnl, cs, now>>

\* Mutant: an unsatisfied entry is only reported, its timer spent.
InterestFinalizeKeeps(k) ==
  /\ k \in DOMAIN pit /\ pit[k].timer = now
  /\ dnl' = dnl \cup DeadNonces(k, pit[k], Face)
  /\ pit' = IF pit[k].satisfied THEN Remove(pit, k) ELSE [pit EXCEPT ![k].timer = NoTimer]
  /\ UNCHANGED <<faces, cs, now, received>>

\* expiryTimer fires: onInterestFinalize.
InterestFinalize(k) ==
  /\ k \in DOMAIN pit /\ pit[k].timer = now
  /\ dnl' = dnl \cup DeadNonces(k, pit[k], Face)
  /\ pit' = Remove(pit, k)
  /\ UNCHANGED <<faces, cs, now, received>>

\* cleanupOnFaceRemoval
RemoveFace(f) ==
  /\ f \in faces
  /\ faces' = faces \ {f}
  /\ pit' = [k \in DOMAIN pit |-> deleteOutRecord(deleteInRecord(pit[k], f), f)]
  /\ UNCHANGED <<dnl, cs, now, received>>

\* The clock moves on when no timer is due.
Tick ==
  /\ now < MaxTime /\ \A k \in DOMAIN pit : pit[k].timer # now
  /\ now' = now + 1
  /\ UNCHANGED <<faces, pit, dnl, cs, received>>

Next ==
  \/ \E f \in Face, k \in Key, n \in Nonce :
       \/ InterestDropped(f, k, n)
       \/ \E d \in Data : ContentStoreHit(f, k, n, d)
       \/ \E life \in Lifetime, U \in SUBSET Face : Forward(f, k, n, life, U)
       \/ \E life \in Lifetime, D \in SUBSET Face : Reject(f, k, n, life, D)
       \/ \E D \in SUBSET Face : IncomingNack(f, k, n, D)
  \/ \E f \in Face, d \in Data : DataUnsolicited(f, d) \/ IncomingData(f, d)
  \/ \E k \in Key : InterestFinalize(k)
  \/ \E f \in Face : RemoveFace(f)
  \/ Tick

Spec == Init /\ [][Next]_vars

(* Once no more packets come, the pipelines leave no entry behind.          *)
PitDrains == \A k \in Key : k \in DOMAIN pit ~> k \notin DOMAIN pit
=============================================================================
