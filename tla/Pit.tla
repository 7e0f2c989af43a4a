-------------------------------- MODULE Pit --------------------------------
(***************************************************************************)
(* The entries of the Pending Interest Table (daemon/table/pit*.cpp) and   *)
(* what the forwarding code asks of them (daemon/fw/algorithm.cpp,         *)
(* process-nack-traits.cpp).  An entry is a record:                        *)
(*   inr        in-records, a function from the downstream faces;          *)
(*   outr       out-records, a function from the upstream faces;           *)
(*   timer      when expiryTimer fires, NoTimer if it was never set;       *)
(*   satisfied  isSatisfied;                                               *)
(*   stale      dataFreshnessPeriod is below the Dead Nonce List lifetime. *)
(* A face record holds the last nonce and the expiry; an out-record also   *)
(* says whether a Nack was recorded on it.                                 *)
(***************************************************************************)
EXTENDS Integers, FiniteSetsExt, Functions

CONSTANTS Face,         \* the faces, by FaceId
          PointToPoint, \* faces with LINK_TYPE_POINT_TO_POINT
          AdHoc,        \* faces with LINK_TYPE_AD_HOC; the rest is multi-access
          Nonce

ASSUME LinkTypeAssumption ==
  PointToPoint \subseteq Face /\ AdHoc \subseteq Face /\ PointToPoint \cap AdHoc = {}

NoTimer == -1

InRecord == [nonce : Nonce, expiry : Nat]
OutRecord == [nonce : Nonce, expiry : Nat, nacked : BOOLEAN]
IsEntry(e) ==
  /\ DOMAIN e = {"inr", "outr", "timer", "satisfied", "stale"}
  /\ DOMAIN e.inr \subseteq Face /\ \A f \in DOMAIN e.inr : e.inr[f] \in InRecord
  /\ DOMAIN e.outr \subseteq Face /\ \A f \in DOMAIN e.outr : e.outr[f] \in OutRecord
  /\ e.timer \in Nat \cup {NoTimer} /\ e.satisfied \in BOOLEAN /\ e.stale \in BOOLEAN

EmptyRecords == [f \in {} |-> 0]
NewEntry == [inr |-> EmptyRecords, outr |-> EmptyRecords,
             timer |-> NoTimer, satisfied |-> FALSE, stale |-> TRUE]

\* The record r of face f replaces the one it had in rs, or joins rs.
Put(rs, f, r) == [g \in DOMAIN rs \cup {f} |-> IF g = f THEN r ELSE rs[g]]
Remove(rs, f) == Restrict(rs, DOMAIN rs \ {f})

insertOrUpdateInRecord(e, f, n, expiry) ==
  [e EXCEPT !.inr = Put(@, f, [nonce |-> n, expiry |-> expiry])]
deleteInRecord(e, f) == [e EXCEPT !.inr = Remove(@, f)]

\* onOutgoingInterest for each face in U.  FaceRecord::update leaves the Nack
\* recorded on an existing out-record in place.
SendInterest(e, U, n, expiry) ==
  [e EXCEPT !.outr = [f \in DOMAIN @ \cup U |->
     IF f \in U THEN [nonce |-> n, expiry |-> expiry,
                      nacked |-> f \in DOMAIN @ /\ @[f].nacked]
                ELSE @[f]]]
deleteOutRecord(e, f) == [e EXCEPT !.outr = Remove(@, f)]
setIncomingNack(e, f) == [e EXCEPT !.outr[f].nacked = TRUE]

hasInRecords(e) == DOMAIN e.inr # {}
hasPendingOutRecords(e, now) ==
  \E f \in DOMAIN e.outr : e.outr[f].expiry >= now /\ ~e.outr[f].nacked

\* The downstreams that still wait for Data, other than the face it came from.
PendingDownstreams(e, inFace, now) ==
  {f \in DOMAIN e.inr : e.inr[f].expiry > now /\ (f # inFace \/ f \in AdHoc)}

LastExpiry(e) == Max({e.inr[f].expiry : f \in DOMAIN e.inr})

\* findDuplicateNonce as onIncomingInterest uses it: on a point-to-point face
\* a nonce that repeats in the same in-record is a retransmission, no loop.
HasDuplicateNonce(e, n, inFace) ==
  LET inSame == inFace \in DOMAIN e.inr /\ e.inr[inFace].nonce = n
      other  == \/ \E f \in DOMAIN e.inr : e.inr[f].nonce = n
                \/ \E f \in DOMAIN e.outr : e.outr[f].nonce = n
  IN  other /\ ~(inSame /\ inFace \in PointToPoint)

\* processNack: the downstreams that are sent a Nack once one was recorded.
NackedDownstreams(e) ==
  LET waiting == {f \in DOMAIN e.outr : ~e.outr[f].nacked}
  IN  IF waiting = {} THEN DOMAIN e.inr
      ELSE IF Cardinality(waiting) = 1 THEN waiting \cap DOMAIN e.inr
      ELSE {}

\* onOutgoingNack for each face in D: only a point-to-point downstream is
\* sent the Nack and loses its in-record.
NackTo(e, D) == [e EXCEPT !.inr = Restrict(@, DOMAIN @ \ (D \cap PointToPoint))]
=============================================================================
