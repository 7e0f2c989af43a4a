--------------------------- MODULE ForwarderProps ---------------------------
(***************************************************************************)
(* What the forwarding pipelines guarantee.  The properties about the past *)
(* use history variables, which the actions of Forwarder do not read.      *)
(***************************************************************************)
EXTENDS Forwarder

VARIABLES forwarded, \* (key, nonce, downstream) of the Interests sent upstream
          forgotten, \* (name, nonce) pairs the code drops deliberately
          credit,    \* accepted Interests of a face less the answers it got
          rejected,  \* keys whose entry was rejected by the strategy
          nacks      \* (upstream, key, nonce) of the accepted Nacks

hist == <<forwarded, forgotten, credit, rejected, nacks>>
histVars == <<vars, hist>>

HistInit ==
  /\ Init
  /\ forwarded = {} /\ forgotten = {} /\ rejected = {} /\ nacks = {}
  /\ credit = [f \in Face |-> 0]

Paid(D) == [f \in Face |-> IF f \in D THEN credit[f] - 1 ELSE credit[f]]
Earned(f) == [credit EXCEPT ![f] = @ + 1]
OutNonces(k, U) == {<<NameOf[k], pit[k].outr[u].nonce>> : u \in U \cap DOMAIN pit[k].outr}

HistHit(f, k, n, d) ==
  /\ ContentStoreHit(f, k, n, d)
  /\ UNCHANGED <<forwarded, forgotten, credit, rejected, nacks>>

\* A retransmission overwrites the nonces of the out-records it reuses.
HistForward(f, k, n, life, U) ==
  /\ Forward(f, k, n, life, U)
  /\ forwarded' = IF U = {} THEN forwarded ELSE forwarded \cup {<<k, n, f>>}
  /\ forgotten' = IF k \in DOMAIN pit THEN forgotten \cup OutNonces(k, U) ELSE forgotten
  /\ credit' = Earned(f)
  /\ rejected' = rejected \ {k}
  /\ UNCHANGED nacks

HistReject(f, k, n, life, D) ==
  /\ Reject(f, k, n, life, D)
  /\ credit' = IF D \cap PointToPoint = {} THEN Earned(f) ELSE credit
  /\ rejected' = rejected \cup {k}
  /\ UNCHANGED <<forwarded, forgotten, nacks>>

\* Data satisfies the upstream f; unless the Interest asked for fresh Data and
\* got a short-lived one, its nonce need not be kept.
HistData(f, d) ==
  /\ IncomingData(f, d)
  /\ forgotten' = forgotten \cup
       UNION {OutNonces(k, {f}) : k \in {j \in MatchedBy(d) : j \notin MustBeFresh \/ d \notin StaleData}}
  /\ credit' = Paid(DataTo(f, d))
  /\ UNCHANGED <<forwarded, rejected, nacks>>

HistNack(f, k, n, D) ==
  /\ IncomingNack(f, k, n, D)
  /\ credit' = Paid(DOMAIN pit[k].inr \ DOMAIN pit'[k].inr)
  /\ nacks' = nacks \cup {<<f, k, n>>}
  /\ UNCHANGED <<forwarded, forgotten, rejected>>

HistFinalize(k) ==
  /\ InterestFinalize(k)
  /\ forgotten' = IF pit[k].satisfied /\ (k \notin MustBeFresh \/ ~pit[k].stale)
                    THEN forgotten \cup OutNonces(k, Face) ELSE forgotten
  /\ rejected' = rejected \ {k}
  /\ UNCHANGED <<forwarded, credit, nacks>>

HistRemoveFace(f) ==
  /\ RemoveFace(f)
  /\ forgotten' = forgotten \cup UNION {OutNonces(k, {f}) : k \in DOMAIN pit}
  /\ UNCHANGED <<forwarded, credit, rejected, nacks>>

HistOther ==
  /\ \/ Tick
     \/ \E f \in Face, k \in Key, n \in Nonce : InterestDropped(f, k, n)
     \/ \E f \in Face, d \in Data : DataUnsolicited(f, d)
  /\ UNCHANGED hist

\* A step in which the Interests are for keys of K and the Data are of D.
HistStep(K, D) ==
  \/ \E f \in Face, k \in K, n \in Nonce :
       \/ \E d \in D : HistHit(f, k, n, d)
       \/ \E life \in Lifetime, U \in SUBSET Face : HistForward(f, k, n, life, U)
       \/ \E life \in Lifetime, B \in SUBSET Face : HistReject(f, k, n, life, B)
       \/ \E B \in SUBSET Face : HistNack(f, k, n, B)
  \/ \E f \in Face, d \in D : HistData(f, d)
  \/ \E k \in K : HistFinalize(k)
  \/ \E f \in Face : HistRemoveFace(f)
  \/ HistOther

HistNext == HistStep(Key, Data)
HistSpec == HistInit /\ [][HistNext]_histVars

(* No forwarding loop through this node: an Interest that was sent upstream *)
(* is not sent upstream again when it comes back with its nonce on another  *)
(* face, unless the code deliberately dropped the nonce (the out-record was *)
(* reused or its face removed, or Data answered the entry).                 *)
NoForwardingLoop ==
  \A a, b \in forwarded :
    a[1] = b[1] /\ a[2] = b[2] /\ a[3] # b[3] => <<NameOf[a[1]], a[2]>> \in forgotten

(* Flow balance: a downstream never gets more Data and Nacks than the       *)
(* Interests accepted from it, whichever upstreams answer and how often.    *)
FlowBalance == \A f \in Face : credit[f] >= 0

(* expiryTimer does not cut off a waiting downstream: unless the entry was  *)
(* satisfied or rejected, or every upstream has answered with a Nack, the   *)
(* timer covers the whole lifetime of each in-record.                       *)
TimerCoversDownstreams ==
  \A k \in DOMAIN pit \ rejected :
    ~pit[k].satisfied /\ hasPendingOutRecords(pit[k], now) =>
      \A f \in DOMAIN pit[k].inr : pit[k].inr[f].expiry <= pit[k].timer

(* "A non-null return value means the last outgoing Interest has been       *)
(* NACKed." (pit-out-record.hpp:45): an out-record with a Nack had one for  *)
(* the nonce it holds.                                                      *)
NackIsForLastInterest ==
  \A k \in DOMAIN pit : \A u \in DOMAIN pit[k].outr :
    pit[k].outr[u].nacked => <<u, k, pit[k].outr[u].nonce>> \in nacks
=============================================================================
