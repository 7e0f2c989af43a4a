---------------------------- MODULE StrategyBase ----------------------------
(***************************************************************************)
(* What the forwarding strategies share: the records of one PIT entry as a *)
(* strategy sees them, the tests of daemon/fw/algorithm.cpp, exponential   *)
(* retransmission suppression, and the sending helpers of Strategy and     *)
(* Forwarder.  An entry is a record; the operators map entries to entries. *)
(*                                                                         *)
(* An effect of a handler is a member of the sequence e.fx: an Interest,   *)
(* Nack or Data given to a face.  Faces are point-to-point.                *)
(***************************************************************************)
EXTENDS Naturals, Sequences, FiniteSets, FiniteSetsExt, Functions, TLC

CONSTANTS SgLocal,      \* the faces of local scope
          SgLifetime,   \* InterestLifetime
          RetxInitial,  \* initialInterval of the suppression
          RetxMax       \* maxInterval

ASSUME RetxAssumption == RetxInitial > 0 /\ RetxMax >= RetxInitial

NoRecords == << >>
NotNacked == "none"

\* Nack reasons, least severe first (isLessSevere).
Severity == [Congestion |-> 1, Duplicate |-> 2, NoRoute |-> 3, none |-> 4]

\* The interval is that of the PitInfo on the entry; timer 0 means
\* that the PIT has no such entry (clocks start at 1).
NewEntry == [in |-> NoRecords, out |-> NoRecords, interval |-> RetxInitial,
             timer |-> 0, isSatisfied |-> FALSE, fx |-> << >>]

Effect(e, x) == [e EXCEPT !.fx = Append(@, x)]

wouldViolateScope(scope, f, u) ==
  /\ u \notin SgLocal
  /\ scope = "localhost" \/ (scope = "localhop" /\ f \notin SgLocal)

hasPendingOutRecords(e, now) ==
  \E u \in DOMAIN e.out : e.out[u].expiry >= now /\ e.out[u].nack = NotNacked

getLastOutgoing(e) == Max({e.out[u].renewed : u \in DOMAIN e.out})

canForwardToLegacy(e, u, now) ==
  /\ ~ (u \in DOMAIN e.out /\ e.out[u].expiry >= now)
  /\ \E f \in DOMAIN e.in \ {u} : e.in[f].expiry >= now

-----------------------------------------------------------------------------
\* RetxSuppressionExponential, multiplier 2.
Doubled_Kept(i) == i

Doubled(i) == Min({RetxMax, 2 * i})

decidePerPitEntry(e, now) ==
  IF ~ hasPendingOutRecords(e, now) THEN "NEW"
  ELSE IF now - getLastOutgoing(e) < e.interval THEN "SUPPRESS" ELSE "FORWARD"

AfterDecision(e, decision) ==
  IF decision = "FORWARD" THEN [e EXCEPT !.interval = Doubled(@)] ELSE e

decidePerUpstream(e, u, now) ==
  IF u \notin DOMAIN e.out THEN "NEW"
  ELSE IF now - e.out[u].renewed < e.out[u].interval THEN "SUPPRESS" ELSE "FORWARD"

incrementIntervalForOutRecord(e, u) == [e EXCEPT !.out[u].interval = Doubled(@)]

-----------------------------------------------------------------------------
\* insertOrUpdateInRecord, then setExpiryTimer to the last in-record's expiry
\* (onContentStoreMiss up to the dispatch).
InterestIn(e, f, nonce, now) ==
  LET in == [expiry |-> now + SgLifetime, nonce |-> nonce]
      e1 == [e EXCEPT !.in = (f :> in) @@ @]
  IN  [e1 EXCEPT !.timer = Max({e1.in[g].expiry : g \in DOMAIN e1.in})]

\* onOutgoingInterest: a renewed out-record keeps its Nack and its interval.
sendInterest(e, u, nonce, now) ==
  LET old == IF u \in DOMAIN e.out THEN e.out[u]
             ELSE [nack |-> NotNacked, interval |-> RetxInitial]
      rec == [renewed |-> now, expiry |-> now + SgLifetime, nonce |-> nonce,
              nack |-> old.nack, interval |-> old.interval]
  IN  Effect([e EXCEPT !.out = (u :> rec) @@ @],
             [kind |-> "interest", to |-> u, nonce |-> nonce])

\* onOutgoingNack: the Nack carries the Interest of the in-record it erases.
sendNack(e, f, reason) ==
  IF f \notin DOMAIN e.in THEN e
  ELSE Effect([e EXCEPT !.in = Restrict(@, DOMAIN @ \ {f})],
              [kind |-> "nack", to |-> f, nonce |-> e.in[f].nonce, reason |-> reason])

sendNacks(e, reason) == FoldSet(LAMBDA f, x : sendNack(x, f, reason), e, DOMAIN e.in)

rejectPendingInterest(e, now) == [e EXCEPT !.timer = now]

sendDataToAll(e, u, now) ==
  LET pending == {f \in DOMAIN e.in \ {u} : e.in[f].expiry > now}
      e1 == [e EXCEPT !.in = Restrict(@, DOMAIN @ \ pending)]
  IN  FoldSet(LAMBDA f, x : Effect(x, [kind |-> "data", to |-> f]), e1, pending)

\* The expiry timer set to now and the mark of onIncomingData.
Satisfied(e, now) == [e EXCEPT !.timer = now, !.isSatisfied = TRUE]

deleteOutRecord(e, u) == [e EXCEPT !.out = Restrict(@, DOMAIN @ \ {u})]

\* onIncomingNack up to the dispatch, for a Nack whose nonce matches.
NackIn(e, u, reason, now) ==
  LET e1 == [e EXCEPT !.out[u].nack = reason]
  IN  IF hasPendingOutRecords(e1, now) THEN e1 ELSE [e1 EXCEPT !.timer = now]

-----------------------------------------------------------------------------
leastSevereReason(e) ==
  LET reasons == {e.out[u].nack : u \in DOMAIN e.out}
  IN  CHOOSE r \in reasons : \A q \in reasons : Severity[r] <= Severity[q]

\* Without the rule for the last upstream that is also a downstream.
processNack_WaitsForPeer(e) ==
  IF \E u \in DOMAIN e.out : e.out[u].nack = NotNacked THEN e
  ELSE sendNacks(e, leastSevereReason(e))

processNack(e) ==
  LET notNacked == {u \in DOMAIN e.out : e.out[u].nack = NotNacked}
  IN  IF Cardinality(notNacked) = 1 /\ notNacked \subseteq DOMAIN e.in
      THEN sendNack(e, CHOOSE u \in notNacked : TRUE, leastSevereReason(e))
      ELSE IF notNacked # {} THEN e
      ELSE sendNacks(e, leastSevereReason(e))
=============================================================================
