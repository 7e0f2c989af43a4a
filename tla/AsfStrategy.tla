---------------------------- MODULE AsfStrategy ----------------------------
(***************************************************************************)
(* AsfStrategy with AsfMeasurements and ProbingModule (daemon/fw/asf-...): *)
(* several Interest names under one FIB prefix share a NamespaceInfo with  *)
(* one FaceInfo per next hop.  Interests go to the next hop with the best  *)
(* measurements, probes to another one when probing is due.                *)
(*                                                                         *)
(* Smoothed RTTs are kept in eighths of a tick (ALPHA = 1/8).  The RTO is  *)
(* abstracted to any of AsRtos; the five minutes of MEASUREMENTS_LIFETIME  *)
(* pass only while no Interest is pending.                                 *)
(***************************************************************************)
EXTENDS StrategyBase

CONSTANTS AsHops,        \* the FIB next hops in order of cost
          AsDownstreams, AsNames,
          AsRtos,        \* what computeRto may return
          AsMaxSilentTimeouts,
          AsProbingInterval, AsFirstProbe,   \* delays of the probes
          AsMaxInterests, AsMaxTime          \* bounds (model checking)

ASSUME AsAssumption == AsRtos \subseteq Nat

AsNoTimer == 0
AsUnmeasured == 0

VARIABLES asNow, asFaces,
          asEntry,     \* the PIT entry of each name
          asFit,       \* FaceInfo of the next hops that have one
          asProbe,     \* [isProbingDue, firstScheduled, events]: events are times
          asReceived

asVars == <<asNow, asFaces, asEntry, asFit, asProbe, asReceived>>

\* The event of timeoutAt is scheduled for lastInterestName.
FaceInfo == [isTimeout |-> FALSE, rtt |-> AsUnmeasured, srtt |-> AsUnmeasured,
             isTimeoutScheduled |-> FALSE, timeoutAt |-> AsNoTimer, lastInterestName |-> "none",
             nSilentTimeouts |-> 0]

NamespaceInfo == [isProbingDue |-> FALSE, firstScheduled |-> FALSE, events |-> {}]

AsInit ==
  /\ asNow = 1 /\ asFaces = Range(AsHops) \cup AsDownstreams
  /\ asEntry = [n \in AsNames |-> NewEntry]
  /\ asFit = NoRecords /\ asProbe = NamespaceInfo /\ asReceived = 0

getOrCreateFaceInfo(fit, u) == IF u \in DOMAIN fit THEN fit[u] ELSE FaceInfo
SetFaceInfo(fit, u, i) == [v \in DOMAIN fit \cup {u} |-> IF v = u THEN i ELSE fit[v]]

computeSrtt(srtt, rtt) == IF srtt = AsUnmeasured THEN 8 * rtt ELSE rtt + (7 * srtt) \div 8

recordRtt(i, rtt) ==
  [i EXCEPT !.isTimeout = FALSE, !.rtt = rtt, !.srtt = computeSrtt(i.srtt, rtt)]

cancelTimeoutEvent_KeepsFlag(i, name) ==
  IF i.isTimeoutScheduled /\ i.lastInterestName = name
  THEN [i EXCEPT !.timeoutAt = AsNoTimer] ELSE i

cancelTimeoutEvent(i, name) ==
  IF i.isTimeoutScheduled /\ i.lastInterestName = name
  THEN [i EXCEPT !.isTimeoutScheduled = FALSE, !.timeoutAt = AsNoTimer] ELSE i

recordTimeout(i, name) == cancelTimeoutEvent([i EXCEPT !.isTimeout = TRUE], name)

-----------------------------------------------------------------------------
AsNextHops == SelectSeq(AsHops, LAMBDA u : u \in asFaces)

AsRank(u) ==
  LET i == getOrCreateFaceInfo(asFit, u)
  IN  CASE i.isTimeout -> <<2, 0>>
        [] ~ i.isTimeout /\ i.rtt = AsUnmeasured -> <<1, 0>>
        [] OTHER -> <<0, i.srtt>>

BetterRank(r, q) == r[1] < q[1] \/ (r[1] = q[1] /\ r[2] < q[2])

\* The costs of the next hops differ: the first of the best ranked.
getBestFaceForForwarding(eligible) ==
  Head(SelectSeq(eligible, LAMBDA u : \A v \in Range(eligible) : ~ BetterRank(AsRank(v), AsRank(u))))

\* The set of ranked faces keeps the first of those that compare equal, and
\* every member has a positive probability.
getFaceToProbe(eligible, used) ==
  LET others == SelectSeq(eligible, LAMBDA u : u # used)
      info(u) == getOrCreateFaceInfo(asFit, u)
      new == SelectSeq(others, LAMBDA u : info(u).srtt = AsUnmeasured)
      same(u, v) == info(u).isTimeout = info(v).isTimeout /\ info(u).srtt = info(v).srtt
  IN  IF new # << >> THEN {Head(new)}
      ELSE {others[k] : k \in {j \in DOMAIN others : \A l \in 1..(j - 1) : ~ same(others[l], others[j])}}

\* FaceInfo after an Interest is forwarded: a timeout unless one is scheduled.
ForwardedInfo(fit, u, name, rto) ==
  LET i == getOrCreateFaceInfo(fit, u)
      i1 == IF i.isTimeoutScheduled THEN i
            ELSE [i EXCEPT !.isTimeoutScheduled = TRUE, !.timeoutAt = asNow + rto,
                           !.lastInterestName = name]
  IN  SetFaceInfo(fit, u, i1)

AsSend(e, u) == [sendInterest(e, u, 0, asNow) EXCEPT !.fx = << >>]

\* isProbingNeeded schedules the first probe.
FirstProbe(p, delay) ==
  IF p.firstScheduled THEN p
  ELSE [p EXCEPT !.firstScheduled = TRUE, !.events = @ \cup {asNow + delay}]

afterForwardingProbe(p) ==
  [p EXCEPT !.isProbingDue = FALSE, !.events = @ \cup {asNow + AsProbingInterval}]

AsForward(e, n, eligible) ==
  LET best  == getBestFaceForForwarding(eligible)
      probe == getFaceToProbe(eligible, best)
  IN  \E rto \in AsRtos, d \in AsFirstProbe :
        LET fit == ForwardedInfo(asFit, best, n, rto)
            p   == FirstProbe(asProbe, d)
        IN  \/ /\ ~ p.isProbingDue \/ probe = {}
               /\ asEntry' = [asEntry EXCEPT ![n] = AsSend(e, best)]
               /\ asFit' = fit /\ asProbe' = p
            \/ /\ p.isProbingDue
               /\ \E u \in probe :
                    /\ asEntry' = [asEntry EXCEPT ![n] = AsSend(AsSend(e, best), u)]
                    /\ asFit' = ForwardedInfo(fit, u, n, rto)
                    /\ asProbe' = afterForwardingProbe(p)

AsInterest(f, n) ==
  /\ f \in asFaces /\ asReceived < AsMaxInterests
  /\ LET e0 == InterestIn(asEntry[n], f, 0, asNow)
         decision == decidePerPitEntry(e0, asNow)
         e  == AfterDecision(e0, decision)
         eligible == SelectSeq(AsNextHops, LAMBDA u : u # f /\ ~ wouldViolateScope("global", f, u))
     IN  \/ /\ decision = "SUPPRESS"
            /\ asEntry' = [asEntry EXCEPT ![n] = e] /\ UNCHANGED <<asFit, asProbe>>
         \/ /\ decision # "SUPPRESS" /\ eligible = << >>
            /\ asEntry' = [asEntry EXCEPT ![n] =
                 [rejectPendingInterest(sendNack(e, f, "NoRoute"), asNow) EXCEPT !.fx = << >>]]
            /\ UNCHANGED <<asFit, asProbe>>
         \/ decision # "SUPPRESS" /\ eligible # << >> /\ AsForward(e, n, eligible)
  /\ asReceived' = asReceived + 1
  /\ UNCHANGED <<asNow, asFaces>>

\* beforeSatisfyInterest; the Data has the Interest's name.
AsData(n, u) ==
  /\ u \in DOMAIN asEntry[n].out /\ asNow > asEntry[n].out[u].renewed
  /\ IF u \notin DOMAIN asFit THEN UNCHANGED asFit
     ELSE asFit' = [asFit EXCEPT ![u] =
               cancelTimeoutEvent(recordRtt(@, asNow - asEntry[n].out[u].renewed), n)]
  /\ asEntry' = [asEntry EXCEPT ![n] =
       [deleteOutRecord(sendDataToAll(Satisfied(@, asNow), u, asNow), u) EXCEPT !.fx = << >>]]
  /\ UNCHANGED <<asNow, asFaces, asProbe, asReceived>>

\* onTimeout, for an RTO or a Nack.  The count only matters up to the limit
\* (nothing resets it).
AsOnTimeout(u, n) ==
  LET i  == getOrCreateFaceInfo(asFit, u)
      i1 == [i EXCEPT !.nSilentTimeouts = Min({@ + 1, AsMaxSilentTimeouts + 1})]
      silent == i1.nSilentTimeouts <= AsMaxSilentTimeouts
      i2 == IF silent THEN cancelTimeoutEvent(i1, n) ELSE recordTimeout(i1, n)
  IN  asFit' = SetFaceInfo(asFit, u, i2)

AsTimeout(u) ==
  /\ u \in DOMAIN asFit /\ asFit[u].timeoutAt \in 1..asNow
  /\ AsOnTimeout(u, asFit[u].lastInterestName)
  /\ UNCHANGED <<asNow, asFaces, asEntry, asProbe, asReceived>>

AsNack(n, u) ==
  /\ u \in DOMAIN asEntry[n].out
  /\ asEntry' = [asEntry EXCEPT ![n] = NackIn(@, u, "NoRoute", asNow)]
  /\ AsOnTimeout(u, n)
  /\ UNCHANGED <<asNow, asFaces, asProbe, asReceived>>

\* scheduleProbe's event; without a NamespaceInfo it does nothing.
AsProbeEvent(t) ==
  /\ t \in asProbe.events /\ t <= asNow
  /\ asProbe' = [asProbe EXCEPT !.events = @ \ {t},
                                !.isProbingDue = @ \/ asProbe.firstScheduled]
  /\ UNCHANGED <<asNow, asFaces, asEntry, asFit, asReceived>>

AsFinalize(n) ==
  /\ asEntry[n].timer \in 1..asNow
  /\ asEntry' = [asEntry EXCEPT ![n] = NewEntry]
  /\ UNCHANGED <<asNow, asFaces, asFit, asProbe, asReceived>>

AsIdle == \A n \in AsNames : asEntry[n].timer = 0

\* expireFaceInfo; the destructor cancels the timeout.
AsExpireFaceInfo(u) ==
  /\ AsIdle /\ u \in DOMAIN asFit
  /\ asFit' = Restrict(asFit, DOMAIN asFit \ {u})
  /\ UNCHANGED <<asNow, asFaces, asEntry, asProbe, asReceived>>

\* The measurements entry goes, with its NamespaceInfo.
AsExpireNamespace ==
  /\ AsIdle /\ asProbe.firstScheduled
  /\ asFit' = NoRecords /\ asProbe' = [NamespaceInfo EXCEPT !.events = asProbe.events]
  /\ UNCHANGED <<asNow, asFaces, asEntry, asReceived>>

AsRemoveFace(f) ==
  /\ f \in asFaces /\ asFaces' = asFaces \ {f}
  /\ asEntry' = [n \in AsNames |-> [asEntry[n] EXCEPT !.in = Restrict(@, DOMAIN @ \ {f}),
                                                      !.out = Restrict(@, DOMAIN @ \ {f})]]
  /\ UNCHANGED <<asNow, asFit, asProbe, asReceived>>

AsTick ==
  /\ asNow < AsMaxTime
  /\ \A n \in AsNames : asEntry[n].timer \notin 1..asNow
  /\ \A u \in DOMAIN asFit : asFit[u].timeoutAt \notin 1..asNow
  /\ \A t \in asProbe.events : t > asNow
  /\ asNow' = asNow + 1
  /\ UNCHANGED <<asFaces, asEntry, asFit, asProbe, asReceived>>

AsNext ==
  \/ \E f \in AsDownstreams, n \in AsNames : AsInterest(f, n)
  \/ \E n \in AsNames : AsFinalize(n) \/ \E u \in Range(AsHops) : AsData(n, u) \/ AsNack(n, u)
  \/ \E u \in Range(AsHops) : AsTimeout(u) \/ AsExpireFaceInfo(u) \/ AsRemoveFace(u)
  \/ \E t \in asProbe.events : AsProbeEvent(t)
  \/ AsExpireNamespace \/ AsTick

-----------------------------------------------------------------------------
\* What ASF waits for is scheduled.  A FaceInfo that says a timeout is scheduled
\* has one pending, whichever of the names it was scheduled for and however Data,
\* Nacks and expirations interleave: a flag without a timer would keep
\* forwardInterest from ever scheduling again.  And probing never dies out: once
\* the first probe of a namespace is scheduled, probing is due or an event that
\* makes it due is pending, also when the namespace was forgotten and learnt
\* again (isProbingNeeded, afterForwardingProbe, scheduleProbe).
FlagsHaveEvents ==
  /\ \A u \in DOMAIN asFit : asFit[u].isTimeoutScheduled <=> asFit[u].timeoutAt >= asNow
  /\ asProbe.firstScheduled => asProbe.isProbingDue \/ asProbe.events # {}
=============================================================================
