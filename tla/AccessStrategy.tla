--------------------------- MODULE AccessStrategy ---------------------------
(***************************************************************************)
(* AccessStrategy (daemon/fw/access-strategy.cpp) for one Interest name:   *)
(* the first Interest goes to every next hop, later ones to the next hop   *)
(* that last worked, with a timer (RTO) that multicasts if it stays        *)
(* silent.  Faces come to an end at any time (cleanupOnFaceRemoval).       *)
(*                                                                         *)
(* The RTT estimator is abstracted to its output, any of AcRtos.           *)
(***************************************************************************)
EXTENDS StrategyBase

CONSTANTS AcHops, AcDownstreams,
          AcRtos,          \* what computeRto may return
          AcMinRetx,       \* minRetxInterval of RetxSuppressionFixed
          AcMaxInterests,  \* bound on Interests received (model checking)
          AcMaxTime        \* bound on the clock (model checking)

AcNone == "none"
AcNoTimer == [at |-> 0, inFace |-> AcNone, firstOut |-> AcNone]

VARIABLES acNow, acFaces,
          acEntry,
          acRto,       \* the rtoTimer of the entry's PitInfo, or AcNoTimer
          acMi,        \* lastNexthop of the measurements entry; AcNone without one
          acReceived

acVars == <<acNow, acFaces, acEntry, acRto, acMi, acReceived>>

AcInit ==
  /\ acNow = 1 /\ acFaces = AcHops \cup AcDownstreams
  /\ acEntry = NewEntry /\ acRto = AcNoTimer /\ acMi = AcNone /\ acReceived = 0

RetxSuppressionFixed_decidePerPitEntry(e) ==
  IF ~ hasPendingOutRecords(e, acNow) THEN "NEW"
  ELSE IF acNow - getLastOutgoing(e) < AcMinRetx THEN "SUPPRESS" ELSE "FORWARD"

\* The FIB loses the next hops whose faces are gone.
AcNextHops == AcHops \cap acFaces

AcEligible(f) == {u \in AcNextHops \ {f} : ~ wouldViolateScope("global", f, u)}

Access_multicast(e, f, except) ==
  FoldSet(LAMBDA u, x : sendInterest(x, u, 0, acNow), e, AcEligible(f) \ {except})

AcHandled(e) == acEntry' = [e EXCEPT !.fx = << >>]

MulticastOrReject(e, f) ==
  LET e1 == Access_multicast(e, f, AcNone)
  IN  AcHandled(IF e1 = e THEN rejectPendingInterest(e, acNow) ELSE e1)

CanUseLastNexthop(f) == acMi # AcNone /\ acMi \in AcEligible(f)

sendToLastNexthop_NoTimer(e, f) ==
  /\ AcHandled(sendInterest(e, acMi, 0, acNow))
  /\ acRto' = acRto

\* rtoTimer is a ScopedEventId: a new timer cancels the one it replaces.
sendToLastNexthop(e, f) ==
  /\ AcHandled(sendInterest(e, acMi, 0, acNow))
  /\ \E rto \in AcRtos : acRto' = [at |-> acNow + rto, inFace |-> f, firstOut |-> acMi]

afterReceiveNewInterest(e, f) ==
  \/ CanUseLastNexthop(f) /\ sendToLastNexthop(e, f)
  \/ ~ CanUseLastNexthop(f) /\ MulticastOrReject(e, f) /\ UNCHANGED acRto

AcInterest(f) ==
  /\ f \in acFaces /\ acReceived < AcMaxInterests
  /\ LET e == InterestIn(acEntry, f, 0, acNow)
         decision == RetxSuppressionFixed_decidePerPitEntry(e)
     IN  \/ decision = "NEW" /\ afterReceiveNewInterest(e, f)
         \/ decision = "FORWARD" /\ AcHandled(Access_multicast(e, f, AcNone)) /\ UNCHANGED acRto
         \/ decision = "SUPPRESS" /\ AcHandled(e) /\ UNCHANGED acRto
  /\ acReceived' = acReceived + 1
  /\ UNCHANGED <<acNow, acFaces, acMi>>

afterRtoTimeout ==
  /\ acRto.at \in 1..acNow
  /\ acRto' = AcNoTimer
  /\ AcHandled(IF acRto.inFace \in acFaces
               THEN Access_multicast(acEntry, acRto.inFace, acRto.firstOut) ELSE acEntry)
  /\ UNCHANGED <<acNow, acFaces, acMi, acReceived>>

\* beforeSatisfyInterest with updateMeasurements
AcSatisfy(u) ==
  /\ acRto' = AcNoTimer
  /\ acMi' = IF acEntry.in # NoRecords /\ u \in DOMAIN acEntry.out THEN u ELSE acMi

AcData(u) ==
  /\ u \in acFaces /\ acEntry.timer # 0
  /\ AcSatisfy(u)
  /\ AcHandled(deleteOutRecord(sendDataToAll(Satisfied(acEntry, acNow), u, acNow), u))
  /\ UNCHANGED <<acNow, acFaces, acReceived>>

AcNack(u) ==
  /\ u \in DOMAIN acEntry.out
  /\ AcHandled(NackIn(acEntry, u, "NoRoute", acNow))
  /\ UNCHANGED <<acNow, acFaces, acRto, acMi, acReceived>>

\* The entry is erased and its PitInfo with it.
AcFinalize ==
  /\ acEntry.timer \in 1..acNow
  /\ acEntry' = NewEntry /\ acRto' = AcNoTimer
  /\ UNCHANGED <<acNow, acFaces, acMi, acReceived>>

\* The 8 seconds of the measurements entry pass.
AcForget ==
  /\ acMi # AcNone /\ acMi' = AcNone
  /\ UNCHANGED <<acNow, acFaces, acEntry, acRto, acReceived>>

AcRemoveFace(f) ==
  /\ f \in acFaces /\ acFaces' = acFaces \ {f}
  /\ acEntry' = [acEntry EXCEPT !.in = Restrict(@, DOMAIN @ \ {f}),
                                !.out = Restrict(@, DOMAIN @ \ {f})]
  /\ UNCHANGED <<acNow, acRto, acMi, acReceived>>

AcTick ==
  /\ acNow < AcMaxTime
  /\ acEntry.timer \notin 1..acNow /\ acRto.at \notin 1..acNow
  /\ acNow' = acNow + 1
  /\ UNCHANGED <<acFaces, acEntry, acRto, acMi, acReceived>>

AcNext ==
  \/ \E f \in AcDownstreams : AcInterest(f)
  \/ \E u \in AcHops : AcData(u) \/ AcNack(u)
  \/ \E f \in AcHops \cup AcDownstreams : AcRemoveFace(f)
  \/ afterRtoTimeout \/ AcFinalize \/ AcForget \/ AcTick

-----------------------------------------------------------------------------

\* "If it doesn't respond, multicast again" (access-strategy.hpp): an entry
\* that was never satisfied and whose last Interest is older than the
\* longest RTO has asked every next hop that is not a downstream itself, as
\* long as no downstream face has gone (the timer of a face that has gone
\* multicasts nothing).
SilenceIsMulticast ==
  /\ AcDownstreams \subseteq acFaces /\ ~ acEntry.isSatisfied
  /\ acEntry.timer > acNow /\ acNow > acEntry.timer - SgLifetime + Max(AcRtos)
  => AcNextHops \ AcDownstreams \subseteq DOMAIN acEntry.out
=============================================================================
