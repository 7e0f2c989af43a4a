---------------------------- MODULE NccStrategy ----------------------------
(***************************************************************************)
(* NccStrategy (daemon/fw/ncc-strategy.cpp) for one Interest name and its  *)
(* parent: an Interest goes to the best face or the first eligible next    *)
(* hop, and is propagated to the others one by one by a timer; the         *)
(* prediction of how long the best face takes adapts.                      *)
(*                                                                         *)
(* maxInterval is counted in microseconds but used as nanoseconds, so the  *)
(* random delay between two propagations is less than one tick of this     *)
(* model.  An EventId that is overwritten does not cancel its event: a     *)
(* timer is a record, and mine marks the one its PitEntryInfo refers to.   *)
(***************************************************************************)
EXTENDS StrategyBase

CONSTANTS NcHops,         \* the FIB next hops in order of cost
          NcDownstreams,
          NcDeferFirst,   \* DEFER_FIRST_WITHOUT_BEST_FACE
          NcInitial, NcMin, NcMax,     \* the bounds of a prediction
          NcUpShift, NcDownShift,
          NcMaxInterests, NcMaxTime    \* bounds (model checking)

NcNone == "none"
NcLevels == {"name", "parent"}

VARIABLES ncNow, ncFaces, ncEntry,
          ncPropagate,   \* propagateTimer events: [at, inFace, mine]
          ncTimeout,     \* bestFaceTimeout events: [at, face, mine]
          ncInfo,        \* MeasurementsEntryInfo of the levels that have one
          ncReceived

ncVars == <<ncNow, ncFaces, ncEntry, ncPropagate, ncTimeout, ncInfo, ncReceived>>

NewInfo == [best |-> NcNone, previous |-> NcNone, prediction |-> NcInitial]

NcInit ==
  /\ ncNow = 1 /\ ncFaces = Range(NcHops) \cup NcDownstreams /\ ncEntry = NewEntry
  /\ ncPropagate = {} /\ ncTimeout = {} /\ ncInfo = NoRecords /\ ncReceived = 0

-----------------------------------------------------------------------------
\* getMeasurementsEntryInfo creates the missing levels; a new one inherits.
WithInfo(info) ==
  LET parent == IF "parent" \in DOMAIN info THEN info["parent"] ELSE NewInfo
      name   == IF "name" \in DOMAIN info THEN info["name"] ELSE parent
  IN  [name |-> name, parent |-> parent]

\* bestFace and previousFace are weak pointers.
Locked(u) == IF u \in ncFaces THEN u ELSE NcNone

getBestFace(i) == IF Locked(i.best) # NcNone THEN i.best ELSE Locked(i.previous)

updateBestFace(i, u) ==
  IF Locked(i.best) = NcNone THEN [i EXCEPT !.best = u]
  ELSE IF i.best = u
  THEN [i EXCEPT !.prediction = Max({NcMin, @ - @ \div 2 ^ NcDownShift})]
  ELSE [i EXCEPT !.previous = i.best, !.best = u]

adjustPredictUp(i) == [i EXCEPT !.prediction = Min({NcMax, @ + @ \div 2 ^ NcUpShift})]

-----------------------------------------------------------------------------
CanPropagateTo(e, u) == u \in ncFaces /\ canForwardToLegacy(e, u, ncNow)

NcUsable(e) == SelectSeq(NcHops, LAMBDA u : CanPropagateTo(e, u))

NcSend(e, u) == [sendInterest(e, u, 0, ncNow) EXCEPT !.fx = << >>]

NotMine(timers) == {[t EXCEPT !.mine = FALSE] : t \in timers}

SchedulePropagate(timers, delay, f) ==
  NotMine(timers) \cup {[at |-> ncNow + delay, inFace |-> f, mine |-> TRUE]}

NcRejects(e) ==
  /\ ncEntry' = rejectPendingInterest(e, ncNow)
  /\ UNCHANGED <<ncPropagate, ncTimeout>>

ToBestFace_NoPropagate(e, f, i) ==
  LET best == getBestFace(i) IN
  /\ best \in Range(NcHops) /\ CanPropagateTo(e, best)
  /\ ncEntry' = NcSend(e, best)
  /\ ncTimeout' = NotMine(ncTimeout)
                    \cup {[at |-> ncNow + i.prediction, face |-> best, mine |-> TRUE]}
  /\ UNCHANGED ncPropagate

\* To the best face, with a timeout after its prediction.
ToBestFace(e, f, i) ==
  LET best == getBestFace(i) IN
  /\ best \in Range(NcHops) /\ CanPropagateTo(e, best)
  /\ ncEntry' = NcSend(e, best)
  /\ ncTimeout' = NotMine(ncTimeout)
                    \cup {[at |-> ncNow + i.prediction, face |-> best, mine |-> TRUE]}
  /\ ncPropagate' = SchedulePropagate(ncPropagate, i.prediction, f)

ToFirstEligible(e, f, i) ==
  LET best == getBestFace(i) IN
  /\ ~ (best \in Range(NcHops) /\ CanPropagateTo(e, best))
  /\ NcUsable(e) # << >>
  /\ ncEntry' = NcSend(e, Head(NcUsable(e)))
  /\ ncPropagate' = SchedulePropagate(ncPropagate, NcDeferFirst, f)
  /\ UNCHANGED ncTimeout

NcInterest(f) ==
  /\ ncReceived < NcMaxInterests
  /\ LET e == InterestIn(ncEntry, f, 0, ncNow)
         isNewPitEntry == ~ hasPendingOutRecords(e, ncNow)
         info == WithInfo(ncInfo)
     IN  \/ /\ Range(NcHops) \cap ncFaces # {} /\ ~ isNewPitEntry
            /\ ncEntry' = e
            /\ UNCHANGED <<ncPropagate, ncTimeout, ncInfo>>
         \/ /\ Range(NcHops) \cap ncFaces = {}
            /\ NcRejects(e) /\ UNCHANGED ncInfo
         \/ /\ Range(NcHops) \cap ncFaces # {} /\ isNewPitEntry
            /\ \/ ToBestFace(e, f, info["name"])
               \/ ToFirstEligible(e, f, info["name"])
               \/ NcUsable(e) = << >> /\ NcRejects(e)
            /\ ncInfo' = info
  /\ ncReceived' = ncReceived + 1
  /\ UNCHANGED <<ncNow, ncFaces>>

\* The previous best face and the next usable hop.
Propagated(e, previous) ==
  LET e1 == IF previous \in Range(NcHops) /\ CanPropagateTo(e, previous)
            THEN NcSend(e, previous) ELSE e
      next == NcUsable(e1)
  IN  [entry |-> IF next = << >> THEN e1 ELSE NcSend(e1, Head(next)),
       isForwarded |-> next # << >>]

doPropagate(t) ==
  /\ t \in ncPropagate /\ t.at <= ncNow
  /\ LET rest == ncPropagate \ {t}
         info == WithInfo(ncInfo)
         p    == Propagated(ncEntry, Locked(info["name"].previous))
     IN  IF t.inFace \notin DOMAIN ncEntry.in
         THEN ncPropagate' = rest /\ UNCHANGED <<ncEntry, ncInfo>>
         ELSE /\ ncEntry' = p.entry /\ ncInfo' = info
              /\ ncPropagate' = IF p.isForwarded THEN SchedulePropagate(rest, 0, t.inFace)
                                ELSE rest
  /\ UNCHANGED <<ncNow, ncFaces, ncTimeout, ncReceived>>

\* Measurements of the name and its parent.
timeoutOnBestFace(t) ==
  /\ t \in ncTimeout /\ t.at <= ncNow
  /\ ncTimeout' = ncTimeout \ {t}
  /\ LET info == WithInfo(ncInfo)
     IN  ncInfo' = [l \in NcLevels |-> adjustPredictUp(info[l])]
  /\ UNCHANGED <<ncNow, ncFaces, ncEntry, ncPropagate, ncReceived>>

\* beforeSatisfyInterest; getBestFace is read after updateBestFace, so the
\* best face is always the one the Data came from.
NcSatisfied(u) ==
  LET info == WithInfo(ncInfo) IN
  /\ ncInfo' = [l \in NcLevels |-> updateBestFace(info[l], u)]
  /\ ncPropagate' = {t \in ncPropagate : ~ t.mine}
  /\ ncTimeout' = IF getBestFace(ncInfo'["name"]) = u
                  THEN {t \in ncTimeout : ~ t.mine} ELSE ncTimeout

NcData(u) ==
  /\ u \in DOMAIN ncEntry.out
  /\ IF ncEntry.in = NoRecords THEN UNCHANGED <<ncInfo, ncPropagate, ncTimeout>>
     ELSE NcSatisfied(u)
  /\ ncEntry' = [deleteOutRecord(sendDataToAll(Satisfied(ncEntry, ncNow), u, ncNow), u)
                   EXCEPT !.fx = << >>]
  /\ UNCHANGED <<ncNow, ncFaces, ncReceived>>

NcNack(u) ==
  /\ u \in DOMAIN ncEntry.out
  /\ ncEntry' = NackIn(ncEntry, u, "NoRoute", ncNow)
  /\ UNCHANGED <<ncNow, ncFaces, ncPropagate, ncTimeout, ncInfo, ncReceived>>

\* The timers of an erased entry are cancelled or find it gone.
NcFinalize ==
  /\ ncEntry.timer \in 1..ncNow
  /\ ncEntry' = NewEntry /\ ncPropagate' = {} /\ ncTimeout' = {}
  /\ UNCHANGED <<ncNow, ncFaces, ncInfo, ncReceived>>

\* A measurements entry outlives MEASUREMENTS_LIFETIME.
NcForget(l) ==
  /\ l \in DOMAIN ncInfo /\ ncInfo' = Restrict(ncInfo, DOMAIN ncInfo \ {l})
  /\ UNCHANGED <<ncNow, ncFaces, ncEntry, ncPropagate, ncTimeout, ncReceived>>

NcRemoveHop(u) ==
  /\ u \in ncFaces /\ ncFaces' = ncFaces \ {u}
  /\ ncEntry' = [ncEntry EXCEPT !.out = Restrict(@, DOMAIN @ \ {u})]
  /\ UNCHANGED <<ncNow, ncPropagate, ncTimeout, ncInfo, ncReceived>>

NcTick ==
  /\ ncNow < NcMaxTime /\ ncEntry.timer \notin 1..ncNow
  /\ \A t \in ncPropagate \cup ncTimeout : t.at > ncNow
  /\ ncNow' = ncNow + 1
  /\ UNCHANGED <<ncFaces, ncEntry, ncPropagate, ncTimeout, ncInfo, ncReceived>>

NcNext ==
  \/ \E f \in NcDownstreams : NcInterest(f)
  \/ \E u \in Range(NcHops) : NcData(u) \/ NcNack(u)
  \/ \E u \in Range(NcHops) \ NcDownstreams : NcRemoveHop(u)
  \/ \E t \in ncPropagate : doPropagate(t)
  \/ \E t \in ncTimeout : timeoutOnBestFace(t)
  \/ \E l \in NcLevels : NcForget(l)
  \/ NcFinalize \/ NcTick

-----------------------------------------------------------------------------
\* An Interest that stays unanswered is propagated to every next hop: an
\* entry that was never satisfied and whose last Interest is older than the
\* longest first delay has an out-record for every next hop that is not a
\* downstream itself, whatever best and previous faces, Nacks and removed
\* faces there were (doPropagate).
EveryHopIsTried ==
  /\ ~ ncEntry.isSatisfied /\ ncEntry.timer > ncNow
  /\ ncNow > ncEntry.timer - SgLifetime + Max({NcMax, NcDeferFirst})
  => (Range(NcHops) \cap ncFaces) \ NcDownstreams \subseteq DOMAIN ncEntry.out

=============================================================================
