---------------------------- MODULE QosSelection ----------------------------
(***************************************************************************)
(* How QosStrategy ("qos") chooses the faces of an Interest from its loss  *)
(* statistics (daemon/fw/qos-strategy.cpp), and how QosMitigation          *)
(* ("qos-mit", qos-mitigation-strategy.cpp) watches for the flow behind    *)
(* heavy losses.  Names are typed: getPrType's answer for any other name   *)
(* indexes past the queues.                                                *)
(*                                                                         *)
(* Rates are in thousandths, beta = 0.833.  Which queues a call of         *)
(* prioritySend serves is module QosTransmit's subject: here the heads of  *)
(* any of them leave.  An entry may expire at any time: lifetimes are the  *)
(* consumers' choice.                                                      *)
(***************************************************************************)
EXTENDS StrategyBase, Folds, SequencesExt

CONSTANTS QsHops,        \* the FIB next hops in order of cost
          QsDownstreams,
          QsFlow,        \* name -> [one, two]: it without one, without two components
          QsReqs,        \* m_successReqs of each level, from level 1
          QsRoom,        \* the length of a queue
          QsBootstrap,   \* packets before statistics count
          QsWindow,      \* 100, the length of lastHundred
          QsMonitors,    \* what QosMitigation may know at the start
          QsMaxInterests, QsMaxTime   \* bounds (model checking)

QsNames == DOMAIN QsFlow
QsPrefixes == {QsFlow[n].one : n \in QsNames} \cup {QsFlow[n].two : n \in QsNames}
QsLevels == DOMAIN QsReqs
QsHopSet == Range(QsHops)
Whole == 1000
QsGone == "gone"     \* in a queue: an Interest whose entry was erased
NoStats == [abs |-> NoRecords, rela |-> NoRecords, sent |-> 0]
NoMonitor == [window |-> << >>, monitored |-> NoRecords, total |-> 0]

VARIABLES qsKind, qsType,   \* the strategy, and the priority type of the names
          qsNow, qsEntry,
          qsQueue,      \* m_tx_queue: the Interests on each face and level
          qsStats,      \* m_faceStats; NoStats where there are none
          qsRejected,   \* rejectedInterests
          qsMon,        \* lastHundred, monitored and totalLossRate
          qsReceived,
          qsRefused,    \* names whose last Interest was rejected (history)
          qsChoice      \* the last selection (history)

qsVars == <<qsKind, qsType, qsNow, qsEntry, qsQueue, qsStats, qsRejected, qsMon, qsReceived,
            qsRefused, qsChoice>>

QsInit ==
  /\ qsKind \in {"qos", "qos-mit"} /\ qsType \in {1, 3} /\ qsNow = 1
  /\ qsEntry = [n \in QsNames |-> NewEntry]
  /\ qsQueue = [u \in QsHopSet |-> [l \in QsLevels |-> << >>]]
  /\ qsStats = [p \in QsPrefixes |-> NoStats]
  /\ qsRejected = << >> /\ qsReceived = 0
  /\ qsMon \in (IF qsKind = "qos" THEN {NoMonitor} ELSE QsMonitors)
  /\ qsRefused = {} /\ qsChoice = [hops |-> {}, usable |-> {}, met |-> TRUE]

\* getPrType, counting from 1; level 4 is QosMitigation's.
getPrType(n) ==
  IF qsKind = "qos-mit" /\ QsFlow[n].one \in DOMAIN qsMon.monitored
       /\ qsMon.monitored[QsFlow[n].one] > 800
  THEN 4 ELSE qsType

-----------------------------------------------------------------------------
Initialized(s) ==
  IF s # NoStats THEN s
  ELSE [abs |-> [u \in QsHopSet |-> 0], rela |-> [u \in QsHopSet |-> 0], sent |-> 0]

getFaceProb(s, u, rel) ==
  IF s.sent <= QsBootstrap THEN 0 ELSE Whole - (IF rel THEN s.rela[u] ELSE s.abs[u])

\* One pass over the next hops: the first is rated by absLossRate, the rest
\* by relaLossRate, and a later one wins a tie.
BestFace(s, usable) ==
  LET first == [face |-> Head(usable), prob |-> getFaceProb(s, Head(usable), FALSE)]
      better(b, u) == LET p == getFaceProb(s, u, TRUE)
                      IN  IF p >= b.prob THEN [face |-> u, prob |-> p] ELSE b
  IN  FoldLeft(better, first, Tail(usable))

QsEnqueue(q, u, level, n) ==
  IF Len(q[u][level]) < QsRoom THEN [q EXCEPT ![u][level] = Append(@, n)] ELSE q

\* One round of the selection loop; it ends when the requirement is met.
SelectRound(x, s, level, n, usable) ==
  LET left == SelectSeq(usable, LAMBDA u : u \notin x.seen)
      best == BestFace(s, left)
      q    == QsEnqueue(x.queue, best.face, level, n)
  IN  IF left = << >> \/ (x.seen # {} /\ x.prob >= QsReqs[level]) THEN x
      ELSE [seen |-> x.seen \cup {best.face}, prob |-> x.prob + best.prob, queue |-> q,
            forwarded |-> x.forwarded \/ q # x.queue]

Select_OneRound(s, level, n, usable) ==
  SelectRound([seen |-> {}, prob |-> 0, queue |-> qsQueue, forwarded |-> FALSE], s, level, n, usable)

Select(s, level, n, usable) ==
  FoldLeft(LAMBDA x, i : SelectRound(x, s, level, n, usable),
           [seen |-> {}, prob |-> 0, queue |-> qsQueue, forwarded |-> FALSE], QsHops)

\* The head leaves each queue in D, a set of faces and levels: the entry it
\* belongs to gets an out-record.
Leaves(q) == SUBSET {d \in QsHopSet \X QsLevels : q[d[1]][d[2]] # << >>}
Rest(q, D) ==
  [u \in QsHopSet |-> [l \in QsLevels |-> IF <<u, l>> \in D THEN Tail(q[u][l]) ELSE q[u][l]]]
SentOn(q, D, n) == {d[1] : d \in {d \in D : Head(q[d[1]][d[2]]) = n}}

QsAfterSend(entries, q, D) ==
  [n \in QsNames |->
     IF entries[n].timer = 0 THEN entries[n]
     ELSE [FoldSet(LAMBDA u, e : sendInterest(e, u, 0, qsNow), entries[n], SentOn(q, D, n))
             EXCEPT !.fx = << >>]]

\* The end of afterReceiveInterest: suppressed, rejected or forwarded.
QsEnds_Unnoted(n, entries, decision, forwarded) ==
  LET e == AfterDecision(entries[n], decision)
      isRefused == decision # "SUPPRESS" /\ ~ forwarded
  IN  /\ qsEntry' = [entries EXCEPT ![n] = IF isRefused THEN rejectPendingInterest(e, qsNow) ELSE e]
      /\ UNCHANGED qsRejected
      /\ qsRefused' = IF isRefused THEN qsRefused \cup {n} ELSE qsRefused \ {n}

QsEnds(n, entries, decision, forwarded) ==
  LET e == AfterDecision(entries[n], decision)
      isRefused == decision # "SUPPRESS" /\ ~ forwarded
  IN  /\ qsEntry' = [entries EXCEPT ![n] = IF isRefused THEN rejectPendingInterest(e, qsNow) ELSE e]
      /\ qsRejected' = IF isRefused THEN Append(qsRejected, n) ELSE qsRejected
      /\ qsRefused' = IF isRefused THEN qsRefused \cup {n} ELSE qsRefused \ {n}

QsInterest(f, n) ==
  /\ qsReceived < QsMaxInterests
  /\ LET e      == InterestIn(qsEntry[n], f, 0, qsNow)
         p      == QsFlow[n].one
         level  == getPrType(n)
         s      == Initialized(qsStats[p])
         s1     == [s EXCEPT !.sent = Min({@ + 1, QsBootstrap + 1})]
         isSuppressed(u) == decidePerUpstream(e, u, qsNow) = "SUPPRESS"
         usable == SelectSeq(QsHops, LAMBDA u : ~ isSuppressed(u) /\ u # f
                                                /\ ~ wouldViolateScope("global", f, u))
         x      == Select(s1, level, n, usable)
         noHop  == usable = << >> /\ \A u \in QsHopSet : ~ isSuppressed(u)
     IN  \E D \in Leaves(x.queue) :
           LET sent == QsAfterSend([qsEntry EXCEPT ![n] = e], x.queue, D)
               e1   == IF noHop THEN [rejectPendingInterest(sendNack(sent[n], f, "NoRoute"), qsNow)
                                        EXCEPT !.fx = << >>]
                       ELSE sent[n]
           IN  /\ QsEnds(n, [sent EXCEPT ![n] = e1], decidePerPitEntry(e1, qsNow), x.forwarded)
               /\ qsQueue' = Rest(x.queue, D)
               /\ qsStats' = [qsStats EXCEPT ![p] = s1]
               /\ qsChoice' = [hops |-> x.seen, usable |-> Range(usable), met |-> x.prob >= QsReqs[level]]
  /\ qsReceived' = qsReceived + 1
  /\ UNCHANGED <<qsKind, qsType, qsNow, qsMon>>

\* A token bucket wakes prioritySend.
QsWake ==
  /\ \E D \in Leaves(qsQueue) \ {{}} :
       qsEntry' = QsAfterSend(qsEntry, qsQueue, D) /\ qsQueue' = Rest(qsQueue, D)
  /\ UNCHANGED <<qsKind, qsType, qsNow, qsStats, qsRejected, qsMon, qsReceived, qsRefused, qsChoice>>

-----------------------------------------------------------------------------
Lowered(r) == (167 * r) \div Whole
Raised(r) == 833 + (167 * r) \div Whole

\* beforeSatisfyInterest of QosStrategy: the Data came from u.
StatsAfterData(s, u, e) ==
  [s EXCEPT !.abs = [v \in DOMAIN @ |-> IF v = u THEN Lowered(@[v])
                                        ELSE IF v \in DOMAIN e.out THEN Raised(@[v]) ELSE @[v]],
            !.rela[u] = Lowered(@)]

\* beforeExpirePendingInterest of QosStrategy: absLossRate is assigned twice,
\* the second time from relaLossRate.
StatsAfterLoss(s, e) ==
  [s EXCEPT !.abs = [v \in DOMAIN @ |-> IF v \in DOMAIN e.out THEN Raised(s.rela[v]) ELSE @[v]]]

Charged(n, P(_)) ==
  LET p == QsFlow[n].two
  IN  IF qsStats[p] = NoStats THEN qsStats ELSE [qsStats EXCEPT ![p] = P(@)]

\* lastHundred and the loss rates of QosMitigation, after a flow's Interest
\* was answered or lost.
Watched(m, flow, P(_)) ==
  LET w == Append(m.window, flow)
      m1 == [m EXCEPT !.window = IF Len(w) > QsWindow THEN Tail(w) ELSE w]
  IN  IF flow \in DOMAIN m.monitored THEN [m1 EXCEPT !.monitored[flow] = P(@)]
      ELSE [m1 EXCEPT !.total = P(@)]

Frequency(w, flow) == Cardinality({i \in DOMAIN w : w[i] = flow})

\* The first flow to reach the highest count.
MostPopular(w) ==
  LET best == Max({Frequency(w, w[i]) : i \in DOMAIN w})
      at(i) == Frequency(SubSeq(w, 1, i), w[i]) = best
  IN  w[Min({i \in DOMAIN w : at(i)})]

findSusFlow(m) ==
  [window |-> << >>, total |-> 0, monitored |-> (MostPopular(m.window) :> 0) @@ m.monitored]

QsData(n, u) ==
  /\ u \in DOMAIN qsEntry[n].out
  /\ qsStats' = Charged(n, LAMBDA s : StatsAfterData(s, u, qsEntry[n]))
  /\ qsMon' = IF qsKind = "qos" THEN qsMon ELSE Watched(qsMon, QsFlow[n].one, Lowered)
  /\ qsEntry' = [qsEntry EXCEPT ![n] = deleteOutRecord(Satisfied(@, qsNow), u)]
  /\ UNCHANGED <<qsKind, qsType, qsNow, qsQueue, qsRejected, qsReceived, qsRefused, qsChoice>>

\* wasRejected takes a name off rejectedInterests.
TimesRejected(n) == Frequency(qsRejected, n)
wasRejected(q, n) ==
  LET i == Min({j \in DOMAIN q : q[j] = n}) IN  SubSeq(q, 1, i - 1) \o SubSeq(q, i + 1, Len(q))

\* beforeExpirePendingInterest of QosStrategy: a rejected Interest is no loss.
QosLoss(n) ==
  /\ qsStats' = IF TimesRejected(n) > 0 THEN qsStats
                ELSE Charged(n, LAMBDA s : StatsAfterLoss(s, qsEntry[n]))
  /\ qsRejected' = IF TimesRejected(n) > 0 THEN wasRejected(qsRejected, n) ELSE qsRejected
  /\ UNCHANGED qsMon

\* QosMitigation is connected twice, first with the base class's handler: a
\* single rejection is taken off by the first and counted by the second.
MitigationLoss(n) ==
  LET m == Watched(qsMon, QsFlow[n].one, Raised)
      isFound == m.total > 600 /\ Len(m.window) = QsWindow
      r1 == IF TimesRejected(n) > 0 THEN wasRejected(qsRejected, n) ELSE qsRejected
  IN  \/ /\ TimesRejected(n) > 1
         /\ qsRejected' = wasRejected(r1, n)
         /\ UNCHANGED <<qsStats, qsMon>>
      \/ /\ TimesRejected(n) <= 1
         /\ qsRejected' = r1
         /\ qsMon' = IF isFound THEN findSusFlow(m) ELSE m
         /\ qsStats' = Charged(n, LAMBDA s : StatsAfterLoss(s, qsEntry[n]))

\* onInterestFinalize: the entry is erased, and unless it was satisfied the
\* strategy hears of it.  Its Interests stay in the queues.
QsFinalize(n) ==
  /\ qsEntry[n].timer # 0
  /\ \/ /\ qsEntry[n].isSatisfied
        /\ UNCHANGED <<qsStats, qsMon, qsRejected>>
     \/ ~ qsEntry[n].isSatisfied /\ qsKind = "qos" /\ QosLoss(n)
     \/ ~ qsEntry[n].isSatisfied /\ qsKind = "qos-mit" /\ MitigationLoss(n)
  /\ qsEntry' = [qsEntry EXCEPT ![n] = NewEntry]
  /\ qsQueue' = [u \in QsHopSet |-> [l \in QsLevels |->
       [i \in DOMAIN qsQueue[u][l] |-> IF qsQueue[u][l][i] = n THEN QsGone ELSE qsQueue[u][l][i]]]]
  /\ qsRefused' = qsRefused \ {n}
  /\ UNCHANGED <<qsKind, qsType, qsNow, qsReceived, qsChoice>>

QsTick ==
  /\ qsNow < QsMaxTime /\ qsNow' = qsNow + 1
  /\ \A n \in QsNames : qsEntry[n].timer \notin 1..qsNow
  /\ UNCHANGED <<qsKind, qsType, qsEntry, qsQueue, qsStats, qsRejected, qsMon, qsReceived, qsRefused, qsChoice>>

QsNext ==
  \/ \E n \in QsNames : \/ \E f \in QsDownstreams : QsInterest(f, n)
                        \/ \E u \in QsHopSet : QsData(n, u)
                        \/ QsFinalize(n)
  \/ QsWake \/ QsTick

-----------------------------------------------------------------------------
\* The selection stops early only when it has reached what the priority
\* level requires by its own estimates; else it has asked every next hop it
\* may use, and it asks at least one if it can (afterReceiveInterest).
SelectionSuffices ==
  /\ qsChoice.met \/ qsChoice.hops = qsChoice.usable
  /\ qsChoice.hops \subseteq qsChoice.usable
  /\ qsChoice.usable # {} => qsChoice.hops # {}

\* An Interest that QosStrategy itself turned away is not held against the
\* next hops: the statistics do not change when an entry expires whose last
\* Interest was rejected, however many Interests of the name came before
\* (rejectedInterests, wasRejected).
RejectionIsNoLoss ==
  [][ \A n \in qsRefused : qsKind = "qos" /\ qsEntry[n].timer # 0 /\ qsEntry'[n].timer = 0
        => qsStats' = qsStats ]_qsVars

=============================================================================
