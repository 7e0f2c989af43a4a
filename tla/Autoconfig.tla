----------------------------- MODULE Autoconfig -----------------------------
(***************************************************************************)
(* ndn-autoconfig (tools/ndn-autoconfig): the procedure that looks for a   *)
(* hub, stage by stage, and connects to it, and the daemon that runs it    *)
(* again every hour and after a network change.                            *)
(*                                                                         *)
(* The first stage, MulticastDiscovery, waits for NFD and the network; the *)
(* other three work synchronously inside the failure signal of the stage   *)
(* before and are one step.  Every command is answered or times out in the *)
(* controller, which is a failure like any other.  Time is not counted:    *)
(* the commands of the stage may each take 10 s and the Interest 4 s, the  *)
(* daemon's dampening period is 5 s.                                       *)
(***************************************************************************)
EXTENDS Naturals, Sequences, FiniteSets, Bags

CONSTANTS AuMaxMulticast,   \* most multi-access faces NFD lists
          AuMaxConnects     \* bound on concurrent connects (model checking)

VARIABLES auMode,      \* "daemon" or "once"
          auStage,     \* where MulticastDiscovery is; "idle": not m_isInProgress
          auRegs,      \* m_nRegs, m_nRegSuccess, m_nRegFailure and what is unanswered
          auConnects,  \* bag of connect calls: "canonize", "create" or the index of a prefix
          auTimer,     \* runEvt: "none", "initial", "dampen" or "hour"
          auOutcomes,  \* onComplete signals since the last start, up to 2 (history)
          auEnd        \* "no", "signal" or "error": how the process ended

auVars == <<auMode, auStage, auRegs, auConnects, auTimer, auOutcomes, auEnd>>

NoRegs == [n |-> 0, success |-> 0, failure |-> 0, open |-> 0]

AuInit ==
  /\ auMode \in {"daemon", "once"}
  /\ auStage = IF auMode = "daemon" THEN "idle" ELSE "query"
  /\ auTimer = IF auMode = "daemon" THEN "initial" ELSE "none"
  /\ auRegs = NoRegs /\ auConnects = EmptyBag /\ auOutcomes = 0 /\ auEnd = "no"

AuAlive == auEnd = "no"

\* The onComplete signal; the daemon's slot schedules the hourly run, and
\* the ScopedEventId cancels whatever run was scheduled before.
onComplete ==
  /\ auOutcomes' = IF auOutcomes < 2 THEN auOutcomes + 1 ELSE 2
  /\ auTimer' = IF auMode = "daemon" THEN "hour" ELSE auTimer

NoOutcome == UNCHANGED <<auOutcomes, auTimer>>

-----------------------------------------------------------------------------
(* Stage::succeed, Stage::fail.                                            *)

Succeeds ==
  /\ auStage' = "idle"
  /\ auConnects' = auConnects (+) SetToBag({"canonize"})
  /\ NoOutcome /\ UNCHANGED auEnd

\* The next stages run one after the other until one finds a hub.  The
\* last one throws when there is no default identity.
Fails ==
  \/ Succeeds
  \/ auStage' = "idle" /\ onComplete /\ UNCHANGED <<auConnects, auEnd>>
  \/ auEnd' = "error" /\ NoOutcome /\ UNCHANGED <<auStage, auConnects>>

Goes(stage) == auStage' = stage /\ NoOutcome /\ UNCHANGED <<auConnects, auEnd>>

\* doStart's fetch is answered: registerHubDiscoveryPrefix.
QueryAnswered ==
  /\ AuAlive /\ auStage = "query"
  /\ \/ Fails /\ UNCHANGED auRegs
     \/ \E n \in 1..AuMaxMulticast :
          /\ auRegs' = [n |-> n, success |-> 0, failure |-> 0, open |-> n]
          /\ Goes("reg")
  /\ UNCHANGED auMode

afterReg(regs) ==
  IF regs.success + regs.failure < regs.n THEN Goes("reg")
  ELSE IF regs.success > 0 THEN Goes("strategy")
  ELSE Fails

\* One registration is answered.
RegAnswered ==
  /\ AuAlive /\ auStage = "reg" /\ auRegs.open > 0
  /\ \/ auRegs' = [auRegs EXCEPT !.open = @ - 1, !.success = @ + 1]
     \/ auRegs' = [auRegs EXCEPT !.open = @ - 1, !.failure = @ + 1]
  /\ afterReg(auRegs')
  /\ UNCHANGED auMode

setStrategyAnswered ==
  /\ AuAlive /\ auStage = "strategy"
  /\ Goes("hub") \/ Fails
  /\ UNCHANGED <<auMode, auRegs>>

\* Data with a URI; or malformed Data, a Nack, a timeout.
requestHubDataAnswered ==
  /\ AuAlive /\ auStage = "hub"
  /\ Succeeds \/ Fails
  /\ UNCHANGED <<auMode, auRegs>>

-----------------------------------------------------------------------------
(* Procedure.                                                              *)

\* The steps of connect: canonize the URI, create the face (409 counts as
\* success), register the prefixes one after the other.
NextStep(s) == CASE s = "canonize" -> "create" [] s = "create" -> "1" [] s = "1" -> "2"
IsLastStep(s) == s = "2"     \* HUB_PREFIXES has two

ConnectAnswered_QuietFailure(s) ==
  /\ AuAlive /\ BagIn(s, auConnects)
  /\ LET rest == auConnects (-) SetToBag({s})
     IN  \/ ~ IsLastStep(s) /\ auConnects' = rest (+) SetToBag({NextStep(s)}) /\ NoOutcome
         \/ IsLastStep(s) /\ auConnects' = rest /\ onComplete
         \/ auConnects' = rest /\ NoOutcome
  /\ UNCHANGED <<auMode, auStage, auRegs, auEnd>>

ConnectAnswered(s) ==
  /\ AuAlive /\ BagIn(s, auConnects)
  /\ LET rest == auConnects (-) SetToBag({s})
     IN  \/ ~ IsLastStep(s) /\ auConnects' = rest (+) SetToBag({NextStep(s)}) /\ NoOutcome
         \/ auConnects' = rest /\ onComplete
  /\ UNCHANGED <<auMode, auStage, auRegs, auEnd>>

\* The timer fires: runOnce starts the first stage, which throws when it is
\* still in progress; nothing catches it before main.
runOnce ==
  /\ AuAlive /\ auTimer # "none" /\ auTimer' = "none"
  /\ BagCardinality(auConnects) < AuMaxConnects
  /\ \/ auStage = "idle" /\ auStage' = "query" /\ auOutcomes' = 0 /\ UNCHANGED auEnd
     \/ auStage # "idle" /\ auEnd' = "error" /\ UNCHANGED <<auStage, auOutcomes>>
  /\ UNCHANGED <<auMode, auRegs, auConnects>>

NetworkChange ==
  /\ AuAlive /\ auMode = "daemon" /\ auTimer' = "dampen"
  /\ UNCHANGED <<auMode, auStage, auRegs, auConnects, auOutcomes, auEnd>>

TerminateSignal ==
  /\ AuAlive /\ auMode = "daemon" /\ auEnd' = "signal"
  /\ UNCHANGED <<auMode, auStage, auRegs, auConnects, auTimer, auOutcomes>>

AuAnswer ==
  \/ QueryAnswered \/ RegAnswered \/ setStrategyAnswered \/ requestHubDataAnswered
  \/ \E s \in DOMAIN auConnects : ConnectAnswered(s)

AuNext == AuAnswer \/ runOnce \/ NetworkChange \/ TerminateSignal

-----------------------------------------------------------------------------
\* The daemon never falls asleep for good, whichever command fails and
\* however runs overlap: while it lives a run is scheduled or one is in
\* progress.  Without --daemon the procedure has exactly one outcome when
\* nothing is in progress any more (Procedure::connect, registerPrefixes,
\* runDaemon).
NeverAsleep ==
  AuAlive /\ auStage = "idle" /\ auConnects = EmptyBag =>
    IF auMode = "daemon" THEN auTimer # "none" ELSE auOutcomes = 1

=============================================================================
