-------------------------- MODULE QosTransmitProps --------------------------
(***************************************************************************)
(* What the transmit side of the QoS strategy guarantees.  The properties  *)
(* about the past use three history variables, which the actions of        *)
(* QosTransmit do not read.                                                *)
(***************************************************************************)
EXTENDS QosTransmit

CONSTANT MaxRefills   \* bound on the driver's ticks (model checking)

ASSUME RefillsAssumption == MaxRefills \in Nat

VARIABLES refills,   \* addToken calls so far, per level
          spent,     \* packets sent so far, per level and face
          stalled    \* faces whose last visit ended at the device limit

histVars == <<vars, refills, spent, stalled>>

HistInit ==
  /\ Init
  /\ refills = [l \in Level |-> 0]
  /\ spent = [l \in Level |-> [f \in Face |-> 0]]
  /\ stalled = {}

HistTick(l) ==
  /\ DriverTick(l) /\ refills[l] < MaxRefills
  /\ refills' = [refills EXCEPT ![l] = @ + 1]
  /\ UNCHANGED <<spent, stalled>>

HistSend ==
  /\ SendOne
  /\ spent' = [spent EXCEPT ![Choice][cur] = @ + 1]
  /\ UNCHANGED <<refills, stalled>>

HistLeave ==
  /\ LeaveFace
  /\ stalled' = IF IsEmpty(txq[cur]) \/ tokenwait THEN stalled \ {cur}
                                                  ELSE stalled \cup {cur}
  /\ UNCHANGED <<refills, spent>>

HistOther ==
  /\ \/ \E p \in Packet, l \in Level, out \in SUBSET Face :
          AfterReceiveInterest(p, l, out) \/ AfterReceiveData(p, l, out)
     \/ \E f \in Face : DeviceDrain(f) \/ VisitFace(f)
     \/ Tick \/ WaitForTokens \/ EndPass
  /\ UNCHANGED <<refills, spent, stalled>>

HistNext == (\E l \in Level : HistTick(l)) \/ HistSend \/ HistLeave \/ HistOther

HistSpec == HistInit /\ [][HistNext]_histVars

(* prioritySend polices every face and level: the packets it ever sent fit  *)
(* in one full bucket plus the addToken calls made so far, less what is     *)
(* still in the bucket.                                                     *)
TokenConformance ==
  \A l \in Level, f \in Face :
    spent[l][f] + bucket[l].tokens[f] <= Capacity[l] + refills[l]

(* m_need asks for a wake-up only while the level has a packet to send, so  *)
(* addToken never raises send() for a face that has nothing left there.     *)
NeedMeansBacklog ==
  \A l \in Level, f \in Face : bucket[l].need[f] = 1 => txq[f].items[l] # <<>>

Waiting(f) ==
  /\ ~IsEmpty(txq[f])
  /\ \A l \in Level : txq[f].items[l] # <<>> =>
       bucket[l].need[f] = 1 /\ bucket[l].tokens[f] = 0

(* Between handlers a backlog is never forgotten silently: either some face *)
(* waits with all its backlogged levels registered for a wake-up and really *)
(* out of tokens, or every backlogged face was left at the device limit.    *)
WakeupOrStall ==
  Idle => IF tokenwait THEN \E f \in Face : Waiting(f)
                       ELSE Backlogged(txq) \subseteq stalled

(* The strengthening of WakeupOrStall that also holds inside a handler:     *)
(* as long as the current call has met no waiting face, every backlogged    *)
(* face is still to be visited, being served, or was left at the limit.     *)
ServiceInv ==
  /\ Idle => cur = NoFace /\ todo = {}
  /\ IF tokenwait THEN \E f \in Face : Waiting(f)
                  ELSE Backlogged(txq) \subseteq todo \cup {cur} \cup stalled

Lanes == INSTANCE PolicedLanes WITH
           lanes <- [f \in Face |-> txq[f].items],
           credit <- [l \in Level |-> bucket[l].tokens]

(* The transmit side implements bounded FIFO lanes policed by credits:      *)
(* nothing is reordered, duplicated or lost within a level of a face, and   *)
(* nothing leaves without a token.                                          *)
ImplementsPolicedLanes == Lanes!Spec
=============================================================================
