---------------------------- MODULE PolicedLanes ----------------------------
(***************************************************************************)
(* What the transmit side of the QoS strategy promises, without its        *)
(* scheduling: every face has a bounded FIFO lane per priority level, a    *)
(* packet offered to a set of faces joins the lanes that have room, and    *)
(* only the head of a lane leaves, against one credit of that level and    *)
(* face.  Credits never exceed the level's capacity.                       *)
(***************************************************************************)
EXTENDS Integers, Sequences

CONSTANTS Face, Level, Packet, Capacity, QueueSize

VARIABLES lanes, credit

Init ==
  /\ lanes = [f \in Face |-> [l \in Level |-> <<>>]]
  /\ credit = [l \in Level |-> [f \in Face |-> Capacity[l]]]

Offer(p, l, out) ==
  /\ lanes' = [f \in Face |->
                 IF f \in out /\ Len(lanes[f][l]) < QueueSize
                   THEN [lanes[f] EXCEPT ![l] = Append(@, p)] ELSE lanes[f]]
  /\ UNCHANGED credit

Emit(f, l) ==
  /\ lanes[f][l] # <<>> /\ credit[l][f] > 0
  /\ lanes' = [lanes EXCEPT ![f][l] = Tail(@)]
  /\ credit' = [credit EXCEPT ![l][f] = @ - 1]

Refill(l, R) ==
  /\ \A f \in R : credit[l][f] < Capacity[l]
  /\ credit' = [credit EXCEPT ![l] = [f \in Face |->
                  IF f \in R THEN credit[l][f] + 1 ELSE credit[l][f]]]
  /\ UNCHANGED lanes

Next ==
  \/ \E p \in Packet, l \in Level, out \in SUBSET Face : Offer(p, l, out)
  \/ \E f \in Face, l \in Level : Emit(f, l)
  \/ \E l \in Level, R \in SUBSET Face : Refill(l, R)

Spec == Init /\ [][Next]_<<lanes, credit>>
=============================================================================
