--------------------------- MODULE DeadNonceList ----------------------------
(***************************************************************************)
(* The Dead Nonce List (table/dead-nonce-list.cpp): an index of hashed     *)
(* nonces in the order of their arrival, whose capacity adapts itself so   *)
(* that an entry stays for about one lifetime.  A MARK enters the index at *)
(* every mark interval; how many MARKs the index holds tells how long ago  *)
(* its oldest entry arrived.  The daemon's traffic is a rate, entries per  *)
(* mark interval, that may change at every MARK.                           *)
(***************************************************************************)
EXTENDS Integers, Sequences

CONSTANTS MinCapacity, InitialCapacity, MaxCapacity, ExpectedMarkCount, EvictLimit,
          UpNum, UpDen,       \* CAPACITY_UP as a fraction
          DownNum, DownDen,   \* CAPACITY_DOWN
          DnlRates            \* entries added in one mark interval

\* the static_asserts of ~DeadNonceList, and an EVICT_LIMIT above the number
\* of MARKs that arrive between two adjustments (64 and 5 in the code)
ASSUME DnlAssumption ==
    /\ MinCapacity <= InitialCapacity /\ InitialCapacity <= MaxCapacity
    /\ (MinCapacity * UpNum) \div UpDen > MinCapacity
    /\ (MaxCapacity * DownNum) \div DownDen < MaxCapacity
    /\ EvictLimit > ExpectedMarkCount

VARIABLES dnl,      \* [queue, capacity, counts, adjustIn]: m_queue, m_capacity, m_actualMarkCounts
          dnlRate,  \* the daemon's traffic
          dnlDue    \* entries still to come in this mark interval

dnlVars == <<dnl, dnlRate, dnlDue>>

countMarks(q) == Len(SelectSeq(q, LAMBDA e : e = "MARK"))

\* evictEntries: the oldest, at most EvictLimit of them
EvictFrom(q, capacity) ==
    LET over == Len(q) - capacity
        n == IF over < EvictLimit THEN over ELSE EvictLimit
    IN  IF over <= 0 THEN q ELSE SubSeq(q, n + 1, Len(q))

\* the constructor fills in the expected MARKs
DnlStart == [queue |-> [i \in 1..ExpectedMarkCount |-> "MARK"], capacity |-> InitialCapacity,
             counts |-> {}, adjustIn |-> ExpectedMarkCount]

\* add
DnlAdd ==
    /\ dnlDue > 0 /\ dnlDue' = dnlDue - 1
    /\ dnl' = [dnl EXCEPT !.queue = EvictFrom(Append(@, "entry"), dnl.capacity)]
    /\ UNCHANGED dnlRate

\* mark: the timer fires at every mark interval
DnlMark ==
    LET q == Append(dnl.queue, "MARK")
    IN  /\ dnlDue = 0 /\ dnl.adjustIn > 0
        /\ dnl' = [dnl EXCEPT !.queue = q, !.counts = @ \cup {countMarks(q)}, !.adjustIn = @ - 1]
        /\ dnlRate' \in DnlRates /\ dnlDue' = dnlRate'

\* mutant: down where it should be up
Adjusted_Swapped(c, counts) ==
    LET down == (c * DownNum) \div DownDen
        up == (c * UpNum) \div UpDen
    IN  IF \A n \in counts : n < ExpectedMarkCount THEN IF down > MinCapacity THEN down ELSE MinCapacity
        ELSE IF \A n \in counts : n > ExpectedMarkCount THEN IF up < MaxCapacity THEN up ELSE MaxCapacity
        ELSE c

Adjusted(c, counts) ==
    LET down == (c * DownNum) \div DownDen
        up == (c * UpNum) \div UpDen
    IN  IF \A n \in counts : n > ExpectedMarkCount THEN IF down > MinCapacity THEN down ELSE MinCapacity
        ELSE IF \A n \in counts : n < ExpectedMarkCount THEN IF up < MaxCapacity THEN up ELSE MaxCapacity
        ELSE c

\* adjustCapacity: the timer fires once per lifetime, between two MARKs
DnlAdjustCapacity ==
    /\ dnl.adjustIn = 0
    /\ LET c == Adjusted(dnl.capacity, dnl.counts)
       IN  dnl' = [queue |-> EvictFrom(dnl.queue, c), capacity |-> c, counts |-> {},
                   adjustIn |-> ExpectedMarkCount]
    /\ UNCHANGED <<dnlRate, dnlDue>>

DnlNext == DnlAdd \/ DnlMark \/ DnlAdjustCapacity

----------------------------------------------------------------------------
(* Properties. *)

\* Under traffic that stays at one rate the capacity settles where an entry is
\* kept for its lifetime (dead-nonce-list.hpp:138-139): from some time on the
\* index spans at least ExpectedMarkCount - 1 whole mark intervals, unless the
\* maximum capacity does not allow it.
DnlSettles ==
    \A r \in DnlRates :
        <>[](dnlRate = r) =>
            <>[](countMarks(dnl.queue) >= ExpectedMarkCount - 1 \/ dnl.capacity = MaxCapacity)
=============================================================================
