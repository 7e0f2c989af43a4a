---------------------------- MODULE ContentStore ----------------------------
(***************************************************************************)
(* The Content Store (table/cs*.cpp): a table of Data packets sorted by    *)
(* full name, the two replacement policies with their cleanup queues, the  *)
(* management commands on it (mgmt/cs-manager.cpp) and the part of the     *)
(* "tables" configuration that is about it (mgmt/tables-config-section.cpp)*)
(*                                                                         *)
(* A packet is its position in CsPackets, the packets in full-name order.  *)
(* Times are what is left of them: freshness 0 means the packet becomes    *)
(* stale at the next tick, -1 that it is stale; a timer at 0 is due.       *)
(***************************************************************************)
EXTENDS Integers, Sequences, FiniteSets, SequencesExt, FiniteSetsExt

CONSTANTS CsPackets,     \* sequence of [name, fresh, noCache]
          CsInterests,   \* set of [name, canBePrefix, mustBeFresh, rightmost]
          CsLimits,      \* capacities that may be configured
          CsEraseLimit   \* ERASE_LIMIT

VARIABLE cs    \* [table, admit, serve, limit, policy, lru, pf, timer]

Packet == DOMAIN CsPackets
NameOf(d) == CsPackets[d].name

\* packets under a prefix are neighbours in full-name order, exact names first
ASSUME CsOrder ==
    \A i, j, k \in Packet : \A p \in {NameOf(d) : d \in Packet} :
        /\ i < j /\ j < k /\ IsPrefix(p, NameOf(i)) /\ IsPrefix(p, NameOf(k)) => IsPrefix(p, NameOf(j))
        /\ i < j => ~(IsPrefix(NameOf(j), NameOf(i)) /\ NameOf(i) # NameOf(j))

----------------------------------------------------------------------------
(* Replacement policies. *)

Except(s, gone) == SelectSeq(s, LAMBDA d : d \notin gone)

EmptyQueues == [unsolicited |-> << >>, stale |-> << >>, fifo |-> << >>]
NoTimers == [d \in {} |-> 0]

\* LruPolicy::insertToQueue, for a new entry or one already there
insertToQueue(c, d) == [c EXCEPT !.lru = Append(Except(@, {d}), d)]

\* a queue's entries leave together with their timers
Detach(c, gone) ==
    [c EXCEPT !.lru = Except(@, gone),
              !.pf = [unsolicited |-> Except(@.unsolicited, gone), stale |-> Except(@.stale, gone),
                      fifo |-> Except(@.fifo, gone)],
              !.timer = [d \in DOMAIN @ \ gone |-> @[d]]]

detachQueue(c, d) == Detach(c, {d})

attachQueue(c, d) ==
    IF c.table[d].unsolicited THEN [c EXCEPT !.pf.unsolicited = Append(@, d)]
    ELSE IF c.table[d].left < 0 THEN [c EXCEPT !.pf.stale = Append(@, d)]
    ELSE [c EXCEPT !.pf.fifo = Append(@, d),
                   !.timer = [x \in DOMAIN @ \cup {d} |-> IF x = d THEN CsPackets[d].fresh ELSE @[x]]]

\* the order in which entries are evicted
CleanupOrder(c) == IF c.policy = "lru" THEN c.lru ELSE c.pf.unsolicited \o c.pf.stale \o c.pf.fifo

\* evictEntries: as many from the front as the table has too many
Excess(c) == IF Cardinality(DOMAIN c.table) > c.limit THEN Cardinality(DOMAIN c.table) - c.limit ELSE 0

Without(c, gone) == Detach([c EXCEPT !.table = [d \in DOMAIN @ \ gone |-> @[d]]], gone)
evictEntries(c) == Without(c, ToSet(SubSeq(CleanupOrder(c), 1, Excess(c))))

afterInsert(c, d) == evictEntries(IF c.policy = "lru" THEN insertToQueue(c, d) ELSE attachQueue(c, d))
\* mutant: a refreshed entry keeps its place and its timer
afterRefresh_KeepsTimer(c, d) == IF c.policy = "lru" THEN insertToQueue(c, d) ELSE c

afterRefresh(c, d) ==
    IF c.policy = "lru" THEN insertToQueue(c, d) ELSE attachQueue(detachQueue(c, d), d)
beforeErase(c, gone) == Detach(c, gone)
beforeUse(c, d) == IF c.policy = "lru" THEN insertToQueue(c, d) ELSE c
setLimit(c, n) == evictEntries([c EXCEPT !.limit = n])

----------------------------------------------------------------------------
(* Lookup. *)

canSatisfy(c, d, i) ==
    /\ IF i.canBePrefix THEN IsPrefix(i.name, NameOf(d)) ELSE i.name = NameOf(d)
    /\ i.mustBeFresh => c.table[d].left >= 0

\* [first, last) of the table: what lies under the name
Under(c, name) == {d \in DOMAIN c.table : IsPrefix(name, NameOf(d))}

\* the leftmost match of a range, 0 for none
findLeftmost(c, i, range) ==
    LET m == {d \in range : canSatisfy(c, d, i)} IN IF m = {} THEN 0 ELSE Min(m)

findRightmostAmongExact(c, i, range) ==
    LET m == {d \in range : canSatisfy(c, d, i)} IN IF m = {} THEN 0 ELSE Max(m)

\* one child of the Interest name after the other from the right; the first
\* child with a match gives its leftmost one
findRightmost(c, i, range) ==
    LET last == Len(CsPackets) + 1
        from[right \in 1..last] ==
          LET rest == {d \in range : d < right}
              prev == Max(rest)
              child == {d \in rest : IsPrefix(SubSeq(NameOf(prev), 1, Len(i.name) + 1), NameOf(d))}
              match == findLeftmost(c, i, child)
          IN  IF rest = {} THEN 0
              ELSE IF Len(NameOf(prev)) = Len(i.name) THEN findRightmostAmongExact(c, i, rest)
              ELSE IF match # 0 THEN match
              ELSE from[Min(child)]
    IN  from[last]

FindMatch(c, i) ==
    IF i.rightmost THEN findRightmost(c, i, Under(c, i.name)) ELSE findLeftmost(c, i, Under(c, i.name))

----------------------------------------------------------------------------
(* Operations. *)

\* Forwarder's onIncomingData (solicited) and onDataUnsolicited; a packet that
\* is not admitted changes nothing
Insert(d, unsolicited) ==
    /\ cs.admit /\ cs.limit # 0 /\ ~CsPackets[d].noCache
    /\ LET isNew == d \notin DOMAIN cs.table
           entry == [unsolicited |-> IF isNew THEN unsolicited ELSE cs.table[d].unsolicited /\ unsolicited,
                     left |-> CsPackets[d].fresh]
           c == [cs EXCEPT !.table = [x \in DOMAIN @ \cup {d} |-> IF x = d THEN entry ELSE @[x]]]
       IN  cs' = IF isNew THEN afterInsert(c, d) ELSE afterRefresh(c, d)

\* the reply of a lookup: the packet found, 0 for a miss
Found(c, i) == IF c.serve /\ c.limit # 0 THEN FindMatch(c, i) ELSE 0
AfterFind(c, i) == IF Found(c, i) = 0 THEN c ELSE beforeUse(c, Found(c, i))

Find(i) == cs' = AfterFind(cs, i)

\* CsManager::erase: at most CsEraseLimit packets; when the limit was reached
\* a lookup tells the requester whether to ask again
Erased(name, n) == {d \in Under(cs, name) : Cardinality({x \in Under(cs, name) : x < d}) < n}

Erase(name, count) ==
    LET n == IF count < CsEraseLimit THEN count ELSE CsEraseLimit
        gone == Erased(name, n)
        c == [beforeErase(cs, gone) EXCEPT !.table = [d \in DOMAIN @ \ gone |-> @[d]]]
        i == [name |-> name, canBePrefix |-> TRUE, mustBeFresh |-> FALSE, rightmost |-> FALSE]
        asks == Cardinality(gone) = CsEraseLimit /\ count > CsEraseLimit
    IN  cs' = IF asks THEN AfterFind(c, i) ELSE c

\* CsManager::changeConfig
ChangeConfig(limit, admit, serve) ==
    cs' = [setLimit(cs, limit) EXCEPT !.admit = admit, !.serve = serve]

\* TablesConfigSection::processConfig: the policy is only replaced while the
\* table is empty
setPolicy(c, p) == [c EXCEPT !.policy = p, !.lru = << >>, !.pf = EmptyQueues, !.timer = NoTimers]

ConfigureTables(limit, p) ==
    LET c == setLimit(cs, limit)
    IN  cs' = IF DOMAIN c.table = {} THEN setPolicy(c, p) ELSE c

MoveToStaleQueue(d) ==
    /\ d \in DOMAIN cs.timer /\ cs.timer[d] = 0
    /\ cs' = [cs EXCEPT !.pf.fifo = Except(@, {d}), !.pf.stale = Append(@, d),
                        !.timer = [x \in DOMAIN @ \ {d} |-> @[x]]]

\* time passes; an event is not run before its time nor put off
CsTick ==
    /\ \A d \in DOMAIN cs.timer : cs.timer[d] > 0
    /\ cs' = [cs EXCEPT !.table = [d \in DOMAIN @ |-> [@[d] EXCEPT !.left = IF @ < 0 THEN -1 ELSE @ - 1]],
                        !.timer = [d \in DOMAIN @ |-> @[d] - 1]]

CsInit ==
    cs = [table |-> [d \in {} |-> 0], admit |-> TRUE, serve |-> TRUE, limit |-> Max(CsLimits),
          policy |-> "lru", lru |-> << >>, pf |-> EmptyQueues, timer |-> NoTimers]

CsNext ==
    \/ \E d \in Packet, u \in BOOLEAN : Insert(d, u)
    \/ \E i \in CsInterests : Find(i)
    \/ \E i \in CsInterests, n \in 1..CsEraseLimit + 1 : Erase(i.name, n)
    \/ \E n \in CsLimits, a, s \in BOOLEAN : ChangeConfig(n, a, s)
    \/ \E n \in CsLimits, p \in {"lru", "priority_fifo"} : ConfigureTables(n, p)
    \/ \E d \in Packet : MoveToStaleQueue(d)
    \/ CsTick

----------------------------------------------------------------------------
(* Properties. *)

\* The cleanup queues hold exactly the entries of the table, each once, and
\* only fresh solicited entries of priority_fifo have a timer
\* (cs-policy-priority-fifo.hpp:62, "in exactly one queue at any moment"):
\* after any order of inserts, refreshes, evictions, erasures, expirations and
\* changes of policy.  An entry outside the queues could never be evicted; an
\* iterator without its entry would be used after it was freed.  The stale
\* queue holds packets whose freshness has run out and the fifo queue those
\* where it has not (cs-policy-priority-fifo.cpp:113-117), and there are no
\* more packets than the capacity, also after it was lowered (cs-policy.hpp,
\* \post cs.size() <= getLimit()).
CleanupQueueExact ==
    LET q == CleanupOrder(cs)
    IN  /\ ToSet(q) = DOMAIN cs.table /\ Len(q) = Cardinality(DOMAIN cs.table)
        /\ Len(q) <= cs.limit
        /\ DOMAIN cs.timer = ToSet(cs.pf.fifo)
        /\ \A d \in DOMAIN cs.timer : cs.timer[d] = cs.table[d].left
        /\ \A d \in ToSet(cs.pf.stale) : cs.table[d].left <= 0

=============================================================================
