--------------------------- MODULE NameTreeTables ---------------------------
(***************************************************************************)
(* The tables that live on the NameTree: FIB (table/fib*.cpp, written by   *)
(* mgmt/fib-manager.cpp), the strategy choice (table/strategy-choice.cpp,  *)
(* set by mgmt/strategy-choice-manager.cpp and the configuration), the     *)
(* measurements (table/measurements*.cpp) with their timers, the PIT as a  *)
(* user of the tree, the StrategyInfo strategies keep on entries           *)
(* (table/strategy-info-host.hpp), and the cleanup after a face is gone    *)
(* (table/cleanup.cpp).                                                    *)
(* A strategy instance name is [type, version]: instances of one type have *)
(* StrategyInfo in common.  A name may end with the component NtDigest.    *)
(***************************************************************************)
EXTENDS NameTree

CONSTANTS NtFaces, NtDigest,
          MeasInitial,      \* getInitialLifetime()
          NtDefault         \* the default strategy instance

VARIABLES nt,      \* the NameTree
          fibAt,     \* FIB: prefix -> faces with a next hop
          pitAt,   \* PIT entries: Interest name -> the StrategyInfo types on it
          meas,    \* measurements: name -> [left, info]
          sc       \* strategy choice: prefix -> strategy instance

ntVars == <<nt, fibAt, pitAt, meas, sc>>

Dropping(f, n) == [x \in DOMAIN f \ {n} |-> f[x]]
Having(f, n, v) == [x \in DOMAIN f \cup {n} |-> IF x = n THEN v ELSE f[x]]
Nothing == [n \in {} |-> {}]

\* Pit::findOrInsert: the digest and what exceeds the depth limit stay out of the tree
PitNode(name) ==
    LET plain == IF name # << >> /\ Last(name) = NtDigest THEN Front(name) ELSE name
    IN  PrefixOf(plain, IF Len(plain) < NtMaxDepth THEN Len(plain) ELSE NtMaxDepth)

\* hasTableEntries, for all names at once
Used(f, p, m, s) == DOMAIN f \cup {PitNode(n) : n \in DOMAIN p} \cup DOMAIN m \cup DOMAIN s

NtInit ==
    /\ nt = lookup(NtEmpty, << >>)
    /\ fibAt = Nothing /\ pitAt = Nothing /\ meas = Nothing
    /\ sc = Having(Nothing, << >>, NtDefault)

----------------------------------------------------------------------------
(* FIB. *)

\* Fib::insert, Entry::addOrUpdateNextHop (costs are left out)
FibInsert(f, name) == IF name \in DOMAIN f THEN f ELSE Having(f, name, {})
addOrUpdateNextHop(f, name, face) == [f EXCEPT ![name] = @ \cup {face}]

\* Entry::removeNextHop and removeNextHopByFace; Fib::eraseIfEmpty
removeNextHop(f, name, face) == [f EXCEPT ![name] = @ \ {face}]
FibEraseIfEmpty(f, name) == IF f[name] = {} THEN Dropping(f, name) ELSE f

\* FibManager::addNextHop
FibAddNextHop(name, face) ==
    /\ Len(name) <= NtMaxDepth
    /\ nt' = lookup(nt, name)
    /\ fibAt' = addOrUpdateNextHop(FibInsert(fibAt, name), name, face)
    /\ UNCHANGED <<pitAt, meas, sc>>

\* FibManager::removeNextHop: the entry is erased with its last next hop
FibRemoveNextHop(name, face) ==
    /\ findExactMatch(nt, name) # NtAbsent /\ name \in DOMAIN fibAt
    /\ fibAt' = FibEraseIfEmpty(removeNextHop(fibAt, name, face), name)
    /\ nt' = IF name \in DOMAIN fibAt' THEN nt
             ELSE eraseIfEmpty(nt, name, Used(fibAt', pitAt, meas, sc), TRUE)
    /\ UNCHANGED <<pitAt, meas, sc>>

\* mutant: shorter names are tried first
CleanupOnFaceRemoval_ShortestFirst(face) ==
    LET f == [n \in {x \in DOMAIN fibAt : fibAt[x] \ {face} # {}} |-> fibAt[n] \ {face}]
        used == Used(f, pitAt, meas, sc)
        maybeEmpty == SetToSortSeq(DOMAIN nt.child \ used, LAMBDA x, y : Len(x) < Len(y))
    IN  /\ fibAt' = f
        /\ nt' = FoldLeft(LAMBDA t, n : eraseIfEmpty(t, n, used, FALSE), nt, maybeEmpty)
        /\ UNCHANGED <<pitAt, meas, sc>>

\* cleanupOnFaceRemoval: one pass over the tree takes the face out of FIB (and
\* the records out of PIT entries, which stay), then nodes without table
\* entries are erased, longer names first
CleanupOnFaceRemoval(face) ==
    LET visited == ToSet(fullEnumerate(nt, DOMAIN nt.child))
        without(g, n) == IF n \in DOMAIN g THEN FibEraseIfEmpty(removeNextHop(g, n, face), n) ELSE g
        f == FoldLeft(without, fibAt, fullEnumerate(nt, DOMAIN nt.child))
        used == Used(f, pitAt, meas, sc)
        maybeEmpty == SetToSortSeq(visited \ used, LAMBDA x, y : Len(x) > Len(y))
    IN  /\ fibAt' = f
        /\ nt' = FoldLeft(LAMBDA t, n : eraseIfEmpty(t, n, used, FALSE), nt, maybeEmpty)
        /\ UNCHANGED <<pitAt, meas, sc>>

----------------------------------------------------------------------------
(* Strategies. *)

findEffectiveStrategy(t, s, name) == s[LpmByName(t, name, DOMAIN s)]
EffectiveOnPit(t, s, name) == s[LpmByPitEntry(t, PitNode(name), name, DOMAIN s)]

\* mutant: the choice's own entry is skipped as if it were another choice
Covered_NotSelf(t, s, prefix) ==
    ToSet(partialEnumerate(t, prefix, DOMAIN t.child \ DOMAIN s, (DOMAIN t.child \ DOMAIN s) \cup {prefix}))

\* changeStrategy: StrategyInfo is cleared in the part of the tree the choice
\* covers, unless the strategies are of one type
Covered(t, s, prefix) ==
    LET own == DOMAIN s \ {prefix}
    IN  ToSet(partialEnumerate(t, prefix, DOMAIN t.child \ own, DOMAIN t.child \ own))

ChangeStrategy(t, s, prefix, old, new) ==
    LET gone == IF old.type = new.type THEN {} ELSE Covered(t, s, prefix)
    IN  /\ pitAt' = [n \in DOMAIN pitAt |-> IF PitNode(n) \in gone THEN {} ELSE pitAt[n]]
        /\ meas' = [n \in DOMAIN meas |-> IF n \in gone THEN [meas[n] EXCEPT !.info = {}] ELSE meas[n]]

\* StrategyChoice::insert, also for every choice of the configuration
ScInsert(prefix, instance) ==
    LET t == lookup(nt, prefix)
        isNew == prefix \notin DOMAIN sc
        old == IF isNew THEN findEffectiveStrategy(t, sc, prefix) ELSE sc[prefix]
    IN  /\ Len(prefix) <= NtMaxDepth
        /\ nt' = t
        /\ IF ~isNew /\ sc[prefix] = instance THEN UNCHANGED <<pitAt, meas, sc>>
           ELSE /\ ChangeStrategy(t, Having(sc, prefix, instance), prefix, old, instance)
                /\ sc' = Having(sc, prefix, instance)
        /\ UNCHANGED fibAt

\* StrategyChoice::erase
ScErase(prefix) ==
    /\ prefix # << >> /\ findExactMatch(nt, prefix) # NtAbsent /\ prefix \in DOMAIN sc
    /\ ChangeStrategy(nt, sc, prefix, sc[prefix], findEffectiveStrategy(nt, sc, Front(prefix)))
    /\ sc' = Dropping(sc, prefix)
    /\ nt' = eraseIfEmpty(nt, prefix, Used(fibAt, pitAt, meas, sc'), TRUE)
    /\ UNCHANGED fibAt

----------------------------------------------------------------------------
(* PIT and measurements, as the forwarder and a strategy use them. *)

PitInsert(name) ==
    /\ name \notin DOMAIN pitAt
    /\ nt' = lookup(nt, PitNode(name))
    /\ pitAt' = Having(pitAt, name, {})
    /\ UNCHANGED <<fibAt, meas, sc>>

PitErase(name) ==
    /\ name \in DOMAIN pitAt
    /\ pitAt' = Dropping(pitAt, name)
    /\ nt' = eraseIfEmpty(nt, PitNode(name), Used(fibAt, pitAt', meas, sc), TRUE)
    /\ UNCHANGED <<fibAt, meas, sc>>

\* the effective strategy of a PIT entry keeps StrategyInfo on it
PitStrategyInfo(name) ==
    /\ name \in DOMAIN pitAt
    /\ pitAt' = [pitAt EXCEPT ![name] = @ \cup {EffectiveOnPit(nt, sc, name).type}]
    /\ UNCHANGED <<nt, fibAt, meas, sc>>

\* MeasurementsAccessor::get on a PIT entry by its effective strategy: lookup(pitEntry) goes as deep as a
\* digest; the strategy gets the entry only if it is effective there, and then
\* keeps StrategyInfo on it
MeasuredAt(name) == IF Len(name) <= NtMaxDepth THEN name ELSE PitNode(name)

MeasGet(name) ==
    LET n == MeasuredAt(name)
        t == lookup(nt, n)
        who == EffectiveOnPit(nt, sc, name)
        old == IF n \in DOMAIN meas THEN meas[n] ELSE [left |-> MeasInitial, info |-> {}]
        mine == findEffectiveStrategy(t, sc, n) = who
    IN  /\ name \in DOMAIN pitAt
        /\ nt' = t
        /\ meas' = Having(meas, n, IF mine THEN [old EXCEPT !.info = @ \cup {who.type}] ELSE old)
        /\ UNCHANGED <<fibAt, pitAt, sc>>

\* getParent: also a parent without measurements gets an entry
MeasGetParent(name) ==
    /\ name \in DOMAIN meas /\ name # << >>
    /\ Front(name) \notin DOMAIN meas
    /\ meas' = Having(meas, Front(name), [left |-> MeasInitial, info |-> {}])
    /\ UNCHANGED <<nt, fibAt, pitAt, sc>>

\* extendLifetime: the cleanup is put off, never brought forward
MeasExtend(name, lifetime) ==
    /\ name \in DOMAIN meas /\ meas[name].left < lifetime
    /\ meas' = [meas EXCEPT ![name].left = lifetime]
    /\ UNCHANGED <<nt, fibAt, pitAt, sc>>

MeasCleanup(name) ==
    /\ name \in DOMAIN meas /\ meas[name].left = 0
    /\ meas' = Dropping(meas, name)
    /\ nt' = eraseIfEmpty(nt, name, Used(fibAt, pitAt, meas', sc), TRUE)
    /\ UNCHANGED <<fibAt, pitAt, sc>>

NtTick ==
    /\ DOMAIN meas # {} /\ \A n \in DOMAIN meas : meas[n].left > 0
    /\ meas' = [n \in DOMAIN meas |-> [meas[n] EXCEPT !.left = @ - 1]]
    /\ UNCHANGED <<nt, fibAt, pitAt, sc>>

----------------------------------------------------------------------------
(* Properties. *)

\* The hash table and the tree describe the same entries: every node sits once,
\* in the chain of its hash, every prefix of a node is a node and its m_children
\* are exactly the nodes one component longer, and the load is within the
\* thresholds.  Growing and shrinking re-hash while names with equal hashes
\* share chains (name-tree-hashtable.cpp:172-181, 248-267).  No node is empty
\* between operations (cleanup.cpp:57, asserted there): no order of insertions,
\* erasures, expired measurements and removed faces leaks one.  And no table
\* entry is without its node.
NameTreeExact ==
    /\ \A b \in DOMAIN nt.buckets : IsInjective(nt.buckets[b])
    /\ \A b \in DOMAIN nt.buckets, n \in DOMAIN nt.child : n \in ToSet(nt.buckets[b]) <=> b = BucketOf(nt, n)
    /\ ToSet(Chained(nt.buckets)) = DOMAIN nt.child
    /\ \A n \in DOMAIN nt.child :
         /\ n = << >> \/ Front(n) \in DOMAIN nt.child
         /\ IsInjective(nt.child[n])
         /\ ToSet(nt.child[n]) = {m \in DOMAIN nt.child : m # << >> /\ Front(m) = n}
    /\ NtSize(nt) <= expandThreshold(getNBuckets(nt))
    /\ LET used == Used(fibAt, pitAt, meas, sc)
       IN  used \subseteq DOMAIN nt.child /\ \A n \in DOMAIN nt.child : ~isEmpty(nt, n, used)

\* every selected entry is visited once, by the full enumeration and by the
\* partial one, which skips what lies below an excluded entry
EnumerationsExact ==
    /\ \A sel \in {DOMAIN fibAt, DOMAIN nt.child} :
         LET v == fullEnumerate(nt, sel) IN ToSet(v) = sel /\ IsInjective(v)
    /\ \A p \in DOMAIN nt.child : \A cut \in {DOMAIN fibAt, DOMAIN fibAt \ {p}} :
         LET v == partialEnumerate(nt, p, DOMAIN nt.child \ DOMAIN fibAt, DOMAIN nt.child \ cut)
         IN  /\ IsInjective(v)
             /\ ToSet(v) = {n \in DOMAIN nt.child \ DOMAIN fibAt :
                              IsPrefix(p, n) /\ \A i \in Len(p)..Len(n) - 1 : PrefixOf(n, i) \notin cut}

\* All ways of looking up a longest prefix give the longest existing FIB entry
\* that the Interest name has as prefix, also for a PIT entry that is attached
\* to a shorter name because its own ends with a digest or is too long
\* (name-tree.cpp:203-224), and findAllMatches gives all of them.  Enumerations
\* visit every selected entry once (name-tree-iterator.cpp), whatever the shape
\* of the tree.
LookupsAgree ==
    /\ EnumerationsExact
    /\ \A n \in DOMAIN pitAt :
         LET depth == IF Len(n) < NtMaxDepth THEN Len(n) ELSE NtMaxDepth
             hits == {i \in 0..depth : PrefixOf(n, i) \in DOMAIN fibAt}
             expected == IF hits = {} THEN NtAbsent ELSE PrefixOf(n, Max(hits))
         IN  /\ LpmByName(nt, n, DOMAIN fibAt) = expected
             /\ LpmByPitEntry(nt, PitNode(n), n, DOMAIN fibAt) = expected
             /\ findAllMatches(nt, n, DOMAIN fibAt) = {PrefixOf(n, i) : i \in hits}

\* StrategyInfo on an entry belongs to the type of strategy that is effective
\* there (strategy-choice.cpp:243-244): a change of strategy, which may add or
\* remove a choice anywhere above, leaves none of the old type behind.  A PIT
\* entry whose name ends with a digest is attached to the shorter name and is
\* not reached from a choice made for the digest, so it is left out.
StrategyInfoIsEffective ==
    /\ \A n \in DOMAIN pitAt : PitNode(n) = n => pitAt[n] \subseteq {EffectiveOnPit(nt, sc, n).type}
    /\ \A n \in DOMAIN meas : meas[n].info \subseteq {findEffectiveStrategy(nt, sc, n).type}
=============================================================================
