------------------------------ MODULE NameTree ------------------------------
(***************************************************************************)
(* The NameTree (table/name-tree*.cpp), the index shared by FIB, PIT,      *)
(* Measurements and StrategyChoice: a hash table of name prefixes in       *)
(* chained buckets that grows and shrinks with its load, and the tree the  *)
(* parent and child pointers of its entries make.  The value nt is         *)
(*   buckets  the chains, from the head: a sequence of sequences of names; *)
(*   child    a function from the names that exist to m_children.          *)
(* The parent of an entry is the name without its last component.  The     *)
(* enumerations are the advance() loops of name-tree-iterator.cpp.         *)
(***************************************************************************)
EXTENDS Integers, Sequences, FiniteSets, SequencesExt, FiniteSetsExt, Bitwise

CONSTANTS NtCompHash,      \* the hash of a component
          NtMaxDepth,      \* getMaxDepth()
          NtMinBuckets,    \* minSize and initialSize
          NtExpandNum, NtExpandDen,  \* expandLoadFactor
          NtShrinkNum, NtShrinkDen   \* shrinkLoadFactor

NtAbsent == << "absent" >>   \* nullptr

PrefixOf(name, len) == SubSeq(name, 1, len)

\* the xor of the component hashes, tabulated for all names of the tree
computeHashes ==
    [name \in BoundedSeq(DOMAIN NtCompHash, NtMaxDepth) |->
        FoldLeft(LAMBDA h, c : h ^^ NtCompHash[c], 0, name)]
computeHash(name) == computeHashes[name]

getNBuckets(t) == Len(t.buckets)
computeBucketIndex(n, h) == (h % n) + 1
BucketOf(t, name) == computeBucketIndex(getNBuckets(t), computeHash(name))
NtSize(t) == Cardinality(DOMAIN t.child)
expandThreshold(n) == (n * NtExpandNum) \div NtExpandDen
shrinkThreshold(n) == (n * NtShrinkNum) \div NtShrinkDen

\* all chains one after the other
Chained(chains) == FoldLeft(LAMBDA x, y : x \o y, << >>, chains)

NtEmpty == [buckets |-> [i \in 1..NtMinBuckets |-> << >>], child |-> [n \in {} |-> << >>]]

attach(buckets, i, name) == [buckets EXCEPT ![i] = <<name>> \o @]
detach(buckets, i, name) == [buckets EXCEPT ![i] = SelectSeq(@, LAMBDA x : x # name)]

\* every node of the old chains, in their order, goes to the head of its new one
resize(t, n) ==
    IF n = getNBuckets(t) THEN t
    ELSE [t EXCEPT !.buckets =
            FoldLeft(LAMBDA b, name : attach(b, computeBucketIndex(n, computeHash(name)), name),
                     [i \in 1..n |-> << >>], Chained(t.buckets))]

\* find: the chain of the name's bucket is searched
HtFind(t, name) == name \in ToSet(t.buckets[BucketOf(t, name)])

\* findOrInsert with allowInsert, and lookup's setParent for a new entry
InsertNode(t, name) ==
    LET linked == [n \in DOMAIN t.child \cup {name} |->
                     IF n = name THEN << >>
                     ELSE IF name # << >> /\ n = Front(name) THEN Append(t.child[n], name)
                     ELSE t.child[n]]
        t1 == [buckets |-> attach(t.buckets, BucketOf(t, name), name), child |-> linked]
    IN  IF HtFind(t, name) THEN t
        ELSE IF NtSize(t1) > expandThreshold(getNBuckets(t)) THEN resize(t1, 2 * getNBuckets(t))
        ELSE t1

\* NameTree::lookup: every prefix from the root on
lookup(t, name) ==
    FoldLeft(LAMBDA u, i : InsertNode(u, PrefixOf(name, i - 1)), t, [i \in 1..Len(name) + 1 |-> i])

\* Hashtable::erase after unsetParent
EraseNode(t, name) ==
    LET t1 == [buckets |-> detach(t.buckets, BucketOf(t, name), name),
               child |-> [n \in DOMAIN t.child \ {name} |->
                            SelectSeq(t.child[n], LAMBDA x : x # name)]]
        n == getNBuckets(t)
    IN  IF NtSize(t1) < shrinkThreshold(n)
        THEN resize(t1, IF n \div 2 > NtMinBuckets THEN n \div 2 ELSE NtMinBuckets)
        ELSE t1

\* Entry::isEmpty, given the names that have table entries
isEmpty(t, name, used) == t.child[name] = << >> /\ name \notin used

\* up the tree while entries are empty
eraseIfEmpty(t, name, used, canEraseAncestors) ==
    LET step(u, n) == IF n \in DOMAIN u.child /\ isEmpty(u, n, used) THEN EraseNode(u, n) ELSE u
        up == IF canEraseAncestors THEN Len(name) + 1 ELSE 1
    IN  FoldLeft(LAMBDA u, i : step(u, PrefixOf(name, Len(name) + 1 - i)), t, [i \in 1..up |-> i])

----------------------------------------------------------------------------
(* Lookups. *)

findExactMatch(t, name) == IF Len(name) <= NtMaxDepth /\ HtFind(t, name) THEN name ELSE NtAbsent

\* by name: the hashes of all prefixes, the longest first
LpmByName(t, name, selected) ==
    LET depth == IF Len(name) < NtMaxDepth THEN Len(name) ELSE NtMaxDepth
        hits == {i \in 0..depth : HtFind(t, PrefixOf(name, i)) /\ PrefixOf(name, i) \in selected}
    IN  IF hits = {} THEN NtAbsent ELSE PrefixOf(name, Max(hits))

\* by entry: up the parents
LpmByEntry(t, name, selected) ==
    LET hits == {i \in 0..Len(name) : PrefixOf(name, i) \in selected}
    IN  IF hits = {} THEN NtAbsent ELSE PrefixOf(name, Max(hits))

\* findAllMatches: the longest match, then up its parents (PrefixMatchImpl)
findAllMatches(t, name, selected) ==
    LET start == LpmByName(t, name, selected)
    IN  IF start = NtAbsent THEN {} ELSE {PrefixOf(start, i) : i \in 0..Len(start)} \cap selected

\* mutant: the entries below the one the PIT entry is attached to are not looked at
LpmByPitEntry_NotDeeper(t, at, name, selected) == LpmByEntry(t, at, selected)

\* by PIT entry, attached to "at": first deeper while there are entries
LpmByPitEntry(t, at, name, selected) ==
    LET depth == IF Len(name) < NtMaxDepth THEN Len(name) ELSE NtMaxDepth
        reached == {i \in Len(at)..depth : \A j \in Len(at) + 1..i : findExactMatch(t, PrefixOf(name, j)) # NtAbsent}
    IN  LpmByEntry(t, PrefixOf(name, Max(reached)), selected)

----------------------------------------------------------------------------
(* Enumerations.  An iterator is the entry it is at, and its m_state. *)

\* FullEnumerationImpl::advance: first entry, same chain, then other buckets
FullNext(t, entry, selected) ==
    LET filled == {b \in 1..getNBuckets(t) : t.buckets[b] # << >>}
        First(b) == t.buckets[b][1]
        at == IF entry = NtAbsent THEN First(Min(filled)) ELSE entry
        b0 == BucketOf(t, at)
        pos == CHOOSE i \in DOMAIN t.buckets[b0] : t.buckets[b0][i] = at
        rest == SubSeq(t.buckets[b0], pos + 1, Len(t.buckets[b0]))
                  \o Chained([i \in 1..getNBuckets(t) - b0 |-> t.buckets[b0 + i]])
        hits == {i \in DOMAIN rest : rest[i] \in selected}
    IN  IF entry = NtAbsent /\ filled = {} THEN NtAbsent
        ELSE IF entry = NtAbsent /\ at \in selected THEN at
        ELSE IF hits = {} THEN NtAbsent ELSE rest[Min(hits)]

\* PartialEnumerationImpl::advance below ref.  self and children are what the
\* sub-tree selector answers for an entry.  The loop's state is an entry and
\* wantChildren; the answer is the next entry, or NtAbsent at the end.
RECURSIVE PartialLoop(_, _, _, _, _, _)
PartialLoop(t, ref, entry, wantChildren, self, children) ==
    LET down == wantChildren /\ t.child[entry] # << >>
        first == t.child[entry][1]
        siblings == t.child[Front(entry)]
        pos == CHOOSE i \in DOMAIN siblings : siblings[i] = entry
        \* the first later sibling that is visited or whose children are wanted
        stops == {i \in pos + 1..Len(siblings) : siblings[i] \in self \/ siblings[i] \in children}
        next == siblings[Min(stops)]
    IN  IF entry = ref /\ ~down THEN NtAbsent
        ELSE IF down THEN IF first \in self THEN first
                          ELSE PartialLoop(t, ref, first, first \in children, self, children)
        ELSE IF stops = {} THEN PartialLoop(t, ref, Front(entry), FALSE, self, children)
        ELSE IF next \in self THEN next
        ELSE PartialLoop(t, ref, next, TRUE, self, children)

PartialNext(t, ref, entry, self, children) ==
    IF ref = NtAbsent THEN NtAbsent
    ELSE IF entry = NtAbsent
         THEN IF ref \in self THEN ref ELSE PartialLoop(t, ref, ref, ref \in children, self, children)
    ELSE PartialLoop(t, ref, entry, entry \in children, self, children)

\* the entries an iterator visits, in order, from begin() to end()
Visits(t, Advance(_)) ==
    LET visited[i \in 0..NtSize(t) + 1] ==
          IF i = 0 THEN << >>
          ELSE LET before == visited[i - 1]
                   next == Advance(IF i = 1 THEN NtAbsent ELSE Last(before))
               IN  IF Len(before) < i - 1 \/ next = NtAbsent THEN before ELSE Append(before, next)
    IN  visited[NtSize(t) + 1]

fullEnumerate(t, selected) == Visits(t, LAMBDA e : FullNext(t, e, selected))
partialEnumerate(t, prefix, self, children) ==
    Visits(t, LAMBDA e : PartialNext(t, findExactMatch(t, prefix), e, self, children))
=============================================================================
