----------------------------- MODULE RouteProofs -----------------------------
(***************************************************************************)
(* Proofs about routes that are learnt, measured and passed on: the        *)
(* self-learning strategy between the threads of the forwarder and the RIB *)
(* (SelfLearning), the measurements and probes of ASF (AsfStrategy), and   *)
(* the readvertising of RIB routes (Readvertise).                          *)
(***************************************************************************)
EXTENDS SelfLearning, AsfStrategy, Readvertise, SequenceTheorems, FiniteSetTheorems, TLAPS

-----------------------------------------------------------------------------
(* SelfLearning.                                                           *)

SlSpec == SlInit /\ [][SlNext]_slVars

RibOps == {"announce", "renew"}
FibOps == {"add", "remove"}
Closure == [op : RibOps \cup FibOps \cup {"find", "found"}, face : SlRemote, entry : BOOLEAN]

\* The closures of queue q that change the routes of face u.
IsChange(q, ops, u, i) == i \in DOMAIN q /\ q[i].op \in ops /\ q[i].face = u

\* Where face u is concerned, queue q leads from the routes in have to those
\* in want: its last change of u decides.
Leads(q, ops, adds, u, have, want) ==
  /\ (\A i \in DOMAIN q : ~ IsChange(q, ops, u, i)) => (u \in have <=> u \in want)
  /\ \A i \in DOMAIN q :
       IsChange(q, ops, u, i) /\ (\A j \in DOMAIN q : IsChange(q, ops, u, j) => j <= i)
         => (q[i].op = adds <=> u \in want)

\* For every face that is left, the RIB thread will know what was learnt
\* last, and the FIB what the RIB knows; routes that were never announced
\* stay, and a face that is gone has none.
RoutesAreOnTheirWay ==
  /\ slRibQ \in Seq(Closure) /\ slMainQ \in Seq(Closure)
  /\ slEvents \subseteq slFaces \cap SlRemote
  /\ slFib \subseteq slFaces /\ SlStatic \cap slFaces \subseteq slFib /\ slFib \subseteq SlStatic \cup SlRemote
  /\ \A u \in SlRemote \cap slFaces :
       /\ Leads(slRibQ, RibOps, "announce", u, slRib, slEvents)
       /\ u \notin SlStatic => Leads(slMainQ, FibOps, "add", u, slFib, slRib)

\* Closures are added at the end and run from the front.
LEMMA AppendClosure ==
  ASSUME NEW q \in Seq(Closure), NEW t \in Closure
  PROVE  /\ Append(q, t) \in Seq(Closure)
         /\ Len(q) \in Nat /\ DOMAIN q = 1..Len(q)
         /\ DOMAIN Append(q, t) = 1..(Len(q) + 1)
         /\ \A i \in 1..Len(q) : Append(q, t)[i] = q[i]
         /\ Append(q, t)[Len(q) + 1] = t
OBVIOUS

\* The closures left when the first one of a queue runs.
LEMMA TailClosure ==
  ASSUME NEW q \in Seq(Closure), q # << >>
  PROVE  /\ Tail(q) \in Seq(Closure) /\ Head(q) = q[1] /\ q[1] \in Closure
         /\ Len(q) \in Nat \ {0} /\ DOMAIN q = 1..Len(q)
         /\ DOMAIN Tail(q) = 1..(Len(q) - 1)
         /\ \A i \in 1..(Len(q) - 1) : Tail(q)[i] = q[i + 1]
BY EmptySeq

\* A new change of u decides.
LEMMA AppendDecides ==
  ASSUME NEW q \in Seq(Closure), NEW t \in Closure, NEW ops, NEW adds, NEW u, NEW have, NEW want,
         t.op \in ops, t.face = u, t.op = adds <=> u \in want
  PROVE  Leads(Append(q, t), ops, adds, u, have, want)
<1> DEFINE r == Append(q, t)
           n == Len(q) + 1
<1>1. Len(q) \in Nat /\ DOMAIN r = 1..n /\ r[n] = t /\ n \in 1..n
  BY AppendClosure
<1> HIDE DEF r
<1>2. IsChange(r, ops, u, n)
  BY <1>1 DEF IsChange
<1>3. ASSUME NEW i \in DOMAIN r, \A j \in DOMAIN r : IsChange(r, ops, u, j) => j <= i
      PROVE  i = n
  <2>1. n <= i
    BY <1>1, <1>2, <1>3
  <2> QED
    BY <1>1, <2>1
<1> QED
  BY <1>1, <1>2, <1>3 DEF Leads, r

\* One that does not concern u changes nothing.
LEMMA AppendIgnored ==
  ASSUME NEW q \in Seq(Closure), NEW t \in Closure, NEW ops, NEW adds, NEW u, NEW have, NEW want,
         t.op \notin ops \/ t.face # u, Leads(q, ops, adds, u, have, want)
  PROVE  Leads(Append(q, t), ops, adds, u, have, want)
<1> DEFINE r == Append(q, t)
           n == Len(q) + 1
<1>1. Len(q) \in Nat /\ DOMAIN q = 1..Len(q) /\ DOMAIN r = 1..n /\ r[n] = t
      /\ \A i \in 1..Len(q) : r[i] = q[i]
  BY AppendClosure
<1> HIDE DEF r
<1>2. \A i \in DOMAIN r : IsChange(r, ops, u, i) <=> i \in DOMAIN q /\ IsChange(q, ops, u, i)
  BY <1>1 DEF IsChange
<1>3. DOMAIN q \subseteq DOMAIN r
  BY <1>1
<1>4. (\A i \in DOMAIN r : ~ IsChange(r, ops, u, i)) => (u \in have <=> u \in want)
  BY <1>2, <1>3 DEF Leads
<1>5. ASSUME NEW i \in DOMAIN r, IsChange(r, ops, u, i), \A j \in DOMAIN r : IsChange(r, ops, u, j) => j <= i
      PROVE  r[i].op = adds <=> u \in want
  <2>1. i \in DOMAIN q /\ IsChange(q, ops, u, i) /\ r[i] = q[i]
    BY <1>1, <1>2, <1>5
  <2>2. \A j \in DOMAIN q : IsChange(q, ops, u, j) => j <= i
    BY <1>2, <1>3, <1>5
  <2> QED
    BY <2>1, <2>2 DEF Leads
<1> QED
  BY <1>4, <1>5 DEF Leads, r

\* The first closure runs: what it does to u is what the others start from.
LEMMA TailLeads ==
  ASSUME NEW q \in Seq(Closure), q # << >>, NEW ops, NEW adds, NEW u, NEW have, NEW have2, NEW want,
         Leads(q, ops, adds, u, have, want),
         IF Head(q).op \in ops /\ Head(q).face = u THEN u \in have2 <=> Head(q).op = adds
                                                   ELSE u \in have2 <=> u \in have
  PROVE  Leads(Tail(q), ops, adds, u, have2, want)
<1> DEFINE r == Tail(q)
           n == Len(q)
<1>1. /\ n \in Nat \ {0} /\ DOMAIN q = 1..n /\ DOMAIN r = 1..(n - 1) /\ Head(q) = q[1]
      /\ \A i \in 1..(n - 1) : r[i] = q[i + 1]
  BY TailClosure
<1> HIDE DEF r, n
<1>2. \A i \in DOMAIN r : i + 1 \in DOMAIN q /\ (IsChange(r, ops, u, i) <=> IsChange(q, ops, u, i + 1))
  BY <1>1 DEF IsChange
<1>3. \A j \in DOMAIN q : j = 1 \/ (j - 1 \in DOMAIN r /\ j = (j - 1) + 1)
  BY <1>1
<1>4. ASSUME \A i \in DOMAIN r : ~ IsChange(r, ops, u, i) PROVE u \in have2 <=> u \in want
  <2>1. \A j \in DOMAIN q : IsChange(q, ops, u, j) => j = 1
    BY <1>2, <1>3, <1>4
  <2>2. CASE IsChange(q, ops, u, 1)
    BY <1>1, <2>1, <2>2 DEF Leads, IsChange
  <2>3. CASE ~ IsChange(q, ops, u, 1)
    BY <1>1, <2>1, <2>3 DEF Leads, IsChange
  <2> QED
    BY <2>2, <2>3
<1>5. ASSUME NEW i \in DOMAIN r, IsChange(r, ops, u, i), \A j \in DOMAIN r : IsChange(r, ops, u, j) => j <= i
      PROVE  r[i].op = adds <=> u \in want
  <2>1. i + 1 \in DOMAIN q /\ IsChange(q, ops, u, i + 1) /\ r[i] = q[i + 1] /\ i \in Nat /\ i >= 1
    BY <1>1, <1>2, <1>5
  <2>2. ASSUME NEW j \in DOMAIN q, IsChange(q, ops, u, j) PROVE j <= i + 1
    <3>1. CASE j = 1
      BY <2>1, <3>1
    <3>2. CASE j - 1 \in DOMAIN r /\ j = (j - 1) + 1
      <4>1. IsChange(r, ops, u, j - 1)
        BY <1>2, <2>2, <3>2
      <4>2. j - 1 <= i /\ j \in Nat
        BY <1>1, <1>5, <3>2, <4>1
      <4> QED
        BY <2>1, <4>2
    <3> QED
      BY <1>3, <3>1, <3>2
  <2> QED
    BY <2>1, <2>2 DEF Leads
<1> QED
  BY <1>4, <1>5 DEF Leads, r

\* An erased entry leaves the closures as they are otherwise.
LEMMA LostLeads ==
  ASSUME NEW q \in Seq(Closure)
  PROVE  /\ Lost(q) \in Seq(Closure)
         /\ \A ops, adds, u, have, want :
              Leads(q, ops, adds, u, have, want) => Leads(Lost(q), ops, adds, u, have, want)
<1>1. Len(q) \in Nat /\ DOMAIN q = 1..Len(q) /\ \A i \in DOMAIN q : q[i] \in Closure
  OBVIOUS
<1>2. /\ DOMAIN Lost(q) = DOMAIN q
      /\ \A i \in DOMAIN q : Lost(q)[i] \in Closure /\ Lost(q)[i].op = q[i].op /\ Lost(q)[i].face = q[i].face
  BY Zenon, <1>1 DEF Lost, Closure
<1>3. Lost(q) \in Seq(Closure)
  <2>1. Lost(q) \in [1..Len(q) -> Closure]
    BY <1>1, <1>2 DEF Lost
  <2> QED
    BY <1>1, <2>1, SeqDef
<1>4. \A ops, u : \A i \in DOMAIN q : IsChange(Lost(q), ops, u, i) <=> IsChange(q, ops, u, i)
  BY <1>2 DEF IsChange
<1>5. ASSUME NEW ops, NEW adds, NEW u, NEW have, NEW want, Leads(q, ops, adds, u, have, want)
      PROVE  Leads(Lost(q), ops, adds, u, have, want)
  BY <1>2, <1>4, <1>5 DEF Leads
<1> QED
  BY <1>3, <1>5, Zenon
\* What is posted is a closure.
LEMMA PostedIsClosure ==
  ASSUME NEW u \in SlRemote, NEW op \in RibOps \cup FibOps \cup {"find", "found"}
  PROVE  Posted(op, u) \in Closure /\ Posted(op, u).op = op /\ Posted(op, u).face = u
BY DEF Posted, Closure

\* A queue leads where it did when what concerns u is the same.
LEMMA SameLeads ==
  ASSUME NEW q, NEW ops, NEW adds, NEW u, NEW have, NEW have2, NEW want, NEW want2,
         u \in have <=> u \in have2, u \in want <=> u \in want2,
         Leads(q, ops, adds, u, have, want)
  PROVE  Leads(q, ops, adds, u, have2, want2)
BY DEF Leads

\* With nothing queued both ends agree.
LEMMA EmptyLeads ==
  ASSUME NEW ops, NEW adds, NEW u, NEW have, NEW want
  PROVE  Leads(<< >>, ops, adds, u, have, want) <=> (u \in have <=> u \in want)
BY DEF Leads, IsChange

\* What every step leaves alone.
RoutesUnchanged == UNCHANGED <<slFaces, slFib, slRib, slRibQ, slMainQ, slEvents>>

\* At the start nothing is learnt and nothing is queued.
LEMMA RoutesInitial == SlInit => RoutesAreOnTheirWay
<1> SUFFICES ASSUME SlInit PROVE RoutesAreOnTheirWay
  OBVIOUS
<1>1. << >> \in Seq(Closure)
  OBVIOUS
<1>2. \A u \in SlRemote \cap slFaces :
        /\ Leads(slRibQ, RibOps, "announce", u, slRib, slEvents)
        /\ u \notin SlStatic => Leads(slMainQ, FibOps, "add", u, slFib, slRib)
  BY EmptyLeads DEF SlInit
<1> QED
  BY <1>1, <1>2, SlStaticAssumption DEF SlInit, RoutesAreOnTheirWay, SlAll

\* afterReceiveData: an announcement is learnt and posted.
LEMMA DataLearns ==
  ASSUME RoutesAreOnTheirWay, NEW u \in SlRemote, NEW hasAnn \in BOOLEAN, SlData(u, hasAnn)
  PROVE  RoutesAreOnTheirWay'
<1>1. /\ u \in slFaces
      /\ UNCHANGED <<slFaces, slFib, slRib, slMainQ>>
      /\ \/ slRibQ' = Append(slRibQ, Posted("find", u)) /\ slEvents' = slEvents
         \/ slRibQ' = Append(slRibQ, Posted("announce", u)) /\ slEvents' = slEvents \cup {u}
         \/ slRibQ' = slRibQ /\ slEvents' = slEvents
  BY Zenon DEF SlData
<1>2. CASE slRibQ' = Append(slRibQ, Posted("find", u)) /\ slEvents' = slEvents
  <2>1. Posted("find", u) \in Closure /\ Posted("find", u).op \notin RibOps
    BY PostedIsClosure DEF RibOps
  <2>2. \A v \in SlRemote \cap slFaces : Leads(slRibQ', RibOps, "announce", v, slRib, slEvents)
    BY <1>2, <2>1, AppendIgnored DEF RoutesAreOnTheirWay
  <2>3. slRibQ' \in Seq(Closure)
    BY <1>2, <2>1, AppendClosure DEF RoutesAreOnTheirWay
  <2> QED
    BY <1>1, <1>2, <2>2, <2>3 DEF RoutesAreOnTheirWay
<1>3. CASE slRibQ' = Append(slRibQ, Posted("announce", u)) /\ slEvents' = slEvents \cup {u}
  <2>1. Posted("announce", u) \in Closure /\ Posted("announce", u).op = "announce" /\ Posted("announce", u).face = u
    BY PostedIsClosure DEF RibOps
  <2>2. slRibQ' \in Seq(Closure)
    BY <1>3, <2>1, AppendClosure DEF RoutesAreOnTheirWay
  <2>3. ASSUME NEW v \in SlRemote \cap slFaces PROVE Leads(slRibQ', RibOps, "announce", v, slRib, slEvents')
    <3>1. CASE v = u
      <4>1. Posted("announce", u).op \in RibOps /\ u \in slEvents' /\ slRibQ \in Seq(Closure)
        BY <1>3, <2>1 DEF RibOps, RoutesAreOnTheirWay
      <4>2. Leads(Append(slRibQ, Posted("announce", u)), RibOps, "announce", u, slRib, slEvents')
        BY Zenon, <2>1, <4>1, AppendDecides
      <4> QED
        BY <1>3, <3>1, <4>2
    <3>2. CASE v # u
      <4>1. Leads(slRibQ', RibOps, "announce", v, slRib, slEvents)
        BY <1>3, <2>1, <3>2, AppendIgnored DEF RoutesAreOnTheirWay
      <4> QED
        BY <1>3, <3>2, <4>1, SameLeads
    <3> QED
      BY <3>1, <3>2
  <2> QED
    BY Zenon, <1>1, <1>3, <2>2, <2>3 DEF RoutesAreOnTheirWay
<1>4. CASE slRibQ' = slRibQ /\ slEvents' = slEvents
  BY <1>1, <1>4 DEF RoutesAreOnTheirWay
<1> QED
  BY <1>1, <1>2, <1>3, <1>4

\* afterReceiveNack and the end of a face: the route is given up and a
\* closure posted that takes it away.
LEMMA RouteGivenUp ==
  ASSUME RoutesAreOnTheirWay, NEW u \in SlRemote,
         slRibQ' = Append(slRibQ, Posted("renew", u)), slEvents' = slEvents \ {u},
         UNCHANGED <<slRib, slMainQ>>,
         \/ UNCHANGED <<slFaces, slFib>>
         \/ slFaces' = slFaces \ {u} /\ slFib' = slFib \ {u}
  PROVE  RoutesAreOnTheirWay'
<1>1. Posted("renew", u) \in Closure /\ Posted("renew", u).op = "renew" /\ Posted("renew", u).face = u
  BY PostedIsClosure DEF RibOps
<1>2. slRibQ' \in Seq(Closure)
  BY <1>1, AppendClosure DEF RoutesAreOnTheirWay
<1>3. ASSUME NEW v \in SlRemote \cap slFaces PROVE Leads(slRibQ', RibOps, "announce", v, slRib, slEvents')
  <2>1. CASE v = u
    <3>1. Posted("renew", u).op \in RibOps /\ u \notin slEvents' /\ slRibQ \in Seq(Closure)
      BY <1>1 DEF RibOps, RoutesAreOnTheirWay
    <3>2. Leads(Append(slRibQ, Posted("renew", u)), RibOps, "announce", u, slRib, slEvents')
      BY Zenon, <1>1, <3>1, AppendDecides
    <3> QED
      BY <2>1, <3>2
  <2>2. CASE v # u
    <3>1. Leads(slRibQ', RibOps, "announce", v, slRib, slEvents)
      BY <1>1, <2>2, AppendIgnored DEF RoutesAreOnTheirWay
    <3> QED
      BY <2>2, <3>1, SameLeads
  <2> QED
    BY <2>1, <2>2
<1>4. CASE UNCHANGED <<slFaces, slFib>>
  BY Zenon, <1>2, <1>3, <1>4 DEF RoutesAreOnTheirWay
<1>5. CASE slFaces' = slFaces \ {u} /\ slFib' = slFib \ {u}
  <2>1. ASSUME NEW v \in SlRemote \cap slFaces', v \notin SlStatic
        PROVE  Leads(slMainQ, FibOps, "add", v, slFib', slRib)
    <3>1. v # u /\ v \in slFaces
      BY <1>5
    <3>2. Leads(slMainQ, FibOps, "add", v, slFib, slRib)
      BY <2>1, <3>1 DEF RoutesAreOnTheirWay
    <3> QED
      BY <1>5, <3>1, <3>2, SameLeads
  <2> QED
    BY Zenon, <1>2, <1>3, <1>5, <2>1 DEF RoutesAreOnTheirWay
<1> QED
  BY <1>4, <1>5
\* The RIB thread runs a closure.
LEMMA RibRuns ==
  ASSUME RoutesAreOnTheirWay, RibStep PROVE RoutesAreOnTheirWay'
<1> DEFINE t == Head(slRibQ)
<1>1. /\ slRibQ # << >> /\ slRibQ' = Tail(slRibQ) /\ UNCHANGED <<slFaces, slFib, slEvents>>
      /\ \/ /\ t.op = "announce" /\ t.face \in slFaces
            /\ slRib' = slRib \cup {t.face} /\ slMainQ' = Append(slMainQ, Posted("add", t.face))
         \/ /\ t.op = "renew" /\ t.face \in slRib
            /\ slRib' = slRib \ {t.face} /\ slMainQ' = Append(slMainQ, Posted("remove", t.face))
         \/ t.op = "find" /\ slRib' = slRib /\ slMainQ' = Append(slMainQ, [t EXCEPT !.op = "found"])
         \/ /\ \/ t.op = "announce" /\ t.face \notin slFaces
               \/ t.op = "renew" /\ t.face \notin slRib
               \/ t.op = "find"
            /\ slRib' = slRib /\ slMainQ' = slMainQ
  BY Zenon DEF RibStep
<1>2. slRibQ \in Seq(Closure) /\ slMainQ \in Seq(Closure)
  BY DEF RoutesAreOnTheirWay
<1>3. t \in Closure /\ slRibQ' \in Seq(Closure)
  BY <1>1, <1>2, TailClosure
<1> HIDE DEF t
<1>4. t.face \in SlRemote
  BY <1>3 DEF Closure
<1>5. \A v \in SlRemote \cap slFaces :
        (IF t.op \in RibOps /\ t.face = v THEN v \in slRib' <=> t.op = "announce" ELSE v \in slRib' <=> v \in slRib)
          => Leads(slRibQ', RibOps, "announce", v, slRib', slEvents)
  BY <1>1, <1>2, TailLeads DEF RoutesAreOnTheirWay, t
<1>6. ASSUME \/ slRib' = slRib
             \/ slRib' = slRib \cup {t.face}
             \/ slRib' = slRib \ {t.face},
             slMainQ' \in Seq(Closure),
             \A v \in SlRemote \cap slFaces :
                IF t.op \in RibOps /\ t.face = v THEN v \in slRib' <=> t.op = "announce"
                                                ELSE v \in slRib' <=> v \in slRib,
             \A v \in SlRemote \cap slFaces :
                v \notin SlStatic => Leads(slMainQ', FibOps, "add", v, slFib, slRib')
      PROVE  RoutesAreOnTheirWay'
  BY <1>1, <1>3, <1>5, <1>6 DEF RoutesAreOnTheirWay
<1>7. CASE /\ t.op = "announce" /\ t.face \in slFaces
           /\ slRib' = slRib \cup {t.face} /\ slMainQ' = Append(slMainQ, Posted("add", t.face))
  <2>1. Posted("add", t.face) \in Closure /\ Posted("add", t.face).op = "add" /\ Posted("add", t.face).face = t.face
    BY <1>4, PostedIsClosure DEF FibOps
  <2>2. slMainQ' \in Seq(Closure)
    BY <1>2, <1>7, <2>1, AppendClosure
  <2>3. ASSUME NEW v \in SlRemote \cap slFaces, v \notin SlStatic
        PROVE  Leads(slMainQ', FibOps, "add", v, slFib, slRib')
    <3>1. CASE v = t.face
      <4>1. Posted("add", v).op \in FibOps /\ v \in slRib'
        BY <1>7, <2>1, <3>1 DEF FibOps
      <4>2. Leads(Append(slMainQ, Posted("add", v)), FibOps, "add", v, slFib, slRib')
        BY Zenon, <1>2, <2>1, <3>1, <4>1, AppendDecides
      <4> QED
        BY <1>7, <3>1, <4>2
    <3>2. CASE v # t.face
      <4>1. Leads(slMainQ, FibOps, "add", v, slFib, slRib)
        BY <2>3 DEF RoutesAreOnTheirWay
      <4>2. Leads(slMainQ', FibOps, "add", v, slFib, slRib)
        BY <1>2, <1>7, <2>1, <3>2, <4>1, AppendIgnored
      <4> QED
        BY <1>7, <3>2, <4>2, SameLeads
    <3> QED
      BY <3>1, <3>2
  <2>4. \A v \in SlRemote \cap slFaces :
           IF t.op \in RibOps /\ t.face = v THEN v \in slRib' <=> t.op = "announce" ELSE v \in slRib' <=> v \in slRib
    BY <1>7 DEF RibOps
  <2> QED
    BY Zenon, <1>6, <1>7, <2>2, <2>3, <2>4
<1>8. CASE /\ t.op = "renew" /\ t.face \in slRib
           /\ slRib' = slRib \ {t.face} /\ slMainQ' = Append(slMainQ, Posted("remove", t.face))
  <2>1. /\ Posted("remove", t.face) \in Closure /\ Posted("remove", t.face).op = "remove"
        /\ Posted("remove", t.face).face = t.face
    BY <1>4, PostedIsClosure DEF FibOps
  <2>2. slMainQ' \in Seq(Closure)
    BY <1>2, <1>8, <2>1, AppendClosure
  <2>3. ASSUME NEW v \in SlRemote \cap slFaces, v \notin SlStatic
        PROVE  Leads(slMainQ', FibOps, "add", v, slFib, slRib')
    <3>1. CASE v = t.face
      <4>1. Posted("remove", v).op \in FibOps /\ v \notin slRib' /\ Posted("remove", v).op # "add"
        BY <1>8, <2>1, <3>1 DEF FibOps
      <4>2. Leads(Append(slMainQ, Posted("remove", v)), FibOps, "add", v, slFib, slRib')
        BY Zenon, <1>2, <2>1, <3>1, <4>1, AppendDecides
      <4> QED
        BY <1>8, <3>1, <4>2
    <3>2. CASE v # t.face
      <4>1. Leads(slMainQ, FibOps, "add", v, slFib, slRib)
        BY <2>3 DEF RoutesAreOnTheirWay
      <4>2. Leads(slMainQ', FibOps, "add", v, slFib, slRib)
        BY <1>2, <1>8, <2>1, <3>2, <4>1, AppendIgnored
      <4> QED
        BY <1>8, <3>2, <4>2, SameLeads
    <3> QED
      BY <3>1, <3>2
  <2>4. \A v \in SlRemote \cap slFaces :
           IF t.op \in RibOps /\ t.face = v THEN v \in slRib' <=> t.op = "announce" ELSE v \in slRib' <=> v \in slRib
    BY <1>8 DEF RibOps
  <2> QED
    BY Zenon, <1>6, <1>8, <2>2, <2>3, <2>4
<1>9. CASE t.op = "find" /\ slRib' = slRib /\ slMainQ' = Append(slMainQ, [t EXCEPT !.op = "found"])
  <2>1. PICK f : f = [t EXCEPT !.op = "found"]
    BY Zenon
  <2>2. f \in Closure /\ f.op = "found" /\ f.op \notin FibOps
    BY <1>3, <2>1 DEF Closure, FibOps
  <2>3. slMainQ' = Append(slMainQ, f)
    BY <1>9, <2>1
  <2>4. slMainQ' \in Seq(Closure)
    BY <1>2, <2>2, <2>3, AppendClosure
  <2>5. \A v \in SlRemote \cap slFaces : v \notin SlStatic => Leads(slMainQ', FibOps, "add", v, slFib, slRib')
    BY <1>2, <1>9, <2>2, <2>3, AppendIgnored DEF RoutesAreOnTheirWay
  <2>6. \A v \in SlRemote \cap slFaces :
           IF t.op \in RibOps /\ t.face = v THEN v \in slRib' <=> t.op = "announce" ELSE v \in slRib' <=> v \in slRib
    BY <1>9 DEF RibOps
  <2> QED
    BY <1>6, <1>9, <2>4, <2>5, <2>6
<1>10. CASE /\ \/ t.op = "announce" /\ t.face \notin slFaces
               \/ t.op = "renew" /\ t.face \notin slRib
               \/ t.op = "find"
            /\ slRib' = slRib /\ slMainQ' = slMainQ
  <2>1. \A v \in SlRemote \cap slFaces :
           IF t.op \in RibOps /\ t.face = v THEN v \in slRib' <=> t.op = "announce" ELSE v \in slRib' <=> v \in slRib
    BY <1>10 DEF RibOps
  <2>2. \A v \in SlRemote \cap slFaces : v \notin SlStatic => Leads(slMainQ', FibOps, "add", v, slFib, slRib')
    BY <1>10 DEF RoutesAreOnTheirWay
  <2> QED
    BY <1>2, <1>6, <1>10, <2>1, <2>2
<1> QED
  BY <1>1, <1>7, <1>8, <1>9, <1>10 DEF t
\* The main thread runs a closure.
LEMMA MainRuns ==
  ASSUME RoutesAreOnTheirWay, MainStep PROVE RoutesAreOnTheirWay'
<1> DEFINE t == Head(slMainQ)
<1>1. /\ slMainQ # << >> /\ slMainQ' = Tail(slMainQ) /\ UNCHANGED <<slFaces, slRib, slRibQ, slEvents>>
      /\ \/ t.op = "found" /\ slFib' = slFib
         \/ t.op = "add" /\ slFib' = slFib \cup ({t.face} \cap slFaces)
         \/ t.op = "remove" /\ slFib' = slFib \ ({t.face} \ SlStatic)
  BY Zenon DEF MainStep
<1>2. slMainQ \in Seq(Closure)
  BY DEF RoutesAreOnTheirWay
<1>3. t \in Closure /\ slMainQ' \in Seq(Closure)
  BY <1>1, <1>2, TailClosure
<1>4. \A v \in SlRemote \cap slFaces :
        v \notin SlStatic
        /\ (IF t.op \in FibOps /\ t.face = v THEN v \in slFib' <=> t.op = "add" ELSE v \in slFib' <=> v \in slFib)
          => Leads(slMainQ', FibOps, "add", v, slFib', slRib)
  BY <1>1, <1>2, TailLeads DEF RoutesAreOnTheirWay
<1> HIDE DEF t
<1>5. t.face \in SlRemote
  BY <1>3 DEF Closure
<1>6. \A v \in SlRemote \cap slFaces :
        v \notin SlStatic =>
          IF t.op \in FibOps /\ t.face = v THEN v \in slFib' <=> t.op = "add" ELSE v \in slFib' <=> v \in slFib
  BY <1>1 DEF FibOps, t
<1>7. /\ slFib' \subseteq slFaces /\ SlStatic \cap slFaces \subseteq slFib'
      /\ slFib' \subseteq SlStatic \cup SlRemote
  BY <1>1, <1>5 DEF RoutesAreOnTheirWay, t
<1>8. \A v \in SlRemote \cap slFaces : v \notin SlStatic => Leads(slMainQ', FibOps, "add", v, slFib', slRib)
  BY <1>4, <1>6
<1> QED
  BY <1>1, <1>3, <1>7, <1>8 DEF RoutesAreOnTheirWay

\* Every step keeps the routes on their way.
LEMMA RoutesStep ==
  ASSUME RoutesAreOnTheirWay, [SlNext]_slVars PROVE RoutesAreOnTheirWay'
<1>1. ASSUME RoutesUnchanged PROVE RoutesAreOnTheirWay'
  BY <1>1 DEF RoutesUnchanged, RoutesAreOnTheirWay
<1>2. ASSUME NEW f \in SlAll, NEW nd \in BOOLEAN, SlInterest(f, nd) PROVE RoutesUnchanged
  BY <1>2, Zenon DEF SlInterest, RoutesUnchanged
<1>3. ASSUME NEW u \in SlRemote, NEW reason \in {"NoRoute", "Duplicate"}, SlNack(u, reason)
      PROVE  RoutesAreOnTheirWay'
  <2>1. \/ RoutesUnchanged
        \/ /\ slRibQ' = Append(slRibQ, Posted("renew", u)) /\ slEvents' = slEvents \ {u}
           /\ UNCHANGED <<slRib, slMainQ>> /\ UNCHANGED <<slFaces, slFib>>
    BY <1>3, Zenon DEF SlNack, renewRoute, RoutesUnchanged
  <2> QED
    BY <1>1, <2>1, RouteGivenUp
<1>4. ASSUME NEW u \in SlRemote, SlRemoveFace(u) PROVE RoutesAreOnTheirWay'
  <2>1. /\ slRibQ' = Append(slRibQ, Posted("renew", u)) /\ slEvents' = slEvents \ {u}
        /\ UNCHANGED <<slRib, slMainQ>> /\ slFaces' = slFaces \ {u} /\ slFib' = slFib \ {u}
    BY <1>4, Zenon DEF SlRemoveFace
  <2> QED
    BY <2>1, RouteGivenUp
<1>5. ASSUME NEW f \in SlAll, SlExpireIn(f) PROVE RoutesUnchanged
  BY <1>5, Zenon DEF SlExpireIn, RoutesUnchanged
<1>6. ASSUME SlFinalize PROVE RoutesAreOnTheirWay'
  <2>1. slRibQ' = Lost(slRibQ) /\ slMainQ' = Lost(slMainQ) /\ UNCHANGED <<slFaces, slFib, slRib, slEvents>>
    BY <1>6, Zenon DEF SlFinalize
  <2> QED
    BY <2>1, LostLeads DEF RoutesAreOnTheirWay
<1>7. CASE UNCHANGED slVars
  BY <1>1, <1>7 DEF slVars, RoutesUnchanged
<1>8. CASE SlNext
  BY <1>1, <1>2, <1>3, <1>4, <1>5, <1>6, <1>8, DataLearns, RibRuns, MainRuns, Zenon DEF SlNext
<1> QED
  BY <1>7, <1>8

\* The FIB follows what was learnt, for any number of faces and Interests and
\* any interleaving of the two threads (RoutesFollowEvents of SelfLearning):
\* once both queues have been worked off, a face has a route exactly when its
\* last event was an announcement or its route was never announced.
THEOREM FibFollowsEvents == SlSpec => []RoutesFollowEvents
<1>1. RoutesAreOnTheirWay => RoutesFollowEvents
  <2> SUFFICES ASSUME RoutesAreOnTheirWay, slRibQ = << >>, slMainQ = << >>
               PROVE  slFib = slEvents \cup (SlStatic \cap slFaces)
    BY DEF RoutesFollowEvents
  <2>1. \A u \in SlRemote \cap slFaces :
           (u \in slRib <=> u \in slEvents) /\ (u \notin SlStatic => (u \in slFib <=> u \in slRib))
    BY EmptyLeads DEF RoutesAreOnTheirWay
  <2> QED
    BY <2>1 DEF RoutesAreOnTheirWay
<1> QED
  BY <1>1, RoutesInitial, RoutesStep, PTL DEF SlSpec
-----------------------------------------------------------------------------
(* Readvertise.                                                            *)

RdSpec == RdInit /\ [][RdNext]_rdVars

\* The routes whose index entry leads to incarnation id of prefix p.
Behind(index, p, id) == {r \in DOMAIN index : index[r] = [prefix |-> p, id |-> id]}

\* The counts are right; only routes of the RIB are in the index, and there
\* are finitely many numbers in use, so that a new prefix finds one that no
\* index entry holds.
CountsAreExact ==
  /\ IsFiniteSet(DOMAIN rrs) /\ IsFiniteSet(DOMAIN routeToRr) /\ IsFiniteSet(BagToSet(rdCalls))
  /\ DOMAIN routeToRr \subseteq rdRib
  /\ \A r \in DOMAIN routeToRr : routeToRr[r] = [prefix |-> routeToRr[r].prefix, id |-> routeToRr[r].id]
  /\ \A p \in DOMAIN rrs :
       /\ DOMAIN rrs[p] = {"id", "n", "delay", "evt"}
       /\ rrs[p].n = Cardinality(Behind(routeToRr, p, rrs[p].id))
\* A function of a finite domain has finitely many values.
LEMMA FiniteRange ==
  ASSUME NEW f, NEW S, IsFiniteSet(S), S = DOMAIN f PROVE IsFiniteSet({f[x] : x \in S})
<1> DEFINE g == [x \in S |-> f[x]]
           T == {f[x] : x \in S}
<1>1. g \in Surjection(S, T)
  BY DEF Surjection
<1> QED
  BY <1>1, FS_Surjection

\* There is always a number that no index entry of the prefix holds.
LEMMA FreshIdIsFresh ==
  ASSUME CountsAreExact, NEW p
  PROVE  \A r \in DOMAIN routeToRr : routeToRr[r] # [prefix |-> p, id |-> FreshId(p)]
<1> DEFINE U1 == {rrs[q].id : q \in DOMAIN rrs \cap {p}}
           R  == {r \in DOMAIN routeToRr : routeToRr[r].prefix = p}
           U2 == {routeToRr[r].id : r \in R}
           C  == {c \in BagToSet(rdCalls) : c.prefix = p}
           U3 == {c.id : c \in C}
           used == U1 \cup U2 \cup U3
<1>1. IsFiniteSet(U1)
  <2>1. U1 \subseteq {rrs[p].id}
    OBVIOUS
  <2> QED
    BY Zenon, <2>1, FS_Singleton, FS_Subset
<1>2. IsFiniteSet(U2)
  <2>1. IsFiniteSet(R)
    BY FS_Subset DEF CountsAreExact
  <2> DEFINE f == [r \in R |-> routeToRr[r].id]
  <2>2. IsFiniteSet({f[r] : r \in R})
    BY Zenon, <2>1, FiniteRange
  <2>3. {f[r] : r \in R} = U2
    BY Zenon
  <2> QED
    BY <2>2, <2>3
<1>3. IsFiniteSet(U3)
  <2>1. IsFiniteSet(C)
    BY FS_Subset DEF CountsAreExact
  <2> DEFINE f == [c \in C |-> c.id]
  <2>2. IsFiniteSet({f[c] : c \in C})
    BY Zenon, <2>1, FiniteRange
  <2>3. {f[c] : c \in C} = U3
    BY Zenon
  <2> QED
    BY Zenon, <2>2, <2>3
<1>4. FreshId(p) = CHOOSE i \in 0..Cardinality(used) : i \notin used
  BY DEF FreshId
<1>5. \A r \in DOMAIN routeToRr : routeToRr[r].prefix = p => routeToRr[r].id \in used
  OBVIOUS
<1>6. IsFiniteSet(used)
  <2> HIDE DEF U1, U2, U3
  <2> QED
    BY Zenon, <1>1, <1>2, <1>3, FS_Union
<1> HIDE DEF used
<1>7. \E i \in 0..Cardinality(used) : i \notin used
  <2>1. Cardinality(used) \in Nat
    BY <1>6, FS_CardinalityType
  <2>2. Cardinality(0..Cardinality(used)) = Cardinality(used) + 1
    BY <2>1, FS_Interval
  <2>3. 0..Cardinality(used) \subseteq used => Cardinality(0..Cardinality(used)) <= Cardinality(used)
    BY Zenon, <1>6, FS_Subset
  <2> QED
    BY <2>1, <2>2, <2>3
<1>8. FreshId(p) \notin used
  BY <1>4, <1>7
<1> QED
  BY <1>5, <1>8

\* The routes behind a prefix, when a route enters or leaves the index.
LEMMA BehindAdd ==
  ASSUME NEW index, NEW r, r \notin DOMAIN index, NEW p, NEW id, NEW q, NEW jd, IsFiniteSet(DOMAIN index)
  PROVE  Cardinality(Behind(With(index, r, [prefix |-> p, id |-> id]), q, jd))
           = IF q = p /\ jd = id THEN Cardinality(Behind(index, q, jd)) + 1 ELSE Cardinality(Behind(index, q, jd))
<1> DEFINE B == Behind(index, q, jd)
           B2 == Behind(With(index, r, [prefix |-> p, id |-> id]), q, jd)
<1>1. B2 = IF q = p /\ jd = id THEN B \cup {r} ELSE B
  BY DEF Behind, With
<1>2. IsFiniteSet(B) /\ r \notin B
  BY FS_Subset DEF Behind
<1> HIDE DEF B, B2
<1>3. Cardinality(B \cup {r}) = Cardinality(B) + 1
  BY <1>2, FS_AddElement
<1>4. Cardinality(B2) = IF q = p /\ jd = id THEN Cardinality(B) + 1 ELSE Cardinality(B)
  BY <1>1, <1>3
<1> QED
  BY <1>4 DEF B, B2

\* A route that leaves the index leaves one count.
LEMMA BehindRemove ==
  ASSUME NEW index, NEW r, NEW q, NEW jd, IsFiniteSet(DOMAIN index)
  PROVE  /\ Cardinality(Behind(index, q, jd)) \in Nat
         /\ Cardinality(Behind(RdWithout(index, r), q, jd))
              = IF r \in Behind(index, q, jd) THEN Cardinality(Behind(index, q, jd)) - 1
                                             ELSE Cardinality(Behind(index, q, jd))
         /\ r \in Behind(index, q, jd) => Cardinality(Behind(index, q, jd)) >= 1
<1> DEFINE B == Behind(index, q, jd)
           B2 == Behind(RdWithout(index, r), q, jd)
<1>1. B2 = B \ {r}
  BY DEF Behind, RdWithout
<1>2. IsFiniteSet(B)
  BY FS_Subset DEF Behind
<1> HIDE DEF B, B2
<1>3. Cardinality(B2) = IF r \in B THEN Cardinality(B) - 1 ELSE Cardinality(B)
  BY Zenon, <1>1, <1>2, FS_RemoveElement
<1>4. Cardinality(B) \in Nat /\ (r \in B => Cardinality(B) >= 1)
  BY <1>2, FS_CardinalityType, FS_EmptySet
<1> QED
  BY <1>3, <1>4 DEF B, B2
\* Sending and answering commands leaves finitely many under way.
LEMMA CallsFinite ==
  ASSUME NEW B, NEW S, IsFiniteSet(BagToSet(B)), IsFiniteSet(S)
  PROVE  /\ IsFiniteSet(BagToSet(B (+) SetToBag(S))) /\ IsFiniteSet(BagToSet(B (-) SetToBag(S)))
         /\ IsFiniteSet(BagToSet(B (+) EmptyBag))
<1>1. BagToSet(B (+) SetToBag(S)) = BagToSet(B) \cup S
  BY DEF (+), SetToBag, BagToSet
<1>2. BagToSet(B (-) SetToBag(S)) \subseteq BagToSet(B)
  BY DEF (-), SetToBag, BagToSet
<1>3. BagToSet(B (+) EmptyBag) = BagToSet(B)
  BY DEF (+), SetToBag, BagToSet, EmptyBag
<1> QED
  BY Zenon, <1>1, <1>2, <1>3, FS_Union, FS_Subset

\* Readvertise adds one command at a time.
LEMMA CallFinite ==
  ASSUME NEW B, NEW op, NEW p, NEW id, IsFiniteSet(BagToSet(B))
  PROVE  /\ IsFiniteSet(BagToSet(B (+) Call(op, p, id)))
         /\ IsFiniteSet(BagToSet(B (+) AdvertiseCalls(p, id)))
         /\ IsFiniteSet(BagToSet(B (+) EmptyBag))
<1>1. \A c : IsFiniteSet({c})
  BY FS_Singleton
<1> QED
  BY Zenon, <1>1, CallsFinite DEF Call, AdvertiseCalls

\* afterAddRoute
LEMMA AddCounts ==
  ASSUME CountsAreExact, NEW r \in RdRoutes, AfterAddRoute(r) PROVE CountsAreExact'
<1>1. r \notin rdRib /\ rdRib' = rdRib \cup {r} /\ r \notin DOMAIN routeToRr
  BY DEF AfterAddRoute, CountsAreExact
<1>2. CASE UNCHANGED <<routeToRr, rrs, rdCalls>>
  BY <1>1, <1>2 DEF CountsAreExact
<1>3. ASSUME NEW p, ReadvertiseNew(r, p) PROVE CountsAreExact'
  <2> DEFINE rr == IF p \notin DOMAIN rrs THEN [id |-> FreshId(p), n |-> 0, delay |-> 0, evt |-> "none"] ELSE rrs[p]
  <2>1. /\ routeToRr' = With(routeToRr, r, [prefix |-> p, id |-> rr.id])
        /\ \/ rr.n > 0 /\ rrs' = [rrs EXCEPT ![p].n = @ + 1] /\ rdCalls' = rdCalls
           \/ /\ ~ (rr.n > 0) /\ rrs' = With(rrs, p, [rr EXCEPT !.n = 1, !.delay = 1])
              /\ rdCalls' = rdCalls (+) AdvertiseCalls(p, rr.id)
    BY <1>3, Zenon DEF ReadvertiseNew
  <2>2. /\ DOMAIN rr = {"id", "n", "delay", "evt"}
        /\ rr.n = Cardinality(Behind(routeToRr, p, rr.id)) /\ rr.n \in Nat
        /\ p \in DOMAIN rrs => rr = rrs[p]
        /\ p \notin DOMAIN rrs => rr.n = 0
    <3>1. CASE p \in DOMAIN rrs
      <4>1. rr = rrs[p]
        BY <3>1
      <4>2. DOMAIN rrs[p] = {"id", "n", "delay", "evt"} /\ rrs[p].n = Cardinality(Behind(routeToRr, p, rrs[p].id))
        BY <3>1 DEF CountsAreExact
      <4>3. Cardinality(Behind(routeToRr, p, rrs[p].id)) \in Nat
        BY Zenon, BehindRemove DEF CountsAreExact
      <4> HIDE DEF rr
      <4> QED
        BY <3>1, <4>1, <4>2, <4>3
    <3>2. CASE p \notin DOMAIN rrs
      <4>1. rr = [id |-> FreshId(p), n |-> 0, delay |-> 0, evt |-> "none"]
        BY <3>2
      <4>2. Behind(routeToRr, p, FreshId(p)) = {}
        BY FreshIdIsFresh DEF Behind
      <4> QED
        BY <3>2, <4>1, <4>2, FS_EmptySet
    <3> QED
      BY <3>1, <3>2
  <2> HIDE DEF rr
  <2>3. /\ DOMAIN rrs' = DOMAIN rrs \cup {p}
        /\ DOMAIN rrs'[p] = {"id", "n", "delay", "evt"} /\ rrs'[p].id = rr.id /\ rrs'[p].n = rr.n + 1
        /\ \A q \in DOMAIN rrs : q # p => rrs'[q] = rrs[q]
    <3>1. CASE rr.n > 0 /\ rrs' = [rrs EXCEPT ![p].n = @ + 1]
      <4>1. p \in DOMAIN rrs /\ rr = rrs[p]
        BY <2>2, <3>1
      <4> QED
        BY <2>2, <3>1, <4>1
    <3>2. CASE ~ (rr.n > 0) /\ rrs' = With(rrs, p, [rr EXCEPT !.n = 1, !.delay = 1])
      <4>1. rr.n = 0
        BY <2>2, <3>2
      <4>2. PICK x : x = [rr EXCEPT !.n = 1, !.delay = 1]
        OBVIOUS
      <4>3. DOMAIN x = {"id", "n", "delay", "evt"} /\ x.id = rr.id /\ x.n = 1
        BY <2>2, <4>2
      <4>4. rrs' = [y \in DOMAIN rrs \cup {p} |-> IF y = p THEN x ELSE rrs[y]]
        BY <3>2, <4>2 DEF With
      <4> QED
        BY <4>1, <4>3, <4>4
    <3> QED
      BY <2>1, <3>1, <3>2
  <2>4. IsFiniteSet(BagToSet(rdCalls'))
    BY <2>1, CallFinite DEF CountsAreExact
  <2>5. /\ DOMAIN routeToRr' = DOMAIN routeToRr \cup {r}
        /\ \A s \in DOMAIN routeToRr' :
             routeToRr'[s] = IF s = r THEN [prefix |-> p, id |-> rr.id] ELSE routeToRr[s]
    BY <2>1 DEF With
  <2>6. IsFiniteSet(DOMAIN rrs') /\ IsFiniteSet(DOMAIN routeToRr')
    BY <2>3, <2>5, FS_AddElement DEF CountsAreExact
  <2>7. \A q, id : Cardinality(Behind(routeToRr', q, id))
                    = IF q = p /\ id = rr.id THEN Cardinality(Behind(routeToRr, q, id)) + 1
                                            ELSE Cardinality(Behind(routeToRr, q, id))
    BY <1>1, <2>1, BehindAdd DEF CountsAreExact
  <2>8. ASSUME NEW q \in DOMAIN rrs'
        PROVE  /\ DOMAIN rrs'[q] = {"id", "n", "delay", "evt"}
               /\ rrs'[q].n = Cardinality(Behind(routeToRr', q, rrs'[q].id))
    <3>1. CASE q = p
      BY <2>2, <2>3, <2>7, <3>1
    <3>2. CASE q # p
      <4>1. q \in DOMAIN rrs /\ rrs'[q] = rrs[q]
        BY <2>3, <3>2
      <4> QED
        BY <2>7, <3>2, <4>1 DEF CountsAreExact
    <3> QED
      BY <3>1, <3>2
  <2>9. /\ DOMAIN routeToRr' \subseteq rdRib'
        /\ \A s \in DOMAIN routeToRr' : routeToRr'[s] = [prefix |-> routeToRr'[s].prefix, id |-> routeToRr'[s].id]
    BY Zenon, <1>1, <2>5 DEF CountsAreExact
  <2> QED
    BY <2>4, <2>6, <2>8, <2>9 DEF CountsAreExact
<1>4. UNCHANGED <<routeToRr, rrs, rdCalls>> \/ \E p \in handleNewRoute(r) : ReadvertiseNew(r, p)
  BY Zenon DEF AfterAddRoute
<1> QED
  BY <1>2, <1>3, <1>4
\* beforeRemoveRoute
LEMMA RemoveCounts ==
  ASSUME CountsAreExact, NEW r \in RdRoutes, BeforeRemoveRoute(r) PROVE CountsAreExact'
<1>1. /\ r \in rdRib /\ rdRib' = rdRib \ {r} /\ routeToRr' = RdWithout(routeToRr, r)
      /\ \/ r \notin DOMAIN routeToRr /\ rrs' = rrs /\ rdCalls' = rdCalls
         \/ r \in DOMAIN routeToRr /\ ~ Refers(routeToRr[r]) /\ rrs' = rrs /\ rdCalls' = rdCalls
         \/ /\ r \in DOMAIN routeToRr /\ Refers(routeToRr[r]) /\ rrs[routeToRr[r].prefix].n > 1
            /\ rrs' = [rrs EXCEPT ![routeToRr[r].prefix].n = @ - 1] /\ rdCalls' = rdCalls
         \/ /\ r \in DOMAIN routeToRr /\ Refers(routeToRr[r]) /\ ~ (rrs[routeToRr[r].prefix].n > 1)
            /\ rrs' = [rrs EXCEPT ![routeToRr[r].prefix].n = 0, ![routeToRr[r].prefix].delay = 1]
            /\ rdCalls' = rdCalls (+) Call("withdraw", routeToRr[r].prefix, rrs[routeToRr[r].prefix].id)
         \/ /\ r \in DOMAIN routeToRr /\ Refers(routeToRr[r])
            /\ rrs' = RdWithout(rrs, routeToRr[r].prefix) /\ rdCalls' = rdCalls
  BY Zenon DEF BeforeRemoveRoute
<1>2. IsFiniteSet(BagToSet(rdCalls'))
  BY <1>1, CallFinite DEF CountsAreExact
<1>3. /\ DOMAIN routeToRr' = DOMAIN routeToRr \ {r}
      /\ \A s \in DOMAIN routeToRr' : routeToRr'[s] = routeToRr[s]
  BY <1>1 DEF RdWithout
<1>4. /\ IsFiniteSet(DOMAIN routeToRr') /\ DOMAIN routeToRr' \subseteq rdRib'
      /\ \A s \in DOMAIN routeToRr' : routeToRr'[s] = [prefix |-> routeToRr'[s].prefix, id |-> routeToRr'[s].id]
  BY <1>1, <1>3, FS_RemoveElement DEF CountsAreExact
<1>5. \A q, id :
        LET B == Behind(routeToRr, q, id)
        IN  /\ Cardinality(B) \in Nat
            /\ Cardinality(Behind(routeToRr', q, id)) = IF r \in B THEN Cardinality(B) - 1 ELSE Cardinality(B)
            /\ r \in B => Cardinality(B) >= 1
  BY <1>1, BehindRemove DEF CountsAreExact
<1>6. ASSUME IsFiniteSet(DOMAIN rrs'),
             \A q \in DOMAIN rrs' :
               /\ q \in DOMAIN rrs /\ DOMAIN rrs'[q] = DOMAIN rrs[q] /\ rrs'[q].id = rrs[q].id
               /\ rrs'[q].n = IF r \in Behind(routeToRr, q, rrs[q].id) THEN rrs[q].n - 1 ELSE rrs[q].n
      PROVE  CountsAreExact'
  <2>1. ASSUME NEW q \in DOMAIN rrs'
        PROVE  /\ DOMAIN rrs'[q] = {"id", "n", "delay", "evt"}
               /\ rrs'[q].n = Cardinality(Behind(routeToRr', q, rrs'[q].id))
    <3>1. DOMAIN rrs[q] = {"id", "n", "delay", "evt"} /\ rrs[q].n = Cardinality(Behind(routeToRr, q, rrs[q].id))
      BY <1>6, <2>1 DEF CountsAreExact
    <3> QED
      BY Zenon, <1>5, <1>6, <2>1, <3>1
  <2> QED
    BY <1>2, <1>4, <1>6, <2>1 DEF CountsAreExact
<1>7. CASE rrs' = rrs /\ \A q \in DOMAIN rrs : r \notin Behind(routeToRr, q, rrs[q].id)
  BY Zenon, <1>6, <1>7 DEF CountsAreExact
<1>8. CASE r \notin DOMAIN routeToRr /\ rrs' = rrs
  BY <1>7, <1>8 DEF Behind
<1>9. CASE r \in DOMAIN routeToRr /\ ~ Refers(routeToRr[r]) /\ rrs' = rrs
  BY <1>7, <1>9 DEF Behind, Refers
<1>10. ASSUME r \in DOMAIN routeToRr, Refers(routeToRr[r]) PROVE
         /\ routeToRr[r].prefix \in DOMAIN rrs
         /\ DOMAIN rrs[routeToRr[r].prefix] = {"id", "n", "delay", "evt"}
         /\ rrs[routeToRr[r].prefix].n \in Nat /\ rrs[routeToRr[r].prefix].n >= 1
         /\ \A q \in DOMAIN rrs : r \in Behind(routeToRr, q, rrs[q].id) <=> q = routeToRr[r].prefix
  <2> DEFINE p == routeToRr[r].prefix
  <2>1. p \in DOMAIN rrs /\ routeToRr[r] = [prefix |-> p, id |-> rrs[p].id]
    BY <1>10 DEF CountsAreExact, Refers
  <2> HIDE DEF p
  <2>2. \A q \in DOMAIN rrs : r \in Behind(routeToRr, q, rrs[q].id) <=> q = p
    BY <1>10, <2>1 DEF Behind
  <2>3. DOMAIN rrs[p] = {"id", "n", "delay", "evt"} /\ rrs[p].n = Cardinality(Behind(routeToRr, p, rrs[p].id))
    BY <2>1 DEF CountsAreExact
  <2>4. r \in Behind(routeToRr, p, rrs[p].id)
    BY <2>1, <2>2
  <2>5. rrs[p].n \in Nat /\ rrs[p].n >= 1
    <3> DEFINE B == Behind(routeToRr, p, rrs[p].id)
    <3>1. Cardinality(B) \in Nat /\ (r \in B => Cardinality(B) >= 1)
      BY <1>5
    <3> QED
      BY <2>3, <2>4, <3>1
  <2> QED
    BY <2>1, <2>2, <2>3, <2>5 DEF p
<1>11. CASE /\ r \in DOMAIN routeToRr /\ Refers(routeToRr[r])
            /\ rrs' = [rrs EXCEPT ![routeToRr[r].prefix].n = @ - 1]
  BY <1>6, <1>10, <1>11 DEF CountsAreExact
<1>12. CASE /\ r \in DOMAIN routeToRr /\ Refers(routeToRr[r]) /\ ~ (rrs[routeToRr[r].prefix].n > 1)
            /\ rrs' = [rrs EXCEPT ![routeToRr[r].prefix].n = 0, ![routeToRr[r].prefix].delay = 1]
  <2>1. rrs[routeToRr[r].prefix].n = 1
    BY <1>10, <1>12
  <2> QED
    BY <1>6, <1>10, <1>12, <2>1 DEF CountsAreExact
<1>13. CASE /\ r \in DOMAIN routeToRr /\ Refers(routeToRr[r])
            /\ rrs' = RdWithout(rrs, routeToRr[r].prefix)
  <2>1. DOMAIN rrs' = DOMAIN rrs \ {routeToRr[r].prefix} /\ \A q \in DOMAIN rrs' : rrs'[q] = rrs[q]
    BY <1>13 DEF RdWithout
  <2>2. IsFiniteSet(DOMAIN rrs')
    <3>1. IsFiniteSet(DOMAIN rrs)
      BY DEF CountsAreExact
    <3> QED
      BY <2>1, <3>1, FS_RemoveElement
  <2> QED
    BY <1>6, <1>10, <1>13, <2>1, <2>2
<1> QED
  BY <1>1, <1>8, <1>9, <1>11, <1>12, <1>13

\* A step that keeps the index may erase readvertised routes, but changes
\* neither the number nor the incarnation of one.
LEMMA SameCounts ==
  ASSUME CountsAreExact, UNCHANGED <<rdRib, routeToRr>>, IsFiniteSet(BagToSet(rdCalls')),
         DOMAIN rrs' \subseteq DOMAIN rrs,
         \A p \in DOMAIN rrs' : /\ DOMAIN rrs'[p] = DOMAIN rrs[p]
                               /\ rrs'[p].id = rrs[p].id /\ rrs'[p].n = rrs[p].n
  PROVE  CountsAreExact'
<1>1. IsFiniteSet(DOMAIN rrs')
  BY FS_Subset DEF CountsAreExact
<1> QED
  BY <1>1 DEF CountsAreExact

\* A prefix that is forgotten takes its count along.
LEMMA WithoutCounts ==
  ASSUME CountsAreExact, UNCHANGED <<rdRib, routeToRr>>, IsFiniteSet(BagToSet(rdCalls')),
         NEW p, rrs' = RdWithout(rrs, p)
  PROVE  CountsAreExact'
<1>1. DOMAIN rrs' \subseteq DOMAIN rrs /\ \A q \in DOMAIN rrs' : rrs'[q] = rrs[q]
  BY DEF RdWithout
<1> QED
  BY <1>1, SameCounts

\* setAvailability of the destination
LEMMA AvailableCounts ==
  ASSUME CountsAreExact, NEW g \in RdGateways,
         AfterDestinationAvailable(g) \/ AfterDestinationUnavailable(g)
  PROVE  CountsAreExact'
<1>1. CASE AfterDestinationAvailable(g)
  <2>1. \/ rrs' = rrs /\ rdCalls' = rdCalls
        \/ /\ rrs' = [p \in DOMAIN rrs |-> [rrs[p] EXCEPT !.delay = 1]]
           /\ rdCalls' = rdCalls (+) SetToBag({[op |-> "advertise", prefix |-> p, id |-> rrs[p].id] : p \in DOMAIN rrs})
    BY <1>1, Zenon DEF AfterDestinationAvailable
  <2>2. UNCHANGED <<rdRib, routeToRr>>
    BY <1>1 DEF AfterDestinationAvailable
  <2> DEFINE f == [p \in DOMAIN rrs |-> [op |-> "advertise", prefix |-> p, id |-> rrs[p].id]]
             S == {[op |-> "advertise", prefix |-> p, id |-> rrs[p].id] : p \in DOMAIN rrs}
  <2>3. IsFiniteSet({f[p] : p \in DOMAIN rrs})
    BY Zenon, FiniteRange DEF CountsAreExact
  <2>4. S = {f[p] : p \in DOMAIN rrs}
    OBVIOUS
  <2>5. IsFiniteSet(S)
    BY <2>3, <2>4
  <2>6. IsFiniteSet(BagToSet(rdCalls'))
    <3> HIDE DEF S
    <3>1. rdCalls' = rdCalls \/ rdCalls' = rdCalls (+) SetToBag(S)
      BY <2>1 DEF S
    <3> QED
      BY <2>5, <3>1, CallsFinite DEF CountsAreExact
  <2>7. /\ DOMAIN rrs' \subseteq DOMAIN rrs
        /\ \A p \in DOMAIN rrs' : /\ DOMAIN rrs'[p] = DOMAIN rrs[p]
                                /\ rrs'[p].id = rrs[p].id /\ rrs'[p].n = rrs[p].n
    BY <2>1 DEF CountsAreExact
  <2> QED
    BY <2>2, <2>6, <2>7, SameCounts
<1>2. CASE AfterDestinationUnavailable(g)
  <2>1. /\ rrs' = IF ~ rdAvailable THEN rrs
                  ELSE [p \in {p \in DOMAIN rrs : rrs[p].n > 0} |-> [rrs[p] EXCEPT !.evt = "none"]]
        /\ UNCHANGED <<rdRib, routeToRr, rdCalls>>
    BY <1>2 DEF AfterDestinationUnavailable
  <2>2. /\ DOMAIN rrs' \subseteq DOMAIN rrs
        /\ \A p \in DOMAIN rrs' : /\ DOMAIN rrs'[p] = DOMAIN rrs[p]
                                /\ rrs'[p].id = rrs[p].id /\ rrs'[p].n = rrs[p].n
    BY <2>1 DEF CountsAreExact
  <2>3. IsFiniteSet(BagToSet(rdCalls'))
    BY <2>1 DEF CountsAreExact
  <2> QED
    BY <2>1, <2>2, <2>3, SameCounts
<1> QED
  BY <1>1, <1>2
\* Answers to a command, and the timer
LEMMA AnswerCounts ==
  ASSUME CountsAreExact, NEW c, AdvertiseSucceeds(c) \/ WithdrawSucceeds(c) \/ CommandFails(c)
  PROVE  CountsAreExact'
<1>1. UNCHANGED <<rdRib, routeToRr>> /\ rdCalls' = rdCalls (-) SetToBag({c}) /\ (~ Refers(c) => rrs' = rrs)
  BY Zenon DEF AdvertiseSucceeds, WithdrawSucceeds, CommandFails, Dangles
<1>2. IsFiniteSet(BagToSet(rdCalls'))
  BY Zenon, <1>1, CallsFinite, FS_Singleton DEF CountsAreExact
<1>3. CASE ~ Refers(c)
  BY <1>1, <1>2, <1>3, SameCounts
<1>4. CASE Refers(c)
  <2>1. \/ rrs' = RdWithout(rrs, c.prefix)
        \/ rrs' = [rrs EXCEPT ![c.prefix].delay = 1, ![c.prefix].evt = "advertise"]
        \/ rrs' = [rrs EXCEPT ![c.prefix].delay = DoubledDelay(@), ![c.prefix].evt = c.op]
    BY <1>4, Zenon DEF AdvertiseSucceeds, WithdrawSucceeds, CommandFails
  <2>2. CASE rrs' = RdWithout(rrs, c.prefix)
    BY <1>1, <1>2, <2>2, WithoutCounts
  <2>3. ASSUME NEW d, NEW e, rrs' = [rrs EXCEPT ![c.prefix].delay = d, ![c.prefix].evt = e]
        PROVE  CountsAreExact'
    <3>1. /\ DOMAIN rrs' \subseteq DOMAIN rrs
          /\ \A p \in DOMAIN rrs' : /\ DOMAIN rrs'[p] = DOMAIN rrs[p]
                                  /\ rrs'[p].id = rrs[p].id /\ rrs'[p].n = rrs[p].n
      BY <2>3 DEF CountsAreExact
    <3> QED
      BY <1>1, <1>2, <3>1, SameCounts
  <2>4. CASE rrs' = [rrs EXCEPT ![c.prefix].delay = DoubledDelay(@), ![c.prefix].evt = c.op]
    <3>1. rrs' = [rrs EXCEPT ![c.prefix].delay = DoubledDelay(rrs[c.prefix].delay), ![c.prefix].evt = c.op]
      BY <2>4
    <3> QED
      BY Zenon, <2>3, <3>1
  <2> QED
    BY <2>1, <2>2, <2>3, <2>4
<1> QED
  BY <1>3, <1>4

\* The retry timer leaves the index and the counts alone.
LEMMA TimerCounts ==
  ASSUME CountsAreExact, NEW p, RetryTimer(p) PROVE CountsAreExact'
<1>1. /\ UNCHANGED <<rdRib, routeToRr>>
      /\ \/ rrs' = RdWithout(rrs, p) /\ rdCalls' = rdCalls
         \/ /\ rrs' = [rrs EXCEPT ![p].evt = "none"]
            /\ \/ rdCalls' = rdCalls (+) Call(rrs[p].evt, p, rrs[p].id)
               \/ rdCalls' = rdCalls (+) EmptyBag
  BY Zenon DEF RetryTimer
<1>2. IsFiniteSet(BagToSet(rdCalls'))
  BY <1>1, CallFinite DEF CountsAreExact
<1>3. CASE rrs' = RdWithout(rrs, p)
  BY <1>1, <1>2, <1>3, WithoutCounts
<1>4. CASE rrs' = [rrs EXCEPT ![p].evt = "none"]
  <2>1. /\ DOMAIN rrs' \subseteq DOMAIN rrs
        /\ \A q \in DOMAIN rrs' : /\ DOMAIN rrs'[q] = DOMAIN rrs[q]
                                /\ rrs'[q].id = rrs[q].id /\ rrs'[q].n = rrs[q].n
    BY <1>4 DEF CountsAreExact
  <2> QED
    BY <1>1, <1>2, <2>1, SameCounts
<1> QED
  BY <1>1, <1>3, <1>4

\* nRibRoutes is exact for any RIB, policy and destination, however commands
\* are delayed or fail (RrCountsRoutes of Readvertise).
THEOREM CountsAreRight == RdSpec => []RrCountsRoutes
<1>1. RdInit => CountsAreExact
  <2> SUFFICES ASSUME RdInit PROVE CountsAreExact
    OBVIOUS
  <2>1. DOMAIN rrs = {} /\ DOMAIN routeToRr = {} /\ BagToSet(rdCalls) = {}
    BY DEF RdInit, EmptyBag, SetToBag, BagToSet
  <2> QED
    BY <2>1, FS_EmptySet DEF CountsAreExact
<1>2. CountsAreExact /\ [RdNext]_rdVars => CountsAreExact'
  <2> SUFFICES ASSUME CountsAreExact, [RdNext]_rdVars PROVE CountsAreExact'
    OBVIOUS
  <2>1. CASE UNCHANGED rdVars
    BY <2>1 DEF rdVars, CountsAreExact
  <2>2. CASE RdNext
    BY <2>2, AddCounts, RemoveCounts, AvailableCounts, AnswerCounts, TimerCounts, Zenon DEF RdNext, RdAnswer
  <2> QED
    BY <2>1, <2>2
<1>3. CountsAreExact => RrCountsRoutes
  BY DEF CountsAreExact, RrCountsRoutes, Behind
<1> QED
  BY <1>1, <1>2, <1>3, PTL DEF RdSpec
-----------------------------------------------------------------------------
(* AsfStrategy.                                                            *)

AsSpec == AsInit /\ [][AsNext]_asVars

FaceInfoFields == {"isTimeout", "rtt", "srtt", "isTimeoutScheduled", "timeoutAt", "lastInterestName", "nSilentTimeouts"}

\* A FaceInfo at time now: its event is pending and not overdue, or there is none.
InfoOK(i, now) ==
  /\ DOMAIN i = FaceInfoFields
  /\ \/ ~ i.isTimeoutScheduled /\ i.timeoutAt = AsNoTimer
     \/ i.isTimeoutScheduled /\ i.timeoutAt \in Nat /\ i.timeoutAt >= now

EventsPending ==
  /\ asNow \in Nat \ {0}
  /\ \A u \in DOMAIN asFit : InfoOK(asFit[u], asNow)
  /\ DOMAIN asProbe = {"isProbingDue", "firstScheduled", "events"}
  /\ asProbe.firstScheduled => asProbe.isProbingDue \/ asProbe.events # {}
\* Every FaceInfo of a table is in order.
FitOK(fit, now) == \A u \in DOMAIN fit : InfoOK(fit[u], now)

\* What forwarding, an answer or a timeout make of a FaceInfo.
LEMMA InfoChanges ==
  ASSUME NEW now \in Nat, NEW i, InfoOK(i, now)
  PROVE  /\ \A rtt : InfoOK(recordRtt(i, rtt), now)
         /\ \A name : InfoOK(cancelTimeoutEvent(i, name), now)
         /\ \A name : InfoOK(recordTimeout(i, name), now)
         /\ \A k : InfoOK([i EXCEPT !.nSilentTimeouts = k], now)
<1>1. ASSUME NEW j, InfoOK(j, now), NEW name PROVE InfoOK(cancelTimeoutEvent(j, name), now)
  BY <1>1 DEF InfoOK, cancelTimeoutEvent, FaceInfoFields
<1>2. InfoOK([i EXCEPT !.isTimeout = TRUE], now)
  BY DEF InfoOK, FaceInfoFields
<1>3. \A name : InfoOK(recordTimeout(i, name), now)
  BY <1>1, <1>2 DEF recordTimeout
<1>4. \A rtt : InfoOK(recordRtt(i, rtt), now)
  BY DEF recordRtt, InfoOK, FaceInfoFields
<1>5. \A k : InfoOK([i EXCEPT !.nSilentTimeouts = k], now)
  BY DEF InfoOK, FaceInfoFields
<1> QED
  BY <1>1, <1>3, <1>4, <1>5

\* One FaceInfo is stored.
LEMMA SetKeepsFit ==
  ASSUME NEW now, NEW fit, FitOK(fit, now), NEW u, NEW i, InfoOK(i, now)
  PROVE  FitOK(SetFaceInfo(fit, u, i), now)
BY DEF FitOK, SetFaceInfo

\* A FaceInfo that was just made has nothing scheduled.
LEMMA GotInfo ==
  ASSUME NEW now, NEW fit, FitOK(fit, now), NEW u
  PROVE  InfoOK(getOrCreateFaceInfo(fit, u), now)
BY DEF FitOK, getOrCreateFaceInfo, FaceInfo, InfoOK, FaceInfoFields

\* forwardInterest schedules a timeout with the flag it sets.
LEMMA ForwardedFit ==
  ASSUME EventsPending, NEW fit, FitOK(fit, asNow), NEW u, NEW name, NEW rto \in AsRtos
  PROVE  FitOK(ForwardedInfo(fit, u, name, rto), asNow)
<1> DEFINE i == getOrCreateFaceInfo(fit, u)
           i1 == IF i.isTimeoutScheduled THEN i
                 ELSE [i EXCEPT !.isTimeoutScheduled = TRUE, !.timeoutAt = asNow + rto, !.lastInterestName = name]
<1>1. InfoOK(i, asNow)
  BY GotInfo
<1>2. asNow \in Nat /\ rto \in Nat
  BY AsAssumption DEF EventsPending
<1> HIDE DEF i
<1>3. InfoOK(i1, asNow)
  BY <1>1, <1>2 DEF InfoOK, FaceInfoFields
<1>4. ForwardedInfo(fit, u, name, rto) = SetFaceInfo(fit, u, i1)
  BY DEF ForwardedInfo, i
<1> HIDE DEF i1
<1> QED
  BY <1>3, <1>4, SetKeepsFit

\* onTimeout clears event and flag together, or neither.
LEMMA TimeoutFit ==
  ASSUME EventsPending, NEW u, NEW n, AsOnTimeout(u, n) PROVE FitOK(asFit', asNow)
<1> DEFINE i == getOrCreateFaceInfo(asFit, u)
           i1 == [i EXCEPT !.nSilentTimeouts = Min({@ + 1, AsMaxSilentTimeouts + 1})]
           i2 == IF i1.nSilentTimeouts <= AsMaxSilentTimeouts THEN cancelTimeoutEvent(i1, n) ELSE recordTimeout(i1, n)
<1>1. FitOK(asFit, asNow) /\ asNow \in Nat
  BY DEF EventsPending, FitOK
<1>2. InfoOK(i, asNow)
  BY <1>1, GotInfo
<1>3. asFit' = SetFaceInfo(asFit, u, i2)
  BY DEF AsOnTimeout
<1> HIDE DEF i
<1>4. InfoOK(i1, asNow)
  <2> DEFINE k == Min({i.nSilentTimeouts + 1, AsMaxSilentTimeouts + 1})
  <2>1. i1 = [i EXCEPT !.nSilentTimeouts = k]
    OBVIOUS
  <2> HIDE DEF k, i1
  <2> QED
    BY <1>1, <1>2, <2>1, InfoChanges
<1> HIDE DEF i1
<1>5. InfoOK(i2, asNow)
  BY <1>1, <1>4, InfoChanges
<1> HIDE DEF i2
<1> QED
  BY <1>1, <1>3, <1>5, SetKeepsFit

\* Once the first probe is scheduled, probing is due or will be.
ProbeOK(p) ==
  /\ DOMAIN p = {"isProbingDue", "firstScheduled", "events"}
  /\ p.firstScheduled => p.isProbingDue \/ p.events # {}

\* Scheduling and sending a probe leave another one due or scheduled.
LEMMA ForwardedProbe ==
  ASSUME EventsPending, NEW d
  PROVE  ProbeOK(FirstProbe(asProbe, d)) /\ ProbeOK(afterForwardingProbe(FirstProbe(asProbe, d)))
<1>1. ProbeOK(asProbe)
  BY DEF EventsPending, ProbeOK
<1>2. ProbeOK(FirstProbe(asProbe, d))
  BY <1>1 DEF ProbeOK, FirstProbe
<1>3. ASSUME NEW p, ProbeOK(p) PROVE ProbeOK(afterForwardingProbe(p))
  BY <1>3 DEF ProbeOK, afterForwardingProbe
<1> QED
  BY <1>2, <1>3

\* What is forwarded has a timeout, and a probe is followed by another.
LEMMA ForwardPending ==
  ASSUME EventsPending, NEW e, NEW n, NEW eligible, AsForward(e, n, eligible)
  PROVE  FitOK(asFit', asNow) /\ ProbeOK(asProbe')
<1>1. PICK rto \in AsRtos, d \in AsFirstProbe :
        \/ /\ asFit' = ForwardedInfo(asFit, getBestFaceForForwarding(eligible), n, rto)
           /\ asProbe' = FirstProbe(asProbe, d)
        \/ \E u : /\ asFit' = ForwardedInfo(ForwardedInfo(asFit, getBestFaceForForwarding(eligible), n, rto), u, n, rto)
                  /\ asProbe' = afterForwardingProbe(FirstProbe(asProbe, d))
  BY Zenon DEF AsForward
<1>2. PICK best : best = getBestFaceForForwarding(eligible)
  OBVIOUS
<1>3. FitOK(asFit, asNow)
  BY DEF EventsPending, FitOK
<1>4. PICK fit : fit = ForwardedInfo(asFit, best, n, rto)
  OBVIOUS
<1>5. FitOK(fit, asNow)
  BY <1>3, <1>4, ForwardedFit
<1>6. \A u : FitOK(ForwardedInfo(fit, u, n, rto), asNow)
  BY <1>5, ForwardedFit
<1> QED
  BY <1>1, <1>2, <1>4, <1>5, <1>6, ForwardedProbe

\* Every step keeps what is waited for scheduled.
LEMMA EventsStep ==
  ASSUME EventsPending, [AsNext]_asVars PROVE EventsPending'
<1>1. FitOK(asFit, asNow) /\ ProbeOK(asProbe) /\ asNow \in Nat \ {0}
  BY DEF EventsPending, FitOK, ProbeOK
<1>2. ASSUME asNow' = asNow, FitOK(asFit', asNow), ProbeOK(asProbe') PROVE EventsPending'
  BY <1>1, <1>2 DEF EventsPending, FitOK, ProbeOK
<1>3. ASSUME NEW f, NEW n, AsInterest(f, n) PROVE EventsPending'
  <2>1. asNow' = asNow /\ (UNCHANGED <<asFit, asProbe>> \/ \E e, eligible : AsForward(e, n, eligible))
    BY <1>3, Zenon DEF AsInterest
  <2> QED
    BY <1>1, <1>2, <2>1, ForwardPending
<1>4. ASSUME NEW n, AsFinalize(n) PROVE EventsPending'
  BY <1>1, <1>2, <1>4 DEF AsFinalize
<1>5. ASSUME NEW n, NEW u, AsData(n, u) PROVE EventsPending'
  <2>1. PICK rtt : rtt = asNow - asEntry[n].out[u].renewed
    OBVIOUS
  <2>2. /\ asNow' = asNow /\ asProbe' = asProbe
        /\ \/ asFit' = asFit
           \/ /\ u \in DOMAIN asFit
              /\ asFit' = [asFit EXCEPT ![u] = cancelTimeoutEvent(recordRtt(asFit[u], rtt), n)]
    BY <1>5, <2>1 DEF AsData
  <2>3. u \in DOMAIN asFit => InfoOK(cancelTimeoutEvent(recordRtt(asFit[u], rtt), n), asNow)
    <3>1. ASSUME u \in DOMAIN asFit PROVE InfoOK(recordRtt(asFit[u], rtt), asNow)
      BY <1>1, <3>1, InfoChanges DEF FitOK
    <3> QED
      BY <1>1, <3>1, InfoChanges
  <2>4. FitOK(asFit', asNow)
    BY <1>1, <2>2, <2>3 DEF FitOK
  <2> QED
    BY <1>1, <1>2, <2>2, <2>4
<1>6. ASSUME NEW n, NEW u, AsNack(n, u) PROVE EventsPending'
  <2>1. asNow' = asNow /\ asProbe' = asProbe /\ AsOnTimeout(u, n)
    BY <1>6, Zenon DEF AsNack
  <2> QED
    BY <1>1, <1>2, <2>1, TimeoutFit
<1>7. ASSUME NEW u, AsTimeout(u) PROVE EventsPending'
  <2>1. asNow' = asNow /\ asProbe' = asProbe /\ AsOnTimeout(u, asFit[u].lastInterestName)
    BY <1>7, Zenon DEF AsTimeout
  <2>2. PICK n : n = asFit[u].lastInterestName
    OBVIOUS
  <2>3. FitOK(asFit', asNow)
    BY <2>1, <2>2, TimeoutFit
  <2> QED
    BY <1>1, <1>2, <2>1, <2>3
<1>8. ASSUME NEW u, AsExpireFaceInfo(u) \/ AsRemoveFace(u) PROVE EventsPending'
  <2>1. /\ asNow' = asNow /\ asProbe' = asProbe
        /\ asFit' = asFit \/ asFit' = Restrict(asFit, DOMAIN asFit \ {u})
    BY Zenon, <1>8 DEF AsExpireFaceInfo, AsRemoveFace
  <2>2. FitOK(asFit', asNow)
    BY <1>1, <2>1 DEF FitOK, Restrict
  <2> QED
    BY <1>1, <1>2, <2>1, <2>2
<1>9. ASSUME NEW t, AsProbeEvent(t) PROVE EventsPending'
  <2>1. /\ asNow' = asNow /\ asFit' = asFit
        /\ asProbe' = [asProbe EXCEPT !.events = @ \ {t}, !.isProbingDue = @ \/ asProbe.firstScheduled]
    BY <1>9 DEF AsProbeEvent
  <2>2. ProbeOK(asProbe')
    BY Zenon, <1>1, <2>1 DEF ProbeOK
  <2> QED
    BY <1>1, <1>2, <2>1, <2>2
<1>10. ASSUME AsExpireNamespace PROVE EventsPending'
  <2>1. asNow' = asNow /\ asFit' = << >> /\ asProbe' = [NamespaceInfo EXCEPT !.events = asProbe.events]
    BY <1>10 DEF AsExpireNamespace, NoRecords
  <2>2. FitOK(asFit', asNow)
    BY <2>1 DEF FitOK
  <2>3. ProbeOK(asProbe')
    BY <2>1 DEF ProbeOK, NamespaceInfo
  <2> QED
    BY <1>2, <2>1, <2>2, <2>3
<1>11. ASSUME AsTick PROVE EventsPending'
  <2>1. /\ asNow' = asNow + 1 /\ UNCHANGED <<asFit, asProbe>>
        /\ \A u \in DOMAIN asFit : asFit[u].timeoutAt \notin 1..asNow
    BY <1>11 DEF AsTick
  <2>2. ASSUME NEW u \in DOMAIN asFit PROVE InfoOK(asFit[u], asNow + 1)
    BY <1>1, <2>1, <2>2 DEF FitOK, InfoOK, AsNoTimer
  <2> QED
    BY <1>1, <2>1, <2>2 DEF EventsPending, ProbeOK
<1>12. CASE UNCHANGED asVars
  BY <1>12 DEF asVars, EventsPending
<1>13. CASE AsNext
  BY <1>3, <1>4, <1>5, <1>6, <1>7, <1>8, <1>9, <1>10, <1>11, <1>13, Zenon DEF AsNext
<1> QED
  BY <1>12, <1>13

\* ASF waits for nothing that is not scheduled, with any number of names and
\* next hops (FlagsHaveEvents of AsfStrategy): no flag without its timer, and
\* probing does not die out.
THEOREM AsfKeepsWaitingForEvents == AsSpec => []FlagsHaveEvents
<1>1. AsInit => EventsPending
  BY DEF AsInit, EventsPending, NoRecords, NamespaceInfo
<1>2. EventsPending => FlagsHaveEvents
  BY DEF EventsPending, FlagsHaveEvents, InfoOK, AsNoTimer
<1> QED
  BY <1>1, <1>2, EventsStep, PTL DEF AsSpec
=============================================================================
