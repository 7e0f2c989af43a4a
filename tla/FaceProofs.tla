----------------------------- MODULE FaceProofs -----------------------------
(***************************************************************************)
(* Proofs about faces: the NDNLPv2 fields of a packet along a chain of any *)
(* length (GenericLinkService).                                            *)
(***************************************************************************)
EXTENDS GenericLinkService, TLAPS

LpSpec == LpInit /\ [][LpNext]_lpVars

SelfLearningFields == {"NonDiscovery", "PrefixAnnouncement"}

\* What FieldsSurviveHops leaves out: a packet a forwarder has accepted has
\* only the self-learning field of its kind, so the next decoder does not
\* refuse it.
FieldsFitKind ==
  /\ lpAt \in 0..LpNodes /\ lpKind \in {"Interest", "Data", "Nack"}
  /\ lpAt = 0 => lpDropped = "no" /\ lpHops = LpNoHops /\ (lpMarked => "CongestionMark" \in lpTags)
  /\ Here => /\ lpKind # "Interest" => "NonDiscovery" \notin lpTags
             /\ lpKind # "Data" => "PrefixAnnouncement" \notin lpTags

\* Link fields stay right over a chain of forwarders of any length, for any
\* fields the application sets and any options of the faces on the way
\* (encodeLpFields, decodeInterest, decodeData, decodeNack).
THEOREM FieldsSurvive == LpSpec => []FieldsSurviveHops
<1> DEFINE Inv == FieldsFitKind /\ FieldsSurviveHops
<1>1. LpInit => Inv
  <2> SUFFICES ASSUME LpInit PROVE Inv
    OBVIOUS
  <2>1. lpMarked => "CongestionMark" \in lpTags
    <3>1. lpMarked = ("CongestionMark" \in lpTags)
      BY DEF LpInit
    <3> QED
      BY <3>1, Zenon
  <2>2. lpAt = 0 /\ lpHops = LpNoHops /\ lpDropped = "no" /\ lpKind \in {"Interest", "Data", "Nack"}
    BY DEF LpInit
  <2> QED
    BY <2>1, <2>2, LpNodesAssumption DEF FieldsFitKind, FieldsSurviveHops, Here
<1>2. Inv /\ [LpNext]_lpVars => Inv'
  <2> SUFFICES ASSUME Inv, [LpNext]_lpVars PROVE Inv'
    OBVIOUS
  <2>1. ASSUME NEW mark \in BOOLEAN, CrossLink(mark) PROVE Inv'
    <3> DEFINE o    == lpOptions[lpAt + 1].rx
               sent == (IF lpAt = 0 THEN lpTags ELSE encodeLpFields(lpAt))
                       \cup (IF mark THEN {"CongestionMark"} ELSE {})
               hops == IF lpAt = 0 \/ lpHops # LpNoHops THEN lpHops ELSE 0
    <3>1. /\ lpAt < LpNodes /\ lpDropped = "no" /\ lpAt' = lpAt + 1 /\ UNCHANGED <<lpKind, lpOptions>>
          /\ lpDropped' = Refused(lpKind, sent, o)
          /\ lpTags' = Decoded(lpKind, sent, o) \cup {"IncomingFaceId"}
          /\ lpHops' = HopsDecoded(lpKind, hops)
          /\ lpMarked' = (lpMarked \/ mark)
      BY <2>1 DEF CrossLink
    <3>2. lpAt \in Nat /\ lpAt' \in 1..LpNodes
      BY <3>1, LpNodesAssumption DEF FieldsFitKind
    <3>3. lpAt > 0 => /\ sent \subseteq {"CongestionMark", "IncomingFaceId"} \cup SelfLearningFields
                      /\ lpKind # "Interest" => "NonDiscovery" \notin sent
                      /\ lpKind # "Data" => "PrefixAnnouncement" \notin sent
      BY <3>1, <3>2 DEF FieldsFitKind, Here, encodeLpFields, SelfLearningFields
    <3>4. lpDropped' # "no" => lpAt' = 1
      <4>1. lpAt > 0 => Refused(lpKind, sent, o) = "no"
        <5> SUFFICES ASSUME lpAt > 0 PROVE Refused(lpKind, sent, o) = "no"
          OBVIOUS
        <5> HIDE DEF sent, o
        <5>1. lpKind \in {"Interest", "Data", "Nack"}
          BY DEF FieldsFitKind
        <5> QED
          BY <3>3, <5>1 DEF Refused, SelfLearningFields
      <4> HIDE DEF sent, o
      <4> QED
        BY <3>1, <3>2, <4>1
    <3>5. lpMarked' => "CongestionMark" \in lpTags'
      <4>1. lpMarked => "CongestionMark" \in lpTags
        BY <3>1, <3>2 DEF FieldsFitKind, FieldsSurviveHops, Here
      <4>2. lpMarked \/ mark => "CongestionMark" \in sent
        BY <4>1 DEF encodeLpFields
      <4> HIDE DEF sent, o
      <4> QED
        BY <3>1, <4>2 DEF Decoded
    <3>6. lpKind # "Nack" => lpHops' = IF lpAt' = 1 THEN LpNoHops ELSE lpAt' - 1
      <4>1. lpKind # "Nack" => lpHops = IF lpAt \in {0, 1} THEN LpNoHops ELSE lpAt - 1
        BY <3>1, <3>2 DEF FieldsFitKind, FieldsSurviveHops, Here
      <4> HIDE DEF sent, o
      <4> QED
        BY <3>1, <3>2, <4>1, LpNodesAssumption DEF HopsDecoded, LpNoHops
    <3>7. lpDropped' = "no" => /\ lpKind # "Interest" => "NonDiscovery" \notin sent
                               /\ lpKind # "Data" => "PrefixAnnouncement" \notin sent
      <4> HIDE DEF sent, o
      <4>1. lpKind \in {"Interest", "Data", "Nack"}
        BY DEF FieldsFitKind
      <4> QED
        BY <3>1, <4>1 DEF Refused
    <3>8. lpTags' \cap SelfLearningFields # {} =>
            /\ lpOptions[lpAt'].rx.selfLearning
            /\ lpAt > 0 => lpOptions[lpAt].tx.selfLearning /\ lpTags \cap SelfLearningFields # {}
      <4>1. lpTags' \cap SelfLearningFields # {} => o.selfLearning /\ sent \cap SelfLearningFields # {}
        <5> HIDE DEF sent, o
        <5> QED
          BY <3>1 DEF Decoded, SelfLearningFields
      <4>2. lpAt > 0 /\ sent \cap SelfLearningFields # {} =>
              lpOptions[lpAt].tx.selfLearning /\ lpTags \cap SelfLearningFields # {}
        BY <3>2 DEF encodeLpFields, SelfLearningFields
      <4> QED
        BY Zenon, <3>1, <3>2, <4>1, <4>2
    <3>9. lpTags' \cap SelfLearningFields # {} =>
            /\ \A i \in 1..lpAt' : lpOptions'[i].rx.selfLearning
            /\ \A i \in 1..(lpAt' - 1) : lpOptions'[i].tx.selfLearning
      <4> HIDE DEF sent, o, hops
      <4>1. lpAt > 0 /\ lpTags \cap SelfLearningFields # {} =>
              /\ \A i \in 1..lpAt : lpOptions[i].rx.selfLearning
              /\ \A i \in 1..(lpAt - 1) : lpOptions[i].tx.selfLearning
        BY <3>1 DEF FieldsSurviveHops, Here, SelfLearningFields
      <4> QED
        BY <3>1, <3>2, <3>8, <4>1
    <3>10. FieldsFitKind'
      <4> HIDE DEF sent, o, hops
      <4>1. lpTags' \cap SelfLearningFields \subseteq sent
        BY <3>1 DEF Decoded, SelfLearningFields
      <4>2. lpKind' \in {"Interest", "Data", "Nack"} /\ lpAt' # 0
        BY <3>1, <3>2 DEF FieldsFitKind
      <4> QED
        BY <3>1, <3>2, <3>7, <4>1, <4>2, LpNodesAssumption DEF FieldsFitKind, Here, SelfLearningFields
    <3> HIDE DEF sent, o, hops
    <3> QED
      BY <3>1, <3>2, <3>4, <3>5, <3>6, <3>9, <3>10 DEF FieldsSurviveHops, Here, SelfLearningFields
  <2>2. CASE UNCHANGED lpVars
    BY <2>2 DEF lpVars, FieldsFitKind, FieldsSurviveHops, Here
  <2> QED
    BY <2>1, <2>2 DEF LpNext
<1> QED
  BY <1>1, <1>2, PTL DEF LpSpec
=============================================================================
