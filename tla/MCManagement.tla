---------------------------- MODULE MCManagement ----------------------------
(***************************************************************************)
(* The tables, the management of NFD and its clients, for TLC.  The parts  *)
(* share no state, so each is explored by itself: mcPart, chosen at the    *)
(* start, says which one moves.                                            *)
(*   cs, dnl  the Content Store under its two policies; the Dead Nonce     *)
(*            List                                                         *)
(*   names    the NameTree under FIB and PIT, with colliding hashes        *)
(*   choice   strategy choice and measurements on the NameTree             *)
(*   daemon   the two threads of NFD, its configuration file, commands     *)
(*   clients  FaceManager and two nfdc processes                           *)
(*   hub      ndn-autoconfig                                               *)
(***************************************************************************)
EXTENDS ContentStore, DeadNonceList, NameTreeTables, NfdDaemon, FaceManagement, Autoconfig

CONSTANT MCParts   \* the parts to explore

VARIABLE mcPart

mcVars == <<mcPart, cs, dnlVars, nt, fibAt, pitAt, meas, sc, ndVars, fmVars, auVars>>

MCCsPackets == << [name |-> <<"a">>, fresh |-> 1, noCache |-> FALSE],
                  [name |-> <<"a", "b">>, fresh |-> 0, noCache |-> FALSE],
                  [name |-> <<"a", "b", "c">>, fresh |-> 2, noCache |-> FALSE],
                  [name |-> <<"a", "d">>, fresh |-> 1, noCache |-> TRUE] >>
MCCsInterests ==
    { [name |-> <<"a">>, canBePrefix |-> TRUE, mustBeFresh |-> TRUE, rightmost |-> TRUE],
      [name |-> <<"a">>, canBePrefix |-> TRUE, mustBeFresh |-> FALSE, rightmost |-> TRUE],
      [name |-> <<"a", "b">>, canBePrefix |-> FALSE, mustBeFresh |-> FALSE, rightmost |-> FALSE] }

\* a and b collide, and so do the root and every name of an even number of them
MCCompHash == [c \in {"a", "b", "digest"} |-> IF c = "digest" THEN 2 ELSE 1]
MCDefault == [type |-> "best-route", version |-> 1]
MCFibNames == { <<"b">>, <<"a", "b">>, <<"b", "digest">> }
MCIndexPit == { <<"b", "a", "a">>, <<"b", "digest">> }
MCAsf == [type |-> "asf", version |-> 1]
MCChoices == { << <<"a">>, MCDefault >>, << <<"a">>, MCAsf >>,
               << <<"a", "b">>, MCAsf >>, << <<"a", "b">>, [MCDefault EXCEPT !.version = 2] >> }
MCChoicePit == { <<"a", "b">>, <<"a", "digest">> }

Grant(s, ms) == [signer |-> s, modules |-> ms]
Auth(grants) == [kind |-> "authorizations", grants |-> grants]
Sec(kind, error) == [kind |-> kind, error |-> error]
\* Two sound files, one of them with "any"; one with a strategy parameter error,
\* after the privileges; one that even a dry run refuses, before the privileges;
\* one with an unknown module after a known one; one without privileges to give;
\* one without the section; one whose faces cannot be set up.
MCFiles ==
  { <<Auth(<<Grant("k1", <<"faces", "fib">>)>>), Sec("tables", "none"), Sec("face_system", "none")>>,
    <<Auth(<<Grant("k2", <<"faces">>), Grant("any", <<"fib">>), Grant("k1", <<"fib">>)>>)>>,
    <<Auth(<<Grant("k2", <<"faces">>)>>), Sec("tables", "apply")>>,
    <<Sec("tables", "check"), Auth(<<Grant("k2", <<"fib">>)>>)>>,
    <<Auth(<<Grant("k2", <<"faces", "typo">>)>>)>>,
    <<Auth(<< >>)>>,
    <<Sec("face_system", "none")>>,
    <<Auth(<<Grant("k2", <<"fib">>)>>), Sec("face_system", "apply")>> }

NfdcCreate(u, p, r, m, t) == [kind |-> "create", uri |-> u, pers |-> p, rel |-> r, mark |-> m, mtu |-> t]
Nfdc(k, u) == [kind |-> k, uri |-> u]
FaceUpdate(u, p, r, l) == [kind |-> "update", uri |-> u, pers |-> p, rel |-> r, mark |-> Unset, local |-> l]
Both(C, D) == {("c" :> a) @@ ("d" :> b) : a \in C, b \in D}
MCCreates == { NfdcCreate("udp", "persistent", "on", Unset, Unset), NfdcCreate("udp", "permanent", "on", "off", Unset),
               NfdcCreate("udp", "permanent", "off", "on", "small") }
MCOthers == { Nfdc("destroy", "udp"), Nfdc("route-add", "udp") }
MCUpdates == { FaceUpdate("udp", "permanent", "off", "on"), FaceUpdate("unix", "permanent", "on", "on") }
\* nfdc face create against a destroy or a route add; those against each other
\* and a route remove; nfdc face create against updates that may be refused.
MCScripts ==
  Both(MCCreates, MCOthers) \cup Both({Nfdc("destroy", "udp")}, MCOthers \cup {Nfdc("route-remove", "udp")})
  \cup Both({NfdcCreate("udp", "permanent", Unset, "off", Unset)}, MCUpdates)
  \cup Both({NfdcCreate("tcp", "permanent", "on", Unset, t) : t \in {Unset, "small"}},
            {FaceUpdate("tcp", "persistent", "off", Unset)})

-----------------------------------------------------------------------------
\* Every part in its initial states; one that does not move in one of them.
MCInit ==
  /\ mcPart \in MCParts
  /\ CsInit /\ NtInit
  /\ dnlRate \in (IF mcPart = "dnl" THEN DnlRates ELSE {0}) /\ dnl = DnlStart /\ dnlDue = dnlRate
  /\ NdInit /\ (mcPart = "daemon" \/ ndFile = CHOOSE f \in NdFiles : TRUE)
  /\ FmInit /\ (mcPart = "clients" \/ \A c \in FmClients : fmRun[c].cmd = Nfdc("destroy", "udp"))
  /\ AuInit /\ (mcPart = "hub" \/ auMode = "daemon")

NtPart == UNCHANGED <<mcPart, cs, dnlVars, ndVars, fmVars, auVars>>
CsPart ==
  /\ mcPart = "cs" /\ CsNext
  /\ UNCHANGED <<mcPart, dnlVars, ntVars, ndVars, fmVars, auVars>>
DnlPart ==
  /\ mcPart = "dnl" /\ DnlNext
  /\ UNCHANGED <<mcPart, cs, ntVars, ndVars, fmVars, auVars>>
NamesPart ==
  /\ mcPart = "names"
  /\ \/ \E n \in MCFibNames : \E f \in NtFaces : FibAddNextHop(n, f) \/ FibRemoveNextHop(n, f)
     \/ \E f \in NtFaces : CleanupOnFaceRemoval(f)
     \/ \E n \in MCIndexPit : PitInsert(n) \/ PitErase(n)
  /\ NtPart
ChoicePart ==
  /\ mcPart = "choice"
  /\ \/ \E c \in MCChoices : ScInsert(c[1], c[2]) \/ ScErase(c[1])
     \/ \E n \in MCChoicePit : PitInsert(n) \/ PitErase(n) \/ PitStrategyInfo(n) \/ MeasGet(n)
     \/ \E n \in DOMAIN meas : MeasGetParent(n) \/ MeasExtend(n, MeasInitial) \/ MeasCleanup(n)
     \/ NtTick
  /\ NtPart
DaemonPart ==
  /\ mcPart = "daemon" /\ NdNext
  /\ UNCHANGED <<mcPart, cs, dnlVars, ntVars, fmVars, auVars>>
ClientsPart ==
  /\ mcPart = "clients" /\ FmNext
  /\ UNCHANGED <<mcPart, cs, dnlVars, ntVars, ndVars, auVars>>
HubPart ==
  /\ mcPart = "hub" /\ AuNext
  /\ UNCHANGED <<mcPart, cs, dnlVars, ntVars, ndVars, fmVars>>

MCNext ==
  \/ CsPart \/ DnlPart \/ NamesPart \/ ChoicePart \/ DaemonPart \/ ClientsPart \/ HubPart

-----------------------------------------------------------------------------
\* Fairness, with the enabling conditions written out (ENABLED of these actions
\* is slow).  What is due in the part that moves happens: traffic and marks
\* reach the Dead Nonce List, and the threads of NFD run.
MCDue ==
  CASE mcPart = "dnl" -> TRUE
    [] mcPart = "daemon" -> NdDue
    [] OTHER -> FALSE
MCDueStep ==
  CASE mcPart = "dnl" -> DnlNext
    [] mcPart = "daemon" -> NdThreadStep
    [] OTHER -> FALSE
MCFairness == []<>~MCDue \/ []<><<MCDueStep>>_mcVars
MCSpec == MCInit /\ [][MCNext]_mcVars /\ MCFairness
=============================================================================
