------------------------------ MODULE MCFaces -------------------------------
(***************************************************************************)
(* Link services, transports, channels and the face system for TLC.  The   *)
(* parts share no state, so each is explored by itself: mcPart, chosen at  *)
(* the start, says which one moves.                                        *)
(*   retx, dup, mark, window, toggle   two link services over a link: a    *)
(*            lossy one, one that duplicates, congestion marks, two        *)
(*            packets at once, reliability switched off and on;            *)
(*   cg, lp   congestion marking; NDNLPv2 fields along a chain;            *)
(*   stream   a stream transport;                                          *)
(*   channel  a channel of each kind and its faces;                        *)
(*   system   the factories, their configuration and the interfaces.       *)
(***************************************************************************)
EXTENDS GenericLinkService, StreamTransport, Channels, FaceSystem

VARIABLE mcPart

mcVars == <<mcPart, lkVars, cgVars, lpVars, stVars, chVars, fs>>

LinkParts == {"retx", "dup", "mark", "window", "toggle"}
MCLinkPackets == [x \in LinkEnds |-> IF x = "A" THEN {1, 2, 4} ELSE {3}]
MCNetPktSize == <<1, 6, 1, 1>>
MCCapacities == {-1, 4}
MCLengths == {-1, 0, 3, 4}
MCAppFields == {s \in SUBSET {"CongestionMark", "NextHopFaceId", "CachePolicy", "NonDiscovery",
                              "PrefixAnnouncement"} : Cardinality(s) <= 2}

Ip(v4, v6) == [on |-> TRUE, v4 |-> v4, v6 |-> v6]
NoIp == [on |-> FALSE, v4 |-> TRUE, v6 |-> TRUE]
Udp(v4, v6, mcast, group, port, white) ==
  [on |-> TRUE, v4 |-> v4, v6 |-> v6, mcast |-> mcast, group |-> group, port |-> port, white |-> white]
NoUdp == [on |-> FALSE, v4 |-> FALSE, v6 |-> FALSE, mcast |-> FALSE, group |-> "g1", port |-> 1, white |-> {}]
Ether(mcast, group, white) == [on |-> TRUE, mcast |-> mcast, group |-> group, white |-> white]
NoEther == [on |-> FALSE, mcast |-> FALSE, group |-> "m1", white |-> {}]
Cfg(e, u, t, w, x, rules) ==
  [ether |-> e, udp |-> u, tcp |-> t, ws |-> w, unix |-> x, rules |-> rules, bad |-> "none"]
\* Two sound configurations that differ in groups and ports; one that moves the
\* UDP group and keeps the port, with WebSocket all disabled; one with TCP all
\* disabled; one with a netdev_bound rule; one with an option that cannot be
\* parsed; one without any section.
MCConfigs ==
  { Cfg(Ether(TRUE, "m1", FsNetifs), Udp(TRUE, TRUE, TRUE, "g1", 1, FsNetifs), Ip(TRUE, TRUE), NoIp, TRUE, {}),
    Cfg(Ether(TRUE, "m2", FsNetifs), Udp(TRUE, FALSE, TRUE, "g2", 2, FsNetifs), Ip(TRUE, FALSE), Ip(TRUE, TRUE), TRUE, {}),
    Cfg(Ether(TRUE, "m1", {}), Udp(FALSE, FALSE, TRUE, "g2", 1, FsNetifs), NoIp, Ip(FALSE, FALSE), FALSE, {}),
    Cfg(NoEther, NoUdp, Ip(FALSE, FALSE), NoIp, TRUE, {}),
    Cfg(Ether(FALSE, "m1", FsNetifs), Udp(TRUE, TRUE, FALSE, "g1", 1, {}), Ip(FALSE, TRUE), NoIp, TRUE, {"udp4"}),
    [Cfg(NoEther, NoUdp, NoIp, NoIp, FALSE, {}) EXCEPT !.bad = "unix"],
    Cfg(NoEther, NoUdp, NoIp, NoIp, FALSE, {}) }

MCInit ==
  /\ mcPart \in LinkParts \cup {"cg", "lp", "stream", "channel", "system"}
  /\ LkInit /\ CgInit
  /\ IF mcPart = "lp" THEN LpInit
     ELSE /\ lpKind = "Data" /\ lpOptions = <<>> /\ lpAt = 0 /\ lpTags = {} /\ lpHops = 0
          /\ lpMarked = FALSE /\ lpDropped = "no"
  /\ IF mcPart = "stream" THEN StInit
     ELSE st = NewTransport("persistent") /\ stSends = 0 /\ stChanges = 0
  /\ IF mcPart = "channel" THEN ChInit ELSE chKind = "unix" /\ ch = NewChannel
  /\ IF mcPart = "system" THEN FsInit
     ELSE fs = [FsBoot(CHOOSE c \in FsConfigs : TRUE) EXCEPT !.phase = "off"]

\* What an end sends in a part, as [A |-> ..., B |-> ...]
LinkSends ==
  [retx |-> [A |-> {2}, B |-> {}], dup |-> [A |-> {1}, B |-> {3}], mark |-> [A |-> {1}, B |-> {3}],
   window |-> [A |-> {2, 4}, B |-> {}], toggle |-> [A |-> {1}, B |-> {3}]]
LinkPart ==
  /\ mcPart \in LinkParts
  /\ \E x \in LinkEnds :
       \/ LkStep(x, LinkSends[mcPart][x], IF mcPart = "mark" /\ x = "A" THEN BOOLEAN ELSE {FALSE},
                 IF mcPart = "dup" THEN BOOLEAN ELSE {FALSE})
       \/ mcPart \in {"retx", "mark", "toggle"} /\ LkFault(x)
       \/ mcPart = "toggle" /\ LkSetOptions(x)
  /\ UNCHANGED <<mcPart, cgVars, lpVars, stVars, chVars, fs>>
MarkingPart == mcPart = "cg" /\ CgNext /\ UNCHANGED <<mcPart, lkVars, lpVars, stVars, chVars, fs>>
FieldsPart == mcPart = "lp" /\ LpNext /\ UNCHANGED <<mcPart, lkVars, cgVars, stVars, chVars, fs>>

StreamPart == mcPart = "stream" /\ StNext /\ UNCHANGED <<mcPart, lkVars, cgVars, lpVars, chVars, fs>>
ChannelPart ==
  /\ mcPart = "channel"
  /\ \/ chKind = "udp" /\ ChStep({"p"}, {1}, {"on-demand", "permanent"})
     \/ chKind = "tcp" /\ ChStep({"p"}, {1, 2}, {})
     \/ chKind \in {"ether", "unix", "ws"} /\ ChStep({"p", "q"}, {}, {})
  /\ UNCHANGED <<mcPart, lkVars, cgVars, lpVars, stVars, fs>>
SystemPart == mcPart = "system" /\ FsNext /\ UNCHANGED <<mcPart, lkVars, cgVars, lpVars, stVars, chVars>>

MCNext == LinkPart \/ MarkingPart \/ FieldsPart \/ StreamPart \/ ChannelPart \/ SystemPart

\* The fairness of all parts in one: a part that does not move has nothing due.
MCDue == LkDue \/ ChDue \/ FsDue
MCDueStep == LkDueStep \/ ChDueStep \/ FsDueStep
MCFairness == []<>~MCDue \/ []<><<MCDueStep>>_mcVars
MCSpec == MCInit /\ [][MCNext]_mcVars /\ MCFairness

=============================================================================
