----------------------------- MODULE FaceSystem -----------------------------
(***************************************************************************)
(* The FaceSystem, its protocol factories and the multicast faces they     *)
(* keep on the network interfaces (daemon/face/face-system.cpp,            *)
(* *-factory.cpp, netdev-bound.cpp, ethernet-transport.cpp), driven by the *)
(* Nfd object of daemon/nfd.cpp: a dry run and a real run of the           *)
(* configuration at start, then reloads on SIGHUP and five seconds after a *)
(* change of the network.  The NetworkMonitor and the configuration file   *)
(* are external.                                                           *)
(*                                                                         *)
(* A configuration is a record:                                            *)
(*   ether, udp, tcp, ws  the sections; on = FALSE when it is absent       *)
(*   rules                schemes of the remotes of the netdev_bound rules *)
(*   bad                  the section with an option that cannot be parsed *)
(* An exception leaves the handler; NfdRunner::run then ends the process.  *)
(* Three fields are history: enabled, the schemes enabled so far; failed,  *)
(* the interfaces where the last creation of an Ethernet face failed;      *)
(* kept, a reload has kept a face that was closing already.                *)
(***************************************************************************)
EXTENDS Naturals, Sequences, SequencesExt, FiniteSetsExt, Functions, TLC

CONSTANTS FsNetifs,     \* names of the network interfaces
          FsLoopback,   \* those that are loopback interfaces
          FsConfigs,    \* configurations the operator may write
          FsMaxEvents   \* bound on what happens outside

VARIABLE fs

Families == {"v4", "v6"}
NetifStates == {"down", "no_carrier", "running"}
NoNetif == [there |-> FALSE, gen |-> 0, state |-> "down", addrs |-> {}]
isUp(s, n) == s.netifs[n].there /\ s.netifs[n].state # "down"
canMulticast(n) == n \notin FsLoopback
Ethernets == FsNetifs \ FsLoopback

\* Construction of the FaceSystem and of its factories.
FsBoot(file) ==
  [ file |-> file, netifs |-> [n \in FsNetifs |-> NoNetif], phase |-> "boot",
    ether |-> [cfg |-> [on |-> FALSE, mcast |-> FALSE], map |-> << >>, chans |-> {}],
    udp |-> [cfg |-> [mcast |-> FALSE], map |-> << >>, chans |-> {}, watch |-> {}],
    tcp |-> {}, ws |-> {}, unix |-> FALSE,
    provided |-> [f \in {"ether", "tcp", "udp", "unix", "websocket"} |-> {}],
    byScheme |-> << >>, faces |-> <<>>, table |-> {}, io |-> <<>>, timer |-> FALSE,
    events |-> 0, enabled |-> {}, failed |-> {}, kept |-> FALSE ]

Running(s) == s.phase \in {"boot", "up"}
Throw(s) == [s EXCEPT !.phase = "exit"]

\* A new multicast face, registered with forwarding.
newFace(s, fac, key, group) ==
  LET f == Len(s.faces) + 1
  IN [s EXCEPT !.faces = Append(@, [fac |-> fac, key |-> key, group |-> group, state |-> "UP",
                                    gen |-> s.netifs[key[1]].gen]),
               !.table = @ \cup {f}, ![fac].map = (key :> f) @@ @]

\* UdpFactory::createMulticastFace: one face per local endpoint.
createUdpMulticastFace(s, key, group) ==
  IF key \notin DOMAIN s.udp.map THEN newFace(s, "udp", key, group)
  ELSE IF s.faces[s.udp.map[key]].group = group THEN s
  ELSE Throw(s)
createEtherMulticastFace(s, key) ==
  IF key \in DOMAIN s.ether.map THEN s ELSE newFace(s, "ether", key, key[2])

\* UdpFactory::applyMcastConfigToNetif; an interface without address is watched.
UdpWants(s, n) ==
  LET c == s.udp.cfg
  IN c.mcast /\ isUp(s, n) /\ n \notin FsLoopback /\ canMulticast(n) /\ n \in c.white
UdpKeys(s, n) == {<<n, fam, s.udp.cfg.port>> : fam \in s.netifs[n].addrs}
applyUdpMcastConfigToNetif(s, n) ==
  IF ~UdpWants(s, n) THEN s
  ELSE IF s.netifs[n].addrs = {} THEN [s EXCEPT !.udp.watch = @ \cup {<<n, s.netifs[n].gen>>}]
  ELSE FoldSet(LAMBDA k, t : IF t.phase = "exit" THEN t
                             ELSE createUdpMulticastFace(t, k, s.udp.cfg.group),
               s, UdpKeys(s, n))

\* EthernetFactory::applyUnicastConfigToNetif and applyMcastConfigToNetif;
\* the creation of a face may fail, which is only logged.
applyUnicastConfigToNetif(s, n) ==
  IF s.ether.cfg.on /\ n \in Ethernets /\ isUp(s, n)
  THEN [s EXCEPT !.ether.chans = @ \cup {n}] ELSE s
EtherWants(s, n) ==
  LET c == s.ether.cfg
  IN c.mcast /\ n \in Ethernets /\ isUp(s, n) /\ canMulticast(n) /\ n \in c.white
applyEtherMcastConfigToNetif(s, n, fail) ==
  LET key == <<n, s.ether.cfg.group>>
  IN IF ~EtherWants(s, n) THEN s
     ELSE IF fail /\ key \notin DOMAIN s.ether.map THEN [s EXCEPT !.failed = @ \cup {n}]
     ELSE [createEtherMulticastFace(s, key) EXCEPT !.failed = @ \ {n}]

\* Transport::close: the handler that makes the face CLOSED is posted.
closeFace(s, f) ==
  IF s.faces[f].state \in {"UP", "DOWN"}
  THEN [s EXCEPT !.faces[f].state = "CLOSING", !.io = Append(@, f)] ELSE s
keepFaces(s, kept) == [s EXCEPT !.kept = @ \/ \E f \in kept : s.faces[f].state = "CLOSING"]
closeAll(s, old) == FoldSet(LAMBDA f, t : closeFace(t, f), s, old)
listNetworkInterfaces(s) == {n \in FsNetifs : s.netifs[n].there}

\* UdpFactory::applyMcastConfig and EthernetFactory::applyConfig: old faces
\* that no interface needs any more are closed.
closeExcept(s, old, kept) == closeAll(keepFaces(s, kept), old \ kept)
UdpNeeded(s) == {s.udp.map[k] : k \in UNION {UdpKeys(s, n) : n \in {m \in FsNetifs : UdpWants(s, m)}}}
closeUdpExcess(s, old) == IF s.phase = "exit" THEN s ELSE closeExcept(s, old, UdpNeeded(s))
applyMcastConfig(s) ==
  closeUdpExcess(FoldSet(LAMBDA n, u : IF u.phase = "exit" THEN u ELSE applyUdpMcastConfigToNetif(u, n),
                         s, listNetworkInterfaces(s)),
                 Range(s.udp.map))
EtherNeeded(s) ==
  {f \in Range(s.ether.map) : EtherWants(s, s.faces[f].key[1]) /\ s.faces[f].group = s.ether.cfg.group}
closeEtherExcess(s, old) == closeExcept(s, old, EtherNeeded(s))
applyConfig(s, fail) ==
  LET p == [s EXCEPT !.provided["ether"] = IF s.ether.cfg.on THEN {"ether"} ELSE {}]
  IN closeEtherExcess(
       FoldSet(LAMBDA n, u : applyEtherMcastConfigToNetif(applyUnicastConfigToNetif(u, n), n, fail),
               p, listNetworkInterfaces(s)),
       Range(s.ether.map))

\* The doProcessConfig of each factory: what is refused, and what is applied.
NoneEnabled(c) == c.on /\ ~c.v4 /\ ~c.v6
FamiliesOf(c) == {fam \in Families : c.on /\ (IF fam = "v4" THEN c.v4 ELSE c.v6)}
SchemesOf(base, fams) ==
  (IF fams = {} THEN {} ELSE {base}) \cup {IF fam = "v4" THEN base \o "4" ELSE base \o "6" : fam \in fams}

etherProcessConfig(s, c, dry, fail) ==
  IF c.bad = "ether" THEN Throw(s)
  ELSE IF dry THEN s
  ELSE applyConfig([s EXCEPT !.ether.cfg = [c.ether EXCEPT !.mcast = @ /\ c.ether.on]], fail)
tcpProcessConfig(s, c, dry) ==
  IF c.bad = "tcp" \/ NoneEnabled(c.tcp) THEN Throw(s)
  ELSE IF ~c.tcp.on \/ dry THEN s
  ELSE [s EXCEPT !.tcp = @ \cup FamiliesOf(c.tcp),
                 !.provided["tcp"] = @ \cup SchemesOf("tcp", FamiliesOf(c.tcp))]
udpProcessConfig(s, c, dry) ==
  IF c.bad = "udp" \/ (NoneEnabled(c.udp) /\ ~c.udp.mcast) THEN Throw(s)
  ELSE IF dry THEN s
  ELSE applyMcastConfig([s EXCEPT !.udp.chans = @ \cup FamiliesOf(c.udp),
                                  !.provided["udp"] = @ \cup SchemesOf("udp", FamiliesOf(c.udp)),
                                  !.udp.cfg = [c.udp EXCEPT !.mcast = @ /\ c.udp.on]])
unixProcessConfig(s, c, dry) ==
  IF c.bad = "unix" THEN Throw(s) ELSE IF dry \/ ~c.unix THEN s ELSE [s EXCEPT !.unix = TRUE]
wsProcessConfig(s, c, dry) ==
  IF c.bad = "websocket" \/ NoneEnabled(c.ws) THEN Throw(s)
  ELSE IF dry THEN s ELSE [s EXCEPT !.ws = @ \cup FamiliesOf(c.ws)]

\* FaceSystem::processConfig: factories in the order of their ids, each
\* followed by the update of m_factoryByScheme; then netdev_bound.
factoryProcessConfig(s, fac, c, dry, fail) ==
  CASE fac = "ether" -> etherProcessConfig(s, c, dry, fail)
    [] fac = "tcp" -> tcpProcessConfig(s, c, dry)
    [] fac = "udp" -> udpProcessConfig(s, c, dry)
    [] fac = "unix" -> unixProcessConfig(s, c, dry)
    [] OTHER -> wsProcessConfig(s, c, dry)
updateSchemes(s, t, fac, dry) ==
  LET gone == s.provided[fac] \ t.provided[fac]
  IN IF dry \/ t.phase = "exit" THEN t
     ELSE [t EXCEPT !.byScheme = [x \in t.provided[fac] |-> fac] @@ Restrict(@, DOMAIN @ \ gone)]
processFactory(s, fac, c, dry, fail) ==
  IF s.phase = "exit" THEN s
  ELSE updateSchemes(s, factoryProcessConfig(s, fac, c, dry, fail), fac, dry)
netdevBoundProcessConfig(s, c, dry) ==
  IF s.phase = "exit" \/ dry THEN s
  ELSE IF \A r \in c.rules : r \o "+dev" \in DOMAIN s.byScheme THEN s
  ELSE Throw(s)
noteEnabled(s, c, dry) ==
  IF dry \/ s.phase = "exit" THEN s
  ELSE [s EXCEPT !.enabled = @ \cup SchemesOf("udp", FamiliesOf(c.udp))
                               \cup SchemesOf("tcp", FamiliesOf(c.tcp))]
processConfig(s, c, dry, fail) ==
  LET t == FoldLeft(LAMBDA u, fac : processFactory(u, fac, c, dry, fail), s,
                    <<"ether", "tcp", "udp", "unix", "websocket">>)
  IN noteEnabled(netdevBoundProcessConfig(t, c, dry), c, dry)

\* Some interfaces are there when NFD starts.
FsInit ==
  \E c \in FsConfigs, there \in SUBSET Ethernets :
    fs = [FsBoot(c) EXCEPT !.netifs = [n \in FsNetifs |->
            IF n \in there THEN [there |-> TRUE, gen |-> 1, state |-> "running", addrs |-> {"v4"}]
            ELSE NoNetif]]

\* Nfd::initialize: a dry run, then the configuration is applied.
Initialized(s) == IF s.phase = "exit" THEN s ELSE [s EXCEPT !.phase = "up"]
FsInitialize ==
  /\ fs.phase = "boot"
  /\ \E fail \in BOOLEAN :
       fs' = IF processConfig(fs, fs.file, TRUE, fail).phase = "exit" THEN Throw(fs)
             ELSE Initialized(processConfig(fs, fs.file, FALSE, fail))

\* SIGHUP: reloadConfigFile has no dry run.
FsReload ==
  /\ fs.phase = "up" /\ fs.events < FsMaxEvents
  /\ fs' = [processConfig(fs, fs.file, FALSE, FALSE) EXCEPT !.events = @ + 1]

\* reloadConfigFileFaceSection, five seconds after the last change: what was
\* posted has run by then.
FsReloadTimer ==
  /\ fs.phase = "up" /\ fs.timer /\ fs.io = <<>>
  /\ \E fail \in BOOLEAN :
       fs' = [processConfig(fs, fs.file, FALSE, fail) EXCEPT !.timer = FALSE]

\* onNetworkStateChanged schedules the reload (and cancels an earlier one).
networkStateChanged_Once(s) ==
  [s EXCEPT !.timer = @ \/ s.events = 0, !.events = @ + 1]
networkStateChanged(s) == [s EXCEPT !.timer = TRUE, !.events = @ + 1]
Changing == Running(fs) /\ fs.events < FsMaxEvents

\* onInterfaceAdded: the Ethernet factory, then the UDP factory.
FsNetifAdded(n) ==
  /\ Changing /\ ~fs.netifs[n].there
  /\ \E st \in IF n \in FsLoopback THEN {"running"} ELSE NetifStates,
        addrs \in IF n \in FsLoopback THEN {{"v4"}} ELSE {{}, {"v4"}},
        fail \in IF n \in FsLoopback THEN {FALSE} ELSE BOOLEAN :
       LET s == [fs EXCEPT !.netifs[n] = [there |-> TRUE, gen |-> @.gen + 1, state |-> st, addrs |-> addrs]]
           e == applyEtherMcastConfigToNetif(applyUnicastConfigToNetif(s, n), n, fail)
       IN fs' = networkStateChanged(applyUdpMcastConfigToNetif(e, n))
FsNetifRemoved(n) ==
  /\ Changing /\ fs.netifs[n].there
  /\ fs' = networkStateChanged([fs EXCEPT !.netifs[n] = [NoNetif EXCEPT !.gen = fs.netifs[n].gen]])

\* EthernetTransport::handleNetifStateChange, on every face of the interface.
handleNetifStateChange(face, st) ==
  IF st = "running"
  THEN IF face.state = "DOWN" THEN [face EXCEPT !.state = "UP"] ELSE face
  ELSE IF face.state = "UP" THEN [face EXCEPT !.state = "DOWN"] ELSE face
FacesOn(s, n) ==
  {f \in DOMAIN s.faces : s.faces[f].fac = "ether" /\ s.faces[f].key[1] = n
                          /\ s.faces[f].gen = s.netifs[n].gen}
FsNetifState(n, st) ==
  /\ Changing /\ fs.netifs[n].there /\ fs.netifs[n].state # st
  /\ fs' = networkStateChanged(
             [fs EXCEPT !.netifs[n].state = st,
                        !.faces = [f \in DOMAIN @ |-> IF f \in FacesOn(fs, n)
                                                      THEN handleNetifStateChange(@[f], st) ELSE @[f]]])

\* onAddressAdded, connected only where there was no address.
FsAddressAdded(n, fam) ==
  /\ Changing /\ fs.netifs[n].there /\ fam \notin fs.netifs[n].addrs
  /\ LET s == [fs EXCEPT !.netifs[n].addrs = @ \cup {fam}]
     IN fs' = networkStateChanged(IF <<n, s.netifs[n].gen>> \in s.udp.watch
                                  THEN applyUdpMcastConfigToNetif(s, n) ELSE s)
FsAddressRemoved(n, fam) ==
  /\ Changing /\ fam \in fs.netifs[n].addrs
  /\ fs' = networkStateChanged([fs EXCEPT !.netifs[n].addrs = @ \ {fam}])

\* The operator edits the file; the management closes a multicast face.
FsEdit ==
  /\ Changing
  /\ \E c \in FsConfigs \ {fs.file} : fs' = [fs EXCEPT !.file = c, !.events = @ + 1]
FsDestroy(f) ==
  /\ fs.phase = "up" /\ fs.events < FsMaxEvents /\ f \in fs.table
  /\ fs' = [closeFace(fs, f) EXCEPT !.events = @ + 1]

\* The posted handler: CLOSED, forgotten by the factory and by the table.
setFaceClosed(s, f) ==
  LET fac == s.faces[f].fac
  IN [s EXCEPT !.faces[f].state = "CLOSED", !.table = @ \ {f},
               ![fac].map = Restrict(@, DOMAIN @ \ {s.faces[f].key})]
FsRunIo ==
  /\ Running(fs) /\ fs.io # <<>>
  /\ fs' = [setFaceClosed(fs, Head(fs.io)) EXCEPT !.io = Tail(@)]

\* The doCreateFace of the factory of the scheme, for a request [scheme, dev,
\* onDemand, mcast, localFields, loopback, mtu]: refused, without channel, or
\* handed to the channel.
RequestRefused(fac, req) ==
  \/ fac = "ether" /\ ~req.dev
  \/ fac # "ether" /\ req.dev
  \/ req.onDemand
  \/ fac # "tcp" /\ (req.mcast \/ req.localFields \/ req.mtu = "small")
  \/ fac = "tcp" /\ ((req.localFields /\ ~req.loopback) \/ req.mtu # "none")
ChannelsFor(s, fac) ==
  CASE fac = "ether" -> {"ether" : n \in s.ether.chans}
    [] fac = "udp" -> SchemesOf("udp", s.udp.chans)
    [] OTHER -> SchemesOf("tcp", s.tcp)
doCreateFace(s, req) ==
  IF req.scheme \notin DOMAIN s.byScheme \/ RequestRefused(s.byScheme[req.scheme], req) THEN 406
  ELSE IF req.scheme \in ChannelsFor(s, s.byScheme[req.scheme]) THEN 200 ELSE 504

\* (A loopback interface stays as it was added.)
FsNext ==
  \/ FsInitialize \/ FsReload \/ FsReloadTimer \/ FsRunIo \/ FsEdit
  \/ \E n \in FsNetifs : FsNetifAdded(n)
  \/ \E n \in FsNetifs \ FsLoopback :
       \/ FsNetifRemoved(n)
       \/ \E st \in NetifStates : FsNetifState(n, st)
       \/ \E fam \in Families : FsAddressAdded(n, fam) \/ FsAddressRemoved(n, fam)
  \/ \E f \in fs.table : FsDestroy(f)

\* Handlers that were posted and timers that have run out are served.
FsDue == fs.phase = "boot" \/ (fs.phase = "up" /\ (fs.io # <<>> \/ fs.timer))
FsDueStep == FsInitialize \/ FsRunIo \/ FsReloadTimer

\* The faces the configuration in force asks for.
WantedFaces(s) ==
  {<<"udp", k, s.udp.cfg.group>> : k \in UNION {UdpKeys(s, n) : n \in {m \in FsNetifs : UdpWants(s, m)}}}
  \cup {<<"ether", <<n, s.ether.cfg.group>>, s.ether.cfg.group>> : n \in {m \in FsNetifs \ s.failed : EtherWants(s, m)}}
OpenFaces(s) ==
  {<<s.faces[f].fac, s.faces[f].key, s.faces[f].group>> : f \in s.table}

\* a well-formed request for a scheme that some configuration enabled reaches a
\* channel
EnabledSchemesServed ==
    \A sch \in fs.enabled :
      doCreateFace(fs, [scheme |-> sch, dev |-> FALSE, onDemand |-> FALSE, mcast |-> FALSE,
                        localFields |-> FALSE, loopback |-> FALSE, mtu |-> "none"]) = 200

\* A change of the network is followed by the faces that it asks for: NFD
\* reloads the face section after it (Nfd::initialize), and every scheme that some
\* configuration enabled is still served ("Cannot close udp4 channel after its
\* creation").  A reload on SIGHUP that finds a face closing keeps it, and then
\* the face is missing.
NetworkChangeFollowed ==
  fs.timer ~> \/ fs.phase = "exit" \/ fs.kept
              \/ ~fs.timer /\ OpenFaces(fs) = WantedFaces(fs) /\ EnabledSchemesServed
=============================================================================
