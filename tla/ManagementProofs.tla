-------------------------- MODULE ManagementProofs --------------------------
(***************************************************************************)
(* Proofs about the management clients and the process: nfdc against       *)
(* FaceManager (FaceManagement), ndn-autoconfig (Autoconfig) and the       *)
(* threads of NFD (NfdDaemon), for every set of clients, scripts, URIs and *)
(* configuration files.                                                    *)
(***************************************************************************)
EXTENDS FaceManagement, Autoconfig, NfdDaemon, TLAPS

-----------------------------------------------------------------------------
(* FaceManagement.                                                         *)

FmSpec == FmInit /\ [][FmNext]_fmVars

FaceFields == {"uri", "pers", "rel", "mark", "mtu", "local", "state"}
RunFields == {"cmd", "pc", "request", "answer"}
UriVerbs == {"create", "query"}
IdVerbs == {"update", "destroy", "register", "unregister"}

\* A FaceId somebody learnt for this URI: it was given out, and if its face
\* is still there it has the URI.  NextFaceId goes on from m_lastFaceId, so
\* this stays true for good.
Means(id, uri) ==
  /\ id \in 1..fmLastId
  /\ id \in DOMAIN fmFaces => fmFaces[id].uri = uri

\* What a client has asked and knows is about the URI on its command line.
ClientKnows(c) ==
  /\ DOMAIN fmRun[c] = RunFields
  /\ fmRun[c].cmd.kind \in FmKinds
  /\ fmRun[c].pc = "find" => fmRun[c].cmd.kind # "create"
  /\ fmRun[c].request.verb \in UriVerbs => fmRun[c].request.uri = fmRun[c].cmd.uri
  /\ fmRun[c].request.verb \in IdVerbs => Means(fmRun[c].request.id, fmRun[c].cmd.uri)
  /\ fmRun[c].answer # NoAnswer => \A x \in fmRun[c].answer.faces : Means(x.id, fmRun[c].cmd.uri)

TableOK ==
  /\ fmLastId \in Nat /\ DOMAIN fmFaces \subseteq 1..fmLastId
  /\ \A id \in DOMAIN fmFaces : DOMAIN fmFaces[id] = FaceFields

IdsMeanUris ==
  /\ TableOK
  /\ DOMAIN fmRun = FmClients /\ \A c \in FmClients : ClientKnows(c)
  /\ \A r \in fmRoutes : Means(r.id, r.uri)
  /\ \A h \in fmHits : h.hit = h.meant

\* What every step does to the face table: an old FaceId keeps its URI for
\* as long as it is there, and does not come back.
UrisKept ==
  /\ TableOK' /\ fmLastId <= fmLastId'
  /\ \A id \in DOMAIN fmFaces' :
       id \in 1..fmLastId => id \in DOMAIN fmFaces /\ fmFaces'[id].uri = fmFaces[id].uri

\* A step of one client that leaves it at pc with this request and answer.
ClientStep(c, pc, q, a) ==
  /\ DOMAIN fmRun' = FmClients /\ DOMAIN fmRun'[c] = RunFields
  /\ fmRun'[c].cmd = fmRun[c].cmd /\ fmRun'[c].pc = pc
  /\ fmRun'[c].request = q /\ fmRun'[c].answer = a
  /\ \A d \in FmClients \ {c} : fmRun'[d] = fmRun[d]

\* What Reply, Sends and Ends leave in the record of a client.
LEMMA ClientSteps ==
  ASSUME IdsMeanUris, NEW c \in FmClients, NEW pc, NEW q, NEW a
  PROVE  /\ Reply(c, a) => ClientStep(c, fmRun[c].pc, NoRequest, a)
         /\ Sends(c, pc, q) => ClientStep(c, pc, q, NoAnswer)
         /\ Ends(c, pc) => ClientStep(c, pc, fmRun[c].request, fmRun[c].answer)
<1>1. DOMAIN fmRun = FmClients /\ DOMAIN fmRun[c] = RunFields
  BY DEF IdsMeanUris, ClientKnows
<1>2. Reply(c, a) => ClientStep(c, fmRun[c].pc, NoRequest, a)
  BY <1>1 DEF Reply, RunFields, ClientStep
<1>3. Sends(c, pc, q) => ClientStep(c, pc, q, NoAnswer)
  BY <1>1 DEF Sends, RunFields, ClientStep
<1>4. Ends(c, pc) => ClientStep(c, pc, fmRun[c].request, fmRun[c].answer)
  BY <1>1 DEF Ends, RunFields, ClientStep
<1> QED
  BY <1>2, <1>3, <1>4

\* FaceTable::add takes a FaceId nobody has heard of.
LEMMA AddKeepsUris ==
  ASSUME TableOK, NEW f, DOMAIN f = FaceFields, FaceTableAdd(f)
  PROVE  UrisKept /\ fmLastId' = NextFaceId /\ NextFaceId \in DOMAIN fmFaces' /\ fmFaces'[NextFaceId] = f
<1>1. fmLastId \in Nat /\ DOMAIN fmFaces \subseteq 1..fmLastId
  BY DEF TableOK
<1>2. NextFaceId \notin DOMAIN fmFaces /\ NextFaceId = fmLastId + 1
  BY <1>1 DEF NextFaceId
<1>3. /\ DOMAIN fmFaces' = DOMAIN fmFaces \cup {NextFaceId} /\ fmFaces'[NextFaceId] = f
      /\ \A id \in DOMAIN fmFaces : fmFaces'[id] = fmFaces[id]
      /\ fmLastId' = NextFaceId
  BY <1>2 DEF FaceTableAdd
<1> QED
  BY <1>1, <1>2, <1>3 DEF UrisKept, TableOK

\* A step that changes fields of one face other than its URI.
LEMMA ChangeKeepsUris ==
  ASSUME TableOK, UNCHANGED fmLastId, NEW id \in DOMAIN fmFaces, NEW f,
         fmFaces' = [fmFaces EXCEPT ![id] = f], DOMAIN f = FaceFields, f.uri = fmFaces[id].uri
  PROVE  UrisKept /\ DOMAIN fmFaces' = DOMAIN fmFaces
BY DEF UrisKept, TableOK

\* and one that sets its state
LEMMA StateKeepsUris ==
  ASSUME TableOK, UNCHANGED fmLastId, NEW id \in DOMAIN fmFaces, NEW st,
         fmFaces' = [fmFaces EXCEPT ![id].state = st]
  PROVE  UrisKept
<1> DEFINE f == [fmFaces[id] EXCEPT !.state = st]
<1>1. DOMAIN fmFaces[id] = FaceFields
  BY DEF TableOK
<1>2. DOMAIN f = FaceFields /\ f.uri = fmFaces[id].uri
  BY <1>1 DEF FaceFields
<1>3. fmFaces' = [fmFaces EXCEPT ![id] = f]
  OBVIOUS
<1> HIDE DEF f
<1> QED
  BY Zenon, <1>2, <1>3, ChangeKeepsUris

\* faces/update changes options only.
LEMMA UpdatedKeepsUri ==
  ASSUME NEW f, DOMAIN f = FaceFields, NEW q
  PROVE  DOMAIN Updated(f, q) = FaceFields /\ Updated(f, q).uri = f.uri
BY DEF Updated, FaceFields

\* What a FaceId means does not change.
LEMMA MeansStays ==
  ASSUME TableOK, UrisKept, NEW id, NEW uri, Means(id, uri)
  PROVE  Means(id, uri)'
BY DEF Means, UrisKept, TableOK

\* Clients that take no part in a step know what they knew.
LEMMA OthersKnow ==
  ASSUME TableOK, UrisKept, NEW d, ClientKnows(d), fmRun'[d] = fmRun[d]
  PROVE  ClientKnows(d)'
<1>1. ASSUME NEW id, NEW uri, Means(id, uri) PROVE Means(id, uri)'
  BY <1>1, MeansStays
<1>2. PICK r : r = fmRun[d]
  OBVIOUS
<1>3. r = fmRun'[d] /\ DOMAIN r = RunFields /\ r.cmd.kind \in FmKinds
      /\ (r.pc = "find" => r.cmd.kind # "create")
      /\ (r.request.verb \in UriVerbs => r.request.uri = r.cmd.uri)
  BY <1>2 DEF ClientKnows
<1>4. r.request.verb \in IdVerbs => Means(r.request.id, r.cmd.uri)'
  BY <1>1, <1>2 DEF ClientKnows
<1>5. r.answer # NoAnswer => \A x \in r.answer.faces : Means(x.id, r.cmd.uri)'
  BY <1>1, <1>2 DEF ClientKnows
<1> QED
  BY <1>3, <1>4, <1>5 DEF ClientKnows, Means

ClientsKnow == DOMAIN fmRun = FmClients /\ \A c \in FmClients : ClientKnows(c)

\* A step that leaves the face table alone.
LEMMA SameTable ==
  ASSUME TableOK, UNCHANGED <<fmFaces, fmLastId>>
  PROVE  UrisKept
BY DEF TableOK, UrisKept

\* A step of anybody else than the clients.
LEMMA ClientsUntouched ==
  ASSUME IdsMeanUris, UrisKept, UNCHANGED fmRun
  PROVE  ClientsKnow'
<1>1. TableOK /\ \A d \in FmClients : ClientKnows(d)
  BY DEF IdsMeanUris
<1>2. ASSUME NEW d \in FmClients PROVE ClientKnows(d)'
  BY <1>1, OthersKnow
<1> QED
  BY <1>2 DEF ClientsKnow, IdsMeanUris

\* An answer that tells of faces of the URI asked about.
LEMMA ReplyKnows ==
  ASSUME IdsMeanUris, UrisKept, NEW c \in FmClients, NEW a, Reply(c, a),
         NEW uri, uri = fmRun[c].cmd.uri, \A x \in a.faces : Means(x.id, uri)'
  PROVE  ClientsKnow'
<1>1. TableOK /\ \A d \in FmClients : ClientKnows(d)
  BY DEF IdsMeanUris
<1>2. ClientStep(c, fmRun[c].pc, NoRequest, a)
  BY ClientSteps
<1>3. ASSUME NEW d \in FmClients \ {c} PROVE ClientKnows(d)'
  BY <1>1, <1>2, <1>3, OthersKnow DEF ClientStep
<1>4. ClientKnows(c)'
  <2>1. fmRun'[c].request.verb \notin UriVerbs \cup IdVerbs
    BY <1>2 DEF ClientStep, NoRequest, UriVerbs, IdVerbs
  <2>2. fmRun'[c].cmd.kind \in FmKinds
    BY <1>1, <1>2 DEF ClientStep, ClientKnows
  <2>4. fmRun'[c].pc = "find" => fmRun'[c].cmd.kind # "create"
    BY Zenon, <1>1, <1>2 DEF ClientStep, ClientKnows
  <2>3. \A x \in fmRun'[c].answer.faces : Means(x.id, fmRun[c].cmd.uri)'
    BY <1>2 DEF ClientStep, Means
  <2> QED
    BY <1>2, <2>1, <2>2, <2>3, <2>4 DEF ClientStep, ClientKnows, Means
<1> QED
  BY <1>2, <1>3, <1>4 DEF ClientStep, ClientsKnow

\* A command that names the URI on the command line, or a FaceId it stands for.
LEMMA SendsKnows ==
  ASSUME IdsMeanUris, UNCHANGED <<fmFaces, fmLastId>>, NEW c \in FmClients, NEW pc, NEW q, Sends(c, pc, q),
         pc = "find" => fmRun[c].cmd.kind # "create",
         q.verb \in UriVerbs => q.uri = fmRun[c].cmd.uri,
         q.verb \in IdVerbs => Means(q.id, fmRun[c].cmd.uri)
  PROVE  ClientsKnow'
<1>1. TableOK /\ \A d \in FmClients : ClientKnows(d)
  BY DEF IdsMeanUris
<1>2. ClientStep(c, pc, q, NoAnswer)
  BY ClientSteps
<1>3. ASSUME NEW d \in FmClients \ {c} PROVE ClientKnows(d)'
  BY <1>1, <1>2, <1>3, SameTable, OthersKnow DEF ClientStep
<1>4. ClientKnows(c)'
  BY <1>1, <1>2 DEF ClientStep, ClientKnows, Means
<1> QED
  BY <1>2, <1>3, <1>4 DEF ClientStep, ClientsKnow

\* A client that ends has nothing more to send.
LEMMA EndsKnows ==
  ASSUME IdsMeanUris, UNCHANGED <<fmFaces, fmLastId>>, NEW c \in FmClients, NEW pc, pc # "find", Ends(c, pc)
  PROVE  ClientsKnow'
<1>1. TableOK /\ \A d \in FmClients : ClientKnows(d)
  BY DEF IdsMeanUris
<1>2. ClientStep(c, pc, fmRun[c].request, fmRun[c].answer)
  BY ClientSteps
<1>3. ASSUME NEW d \in FmClients \ {c} PROVE ClientKnows(d)'
  BY <1>1, <1>2, <1>3, SameTable, OthersKnow DEF ClientStep
<1>4. ClientKnows(c)'
  BY <1>1, <1>2 DEF ClientStep, ClientKnows, Means
<1> QED
  BY <1>2, <1>3, <1>4 DEF ClientStep, ClientsKnow

\* The table, the clients, the routes and the history together.
LEMMA IdsStep ==
  ASSUME IdsMeanUris, UrisKept, ClientsKnow',
         \A r \in fmRoutes' : r \in fmRoutes \/ Means(r.id, r.uri)',
         \A h \in fmHits' : h \in fmHits \/ h.hit = h.meant
  PROVE  IdsMeanUris'
<1>1. TableOK' /\ TableOK
  BY DEF UrisKept, IdsMeanUris
<1>2. ASSUME NEW r \in fmRoutes' PROVE Means(r.id, r.uri)'
  <2>1. CASE r \in fmRoutes
    BY <1>1, <2>1, MeansStays DEF IdsMeanUris
  <2> QED
    BY <2>1
<1>3. \A h \in fmHits' : h.hit = h.meant
  BY DEF IdsMeanUris
<1> QED
  BY <1>1, <1>2, <1>3 DEF ClientsKnow, IdsMeanUris

\* FaceManager and RibManager handle a command.
LEMMA HandlerStep ==
  ASSUME IdsMeanUris, NEW c \in FmClients, FmHandles(c)
  PROVE  IdsMeanUris'
<1> DEFINE q == fmRun[c].request
           uri == fmRun[c].cmd.uri
<1>1. TableOK /\ ClientKnows(c)
  BY DEF IdsMeanUris
<1>2. CASE createFace(c)
  <2> DEFINE same == {id \in DOMAIN fmFaces : fmFaces[id].uri = q.uri}
             new  == [uri |-> q.uri, pers |-> q.pers, rel |-> Chosen(q.rel, "off"), mark |-> Chosen(q.mark, "on"),
                      mtu |-> Chosen(q.mtu, "link"), local |-> "off", state |-> "up"]
  <2>1. UNCHANGED <<fmHits, fmRoutes>> /\ q.uri = uri
    BY <1>1, <1>2 DEF createFace, ClientKnows, UriVerbs
  <2>2. ASSUME NEW id \in same, Reply(c, [code |-> 409, faces |-> {FaceOf(id, fmFaces[id])}]), UNCHANGED fmTable
        PROVE  IdsMeanUris'
    <3> HIDE DEF new
    <3>1. UrisKept
      BY <1>1, <2>2, SameTable DEF fmTable
    <3>2. ClientsKnow'
      <4>1. PICK u : u = fmRun[c].cmd.uri
        OBVIOUS
      <4>2. Means(id, u)'
        BY <1>1, <2>1, <2>2, <4>1 DEF fmTable, Means, TableOK
      <4>3. PICK g : Reply(c, [code |-> 409, faces |-> {[id |-> id, face |-> g]}])
        BY <2>2, Zenon DEF FaceOf
      <4> QED
        BY <3>1, <4>1, <4>2, <4>3, ReplyKnows
    <3> QED
      BY <2>1, <3>1, <3>2, IdsStep
  <2>3. ASSUME FaceTableAdd(new), Reply(c, [code |-> 200, faces |-> {FaceOf(NextFaceId, new)}])
        PROVE  IdsMeanUris'
    <3>1. DOMAIN new = FaceFields /\ new.uri = uri
      BY <2>1 DEF FaceFields
    <3> HIDE DEF new, uri, q, same
    <3>2. UrisKept /\ fmLastId' = NextFaceId /\ NextFaceId \in DOMAIN fmFaces' /\ fmFaces'[NextFaceId] = new
      BY <1>1, <2>3, <3>1, AddKeepsUris
    <3> DEFINE id == NextFaceId
    <3>3. id \in 1..fmLastId' /\ id \in DOMAIN fmFaces' /\ fmFaces'[id].uri = uri
      BY <3>1, <3>2 DEF UrisKept, TableOK
    <3> HIDE DEF id
    <3>4. ClientsKnow'
      <4>1. PICK i, u : i = id /\ u = uri
        OBVIOUS
      <4>2. Means(i, u)'
        BY <3>3, <4>1 DEF Means
      <4>3. u = fmRun[c].cmd.uri
        BY <4>1 DEF uri
      <4>4. Reply(c, [code |-> 200, faces |-> {[id |-> i, face |-> new]}])
        BY <2>3, <4>1 DEF FaceOf, id
      <4> QED
        BY <3>2, <4>2, <4>3, <4>4, ReplyKnows
    <3> QED
      BY <2>1, <3>2, <3>4, IdsStep
  <2>4. ASSUME Reply(c, [code |-> 504, faces |-> {}]), UNCHANGED fmTable PROVE IdsMeanUris'
    <3>1. UrisKept
      BY <1>1, <2>4, SameTable DEF fmTable
    <3>2. ClientsKnow'
      BY <2>4, <3>1, ReplyKnows
    <3> QED
      BY <2>1, <3>1, <3>2, IdsStep
  <2>5. \/ \E id \in same : Reply(c, [code |-> 409, faces |-> {FaceOf(id, fmFaces[id])}]) /\ UNCHANGED fmTable
        \/ FaceTableAdd(new) /\ Reply(c, [code |-> 200, faces |-> {FaceOf(NextFaceId, new)}])
        \/ Reply(c, [code |-> 504, faces |-> {}]) /\ UNCHANGED fmTable
    BY <1>2, Zenon DEF createFace
  <2>6. CASE \E id \in same : Reply(c, [code |-> 409, faces |-> {FaceOf(id, fmFaces[id])}]) /\ UNCHANGED fmTable
    <3>1. PICK id \in same : Reply(c, [code |-> 409, faces |-> {FaceOf(id, fmFaces[id])}]) /\ UNCHANGED fmTable
      BY <2>6, Zenon
    <3> QED
      BY <2>2, <3>1
  <2>7. CASE FaceTableAdd(new) /\ Reply(c, [code |-> 200, faces |-> {FaceOf(NextFaceId, new)}])
    BY <2>3, <2>7
  <2>8. CASE Reply(c, [code |-> 504, faces |-> {}]) /\ UNCHANGED fmTable
    BY <2>4, <2>8
  <2> QED
    BY <2>5, <2>6, <2>7, <2>8, Zenon
<1>3. CASE updateFace(c)
  <2>1. UNCHANGED <<fmLastId, fmGone, fmRoutes>> /\ Means(q.id, uri)
    BY <1>1, <1>3 DEF updateFace, ClientKnows, IdVerbs
  <2>2. ASSUME NEW code, Reply(c, [code |-> code, faces |-> {}]), UNCHANGED <<fmFaces, fmHits>> PROVE IdsMeanUris'
    <3>1. UrisKept
      BY <1>1, <2>1, <2>2, SameTable
    <3>2. ClientsKnow'
      BY <2>2, <3>1, ReplyKnows
    <3> QED
      BY <2>1, <2>2, <3>1, <3>2, IdsStep
  <2>3. ASSUME q.id \in DOMAIN fmFaces, fmFaces' = [fmFaces EXCEPT ![q.id] = Updated(@, q)],
               Reply(c, [code |-> 200, faces |-> {FaceOf(q.id, fmFaces'[q.id])}]), Hit(c, q.id)
        PROVE  IdsMeanUris'
    <3> DEFINE f == Updated(fmFaces[q.id], q)
    <3>1. DOMAIN fmFaces[q.id] = FaceFields
      BY <1>1, <2>3 DEF TableOK
    <3>2. DOMAIN f = FaceFields /\ f.uri = fmFaces[q.id].uri
      BY <3>1, UpdatedKeepsUri
    <3>3. fmFaces' = [fmFaces EXCEPT ![q.id] = f]
      BY <2>3
    <3> HIDE DEF f, uri
    <3>4. UrisKept
      BY Zenon, <1>1, <2>1, <2>3, <3>2, <3>3, ChangeKeepsUris
    <3>5. PICK i, u : i = q.id /\ u = uri
      OBVIOUS
    <3>6. Means(i, u)'
      BY <1>1, <2>1, <3>4, <3>5, MeansStays
    <3>7. u = fmRun[c].cmd.uri
      BY <3>5 DEF uri
    <3>8. PICK g : Reply(c, [code |-> 200, faces |-> {[id |-> i, face |-> g]}])
      BY <2>3, <3>5 DEF FaceOf
    <3>9. ClientsKnow'
      BY <3>4, <3>6, <3>7, <3>8, ReplyKnows
    <3>10. \A h \in fmHits' : h \in fmHits \/ h.hit = h.meant
      BY <2>1, <2>3 DEF Hit, Means, uri
    <3> QED
      BY <2>1, <3>4, <3>9, <3>10, IdsStep
  <2> QED
    BY <1>3, <2>2, <2>3 DEF updateFace
<1>4. CASE destroyFace(c)
  <2>1. UNCHANGED <<fmLastId, fmGone, fmRoutes>> /\ Means(q.id, uri)
        /\ Reply(c, [code |-> 200, faces |-> {}])
    BY <1>1, <1>4 DEF destroyFace, ClientKnows, IdVerbs
  <2>2. UrisKept
    <3>1. CASE q.id \in DOMAIN fmFaces /\ fmFaces' = [fmFaces EXCEPT ![q.id].state = "closing"]
      BY Zenon, <1>1, <2>1, <3>1, StateKeepsUris
    <3>2. CASE UNCHANGED fmFaces
      BY <1>1, <2>1, <3>2, SameTable
    <3> QED
      BY <1>4, <3>1, <3>2 DEF destroyFace
  <2>3. ClientsKnow'
    BY <2>1, <2>2, ReplyKnows
  <2>4. \A h \in fmHits' : h \in fmHits \/ h.hit = h.meant
    BY <1>4, <2>1 DEF destroyFace, Hit, Means
  <2> QED
    BY <2>1, <2>2, <2>3, <2>4, IdsStep
<1>5. CASE queryFaces(c)
  <2>1. UNCHANGED <<fmFaces, fmLastId, fmRoutes, fmHits>> /\ q.uri = uri
    BY <1>1, <1>5 DEF queryFaces, ClientKnows, UriVerbs, fmTable
  <2>2. UrisKept
    BY <1>1, <2>1, SameTable
  <2> DEFINE found == {FaceOf(id, fmFaces[id]) : id \in {i \in DOMAIN fmFaces : fmFaces[i].uri = q.uri}}
  <2>3. Reply(c, [code |-> 200, faces |-> found])
    BY <1>5 DEF queryFaces
  <2>4. ASSUME NEW x \in found PROVE x.id \in DOMAIN fmFaces /\ fmFaces[x.id].uri = uri
    BY <2>1 DEF FaceOf
  <2>5. PICK u : u = uri
    OBVIOUS
  <2> HIDE DEF uri, q
  <2>6. \A x \in found : Means(x.id, u)'
    BY <1>1, <2>1, <2>4, <2>5 DEF Means, TableOK
  <2> HIDE DEF found
  <2>7. ClientsKnow'
    <3>1. u = fmRun[c].cmd.uri
      BY <2>5 DEF uri
    <3> QED
      BY <2>2, <2>3, <2>6, <3>1, ReplyKnows
  <2> QED
    BY <2>1, <2>2, <2>7, IdsStep
<1>6. CASE FmRibCommand(c)
  <2>1. UNCHANGED <<fmFaces, fmLastId, fmHits>> /\ Means(q.id, uri)
        /\ Reply(c, [code |-> 200, faces |-> {}])
    BY <1>1, <1>6 DEF FmRibCommand, ClientKnows, IdVerbs, fmTable
  <2>2. UrisKept
    BY <1>1, <2>1, SameTable
  <2>3. ClientsKnow'
    BY <2>1, <2>2, ReplyKnows
  <2>4. \A r \in fmRoutes' : r \in fmRoutes \/ r = [id |-> q.id, uri |-> uri]
    BY <1>6 DEF FmRibCommand
  <2>5. \A r \in fmRoutes' : r \in fmRoutes \/ Means(r.id, r.uri)'
    BY <2>1, <2>4 DEF Means
  <2> QED
    BY <2>1, <2>2, <2>3, <2>5, IdsStep
<1> QED
  BY <1>2, <1>3, <1>4, <1>5, <1>6 DEF FmHandles

\* nfdc goes on with what it was answered, or gives up.
LEMMA ToolStep ==
  ASSUME IdsMeanUris, NEW c \in FmClients,
         NfdcStarts(c) \/ NfdcCreateAnswered(c) \/ NfdcFound(c) \/ NfdcLastAnswered(c) \/ NfdcTimesOut(c)
  PROVE  IdsMeanUris'
<1> DEFINE cmd == fmRun[c].cmd
           a   == fmRun[c].answer
<1>1. TableOK /\ ClientKnows(c)
  BY DEF IdsMeanUris
<1>2. UNCHANGED <<fmFaces, fmLastId, fmRoutes, fmHits>>
  BY Zenon DEF NfdcStarts, NfdcCreateAnswered, NfdcFound, NfdcLastAnswered, NfdcTimesOut, fmTable
<1>3. UrisKept
  BY <1>1, <1>2, SameTable
<1>4. SUFFICES ClientsKnow'
  BY <1>2, <1>3, IdsStep
<1>5. ASSUME NEW pc, pc # "find", Ends(c, pc) PROVE ClientsKnow'
  BY <1>2, <1>5, EndsKnows
<1>6. ASSUME NEW pc, NEW q, pc # "find", Sends(c, pc, q), q.verb \in IdVerbs, Means(q.id, cmd.uri) PROVE ClientsKnow'
  <2>1. q.verb \notin UriVerbs
    BY <1>6 DEF IdVerbs, UriVerbs
  <2> QED
    BY <1>2, <1>6, <2>1, SendsKnows
<1>7. ASSUME NEW pc, NEW q, pc = "find" => cmd.kind # "create",
             Sends(c, pc, q), q.verb \in UriVerbs, q.uri = cmd.uri PROVE ClientsKnow'
  <2>1. q.verb \notin IdVerbs
    BY <1>7 DEF IdVerbs, UriVerbs
  <2> QED
    BY <1>2, <1>7, <2>1, SendsKnows
<1>8. ASSUME a # NoAnswer, NEW x \in a.faces PROVE Means(x.id, cmd.uri)
  BY <1>1, <1>8 DEF ClientKnows
<1>9. CASE NfdcStarts(c)
  <2>1. CASE cmd.kind = "create"
    <3> DEFINE q == [verb |-> "create", uri |-> cmd.uri, pers |-> cmd.pers, rel |-> cmd.rel,
                     mark |-> cmd.mark, mtu |-> cmd.mtu]
    <3>1. Sends(c, "create", q) /\ q.verb \in UriVerbs /\ q.uri = cmd.uri
      BY <1>9, <2>1 DEF NfdcStarts, UriVerbs
    <3> HIDE DEF q
    <3> QED
      BY <1>7, <3>1
  <2>2. CASE cmd.kind # "create"
    <3> DEFINE q == [verb |-> "query", uri |-> cmd.uri]
    <3>1. Sends(c, "find", q) /\ q.verb \in UriVerbs /\ q.uri = cmd.uri
      BY <1>9, <2>2 DEF NfdcStarts, UriVerbs
    <3> HIDE DEF q
    <3> QED
      BY <1>7, <2>2, <3>1
  <2> QED
    BY <2>1, <2>2
<1>10. CASE NfdcCreateAnswered(c)
  <2>1. ASSUME NEW x \in a.faces, Sends(c, "update", Update409(cmd, x)) PROVE ClientsKnow'
    <3> DEFINE u == Update409(cmd, x)
    <3>1. u.verb \in IdVerbs /\ u.id = x.id
      BY DEF Update409, IdVerbs
    <3>2. Means(x.id, cmd.uri)
      BY Zenon, <1>8, <1>10 DEF NfdcCreateAnswered
    <3> HIDE DEF u
    <3>3. Sends(c, "update", u) /\ Means(u.id, cmd.uri)
      BY <2>1, <3>1, <3>2 DEF u
    <3> QED
      BY <1>6, <3>1, <3>3
  <2>2. Ends(c, "ok") \/ Ends(c, "error") \/ \E x \in a.faces : Sends(c, "update", Update409(cmd, x))
    BY <1>10, Zenon DEF NfdcCreateAnswered
  <2> QED
    BY <1>5, <2>1, <2>2, Zenon
<1>11. CASE NfdcFound(c)
  <2>1. ASSUME NEW x \in a.faces, NEW q, Sends(c, "last", q), q.verb \in IdVerbs, q.id = x.id PROVE ClientsKnow'
    <3>1. Means(x.id, cmd.uri)
      BY Zenon, <1>8, <1>11 DEF NfdcFound
    <3>2. Means(q.id, cmd.uri)
      BY <2>1, <3>1
    <3> QED
      BY <1>6, <2>1, <3>2
  <2>2. ASSUME NEW x \in a.faces,
               Sends(c, "last",
                     CASE cmd.kind = "destroy" -> [verb |-> "destroy", id |-> x.id]
                       [] cmd.kind = "route-add" -> [verb |-> "register", id |-> x.id]
                       [] cmd.kind = "route-remove" -> [verb |-> "unregister", id |-> x.id]
                       [] cmd.kind = "update" ->
                            [verb |-> "update", id |-> x.id, pers |-> cmd.pers, rel |-> cmd.rel,
                             mark |-> cmd.mark, local |-> cmd.local])
        PROVE  ClientsKnow'
    <3> DEFINE q == CASE cmd.kind = "destroy" -> [verb |-> "destroy", id |-> x.id]
                      [] cmd.kind = "route-add" -> [verb |-> "register", id |-> x.id]
                      [] cmd.kind = "route-remove" -> [verb |-> "unregister", id |-> x.id]
                      [] cmd.kind = "update" ->
                           [verb |-> "update", id |-> x.id, pers |-> cmd.pers, rel |-> cmd.rel,
                            mark |-> cmd.mark, local |-> cmd.local]
    <3>1. cmd.kind \in FmKinds \ {"create"}
      BY Zenon, <1>1, <1>11 DEF ClientKnows, NfdcFound
    <3>2. q.verb \in IdVerbs /\ q.id = x.id
      BY <3>1 DEF FmKinds, IdVerbs
    <3>3. Sends(c, "last", q)
      BY Zenon, <2>2
    <3> HIDE DEF q
    <3> QED
      BY <2>1, <3>2, <3>3
  <2>3. CASE Ends(c, "error")
    BY <1>5, <2>3
  <2> QED
    BY <1>11, <2>2, <2>3, Zenon DEF NfdcFound
<1>12. CASE NfdcLastAnswered(c)
  <2>1. Ends(c, "ok") \/ Ends(c, "error")
    BY <1>12 DEF NfdcLastAnswered
  <2> QED
    BY <1>5, <2>1
<1>13. CASE NfdcTimesOut(c)
  BY <1>5, <1>13 DEF NfdcTimesOut
<1> QED
  BY <1>9, <1>10, <1>11, <1>12, <1>13

\* Faces come, fail and go; RibManager learns of it.
LEMMA FaceStep ==
  ASSUME IdsMeanUris,
         \/ \E uri \in FmUris : FmAccepts(uri)
         \/ \E id \in DOMAIN fmFaces : FmStateChange(id) \/ FmFaceFails(id) \/ FaceTableRemove(id)
         \/ \E id \in fmGone : FmRibLearns(id)
  PROVE  IdsMeanUris'
<1>1. TableOK
  BY DEF IdsMeanUris
<1>2. fmRun' = fmRun /\ fmHits' = fmHits /\ fmRoutes' \subseteq fmRoutes
  BY Zenon DEF FmAccepts, FmStateChange, FmFaceFails, FaceTableRemove, FmRibLearns
<1>3. UrisKept
  <2>1. ASSUME NEW uri \in FmUris, FmAccepts(uri) PROVE UrisKept
    <3> DEFINE f == [uri |-> uri, pers |-> "ondemand", rel |-> "off", mark |-> "on", mtu |-> "link",
                     local |-> "off", state |-> "up"]
    <3>1. FaceTableAdd(f) /\ DOMAIN f = FaceFields
      BY <2>1 DEF FmAccepts, FaceFields
    <3> HIDE DEF f
    <3> QED
      BY <1>1, <3>1, AddKeepsUris
  <2>2. ASSUME NEW id \in DOMAIN fmFaces, FmStateChange(id) PROVE UrisKept
    <3>1. PICK st : fmFaces' = [fmFaces EXCEPT ![id].state = st]
      BY Zenon, <2>2 DEF FmStateChange
    <3> QED
      BY Zenon, <1>1, <2>2, <3>1, StateKeepsUris DEF FmStateChange
  <2>3. ASSUME NEW id \in DOMAIN fmFaces, FmFaceFails(id) PROVE UrisKept
    BY Zenon, <1>1, <2>3, StateKeepsUris DEF FmFaceFails
  <2>4. ASSUME NEW id \in DOMAIN fmFaces, FaceTableRemove(id) PROVE UrisKept
    BY <1>1, <2>4 DEF FaceTableRemove, Restrict, TableOK, UrisKept
  <2>5. ASSUME NEW id \in fmGone, FmRibLearns(id) PROVE UrisKept
    BY <1>1, <2>5, SameTable DEF FmRibLearns
  <2> QED
    BY <2>1, <2>2, <2>3, <2>4, <2>5
<1>4. ClientsKnow'
  BY <1>2, <1>3, ClientsUntouched
<1> QED
  BY <1>2, <1>3, <1>4, IdsStep

\* nfdc names a face by the FaceId it looked up before, and FaceManager and
\* RibManager act on it later, when the face may be gone, other faces made,
\* an answer late and a notification still on its way.  For any number of
\* clients running any subcommands, no update, destroy or route applies to a
\* face of another URI than the one the user named (FaceTable::add,
\* FaceManager, FindFace).
THEOREM CommandsHit == FmSpec => []CommandsHitTheFaceMeant
<1>1. FmInit => IdsMeanUris
  <2> SUFFICES ASSUME FmInit PROVE IdsMeanUris
    OBVIOUS
  <2>1. PICK script \in FmScripts :
          fmRun = [c \in FmClients |-> [cmd |-> script[c], pc |-> "start", request |-> NoRequest,
                                        answer |-> NoAnswer]]
    BY DEF FmInit
  <2>2. ASSUME NEW c \in FmClients PROVE ClientKnows(c)
    BY <2>1, FmScriptsAssumption DEF ClientKnows, RunFields, NoRequest, UriVerbs, IdVerbs
  <2>3. TableOK /\ fmRoutes = {} /\ fmHits = {}
    BY DEF FmInit, TableOK
  <2> QED
    BY <2>1, <2>2, <2>3 DEF IdsMeanUris
<1>2. IdsMeanUris /\ [FmNext]_fmVars => IdsMeanUris'
  <2> SUFFICES ASSUME IdsMeanUris, [FmNext]_fmVars PROVE IdsMeanUris'
    OBVIOUS
  <2>1. CASE UNCHANGED fmVars
    BY <2>1 DEF fmVars, fmTable, IdsMeanUris, TableOK, ClientKnows, Means
  <2> QED
    BY <2>1, HandlerStep, ToolStep, FaceStep DEF FmNext
<1>3. IdsMeanUris => CommandsHitTheFaceMeant
  BY DEF IdsMeanUris, CommandsHitTheFaceMeant, Means
<1> QED
  BY <1>1, <1>2, <1>3, PTL DEF FmSpec

-----------------------------------------------------------------------------
(* Autoconfig.                                                             *)

AuSpec == AuInit /\ [][AuNext]_auVars

\* In daemon mode something is due while the process lives; otherwise the
\* procedure is in its stages, in one connect, or has had its one outcome.
SomethingDue ==
  AuAlive =>
    \/ /\ auMode = "daemon"
       /\ auTimer # "none" \/ auStage # "idle" \/ auConnects # EmptyBag
    \/ /\ auMode = "once" /\ auTimer = "none"
       /\ \/ auStage # "idle" /\ auConnects = EmptyBag /\ auOutcomes = 0
          \/ auStage = "idle" /\ auOutcomes = 0 /\ \E s \in {"canonize", "create", "1", "2"} : auConnects = SetToBag({s})
          \/ auStage = "idle" /\ auConnects = EmptyBag /\ auOutcomes = 1

\* Bags of connect calls: what Succeeds adds is there, and the only call of a
\* bag of one leaves it empty.
LEMMA ConnectBags ==
  /\ \A s : SetToBag({s}) # EmptyBag
  /\ \A B, s : B (+) SetToBag({s}) # EmptyBag
  /\ \A s : EmptyBag (+) SetToBag({s}) = SetToBag({s})
  /\ \A s : SetToBag({s}) (-) SetToBag({s}) = EmptyBag
  /\ \A s, t : BagIn(s, SetToBag({t})) => s = t
  /\ \A s : ~ BagIn(s, EmptyBag)
<1>1. ASSUME NEW s PROVE SetToBag({s}) # EmptyBag
  <2>1. DOMAIN SetToBag({s}) = {s} /\ DOMAIN EmptyBag = {}
    BY DEF SetToBag, EmptyBag
  <2> QED
    BY <2>1
<1>2. ASSUME NEW B, NEW s PROVE B (+) SetToBag({s}) # EmptyBag
  <2>1. s \in DOMAIN (B (+) SetToBag({s})) /\ DOMAIN EmptyBag = {}
    BY DEF SetToBag, EmptyBag, (+)
  <2> QED
    BY <2>1
<1>3. ASSUME NEW s PROVE EmptyBag (+) SetToBag({s}) = SetToBag({s})
  BY DEF SetToBag, EmptyBag, (+)
<1>4. ASSUME NEW s PROVE SetToBag({s}) (-) SetToBag({s}) = EmptyBag
  BY DEF SetToBag, EmptyBag, (-)
<1>5. ASSUME NEW s, NEW t PROVE BagIn(s, SetToBag({t})) => s = t
  BY DEF SetToBag, BagIn, BagToSet
<1>6. ASSUME NEW s PROVE ~ BagIn(s, EmptyBag)
  BY DEF SetToBag, EmptyBag, BagIn, BagToSet
<1> QED
  BY <1>1, <1>2, <1>3, <1>4, <1>5, <1>6, Zenon


\* What a stage leaves behind when it fails or succeeds, the process being
\* alive before and the stage in progress.
LEMMA StageEnds ==
  ASSUME SomethingDue, AuAlive, auStage # "idle", UNCHANGED auMode, Fails
  PROVE  SomethingDue'
<1>1. CASE Succeeds
  <2>1. auStage' = "idle" /\ auConnects' = auConnects (+) SetToBag({"canonize"})
        /\ UNCHANGED <<auOutcomes, auTimer, auEnd>>
    BY <1>1 DEF Succeeds, NoOutcome
  <2>2. auConnects' # EmptyBag
    BY Zenon, <2>1, ConnectBags
  <2>3. auConnects = EmptyBag => auConnects' = SetToBag({"canonize"})
    BY Zenon, <2>1, ConnectBags
  <2>4. CASE auMode = "daemon"
    BY <2>1, <2>2, <2>4 DEF SomethingDue, AuAlive
  <2>5. CASE auMode = "once"
    BY <2>1, <2>3, <2>5 DEF SomethingDue, AuAlive
  <2> QED
    BY <2>4, <2>5 DEF SomethingDue
<1>2. CASE auStage' = "idle" /\ onComplete /\ UNCHANGED <<auConnects, auEnd>>
  BY <1>2 DEF onComplete, SomethingDue, AuAlive
<1>3. CASE auEnd' = "error"
  BY <1>3 DEF SomethingDue, AuAlive
<1> QED
  BY <1>1, <1>2, <1>3 DEF Fails

\* A stage goes on.
LEMMA StageGoes ==
  ASSUME SomethingDue, AuAlive, auStage # "idle", UNCHANGED auMode,
         NEW stage, stage # "idle", Goes(stage)
  PROVE  SomethingDue'
BY DEF Goes, NoOutcome, SomethingDue, AuAlive

\* ndn-autoconfig never falls asleep, for any number of multicast faces and
\* of overlapping connects: the daemon always has a run scheduled or in
\* progress, and a single run has exactly one outcome when it is over
\* (Procedure, Stage, runDaemon in tools/ndn-autoconfig).
THEOREM AutoconfigStaysAwake == AuSpec => []NeverAsleep
<1>1. AuInit => SomethingDue
  BY DEF AuInit, SomethingDue
<1>2. SomethingDue /\ [AuNext]_auVars => SomethingDue'
  <2> SUFFICES ASSUME SomethingDue, [AuNext]_auVars PROVE SomethingDue'
    OBVIOUS
  <2>1. CASE QueryAnswered
    BY <2>1, StageEnds, StageGoes DEF QueryAnswered
  <2>2. CASE RegAnswered
    <3>1. AuAlive /\ auStage # "idle" /\ UNCHANGED auMode
      BY <2>2 DEF RegAnswered
    <3>2. Goes("reg") \/ Goes("strategy") \/ Fails
      BY <2>2 DEF RegAnswered, afterReg
    <3> QED
      BY <3>1, <3>2, StageEnds, StageGoes
  <2>3. CASE setStrategyAnswered
    BY <2>3, StageEnds, StageGoes DEF setStrategyAnswered
  <2>4. CASE requestHubDataAnswered
    BY <2>4, StageEnds DEF requestHubDataAnswered, Fails
  <2>5. ASSUME NEW s \in DOMAIN auConnects, ConnectAnswered(s) PROVE SomethingDue'
    <3> DEFINE rest == auConnects (-) SetToBag({s})
    <3>1. /\ AuAlive /\ BagIn(s, auConnects) /\ UNCHANGED <<auMode, auStage, auEnd>>
          /\ \/ ~ IsLastStep(s) /\ auConnects' = rest (+) SetToBag({NextStep(s)}) /\ NoOutcome
             \/ auConnects' = rest /\ onComplete
      BY <2>5 DEF ConnectAnswered
    <3>2. CASE auMode = "daemon"
      BY Zenon, <3>1, <3>2, ConnectBags DEF SomethingDue, onComplete, AuAlive
    <3>3. CASE auMode = "once"
      <4>1. s \in {"canonize", "create", "1", "2"} /\ auConnects = SetToBag({s})
        <5>1. auConnects # EmptyBag
          BY <3>1, ConnectBags, Zenon
        <5>2. PICK t \in {"canonize", "create", "1", "2"} : auConnects = SetToBag({t})
          BY <3>1, <3>3, <5>1 DEF SomethingDue
        <5>3. s = t
          BY <3>1, <5>2, ConnectBags, Zenon
        <5> QED
          BY <5>2, <5>3
      <4>2. rest = EmptyBag /\ rest (+) SetToBag({NextStep(s)}) = SetToBag({NextStep(s)})
        BY <4>1, ConnectBags
      <4>3. ~ IsLastStep(s) => NextStep(s) \in {"canonize", "create", "1", "2"}
        BY <4>1 DEF IsLastStep, NextStep
      <4>4. auTimer = "none" /\ auStage = "idle" /\ auOutcomes = 0
        BY <3>1, <3>3, <4>1, ConnectBags DEF SomethingDue
      <4> HIDE DEF rest
      <4> QED
        BY <3>1, <3>3, <4>2, <4>3, <4>4 DEF SomethingDue, onComplete, NoOutcome
    <3> QED
      BY <3>1, <3>2, <3>3 DEF SomethingDue
  <2>6. CASE runOnce
    BY <2>6 DEF runOnce, SomethingDue, AuAlive
  <2>7. CASE NetworkChange
    BY <2>7 DEF NetworkChange, SomethingDue, AuAlive
  <2>8. CASE TerminateSignal
    BY <2>8 DEF TerminateSignal, SomethingDue, AuAlive
  <2>9. CASE UNCHANGED auVars
    BY <2>9 DEF auVars, SomethingDue, AuAlive
  <2> QED
    BY <2>1, <2>2, <2>3, <2>4, <2>5, <2>6, <2>7, <2>8, <2>9 DEF AuNext, AuAnswer
<1>3. SomethingDue => NeverAsleep
  <2> SUFFICES ASSUME SomethingDue, AuAlive, auStage = "idle", auConnects = EmptyBag
               PROVE  IF auMode = "daemon" THEN auTimer # "none" ELSE auOutcomes = 1
    BY DEF NeverAsleep
  <2> QED
    BY Zenon, ConnectBags DEF SomethingDue
<1> QED
  BY <1>1, <1>2, <1>3, PTL DEF AuSpec

-----------------------------------------------------------------------------
(* NfdDaemon.                                                              *)

NdSpec == NdInit /\ [][NdNext]_ndVars

\* A failure is on its way to the status until RibFails has stored it, and
\* the main thread is done only after the RIB thread.
StatusOnItsWay ==
  /\ ndFailed <=> ndRetval # 0 \/ ndRib = "failed"
  /\ ndMain = "done" => ndRib = "done"
  /\ ndMain = "init" => ndRib = "none" /\ ndRetval = 0

\* The threads of NFD end with a truthful status: whatever file is read,
\* whichever thread throws and however their steps interleave, once main()
\* returns its value is non-zero exactly when a thread has failed
\* (NfdRunner::run, m_retval in daemon/main.cpp).
THEOREM ExitStatusIsTruthful == NdSpec => []ExitStatusTruthful
<1>1. NdInit => StatusOnItsWay
  BY DEF NdInit, StatusOnItsWay
<1>2. StatusOnItsWay /\ [NdNext]_ndVars => StatusOnItsWay'
  <2> SUFFICES ASSUME StatusOnItsWay, [NdNext]_ndVars PROVE StatusOnItsWay'
    OBVIOUS
  <2> USE DEF StatusOnItsWay, ndThreads, ndHistory
  <2>1. CASE NdThreadStep
    <3>1. CASE Initialize
      <4>1. \/ ndMain' = "check" /\ ndRib' = "start" /\ UNCHANGED ndRetval /\ (ndFailed' <=> ndFailed)
            \/ ndMain' = "done" /\ ndRib' = "done" /\ ndRetval' = 1 /\ ndFailed'
        BY <3>1, Zenon DEF Initialize
      <4>2. ndMain = "init"
        BY <3>1 DEF Initialize
      <4> QED
        BY <4>1, <4>2
    <3>2. CASE MainChecks BY <3>2 DEF MainChecks
    <3>3. CASE MainStops BY <3>3 DEF MainStops
    <3>4. CASE StopRib BY <3>4 DEF StopRib
    <3>5. CASE JoinRib BY <3>5 DEF JoinRib
    <3>6. CASE RibStarts BY <3>6 DEF RibStarts
    <3>7. CASE RibNotifies BY <3>7 DEF RibNotifies
    <3>8. CASE RibConstructs BY <3>8 DEF RibConstructs
    <3>9. CASE RibStops BY <3>9 DEF RibStops
    <3>10. CASE RibFails BY <3>10 DEF RibFails
    <3>11. CASE RibLeaves BY <3>11 DEF RibLeaves
    <3> QED
      BY <2>1, <3>1, <3>2, <3>3, <3>4, <3>5, <3>6, <3>7, <3>8, <3>9, <3>10, <3>11 DEF NdThreadStep
  <2>2. CASE RibThrows BY <2>2 DEF RibThrows
  <2>3. CASE SpuriousWakeup BY <2>3 DEF SpuriousWakeup
  <2>4. CASE terminate BY <2>4 DEF terminate
  <2>5. ASSUME NEW code \in {1, 4}, MainThrows(code) PROVE StatusOnItsWay'
    BY <2>5 DEF MainThrows, IsServing
  <2>6. ASSUME NEW file \in NdFiles, EditFile(file) PROVE StatusOnItsWay'
    BY <2>6 DEF EditFile
  <2>7. CASE reload
    <3>1. \/ UNCHANGED <<ndMain, ndRetval>> /\ (ndFailed' <=> ndFailed)
          \/ ndMain' = "stop" /\ ndRetval' = 1 /\ ndFailed'
      BY <2>7, Zenon DEF reload
    <3>2. ndMain = "run" /\ ndRib' = ndRib
      BY <2>7 DEF reload, IsServing
    <3> QED
      BY <3>1, <3>2
  <2>8. CASE reloadConfigFileFaceSection BY <2>8 DEF reloadConfigFileFaceSection, IsServing
  <2>9. ASSUME NEW m \in NdModules, NEW s \in NdSigners, Command(m, s) PROVE StatusOnItsWay'
    BY <2>9 DEF Command
  <2>10. CASE UNCHANGED ndVars BY <2>10 DEF ndVars
  <2> QED
    BY <2>1, <2>2, <2>3, <2>4, <2>5, <2>6, <2>7, <2>8, <2>9, <2>10 DEF NdNext
<1>3. StatusOnItsWay => ExitStatusTruthful
  BY DEF StatusOnItsWay, ExitStatusTruthful
<1> QED
  BY <1>1, <1>2, <1>3, PTL DEF NdSpec

=============================================================================
