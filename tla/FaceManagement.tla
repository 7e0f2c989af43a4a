--------------------------- MODULE FaceManagement ---------------------------
(***************************************************************************)
(* FaceManager (daemon/mgmt/face-manager.cpp): the commands faces/create,  *)
(* faces/update and faces/destroy, the query dataset and the notification  *)
(* stream; and the nfdc tool that uses them (tools/nfdc/face-module.cpp,   *)
(* find-face.cpp, rib-module.cpp).  One nfdc invocation is several         *)
(* commands: between two of them the faces may change, and an answer may   *)
(* come too late for the tool though the command takes effect.             *)
(*                                                                         *)
(* A face is its remote URI, persistency, NDNLP options and state.  The    *)
(* channels that make the faces are in Channels, the RIB is in Rib.        *)
(***************************************************************************)
EXTENDS Naturals, Sequences, FiniteSets, Functions

CONSTANTS FmUris,         \* remote URIs of unicast faces
          FmLocal,        \* those of local scope
          FmTcp,          \* those of TCP faces, which a permanent one reconnects
          FmFixed,        \* those of faces only a peer makes, on-demand for good (Unix, WebSocket)
          FmClients,      \* processes that send commands
          FmScripts,      \* what they run: functions from FmClients to commands
          FmMaxFaces      \* bound on the faces made (model checking)

\* The subcommands of nfdc that concern a face, and a raw faces/update.
FmKinds == {"create", "destroy", "route-add", "route-remove", "update"}
ASSUME FmScriptsAssumption == \A script \in FmScripts : \A c \in FmClients : script[c].kind \in FmKinds

FmRank == [ondemand |-> 1, persistent |-> 2, permanent |-> 3]

VARIABLES fmFaces,     \* FaceTable::m_faces
          fmLastId,    \* FaceTable::m_lastFaceId
          fmRoutes,    \* [id, uri]: routes in the RIB, with the URI that was meant
          fmGone,      \* DESTROYED notifications RibManager has yet to get
          fmRun,       \* per client: its command line, where it is, what it knows
          fmHits       \* [meant, hit]: URIs of commands that found a face (history)

fmTable == <<fmFaces, fmLastId, fmGone>>
fmVars == <<fmTable, fmRoutes, fmRun, fmHits>>

\* An optional parameter that is not given (an indeterminate tribool).
Unset == "unset"
NoRequest == [verb |-> "none"]
NoAnswer == [code |-> 0]

FmInit ==
  /\ fmFaces = << >> /\ fmLastId = 0
  /\ fmRoutes = {} /\ fmGone = {} /\ fmHits = {}
  /\ \E script \in FmScripts :
       fmRun = [c \in FmClients |-> [cmd |-> script[c], pc |-> "start", request |-> NoRequest,
                                     answer |-> NoAnswer]]

FaceOf(id, f) == [id |-> id, face |-> f]
Chosen(want, default) == IF want = Unset THEN default ELSE want

-----------------------------------------------------------------------------
(* FaceTable::add and remove, with the signals FaceManager is connected to. *)

NextFaceId_Reused == CHOOSE id \in 1..(Cardinality(DOMAIN fmFaces) + 1) :
  id \notin DOMAIN fmFaces /\ \A j \in 1..(id - 1) : j \in DOMAIN fmFaces

NextFaceId == fmLastId + 1

FaceTableAdd(f) ==
  LET id == NextFaceId
  IN  /\ fmFaces' = [i \in DOMAIN fmFaces \cup {id} |-> IF i = id THEN f ELSE fmFaces[i]]
      /\ fmLastId' = id
      /\ fmGone' = fmGone

\* A channel accepts a peer: an on-demand face.
FmAccepts(uri) ==
  /\ fmLastId < FmMaxFaces
  /\ \A id \in DOMAIN fmFaces : fmFaces[id].uri # uri
  /\ FaceTableAdd([uri |-> uri, pers |-> "ondemand", rel |-> "off", mark |-> "on", mtu |-> "link",
                   local |-> "off", state |-> "up"])
  /\ UNCHANGED <<fmRoutes, fmRun, fmHits>>

\* The connection of a permanent TCP face fails or comes back.
FmStateChange(id) ==
  LET new == IF fmFaces[id].state = "up" THEN "down" ELSE "up"
  IN  /\ fmFaces[id].state \in {"up", "down"}
      /\ fmFaces[id].pers = "permanent" /\ fmFaces[id].uri \in FmTcp
      /\ fmFaces' = [fmFaces EXCEPT ![id].state = new]
      /\ UNCHANGED <<fmLastId, fmGone, fmRoutes, fmRun, fmHits>>

\* A face fails, or an on-demand face is idle: the transport begins to close.
FmFaceFails(id) ==
  /\ fmFaces[id].state \in {"up", "down"} /\ fmFaces[id].pers # "permanent"
  /\ fmFaces' = [fmFaces EXCEPT ![id].state = "closing"]
  /\ UNCHANGED <<fmLastId, fmGone, fmRoutes, fmRun, fmHits>>

\* CLOSED: FaceTable::remove, the notification, the connection is dropped.
FaceTableRemove(id) ==
  /\ fmFaces[id].state = "closing"
  /\ fmFaces' = Restrict(fmFaces, DOMAIN fmFaces \ {id})
  /\ fmGone' = fmGone \cup {id}
  /\ UNCHANGED <<fmLastId, fmRoutes, fmRun, fmHits>>

\* RibManager gets the notification: the routes of the face are erased.
FmRibLearns(id) ==
  /\ fmGone' = fmGone \ {id} /\ fmRoutes' = {r \in fmRoutes : r.id # id}
  /\ UNCHANGED <<fmFaces, fmLastId, fmRun, fmHits>>

-----------------------------------------------------------------------------
(* The command handlers.  Reply(c, ...) hands the answer to the client.    *)

Reply(c, answer) == fmRun' = [fmRun EXCEPT ![c].request = NoRequest, ![c].answer = answer]

Hit(c, id) == fmHits' = fmHits \cup {[meant |-> fmRun[c].cmd.uri, hit |-> fmFaces[id].uri]}

\* createFace and afterCreateFaceSuccess.  An existing face answers 409; it
\* may be closing.  The factory may also refuse, and does where it makes no
\* such face or cannot override the MTU.
createFace(c) ==
  LET q    == fmRun[c].request
      same == {id \in DOMAIN fmFaces : fmFaces[id].uri = q.uri}
      new  == [uri |-> q.uri, pers |-> q.pers, rel |-> Chosen(q.rel, "off"), mark |-> Chosen(q.mark, "on"),
               mtu |-> Chosen(q.mtu, "link"), local |-> "off", state |-> "up"]
  IN  /\ q.verb = "create" /\ fmHits' = fmHits /\ fmRoutes' = fmRoutes
      /\ \/ \E id \in same :
              /\ Reply(c, [code |-> 409, faces |-> {FaceOf(id, fmFaces[id])}])
              /\ UNCHANGED fmTable
         \/ /\ same = {} /\ fmLastId < FmMaxFaces
            /\ q.uri \notin FmFixed /\ (q.uri \in FmTcp => q.mtu = Unset)
            /\ FaceTableAdd(new)
            /\ Reply(c, [code |-> 200, faces |-> {FaceOf(NextFaceId, new)}])
         \/ /\ same = {}
            /\ Reply(c, [code |-> 504, faces |-> {}])
            /\ UNCHANGED fmTable

canChangePersistencyTo(f, p) == p = f.pers \/ f.uri \notin FmFixed

IsValidUpdate(f, q) ==
  /\ q.local = "on" => f.uri \in FmLocal
  /\ q.pers # Unset => canChangePersistencyTo(f, q.pers)

\* A TCP face that is down fails hard when it is permanent no more.
Updated(f, q) ==
  [f EXCEPT !.state = IF @ = "down" /\ q.pers \notin {Unset, "permanent"} THEN "closing" ELSE @,
            !.pers = Chosen(q.pers, @), !.rel = Chosen(q.rel, @), !.mark = Chosen(q.mark, @),
            !.local = IF f.uri \in FmLocal THEN Chosen(q.local, @) ELSE @]

updateFace(c) ==
  LET q == fmRun[c].request
  IN  /\ q.verb = "update" /\ fmRoutes' = fmRoutes
      /\ UNCHANGED <<fmLastId, fmGone>>
      /\ \/ /\ q.id \notin DOMAIN fmFaces
            /\ Reply(c, [code |-> 404, faces |-> {}]) /\ UNCHANGED <<fmFaces, fmHits>>
         \/ /\ q.id \in DOMAIN fmFaces /\ ~ IsValidUpdate(fmFaces[q.id], q)
            /\ Reply(c, [code |-> 409, faces |-> {}]) /\ UNCHANGED <<fmFaces, fmHits>>
         \/ /\ q.id \in DOMAIN fmFaces /\ IsValidUpdate(fmFaces[q.id], q)
            /\ fmFaces' = [fmFaces EXCEPT ![q.id] = Updated(@, q)]
            /\ Reply(c, [code |-> 200, faces |-> {FaceOf(q.id, fmFaces'[q.id])}])
            /\ Hit(c, q.id)

\* destroyFace answers 200 whether or not there is such a face.
destroyFace(c) ==
  LET id == fmRun[c].request.id
  IN  /\ fmRun[c].request.verb = "destroy"
      /\ Reply(c, [code |-> 200, faces |-> {}])
      /\ \/ /\ id \in DOMAIN fmFaces
            /\ fmFaces' = [fmFaces EXCEPT ![id].state = "closing"]
            /\ Hit(c, id)
         \/ id \notin DOMAIN fmFaces /\ UNCHANGED <<fmFaces, fmHits>>
      /\ UNCHANGED <<fmLastId, fmGone, fmRoutes>>

\* queryFaces with a filter on the remote URI.
queryFaces(c) ==
  /\ fmRun[c].request.verb = "query"
  /\ Reply(c, [code |-> 200, faces |-> {FaceOf(id, fmFaces[id]) : id \in
                 {i \in DOMAIN fmFaces : fmFaces[i].uri = fmRun[c].request.uri}}])
  /\ UNCHANGED <<fmTable, fmRoutes, fmHits>>

\* rib/register and rib/unregister, as far as they concern faces.
FmRibCommand(c) ==
  LET q == fmRun[c].request
      r == [id |-> q.id, uri |-> fmRun[c].cmd.uri]
  IN  /\ q.verb \in {"register", "unregister"}
      /\ fmRoutes' = IF q.verb = "register" THEN fmRoutes \cup {r} ELSE {x \in fmRoutes : x.id # q.id}
      /\ Reply(c, [code |-> 200, faces |-> {}])
      /\ UNCHANGED <<fmTable, fmHits>>

FmHandles(c) ==
  \/ createFace(c) \/ updateFace(c) \/ destroyFace(c) \/ queryFaces(c) \/ FmRibCommand(c)

-----------------------------------------------------------------------------
(* nfdc.                                                                   *)

Sends(c, pc, q) ==
  fmRun' = [fmRun EXCEPT ![c].pc = pc, ![c].request = q, ![c].answer = NoAnswer]

Ends(c, pc) == fmRun' = [fmRun EXCEPT ![c].pc = pc]

\* FaceModule::create asks for the face; the others look for it first.
NfdcStarts(c) ==
  LET cmd == fmRun[c].cmd
  IN  /\ fmRun[c].pc = "start" /\ UNCHANGED <<fmTable, fmRoutes, fmHits>>
      /\ IF cmd.kind = "create"
         THEN Sends(c, "create", [verb |-> "create", uri |-> cmd.uri, pers |-> cmd.pers, rel |-> cmd.rel,
                                  mark |-> cmd.mark, mtu |-> cmd.mtu])
         ELSE Sends(c, "find", [verb |-> "query", uri |-> cmd.uri])

persistencyLessThan(x, y) == FmRank[x] < FmRank[y]

Differing(want, have) == IF want = have THEN Unset ELSE want

\* handle409: the update that makes the existing face as asked, if any.
\* The upgrade does not carry congestion marking.
Update409(cmd, x) ==
  IF persistencyLessThan(x.face.pers, cmd.pers)
  THEN [verb |-> "update", id |-> x.id, pers |-> cmd.pers, rel |-> cmd.rel, mark |-> Unset, local |-> Unset]
  ELSE [verb |-> "update", id |-> x.id, pers |-> Unset, rel |-> Differing(cmd.rel, x.face.rel),
        mark |-> Differing(cmd.mark, x.face.mark), local |-> Unset]

NfdcCreateAnswered(c) ==
  LET cmd == fmRun[c].cmd
      a   == fmRun[c].answer
  IN  /\ fmRun[c].pc = "create" /\ a # NoAnswer
      /\ UNCHANGED <<fmTable, fmRoutes, fmHits>>
      /\ \/ a.code = 200 /\ Ends(c, "ok")
         \/ a.code \notin {200, 409} /\ Ends(c, "error")
         \/ \E x \in a.faces :
              LET u == Update409(cmd, x)
              IN  /\ a.code = 409
                  /\ \/ cmd.mtu \notin {Unset, x.face.mtu} /\ Ends(c, "error")
                     \/ /\ cmd.mtu \in {Unset, x.face.mtu}
                        /\ IF {u.pers, u.rel, u.mark} = {Unset} THEN Ends(c, "ok")
                           ELSE Sends(c, "update", u)

\* FindFace::execute and its callers: face destroy, route add, route
\* remove (which takes every match, here one), and a raw faces/update.
NfdcFound(c) ==
  LET cmd == fmRun[c].cmd
      a   == fmRun[c].answer
  IN  /\ fmRun[c].pc = "find" /\ a # NoAnswer
      /\ UNCHANGED <<fmTable, fmRoutes, fmHits>>
      /\ \/ Cardinality(a.faces) # 1 /\ Ends(c, "error")
         \/ \E x \in a.faces :
              /\ a.faces = {x}
              /\ Sends(c, "last",
                       CASE cmd.kind = "destroy" -> [verb |-> "destroy", id |-> x.id]
                         [] cmd.kind = "route-add" -> [verb |-> "register", id |-> x.id]
                         [] cmd.kind = "route-remove" -> [verb |-> "unregister", id |-> x.id]
                         [] cmd.kind = "update" ->
                              [verb |-> "update", id |-> x.id, pers |-> cmd.pers, rel |-> cmd.rel,
                               mark |-> cmd.mark, local |-> cmd.local])

NfdcLastAnswered(c) ==
  /\ fmRun[c].pc \in {"update", "last"} /\ fmRun[c].answer # NoAnswer
  /\ Ends(c, IF fmRun[c].answer.code = 200 THEN "ok" ELSE "error")
  /\ UNCHANGED <<fmTable, fmRoutes, fmHits>>

\* The command times out in the tool; NFD may still handle it.
NfdcTimesOut(c) ==
  /\ fmRun[c].request # NoRequest /\ fmRun[c].pc \notin {"ok", "error"}
  /\ Ends(c, "error")
  /\ UNCHANGED <<fmTable, fmRoutes, fmHits>>

FmNext ==
  \/ \E c \in FmClients : \/ NfdcStarts(c) \/ FmHandles(c) \/ NfdcCreateAnswered(c) \/ NfdcFound(c)
                          \/ NfdcLastAnswered(c) \/ NfdcTimesOut(c)
  \/ \E uri \in FmUris : FmAccepts(uri)
  \/ \E id \in DOMAIN fmFaces : FmStateChange(id) \/ FmFaceFails(id) \/ FaceTableRemove(id)
  \/ \E id \in fmGone : FmRibLearns(id)

-----------------------------------------------------------------------------

\* nfdc finds a face by its URI and then names it by its FaceId; in between
\* the face may be gone and other faces made, and RibManager may hear of it
\* late.  No update, no destroy and no route ever applies to a face with
\* another URI than the one the user named.
CommandsHitTheFaceMeant ==
  /\ \A h \in fmHits : h.hit = h.meant
  /\ \A r \in fmRoutes : r.id \in DOMAIN fmFaces => fmFaces[r.id].uri = r.uri

=============================================================================
