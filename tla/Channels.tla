------------------------------ MODULE Channels ------------------------------
(***************************************************************************)
(* A channel, the faces it makes and the FaceTable they are kept in        *)
(* (daemon/face: udp-channel, ethernet-channel, tcp-channel,               *)
(* unix-stream-channel, websocket-channel and their unicast transports;    *)
(* daemon/fw/face-table.cpp).  chKind is the kind of the channel.          *)
(*                                                                         *)
(* A face is closed in two steps: the transport leaves UP, and a posted    *)
(* handler makes it CLOSED, which takes it out of the channel's map, then  *)
(* out of the table.  In between it is still found.  A WebSocket transport *)
(* does both at once.  The handlers of the io_service (external) run in    *)
(* order; sockets and timers act between them.                             *)
(***************************************************************************)
EXTENDS Naturals, Sequences, SequencesExt, Functions, FiniteSets, TLC

CONSTANTS ChPeers,        \* remote endpoints
          ChRequests,     \* face creation requests of the management
          ChIdleTimeout,  \* m_idleFaceTimeout
          ChMaxFaces,     \* bound on the faces made
          ChMaxQueue,     \* bound on the datagrams waiting at the channel's socket
          ChMaxFailures   \* bound on the faults of accept, bind and connect

VARIABLES chKind, ch

chVars == <<chKind, ch>>

NoTimer == ChIdleTimeout + 1
Datagrams == chKind \in {"udp", "ether"}

\* A request: a connection in progress (op), its timeout and its socket.
NoRequest == [peer |-> "none", op |-> FALSE, timer |-> FALSE, open |-> FALSE]

\* Construction and listen(); no face, no request.
NewChannel ==
  [ faces |-> <<>>, table |-> << >>, lastId |-> 0, map |-> << >>, filter |-> {}, size |-> 0,
    io |-> <<>>, in |-> <<>>, listening |-> TRUE, failures |-> 0, halted |-> FALSE,
    req |-> [r \in ChRequests |-> NoRequest], answers |-> [r \in ChRequests |-> <<>>] ]

Live(c, f) == c.faces[f].state = "UP"
Post(c, h) == [c EXCEPT !.io = Append(@, h)]

\* EthernetChannel::updateFilter: frames of the peers that have a face are theirs.
updateFilter(c) == IF chKind = "ether" THEN [c EXCEPT !.filter = DOMAIN c.map] ELSE c

\* FaceTable::add and remove; an id is never given twice.
tableAdd(c, f) ==
  LET id == c.lastId + 1
  IN IF c.faces[f].id # 0 THEN c
     ELSE [c EXCEPT !.lastId = id, !.faces[f].id = id, !.table = (id :> f) @@ @]
tableRemove(c, f) ==
  Post([c EXCEPT !.table = Restrict(@, DOMAIN @ \ {c.faces[f].id}), !.faces[f].id = 0],
       <<"dealloc", f>>)

\* scheduleClosureWhenIdle, for an on-demand face.
scheduleClosureWhenIdle(c, f) == [c EXCEPT !.faces[f].idle = ChIdleTimeout]

\* createFace: a map of endpoints for all but the Unix stream channel.
Known(c, e) == e \in DOMAIN c.map
makeFace(c, e, pers) ==
  LET f == Len(c.faces) + 1
      face == [ep |-> e, pers |-> pers, state |-> "UP", id |-> 0, recent |-> FALSE,
               idle |-> IF pers = "on-demand" /\ Datagrams THEN ChIdleTimeout ELSE NoTimer]
      d == [c EXCEPT !.faces = Append(@, face), !.size = @ + 1]
  IN updateFilter(IF chKind = "unix" THEN d ELSE [d EXCEPT !.map = (e :> f) @@ @])
createFace(c, e, pers) == IF Known(c, e) THEN c ELSE makeFace(c, e, pers)
FaceFor(c, e) == IF chKind = "unix" THEN Len(c.faces) ELSE c.map[e]

\* setState(CLOSED): the channel's handler was connected before the table's.
setClosed_KeepsMap(c, f) ==
  tableRemove([c EXCEPT !.faces[f].state = "CLOSED", !.size = @ - 1], f)
setClosed(c, f) ==
  LET d == [c EXCEPT !.faces[f].state = "CLOSED", !.size = @ - 1,
                     !.map = IF chKind = "unix" THEN @ ELSE Restrict(@, DOMAIN @ \ {c.faces[f].ep})]
  IN tableRemove(updateFilter(d), f)

\* doClose of the transports, after close() or an error.
doCloseFace(c, f, state) ==
  LET d == [c EXCEPT !.faces[f].state = state]
  IN IF chKind = "ws" THEN setClosed(d, f) ELSE Post(d, <<"closed", f>>)

\* receiveDatagram and receivePayload of a transport.
receiveDatagram(c, f) == [c EXCEPT !.faces[f].recent = TRUE]

\* handleNewPeer of UdpChannel, processIncomingPacket of EthernetChannel.
newPeer(c, e) ==
  LET d == createFace(c, e, "on-demand")
      f == FaceFor(d, e)
  IN receiveDatagram(IF Known(c, e) THEN d ELSE tableAdd(d, f), f)

\* The answer to a creation request, once its face is in the table.
answer(c, r, code) == [c EXCEPT !.answers[r] = Append(@, code)]
faceCreated(c, r, e) ==
  answer(tableAdd(createFace(c, e, "persistent"), FaceFor(createFace(c, e, "persistent"), e)), r, "ok")

\* TcpChannel::handleConnect; a socket closed by the timeout has no endpoint.
handleConnect(c, r, err) ==
  LET d == [c EXCEPT !.req[r].timer = FALSE]
  IN CASE err = "aborted" -> d
       [] err = "error" -> answer(d, r, "failed")
       [] err = "ok" -> IF c.req[r].open THEN faceCreated(d, r, c.req[r].peer)
                        ELSE [d EXCEPT !.halted = TRUE]

-----------------------------------------------------------------------------
\* A face may be made in this step.
MayMake == Len(ch.faces) < ChMaxFaces

\* A frame or datagram of peer e: to the face that has a socket for it, else to
\* the channel's socket.  EthernetChannel's filter is what decides there.
Arrive(e) ==
  LET open == {f \in DOMAIN ch.faces : ch.faces[f].ep = e /\ Live(ch, f)}
      atChannel == IF chKind = "ether" THEN e \notin ch.filter ELSE open = {}
      taken == IF open = {} THEN ch ELSE receiveDatagram(ch, CHOOSE f \in open : TRUE)
  IN /\ Datagrams
     /\ atChannel => ch.listening /\ Len(ch.in) < ChMaxQueue
     /\ ch' = IF atChannel THEN [taken EXCEPT !.in = Append(@, e)] ELSE taken

\* The channel's receive handler; when the face cannot be made, UdpChannel
\* stops listening and EthernetChannel goes on.
HandleNewPeer(fails) ==
  /\ Datagrams /\ ch.in # <<>> /\ ch.listening
  /\ LET e == Head(ch.in)
         rest == [ch EXCEPT !.in = Tail(@)]
     IN /\ fails => ~Known(ch, e) /\ ch.failures < ChMaxFailures
        /\ ~fails /\ ~Known(ch, e) => MayMake
        /\ ch' = IF fails THEN [rest EXCEPT !.failures = @ + 1, !.listening = chKind = "ether"]
                 ELSE newPeer(rest, e)

\* handleAccept of TcpChannel and UnixStreamChannel; WebSocketChannel::handleOpen,
\* where every connection has a handle of its own.
AcceptFrom(e) == LET d == createFace(ch, e, "on-demand") IN ch' = tableAdd(d, FaceFor(d, e))
Accept(e) == chKind \in {"tcp", "unix"} /\ ch.listening /\ MayMake /\ AcceptFrom(e)
handleOpen(e) == chKind = "ws" /\ MayMake /\ ~Known(ch, e) /\ AcceptFrom(e)
AcceptFails ==
  /\ chKind \in {"tcp", "unix"} /\ ch.listening /\ ch.failures < ChMaxFailures
  /\ ch' = [ch EXCEPT !.listening = FALSE, !.failures = @ + 1]

\* connect of the channels: a face that is known is the answer at once, even
\* one that is closing.
Connect(r, e, fails) ==
  /\ chKind \in {"udp", "ether", "tcp"} /\ ch.req[r].peer = "none" /\ MayMake
  /\ fails => Datagrams /\ ~Known(ch, e) /\ ch.failures < ChMaxFailures
  /\ LET c == [ch EXCEPT !.req[r].peer = e]
     IN ch' = IF fails THEN answer([c EXCEPT !.failures = @ + 1], r, "failed")
              ELSE IF Datagrams \/ Known(ch, e) THEN faceCreated(c, r, e)
              ELSE [c EXCEPT !.req[r] = [peer |-> e, op |-> TRUE, timer |-> TRUE, open |-> TRUE]]

\* TCP: the connection is made or fails, or the timeout closes its socket.
ConnectDone(r, err) ==
  /\ ch.req[r].op /\ MayMake
  /\ ch' = Post([ch EXCEPT !.req[r].op = FALSE], <<"connect", r, err>>)
handleConnectTimeout_Silent(r) ==
  /\ ch.req[r].timer
  /\ LET c == [ch EXCEPT !.req[r].timer = FALSE, !.req[r].open = FALSE, !.req[r].op = FALSE]
     IN ch' = IF ch.req[r].op THEN Post(c, <<"connect", r, "aborted">>) ELSE c
handleConnectTimeout(r) ==
  /\ ch.req[r].timer
  /\ LET c == answer([ch EXCEPT !.req[r].timer = FALSE, !.req[r].open = FALSE, !.req[r].op = FALSE],
                     r, "failed")
     IN ch' = IF ch.req[r].op THEN Post(c, <<"connect", r, "aborted">>) ELSE c

\* Transport::close by the management; WebSocketChannel::handleClose, when the
\* peer ends its connection.
CloseFace(f) == Live(ch, f) /\ ch' = doCloseFace(ch, f, "CLOSING")
handleClose(e) == chKind = "ws" /\ Known(ch, e) /\ CloseFace(ch.map[e])

\* An error, which a permanent datagram face ignores; a pong timeout or an error
\* of a WebSocket transport.
FaceFails(f) ==
  /\ chKind # "ws" /\ Live(ch, f) /\ ~(ch.faces[f].pers = "permanent" /\ Datagrams)
  /\ ch' = doCloseFace(ch, f, "FAILED")
handlePongTimeout(f) == chKind = "ws" /\ Live(ch, f) /\ ch' = doCloseFace(ch, f, "FAILED")

\* setPersistency with afterChangePersistency of the unicast transports.
ChangePersistency(f, p) ==
  /\ Datagrams /\ Live(ch, f) /\ p # ch.faces[f].pers
  /\ LET c == [ch EXCEPT !.faces[f].pers = p]
     IN ch' = IF p = "on-demand" THEN scheduleClosureWhenIdle(c, f)
              ELSE [c EXCEPT !.faces[f].idle = NoTimer]

\* The idle timer of face f.
CloseIfIdle(f) ==
  /\ ch.faces[f].idle = 0
  /\ ch' = IF ch.faces[f].recent
           THEN scheduleClosureWhenIdle([ch EXCEPT !.faces[f].recent = FALSE], f)
           ELSE LET c == [ch EXCEPT !.faces[f].idle = NoTimer]
                IN IF Live(ch, f) THEN doCloseFace(c, f, "CLOSING") ELSE c

\* Time passes, not beyond a timer that is due.
ChTick ==
  /\ Datagrams /\ \E f \in DOMAIN ch.faces : ch.faces[f].idle # NoTimer
  /\ \A f \in DOMAIN ch.faces : ch.faces[f].idle # 0
  /\ ch' = [ch EXCEPT !.faces = [f \in DOMAIN ch.faces |->
              [@[f] EXCEPT !.idle = IF @ = NoTimer THEN @ ELSE @ - 1]]]

\* The io_service runs its next handler.
RunPosted ==
  /\ ch.io # <<>>
  /\ LET h == Head(ch.io)
         c == [ch EXCEPT !.io = Tail(@)]
     IN ch' = CASE h[1] = "closed" -> setClosed(c, h[2])
                [] h[1] = "dealloc" -> [c EXCEPT !.faces[h[2]].state = "gone", !.faces[h[2]].idle = NoTimer]
                [] h[1] = "connect" -> handleConnect(c, h[2], h[3])

ChInit == chKind \in {"udp", "ether", "tcp", "unix", "ws"} /\ ch = NewChannel
ChStep(peers, requests, persistencies) ==
  /\ ~ch.halted /\ UNCHANGED chKind
  /\ \/ \E e \in peers : Arrive(e) \/ Accept(e) \/ handleOpen(e) \/ handleClose(e)
     \/ \E b \in BOOLEAN : HandleNewPeer(b)
     \/ AcceptFails \/ ChTick \/ RunPosted
     \/ \E r \in requests :
          \/ \E e \in peers : \E b \in BOOLEAN : Connect(r, e, b)
          \/ \E err \in {"ok", "error"} : ConnectDone(r, err)
          \/ handleConnectTimeout(r)
     \/ \E f \in DOMAIN ch.faces :
          \/ CloseFace(f) \/ FaceFails(f) \/ handlePongTimeout(f) \/ CloseIfIdle(f)
          \/ \E p \in persistencies : ChangePersistency(f, p)
ChNext == ChStep(ChPeers, ChRequests, {"on-demand", "persistent", "permanent"})

-----------------------------------------------------------------------------
InMap == {f \in DOMAIN ch.faces : ch.faces[f].state \in {"UP", "CLOSING", "FAILED"}}

\* The channel's map, its size and the FaceTable hold the same faces, those that
\* are not CLOSED yet, under one endpoint and one id each: no lookup finds a
\* face that is gone, and none is lost while it can still receive.
\* EthernetChannel's filter leaves out exactly the peers that have a face: what
\* a peer sends reaches its face or the channel, not both and not neither.
ChannelAndTableAgree ==
  /\ {ch.table[i] : i \in DOMAIN ch.table} = InMap
  /\ \A i \in DOMAIN ch.table : ch.faces[ch.table[i]].id = i
  /\ ch.size = Cardinality(InMap)
  /\ chKind # "unix" =>
       /\ {ch.map[e] : e \in DOMAIN ch.map} = InMap
       /\ \A e \in DOMAIN ch.map : ch.faces[ch.map[e]].ep = e
  /\ chKind = "ether" => ch.filter = DOMAIN ch.map

Unanswered(r) == ch.req[r].peer # "none" /\ ch.answers[r] = <<>>

\* Every face creation request is answered or the process has ended, and none is
\* told both that it failed and that it succeeded, whichever of the connection,
\* its failure and the timeout comes first.  (It may be told twice that it failed.)
RequestsAreAnswered ==
  /\ [](\A r \in ChRequests : ~({"ok", "failed"} \subseteq ToSet(ch.answers[r])))
  /\ (\E r \in ChRequests : Unanswered(r)) ~> ch.halted \/ \A r \in ChRequests : ~Unanswered(r)

\* The io_service runs what is posted, and connection timeouts expire.
ChDue == ~ch.halted /\ (ch.io # <<>> \/ \E r \in ChRequests : ch.req[r].timer)
ChDueStep == RunPosted \/ \E r \in ChRequests : handleConnectTimeout(r)
=============================================================================
