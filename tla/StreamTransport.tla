--------------------------- MODULE StreamTransport ---------------------------
(***************************************************************************)
(* A stream transport from its creation to its deallocation: Transport,    *)
(* StreamTransport and the reconnection of TcpTransport                    *)
(* (daemon/face/transport.cpp, stream-transport.hpp, tcp-transport.cpp),   *)
(* with FaceTable::remove's deferred deallocation.                         *)
(*                                                                         *)
(* The global io_service is external: a queue of handlers that run one at  *)
(* a time, in order.  A socket operation that is outstanding completes at  *)
(* any moment, which queues its handler; cancel() makes those still        *)
(* outstanding complete as aborted but does not reach a handler that is    *)
(* queued already.  After shutdown() sends fail and receives see the end   *)
(* of the stream.                                                          *)
(*                                                                         *)
(* A failed BOOST_ASSERT is recorded in asserts.  The run goes on where a  *)
(* release build passes the line unharmed, and ends (halted) where what    *)
(* follows is undefined or an exception leaves the io_service.             *)
(***************************************************************************)
EXTENDS Naturals, Sequences, SequencesExt

CONSTANTS StMaxSends,      \* bound on the packets sent
          StMaxChanges,    \* bound on the persistency changes
          StPersistencies  \* the persistencies it may have

VARIABLES st,       \* the transport, its socket and the io_service
          stSends, stChanges

stVars == <<st, stSends, stChanges>>

Handler(h, err, pkt) == [h |-> h, err |-> err, pkt |-> pkt]
Posted(h) == Handler(h, "none", 0)

\* The constructors: an open connection with a receive started.
NewTransport(persistency) ==
  [ state |-> "UP", pers |-> persistency, sock |-> "connected", ops |-> {<<"recv", 0>>},
    queue |-> <<>>, io |-> <<>>, timer |-> FALSE, asserts |-> {}, halted |-> FALSE,
    wasDown |-> FALSE ]

Halt(s, why) == [s EXCEPT !.asserts = @ \cup {why}, !.halted = TRUE]
StPost(s, h) == [s EXCEPT !.io = Append(@, h)]

\* Transport::setState; the caller ends where the transition is not one of the
\* table's.  CLOSED removes the face from the FaceTable, which posts its
\* deallocation.
ValidTransition(old, new) ==
  new \in CASE old = "UP" -> {"DOWN", "CLOSING", "FAILED"}
            [] old = "DOWN" -> {"UP", "CLOSING", "FAILED"}
            [] old \in {"CLOSING", "FAILED"} -> {"CLOSED"}
            [] OTHER -> {}
setState(s, new) ==
  IF s.state = new THEN s
  ELSE IF ~ValidTransition(s.state, new) THEN Halt(s, "invalid state transition")
  ELSE IF new = "CLOSED" THEN StPost([s EXCEPT !.state = new], Posted("dealloc"))
  ELSE [s EXCEPT !.state = new, !.wasDown = @ \/ new = "DOWN"]

ShuttingDown(s) == s.state \in {"CLOSING", "FAILED", "CLOSED"}

\* socket::cancel and close: what is outstanding completes as aborted.
Cancel(s) == [s EXCEPT !.ops = {},
                       !.io = @ \o SetToSeq({Handler(o[1], "aborted", o[2]) : o \in s.ops})]

\* TcpTransport::doClose and StreamTransport::doClose, deferredClose.
doClose(s) ==
  LET c == IF s.sock = "closed" THEN s ELSE [Cancel(s) EXCEPT !.sock = "shutdown"]
  IN StPost([c EXCEPT !.timer = FALSE], Posted("deferredClose"))
deferredClose_KeepsSocket(s) == setState([s EXCEPT !.queue = <<>>], "CLOSED")
deferredClose(s) == setState([Cancel(s) EXCEPT !.queue = <<>>, !.sock = "closed"], "CLOSED")

\* sendFromQueue and startReceive start an operation on the socket.
sendFromQueue(s) == [s EXCEPT !.ops = @ \cup {<<"send", Head(s.queue)>>}]
startReceive(s) ==
  LET r == [s EXCEPT !.ops = @ \cup {<<"recv", 0>>}]
  IN IF s.state = "UP" THEN r
     ELSE IF s.state = "DOWN" THEN Halt(r, "startReceive")
     ELSE [r EXCEPT !.asserts = @ \cup {"startReceive"}]

\* doSend, for a transport that is not UP nothing.
doSend(s, pkt) ==
  LET q == [s EXCEPT !.queue = Append(@, pkt)]
  IN IF s.state # "UP" THEN s
     ELSE IF s.queue = <<>> THEN sendFromQueue(q) ELSE q

\* TcpTransport::handleError: a permanent transport goes DOWN and reconnects,
\* any other fails or, at the end of the stream, closes.
handleError(s, err) ==
  IF s.pers = "permanent" THEN StPost(Cancel(setState(s, "DOWN")), Posted("reconnect"))
  ELSE doClose(setState(s, IF err = "eof" THEN "CLOSING" ELSE "FAILED"))
processErrorCode(s, err) ==
  IF ShuttingDown(s) \/ err \in {"aborted", "shut_down"} THEN s ELSE handleError(s, err)

\* handleSend: the packet written is the front of the queue and leaves it.
handleSend(s, err, pkt) ==
  LET popped == [s EXCEPT !.queue = Tail(@)]
  IN IF err # "ok" THEN processErrorCode(s, err)
     ELSE IF s.queue = <<>> THEN Halt(s, "handleSend")
     ELSE IF Head(s.queue) # pkt THEN Halt(s, "handleSend")
     ELSE IF popped.queue = <<>> THEN popped ELSE sendFromQueue(popped)

\* handleReceive: packets, or a full buffer in which none can be parsed.
handleReceive(s, err) ==
  CASE err = "ok" -> startReceive(s)
    [] err = "oversize" -> LET f == setState(s, "FAILED") IN IF f.halted THEN f ELSE doClose(f)
    [] OTHER -> processErrorCode(s, err)

\* TcpTransport::reconnect, handleReconnect, handleReconnectTimeout.
reconnect(s) ==
  LET fresh == [Cancel(s) EXCEPT !.sock = "connecting", !.queue = <<>>, !.timer = TRUE,
                                 !.ops = {<<"connect", 0>>}]
  IN IF ShuttingDown(s) THEN s
     ELSE IF s.pers # "permanent" \/ s.state # "DOWN" THEN Halt(s, "reconnect")
     ELSE fresh
handleReconnect(s, err) ==
  IF ShuttingDown(s) \/ err # "ok" THEN s
  ELSE IF s.sock = "closed" THEN Halt(s, "local_endpoint")
  ELSE startReceive(setState([s EXCEPT !.timer = FALSE], "UP"))
handleReconnectTimeout(s) ==
  StPost([Cancel(s) EXCEPT !.sock = "closed", !.timer = FALSE], Posted("reconnect"))

-----------------------------------------------------------------------------
\* The steps.  Nothing happens once the transport is gone or the process ended.
StRunning == st.state # "gone" /\ ~st.halted

\* Transport::send from the link service.
StSend ==
  /\ StRunning /\ stSends < StMaxSends
  /\ stSends' = stSends + 1
  /\ st' = IF ShuttingDown(st) THEN st ELSE doSend(st, stSends + 1)
  /\ UNCHANGED stChanges

\* Transport::close, from a management command or a channel.
StClose ==
  /\ StRunning /\ st.state \in {"UP", "DOWN"}
  /\ st' = doClose(setState(st, "CLOSING"))
  /\ UNCHANGED <<stSends, stChanges>>

\* setPersistency with TcpTransport::afterChangePersistency.
StSetPersistency(p) ==
  /\ StRunning /\ stChanges < StMaxChanges /\ p # st.pers
  /\ stChanges' = stChanges + 1
  /\ LET c == [st EXCEPT !.pers = p]
     IN st' = IF st.pers = "permanent" /\ st.state = "DOWN"
              THEN doClose(setState(c, "FAILED")) ELSE c
  /\ UNCHANGED stSends

\* The socket completes an operation.
Outcomes(op, sock) ==
  CASE sock = "shutdown" -> IF op = "recv" THEN {"eof"} ELSE {"shut_down"}
    [] sock = "closed" -> {"error"}
    [] op = "recv" -> {"ok", "oversize", "eof", "error"}
    [] OTHER -> {"ok", "error"}
StComplete(o, outcome) ==
  /\ StRunning /\ o \in st.ops /\ outcome \in Outcomes(o[1], st.sock)
  /\ st' = StPost([st EXCEPT !.ops = @ \ {o},
                           !.sock = IF o[1] = "connect" /\ outcome = "ok" THEN "connected" ELSE @],
                Handler(o[1], outcome, o[2]))
  /\ UNCHANGED <<stSends, stChanges>>

\* The io_service runs the handler at the head of its queue.
RunHandler(s, h) ==
  CASE h.h = "recv" -> handleReceive(s, h.err)
    [] h.h = "send" -> handleSend(s, h.err, h.pkt)
    [] h.h = "connect" -> handleReconnect(s, h.err)
    [] h.h = "reconnect" -> reconnect(s)
    [] h.h = "deferredClose" -> deferredClose(s)
    [] h.h = "dealloc" -> [s EXCEPT !.state = "gone"]
StRun ==
  /\ StRunning /\ st.io # <<>>
  /\ st' = RunHandler([st EXCEPT !.io = Tail(@)], Head(st.io))
  /\ UNCHANGED <<stSends, stChanges>>

\* The reconnection timer.
StTimer ==
  /\ StRunning /\ st.timer
  /\ st' = handleReconnectTimeout(st)
  /\ UNCHANGED <<stSends, stChanges>>

StInit == /\ st \in {NewTransport(p) : p \in StPersistencies}
          /\ stSends = 0 /\ stChanges = 0
StNext == \/ StSend \/ StClose \/ StRun \/ StTimer
          \/ \E p \in StPersistencies : StSetPersistency(p)
          \/ \E o \in st.ops : \E outcome \in Outcomes(o[1], st.sock) : StComplete(o, outcome)

-----------------------------------------------------------------------------
\* What the transport's comments and assertions say holds, whatever completions
\* and timers are queued when it is sent to, changed or closed.  No handler and
\* no operation is left when the face is deallocated (doClose's "ensure that the
\* Transport stays alive at least until all pending handlers are dispatched").
\* "non-permanent transport cannot be in DOWN state" (afterChangePersistency).
\* On a transport that has never been DOWN, handleSend's assertions hold.
TransportAssertionsHold ==
  /\ st.state = "gone" => st.ops = {} /\ st.io = <<>>
  /\ st.state = "DOWN" => st.pers = "permanent"
  /\ ~st.wasDown => st.asserts \cap {"handleSend", "reconnect", "local_endpoint"} = {}
=============================================================================
