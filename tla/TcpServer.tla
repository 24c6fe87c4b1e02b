------------------------------ MODULE TcpServer ------------------------------
(***************************************************************************)
(* A server: an AsyncTcpAcceptor and its AsyncTcpSockets on one EventLoop, *)
(* in one thread, with the application that owns the connections, which is *)
(* examples/echo/EchoServer1.cpp or examples/http/HttpServer.cpp.  What is *)
(* modelled is the life of descriptors, connections and handlers; of the   *)
(* data only whether some is unread or unsent (see AsyncTcpSocket.tla).    *)
(*                                                                         *)
(* A connection object is named by its peer.  Descriptors have the numbers *)
(* that the kernel gives them, the lowest that is free: their order is the *)
(* order of EventLoop::_handlers, which RemoveHandler depends on.          *)
(***************************************************************************)
EXTENDS Integers

CONSTANTS
  Peers,         \* clients, each of which connects once
  Fds,           \* descriptors the process may have besides the standard ones
  Applications,  \* the applications among which one is run
  EndReads,      \* what RemoveHandler may read as the key of end(): the number of
                 \* handlers that are left, with libstdc++
  Patient,       \* do peers leave only when all they sent is answered?
  Closes,        \* does the application close the acceptor and stop the loop?
  Asserts        \* is the program built with assertions?

Invalid == -1            \* INVALID_SOCKET
NoHandler == "null"
Acceptor == "acceptor"
WakeupHandler == "wakeup"

ASSUME TcpServerAssumption ==
  /\ Fds \subseteq Nat
  /\ \E f, g, h \in Fds : f # g /\ g # h /\ f # h    \* the loop has its pipe
  /\ Peers \intersect
       {NoHandler, Acceptor, WakeupHandler, "closed", "pipe", "listening"} = {}
  /\ Applications \subseteq {"echo", "http"}
  /\ Patient \in BOOLEAN /\ Closes \in BOOLEAN /\ Asserts \in BOOLEAN

VARIABLES
  application, \* which application runs
  kernel,      \* what each descriptor is: closed, of the pipe, listening or a peer's
  backlog,     \* peers that wait to be accepted
  peer,        \* what each peer is doing
  unread,      \* peers whose data waits to be received
  unsent,      \* peers with data in the _out_buffer of their connection
  listenFd,    \* _fd of the acceptor
  connections, \* _connections of the application
  fdOf,        \* _fd of each connection object, Invalid unless it is alive
  attached,    \* the acceptor and connections that have a _handler
  events,      \* _events of the handlers
  handlers,    \* EventLoop::_handlers
  interest,    \* SocketSelector: the events selected for each descriptor
  loopAt,      \* where the loop thread is
  ready,       \* events reported by Select and not yet dispatched
  current,     \* _current_handler
  todo         \* events that HandleEvents has yet to serve

peerVars == <<backlog, peer, unread>>
objectVars == <<listenFd, connections, fdOf, unsent>>
handlerVars == <<attached, events, handlers, interest>>
loopVars == <<loopAt, ready, current, todo>>
vars == <<application, kernel, peerVars, objectVars, handlerVars, loopVars>>

Event == {"read", "write"}
Lowest(S) == CHOOSE f \in S : \A g \in S : f <= g

\* SocketPipe: a listening socket, the writer, and the socket accepted from the
\* writer, which Attach puts in the place of the listening one.
PipeListener == Lowest(Fds)
PipeWriter == Lowest(Fds \ {PipeListener})
WakeupFd == Lowest(Fds \ {PipeListener, PipeWriter})

FreeFds == {f \in Fds : kernel[f] = "closed"}
NewFd == Lowest(FreeFds)

-----------------------------------------------------------------------------
(* EventLoop's registry and SocketSelector.                                *)

\* SocketSelector::Set, and Remove when no events are left: the result.
Selected(fd, e) == [interest EXCEPT ![fd] = e]

\* Construct the EventHandler of o, which registers it, and EnableReading: an
\* entry that exists is kept.
NewHandler(o, fd) ==
  /\ attached' = attached \union {o}
  /\ events' = [events EXCEPT ![o] = {"read"}]
  /\ handlers' = IF handlers[fd] = NoHandler THEN [handlers EXCEPT ![fd] = o] ELSE handlers
  /\ interest' = Selected(fd, {"read"})

\* What is selected after UpdateHandler of o, which does nothing for a descriptor
\* without an entry.
Updated(o, fd, e) == IF handlers[fd] = NoHandler THEN interest ELSE Selected(fd, e)

Registered == {fd \in Fds : handlers[fd] # NoHandler}
Above(fd) == {g \in Registered : g > fd}

\* A bug one could plausibly write: the entry is left where it is.
RemoveHandlerKeepsEntry(o, selected) ==
  /\ handlers' = handlers
  /\ interest' = [g \in Fds |-> IF handlers[g] = o THEN {} ELSE selected[g]]

\* RemoveHandler: the entry is erased, and of the selected events those of the key
\* of the NEXT entry; past the last one that key is whatever is read there.
RemoveHandler(o, selected) ==
  LET own == {fd \in Fds : handlers[fd] = o}
      next == UNION {Above(fd) : fd \in own}
  IN /\ handlers' = [fd \in Fds |-> IF fd \in own THEN NoHandler ELSE handlers[fd]]
     /\ \E key \in IF own = {} THEN {Invalid} ELSE IF next = {} THEN EndReads
                   ELSE {Lowest(next)} :
          interest' = [fd \in Fds |-> IF fd = key THEN {} ELSE selected[fd]]

\* Detach and delete the _handler of o, if it has one.
DeleteHandler(o, selected) ==
  /\ attached' = attached \ {o}
  /\ events' = [events EXCEPT ![o] = {}]
  /\ IF o \in attached THEN RemoveHandler(o, selected)
     ELSE handlers' = handlers /\ interest' = selected

-----------------------------------------------------------------------------
(* AsyncTcpAcceptor.                                                       *)

\* User code outside of the callbacks: before Run, or a function in the queue.
InUserCode == loopAt \in {"outside", "invoke"}

\* Close, and what the kernel does to the peers that wait.
CloseAcceptor ==
  /\ DeleteHandler(Acceptor, interest)
  /\ kernel' = [f \in Fds |-> IF f = listenFd THEN "closed" ELSE kernel[f]]
  /\ listenFd' = Invalid
  /\ backlog' = {}
  /\ peer' = [p \in Peers |-> IF p \in backlog THEN "gone" ELSE peer[p]]
  /\ unread' = unread \ backlog

\* Close by the application, or an Open when it is open: bind fails, and it is closed.
Close ==
  /\ Closes /\ InUserCode /\ listenFd # Invalid
  /\ CloseAcceptor
  /\ UNCHANGED <<application, connections, fdOf, unsent, loopVars>>

\* Open: socket, bind, listen, EnableReading.  (One that fails leaves nothing
\* behind, and changes nothing.)
Open ==
  /\ InUserCode /\ listenFd = Invalid /\ FreeFds # {}
  /\ listenFd' = NewFd
  /\ kernel' = [kernel EXCEPT ![NewFd] = "listening"]
  /\ NewHandler(Acceptor, NewFd)
  /\ UNCHANGED <<application, peerVars, connections, fdOf, unsent, loopVars>>

\* The event that HandleEvents serves now; reading comes before writing.
Serves(o, e) ==
  /\ loopAt = "handle" /\ current = o /\ o \in attached
  /\ e \in todo /\ (e = "write" => "read" \notin todo)
  /\ todo' = todo \ {e}
  /\ UNCHANGED <<ready, current>>

\* TcpSocket::Connected: a socket that is reset has no peer any more.
HasPeer(p) == peer[p] # "reset"

\* OnAccepted of the echo server: the connection is kept first, and an exception of
\* Connected leaves it without a handler, after assert(false).
EchoOnAccepted(p, fd) ==
  /\ connections' = connections \union {p}
  /\ IF HasPeer(p) THEN NewHandler(p, fd) /\ UNCHANGED loopAt
     ELSE /\ loopAt' = IF Asserts THEN "terminated" ELSE loopAt
          /\ UNCHANGED handlerVars

\* OnAccepted of the HTTP server: an exception leaves the loop, and the program.
HttpOnAccepted(p, fd) ==
  IF HasPeer(p)
  THEN /\ connections' = connections \union {p}
       /\ NewHandler(p, fd)
       /\ UNCHANGED loopAt
  ELSE /\ loopAt' = "terminated"
       /\ UNCHANGED <<connections, handlerVars>>

\* A bug one could plausibly write: reading stops when nobody is there to accept.
AcceptorOnReadGivesUp ==
  /\ Serves(Acceptor, "read")
  /\ IF backlog # {} /\ FreeFds # {}
     THEN \E p \in backlog :
            /\ kernel' = [kernel EXCEPT ![NewFd] = p]
            /\ backlog' = backlog \ {p}
            /\ fdOf' = [fdOf EXCEPT ![p] = NewFd]
            /\ IF application = "echo" THEN EchoOnAccepted(p, NewFd)
                                       ELSE HttpOnAccepted(p, NewFd)
     ELSE /\ events' = [events EXCEPT ![Acceptor] = {}]
          /\ interest' = Updated(Acceptor, listenFd, {})
          /\ UNCHANGED <<kernel, backlog, connections, fdOf, attached, handlers, loopAt>>
  /\ UNCHANGED <<application, peer, unread, unsent, listenFd>>

\* OnRead of the acceptor: one peer is accepted, unless it is gone or there is no
\* descriptor left.
AcceptorOnRead ==
  /\ Serves(Acceptor, "read")
  /\ IF backlog # {} /\ FreeFds # {}
     THEN \E p \in backlog :
            /\ kernel' = [kernel EXCEPT ![NewFd] = p]
            /\ backlog' = backlog \ {p}
            /\ fdOf' = [fdOf EXCEPT ![p] = NewFd]
            /\ IF application = "echo" THEN EchoOnAccepted(p, NewFd)
                                       ELSE HttpOnAccepted(p, NewFd)
     ELSE UNCHANGED <<kernel, backlog, connections, fdOf, handlerVars, loopAt>>
  /\ UNCHANGED <<application, peer, unread, unsent, listenFd>>

-----------------------------------------------------------------------------
(* AsyncTcpSocket.                                                         *)

\* ~AsyncTcpSocket, after which the socket is closed and the peer is told.
Delete(p, selected) ==
  /\ DeleteHandler(p, selected)
  /\ kernel' = [kernel EXCEPT ![fdOf[p]] = "closed"]
  /\ fdOf' = [fdOf EXCEPT ![p] = Invalid]
  /\ unsent' = unsent \ {p} /\ unread' = unread \ {p}
  /\ peer' = [peer EXCEPT ![p] = "gone"]

\* The application is told that p is disconnected: the echo server looks for the
\* object, the HTTP server for its descriptor.
Known(p) ==
  IF application = "echo" THEN p \in connections
  ELSE \E q \in connections : fdOf[q] = fdOf[p]

\* A bug one could plausibly write: the connection is forgotten and not deleted.
DisconnectedForgets(p, selected) ==
  /\ connections' = connections \ {p}
  /\ interest' = selected
  /\ UNCHANGED <<attached, events, handlers, kernel, fdOf, unsent, unread, peer>>

\* OnConnected(false)
Disconnected(p, selected) ==
  IF Known(p)
  THEN connections' = connections \ {p} /\ Delete(p, selected)
  ELSE /\ interest' = selected
       /\ UNCHANGED <<connections, attached, events, handlers, kernel, fdOf, unsent, unread, peer>>

\* Data is received, and what the application sends in answer goes out or is
\* buffered in part, behind what is buffered already.
Received(p) ==
  /\ p \in unread
  /\ unread' = unread \ {p}
  /\ unsent' \in {unsent, unsent \union {p}}
  /\ events' = [events EXCEPT ![p] = IF p \in unsent' THEN @ \union {"write"} ELSE @]
  /\ interest' = IF p \in unsent' THEN Updated(p, fdOf[p], events'[p]) ELSE interest
  /\ UNCHANGED <<kernel, peer, connections, fdOf, attached, handlers>>

\* OnRead of a connection: anything but data is taken for the end.
OnRead(p) ==
  /\ Serves(p, "read")
  /\ \/ Received(p)
     \/ p \notin unread /\ Disconnected(p, Updated(p, fdOf[p], events[p] \ {"read"}))
  /\ UNCHANGED <<application, backlog, listenFd, loopAt>>

\* OnWrite: what is buffered is sent, in full or not; to a peer that is reset
\* nothing is.
OnWrite(p) ==
  /\ Serves(p, "write")
  /\ unsent' \in {unsent} \union IF peer[p] = "reset" THEN {} ELSE {unsent \ {p}}
  /\ events' = [events EXCEPT ![p] = IF p \in unsent' THEN @ ELSE @ \ {"write"}]
  /\ interest' = IF p \in unsent' THEN interest ELSE Updated(p, fdOf[p], events'[p])
  /\ UNCHANGED <<application, kernel, peerVars, listenFd, connections, fdOf, attached,
                 handlers, loopAt>>

-----------------------------------------------------------------------------
(* The loop.                                                               *)

\* Run
Run ==
  /\ loopAt = "outside"
  /\ interest' = Selected(WakeupFd, {"read"})
  /\ loopAt' = "select"
  /\ UNCHANGED <<application, kernel, peerVars, objectVars, attached, events, handlers,
                 ready, current, todo>>

Readable(fd) ==
  \/ kernel[fd] = "listening" /\ backlog # {}
  \/ kernel[fd] \in unread \/ \E p \in Peers : kernel[fd] = p /\ peer[p] \in {"ended", "reset"}

BadDescriptor == \E fd \in Fds : kernel[fd] = "closed" /\ interest[fd] # {}
MustReturn == BadDescriptor \/ \E fd \in Fds : "read" \in interest[fd] /\ Readable(fd)

\* Select: a descriptor that is closed makes it fail; otherwise it returns what can
\* be read, and what may have become writable.
Select ==
  /\ loopAt = "select"
  /\ IF BadDescriptor THEN loopAt' = "invoke" /\ UNCHANGED ready
     ELSE /\ \E writable \in SUBSET {fd \in Fds : "write" \in interest[fd]} :
               ready' = [fd \in Fds |->
                  (IF Readable(fd) THEN interest[fd] \intersect {"read"} ELSE {})
                    \union (IF fd \in writable THEN {"write"} ELSE {})]
          /\ \E fd \in Fds : ready'[fd] # {}
          /\ loopAt' = "dispatch"
  /\ UNCHANGED <<application, kernel, peerVars, objectVars, handlerVars, current, todo>>

\* The next ready descriptor, in the order of a heap: its handler is called.
Dispatch(fd) ==
  /\ loopAt = "dispatch" /\ ready[fd] # {}
  /\ current' = handlers[fd]
  /\ todo' = ready[fd]
  /\ ready' = [ready EXCEPT ![fd] = {}]
  /\ loopAt' = IF handlers[fd] = NoHandler THEN "null" ELSE "handle"
  /\ UNCHANGED <<application, kernel, peerVars, objectVars, handlerVars>>

\* HandleEvents returns, or has yet to serve an event of a handler that is deleted.
EndHandle ==
  /\ loopAt = "handle"
  /\ todo = {} \/ current \notin attached
  /\ loopAt' = IF todo = {} THEN "dispatch" ELSE "dangling"
  /\ current' = NoHandler
  /\ UNCHANGED <<application, kernel, peerVars, objectVars, handlerVars, ready, todo>>

\* All events are dispatched.
EndDispatch ==
  /\ loopAt = "dispatch" /\ \A fd \in Fds : ready[fd] = {}
  /\ loopAt' = "invoke"
  /\ UNCHANGED <<application, kernel, peerVars, objectVars, handlerVars, ready, current, todo>>

\* The queued functions have run: the loop goes on, or returns after a Stop.
EndInvoke ==
  /\ loopAt = "invoke"
  /\ loopAt' \in {"select"} \union IF Closes THEN {"returned"} ELSE {}
  /\ UNCHANGED <<application, kernel, peerVars, objectVars, handlerVars, ready, current, todo>>

\* The destructor of the application deletes its connections.
DeleteConnection(p) ==
  /\ loopAt = "returned" /\ p \in connections
  /\ Delete(p, interest)
  /\ connections' = connections \ {p}
  /\ UNCHANGED <<application, backlog, listenFd, loopVars>>

\* ~AsyncTcpAcceptor
DeleteAcceptor ==
  /\ loopAt = "returned" /\ connections = {}
  /\ CloseAcceptor
  /\ loopAt' = "destroyed"
  /\ UNCHANGED <<application, connections, fdOf, unsent, ready, current, todo>>

-----------------------------------------------------------------------------
(* The peers.                                                              *)

PeerConnects(p) ==
  /\ peer[p] = "new" /\ listenFd # Invalid
  /\ peer' = [peer EXCEPT ![p] = "open"]
  /\ backlog' = backlog \union {p}
  /\ UNCHANGED <<application, kernel, unread, objectVars, handlerVars, loopVars>>

PeerSends(p) ==
  /\ peer[p] = "open" /\ p \notin unread
  /\ unread' = unread \union {p}
  /\ UNCHANGED <<application, kernel, backlog, peer, objectVars, handlerVars, loopVars>>

\* The peer leaves, in order or with a reset, which discards what is unread.
PeerLeaves(p, how) ==
  /\ peer[p] = "open" \/ (peer[p] = "ended" /\ how = "reset")
  /\ Patient => p \notin unread \union unsent
  /\ peer' = [peer EXCEPT ![p] = how]
  /\ unread' = IF how = "reset" THEN unread \ {p} ELSE unread
  /\ UNCHANGED <<application, kernel, backlog, objectVars, handlerVars, loopVars>>

\* A peer that is reset before it is accepted may be taken out of the backlog.
PeerVanishes(p) ==
  /\ p \in backlog /\ peer[p] = "reset"
  /\ backlog' = backlog \ {p}
  /\ peer' = [peer EXCEPT ![p] = "gone"]
  /\ UNCHANGED <<application, kernel, unread, objectVars, handlerVars, loopVars>>

-----------------------------------------------------------------------------
\* The loop and its pipe are constructed, then the server.
Init ==
  /\ application \in Applications
  /\ kernel = [f \in Fds |-> IF f \in {PipeWriter, WakeupFd} THEN "pipe" ELSE "closed"]
  /\ backlog = {} /\ unread = {} /\ unsent = {}
  /\ peer = [p \in Peers |-> "new"]
  /\ listenFd = Invalid
  /\ connections = {} /\ fdOf = [p \in Peers |-> Invalid]
  /\ attached = {}
  /\ events = [o \in Peers \union {Acceptor} |-> {}]
  /\ handlers = [f \in Fds |-> IF f = WakeupFd THEN WakeupHandler ELSE NoHandler]
  /\ interest = [f \in Fds |-> {}]
  /\ loopAt = "outside"
  /\ ready = [f \in Fds |-> {}] /\ current = NoHandler /\ todo = {}

LoopStep ==
  \/ AcceptorOnRead \/ \E p \in Peers : OnRead(p) \/ OnWrite(p)
  \/ \E fd \in Fds : Dispatch(fd)
  \/ EndHandle \/ EndDispatch \/ EndInvoke

Destruction == DeleteAcceptor \/ \E p \in Peers : DeleteConnection(p)

Peer(p) ==
  \/ PeerConnects(p) \/ PeerSends(p) \/ PeerVanishes(p)
  \/ \E how \in {"ended", "reset"} : PeerLeaves(p, how)

Next ==
  \/ Open \/ Close \/ Run \/ Select \/ LoopStep \/ Destruction
  \/ \E p \in Peers : Peer(p)

\* The loop is scheduled, callbacks return, and select() returns when a descriptor
\* can be read or is bad; the peers owe nothing.
Spec ==
  /\ Init /\ [][Next]_vars
  /\ WF_vars(Run) /\ WF_vars(LoopStep) /\ WF_vars(MustReturn /\ Select)

-----------------------------------------------------------------------------
\* The loop runs: neither before Run, nor when it has returned or the program ended,
\* nor when it used a handler that is not there.
Serving == loopAt \notin {"outside", "returned", "destroyed", "terminated", "null", "dangling"}

\* What RemoveHandler does when it takes another key than the handler's own: the
\* acceptor, next to the one removed, is not selected although it wants to read, or
\* the one removed stays selected, and select() fails once it is closed.
Misremoved ==
  \/ listenFd # Invalid /\ "read" \in events[Acceptor] /\ "read" \notin interest[listenFd]
  \/ BadDescriptor

\* Each descriptor that is accepted belongs to exactly one connection the application
\* keeps, and each of those has its own open descriptor: none leaks, none is closed
\* twice, however connections end and although the kernel gives numbers out again.
\* Once the server is destroyed only the pipe of the loop is open.
AcceptedOwned ==
  loopAt # "terminated" =>
    /\ \A f \in Fds, p \in Peers : kernel[f] = p <=> p \in connections /\ fdOf[p] = f
    /\ \A p \in connections : fdOf[p] \in Fds
    /\ \A f \in Fds : kernel[f] = "listening" <=> listenFd = f
    /\ loopAt = "destroyed" => \A f \in Fds : kernel[f] \in {"closed", "pipe"}

\* The loop never reaches for a handler that is gone: what is registered belongs to an
\* object that is alive and whose descriptor it is, and a dispatch that is under way
\* finds the handler of every descriptor, whatever the callbacks before it deleted.
HandlersMatch ==
  /\ loopAt \notin {"null", "dangling"}
  /\ \A f \in Fds, p \in Peers : handlers[f] = p => p \in attached /\ fdOf[p] = f
  /\ \A f \in Fds : handlers[f] = Acceptor => listenFd = f
  /\ loopAt = "dispatch" =>
       \A f \in Fds : ready[f] # {} => handlers[f] # NoHandler

\* A peer that waits is accepted, or taken from the backlog when it is reset or the
\* acceptor closes, as long as the loop runs and RemoveHandler has not done that:
\* whatever connections end, are reset before they are accepted or are deleted in the
\* dispatch that comes to the acceptor, and however often it is opened again.
PeersAccepted ==
  \A p \in Peers : p \in backlog ~> p \notin backlog \/ Misremoved \/ ~ Serving

-----------------------------------------------------------------------------
(* Statements of the documentation that the code does not keep.            *)

\* AsyncTcpSocket.hpp, "data is received internally and notify application by
\* ReceivedCallback": what a peer sends on an accepted connection is received.
DataReceived ==
  \A p \in Peers : p \in unread \intersect connections ~> p \notin unread \/ ~ Serving

\* AsyncTcpAcceptor.hpp:64, "incomming connections are accetpted internally".
PeersAlwaysAccepted ==
  \A p \in Peers : p \in backlog ~> p \notin backlog \/ ~ Serving

\* SocketSelector.hpp:54, "Remove a socket and its associcated events": a descriptor
\* that is closed is not selected any more. (select() fails for it, at once and for all others.)
ClosedNotSelected == ~ BadDescriptor

\* EchoServer1.cpp:68, "assert(false)", in the handler of an exception of Connected
\* (the HTTP server has no such handler): it is not reached.
NeverTerminated == loopAt # "terminated"
=============================================================================
