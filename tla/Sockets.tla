------------------------------- MODULE Sockets -------------------------------
(***************************************************************************)
(* The blocking sockets of netb: Socket (netb/Socket.cpp) and what is      *)
(* built on it, TcpSocket, UdpSocket, TcpAcceptor and the construction of  *)
(* a SocketPipe (EventLoop.tla has its data), in one thread.  A            *)
(* call with a timeout switches the descriptor to non-blocking, waits with *)
(* select() and does the system call; one without switches it back.        *)
(*                                                                         *)
(* A call is made in up to three steps: what it does before it may wait    *)
(* (its action), select() (Wait...), and the system call (...IO).  Between *)
(* them the kernel goes its own way: connections are decided, data and     *)
(* peers come, or vanish.                                                  *)
(*                                                                         *)
(* Addresses are names; bytes are counted.  The error that a call returns  *)
(* is the one a fresh Error object holds, as in the calls that throw.      *)
(***************************************************************************)
EXTENDS Integers, FiniteSets, SocketError

CONSTANTS
  TcpSockets, Acceptors, UdpSockets,  \* objects of the three classes
  Plain,            \* objects of the class Socket
  Reader, Writer,   \* the two Sockets of a SocketPipe
  Fixed,            \* the TcpSockets constructed with an address of their own
  Programs,         \* the sets of objects of which a program uses one
  Fds,              \* descriptors the process may have open
  FewFds,           \* bound: those of a program without a SocketPipe
  Addresses,        \* addresses, Empty not among them
  Empty,            \* the empty address
  Timeouts,         \* of the calls, besides -1: how often the clock ticks
  NegativeReceive,  \* may UdpSocket::Receive be called with a timeout of -1?
  Asserts,          \* is the library built with assertions?
  OutSize, InSize,  \* bytes in the buffer to send, room in the one to receive
  MaxReady,         \* bound: bytes, datagrams or peers waiting at a descriptor
  MaxSignals        \* bound: signals that interrupt one call

Objects == TcpSockets \union Acceptors \union UdpSockets \union Plain \union {Reader, Writer}
Invalid == -1       \* INVALID_SOCKET

ASSUME SocketsAssumption ==
  /\ Fixed \subseteq TcpSockets /\ Reader # Writer
  /\ Programs \subseteq SUBSET Objects /\ {} \notin Programs
  /\ Fds \subseteq Nat /\ IsFiniteSet(Fds) /\ FewFds \subseteq Fds
  /\ Empty \notin Addresses
  /\ Timeouts \subseteq Nat
  /\ NegativeReceive \in BOOLEAN /\ Asserts \in BOOLEAN
  /\ OutSize \in Nat /\ InSize \in Nat /\ MaxReady \in Nat /\ MaxSignals \in Nat

VARIABLES
  objects,   \* the objects of this program
  sock,      \* the kernel's sockets
  fd,        \* _fd of each object
  remote,    \* _connected_address of a TcpSocket
  loose,     \* descriptors that the caller has been given and owns
  call,      \* the call under way, or the last one
  ret,       \* what it returned: -1 for false and INVALID_SOCKET
  err,       \* the error it set
  outbox,    \* readable bytes of the buffer that is sent
  inbox,     \* bytes written to the buffer that is received into
  wire,      \* history: bytes the kernel has taken
  taken      \* history: bytes the kernel has given

objectVars == <<objects, fd, remote, loose>>
callVars == <<call, ret, err>>
dataVars == <<outbox, inbox, wire, taken>>
vars == <<sock, objectVars, callVars, dataVars>>

ClosedSocket == [state |-> "closed", type |-> "none", nonblock |-> FALSE,
                 bound |-> FALSE, peer |-> Empty, ready |-> 0, space |-> 0]
Fresh(type) == [ClosedSocket EXCEPT !.state = "new", !.type = type,
                                    !.space = IF type = "dgram" THEN MaxReady ELSE 0]

Open(f) == sock[f].state # "closed"
Valid(o) == fd[o] # Invalid
Sock(o) == sock[fd[o]]
\* What a stream may be in once Connect has returned true.
Made == {"established", "connected", "ended", "refused"}
Lesser(m, n) == IF m < n THEN m ELSE n

\* ::socket takes the lowest free descriptor, if any.
HasPipe == Reader \in objects
Available == IF HasPipe THEN Fds ELSE FewFds
FreeIn(s) == {f \in Available : s[f].state = "closed"}
FreeFds == FreeIn(sock)
Lowest(S) == CHOOSE f \in S : \A g \in S : f <= g
NewFd == Lowest(FreeFds)

Call(op, o, a, t, at) ==
  [op |-> op, obj |-> o, addr |-> a, timeout |-> t, at |-> at, clock |-> t,
   ticks |-> 0, signals |-> 0]
\* Of a call that has returned only the operation, the object and whether it had a
\* timeout are kept.
Ended(c) == [c EXCEPT !.at = "done", !.addr = Empty, !.clock = 0, !.ticks = 0,
                      !.signals = 0, !.timeout = IF @ < 0 THEN -1 ELSE 0]
Idle == call.at = "done"

\* A call that returns at once.
Returns(op, o, a, t, r, e) ==
  /\ call' = Ended(Call(op, o, a, t, "done"))
  /\ ret' = r /\ err' = e

\* A call that goes on, after the select() if it has a timeout.
Proceeds(op, o, a, t, waits) ==
  /\ call' = Call(op, o, a, t, IF waits /\ t > 0 THEN "wait" ELSE "io")
  /\ ret' = 0 /\ err' = NoError

\* The call under way returns r; SocketError.cpp may assert that it cannot.
Done(r, e) ==
  /\ call' = Ended(call)
  /\ ret' = r /\ err' = e
Fails(e, asserted) ==
  /\ call' = IF Asserts /\ e.code \in asserted THEN [call EXCEPT !.at = "aborted"]
             ELSE Ended(call)
  /\ ret' = -1 /\ err' = e

-----------------------------------------------------------------------------
(* Socket: the life of a descriptor.                                       *)

\* Socket::Create, unless the object has a socket: the kernel's sockets and the
\* descriptor after it.
Create(o, type) == IF Valid(o) THEN sock ELSE [sock EXCEPT ![NewFd] = Fresh(type)]
CreatedFd(o) == IF Valid(o) THEN fd[o] ELSE NewFd
CanCreate(o) == Valid(o) \/ FreeFds # {}
NoDescriptor == OpenError("EMFILE")

\* Socket::Block
Block(s, f, block) == [s EXCEPT ![f].nonblock = ~ block]
NotOpen == ControlError("EBADF")

\* Socket::Bind: an address once; it may be in use.
BindErrors(s, f) ==
  IF s[f].bound THEN {BindError("EINVAL")} ELSE {NoError, BindError("EADDRINUSE")}
Bound(s, f) == [s EXCEPT ![f].bound = TRUE]

\* Socket::ReuseAddress and ReusePort, before it is bound: a kernel may not know them.
ReuseErrors == {OptionError("ENOPROTOOPT")}
OpenErrors(s, f) == ReuseErrors \union BindErrors(s, f)

\* The kernel's sockets after CloseSocket of what o has, and after Socket::Attach.
Closed(s, o) == IF Valid(o) THEN [s EXCEPT ![fd[o]] = ClosedSocket] ELSE s
Attached(s, o, f) == IF fd[o] = f THEN s ELSE Closed(s, o)

\* A bug one could plausibly write: the descriptor is closed and kept.
CloseAndKeep(o) ==
  /\ Idle
  /\ sock' = Closed(sock, o)
  /\ Returns("close", o, Empty, -1, 1, NoError)
  /\ UNCHANGED <<objects, fd, remote, loose, dataVars>>

\* Socket::Close and the destructor, of which a new object is constructed.
Close(o) ==
  /\ Idle
  /\ sock' = Closed(sock, o)
  /\ fd' = [fd EXCEPT ![o] = Invalid]
  /\ Returns("close", o, Empty, -1, 1, NoError)
  /\ UNCHANGED <<objects, remote, loose, dataVars>>

\* CloseSocket, by the caller, of a descriptor it was given.
CloseSocket(f) ==
  /\ Idle
  /\ f \in loose
  /\ sock' = [sock EXCEPT ![f] = ClosedSocket]
  /\ loose' = loose \ {f}
  /\ UNCHANGED <<objects, fd, remote, callVars, dataVars>>

\* Socket::Create closes what there is, also when it then fails.
SocketCreate(o, type) ==
  /\ Idle
  /\ LET s == Closed(sock, o)
     IN IF FreeIn(s) = {}
        THEN /\ sock' = s
             /\ fd' = [fd EXCEPT ![o] = Invalid]
             /\ Returns("create", o, Empty, -1, -1, NoDescriptor)
        ELSE /\ sock' = [s EXCEPT ![Lowest(FreeIn(s))] = Fresh(type)]
             /\ fd' = [fd EXCEPT ![o] = Lowest(FreeIn(s))]
             /\ Returns("create", o, Empty, -1, 1, NoError)
  /\ UNCHANGED <<objects, remote, loose, dataVars>>

\* Socket::Attach and Detach: the descriptor changes hands.
SocketAttach(o, f) ==
  /\ Idle
  /\ f \in loose
  /\ sock' = Attached(sock, o, f)
  /\ fd' = [fd EXCEPT ![o] = f]
  /\ loose' = loose \ {f}
  /\ Returns("attach", o, Empty, -1, 1, NoError)
  /\ UNCHANGED <<objects, remote, dataVars>>

SocketDetach(o) ==
  /\ Idle
  /\ Valid(o)
  /\ fd' = [fd EXCEPT ![o] = Invalid]
  /\ loose' = loose \union {fd[o]}
  /\ Returns("detach", o, Empty, -1, 1, NoError)
  /\ UNCHANGED <<sock, objects, remote, dataVars>>

-----------------------------------------------------------------------------
(* SocketPipe.                                                             *)

Paired == [Fresh("stream") EXCEPT !.state = "paired"]

\* SocketPipe::MakePair, of sockets with the descriptors r and w: bind the reader and
\* listen, connect the writer, and put the accepted socket in the reader's place.
\* Whatever bind() or accept() says, it returns true.
MakePair(r, w) ==
  LET new == [sock EXCEPT ![r] = Fresh("stream"), ![w] = Fresh("stream")]
      connected == [new EXCEPT ![r] = ClosedSocket, ![w] = Paired]
      free == FreeIn(new)
  IN \E e \in BindErrors(new, r), throws \in BOOLEAN :
       /\ sock' = IF IsSet(e) THEN new
                  ELSE IF free = {} THEN connected ELSE [connected EXCEPT ![Lowest(free)] = Paired]
       /\ fd' = [fd EXCEPT ![Writer] = w,
                           ![Reader] = IF IsSet(e) THEN r
                                       ELSE IF free = {} THEN Invalid ELSE Lowest(free)]
       /\ IF IsSet(e) /\ ~ throws THEN Returns("pipe", Reader, Empty, -1, -1, e)
          ELSE Returns("pipe", Reader, Empty, -1, 1, NoError)

\* The two constructors: that which does not throw leaves the reader it created.
NewPipe ==
  /\ Idle /\ HasPipe /\ ~ Valid(Reader) /\ ~ Valid(Writer)
  /\ \/ /\ Cardinality(FreeFds) >= 2
        /\ MakePair(NewFd, Lowest(FreeFds \ {NewFd}))
     \/ /\ Cardinality(FreeFds) < 2
        /\ \E throws \in BOOLEAN :
             IF throws \/ FreeFds = {} THEN UNCHANGED <<sock, fd>>
             ELSE /\ sock' = [sock EXCEPT ![NewFd] = Fresh("stream")]
                  /\ fd' = [fd EXCEPT ![Reader] = NewFd]
        /\ Returns("pipe", Reader, Empty, -1, -1, NoDescriptor)
  /\ UNCHANGED <<objects, remote, loose, dataVars>>

\* ~SocketPipe, with the destructors of its Sockets.
DeletePipe ==
  /\ Idle /\ HasPipe
  /\ sock' = [f \in Fds |-> IF f \in {fd[Reader], fd[Writer]} THEN ClosedSocket ELSE sock[f]]
  /\ fd' = [fd EXCEPT ![Reader] = Invalid, ![Writer] = Invalid]
  /\ Returns("close", Reader, Empty, -1, 1, NoError)
  /\ UNCHANGED <<objects, remote, loose, dataVars>>

-----------------------------------------------------------------------------
(* TcpSocket.                                                              *)

\* Socket::Type, which asks the kernel.
Type(f) == sock[f].type

\* Socket::ConnectedAddress: the name of a peer there is not.
ConnectedAddressError(f) ==
  IF sock[f].state \in {"established", "connected", "ended"} THEN NoError
  ELSE NameError("ENOTCONN")

\* Connected(): it must be a stream, connected, and to the address that is expected.
ConnectedError(f, expected) ==
  CASE Type(f) # "stream" -> Of("logic", "EPROTOTYPE")
    [] Type(f) = "stream" /\ IsSet(ConnectedAddressError(f)) -> ConnectedAddressError(f)
    [] OTHER -> IF expected \in {Empty, sock[f].peer} THEN NoError ELSE Of("logic", "EINVAL")

\* Connected(s, addr): take over a socket, close the one there is, and check it; the
\* address of the peer is compared with the one that is given, now or before.
Connected(o, f, a) ==
  /\ Idle
  /\ f \in loose
  /\ loose' = loose \ {f}
  /\ fd' = [fd EXCEPT ![o] = f]
  /\ sock' = Attached(sock, o, f)
  /\ remote' = [remote EXCEPT ![o] = IF a = Empty THEN @ ELSE a]
  /\ LET e == ConnectedError(f, remote'[o])
     IN Returns("connected", o, a, -1, IF IsSet(e) THEN -1 ELSE 1, e)
  /\ UNCHANGED <<objects, dataVars>>

\* SocketAddress::Any() has no body but an assertion: what it returns is undefined.
AnyOutcomes(o) == IF o \notin Fixed THEN {TRUE} ELSE BOOLEAN

\* DoConnect, up to ::connect: create, bind and switch the mode.
TcpConnect(o, a, t) ==
  /\ Idle
  /\ \/ /\ Asserts /\ o \in Fixed /\ CanCreate(o)
        /\ call' = Call("connect", o, a, t, "aborted")
        /\ sock' = Create(o, "stream")
        /\ fd' = [fd EXCEPT ![o] = CreatedFd(o)]
        /\ UNCHANGED <<ret, err>>
     \/ /\ ~ CanCreate(o)
        /\ Returns("connect", o, a, t, -1, NoDescriptor)
        /\ UNCHANGED <<sock, fd>>
     \/ /\ CanCreate(o) /\ (Asserts => o \notin Fixed)
        /\ fd' = [fd EXCEPT ![o] = CreatedFd(o)]
        /\ LET s == Create(o, "stream")
               f == CreatedFd(o)
           IN \E any \in AnyOutcomes(o) :
                \E e \in IF any THEN {NoError} ELSE BindErrors(s, f) :
                  IF IsSet(e)
                  THEN sock' = s /\ Returns("connect", o, a, t, -1, e)
                  ELSE /\ sock' = Block(IF any THEN s ELSE Bound(s, f), f, t < 0)
                       /\ Proceeds("connect", o, a, t, FALSE)
  /\ UNCHANGED <<objects, remote, loose, dataVars>>

\* A bug one could plausibly write: EINPROGRESS is taken for success.
ConnectStartNoWait ==
  /\ call.at = "io" /\ call.op = "connect" /\ Sock(call.obj).state = "new"
  /\ sock' = [sock EXCEPT ![fd[call.obj]].state = "connecting",
                          ![fd[call.obj]].peer = call.addr]
  /\ IF Sock(call.obj).nonblock THEN Done(1, NoError) ELSE UNCHANGED callVars
  /\ UNCHANGED <<objectVars, dataVars>>

\* ::connect of a new socket, of one that is connecting, whose connecting has
\* been decided since, or that is connected.  In blocking mode it waits.
ConnectStart ==
  /\ call.at = "io" /\ call.op = "connect" /\ Sock(call.obj).state = "new"
  /\ \/ /\ sock' = [sock EXCEPT ![fd[call.obj]].state = "connecting",
                                ![fd[call.obj]].peer = call.addr]
        /\ IF Sock(call.obj).nonblock
           THEN IF call.timeout > 0 /\ ~ Asserts
                THEN /\ call' = [call EXCEPT !.at = "wait"]
                     /\ err' = ConnectError("EINPROGRESS")
                     /\ UNCHANGED ret
                ELSE Fails(ConnectError("EINPROGRESS"), ConnectAsserts)
           ELSE UNCHANGED callVars
     \/ /\ sock' = [sock EXCEPT ![fd[call.obj]].state = "connected",
                                ![fd[call.obj]].peer = call.addr,
                                ![fd[call.obj]].space = MaxReady]
        /\ Done(1, NoError)
  /\ UNCHANGED <<objectVars, dataVars>>

ConnectAgain ==
  /\ call.at = "io" /\ call.op = "connect"
  /\ LET f == fd[call.obj] IN
     \/ /\ sock[f].state = "connecting" /\ sock[f].nonblock
        /\ Fails(ConnectError("EALREADY"), ConnectAsserts)
        /\ UNCHANGED sock
     \/ /\ sock[f].state \in {"connected", "ended"}
        /\ Fails(ConnectError("EISCONN"), ConnectAsserts)
        /\ UNCHANGED sock
     \/ /\ sock[f].state = "established"
        /\ sock' = [sock EXCEPT ![f].state = "connected"]
        /\ Done(1, NoError)
     \/ /\ sock[f].state = "refused"
        /\ sock' = [sock EXCEPT ![f].state = "new"]
        /\ Fails(ConnectError("ECONNREFUSED"), ConnectAsserts)
  /\ UNCHANGED <<objectVars, dataVars>>

-----------------------------------------------------------------------------
(* Sending and receiving, up to the system call.                           *)

\* Send of TcpSocket, of a stream that its Connect has called connected, with a
\* timeout or without, from a buffer.
TcpSend(o, t) ==
  /\ Idle
  /\ Valid(o) => Sock(o).state \in Made
  /\ IF Valid(o)
     THEN /\ sock' = Block(sock, fd[o], t < 0)
          /\ Proceeds("send", o, Empty, t, TRUE)
     ELSE /\ Returns("send", o, Empty, t, -1, NotOpen)
          /\ UNCHANGED sock
  /\ UNCHANGED <<objectVars, dataVars>>

\* A bug one could plausibly write: the mode is left as it is.
TcpReceiveInAnyMode(o, t) ==
  /\ Idle
  /\ Valid(o) /\ Sock(o).state \in Made
  /\ inbox < InSize
  /\ Proceeds("receive", o, Empty, t, TRUE)
  /\ UNCHANGED <<sock, objectVars, dataVars>>

\* Receive of TcpSocket: the buffer is prepared first.
TcpReceive(o, t) ==
  /\ Idle
  /\ Valid(o) => Sock(o).state \in Made
  /\ IF inbox < InSize /\ Valid(o)
     THEN /\ sock' = Block(sock, fd[o], t < 0)
          /\ Proceeds("receive", o, Empty, t, TRUE)
     ELSE /\ Returns("receive", o, Empty, t, -1,
                     IF inbox < InSize THEN NotOpen ELSE Of("runtime", "ENOBUFS"))
          /\ UNCHANGED sock
  /\ UNCHANGED <<objectVars, dataVars>>

\* UdpSocket::Open(addr): fails for an empty address, which the variant without
\* an address first replaces by that of the family.
UdpOpen(o, a) ==
  /\ Idle
  /\ \/ /\ a = Empty
        /\ Returns("open", o, a, -1, -1, Of("logic", "EINVAL"))
        /\ UNCHANGED <<sock, fd>>
     \/ /\ a # Empty /\ ~ CanCreate(o)
        /\ Returns("open", o, a, -1, -1, NoDescriptor)
        /\ UNCHANGED <<sock, fd>>
     \/ /\ a # Empty /\ CanCreate(o)
        /\ fd' = [fd EXCEPT ![o] = CreatedFd(o)]
        /\ LET s == Create(o, "dgram")
               f == CreatedFd(o)
           IN \E e \in OpenErrors(s, f) :
                /\ sock' = IF IsSet(e) THEN s ELSE Bound(s, f)
                /\ Returns("open", o, a, -1, IF IsSet(e) THEN -1 ELSE 1, e)
  /\ UNCHANGED <<objects, remote, loose, dataVars>>

\* UdpSocket::Connect: no data is exchanged; the empty address takes it back, but
\* has no family to create a socket of.
UdpConnect(o, a) ==
  /\ Idle
  /\ IF CanCreate(o) /\ (a = Empty => Valid(o))
     THEN /\ fd' = [fd EXCEPT ![o] = CreatedFd(o)]
          /\ sock' = [Create(o, "dgram") EXCEPT ![CreatedFd(o)].peer = a]
          /\ Returns("associate", o, a, -1, 1, NoError)
     ELSE /\ Returns("associate", o, a, -1, -1,
                     IF Valid(o) \/ a # Empty THEN NoDescriptor ELSE OpenError("EAFNOSUPPORT"))
          /\ UNCHANGED <<sock, fd>>
  /\ UNCHANGED <<objects, remote, loose, dataVars>>

\* UdpSocket::SendTo: what should say -1 says false, which is 0; with a timeout the
\* result of Block is taken the wrong way round, and nothing is ever sent.
UdpSendTo(o, a, t) ==
  /\ Idle
  /\ \/ /\ a = Empty \/ ~ CanCreate(o)
        /\ Returns("sendto", o, a, t, 0,
                   IF a = Empty THEN Of("logic", "EINVAL") ELSE NoDescriptor)
        /\ UNCHANGED <<sock, fd>>
     \/ /\ a # Empty /\ CanCreate(o)
        /\ fd' = [fd EXCEPT ![o] = CreatedFd(o)]
        /\ sock' = Block(Create(o, "dgram"), CreatedFd(o), t < 0)
        /\ IF t < 0 THEN Proceeds("sendto", o, a, t, FALSE)
                    ELSE Returns("sendto", o, a, t, -1, NoError)
  /\ UNCHANGED <<objects, remote, loose, dataVars>>

\* UdpSocket::Send, to the connected address: the same, but -1 where it fails; it
\* goes on when Block fails.  (To wait with no descriptor is undefined, and left out.)
UdpSend(o, t) ==
  /\ Idle
  /\ Valid(o) \/ t <= 0
  /\ \/ /\ Valid(o)
        /\ sock' = Block(sock, fd[o], t < 0)
        /\ IF t < 0 THEN Proceeds("send", o, Empty, t, FALSE)
                    ELSE Returns("send", o, Empty, t, -1, NoError)
     \/ /\ ~ Valid(o)
        /\ Returns("send", o, Empty, t, -1,
                   IF t < 0 THEN NotOpen ELSE SendError("EBADF"))
        /\ UNCHANGED sock
  /\ UNCHANGED <<objectVars, dataVars>>

\* UdpSocket::ReceiveFrom and Receive; the latter does not know a timeout of -1.
UdpReceive(o, t, op) ==
  /\ Idle
  /\ op = "receive" /\ t < 0 => NegativeReceive
  /\ IF inbox < InSize /\ Valid(o)
     THEN /\ sock' = Block(sock, fd[o], op = "receivefrom" /\ t < 0)
          /\ Proceeds(op, o, Empty, t, TRUE)
     ELSE /\ Returns(op, o, Empty, t, -1,
                     IF inbox < InSize THEN NotOpen ELSE Of("runtime", "ENOBUFS"))
          /\ UNCHANGED sock
  /\ UNCHANGED <<objectVars, dataVars>>

-----------------------------------------------------------------------------
(* TcpAcceptor.                                                            *)

\* Open(addr) binds and listens; a listen() that fails sets no error.
AcceptorOpen(o, a) ==
  /\ Idle
  /\ \/ /\ a = Empty
        /\ Returns("open", o, a, -1, -1, Of("logic", "EINVAL"))
        /\ UNCHANGED <<sock, fd>>
     \/ /\ a # Empty /\ ~ CanCreate(o)
        /\ Returns("open", o, a, -1, -1, NoDescriptor)
        /\ UNCHANGED <<sock, fd>>
     \/ /\ a # Empty /\ CanCreate(o)
        /\ fd' = [fd EXCEPT ![o] = CreatedFd(o)]
        /\ LET s == Create(o, "stream")
               f == CreatedFd(o)
           IN \/ \E e \in OpenErrors(s, f) :
                   /\ IsSet(e)
                   /\ sock' = s
                   /\ Returns("open", o, a, -1, -1, e)
              \/ /\ NoError \in BindErrors(s, f)
                 /\ \E listens \in BOOLEAN :
                      /\ sock' = IF listens THEN [Bound(s, f) EXCEPT ![f].state = "listening"]
                                 ELSE Bound(s, f)
                      /\ Returns("open", o, a, -1, IF listens THEN 1 ELSE -1,
                                 IF listens THEN NoError ELSE ListenError("EADDRINUSE"))
  /\ UNCHANGED <<objects, remote, loose, dataVars>>

\* Accept and AcceptFrom, up to ::accept.
Accept(o, t) ==
  /\ Idle
  /\ Valid(o) => Sock(o).state = "listening"
  /\ IF Valid(o)
     THEN /\ sock' = Block(sock, fd[o], t < 0)
          /\ Proceeds("accept", o, Empty, t, TRUE)
     ELSE /\ Returns("accept", o, Empty, t, -1, NotOpen)
          /\ UNCHANGED sock
  /\ UNCHANGED <<objectVars, dataVars>>

\* ::accept: the new descriptor is the caller's.  No error is set when it fails.
AcceptIO ==
  /\ call.at = "io" /\ call.op = "accept"
  /\ LET f == fd[call.obj] IN
     \/ /\ sock[f].ready > 0 /\ FreeFds # {}
        /\ \E a \in Addresses :
             sock' = [sock EXCEPT ![f].ready = @ - 1,
                                  ![NewFd] = [Fresh("stream") EXCEPT !.state = "connected",
                                                !.peer = a, !.space = MaxReady]]
        /\ loose' = loose \union {NewFd}
        /\ Done(NewFd, NoError)
     \/ /\ sock[f].ready > 0 /\ FreeFds = {}
        /\ Done(-1, AcceptError("EMFILE"))
        /\ UNCHANGED <<sock, loose>>
     \/ /\ sock[f].ready = 0 /\ sock[f].nonblock
        /\ Done(-1, AcceptError("EAGAIN"))
        /\ UNCHANGED <<sock, loose>>
  /\ UNCHANGED <<objects, fd, remote, dataVars>>

-----------------------------------------------------------------------------
(* The system calls for data, and select().                                *)

Sending == call.op \in {"send", "sendto"}
Receiving == call.op \in {"receive", "receivefrom"}

\* ::send and ::sendto take what there is room for of a stream, all or nothing of a
\* datagram; the buffer is then advanced by what was taken.
Sends(f) ==
  IF sock[f].type = "dgram" THEN {outbox}
  ELSE (IF outbox = 0 THEN 0 ELSE 1) .. Lesser(sock[f].space, outbox)

\* A bug one could plausibly write: the buffer is advanced by all that was offered.
SendIOAdvancesAll ==
  /\ call.at = "io" /\ Sending /\ Sock(call.obj).space > 0
  /\ Sock(call.obj).state # "refused"
  /\ \E n \in Sends(fd[call.obj]) :
       /\ outbox' = 0
       /\ wire' = wire + n
       /\ sock' = [sock EXCEPT ![fd[call.obj]].space = @ - Lesser(n, @)]
       /\ Done(n, NoError)
  /\ UNCHANGED <<objectVars, inbox, taken>>

SendIO ==
  /\ call.at = "io" /\ Sending
  /\ LET f == fd[call.obj] IN
     \/ /\ sock[f].state = "refused"
        /\ sock' = [sock EXCEPT ![f].state = "new"]
        /\ Fails(SendError("ECONNREFUSED"), SendAsserts)
        /\ UNCHANGED <<outbox, wire>>
     \/ /\ sock[f].type = "dgram" /\ call.op = "send" /\ sock[f].peer = Empty
        /\ Fails(SendError("EDESTADDRREQ"), SendAsserts)
        /\ UNCHANGED <<sock, outbox, wire>>
     \/ /\ sock[f].state # "refused"
        /\ sock[f].type = "dgram" => call.op = "sendto" \/ sock[f].peer # Empty
        /\ sock[f].space > 0
        /\ \E n \in Sends(f) :
             /\ outbox' = outbox - n
             /\ wire' = wire + n
             /\ sock' = [sock EXCEPT ![f].space = @ - IF sock[f].type = "dgram" THEN 1 ELSE n]
             /\ Done(n, NoError)
     \/ /\ sock[f].state # "refused" /\ sock[f].space = 0 /\ sock[f].nonblock
        /\ Fails(SendError("EAGAIN"), SendAsserts)
        /\ UNCHANGED <<sock, outbox, wire>>
  /\ UNCHANGED <<objectVars, inbox, taken>>

\* ::recv and ::recvfrom give what has come, as far as there is room for it, and 0 when
\* the peer has ended the stream.
ReceiveIO ==
  /\ call.at = "io" /\ Receiving
  /\ LET f == fd[call.obj] IN
     \/ /\ sock[f].state = "refused"
        /\ sock' = [sock EXCEPT ![f].state = "new"]
        /\ Fails(ReceiveError("ECONNREFUSED"), ReceiveAsserts)
        /\ UNCHANGED <<inbox, taken>>
     \/ /\ sock[f].state # "refused" /\ sock[f].ready > 0
        /\ \E n \in 1 .. Lesser(IF sock[f].type = "dgram" THEN 1 ELSE sock[f].ready,
                                InSize - inbox) :
             /\ inbox' = inbox + n
             /\ taken' = taken + n
             /\ sock' = [sock EXCEPT ![f].ready = @ - n]
             /\ Done(n, NoError)
     \/ /\ sock[f].state = "ended" /\ sock[f].ready = 0
        /\ Done(0, NoError)
        /\ UNCHANGED <<sock, inbox, taken>>
     \/ /\ sock[f].state \notin {"refused", "ended"} /\ sock[f].ready = 0 /\ sock[f].nonblock
        /\ Fails(ReceiveError("EAGAIN"), ReceiveAsserts)
        /\ UNCHANGED <<sock, inbox, taken>>
  /\ UNCHANGED <<objectVars, outbox, wire>>

\* What select() reports: a connection that is decided is ready for writing, and one
\* that is refused for both.
WritableNow(f) ==
  \/ sock[f].state = "refused"
  \/ sock[f].state # "connecting" /\ sock[f].space > 0
ReadableNow(f) == sock[f].state \in {"refused", "ended"} \/ sock[f].ready > 0
ReadyNow ==
  LET f == fd[call.obj] IN
  IF Sending \/ call.op = "connect" THEN WritableNow(f) ELSE ReadableNow(f)

\* A bug one could plausibly write: the error of ::connect is not taken back.
WaitReadyKeepsError ==
  /\ call.at = "wait" /\ ReadyNow
  /\ IF call.op = "connect"
     THEN Done(1, err)
     ELSE /\ call' = [call EXCEPT !.at = "io"]
          /\ UNCHANGED <<ret, err>>
  /\ UNCHANGED <<sock, objectVars, dataVars>>

\* WaitForRead and WaitForWrite return true: the system call is next.  Connect is
\* done then, and takes its error back.
WaitReady ==
  /\ call.at = "wait" /\ ReadyNow
  /\ IF call.op = "connect"
     THEN Done(1, NoError)
     ELSE /\ call' = [call EXCEPT !.at = "io"]
          /\ UNCHANGED <<ret, err>>
  /\ UNCHANGED <<sock, objectVars, dataVars>>

\* The clock ticks while select() waits.
WaitTick ==
  /\ call.at = "wait" /\ ~ ReadyNow /\ call.clock > 0
  /\ call' = [call EXCEPT !.clock = @ - 1, !.ticks = @ + 1]
  /\ UNCHANGED <<sock, objectVars, ret, err, dataVars>>

\* select() returns 0.
WaitTimeout ==
  /\ call.at = "wait" /\ ~ ReadyNow /\ call.clock = 0
  /\ Done(-1, Of("runtime", "ETIMEDOUT"))
  /\ UNCHANGED <<sock, objectVars, dataVars>>

\* A signal: select() is called again, with the whole timeout.
WaitInterrupted ==
  /\ call.at = "wait" /\ call.signals < MaxSignals
  /\ call' = [call EXCEPT !.clock = call.timeout, !.signals = @ + 1]
  /\ UNCHANGED <<sock, objectVars, ret, err, dataVars>>

-----------------------------------------------------------------------------
(* The kernel and the peers.                                               *)

\* A connection is established or refused.
ConnectionDecided(f) ==
  /\ sock[f].state = "connecting"
  /\ \/ sock' = [sock EXCEPT ![f].state = "established", ![f].space = MaxReady]
     \/ sock' = [sock EXCEPT ![f].state = "refused"]
  /\ UNCHANGED <<objectVars, callVars, dataVars>>

\* A byte, a datagram or a peer arrives.
Arrives(f) ==
  /\ \/ sock[f].state \in {"established", "connected", "listening"}
     \/ sock[f].type = "dgram" /\ sock[f].bound
  /\ sock[f].ready < MaxReady
  /\ sock' = [sock EXCEPT ![f].ready = @ + 1]
  /\ UNCHANGED <<objectVars, callVars, dataVars>>

\* The peer of a stream ends it.
PeerEnds(f) ==
  /\ sock[f].state \in {"established", "connected"}
  /\ sock' = [sock EXCEPT ![f].state = "ended"]
  /\ UNCHANGED <<objectVars, callVars, dataVars>>

\* A peer gives up before it is accepted, a datagram turns out to be damaged.
Vanishes(f) ==
  /\ sock[f].state = "listening" \/ sock[f].type = "dgram"
  /\ sock[f].ready > 0
  /\ sock' = [sock EXCEPT ![f].ready = @ - 1]
  /\ UNCHANGED <<objectVars, callVars, dataVars>>

\* The network takes a byte or a datagram.
Drains(f) ==
  /\ sock[f].state \in {"established", "connected", "ended"} \/ sock[f].type = "dgram"
  /\ sock[f].space < MaxReady
  /\ sock' = [sock EXCEPT ![f].space = @ + 1]
  /\ UNCHANGED <<objectVars, callVars, dataVars>>

Kernel(f) == ConnectionDecided(f) \/ Arrives(f) \/ PeerEnds(f) \/ Vanishes(f) \/ Drains(f)

-----------------------------------------------------------------------------
Init ==
  /\ sock = [f \in Fds |-> ClosedSocket]
  /\ objects \in Programs
  /\ fd = [o \in Objects |-> Invalid]
  /\ remote = [o \in TcpSockets |-> Empty]
  /\ loose = {}
  /\ call = Ended(Call("close", CHOOSE o \in objects : TRUE, Empty, -1, "done"))
  /\ ret = 1 /\ err = NoError
  /\ outbox = OutSize /\ inbox = 0 /\ wire = 0 /\ taken = 0

User ==
  \/ \E o \in objects \ {Reader, Writer} : Close(o)
  \/ \E o \in objects \intersect Plain, type \in {"stream", "dgram"} : SocketCreate(o, type)
  \/ \E o \in objects \intersect Plain, f \in Fds : SocketAttach(o, f)
  \/ \E o \in objects \intersect Plain : SocketDetach(o)
  \/ NewPipe \/ DeletePipe
  \/ \E f \in Fds : CloseSocket(f)
  \/ \E o \in objects \intersect TcpSockets, f \in Fds, a \in Addresses \union {Empty} : Connected(o, f, a)
  \/ \E o \in objects \intersect TcpSockets, a \in Addresses, t \in Timeouts \union {-1} : TcpConnect(o, a, t)
  \/ \E o \in objects \intersect TcpSockets, t \in Timeouts \union {-1} : TcpSend(o, t) \/ TcpReceive(o, t)
  \/ \E o \in objects \intersect Acceptors, a \in Addresses \union {Empty} : AcceptorOpen(o, a)
  \/ \E o \in objects \intersect Acceptors, t \in Timeouts \union {-1} : Accept(o, t)
  \/ \E o \in objects \intersect UdpSockets, a \in Addresses \union {Empty} : UdpOpen(o, a) \/ UdpConnect(o, a)
  \/ \E o \in objects \intersect UdpSockets, a \in Addresses \union {Empty}, t \in Timeouts \union {-1} : UdpSendTo(o, a, t)
  \/ \E o \in objects \intersect UdpSockets, t \in Timeouts \union {-1} :
       UdpSend(o, t) \/ UdpReceive(o, t, "receive") \/ UdpReceive(o, t, "receivefrom")

Goes ==
  \/ ConnectStart \/ ConnectAgain \/ AcceptIO \/ SendIO \/ ReceiveIO
  \/ WaitReady \/ WaitTick \/ WaitTimeout

Next == User \/ Goes \/ WaitInterrupted \/ \E f \in Fds : Kernel(f)

\* The call under way goes on: the thread is scheduled, and time passes.
Spec == Init /\ [][Next]_vars /\ WF_vars(Goes)

-----------------------------------------------------------------------------
TypeOK ==
  /\ sock \in [Fds -> [state : {"closed", "new", "connecting", "established", "refused",
                               "connected", "ended", "listening", "paired"},
                       type : {"none", "stream", "dgram"}, nonblock : BOOLEAN,
                       bound : BOOLEAN, peer : Addresses \union {Empty},
                       ready : 0 .. MaxReady, space : 0 .. MaxReady]]
  /\ objects \in Programs
  /\ fd \in [Objects -> Fds \union {Invalid}]
  /\ remote \in [TcpSockets -> Addresses \union {Empty}]
  /\ loose \subseteq Fds
  /\ call.at \in {"wait", "io", "done", "aborted"} /\ call.obj \in Objects
  /\ call.at \in {"wait", "io"} => Valid(call.obj)
  /\ ret \in Int
  /\ outbox \in 0 .. OutSize /\ inbox \in 0 .. InSize

\* Every open descriptor has exactly one owner, an object or the caller, and no object
\* keeps the number of one that is closed: however calls fail, and although the kernel
\* gives a number out again, no descriptor leaks and none is closed twice.
DescriptorsOwned ==
  /\ \A f \in Fds : Open(f) <=> f \in loose \/ \E o \in Objects : fd[o] = f
  /\ \A o \in Objects : fd[o] \notin loose
  /\ \A o, p \in Objects : Valid(o) /\ fd[o] = fd[p] => o = p

\* A call without a timeout never fails for want of what it should have waited for,
\* whatever mode the calls before it have left the descriptor in.
BlockingCallsWait ==
  call.at = "done" /\ call.timeout < 0 => err.code \notin {"EAGAIN", "EINPROGRESS"}

\* Connect does not return true while the connection is still being made.
ConnectReturnsDecided ==
  call.at = "done" /\ call.op = "connect" /\ ret = 1 /\ Valid(call.obj) =>
    Sock(call.obj).state # "connecting"

\* What has been read from the buffer to send is what the kernel took, also when it
\* took a part or failed, and what is in the buffer received into is what it gave.
BuffersMatchWire ==
  /\ outbox + wire = OutSize
  /\ inbox = taken

\* Calls that fail and set no error: listen() and accept() in TcpAcceptor, and the
\* UdpSocket calls whose test of Block is inverted or that return false for -1.
Silent ==
  \/ call.obj \in Acceptors
  \/ call.obj \in UdpSockets /\ Sending

\* Of all other calls: a call that fails has set an error, and one that succeeds has
\* not left one set, for instance that of an attempt it recovered from.
ErrorTellsFailure ==
  call.at = "done" /\ ~ Silent => (ret = -1 <=> IsSet(err))

\* A call with a timeout returns: no mode left by an earlier call makes it block.
TimedCallsReturn ==
  (call.at \in {"wait", "io"} /\ call.timeout >= 0) ~> (call.at \in {"done", "aborted"})

-----------------------------------------------------------------------------
(* Statements of the headers that the code does not keep.                  *)

\* "throw on error" (Socket.hpp): what throws is a set error.
FailureIsReported == call.at = "done" => (ret = -1 <=> IsSet(err))

\* assert(false): it is not reached.
NeverAborts == call.at # "aborted"

\* Connect that returns true has connected, and to the address it was given.
ConnectMeansConnected ==
  [][call.op = "connect" /\ call.at # "done" /\ call'.at = "done" /\ ret' = 1 =>
       /\ Sock(call.obj).state # "refused"
       /\ Sock(call.obj)'.peer = call.addr]_vars

\* "block with timeout" (Socket.hpp): no call waits longer.
WaitIsBounded == call.at = "wait" => call.ticks <= call.timeout

\* "throw on errors" (SocketPipe.hpp): a pipe that is constructed has two ends.
PipeIsWhole ==
  call.at = "done" /\ call.op = "pipe" /\ ret = 1 =>
    \A o \in {Reader, Writer} : Valid(o) /\ Sock(o).state = "paired"

\* "timeout of -1 for block mode".
NegativeTimeoutBlocks == BlockingCallsWait
=============================================================================
