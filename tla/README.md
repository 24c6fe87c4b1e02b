# Verification of netb

netb is a small C++11 networking library: blocking and asynchronous sockets on a
`select()` event loop, stream buffers, and HTTP and DNS messages on top of them.
This directory models it in TLA+: the event loop and what runs on it, the blocking
sockets, the messages, and the programs of `examples/` that put them together. TLC
checks the models on small instances and TLAPS proves theorems about them for every
instance.

Every module translates the source of one component, or of components that
interact; a comment at its head names the files. Names are those of the code
(`RunFunctor` is the one exception: it is AttachInLoop, UpdateInLoop or
DetachInLoop). `PROJECT.json` maps every definition to its lines.

## The system

| Component | State | Operations | Interaction |
|---|---|---|---|
| `EventLoop` | `_stop`, `_handlers`, the selector, `_queue` under a mutex, `_queue_invoking`, the wakeup pipe | `Run`, `Stop`, `Invoke`, `InvokeLater`, `Register/Update/RemoveHandler` | `Run` calls back handlers and queued functions in its thread; other threads queue functions and write a byte to the pipe |
| `SocketPipe` | two connected loopback sockets | constructors (`MakePair`), blocking `Read`, `Write` | the loop's wakeup |
| `SocketSelector` | three `fd_set`s and a heap of descriptors | `Set`, `Remove`, `Select` | used by the loop thread, and by each blocking call for itself |
| `EventHandler` | `_socket`, `_events` under a mutex, `_detached` under a mutex and a condition | constructor (attach), enable and disable, `Detach`, destructor | in the loop thread calls the loop at once, elsewhere queues a function; `Detach` elsewhere waits |
| `EventLoopThread` | `_loop`, a thread, a mutex and a condition | `Start`, destructor | constructs the loop on the thread's stack and publishes its address |
| `StreamBuffer` | a vector, its limit, origin, reading and writing position | write, read, flush, peek, update, copy, assign, swap | one owner at a time, except in `AsyncTcpSocket` |
| `AsyncTcpSocket` | a handler, a receiving and a sending buffer, a mutex | `Connect`, `Connected`, `Send`, `Close`, `OnRead`, `OnWrite` | `Send` runs in any thread, the callbacks in the loop |
| `AsyncUdpSocket` | a handler, a queue of datagrams, a mutex | `Send`, `SendTo`, `OnRead`, `OnWrite` | as `AsyncTcpSocket` |
| `AsyncTcpAcceptor` | a handler | `Open`, `OnRead`, `Close` | hands accepted sockets to a callback |
| `Socket` | a descriptor, its family and type, whether it is blocking | create, attach, detach, close, bind, connect, listen, accept, send, receive, select | owned by one object at a time |
| `TcpSocket`, `UdpSocket`, `TcpAcceptor` | a `Socket` and its address | connect, send, receive, accept, blocking or with a timeout | one thread |
| errors | a class and a code | from an `errno` and the call that failed; thrown or returned | - |
| `SocketAddress` | a `sockaddr_storage` | family, host, port, comparison | - |
| `StreamReader/Writer`, `RandomReader/Writer` | a buffer, an offset | integers, strings | - |
| `DnsMessage`, `DnsRecord` | header, questions, three sections of records | to and from a buffer | `examples/dns`: a resolver on a `UdpSocket` |
| `HttpMessage` | start line, headers, body, the state of the parser | to a buffer, and from one that fills in pieces | `examples/http`: a server and a client |

What is hard: a wakeup that must not be lost between a push and `select()`; a
`Stop` that must end a blocked loop; handlers that are removed, and objects that
are deleted, while events and functions that refer to them are under way; a
`Detach` that waits for the loop; the sending buffer shared by a callback and
other threads; a buffer at its limit; a descriptor whose mode, owner and number
change from call to call; a call with a timeout that gives up while the kernel
goes on; a parser that is fed in any pieces; a compressed name; a connection that
deletes itself in its own callback while its number goes to the next peer.
`PROJECT.json` lists each hazard at its line.

## The modules

| Module | Models | State and actions |
|---|---|---|
| `EventLoop` | `EventLoop.cpp`: the loop and its queue | `queue`, `functions` (what is left of the local vector of `Run`), `queueInvoking`, `pipe` (bytes), `active` (ready handlers yet to be served), `loopAt` (where the loop thread is). One action per step of `Run`; `LoopInvokeLater`, `LoopStop` for user code in the loop thread; `InvokeLater(t, f)`, `Stop(t)`, `Wakeup(t)` for other threads. `Wakeup` is a step of its own, since the push and the write are not atomic |
| `FunctionQueue` | what `EventLoop.hpp` promises of the queue | `pending`, `done`; `Post`, `RunOldest` |
| `EventLoopThread` | `EventLoopThread.cpp`, composed with `EventLoop` | the life of the thread and so of the loop, and where its owner is; EXTENDS `EventLoop` and embeds its steps |
| `EventLoopProofs` | - | theorems about `EventLoop` and `EventLoopThread` |
| `Reactor` | `EventHandler.cpp`, the registry of `EventLoop.cpp`, the sets of `SocketSelector.cpp` | `handlers` (`_handlers`), `interest` (the `fd_set`s), of each handler its life, who constructed it, its descriptor, `_events`, `_detached`; the history `ways`, in which way each handler has been used, which only properties read; actions of users in any thread `New`, `Enable`, `Disable`, `Detach`, `Delete`, `Close`; the steps of `Run` |
| `ReactorProofs` | - | theorems about `Reactor` |
| `StreamBuffer` | `StreamBuffer.hpp`, `StreamBuffer.cpp` | a record for each buffer; operations are functions of it; `MCStreamBuffer` gives TLC the bytes |
| `StreamBufferProofs` | - | theorems about `StreamBuffer`, and that it implements `ByteStream` |
| `ByteStream` | what `StreamBuffer.hpp` promises | accessible bytes and how many of them are read |
| `AsyncTcpSocket` | `AsyncTcpSocket.cpp` of a connected socket | the bytes ever written to `_out_buffer`, the reading position, the lock, the interest, where the loop thread is in `Send`, `OnRead`, `OnWrite`; the peer |
| `AsyncTcpProofs` | - | theorems about `AsyncTcpSocket` |
| `AsyncUdpSocket` | `AsyncUdpSocket.cpp` of an opened socket | the queue of datagrams, the lock, the interest, where the loop thread is in `Send`, `OnRead`, `OnWrite`; the network |
| `AsyncUdpProofs` | - | theorems about `AsyncUdpSocket` |
| `SocketError` | `SocketError.cpp`, `Error.cpp`, `ErrorClass.cpp` | which `errno` of which call becomes which class of error, and which is asserted not to happen |
| `Sockets` | `Socket.cpp`, `TcpSocket.cpp`, `UdpSocket.cpp`, `TcpAcceptor.cpp`, `SocketPipe.cpp` | the kernel's table of descriptors (type, connection, what waits in it, its mode) and of each object the descriptor it holds and its address; the call under way. Each call is an action for what it does before it waits, `Wait...` for `select()`, and an action for the system call after it; between them the kernel moves |
| `SocketsProofs` | - | theorems about `Sockets` |
| `SocketAddress` | `SocketAddress.cpp` | fields and comparison, as operators |
| `StreamCodec` | the four readers and writers | operators on a stream, each giving what the call returns, its value and the stream afterwards |
| `DnsMessage` | `DnsRecord.*`, `DnsMessage.*` | operators that pack and unpack names, flags, records and messages |
| `DnsResolver` | `examples/dns`, with `UdpSocket`, and a server that is external | where `Resolve` is, the datagrams in flight; `Resolve`, `Send`, `SendFails`, `Receive`, `ReceiveFails` of the resolver, `Serve` (a reply with records in any of its three sections), `Deliver` (twice with `Duplication`), `Lose` of the others; `MCDnsResolver` gives TLC the names |
| `HttpMessage` | `HttpMessage.cpp` | packing, and the parser as a function of the object and the buffer |
| `HttpServer` | a connection of `examples/http` and its client | the bytes on the wire, the buffer of the connection, the message being parsed; a piece of any length is one call of `OnReceived`; `MCHttpServer` gives TLC the requests |
| `HttpText` | - | which requests and answers say in their text what they are: the hypotheses of the theorems about `HttpServer`, which `MCHttpServer` has TLC evaluate for its values |
| `DataProofs` | - | theorems about `SocketAddress`, `StreamCodec`, `DnsMessage`, `DnsResolver`, `HttpMessage` and `HttpServer` |
| `TcpServer` | `AsyncTcpAcceptor.cpp`, the life of `AsyncTcpSocket.cpp`, the registry of `EventLoop.cpp`, `examples/echo/EchoServer1.cpp`, `examples/http/HttpServer.cpp` | `_handlers`, the `fd_set`s, the events of the dispatch under way, the connections and what each peer has done; the steps of `Run` with the callbacks they make |
| `TcpServerProofs` | - | theorems about `TcpServer` |

`EventLoopThread` composes `EventLoop` with its owner. `Reactor` takes from
`EventLoop` that a queued function is run after a wakeup, and makes the push and
the `Wakeup` one step (that none is lost is `NoLostWakeup` of `EventLoop`).
`AsyncTcpSocket` and `AsyncUdpSocket` take from `Reactor` that an update of the
interest is applied at once in the loop thread and after a queue elsewhere.
`TcpServer` has the registry once more, with several connections of one thread and
numbers that the kernel gives; of their data it knows whether some is unread or
unsent, and takes the rest from `AsyncTcpSocket`. `Sockets` takes its errors from
`SocketError` and its timed calls from `select()` itself. `StreamCodec` works on
the streams of `ByteStream`, which `StreamBuffer` implements; `DnsMessage` and
`HttpMessage` are built on it, and `DnsResolver` and `HttpServer` put them on a
network.

The abstract specifications are implemented by INSTANCE with a refinement mapping:
`FIFOSpec` maps `pending` to `functions \o queue` and `done` to the history of
functions run; `StreamSpec` maps a buffer to its accessible bytes. For the parser
of HTTP the abstraction is an operator: `PiecesDoNotMatter` compares the object
fed in pieces with one fed at once.

Operators with names like `LoopInvokeLaterSilently`, in a section of their own or
marked as a bug to try, are not part of any specification: put in place of the
action in their name they show that a property can fail.

### What is abstracted

- `_event_handling` is written and never read; `_current_handler` in `EventLoop`
  matters only in `Reactor`.
- `_stop` is a plain `bool` shared by threads; it is modelled as an atomic one
  that is seen at the next test, which is what the builds of the Makefile do.
- The heap of `SocketSelector`, and the except set, which nobody uses.
- Functions that are queued are distinct, each handed over once, so that `ran`
  tells them apart; a thread calls `Stop` once.
- In `Reactor` any thread may call any function of a handler, as
  `EventHandler.cpp:23-28` says, from its construction until a `Detach` of it has
  returned; then it is deleted ("Only called once before deleting",
  `EventHandler.hpp:99`). A descriptor has one live handler. What the code does not
  survive is not excluded: `ways` records that a handler was called from several
  sides (`"mixed"`), detached before the loop attached it (`"eager"`) or detached by
  its own callback (`"self"`), and each property says which of these it excuses.
  `Ways` is all of them in the runs; under Disagreements it restricts the programs to
  show what one way does. A failed
  assertion ends the process, at `"aborted"` or `"null"`; a use of a deleted handler
  leads to `"dangling"`.
- In `AsyncTcpSocket` a message has two bytes, so that it can be sent in part; no
  error of the connection occurs but a full kernel buffer.
- In `AsyncUdpSocket` a datagram is a name; `Send` and `SendTo` differ in the
  address only and are one action; the datagrams that arrive are not empty. A send
  fails because the kernel is full, with an error that passes (at most `MaxErrors`
  times), or always, for the datagrams in `Unsendable` (too long, no route).
- Both are the build with `NDEBUG`, where a full kernel buffer is EAGAIN; without it
  `SocketError.cpp:465` asserts that it does not happen (`NeverAborts`, below).
- In both, `Sides` names the programs that use the socket: `"threads"` call `Send`
  in threads other than the loop's; with `"loop"` callbacks alone do; with
  `"turns"` callbacks and threads do, never at the same time; with `"both"` they
  do as they like, which the code does not survive (Disagreements).
- In `Sockets` an address is a name, bytes are counted, an error is a class and a
  code. The objects of one program share a thread. A pipe's ends are inert once it
  is made; its bytes are in `EventLoop`.
- In `TcpServer` SIGPIPE is ignored. A new descriptor has the lowest free number,
  so that the order of `_handlers` is the one the code depends on.
- `EndReads` is what `RemoveHandler` may read as the key at `end()`: in libstdc++ the
  number of entries that are left, which is behind the header of the tree. The runs
  have all these numbers, those of the descriptors that matter among them: the
  wakeup pipe's in `Reactor`, the acceptor's in `TcpServer`.
- The DNS server sends records of all types, in all sections, with `Unsupported`; TXT
  data of one string or of several; names in full or compressed. Without `Chains` a
  pointer leads to a name that is spelled in full, and the names of the runs are so
  short that no pointer is above 255 (both are under Disagreements).
- A DNS label is a sequence of bytes, a name a sequence of labels; the characters
  that are not valid are in `InvalidNames`. Reading a CNAME adds to a length that is
  never set: whether the comparison after it succeeds is a choice (`lucky`).
- HTTP text is cut into tokens where the parser looks: words, spaces, colons, CR
  and LF. `Numbers` are the numbers that can be spelled, and none is negative: what
  `HttpMessage.cpp:237` makes of a Content-Length below zero, a size that cannot be
  allocated, is not modelled. The bodies of the run are their bytes, those that look
  like a request or end in line breaks among them.
- Undefined behaviour is a choice of outcomes: what `RemoveHandler` reads at
  `end()` is any member of `EndReads`; a `std::rotate` whose middle is past its
  end leaves any bytes; a reallocated buffer leaves junk; a use of a dead loop
  ends the process or goes unnoticed. A body that is longer than its array is kept
  as if there were room, and `BodyFits` tells.

## The runs

`tlc -config <cfg> <module>`; the modules need nothing else.

| Run | Shows | Instance |
|---|---|---|
| `event_loop` | no wakeup is lost, the blocking read of the pipe never blocks, the queue implements the FIFO, each queued function runs, `Stop` ends `Run` | two threads, three functions of which one is posted outside `Run`, a handler whose callback posts and stops. Two threads and the loop are enough for any race of two pushes and a swap; the pipe holds four bytes, as many as can be written |
| `loop_thread` | `Start` returns, with a valid loop; the destructor returns when its `Stop` finds the loop in `Run` | an owner and a client |
| `reactor` | the registry, the queue and a dispatch have no deleted handler but of a handler used in a way that allows it; a queued update finds its handler attached unless it is called from several sides | a thread and the loop, two handlers that both may call and detach at any time, two descriptors that may be reused, one below and one above the wakeup pipe's; two functions deep |
| `reactor_detach` | no callback after `Detach`; `Detach` returns unless `RemoveHandler` has deselected the wakeup pipe | a thread and the loop, two handlers, both events, a descriptor just below the wakeup pipe's that both may use in turn; two functions deep |
| `stream_buffer` | positions in order, memory within the limit | two buffers with `init` 2 and limit 4, writes of one or two bytes: growing, the limit, flushing and reclaiming all happen |
| `tcp` | bytes accepted are on the wire or buffered, in order; with callbacks alone, what waits is watched for and sent | two threads or the callbacks send three messages; a limit of five bytes, so that the last is refused or cut; a kernel that takes one byte at a time |
| `udp` | datagrams accepted are on the wire or queued, once and in order; each is sent unless one that cannot be sent is first, and each that arrives is received | two threads, three datagrams of which one cannot be sent, callbacks in turns with them; a kernel with room for one, an error that passes, a receiving buffer that fills |
| `sockets` | `DescriptorsOwned`: none leaks, is closed twice or is kept after it is closed. `BlockingCallsWait`: a call without a timeout never gives up for want of what it should wait for. `ConnectReturnsDecided`: no `Connect` returns true while its connection is undecided. `BuffersMatchWire`: a buffer has moved by what was sent or received. `ErrorTellsFailure`: a call that fails sets an error, one that succeeds leaves none (but for those that the code leaves silent, under Disagreements). `TimedCallsReturn`: a call with a timeout returns | five programs: a client and an acceptor, a socket with a fixed address, a datagram socket, a plain `Socket` that takes descriptors over from a client and gives them back, a pipe and a plain `Socket`. Two descriptors, three for the pipe, which is as many as it needs, so that the kernel also runs out of them; two addresses; timeouts of 0 and of one tick; two bytes to send, which can be sent in part, one of room to receive; one peer, byte or datagram waits in each descriptor at a time (`MaxReady`); `select()` is interrupted once (`MaxSignals`) |
| `dns` | a query reads as it was asked; what `Resolve` returns has the records of the answer in their sections, and it returns every answer of A, MX and TXT records with one string; `Resolve` returns unless a datagram is lost | one call, answers of up to two records in any sections: A, MX, TXT of one and of two strings, CNAME, NS, SOA; pointers to any label in front that is spelled in full, below offset 256; datagrams that are lost, `ReceiveFrom` that fails |
| `http` | what is parsed does not depend on the cuts; a head is parsed as it was sent; no answer without the head of a request; the first request is answered; a response that was read whole is the one that was sent | one or two requests with and without bodies and repeated headers, bodies that are requests or line breaks, URLs with a colon, pieces of every length, also across two requests; CR and LF stay together |
| `server` | every accepted descriptor has one owner; no deleted handler is used; each peer that waits is accepted, unless `RemoveHandler` has deselected the acceptor or left a closed descriptor selected | three peers, six numbers for descriptors, both applications; peers send, read late, leave or reset; the acceptor is closed and opened again; `Patient` peers leave only when all they sent is answered |
| `server_deaf` | violated: what a peer sends is received | two peers |

`MaxPending` (queued functions and bytes in the pipe), `MaxSize` (length of a
vector), `MaxNet` (chunks received), `OutSize`, `InSize`, `MaxReady`, `MaxSignals`,
`Timeouts` (in `Sockets`, above), `MaxErrors`, `MaxCalls`, `MaxAnswers` and `MaxRequests` are the
bounds in guards; all other counters are bounded by the finite sets of functions,
handlers, messages and peers. `CHECK_DEADLOCK FALSE` is given where the system really
stops: a thread's life ends, all messages are sent, no call is under way and none is
made, the process is aborted.

Two threads besides the loop (one in `Reactor`), two handlers, or three messages are
enough for the races the code can have: every shared variable has at most two
kinds of writers (the loop and others), a third thread only repeats what the
second does, and each queue or buffer is driven to empty, to full and over its
limit. Three peers let one connection end, another take its number and a third be
the next entry. What holds for these instances is proved for all of them where the
section on proofs says so.

Some runs keep away from the defects under Disagreements, each of which would hide
everything behind it, by a constant that is named there: the buffer of
`tcp`, the callbacks and threads of `tcp` and `udp` that take
turns, the `Patient` peers of `server`, the line breaks of `http` that are not cut, the
short names of `dns`. In `reactor`, `reactor_detach`, `udp` and `dns`, and by `RemoveHandler` in `server`,
the defects happen, and the properties say what holds beside them. `AcceptedOwned` and
`PeersAccepted` do not need patient peers: they hold with `Patient = FALSE` too, where a
deleted handler is used in the end (TLC, with two peers and `Fds = {3, 4, 5, 6, 7}`);
`HandlersMatch`, which says that none is, needs them. The refinement `StreamSpec` is
proved for buffers without a limit that are not assigned, so it has no run. Two calls of
`Resolve` with repeated datagrams, one name and one record are too many states beside
the answers of `dns`; `ResolveReturns` holds for them as well (`DnsResolver`
{`Names <- OneName`, `Hosts <- OneName`, `Types <- OnlyA`, `Ids = {513}`,
`MaxAnswers = 1`, `MaxCalls = 2`, `Duplication = TRUE`}).

### Fairness

Weak fairness for the steps inside the library (a thread that runs is scheduled)
and for the return of user callbacks; for `Select` only while something it must
return for is there, the wakeup byte, a ready descriptor or an error of `select()`.
Nothing is assumed of the network in `EventLoop` and `Reactor`, nor that a user ever calls; in `AsyncTcpSocket`
the peer goes on reading, in `AsyncUdpSocket` the network takes what the kernel has.
There `UpdateInLoop` is strongly fair: `Run` invokes the queued functions after every
round of dispatching, however often a descriptor is ready again.

In `Sockets` the call under way goes on (`WF_vars(Goes)`): the thread is scheduled
and time passes in `select()`; no peer owes anything. In `DnsResolver` the resolver
and the server are scheduled and a datagram that is in flight arrives, unless it is
lost; in `HttpServer` TCP brings what was sent, in pieces that nothing is assumed
of. In `TcpServer` only the loop is fair: peers owe nothing. Calling the library is
the user's choice and never fair.

## The proofs

TLAPS checks eight modules. Their theorems hold for all values of the constants
that satisfy the ASSUME of the module, which only says what the constants are, and
the further assumption of the table. Each of those keeps away a defect, or a use
that the code does not survive; the row of Disagreements that has the constant
shows what happens without it.

| Theorem | States | Further assumption |
|---|---|---|
| `EventLoopProofs!TypeCorrect` | `TypeOK` | - |
| `EventLoopProofs!NoWakeupLost` | `NoLostWakeup` | - |
| `EventLoopProofs!WakeupReadDoesNotBlock` | `WakeupReadNeverBlocks` | - |
| `EventLoopProofs!ImplementsFIFO` | `FIFOSpec`, the refinement of `FunctionQueue` | - |
| `EventLoopProofs!ThreadTypeCorrect` | `ThreadTypeOK` | - |
| `EventLoopProofs!AddressIsValid` | `LoopAddressIsValid` | - |
| `EventLoopProofs!NoWakeupLostInThread` | in its thread too the loop loses no wakeup, as long as it exists | - |
| `EventLoopProofs!ThreadImplementsFIFO` | `FIFOSpec`, of the loop in its thread | - |
| `ReactorProofs!TypeCorrect` | `TypeOK` | - |
| `ReactorProofs!NeverDangling` | `NoDangling` | - |
| `ReactorProofs!UpdatesFindAttached` | `UpdateFindsAttached` | - |
| `ReactorProofs!DetachedIsCutOff` | `NoCallbackAfterDetach` | - |
| `StreamBufferProofs!TypeCorrect` | `TypeOK`: no unsigned position wraps | `FlushUnread = FALSE` |
| `StreamBufferProofs!PositionsKeepOrder` | `PositionsInOrder` | `FlushUnread = FALSE` |
| `StreamBufferProofs!LimitIsRespected` | `LimitRespected` | `FlushUnread = FALSE` |
| `StreamBufferProofs!ImplementsStream` | `StreamSpec`, the refinement of `ByteStream` | `FlushUnread = FALSE`, `Limit = 0`, `Assignments = FALSE` |
| `AsyncTcpProofs!TypeCorrect` | `TypeOK` | no overlapping `Send` in the loop thread (`"both" \notin Sides`) |
| `AsyncTcpProofs!WriteInterest` | `WriteInterestKept` | - |
| `AsyncTcpProofs!BytesKept` | `NothingLost` | no overlapping `Send`, and a buffer that is not reallocated (`InitSize = Limit`) unless callbacks alone send (`"threads" \notin Sides`) |
| `AsyncUdpProofs!TypeCorrect` | `TypeOK` | - |
| `AsyncUdpProofs!DatagramsKept` | `NothingLost` | no empty datagram, no overlapping `Send` in the loop thread |
| `SocketsProofs!TypeCorrect` | `TypeOK` | - |
| `SocketsProofs!NoDescriptorLeaks` | `DescriptorsOwned` | - |
| `SocketsProofs!NoByteLost` | `BuffersMatchWire` | - |
| `SocketsProofs!NoTimeoutWaits` | `BlockingCallsWait` | `NegativeReceive = FALSE` |
| `SocketsProofs!ConnectIsDecided` | `ConnectReturnsDecided` | - |
| `SocketsProofs!FailureHasError` | `ErrorTellsFailure` | - |
| `TcpServerProofs!DescriptorsAreOwned` | `AcceptedOwned` | - |
| `TcpServerProofs!HandlersAreAlive` | `HandlersMatch` | `Patient = TRUE` |
| `DataProofs!LessIsIrreflexive`, `LessIsTransitive`, `OrderAgreesWithEquality` | the order of addresses is a strict order, and two that are not ordered are equal: a map of addresses finds what was put in | - |
| `DataProofs!PortRoundTrip` | the port that is set is the port that is read | - |
| `DataProofs!Int16RoundTrip` | two bytes make the number again | - |
| `DataProofs!WrittenIntegerIsRead` | a 16-bit integer that is written to a stream whose end has been read is read from it, and nothing else is left | - |
| `DataProofs!UpdateIsLocal` | RDLENGTH, written at its offset after the data, changes no other byte | - |
| `DataProofs!FlagsRoundTrip` | the flags of a header, packed and read, are the same | - |
| `DataProofs!QuestionsRoundTrip` | a message of any number of questions, packed and unpacked, is the same, and nothing is left | labels of 1 to 63 bytes, the counts of its header agree with it |
| `DataProofs!QueryRoundTripHolds` | `QueryRoundTrip` | `Names` have labels of 1 to 63 bytes and none is in `InvalidNames` |
| `DataProofs!PiecesDoNotMatterHolds` | `PiecesDoNotMatter` | `CutsCRLF = FALSE`; in the bytes of a request CR and LF come in pairs only |
| `DataProofs!HeadIsSentHolds` | `HeadIsSent` | `CutsCRLF = FALSE`, `RequestsFit` |
| `DataProofs!ResponseIsSentHolds` | `ResponseIsSent` | `CutsCRLF = FALSE`, `AnswerFits` |

None of the invariants is inductive as it stands. Each proof module but `DataProofs`
begins with one that is (`IInv`, of named parts), has a lemma for each action that the
action keeps it, and reads the theorems off it. TLC has checked each `IInv`, and the
invariants of `DataProofs` named below, on the instances of the runs.

**`EventLoop`.** That a function queued by the loop thread is followed by a wakeup
depends on `_queue_invoking`; so `RunInv` says where in `Run` the flag is set, that
the swapped vector is left over only while it is set, and that ready events are
left over only while they are dispatched. `IInv` adds it and
`WakeupReadNeverBlocks` (otherwise the byte that announces a function might be read
before the loop selects). The FIFO refinement rests on the same invariant: the swap
keeps `functions \o queue` because `functions` is empty at that point, and each
other step appends to the second part, takes the head of the first, or stutters.

**`EventLoopThread`.** `StepOfLoop` shows that a step of the owner or of the thread is a
step of the loop, so that what is proved of the loop carries over; `StepAfterEnd` deals
with the steps for which that is false, a `Stop` or `Wakeup` that uses the loop after
its end, and shows that they change none of its variables. `OwnerInv` relates the
place in `Start` and in the destructor to the life of the thread: `_loop` is read only
under the lock and after it was set, or after the join.

**`Reactor`.** Nothing is assumed of the users; the properties themselves excuse the
handlers that were used in ways the code does not survive. `RegistryInv` says that what
is registered is attached and not deleted, for every handler. The rest is about handlers
that are called from one side (`Single`), and not detached before they are attached
(`Plain`): that a deleted one is in no function of the queue follows from the order of one
handler's functions (`PlaceOK`). The first attaches it, the last detaches it while the
thread that constructed it waits in `Detach`, and in between it is attached. A step that
appends a function, runs the first of them or changes a handler has to keep this for each
place of `functions \o queue`. A call from a second side ends it: the waiting thread is not
the one that queues. `LiveInv` adds that a handler that is alive and detached will be
attached, or is waited for. That the handler under service is attached unless its own
callback has detached it is `LoopInv`.

**`StreamBuffer`.** The invariant is that of one buffer, `Sound`: the positions in
order and the vector within the limit. Each operation has a lemma that it gives a
sound buffer; the heart of it is `ReserveSound`, where `Reclaim` and the test
against the limit meet. `Reclaim` is allowed any outcome of its undefined rotation:
order and limit do not depend on the bytes. The refinement adds that there is no
limit: then `Reclaim` is never called and growing leaves the accessible bytes where
they are (`ReserveAccessible`). `AccessibleIs` says what it takes for the accessible
bytes to be a given sequence; with it each operation has a lemma about the bytes
(`WrittenAccessible`, `FlushedAccessible`, `CopyAccessible`), and each step maps to the
operation of the stream with the same name, `Clear` and both kinds of `Flush` to
`Flush`, `Writable` to a stutter.

**`AsyncTcpSocket`.** `CopyInv` says that the `Send` of a callback, between its test of
the room and its copy, still knows the end of the buffer; `BurstInv` that what
`OnWrite` hands to the kernel is the beginning of what is unsent although others have
appended since; `InterestInv` that the write event is set while something waits, but
for the one place in `Send` that is about to set it. With `"both"` a place found
without the lock is not the end any more, and not even the bound of `TypeOK` holds.

**`AsyncUdpSocket`.** `PushInv` says that the place a push in the loop thread has
found is not beyond the end of the queue, and `TurnInv` that it is the end, as long as
no other call overlaps; without it the push might overwrite another datagram. Then
the queue changes only together with the wire or with what was accepted.

**`Sockets`.** `SockInv` joins the ownership of descriptors with the types: two objects
share none, and an open one belongs to an object or is loose in the caller's hands.
`CallInv` ties a call under way to an object that has a descriptor. `ModeInv` is what
`BlockingCallsWait` needs: from the moment a call without a timeout has switched its
descriptor until its system call, nothing makes it non-blocking again. Each call has a
lemma for its first step, its wait and its end; failures are a lemma of their own,
since every one of them sets the error.

**`TcpServer`.** `OwnInv` is about descriptors alone and needs nothing of the loop: a peer
is accepted once, whoever is attached is open, and the kernel's table and the objects
agree. `LoopInv` is about what the loop will look at: the acceptor has the lowest
number that a socket can get, so that the stale bit which `RemoveHandler` leaves behind
is the acceptor's or none; an event that was reported is still true when it is
served, since a patient peer with something unsent has not left. Without patience a
connection is ready to read and to write at once, its first callback deletes it, and
the second is made; `PatientInv` rules that out.

**Addresses and numbers.** For the order of addresses the steps follow the comparison:
family first, then host or port, then the others, with a lemma that an address is its
fields. For the codec, `WriteAppends` says what a write leaves of a stream whose end
has been read or not; the flags are a matter of division by powers of two, one byte at
a time.

**Induction over data.** What a loop of the code makes of any number of labels,
questions or lines is a recursive function in the models. `Induction` states the
principle for a set of naturals, from the well-foundedness of `<` in the library: each
use defines the set of the lengths for which the claim holds. A recursive function is
first shown to satisfy its equation (`FlattenIs`, `LabelsFromIs`, `SectionIs`,
`PackedIs`, `HeaderLinesIs`); after that its definition is not needed any more.

**`DnsResolver`.** `QueriesPacked` says that each datagram on its way to the server, and
the buffer of a resolver that is about to send, is what `Pack` made of the question.
That nothing else gets there is a case of each action. What is left is arithmetic of
places: `LayoutIs` says where each label of a name is among its bytes, `NameIsRead` that
reading at such a place gives the name and stops behind its zero, `QuestionTaken`,
`QuestionsTaken` and `HeaderTaken` that each part takes its own bytes and leaves the
reader at the next. A label of 64 bytes is written with a length that reads as a
pointer, hence the assumption on `Names`.

**`HttpServer`, in pieces.** `ServerInv` is the inductive invariant: between two calls of
`OnReceived` no line break is cut, neither in the buffer nor on the wire (`WholeLines`),
and a message that is parsed at once from the beginning of the buffer is where parsing
it in pieces has got to (`ParsedSoFar`). That a further piece keeps it is `ParsingGoesOn`: for each of the three
parts of a message, to parse and then to append the rest and parse on is the same as
to append the rest and parse. For the lines of a header (`ReadHeaderExtends`) this is an
induction over the lines that are complete before the piece; where the two ways meet
depends on a line that fails to be read taking nothing, and this is true only of a
buffer in which no CR is without its LF (`Tidy`, `ReadLineKeeps`). With `CutsCRLF` it is
false, and so is the property.

**`HttpServer`, as it was sent.** `FirstArrives` adds to `ServerInv` that, until something
is answered, the buffer and the wire together begin with the first request's bytes, so
that what was parsed, being what parsing a first part of these bytes at once would give,
is a first part of what parsing all of them gives. That this is the head that was sent
is `HeadParsed`: `StartLineIs` takes a start line apart, `HeadersAreRead` reads the lines
of the headers as they were written, and `HeadersCollected` compares the map that
`SetHeader` built with the one of the headers that were sent, where a key that occurs
twice has its last value. `AnswerArrives` does the same for the client, which receives
in pieces too but reads one response only.

The hypotheses of these theorems are in `HttpText`, for a set `T` of letters: a word of
the start line is not empty and has no space, a key has no colon, nothing but the end of
a line has CR or LF, a number is one letter, Content-Length is the length of the body.
The requests and the answer of the run satisfy them with the set of strings, which TLC
evaluates in each run of `MCHttpServer` (`ValuesFit`).

### What is only model-checked

Liveness (`QueuedFunctionsRun`, `StopEndsRun`, `StartReturns`, `JoinReturns`,
`DetachReturns`, `EverythingSent`, `EverythingSentByLoop`, `EverythingReceived`,
`TimedCallsReturn`, `ResolveReturns`, `FirstIsAnswered`, `PeersAccepted`), since the
prover has neither fairness nor ENABLED.

Two invariants. `AnswerUnpacked` of `DnsResolver`: with records the bytes of an answer
are chosen by a server that compresses names as it likes, and it is false for most
values of the constants (names that need an offset above 255, chains of pointers, the
reuse of the response, under Disagreements); what holds of the messages this library
packs itself is `QuestionsRoundTrip`. `AnswersHaveRequests` of `HttpServer`: because the
blank line's CRLF stays behind, the last two bytes of a body, or that CRLF, begin the next
message. Two bytes hold no head, so an answer needs the blank line of another request; the
run tries this with bodies that are requests, or end in line breaks, and no proof is given.

`StreamSpec` with a limit, or with assignments, is refuted (Disagreements) and so has no
proof. The other invariants and action properties of the runs are theorems.

## Disagreements

Places where the code does other than its headers, comments, assertions or examples
say, or than RFC 1035 as they quote it. One is a run, `server_deaf` (above; the finding
of `PROJECT.json` quotes what it violates): `EventLoop.cpp:133` removes from the selector
the key of the iterator that `erase` returned, the next entry's. Each of the others is shown by the configuration named
first, with the constants in braces changed, and the property in the second column alone,
an `INVARIANT` when it has neither a prime nor a temporal operator. A configuration has
the name of its file; those of `StreamBuffer`, `DnsResolver` and `HttpServer` are run with
the module `MC...`.

| Configuration | Property | What happens |
|---|---|---|
| `EventLoop` {`Threads = {t1}`, `Functors = {f1, f2}`, `OwnerPosts = {f1}`, `PipeCapacity = 3`} | `OwnerFunctionsRun` | `EventLoop.cpp:166`: a function queued by the owner outside `Run` is not announced and waits for an unrelated event; `EventLoop.hpp:92` says it "will be invoked" |
| `EventLoop` {`Threads = {t1}`, `OwnerPosts = {}`, `PipeCapacity = 1`; `CHECK_DEADLOCK FALSE`} | `QueuedFunctionsRun` | `EventLoop.cpp:168`: a queued function that queues another writes to its own loop's pipe; if that is full the loop waits for itself |
| `EventLoopThread` | `LoopOutlivesStop` | `EventLoop.cpp:89`: `Stop` writes to the pipe after `_stop` is stored; the loop may have returned and been destroyed. `EventLoop.hpp:68` says it should be thread safe |
| `EventLoopThread` | `StartedLoopRuns` | `EventLoopThread.cpp:56`: `Start` returns before `Run` is called; `EventLoopThread.hpp:35` says the loop has been running |
| `EventLoopThread` | `DestructorReturns` | `EventLoop.cpp:45`: `Run` clears a `_stop` that came before it, and the join never returns |
| `Reactor` {`Threads = {}`, `Ways = {}`} | `HandlerFound` | `EventLoop.cpp:133`: the removed descriptor stays selected, and the assertion at line 58 fails when it is ready |
| `Reactor` {`Threads = {}`, `Ways = {}`} | `InterestKept` | `EventLoop.cpp:133`: the next handler's descriptor is deselected; `EventHandler.hpp:47` says enabling waits for events |
| `Reactor` {`Handlers = {h1}`, `Fds = {1}`, `Ways = {"eager"}`} | `SafeToDelete` | `EventHandler.cpp:57`: `_detached` is true until the loop has attached the handler, so that a `Detach` before that returns at once, and the queued `AttachInLoop` runs on a deleted handler; `EventHandler.hpp:50-51` says it "is safe to be deleted" |
| as above, `Ways = {"mixed"}` | `SafeToDelete` | `EventHandler.cpp:138`: another thread's `EnableWriting`, such as `AsyncTcpSocket.cpp:214` makes, is in the queue when the loop thread detaches and deletes the handler; `EventHandler.hpp:59-62` leaves the order of such calls to be analyzed |
| `ReactorDetach` {`Threads = {}`, `Ways = {"self"}`} | `CallbackIsCut` | `EventHandler.cpp:170`: the write callback is called after the read callback has detached the handler; `EventHandler.hpp:98` says that `Detach` cuts the callback |
| `ReactorDetach` {`Events = {"read"}`, `Ways = {}`} | `DetachIsDone` | `EventLoop.cpp:133`: removing the handler of the descriptor just below the wakeup pipe's deselects the pipe, and the `Detach` of another handler waits for ever in a loop that runs; `EventHandler.hpp:97` says "Block until done" |
| `ReactorDetach` {`Threads = {}`, `Ways = {"self"}`} | `SafeToDelete` | `EventHandler.cpp:170`: a read callback that deletes its handler, as in both examples, returns into the deleted object |
| `MCStreamBuffer` {`Buffers = {b1}`, `Assignments = FALSE`} | `StreamSpec` | `StreamBuffer.hpp:371`: the rotated range ends at `_wpos - _opos` instead of `_wpos` |
| as above | `PeekableTellsRange` | `StreamBuffer.hpp:284`: returns `false`, that is 0; line 281 says -1 |
| `MCStreamBuffer` {`InitSize = 0`, `Limit = 0`, `MaxSize = 4`} | `StreamSpec` | `StreamBuffer.cpp:78`: the assignment copies from the target's origin, not the source's |
| `MCStreamBuffer` {`Buffers = {b1}`, `FlushUnread = TRUE`, `Assignments = FALSE`} | `PositionsInOrder` | `StreamBuffer.hpp:114`: `Flush(n)` leaves the reading position behind; the picture at lines 340-342 has it after the origin |
| `AsyncTcpSocket` {`Threads = {t1}`, `Messages = {m1, m2}`, `Sides = {"threads"}`, `Limit = 4`, `InitSize = 4`, `Room = 2`, `InLimit = 1`, `MaxNet = 0`} | `EverythingSent` | `AsyncTcpSocket.cpp:261`: the test and `DisableWriting` are outside the lock and cancel another thread's `EnableWriting` |
| as above, `InitSize = 2` | `NothingLost` | `AsyncTcpSocket.cpp:258`: the buffer may be reallocated by another thread while its address is in use |
| as above, `InitSize = 2`, `Limit = 2` | `RefusedOnlyWhenFull` | `AsyncTcpSocket.cpp:259`: sent bytes are read but never flushed and fill the buffer; line 183 says only a full buffer refuses |
| `AsyncTcpSocket` {`Threads = {t1}`, `Messages = {m1, m2}`, `Sides = {"both"}`, `Limit = 4`, `InitSize = 4`, `InLimit = 1`, `MaxNet = 1`} | `NothingLost` | `AsyncTcpSocket.cpp:198`: the loop thread buffers without the lock |
| `AsyncTcpSocket` {`Threads = {t1}`, `Messages = {m1, m2}`, `Sides = {"loop"}`, `Limit = 4`, `InitSize = 4`, `Room = 2`} | `BufferedWhenNotSent` | `AsyncTcpSocket.cpp:195`: -1 is compared as an unsigned number, and the data is not buffered; line 180 says it is |
| as above, `InLimit = 1` | `DisconnectIsReal` | `AsyncTcpSocket.cpp:241`: a full receiving buffer is reported as a lost connection |
| `AsyncUdpSocket` | `BufferedWhenNotSent` | `AsyncUdpSocket.cpp:201`: as in `AsyncTcpSocket`; line 145 says data may be buffered |
| `AsyncUdpSocket` | `ZeroMeansNotTaken` | `AsyncUdpSocket.cpp:206`: a datagram that was queued is reported as not sent |
| `AsyncUdpSocket` {`Empty = {d1}`} | `NothingLost` | `AsyncUdpSocket.cpp:255`: a datagram of no bytes is sent with result 0, and again, and again |
| `AsyncUdpSocket` | `AllSent` | `AsyncUdpSocket.cpp:255`: a datagram that `sendto` refuses for good stays at the head, and nothing behind it is ever sent; the comment supposes "either 0 or all data is sent" |
| `AsyncUdpSocket` {`Sides = {"both"}`} | `NothingLost` | `AsyncUdpSocket.cpp:203`: the loop thread pushes without the lock |
| `Sockets` | `ConnectMeansConnected` | `TcpSocket.cpp:196`: a `Connect` with a timeout returns true when the descriptor is ready to write, also because the connection was refused; and a second `Connect` returns true for the first one's address |
| `Sockets` | `FailureIsReported` | `TcpAcceptor` fails in `listen` or `accept`, or `UdpSocket.cpp:206`, `:241` return -1 because the switch to non-blocking succeeded, and no error is set, so that nothing is thrown; `Socket.hpp:78` and its like say "throw on error" |
| `Sockets` | `PipeIsWhole` | `SocketPipe.cpp:61`: `MakePair` returns true after its `catch`, and attaches what an `accept` without an error did not bring; `SocketPipe.hpp:29` says "throw on errors" |
| `Sockets` | `WaitIsBounded` | `SocketSelector.cpp:166`: after a signal `select()` begins again with the whole timeout |
| `Sockets` {`NegativeReceive = TRUE`} | `NegativeTimeoutBlocks` | `UdpSocket.cpp:335`: `Receive` does not know the timeout of -1 that `SendTo`, `Send` and `ReceiveFrom` turn into a blocking call |
| `Sockets` {`Asserts = TRUE`} | `NeverAborts` | `SocketError.cpp:340`, `:465`: an `assert(false)` for codes that the calls do give |
| `DnsResolver` {`Names <- LongNames`, `Types <- OnlyMX`, `Unsupported = FALSE`} | `AnswerUnpacked` | `DnsRecord.cpp:183`: `len & 63 << 8` is `len & (63 << 8)`, that is 0: a pointer beyond 255 leads elsewhere |
| `DnsResolver` {`Hosts <- ShortNames`, `Chains = TRUE`} | `NamesAreRead` | `DnsRecord.cpp:190`: a pointer to a name that ends in a pointer meets the assertion; `DnsRecord.hpp:85` allows the form |
| `DnsResolver` | `TextsAreRead` | `DnsRecord.cpp:386`: a TXT record of two strings makes the whole answer fail; `DnsRecord.hpp:484` says "One or more <character-string>s" |
| `DnsResolver` {`Names <- OneName`, `Hosts <- OneName`, `Types <- OnlyA`, `Ids = {513}`, `MaxAnswers = 1`} | `ResolveAlwaysReturns` | `examples/dns/DnsResolver.cpp:67`: `ReceiveFrom` has no timeout and nothing is sent again; `DnsResolver.h:26-27` define a number of retries and a timeout |
| as above, `MaxCalls = 2`, `Duplication = TRUE` | `AnswerMatchesQuestion` | `examples/dns/DnsResolver.cpp:67`: identifiers are not compared; a repeated datagram, or one that is late, answers the next question |
| as above, `Reuse = TRUE` | `AnswerUnpacked` | `DnsMessage.cpp:121`: `FromBuffer` appends to what the message already has |
| `DnsResolver` | `AllIsRead` | `DnsRecord.cpp:321`: a SOA record's data is not read and not skipped, so what follows is read from it, and the answer is taken for one |
| `DnsResolver` | `RepackRoundTrip` | `DnsRecord.cpp:83`: the length of RDATA starts from the one that was read, and is added to |
| `DnsResolver` | `AddressIsShown` | `DnsRecord.cpp:257`: the address, in host order, is shown as if it were in network order |
| `DnsResolver` {`InvalidNames <- All`} | `QueryRoundTrip` | `DnsRecord.cpp:100`: the constructor ignores that the name is invalid and asks for the root |
| `DnsResolver` {`Names <- TooLongNames`} | `QueryRoundTrip` | `DnsRecord.cpp:142`: a label of 64 bytes is written with its length, which reads as a pointer |
| `HttpServer` {`Requests <- ClientRequests`, `Answer <- ExampleAnswer`, `MaxRequests = 1`} | `NobodyEnds` | `HttpMessage.cpp:237`: a head without Content-Length makes a string of a null pointer; the request of `examples/http` is one and ends the server |
| as above, `Requests <- OneLength` | `NobodyEnds` | the same for the answer of the server, in the client |
| `HttpServer` {`Requests <- OneLength`} | `AllAreAnswered` | `HttpMessage.cpp:237`: the CRLF of the blank line stays and begins the next request; one that came with the first is not looked at |
| `HttpServer` {`Requests <- Bodies`, `MaxRequests = 1`} | `BodyIsSent` | the same CRLF begins the body |
| `HttpServer` {`Requests <- TwoBodies`} | `BodyFits` | `HttpMessage.cpp:255`: the array of the last body is kept for a longer one |
| `HttpServer` {`Requests <- OneLength`, `MaxRequests = 1`, `CutsCRLF = TRUE`} | `FirstIsAnswered` | `StreamReader.cpp:196`: the line is taken out of the buffer before its delimiter is known to be there |
| `TcpServer` | `PeersAlwaysAccepted` | `EventLoop.cpp:133`: the number of entries that are left is the listening socket's descriptor, and nobody is accepted any more; `AsyncTcpAcceptor.hpp:64` says that connections are accepted internally |
| `TcpServer` | `ClosedNotSelected` | `EventLoop.cpp:133`: the acceptor that is closed, or (`Patient = FALSE`, `Closes = FALSE`) a connection that is deleted with data unsent, stays selected; `select()` fails at once, for all descriptors, until the number is used again |
| `TcpServer` {`Patient = FALSE`} | `HandlersMatch` | `EventHandler.cpp:170`: a connection that is ready to read and to write is deleted by the first callback, and the second is made |
| `TcpServer` {`Peers = {p1}`} | `NeverTerminated` | `AsyncTcpAcceptor.cpp:138`: the peer is gone before `Connected`, whose exception nothing in the HTTP server catches; in the echo server (`Applications = {"echo"}`, `Asserts = TRUE`) `EchoServer1.cpp:68` asserts that it does not happen |

## Not modelled

- Of `Socket`: `Shutdown`, the options besides blocking and reuse, the name of the
  socket itself. Of `SocketAddress`: the text of an address and `getaddrinfo()`. The
  wording and reports of errors. `SocketConfig` is definitions of the platform. None
  of them has state that another component reads.
- The heap that gives `select()` its `nfds`, and the except set.
- `Connect` and `Close` of `AsyncTcpSocket`, `Open` and `Close` of `AsyncUdpSocket`
  composed with data that waits: the parts are in `Sockets`, `Reactor`, `TcpServer`
  and the two modules of the sockets. Two threads that are the first to send and both
  construct the handler (`AsyncUdpSocket.cpp:89`).
- Strings with a delimiter of `RandomReader`: `StreamBuffer::Peekable` makes them
  undefined, and nobody calls them. 64-bit integers are `assert(false)` in the code.
- The printed form of DNS messages; `SetBody` and `SetHeader` of a number are
  declared and not defined.
- A large part of the lines of the library are comments that quote RFC 1035, the
  texts of errors, and overloads that forward to one another.

## Plan

1. `SelectorHeap`: the heap of descriptors against its maximum.
2. `AsyncTcpSocket`, `AsyncUdpSocket`: `Connect`, `Open`, `Close` while data waits;
   the construction of the handler by the first `Send`.
3. Proofs: what `Unpack` makes of the records that `Pack` wrote without pointers, and
   integers of 32 bits.
