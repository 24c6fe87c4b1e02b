----------------------------- MODULE SocketsProofs -----------------------------
(***************************************************************************)
(* What the blocking sockets guarantee for every program, every set of     *)
(* descriptors, addresses and timeouts, and every size of the buffers.     *)
(***************************************************************************)
EXTENDS Sockets, FiniteSetTheorems, WellFoundedInduction, TLAPS

-----------------------------------------------------------------------------
(* The inductive invariant.                                                *)

SockRecords ==
  [state : {"closed", "new", "connecting", "established", "refused",
            "connected", "ended", "listening", "paired"},
   type : {"none", "stream", "dgram"}, nonblock : BOOLEAN,
   bound : BOOLEAN, peer : Addresses \union {Empty},
   ready : 0 .. MaxReady, space : 0 .. MaxReady]

Operations == {"close", "create", "attach", "detach", "pipe", "connected", "connect", "associate",
               "open", "accept", "send", "sendto", "receive", "receivefrom"}

CallRecords ==
  [op : Operations, obj : Objects, addr : Addresses \union {Empty}, timeout : Int,
   at : {"wait", "io", "done", "aborted"}, clock : Int, ticks : Int, signals : Int]

Underway == call.at \in {"wait", "io"}

\* The kernel's sockets and who has their descriptors.
SockInv ==
  /\ sock \in [Fds -> SockRecords]
  /\ objects \in Programs
  /\ fd \in [Objects -> Fds \union {Invalid}]
  /\ remote \in [TcpSockets -> Addresses \union {Empty}]
  /\ loose \subseteq Fds
  /\ DescriptorsOwned

\* The call under way has a socket; one without a timeout does not wait in select().
CallInv ==
  /\ call \in CallRecords /\ ret \in Int
  /\ Underway => Valid(call.obj)
  /\ Underway /\ call.op = "accept" => call.obj \in Acceptors
  /\ Underway /\ call.timeout < 0 => call.at = "io"

\* The mode of its descriptor is the one that the call without a timeout has switched
\* it to, until the system call is made.
ModeInv ==
  ~ NegativeReceive =>
    /\ Underway /\ call.timeout < 0 => ~ Sock(call.obj).nonblock
    /\ BlockingCallsWait

DataInv ==
  /\ outbox \in 0 .. OutSize /\ inbox \in 0 .. InSize
  /\ wire \in Nat /\ taken \in Nat
  /\ BuffersMatchWire

ResultInv == CallInv /\ ModeInv /\ ConnectReturnsDecided /\ ErrorTellsFailure

IInv == SockInv /\ ResultInv /\ DataInv

-----------------------------------------------------------------------------
(* Helpers.                                                                *)

\* A set of descriptors that is not empty has a lowest one.
LEMMA LowestIsElement ==
  ASSUME NEW S \in SUBSET Nat, S # {}
  PROVE  Lowest(S) \in S
<1> DEFINE R == OpToRel(<, Nat)
<1>1. IsWellFoundedOn(R, Nat)
  BY NatLessThanWellFounded
<1>2. \A x, y \in Nat : x < y => <<x, y>> \in R
  BY DEF OpToRel
<1> HIDE DEF R
<1>3. PICK x \in S : \A y \in S : ~ (<<y, x>> \in R)
  BY <1>1, WFMin
<1>4. ASSUME NEW y \in S PROVE x <= y
  <2>1. x \in Nat /\ y \in Nat /\ ~ (y < x)
    BY <1>2, <1>3
  <2> QED
    BY <2>1
<1> QED
  BY <1>3, <1>4 DEF Lowest

\* What Socket::Create makes is open.
LEMMA FreshProperties ==
  ASSUME NEW type \in {"stream", "dgram"}
  PROVE  /\ Fresh(type) \in SockRecords
         /\ Fresh(type).state = "new"
<1>1. 0 \in 0 .. MaxReady /\ MaxReady \in 0 .. MaxReady
  BY SocketsAssumption
<1>2. (IF type = "dgram" THEN MaxReady ELSE 0) \in 0 .. MaxReady
  BY <1>1
<1> QED
  BY <1>1, <1>2 DEF Fresh, ClosedSocket, SockRecords

\* A free descriptor is nobody's.
LEMMA FreeProperties ==
  ASSUME SockInv, NEW s \in [Fds -> SockRecords], FreeIn(s) # {}
  PROVE  /\ Lowest(FreeIn(s)) \in Fds
         /\ s[Lowest(FreeIn(s))].state = "closed"
<1>1. FreeIn(s) \subseteq Fds /\ FreeIn(s) \subseteq Nat
  BY SocketsAssumption DEF FreeIn, Available
<1>2. Lowest(FreeIn(s)) \in FreeIn(s)
  BY <1>1, LowestIsElement
<1> QED
  BY <1>1, <1>2 DEF FreeIn

\* The kernel's sockets after Socket::Create: one more is open, or none.
LEMMA CreateProperties ==
  ASSUME SockInv, NEW o \in Objects, NEW type \in {"stream", "dgram"}, CanCreate(o)
  PROVE  /\ CreatedFd(o) \in Fds
         /\ Create(o, type) \in [Fds -> SockRecords]
         /\ \A f \in Fds : Create(o, type)[f].state # "closed" <=> Open(f) \/ f = CreatedFd(o)
         /\ ~ Valid(o) => ~ Open(CreatedFd(o))
<1>1. CASE Valid(o)
  <2>1. fd[o] \in Fds /\ Open(fd[o])
    BY <1>1 DEF SockInv, Valid, DescriptorsOwned
  <2> QED
    BY <1>1, <2>1 DEF SockInv, CreatedFd, Create, Open
<1>2. CASE ~ Valid(o)
  <2>1. NewFd \in Fds /\ ~ Open(NewFd)
    BY <1>2, FreeProperties DEF SockInv, CanCreate, FreeFds, NewFd, Open
  <2> QED
    BY <1>2, <2>1, FreshProperties DEF SockInv, CreatedFd, Create, Open
<1> QED
  BY <1>1, <1>2

\* Who has which descriptor after it.
LEMMA CreateOwned ==
  ASSUME SockInv, NEW o \in Objects, NEW type \in {"stream", "dgram"}, CanCreate(o),
         fd' = [fd EXCEPT ![o] = CreatedFd(o)], sock' \in [Fds -> SockRecords],
         \A f \in Fds : sock'[f].state # "closed" <=> Create(o, type)[f].state # "closed",
         UNCHANGED <<objects, remote, loose>>
  PROVE  SockInv' /\ Valid(o)'
<1>1. /\ CreatedFd(o) \in Fds
      /\ \A f \in Fds : sock'[f].state # "closed" <=> Open(f) \/ f = CreatedFd(o)
      /\ ~ Valid(o) => ~ Open(CreatedFd(o))
  BY CreateProperties
<1>2. Valid(o) => CreatedFd(o) = fd[o]
  BY DEF CreatedFd
<1>3. CreatedFd(o) # Invalid
  BY <1>1, SocketsAssumption DEF Invalid
<1>4. DescriptorsOwned'
  <2>1. ASSUME NEW f \in Fds
        PROVE  Open(f)' <=> f \in loose' \/ \E p \in Objects : fd'[p] = f
    <3>1. CASE f = CreatedFd(o)
      BY <1>1, <3>1 DEF SockInv, Open
    <3>2. CASE f # CreatedFd(o)
      <4>1. \A p \in Objects : fd'[p] = f <=> fd[p] = f
        BY <1>1, <1>2, <3>2, SocketsAssumption DEF SockInv, Valid, Invalid
      <4> QED
        BY <1>1, <3>2, <4>1 DEF SockInv, Open, DescriptorsOwned
    <3> QED
      BY <3>1, <3>2
  <2>2. CreatedFd(o) \notin loose
    BY <1>1, <1>2 DEF SockInv, DescriptorsOwned
  <2>3. \A p \in Objects : p # o => fd[p] # CreatedFd(o)
    BY <1>1, <1>2 DEF SockInv, DescriptorsOwned
  <2>4. \A p \in Objects : fd'[p] = IF p = o THEN CreatedFd(o) ELSE fd[p]
    BY DEF SockInv
  <2> QED
    BY <2>1, <2>2, <2>3, <2>4 DEF SockInv, DescriptorsOwned, Valid
<1> QED
  BY <1>1, <1>3, <1>4 DEF SockInv, Valid

\* Who has which descriptor after a step that opens and closes none.
LEMMA SameOwners ==
  ASSUME SockInv, sock' \in [Fds -> SockRecords],
         \A f \in Fds : sock'[f].state = "closed" <=> sock[f].state = "closed",
         UNCHANGED objectVars
  PROVE  SockInv'
  BY DEF SockInv, DescriptorsOwned, Open, Valid, objectVars

-----------------------------------------------------------------------------
(* How a call begins and ends.                                             *)

LEMMA CallFields ==
  ASSUME NEW op \in Operations, NEW o \in Objects, NEW a \in Addresses \union {Empty},
         NEW t \in Int, NEW at \in {"wait", "io", "done", "aborted"}
  PROVE  /\ Call(op, o, a, t, at) \in CallRecords
         /\ Call(op, o, a, t, at).op = op /\ Call(op, o, a, t, at).obj = o
         /\ Call(op, o, a, t, at).timeout = t /\ Call(op, o, a, t, at).at = at
  BY DEF Call, CallRecords

\* A call that has ended keeps its operation, its object and whether it had a timeout.
LEMMA EndedFields ==
  ASSUME NEW c \in CallRecords
  PROVE  /\ Ended(c) \in CallRecords
         /\ Ended(c).at = "done" /\ Ended(c).op = c.op /\ Ended(c).obj = c.obj
         /\ Ended(c).timeout < 0 <=> c.timeout < 0
<1> DEFINE t == IF c.timeout < 0 THEN -1 ELSE 0
<1>1. c.timeout \in Int /\ t \in Int /\ (t < 0 <=> c.timeout < 0)
  BY DEF CallRecords
<1>2. Ended(c) = [c EXCEPT !.at = "done", !.addr = Empty, !.clock = 0, !.ticks = 0,
                           !.signals = 0, !.timeout = t]
  BY DEF Ended, CallRecords
<1> HIDE DEF t
<1>3. c = [op |-> c.op, obj |-> c.obj, addr |-> c.addr, timeout |-> c.timeout,
           at |-> c.at, clock |-> c.clock, ticks |-> c.ticks, signals |-> c.signals]
  BY DEF CallRecords
<1>4. Ended(c) = [op |-> c.op, obj |-> c.obj, addr |-> Empty, timeout |-> t,
                  at |-> "done", clock |-> 0, ticks |-> 0, signals |-> 0]
  BY <1>2, <1>3
<1>5. c.op \in Operations /\ c.obj \in Objects
  BY DEF CallRecords
<1> QED
  BY <1>1, <1>4, <1>5 DEF CallRecords

\* What a call that ends has to say: no error of one that should have waited, no
\* connection that is still being made, and an error if and only if it fails.
Speaks(op, o, t, r, e) ==
  /\ r \in Int
  /\ ~ NegativeReceive /\ t < 0 => e.code \notin {"EAGAIN", "EINPROGRESS"}
  /\ \/ o \in Acceptors
     \/ o \in UdpSockets /\ op \in {"send", "sendto"}
     \/ r = -1 <=> IsSet(e)

LEMMA EndsWell ==
  ASSUME NEW c \in CallRecords, call' = Ended(c), Speaks(c.op, c.obj, c.timeout, ret', err'),
         c.op = "connect" /\ ret' = 1 /\ Valid(c.obj)' => Sock(c.obj)'.state # "connecting"
  PROVE  ResultInv'
<1>1. /\ call' \in CallRecords
      /\ call'.at = "done" /\ call'.op = c.op /\ call'.obj = c.obj
      /\ call'.timeout < 0 <=> c.timeout < 0
  BY EndedFields
<1>2. CallInv' /\ ModeInv'
  BY <1>1 DEF Speaks, CallInv, ModeInv, Underway, BlockingCallsWait
<1>3. ConnectReturnsDecided' /\ ErrorTellsFailure'
  BY <1>1 DEF Speaks, ConnectReturnsDecided, ErrorTellsFailure, Silent, Sending
<1> QED
  BY <1>2, <1>3 DEF ResultInv

LEMMA ReturnsWell ==
  ASSUME NEW op \in Operations, NEW o \in Objects, NEW a \in Addresses \union {Empty},
         NEW t \in Int, NEW r, NEW e, Returns(op, o, a, t, r, e),
         Speaks(op, o, t, r, e), op # "connect" \/ r = -1
  PROVE  ResultInv'
<1> DEFINE c == Call(op, o, a, t, "done")
<1>1. c \in CallRecords /\ c.op = op /\ c.obj = o /\ c.timeout = t
  BY CallFields
<1>2. call' = Ended(c) /\ ret' = r /\ err' = e
  BY DEF Returns
<1> HIDE DEF c
<1> QED
  BY <1>1, <1>2, EndsWell

LEMMA ProceedsFields ==
  ASSUME NEW op \in Operations, NEW o \in Objects, NEW a \in Addresses \union {Empty},
         NEW t \in Int, NEW waits \in BOOLEAN, Proceeds(op, o, a, t, waits)
  PROVE  /\ call' \in CallRecords /\ ret' \in Int
         /\ call'.op = op /\ call'.obj = o /\ call'.timeout = t
         /\ call'.at = "io" \/ (call'.at = "wait" /\ t > 0)
<1>1. CASE waits /\ t > 0
  <2>1. call' = Call(op, o, a, t, "wait") /\ ret' = 0
    BY <1>1 DEF Proceeds
  <2> QED
    BY <1>1, <2>1, CallFields
<1>2. CASE ~ (waits /\ t > 0)
  <2>1. call' = Call(op, o, a, t, "io") /\ ret' = 0
    BY <1>2 DEF Proceeds
  <2> QED
    BY <2>1, CallFields
<1> QED
  BY <1>1, <1>2

LEMMA ProceedsWell ==
  ASSUME NEW op \in Operations, NEW o \in Objects, NEW a \in Addresses \union {Empty},
         NEW t \in Int, NEW waits \in BOOLEAN, Proceeds(op, o, a, t, waits),
         Valid(o)', op = "accept" => o \in Acceptors,
         ~ NegativeReceive /\ t < 0 => ~ Sock(o)'.nonblock
  PROVE  ResultInv'
<1>2. /\ call' \in CallRecords /\ ret' \in Int
      /\ call'.op = op /\ call'.obj = o /\ call'.timeout = t
      /\ call'.at = "io" \/ (call'.at = "wait" /\ t > 0)
  BY ProceedsFields
<1>4. CallInv'
  <2>1. Valid(call.obj)'
    BY <1>2 DEF Valid
  <2>2. call'.timeout < 0 => call'.at = "io"
    BY <1>2
  <2> QED
    BY <1>2, <2>1, <2>2 DEF CallInv, Underway
<1>5. ModeInv'
  BY <1>2 DEF ModeInv, Underway, BlockingCallsWait
<1>6. ConnectReturnsDecided' /\ ErrorTellsFailure'
  BY <1>2 DEF ConnectReturnsDecided, ErrorTellsFailure
<1> QED
  BY <1>4, <1>5, <1>6 DEF ResultInv

\* The call under way ends.
LEMMA DoneWell ==
  ASSUME ResultInv, NEW r, NEW e, Done(r, e),
         Speaks(call.op, call.obj, call.timeout, r, e),
         call.op = "connect" /\ r = 1 => sock'[fd'[call.obj]].state # "connecting"
  PROVE  ResultInv'
<1>1. PICK c \in CallRecords : c = call
  BY DEF ResultInv, CallInv
<1>2. call' = Ended(c) /\ ret' = r /\ err' = e
  BY <1>1 DEF Done
<1>3. Speaks(c.op, c.obj, c.timeout, ret', err')
  BY <1>1, <1>2
<1>4. c.op = "connect" /\ ret' = 1 /\ Valid(c.obj)' => Sock(c.obj)'.state # "connecting"
  BY <1>1, <1>2 DEF Valid, Sock
<1> QED
  BY <1>2, <1>3, <1>4, EndsWell

LEMMA FailsWell ==
  ASSUME ResultInv, NEW e, NEW asserted, Fails(e, asserted), IsSet(e),
         ~ NegativeReceive /\ call.timeout < 0 => e.code \notin {"EAGAIN", "EINPROGRESS"}
  PROVE  ResultInv'
<1>1. CASE call' = Ended(call)
  <2>1. Done(-1, e)
    BY <1>1 DEF Fails, Done
  <2>2. Speaks(call.op, call.obj, call.timeout, -1, e)
    BY DEF Speaks
  <2> QED
    BY <2>1, <2>2, DoneWell
<1>2. CASE call' = [call EXCEPT !.at = "aborted"]
  <2>1. call' \in CallRecords /\ call'.at = "aborted" /\ ret' = -1
    BY <1>2 DEF ResultInv, CallInv, CallRecords, Fails
  <2> QED
    BY <2>1 DEF ResultInv, CallInv, ModeInv, Underway, BlockingCallsWait,
                ConnectReturnsDecided, ErrorTellsFailure
<1> QED
  BY <1>1, <1>2 DEF Fails

-----------------------------------------------------------------------------
(* Every action of the user keeps the owners and speaks well.              *)

\* One object gets a descriptor of nobody else's, or none.
Gets(o, g) ==
  /\ fd' = [fd EXCEPT ![o] = g]
  /\ sock' \in [Fds -> SockRecords]
  /\ objects' = objects /\ remote' \in [TcpSockets -> Addresses \union {Empty}]
  /\ loose' \subseteq Fds /\ g \notin loose'
  /\ \A p \in Objects : p # o /\ Valid(p) => fd[p] # g /\ fd[p] \notin loose'
  /\ \A f \in Fds : sock'[f].state # "closed" <=>
       \/ f = g \/ f \in loose'
       \/ \E p \in Objects : p # o /\ fd[p] = f

LEMMA NewOwner ==
  ASSUME SockInv, NEW o \in Objects, NEW g \in Fds \union {Invalid}, Gets(o, g)
  PROVE  SockInv' /\ fd'[o] = g
<1>1. Invalid \notin Fds
  BY SocketsAssumption DEF Invalid
<1>2. fd' \in [Objects -> Fds \union {Invalid}] /\ fd'[o] = g
  BY DEF SockInv, Gets
<1>3. \A p \in Objects : p # o => fd'[p] = fd[p]
  BY DEF SockInv, Gets
<1>4. ASSUME NEW f \in Fds
      PROVE  Open(f)' <=> f \in loose' \/ \E p \in Objects : fd'[p] = f
  BY <1>2, <1>3 DEF Open, Gets
<1>5. ASSUME NEW p \in Objects PROVE fd'[p] \notin loose'
  BY <1>1, <1>2, <1>3 DEF SockInv, Valid, Gets
<1>6. ASSUME NEW p \in Objects, NEW q \in Objects, Valid(p)', fd'[p] = fd'[q]
      PROVE  p = q
  <2>1. p # o /\ q # o => p = q
    BY <1>3, <1>6 DEF SockInv, DescriptorsOwned, Valid
  <2>2. p = o /\ q # o => FALSE
    BY <1>2, <1>3, <1>6 DEF Valid, Gets
  <2>3. p # o /\ q = o => FALSE
    BY <1>2, <1>3, <1>6 DEF Valid, Gets
  <2> QED
    BY <2>1, <2>2, <2>3
<1>7. DescriptorsOwned'
  BY <1>4, <1>5, <1>6 DEF DescriptorsOwned, Valid
<1> QED
  BY <1>2, <1>7 DEF SockInv, Gets

LEMMA ClosedIsRecord == ClosedSocket \in SockRecords /\ ClosedSocket.state = "closed"
<1>1. 0 \in 0 .. MaxReady
  BY SocketsAssumption
<1> QED
  BY <1>1 DEF ClosedSocket, SockRecords

\* After CloseSocket of what o has, o's is closed, and nothing else has changed.
LEMMA ClosedProperties ==
  ASSUME SockInv, NEW o \in Objects
  PROVE  /\ Closed(sock, o) \in [Fds -> SockRecords]
         /\ \A f \in Fds : Closed(sock, o)[f].state # "closed" <=> Open(f) /\ f # fd[o]
<1>1. Invalid \notin Fds
  BY SocketsAssumption DEF Invalid
<1>2. fd[o] \in Fds \union {Invalid} /\ sock \in [Fds -> SockRecords]
  BY DEF SockInv
<1>3. CASE Valid(o)
  BY <1>2, <1>3, ClosedIsRecord DEF Closed, Valid, Open
<1>4. CASE ~ Valid(o)
  BY <1>1, <1>2, <1>4 DEF Closed, Valid, Open
<1> QED
  BY <1>3, <1>4

\* And the others' are still open.
LEMMA OthersOpen ==
  ASSUME SockInv, NEW o \in Objects, NEW f \in Fds
  PROVE  Open(f) /\ f # fd[o] <=> f \in loose \/ \E p \in Objects : p # o /\ fd[p] = f
<1>1. f # Invalid
  BY SocketsAssumption DEF Invalid
<1> QED
  BY <1>1 DEF SockInv, DescriptorsOwned, Valid

\* The object lets go of its descriptor, which is closed.
LEMMA Released ==
  ASSUME SockInv, NEW o \in Objects, sock' = Closed(sock, o),
         fd' = [fd EXCEPT ![o] = Invalid], UNCHANGED <<objects, remote, loose>>
  PROVE  SockInv'
<1>1. Invalid \notin loose /\ Invalid \notin Fds
  BY SocketsAssumption DEF SockInv, Invalid
<1>2. \A p \in Objects : p # o /\ Valid(p) => fd[p] # Invalid /\ fd[p] \notin loose
  BY DEF SockInv, DescriptorsOwned, Valid
<1>3. /\ sock' \in [Fds -> SockRecords]
      /\ \A f \in Fds : sock'[f].state # "closed" <=> Open(f) /\ f # fd[o]
  BY ClosedProperties
<1>4. \A f \in Fds : sock'[f].state # "closed" <=>
         f \in loose \/ \E p \in Objects : p # o /\ fd[p] = f
  BY <1>3, OthersOpen
<1>5. Gets(o, Invalid)
  BY <1>1, <1>2, <1>3, <1>4 DEF Gets, SockInv
<1> QED
  BY <1>5, NewOwner

\* It takes over one of the caller's, and closes what it had.
LEMMA TakenOver ==
  ASSUME SockInv, NEW o \in Objects, NEW f \in loose, sock' = Attached(sock, o, f),
         fd' = [fd EXCEPT ![o] = f], loose' = loose \ {f}, objects' = objects,
         remote' \in [TcpSockets -> Addresses \union {Empty}]
  PROVE  SockInv'
<1>1. f \in Fds /\ loose \subseteq Fds /\ loose' \subseteq Fds
  BY DEF SockInv
<1>2. \A p \in Objects : fd[p] # f /\ fd[p] \notin loose
  BY DEF SockInv, DescriptorsOwned
<1>3. sock' = Closed(sock, o)
  BY <1>2 DEF Attached
<1>4. /\ sock' \in [Fds -> SockRecords]
      /\ \A g \in Fds : sock'[g].state # "closed" <=> Open(g) /\ g # fd[o]
  BY <1>3, ClosedProperties
<1>5. \A g \in Fds : sock'[g].state # "closed" <=>
         g \in loose \/ \E p \in Objects : p # o /\ fd[p] = g
  BY <1>4, OthersOpen
<1>6. \A g \in Fds : g \in loose <=> g = f \/ g \in loose'
  OBVIOUS
<1>7. Gets(o, f)
  BY <1>1, <1>2, <1>4, <1>5, <1>6 DEF Gets
<1> QED
  BY <1>1, <1>7, NewOwner

LEMMA CloseStep ==
  ASSUME IInv, NEW o \in Objects, Close(o)
  PROVE  SockInv' /\ ResultInv'
<1>1. SockInv'
  BY Released DEF Close, IInv
<1>2. Returns("close", o, Empty, -1, 1, NoError) /\ Speaks("close", o, -1, 1, NoError)
  BY DEF Close, Speaks, NoError, IsSet
<1>3. ResultInv'
  BY <1>2, ReturnsWell DEF Operations
<1> QED
  BY <1>1, <1>3

LEMMA SocketCreateStep ==
  ASSUME IInv, NEW o \in Objects, NEW type \in {"stream", "dgram"}, SocketCreate(o, type)
  PROVE  SockInv' /\ ResultInv'
<1> DEFINE s == Closed(sock, o)
           g == Lowest(FreeIn(s))
<1>1. CASE FreeIn(s) = {}
  <2>1. SockInv'
    BY <1>1, Released DEF SocketCreate, IInv
  <2>2. Returns("create", o, Empty, -1, -1, NoDescriptor)
    BY <1>1 DEF SocketCreate
  <2>3. Speaks("create", o, -1, -1, NoDescriptor)
    BY DEF Speaks, NoDescriptor, OpenError, Classified, Of, IsSet
  <2> QED
    BY <2>1, <2>2, <2>3, ReturnsWell DEF Operations
<1>2. CASE FreeIn(s) # {}
  <2>1. /\ sock' = [s EXCEPT ![g] = Fresh(type)]
        /\ fd' = [fd EXCEPT ![o] = g] /\ UNCHANGED <<objects, remote, loose>>
        /\ Returns("create", o, Empty, -1, 1, NoError)
    BY <1>2 DEF SocketCreate
  <2>2. /\ s \in [Fds -> SockRecords]
        /\ \A f \in Fds : s[f].state # "closed" <=> Open(f) /\ f # fd[o]
    BY ClosedProperties DEF IInv
  <2>3. \A f \in Fds : s[f].state # "closed" <=>
           f \in loose \/ \E p \in Objects : p # o /\ fd[p] = f
    BY <2>2, OthersOpen DEF IInv
  <2>4. g \in Fds /\ s[g].state = "closed"
    BY <1>2, <2>2, FreeProperties DEF IInv
  <2> HIDE DEF s, g
  <2>5. /\ sock' \in [Fds -> SockRecords]
        /\ \A f \in Fds : sock'[f].state # "closed" <=> f = g \/ s[f].state # "closed"
    BY <2>1, <2>2, <2>4, FreshProperties
  <2>6. \A p \in Objects : p # o /\ Valid(p) => fd[p] # g /\ fd[p] \notin loose
    BY <2>3, <2>4 DEF IInv, SockInv, DescriptorsOwned
  <2>7. Gets(o, g)
    BY <2>1, <2>3, <2>4, <2>5, <2>6 DEF Gets, IInv, SockInv
  <2>8. SockInv'
    BY <2>4, <2>7, NewOwner DEF IInv
  <2>9. Speaks("create", o, -1, 1, NoError)
    BY DEF Speaks, NoError, IsSet
  <2> QED
    BY <2>1, <2>8, <2>9, ReturnsWell DEF Operations
<1> QED
  BY <1>1, <1>2

LEMMA SocketAttachStep ==
  ASSUME IInv, NEW o \in Objects, NEW f \in Fds, SocketAttach(o, f)
  PROVE  SockInv' /\ ResultInv'
<1>1. remote' \in [TcpSockets -> Addresses \union {Empty}]
  BY DEF SocketAttach, IInv, SockInv
<1>2. SockInv'
  BY <1>1, TakenOver DEF SocketAttach, IInv
<1>3. Returns("attach", o, Empty, -1, 1, NoError) /\ Speaks("attach", o, -1, 1, NoError)
  BY DEF SocketAttach, Speaks, NoError, IsSet
<1> QED
  BY <1>2, <1>3, ReturnsWell DEF Operations

LEMMA SocketDetachStep ==
  ASSUME IInv, NEW o \in Objects, SocketDetach(o)
  PROVE  SockInv' /\ ResultInv'
<1>1. /\ fd' = [fd EXCEPT ![o] = Invalid] /\ loose' = loose \union {fd[o]}
      /\ UNCHANGED <<sock, objects, remote>> /\ Valid(o)
  BY DEF SocketDetach
<1>2. fd[o] \in Fds /\ Invalid \notin Fds /\ loose' \subseteq Fds
  <2>1. fd[o] \in Fds /\ loose \subseteq Fds
    BY <1>1 DEF IInv, SockInv, Valid
  <2>2. Invalid \notin Fds
    BY SocketsAssumption DEF Invalid
  <2> QED
    BY <1>1, <2>1, <2>2
<1>3. \A p \in Objects : p # o /\ Valid(p) => fd[p] # Invalid /\ fd[p] \notin loose'
  BY <1>1 DEF IInv, SockInv, DescriptorsOwned, Valid
<1>4. \A f \in Fds : sock'[f].state # "closed" <=>
         f \in loose' \/ \E p \in Objects : p # o /\ fd[p] = f
  BY <1>1 DEF IInv, SockInv, DescriptorsOwned, Open
<1>5. Gets(o, Invalid)
  BY <1>1, <1>2, <1>3, <1>4 DEF Gets, IInv, SockInv
<1>6. SockInv'
  BY <1>5, NewOwner DEF IInv
<1>7. Returns("detach", o, Empty, -1, 1, NoError) /\ Speaks("detach", o, -1, 1, NoError)
  BY DEF SocketDetach, Speaks, NoError, IsSet
<1> QED
  BY <1>6, <1>7, ReturnsWell DEF Operations

LEMMA ConnectedStep ==
  ASSUME IInv, NEW o \in TcpSockets, NEW f \in Fds, NEW a \in Addresses \union {Empty},
         Connected(o, f, a)
  PROVE  SockInv' /\ ResultInv'
<1>1. o \in Objects
  BY DEF Objects
<1>2. remote' \in [TcpSockets -> Addresses \union {Empty}]
  BY DEF Connected, IInv, SockInv
<1>3. SockInv'
  BY <1>1, <1>2, TakenOver DEF Connected, IInv
<1>4. PICK e : Returns("connected", o, a, -1, IF IsSet(e) THEN -1 ELSE 1, e)
               /\ e = ConnectedError(f, remote'[o])
  BY DEF Connected
<1>5. e.code \notin {"EAGAIN", "EINPROGRESS"}
  BY <1>4 DEF ConnectedError, ConnectedAddressError, NameError, Classified, Of, NoError
<1>6. Speaks("connected", o, -1, IF IsSet(e) THEN -1 ELSE 1, e)
  BY <1>5 DEF Speaks
<1> QED
  BY <1>1, <1>3, <1>4, <1>6, ReturnsWell DEF Operations

\* The two ends of a pipe get descriptors of nobody else's, or none.
BothGet(r, w) ==
  /\ fd' \in [Objects -> Fds \union {Invalid}] /\ fd'[Reader] = r /\ fd'[Writer] = w
  /\ \A p \in Objects \ {Reader, Writer} :
       fd'[p] = fd[p] /\ (Valid(p) => fd[p] \notin {r, w})
  /\ sock' \in [Fds -> SockRecords]
  /\ UNCHANGED <<objects, remote, loose>>
  /\ {r, w} \intersect loose = {} /\ (r # Invalid => r # w)
  /\ \A f \in Fds : sock'[f].state # "closed" <=>
       \/ f \in {r, w} \/ f \in loose
       \/ \E p \in Objects \ {Reader, Writer} : fd[p] = f

LEMMA NewOwners ==
  ASSUME SockInv, NEW r, NEW w, BothGet(r, w)
  PROVE  SockInv'
<1>1. Reader \in Objects /\ Writer \in Objects
  BY DEF Objects
<1>2. ASSUME NEW f \in Fds
      PROVE  Open(f)' <=> f \in loose' \/ \E p \in Objects : fd'[p] = f
  BY <1>1 DEF BothGet, Open
<1>3. ASSUME NEW p \in Objects PROVE fd'[p] \notin loose'
  BY DEF BothGet, SockInv, DescriptorsOwned
<1>4. ASSUME NEW p \in Objects, NEW q \in Objects, Valid(p)', fd'[p] = fd'[q]
      PROVE  p = q
  <2>1. CASE p \notin {Reader, Writer} /\ q \notin {Reader, Writer}
    BY <1>4, <2>1 DEF BothGet, SockInv, DescriptorsOwned, Valid
  <2>2. CASE p \in {Reader, Writer} /\ q \in {Reader, Writer}
    BY <1>4, <2>2 DEF BothGet, Valid
  <2>3. CASE p \in {Reader, Writer} /\ q \notin {Reader, Writer}
    BY <1>4, <2>3 DEF BothGet, Valid
  <2>4. CASE p \notin {Reader, Writer} /\ q \in {Reader, Writer}
    BY <1>4, <2>4 DEF BothGet, Valid
  <2> QED
    BY <2>1, <2>2, <2>3, <2>4
<1>5. DescriptorsOwned'
  BY <1>2, <1>3, <1>4 DEF DescriptorsOwned, Valid
<1> QED
  BY <1>5 DEF BothGet, SockInv

LEMMA DeletePipeStep ==
  ASSUME IInv, DeletePipe
  PROVE  SockInv' /\ ResultInv'
<1>1. Reader \in Objects /\ Writer \in Objects /\ Invalid \notin Fds /\ Reader # Writer
  BY SocketsAssumption DEF Objects, Invalid
<1>2. /\ sock' = [f \in Fds |-> IF f \in {fd[Reader], fd[Writer]} THEN ClosedSocket ELSE sock[f]]
      /\ fd' = [fd EXCEPT ![Reader] = Invalid, ![Writer] = Invalid]
      /\ UNCHANGED <<objects, remote, loose>>
  BY DEF DeletePipe
<1>3. /\ fd' \in [Objects -> Fds \union {Invalid}]
      /\ fd'[Reader] = Invalid /\ fd'[Writer] = Invalid
      /\ \A p \in Objects \ {Reader, Writer} : fd'[p] = fd[p]
  BY <1>1, <1>2 DEF IInv, SockInv
<1>4. /\ sock' \in [Fds -> SockRecords]
      /\ \A f \in Fds : sock'[f].state # "closed" <=> Open(f) /\ f \notin {fd[Reader], fd[Writer]}
  BY <1>2, ClosedIsRecord DEF IInv, SockInv, Open
<1>5. ASSUME NEW f \in Fds
      PROVE  Open(f) /\ f \notin {fd[Reader], fd[Writer]} <=>
               f \in loose \/ \E p \in Objects \ {Reader, Writer} : fd[p] = f
  <2>1. f # Invalid
    BY <1>1
  <2> QED
    BY <1>1, <2>1 DEF IInv, SockInv, DescriptorsOwned, Valid
<1>6. Invalid \notin loose
  BY <1>1 DEF IInv, SockInv
<1>7. BothGet(Invalid, Invalid)
  BY <1>1, <1>2, <1>3, <1>4, <1>5, <1>6 DEF BothGet, Valid
<1>8. SockInv'
  BY <1>7, NewOwners DEF IInv
<1>9. Returns("close", Reader, Empty, -1, 1, NoError) /\ Speaks("close", Reader, -1, 1, NoError)
  BY DEF DeletePipe, Speaks, NoError, IsSet
<1> QED
  BY <1>1, <1>8, <1>9, ReturnsWell DEF Operations

\* With two descriptors free there is a second one.
LEMMA SecondFree ==
  ASSUME SockInv, Cardinality(FreeFds) >= 2
  PROVE  /\ NewFd \in FreeFds /\ Lowest(FreeFds \ {NewFd}) \in FreeFds \ {NewFd}
         /\ FreeFds \subseteq Fds
<1>1. FreeFds \subseteq Fds /\ FreeFds \subseteq Nat /\ IsFiniteSet(FreeFds)
  <2>1. FreeFds \subseteq Fds /\ Fds \subseteq Nat /\ IsFiniteSet(Fds)
    BY SocketsAssumption DEF FreeFds, FreeIn, Available
  <2> QED
    BY <2>1, FS_Subset
<1>2. FreeFds # {}
  <2>1. Cardinality({}) = 0
    BY FS_EmptySet
  <2> QED
    BY <2>1
<1>3. NewFd \in FreeFds
  BY <1>1, <1>2, LowestIsElement DEF NewFd
<1>4. FreeFds \ {NewFd} # {}
  <2>1. FreeFds \ {NewFd} = {} => FreeFds = {NewFd}
    BY <1>3
  <2>2. Cardinality({NewFd}) = 1
    BY FS_Singleton
  <2> QED
    BY <2>1, <2>2
<1>5. Lowest(FreeFds \ {NewFd}) \in FreeFds \ {NewFd}
  BY <1>1, <1>4, LowestIsElement
<1> QED
  BY <1>1, <1>3, <1>5

LEMMA PairedProperties ==
  /\ Paired \in SockRecords /\ Paired.state = "paired"
  /\ Fresh("stream") \in SockRecords /\ Fresh("stream").state = "new"
  /\ Fresh("stream").bound = FALSE
<1>1. 0 \in 0 .. MaxReady
  BY SocketsAssumption
<1> QED
  BY <1>1 DEF Paired, Fresh, ClosedSocket, SockRecords

\* Whatever becomes of the reader, both ends have sockets of their own.
LEMMA MakePairOwners ==
  ASSUME IInv, NEW r \in Fds, NEW w \in Fds, r # w, ~ Open(r), ~ Open(w),
         ~ Valid(Reader), ~ Valid(Writer), MakePair(r, w),
         UNCHANGED <<objects, remote, loose>>
  PROVE  SockInv' /\ ResultInv'
<1> DEFINE new == [sock EXCEPT ![r] = Fresh("stream"), ![w] = Fresh("stream")]
           connected == [new EXCEPT ![r] = ClosedSocket, ![w] = Paired]
           free == FreeIn(new)
           l == Lowest(free)
<1>1. PICK e \in BindErrors(new, r), throws \in BOOLEAN :
        /\ sock' = IF IsSet(e) THEN new
                   ELSE IF free = {} THEN connected ELSE [connected EXCEPT ![l] = Paired]
        /\ fd' = [fd EXCEPT ![Writer] = w,
                            ![Reader] = IF IsSet(e) THEN r
                                        ELSE IF free = {} THEN Invalid ELSE l]
        /\ IF IsSet(e) /\ ~ throws THEN Returns("pipe", Reader, Empty, -1, -1, e)
           ELSE Returns("pipe", Reader, Empty, -1, 1, NoError)
  BY DEF MakePair
<1>2. Reader \in Objects /\ Writer \in Objects /\ Reader # Writer
  BY SocketsAssumption DEF Objects
<1>3. /\ SockInv /\ sock \in [Fds -> SockRecords] /\ fd \in [Objects -> Fds \union {Invalid}]
      /\ loose \subseteq Fds /\ Invalid \notin Fds
  BY SocketsAssumption DEF IInv, SockInv, Invalid
<1>4. /\ new \in [Fds -> SockRecords]
      /\ \A f \in Fds : new[f].state # "closed" <=> Open(f) \/ f \in {r, w}
  BY <1>3, PairedProperties DEF Open
<1>5. /\ connected \in [Fds -> SockRecords]
      /\ \A f \in Fds : connected[f].state # "closed" <=> Open(f) \/ f = w
  BY <1>3, PairedProperties, ClosedIsRecord DEF Open
<1>6. free # {} => l \in Fds /\ ~ Open(l) /\ l # r /\ l # w
  BY <1>3, <1>4, FreeProperties
<1> HIDE DEF new, connected, free, l
\* Who has an open descriptor is neither end of the pipe.
<1>7. \A f \in Fds : Open(f) <=>
        f \in loose \/ \E p \in Objects \ {Reader, Writer} : fd[p] = f
  BY <1>2, <1>3 DEF SockInv, DescriptorsOwned, Valid
<1>8. ASSUME NEW g \in Fds \union {Invalid}, g # w, g \in Fds => ~ Open(g), sock' \in [Fds -> SockRecords],
             \A f \in Fds : sock'[f].state # "closed" <=> Open(f) \/ f \in {g, w},
             fd' = [fd EXCEPT ![Writer] = w, ![Reader] = g]
      PROVE  SockInv'
  <2>1. /\ fd' \in [Objects -> Fds \union {Invalid}] /\ fd'[Reader] = g /\ fd'[Writer] = w
        /\ \A p \in Objects \ {Reader, Writer} : fd'[p] = fd[p]
    BY <1>2, <1>3, <1>8
  <2>2. \A p \in Objects \ {Reader, Writer} : Valid(p) => fd[p] \notin {g, w}
    BY <1>3, <1>7, <1>8 DEF Valid
  <2>3. {g, w} \intersect loose = {}
    BY <1>3, <1>7, <1>8
  <2>4. \A f \in Fds : sock'[f].state # "closed" <=>
          \/ f \in {g, w} \/ f \in loose
          \/ \E p \in Objects \ {Reader, Writer} : fd[p] = f
    BY <1>7, <1>8
  <2>5. BothGet(g, w)
    BY <1>8, <2>1, <2>2, <2>3, <2>4 DEF BothGet
  <2> QED
    BY <1>3, <2>5, NewOwners
<1>9. SockInv'
  <2>1. CASE IsSet(e)
    <3>1. sock' = new /\ fd' = [fd EXCEPT ![Writer] = w, ![Reader] = r]
      BY <1>1, <2>1
    <3> QED
      BY <1>4, <1>8, <3>1
  <2>2. CASE ~ IsSet(e) /\ free = {}
    <3>1. sock' = connected /\ fd' = [fd EXCEPT ![Writer] = w, ![Reader] = Invalid]
      BY <1>1, <2>2
    <3>2. \A f \in Fds : sock'[f].state # "closed" <=> Open(f) \/ f \in {Invalid, w}
      BY <1>3, <1>5, <3>1
    <3> QED
      BY <1>3, <1>5, <1>8, <3>1, <3>2
  <2>3. CASE ~ IsSet(e) /\ free # {}
    <3>1. /\ sock' = [connected EXCEPT ![l] = Paired]
          /\ fd' = [fd EXCEPT ![Writer] = w, ![Reader] = l]
      BY <1>1, <2>3
    <3>2. /\ sock' \in [Fds -> SockRecords]
          /\ \A f \in Fds : sock'[f].state # "closed" <=> Open(f) \/ f \in {l, w}
      BY <1>5, <1>6, <2>3, <3>1, PairedProperties
    <3> QED
      BY <1>6, <1>8, <2>3, <3>1, <3>2
  <2> QED
    BY <2>1, <2>2, <2>3
<1>10. ResultInv'
  <2>1. e.code \notin {"EAGAIN", "EINPROGRESS"}
    BY DEF BindErrors, BindError, Classified, Of, NoError
  <2>2. CASE IsSet(e) /\ ~ throws
    <3>1. Returns("pipe", Reader, Empty, -1, -1, e) /\ Speaks("pipe", Reader, -1, -1, e)
      BY <1>1, <2>1, <2>2 DEF Speaks
    <3> QED
      BY <1>2, <3>1, ReturnsWell DEF Operations
  <2>3. CASE ~ (IsSet(e) /\ ~ throws)
    <3>1. Returns("pipe", Reader, Empty, -1, 1, NoError) /\ Speaks("pipe", Reader, -1, 1, NoError)
      BY <1>1, <2>3 DEF Speaks, NoError, IsSet
    <3> QED
      BY <1>2, <3>1, ReturnsWell DEF Operations
  <2> QED
    BY <2>2, <2>3
<1> QED
  BY <1>9, <1>10

LEMMA NewPipeStep ==
  ASSUME IInv, NewPipe
  PROVE  SockInv' /\ ResultInv'
<1>1. Reader \in Objects /\ SockInv /\ ~ Valid(Reader) /\ ~ Valid(Writer)
  BY DEF Objects, IInv, NewPipe
<1>2. UNCHANGED <<objects, remote, loose>>
  BY DEF NewPipe
<1>3. CASE Cardinality(FreeFds) >= 2 /\ MakePair(NewFd, Lowest(FreeFds \ {NewFd}))
  <2> DEFINE w == Lowest(FreeFds \ {NewFd})
  <2>1. NewFd \in FreeFds /\ w \in FreeFds /\ w # NewFd /\ FreeFds \subseteq Fds
    BY <1>1, <1>3, SecondFree
  <2>2. ~ Open(NewFd) /\ ~ Open(w)
    BY <2>1 DEF FreeFds, FreeIn, Open
  <2>3. MakePair(NewFd, w)
    BY <1>3
  <2> HIDE DEF w
  <2> QED
    BY <1>1, <1>2, <2>1, <2>2, <2>3, MakePairOwners
<1>4. CASE /\ Cardinality(FreeFds) < 2
           /\ \E throws \in BOOLEAN :
                IF throws \/ FreeFds = {} THEN UNCHANGED <<sock, fd>>
                ELSE /\ sock' = [sock EXCEPT ![NewFd] = Fresh("stream")]
                     /\ fd' = [fd EXCEPT ![Reader] = NewFd]
           /\ Returns("pipe", Reader, Empty, -1, -1, NoDescriptor)
  <2>1. SockInv'
    <3>1. CASE UNCHANGED <<sock, fd>>
      BY <1>1, <1>2, <3>1, SameOwners DEF SockInv, objectVars
    <3>2. CASE /\ FreeFds # {}
               /\ sock' = [sock EXCEPT ![NewFd] = Fresh("stream")]
               /\ fd' = [fd EXCEPT ![Reader] = NewFd]
      <4>1. CanCreate(Reader) /\ CreatedFd(Reader) = NewFd /\ sock' = Create(Reader, "stream")
        BY <1>1, <3>2 DEF CanCreate, CreatedFd, Create
      <4>2. sock' \in [Fds -> SockRecords]
        BY <1>1, <4>1, CreateProperties
      <4> QED
        BY <1>1, <1>2, <3>2, <4>1, <4>2, CreateOwned
    <3> QED
      BY <1>4, <3>1, <3>2
  <2>2. Speaks("pipe", Reader, -1, -1, NoDescriptor)
    BY DEF Speaks, NoDescriptor, OpenError, Classified, Of, IsSet
  <2> QED
    BY <1>1, <1>4, <2>1, <2>2, ReturnsWell DEF Operations
<1> QED
  BY <1>3, <1>4 DEF NewPipe

\* The descriptor of a call's socket is switched, bound, given a peer or made to listen.
LEMMA BlockProperties ==
  ASSUME NEW s \in [Fds -> SockRecords], NEW f \in Fds, NEW t \in Int
  PROVE  /\ Block(s, f, t < 0) \in [Fds -> SockRecords]
         /\ t < 0 => ~ Block(s, f, t < 0)[f].nonblock
         /\ \A g \in Fds : Block(s, f, t < 0)[g].state = s[g].state
<1>1. PICK n \in BOOLEAN : n = ~ (t < 0)
  OBVIOUS
<1>2. [s[f] EXCEPT !.nonblock = n] \in SockRecords
  BY DEF SockRecords
<1>3. [s[f] EXCEPT !.nonblock = n].nonblock = n
  BY DEF SockRecords
<1>4. [s[f] EXCEPT !.nonblock = n].state = s[f].state
  BY DEF SockRecords
<1>5. Block(s, f, t < 0) = [s EXCEPT ![f] = [s[f] EXCEPT !.nonblock = n]]
  BY <1>1 DEF Block
<1> QED
  BY <1>1, <1>2, <1>3, <1>4, <1>5

LEMMA BoundProperties ==
  ASSUME NEW s \in [Fds -> SockRecords], NEW f \in Fds
  PROVE  /\ Bound(s, f) \in [Fds -> SockRecords]
         /\ \A g \in Fds : Bound(s, f)[g].state = s[g].state
<1>1. /\ [s[f] EXCEPT !.bound = TRUE] \in SockRecords
      /\ [s[f] EXCEPT !.bound = TRUE].state = s[f].state
  BY DEF SockRecords
<1>2. Bound(s, f) = [s EXCEPT ![f] = [s[f] EXCEPT !.bound = TRUE]]
  BY DEF Bound
<1> QED
  BY <1>1, <1>2

LEMMA ErrorsOfOpening ==
  ASSUME NEW s, NEW f, NEW e \in OpenErrors(s, f) \union BindErrors(s, f)
  PROVE  e.code \notin {"EAGAIN", "EINPROGRESS"}
  BY DEF OpenErrors, ReuseErrors, BindErrors, OptionError, BindError, Classified, Of, NoError

LEMMA AbortsWell ==
  ASSUME call' \in CallRecords, call'.at = "aborted", ret' \in Int
  PROVE  ResultInv'
  BY DEF ResultInv, CallInv, ModeInv, Underway, BlockingCallsWait,
         ConnectReturnsDecided, ErrorTellsFailure

\* Nothing of the kernel's or of the objects' changes.
LEMMA NothingTaken ==
  ASSUME SockInv, UNCHANGED <<sock, objectVars>>
  PROVE  SockInv'
<1>1. sock' \in [Fds -> SockRecords]
  BY DEF SockInv
<1> QED
  BY <1>1, SameOwners

LEMMA TcpConnectStep ==
  ASSUME IInv, NEW o \in TcpSockets, NEW a \in Addresses, NEW t \in Int, TcpConnect(o, a, t)
  PROVE  SockInv' /\ ResultInv'
<1> DEFINE s == Create(o, "stream")
           f == CreatedFd(o)
<1>1. o \in Objects /\ SockInv /\ ResultInv /\ UNCHANGED <<objects, remote, loose>>
  BY DEF Objects, IInv, TcpConnect
<1>2. CASE /\ CanCreate(o)
           /\ call' = Call("connect", o, a, t, "aborted")
           /\ sock' = s /\ fd' = [fd EXCEPT ![o] = f] /\ ret' = ret
  <2>1. SockInv'
    <3>1. s \in [Fds -> SockRecords]
      BY <1>1, <1>2, CreateProperties
    <3> QED
      BY <1>1, <1>2, <3>1, CreateOwned
  <2>2. call' \in CallRecords /\ call'.at = "aborted" /\ ret' \in Int
    BY <1>1, <1>2, CallFields DEF Operations, ResultInv, CallInv
  <2> QED
    BY <2>1, <2>2, AbortsWell
<1>3. CASE Returns("connect", o, a, t, -1, NoDescriptor) /\ UNCHANGED <<sock, fd>>
  <2>1. SockInv'
    BY <1>1, <1>3, NothingTaken DEF objectVars
  <2>2. Speaks("connect", o, t, -1, NoDescriptor)
    BY DEF Speaks, NoDescriptor, OpenError, Classified, Of, IsSet
  <2> QED
    BY <1>1, <1>3, <2>1, <2>2, ReturnsWell DEF Operations
<1>4. ASSUME CanCreate(o), fd' = [fd EXCEPT ![o] = f],
             NEW any \in BOOLEAN, NEW e \in IF any THEN {NoError} ELSE BindErrors(s, f),
             IF IsSet(e)
             THEN sock' = s /\ Returns("connect", o, a, t, -1, e)
             ELSE /\ sock' = Block(IF any THEN s ELSE Bound(s, f), f, t < 0)
                  /\ Proceeds("connect", o, a, t, FALSE)
      PROVE  SockInv' /\ ResultInv'
  <2> DEFINE b == IF any THEN s ELSE Bound(s, f)
  <2>1. s \in [Fds -> SockRecords] /\ f \in Fds
    BY <1>1, <1>4, CreateProperties
  <2>2. b \in [Fds -> SockRecords] /\ \A g \in Fds : b[g].state = s[g].state
    BY <2>1, BoundProperties
  <2>3. fd'[o] = f
    BY <1>1, <1>4 DEF SockInv
  <2> HIDE DEF s, f, b
  <2>4. CASE IsSet(e)
    <3>1. SockInv'
      BY <1>1, <1>4, <2>1, <2>4, CreateOwned DEF s, f
    <3>2. e.code \notin {"EAGAIN", "EINPROGRESS"}
      BY <1>4, ErrorsOfOpening DEF NoError
    <3>3. Speaks("connect", o, t, -1, e)
      BY <2>4, <3>2 DEF Speaks
    <3> QED
      BY <1>1, <1>4, <2>4, <3>1, <3>3, ReturnsWell DEF Operations
  <2>5. CASE ~ IsSet(e)
    <3>1. sock' = Block(b, f, t < 0) /\ Proceeds("connect", o, a, t, FALSE)
      BY <1>4, <2>5 DEF b
    <3>2. /\ sock' \in [Fds -> SockRecords] /\ (t < 0 => ~ sock'[f].nonblock)
          /\ \A g \in Fds : sock'[g].state = s[g].state
      BY <2>1, <2>2, <3>1, BlockProperties
    <3>3. SockInv' /\ Valid(o)'
      BY <1>1, <1>4, <3>2, CreateOwned DEF s, f
    <3>4. t < 0 => ~ Sock(o)'.nonblock
      BY <2>3, <3>2 DEF Sock
    <3> QED
      BY <1>1, <3>1, <3>3, <3>4, ProceedsWell DEF Operations
  <2> QED
    BY <2>4, <2>5
<1>5. \/ /\ CanCreate(o)
         /\ call' = Call("connect", o, a, t, "aborted")
         /\ sock' = s /\ fd' = [fd EXCEPT ![o] = f] /\ ret' = ret
      \/ Returns("connect", o, a, t, -1, NoDescriptor) /\ UNCHANGED <<sock, fd>>
      \/ /\ CanCreate(o) /\ fd' = [fd EXCEPT ![o] = f]
         /\ \E any \in BOOLEAN :
              \E e \in IF any THEN {NoError} ELSE BindErrors(s, f) :
                IF IsSet(e)
                THEN sock' = s /\ Returns("connect", o, a, t, -1, e)
                ELSE /\ sock' = Block(IF any THEN s ELSE Bound(s, f), f, t < 0)
                     /\ Proceeds("connect", o, a, t, FALSE)
  BY DEF TcpConnect, AnyOutcomes
<1> QED
  BY <1>2, <1>3, <1>4, <1>5

\* A call that only returns, and one that first switches the mode of its socket.
LEMMA OnlyReturns ==
  ASSUME IInv, NEW op \in Operations, NEW o \in Objects, NEW a \in Addresses \union {Empty},
         NEW t \in Int, NEW r, NEW e, Returns(op, o, a, t, r, e),
         Speaks(op, o, t, r, e), op # "connect" \/ r = -1, UNCHANGED <<sock, objectVars>>
  PROVE  SockInv' /\ ResultInv'
<1>1. SockInv'
  BY NothingTaken DEF IInv
<1> QED
  BY <1>1, ReturnsWell

LEMMA Switches ==
  ASSUME SockInv, NEW o \in Objects, Valid(o), NEW t \in Int,
         sock' = Block(sock, fd[o], t < 0), UNCHANGED objectVars
  PROVE  SockInv' /\ Valid(o)' /\ (t < 0 => ~ Sock(o)'.nonblock)
<1>1. fd[o] \in Fds /\ sock \in [Fds -> SockRecords] /\ fd' = fd
  BY DEF SockInv, Valid, objectVars
<1>2. /\ sock' \in [Fds -> SockRecords] /\ (t < 0 => ~ sock'[fd[o]].nonblock)
      /\ \A g \in Fds : sock'[g].state = sock[g].state
  BY <1>1, BlockProperties
<1>3. SockInv'
  BY <1>2, SameOwners
<1> QED
  BY <1>1, <1>2, <1>3 DEF Valid, Sock

LEMMA SwitchesAndGoesOn ==
  ASSUME IInv, NEW op \in Operations, NEW o \in Objects, Valid(o), NEW t \in Int,
         sock' = Block(sock, fd[o], t < 0), UNCHANGED objectVars,
         NEW waits \in BOOLEAN, Proceeds(op, o, Empty, t, waits),
         op = "accept" => o \in Acceptors
  PROVE  SockInv' /\ ResultInv'
<1>1. SockInv' /\ Valid(o)' /\ (t < 0 => ~ Sock(o)'.nonblock)
  BY Switches DEF IInv
<1> QED
  BY <1>1, ProceedsWell

LEMMA TcpSendStep ==
  ASSUME IInv, NEW o \in TcpSockets, NEW t \in Int, TcpSend(o, t)
  PROVE  SockInv' /\ ResultInv'
<1>1. o \in Objects /\ UNCHANGED objectVars
  BY DEF Objects, TcpSend
<1>2. CASE Valid(o)
  <2>1. sock' = Block(sock, fd[o], t < 0) /\ Proceeds("send", o, Empty, t, TRUE)
    BY <1>2 DEF TcpSend
  <2> QED
    BY <1>1, <1>2, <2>1, SwitchesAndGoesOn DEF Operations
<1>3. CASE ~ Valid(o)
  <2>1. Returns("send", o, Empty, t, -1, NotOpen) /\ UNCHANGED sock
    BY <1>3 DEF TcpSend
  <2>2. Speaks("send", o, t, -1, NotOpen)
    BY DEF Speaks, NotOpen, ControlError, Classified, Of, IsSet
  <2> QED
    BY <1>1, <2>1, <2>2, OnlyReturns DEF Operations
<1> QED
  BY <1>2, <1>3

LEMMA TcpReceiveStep ==
  ASSUME IInv, NEW o \in TcpSockets, NEW t \in Int, TcpReceive(o, t)
  PROVE  SockInv' /\ ResultInv'
<1>1. o \in Objects /\ UNCHANGED objectVars
  BY DEF Objects, TcpReceive
<1>2. CASE inbox < InSize /\ Valid(o)
  <2>1. sock' = Block(sock, fd[o], t < 0) /\ Proceeds("receive", o, Empty, t, TRUE)
    BY <1>2 DEF TcpReceive
  <2> QED
    BY <1>1, <1>2, <2>1, SwitchesAndGoesOn DEF Operations
<1>3. CASE ~ (inbox < InSize /\ Valid(o))
  <2>1. PICK e \in {NotOpen, Of("runtime", "ENOBUFS")} :
          Returns("receive", o, Empty, t, -1, e) /\ UNCHANGED sock
    BY <1>3 DEF TcpReceive
  <2>2. Speaks("receive", o, t, -1, e)
    BY DEF Speaks, NotOpen, ControlError, Classified, Of, IsSet
  <2> QED
    BY <1>1, <2>1, <2>2, OnlyReturns DEF Operations
<1> QED
  BY <1>2, <1>3

LEMMA UdpSendStep ==
  ASSUME IInv, NEW o \in UdpSockets, NEW t \in Int, UdpSend(o, t)
  PROVE  SockInv' /\ ResultInv'
<1>1. o \in Objects /\ UNCHANGED objectVars
  BY DEF Objects, UdpSend
<1>2. CASE Valid(o) /\ sock' = Block(sock, fd[o], t < 0) /\ Proceeds("send", o, Empty, t, FALSE)
  BY <1>1, <1>2, SwitchesAndGoesOn DEF Operations
<1>3. CASE /\ Valid(o) /\ sock' = Block(sock, fd[o], t < 0)
           /\ Returns("send", o, Empty, t, -1, NoError)
  <2>1. Speaks("send", o, t, -1, NoError)
    BY DEF Speaks, NoError
  <2>2. SockInv'
    BY <1>1, <1>3, Switches DEF IInv
  <2> QED
    BY <1>1, <1>3, <2>1, <2>2, ReturnsWell DEF Operations
<1>4. CASE ~ Valid(o)
  <2>1. PICK e \in {NotOpen, SendError("EBADF")} :
          Returns("send", o, Empty, t, -1, e) /\ UNCHANGED sock
    BY <1>4 DEF UdpSend
  <2>2. Speaks("send", o, t, -1, e)
    BY DEF Speaks, NotOpen, ControlError, SendError, Classified, Of, IsSet
  <2> QED
    BY <1>1, <2>1, <2>2, OnlyReturns DEF Operations
<1> QED
  BY <1>2, <1>3, <1>4 DEF UdpSend

\* Receive without a timeout leaves a descriptor that does not block; that such a call
\* is not made is the assumption of ModeInv.
LEMMA UdpReceiveStep ==
  ASSUME IInv, NEW o \in UdpSockets, NEW t \in Int, NEW op \in {"receive", "receivefrom"},
         UdpReceive(o, t, op)
  PROVE  SockInv' /\ ResultInv'
<1>1. o \in Objects /\ op \in Operations /\ UNCHANGED objectVars
  BY DEF Objects, Operations, UdpReceive
<1>2. CASE inbox < InSize /\ Valid(o)
  <2> DEFINE u == IF op = "receivefrom" THEN t ELSE 0
  <2>1. /\ sock' = Block(sock, fd[o], op = "receivefrom" /\ t < 0)
        /\ Proceeds(op, o, Empty, t, TRUE)
    BY <1>2 DEF UdpReceive
  <2>2. u \in Int /\ (u < 0 <=> op = "receivefrom" /\ t < 0)
    OBVIOUS
  <2>3. sock' = Block(sock, fd[o], u < 0)
    BY <2>1, <2>2 DEF Block
  <2>4. ~ NegativeReceive /\ t < 0 => u < 0
    BY <2>2 DEF UdpReceive
  <2> HIDE DEF u
  <2>5. SockInv' /\ Valid(o)' /\ (u < 0 => ~ Sock(o)'.nonblock)
    BY <1>1, <1>2, <2>2, <2>3, Switches DEF IInv
  <2> QED
    BY <1>1, <2>1, <2>4, <2>5, ProceedsWell
<1>3. CASE ~ (inbox < InSize /\ Valid(o))
  <2>1. PICK e \in {NotOpen, Of("runtime", "ENOBUFS")} :
          Returns(op, o, Empty, t, -1, e) /\ UNCHANGED sock
    BY <1>3 DEF UdpReceive
  <2>2. Speaks(op, o, t, -1, e)
    BY DEF Speaks, NotOpen, ControlError, Classified, Of, IsSet
  <2> QED
    BY <1>1, <2>1, <2>2, OnlyReturns
<1> QED
  BY <1>2, <1>3

LEMMA AcceptStep ==
  ASSUME IInv, NEW o \in Acceptors, NEW t \in Int, Accept(o, t)
  PROVE  SockInv' /\ ResultInv'
<1>1. o \in Objects /\ UNCHANGED objectVars
  BY DEF Objects, Accept
<1>2. CASE Valid(o)
  <2>1. sock' = Block(sock, fd[o], t < 0) /\ Proceeds("accept", o, Empty, t, TRUE)
    BY <1>2 DEF Accept
  <2> QED
    BY <1>1, <1>2, <2>1, SwitchesAndGoesOn DEF Operations
<1>3. CASE ~ Valid(o)
  <2>1. Returns("accept", o, Empty, t, -1, NotOpen) /\ UNCHANGED sock
    BY <1>3 DEF Accept
  <2>2. Speaks("accept", o, t, -1, NotOpen)
    BY DEF Speaks, NotOpen, ControlError, Classified, Of, IsSet
  <2> QED
    BY <1>1, <2>1, <2>2, OnlyReturns DEF Operations
<1> QED
  BY <1>2, <1>3

LEMMA UdpOpenStep ==
  ASSUME IInv, NEW o \in UdpSockets, NEW a \in Addresses \union {Empty}, UdpOpen(o, a)
  PROVE  SockInv' /\ ResultInv'
<1> DEFINE s == Create(o, "dgram")
           f == CreatedFd(o)
<1>1. o \in Objects /\ SockInv /\ UNCHANGED <<objects, remote, loose>>
  BY DEF Objects, IInv, UdpOpen
<1>2. ASSUME NEW e \in {Of("logic", "EINVAL"), NoDescriptor},
             Returns("open", o, a, -1, -1, e), UNCHANGED <<sock, fd>>
      PROVE  SockInv' /\ ResultInv'
  <2>1. Speaks("open", o, -1, -1, e)
    BY DEF Speaks, NoDescriptor, OpenError, Classified, Of, IsSet
  <2> QED
    BY <1>1, <1>2, <2>1, OnlyReturns DEF Operations, objectVars
<1>3. ASSUME CanCreate(o), fd' = [fd EXCEPT ![o] = f], NEW e \in OpenErrors(s, f),
             sock' = IF IsSet(e) THEN s ELSE Bound(s, f),
             Returns("open", o, a, -1, IF IsSet(e) THEN -1 ELSE 1, e)
      PROVE  SockInv' /\ ResultInv'
  <2>1. s \in [Fds -> SockRecords] /\ f \in Fds
    BY <1>1, <1>3, CreateProperties
  <2>2. e.code \notin {"EAGAIN", "EINPROGRESS"}
    BY ErrorsOfOpening
  <2> HIDE DEF s, f
  <2>3. sock' \in [Fds -> SockRecords] /\ \A g \in Fds : sock'[g].state = s[g].state
    BY <1>3, <2>1, BoundProperties
  <2>4. SockInv'
    BY <1>1, <1>3, <2>3, CreateOwned DEF s, f
  <2>5. Speaks("open", o, -1, IF IsSet(e) THEN -1 ELSE 1, e)
    BY <2>2 DEF Speaks
  <2> QED
    BY <1>1, <1>3, <2>4, <2>5, ReturnsWell DEF Operations
<1> QED
  BY <1>2, <1>3 DEF UdpOpen

LEMMA UdpConnectStep ==
  ASSUME IInv, NEW o \in UdpSockets, NEW a \in Addresses \union {Empty}, UdpConnect(o, a)
  PROVE  SockInv' /\ ResultInv'
<1> DEFINE s == Create(o, "dgram")
           f == CreatedFd(o)
<1>1. o \in Objects /\ SockInv /\ UNCHANGED <<objects, remote, loose>>
  BY DEF Objects, IInv, UdpConnect
<1>2. CASE CanCreate(o) /\ (a = Empty => Valid(o))
  <2>1. /\ fd' = [fd EXCEPT ![o] = f] /\ sock' = [s EXCEPT ![f].peer = a]
        /\ Returns("associate", o, a, -1, 1, NoError)
    BY <1>2 DEF UdpConnect
  <2>2. s \in [Fds -> SockRecords] /\ f \in Fds
    BY <1>1, <1>2, CreateProperties
  <2> HIDE DEF s, f
  <2>3. sock' \in [Fds -> SockRecords] /\ \A g \in Fds : sock'[g].state = s[g].state
    <3>1. /\ [s[f] EXCEPT !.peer = a] \in SockRecords
          /\ [s[f] EXCEPT !.peer = a].state = s[f].state
      BY <2>2 DEF SockRecords
    <3> QED
      BY <2>1, <2>2, <3>1
  <2>4. SockInv'
    BY <1>1, <1>2, <2>1, <2>3, CreateOwned DEF s, f
  <2>5. Speaks("associate", o, -1, 1, NoError)
    BY DEF Speaks, NoError, IsSet
  <2> QED
    BY <1>1, <2>1, <2>4, <2>5, ReturnsWell DEF Operations
<1>3. CASE ~ (CanCreate(o) /\ (a = Empty => Valid(o)))
  <2>1. PICK e \in {NoDescriptor, OpenError("EAFNOSUPPORT")} :
          Returns("associate", o, a, -1, -1, e) /\ UNCHANGED <<sock, fd>>
    BY <1>3 DEF UdpConnect
  <2>2. Speaks("associate", o, -1, -1, e)
    BY DEF Speaks, NoDescriptor, OpenError, Classified, Of, IsSet
  <2> QED
    BY <1>1, <2>1, <2>2, OnlyReturns DEF Operations, objectVars
<1> QED
  BY <1>2, <1>3

LEMMA UdpSendToStep ==
  ASSUME IInv, NEW o \in UdpSockets, NEW a \in Addresses \union {Empty}, NEW t \in Int,
         UdpSendTo(o, a, t)
  PROVE  SockInv' /\ ResultInv'
<1> DEFINE s == Create(o, "dgram")
           f == CreatedFd(o)
<1>1. o \in Objects /\ SockInv /\ UNCHANGED <<objects, remote, loose>>
  BY DEF Objects, IInv, UdpSendTo
<1>2. CASE a = Empty \/ ~ CanCreate(o)
  <2>1. PICK e \in {Of("logic", "EINVAL"), NoDescriptor} :
          Returns("sendto", o, a, t, 0, e) /\ UNCHANGED <<sock, fd>>
    BY <1>2 DEF UdpSendTo
  <2>2. Speaks("sendto", o, t, 0, e)
    BY DEF Speaks, NoDescriptor, OpenError, Classified, Of
  <2> QED
    BY <1>1, <2>1, <2>2, OnlyReturns DEF Operations, objectVars
<1>3. CASE a # Empty /\ CanCreate(o)
  <2>1. /\ fd' = [fd EXCEPT ![o] = f] /\ sock' = Block(s, f, t < 0)
        /\ IF t < 0 THEN Proceeds("sendto", o, a, t, FALSE)
                    ELSE Returns("sendto", o, a, t, -1, NoError)
    BY <1>3 DEF UdpSendTo
  <2>2. s \in [Fds -> SockRecords] /\ f \in Fds
    BY <1>1, <1>3, CreateProperties
  <2>3. fd'[o] = f
    BY <1>1, <2>1 DEF SockInv
  <2> HIDE DEF s, f
  <2>4. /\ sock' \in [Fds -> SockRecords] /\ (t < 0 => ~ sock'[f].nonblock)
        /\ \A g \in Fds : sock'[g].state = s[g].state
    BY <2>1, <2>2, BlockProperties
  <2>5. SockInv' /\ Valid(o)'
    BY <1>1, <1>3, <2>1, <2>4, CreateOwned DEF s, f
  <2>6. t < 0 => ~ Sock(o)'.nonblock
    BY <2>3, <2>4 DEF Sock
  <2>7. Speaks("sendto", o, t, -1, NoError)
    BY DEF Speaks, NoError
  <2>8. CASE t < 0
    BY <1>1, <2>1, <2>5, <2>6, <2>8, ProceedsWell DEF Operations
  <2>9. CASE ~ (t < 0)
    BY <1>1, <2>1, <2>5, <2>7, <2>9, ReturnsWell DEF Operations
  <2> QED
    BY <2>8, <2>9
<1> QED
  BY <1>2, <1>3

LEMMA AcceptorOpenStep ==
  ASSUME IInv, NEW o \in Acceptors, NEW a \in Addresses \union {Empty}, AcceptorOpen(o, a)
  PROVE  SockInv' /\ ResultInv'
<1> DEFINE s == Create(o, "stream")
           f == CreatedFd(o)
<1>1. o \in Objects /\ SockInv /\ UNCHANGED <<objects, remote, loose>>
  BY DEF Objects, IInv, AcceptorOpen
<1>2. ASSUME NEW e \in {Of("logic", "EINVAL"), NoDescriptor},
             Returns("open", o, a, -1, -1, e), UNCHANGED <<sock, fd>>
      PROVE  SockInv' /\ ResultInv'
  <2>1. Speaks("open", o, -1, -1, e)
    BY DEF Speaks, NoDescriptor, OpenError, Classified, Of, IsSet
  <2> QED
    BY <1>1, <1>2, <2>1, OnlyReturns DEF Operations, objectVars
<1>3. ASSUME CanCreate(o), fd' = [fd EXCEPT ![o] = f],
             NEW r \in Int, NEW e, e.code \notin {"EAGAIN", "EINPROGRESS"},
             Returns("open", o, a, -1, r, e),
             sock' \in {s, Bound(s, f), [Bound(s, f) EXCEPT ![f].state = "listening"]}
      PROVE  SockInv' /\ ResultInv'
  <2>1. /\ s \in [Fds -> SockRecords] /\ f \in Fds /\ s[f].state # "closed"
        /\ Bound(s, f) \in [Fds -> SockRecords]
        /\ \A g \in Fds : Bound(s, f)[g].state = s[g].state
    BY <1>1, <1>3, CreateProperties, BoundProperties
  <2> DEFINE b == Bound(s, f)
  <2> HIDE DEF s, f, b
  <2>2. /\ [b EXCEPT ![f].state = "listening"] \in [Fds -> SockRecords]
        /\ \A g \in Fds : [b EXCEPT ![f].state = "listening"][g].state # "closed" <=>
                          b[g].state # "closed"
    <3>1. /\ [b[f] EXCEPT !.state = "listening"] \in SockRecords
          /\ [b[f] EXCEPT !.state = "listening"].state = "listening"
      BY <2>1 DEF SockRecords, b
    <3> QED
      BY <2>1, <3>1 DEF b
  <2>3. /\ sock' \in [Fds -> SockRecords]
        /\ \A g \in Fds : sock'[g].state # "closed" <=> s[g].state # "closed"
    BY <1>3, <2>1, <2>2 DEF b
  <2>4. SockInv'
    BY <1>1, <1>3, <2>3, CreateOwned DEF s, f
  <2>5. Speaks("open", o, -1, r, e)
    BY <1>3 DEF Speaks
  <2> QED
    BY <1>1, <1>3, <2>4, <2>5, ReturnsWell DEF Operations
<1>4. ASSUME CanCreate(o), fd' = [fd EXCEPT ![o] = f],
             NEW e \in OpenErrors(s, f), sock' = s, Returns("open", o, a, -1, -1, e)
      PROVE  SockInv' /\ ResultInv'
  <2>1. e.code \notin {"EAGAIN", "EINPROGRESS"}
    BY ErrorsOfOpening
  <2> QED
    BY <1>3, <1>4, <2>1
<1>5. ASSUME CanCreate(o), fd' = [fd EXCEPT ![o] = f], NEW listens \in BOOLEAN,
             sock' = IF listens THEN [Bound(s, f) EXCEPT ![f].state = "listening"] ELSE Bound(s, f),
             Returns("open", o, a, -1, IF listens THEN 1 ELSE -1,
                     IF listens THEN NoError ELSE ListenError("EADDRINUSE"))
      PROVE  SockInv' /\ ResultInv'
  <2>1. Returns("open", o, a, -1, IF listens THEN 1 ELSE -1, NoError)
    BY <1>5 DEF ListenError
  <2>2. NoError.code \notin {"EAGAIN", "EINPROGRESS"}
    BY DEF NoError
  <2>3. sock' \in {s, Bound(s, f), [Bound(s, f) EXCEPT ![f].state = "listening"]}
    BY <1>5
  <2> QED
    BY <1>3, <1>5, <2>1, <2>2, <2>3
<1> QED
  BY <1>2, <1>4, <1>5 DEF AcceptorOpen

-----------------------------------------------------------------------------
(* The call under way, the kernel and the caller.                          *)

LEMMA UnderwayOpen ==
  ASSUME IInv, Underway
  PROVE  /\ call.obj \in Objects /\ fd[call.obj] \in Fds
         /\ sock[fd[call.obj]] \in SockRecords /\ sock[fd[call.obj]].state # "closed"
         /\ sock \in [Fds -> SockRecords]
<1>1. call.obj \in Objects /\ Valid(call.obj)
  BY DEF IInv, ResultInv, CallInv, CallRecords
<1>2. fd[call.obj] \in Fds
  BY <1>1 DEF IInv, SockInv, Valid
<1> QED
  BY <1>1, <1>2 DEF IInv, SockInv, DescriptorsOwned, Open

\* One of the kernel's sockets changes, and stays open or closed.
LEMMA OneChanges ==
  ASSUME SockInv, NEW f \in Fds, NEW r \in SockRecords, sock' = [sock EXCEPT ![f] = r],
         r.state = "closed" <=> sock[f].state = "closed", UNCHANGED objectVars
  PROVE  SockInv' /\ sock'[f] = r /\ fd' = fd
<1>1. sock \in [Fds -> SockRecords]
  BY DEF SockInv
<1>2. /\ sock' \in [Fds -> SockRecords] /\ sock'[f] = r
      /\ \A g \in Fds : sock'[g].state = "closed" <=> sock[g].state = "closed"
  BY <1>1
<1> QED
  BY <1>2, SameOwners DEF objectVars

\* The call goes on, in the mode it had.
LEMMA GoesOnWell ==
  ASSUME ResultInv, Underway, call' \in CallRecords, ret' \in Int, fd' = fd,
         call'.op = call.op, call'.obj = call.obj, call'.timeout = call.timeout,
         call'.at \in {"wait", "io"}, call.timeout < 0 => call'.at = "io",
         sock'[fd[call.obj]].nonblock = sock[fd[call.obj]].nonblock
  PROVE  ResultInv'
<1>1. CallInv'
  <2>1. Valid(call.obj)'
    BY DEF ResultInv, CallInv, Valid
  <2> QED
    BY <2>1 DEF ResultInv, CallInv, Underway
<1>2. ModeInv'
  <2>1. BlockingCallsWait'
    BY DEF BlockingCallsWait
  <2>2. Sock(call.obj)'.nonblock = Sock(call.obj).nonblock
    BY DEF Sock
  <2> QED
    BY <2>1, <2>2 DEF ResultInv, ModeInv, Underway
<1>3. ConnectReturnsDecided' /\ ErrorTellsFailure'
  BY DEF ConnectReturnsDecided, ErrorTellsFailure
<1> QED
  BY <1>1, <1>2, <1>3 DEF ResultInv

\* Its socket is in blocking mode if it has no timeout.
LEMMA ModeOfUnderway ==
  ASSUME IInv, Underway, Sock(call.obj).nonblock
  PROVE  ~ (~ NegativeReceive /\ call.timeout < 0)
  BY DEF IInv, ResultInv, ModeInv

LEMMA ConnectStartStep ==
  ASSUME IInv, ConnectStart
  PROVE  SockInv' /\ ResultInv'
<1> DEFINE f == fd[call.obj]
           x == [sock[f] EXCEPT !.state = "connecting", !.peer = call.addr]
           y == [sock[f] EXCEPT !.state = "connected", !.peer = call.addr, !.space = MaxReady]
<1>1. Underway /\ call.at = "io" /\ call.op = "connect" /\ UNCHANGED objectVars
  BY DEF ConnectStart, Underway
<1>2. /\ SockInv /\ ResultInv /\ call \in CallRecords /\ call.addr \in Addresses \union {Empty}
      /\ ret \in Int
  BY DEF IInv, ResultInv, CallInv, CallRecords
<1>3. f \in Fds /\ sock[f] \in SockRecords /\ sock[f].state # "closed" /\ sock \in [Fds -> SockRecords]
  BY <1>1, UnderwayOpen
<1>4. /\ x \in SockRecords /\ x.state = "connecting" /\ x.nonblock = sock[f].nonblock
      /\ y \in SockRecords /\ y.state = "connected"
  <2>1. MaxReady \in 0 .. MaxReady
    BY SocketsAssumption
  <2> QED
    BY <1>2, <1>3, <2>1 DEF SockRecords
<1>5. CASE /\ sock' = [sock EXCEPT ![f].state = "connecting", ![f].peer = call.addr]
           /\ IF Sock(call.obj).nonblock
              THEN IF call.timeout > 0 /\ ~ Asserts
                   THEN /\ call' = [call EXCEPT !.at = "wait"]
                        /\ err' = ConnectError("EINPROGRESS")
                        /\ UNCHANGED ret
                   ELSE Fails(ConnectError("EINPROGRESS"), ConnectAsserts)
              ELSE UNCHANGED callVars
  <2>1. sock' = [sock EXCEPT ![f] = x]
    BY <1>3, <1>5
  <2>2. SockInv' /\ sock'[f] = x /\ fd' = fd
    <3> HIDE DEF f, x
    <3> QED
      BY <1>1, <1>2, <1>3, <1>4, <2>1, OneChanges
  <2>3. sock'[f].nonblock = sock[f].nonblock
    BY <1>4, <2>2
  <2>4. CASE /\ call' = [call EXCEPT !.at = "wait"] /\ ret' = ret /\ call.timeout > 0
    <3>1. /\ call' \in CallRecords /\ call'.op = call.op /\ call'.obj = call.obj
          /\ call'.timeout = call.timeout /\ call'.at = "wait"
      BY <1>2, <2>4 DEF CallRecords
    <3>2. ~ (call.timeout < 0)
      BY <1>2, <2>4 DEF CallRecords
    <3> QED
      BY <1>1, <1>2, <2>2, <2>3, <2>4, <3>1, <3>2, GoesOnWell
  <2>5. CASE Sock(call.obj).nonblock /\ Fails(ConnectError("EINPROGRESS"), ConnectAsserts)
    <3>1. IsSet(ConnectError("EINPROGRESS"))
      BY DEF ConnectError, Classified, Of, IsSet
    <3> QED
      BY <1>1, <1>2, <2>2, <2>5, <3>1, ModeOfUnderway, FailsWell
  <2>6. CASE UNCHANGED callVars
    BY <1>1, <1>2, <2>2, <2>3, <2>6, GoesOnWell DEF callVars
  <2> QED
    BY <1>5, <2>2, <2>4, <2>5, <2>6
<1>6. CASE /\ sock' = [sock EXCEPT ![f].state = "connected", ![f].peer = call.addr,
                                   ![f].space = MaxReady]
           /\ Done(1, NoError)
  <2>1. sock' = [sock EXCEPT ![f] = y]
    BY <1>3, <1>6
  <2>2. SockInv' /\ sock'[f] = y /\ fd' = fd
    <3> HIDE DEF f, y
    <3> QED
      BY <1>1, <1>2, <1>3, <1>4, <2>1, OneChanges
  <2>3. Speaks(call.op, call.obj, call.timeout, 1, NoError)
    BY DEF Speaks, NoError, IsSet
  <2>4. sock'[fd'[call.obj]].state # "connecting"
    BY <1>4, <2>2
  <2> QED
    BY <1>2, <1>6, <2>2, <2>3, <2>4, DoneWell
<1> QED
  BY <1>5, <1>6 DEF ConnectStart

\* The system call fails and leaves the kernel's sockets, or takes the refusal of a
\* connection back; it says that it should be tried again in non-blocking mode only.
LEMMA IOFails ==
  ASSUME IInv, Underway, UNCHANGED objectVars,
         NEW f, f = fd[call.obj], NEW e, NEW asserted, Fails(e, asserted), IsSet(e),
         \/ e.code \notin {"EAGAIN", "EINPROGRESS"}
         \/ sock[f].nonblock,
         \/ UNCHANGED sock
         \/ sock' = [sock EXCEPT ![f].state = "new"]
  PROVE  SockInv' /\ ResultInv'
<1>1. /\ SockInv /\ ResultInv /\ f \in Fds /\ sock[f] \in SockRecords /\ sock[f].state # "closed"
      /\ sock \in [Fds -> SockRecords]
  BY UnderwayOpen DEF IInv
<1>2. SockInv'
  <2>1. CASE UNCHANGED sock
    BY <1>1, <2>1, NothingTaken
  <2>2. CASE sock' = [sock EXCEPT ![f].state = "new"]
    <3> DEFINE r == [sock[f] EXCEPT !.state = "new"]
    <3>1. r \in SockRecords /\ r.state = "new"
      BY <1>1 DEF SockRecords
    <3>2. sock' = [sock EXCEPT ![f] = r]
      BY <1>1, <2>2
    <3> HIDE DEF r
    <3> QED
      BY <1>1, <3>1, <3>2, OneChanges
  <2> QED
    BY <2>1, <2>2
<1>3. ~ NegativeReceive /\ call.timeout < 0 => e.code \notin {"EAGAIN", "EINPROGRESS"}
  BY ModeOfUnderway DEF Sock
<1>4. ResultInv'
  BY <1>1, <1>3, FailsWell
<1> QED
  BY <1>2, <1>4

\* It ends well, and leaves another record of its socket.
LEMMA IODone ==
  ASSUME IInv, Underway, UNCHANGED objectVars, NEW f, f = fd[call.obj],
         NEW n \in Int, n # -1, Done(n, NoError), NEW r \in SockRecords,
         sock' = [sock EXCEPT ![f] = r], r.state # "closed",
         call.op = "connect" => r.state # "connecting"
  PROVE  SockInv' /\ ResultInv'
<1>1. SockInv /\ ResultInv /\ f \in Fds /\ sock[f].state # "closed"
  BY UnderwayOpen DEF IInv
<1>2. SockInv' /\ sock'[f] = r /\ fd' = fd
  BY <1>1, OneChanges
<1>3. Speaks(call.op, call.obj, call.timeout, n, NoError)
  BY DEF Speaks, NoError, IsSet
<1>4. call.op = "connect" /\ n = 1 => sock'[fd'[call.obj]].state # "connecting"
  BY <1>2
<1> QED
  BY <1>1, <1>2, <1>3, <1>4, DoneWell

LEMMA ConnectAgainStep ==
  ASSUME IInv, ConnectAgain
  PROVE  SockInv' /\ ResultInv'
<1> DEFINE f == fd[call.obj]
<1>1. Underway /\ UNCHANGED objectVars
  BY DEF ConnectAgain, Underway
<1>2. sock[f] \in SockRecords /\ sock \in [Fds -> SockRecords] /\ f \in Fds
  BY <1>1, UnderwayOpen
<1>3. ASSUME NEW code \in {"EALREADY", "EISCONN", "ECONNREFUSED"},
             Fails(ConnectError(code), ConnectAsserts),
             UNCHANGED sock \/ sock' = [sock EXCEPT ![f].state = "new"]
      PROVE  SockInv' /\ ResultInv'
  <2>1. /\ IsSet(ConnectError(code))
        /\ ConnectError(code).code \notin {"EAGAIN", "EINPROGRESS"}
    BY DEF ConnectError, Classified, Of, IsSet
  <2> QED
    BY <1>1, <1>3, <2>1, IOFails
<1>4. CASE sock' = [sock EXCEPT ![f].state = "connected"] /\ Done(1, NoError)
  <2> DEFINE r == [sock[f] EXCEPT !.state = "connected"]
  <2>1. r \in SockRecords /\ r.state = "connected" /\ sock' = [sock EXCEPT ![f] = r]
    BY <1>2, <1>4 DEF SockRecords
  <2>2. 1 \in Int /\ 1 # -1
    OBVIOUS
  <2>3. r.state # "closed" /\ r.state # "connecting"
    BY <2>1
  <2> HIDE DEF r
  <2> QED
    BY <1>1, <1>4, <2>1, <2>2, <2>3, IODone
<1> QED
  BY <1>3, <1>4 DEF ConnectAgain

\* The new socket is the caller's; the acceptor's has one peer less waiting.
LEMMA AcceptIOStep ==
  ASSUME IInv, AcceptIO
  PROVE  SockInv' /\ ResultInv'
<1> DEFINE f == fd[call.obj]
<1>1. /\ Underway /\ call.op = "accept" /\ UNCHANGED <<objects, fd, remote>>
      /\ SockInv /\ ResultInv /\ call.obj \in Acceptors
  BY DEF AcceptIO, Underway, IInv, ResultInv, CallInv
<1>2. /\ f \in Fds /\ sock[f] \in SockRecords /\ sock[f].state # "closed"
      /\ sock \in [Fds -> SockRecords]
  BY <1>1, UnderwayOpen
<1>3. ASSUME NEW n \in Int, NEW code, Done(n, AcceptError(code)) PROVE ResultInv'
  <2>1. Speaks(call.op, call.obj, call.timeout, n, NoError) /\ Done(n, NoError)
    BY <1>1, <1>3 DEF Speaks, NoError, AcceptError
  <2> QED
    BY <1>1, <2>1, DoneWell
<1>4. CASE /\ sock[f].ready > 0 /\ FreeFds # {}
           /\ \E a \in Addresses :
                sock' = [sock EXCEPT ![f].ready = @ - 1,
                                     ![NewFd] = [Fresh("stream") EXCEPT !.state = "connected",
                                                   !.peer = a, !.space = MaxReady]]
           /\ loose' = loose \union {NewFd}
           /\ Done(NewFd, NoError)
  <2>1. NewFd \in Fds /\ ~ Open(NewFd) /\ NewFd # f /\ NewFd \in Int
    <3>1. NewFd \in Fds /\ ~ Open(NewFd)
      BY <1>1, <1>2, <1>4, FreeProperties DEF FreeFds, NewFd, Open
    <3> QED
      BY <1>2, <3>1, SocketsAssumption DEF Open
  <2>2. PICK a \in Addresses :
          sock' = [sock EXCEPT ![f].ready = @ - 1,
                               ![NewFd] = [Fresh("stream") EXCEPT !.state = "connected",
                                             !.peer = a, !.space = MaxReady]]
    BY <1>4
  <2> DEFINE r == [sock[f] EXCEPT !.ready = @ - 1]
             q == [Fresh("stream") EXCEPT !.state = "connected", !.peer = a, !.space = MaxReady]
  <2>3. r \in SockRecords /\ r.state = sock[f].state
    <3>1. sock[f].ready - 1 \in 0 .. MaxReady
      BY <1>2, <1>4, SocketsAssumption DEF SockRecords
    <3> QED
      BY <1>2, <3>1 DEF SockRecords
  <2>4. q \in SockRecords /\ q.state = "connected"
    <3>1. MaxReady \in 0 .. MaxReady
      BY SocketsAssumption
    <3> QED
      BY <3>1, PairedProperties DEF SockRecords
  <2>5. sock' = [sock EXCEPT ![f] = r, ![NewFd] = q]
    BY <1>2, <2>1, <2>2
  <2> HIDE DEF f, r, q
  <2>6. /\ sock' \in [Fds -> SockRecords]
        /\ \A g \in Fds : sock'[g].state # "closed" <=> Open(g) \/ g = NewFd
    BY <1>2, <2>1, <2>3, <2>4, <2>5 DEF Open
  <2>7. DescriptorsOwned'
    <3>1. \A g \in Fds : Open(g)' <=> g \in loose' \/ \E o \in Objects : fd'[o] = g
      BY <1>1, <1>4, <2>6 DEF SockInv, DescriptorsOwned, Open
    <3>2. \A o \in Objects : fd'[o] \notin loose'
      BY <1>1, <1>4, <2>1 DEF SockInv, DescriptorsOwned
    <3> QED
      BY <1>1, <3>1, <3>2 DEF SockInv, DescriptorsOwned, Valid
  <2>8. SockInv'
    BY <1>1, <1>4, <2>1, <2>6, <2>7 DEF SockInv
  <2>9. Done(NewFd, AcceptError("OK"))
    BY <1>4 DEF AcceptError
  <2> QED
    BY <1>3, <2>1, <2>8, <2>9
<1>5. ASSUME NEW code, Done(-1, AcceptError(code)), UNCHANGED <<sock, loose>>
      PROVE  SockInv' /\ ResultInv'
  <2>1. ResultInv'
    BY <1>3, <1>5
  <2> QED
    BY <1>1, <1>5, <2>1, NothingTaken DEF objectVars
<1> QED
  BY <1>4, <1>5 DEF AcceptIO

\* What ::send takes is there to be taken, and a stream has room for it.
LEMMA SendsProperties ==
  ASSUME NEW f, sock[f] \in SockRecords, outbox \in Nat, NEW n \in Sends(f)
  PROVE  /\ n \in 0 .. outbox
         /\ sock[f].type # "dgram" => n <= sock[f].space
<1>1. sock[f].space \in Nat
  BY SocketsAssumption DEF SockRecords
<1>2. CASE sock[f].type = "dgram"
  BY <1>2 DEF Sends
<1>3. CASE sock[f].type # "dgram"
  <2>1. Lesser(sock[f].space, outbox) \in Nat
    BY <1>1 DEF Lesser
  <2>2. Lesser(sock[f].space, outbox) <= outbox /\ Lesser(sock[f].space, outbox) <= sock[f].space
    BY <1>1 DEF Lesser
  <2>3. n \in Nat /\ n <= Lesser(sock[f].space, outbox)
    BY <1>3, <2>1 DEF Sends
  <2> QED
    BY <1>1, <2>1, <2>2, <2>3
<1> QED
  BY <1>2, <1>3

LEMMA SendIOStep ==
  ASSUME IInv, SendIO
  PROVE  SockInv' /\ ResultInv' /\ DataInv'
<1> DEFINE f == fd[call.obj]
<1>1. Underway /\ UNCHANGED <<objectVars, inbox, taken>> /\ call.op # "connect"
  BY DEF SendIO, Underway, Sending
<1>2. /\ sock[f] \in SockRecords /\ sock \in [Fds -> SockRecords] /\ f \in Fds
      /\ sock[f].state # "closed"
  BY <1>1, UnderwayOpen
<1>3. outbox \in Nat /\ wire \in Nat /\ outbox + wire = OutSize /\ outbox <= OutSize
  BY SocketsAssumption DEF IInv, DataInv, BuffersMatchWire
<1>4. ASSUME NEW code \in {"ECONNREFUSED", "EDESTADDRREQ", "EAGAIN"},
             Fails(SendError(code), SendAsserts), UNCHANGED <<outbox, wire>>,
             UNCHANGED sock \/ sock' = [sock EXCEPT ![f].state = "new"],
             code = "EAGAIN" => sock[f].nonblock
      PROVE  SockInv' /\ ResultInv' /\ DataInv'
  <2>1. IsSet(SendError(code)) /\ SendError(code).code = code
    BY DEF SendError, Classified, Of, IsSet
  <2>2. SockInv' /\ ResultInv'
    BY <1>1, <1>4, <2>1, IOFails
  <2>3. DataInv'
    BY <1>1, <1>4 DEF IInv, DataInv, BuffersMatchWire
  <2> QED
    BY <2>2, <2>3
<1>5. ASSUME sock[f].space > 0, NEW n \in Sends(f), outbox' = outbox - n, wire' = wire + n,
             sock' = [sock EXCEPT ![f].space = @ - IF sock[f].type = "dgram" THEN 1 ELSE n],
             Done(n, NoError)
      PROVE  SockInv' /\ ResultInv' /\ DataInv'
  <2> DEFINE m == sock[f].space - IF sock[f].type = "dgram" THEN 1 ELSE n
             r == [sock[f] EXCEPT !.space = m]
  <2>1. n \in 0 .. outbox /\ (sock[f].type # "dgram" => n <= sock[f].space)
    BY <1>2, <1>3, SendsProperties
  <2>2. m \in 0 .. MaxReady
    <3>1. sock[f].space \in 0 .. MaxReady /\ MaxReady \in Nat
      BY <1>2, SocketsAssumption DEF SockRecords
    <3> QED
      BY <1>3, <1>5, <2>1, <3>1
  <2>3. r \in SockRecords /\ r.state # "closed"
    <3> HIDE DEF m
    <3> QED
      BY <1>2, <2>2 DEF SockRecords
  <2>4. sock' = [sock EXCEPT ![f] = r]
    BY <1>2, <1>5
  <2>5. n \in Int /\ n # -1
    BY <1>3, <2>1
  <2> HIDE DEF r
  <2>6. SockInv' /\ ResultInv'
    BY <1>1, <1>5, <2>3, <2>4, <2>5, IODone
  <2>7. outbox' \in 0 .. OutSize /\ wire' \in Nat /\ outbox' + wire' = OutSize
    BY <1>3, <1>5, <2>1, SocketsAssumption
  <2>8. DataInv'
    BY <1>1, <2>7 DEF IInv, DataInv, BuffersMatchWire
  <2> QED
    BY <2>6, <2>8
<1> QED
  BY <1>4, <1>5 DEF SendIO

LEMMA ReceiveIOStep ==
  ASSUME IInv, ReceiveIO
  PROVE  SockInv' /\ ResultInv' /\ DataInv'
<1> DEFINE f == fd[call.obj]
<1>1. Underway /\ UNCHANGED <<objectVars, outbox, wire>> /\ call.op # "connect"
  BY DEF ReceiveIO, Underway, Receiving
<1>2. /\ sock[f] \in SockRecords /\ sock \in [Fds -> SockRecords] /\ f \in Fds
      /\ sock[f].state # "closed"
  BY <1>1, UnderwayOpen
<1>3. inbox \in 0 .. InSize /\ taken \in Nat /\ inbox = taken /\ InSize \in Nat
  BY SocketsAssumption DEF IInv, DataInv, BuffersMatchWire
<1>4. ASSUME NEW code \in {"ECONNREFUSED", "EAGAIN"},
             Fails(ReceiveError(code), ReceiveAsserts), UNCHANGED <<inbox, taken>>,
             UNCHANGED sock \/ sock' = [sock EXCEPT ![f].state = "new"],
             code = "EAGAIN" => sock[f].nonblock
      PROVE  SockInv' /\ ResultInv' /\ DataInv'
  <2>1. IsSet(ReceiveError(code)) /\ ReceiveError(code).code = code
    BY DEF ReceiveError, Classified, Of, IsSet
  <2>2. SockInv' /\ ResultInv'
    BY <1>1, <1>4, <2>1, IOFails
  <2>3. DataInv'
    BY <1>1, <1>4 DEF IInv, DataInv, BuffersMatchWire
  <2> QED
    BY <2>2, <2>3
<1>5. ASSUME sock[f].ready > 0,
             NEW n \in 1 .. Lesser(IF sock[f].type = "dgram" THEN 1 ELSE sock[f].ready,
                                   InSize - inbox),
             inbox' = inbox + n, taken' = taken + n,
             sock' = [sock EXCEPT ![f].ready = @ - n], Done(n, NoError)
      PROVE  SockInv' /\ ResultInv' /\ DataInv'
  <2> DEFINE m == sock[f].ready - n
             r == [sock[f] EXCEPT !.ready = m]
             most == IF sock[f].type = "dgram" THEN 1 ELSE sock[f].ready
  <2>1. sock[f].ready \in 0 .. MaxReady /\ MaxReady \in Nat
    BY <1>2, SocketsAssumption DEF SockRecords
  <2>2. most \in Nat /\ most <= sock[f].ready
    BY <1>5, <2>1
  <2>3. n \in Nat /\ n >= 1 /\ n <= most /\ n <= InSize - inbox
    <3> HIDE DEF most
    <3>1. Lesser(most, InSize - inbox) \in Int
      BY <1>3, <2>2 DEF Lesser
    <3>2. Lesser(most, InSize - inbox) <= most /\ Lesser(most, InSize - inbox) <= InSize - inbox
      BY <1>3, <2>2 DEF Lesser
    <3>3. n \in 1 .. Lesser(most, InSize - inbox)
      BY <1>5 DEF most
    <3> QED
      BY <1>3, <2>2, <3>1, <3>2, <3>3
  <2>4. m \in 0 .. MaxReady
    <3> HIDE DEF most
    <3> QED
      BY <2>1, <2>2, <2>3
  <2>5. r \in SockRecords /\ r.state # "closed"
    <3> HIDE DEF m
    <3> QED
      BY <1>2, <2>4 DEF SockRecords
  <2>6. sock' = [sock EXCEPT ![f] = r]
    BY <1>2, <1>5
  <2>7. n \in Int /\ n # -1
    BY <2>3
  <2> HIDE DEF r, most
  <2>8. SockInv' /\ ResultInv'
    BY <1>1, <1>5, <2>5, <2>6, <2>7, IODone
  <2>9. DataInv'
    <3>1. inbox' \in 0 .. InSize /\ taken' \in Nat /\ inbox' = taken'
      BY <1>3, <1>5, <2>3
    <3> QED
      BY <1>1, <3>1 DEF IInv, DataInv, BuffersMatchWire
  <2> QED
    BY <2>8, <2>9
<1>6. ASSUME Done(0, NoError), UNCHANGED <<sock, inbox, taken>>
      PROVE  SockInv' /\ ResultInv' /\ DataInv'
  <2>1. Speaks(call.op, call.obj, call.timeout, 0, NoError)
    BY DEF Speaks, NoError, IsSet
  <2>2. ResultInv'
    BY <1>1, <1>6, <2>1, DoneWell DEF IInv
  <2>3. SockInv'
    BY <1>1, <1>6, NothingTaken DEF IInv
  <2>4. DataInv'
    BY <1>1, <1>6 DEF IInv, DataInv, BuffersMatchWire
  <2> QED
    BY <2>2, <2>3, <2>4
<1> QED
  BY <1>4, <1>5, <1>6 DEF ReceiveIO

\* select() reports a connection when it has been decided.
LEMMA WaitReadyStep ==
  ASSUME IInv, WaitReady
  PROVE  SockInv' /\ ResultInv'
<1>1. /\ Underway /\ ReadyNow /\ UNCHANGED <<sock, objectVars>> /\ fd' = fd
      /\ SockInv /\ ResultInv /\ call \in CallRecords /\ ret \in Int
  BY DEF WaitReady, Underway, objectVars, IInv, ResultInv, CallInv
<1>2. SockInv'
  BY <1>1, NothingTaken
<1>3. CASE call.op = "connect" /\ Done(1, NoError)
  <2>1. sock[fd[call.obj]].state # "connecting"
    BY <1>1, <1>3 DEF ReadyNow, WritableNow
  <2>2. Speaks(call.op, call.obj, call.timeout, 1, NoError)
    BY DEF Speaks, NoError, IsSet
  <2> QED
    BY <1>1, <1>2, <1>3, <2>1, <2>2, DoneWell
<1>4. CASE call' = [call EXCEPT !.at = "io"] /\ UNCHANGED <<ret, err>>
  <2>1. /\ call' \in CallRecords /\ call'.op = call.op /\ call'.obj = call.obj
        /\ call'.timeout = call.timeout /\ call'.at = "io"
    BY <1>1, <1>4 DEF CallRecords
  <2> QED
    BY <1>1, <1>2, <1>4, <2>1, GoesOnWell
<1> QED
  BY <1>3, <1>4 DEF WaitReady

\* The clock ticks, or is set again after a signal.
LEMMA WaitOnStep ==
  ASSUME IInv, WaitTick \/ WaitInterrupted
  PROVE  SockInv' /\ ResultInv'
<1>1. /\ Underway /\ call.at = "wait" /\ UNCHANGED <<sock, objectVars, ret, err>> /\ fd' = fd
      /\ SockInv /\ ResultInv /\ call \in CallRecords /\ ret \in Int
  BY DEF WaitTick, WaitInterrupted, Underway, objectVars, IInv, ResultInv, CallInv
<1>2. SockInv'
  BY <1>1, NothingTaken
<1>3. PICK c \in Int, t \in Int, g \in Int :
        call' = [call EXCEPT !.clock = c, !.ticks = t, !.signals = g]
  <2>1. call.clock \in Int /\ call.ticks \in Int /\ call.signals \in Int /\ call.timeout \in Int
    BY <1>1 DEF CallRecords
  <2>2. CASE WaitTick
    <3>1. call' = [call EXCEPT !.clock = call.clock - 1, !.ticks = call.ticks + 1,
                               !.signals = call.signals]
      BY <1>1, <2>2 DEF WaitTick, CallRecords
    <3>2. call.clock - 1 \in Int /\ call.ticks + 1 \in Int
      BY <2>1
    <3> QED
      BY <2>1, <3>1, <3>2
  <2>3. CASE WaitInterrupted
    <3>1. call' = [call EXCEPT !.clock = call.timeout, !.ticks = call.ticks,
                               !.signals = call.signals + 1]
      BY <1>1, <2>3 DEF WaitInterrupted, CallRecords
    <3>2. call.signals + 1 \in Int
      BY <2>1
    <3> QED
      BY <2>1, <3>1, <3>2
  <2> QED
    BY <2>2, <2>3
<1>4. /\ call' \in CallRecords /\ call'.op = call.op /\ call'.obj = call.obj
      /\ call'.timeout = call.timeout /\ call'.at = "wait"
  BY <1>1, <1>3 DEF CallRecords
<1>5. ~ (call.timeout < 0)
  BY <1>1 DEF ResultInv, CallInv
<1> QED
  BY <1>1, <1>2, <1>4, <1>5, GoesOnWell

LEMMA WaitTimeoutStep ==
  ASSUME IInv, WaitTimeout
  PROVE  SockInv' /\ ResultInv'
<1>1. /\ UNCHANGED <<sock, objectVars>> /\ Done(-1, Of("runtime", "ETIMEDOUT"))
      /\ SockInv /\ ResultInv
  BY DEF WaitTimeout, IInv
<1>2. SockInv'
  BY <1>1, NothingTaken
<1>3. Speaks(call.op, call.obj, call.timeout, -1, Of("runtime", "ETIMEDOUT"))
  BY DEF Speaks, Of, IsSet
<1> QED
  BY <1>1, <1>2, <1>3, DoneWell

\* What others do to a socket between the steps of a call changes no mode, and begins
\* no connection.
LEMMA OthersKeepResult ==
  ASSUME ResultInv, UNCHANGED callVars, fd' = fd,
         Valid(call.obj) =>
           /\ sock'[fd[call.obj]].nonblock = sock[fd[call.obj]].nonblock
           /\ sock'[fd[call.obj]].state = "connecting" => sock[fd[call.obj]].state = "connecting"
  PROVE  ResultInv'
<1>1. CallInv' /\ ErrorTellsFailure'
  BY DEF ResultInv, CallInv, Underway, Valid, ErrorTellsFailure, Silent, Sending, callVars
<1>2. ModeInv'
  BY DEF ResultInv, CallInv, ModeInv, BlockingCallsWait, Underway, Valid, Sock, callVars
<1>3. ConnectReturnsDecided'
  BY DEF ResultInv, ConnectReturnsDecided, Valid, Sock, callVars
<1> QED
  BY <1>1, <1>2, <1>3 DEF ResultInv

LEMMA KernelStep ==
  ASSUME IInv, NEW f \in Fds, Kernel(f)
  PROVE  SockInv' /\ ResultInv' /\ DataInv'
<1>1. /\ UNCHANGED <<objectVars, callVars, dataVars>> /\ fd' = fd
      /\ SockInv /\ ResultInv /\ sock \in [Fds -> SockRecords] /\ sock[f] \in SockRecords
  BY DEF Kernel, ConnectionDecided, Arrives, PeerEnds, Vanishes, Drains, objectVars,
         IInv, SockInv
<1>2. sock[f].ready \in 0 .. MaxReady /\ sock[f].space \in 0 .. MaxReady /\ MaxReady \in Nat
  BY <1>1, SocketsAssumption DEF SockRecords
<1>3. PICK r \in SockRecords :
        /\ sock' = [sock EXCEPT ![f] = r]
        /\ r.nonblock = sock[f].nonblock
        /\ r.state # "connecting" \/ r.state = sock[f].state
        /\ r.state = "closed" <=> sock[f].state = "closed"
  <2>1. CASE ConnectionDecided(f)
    <3> DEFINE x == [sock[f] EXCEPT !.state = "established", !.space = MaxReady]
               y == [sock[f] EXCEPT !.state = "refused"]
    <3>1. x \in SockRecords /\ x.state = "established" /\ x.nonblock = sock[f].nonblock
      <4>1. MaxReady \in 0 .. MaxReady
        BY <1>2
      <4> QED
        BY <1>1, <4>1 DEF SockRecords
    <3>2. y \in SockRecords /\ y.state = "refused" /\ y.nonblock = sock[f].nonblock
      BY <1>1 DEF SockRecords
    <3>3. sock' = [sock EXCEPT ![f] = x] \/ sock' = [sock EXCEPT ![f] = y]
      BY <1>1, <2>1 DEF ConnectionDecided
    <3>4. sock[f].state = "connecting"
      BY <2>1 DEF ConnectionDecided
    <3> HIDE DEF x, y
    <3> QED
      BY <3>1, <3>2, <3>3, <3>4
  <2>2. CASE Arrives(f) \/ Vanishes(f)
    <3>1. PICK n \in 0 .. MaxReady : sock' = [sock EXCEPT ![f].ready = n]
      <4>1. CASE Arrives(f)
        <5>1. sock[f].ready + 1 \in 0 .. MaxReady
          BY <1>2, <4>1 DEF Arrives
        <5> QED
          BY <4>1, <5>1 DEF Arrives
      <4>2. CASE Vanishes(f)
        <5>1. sock[f].ready - 1 \in 0 .. MaxReady
          BY <1>2, <4>2 DEF Vanishes
        <5> QED
          BY <4>2, <5>1 DEF Vanishes
      <4> QED
        BY <2>2, <4>1, <4>2
    <3> DEFINE x == [sock[f] EXCEPT !.ready = n]
    <3>2. x \in SockRecords /\ x.state = sock[f].state /\ x.nonblock = sock[f].nonblock
      BY <1>1 DEF SockRecords
    <3>3. sock' = [sock EXCEPT ![f] = x]
      BY <1>1, <3>1
    <3> HIDE DEF x
    <3> QED
      BY <3>2, <3>3
  <2>3. CASE PeerEnds(f)
    <3> DEFINE x == [sock[f] EXCEPT !.state = "ended"]
    <3>1. x \in SockRecords /\ x.state = "ended" /\ x.nonblock = sock[f].nonblock
      BY <1>1 DEF SockRecords
    <3>2. sock' = [sock EXCEPT ![f] = x] /\ sock[f].state # "closed"
      BY <1>1, <2>3 DEF PeerEnds
    <3> HIDE DEF x
    <3> QED
      BY <3>1, <3>2
  <2>4. CASE Drains(f)
    <3> DEFINE x == [sock[f] EXCEPT !.space = sock[f].space + 1]
    <3>1. sock[f].space + 1 \in 0 .. MaxReady
      BY <1>2, <2>4 DEF Drains
    <3>2. x \in SockRecords /\ x.state = sock[f].state /\ x.nonblock = sock[f].nonblock
      BY <1>1, <3>1 DEF SockRecords
    <3>3. sock' = [sock EXCEPT ![f] = x]
      BY <1>1, <2>4 DEF Drains
    <3> HIDE DEF x
    <3> QED
      BY <3>2, <3>3
  <2> QED
    BY <2>1, <2>2, <2>3, <2>4 DEF Kernel
<1>4. SockInv' /\ sock'[f] = r
  BY <1>1, <1>3, OneChanges
<1>5. ResultInv'
  <2>1. \A g \in Fds : /\ sock'[g].nonblock = sock[g].nonblock
                       /\ sock'[g].state = "connecting" => sock[g].state = "connecting"
    BY <1>1, <1>3
  <2>2. Valid(call.obj) => fd[call.obj] \in Fds
    BY <1>1 DEF ResultInv, CallInv, CallRecords, SockInv, Valid
  <2> QED
    BY <1>1, <2>1, <2>2, OthersKeepResult
<1>6. DataInv'
  BY <1>1 DEF IInv, DataInv, BuffersMatchWire, dataVars
<1> QED
  BY <1>4, <1>5, <1>6

\* The caller closes one of its own: no object, and so no call, has it.
LEMMA CloseSocketStep ==
  ASSUME IInv, NEW f \in Fds, CloseSocket(f)
  PROVE  SockInv' /\ ResultInv'
<1>1. /\ sock' = [sock EXCEPT ![f] = ClosedSocket] /\ loose' = loose \ {f} /\ f \in loose
      /\ UNCHANGED <<objects, fd, remote, callVars>> /\ SockInv /\ ResultInv
      /\ sock \in [Fds -> SockRecords]
  BY DEF CloseSocket, IInv, SockInv
<1>2. /\ sock' \in [Fds -> SockRecords]
      /\ \A g \in Fds : sock'[g].state # "closed" <=> Open(g) /\ g # f
      /\ \A g \in Fds : g # f => sock'[g] = sock[g]
  BY <1>1, ClosedIsRecord DEF Open
<1>3. \A o \in Objects : fd[o] # f
  BY <1>1 DEF SockInv, DescriptorsOwned
<1>4. SockInv'
  <2>1. DescriptorsOwned'
    BY <1>1, <1>2, <1>3 DEF SockInv, DescriptorsOwned, Open, Valid
  <2> QED
    BY <1>1, <1>2, <2>1 DEF SockInv
<1>5. Valid(call.obj) => fd[call.obj] \in Fds /\ fd[call.obj] # f
  BY <1>1, <1>3 DEF ResultInv, CallInv, CallRecords, SockInv, Valid
<1>6. ResultInv'
  BY <1>1, <1>2, <1>5, OthersKeepResult
<1> QED
  BY <1>4, <1>6

-----------------------------------------------------------------------------
(* The invariant is inductive.                                             *)

LEMMA InitIInv == Init => IInv
<1> SUFFICES ASSUME Init PROVE IInv
  OBVIOUS
<1>1. Invalid \notin Fds
  BY SocketsAssumption DEF Invalid
<1>2. SockInv
  BY <1>1, ClosedIsRecord DEF Init, SockInv, DescriptorsOwned, Open, Valid
<1>3. PICK o \in Objects :
        call = Ended(Call("close", o, Empty, -1, "done"))
  <2> DEFINE first == CHOOSE o \in objects : TRUE
  <2>1. objects \subseteq Objects /\ objects # {}
    BY SocketsAssumption DEF Init
  <2>2. first \in objects
    BY <2>1
  <2>3. call = Ended(Call("close", first, Empty, -1, "done"))
    BY DEF Init
  <2> QED
    BY <2>1, <2>2, <2>3
<1>4. /\ Call("close", o, Empty, -1, "done") \in CallRecords
      /\ Call("close", o, Empty, -1, "done").op = "close"
  BY CallFields DEF Operations
<1>5. call \in CallRecords /\ call.at = "done" /\ call.op = "close"
  BY <1>3, <1>4, EndedFields
<1>6. ret = 1 /\ err = NoError
  BY DEF Init
<1>7. ResultInv
  BY <1>5, <1>6 DEF ResultInv, CallInv, ModeInv, Underway, BlockingCallsWait,
                   ConnectReturnsDecided, ErrorTellsFailure, NoError, IsSet
<1>8. DataInv
  BY SocketsAssumption DEF Init, DataInv, BuffersMatchWire
<1> QED
  BY <1>2, <1>7, <1>8 DEF IInv

LEMMA SameData ==
  ASSUME IInv, UNCHANGED dataVars
  PROVE  DataInv'
  BY DEF IInv, DataInv, BuffersMatchWire, dataVars

LEMMA UserStep ==
  ASSUME IInv, User
  PROVE  IInv'
<1>1. objects \subseteq Objects /\ Timeouts \union {-1} \subseteq Int
  BY SocketsAssumption DEF IInv, SockInv
<1>2. UNCHANGED dataVars
  BY DEF User, Close, SocketCreate, SocketAttach, SocketDetach, NewPipe, DeletePipe,
         CloseSocket, Connected, TcpConnect, TcpSend, TcpReceive, AcceptorOpen, Accept,
         UdpOpen, UdpConnect, UdpSendTo, UdpSend, UdpReceive
<1>3. DataInv'
  BY <1>2, SameData
<1>4. SockInv' /\ ResultInv'
  <2>1. CASE \E o \in objects \ {Reader, Writer} : Close(o)
    BY <1>1, <2>1, CloseStep
  <2>2. CASE \E o \in objects \intersect Plain, type \in {"stream", "dgram"} : SocketCreate(o, type)
    BY <1>1, <2>2, SocketCreateStep
  <2>3. CASE \E o \in objects \intersect Plain, f \in Fds : SocketAttach(o, f)
    BY <1>1, <2>3, SocketAttachStep
  <2>4. CASE \E o \in objects \intersect Plain : SocketDetach(o)
    BY <1>1, <2>4, SocketDetachStep
  <2>5. CASE NewPipe \/ DeletePipe
    BY <2>5, NewPipeStep, DeletePipeStep
  <2>6. CASE \E f \in Fds : CloseSocket(f)
    BY <2>6, CloseSocketStep
  <2>7. CASE \E o \in objects \intersect TcpSockets, f \in Fds, a \in Addresses \union {Empty} :
               Connected(o, f, a)
    BY <2>7, ConnectedStep
  <2>8. CASE \E o \in objects \intersect TcpSockets, a \in Addresses, t \in Timeouts \union {-1} :
               TcpConnect(o, a, t)
    BY <1>1, <2>8, TcpConnectStep
  <2>9. CASE \E o \in objects \intersect TcpSockets, t \in Timeouts \union {-1} :
               TcpSend(o, t) \/ TcpReceive(o, t)
    BY <1>1, <2>9, TcpSendStep, TcpReceiveStep
  <2>10. CASE \E o \in objects \intersect Acceptors, a \in Addresses \union {Empty} : AcceptorOpen(o, a)
    BY <2>10, AcceptorOpenStep
  <2>11. CASE \E o \in objects \intersect Acceptors, t \in Timeouts \union {-1} : Accept(o, t)
    BY <1>1, <2>11, AcceptStep
  <2>12. CASE \E o \in objects \intersect UdpSockets, a \in Addresses \union {Empty} :
                UdpOpen(o, a) \/ UdpConnect(o, a)
    BY <2>12, UdpOpenStep, UdpConnectStep
  <2>13. CASE \E o \in objects \intersect UdpSockets, a \in Addresses \union {Empty},
                 t \in Timeouts \union {-1} : UdpSendTo(o, a, t)
    BY <1>1, <2>13, UdpSendToStep
  <2>14. CASE \E o \in objects \intersect UdpSockets, t \in Timeouts \union {-1} :
                UdpSend(o, t) \/ UdpReceive(o, t, "receive") \/ UdpReceive(o, t, "receivefrom")
    BY <1>1, <2>14, UdpSendStep, UdpReceiveStep
  <2> QED
    BY <2>1, <2>2, <2>3, <2>4, <2>5, <2>6, <2>7, <2>8, <2>9, <2>10, <2>11, <2>12, <2>13, <2>14
       DEF User
<1> QED
  BY <1>3, <1>4 DEF IInv

LEMMA Inductive == IInv /\ [Next]_vars => IInv'
<1> SUFFICES ASSUME IInv, [Next]_vars PROVE IInv'
  OBVIOUS
<1>1. CASE User
  BY <1>1, UserStep
<1>2. CASE ConnectStart \/ ConnectAgain \/ AcceptIO
  <2>1. UNCHANGED dataVars
    BY <1>2 DEF ConnectStart, ConnectAgain, AcceptIO
  <2> QED
    BY <1>2, <2>1, SameData, ConnectStartStep, ConnectAgainStep, AcceptIOStep DEF IInv
<1>3. CASE SendIO \/ ReceiveIO
  BY <1>3, SendIOStep, ReceiveIOStep DEF IInv
<1>4. CASE WaitReady \/ WaitTick \/ WaitTimeout \/ WaitInterrupted
  <2>1. UNCHANGED dataVars
    BY <1>4 DEF WaitReady, WaitTick, WaitTimeout, WaitInterrupted
  <2> QED
    BY <1>4, <2>1, SameData, WaitReadyStep, WaitOnStep, WaitTimeoutStep DEF IInv
<1>5. CASE \E f \in Fds : Kernel(f)
  BY <1>5, KernelStep DEF IInv
<1>6. CASE UNCHANGED vars
  <2>1. /\ SockInv /\ ResultInv /\ UNCHANGED <<sock, objectVars, callVars, dataVars>> /\ fd' = fd
        /\ sock' = sock
    BY <1>6 DEF IInv, vars, objectVars
  <2>2. SockInv'
    BY <2>1, NothingTaken
  <2>3. ResultInv'
    BY <2>1, OthersKeepResult
  <2>4. DataInv'
    BY <2>1, SameData
  <2> QED
    BY <2>2, <2>3, <2>4 DEF IInv
<1> QED
  BY <1>1, <1>2, <1>3, <1>4, <1>5, <1>6 DEF Next, Goes

LEMMA InvariantHolds == Spec => []IInv
<1>1. Init => IInv
  BY InitIInv
<1>2. IInv /\ [Next]_vars => IInv'
  BY Inductive
<1> QED
  BY <1>1, <1>2, PTL DEF Spec

-----------------------------------------------------------------------------
(* What follows.                                                           *)

\* Every variable has its type, and the call under way has a socket.
THEOREM TypeCorrect == Spec => []TypeOK
<1>1. IInv => TypeOK
  BY DEF IInv, SockInv, ResultInv, CallInv, DataInv, TypeOK, SockRecords, CallRecords, Underway
<1> QED
  BY <1>1, InvariantHolds, PTL

\* No descriptor leaks and none has two owners: neither the objects nor the caller keep
\* one that is closed, in whatever order Create, Attach, Detach, Close, accept and the
\* constructors of a pipe succeed and fail (Socket.cpp, SocketPipe.cpp, TcpAcceptor.cpp).
THEOREM NoDescriptorLeaks == Spec => []DescriptorsOwned
<1>1. IInv => DescriptorsOwned
  BY DEF IInv, SockInv
<1> QED
  BY <1>1, InvariantHolds, PTL

\* The buffers are advanced by what the kernel took and gave (TcpSocket.cpp, UdpSocket.cpp).
THEOREM NoByteLost == Spec => []BuffersMatchWire
<1>1. IInv => BuffersMatchWire
  BY DEF IInv, DataInv
<1> QED
  BY <1>1, InvariantHolds, PTL

\* A call without a timeout waits, in whatever mode the call before it has left the
\* descriptor, unless UdpSocket::Receive is called with a timeout of -1.
THEOREM NoTimeoutWaits ==
  ASSUME NegativeReceive = FALSE
  PROVE  Spec => []BlockingCallsWait
<1>1. IInv => BlockingCallsWait
  BY DEF IInv, ResultInv, ModeInv
<1> QED
  BY <1>1, InvariantHolds, PTL

\* Connect returns true only when the kernel has decided the connection.
THEOREM ConnectIsDecided == Spec => []ConnectReturnsDecided
<1>1. IInv => ConnectReturnsDecided
  BY DEF IInv, ResultInv
<1> QED
  BY <1>1, InvariantHolds, PTL

\* A call that is not silent sets an error if and only if it fails.
THEOREM FailureHasError == Spec => []ErrorTellsFailure
<1>1. IInv => ErrorTellsFailure
  BY DEF IInv, ResultInv
<1> QED
  BY <1>1, InvariantHolds, PTL

=============================================================================
