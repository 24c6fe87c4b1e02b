--------------------------- MODULE TcpServerProofs ---------------------------
(***************************************************************************)
(* What the server guarantees for every number of peers and descriptors,   *)
(* for both applications and whatever RemoveHandler reads for end().       *)
(***************************************************************************)
EXTENDS TcpServer, WellFoundedInduction, TLAPS

Objects == Peers \union {Acceptor}

-----------------------------------------------------------------------------
(* The types.                                                              *)

TypeOK ==
  /\ application \in {"echo", "http"}
  /\ kernel \in [Fds -> Peers \union {"closed", "pipe", "listening"}]
  /\ backlog \subseteq Peers /\ unread \subseteq Peers /\ unsent \subseteq Peers
  /\ peer \in [Peers -> {"new", "open", "ended", "reset", "gone"}]
  /\ listenFd \in Fds \union {Invalid}
  /\ connections \subseteq Peers
  /\ fdOf \in [Peers -> Fds \union {Invalid}]
  /\ attached \subseteq Objects
  /\ events \in [Objects -> SUBSET Event]
  /\ handlers \in [Fds -> Objects \union {NoHandler, WakeupHandler}]
  /\ interest \in [Fds -> SUBSET Event]
  /\ loopAt \in {"outside", "select", "dispatch", "handle", "invoke", "returned",
                 "destroyed", "terminated", "null", "dangling"}
  /\ ready \in [Fds -> SUBSET Event]
  /\ current \in Objects \union {NoHandler, WakeupHandler}
  /\ todo \subseteq Event

-----------------------------------------------------------------------------
(* Who owns which descriptor.                                              *)

\* Who is attached is open: a handler is never without its descriptor.
ObjectInv ==
  /\ \A p \in Peers : p \in attached \union unsent => p \in connections
  /\ Acceptor \in attached <=> listenFd # Invalid

\* A peer is accepted once: while it waits it has no connection.
PeerInv ==
  \A p \in Peers :
    /\ peer[p] = "new" => p \notin backlog /\ p \notin connections
    /\ p \in backlog => p \notin connections

\* The descriptors, until a program that is terminated is left as it is.
DescriptorInv ==
  /\ \A f \in Fds, p \in Peers : kernel[f] = p <=> p \in connections /\ fdOf[p] = f
  /\ \A p \in connections : fdOf[p] \in Fds
  /\ \A f \in Fds : kernel[f] = "listening" <=> listenFd = f
  /\ \A f \in Fds : kernel[f] = "pipe" <=> f \in {PipeWriter, WakeupFd}
  /\ loopAt = "destroyed" => connections = {} /\ listenFd = Invalid

OwnInv ==
  loopAt # "terminated" => ObjectInv /\ PeerInv /\ DescriptorInv

-----------------------------------------------------------------------------
(* Who is registered, and what is selected, reported and served.           *)

\* The lowest descriptor is the acceptor's: no connection is given it, for the
\* acceptor is open when one is accepted.
ListenInv ==
  /\ listenFd \in {PipeListener, Invalid}
  /\ kernel[PipeListener] \in {"closed", "listening"}

\* An object that is attached is registered, under its own descriptor only.
RegistryInv ==
  \A f \in Fds :
    /\ \A p \in Peers : handlers[f] = p <=> p \in attached /\ fdOf[p] = f
    /\ handlers[f] = Acceptor <=> listenFd = f
    /\ handlers[f] = WakeupHandler <=> f = WakeupFd

\* Peers whose data waits, here or there, have not left.
PatientInv ==
  \A p \in unread \union unsent : peer[p] = "open"

\* Writing is watched only while something is unsent.
EventsInv ==
  /\ \A p \in Peers : "write" \in events[p] => p \in unsent
  /\ events[Acceptor] \subseteq {"read"}

\* The loop still looks at what is selected.
Looping == loopAt \notin {"returned", "destroyed"}

\* What is selected is watched by somebody who is there, except that an acceptor
\* that is closed leaves its descriptor selected.
InterestInv ==
  Looping =>
    \A f \in Fds : interest[f] # {} =>
      \/ f \in {WakeupFd, PipeListener} /\ interest[f] = {"read"}
      \/ \E p \in Peers : handlers[f] = p /\ interest[f] \subseteq events[p]

\* Events E of the connection of p are still what they were when they were
\* reported, or what OnRead takes for the end.
Current(p, E) ==
  /\ "read" \in E => p \in unread \/ peer[p] \in {"ended", "reset"}
  /\ "write" \in E => p \in unsent

ReadyInv ==
  loopAt \in {"dispatch", "handle"} =>
    \A f \in Fds : ready[f] # {} =>
      \/ handlers[f] = Acceptor /\ ready[f] = {"read"}
      \/ \E p \in Peers : handlers[f] = p /\ Current(p, ready[f])

ServedInv ==
  loopAt = "handle" =>
    \/ current \in attached \intersect Peers /\ Current(current, todo) /\ ready[fdOf[current]] = {}
    \/ current = Acceptor /\ current \in attached /\ todo \subseteq {"read"} /\ ready[listenFd] = {}
    \/ todo = {}

LoopInv ==
  /\ loopAt \notin {"null", "dangling"}
  /\ ListenInv /\ RegistryInv /\ PatientInv /\ EventsInv
  /\ InterestInv /\ ReadyInv /\ ServedInv

IInv == TypeOK /\ OwnInv

-----------------------------------------------------------------------------
(* Descriptors and names.                                                  *)

\* A set of descriptors that is not empty has a lowest one.
LEMMA LowestIsElement ==
  ASSUME NEW S \in SUBSET Nat, S # {}
  PROVE  Lowest(S) \in S /\ \A g \in S : Lowest(S) <= g
<1> DEFINE R == OpToRel(<, Nat)
<1>1. IsWellFoundedOn(R, Nat)
  BY NatLessThanWellFounded
<1>2. \A x, y \in Nat : x < y => <<x, y>> \in R
  BY DEF OpToRel
<1> HIDE DEF R
<1>3. PICK x \in S : \A y \in S : ~ (<<y, x>> \in R)
  BY <1>1, WFMin
<1>4. ASSUME NEW y \in S PROVE x <= y
  <2>1. x \in Nat /\ y \in Nat /\ ~ (y < x)
    BY <1>2, <1>3
  <2> QED
    BY <2>1
<1> QED
  BY <1>3, <1>4 DEF Lowest

\* The descriptors of the pipe are three.
LEMMA PipeFds ==
  /\ PipeListener \in Fds /\ PipeWriter \in Fds /\ WakeupFd \in Fds
  /\ PipeListener # PipeWriter /\ PipeListener # WakeupFd /\ PipeWriter # WakeupFd
  /\ \A f \in Fds : PipeListener <= f
<1>1. Fds \subseteq Nat /\ \E f, g, h \in Fds : f # g /\ g # h /\ f # h
  BY TcpServerAssumption
<1>2. PipeListener \in Fds /\ \A f \in Fds : PipeListener <= f
  BY <1>1, LowestIsElement DEF PipeListener
<1>3. /\ Fds \ {PipeListener} # {} /\ Fds \ {PipeListener} \subseteq Nat
      /\ Fds \ {PipeListener, PipeWriter} # {} /\ Fds \ {PipeListener, PipeWriter} \subseteq Nat
  <2>1. PICK f \in Fds, g \in Fds, h \in Fds : f # g /\ g # h /\ f # h
    BY <1>1
  <2>2. \A x, y : \E k \in Fds : k # x /\ k # y
    BY <2>1
  <2>3. /\ \E k \in Fds : k # PipeListener
        /\ \E k \in Fds : k # PipeListener /\ k # PipeWriter
    BY <2>2
  <2> QED
    BY <1>1, <2>3
<1>4. PipeWriter \in Fds \ {PipeListener}
  BY <1>3, LowestIsElement DEF PipeWriter
<1>5. WakeupFd \in Fds \ {PipeListener, PipeWriter}
  BY <1>3, LowestIsElement DEF WakeupFd
<1> QED
  BY <1>2, <1>4, <1>5

\* A new descriptor is the lowest of those that are closed.
LEMMA NewFdIsFree ==
  ASSUME TypeOK, FreeFds # {}
  PROVE  /\ NewFd \in Fds /\ kernel[NewFd] = "closed"
         /\ \A f \in Fds : kernel[f] = "closed" => NewFd <= f
<1>1. FreeFds \in SUBSET Nat
  BY TcpServerAssumption DEF FreeFds
<1> QED
  BY <1>1, LowestIsElement DEF NewFd, FreeFds

\* The names are different.
LEMMA Names ==
  /\ Invalid \notin Fds /\ Acceptor \notin Peers
  /\ NoHandler \notin Objects /\ WakeupHandler \notin Objects /\ NoHandler # WakeupHandler
  /\ "closed" \notin Peers /\ "pipe" \notin Peers /\ "listening" \notin Peers
<1>1. Invalid \notin Fds
  BY TcpServerAssumption DEF Invalid
<1> QED
  BY <1>1, TcpServerAssumption DEF Objects, NoHandler, WakeupHandler, Acceptor

-----------------------------------------------------------------------------
(* Handlers.                                                               *)

LEMMA HandlerIsNew ==
  ASSUME TypeOK, NEW o \in Objects, NEW fd \in Fds, NewHandler(o, fd)
  PROVE  /\ attached' = attached \union {o} /\ attached' \subseteq Objects
         /\ events' \in [Objects -> SUBSET Event] /\ events'[o] = {"read"}
         /\ \A q \in Objects : q # o => events'[q] = events[q]
         /\ handlers' \in [Fds -> Objects \union {NoHandler, WakeupHandler}]
         /\ \A f \in Fds : handlers'[f] = IF f = fd /\ handlers[fd] = NoHandler
                                          THEN o ELSE handlers[f]
         /\ interest' \in [Fds -> SUBSET Event]
         /\ \A f \in Fds : interest'[f] = IF f = fd THEN {"read"} ELSE interest[f]
<1>1. {"read"} \in SUBSET Event
  BY DEF Event
<1> QED
  BY <1>1 DEF NewHandler, Selected, TypeOK

\* The handler of an object is gone from the registry.  Others keep theirs, though
\* not what is selected for them.
LEMMA HandlerIsDeleted ==
  ASSUME TypeOK, NEW o \in Objects, NEW selected \in [Fds -> SUBSET Event],
         DeleteHandler(o, selected)
  PROVE  /\ attached' = attached \ {o} /\ attached' \subseteq Objects
         /\ events' \in [Objects -> SUBSET Event] /\ events'[o] = {}
         /\ \A q \in Objects : q # o => events'[q] = events[q]
         /\ handlers' \in [Fds -> Objects \union {NoHandler, WakeupHandler}]
         /\ \A f \in Fds : handlers'[f] = IF o \in attached /\ handlers[f] = o
                                          THEN NoHandler ELSE handlers[f]
         /\ interest' \in [Fds -> SUBSET Event]
         /\ \A f \in Fds : interest'[f] \in {selected[f], {}}
<1>1. /\ attached' = attached \ {o} /\ attached' \subseteq Objects
      /\ events' \in [Objects -> SUBSET Event] /\ events'[o] = {}
      /\ \A q \in Objects : q # o => events'[q] = events[q]
  BY DEF DeleteHandler, TypeOK
<1>2. CASE o \in attached
  <2>1. RemoveHandler(o, selected)
    BY <1>2 DEF DeleteHandler
  <2>2. handlers' = [f \in Fds |-> IF handlers[f] = o THEN NoHandler ELSE handlers[f]]
    BY <2>1 DEF RemoveHandler
  <2>3. \E key : interest' = [f \in Fds |-> IF f = key THEN {} ELSE selected[f]]
    BY <2>1 DEF RemoveHandler
  <2> QED
    BY <1>1, <1>2, <2>2, <2>3 DEF TypeOK
<1>3. CASE o \notin attached
  BY <1>1, <1>3 DEF DeleteHandler, TypeOK
<1> QED
  BY <1>2, <1>3

\* UpdateHandler selects events for the descriptor, if it has a handler.
LEMMA UpdatedType ==
  ASSUME TypeOK, NEW o, NEW fd \in Fds, NEW e \in SUBSET Event
  PROVE  /\ Updated(o, fd, e) \in [Fds -> SUBSET Event]
         /\ \A f \in Fds : Updated(o, fd, e)[f] =
              IF f = fd /\ handlers[fd] # NoHandler THEN e ELSE interest[f]
<1> QED
  BY DEF Updated, Selected, TypeOK

-----------------------------------------------------------------------------
(* The owners: the initial state, and the steps that change neither an     *)
(* object nor a descriptor.                                                *)

LEMMA OwnInit == Init => IInv
<1> SUFFICES ASSUME Init PROVE IInv
  OBVIOUS
<1> USE PipeFds, Names
<1>1. TypeOK
  BY TcpServerAssumption DEF Init, TypeOK, Objects
<1>2. ObjectInv /\ PeerInv
  BY DEF Init, ObjectInv, PeerInv
<1>3. DescriptorInv
  BY DEF Init, DescriptorInv
<1> QED
  BY <1>1, <1>2, <1>3 DEF IInv, OwnInv

\* The owners are not affected by what is selected, reported or sent.
LEMMA OwnSame ==
  ASSUME OwnInv, UNCHANGED <<kernel, backlog, listenFd, connections, fdOf, attached>>,
         unsent' \ unsent \subseteq connections,
         \A p \in Peers : peer'[p] = "new" => peer[p] = "new",
         loopAt = "terminated" => loopAt' = "terminated",
         loopAt' = "destroyed" => loopAt = "destroyed"
  PROVE  OwnInv'
<1> SUFFICES ASSUME loopAt' # "terminated" PROVE ObjectInv' /\ PeerInv' /\ DescriptorInv'
  BY DEF OwnInv
<1>1. ObjectInv /\ PeerInv /\ DescriptorInv
  BY DEF OwnInv
<1>2. ObjectInv'
  BY <1>1 DEF ObjectInv
<1>3. PeerInv'
  BY <1>1 DEF PeerInv
<1>4. DescriptorInv'
  BY <1>1 DEF DescriptorInv
<1> QED
  BY <1>2, <1>3, <1>4

LEMMA OwnLoop ==
  ASSUME IInv,
         \/ Run \/ Select \/ EndHandle \/ EndDispatch \/ EndInvoke
         \/ \E fd \in Fds : Dispatch(fd)
  PROVE  IInv'
<1> USE DEF IInv, peerVars, objectVars, handlerVars
<1>1. /\ UNCHANGED <<application, kernel, backlog, peer, unread, unsent, listenFd,
                     connections, fdOf, attached, events, handlers>>
      /\ loopAt \notin {"terminated", "destroyed"} /\ loopAt' \notin {"terminated", "destroyed"}
  BY DEF Run, Select, EndHandle, EndDispatch, EndInvoke, Dispatch
<1>2. OwnInv'
  BY <1>1, OwnSame
<1>3. TypeOK'
  <2>1. CASE Run
    <3>1. interest' \in [Fds -> SUBSET Event]
      BY <2>1 DEF Run, Selected, TypeOK, Event
    <3> QED
      BY <1>1, <2>1, <3>1 DEF Run, TypeOK
  <2>2. CASE Select
    <3>1. ready' \in [Fds -> SUBSET Event]
      BY <2>2 DEF Select, TypeOK, Event
    <3> QED
      BY <1>1, <2>2, <3>1 DEF Select, TypeOK
  <2>3. CASE EndHandle
    BY <1>1, <2>3 DEF EndHandle, TypeOK
  <2>4. CASE EndDispatch
    BY <1>1, <2>4 DEF EndDispatch, TypeOK
  <2>5. CASE EndInvoke
    BY <1>1, <2>5 DEF EndInvoke, TypeOK
  <2>6. ASSUME NEW fd \in Fds, Dispatch(fd) PROVE TypeOK'
    BY <1>1, <2>6 DEF Dispatch, TypeOK
  <2> QED
    BY <2>1, <2>2, <2>3, <2>4, <2>5, <2>6
<1> QED
  BY <1>2, <1>3

-----------------------------------------------------------------------------
(* The owners: the steps of the acceptor.                                  *)

LEMMA OwnOpen ==
  ASSUME IInv, Open
  PROVE  IInv'
<1> USE DEF IInv, peerVars, loopVars
<1>1. /\ loopAt \in {"outside", "invoke"} /\ listenFd = Invalid /\ listenFd' = NewFd
      /\ kernel' = [kernel EXCEPT ![NewFd] = "listening"]
      /\ NewHandler(Acceptor, NewFd)
      /\ UNCHANGED <<application, backlog, peer, unread, connections, fdOf, unsent,
                     loopAt, ready, current, todo>>
  BY DEF Open, InUserCode
<1>2. NewFd \in Fds /\ kernel[NewFd] = "closed"
  BY NewFdIsFree DEF Open
<1>3. /\ kernel' \in [Fds -> Peers \union {"closed", "pipe", "listening"}]
      /\ kernel'[NewFd] = "listening"
      /\ \A f \in Fds : f # NewFd => kernel'[f] = kernel[f]
  BY <1>1, <1>2 DEF TypeOK
<1>4. Acceptor \in Objects
  BY DEF Objects
<1>5. TypeOK'
  BY <1>1, <1>2, <1>3, <1>4, HandlerIsNew DEF TypeOK
<1>6. attached' = attached \union {Acceptor}
  BY <1>1 DEF NewHandler
<1>7. ObjectInv /\ PeerInv /\ DescriptorInv
  BY <1>1 DEF OwnInv
<1>8. ObjectInv' /\ PeerInv'
  BY <1>1, <1>2, <1>6, <1>7, Names DEF ObjectInv, PeerInv
<1>9. DescriptorInv'
  BY <1>1, <1>2, <1>3, <1>7, Names DEF DescriptorInv
<1> QED
  BY <1>5, <1>8, <1>9 DEF OwnInv

\* ClosesAcceptor, in Close and in the destructor.
LEMMA OwnCloseAcceptor ==
  ASSUME IInv, CloseAcceptor, loopAt # "terminated",
         UNCHANGED <<application, connections, fdOf, unsent, ready, current, todo>>,
         loopAt' = loopAt \/ (loopAt' = "destroyed" /\ connections = {})
  PROVE  IInv'
<1> USE DEF IInv
<1>1. /\ DeleteHandler(Acceptor, interest)
      /\ kernel' = [f \in Fds |-> IF f = listenFd THEN "closed" ELSE kernel[f]]
      /\ listenFd' = Invalid /\ backlog' = {} /\ unread' = unread \ backlog
      /\ peer' = [p \in Peers |-> IF p \in backlog THEN "gone" ELSE peer[p]]
  BY DEF CloseAcceptor
<1>2. /\ kernel' \in [Fds -> Peers \union {"closed", "pipe", "listening"}]
      /\ \A f \in Fds : kernel'[f] = IF f = listenFd THEN "closed" ELSE kernel[f]
  BY <1>1 DEF TypeOK
<1>3. /\ peer' \in [Peers -> {"new", "open", "ended", "reset", "gone"}]
      /\ \A p \in Peers : peer'[p] = IF p \in backlog THEN "gone" ELSE peer[p]
  BY <1>1 DEF TypeOK
<1>4. Acceptor \in Objects /\ interest \in [Fds -> SUBSET Event]
  BY DEF Objects, TypeOK
<1>5. TypeOK'
  BY <1>1, <1>2, <1>3, <1>4, HandlerIsDeleted DEF TypeOK
<1>6. attached' = attached \ {Acceptor}
  BY <1>1 DEF DeleteHandler
<1>7. ObjectInv /\ PeerInv /\ DescriptorInv
  BY DEF OwnInv
<1>8. ObjectInv' /\ PeerInv'
  BY <1>1, <1>3, <1>6, <1>7, Names DEF ObjectInv, PeerInv
<1>9. DescriptorInv'
  BY <1>1, <1>2, <1>7, Names DEF DescriptorInv, TypeOK
<1> QED
  BY <1>5, <1>8, <1>9 DEF OwnInv

LEMMA OwnAcceptorOnRead ==
  ASSUME IInv, AcceptorOnRead
  PROVE  IInv'
<1> USE DEF IInv, handlerVars
<1>1. /\ loopAt = "handle" /\ todo' = todo \ {"read"}
      /\ UNCHANGED <<application, peer, unread, unsent, listenFd, ready, current>>
  BY DEF AcceptorOnRead, Serves
<1>2. ObjectInv /\ PeerInv /\ DescriptorInv
  BY <1>1 DEF OwnInv
<1>3. CASE ~ (backlog # {} /\ FreeFds # {})
  <2>1. UNCHANGED <<kernel, backlog, connections, fdOf, attached, events, handlers,
                    interest, loopAt>>
    BY <1>3 DEF AcceptorOnRead
  <2>2. TypeOK'
    BY <1>1, <2>1 DEF TypeOK
  <2>3. OwnInv'
    BY <1>1, <2>1, OwnSame
  <2> QED
    BY <2>2, <2>3
<1>4. CASE backlog # {} /\ FreeFds # {}
  <2>1. PICK p \in backlog :
          /\ kernel' = [kernel EXCEPT ![NewFd] = p]
          /\ backlog' = backlog \ {p}
          /\ fdOf' = [fdOf EXCEPT ![p] = NewFd]
          /\ IF application = "echo" THEN EchoOnAccepted(p, NewFd)
                                     ELSE HttpOnAccepted(p, NewFd)
    BY <1>4 DEF AcceptorOnRead
  <2>2. p \in Peers /\ p \in Objects /\ p # Acceptor /\ p \notin connections
    BY <1>2, Names DEF TypeOK, PeerInv, Objects
  <2>3. NewFd \in Fds /\ kernel[NewFd] = "closed"
    BY <1>4, NewFdIsFree
  <2>4. /\ kernel' \in [Fds -> Peers \union {"closed", "pipe", "listening"}]
        /\ kernel'[NewFd] = p
        /\ \A f \in Fds : f # NewFd => kernel'[f] = kernel[f]
    BY <2>1, <2>2, <2>3 DEF TypeOK
  <2>5. /\ fdOf' \in [Peers -> Fds \union {Invalid}] /\ fdOf'[p] = NewFd
        /\ \A q \in Peers : q # p => fdOf'[q] = fdOf[q]
    BY <2>1, <2>2, <2>3 DEF TypeOK
  <2>6. \/ NewHandler(p, NewFd) /\ connections' = connections \union {p} /\ loopAt' = loopAt
        \/ /\ UNCHANGED <<attached, events, handlers, interest>>
           /\ connections' = connections \union {p} /\ loopAt' = loopAt
        \/ /\ UNCHANGED <<attached, events, handlers, interest>> /\ loopAt' = "terminated"
           /\ connections' \in {connections, connections \union {p}}
    BY <2>1 DEF EchoOnAccepted, HttpOnAccepted
  <2>7. TypeOK'
    <3>1. CASE NewHandler(p, NewFd) /\ connections' = connections \union {p} /\ loopAt' = loopAt
      BY <1>1, <2>1, <2>2, <2>3, <2>4, <2>5, <3>1, HandlerIsNew DEF TypeOK
    <3>2. CASE /\ UNCHANGED <<attached, events, handlers, interest>>
               /\ connections' \in {connections, connections \union {p}}
               /\ loopAt' \in {loopAt, "terminated"}
      BY <1>1, <2>1, <2>2, <2>4, <2>5, <3>2 DEF TypeOK
    <3> QED
      BY <2>6, <3>1, <3>2
  <2>8. CASE loopAt' = "terminated"
    BY <2>7, <2>8 DEF OwnInv
  <2>9. CASE loopAt' # "terminated"
    <3>1. /\ connections' = connections \union {p} /\ loopAt' = loopAt
          /\ attached' \subseteq attached \union {p} /\ attached \subseteq attached'
      BY <2>6, <2>9 DEF NewHandler
    <3>2. ObjectInv'
      BY <1>1, <1>2, <2>2, <3>1 DEF ObjectInv
    <3>3. PeerInv'
      BY <1>1, <1>2, <2>1, <2>2, <3>1 DEF PeerInv
    <3>4. DescriptorInv'
      <4>1. ASSUME NEW f \in Fds, NEW q \in Peers
            PROVE  kernel'[f] = q <=> q \in connections' /\ fdOf'[q] = f
        <5>1. CASE f = NewFd
          BY <1>2, <2>2, <2>3, <2>4, <2>5, <3>1, <5>1, Names DEF DescriptorInv
        <5>2. CASE f # NewFd
          BY <1>2, <2>2, <2>4, <2>5, <3>1, <5>2 DEF DescriptorInv
        <5> QED
          BY <5>1, <5>2
      <4>2. \A q \in connections' : fdOf'[q] \in Fds
        BY <1>2, <2>2, <2>3, <2>5, <3>1 DEF DescriptorInv, TypeOK
      <4>3. /\ \A f \in Fds : kernel'[f] = "listening" <=> listenFd' = f
            /\ \A f \in Fds : kernel'[f] = "pipe" <=> f \in {PipeWriter, WakeupFd}
        <5>1. p # "listening" /\ p # "pipe"
          BY <2>2, Names
        <5> QED
          BY <1>1, <1>2, <2>3, <2>4, <5>1 DEF DescriptorInv
      <4>4. loopAt' # "destroyed"
        BY <1>1, <3>1
      <4> QED
        BY <4>1, <4>2, <4>3, <4>4, Zenon DEF DescriptorInv
    <3> QED
      BY <2>7, <3>2, <3>3, <3>4 DEF OwnInv
  <2> QED
    BY <2>8, <2>9
<1> QED
  BY <1>3, <1>4

-----------------------------------------------------------------------------
(* The owners: the steps of the connections.                               *)

\* The application always knows the connection that is disconnected.
LEMMA IsKnown ==
  ASSUME OwnInv, NEW p \in attached \intersect Peers, loopAt # "terminated"
  PROVE  p \in connections /\ Known(p)
<1> QED
  BY DEF OwnInv, ObjectInv, Known

LEMMA OwnDelete ==
  ASSUME IInv, loopAt # "terminated",
         NEW p \in connections, NEW selected \in [Fds -> SUBSET Event],
         Delete(p, selected), connections' = connections \ {p},
         UNCHANGED <<application, backlog, listenFd, loopAt, ready, current>>,
         todo' \subseteq todo
  PROVE  IInv'
<1> USE DEF IInv
<1>1. /\ DeleteHandler(p, selected)
      /\ kernel' = [kernel EXCEPT ![fdOf[p]] = "closed"]
      /\ fdOf' = [fdOf EXCEPT ![p] = Invalid]
      /\ unsent' = unsent \ {p} /\ unread' = unread \ {p}
      /\ peer' = [peer EXCEPT ![p] = "gone"]
  BY DEF Delete
<1>2. ObjectInv /\ PeerInv /\ DescriptorInv
  BY DEF OwnInv
<1>3. p \in Peers /\ p \in Objects /\ p # Acceptor /\ fdOf[p] \in Fds /\ kernel[fdOf[p]] = p
  BY <1>2, Names DEF TypeOK, Objects, DescriptorInv
<1>4. /\ kernel' \in [Fds -> Peers \union {"closed", "pipe", "listening"}]
      /\ kernel'[fdOf[p]] = "closed"
      /\ \A f \in Fds : f # fdOf[p] => kernel'[f] = kernel[f]
  BY <1>1, <1>3 DEF TypeOK
<1>5. /\ fdOf' \in [Peers -> Fds \union {Invalid}] /\ fdOf'[p] = Invalid
      /\ \A q \in Peers : q # p => fdOf'[q] = fdOf[q]
  BY <1>1, <1>3 DEF TypeOK
<1>6. /\ peer' \in [Peers -> {"new", "open", "ended", "reset", "gone"}] /\ peer'[p] = "gone"
      /\ \A q \in Peers : q # p => peer'[q] = peer[q]
  BY <1>1, <1>3 DEF TypeOK
<1>7. TypeOK'
  BY <1>1, <1>3, <1>4, <1>5, <1>6, HandlerIsDeleted DEF TypeOK
<1>8. attached' = attached \ {p}
  BY <1>1 DEF DeleteHandler
<1>9. ObjectInv' /\ PeerInv'
  BY <1>1, <1>2, <1>3, <1>6, <1>8 DEF ObjectInv, PeerInv
<1>10. DescriptorInv'
  <2>1. ASSUME NEW f \in Fds, NEW q \in Peers
        PROVE  kernel'[f] = q <=> q \in connections' /\ fdOf'[q] = f
    <3>1. CASE f = fdOf[p]
      BY <1>2, <1>3, <1>4, <1>5, <3>1, Names DEF DescriptorInv
    <3>2. CASE f # fdOf[p]
      BY <1>2, <1>3, <1>4, <1>5, <3>2 DEF DescriptorInv
    <3> QED
      BY <3>1, <3>2
  <2>2. \A q \in connections' : fdOf'[q] \in Fds
    BY <1>2, <1>5 DEF DescriptorInv, TypeOK
  <2>3. /\ \A f \in Fds : kernel'[f] = "listening" <=> listenFd' = f
        /\ \A f \in Fds : kernel'[f] = "pipe" <=> f \in {PipeWriter, WakeupFd}
    <3>1. p # "listening" /\ p # "pipe"
      BY <1>3, Names
    <3> QED
      BY <1>2, <1>3, <1>4, <3>1 DEF DescriptorInv
  <2>4. loopAt' # "destroyed"
    BY <1>2 DEF DescriptorInv
  <2> QED
    BY <2>1, <2>2, <2>3, <2>4, Zenon DEF DescriptorInv
<1> QED
  BY <1>7, <1>9, <1>10 DEF OwnInv

LEMMA OwnOnRead ==
  ASSUME IInv, NEW p \in Peers, OnRead(p)
  PROVE  IInv'
<1> USE DEF IInv
<1>1. /\ loopAt = "handle" /\ p \in attached /\ todo' = todo \ {"read"}
      /\ UNCHANGED <<application, backlog, listenFd, loopAt, ready, current>>
  BY DEF OnRead, Serves
<1>2. p \in connections /\ Known(p) /\ fdOf[p] \in Fds
  BY <1>1, IsKnown DEF OwnInv, DescriptorInv
<1>3. CASE Received(p)
  <2>1. /\ unread' = unread \ {p} /\ unsent' \in {unsent, unsent \union {p}}
        /\ events' = [events EXCEPT ![p] = IF p \in unsent' THEN @ \union {"write"} ELSE @]
        /\ interest' = IF p \in unsent' THEN Updated(p, fdOf[p], events'[p]) ELSE interest
        /\ UNCHANGED <<kernel, peer, connections, fdOf, attached, handlers>>
    BY <1>3 DEF Received
  <2>2. events' \in [Objects -> SUBSET Event] /\ events'[p] \subseteq Event
    BY <2>1 DEF TypeOK, Objects, Event
  <2>3. interest' \in [Fds -> SUBSET Event]
    BY <1>2, <2>1, <2>2, UpdatedType DEF TypeOK
  <2>4. TypeOK'
    BY <1>1, <2>1, <2>2, <2>3 DEF TypeOK
  <2>5. OwnInv'
    BY <1>1, <1>2, <2>1, OwnSame
  <2> QED
    BY <2>4, <2>5
<1>4. CASE Disconnected(p, Updated(p, fdOf[p], events[p] \ {"read"}))
  <2>1. events[p] \ {"read"} \subseteq Event
    BY DEF TypeOK, Objects
  <2>2. Updated(p, fdOf[p], events[p] \ {"read"}) \in [Fds -> SUBSET Event]
    BY <1>2, <2>1, UpdatedType
  <2> QED
    BY <1>1, <1>2, <1>4, <2>2, OwnDelete DEF Disconnected
<1> QED
  BY <1>3, <1>4 DEF OnRead

LEMMA OwnOnWrite ==
  ASSUME IInv, NEW p \in Peers, OnWrite(p)
  PROVE  IInv'
<1> USE DEF IInv, peerVars
<1>1. /\ loopAt = "handle" /\ p \in attached /\ todo' = todo \ {"write"}
      /\ unsent' \in {unsent, unsent \ {p}}
      /\ events' = [events EXCEPT ![p] = IF p \in unsent' THEN @ ELSE @ \ {"write"}]
      /\ interest' = IF p \in unsent' THEN interest ELSE Updated(p, fdOf[p], events'[p])
      /\ UNCHANGED <<application, kernel, backlog, peer, unread, listenFd, connections,
                     fdOf, attached, handlers, loopAt, ready, current>>
  BY DEF OnWrite, Serves
<1>2. p \in connections /\ fdOf[p] \in Fds
  BY <1>1, IsKnown DEF OwnInv, DescriptorInv
<1>3. events' \in [Objects -> SUBSET Event] /\ events'[p] \subseteq Event
  BY <1>1 DEF TypeOK, Objects
<1>4. interest' \in [Fds -> SUBSET Event]
  BY <1>1, <1>2, <1>3, UpdatedType DEF TypeOK
<1>5. TypeOK'
  BY <1>1, <1>3, <1>4 DEF TypeOK
<1>6. OwnInv'
  BY <1>1, OwnSame
<1> QED
  BY <1>5, <1>6

LEMMA OwnPeer ==
  ASSUME IInv, NEW p \in Peers, Peer(p)
  PROVE  IInv'
<1> USE DEF IInv, objectVars, handlerVars, loopVars
<1>1. /\ UNCHANGED <<application, kernel, unsent, listenFd, connections, fdOf, attached,
                     events, handlers, interest, loopAt, ready, current, todo>>
      /\ \E x \in {"new", "open", "ended", "reset", "gone"} :
           peer' = [peer EXCEPT ![p] = x] /\ (x = "new" => peer[p] = "new")
      /\ \/ backlog' = backlog
         \/ backlog' = backlog \ {p}
         \/ backlog' = backlog \union {p} /\ peer[p] = "new" /\ peer'[p] # "new"
      /\ unread' \in {unread, unread \union {p}, unread \ {p}}
  <2>1. CASE PeerSends(p)
    <3>1. peer' = [peer EXCEPT ![p] = peer[p]]
      BY <2>1 DEF PeerSends, TypeOK
    <3>2. peer[p] \in {"new", "open", "ended", "reset", "gone"}
      BY DEF TypeOK
    <3> QED
      BY <2>1, <3>1, <3>2 DEF PeerSends
  <2>2. CASE PeerConnects(p)
    <3>1. peer'[p] = "open"
      BY <2>2 DEF PeerConnects, TypeOK
    <3> QED
      BY <2>2, <3>1 DEF PeerConnects
  <2>3. CASE PeerVanishes(p)
    BY <2>3 DEF PeerVanishes
  <2>4. ASSUME NEW how \in {"ended", "reset"}, PeerLeaves(p, how) PROVE <1>1!1 /\ <1>1!2 /\ <1>1!3 /\ <1>1!4
    BY <2>4 DEF PeerLeaves
  <2> QED
    BY <2>1, <2>2, <2>3, <2>4 DEF Peer
<1>2. TypeOK'
  BY <1>1 DEF TypeOK
<1>3. ASSUME loopAt # "terminated" PROVE OwnInv'
  <2>1. ObjectInv /\ PeerInv /\ DescriptorInv
    BY <1>3 DEF OwnInv
  <2>2. ObjectInv' /\ DescriptorInv'
    BY <1>1, <2>1 DEF ObjectInv, DescriptorInv
  <2>3. PeerInv'
    <3>1. \A q \in Peers : q # p => peer'[q] = peer[q] /\ (q \in backlog' <=> q \in backlog)
      BY <1>1 DEF TypeOK
    <3>2. peer'[p] = "new" => peer[p] = "new"
      BY <1>1 DEF TypeOK
    <3> QED
      BY <1>1, <2>1, <3>1, <3>2 DEF PeerInv
  <2> QED
    BY <2>2, <2>3 DEF OwnInv
<1> QED
  BY <1>1, <1>2, <1>3 DEF OwnInv

LEMMA OwnStep ==
  ASSUME IInv, [Next]_vars
  PROVE  IInv'
<1>1. CASE Open
  BY <1>1, OwnOpen
<1>2. CASE Close
  <2>1. loopAt # "terminated"
    BY <1>2 DEF Close, InUserCode
  <2> QED
    BY <1>2, <2>1, OwnCloseAcceptor DEF Close, loopVars
<1>3. CASE AcceptorOnRead
  BY <1>3, OwnAcceptorOnRead
<1>4. ASSUME NEW p \in Peers, OnRead(p) \/ OnWrite(p) PROVE IInv'
  BY <1>4, OwnOnRead, OwnOnWrite
<1>5. CASE Run \/ Select \/ EndHandle \/ EndDispatch \/ EndInvoke \/ \E fd \in Fds : Dispatch(fd)
  BY <1>5, OwnLoop
<1>6. CASE DeleteAcceptor
  <2>1. loopAt # "terminated"
    BY <1>6 DEF DeleteAcceptor
  <2> QED
    BY <1>6, <2>1, OwnCloseAcceptor DEF DeleteAcceptor
<1>7. ASSUME NEW p \in Peers, DeleteConnection(p) PROVE IInv'
  <2>1. interest \in [Fds -> SUBSET Event]
    BY DEF IInv, TypeOK
  <2> QED
    BY <1>7, <2>1, OwnDelete DEF DeleteConnection, loopVars
<1>8. ASSUME NEW p \in Peers, Peer(p) PROVE IInv'
  BY <1>8, OwnPeer
<1>9. CASE UNCHANGED vars
  BY <1>9 DEF vars, peerVars, objectVars, handlerVars, loopVars, IInv, TypeOK, OwnInv,
              ObjectInv, PeerInv, DescriptorInv
<1> QED
  BY <1>1, <1>2, <1>3, <1>4, <1>5, <1>6, <1>7, <1>8, <1>9 DEF Next, LoopStep, Destruction

LEMMA OwnInductive == Spec => []IInv
<1>1. IInv /\ [Next]_vars => IInv'
  BY OwnStep
<1> QED
  BY <1>1, OwnInit, PTL DEF Spec

\* Every descriptor that is accepted belongs to one connection that the application
\* keeps, and is closed with it: with any peers, any number of descriptors, and both
\* applications.
THEOREM DescriptorsAreOwned == Spec => []AcceptedOwned
<1>1. IInv => AcceptedOwned
  <2> SUFFICES ASSUME IInv, loopAt # "terminated" PROVE DescriptorInv => AcceptedOwned
    BY DEF IInv, OwnInv, AcceptedOwned
  <2> QED
    BY Names DEF IInv, TypeOK, DescriptorInv, AcceptedOwned
<1> QED
  BY <1>1, OwnInductive, PTL

-----------------------------------------------------------------------------
(* The registry and the loop.                                              *)

LEMMA LoopInit == Init => LoopInv
<1> SUFFICES ASSUME Init PROVE LoopInv
  OBVIOUS
<1> USE PipeFds, Names
<1>1. ListenInv /\ PatientInv
  BY DEF Init, ListenInv, PatientInv
<1>2. RegistryInv
  BY DEF Init, RegistryInv, Objects
<1>3. EventsInv /\ InterestInv /\ ReadyInv /\ ServedInv
  BY DEF Init, EventsInv, InterestInv, ReadyInv, ServedInv, Objects
<1> QED
  BY <1>1, <1>2, <1>3 DEF Init, LoopInv

\* While the program runs, an object that is registered owns the descriptor.
LEMMA RegisteredOwns ==
  ASSUME IInv, RegistryInv, loopAt # "terminated", NEW f \in Fds
  PROVE  /\ \A p \in Peers : handlers[f] = p => p \in connections /\ kernel[f] = p
         /\ handlers[f] = Acceptor => Acceptor \in attached /\ kernel[f] = "listening"
         /\ handlers[f] = WakeupHandler => kernel[f] = "pipe"
         /\ kernel[f] = "closed" => handlers[f] = NoHandler
<1>1. ObjectInv /\ DescriptorInv
  BY DEF IInv, OwnInv
<1>2. handlers[f] \in Peers \union {Acceptor, NoHandler, WakeupHandler}
  BY DEF IInv, TypeOK, Objects
<1>3. /\ \A p \in Peers : handlers[f] = p => p \in connections /\ kernel[f] = p
      /\ handlers[f] = Acceptor => Acceptor \in attached /\ kernel[f] = "listening"
      /\ handlers[f] = WakeupHandler => kernel[f] = "pipe"
  BY <1>1, Names DEF RegistryInv, ObjectInv, DescriptorInv
<1> QED
  BY <1>2, <1>3, Names

\* What the loop does with the events, apart from the callbacks.
LEMMA LoopSelect ==
  ASSUME IInv, LoopInv, Select
  PROVE  LoopInv'
<1> USE DEF peerVars, objectVars, handlerVars
<1>1. /\ loopAt = "select" /\ loopAt' \in {"invoke", "dispatch"}
      /\ UNCHANGED <<kernel, backlog, peer, unread, unsent, listenFd, connections, fdOf,
                     attached, events, handlers, interest, current, todo>>
  BY DEF Select
<1>2. ListenInv' /\ RegistryInv' /\ PatientInv' /\ EventsInv'
  BY <1>1 DEF LoopInv, ListenInv, RegistryInv, PatientInv, EventsInv
<1>3. InterestInv' /\ ServedInv'
  BY <1>1 DEF LoopInv, InterestInv, ServedInv, Looping
<1>4. ASSUME loopAt' = "dispatch", NEW f \in Fds, ready'[f] # {}
      PROVE  \/ handlers[f] = Acceptor /\ ready'[f] = {"read"}
             \/ \E p \in Peers : handlers[f] = p /\ Current(p, ready'[f])
  <2>1. PICK writable \in SUBSET {fd \in Fds : "write" \in interest[fd]} :
          ready' = [fd \in Fds |->
             (IF Readable(fd) THEN interest[fd] \intersect {"read"} ELSE {})
               \union (IF fd \in writable THEN {"write"} ELSE {})]
    BY <1>1, <1>4 DEF Select
  <2>2. /\ "read" \in ready'[f] => Readable(f) /\ "read" \in interest[f]
        /\ "write" \in ready'[f] => "write" \in interest[f]
        /\ ready'[f] \subseteq {"read", "write"}
    BY <2>1
  <2>3. interest[f] # {} /\ kernel[f] # "closed"
    BY <1>1, <1>4, <2>2 DEF Select, BadDescriptor
  <2>4. ObjectInv /\ DescriptorInv
    BY <1>1 DEF IInv, OwnInv
  <2>5. CASE f = WakeupFd /\ interest[f] = {"read"}
    <3>1. kernel[f] = "pipe"
      BY <2>4, <2>5 DEF DescriptorInv
    <3>2. ~ Readable(f)
      BY <3>1, Names DEF Readable, IInv, TypeOK
    <3> QED
      BY <1>4, <2>2, <2>5, <3>2
  <2>6. CASE f = PipeListener /\ interest[f] = {"read"}
    <3>1. kernel[f] = "listening"
      BY <2>3, <2>6 DEF LoopInv, ListenInv
    <3>2. handlers[f] = Acceptor
      BY <2>4, <3>1 DEF LoopInv, RegistryInv, DescriptorInv
    <3> QED
      BY <1>4, <2>2, <2>6, <3>2
  <2>7. ASSUME NEW p \in Peers, handlers[f] = p, interest[f] \subseteq events[p]
        PROVE  Current(p, ready'[f])
    <3>1. kernel[f] = p
      BY <1>1, <2>7, RegisteredOwns DEF LoopInv
    <3>2. Readable(f) => p \in unread \/ peer[p] \in {"ended", "reset"}
      BY <3>1, Names DEF Readable
    <3>3. "write" \in interest[f] => p \in unsent
      BY <2>7 DEF LoopInv, EventsInv
    <3> QED
      BY <2>2, <3>2, <3>3 DEF Current
  <2> QED
    BY <1>1, <2>3, <2>5, <2>6, <2>7 DEF LoopInv, InterestInv, Looping
<1>5. ReadyInv'
  BY <1>1, <1>4 DEF ReadyInv, Current
<1> QED
  BY <1>1, <1>2, <1>3, <1>5 DEF LoopInv

LEMMA LoopDispatch ==
  ASSUME IInv, LoopInv, NEW fd \in Fds, Dispatch(fd)
  PROVE  LoopInv'
<1> USE DEF peerVars, objectVars, handlerVars
<1>1. /\ loopAt = "dispatch" /\ ready[fd] # {}
      /\ current' = handlers[fd] /\ todo' = ready[fd]
      /\ ready' = [ready EXCEPT ![fd] = {}]
      /\ loopAt' = IF handlers[fd] = NoHandler THEN "null" ELSE "handle"
      /\ UNCHANGED <<kernel, backlog, peer, unread, unsent, listenFd, connections, fdOf,
                     attached, events, handlers, interest>>
  BY DEF Dispatch
<1>2. \A f \in Fds : ready'[f] = IF f = fd THEN {} ELSE ready[f]
  BY <1>1 DEF IInv, TypeOK
<1>3. \/ handlers[fd] = Acceptor /\ ready[fd] = {"read"}
      \/ \E p \in Peers : handlers[fd] = p /\ Current(p, ready[fd])
  BY <1>1 DEF LoopInv, ReadyInv
<1>4. loopAt' = "handle"
  BY <1>1, <1>3, Names DEF Objects
<1>5. ListenInv' /\ RegistryInv' /\ PatientInv' /\ EventsInv'
  BY <1>1 DEF LoopInv, ListenInv, RegistryInv, PatientInv, EventsInv
<1>6. InterestInv'
  BY <1>1, <1>4 DEF LoopInv, InterestInv, Looping
<1>7. ReadyInv'
  BY <1>1, <1>2 DEF LoopInv, ReadyInv, Current
<1>8. ServedInv'
  <2>1. CASE handlers[fd] = Acceptor /\ ready[fd] = {"read"}
    <3>1. Acceptor \in attached /\ listenFd = fd
      BY <1>1, <2>1, RegisteredOwns DEF LoopInv, RegistryInv
    <3> QED
      BY <1>1, <1>2, <2>1, <3>1 DEF ServedInv
  <2>2. ASSUME NEW p \in Peers, handlers[fd] = p, Current(p, ready[fd]) PROVE ServedInv'
    <3>1. p \in attached /\ fdOf[p] = fd
      BY <2>2 DEF LoopInv, RegistryInv
    <3> QED
      BY <1>1, <1>2, <2>2, <3>1 DEF ServedInv, Current
  <2> QED
    BY <1>3, <2>1, <2>2
<1> QED
  BY <1>4, <1>5, <1>6, <1>7, <1>8 DEF LoopInv

LEMMA LoopQuiet ==
  ASSUME IInv, LoopInv, Run \/ EndHandle \/ EndDispatch \/ EndInvoke
  PROVE  LoopInv'
<1> USE DEF peerVars, objectVars, handlerVars
<1>1. /\ UNCHANGED <<kernel, backlog, peer, unread, unsent, listenFd, connections, fdOf,
                     attached, events, handlers, ready, todo>>
      /\ loopAt \notin {"returned", "destroyed"} /\ loopAt' # "handle"
  BY DEF Run, EndHandle, EndDispatch, EndInvoke
<1>2. loopAt' \notin {"null", "dangling"} /\ (loopAt' = "dispatch" => loopAt = "handle")
  BY DEF Run, EndHandle, EndDispatch, EndInvoke, LoopInv, ServedInv
<1>3. ListenInv' /\ RegistryInv' /\ PatientInv' /\ EventsInv'
  BY <1>1 DEF LoopInv, ListenInv, RegistryInv, PatientInv, EventsInv
<1>4. InterestInv'
  <2>1. CASE Run
    <3>1. \A f \in Fds : interest'[f] = IF f = WakeupFd THEN {"read"} ELSE interest[f]
      BY <2>1 DEF Run, Selected, IInv, TypeOK
    <3> QED
      BY <1>1, <3>1 DEF LoopInv, InterestInv, Looping
  <2>2. CASE EndHandle \/ EndDispatch \/ EndInvoke
    <3>1. interest' = interest
      BY <2>2 DEF EndHandle, EndDispatch, EndInvoke
    <3> QED
      BY <1>1, <3>1 DEF LoopInv, InterestInv, Looping
  <2> QED
    BY <2>1, <2>2
<1>5. ReadyInv'
  BY <1>1, <1>2 DEF LoopInv, ReadyInv, Current
<1>6. ServedInv'
  BY <1>1 DEF ServedInv
<1> QED
  BY <1>2, <1>3, <1>4, <1>5, <1>6 DEF LoopInv

-----------------------------------------------------------------------------
(* The registry, as the acceptor opens, closes and accepts.                *)

LEMMA LoopOpen ==
  ASSUME IInv, LoopInv, Open
  PROVE  LoopInv'
<1> USE DEF peerVars, loopVars
<1>1. /\ loopAt \in {"outside", "invoke"} /\ listenFd = Invalid /\ listenFd' = NewFd
      /\ kernel' = [kernel EXCEPT ![NewFd] = "listening"]
      /\ NewHandler(Acceptor, NewFd)
      /\ UNCHANGED <<backlog, peer, unread, connections, fdOf, unsent,
                     loopAt, ready, current, todo>>
  BY DEF Open, InUserCode
<1>2. /\ NewFd \in Fds /\ kernel[NewFd] = "closed"
      /\ \A f \in Fds : kernel[f] = "closed" => NewFd <= f
  BY NewFdIsFree DEF Open, IInv
<1>3. NewFd = PipeListener
  <2>1. kernel[PipeListener] = "closed"
    BY <1>1, PipeFds, Names DEF LoopInv, ListenInv, IInv, OwnInv, DescriptorInv
  <2>2. NewFd <= PipeListener /\ PipeListener <= NewFd /\ NewFd \in Nat /\ PipeListener \in Nat
    BY <1>2, <2>1, PipeFds, TcpServerAssumption
  <2> QED
    BY <2>2
<1>4. handlers[NewFd] = NoHandler
  BY <1>1, <1>2, RegisteredOwns DEF LoopInv
<1>5. /\ attached' = attached \union {Acceptor}
      /\ events'[Acceptor] = {"read"}
      /\ \A p \in Peers : events'[p] = events[p]
      /\ \A f \in Fds : handlers'[f] = IF f = NewFd THEN Acceptor ELSE handlers[f]
      /\ \A f \in Fds : interest'[f] = IF f = NewFd THEN {"read"} ELSE interest[f]
  BY <1>1, <1>2, <1>4, HandlerIsNew, Names DEF IInv, Objects
<1>6. ListenInv'
  BY <1>1, <1>2, <1>3 DEF ListenInv, IInv, TypeOK
<1>7. RegistryInv'
  <2>1. \A f \in Fds : /\ \A p \in Peers : handlers[f] = p <=> p \in attached /\ fdOf[p] = f
                       /\ handlers[f] # Acceptor
                       /\ handlers[f] = WakeupHandler <=> f = WakeupFd
    BY <1>1, Names DEF LoopInv, RegistryInv
  <2> QED
    BY <1>1, <1>2, <1>4, <1>5, <2>1, Names DEF RegistryInv, Objects
<1>8. PatientInv' /\ EventsInv'
  BY <1>1, <1>5 DEF LoopInv, PatientInv, EventsInv
<1>9. InterestInv'
  <2>1. Looping
    BY <1>1 DEF Looping
  <2> QED
    BY <1>3, <1>4, <1>5, <2>1, Names DEF LoopInv, InterestInv, Objects
<1>10. ReadyInv' /\ ServedInv'
  BY <1>1 DEF ReadyInv, ServedInv
<1> QED
  BY <1>1, <1>6, <1>7, <1>8, <1>9, <1>10 DEF LoopInv

LEMMA LoopCloseAcceptor ==
  ASSUME IInv, LoopInv, CloseAcceptor, loopAt \in {"outside", "invoke", "returned"},
         UNCHANGED <<connections, fdOf, unsent, ready, current, todo>>,
         loopAt' = loopAt \/ loopAt' = "destroyed"
  PROVE  LoopInv'
<1>1. /\ DeleteHandler(Acceptor, interest)
      /\ kernel' = [f \in Fds |-> IF f = listenFd THEN "closed" ELSE kernel[f]]
      /\ listenFd' = Invalid /\ unread' = unread \ backlog
      /\ peer' = [p \in Peers |-> IF p \in backlog THEN "gone" ELSE peer[p]]
  BY DEF CloseAcceptor
<1>2. ObjectInv /\ PeerInv /\ DescriptorInv
  BY DEF IInv, OwnInv
<1>3. /\ attached' = attached \ {Acceptor}
      /\ events'[Acceptor] = {}
      /\ \A p \in Peers : events'[p] = events[p]
      /\ \A f \in Fds : handlers'[f] = IF Acceptor \in attached /\ handlers[f] = Acceptor
                                       THEN NoHandler ELSE handlers[f]
      /\ \A f \in Fds : interest'[f] \in {interest[f], {}}
  <2>1. Acceptor \in Objects /\ interest \in [Fds -> SUBSET Event]
    BY DEF Objects, IInv, TypeOK
  <2> QED
    BY <1>1, <2>1, HandlerIsDeleted, Names DEF IInv, Objects
<1>4. ListenInv'
  BY <1>1, PipeFds DEF LoopInv, ListenInv
<1>5. RegistryInv'
  <2>1. \A f \in Fds : handlers'[f] = IF handlers[f] = Acceptor THEN NoHandler ELSE handlers[f]
    BY <1>2, <1>3, Names DEF LoopInv, RegistryInv, ObjectInv
  <2> QED
    BY <1>1, <1>3, <2>1, Names DEF LoopInv, RegistryInv, Objects
<1>6. PatientInv'
  BY <1>1, <1>2 DEF LoopInv, PatientInv, ObjectInv, PeerInv, IInv, TypeOK
<1>7. EventsInv'
  BY <1>3 DEF LoopInv, EventsInv
<1>8. InterestInv'
  <2>1. Looping' => Looping
    BY DEF Looping
  <2>2. \A f \in Fds, p \in Peers : handlers[f] = p => handlers'[f] = p
    BY <1>3, Names
  <2> QED
    BY <1>3, <2>1, <2>2 DEF LoopInv, InterestInv
<1>9. ReadyInv' /\ ServedInv'
  BY DEF ReadyInv, ServedInv
<1>10. loopAt' \notin {"null", "dangling"}
  OBVIOUS
<1> QED
  BY <1>4, <1>5, <1>6, <1>7, <1>8, <1>9, <1>10 DEF LoopInv

LEMMA LoopAcceptorOnRead ==
  ASSUME IInv, LoopInv, AcceptorOnRead
  PROVE  LoopInv'
<1> USE DEF handlerVars
<1>1. /\ loopAt = "handle" /\ current = Acceptor /\ Acceptor \in attached
      /\ todo' = todo \ {"read"}
      /\ UNCHANGED <<peer, unread, unsent, listenFd, ready, current>>
  BY DEF AcceptorOnRead, Serves
<1>2. ObjectInv /\ PeerInv /\ DescriptorInv
  BY <1>1 DEF IInv, OwnInv
<1>3. PatientInv'
  BY <1>1 DEF LoopInv, PatientInv
<1>4. ServedInv'
  <2>1. todo' = {}
    BY <1>1, Names DEF LoopInv, ServedInv
  <2> QED
    BY <2>1 DEF ServedInv
<1>5. CASE ~ (backlog # {} /\ FreeFds # {})
  <2>1. UNCHANGED <<kernel, backlog, connections, fdOf, attached, events, handlers,
                    interest, loopAt>>
    BY <1>5 DEF AcceptorOnRead
  <2>2. ListenInv' /\ RegistryInv' /\ EventsInv' /\ InterestInv' /\ ReadyInv'
    BY <1>1, <2>1
       DEF LoopInv, ListenInv, RegistryInv, EventsInv, InterestInv, Looping, ReadyInv, Current
  <2> QED
    BY <1>3, <1>4, <2>1, <2>2 DEF LoopInv
<1>6. CASE backlog # {} /\ FreeFds # {}
  <2>1. PICK p \in backlog :
          /\ kernel' = [kernel EXCEPT ![NewFd] = p]
          /\ fdOf' = [fdOf EXCEPT ![p] = NewFd]
          /\ IF application = "echo" THEN EchoOnAccepted(p, NewFd)
                                     ELSE HttpOnAccepted(p, NewFd)
    BY <1>6 DEF AcceptorOnRead
  <2>2. p \in Peers /\ p \in Objects /\ p # Acceptor /\ p \notin attached
    BY <1>2, Names DEF IInv, TypeOK, PeerInv, ObjectInv, Objects
  <2>3. NewFd \in Fds /\ kernel[NewFd] = "closed"
    BY <1>6, NewFdIsFree DEF IInv
  <2>4. handlers[NewFd] = NoHandler
    BY <1>1, <2>3, RegisteredOwns DEF LoopInv
  <2>5. NewFd # PipeListener /\ NewFd # WakeupFd
    <3>1. kernel[PipeListener] = "listening" /\ kernel[WakeupFd] = "pipe"
      BY <1>1, <1>2, PipeFds DEF LoopInv, ListenInv, ObjectInv, DescriptorInv
    <3> QED
      BY <2>3, <3>1
  <2>6. ListenInv'
    BY <1>1, <2>1, <2>3, <2>5, PipeFds DEF LoopInv, ListenInv, IInv, TypeOK
  <2>7. /\ fdOf'[p] = NewFd
        /\ \A q \in Peers : q # p => fdOf'[q] = fdOf[q]
    BY <2>1, <2>2 DEF IInv, TypeOK
  <2>8. loopAt' \in {"handle", "terminated"}
    BY <1>1, <2>1 DEF EchoOnAccepted, HttpOnAccepted
  <2>9. CASE UNCHANGED <<attached, events, handlers, interest>>
    <3>1. RegistryInv'
      <4>1. \A f \in Fds : handlers[f] # p
        BY <2>2 DEF LoopInv, RegistryInv
      <4> QED
        BY <1>1, <2>2, <2>7, <2>9, <4>1 DEF LoopInv, RegistryInv
    <3>2. EventsInv' /\ InterestInv' /\ ReadyInv'
      BY <1>1, <2>8, <2>9 DEF LoopInv, EventsInv, InterestInv, Looping, ReadyInv, Current
    <3> QED
      BY <1>3, <1>4, <2>6, <2>8, <3>1, <3>2 DEF LoopInv
  <2>10. CASE NewHandler(p, NewFd)
    <3>1. /\ attached' = attached \union {p}
          /\ events'[p] = {"read"}
          /\ \A q \in Objects : q # p => events'[q] = events[q]
          /\ \A f \in Fds : handlers'[f] = IF f = NewFd THEN p ELSE handlers[f]
          /\ \A f \in Fds : interest'[f] = IF f = NewFd THEN {"read"} ELSE interest[f]
      BY <2>2, <2>3, <2>4, <2>10, HandlerIsNew DEF IInv
    <3>2. RegistryInv'
      <4>1. ASSUME NEW f \in Fds, NEW q \in Peers
            PROVE  handlers'[f] = q <=> q \in attached' /\ fdOf'[q] = f
        BY <2>2, <2>3, <2>4, <2>7, <3>1, <4>1, Names DEF LoopInv, RegistryInv, Objects
      <4>2. listenFd # NewFd
        BY <1>2, <2>3 DEF DescriptorInv
      <4>3. ASSUME NEW f \in Fds
            PROVE  /\ handlers'[f] = Acceptor <=> listenFd' = f
                   /\ handlers'[f] = WakeupHandler <=> f = WakeupFd
        BY <1>1, <2>2, <2>5, <3>1, <4>2, Names DEF LoopInv, RegistryInv
      <4> QED
        BY <4>1, <4>3 DEF RegistryInv
    <3>3. EventsInv'
      BY <1>1, <2>2, <3>1 DEF LoopInv, EventsInv, Objects
    <3>4. InterestInv'
      <4>1. ASSUME NEW f \in Fds, f # NewFd, interest'[f] # {}
            PROVE  \/ f \in {WakeupFd, PipeListener} /\ interest'[f] = {"read"}
                   \/ \E q \in Peers : handlers'[f] = q /\ interest'[f] \subseteq events'[q]
        <5>1. \/ f \in {WakeupFd, PipeListener} /\ interest[f] = {"read"}
              \/ \E q \in Peers : handlers[f] = q /\ interest[f] \subseteq events[q]
          BY <1>1, <3>1, <4>1 DEF LoopInv, InterestInv, Looping
        <5>2. handlers[f] # p
          BY <2>2 DEF LoopInv, RegistryInv
        <5> QED
          BY <3>1, <4>1, <5>1, <5>2 DEF Objects
      <4> QED
        BY <2>2, <3>1, <4>1 DEF InterestInv
    <3>5. ReadyInv'
      BY <1>1, <2>4, <3>1, Names DEF LoopInv, ReadyInv, Current, Objects
    <3> QED
      BY <1>3, <1>4, <2>6, <2>8, <3>2, <3>3, <3>4, <3>5 DEF LoopInv
  <2> QED
    BY <2>1, <2>9, <2>10 DEF EchoOnAccepted, HttpOnAccepted
<1> QED
  BY <1>5, <1>6

-----------------------------------------------------------------------------
(* The registry, as connections receive, send and end.                     *)

\* A connection that is served owns its descriptor, whose events are being served.
LEMMA ServedConnection ==
  ASSUME IInv, LoopInv, loopAt = "handle", NEW p \in Peers,
         current = p, p \in attached, todo # {}
  PROVE  /\ Current(p, todo) /\ fdOf[p] \in Fds /\ ready[fdOf[p]] = {}
         /\ \A f \in Fds : handlers[f] = p <=> f = fdOf[p]
<1>1. p # Acceptor
  BY Names
<1>2. ObjectInv /\ DescriptorInv
  BY DEF IInv, OwnInv
<1> QED
  BY <1>1, <1>2 DEF LoopInv, ServedInv, ObjectInv, DescriptorInv, RegistryInv

\* The events of p, and whether something of it is unsent, change together; what is
\* selected for its descriptor follows.
LEMMA LoopSends ==
  ASSUME IInv, LoopInv, loopAt = "handle", NEW p \in Peers, p \in attached, current = p,
         todo # {}, unread' \subseteq unread, unread \ unread' \subseteq {p},
         \A q \in Peers : q # p => (q \in unsent' <=> q \in unsent),
         p \in unsent' => p \in unsent \/ p \in unread,
         UNCHANGED <<kernel, peer, listenFd, connections, fdOf, attached, handlers,
                     loopAt, ready, current>>,
         events'[p] \subseteq Event, unsent' \subseteq Peers,
         \A q \in Objects : q # p => events'[q] = events[q],
         "write" \in events'[p] => p \in unsent',
         \/ interest' = interest /\ events[p] \subseteq events'[p]
         \/ \A f \in Fds : interest'[f] = IF f = fdOf[p] /\ handlers[f] # NoHandler
                                          THEN events'[p] ELSE interest[f],
         Current(p, todo)'
  PROVE  LoopInv'
<1>1. /\ Current(p, todo) /\ fdOf[p] \in Fds /\ ready[fdOf[p]] = {}
      /\ \A f \in Fds : handlers[f] = p <=> f = fdOf[p]
  BY ServedConnection
<1>2. p \in Objects /\ p # Acceptor /\ Acceptor \in Objects /\ Peers \subseteq Objects
  BY Names DEF Objects
<1>3. ListenInv' /\ RegistryInv'
  BY DEF LoopInv, ListenInv, RegistryInv
<1>4. PatientInv'
  BY DEF LoopInv, PatientInv
<1>5. EventsInv'
  BY <1>2 DEF LoopInv, EventsInv
<1>6. InterestInv'
  <2>1. ASSUME NEW f \in Fds, interest'[f] # {}
        PROVE  \/ f \in {WakeupFd, PipeListener} /\ interest'[f] = {"read"}
               \/ \E q \in Peers : handlers'[f] = q /\ interest'[f] \subseteq events'[q]
    <3>1. CASE f = fdOf[p]
      <4>1. handlers[f] = p /\ p # NoHandler
        BY <1>1, <1>2, <3>1, Names
      <4>2. CASE interest' = interest /\ events[p] \subseteq events'[p]
        BY <1>1, <2>1, <3>1, <4>1, <4>2 DEF LoopInv, InterestInv, Looping
      <4>3. CASE interest'[f] = events'[p]
        BY <4>1, <4>3
      <4> QED
        BY <3>1, <4>1, <4>2, <4>3
    <3>2. CASE f # fdOf[p]
      <4>1. interest'[f] = interest[f] /\ handlers[f] # p
        BY <1>1, <3>2
      <4>2. \/ f \in {WakeupFd, PipeListener} /\ interest[f] = {"read"}
            \/ \E q \in Peers : handlers[f] = q /\ interest[f] \subseteq events[q]
        BY <2>1, <4>1 DEF LoopInv, InterestInv, Looping
      <4> QED
        BY <1>2, <4>1, <4>2
    <3> QED
      BY <3>1, <3>2
  <2> QED
    BY <2>1 DEF InterestInv
<1>7. ReadyInv'
  <2>1. ASSUME NEW f \in Fds, ready[f] # {}
        PROVE  \/ handlers[f] = Acceptor /\ ready[f] = {"read"}
               \/ \E q \in Peers : handlers[f] = q /\ Current(q, ready[f])'
    <3>1. handlers[f] # p
      BY <1>1, <2>1
    <3>2. \/ handlers[f] = Acceptor /\ ready[f] = {"read"}
          \/ \E q \in Peers : handlers[f] = q /\ Current(q, ready[f])
      BY <2>1 DEF LoopInv, ReadyInv
    <3> QED
      BY <3>1, <3>2 DEF Current
  <2> QED
    BY <2>1 DEF ReadyInv, Current
<1>8. ServedInv'
  BY <1>1 DEF ServedInv, Current
<1> QED
  BY <1>3, <1>4, <1>5, <1>6, <1>7, <1>8 DEF LoopInv

LEMMA LoopDelete ==
  ASSUME IInv, LoopInv, loopAt # "terminated",
         NEW p \in connections, NEW selected \in [Fds -> SUBSET Event],
         Delete(p, selected), connections' = connections \ {p},
         UNCHANGED <<backlog, listenFd, loopAt, ready, current>>,
         loopAt = "returned" \/
           (/\ loopAt = "handle" /\ p \in attached /\ ready[fdOf[p]] = {} /\ todo' = {}
            /\ selected[fdOf[p]] = {}
            /\ \A f \in Fds : f # fdOf[p] => selected[f] = interest[f])
  PROVE  LoopInv'
<1>1. /\ DeleteHandler(p, selected)
      /\ kernel' = [kernel EXCEPT ![fdOf[p]] = "closed"]
      /\ fdOf' = [fdOf EXCEPT ![p] = Invalid]
      /\ unsent' = unsent \ {p} /\ unread' = unread \ {p}
      /\ peer' = [peer EXCEPT ![p] = "gone"]
  BY DEF Delete
<1>2. ObjectInv /\ PeerInv /\ DescriptorInv
  BY DEF IInv, OwnInv
<1>3. /\ p \in Peers /\ p \in Objects /\ p # Acceptor /\ fdOf[p] \in Fds
      /\ Peers \subseteq Objects /\ Acceptor \in Objects
  BY <1>2, Names DEF IInv, TypeOK, Objects, DescriptorInv
<1>4. /\ attached' = attached \ {p}
      /\ events'[p] = {}
      /\ \A q \in Objects : q # p => events'[q] = events[q]
      /\ \A f \in Fds : handlers'[f] = IF p \in attached /\ handlers[f] = p
                                       THEN NoHandler ELSE handlers[f]
      /\ \A f \in Fds : interest'[f] \in {selected[f], {}}
  BY <1>1, <1>3, HandlerIsDeleted DEF IInv
<1>5. /\ fdOf'[p] = Invalid /\ peer'[p] = "gone"
      /\ \A q \in Peers : q # p => fdOf'[q] = fdOf[q] /\ peer'[q] = peer[q]
      /\ \A f \in Fds : kernel'[f] \in {kernel[f], "closed"}
  BY <1>1, <1>3 DEF IInv, TypeOK
<1>6. \A f \in Fds : /\ handlers[f] = p <=> p \in attached /\ fdOf[p] = f
                     /\ handlers'[f] = IF handlers[f] = p THEN NoHandler ELSE handlers[f]
  BY <1>3, <1>4 DEF LoopInv, RegistryInv
<1>7. ListenInv'
  BY <1>5, PipeFds DEF LoopInv, ListenInv
<1>8. RegistryInv'
  <2>1. ASSUME NEW f \in Fds, NEW q \in Peers
        PROVE  handlers'[f] = q <=> q \in attached' /\ fdOf'[q] = f
    BY <1>3, <1>4, <1>5, <1>6, Names DEF LoopInv, RegistryInv
  <2>2. ASSUME NEW f \in Fds
        PROVE  /\ handlers'[f] = Acceptor <=> listenFd' = f
               /\ handlers'[f] = WakeupHandler <=> f = WakeupFd
    BY <1>3, <1>6, Names DEF LoopInv, RegistryInv
  <2> QED
    BY <2>1, <2>2 DEF RegistryInv
<1>9. PatientInv' /\ EventsInv'
  BY <1>1, <1>3, <1>4, <1>5 DEF LoopInv, PatientInv, EventsInv, IInv, TypeOK
<1>10. CASE loopAt = "returned"
  BY <1>7, <1>8, <1>9, <1>10 DEF LoopInv, InterestInv, Looping, ReadyInv, ServedInv
<1>11. CASE /\ loopAt = "handle" /\ p \in attached /\ ready[fdOf[p]] = {} /\ todo' = {}
            /\ selected[fdOf[p]] = {}
            /\ \A f \in Fds : f # fdOf[p] => selected[f] = interest[f]
  <2>1. InterestInv'
    <3>1. ASSUME NEW f \in Fds, interest'[f] # {}
          PROVE  \/ f \in {WakeupFd, PipeListener} /\ interest'[f] = {"read"}
                 \/ \E q \in Peers : handlers'[f] = q /\ interest'[f] \subseteq events'[q]
      <4>1. f # fdOf[p] /\ interest'[f] = interest[f] /\ handlers[f] # p
        BY <1>4, <1>6, <1>11, <3>1
      <4>2. \/ f \in {WakeupFd, PipeListener} /\ interest[f] = {"read"}
            \/ \E q \in Peers : handlers[f] = q /\ interest[f] \subseteq events[q]
        BY <1>11, <3>1, <4>1 DEF LoopInv, InterestInv, Looping
      <4>3. handlers'[f] = handlers[f]
        BY <1>6, <4>1
      <4> QED
        BY <1>3, <1>4, <4>1, <4>2, <4>3
    <3> QED
      BY <3>1 DEF InterestInv
  <2>2. ReadyInv'
    <3>1. ASSUME NEW f \in Fds, ready[f] # {}
          PROVE  \/ handlers'[f] = Acceptor /\ ready[f] = {"read"}
                 \/ \E q \in Peers : handlers'[f] = q /\ Current(q, ready[f])'
      <4>1. handlers[f] # p /\ handlers'[f] = handlers[f]
        BY <1>6, <1>11, <3>1
      <4>2. \/ handlers[f] = Acceptor /\ ready[f] = {"read"}
            \/ \E q \in Peers : handlers[f] = q /\ Current(q, ready[f])
        BY <1>11, <3>1 DEF LoopInv, ReadyInv
      <4> QED
        BY <1>1, <1>5, <4>1, <4>2 DEF Current
    <3> QED
      BY <3>1 DEF ReadyInv, Current
  <2>3. ServedInv'
    BY <1>11 DEF ServedInv
  <2> QED
    BY <1>7, <1>8, <1>9, <1>11, <2>1, <2>2, <2>3 DEF LoopInv
<1> QED
  BY <1>10, <1>11

LEMMA LoopOnRead ==
  ASSUME IInv, LoopInv, NEW p \in Peers, OnRead(p)
  PROVE  LoopInv'
<1>1. /\ loopAt = "handle" /\ current = p /\ p \in attached /\ "read" \in todo
      /\ todo' = todo \ {"read"}
      /\ UNCHANGED <<backlog, listenFd, loopAt, ready, current>>
  BY DEF OnRead, Serves
<1>2. /\ Current(p, todo) /\ fdOf[p] \in Fds /\ ready[fdOf[p]] = {}
      /\ \A f \in Fds : handlers[f] = p <=> f = fdOf[p]
      /\ todo # {} /\ p \in Objects /\ todo \subseteq Event
  <2>1. todo # {}
    BY <1>1
  <2> QED
    BY <1>1, <2>1, ServedConnection DEF Objects, IInv, TypeOK
<1>3. CASE Received(p)
  <2>1. /\ p \in unread /\ unread' = unread \ {p}
        /\ unsent' \in {unsent, unsent \union {p}}
        /\ events' = [events EXCEPT ![p] = IF p \in unsent' THEN @ \union {"write"} ELSE @]
        /\ interest' = IF p \in unsent' THEN Updated(p, fdOf[p], events'[p]) ELSE interest
        /\ UNCHANGED <<kernel, peer, connections, fdOf, attached, handlers>>
    BY <1>3 DEF Received
  <2>2. /\ events'[p] = IF p \in unsent' THEN events[p] \union {"write"} ELSE events[p]
        /\ \A q \in Objects : q # p => events'[q] = events[q]
        /\ events'[p] \subseteq Event
    BY <1>2, <2>1 DEF IInv, TypeOK, Event
  <2>3. "write" \in events'[p] => p \in unsent'
    BY <2>1, <2>2 DEF LoopInv, EventsInv
  <2>4. \/ interest' = interest /\ events[p] \subseteq events'[p]
        \/ \A f \in Fds : interest'[f] = IF f = fdOf[p] /\ handlers[f] # NoHandler
                                         THEN events'[p] ELSE interest[f]
    <3>1. CASE p \in unsent'
      <4>1. interest' = Updated(p, fdOf[p], events'[p])
        BY <2>1, <3>1
      <4>2. PICK e \in SUBSET Event : e = events'[p]
        BY <2>2
      <4>3. \A f \in Fds : Updated(p, fdOf[p], e)[f] =
              IF f = fdOf[p] /\ handlers[fdOf[p]] # NoHandler THEN e ELSE interest[f]
        <5>1. TypeOK /\ fdOf[p] \in Fds
          BY <1>2 DEF IInv
        <5> QED
          BY <5>1, UpdatedType, Zenon
      <4> QED
        BY <4>1, <4>2, <4>3
    <3>2. CASE p \notin unsent'
      BY <2>1, <2>2, <3>2
    <3> QED
      BY <3>1, <3>2
  <2>5. Current(p, todo)'
    BY <1>1, <1>2, <2>1 DEF Current
  <2>6. /\ unread' \subseteq unread /\ unread \ unread' \subseteq {p}
        /\ unsent' \subseteq Peers
        /\ \A q \in Peers : q # p => (q \in unsent' <=> q \in unsent)
        /\ p \in unsent' => p \in unsent \/ p \in unread
    BY <2>1 DEF IInv, TypeOK
  <2> QED
    BY <1>1, <1>2, <2>1, <2>2, <2>3, <2>4, <2>5, <2>6, LoopSends
<1>4. CASE p \notin unread /\ Disconnected(p, Updated(p, fdOf[p], events[p] \ {"read"}))
  <2> DEFINE selected == Updated(p, fdOf[p], events[p] \ {"read"})
  <2>1. p \notin unsent
    BY <1>1, <1>2, <1>4 DEF Current, LoopInv, PatientInv
  <2>2. events[p] \ {"read"} = {} /\ todo' = {}
    <3>1. "write" \notin events[p] /\ "write" \notin todo
      BY <1>2, <2>1 DEF Current, LoopInv, EventsInv
    <3>2. events[p] \subseteq Event
      BY <1>2 DEF IInv, TypeOK
    <3> QED
      BY <1>1, <1>2, <3>1, <3>2 DEF Event
  <2>3. /\ selected \in [Fds -> SUBSET Event] /\ selected[fdOf[p]] = {}
        /\ \A f \in Fds : f # fdOf[p] => selected[f] = interest[f]
    <3>1. events[p] \ {"read"} \in SUBSET Event
      BY <2>2
    <3>2. handlers[fdOf[p]] # NoHandler
      BY <1>2, Names
    <3>3. PICK e \in SUBSET Event : e = events[p] \ {"read"}
      BY <3>1
    <3>4. /\ Updated(p, fdOf[p], e) \in [Fds -> SUBSET Event]
          /\ \A f \in Fds : Updated(p, fdOf[p], e)[f] =
               IF f = fdOf[p] /\ handlers[fdOf[p]] # NoHandler THEN e ELSE interest[f]
      <4>1. TypeOK /\ fdOf[p] \in Fds
        BY <1>2 DEF IInv
      <4> QED
        BY <4>1, UpdatedType, Zenon
    <3> QED
      BY <1>2, <2>2, <3>2, <3>3, <3>4
  <2>4. p \in connections /\ Known(p)
    BY <1>1, IsKnown DEF IInv
  <2>5. connections' = connections \ {p} /\ Delete(p, selected)
    BY <1>4, <2>4 DEF Disconnected
  <2> HIDE DEF selected
  <2> QED
    BY <1>1, <1>2, <2>2, <2>3, <2>4, <2>5, LoopDelete
<1> QED
  BY <1>3, <1>4 DEF OnRead

LEMMA LoopOnWrite ==
  ASSUME IInv, LoopInv, NEW p \in Peers, OnWrite(p)
  PROVE  LoopInv'
<1> USE DEF peerVars
<1>1. /\ loopAt = "handle" /\ current = p /\ p \in attached
      /\ "write" \in todo /\ "read" \notin todo /\ todo' = todo \ {"write"}
      /\ unsent' \in {unsent, unsent \ {p}}
      /\ events' = [events EXCEPT ![p] = IF p \in unsent' THEN @ ELSE @ \ {"write"}]
      /\ interest' = IF p \in unsent' THEN interest ELSE Updated(p, fdOf[p], events'[p])
      /\ UNCHANGED <<kernel, backlog, peer, unread, listenFd, connections,
                     fdOf, attached, handlers, loopAt, ready, current>>
  BY DEF OnWrite, Serves
<1>2. /\ Current(p, todo) /\ fdOf[p] \in Fds
      /\ \A f \in Fds : handlers[f] = p <=> f = fdOf[p]
      /\ todo # {} /\ p \in Objects
  <2>1. todo # {}
    BY <1>1
  <2> QED
    BY <1>1, <2>1, ServedConnection DEF Objects
<1>3. /\ events'[p] = IF p \in unsent' THEN events[p] ELSE events[p] \ {"write"}
      /\ \A q \in Objects : q # p => events'[q] = events[q]
      /\ events'[p] \subseteq Event
  BY <1>1, <1>2 DEF IInv, TypeOK
<1>4. "write" \in events'[p] => p \in unsent'
  BY <1>3
<1>5. \/ interest' = interest /\ events[p] \subseteq events'[p]
      \/ \A f \in Fds : interest'[f] = IF f = fdOf[p] /\ handlers[f] # NoHandler
                                       THEN events'[p] ELSE interest[f]
  <2>1. CASE p \notin unsent'
    <3>1. interest' = Updated(p, fdOf[p], events'[p])
      BY <1>1, <2>1
    <3>2. PICK e \in SUBSET Event : e = events'[p]
      BY <1>3
    <3>3. \A f \in Fds : Updated(p, fdOf[p], e)[f] =
            IF f = fdOf[p] /\ handlers[fdOf[p]] # NoHandler THEN e ELSE interest[f]
      BY <1>2, UpdatedType DEF IInv
    <3> QED
      BY <3>1, <3>2, <3>3
  <2>2. CASE p \in unsent'
    BY <1>1, <1>3, <2>2
  <2> QED
    BY <2>1, <2>2
<1>6. Current(p, todo)'
  <2>1. todo' = {}
    BY <1>1 DEF IInv, TypeOK, Event
  <2> QED
    BY <2>1 DEF Current
<1>7. /\ unsent' \subseteq Peers
      /\ \A q \in Peers : q # p => (q \in unsent' <=> q \in unsent)
      /\ p \in unsent' => p \in unsent \/ p \in unread
  BY <1>1 DEF IInv, TypeOK
<1> QED
  BY <1>1, <1>2, <1>3, <1>4, <1>5, <1>6, <1>7, LoopSends

-----------------------------------------------------------------------------
(* The peers, and the theorem.                                             *)

LEMMA LoopPeer ==
  ASSUME Patient = TRUE, IInv, LoopInv, NEW p \in Peers, Peer(p)
  PROVE  LoopInv'
<1> USE DEF objectVars, handlerVars, loopVars
<1>1. UNCHANGED <<kernel, unsent, listenFd, connections, fdOf, attached, events,
                  handlers, interest, loopAt, ready, current, todo>>
  BY DEF Peer, PeerConnects, PeerSends, PeerLeaves, PeerVanishes
<1>2. /\ \A q \in Peers : q # p => peer'[q] = peer[q] /\ (q \in unread' <=> q \in unread)
      /\ unread' \subseteq Peers
      /\ \/ p \in unread' \union unsent => peer'[p] = "open"
         \/ peer'[p] = peer[p] /\ unread' = unread
      /\ p \in backlog \/ (p \in unread => p \in unread')
      /\ peer[p] \in {"ended", "reset"} => p \in backlog \/ peer'[p] \in {"ended", "reset"}
  <2>1. CASE PeerConnects(p)
    <3>1. p \notin unread \union unsent
      BY <2>1 DEF PeerConnects, LoopInv, PatientInv
    <3> QED
      BY <2>1, <3>1 DEF PeerConnects, IInv, TypeOK
  <2>2. CASE PeerSends(p)
    BY <2>2 DEF PeerSends, IInv, TypeOK
  <2>3. CASE PeerVanishes(p)
    <3>1. p \notin unread \union unsent
      BY <2>3 DEF PeerVanishes, LoopInv, PatientInv
    <3> QED
      BY <2>3, <3>1 DEF PeerVanishes, IInv, TypeOK
  <2>4. ASSUME NEW how \in {"ended", "reset"}, PeerLeaves(p, how)
        PROVE  /\ \A q \in Peers : q # p => peer'[q] = peer[q] /\ (q \in unread' <=> q \in unread)
               /\ unread' \subseteq Peers
               /\ p \notin unread' \union unsent /\ p \notin unread
               /\ peer'[p] \in {"ended", "reset"}
    BY <2>4 DEF PeerLeaves, IInv, TypeOK
  <2> QED
    BY <2>1, <2>2, <2>3, <2>4 DEF Peer
<1>3. ListenInv' /\ RegistryInv' /\ EventsInv' /\ InterestInv'
  BY <1>1 DEF LoopInv, ListenInv, RegistryInv, EventsInv, InterestInv, Looping
<1>4. PatientInv'
  BY <1>1, <1>2 DEF LoopInv, PatientInv, IInv, TypeOK
<1>5. ASSUME NEW q \in Peers, q \in attached, loopAt # "terminated",
             NEW E, Current(q, E)
      PROVE  Current(q, E)'
  <2>1. q = p => p \notin backlog
    BY <1>5 DEF IInv, OwnInv, ObjectInv, PeerInv
  <2> QED
    BY <1>1, <1>2, <1>5, <2>1 DEF Current
<1>6. ReadyInv'
  <2>1. ASSUME loopAt \in {"dispatch", "handle"}, NEW f \in Fds, ready[f] # {}
        PROVE  \/ handlers[f] = Acceptor /\ ready[f] = {"read"}
               \/ \E q \in Peers : handlers[f] = q /\ Current(q, ready[f])'
    <3>1. CASE handlers[f] = Acceptor /\ ready[f] = {"read"}
      BY <3>1
    <3>2. ASSUME NEW q \in Peers, handlers[f] = q, Current(q, ready[f])
          PROVE  Current(q, ready[f])'
      <4>1. q \in attached
        BY <3>2 DEF LoopInv, RegistryInv
      <4>2. PICK E : E = ready[f]
        OBVIOUS
      <4>3. Current(q, E)'
        BY <1>5, <2>1, <3>2, <4>1, <4>2
      <4> QED
        BY <1>1, <4>2, <4>3 DEF Current
    <3> QED
      BY <2>1, <3>1, <3>2 DEF LoopInv, ReadyInv
  <2> QED
    BY <1>1, <2>1 DEF ReadyInv, Current
<1>7. ServedInv'
  <2>1. ASSUME loopAt = "handle", current \in attached \intersect Peers, Current(current, todo)
        PROVE  Current(current, todo)'
    <3>1. PICK q \in Peers : q = current
      BY <2>1
    <3>2. PICK E : E = todo
      OBVIOUS
    <3>3. Current(q, E)'
      BY <1>5, <2>1, <3>1, <3>2
    <3> QED
      BY <1>1, <3>1, <3>2, <3>3 DEF Current
  <2> QED
    BY <1>1, <2>1 DEF LoopInv, ServedInv, Current
<1> QED
  BY <1>1, <1>3, <1>4, <1>6, <1>7 DEF LoopInv

LEMMA LoopStepKeeps ==
  ASSUME Patient = TRUE, IInv, LoopInv, [Next]_vars
  PROVE  LoopInv'
<1>1. CASE Open
  BY <1>1, LoopOpen
<1>2. CASE Close
  BY <1>2, LoopCloseAcceptor DEF Close, InUserCode, loopVars
<1>3. CASE AcceptorOnRead
  BY <1>3, LoopAcceptorOnRead
<1>4. ASSUME NEW p \in Peers, OnRead(p) \/ OnWrite(p) PROVE LoopInv'
  BY <1>4, LoopOnRead, LoopOnWrite
<1>5. CASE Select
  BY <1>5, LoopSelect
<1>6. CASE Run \/ EndHandle \/ EndDispatch \/ EndInvoke
  BY <1>6, LoopQuiet
<1>7. ASSUME NEW fd \in Fds, Dispatch(fd) PROVE LoopInv'
  BY <1>7, LoopDispatch
<1>8. CASE DeleteAcceptor
  BY <1>8, LoopCloseAcceptor DEF DeleteAcceptor
<1>9. ASSUME NEW p \in Peers, DeleteConnection(p) PROVE LoopInv'
  <2>1. interest \in [Fds -> SUBSET Event]
    BY DEF IInv, TypeOK
  <2> QED
    BY <1>9, <2>1, LoopDelete DEF DeleteConnection, loopVars
<1>10. ASSUME NEW p \in Peers, Peer(p) PROVE LoopInv'
  BY <1>10, LoopPeer
<1>11. CASE UNCHANGED vars
  BY <1>11 DEF vars, peerVars, objectVars, handlerVars, loopVars, LoopInv, ListenInv,
               RegistryInv, PatientInv, EventsInv, InterestInv, Looping, ReadyInv,
               ServedInv, Current
<1> QED
  BY <1>1, <1>2, <1>3, <1>4, <1>5, <1>6, <1>7, <1>8, <1>9, <1>10, <1>11
     DEF Next, LoopStep, Destruction

\* As long as peers leave only when all they sent is answered, the loop never reaches
\* for a handler that is gone, and a dispatch finds the handler of every descriptor
\* that was reported: however connections and the acceptor come and go in between.
THEOREM HandlersAreAlive ==
  ASSUME Patient = TRUE
  PROVE  Spec => []HandlersMatch
<1>1. IInv /\ LoopInv => HandlersMatch
  <2> SUFFICES ASSUME IInv, LoopInv PROVE HandlersMatch
    OBVIOUS
  <2>1. \A f \in Fds : (\E p \in Peers : handlers[f] = p) \/ handlers[f] = Acceptor
                         => handlers[f] # NoHandler
    BY Names DEF Objects
  <2> QED
    BY <2>1 DEF LoopInv, RegistryInv, ReadyInv, HandlersMatch
<1>2. IInv /\ LoopInv /\ [Next]_vars => LoopInv'
  BY LoopStepKeeps
<1> QED
  BY <1>1, <1>2, LoopInit, OwnInductive, PTL DEF Spec
=============================================================================
