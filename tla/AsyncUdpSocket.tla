---------------------------- MODULE AsyncUdpSocket ----------------------------
(***************************************************************************)
(* netb::AsyncUdpSocket (netb/AsyncUdpSocket.cpp), opened: Send and SendTo *)
(* in the loop thread and in other threads, the queue of datagrams,        *)
(* OnWrite, which holds the queue's lock while it sends, and OnRead.       *)
(*                                                                         *)
(* Send and SendTo differ in the address only.  The handler's Update is as *)
(* in Reactor.tla.  A Send in the loop thread pushes without the lock; the *)
(* race with a push of another thread that is modelled is the one that     *)
(* loses one of the two.                                                   *)
(***************************************************************************)
EXTENDS Integers, Sequences

CONSTANTS
  Threads,     \* threads other than the loop thread that call Send
  Datagrams,   \* each is sent once
  Empty,       \* those of no bytes
  Unsendable,  \* those that sendto() refuses every time: too long, no route, no
               \* address; the others may meet an error that passes
  Sides,       \* who sends: "threads", or the received callback too, one call
               \* at a time ("turns") or whenever they like ("both")
  Room,        \* datagrams the kernel takes before the network does
  InLimit,     \* how often RECEIVE_BUFFER_SIZE bytes fit into _in_buffer
  MaxNet,      \* bound: datagrams that arrive
  MaxErrors    \* bound: calls of sendto() and recvfrom() that meet such an error

ASSUME AsyncUdpAssumption ==
  /\ Empty \subseteq Datagrams /\ Unsendable \subseteq Datagrams
  /\ Sides \subseteq {"threads", "turns", "both"}
  /\ Room \in Nat \ {0} /\ InLimit \in Nat \ {0}
  /\ MaxNet \in Nat /\ MaxErrors \in Nat

VARIABLES
  queue,     \* _out_buffers
  threadAt,  \* of each thread: "idle", or "enable" between push and Update
  events,    \* _events of the handler
  interest,  \* what the selector watches
  updates,   \* UpdateInLoop functions in the loop's queue
  loopAt,    \* where the loop thread is
  ready,     \* events of the handler that are yet to be served
  push,      \* the datagram a callback pushes, and the place found for it
  room,      \* datagrams the kernel takes now
  errors,    \* errors that the network can still cause
  net,       \* datagrams that have arrived and are not received
  arrived,   \* datagrams that ever arrived
  inbox,     \* datagrams in _in_buffer
  side,      \* the member of Sides that the program has chosen
  ret,       \* history: what Send returned for each datagram
  accepted,  \* history: datagrams that Send took, in order
  wire       \* history: datagrams the kernel took, in order

handlerVars == <<events, interest, updates>>
loopVars == <<loopAt, ready, push>>
netVars == <<room, errors, net, arrived, inbox>>
historyVars == <<side, ret, accepted, wire>>
vars == <<queue, threadAt, handlerVars, loopVars, netVars, historyVars>>

\* "drain" and "disable" are in OnWrite, which holds _out_buffers_mutex.
LoopAt == {"select", "handle", "received", "push", "watch", "drain", "disable"}
Locked == loopAt \in {"drain", "disable"}

\* Nobody is inside a call of Send.
NobodySends == loopAt \notin {"push", "watch"} /\ \A t \in Threads : threadAt[t] = "idle"

Nothing == <<>>
Unsent == "unsent"      \* Send was not called
Sent == "sent"          \* it returned the length of the datagram
Zero == "zero"          \* it returned 0
Failed == "failed"      \* it returned -1

-----------------------------------------------------------------------------
(* The kernel.                                                             *)

\* sendto() takes d.
Sends(d) ==
  /\ room > 0 /\ d \notin Unsendable
  /\ room' = room - 1
  /\ wire' = Append(wire, d)

\* A call fails with an error that passes.
Passing == errors > 0 /\ errors' = errors - 1

\* sendto() takes nothing of d: the kernel is full, or there is an error.
FailsToSend(d) ==
  \/ (room = 0 \/ d \in Unsendable) /\ UNCHANGED errors
  \/ Passing

-----------------------------------------------------------------------------
(* Operations with a bug one could plausibly write, for trying the         *)
(* properties.                                                             *)

\* OnWrite ends with DisableWriting whatever is left.
OnWriteEndAlways ==
  /\ loopAt = "drain"
  /\ IF queue = <<>> THEN UNCHANGED errors ELSE FailsToSend(Head(queue))
  /\ loopAt' = "disable"
  /\ UNCHANGED <<queue, threadAt, handlerVars, ready, push, room, net, arrived, inbox,
                 historyVars>>

\* The loop thread sends at once whether or not others wait.
LoopSendOvertaking(d) ==
  /\ side # "threads" /\ (side = "turns" => NobodySends)
  /\ loopAt = "received" /\ ret[d] = Unsent
  /\ Sends(d) /\ accepted' = Append(accepted, d)
  /\ ret' = [ret EXCEPT ![d] = Sent]
  /\ UNCHANGED <<queue, threadAt, handlerVars, loopVars, errors, net, arrived, inbox, side>>

\* OnRead receives without asking for space.
OnReadPastLimit ==
  /\ loopAt = "handle" /\ "read" \in ready
  /\ inbox' = inbox + 1 /\ net' = net - 1
  /\ ready' = ready \ {"read"}
  /\ loopAt' = "received"
  /\ UNCHANGED <<queue, threadAt, handlerVars, push, room, errors, arrived, historyVars>>

\* OnWrite disables everything.
OnWriteDisableAll ==
  /\ loopAt = "disable"
  /\ events' = {} /\ interest' = events'
  /\ loopAt' = "handle"
  /\ UNCHANGED <<queue, threadAt, updates, ready, push, netVars, historyVars>>

-----------------------------------------------------------------------------
(* Send and SendTo in another thread.                                      *)

\* Push under the lock,
Send(t, d) ==
  /\ side = "turns" => NobodySends
  /\ threadAt[t] = "idle" /\ ret[d] = Unsent
  /\ ~ Locked
  /\ queue' = Append(queue, d)
  /\ accepted' = Append(accepted, d)
  /\ ret' = [ret EXCEPT ![d] = Sent]
  /\ threadAt' = [threadAt EXCEPT ![t] = "enable"]
  /\ UNCHANGED <<handlerVars, loopVars, netVars, side, wire>>

\* then EnableWriting: set the event and queue an update.
EnableWriting(t) ==
  /\ threadAt[t] = "enable"
  /\ threadAt' = [threadAt EXCEPT ![t] = "idle"]
  /\ events' = events \union {"write"}
  /\ updates' = updates + 1
  /\ UNCHANGED <<queue, interest, loopVars, netVars, historyVars>>

-----------------------------------------------------------------------------
(* Send and SendTo in the loop thread, from the received callback.         *)

\* With an empty queue, send at once; an error is not less than n once it is
\* compared as a size_t, and is returned.
LoopSend(d) ==
  /\ side # "threads" /\ (side = "turns" => NobodySends)
  /\ loopAt = "received" /\ ret[d] = Unsent
  /\ queue = <<>>
  /\ \/ /\ Sends(d) /\ accepted' = Append(accepted, d)
        /\ ret' = [ret EXCEPT ![d] = IF d \in Empty THEN Zero ELSE Sent]
        /\ UNCHANGED errors
     \/ /\ FailsToSend(d)
        /\ ret' = [ret EXCEPT ![d] = Failed]
        /\ UNCHANGED <<room, wire, accepted>>
  /\ UNCHANGED <<queue, threadAt, handlerVars, loopVars, net, arrived, inbox, side>>

\* With others waiting, push behind them (a datagram of no bytes is dropped: 0
\* is not less than 0) and return 0.  The push finds its place first,
LoopSendLater(d) ==
  /\ side # "threads" /\ (side = "turns" => NobodySends)
  /\ loopAt = "received" /\ ret[d] = Unsent
  /\ queue # <<>>
  /\ ret' = [ret EXCEPT ![d] = Zero]
  /\ IF d \in Empty THEN UNCHANGED <<loopAt, push>>
     ELSE loopAt' = "push" /\ push' = <<d, Len(queue) + 1>>
  /\ UNCHANGED <<queue, threadAt, handlerVars, ready, netVars, side, accepted, wire>>

\* and takes it, without the lock.
LoopPush ==
  /\ loopAt = "push"
  /\ queue' = [i \in 1 .. push[2] |-> IF i = push[2] THEN push[1] ELSE queue[i]]
  /\ accepted' = Append(accepted, push[1])
  /\ push' = Nothing
  /\ loopAt' = "watch"
  /\ UNCHANGED <<threadAt, handlerVars, ready, netVars, side, ret, wire>>

LoopEnableWriting ==
  /\ loopAt = "watch"
  /\ events' = events \union {"write"} /\ interest' = events'
  /\ loopAt' = "received"
  /\ UNCHANGED <<queue, threadAt, updates, ready, push, netVars, historyVars>>

-----------------------------------------------------------------------------
(* The loop thread.                                                        *)

\* Select reports what is both watched and ready.
Select ==
  /\ loopAt = "select"
  /\ ready' = {e \in interest : IF e = "read" THEN net > 0 ELSE room > 0}
  /\ ready' # {}
  /\ loopAt' = "handle"
  /\ UNCHANGED <<queue, threadAt, handlerVars, push, netVars, historyVars>>

\* A queued UpdateInLoop, after the wakeup that came with it.
UpdateInLoop ==
  /\ loopAt = "select" /\ updates > 0
  /\ updates' = updates - 1
  /\ interest' = events
  /\ UNCHANGED <<queue, threadAt, events, loopVars, netVars, historyVars>>

\* OnRead: with space, receive one datagram and call the user.
OnRead ==
  /\ loopAt = "handle" /\ "read" \in ready
  /\ inbox < InLimit
  /\ inbox' = inbox + 1 /\ net' = net - 1
  /\ ready' = ready \ {"read"}
  /\ loopAt' = "received"
  /\ UNCHANGED <<queue, threadAt, handlerVars, push, room, errors, arrived, historyVars>>

\* OnRead without space, or with an error, receives nothing, and tells nobody.
OnReadError ==
  /\ loopAt = "handle" /\ "read" \in ready
  /\ IF inbox = InLimit THEN UNCHANGED errors ELSE Passing
  /\ ready' = ready \ {"read"}
  /\ UNCHANGED <<queue, threadAt, handlerVars, loopAt, push, room, net, arrived, inbox,
                 historyVars>>

\* The received callback flushes what it has read, or does not, and returns.
Flush ==
  /\ loopAt = "received"
  /\ inbox' = 0
  /\ UNCHANGED <<queue, threadAt, handlerVars, loopVars, room, errors, net, arrived,
                 historyVars>>

Return ==
  /\ loopAt = "received"
  /\ loopAt' = "handle"
  /\ UNCHANGED <<queue, threadAt, handlerVars, ready, push, netVars, historyVars>>

\* OnWrite: take the lock,
OnWrite ==
  /\ loopAt = "handle" /\ ready = {"write"}
  /\ ready' = {}
  /\ loopAt' = "drain"
  /\ UNCHANGED <<queue, threadAt, handlerVars, push, netVars, historyVars>>

\* send the first datagram and remove it, unless the result is 0,
OnWriteSend ==
  /\ loopAt = "drain"
  /\ queue # <<>> /\ Sends(Head(queue))
  /\ IF Head(queue) \in Empty
     THEN loopAt' = "handle" /\ UNCHANGED queue
     ELSE queue' = Tail(queue) /\ UNCHANGED loopAt
  /\ UNCHANGED <<threadAt, handlerVars, ready, push, errors, net, arrived, inbox,
                 side, ret, accepted>>

\* and leave the loop with nothing left, or at an error, whatever it is: the
\* datagram stays the first, and the write event stays set.
OnWriteEnd ==
  /\ loopAt = "drain"
  /\ \/ queue = <<>> /\ loopAt' = "disable" /\ UNCHANGED errors
     \/ queue # <<>> /\ FailsToSend(Head(queue)) /\ loopAt' = "handle"
  /\ UNCHANGED <<queue, threadAt, handlerVars, ready, push, room, net, arrived, inbox,
                 historyVars>>

\* DisableWriting, and release the lock.
OnWriteDisable ==
  /\ loopAt = "disable"
  /\ events' = events \ {"write"} /\ interest' = events'
  /\ loopAt' = "handle"
  /\ UNCHANGED <<queue, threadAt, updates, ready, push, netVars, historyVars>>

EndHandle ==
  /\ loopAt = "handle" /\ ready = {}
  /\ loopAt' = "select"
  /\ UNCHANGED <<queue, threadAt, handlerVars, ready, push, netVars, historyVars>>

-----------------------------------------------------------------------------
(* The network.                                                            *)

Arrive ==
  /\ arrived < MaxNet
  /\ arrived' = arrived + 1 /\ net' = net + 1
  /\ UNCHANGED <<queue, threadAt, handlerVars, loopVars, room, errors, inbox, historyVars>>

Transmit ==
  /\ room < Room
  /\ room' = Room
  /\ UNCHANGED <<queue, threadAt, handlerVars, loopVars, errors, net, arrived, inbox,
                 historyVars>>

-----------------------------------------------------------------------------
\* Opened, with reading enabled.
Init ==
  /\ queue = <<>> /\ threadAt = [t \in Threads |-> "idle"]
  /\ events = {"read"} /\ interest = {"read"} /\ updates = 0
  /\ loopAt = "select" /\ ready = {} /\ push = Nothing
  /\ room = Room /\ errors = MaxErrors /\ net = 0 /\ arrived = 0 /\ inbox = 0
  /\ side \in Sides
  /\ ret = [d \in Datagrams |-> Unsent]
  /\ accepted = <<>> /\ wire = <<>>

LoopStep ==
  \/ UpdateInLoop \/ OnRead \/ OnReadError \/ Return
  \/ LoopPush \/ LoopEnableWriting
  \/ OnWrite \/ OnWriteSend \/ OnWriteEnd \/ OnWriteDisable \/ EndHandle

Next ==
  \/ LoopStep \/ Select \/ Flush
  \/ \E d \in Datagrams : LoopSend(d) \/ LoopSendLater(d)
  \/ \E t \in Threads : EnableWriting(t) \/ \E d \in Datagrams : Send(t, d)
  \/ Arrive \/ Transmit

Spec == Init /\ [][Next]_vars

\* Every thread runs on, select() returns when something watched is ready, and
\* the network takes what the kernel has; after every round of dispatching Run
\* runs the queued functions, however often select() finds a descriptor ready.
Fairness ==
  /\ WF_vars(LoopStep) /\ WF_vars(Select) /\ WF_vars(Transmit)
  /\ SF_vars(UpdateInLoop)
  /\ \A t \in Threads : WF_vars(EnableWriting(t))

FairSpec == Spec /\ Fairness

-----------------------------------------------------------------------------
\* The types of the queue, the handler's events and the loop's local state.
TypeOK ==
  /\ queue \in Seq(Datagrams)
  /\ threadAt \in [Threads -> {"idle", "enable"}]
  /\ events \subseteq {"read", "write"} /\ interest \subseteq {"read", "write"}
  /\ updates \in Nat
  /\ loopAt \in LoopAt /\ ready \subseteq {"read", "write"}
  /\ push \in {Nothing} \union Datagrams \X (Nat \ {0})
  /\ room \in 0 .. Room /\ errors \in 0 .. MaxErrors /\ net \in 0 .. MaxNet
  /\ arrived \in 0 .. MaxNet /\ inbox \in 0 .. InLimit
  /\ side \in Sides
  /\ ret \in [Datagrams -> {Unsent, Sent, Zero, Failed}]
  /\ accepted \in Seq(Datagrams) /\ wire \in Seq(Datagrams)

\* Every datagram that Send took is on the wire or in the queue, once, in the
\* order of the calls: a direct send of the loop thread overtakes nobody, and
\* OnWrite removes exactly what was sent.
NothingLost == wire \o queue = accepted

Waits(d) == \E i \in DOMAIN queue : queue[i] = d

\* A datagram that was queued is sent in the end, whatever passing errors there
\* are, or one that cannot be sent is the first: DisableWriting never cancels the
\* EnableWriting of a push that OnWrite has not seen.
EverythingSent ==
  \A d \in Datagrams :
    Waits(d) ~> ~ Waits(d) \/ (queue # <<>> /\ Head(queue) \in Unsendable)

\* An arrived datagram is received in the end, unless the user leaves the
\* receiving buffer full for good.
EverythingReceived == net > 0 ~> net = 0 \/ inbox = InLimit

\* AsyncUdpSocket.cpp:145, "In async mode, data may be buffered to sending":
\* a datagram for which Send reports that nothing was sent is not sent.
ZeroMeansNotTaken ==
  \A d \in Datagrams \ Empty :
    ret[d] = Zero => \A i \in DOMAIN accepted : accepted[i] # d

\* The same, of an error: a full kernel is no reason to drop a datagram.
BufferedWhenNotSent == \A d \in Datagrams : ret[d] # Failed

\* AsyncUdpSocket.cpp:245-265: OnWrite sends what is queued, also behind a datagram
\* that cannot be sent.
AllSent == \A d \in Datagrams \ Unsendable : Waits(d) ~> ~ Waits(d)
=============================================================================
