---------------------------- MODULE AsyncTcpSocket ----------------------------
(***************************************************************************)
(* netb::AsyncTcpSocket (netb/AsyncTcpSocket.cpp), connected: Send in the  *)
(* loop thread and in other threads, the sending buffer, OnWrite, OnRead   *)
(* and the write and read interest of its event handler.                   *)
(*                                                                         *)
(* _out_buffer is never flushed, so it is the sequence of all bytes ever   *)
(* written to it and a reading position.  The handler's Update is as in    *)
(* Reactor.tla: at once in the loop thread, queued from another thread.    *)
(*                                                                         *)
(* The loop thread uses _out_buffer without the lock that other threads    *)
(* take.  Two of the resulting races are modelled: OnWrite sends from      *)
(* memory that a growing buffer has given back, and a Send in the loop     *)
(* copies to where the buffer ended before another thread appended.        *)
(***************************************************************************)
EXTENDS Naturals, Integers, Sequences, SequencesExt

CONSTANTS
  Threads,      \* threads other than the loop thread that call Send
  Messages,     \* messages of two bytes, each sent once
  Sides,        \* who calls Send: "loop", the received callback, "threads" or "both"
  Limit,        \* limit of the sending buffer
  InitSize,     \* bytes it has allocated at first
  Room,         \* bytes the kernel takes before the peer reads
  InLimit,      \* how often 2048 bytes fit into the receiving buffer
  MaxNet        \* bound: chunks the peer sends

Free == "free"        \* nobody holds the mutex

ASSUME AsyncTcpAssumption ==
  /\ Free \notin Threads
  /\ Sides \subseteq {"loop", "threads", "both"}
  /\ Limit \in Nat /\ InitSize \in 0 .. Limit /\ MaxNet \in Nat
  /\ Room \in Nat \ {0} /\ InLimit \in Nat \ {0}

VARIABLES
  out,       \* all bytes ever written to _out_buffer
  rpos,      \* how many of them OnWrite has sent
  holder,    \* the thread that holds _out_buffer_mutex
  events,    \* _events of the handler
  interest,  \* what the selector watches
  updates,   \* UpdateInLoop functions in the loop's queue
  loopAt,    \* where the loop thread is
  ready,     \* events of the handler that are yet to be served
  rest,      \* what the Send of a callback has left to buffer
  to,        \* where that Send copies it to
  burst,     \* the bytes at the pointer that OnWrite passes to ::send
  side,      \* the member of Sides that the program has chosen
  ret,       \* history: what Send returned for each message
  accepted,  \* history: bytes that Send has reported as sent or buffered
  wire,      \* history: bytes the kernel has taken, in order
  room,      \* bytes the kernel takes now
  net,       \* chunks that have arrived and are not received
  sentNet,   \* chunks the peer has sent
  inbox,     \* chunks in _in_buffer
  peer,      \* "open", or "closed" by the peer
  reported   \* the connected callback was told of a disconnection

bufferVars == <<out, rpos, holder>>
handlerVars == <<events, interest, updates>>
callVars == <<rest, to, burst>>
loopVars == <<loopAt, ready, callVars>>
historyVars == <<side, ret, accepted, wire>>
netVars == <<room, net, sentNet, inbox, peer, reported>>
vars == <<bufferVars, handlerVars, loopVars, historyVars, netVars>>

NotSent == -2         \* Send was not called
Bytes(m) == <<<<m, 1>>, <<m, 2>>>>
Byte == Messages \X {1, 2}
Junk == <<"freed", 0>>     \* a byte of memory given back or never written
LoopAt == {"select", "handle", "received", "buffer", "copy", "watch", "send", "test", "disable"}

Unsent == SubSeq(out, rpos + 1, Len(out))
Prefix(s, n) == SubSeq(s, 1, n)
Suffix(s, n) == SubSeq(s, n + 1, Len(s))
JunkOf(n) == [i \in 1 .. n |-> Junk]

\* ::send of s: the kernel takes what it has room for.
Taken(s) == IF Len(s) < room THEN Len(s) ELSE room

-----------------------------------------------------------------------------
(* Operations with a bug one could plausibly write, for trying the         *)
(* properties.                                                             *)

\* A partial ::send is taken for a full one.
OnWriteSendAll ==
  /\ loopAt = "send"
  /\ LET n == Taken(burst) IN
     /\ wire' = wire \o Prefix(burst, n)
     /\ rpos' = rpos + Len(burst)
     /\ room' = room - n
  /\ burst' = <<>>
  /\ loopAt' = "test"
  /\ UNCHANGED <<side, out, holder, handlerVars, ready, rest, to, ret, accepted, net, sentNet, inbox, peer, reported>>

\* Nobody asks to be told when the rest can be sent.
LoopNoWriting ==
  /\ loopAt = "watch"
  /\ rest' = <<>> /\ to' = 0
  /\ loopAt' = "received"
  /\ UNCHANGED <<bufferVars, handlerVars, ready, burst, historyVars, netVars>>

\* Writing is disabled after each ::send.
OnWriteTestNothing ==
  /\ loopAt = "test"
  /\ loopAt' = "disable"
  /\ UNCHANGED <<bufferVars, handlerVars, ready, callVars, historyVars, netVars>>

-----------------------------------------------------------------------------
(* Send in another thread: under the lock, buffer and ask for writing.     *)

\* _out_buffer.Write; when it does not fit Send returns 0.  A buffer that grows
\* may move, and leave behind what OnWrite is sending.
Send(t, m) ==
  /\ side # "loop"
  /\ holder = Free
  /\ ret[m] = NotSent
  /\ IF Len(out) + 2 <= Limit
     THEN /\ out' = out \o Bytes(m)
          /\ burst' \in {burst} \union
               (IF Len(out') > InitSize THEN {JunkOf(Len(burst))} ELSE {})
          /\ accepted' = accepted \o Bytes(m)
          /\ holder' = t
          /\ ret' = [ret EXCEPT ![m] = 2]
     ELSE /\ ret' = [ret EXCEPT ![m] = 0]
          /\ UNCHANGED <<out, burst, accepted, holder>>
  /\ UNCHANGED <<side, rpos, handlerVars, loopAt, ready, rest, to, wire, netVars>>

\* EnableWriting: set the event, queue an update, and leave.
EnableWriting(t) ==
  /\ holder = t
  /\ holder' = Free
  /\ events' = events \union {"write"}
  /\ updates' = updates + 1
  /\ UNCHANGED <<out, rpos, interest, loopVars, historyVars, netVars>>

-----------------------------------------------------------------------------
(* Send in the loop thread, from the received callback: without the lock.  *)

\* With nothing ever buffered, try to send at once.  An error, which is what
\* a full kernel buffer is, is not less than n once compared as a size_t: it
\* is returned, and nothing is buffered.
LoopSend(m) ==
  /\ loopAt = "received"
  /\ side # "threads"
  /\ ret[m] = NotSent
  /\ LET n == Taken(Bytes(m)) IN
     IF out # <<>>
     THEN /\ rest' = Bytes(m) /\ loopAt' = "buffer"
          /\ ret' = [ret EXCEPT ![m] = 0]
          /\ UNCHANGED <<accepted, wire, room>>
     ELSE /\ rest' = IF n = 0 THEN <<>> ELSE Suffix(Bytes(m), n)
          /\ loopAt' = IF rest' = <<>> THEN "received" ELSE "buffer"
          /\ ret' = [ret EXCEPT ![m] = IF n = 0 THEN -1 ELSE n]
          /\ accepted' = accepted \o Prefix(Bytes(m), n)
          /\ wire' = wire \o Prefix(Bytes(m), n)
          /\ room' = room - n
  /\ UNCHANGED <<side, bufferVars, handlerVars, ready, to, burst, net, sentNet, inbox, peer, reported>>

\* _out_buffer.Write: find where the rest goes, if it fits,
LoopBuffer ==
  /\ loopAt = "buffer"
  /\ IF Len(out) + Len(rest) <= Limit
     THEN loopAt' = "copy" /\ to' = Len(out)
     ELSE loopAt' = "watch" /\ UNCHANGED to
  /\ UNCHANGED <<bufferVars, handlerVars, ready, rest, burst, historyVars, netVars>>

\* and copy it there and advance the writing position.
LoopCopy ==
  /\ loopAt = "copy"
  /\ out' = Prefix(out, to) \o rest \o Suffix(out, to + Len(rest))
              \o JunkOf(IF Len(out) - to < Len(rest) THEN Len(out) - to ELSE Len(rest))
  /\ accepted' = accepted \o rest
  /\ ret' = [ret EXCEPT ![rest[1][1]] = 2]
  /\ loopAt' = "watch"
  /\ UNCHANGED <<side, rpos, holder, handlerVars, ready, callVars, wire, netVars>>

\* Watch for writing if the buffer was ever used.
LoopEnableWriting ==
  /\ loopAt = "watch"
  /\ events' = IF out # <<>> THEN events \union {"write"} ELSE events
  /\ interest' = IF out # <<>> THEN events' ELSE interest
  /\ rest' = <<>> /\ to' = 0
  /\ loopAt' = "received"
  /\ UNCHANGED <<bufferVars, updates, ready, burst, historyVars, netVars>>

-----------------------------------------------------------------------------
(* The loop thread.                                                        *)

Readable == net > 0 \/ peer = "closed"

\* Select reports what is both watched and ready.
Select ==
  /\ loopAt = "select"
  /\ ready' = {e \in interest : IF e = "read" THEN Readable ELSE room > 0}
  /\ ready' # {}
  /\ loopAt' = "handle"
  /\ UNCHANGED <<bufferVars, handlerVars, callVars, historyVars, netVars>>

\* A queued UpdateInLoop, after the wakeup that came with it.
UpdateInLoop ==
  /\ loopAt = "select"
  /\ updates > 0
  /\ updates' = updates - 1
  /\ interest' = events
  /\ UNCHANGED <<bufferVars, events, loopVars, historyVars, netVars>>

\* OnRead: with 2048 bytes of space and data to receive, call the user.
OnRead ==
  /\ loopAt = "handle" /\ "read" \in ready
  /\ inbox < InLimit /\ net > 0
  /\ inbox' = inbox + 1
  /\ net' = net - 1
  /\ ready' = ready \ {"read"}
  /\ loopAt' = "received"
  /\ UNCHANGED <<bufferVars, handlerVars, callVars, historyVars, room, sentNet, peer, reported>>

\* OnRead: no space, or the end of the stream, is a disconnection.
OnReadError ==
  /\ loopAt = "handle" /\ "read" \in ready
  /\ inbox = InLimit \/ net = 0
  /\ events' = events \ {"read"}
  /\ interest' = events'
  /\ reported' = TRUE
  /\ ready' = ready \ {"read"}
  /\ UNCHANGED <<bufferVars, updates, loopAt, callVars, historyVars, room, net, sentNet, inbox, peer>>

\* The received callback flushes what it has read, or does not, and returns.
Flush ==
  /\ loopAt = "received"
  /\ inbox' = 0
  /\ UNCHANGED <<bufferVars, handlerVars, loopVars, historyVars, room, net, sentNet, peer, reported>>

Return ==
  /\ loopAt = "received"
  /\ loopAt' = "handle"
  /\ UNCHANGED <<bufferVars, handlerVars, ready, callVars, historyVars, netVars>>

\* OnWrite, without the lock: take the pointer and the length of what is unsent,
OnWrite ==
  /\ loopAt = "handle" /\ ready = {"write"}
  /\ burst' = Unsent
  /\ ready' = {}
  /\ loopAt' = "send"
  /\ UNCHANGED <<bufferVars, handlerVars, rest, to, historyVars, netVars>>

\* send it and advance by what was sent.
OnWriteSend ==
  /\ loopAt = "send"
  /\ LET n == Taken(burst) IN
     /\ wire' = wire \o Prefix(burst, n)
     /\ rpos' = rpos + n
     /\ room' = room - n
  /\ burst' = <<>>
  /\ loopAt' = "test"
  /\ UNCHANGED <<side, out, holder, handlerVars, ready, rest, to, ret, accepted, net, sentNet, inbox, peer, reported>>

\* if(_out_buffer.Readable() == 0)
OnWriteTest ==
  /\ loopAt = "test"
  /\ loopAt' = IF Unsent = <<>> THEN "disable" ELSE "handle"
  /\ UNCHANGED <<bufferVars, handlerVars, ready, callVars, historyVars, netVars>>

\* DisableWriting
OnWriteDisable ==
  /\ loopAt = "disable"
  /\ events' = events \ {"write"}
  /\ interest' = events'
  /\ loopAt' = "handle"
  /\ UNCHANGED <<bufferVars, updates, ready, callVars, historyVars, netVars>>

EndHandle ==
  /\ loopAt = "handle" /\ ready = {}
  /\ loopAt' = "select"
  /\ UNCHANGED <<bufferVars, handlerVars, ready, callVars, historyVars, netVars>>

-----------------------------------------------------------------------------
(* The peer.                                                               *)

PeerSends ==
  /\ peer = "open" /\ sentNet < MaxNet
  /\ net' = net + 1
  /\ sentNet' = sentNet + 1
  /\ UNCHANGED <<bufferVars, handlerVars, loopVars, historyVars, room, inbox, peer, reported>>

PeerReads ==
  /\ room < Room
  /\ room' = Room
  /\ UNCHANGED <<bufferVars, handlerVars, loopVars, historyVars, net, sentNet, inbox, peer, reported>>

PeerShutsDown ==
  /\ peer = "open"
  /\ peer' = "closed"
  /\ UNCHANGED <<bufferVars, handlerVars, loopVars, historyVars, room, net, sentNet, inbox, reported>>

-----------------------------------------------------------------------------
\* Connected, with reading enabled.
Init ==
  /\ out = <<>> /\ rpos = 0 /\ holder = Free
  /\ events = {"read"} /\ interest = {"read"} /\ updates = 0
  /\ loopAt = "select" /\ ready = {}
  /\ rest = <<>> /\ to = 0 /\ burst = <<>>
  /\ side \in Sides /\ ret = [m \in Messages |-> NotSent]
  /\ accepted = <<>> /\ wire = <<>>
  /\ room = Room /\ net = 0 /\ sentNet = 0 /\ inbox = 0
  /\ peer = "open" /\ reported = FALSE

LoopStep ==
  \/ UpdateInLoop \/ OnRead \/ OnReadError \/ Return
  \/ LoopBuffer \/ LoopCopy \/ LoopEnableWriting
  \/ OnWrite \/ OnWriteSend \/ OnWriteTest \/ OnWriteDisable \/ EndHandle

Next ==
  \/ LoopStep \/ Select \/ Flush
  \/ \E m \in Messages : LoopSend(m)
  \/ \E t \in Threads :
       EnableWriting(t) \/ \E m \in Messages : Send(t, m)
  \/ PeerSends \/ PeerReads \/ PeerShutsDown

Spec == Init /\ [][Next]_vars

\* Every thread runs on, select() returns when something watched is ready, and
\* the peer goes on reading.
Fairness ==
  /\ WF_vars(LoopStep) /\ WF_vars(Select) /\ WF_vars(PeerReads)
  /\ \A t \in Threads : WF_vars(EnableWriting(t))

FairSpec == Spec /\ Fairness

-----------------------------------------------------------------------------
\* The types of the buffers, the handler's events and the loop's local state.
TypeOK ==
  /\ out \in Seq(Byte \union {Junk}) /\ Len(out) <= Limit /\ rpos \in 0 .. Len(out)
  /\ holder \in Threads \union {Free}
  /\ events \subseteq {"read", "write"} /\ interest \subseteq {"read", "write"}
  /\ updates \in Nat /\ side \in Sides
  /\ loopAt \in LoopAt /\ ready \subseteq {"read", "write"}
  /\ rest \in Seq(Byte) /\ to \in 0 .. Limit /\ burst \in Seq(Byte \union {Junk})
  /\ ret \in [Messages -> -2 .. 2]
  /\ accepted \in Seq(Byte) /\ wire \in Seq(Byte \union {Junk})
  /\ room \in 0 .. Room /\ net \in 0 .. MaxNet /\ inbox \in 0 .. InLimit
  /\ sentNet \in 0 .. MaxNet
  /\ peer \in {"open", "closed"} /\ reported \in BOOLEAN

\* What Send reported as "sent or buffered" (AsyncTcpSocket.cpp:181) is on the
\* wire or in the buffer, each byte once, in the order of the calls: through
\* partial sends, the buffer's limit and OnWrite between two calls.
NothingLost == wire \o Unsent = accepted

\* While bytes that callbacks have sent wait in the buffer, the selector watches
\* for writing, so that OnWrite goes on where the kernel stopped.
WriteInterestKept ==
  (side = "loop" /\ loopAt = "select" /\ Unsent # <<>>) => "write" \in interest

\* Everything accepted is sent in the end, when only callbacks call Send ...
EverythingSentByLoop == side = "loop" => <>[](wire = accepted)

\* ... and when other threads do.
EverythingSent == <>[](wire = accepted)

\* AsyncTcpSocket.cpp:183: "return a number less than the data size, indicate
\* the sending buffer is full".
RefusedOnlyWhenFull ==
  [][\A m \in Messages :
       (ret[m] = NotSent /\ ret'[m] = 0 /\ loopAt' # "buffer")
          => Len(Unsent) + 2 > Limit]_vars

\* AsyncTcpSocket.cpp:180: "Send will buffer the data in sending buffer if it
\* can not be send out immediately".  No error of the connection is modelled.
BufferedWhenNotSent == \A m \in Messages : ret[m] # -1

\* AsyncTcpSocket.hpp:80: the connected callback is the "Notification of
\* connected status".
DisconnectIsReal == reported => peer = "closed"
=============================================================================
