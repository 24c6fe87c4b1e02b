---------------------------- MODULE AsyncUdpProofs ----------------------------
(***************************************************************************)
(* What AsyncUdpSocket guarantees for every number of threads and          *)
(* datagrams and every size of the kernel's buffers.                       *)
(***************************************************************************)
EXTENDS AsyncUdpSocket, SequenceTheorems, TLAPS

-----------------------------------------------------------------------------
(* Sequences.                                                              *)

\* What is appended behind a part is appended behind the whole.
LEMMA ConcatAppend ==
  ASSUME NEW S, NEW s \in Seq(S), NEW t \in Seq(S), NEW e \in S
  PROVE  s \o Append(t, e) = Append(s \o t, e)
<1>1. <<e>> \in Seq(S)
  OBVIOUS
<1>2. /\ Append(t, e) = t \o <<e>>
      /\ s \o t \in Seq(S)
      /\ Append(s \o t, e) = (s \o t) \o <<e>>
  BY AppendIsConcat, ConcatProperties
<1> QED
  BY <1>1, <1>2, ConcatAssociative

\* Moving the head of the second part to the end of the first keeps the whole.
LEMMA HeadMoves ==
  ASSUME NEW S, NEW s \in Seq(S), NEW t \in Seq(S), t # <<>>
  PROVE  Append(s, Head(t)) \o Tail(t) = s \o t
<1>1. /\ Head(t) \in S /\ Tail(t) \in Seq(S)
      /\ t = <<Head(t)>> \o Tail(t)
  <2>1. /\ Head(t) \in S /\ Tail(t) \in Seq(S)
        /\ Len(Tail(t)) = Len(t) - 1 /\ Len(t) > 0
        /\ \A i \in 1 .. Len(Tail(t)) : Tail(t)[i] = t[i + 1]
        /\ Head(t) = t[1]
    BY HeadTailProperties, LenProperties, EmptySeq, SMTT(30)
  <2>2. <<Head(t)>> \o Tail(t) \in Seq(S)
    BY <2>1, ConcatProperties
  <2>3. /\ Len(<<Head(t)>> \o Tail(t)) = Len(t)
        /\ \A i \in 1 .. Len(t) : (<<Head(t)>> \o Tail(t))[i] = t[i]
    BY <2>1, SMTT(30)
  <2> QED
    BY <2>1, <2>2, <2>3, SeqEqual
<1>2. <<Head(t)>> \in Seq(S)
  BY <1>1
<1>3. Append(s, Head(t)) = s \o <<Head(t)>>
  BY <1>1, AppendIsConcat
<1> QED
  BY <1>1, <1>2, <1>3, ConcatAssociative

\* The place behind the last one is where Append puts an element.
LEMMA PlaceBehindLast ==
  ASSUME NEW S, NEW s \in Seq(S), NEW e \in S, NEW n \in Nat, n = Len(s) + 1
  PROVE  [i \in 1 .. n |-> IF i = n THEN e ELSE s[i]] = Append(s, e)
<1>1. /\ Append(s, e) \in Seq(S) /\ Len(Append(s, e)) = n
      /\ \A i \in 1 .. Len(s) : Append(s, e)[i] = s[i]
      /\ Append(s, e)[n] = e
  BY AppendProperties
<1>2. \A i \in 1 .. n : Append(s, e)[i] = IF i = n THEN e ELSE s[i]
  <2>1. Len(s) \in Nat
    BY LenProperties
  <2> QED
    BY <1>1, <2>1
<1>3. Append(s, e) = [i \in 1 .. n |-> Append(s, e)[i]]
  BY <1>1, LenProperties
<1> QED
  BY <1>2, <1>3

-----------------------------------------------------------------------------
(* The inductive invariant.                                                *)

\* A descriptor reported ready for reading stays so until it is read.
ReadInv ==
  /\ net <= arrived
  /\ "read" \in ready => net > 0

\* A push in the loop thread has a datagram and a place that is still there:
\* other threads only add to the queue, and OnWrite runs in the loop thread.
PushInv ==
  loopAt = "push" =>
    /\ push \in Datagrams \X (Nat \ {0})
    /\ push[2] <= Len(queue) + 1
    /\ side # "threads"

\* As long as calls of Send do not overlap with it, its place is the last.
TurnInv ==
  side # "both" => (loopAt = "push" => push[2] = Len(queue) + 1)

IInv == TypeOK /\ ReadInv /\ PushInv

-----------------------------------------------------------------------------
(* Types.                                                                  *)

LEMMA InvInit == Init => IInv
<1> SUFFICES ASSUME Init PROVE IInv
  OBVIOUS
<1>1. <<>> \in Seq(Datagrams)
  BY EmptySeq
<1>2. TypeOK
  BY <1>1, AsyncUdpAssumption
     DEF Init, TypeOK, LoopAt, Nothing, Unsent, Sent, Zero, Failed
<1> QED
  BY <1>2 DEF Init, IInv, ReadInv, PushInv

\* The steps of the loop thread that leave the queue, and any push, alone.
LEMMA InvLoopStep ==
  ASSUME IInv,
         \/ UpdateInLoop \/ OnRead \/ OnReadError \/ Return \/ LoopEnableWriting
         \/ OnWrite \/ OnWriteEnd \/ OnWriteDisable \/ EndHandle
         \/ Select \/ Flush \/ Arrive \/ Transmit
  PROVE  IInv'
<1> USE AsyncUdpAssumption
    DEF IInv, TypeOK, ReadInv, PushInv, LoopAt, Passing, FailsToSend,
        handlerVars, loopVars, netVars, historyVars
<1>1. CASE UpdateInLoop
  BY <1>1 DEF UpdateInLoop
<1>2. CASE OnRead
  BY <1>2 DEF OnRead
<1>3. CASE OnReadError
  BY <1>3 DEF OnReadError
<1>4. CASE Return
  BY <1>4 DEF Return
<1>5. CASE LoopEnableWriting
  BY <1>5 DEF LoopEnableWriting
<1>6. CASE OnWrite
  BY <1>6 DEF OnWrite
<1>7. CASE OnWriteEnd
  BY <1>7 DEF OnWriteEnd
<1>8. CASE OnWriteDisable
  BY <1>8 DEF OnWriteDisable
<1>9. CASE EndHandle
  BY <1>9 DEF EndHandle
<1>10. CASE Select
  BY <1>10 DEF Select
<1>11. CASE Flush
  BY <1>11 DEF Flush
<1>12. CASE Arrive
  BY <1>12 DEF Arrive
<1>13. CASE Transmit
  BY <1>13 DEF Transmit
<1> QED
  BY <1>1, <1>2, <1>3, <1>4, <1>5, <1>6, <1>7, <1>8, <1>9, <1>10, <1>11,
     <1>12, <1>13

\* Send in another thread, in its two steps.
LEMMA InvSend ==
  ASSUME IInv, NEW t \in Threads, NEW d \in Datagrams,
         Send(t, d) \/ EnableWriting(t)
  PROVE  IInv'
<1> USE DEF IInv, TypeOK, ReadInv, PushInv, LoopAt, Sent,
        handlerVars, loopVars, netVars, historyVars
<1>1. CASE Send(t, d)
  <2>1. /\ Append(queue, d) \in Seq(Datagrams)
        /\ Len(Append(queue, d)) = Len(queue) + 1
        /\ Append(accepted, d) \in Seq(Datagrams)
        /\ Len(queue) \in Nat
    BY AppendProperties, LenProperties
  <2> QED
    BY <1>1, <2>1 DEF Send
<1>2. CASE EnableWriting(t)
  BY <1>2 DEF EnableWriting
<1> QED
  BY <1>1, <1>2

\* Send in the loop thread.
LEMMA InvLoopSend ==
  ASSUME IInv, NEW d \in Datagrams, LoopSend(d) \/ LoopSendLater(d)
  PROVE  IInv'
<1> USE DEF IInv, TypeOK, ReadInv, PushInv, LoopAt, Sent, Zero, Failed,
        handlerVars, loopVars, netVars, historyVars
<1>1. CASE LoopSend(d)
  <2>1. Append(accepted, d) \in Seq(Datagrams) /\ Append(wire, d) \in Seq(Datagrams)
    BY AppendProperties
  <2>2. CASE /\ Sends(d) /\ accepted' = Append(accepted, d)
             /\ ret' = [ret EXCEPT ![d] = IF d \in Empty THEN Zero ELSE Sent]
             /\ UNCHANGED errors
    <3>1. room' \in 0 .. Room /\ wire' = Append(wire, d)
      BY <2>2, AsyncUdpAssumption DEF Sends
    <3>2. ret' = [ret EXCEPT ![d] = IF d \in Empty THEN Zero ELSE Sent]
      BY <2>2
    <3>3. ret' \in [Datagrams -> {Unsent, Sent, Zero, Failed}]
      <4>1. (IF d \in Empty THEN Zero ELSE Sent) \in {Unsent, Sent, Zero, Failed}
        OBVIOUS
      <4> QED
        BY <3>2, <4>1
    <3> QED
      BY <1>1, <2>1, <2>2, <3>1, <3>3 DEF LoopSend
  <2>3. CASE /\ FailsToSend(d)
             /\ ret' = [ret EXCEPT ![d] = Failed]
             /\ UNCHANGED <<room, wire, accepted>>
    <3>1. errors' \in 0 .. MaxErrors
      BY <2>3, AsyncUdpAssumption DEF FailsToSend, Passing
    <3> QED
      BY <1>1, <2>3, <3>1 DEF LoopSend
  <2> QED
    BY <1>1, <2>2, <2>3 DEF LoopSend
<1>2. CASE LoopSendLater(d)
  <2>1. Len(queue) \in Nat
    BY LenProperties
  <2> QED
    BY <1>2, <2>1 DEF LoopSendLater
<1> QED
  BY <1>1, <1>2

LEMMA InvLoopPush ==
  ASSUME IInv, LoopPush
  PROVE  IInv'
<1> USE DEF IInv, TypeOK, ReadInv, PushInv, LoopAt, Nothing,
        handlerVars, loopVars, netVars, historyVars
<1>1. /\ push[1] \in Datagrams /\ push[2] \in Nat \ {0}
      /\ push[2] <= Len(queue) + 1 /\ Len(queue) \in Nat
      /\ \A i \in 1 .. Len(queue) : queue[i] \in Datagrams
  BY LenProperties, ElementOfSeq DEF LoopPush
<1>2. queue' \in Seq(Datagrams)
  <2>1. \A i \in 1 .. push[2] :
          (IF i = push[2] THEN push[1] ELSE queue[i]) \in Datagrams
    BY <1>1
  <2>2. queue' \in [1 .. push[2] -> Datagrams]
    BY <2>1 DEF LoopPush
  <2>3. push[2] \in Nat
    BY <1>1
  <2>4. Seq(Datagrams) = UNION {[1 .. n -> Datagrams] : n \in Nat}
    BY SeqDef
  <2> HIDE DEF IInv
  <2> QED
    BY <2>2, <2>3, <2>4, Zenon
<1>3. accepted' \in Seq(Datagrams)
  BY <1>1, AppendProperties DEF LoopPush
<1> QED
  BY <1>2, <1>3 DEF LoopPush

LEMMA InvOnWriteSend ==
  ASSUME IInv, OnWriteSend
  PROVE  IInv'
<1> USE DEF IInv, TypeOK, ReadInv, PushInv, LoopAt,
        handlerVars, loopVars, netVars, historyVars
<1>1. Head(queue) \in Datagrams /\ Tail(queue) \in Seq(Datagrams)
  BY HeadTailProperties DEF OnWriteSend
<1>2. Append(wire, Head(queue)) \in Seq(Datagrams)
  BY <1>1, AppendProperties
<1>3. room' \in 0 .. Room /\ wire' = Append(wire, Head(queue))
  BY AsyncUdpAssumption DEF OnWriteSend, Sends
<1>4. queue' \in Seq(Datagrams) /\ loopAt' \in LoopAt /\ loopAt' # "push"
  BY <1>1 DEF OnWriteSend
<1> QED
  BY <1>1, <1>2, <1>3, <1>4 DEF OnWriteSend

LEMMA InvStep == IInv /\ [Next]_vars => IInv'
<1> SUFFICES ASSUME IInv, [Next]_vars PROVE IInv'
  OBVIOUS
<1>1. CASE UNCHANGED vars
  BY <1>1 DEF vars, IInv, TypeOK, ReadInv, PushInv,
     handlerVars, loopVars, netVars, historyVars
<1>2. ASSUME NEW t \in Threads, EnableWriting(t) PROVE IInv'
  <2>1. IInv' \/ Datagrams = {}
    BY <1>2, InvSend
  <2>2. CASE Datagrams = {}
    BY <1>2 DEF EnableWriting, IInv, TypeOK, ReadInv, PushInv,
       handlerVars, loopVars, netVars, historyVars
  <2> QED
    BY <2>1, <2>2
<1> QED
  BY <1>1, <1>2, InvLoopStep, InvSend, InvLoopSend, InvLoopPush, InvOnWriteSend
     DEF Next, LoopStep

LEMMA Inductive == Spec => []IInv
<1> QED
  BY InvInit, InvStep, PTL DEF Spec

\* Every reachable state is well typed; in particular what is read was there to
\* read, and a push in the loop thread finds its place in the queue.
THEOREM TypeCorrect == Spec => []TypeOK
<1>1. IInv => TypeOK
  BY DEF IInv
<1> QED
  BY <1>1, Inductive, PTL

-----------------------------------------------------------------------------
(* The datagrams.                                                          *)

\* The queue and the wire change together with what was accepted, or not.
LEMMA KeptStep ==
  ASSUME IInv, NothingLost, TurnInv, side # "both", Empty = {}, Next
  PROVE  NothingLost' /\ TurnInv'
<1>1a. wire \in Seq(Datagrams) /\ queue \in Seq(Datagrams)
  BY DEF IInv, TypeOK
<1>1b. \A d \in Datagrams : wire \o Append(queue, d) = Append(wire \o queue, d)
  BY <1>1a, ConcatAppend
<1> USE DEF IInv, TypeOK, NothingLost, TurnInv,
        handlerVars, loopVars, netVars, historyVars
<1>0. Len(queue) \in Nat
  BY LenProperties
<1>1. ASSUME NEW t \in Threads, NEW d \in Datagrams, Send(t, d)
      PROVE  NothingLost' /\ TurnInv'
  <2>1. wire \o Append(queue, d) = Append(wire \o queue, d)
    BY <1>1b
  <2>2. loopAt # "push"
    <3>1. CASE side = "turns"
      BY <1>1, <3>1 DEF Send, NobodySends
    <3>2. CASE side # "turns"
      <4>1. side = "threads"
        BY <3>2, AsyncUdpAssumption
      <4> QED
        BY <4>1 DEF PushInv
    <3> QED
      BY <3>1, <3>2
  <2> QED
    BY <1>1, <2>1, <2>2 DEF Send
<1>2. ASSUME NEW d \in Datagrams, LoopSend(d)
      PROVE  NothingLost' /\ TurnInv'
  <2>1. /\ wire \o <<>> = wire
        /\ Append(wire, d) \o <<>> = Append(wire, d)
    BY AppendProperties, ConcatEmptySeq
  <2> QED
    BY <1>2, <2>1 DEF LoopSend, Sends
<1>3. ASSUME NEW d \in Datagrams, LoopSendLater(d)
      PROVE  NothingLost' /\ TurnInv'
  BY <1>3 DEF LoopSendLater
<1>4. CASE LoopPush
  <2>1. /\ push[1] \in Datagrams /\ push[2] \in Nat
        /\ push[2] = Len(queue) + 1
    BY <1>4 DEF LoopPush, PushInv
  <2>2. queue' = Append(queue, push[1])
    BY <1>4, <2>1, PlaceBehindLast DEF LoopPush
  <2>3. wire \o Append(queue, push[1]) = Append(wire \o queue, push[1])
    BY <2>1, <1>1b
  <2> QED
    BY <1>4, <2>2, <2>3 DEF LoopPush
<1>5. CASE OnWriteSend
  <2>1. Append(wire, Head(queue)) \o Tail(queue) = wire \o queue
    <3>1. queue # <<>>
      BY <1>5 DEF OnWriteSend
    <3> QED
      BY <1>1a, <3>1, HeadMoves, Zenon
  <2> QED
    BY <1>5, <2>1 DEF OnWriteSend, Sends
<1>6. CASE \/ UpdateInLoop \/ OnRead \/ OnReadError \/ Return
           \/ LoopEnableWriting \/ OnWrite \/ OnWriteEnd \/ OnWriteDisable
  BY <1>6 DEF UpdateInLoop, OnRead, OnReadError, Return, LoopEnableWriting,
     OnWrite, OnWriteEnd, OnWriteDisable
<1>7. CASE EndHandle \/ Select \/ Flush \/ Arrive \/ Transmit
  BY <1>7 DEF EndHandle, Select, Flush, Arrive, Transmit
<1>8. ASSUME NEW t \in Threads, EnableWriting(t)
      PROVE  NothingLost' /\ TurnInv'
  BY <1>8 DEF EnableWriting
<1> QED
  BY <1>1, <1>2, <1>3, <1>4, <1>5, <1>6, <1>7, <1>8 DEF Next, LoopStep

\* As long as no datagram is empty and a call of Send in the loop thread does
\* not overlap with one in another thread, every datagram that was accepted is
\* on the wire or in the queue, once and in the order of the calls.
THEOREM DatagramsKept ==
  ASSUME Empty = {}, "both" \notin Sides
  PROVE  Spec => []NothingLost
<1>1. Init => NothingLost /\ TurnInv
  <2>1. <<>> \o <<>> = <<>>
    BY EmptySeq, ConcatEmptySeq
  <2> QED
    BY <2>1 DEF Init, NothingLost, TurnInv
<1>2. /\ IInv /\ NothingLost /\ TurnInv /\ [Next]_vars
      => NothingLost' /\ TurnInv'
  <2> SUFFICES ASSUME IInv, NothingLost, TurnInv, [Next]_vars
               PROVE  NothingLost' /\ TurnInv'
    OBVIOUS
  <2>1. side # "both"
    BY DEF IInv, TypeOK
  <2>2. CASE Next
    BY <2>1, <2>2, KeptStep
  <2>3. CASE UNCHANGED vars
    BY <2>3 DEF vars, NothingLost, TurnInv, loopVars, historyVars
  <2> QED
    BY <2>2, <2>3
<1> QED
  BY <1>1, <1>2, Inductive, PTL DEF Spec

=============================================================================
