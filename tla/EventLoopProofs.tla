--------------------------- MODULE EventLoopProofs ---------------------------
(***************************************************************************)
(* What EventLoop guarantees for every number of threads, functions and    *)
(* handlers and for every capacity of the wakeup pipe; and what            *)
(* EventLoopThread guarantees of a loop in a thread of its own: what Start *)
(* hands out and the destructor leaves behind, and that what holds of a    *)
(* loop holds of the loop in its thread.                                   *)
(***************************************************************************)
EXTENDS EventLoopThread, SequenceTheorems, TLAPS

-----------------------------------------------------------------------------
(* Sequences.                                                              *)

\* Append adds one element to the set of elements, and nothing else.
LEMMA ElementsAppend ==
  ASSUME NEW S, NEW s \in Seq(S), NEW e \in S
  PROVE  Elements(Append(s, e)) = Elements(s) \union {e}
<1> DEFINE a == Append(s, e)
<1>1. /\ Len(a) = Len(s) + 1
      /\ \A i \in 1 .. Len(s) : a[i] = s[i]
      /\ a[Len(s) + 1] = e
      /\ DOMAIN a = 1 .. Len(s) + 1
  BY AppendProperties
<1>2. DOMAIN s = 1 .. Len(s) /\ Len(s) \in Nat
  BY LenProperties
<1>3. ASSUME NEW x \in Elements(a) PROVE x \in Elements(s) \union {e}
  <2>1. PICK i \in 1 .. Len(s) + 1 : x = a[i]
    BY <1>1, <1>3 DEF Elements
  <2>2. CASE i = Len(s) + 1
    BY <2>1, <2>2, <1>1
  <2>3. CASE i # Len(s) + 1
    <3>1. i \in 1 .. Len(s)
      BY <2>3, <1>2
    <3>2. x = s[i]
      BY <3>1, <2>1, <1>1
    <3> QED
      BY <3>1, <3>2, <1>2 DEF Elements
  <2> QED
    BY <2>2, <2>3
<1>4. ASSUME NEW x \in Elements(s) PROVE x \in Elements(a)
  <2>1. PICK i \in 1 .. Len(s) : x = s[i]
    BY <1>2, <1>4 DEF Elements
  <2>2. i \in 1 .. Len(s) + 1 /\ a[i] = x
    BY <2>1, <1>1, <1>2
  <2> QED
    BY <2>2, <1>1 DEF Elements
<1>5. e \in Elements(a)
  <2>1. Len(s) + 1 \in 1 .. Len(s) + 1
    BY <1>2
  <2> QED
    BY <2>1, <1>1 DEF Elements
<1> QED
  BY <1>3, <1>4, <1>5

\* A queue that ends its first part is taken apart at the head of that part.
LEMMA HeadTailConcat ==
  ASSUME NEW S, NEW s \in Seq(S), NEW t \in Seq(S), s # <<>>
  PROVE  /\ s \o t # <<>>
         /\ Head(s \o t) = Head(s)
         /\ Tail(s \o t) = Tail(s) \o t
  BY HeadTailProperties, ConcatProperties, SMTT(30)

\* Appending to the second part of a queue appends to the queue.
LEMMA ConcatAppend ==
  ASSUME NEW S, NEW s \in Seq(S), NEW t \in Seq(S), NEW e \in S
  PROVE  s \o Append(t, e) = Append(s \o t, e)
<1>1. <<e>> \in Seq(S)
  OBVIOUS
<1>2. /\ Append(t, e) = t \o <<e>>
      /\ s \o t \in Seq(S)
      /\ Append(s \o t, e) = (s \o t) \o <<e>>
  BY AppendIsConcat, ConcatProperties
<1> QED
  BY <1>1, <1>2, ConcatAssociative

-----------------------------------------------------------------------------
(* Types.                                                                  *)

\* The constructor sets up members of the right types.
LEMMA TypeInit == Init => TypeOK
<1>1. <<>> \in Seq(Functors)
  BY EmptySeq
<1>2. 0 \in 0 .. PipeCapacity
  BY EventLoopAssumption
<1> QED
  BY <1>1, <1>2 DEF Init, TypeOK, LoopAt, ThreadAt

\* Every step keeps the members within their types.
LEMMA TypeStep ==
  ASSUME TypeOK, [Next]_vars
  PROVE  TypeOK'
<1> USE DEF TypeOK, LoopAt, ThreadAt
<1>1. CASE Run
  BY <1>1 DEF Run
<1>2. CASE TestStop
  BY <1>2 DEF TestStop
<1>3. CASE Select
  BY <1>3 DEF Select
<1>4. CASE SelectFails
  BY <1>4 DEF SelectFails
<1>5. CASE OnWakeupRead
  BY <1>5, EventLoopAssumption DEF OnWakeupRead
<1>6. ASSUME NEW h \in Handlers, HandleEvents(h)
      PROVE  TypeOK'
  BY <1>6 DEF HandleEvents
<1>7. CASE EndDispatch
  BY <1>7 DEF EndDispatch
<1>8. CASE SwapQueue
  BY <1>8 DEF SwapQueue
<1>9. CASE InvokeNext
  BY <1>9, HeadTailProperties DEF InvokeNext
<1>10. CASE EndInvoke
  BY <1>10 DEF EndInvoke
<1>11. CASE Return
  BY <1>11 DEF Return
<1>12. ASSUME NEW f \in Functors, LoopInvokeLater(f)
       PROVE  TypeOK'
  BY <1>12 DEF LoopInvokeLater
<1>13. CASE LoopWakeup
  BY <1>13, EventLoopAssumption DEF LoopWakeup
<1>14. CASE LoopStop
  BY <1>14 DEF LoopStop
<1>15. ASSUME NEW t \in Threads, NEW f \in Functors, InvokeLater(t, f)
       PROVE  TypeOK'
  BY <1>15 DEF InvokeLater
<1>16. ASSUME NEW t \in Threads, Stop(t)
       PROVE  TypeOK'
  BY <1>16 DEF Stop
<1>17. ASSUME NEW t \in Threads, Wakeup(t)
       PROVE  TypeOK'
  BY <1>17, EventLoopAssumption DEF Wakeup
<1>18. CASE UNCHANGED vars
  BY <1>18 DEF vars
<1> QED
  BY <1>1, <1>2, <1>3, <1>4, <1>5, <1>6, <1>7, <1>8, <1>9, <1>10, <1>11,
     <1>12, <1>13, <1>14, <1>15, <1>16, <1>17, <1>18
     DEF Next, LoopThread, LoopStep, OtherThread

\* Type correctness.
THEOREM TypeCorrect == Spec => []TypeOK
  BY TypeInit, TypeStep, PTL DEF Spec

-----------------------------------------------------------------------------
(* Wakeups.  NoLostWakeup is not inductive: whether a function handed over *)
(* by the loop thread is followed by a wakeup depends on _queue_invoking,  *)
(* so the invariant also says where in Run that flag is set; and the local *)
(* vector and the ready events are left over only inside their loops.      *)

\* Where in Run each piece of its state is in use.
RunInv ==
  /\ queueInvoking <=> loopAt \in {"invoke", "function", "wakeup"}
  /\ functions # <<>> => queueInvoking
  /\ active # {} => loopAt \in {"dispatch", "callback"}

IInv == TypeOK /\ RunInv /\ WakeupReadNeverBlocks /\ NoLostWakeup

\* Every step keeps RunInv and lets the wakeup handler read only what is there.
LEMMA RunStep ==
  ASSUME TypeOK, RunInv, WakeupReadNeverBlocks, [Next]_vars
  PROVE  RunInv' /\ WakeupReadNeverBlocks'
<1> USE DEF TypeOK, LoopAt, RunInv, WakeupReadNeverBlocks
<1>1. CASE Run
  BY <1>1 DEF Run
<1>2. CASE TestStop
  BY <1>2 DEF TestStop
<1>3. CASE Select
  BY <1>3, EventLoopAssumption DEF Select
<1>4. CASE SelectFails
  BY <1>4 DEF SelectFails
<1>5. CASE OnWakeupRead
  BY <1>5 DEF OnWakeupRead
<1>6. ASSUME NEW h \in Handlers, HandleEvents(h)
      PROVE  RunInv' /\ WakeupReadNeverBlocks'
  BY <1>6, EventLoopAssumption DEF HandleEvents
<1>7. CASE EndDispatch
  BY <1>7 DEF EndDispatch
<1>8. CASE SwapQueue
  BY <1>8 DEF SwapQueue
<1>9. CASE InvokeNext
  BY <1>9 DEF InvokeNext
<1>10. CASE EndInvoke
  BY <1>10 DEF EndInvoke
<1>11. CASE Return
  BY <1>11 DEF Return
<1>12. ASSUME NEW f \in Functors, LoopInvokeLater(f)
      PROVE  RunInv' /\ WakeupReadNeverBlocks'
  BY <1>12 DEF LoopInvokeLater
<1>13. CASE LoopWakeup
  BY <1>13 DEF LoopWakeup
<1>14. CASE LoopStop
  BY <1>14 DEF LoopStop
<1>15. ASSUME NEW t \in Threads, NEW f \in Functors, InvokeLater(t, f)
      PROVE  RunInv' /\ WakeupReadNeverBlocks'
  BY <1>15 DEF InvokeLater
<1>16. ASSUME NEW t \in Threads, Stop(t)
      PROVE  RunInv' /\ WakeupReadNeverBlocks'
  BY <1>16 DEF Stop
<1>17. ASSUME NEW t \in Threads, Wakeup(t)
      PROVE  RunInv' /\ WakeupReadNeverBlocks'
  BY <1>17 DEF Wakeup
<1>18. CASE UNCHANGED vars
  BY <1>18 DEF vars
<1> QED
  BY <1>1, <1>2, <1>3, <1>4, <1>5, <1>6, <1>7, <1>8, <1>9, <1>10,
     <1>11, <1>12, <1>13, <1>14, <1>15, <1>16, <1>17, <1>18
     DEF Next, LoopThread, LoopStep, OtherThread

\* Steps that leave _queue alone, and neither end the part of the round before
\* the swap nor take a byte out of the pipe after it, lose no wakeup.
LEMMA QuietStep ==
  ASSUME NoLostWakeup, UNCHANGED queue,
         BeforeSwap => BeforeSwap', WakeupComing => BeforeSwap' \/ WakeupComing'
  PROVE  NoLostWakeup'
  BY DEF NoLostWakeup, Elements

\* No step loses a wakeup.
LEMMA WakeupStep ==
  ASSUME IInv, [Next]_vars
  PROVE  NoLostWakeup'
<1> USE DEF IInv
<1> USE DEF TypeOK
<1>1. CASE Run
  BY <1>1, QuietStep DEF Run, BeforeSwap, WakeupComing
<1>2. CASE TestStop
  BY <1>2, QuietStep DEF TestStop, BeforeSwap, WakeupComing
<1>3. CASE Select
  BY <1>3, QuietStep DEF Select, BeforeSwap, WakeupComing
<1>4. CASE SelectFails
  BY <1>4, QuietStep DEF SelectFails, BeforeSwap, WakeupComing
<1>5. CASE OnWakeupRead
  BY <1>5, QuietStep DEF OnWakeupRead, BeforeSwap, WakeupComing
<1>6. ASSUME NEW h \in Handlers, HandleEvents(h)
      PROVE  NoLostWakeup'
  BY <1>6, QuietStep DEF HandleEvents, BeforeSwap, WakeupComing
<1>7. CASE EndDispatch
  BY <1>7, QuietStep DEF EndDispatch, BeforeSwap, WakeupComing
<1>8. CASE SwapQueue
  BY <1>8 DEF SwapQueue, NoLostWakeup, Elements
<1>9. CASE InvokeNext
  BY <1>9, QuietStep DEF InvokeNext, BeforeSwap, WakeupComing
<1>10. CASE EndInvoke
  BY <1>10, QuietStep DEF EndInvoke, BeforeSwap, WakeupComing
<1>11. CASE Return
  BY <1>11, QuietStep DEF Return, BeforeSwap, WakeupComing
<1>12. ASSUME NEW f \in Functors, LoopInvokeLater(f)
       PROVE  NoLostWakeup'
  <2>1. Elements(queue') = Elements(queue) \union {f}
    BY <1>12, ElementsAppend DEF LoopInvokeLater
  <2>2. CASE loopAt = "user"
    <3>1. f \in OwnerPosts /\ loopAt' = "user" /\ ~ BeforeSwap
      BY <1>12, <2>2 DEF LoopInvokeLater, RunInv, BeforeSwap
    <3>2. WakeupComing => WakeupComing'
      BY <1>12, <2>2 DEF LoopInvokeLater, WakeupComing
    <3> QED
      BY <2>1, <3>1, <3>2 DEF NoLostWakeup
  <2>3. CASE loopAt = "callback"
    BY <1>12, <2>3 DEF LoopInvokeLater, RunInv, BeforeSwap, NoLostWakeup
  <2>4. CASE loopAt = "function"
    BY <1>12, <2>4 DEF LoopInvokeLater, RunInv, WakeupComing, NoLostWakeup
  <2> QED
    BY <1>12, <2>2, <2>3, <2>4 DEF LoopInvokeLater
<1>13. CASE LoopWakeup
  BY <1>13, EventLoopAssumption DEF LoopWakeup, WakeupComing, NoLostWakeup
<1>14. CASE LoopStop
  BY <1>14, QuietStep DEF LoopStop, BeforeSwap, WakeupComing
<1>15. ASSUME NEW t \in Threads, NEW f \in Functors, InvokeLater(t, f)
       PROVE  NoLostWakeup'
  BY <1>15 DEF InvokeLater, WakeupComing, NoLostWakeup
<1>16. ASSUME NEW t \in Threads, Stop(t)
       PROVE  NoLostWakeup'
  BY <1>16 DEF Stop, WakeupComing, NoLostWakeup
<1>17. ASSUME NEW t \in Threads, Wakeup(t)
       PROVE  NoLostWakeup'
  BY <1>17, EventLoopAssumption DEF Wakeup, WakeupComing, NoLostWakeup
<1>18. CASE UNCHANGED vars
  BY <1>18, QuietStep DEF vars, BeforeSwap, WakeupComing
<1> QED
  BY <1>1, <1>2, <1>3, <1>4, <1>5, <1>6, <1>7, <1>8, <1>9, <1>10, <1>11,
     <1>12, <1>13, <1>14, <1>15, <1>16, <1>17, <1>18
     DEF Next, LoopThread, LoopStep, OtherThread

\* IInv holds throughout.
LEMMA Inductive == Spec => []IInv
<1>1. Init => IInv
  BY TypeInit, EventLoopAssumption
     DEF Init, IInv, RunInv, WakeupReadNeverBlocks, NoLostWakeup, Elements
<1>2. IInv /\ [Next]_vars => IInv'
  BY TypeStep, RunStep, WakeupStep DEF IInv
<1> QED
  BY <1>1, <1>2, PTL DEF Spec

\* A function that another thread, or a callback, hands over never waits for a
\* wakeup that does not come.
THEOREM NoWakeupLost == Spec => []NoLostWakeup
  BY Inductive, PTL DEF IInv

\* The blocking read of the wakeup pipe never blocks the loop.
THEOREM WakeupReadDoesNotBlock == Spec => []WakeupReadNeverBlocks
  BY Inductive, PTL DEF IInv

-----------------------------------------------------------------------------
(* Refinement: what is left of the round's functions, followed by _queue,  *)
(* is the pending part of one FIFO queue.  SwapQueue is a stutter because  *)
(* nothing is left of the round before (RunInv).                           *)

\* A step that touches neither _queue nor the round's functions stutters.
LEMMA StutterStep ==
  ASSUME UNCHANGED <<queue, functions, ran>>
  PROVE  UNCHANGED FIFO!vars
  BY DEF FIFO!vars

\* Every step of the loop and of its clients is a step of the FIFO queue.
LEMMA FIFOStep ==
  ASSUME TypeOK, RunInv, [Next]_vars
  PROVE  [FIFO!Next]_(FIFO!vars)
<1>1. CASE SwapQueue
  <2>1. functions = <<>>
    BY <1>1 DEF SwapQueue, RunInv
  <2>2. functions' \o queue' = functions \o queue
    BY <1>1, <2>1, ConcatEmptySeq DEF SwapQueue, TypeOK
  <2> QED
    BY <1>1, <2>2 DEF SwapQueue, FIFO!vars
<1>2. CASE InvokeNext
  <2>1. /\ functions \o queue # <<>>
        /\ Head(functions \o queue) = Head(functions)
        /\ Tail(functions \o queue) = Tail(functions) \o queue
    BY <1>2, HeadTailConcat DEF InvokeNext, TypeOK
  <2>2. FIFO!RunOldest
    BY <1>2, <2>1 DEF InvokeNext, FIFO!RunOldest
  <2> QED
    BY <2>2 DEF FIFO!Next
<1>3. ASSUME NEW f \in Functors, queue' = Append(queue, f),
             UNCHANGED <<functions, ran>>
      PROVE  [FIFO!Next]_(FIFO!vars)
  <2>1. functions' \o queue' = Append(functions \o queue, f)
    BY <1>3, ConcatAppend DEF TypeOK
  <2>2. FIFO!Post(f)
    BY <1>3, <2>1 DEF FIFO!Post
  <2> QED
    BY <2>2 DEF FIFO!Next
<1>4. ASSUME NEW f \in Functors, LoopInvokeLater(f)
      PROVE  [FIFO!Next]_(FIFO!vars)
  BY <1>3, <1>4 DEF LoopInvokeLater
<1>5. ASSUME NEW t \in Threads, NEW f \in Functors, InvokeLater(t, f)
      PROVE  [FIFO!Next]_(FIFO!vars)
  BY <1>3, <1>5 DEF InvokeLater
<1>6. CASE Run \/ TestStop \/ Select \/ SelectFails \/ OnWakeupRead
  BY <1>6, StutterStep DEF Run, TestStop, Select, SelectFails, OnWakeupRead
<1>7. CASE EndDispatch \/ EndInvoke \/ Return \/ LoopWakeup \/ LoopStop
  BY <1>7, StutterStep DEF EndDispatch, EndInvoke, Return, LoopWakeup, LoopStop
<1>8. ASSUME NEW h \in Handlers, HandleEvents(h)
      PROVE  [FIFO!Next]_(FIFO!vars)
  BY <1>8, StutterStep DEF HandleEvents
<1>9. ASSUME NEW t \in Threads, Stop(t) \/ Wakeup(t)
      PROVE  [FIFO!Next]_(FIFO!vars)
  BY <1>9, StutterStep DEF Stop, Wakeup
<1>10. CASE UNCHANGED vars
  BY <1>10, StutterStep DEF vars
<1> QED
  BY <1>1, <1>2, <1>4, <1>5, <1>6, <1>7, <1>8, <1>9, <1>10
     DEF Next, LoopThread, LoopStep, OtherThread

\* InvokeLater keeps its promise: the functions handed over by all threads form
\* one FIFO queue, and each is run once, in that order.
THEOREM ImplementsFIFO == Spec => FIFOSpec
<1>1. Init => FIFO!Init
  BY EmptySeq, ConcatEmptySeq DEF Init, FIFO!Init
<1>2. IInv => TypeOK /\ RunInv
  BY DEF IInv
<1> QED
  BY <1>1, <1>2, FIFOStep, Inductive, PTL DEF Spec, FIFOSpec, FIFO!Spec

-----------------------------------------------------------------------------
(* The steps of the owner and of the thread are steps of the loop, or none *)
(* of its steps, except that a Stop or a Wakeup may come after its end.    *)

\* Every other step keeps to EventLoop's next-state relation.
LEMMA StepOfLoop ==
  ASSUME ThreadNext, ~ UseAfterFree
  PROVE  [Next]_vars
<1>1. CASE Start \/ TestLoop \/ SpuriousWakeup \/ Publish \/ ThreadExit \/ Join
  BY <1>1 DEF Start, TestLoop, SpuriousWakeup, Publish, ThreadExit, Join
<1>2. CASE ThreadRun
  BY <1>2 DEF ThreadRun, Next, LoopThread
<1>3. CASE InsideRun
  BY <1>3 DEF InsideRun, Next
<1>4. CASE Destructor
  <2>1. CASE Stop(Owner)
    BY <2>1, OwnerAssumption DEF Next, OtherThread
  <2>2. CASE UNCHANGED vars
    BY <2>2
  <2> QED
    BY <1>4, <2>1, <2>2 DEF Destructor
<1>5. ASSUME NEW t \in Threads, Client(t) \/ ClientWakeup(t)
      PROVE  [Next]_vars
  BY <1>5 DEF Client, ClientWakeup, Next, OtherThread
<1> QED
  BY <1>1, <1>2, <1>3, <1>4, <1>5 DEF ThreadNext

\* A use after the end changes nothing but who is in a call.
LEMMA StepAfterEnd ==
  ASSUME TypeOK, UseAfterFree
  PROVE  /\ TypeOK'
         /\ thread = "gone" /\ thread' = "gone"
         /\ UNCHANGED <<stop, queue, functions, queueInvoking, pipe, active,
                        loopAt, stoppers, ran>>
<1> USE DEF UseAfterFree, TypeOK, ThreadAt
<1>1. threadAt' \in [Threads -> ThreadAt]
  <2>1. CASE threadAt' = threadAt
    BY <2>1
  <2>2. ASSUME NEW t \in Threads, threadAt' = [threadAt EXCEPT ![t] = "idle"]
        PROVE  threadAt' \in [Threads -> ThreadAt]
    BY <2>2
  <2> QED
    BY <2>1, <2>2
<1> QED
  BY <1>1

-----------------------------------------------------------------------------
(* The inductive invariant: which of the owner's steps go with which part  *)
(* of the thread's life.  LoopAddressIsValid alone is not inductive:       *)
(* TestLoop hands the address out because ownerAt = "start" means that     *)
(* there is a thread, and Publish must find the owner still waiting.       *)

OwnerInv ==
  /\ ownerAt = "new" => thread = "none"
  /\ ownerAt \in {"start", "wait", "started", "join"} => thread # "none"
  /\ ownerAt = "wait" => thread = "constructing"
  /\ ownerAt \in {"started", "join"} => thread # "constructing"
  /\ ownerAt = "done" => thread \in {"none", "gone"}

\* Run is under way only in the thread that called it.
RunsInThread == Running => thread = "running"

\* As long as the loop exists no wakeup of it is lost.
WakeupsWhileLoopExists == thread # "gone" => NoLostWakeup

ThreadIInv ==
  /\ ThreadTypeOK /\ RunInv /\ WakeupReadNeverBlocks
  /\ OwnerInv /\ RunsInThread /\ WakeupsWhileLoopExists

LEMMA ThreadInvInit == ThreadInit => ThreadIInv
<1> SUFFICES ASSUME ThreadInit PROVE ThreadIInv
  OBVIOUS
<1>1. Init => IInv
  BY TypeInit, EventLoopAssumption
     DEF Init, IInv, RunInv, WakeupReadNeverBlocks, NoLostWakeup, Elements
<1> QED
  BY <1>1 DEF ThreadInit, ThreadIInv, IInv, ThreadTypeOK, ThreadStates,
     OwnerAt, OwnerInv, RunsInThread, WakeupsWhileLoopExists, Init, Running

\* The part of the invariant that is about the owner and the thread.
LEMMA OwnerStep ==
  ASSUME ThreadIInv, ThreadNext
  PROVE  /\ thread' \in ThreadStates /\ ownerAt' \in OwnerAt
         /\ OwnerInv' /\ RunsInThread'
         /\ thread = "gone" => thread' = "gone"
<1> USE DEF ThreadIInv, ThreadTypeOK, ThreadStates, OwnerAt, OwnerInv,
            RunsInThread, Running
<1>1. CASE Start
  BY <1>1 DEF Start, vars
<1>2. CASE TestLoop
  BY <1>2 DEF TestLoop, vars
<1>3. CASE SpuriousWakeup
  BY <1>3 DEF SpuriousWakeup, vars
<1>4. CASE Publish
  BY <1>4 DEF Publish, vars
<1>5. CASE ThreadRun
  BY <1>5 DEF ThreadRun, Run
<1>6. CASE InsideRun
  BY <1>6 DEF InsideRun
<1>7. CASE ThreadExit
  BY <1>7 DEF ThreadExit, vars
<1>8. CASE Destructor
  <2>1. UNCHANGED loopAt
    BY <1>8 DEF Destructor, Stop, vars
  <2> QED
    BY <1>8, <2>1 DEF Destructor
<1>9. CASE UseAfterFree
  BY <1>9 DEF UseAfterFree
<1>10. CASE Join
  BY <1>10 DEF Join, vars
<1>11. ASSUME NEW t \in Threads, Client(t) \/ ClientWakeup(t)
       PROVE  /\ thread' \in ThreadStates /\ ownerAt' \in OwnerAt
              /\ OwnerInv' /\ RunsInThread'
              /\ thread = "gone" => thread' = "gone"
  <2>1. UNCHANGED <<thread, ownerAt, loopAt>>
    BY <1>11 DEF Client, ClientWakeup, InvokeLater, Wakeup
  <2> QED
    BY <2>1
<1> QED
  BY <1>1, <1>2, <1>3, <1>4, <1>5, <1>6, <1>7, <1>8, <1>9, <1>10, <1>11
     DEF ThreadNext

LEMMA ThreadInvStep == ThreadIInv /\ [ThreadNext]_threadVars => ThreadIInv'
<1> SUFFICES ASSUME ThreadIInv, [ThreadNext]_threadVars PROVE ThreadIInv'
  OBVIOUS
<1>1. CASE ThreadNext /\ ~ UseAfterFree
  <2>1. TypeOK' /\ RunInv' /\ WakeupReadNeverBlocks'
    BY <1>1, StepOfLoop, TypeStep, RunStep DEF ThreadIInv, ThreadTypeOK
  <2>2. WakeupsWhileLoopExists'
    <3>1. CASE thread = "gone"
      BY <1>1, <3>1, OwnerStep DEF WakeupsWhileLoopExists
    <3>2. CASE thread # "gone"
      <4>1. IInv
        BY <3>2 DEF ThreadIInv, ThreadTypeOK, IInv, WakeupsWhileLoopExists
      <4> QED
        BY <1>1, <4>1, StepOfLoop, WakeupStep DEF WakeupsWhileLoopExists
    <3> QED
      BY <3>1, <3>2
  <2> QED
    BY <1>1, <2>1, <2>2, OwnerStep DEF ThreadIInv, ThreadTypeOK
<1>2. CASE UseAfterFree
  <2>1. TypeOK' /\ RunInv' /\ WakeupReadNeverBlocks' /\ WakeupsWhileLoopExists'
    BY <1>2, StepAfterEnd
       DEF ThreadIInv, ThreadTypeOK, RunInv, WakeupReadNeverBlocks,
           WakeupsWhileLoopExists
  <2>2. ThreadNext
    BY <1>2 DEF ThreadNext
  <2> QED
    BY <2>1, <2>2, OwnerStep DEF ThreadIInv, ThreadTypeOK
<1>3. CASE UNCHANGED threadVars
  BY <1>3 DEF threadVars, vars, ThreadIInv, ThreadTypeOK, TypeOK, RunInv,
     WakeupReadNeverBlocks, OwnerInv, RunsInThread, Running,
     WakeupsWhileLoopExists, NoLostWakeup, BeforeSwap, WakeupComing, Elements
<1> QED
  BY <1>1, <1>2, <1>3

\* ThreadIInv holds throughout.
LEMMA ThreadInductive == ThreadSpec => []ThreadIInv
  BY ThreadInvInit, ThreadInvStep, PTL DEF ThreadSpec

-----------------------------------------------------------------------------
\* Type correctness of the loop in its thread, undefined uses included.
THEOREM ThreadTypeCorrect == ThreadSpec => []ThreadTypeOK
  BY ThreadInductive, PTL DEF ThreadIInv

\* Start never returns a null or half-constructed loop, and the destructor never
\* returns before the thread, which uses the object, has ended.
THEOREM AddressIsValid == ThreadSpec => []LoopAddressIsValid
<1>1. ThreadIInv => LoopAddressIsValid
  BY DEF ThreadIInv, ThreadTypeOK, ThreadStates, OwnerInv, LoopAddressIsValid
<1> QED
  BY <1>1, ThreadInductive, PTL

\* Until the loop is destroyed, a function that is handed over to it through
\* the address that Start returned never waits for a wakeup that does not come.
THEOREM NoWakeupLostInThread == ThreadSpec => []WakeupsWhileLoopExists
  BY ThreadInductive, PTL DEF ThreadIInv

\* The loop in its thread still keeps the promise of InvokeLater: construction,
\* destruction and a use after the end neither lose nor reorder functions.
THEOREM ThreadImplementsFIFO == ThreadSpec => FIFOSpec
<1>1. ThreadInit => FIFO!Init
  BY EmptySeq, ConcatEmptySeq DEF ThreadInit, Init, FIFO!Init
<1>2. ASSUME ThreadIInv, [ThreadNext]_threadVars
      PROVE  [FIFO!Next]_(FIFO!vars)
  <2>1. CASE UseAfterFree
    BY <1>2, <2>1, StepAfterEnd, StutterStep DEF ThreadIInv, ThreadTypeOK
  <2>2. CASE UNCHANGED threadVars
    BY <2>2, StutterStep DEF threadVars, vars
  <2>3. CASE ThreadNext /\ ~ UseAfterFree
    <3>1. [Next]_vars
      BY <2>3, StepOfLoop
    <3> QED
      BY <1>2, <3>1, FIFOStep DEF ThreadIInv, ThreadTypeOK
  <2> QED
    BY <1>2, <2>1, <2>2, <2>3
<1> QED
  BY <1>1, <1>2, ThreadInductive, PTL DEF ThreadSpec, FIFOSpec, FIFO!Spec
=============================================================================
