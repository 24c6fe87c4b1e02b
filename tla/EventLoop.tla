------------------------------ MODULE EventLoop ------------------------------
(***************************************************************************)
(* netb::EventLoop (netb/EventLoop.cpp, EventLoop.hpp): the loop thread    *)
(* selects, dispatches the ready events and runs the functions queued by   *)
(* InvokeLater, while other threads hand over functions and call Stop.     *)
(* What the handlers register and remove is in Reactor.tla; here a ready   *)
(* handler is a callback that runs user code in the loop thread.           *)
(*                                                                         *)
(* Steps are atomic where the code is: a push or a swap holds              *)
(* _queue_mutex, and the store to _stop, the test of _stop and the         *)
(* one-byte transfers on the wakeup pipe are one step each.                *)
(***************************************************************************)
EXTENDS Naturals, Sequences

CONSTANTS
  Threads,        \* threads other than the loop thread
  Functors,       \* function objects; each is handed over at most once
  OwnerPosts,     \* those the loop thread hands over while it is outside Run
  Handlers,       \* event handlers other than the loop's own
  WakeupHandler,  \* _wakeup_handler
  PipeCapacity    \* bytes the wakeup socket pair holds before send() blocks

ASSUME EventLoopAssumption ==
  /\ OwnerPosts \subseteq Functors
  /\ WakeupHandler \notin Handlers
  /\ PipeCapacity \in Nat \ {0}

VARIABLES
  stop,           \* _stop
  queue,          \* _queue
  functions,      \* the local vector swapped with _queue: what is left of it
  queueInvoking,  \* _queue_invoking
  pipe,           \* bytes in _wakeup_pipe
  active,         \* handlers that Select reported and that are not served yet
  loopAt,         \* where the loop thread is
  threadAt,       \* where each other thread is
  stoppers,       \* threads that have called Stop (each calls it once)
  ran             \* history: queued functions started, in order

vars == <<stop, queue, functions, queueInvoking, pipe, active, loopAt,
          threadAt, stoppers, ran>>

\* "user" is the loop thread outside Run; "callback" and "function" are user
\* code called by Run; "wakeup" is the send() inside Wakeup.
LoopAt == {"user", "while", "select", "dispatch", "callback", "swap",
           "invoke", "function", "wakeup"}

ThreadAt == {"idle", "wakeup"}

Elements(s) == {s[i] : i \in DOMAIN s}

\* f has not been handed over yet.
Fresh(f) == f \notin Elements(queue) \union Elements(functions) \union Elements(ran)

Running == loopAt # "user"

-----------------------------------------------------------------------------
(* Operations with a bug one could plausibly write, for trying the         *)
(* properties: each stands in for the action in its name.                  *)

\* A queued function hands over another one without waking the loop up.
LoopInvokeLaterSilently(f) ==
  /\ loopAt \in {"user", "callback", "function"}
  /\ f \in OwnerPosts <=> loopAt = "user"
  /\ Fresh(f)
  /\ queue' = Append(queue, f)
  /\ UNCHANGED <<stop, functions, queueInvoking, pipe, active, loopAt,
                 threadAt, stoppers, ran>>

\* Select reports the wakeup pipe although it is empty.
SelectSpuriously ==
  /\ loopAt = "select"
  /\ \E ready \in SUBSET (Handlers \union {WakeupHandler}) : active' = ready
  /\ loopAt' = "dispatch"
  /\ UNCHANGED <<stop, queue, functions, queueInvoking, pipe, threadAt,
                 stoppers, ran>>

\* The wakeup handler takes one byte too many.
OnWakeupReadTwo ==
  /\ loopAt = "dispatch"
  /\ WakeupHandler \in active
  /\ pipe' = pipe - 2
  /\ active' = active \ {WakeupHandler}
  /\ UNCHANGED <<stop, queue, functions, queueInvoking, loopAt, threadAt,
                 stoppers, ran>>

\* The queue is copied, not swapped.
CopyQueue ==
  /\ loopAt = "swap"
  /\ queueInvoking' = TRUE
  /\ functions' = queue
  /\ loopAt' = "invoke"
  /\ UNCHANGED <<stop, queue, pipe, active, threadAt, stoppers, ran>>

\* Another thread stops the loop without waking it up.
StopSilently(t) ==
  /\ threadAt[t] = "idle"
  /\ t \notin stoppers
  /\ stop' = TRUE
  /\ stoppers' = stoppers \union {t}
  /\ UNCHANGED <<queue, functions, queueInvoking, pipe, active, loopAt,
                 threadAt, ran>>

-----------------------------------------------------------------------------
(* The loop thread.                                                        *)

\* Run: forget earlier Stops, watch the wakeup pipe, enter the loop.
Run ==
  /\ loopAt = "user"
  /\ stop' = FALSE
  /\ loopAt' = "while"
  /\ UNCHANGED <<queue, functions, queueInvoking, pipe, active, threadAt,
                 stoppers, ran>>

\* while(!_stop)
TestStop ==
  /\ loopAt = "while"
  /\ loopAt' = IF stop THEN "user" ELSE "select"
  /\ UNCHANGED <<stop, queue, functions, queueInvoking, pipe, active,
                 threadAt, stoppers, ran>>

\* Select returns every ready descriptor: the wakeup pipe when it holds a
\* byte, and any set of other ones.
Select ==
  /\ loopAt = "select"
  /\ \E ready \in SUBSET Handlers :
       active' = ready \union (IF pipe > 0 THEN {WakeupHandler} ELSE {})
  /\ active' # {}
  /\ loopAt' = "dispatch"
  /\ UNCHANGED <<stop, queue, functions, queueInvoking, pipe, threadAt,
                 stoppers, ran>>

\* Select returns an error, which Run ignores.
SelectFails ==
  /\ loopAt = "select"
  /\ loopAt' = "swap"
  /\ UNCHANGED <<stop, queue, functions, queueInvoking, pipe, active,
                 threadAt, stoppers, ran>>

\* The wakeup handler is served: one byte is read, with a blocking recv().
OnWakeupRead ==
  /\ loopAt = "dispatch"
  /\ WakeupHandler \in active
  /\ pipe > 0
  /\ pipe' = pipe - 1
  /\ active' = active \ {WakeupHandler}
  /\ UNCHANGED <<stop, queue, functions, queueInvoking, loopAt, threadAt,
                 stoppers, ran>>

\* Another handler is served: its callback starts.
HandleEvents(h) ==
  /\ loopAt = "dispatch"
  /\ h \in active
  /\ active' = active \ {h}
  /\ loopAt' = "callback"
  /\ UNCHANGED <<stop, queue, functions, queueInvoking, pipe, threadAt,
                 stoppers, ran>>

\* All events are served.
EndDispatch ==
  /\ loopAt = "dispatch"
  /\ active = {}
  /\ loopAt' = "swap"
  /\ UNCHANGED <<stop, queue, functions, queueInvoking, pipe, active,
                 threadAt, stoppers, ran>>

\* functions.swap(_queue)
SwapQueue ==
  /\ loopAt = "swap"
  /\ queueInvoking' = TRUE
  /\ functions' = queue
  /\ queue' = <<>>
  /\ loopAt' = "invoke"
  /\ UNCHANGED <<stop, pipe, active, threadAt, stoppers, ran>>

\* functions[i]() starts.
InvokeNext ==
  /\ loopAt = "invoke"
  /\ functions # <<>>
  /\ ran' = Append(ran, Head(functions))
  /\ functions' = Tail(functions)
  /\ loopAt' = "function"
  /\ UNCHANGED <<stop, queue, queueInvoking, pipe, active, threadAt, stoppers>>

\* All functions of this round have run.
EndInvoke ==
  /\ loopAt = "invoke"
  /\ functions = <<>>
  /\ queueInvoking' = FALSE
  /\ loopAt' = "while"
  /\ UNCHANGED <<stop, queue, functions, pipe, active, threadAt, stoppers, ran>>

\* A callback or a function returns to Run.
Return ==
  /\ loopAt \in {"callback", "function"}
  /\ loopAt' = IF loopAt = "callback" THEN "dispatch" ELSE "invoke"
  /\ UNCHANGED <<stop, queue, functions, queueInvoking, pipe, active,
                 threadAt, stoppers, ran>>

\* The steps of the loop thread that wait for nothing but its turn.
LoopStep ==
  \/ TestStop \/ OnWakeupRead \/ EndDispatch \/ SwapQueue
  \/ InvokeNext \/ EndInvoke \/ Return
  \/ \E h \in Handlers : HandleEvents(h)

-----------------------------------------------------------------------------
(* User code in the loop thread.  Invoke runs its argument on the spot, so *)
(* it is more user code and no step of its own.                            *)

\* InvokeLater: the loop wakes itself up only while it runs queued functions.
LoopInvokeLater(f) ==
  /\ loopAt \in {"user", "callback", "function"}
  /\ f \in OwnerPosts <=> loopAt = "user"
  /\ Fresh(f)
  /\ queue' = Append(queue, f)
  /\ loopAt' = IF queueInvoking THEN "wakeup" ELSE loopAt
  /\ UNCHANGED <<stop, functions, queueInvoking, pipe, active, threadAt,
                 stoppers, ran>>

\* The send() of Wakeup, called by a queued function.
LoopWakeup ==
  /\ loopAt = "wakeup"
  /\ pipe < PipeCapacity
  /\ pipe' = pipe + 1
  /\ loopAt' = "function"
  /\ UNCHANGED <<stop, queue, functions, queueInvoking, active, threadAt,
                 stoppers, ran>>

\* Stop, in the loop thread.
LoopStop ==
  /\ loopAt \in {"user", "callback", "function"}
  /\ stop' = TRUE
  /\ UNCHANGED <<queue, functions, queueInvoking, pipe, active, loopAt,
                 threadAt, stoppers, ran>>

-----------------------------------------------------------------------------
(* The other threads.                                                      *)

\* Invoke and InvokeLater: push under the lock, then Wakeup.
InvokeLater(t, f) ==
  /\ threadAt[t] = "idle"
  /\ f \notin OwnerPosts
  /\ Fresh(f)
  /\ queue' = Append(queue, f)
  /\ threadAt' = [threadAt EXCEPT ![t] = "wakeup"]
  /\ UNCHANGED <<stop, functions, queueInvoking, pipe, active, loopAt,
                 stoppers, ran>>

\* Stop: set the flag, then Wakeup.
Stop(t) ==
  /\ threadAt[t] = "idle"
  /\ t \notin stoppers
  /\ stop' = TRUE
  /\ stoppers' = stoppers \union {t}
  /\ threadAt' = [threadAt EXCEPT ![t] = "wakeup"]
  /\ UNCHANGED <<queue, functions, queueInvoking, pipe, active, loopAt, ran>>

\* The send() of Wakeup.
Wakeup(t) ==
  /\ threadAt[t] = "wakeup"
  /\ pipe < PipeCapacity
  /\ pipe' = pipe + 1
  /\ threadAt' = [threadAt EXCEPT ![t] = "idle"]
  /\ UNCHANGED <<stop, queue, functions, queueInvoking, active, loopAt,
                 stoppers, ran>>

-----------------------------------------------------------------------------
Init ==
  /\ stop = FALSE
  /\ queue = <<>>
  /\ functions = <<>>
  /\ queueInvoking = FALSE
  /\ pipe = 0
  /\ active = {}
  /\ loopAt = "user"
  /\ threadAt = [t \in Threads |-> "idle"]
  /\ stoppers = {}
  /\ ran = <<>>

LoopThread ==
  \/ Run \/ LoopStep \/ Select \/ SelectFails \/ LoopWakeup \/ LoopStop
  \/ \E f \in Functors : LoopInvokeLater(f)

OtherThread(t) ==
  \/ Stop(t) \/ Wakeup(t)
  \/ \E f \in Functors : InvokeLater(t, f)

Next == LoopThread \/ \E t \in Threads : OtherThread(t)

Spec == Init /\ [][Next]_vars

\* Threads that are inside the library are scheduled, user code returns, and
\* select() returns once the wakeup pipe holds a byte.  Calling Run,
\* InvokeLater or Stop is the user's choice, events on other sockets and an
\* error of select() are the network's: no fairness for those.
Fairness ==
  /\ WF_vars(LoopStep)
  /\ WF_vars(pipe > 0 /\ Select)
  /\ WF_vars(LoopWakeup)
  /\ \A t \in Threads : WF_vars(Wakeup(t))

FairSpec == Spec /\ Fairness

-----------------------------------------------------------------------------
\* The types of the members of EventLoop and of the places in its code.
TypeOK ==
  /\ stop \in BOOLEAN
  /\ queue \in Seq(Functors)
  /\ functions \in Seq(Functors)
  /\ queueInvoking \in BOOLEAN
  /\ pipe \in 0 .. PipeCapacity
  /\ active \in SUBSET (Handlers \union {WakeupHandler})
  /\ loopAt \in LoopAt
  /\ threadAt \in [Threads -> ThreadAt]
  /\ stoppers \in SUBSET Threads
  /\ ran \in Seq(Functors)

\* The loop has yet to take the functions that are in _queue this round.
BeforeSwap == loopAt \in {"dispatch", "callback", "swap"}

\* A byte that will end the next Select is in the pipe, or about to be.
WakeupComing ==
  \/ pipe > 0
  \/ loopAt = "wakeup"
  \/ \E t \in Threads : threadAt[t] = "wakeup"

\* No lost wakeup: while a function handed over by another thread, or by user
\* code that Run called, waits in _queue, either this round still takes it or
\* a wakeup is coming.  (Run, InvokeLater, Wakeup, OnWakeupRead.)
NoLostWakeup ==
  (\E f \in Elements(queue) : f \notin OwnerPosts) => BeforeSwap \/ WakeupComing

\* The blocking recv() of OnWakeupRead always finds a byte, so the loop never
\* sleeps anywhere but in Select.
WakeupReadNeverBlocks == WakeupHandler \in active => pipe > 0

\* InvokeLater implements the FIFO queue its header promises: no function is
\* lost, run twice or overtaken, across batches and threads.
FIFO == INSTANCE FunctionQueue WITH pending <- functions \o queue, done <- ran

\* The queue of Run, InvokeLater and Invoke behaves as FIFO says.
FIFOSpec == FIFO!Spec

\* A function that waits in the queue of a running loop is run, unless the
\* loop is stopped; those the owner hands over outside Run are left out.
QueuedFunctionsRun ==
  \A f \in Functors \ OwnerPosts :
    (Running /\ f \in Elements(queue)) ~> (f \in Elements(ran) \/ stop)

\* EventLoop.hpp:92: "Set a function that will be invoked in the loop later",
\* for those functions too.
OwnerFunctionsRun ==
  \A f \in OwnerPosts :
    (Running /\ f \in Elements(queue)) ~> (f \in Elements(ran) \/ stop)

\* A running loop that was told to stop leaves Run.
StopEndsRun == (Running /\ stop) ~> ~Running
=============================================================================
