--------------------------- MODULE EventLoopThread ---------------------------
(***************************************************************************)
(* netb::EventLoopThread (netb/EventLoopThread.cpp): an owner starts a     *)
(* thread, the thread constructs an EventLoop on its stack, publishes its  *)
(* address and runs it; the destructor stops the loop and joins the        *)
(* thread.  The loop is the one of EventLoop.tla, and lives no longer than *)
(* its thread.                                                             *)
(***************************************************************************)
EXTENDS EventLoop

CONSTANT Owner   \* the thread that calls Start and the destructor

ASSUME OwnerAssumption == Owner \in Threads /\ OwnerPosts = {}

VARIABLES
  thread,   \* the life of the loop's thread, and so of _loop
  ownerAt   \* where the owner is in Start and in the destructor

threadVars == <<vars, thread, ownerAt>>

\* _loop is null while "none" and "constructing", dangling once "gone".
ThreadStates == {"none", "constructing", "published", "running", "gone"}

\* "start" is about to take _mutex in Start, "wait" is in _cond.wait, "join"
\* is past the store of Stop, "aborted" is the whole process.
OwnerAt == {"new", "start", "wait", "started", "join", "done", "aborted"}

LoopExists == thread \in {"published", "running"}

ThreadTypeOK ==
  /\ TypeOK
  /\ thread \in ThreadStates
  /\ ownerAt \in OwnerAt

-----------------------------------------------------------------------------
(* Operations with a bug one could plausibly write.                        *)

\* ThreadFunc sets _loop and notifies nobody.
PublishSilently ==
  /\ thread = "constructing"
  /\ thread' = "published"
  /\ UNCHANGED <<vars, ownerAt>>

\* Start does not wait for _loop to be set.
TestLoopOnce ==
  /\ ownerAt = "start"
  /\ ownerAt' = "started"
  /\ UNCHANGED <<vars, thread>>

-----------------------------------------------------------------------------
(* Start.                                                                  *)

\* _thread = std::thread(...)
Start ==
  /\ ownerAt = "new"
  /\ ownerAt' = "start"
  /\ thread' = "constructing"
  /\ UNCHANGED vars

\* while(!_loop), under the lock: return, or wait.
TestLoop ==
  /\ ownerAt = "start"
  /\ ownerAt' = IF thread = "constructing" THEN "wait" ELSE "started"
  /\ UNCHANGED <<vars, thread>>

\* A condition variable may wake up for no reason.
SpuriousWakeup ==
  /\ ownerAt = "wait"
  /\ ownerAt' = "start"
  /\ UNCHANGED <<vars, thread>>

-----------------------------------------------------------------------------
(* ThreadFunc.                                                             *)

\* The loop is constructed; _loop = &loop and notify_one, under the lock.
Publish ==
  /\ thread = "constructing"
  /\ thread' = "published"
  /\ ownerAt' = IF ownerAt = "wait" THEN "start" ELSE ownerAt
  /\ UNCHANGED vars

\* loop.Run()
ThreadRun ==
  /\ thread = "published"
  /\ Run
  /\ thread' = "running"
  /\ UNCHANGED ownerAt

\* A step of the loop thread, or of user code that it calls, inside Run.
InsideRun ==
  /\ Running
  /\ LoopThread
  /\ UNCHANGED <<thread, ownerAt>>

\* Run has returned: the loop is destroyed and the thread ends.
ThreadExit ==
  /\ thread = "running"
  /\ ~ Running
  /\ thread' = "gone"
  /\ UNCHANGED <<vars, ownerAt>>

-----------------------------------------------------------------------------
(* Clients, and the destructor.                                            *)

\* A thread that has the loop's address uses it.
Client(t) ==
  /\ ownerAt = "started"
  /\ LoopExists
  /\ \E f \in Functors : InvokeLater(t, f)
  /\ UNCHANGED <<thread, ownerAt>>

\* ~EventLoopThread, before Start and after it.  The owner sees to it that no
\* other thread is still using the loop.
Destructor ==
  \/ /\ ownerAt = "new"
     /\ ownerAt' = "done"
     /\ UNCHANGED <<vars, thread>>
  \/ /\ ownerAt = "started"
     /\ \A t \in Threads : threadAt[t] = "idle"
     /\ LoopExists
     /\ Stop(Owner)
     /\ ownerAt' = "join"
     /\ UNCHANGED thread

\* The send() of Wakeup, on a loop that exists.
ClientWakeup(t) ==
  /\ LoopExists
  /\ Wakeup(t)
  /\ UNCHANGED <<thread, ownerAt>>

\* Stop or Wakeup on a loop that is gone: undefined.  The write may go
\* unnoticed, or fail its assertion (or the memory access) and end the process.
UseAfterFree ==
  /\ thread = "gone" /\ ownerAt # "aborted"
  /\ \/ /\ ownerAt = "started"
        /\ threadAt' = threadAt
        /\ ownerAt' \in {"join", "aborted"}
     \/ \E t \in Threads :
          /\ threadAt[t] = "wakeup"
          /\ threadAt' = [threadAt EXCEPT ![t] = "idle"]
          /\ ownerAt' \in {ownerAt, "aborted"}
  /\ UNCHANGED <<stop, queue, functions, queueInvoking, pipe, active, loopAt,
                 stoppers, ran, thread>>

\* _thread.join()
Join ==
  /\ ownerAt = "join"
  /\ threadAt[Owner] = "idle"
  /\ thread = "gone"
  /\ ownerAt' = "done"
  /\ UNCHANGED <<vars, thread>>

-----------------------------------------------------------------------------
ThreadInit == Init /\ thread = "none" /\ ownerAt = "new"

ThreadNext ==
  \/ Start \/ TestLoop \/ SpuriousWakeup
  \/ Publish \/ ThreadRun \/ InsideRun \/ ThreadExit
  \/ Destructor \/ UseAfterFree \/ Join
  \/ \E t \in Threads : Client(t) \/ ClientWakeup(t)

\* Both threads are scheduled; the loop as in EventLoop.  When the owner calls
\* the destructor, and whether clients call at all, is theirs to choose.
ThreadFairness ==
  /\ WF_threadVars(TestLoop \/ UseAfterFree \/ Join)
  /\ WF_threadVars(Publish \/ ThreadRun \/ ThreadExit)
  /\ WF_threadVars(InsideRun /\ (LoopStep \/ LoopWakeup \/ (pipe > 0 /\ Select)))
  /\ \A t \in Threads : WF_threadVars(ClientWakeup(t))

ThreadSpec == ThreadInit /\ [][ThreadNext]_threadVars /\ ThreadFairness

-----------------------------------------------------------------------------
\* Start hands out the address of a loop that has been constructed, and the
\* destructor returns only when the thread, which uses the object, has ended.
LoopAddressIsValid ==
  /\ ownerAt \in {"started", "join"} => thread \in {"published", "running", "gone"}
  /\ ownerAt = "done" => thread \in {"none", "gone"}

\* No lost notification: Start returns.
StartReturns == ownerAt = "start" ~> ownerAt \in {"started", "aborted"}

\* The destructor returns (or undefined behaviour ends the process) when its
\* Stop finds the loop inside Run.
JoinReturns ==
  (ownerAt = "join" /\ Running /\ stop) ~> ownerAt \in {"done", "aborted"}

\* EventLoopThread.hpp:35: "The loop has been running when returned".
StartedLoopRuns == ownerAt = "started" => thread \in {"running", "gone"}

\* What that sentence is there for: a loop that Start has returned can be
\* stopped, so the destructor always returns.
DestructorReturns == ownerAt = "join" ~> ownerAt \in {"done", "aborted"}

\* EventLoop.hpp:66-68: Stop stops a running loop and "Sould be thread safe":
\* it does not touch the loop after the loop is gone.
LoopOutlivesStop == \A t \in Threads : threadAt[t] = "wakeup" => thread # "gone"
=============================================================================
