---------------------------- MODULE FunctionQueue ----------------------------
(***************************************************************************)
(* What EventLoop::InvokeLater promises its callers (EventLoop.hpp:92-94   *)
(* and :125-128): functions wait in one FIFO queue and the loop runs each  *)
(* of them once, in the order in which they were handed over.  Nothing is  *)
(* said here of threads, of batches, of the wakeup pipe or of stopping.    *)
(***************************************************************************)
EXTENDS Sequences

CONSTANT Functors   \* function objects

VARIABLES
  pending,  \* handed over, not started yet, oldest first
  done      \* started, in the order of their start

vars == <<pending, done>>

Init == pending = <<>> /\ done = <<>>

\* A caller hands over a function.
Post(f) ==
  /\ pending' = Append(pending, f)
  /\ UNCHANGED done

\* The loop starts the oldest one.
RunOldest ==
  /\ pending # <<>>
  /\ done' = Append(done, Head(pending))
  /\ pending' = Tail(pending)

Next == RunOldest \/ \E f \in Functors : Post(f)

Spec == Init /\ [][Next]_vars
=============================================================================
