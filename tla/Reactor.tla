------------------------------- MODULE Reactor -------------------------------
(***************************************************************************)
(* The reactor: netb::EventHandler objects, the registry of EventLoop      *)
(* (_handlers) and the interest sets of SocketSelector, used by user code  *)
(* in the loop thread and by external threads.  How queued functions are   *)
(* handed over and wakeups are read is in EventLoop.tla; here a push and   *)
(* its Wakeup are one step.                                                *)
(*                                                                         *)
(* Any thread may call any handler (EventHandler.cpp:23-28), until a       *)
(* Detach of it has returned; then it is deleted.  A descriptor has one    *)
(* live handler and is closed after its handler is deleted.  Some of these *)
(* programs the code does not survive, and they are not excluded: the      *)
(* history variable "ways" tells which handlers were used in which way,    *)
(* and only properties read it.                                            *)
(***************************************************************************)
EXTENDS Naturals, Sequences

CONSTANTS
  Handlers,      \* EventHandler objects of the users, each constructed once
  Threads,       \* external threads
  Fds,           \* descriptors of the users' sockets
  WakeupFd,      \* descriptor of the loop's own handler
  EndReads,      \* what RemoveHandler may read as the key of end()
  Events,        \* the events, out of Event, that the program enables
  Ways,          \* the ways, out of Way, in which the program uses its handlers
  MaxPending     \* bound: functions queued, and bytes in the wakeup pipe

Loop == "loop"           \* the loop thread, as an owner of handlers
NoHandler == "null"      \* no entry in _handlers
WakeupHandler == "wakeup"

AllFds == Fds \union {WakeupFd}

Event == {"read", "write"}

\* "mixed": a thread other than the one that constructed the handler queues a
\* function for it or detaches it, or the loop updates it while it is detached.
\* "eager": it is detached before the loop has attached it.
\* "self": it is detached by its own callback.
Way == {"mixed", "eager", "self"}

ASSUME ReactorAssumption ==
  /\ AllFds \subseteq Nat /\ WakeupFd \notin Fds
  /\ {NoHandler, WakeupHandler} \intersect Handlers = {}
  /\ Loop \notin Threads
  /\ Events \subseteq Event /\ Ways \subseteq Way
  /\ MaxPending \in Nat

VARIABLES
  handlers,   \* EventLoop::_handlers: the handler of each descriptor
  interest,   \* SocketSelector: the events selected for each descriptor
  life,       \* of each EventHandler: "new", "live", "cut" (a Detach of it has
              \* returned), "dead"
  home,       \* who constructed it
  fdOf,       \* _socket
  events,     \* _events
  detached,   \* _detached
  open,       \* open descriptors
  queue,      \* EventLoop::_queue
  functions,  \* what is left of the functions of this round
  pipe,       \* bytes in the wakeup pipe
  loopAt,     \* where the loop thread is
  ready,      \* events reported by Select and not yet dispatched
  current,    \* _current_handler
  todo,       \* events that HandleEvents has yet to serve
  waiting,    \* the handler whose Detach each external thread waits for
  ways        \* history: the ways in which each handler has been used

handlerVars == <<life, home, fdOf, events, detached, open>>
registryVars == <<handlers, interest>>
queueVars == <<queue, functions, pipe>>
loopVars == <<loopAt, ready, current, todo>>
vars == <<handlerVars, registryVars, queueVars, loopVars, waiting, ways>>

Functor == [op : {"attach", "update", "detach"}, h : Handlers]

\* Where the loop thread is.  It ends at "null" when the assertion that a ready
\* descriptor has a handler fails, at "aborted" when the one that a handler to
\* update is attached does, and at "dangling" when it uses a handler that is
\* deleted: nothing is said of what happens then.
LoopAt == {"outside", "select", "dispatch", "handle", "callback", "swap",
           "invoke", "null", "aborted", "dangling"}

Sound == loopAt \notin {"null", "aborted", "dangling"}

\* The loop thread runs user code: outside Run, and in callbacks.
InUserCode == loopAt \in {"outside", "callback"}

\* The functions that are to run, in that order.
Pending == functions \o queue
IsPending(h, op) == \E i \in DOMAIN Pending : Pending[i] = [op |-> op, h |-> h]

-----------------------------------------------------------------------------
(* EventLoop's registry, as functions of <<_handlers, selector>>.          *)

\* RegisterHandler: an entry that exists is kept; the events are set.
RegisterHandler(h) ==
  /\ handlers' = IF handlers[fdOf'[h]] = NoHandler
                 THEN [handlers EXCEPT ![fdOf'[h]] = h] ELSE handlers
  /\ interest' = [interest EXCEPT ![fdOf'[h]] = events'[h]]

\* UpdateHandler, which does nothing for a descriptor without an entry.
UpdateHandler(h) ==
  /\ interest' = IF handlers[fdOf[h]] = NoHandler THEN interest
                 ELSE [interest EXCEPT ![fdOf[h]] = events'[h]]
  /\ UNCHANGED handlers

Registered == {fd \in AllFds : handlers[fd] # NoHandler}

\* RemoveHandler erases the entry and tells the selector to forget the key of
\* the NEXT entry; past the last entry that key is whatever is read there.
RemoveHandler(h) ==
  IF \E fd \in AllFds : handlers[fd] = h
  THEN LET fd == CHOOSE g \in AllFds : handlers[g] = h
           above == {g \in Registered : g > fd}
           next == {g \in above : \A k \in above : g <= k}
       IN /\ handlers' = [handlers EXCEPT ![fd] = NoHandler]
          /\ \E key \in IF above = {} THEN EndReads ELSE next :
               interest' = [g \in AllFds |-> IF g = key THEN {} ELSE interest[g]]
  ELSE UNCHANGED registryVars

-----------------------------------------------------------------------------
(* EventHandler: in the loop thread the registry is changed at once, in    *)
(* another thread a function is queued.                                    *)

\* User code of a, the loop thread or an external one, can run.
CanCall(a) == Sound /\ IF a = Loop THEN InUserCode ELSE waiting[a] = NoHandler

\* h is used in the ways w.
Mark(h, w) == w \subseteq Ways /\ ways' = [ways EXCEPT ![h] = @ \union w]

\* _loop->Invoke(std::bind(op, h)) from an external thread.
Post(op, h) ==
  /\ Len(Pending) < MaxPending /\ pipe < MaxPending   \* bounds
  /\ queue' = Append(queue, [op |-> op, h |-> h])
  /\ pipe' = pipe + 1
  /\ UNCHANGED <<functions, registryVars>>

\* The constructor; the socket is new, or open and free of other handlers.
New(a, h, fd) ==
  /\ CanCall(a) /\ life[h] = "new"
  /\ \A g \in Handlers : life[g] \in {"live", "cut"} => fdOf[g] # fd
  /\ life' = [life EXCEPT ![h] = "live"]
  /\ home' = [home EXCEPT ![h] = a]
  /\ fdOf' = [fdOf EXCEPT ![h] = fd]
  /\ open' = open \union {fd}
  /\ IF a = Loop
     THEN /\ UNCHANGED <<events, queueVars>>
          /\ RegisterHandler(h)
          /\ detached' = [detached EXCEPT ![h] = FALSE]
     ELSE Post("attach", h) /\ UNCHANGED <<events, detached>>
  /\ UNCHANGED <<loopVars, waiting, ways>>

\* Update, with the new events.
Update(a, h) ==
  /\ CanCall(a) /\ life[h] = "live"
  /\ \/ /\ a # Loop
        /\ Post("update", h)
        /\ Mark(h, IF a = home[h] THEN {} ELSE {"mixed"})
        /\ UNCHANGED loopAt
     \/ /\ a = Loop /\ ~ detached[h]
        /\ UpdateHandler(h)
        /\ UNCHANGED <<queueVars, loopAt, ways>>
     \/ /\ a = Loop /\ detached[h]
        /\ Mark(h, {"mixed"})
        /\ loopAt' = "aborted"
        /\ UNCHANGED <<queueVars, registryVars>>
  /\ UNCHANGED <<life, home, fdOf, detached, open, ready, current, todo, waiting>>

\* EnableReading, EnableWriting.
Enable(a, h, e) ==
  /\ events' = [events EXCEPT ![h] = @ \union {e}]
  /\ Update(a, h)

\* DisableReading, DisableWriting.
Disable(a, h, e) ==
  /\ events' = [events EXCEPT ![h] = @ \ {e}]
  /\ Update(a, h)

NobodyWaits(h) == \A t \in Threads : waiting[t] # h

\* The ways of using h that Detach in a is.
DetachWays(a, h) ==
  {w \in Way : \/ w = "mixed" /\ a # home[h]
               \/ w = "eager" /\ detached[h]
               \/ w = "self" /\ a = Loop /\ h = current}

\* A bug to try: Detach in another thread does not wait for the loop.
DetachNoWait(a, h) ==
  /\ CanCall(a) /\ NobodyWaits(h)
  /\ life[h] = "live" \/ (life[h] = "cut" /\ ~ detached[h])
  /\ Mark(h, DetachWays(a, h))
  /\ life' = [life EXCEPT ![h] = "cut"]
  /\ detached' = [detached EXCEPT ![h] = TRUE]
  /\ \/ detached[h] /\ UNCHANGED <<registryVars, queueVars>>
     \/ ~ detached[h] /\ a = Loop /\ RemoveHandler(h) /\ UNCHANGED queueVars
     \/ ~ detached[h] /\ a # Loop /\ Post("detach", h)
  /\ UNCHANGED <<home, fdOf, events, open, loopVars, waiting>>

\* Detach, once by itself, or as the first thing the destructor does.  It
\* returns at once when _detached is set, which it also is before the handler is
\* attached; if it has done that the destructor's Detach may still be needed.
Detach(a, h) ==
  /\ CanCall(a) /\ NobodyWaits(h)
  /\ life[h] = "live" \/ (life[h] = "cut" /\ ~ detached[h])
  /\ Mark(h, DetachWays(a, h))
  /\ \/ /\ detached[h]
        /\ life' = [life EXCEPT ![h] = "cut"]
        /\ UNCHANGED <<detached, registryVars, queueVars, waiting>>
     \/ /\ ~ detached[h] /\ a = Loop
        /\ RemoveHandler(h)
        /\ life' = [life EXCEPT ![h] = "cut"]
        /\ detached' = [detached EXCEPT ![h] = TRUE]
        /\ UNCHANGED <<queueVars, waiting>>
     \/ /\ ~ detached[h] /\ a # Loop
        /\ Post("detach", h)
        /\ waiting' = [waiting EXCEPT ![a] = h]
        /\ UNCHANGED <<life, detached>>
  /\ UNCHANGED <<home, fdOf, events, open, loopVars>>

\* What is left of the destructor once _detached is set.
Delete(a, h) ==
  /\ CanCall(a) /\ NobodyWaits(h)
  /\ life[h] = "cut" /\ detached[h]
  /\ life' = [life EXCEPT ![h] = "dead"]
  /\ UNCHANGED <<home, fdOf, events, detached, open, registryVars, queueVars,
                 loopVars, waiting, ways>>

\* The socket is closed.
Close(fd) ==
  /\ Sound
  /\ fd \in open
  /\ \A h \in Handlers : life[h] \in {"live", "cut"} => fdOf[h] # fd
  /\ open' = open \ {fd}
  /\ UNCHANGED <<life, home, fdOf, events, detached, registryVars, queueVars,
                 loopVars, waiting, ways>>

\* The wait of Detach ends.
DetachDone(t) ==
  /\ Sound
  /\ waiting[t] # NoHandler
  /\ detached[waiting[t]]
  /\ life' = [life EXCEPT ![waiting[t]] = "cut"]
  /\ waiting' = [waiting EXCEPT ![t] = NoHandler]
  /\ UNCHANGED <<home, fdOf, events, detached, open, registryVars, queueVars,
                 loopVars, ways>>

-----------------------------------------------------------------------------
(* The loop thread.                                                        *)

\* Run is called; the wakeup handler is registered and reads.
Run ==
  /\ loopAt = "outside"
  /\ interest' = [interest EXCEPT ![WakeupFd] = {"read"}]
  /\ loopAt' = "select"
  /\ UNCHANGED <<handlerVars, handlers, queueVars, ready, current, todo,
                 waiting, ways>>

\* A descriptor that is selected but closed makes select() fail.
BadDescriptor == \E fd \in Fds \ open : interest[fd] # {}

WakeupReady == interest[WakeupFd] # {} /\ pipe > 0

\* Select returns some of the events it is to watch, the wakeup pipe's among
\* them when it holds a byte; an error is ignored.
Select ==
  /\ loopAt = "select"
  /\ IF BadDescriptor
     THEN loopAt' = "swap" /\ UNCHANGED ready
     ELSE /\ ready' \in [AllFds -> SUBSET Event]
          /\ \A fd \in Fds : ready'[fd] \subseteq interest[fd]
          /\ ready'[WakeupFd] = IF WakeupReady THEN {"read"} ELSE {}
          /\ \E fd \in AllFds : ready'[fd] # {}
          /\ loopAt' = "dispatch"
  /\ UNCHANGED <<handlerVars, registryVars, queueVars, current, todo, waiting, ways>>

\* The next ready descriptor, in any order: find its handler and call it.  The
\* wakeup handler reads a byte; a missing handler fails the assertion.
Dispatch(fd) ==
  /\ loopAt = "dispatch"
  /\ ready[fd] # {}
  /\ ready' = [ready EXCEPT ![fd] = {}]
  /\ IF fd = WakeupFd
     THEN pipe' = pipe - 1 /\ UNCHANGED <<loopAt, current, todo>>
     ELSE IF handlers[fd] = NoHandler
     THEN loopAt' = "null" /\ UNCHANGED <<pipe, current, todo>>
     ELSE /\ current' = handlers[fd]
          /\ todo' = ready[fd]
          /\ loopAt' = "handle"
          /\ UNCHANGED pipe
  /\ UNCHANGED <<handlerVars, registryVars, queue, functions, waiting, ways>>

\* HandleEvents, for one event: reading comes before writing.
HandleEvents ==
  /\ loopAt = "handle"
  /\ todo # {}
  /\ todo' = todo \ {IF "read" \in todo THEN "read" ELSE "write"}
  /\ loopAt' = IF life[current] = "dead" THEN "dangling" ELSE "callback"
  /\ UNCHANGED <<handlerVars, registryVars, queueVars, ready, current, waiting, ways>>

\* The callback returns.
Return ==
  /\ loopAt = "callback"
  /\ loopAt' = "handle"
  /\ UNCHANGED <<handlerVars, registryVars, queueVars, ready, current, todo,
                 waiting, ways>>

\* HandleEvents returns.
EndHandle ==
  /\ loopAt = "handle"
  /\ todo = {}
  /\ loopAt' = "dispatch"
  /\ current' = NoHandler
  /\ UNCHANGED <<handlerVars, registryVars, queueVars, ready, todo, waiting, ways>>

\* All events are dispatched.
EndDispatch ==
  /\ loopAt = "dispatch"
  /\ \A fd \in AllFds : ready[fd] = {}
  /\ loopAt' = "swap"
  /\ UNCHANGED <<handlerVars, registryVars, queueVars, ready, current, todo,
                 waiting, ways>>

\* functions.swap(_queue)
SwapQueue ==
  /\ loopAt = "swap"
  /\ functions' = queue
  /\ queue' = <<>>
  /\ loopAt' = "invoke"
  /\ UNCHANGED <<handlerVars, registryVars, pipe, ready, current, todo, waiting, ways>>

\* Bugs to try: DetachInLoop sets the flag and leaves the handler registered,
\* or removes it and leaves the flag.
RunFunctorFlagOnly(op, h) ==
  /\ UNCHANGED <<life, home, fdOf, events, open, loopAt>>
  /\ IF op = "attach" THEN RegisterHandler(h)
     ELSE IF op = "update" THEN UpdateHandler(h) ELSE UNCHANGED registryVars
  /\ detached' = [detached EXCEPT ![h] = IF op = "update" THEN @ ELSE op = "detach"]

RunFunctorNoFlag(op, h) ==
  /\ UNCHANGED <<life, home, fdOf, events, open, loopAt>>
  /\ IF op = "attach" THEN RegisterHandler(h)
     ELSE IF op = "update" THEN UpdateHandler(h) ELSE RemoveHandler(h)
  /\ detached' = [detached EXCEPT ![h] = @ /\ op # "attach"]

\* AttachInLoop registers the handler and does not clear the flag.
RunFunctorStaysDetached(op, h) ==
  /\ UNCHANGED <<life, home, fdOf, events, open, loopAt>>
  /\ IF op = "attach" THEN RegisterHandler(h)
     ELSE IF op = "update" THEN UpdateHandler(h) ELSE RemoveHandler(h)
  /\ detached' = [detached EXCEPT ![h] = @ \/ op = "detach"]

\* AttachInLoop, UpdateInLoop, DetachInLoop.
RunFunctor(op, h) ==
  /\ UNCHANGED <<life, home, fdOf, events, open>>
  /\ \/ /\ op = "attach"
        /\ RegisterHandler(h)
        /\ detached' = [detached EXCEPT ![h] = FALSE]
        /\ UNCHANGED loopAt
     \/ /\ op = "update" /\ ~ detached[h]
        /\ UpdateHandler(h)
        /\ UNCHANGED <<detached, loopAt>>
     \/ /\ op = "update" /\ detached[h]
        /\ loopAt' = "aborted"
        /\ UNCHANGED <<detached, registryVars>>
     \/ /\ op = "detach"
        /\ RemoveHandler(h)
        /\ detached' = [detached EXCEPT ![h] = TRUE]
        /\ UNCHANGED loopAt

\* functions[i](); where it ends the process it is left in its place.
InvokeNext ==
  /\ loopAt = "invoke"
  /\ functions # <<>>
  /\ LET f == Head(functions)
     IN IF life[f.h] = "dead"
        THEN loopAt' = "dangling" /\ UNCHANGED <<handlerVars, registryVars>>
        ELSE RunFunctor(f.op, f.h)
  /\ functions' = IF loopAt' = "invoke" THEN Tail(functions) ELSE functions
  /\ UNCHANGED <<queue, pipe, ready, current, todo, waiting, ways>>

\* All functions of this round have run; Run returns if Stop was called.
EndInvoke ==
  /\ loopAt = "invoke"
  /\ functions = <<>>
  /\ loopAt' \in {"select", "outside"}
  /\ UNCHANGED <<handlerVars, registryVars, queueVars, ready, current, todo,
                 waiting, ways>>

-----------------------------------------------------------------------------
Init ==
  /\ handlers = [fd \in AllFds |-> IF fd = WakeupFd THEN WakeupHandler ELSE NoHandler]
  /\ interest = [fd \in AllFds |-> {}]
  /\ life = [h \in Handlers |-> "new"]
  /\ home = [h \in Handlers |-> Loop]
  /\ fdOf = [h \in Handlers |-> WakeupFd]
  /\ events = [h \in Handlers |-> {}]
  /\ detached = [h \in Handlers |-> TRUE]
  /\ open = {}
  /\ queue = <<>> /\ functions = <<>> /\ pipe = 0
  /\ loopAt = "outside"
  /\ ready = [fd \in AllFds |-> {}]
  /\ current = NoHandler /\ todo = {}
  /\ waiting = [t \in Threads |-> NoHandler]
  /\ ways = [h \in Handlers |-> {}]

Actors == Threads \union {Loop}

LoopStep ==
  \/ HandleEvents \/ Return \/ EndHandle \/ EndDispatch
  \/ SwapQueue \/ InvokeNext \/ EndInvoke
  \/ \E fd \in AllFds : Dispatch(fd)

User(a, h) ==
  \/ \E fd \in Fds : New(a, h, fd)
  \/ \E e \in Events : Enable(a, h, e) \/ Disable(a, h, e)
  \/ Detach(a, h) \/ Delete(a, h)

Next ==
  \/ Run \/ Select \/ LoopStep
  \/ \E a \in Actors, h \in Handlers : User(a, h)
  \/ \E t \in Threads : DetachDone(t)
  \/ \E fd \in Fds : Close(fd)

Spec == Init /\ [][Next]_vars

\* As for EventLoop: the loop is scheduled, its callbacks return, and select()
\* returns for a wakeup and on an error; the network owes it nothing.
Fairness ==
  /\ WF_vars(LoopStep)
  /\ WF_vars((BadDescriptor \/ WakeupReady) /\ Select)
  /\ \A t \in Threads : WF_vars(DetachDone(t))

FairSpec == Spec /\ Fairness

-----------------------------------------------------------------------------
\* The types of the registry, the handlers and the loop's local state.
TypeOK ==
  /\ handlers \in [AllFds -> Handlers \union {NoHandler, WakeupHandler}]
  /\ interest \in [AllFds -> SUBSET Event]
  /\ life \in [Handlers -> {"new", "live", "cut", "dead"}]
  /\ home \in [Handlers -> Actors]
  /\ fdOf \in [Handlers -> AllFds]
  /\ events \in [Handlers -> SUBSET Event]
  /\ detached \in [Handlers -> BOOLEAN]
  /\ open \subseteq Fds
  /\ queue \in Seq(Functor) /\ functions \in Seq(Functor)
  /\ pipe \in 0 .. MaxPending
  /\ loopAt \in LoopAt
  /\ ready \in [AllFds -> SUBSET Event]
  /\ current \in Handlers \union {NoHandler}
  /\ todo \subseteq Event
  /\ waiting \in [Threads -> Handlers \union {NoHandler}]
  /\ ways \in [Handlers -> SUBSET Way]

\* No deleted handler is used: none is in the registry; a queued function has
\* only one whose calls came from several sides or that was detached before it
\* was attached; and a dispatch goes on with one only if its callback detached it.
NoDangling ==
  /\ \A fd \in AllFds : handlers[fd] \in Handlers => life[handlers[fd]] # "dead"
  /\ \A i \in DOMAIN Pending :
       LET h == Pending[i].h
       IN life[h] = "dead" => ways[h] \intersect {"mixed", "eager"} # {}
  /\ (current \in Handlers /\ life[current] = "dead") => "self" \in ways[current]

\* Detach cuts the handler off: no callback of it starts after a Detach of it has
\* returned, unless that was called by its callback or before it was attached.
NoCallbackAfterDetach ==
  [][loopAt = "handle" /\ loopAt' = "callback" =>
       \/ life[current] = "live"
       \/ ways[current] \intersect {"self", "eager"} # {}]_vars

\* EventHandler.cpp:150: a queued update finds its handler attached, though Detach
\* may have been queued, and the loop may have run, between the push and the call;
\* only calls from several sides can break it.
UpdateFindsAttached ==
  (loopAt = "invoke" /\ functions # <<>>) =>
    LET f == Head(functions)
    IN (f.op = "update" /\ detached[f.h]) => "mixed" \in ways[f.h]

\* The loop can be woken: RemoveHandler has not deselected the wakeup pipe.
CanWake == interest[WakeupFd] # {}

\* A Detach that waits for the loop returns, as long as the loop is sound, inside
\* Run, and can be woken.
DetachReturns ==
  \A t \in Threads :
    waiting[t] # NoHandler ~>
      waiting[t] = NoHandler \/ ~ Sound \/ loopAt = "outside" \/ ~ CanWake

-----------------------------------------------------------------------------
(* Stated by the code, and not true of it (README, Disagreements).         *)

\* EventHandler.hpp:50-51: once Detach is done the handler is safe to be deleted.
SafeToDelete == loopAt # "dangling"

\* EventHandler.hpp:98: Detach cuts the callback from the event loop.
CallbackIsCut ==
  [][loopAt = "handle" /\ loopAt' = "callback" => life[current] = "live"]_vars

\* EventHandler.hpp:97: Detach blocks until done, so it is done in a loop that runs.
DetachIsDone ==
  \A t \in Threads :
    waiting[t] # NoHandler ~> waiting[t] = NoHandler \/ ~ Sound \/ loopAt = "outside"

\* EventLoop.cpp:58: every ready descriptor has a handler.
HandlerFound == loopAt # "null"

\* A registered handler is selected for exactly the events it has enabled,
\* once its queued updates have run.
InterestKept ==
  \A fd \in Fds :
    LET h == handlers[fd]
    IN (h \in Handlers /\ ~ IsPending(h, "update")) => interest[fd] = events[h]
=============================================================================
