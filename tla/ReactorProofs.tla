---------------------------- MODULE ReactorProofs ----------------------------
(***************************************************************************)
(* What the reactor guarantees for every number of handlers, threads and   *)
(* descriptors and every program that uses them: no assumption is made     *)
(* about the ways in which handlers are used.                              *)
(***************************************************************************)
EXTENDS Reactor, SequenceTheorems, TLAPS

-----------------------------------------------------------------------------
(* The inductive invariant.  The properties alone are not inductive: that  *)
(* a handler is deleted only after it is out of the registry and of the    *)
(* queue follows from what _detached says of both, and from the order of   *)
(* the functions that one thread has queued.                               *)

\* h is used from one side; and it is not detached before it is attached either.
Single(h) == "mixed" \notin ways[h]
Plain(h) == Single(h) /\ "eager" \notin ways[h]

\* What is registered is attached, under its own descriptor; the loop's own
\* handler is where the loop put it.
RegistryInv ==
  \A fd \in AllFds :
    /\ handlers[fd] \in Handlers =>
         /\ fdOf[handlers[fd]] = fd
         /\ life[handlers[fd]] \in {"live", "cut"}
         /\ ~ detached[handlers[fd]]
    /\ handlers[fd] = WakeupHandler => fd = WakeupFd

\* A handler is detached until it is constructed, then has a descriptor, is
\* detached once Detach has returned, unless that was too early, and when deleted.
LifeInv ==
  \A h \in Handlers :
    /\ life[h] = "new" => detached[h]
    /\ life[h] # "new" => fdOf[h] \in Fds
    /\ life[h] = "cut" => detached[h] \/ "eager" \in ways[h]
    /\ life[h] = "dead" => detached[h]

\* Who waits for the loop waits for a handler that exists, and has constructed it
\* if that is used from one side.
WaitInv ==
  \A t \in Threads :
    waiting[t] # NoHandler =>
      /\ life[waiting[t]] \in {"live", "cut"}
      /\ Single(waiting[t]) => home[waiting[t]] = t

\* The handler that is being served is attached, unless its callback has detached
\* it; functions are run only after dispatching, and a byte that is reported is
\* there to be read.
LoopInv ==
  /\ loopAt \in {"handle", "callback"} => current \in Handlers
  /\ loopAt \in {"outside", "select", "dispatch", "swap", "invoke", "null"} =>
       current = NoHandler
  /\ current \in Handlers =>
       /\ life[current] # "new"
       /\ detached[current] => "self" \in ways[current]
  /\ functions # <<>> => loopAt \in {"invoke", "aborted", "dangling"}
  /\ ready[WakeupFd] # {} => pipe > 0

\* What the i-th function that is to run finds.  The first of a handler's
\* functions attaches it.  If it is used from one side the last detaches it while
\* its owner waits, and in between it is attached.
PlaceOK(i) ==
  LET f == Pending[i]
  IN /\ life[f.h] # "new"
     /\ Plain(f.h) => life[f.h] # "dead"
     /\ f.op = "attach" =>
          /\ detached[f.h]
          /\ NobodyWaits(f.h)
          /\ "eager" \notin ways[f.h] => life[f.h] = "live"
          /\ \A j \in 1 .. i - 1 : Pending[j].h # f.h
     /\ Single(f.h) =>
          /\ home[f.h] \in Threads
          /\ f.op = "update" =>
               \/ ~ detached[f.h]
               \/ \E j \in 1 .. i - 1 : Pending[j].h = f.h /\ Pending[j].op = "attach"
          /\ f.op = "detach" =>
               /\ waiting[home[f.h]] = f.h
               /\ ~ detached[f.h]
               /\ \A j \in i + 1 .. Len(Pending) : Pending[j].h # f.h

PendingInv == \A i \in 1 .. Len(Pending) : PlaceOK(i)

\* A handler used from one side of which no Detach has returned is attached, or will
\* be, or the Detach is under way.
Attaching(h) == \E i \in 1 .. Len(Pending) : Pending[i].h = h /\ Pending[i].op = "attach"
LiveInv ==
  \A h \in Handlers :
    (Single(h) /\ life[h] = "live" /\ detached[h]) => Attaching(h) \/ ~ NobodyWaits(h)

IInv == TypeOK /\ RegistryInv /\ LifeInv /\ WaitInv /\ LoopInv /\ PendingInv /\ LiveInv
-----------------------------------------------------------------------------
(* The functions that are to run.                                          *)

LEMMA PendingType ==
  ASSUME TypeOK
  PROVE  /\ Pending \in Seq(Functor) /\ Len(Pending) \in Nat
         /\ DOMAIN Pending = 1 .. Len(Pending)
         /\ \A i \in 1 .. Len(Pending) :
              /\ Pending[i].h \in Handlers
              /\ Pending[i].op \in {"attach", "update", "detach"}
              /\ Pending[i] = [op |-> Pending[i].op, h |-> Pending[i].h]
<1>1. Pending \in Seq(Functor)
  BY ConcatProperties DEF TypeOK, Pending
<1>2. \A i \in 1 .. Len(Pending) : Pending[i] \in Functor
  BY <1>1, ElementOfSeq
<1> QED
  BY <1>1, <1>2, LenProperties DEF Functor

\* A function that is queued comes last.
LEMMA PendingAppend ==
  ASSUME TypeOK, NEW f \in Functor,
         queue' = Append(queue, f), functions' = functions
  PROVE  /\ Len(Pending') = Len(Pending) + 1
         /\ \A i \in 1 .. Len(Pending) : Pending'[i] = Pending[i]
         /\ Pending'[Len(Pending) + 1] = f
<1>1. queue \in Seq(Functor) /\ functions \in Seq(Functor)
  BY DEF TypeOK
<1> QED
  BY <1>1, ConcatProperties, AppendProperties, LenProperties DEF Pending

\* The one that is run next comes first.
LEMMA PendingTail ==
  ASSUME TypeOK, functions # <<>>,
         functions' = Tail(functions), queue' = queue
  PROVE  /\ Len(Pending) > 0 /\ Pending[1] = Head(functions)
         /\ Len(Pending') = Len(Pending) - 1
         /\ \A i \in 1 .. Len(Pending) - 1 : Pending'[i] = Pending[i + 1]
<1>1. queue \in Seq(Functor) /\ functions \in Seq(Functor)
  BY DEF TypeOK
<1>2. /\ Len(functions) \in Nat /\ Len(functions) > 0
      /\ Tail(functions) \in Seq(Functor) /\ Len(Tail(functions)) = Len(functions) - 1
      /\ \A i \in 1 .. Len(functions) - 1 : Tail(functions)[i] = functions[i + 1]
      /\ Head(functions) = functions[1]
  BY <1>1, HeadTailProperties, LenProperties, EmptySeq
<1> QED
  BY <1>1, <1>2, ConcatProperties, LenProperties DEF Pending

\* Swapping the queue in when nothing is left of the last round changes nothing.
LEMMA PendingSwap ==
  ASSUME TypeOK, functions = <<>>, functions' = queue, queue' = <<>>
  PROVE  Pending' = Pending
<1> QED
  BY ConcatEmptySeq DEF Pending, TypeOK

\* What is known of the handler of each of them.
LEMMA PlaceFacts ==
  ASSUME TypeOK, PendingInv,
         NEW i \in 1 .. Len(Pending), NEW h \in Handlers, Pending[i].h = h
  PROVE  /\ life[h] # "new"
         /\ Pending[i].op = "attach" =>
              /\ detached[h] /\ NobodyWaits(h)
              /\ "eager" \notin ways[h] => life[h] = "live"
         /\ Plain(h) => life[h] # "dead"
         /\ Single(h) =>
              /\ home[h] \in Threads
              /\ Pending[i].op = "detach" => waiting[home[h]] = h /\ ~ detached[h]
<1> QED
  BY PendingType DEF PendingInv, PlaceOK

\* A step takes nothing from what is said of h, the handler of the i-th function.
PlaceKept(i, h) ==
  /\ life'[h] # "new" /\ ways[h] \subseteq ways'[h]
  /\ Plain(h)' => life'[h] # "dead"
  /\ Pending[i].op = "attach" =>
       /\ detached'[h] /\ NobodyWaits(h)'
       /\ "eager" \notin ways'[h] => life'[h] = "live"
  /\ Single(h)' =>
       /\ home'[h] = home[h] /\ detached'[h] = detached[h]
       /\ Pending[i].op = "detach" => waiting'[home[h]] = waiting[home[h]]

\* Steps that leave the queue alone.
LEMMA PlacesKept ==
  ASSUME TypeOK, PendingInv, Pending' = Pending,
         \A i \in 1 .. Len(Pending), h \in Handlers :
           Pending[i].h = h => PlaceKept(i, h)
  PROVE  PendingInv'
<1> SUFFICES ASSUME NEW i \in 1 .. Len(Pending) PROVE PlaceOK(i)'
  BY DEF PendingInv
<1>1. PlaceOK(i) /\ Pending'[i] = Pending[i]
  BY DEF PendingInv
<1>2. PICK h \in Handlers : h = Pending[i].h
  BY PendingType
<1>3. Single(h)' => Single(h)
  BY <1>2 DEF Single, PlaceKept
<1> QED
  BY <1>1, <1>2, <1>3 DEF PlaceOK, PlaceKept, Plain, Single, NobodyWaits

\* Steps that queue a function, too.
LEMMA PlacesPosted ==
  ASSUME TypeOK, PendingInv, NEW f \in Functor,
         queue' = Append(queue, f), functions' = functions,
         \A i \in 1 .. Len(Pending), h \in Handlers :
           Pending[i].h = h =>
             /\ PlaceKept(i, h)
             /\ (Single(h)' /\ Pending[i].op = "detach") => f.h # h,
         life'[f.h] # "new",
         f.op = "attach" =>
           /\ detached'[f.h] /\ NobodyWaits(f.h)' /\ life'[f.h] = "live"
           /\ \A j \in 1 .. Len(Pending) : Pending[j].h # f.h,
         life'[f.h] # "dead",
         Single(f.h)' =>
           /\ home'[f.h] \in Threads
           /\ f.op = "update" => ~ detached'[f.h] \/ Attaching(f.h)
           /\ f.op = "detach" => waiting'[home'[f.h]] = f.h /\ ~ detached'[f.h]
  PROVE  PendingInv'
<1>1. PICK n \in Nat :
        /\ Len(Pending) = n /\ Len(Pending') = n + 1
        /\ \A i \in 1 .. n : Pending'[i] = Pending[i]
        /\ Pending'[n + 1] = f
  BY PendingAppend, PendingType
<1>2. ASSUME NEW i \in 1 .. n PROVE PlaceOK(i)'
  <2>1. PlaceOK(i) /\ Pending'[i] = Pending[i]
    BY <1>1 DEF PendingInv
  <2>2. \A j \in 1 .. i - 1 : Pending'[j] = Pending[j]
    BY <1>1
  <2>3. \A j \in i + 1 .. n + 1 : (j \in i + 1 .. n /\ Pending'[j] = Pending[j]) \/ Pending'[j] = f
    <3>1. \A j \in i + 1 .. n + 1 : j \in i + 1 .. n \/ j = n + 1
      OBVIOUS
    <3>2. \A j \in i + 1 .. n : j \in 1 .. n
      OBVIOUS
    <3> QED
      BY <1>1, <3>1, <3>2
  <2>4. PICK h \in Handlers : h = Pending[i].h
    BY <1>1, PendingType
  <2>5. Single(h)' => Single(h)
    BY <1>1, <2>4 DEF Single, PlaceKept
  <2>6. /\ life'[h] # "new" /\ (Plain(h)' => life'[h] # "dead")
        /\ Pending[i].op = "attach" =>
             /\ detached'[h] /\ NobodyWaits(h)'
             /\ "eager" \notin ways'[h] => life'[h] = "live"
             /\ \A j \in 1 .. i - 1 : Pending'[j].h # h
    BY <1>1, <2>1, <2>2, <2>4 DEF PlaceOK, PlaceKept
  <2>7. ASSUME Single(h)'
        PROVE  /\ home'[h] \in Threads
               /\ Pending[i].op = "update" =>
                    \/ ~ detached'[h]
                    \/ \E j \in 1 .. i - 1 : Pending'[j].h = h /\ Pending'[j].op = "attach"
               /\ Pending[i].op = "detach" =>
                    /\ waiting'[home'[h]] = h
                    /\ ~ detached'[h]
                    /\ \A j \in i + 1 .. n + 1 : Pending'[j].h # h
    <3>1. /\ home'[h] = home[h] /\ detached'[h] = detached[h]
          /\ Pending[i].op = "detach" => waiting'[home[h]] = waiting[home[h]]
      BY <1>1, <2>4, <2>7 DEF PlaceKept
    <3>2. Pending[i].op = "detach" => f.h # h
      BY <1>1, <2>4, <2>7, PendingType
    <3>3. /\ home[h] \in Threads
          /\ Pending[i].op = "update" =>
               \/ ~ detached[h]
               \/ \E j \in 1 .. i - 1 : Pending[j].h = h /\ Pending[j].op = "attach"
          /\ Pending[i].op = "detach" =>
               /\ waiting[home[h]] = h
               /\ ~ detached[h]
               /\ \A j \in i + 1 .. n : Pending[j].h # h
      BY <1>1, <2>1, <2>4, <2>5, <2>7 DEF PlaceOK
    <3> QED
      BY <2>2, <2>3, <3>1, <3>2, <3>3
  <2> QED
    BY <1>1, <2>1, <2>4, <2>6, <2>7 DEF PlaceOK, Plain, Single, NobodyWaits
<1>3. PlaceOK(n + 1)'
  <2>1. Attaching(f.h) =>
          \E j \in 1 .. n : Pending[j].h = f.h /\ Pending[j].op = "attach"
    BY <1>1 DEF Attaching
  <2>2. (n + 1) - 1 = n /\ (n + 1) + 1 .. n + 1 = {}
    OBVIOUS
  <2> QED
    BY <1>1, <2>1, <2>2 DEF PlaceOK
<1>4. \A i \in 1 .. n + 1 : i \in 1 .. n \/ i = n + 1
  OBVIOUS
<1> QED
  BY <1>1, <1>2, <1>3, <1>4 DEF PendingInv

\* Steps that run a function.
LEMMA PlacesTaken ==
  ASSUME TypeOK, PendingInv, functions # <<>>,
         functions' = Tail(functions), queue' = queue,
         UNCHANGED <<life, home, waiting, ways>>,
         \A h \in Handlers : h # Pending[1].h => detached'[h] = detached[h],
         Pending[1].op = "attach" => ~ detached'[Pending[1].h],
         Pending[1].op = "update" => detached' = detached
  PROVE  PendingInv'
<1>1. PICK n \in Nat :
        /\ n > 0 /\ Len(Pending) = n /\ Len(Pending') = n - 1
        /\ \A i \in 1 .. n - 1 : Pending'[i] = Pending[i + 1]
  BY PendingTail, PendingType
<1> SUFFICES ASSUME NEW i \in 1 .. n - 1 PROVE PlaceOK(i)'
  BY <1>1 DEF PendingInv
<1>2. PlaceOK(i + 1) /\ PlaceOK(1) /\ i + 1 \in 1 .. n
  BY <1>1 DEF PendingInv
<1>3. /\ Pending'[i] = Pending[i + 1]
      /\ \A j \in 1 .. i - 1 : Pending'[j] = Pending[j + 1] /\ j + 1 \in 1 .. (i + 1) - 1
      /\ \A j \in i + 1 .. n - 1 : Pending'[j] = Pending[j + 1] /\ j + 1 \in (i + 1) + 1 .. n
      /\ \A j \in 1 .. (i + 1) - 1 :
           j = 1 \/ (j - 1 \in 1 .. i - 1 /\ Pending'[j - 1] = Pending[j])
      /\ 1 \in 1 .. (i + 1) - 1 /\ i + 1 \in 1 + 1 .. n
  BY <1>1
<1>4. PICK h \in Handlers : h = Pending[i + 1].h
  BY <1>1, <1>2, PendingType
<1>5. PICK g \in Handlers : g = Pending[1].h /\ Pending[1].op \in {"attach", "update", "detach"}
  BY <1>1, <1>2, PendingType
<1>6. life'[h] # "new" /\ (Plain(h)' => life'[h] # "dead")
  BY <1>2, <1>4 DEF PlaceOK, Plain, Single
<1>7. Pending[i + 1].op = "attach" =>
        /\ detached'[h] /\ NobodyWaits(h)'
        /\ "eager" \notin ways'[h] => life'[h] = "live"
        /\ \A j \in 1 .. i - 1 : Pending'[j].h # h
  <2> SUFFICES ASSUME Pending[i + 1].op = "attach"
               PROVE  /\ detached'[h] /\ NobodyWaits(h)'
                      /\ "eager" \notin ways'[h] => life'[h] = "live"
                      /\ \A j \in 1 .. i - 1 : Pending'[j].h # h
    OBVIOUS
  <2>1. /\ detached[h] /\ NobodyWaits(h)
        /\ "eager" \notin ways[h] => life[h] = "live"
        /\ \A j \in 1 .. (i + 1) - 1 : Pending[j].h # h
    BY <1>2, <1>4 DEF PlaceOK
  <2>2. g # h
    BY <1>3, <1>5, <2>1
  <2>3. detached'[h] = detached[h]
    BY <1>5, <2>2
  <2> QED
    BY <1>3, <2>1, <2>3 DEF NobodyWaits
<1>8. ASSUME Single(h)
      PROVE  /\ home'[h] \in Threads
             /\ Pending[i + 1].op = "update" =>
                  \/ ~ detached'[h]
                  \/ \E j \in 1 .. i - 1 : Pending'[j].h = h /\ Pending'[j].op = "attach"
             /\ Pending[i + 1].op = "detach" =>
                  /\ waiting'[home'[h]] = h
                  /\ ~ detached'[h]
                  /\ \A j \in i + 1 .. n - 1 : Pending'[j].h # h
  <2>1. /\ home[h] \in Threads
        /\ Pending[i + 1].op = "update" =>
             \/ ~ detached[h]
             \/ \E j \in 1 .. (i + 1) - 1 : Pending[j].h = h /\ Pending[j].op = "attach"
        /\ Pending[i + 1].op = "detach" =>
             /\ waiting[home[h]] = h
             /\ ~ detached[h]
             /\ \A j \in (i + 1) + 1 .. n : Pending[j].h # h
    BY <1>1, <1>2, <1>4, <1>8 DEF PlaceOK
  <2>2. /\ g = h => Pending[1].op # "detach"
        /\ (g = h /\ Pending[1].op = "update" /\ Pending[i + 1].op = "update") => ~ detached[h]
    <3>1. g = h => Pending[1].op # "detach"
      BY <1>1, <1>2, <1>3, <1>4, <1>5, <1>8 DEF PlaceOK
    <3>2. ~ \E j \in 1 .. 1 - 1 : TRUE
      OBVIOUS
    <3>3. (g = h /\ Pending[1].op = "update") => ~ detached[h]
      BY <1>2, <1>5, <1>8, <3>2 DEF PlaceOK
    <3> QED
      BY <3>1, <3>3
  <2>3. ~ detached[h] => ~ detached'[h]
    <3>1. CASE g = h
      BY <1>5, <2>2, <3>1
    <3>2. CASE g # h
      BY <1>5, <3>2
    <3> QED
      BY <3>1, <3>2
  <2>4. Pending[i + 1].op = "update" =>
          \/ ~ detached'[h]
          \/ \E j \in 1 .. i - 1 : Pending'[j].h = h /\ Pending'[j].op = "attach"
    <3>1. CASE g = h /\ Pending[1].op = "attach"
      BY <1>5, <3>1
    <3>2. CASE g = h /\ Pending[1].op = "update"
      BY <2>2, <2>3, <3>2
    <3>3. CASE g # h
      <4>1. \A j \in 1 .. (i + 1) - 1 :
              Pending[j].h = h => j - 1 \in 1 .. i - 1 /\ Pending'[j - 1] = Pending[j]
        BY <1>3, <1>5, <3>3
      <4> QED
        BY <2>1, <2>3, <4>1
    <3> QED
      BY <1>5, <2>2, <3>1, <3>2, <3>3
  <2>5. \A j \in i + 1 .. n - 1 : Pending[i + 1].op = "detach" => Pending'[j].h # h
    BY <1>3, <2>1
  <2> QED
    BY <2>1, <2>3, <2>4, <2>5
<1> QED
  <2>1. Single(h)' => Single(h)
    BY DEF Single
  <2> QED
    BY <1>1, <1>3, <1>4, <1>6, <1>7, <1>8, <2>1 DEF PlaceOK

\* What is to be attached stays so until that is done.
LEMMA AttachingKept ==
  ASSUME TypeOK, NEW h \in Handlers, Attaching(h),
         \/ Pending' = Pending
         \/ \E f \in Functor : queue' = Append(queue, f) /\ functions' = functions
         \/ /\ functions # <<>> /\ functions' = Tail(functions) /\ queue' = queue
            /\ ~ (Pending[1].op = "attach" /\ Pending[1].h = h)
  PROVE  Attaching(h)'
<1>1. PICK i \in 1 .. Len(Pending) : Pending[i].h = h /\ Pending[i].op = "attach"
  BY DEF Attaching
<1>2. CASE Pending' = Pending
  BY <1>1, <1>2 DEF Attaching
<1>3. ASSUME NEW f \in Functor, queue' = Append(queue, f), functions' = functions
      PROVE  Attaching(h)'
  <2>1. /\ Len(Pending') = Len(Pending) + 1 /\ Len(Pending) \in Nat
        /\ \A j \in 1 .. Len(Pending) : Pending'[j] = Pending[j]
    BY <1>3, PendingAppend, PendingType
  <2> QED
    BY <1>1, <2>1 DEF Attaching
<1>4. CASE /\ functions # <<>> /\ functions' = Tail(functions) /\ queue' = queue
           /\ ~ (Pending[1].op = "attach" /\ Pending[1].h = h)
  <2>1. /\ Len(Pending) \in Nat /\ Len(Pending') = Len(Pending) - 1
        /\ \A j \in 1 .. Len(Pending) - 1 : Pending'[j] = Pending[j + 1]
    BY <1>4, PendingTail, PendingType
  <2>2. i # 1
    BY <1>1, <1>4
  <2>3. i - 1 \in 1 .. Len(Pending') /\ (i - 1) + 1 = i /\ i - 1 \in 1 .. Len(Pending) - 1
    BY <2>1, <2>2
  <2> QED
    BY <1>1, <2>1, <2>3 DEF Attaching
<1> QED
  BY <1>2, <1>3, <1>4

\* Steps that leave handlers attached, or about to be.
LEMMA LiveKept ==
  ASSUME TypeOK, LiveInv,
         \/ Pending' = Pending
         \/ \E f \in Functor : queue' = Append(queue, f) /\ functions' = functions,
         \A h \in Handlers :
           (Single(h)' /\ life'[h] = "live" /\ detached'[h]) =>
             \/ /\ Single(h) /\ life[h] = "live" /\ detached[h]
                /\ \A t \in Threads : waiting[t] = h => waiting'[t] = h
             \/ Attaching(h)'
             \/ ~ NobodyWaits(h)'
  PROVE  LiveInv'
<1> SUFFICES ASSUME NEW h \in Handlers, Single(h)', life'[h] = "live", detached'[h]
             PROVE  Attaching(h)' \/ ~ NobodyWaits(h)'
  BY DEF LiveInv
<1>1. CASE /\ Single(h) /\ life[h] = "live" /\ detached[h]
           /\ \A t \in Threads : waiting[t] = h => waiting'[t] = h
  <2>1. Attaching(h) \/ ~ NobodyWaits(h)
    BY <1>1 DEF LiveInv
  <2>2. ~ NobodyWaits(h) => ~ NobodyWaits(h)'
    BY <1>1 DEF NobodyWaits
  <2>3. Attaching(h) => Attaching(h)'
    BY AttachingKept
  <2> QED
    BY <2>1, <2>2, <2>3
<1> QED
  BY <1>1

-----------------------------------------------------------------------------
(* The registry.                                                           *)

\* A handler that is removed is in the registry no more, and no other is lost.
LEMMA HandlerRemoved ==
  ASSUME TypeOK, RegistryInv, NEW h \in Handlers, RemoveHandler(h)
  PROVE  /\ handlers' \in [AllFds -> Handlers \union {NoHandler, WakeupHandler}]
         /\ interest' \in [AllFds -> SUBSET Event]
         /\ \A fd \in AllFds :
              /\ handlers'[fd] # h
              /\ handlers'[fd] \in {handlers[fd], NoHandler}
<1>1. CASE \E fd \in AllFds : handlers[fd] = h
  <2> DEFINE k == CHOOSE g \in AllFds : handlers[g] = h
  <2>1. k \in AllFds /\ handlers[k] = h
    BY <1>1
  <2>2. /\ handlers' = [handlers EXCEPT ![k] = NoHandler]
        /\ \E key : interest' = [g \in AllFds |-> IF g = key THEN {} ELSE interest[g]]
    BY <1>1 DEF RemoveHandler
  <2>3. \A fd \in AllFds : handlers[fd] = h => fd = k
    BY <2>1 DEF RegistryInv
  <2> HIDE DEF k
  <2>4. NoHandler # h
    BY ReactorAssumption
  <2> QED
    BY <2>1, <2>2, <2>3, <2>4 DEF TypeOK
<1>2. CASE ~ \E fd \in AllFds : handlers[fd] = h
  BY <1>2 DEF RemoveHandler, registryVars, TypeOK
<1> QED
  BY <1>1, <1>2

\* Registering a handler changes the entry of its descriptor, if any.
LEMMA HandlerRegistered ==
  ASSUME TypeOK, NEW h \in Handlers, RegisterHandler(h),
         fdOf'[h] \in AllFds, events'[h] \subseteq Event
  PROVE  /\ handlers' \in [AllFds -> Handlers \union {NoHandler, WakeupHandler}]
         /\ interest' \in [AllFds -> SUBSET Event]
         /\ \A fd \in AllFds :
              handlers'[fd] = handlers[fd] \/ (fd = fdOf'[h] /\ handlers'[fd] = h)
<1> QED
  BY DEF RegisterHandler, TypeOK

\* Updating one leaves the registry as it is.
LEMMA HandlerUpdated ==
  ASSUME TypeOK, NEW h \in Handlers, UpdateHandler(h), events'[h] \subseteq Event
  PROVE  /\ handlers' = handlers
         /\ interest' \in [AllFds -> SUBSET Event]
<1> QED
  BY DEF UpdateHandler, TypeOK

-----------------------------------------------------------------------------
(* The initial state and the steps.                                        *)

LEMMA InvInit == Init => IInv
<1> SUFFICES ASSUME Init PROVE IInv
  OBVIOUS
<1>1. <<>> \in Seq(Functor) /\ Pending = <<>> /\ Len(Pending) = 0
  BY EmptySeq, ConcatEmptySeq DEF Init, Pending
<1>2. TypeOK
  BY <1>1, ReactorAssumption DEF Init, TypeOK, AllFds, Actors, LoopAt
<1>3. RegistryInv /\ LifeInv /\ WaitInv /\ LoopInv /\ LiveInv
  BY ReactorAssumption
     DEF Init, RegistryInv, LifeInv, WaitInv, LoopInv, LiveInv, AllFds, NoHandler, WakeupHandler
<1>4. PendingInv
  BY <1>1 DEF PendingInv
<1> QED
  BY <1>2, <1>3, <1>4 DEF IInv

\* Steps that change no handler and leave what is to run as it is.
LEMMA HandlersKept ==
  ASSUME IInv, Pending' = Pending,
         UNCHANGED <<life, home, fdOf, detached, waiting, ways, handlers>>
  PROVE  RegistryInv' /\ LifeInv' /\ WaitInv' /\ PendingInv' /\ LiveInv'
<1>1. RegistryInv' /\ LifeInv' /\ WaitInv'
  BY DEF IInv, RegistryInv, LifeInv, WaitInv, Single
<1>2. PendingInv'
  <2>1. ASSUME NEW i \in 1 .. Len(Pending), NEW g \in Handlers, Pending[i].h = g
          PROVE  PlaceKept(i, g)
    BY <2>1, PlaceFacts DEF IInv, PlaceKept, NobodyWaits, Plain, Single
  <2> QED
    BY <2>1, PlacesKept DEF IInv
<1>3. LiveInv'
  BY LiveKept DEF IInv, Single
<1> QED
  BY <1>1, <1>2, <1>3

\* The loop waits for events and serves them; no handler changes.
LEMMA LoopKeeps ==
  ASSUME IInv,
         \/ Run \/ Select \/ HandleEvents \/ Return \/ EndHandle \/ EndDispatch
         \/ SwapQueue \/ EndInvoke \/ \E fd \in AllFds : Dispatch(fd)
  PROVE  IInv'
<1> USE DEF handlerVars, registryVars, queueVars, loopVars
<1>1. UNCHANGED handlerVars /\ UNCHANGED <<handlers, waiting, ways>>
  BY DEF Run, Select, HandleEvents, Return, EndHandle, EndDispatch, SwapQueue,
         EndInvoke, Dispatch
<1>2. Pending' = Pending
  <2>1. CASE SwapQueue
    <3>1. functions = <<>>
      BY <2>1 DEF SwapQueue, IInv, LoopInv
    <3> QED
      BY <2>1, <3>1, PendingSwap DEF SwapQueue, IInv
  <2>2. CASE ~ SwapQueue
    BY <2>2 DEF Run, Select, HandleEvents, Return, EndHandle, EndDispatch, EndInvoke,
                Dispatch, Pending
  <2> QED
    BY <2>1, <2>2
<1>3. RegistryInv' /\ LifeInv' /\ WaitInv' /\ PendingInv' /\ LiveInv'
  BY <1>1, <1>2, HandlersKept
<1>4. TypeOK' /\ LoopInv'
  <2> USE DEF IInv, TypeOK, LoopInv, LoopAt
  <2>1. CASE Run
    BY <2>1 DEF Run, AllFds, Event
  <2>2. CASE Select
    <3>1. WakeupFd \in AllFds
      BY DEF AllFds
    <3> QED
      BY <2>2, <3>1 DEF Select, WakeupReady
  <2>3. CASE HandleEvents
    BY <2>3 DEF HandleEvents
  <2>4. CASE Return
    BY <2>4 DEF Return
  <2>5. CASE EndHandle
    BY <2>5, ReactorAssumption DEF EndHandle
  <2>6. CASE EndDispatch
    BY <2>6 DEF EndDispatch
  <2>7. CASE SwapQueue
    <3>1. <<>> \in Seq(Functor)
      BY EmptySeq
    <3> QED
      BY <2>7, <3>1 DEF SwapQueue
  <2>8. CASE EndInvoke
    BY <2>8 DEF EndInvoke
  <2>9. ASSUME NEW fd \in AllFds, Dispatch(fd) PROVE TypeOK' /\ LoopInv'
    <3>1. CASE fd = WakeupFd
      BY <2>9, <3>1, ReactorAssumption DEF Dispatch
    <3>2. CASE fd # WakeupFd /\ handlers[fd] = NoHandler
      BY <2>9, <3>2 DEF Dispatch
    <3>3. CASE fd # WakeupFd /\ handlers[fd] # NoHandler
      <4>1. handlers[fd] \in Handlers
        BY <3>3 DEF RegistryInv
      <4>2. /\ life[handlers[fd]] # "new" /\ ~ detached[handlers[fd]]
        BY <4>1 DEF RegistryInv
      <4> QED
        BY <2>9, <3>3, <4>1, <4>2 DEF Dispatch
    <3> QED
      BY <3>1, <3>2, <3>3
  <2> QED
    BY <2>1, <2>2, <2>3, <2>4, <2>5, <2>6, <2>7, <2>8, <2>9
<1> QED
  BY <1>3, <1>4 DEF IInv

\* A handler that is yet to be constructed is in no queue, registry or wait, and
\* not in the loop's hands.
LEMMA NewIsNowhere ==
  ASSUME IInv, NEW h \in Handlers, life[h] = "new"
  PROVE  /\ \A i \in 1 .. Len(Pending) : Pending[i].h # h
         /\ \A fd \in AllFds : handlers[fd] # h
         /\ NobodyWaits(h)
         /\ current # h
<1>1. NoHandler # h
  BY ReactorAssumption
<1> QED
  BY <1>1, PendingType
     DEF IInv, PendingInv, PlaceOK, RegistryInv, WaitInv, LoopInv, NobodyWaits

LEMMA PostType ==
  ASSUME TypeOK, NEW h \in Handlers, NEW op \in {"attach", "update", "detach"}, Post(op, h)
  PROVE  /\ queue' \in Seq(Functor) /\ functions' = functions
         /\ pipe' \in 0 .. MaxPending /\ pipe' > 0
         /\ [op |-> op, h |-> h] \in Functor
         /\ queue' = Append(queue, [op |-> op, h |-> h])
         /\ UNCHANGED <<handlers, interest>>
<1>1. [op |-> op, h |-> h] \in Functor
  BY DEF Functor
<1>2. queue' \in Seq(Functor)
  BY <1>1, AppendProperties DEF TypeOK, Post
<1>3. pipe' \in 0 .. MaxPending /\ pipe' > 0
  BY ReactorAssumption DEF TypeOK, Post
<1> QED
  BY <1>1, <1>2, <1>3 DEF Post, registryVars

\* A function that is queued last attaches its handler, if that is what it does.
LEMMA AttachPosted ==
  ASSUME TypeOK, NEW h \in Handlers, Post("attach", h)
  PROVE  Attaching(h)'
<1>1. /\ Len(Pending') = Len(Pending) + 1 /\ Len(Pending) \in Nat
      /\ Pending'[Len(Pending) + 1] = [op |-> "attach", h |-> h]
  BY PostType, PendingAppend, PendingType
<1>2. Len(Pending) + 1 \in 1 .. Len(Pending')
  BY <1>1
<1> QED
  BY <1>1, <1>2 DEF Attaching

\* The ways that are noted are ways, and none is forgotten.
LEMMA MarkType ==
  ASSUME TypeOK, NEW h \in Handlers, NEW w, Mark(h, w)
  PROVE  /\ ways' \in [Handlers -> SUBSET Way]
         /\ ways'[h] = ways[h] \union w
         /\ \A g \in Handlers : g # h => ways'[g] = ways[g]
         /\ \A g \in Handlers : ways[g] \subseteq ways'[g]
<1>1. w \subseteq Way
  BY ReactorAssumption DEF Mark
<1> QED
  BY <1>1 DEF Mark, TypeOK

LEMMA NewKeeps ==
  ASSUME IInv, NEW a \in Actors, NEW h \in Handlers, NEW fd \in Fds, New(a, h, fd)
  PROVE  IInv'
<1> USE DEF IInv
<1>0. fd \in AllFds
  BY DEF AllFds
<1>1. /\ life[h] = "new" /\ detached[h]
      /\ life' = [life EXCEPT ![h] = "live"]
      /\ home' = [home EXCEPT ![h] = a]
      /\ fdOf' = [fdOf EXCEPT ![h] = fd]
      /\ open' = open \union {fd}
      /\ UNCHANGED <<events, loopVars, waiting, ways>>
  BY DEF New, LifeInv
<1>2. /\ \A i \in 1 .. Len(Pending) : Pending[i].h # h
      /\ \A g \in AllFds : handlers[g] # h
      /\ NobodyWaits(h)
      /\ current # h
  BY <1>1, NewIsNowhere
<1>3. /\ life' \in [Handlers -> {"new", "live", "cut", "dead"}] /\ home' \in [Handlers -> Actors]
      /\ fdOf' \in [Handlers -> AllFds] /\ open' \subseteq Fds
      /\ life'[h] = "live" /\ home'[h] = a /\ fdOf'[h] = fd
      /\ \A g \in Handlers : g # h =>
           life'[g] = life[g] /\ home'[g] = home[g] /\ fdOf'[g] = fdOf[g]
  BY <1>0, <1>1 DEF TypeOK
<1>4. CASE a = Loop
  <2>1. /\ RegisterHandler(h) /\ detached' = [detached EXCEPT ![h] = FALSE]
        /\ UNCHANGED <<queue, functions, pipe>>
    BY <1>4 DEF New, queueVars
  <2>2. /\ handlers' \in [AllFds -> Handlers \union {NoHandler, WakeupHandler}]
        /\ interest' \in [AllFds -> SUBSET Event]
        /\ \A g \in AllFds :
             handlers'[g] = handlers[g] \/ (g = fd /\ handlers'[g] = h)
    <3>1. fdOf'[h] \in AllFds /\ events'[h] \subseteq Event
      BY <1>0, <1>1, <1>3 DEF TypeOK
    <3> QED
      BY <1>3, <2>1, <3>1, HandlerRegistered
  <2>3. /\ detached' \in [Handlers -> BOOLEAN] /\ ~ detached'[h]
        /\ \A g \in Handlers : g # h => detached'[g] = detached[g]
    BY <2>1 DEF TypeOK
  <2>4. TypeOK'
    BY <1>1, <1>3, <2>1, <2>2, <2>3 DEF TypeOK, loopVars
  <2>5. RegistryInv'
    <3>1. h # WakeupHandler
      BY ReactorAssumption
    <3> QED
      BY <1>2, <1>3, <2>2, <2>3, <3>1 DEF RegistryInv
  <2>6. LifeInv' /\ WaitInv' /\ LoopInv'
    BY <1>1, <1>2, <1>3, <2>1, <2>3, <2>4
       DEF LifeInv, WaitInv, LoopInv, TypeOK, loopVars, NobodyWaits, Plain, Single
  <2>7. Pending' = Pending
    BY <2>1 DEF Pending
  <2>8. PendingInv'
    <3>1. ASSUME NEW i \in 1 .. Len(Pending), NEW g \in Handlers, Pending[i].h = g
          PROVE  PlaceKept(i, g)
      <4>1. /\ life[g] # "new"
            /\ Pending[i].op = "attach" =>
                 detached[g] /\ NobodyWaits(g) /\ ("eager" \notin ways[g] => life[g] = "live")
            /\ Plain(g) => life[g] # "dead"
        BY <3>1, PlaceFacts DEF IInv
      <4> QED
        BY <3>1, <1>1, <1>2, <1>3, <2>3, <4>1 DEF PlaceKept, NobodyWaits, Plain, Single
    <3> QED
      BY <2>7, <3>1, PlacesKept
  <2>9. LiveInv'
    BY <1>1, <1>3, <2>3, <2>7, LiveKept DEF Single
  <2> QED
    BY <2>4, <2>5, <2>6, <2>8, <2>9
<1>5. CASE a # Loop
  <2>1. Post("attach", h) /\ UNCHANGED detached /\ a \in Threads
    BY <1>5 DEF New, Actors
  <2>2. /\ queue' \in Seq(Functor) /\ functions' = functions
        /\ pipe' \in 0 .. MaxPending /\ pipe' > 0
        /\ [op |-> "attach", h |-> h] \in Functor
        /\ queue' = Append(queue, [op |-> "attach", h |-> h])
        /\ UNCHANGED <<handlers, interest>>
    BY <2>1, PostType
  <2>3. TypeOK'
    BY <1>1, <1>3, <2>1, <2>2 DEF TypeOK, loopVars
  <2>4. RegistryInv' /\ LifeInv' /\ WaitInv' /\ LoopInv'
    BY <1>1, <1>2, <1>3, <2>1, <2>2
       DEF RegistryInv, LifeInv, WaitInv, LoopInv, TypeOK, loopVars, NobodyWaits, Plain, Single
  <2>5. PendingInv'
    <3>1. ASSUME NEW i \in 1 .. Len(Pending), NEW g \in Handlers, Pending[i].h = g
          PROVE  PlaceKept(i, g)
      <4>1. /\ life[g] # "new"
            /\ Pending[i].op = "attach" =>
                 detached[g] /\ NobodyWaits(g) /\ ("eager" \notin ways[g] => life[g] = "live")
            /\ Plain(g) => life[g] # "dead"
        BY <3>1, PlaceFacts DEF IInv
      <4> QED
        BY <3>1, <1>1, <1>2, <1>3, <2>1, <4>1 DEF PlaceKept, NobodyWaits, Plain, Single
    <3>2. NobodyWaits(h)'
      BY <1>1, <1>2 DEF NobodyWaits
    <3>3. /\ [op |-> "attach", h |-> h].h = h /\ [op |-> "attach", h |-> h].op = "attach"
          /\ life'[h] = "live" /\ home'[h] \in Threads /\ detached'[h]
      BY <1>1, <1>3, <2>1
    <3> QED
      BY <1>2, <2>2, <3>1, <3>2, <3>3, PlacesPosted
  <2>6. LiveInv'
    BY <1>1, <1>3, <2>1, <2>2, LiveKept, AttachPosted DEF Single
  <2> QED
    BY <2>3, <2>4, <2>5, <2>6
<1> QED
  BY <1>4, <1>5

LEMMA UpdateKeeps ==
  ASSUME IInv, NEW a \in Actors, NEW h \in Handlers,
         events' \in [Handlers -> SUBSET Event], Update(a, h)
  PROVE  IInv'
<1> USE DEF IInv
<1>1. /\ UNCHANGED <<life, home, fdOf, detached, open, ready, current, todo, waiting>>
      /\ CanCall(a) /\ life[h] = "live"
  BY DEF Update
<1>2. CASE a = Loop /\ ~ detached[h]
  <2>1. UpdateHandler(h) /\ UNCHANGED <<queue, functions, pipe, loopAt, ways>>
    BY <1>2 DEF Update, queueVars
  <2>2. handlers' = handlers /\ interest' \in [AllFds -> SUBSET Event]
    <3>1. events'[h] \subseteq Event
      OBVIOUS
    <3> QED
      BY <2>1, <3>1, HandlerUpdated
  <2>3. TypeOK' /\ LoopInv'
    BY <1>1, <2>1, <2>2 DEF TypeOK, LoopInv
  <2>4. Pending' = Pending
    BY <2>1 DEF Pending
  <2> QED
    BY <1>1, <2>1, <2>2, <2>3, <2>4, HandlersKept
<1>3. CASE a = Loop /\ detached[h]
  <2>1. /\ Mark(h, {"mixed"}) /\ loopAt' = "aborted"
        /\ UNCHANGED <<queue, functions, pipe, handlers, interest>>
    BY <1>3 DEF Update, queueVars, registryVars
  <2>2. /\ ways' \in [Handlers -> SUBSET Way]
        /\ \A g \in Handlers : ways[g] \subseteq ways'[g]
        /\ \A g \in Handlers : "eager" \in ways'[g] => "eager" \in ways[g]
        /\ "mixed" \in ways'[h] /\ \A g \in Handlers : g # h => ways'[g] = ways[g]
    BY <2>1, MarkType
  <2>3. TypeOK'
    BY <1>1, <2>1, <2>2 DEF TypeOK, LoopAt
  <2>4. RegistryInv' /\ LifeInv' /\ WaitInv' /\ LoopInv'
    <3>1. \A t \in Threads : waiting[t] # NoHandler => waiting[t] \in Handlers
      BY DEF TypeOK
    <3> QED
      BY <1>1, <2>1, <2>2, <3>1 DEF RegistryInv, LifeInv, WaitInv, LoopInv, Single
  <2>5. Pending' = Pending
    BY <2>1 DEF Pending
  <2>6. PendingInv'
    <3>1. ASSUME NEW i \in 1 .. Len(Pending), NEW g \in Handlers, Pending[i].h = g
          PROVE  PlaceKept(i, g)
      <4>1. /\ life[g] # "new"
            /\ Pending[i].op = "attach" =>
                 detached[g] /\ NobodyWaits(g) /\ ("eager" \notin ways[g] => life[g] = "live")
            /\ Plain(g) => life[g] # "dead"
        BY <3>1, PlaceFacts DEF IInv
      <4> QED
        BY <3>1, <1>1, <2>2, <4>1 DEF PlaceKept, NobodyWaits, Plain, Single
    <3> QED
      BY <2>5, <3>1, PlacesKept
  <2>7. LiveInv'
    BY <1>1, <2>2, <2>5, LiveKept DEF Single
  <2> QED
    BY <2>3, <2>4, <2>6, <2>7
<1>4. CASE a # Loop
  <2>1. /\ Post("update", h) /\ a \in Threads /\ waiting[a] = NoHandler
        /\ Mark(h, IF a = home[h] THEN {} ELSE {"mixed"}) /\ UNCHANGED loopAt
    BY <1>1, <1>4 DEF Update, Actors, CanCall
  <2>2. /\ queue' \in Seq(Functor) /\ functions' = functions
        /\ pipe' \in 0 .. MaxPending /\ pipe' > 0
        /\ [op |-> "update", h |-> h] \in Functor
        /\ queue' = Append(queue, [op |-> "update", h |-> h])
        /\ UNCHANGED <<handlers, interest>>
    BY <2>1, PostType
  <2>3. /\ ways' \in [Handlers -> SUBSET Way]
        /\ \A g \in Handlers : ways[g] \subseteq ways'[g]
        /\ \A g \in Handlers : "eager" \in ways'[g] => "eager" \in ways[g]
        /\ a # home[h] => "mixed" \in ways'[h]
    BY <2>1, MarkType
  <2>4. TypeOK'
    BY <1>1, <2>1, <2>2, <2>3 DEF TypeOK
  <2>5. RegistryInv' /\ LifeInv' /\ WaitInv' /\ LoopInv'
    <3>1. \A t \in Threads : waiting[t] # NoHandler => waiting[t] \in Handlers
      BY DEF TypeOK
    <3> QED
      BY <1>1, <2>1, <2>2, <2>3, <3>1 DEF RegistryInv, LifeInv, WaitInv, LoopInv, Single
  <2>6. ASSUME Single(h)'
        PROVE  home[h] = a /\ NobodyWaits(h) /\ (~ detached[h] \/ Attaching(h))
    <3>1. Single(h) /\ home[h] = a
      BY <2>3, <2>6 DEF Single
    <3>2. NoHandler # h
      BY ReactorAssumption
    <3>3. NobodyWaits(h)
      BY <2>1, <3>1, <3>2 DEF WaitInv, NobodyWaits
    <3> QED
      BY <1>1, <3>1, <3>3 DEF LiveInv
  <2>7. PendingInv'
    <3>1. ASSUME NEW i \in 1 .. Len(Pending), NEW g \in Handlers, Pending[i].h = g
          PROVE  PlaceKept(i, g)
      <4>1. /\ life[g] # "new"
            /\ Pending[i].op = "attach" =>
                 detached[g] /\ NobodyWaits(g) /\ ("eager" \notin ways[g] => life[g] = "live")
            /\ Plain(g) => life[g] # "dead"
        BY <3>1, PlaceFacts DEF IInv
      <4> QED
        BY <3>1, <1>1, <2>3, <4>1 DEF PlaceKept, NobodyWaits, Plain, Single
    <3>2. ASSUME NEW i \in 1 .. Len(Pending), NEW g \in Handlers, Pending[i].h = g,
                 Single(g)', Pending[i].op = "detach"
          PROVE  h # g
      <4>1. Single(g)
        BY <2>3, <3>2 DEF Single
      <4>2. home[g] \in Threads /\ waiting[home[g]] = g
        BY <3>2, <4>1, PlaceFacts
      <4> QED
        BY <2>6, <3>2, <4>2 DEF NobodyWaits
    <3>3. [op |-> "update", h |-> h].h = h /\ [op |-> "update", h |-> h].op = "update"
      OBVIOUS
    <3>4. /\ life'[h] # "new" /\ life'[h] # "dead"
          /\ Single(h)' => home'[h] \in Threads /\ (~ detached'[h] \/ Attaching(h))
      BY <1>1, <2>1, <2>6
    <3> QED
      BY <2>2, <3>1, <3>2, <3>3, <3>4, PlacesPosted
  <2>8. LiveInv'
    BY <1>1, <2>2, <2>3, LiveKept DEF Single
  <2> QED
    BY <2>4, <2>5, <2>7, <2>8
<1> QED
  BY <1>2, <1>3, <1>4

\* What an unchanged queue needs of a step that changes h alone: what PlaceKept
\* says of the other handlers is then clear.
LEMMA OthersKept ==
  ASSUME IInv, NEW h \in Handlers,
         ways' \in [Handlers -> SUBSET Way],
         UNCHANGED <<home, waiting>>,
         \A g \in Handlers : ways[g] \subseteq ways'[g],
         \A g \in Handlers : g # h => life'[g] = life[g] /\ detached'[g] = detached[g],
         NEW i \in 1 .. Len(Pending), NEW g \in Handlers, Pending[i].h = g, g # h
  PROVE  PlaceKept(i, g)
<1>1. /\ life[g] # "new"
      /\ Pending[i].op = "attach" =>
           detached[g] /\ NobodyWaits(g) /\ ("eager" \notin ways[g] => life[g] = "live")
      /\ Plain(g) => life[g] # "dead"
  BY PlaceFacts DEF IInv
<1> QED
  BY <1>1 DEF PlaceKept, NobodyWaits, Plain, Single

LEMMA DetachKeeps ==
  ASSUME IInv, NEW a \in Actors, NEW h \in Handlers, Detach(a, h)
  PROVE  IInv'
<1> USE DEF IInv
<1>1. /\ CanCall(a) /\ NobodyWaits(h)
      /\ life[h] = "live" \/ (life[h] = "cut" /\ ~ detached[h])
      /\ UNCHANGED <<home, fdOf, events, open, loopAt, ready, current, todo>>
      /\ Mark(h, DetachWays(a, h))
  BY DEF Detach, loopVars
<1>2. /\ ways' \in [Handlers -> SUBSET Way]
      /\ \A g \in Handlers : ways[g] \subseteq ways'[g]
      /\ a # home[h] => "mixed" \in ways'[h]
      /\ detached[h] => "eager" \in ways'[h]
      /\ (a = Loop /\ h = current) => "self" \in ways'[h]
  <2>1. ways'[h] = ways[h] \union DetachWays(a, h)
    BY <1>1, MarkType
  <2>2. "mixed" \in Way /\ "eager" \in Way /\ "self" \in Way
    BY DEF Way
  <2>3. /\ a # home[h] => "mixed" \in DetachWays(a, h)
        /\ detached[h] => "eager" \in DetachWays(a, h)
        /\ (a = Loop /\ h = current) => "self" \in DetachWays(a, h)
    BY <2>2 DEF DetachWays
  <2> QED
    BY <1>1, <2>1, <2>3, MarkType
<1>3. \A g \in Handlers : Single(g)' => Single(g)
  BY <1>2 DEF Single
<1>4. CASE detached[h]
  <2>1. /\ life[h] = "live" /\ life' = [life EXCEPT ![h] = "cut"]
        /\ UNCHANGED <<detached, handlers, interest, queue, functions, pipe, waiting>>
    BY <1>1, <1>4 DEF Detach, registryVars, queueVars
  <2>2. /\ life' \in [Handlers -> {"new", "live", "cut", "dead"}] /\ life'[h] = "cut"
        /\ \A g \in Handlers : g # h => life'[g] = life[g]
    BY <2>1 DEF TypeOK
  <2>3. TypeOK'
    BY <1>1, <1>2, <2>1, <2>2 DEF TypeOK
  <2>4. RegistryInv' /\ LifeInv' /\ WaitInv' /\ LoopInv'
    <3>1. \A t \in Threads : waiting[t] # NoHandler => waiting[t] \in Handlers
      BY DEF TypeOK
    <3> QED
      BY <1>1, <1>2, <1>3, <1>4, <2>1, <2>2, <3>1
         DEF RegistryInv, LifeInv, WaitInv, LoopInv
  <2>5. Pending' = Pending
    BY <2>1 DEF Pending
  <2>6. PendingInv'
    <3>1. ASSUME NEW i \in 1 .. Len(Pending), NEW g \in Handlers, Pending[i].h = g
          PROVE  PlaceKept(i, g)
      <4>1. CASE g = h
        BY <1>1, <1>2, <1>4, <2>1, <2>2, <4>1 DEF PlaceKept, NobodyWaits
      <4>2. CASE g # h
        BY <1>1, <1>2, <2>1, <2>2, <3>1, <4>2, OthersKept
      <4> QED
        BY <4>1, <4>2
    <3> QED
      BY <2>5, <3>1, PlacesKept
  <2>7. LiveInv'
    BY <1>3, <2>1, <2>2, <2>5, LiveKept
  <2> QED
    BY <2>3, <2>4, <2>6, <2>7
<1>5. CASE ~ detached[h] /\ a = Loop
  <2>1. /\ RemoveHandler(h)
        /\ life' = [life EXCEPT ![h] = "cut"]
        /\ detached' = [detached EXCEPT ![h] = TRUE]
        /\ UNCHANGED <<queue, functions, pipe, waiting>>
    BY <1>5 DEF Detach, queueVars
  <2>2. /\ life' \in [Handlers -> {"new", "live", "cut", "dead"}] /\ life'[h] = "cut"
        /\ detached' \in [Handlers -> BOOLEAN] /\ detached'[h]
        /\ \A g \in Handlers : g # h => life'[g] = life[g] /\ detached'[g] = detached[g]
    BY <2>1 DEF TypeOK
  <2>3. /\ handlers' \in [AllFds -> Handlers \union {NoHandler, WakeupHandler}]
        /\ interest' \in [AllFds -> SUBSET Event]
        /\ \A fd \in AllFds :
             handlers'[fd] # h /\ handlers'[fd] \in {handlers[fd], NoHandler}
    BY <2>1, HandlerRemoved
  <2>4. TypeOK'
    BY <1>1, <1>2, <2>1, <2>2, <2>3 DEF TypeOK
  <2>5. RegistryInv'
    <3>1. NoHandler \notin Handlers /\ NoHandler # WakeupHandler
      BY ReactorAssumption DEF NoHandler, WakeupHandler
    <3> QED
      BY <1>1, <2>2, <2>3, <3>1 DEF RegistryInv
  <2>6. LifeInv' /\ WaitInv' /\ LoopInv'
    <3>1. \A t \in Threads : waiting[t] # NoHandler => waiting[t] \in Handlers
      BY DEF TypeOK
    <3> QED
      BY <1>1, <1>2, <1>3, <1>5, <2>1, <2>2, <3>1 DEF LifeInv, WaitInv, LoopInv
  <2>7. Pending' = Pending
    BY <2>1 DEF Pending
  <2>8. PendingInv'
    <3>1. ASSUME NEW i \in 1 .. Len(Pending), NEW g \in Handlers, Pending[i].h = g
          PROVE  PlaceKept(i, g)
      <4>1. CASE g = h
        <5>1. Pending[i].op # "attach" /\ (Single(h) => home[h] \in Threads)
          BY <1>5, <3>1, <4>1, PlaceFacts
        <5>2. ~ Single(h)'
          BY <1>2, <1>3, <1>5, <5>1, ReactorAssumption DEF Single
        <5> QED
          BY <1>2, <2>2, <4>1, <5>1, <5>2 DEF PlaceKept
      <4>2. CASE g # h
        BY <1>1, <1>2, <2>1, <2>2, <3>1, <4>2, OthersKept
      <4> QED
        BY <4>1, <4>2
    <3> QED
      BY <2>7, <3>1, PlacesKept
  <2>9. LiveInv'
    BY <1>3, <2>1, <2>2, <2>7, LiveKept
  <2> QED
    BY <2>4, <2>5, <2>6, <2>8, <2>9
<1>6. CASE ~ detached[h] /\ a # Loop
  <2>1. /\ Post("detach", h) /\ a \in Threads /\ waiting[a] = NoHandler
        /\ waiting' = [waiting EXCEPT ![a] = h]
        /\ UNCHANGED <<life, detached>>
    BY <1>1, <1>6 DEF Detach, Actors, CanCall
  <2>2. /\ queue' \in Seq(Functor) /\ functions' = functions
        /\ pipe' \in 0 .. MaxPending /\ pipe' > 0
        /\ [op |-> "detach", h |-> h] \in Functor
        /\ queue' = Append(queue, [op |-> "detach", h |-> h])
        /\ UNCHANGED <<handlers, interest>>
    BY <2>1, PostType
  <2>3. /\ waiting' \in [Threads -> Handlers \union {NoHandler}] /\ waiting'[a] = h
        /\ \A t \in Threads : t # a => waiting'[t] = waiting[t]
    BY <2>1 DEF TypeOK
  <2>4. TypeOK'
    BY <1>1, <1>2, <2>1, <2>2, <2>3 DEF TypeOK
  <2>5. RegistryInv' /\ LifeInv' /\ WaitInv' /\ LoopInv'
    <3>1. \A t \in Threads : waiting[t] # NoHandler => waiting[t] \in Handlers
      BY DEF TypeOK
    <3>2. Single(h)' => home[h] = a
      BY <1>2 DEF Single
    <3>3. WaitInv'
      BY <1>1, <1>3, <2>1, <2>3, <3>1, <3>2 DEF WaitInv
    <3> QED
      BY <1>1, <1>2, <2>1, <2>2, <3>3 DEF RegistryInv, LifeInv, LoopInv
  <2>6. NoHandler \notin Handlers
    BY ReactorAssumption
  <2>7. PendingInv'
    <3>1. ASSUME NEW i \in 1 .. Len(Pending), NEW g \in Handlers, Pending[i].h = g
          PROVE  /\ PlaceKept(i, g)
                 /\ (Single(g)' /\ Pending[i].op = "detach") => h # g
      <4>1. /\ life[g] # "new"
            /\ Pending[i].op = "attach" =>
                 detached[g] /\ NobodyWaits(g) /\ ("eager" \notin ways[g] => life[g] = "live")
            /\ Plain(g) => life[g] # "dead"
            /\ (Single(g) /\ Pending[i].op = "detach") =>
                 home[g] \in Threads /\ waiting[home[g]] = g
        BY <3>1, PlaceFacts
      <4>2. (Pending[i].op = "attach") => NobodyWaits(g)'
        BY <1>6, <2>3, <4>1 DEF NobodyWaits
      <4>3. (Single(g) /\ Pending[i].op = "detach") =>
              h # g /\ waiting'[home[g]] = waiting[home[g]]
        BY <1>1, <2>1, <2>3, <2>6, <4>1 DEF NobodyWaits
      <4>4. Plain(g)' => Plain(g)
        BY <1>2 DEF Plain, Single
      <4> QED
        BY <1>1, <1>2, <1>3, <2>1, <4>1, <4>2, <4>3, <4>4 DEF PlaceKept
    <3>2. [op |-> "detach", h |-> h].h = h /\ [op |-> "detach", h |-> h].op = "detach"
      OBVIOUS
    <3>3. /\ life'[h] # "new" /\ life'[h] # "dead"
          /\ Single(h)' => home'[h] \in Threads /\ waiting'[home'[h]] = h /\ ~ detached'[h]
      BY <1>1, <1>2, <1>6, <2>1, <2>3 DEF Single
    <3> QED
      BY <2>2, <3>1, <3>2, <3>3, PlacesPosted
  <2>8. LiveInv'
    <3>1. \A g \in Handlers, t \in Threads : waiting[t] = g => waiting'[t] = g
      BY <2>1, <2>3, <2>6
    <3> QED
      BY <1>3, <2>1, <2>2, <3>1, LiveKept
  <2> QED
    BY <2>4, <2>5, <2>7, <2>8
<1> QED
  BY <1>4, <1>5, <1>6

\* A handler of which nothing more is used: its Detach has returned, and it is detached.
LEMMA DeleteKeeps ==
  ASSUME IInv, NEW a \in Actors, NEW h \in Handlers, Delete(a, h)
  PROVE  IInv'
<1> USE DEF IInv
<1>1. /\ NobodyWaits(h) /\ life[h] = "cut" /\ detached[h]
      /\ life' = [life EXCEPT ![h] = "dead"]
      /\ UNCHANGED <<home, fdOf, events, detached, open, handlers, interest, queue, functions,
                     pipe, loopAt, ready, current, todo, waiting, ways>>
  BY DEF Delete, registryVars, queueVars, loopVars
<1>2. /\ life' \in [Handlers -> {"new", "live", "cut", "dead"}] /\ life'[h] = "dead"
      /\ \A g \in Handlers : g # h => life'[g] = life[g]
  BY <1>1 DEF TypeOK
<1>3. TypeOK'
  BY <1>1, <1>2 DEF TypeOK
<1>4. RegistryInv' /\ LifeInv' /\ WaitInv' /\ LoopInv'
  <2>1. \A t \in Threads : waiting[t] # NoHandler => waiting[t] \in Handlers /\ waiting[t] # h
    BY <1>1 DEF TypeOK, NobodyWaits
  <2> QED
    BY <1>1, <1>2, <2>1 DEF RegistryInv, LifeInv, WaitInv, LoopInv, Single
<1>5. Pending' = Pending
  BY <1>1 DEF Pending
<1>6. PendingInv'
  <2>1. ASSUME NEW i \in 1 .. Len(Pending), NEW g \in Handlers, Pending[i].h = g
        PROVE  PlaceKept(i, g)
    <3>1. CASE g = h
      <4>1. ~ (Pending[i].op = "attach" /\ "eager" \notin ways[h])
        BY <1>1, <2>1, <3>1, PlaceFacts
      <4>2. ~ Plain(h)
        <5> SUFFICES ASSUME Plain(h) PROVE FALSE
          OBVIOUS
        <5>1. Single(h) /\ "eager" \notin ways[h]
          BY DEF Plain
        <5>2. Pending[i].op = "update"
          BY <1>1, <2>1, <3>1, <4>1, <5>1, PlaceFacts, PendingType
        <5>3. PICK j \in 1 .. i - 1 : Pending[j].h = h /\ Pending[j].op = "attach"
          BY <1>1, <2>1, <3>1, <5>1, <5>2 DEF PendingInv, PlaceOK
        <5>4. j \in 1 .. Len(Pending)
          BY PendingType
        <5> QED
          BY <1>1, <5>1, <5>3, <5>4, PlaceFacts
      <4>3. Pending[i].op = "attach" => detached[h] /\ NobodyWaits(h)
        BY <1>1
      <4> QED
        BY <1>1, <1>2, <3>1, <4>1, <4>2, <4>3 DEF PlaceKept, NobodyWaits, Plain, Single
    <3>2. CASE g # h
      <4>1. ways' \in [Handlers -> SUBSET Way]
        BY <1>1 DEF TypeOK
      <4> QED
        BY <1>1, <1>2, <2>1, <3>2, <4>1, OthersKept
    <3> QED
      BY <3>1, <3>2
  <2> QED
    BY <1>5, <2>1, PlacesKept
<1>7. LiveInv'
  BY <1>1, <1>2, <1>5, LiveKept DEF Single
<1> QED
  BY <1>3, <1>4, <1>6, <1>7

LEMMA DetachDoneKeeps ==
  ASSUME IInv, NEW t \in Threads, DetachDone(t)
  PROVE  IInv'
<1> USE DEF IInv
<1>1. PICK h \in Handlers : waiting[t] = h
  BY DEF DetachDone, TypeOK
<1>2. /\ detached[h] /\ h # NoHandler
      /\ life' = [life EXCEPT ![h] = "cut"]
      /\ waiting' = [waiting EXCEPT ![t] = NoHandler]
      /\ UNCHANGED <<home, fdOf, events, detached, open, handlers, interest, queue, functions,
                     pipe, loopAt, ready, current, todo, ways>>
  BY <1>1 DEF DetachDone, registryVars, queueVars, loopVars
<1>3. /\ life' \in [Handlers -> {"new", "live", "cut", "dead"}] /\ life'[h] = "cut"
      /\ \A g \in Handlers : g # h => life'[g] = life[g]
      /\ waiting' \in [Threads -> Handlers \union {NoHandler}] /\ waiting'[t] = NoHandler
      /\ \A s \in Threads : s # t => waiting'[s] = waiting[s]
      /\ life[h] \in {"live", "cut"}
  BY <1>1, <1>2 DEF TypeOK, WaitInv
<1>4. TypeOK'
  BY <1>2, <1>3 DEF TypeOK
<1>5. RegistryInv' /\ LifeInv' /\ WaitInv' /\ LoopInv'
  <2>1. \A s \in Threads : waiting[s] # NoHandler => waiting[s] \in Handlers
    BY DEF TypeOK
  <2> QED
    BY <1>2, <1>3, <2>1 DEF RegistryInv, LifeInv, WaitInv, LoopInv, Single
<1>6. Pending' = Pending
  BY <1>2 DEF Pending
<1>7. PendingInv'
  <2>1. ASSUME NEW i \in 1 .. Len(Pending), NEW g \in Handlers, Pending[i].h = g
        PROVE  PlaceKept(i, g)
    <3>1. /\ life[g] # "new"
          /\ Pending[i].op = "attach" =>
               detached[g] /\ NobodyWaits(g) /\ ("eager" \notin ways[g] => life[g] = "live")
          /\ Plain(g) => life[g] # "dead"
          /\ (Single(g) /\ Pending[i].op = "detach") =>
               home[g] \in Threads /\ waiting[home[g]] = g /\ ~ detached[g]
      BY <2>1, PlaceFacts
    <3>2. Pending[i].op = "attach" => g # h /\ NobodyWaits(g)'
      <4>1. g # NoHandler
        BY ReactorAssumption
      <4> QED
        BY <1>1, <1>2, <1>3, <3>1, <4>1 DEF NobodyWaits
    <3>3. (Single(g) /\ Pending[i].op = "detach") => waiting'[home[g]] = waiting[home[g]]
      BY <1>1, <1>2, <1>3, <3>1
    <3>4. life'[g] # "new" /\ (life'[g] = "dead" => life[g] = "dead")
      BY <1>3, <3>1
    <3> QED
      BY <1>2, <1>3, <3>1, <3>2, <3>3, <3>4 DEF PlaceKept, Plain, Single
  <2> QED
    BY <1>6, <2>1, PlacesKept
<1>8. LiveInv'
  <2>1. \A g \in Handlers, s \in Threads : (g # h /\ waiting[s] = g) => waiting'[s] = g
    BY <1>1, <1>3
  <2> QED
    BY <1>2, <1>3, <1>6, <2>1, LiveKept DEF Single
<1> QED
  BY <1>4, <1>5, <1>7, <1>8

LEMMA CloseKeeps ==
  ASSUME IInv, NEW fd \in Fds, Close(fd)
  PROVE  IInv'
<1> USE DEF IInv
<1>1. /\ open' = open \ {fd}
      /\ UNCHANGED <<life, home, fdOf, events, detached, handlers, interest, queue, functions,
                     pipe, loopAt, ready, current, todo, waiting, ways>>
  BY DEF Close, registryVars, queueVars, loopVars
<1>2. TypeOK' /\ LoopInv'
  BY <1>1 DEF TypeOK, LoopInv
<1>3. Pending' = Pending
  BY <1>1 DEF Pending
<1> QED
  BY <1>1, <1>2, <1>3, HandlersKept

\* The next function runs, or cannot.
LEMMA InvokeKeeps ==
  ASSUME IInv, InvokeNext
  PROVE  IInv'
<1> USE DEF IInv
<1>1. /\ loopAt = "invoke" /\ functions # <<>>
      /\ current = NoHandler
      /\ UNCHANGED <<queue, pipe, ready, current, todo, waiting, ways>>
  BY DEF InvokeNext, LoopInv
<1>2. PICK n \in Nat : n > 0 /\ Len(Pending) = n /\ Pending[1] = Head(functions)
  <2>1. /\ Len(functions) \in Nat /\ Len(functions) > 0 /\ Head(functions) = functions[1]
        /\ Len(queue) \in Nat
    BY <1>1, HeadTailProperties, LenProperties, EmptySeq DEF TypeOK
  <2> QED
    BY <2>1, ConcatProperties DEF Pending, TypeOK
<1>3. PICK h \in Handlers : h = Pending[1].h /\ Pending[1].op \in {"attach", "update", "detach"}
  BY <1>2, PendingType
<1> DEFINE op == Pending[1].op
<1>4. PlaceOK(1)
  BY <1>2 DEF PendingInv
<1>5. ASSUME loopAt' \in {"dangling", "aborted"}, functions' = functions,
             UNCHANGED handlerVars, UNCHANGED registryVars
      PROVE  IInv'
  <2>1. TypeOK' /\ LoopInv'
    BY <1>1, <1>5 DEF TypeOK, LoopInv, LoopAt, handlerVars, registryVars
  <2>2. Pending' = Pending
    BY <1>1, <1>5 DEF Pending
  <2> QED
    BY <1>1, <1>5, <2>1, <2>2, HandlersKept DEF handlerVars, registryVars
<1>6. CASE life[h] = "dead"
  <2>1. loopAt' = "dangling" /\ UNCHANGED handlerVars /\ UNCHANGED registryVars
    BY <1>2, <1>3, <1>6 DEF InvokeNext
  <2>2. functions' = functions
    BY <2>1 DEF InvokeNext
  <2> QED
    BY <1>5, <2>1, <2>2
<1>7. CASE life[h] # "dead" /\ op = "update" /\ detached[h]
  <2>1. RunFunctor(op, h)
    BY <1>2, <1>3, <1>7 DEF InvokeNext
  <2>2. /\ loopAt' = "aborted" /\ UNCHANGED <<life, home, fdOf, events, open>>
        /\ UNCHANGED detached /\ UNCHANGED registryVars
    BY <1>7, <2>1 DEF RunFunctor
  <2>3. functions' = functions
    BY <2>2 DEF InvokeNext
  <2> QED
    BY <1>5, <2>2, <2>3 DEF handlerVars
<1>8. CASE life[h] # "dead" /\ ~ (op = "update" /\ detached[h])
  <2>1. RunFunctor(op, h)
    BY <1>2, <1>3, <1>8 DEF InvokeNext
  <2>2. /\ UNCHANGED <<life, home, fdOf, events, open, loopAt>>
        /\ op = "attach" => RegisterHandler(h) /\ detached' = [detached EXCEPT ![h] = FALSE]
        /\ op = "update" => UpdateHandler(h) /\ UNCHANGED detached /\ ~ detached[h]
        /\ op = "detach" => RemoveHandler(h) /\ detached' = [detached EXCEPT ![h] = TRUE]
    BY <1>3, <1>8, <2>1 DEF RunFunctor
  <2>3. functions' = Tail(functions)
    BY <1>1, <2>2 DEF InvokeNext
  <2>4. detached' \in [Handlers -> BOOLEAN] /\ \A g \in Handlers : g # h => detached'[g] = detached[g]
    BY <1>3, <2>2 DEF TypeOK
  <2>5. /\ op = "attach" => ~ detached'[h]
        /\ op = "detach" => detached'[h]
        /\ op = "update" => detached' = detached /\ ~ detached[h]
    BY <2>2 DEF TypeOK
  <2>6. functions' \in Seq(Functor)
    BY <1>1, <2>3, HeadTailProperties DEF TypeOK
  <2>7. life[h] # "new" /\ fdOf[h] \in AllFds
    BY <1>3, <1>4 DEF PlaceOK, TypeOK
  <2>8. /\ handlers' \in [AllFds -> Handlers \union {NoHandler, WakeupHandler}]
        /\ interest' \in [AllFds -> SUBSET Event]
        /\ \A fd \in AllFds :
             \/ handlers'[fd] = handlers[fd] /\ (op = "detach" => handlers[fd] # h)
             \/ handlers'[fd] = NoHandler
             \/ op = "attach" /\ fd = fdOf[h] /\ handlers'[fd] = h
    <3>1. fdOf'[h] \in AllFds /\ events'[h] \subseteq Event
      BY <2>2, <2>7 DEF TypeOK
    <3>2. CASE op = "attach"
      BY <2>2, <3>1, <3>2, HandlerRegistered
    <3>3. CASE op = "update"
      BY <2>2, <3>1, <3>3, HandlerUpdated DEF TypeOK
    <3>4. CASE op = "detach"
      <4>1. /\ handlers' \in [AllFds -> Handlers \union {NoHandler, WakeupHandler}]
            /\ interest' \in [AllFds -> SUBSET Event]
            /\ \A fd \in AllFds :
                 handlers'[fd] # h /\ handlers'[fd] \in {handlers[fd], NoHandler}
        BY <2>2, <3>4, HandlerRemoved
      <4> QED
        BY <3>4, <4>1
    <3> QED
      BY <1>3, <3>2, <3>3, <3>4
  <2>9. TypeOK'
    BY <1>1, <2>2, <2>4, <2>6, <2>8 DEF TypeOK
  <2>10. RegistryInv'
    <3>1. NoHandler \notin Handlers /\ NoHandler # WakeupHandler /\ WakeupHandler \notin Handlers
      BY ReactorAssumption DEF NoHandler, WakeupHandler
    <3>2. life[h] \in {"live", "cut"}
      BY <1>8, <2>7 DEF TypeOK
    <3> SUFFICES ASSUME NEW fd \in AllFds
                 PROVE  /\ handlers'[fd] \in Handlers =>
                             /\ fdOf[handlers'[fd]] = fd
                             /\ life[handlers'[fd]] \in {"live", "cut"}
                             /\ ~ detached'[handlers'[fd]]
                        /\ handlers'[fd] = WakeupHandler => fd = WakeupFd
      BY <2>2 DEF RegistryInv
    <3>3. CASE handlers'[fd] = handlers[fd] /\ (op = "detach" => handlers[fd] # h)
      <4>1. handlers[fd] = h => ~ detached'[h]
        BY <1>3, <2>5, <3>3
      <4> QED
        BY <2>4, <3>3, <4>1 DEF RegistryInv
    <3>4. CASE handlers'[fd] = NoHandler
      BY <3>1, <3>4
    <3>5. CASE op = "attach" /\ fd = fdOf[h] /\ handlers'[fd] = h
      BY <2>5, <3>1, <3>2, <3>5
    <3> QED
      BY <2>8, <3>3, <3>4, <3>5
  <2>11. LifeInv'
    <3>1. (op = "attach" /\ life[h] = "cut") => "eager" \in ways[h]
      BY <1>3, <1>4 DEF PlaceOK
    <3>2. ASSUME NEW g \in Handlers
          PROVE  /\ life[g] = "new" => detached'[g]
                 /\ life[g] = "cut" => detached'[g] \/ "eager" \in ways[g]
                 /\ life[g] = "dead" => detached'[g]
      BY <1>3, <1>8, <2>4, <2>5, <2>7, <3>1, <3>2 DEF LifeInv
    <3> QED
      BY <1>1, <2>2, <3>2 DEF LifeInv
  <2>12. WaitInv' /\ LoopInv'
    <3>1. WaitInv'
      BY <1>1, <2>2 DEF WaitInv, Single
    <3>2. current \notin Handlers
      BY <1>1, ReactorAssumption
    <3>3. LoopInv'
      BY <1>1, <2>2, <3>2 DEF LoopInv
    <3> QED
      BY <3>1, <3>3
  <2>13. PendingInv'
    BY <1>1, <1>3, <2>2, <2>3, <2>4, <2>5, PlacesTaken
  <2>14. LiveInv'
    <3> SUFFICES ASSUME NEW g \in Handlers, Single(g), life[g] = "live", detached'[g]
                 PROVE  Attaching(g)' \/ ~ NobodyWaits(g)
      BY <1>1, <2>2 DEF LiveInv, Single, NobodyWaits
    <3>1. CASE g = h /\ op = "detach"
      <4>1. home[h] \in Threads /\ waiting[home[h]] = h
        BY <1>3, <1>4, <3>1 DEF PlaceOK
      <4> QED
        BY <3>1, <4>1 DEF NobodyWaits
    <3>2. CASE ~ (g = h /\ op = "detach")
      <4>1. detached[g] /\ ~ (g = h /\ op = "attach")
        BY <1>3, <2>4, <2>5, <3>2
      <4>2. Attaching(g) \/ ~ NobodyWaits(g)
        BY <4>1 DEF LiveInv
      <4>3. Attaching(g) => Attaching(g)'
        BY <1>1, <1>3, <2>3, <4>1, AttachingKept
      <4> QED
        BY <4>2, <4>3
    <3> QED
      BY <3>1, <3>2
  <2> QED
    BY <2>9, <2>10, <2>11, <2>12, <2>13, <2>14
<1> QED
  BY <1>6, <1>7, <1>8

LEMMA StutterKeeps ==
  ASSUME IInv, UNCHANGED vars
  PROVE  IInv'
<1> USE DEF IInv, vars, handlerVars, registryVars, queueVars, loopVars
<1>1. TypeOK' /\ LoopInv'
  BY DEF TypeOK, LoopInv
<1>2. Pending' = Pending
  BY DEF Pending
<1> QED
  BY <1>1, <1>2, HandlersKept

LEMMA Step == ASSUME IInv, [Next]_vars PROVE IInv'
<1>1. CASE UNCHANGED vars
  BY <1>1, StutterKeeps
<1>2. CASE Run \/ Select \/ LoopStep
  BY <1>2, LoopKeeps, InvokeKeeps DEF LoopStep
<1>3. ASSUME NEW a \in Actors, NEW h \in Handlers, User(a, h) PROVE IInv'
  <2>1. ASSUME NEW fd \in Fds, New(a, h, fd) PROVE IInv'
    BY <2>1, NewKeeps
  <2>2. ASSUME NEW e \in Events, Enable(a, h, e) \/ Disable(a, h, e) PROVE IInv'
    <3>1. e \in Event /\ events \in [Handlers -> SUBSET Event]
      BY ReactorAssumption DEF IInv, TypeOK
    <3>2. CASE Enable(a, h, e)
      BY <3>1, <3>2, UpdateKeeps DEF Enable
    <3>3. CASE Disable(a, h, e)
      BY <3>1, <3>3, UpdateKeeps DEF Disable
    <3> QED
      BY <2>2, <3>2, <3>3
  <2>3. CASE Detach(a, h)
    BY <2>3, DetachKeeps
  <2>4. CASE Delete(a, h)
    BY <2>4, DeleteKeeps
  <2> QED
    BY <1>3, <2>1, <2>2, <2>3, <2>4 DEF User
<1>4. ASSUME NEW t \in Threads, DetachDone(t) PROVE IInv'
  BY <1>4, DetachDoneKeeps
<1>5. ASSUME NEW fd \in Fds, Close(fd) PROVE IInv'
  BY <1>5, CloseKeeps
<1> QED
  BY <1>1, <1>2, <1>3, <1>4, <1>5 DEF Next

LEMMA Inductive == Spec => []IInv
<1>1. IInv /\ [Next]_vars => IInv'
  BY Step
<1> QED
  BY InvInit, <1>1, PTL DEF Spec

-----------------------------------------------------------------------------
(* The theorems.                                                           *)

\* The registry, the handlers and the loop's local state keep their types.
THEOREM TypeCorrect == Spec => []TypeOK
<1>1. IInv => TypeOK
  BY DEF IInv
<1> QED
  BY Inductive, <1>1, PTL

\* No deleted handler is used, whoever calls what in which order, but for those that
\* were used from several sides, or detached before they were attached or by their
\* own callback (EventHandler.cpp:57, 138, 170).
THEOREM NeverDangling == Spec => []NoDangling
<1>1. IInv => NoDangling
  <2> SUFFICES ASSUME IInv PROVE NoDangling
    OBVIOUS
  <2>1. \A fd \in AllFds : handlers[fd] \in Handlers => life[handlers[fd]] # "dead"
    BY DEF IInv, RegistryInv
  <2>2. ASSUME NEW i \in DOMAIN Pending, life[Pending[i].h] = "dead"
        PROVE  ways[Pending[i].h] \intersect {"mixed", "eager"} # {}
    <3>1. i \in 1 .. Len(Pending)
      BY PendingType DEF IInv
    <3>2. PICK h \in Handlers : h = Pending[i].h
      BY <3>1, PendingType DEF IInv
    <3>3. ~ Plain(h)
      BY <2>2, <3>1, <3>2, PlaceFacts DEF IInv
    <3> QED
      BY <3>2, <3>3 DEF Plain, Single
  <2>3. (current \in Handlers /\ life[current] = "dead") => "self" \in ways[current]
    BY DEF IInv, LoopInv, LifeInv
  <2> QED
    BY <2>1, <2>2, <2>3 DEF NoDangling
<1> QED
  BY Inductive, <1>1, PTL

\* EventHandler.cpp:150: the assertion that a queued update finds its handler attached
\* cannot fail for a handler that is used from one side.
THEOREM UpdatesFindAttached == Spec => []UpdateFindsAttached
<1>1. IInv => UpdateFindsAttached
  <2> SUFFICES ASSUME IInv, functions # <<>>,
                      Head(functions).op = "update", detached[Head(functions).h]
               PROVE  "mixed" \in ways[Head(functions).h]
    BY DEF UpdateFindsAttached
  <2>1. /\ Len(functions) \in Nat /\ Len(functions) > 0 /\ Head(functions) = functions[1]
        /\ Len(queue) \in Nat
    BY HeadTailProperties, LenProperties, EmptySeq DEF IInv, TypeOK
  <2>2. Pending[1] = Head(functions) /\ Len(Pending) \in Nat /\ Len(Pending) > 0
    BY <2>1, ConcatProperties DEF Pending, IInv, TypeOK
  <2>3. PlaceOK(1)
    BY <2>2 DEF IInv, PendingInv
  <2>4. 1 .. 1 - 1 = {}
    OBVIOUS
  <2>5. Single(Pending[1].h) => ~ detached[Pending[1].h]
    BY <2>2, <2>3, <2>4 DEF PlaceOK
  <2> QED
    BY <2>2, <2>5 DEF Single
<1> QED
  BY Inductive, <1>1, PTL

\* Once a Detach of it has returned no callback of a handler starts, unless that was
\* called by its own callback or before it was attached.
THEOREM DetachedIsCutOff == Spec => NoCallbackAfterDetach
<1>1. IInv /\ [Next]_vars =>
        [loopAt = "handle" /\ loopAt' = "callback" =>
           \/ life[current] = "live"
           \/ ways[current] \intersect {"self", "eager"} # {}]_vars
  <2> SUFFICES ASSUME IInv, Next, loopAt = "handle", loopAt' = "callback"
               PROVE  \/ life[current] = "live"
                      \/ ways[current] \intersect {"self", "eager"} # {}
    OBVIOUS
  <2>1. life[current] # "dead"
    <3>1. HandleEvents
      BY DEF Next, LoopStep, User, Run, Select, Dispatch, Return, EndHandle, EndDispatch,
             SwapQueue, InvokeNext, EndInvoke, New, Enable, Disable, Update, Detach, Delete,
             DetachDone, Close, CanCall, Sound, InUserCode, loopVars
    <3> QED
      BY <3>1 DEF HandleEvents
  <2>2. /\ current \in Handlers /\ life[current] # "new"
        /\ detached[current] => "self" \in ways[current]
        /\ life[current] = "cut" => detached[current] \/ "eager" \in ways[current]
    BY DEF IInv, LoopInv, LifeInv
  <2> QED
    BY <2>1, <2>2 DEF IInv, TypeOK
<1> QED
  BY Inductive, <1>1, PTL DEF Spec, NoCallbackAfterDetach
=============================================================================
