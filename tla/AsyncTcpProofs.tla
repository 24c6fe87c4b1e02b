---------------------------- MODULE AsyncTcpProofs ----------------------------
(***************************************************************************)
(* What AsyncTcpSocket guarantees for every number of threads and messages *)
(* and every size of the buffers.                                          *)
(***************************************************************************)
EXTENDS AsyncTcpSocket, SequenceTheorems, TLAPS

-----------------------------------------------------------------------------
(* Sequences.                                                              *)

\* A sequence is cut in two at any of its places.
LEMMA Cut ==
  ASSUME NEW S, NEW s \in Seq(S), NEW n \in 0 .. Len(s)
  PROVE  /\ Prefix(s, n) \in Seq(S) /\ Len(Prefix(s, n)) = n
         /\ Suffix(s, n) \in Seq(S) /\ Len(Suffix(s, n)) = Len(s) - n
         /\ \A i \in 1 .. Len(s) - n : Suffix(s, n)[i] = s[n + i]
         /\ Prefix(s, n) \o Suffix(s, n) = s
         /\ Suffix(s, n) = <<>> <=> n = Len(s)
<1>1. /\ Len(s) \in Nat /\ n \in Int /\ n + 1 \in Int /\ Len(s) \in Int
      /\ \A i \in 1 .. Len(s) : s[i] \in S
  BY LenProperties, ElementOfSeq
<1>2. /\ SubSeq(s, 1, n) \in Seq(S)
      /\ Len(SubSeq(s, 1, n)) = IF 1 <= n THEN n - 1 + 1 ELSE 0
  BY <1>1, SubSeqProperties
<1>3. /\ SubSeq(s, n + 1, Len(s)) \in Seq(S)
      /\ Len(SubSeq(s, n + 1, Len(s))) = IF n + 1 <= Len(s) THEN Len(s) - (n + 1) + 1 ELSE 0
      /\ \A i \in 1 .. Len(s) - (n + 1) + 1 :
           SubSeq(s, n + 1, Len(s))[i] = s[(n + 1) + i - 1]
  <2>1. \A i \in n + 1 .. Len(s) : s[i] \in S
    BY <1>1
  <2> QED
    BY <1>1, <2>1, SubSeqProperties
<1>4. SubSeq(s, 1, n) \o SubSeq(s, n + 1, Len(s)) = SubSeq(s, 1, Len(s))
  <2>1. 1 \in 1 .. Len(s) + 1 /\ n \in 1 - 1 .. Len(s) /\ Len(s) \in n .. Len(s)
    BY <1>1
  <2> QED
    BY <2>1, ConcatAdjacentSubSeq, Zenon
<1>5. SubSeq(s, 1, Len(s)) = s
  BY SubSeqFull
<1>6. SubSeq(s, n + 1, Len(s)) = <<>> <=> n = Len(s)
  <2> DEFINE e == SubSeq(s, n + 1, Len(s))
  <2>1. e \in Seq(S) /\ Len(e) = Len(s) - n
    BY <1>1, <1>3
  <2> HIDE DEF e
  <2>2. e = <<>> <=> Len(e) = 0
    BY <2>1, EmptySeq
  <2>3. e = <<>> <=> n = Len(s)
    BY <1>1, <2>1, <2>2
  <2> QED
    BY <2>3 DEF e
<1>7. \A i \in 1 .. Len(s) - n : SubSeq(s, n + 1, Len(s))[i] = s[n + i]
  <2> TAKE i \in 1 .. Len(s) - n
  <2>1. i \in 1 .. Len(s) - (n + 1) + 1 /\ (n + 1) + i - 1 = n + i
    BY <1>1
  <2> QED
    BY <1>3, <2>1
<1>8. /\ Len(SubSeq(s, 1, n)) = n
      /\ Len(SubSeq(s, n + 1, Len(s))) = Len(s) - n
  BY <1>1, <1>2, <1>3
<1> QED
  BY <1>2, <1>3, <1>4, <1>5, <1>6, <1>7, <1>8, Zenon DEF Prefix, Suffix

\* A sequence is longer by what is appended.
LEMMA ConcatLength ==
  ASSUME NEW S, NEW s \in Seq(S), NEW t \in Seq(S)
  PROVE  s \o t \in Seq(S) /\ Len(s \o t) = Len(s) + Len(t)
  BY ConcatProperties

\* What is appended to a sequence is appended to each of its ends.
LEMMA CutOfConcat ==
  ASSUME NEW S, NEW s \in Seq(S), NEW t \in Seq(S), NEW n \in 0 .. Len(s)
  PROVE  Suffix(s \o t, n) = Suffix(s, n) \o t
<1> DEFINE c == s \o t
           u == Suffix(c, n)
           v == Suffix(s, n)
<1>1. /\ c \in Seq(S) /\ Len(c) = Len(s) + Len(t)
      /\ Len(s) \in Nat /\ Len(t) \in Nat
      /\ \A i \in 1 .. Len(s) + Len(t) :
           c[i] = IF i <= Len(s) THEN s[i] ELSE t[i - Len(s)]
  BY ConcatProperties, LenProperties
<1> HIDE DEF c
<1>2. n \in 0 .. Len(c)
  BY <1>1
<1>3. /\ u \in Seq(S) /\ Len(u) = Len(c) - n
      /\ \A i \in 1 .. Len(c) - n : u[i] = c[n + i]
  <2>1. ASSUME NEW q \in Seq(S), n \in 0 .. Len(q)
        PROVE  /\ Suffix(q, n) \in Seq(S) /\ Len(Suffix(q, n)) = Len(q) - n
               /\ \A i \in 1 .. Len(q) - n : Suffix(q, n)[i] = q[n + i]
    BY <2>1, Cut
  <2> QED
    BY <1>1, <1>2, <2>1
<1>4. /\ v \in Seq(S) /\ Len(v) = Len(s) - n
      /\ \A i \in 1 .. Len(s) - n : v[i] = s[n + i]
  BY Cut
<1> HIDE DEF u, v
<1>5. /\ v \o t \in Seq(S) /\ Len(v \o t) = Len(v) + Len(t)
      /\ \A i \in 1 .. Len(v) + Len(t) :
           (v \o t)[i] = IF i <= Len(v) THEN v[i] ELSE t[i - Len(v)]
  BY <1>4, ConcatProperties
<1>6. ASSUME NEW i \in 1 .. Len(u) PROVE u[i] = (v \o t)[i]
  <2>1. n + i \in 1 .. Len(s) + Len(t) /\ i \in 1 .. Len(v) + Len(t)
    BY <1>1, <1>3, <1>4
  <2>2. u[i] = c[n + i]
    BY <1>1, <1>3
  <2>3. c[n + i] = IF n + i <= Len(s) THEN s[n + i] ELSE t[(n + i) - Len(s)]
    BY <1>1, <2>1
  <2>4. CASE n + i <= Len(s)
    <3>1. i \in 1 .. Len(s) - n /\ i <= Len(v)
      BY <1>1, <1>4, <2>4
    <3> QED
      BY <1>4, <1>5, <2>1, <2>2, <2>3, <2>4, <3>1
  <2>5. CASE ~ (n + i <= Len(s))
    <3>1. ~ (i <= Len(v)) /\ (n + i) - Len(s) = i - Len(v)
      BY <1>1, <1>4, <2>5
    <3> QED
      BY <1>5, <2>1, <2>2, <2>3, <2>5, <3>1
  <2> QED
    BY <2>4, <2>5
<1>7. Len(u) = Len(v \o t)
  BY <1>1, <1>3, <1>4, <1>5
<1>8. u = v \o t
  BY <1>3, <1>5, <1>6, <1>7, SeqEqual
<1> QED
  BY <1>8 DEF c, u, v

-----------------------------------------------------------------------------
(* The inductive invariant.  It is about the programs in which calls of    *)
(* Send in the loop thread and in other threads do not meet: with both,    *)
(* a copy goes to a place that is no longer the end of the buffer.         *)

\* Where the Send of a callback is: it has something to buffer, and knows the
\* end of a buffer that has room for it.
CopyInv ==
  /\ loopAt \in {"buffer", "copy", "watch"} => side = "loop"
  /\ loopAt \in {"buffer", "copy"} => rest # <<>>
  /\ loopAt = "copy" => to = Len(out) /\ Len(out) + Len(rest) <= Limit

\* When only callbacks call Send, nobody takes the lock or queues an update,
\* and the write event is set while there is something to send, except in the
\* part of Send that is about to set it.
InterestInv ==
  side = "loop" =>
    /\ holder = Free /\ updates = 0 /\ interest = events
    /\ Unsent # <<>> /\ loopAt # "watch" => "write" \in events
    /\ loopAt = "disable" => Unsent = <<>>

\* What OnWrite passes to ::send is the beginning of what is unsent, wherever
\* other threads have got to with appending.
BurstInv ==
  loopAt = "send" =>
    /\ rpos + Len(burst) <= Len(out)
    /\ burst = SubSeq(out, rpos + 1, rpos + Len(burst))

\* OnWrite sends at most what is there, although it may be given back memory.
AdvanceInv == loopAt = "send" => rpos + Len(burst) <= Len(out)

\* What has arrived was sent.
NetInv == net <= sentNet

Core == TypeOK /\ CopyInv /\ AdvanceInv /\ InterestInv /\ NetInv

IInv == side \in Sides /\ (side # "both" => Core)

-----------------------------------------------------------------------------
(* Its proof.                                                              *)

\* A message is two bytes.
LEMMA TwoBytes ==
  ASSUME NEW m \in Messages
  PROVE  Bytes(m) \in Seq(Byte) /\ Len(Bytes(m)) = 2 /\ Bytes(m) # <<>>
<1>1. <<m, 1>> \in Byte /\ <<m, 2>> \in Byte
  BY DEF Byte
<1> HIDE DEF Byte
<1> QED
  BY <1>1 DEF Bytes

\* Bytes are bytes wherever memory given back may be.
LEMMA BytesAmongJunk ==
  ASSUME NEW s \in Seq(Byte)
  PROVE  s \in Seq(Byte \union {Junk})
  BY SeqMonotonic

\* There is nothing unsent exactly when the reading position is at the end.
LEMMA UnsentProperties ==
  ASSUME TypeOK
  PROVE  /\ Unsent = Suffix(out, rpos)
         /\ Unsent \in Seq(Byte \union {Junk})
         /\ Len(Unsent) = Len(out) - rpos /\ Len(out) \in Nat
         /\ Unsent = <<>> <=> rpos = Len(out)
<1> DEFINE S == Byte \union {Junk}
<1>1. out \in Seq(S) /\ rpos \in 0 .. Len(out)
  BY DEF TypeOK
<1> HIDE DEF S
<1>2. /\ Suffix(out, rpos) \in Seq(S) /\ Len(Suffix(out, rpos)) = Len(out) - rpos
      /\ Suffix(out, rpos) = <<>> <=> rpos = Len(out)
  BY <1>1, Cut
<1>3. Len(out) \in Nat
  BY <1>1, LenProperties
<1> QED
  BY <1>2, <1>3 DEF Unsent, Suffix, S

LEMMA InvInit == Init => IInv
<1> SUFFICES ASSUME Init PROVE IInv
  OBVIOUS
<1>1. /\ <<>> \in Seq(Byte) /\ <<>> \in Seq(Byte \union {Junk})
      /\ Len(<<>>) = 0
  BY EmptySeq
<1>2. ret \in [Messages -> -2 .. 2]
  BY DEF Init, NotSent
<1>3. TypeOK
  <2>1. /\ 0 \in 0 .. Limit /\ 0 \in 0 .. MaxNet /\ 0 \in 0 .. InLimit
        /\ Room \in 0 .. Room /\ 0 <= Limit
    BY AsyncTcpAssumption
  <2>2. out \in Seq(Byte \union {Junk}) /\ Len(out) <= Limit /\ rpos \in 0 .. Len(out)
    BY <1>1, <2>1 DEF Init
  <2> QED
    BY <1>1, <1>2, <2>1, <2>2 DEF Init, TypeOK, LoopAt
<1>4. Unsent = <<>>
  BY <1>1, <1>3, UnsentProperties DEF Init
<1> QED
  BY <1>3, <1>4 DEF Init, IInv, Core, CopyInv, AdvanceInv, InterestInv, NetInv

\* Steps that leave the bytes alone: of the loop thread, and of the peer.
LEMMA QuietStep ==
  ASSUME Core, side # "both",
         \/ UpdateInLoop \/ OnRead \/ OnReadError \/ Return \/ LoopBuffer
         \/ LoopEnableWriting \/ OnWriteTest \/ OnWriteDisable \/ EndHandle
         \/ Select \/ Flush \/ PeerSends \/ PeerReads \/ PeerShutsDown
  PROVE  Core'
<1> USE AsyncTcpAssumption
    DEF Core, TypeOK, CopyInv, AdvanceInv, InterestInv, NetInv, LoopAt,
        bufferVars, handlerVars, callVars, loopVars, historyVars, netVars
<1>0. /\ Len(out) \in Nat
      /\ UNCHANGED <<out, rpos>> => Unsent' = Unsent
  BY LenProperties DEF Unsent
<1>1. CASE UpdateInLoop
  BY <1>0, <1>1 DEF UpdateInLoop
<1>2. CASE OnRead
  BY <1>0, <1>2 DEF OnRead
<1>3. CASE OnReadError
  BY <1>0, <1>3 DEF OnReadError
<1>4. CASE Return
  BY <1>0, <1>4 DEF Return
<1>5. CASE LoopBuffer
  BY <1>0, <1>5 DEF LoopBuffer
<1>6. CASE LoopEnableWriting
  BY <1>0, <1>6, EmptySeq, UnsentProperties DEF LoopEnableWriting
<1>7. CASE OnWriteTest
  BY <1>0, <1>7 DEF OnWriteTest
<1>8. CASE OnWriteDisable
  BY <1>0, <1>8 DEF OnWriteDisable
<1>9. CASE EndHandle
  BY <1>0, <1>9 DEF EndHandle
<1>10. CASE Select
  BY <1>0, <1>10 DEF Select
<1>11. CASE Flush
  BY <1>0, <1>11 DEF Flush
<1>12. CASE PeerSends
  BY <1>0, <1>12 DEF PeerSends
<1>13. CASE PeerReads
  BY <1>0, <1>13 DEF PeerReads
<1>14. CASE PeerShutsDown
  BY <1>0, <1>14 DEF PeerShutsDown
<1> QED
  BY <1>1, <1>2, <1>3, <1>4, <1>5, <1>6, <1>7, <1>8, <1>9, <1>10, <1>11,
     <1>12, <1>13, <1>14

\* ::send takes a part of what it is given, and what there is room for.
LEMMA TakenProperties ==
  ASSUME NEW S, NEW s \in Seq(S), TypeOK
  PROVE  /\ Taken(s) \in 0 .. Len(s)
         /\ room - Taken(s) \in 0 .. Room
  BY LenProperties, AsyncTcpAssumption DEF Taken, TypeOK

\* The beginning of OnWrite: all that is unsent.
LEMMA OnWriteStep ==
  ASSUME Core, side # "both", OnWrite
  PROVE  Core'
<1> USE DEF Core, TypeOK, CopyInv, AdvanceInv, InterestInv, NetInv, LoopAt, OnWrite,
        bufferVars, handlerVars, callVars, loopVars, historyVars, netVars
<1>1. /\ Unsent \in Seq(Byte \union {Junk})
      /\ Len(Unsent) = Len(out) - rpos /\ Len(out) \in Nat
  BY UnsentProperties
<1>2. Unsent' = Unsent
  BY DEF Unsent
<1>3. rpos + Len(burst') <= Len(out)
  BY <1>1
<1> QED
  BY <1>1, <1>2, <1>3

\* The end of it: what the kernel has taken is no longer unsent.
LEMMA OnWriteSendStep ==
  ASSUME Core, side # "both", OnWriteSend
  PROVE  Core'
<1> DEFINE n == Taken(burst)
<1>1. n \in 0 .. Len(burst) /\ room - n \in 0 .. Room
  BY TakenProperties DEF Core, TypeOK
<1>2. /\ Prefix(burst, n) \in Seq(Byte \union {Junk})
      /\ wire \in Seq(Byte \union {Junk})
  BY <1>1, Cut DEF Core, TypeOK
<1>3. wire \o Prefix(burst, n) \in Seq(Byte \union {Junk})
  BY <1>2, ConcatProperties
<1>4. Len(burst) \in Nat /\ Len(out) \in Nat
  BY LenProperties DEF Core, TypeOK
<1>5. rpos + n \in rpos .. Len(out)
  <2>1. rpos \in Nat /\ rpos + Len(burst) <= Len(out)
    BY <1>4 DEF Core, TypeOK, AdvanceInv, OnWriteSend
  <2> QED
    BY <1>1, <1>4, <2>1
<1> HIDE DEF n
<1>6. /\ wire' = wire \o Prefix(burst, n) /\ rpos' = rpos + n /\ room' = room - n
      /\ burst' = <<>> /\ loopAt' = "test"
      /\ UNCHANGED <<side, out, holder, handlerVars, ready, rest, to, ret, accepted,
                     net, sentNet, inbox, peer, reported>>
  BY DEF OnWriteSend, n
<1>7. TypeOK'
  BY <1>1, <1>3, <1>4, <1>5, <1>6, EmptySeq DEF Core, TypeOK, LoopAt, handlerVars
<1>8. Unsent' # <<>> => Unsent # <<>>
  <2>1. Unsent' = Suffix(out, rpos + n)
    BY <1>6 DEF Unsent, Suffix, OnWriteSend
  <2>2. rpos + n \in 0 .. Len(out) /\ out \in Seq(Byte \union {Junk})
    BY <1>4, <1>5 DEF Core, TypeOK
  <2>3. Suffix(out, rpos + n) = <<>> <=> rpos + n = Len(out)
    BY <2>2, Cut
  <2>4. Unsent = <<>> <=> rpos = Len(out)
    BY UnsentProperties DEF Core
  <2> QED
    BY <1>4, <1>5, <2>1, <2>3, <2>4
<1> QED
  BY <1>6, <1>7, <1>8
     DEF Core, CopyInv, AdvanceInv, InterestInv, NetInv, OnWriteSend, handlerVars

\* Send in the loop thread, up to _out_buffer.Write.
LEMMA LoopSendStep ==
  ASSUME Core, side # "both", NEW m \in Messages, LoopSend(m)
  PROVE  Core'
<1> DEFINE b == Bytes(m)
           n == Taken(b)
<1>1. b \in Seq(Byte) /\ Len(b) = 2 /\ b # <<>>
  BY TwoBytes
<1>2. n \in 0 .. 2 /\ room - n \in 0 .. Room
  BY <1>1, TakenProperties DEF Core
<1> HIDE DEF b, n
<1>3. /\ Prefix(b, n) \in Seq(Byte) /\ Suffix(b, n) \in Seq(Byte)
      /\ Suffix(b, n) = <<>> <=> n = 2
  <2>1. n \in 0 .. Len(b)
    BY <1>1, <1>2
  <2>2. Prefix(b, n) \in Seq(Byte) /\ Suffix(b, n) \in Seq(Byte)
    BY <1>1, <2>1, Cut, Zenon
  <2>3. Suffix(b, n) = <<>> <=> n = Len(b)
    BY <1>1, <2>1, Cut, Zenon
  <2> QED
    BY <1>1, <2>2, <2>3
<1>4. /\ accepted \o Prefix(b, n) \in Seq(Byte)
      /\ wire \o Prefix(b, n) \in Seq(Byte \union {Junk})
  <2>1. Prefix(b, n) \in Seq(Byte \union {Junk})
    BY <1>3, BytesAmongJunk
  <2> QED
    BY <1>3, <2>1, ConcatProperties DEF Core, TypeOK
<1>5. Unsent' = Unsent
  BY DEF LoopSend, Unsent, bufferVars
<1>6. \/ /\ rest' = b /\ loopAt' = "buffer" /\ ret' = [ret EXCEPT ![m] = 0]
         /\ UNCHANGED <<accepted, wire, room>>
      \/ /\ rest' = IF n = 0 THEN <<>> ELSE Suffix(b, n)
         /\ loopAt' = IF rest' = <<>> THEN "received" ELSE "buffer"
         /\ ret' = [ret EXCEPT ![m] = IF n = 0 THEN -1 ELSE n]
         /\ accepted' = accepted \o Prefix(b, n)
         /\ wire' = wire \o Prefix(b, n)
         /\ room' = room - n
  BY DEF LoopSend, b, n
<1>7. /\ loopAt = "received" /\ side = "loop"
      /\ UNCHANGED <<side, bufferVars, handlerVars, ready, to, burst, net, sentNet, inbox,
                     peer, reported>>
  BY AsyncTcpAssumption DEF LoopSend, Core, TypeOK
<1>8. /\ ret' \in [Messages -> -2 .. 2]
      /\ rest' \in Seq(Byte)
      /\ loopAt' = "buffer" => rest' # <<>>
  <2>1. 0 \in -2 .. 2 /\ (IF n = 0 THEN -1 ELSE n) \in -2 .. 2
    BY <1>2
  <2>2. ret \in [Messages -> -2 .. 2] /\ <<>> \in Seq(Byte)
    BY EmptySeq DEF Core, TypeOK
  <2> QED
    BY <1>1, <1>3, <1>6, <2>1, <2>2
<1> QED
  BY <1>2, <1>4, <1>5, <1>6, <1>7, <1>8
     DEF Core, TypeOK, LoopAt, CopyInv, AdvanceInv, InterestInv, NetInv, bufferVars, handlerVars

\* With nobody else appending, the copy goes to the end of the buffer.
LEMMA CopyAppends ==
  ASSUME Core, LoopCopy
  PROVE  out' = out \o rest
<1> DEFINE S == Byte \union {Junk}
<1>1. /\ out \in Seq(S) /\ rest \in Seq(S) /\ to = Len(out)
      /\ rest # <<>>
  BY BytesAmongJunk DEF Core, TypeOK, CopyInv, LoopCopy
<1> HIDE DEF S
<1>2. Len(out) \in Nat /\ Len(rest) \in Nat \ {0}
  BY <1>1, LenProperties, EmptySeq
<1>3. Prefix(out, to) = out
  BY <1>1, SubSeqFull DEF Prefix
<1>4. Suffix(out, to + Len(rest)) = <<>>
  BY <1>1, <1>2, SubSeqEmpty DEF Suffix
<1>5. JunkOf(IF Len(out) - to < Len(rest) THEN Len(out) - to ELSE Len(rest)) = <<>>
  BY <1>1, <1>2 DEF JunkOf
<1>6. out' = ((out \o rest) \o <<>>) \o <<>>
  BY <1>3, <1>4, <1>5 DEF LoopCopy
<1>7. out \o rest \in Seq(S)
  BY <1>1, ConcatProperties
<1> QED
  BY <1>6, <1>7, ConcatEmptySeq

LEMMA LoopCopyStep ==
  ASSUME Core, side # "both", LoopCopy
  PROVE  Core'
<1>1. /\ out \in Seq(Byte \union {Junk}) /\ rest \in Seq(Byte)
      /\ rest \in Seq(Byte \union {Junk}) /\ accepted \in Seq(Byte)
  BY BytesAmongJunk DEF Core, TypeOK
<1>2. /\ out \o rest \in Seq(Byte \union {Junk})
      /\ Len(out \o rest) = Len(out) + Len(rest)
      /\ accepted \o rest \in Seq(Byte)
      /\ Len(out) \in Nat /\ Len(rest) \in Nat
  BY <1>1, ConcatProperties, LenProperties
<1>3. out' = out \o rest
  BY CopyAppends
<1>4. ret' \in [Messages -> -2 .. 2]
  <2>1. ret' = [ret EXCEPT ![rest[1][1]] = 2]
    BY DEF LoopCopy
  <2>2. 2 \in -2 .. 2 /\ ret \in [Messages -> -2 .. 2]
    BY DEF Core, TypeOK
  <2> QED
    BY <2>1, <2>2
<1>5. /\ Len(out') <= Limit /\ rpos' \in 0 .. Len(out')
  <2>1. loopAt = "copy" /\ UNCHANGED rpos
    BY DEF LoopCopy
  <2> QED
    BY <1>2, <1>3, <2>1 DEF Core, TypeOK, CopyInv
<1>6. loopAt' = "watch" /\ side = "loop" /\ side' = side
  BY DEF Core, CopyInv, LoopCopy
<1> QED
  BY <1>1, <1>2, <1>3, <1>4, <1>5, <1>6
     DEF Core, TypeOK, LoopAt, CopyInv, AdvanceInv, InterestInv, NetInv, LoopCopy,
         handlerVars, callVars, netVars

\* Memory that was given back is as long as it was.
LEMMA JunkProperties ==
  ASSUME NEW n \in Nat
  PROVE  JunkOf(n) \in Seq(Byte \union {Junk}) /\ Len(JunkOf(n)) = n
<1> DEFINE S == Byte \union {Junk}
<1>1. JunkOf(n) \in [1 .. n -> S]
  BY DEF JunkOf
<1> HIDE DEF S
<1>2. JunkOf(n) \in Seq(S)
  BY <1>1, SeqDef
<1>3. Len(JunkOf(n)) = n
  BY <1>1, <1>2, LenProperties
<1> QED
  BY <1>2, <1>3 DEF S

\* Send in another thread, in its two steps.
LEMMA SendStep ==
  ASSUME Core, side # "both", NEW t \in Threads, NEW m \in Messages, Send(t, m)
  PROVE  Core'
<1> DEFINE b == Bytes(m)
<1>1. b \in Seq(Byte) /\ Len(b) = 2 /\ b \in Seq(Byte \union {Junk})
  BY TwoBytes, BytesAmongJunk
<1> HIDE DEF b
<1>2. /\ side = "threads" /\ side' = side
      /\ UNCHANGED <<rpos, handlerVars, loopAt, ready, rest, to, wire, netVars>>
  BY AsyncTcpAssumption DEF Send, Core, TypeOK
<1>3. /\ out \in Seq(Byte \union {Junk}) /\ accepted \in Seq(Byte)
      /\ burst \in Seq(Byte \union {Junk})
      /\ ret \in [Messages -> -2 .. 2]
      /\ Len(out) \in Nat /\ Len(burst) \in Nat
  BY LenProperties DEF Core, TypeOK
<1>4. ret' \in [Messages -> -2 .. 2]
  <2>1. 0 \in -2 .. 2 /\ 2 \in -2 .. 2
    OBVIOUS
  <2>2. ret' = [ret EXCEPT ![m] = 2] \/ ret' = [ret EXCEPT ![m] = 0]
    BY DEF Send
  <2> QED
    BY <1>3, <2>1, <2>2
<1>5. CASE Len(out) + 2 <= Limit
  <2>1. /\ out' = out \o b /\ accepted' = accepted \o b /\ holder' = t
        /\ burst' = burst \/ burst' = JunkOf(Len(burst))
    BY <1>5 DEF Send, b
  <2>2. /\ out' \in Seq(Byte \union {Junk}) /\ Len(out') = Len(out) + 2
        /\ accepted' \in Seq(Byte)
    BY <1>1, <1>3, <2>1, ConcatLength
  <2>3. burst' \in Seq(Byte \union {Junk}) /\ Len(burst') = Len(burst)
    BY <1>3, <2>1, JunkProperties
  <2>4. /\ Len(out') <= Limit /\ rpos' \in 0 .. Len(out')
    BY <1>2, <1>3, <1>5, <2>2 DEF Core, TypeOK
  <2>5. loopAt = "send" => rpos + Len(burst') <= Len(out')
    <3>1. rpos \in Nat
      BY <1>3 DEF Core, TypeOK
    <3> QED
      BY <1>3, <2>2, <2>3, <3>1 DEF Core, AdvanceInv
  <2> QED
    BY <1>2, <1>4, <2>1, <2>2, <2>3, <2>4, <2>5
       DEF Core, TypeOK, LoopAt, CopyInv, AdvanceInv, InterestInv, NetInv,
           handlerVars, netVars
<1>6. CASE ~ (Len(out) + 2 <= Limit)
  <2>1. UNCHANGED <<out, burst, accepted, holder>>
    BY <1>6 DEF Send
  <2> QED
    BY <1>2, <1>4, <2>1
       DEF Core, TypeOK, LoopAt, CopyInv, AdvanceInv, InterestInv, NetInv,
           handlerVars, netVars
<1> QED
  BY <1>5, <1>6

LEMMA EnableWritingStep ==
  ASSUME Core, side # "both", NEW t \in Threads, EnableWriting(t)
  PROVE  Core'
<1>1. side # "loop"
  BY AsyncTcpAssumption DEF EnableWriting, Core, InterestInv
<1> QED
  BY <1>1 DEF EnableWriting, Core, TypeOK, LoopAt, CopyInv, AdvanceInv, InterestInv, NetInv,
     loopVars, callVars, historyVars, netVars

LEMMA SideKept == [Next]_vars => side' = side
  BY DEF Next, LoopStep, UpdateInLoop, OnRead, OnReadError, Return, LoopBuffer, LoopCopy,
     LoopEnableWriting, OnWrite, OnWriteSend, OnWriteTest, OnWriteDisable, EndHandle,
     Select, Flush, LoopSend, EnableWriting, Send, PeerSends, PeerReads, PeerShutsDown,
     vars, historyVars

LEMMA InvStep == IInv /\ [Next]_vars => IInv'
<1> SUFFICES ASSUME IInv, [Next]_vars, side # "both" PROVE Core'
  BY SideKept DEF IInv
<1>1. Core
  BY DEF IInv
<1>2. CASE UNCHANGED vars
  BY <1>1, <1>2
     DEF vars, Core, TypeOK, CopyInv, AdvanceInv, InterestInv, NetInv, Unsent,
         bufferVars, handlerVars, callVars, loopVars, historyVars, netVars
<1>3. CASE Next
  BY <1>1, <1>3, QuietStep, OnWriteStep, OnWriteSendStep, LoopSendStep, LoopCopyStep,
     SendStep, EnableWritingStep DEF Next, LoopStep
<1> QED
  BY <1>2, <1>3

LEMMA Inductive == Spec => []IInv
  BY InvInit, InvStep, PTL DEF Spec

\* Every reachable state is well typed when calls of Send in the loop thread and
\* in others do not meet: the buffer keeps to its limit, OnWrite advances by no
\* more than there is, and the rest that Send copies fits.
THEOREM TypeCorrect ==
  ASSUME "both" \notin Sides
  PROVE  Spec => []TypeOK
<1>1. IInv => TypeOK
  BY DEF IInv, Core
<1> QED
  BY <1>1, Inductive, PTL

\* While bytes that callbacks have sent wait in the buffer the selector watches
\* for writing, whatever the kernel took of each of them.
THEOREM WriteInterest == Spec => []WriteInterestKept
<1>1. IInv => WriteInterestKept
  BY DEF IInv, Core, InterestInv, WriteInterestKept
<1> QED
  BY <1>1, Inductive, PTL

-----------------------------------------------------------------------------
(* The bytes.  BurstInv is needed because OnWrite looks at the buffer once *)
(* and sends later: what it has looked at must still be the beginning of   *)
(* what is unsent, although other threads have appended to it.             *)

\* One step keeps the bytes, as long as a buffer that grows does not move away
\* from under OnWrite.
LEMMA KeptStep ==
  ASSUME Core, side # "both", InitSize = Limit \/ side = "loop",
         BurstInv, NothingLost, Next
  PROVE  BurstInv' /\ NothingLost'
<1> DEFINE S == Byte \union {Junk}
<1>1. /\ out \in Seq(S) /\ wire \in Seq(S) /\ accepted \in Seq(S) /\ rest \in Seq(S)
      /\ rpos \in 0 .. Len(out) /\ Len(out) \in Nat /\ burst \in Seq(S)
      /\ Len(burst) \in Nat
      /\ Unsent = Suffix(out, rpos) /\ Unsent \in Seq(S)
      /\ Len(Unsent) = Len(out) - rpos
  BY UnsentProperties, BytesAmongJunk, LenProperties DEF Core, TypeOK
<1>2. ASSUME NEW m \in Messages PROVE Bytes(m) \in Seq(S) /\ Len(Bytes(m)) = 2
  BY TwoBytes, BytesAmongJunk
<1>3. TypeOK
  BY DEF Core
<1> HIDE DEF S
<1>4. ASSUME UNCHANGED <<out, rpos, wire, accepted>>, loopAt' # "send"
      PROVE  BurstInv' /\ NothingLost'
  BY <1>4 DEF BurstInv, NothingLost, Unsent
<1>5. ASSUME UNCHANGED <<out, rpos, wire, accepted, loopAt, burst>>
      PROVE  BurstInv' /\ NothingLost'
  BY <1>5 DEF BurstInv, NothingLost, Unsent
\* Something is appended to the buffer, and accepted.
<1>6. ASSUME NEW b \in Seq(S), out' = out \o b, accepted' = accepted \o b,
             UNCHANGED <<rpos, wire>>
      PROVE  NothingLost'
  <2>1. Suffix(out \o b, rpos) = Unsent \o b
    BY <1>1, CutOfConcat
  <2>2. Unsent' = Unsent \o b
    BY <1>6, <2>1 DEF Unsent, Suffix
  <2>3. wire \o (Unsent \o b) = (wire \o Unsent) \o b
    <3>1. wire \in Seq(S) /\ Unsent \in Seq(S)
      BY <1>1
    <3> QED
      BY <3>1, ConcatAssociative
  <2> QED
    BY <1>6, <2>2, <2>3 DEF NothingLost
<1>7. ASSUME NEW m \in Messages, LoopSend(m)
      PROVE  BurstInv' /\ NothingLost'
  <2>1. CASE out # <<>>
    BY <1>4, <1>7, <2>1 DEF LoopSend, bufferVars
  <2>2. CASE out = <<>>
    <3> DEFINE p == Prefix(Bytes(m), Taken(Bytes(m)))
    <3>1. p \in Seq(S)
      <4>1. Taken(Bytes(m)) \in 0 .. Len(Bytes(m))
        BY <1>2, <1>3, TakenProperties
      <4> QED
        BY <1>2, <4>1, Cut
    <3> HIDE DEF p
    <3>2. /\ wire' = wire \o p /\ accepted' = accepted \o p
          /\ UNCHANGED <<out, rpos>> /\ loopAt' # "send"
      BY <1>7, <2>2 DEF LoopSend, bufferVars, p
    <3>3. Unsent = <<>> /\ Unsent' = <<>>
      <4>1. Len(out) = 0
        BY <2>2, EmptySeq
      <4>2. rpos = Len(out)
        BY <1>1, <4>1
      <4>3. Unsent = <<>>
        BY <1>3, <4>2, UnsentProperties
      <4> QED
        BY <3>2, <4>3 DEF Unsent
    <3>4. wire \o <<>> = wire /\ (wire \o p) \o <<>> = wire \o p
      <4>1. wire \o p \in Seq(S)
        BY <1>1, <3>1, ConcatProperties
      <4> QED
        BY <1>1, <4>1, ConcatEmptySeq
    <3> QED
      BY <3>2, <3>3, <3>4 DEF BurstInv, NothingLost
  <2> QED
    BY <2>1, <2>2
<1>8. CASE LoopCopy
  <2>1. out' = out \o rest /\ accepted' = accepted \o rest
    BY <1>8, CopyAppends DEF LoopCopy
  <2>2. UNCHANGED <<rpos, wire>> /\ loopAt' # "send"
    BY <1>8 DEF LoopCopy
  <2> QED
    BY <1>1, <1>6, <2>1, <2>2 DEF BurstInv
<1>9. ASSUME NEW t \in Threads, NEW m \in Messages, Send(t, m)
      PROVE  BurstInv' /\ NothingLost'
  <2>1. UNCHANGED <<rpos, wire, loopAt>> /\ InitSize = Limit
    BY <1>9 DEF Send
  <2>2. CASE Len(out) + 2 <= Limit
    <3>1. out' = out \o Bytes(m) /\ accepted' = accepted \o Bytes(m)
      BY <1>9, <2>2 DEF Send
    <3>2. Len(out') = Len(out) + 2 /\ out' \in Seq(S)
      BY <1>1, <1>2, <3>1, ConcatLength
    <3>3. burst' = burst
      <4>1. ~ (Len(out') > InitSize)
        BY <1>1, <2>1, <2>2, <3>2, AsyncTcpAssumption
      <4> QED
        BY <1>9, <2>2, <4>1 DEF Send
    <3>4. BurstInv'
      <4>1. CASE loopAt = "send"
        <5>1. /\ rpos + Len(burst) <= Len(out)
              /\ burst = SubSeq(out, rpos + 1, rpos + Len(burst))
          BY <4>1 DEF BurstInv
        <5>2. SubSeq(out \o Bytes(m), rpos + 1, rpos + Len(burst))
                = SubSeq(out, rpos + 1, rpos + Len(burst))
          <6>1. CASE Len(burst) = 0
            <7>1. rpos + Len(burst) < rpos + 1 /\ rpos + 1 \in Int /\ rpos + Len(burst) \in Int
              BY <1>1, <6>1
            <7> QED
              BY <7>1, SubSeqEmpty
          <6>2. CASE Len(burst) # 0
            <7>1. rpos + 1 \in 1 .. Len(out) /\ rpos + Len(burst) \in 1 .. Len(out)
              BY <1>1, <5>1, <6>2
            <7> QED
              BY <1>1, <1>2, <7>1, SubSeqOfConcat1
          <6> QED
            BY <6>1, <6>2
        <5> QED
          BY <1>1, <2>1, <3>1, <3>2, <3>3, <5>1, <5>2 DEF BurstInv
      <4> QED
        BY <2>1, <4>1 DEF BurstInv
    <3> QED
      BY <1>2, <1>6, <2>1, <3>1, <3>4
  <2>3. CASE ~ (Len(out) + 2 <= Limit)
    BY <1>5, <1>9, <2>1, <2>3 DEF Send
  <2> QED
    BY <2>2, <2>3
<1>10. CASE OnWrite
  <2>1. /\ burst' = Unsent /\ UNCHANGED <<out, rpos, wire, accepted>>
    BY <1>10 DEF OnWrite, bufferVars, historyVars
  <2>2. rpos + Len(Unsent) = Len(out)
    BY <1>1
  <2> QED
    <3>1. Unsent = SubSeq(out, rpos + 1, rpos + Len(Unsent))
      BY <2>2 DEF Unsent
    <3>2. BurstInv'
      <4>1. /\ out' = out /\ rpos' = rpos /\ burst' = Unsent
            /\ Len(out) <= Len(out)
        BY <1>1, <2>1
      <4> QED
        BY <2>2, <3>1, <4>1 DEF BurstInv
    <3> QED
      BY <2>1, <3>2 DEF NothingLost, Unsent
<1>11. CASE OnWriteSend
  <2> DEFINE n == Taken(burst)
  <2>1. n \in 0 .. Len(burst)
    BY <1>1, <1>3, TakenProperties
  <2>2. /\ wire' = wire \o Prefix(burst, n) /\ rpos' = rpos + n
        /\ UNCHANGED <<out, accepted>> /\ loopAt' = "test"
    BY <1>11 DEF OnWriteSend
  <2>3. loopAt = "send"
    BY <1>11 DEF OnWriteSend
  <2> HIDE DEF n
  <2>4. /\ rpos + Len(burst) <= Len(out)
        /\ burst = SubSeq(out, rpos + 1, rpos + Len(burst))
    BY <2>3 DEF BurstInv
  \* What is sent is the part of the buffer between the two reading positions.
  <2>5. Prefix(burst, n) = SubSeq(out, rpos + 1, rpos + n)
    <3>1. CASE n = 0
      <4>1. Prefix(burst, n) = <<>>
        BY <3>1, SubSeqEmpty DEF Prefix
      <4>2. rpos + n < rpos + 1 /\ rpos + 1 \in Int /\ rpos + n \in Int
        BY <1>1, <3>1
      <4> QED
        BY <4>1, <4>2, SubSeqEmpty
    <3>2. CASE n # 0
      <4> DEFINE i == rpos + 1
                 j == rpos + Len(burst)
      <4>1. /\ i \in 1 .. Len(out) /\ j \in 1 .. Len(out)
            /\ 1 \in 1 .. j - i + 1 /\ n \in 1 .. j - i + 1
            /\ i + 1 - 1 = rpos + 1 /\ i + n - 1 = rpos + n
        BY <1>1, <2>1, <2>4, <3>2
      <4> HIDE DEF i, j
      <4>2. SubSeq(SubSeq(out, i, j), 1, n) = SubSeq(out, i + 1 - 1, i + n - 1)
        BY <1>1, <4>1, SubSeqOfSubSeq
      <4>3. burst = SubSeq(out, i, j)
        BY <2>4 DEF i, j
      <4> QED
        BY <4>1, <4>2, <4>3 DEF Prefix
    <3> QED
      BY <3>1, <3>2
  <2>6. SubSeq(out, rpos + 1, rpos + n) \o SubSeq(out, rpos + n + 1, Len(out)) = Unsent
    <3>1. /\ rpos + 1 \in 1 .. Len(out) + 1 /\ rpos + n \in (rpos + 1) - 1 .. Len(out)
          /\ Len(out) \in rpos + n .. Len(out)
      BY <1>1, <2>1, <2>4
    <3>2. SubSeq(out, rpos + 1, rpos + n) \o SubSeq(out, (rpos + n) + 1, Len(out))
            = SubSeq(out, rpos + 1, Len(out))
      BY <1>1, <3>1, ConcatAdjacentSubSeq
    <3> QED
      BY <3>2 DEF Unsent
  <2>7. /\ SubSeq(out, rpos + n + 1, Len(out)) \in Seq(S)
        /\ Prefix(burst, n) \in Seq(S)
    <3>1. rpos + n \in 0 .. Len(out)
      BY <1>1, <2>1, <2>4
    <3>2. Suffix(out, rpos + n) \in Seq(S)
      BY <1>1, <3>1, Cut
    <3> QED
      BY <1>1, <2>1, <3>2, Cut DEF Suffix
  <2>8. (wire \o Prefix(burst, n)) \o SubSeq(out, rpos + n + 1, Len(out)) = wire \o Unsent
    <3>1. (wire \o Prefix(burst, n)) \o SubSeq(out, rpos + n + 1, Len(out))
            = wire \o (Prefix(burst, n) \o SubSeq(out, rpos + n + 1, Len(out)))
      <4>1. wire \in Seq(S)
        BY <1>1
      <4>2. \A s, t, u \in Seq(S) : (s \o t) \o u = s \o (t \o u)
        BY ConcatAssociative
      <4> QED
        BY <2>7, <4>1, <4>2, Zenon
    <3> QED
      BY <2>5, <2>6, <3>1
  <2> QED
    BY <2>2, <2>8 DEF BurstInv, NothingLost, Unsent
<1>12. CASE UpdateInLoop \/ OnRead \/ OnReadError \/ Return \/ LoopBuffer
  BY <1>4, <1>12
     DEF UpdateInLoop, OnRead, OnReadError, Return, LoopBuffer, bufferVars, historyVars,
         loopVars, callVars
<1>13. CASE LoopEnableWriting \/ OnWriteTest \/ OnWriteDisable \/ EndHandle \/ Select \/ Flush
  BY <1>4, <1>13
     DEF LoopEnableWriting, OnWriteTest, OnWriteDisable, EndHandle, Select, Flush,
         bufferVars, historyVars, loopVars
<1>14. CASE PeerSends \/ PeerReads \/ PeerShutsDown
  BY <1>5, <1>14
     DEF PeerSends, PeerReads, PeerShutsDown, bufferVars, historyVars, loopVars, callVars
<1>15. ASSUME NEW t \in Threads, EnableWriting(t)
       PROVE  BurstInv' /\ NothingLost'
  BY <1>5, <1>15 DEF EnableWriting, historyVars, loopVars, callVars
<1> QED
  BY <1>7, <1>8, <1>9, <1>10, <1>11, <1>12, <1>13, <1>14, <1>15 DEF Next, LoopStep

\* As long as calls of Send in the loop thread and in others do not meet, and a
\* buffer that other threads fill never has to grow, every byte that Send has
\* reported is on the wire or in the buffer, once and in the order of the calls:
\* whatever the kernel took of each ::send, and whatever did not fit.
THEOREM BytesKept ==
  ASSUME "both" \notin Sides, InitSize = Limit \/ "threads" \notin Sides
  PROVE  Spec => []NothingLost
<1>1. Init => BurstInv /\ NothingLost
  <2>1. <<>> \o <<>> = <<>> /\ SubSeq(<<>>, 0 + 1, Len(<<>>)) = <<>>
    BY EmptySeq, ConcatEmptySeq, SubSeqEmpty
  <2> QED
    BY <2>1 DEF Init, BurstInv, NothingLost, Unsent
<1>2. IInv /\ BurstInv /\ NothingLost /\ [Next]_vars => BurstInv' /\ NothingLost'
  <2> SUFFICES ASSUME IInv, BurstInv, NothingLost, [Next]_vars
               PROVE  BurstInv' /\ NothingLost'
    OBVIOUS
  <2>1. Core /\ side # "both" /\ (InitSize = Limit \/ side = "loop")
    BY AsyncTcpAssumption DEF IInv
  <2>2. CASE Next
    BY <2>1, <2>2, KeptStep
  <2>3. CASE UNCHANGED vars
    BY <2>3 DEF vars, BurstInv, NothingLost, Unsent, bufferVars, loopVars, callVars, historyVars
  <2> QED
    BY <2>2, <2>3
<1> QED
  BY <1>1, <1>2, Inductive, PTL DEF Spec

=============================================================================
