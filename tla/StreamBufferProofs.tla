-------------------------- MODULE StreamBufferProofs --------------------------
(***************************************************************************)
(* What StreamBuffer guarantees for every number of buffers, every initial *)
(* size and limit, and whatever bytes are written, as long as callers      *)
(* flush only what they have read; and that without a limit, and without   *)
(* operator=, the buffers are the streams of bytes of ByteStream.          *)
(***************************************************************************)
EXTENDS StreamBuffer, SequenceTheorems, TLAPS

\* What every operation keeps of one buffer.
Sound(b) ==
  /\ b \in Buffer
  /\ b.opos <= b.rpos /\ b.rpos <= b.wpos /\ b.wpos <= Len(b.bytes)
  /\ b.limit > 0 => Len(b.bytes) <= b.limit

IInv == buf \in [Buffers -> Buffer] /\ \A b \in Buffers : Sound(buf[b])

\* A buffer with these members.
Made(bytes, limit, opos, rpos, wpos) ==
  [bytes |-> bytes, limit |-> limit, opos |-> opos, rpos |-> rpos, wpos |-> wpos]

-----------------------------------------------------------------------------
(* The bytes.                                                              *)

\* A function from 1 .. n is a sequence of length n.
LEMMA FunctionIsSeq ==
  ASSUME NEW S, NEW n \in Nat, NEW f \in [1 .. n -> S]
  PROVE  f \in Seq(S) /\ Len(f) = n /\ DOMAIN f = 1 .. n
<1>1. f \in Seq(S)
  BY SeqDef
<1> QED
  BY <1>1, LenProperties

\* memcpy changes bytes, not their number.
LEMMA OverwriteSeq ==
  ASSUME NEW s \in Seq(Bytes), NEW d \in Seq(Bytes), NEW pos \in Nat
  PROVE  Overwrite(s, pos, d) \in Seq(Bytes) /\ Len(Overwrite(s, pos, d)) = Len(s)
<1> DEFINE f == Overwrite(s, pos, d)
<1>1. /\ Len(s) \in Nat /\ DOMAIN s = 1 .. Len(s)
      /\ Len(d) \in Nat
  BY LenProperties
<1>2. /\ \A i \in 1 .. Len(s) : s[i] \in Bytes
      /\ \A i \in 1 .. Len(d) : d[i] \in Bytes
  BY ElementOfSeq
<1>3. \A i \in DOMAIN s :
        (IF i \in pos + 1 .. pos + Len(d) THEN d[i - pos] ELSE s[i]) \in Bytes
  BY <1>1, <1>2
<1>4. f \in [1 .. Len(s) -> Bytes]
  BY <1>1, <1>3 DEF Overwrite
<1> QED
  BY <1>1, <1>4, FunctionIsSeq

\* resize gives the vector the length asked for.
LEMMA ResizeSeq ==
  ASSUME NEW s \in Seq(Bytes), NEW n \in Nat
  PROVE  Resize(s, n) \in Seq(Bytes) /\ Len(Resize(s, n)) = n
<1>1. Len(s) \in Nat /\ \A i \in 1 .. Len(s) : s[i] \in Bytes
  BY LenProperties, ElementOfSeq
<1>2. \A i \in 1 .. n : (IF i <= Len(s) THEN s[i] ELSE 0) \in Bytes
  BY <1>1, StreamBufferAssumption
<1>3. Resize(s, n) \in [1 .. n -> Bytes]
  BY <1>2 DEF Resize
<1> QED
  BY <1>3, FunctionIsSeq

\* Whatever rotate does, it does it within the vector.
LEMMA RotateSeq ==
  ASSUME NEW s \in Seq(Bytes), NEW m \in Nat, NEW l \in Nat, l <= Len(s),
         NEW r \in Rotate(s, m, l)
  PROVE  r \in Seq(Bytes) /\ Len(r) = Len(s)
<1>1. /\ Len(s) \in Nat /\ DOMAIN s = 1 .. Len(s)
      /\ \A i \in 1 .. Len(s) : s[i] \in Bytes
  BY LenProperties, ElementOfSeq
<1>2. r \in [1 .. Len(s) -> Bytes]
  <2>1. CASE m <= l
    <3>1. r = [i \in 1 .. Len(s) |->
                 IF i > l THEN s[i]
                 ELSE IF i <= l - m THEN s[i + m] ELSE s[i - (l - m)]]
      BY <1>1, <2>1 DEF Rotate
    <3>2. \A i \in 1 .. Len(s) :
            (IF i > l THEN s[i]
             ELSE IF i <= l - m THEN s[i + m] ELSE s[i - (l - m)]) \in Bytes
      BY <1>1, <2>1
    <3> QED
      BY <3>1, <3>2
  <2>2. CASE ~ (m <= l)
    BY <1>1, <2>2 DEF Rotate
  <2> QED
    BY <2>1, <2>2
<1> QED
  BY <1>1, <1>2, FunctionIsSeq

\* A copied range fits into what it is copied to.
LEMMA CopiedBytesSeq ==
  ASSUME NEW c \in Buffer, NEW pos \in Nat, NEW n \in Nat, NEW junk \in Bytes,
         NEW room \in Seq(Bytes)
  PROVE  /\ CopiedBytes(c, pos, n, junk, room) \in Seq(Bytes)
         /\ Len(CopiedBytes(c, pos, n, junk, room)) = Len(room)
<1> DEFINE d == [i \in 1 .. n |-> IF pos + i <= Len(c.bytes) THEN c.bytes[pos + i] ELSE junk]
<1>1. /\ c.bytes \in Seq(Bytes) /\ Len(c.bytes) \in Nat
      /\ \A i \in 1 .. Len(c.bytes) : c.bytes[i] \in Bytes
  <2>1. c.bytes \in Seq(Bytes)
    BY DEF Buffer
  <2> QED
    BY <2>1, LenProperties, ElementOfSeq
<1>2. \A i \in 1 .. n :
        (IF pos + i <= Len(c.bytes) THEN c.bytes[pos + i] ELSE junk) \in Bytes
  BY <1>1
<1>3. d \in [1 .. n -> Bytes]
  BY <1>2
<1>4. d \in Seq(Bytes)
  BY <1>3, FunctionIsSeq
<1> QED
  BY <1>4, OverwriteSeq DEF CopiedBytes

-----------------------------------------------------------------------------
(* The operations on one buffer.                                           *)

\* The members of a sound buffer.
LEMMA SoundMembers ==
  ASSUME NEW b, Sound(b)
  PROVE  /\ b = Made(b.bytes, b.limit, b.opos, b.rpos, b.wpos)
         /\ b.bytes \in Seq(Bytes) /\ Len(b.bytes) \in Nat
         /\ b.limit \in Nat /\ b.opos \in Nat /\ b.rpos \in Nat /\ b.wpos \in Nat
         /\ b.opos <= b.rpos /\ b.rpos <= b.wpos /\ b.wpos <= Len(b.bytes)
         /\ b.limit > 0 => Len(b.bytes) <= b.limit
<1>1. b.bytes \in Seq(Bytes)
  BY DEF Sound, Buffer
<1>2. Len(b.bytes) \in Nat
  BY <1>1, LenProperties
<1>3. b = Made(b.bytes, b.limit, b.opos, b.rpos, b.wpos)
  BY DEF Sound, Buffer, Made
<1> QED
  BY <1>1, <1>2, <1>3 DEF Sound, Buffer

\* A buffer of sound members.
LEMMA MadeSound ==
  ASSUME NEW s \in Seq(Bytes), NEW limit \in Nat, NEW opos \in Nat, NEW rpos \in Nat,
         NEW wpos \in Nat, opos <= rpos, rpos <= wpos, wpos <= Len(s),
         limit > 0 => Len(s) <= limit
  PROVE  Sound(Made(s, limit, opos, rpos, wpos))
<1> DEFINE b == Made(s, limit, opos, rpos, wpos)
<1>1. b \in Buffer
  BY DEF Made, Buffer
<1>2. b.bytes = s /\ b.limit = limit /\ b.opos = opos /\ b.rpos = rpos /\ b.wpos = wpos
  BY DEF Made
<1> HIDE DEF b
<1>3. Sound(b)
  BY <1>1, <1>2 DEF Sound
<1> QED
  BY <1>3 DEF b

\* Reclaim keeps the length of the vector and the distances between positions.
LEMMA ReclaimSound ==
  ASSUME NEW b, Sound(b), NEW c \in Reclaim(b)
  PROVE  /\ Sound(c) /\ c.limit = b.limit /\ c.wpos = b.wpos - b.opos
<1>1. PICK s \in Rotate(b.bytes, b.opos, b.wpos - b.opos) :
        c = [b EXCEPT !.bytes = s, !.wpos = @ - b.opos, !.rpos = @ - b.opos, !.opos = 0]
  BY DEF Reclaim
<1>2. /\ b.wpos - b.opos \in Nat /\ b.rpos - b.opos \in Nat
      /\ b.wpos - b.opos <= Len(b.bytes) /\ b.rpos - b.opos <= b.wpos - b.opos
  BY SoundMembers
<1>3. s \in Seq(Bytes) /\ Len(s) = Len(b.bytes)
  BY <1>1, <1>2, SoundMembers, RotateSeq
<1>4. c = Made(s, b.limit, 0, b.rpos - b.opos, b.wpos - b.opos)
  BY <1>1 DEF Made, Sound, Buffer
<1>5. Sound(c)
  BY <1>2, <1>3, <1>4, SoundMembers, MadeSound
<1> QED
  BY <1>4, <1>5 DEF Made

\* Writable(n), when it succeeds, has made room for n bytes within the limit.
LEMMA ReserveSound ==
  ASSUME NEW b, Sound(b), NEW n \in Nat, NEW c \in Reserve(b, n)
  PROVE  Sound(c) /\ c.wpos + n <= Len(c.bytes)
<1> DEFINE Full == b.limit > 0 /\ b.wpos + n > b.limit
<1>1. CASE n = 0 \/ Space(b) >= n
  <2>1. c = b
    BY <1>1 DEF Reserve
  <2> QED
    BY <1>1, <2>1, SoundMembers DEF Space
<1>2. CASE ~ (n = 0 \/ Space(b) >= n)
  <2>1. /\ ~ (b.limit > 0 /\ b.wpos - b.opos + n > b.limit)
        /\ c \in {[d EXCEPT !.bytes = Resize(@, d.wpos + n)] :
                   d \in IF Full THEN Reclaim(b) ELSE {b}}
    BY <1>2 DEF Reserve
  <2>2. PICK d \in IF Full THEN Reclaim(b) ELSE {b} :
          c = [d EXCEPT !.bytes = Resize(@, d.wpos + n)]
    BY <2>1
  <2>3. Sound(d) /\ (d.limit > 0 => d.wpos + n <= d.limit)
    <3>1. CASE Full
      <4>1. Sound(d) /\ d.limit = b.limit /\ d.wpos = b.wpos - b.opos
        BY <2>2, <3>1, ReclaimSound
      <4>2. b.limit > 0 => b.wpos - b.opos + n <= b.limit
        BY <2>1, SoundMembers
      <4> QED
        BY <4>1, <4>2
    <3>2. CASE ~ Full
      <4>1. d = b
        BY <2>2, <3>2
      <4>2. b.limit > 0 => b.wpos + n <= b.limit
        BY <3>2, SoundMembers
      <4> QED
        BY <4>1, <4>2
    <3> QED
      BY <3>1, <3>2
  <2> HIDE DEF Full
  <2> DEFINE s == Resize(d.bytes, d.wpos + n)
  <2>4. d.wpos + n \in Nat
    BY <2>3, SoundMembers
  <2>5. s \in Seq(Bytes) /\ Len(s) = d.wpos + n
    BY <2>3, <2>4, SoundMembers, ResizeSeq
  <2>6. c = Made(s, d.limit, d.opos, d.rpos, d.wpos)
    BY <2>2, <2>3 DEF Made, Sound, Buffer
  <2> HIDE DEF s
  <2>7. d.wpos <= Len(s) /\ (d.limit > 0 => Len(s) <= d.limit)
    BY <2>3, <2>5, SoundMembers
  <2>8. Sound(c)
    BY <2>3, <2>5, <2>6, <2>7, SoundMembers, MadeSound
  <2>9. c.wpos = d.wpos /\ c.bytes = s
    BY <2>6 DEF Made
  <2> QED
    BY <2>4, <2>5, <2>8, <2>9
<1> QED
  BY <1>1, <1>2

\* Bytes are written into space that is there.
LEMMA WrittenSound ==
  ASSUME NEW b, Sound(b), NEW d \in Seq(Bytes), b.wpos + Len(d) <= Len(b.bytes)
  PROVE  Sound(Written(b, d))
<1> DEFINE s == Overwrite(b.bytes, b.wpos, d)
<1>1. Len(d) \in Nat
  BY LenProperties
<1>2. s \in Seq(Bytes) /\ Len(s) = Len(b.bytes)
  BY SoundMembers, OverwriteSeq
<1>0. b \in Buffer
  BY DEF Sound
<1>1a. Written(b, d) = [b EXCEPT !.bytes = s, !.wpos = @ + Len(d)]
  BY DEF Written
<1> HIDE DEF s
<1>3. Written(b, d) = Made(s, b.limit, b.opos, b.rpos, b.wpos + Len(d))
  BY <1>0, <1>1a DEF Made, Buffer
<1>4. b.wpos + Len(d) \in Nat /\ b.rpos <= b.wpos + Len(d)
  BY <1>1, SoundMembers
<1> QED
  BY <1>2, <1>3, <1>4, SoundMembers, MadeSound

\* Flushing no further than the reading position keeps the order.
LEMMA FlushedSound ==
  ASSUME NEW b, Sound(b), NEW pos \in Nat, pos <= b.rpos
  PROVE  Sound(FlushedTo(b, pos)) /\ Sound(Cleared(b))
<1>0. b \in Buffer
  BY DEF Sound
<1>1. Cleared(b) = Made(b.bytes, b.limit, 0, 0, 0)
  <2>1. Cleared(b) = [b EXCEPT !.opos = 0, !.rpos = 0, !.wpos = 0]
    BY DEF Cleared
  <2> QED
    BY <1>0, <2>1, Zenon DEF Made, Buffer
<1>2. [b EXCEPT !.opos = pos] = Made(b.bytes, b.limit, pos, b.rpos, b.wpos)
  BY DEF Made, Sound, Buffer
<1>3. Sound(Made(b.bytes, b.limit, 0, 0, 0))
  BY SoundMembers, MadeSound
<1>4. Sound(Made(b.bytes, b.limit, pos, b.rpos, b.wpos))
  BY SoundMembers, MadeSound
<1> QED
  BY <1>1, <1>2, <1>3, <1>4 DEF FlushedTo

\* Copies, by construction and by assignment, fit into their limit.
LEMMA CopySound ==
  ASSUME NEW b, NEW c, Sound(b), Sound(c), NEW junk \in Bytes
  PROVE  Sound(CopyOf(c)) /\ Sound(AssignedFrom(b, c, junk))
<1>1. Size(c) \in Nat /\ c.wpos - c.opos \in Nat /\ c.wpos - c.opos <= Size(c)
  BY SoundMembers DEF Size
<1>2. <<>> \in Seq(Bytes) /\ 0 \in Bytes
  BY EmptySeq, StreamBufferAssumption
<1>3. ASSUME NEW room \in Seq(Bytes), NEW pos \in Nat, NEW j \in Bytes,
             NEW rpos \in Nat, rpos <= c.wpos - c.opos
      PROVE  Sound(Made(CopiedBytes(c, pos, c.wpos - c.opos, j, Resize(room, Size(c))),
                        c.limit, 0, rpos, c.wpos - c.opos))
  <2> DEFINE new == CopiedBytes(c, pos, c.wpos - c.opos, j, Resize(room, Size(c)))
  <2>1. Resize(room, Size(c)) \in Seq(Bytes) /\ Len(Resize(room, Size(c))) = Size(c)
    BY <1>1, ResizeSeq
  <2>2. c \in Buffer
    BY DEF Sound
  <2>3. new \in Seq(Bytes) /\ Len(new) = Size(c)
    <3>1. PICK n \in Nat, r \in Seq(Bytes) :
            n = c.wpos - c.opos /\ r = Resize(room, Size(c)) /\ Len(r) = Size(c)
      BY <1>1, <2>1, Zenon
    <3>2. CopiedBytes(c, pos, n, j, r) \in Seq(Bytes) /\ Len(CopiedBytes(c, pos, n, j, r)) = Len(r)
      BY <2>2, CopiedBytesSeq, ZenonT(60)
    <3> QED
      BY <3>1, <3>2
  <2>4. c.limit \in Nat /\ (c.limit > 0 => Size(c) <= c.limit)
    BY SoundMembers DEF Size
  <2> HIDE DEF new
  <2>5. Sound(Made(new, c.limit, 0, rpos, c.wpos - c.opos))
    BY <1>1, <1>3, <2>3, <2>4, MadeSound
  <2> QED
    BY <2>5 DEF new
<1>4. CopyOf(c) = Made(CopiedBytes(c, c.opos, c.wpos - c.opos, 0, Resize(<<>>, Size(c))),
                       c.limit, 0, 0, c.wpos - c.opos)
  BY DEF CopyOf, Made
<1>5. Sound(CopyOf(c))
  <2>1. c.opos \in Nat /\ 0 \in Nat /\ 0 <= c.wpos - c.opos
    BY <1>1, SoundMembers
  <2> QED
    BY <1>2, <1>3, <1>4, <2>1
<1>6. AssignedFrom(b, c, junk) =
        Made(CopiedBytes(c, b.opos, c.wpos - c.opos, junk, Resize(b.bytes, Size(c))),
             c.limit, 0, c.rpos - c.opos, c.wpos - c.opos)
  BY DEF AssignedFrom, Made
<1>7. c.rpos - c.opos \in Nat /\ c.rpos - c.opos <= c.wpos - c.opos
  BY SoundMembers
<1>8. b.opos \in Nat /\ b.bytes \in Seq(Bytes)
  BY SoundMembers
<1> QED
  BY <1>3, <1>5, <1>6, <1>7, <1>8

-----------------------------------------------------------------------------
(* The invariant.                                                          *)

LEMMA InvInit == Init => IInv
<1> SUFFICES ASSUME Init PROVE IInv
  OBVIOUS
<1>1. ASSUME NEW d \in Seq(Bytes), Len(d) <= InitSize
      PROVE  Sound([bytes |-> Overwrite(Resize(<<>>, InitSize), 0, d), limit |-> Limit,
                    opos |-> 0, rpos |-> 0, wpos |-> Len(d)])
  <2> DEFINE new == Overwrite(Resize(<<>>, InitSize), 0, d)
  <2>1. Resize(<<>>, InitSize) \in Seq(Bytes) /\ Len(Resize(<<>>, InitSize)) = InitSize
    BY EmptySeq, ResizeSeq, StreamBufferAssumption
  <2>2. new \in Seq(Bytes) /\ Len(new) = InitSize
    BY <2>1, OverwriteSeq
  <2>3. Len(d) \in Nat
    BY LenProperties
  <2>4. /\ Limit \in Nat /\ InitSize \in Nat /\ Len(d) <= Len(new)
        /\ Limit > 0 => Len(new) <= Limit
    BY <1>1, <2>2, StreamBufferAssumption
  <2> HIDE DEF new
  <2>5. Sound(Made(new, Limit, 0, 0, Len(d)))
    BY <2>2, <2>3, <2>4, MadeSound
  <2> QED
    BY <2>5 DEF Made, new
<1>2. \A d \in Chunk \union {<<>>} : d \in Seq(Bytes)
  BY EmptySeq, StreamBufferAssumption
<1>3. \A b \in Buffers : Sound(buf[b])
  BY <1>1, <1>2 DEF Init
<1>4. buf \in [Buffers -> Buffer]
  <2>1. buf = [b \in Buffers |-> buf[b]]
    BY DEF Init
  <2>2. \A b \in Buffers : buf[b] \in Buffer
    BY <1>3 DEF Sound
  <2> QED
    BY <2>1, <2>2
<1> QED
  BY <1>3, <1>4 DEF IInv

\* A step that gives one buffer a sound value keeps the invariant.
LEMMA OneBuffer ==
  ASSUME IInv, NEW b \in Buffers, NEW c, Sound(c), buf' = [buf EXCEPT ![b] = c]
  PROVE  IInv'
  BY DEF IInv, Sound

LEMMA InvStep ==
  ASSUME FlushUnread = FALSE, IInv, [Next]_buf
  PROVE  IInv'
<1>1. \A b \in Buffers : Sound(buf[b])
  BY DEF IInv
<1>2. Chunk \subseteq Seq(Bytes)
  BY StreamBufferAssumption
<1>3. CASE UNCHANGED buf
  BY <1>3 DEF IInv
<1>4. ASSUME NEW b \in Buffers, Read(b) PROVE IInv'
  <2>1. PICK n \in 1 .. Readable(buf[b]) : buf' = [buf EXCEPT ![b].rpos = @ + n]
    BY <1>4 DEF Read
  <2> DEFINE d == buf[b]
  <2>2. Sound(d)
    BY <1>1
  <2>3. [d EXCEPT !.rpos = @ + n] = Made(d.bytes, d.limit, d.opos, d.rpos + n, d.wpos)
    BY <2>2 DEF Made, Sound, Buffer
  <2>4. buf' = [buf EXCEPT ![b] = [d EXCEPT !.rpos = @ + n]]
    BY <2>1
  <2>5. n \in Nat /\ n <= d.wpos - d.rpos
    BY <2>1, <2>2, SoundMembers DEF Readable
  <2> HIDE DEF d
  <2>6. d.rpos + n \in Nat /\ d.opos <= d.rpos + n /\ d.rpos + n <= d.wpos
    BY <2>2, <2>5, SoundMembers
  <2>7. Sound(Made(d.bytes, d.limit, d.opos, d.rpos + n, d.wpos))
    BY <2>2, <2>6, SoundMembers, MadeSound
  <2> QED
    BY <2>3, <2>4, <2>7, OneBuffer
<1>5. ASSUME NEW b \in Buffers, FlushRead(b) \/ Flush(b) \/ Clear(b) PROVE IInv'
  <2>1. /\ Sound(buf[b]) /\ buf[b].rpos \in Nat /\ buf[b].opos \in Nat
        /\ 0 <= buf[b].rpos
    BY <1>1 DEF Sound, Buffer
  <2>2. Sound(Cleared(buf[b])) /\ Sound(FlushedTo(buf[b], buf[b].rpos))
    BY <2>1, FlushedSound
  <2>3. CASE FlushRead(b) \/ Clear(b)
    BY <2>2, <2>3, OneBuffer DEF FlushRead, Clear
  <2>4. CASE Flush(b)
    <3>1. PICK n \in 1 .. buf[b].wpos - buf[b].opos :
            /\ buf[b].opos + n <= buf[b].rpos
            /\ buf' = [buf EXCEPT ![b] = FlushedTo(@, @.opos + n)]
      BY <2>4 DEF Flush
    <3>2. Sound(FlushedTo(buf[b], buf[b].opos + n))
      BY <2>1, <3>1, FlushedSound
    <3> QED
      BY <3>1, <3>2, OneBuffer
  <2> QED
    BY <1>5, <2>3, <2>4
<1>6. ASSUME NEW b \in Buffers, NEW n \in 1 .. MaxSize, Writable(b, n) PROVE IInv'
  <2>1. PICK c \in Reserve(buf[b], n) : buf' = [buf EXCEPT ![b] = c]
    BY <1>6 DEF Writable
  <2>2. Sound(c)
    BY <1>1, <2>1, ReserveSound
  <2> QED
    BY <2>1, <2>2, OneBuffer
<1>7. ASSUME NEW b \in Buffers, NEW d \in Chunk, Write(b, d) PROVE IInv'
  <2>1. PICK c \in Reserve(buf[b], Len(d)) : buf' = [buf EXCEPT ![b] = Written(c, d)]
    BY <1>7 DEF Write
  <2>2. d \in Seq(Bytes) /\ Len(d) \in Nat
    BY <1>2, LenProperties
  <2>3. Sound(c) /\ c.wpos + Len(d) <= Len(c.bytes)
    BY <1>1, <2>1, <2>2, ReserveSound
  <2>4. Sound(Written(c, d))
    BY <2>2, <2>3, WrittenSound
  <2> QED
    BY <2>1, <2>4, OneBuffer
<1>8. ASSUME NEW b \in Buffers, NEW d \in Chunk, Update(b, d) PROVE IInv'
  <2>1. PICK off \in 0 .. buf[b].wpos - buf[b].opos - Len(d) :
          buf' = [buf EXCEPT ![b].bytes = Overwrite(@, buf[b].opos + off, d)]
    BY <1>8 DEF Update
  <2>2. d \in Seq(Bytes) /\ buf[b].bytes \in Seq(Bytes) /\ buf[b].opos + off \in Nat
    BY <1>1, <1>2, <2>1 DEF Sound, Buffer
  <2> DEFINE new == Overwrite(buf[b].bytes, buf[b].opos + off, d)
  <2>3. new \in Seq(Bytes) /\ Len(new) = Len(buf[b].bytes)
    BY <2>2, OverwriteSeq
  <2>4. buf' = [buf EXCEPT ![b] = [buf[b] EXCEPT !.bytes = new]]
    BY <2>1
  <2> HIDE DEF new
  <2>5. Sound([buf[b] EXCEPT !.bytes = new])
    BY <1>1, <2>3 DEF Sound, Buffer
  <2> QED
    BY <2>4, <2>5, OneBuffer
<1>9. ASSUME NEW b \in Buffers, NEW c \in Buffers, Copy(b, c) \/ Assign(b, c)
      PROVE  IInv'
  <2>1. CASE Copy(b, c)
    BY <1>1, <2>1, CopySound, OneBuffer, StreamBufferAssumption DEF Copy
  <2>2. CASE Assign(b, c)
    BY <1>1, <2>2, CopySound, OneBuffer DEF Assign
  <2> QED
    BY <1>9, <2>1, <2>2
<1>10. ASSUME NEW b \in Buffers, NEW c \in Buffers, Swap(b, c) PROVE IInv'
  BY <1>1, <1>10 DEF Swap, IInv
<1> QED
  BY <1>3, <1>4, <1>5, <1>6, <1>7, <1>8, <1>9, <1>10 DEF Next

LEMMA Inductive == ASSUME FlushUnread = FALSE PROVE Spec => []IInv
<1>1. IInv /\ [Next]_buf => IInv'
  BY InvStep
<1> QED
  BY <1>1, InvInit, PTL DEF Spec

\* As long as only bytes that were read are flushed no position is ever negative, so
\* none of the unsigned numbers wraps around.
THEOREM TypeCorrect == ASSUME FlushUnread = FALSE PROVE Spec => []TypeOK
<1>1. IInv => TypeOK
  BY DEF IInv, TypeOK, Sound
<1> QED
  BY <1>1, Inductive, PTL

\* As long as only bytes that were read are flushed, which StreamBuffer.hpp:108-114
\* does not ask for, the origin, the reading position, the writing position and the
\* end of the vector keep their order through every write, Reclaim, flush and copy.
THEOREM PositionsKeepOrder ==
  ASSUME FlushUnread = FALSE PROVE Spec => []PositionsInOrder
<1>1. IInv => PositionsInOrder
  <2> SUFFICES ASSUME IInv, NEW b \in Buffers
               PROVE  /\ 0 <= buf[b].opos /\ buf[b].opos <= buf[b].rpos
                      /\ buf[b].rpos <= buf[b].wpos /\ buf[b].wpos <= Len(buf[b].bytes)
    BY DEF PositionsInOrder
  <2>1. Sound(buf[b])
    BY DEF IInv
  <2> QED
    BY <2>1, SoundMembers
<1> QED
  BY <1>1, Inductive, PTL

\* A buffer with a limit never occupies more memory than that, flushed bytes
\* included.
THEOREM LimitIsRespected ==
  ASSUME FlushUnread = FALSE PROVE Spec => []LimitRespected
<1>1. IInv => LimitRespected
  BY DEF IInv, LimitRespected, Sound
<1> QED
  BY <1>1, Inductive, PTL

-----------------------------------------------------------------------------
(* Buffers without a limit implement the stream of bytes: Reclaim is called *)
(* for a limit only, so that no step moves the accessible bytes.  With a    *)
(* limit they are moved, and the range that Reclaim rotates is too short.   *)

\* The accessible bytes lie between the origin and the writing position.
LEMMA AccessibleSeq ==
  ASSUME NEW b, Sound(b)
  PROVE  /\ Accessible(b) \in Seq(Bytes)
         /\ Len(Accessible(b)) = b.wpos - b.opos
         /\ \A i \in 1 .. b.wpos - b.opos : Accessible(b)[i] = b.bytes[b.opos + i]
<1>1. \A i \in b.opos + 1 .. b.wpos : b.bytes[i] \in Bytes
  BY SoundMembers, ElementOfSeq
<1>2. b.opos + 1 \in Int /\ b.wpos \in Int /\ b.opos \in Nat /\ b.opos <= b.wpos
  BY SoundMembers
<1> QED
  BY <1>1, <1>2, SubSeqProperties DEF Accessible

\* What the accessible bytes are, byte by byte.
LEMMA AccessibleIs ==
  ASSUME NEW b, Sound(b), NEW s \in Seq(Bytes), Len(s) = b.wpos - b.opos,
         \A i \in 1 .. Len(s) : b.bytes[b.opos + i] = s[i]
  PROVE  Accessible(b) = s
  BY AccessibleSeq, SeqEqual

\* Making room in a buffer without a limit leaves the bytes where they are.
LEMMA ReserveAccessible ==
  ASSUME NEW b, Sound(b), b.limit = 0, NEW n \in Nat, NEW c \in Reserve(b, n)
  PROVE  /\ Accessible(c) = Accessible(b)
         /\ c.limit = 0 /\ c.opos = b.opos /\ c.rpos = b.rpos /\ c.wpos = b.wpos
<1>1. CASE c = b
  BY <1>1
<1>2. CASE c # b
  <2>1. c = [b EXCEPT !.bytes = Resize(@, b.wpos + n)]
    BY <1>2 DEF Reserve
  <2>2. c = Made(Resize(b.bytes, b.wpos + n), 0, b.opos, b.rpos, b.wpos)
    BY <2>1 DEF Made, Sound, Buffer
  <2>3. /\ c.limit = 0 /\ c.opos = b.opos /\ c.rpos = b.rpos /\ c.wpos = b.wpos
        /\ c.bytes = Resize(b.bytes, b.wpos + n)
    BY <2>2 DEF Made
  <2>4. \A i \in 1 .. b.wpos - b.opos : c.bytes[c.opos + i] = b.bytes[b.opos + i]
    BY <2>3, SoundMembers DEF Resize
  <2>5. Sound(c)
    BY ReserveSound
  <2>6. Accessible(c) = Accessible(b)
    BY <2>3, <2>4, <2>5, AccessibleSeq, AccessibleIs
  <2> QED
    BY <2>3, <2>6
<1> QED
  BY <1>1, <1>2

\* Written bytes follow those that were accessible.
LEMMA WrittenAccessible ==
  ASSUME NEW b, Sound(b), NEW d \in Seq(Bytes), b.wpos + Len(d) <= Len(b.bytes)
  PROVE  /\ Accessible(Written(b, d)) = Accessible(b) \o d
         /\ Written(b, d).limit = b.limit
         /\ Written(b, d).rpos = b.rpos /\ Written(b, d).opos = b.opos
<1> DEFINE c == Written(b, d)
           s == Accessible(b) \o d
<1>1. /\ c.bytes = Overwrite(b.bytes, b.wpos, d) /\ c.limit = b.limit
      /\ c.opos = b.opos /\ c.rpos = b.rpos /\ c.wpos = b.wpos + Len(d)
  BY DEF Written, Sound, Buffer
<1>2. Sound(c)
  BY WrittenSound
<1>3. /\ Len(d) \in Nat
      /\ s \in Seq(Bytes) /\ Len(s) = b.wpos - b.opos + Len(d)
      /\ \A i \in 1 .. Len(s) :
           s[i] = IF i <= b.wpos - b.opos THEN b.bytes[b.opos + i] ELSE d[i - (b.wpos - b.opos)]
  <2>1. /\ Accessible(b) \in Seq(Bytes) /\ Len(Accessible(b)) = b.wpos - b.opos
        /\ \A i \in 1 .. b.wpos - b.opos : Accessible(b)[i] = b.bytes[b.opos + i]
    BY AccessibleSeq
  <2>2. Len(d) \in Nat /\ b.wpos - b.opos \in Nat
    BY LenProperties, SoundMembers
  <2> HIDE DEF s
  <2>3. /\ s \in Seq(Bytes) /\ Len(s) = Len(Accessible(b)) + Len(d)
        /\ \A i \in 1 .. Len(Accessible(b)) + Len(d) :
             s[i] = IF i <= Len(Accessible(b)) THEN Accessible(b)[i]
                                               ELSE d[i - Len(Accessible(b))]
    BY <2>1, ConcatProperties DEF s
  <2> QED
    BY <2>1, <2>2, <2>3
<1>4. \A i \in 1 .. Len(b.bytes) :
        c.bytes[i] = IF i \in b.wpos + 1 .. b.wpos + Len(d) THEN d[i - b.wpos] ELSE b.bytes[i]
  BY <1>1, SoundMembers, LenProperties DEF Overwrite
<1> HIDE DEF c, s
<1>5. \A i \in 1 .. Len(s) : c.bytes[c.opos + i] = s[i]
  <2> SUFFICES ASSUME NEW i \in 1 .. Len(s) PROVE c.bytes[c.opos + i] = s[i]
    OBVIOUS
  <2>1. /\ b.opos \in Nat /\ b.wpos \in Nat /\ b.opos <= b.wpos /\ Len(b.bytes) \in Nat
    BY SoundMembers
  <2>2. b.opos + i \in 1 .. Len(b.bytes) /\ c.opos = b.opos
    BY <1>1, <1>3, <2>1
  <2>3. CASE i <= b.wpos - b.opos
    <3>1. s[i] = b.bytes[b.opos + i]
      BY <1>3, <2>3
    <3>2. b.opos + i \notin b.wpos + 1 .. b.wpos + Len(d)
      BY <1>3, <2>1, <2>3
    <3> QED
      BY <1>4, <2>2, <3>1, <3>2
  <2>4. CASE ~ (i <= b.wpos - b.opos)
    <3>1. s[i] = d[i - (b.wpos - b.opos)]
      BY <1>3, <2>4
    <3>2. b.opos + i \in b.wpos + 1 .. b.wpos + Len(d)
      BY <1>3, <2>1, <2>4
    <3>3. c.bytes[b.opos + i] = d[(b.opos + i) - b.wpos]
      BY <1>4, <2>2, <3>2
    <3>4. (b.opos + i) - b.wpos = i - (b.wpos - b.opos)
      BY <1>3, <2>1
    <3> QED
      BY <2>2, <3>1, <3>3, <3>4
  <2> QED
    BY <2>3, <2>4
<1>6. Len(s) = c.wpos - c.opos
  BY <1>1, <1>3, SoundMembers
<1>7. Accessible(c) = s
  BY <1>2, <1>3, <1>5, <1>6, AccessibleIs
<1> QED
  BY <1>1, <1>7 DEF c, s

\* Flushing up to a position takes the bytes before it off the front, and the
\* reading position keeps its distance.
LEMMA FlushedAccessible ==
  ASSUME NEW b, Sound(b), NEW pos \in Nat, b.opos <= pos, pos <= b.rpos
  PROVE  LET s == Accessible(b)
             c == FlushedTo(b, pos)
         IN  /\ Accessible(c) = SubSeq(s, pos - b.opos + 1, Len(s))
             /\ c.rpos - c.opos = (b.rpos - b.opos) - (pos - b.opos)
             /\ c.limit = b.limit
<1> DEFINE s == Accessible(b)
           c == FlushedTo(b, pos)
<1>1. /\ b.opos \in Nat /\ b.rpos \in Nat /\ b.wpos \in Nat /\ b.rpos <= b.wpos
      /\ Len(b.bytes) \in Nat /\ b.wpos <= Len(b.bytes)
  BY SoundMembers
<1>2. /\ s \in Seq(Bytes) /\ Len(s) = b.wpos - b.opos
      /\ \A i \in 1 .. b.wpos - b.opos : s[i] = b.bytes[b.opos + i]
  BY AccessibleSeq
<1>3. CASE pos = b.wpos
  <2>1. c.opos = 0 /\ c.rpos = 0 /\ c.wpos = 0 /\ c.limit = b.limit
    BY <1>3 DEF FlushedTo, Cleared, Sound, Buffer
  <2>2. Accessible(c) = <<>>
    BY <2>1, SubSeqEmpty DEF Accessible
  <2> HIDE DEF s, c
  <2>3. SubSeq(s, pos - b.opos + 1, Len(s)) = <<>>
    BY <1>1, <1>2, <1>3, SubSeqEmpty
  <2>4. c.rpos - c.opos = (b.rpos - b.opos) - (pos - b.opos)
    BY <1>1, <1>3, <2>1
  <2> QED
    BY <2>1, <2>2, <2>3, <2>4 DEF s, c
<1>4. CASE pos # b.wpos
  <2>1. c = [b EXCEPT !.opos = pos]
    BY <1>4 DEF FlushedTo
  <2>2. /\ c.bytes = b.bytes /\ c.opos = pos /\ c.rpos = b.rpos /\ c.wpos = b.wpos
        /\ c.limit = b.limit
    BY <2>1 DEF Sound, Buffer
  <2>3. Sound(c)
    BY FlushedSound
  <2> HIDE DEF s, c
  <2> DEFINE t == SubSeq(s, pos - b.opos + 1, Len(s))
  <2>4. /\ pos - b.opos + 1 \in Int /\ Len(s) \in Int
        /\ pos - b.opos + 1 <= Len(s)
        /\ \A i \in pos - b.opos + 1 .. Len(s) : s[i] \in Bytes
    <3>1. pos - b.opos + 1 \in Int /\ Len(s) \in Int /\ pos - b.opos + 1 >= 1
      BY <1>1, <1>2
    <3>2. \A i \in 1 .. Len(s) : s[i] \in Bytes
      BY <1>2, ElementOfSeq
    <3> QED
      BY <1>1, <1>2, <1>4, <3>1, <3>2
  <2>5. /\ t \in Seq(Bytes) /\ Len(t) = b.wpos - pos
        /\ \A i \in 1 .. Len(t) : t[i] = s[(pos - b.opos + 1) + i - 1]
    <3>1. /\ t \in Seq(Bytes)
          /\ Len(t) = Len(s) - (pos - b.opos + 1) + 1
          /\ \A i \in 1 .. Len(s) - (pos - b.opos + 1) + 1 :
               t[i] = s[(pos - b.opos + 1) + i - 1]
      BY <2>4, SubSeqProperties
    <3>2. Len(s) - (pos - b.opos + 1) + 1 = b.wpos - pos
      BY <1>1, <1>2
    <3> QED
      BY <3>1, <3>2
  <2> HIDE DEF t
  <2>6. \A i \in 1 .. Len(t) : c.bytes[c.opos + i] = t[i]
    <3> SUFFICES ASSUME NEW i \in 1 .. Len(t) PROVE c.bytes[c.opos + i] = t[i]
      OBVIOUS
    <3>1. (pos - b.opos + 1) + i - 1 = pos - b.opos + i
      BY <1>1, <2>5
    <3>2. pos - b.opos + i \in 1 .. b.wpos - b.opos
      <4>1. i \in 1 .. b.wpos - pos
        BY <2>5
      <4> QED
        BY <1>1, <4>1
    <3>3. t[i] = b.bytes[b.opos + (pos - b.opos + i)]
      BY <1>2, <2>5, <3>1, <3>2
    <3>4. b.opos + (pos - b.opos + i) = pos + i
      BY <1>1, <2>5
    <3> QED
      BY <2>2, <3>3, <3>4
  <2>7. Accessible(c) = t
    BY <2>2, <2>3, <2>5, <2>6, AccessibleIs
  <2>8. c.rpos - c.opos = (b.rpos - b.opos) - (pos - b.opos)
    BY <1>1, <2>2
  <2> QED
    BY <2>2, <2>7, <2>8 DEF s, c, t
<1> QED
  BY <1>3, <1>4

\* A copy of a buffer holds the accessible bytes and is read from their start.
LEMMA CopyAccessible ==
  ASSUME NEW c, Sound(c)
  PROVE  /\ Accessible(CopyOf(c)) = Accessible(c)
         /\ CopyOf(c).rpos = 0 /\ CopyOf(c).opos = 0 /\ CopyOf(c).limit = c.limit
<1>1. PICK n \in Nat : n = c.wpos - c.opos
  BY SoundMembers
<1>2. /\ c.opos \in Nat /\ c.wpos \in Nat /\ c.opos + n = c.wpos
      /\ Len(c.bytes) \in Nat /\ c.wpos <= Len(c.bytes)
      /\ Size(c) \in Nat /\ n <= Size(c)
  BY <1>1, SoundMembers DEF Size
<1>3. PICK room : room = Resize(<<>>, Size(c))
  OBVIOUS
<1>4. room \in Seq(Bytes) /\ Len(room) = Size(c)
  BY <1>2, <1>3, EmptySeq, ResizeSeq
<1> DEFINE d == [i \in 1 .. n |-> IF c.opos + i <= Len(c.bytes) THEN c.bytes[c.opos + i] ELSE 0]
<1>5. d \in Seq(Bytes) /\ Len(d) = n /\ \A i \in 1 .. n : d[i] = c.bytes[c.opos + i]
  <2>1. \A i \in 1 .. n : c.opos + i \in 1 .. Len(c.bytes)
    BY <1>2
  <2>2. \A i \in 1 .. n : d[i] = c.bytes[c.opos + i]
    BY <2>1
  <2>3. \A i \in 1 .. n : c.bytes[c.opos + i] \in Bytes
    BY <2>1, SoundMembers, ElementOfSeq
  <2>4. d \in [1 .. n -> Bytes]
    BY <2>2, <2>3
  <2> QED
    BY <2>2, <2>4, FunctionIsSeq
<1>6. CopyOf(c).bytes = Overwrite(room, 0, d)
  BY <1>1, <1>3 DEF CopyOf, CopiedBytes
<1> HIDE DEF d
<1>7. /\ CopyOf(c).rpos = 0 /\ CopyOf(c).opos = 0 /\ CopyOf(c).limit = c.limit
      /\ CopyOf(c).wpos = n
  BY <1>1 DEF CopyOf
<1>8. \A i \in 1 .. n : Overwrite(room, 0, d)[i] = d[i]
  <2>1. \A i \in 1 .. n : i \in DOMAIN room /\ i \in 0 + 1 .. 0 + Len(d) /\ i - 0 = i
    BY <1>2, <1>4, <1>5, LenProperties
  <2> QED
    BY <2>1 DEF Overwrite
<1>9. Sound(CopyOf(c))
  BY CopySound, StreamBufferAssumption
<1>10. Accessible(CopyOf(c)) = d
  <2>1. \A i \in 1 .. Len(d) : CopyOf(c).bytes[CopyOf(c).opos + i] = d[i]
    BY <1>5, <1>6, <1>7, <1>8
  <2> QED
    BY <1>5, <1>7, <1>9, <2>1, AccessibleIs
<1>11. Accessible(c) = d
  BY <1>1, <1>5, AccessibleIs
<1> QED
  BY <1>7, <1>10, <1>11

\* What the stream sees of the buffers.
Data == [b \in Buffers |-> Accessible(buf[b])]
Position == [b \in Buffers |-> buf[b].rpos - buf[b].opos]

StreamInv == IInv /\ \A b \in Buffers : buf[b].limit = 0

\* A step that changes one buffer changes one stream.
LEMMA OneStream ==
  ASSUME IInv, NEW b \in Buffers, NEW c, buf' = [buf EXCEPT ![b] = c]
  PROVE  /\ Data' = [Data EXCEPT ![b] = Accessible(c)]
         /\ Position' = [Position EXCEPT ![b] = c.rpos - c.opos]
<1>1. DOMAIN buf = Buffers
  BY DEF IInv
<1>2. \A a \in Buffers : buf'[a] = IF a = b THEN c ELSE buf[a]
  BY <1>1
<1>3. /\ Data' = [a \in Buffers |-> Accessible(buf'[a])]
      /\ Position' = [a \in Buffers |-> buf'[a].rpos - buf'[a].opos]
  BY DEF Data, Position, Accessible
<1>4. /\ [Data EXCEPT ![b] = Accessible(c)] =
           [a \in Buffers |-> IF a = b THEN Accessible(c) ELSE Accessible(buf[a])]
      /\ [Position EXCEPT ![b] = c.rpos - c.opos] =
           [a \in Buffers |-> IF a = b THEN c.rpos - c.opos ELSE buf[a].rpos - buf[a].opos]
  BY DEF Data, Position
<1>5. /\ \A a \in Buffers : Accessible(buf'[a]) = IF a = b THEN Accessible(c) ELSE Accessible(buf[a])
      /\ \A a \in Buffers : buf'[a].rpos - buf'[a].opos =
           IF a = b THEN c.rpos - c.opos ELSE buf[a].rpos - buf[a].opos
  BY <1>2
<1> QED
  BY <1>3, <1>4, <1>5

\* The stream of one buffer.
LEMMA OfBuffer ==
  ASSUME NEW b \in Buffers
  PROVE  Data[b] = Accessible(buf[b]) /\ Position[b] = buf[b].rpos - buf[b].opos
  BY DEF Data, Position

\* One that gives it a value without a limit, which shows the same bytes from
\* the same position, is no step of the stream.
LEMMA OneStutter ==
  ASSUME StreamInv, NEW b \in Buffers, NEW c, buf' = [buf EXCEPT ![b] = c],
         Accessible(c) = Accessible(buf[b]), c.rpos = buf[b].rpos, c.opos = buf[b].opos
  PROVE  UNCHANGED <<Data, Position>>
<1>0. IInv
  BY DEF StreamInv
<1>0a. /\ Data' = [Data EXCEPT ![b] = Accessible(c)]
       /\ Position' = [Position EXCEPT ![b] = c.rpos - c.opos]
  BY <1>0, OneStream, Zenon
<1>1. /\ Data' = [Data EXCEPT ![b] = Data[b]]
      /\ Position' = [Position EXCEPT ![b] = Position[b]]
  BY <1>0a, OfBuffer
<1> QED
  BY <1>1 DEF Data, Position

\* No operation gives a limit to buffers that have none.
LEMMA LimitStep ==
  ASSUME StreamInv, FlushUnread = FALSE, Assignments = FALSE, [Next]_buf
  PROVE  \A b \in Buffers : buf'[b].limit = 0
<1>1. \A b \in Buffers : Sound(buf[b]) /\ buf[b] \in Buffer /\ buf[b].limit = 0
  BY DEF StreamInv, IInv
<1>2. ASSUME NEW b \in Buffers, NEW c, c.limit = 0, buf' = [buf EXCEPT ![b] = c]
      PROVE  \A a \in Buffers : buf'[a].limit = 0
  BY <1>1, <1>2 DEF StreamInv, IInv
<1>3. CASE UNCHANGED buf
  BY <1>1, <1>3
<1>4. ASSUME NEW b \in Buffers, Read(b) PROVE \A a \in Buffers : buf'[a].limit = 0
  <2>1. PICK n \in 1 .. Readable(buf[b]) : buf' = [buf EXCEPT ![b].rpos = @ + n]
    BY <1>4 DEF Read
  <2>2. buf' = [buf EXCEPT ![b] = [buf[b] EXCEPT !.rpos = @ + n]]
    BY <2>1
  <2>3. [buf[b] EXCEPT !.rpos = @ + n].limit = 0
    BY <1>1 DEF Buffer
  <2> QED
    BY <1>2, <2>2, <2>3
<1>5. ASSUME NEW b \in Buffers, FlushRead(b) \/ Flush(b) \/ Clear(b)
      PROVE  \A a \in Buffers : buf'[a].limit = 0
  <2>1. ASSUME NEW pos PROVE FlushedTo(buf[b], pos).limit = 0 /\ Cleared(buf[b]).limit = 0
    BY <1>1 DEF FlushedTo, Cleared, Buffer
  <2> QED
    BY <1>2, <1>5, <2>1 DEF FlushRead, Flush, Clear
<1>6. ASSUME NEW b \in Buffers, NEW n \in 1 .. MaxSize, Writable(b, n)
      PROVE  \A a \in Buffers : buf'[a].limit = 0
  BY <1>1, <1>2, <1>6, ReserveAccessible DEF Writable
<1>7. ASSUME NEW b \in Buffers, NEW d \in Chunk, Write(b, d)
      PROVE  \A a \in Buffers : buf'[a].limit = 0
  <2>1. PICK c \in Reserve(buf[b], Len(d)) : buf' = [buf EXCEPT ![b] = Written(c, d)]
    BY <1>7 DEF Write
  <2>2. d \in Seq(Bytes) /\ Len(d) \in Nat
    BY StreamBufferAssumption, LenProperties
  <2>3. Sound(c) /\ c.wpos + Len(d) <= Len(c.bytes) /\ c.limit = 0
    BY <1>1, <2>1, <2>2, ReserveSound, ReserveAccessible
  <2>4. Written(c, d).limit = 0
    BY <2>2, <2>3, WrittenAccessible
  <2> QED
    BY <1>2, <2>1, <2>4
<1>8. ASSUME NEW b \in Buffers, NEW d \in Chunk, Update(b, d)
      PROVE  \A a \in Buffers : buf'[a].limit = 0
  BY <1>1, <1>8 DEF Update, StreamInv, IInv, Buffer
<1>9. ASSUME NEW b \in Buffers, NEW c \in Buffers, Copy(b, c)
      PROVE  \A a \in Buffers : buf'[a].limit = 0
  BY <1>1, <1>2, <1>9, CopyAccessible DEF Copy
<1>10. ASSUME NEW b \in Buffers, NEW c \in Buffers, Swap(b, c)
       PROVE  \A a \in Buffers : buf'[a].limit = 0
  BY <1>1, <1>10 DEF Swap, StreamInv, IInv
<1> QED
  BY <1>3, <1>4, <1>5, <1>6, <1>7, <1>8, <1>9, <1>10 DEF Next, Assign

\* Writing appends to the stream, whatever room is made for it.
LEMMA WriteStep ==
  ASSUME StreamInv, NEW b \in Buffers, NEW d \in Chunk, Write(b, d)
  PROVE  Stream!Write(b, d)
<1>1. PICK c \in Reserve(buf[b], Len(d)) : buf' = [buf EXCEPT ![b] = Written(c, d)]
  BY DEF Write
<1>2. d \in Seq(Bytes) /\ Len(d) \in Nat
  BY StreamBufferAssumption, LenProperties
<1>3. Sound(buf[b]) /\ buf[b].limit = 0
  BY DEF StreamInv, IInv
<1>4. /\ Sound(c) /\ c.wpos + Len(d) <= Len(c.bytes)
      /\ Accessible(c) = Accessible(buf[b])
      /\ c.opos = buf[b].opos /\ c.rpos = buf[b].rpos
  BY <1>1, <1>2, <1>3, ReserveSound, ReserveAccessible
<1>5. PICK w : w = Written(c, d)
  OBVIOUS
<1>6. /\ Accessible(w) = Accessible(buf[b]) \o d
      /\ w.rpos = buf[b].rpos /\ w.opos = buf[b].opos
  BY <1>2, <1>4, <1>5, WrittenAccessible
<1>7. /\ Data' = [Data EXCEPT ![b] = Data[b] \o d]
      /\ Position' = [Position EXCEPT ![b] = Position[b]]
  <2>1. IInv /\ buf' = [buf EXCEPT ![b] = w]
    BY <1>1, <1>5 DEF StreamInv
  <2>2. /\ Data' = [Data EXCEPT ![b] = Accessible(w)]
        /\ Position' = [Position EXCEPT ![b] = w.rpos - w.opos]
    BY <2>1, OneStream, Zenon
  <2> QED
    BY <1>6, <2>2, OfBuffer
<1>8. Position' = Position
  BY <1>7 DEF Position
<1> QED
  BY <1>7, <1>8 DEF Stream!Write, Data, Position

\* Reading moves the reading position alone.
LEMMA ReadStep ==
  ASSUME StreamInv, NEW b \in Buffers, Read(b)
  PROVE  Stream!Read(b)
<1>1. PICK n \in 1 .. Readable(buf[b]) : buf' = [buf EXCEPT ![b].rpos = @ + n]
  BY DEF Read
<1>2. Sound(buf[b]) /\ buf[b] \in Buffer
  BY DEF StreamInv, IInv
<1>3. PICK c : c = [buf[b] EXCEPT !.rpos = @ + n]
  OBVIOUS
<1>4. /\ c.bytes = buf[b].bytes /\ c.opos = buf[b].opos /\ c.wpos = buf[b].wpos
      /\ c.rpos = buf[b].rpos + n
  BY <1>2, <1>3 DEF Buffer
<1>5. Accessible(c) = Accessible(buf[b])
  BY <1>4 DEF Accessible
<1>6. buf' = [buf EXCEPT ![b] = c]
  BY <1>1, <1>3
<1>7. /\ buf[b].opos \in Nat /\ buf[b].rpos \in Nat /\ buf[b].wpos \in Nat
      /\ n \in Nat /\ n <= buf[b].wpos - buf[b].rpos
  BY <1>1, <1>2, SoundMembers DEF Readable
<1>8. Len(Data[b]) = buf[b].wpos - buf[b].opos /\ Position[b] = buf[b].rpos - buf[b].opos
  BY <1>2, AccessibleSeq DEF Data, Position
<1>9. n \in 0 .. Len(Data[b]) - Position[b] /\ c.rpos - c.opos = Position[b] + n
  BY <1>4, <1>7, <1>8
<1>10. /\ Data' = [Data EXCEPT ![b] = Data[b]]
       /\ Position' = [Position EXCEPT ![b] = Position[b] + n]
  <2>1. IInv
    BY DEF StreamInv
  <2>2. /\ Data' = [Data EXCEPT ![b] = Accessible(c)]
        /\ Position' = [Position EXCEPT ![b] = c.rpos - c.opos]
    BY <1>6, <2>1, OneStream, Zenon
  <2> QED
    BY <1>5, <1>9, <2>2, OfBuffer
<1>11. Data' = Data
  BY <1>10 DEF Data
<1> QED
  BY <1>9, <1>10, <1>11 DEF Stream!Read, Data, Position

\* Flushing up to a position no further than the reading position, or all.
LEMMA FlushStep ==
  ASSUME StreamInv, NEW b \in Buffers, NEW c, buf' = [buf EXCEPT ![b] = c],
         NEW n \in Nat, n <= buf[b].wpos - buf[b].opos,
         Accessible(c) = SubSeq(Accessible(buf[b]), n + 1, Len(Accessible(buf[b]))),
         c.rpos - c.opos = IF n <= buf[b].rpos - buf[b].opos
                           THEN (buf[b].rpos - buf[b].opos) - n ELSE 0
  PROVE  Stream!Flush(b)
<1>1. Sound(buf[b])
  BY DEF StreamInv, IInv
<1>2. Len(Data[b]) = buf[b].wpos - buf[b].opos /\ Data[b] = Accessible(buf[b])
  BY <1>1, AccessibleSeq DEF Data
<1>3. n \in 0 .. Len(Data[b])
  BY <1>1, <1>2, SoundMembers
<1>4. /\ Data' = [Data EXCEPT ![b] = SubSeq(Data[b], n + 1, Len(Data[b]))]
      /\ Position' = [Position EXCEPT ![b] = IF n <= Position[b] THEN Position[b] - n ELSE 0]
  <2>1. IInv
    BY DEF StreamInv
  <2>2. /\ Data' = [Data EXCEPT ![b] = Accessible(c)]
        /\ Position' = [Position EXCEPT ![b] = c.rpos - c.opos]
    BY <2>1, OneStream, Zenon
  <2> QED
    BY <1>2, <2>2, OfBuffer
<1> QED
  BY <1>3, <1>4 DEF Stream!Flush, Data, Position

\* Update overwrites accessible bytes, counted from the origin.
LEMMA UpdateStep ==
  ASSUME StreamInv, NEW b \in Buffers, NEW d \in Chunk, Update(b, d)
  PROVE  Stream!Update(b, d)
<1>1. PICK off \in 0 .. buf[b].wpos - buf[b].opos - Len(d) :
        buf' = [buf EXCEPT ![b].bytes = Overwrite(@, buf[b].opos + off, d)]
  BY DEF Update
<1>2. Sound(buf[b]) /\ buf[b] \in Buffer
  BY DEF StreamInv, IInv
<1>3. d \in Seq(Bytes) /\ Len(d) \in Nat
  BY StreamBufferAssumption, LenProperties
<1>4. PICK o \in Nat, w \in Nat : o = buf[b].opos /\ w = buf[b].wpos
  BY <1>2, SoundMembers
<1>5. PICK old : old = buf[b].bytes
  OBVIOUS
<1>6. /\ old \in Seq(Bytes) /\ Len(old) \in Nat /\ DOMAIN old = 1 .. Len(old)
      /\ o <= w /\ w <= Len(old)
  BY <1>2, <1>4, <1>5, SoundMembers, LenProperties
<1>7. PICK new : new = Overwrite(old, o + off, d)
  OBVIOUS
<1>8. new \in Seq(Bytes) /\ Len(new) = Len(old)
  <2>1. o + off \in Nat
    BY <1>1, <1>4
  <2> QED
    BY <1>3, <1>6, <1>7, <2>1, OverwriteSeq
<1>9. PICK c : c = [buf[b] EXCEPT !.bytes = new]
  OBVIOUS
<1>10. buf' = [buf EXCEPT ![b] = c]
  BY <1>1, <1>4, <1>5, <1>7, <1>9
<1>11. /\ c.bytes = new /\ c.opos = o /\ c.rpos = buf[b].rpos /\ c.wpos = w
       /\ Sound(c)
  BY <1>2, <1>4, <1>5, <1>8, <1>9 DEF Sound, Buffer
<1>12. PICK s : s = Accessible(buf[b])
  OBVIOUS
<1>13. s \in Seq(Bytes) /\ Len(s) = w - o /\ \A i \in 1 .. w - o : s[i] = old[o + i]
  BY <1>2, <1>4, <1>5, <1>12, AccessibleSeq
<1>14. DOMAIN s = 1 .. w - o
  BY <1>13, LenProperties
<1> DEFINE t == [i \in DOMAIN s |-> IF i \in off + 1 .. off + Len(d) THEN d[i - off] ELSE s[i]]
<1>15. t = Overwrite(s, off, d)
  BY DEF Overwrite
<1>16. t \in Seq(Bytes) /\ Len(t) = w - o
  <2>1. off \in Nat
    BY <1>1
  <2>2. Overwrite(s, off, d) \in Seq(Bytes) /\ Len(Overwrite(s, off, d)) = Len(s)
    BY <1>3, <1>13, <2>1, OverwriteSeq, Zenon
  <2> HIDE DEF t
  <2> QED
    BY <1>13, <1>15, <2>2
<1>17. \A i \in 1 .. Len(t) : c.bytes[c.opos + i] = t[i]
  <2> SUFFICES ASSUME NEW i \in 1 .. w - o PROVE new[o + i] = t[i]
    BY <1>11, <1>16
  <2>1. /\ o + i \in DOMAIN old
        /\ o + i \in o + off + 1 .. o + off + Len(d) <=> i \in off + 1 .. off + Len(d)
        /\ (o + i) - (o + off) = i - off
    BY <1>1, <1>3, <1>6
  <2>2. new[o + i] = IF o + i \in o + off + 1 .. o + off + Len(d)
                     THEN d[(o + i) - (o + off)] ELSE old[o + i]
    BY <1>7, <2>1 DEF Overwrite
  <2>3. t[i] = IF i \in off + 1 .. off + Len(d) THEN d[i - off] ELSE old[o + i]
    BY <1>13, <1>14
  <2> QED
    BY <2>1, <2>2, <2>3
<1>18. Accessible(c) = t
  BY <1>11, <1>16, <1>17, AccessibleIs
<1>19. Data[b] = s /\ off \in 0 .. Len(Data[b]) - Len(d)
  BY <1>1, <1>4, <1>12, <1>13 DEF Data
<1>20. /\ Data' = [Data EXCEPT ![b] = t]
       /\ Position' = [Position EXCEPT ![b] = Position[b]]
  <2>1. IInv
    BY DEF StreamInv
  <2>2. /\ Data' = [Data EXCEPT ![b] = Accessible(c)]
        /\ Position' = [Position EXCEPT ![b] = c.rpos - c.opos]
    BY <1>10, <2>1, OneStream, Zenon
  <2> QED
    BY <1>4, <1>11, <1>18, <2>2, OfBuffer
<1>21. Position' = Position
  BY <1>20 DEF Position
<1>22. Data' = [Data EXCEPT ![b] = [i \in DOMAIN @ |-> IF i \in off + 1 .. off + Len(d)
                                                       THEN d[i - off] ELSE @[i]]]
  BY <1>19, <1>20
<1> QED
  BY <1>19, <1>21, <1>22 DEF Stream!Update, Data, Position

\* A copy is read from its beginning.
LEMMA CopyStep ==
  ASSUME StreamInv, NEW b \in Buffers, NEW c \in Buffers, Copy(b, c)
  PROVE  Stream!Copy(b, c)
<1>1. PICK n : n = CopyOf(buf[c])
  OBVIOUS
<1>2. Accessible(n) = Data[c] /\ n.rpos - n.opos = 0
  BY <1>1, CopyAccessible DEF StreamInv, IInv, Data
<1>3. Data' = [Data EXCEPT ![b] = Data[c]] /\ Position' = [Position EXCEPT ![b] = 0]
  <2>1. IInv /\ buf' = [buf EXCEPT ![b] = n]
    BY <1>1 DEF Copy, StreamInv
  <2>2. /\ Data' = [Data EXCEPT ![b] = Accessible(n)]
        /\ Position' = [Position EXCEPT ![b] = n.rpos - n.opos]
    BY <2>1, OneStream, Zenon
  <2> QED
    BY <1>2, <2>2
<1> QED
  BY <1>3 DEF Stream!Copy, Data, Position

\* Swap exchanges the streams.
LEMMA SwapStep ==
  ASSUME StreamInv, NEW b \in Buffers, NEW c \in Buffers, Swap(b, c)
  PROVE  Stream!Swap(b, c)
<1>1. DOMAIN buf = Buffers
  BY DEF StreamInv, IInv
<1>2. \A a \in Buffers : buf'[a] = IF a = c THEN buf[b] ELSE IF a = b THEN buf[c] ELSE buf[a]
  BY <1>1 DEF Swap
<1>3. /\ Data' = [Data EXCEPT ![b] = Data[c], ![c] = Data[b]]
      /\ Position' = [Position EXCEPT ![b] = Position[c], ![c] = Position[b]]
  BY <1>2 DEF Data, Position
<1> QED
  BY <1>3 DEF Stream!Swap, Data, Position

\* Every step of the buffers is a step of the stream, or none.
LEMMA StreamStep ==
  ASSUME StreamInv, FlushUnread = FALSE, Assignments = FALSE, [Next]_buf
  PROVE  [Stream!Next]_(Stream!vars)
<1>1. \A b \in Buffers : Sound(buf[b]) /\ buf[b].limit = 0
  BY DEF StreamInv, IInv
<1>2. ASSUME UNCHANGED <<Data, Position>> PROVE UNCHANGED Stream!vars
  BY <1>2 DEF Data, Position, Stream!vars
<1>3. CASE UNCHANGED buf
  BY <1>2, <1>3 DEF Data, Position
<1>4. ASSUME NEW b \in Buffers, Read(b) PROVE Stream!Next
  BY <1>4, ReadStep DEF Stream!Next
<1>5. ASSUME NEW b \in Buffers, NEW pos \in Nat, buf[b].opos <= pos, pos <= buf[b].rpos,
             buf' = [buf EXCEPT ![b] = FlushedTo(@, pos)]
      PROVE  Stream!Next
  <2>1. PICK c : c = FlushedTo(buf[b], pos)
    OBVIOUS
  <2>2. PICK n \in Nat : n = pos - buf[b].opos
    BY <1>1, <1>5, SoundMembers
  <2>3. /\ Accessible(c) = SubSeq(Accessible(buf[b]), n + 1, Len(Accessible(buf[b])))
        /\ c.rpos - c.opos = (buf[b].rpos - buf[b].opos) - n
    BY <1>1, <1>5, <2>1, <2>2, FlushedAccessible
  <2>4. n <= buf[b].rpos - buf[b].opos /\ n <= buf[b].wpos - buf[b].opos
    BY <1>1, <1>5, <2>2, SoundMembers
  <2>5. buf' = [buf EXCEPT ![b] = c]
    BY <1>5, <2>1
  <2>6. Stream!Flush(b)
    BY <2>3, <2>4, <2>5, FlushStep
  <2> QED
    BY <2>6 DEF Stream!Next
<1>6. ASSUME NEW b \in Buffers, FlushRead(b) \/ Flush(b) PROVE Stream!Next
  <2>1. /\ buf[b].opos \in Nat /\ buf[b].rpos \in Nat /\ buf[b].opos <= buf[b].rpos
    BY <1>1, SoundMembers
  <2>2. CASE FlushRead(b)
    <3>1. buf' = [buf EXCEPT ![b] = FlushedTo(@, buf[b].rpos)]
      BY <2>2 DEF FlushRead
    <3>2. buf[b].rpos <= buf[b].rpos
      BY <2>1
    <3> QED
      BY <1>5, <2>1, <3>1, <3>2
  <2>3. CASE Flush(b)
    <3>1. PICK n \in 1 .. buf[b].wpos - buf[b].opos :
            /\ buf[b].opos + n <= buf[b].rpos
            /\ buf' = [buf EXCEPT ![b] = FlushedTo(@, @.opos + n)]
      BY <2>3 DEF Flush
    <3>2. buf[b].opos + n \in Nat /\ buf[b].opos <= buf[b].opos + n
      BY <2>1
    <3>3. buf' = [buf EXCEPT ![b] = FlushedTo(@, buf[b].opos + n)]
      BY <3>1
    <3> QED
      BY <1>5, <3>1, <3>2, <3>3
  <2> QED
    BY <1>6, <2>2, <2>3
<1>7. ASSUME NEW b \in Buffers, Clear(b) PROVE Stream!Next
  <2>1. PICK c : c = Cleared(buf[b])
    OBVIOUS
  <2>2. c.opos = 0 /\ c.rpos = 0 /\ c.wpos = 0
    BY <1>1, <2>1 DEF Cleared, Sound, Buffer
  <2>3. PICK n \in Nat : n = buf[b].wpos - buf[b].opos
    BY <1>1, SoundMembers
  <2>4. Len(Accessible(buf[b])) = n
    BY <1>1, <2>3, AccessibleSeq
  <2>5. Accessible(c) = SubSeq(Accessible(buf[b]), n + 1, Len(Accessible(buf[b])))
    <3>1. Accessible(c) = <<>>
      BY <2>2, SubSeqEmpty DEF Accessible
    <3>2. SubSeq(Accessible(buf[b]), n + 1, n) = <<>>
      BY SubSeqEmpty
    <3> QED
      BY <2>4, <3>1, <3>2
  <2>6. c.rpos - c.opos = IF n <= buf[b].rpos - buf[b].opos
                          THEN (buf[b].rpos - buf[b].opos) - n ELSE 0
    BY <1>1, <2>2, <2>3, SoundMembers
  <2>7. buf' = [buf EXCEPT ![b] = c] /\ n <= buf[b].wpos - buf[b].opos
    BY <1>7, <2>1, <2>3 DEF Clear
  <2>8. Stream!Flush(b)
    BY <2>5, <2>6, <2>7, FlushStep
  <2> QED
    BY <2>8 DEF Stream!Next
<1>8. ASSUME NEW b \in Buffers, NEW n \in 1 .. MaxSize, Writable(b, n)
      PROVE  UNCHANGED Stream!vars
  <2>1. PICK c \in Reserve(buf[b], n) : buf' = [buf EXCEPT ![b] = c]
    BY <1>8 DEF Writable
  <2>2. Accessible(c) = Accessible(buf[b]) /\ c.rpos = buf[b].rpos /\ c.opos = buf[b].opos
    BY <1>1, <2>1, ReserveAccessible
  <2> QED
    BY <1>2, <2>1, <2>2, OneStutter
<1>9. ASSUME NEW b \in Buffers, NEW d \in Chunk, Write(b, d) \/ Update(b, d)
      PROVE  Stream!Next
  BY <1>9, WriteStep, UpdateStep DEF Stream!Next
<1>10. ASSUME NEW b \in Buffers, NEW c \in Buffers, Copy(b, c) \/ Swap(b, c)
       PROVE  Stream!Next
  BY <1>10, CopyStep, SwapStep DEF Stream!Next
<1> QED
  BY <1>3, <1>4, <1>6, <1>7, <1>8, <1>9, <1>10 DEF Next, Assign

\* The constructors give streams that are empty and have no limit.
LEMMA StreamInit == ASSUME Limit = 0 PROVE Init => StreamInv /\ Stream!Init
<1> SUFFICES ASSUME Init PROVE StreamInv /\ Stream!Init
  OBVIOUS
<1>1. IInv
  BY InvInit
<1>2. InitSize = 0
  BY StreamBufferAssumption
<1>3. \A b \in Buffers :
        /\ buf[b].limit = 0 /\ buf[b].opos = 0 /\ buf[b].rpos = 0
        /\ \E d \in Chunk \union {<<>>} : Len(d) <= InitSize /\ buf[b].wpos = Len(d)
  BY DEF Init
<1>4. \A d \in Chunk \union {<<>>} : Len(d) \in Nat
  BY StreamBufferAssumption, EmptySeq, LenProperties
<1>5. ASSUME NEW b \in Buffers PROVE buf[b].wpos = 0 /\ Accessible(buf[b]) = <<>>
  <2>1. PICK d \in Chunk \union {<<>>} : Len(d) <= InitSize /\ buf[b].wpos = Len(d)
    BY <1>3
  <2>2. Len(d) \in Nat
    BY <1>4
  <2>3. buf[b].wpos = 0 /\ buf[b].opos = 0
    BY <1>2, <1>3, <2>1, <2>2
  <2>4. SubSeq(buf[b].bytes, 1, 0) = <<>>
    BY SubSeqEmpty
  <2> QED
    BY <2>3, <2>4 DEF Accessible
<1>6. \A b \in Buffers : Accessible(buf[b]) = <<>>
  BY <1>5
<1>7. Data \in [Buffers -> Chunk \union {<<>>}] /\ Position = [b \in Buffers |-> 0]
  BY <1>3, <1>6 DEF Data, Position
<1> QED
  BY <1>1, <1>3, <1>7 DEF StreamInv, Stream!Init, Data, Position

\* The promise of the header: what is read from a buffer without a limit is
\* what was written to it, each byte once and in order, through every growth,
\* flush, overwriting, copy and exchange.
THEOREM ImplementsStream ==
  ASSUME Limit = 0, FlushUnread = FALSE, Assignments = FALSE
  PROVE  Spec => StreamSpec
<1>1. Init => StreamInv /\ Stream!Init
  BY StreamInit
<1>2. StreamInv /\ [Next]_buf => StreamInv'
  BY InvStep, LimitStep DEF StreamInv
<1>3. StreamInv /\ [Next]_buf => [Stream!Next]_(Stream!vars)
  BY StreamStep
<1> QED
  BY <1>1, <1>2, <1>3, PTL DEF Spec, StreamSpec, Stream!Spec
=============================================================================
