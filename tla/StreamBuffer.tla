----------------------------- MODULE StreamBuffer -----------------------------
(***************************************************************************)
(* netb::StreamBuffer (netb/StreamBuffer.hpp, StreamBuffer.cpp): a vector  *)
(* of bytes with an origin, a reading and a writing position, grown on     *)
(* demand up to a limit.  A buffer is one record; the operations are       *)
(* functions of it, and of the outcomes where the code leaves several.     *)
(***************************************************************************)
EXTENDS Integers, Sequences

CONSTANTS
  Buffers,      \* StreamBuffer objects
  Bytes,        \* byte values, 0 among them
  Chunk,        \* the byte strings that callers write
  InitSize,     \* the constructor's init
  Limit,        \* the constructor's limit, 0 for none
  MaxSize,      \* bound: the length up to which callers let the vector grow
  FlushUnread,  \* do callers flush bytes that they have not read?
  Assignments   \* do callers use operator=?

ASSUME StreamBufferAssumption ==
  /\ 0 \in Bytes
  /\ Chunk \subseteq Seq(Bytes)
  /\ InitSize \in Nat /\ Limit \in Nat /\ MaxSize \in Nat
  /\ InitSize <= Limit /\ InitSize <= MaxSize
  /\ FlushUnread \in BOOLEAN /\ Assignments \in BOOLEAN

VARIABLE buf   \* of each buffer: _bytes, _limit, _opos, _rpos, _wpos

Buffer == [bytes : Seq(Bytes), limit : Nat, opos : Nat, rpos : Nat, wpos : Nat]

\* The accessible bytes and the writable space, and the latter alone.
Size(b) == Len(b.bytes) - b.opos
Space(b) == Len(b.bytes) - b.wpos
Accessible(b) == SubSeq(b.bytes, b.opos + 1, b.wpos)
Readable(b) == b.wpos - b.rpos

\* s with d written over it from position pos (from 0) on: memcpy.
Overwrite(s, pos, d) ==
  [i \in DOMAIN s |-> IF i \in pos + 1 .. pos + Len(d) THEN d[i - pos] ELSE s[i]]

\* _bytes.resize(n): cut off, or filled up with zeros.
Resize(s, n) == [i \in 1 .. n |-> IF i <= Len(s) THEN s[i] ELSE 0]

-----------------------------------------------------------------------------
(* Writing.                                                                *)

\* std::rotate(first, middle, last) for positions 0, m and l of s.  With the
\* middle after the last the outcome is undefined.
Rotate(s, m, l) ==
  IF m <= l
  THEN {[i \in DOMAIN s |-> IF i > l THEN s[i]
                            ELSE IF i <= l - m THEN s[i + m] ELSE s[i - (l - m)]]}
  ELSE [DOMAIN s -> Bytes]

\* A bug to try: the reading position is left where it was.
ReclaimNoRead(b) ==
  {[b EXCEPT !.bytes = s, !.wpos = @ - b.opos, !.opos = 0] :
     s \in Rotate(b.bytes, b.opos, b.wpos - b.opos)}

\* Reclaim moves the accessible bytes to the front of the vector.
Reclaim(b) ==
  {[b EXCEPT !.bytes = s, !.wpos = @ - b.opos, !.rpos = @ - b.opos, !.opos = 0] :
     s \in Rotate(b.bytes, b.opos, b.wpos - b.opos)}

\* A bug to try: the vector grows without a Reclaim.
ReserveNoReclaim(b, n) ==
  IF Space(b) >= n THEN {b}
  ELSE IF b.limit > 0 /\ b.wpos - b.opos + n > b.limit THEN {}
  ELSE {[b EXCEPT !.bytes = Resize(@, b.wpos + n)]}

\* Writable(n): the buffer with room for n more bytes, or nothing.
Reserve(b, n) ==
  IF n = 0 \/ Space(b) >= n THEN {b}
  ELSE IF b.limit > 0 /\ b.wpos - b.opos + n > b.limit THEN {}
  ELSE {[c EXCEPT !.bytes = Resize(@, c.wpos + n)] :
          c \in IF b.limit > 0 /\ b.wpos + n > b.limit THEN Reclaim(b) ELSE {b}}

\* Write(p, n), and Write() followed by Write(n) when the caller fills the
\* writable space itself.
Written(b, d) ==
  [b EXCEPT !.bytes = Overwrite(@, b.wpos, d), !.wpos = @ + Len(d)]

-----------------------------------------------------------------------------
(* Flushing and copying.                                                   *)

\* Clear.
Cleared(b) == [b EXCEPT !.opos = 0, !.rpos = 0, !.wpos = 0]

\* Flush(n), and Flush() as far as the reading position: an empty buffer
\* starts over.
FlushedTo(b, pos) == IF pos = b.wpos THEN Cleared(b) ELSE [b EXCEPT !.opos = pos]

\* n bytes of c from position pos on, at the front of a vector with room for
\* them; past the end of c's vector there is junk.
CopiedBytes(c, pos, n, junk, room) ==
  Overwrite(room, 0, [i \in 1 .. n |-> IF pos + i <= Len(c.bytes) THEN c.bytes[pos + i] ELSE junk])

\* The copy constructors.
CopyOf(c) ==
  [bytes |-> CopiedBytes(c, c.opos, c.wpos - c.opos, 0, Resize(<<>>, Size(c))),
   limit |-> c.limit, opos |-> 0, rpos |-> 0, wpos |-> c.wpos - c.opos]

\* A bug to try: the reading position too is taken from the target's origin.
AssignedFromRead(b, c, junk) ==
  [bytes |-> CopiedBytes(c, b.opos, c.wpos - c.opos, junk,
                         Resize(b.bytes, Size(c))),
   limit |-> c.limit, opos |-> 0, rpos |-> c.rpos - b.opos, wpos |-> c.wpos - c.opos]

\* operator=, which starts to copy at its own origin, not at c's.
AssignedFrom(b, c, junk) ==
  [bytes |-> CopiedBytes(c, b.opos, c.wpos - c.opos, junk,
                         Resize(b.bytes, Size(c))),
   limit |-> c.limit, opos |-> 0, rpos |-> c.rpos - c.opos, wpos |-> c.wpos - c.opos]

-----------------------------------------------------------------------------
(* The operations.  One that returns false changes nothing and is no step. *)

WithinBound(b, n) == buf[b].wpos + n <= MaxSize

\* Writable(n), by itself.
Writable(b, n) ==
  /\ WithinBound(b, n)
  /\ \E c \in Reserve(buf[b], n) : buf' = [buf EXCEPT ![b] = c]

Write(b, d) ==
  /\ WithinBound(b, Len(d))
  /\ \E c \in Reserve(buf[b], Len(d)) : buf' = [buf EXCEPT ![b] = Written(c, d)]

\* Read(n), and Read(p, n), which copies the bytes as well.
Read(b) ==
  \E n \in 1 .. Readable(buf[b]) : buf' = [buf EXCEPT ![b].rpos = @ + n]

\* Flush()
FlushRead(b) == buf' = [buf EXCEPT ![b] = FlushedTo(@, @.rpos)]

\* Flush(n)
Flush(b) ==
  \E n \in 1 .. buf[b].wpos - buf[b].opos :
    /\ buf[b].opos + n <= buf[b].rpos \/ FlushUnread
    /\ buf' = [buf EXCEPT ![b] = FlushedTo(@, @.opos + n)]

Clear(b) == buf' = [buf EXCEPT ![b] = Cleared(@)]

\* Update(offset, p, n)
Update(b, d) ==
  \E off \in 0 .. buf[b].wpos - buf[b].opos - Len(d) :
    buf' = [buf EXCEPT ![b].bytes = Overwrite(@, buf[b].opos + off, d)]

\* b is constructed anew, as a copy of c.
Copy(b, c) == buf' = [buf EXCEPT ![b] = CopyOf(buf[c])]

\* b = c, for two different buffers.
Assign(b, c) ==
  /\ Assignments /\ b # c
  /\ \E junk \in Bytes : buf' = [buf EXCEPT ![b] = AssignedFrom(@, buf[c], junk)]

Swap(b, c) == buf' = [buf EXCEPT ![b] = buf[c], ![c] = buf[b]]

\* Peekable(offset)
Peekable(b, offset) ==
  IF offset > b.wpos - b.opos THEN 0 ELSE b.wpos - b.opos - offset

\* The constructors: with no data, or with data that must fit into init.
Init ==
  buf \in [Buffers -> {[bytes |-> Overwrite(Resize(<<>>, InitSize), 0, d), limit |-> Limit,
                        opos |-> 0, rpos |-> 0, wpos |-> Len(d)] :
                         d \in {e \in Chunk \union {<<>>} : Len(e) <= InitSize}}]

Next ==
  \E b \in Buffers :
    \/ Read(b) \/ FlushRead(b) \/ Flush(b) \/ Clear(b)
    \/ \E n \in 1 .. MaxSize : Writable(b, n)
    \/ \E d \in Chunk : Write(b, d) \/ Update(b, d)
    \/ \E c \in Buffers : Copy(b, c) \/ Assign(b, c) \/ Swap(b, c)

Spec == Init /\ [][Next]_buf

-----------------------------------------------------------------------------
\* Positions are not negative (they are unsigned in the code, and wrap).
TypeOK == buf \in [Buffers -> Buffer]

\* The picture of StreamBuffer.hpp:331-340: the origin, the reading and the
\* writing position and the end of the vector stay in this order, through
\* every Reclaim and every copy.
PositionsInOrder ==
  \A b \in Buffers :
    /\ 0 <= buf[b].opos /\ buf[b].opos <= buf[b].rpos
    /\ buf[b].rpos <= buf[b].wpos /\ buf[b].wpos <= Len(buf[b].bytes)

\* The memory a buffer occupies, flushed bytes included, never grows past its
\* limit.
LimitRespected == \A b \in Buffers : buf[b].limit > 0 => Len(buf[b].bytes) <= buf[b].limit

\* The buffer is the stream of bytes its header describes: the reader gets the
\* bytes that were written, each once and in order.
Stream == INSTANCE ByteStream WITH
  data <- [b \in Buffers |-> Accessible(buf[b])],
  read <- [b \in Buffers |-> buf[b].rpos - buf[b].opos]

\* Every operation is the stream's operation of the same name.
StreamSpec == Stream!Spec

\* StreamBuffer.hpp:277-279: "return -1 if the offset position is out of range
\* of peekable data".
PeekableTellsRange ==
  \A b \in Buffers, offset \in 0 .. MaxSize + 1 :
    offset > Len(Accessible(buf[b])) => Peekable(buf[b], offset) = -1
=============================================================================
