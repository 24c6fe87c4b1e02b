---------------------------- MODULE StreamCodec ----------------------------
(* StreamReader.cpp, StreamWriter.cpp, RandomReader.cpp and RandomWriter.cpp:
   integers and strings on a StreamBuffer, as operators on values.

   A stream is the abstract buffer of ByteStream: the accessible bytes and how
   many of them are read; "base" is _opos, the bytes flushed in front of them.
   A byte is a number, or any value where only strings are read.

   An operation gives [ok, value, to]: what it returns, the value it assigned,
   and the stream afterwards. The machine is little-endian.

   Not here: 64-bit integers, which are assert(false); the _flush flag of a
   reader, which no user sets; a RandomReader at an offset of its own, and its
   strings with a delimiter, which StreamBuffer::Peekable makes undefined.   *)
EXTENDS Integers, Sequences, SequencesExt

EmptyStream == [data |-> <<>>, read |-> 0, base |-> 0]

StreamOf(bytes) == [EmptyStream EXCEPT !.data = bytes]

Readable(b) == Len(b.data) - b.read

Unread(b) == SubSeq(b.data, b.read + 1, Len(b.data))

\* Flush(): what was read is no longer accessible, an empty buffer starts anew.
Flushed(b) == IF Readable(b) = 0 THEN EmptyStream
              ELSE [data |-> Unread(b), read |-> 0, base |-> b.base + b.read]

Fail(b) == [ok |-> FALSE, value |-> <<>>, to |-> b]
Done(b, v) == [ok |-> TRUE, value |-> v, to |-> b]

----------------------------------------------------------------------------
(* Integers of 16 bits are the numbers 0..65535, integers of 32 bits are the
   pair of their halves <<high, low>>.                                      *)

Int16Bytes(v) == <<v \div 256, v % 256>>
Int16Of(a, b) == 256 * a + b

Int32Bytes(v) == Int16Bytes(v[1]) \o Int16Bytes(v[2])
Int32Of(a, b, c, d) == <<Int16Of(a, b), Int16Of(c, d)>>

----------------------------------------------------------------------------
(* StreamWriter. A write into a buffer without limit always succeeds.       *)

Write(b, bytes) == [b EXCEPT !.data = @ \o bytes]

\* What a write returns in its argument offset: _wpos, counted from the start
\* of the vector and not from the first accessible byte.
WriteOffset(b) == b.base + Len(b.data)

WriteInt8(b, v) == Write(b, <<v>>)
WriteInt16(b, v) == Write(b, Int16Bytes(v))
\* Integer(int32_t)
WriteInt32(b, v) == Write(b, Int32Bytes(v))
\* Integer(uint32_t): htonl() is stored in a uint16_t, the first two bytes.
WriteUInt32(b, v) == Write(b, Int16Bytes(v[1]))

WriteDelimited(b, s, delim) == Write(b, s \o delim)

----------------------------------------------------------------------------
(* StreamReader.                                                            *)

\* Bytes, and String with a length.
ReadBytes(b, n) ==
  IF n > Readable(b) THEN Fail(b)
  ELSE Done([b EXCEPT !.read = @ + n], SubSeq(b.data, b.read + 1, b.read + n))

ReadInt8(b) ==
  LET r == ReadBytes(b, 1) IN IF r.ok THEN Done(r.to, r.value[1]) ELSE r

ReadInt16(b) ==
  LET r == ReadBytes(b, 2)
  IN IF r.ok THEN Done(r.to, Int16Of(r.value[1], r.value[2])) ELSE r

ReadInt32(b) ==
  LET r == ReadBytes(b, 4)
  IN IF r.ok THEN Done(r.to, Int32Of(r.value[1], r.value[2], r.value[3], r.value[4])) ELSE r

\* String(s): everything, but not nothing.
ReadAll(b) == IF Readable(b) = 0 THEN Fail(b) ELSE ReadBytes(b, Readable(b))

\* The places where StreamBuffer::Readable(delim) stops: find_first_of, any
\* byte of the delimiter.
Stops(b, delim) == {i \in 0..Readable(b) - 1 : b.data[b.read + i + 1] \in Range(delim)}

FirstStop(S) == CHOOSE i \in S : \A j \in S : i <= j

\* String(s, delim). A line that ends at its first byte is read as empty and
\* its delimiter stays; of a delimiter that is cut the line is gone and the
\* call fails.
ReadLine(b, delim) ==
  LET stops == Stops(b, delim)
      line == ReadBytes(b, FirstStop(stops))
      end == ReadBytes(line.to, Len(delim))
  IN IF Readable(b) < Len(delim) \/ stops = {} THEN Fail(b)
     ELSE IF FirstStop(stops) = 0 THEN Done(b, <<>>)
     ELSE [ok |-> end.ok, value |-> line.value, to |-> end.to]

----------------------------------------------------------------------------
(* RandomReader and RandomWriter: offsets count from the first accessible
   byte, the reading position stays.                                        *)

\* StreamBuffer::Peekable: false, that is 0, beyond the end.
Peekable(b, offset) == IF offset > Len(b.data) THEN 0 ELSE Len(b.data) - offset

PeekBytes(b, offset, n) ==
  IF n > Peekable(b, offset) THEN Fail(b) ELSE Done(b, SubSeq(b.data, offset + 1, offset + n))

PeekInt8(b, offset) ==
  LET r == PeekBytes(b, offset, 1) IN IF r.ok THEN Done(b, r.value[1]) ELSE r

PeekInt16(b, offset) ==
  LET r == PeekBytes(b, offset, 2)
  IN IF r.ok THEN Done(b, Int16Of(r.value[1], r.value[2])) ELSE r

PeekInt32(b, offset) ==
  LET r == PeekBytes(b, offset, 4)
  IN IF r.ok THEN Done(b, Int32Of(r.value[1], r.value[2], r.value[3], r.value[4])) ELSE r

Update(b, offset, bytes) ==
  IF Len(bytes) > Peekable(b, offset) THEN Fail(b)
  ELSE Done([b EXCEPT !.data = [i \in 1..Len(@) |->
               IF i \in offset + 1 .. offset + Len(bytes) THEN bytes[i - offset] ELSE @[i]]], <<>>)

UpdateInt16(b, offset, v) == Update(b, offset, Int16Bytes(v))
UpdateInt32(b, offset, v) == Update(b, offset, Int32Bytes(v))
=============================================================================
