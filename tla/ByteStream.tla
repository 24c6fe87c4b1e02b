------------------------------ MODULE ByteStream ------------------------------
(***************************************************************************)
(* What StreamBuffer.hpp promises: a buffer is a sequence of accessible    *)
(* bytes with a reading position in it.  Writing appends, reading moves    *)
(* the position, flushing discards bytes from the front; nothing else      *)
(* changes, and where the bytes lie in memory is nobody's business.        *)
(***************************************************************************)
EXTENDS Naturals, Sequences

CONSTANTS
  Buffers,  \* StreamBuffer objects
  Bytes,    \* byte values
  Chunk     \* the byte strings that callers write

VARIABLES
  data,  \* the accessible bytes of each buffer, oldest first
  read   \* how many of them are before the reading position

vars == <<data, read>>

Init ==
  /\ data \in [Buffers -> Chunk \union {<<>>}]
  /\ read = [b \in Buffers |-> 0]

Write(b, d) ==
  /\ data' = [data EXCEPT ![b] = @ \o d]
  /\ UNCHANGED read

Read(b) ==
  /\ \E n \in 0 .. Len(data[b]) - read[b] : read' = [read EXCEPT ![b] = @ + n]
  /\ UNCHANGED data

\* The first n accessible bytes go; a position among them moves to the front.
Flush(b) ==
  \E n \in 0 .. Len(data[b]) :
    /\ data' = [data EXCEPT ![b] = SubSeq(@, n + 1, Len(@))]
    /\ read' = [read EXCEPT ![b] = IF n <= @ THEN @ - n ELSE 0]

Update(b, d) ==
  /\ \E off \in 0 .. Len(data[b]) - Len(d) :
       data' = [data EXCEPT ![b] =
                  [i \in DOMAIN @ |-> IF i \in off + 1 .. off + Len(d)
                                      THEN d[i - off] ELSE @[i]]]
  /\ UNCHANGED read

\* b becomes what c is; a copy is read from its beginning.
Assign(b, c) ==
  /\ data' = [data EXCEPT ![b] = data[c]]
  /\ read' = [read EXCEPT ![b] = read[c]]

Copy(b, c) ==
  /\ data' = [data EXCEPT ![b] = data[c]]
  /\ read' = [read EXCEPT ![b] = 0]

Swap(b, c) ==
  /\ data' = [data EXCEPT ![b] = data[c], ![c] = data[b]]
  /\ read' = [read EXCEPT ![b] = read[c], ![c] = read[b]]

Next ==
  \E b \in Buffers :
    \/ Read(b) \/ Flush(b)
    \/ \E d \in Chunk : Write(b, d) \/ Update(b, d)
    \/ \E c \in Buffers : Assign(b, c) \/ Copy(b, c) \/ Swap(b, c)

Spec == Init /\ [][Next]_vars
=============================================================================
