----------------------------- MODULE DataProofs -----------------------------
(***************************************************************************)
(* Theorems about the data that the components exchange, for all values of *)
(* it: the order of addresses and their ports, the numbers in a stream,    *)
(* the flags, the questions and the queries of DNS messages, and what of a *)
(* request or a response of HTTP arrives at the other end.                 *)
(***************************************************************************)
EXTENDS DnsResolver, HttpText, SocketAddress, SequenceTheorems, WellFoundedInduction, TLAPS

-----------------------------------------------------------------------------
(* Induction over the naturals, with a set in place of a predicate.        *)

\* A set of naturals that has 0, and n + 1 with n, is all of them.
LEMMA Induction ==
  ASSUME NEW S \in SUBSET Nat, 0 \in S, \A n \in S : n + 1 \in S
  PROVE  \A n \in Nat : n \in S
<1> SUFFICES ASSUME Nat \ S # {} PROVE FALSE
  OBVIOUS
<1> DEFINE T == Nat \ S
           R == OpToRel(<, Nat)
<1>1. T \subseteq Nat /\ T # {}
  OBVIOUS
<1>2. IsWellFoundedOn(R, Nat)
  BY NatLessThanWellFounded
<1> HIDE DEF R
<1>3. PICK x \in T : \A y \in T : ~ (<<y, x>> \in R)
  BY <1>1, <1>2, WFMin
<1>4. x # 0 /\ x \in Nat
  BY <1>3
<1>5. x - 1 \in Nat /\ <<x - 1, x>> \in R
  BY <1>4 DEF R, OpToRel
<1>6. x - 1 \in S
  BY <1>3, <1>5
<1> QED
  BY <1>3, <1>4, <1>6

\* A set of naturals has a least element.
LEMMA FirstStopIs ==
  ASSUME NEW S \in SUBSET Nat, S # {}
  PROVE  FirstStop(S) \in S /\ \A j \in S : FirstStop(S) <= j
<1> DEFINE R == OpToRel(<, Nat)
<1>2. IsWellFoundedOn(R, Nat)
  BY NatLessThanWellFounded
<1> HIDE DEF R
<1>3. PICK x \in S : \A y \in S : ~ (<<y, x>> \in R)
  BY <1>2, WFMin
<1>4. \A y \in S : x <= y
  <2> SUFFICES ASSUME NEW y \in S PROVE x <= y
    OBVIOUS
  <2>1. ~ (y < x)
    BY <1>3 DEF R, OpToRel
  <2> QED
    BY <2>1
<1> QED
  BY <1>3, <1>4 DEF FirstStop

-----------------------------------------------------------------------------
(* Streams.                                                                *)

Stream(T) == {b \in [data : Seq(T), read : Nat, base : Nat] : b.read <= Len(b.data)}

\* A stream is its three fields, and what can be read of it is a natural.
LEMMA StreamIs ==
  ASSUME NEW T, NEW b \in Stream(T)
  PROVE  /\ b = [data |-> b.data, read |-> b.read, base |-> b.base]
         /\ b.data \in Seq(T) /\ Len(b.data) \in Nat /\ DOMAIN b.data = 1 .. Len(b.data)
         /\ b.read \in Nat /\ b.base \in Nat /\ b.read <= Len(b.data)
         /\ Readable(b) \in Nat /\ Readable(b) = Len(b.data) - b.read
  BY LenProperties DEF Stream, Readable

\* Writing appends, and neither moves the reader nor changes what is there.
LEMMA WriteIs ==
  ASSUME NEW T, NEW b \in Stream(T), NEW e \in Seq(T)
  PROVE  /\ Write(b, e) \in Stream(T)
         /\ Write(b, e).data = b.data \o e /\ Write(b, e).read = b.read /\ Write(b, e).base = b.base
         /\ Len(Write(b, e).data) = Len(b.data) + Len(e)
         /\ Readable(Write(b, e)) = Readable(b) + Len(e)
         /\ \A i \in 1 .. Len(b.data) : Write(b, e).data[i] = b.data[i]
<1> DEFINE w == Write(b, e)
<1>1. /\ b.data \in Seq(T) /\ Len(b.data) \in Nat /\ Len(e) \in Nat /\ b.read \in Nat
      /\ b.base \in Nat /\ b.read <= Len(b.data)
      /\ b = [data |-> b.data, read |-> b.read, base |-> b.base]
  BY StreamIs, LenProperties
<1>2. w = [data |-> b.data \o e, read |-> b.read, base |-> b.base]
  <2> DEFINE d == b.data \o e
  <2>1. w = [b EXCEPT !.data = d]
    BY DEF Write
  <2> HIDE DEF d
  <2>2. [b EXCEPT !.data = d] = [data |-> d, read |-> b.read, base |-> b.base]
    BY <1>1
  <2> QED
    BY <2>1, <2>2 DEF d
<1> HIDE DEF w
<1>3. /\ b.data \o e \in Seq(T) /\ Len(b.data \o e) = Len(b.data) + Len(e)
      /\ \A i \in 1 .. Len(b.data) : (b.data \o e)[i] = b.data[i]
  BY <1>1, ConcatProperties
<1>4. w \in [data : Seq(T), read : Nat, base : Nat]
  BY <1>1, <1>2, <1>3
<1>5. w.read <= Len(w.data)
  BY <1>1, <1>2, <1>3
<1> QED
  BY <1>1, <1>2, <1>3, <1>4, <1>5 DEF w, Stream, Readable

\* What ReadBytes takes, from a stream that may have grown.
LEMMA ReadBytesIs ==
  ASSUME NEW T, NEW b \in Stream(T), NEW n \in Nat
  PROVE  /\ n > Readable(b) => ReadBytes(b, n) = Fail(b)
         /\ n <= Readable(b) =>
              /\ ReadBytes(b, n) = [ok |-> TRUE, value |-> SubSeq(b.data, b.read + 1, b.read + n),
                                    to |-> [data |-> b.data, read |-> b.read + n, base |-> b.base]]
              /\ SubSeq(b.data, b.read + 1, b.read + n) \in Seq(T)
              /\ [data |-> b.data, read |-> b.read + n, base |-> b.base] \in Stream(T)
<1>1. /\ b.data \in Seq(T) /\ Len(b.data) \in Nat /\ b.read \in Nat
      /\ b.base \in Nat /\ b.read <= Len(b.data) /\ Readable(b) = Len(b.data) - b.read
      /\ b = [data |-> b.data, read |-> b.read, base |-> b.base]
  BY StreamIs
<1>2. Readable(b) \in Nat
  BY <1>1
<1>3. n > Readable(b) => ReadBytes(b, n) = Fail(b)
  BY <1>2 DEF ReadBytes
<1> SUFFICES ASSUME n <= Readable(b)
             PROVE  /\ ReadBytes(b, n) = [ok |-> TRUE, value |-> SubSeq(b.data, b.read + 1, b.read + n),
                                          to |-> [data |-> b.data, read |-> b.read + n, base |-> b.base]]
                    /\ SubSeq(b.data, b.read + 1, b.read + n) \in Seq(T)
                    /\ [data |-> b.data, read |-> b.read + n, base |-> b.base] \in Stream(T)
  BY <1>3
<1>4. [b EXCEPT !.read = @ + n] = [data |-> b.data, read |-> b.read + n, base |-> b.base]
  BY <1>1
<1>5. ~ (n > Readable(b))
  BY <1>2
<1>6. ReadBytes(b, n) = Done([b EXCEPT !.read = @ + n], SubSeq(b.data, b.read + 1, b.read + n))
  BY <1>5 DEF ReadBytes
<1>7. SubSeq(b.data, b.read + 1, b.read + n) \in Seq(T)
  <2>1. \A i \in b.read + 1 .. b.read + n : b.data[i] \in T
    BY <1>1, ElementOfSeq
  <2> QED
    BY <1>1, <2>1, SubSeqProperties
<1>8. [data |-> b.data, read |-> b.read + n, base |-> b.base] \in Stream(T)
  BY <1>1 DEF Stream
<1> QED
  BY <1>4, <1>6, <1>7, <1>8 DEF Done

\* A part of what was there is the same part afterwards.
LEMMA WriteKeeps ==
  ASSUME NEW T, NEW b \in Stream(T), NEW e \in Seq(T), NEW m \in Nat, NEW n \in Nat,
         1 <= m, n <= Len(b.data)
  PROVE  SubSeq(Write(b, e).data, m, n) = SubSeq(b.data, m, n)
<1> DEFINE s == SubSeq(b.data, m, n)
           t == SubSeq(Write(b, e).data, m, n)
<1>1. /\ b.data \in Seq(T) /\ Len(b.data) \in Nat /\ Len(e) \in Nat
  BY StreamIs, LenProperties
<1>2. \A i \in m .. n : b.data[i] \in T /\ Write(b, e).data[i] = b.data[i]
  BY <1>1, ElementOfSeq, WriteIs
<1>3. /\ s \in Seq(T) /\ Len(s) = (IF m <= n THEN n - m + 1 ELSE 0)
      /\ \A i \in 1 .. n - m + 1 : s[i] = b.data[m + i - 1]
  BY <1>2, SubSeqProperties
<1>4. /\ t \in Seq(T) /\ Len(t) = (IF m <= n THEN n - m + 1 ELSE 0)
      /\ \A i \in 1 .. n - m + 1 : t[i] = Write(b, e).data[m + i - 1]
  BY <1>2, SubSeqProperties
<1> HIDE DEF s, t
<1>5. \A i \in 1 .. Len(s) : s[i] = t[i]
  <2> SUFFICES ASSUME NEW i \in 1 .. Len(s) PROVE s[i] = t[i]
    OBVIOUS
  <2>1. i \in 1 .. n - m + 1 /\ m + i - 1 \in m .. n
    BY <1>3
  <2> QED
    BY <1>2, <1>3, <1>4, <2>1
<1>6. s = t
  BY <1>3, <1>4, <1>5, SeqEqual
<1> QED
  BY <1>6 DEF s, t

-----------------------------------------------------------------------------
(* Addresses.                                                              *)

\* The fields are numbers.
LEMMA Fields ==
  ASSUME NEW a \in Address
  PROVE  /\ a.family \in Nat /\ a.port \in Nat /\ a.host \in Nat
         /\ a.flow \in Nat /\ a.scope \in Nat
<1>1. /\ a.family \in Nat /\ a.port \in PortNumber /\ a.host \in Nat
      /\ a.flow \in Nat /\ a.scope \in Nat
  BY DEF Address
<1>2. PortNumber \subseteq Nat
  BY DEF PortNumber
<1> QED
  BY <1>1, <1>2

\* Addresses with equal fields are equal.
LEMMA Extensional ==
  ASSUME NEW a \in Address, NEW b \in Address, a.family = b.family
  PROVE  a = b <=> (a.port = b.port /\ a.flow = b.flow /\ a.host = b.host /\ a.scope = b.scope)
<1>1. /\ a = [family |-> a.family, port |-> a.port, host |-> a.host,
              flow |-> a.flow, scope |-> a.scope]
      /\ b = [family |-> b.family, port |-> b.port, host |-> b.host,
              flow |-> b.flow, scope |-> b.scope]
  BY DEF Address
<1> QED
  BY <1>1

\* No address is less than itself: operator< with equal fields is false.
THEOREM LessIsIrreflexive == \A a \in Address : ~ Less(a, a)
<1> SUFFICES ASSUME NEW a \in Address PROVE ~ Less(a, a)
  OBVIOUS
<1>1. /\ a.family \in Nat /\ a.port \in Nat /\ a.host \in Nat
      /\ a.flow \in Nat /\ a.scope \in Nat
  BY Fields
<1> QED
  BY <1>1 DEF Less, FieldsLess

\* operator< is transitive, whatever the families: an ordered container of
\* addresses finds what was put into it.
THEOREM LessIsTransitive ==
  \A a, b, c \in Address : Less(a, b) /\ Less(b, c) => Less(a, c)
<1> SUFFICES ASSUME NEW a \in Address, NEW b \in Address, NEW c \in Address,
                    Less(a, b), Less(b, c)
             PROVE  Less(a, c)
  OBVIOUS
<1>0. /\ a.family \in Nat /\ b.family \in Nat /\ c.family \in Nat
      /\ a.port \in Nat /\ b.port \in Nat /\ c.port \in Nat
      /\ a.host \in Nat /\ b.host \in Nat /\ c.host \in Nat
      /\ a.flow \in Nat /\ b.flow \in Nat /\ c.flow \in Nat
      /\ a.scope \in Nat /\ b.scope \in Nat /\ c.scope \in Nat
  BY Fields
<1>1. CASE a.family < b.family \/ b.family < c.family
  BY <1>0, <1>1 DEF Less
<1>2. CASE a.family = b.family /\ b.family = c.family
  <2>1. CASE a.family = AF_INET
    BY <1>0, <1>2, <2>1 DEF Less
  <2>2. CASE a.family # AF_INET
    <3>1. FieldsLess(a, b) /\ FieldsLess(b, c)
      BY <1>0, <1>2, <2>2 DEF Less
    <3>2. FieldsLess(a, c)
      BY <1>0, <3>1 DEF FieldsLess
    <3> QED
      BY <1>2, <2>2, <3>2 DEF Less
  <2> QED
    BY <2>1, <2>2
<1> QED
  BY <1>0, <1>1, <1>2 DEF Less

\* Two addresses that operator== tells apart are ordered by operator<, and two
\* that it does not are not: the operators are consistent.
THEOREM OrderAgreesWithEquality ==
  \A a, b \in Address : (~ Less(a, b) /\ ~ Less(b, a)) <=> Equal(a, b)
<1> SUFFICES ASSUME NEW a \in Address, NEW b \in Address
             PROVE  (~ Less(a, b) /\ ~ Less(b, a)) <=> Equal(a, b)
  OBVIOUS
<1>0. /\ a.family \in Nat /\ b.family \in Nat
      /\ a.port \in Nat /\ b.port \in Nat
      /\ a.host \in Nat /\ b.host \in Nat
      /\ a.flow \in Nat /\ b.flow \in Nat
      /\ a.scope \in Nat /\ b.scope \in Nat
  BY Fields
<1>1. CASE a.family # b.family
  BY <1>0, <1>1 DEF Less, Equal
<1>2. CASE a.family = b.family /\ a.family = AF_INET
  <2>1. Equal(a, b) <=> (a.port = b.port /\ a.host = b.host)
    BY <1>2 DEF Equal, AF_INET, AF_INET6
  <2>2. /\ Less(a, b) <=> (a.port < b.port \/ (a.port = b.port /\ a.host < b.host))
        /\ Less(b, a) <=> (b.port < a.port \/ (b.port = a.port /\ b.host < a.host))
    BY <1>0, <1>2 DEF Less
  <2> QED
    BY <1>0, <2>1, <2>2
<1>3. CASE a.family = b.family /\ a.family # AF_INET
  <2>1. (~ FieldsLess(a, b) /\ ~ FieldsLess(b, a)) <=>
          (a.port = b.port /\ a.flow = b.flow /\ a.host = b.host /\ a.scope = b.scope)
    BY <1>0 DEF FieldsLess
  <2>2. a = b <=> (a.port = b.port /\ a.flow = b.flow /\ a.host = b.host /\ a.scope = b.scope)
    BY <1>3, Extensional
  <2>3. Equal(a, b) <=>
          (a.port = b.port /\ a.flow = b.flow /\ a.host = b.host /\ a.scope = b.scope)
    BY <1>3, <2>2, SMT DEF Equal
  <2>4. /\ Less(a, b) <=> FieldsLess(a, b)
        /\ Less(b, a) <=> FieldsLess(b, a)
    BY <1>0, <1>3 DEF Less
  <2> QED
    BY <2>1, <2>3, <2>4
<1> QED
  BY <1>1, <1>2, <1>3

Byte == 0..255

\* The numbers of 16 bits.
Int16 == {v \in Nat : v < 65536}

\* A number of 16 bits is made of its two bytes.
LEMMA HighAndLowByte ==
  ASSUME NEW v \in Int16
  PROVE  \E h \in Byte, l \in Byte : v = h * 256 + l /\ v \div 256 = h /\ v % 256 = l
<1>1. /\ v \div 256 \in Byte /\ (v % 256) \in Byte
      /\ v = (v \div 256) * 256 + (v % 256)
  BY SMTT(60) DEF Byte, Int16
<1> QED
  BY <1>1, Zenon

\* The port that was set is the port that is read, for both supported families:
\* htons and ntohs undo one another.
THEOREM PortRoundTrip ==
  \A a \in Address, p \in PortNumber :
    a.family \in {AF_INET, AF_INET6} => PortOf(WithPort(a, p)) = p
<1> SUFFICES ASSUME NEW a \in Address, NEW p \in PortNumber,
                    a.family \in {AF_INET, AF_INET6}
             PROVE  PortOf(WithPort(a, p)) = p
  OBVIOUS
<1>1. PICK h \in Byte, l \in Byte : p = h * 256 + l
  <2>1. p \in Int16
    BY DEF PortNumber, Int16
  <2>2. \E h \in Byte, l \in Byte : p = h * 256 + l /\ p \div 256 = h /\ p % 256 = l
    BY <2>1, HighAndLowByte, Zenon
  <2> QED
    BY <2>2, Zenon
<1>2. Swapped(p) = l * 256 + h
  BY <1>1 DEF Swapped, Byte
<1>3. Swapped(l * 256 + h) = h * 256 + l
  BY <1>1 DEF Swapped, Byte
<1>4. WithPort(a, p) = [a EXCEPT !.port = Swapped(p)]
  BY DEF WithPort
<1>5. WithPort(a, p).family = a.family /\ WithPort(a, p).port = Swapped(p)
  <2>1. a = [family |-> a.family, port |-> a.port, host |-> a.host,
              flow |-> a.flow, scope |-> a.scope]
    BY DEF Address
  <2> QED
    BY <1>4, <2>1
<1> QED
  BY <1>1, <1>2, <1>3, <1>5 DEF PortOf

-----------------------------------------------------------------------------
(* Sets of streams and flags.                                              *)

Streams == [data : Seq(Byte), read : Nat, base : Nat]

Flags == [qr : 0..1, opcode : 0..15, aa : 0..1, tc : 0..1, rd : 0..1, ra : 0..1, z : 0..7, rcode : 0..15]

-----------------------------------------------------------------------------
(* Numbers of two bytes.                                                   *)

\* The two bytes of a 16-bit number are bytes, and make the number again.
THEOREM Int16RoundTrip ==
  ASSUME NEW v \in Int16
  PROVE  /\ Int16Bytes(v) \in Seq(Byte) /\ Len(Int16Bytes(v)) = 2
         /\ Int16Of(Int16Bytes(v)[1], Int16Bytes(v)[2]) = v
<1>1. v \div 256 \in Byte /\ v % 256 \in Byte /\ 256 * (v \div 256) + (v % 256) = v
  <2>1. PICK h \in Byte, l \in Byte : v = h * 256 + l /\ v \div 256 = h /\ v % 256 = l
    BY HighAndLowByte
  <2>2. 256 * h + l = v
    BY <2>1 DEF Byte
  <2> QED
    BY <2>1, <2>2
<1>2. Int16Bytes(v) = <<v \div 256, v % 256>>
  BY DEF Int16Bytes
<1>3. <<v \div 256, v % 256>> \in Seq(Byte)
  BY <1>1
<1>4. QED
  BY <1>1, <1>2, <1>3 DEF Int16Of

-----------------------------------------------------------------------------
(* Streams.                                                                *)

\* Bytes are written behind what is there.
LEMMA WriteAppends ==
  ASSUME NEW b \in Streams, NEW bytes \in Seq(Byte)
  PROVE  /\ Write(b, bytes) \in Streams
         /\ Len(Write(b, bytes).data) = Len(b.data) + Len(bytes)
         /\ Write(b, bytes).read = b.read
         /\ \A i \in 1..Len(bytes) : Write(b, bytes).data[Len(b.data) + i] = bytes[i]
<1> DEFINE d == b.data \o bytes
<1>1. b.data \in Seq(Byte) /\ Len(b.data) \in Nat /\ Len(bytes) \in Nat
  BY DEF Streams
<1>2. /\ d \in Seq(Byte) /\ Len(d) = Len(b.data) + Len(bytes)
      /\ \A i \in 1..Len(b.data) + Len(bytes) :
           d[i] = IF i <= Len(b.data) THEN b.data[i] ELSE bytes[i - Len(b.data)]
  BY <1>1, ConcatProperties
<1>3. Write(b, bytes) = [b EXCEPT !.data = d]
  BY DEF Write
<1>4. Write(b, bytes).data = d /\ Write(b, bytes).read = b.read /\ Write(b, bytes) \in Streams
  <2> HIDE DEF d
  <2> QED BY <1>2, <1>3 DEF Streams
<1>5. \A i \in 1..Len(bytes) : d[Len(b.data) + i] = bytes[i]
  <2> HIDE DEF d
  <2> TAKE i \in 1..Len(bytes)
  <2>1. /\ Len(b.data) + i \in 1..Len(b.data) + Len(bytes)
        /\ ~(Len(b.data) + i <= Len(b.data)) /\ (Len(b.data) + i) - Len(b.data) = i
    BY <1>1
  <2>2. d[Len(b.data) + i] = bytes[(Len(b.data) + i) - Len(b.data)]
    BY <1>2, <2>1
  <2>3. QED BY <2>1, <2>2
<1>6. QED
  <2> HIDE DEF d
  <2> QED BY <1>2, <1>4, <1>5

\* A 16-bit number that StreamWriter writes behind what is read, StreamReader
\* reads, and the whole of it: htons() and ntohs() undo each other.
THEOREM WrittenIntegerIsRead ==
  ASSUME NEW b \in Streams, NEW v \in Int16, b.read = Len(b.data)
  PROVE  LET r == ReadInt16(WriteInt16(b, v))
         IN r.ok /\ r.value = v /\ Readable(r.to) = 0
<1> DEFINE bytes == Int16Bytes(v)
           w == Write(b, bytes)
           r == ReadBytes(w, 2)
<1>1. bytes \in Seq(Byte) /\ Len(bytes) = 2 /\ Int16Of(bytes[1], bytes[2]) = v
  BY Int16RoundTrip
<1>2. /\ w \in Streams /\ Len(w.data) = Len(b.data) + 2 /\ w.read = Len(b.data)
      /\ w.data[Len(b.data) + 1] = bytes[1] /\ w.data[Len(b.data) + 2] = bytes[2]
  <2> HIDE DEF bytes
  <2>1. 1 \in 1..Len(bytes) /\ 2 \in 1..Len(bytes)
    BY <1>1
  <2>2. /\ w \in Streams /\ Len(w.data) = Len(b.data) + Len(bytes) /\ w.read = b.read
        /\ \A i \in 1..Len(bytes) : w.data[Len(b.data) + i] = bytes[i]
    BY <1>1, WriteAppends, Zenon
  <2> HIDE DEF w
  <2>3. QED BY <1>1, <2>1, <2>2
<1> HIDE DEF bytes, w
<1>3. w.data \in Seq(Byte) /\ Len(b.data) \in Nat
  BY <1>2 DEF Streams
<1>4. /\ r = [ok |-> TRUE, value |-> SubSeq(w.data, Len(b.data) + 1, Len(b.data) + 2),
              to |-> [w EXCEPT !.read = @ + 2]]
  BY <1>2, <1>3 DEF ReadBytes, Readable, Done
<1>5. r.ok /\ r.value[1] = bytes[1] /\ r.value[2] = bytes[2]
  <2>1. \A i \in Len(b.data) + 1 .. Len(b.data) + 2 : w.data[i] \in Byte
    BY <1>2, <1>3, ElementOfSeq
  <2>2. \A i \in 1..2 : SubSeq(w.data, Len(b.data) + 1, Len(b.data) + 2)[i] = w.data[Len(b.data) + i]
    BY <1>3, <2>1, SubSeqProperties
  <2> HIDE DEF r
  <2>3. QED BY <1>2, <1>4, <2>2
<1>6. Readable(r.to) = 0
  BY <1>2, <1>3, <1>4, SMTT(30) DEF Readable, Streams
<1>7. ReadInt16(WriteInt16(b, v)) = Done(r.to, Int16Of(r.value[1], r.value[2]))
  BY <1>5 DEF ReadInt16, WriteInt16, w, bytes
<1> HIDE DEF r
<1>8. QED
  BY <1>1, <1>5, <1>6, <1>7 DEF Done

\* Update changes the bytes in its range and no others, in place: the reading
\* position and the length stay. RandomWriter fills the length of a record so.
THEOREM UpdateIsLocal ==
  ASSUME NEW b \in Streams, NEW offset \in Nat, NEW bytes \in Seq(Byte),
         Update(b, offset, bytes).ok
  PROVE  LET u == Update(b, offset, bytes).to
         IN /\ u.read = b.read /\ u.base = b.base /\ Len(u.data) = Len(b.data)
            /\ bytes # <<>> => offset + Len(bytes) <= Len(b.data)
            /\ \A i \in 1..Len(b.data) :
                 u.data[i] = IF i \in offset + 1 .. offset + Len(bytes) THEN bytes[i - offset] ELSE b.data[i]
<1> DEFINE new == [i \in 1..Len(b.data) |->
                     IF i \in offset + 1 .. offset + Len(bytes) THEN bytes[i - offset] ELSE b.data[i]]
<1>1. b.data \in Seq(Byte) /\ Len(b.data) \in Nat /\ Len(bytes) \in Nat
  BY DEF Streams
<1>2. ~(Len(bytes) > Peekable(b, offset))
  BY DEF Update, Fail
<1>3. Len(bytes) <= Peekable(b, offset) /\ Update(b, offset, bytes).to = [b EXCEPT !.data = new]
  BY <1>1, <1>2 DEF Update, Done, Peekable
<1>4. offset + Len(bytes) <= Len(b.data) \/ Len(bytes) = 0
  BY <1>1, <1>3 DEF Peekable
<1>5. new \in Seq(Byte) /\ Len(new) = Len(b.data)
  <2>1. \A i \in 1..Len(b.data) : new[i] \in Byte
    BY <1>1
  <2>2. QED BY <1>1, <2>1
<1>6. bytes # <<>> => offset + Len(bytes) <= Len(b.data)
  BY <1>1, <1>4
<1>7. \A i \in 1..Len(b.data) :
        new[i] = IF i \in offset + 1 .. offset + Len(bytes) THEN bytes[i - offset] ELSE b.data[i]
  OBVIOUS
<1> HIDE DEF new
<1>8. LET u == Update(b, offset, bytes).to IN u.data = new /\ u.read = b.read /\ u.base = b.base
  BY <1>3 DEF Streams
<1>9. QED
  BY <1>5, <1>6, <1>7, <1>8

-----------------------------------------------------------------------------
(* The header.                                                             *)

\* The shifts and masks of FLAGS::Encode and FLAGS::Decode undo each other for
\* every value of the fields, and each of the two results is a byte.
THEOREM FlagsRoundTrip ==
  ASSUME NEW f \in Flags
  PROVE  /\ Encode(f)[1] \in Byte /\ Encode(f)[2] \in Byte
         /\ Decode(Encode(f)[1], Encode(f)[2]) = f
<1> DEFINE b1 == f.rd + 2 * f.tc + 4 * f.aa + 8 * f.opcode + 128 * f.qr
           b2 == f.rcode + 16 * f.z + 128 * f.ra
<1>1. /\ f.qr \in 0..1 /\ f.opcode \in 0..15 /\ f.aa \in 0..1 /\ f.tc \in 0..1 /\ f.rd \in 0..1
      /\ f.ra \in 0..1 /\ f.z \in 0..7 /\ f.rcode \in 0..15
  BY DEF Flags
<1>2. Encode(f)[1] = b1 /\ Encode(f)[2] = b2
  BY DEF Encode
<1>3. b1 \in Byte /\ b2 \in Byte
  BY <1>1 DEF Byte
<1>4. /\ b1 \div 128 = f.qr /\ (b1 \div 8) % 16 = f.opcode
      /\ (b1 \div 4) % 2 = f.aa /\ (b1 \div 2) % 2 = f.tc /\ b1 % 2 = f.rd
  BY <1>1
<1>5. b2 \div 128 = f.ra /\ (b2 \div 16) % 8 = f.z /\ b2 % 16 = f.rcode
  BY <1>1
<1>6. f = [qr |-> f.qr, opcode |-> f.opcode, aa |-> f.aa, tc |-> f.tc, rd |-> f.rd,
           ra |-> f.ra, z |-> f.z, rcode |-> f.rcode]
  BY DEF Flags
<1> HIDE DEF b1, b2
<1>7. Decode(b1, b2) = f
  BY <1>4, <1>5, <1>6 DEF Decode
<1>8. QED
  BY <1>2, <1>3, <1>7

-----------------------------------------------------------------------------
(* Domain names.                                                           *)

\* What is flattened is put together one after the other.
LEMMA FlattenIs ==
  ASSUME NEW ss, Len(ss) \in Nat, Len(ss) # 0
  PROVE  \E f : /\ f = [i \in 1 .. Len(ss) |-> IF i = 1 THEN ss[i] ELSE f[i - 1] \o ss[i]]
                /\ FlattenSeq(ss) = f[Len(ss)]
<1> DEFINE Eq(f, n) == f = [i \in 1 .. n |-> IF i = 1 THEN ss[i] ELSE f[i - 1] \o ss[i]]
           Has == {n \in Nat : \E f : Eq(f, n)}
<1>1. 0 \in Has
  <2>1. Eq([i \in 1 .. 0 |-> 0], 0)
    OBVIOUS
  <2> QED
    BY <2>1
<1>2. ASSUME NEW n \in Has PROVE n + 1 \in Has
  <2>1. PICK f : Eq(f, n)
    OBVIOUS
  <2> DEFINE last == IF n + 1 = 1 THEN ss[n + 1] ELSE f[n] \o ss[n + 1]
             g == [i \in 1 .. n + 1 |-> IF i = n + 1 THEN last ELSE f[i]]
  <2>2. \A i \in 1 .. n : g[i] = f[i]
    OBVIOUS
  <2>3. ASSUME NEW i \in 1 .. n + 1 PROVE g[i] = IF i = 1 THEN ss[i] ELSE g[i - 1] \o ss[i]
    <3>1. CASE i = n + 1
      <4>1. g[i] = last
        BY <3>1
      <4>2. n # 0 => g[n] = f[n]
        BY <2>2
      <4> HIDE DEF g
      <4> QED
        BY <3>1, <4>1, <4>2
    <3>2. CASE i # n + 1
      <4>1. i \in 1 .. n /\ (i # 1 => i - 1 \in 1 .. n)
        BY <3>2
      <4>2. f[i] = IF i = 1 THEN ss[i] ELSE f[i - 1] \o ss[i]
        BY <2>1, <4>1
      <4> HIDE DEF g
      <4> QED
        BY <2>2, <4>1, <4>2
    <3> QED
      BY <3>1, <3>2
  <2>4. g = [i \in 1 .. n + 1 |-> g[i]]
    OBVIOUS
  <2> HIDE DEF g
  <2>5. Eq(g, n + 1)
    BY <2>3, <2>4
  <2>6. n + 1 \in Nat
    OBVIOUS
  <2> QED
    BY <2>5, <2>6
<1>3. Len(ss) \in Has
  <2> HIDE DEF Has
  <2>1. Has \subseteq Nat
    BY DEF Has
  <2> QED
    BY <1>1, <1>2, <2>1, Induction
<1> DEFINE c == CHOOSE f : Eq(f, Len(ss))
<1>4. Eq(c, Len(ss))
  BY <1>3
<1>5. FlattenSeq(ss) = c[Len(ss)]
  BY Zenon DEF FlattenSeq
<1> QED
  BY <1>4, <1>5

\* Names as RFC 1035 has them.
DomainNames == {name \in Seq(Seq(Byte)) : \A i \in 1 .. Len(name) : Len(name[i]) \in 1 .. 63}

\* The labels of a domain name.
LEMMA NamesAre ==
  ASSUME NEW name \in DomainNames
  PROVE  /\ name \in Seq(Seq(Byte)) /\ Len(name) \in Nat /\ DOMAIN name = 1 .. Len(name)
         /\ \A i \in 1 .. Len(name) : name[i] \in Seq(Byte) /\ Len(name[i]) \in 1 .. 63 /\ name[i] # <<>>
<1>1. name \in Seq(Seq(Byte)) /\ Len(name) \in Nat /\ DOMAIN name = 1 .. Len(name)
  BY LenProperties DEF DomainNames
<1>2. ASSUME NEW i \in 1 .. Len(name)
      PROVE  name[i] \in Seq(Byte) /\ Len(name[i]) \in 1 .. 63 /\ name[i] # <<>>
  <2>1. name[i] \in Seq(Byte)
    BY <1>1, ElementOfSeq
  <2>2. Len(name[i]) \in 1 .. 63
    BY DEF DomainNames
  <2> DEFINE label == name[i]
             len == Len(label)
  <2>a. label \in Seq(Byte) /\ len \in 1 .. 63 /\ (label = <<>> => len = 0)
    BY <2>1, <2>2, EmptySeq
  <2>3. name[i] # <<>>
    <3> HIDE DEF len
    <3> QED
      BY <2>a
  <2> QED
    BY <2>1, <2>2, <2>3
<1> QED
  BY <1>1, <1>2

\* A label with its length.
LabelBytes(label) == <<Len(label)>> \o label

\* The bytes of a name are those of its labels, one after the other, and zero.
LEMMA NameBytesIs ==
  ASSUME NEW name \in DomainNames
  PROVE  \E f : /\ f[0] = <<>>
                /\ \A i \in 1 .. Len(name) : f[i] = f[i - 1] \o LabelBytes(name[i])
                /\ NameBytes(name) = f[Len(name)] \o <<0>>
<1> DEFINE N == Len(name)
           ss == [i \in DOMAIN name |-> IF name[i] = <<>> THEN <<>> ELSE <<Len(name[i]) % 256>> \o name[i]]
<1>1. N \in Nat /\ DOMAIN name = 1 .. N
  BY NamesAre
<1>2. \A i \in 1 .. N : ss[i] = LabelBytes(name[i])
  <2> SUFFICES ASSUME NEW i \in 1 .. N PROVE ss[i] = LabelBytes(name[i])
    OBVIOUS
  <2>1. name[i] # <<>> /\ Len(name[i]) \in 1 .. 63
    BY NamesAre
  <2>2. \A len \in 1 .. 63 : len % 256 = len
    OBVIOUS
  <2>3. Len(name[i]) % 256 = Len(name[i])
    BY <2>1, <2>2
  <2>4. ss[i] = <<Len(name[i]) % 256>> \o name[i]
    BY <1>1, <2>1
  <2> QED
    BY <2>3, <2>4 DEF LabelBytes
<1>3. \A i \in 1 .. N : LabelBytes(name[i]) \in Seq(Byte)
  <2> SUFFICES ASSUME NEW i \in 1 .. N PROVE LabelBytes(name[i]) \in Seq(Byte)
    OBVIOUS
  <2>1. name[i] \in Seq(Byte) /\ Len(name[i]) \in Byte
    BY NamesAre DEF Byte
  <2>2. <<Len(name[i])>> \in Seq(Byte)
    BY <2>1
  <2> QED
    BY <2>1, <2>2, ConcatProperties DEF LabelBytes
<1>4. ss = [i \in 1 .. N |-> LabelBytes(name[i])]
  BY <1>1, <1>2
<1>5. NameBytes(name) = FlattenSeq(ss) \o <<0>>
  BY DEF NameBytes
<1> HIDE DEF ss
<1>6. ss \in Seq(Seq(Byte)) /\ Len(ss) = N
  BY <1>1, <1>3, <1>4
<1>7. CASE N = 0
  <2>1. ss = <<>>
    BY <1>6, <1>7, EmptySeq
  <2>2. FlattenSeq(ss) = <<>>
    BY <1>6, <1>7, <2>1 DEF FlattenSeq
  <2> DEFINE f == [i \in 0 .. 0 |-> <<>>]
  <2>3. f[0] = <<>> /\ f[N] = <<>>
    BY <1>7
  <2> HIDE DEF f
  <2>4. NameBytes(name) = f[N] \o <<0>>
    BY <1>5, <2>2, <2>3
  <2> QED
    BY <1>7, <2>3, <2>4
<1>8. CASE N # 0
  <2>1. PICK g : /\ g = [i \in 1 .. N |-> IF i = 1 THEN ss[i] ELSE g[i - 1] \o ss[i]]
                 /\ FlattenSeq(ss) = g[N]
    <3>1. Len(ss) \in Nat /\ Len(ss) # 0
      BY <1>1, <1>6, <1>8
    <3>2. \E g : /\ g = [i \in 1 .. Len(ss) |-> IF i = 1 THEN ss[i] ELSE g[i - 1] \o ss[i]]
                 /\ FlattenSeq(ss) = g[Len(ss)]
      BY <3>1, FlattenIs
    <3> QED
      BY <1>6, <3>2
  <2> DEFINE f == [i \in 0 .. N |-> IF i = 0 THEN <<>> ELSE g[i]]
  <2>2. f[0] = <<>> /\ \A i \in 1 .. N : f[i] = g[i]
    BY <1>1
  <2> HIDE DEF f
  <2>3. ASSUME NEW i \in 1 .. N PROVE f[i] = f[i - 1] \o LabelBytes(name[i])
    <3> DEFINE s == LabelBytes(name[i])
    <3>0. ss[i] = s /\ s \in Seq(Byte) /\ i \in Nat
      BY <1>1, <1>3, <1>4
    <3>1. g[i] = IF i = 1 THEN ss[i] ELSE g[i - 1] \o ss[i]
      BY <2>1
    <3> HIDE DEF s
    <3>2. CASE i = 1
      <4>1. f[i - 1] = <<>> /\ <<>> \o s = s
        BY <2>2, <3>0, <3>2, ConcatEmptySeq
      <4> QED
        BY <2>2, <3>0, <3>1, <3>2, <4>1 DEF s
    <3>3. CASE i # 1
      <4>1. i - 1 \in 1 .. N
        BY <1>1, <3>3
      <4>2. f[i - 1] = g[i - 1]
        BY <2>2, <4>1
      <4> QED
        BY <2>2, <3>0, <3>1, <3>3, <4>2 DEF s
    <3> QED
      BY <3>2, <3>3
  <2>4. N \in 1 .. N
    BY <1>1, <1>8
  <2>5. NameBytes(name) = f[N] \o <<0>>
    BY <1>5, <2>1, <2>2, <2>4
  <2> QED
    BY <2>2, <2>3, <2>5
<1> QED
  BY <1>7, <1>8

\* Appended bytes are behind the others, which stay.
LEMMA Appended ==
  ASSUME NEW T, NEW s \in Seq(T), NEW t \in Seq(T)
  PROVE  /\ s \o t \in Seq(T) /\ Len(s \o t) = Len(s) + Len(t)
         /\ Len(s) \in Nat /\ Len(t) \in Nat
         /\ \A i \in 1 .. Len(s) : (s \o t)[i] = s[i]
         /\ \A i \in 1 .. Len(t) : (s \o t)[Len(s) + i] = t[i]
<1>1. Len(s) \in Nat /\ Len(t) \in Nat
  BY LenProperties
<1> DEFINE u == s \o t
           m == Len(s)
           n == Len(t)
<1>2. /\ u \in Seq(T) /\ Len(u) = m + n
      /\ \A i \in 1 .. m + n : u[i] = IF i <= m THEN s[i] ELSE t[i - m]
  BY ConcatProperties
<1>3. m \in Nat /\ n \in Nat
  BY <1>1
<1> HIDE DEF u, m, n
<1>4. \A i \in 1 .. m : u[i] = s[i]
  BY <1>2, <1>3
<1>5. ASSUME NEW i \in 1 .. n PROVE u[m + i] = t[i]
  <2>1. m + i \in 1 .. m + n /\ ~ (m + i <= m) /\ (m + i) - m = i
    BY <1>3
  <2> QED
    BY <1>2, <2>1
<1> QED
  BY <1>1, <1>2, <1>4, <1>5 DEF u, m, n

\* Where the labels of a name are among its bytes.
Layout(name, bytes, pos, k) ==
  /\ pos[0] = 0
  /\ \A i \in 1 .. k : /\ pos[i] = pos[i - 1] + 1 + Len(name[i]) /\ pos[i - 1] \in Nat
                       /\ bytes[pos[i - 1] + 1] = Len(name[i])
                       /\ \A j \in 1 .. Len(name[i]) : bytes[pos[i - 1] + 1 + j] = name[i][j]
  /\ pos[k] \in Nat

\* How a name is written: its labels one behind the other, then a zero.
LEMMA LayoutIs ==
  ASSUME NEW name \in DomainNames
  PROVE  /\ NameBytes(name) \in Seq(Byte)
         /\ \E pos : /\ Layout(name, NameBytes(name), pos, Len(name))
                     /\ Len(NameBytes(name)) = pos[Len(name)] + 1
                     /\ NameBytes(name)[pos[Len(name)] + 1] = 0
                     /\ \A i \in 0 .. Len(name) : pos[i] \in Nat /\ pos[i] <= pos[Len(name)]
<1> DEFINE N == Len(name)
<1>1. PICK f : /\ f[0] = <<>>
               /\ \A i \in 1 .. N : f[i] = f[i - 1] \o LabelBytes(name[i])
               /\ NameBytes(name) = f[N] \o <<0>>
  BY NameBytesIs
<1>2. N \in Nat /\ \A i \in 1 .. N : name[i] \in Seq(Byte) /\ Len(name[i]) \in 1 .. 63
  BY NamesAre
<1> DEFINE pos == [i \in 0 .. N |-> Len(f[i])]
<1>3. \A i \in 0 .. N : pos[i] = Len(f[i])
  OBVIOUS
<1> HIDE DEF N, pos
<1>4. ASSUME NEW i \in 1 .. N
      PROVE  /\ LabelBytes(name[i]) \in Seq(Byte) /\ Len(LabelBytes(name[i])) = 1 + Len(name[i])
             /\ LabelBytes(name[i])[1] = Len(name[i])
             /\ \A j \in 1 .. Len(name[i]) : LabelBytes(name[i])[1 + j] = name[i][j]
  <2> DEFINE s == <<Len(name[i])>>
             t == name[i]
  <2>1. t \in Seq(Byte) /\ Len(t) \in 1 .. 63
    BY <1>2
  <2>2. s \in Seq(Byte) /\ Len(s) = 1 /\ s[1] = Len(t)
    BY <2>1 DEF Byte
  <2>3. LabelBytes(name[i]) = s \o t
    BY DEF LabelBytes
  <2> HIDE DEF s
  <2> HIDE DEF t
  <2>4. /\ s \o t \in Seq(Byte) /\ Len(s \o t) = 1 + Len(t) /\ (s \o t)[1] = s[1]
        /\ \A j \in 1 .. Len(t) : (s \o t)[1 + j] = t[j]
    <3>1. /\ s \o t \in Seq(Byte) /\ Len(s \o t) = Len(s) + Len(t)
          /\ \A i0 \in 1 .. Len(s) : (s \o t)[i0] = s[i0]
          /\ \A j \in 1 .. Len(t) : (s \o t)[Len(s) + j] = t[j]
      <4>1. s \in Seq(Byte) /\ t \in Seq(Byte)
        BY <2>1, <2>2
      <4> QED
        BY <4>1, Appended
    <3>2. 1 \in 1 .. Len(s)
      BY <2>2
    <3>3. (s \o t)[1] = s[1]
      BY <3>1, <3>2
    <3> QED
      BY <2>2, <3>1, <3>3
  <2> QED
    BY <2>2, <2>3, <2>4 DEF t
<1> DEFINE Has == {k \in Nat : k <= N => f[k] \in Seq(Byte) /\ Layout(name, f[k], pos, k)
                                         /\ \A i \in 0 .. k : pos[i] \in Nat /\ pos[i] <= pos[k]}
<1>5. 0 \in Has
  <2>1. f[0] \in Seq(Byte) /\ Len(f[0]) = 0 /\ pos[0] = 0
    BY <1>1, <1>2, <1>3, EmptySeq
  <2>2. Layout(name, f[0], pos, 0)
    BY <2>1 DEF Layout
  <2> QED
    BY <2>1, <2>2
<1>6. ASSUME NEW k \in Has PROVE k + 1 \in Has
  <2> SUFFICES ASSUME k + 1 <= N
               PROVE  /\ f[k + 1] \in Seq(Byte) /\ Layout(name, f[k + 1], pos, k + 1)
                      /\ \A i \in 0 .. k + 1 : pos[i] \in Nat /\ pos[i] <= pos[k + 1]
    OBVIOUS
  <2> DEFINE s == f[k]
             t == LabelBytes(name[k + 1])
             u == f[k + 1]
             n == Len(name[k + 1])
  <2>1. /\ s \in Seq(Byte) /\ Layout(name, s, pos, k) /\ k \in Nat
        /\ \A i \in 0 .. k : pos[i] \in Nat /\ pos[i] <= pos[k]
    BY <1>2
  <2>2. /\ t \in Seq(Byte) /\ Len(t) = 1 + n /\ t[1] = n /\ n \in 1 .. 63
        /\ \A j \in 1 .. n : t[1 + j] = name[k + 1][j]
    <3>1. k + 1 \in 1 .. N
      BY <1>2
    <3> QED
      BY <1>2, <1>4, <3>1
  <2>3. u = s \o t
    <3>1. k + 1 \in 1 .. N /\ (k + 1) - 1 = k
      BY <1>2
    <3> QED
      BY <1>1, <3>1 DEF N
  <2>4. pos[k] = Len(s) /\ pos[k + 1] = Len(u)
    BY <1>2, <1>3
  <2> HIDE DEF s, t, u, n
  <2>5. /\ u \in Seq(Byte) /\ Len(u) = Len(s) + 1 + n /\ Len(s) \in Nat
        /\ \A i \in 1 .. Len(s) : u[i] = s[i]
        /\ \A i \in 1 .. 1 + n : u[Len(s) + i] = t[i]
    <3>1. /\ s \o t \in Seq(Byte) /\ Len(s \o t) = Len(s) + Len(t)
          /\ Len(s) \in Nat
          /\ \A i \in 1 .. Len(s) : (s \o t)[i] = s[i]
          /\ \A i \in 1 .. Len(t) : (s \o t)[Len(s) + i] = t[i]
      <4>1. s \in Seq(Byte) /\ t \in Seq(Byte)
        BY <2>1, <2>2
      <4> QED
        BY <4>1, Appended, SMTT(60)
    <3>2. Len(t) = 1 + n /\ n \in Nat
      BY <2>2
    <3> DEFINE l == Len(s)
    <3>3. l \in Nat /\ Len(u) = l + (1 + n) /\ u \in Seq(Byte)
      BY <2>3, <3>1, <3>2
    <3>4. \A i \in 1 .. l : u[i] = s[i]
      BY <2>3, <3>1
    <3>5. \A i \in 1 .. 1 + n : u[l + i] = t[i]
      BY <2>3, <3>1, <3>2
    <3> HIDE DEF l
    <3>6. Len(u) = l + 1 + n
      BY <3>2, <3>3
    <3> QED
      BY <3>3, <3>4, <3>5, <3>6 DEF l
  <2>6. pos[k + 1] = pos[k] + 1 + n /\ pos[k] \in Nat /\ pos[k + 1] \in Nat
    BY <2>2, <2>4, <2>5
  <2>7. ASSUME NEW i \in 1 .. k + 1
        PROVE  /\ pos[i] = pos[i - 1] + 1 + Len(name[i]) /\ pos[i - 1] \in Nat
               /\ u[pos[i - 1] + 1] = Len(name[i])
               /\ \A j \in 1 .. Len(name[i]) : u[pos[i - 1] + 1 + j] = name[i][j]
    <3>1. CASE i = k + 1
      <4>0. i - 1 = k /\ Len(name[i]) = n
        BY <2>1, <3>1 DEF n
      <4>1. u[pos[k] + 1] = n
        BY <2>2, <2>4, <2>5
      <4>2. ASSUME NEW j \in 1 .. n PROVE u[pos[k] + 1 + j] = name[k + 1][j]
        <5>1. 1 + j \in 1 .. 1 + n /\ pos[k] + 1 + j = Len(s) + (1 + j)
          BY <2>2, <2>4, <2>5
        <5> QED
          BY <2>2, <2>5, <5>1
      <4> QED
        BY <2>6, <3>1, <4>0, <4>1, <4>2
    <3>2. CASE i # k + 1
      <4>1. i \in 1 .. k /\ i \in 0 .. k
        BY <2>1, <3>2
      <4>2. /\ pos[i] = pos[i - 1] + 1 + Len(name[i]) /\ pos[i - 1] \in Nat
            /\ s[pos[i - 1] + 1] = Len(name[i])
            /\ \A j \in 1 .. Len(name[i]) : s[pos[i - 1] + 1 + j] = name[i][j]
        BY <2>1, <4>1 DEF Layout
      <4>3. Len(name[i]) \in 1 .. 63
        BY <1>2, <2>1, <4>1
      <4>4. pos[i] <= Len(s) /\ pos[i] \in Nat
        BY <2>1, <2>4, <4>1
      <4>5. /\ pos[i - 1] + 1 \in 1 .. Len(s)
            /\ \A j \in 1 .. Len(name[i]) : pos[i - 1] + 1 + j \in 1 .. Len(s)
        <5> DEFINE p == pos[i - 1]
                   q == pos[i]
                   len == Len(name[i])
                   m == Len(s)
        <5>1. p \in Nat /\ q = p + 1 + len /\ len \in 1 .. 63 /\ q <= m /\ m \in Nat
          BY <2>5, <4>2, <4>3, <4>4
        <5> HIDE DEF p, q, len, m
        <5>2. p + 1 \in 1 .. m /\ \A j \in 1 .. len : p + 1 + j \in 1 .. m
          BY <5>1
        <5> QED
          BY <5>2 DEF p, len, m
      <4> QED
        BY <2>5, <4>2, <4>5
    <3> QED
      BY <3>1, <3>2
  <2>8. Layout(name, u, pos, k + 1)
    <3>1. pos[0] = 0
      BY <2>1 DEF Layout
    <3> QED
      BY <2>6, <2>7, <3>1 DEF Layout
  <2>9. \A i \in 0 .. k + 1 : pos[i] \in Nat /\ pos[i] <= pos[k + 1]
    <3> SUFFICES ASSUME NEW i \in 0 .. k + 1 PROVE pos[i] \in Nat /\ pos[i] <= pos[k + 1]
      OBVIOUS
    <3>1. i = k + 1 \/ i \in 0 .. k
      BY <2>1
    <3>2. pos[k] <= pos[k + 1]
      BY <2>2, <2>6
    <3> QED
      BY <2>1, <2>6, <3>1, <3>2
  <2> QED
    BY <2>5, <2>8, <2>9 DEF u
<1>7. N \in Has
  <2> HIDE DEF Has
  <2>1. Has \subseteq Nat
    BY DEF Has
  <2> QED
    BY <1>2, <1>5, <1>6, <2>1, Induction
<1> DEFINE s == f[N]
           b == s \o <<0>>
<1>8. /\ s \in Seq(Byte) /\ Layout(name, s, pos, N)
      /\ \A i \in 0 .. N : pos[i] \in Nat /\ pos[i] <= pos[N]
  BY <1>2, <1>7
<1>9. NameBytes(name) = b /\ pos[N] = Len(s)
  BY <1>1, <1>2, <1>3 DEF N
<1> HIDE DEF s
<1>10. /\ b \in Seq(Byte) /\ Len(b) = Len(s) + 1 /\ Len(s) \in Nat
       /\ \A i \in 1 .. Len(s) : b[i] = s[i]
       /\ b[Len(s) + 1] = 0
  <2> DEFINE z == <<0>>
  <2>1. z \in Seq(Byte) /\ Len(z) = 1 /\ z[1] = 0
    BY DEF Byte
  <2> HIDE DEF z
  <2>2. /\ s \o z \in Seq(Byte) /\ Len(s \o z) = Len(s) + 1 /\ Len(s) \in Nat
       /\ \A i \in 1 .. Len(s) : (s \o z)[i] = s[i]
       /\ (s \o z)[Len(s) + 1] = z[1]
    <3>1. /\ s \o z \in Seq(Byte) /\ Len(s \o z) = Len(s) + Len(z) /\ Len(s) \in Nat
          /\ \A i \in 1 .. Len(s) : (s \o z)[i] = s[i]
          /\ \A j \in 1 .. Len(z) : (s \o z)[Len(s) + j] = z[j]
      <4>1. s \in Seq(Byte) /\ z \in Seq(Byte)
        BY <1>8, <2>1
      <4> QED
        BY <4>1, Appended
    <3>2. 1 \in 1 .. Len(z)
      BY <2>1
    <3>3. (s \o z)[Len(s) + 1] = z[1]
      BY <3>1, <3>2
    <3> QED
      BY <2>1, <3>1, <3>3
  <2> QED
    BY <2>1, <2>2 DEF z
<1> HIDE DEF b
<1>11. Layout(name, b, pos, N)
  <2> SUFFICES ASSUME NEW i \in 1 .. N
               PROVE  /\ pos[i] = pos[i - 1] + 1 + Len(name[i]) /\ pos[i - 1] \in Nat
                      /\ b[pos[i - 1] + 1] = Len(name[i])
                      /\ \A j \in 1 .. Len(name[i]) : b[pos[i - 1] + 1 + j] = name[i][j]
    BY <1>8 DEF Layout
  <2>2. /\ pos[i] = pos[i - 1] + 1 + Len(name[i]) /\ pos[i - 1] \in Nat
        /\ s[pos[i - 1] + 1] = Len(name[i])
        /\ \A j \in 1 .. Len(name[i]) : s[pos[i - 1] + 1 + j] = name[i][j]
    BY <1>8 DEF Layout
  <2>3. Len(name[i]) \in 1 .. 63
    BY <1>2
  <2>4. pos[i] <= Len(s) /\ pos[i] \in Nat
    <3>1. i \in 0 .. N
      BY <1>2
    <3> QED
      BY <1>8, <1>9, <3>1
  <2>5. /\ pos[i - 1] + 1 \in 1 .. Len(s)
        /\ \A j \in 1 .. Len(name[i]) : pos[i - 1] + 1 + j \in 1 .. Len(s)
    <3> DEFINE p == pos[i - 1]
               q == pos[i]
               len == Len(name[i])
               m == Len(s)
    <3>1. p \in Nat /\ q = p + 1 + len /\ len \in 1 .. 63 /\ q <= m /\ m \in Nat
      BY <1>10, <2>2, <2>3, <2>4
    <3> HIDE DEF p, q, len, m
    <3>2. p + 1 \in 1 .. m /\ \A j \in 1 .. len : p + 1 + j \in 1 .. m
      BY <3>1
    <3> QED
      BY <3>2 DEF p, len, m
  <2> QED
    BY <1>10, <2>2, <2>5
<1> QED
  BY <1>8, <1>9, <1>10, <1>11 DEF N

\* What LabelsFrom says at an offset, with what it says behind the label there.
LabelsAt(data, p, rest) ==
  CASE p = Len(data) -> [parts |-> <<>>, end |-> "short", at |-> p]
    [] p < Len(data) /\ data[p + 1] = 0 -> [parts |-> <<>>, end |-> "root", at |-> p + 1]
    [] p < Len(data) /\ data[p + 1] > 63 -> [parts |-> <<>>, end |-> "pointer", at |-> p]
    [] p < Len(data) /\ data[p + 1] \in 1..63 /\ p + 1 + data[p + 1] > Len(data) ->
         [parts |-> <<>>, end |-> "short", at |-> p]
    [] OTHER -> [rest EXCEPT !.parts = <<SubSeq(data, p + 2, p + 1 + data[p + 1])>> \o @]

\* A whole label is there.
Labelled(data, p) == p < Len(data) /\ data[p + 1] \in 1 .. 63 /\ p + 1 + data[p + 1] <= Len(data)

\* Where no label is, what follows it does not matter.
LEMMA LabelsAtIs ==
  ASSUME NEW data \in Seq(Byte), NEW p \in 0 .. Len(data), NEW r1, NEW r2, ~ Labelled(data, p)
  PROVE  LabelsAt(data, p, r1) = LabelsAt(data, p, r2)
<1> DEFINE n == data[p + 1]
           len == Len(data)
<1>1. len \in Nat /\ (p < len => n \in Byte)
  <2>1. len \in Nat
    BY LenProperties
  <2>2. ASSUME p < len PROVE n \in Byte
    <3>1. p + 1 \in 1 .. Len(data)
      BY <2>1, <2>2
    <3> QED
      BY <3>1, ElementOfSeq
  <2> QED
    BY <2>1, <2>2
<1>2. ~ (p < len /\ n \in 1 .. 63 /\ p + 1 + n <= len)
  BY DEF Labelled
<1> HIDE DEF n, len
<1>3. \/ p = len
      \/ p < len /\ n = 0
      \/ p < len /\ n > 63
      \/ p < len /\ n \in 1 .. 63 /\ p + 1 + n > len
  <2>0. p \in 0 .. len
    BY DEF len
  <2>1. CASE p = len
    BY <2>1
  <2>2. CASE p < len
    <3>1. n \in 0 .. 255
      BY <1>1, <2>2 DEF Byte
    <3> QED
      BY <1>1, <1>2, <2>2, <3>1, <2>0
  <2> QED
    BY <2>0, <2>1, <2>2, <1>1
<1> QED
  BY <1>3 DEF LabelsAt, n, len

\* The recursive function LabelsFrom satisfies its equation at each place.
LEMMA LabelsFromIs ==
  ASSUME NEW data \in Seq(Byte), NEW p \in 0 .. Len(data)
  PROVE  /\ ~ Labelled(data, p) => \A r : LabelsFrom(data, p) = LabelsAt(data, p, r)
         /\ Labelled(data, p) => /\ p + 1 + data[p + 1] \in 0 .. Len(data)
                                 /\ LabelsFrom(data, p) = LabelsAt(data, p, LabelsFrom(data, p + 1 + data[p + 1]))
<1> DEFINE N == Len(data)
           To(q) == q + 1 + data[q + 1]
           Eq(f, k) == f = [q \in N - k .. N |-> LabelsAt(data, q, f[To(q)])]
           Has == {k \in Nat : k <= N => \E f : Eq(f, k)}
<1>0. N \in Nat
  BY LenProperties
<1>1. \A q \in 0 .. N : Labelled(data, q) => To(q) \in q + 1 .. N
  <2> SUFFICES ASSUME NEW q \in 0 .. N, Labelled(data, q) PROVE To(q) \in q + 1 .. N
    OBVIOUS
  <2> DEFINE n == data[q + 1]
             len == N
  <2>1. n \in 1 .. 63 /\ q + 1 + n <= len
    BY DEF Labelled
  <2>2. len \in Nat /\ q \in 0 .. len
    BY <1>0
  <2> HIDE DEF n, len
  <2>3. q + 1 + n \in q + 1 .. len
    BY <2>1, <2>2
  <2> QED
    BY <2>3 DEF n, len
<1> HIDE DEF N, To
<1>2. 0 \in Has
  <2> DEFINE r == LabelsAt(data, N, 0)
             f == [q \in N - 0 .. N |-> r]
  <2>1. ~ Labelled(data, N)
    BY <1>0 DEF Labelled, N
  <2>2. \A q \in N - 0 .. N : q = N
    BY <1>0
  <2>3. N \in 0 .. Len(data)
    BY <1>0 DEF N
  <2>4. \A q \in N - 0 .. N : LabelsAt(data, q, f[To(q)]) = r
    BY <2>1, <2>2, <2>3, LabelsAtIs
  <2> HIDE DEF r
  <2>5. f = [q \in N - 0 .. N |-> LabelsAt(data, q, f[To(q)])]
    BY <2>4
  <2> HIDE DEF f
  <2>6. Eq(f, 0)
    BY <2>5
  <2> QED
    BY <2>6
<1>3. ASSUME NEW k \in Has PROVE k + 1 \in Has
  <2> SUFFICES ASSUME k + 1 <= N PROVE \E f : Eq(f, k + 1)
    OBVIOUS
  <2>1. PICK f : Eq(f, k)
    BY <1>0
  <2> DEFINE m == N - (k + 1)
             last == LabelsAt(data, m, f[To(m)])
             g == [q \in m .. N |-> IF q = m THEN last ELSE f[q]]
  <2>2. k \in Nat /\ m \in 0 .. N /\ N - k = m + 1 /\ m < N
    BY <1>0
  <2> HIDE DEF m
  <2>3. g[m] = last /\ \A q \in m + 1 .. N : g[q] = f[q]
    BY <1>0, <2>2
  <2>4. \A q \in m + 1 .. N : f[q] = LabelsAt(data, q, f[To(q)])
    BY <2>1, <2>2
  <2>5. g = [q \in m .. N |-> g[q]]
    OBVIOUS
  <2> HIDE DEF g
  <2>6. ASSUME NEW q \in m .. N PROVE LabelsAt(data, q, g[To(q)]) = LabelsAt(data, q, f[To(q)])
    <3>1. CASE Labelled(data, q)
      <4>1. q \in 0 .. N /\ q \in Int
        BY <1>0, <2>2
      <4>2. To(q) \in q + 1 .. N
        BY <1>1, <3>1, <4>1
      <4>3. To(q) \in m + 1 .. N
        BY <2>2, <4>1, <4>2, <1>0
      <4> QED
        BY <2>3, <4>3
    <3>2. CASE ~ Labelled(data, q)
      <4>1. q \in 0 .. Len(data)
        BY <1>0, <2>2 DEF N
      <4> QED
        BY <3>2, <4>1, LabelsAtIs
    <3> QED
      BY <3>1, <3>2
  <2>7. ASSUME NEW q \in m .. N PROVE g[q] = LabelsAt(data, q, g[To(q)])
    <3>1. CASE q = m
      BY <2>3, <2>6, <3>1
    <3>2. CASE q # m
      <4>1. q \in m + 1 .. N
        BY <1>0, <2>2, <3>2
      <4> QED
        BY <2>3, <2>4, <2>6, <4>1
    <3> QED
      BY <3>1, <3>2
  <2>8. Eq(g, k + 1)
    BY <2>5, <2>7 DEF m
  <2> QED
    BY <2>8
<1>4. N \in Has
  <2> HIDE DEF Has
  <2>1. Has \subseteq Nat
    BY DEF Has
  <2> QED
    BY <1>0, <1>2, <1>3, <2>1, Induction
<1> DEFINE EqN(f) == f = [q \in 0 .. N |-> LabelsAt(data, q, f[To(q)])]
           c == CHOOSE f : EqN(f)
<1>5. EqN(c)
  <2>1. PICK f : Eq(f, N)
    BY <1>0, <1>4
  <2>2. N - N = 0
    BY <1>0
  <2>3. EqN(f)
    BY <2>1, <2>2
  <2> QED
    BY <2>3
<1>6. ASSUME NEW q \in 0 .. N PROVE LabelsFrom(data, q) = c[q]
  <2>1. ~ (q > Len(data))
    BY <1>0 DEF N
  <2> QED
    BY <2>1, Zenon DEF LabelsFrom, LabelsAt, To, N
<1> HIDE DEF c
<1>7. \A q \in 0 .. N : c[q] = LabelsAt(data, q, c[To(q)])
  BY <1>5
<1>8. p \in 0 .. N
  BY DEF N
<1>9. LabelsFrom(data, p) = LabelsAt(data, p, c[To(p)])
  BY <1>6, <1>7, <1>8
<1>10. CASE Labelled(data, p)
  <2>1. To(p) \in 0 .. N
    BY <1>0, <1>1, <1>8, <1>10
  <2>2. LabelsFrom(data, To(p)) = c[To(p)]
    BY <1>6, <2>1
  <2>3. LabelsFrom(data, p) = LabelsAt(data, p, LabelsFrom(data, To(p)))
    BY <1>9, <2>2
  <2> QED
    BY <1>10, <2>1, <2>3 DEF To, N
<1>11. CASE ~ Labelled(data, p)
  BY <1>9, <1>11, LabelsAtIs
<1> QED
  BY <1>10, <1>11

-----------------------------------------------------------------------------
(* Bytes at their place in a stream.                                       *)

\* The bytes are in the data behind the first p.
Placed(data, p, bytes) ==
  /\ p \in Nat /\ p + Len(bytes) <= Len(data)
  /\ \A i \in 1 .. Len(bytes) : data[p + i] = bytes[i]

\* What is placed is placed in its parts.
LEMMA PlacedParts ==
  ASSUME NEW T, NEW data \in Seq(T), NEW p \in Nat, NEW s \in Seq(T), NEW t \in Seq(T), Placed(data, p, s \o t)
  PROVE  /\ Placed(data, p, s) /\ Placed(data, p + Len(s), t)
         /\ Len(s \o t) = Len(s) + Len(t) /\ s \o t \in Seq(T)
<1> DEFINE m == Len(s)
           n == Len(t)
           u == s \o t
           len == Len(data)
<1>1. /\ m \in Nat /\ n \in Nat /\ len \in Nat /\ Len(u) = m + n /\ u \in Seq(T)
      /\ \A i \in 1 .. m : u[i] = s[i]
      /\ \A i \in 1 .. n : u[m + i] = t[i]
  BY Appended, LenProperties
<1>2. p + (m + n) <= len /\ \A i \in 1 .. m + n : data[p + i] = u[i]
  <2> HIDE DEF u, m, n
  <2> QED
    BY <1>1 DEF Placed, u, m, n
<1> HIDE DEF m, n, u, len
<1>3. p + m <= len /\ p + m + n <= len
  BY <1>1, <1>2
<1>4. \A i \in 1 .. m : data[p + i] = s[i]
  BY <1>1, <1>2
<1>5. ASSUME NEW i \in 1 .. n PROVE data[p + m + i] = t[i]
  <2>1. m + i \in 1 .. m + n /\ p + m + i = p + (m + i)
    BY <1>1
  <2> QED
    BY <1>1, <1>2, <2>1
<1>6. p + m \in Nat
  BY <1>1
<1>7. Placed(data, p, s)
  BY <1>3, <1>4 DEF Placed, m, len
<1>8. Placed(data, p + Len(s), t)
  BY <1>3, <1>5, <1>6 DEF Placed, m, n, len
<1> QED
  BY <1>1, <1>7, <1>8 DEF m, n, u

\* Text that is followed by more is still there.
LEMMA PlacedLonger ==
  ASSUME NEW T, NEW s \in Seq(T), NEW t \in Seq(T), NEW bytes \in Seq(T), Placed(s, 0, bytes)
  PROVE  Placed(s \o t, 0, bytes)
<1> DEFINE x == s \o t
           k == Len(bytes)
           l == Len(s)
<1>1. x \in Seq(T) /\ Len(x) = l + Len(t) /\ Len(t) \in Nat /\ l \in Nat /\ \A i \in 1 .. l : x[i] = s[i]
  BY Appended
<1>2. k \in Nat /\ 0 + k <= l /\ \A i \in 1 .. k : s[0 + i] = bytes[i]
  BY LenProperties DEF Placed
<1> HIDE DEF x, k, l
<1>3. 0 + k <= Len(x) /\ \A i \in 1 .. k : x[0 + i] = bytes[i]
  BY <1>1, <1>2
<1> QED
  BY <1>3 DEF x, k, Placed

\* What is taken from there is the bytes.
LEMMA PlacedIs ==
  ASSUME NEW T, NEW data \in Seq(T), NEW p \in Nat, NEW s \in Seq(T), Placed(data, p, s)
  PROVE  SubSeq(data, p + 1, p + Len(s)) = s
<1> DEFINE n == Len(s)
           len == Len(data)
           sub == SubSeq(data, p + 1, p + n)
<1>1. n \in Nat /\ len \in Nat /\ p + n <= len /\ \A i \in 1 .. n : data[p + i] = s[i]
  BY LenProperties DEF Placed
<1>2. \A i \in p + 1 .. p + n : data[i] \in T
  <2> SUFFICES ASSUME NEW i \in p + 1 .. p + n PROVE data[i] \in T
    OBVIOUS
  <2> HIDE DEF n, len
  <2>1. i \in 1 .. len
    BY <1>1
  <2> QED
    BY <2>1, ElementOfSeq DEF len
<1>3. /\ sub \in Seq(T) /\ Len(sub) = (IF p + 1 <= p + n THEN (p + n) - (p + 1) + 1 ELSE 0)
      /\ \A i \in 1 .. (p + n) - (p + 1) + 1 : sub[i] = data[(p + 1) + i - 1]
  <2> HIDE DEF n
  <2>1. p + 1 \in Int /\ p + n \in Int
    BY <1>1
  <2> QED
    BY <1>2, <2>1, SubSeqProperties
<1> HIDE DEF n, sub
<1>4. Len(sub) = n
  BY <1>1, <1>3
<1>5. ASSUME NEW i \in 1 .. n PROVE sub[i] = s[i]
  <2>1. i \in 1 .. (p + n) - (p + 1) + 1 /\ (p + 1) + i - 1 = p + i
    BY <1>1
  <2> QED
    BY <1>1, <1>3, <2>1
<1> QED
  BY <1>3, <1>4, <1>5, SeqEqual DEF n, sub

\* A name that is placed somewhere is what is read there, up to the zero.
LEMMA NameIsRead ==
  ASSUME NEW data \in Seq(Byte), NEW p \in Nat, NEW name \in DomainNames, Placed(data, p, NameBytes(name))
  PROVE  LabelsFrom(data, p) = [parts |-> name, end |-> "root", at |-> p + Len(NameBytes(name))]
<1> DEFINE N == Len(name)
           bytes == NameBytes(name)
           len == Len(data)
           total == Len(bytes)
<1>1. N \in Nat /\ name \in Seq(Seq(Byte)) /\ \A i \in 1 .. N : name[i] \in Seq(Byte) /\ Len(name[i]) \in 1 .. 63
  BY NamesAre
<1>2. /\ bytes \in Seq(Byte)
      /\ \E pos : /\ Layout(name, bytes, pos, N)
                  /\ total = pos[N] + 1
                  /\ bytes[pos[N] + 1] = 0
                  /\ \A i \in 0 .. N : pos[i] \in Nat /\ pos[i] <= pos[N]
  BY LayoutIs
<1> HIDE DEF N, bytes, total
<1>3. PICK pos : /\ Layout(name, bytes, pos, N)
                 /\ total = pos[N] + 1
                 /\ bytes[pos[N] + 1] = 0
                 /\ \A i \in 0 .. N : pos[i] \in Nat /\ pos[i] <= pos[N]
  BY <1>2
<1>4. len \in Nat /\ total \in Nat /\ p + total <= len /\ \A i \in 1 .. total : data[p + i] = bytes[i]
  <2>1. len \in Nat /\ total \in Nat
    BY <1>2, LenProperties DEF total
  <2> QED
    BY <2>1 DEF Placed, bytes, total
<1> HIDE DEF len
<1> DEFINE EndAt(i) == LabelsFrom(data, p + pos[i]) = [parts |-> SubSeq(name, i + 1, N), end |-> "root", at |-> p + total]
           Has == {k \in Nat : k <= N => EndAt(N - k)}
<1>5. N \in 0 .. N /\ pos[N] \in Nat
  BY <1>1, <1>3
<1>6. EndAt(N)
  <2> DEFINE q == p + pos[N]
  <2>1. q \in 0 .. len /\ q < len /\ q + 1 = p + total /\ q + 1 = p + (pos[N] + 1) /\ pos[N] + 1 \in 1 .. total
    <3> DEFINE e == pos[N]
    <3>1. e \in Nat /\ total = e + 1 /\ len \in Nat /\ p + total <= len
      BY <1>3, <1>4, <1>5
    <3> HIDE DEF e
    <3>2. /\ p + e \in 0 .. len /\ p + e < len /\ p + e + 1 = p + total
          /\ p + e + 1 = p + (e + 1) /\ e + 1 \in 1 .. total
      BY <3>1
    <3> QED
      BY <3>2 DEF e
  <2>2. data[q + 1] = 0
    BY <1>3, <1>4, <2>1
  <2>3. SubSeq(name, N + 1, N) = <<>>
    BY <1>1, SubSeqProperties, EmptySeq
  <2> HIDE DEF q
  <2>4. ~ Labelled(data, q)
    BY <2>2 DEF Labelled
  <2>5. LabelsFrom(data, q) = LabelsAt(data, q, 0)
    BY <2>1, <2>4, LabelsFromIs DEF len
  <2>6. LabelsAt(data, q, 0) = [parts |-> <<>>, end |-> "root", at |-> q + 1]
    <3>1. q < Len(data) /\ q # Len(data)
      BY <2>1, <1>4 DEF len
    <3> QED
      BY <2>2, <3>1 DEF LabelsAt
  <2> QED
    BY <2>1, <2>3, <2>5, <2>6 DEF q
<1>7. ASSUME NEW i \in 1 .. N, EndAt(i) PROVE EndAt(i - 1)
  <2> DEFINE q == p + pos[i - 1]
             n == Len(name[i])
             label == name[i]
  <2>1. /\ pos[i] = pos[i - 1] + 1 + n /\ pos[i - 1] \in Nat
        /\ bytes[pos[i - 1] + 1] = n
        /\ \A j \in 1 .. n : bytes[pos[i - 1] + 1 + j] = label[j]
    BY <1>3 DEF Layout
  <2>2. label \in Seq(Byte) /\ n \in 1 .. 63 /\ n = Len(label)
    BY <1>1
  <2>3. pos[i] \in Nat /\ pos[i] <= pos[N]
    BY <1>1, <1>3
  <2> HIDE DEF n, label
  <2>4. /\ q \in 0 .. len /\ q < len /\ q + 1 + n = p + pos[i] /\ q + 1 + n <= len /\ q + 1 + n \in 0 .. len
        /\ q + 1 = p + (pos[i - 1] + 1) /\ pos[i - 1] + 1 \in 1 .. total /\ q + 1 \in Nat
        /\ \A j \in 1 .. n : pos[i - 1] + 1 + j \in 1 .. total /\ q + 1 + j = p + (pos[i - 1] + 1 + j)
    <3> DEFINE x == pos[i - 1]
               y == pos[i]
               z == pos[N]
    <3>1. x \in Nat /\ y = x + 1 + n /\ y <= z /\ z \in Nat /\ total = z + 1 /\ p + total <= len
          /\ len \in Nat /\ n \in 1 .. 63 /\ q = p + x
      BY <1>3, <1>4, <1>5, <2>1, <2>2, <2>3
    <3> HIDE DEF x, y, z, q
    <3>2. /\ q \in 0 .. len /\ q < len /\ q + 1 + n = p + y /\ q + 1 + n <= len /\ q + 1 + n \in 0 .. len
          /\ q + 1 = p + (x + 1) /\ x + 1 \in 1 .. total /\ q + 1 \in Nat
          /\ \A j \in 1 .. n : x + 1 + j \in 1 .. total /\ q + 1 + j = p + (x + 1 + j)
      BY <3>1
    <3> QED
      BY <3>2 DEF x, y
  <2>5. data[q + 1] = n
    <3> DEFINE x == pos[i - 1] + 1
    <3>1. x \in 1 .. total /\ q + 1 = p + x /\ bytes[x] = n
      BY <2>1, <2>4
    <3> HIDE DEF x, q
    <3>2. data[p + x] = bytes[x]
      BY <1>4, <3>1
    <3> QED
      BY <3>1, <3>2
  <2>6. ASSUME NEW j \in 1 .. n PROVE data[q + 1 + j] = label[j]
    <3>1. pos[i - 1] + 1 + j \in 1 .. total /\ q + 1 + j = p + (pos[i - 1] + 1 + j)
      BY <2>4
    <3> QED
      BY <1>4, <2>1, <3>1
  <2> HIDE DEF q
  <2>7. Placed(data, q + 1, label)
    BY <2>2, <2>4, <2>6 DEF Placed, len
  <2>8. SubSeq(data, q + 2, q + 1 + n) = label
    <3>1. q \in Nat /\ (q + 1) + 1 = q + 2
      BY <2>4
    <3> QED
      BY <2>2, <2>4, <2>7, <3>1, PlacedIs, ZenonT(60)
  <2>9. Labelled(data, q)
    BY <2>2, <2>4, <2>5 DEF Labelled, len
  <2> DEFINE rest == LabelsFrom(data, p + pos[i])
  <2>10. LabelsFrom(data, q) = LabelsAt(data, q, rest)
    <3>1. q \in 0 .. Len(data)
      BY <2>4 DEF len
    <3>2. LabelsFrom(data, q) = LabelsAt(data, q, LabelsFrom(data, q + 1 + data[q + 1]))
      BY <2>9, <3>1, LabelsFromIs
    <3> QED
      BY <2>4, <2>5, <3>2
  <2>11. LabelsAt(data, q, rest) = [rest EXCEPT !.parts = <<label>> \o @]
    <3>1. q # len /\ n # 0 /\ ~ (n > 63) /\ ~ (q + 1 + n > len)
      <4>1. n \in 1 .. 63 /\ q < len /\ q \in 0 .. len /\ len \in Nat /\ q + 1 + n <= len
        BY <1>4, <2>2, <2>4
      <4> QED
        BY <4>1
    <3> HIDE DEF rest
    <3> QED
      BY <2>5, <2>8, <3>1 DEF LabelsAt, len
  <2> DEFINE tail == SubSeq(name, i + 1, N)
  <2>12. rest = [parts |-> tail, end |-> "root", at |-> p + total]
    BY <1>7
  <2>13. <<label>> \o tail = SubSeq(name, i, N)
    <3>1. i \in 1 .. Len(name) /\ N \in i .. Len(name)
      BY <1>1 DEF N
    <3> QED
      BY <1>1, <3>1, SubSeqRecursiveFirst DEF label
  <2> HIDE DEF rest, tail
  <2>14. [rest EXCEPT !.parts = <<label>> \o @] = [parts |-> <<label>> \o tail, end |-> "root", at |-> p + total]
    <3> DEFINE new == <<label>> \o tail
               end == p + total
    <3> HIDE DEF end
    <3>1. rest = [parts |-> tail, end |-> "root", at |-> end]
      BY <2>12 DEF end
    <3>2. [rest EXCEPT !.parts = <<label>> \o @] = [rest EXCEPT !.parts = new]
      BY <3>1
    <3> HIDE DEF new
    <3>3. [rest EXCEPT !.parts = new] = [parts |-> new, end |-> "root", at |-> end]
      BY <3>1
    <3> QED
      BY <3>2, <3>3 DEF new, end
  <2>15. (i - 1) + 1 = i
    OBVIOUS
  <2> QED
    BY <2>10, <2>11, <2>13, <2>14, <2>15 DEF q
<1>8. 0 \in Has
  BY <1>1, <1>6
<1>9. ASSUME NEW k \in Has PROVE k + 1 \in Has
  <2> HIDE DEF EndAt
  <2> SUFFICES ASSUME k + 1 <= N PROVE EndAt(N - (k + 1))
    OBVIOUS
  <2>1. EndAt(N - k) /\ N - k \in 1 .. N /\ (N - k) - 1 = N - (k + 1)
    BY <1>1
  <2> QED
    BY <1>7, <2>1
<1>10. N \in Has
  <2> HIDE DEF Has
  <2>1. Has \subseteq Nat
    BY DEF Has
  <2> QED
    BY <1>1, <1>8, <1>9, <2>1, Induction
<1>11. EndAt(0)
  <2> HIDE DEF EndAt
  <2>1. N - N = 0 /\ N <= N
    BY <1>1
  <2> QED
    BY <1>10, <2>1
<1>12. pos[0] = 0
  BY <1>3 DEF Layout
<1>13. SubSeq(name, 1, N) = name
  BY <1>1, SubSeqFull DEF N
<1> QED
  <2>1. p + pos[0] = p /\ 0 + 1 = 1
    BY <1>12
  <2> QED
    BY <1>11, <1>13, <2>1 DEF bytes, total

-----------------------------------------------------------------------------
(* Sections of a message.                                                  *)

\* The fields that were read, one after the other.
LEMMA FieldsAre ==
  ASSUME NEW b, NEW kinds, Len(kinds) \in Nat
  PROVE  \E f : /\ f[0] = Gives(TRUE, <<>>, b)
                /\ \A i \in 1 .. Len(kinds) : f[i] = IF f[i - 1].ok THEN Followed(f[i - 1], ReadField(f[i - 1].to, kinds[i])) ELSE f[i - 1]
                /\ ReadFields(b, kinds) = f[Len(kinds)]
<1> DEFINE To(f, i) == IF i = 0 THEN Gives(TRUE, <<>>, b) ELSE IF f[i - 1].ok THEN Followed(f[i - 1], ReadField(f[i - 1].to, kinds[i])) ELSE f[i - 1]
           Eq(f, k) == f = [i \in 0 .. k |-> To(f, i)]
           Has == {k \in Nat : \E f : Eq(f, k)}
<1>1. 0 \in Has
  <2> DEFINE g == [i \in 0 .. 0 |-> Gives(TRUE, <<>>, b)]
  <2>1. g = [i \in 0 .. 0 |-> To(g, i)]
    OBVIOUS
  <2> HIDE DEF g
  <2>2. Eq(g, 0)
    BY <2>1
  <2> QED
    BY <2>2
<1>2. ASSUME NEW k \in Has PROVE k + 1 \in Has
  <2>1. PICK f : Eq(f, k)
    OBVIOUS
  <2> DEFINE last == To(f, k + 1)
             g == [i \in 0 .. k + 1 |-> IF i = k + 1 THEN last ELSE f[i]]
  <2> HIDE DEF last
  <2>2. k \in Nat /\ g[k + 1] = last /\ \A i \in 0 .. k : g[i] = f[i]
    OBVIOUS
  <2>3. g = [i \in 0 .. k + 1 |-> g[i]]
    OBVIOUS
  <2>4. \A i \in 0 .. k : f[i] = To(f, i)
    BY <2>1
  <2> HIDE DEF g
  <2>5. ASSUME NEW i \in 0 .. k + 1 PROVE g[i] = To(g, i)
    <3>1. i # 0 => i - 1 \in 0 .. k
      BY <2>2
    <3>2. i # 0 => g[i - 1] = f[i - 1]
      BY <2>2, <3>1
    <3>3. To(g, i) = To(f, i)
      BY <3>2, Zenon
    <3>4. CASE i = k + 1
      <4>1. g[i] = last /\ last = To(f, i)
        BY <2>2, <3>4 DEF last
      <4> HIDE DEF To
      <4> QED
        BY <3>3, <4>1
    <3>5. CASE i # k + 1
      <4>1. i \in 0 .. k
        BY <2>2, <3>5
      <4> QED
        BY <2>2, <2>4, <3>3, <4>1
    <3> QED
      BY <3>4, <3>5
  <2> HIDE DEF To
  <2>6. Eq(g, k + 1)
    BY <2>3, <2>5
  <2>7. k + 1 \in Nat
    BY <2>2
  <2> QED
    BY <2>6, <2>7
<1>3. Len(kinds) \in Has
  <2> HIDE DEF Has
  <2>1. Has \subseteq Nat
    BY DEF Has
  <2> QED
    BY <1>1, <1>2, <2>1, Induction
<1> DEFINE N == Len(kinds)
           c == CHOOSE f : f = [i \in 0 .. N |-> To(f, i)]
<1>4. c = [i \in 0 .. N |-> To(c, i)]
  <2> HIDE DEF To
  <2> QED
    BY <1>3
<1>5. ReadFields(b, kinds) = c[N]
  BY Zenon DEF ReadFields
<1>6. N \in Nat
  OBVIOUS
<1> HIDE DEF N, c
<1>7. \A i \in 0 .. N : c[i] = To(c, i)
  <2> HIDE DEF To
  <2> QED
    BY <1>4
<1>8. c[0] = Gives(TRUE, <<>>, b)
  <2>1. 0 \in 0 .. N
    BY <1>6
  <2>2. c[0] = To(c, 0)
    BY <1>7, <2>1
  <2> QED
    BY <2>2, Zenon
<1>9. ASSUME NEW i \in 1 .. N PROVE c[i] = IF c[i - 1].ok THEN Followed(c[i - 1], ReadField(c[i - 1].to, kinds[i])) ELSE c[i - 1]
  <2>1. i \in 0 .. N /\ i # 0
    BY <1>6
  <2>2. c[i] = To(c, i)
    BY <1>7, <2>1
  <2> QED
    BY <2>1, <2>2
<1>10. \A i \in 1 .. Len(kinds) : c[i] = IF c[i - 1].ok THEN Followed(c[i - 1], ReadField(c[i - 1].to, kinds[i])) ELSE c[i - 1]
  BY <1>9 DEF N
<1>11. ReadFields(b, kinds) = c[Len(kinds)]
  BY <1>5 DEF N
<1> WITNESS c
<1> QED
  BY <1>8, <1>10, <1>11

\* The elements of a section, one after the other.
LEMMA SectionIs ==
  ASSUME NEW section, NEW r, NEW lucky, NEW n \in Nat, n = r.value.header[Count[section]]
  PROVE  \E f : /\ f[0] = r
                /\ \A i \in 1 .. n : f[i] = IF f[i - 1].ok THEN ReadElement(section, f[i - 1], lucky) ELSE f[i - 1]
                /\ ReadSection(section, r, lucky) = f[n]
<1> DEFINE To(f, i) == IF i = 0 THEN r ELSE IF f[i - 1].ok THEN ReadElement(section, f[i - 1], lucky) ELSE f[i - 1]
           Eq(f, k) == f = [i \in 0 .. k |-> To(f, i)]
           Has == {k \in Nat : \E f : Eq(f, k)}
<1>1. 0 \in Has
  <2> DEFINE g == [i \in 0 .. 0 |-> r]
  <2>1. g = [i \in 0 .. 0 |-> To(g, i)]
    OBVIOUS
  <2> HIDE DEF g
  <2>2. Eq(g, 0)
    BY <2>1
  <2> QED
    BY <2>2
<1>2. ASSUME NEW k \in Has PROVE k + 1 \in Has
  <2>1. PICK f : Eq(f, k)
    OBVIOUS
  <2> DEFINE last == To(f, k + 1)
             g == [i \in 0 .. k + 1 |-> IF i = k + 1 THEN last ELSE f[i]]
  <2> HIDE DEF last
  <2>2. k \in Nat /\ g[k + 1] = last /\ \A i \in 0 .. k : g[i] = f[i]
    OBVIOUS
  <2>3. g = [i \in 0 .. k + 1 |-> g[i]]
    OBVIOUS
  <2>4. \A i \in 0 .. k : f[i] = To(f, i)
    BY <2>1
  <2> HIDE DEF g
  <2>5. ASSUME NEW i \in 0 .. k + 1 PROVE g[i] = To(g, i)
    <3>1. i # 0 => i - 1 \in 0 .. k
      BY <2>2
    <3>2. i # 0 => g[i - 1] = f[i - 1]
      BY <2>2, <3>1
    <3>3. To(g, i) = To(f, i)
      BY <3>2, Zenon
    <3>4. CASE i = k + 1
      <4>1. g[i] = last /\ last = To(f, i)
        BY <2>2, <3>4 DEF last
      <4> HIDE DEF To
      <4> QED
        BY <3>3, <4>1
    <3>5. CASE i # k + 1
      <4>1. i \in 0 .. k
        BY <2>2, <3>5
      <4> QED
        BY <2>2, <2>4, <3>3, <4>1
    <3> QED
      BY <3>4, <3>5
  <2> HIDE DEF To
  <2>6. Eq(g, k + 1)
    BY <2>3, <2>5
  <2>7. k + 1 \in Nat
    BY <2>2
  <2> QED
    BY <2>6, <2>7
<1>3. n \in Has
  <2> HIDE DEF Has
  <2>1. Has \subseteq Nat
    BY DEF Has
  <2> QED
    BY <1>1, <1>2, <2>1, Induction
<1> DEFINE N == n
           c == CHOOSE f : f = [i \in 0 .. N |-> To(f, i)]
<1>4. c = [i \in 0 .. N |-> To(c, i)]
  <2> HIDE DEF To
  <2> QED
    BY <1>3
<1>5. ReadSection(section, r, lucky) = c[N]
  BY Zenon DEF ReadSection
<1>6. N \in Nat
  OBVIOUS
<1> HIDE DEF N, c
<1>7. \A i \in 0 .. N : c[i] = To(c, i)
  <2> HIDE DEF To
  <2> QED
    BY <1>4
<1>8. c[0] = r
  <2>1. 0 \in 0 .. N
    BY <1>6
  <2>2. c[0] = To(c, 0)
    BY <1>7, <2>1
  <2> QED
    BY <2>2, Zenon
<1>9. ASSUME NEW i \in 1 .. N PROVE c[i] = IF c[i - 1].ok THEN ReadElement(section, c[i - 1], lucky) ELSE c[i - 1]
  <2>1. i \in 0 .. N /\ i # 0
    BY <1>6
  <2>2. c[i] = To(c, i)
    BY <1>7, <2>1
  <2> QED
    BY <2>1, <2>2
<1>10. \A i \in 1 .. n : c[i] = IF c[i - 1].ok THEN ReadElement(section, c[i - 1], lucky) ELSE c[i - 1]
  BY <1>9 DEF N
<1>11. ReadSection(section, r, lucky) = c[n]
  BY <1>5 DEF N
<1> WITNESS c
<1> QED
  BY <1>8, <1>10, <1>11

\* The records of a message, one after the other.
LEMMA PackedIs ==
  ASSUME NEW b, NEW m, Len(Records(m)) \in Nat
  PROVE  \E f : /\ f[0] = Write(b, HeaderBytes(m.header) \o FlattenSeq([q \in DOMAIN m.questions |-> QuestionBytes(m.questions[q])]))
                /\ \A i \in 1 .. Len(Records(m)) : f[i] = WriteRecord(f[i - 1], Records(m)[i])
                /\ Pack(b, m) = f[Len(Records(m))]
<1> DEFINE To(f, i) == IF i = 0 THEN Write(b, HeaderBytes(m.header) \o FlattenSeq([q \in DOMAIN m.questions |-> QuestionBytes(m.questions[q])])) ELSE WriteRecord(f[i - 1], Records(m)[i])
           Eq(f, k) == f = [i \in 0 .. k |-> To(f, i)]
           Has == {k \in Nat : \E f : Eq(f, k)}
<1>1. 0 \in Has
  <2> DEFINE g == [i \in 0 .. 0 |-> Write(b, HeaderBytes(m.header) \o FlattenSeq([q \in DOMAIN m.questions |-> QuestionBytes(m.questions[q])]))]
  <2>1. g = [i \in 0 .. 0 |-> To(g, i)]
    OBVIOUS
  <2> HIDE DEF g
  <2>2. Eq(g, 0)
    BY <2>1
  <2> QED
    BY <2>2
<1>2. ASSUME NEW k \in Has PROVE k + 1 \in Has
  <2>1. PICK f : Eq(f, k)
    OBVIOUS
  <2> DEFINE last == To(f, k + 1)
             g == [i \in 0 .. k + 1 |-> IF i = k + 1 THEN last ELSE f[i]]
  <2> HIDE DEF last
  <2>2. k \in Nat /\ g[k + 1] = last /\ \A i \in 0 .. k : g[i] = f[i]
    OBVIOUS
  <2>3. g = [i \in 0 .. k + 1 |-> g[i]]
    OBVIOUS
  <2>4. \A i \in 0 .. k : f[i] = To(f, i)
    BY <2>1
  <2> HIDE DEF g
  <2>5. ASSUME NEW i \in 0 .. k + 1 PROVE g[i] = To(g, i)
    <3>1. i # 0 => i - 1 \in 0 .. k
      BY <2>2
    <3>2. i # 0 => g[i - 1] = f[i - 1]
      BY <2>2, <3>1
    <3>3. To(g, i) = To(f, i)
      BY <3>2, Zenon
    <3>4. CASE i = k + 1
      <4>1. g[i] = last /\ last = To(f, i)
        BY <2>2, <3>4 DEF last
      <4> HIDE DEF To
      <4> QED
        BY <3>3, <4>1
    <3>5. CASE i # k + 1
      <4>1. i \in 0 .. k
        BY <2>2, <3>5
      <4> QED
        BY <2>2, <2>4, <3>3, <4>1
    <3> QED
      BY <3>4, <3>5
  <2> HIDE DEF To
  <2>6. Eq(g, k + 1)
    BY <2>3, <2>5
  <2>7. k + 1 \in Nat
    BY <2>2
  <2> QED
    BY <2>6, <2>7
<1>3. Len(Records(m)) \in Has
  <2> HIDE DEF Has
  <2>1. Has \subseteq Nat
    BY DEF Has
  <2> QED
    BY <1>1, <1>2, <2>1, Induction
<1> DEFINE N == Len(Records(m))
           c == CHOOSE f : f = [i \in 0 .. N |-> To(f, i)]
<1>4. c = [i \in 0 .. N |-> To(c, i)]
  <2> HIDE DEF To
  <2> QED
    BY <1>3
<1>5. Pack(b, m) = c[N]
  BY Zenon DEF Pack
<1>6. N \in Nat
  OBVIOUS
<1> HIDE DEF N, c
<1>7. \A i \in 0 .. N : c[i] = To(c, i)
  <2> HIDE DEF To
  <2> QED
    BY <1>4
<1>8. c[0] = Write(b, HeaderBytes(m.header) \o FlattenSeq([q \in DOMAIN m.questions |-> QuestionBytes(m.questions[q])]))
  <2>1. 0 \in 0 .. N
    BY <1>6
  <2>2. c[0] = To(c, 0)
    BY <1>7, <2>1
  <2> QED
    BY <2>2, Zenon
<1>9. ASSUME NEW i \in 1 .. N PROVE c[i] = WriteRecord(c[i - 1], Records(m)[i])
  <2>1. i \in 0 .. N /\ i # 0
    BY <1>6
  <2>2. c[i] = To(c, i)
    BY <1>7, <2>1
  <2> QED
    BY <2>1, <2>2
<1>10. \A i \in 1 .. Len(Records(m)) : c[i] = WriteRecord(c[i - 1], Records(m)[i])
  BY <1>9 DEF N
<1>11. Pack(b, m) = c[Len(Records(m))]
  BY <1>5 DEF N
<1> WITNESS c
<1> QED
  BY <1>8, <1>10, <1>11

-----------------------------------------------------------------------------
(* Taking what is next.                                                    *)

\* What was read.
Got(value, to) == Gives(TRUE, value, to)

\* The stream, n bytes on.
Advanced(b, n) == [data |-> b.data, read |-> b.read + n, base |-> b.base]

\* A stream behind bytes that are next is a stream.
LEMMA AdvancedIs ==
  ASSUME NEW T, NEW b \in Stream(T), NEW bytes \in Seq(T), Placed(b.data, b.read, bytes)
  PROVE  /\ Advanced(b, Len(bytes)) \in Stream(T) /\ Advanced(b, Len(bytes)).data = b.data
         /\ Advanced(b, Len(bytes)).read = b.read + Len(bytes) /\ Advanced(b, Len(bytes)).base = b.base
<1> DEFINE n == Len(bytes)
<1>1. n \in Nat /\ b.read + n <= Len(b.data)
  BY LenProperties DEF Placed
<1> HIDE DEF n
<1>2. b.read \in Nat /\ b.base \in Nat /\ b.data \in Seq(T)
  BY StreamIs
<1>3. Advanced(b, n) \in Stream(T)
  BY <1>1, <1>2 DEF Advanced, Stream
<1> QED
  BY <1>3 DEF Advanced, n

\* A name that is next is taken.
LEMMA NameTaken ==
  ASSUME NEW b \in Stream(Byte), NEW name \in DomainNames, Placed(b.data, b.read, NameBytes(name))
  PROVE  ReadName(b) = Got(name, Advanced(b, Len(NameBytes(name))))
<1> DEFINE n == Len(NameBytes(name))
           head == LabelsFrom(b.data, b.read)
           end == b.read + n
<1>1. b.data \in Seq(Byte) /\ b.read \in Nat /\ b = [data |-> b.data, read |-> b.read, base |-> b.base]
  BY StreamIs
<1>2. head = [parts |-> name, end |-> "root", at |-> end]
  BY <1>1, NameIsRead
<1>3. ReadName(b) = IF head.end = "pointer" THEN ReadPointer(b, head)
                    ELSE [ok |-> head.end = "root", aborts |-> FALSE, value |-> head.parts,
                          to |-> [b EXCEPT !.read = head.at]]
  BY DEF ReadName
<1> HIDE DEF head, end, n
<1>4. [b EXCEPT !.read = end] = [data |-> b.data, read |-> end, base |-> b.base]
  BY <1>1
<1>5. head.end = "root" /\ head.parts = name /\ head.at = end
  BY <1>2
<1>6. ReadName(b) = [ok |-> TRUE, aborts |-> FALSE, value |-> name, to |-> [b EXCEPT !.read = end]]
  BY <1>3, <1>5
<1> QED
  BY <1>4, <1>6 DEF Got, Gives, Advanced, end, n

\* A number that is next is taken.
LEMMA Int16Taken ==
  ASSUME NEW b \in Stream(Byte), NEW v \in Int16, Placed(b.data, b.read, Int16Bytes(v))
  PROVE  ReadInt16(b) = Done(Advanced(b, Len(Int16Bytes(v))), v)
<1> DEFINE bytes == Int16Bytes(v)
           r == ReadBytes(b, 2)
<1>1. bytes \in Seq(Byte) /\ Len(bytes) = 2 /\ Int16Of(bytes[1], bytes[2]) = v
  BY Int16RoundTrip
<1> HIDE DEF bytes
<1>2. b.data \in Seq(Byte) /\ b.read \in Nat /\ Readable(b) = Len(b.data) - b.read /\ Len(b.data) \in Nat
  BY StreamIs
<1>3. b.read + 2 <= Len(b.data)
  BY <1>1 DEF Placed, bytes
<1>4. SubSeq(b.data, b.read + 1, b.read + 2) = bytes
  <2>1. SubSeq(b.data, b.read + 1, b.read + Len(bytes)) = bytes
    BY <1>1, <1>2, PlacedIs DEF bytes
  <2> QED
    BY <1>1, <2>1
<1>5. 2 \in Nat /\ 2 <= Readable(b)
  BY <1>2, <1>3
<1>6. r = [ok |-> TRUE, value |-> bytes, to |-> Advanced(b, 2)]
  BY <1>4, <1>5, ReadBytesIs DEF Advanced
<1>7. ReadInt16(b) = IF r.ok THEN Done(r.to, Int16Of(r.value[1], r.value[2])) ELSE r
  BY DEF ReadInt16
<1> HIDE DEF r
<1>8. r.ok = TRUE /\ r.value = bytes /\ r.to = Advanced(b, 2)
  BY <1>6
<1>9. ReadInt16(b) = Done(Advanced(b, 2), v)
  BY <1>1, <1>7, <1>8
<1> QED
  BY <1>1, <1>9 DEF bytes

Questions == [name : DomainNames, type : Int16, class : Int16]

\* The parts of a question as they are written.
LEMMA QuestionBytesAre ==
  ASSUME NEW q \in Questions
  PROVE  /\ q.name \in DomainNames /\ q.type \in Int16 /\ q.class \in Int16
         /\ NameBytes(q.name) \in Seq(Byte) /\ Int16Bytes(q.type) \in Seq(Byte) /\ Int16Bytes(q.class) \in Seq(Byte)
         /\ NameBytes(q.name) \o Int16Bytes(q.type) \in Seq(Byte)
         /\ QuestionBytes(q) \in Seq(Byte)
<1>1. q.name \in DomainNames /\ q.type \in Int16 /\ q.class \in Int16
  BY DEF Questions
<1>2. NameBytes(q.name) \in Seq(Byte)
  BY <1>1, LayoutIs
<1>3. Int16Bytes(q.type) \in Seq(Byte) /\ Int16Bytes(q.class) \in Seq(Byte)
  BY <1>1, Int16RoundTrip
<1>4. NameBytes(q.name) \o Int16Bytes(q.type) \in Seq(Byte)
  BY <1>2, <1>3, ConcatProperties
<1>5. QuestionBytes(q) \in Seq(Byte)
  BY <1>3, <1>4, ConcatProperties DEF QuestionBytes
<1> QED
  BY <1>1, <1>2, <1>3, <1>4, <1>5

\* One field of a result is replaced.
LEMMA OtherValue ==
  ASSUME NEW ok, NEW aborts, NEW value, NEW to, NEW new, NEW r,
         r = [ok |-> ok, aborts |-> aborts, value |-> value, to |-> to]
  PROVE  [r EXCEPT !.value = new] = [ok |-> ok, aborts |-> aborts, value |-> new, to |-> to]
OBVIOUS

\* An element read after others that were read.
LEMMA FollowedIs ==
  ASSUME NEW s, NEW t, NEW v, NEW w
  PROVE  Followed(Got(s, t), Got(v, w)) = Got(Append(s, v), w)
<1> DEFINE y == Got(v, w)
           x == Got(s, t)
           new == Append(s, v)
           yes == TRUE
           no == FALSE
<1>1. y = [ok |-> yes, aborts |-> no, value |-> v, to |-> w]
  BY DEF Got, Gives
<1>0. x.value = s
  BY DEF Got, Gives
<1> HIDE DEF yes, no
<1> HIDE DEF y, x
<1>2. y.value = v
  BY <1>1
<1>3. Followed(x, y) = [y EXCEPT !.value = Append(x.value, y.value)]
  BY <1>1 DEF Followed
<1>4. Followed(x, y) = [y EXCEPT !.value = new]
  BY <1>0, <1>2, <1>3
<1> HIDE DEF new
<1>5. [y EXCEPT !.value = new] = [ok |-> yes, aborts |-> no, value |-> new, to |-> w]
  BY <1>1, OtherValue
<1> QED
  BY <1>4, <1>5 DEF Got, Gives, x, y, new, yes, no

\* A question that is next is taken, with nothing behind it.
LEMMA QuestionTaken ==
  ASSUME NEW b \in Stream(Byte), NEW q \in Questions, Placed(b.data, b.read, QuestionBytes(q))
  PROVE  ReadQuestion(b) = Got(q, Advanced(b, Len(QuestionBytes(q))))
<1> DEFINE kinds == <<"name", "int16", "int16">>
           s1 == NameBytes(q.name)
           s2 == Int16Bytes(q.type)
           s3 == Int16Bytes(q.class)
           b1 == Advanced(b, Len(s1))
           b2 == Advanced(b1, Len(s2))
           b3 == Advanced(b2, Len(s3))
           end == Advanced(b, Len(QuestionBytes(q)))
<1>1. /\ q.name \in DomainNames /\ q.type \in Int16 /\ q.class \in Int16
      /\ s1 \in Seq(Byte) /\ s2 \in Seq(Byte) /\ s3 \in Seq(Byte) /\ s1 \o s2 \in Seq(Byte)
  BY QuestionBytesAre
<1>2. q = [name |-> q.name, type |-> q.type, class |-> q.class]
  BY DEF Questions
<1>3. QuestionBytes(q) = (s1 \o s2) \o s3
  BY DEF QuestionBytes
<1> HIDE DEF s1, s2, s3
<1>4. b.data \in Seq(Byte) /\ b.read \in Nat
  BY StreamIs
<1>5. /\ Placed(b.data, b.read, s1 \o s2) /\ Placed(b.data, b.read + Len(s1 \o s2), s3)
      /\ Len(QuestionBytes(q)) = Len(s1 \o s2) + Len(s3)
  <2> DEFINE s == s1 \o s2
  <2>1. Placed(b.data, b.read, s \o s3)
    BY <1>3
  <2>2. s \in Seq(Byte)
    BY <1>1
  <2> HIDE DEF s
  <2>3. /\ Placed(b.data, b.read, s) /\ Placed(b.data, b.read + Len(s), s3)
        /\ Len(s \o s3) = Len(s) + Len(s3)
    BY <1>1, <1>4, <2>1, <2>2, PlacedParts
  <2> QED
    BY <1>3, <2>3 DEF s
<1>6. /\ Placed(b.data, b.read, s1) /\ Placed(b.data, b.read + Len(s1), s2)
      /\ Len(s1 \o s2) = Len(s1) + Len(s2)
  BY <1>1, <1>4, <1>5, PlacedParts
<1>7. Len(s1) \in Nat /\ Len(s2) \in Nat /\ Len(s3) \in Nat
  BY <1>1, LenProperties
<1>8. ReadName(b) = Got(q.name, b1) /\ b1 \in Stream(Byte) /\ b1.data = b.data /\ b1.read = b.read + Len(s1) /\ b1.base = b.base
  BY <1>1, <1>6, NameTaken, AdvancedIs DEF s1
<1> HIDE DEF b1
<1>9. ReadInt16(b1) = Done(b2, q.type) /\ b2 \in Stream(Byte) /\ b2.data = b.data /\ b2.read = b1.read + Len(s2) /\ b2.base = b.base
  <2>1. Placed(b1.data, b1.read, s2)
    BY <1>6, <1>8
  <2> QED
    BY <1>1, <1>8, <2>1, Int16Taken, AdvancedIs DEF s2
<1> HIDE DEF b2
<1>10. ReadInt16(b2) = Done(b3, q.class) /\ b3 \in Stream(Byte) /\ b3.data = b.data /\ b3.read = b2.read + Len(s3) /\ b3.base = b.base
  <2>1. b2.read = b.read + Len(s1 \o s2)
    BY <1>4, <1>6, <1>7, <1>8, <1>9
  <2>2. Placed(b2.data, b2.read, s3)
    BY <1>5, <1>9, <2>1
  <2> QED
    BY <1>1, <1>9, <2>2, Int16Taken, AdvancedIs DEF s3
<1>11. b3 = end
  <2>1. b3.read = b.read + Len(QuestionBytes(q))
    BY <1>4, <1>5, <1>6, <1>7, <1>8, <1>9, <1>10
  <2>2. b3 = [data |-> b3.data, read |-> b3.read, base |-> b3.base]
    BY <1>10, StreamIs
  <2> QED
    BY <1>10, <2>1, <2>2 DEF Advanced
<1> HIDE DEF b3, end
<1>12. Len(kinds) = 3 /\ kinds[1] = "name" /\ kinds[2] = "int16" /\ kinds[3] = "int16"
  OBVIOUS
<1> HIDE DEF kinds
<1>13. PICK f : /\ f[0] = Got(<<>>, b)
                /\ \A i \in 1 .. Len(kinds) : f[i] = IF f[i - 1].ok THEN Followed(f[i - 1], ReadField(f[i - 1].to, kinds[i])) ELSE f[i - 1]
                /\ ReadFields(b, kinds) = f[Len(kinds)]
  <2>0. Got(<<>>, b) = Gives(TRUE, <<>>, b)
    BY DEF Got
  <2>1. Len(kinds) \in Nat
    BY <1>12
  <2> QED
    BY <2>0, <2>1, FieldsAre
<1>14. /\ f[0] = Got(<<>>, b)
       /\ f[1] = IF f[0].ok THEN Followed(f[0], ReadField(f[0].to, "name")) ELSE f[0]
       /\ f[2] = IF f[1].ok THEN Followed(f[1], ReadField(f[1].to, "int16")) ELSE f[1]
       /\ f[3] = IF f[2].ok THEN Followed(f[2], ReadField(f[2].to, "int16")) ELSE f[2]
       /\ ReadFields(b, kinds) = f[3]
  <2>1. 1 \in 1 .. Len(kinds) /\ 2 \in 1 .. Len(kinds) /\ 3 \in 1 .. Len(kinds) /\ 1 - 1 = 0 /\ 2 - 1 = 1 /\ 3 - 1 = 2
    BY <1>12
  <2>2. f[1] = IF f[0].ok THEN Followed(f[0], ReadField(f[0].to, "name")) ELSE f[0]
    BY <1>12, <1>13, <2>1
  <2>3. f[2] = IF f[1].ok THEN Followed(f[1], ReadField(f[1].to, "int16")) ELSE f[1]
    BY <1>12, <1>13, <2>1
  <2>4. f[3] = IF f[2].ok THEN Followed(f[2], ReadField(f[2].to, "int16")) ELSE f[2]
    BY <1>12, <1>13, <2>1
  <2> QED
    BY <1>12, <1>13, <2>2, <2>3, <2>4
<1>16. /\ ReadField(b, "name") = ReadName(b)
       /\ \A s : ReadField(s, "int16") = Reading(ReadInt16(s))
  BY DEF ReadField
<1>17. \A s, v : Reading(Done(s, v)) = Got(v, s)
  BY DEF Got, Reading, Done, Gives
<1>18. \A s, v : Got(v, s).ok = TRUE /\ Got(v, s).to = s /\ Got(v, s).value = v
  BY DEF Got, Gives
<1> DEFINE v0 == <<>>
           v1 == Append(v0, q.name)
           v2 == Append(v1, q.type)
           fields == Append(v2, q.class)
<1>22. fields[1] = q.name /\ fields[2] = q.type /\ fields[3] = q.class
  <2> DEFINE T == {q.name, q.type, q.class}
  <2>1. v0 \in Seq(T) /\ Len(v0) = 0
    BY EmptySeq
  <2>2. q.name \in T /\ q.type \in T /\ q.class \in T
    OBVIOUS
  <2> HIDE DEF v0, T
  <2>3. v1 \in Seq(T) /\ Len(v1) = 1 /\ v1[1] = q.name
    BY <2>1, <2>2, AppendProperties
  <2> HIDE DEF v1
  <2>4. v2 \in Seq(T) /\ Len(v2) = Len(v1) + 1 /\ (\A i \in 1 .. Len(v1) : v2[i] = v1[i]) /\ v2[Len(v1) + 1] = q.type
    <3>1. v1 \in Seq(T) /\ q.type \in T
      BY <2>2, <2>3
    <3> QED
      BY <3>1, AppendProperties
  <2> HIDE DEF v2
  <2>5. Len(v2) = 2 /\ v2[1] = q.name /\ v2[2] = q.type
    BY <2>3, <2>4
  <2>6. (\A i \in 1 .. Len(v2) : fields[i] = v2[i]) /\ fields[Len(v2) + 1] = q.class
    BY <2>2, <2>4, AppendProperties
  <2> HIDE DEF fields
  <2>7. 1 \in 1 .. Len(v2) /\ 2 \in 1 .. Len(v2) /\ Len(v2) + 1 = 3
    BY <2>5
  <2> QED
    BY <2>5, <2>6, <2>7
<1> HIDE DEF v0, v1, v2, fields
<1>19. f[1] = Got(v1, b1)
  <2>1. f[0].ok = TRUE /\ f[0].to = b /\ f[0] = Got(v0, b)
    BY <1>14, <1>18 DEF v0
  <2>2. f[1] = Followed(f[0], ReadName(b))
    BY <1>14, <1>16, <2>1
  <2>3. f[1] = Followed(Got(v0, b), Got(q.name, b1))
    BY <1>8, <2>1, <2>2
  <2>5. Followed(Got(v0, b), Got(q.name, b1)) = Got(Append(v0, q.name), b1)
    BY FollowedIs
  <2> QED
    BY <2>3, <2>5, Zenon DEF v1
<1>20. f[2] = Got(v2, b2)
  <2>1. f[1].ok = TRUE /\ f[1].to = b1
    BY <1>18, <1>19
  <2>2. f[2] = Followed(f[1], Reading(ReadInt16(b1)))
    BY <1>14, <1>16, <2>1
  <2>3. Reading(ReadInt16(b1)) = Got(q.type, b2)
    BY <1>9, <1>17
  <2>4. f[2] = Followed(Got(v1, b1), Got(q.type, b2))
    BY <1>19, <2>2, <2>3
  <2>5. Followed(Got(v1, b1), Got(q.type, b2)) = Got(Append(v1, q.type), b2)
    BY FollowedIs
  <2> QED
    BY <2>4, <2>5, Zenon DEF v2
<1>21. f[3] = Got(fields, b3)
  <2>1. f[2].ok = TRUE /\ f[2].to = b2
    BY <1>18, <1>20
  <2>2. f[3] = Followed(f[2], Reading(ReadInt16(b2)))
    BY <1>14, <1>16, <2>1
  <2>3. Reading(ReadInt16(b2)) = Got(q.class, b3)
    BY <1>10, <1>17
  <2>4. f[3] = Followed(Got(v2, b2), Got(q.class, b3))
    BY <1>20, <2>2, <2>3
  <2>5. Followed(Got(v2, b2), Got(q.class, b3)) = Got(Append(v2, q.class), b3)
    BY FollowedIs
  <2> QED
    BY <2>4, <2>5, Zenon DEF fields
<1>24. QuestionOf(fields) = q
  BY <1>2, <1>22 DEF QuestionOf
<1>25. Questioned(Got(fields, b3)) = Got(QuestionOf(fields), b3)
  BY DEF Got, Questioned, Gives
<1> QED
  BY <1>11, <1>14, <1>21, <1>24, <1>25 DEF ReadQuestion, kinds, end

\* What is flattened, from its first element on.
LEMMA FlatFrom ==
  ASSUME NEW T, NEW ss \in Seq(Seq(T))
  PROVE  \E f : /\ f[0] = <<>>
                /\ \A i \in 1 .. Len(ss) : f[i] = f[i - 1] \o ss[i]
                /\ \A i \in 0 .. Len(ss) : f[i] \in Seq(T)
                /\ FlattenSeq(ss) = f[Len(ss)]
<1> DEFINE N == Len(ss)
<1>1. N \in Nat /\ \A i \in 1 .. N : ss[i] \in Seq(T)
  BY LenProperties, ElementOfSeq
<1>2. CASE N = 0
  <2>1. ss = <<>>
    BY <1>2, EmptySeq
  <2>2. FlattenSeq(ss) = <<>>
    BY <1>2, <2>1 DEF FlattenSeq
  <2> DEFINE f == [i \in 0 .. 0 |-> <<>>]
  <2>3. f[0] = <<>> /\ <<>> \in Seq(T)
    BY EmptySeq
  <2>4. f[N] = <<>>
    BY <1>2
  <2> HIDE DEF f
  <2>5. \A i \in 1 .. N : f[i] = f[i - 1] \o ss[i]
    BY <1>2
  <2>6. \A i \in 0 .. N : f[i] \in Seq(T)
    <3>1. \A i \in 0 .. N : i = 0
      BY <1>2
    <3> QED
      BY <2>3, <3>1
  <2> QED
    BY <2>2, <2>3, <2>4, <2>5, <2>6
<1>3. CASE N # 0
  <2>1. PICK g : /\ g = [i \in 1 .. Len(ss) |-> IF i = 1 THEN ss[i] ELSE g[i - 1] \o ss[i]]
                 /\ FlattenSeq(ss) = g[Len(ss)]
    BY <1>1, <1>3, FlattenIs
  <2> DEFINE f == [i \in 0 .. N |-> IF i = 0 THEN <<>> ELSE g[i]]
  <2>2. f[0] = <<>> /\ \A i \in 1 .. N : f[i] = g[i]
    BY <1>1
  <2> HIDE DEF f, N
  <2>3. ASSUME NEW i \in 1 .. N PROVE f[i] = f[i - 1] \o ss[i]
    <3> DEFINE s == ss[i]
    <3>0. s \in Seq(T) /\ i \in Nat
      BY <1>1
    <3>1. g[i] = IF i = 1 THEN s ELSE g[i - 1] \o s
      BY <2>1 DEF N
    <3> HIDE DEF s
    <3>2. CASE i = 1
      <4>1. f[i - 1] = <<>> /\ <<>> \o s = s
        BY <2>2, <3>0, <3>2, ConcatEmptySeq
      <4> QED
        BY <2>2, <3>1, <3>2, <4>1 DEF s
    <3>3. CASE i # 1
      <4>1. i - 1 \in 1 .. N
        BY <1>1, <3>3
      <4>2. f[i - 1] = g[i - 1]
        BY <2>2, <4>1
      <4> QED
        BY <2>2, <3>1, <3>3, <4>2 DEF s
    <3> QED
      BY <3>2, <3>3
  <2>4. N \in 1 .. N
    BY <1>1, <1>3
  <2>5. FlattenSeq(ss) = f[N]
    BY <2>1, <2>2, <2>4 DEF N
  <2> DEFINE Has == {k \in Nat : k <= N => \A i \in 0 .. k : f[i] \in Seq(T)}
  <2>6. 0 \in Has
    <3>1. \A i \in 0 .. 0 : f[i] \in Seq(T)
      <4>1. \A i \in 0 .. 0 : i = 0
        OBVIOUS
      <4>2. <<>> \in Seq(T)
        BY EmptySeq
      <4> QED
        BY <2>2, <4>1, <4>2
    <3> QED
      BY <3>1
  <2>7. ASSUME NEW k \in Has PROVE k + 1 \in Has
    <3> SUFFICES ASSUME k + 1 <= N, NEW i \in 0 .. k + 1 PROVE f[i] \in Seq(T)
      OBVIOUS
    <3>1. k \in Nat /\ k <= N /\ \A j \in 0 .. k : f[j] \in Seq(T)
      BY <1>1
    <3>2. CASE i = k + 1
      <4>1. f[i] = f[k] \o ss[i] /\ ss[i] \in Seq(T) /\ f[k] \in Seq(T)
        <5>1. i \in 1 .. N /\ i - 1 = k /\ k \in 0 .. k
          BY <1>1, <3>1, <3>2
        <5> QED
          BY <1>1, <2>3, <3>1, <5>1
      <4> QED
        BY <4>1, ConcatProperties
    <3>3. CASE i # k + 1
      BY <3>1, <3>3
    <3> QED
      BY <3>2, <3>3
  <2>8. N \in Has
    <3> HIDE DEF Has
    <3>1. Has \subseteq Nat
      BY DEF Has
    <3> QED
      BY <1>1, <2>6, <2>7, <3>1, Induction
  <2>9. \A i \in 0 .. N : f[i] \in Seq(T)
    BY <1>1, <2>8
  <2> QED
    BY <2>2, <2>3, <2>5, <2>9 DEF N
<1> QED
  BY <1>2, <1>3

\* Where the elements of what is flattened are placed.
Laid(data, p, ss, pos) ==
  /\ pos[0] = p /\ pos[Len(ss)] = p + Len(FlattenSeq(ss))
  /\ \A i \in 0 .. Len(ss) : pos[i] \in Nat
  /\ \A i \in 1 .. Len(ss) : Placed(data, pos[i - 1], ss[i]) /\ pos[i] = pos[i - 1] + Len(ss[i])

\* Pieces put together and placed are each placed, one behind the other.
LEMMA PlacedFlat ==
  ASSUME NEW T, NEW data \in Seq(T), NEW p \in Nat, NEW ss \in Seq(Seq(T)), Placed(data, p, FlattenSeq(ss))
  PROVE  FlattenSeq(ss) \in Seq(T) /\ \E pos : Laid(data, p, ss, pos)
<1> DEFINE N == Len(ss)
<1>1. N \in Nat /\ \A i \in 1 .. N : ss[i] \in Seq(T)
  BY LenProperties, ElementOfSeq
<1>2. PICK f : /\ f[0] = <<>>
               /\ \A i \in 1 .. Len(ss) : f[i] = f[i - 1] \o ss[i]
               /\ \A i \in 0 .. Len(ss) : f[i] \in Seq(T)
               /\ FlattenSeq(ss) = f[Len(ss)]
  BY FlatFrom
<1> HIDE DEF N
<1> DEFINE Has == {k \in Nat : k <= N => Placed(data, p, f[N - k])}
<1>3. 0 \in Has
  <2>1. N - 0 = N
    BY <1>1
  <2>2. Placed(data, p, f[N])
    BY <1>2 DEF N
  <2> QED
    BY <2>1, <2>2
<1>4. ASSUME NEW i \in 1 .. N, Placed(data, p, f[i])
      PROVE  /\ Placed(data, p, f[i - 1]) /\ Placed(data, p + Len(f[i - 1]), ss[i])
             /\ Len(f[i]) = Len(f[i - 1]) + Len(ss[i])
  <2> DEFINE s == f[i - 1]
             t == ss[i]
  <2>1. i - 1 \in 0 .. N
    BY <1>1
  <2>2. f[i] = s \o t /\ s \in Seq(T) /\ t \in Seq(T)
    BY <1>1, <1>2, <2>1 DEF N
  <2> HIDE DEF s, t
  <2>3. Placed(data, p, s \o t)
    BY <1>4, <2>2
  <2>4. Placed(data, p, s) /\ Placed(data, p + Len(s), t) /\ Len(s \o t) = Len(s) + Len(t)
    BY <2>2, <2>3, PlacedParts
  <2> QED
    BY <2>2, <2>4 DEF s, t
<1>5. ASSUME NEW k \in Has PROVE k + 1 \in Has
  <2> SUFFICES ASSUME k + 1 <= N PROVE Placed(data, p, f[N - (k + 1)])
    OBVIOUS
  <2>1. N - k \in 1 .. N /\ (N - k) - 1 = N - (k + 1) /\ k <= N
    BY <1>1
  <2>2. Placed(data, p, f[N - k])
    BY <2>1
  <2>3. Placed(data, p, f[(N - k) - 1])
    BY <1>4, <2>1, <2>2
  <2> QED
    BY <2>1, <2>3
<1>6. ASSUME NEW i \in 0 .. N PROVE Placed(data, p, f[i])
  <2> DEFINE All == {k \in Nat : k \in Has}
  <2>1. N - i \in Has
    <3> HIDE DEF Has
    <3>1. Has \subseteq Nat
      BY DEF Has
    <3>2. N - i \in Nat
      BY <1>1
    <3> QED
      BY <1>3, <1>5, <3>1, <3>2, Induction
  <2>2. N - i <= N /\ N - (N - i) = i
    BY <1>1
  <2> QED
    BY <2>1, <2>2
<1> DEFINE pos == [i \in 0 .. N |-> p + Len(f[i])]
<1>7. \A i \in 0 .. N : pos[i] = p + Len(f[i]) /\ pos[i] \in Nat
  <2> SUFFICES ASSUME NEW i \in 0 .. N PROVE pos[i] = p + Len(f[i]) /\ pos[i] \in Nat
    OBVIOUS
  <2>1. Len(f[i]) \in Nat
    BY <1>2, LenProperties DEF N
  <2> QED
    BY <2>1
<1> HIDE DEF pos
<1>8. pos[0] = p
  <2>1. 0 \in 0 .. N /\ Len(f[0]) = 0
    BY <1>1, <1>2
  <2> QED
    BY <1>7, <2>1
<1>9. pos[N] = p + Len(FlattenSeq(ss)) /\ FlattenSeq(ss) \in Seq(T)
  <2>1. N \in 0 .. N
    BY <1>1
  <2> QED
    BY <1>2, <1>7, <2>1 DEF N
<1>10. ASSUME NEW i \in 1 .. N PROVE Placed(data, pos[i - 1], ss[i]) /\ pos[i] = pos[i - 1] + Len(ss[i])
  <2> DEFINE x == Len(f[i - 1])
             y == Len(f[i])
             z == Len(ss[i])
  <2>1. i \in 0 .. N /\ i - 1 \in 0 .. N
    BY <1>1
  <2>2. Placed(data, p + x, ss[i]) /\ y = x + z
    BY <1>4, <1>6, <2>1
  <2>3. x \in Nat /\ z \in Nat
    BY <1>1, <1>2, <2>1, LenProperties DEF N
  <2>4. pos[i - 1] = p + x /\ pos[i] = p + y
    BY <1>7, <2>1
  <2> HIDE DEF x, y
  <2> HIDE DEF z
  <2>5. pos[i] = pos[i - 1] + z
    BY <2>2, <2>3, <2>4
  <2> QED
    BY <2>2, <2>4, <2>5 DEF z
<1>11. Laid(data, p, ss, pos)
  BY <1>7, <1>8, <1>9, <1>10 DEF N, Laid
<1> QED
  BY <1>9, <1>11

-----------------------------------------------------------------------------
(* Messages of questions.                                                  *)

Headers == [id : Int16, flags : Flags, qdcount : Int16, ancount : Int16, nscount : Int16, arcount : Int16]

\* A message with these questions and no records.
Asking(h, qs) == [header |-> h, questions |-> qs, answers |-> <<>>, authorities |-> <<>>, additionals |-> <<>>]

\* The fields of a message that only asks.
LEMMA AskingIs ==
  ASSUME NEW h, NEW qs, NEW x
  PROVE  /\ [Asking(h, qs) EXCEPT !.header = x] = Asking(x, qs)
         /\ [Asking(h, qs) EXCEPT !.questions = x] = Asking(h, x)
         /\ Asking(h, qs).header = h /\ Asking(h, qs).questions = qs
         /\ NoMessage = Asking(NoMessage.header, <<>>)
<1>1. [Asking(h, qs) EXCEPT !.header = x] = Asking(x, qs)
  BY DEF Asking
<1>2. [Asking(h, qs) EXCEPT !.questions = x] = Asking(h, x)
  BY DEF Asking
<1>3. Asking(h, qs).header = h /\ Asking(h, qs).questions = qs
  BY DEF Asking
<1>4. NoMessage = Asking(NoMessage.header, <<>>)
  BY DEF Asking, NoMessage
<1> QED
  BY <1>1, <1>2, <1>3, <1>4

\* One more question read.
LEMMA QuestionPushed ==
  ASSUME NEW h, NEW qs, NEW b, NEW q, NEW to, NEW lucky, ReadQuestion(b) = Got(q, to)
  PROVE  ReadElement("questions", Got(Asking(h, qs), b), lucky) = Got(Asking(h, Append(qs, q)), to)
<1> DEFINE m == Asking(h, qs)
           r == Got(q, to)
           yes == TRUE
           no == FALSE
           new == Append(qs, q)
<1>0. r = [ok |-> yes, aborts |-> no, value |-> q, to |-> to]
  BY DEF Got, Gives
<1>1. r.ok = TRUE /\ r.value = q
  BY DEF Got, Gives
<1>2. Got(m, b).value = m /\ Got(m, b).to = b
  BY DEF Got, Gives
<1>3. ReadElement("questions", Got(m, b), lucky) = Pushed("questions", m, r)
  BY <1>2 DEF ReadElement
<1> HIDE DEF r, m
<1>4. Pushed("questions", m, r) = [r EXCEPT !.value = [m EXCEPT !["questions"] = Append(m["questions"], q)]]
  BY <1>1 DEF Pushed
<1>5. m["questions"] = qs
  BY AskingIs DEF m
<1>6. [m EXCEPT !["questions"] = new] = Asking(h, new)
  <2> HIDE DEF new
  <2> QED
    BY AskingIs DEF m
<1>7. Pushed("questions", m, r) = [r EXCEPT !.value = Asking(h, new)]
  BY <1>4, <1>5, <1>6
<1> HIDE DEF new, yes, no
<1>8. [r EXCEPT !.value = Asking(h, new)] = [ok |-> yes, aborts |-> no, value |-> Asking(h, new), to |-> to]
  BY <1>0, OtherValue
<1> QED
  BY <1>3, <1>7, <1>8 DEF m, yes, no, Got, Gives, new

QuestionsBytes(qs) == FlattenSeq([i \in DOMAIN qs |-> QuestionBytes(qs[i])])

\* The section of questions is read as it was written, however many they are.
LEMMA QuestionsTaken ==
  ASSUME NEW h \in Headers, NEW qs \in Seq(Questions), h.qdcount = Len(qs), NEW lucky,
         NEW b \in Stream(Byte), Placed(b.data, b.read, QuestionsBytes(qs))
  PROVE  /\ QuestionsBytes(qs) \in Seq(Byte)
         /\ ReadSection("questions", Got(Asking(h, <<>>), b), lucky)
              = Got(Asking(h, qs), Advanced(b, Len(QuestionsBytes(qs))))
<1> DEFINE ss == [i \in DOMAIN qs |-> QuestionBytes(qs[i])]
           N == Len(qs)
           r == Got(Asking(h, <<>>), b)
           bytes == QuestionsBytes(qs)
<1>1. N \in Nat /\ DOMAIN qs = 1 .. N /\ \A i \in 1 .. N : qs[i] \in Questions
  BY LenProperties, ElementOfSeq
<1>2. ss = [i \in 1 .. N |-> QuestionBytes(qs[i])] /\ bytes = FlattenSeq(ss)
  BY <1>1 DEF QuestionsBytes
<1> HIDE DEF ss, N, bytes
<1>3. \A i \in 1 .. N : QuestionBytes(qs[i]) \in Seq(Byte)
  BY <1>1, QuestionBytesAre
<1>4. ss \in Seq(Seq(Byte)) /\ Len(ss) = N /\ \A i \in 1 .. N : ss[i] = QuestionBytes(qs[i])
  BY <1>1, <1>2, <1>3
<1>5. b.data \in Seq(Byte) /\ b.read \in Nat /\ b.base \in Nat
  BY StreamIs
<1>6. PICK pos : Laid(b.data, b.read, ss, pos)
  <2>1. Placed(b.data, b.read, FlattenSeq(ss))
    BY <1>2 DEF bytes
  <2>2. ss \in Seq(Seq(Byte)) /\ b.data \in Seq(Byte) /\ b.read \in Nat
    BY <1>4, <1>5
  <2> QED
    BY <2>1, <2>2, PlacedFlat
<1>7. /\ bytes \in Seq(Byte)
      /\ pos[0] = b.read /\ pos[N] = b.read + Len(bytes)
      /\ \A i \in 0 .. N : pos[i] \in Nat
      /\ \A i \in 1 .. N : Placed(b.data, pos[i - 1], ss[i]) /\ pos[i] = pos[i - 1] + Len(ss[i])
  <2>1. Placed(b.data, b.read, FlattenSeq(ss))
    BY <1>2 DEF bytes
  <2>2. FlattenSeq(ss) \in Seq(Byte)
    BY <1>4, <1>5, <2>1, PlacedFlat
  <2> QED
    BY <1>2, <1>4, <1>6, <2>2 DEF Laid
<1>8. N = r.value.header[Count["questions"]]
  <2>1. r.value = Asking(h, <<>>) /\ Count["questions"] = "qdcount"
    BY DEF Got, Gives, Count
  <2>2. r.value.header = h
    BY <2>1, AskingIs
  <2>3. h["qdcount"] = N
    BY DEF N
  <2> QED
    BY <2>1, <2>2, <2>3
<1>9. PICK s : /\ s[0] = r
               /\ \A i \in 1 .. N : s[i] = IF s[i - 1].ok THEN ReadElement("questions", s[i - 1], lucky) ELSE s[i - 1]
               /\ ReadSection("questions", r, lucky) = s[N]
  BY <1>1, <1>8, SectionIs
<1> DEFINE At(p) == [data |-> b.data, read |-> p, base |-> b.base]
           Upto(i) == SubSeq(qs, 1, i)
           Has == {k \in Nat : k <= N => s[k] = Got(Asking(h, Upto(k)), At(pos[k])) /\ At(pos[k]) \in Stream(Byte)}
<1>10. 0 \in Has
  <2>1. Upto(0) = <<>>
    BY <1>1, SubSeqEmpty
  <2>2. b = [data |-> b.data, read |-> b.read, base |-> b.base]
    BY StreamIs
  <2>3. At(pos[0]) = b
    BY <1>7, <2>2
  <2> HIDE DEF Upto, At
  <2>4. s[0] = Got(Asking(h, Upto(0)), At(pos[0]))
    BY <1>9, <2>1, <2>3
  <2>5. At(pos[0]) \in Stream(Byte)
    BY <2>3
  <2> QED
    BY <2>4, <2>5
<1>11. ASSUME NEW k \in Has PROVE k + 1 \in Has
  <2> SUFFICES ASSUME k + 1 <= N
               PROVE  s[k + 1] = Got(Asking(h, Upto(k + 1)), At(pos[k + 1])) /\ At(pos[k + 1]) \in Stream(Byte)
    OBVIOUS
  <2> DEFINE i == k + 1
             q == qs[i]
             here == At(pos[k])
  <2>0. k \in Nat /\ i \in 1 .. N /\ i - 1 = k /\ k \in 0 .. N /\ i \in 0 .. N /\ k <= N
    BY <1>1
  <2>1. s[k] = Got(Asking(h, Upto(k)), here) /\ here \in Stream(Byte)
    BY <2>0
  <2>2. q \in Questions /\ ss[i] = QuestionBytes(q)
    BY <1>1, <1>4, <2>0
  <2>3. Placed(b.data, pos[k], ss[i]) /\ pos[i] = pos[k] + Len(ss[i])
    BY <1>7, <2>0
  <2>4. here.data = b.data /\ here.read = pos[k] /\ here.base = b.base
    OBVIOUS
  <2> HIDE DEF i, q, here, Upto
  <2>5. Placed(here.data, here.read, QuestionBytes(q))
    BY <2>2, <2>3, <2>4
  <2>6. ReadQuestion(here) = Got(q, Advanced(here, Len(QuestionBytes(q))))
    BY <2>1, <2>2, <2>5, QuestionTaken
  <2>7. Advanced(here, Len(QuestionBytes(q))) = At(pos[i])
    BY <2>2, <2>3, <2>4 DEF Advanced
  <2>8. At(pos[i]) \in Stream(Byte)
    <3>1. QuestionBytes(q) \in Seq(Byte)
      BY <2>2, QuestionBytesAre
    <3> QED
      BY <2>1, <2>5, <2>7, <3>1, AdvancedIs
  <2> HIDE DEF At
  <2>9. ReadElement("questions", Got(Asking(h, Upto(k)), here), lucky) = Got(Asking(h, Append(Upto(k), q)), At(pos[i]))
    BY <2>6, <2>7, QuestionPushed
  <2>10. Got(Asking(h, Upto(k)), here).ok = TRUE
    BY DEF Got, Gives
  <2>11. s[i] = ReadElement("questions", s[k], lucky)
    BY <1>9, <2>0, <2>1, <2>10
  <2>12. Append(Upto(k), q) = Upto(i)
    <3>1. 1 \in 1 .. Len(qs) /\ i \in 1 .. Len(qs)
      BY <1>1, <2>0 DEF N
    <3>2. i \in 1 .. Len(qs) /\ 1 <= i
      BY <2>0, <3>1
    <3>3. SubSeq(qs, 1, i) = SubSeq(qs, 1, i - 1) \o <<qs[i]>>
      BY <3>1, <3>2, SubSeqRecursiveSecond
    <3>4. Upto(k) \in Seq(Questions)
      <4>1. \A j \in 1 .. k : qs[j] \in Questions
        BY <1>1, <2>0
      <4>2. k \in Int /\ 1 \in Int
        BY <2>0
      <4> QED
        BY <4>1, <4>2, SubSeqProperties DEF Upto
    <3>5. Append(Upto(k), q) = Upto(k) \o <<q>>
      BY <2>2, <3>4, AppendIsConcat
    <3> QED
      BY <2>0, <3>3, <3>5 DEF Upto, q
  <2> QED
    BY <2>1, <2>8, <2>9, <2>11, <2>12 DEF i
<1>12. N \in Has
  <2> HIDE DEF Has
  <2>1. Has \subseteq Nat
    BY DEF Has
  <2> QED
    BY <1>1, <1>10, <1>11, <2>1, Induction
<1>13. Upto(N) = qs
  BY SubSeqFull DEF N
<1>14. At(pos[N]) = Advanced(b, Len(bytes))
  BY <1>7 DEF Advanced
<1>15. s[N] = Got(Asking(h, Upto(N)), At(pos[N]))
  BY <1>1, <1>12
<1> HIDE DEF Upto, At
<1> QED
  BY <1>7, <1>9, <1>13, <1>14, <1>15 DEF bytes

\* A section without elements is passed by.
LEMMA NoneTaken ==
  ASSUME NEW h, NEW qs, NEW b, NEW lucky, NEW section \in {"answers", "authorities", "additionals"},
         h.ancount = 0, h.nscount = 0, h.arcount = 0
  PROVE  ReadSection(section, Got(Asking(h, qs), b), lucky) = Got(Asking(h, qs), b)
<1> DEFINE r == Got(Asking(h, qs), b)
<1>1. 0 = r.value.header[Count[section]]
  <2>1. r.value = Asking(h, qs)
    BY DEF Got, Gives
  <2>2. r.value.header = h
    BY <2>1, AskingIs
  <2>3. Count[section] \in {"ancount", "nscount", "arcount"}
    BY DEF Count
  <2> HIDE DEF r
  <2> QED
    BY <2>2, <2>3
<1> HIDE DEF r
<1>2. 0 \in Nat
  OBVIOUS
<1>3. PICK s : /\ s[0] = r
               /\ \A i \in 1 .. 0 : s[i] = IF s[i - 1].ok THEN ReadElement(section, s[i - 1], lucky) ELSE s[i - 1]
               /\ ReadSection(section, r, lucky) = s[0]
  BY <1>1, <1>2, SectionIs
<1> QED
  BY <1>3 DEF r

-----------------------------------------------------------------------------
(* Queries and questions: what Pack writes, Unpack reads.                  *)

\* Two bytes behind others.
LEMMA TwoMore ==
  ASSUME NEW s \in Seq(Byte), NEW t \in Seq(Byte), Len(t) = 2
  PROVE  /\ s \o t \in Seq(Byte) /\ Len(s \o t) = Len(s) + 2
         /\ \A i \in 1 .. Len(s) : (s \o t)[i] = s[i]
         /\ (s \o t)[Len(s) + 1] = t[1] /\ (s \o t)[Len(s) + 2] = t[2]
<1>1. /\ s \o t \in Seq(Byte) /\ Len(s \o t) = Len(s) + Len(t)
      /\ \A i \in 1 .. Len(s) : (s \o t)[i] = s[i]
      /\ \A i \in 1 .. Len(t) : (s \o t)[Len(s) + i] = t[i]
  BY Appended, SMTT(60)
<1>2. 1 \in 1 .. Len(t) /\ 2 \in 1 .. Len(t)
  OBVIOUS
<1> QED
  BY <1>1, <1>2

\* The twelve bytes of the header, and what they stand for.
LEMMA HeaderIs ==
  ASSUME NEW h \in Headers
  PROVE  /\ HeaderBytes(h) \in Seq(Byte) /\ Len(HeaderBytes(h)) = 12
         /\ Int16Of(HeaderBytes(h)[1], HeaderBytes(h)[2]) = h.id
         /\ Decode(HeaderBytes(h)[3], HeaderBytes(h)[4]) = h.flags
         /\ Int16Of(HeaderBytes(h)[5], HeaderBytes(h)[6]) = h.qdcount
         /\ Int16Of(HeaderBytes(h)[7], HeaderBytes(h)[8]) = h.ancount
         /\ Int16Of(HeaderBytes(h)[9], HeaderBytes(h)[10]) = h.nscount
         /\ Int16Of(HeaderBytes(h)[11], HeaderBytes(h)[12]) = h.arcount
<1> DEFINE t1 == Int16Bytes(h.id)
           t2 == Encode(h.flags)
           t3 == Int16Bytes(h.qdcount)
           t4 == Int16Bytes(h.ancount)
           t5 == Int16Bytes(h.nscount)
           t6 == Int16Bytes(h.arcount)
           s2 == t1 \o t2
           s3 == s2 \o t3
           s4 == s3 \o t4
           s5 == s4 \o t5
           s6 == s5 \o t6
<1>1. h.id \in Int16 /\ h.flags \in Flags /\ h.qdcount \in Int16 /\ h.ancount \in Int16 /\ h.nscount \in Int16 /\ h.arcount \in Int16
  BY DEF Headers
<1>2. HeaderBytes(h) = s6
  BY DEF HeaderBytes
<1>3. t1 \in Seq(Byte) /\ Len(t1) = 2 /\ Int16Of(t1[1], t1[2]) = h.id
  BY <1>1, Int16RoundTrip
<1>4. t2 \in Seq(Byte) /\ Len(t2) = 2 /\ Decode(t2[1], t2[2]) = h.flags
  <2>1. t2[1] \in Byte /\ t2[2] \in Byte /\ Decode(t2[1], t2[2]) = h.flags
    BY <1>1, FlagsRoundTrip
  <2>2. t2 = <<t2[1], t2[2]>>
    BY DEF Encode
  <2> DEFINE x == t2[1]
             y == t2[2]
  <2> HIDE DEF x, y
  <2>3. t2 = <<x, y>> /\ x \in Byte /\ y \in Byte
    BY <2>1, <2>2 DEF x, y
  <2> HIDE DEF t2
  <2>4. t2 \in Seq(Byte) /\ Len(t2) = 2
    BY <2>3
  <2> QED
    BY <2>1, <2>4 DEF t2
<1>5. t3 \in Seq(Byte) /\ Len(t3) = 2 /\ Int16Of(t3[1], t3[2]) = h.qdcount
  BY <1>1, Int16RoundTrip
<1>6. t4 \in Seq(Byte) /\ Len(t4) = 2 /\ Int16Of(t4[1], t4[2]) = h.ancount
  BY <1>1, Int16RoundTrip
<1>7. t5 \in Seq(Byte) /\ Len(t5) = 2 /\ Int16Of(t5[1], t5[2]) = h.nscount
  BY <1>1, Int16RoundTrip
<1>8. t6 \in Seq(Byte) /\ Len(t6) = 2 /\ Int16Of(t6[1], t6[2]) = h.arcount
  BY <1>1, Int16RoundTrip
<1> HIDE DEF t1, t2, t3, t4, t5, t6
<1>9. /\ s2 \in Seq(Byte) /\ Len(s2) = 4 /\ \A i \in 1 .. 2 : s2[i] = t1[i]
       /\ s2[3] = t2[1] /\ s2[4] = t2[2]
  <2>1. t1 \in Seq(Byte) /\ t2 \in Seq(Byte) /\ Len(t2) = 2
    BY <1>3, <1>4
  <2>2. /\ s2 \in Seq(Byte) /\ Len(s2) = Len(t1) + 2
        /\ \A i \in 1 .. Len(t1) : s2[i] = t1[i]
        /\ s2[Len(t1) + 1] = t2[1] /\ s2[Len(t1) + 2] = t2[2]
    BY <2>1, TwoMore
  <2>3. Len(t1) = 2
    BY <1>3
  <2> HIDE DEF s2
  <2> QED
    BY <2>2, <2>3
<1> HIDE DEF s2
<1>10. /\ s3 \in Seq(Byte) /\ Len(s3) = 6 /\ \A i \in 1 .. 4 : s3[i] = s2[i]
       /\ s3[5] = t3[1] /\ s3[6] = t3[2]
  <2>1. s2 \in Seq(Byte) /\ t3 \in Seq(Byte) /\ Len(t3) = 2
    BY <1>9, <1>5
  <2>2. /\ s3 \in Seq(Byte) /\ Len(s3) = Len(s2) + 2
        /\ \A i \in 1 .. Len(s2) : s3[i] = s2[i]
        /\ s3[Len(s2) + 1] = t3[1] /\ s3[Len(s2) + 2] = t3[2]
    BY <2>1, TwoMore
  <2>3. Len(s2) = 4
    BY <1>9
  <2> HIDE DEF s3
  <2> QED
    BY <2>2, <2>3
<1> HIDE DEF s3
<1>11. /\ s4 \in Seq(Byte) /\ Len(s4) = 8 /\ \A i \in 1 .. 6 : s4[i] = s3[i]
       /\ s4[7] = t4[1] /\ s4[8] = t4[2]
  <2>1. s3 \in Seq(Byte) /\ t4 \in Seq(Byte) /\ Len(t4) = 2
    BY <1>10, <1>6
  <2>2. /\ s4 \in Seq(Byte) /\ Len(s4) = Len(s3) + 2
        /\ \A i \in 1 .. Len(s3) : s4[i] = s3[i]
        /\ s4[Len(s3) + 1] = t4[1] /\ s4[Len(s3) + 2] = t4[2]
    BY <2>1, TwoMore
  <2>3. Len(s3) = 6
    BY <1>10
  <2> HIDE DEF s4
  <2> QED
    BY <2>2, <2>3
<1> HIDE DEF s4
<1>12. /\ s5 \in Seq(Byte) /\ Len(s5) = 10 /\ \A i \in 1 .. 8 : s5[i] = s4[i]
       /\ s5[9] = t5[1] /\ s5[10] = t5[2]
  <2>1. s4 \in Seq(Byte) /\ t5 \in Seq(Byte) /\ Len(t5) = 2
    BY <1>11, <1>7
  <2>2. /\ s5 \in Seq(Byte) /\ Len(s5) = Len(s4) + 2
        /\ \A i \in 1 .. Len(s4) : s5[i] = s4[i]
        /\ s5[Len(s4) + 1] = t5[1] /\ s5[Len(s4) + 2] = t5[2]
    BY <2>1, TwoMore
  <2>3. Len(s4) = 8
    BY <1>11
  <2> HIDE DEF s5
  <2> QED
    BY <2>2, <2>3
<1> HIDE DEF s5
<1>13. /\ s6 \in Seq(Byte) /\ Len(s6) = 12 /\ \A i \in 1 .. 10 : s6[i] = s5[i]
       /\ s6[11] = t6[1] /\ s6[12] = t6[2]
  <2>1. s5 \in Seq(Byte) /\ t6 \in Seq(Byte) /\ Len(t6) = 2
    BY <1>12, <1>8
  <2>2. /\ s6 \in Seq(Byte) /\ Len(s6) = Len(s5) + 2
        /\ \A i \in 1 .. Len(s5) : s6[i] = s5[i]
        /\ s6[Len(s5) + 1] = t6[1] /\ s6[Len(s5) + 2] = t6[2]
    BY <2>1, TwoMore
  <2>3. Len(s5) = 10
    BY <1>12
  <2> HIDE DEF s6
  <2> QED
    BY <2>2, <2>3
<1> HIDE DEF s6
<1>14. s6[9] = t5[1] /\ s6[10] = t5[2]
  BY <1>12, <1>13
<1>15. s6[7] = t4[1] /\ s6[8] = t4[2]
  BY <1>11, <1>12, <1>13
<1>16. s6[5] = t3[1] /\ s6[6] = t3[2]
  BY <1>10, <1>11, <1>12, <1>13
<1>17. s6[3] = t2[1] /\ s6[4] = t2[2]
  BY <1>9, <1>10, <1>11, <1>12, <1>13
<1>18. s6[1] = t1[1] /\ s6[2] = t1[2]
  BY <1>9, <1>10, <1>11, <1>12, <1>13
<1> QED
  BY <1>2, <1>3, <1>4, <1>5, <1>6, <1>7, <1>8, <1>13, <1>14, <1>15, <1>16, <1>17, <1>18

\* A header that is next is taken.
LEMMA HeaderTaken ==
  ASSUME NEW b \in Stream(Byte), NEW h \in Headers, Placed(b.data, b.read, HeaderBytes(h))
  PROVE  ReadMessageHeader(b) = Done(Advanced(b, 12), h)
<1> DEFINE v == HeaderBytes(h)
           r == ReadBytes(b, 12)
<1>1. /\ v \in Seq(Byte) /\ Len(v) = 12
      /\ Int16Of(v[1], v[2]) = h.id /\ Decode(v[3], v[4]) = h.flags /\ Int16Of(v[5], v[6]) = h.qdcount
      /\ Int16Of(v[7], v[8]) = h.ancount /\ Int16Of(v[9], v[10]) = h.nscount /\ Int16Of(v[11], v[12]) = h.arcount
  BY HeaderIs
<1> HIDE DEF v
<1>2. b.data \in Seq(Byte) /\ b.read \in Nat /\ Readable(b) = Len(b.data) - b.read /\ Len(b.data) \in Nat
  BY StreamIs
<1>3. b.read + 12 <= Len(b.data)
  BY <1>1 DEF Placed, v
<1>4. SubSeq(b.data, b.read + 1, b.read + 12) = v
  <2>1. SubSeq(b.data, b.read + 1, b.read + Len(v)) = v
    BY <1>1, <1>2, PlacedIs DEF v
  <2> QED
    BY <1>1, <2>1
<1>5. 12 \in Nat /\ 12 <= Readable(b)
  BY <1>2, <1>3
<1>6. r = [ok |-> TRUE, value |-> v, to |-> Advanced(b, 12)]
  BY <1>4, <1>5, ReadBytesIs DEF Advanced
<1>7. r.ok = TRUE /\ r.value = v /\ r.to = Advanced(b, 12)
  <2> HIDE DEF r
  <2> QED
    BY <1>6
<1> DEFINE read == [id |-> Int16Of(v[1], v[2]), flags |-> Decode(v[3], v[4]), qdcount |-> Int16Of(v[5], v[6]),
                    ancount |-> Int16Of(v[7], v[8]), nscount |-> Int16Of(v[9], v[10]), arcount |-> Int16Of(v[11], v[12])]
<1>8. ReadMessageHeader(b) = Done(Advanced(b, 12), read)
  <2>1. ReadMessageHeader(b) = IF ~ r.ok THEN r
          ELSE Done(r.to, [id |-> Int16Of(r.value[1], r.value[1 + 1]), flags |-> Decode(r.value[3], r.value[3 + 1]),
                           qdcount |-> Int16Of(r.value[5], r.value[5 + 1]), ancount |-> Int16Of(r.value[7], r.value[7 + 1]),
                           nscount |-> Int16Of(r.value[9], r.value[9 + 1]), arcount |-> Int16Of(r.value[11], r.value[11 + 1])])
    BY Zenon DEF ReadMessageHeader, HeaderLength, ReadFlags
  <2>2. 1 + 1 = 2 /\ 3 + 1 = 4 /\ 5 + 1 = 6 /\ 7 + 1 = 8 /\ 9 + 1 = 10 /\ 11 + 1 = 12
    OBVIOUS
  <2> HIDE DEF r
  <2> QED
    BY <1>7, <2>1, <2>2
<1>9. read = h
  <2>1. h = [id |-> h.id, flags |-> h.flags, qdcount |-> h.qdcount, ancount |-> h.ancount, nscount |-> h.nscount, arcount |-> h.arcount]
    BY DEF Headers
  <2> QED
    BY <1>1, <2>1
<1> QED
  BY <1>8, <1>9

\* Questions are written as bytes.
LEMMA QuestionsBytesAre ==
  ASSUME NEW qs \in Seq(Questions)
  PROVE  QuestionsBytes(qs) \in Seq(Byte)
<1> DEFINE ss == [i \in DOMAIN qs |-> QuestionBytes(qs[i])]
           N == Len(qs)
<1>1. N \in Nat /\ DOMAIN qs = 1 .. N /\ \A i \in 1 .. N : qs[i] \in Questions
  BY LenProperties, ElementOfSeq
<1>2. ss = [i \in 1 .. N |-> QuestionBytes(qs[i])] /\ QuestionsBytes(qs) = FlattenSeq(ss)
  BY <1>1 DEF QuestionsBytes
<1> HIDE DEF ss, N
<1>3. \A i \in 1 .. N : QuestionBytes(qs[i]) \in Seq(Byte)
  BY <1>1, QuestionBytesAre
<1>4. ss \in Seq(Seq(Byte))
  BY <1>1, <1>2, <1>3
<1>5. PICK f : /\ f[0] = <<>>
               /\ \A i \in 1 .. Len(ss) : f[i] = f[i - 1] \o ss[i]
               /\ \A i \in 0 .. Len(ss) : f[i] \in Seq(Byte)
               /\ FlattenSeq(ss) = f[Len(ss)]
  BY <1>4, FlatFrom
<1>6. Len(ss) \in 0 .. Len(ss)
  BY <1>4, LenProperties
<1> QED
  BY <1>2, <1>5, <1>6

\* What is packed of a message without records.
LEMMA AskingPacked ==
  ASSUME NEW h \in Headers, NEW qs \in Seq(Questions)
  PROVE  /\ HeaderBytes(h) \o QuestionsBytes(qs) \in Seq(Byte)
         /\ Pack(EmptyStream, Asking(h, qs)) = StreamOf(HeaderBytes(h) \o QuestionsBytes(qs))
<1> DEFINE m == Asking(h, qs)
           bytes == HeaderBytes(h) \o QuestionsBytes(qs)
<1>1. m.questions = qs /\ m.header = h /\ m.answers = <<>> /\ m.authorities = <<>> /\ m.additionals = <<>>
  BY DEF Asking
<1>2. bytes \in Seq(Byte)
  BY HeaderIs, QuestionsBytesAre, ConcatProperties
<1> HIDE DEF m
<1>3. Records(m) = <<>>
  <2>1. Records(m) = <<>> \o <<>> \o <<>>
    BY <1>1 DEF Records
  <2>2. <<>> \in Seq(Byte)
    BY EmptySeq
  <2>3. <<>> \o <<>> = <<>>
    BY <2>2, ConcatEmptySeq
  <2> QED
    BY <2>1, <2>3
<1>4. Len(Records(m)) = 0
  BY <1>3
<1>5. 0 \in Nat
  OBVIOUS
<1>6. PICK f : /\ f[0] = Write(EmptyStream, HeaderBytes(m.header) \o FlattenSeq([q \in DOMAIN m.questions |-> QuestionBytes(m.questions[q])]))
               /\ \A i \in 1 .. Len(Records(m)) : f[i] = WriteRecord(f[i - 1], Records(m)[i])
               /\ Pack(EmptyStream, m) = f[Len(Records(m))]
  <2>1. Len(Records(m)) \in Nat
    BY <1>4
  <2> QED
    BY <2>1, PackedIs
<1>7. Pack(EmptyStream, m) = Write(EmptyStream, bytes)
  BY <1>1, <1>4, <1>6 DEF QuestionsBytes
<1>8. Write(EmptyStream, bytes) = StreamOf(<<>> \o bytes)
  <2> HIDE DEF bytes
  <2>1. Write(EmptyStream, bytes) = [EmptyStream EXCEPT !.data = EmptyStream.data \o bytes]
    BY DEF Write, EmptyStream
  <2>2. EmptyStream.data = <<>>
    BY DEF EmptyStream
  <2> QED
    BY <2>1, <2>2 DEF StreamOf
<1>9. <<>> \o bytes = bytes
  BY <1>2, ConcatEmptySeq
<1> QED
  BY <1>2, <1>7, <1>8, <1>9 DEF m

\* A stream made of bytes.
LEMMA StreamOfIs ==
  ASSUME NEW T, NEW bytes \in Seq(T)
  PROVE  /\ StreamOf(bytes) \in Stream(T) /\ StreamOf(bytes).data = bytes /\ StreamOf(bytes).read = 0
         /\ Unread(StreamOf(bytes)) = bytes
<1>1. StreamOf(bytes) = [data |-> bytes, read |-> 0, base |-> 0]
  BY DEF StreamOf, EmptyStream
<1>2. Len(bytes) \in Nat
  BY LenProperties
<1>3. StreamOf(bytes) \in Stream(T)
  BY <1>1, <1>2 DEF Stream
<1>4. Unread(StreamOf(bytes)) = bytes
  <2>1. Unread(StreamOf(bytes)) = SubSeq(bytes, 0 + 1, Len(bytes))
    BY <1>1 DEF Unread
  <2> QED
    BY <2>1, SubSeqFull
<1> QED
  BY <1>1, <1>3, <1>4

\* FromBuffer reads the sections in their order, each from where the one before
\* it ends, the first from where the header ends.
LEMMA SectionsAreRead ==
  ASSUME NEW m, NEW b, NEW lucky
  PROVE  LET read == ReadMessageHeader(b)
             r0 == Gives(read.ok, IF read.ok THEN [m EXCEPT !.header = read.value] ELSE m, read.to)
             r1 == ReadSection("questions", r0, lucky)
             r2 == ReadSection("answers", r1, lucky)
             r3 == ReadSection("authorities", r2, lucky)
             r4 == ReadSection("additionals", r3, lucky)
         IN Unpack(m, b, lucky) = IF r4.ok THEN [r4 EXCEPT !.to = Flushed(r4.to)] ELSE r4
<1> DEFINE read == ReadMessageHeader(b)
           r0 == Gives(read.ok, IF read.ok THEN [m EXCEPT !.header = read.value] ELSE m, read.to)
           r1 == ReadSection("questions", r0, lucky)
           r2 == ReadSection("answers", r1, lucky)
           r3 == ReadSection("authorities", r2, lucky)
           r4 == ReadSection("additionals", r3, lucky)
           g == [i \in 0 .. 4 |-> IF i = 0 THEN r0 ELSE IF i = 1 THEN r1 ELSE IF i = 2 THEN r2 ELSE IF i = 3 THEN r3 ELSE r4]
           To(f, i) == IF i = 0 THEN r0 ELSE ReadSection(Sections[i], f[i - 1], lucky)
           c == CHOOSE f : f = [i \in 0 .. Len(Sections) |-> To(f, i)]
<1>0. Unpack(m, b, lucky) = LET last == c[Len(Sections)]
                            IN IF last.ok THEN [last EXCEPT !.to = Flushed(last.to)] ELSE last
  BY Zenon DEF Unpack
<1> HIDE DEF read, r0, c
<1>1. /\ Len(Sections) = 4
      /\ Sections[1] = "questions" /\ Sections[2] = "answers"
      /\ Sections[3] = "authorities" /\ Sections[4] = "additionals"
  BY DEF Sections
<1>2. g[0] = r0 /\ g[1] = r1 /\ g[2] = r2 /\ g[3] = r3 /\ g[4] = r4
  <2> HIDE DEF r1, r2, r3, r4
  <2> QED
    OBVIOUS
<1>3. \A i \in 0 .. 4 : g[i] = To(g, i)
  <2>1. To(g, 0) = r0 /\ To(g, 1) = ReadSection("questions", g[0], lucky)
    BY <1>1
  <2>2. To(g, 2) = ReadSection("answers", g[1], lucky) /\ To(g, 3) = ReadSection("authorities", g[2], lucky)
    BY <1>1
  <2>3. To(g, 4) = ReadSection("additionals", g[3], lucky)
    BY <1>1
  <2>4. \A i \in 0 .. 4 : i = 0 \/ i = 1 \/ i = 2 \/ i = 3 \/ i = 4
    OBVIOUS
  <2>5. g[0] = To(g, 0) /\ g[1] = To(g, 1) /\ g[2] = To(g, 2) /\ g[3] = To(g, 3) /\ g[4] = To(g, 4)
    <3> HIDE DEF g, To
    <3> QED
      BY <1>2, <2>1, <2>2, <2>3
  <2> HIDE DEF g, To
  <2> QED
    BY <2>4, <2>5
<1>4. g = [i \in 0 .. 4 |-> To(g, i)]
  <2> DEFINE G(i) == IF i = 0 THEN r0 ELSE IF i = 1 THEN r1 ELSE IF i = 2 THEN r2 ELSE IF i = 3 THEN r3 ELSE r4
  <2>1. g = [i \in 0 .. 4 |-> G(i)]
    OBVIOUS
  <2> HIDE DEF g, To, G
  <2>2. \A i \in 0 .. 4 : g[i] = G(i)
    BY <2>1
  <2> QED
    BY <1>3, <2>1, <2>2
<1>5. \E f : f = [i \in 0 .. Len(Sections) |-> To(f, i)]
  <2> HIDE DEF g, To
  <2> QED
    BY <1>1, <1>4
<1>6. \A i \in 0 .. 4 : c[i] = To(c, i)
  <2>1. c = [i \in 0 .. 4 |-> To(c, i)]
    <3> HIDE DEF To
    <3> QED
      BY <1>1, <1>5 DEF c
  <2> HIDE DEF To
  <2> QED
    BY <2>1
<1>7. c[0] = To(c, 0) /\ c[1] = To(c, 1) /\ c[2] = To(c, 2) /\ c[3] = To(c, 3) /\ c[4] = To(c, 4)
  <2> HIDE DEF To
  <2> QED
    BY <1>6
<1>8. To(c, 0) = r0 /\ To(c, 1) = ReadSection("questions", c[0], lucky)
  BY <1>1
<1>9. To(c, 2) = ReadSection("answers", c[1], lucky) /\ To(c, 3) = ReadSection("authorities", c[2], lucky)
  BY <1>1
<1>10. To(c, 4) = ReadSection("additionals", c[3], lucky)
  BY <1>1
<1>11. c[Len(Sections)] = r4
  <2> HIDE DEF To
  <2> QED
    BY <1>1, <1>7, <1>8, <1>9, <1>10
<1> HIDE DEF r4, To
<1>12. Unpack(m, b, lucky) = IF r4.ok THEN [r4 EXCEPT !.to = Flushed(r4.to)] ELSE r4
  BY <1>0, <1>11
<1> QED
  BY <1>12, Zenon DEF r4, r0, read

\* A message that asks any number of questions, packed and unpacked, is the same
\* message, whatever the fields of its header and the names in its questions; and
\* nothing is left of it.
THEOREM QuestionsRoundTrip ==
  ASSUME NEW h \in Headers, NEW qs \in Seq(Questions), NEW lucky,
         h.qdcount = Len(qs), h.ancount = 0, h.nscount = 0, h.arcount = 0
  PROVE  Unpack(NoMessage, StreamOf(Unread(Pack(EmptyStream, Asking(h, qs)))), lucky)
           = Gives(TRUE, Asking(h, qs), EmptyStream)
<1> DEFINE head == HeaderBytes(h)
           tail == QuestionsBytes(qs)
           bytes == head \o tail
           b == StreamOf(bytes)
           m == Asking(h, qs)
           b1 == Advanced(b, 12)
           b2 == Advanced(b1, Len(tail))
           read == ReadMessageHeader(b)
           r0 == Gives(read.ok, IF read.ok THEN [NoMessage EXCEPT !.header = read.value] ELSE NoMessage, read.to)
           r1 == ReadSection("questions", r0, lucky)
           r2 == ReadSection("answers", r1, lucky)
           r3 == ReadSection("authorities", r2, lucky)
           r4 == ReadSection("additionals", r3, lucky)
<1>1. /\ bytes \in Seq(Byte) /\ Pack(EmptyStream, Asking(h, qs)) = b
      /\ head \in Seq(Byte) /\ Len(head) = 12 /\ tail \in Seq(Byte)
  BY AskingPacked, HeaderIs, QuestionsBytesAre
<1>2. /\ b \in Stream(Byte) /\ b.data = bytes /\ b.read = 0 /\ Unread(b) = bytes
  BY <1>1, StreamOfIs
<1>3. Placed(bytes, 0, head) /\ Placed(bytes, 0 + Len(head), tail) /\ Len(bytes) = Len(head) + Len(tail)
  <2>1. Len(bytes) \in Nat
    BY <1>1, LenProperties
  <2>2. Placed(bytes, 0, bytes)
    <3> HIDE DEF bytes
    <3> QED
      BY <2>1 DEF Placed
  <2>3. 0 \in Nat
    OBVIOUS
  <2>4. Placed(bytes, 0, head \o tail)
    BY <2>2
  <2>5. bytes \in Seq(Byte) /\ head \in Seq(Byte) /\ tail \in Seq(Byte)
    BY <1>1
  <2> DEFINE data == bytes
  <2> HIDE DEF head, tail, data
  <2>6. Placed(data, 0, head \o tail) /\ data \in Seq(Byte)
    BY <2>4, <2>5 DEF data
  <2>7. Placed(data, 0, head) /\ Placed(data, 0 + Len(head), tail) /\ Len(head \o tail) = Len(head) + Len(tail)
    BY <2>3, <2>5, <2>6, PlacedParts
  <2> QED
    BY <2>7 DEF data
<1> HIDE DEF head, tail, bytes, b
<1>4. /\ read = Done(b1, h)
      /\ b1 \in Stream(Byte) /\ b1.data = bytes /\ b1.read = 12
  <2>1. Placed(b.data, b.read, head)
    BY <1>2, <1>3
  <2>2. read = Done(b1, h)
    BY <1>2, <2>1, HeaderTaken DEF head
  <2>3. /\ Advanced(b, Len(head)) \in Stream(Byte) /\ Advanced(b, Len(head)).data = b.data
        /\ Advanced(b, Len(head)).read = b.read + Len(head)
    BY <1>1, <1>2, <2>1, AdvancedIs
  <2> QED
    BY <1>1, <1>2, <2>2, <2>3
<1> HIDE DEF b1, read
<1>5. r0 = Got(Asking(h, <<>>), b1)
  <2>1. read.ok = TRUE /\ read.value = h /\ read.to = b1
    BY <1>4 DEF Done
  <2>2. [NoMessage EXCEPT !.header = h] = Asking(h, <<>>)
    BY AskingIs
  <2>3. r0 = Gives(TRUE, [NoMessage EXCEPT !.header = h], b1)
    BY <2>1
  <2> QED
    BY <2>2, <2>3 DEF Got
<1> HIDE DEF r0
<1>6. r1 = Got(m, b2)
  <2>1. Placed(b1.data, b1.read, tail)
    <3>1. 0 + Len(head) = 12
      BY <1>1
    <3> QED
      BY <1>3, <1>4, <3>1
  <2> QED
    BY <1>4, <1>5, <2>1, QuestionsTaken DEF tail
<1> HIDE DEF r1
<1>7. r2 = Got(m, b2)
  BY <1>6, NoneTaken
<1> HIDE DEF r2
<1>8. r3 = Got(m, b2)
  BY <1>7, NoneTaken
<1> HIDE DEF r3
<1>9. r4 = Got(m, b2)
  BY <1>8, NoneTaken
<1> HIDE DEF r4
<1>10. Unpack(NoMessage, b, lucky) = IF r4.ok THEN [r4 EXCEPT !.to = Flushed(r4.to)] ELSE r4
  BY SectionsAreRead, Zenon DEF r4, r3, r2, r1, r0, read
<1>11. Flushed(b2) = EmptyStream
  <2>1. Len(tail) \in Nat
    BY <1>1, LenProperties
  <2>2. b2.data = bytes /\ b2.read = 12 + Len(tail)
    BY <1>4 DEF Advanced
  <2>3. Len(bytes) = 12 + Len(tail)
    BY <1>1, <1>3
  <2>4. Readable(b2) = 0
    BY <2>1, <2>2, <2>3 DEF Readable
  <2> QED
    BY <2>4 DEF Flushed
<1> HIDE DEF m, b2
<1>12. [r4 EXCEPT !.to = Flushed(r4.to)] = Got(m, EmptyStream)
  <2> DEFINE yes == TRUE
             no == FALSE
             end == Flushed(r4.to)
  <2>1. r4 = [ok |-> yes, aborts |-> no, value |-> m, to |-> b2]
    BY <1>9 DEF Got, Gives
  <2>2. r4.to = b2
    BY <1>9 DEF Got, Gives
  <2>3. end = EmptyStream
    BY <1>11, <2>2
  <2> HIDE DEF yes, no, end
  <2>4. [r4 EXCEPT !.to = end] = [ok |-> yes, aborts |-> no, value |-> m, to |-> end]
    BY <2>1
  <2> QED
    BY <2>3, <2>4 DEF yes, no, end, Got, Gives
<1>13. r4.ok = TRUE
  BY <1>9 DEF Got, Gives
<1>14. Unread(Pack(EmptyStream, Asking(h, qs))) = bytes
  BY <1>1, <1>2
<1> QED
  BY <1>10, <1>12, <1>13, <1>14 DEF b, m, Got

\* These bytes ask what the call asked.
IsQuery(a, bytes) ==
  /\ a.name \in Names /\ a.type \in Types
  /\ \E id \in Ids : bytes = Unread(Pack(EmptyStream, Query(id, a.name, a.type)))

\* What is packed, and what is on its way, was packed for the call.
QueriesPacked ==
  /\ at = "packed" => IsQuery(asked, Unread(buf))
  /\ \A r \in requests : IsQuery(r.asked, r.bytes)

\* The header of a query.
AskingHeader(id) == [id |-> id, flags |-> [NoFlags EXCEPT !.rd = 1], qdcount |-> 1, ancount |-> 0, nscount |-> 0, arcount |-> 0]

\* The flags of a query.
LEMMA QueryFlags ==
  /\ [NoFlags EXCEPT !.rd = 1] \in Flags
  /\ [NoFlags EXCEPT !.rd = 1].qr = 0 /\ [NoFlags EXCEPT !.rd = 1].rd = 1
<1>1. NoFlags = [qr |-> 0, opcode |-> 0, aa |-> 0, tc |-> 0, rd |-> 0, ra |-> 0, z |-> 0, rcode |-> 0]
  BY DEF NoFlags, FlagBits
<1> DEFINE f == [NoFlags EXCEPT !.rd = 1]
<1>2. f = [qr |-> 0, opcode |-> 0, aa |-> 0, tc |-> 0, rd |-> 1, ra |-> 0, z |-> 0, rcode |-> 0]
  BY <1>1
<1> HIDE DEF f
<1>3. f \in Flags
  BY <1>2 DEF Flags
<1>4. f.qr = 0 /\ f.rd = 1
  BY <1>2
<1> QED
  BY <1>3, <1>4 DEF f

\* What DnsResolver::Resolve asks with is a message of one question.
LEMMA QueryIs ==
  ASSUME NEW id \in Int16, NEW name, name \notin InvalidNames, NEW type
  PROVE  /\ AskingHeader(id) \in Headers
         /\ Query(id, name, type) = Asking(AskingHeader(id), <<[name |-> name, type |-> type, class |-> 1]>>)
<1> DEFINE flags == [NoFlags EXCEPT !.rd = 1]
           h0 == NoMessage.header
           h1 == QueryHeader(id)
           h2 == [h1 EXCEPT !.qdcount = 1]
           qs == << Question(name, type) >>
<1>1. flags \in Flags
  BY QueryFlags
<1>2. AskingHeader(id) \in Headers
  <2> HIDE DEF flags
  <2>1. AskingHeader(id) = [id |-> id, flags |-> flags, qdcount |-> 1, ancount |-> 0, nscount |-> 0, arcount |-> 0]
    BY DEF AskingHeader, flags
  <2>2. 0 \in Int16 /\ 1 \in Int16
    BY DEF Int16
  <2> QED
    BY <1>1, <2>1, <2>2 DEF Headers
<1>3. h0 = [id |-> 0, flags |-> NoFlags, qdcount |-> 0, ancount |-> 0, nscount |-> 0, arcount |-> 0]
  BY DEF NoMessage
<1>4. h1 = [id |-> id, flags |-> flags, qdcount |-> 0, ancount |-> 0, nscount |-> 0, arcount |-> 0]
  <2> HIDE DEF h0
  <2>1. h1 = [h0 EXCEPT !.id = id, !.flags.rd = 1]
    BY DEF QueryHeader, h0
  <2>2. h1 = [[h0 EXCEPT !.id = id] EXCEPT !.flags = [h0.flags EXCEPT !.rd = 1]]
    BY <1>3, <2>1
  <2>3. h0.flags = NoFlags
    BY <1>3
  <2> HIDE DEF h1, flags
  <2>4. h1 = [[h0 EXCEPT !.id = id] EXCEPT !.flags = flags]
    BY <2>2, <2>3 DEF flags
  <2> QED
    BY <1>3, <2>4
<1> HIDE DEF h1, flags
<1>5. h2 = [id |-> id, flags |-> flags, qdcount |-> 1, ancount |-> 0, nscount |-> 0, arcount |-> 0]
  BY <1>4
<1>6. h2 = AskingHeader(id)
  BY <1>5 DEF AskingHeader, flags
<1>7. qs = <<[name |-> name, type |-> type, class |-> 1]>>
  BY DEF Question, DomainName
<1> HIDE DEF h2, qs
<1>8. Query(id, name, type) = [NoMessage EXCEPT !.header = h2, !.questions = qs]
  BY DEF Query, h1, h2, qs
<1>9. [NoMessage EXCEPT !.header = h2, !.questions = qs] = Asking(h2, qs)
  <2>1. NoMessage = Asking(NoMessage.header, <<>>)
    BY AskingIs
  <2>2. [NoMessage EXCEPT !.header = h2, !.questions = qs] = [[NoMessage EXCEPT !.header = h2] EXCEPT !.questions = qs]
    BY Zenon
  <2>3. [NoMessage EXCEPT !.header = h2] = Asking(h2, <<>>)
    BY AskingIs
  <2>4. [Asking(h2, <<>>) EXCEPT !.questions = qs] = Asking(h2, qs)
    BY AskingIs
  <2> QED
    BY <2>2, <2>3, <2>4
<1> QED
  BY <1>2, <1>6, <1>7, <1>8, <1>9

\* What fits 16 bits.
LEMMA Int16Is ==
  ASSUME NEW v \in Nat, v < 65536
  PROVE  v \in Int16
BY DEF Int16

\* What the bytes of a query read as.
LEMMA QueryReads ==
  ASSUME Names \subseteq DomainNames, Names \cap InvalidNames = {}, NEW a, NEW bytes, IsQuery(a, bytes), NEW lucky,
         NEW u, u = Unpack(NoMessage, StreamOf(bytes), lucky)
  PROVE  /\ u.ok = TRUE /\ u.to = EmptyStream
         /\ u.value.header.flags.qr = 0 /\ u.value.header.flags.rd = 1
         /\ u.value.questions = <<[name |-> a.name, type |-> a.type, class |-> 1]>>
<1>1. PICK id \in Ids : bytes = Unread(Pack(EmptyStream, Query(id, a.name, a.type)))
  BY DEF IsQuery
<1>2. a.name \in DomainNames /\ a.name \notin InvalidNames /\ a.type \in Int16 /\ id \in Int16
  <2>1. a.name \in Names /\ a.type \in Types
    BY DEF IsQuery
  <2>2. id \in Nat /\ id < 65536 /\ a.type \in {A, CNAME, MX, TXT}
    BY <2>1, <1>1, ResolverAssumption DEF ResolverAssumption
  <2>4. a.type \in Nat /\ a.type < 65536
    BY <2>2 DEF A, CNAME, MX, TXT
  <2>5. id \in Int16
    BY <2>2, Int16Is
  <2>6. a.type \in Int16
    BY <2>4, Int16Is
  <2> QED
    BY <2>1, <2>5, <2>6
<1> DEFINE h == AskingHeader(id)
           q == [name |-> a.name, type |-> a.type, class |-> 1]
           qs == << q >>
<1>3. h \in Headers /\ Query(id, a.name, a.type) = Asking(h, qs)
  BY <1>2, QueryIs
<1>4. q \in Questions
  <2>1. 1 \in Int16
    BY DEF Int16
  <2> QED
    BY <1>2, <2>1 DEF Questions
<1>5. h.qdcount = 1 /\ h.ancount = 0 /\ h.nscount = 0 /\ h.arcount = 0 /\ h.flags = [NoFlags EXCEPT !.rd = 1]
  BY DEF AskingHeader
<1> HIDE DEF h, q
<1>6. qs \in Seq(Questions) /\ Len(qs) = 1
  BY <1>4
<1> HIDE DEF qs
<1>7. u = Gives(TRUE, Asking(h, qs), EmptyStream)
  <2>1. h.qdcount = Len(qs)
    BY <1>5, <1>6
  <2>2. bytes = Unread(Pack(EmptyStream, Asking(h, qs)))
    BY <1>1, <1>3
  <2> QED
    BY <1>3, <1>5, <1>6, <2>1, <2>2, QuestionsRoundTrip
<1>8. u.ok = TRUE /\ u.to = EmptyStream /\ u.value = Asking(h, qs)
  BY <1>7 DEF Gives
<1>9. u.value.header = h /\ u.value.questions = qs
  BY <1>8, AskingIs
<1>10. h.flags.qr = 0 /\ h.flags.rd = 1
  BY <1>5, QueryFlags
<1> QED
  BY <1>8, <1>9, <1>10 DEF qs, q

\* Every step keeps the queries as they were packed.
LEMMA PackedStays ==
  ASSUME Names \subseteq DomainNames, Names \cap InvalidNames = {}, QueriesPacked, [Next]_vars
  PROVE  QueriesPacked'
<1>1. CASE UNCHANGED vars
  BY <1>1 DEF QueriesPacked, vars
<1>2. ASSUME NEW name \in Names, NEW qtype \in Types, NEW id \in Ids, Resolve(name, qtype, id)
      PROVE  QueriesPacked'
  <2>1. /\ asked' = [call |-> calls + 1, name |-> name, type |-> qtype]
        /\ buf' = Pack(EmptyStream, Query(id, name, qtype)) /\ requests' = requests
    BY <1>2 DEF Resolve
  <2>2. asked'.name = name /\ asked'.type = qtype
    BY <2>1
  <2>3. IsQuery(asked', Unread(buf'))
    BY <2>1, <2>2 DEF IsQuery
  <2> QED
    BY <2>1, <2>3 DEF QueriesPacked
<1>3. CASE Send
  <2>1. at' = "sent" /\ at = "packed" /\ requests' = requests \cup {[bytes |-> Unread(buf), asked |-> asked]}
    BY <1>3 DEF Send
  <2> DEFINE new == [bytes |-> Unread(buf), asked |-> asked]
  <2>2. new.bytes = Unread(buf) /\ new.asked = asked
    OBVIOUS
  <2> HIDE DEF new
  <2>3. IsQuery(new.asked, new.bytes)
    BY <2>1, <2>2 DEF QueriesPacked
  <2>4. requests' = requests \cup {new}
    BY <2>1 DEF new
  <2>5. \A r \in requests' : IsQuery(r.asked, r.bytes)
    BY <2>3, <2>4 DEF QueriesPacked
  <2> QED
    BY <2>1, <2>5 DEF QueriesPacked
<1>4. CASE SendFails \/ Receive \/ ReceiveFails
  <2>1. requests' = requests /\ at' # "packed"
    BY <1>4 DEF SendFails, Receive, ReceiveFails
  <2> QED
    BY <2>1 DEF QueriesPacked
<1>5. CASE Serve
  <2>1. requests' \subseteq requests /\ at' = at /\ asked' = asked /\ buf' = buf
    BY <1>5, ZenonT(60) DEF Serve
  <2> QED
    BY <2>1 DEF QueriesPacked
<1>6. CASE Deliver \/ Lose
  <2>1. requests' \subseteq requests /\ at' = at /\ asked' = asked /\ buf' = buf
    BY <1>6 DEF Deliver, Lose
  <2> QED
    BY <2>1 DEF QueriesPacked
<1> QED
  BY <1>1, <1>2, <1>3, <1>4, <1>5, <1>6 DEF Next

\* Every query on the wire reads as the question that was asked, and to the end,
\* for all names that RFC 1035 allows.
THEOREM QueryRoundTripHolds ==
  ASSUME Names \subseteq DomainNames, Names \cap InvalidNames = {}
  PROVE  Spec => []QueryRoundTrip
<1>1. Init => QueriesPacked
  BY DEF Init, QueriesPacked
<1>2. QueriesPacked /\ [Next]_vars => QueriesPacked'
  BY PackedStays
<1>3. QueriesPacked => QueryRoundTrip
  <2> DEFINE Read(r) == Unpack(NoMessage, StreamOf(r.bytes), FALSE)
  <2> SUFFICES ASSUME QueriesPacked, NEW r \in requests
               PROVE  /\ Read(r).ok /\ Read(r).to = EmptyStream
                      /\ Read(r).value.header.flags.qr = 0 /\ Read(r).value.header.flags.rd = 1
                      /\ Read(r).value.questions = <<[name |-> r.asked.name, type |-> r.asked.type, class |-> 1]>>
    BY Zenon DEF QueryRoundTrip
  <2> HIDE DEF Read
  <2>1. IsQuery(r.asked, r.bytes)
    BY DEF QueriesPacked
  <2>2. Read(r) = Unpack(NoMessage, StreamOf(r.bytes), FALSE)
    BY DEF Read
  <2> DEFINE a == r.asked
             bytes == r.bytes
             u == Read(r)
             lucky == FALSE
  <2> HIDE DEF lucky
  <2>3. u = Unpack(NoMessage, StreamOf(bytes), lucky) /\ IsQuery(a, bytes)
    BY <2>1, <2>2 DEF lucky
  <2> HIDE DEF u, a, bytes
  <2>4. /\ u.ok = TRUE /\ u.to = EmptyStream
        /\ u.value.header.flags.qr = 0 /\ u.value.header.flags.rd = 1
        /\ u.value.questions = <<[name |-> a.name, type |-> a.type, class |-> 1]>>
    BY <2>3, QueryReads
  <2> QED
    BY <2>4 DEF u, a
<1> QED
  BY <1>1, <1>2, <1>3, PTL DEF Spec

-----------------------------------------------------------------------------
(* The lines of a header.                                                  *)

\* HeaderLines is the function that its definition means.
LEMMA HeaderLinesIs ==
  ASSUME NEW p
  PROVE  /\ HeaderLines(p)[0] = p
         /\ \A n \in Nat : HeaderLines(p)[n + 1] = HeaderLine(HeaderLines(p)[n])
<1> DEFINE Lines(g, N) == g = [n \in N |-> IF n = 0 THEN p ELSE HeaderLine(g[n - 1])]
           Has == {n \in Nat : \E g : Lines(g, 0 .. n)}
<1>1. 0 \in Has
  <2>1. Lines([n \in 0 .. 0 |-> p], 0 .. 0)
    OBVIOUS
  <2> QED
    BY <2>1
<1>2. ASSUME NEW n \in Has PROVE n + 1 \in Has
  <2>1. PICK g : Lines(g, 0 .. n)
    OBVIOUS
  <2> DEFINE h == [i \in 0 .. n + 1 |-> IF i = n + 1 THEN HeaderLine(g[n]) ELSE g[i]]
  <2>2. \A i \in 0 .. n + 1 : h[i] = IF i = 0 THEN p ELSE HeaderLine(h[i - 1])
    BY <2>1
  <2>3. Lines(h, 0 .. n + 1)
    BY <2>2
  <2> HIDE DEF h
  <2> QED
    BY <2>3
<1> HIDE DEF Has
<1>3. \A n \in Nat : n \in Has
  <2>1. Has \subseteq Nat
    BY DEF Has
  <2> QED
    BY <1>1, <1>2, <2>1, Induction
<1> DEFINE G(n) == CHOOSE g : Lines(g, 0 .. n)
           f == [n \in Nat |-> G(n)[n]]
<1>4. \A n \in Nat : Lines(G(n), 0 .. n)
  BY <1>3 DEF Has
<1>5. \A n \in Nat : G(n)[0] = p /\ \A i \in 1 .. n : G(n)[i] = HeaderLine(G(n)[i - 1])
  <2> SUFFICES ASSUME NEW n \in Nat
               PROVE  G(n)[0] = p /\ \A i \in 1 .. n : G(n)[i] = HeaderLine(G(n)[i - 1])
    OBVIOUS
  <2>1. Lines(G(n), 0 .. n)
    BY <1>4
  <2> HIDE DEF G
  <2> QED
    BY <2>1
<1> HIDE DEF G
<1>6. ASSUME NEW n \in Nat PROVE \A i \in Nat : i <= n => G(n)[i] = f[i]
  <2> DEFINE Same == {i \in Nat : i <= n => G(n)[i] = G(i)[i]}
  <2>1. 0 \in Same
    BY <1>5
  <2>2. ASSUME NEW i \in Same PROVE i + 1 \in Same
    <3> DEFINE Also == {j \in Nat : j <= i /\ i + 1 <= n => G(n)[j] = G(i + 1)[j]}
    <3>1. 0 \in Also
      BY <1>5
    <3>2. ASSUME NEW j \in Also PROVE j + 1 \in Also
      <4> SUFFICES ASSUME j + 1 <= i, i + 1 <= n PROVE G(n)[j + 1] = G(i + 1)[j + 1]
        OBVIOUS
      <4>1. G(n)[j] = G(i + 1)[j]
        OBVIOUS
      <4>2. G(n)[j + 1] = HeaderLine(G(n)[j])
        <5>1. j + 1 \in 1 .. n /\ (j + 1) - 1 = j
          OBVIOUS
        <5> QED
          BY <1>5, <5>1
      <4>3. G(i + 1)[j + 1] = HeaderLine(G(i + 1)[j])
        <5>1. i + 1 \in Nat /\ j + 1 \in 1 .. (i + 1) /\ (j + 1) - 1 = j
          OBVIOUS
        <5> QED
          BY <1>5, <5>1
      <4> QED
        BY <4>1, <4>2, <4>3
    <3> HIDE DEF Also
    <3>3. Also \subseteq Nat
      BY DEF Also
    <3>4. \A j \in Nat : j \in Also
      BY <3>1, <3>2, <3>3, Induction
    <3>5. i + 1 <= n => G(n)[i] = G(i + 1)[i]
      BY <3>4 DEF Also
    <3>6. i + 1 <= n => G(n)[i + 1] = HeaderLine(G(n)[i])
      BY <1>5
    <3>7. G(i + 1)[i + 1] = HeaderLine(G(i + 1)[i])
      BY <1>5
    <3> QED
      BY <3>5, <3>6, <3>7
  <2> HIDE DEF Same
  <2>3. Same \subseteq Nat
    BY DEF Same
  <2>4. \A i \in Nat : i \in Same
    BY <2>1, <2>2, <2>3, Induction
  <2> QED
    BY <2>4 DEF Same
<1>7. \A n \in Nat : f[n] = IF n = 0 THEN p ELSE HeaderLine(f[n - 1])
  <2> SUFFICES ASSUME NEW n \in Nat PROVE f[n] = IF n = 0 THEN p ELSE HeaderLine(f[n - 1])
    OBVIOUS
  <2>1. n # 0 => n - 1 \in Nat /\ n - 1 <= n
    OBVIOUS
  <2>2. n # 0 => G(n)[n - 1] = f[n - 1]
    BY <1>6, <2>1
  <2>3. G(n)[n] = IF n = 0 THEN p ELSE HeaderLine(G(n)[n - 1])
    BY <1>5
  <2> QED
    BY <2>2, <2>3
<1>8. f = [n \in Nat |-> IF n = 0 THEN p ELSE HeaderLine(f[n - 1])]
  BY <1>7
<1> HIDE DEF f
<1>9. HeaderLines(p) = [n \in Nat |-> IF n = 0 THEN p ELSE HeaderLine(HeaderLines(p)[n - 1])]
  <2> DEFINE c == CHOOSE g : Lines(g, Nat)
  <2>1. HeaderLines(p) = c
    BY DEF HeaderLines
  <2>2. Lines(c, Nat)
    BY <1>8
  <2> QED
    BY <2>1, <2>2
<1> QED
  BY <1>9

-----------------------------------------------------------------------------
(* Reading a line.                                                         *)

\* The letters of a line break.
LEMMA LineBreaks == Range(CRLF) = {CR, LF} /\ Len(CRLF) = 2
<1>1. CRLF = <<CR, LF>> /\ DOMAIN CRLF = 1 .. 2
  BY DEF CRLF
<1> QED
  BY <1>1 DEF Range

\* Where the line that is next stops.
LineEnd(b) == FirstStop(Stops(b, CRLF))

\* Where a line may stop, and that it stops at the first of these.
LEMMA StopsIs ==
  ASSUME NEW T, NEW b \in Stream(T)
  PROVE  /\ Stops(b, CRLF) \in SUBSET Nat
         /\ \A i \in Nat : i \in Stops(b, CRLF)
              <=> i < Readable(b) /\ b.data[b.read + i + 1] \in {CR, LF}
         /\ Stops(b, CRLF) # {} =>
              /\ LineEnd(b) \in Stops(b, CRLF)
              /\ \A j \in Stops(b, CRLF) : LineEnd(b) <= j
<1>1. Readable(b) \in Nat
  BY StreamIs
<1>2. Stops(b, CRLF) = {i \in 0 .. Readable(b) - 1 : b.data[b.read + i + 1] \in {CR, LF}}
  BY LineBreaks DEF Stops
<1>3. Stops(b, CRLF) \in SUBSET Nat
  BY <1>1, <1>2
<1>4. \A i \in Nat : i \in Stops(b, CRLF)
              <=> i < Readable(b) /\ b.data[b.read + i + 1] \in {CR, LF}
  BY <1>1, <1>2
<1> QED
  BY <1>3, <1>4, FirstStopIs DEF LineEnd

\* What ReadLine does, by where the line stops.
LEMMA ReadLineFails ==
  ASSUME NEW T, NEW b \in Stream(T), Readable(b) < 2 \/ Stops(b, CRLF) = {}
  PROVE  ReadLine(b, CRLF) = Fail(b)
  BY LineBreaks DEF ReadLine

\* A break that is next is an empty line, and taken.
LEMMA ReadLineBlank ==
  ASSUME NEW T, NEW b \in Stream(T), Readable(b) >= 2, Stops(b, CRLF) # {}, LineEnd(b) = 0
  PROVE  ReadLine(b, CRLF) = Done(b, <<>>)
<1>1. ~ (Readable(b) < Len(CRLF) \/ Stops(b, CRLF) = {})
  BY StreamIs, LineBreaks
<1> QED
  BY <1>1 DEF ReadLine, LineEnd

\* A line that is not blank: its bytes, and then as many as the delimiter has.
LEMMA ReadLineTwice ==
  ASSUME NEW T, NEW b \in Stream(T), Readable(b) >= 2, Stops(b, CRLF) # {}, LineEnd(b) # 0
  PROVE  LET c == [data |-> b.data, read |-> b.read + LineEnd(b), base |-> b.base]
             value == SubSeq(b.data, b.read + 1, b.read + LineEnd(b))
         IN  /\ ReadLine(b, CRLF) = [ok |-> ReadBytes(c, 2).ok, value |-> value, to |-> ReadBytes(c, 2).to]
             /\ value \in Seq(T) /\ value # <<>>
             /\ c \in Stream(T) /\ Readable(c) = Readable(b) - LineEnd(b)
<1> DEFINE i == LineEnd(b)
           c == [data |-> b.data, read |-> b.read + i, base |-> b.base]
           value == SubSeq(b.data, b.read + 1, b.read + i)
           line == ReadBytes(b, i)
           end == ReadBytes(line.to, 2)
<1>1. /\ b.data \in Seq(T) /\ Len(b.data) \in Nat /\ b.read \in Nat /\ Readable(b) \in Nat
      /\ b.base \in Nat /\ b.read <= Len(b.data) /\ Readable(b) = Len(b.data) - b.read
  BY StreamIs
<1>3. i \in Nat /\ i < Readable(b)
  BY StopsIs
<1>4. ~ (Readable(b) < Len(CRLF) \/ Stops(b, CRLF) = {})
  BY <1>1, LineBreaks
<1>6. ReadLine(b, CRLF) = [ok |-> end.ok, value |-> line.value, to |-> end.to]
  BY <1>4, LineBreaks DEF ReadLine, LineEnd
<1> HIDE DEF i
<1>5. i <= Readable(b)
  BY <1>1, <1>3
<1>7. line = [ok |-> TRUE, value |-> value, to |-> c] /\ value \in Seq(T) /\ c \in Stream(T)
  BY <1>3, <1>5, ReadBytesIs
<1>8. line.to = c /\ line.value = value
  <2> HIDE DEF line, c, value
  <2> QED
    BY <1>7
<1>9. Readable(c) = Readable(b) - i
  BY <1>1, <1>3 DEF Readable
<1>10. value # <<>>
  <2>1. \A j \in b.read + 1 .. b.read + i : b.data[j] \in T
    BY <1>1, <1>3, ElementOfSeq
  <2>2. i # 0
    BY DEF i
  <2>3. Len(value) = i
    BY <1>1, <1>3, <2>1, <2>2, SubSeqProperties, SMTT(60)
  <2> HIDE DEF value
  <2> QED
    BY <2>2, <2>3
<1> HIDE DEF c, line, value
<1> QED
  BY <1>6, <1>7, <1>8, <1>9, <1>10 DEF c, value, i

\* A line whose break has not come in full is not read.
LEMMA ReadLineCut ==
  ASSUME NEW T, NEW b \in Stream(T), Readable(b) >= 2, Stops(b, CRLF) # {},
         LineEnd(b) # 0, LineEnd(b) + 2 > Readable(b)
  PROVE  ~ ReadLine(b, CRLF).ok
<1> DEFINE c == [data |-> b.data, read |-> b.read + LineEnd(b), base |-> b.base]
<1>1. ReadLine(b, CRLF).ok = ReadBytes(c, 2).ok /\ c \in Stream(T) /\ Readable(c) = Readable(b) - LineEnd(b)
  BY ReadLineTwice
<1>2. Readable(b) \in Nat /\ LineEnd(b) \in Nat
  BY StreamIs, StopsIs
<1> HIDE DEF c
<1>3. 2 > Readable(c)
  BY <1>1, <1>2
<1>4. ReadBytes(c, 2) = Fail(c)
  BY <1>1, <1>3, ReadBytesIs
<1> QED
  BY <1>1, <1>4 DEF Fail

\* A line whose break has come is read up to it, and taken with it.
LEMMA ReadLineTakes ==
  ASSUME NEW T, NEW b \in Stream(T), Stops(b, CRLF) # {},
         LineEnd(b) # 0, LineEnd(b) + 2 <= Readable(b)
  PROVE  LET i == LineEnd(b)
             value == SubSeq(b.data, b.read + 1, b.read + i)
             to == [data |-> b.data, read |-> b.read + i + 2, base |-> b.base]
         IN  /\ ReadLine(b, CRLF) = [ok |-> TRUE, value |-> value, to |-> to]
             /\ value \in Seq(T) /\ value # <<>> /\ to \in Stream(T)
<1> DEFINE i == LineEnd(b)
           value == SubSeq(b.data, b.read + 1, b.read + i)
           c == [data |-> b.data, read |-> b.read + i, base |-> b.base]
           to == [data |-> b.data, read |-> b.read + i + 2, base |-> b.base]
<1>1. Readable(b) \in Nat /\ i \in Nat /\ Readable(b) >= 2 /\ b.read \in Nat
  BY StreamIs, StopsIs
<1>2. /\ ReadLine(b, CRLF) = [ok |-> ReadBytes(c, 2).ok, value |-> value, to |-> ReadBytes(c, 2).to]
      /\ value \in Seq(T) /\ value # <<>>
      /\ c \in Stream(T) /\ Readable(c) = Readable(b) - i
  BY <1>1, ReadLineTwice
<1>3. c.data = b.data /\ c.read = b.read + i /\ c.base = b.base
  OBVIOUS
<1> HIDE DEF i, c, value
<1>4. 2 <= Readable(c)
  BY <1>1, <1>2 DEF i
<1>5. /\ ReadBytes(c, 2).ok = TRUE /\ ReadBytes(c, 2).to = [data |-> c.data, read |-> c.read + 2, base |-> c.base]
      /\ [data |-> c.data, read |-> c.read + 2, base |-> c.base] \in Stream(T)
  BY <1>2, <1>4, ReadBytesIs
<1>6. [data |-> c.data, read |-> c.read + 2, base |-> c.base] = to
  BY <1>3
<1> HIDE DEF to
<1> QED
  BY <1>2, <1>5, <1>6 DEF i, value, to

\* A line that was read is read from a stream that has grown.
LEMMA ReadLineExtends ==
  ASSUME NEW T, NEW b \in Stream(T), NEW e \in Seq(T), ReadLine(b, CRLF).ok
  PROVE  /\ ReadLine(b, CRLF).to \in Stream(T) /\ ReadLine(b, CRLF).value \in Seq(T)
         /\ ReadLine(b, CRLF).to.data = b.data /\ ReadLine(b, CRLF).to.base = b.base
         /\ ReadLine(b, CRLF).value = <<>> => ReadLine(b, CRLF).to = b /\ Readable(b) >= 2
         /\ ReadLine(b, CRLF).value # <<>> => Readable(ReadLine(b, CRLF).to) + 2 < Readable(b)
         /\ ReadLine(Write(b, e), CRLF)
              = [ok |-> TRUE, value |-> ReadLine(b, CRLF).value, to |-> Write(ReadLine(b, CRLF).to, e)]
<1> DEFINE w == Write(b, e)
           i == LineEnd(b)
           k == LineEnd(w)
<1>1. /\ b.data \in Seq(T) /\ Len(b.data) \in Nat /\ b.read \in Nat /\ Readable(b) \in Nat
      /\ b.base \in Nat /\ b.read <= Len(b.data) /\ Readable(b) = Len(b.data) - b.read
      /\ b = [data |-> b.data, read |-> b.read, base |-> b.base]
  BY StreamIs
<1>2. /\ w \in Stream(T) /\ w.data = b.data \o e /\ w.read = b.read /\ w.base = b.base
      /\ Readable(w) = Readable(b) + Len(e) /\ Len(e) \in Nat /\ Readable(w) \in Nat
      /\ \A j \in 1 .. Len(b.data) : w.data[j] = b.data[j]
      /\ w = [data |-> w.data, read |-> w.read, base |-> w.base]
  BY WriteIs, StreamIs, LenProperties
<1> HIDE DEF w
<1>3. Readable(b) >= 2 /\ Stops(b, CRLF) # {}
  <2>1. ~ Fail(b).ok
    BY DEF Fail
  <2> QED
    BY <1>1, <2>1, ReadLineFails
<1>4. /\ i \in Nat /\ i < Readable(b) /\ b.data[b.read + i + 1] \in {CR, LF}
      /\ \A j \in Nat : j < Readable(b) /\ b.data[b.read + j + 1] \in {CR, LF} => i <= j
  BY <1>3, StopsIs
<1>5. i \in Stops(w, CRLF) /\ Stops(w, CRLF) # {} /\ Readable(w) >= 2
  <2>1. b.read + i + 1 \in 1 .. Len(b.data)
    BY <1>1, <1>4
  <2>2. i < Readable(w) /\ w.data[w.read + i + 1] \in {CR, LF}
    BY <1>1, <1>2, <1>4, <2>1
  <2>3. i \in Stops(w, CRLF)
    BY <1>2, <1>4, <2>2, StopsIs
  <2> QED
    BY <1>1, <1>2, <1>3, <2>3
<1>6. k = i
  <2>1. k \in Nat /\ k <= i /\ w.data[w.read + k + 1] \in {CR, LF}
    BY <1>2, <1>5, StopsIs
  <2>2. b.read + k + 1 \in 1 .. Len(b.data) /\ k < Readable(b)
    BY <1>1, <1>4, <2>1
  <2>3. i <= k
    BY <1>2, <1>4, <2>1, <2>2
  <2> QED
    BY <1>4, <2>1, <2>3
<1>7. CASE i = 0
  <2>1. ReadLine(b, CRLF) = Done(b, <<>>) /\ ReadLine(w, CRLF) = Done(w, <<>>)
    BY <1>2, <1>3, <1>5, <1>6, <1>7, ReadLineBlank
  <2>2. <<>> \in Seq(T)
    BY EmptySeq
  <2> QED
    BY <1>3, <2>1, <2>2 DEF Done, w
<1>8. CASE i # 0
  <2>1. i + 2 <= Readable(b)
    BY <1>1, <1>3, <1>4, <1>8, ReadLineCut, SMTT(60)
  <2>2. i + 2 <= Readable(w)
    BY <1>1, <1>2, <1>4, <2>1
  <2> DEFINE to == [data |-> b.data, read |-> b.read + i + 2, base |-> b.base]
             value == SubSeq(b.data, b.read + 1, b.read + i)
  <2>3. /\ ReadLine(b, CRLF) = [ok |-> TRUE, value |-> value, to |-> to]
        /\ value \in Seq(T) /\ value # <<>> /\ to \in Stream(T)
    BY <1>3, <1>8, <2>1, ReadLineTakes
  <2>4. ReadLine(w, CRLF) = [ok |-> TRUE, value |-> SubSeq(w.data, w.read + 1, w.read + k),
                             to |-> [data |-> w.data, read |-> w.read + k + 2, base |-> w.base]]
    BY <1>2, <1>5, <1>6, <1>8, <2>2, ReadLineTakes
  <2>5. SubSeq(w.data, w.read + 1, w.read + k) = value
    <3>1. b.read + 1 \in Nat /\ b.read + i \in Nat /\ 1 <= b.read + 1 /\ b.read + i <= Len(b.data)
      BY <1>1, <1>4
    <3>2. SubSeq(w.data, b.read + 1, b.read + i) = SubSeq(b.data, b.read + 1, b.read + i)
      BY <3>1, WriteKeeps DEF w
    <3> QED
      BY <1>2, <1>6, <3>2
  <2>6. [data |-> w.data, read |-> w.read + k + 2, base |-> w.base] = Write(to, e)
    <3> DEFINE d == b.data \o e
    <3>1. Write(to, e) = [to EXCEPT !.data = d]
      BY DEF Write
    <3>2. w.data = d
      BY <1>2
    <3> HIDE DEF d
    <3> QED
      BY <1>2, <1>6, <3>1, <3>2
  <2>7. to.data = b.data /\ to.base = b.base /\ Readable(to) = Readable(b) - i - 2
    BY <1>1, <1>4 DEF Readable
  <2>8. Readable(to) + 2 < Readable(b)
    BY <1>1, <1>4, <1>8, <2>7
  <2> DEFINE line == ReadLine(b, CRLF)
  <2> HIDE DEF to, value, line
  <2>9. line.to = to /\ line.value = value
    BY <2>3 DEF line
  <2>10. ReadLine(w, CRLF) = [ok |-> TRUE, value |-> line.value, to |-> Write(line.to, e)]
    BY <2>4, <2>5, <2>6, <2>9
  <2>11. /\ line.to \in Stream(T) /\ line.value \in Seq(T) /\ line.to.data = b.data /\ line.to.base = b.base
         /\ line.value # <<>> /\ Readable(line.to) + 2 < Readable(b)
    BY <2>3, <2>7, <2>8, <2>9
  <2> QED
    BY <2>10, <2>11 DEF w, line
<1> QED
  BY <1>7, <1>8

-----------------------------------------------------------------------------
(* Where lines end.                                                        *)

\* No line of a tidy stream is lost: reading it succeeds, or takes nothing.
LEMMA ReadLineKeeps ==
  ASSUME NEW T, NEW b \in Stream(T), Tidy(b.data)
  PROVE  ReadLine(b, CRLF).ok \/ ReadLine(b, CRLF) = Fail(b)
<1> DEFINE i == LineEnd(b)
<1>1. /\ Len(b.data) \in Nat /\ b.read \in Nat /\ Readable(b) \in Nat
      /\ b.read <= Len(b.data) /\ Readable(b) = Len(b.data) - b.read
      /\ DOMAIN b.data = 1 .. Len(b.data)
  BY StreamIs
<1> SUFFICES ASSUME Readable(b) >= 2, Stops(b, CRLF) # {}
             PROVE  ReadLine(b, CRLF).ok
  <2>1. Readable(b) < 2 \/ Stops(b, CRLF) = {} => ReadLine(b, CRLF) = Fail(b)
    BY ReadLineFails
  <2> QED
    BY <1>1, <2>1
<1>2. /\ i \in Nat /\ i < Readable(b) /\ b.data[b.read + i + 1] \in {CR, LF}
      /\ \A j \in Nat : j < Readable(b) /\ b.data[b.read + j + 1] \in {CR, LF} => i <= j
  BY StopsIs
<1> HIDE DEF i
<1>3. CASE i = 0
  BY <1>3, ReadLineBlank DEF Done, i
<1>4. CASE i # 0
  <2> DEFINE k == b.read + i + 1
  <2>1. k \in 1 .. Len(b.data) /\ k > 1
    BY <1>1, <1>2, <1>4
  <2>2. b.data[k] # LF
    <3> SUFFICES ASSUME b.data[k] = LF PROVE FALSE
      OBVIOUS
    <3>1. b.data[k - 1] = CR
      BY <1>1, <2>1 DEF Tidy
    <3>2. i - 1 \in Nat /\ i - 1 < Readable(b) /\ b.read + (i - 1) + 1 = k - 1
      BY <1>1, <1>2, <1>4
    <3> QED
      BY <1>2, <3>1, <3>2
  <2>3. k + 1 \in 1 .. Len(b.data)
    BY <1>1, <1>2, <2>1, <2>2 DEF Tidy
  <2>4. i + 2 <= Readable(b)
    BY <1>1, <1>2, <2>3
  <2>5. LineEnd(b) # 0 /\ LineEnd(b) + 2 <= Readable(b)
    BY <1>4, <2>4 DEF i
  <2> DEFINE value == SubSeq(b.data, b.read + 1, b.read + LineEnd(b))
             to == [data |-> b.data, read |-> b.read + LineEnd(b) + 2, base |-> b.base]
  <2>6. ReadLine(b, CRLF) = [ok |-> TRUE, value |-> value, to |-> to]
    BY <2>5, ReadLineTakes
  <2> HIDE DEF value, to
  <2> QED
    BY <2>6
<1> QED
  BY <1>3, <1>4

-----------------------------------------------------------------------------
(* Messages, and where parsing is.                                         *)

\* A message object.
Message(m) ==
  /\ m = [kind |-> m.kind, first |-> m.first, second |-> m.second, version |-> m.version,
          headers |-> m.headers, len |-> m.len, body |-> m.body, room |-> m.room, state |-> m.state]
  /\ m.kind \in {"request", "response"} /\ m.state \in {"READY", "HEADER", "BODY", "DONE"}
  /\ m.len \in Nat /\ m.room \in Nat
  /\ m.state = "BODY" => m.len > 0

\* A place in a stream, and the message so far.
Place(T, p) ==
  /\ p = [msg |-> p.msg, to |-> p.to, end |-> p.end]
  /\ Message(p.msg) /\ p.to \in Stream(T) /\ p.end \in BOOLEAN

\* A message whose array has size k.
WithRoom(m, k) == [m EXCEPT !.room = k]

\* Other room for the body changes nothing else of a message.
LEMMA WithRoomIs ==
  ASSUME NEW m, Message(m), NEW k \in Nat
  PROVE  /\ WithRoom(m, k) = [kind |-> m.kind, first |-> m.first, second |-> m.second,
              version |-> m.version, headers |-> m.headers, len |-> m.len, body |-> m.body,
              room |-> k, state |-> m.state]
         /\ Message(WithRoom(m, k)) /\ WithRoom(m, k).state = m.state /\ WithRoom(m, k).headers = m.headers
         /\ k = m.room => WithRoom(m, k) = m
<1> DEFINE n == [kind |-> m.kind, first |-> m.first, second |-> m.second,
              version |-> m.version, headers |-> m.headers, len |-> m.len, body |-> m.body,
              room |-> k, state |-> m.state]
<1>1. WithRoom(m, k) = n
  BY DEF WithRoom, Message
<1>2. Message(n) /\ n.state = m.state /\ n.headers = m.headers /\ (k = m.room => n = m)
  BY DEF Message
<1> QED
  BY <1>1, <1>2

\* The same place, when the stream goes on with e and the array has size k.
Longer(p, e, k) == [msg |-> WithRoom(p.msg, k), to |-> Write(p.to, e), end |-> p.end]

\* A place with more bytes behind it is a place.
LEMMA LongerIs ==
  ASSUME NEW T, NEW p, Place(T, p), NEW e \in Seq(T), NEW k \in Nat
  PROVE  /\ Place(T, Longer(p, e, k))
         /\ Longer(p, e, k).msg = WithRoom(p.msg, k)
         /\ Longer(p, e, k).msg.state = p.msg.state
         /\ Longer(p, e, k).to = Write(p.to, e) /\ Longer(p, e, k).end = p.end
<1>1. Write(p.to, e) \in Stream(T)
  BY WriteIs DEF Place
<1> DEFINE m == WithRoom(p.msg, k)
<1>2. Message(m) /\ m.state = p.msg.state
  BY WithRoomIs DEF Place
<1> HIDE DEF m
<1> QED
  BY <1>1, <1>2 DEF Place, Longer, m

\* What is read as a number is a natural.
LEMMA NumberIsNat ==
  ASSUME NEW s
  PROVE  NumberIn(s) \in Nat
<1>1. Numbers \subseteq Nat
  BY HttpAssumption
<1> DEFINE read == {n \in Numbers : Word(s) # <<>> /\ Spelled(n) = <<Word(s)[1]>>}
<1>2. NumberIn(s) = IF read = {} THEN 0 ELSE CHOOSE n \in read : TRUE
  BY DEF NumberIn
<1>3. read \subseteq Nat
  BY <1>1
<1>4. read # {} => (CHOOSE n \in read : TRUE) \in read
  OBVIOUS
<1> DEFINE c == CHOOSE n \in read : TRUE
<1>5. read # {} => c \in Nat
  BY <1>3, <1>4
<1>6. NumberIn(s) = IF read = {} THEN 0 ELSE c
  BY <1>2
<1> HIDE DEF read, c
<1> QED
  BY <1>5, <1>6

\* A header is set whatever the array is.
LEMMA SetHeaderIs ==
  ASSUME NEW m, Message(m), NEW key, NEW value, NEW k \in Nat
  PROVE  /\ Message(SetHeader(m, key, value)) /\ SetHeader(m, key, value).state = m.state
         /\ SetHeader(m, key, value).room = m.room
         /\ SetHeader(m, key, value).kind = m.kind
         /\ SetHeader(m, key, value).body = m.body
         /\ SetHeader(WithRoom(m, k), key, value) = WithRoom(SetHeader(m, key, value), k)
<1> DEFINE l == WithRoom(m, k)
           Named(s) == Append(s, [key |-> key, value |-> value])
           U(s, i) == [s EXCEPT ![i].value = value]
<1>1. l.headers = m.headers
  BY WithRoomIs
<1>2. Keyed(l, key) = Keyed(m, key)
  BY <1>1 DEF Keyed
<1> DEFINE h == IF Keyed(m, key) = {} THEN Named(m.headers) ELSE U(m.headers, FirstStop(Keyed(m, key)))
<1>3. SetHeader(m, key, value) = [m EXCEPT !.headers = h]
  BY DEF SetHeader
<1>4. SetHeader(l, key, value) = [l EXCEPT !.headers = h]
  <2> HIDE DEF l
  <2>1. SetHeader(l, key, value) = IF Keyed(m, key) = {} THEN [l EXCEPT !.headers = Named(l.headers)]
           ELSE [l EXCEPT !.headers = U(l.headers, FirstStop(Keyed(m, key)))]
    BY <1>2 DEF SetHeader
  <2> QED
    BY <1>1, <2>1
<1> HIDE DEF h
<1>5. [l EXCEPT !.headers = h] = WithRoom([m EXCEPT !.headers = h], k)
  BY DEF Message, WithRoom
<1>6. Message([m EXCEPT !.headers = h])
  BY DEF Message
<1>7. /\ [m EXCEPT !.headers = h].state = m.state /\ [m EXCEPT !.headers = h].room = m.room
      /\ [m EXCEPT !.headers = h].kind = m.kind /\ [m EXCEPT !.headers = h].body = m.body
  BY DEF Message
<1> QED
  BY <1>3, <1>4, <1>5, <1>6, <1>7

\* What a line of the header changes.
Kept(p, q) == /\ q.to.data = p.to.data /\ q.to.base = p.to.base
              /\ q.msg.room = p.msg.room /\ q.msg.kind = p.msg.kind /\ q.msg.body = p.msg.body
              /\ q.msg.state = "READY" => p.msg.state = "READY"

\* The blank line ends the head, whatever comes behind it.
LEMMA BlankLineIs ==
  ASSUME NEW T, NEW p, Place(T, p), p.msg.state = "HEADER", ~ p.end,
         NEW e \in Seq(T), NEW k \in Nat
  PROVE  LET q == BlankLine(p.msg, p.to)
         IN  /\ Place(T, q) /\ Kept(p, q) /\ q.to = p.to
             /\ (q.end \/ q.msg.state \in {"BODY", "DONE"})
             /\ BlankLine(WithRoom(p.msg, k), Write(p.to, e)) = Longer(q, e, k)
<1> DEFINE m == p.msg
           l == WithRoom(m, k)
           q == BlankLine(m, p.to)
<1>0. Message(m) /\ p.to \in Stream(T)
  BY DEF Place
<1>1. l.headers = m.headers
  BY <1>0, WithRoomIs
<1>2. Keyed(l, ContentLength) = Keyed(m, ContentLength) /\ GetHeader(l, ContentLength) = GetHeader(m, ContentLength)
  BY <1>1 DEF Keyed, GetHeader
<1>3. CASE Keyed(m, ContentLength) = {}
  <2>1. q = [msg |-> m, to |-> p.to, end |-> TRUE]
    BY <1>3 DEF BlankLine, Ends, Parsing
  <2>2. BlankLine(l, Write(p.to, e)) = [msg |-> l, to |-> Write(p.to, e), end |-> TRUE]
    BY <1>2, <1>3 DEF BlankLine, Ends, Parsing
  <2> QED
    BY <1>0, <2>1, <2>2 DEF Place, Kept, Longer
<1>4. CASE Keyed(m, ContentLength) # {}
  <2> DEFINE n == NumberIn(GetHeader(m, ContentLength))
             S == IF n > 0 THEN "BODY" ELSE "DONE"
             r == [m EXCEPT !.len = n, !.state = S]
  <2>1. n \in Nat
    BY NumberIsNat
  <2>2. q = [msg |-> r, to |-> p.to, end |-> FALSE]
    BY <1>4 DEF BlankLine, Parsing
  <2>3. BlankLine(l, Write(p.to, e)) = [msg |-> [l EXCEPT !.len = n, !.state = S], to |-> Write(p.to, e), end |-> FALSE]
    BY <1>2, <1>4 DEF BlankLine, Parsing
  <2> HIDE DEF n
  <2>8. S \in {"BODY", "DONE"} /\ (S = "BODY" => n > 0)
    BY <2>1
  <2> HIDE DEF S
  <2>9. r = [kind |-> m.kind, first |-> m.first, second |-> m.second, version |-> m.version,
             headers |-> m.headers, len |-> n, body |-> m.body, room |-> m.room, state |-> S]
    <3> DEFINE u == [m EXCEPT !.len = n]
    <3>1. u = [kind |-> m.kind, first |-> m.first, second |-> m.second, version |-> m.version,
               headers |-> m.headers, len |-> n, body |-> m.body, room |-> m.room, state |-> m.state]
      BY <1>0 DEF Message
    <3>2. r = [u EXCEPT !.state = S]
      BY <1>0 DEF Message
    <3> HIDE DEF u
    <3> QED
      BY <3>1, <3>2
  <2>4. [l EXCEPT !.len = n, !.state = S] = WithRoom(r, k)
    BY <1>0 DEF Message, WithRoom
  <2> HIDE DEF r
  <2>5. /\ Message(r) /\ r.room = m.room /\ r.kind = m.kind /\ r.body = m.body
        /\ r.state \in {"BODY", "DONE"}
    BY <1>0, <2>1, <2>8, <2>9 DEF Message
  <2> HIDE DEF q, l
  <2>6. Place(T, q)
    BY <1>0, <2>2, <2>5 DEF Place
  <2>7. BlankLine(l, Write(p.to, e)) = Longer(q, e, k)
    BY <2>2, <2>3, <2>4 DEF Longer
  <2> QED
    BY <2>2, <2>5, <2>6, <2>7 DEF Kept, q, l
<1> QED
  BY <1>3, <1>4

\* One line, of a stream that may go on: it is the same line, or none.
LEMMA HeaderLineIs ==
  ASSUME NEW T, NEW p, Place(T, p), Tidy(p.to.data), NEW e \in Seq(T), NEW k \in Nat
  PROVE  /\ Place(T, HeaderLine(p)) /\ Kept(p, HeaderLine(p))
         /\ HeaderLine(p) # p =>
              /\ HeaderLine(Longer(p, e, k)) = Longer(HeaderLine(p), e, k)
              /\ p.msg.state = "HEADER" /\ ~ p.end /\ Readable(p.to) >= 2
              /\ \/ HeaderLine(p).end \/ HeaderLine(p).msg.state # "HEADER"
                 \/ Readable(HeaderLine(p).to) < Readable(p.to)
<1> DEFINE q == HeaderLine(p)
           l == Longer(p, e, k)
           r == ReadLine(p.to, CRLF)
           w == ReadLine(Write(p.to, e), CRLF)
<1>0. Message(p.msg) /\ p.to \in Stream(T) /\ p = [msg |-> p.msg, to |-> p.to, end |-> p.end]
  BY DEF Place
<1>1. CASE p.msg.state # "HEADER" \/ p.end
  BY <1>1 DEF HeaderLine, Kept
<1>2. CASE p.msg.state = "HEADER" /\ ~ p.end /\ ~ r.ok
  <2>1. r.to = p.to
    BY <1>0, <1>2, ReadLineKeeps DEF Fail
  <2>2. q = Parsing(p.msg, p.to)
    BY <1>2, <2>1 DEF HeaderLine
  <2>3. q = p
    BY <1>0, <1>2, <2>2 DEF Parsing, Place
  <2> QED
    BY <2>3 DEF Kept
<1>3. CASE p.msg.state = "HEADER" /\ ~ p.end /\ r.ok
  <2>1. /\ r.to \in Stream(T) /\ r.value \in Seq(T) /\ r.to.data = p.to.data /\ r.to.base = p.to.base
        /\ r.value = <<>> => r.to = p.to /\ Readable(p.to) >= 2
        /\ r.value # <<>> => Readable(r.to) + 2 < Readable(p.to)
        /\ w = [ok |-> TRUE, value |-> r.value, to |-> Write(r.to, e)]
    BY <1>0, <1>3, ReadLineExtends
  <2>2. w.ok /\ w.value = r.value /\ w.to = Write(r.to, e)
    BY <2>1
  <2>3. l.msg = WithRoom(p.msg, k) /\ l.to = Write(p.to, e) /\ l.msg.state = "HEADER" /\ ~ l.end
    BY <1>3, LongerIs
  <2>4. Readable(r.to) \in Nat /\ Readable(p.to) \in Nat
    BY <1>0, <2>1, StreamIs
  <2> HIDE DEF l, r, w
  <2>5. HeaderLine(l) = IF r.value = <<>> THEN BlankLine(l.msg, w.to)
                        ELSE IF Find(r.value, Colon) = 0 THEN Ends(l.msg, w.to)
                        ELSE Parsing(SetHeader(l.msg, Before(r.value, Colon), After(r.value, Colon)), w.to)
    BY <2>2, <2>3 DEF HeaderLine, w
  <2>6. q = IF r.value = <<>> THEN BlankLine(p.msg, r.to)
            ELSE IF Find(r.value, Colon) = 0 THEN Ends(p.msg, r.to)
            ELSE Parsing(SetHeader(p.msg, Before(r.value, Colon), After(r.value, Colon)), r.to)
    BY <1>3 DEF HeaderLine, r
  <2>7. CASE r.value = <<>>
    <3>1. /\ Place(T, q) /\ Kept(p, q)
          /\ q.end \/ q.msg.state \in {"BODY", "DONE"}
          /\ BlankLine(WithRoom(p.msg, k), Write(p.to, e)) = Longer(q, e, k)
      BY <1>3, <2>1, <2>6, <2>7, BlankLineIs
    <3> HIDE DEF q
    <3>2. q.end \/ q.msg.state # "HEADER"
      BY <3>1
    <3>4. Readable(p.to) >= 2
      BY <2>1, <2>7
    <3>3. HeaderLine(l) = Longer(q, e, k)
      BY <2>1, <2>2, <2>3, <2>5, <2>7, <3>1
    <3> QED
      BY <1>3, <3>1, <3>2, <3>3, <3>4 DEF q, l
  <2>8. CASE r.value # <<>> /\ Find(r.value, Colon) = 0
    <3>1. q = [msg |-> p.msg, to |-> r.to, end |-> TRUE]
      BY <2>6, <2>8 DEF Ends, Parsing
    <3>2. HeaderLine(l) = [msg |-> l.msg, to |-> Write(r.to, e), end |-> TRUE]
      BY <2>2, <2>5, <2>8 DEF Ends, Parsing
    <3> HIDE DEF q
    <3>3. HeaderLine(l) = Longer(q, e, k)
      BY <2>3, <3>1, <3>2 DEF Longer
    <3>4. Place(T, q) /\ Kept(p, q) /\ q.end
      BY <1>0, <2>1, <3>1 DEF Place, Kept
    <3> QED
      BY <1>3, <2>1, <2>4, <2>8, <3>3, <3>4 DEF q, l
  <2>9. CASE r.value # <<>> /\ Find(r.value, Colon) # 0
    <3> DEFINE key == Before(r.value, Colon)
               value == After(r.value, Colon)
               s == SetHeader(p.msg, key, value)
               t == WithRoom(p.msg, k)
    <3>1. q = [msg |-> s, to |-> r.to, end |-> FALSE]
      BY <2>6, <2>9 DEF Parsing
    <3>2. HeaderLine(l) = [msg |-> SetHeader(l.msg, key, value), to |-> Write(r.to, e), end |-> FALSE]
      BY <2>2, <2>5, <2>9 DEF Parsing
    <3> HIDE DEF key, value
    <3>6. /\ Message(s) /\ s.state = p.msg.state /\ s.room = p.msg.room /\ s.kind = p.msg.kind /\ s.body = p.msg.body
          /\ SetHeader(t, key, value) = WithRoom(s, k)
      BY <1>0, SetHeaderIs
    <3> HIDE DEF q, s, t
    <3>7. l.msg = t
      BY <2>3 DEF t
    <3>3. SetHeader(l.msg, key, value) = WithRoom(s, k)
      BY <3>6, <3>7
    <3>4. HeaderLine(l) = Longer(q, e, k)
      BY <3>1, <3>2, <3>3 DEF Longer
    <3>5. Place(T, q) /\ Kept(p, q) /\ q.to = r.to
      BY <1>3, <2>1, <3>1, <3>6 DEF Place, Kept
    <3> QED
      BY <1>3, <2>1, <2>4, <2>9, <3>4, <3>5 DEF q, l
  <2> QED
    BY <2>7, <2>8, <2>9
<1> QED
  BY <1>1, <1>2, <1>3 DEF Place

-----------------------------------------------------------------------------
(* All the lines.                                                          *)

\* Lines keep the stream, and what they do not set.
LEMMA LinesKeep ==
  ASSUME NEW T, NEW p, Place(T, p), Tidy(p.to.data)
  PROVE  \A n \in Nat : Place(T, HeaderLines(p)[n]) /\ Kept(p, HeaderLines(p)[n])
<1> DEFINE At(n) == HeaderLines(p)[n]
           Has == {n \in Nat : Place(T, At(n)) /\ Kept(p, At(n))}
<1>1. At(0) = p /\ \A n \in Nat : At(n + 1) = HeaderLine(At(n))
  BY HeaderLinesIs
<1> HIDE DEF At
<1>2. 0 \in Has
  BY <1>1 DEF Kept
<1>3. ASSUME NEW n \in Has PROVE n + 1 \in Has
  <2> DEFINE q == At(n)
  <2>1. Place(T, q) /\ Kept(p, q)
    OBVIOUS
  <2> HIDE DEF q
  <2>2. Tidy(q.to.data)
    BY <2>1 DEF Kept
  <2>3. 0 \in Nat /\ <<>> \in Seq(T)
    BY EmptySeq
  <2>4. Place(T, HeaderLine(q)) /\ Kept(q, HeaderLine(q))
    BY <2>1, <2>2, <2>3, HeaderLineIs
  <2>5. Kept(p, HeaderLine(q))
    BY <2>1, <2>4 DEF Kept
  <2> QED
    BY <1>1, <2>4, <2>5 DEF q
<1>4. \A n \in Nat : n \in Has
  <2> HIDE DEF Has
  <2>1. Has \subseteq Nat
    BY DEF Has
  <2> QED
    BY <1>2, <1>3, <2>1, Induction
<1> QED
  BY <1>4 DEF At

\* The lines of a stream that goes on begin with the same lines.
LEMMA LinesLonger ==
  ASSUME NEW T, NEW p, Place(T, p), Tidy(p.to.data), NEW e \in Seq(T), NEW k \in Nat
  PROVE  \A n \in Nat : \E j \in Nat : HeaderLines(Longer(p, e, k))[j] = Longer(HeaderLines(p)[n], e, k)
<1> DEFINE l == Longer(p, e, k)
           At(n) == HeaderLines(p)[n]
           Lo(n) == HeaderLines(l)[n]
           Has == {n \in Nat : \E j \in Nat : Lo(j) = Longer(At(n), e, k)}
<1>1. At(0) = p /\ \A n \in Nat : At(n + 1) = HeaderLine(At(n))
  BY HeaderLinesIs
<1>2. Lo(0) = l /\ \A n \in Nat : Lo(n + 1) = HeaderLine(Lo(n))
  BY HeaderLinesIs
<1>3. \A n \in Nat : Place(T, At(n)) /\ Tidy(At(n).to.data)
  BY LinesKeep DEF Kept
<1> HIDE DEF At, Lo
<1>4. 0 \in Has
  BY <1>1, <1>2
<1> HIDE DEF l
<1>5. ASSUME NEW n \in Has PROVE n + 1 \in Has
  <2>1. PICK j \in Nat : Lo(j) = Longer(At(n), e, k)
    OBVIOUS
  <2>2. CASE HeaderLine(At(n)) = At(n)
    BY <1>1, <2>1, <2>2
  <2>3. CASE HeaderLine(At(n)) # At(n)
    <3>1. HeaderLine(Longer(At(n), e, k)) = Longer(HeaderLine(At(n)), e, k)
      BY <1>3, <2>3, HeaderLineIs
    <3>2. Lo(j + 1) = Longer(At(n + 1), e, k)
      BY <1>1, <1>2, <2>1, <3>1
    <3> QED
      BY <3>2
  <2> QED
    BY <2>2, <2>3
<1>6. \A n \in Nat : n \in Has
  <2> HIDE DEF Has
  <2>1. Has \subseteq Nat
    BY DEF Has
  <2> QED
    BY <1>4, <1>5, <2>1, Induction
<1> QED
  BY <1>6 DEF At, Lo, l

\* Lines after lines.
LEMMA LinesAfter ==
  ASSUME NEW p, NEW j \in Nat
  PROVE  \A n \in Nat : HeaderLines(p)[j + n] = HeaderLines(HeaderLines(p)[j])[n]
<1> DEFINE q == HeaderLines(p)[j]
           Has == {n \in Nat : HeaderLines(p)[j + n] = HeaderLines(q)[n]}
<1>1. \A n \in Nat : HeaderLines(p)[n + 1] = HeaderLine(HeaderLines(p)[n])
  BY HeaderLinesIs
<1>2. HeaderLines(q)[0] = q /\ \A n \in Nat : HeaderLines(q)[n + 1] = HeaderLine(HeaderLines(q)[n])
  BY HeaderLinesIs
<1>3. 0 \in Has
  BY <1>2
<1>4. ASSUME NEW n \in Has PROVE n + 1 \in Has
  <2>1. j + n \in Nat /\ j + (n + 1) = (j + n) + 1
    OBVIOUS
  <2> QED
    BY <1>1, <1>2, <2>1
<1>5. \A n \in Nat : n \in Has
  <2> HIDE DEF Has
  <2>1. Has \subseteq Nat
    BY DEF Has
  <2> QED
    BY <1>3, <1>4, <2>1, Induction
<1> QED
  BY <1>5

\* Where no line is complete nothing changes any more.
LEMMA LinesStay ==
  ASSUME NEW p, HeaderLine(p) = p
  PROVE  \A n \in Nat : HeaderLines(p)[n] = p
<1> DEFINE Has == {n \in Nat : HeaderLines(p)[n] = p}
<1>1. 0 \in Has
  BY HeaderLinesIs
<1>2. ASSUME NEW n \in Has PROVE n + 1 \in Has
  BY HeaderLinesIs
<1>3. \A n \in Nat : n \in Has
  <2> HIDE DEF Has
  <2>1. Has \subseteq Nat
    BY DEF Has
  <2> QED
    BY <1>1, <1>2, <2>1, Induction
<1> QED
  BY <1>3

\* ReadHeader has read all the lines.
LEMMA LinesEnd ==
  ASSUME NEW T, NEW p, Place(T, p), Tidy(p.to.data)
  PROVE  LET h == HeaderLines(p)[Readable(p.to)]
         IN  HeaderLine(h) = h
<1> DEFINE At(n) == HeaderLines(p)[n]
           Has == {n \in Nat : HeaderLine(At(n)) = At(n) \/ n + Readable(At(n).to) <= Readable(p.to)}
           R == Readable(p.to)
<1>1. At(0) = p /\ \A n \in Nat : At(n + 1) = HeaderLine(At(n))
  BY HeaderLinesIs
<1>2. \A n \in Nat : Place(T, At(n)) /\ Tidy(At(n).to.data)
  BY LinesKeep DEF Kept
<1>3. \A n \in Nat : Readable(At(n).to) \in Nat
  BY <1>2, StreamIs DEF Place
<1>4. R \in Nat
  BY StreamIs DEF Place
<1>5. \A n \in Nat : HeaderLine(At(n)) # At(n) =>
         /\ At(n).msg.state = "HEADER" /\ ~ At(n).end /\ Readable(At(n).to) >= 2
         /\ (At(n + 1).end \/ At(n + 1).msg.state # "HEADER" \/ Readable(At(n + 1).to) < Readable(At(n).to))
  <2>1. 0 \in Nat /\ <<>> \in Seq(T)
    BY EmptySeq
  <2> SUFFICES ASSUME NEW n \in Nat, HeaderLine(At(n)) # At(n)
               PROVE  /\ At(n).msg.state = "HEADER" /\ ~ At(n).end /\ Readable(At(n).to) >= 2
                      /\ (At(n + 1).end \/ At(n + 1).msg.state # "HEADER" \/ Readable(At(n + 1).to) < Readable(At(n).to))
    OBVIOUS
  <2>2. Place(T, At(n)) /\ Tidy(At(n).to.data) /\ At(n + 1) = HeaderLine(At(n))
    BY <1>1, <1>2
  <2> HIDE DEF At
  <2> QED
    BY <2>1, <2>2, HeaderLineIs
<1> HIDE DEF At, R
<1>6. 0 \in Has
  BY <1>1, <1>4 DEF R
<1>7. ASSUME NEW n \in Has PROVE n + 1 \in Has
  <2> SUFFICES ASSUME HeaderLine(At(n + 1)) # At(n + 1)
               PROVE  (n + 1) + Readable(At(n + 1).to) <= Readable(p.to)
    OBVIOUS
  <2>1. HeaderLine(At(n)) # At(n)
    BY <1>1
  <2>2. At(n + 1).msg.state = "HEADER" /\ ~ At(n + 1).end
    BY <1>5
  <2>3. Readable(At(n + 1).to) < Readable(At(n).to)
    BY <1>5, <2>1, <2>2
  <2>4. n + Readable(At(n).to) <= Readable(p.to)
    BY <2>1
  <2> QED
    BY <1>3, <1>4, <2>3, <2>4 DEF R
<1>8. R \in Has
  <2> HIDE DEF Has
  <2>1. Has \subseteq Nat
    BY DEF Has
  <2> QED
    BY <1>4, <1>6, <1>7, <2>1, Induction
<1>9. HeaderLine(At(R)) = At(R)
  <2> SUFFICES ASSUME HeaderLine(At(R)) # At(R) PROVE FALSE
    OBVIOUS
  <2>1. Readable(At(R).to) >= 2 /\ Readable(At(R).to) \in Nat
    BY <1>3, <1>4, <1>5
  <2>2. R + Readable(At(R).to) <= R
    BY <1>8 DEF R
  <2> QED
    BY <1>4, <2>1, <2>2
<1> QED
  BY <1>9 DEF At, R

\* Two ways of lines from one place that both ended, ended in the same place.
LEMMA LinesMeet ==
  ASSUME NEW p, NEW i \in Nat, NEW j \in Nat,
         HeaderLine(HeaderLines(p)[i]) = HeaderLines(p)[i],
         HeaderLine(HeaderLines(p)[j]) = HeaderLines(p)[j]
  PROVE  HeaderLines(p)[i] = HeaderLines(p)[j]
<1>1. ASSUME NEW a \in Nat, NEW b \in Nat, a <= b, HeaderLine(HeaderLines(p)[a]) = HeaderLines(p)[a]
      PROVE  HeaderLines(p)[b] = HeaderLines(p)[a]
  <2>1. b - a \in Nat /\ a + (b - a) = b
    BY <1>1
  <2>2. HeaderLines(p)[a + (b - a)] = HeaderLines(HeaderLines(p)[a])[b - a]
    BY <2>1, LinesAfter
  <2>3. HeaderLines(HeaderLines(p)[a])[b - a] = HeaderLines(p)[a]
    BY <1>1, <2>1, LinesStay
  <2> QED
    BY <2>1, <2>2, <2>3
<1> QED
  BY <1>1

\* The header of a stream that goes on: what was read of it is the same, and
\* the rest is what reading goes on with.
LEMMA ReadHeaderExtends ==
  ASSUME NEW T, NEW p, Place(T, p), ~ p.end, NEW e \in Seq(T), NEW k \in Nat,
         Tidy(p.to.data), Tidy(p.to.data \o e)
  PROVE  LET h == ReadHeader(p.msg, p.to)
         IN  /\ Place(T, h) /\ Kept(p, h)
             /\ ReadHeader(WithRoom(p.msg, k), Write(p.to, e))
                  = IF h.end \/ h.msg.state # "HEADER" THEN Longer(h, e, k)
                    ELSE ReadHeader(WithRoom(h.msg, k), Write(h.to, e))
<1> DEFINE h == ReadHeader(p.msg, p.to)
           l == Longer(p, e, k)
           g == Longer(h, e, k)
           R == Readable(p.to)
           W == Readable(l.to)
           G == Readable(g.to)
<1>1. p = Parsing(p.msg, p.to)
  BY DEF Place, Parsing
<1>2. h = HeaderLines(p)[R] /\ R \in Nat
  BY <1>1, StreamIs DEF ReadHeader, Place
<1>3. /\ Place(T, l) /\ l.to = Write(p.to, e) /\ l.msg = WithRoom(p.msg, k) /\ l.end = FALSE
      /\ l.to.data = p.to.data \o e
  <2>1. p.to \in Stream(T) /\ p.end = FALSE
    BY DEF Place
  <2>2. Write(p.to, e).data = p.to.data \o e
    BY <2>1, WriteIs
  <2>3. Place(T, l) /\ l.to = Write(p.to, e) /\ l.msg = WithRoom(p.msg, k) /\ l.end = p.end
    BY LongerIs
  <2> HIDE DEF l
  <2> QED
    BY <2>1, <2>2, <2>3
<1> HIDE DEF l
<1>4. l = Parsing(l.msg, l.to)
  BY <1>3 DEF Place, Parsing
<1>5. ReadHeader(WithRoom(p.msg, k), Write(p.to, e)) = HeaderLines(l)[W] /\ W \in Nat
  <2>1. W \in Nat
    BY <1>3, StreamIs DEF Place
  <2>2. ReadHeader(l.msg, l.to) = HeaderLines(l)[W]
    BY <1>4 DEF ReadHeader
  <2> HIDE DEF W
  <2> QED
    BY <1>3, <2>1, <2>2
<1> HIDE DEF h, R, W
<1>6. Place(T, h) /\ Kept(p, h)
  BY <1>2, LinesKeep
<1>7. /\ Place(T, g) /\ g.to = Write(h.to, e) /\ g.msg = WithRoom(h.msg, k) /\ g.end = h.end
      /\ g.msg.state = h.msg.state
      /\ Tidy(g.to.data)
  <2>1. h.to \in Stream(T)
    BY <1>6 DEF Place
  <2>2. Write(h.to, e).data = h.to.data \o e /\ h.to.data = p.to.data
    BY <1>6, <2>1, WriteIs DEF Kept
  <2>3. Tidy(Write(h.to, e).data)
    BY <2>2
  <2>4. /\ Place(T, g) /\ g.to = Write(h.to, e) /\ g.msg = WithRoom(h.msg, k) /\ g.end = h.end
        /\ g.msg.state = h.msg.state
    BY <1>6, LongerIs
  <2> HIDE DEF g
  <2> QED
    BY <2>3, <2>4
<1>8. PICK j \in Nat : HeaderLines(l)[j] = g
  BY <1>2, LinesLonger DEF l
<1> HIDE DEF g
<1>9. HeaderLine(HeaderLines(l)[W]) = HeaderLines(l)[W]
  BY <1>3, LinesEnd DEF W
<1>10. CASE h.end \/ h.msg.state # "HEADER"
  <2>1. HeaderLine(g) = g
    BY <1>7, <1>10 DEF HeaderLine
  <2>2. HeaderLines(l)[W] = g
    BY <1>5, <1>8, <1>9, <2>1, LinesMeet
  <2> QED
    BY <1>5, <1>6, <1>10, <2>2 DEF g, h
<1>11. CASE ~ (h.end \/ h.msg.state # "HEADER")
  <2>1. g = Parsing(g.msg, g.to)
    BY <1>7, <1>11 DEF Place, Parsing
  <2>2. ReadHeader(WithRoom(h.msg, k), Write(h.to, e)) = HeaderLines(g)[G] /\ G \in Nat
    <3>1. G \in Nat
      BY <1>7, StreamIs DEF Place
    <3>2. ReadHeader(g.msg, g.to) = HeaderLines(g)[G]
      BY <2>1 DEF ReadHeader
    <3> HIDE DEF G
    <3> QED
      BY <1>7, <3>1, <3>2
  <2>3. HeaderLine(HeaderLines(g)[G]) = HeaderLines(g)[G]
    BY <1>7, LinesEnd
  <2> HIDE DEF G
  <2>4. HeaderLines(g)[G] = HeaderLines(l)[j + G]
    BY <1>8, <2>2, LinesAfter
  <2>5. j + G \in Nat
    BY <2>2
  <2>6. HeaderLines(l)[W] = HeaderLines(l)[j + G]
    BY <1>5, <1>9, <2>3, <2>4, <2>5, LinesMeet
  <2>7. ReadHeader(WithRoom(p.msg, k), Write(p.to, e)) = ReadHeader(WithRoom(h.msg, k), Write(h.to, e))
    BY <1>5, <2>2, <2>4, <2>6
  <2> QED
    BY <1>6, <1>11, <2>7 DEF h
<1> QED
  BY <1>10, <1>11

\* Nothing is written.
LEMMA WriteNothing ==
  ASSUME NEW T, NEW b \in Stream(T)
  PROVE  Write(b, <<>>) = b
<1>1. b = [data |-> b.data, read |-> b.read, base |-> b.base] /\ b.data \in Seq(T)
  BY StreamIs
<1>2. b.data \o <<>> = b.data
  BY <1>1, ConcatEmptySeq
<1>3. Write(b, <<>>) = [b EXCEPT !.data = b.data]
  BY <1>2 DEF Write
<1> QED
  BY <1>1, <1>3

-----------------------------------------------------------------------------
(* The start line, and the body.                                           *)

\* A message with another start line, and an array of size k.
Started(m, f, s, v, k) ==
  [kind |-> m.kind, first |-> f, second |-> s, version |-> v, headers |-> m.headers,
   len |-> m.len, body |-> m.body, room |-> k, state |-> m.state]

\* A start line sets the same whatever the array is.
LEMMA StartIs ==
  ASSUME NEW m, Message(m), NEW line
  PROVE  \E f, s, v : \A k \in Nat : ParseStartLine(WithRoom(m, k), line) = Started(m, f, s, v, k)
<1> DEFINE u(k) == [kind |-> m.kind, first |-> m.first, second |-> m.second, version |-> m.version,
                    headers |-> m.headers, len |-> m.len, body |-> m.body, room |-> k, state |-> m.state]
           R(f, s, v, k) == Started(m, f, s, v, k)
<1>1. \A k \in Nat : WithRoom(m, k) = u(k)
  BY WithRoomIs
<1>2. CASE line = <<>>
  <2>1. \A k \in Nat : ParseStartLine(WithRoom(m, k), line) = R(m.first, m.second, m.version, k)
    BY <1>1, <1>2 DEF ParseStartLine, Started
  <2> QED
    BY <2>1
<1>3. CASE line # <<>> /\ m.kind = "request"
  <2> DEFINE rest == AfterWord(line)
             last == AfterWord(rest)
             f == IF Word(line) = <<>> THEN m.first ELSE Word(line)
             s == IF Word(rest) = <<>> THEN m.second ELSE Word(rest)
             v == IF Word(last) = <<>> THEN m.version ELSE Word(last)
  <2>1. ASSUME NEW k \in Nat PROVE ParseRequest(u(k), line) = R(f, s, v, k)
    <3>1. ParseRequest(u(k), line) = [u(k) EXCEPT !.first = f, !.second = s, !.version = v]
      BY DEF ParseRequest
    <3> HIDE DEF f, s, v
    <3> QED
      BY <3>1 DEF Started
  <2>2. ASSUME NEW k \in Nat PROVE ParseStartLine(WithRoom(m, k), line) = R(f, s, v, k)
    <3>1. u(k).kind = "request"
      BY <1>3
    <3> HIDE DEF u, f, s, v
    <3> QED
      BY <1>1, <1>3, <2>1, <3>1 DEF ParseStartLine
  <2> HIDE DEF f, s, v
  <2> QED
    BY <2>2
<1>4. CASE line # <<>> /\ m.kind # "request"
  <2> DEFINE rest == After(line, SP)
  <2>0. ASSUME NEW k \in Nat PROVE ParseStartLine(WithRoom(m, k), line) = ParseResponse(u(k), line)
    <3>1. u(k).kind # "request"
      BY <1>4
    <3> HIDE DEF u
    <3> QED
      BY <1>1, <1>4, <3>1 DEF ParseStartLine
  <2>1. CASE Find(line, SP) = 0
    <3>1. ASSUME NEW k \in Nat PROVE ParseResponse(u(k), line) = R(m.first, m.second, m.version, k)
      BY <2>1 DEF ParseResponse, Started
    <3> QED
      BY <2>0, <3>1
  <2>2. CASE Find(line, SP) # 0 /\ Find(rest, SP) = 0
    <3> DEFINE v == Before(line, SP)
    <3>1. ASSUME NEW k \in Nat PROVE ParseResponse(u(k), line) = R(m.first, m.second, v, k)
      <4>1. ParseResponse(u(k), line) = [u(k) EXCEPT !.version = v]
        BY <2>2 DEF ParseResponse
      <4> HIDE DEF v
      <4> QED
        BY <4>1 DEF Started
    <3> HIDE DEF v
    <3> QED
      BY <2>0, <3>1
  <2>3. CASE Find(line, SP) # 0 /\ Find(rest, SP) # 0
    <3> DEFINE v == Before(line, SP)
               f == NumberIn(Before(rest, SP))
               s == After(rest, SP)
    <3>1. ASSUME NEW k \in Nat PROVE ParseResponse(u(k), line) = R(f, s, v, k)
      <4>1. ParseResponse(u(k), line) = [u(k) EXCEPT !.version = v, !.first = f, !.second = s]
        BY <2>3 DEF ParseResponse
      <4> HIDE DEF v, f, s
      <4> QED
        BY <4>1 DEF Started
    <3> HIDE DEF f, s, v
    <3> QED
      BY <2>0, <3>1
  <2> QED
    BY <2>1, <2>2, <2>3
<1> QED
  BY <1>2, <1>3, <1>4

\* A start line that is read is read from a stream that goes on.
LEMMA StartExtends ==
  ASSUME NEW T, NEW m, Message(m), m.state = "READY", NEW b \in Stream(T), Tidy(b.data)
  PROVE  LET s == ReadStartLine(m, b)
         IN  /\ Place(T, s) /\ Kept(Parsing(m, b), s) /\ ~ s.end
             /\ \/ s = Parsing(m, b)
                \/ /\ s.msg.state = "HEADER"
                   /\ \A e \in Seq(T), k \in Nat :
                        ReadStartLine(WithRoom(m, k), Write(b, e)) = Longer(s, e, k)
<1> DEFINE s == ReadStartLine(m, b)
           r == ReadLine(b, CRLF)
<1>1. CASE ~ r.ok
  <2>1. r.to = b
    BY <1>1, ReadLineKeeps DEF Fail
  <2>2. s = Parsing(m, b)
    BY <1>1, <2>1 DEF ReadStartLine
  <2>3. Place(T, Parsing(m, b)) /\ ~ Parsing(m, b).end
    BY DEF Place, Parsing
  <2> QED
    BY <2>2, <2>3 DEF Kept
<1>2. CASE r.ok
  <2> HIDE DEF s, r
  <2>1. PICK f, g, v : \A k \in Nat :
           ParseStartLine(WithRoom(m, k), r.value) = Started(m, f, g, v, k)
    BY StartIs
  <2> DEFINE H(k) == [kind |-> m.kind, first |-> f, second |-> g, version |-> v, headers |-> m.headers,
                len |-> m.len, body |-> m.body, room |-> k, state |-> "HEADER"]
  <2>2. \A k \in Nat : [ParseStartLine(WithRoom(m, k), r.value) EXCEPT !.state = "HEADER"] = H(k)
    <3> SUFFICES ASSUME NEW k \in Nat
                 PROVE  [ParseStartLine(WithRoom(m, k), r.value) EXCEPT !.state = "HEADER"] = H(k)
      OBVIOUS
    <3> DEFINE P == ParseStartLine(WithRoom(m, k), r.value)
    <3>1. P = [kind |-> m.kind, first |-> f, second |-> g, version |-> v, headers |-> m.headers,
                len |-> m.len, body |-> m.body, room |-> k, state |-> m.state]
      BY <2>1 DEF Started
    <3> HIDE DEF P
    <3>2. [P EXCEPT !.state = "HEADER"] = H(k)
      BY <3>1
    <3> QED
      BY <3>2 DEF P
  <2>3. /\ r.to \in Stream(T) /\ r.to.data = b.data /\ r.to.base = b.base
        /\ \A e \in Seq(T) : ReadLine(Write(b, e), CRLF) = [ok |-> TRUE, value |-> r.value, to |-> Write(r.to, e)]
    <3>1. ReadLine(b, CRLF).ok
      BY <1>2 DEF r
    <3>2. \A e \in Seq(T) : /\ ReadLine(b, CRLF).to \in Stream(T) /\ ReadLine(b, CRLF).to.data = b.data
            /\ ReadLine(b, CRLF).to.base = b.base
            /\ ReadLine(Write(b, e), CRLF)
                 = [ok |-> TRUE, value |-> ReadLine(b, CRLF).value, to |-> Write(ReadLine(b, CRLF).to, e)]
      BY <3>1, ReadLineExtends
    <3>3. <<>> \in Seq(T)
      BY EmptySeq
    <3> QED
      BY <3>2, <3>3 DEF r
  <2>4. m.room \in Nat /\ WithRoom(m, m.room) = m
    BY WithRoomIs DEF Message
  <2>5. s = [msg |-> H(m.room), to |-> r.to, end |-> FALSE]
    <3>1. [ParseStartLine(m, r.value) EXCEPT !.state = "HEADER"] = H(m.room)
      BY <2>2, <2>4
    <3> HIDE DEF H
    <3> QED
      BY <1>2, <3>1 DEF ReadStartLine, Parsing, s, r
  <2>6. ASSUME NEW e \in Seq(T), NEW k \in Nat
        PROVE  ReadStartLine(WithRoom(m, k), Write(b, e)) = [msg |-> H(k), to |-> Write(r.to, e), end |-> FALSE]
    <3> DEFINE w == ReadLine(Write(b, e), CRLF)
    <3>1. w.ok /\ w.value = r.value /\ w.to = Write(r.to, e)
      BY <2>3
    <3>2. [ParseStartLine(WithRoom(m, k), r.value) EXCEPT !.state = "HEADER"] = H(k)
      BY <2>2
    <3> HIDE DEF H, r
    <3>3. ReadStartLine(WithRoom(m, k), Write(b, e)) =
            Parsing([ParseStartLine(WithRoom(m, k), w.value) EXCEPT !.state = "HEADER"], w.to)
      BY <3>1 DEF ReadStartLine
    <3> HIDE DEF w
    <3> QED
      BY <3>1, <3>2, <3>3 DEF Parsing
  <2>7. \A k \in Nat : WithRoom(H(m.room), k) = H(k)
    BY DEF WithRoom
  <2>8. Message(H(m.room))
    BY <2>4 DEF Message
  <2>9. Place(T, s) /\ Kept(Parsing(m, b), s) /\ ~ s.end /\ s.msg.state = "HEADER"
    BY <2>3, <2>5, <2>8 DEF Place, Kept, Parsing
  <2>10. \A e \in Seq(T), k \in Nat : ReadStartLine(WithRoom(m, k), Write(b, e)) = Longer(s, e, k)
    <3> HIDE DEF H
    <3> QED
      BY <2>5, <2>6, <2>7 DEF Longer
  <2> QED
    BY <2>9, <2>10 DEF s
<1> QED
  BY <1>1, <1>2

\* An array of the size that is needed is allocated, or is there already.
LEMMA ReadBodyRoom ==
  ASSUME NEW m, Message(m), m.room = 0, m.len > 0, NEW b
  PROVE  ReadBody(WithRoom(m, m.len), b) = ReadBody(m, b)
<1> DEFINE n == m.len
           u == [kind |-> m.kind, first |-> m.first, second |-> m.second, version |-> m.version,
                 headers |-> m.headers, len |-> m.len, body |-> m.body, room |-> n, state |-> m.state]
<1>0. n \in Nat /\ n # 0
  BY DEF Message
<1> HIDE DEF n
<1>1. /\ WithRoom(m, n).len = n /\ WithRoom(m, n).room = n
      /\ WithRoom(WithRoom(m, n), n) = WithRoom(m, n)
  <2>1. WithRoom(m, n) = u
    BY <1>0, WithRoomIs
  <2>2. WithRoom(u, n) = u
    BY DEF WithRoom
  <2> QED
    BY <2>1, <2>2 DEF n
<1> USE DEF n
<1> DEFINE l == WithRoom(m, m.len)
<1>2. [l EXCEPT !.room = IF @ = 0 THEN l.len ELSE @] = WithRoom(l, m.len)
  BY <1>0, <1>1 DEF WithRoom
<1>3. [m EXCEPT !.room = IF @ = 0 THEN m.len ELSE @] = l
  BY DEF WithRoom
<1> HIDE DEF l
<1>4. l.len = m.len /\ [l EXCEPT !.room = IF @ = 0 THEN l.len ELSE @] = [m EXCEPT !.room = IF @ = 0 THEN m.len ELSE @]
  BY <1>1, <1>2, <1>3 DEF l
<1>5. ReadBody(l, b) = ReadBody(m, b)
  BY <1>4, Zenon DEF ReadBody
<1> QED
  BY <1>5 DEF l

\* A body that is not complete changes nothing but the array.
LEMMA ReadBodyFails ==
  ASSUME NEW T, NEW m, Message(m), NEW b \in Stream(T), ReadBody(m, b).msg.state # "DONE"
  PROVE  ReadBody(m, b) = Parsing(WithRoom(m, IF m.room = 0 THEN m.len ELSE m.room), b)
<1> DEFINE r == ReadBytes(b, m.len)
           a == [m EXCEPT !.room = IF @ = 0 THEN m.len ELSE @]
<1>0. m.len \in Nat /\ m.room \in Nat
  BY DEF Message
<1>1. CASE r.ok
  <2>1. ReadBody(m, b) = Parsing([a EXCEPT !.body = r.value, !.state = "DONE"], r.to)
    BY <1>1 DEF ReadBody
  <2> DEFINE x == IF m.room = 0 THEN m.len ELSE m.room
  <2>2. a = WithRoom(m, x)
    BY DEF WithRoom
  <2>3. x \in Nat
    BY <1>0
  <2>4. Message(WithRoom(m, x))
    BY <2>3, WithRoomIs
  <2> HIDE DEF a, r, x
  <2> DEFINE y == [a EXCEPT !.body = r.value, !.state = "DONE"]
  <2>5. y.state = "DONE"
    BY <2>2, <2>4 DEF Message
  <2> HIDE DEF y
  <2>6. ReadBody(m, b) = [msg |-> y, to |-> r.to, end |-> FALSE]
    BY <2>1 DEF Parsing, y
  <2> QED
    BY <2>5, <2>6
<1>2. CASE ~ r.ok
  <2>1. ReadBody(m, b) = Parsing(a, r.to)
    BY <1>2 DEF ReadBody
  <2>2. r.to = b
    <3>1. m.len > Readable(b)
      <4>1. Readable(b) \in Nat
        BY StreamIs
      <4>2. m.len <= Readable(b) => r.ok = TRUE
        <5> DEFINE n == m.len
        <5>1. n \in Nat
          BY <1>0
        <5> HIDE DEF n
        <5> DEFINE v == SubSeq(b.data, b.read + 1, b.read + n)
                   c == [data |-> b.data, read |-> b.read + n, base |-> b.base]
        <5>3. n <= Readable(b) => ReadBytes(b, n) = [ok |-> TRUE, value |-> v, to |-> c]
          BY <4>1, <5>1, ReadBytesIs, ZenonT(60)
        <5> HIDE DEF v, c
        <5>2. n <= Readable(b) => ReadBytes(b, n).ok = TRUE
          BY <5>3
        <5> QED
          BY <5>2 DEF n
      <4> QED
        BY <1>0, <1>2, <4>1, <4>2
    <3> QED
      <4> DEFINE n == m.len
      <4>1. n \in Nat /\ n > Readable(b)
        BY <1>0, <3>1
      <4> HIDE DEF n
      <4>2. ReadBytes(b, n) = Fail(b)
        BY <4>1, ReadBytesIs
      <4> QED
        BY <4>2 DEF n, Fail
  <2>3. a = WithRoom(m, IF m.room = 0 THEN m.len ELSE m.room)
    BY DEF WithRoom
  <2> QED
    BY <2>1, <2>2, <2>3
<1> QED
  BY <1>1, <1>2

\* What the parts of FromBuffer are, by the state that parsing is in.
LEMMA PartsAre ==
  ASSUME NEW m, NEW b
  PROVE  LET p == Parsing(m, b)
         IN  /\ m.state = "READY" => StartLineRead(p) = ReadStartLine(m, b)
             /\ m.state # "READY" => StartLineRead(p) = p
             /\ m.state = "HEADER" => HeaderRead(p) = ReadHeader(m, b)
             /\ m.state # "HEADER" => HeaderRead(p) = p
             /\ m.state = "BODY" => BodyRead(p) = ReadBody(m, b)
             /\ m.state # "BODY" => BodyRead(p) = p
             /\ m.state # "DONE" => Completed(p) = p
  BY DEF Parsing, StartLineRead, HeaderRead, BodyRead, Completed

\* The parts of a place.
LEMMA PlaceIs ==
  ASSUME NEW T, NEW p, Place(T, p)
  PROVE  /\ ~ p.end => p = Parsing(p.msg, p.to)
         /\ Message(p.msg) /\ p.to \in Stream(T) /\ p.end \in BOOLEAN
         /\ p.msg.len \in Nat /\ p.msg.room \in Nat
         /\ p.msg.state \in {"READY", "HEADER", "BODY", "DONE"}
         /\ WithRoom(p.msg, p.msg.room) = p.msg
<1>1. Message(p.msg)
  BY DEF Place
<1>2. p.msg.room \in Nat /\ p.msg.len \in Nat /\ p.msg.state \in {"READY", "HEADER", "BODY", "DONE"}
  BY <1>1 DEF Message
<1>3. WithRoom(p.msg, p.msg.room) = p.msg
  BY <1>1, <1>2, WithRoomIs
<1>4. ~ p.end => p = Parsing(p.msg, p.to)
  BY DEF Place, Parsing
<1> QED
  BY <1>1, <1>2, <1>3, <1>4 DEF Place

\* Parsing from the start of a message that is not complete: it is in a state
\* from which it goes on, and does as if all bytes had come at once.
LEMMA ParsingGoesOn ==
  ASSUME NEW T, NEW m, Message(m), m.state = "READY", NEW b \in Stream(T), Tidy(b.data),
         ~ FromBuffer(m, b).end, FromBuffer(m, b).msg.state # "DONE"
  PROVE  LET p == FromBuffer(m, b)
         IN  /\ Place(T, p)
             /\ p.to.data = b.data /\ p.to.base = b.base
             /\ p.msg.kind = m.kind /\ p.msg.body = m.body /\ (p.msg.room = 0 => m.room = 0)
             /\ p.msg.state = "READY" => p = Parsing(m, b)
             /\ p.msg.state # "READY" =>
                  /\ FromBuffer(WithRoom(m, p.msg.room), b) = p
                  /\ \A e \in Seq(T) : Tidy(b.data \o e) =>
                       FromBuffer(m, Write(b, e)) = FromBuffer(p.msg, Write(p.to, e))
<1> DEFINE p == FromBuffer(m, b)
           s == ReadStartLine(m, b)
<1>1. p = Completed(BodyRead(HeaderRead(s)))
  BY PartsAre DEF FromBuffer
<1>2. /\ Place(T, s) /\ Kept(Parsing(m, b), s) /\ ~ s.end
      /\ \/ s = Parsing(m, b)
         \/ /\ s.msg.state = "HEADER"
            /\ \A e \in Seq(T), k \in Nat : ReadStartLine(WithRoom(m, k), Write(b, e)) = Longer(s, e, k)
  BY StartExtends
<1>3. /\ s.to.data = b.data /\ s.to.base = b.base /\ s.msg.kind = m.kind /\ s.msg.body = m.body
      /\ s.msg.room = m.room /\ s = Parsing(s.msg, s.to)
  BY <1>2, PlaceIs DEF Kept, Parsing
<1>4. m.room \in Nat /\ WithRoom(m, m.room) = m
  BY WithRoomIs DEF Message
<1> HIDE DEF p, s
<1>5. CASE s = Parsing(m, b)
  <2>1. p = s
    BY <1>1, <1>5, PartsAre
  <2>2. s.msg.state = "READY"
    BY <1>5 DEF Parsing
  <2> QED
    BY <1>2, <1>3, <1>5, <2>1, <2>2 DEF p
<1>6. CASE s.msg.state = "HEADER" /\ \A e \in Seq(T), k \in Nat :
             ReadStartLine(WithRoom(m, k), Write(b, e)) = Longer(s, e, k)
  <2> DEFINE h == ReadHeader(s.msg, s.to)
  <2>1. HeaderRead(s) = h
    BY <1>3, <1>6, PartsAre
  <2>2. \A e \in Seq(T), k \in Nat : Tidy(b.data \o e) =>
          ReadHeader(WithRoom(s.msg, k), Write(s.to, e))
                  = IF h.end \/ h.msg.state # "HEADER" THEN Longer(h, e, k)
                    ELSE ReadHeader(WithRoom(h.msg, k), Write(h.to, e))
    BY <1>2, <1>3, ReadHeaderExtends
  <2>3. Place(T, h) /\ Kept(s, h)
    <3>1. <<>> \in Seq(T) /\ b.data \o <<>> = b.data
      BY EmptySeq, ConcatEmptySeq, StreamIs
    <3>2. Tidy(s.to.data) /\ Tidy(s.to.data \o <<>>)
      BY <1>3, <3>1
    <3> QED
      BY <1>2, <1>4, <3>1, <3>2, ReadHeaderExtends
  <2> HIDE DEF h
  <2>4. /\ h.to.data = b.data /\ h.to.base = b.base /\ h.msg.kind = m.kind /\ h.msg.body = m.body
        /\ h.msg.room = m.room /\ h.msg.state # "READY"
    BY <1>3, <1>6, <2>3 DEF Kept
  <2>5. ~ h.end
    <3> SUFFICES ASSUME h.end PROVE FALSE
      OBVIOUS
    <3>1. BodyRead(h) = h /\ Completed(h) = h
      BY DEF BodyRead, Completed
    <3> QED
      BY <1>1, <2>1, <3>1 DEF p
  <2>6. h = Parsing(h.msg, h.to) /\ Message(h.msg) /\ h.to \in Stream(T)
    BY <2>3, <2>5, PlaceIs
  <2>7. h.msg.state \in {"HEADER", "BODY", "DONE"}
    BY <2>3, <2>4, PlaceIs
  <2>8. WithRoom(s.msg, m.room) = s.msg /\ WithRoom(h.msg, m.room) = h.msg
    BY <1>2, <1>3, <2>3, <2>4, PlaceIs
  \* The start line and the header of the longer stream.
  <2>9. ASSUME NEW e \in Seq(T), NEW k \in Nat, Tidy(b.data \o e)
        PROVE  FromBuffer(WithRoom(m, k), Write(b, e)) =
                 Completed(BodyRead(IF h.msg.state # "HEADER" THEN Longer(h, e, k)
                                    ELSE ReadHeader(WithRoom(h.msg, k), Write(h.to, e))))
    <3> DEFINE l == Longer(s, e, k)
               n == WithRoom(m, k)
               w == Write(b, e)
    <3>1. n.state = "READY"
      BY WithRoomIs
    <3>2. StartLineRead(Parsing(n, w)) = l
      <4>1. StartLineRead(Parsing(n, w)) = ReadStartLine(n, w)
        <5> HIDE DEF n, w
        <5> QED
          BY <3>1, PartsAre
      <4> QED
        BY <1>6, <4>1
    <3>3. /\ l.msg = WithRoom(s.msg, k) /\ l.to = Write(s.to, e) /\ l.msg.state = "HEADER"
          /\ l = Parsing(l.msg, l.to)
      <4>1. /\ Place(T, l) /\ l.msg = WithRoom(s.msg, k) /\ l.to = Write(s.to, e)
            /\ l.msg.state = "HEADER" /\ l.end = s.end
        BY <1>2, <1>6, LongerIs
      <4> HIDE DEF l
      <4> QED
        BY <1>2, <4>1, PlaceIs
    <3> HIDE DEF l, n, w
    <3>4. HeaderRead(l) = ReadHeader(l.msg, l.to)
      BY <3>3, PartsAre
    <3>5. HeaderRead(l) = IF h.msg.state # "HEADER" THEN Longer(h, e, k)
                          ELSE ReadHeader(WithRoom(h.msg, k), Write(h.to, e))
      BY <2>2, <2>5, <2>9, <3>3, <3>4
    <3> QED
      BY <3>2, <3>5 DEF FromBuffer, n, w
  <2>10. CASE h.msg.state = "DONE"
    <3>1. BodyRead(h) = h
      BY <2>10 DEF BodyRead
    <3>2. Completed(h) = [h EXCEPT !.to = Flushed(h.to)]
      BY <2>5, <2>10 DEF Completed
    <3>3. p = [h EXCEPT !.to = Flushed(h.to)]
      BY <1>1, <2>1, <3>1, <3>2
    <3>4. h = [msg |-> h.msg, to |-> h.to, end |-> FALSE]
      BY <2>6 DEF Parsing
    <3> DEFINE t == Flushed(h.to)
    <3>5. p.msg.state = "DONE"
      <4> HIDE DEF t
      <4>1. [h EXCEPT !.to = t].msg = h.msg
        BY <3>4
      <4> QED
        BY <2>10, <3>3, <4>1 DEF t
    <3> QED
      BY <3>5 DEF p
  <2>11. CASE h.msg.state = "HEADER"
    <3>1. p = h
      BY <1>1, <2>1, <2>6, <2>11, PartsAre
    <3>2. ASSUME NEW e \in Seq(T), Tidy(b.data \o e)
          PROVE  FromBuffer(m, Write(b, e)) = FromBuffer(p.msg, Write(p.to, e))
      <4>1. FromBuffer(m, Write(b, e)) = Completed(BodyRead(ReadHeader(h.msg, Write(h.to, e))))
        BY <1>4, <2>8, <2>9, <2>11, <3>2
      <4>2. FromBuffer(h.msg, Write(h.to, e)) = Completed(BodyRead(ReadHeader(h.msg, Write(h.to, e))))
        <5> DEFINE w == Write(h.to, e)
        <5> HIDE DEF w
        <5>1. StartLineRead(Parsing(h.msg, w)) = Parsing(h.msg, w)
          BY <2>11, PartsAre
        <5>2. HeaderRead(Parsing(h.msg, w)) = ReadHeader(h.msg, w)
          BY <2>11, PartsAre
        <5> QED
          BY <5>1, <5>2 DEF FromBuffer, w
      <4> QED
        BY <3>1, <4>1, <4>2
    <3>3. FromBuffer(WithRoom(m, p.msg.room), b) = p
      BY <1>4, <2>4, <3>1 DEF p
    <3> QED
      BY <2>3, <2>4, <2>11, <3>1, <3>2, <3>3 DEF p
  <2>12. CASE h.msg.state = "BODY"
    <3> DEFINE q == ReadBody(h.msg, h.to)
               k == IF h.msg.room = 0 THEN h.msg.len ELSE h.msg.room
    <3>16. h.end = FALSE
      <4>1. Parsing(h.msg, h.to).end = FALSE
        BY DEF Parsing
      <4> QED
        BY <2>6, <4>1
    <3>1. BodyRead(h) = q
      BY <2>6, <2>12, PartsAre
    <3>2. q.end = FALSE
      BY DEF ReadBody, Parsing
    <3>3. h.msg.len \in Nat /\ h.msg.len > 0 /\ h.msg.room \in Nat
      BY <2>6, <2>12 DEF Message
    <3>4. q.msg.state # "DONE"
      <4> SUFFICES ASSUME q.msg.state = "DONE" PROVE FALSE
        OBVIOUS
      <4> DEFINE t == Flushed(q.to)
      <4> HIDE DEF q
      <4>1. Completed(q) = [q EXCEPT !.to = t]
        BY <3>2 DEF Completed
      <4>2. p = [q EXCEPT !.to = t]
        BY <1>1, <2>1, <3>1, <4>1
      <4>3. q = Parsing(q.msg, q.to)
        BY DEF q, ReadBody, Parsing
      <4>4. [q EXCEPT !.to = t].msg = q.msg
        <5> HIDE DEF t
        <5> QED
          BY <4>3 DEF Parsing
      <4> QED
        BY <4>2, <4>4 DEF p
    <3>5. q = Parsing(WithRoom(h.msg, k), h.to)
      BY <2>6, <3>4, ReadBodyFails
    <3>6. Message(WithRoom(h.msg, k)) /\ k \in Nat /\ WithRoom(h.msg, k).state = "BODY"
      BY <2>6, <2>12, <3>3, WithRoomIs
    <3>7. /\ WithRoom(h.msg, k).room = k /\ WithRoom(h.msg, k).kind = h.msg.kind
          /\ WithRoom(h.msg, k).body = h.msg.body
      BY <2>6, <3>6, WithRoomIs
    <3> HIDE DEF q, k
    <3>8. p = q
      <4>1. q.msg.state = "BODY"
        BY <3>5, <3>6 DEF Parsing
      <4>2. Completed(q) = q
        BY <3>5, <3>6, <4>1, PartsAre
      <4> QED
        BY <1>1, <2>1, <3>1, <4>2
    <3>9. p = [msg |-> WithRoom(h.msg, k), to |-> h.to, end |-> FALSE]
      BY <3>5, <3>8 DEF Parsing
    <3>10. Place(T, p)
      BY <2>6, <3>6, <3>9 DEF Place
    <3>11. /\ p.to.data = b.data /\ p.to.base = b.base /\ p.msg.kind = m.kind /\ p.msg.body = m.body
           /\ p.msg.room = k /\ p.msg.state = "BODY"
      BY <2>4, <3>6, <3>7, <3>9
    <3>12. k # 0 /\ (m.room # 0 => k = m.room)
      BY <2>4, <3>3 DEF k
    <3>13. ASSUME NEW c PROVE ReadBody(WithRoom(h.msg, k), c) = ReadBody(h.msg, c)
      <4>1. CASE h.msg.room = 0
        BY <2>6, <3>3, <4>1, ReadBodyRoom DEF k
      <4>2. CASE h.msg.room # 0
        BY <2>4, <2>8, <4>2 DEF k
      <4> QED
        BY <4>1, <4>2
    <3>14. ASSUME NEW e \in Seq(T), Tidy(b.data \o e)
           PROVE  FromBuffer(m, Write(b, e)) = FromBuffer(p.msg, Write(p.to, e))
      <4> DEFINE w == Write(h.to, e)
      <4>1. Longer(h, e, m.room) = Parsing(h.msg, w)
        BY <2>8, <3>16 DEF Longer, Parsing
      <4>2. FromBuffer(m, Write(b, e)) = Completed(BodyRead(Parsing(h.msg, w)))
        BY <1>4, <2>9, <2>12, <3>14, <4>1
      <4> HIDE DEF w
      <4>3. BodyRead(Parsing(h.msg, w)) = ReadBody(h.msg, w)
        BY <2>12, PartsAre
      <4>4. /\ StartLineRead(Parsing(p.msg, w)) = Parsing(p.msg, w)
            /\ HeaderRead(Parsing(p.msg, w)) = Parsing(p.msg, w)
            /\ BodyRead(Parsing(p.msg, w)) = ReadBody(p.msg, w)
        BY <3>11, PartsAre
      <4>5. FromBuffer(p.msg, w) = Completed(ReadBody(p.msg, w))
        BY <4>4 DEF FromBuffer
      <4>6. ReadBody(p.msg, w) = ReadBody(h.msg, w)
        BY <3>9, <3>13
      <4> QED
        BY <3>9, <4>2, <4>3, <4>5, <4>6 DEF w
    <3>15. FromBuffer(WithRoom(m, p.msg.room), b) = p
      <4>0. <<>> \in Seq(T) /\ Tidy(b.data \o <<>>)
        BY EmptySeq, ConcatEmptySeq, StreamIs
      <4>1. Write(b, <<>>) = b /\ Write(h.to, <<>>) = h.to
        BY <2>6, WriteNothing
      <4>2. FromBuffer(WithRoom(m, k), b) = Completed(BodyRead(Longer(h, <<>>, k)))
        BY <2>9, <2>12, <3>6, <4>0, <4>1
      <4>3. Longer(h, <<>>, k) = Parsing(WithRoom(h.msg, k), h.to)
        BY <3>16, <4>1 DEF Longer, Parsing
      <4>4. BodyRead(Parsing(WithRoom(h.msg, k), h.to)) = ReadBody(WithRoom(h.msg, k), h.to)
        BY <3>6, PartsAre
      <4>5. FromBuffer(WithRoom(m, k), b) = Completed(q)
        BY <3>13, <4>2, <4>3, <4>4 DEF q
      <4> QED
        BY <1>1, <2>1, <3>1, <3>11, <4>5
    <3> QED
      BY <3>10, <3>11, <3>12, <3>14, <3>15 DEF p
  <2> QED
    BY <2>7, <2>10, <2>11, <2>12
<1> QED
  BY <1>2, <1>5, <1>6

-----------------------------------------------------------------------------
(* A piece, and the message that ends in it.                               *)

\* A tidy stream and a whole one make a tidy one.
LEMMA JoinTidy ==
  ASSUME NEW T, NEW s \in Seq(T), NEW t \in Seq(T), Tidy(s), Whole(t)
  PROVE  Tidy(s \o t) /\ (Whole(s) => Whole(s \o t))
<1> DEFINE u == s \o t
<1>1. /\ Len(s) \in Nat /\ Len(t) \in Nat /\ DOMAIN s = 1 .. Len(s) /\ DOMAIN t = 1 .. Len(t)
  BY LenProperties
<1>2. /\ u \in Seq(T) /\ Len(u) = Len(s) + Len(t)
      /\ \A i \in 1 .. Len(s) : u[i] = s[i]
      /\ \A i \in Len(s) + 1 .. Len(s) + Len(t) : u[i] = t[i - Len(s)]
  BY ConcatProperties
<1>3. DOMAIN u = 1 .. Len(s) + Len(t)
  BY <1>2, LenProperties
<1> HIDE DEF u
<1>4. t # <<>> => t[1] # LF /\ Len(t) >= 1
  BY <1>1, EmptySeq DEF Whole
<1>5. Tidy(u)
  <2> SUFFICES ASSUME NEW i \in DOMAIN u
               PROVE  /\ u[i] = CR => i + 1 \in DOMAIN u /\ u[i + 1] = LF
                      /\ u[i] = LF /\ i > 1 => u[i - 1] = CR
    BY DEF Tidy
  <2>1. CASE i <= Len(s)
    <3>1. i \in 1 .. Len(s) /\ u[i] = s[i]
      BY <1>1, <1>2, <1>3, <2>1
    <3>2. s[i] = CR => i + 1 \in 1 .. Len(s) /\ s[i + 1] = LF
      BY <1>1, <3>1 DEF Tidy
    <3>3. s[i] = LF /\ i > 1 => s[i - 1] = CR /\ i - 1 \in 1 .. Len(s)
      BY <1>1, <3>1 DEF Tidy
    <3> QED
      BY <1>1, <1>2, <1>3, <3>1, <3>2, <3>3
  <2>2. CASE i > Len(s)
    <3> DEFINE j == i - Len(s)
    <3>1. j \in 1 .. Len(t) /\ u[i] = t[j] /\ i \in Len(s) + 1 .. Len(s) + Len(t)
      BY <1>1, <1>2, <1>3, <2>2
    <3>2. t[j] = CR => j + 1 \in 1 .. Len(t) /\ t[j + 1] = LF
      BY <1>1, <3>1 DEF Tidy, Whole
    <3>3. t[j] = LF => j > 1 /\ t[j - 1] = CR
      <4>1. j = 1 => t[j] # LF
        BY <1>1, <1>4, <3>1
      <4>2. j > 1 /\ t[j] = LF => t[j - 1] = CR
        BY <1>1, <3>1 DEF Tidy, Whole
      <4> QED
        BY <3>1, <4>1, <4>2
    <3>4. u[i] = CR => i + 1 \in DOMAIN u /\ u[i + 1] = LF
      <4> SUFFICES ASSUME u[i] = CR PROVE i + 1 \in DOMAIN u /\ u[i + 1] = LF
        OBVIOUS
      <4>1. i + 1 \in Len(s) + 1 .. Len(s) + Len(t) /\ (i + 1) - Len(s) = j + 1
        BY <1>1, <3>1, <3>2
      <4> QED
        BY <1>1, <1>2, <1>3, <3>1, <3>2, <4>1
    <3>5. u[i] = LF /\ i > 1 => u[i - 1] = CR
      <4> SUFFICES ASSUME u[i] = LF PROVE u[i - 1] = CR
        OBVIOUS
      <4>1. i - 1 \in Len(s) + 1 .. Len(s) + Len(t) /\ (i - 1) - Len(s) = j - 1
        BY <1>1, <3>1, <3>3
      <4> QED
        BY <1>2, <3>1, <3>3, <4>1
    <3> QED
      BY <3>4, <3>5
  <2> QED
    BY <1>1, <1>3, <2>1, <2>2
<1>6. Whole(s) => Whole(u)
  <2>1. CASE s = <<>>
    <3>1. u = t
      BY <2>1, ConcatEmptySeq DEF u
    <3> QED
      BY <3>1
  <2>2. CASE s # <<>>
    <3>1. 1 \in 1 .. Len(s)
      BY <1>1, <2>2, EmptySeq
    <3>2. u[1] = s[1]
      BY <1>2, <3>1
    <3> QED
      BY <1>5, <2>2, <3>2 DEF Whole
  <2> QED
    BY <2>1, <2>2
<1> QED
  BY <1>5, <1>6 DEF u

\* The end of a tidy stream is tidy, and whole when it does not begin with LF.
LEMMA EndTidy ==
  ASSUME NEW T, NEW s \in Seq(T), Tidy(s), NEW n \in Nat, n <= Len(s)
  PROVE  LET t == SubSeq(s, n + 1, Len(s))
         IN  /\ t \in Seq(T) /\ Tidy(t) /\ Len(t) = Len(s) - n
             /\ \A i \in 1 .. Len(t) : t[i] = s[n + i]
<1> DEFINE t == SubSeq(s, n + 1, Len(s))
<1>1. Len(s) \in Nat /\ DOMAIN s = 1 .. Len(s)
  BY LenProperties
<1>2. \A i \in n + 1 .. Len(s) : s[i] \in T
  BY <1>1, ElementOfSeq
<1>3. t \in Seq(T) /\ Len(t) = (IF n + 1 <= Len(s) THEN Len(s) - (n + 1) + 1 ELSE 0)
      /\ \A i \in 1 .. Len(s) - (n + 1) + 1 : t[i] = s[(n + 1) + i - 1]
  BY <1>1, <1>2, SubSeqProperties
<1> HIDE DEF t
<1>4. Len(t) = Len(s) - n
  <2> DEFINE L == Len(s)
  <2>1. L \in Nat /\ n <= L /\ Len(t) = IF n + 1 <= L THEN L - (n + 1) + 1 ELSE 0
    BY <1>1, <1>3
  <2> HIDE DEF L
  <2>2. Len(t) = L - n
    BY <2>1
  <2> QED
    BY <2>2 DEF L
<1>5. \A i \in 1 .. Len(t) : t[i] = s[n + i]
  <2> SUFFICES ASSUME NEW i \in 1 .. Len(t) PROVE t[i] = s[n + i]
    OBVIOUS
  <2>1. i \in 1 .. Len(s) - (n + 1) + 1 /\ (n + 1) + i - 1 = n + i
    BY <1>1, <1>4
  <2> QED
    BY <1>3, <2>1
<1>6. DOMAIN t = 1 .. Len(t)
  BY <1>3, LenProperties
<1>7. Tidy(t)
  <2> SUFFICES ASSUME NEW i \in 1 .. Len(t)
               PROVE  /\ t[i] = CR => i + 1 \in 1 .. Len(t) /\ t[i + 1] = LF
                      /\ t[i] = LF /\ i > 1 => t[i - 1] = CR
    BY <1>6 DEF Tidy
  <2>2. n + i \in 1 .. Len(s) /\ t[i] = s[n + i]
    BY <1>1, <1>4, <1>5
  <2>3. s[n + i] = CR => (n + i) + 1 \in 1 .. Len(s) /\ s[(n + i) + 1] = LF
    BY <1>1, <2>2 DEF Tidy
  <2>4. s[n + i] = LF /\ n + i > 1 => s[(n + i) - 1] = CR
    BY <1>1, <2>2 DEF Tidy
  <2>5. t[i] = CR => i + 1 \in 1 .. Len(t) /\ t[i + 1] = LF
    <3> SUFFICES ASSUME t[i] = CR PROVE i + 1 \in 1 .. Len(t) /\ t[i + 1] = LF
      OBVIOUS
    <3>1. i + 1 \in 1 .. Len(t) /\ n + (i + 1) = (n + i) + 1
      BY <1>1, <1>4, <2>2, <2>3
    <3> QED
      BY <1>5, <2>2, <2>3, <3>1
  <2>6. t[i] = LF /\ i > 1 => t[i - 1] = CR
    <3> SUFFICES ASSUME t[i] = LF, i > 1 PROVE t[i - 1] = CR
      OBVIOUS
    <3>1. i - 1 \in 1 .. Len(t) /\ n + (i - 1) = (n + i) - 1 /\ n + i > 1
      BY <1>1, <1>4
    <3> QED
      BY <1>5, <2>2, <2>4, <3>1
  <2> QED
    BY <2>5, <2>6
<1> QED
  BY <1>3, <1>4, <1>5, <1>7 DEF t

\* A piece that cuts no line break, and what is left.
LEMMA PieceIs ==
  ASSUME NEW T, NEW s \in Seq(T), Whole(s), ~ CutsCRLF, NEW n \in Pieces(s)
  PROVE  /\ SubSeq(s, 1, n) \in Seq(T) /\ Whole(SubSeq(s, 1, n))
         /\ SubSeq(s, n + 1, Len(s)) \in Seq(T) /\ Whole(SubSeq(s, n + 1, Len(s)))
<1> DEFINE t == SubSeq(s, 1, n)
           u == SubSeq(s, n + 1, Len(s))
<1>1. Len(s) \in Nat /\ DOMAIN s = 1 .. Len(s)
  BY LenProperties
<1>2. n \in 1 .. Len(s) /\ ~ (s[n] = CR /\ n < Len(s) /\ s[n + 1] = LF)
  BY DEF Pieces
<1>3. s[n] # CR
  BY <1>1, <1>2 DEF Whole, Tidy
<1>4. n + 1 \in 1 .. Len(s) => s[n + 1] # LF
  <2> SUFFICES ASSUME n + 1 \in 1 .. Len(s), s[n + 1] = LF PROVE FALSE
    OBVIOUS
  <2>1. n + 1 > 1 /\ (n + 1) - 1 = n
    BY <1>1, <1>2
  <2>2. s[(n + 1) - 1] = CR
    BY <1>1, <2>1 DEF Whole, Tidy
  <2> QED
    BY <1>3, <2>1, <2>2
<1>5. u \in Seq(T) /\ Tidy(u) /\ Len(u) = Len(s) - n /\ \A i \in 1 .. Len(u) : u[i] = s[n + i]
  <2>1. Tidy(s) /\ n \in Nat /\ n <= Len(s)
    BY <1>1, <1>2 DEF Whole
  <2> QED
    BY <2>1, EndTidy
<1> HIDE DEF u
<1>6. Whole(u)
  <2> SUFFICES ASSUME u # <<>> PROVE u[1] # LF
    BY <1>5 DEF Whole
  <2>1. 1 \in 1 .. Len(u)
    BY <1>5, EmptySeq, LenProperties
  <2> QED
    BY <1>1, <1>2, <1>4, <1>5, <2>1
<1>7. \A i \in 1 .. n : s[i] \in T
  BY <1>1, <1>2, ElementOfSeq
<1>8. t \in Seq(T) /\ Len(t) = n /\ \A i \in 1 .. n : t[i] = s[i]
  <2>1. t \in Seq(T) /\ Len(t) = (IF 1 <= n THEN n - 1 + 1 ELSE 0)
        /\ \A i \in 1 .. n - 1 + 1 : t[i] = s[1 + i - 1]
    BY <1>2, <1>7, SubSeqProperties
  <2> HIDE DEF t
  <2> QED
    BY <1>2, <2>1
<1> HIDE DEF t
<1>9. DOMAIN t = 1 .. n
  BY <1>8, LenProperties
<1>10. Tidy(t)
  <2> SUFFICES ASSUME NEW i \in 1 .. n
               PROVE  /\ t[i] = CR => i + 1 \in 1 .. n /\ t[i + 1] = LF
                      /\ t[i] = LF /\ i > 1 => t[i - 1] = CR
    BY <1>9 DEF Tidy
  <2>1. /\ s[i] = CR => i + 1 \in 1 .. Len(s) /\ s[i + 1] = LF
        /\ s[i] = LF /\ i > 1 => s[i - 1] = CR
    <3>1. i \in DOMAIN s /\ Tidy(s)
      BY <1>1, <1>2 DEF Whole
    <3> QED
      BY <1>1, <3>1 DEF Tidy
  <2>2. t[i] = CR => i + 1 \in 1 .. n
    BY <1>2, <1>3, <1>8
  <2>3. i > 1 => i - 1 \in 1 .. n
    BY <1>2
  <2> QED
    BY <1>8, <2>1, <2>2, <2>3
<1>11. t # <<>> => t[1] # LF
  BY <1>1, <1>2, <1>8 DEF Whole
<1> QED
  BY <1>5, <1>6, <1>8, <1>10, <1>11 DEF t, u, Whole

\* What is left in a buffer, at its front.
LEMMA FlushedIs ==
  ASSUME NEW T, NEW b \in Stream(T), Tidy(b.data)
  PROVE  Flushed(b) \in Stream(T) /\ Flushed(b).read = 0 /\ Tidy(Flushed(b).data)
<1>1. CASE Readable(b) = 0
  <2>1. Flushed(b) = [data |-> <<>>, read |-> 0, base |-> 0]
    BY <1>1 DEF Flushed, EmptyStream
  <2>2. <<>> \in Seq(T) /\ Len(<<>>) = 0 /\ DOMAIN <<>> = {}
    BY EmptySeq, LenProperties
  <2> QED
    BY <2>1, <2>2 DEF Stream, Tidy
<1>2. CASE Readable(b) # 0
  <2> DEFINE t == SubSeq(b.data, b.read + 1, Len(b.data))
  <2>1. Flushed(b) = [data |-> t, read |-> 0, base |-> b.base + b.read]
    BY <1>2 DEF Flushed, Unread
  <2>2. b.data \in Seq(T) /\ b.read \in Nat /\ b.base \in Nat /\ b.read <= Len(b.data)
    BY StreamIs
  <2>3. t \in Seq(T) /\ Tidy(t)
    BY <2>2, EndTidy
  <2> HIDE DEF t
  <2>4. Len(t) \in Nat
    BY <2>3, LenProperties
  <2> QED
    BY <2>1, <2>2, <2>3, <2>4 DEF Stream
<1> QED
  BY <1>1, <1>2

\* A message that is complete: what follows it is at the front of the buffer.
LEMMA ParsingDone ==
  ASSUME NEW T, NEW m, Message(m), m.state = "READY", NEW b \in Stream(T), Tidy(b.data),
         ~ FromBuffer(m, b).end, FromBuffer(m, b).msg.state = "DONE"
  PROVE  LET p == FromBuffer(m, b)
         IN  Message(p.msg) /\ p.to \in Stream(T) /\ p.to.read = 0 /\ Tidy(p.to.data)
<1> DEFINE p == FromBuffer(m, b)
           s == ReadStartLine(m, b)
           h == HeaderRead(s)
           q == BodyRead(h)
<1>1. p = Completed(q)
  BY PartsAre DEF FromBuffer
<1>2. Place(T, s) /\ Kept(Parsing(m, b), s) /\ ~ s.end
  BY StartExtends
<1>3. s.to.data = b.data /\ s = Parsing(s.msg, s.to)
  BY <1>2, PlaceIs DEF Kept, Parsing
<1> HIDE DEF p, s
<1>4. Place(T, h) /\ h.to.data = b.data
  <2>1. CASE s.msg.state = "HEADER"
    <3>1. h = ReadHeader(s.msg, s.to)
      BY <1>3, <2>1, PartsAre
    <3>2. <<>> \in Seq(T) /\ b.data \o <<>> = b.data /\ 0 \in Nat
      BY EmptySeq, ConcatEmptySeq, StreamIs
    <3>3. Tidy(s.to.data) /\ Tidy(s.to.data \o <<>>)
      BY <1>3, <3>2
    <3>4. Place(T, ReadHeader(s.msg, s.to)) /\ Kept(s, ReadHeader(s.msg, s.to))
      BY <1>2, <3>2, <3>3, ReadHeaderExtends
    <3> QED
      BY <1>3, <3>1, <3>4 DEF Kept
  <2>2. CASE s.msg.state # "HEADER"
    BY <1>2, <1>3, <2>2, PartsAre
  <2> QED
    BY <2>1, <2>2
<1> HIDE DEF h
<1>5. Place(T, q) /\ q.to.data = b.data
  <2>1. CASE h.msg.state = "BODY" /\ ~ h.end
    <3> DEFINE g == h.msg
               c == h.to
               n == g.len
               k == IF g.room = 0 THEN n ELSE g.room
    <3>1. q = ReadBody(g, c)
      BY <1>4, <2>1, PlaceIs, PartsAre
    <3>2. Message(g) /\ c \in Stream(T) /\ n \in Nat /\ g.room \in Nat
      BY <1>4, PlaceIs
    <3>3. Message(WithRoom(g, k))
      <4>1. k \in Nat
        BY <3>2
      <4> QED
        BY <3>2, <4>1, WithRoomIs
    <3>4. [g EXCEPT !.room = IF @ = 0 THEN g.len ELSE @] = WithRoom(g, k)
      BY DEF WithRoom
    <3> HIDE DEF g, c, n, k
    <3>5. CASE ReadBytes(c, n).ok
      <4> DEFINE r == ReadBytes(c, n)
                 y == [WithRoom(g, k) EXCEPT !.body = r.value, !.state = "DONE"]
      <4>1. q = [msg |-> y, to |-> r.to, end |-> FALSE]
        BY <3>1, <3>4, <3>5 DEF ReadBody, Parsing, n
      <4>2. n <= Readable(c)
        <5>1. Readable(c) \in Nat
          BY <3>2, StreamIs
        <5>2. ~ Fail(c).ok
          BY DEF Fail
        <5>3. n > Readable(c) => ReadBytes(c, n) = Fail(c)
          BY <3>2, <5>1, ReadBytesIs
        <5> QED
          BY <3>2, <3>5, <5>1, <5>2, <5>3
      <4>3. r.to \in Stream(T) /\ r.to.data = c.data
        <5> DEFINE v == SubSeq(c.data, c.read + 1, c.read + n)
                   d == [data |-> c.data, read |-> c.read + n, base |-> c.base]
        <5>1. ReadBytes(c, n) = [ok |-> TRUE, value |-> v, to |-> d] /\ d \in Stream(T)
          BY <3>2, <4>2, ReadBytesIs
        <5>2. d.data = c.data
          OBVIOUS
        <5> HIDE DEF v, d
        <5> QED
          BY <5>1, <5>2
      <4>4. Message(y)
        <5> DEFINE v == r.value
                   a == WithRoom(g, k)
        <5> HIDE DEF v, a, r
        <5>1. Message([a EXCEPT !.body = v, !.state = "DONE"])
          <6>1. Message(a)
            BY <3>3 DEF a
          <6> DEFINE a1 == [a EXCEPT !.body = v]
          <6>2. a1 = [kind |-> a.kind, first |-> a.first, second |-> a.second, version |-> a.version,
                      headers |-> a.headers, len |-> a.len, body |-> v, room |-> a.room, state |-> a.state]
            BY <6>1 DEF Message
          <6>3. [a EXCEPT !.body = v, !.state = "DONE"] = [a1 EXCEPT !.state = "DONE"]
            BY <6>1 DEF Message
          <6> HIDE DEF a1
          <6>4. [a1 EXCEPT !.state = "DONE"] =
                  [kind |-> a.kind, first |-> a.first, second |-> a.second, version |-> a.version,
                   headers |-> a.headers, len |-> a.len, body |-> v, room |-> a.room, state |-> "DONE"]
            BY <6>2
          <6> QED
            BY <6>1, <6>3, <6>4 DEF Message
        <5> QED
          BY <5>1 DEF v, a
      <4> HIDE DEF y, r
      <4>5. Place(T, q) /\ q.to.data = c.data
        BY <4>1, <4>3, <4>4 DEF Place
      <4> QED
        BY <1>4, <4>5 DEF c
    <3>6. CASE ~ ReadBytes(c, n).ok
      <4>1. q = [msg |-> WithRoom(g, k), to |-> ReadBytes(c, n).to, end |-> FALSE]
        BY <3>1, <3>4, <3>6 DEF ReadBody, Parsing, n
      <4>2. n > Readable(c)
        <5>1. Readable(c) \in Nat
          BY <3>2, StreamIs
        <5> DEFINE v == SubSeq(c.data, c.read + 1, c.read + n)
                   d == [data |-> c.data, read |-> c.read + n, base |-> c.base]
        <5>2. n <= Readable(c) => ReadBytes(c, n) = [ok |-> TRUE, value |-> v, to |-> d]
          BY <3>2, <5>1, ReadBytesIs
        <5> HIDE DEF v, d
        <5>3. n <= Readable(c) => ReadBytes(c, n).ok = TRUE
          BY <5>2
        <5> QED
          BY <3>2, <3>6, <5>1, <5>3
      <4>3. ReadBytes(c, n) = Fail(c)
        BY <3>2, <4>2, ReadBytesIs
      <4>4. q = [msg |-> WithRoom(g, k), to |-> c, end |-> FALSE]
        BY <4>1, <4>3 DEF Fail
      <4>5. Place(T, q) /\ q.to.data = c.data
        BY <3>2, <3>3, <4>4 DEF Place
      <4> QED
        BY <1>4, <4>5 DEF c
    <3> QED
      BY <3>5, <3>6
  <2>2. CASE ~ (h.msg.state = "BODY" /\ ~ h.end)
    <3>1. q = h
      BY <2>2 DEF BodyRead
    <3> HIDE DEF q
    <3> QED
      BY <1>4, <3>1
  <2> QED
    BY <2>1, <2>2
<1> HIDE DEF q
<1>6. q.msg.state = "DONE" /\ ~ q.end
  <2> SUFFICES ASSUME ~ (q.msg.state = "DONE" /\ ~ q.end) PROVE FALSE
    OBVIOUS
  <2>1. p = q
    BY <1>1 DEF Completed
  <2> QED
    BY <2>1 DEF p
<1> DEFINE t == Flushed(q.to)
<1>7. p = [q EXCEPT !.to = t]
  BY <1>1, <1>6 DEF Completed
<1>8. t \in Stream(T) /\ t.read = 0 /\ Tidy(t.data)
  BY <1>5, FlushedIs, PlaceIs
<1> HIDE DEF t
<1>9. p = [msg |-> q.msg, to |-> t, end |-> q.end]
  BY <1>5, <1>7 DEF Place
<1> QED
  BY <1>5, <1>8, <1>9, PlaceIs DEF p

\* Reset, of a message and of one that parsing has made of it.
LEMMA ResetIs ==
  ASSUME NEW m, Message(m)
  PROVE  /\ Message(Reset(m)) /\ Reset(m).state = "READY" /\ Reset(Reset(m)) = Reset(m)
         /\ Reset(m).room = m.room /\ Reset(m).kind = m.kind /\ Reset(m).headers = <<>>
         /\ \A n : Message(n) /\ n.kind = Reset(m).kind /\ n.body = Reset(m).body /\ (n.room = 0 => m.room = 0)
                     => Reset(n) = WithRoom(Reset(m), n.room)
<1> DEFINE First(x) == IF x.kind = "request" THEN <<"GET">> ELSE 200
           Second(x) == IF x.kind = "request" THEN <<>> ELSE <<"OK">>
           Body(x) == IF x.room = 0 THEN <<>> ELSE x.body
           R(x) == [kind |-> x.kind, first |-> First(x), second |-> Second(x), version |-> <<"HTTP/1.1">>,
                    headers |-> <<>>, len |-> 0, body |-> Body(x), room |-> x.room, state |-> "READY"]
<1>1. ASSUME NEW x, Message(x) PROVE Reset(x) = R(x)
  <2> DEFINE f == First(x)
             g == Second(x)
             y == [kind |-> x.kind, first |-> f, second |-> g, version |-> x.version,
                   headers |-> x.headers, len |-> x.len, body |-> x.body, room |-> x.room, state |-> x.state]
  <2>1. ResetStart(x) = y
    BY <1>1, ZenonT(60) DEF ResetStart, Message
  <2>2. Reset(x) = [ResetStart(x) EXCEPT !.headers = <<>>, !.len = 0, !.version = <<"HTTP/1.1">>,
                        !.state = "READY", !.body = IF x.room = 0 THEN <<>> ELSE ResetStart(x).body]
    BY DEF Reset
  <2>3. ResetStart(x).body = x.body
    BY <2>1
  <2> DEFINE b == Body(x)
  <2>4. Reset(x) = [ResetStart(x) EXCEPT !.headers = <<>>, !.len = 0, !.version = <<"HTTP/1.1">>,
                        !.state = "READY", !.body = b]
    BY <2>2, <2>3
  <2> HIDE DEF f, g, b
  <2>5. [y EXCEPT !.headers = <<>>, !.len = 0, !.version = <<"HTTP/1.1">>, !.state = "READY", !.body = b]
          = [kind |-> x.kind, first |-> f, second |-> g, version |-> <<"HTTP/1.1">>,
             headers |-> <<>>, len |-> 0, body |-> b, room |-> x.room, state |-> "READY"]
    <3> DEFINE v == <<"HTTP/1.1">>
               o == <<>>
               y1 == [y EXCEPT !.headers = o]
               y2 == [y1 EXCEPT !.len = 0]
               y3 == [y2 EXCEPT !.version = v]
               y4 == [y3 EXCEPT !.state = "READY"]
               y5 == [y4 EXCEPT !.body = b]
    <3> HIDE DEF v, o
    <3>1. y1 = [kind |-> x.kind, first |-> f, second |-> g, version |-> x.version,
                headers |-> o, len |-> x.len, body |-> x.body, room |-> x.room, state |-> x.state]
      OBVIOUS
    <3> HIDE DEF y1
    <3>2. y2 = [kind |-> x.kind, first |-> f, second |-> g, version |-> x.version,
                headers |-> o, len |-> 0, body |-> x.body, room |-> x.room, state |-> x.state]
      BY <3>1
    <3> HIDE DEF y2
    <3>3. y3 = [kind |-> x.kind, first |-> f, second |-> g, version |-> v,
                headers |-> o, len |-> 0, body |-> x.body, room |-> x.room, state |-> x.state]
      BY <3>2
    <3> HIDE DEF y3
    <3>4. y4 = [kind |-> x.kind, first |-> f, second |-> g, version |-> v,
                headers |-> o, len |-> 0, body |-> x.body, room |-> x.room, state |-> "READY"]
      BY <3>3
    <3> HIDE DEF y4
    <3>5. y5 = [kind |-> x.kind, first |-> f, second |-> g, version |-> v,
                headers |-> o, len |-> 0, body |-> b, room |-> x.room, state |-> "READY"]
      BY <3>4
    <3> HIDE DEF y5
    <3>6. [y EXCEPT !.headers = o, !.len = 0, !.version = v, !.state = "READY", !.body = b] = y5
      BY Zenon DEF y1, y2, y3, y4, y5
    <3> HIDE DEF y
    <3> QED
      BY <3>5, <3>6 DEF v, o
  <2> QED
    BY <2>1, <2>4, <2>5 DEF f, g, b
<1>2. ASSUME NEW x, Message(x)
      PROVE  Message(R(x)) /\ R(x).state = "READY" /\ R(x).room = x.room /\ R(x).kind = x.kind /\ R(x).body = Body(x)
             /\ R(x).headers = <<>>
  <2> DEFINE f == First(x)
             g == Second(x)
             b == Body(x)
  <2> HIDE DEF f, g, b
  <2>1. Message([kind |-> x.kind, first |-> f, second |-> g, version |-> <<"HTTP/1.1">>,
             headers |-> <<>>, len |-> 0, body |-> b, room |-> x.room, state |-> "READY"])
    BY <1>2 DEF Message
  <2> QED
    BY <2>1 DEF f, g, b
<1>3. R(R(m)) = R(m)
  OBVIOUS
<1>4. ASSUME NEW n, Message(n), n.kind = m.kind, n.body = Body(m), n.room = 0 => m.room = 0
      PROVE  R(n) = WithRoom(R(m), n.room)
  <2> DEFINE f == First(m)
             g == Second(m)
             b == Body(m)
  <2>1. First(n) = f /\ Second(n) = g
    BY <1>4
  <2>2. Body(n) = b
    BY <1>4
  <2>3. R(n) = [kind |-> m.kind, first |-> f, second |-> g, version |-> <<"HTTP/1.1">>,
                    headers |-> <<>>, len |-> 0, body |-> b, room |-> n.room, state |-> "READY"]
    BY <1>4, <2>1, <2>2
  <2> HIDE DEF f, g, b
  <2>4. WithRoom([kind |-> m.kind, first |-> f, second |-> g, version |-> <<"HTTP/1.1">>,
                    headers |-> <<>>, len |-> 0, body |-> b, room |-> m.room, state |-> "READY"], n.room)
         = [kind |-> m.kind, first |-> f, second |-> g, version |-> <<"HTTP/1.1">>,
                    headers |-> <<>>, len |-> 0, body |-> b, room |-> n.room, state |-> "READY"]
    BY DEF WithRoom
  <2> QED
    BY <2>3, <2>4 DEF f, g, b
<1> HIDE DEF R
<1>5. Message(Reset(m)) /\ Reset(m).state = "READY" /\ Reset(m).room = m.room /\ Reset(m).kind = m.kind
      /\ Reset(m).headers = <<>> /\ Reset(m).body = Body(m) /\ Reset(m) = R(m)
  BY <1>1, <1>2
<1>6. Reset(Reset(m)) = Reset(m)
  BY <1>1, <1>2, <1>3
<1> HIDE DEF Body
<1>7. ASSUME NEW n, Message(n), n.kind = Reset(m).kind, n.body = Reset(m).body, n.room = 0 => m.room = 0
      PROVE  Reset(n) = WithRoom(Reset(m), n.room)
  <2>1. Reset(n) = R(n)
    BY <1>1, <1>7
  <2>2. R(n) = WithRoom(R(m), n.room)
    BY <1>4, <1>5, <1>7
  <2> QED
    BY <1>5, <2>1, <2>2
<1> QED
  BY <1>5, <1>6, <1>7

-----------------------------------------------------------------------------
(* The server.                                                             *)

\* Nothing that was sent has a line break that is cut, and the request is what
\* parsing the whole buffer makes of an empty one.
ParsedSoFar ==
  /\ Message(request) /\ request.state # "DONE"
  /\ request.state = "READY" => request = Reset(request) /\ buffer.read = 0
  /\ request.state # "READY" =>
       FromBuffer(Reset(request), [buffer EXCEPT !.read = 0]) = Parsing(request, buffer)

WholeLines(T) ==
  /\ wire \in Seq(T) /\ Whole(wire)
  /\ buffer \in Stream(T) /\ Tidy(buffer.data)

ServerInv(T) == wire \in Seq(T) /\ Whole(wire) /\ (server = "up" => WholeLines(T) /\ ParsedSoFar)

\* Nothing has come, and nothing is parsed.
LEMMA ServerInit ==
  ASSUME NEW T, HttpInit
  PROVE  ServerInv(T)
<1>1. <<>> \in Seq(T) /\ Len(<<>>) = 0 /\ DOMAIN <<>> = {}
  BY EmptySeq, LenProperties
<1>2. wire \in Seq(T) /\ Whole(wire)
  BY <1>1 DEF HttpInit, Whole, Tidy
<1>3. buffer = [data |-> <<>>, read |-> 0, base |-> 0]
  BY DEF HttpInit, EmptyStream
<1>4. buffer \in Stream(T) /\ Tidy(buffer.data) /\ buffer.read = 0
  BY <1>1, <1>3 DEF Stream, Tidy
<1>5. request = [kind |-> "request", first |-> <<"GET">>, second |-> <<>>, version |-> <<"HTTP/1.1">>,
                 headers |-> <<>>, len |-> 0, body |-> <<>>, room |-> 0, state |-> "READY"]
  BY DEF HttpInit, HttpRequest
<1>6. Message(request) /\ request.state = "READY"
  BY <1>5 DEF Message
<1>7. ResetStart(request) = request
  <2>1. request.kind = "request"
    BY <1>5
  <2>2. ResetStart(request) = [request EXCEPT !.first = <<"GET">>, !.second = <<>>]
    BY <2>1 DEF ResetStart
  <2> QED
    BY <1>5, <2>2
<1>8. Reset(request) = request
  <2>1. request.room = 0
    BY <1>5
  <2>2. Reset(request) = [request EXCEPT !.headers = <<>>, !.len = 0, !.version = <<"HTTP/1.1">>,
                        !.state = "READY", !.body = <<>>]
    BY <1>7, <2>1 DEF Reset
  <2> QED
    BY <1>5, <2>2
<1> QED
  BY <1>2, <1>4, <1>6, <1>8 DEF ServerInv, WholeLines, ParsedSoFar

\* A piece that has come is parsed as with all that came before it.
LEMMA PieceFromStart ==
  ASSUME NEW T, WholeLines(T), ParsedSoFar, NEW e \in Seq(T), Whole(e)
  PROVE  LET b == [data |-> buffer.data, read |-> 0, base |-> buffer.base]
         IN  /\ [buffer EXCEPT !.read = 0] = b /\ b \in Stream(T)
             /\ Write(b, e) \in Stream(T) /\ Write(b, e).data = buffer.data \o e
             /\ Write(b, e).read = 0 /\ Write(b, e).base = buffer.base /\ Tidy(Write(b, e).data)
             /\ FromBuffer(request, Write(buffer, e)) = FromBuffer(Reset(request), Write(b, e))
<1> DEFINE p == FromBuffer(request, Write(buffer, e))
           b == [data |-> buffer.data, read |-> 0, base |-> buffer.base]
           w == Write(b, e)
           m == Reset(request)
<1>1. /\ buffer \in Stream(T) /\ Tidy(buffer.data) /\ Message(request) /\ request.state # "DONE"
      /\ buffer = [data |-> buffer.data, read |-> buffer.read, base |-> buffer.base]
  BY StreamIs DEF WholeLines, ParsedSoFar
<1>2. b \in Stream(T) /\ b.data = buffer.data
  BY <1>1 DEF Stream
<1>3. [buffer EXCEPT !.read = 0] = b
  BY <1>1
<1>4. Message(m) /\ m.state = "READY" /\ Reset(m) = m
  BY <1>1, ResetIs
<1>5. /\ w \in Stream(T) /\ w.data = buffer.data \o e /\ w.read = 0 /\ w.base = b.base
      /\ Tidy(w.data)
  <2>1. Write(b, e) \in Stream(T) /\ Write(b, e).data = b.data \o e /\ Write(b, e).read = b.read /\ Write(b, e).base = b.base
    BY <1>2, WriteIs
  <2>2. b.read = 0 /\ buffer.data \in Seq(T)
    BY <1>1, StreamIs
  <2>3. Tidy(buffer.data \o e)
    BY <1>1, <2>2, JoinTidy
  <2> QED
    BY <1>2, <2>1, <2>2, <2>3
<1> HIDE DEF b, w, m
<1>6. p = FromBuffer(m, w)
  <2>1. CASE request.state = "READY"
    <3>1. m = request /\ b = buffer
      BY <1>1, <2>1 DEF ParsedSoFar, m, b
    <3> QED
      BY <3>1 DEF w
  <2>2. CASE request.state # "READY"
    <3>1. FromBuffer(m, b) = Parsing(request, buffer)
      BY <1>3, <2>2 DEF ParsedSoFar, m
    <3>2. /\ FromBuffer(m, b).end = FALSE /\ FromBuffer(m, b).msg = request /\ FromBuffer(m, b).to = buffer
      BY <3>1 DEF Parsing
    <3>3. Tidy(b.data) /\ Tidy(b.data \o e)
      BY <1>1, <1>2, <1>5
    <3>4. FromBuffer(m, Write(b, e)) = FromBuffer(FromBuffer(m, b).msg, Write(FromBuffer(m, b).to, e))
      BY <1>1, <1>2, <1>4, <2>2, <3>2, <3>3, ParsingGoesOn
    <3> QED
      BY <3>2, <3>4 DEF w
  <2> QED
    BY <2>1, <2>2
<1>7. w.base = buffer.base
  BY <1>5 DEF b
<1> QED
  BY <1>2, <1>3, <1>5, <1>6, <1>7 DEF b, w, m

\* A piece of the stream is parsed.
LEMMA PieceParsed ==
  ASSUME NEW T, WholeLines(T), ParsedSoFar, NEW e \in Seq(T), Whole(e),
         ~ FromBuffer(request, Write(buffer, e)).end
  PROVE  LET p == FromBuffer(request, Write(buffer, e))
             q == IF p.msg.state = "DONE" THEN Reset(p.msg) ELSE p.msg
         IN  /\ p.to \in Stream(T) /\ Tidy(p.to.data)
             /\ Message(q) /\ q.state # "DONE"
             /\ q.state = "READY" => q = Reset(q) /\ p.to.read = 0
             /\ q.state # "READY" => FromBuffer(Reset(q), [p.to EXCEPT !.read = 0]) = Parsing(q, p.to)
<1> DEFINE p == FromBuffer(request, Write(buffer, e))
           b == [data |-> buffer.data, read |-> 0, base |-> buffer.base]
           w == Write(b, e)
           m == Reset(request)
<1>1. /\ buffer \in Stream(T) /\ Tidy(buffer.data) /\ Message(request) /\ request.state # "DONE"
  BY DEF WholeLines, ParsedSoFar
<1>4. Message(m) /\ m.state = "READY" /\ Reset(m) = m
  BY <1>1, ResetIs
<1>5. w \in Stream(T) /\ w.data = buffer.data \o e /\ w.read = 0 /\ Tidy(w.data)
  BY PieceFromStart
<1>6. p = FromBuffer(m, w)
  BY PieceFromStart
<1> HIDE DEF b, w, m
<1> HIDE DEF p
<1>7. ~ p.end
  BY DEF p
<1>8. CASE p.msg.state = "DONE"
  <2>1. Message(p.msg) /\ p.to \in Stream(T) /\ p.to.read = 0 /\ Tidy(p.to.data)
    BY <1>4, <1>5, <1>6, <1>7, <1>8, ParsingDone
  <2>2. Message(Reset(p.msg)) /\ Reset(p.msg).state = "READY" /\ Reset(Reset(p.msg)) = Reset(p.msg)
    BY <2>1, ResetIs
  <2> QED
    BY <1>8, <2>1, <2>2 DEF p
<1>9. CASE p.msg.state # "DONE"
  <2>1. /\ Place(T, p)
        /\ p.to.data = w.data /\ p.to.base = w.base
        /\ p.msg.kind = m.kind /\ p.msg.body = m.body /\ (p.msg.room = 0 => m.room = 0)
        /\ p.msg.state = "READY" => p = Parsing(m, w)
        /\ p.msg.state # "READY" => FromBuffer(WithRoom(m, p.msg.room), w) = p
    <3>1. ~ FromBuffer(m, w).end /\ FromBuffer(m, w).msg.state # "DONE"
      BY <1>6, <1>7, <1>9
    <3>2. <<>> \in Seq(T)
      BY EmptySeq
    <3> DEFINE q == FromBuffer(m, w)
    <3>6. Message(m) /\ m.state = "READY" /\ w \in Stream(T) /\ Tidy(w.data)
      BY <1>4, <1>5
    <3>3. /\ Place(T, q)
          /\ q.to.data = w.data /\ q.to.base = w.base
          /\ q.msg.kind = m.kind /\ q.msg.body = m.body /\ (q.msg.room = 0 => m.room = 0)
      BY <3>1, <3>6, ParsingGoesOn
    <3>4. q.msg.state = "READY" => q = Parsing(m, w)
      BY <3>1, <3>6, ParsingGoesOn
    <3>5. q.msg.state # "READY" => FromBuffer(WithRoom(m, q.msg.room), w) = q
      BY <3>1, <3>6, ParsingGoesOn
    <3> HIDE DEF q
    <3> QED
      BY <1>6, <3>3, <3>4, <3>5 DEF q
  <2>2. p.to \in Stream(T) /\ Message(p.msg) /\ p = Parsing(p.msg, p.to) /\ Tidy(p.to.data)
    BY <1>5, <1>7, <2>1, PlaceIs
  <2>3. CASE p.msg.state = "READY"
    <3>1. p.msg = m /\ p.to = w
      BY <2>1, <2>3 DEF Parsing
    <3> QED
      BY <1>4, <1>5, <1>9, <2>2, <2>3, <3>1 DEF p
  <2>4. CASE p.msg.state # "READY"
    <3>1. m.room = request.room /\ Reset(p.msg) = WithRoom(m, p.msg.room)
      <4>1. m.room = request.room
        BY <1>1, ResetIs DEF m
      <4> QED
        BY <1>1, <2>1, <2>2, <4>1, ResetIs DEF m
    <3>2. [p.to EXCEPT !.read = 0] = w
      <4>1. p.to = [data |-> p.to.data, read |-> p.to.read, base |-> p.to.base]
        BY <2>2, StreamIs
      <4>2. w = [data |-> w.data, read |-> w.read, base |-> w.base]
        BY <1>5, StreamIs
      <4>3. [p.to EXCEPT !.read = 0] = [data |-> p.to.data, read |-> 0, base |-> p.to.base]
        BY <4>1
      <4> QED
        BY <1>5, <2>1, <4>2, <4>3
    <3>3. FromBuffer(Reset(p.msg), [p.to EXCEPT !.read = 0]) = Parsing(p.msg, p.to)
      BY <2>1, <2>2, <2>4, <3>1, <3>2
    <3> QED
      BY <1>9, <2>2, <2>4, <3>3 DEF p
  <2> QED
    BY <2>3, <2>4
<1> QED
  BY <1>8, <1>9

\* Each step of the server, of its peer and of the network keeps ServerInv: no
\* line break is cut in the buffer, and parsing the message at once from the
\* beginning of the buffer leads where parsing it in pieces has got to.
LEMMA ServerStep ==
  ASSUME NEW T, ~ CutsCRLF, \A m \in Requests : Packed(m) \in Seq(T) /\ Whole(Packed(m)),
         ServerInv(T), [HttpNext]_httpVars
  PROVE  ServerInv(T)'
<1>0. wire \in Seq(T) /\ Whole(wire)
  BY DEF ServerInv
<1>1. ASSUME NEW m \in Requests, SendRequest(m) PROVE ServerInv(T)'
  <2>1. wire' = wire \o Packed(m) /\ Packed(m) \in Seq(T) /\ Whole(Packed(m))
    BY <1>1 DEF SendRequest
  <2>2. wire' \in Seq(T) /\ Whole(wire')
    <3> DEFINE t == Packed(m)
    <3> HIDE DEF t
    <3>1. Tidy(wire)
      BY <1>0 DEF Whole
    <3> QED
      BY <1>0, <2>1, <3>1, JoinTidy, ConcatProperties DEF t
  <2>3. request' = request /\ buffer' = buffer /\ server' = server
    BY <1>1 DEF SendRequest
  <2> QED
    BY <2>2, <2>3 DEF ServerInv, WholeLines, ParsedSoFar
<1>2. ASSUME NEW n \in Pieces(wire), OnReceived(n) PROVE ServerInv(T)'
  <2> DEFINE e == SubSeq(wire, 1, n)
             p == FromBuffer(request, Write(buffer, e))
  <2>1. /\ server = "up" /\ wire' = SubSeq(wire, n + 1, Len(wire)) /\ buffer' = p.to
        /\ request' = IF p.msg.state = "DONE" /\ ~ p.end THEN Reset(p.msg) ELSE p.msg
        /\ server' = IF p.end THEN "ended" ELSE "up"
    BY <1>2, Zenon DEF OnReceived
  <2>2. e \in Seq(T) /\ Whole(e) /\ wire' \in Seq(T) /\ Whole(wire')
    BY <1>0, <2>1, PieceIs
  <2>3. WholeLines(T) /\ ParsedSoFar
    BY <2>1 DEF ServerInv
  <2> HIDE DEF e
  <2>4. CASE p.end
    <3> HIDE DEF p
    <3> QED
      BY <2>1, <2>2, <2>4 DEF ServerInv
  <2>5. CASE ~ p.end
    <3>1. LET q == IF p.msg.state = "DONE" THEN Reset(p.msg) ELSE p.msg
          IN  /\ p.to \in Stream(T) /\ Tidy(p.to.data)
              /\ Message(q) /\ q.state # "DONE"
              /\ q.state = "READY" => q = Reset(q) /\ p.to.read = 0
              /\ q.state # "READY" => FromBuffer(Reset(q), [p.to EXCEPT !.read = 0]) = Parsing(q, p.to)
      BY <2>2, <2>3, <2>5, PieceParsed
    <3> HIDE DEF p
    <3>2. request' = IF p.msg.state = "DONE" THEN Reset(p.msg) ELSE p.msg
      BY <2>1, <2>5
    <3>3. /\ buffer' \in Stream(T) /\ Tidy(buffer'.data)
          /\ Message(request') /\ request'.state # "DONE"
          /\ request'.state = "READY" => request' = Reset(request') /\ buffer'.read = 0
          /\ request'.state # "READY" =>
               FromBuffer(Reset(request'), [buffer' EXCEPT !.read = 0]) = Parsing(request', buffer')
      BY <2>1, <3>1, <3>2
    <3> QED
      BY <2>2, <3>3 DEF ServerInv, WholeLines, ParsedSoFar
  <2> QED
    BY <2>4, <2>5
<1>3. ASSUME NEW n \in Pieces(back), ClientReceive(n) PROVE ServerInv(T)'
  <2>1. wire' = wire /\ request' = request /\ buffer' = buffer /\ server' = server
    BY <1>3, Zenon DEF ClientReceive
  <2> QED
    BY <2>1 DEF ServerInv, WholeLines, ParsedSoFar
<1>4. CASE UNCHANGED httpVars
  <2>1. wire' = wire /\ request' = request /\ buffer' = buffer /\ server' = server
    BY <1>4 DEF httpVars
  <2> QED
    BY <2>1 DEF ServerInv, WholeLines, ParsedSoFar
<1> QED
  BY <1>1, <1>2, <1>3, <1>4 DEF HttpNext

\* However TCP cuts the requests, as long as it does not cut a line break, the
\* request that HttpConnection::OnReceived has parsed piece by piece is the one
\* that HttpMessage::FromBuffer would have parsed of all of them at once, and the
\* buffer is where it would have been left. This holds for requests of any
\* letters T in which CR and LF only come together.
THEOREM PiecesDoNotMatterHolds ==
  ASSUME NEW T, ~ CutsCRLF, \A m \in Requests : Packed(m) \in Seq(T) /\ Whole(Packed(m))
  PROVE  HttpSpec => []PiecesDoNotMatter
<1>1. HttpInit => ServerInv(T)
  BY ServerInit
<1>2. ServerInv(T) /\ [HttpNext]_httpVars => ServerInv(T)'
  BY ServerStep
<1>3. ServerInv(T) => PiecesDoNotMatter
  <2> SUFFICES ASSUME ServerInv(T), server = "up", request.state # "READY"
               PROVE  LET p == FromBuffer(Reset(request), [buffer EXCEPT !.read = 0])
                      IN p.msg = request /\ p.to = buffer
    BY DEF PiecesDoNotMatter
  <2>1. FromBuffer(Reset(request), [buffer EXCEPT !.read = 0]) = Parsing(request, buffer)
    BY DEF ServerInv, ParsedSoFar
  <2> QED
    BY <2>1 DEF Parsing
<1> QED
  BY <1>1, <1>2, <1>3, PTL DEF HttpSpec

-----------------------------------------------------------------------------
(* Texts.                                                                  *)

\* A text u is made of s, the first t, and r.
Around(T, u, s, t, r) == t \in T /\ s \in Seq(T) /\ r \in Seq(T) /\ Lacks(s, t) /\ u = s \o <<t>> \o r

\* Where the first t of a text is.
LEMMA FindIs ==
  ASSUME NEW T, NEW u, NEW s, NEW t, NEW r, Around(T, u, s, t, r)
  PROVE  Find(s, t) = 0 /\ Find(u, t) # 0 /\ Before(u, t) = s /\ After(u, t) = r
<1>0. t \in T /\ s \in Seq(T) /\ r \in Seq(T) /\ Lacks(s, t) /\ u = s \o <<t>> \o r
  BY DEF Around
<1> DEFINE n == Len(s)
           k == Len(r)
           st == s \o <<t>>
<1>1. n \in Nat /\ k \in Nat /\ DOMAIN s = 1 .. n
  BY <1>0, LenProperties
<1>2. Places(s, t) = {}
  BY <1>0, <1>1 DEF Places, Lacks
<1>3. Find(s, t) = 0
  BY <1>2 DEF Find
<1>4. <<t>> \in Seq(T) /\ Len(<<t>>) = 1 /\ <<t>>[1] = t
  BY <1>0
<1>5. /\ st \in Seq(T) /\ Len(st) = n + 1 /\ st[n + 1] = t
      /\ \A i \in 1 .. n : st[i] = s[i]
  <2> DEFINE w == <<t>>
  <2>1. w \in Seq(T) /\ s \in Seq(T)
    BY <1>0, <1>4
  <2>2. Len(w) = 1 /\ w[1] = t
    BY <1>4
  <2> HIDE DEF w
  <2>3. /\ s \o w \in Seq(T) /\ Len(s \o w) = Len(s) + Len(w)
        /\ \A i \in 1 .. Len(s) : (s \o w)[i] = s[i]
        /\ \A i \in 1 .. Len(w) : (s \o w)[Len(s) + i] = w[i]
    BY <2>1, Appended
  <2> QED
    BY <2>2, <2>3 DEF w
<1> HIDE DEF st
<1>6. /\ u \in Seq(T) /\ Len(u) = n + 1 + k
      /\ \A i \in 1 .. n + 1 : u[i] = st[i]
      /\ \A i \in 1 .. k : u[n + 1 + i] = r[i]
  <2>1. st \in Seq(T) /\ r \in Seq(T)
    BY <1>0, <1>5
  <2>2. u = st \o r
    BY <1>0 DEF st
  <2>3. /\ st \o r \in Seq(T) /\ Len(st \o r) = Len(st) + Len(r)
        /\ \A i \in 1 .. Len(st) : (st \o r)[i] = st[i]
        /\ \A i \in 1 .. Len(r) : (st \o r)[Len(st) + i] = r[i]
    BY <2>1, Appended
  <2> QED
    BY <1>5, <2>2, <2>3
<1>7. /\ u[n + 1] = t /\ \A i \in 1 .. n : u[i] = s[i]
      /\ DOMAIN u = 1 .. n + 1 + k
  <2>1. DOMAIN u = 1 .. Len(u)
    BY <1>6, LenProperties
  <2> HIDE DEF n, k
  <2> QED
    BY <1>1, <1>5, <1>6, <2>1
<1>8. n + 1 \in Places(u, t) /\ Places(u, t) \subseteq Nat /\ \A i \in Places(u, t) : n + 1 <= i
  <2> DEFINE P == Places(u, t)
  <2>1. P = {i \in 1 .. n + 1 + k : u[i] = t}
    BY <1>7 DEF Places
  <2>2. \A i \in 1 .. n : s[i] # t
    BY <1>0 DEF Lacks
  <2> HIDE DEF P, n, k
  <2>3. n + 1 \in P /\ P \subseteq Nat
    BY <1>1, <1>7, <2>1
  <2>4. ASSUME NEW i \in P PROVE n + 1 <= i
    <3>1. i \in 1 .. n + 1 + k /\ u[i] = t
      BY <2>1
    <3>2. ~ (i \in 1 .. n)
      BY <1>7, <2>2, <3>1
    <3> QED
      BY <1>1, <3>1, <3>2
  <2> QED
    BY <2>3, <2>4 DEF P
<1>9. Find(u, t) = n + 1
  <2>1. Places(u, t) # {}
    BY <1>8
  <2>2. /\ FirstStop(Places(u, t)) \in Places(u, t)
        /\ \A j \in Places(u, t) : FirstStop(Places(u, t)) <= j
    BY <1>8, <2>1, FirstStopIs
  <2> DEFINE f == FirstStop(Places(u, t))
  <2>3. f \in Nat /\ f <= n + 1 /\ n + 1 <= f
    BY <1>8, <2>2
  <2>4. Find(u, t) = f
    BY <2>1 DEF Find
  <2> HIDE DEF f, n
  <2> QED
    BY <1>1, <2>3, <2>4
<1>10. Before(u, t) = s
  <2>1. Before(u, t) = SubSeq(u, 1, n)
    <3> HIDE DEF n
    <3>1. (n + 1) - 1 = n
      BY <1>1
    <3> QED
      BY <1>9, <3>1 DEF Before
  <2>2. Placed(u, 0, s)
    <3>1. 0 + n <= Len(u)
      BY <1>1, <1>6
    <3>2. \A i \in 1 .. n : u[0 + i] = s[i]
      BY <1>7
    <3> QED
      BY <3>1, <3>2 DEF Placed
  <2>3. SubSeq(u, 0 + 1, 0 + Len(s)) = s
    BY <1>0, <1>6, <2>2, PlacedIs
  <2>4. 0 + 1 = 1 /\ 0 + Len(s) = n
    BY <1>1
  <2> QED
    BY <2>1, <2>3, <2>4
<1>11. After(u, t) = r
  <2>1. After(u, t) = SubSeq(u, (n + 1) + 1, Len(u))
    BY <1>9 DEF After
  <2>2. Placed(u, n + 1, r)
    <3>1. (n + 1) + k <= Len(u)
      BY <1>1, <1>6
    <3> QED
      BY <1>1, <1>6, <3>1 DEF Placed
  <2>3. SubSeq(u, (n + 1) + 1, (n + 1) + Len(r)) = r
    <3>1. n + 1 \in Nat
      BY <1>1
    <3> HIDE DEF n
    <3> QED
      BY <1>0, <1>6, <2>2, <3>1, PlacedIs
  <2>4. Len(u) = (n + 1) + Len(r)
    BY <1>6
  <2> QED
    BY <2>1, <2>3, <2>4
<1>12. Find(u, t) # 0
  BY <1>1, <1>9
<1> QED
  BY <1>3, <1>10, <1>11, <1>12

\* A line that is in the stream is read, and its delimiter.
LEMMA LineIsRead ==
  ASSUME NEW T, CR \in T, LF \in T, NEW b \in Stream(T), NEW line \in Seq(T), Plain(line), line # <<>>,
         Placed(b.data, b.read, line \o CRLF)
  PROVE  /\ ReadLine(b, CRLF) = Done(Advanced(b, Len(line) + 2), line)
         /\ Advanced(b, Len(line) + 2) \in Stream(T)
<1> DEFINE n == Len(line)
<1>1. CRLF \in Seq(T) /\ Len(CRLF) = 2 /\ CRLF[1] = CR /\ CRLF[2] = LF
  BY DEF CRLF
<1>2. /\ b.data \in Seq(T) /\ Len(b.data) \in Nat /\ b.read \in Nat
      /\ Readable(b) = Len(b.data) - b.read
  BY StreamIs
<1>3. Placed(b.data, b.read, line) /\ Placed(b.data, b.read + n, CRLF)
  BY <1>1, <1>2, PlacedParts
<1>4. /\ n \in Nat /\ n # 0
      /\ \A i \in 1 .. n : b.data[b.read + i] = line[i]
      /\ b.data[b.read + n + 1] = CR /\ b.read + n + 2 <= Len(b.data)
  <2>1. n \in Nat /\ n # 0
    BY LenProperties, EmptySeq
  <2>2. \A i \in 1 .. n : b.data[b.read + i] = line[i]
    BY <1>3 DEF Placed
  <2>3. b.data[(b.read + n) + 1] = CRLF[1] /\ (b.read + n) + 2 <= Len(b.data)
    BY <1>1, <1>3 DEF Placed
  <2> HIDE DEF n
  <2> QED
    BY <1>1, <2>1, <2>2, <2>3
<1>5. \A i \in 1 .. n : line[i] # CR /\ line[i] # LF
  BY DEF Plain
<1> DEFINE S == Stops(b, CRLF)
           x == LineEnd(b)
<1>6. /\ S \in SUBSET Nat
      /\ \A i \in Nat : i \in S <=> i < Readable(b) /\ b.data[b.read + i + 1] \in {CR, LF}
      /\ S # {} => x \in S /\ \A j \in S : x <= j
  BY StopsIs
<1> HIDE DEF S, x
<1>7. n \in S
  <2> HIDE DEF n
  <2>1. n < Readable(b)
    BY <1>2, <1>4
  <2> QED
    BY <1>4, <1>6, <2>1
<1>8. \A i \in S : n <= i
  <2> SUFFICES ASSUME NEW i \in S, i < n PROVE FALSE
    BY <1>4, <1>6
  <2> HIDE DEF n
  <2>1. i \in Nat /\ b.data[b.read + i + 1] \in {CR, LF}
    BY <1>6
  <2> DEFINE r == b.read
  <2>2. i + 1 \in 1 .. n /\ r + (i + 1) = r + i + 1
    <3>1. n \in Nat /\ r \in Nat /\ i \in Nat
      BY <1>2, <1>4, <2>1
    <3> HIDE DEF r
    <3> QED
      BY <3>1
  <2>3. b.data[b.read + i + 1] = line[i + 1]
    BY <1>4, <2>2
  <2> QED
    BY <1>5, <2>1, <2>2, <2>3
<1>9. x = n
  <2>1. S # {} /\ x \in S /\ x <= n
    BY <1>6, <1>7
  <2>2. n <= x /\ x \in Nat
    BY <1>6, <1>8, <2>1
  <2> HIDE DEF n
  <2> QED
    BY <1>4, <2>1, <2>2
<1>10. n + 2 <= Readable(b)
  <2> HIDE DEF n
  <2> QED
    BY <1>2, <1>4
<1> DEFINE to == [data |-> b.data, read |-> b.read + x + 2, base |-> b.base]
           value == SubSeq(b.data, b.read + 1, b.read + x)
<1>11. ReadLine(b, CRLF) = [ok |-> TRUE, value |-> value, to |-> to] /\ to \in Stream(T)
  <2>1. Stops(b, CRLF) # {} /\ LineEnd(b) # 0 /\ LineEnd(b) + 2 <= Readable(b)
    BY <1>4, <1>7, <1>9, <1>10 DEF S, x
  <2> QED
    BY <2>1, ReadLineTakes DEF x
<1>12. value = line
  BY <1>2, <1>3, <1>9, PlacedIs
<1>13. to = Advanced(b, n + 2)
  <2> DEFINE r == b.read
  <2>1. r + x + 2 = r + (n + 2)
    <3>1. n \in Nat /\ r \in Nat /\ x = n
      BY <1>2, <1>4, <1>9
    <3> HIDE DEF r, n
    <3> QED
      BY <3>1
  <2> QED
    BY <2>1 DEF Advanced
<1> HIDE DEF to, value, n
<1> QED
  BY <1>11, <1>12, <1>13 DEF Done, n

\* At a blank line nothing is taken.
LEMMA BlankIsRead ==
  ASSUME NEW T, CR \in T, LF \in T, NEW b \in Stream(T), Placed(b.data, b.read, CRLF)
  PROVE  ReadLine(b, CRLF) = Done(b, <<>>)
<1>1. CRLF \in Seq(T) /\ Len(CRLF) = 2 /\ CRLF[1] = CR /\ CRLF[2] = LF
  BY DEF CRLF
<1>2. /\ b.data \in Seq(T) /\ Len(b.data) \in Nat /\ b.read \in Nat
      /\ Readable(b) = Len(b.data) - b.read
  BY StreamIs
<1>3. b.read + 2 <= Len(b.data) /\ b.data[b.read + 1] = CR
  BY <1>1 DEF Placed
<1> DEFINE S == Stops(b, CRLF)
           x == LineEnd(b)
<1>4. /\ S \in SUBSET Nat
      /\ \A i \in Nat : i \in S <=> i < Readable(b) /\ b.data[b.read + i + 1] \in {CR, LF}
      /\ S # {} => x \in S /\ \A j \in S : x <= j
  BY StopsIs
<1> HIDE DEF S, x
<1>5. 0 \in S
  <2>1. b.read + 0 + 1 = b.read + 1 /\ 0 < Readable(b)
    BY <1>2, <1>3
  <2> QED
    BY <1>3, <1>4, <2>1
<1>6. S # {} /\ x = 0
  <2>1. S # {}
    BY <1>5
  <2>2. x \in Nat /\ x <= 0
    BY <1>4, <1>5, <2>1
  <2> QED
    BY <2>1, <2>2
<1>7. Readable(b) >= 2
  BY <1>2, <1>3
<1> QED
  BY <1>6, <1>7, ReadLineBlank DEF S, x

-----------------------------------------------------------------------------
(* The lines of the headers, as they are written.                          *)

\* The line of a header, without its end.
LEMMA HeaderTextIs ==
  ASSUME NEW T, Colon \in T, CR \in T, LF \in T, NEW h, HeaderFits(T, h),
         NEW line, line = h.key \o <<Colon>> \o h.value
  PROVE  /\ line \in Seq(T) /\ line # <<>> /\ Plain(line) /\ HeaderText(h) = line \o CRLF
         /\ Find(line, Colon) # 0 /\ Before(line, Colon) = h.key /\ After(line, Colon) = h.value
         /\ HeaderText(h) \in Seq(T) /\ Len(HeaderText(h)) = Len(line) + 2
<1> DEFINE k == h.key
           v == h.value
           c == <<Colon>>
           kc == k \o c
           m == Len(k)
           n == Len(v)
<1>1. k \in Seq(T) /\ v \in Seq(T) /\ c \in Seq(T) /\ Len(c) = 1 /\ c[1] = Colon
  BY DEF HeaderFits
<1>2. m \in Nat /\ n \in Nat
  BY <1>1, LenProperties
<1>3. /\ kc \in Seq(T) /\ Len(kc) = m + Len(c)
      /\ \A i \in 1 .. m : kc[i] = k[i]
      /\ \A i \in 1 .. Len(c) : kc[m + i] = c[i]
  <2>1. k \in Seq(T) /\ c \in Seq(T)
    BY <1>1
  <2> HIDE DEF k, c
  <2> QED
    BY <2>1, Appended
<1>4. Len(kc) = m + 1 /\ kc[m + 1] = Colon
  BY <1>1, <1>3
<1> HIDE DEF kc
<1>5. /\ line \in Seq(T) /\ Len(line) = Len(kc) + n
      /\ \A i \in 1 .. Len(kc) : line[i] = kc[i]
      /\ \A i \in 1 .. n : line[Len(kc) + i] = v[i]
  <2>1. kc \in Seq(T) /\ v \in Seq(T)
    BY <1>1, <1>3
  <2>2. line = kc \o v
    BY DEF kc
  <2> HIDE DEF v
  <2>3. /\ kc \o v \in Seq(T) /\ Len(kc \o v) = Len(kc) + Len(v)
        /\ \A i \in 1 .. Len(kc) : (kc \o v)[i] = kc[i]
        /\ \A i \in 1 .. Len(v) : (kc \o v)[Len(kc) + i] = v[i]
    BY <2>1, Appended
  <2> QED
    BY <2>2, <2>3
<1>6. /\ Len(line) = m + 1 + n
      /\ \A i \in 1 .. m : line[i] = k[i]
      /\ line[m + 1] = Colon
      /\ \A i \in 1 .. n : line[m + 1 + i] = v[i]
  <2>1. /\ Len(line) = m + 1 + n
        /\ \A i \in 1 .. m + 1 : line[i] = kc[i]
        /\ \A i \in 1 .. n : line[m + 1 + i] = v[i]
    BY <1>4, <1>5
  <2> HIDE DEF m, n, k, v
  <2>2. \A i \in 1 .. m : i \in 1 .. m + 1
    BY <1>2
  <2>3. m + 1 \in 1 .. m + 1
    BY <1>2
  <2> QED
    BY <1>3, <1>4, <2>1, <2>2, <2>3
<1>7. line # <<>>
  BY <1>2, <1>6
<1>8. Plain(line)
  <2>1. /\ \A i \in 1 .. m : k[i] # CR /\ k[i] # LF
        /\ \A i \in 1 .. n : v[i] # CR /\ v[i] # LF
    BY DEF HeaderFits, Plain
  <2>2. ASSUME NEW i \in 1 .. Len(line) PROVE line[i] # CR /\ line[i] # LF
    <3> HIDE DEF m, n, k, v
    <3>1. i \in 1 .. m \/ i = m + 1 \/ i - (m + 1) \in 1 .. n
      <4> DEFINE x == Len(line)
      <4>1. x = m + 1 + n /\ i \in 1 .. x
        BY <1>6
      <4> HIDE DEF x
      <4> QED
        BY <1>2, <4>1
    <3>2. CASE i \in 1 .. m
      BY <1>6, <2>1, <3>2
    <3>3. CASE i = m + 1
      BY <1>6, <3>3 DEF Colon, CR, LF
    <3>4. CASE i - (m + 1) \in 1 .. n
      <4> DEFINE j == i - (m + 1)
      <4>1. m + 1 + j = i /\ j \in 1 .. n
        BY <1>2, <3>4
      <4> HIDE DEF j
      <4> QED
        BY <1>6, <2>1, <4>1
    <3> QED
      BY <3>1, <3>2, <3>3, <3>4
  <2> QED
    BY <2>2 DEF Plain
<1>9. Find(line, Colon) # 0 /\ Before(line, Colon) = k /\ After(line, Colon) = v
  <2>1. Around(T, line, k, Colon, v)
    BY <1>1 DEF HeaderFits, Around
  <2> QED
    BY <2>1, FindIs
<1>11. HeaderText(h) = line \o CRLF
  BY DEF HeaderText
<1>12. line \o CRLF \in Seq(T) /\ Len(line \o CRLF) = Len(line) + 2
  <2>1. CRLF \in Seq(T) /\ Len(CRLF) = 2
    BY DEF CRLF
  <2>0. line \in Seq(T)
    BY <1>5
  <2>2. line \o CRLF \in Seq(T) /\ Len(line \o CRLF) = Len(line) + Len(CRLF)
    BY <2>0, <2>1, Appended
  <2> QED
    BY <2>1, <2>2
<1> QED
  BY <1>5, <1>7, <1>8, <1>9, <1>11, <1>12

\* A line of the header is read as it was written.
LEMMA HeaderLineTakes ==
  ASSUME NEW T, Colon \in T, CR \in T, LF \in T, NEW msg, msg.state = "HEADER", NEW b \in Stream(T),
         NEW h, HeaderFits(T, h), Placed(b.data, b.read, HeaderText(h))
  PROVE  /\ HeaderLine(Parsing(msg, b)) = Parsing(SetHeader(msg, h.key, h.value), Advanced(b, Len(HeaderText(h))))
         /\ Advanced(b, Len(HeaderText(h))) \in Stream(T)
<1> DEFINE line == h.key \o <<Colon>> \o h.value
           p == Parsing(msg, b)
<1>1. /\ line \in Seq(T) /\ line # <<>> /\ Plain(line) /\ HeaderText(h) = line \o CRLF
      /\ Find(line, Colon) # 0 /\ Before(line, Colon) = h.key /\ After(line, Colon) = h.value
      /\ Len(HeaderText(h)) = Len(line) + 2
  BY HeaderTextIs
<1> HIDE DEF line
<1>2. /\ ReadLine(b, CRLF) = Done(Advanced(b, Len(line) + 2), line)
      /\ Advanced(b, Len(line) + 2) \in Stream(T)
  <2>1. Placed(b.data, b.read, line \o CRLF)
    BY <1>1
  <2> QED
    BY <1>1, <2>1, LineIsRead
<1>3. p.msg = msg /\ p.to = b /\ ~ p.end
  BY DEF Parsing
<1> DEFINE r == ReadLine(b, CRLF)
<1>4. r.ok /\ r.value = line /\ r.to = Advanced(b, Len(line) + 2)
  BY <1>2 DEF Done
<1> HIDE DEF r, p
<1>5. HeaderLine(p) = Parsing(SetHeader(msg, Before(line, Colon), After(line, Colon)), r.to)
  <2>1. ReadLine(p.to, CRLF) = r
    BY <1>3 DEF r
  <2> QED
    BY <1>1, <1>3, <1>4, <2>1 DEF HeaderLine
<1> QED
  BY <1>1, <1>2, <1>4, <1>5 DEF p

\* The lines of a header, as ToBuffer writes them.
HeadersText(hs) == FlattenSeq([i \in DOMAIN hs |-> HeaderText(hs[i])])

\* The header is read line by line as it was written, up to the blank line.
\* The lines l of the header hs: each sets its header, the next one is the blank line.
LinesOf(T, hs, msg, l) ==
  /\ l[0].msg = msg
  /\ \A i \in 1 .. Len(hs) : l[i].msg = SetHeader(l[i - 1].msg, hs[i].key, hs[i].value)
  /\ \A i \in 0 .. Len(hs) : Message(l[i].msg) /\ l[i].msg.state = "HEADER" /\ ~ l[i].end
  /\ \E to \in Stream(T) : l[Len(hs) + 1] = BlankLine(l[Len(hs)].msg, to)

\* The lines of headers are read to their end, and the blank line is left.
LEMMA HeadersAreRead ==
  ASSUME NEW T, Colon \in T, CR \in T, LF \in T, NEW msg, Message(msg), msg.state = "HEADER",
         NEW b \in Stream(T), NEW hs, Len(hs) \in Nat, DOMAIN hs = 1 .. Len(hs),
         \A i \in 1 .. Len(hs) : HeaderFits(T, hs[i]),
         NEW text, text = HeadersText(hs),
         Placed(b.data, b.read, text \o CRLF), NEW p, p = Parsing(msg, b)
  PROVE  LinesOf(T, hs, msg, HeaderLines(p))
<1> DEFINE N == Len(hs)
           ss == [i \in DOMAIN hs |-> HeaderText(hs[i])]
           l == HeaderLines(p)
<1>1. /\ l[0] = p /\ \A n \in Nat : l[n + 1] = HeaderLine(l[n])
  BY HeaderLinesIs
<1>2. \A i \in 1 .. N : HeaderText(hs[i]) \in Seq(T)
  <2> SUFFICES ASSUME NEW i \in 1 .. N PROVE HeaderText(hs[i]) \in Seq(T)
    OBVIOUS
  <2> DEFINE h == hs[i]
  <2>1. HeaderFits(T, h)
    OBVIOUS
  <2> HIDE DEF h
  <2> QED
    BY <2>1, HeaderTextIs DEF h
<1>3. ss \in Seq(Seq(T)) /\ Len(ss) = N /\ \A i \in 1 .. N : ss[i] = HeaderText(hs[i])
  BY <1>2
<1> HIDE DEF ss
<1>4. /\ b.data \in Seq(T) /\ b.read \in Nat /\ b.base \in Nat /\ Len(b.data) \in Nat
      /\ b = [data |-> b.data, read |-> b.read, base |-> b.base]
  BY StreamIs
<1>5. text = FlattenSeq(ss) /\ text \in Seq(T)
  <2>1. text = FlattenSeq(ss)
    BY DEF ss, HeadersText
  <2>2. \E f : (\A i \in 0 .. Len(ss) : f[i] \in Seq(T)) /\ FlattenSeq(ss) = f[Len(ss)]
    BY <1>3, FlatFrom
  <2>3. Len(ss) \in 0 .. Len(ss)
    BY <1>3
  <2> QED
    BY <2>1, <2>2, <2>3
<1>6. Placed(b.data, b.read, text) /\ Placed(b.data, b.read + Len(text), CRLF)
  <2>1. CRLF \in Seq(T)
    BY DEF CRLF
  <2> QED
    BY <1>4, <1>5, <2>1, PlacedParts
<1>7. PICK pos : Laid(b.data, b.read, ss, pos)
  BY <1>3, <1>4, <1>5, <1>6, PlacedFlat
<1>8. /\ pos[0] = b.read /\ pos[N] = b.read + Len(text)
      /\ \A i \in 0 .. N : pos[i] \in Nat
      /\ \A i \in 1 .. N : Placed(b.data, pos[i - 1], ss[i]) /\ pos[i] = pos[i - 1] + Len(ss[i])
  BY <1>3, <1>5, <1>7 DEF Laid
<1> DEFINE At(i) == [data |-> b.data, read |-> pos[i], base |-> b.base]
           Good(i) == /\ l[i] = Parsing(l[i].msg, At(i)) /\ At(i) \in Stream(T)
                      /\ Message(l[i].msg) /\ l[i].msg.state = "HEADER"
           Has == {i \in Nat : i <= N => Good(i)}
<1> HIDE DEF l, N
<1>9. 0 \in Has
  <2>1. At(0) = b
    BY <1>4, <1>8
  <2>2. l[0] = Parsing(msg, b) /\ l[0].msg = msg
    BY <1>1 DEF Parsing
  <2> QED
    BY <2>1, <2>2
<1>10. ASSUME NEW n \in Nat, n + 1 <= N, Good(n)
       PROVE  Good(n + 1) /\ l[n + 1].msg = SetHeader(l[n].msg, hs[n + 1].key, hs[n + 1].value)
  <2> DEFINE h == hs[n + 1]
             a == At(n)
             k == Len(HeaderText(h))
             msg1 == l[n].msg
             new == SetHeader(msg1, h.key, h.value)
  <2>1. n + 1 \in 1 .. N /\ (n + 1) - 1 = n /\ n \in 0 .. N
    BY <1>10 DEF N
  <2>2. HeaderFits(T, h) /\ ss[n + 1] = HeaderText(h)
    BY <1>3, <2>1 DEF N
  <2>3. Placed(b.data, pos[n], HeaderText(h)) /\ pos[n + 1] = pos[n] + k
    BY <1>8, <2>1, <2>2
  <2>4. a \in Stream(T) /\ a.data = b.data /\ a.read = pos[n] /\ a.base = b.base
    BY <1>10
  <2>5. Placed(a.data, a.read, HeaderText(h))
    BY <2>3, <2>4
  <2>6. Message(msg1) /\ msg1.state = "HEADER" /\ l[n] = Parsing(msg1, a)
    BY <1>10
  <2> HIDE DEF h, a, msg1
  <2>7. HeaderLine(Parsing(msg1, a)) = Parsing(new, Advanced(a, k)) /\ Advanced(a, k) \in Stream(T)
    BY <2>2, <2>4, <2>5, <2>6, HeaderLineTakes
  <2>8. Advanced(a, k) = At(n + 1)
    BY <2>3, <2>4 DEF Advanced
  <2>9. Message(new) /\ new.state = "HEADER"
    <3> DEFINE key == h.key
               value == h.value
    <3> HIDE DEF key, value
    <3>1. Message(SetHeader(msg1, key, value)) /\ SetHeader(msg1, key, value).state = msg1.state
      <4>1. 0 \in Nat
        OBVIOUS
      <4> QED
        BY <2>6, <4>1, SetHeaderIs
    <3> QED
      BY <2>6, <3>1 DEF key, value
  <2> HIDE DEF new, k
  <2>10. l[n + 1] = Parsing(new, At(n + 1))
    BY <1>1, <2>6, <2>7, <2>8
  <2>11. l[n + 1].msg = new
    BY <2>10 DEF Parsing
  <2>12. Good(n + 1)
    BY <2>7, <2>8, <2>9, <2>10, <2>11
  <2> QED
    BY <2>11, <2>12 DEF new, h, msg1
<1>11. N \in Nat
  BY DEF N
<1>12. ASSUME NEW i \in 0 .. N PROVE Good(i)
  <2>1. ASSUME NEW n \in Has PROVE n + 1 \in Has
    <3> SUFFICES ASSUME n + 1 <= N PROVE Good(n + 1)
      OBVIOUS
    <3>1. n \in Nat /\ Good(n)
      BY <1>11
    <3> HIDE DEF Good
    <3> QED
      BY <1>10, <3>1
  <2> HIDE DEF Good
  <2>2. Has \subseteq Nat
    OBVIOUS
  <2>3. \A n \in Nat : n \in Has
    <3> HIDE DEF Has
    <3> QED
      BY <1>9, <2>1, <2>2, Induction
  <2>4. i \in Nat /\ i <= N
    BY <1>11
  <2> QED
    BY <2>3, <2>4
<1>13. ASSUME NEW i \in 1 .. N
       PROVE  l[i].msg = SetHeader(l[i - 1].msg, hs[i].key, hs[i].value)
  <2>1. i - 1 \in Nat /\ i - 1 \in 0 .. N /\ (i - 1) + 1 = i /\ (i - 1) + 1 <= N
    BY <1>11
  <2>2. Good(i - 1)
    BY <1>12, <2>1
  <2> HIDE DEF Good
  <2> DEFINE n == i - 1
  <2>3. l[n + 1].msg = SetHeader(l[n].msg, hs[n + 1].key, hs[n + 1].value)
    <3>1. n \in Nat /\ n + 1 <= N /\ Good(n)
      BY <2>1, <2>2
    <3> HIDE DEF n
    <3> QED
      BY <1>10, <3>1
  <2> QED
    BY <2>1, <2>3
<1>14. ASSUME NEW i \in 0 .. N
       PROVE  Message(l[i].msg) /\ l[i].msg.state = "HEADER" /\ ~ l[i].end
  <2>1. Good(i)
    BY <1>12
  <2> DEFINE x == l[i].msg
             y == At(i)
  <2>2. l[i] = Parsing(x, y) /\ Message(x) /\ x.state = "HEADER"
    BY <2>1
  <2> HIDE DEF x, y
  <2>3. ~ l[i].end
    BY <2>2 DEF Parsing
  <2> QED
    BY <2>2, <2>3 DEF x
<1>15. \E to \in Stream(T) : l[N + 1] = BlankLine(l[N].msg, to)
  <2> DEFINE x == l[N].msg
             a == At(N)
  <2>1. N \in 0 .. N
    BY <1>11
  <2>2. l[N] = Parsing(x, a) /\ a \in Stream(T) /\ x.state = "HEADER"
    BY <1>12, <2>1
  <2>3. Placed(a.data, a.read, CRLF)
    BY <1>6, <1>8
  <2> HIDE DEF a, x
  <2>4. ReadLine(a, CRLF) = Done(a, <<>>)
    BY <2>2, <2>3, BlankIsRead
  <2> DEFINE r == ReadLine(a, CRLF)
             q == Parsing(x, a)
  <2>5. r.ok /\ r.value = <<>> /\ r.to = a
    BY <2>4 DEF Done
  <2>6. q.msg = x /\ q.to = a /\ ~ q.end
    BY DEF Parsing
  <2> HIDE DEF r, q
  <2>7. HeaderLine(q) = BlankLine(x, a)
    <3>1. ReadLine(q.to, CRLF) = r
      BY <2>6 DEF r
    <3> QED
      BY <2>2, <2>5, <2>6, <3>1 DEF HeaderLine
  <2>8. l[N + 1] = HeaderLine(l[N])
    BY <1>1, <1>11
  <2>9. l[N + 1] = BlankLine(x, a)
    BY <2>2, <2>7, <2>8 DEF q
  <2> QED
    BY <2>2, <2>9 DEF x
<1>16. l[0].msg = msg
  BY <1>1 DEF Parsing
<1> QED
  BY <1>13, <1>14, <1>15, <1>16 DEF N, l, LinesOf

-----------------------------------------------------------------------------
(* The headers as a map.                                                   *)

\* A sequence.
Listed(hs) == \E S : hs \in Seq(S)

\* A list of headers is a sequence.
LEMMA ListedIs ==
  ASSUME NEW hs, Listed(hs)
  PROVE  Len(hs) \in Nat /\ DOMAIN hs = 1 .. Len(hs)
BY LenProperties DEF Listed

\* The last header with a key.
LastOf(hs, key, i) ==
  i \in 1 .. Len(hs) /\ hs[i].key = key /\ \A j \in 1 .. Len(hs) : hs[j].key = key => j <= i

\* A key that is listed is listed a last time.
LEMMA LastIs ==
  ASSUME NEW hs, Listed(hs), NEW k \in 1 .. Len(hs)
  PROVE  \E i : LastOf(hs, hs[k].key, i)
<1> DEFINE n == Len(hs)
           key == hs[k].key
           S == {x \in 0 .. n : x < n /\ hs[n - x].key = key}
<1>1. n \in Nat /\ k \in 1 .. n
  BY ListedIs
<1>2. n - k \in S
  <2> HIDE DEF n
  <2>1. n - k \in 0 .. n /\ n - k < n /\ n - (n - k) = k
    BY <1>1
  <2> QED
    BY <2>1
<1>3. S \in SUBSET Nat /\ S # {}
  BY <1>2
<1>4. PICK x \in S : \A y \in S : x <= y
  BY <1>3, FirstStopIs
<1> DEFINE i == n - x
<1>5. i \in 1 .. n /\ hs[i].key = key
  <2>1. x \in 0 .. n /\ x < n /\ hs[n - x].key = key
    BY <1>4
  <2> HIDE DEF n, key
  <2> QED
    BY <1>1, <2>1
<1>6. ASSUME NEW j \in 1 .. n, hs[j].key = key PROVE j <= i
  <2> DEFINE y == n - j
  <2>1. x \in 0 .. n
    BY <1>4
  <2> HIDE DEF n, key
  <2>2. y \in 0 .. n /\ y < n /\ n - y = j
    BY <1>1
  <2>3. y \in S
    BY <1>6, <2>2
  <2>4. x <= y
    BY <1>4, <2>3
  <2> QED
    BY <1>1, <2>1, <2>4
<1> HIDE DEF i
<1> QED
  BY <1>5, <1>6 DEF LastOf

\* HeaderMap, by the last of each key.
LEMMA MapIs ==
  ASSUME NEW hs, Listed(hs)
  PROVE  /\ HeaderMap(hs) = [key \in DOMAIN HeaderMap(hs) |-> HeaderMap(hs)[key]]
         /\ \A key : key \in DOMAIN HeaderMap(hs) <=> \E i \in 1 .. Len(hs) : hs[i].key = key
         /\ \A key, i : LastOf(hs, key, i) => HeaderMap(hs)[key] = hs[i].value
<1> DEFINE keys == {h.key : h \in Range(hs)}
           LastAt(key) == CHOOSE i \in DOMAIN hs :
                          hs[i].key = key /\ \A j \in DOMAIN hs : hs[j].key = key => j <= i
           n == Len(hs)
<1>1. HeaderMap(hs) = [key \in keys |-> hs[LastAt(key)].value]
  BY DEF HeaderMap
<1>2. n \in Nat /\ DOMAIN hs = 1 .. n
  BY ListedIs
<1>3. \A key : key \in keys <=> \E i \in 1 .. n : hs[i].key = key
  BY <1>2 DEF Range
<1>4. ASSUME NEW key, NEW i, LastOf(hs, key, i) PROVE LastAt(key) = i /\ key \in keys
  <2>1. i \in 1 .. n /\ hs[i].key = key /\ \A j \in 1 .. n : hs[j].key = key => j <= i
    BY <1>4 DEF LastOf
  <2> HIDE DEF n
  <2>2. /\ LastAt(key) \in 1 .. n /\ hs[LastAt(key)].key = key
        /\ \A j \in 1 .. n : hs[j].key = key => j <= LastAt(key)
    BY <1>2, <2>1
  <2> DEFINE x == LastAt(key)
  <2>3. x \in 1 .. n /\ x <= i /\ i <= x
    BY <2>1, <2>2
  <2> HIDE DEF x
  <2>4. x = i
    BY <1>2, <2>1, <2>3
  <2> QED
    BY <1>3, <2>1, <2>4 DEF x
<1> HIDE DEF keys, LastAt
<1> QED
  BY <1>1, <1>3, <1>4

\* A map with one key set.
With(map, k, v) == [key \in DOMAIN map \cup {k} |-> IF key = k THEN v ELSE map[key]]

\* A map that has the last header of each key.
IsMap(map, hs) ==
  /\ map = [key \in DOMAIN map |-> map[key]]
  /\ \A key \in DOMAIN map : \E i : LastOf(hs, key, i) /\ hs[i].value = map[key]
  /\ \A i \in 1 .. Len(hs) : hs[i].key \in DOMAIN map

\* What agrees with the last of each key is the map.
LEMMA MapEquals ==
  ASSUME NEW hs, Listed(hs), NEW map, IsMap(map, hs)
  PROVE  HeaderMap(hs) = map
<1> DEFINE m == HeaderMap(hs)
<1>0. /\ map = [key \in DOMAIN map |-> map[key]]
      /\ \A key \in DOMAIN map : \E i : LastOf(hs, key, i) /\ hs[i].value = map[key]
      /\ \A i \in 1 .. Len(hs) : hs[i].key \in DOMAIN map
  BY DEF IsMap
<1>1. /\ m = [key \in DOMAIN m |-> m[key]]
      /\ \A key : key \in DOMAIN m <=> \E i \in 1 .. Len(hs) : hs[i].key = key
      /\ \A key, i : LastOf(hs, key, i) => m[key] = hs[i].value
  BY MapIs
<1> HIDE DEF m
<1>2. ASSUME NEW key PROVE key \in DOMAIN m <=> key \in DOMAIN map
  <2>1. ASSUME key \in DOMAIN m PROVE key \in DOMAIN map
    BY <1>0, <1>1, <2>1
  <2>2. ASSUME key \in DOMAIN map PROVE key \in DOMAIN m
    <3>1. PICK i : LastOf(hs, key, i)
      BY <1>0, <2>2
    <3>2. i \in 1 .. Len(hs) /\ hs[i].key = key
      BY <3>1 DEF LastOf
    <3> QED
      BY <1>1, <3>2
  <2> QED
    BY <2>1, <2>2
<1>3. DOMAIN m = DOMAIN map
  BY <1>2
<1>4. ASSUME NEW key \in DOMAIN map PROVE m[key] = map[key]
  <2>1. PICK i : LastOf(hs, key, i) /\ hs[i].value = map[key]
    BY <1>0
  <2> QED
    BY <1>1, <2>1
<1>5. m = map
  BY <1>0, <1>1, <1>3, <1>4
<1> QED
  BY <1>5 DEF m

\* One header more is a key that is set.
LEMMA MapAppend ==
  ASSUME NEW hs, Listed(hs), NEW h, NEW hs1, hs1 = Append(hs, h)
  PROVE  Listed(hs1) /\ HeaderMap(hs1) = With(HeaderMap(hs), h.key, h.value)
<1> DEFINE n == Len(hs)
           map == HeaderMap(hs)
           w == With(map, h.key, h.value)
<1>0. PICK S : h \in S /\ hs \in Seq(S)
  <2>1. PICK R : hs \in Seq(R)
    BY DEF Listed
  <2>2. hs \in Seq(R \cup {h})
    BY <2>1
  <2> QED
    BY <2>2
<1>1. n \in Nat /\ DOMAIN hs = 1 .. n
  BY ListedIs
<1>2. /\ Len(hs1) = n + 1 /\ DOMAIN hs1 = 1 .. n + 1 /\ hs1[n + 1] = h
      /\ \A i \in 1 .. n : hs1[i] = hs[i]
  <2>1. Append(hs, h) \in Seq(S)
    BY <1>0, AppendProperties
  <2>2. Len(Append(hs, h)) = n + 1 /\ Append(hs, h)[n + 1] = h
    BY <1>0, AppendProperties
  <2>3. \A i \in 1 .. n : Append(hs, h)[i] = hs[i]
    BY <1>0, AppendProperties
  <2>4. DOMAIN Append(hs, h) = 1 .. Len(Append(hs, h))
    BY <2>1, LenProperties
  <2> HIDE DEF n
  <2> QED
    BY <2>1, <2>2, <2>3, <2>4
<1>3. Listed(hs1)
  <2>1. hs1 \in Seq(S)
    BY <1>0, AppendProperties
  <2> QED
    BY <2>1 DEF Listed
<1>4. /\ \A key : key \in DOMAIN map <=> \E i \in 1 .. n : hs[i].key = key
      /\ \A key, i : LastOf(hs, key, i) => map[key] = hs[i].value
  BY MapIs
<1>5. /\ w = [key \in DOMAIN w |-> w[key]] /\ DOMAIN w = DOMAIN map \cup {h.key} /\ w[h.key] = h.value
      /\ \A key \in DOMAIN map : key # h.key => w[key] = map[key]
  BY DEF With
<1> HIDE DEF map, w
<1>6. ASSUME NEW key \in DOMAIN w PROVE \E i : LastOf(hs1, key, i) /\ hs1[i].value = w[key]
  <2>1. CASE key = h.key
    <3>1. LastOf(hs1, key, n + 1)
      <4> HIDE DEF n
      <4> QED
        BY <1>1, <1>2, <2>1 DEF LastOf
    <3> QED
      BY <1>2, <1>5, <2>1, <3>1
  <2>2. CASE key # h.key
    <3>1. PICK k \in 1 .. n : hs[k].key = key
      BY <1>4, <1>5, <2>2
    <3>2. PICK i : LastOf(hs, key, i)
      BY <3>1, LastIs
    <3>3. i \in 1 .. n /\ hs[i].key = key /\ \A j \in 1 .. n : hs[j].key = key => j <= i
      BY <3>2 DEF LastOf
    <3>4. LastOf(hs1, key, i)
      <4> HIDE DEF n
      <4>1. i \in 1 .. n + 1 /\ hs1[i].key = key
        BY <1>1, <1>2, <3>3
      <4>2. ASSUME NEW j \in 1 .. n + 1, hs1[j].key = key PROVE j <= i
        <5>1. j # n + 1
          BY <1>2, <2>2, <4>2
        <5>2. j \in 1 .. n
          BY <1>1, <5>1
        <5>3. hs[j].key = key
          BY <1>2, <4>2, <5>2
        <5> QED
          BY <3>3, <5>2, <5>3
      <4> QED
        BY <1>2, <4>1, <4>2 DEF LastOf
    <3>5. hs1[i].value = w[key]
      BY <1>2, <1>4, <1>5, <2>2, <3>2, <3>3
    <3> QED
      BY <3>4, <3>5
  <2> QED
    BY <2>1, <2>2
<1>7. \A i \in 1 .. Len(hs1) : hs1[i].key \in DOMAIN w
  <2> SUFFICES ASSUME NEW i \in 1 .. n + 1 PROVE hs1[i].key \in DOMAIN w
    BY <1>2
  <2> HIDE DEF n
  <2>1. CASE i = n + 1
    BY <1>2, <1>5, <2>1
  <2>2. CASE i # n + 1
    <3>1. i \in 1 .. n
      BY <1>1, <2>2
    <3> QED
      BY <1>2, <1>4, <1>5, <3>1
  <2> QED
    BY <2>1, <2>2
<1>8. HeaderMap(hs1) = w
  <2>1. w = [key \in DOMAIN w |-> w[key]]
    BY <1>5
  <2>2. IsMap(w, hs1)
    BY <1>6, <1>7, <2>1 DEF IsMap
  <2> QED
    BY <1>3, <2>2, MapEquals
<1> QED
  BY <1>3, <1>8 DEF w, map

\* Headers of which no two have one key.
Distinct(hs) ==
  /\ Listed(hs)
  /\ \A i \in 1 .. Len(hs) : hs[i] = [key |-> hs[i].key, value |-> hs[i].value]
  /\ \A i, j \in 1 .. Len(hs) : hs[i].key = hs[j].key => i = j

\* Headers of different keys are each the last of theirs.
LEMMA DistinctIs ==
  ASSUME NEW hs, Distinct(hs)
  PROVE  /\ Listed(hs) /\ Len(hs) \in Nat /\ DOMAIN hs = 1 .. Len(hs)
         /\ \A i \in 1 .. Len(hs) : hs[i] = [key |-> hs[i].key, value |-> hs[i].value]
         /\ \A i, j \in 1 .. Len(hs) : hs[i].key = hs[j].key => i = j
         /\ \A i \in 1 .. Len(hs) : LastOf(hs, hs[i].key, i)
<1>1. /\ Listed(hs)
      /\ \A i \in 1 .. Len(hs) : hs[i] = [key |-> hs[i].key, value |-> hs[i].value]
      /\ \A i, j \in 1 .. Len(hs) : hs[i].key = hs[j].key => i = j
  BY DEF Distinct
<1>2. Len(hs) \in Nat /\ DOMAIN hs = 1 .. Len(hs)
  BY <1>1, ListedIs
<1>3. \A i \in 1 .. Len(hs) : LastOf(hs, hs[i].key, i)
  <2> SUFFICES ASSUME NEW i \in 1 .. Len(hs) PROVE LastOf(hs, hs[i].key, i)
    OBVIOUS
  <2>1. \A j \in 1 .. Len(hs) : hs[j].key = hs[i].key => j <= i
    <3> DEFINE n == Len(hs)
    <3>1. \A j \in 1 .. n : hs[j].key = hs[i].key => j = i
      BY <1>1
    <3>2. i \in 1 .. n /\ n \in Nat
      BY <1>2
    <3> HIDE DEF n
    <3>3. i <= i
      BY <3>2
    <3>4. \A j \in 1 .. n : hs[j].key = hs[i].key => j <= i
      BY <3>1, <3>3
    <3> QED
      BY <3>4 DEF n
  <2> QED
    BY <2>1 DEF LastOf
<1> QED
  BY <1>1, <1>2, <1>3

\* Another value for a header that is there.
LEMMA MapReplace ==
  ASSUME NEW hs, Distinct(hs), NEW i \in 1 .. Len(hs), NEW v, NEW hs1,
         hs1 = [hs EXCEPT ![i] = [key |-> hs[i].key, value |-> v]]
  PROVE  Distinct(hs1) /\ HeaderMap(hs1) = With(HeaderMap(hs), hs[i].key, v)
<1> DEFINE n == Len(hs)
           k == hs[i].key
           h == [key |-> k, value |-> v]
           map == HeaderMap(hs)
           w == With(map, k, v)
<1>1. /\ Listed(hs) /\ n \in Nat /\ DOMAIN hs = 1 .. n
      /\ \A a \in 1 .. n : hs[a] = [key |-> hs[a].key, value |-> hs[a].value]
      /\ \A a, b \in 1 .. n : hs[a].key = hs[b].key => a = b
      /\ \A a \in 1 .. n : LastOf(hs, hs[a].key, a)
  BY DistinctIs
<1>2. /\ Listed(hs1) /\ Len(hs1) = n
      /\ hs1[i] = h /\ \A a \in 1 .. n : a # i => hs1[a] = hs[a]
  <2>1. PICK S : hs \in Seq(S)
    BY <1>1 DEF Listed
  <2> DEFINE R == S \cup {h}
  <2>2. hs \in Seq(R) /\ h \in R
    BY <2>1
  <2> HIDE DEF R, h
  <2>3. hs1 = [hs EXCEPT ![i] = h]
    BY DEF h
  <2>4. [hs EXCEPT ![i] = h] \in Seq(R) /\ Len([hs EXCEPT ![i] = h]) = Len(hs)
    BY <2>2, ExceptSeq
  <2>5. hs1[i] = h /\ \A a \in 1 .. n : a # i => hs1[a] = hs[a]
    BY <1>1, <2>3
  <2> QED
    BY <2>3, <2>4, <2>5 DEF Listed
<1>3. h.key = k /\ h.value = v /\ h = [key |-> h.key, value |-> h.value]
  OBVIOUS
<1> HIDE DEF h
<1>4. ASSUME NEW a \in 1 .. n
      PROVE  /\ hs1[a].key = hs[a].key /\ hs1[a] = [key |-> hs1[a].key, value |-> hs1[a].value]
             /\ a # i => hs1[a].value = hs[a].value
  BY <1>1, <1>2, <1>3
<1>5. Distinct(hs1)
  <2>1. \A a, b \in 1 .. Len(hs1) : hs1[a].key = hs1[b].key => a = b
    BY <1>1, <1>2, <1>4
  <2>2. \A a \in 1 .. Len(hs1) : hs1[a] = [key |-> hs1[a].key, value |-> hs1[a].value]
    <3>1. Len(hs1) = n
      BY <1>2
    <3>2. \A a \in 1 .. n : hs1[a] = [key |-> hs1[a].key, value |-> hs1[a].value]
      BY <1>4
    <3> QED
      BY <3>1, <3>2, Zenon
  <2> QED
    BY <1>2, <2>1, <2>2 DEF Distinct
<1>6. \A a \in 1 .. n : LastOf(hs1, hs1[a].key, a)
  BY <1>2, <1>5, DistinctIs
<1>7. /\ \A key : key \in DOMAIN map <=> \E a \in 1 .. n : hs[a].key = key
      /\ \A key, a : LastOf(hs, key, a) => map[key] = hs[a].value
  BY <1>1, MapIs
<1>8. /\ w = [key \in DOMAIN w |-> w[key]] /\ DOMAIN w = DOMAIN map \cup {k} /\ w[k] = v
      /\ \A key \in DOMAIN map : key # k => w[key] = map[key]
  BY DEF With
<1> HIDE DEF map, w, n
<1>9. \A key \in DOMAIN w : \E a : LastOf(hs1, key, a) /\ hs1[a].value = w[key]
  <2> SUFFICES ASSUME NEW key \in DOMAIN w
               PROVE  \E a : LastOf(hs1, key, a) /\ hs1[a].value = w[key]
    OBVIOUS
  <2>0. i \in 1 .. n
    BY DEF n
  <2>1. CASE key = k
    BY <1>2, <1>3, <1>6, <1>8, <2>0, <2>1
  <2>2. CASE key # k
    <3>1. PICK a \in 1 .. n : hs[a].key = key
      BY <1>7, <1>8, <2>2
    <3>2. a # i
      BY <2>2, <3>1
    <3>3. LastOf(hs1, key, a) /\ hs1[a].value = hs[a].value
      <4>1. hs1[a].key = key /\ hs1[a].value = hs[a].value
        BY <1>4, <3>1, <3>2
      <4> QED
        BY <1>6, <3>1, <4>1, Zenon
    <3>4. w[key] = map[key] /\ map[key] = hs[a].value
      BY <1>1, <1>7, <1>8, <2>2, <3>1
    <3> QED
      BY <3>3, <3>4
  <2> QED
    BY <2>1, <2>2
<1>10. \A a \in 1 .. Len(hs1) : hs1[a].key \in DOMAIN w
  BY <1>2, <1>4, <1>7, <1>8
<1>11. IsMap(w, hs1)
  <2>1. w = [key \in DOMAIN w |-> w[key]]
    BY <1>8
  <2> QED
    BY <1>9, <1>10, <2>1 DEF IsMap
<1>12. HeaderMap(hs1) = w
  BY <1>2, <1>11, MapEquals
<1> QED
  BY <1>5, <1>12 DEF w, map

\* SetHeader sets a key of the map, and adds a header when there is none.
LEMMA SetHeaderMap ==
  ASSUME NEW m, Message(m), Distinct(m.headers), NEW key, NEW value,
         NEW n, n = SetHeader(m, key, value)
  PROVE  /\ Distinct(n.headers) /\ HeaderMap(n.headers) = With(HeaderMap(m.headers), key, value)
         /\ n.first = m.first /\ n.second = m.second /\ n.version = m.version
         /\ (\A i \in 1 .. Len(m.headers) : m.headers[i].key # key)
              => n.headers = Append(m.headers, [key |-> key, value |-> value])
<1> DEFINE hs == m.headers
           h == [key |-> key, value |-> value]
           S == Keyed(m, key)
<1>1. /\ Listed(hs) /\ Len(hs) \in Nat /\ DOMAIN hs = 1 .. Len(hs)
      /\ \A i \in 1 .. Len(hs) : hs[i] = [key |-> hs[i].key, value |-> hs[i].value]
      /\ \A i, j \in 1 .. Len(hs) : hs[i].key = hs[j].key => i = j
  BY DistinctIs
<1>2. S = {i \in 1 .. Len(hs) : hs[i].key = key}
  BY <1>1 DEF Keyed
<1>3. m = [kind |-> m.kind, first |-> m.first, second |-> m.second, version |-> m.version,
           headers |-> m.headers, len |-> m.len, body |-> m.body, room |-> m.room, state |-> m.state]
  BY DEF Message
<1>4. ASSUME NEW x
      PROVE  /\ [m EXCEPT !.headers = x].headers = x /\ [m EXCEPT !.headers = x].first = m.first
             /\ [m EXCEPT !.headers = x].second = m.second /\ [m EXCEPT !.headers = x].version = m.version
  BY <1>3
<1> HIDE DEF S
<1>5. CASE S = {}
  <2> DEFINE x == Append(hs, h)
  <2>1. n = [m EXCEPT !.headers = x]
    BY <1>5 DEF SetHeader, S
  <2>2. h.key = key /\ h.value = value
    OBVIOUS
  <2> HIDE DEF x, h
  <2>3. n.headers = x /\ n.first = m.first /\ n.second = m.second /\ n.version = m.version
    BY <1>4, <2>1
  <2>4. Listed(x) /\ HeaderMap(x) = With(HeaderMap(hs), h.key, h.value)
    BY <1>1, MapAppend DEF x
  <2>5. Distinct(x)
    <3> DEFINE k == Len(hs)
    <3>0. PICK R : h \in R /\ hs \in Seq(R)
      <4>1. PICK R : hs \in Seq(R)
        BY <1>1 DEF Listed
      <4>2. hs \in Seq(R \cup {h})
        BY <4>1
      <4> QED
        BY <4>2
    <3>1. Len(x) = k + 1 /\ x[k + 1] = h /\ \A i \in 1 .. k : x[i] = hs[i]
      BY <3>0, AppendProperties DEF x
    <3>2. \A i \in 1 .. k : hs[i].key # key
      BY <1>2, <1>5
    <3> HIDE DEF k
    <3>3. k \in Nat
      BY <1>1 DEF k
    <3>4. \A i \in 1 .. k + 1 : i \in 1 .. k \/ i = k + 1
      BY <3>3
    <3>5. ASSUME NEW i \in 1 .. k + 1, NEW j \in 1 .. k + 1, x[i].key = x[j].key PROVE i = j
      BY <1>1, <2>2, <3>1, <3>2, <3>4, <3>5 DEF k
    <3>6. \A i \in 1 .. k + 1 : x[i] = [key |-> x[i].key, value |-> x[i].value]
      <4>1. h = [key |-> h.key, value |-> h.value]
        BY DEF h
      <4> QED
        BY <1>1, <3>1, <3>4, <4>1 DEF k
    <3> QED
      BY <2>4, <3>1, <3>5, <3>6 DEF Distinct
  <2> QED
    BY <2>2, <2>3, <2>4, <2>5 DEF x, h
<1>6. CASE S # {}
  <2> DEFINE i == FirstStop(S)
             g == hs[i]
             x == [hs EXCEPT ![i] = [key |-> g.key, value |-> value]]
  <2>1. S \in SUBSET Nat
    BY <1>2
  <2>2. i \in S
    BY <1>6, <2>1, FirstStopIs
  <2>3. i \in 1 .. Len(hs) /\ g.key = key /\ g = [key |-> g.key, value |-> g.value]
    BY <1>1, <1>2, <2>2
  <2> HIDE DEF i
  <2>4. [g EXCEPT !.value = value] = [key |-> g.key, value |-> value]
    <3> DEFINE gk == g.key
               gv == g.value
    <3>1. g = [key |-> gk, value |-> gv]
      BY <2>3
    <3> HIDE DEF g, gk, gv
    <3>2. [g EXCEPT !.value = value] = [key |-> gk, value |-> value]
      BY <3>1
    <3> QED
      BY <3>2 DEF gk
  <2>5. n = [m EXCEPT !.headers = x]
    <3>1. n = [m EXCEPT !.headers[i].value = value]
      BY <1>6 DEF SetHeader, S, i
    <3>2. n = [m EXCEPT !.headers = [m.headers EXCEPT ![i] = [m.headers[i] EXCEPT !.value = value]]]
      BY <1>3, <3>1
    <3> QED
      BY <2>4, <3>2
  <2>6. Distinct(x) /\ HeaderMap(x) = With(HeaderMap(hs), key, value)
    BY <2>3, MapReplace
  <2> HIDE DEF x
  <2>7. n.headers = x /\ n.first = m.first /\ n.second = m.second /\ n.version = m.version
    BY <1>4, <2>5
  <2>8. ~ \A j \in 1 .. Len(hs) : hs[j].key # key
    BY <2>3
  <2> QED
    BY <2>6, <2>7, <2>8
<1> QED
  BY <1>5, <1>6

\* GetHeader finds the value of the map.
LEMMA GetHeaderIs ==
  ASSUME NEW m, Distinct(m.headers), NEW key, Keyed(m, key) # {}
  PROVE  key \in DOMAIN HeaderMap(m.headers) /\ GetHeader(m, key) = HeaderMap(m.headers)[key]
<1> DEFINE hs == m.headers
           S == Keyed(m, key)
           i == FirstStop(S)
<1>1. /\ Listed(hs) /\ DOMAIN hs = 1 .. Len(hs)
      /\ \A j \in 1 .. Len(hs) : LastOf(hs, hs[j].key, j)
  BY DistinctIs
<1>2. S = {j \in 1 .. Len(hs) : hs[j].key = key}
  BY <1>1 DEF Keyed
<1>3. S \in SUBSET Nat
  BY <1>2
<1>4. i \in S
  BY <1>3, FirstStopIs
<1>5. GetHeader(m, key) = hs[i].value
  BY DEF GetHeader
<1> HIDE DEF i
<1>6. LastOf(hs, key, i)
  BY <1>1, <1>2, <1>4
<1> QED
  BY <1>1, <1>2, <1>4, <1>5, <1>6, MapIs

-----------------------------------------------------------------------------
(* Words and numbers.                                                      *)

\* Texts without line breaks make one.
LEMMA PlainJoin ==
  ASSUME NEW T, NEW s \in Seq(T), NEW t \in Seq(T), Plain(s), Plain(t)
  PROVE  s \o t \in Seq(T) /\ Plain(s \o t) /\ (s # <<>> => s \o t # <<>>)
<1> DEFINE u == s \o t
           m == Len(s)
           n == Len(t)
           k == Len(u)
<1>1. /\ u \in Seq(T) /\ k = m + n /\ m \in Nat /\ n \in Nat
      /\ \A i \in 1 .. m : u[i] = s[i]
      /\ \A i \in 1 .. n : u[m + i] = t[i]
  BY Appended
<1>2. /\ \A i \in 1 .. m : s[i] # CR /\ s[i] # LF
      /\ \A i \in 1 .. n : t[i] # CR /\ t[i] # LF
  BY DEF Plain
<1>3. ASSUME NEW i \in 1 .. k PROVE u[i] # CR /\ u[i] # LF
  <2> HIDE DEF m, n, u, k
  <2>1. CASE i <= m
    <3>1. i \in 1 .. m
      BY <1>1, <2>1
    <3> QED
      BY <1>1, <1>2, <3>1
  <2>2. CASE ~ (i <= m)
    <3> DEFINE j == i - m
    <3>1. j \in 1 .. n /\ m + j = i
      BY <1>1, <2>2
    <3> HIDE DEF j
    <3> QED
      BY <1>1, <1>2, <3>1
  <2> QED
    BY <2>1, <2>2
<1>4. Plain(u)
  BY <1>3 DEF Plain
<1>5. ASSUME s # <<>> PROVE u # <<>>
  <2>1. m # 0
    BY <1>5, EmptySeq
  <2>2. k # 0
    <3> HIDE DEF m, n, k
    <3> QED
      BY <1>1, <2>1
  <2> QED
    BY <2>2
<1> QED
  BY <1>1, <1>4, <1>5

\* A text that begins with no space is not trimmed.
LEMMA TrimmedIs ==
  ASSUME NEW T, NEW u \in Seq(T), u # <<>>, u[1] # SP
  PROVE  Trimmed(u) = u
<1> DEFINE n == Len(u)
           S == DOMAIN u \ Places(u, SP)
<1>1. n \in Nat /\ n # 0 /\ DOMAIN u = 1 .. n
  BY LenProperties, EmptySeq
<1>2. S = {i \in 1 .. n : u[i] # SP}
  BY <1>1 DEF Places
<1>3. Trimmed(u) = IF S = {} THEN <<>> ELSE SubSeq(u, FirstStop(S), n)
  BY DEF Trimmed
<1> HIDE DEF S
<1>4. 1 \in S /\ S \in SUBSET Nat /\ \A i \in S : 1 <= i
  <2> HIDE DEF n
  <2>1. 1 \in 1 .. n
    BY <1>1
  <2> QED
    BY <1>2, <2>1
<1>5. FirstStop(S) \in S /\ \A j \in S : FirstStop(S) <= j
  BY <1>4, FirstStopIs
<1>6. FirstStop(S) = 1
  <2> DEFINE f == FirstStop(S)
  <2>1. f \in Nat /\ f <= 1 /\ 1 <= f
    BY <1>4, <1>5
  <2> HIDE DEF f
  <2>2. f = 1
    BY <2>1
  <2> QED
    BY <2>2 DEF f
<1>7. SubSeq(u, 1, n) = u
  <2>1. Placed(u, 0, u)
    BY <1>1 DEF Placed
  <2>2. SubSeq(u, 0 + 1, 0 + Len(u)) = u
    BY <2>1, PlacedIs
  <2>3. 0 + 1 = 1 /\ 0 + n = n
    BY <1>1
  <2> QED
    BY <2>2, <2>3
<1> QED
  BY <1>3, <1>4, <1>6, <1>7

\* A word, and one that a space and more follow.
LEMMA WordIs ==
  ASSUME NEW T, NEW s \in Seq(T), s # <<>>, Lacks(s, SP)
  PROVE  /\ SP \in T => Word(s) = s
         /\ \A u, r : Around(T, u, s, SP, r) => Word(u) = s /\ AfterWord(u) = r
<1>1. Len(s) \in Nat /\ 1 \in 1 .. Len(s)
  <2> DEFINE n == Len(s)
  <2>1. n \in Nat /\ n # 0
    BY LenProperties, EmptySeq
  <2> HIDE DEF n
  <2>2. n \in Nat /\ 1 \in 1 .. n
    BY <2>1
  <2> QED
    BY <2>2 DEF n
<1>2. s[1] # SP
  BY <1>1 DEF Lacks
<1>3. ASSUME NEW u, NEW r, Around(T, u, s, SP, r) PROVE Word(u) = s /\ AfterWord(u) = r
  <2>1. Find(u, SP) # 0 /\ Before(u, SP) = s /\ After(u, SP) = r
    BY <1>3, FindIs
  <2>2. u \in Seq(T) /\ u # <<>> /\ u[1] # SP
    <3> DEFINE w == <<SP>> \o r
    <3>1. SP \in T /\ r \in Seq(T) /\ u = s \o <<SP>> \o r
      BY <1>3 DEF Around
    <3>2. <<SP>> \in Seq(T)
      BY <3>1
    <3>3. w \in Seq(T)
      BY <3>1, <3>2, Appended
    <3>4. u = s \o w
      <4>1. (s \o <<SP>>) \o r = s \o (<<SP>> \o r)
        BY <3>1, <3>2, ConcatAssociative
      <4> QED
        BY <3>1, <4>1
    <3> HIDE DEF w
    <3>5. s \o w \in Seq(T) /\ Len(s \o w) = Len(s) + Len(w) /\ \A i \in 1 .. Len(s) : (s \o w)[i] = s[i]
      BY <3>3, Appended
    <3>6. u[1] = s[1]
      BY <1>1, <3>4, <3>5
    <3>7. Len(w) \in Nat
      BY <3>3, LenProperties
    <3>8. Len(u) # 0
      <4> DEFINE a == Len(s)
                 c == Len(w)
      <4>1. Len(u) = a + c /\ a \in Nat /\ 1 \in 1 .. a /\ c \in Nat
        BY <1>1, <3>4, <3>5, <3>7
      <4> HIDE DEF a, c
      <4>2. a + c # 0
        BY <4>1
      <4> QED
        BY <4>1, <4>2
    <3>9. u # <<>>
      BY <3>8
    <3> QED
      BY <1>2, <3>4, <3>5, <3>6, <3>9
  <2>3. Trimmed(u) = u
    BY <2>2, TrimmedIs
  <2> QED
    BY <2>1, <2>3 DEF Word, AfterWord
<1>4. ASSUME SP \in T PROVE Word(s) = s
  <2>1. Trimmed(s) = s
    BY <1>2, TrimmedIs
  <2>2. Around(T, s \o <<SP>> \o <<>>, s, SP, <<>>)
    BY <1>4, EmptySeq DEF Around
  <2>3. Find(s, SP) = 0
    BY <2>2, FindIs
  <2> QED
    BY <2>1, <2>3 DEF Word
<1> QED
  BY <1>3, <1>4

\* A number that is spelled is read as itself.
LEMMA NumberIsRead ==
  ASSUME NEW T, SP \in T, NumbersFit(T), NEW n \in Numbers
  PROVE  /\ NumberIn(Spelled(n)) = n
         /\ Spelled(n) \in Seq(T) /\ Plain(Spelled(n)) /\ Lacks(Spelled(n), SP) /\ Spelled(n) # <<>>
<1> DEFINE t == ToString(n)
           s == <<t>>
<1>1. t \in T /\ t # CR /\ t # LF /\ t # SP
  BY DEF NumbersFit
<1>2. Spelled(n) = s
  BY DEF Spelled
<1>3. \A k \in Numbers : Spelled(k) = <<ToString(k)>>
  BY DEF Spelled
<1>4. \A k \in Numbers : ToString(k) = t => k = n
  BY DEF NumbersFit
<1> HIDE DEF t
<1>5. s \in Seq(T) /\ Len(s) = 1 /\ s[1] = t
  BY <1>1
<1>6. Plain(s) /\ Lacks(s, SP) /\ s # <<>>
  <2>1. \A i \in 1 .. Len(s) : s[i] = t
    BY <1>5
  <2> QED
    BY <1>1, <1>5, <2>1 DEF Plain, Lacks
<1>7. Word(s) = s
  BY <1>5, <1>6, WordIs
<1> DEFINE read == {k \in Numbers : Word(s) # <<>> /\ Spelled(k) = <<Word(s)[1]>>}
<1>8. read = {n}
  <2>1. \A k \in Numbers : Spelled(k) = <<Word(s)[1]>> <=> k = n
    <3> SUFFICES ASSUME NEW k \in Numbers PROVE Spelled(k) = <<Word(s)[1]>> <=> k = n
      OBVIOUS
    <3>1. Word(s)[1] = t
      BY <1>5, <1>7
    <3> DEFINE w == Word(s)[1]
               x == ToString(k)
    <3>2. Spelled(k) = <<x>> /\ w = t
      BY <1>3, <3>1
    <3>3. x = t <=> k = n
      BY <1>4 DEF t
    <3> HIDE DEF w, x
    <3>4. <<x>> = <<w>> => x = w
      <4>1. <<x>>[1] = x /\ <<w>>[1] = w
        OBVIOUS
      <4> QED
        BY <4>1, Zenon
    <3>5. x = w => <<x>> = <<w>>
      OBVIOUS
    <3>6. Spelled(k) = <<w>> <=> k = n
      BY <3>2, <3>3, <3>4, <3>5
    <3> QED
      BY <3>6 DEF w
  <2>2. Word(s) # <<>>
    BY <1>6, <1>7
  <2> QED
    BY <2>1, <2>2
<1>9. NumberIn(s) = IF read = {} THEN 0 ELSE CHOOSE k \in read : TRUE
  BY DEF NumberIn
<1> HIDE DEF read
<1>10. NumberIn(s) = n
  BY <1>8, <1>9
<1> HIDE DEF s
<1> QED
  BY <1>2, <1>5, <1>6, <1>10

-----------------------------------------------------------------------------
(* The words of a start line.                                              *)

\* Joining is associative.
LEMMA Associated ==
  ASSUME NEW T, NEW x, NEW y, NEW z, x \in Seq(T), y \in Seq(T), z \in Seq(T)
  PROVE  x \o (y \o z) = (x \o y) \o z
BY ConcatAssociative

\* Three texts with a text between them.
LEMMA Regrouped ==
  ASSUME NEW T, NEW x \in Seq(T), NEW y \in Seq(T), NEW z \in Seq(T), NEW c \in Seq(T)
  PROVE  x \o c \o (y \o c \o z) = x \o c \o y \o c \o z
<1> DEFINE xc == x \o c
           yc == y \o c
<1>1. xc \in Seq(T) /\ yc \in Seq(T)
  BY ConcatProperties
<1>2. xc \o (y \o c) = (xc \o y) \o c
  <2> HIDE DEF xc
  <2> QED
    BY <1>1, Associated, SMTT(60)
<1>3. xc \o (yc \o z) = (xc \o yc) \o z
  <2> HIDE DEF xc, yc
  <2> QED
    BY <1>1, Associated, SMTT(60)
<1> QED
  BY <1>2, <1>3, Zenon

\* Text, a space, and text.
LEMMA Spaced ==
  ASSUME NEW T, SP \in T, NEW s \in Seq(T), NEW r \in Seq(T)
  PROVE  /\ <<SP>> \o r \in Seq(T) /\ s \o <<SP>> \o r \in Seq(T)
         /\ s \o (<<SP>> \o r) = s \o <<SP>> \o r
         /\ Lacks(s, SP) => Around(T, s \o <<SP>> \o r, s, SP, r)
         /\ Plain(s) /\ Plain(r) => Plain(s \o <<SP>> \o r)
         /\ s # <<>> /\ Plain(s) /\ Plain(r) => s \o <<SP>> \o r # <<>>
<1> DEFINE c == <<SP>>
           w == c \o r
<1>1. c \in Seq(T) /\ Len(c) = 1 /\ c[1] = SP
  OBVIOUS
<1>2. Plain(c)
  <2>1. SP # CR /\ SP # LF
    BY DEF SP, CR, LF
  <2> QED
    BY <1>1, <2>1 DEF Plain
<1> HIDE DEF c
<1>3. w \in Seq(T) /\ s \o w = (s \o c) \o r
  BY <1>1, ConcatProperties, ConcatAssociative
<1>4. s \o w \in Seq(T)
  BY <1>3, ConcatProperties
<1>5. ASSUME Plain(s), Plain(r) PROVE Plain(s \o w) /\ (s # <<>> => s \o w # <<>>)
  <2>1. Plain(w)
    BY <1>1, <1>2, <1>5, PlainJoin
  <2> QED
    BY <1>3, <1>5, <2>1, PlainJoin
<1>6. Lacks(s, SP) => Around(T, s \o <<SP>> \o r, s, SP, r)
  BY DEF Around
<1> QED
  BY <1>3, <1>4, <1>5, <1>6 DEF c

\* The phrases that HttpResponse writes for a code.
LEMMA PhraseIs ==
  ASSUME NEW T, LettersFit(T), NEW code \in {200, 404}
  PROVE  DefaultPhrase(code) \in Seq(T) /\ Plain(DefaultPhrase(code))
<1>1. CASE code = 200
  <2> DEFINE s == <<"OK">>
  <2>1. s \in Seq(T) /\ Len(s) = 1 /\ s[1] = "OK"
    BY DEF LettersFit
  <2>2. Plain(s)
    BY <2>1 DEF Plain, CR, LF
  <2>3. DefaultPhrase(code) = s
    BY <1>1 DEF DefaultPhrase
  <2> QED
    BY <2>1, <2>2, <2>3
<1>2. CASE code = 404
  <2> DEFINE s == <<"Not", SP, "Found">>
  <2>1. s \in Seq(T) /\ Len(s) = 3 /\ s[1] = "Not" /\ s[2] = SP /\ s[3] = "Found"
    BY DEF LettersFit
  <2>2. Plain(s)
    BY <2>1 DEF Plain, CR, LF, SP
  <2>3. DefaultPhrase(code) = s
    BY <1>2 DEF DefaultPhrase
  <2> QED
    BY <2>1, <2>2, <2>3
<1> QED
  BY <1>1, <1>2

\* The start line of a message, set.
LEMMA StartedIs ==
  ASSUME NEW m, Message(m), NEW f, NEW s, NEW v
  PROVE  /\ [m EXCEPT !.first = f, !.second = s, !.version = v] = Started(m, f, s, v, m.room)
         /\ [m EXCEPT !.version = v, !.first = f, !.second = s] = Started(m, f, s, v, m.room)
<1> DEFINE R(x, y, z) == [kind |-> m.kind, first |-> x, second |-> y, version |-> z, headers |-> m.headers,
                          len |-> m.len, body |-> m.body, room |-> m.room, state |-> m.state]
<1>1. m = R(m.first, m.second, m.version)
  BY DEF Message
<1>2. \A x, y, z : /\ [R(x, y, z) EXCEPT !.first = f] = R(f, y, z)
                   /\ [R(x, y, z) EXCEPT !.second = s] = R(x, s, z)
                   /\ [R(x, y, z) EXCEPT !.version = v] = R(x, y, v)
  OBVIOUS
<1>3. R(f, s, v) = Started(m, f, s, v, m.room)
  BY DEF Started
<1> DEFINE a == m.first
           b == m.second
           c == m.version
<1> HIDE DEF R, a, b, c
<1>4. [[[m EXCEPT !.first = f] EXCEPT !.second = s] EXCEPT !.version = v] = R(f, s, v)
  <2>1. [R(a, b, c) EXCEPT !.first = f] = R(f, b, c)
    BY <1>2
  <2>2. [R(f, b, c) EXCEPT !.second = s] = R(f, s, c)
    BY <1>2
  <2>3. [R(f, s, c) EXCEPT !.version = v] = R(f, s, v)
    BY <1>2
  <2>4. m = R(a, b, c)
    BY <1>1 DEF a, b, c
  <2> QED
    BY <2>1, <2>2, <2>3, <2>4, Zenon
<1>5. [[[m EXCEPT !.version = v] EXCEPT !.first = f] EXCEPT !.second = s] = R(f, s, v)
  <2>1. [R(a, b, c) EXCEPT !.version = v] = R(a, b, v)
    BY <1>2
  <2>2. [R(a, b, v) EXCEPT !.first = f] = R(f, b, v)
    BY <1>2
  <2>3. [R(f, b, v) EXCEPT !.second = s] = R(f, s, v)
    BY <1>2
  <2>4. m = R(a, b, c)
    BY <1>1 DEF a, b, c
  <2> QED
    BY <2>1, <2>2, <2>3, <2>4, Zenon
<1>6. [m EXCEPT !.first = f, !.second = s, !.version = v] = [[[m EXCEPT !.first = f] EXCEPT !.second = s] EXCEPT !.version = v]
  BY Zenon
<1>7. [m EXCEPT !.version = v, !.first = f, !.second = s] = [[[m EXCEPT !.version = v] EXCEPT !.first = f] EXCEPT !.second = s]
  BY Zenon
<1> QED
  BY <1>3, <1>4, <1>5, <1>6, <1>7, Zenon

\* The line of a request, and what it is parsed to.
LEMMA RequestLine ==
  ASSUME NEW T, LettersFit(T), NEW m, m.kind = "request", StartFits(T, m),
         NEW m0, Message(m0), m0.kind = "request"
  PROVE  /\ StartLine(m) \in Seq(T) /\ StartLine(m) # <<>> /\ Plain(StartLine(m))
         /\ ParseStartLine(m0, StartLine(m)) = Started(m0, m.first, m.second, m.version, m0.room)
<1> DEFINE f == m.first
           s == m.second
           v == m.version
           rest == s \o <<SP>> \o v
           line == f \o <<SP>> \o rest
<1>1. WordFits(T, f) /\ WordFits(T, s) /\ WordFits(T, v) /\ SP \in T
  BY DEF StartFits, LettersFit
<1>2. StartLine(m) = f \o <<SP>> \o s \o <<SP>> \o v
  BY DEF StartLine
<1> HIDE DEF f, s, v
<1>3. /\ f \in Seq(T) /\ f # <<>> /\ Plain(f) /\ Lacks(f, SP)
      /\ s \in Seq(T) /\ s # <<>> /\ Plain(s) /\ Lacks(s, SP)
      /\ v \in Seq(T) /\ v # <<>> /\ Plain(v) /\ Lacks(v, SP)
  BY <1>1 DEF WordFits
<1>4. rest \in Seq(T) /\ Plain(rest) /\ Around(T, rest, s, SP, v)
  BY <1>1, <1>3, Spaced
<1>5. line = f \o <<SP>> \o s \o <<SP>> \o v
  <2>1. <<SP>> \in Seq(T)
    BY <1>1
  <2> QED
    BY <1>3, <2>1, Regrouped, SMTT(60)
<1> HIDE DEF rest
<1>6. line \in Seq(T) /\ Plain(line) /\ line # <<>> /\ Around(T, line, f, SP, rest)
  BY <1>1, <1>3, <1>4, Spaced
<1>7. Word(line) = f /\ AfterWord(line) = rest
  BY <1>3, <1>6, WordIs
<1>8. Word(rest) = s /\ AfterWord(rest) = v
  BY <1>3, <1>4, WordIs
<1>9. Word(v) = v
  BY <1>1, <1>3, WordIs
<1> HIDE DEF line
<1>10. ParseRequest(m0, line) = [m0 EXCEPT !.first = f, !.second = s, !.version = v]
  BY <1>3, <1>7, <1>8, <1>9 DEF ParseRequest
<1>11. ParseRequest(m0, line) = Started(m0, f, s, v, m0.room)
  BY <1>10, StartedIs
<1>12. ParseStartLine(m0, line) = ParseRequest(m0, line)
  BY <1>6 DEF ParseStartLine
<1> QED
  BY <1>2, <1>5, <1>6, <1>11, <1>12 DEF f, s, v

\* The line of a response, and what it is parsed to.
LEMMA ResponseLine ==
  ASSUME NEW T, LettersFit(T), NumbersFit(T), NEW m, m.kind = "response", StartFits(T, m),
         NEW m0, Message(m0), m0.kind = "response",
         NEW phrase, phrase = IF m.second = <<>> THEN DefaultPhrase(m.first) ELSE m.second
  PROVE  /\ StartLine(m) \in Seq(T) /\ StartLine(m) # <<>> /\ Plain(StartLine(m))
         /\ ParseStartLine(m0, StartLine(m)) = Started(m0, m.first, phrase, m.version, m0.room)
<1> DEFINE f == m.first
           n == Spelled(f)
           v == m.version
           rest == n \o <<SP>> \o phrase
           line == v \o <<SP>> \o rest
<1>1. WordFits(T, v) /\ f \in Numbers /\ SP \in T
  BY DEF StartFits, LettersFit
<1>2. StartLine(m) = v \o <<SP>> \o n \o <<SP>> \o phrase
  BY DEF StartLine
<1>3. phrase \in Seq(T) /\ Plain(phrase)
  <2>1. CASE m.second = <<>>
    <3>1. f \in {200, 404}
      BY <2>1 DEF StartFits
    <3> HIDE DEF f
    <3>2. DefaultPhrase(f) \in Seq(T) /\ Plain(DefaultPhrase(f))
      BY <3>1, PhraseIs
    <3> QED
      BY <2>1, <3>2 DEF f
  <2>2. CASE m.second # <<>>
    BY <2>2 DEF StartFits
  <2> QED
    BY <2>1, <2>2
<1> HIDE DEF f, v
<1>4. /\ NumberIn(n) = f
      /\ n \in Seq(T) /\ n # <<>> /\ Plain(n) /\ Lacks(n, SP)
      /\ v \in Seq(T) /\ v # <<>> /\ Plain(v) /\ Lacks(v, SP)
  BY <1>1, NumberIsRead DEF WordFits
<1> HIDE DEF n
<1>5. rest \in Seq(T) /\ Plain(rest) /\ Around(T, rest, n, SP, phrase)
  BY <1>1, <1>3, <1>4, Spaced
<1>6. line = v \o <<SP>> \o n \o <<SP>> \o phrase
  <2>1. <<SP>> \in Seq(T)
    BY <1>1
  <2>2. \A z \in Seq(T) : v \o <<SP>> \o (n \o <<SP>> \o z) = v \o <<SP>> \o n \o <<SP>> \o z
    BY <1>4, <2>1, Regrouped, SMTT(60)
  <2> QED
    BY <1>3, <2>2, Zenon
<1> HIDE DEF rest
<1>7. line \in Seq(T) /\ Plain(line) /\ line # <<>> /\ Around(T, line, v, SP, rest)
  BY <1>1, <1>4, <1>5, Spaced
<1> HIDE DEF line
<1>8. Find(line, SP) # 0 /\ Before(line, SP) = v /\ After(line, SP) = rest
  BY <1>7, FindIs
<1>9. Find(rest, SP) # 0 /\ Before(rest, SP) = n /\ After(rest, SP) = phrase
  BY <1>5, FindIs
<1>10. ParseResponse(m0, line) = [m0 EXCEPT !.version = v, !.first = f, !.second = phrase]
  BY <1>4, <1>8, <1>9 DEF ParseResponse
<1>11. ParseResponse(m0, line) = Started(m0, f, phrase, v, m0.room)
  BY <1>10, StartedIs, ZenonT(60)
<1>12. ParseStartLine(m0, line) = ParseResponse(m0, line)
  BY <1>7 DEF ParseStartLine
<1> QED
  BY <1>2, <1>6, <1>7, <1>11, <1>12 DEF f, v

-----------------------------------------------------------------------------
(* Reading a head as it was written.                                       *)

\* The phrase of a response that has none is the default one.
SecondOf(m) == IF m.kind = "response" /\ m.second = <<>> THEN DefaultPhrase(m.first) ELSE m.second

\* The start line of a message, and what it is parsed to.
LEMMA StartLineIs ==
  ASSUME NEW T, LettersFit(T), NumbersFit(T), NEW m, m.kind \in {"request", "response"}, StartFits(T, m),
         NEW m0, Message(m0), m0.kind = m.kind
  PROVE  /\ StartLine(m) \in Seq(T) /\ StartLine(m) # <<>> /\ Plain(StartLine(m))
         /\ ParseStartLine(m0, StartLine(m)) = Started(m0, m.first, SecondOf(m), m.version, m0.room)
<1>1. CASE m.kind = "request"
  <2>1. SecondOf(m) = m.second
    BY <1>1 DEF SecondOf
  <2> QED
    BY <1>1, <2>1, RequestLine
<1>2. CASE m.kind = "response"
  <2>1. SecondOf(m) = IF m.second = <<>> THEN DefaultPhrase(m.first) ELSE m.second
    BY <1>2 DEF SecondOf
  <2> QED
    BY <1>2, <2>1, ResponseLine
<1> QED
  BY <1>1, <1>2

\* What is read of the headers hs after n lines.
Collected(m, m0, hs, n) ==
  /\ Distinct(m.headers) /\ HeaderMap(m.headers) = HeaderMap(SubSeq(hs, 1, n))
  /\ m.first = m0.first /\ m.second = m0.second /\ m.version = m0.version
  /\ DistinctKeys(hs) => m.headers = SubSeq(hs, 1, n)

\* No headers are distinct.
LEMMA NoHeaders == Distinct(<<>>)
<1>1. <<>> \in Seq(Nat) /\ Len(<<>>) = 0
  OBVIOUS
<1> QED
  BY <1>1 DEF Distinct, Listed

\* The message x is m with one more header.
HasSet(m, key, value, x) ==
  /\ Distinct(x.headers) /\ HeaderMap(x.headers) = With(HeaderMap(m.headers), key, value)
  /\ x.first = m.first /\ x.second = m.second /\ x.version = m.version
  /\ (\A i \in 1 .. Len(m.headers) : m.headers[i].key # key)
         => x.headers = Append(m.headers, [key |-> key, value |-> value])

\* SetHeader keeps the keys distinct, and sets one.
LEMMA HeaderSet ==
  ASSUME NEW m, Message(m), Distinct(m.headers), NEW key, NEW value
  PROVE  HasSet(m, key, value, SetHeader(m, key, value))
<1> DEFINE x == SetHeader(m, key, value)
<1>1. x = SetHeader(m, key, value)
  OBVIOUS
<1> HIDE DEF x
<1>2. HasSet(m, key, value, x)
  BY <1>1, SetHeaderMap DEF HasSet
<1> QED
  BY <1>2 DEF x

\* One more header read.
LEMMA HeaderCollected ==
  ASSUME NEW T, NEW hs \in Seq([key : Seq(T), value : Seq(T)]), NEW n \in Nat, n + 1 <= Len(hs),
         NEW m0, NEW m, Message(m), Collected(m, m0, hs, n),
         NEW m1, m1 = SetHeader(m, hs[n + 1].key, hs[n + 1].value)
  PROVE  Collected(m1, m0, hs, n + 1)
<1> DEFINE S == [key : Seq(T), value : Seq(T)]
           h == hs[n + 1]
           key == h.key
           value == h.value
           N == Len(hs)
           a == SubSeq(hs, 1, n)
           a1 == SubSeq(hs, 1, n + 1)
<1>1. N \in Nat /\ n + 1 \in 1 .. N
  BY LenProperties
<1>2. h \in S
  BY <1>1, ElementOfSeq
<1>3. h = [key |-> key, value |-> value]
  BY <1>2
<1>4. a \in Seq(S) /\ Len(a) = n /\ \A i \in 1 .. n : a[i] = hs[i]
  <2>1. hs \in Seq(S)
    OBVIOUS
  <2> HIDE DEF S
  <2> QED
    BY <1>1, <2>1, SubSeqProperties
<1>5. a1 = Append(a, h)
  <2>1. hs \in Seq(S)
    OBVIOUS
  <2> HIDE DEF S
  <2> QED
    BY <1>1, <2>1, SubSeqProperties
<1>6. Listed(a)
  BY <1>4 DEF Listed
<1> HIDE DEF a, a1, h, S
<1>7. HeaderMap(a1) = With(HeaderMap(a), key, value)
  BY <1>5, <1>6, MapAppend
<1>8. Distinct(m.headers) /\ HeaderMap(m.headers) = HeaderMap(a)
  BY DEF Collected, a
<1> HIDE DEF key, value
<1>9. m1 = SetHeader(m, key, value)
  BY DEF key, value, h
<1>10. /\ Distinct(m1.headers) /\ HeaderMap(m1.headers) = With(HeaderMap(m.headers), key, value)
       /\ m1.first = m.first /\ m1.second = m.second /\ m1.version = m.version
       /\ (\A i \in 1 .. Len(m.headers) : m.headers[i].key # key)
              => m1.headers = Append(m.headers, [key |-> key, value |-> value])
  <2>1. HasSet(m, key, value, SetHeader(m, key, value))
    BY <1>8, HeaderSet
  <2> QED
    BY <1>9, <2>1 DEF HasSet
<1>11. ASSUME DistinctKeys(hs) PROVE m1.headers = a1
  <2>1. m.headers = a
    BY <1>11 DEF Collected, a
  <2>2. \A i \in 1 .. Len(a) : a[i].key # key
    <3> SUFFICES ASSUME NEW i \in 1 .. n, a[i].key = key PROVE FALSE
      BY <1>4
    <3>1. i \in 1 .. N /\ i # n + 1
      BY <1>1
    <3>2. hs[i].key = hs[n + 1].key
      BY <1>4 DEF key, h
    <3> QED
      BY <1>1, <1>11, <3>1, <3>2 DEF DistinctKeys
  <2> QED
    BY <1>3, <1>5, <1>10, <2>1, <2>2
<1>12. HeaderMap(m1.headers) = HeaderMap(a1)
  BY <1>7, <1>8, <1>10
<1>13. m1.first = m0.first /\ m1.second = m0.second /\ m1.version = m0.version
  BY <1>10 DEF Collected
<1> QED
  BY <1>10, <1>11, <1>12, <1>13 DEF Collected, a1

\* The messages that the lines of the header make, one after the other.
LEMMA HeadersCollected ==
  ASSUME NEW T, NEW hs \in Seq([key : Seq(T), value : Seq(T)]), NEW f,
         f[0].headers = <<>>,
         \A i \in 1 .. Len(hs) : f[i] = SetHeader(f[i - 1], hs[i].key, hs[i].value),
         \A i \in 0 .. Len(hs) : Message(f[i])
  PROVE  \A n \in 0 .. Len(hs) : Collected(f[n], f[0], hs, n)
<1> DEFINE N == Len(hs)
           Good(n) == Collected(f[n], f[0], hs, n)
           Has == {n \in Nat : n <= N => Good(n)}
<1>1. N \in Nat
  BY LenProperties
<1> HIDE DEF N
<1>2. Good(0)
  <2>1. SubSeq(hs, 1, 0) = <<>>
    OBVIOUS
  <2> QED
    BY <2>1, NoHeaders DEF Collected
<1>3. ASSUME NEW n \in Has PROVE n + 1 \in Has
  <2> SUFFICES ASSUME n + 1 <= N PROVE Good(n + 1)
    OBVIOUS
  <2>1. n \in Nat /\ Good(n) /\ n + 1 \in 1 .. N /\ n \in 0 .. N /\ (n + 1) - 1 = n
    BY <1>1
  <2>2. f[n + 1] = SetHeader(f[n], hs[n + 1].key, hs[n + 1].value)
    BY <2>1 DEF N
  <2>3. Message(f[n]) /\ n + 1 <= Len(hs)
    BY <2>1 DEF N
  <2> QED
    BY <2>1, <2>2, <2>3, HeaderCollected
<1>4. 0 \in Has /\ Has \subseteq Nat
  BY <1>2
<1>5. \A n \in Nat : n \in Has
  <2> HIDE DEF Has
  <2> QED
    BY <1>3, <1>4, Induction
<1>6. \A n \in 0 .. N : n \in Nat /\ n <= N
  BY <1>1
<1> HIDE DEF Good
<1>7. \A n \in 0 .. N : Good(n)
  BY <1>5, <1>6
<1> QED
  BY <1>7 DEF Good, N

\* The text of the headers.
LEMMA HeadersTextIs ==
  ASSUME NEW T, LettersFit(T), NEW m, MessageFits(T, m)
  PROVE  HeadersText(m.headers) \in Seq(T)
<1> DEFINE hs == m.headers
           N == Len(hs)
           ss == [i \in DOMAIN hs |-> HeaderText(hs[i])]
<1>1. N \in Nat /\ DOMAIN hs = 1 .. N
  <2>1. hs \in Seq([key : Seq(T), value : Seq(T)])
    BY DEF MessageFits
  <2> QED
    BY <2>1, LenProperties
<1>2. \A i \in 1 .. N : HeaderText(hs[i]) \in Seq(T)
  <2> SUFFICES ASSUME NEW i \in 1 .. N PROVE HeaderText(hs[i]) \in Seq(T)
    OBVIOUS
  <2> DEFINE h == hs[i]
  <2>1. HeaderFits(T, h) /\ Colon \in T /\ CR \in T /\ LF \in T
    BY DEF MessageFits, LettersFit
  <2> HIDE DEF h
  <2> QED
    BY <2>1, HeaderTextIs DEF h
<1> HIDE DEF hs
<1>3. ss \in Seq(Seq(T))
  BY <1>1, <1>2
<1>4. HeadersText(m.headers) = FlattenSeq(ss)
  BY DEF HeadersText, hs
<1> HIDE DEF ss
<1>5. \E f : (\A i \in 0 .. Len(ss) : f[i] \in Seq(T)) /\ FlattenSeq(ss) = f[Len(ss)]
  BY <1>3, FlatFrom
<1>6. Len(ss) \in 0 .. Len(ss)
  BY <1>3, LenProperties
<1> QED
  BY <1>4, <1>5, <1>6

\* A start line is a text of one line.
LEMMA StartLineFits ==
  ASSUME NEW T, LettersFit(T), NumbersFit(T), NEW m, MessageFits(T, m)
  PROVE  StartLine(m) \in Seq(T) /\ StartLine(m) # <<>> /\ Plain(StartLine(m))
<1> DEFINE m0 == [kind |-> m.kind, first |-> 0, second |-> 0, version |-> 0, headers |-> <<>>,
                  len |-> 0, body |-> 0, room |-> 0, state |-> "READY"]
<1>1. m.kind \in {"request", "response"} /\ StartFits(T, m)
  BY DEF MessageFits
<1>2. Message(m0) /\ m0.kind = m.kind
  BY <1>1 DEF Message
<1> HIDE DEF m0
<1> QED
  BY <1>1, <1>2, StartLineIs

\* The text of a message: its start line, its header with the blank line, its body.
LEMMA MessagePacked ==
  ASSUME NEW T, LettersFit(T), NumbersFit(T), NEW m, MessageFits(T, m)
  PROVE  /\ Packed(m) \in Seq(T)
         /\ \E rest \in Seq(T) : Packed(m) = (StartLine(m) \o CRLF) \o ((HeadersText(m.headers) \o CRLF) \o rest)
<1> DEFINE start == StartLine(m) \o CRLF
           text == HeadersText(m.headers)
           head == text \o CRLF
<1>1. CRLF \in Seq(T)
  BY DEF LettersFit, CRLF
<1>2. start \in Seq(T)
  BY <1>1, StartLineFits, ConcatProperties
<1>3. text \in Seq(T)
  BY HeadersTextIs
<1>4. head \in Seq(T)
  <2> HIDE DEF text
  <2> QED
    BY <1>1, <1>3, ConcatProperties
<1> DEFINE blank == Write(Write(Write(EmptyStream, start), text), CRLF)
<1>5. blank.data = start \o head /\ Write(blank, m.body).data = start \o head \o m.body
  <2>1. blank.data = (start \o text) \o CRLF
    <3> HIDE DEF start, text
    <3>1. <<>> \o start = start
      BY <1>2, ConcatEmptySeq
    <3> QED
      BY <3>1 DEF Write, EmptyStream
  <2>2. Write(blank, m.body).data = blank.data \o m.body
    <3> HIDE DEF start, text
    <3> QED
      BY DEF Write, EmptyStream
  <2>3. start \o (text \o CRLF) = (start \o text) \o CRLF
    <3> HIDE DEF start, text
    <3> QED
      BY <1>1, <1>2, <1>3, Associated
  <2> HIDE DEF blank, start, text
  <2> QED
    BY <2>1, <2>2, <2>3
<1>6. ToBuffer(m, EmptyStream) = IF m.len > 0 /\ m.room > 0 THEN Write(blank, m.body) ELSE blank
  BY DEF ToBuffer, WriteDelimited, HeadersText
<1> HIDE DEF blank, start, head
<1> DEFINE filled == m.len > 0 /\ m.room > 0
<1>7. \E body \in Seq(T) : Packed(m) = start \o (head \o body)
  <2>1. CASE filled
    <3> DEFINE body == m.body
    <3>1. Packed(m) = start \o head \o body
      BY <1>5, <1>6, <2>1 DEF Packed
    <3>2. body \in Seq(T)
      BY <2>1 DEF MessageFits
    <3> HIDE DEF body
    <3>3. start \o (head \o body) = (start \o head) \o body
      BY <1>2, <1>4, <3>2, Associated
    <3> QED
      BY <3>1, <3>2, <3>3
  <2>2. CASE ~ filled
    <3>1. Packed(m) = start \o head
      BY <1>5, <1>6, <2>2 DEF Packed
    <3>2. head \o <<>> = head /\ <<>> \in Seq(T)
      BY <1>4, ConcatEmptySeq
    <3> QED
      BY <3>1, <3>2
  <2> HIDE DEF filled
  <2> QED
    BY <2>1, <2>2
<1>8. PICK body \in Seq(T) : Packed(m) = start \o (head \o body)
  BY <1>7
<1>9. Packed(m) \in Seq(T)
  <2>1. head \o body \in Seq(T)
    BY <1>4, <1>8, ConcatProperties
  <2> QED
    BY <1>2, <1>8, <2>1, ConcatProperties
<1>10. \E rest \in Seq(T) : Packed(m) = (StartLine(m) \o CRLF) \o ((HeadersText(m.headers) \o CRLF) \o rest)
  BY <1>7 DEF start, head
<1> QED
  BY <1>9, <1>10

\* What r has of the head of the message m: the start line and a first part of
\* the headers, and past the blank line all of them and the length they say.
HeadRead(r, m) ==
  \E n \in 0 .. Len(m.headers) :
    /\ Collected(r, [first |-> m.first, second |-> SecondOf(m), version |-> m.version], m.headers, n)
    /\ r.state \in {"BODY", "DONE"} =>
         /\ n = Len(m.headers) /\ ContentLength \in DOMAIN HeaderMap(m.headers)
         /\ r.len = NumberIn(HeaderMap(m.headers)[ContentLength])

\* The blank line: the program ends, or the header is complete.
LEMMA BlankRead ==
  ASSUME NEW m, Message(m), Distinct(m.headers), NEW to, NEW z, z = BlankLine(m, to)
  PROVE  /\ HeaderLine(z) = z
         /\ z.msg.first = m.first /\ z.msg.second = m.second /\ z.msg.version = m.version
         /\ z.msg.headers = m.headers
         /\ z.msg.state \in {"BODY", "DONE"} =>
              \/ z.msg = m
              \/ /\ ContentLength \in DOMAIN HeaderMap(m.headers)
                 /\ z.msg.len = NumberIn(HeaderMap(m.headers)[ContentLength])
<1>1. CASE Keyed(m, ContentLength) = {}
  <2>1. z = Ends(m, to)
    BY <1>1 DEF BlankLine
  <2>2. z.msg = m /\ z.end = TRUE
    BY <2>1 DEF Ends, Parsing
  <2>3. HeaderLine(z) = z
    BY <2>2 DEF HeaderLine
  <2> QED
    BY <2>2, <2>3
<1>2. CASE Keyed(m, ContentLength) # {}
  <2> DEFINE n == NumberIn(GetHeader(m, ContentLength))
             st == IF n > 0 THEN "BODY" ELSE "DONE"
             x == [[m EXCEPT !.len = n] EXCEPT !.state = st]
  <2>1. z = Parsing([m EXCEPT !.len = n, !.state = st], to)
    BY <1>2 DEF BlankLine
  <2>2. [m EXCEPT !.len = n, !.state = st] = x
    BY Zenon
  <2>3. ContentLength \in DOMAIN HeaderMap(m.headers) /\ n = NumberIn(HeaderMap(m.headers)[ContentLength])
    <3> DEFINE key == ContentLength
    <3>1. Keyed(m, key) # {}
      BY <1>2
    <3> HIDE DEF key
    <3>2. key \in DOMAIN HeaderMap(m.headers) /\ GetHeader(m, key) = HeaderMap(m.headers)[key]
      BY <3>1, GetHeaderIs
    <3> QED
      BY <3>2 DEF key
  <2>4. st \in {"BODY", "DONE"}
    OBVIOUS
  <2> HIDE DEF n, st
  <2>5. /\ x.first = m.first /\ x.second = m.second /\ x.version = m.version /\ x.headers = m.headers
        /\ x.len = n /\ x.state = st
    BY DEF Message
  <2> HIDE DEF x
  <2>6. z.msg = x
    BY <2>1, <2>2 DEF Parsing
  <2>7. HeaderLine(z) = z
    BY <2>4, <2>5, <2>6 DEF HeaderLine
  <2> QED
    BY <2>3, <2>4, <2>5, <2>6, <2>7
<1> QED
  BY <1>1, <1>2

\* After any number of lines, a first part of the header is read.
LEMMA LinesRead ==
  ASSUME NEW T, LettersFit(T), NEW m, MessageFits(T, m),
         NEW r, Message(r), r.state = "HEADER", r.headers = <<>>,
         r.first = m.first, r.second = SecondOf(m), r.version = m.version,
         NEW b \in Stream(T), Placed(b.data, b.read, HeadersText(m.headers) \o CRLF),
         NEW p, p = Parsing(r, b), NEW j \in Nat
  PROVE  HeadRead(HeaderLines(p)[j].msg, m)
<1> DEFINE hs == m.headers
           N == Len(hs)
           f == [i \in Nat |-> HeaderLines(p)[i].msg]
           m0 == [first |-> m.first, second |-> SecondOf(m), version |-> m.version]
<1>1. hs \in Seq([key : Seq(T), value : Seq(T)]) /\ \A i \in 1 .. Len(hs) : HeaderFits(T, hs[i])
  BY DEF MessageFits
<1>2. N \in Nat /\ DOMAIN hs = 1 .. N
  BY <1>1, LenProperties
<1>3. /\ HeaderLines(p)[0].msg = r
      /\ \A i \in 1 .. N :
           HeaderLines(p)[i].msg = SetHeader(HeaderLines(p)[i - 1].msg, hs[i].key, hs[i].value)
      /\ \A i \in 0 .. N : Message(HeaderLines(p)[i].msg) /\ HeaderLines(p)[i].msg.state = "HEADER"
      /\ \E to \in Stream(T) : HeaderLines(p)[N + 1] = BlankLine(HeaderLines(p)[N].msg, to)
  <2> DEFINE text == HeadersText(m.headers)
  <2>1. text = HeadersText(hs)
    OBVIOUS
  <2>2. Colon \in T /\ CR \in T /\ LF \in T
    BY DEF LettersFit
  <2>3. Placed(b.data, b.read, text \o CRLF)
    OBVIOUS
  <2> HIDE DEF hs, text
  <2>4. Len(hs) \in Nat /\ DOMAIN hs = 1 .. Len(hs) /\ \A i \in 1 .. Len(hs) : HeaderFits(T, hs[i])
    BY <1>1, <1>2
  <2>5. LinesOf(T, hs, r, HeaderLines(p))
    BY <2>1, <2>2, <2>3, <2>4, HeadersAreRead
  <2> QED
    BY <2>5 DEF LinesOf
<1> HIDE DEF hs
<1>4. /\ f[0] = r
      /\ \A i \in 1 .. N : f[i] = SetHeader(f[i - 1], hs[i].key, hs[i].value)
      /\ \A i \in 0 .. N : Message(f[i]) /\ f[i].state = "HEADER" /\ f[i] = HeaderLines(p)[i].msg
  <2>1. \A i \in 1 .. N : i - 1 \in Nat /\ i \in Nat
    BY <1>2
  <2>2. \A i \in 0 .. N : i \in Nat
    BY <1>2
  <2> QED
    BY <1>3, <2>1, <2>2
<1> HIDE DEF f
<1>5. \A n \in 0 .. N : Collected(f[n], f[0], hs, n)
  BY <1>1, <1>4, HeadersCollected
<1>6. \A n \in 0 .. N : Collected(f[n], m0, hs, n)
  <2>1. m0.first = r.first /\ m0.second = r.second /\ m0.version = r.version
    OBVIOUS
  <2> HIDE DEF m0
  <2> QED
    BY <1>4, <1>5, <2>1 DEF Collected
<1>7. CASE j <= N
  <2>1. j \in 0 .. N
    BY <1>2, <1>7
  <2>2. HeaderLines(p)[j].msg = f[j] /\ f[j].state = "HEADER"
    BY <1>4, <2>1
  <2> QED
    BY <1>6, <2>1, <2>2 DEF HeadRead, hs
<1>8. CASE j > N
  <2> DEFINE g == f[N]
             z == HeaderLines(p)[N + 1]
  <2>1. N \in 0 .. N
    BY <1>2
  <2>2. Collected(g, m0, hs, N) /\ Message(g) /\ g.state = "HEADER"
    BY <1>4, <1>6, <2>1
  <2>3. PICK to \in Stream(T) : z = BlankLine(g, to)
    BY <1>3, <1>4, <2>1
  <2> HIDE DEF g, z
  <2>4. Distinct(g.headers)
    BY <2>2 DEF Collected
  <2>5. /\ HeaderLine(z) = z
        /\ z.msg.first = g.first /\ z.msg.second = g.second /\ z.msg.version = g.version
        /\ z.msg.headers = g.headers
        /\ z.msg.state \in {"BODY", "DONE"} =>
             \/ z.msg = g
             \/ /\ ContentLength \in DOMAIN HeaderMap(g.headers)
                /\ z.msg.len = NumberIn(HeaderMap(g.headers)[ContentLength])
    BY <2>2, <2>3, <2>4, BlankRead
  <2>6. HeaderLines(p)[j] = z
    <3> DEFINE k == j - (N + 1)
    <3>1. k \in Nat /\ N + 1 \in Nat /\ (N + 1) + k = j
      BY <1>2, <1>8
    <3> HIDE DEF k
    <3>2. HeaderLines(p)[(N + 1) + k] = HeaderLines(z)[k]
      BY <3>1, LinesAfter DEF z
    <3>3. HeaderLines(z)[k] = z
      BY <2>5, <3>1, LinesStay
    <3> QED
      BY <3>1, <3>2, <3>3
  <2>7. HeaderMap(g.headers) = HeaderMap(hs)
    <3>1. SubSeq(hs, 1, Len(hs)) = hs
      BY <1>1, SubSeqFull DEF hs
    <3> QED
      BY <2>2, <3>1 DEF Collected
  <2>8. Collected(z.msg, m0, hs, N)
    BY <2>2, <2>5 DEF Collected
  <2>9. z.msg.state \in {"BODY", "DONE"} =>
          ContentLength \in DOMAIN HeaderMap(hs) /\ z.msg.len = NumberIn(HeaderMap(hs)[ContentLength])
    BY <2>2, <2>5, <2>7
  <2> QED
    BY <2>1, <2>6, <2>8, <2>9 DEF HeadRead, hs
<1> QED
  BY <1>2, <1>7, <1>8

\* Parsing of the message m has come to its header.
AtHeader(T, m, p) ==
  /\ Message(p.msg) /\ p.msg.state = "HEADER" /\ p.msg.headers = <<>>
  /\ p.msg.first = m.first /\ p.msg.second = SecondOf(m) /\ p.msg.version = m.version
  /\ p.to \in Stream(T) /\ p = Parsing(p.msg, p.to)
  /\ Placed(p.to.data, p.to.read, HeadersText(m.headers) \o CRLF)

\* The start line, when it has come.
LEMMA StartRead ==
  ASSUME NEW T, LettersFit(T), NumbersFit(T), NEW m, MessageFits(T, m),
         NEW m0, Message(m0), m0.state = "READY", m0.kind = m.kind, m0.headers = <<>>,
         NEW b \in Stream(T), b.read = 0, Placed(b.data, 0, Packed(m)),
         NEW p, p = ReadStartLine(m0, b)
  PROVE  AtHeader(T, m, p)
<1> DEFINE line == StartLine(m)
           start == line \o CRLF
           text == HeadersText(m.headers)
           head == text \o CRLF
<1>1. line \in Seq(T) /\ line # <<>> /\ Plain(line)
  BY StartLineFits
<1>2. CR \in T /\ LF \in T /\ CRLF \in Seq(T) /\ Len(CRLF) = 2
  BY DEF LettersFit, CRLF
<1>3. text \in Seq(T)
  BY HeadersTextIs
<1>4. PICK rest \in Seq(T) : Packed(m) = start \o (head \o rest)
  BY MessagePacked
<1> HIDE DEF text, line
<1>5. start \in Seq(T) /\ head \in Seq(T) /\ Len(start) = Len(line) + 2
  <2>1. start \in Seq(T) /\ Len(start) = Len(line) + Len(CRLF)
    BY <1>1, <1>2, Appended
  <2>2. head \in Seq(T)
    BY <1>2, <1>3, Appended
  <2> QED
    BY <1>2, <2>1, <2>2
<1>6. /\ b.data \in Seq(T) /\ b.read \in Nat
  BY StreamIs
<1> HIDE DEF start, head
<1>7. Placed(b.data, 0, start) /\ Placed(b.data, 0 + Len(start), head)
  <2>1. head \o rest \in Seq(T)
    BY <1>5, ConcatProperties
  <2> DEFINE t == head \o rest
  <2>2. t \in Seq(T) /\ Placed(b.data, 0, start \o t)
    BY <1>4, <2>1
  <2>3. t = head \o rest
    OBVIOUS
  <2> HIDE DEF t
  <2>4. Placed(b.data, 0, start) /\ Placed(b.data, 0 + Len(start), t)
    BY <1>5, <1>6, <2>2, PlacedParts
  <2>5. Len(start) \in Nat
    BY <1>5, LenProperties
  <2> DEFINE k == 0 + Len(start)
  <2>6. k \in Nat
    BY <2>5
  <2>7. Placed(b.data, k, head \o rest)
    BY <2>3, <2>4
  <2> HIDE DEF k
  <2>8. Placed(b.data, k, head)
    BY <1>5, <1>6, <2>6, <2>7, PlacedParts
  <2> QED
    BY <2>4, <2>8 DEF k
<1> DEFINE n == Len(line) + 2
           to == Advanced(b, n)
<1>8. ReadLine(b, CRLF) = Done(to, line) /\ to \in Stream(T)
  <2>1. Placed(b.data, b.read, line \o CRLF)
    BY <1>7 DEF start
  <2> QED
    BY <1>1, <1>2, <2>1, LineIsRead
<1>9. Placed(to.data, to.read, head)
  BY <1>5, <1>7 DEF Advanced
<1> HIDE DEF to
<1> DEFINE s == Started(m0, m.first, SecondOf(m), m.version, m0.room)
           x == [s EXCEPT !.state = "HEADER"]
<1>10. ParseStartLine(m0, line) = s
  <2>1. m.kind \in {"request", "response"} /\ StartFits(T, m)
    BY DEF MessageFits
  <2> QED
    BY <2>1, StartLineIs DEF line
<1>11. /\ Message(x) /\ x.state = "HEADER" /\ x.headers = <<>>
       /\ x.first = m.first /\ x.second = SecondOf(m) /\ x.version = m.version
  <2> DEFINE f == m.first
             g == SecondOf(m)
             v == m.version
             y == [kind |-> m0.kind, first |-> f, second |-> g, version |-> v, headers |-> m0.headers,
                   len |-> m0.len, body |-> m0.body, room |-> m0.room, state |-> "HEADER"]
  <2> HIDE DEF f, g, v
  <2>1. x = y
    BY DEF Started, f, g, v
  <2>2. /\ Message(y) /\ y.state = "HEADER" /\ y.headers = <<>>
        /\ y.first = f /\ y.second = g /\ y.version = v
    BY DEF Message
  <2> HIDE DEF x, y
  <2> QED
    BY <2>1, <2>2 DEF f, g, v
<1> HIDE DEF s
<1>12. p = Parsing(x, to)
  <2> DEFINE r == ReadLine(b, CRLF)
  <2>1. r.ok = TRUE /\ r.value = line /\ r.to = to
    BY <1>8 DEF Done
  <2> HIDE DEF r
  <2>2. ReadStartLine(m0, b) = Parsing([ParseStartLine(m0, r.value) EXCEPT !.state = "HEADER"], r.to)
    BY <2>1 DEF ReadStartLine, r
  <2> QED
    BY <1>10, <2>1, <2>2
<1> HIDE DEF x
<1>13. p.msg = x /\ p.to = to
  BY <1>12 DEF Parsing
<1> QED
  BY <1>8, <1>9, <1>11, <1>12, <1>13 DEF head, text, AtHeader

\* What y has in common with x, a message before its body.
SameHead(x, y) ==
  /\ y.first = x.first /\ y.second = x.second /\ y.version = x.version
  /\ y.headers = x.headers /\ y.len = x.len
  /\ y.state \in {"BODY", "DONE"} => x.state \in {"BODY", "DONE"}

\* The body and the end of the message do not change its head.
LEMMA RestRead ==
  ASSUME NEW T, NEW p, Place(T, p)
  PROVE  SameHead(p.msg, Completed(BodyRead(p)).msg)
<1> DEFINE m == p.msg
           c == BodyRead(p)
<1>1. Message(m)
  BY DEF Place
<1>2. Completed(c).msg = c.msg
  <2> HIDE DEF c
  <2>1. CASE c.msg.state = "DONE" /\ ~ c.end
    <3>1. Completed(c) = [c EXCEPT !.to = Flushed(@)]
      BY <2>1 DEF Completed
    <3>2. c = [msg |-> c.msg, to |-> c.to, end |-> c.end]
      <4>1. CASE p.msg.state = "BODY" /\ ~ p.end
        BY <4>1 DEF c, BodyRead, ReadBody, Parsing
      <4>2. CASE ~ (p.msg.state = "BODY" /\ ~ p.end)
        <5>1. c = p
          BY <4>2 DEF c, BodyRead
        <5> QED
          BY <5>1 DEF Place
      <4> QED
        BY <4>1, <4>2
    <3> DEFINE x == c.msg
               y == c.to
               z == c.end
    <3>3. c = [msg |-> x, to |-> y, end |-> z]
      BY <3>2
    <3> HIDE DEF x, y, z
    <3>4. Completed(c).msg = x
      BY <3>1, <3>3
    <3> QED
      BY <3>4 DEF x
  <2>2. CASE ~ (c.msg.state = "DONE" /\ ~ c.end)
    BY <2>2 DEF Completed
  <2> QED
    BY <2>1, <2>2
<1>3. CASE m.state = "BODY" /\ ~ p.end
  <2> DEFINE r == ReadBytes(p.to, m.len)
             k == IF m.room = 0 THEN m.len ELSE m.room
             a == [m EXCEPT !.room = k]
             d == [[a EXCEPT !.body = r.value] EXCEPT !.state = "DONE"]
  <2>1. c = IF r.ok THEN Parsing(d, r.to) ELSE Parsing(a, r.to)
    <3>1. [m EXCEPT !.room = IF @ = 0 THEN m.len ELSE @] = a
      OBVIOUS
    <3>2. [a EXCEPT !.body = r.value, !.state = "DONE"] = d
      BY Zenon
    <3>3. c = ReadBody(m, p.to)
      BY <1>3 DEF BodyRead
    <3> HIDE DEF r, a, d
    <3> QED
      BY <3>1, <3>2, <3>3 DEF ReadBody, r
  <2> HIDE DEF k
  <2>2. /\ a.first = m.first /\ a.second = m.second /\ a.version = m.version
        /\ a.headers = m.headers /\ a.len = m.len /\ a.state = m.state
    BY <1>1 DEF Message
  <2>3. /\ d.first = m.first /\ d.second = m.second /\ d.version = m.version
        /\ d.headers = m.headers /\ d.len = m.len /\ d.state = "DONE"
    <3> DEFINE v == r.value
    <3> HIDE DEF v
    <3>1. d = [[a EXCEPT !.body = v] EXCEPT !.state = "DONE"]
      BY DEF v
    <3> HIDE DEF d
    <3> QED
      BY <1>1, <3>1 DEF Message
  <2> HIDE DEF r, a, d
  <2>4. c.msg = a \/ c.msg = d
    BY <2>1 DEF Parsing
  <2>5. SameHead(m, a)
    BY <2>2 DEF SameHead
  <2>6. SameHead(m, d)
    BY <1>3, <2>3 DEF SameHead
  <2> HIDE DEF c
  <2>7. SameHead(m, c.msg)
    BY <2>4, <2>5, <2>6
  <2> QED
    BY <1>2, <2>7 DEF c
<1>4. CASE ~ (m.state = "BODY" /\ ~ p.end)
  <2>1. c = p
    BY <1>4 DEF BodyRead
  <2>2. SameHead(m, m)
    BY DEF SameHead
  <2> HIDE DEF c
  <2>3. SameHead(m, c.msg)
    BY <2>1, <2>2
  <2> QED
    BY <1>2, <2>3 DEF c
<1> QED
  BY <1>3, <1>4

\* Messages with the same head have read the same of it.
LEMMA HeadReadAs ==
  ASSUME NEW m, NEW r, HeadRead(r, m), NEW x, SameHead(r, x)
  PROVE  HeadRead(x, m)
BY DEF HeadRead, Collected, SameHead

\* Room for the body is not part of the head.
LEMMA RoomKeepsHead ==
  ASSUME NEW r, Message(r), NEW k \in Nat
  PROVE  SameHead(WithRoom(r, k), r) /\ SameHead(r, WithRoom(r, k))
<1> DEFINE x == WithRoom(r, k)
<1>1. x = [kind |-> r.kind, first |-> r.first, second |-> r.second, version |-> r.version,
           headers |-> r.headers, len |-> r.len, body |-> r.body, room |-> k, state |-> r.state]
  BY WithRoomIs
<1>2. /\ x.first = r.first /\ x.second = r.second /\ x.version = r.version
      /\ x.headers = r.headers /\ x.len = r.len /\ x.state = r.state
  <2> HIDE DEF x
  <2> QED
    BY <1>1
<1> HIDE DEF x
<1>3. SameHead(x, r) /\ SameHead(r, x)
  BY <1>2 DEF SameHead
<1> QED
  BY <1>3 DEF x

\* A message of which a first part has come: nothing of it is read, or a first
\* part of its head, as it was sent.
LEMMA HeadParsed ==
  ASSUME NEW T, LettersFit(T), NumbersFit(T), NEW m, MessageFits(T, m),
         NEW m0, Message(m0), m0.state = "READY", m0.kind = m.kind, m0.headers = <<>>,
         NEW c \in Stream(T), c.read = 0, Tidy(c.data), NEW e \in Seq(T),
         Placed(c.data \o e, 0, Packed(m)),
         NEW r, r = FromBuffer(m0, c).msg
  PROVE  r.state = "READY" \/ HeadRead(r, m)
<1> DEFINE s == ReadStartLine(m0, c)
           b == Write(c, e)
           k == m0.room
           p == Longer(s, e, k)
<1>1. /\ Place(T, s) /\ Kept(Parsing(m0, c), s) /\ ~ s.end
      /\ \/ s = Parsing(m0, c)
         \/ /\ s.msg.state = "HEADER"
            /\ \A e1 \in Seq(T), k1 \in Nat :
                 ReadStartLine(WithRoom(m0, k1), Write(c, e1)) = Longer(s, e1, k1)
  BY StartExtends
<1>2. k \in Nat /\ WithRoom(m0, k) = m0
  <2>1. k \in Nat
    BY DEF Message
  <2> QED
    BY <2>1, WithRoomIs
<1>3. StartLineRead(Parsing(m0, c)) = s
  BY PartsAre
<1> HIDE DEF s
<1>4. CASE s = Parsing(m0, c)
  <2>1. s.msg = m0 /\ s.to = c /\ s.msg.state = "READY"
    BY <1>4 DEF Parsing
  <2>2. HeaderRead(s) = s
    BY <2>1 DEF HeaderRead
  <2>3. BodyRead(s) = s
    BY <2>1 DEF BodyRead
  <2>4. Completed(s) = s
    BY <2>1 DEF Completed
  <2>5. FromBuffer(m0, c) = s
    BY <1>3, <2>2, <2>3, <2>4 DEF FromBuffer
  <2> QED
    BY <2>1, <2>5
<1>5. CASE s.msg.state = "HEADER" /\ s # Parsing(m0, c)
  <2>1. p = ReadStartLine(m0, b)
    BY <1>1, <1>2, <1>5
  <2>2. b \in Stream(T) /\ b.read = 0 /\ b.data = c.data \o e
    BY WriteIs
  <2>3. Placed(b.data, 0, Packed(m))
    BY <2>2
  <2>4. Place(T, p) /\ p.msg = WithRoom(s.msg, k)
    BY <1>1, <1>2, LongerIs
  <2> HIDE DEF b, p
  <2>5. AtHeader(T, m, p)
    BY <2>1, <2>2, <2>3, StartRead
  <2>6. \A j \in Nat : HeadRead(HeaderLines(p)[j].msg, m)
    <3> DEFINE x == p.msg
               d == p.to
    <3>1. /\ Message(x) /\ x.state = "HEADER" /\ x.headers = <<>>
          /\ x.first = m.first /\ x.second = SecondOf(m) /\ x.version = m.version
          /\ d \in Stream(T) /\ p = Parsing(x, d)
          /\ Placed(d.data, d.read, HeadersText(m.headers) \o CRLF)
      BY <2>5 DEF AtHeader
    <3> HIDE DEF x, d
    <3> QED
      BY <3>1, LinesRead
  <2> DEFINE n == Readable(s.to)
             h == HeaderLines(s)[n]
  <2>7. n \in Nat /\ Tidy(s.to.data)
    <3>1. s.to \in Stream(T)
      BY <1>1 DEF Place
    <3>2. s.to.data = c.data
      BY <1>1 DEF Kept, Parsing
    <3> QED
      BY <3>1, <3>2, StreamIs
  <2>8. HeaderRead(s) = h
    <3>1. Parsing(s.msg, s.to) = s
      BY <1>1, PlaceIs
    <3> QED
      BY <1>5, <3>1 DEF HeaderRead, ReadHeader
  <2> HIDE DEF n
  <2>9. Place(T, h)
    BY <1>1, <2>7, LinesKeep
  <2>10. PICK j \in Nat : HeaderLines(p)[j] = Longer(h, e, k)
    <3> HIDE DEF k
    <3>1. \A i \in Nat : \E j \in Nat : HeaderLines(Longer(s, e, k))[j] = Longer(HeaderLines(s)[i], e, k)
      BY <1>1, <1>2, <2>7, LinesLonger
    <3> QED
      BY <2>7, <3>1 DEF p
  <2> HIDE DEF h
  <2>11. HeaderLines(p)[j].msg = WithRoom(h.msg, k) /\ Message(h.msg)
    BY <1>2, <2>9, <2>10, LongerIs DEF Place
  <2>12. HeadRead(h.msg, m)
    <3>1. HeadRead(WithRoom(h.msg, k), m)
      BY <2>6, <2>11
    <3> HIDE DEF k
    <3>2. SameHead(WithRoom(h.msg, k), h.msg)
      BY <1>2, <2>11, RoomKeepsHead
    <3> QED
      BY <3>1, <3>2, HeadReadAs
  <2>13. r = Completed(BodyRead(h)).msg
    BY <1>3, <2>8 DEF FromBuffer
  <2>14. SameHead(h.msg, r)
    BY <2>9, <2>13, RestRead
  <2> QED
    BY <2>12, <2>14, HeadReadAs
<1> QED
  BY <1>1, <1>4, <1>5

-----------------------------------------------------------------------------
(* The first request is the one that was sent.                             *)

\* As long as nothing is answered, what has arrived and what has not is the
\* first request and more, and the buffer is where parsing it has come to.
FirstComes ==
  /\ request.kind = "request"
  /\ sent = <<>> => request.state = "READY" /\ buffer.data = <<>> /\ wire = <<>>
  /\ sent # <<>> => Placed(buffer.data \o wire, 0, Packed(sent[1]))

FirstArrives(T) ==
  /\ ServerInv(T) /\ sent \in Seq(Requests) /\ answers \in Nat
  /\ answers = 0 /\ server = "up" => FirstComes
  /\ answers = 0 /\ server # "up" => sent # <<>> /\ (request.state = "READY" \/ HeadRead(request, sent[1]))

\* What is read of a request's head is what HeadIsSent says.
LEMMA HeadReadIsSent ==
  ASSUME NEW T, RequestsFit(T), NEW m \in Requests, NEW r, HeadRead(r, m)
  PROVE  /\ r.first = m.first /\ r.second = m.second /\ r.version = m.version
         /\ \E n \in 0 .. Len(m.headers) :
              /\ HeaderMap(r.headers) = HeaderMap(SubSeq(m.headers, 1, n))
              /\ r.state = "BODY" => n = Len(m.headers) /\ r.len = m.len
<1>1. m.kind = "request" /\ LengthTold(m)
  BY DEF RequestsFit
<1>2. SecondOf(m) = m.second
  BY <1>1 DEF SecondOf
<1> DEFINE m0 == [first |-> m.first, second |-> SecondOf(m), version |-> m.version]
<1>3. PICK n \in 0 .. Len(m.headers) :
        /\ Collected(r, m0, m.headers, n)
        /\ r.state \in {"BODY", "DONE"} =>
             /\ n = Len(m.headers) /\ ContentLength \in DOMAIN HeaderMap(m.headers)
             /\ r.len = NumberIn(HeaderMap(m.headers)[ContentLength])
  BY DEF HeadRead
<1>4. /\ r.first = m.first /\ r.second = m.second /\ r.version = m.version
      /\ HeaderMap(r.headers) = HeaderMap(SubSeq(m.headers, 1, n))
  <2>1. m0.first = m.first /\ m0.second = m.second /\ m0.version = m.version
    BY <1>2
  <2> HIDE DEF m0
  <2> QED
    BY <1>3, <2>1 DEF Collected
<1>5. r.state = "BODY" => n = Len(m.headers) /\ r.len = m.len
  BY <1>1, <1>3 DEF LengthTold
<1> QED
  BY <1>3, <1>4, <1>5

\* The text of the first request, before and after a piece of it comes.
LEMMA PieceMoves ==
  ASSUME NEW T, NEW s \in Seq(T), NEW w \in Seq(T), NEW n \in 1 .. Len(w)
  PROVE  s \o w = s \o SubSeq(w, 1, n) \o SubSeq(w, n + 1, Len(w))
<1> DEFINE a == SubSeq(w, 1, n)
           c == SubSeq(w, n + 1, Len(w))
<1>1. Len(w) \in Nat /\ n \in Nat /\ n <= Len(w)
  BY LenProperties
<1>2. a \in Seq(T) /\ c \in Seq(T) /\ w = a \o c
  <2>1. a \in Seq(T) /\ Len(a) = n /\ \A i \in 1 .. n : a[i] = w[i]
    BY <1>1, SubSeqProperties
  <2>2. c \in Seq(T) /\ Len(c) = Len(w) - n /\ \A i \in 1 .. Len(w) - n : c[i] = w[n + i]
    BY <1>1, SubSeqProperties
  <2> DEFINE u == a \o c
             k == Len(w)
  <2> HIDE DEF a, c, k
  <2>3. u \in Seq(T) /\ Len(u) = Len(a) + Len(c)
        /\ (\A i \in 1 .. Len(a) : u[i] = a[i]) /\ (\A i \in 1 .. Len(c) : u[Len(a) + i] = c[i])
    <3>1. a \in Seq(T) /\ c \in Seq(T)
      BY <2>1, <2>2
    <3> QED
      BY <3>1, Appended
  <2> HIDE DEF u
  <2>4. Len(u) = Len(w)
    BY <1>1, <2>1, <2>2, <2>3 DEF k
  <2>5. \A i \in 1 .. Len(w) : u[i] = w[i]
    <3> SUFFICES ASSUME NEW i \in 1 .. Len(w) PROVE u[i] = w[i]
      OBVIOUS
    <3>1. CASE i <= n
      BY <1>1, <2>1, <2>3, <3>1
    <3>2. CASE i > n
      <4> DEFINE j == i - n
      <4>1. j \in 1 .. Len(w) - n /\ i = n + j
        BY <1>1, <3>2
      <4> HIDE DEF j
      <4> QED
        BY <2>1, <2>2, <2>3, <4>1
    <3> QED
      BY <1>1, <3>1, <3>2
  <2>6. u = w
    BY <2>3, <2>4, <2>5, SeqEqual
  <2> QED
    BY <2>1, <2>2, <2>6 DEF u
<1> HIDE DEF a, c
<1>3. s \o (a \o c) = (s \o a) \o c
  BY <1>2, Associated
<1> QED
  BY <1>2, <1>3 DEF a, c

\* A piece of the first request is parsed.
LEMMA FirstPiece ==
  ASSUME NEW T, ~ CutsCRLF, RequestsFit(T), WholeLines(T), ParsedSoFar, FirstComes,
         sent \in Seq(Requests), NEW n \in Pieces(wire),
         NEW p, p = FromBuffer(request, Write(buffer, SubSeq(wire, 1, n)))
  PROVE  /\ sent # <<>> /\ sent[1] \in Requests
         /\ p.msg.state = "READY" \/ HeadRead(p.msg, sent[1])
         /\ ~ p.end /\ p.msg.state # "DONE" =>
              /\ p.msg.kind = "request"
              /\ p.to.data = buffer.data \o SubSeq(wire, 1, n)
<1> DEFINE e == SubSeq(wire, 1, n)
           rest == SubSeq(wire, n + 1, Len(wire))
           m == sent[1]
           m0 == Reset(request)
           b == [data |-> buffer.data, read |-> 0, base |-> buffer.base]
           c == Write(b, e)
<1>1. /\ wire \in Seq(T) /\ Whole(wire) /\ buffer \in Stream(T) /\ Message(request)
      /\ Len(wire) \in Nat /\ n \in 1 .. Len(wire) /\ buffer.data \in Seq(T)
  BY LenProperties, StreamIs DEF WholeLines, ParsedSoFar, Pieces
<1>2. e \in Seq(T) /\ Whole(e) /\ rest \in Seq(T)
  BY <1>1, PieceIs
<1>3. sent # <<>> /\ m \in Requests
  <2>1. sent # <<>>
    BY <1>1 DEF FirstComes
  <2> QED
    BY <2>1, ElementOfSeq, EmptySeq, LenProperties
<1>4. MessageFits(T, m) /\ m.kind = "request" /\ LettersFit(T) /\ NumbersFit(T)
  BY <1>3 DEF RequestsFit
<1>5. Message(m0) /\ m0.state = "READY" /\ m0.kind = m.kind /\ m0.headers = <<>>
  BY <1>1, <1>4, ResetIs DEF FirstComes
<1>6. /\ c \in Stream(T) /\ c.data = buffer.data \o e /\ c.read = 0 /\ Tidy(c.data)
      /\ FromBuffer(request, Write(buffer, e)) = FromBuffer(m0, c)
  <2> HIDE DEF e
  <2> QED
    BY <1>2, PieceFromStart
<1>7. Placed(c.data \o rest, 0, Packed(m))
  <2>1. Placed(buffer.data \o wire, 0, Packed(m))
    BY <1>3 DEF FirstComes
  <2>2. buffer.data \o wire = buffer.data \o e \o rest
    BY <1>1, PieceMoves
  <2> QED
    BY <1>6, <2>1, <2>2
<1> HIDE DEF c, m0, m, e, rest
<1>8. p = FromBuffer(m0, c)
  BY <1>6 DEF e
<1>9. p.msg.state = "READY" \/ HeadRead(p.msg, m)
  <2> DEFINE r == p.msg
  <2>1. r = FromBuffer(m0, c).msg
    BY <1>8
  <2> HIDE DEF r
  <2>2. r.state = "READY" \/ HeadRead(r, m)
    BY <1>2, <1>4, <1>5, <1>6, <1>7, <2>1, HeadParsed
  <2> QED
    BY <2>2 DEF r
<1>10. ASSUME ~ p.end, p.msg.state # "DONE"
       PROVE  p.msg.kind = "request" /\ p.to.data = buffer.data \o e
  <2>1. ~ FromBuffer(m0, c).end /\ FromBuffer(m0, c).msg.state # "DONE"
    BY <1>8, <1>10
  <2> DEFINE q == FromBuffer(m0, c)
  <2>2. Message(m0) /\ m0.state = "READY" /\ c \in Stream(T) /\ Tidy(c.data)
    BY <1>5, <1>6
  <2>3. /\ Place(T, q)
        /\ q.to.data = c.data /\ q.to.base = c.base
        /\ q.msg.kind = m0.kind /\ q.msg.body = m0.body /\ (q.msg.room = 0 => m0.room = 0)
    BY <2>1, <2>2, ParsingGoesOn
  <2> HIDE DEF q
  <2> QED
    BY <1>4, <1>5, <1>6, <1>8, <2>3 DEF q
<1> QED
  BY <1>3, <1>9, <1>10 DEF m, e

\* Nothing has been sent.
LEMMA FirstInit ==
  ASSUME NEW T, HttpInit
  PROVE  FirstArrives(T)
<1>1. ServerInv(T)
  BY ServerInit
<1>2. sent = <<>> /\ sent \in Seq(Requests) /\ answers = 0 /\ server = "up"
  BY DEF HttpInit
<1>3. request.kind = "request" /\ request.state = "READY"
  BY DEF HttpInit, HttpRequest
<1>4. buffer.data = <<>> /\ wire = <<>>
  BY DEF HttpInit, EmptyStream
<1> QED
  BY <1>1, <1>2, <1>3, <1>4 DEF FirstArrives, FirstComes

\* Each step keeps FirstArrives.
LEMMA FirstStep ==
  ASSUME NEW T, ~ CutsCRLF, RequestsFit(T), FirstArrives(T), [HttpNext]_httpVars
  PROVE  FirstArrives(T)'
<1>1. ServerInv(T)'
  <2>1. \A m \in Requests : Packed(m) \in Seq(T) /\ Whole(Packed(m))
    BY MessagePacked DEF RequestsFit, MessageFits
  <2> QED
    BY <2>1, ServerStep DEF FirstArrives
<1>2. sent \in Seq(Requests) /\ answers \in Nat /\ wire \in Seq(T)
  BY DEF FirstArrives, ServerInv
<1>3. ASSUME NEW m \in Requests, SendRequest(m) PROVE FirstArrives(T)'
  <2>1. /\ sent' = Append(sent, m) /\ wire' = wire \o Packed(m)
        /\ request' = request /\ buffer' = buffer /\ server' = server /\ answers' = answers
    BY <1>3 DEF SendRequest
  <2>2. sent' \in Seq(Requests) /\ sent' # <<>> /\ (sent = <<>> => sent'[1] = m) /\ (sent # <<>> => sent'[1] = sent[1])
    BY <1>2, <2>1, SMTT(60)
  <2>3. ASSUME answers = 0, server = "up" PROVE FirstComes'
    <3>1. FirstComes /\ buffer.data \in Seq(T)
      BY <2>3, StreamIs DEF FirstArrives, ServerInv, WholeLines
    <3> DEFINE t == Packed(m)
               s == buffer.data
    <3>2. t \in Seq(T) /\ s \in Seq(T)
      BY <3>1, MessagePacked DEF RequestsFit
    <3>3. CASE sent = <<>>
      <4>1. s = <<>> /\ wire = <<>>
        BY <3>1, <3>3 DEF FirstComes
      <4> HIDE DEF s, t
      <4>2. s \o (wire \o t) = t
        BY <3>2, <4>1, ConcatEmptySeq
      <4>3. Placed(t, 0, t)
        BY <3>2, LenProperties DEF Placed
      <4>4. buffer'.data \o wire' = t
        BY <2>1, <4>2 DEF s, t
      <4> QED
        BY <2>1, <2>2, <3>1, <3>3, <4>3, <4>4 DEF FirstComes, t
    <3>4. CASE sent # <<>>
      <4> DEFINE u == s \o wire
                 v == Packed(sent[1])
      <4>1. Placed(u, 0, v)
        BY <3>1, <3>4 DEF FirstComes
      <4> HIDE DEF s, t
      <4>2. s \o (wire \o t) = u \o t /\ u \in Seq(T)
        BY <1>2, <3>2, Associated, ConcatProperties
      <4>3. buffer'.data \o wire' = u \o t
        BY <2>1, <4>2 DEF s, t
      <4>4. sent[1] \in Requests
        BY <1>2, <3>4, ElementOfSeq, EmptySeq, LenProperties
      <4>5. v \in Seq(T)
        BY <4>4, MessagePacked DEF RequestsFit
      <4> HIDE DEF u, v
      <4>6. Placed(u \o t, 0, v)
        BY <3>2, <4>1, <4>2, <4>5, PlacedLonger
      <4> QED
        BY <2>1, <2>2, <3>1, <3>4, <4>3, <4>6 DEF FirstComes, v
    <3> QED
      BY <3>3, <3>4
  <2>4. ASSUME answers = 0, server # "up"
        PROVE  sent' # <<>> /\ (request'.state = "READY" \/ HeadRead(request', sent'[1]))
    BY <2>1, <2>2, <2>4 DEF FirstArrives
  <2> QED
    BY <1>1, <1>2, <2>1, <2>2, <2>3, <2>4 DEF FirstArrives
<1>4. ASSUME NEW n \in Pieces(wire), OnReceived(n) PROVE FirstArrives(T)'
  <2> DEFINE e == SubSeq(wire, 1, n)
             rest == SubSeq(wire, n + 1, Len(wire))
             p == FromBuffer(request, Write(buffer, e))
             done == p.msg.state = "DONE" /\ ~ p.end
  <2>1. /\ server = "up" /\ wire' = rest /\ buffer' = p.to
        /\ request' = IF done THEN Reset(p.msg) ELSE p.msg
        /\ server' = IF p.end THEN "ended" ELSE "up"
        /\ answers' = IF done THEN answers + 1 ELSE answers
        /\ sent' = sent
    BY <1>4, Zenon DEF OnReceived
  <2>2. answers' \in Nat /\ sent' \in Seq(Requests)
    BY <1>2, <2>1
  <2>3. ASSUME answers' = 0
        PROVE  /\ server' = "up" => FirstComes'
               /\ server' # "up" => sent' # <<>> /\ (request'.state = "READY" \/ HeadRead(request', sent'[1]))
    <3>1. answers = 0 /\ ~ done
      BY <1>2, <2>1, <2>3
    <3>2. WholeLines(T) /\ ParsedSoFar /\ FirstComes
      BY <2>1, <3>1 DEF FirstArrives, ServerInv
    <3>3. /\ sent # <<>> /\ sent[1] \in Requests
          /\ p.msg.state = "READY" \/ HeadRead(p.msg, sent[1])
          /\ ~ p.end /\ p.msg.state # "DONE" =>
               /\ p.msg.kind = "request"
               /\ p.to.data = buffer.data \o e
      <4>1. p = FromBuffer(request, Write(buffer, SubSeq(wire, 1, n)))
        OBVIOUS
      <4> HIDE DEF p
      <4> QED
        BY <1>2, <3>2, <4>1, FirstPiece
    <3> HIDE DEF p
    <3>4. request' = p.msg
      BY <2>1, <3>1
    <3>5. ASSUME server' = "up" PROVE FirstComes'
      <4>1. ~ p.end /\ p.msg.state # "DONE"
        BY <2>1, <3>1, <3>5
      <4>2. n \in 1 .. Len(wire) /\ buffer.data \in Seq(T)
        BY <3>2, StreamIs DEF Pieces, WholeLines
      <4>3. buffer.data \o wire = buffer.data \o e \o rest
        BY <1>2, <4>2, PieceMoves
      <4> HIDE DEF e, rest
      <4>4. buffer'.data \o wire' = buffer.data \o wire
        BY <2>1, <3>3, <4>1, <4>3
      <4>5. Placed(buffer.data \o wire, 0, Packed(sent[1]))
        BY <3>2, <3>3 DEF FirstComes
      <4> QED
        BY <2>1, <3>3, <3>4, <4>1, <4>4, <4>5 DEF FirstComes
    <3> QED
      BY <2>1, <3>3, <3>4, <3>5
  <2> QED
    BY <1>1, <2>2, <2>3 DEF FirstArrives
<1>5. ASSUME UNCHANGED <<sent, wire, request, buffer, server, answers>> PROVE FirstArrives(T)'
  <2>1. /\ sent' = sent /\ wire' = wire /\ request' = request /\ buffer' = buffer
        /\ server' = server /\ answers' = answers
    BY <1>5
  <2> QED
    BY <1>1, <2>1 DEF FirstArrives, FirstComes
<1>6. ASSUME NEW n \in Pieces(back), ClientReceive(n) PROVE FirstArrives(T)'
  BY <1>5, <1>6, Zenon DEF ClientReceive
<1>7. CASE UNCHANGED httpVars
  BY <1>5, <1>7 DEF httpVars
<1> QED
  BY <1>3, <1>4, <1>6, <1>7 DEF HttpNext

\* What has been parsed of the first request is its head, as it was sent.
LEMMA FirstIsSent ==
  ASSUME NEW T, RequestsFit(T), FirstArrives(T)
  PROVE  HeadIsSent
<1> SUFFICES ASSUME answers = 0, request.state # "READY"
             PROVE  sent # <<>> /\ HeadRead(request, sent[1])
  <2> SUFFICES ASSUME sent # <<>>, HeadRead(request, sent[1]) PROVE HeadIsSent
    BY DEF HeadIsSent
  <2> DEFINE m == sent[1]
  <2>1. m \in Requests
    BY ElementOfSeq, EmptySeq, LenProperties DEF FirstArrives
  <2>2. HeadRead(request, m)
    OBVIOUS
  <2> HIDE DEF m
  <2>3. /\ request.first = m.first /\ request.second = m.second /\ request.version = m.version
        /\ \E n \in 0 .. Len(m.headers) :
             /\ HeaderMap(request.headers) = HeaderMap(SubSeq(m.headers, 1, n))
             /\ request.state = "BODY" => n = Len(m.headers) /\ request.len = m.len
    BY <2>1, <2>2, HeadReadIsSent
  <2> QED
    BY <2>3 DEF m, HeadIsSent
<1>1. CASE server # "up"
  BY <1>1 DEF FirstArrives
<1>2. CASE server = "up"
  <2>1. ServerInv(T) /\ FirstComes /\ sent \in Seq(Requests)
    BY <1>2 DEF FirstArrives
  <2>2. WholeLines(T) /\ ParsedSoFar
    BY <1>2, <2>1 DEF ServerInv
  <2>3. sent # <<>> /\ sent[1] \in Requests
    <3>1. sent # <<>>
      BY <2>1 DEF FirstComes
    <3> QED
      BY <2>1, <3>1, ElementOfSeq, EmptySeq, LenProperties
  <2> DEFINE m == sent[1]
             m0 == Reset(request)
             c == [data |-> buffer.data, read |-> 0, base |-> buffer.base]
  <2>4. MessageFits(T, m) /\ m.kind = "request" /\ LettersFit(T) /\ NumbersFit(T)
    BY <2>3 DEF RequestsFit
  <2>5. Message(m0) /\ m0.state = "READY" /\ m0.kind = m.kind /\ m0.headers = <<>>
    BY <2>1, <2>2, <2>4, ResetIs DEF FirstComes, ParsedSoFar
  <2>6. /\ c \in Stream(T) /\ c.data = buffer.data /\ c.read = 0 /\ [buffer EXCEPT !.read = 0] = c
    <3>1. buffer \in Stream(T)
      BY <2>2 DEF WholeLines
    <3>2. buffer = [data |-> buffer.data, read |-> buffer.read, base |-> buffer.base] /\ buffer.data \in Seq(T)
          /\ buffer.base \in Nat /\ Len(buffer.data) \in Nat
      BY <3>1, StreamIs
    <3> QED
      BY <3>2 DEF Stream
  <2>7. FromBuffer(m0, c) = Parsing(request, buffer)
    BY <2>2, <2>6 DEF ParsedSoFar
  <2>8. Placed(c.data \o wire, 0, Packed(m))
    BY <2>1, <2>3, <2>6 DEF FirstComes
  <2>9. wire \in Seq(T) /\ Tidy(c.data)
    BY <2>2, <2>6 DEF WholeLines
  <2> HIDE DEF m, m0, c
  <2> DEFINE r == request
  <2>10. r = FromBuffer(m0, c).msg
    BY <2>7 DEF Parsing
  <2>11. r.state = "READY" \/ HeadRead(r, m)
    <3> HIDE DEF r
    <3> QED
      BY <2>4, <2>5, <2>6, <2>8, <2>9, <2>10, HeadParsed
  <2> QED
    BY <2>3, <2>11 DEF m
<1> QED
  BY <1>1, <1>2

\* Until the first request is answered, what HttpServer has parsed of it is the
\* start line that was sent and a first part of the headers, each key with the
\* last of its values; once the body is awaited, all of them and the length.
\* What HttpMessage::ToBuffer writes, FromBuffer reads, through any pieces that leave
\* CR and LF together; a cut between them breaks it (StreamReader.cpp:196). This holds
\* for requests of any letters T whose words, keys and values can be told apart in
\* the text.
THEOREM HeadIsSentHolds ==
  ASSUME NEW T, ~ CutsCRLF, RequestsFit(T)
  PROVE  HttpSpec => []HeadIsSent
<1>1. HttpInit => FirstArrives(T)
  BY FirstInit
<1>2. FirstArrives(T) /\ [HttpNext]_httpVars => FirstArrives(T)'
  BY FirstStep
<1>3. FirstArrives(T) => HeadIsSent
  BY FirstIsSent
<1> QED
  BY <1>1, <1>2, <1>3, PTL DEF HttpSpec

-----------------------------------------------------------------------------
(* The answer is the one that was given.                                   *)

\* Until the client receives, the first that comes is the answer.
AnswerArrives(T) ==
  /\ ResponseIsSent
  /\ client = "waiting" =>
       /\ clientResponse = HttpResponse(200, <<>>)
       /\ back \in Seq(T) /\ Whole(back)
       /\ back # <<>> => Placed(back, 0, Packed(Answer))

\* Nothing has been answered.
LEMMA AnswerInit ==
  ASSUME NEW T, HttpInit
  PROVE  AnswerArrives(T)
<1>1. client = "waiting" /\ back = <<>> /\ clientResponse = HttpResponse(200, <<>>)
  BY DEF HttpInit
<1>2. <<>> \in Seq(T) /\ DOMAIN <<>> = {}
  BY EmptySeq
<1>3. Whole(back)
  BY <1>1, <1>2 DEF Whole, Tidy
<1> QED
  BY <1>1, <1>2, <1>3 DEF AnswerArrives, ResponseIsSent

\* The client takes what has come of the answer.
LEMMA AnswerTaken ==
  ASSUME NEW T, ~ CutsCRLF, AnswerFits(T), AnswerArrives(T), client = "waiting",
         NEW n \in Pieces(back),
         NEW r, r = FromBuffer(clientResponse, StreamOf(SubSeq(back, 1, n))).msg, r.state = "DONE"
  PROVE  HeadRead(r, Answer)
<1> DEFINE e == SubSeq(back, 1, n)
           rest == SubSeq(back, n + 1, Len(back))
           m == Answer
           m0 == HttpResponse(200, <<>>)
           c == StreamOf(e)
<1>1. back \in Seq(T) /\ Whole(back) /\ clientResponse = m0 /\ Len(back) \in Nat /\ n \in 1 .. Len(back)
  BY LenProperties DEF AnswerArrives, Pieces
<1>2. e \in Seq(T) /\ Whole(e) /\ rest \in Seq(T)
  BY <1>1, PieceIs
<1>3. Placed(back, 0, Packed(m))
  BY <1>1 DEF AnswerArrives
<1>4. c \in Stream(T) /\ c.data = e /\ c.read = 0
  <2> HIDE DEF e
  <2>1. c = [data |-> e, read |-> 0, base |-> 0]
    BY DEF StreamOf, EmptyStream
  <2>2. Len(e) \in Nat
    BY <1>2, LenProperties
  <2> QED
    BY <1>2, <2>1, <2>2 DEF Stream
<1>5. back = e \o rest
  <2>1. <<>> \o back = <<>> \o e \o rest
    BY <1>1, EmptySeq, PieceMoves
  <2>2. <<>> \o back = back /\ <<>> \o e = e
    BY <1>1, <1>2, ConcatEmptySeq
  <2> QED
    BY <2>1, <2>2
<1>6. Message(m0) /\ m0.state = "READY" /\ m0.kind = "response" /\ m0.headers = <<>>
  BY DEF HttpResponse, HttpRequest, Message
<1>7. MessageFits(T, m) /\ m.kind = "response" /\ LettersFit(T) /\ NumbersFit(T)
  BY HttpAssumption DEF AnswerFits, HttpAssumption
<1>8. r = FromBuffer(m0, c).msg
  BY <1>1
<1>9. Tidy(c.data)
  BY <1>2, <1>4 DEF Whole
<1>10. Placed(c.data \o rest, 0, Packed(m))
  BY <1>3, <1>4, <1>5
<1> HIDE DEF e, rest, m, m0, c
<1>11. r.state = "READY" \/ HeadRead(r, m)
  BY <1>2, <1>4, <1>6, <1>7, <1>8, <1>9, <1>10, HeadParsed
<1> QED
  BY <1>11 DEF m

\* A complete message has all that was sent.
LEMMA AnswerIsRead ==
  ASSUME NEW T, AnswerFits(T), NEW r, HeadRead(r, Answer), r.state = "DONE"
  PROVE  /\ r.first = Answer.first /\ r.version = Answer.version
         /\ r.second \in {Answer.second, DefaultPhrase(Answer.first)}
         /\ r.headers = Answer.headers
<1> DEFINE m0 == [first |-> Answer.first, second |-> SecondOf(Answer), version |-> Answer.version]
           hs == Answer.headers
<1>1. Collected(r, m0, hs, Len(hs))
  BY DEF HeadRead
<1>2. SecondOf(Answer) \in {Answer.second, DefaultPhrase(Answer.first)}
  BY DEF SecondOf
<1>3. SubSeq(hs, 1, Len(hs)) = hs
  <2>1. hs \in Seq([key : Seq(T), value : Seq(T)])
    BY DEF AnswerFits, MessageFits
  <2> QED
    BY <2>1, SubSeqFull
<1>4. r.headers = hs
  BY <1>1, <1>3 DEF Collected, AnswerFits
<1>5. r.first = Answer.first /\ r.version = Answer.version /\ r.second = SecondOf(Answer)
  <2> HIDE DEF hs
  <2> QED
    BY <1>1 DEF Collected
<1> QED
  BY <1>2, <1>4, <1>5

\* Each step keeps AnswerArrives.
LEMMA AnswerStep ==
  ASSUME NEW T, ~ CutsCRLF, AnswerFits(T), AnswerArrives(T), [HttpNext]_httpVars
  PROVE  AnswerArrives(T)'
<1>1. ASSUME UNCHANGED <<client, clientResponse>>,
             client = "waiting" => back' \in Seq(T) /\ Whole(back') /\ (back' # <<>> => Placed(back', 0, Packed(Answer)))
      PROVE  AnswerArrives(T)'
  <2>1. client' = client /\ clientResponse' = clientResponse
    BY <1>1
  <2> QED
    BY <1>1, <2>1 DEF AnswerArrives, ResponseIsSent
<1>2. ASSUME UNCHANGED <<back, client, clientResponse>> PROVE AnswerArrives(T)'
  <2>1. back' = back /\ client' = client /\ clientResponse' = clientResponse
    BY <1>2
  <2> QED
    BY <2>1 DEF AnswerArrives, ResponseIsSent
<1>3. ASSUME NEW m \in Requests, SendRequest(m) PROVE AnswerArrives(T)'
  BY <1>2, <1>3, Zenon DEF SendRequest
<1>4. ASSUME NEW n \in Pieces(wire), OnReceived(n) PROVE AnswerArrives(T)'
  <2> DEFINE t == Packed(Answer)
  <2>1. (back' = back \/ back' = back \o t) /\ client' = client /\ clientResponse' = clientResponse
    BY <1>4, Zenon DEF OnReceived
  <2>2. t \in Seq(T) /\ Whole(t)
    BY MessagePacked DEF AnswerFits, MessageFits
  <2> HIDE DEF t
  <2>3. ASSUME client = "waiting"
        PROVE  back' \in Seq(T) /\ Whole(back') /\ (back' # <<>> => Placed(back', 0, t))
    <3>1. back \in Seq(T) /\ Whole(back) /\ (back # <<>> => Placed(back, 0, t))
      BY <2>3 DEF AnswerArrives, t
    <3>2. CASE back' = back
      BY <3>1, <3>2
    <3>3. CASE back' = back \o t
      <4>1. back \o t \in Seq(T) /\ Whole(back \o t)
        <5>1. Tidy(back)
          BY <3>1 DEF Whole
        <5> QED
          BY <2>2, <3>1, <5>1, JoinTidy, ConcatProperties
      <4>2. Placed(back \o t, 0, t)
        <5>1. CASE back = <<>>
          <6>1. back \o t = t
            BY <2>2, <5>1, ConcatEmptySeq
          <6>2. Placed(t, 0, t)
            BY <2>2, LenProperties DEF Placed
          <6> QED
            BY <6>1, <6>2
        <5>2. CASE back # <<>>
          BY <2>2, <3>1, <5>2, PlacedLonger
        <5> QED
          BY <5>1, <5>2
      <4> QED
        BY <3>3, <4>1, <4>2
    <3> QED
      BY <2>1, <3>2, <3>3
  <2> QED
    BY <1>1, <2>1, <2>3 DEF t
<1>5. ASSUME NEW n \in Pieces(back), ClientReceive(n) PROVE AnswerArrives(T)'
  <2> DEFINE p == FromBuffer(clientResponse, StreamOf(SubSeq(back, 1, n)))
             r == p.msg
  <2>1. /\ client = "waiting" /\ clientResponse' = r
        /\ client' = IF p.end THEN "ended" ELSE IF p.msg.state = "DONE" THEN "complete" ELSE "incomplete"
    BY <1>5, Zenon DEF ClientReceive
  <2>2. ASSUME r.state = "DONE" PROVE HeadRead(r, Answer)
    <3>1. r = FromBuffer(clientResponse, StreamOf(SubSeq(back, 1, n))).msg
      OBVIOUS
    <3> HIDE DEF r
    <3> QED
      BY <2>1, <2>2, <3>1, AnswerTaken
  <2> HIDE DEF p
  <2>3. client' # "waiting" /\ (client' = "complete" => r.state = "DONE")
    BY <2>1
  <2> HIDE DEF r
  <2>4. ResponseIsSent'
    BY <2>1, <2>2, <2>3, AnswerIsRead DEF ResponseIsSent
  <2> QED
    BY <2>3, <2>4 DEF AnswerArrives
<1>6. CASE UNCHANGED httpVars
  BY <1>2, <1>6 DEF httpVars
<1> QED
  BY <1>3, <1>4, <1>5, <1>6 DEF HttpNext

\* The response that HttpClient returns is the one that HttpServer gave: its
\* code, version, phrase (or the default one of the code) and headers. This holds
\* for pieces that leave CR and LF together and an answer of any letters T whose
\* parts can be told apart in its text, with each key once.
THEOREM ResponseIsSentHolds ==
  ASSUME NEW T, ~ CutsCRLF, AnswerFits(T)
  PROVE  HttpSpec => []ResponseIsSent
<1>1. HttpInit => AnswerArrives(T)
  BY AnswerInit
<1>2. AnswerArrives(T) /\ [HttpNext]_httpVars => AnswerArrives(T)'
  BY AnswerStep
<1>3. AnswerArrives(T) => ResponseIsSent
  BY DEF AnswerArrives
<1> QED
  BY <1>1, <1>2, <1>3, PTL DEF HttpSpec
=============================================================================
