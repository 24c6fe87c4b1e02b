----------------------------- MODULE DnsMessage -----------------------------
(* DnsRecord.cpp, DnsRecord.hpp, DnsMessage.cpp and DnsMessage.hpp: domain names,
   resource records and messages, to and from a stream.

   A label is a sequence of bytes, a name (_parts) a sequence of labels. A
   message is a record of its header, its questions and its answers; the
   authority and additional sections are read and written as the answers are.
   An unpacking gives [ok, aborts, value, to]: "aborts" when it meets a failing
   assertion.                                                               *)
EXTENDS StreamCodec

CONSTANT InvalidNames   \* names with a character that is not in s_valid_chars

\* DomainName(s): an invalid string leaves the name empty, and says so to
\* nobody. The string is given as its labels in lower case.
DomainName(labels) == IF labels \in InvalidNames THEN <<>> ELSE labels

----------------------------------------------------------------------------
(* Domain names.                                                            *)

\* The bytes of a name: empty parts are left out, a length is one byte.
NameBytes(parts) ==
  FlattenSeq([i \in DOMAIN parts |->
     IF parts[i] = <<>> THEN <<>> ELSE <<Len(parts[i]) % 256>> \o parts[i]]) \o <<0>>

\* Labels from offset at, up to a zero, to a byte above 63, or to the end.
LabelsFrom(data, at) ==
  LET from[p \in 0..Len(data)] ==
        LET n == data[p + 1]
            rest == from[p + 1 + n]
        IN CASE p = Len(data) -> [parts |-> <<>>, end |-> "short", at |-> p]
             [] p < Len(data) /\ n = 0 -> [parts |-> <<>>, end |-> "root", at |-> p + 1]
             [] p < Len(data) /\ n > 63 -> [parts |-> <<>>, end |-> "pointer", at |-> p]
             [] p < Len(data) /\ n \in 1..63 /\ p + 1 + n > Len(data) ->
                  [parts |-> <<>>, end |-> "short", at |-> p]
             [] OTHER -> [rest EXCEPT !.parts = <<SubSeq(data, p + 2, p + 1 + n)>> \o @]
  IN IF at > Len(data) THEN [parts |-> <<>>, end |-> "short", at |-> at] ELSE from[at]

\* (len & 63 << 8) + off: the shift binds first, and a byte has no bit of 63 << 8.
PointerOffset(len, off) == off

\* A bug to try: the reading position goes with the pointer.
ReadPointerStaysThere(b, head) ==
  LET tail == LabelsFrom(b.data, b.data[head.at + 2])
  IN [ok |-> tail.end = "root", aborts |-> tail.end = "pointer",
      value |-> head.parts \o tail.parts, to |-> [b EXCEPT !.read = tail.at]]

\* At the target of a pointer no other pointer is expected.
ReadPointer(b, head) ==
  LET off == b.data[head.at + 2]
      tail == LabelsFrom(b.data, PointerOffset(b.data[head.at + 1], off))
      to == [b EXCEPT !.read = head.at + 2]
  IN IF head.at + 2 > Len(b.data)
     THEN [ok |-> FALSE, aborts |-> FALSE, value |-> head.parts, to |-> [b EXCEPT !.read = Len(b.data)]]
     ELSE [ok |-> tail.end = "root", aborts |-> tail.end = "pointer",
           value |-> head.parts \o tail.parts, to |-> to]

ReadName(b) ==
  LET head == LabelsFrom(b.data, b.read)
  IN IF head.end = "pointer" THEN ReadPointer(b, head)
     ELSE [ok |-> head.end = "root", aborts |-> FALSE, value |-> head.parts,
           to |-> [b EXCEPT !.read = head.at]]

----------------------------------------------------------------------------
(* Fields, one after the other, up to the first that cannot be read.         *)

Gives(ok, value, to) == [ok |-> ok, aborts |-> FALSE, value |-> value, to |-> to]

Reading(r) == Gives(r.ok, r.value, r.to)

ReadField(b, kind) ==
  CASE kind = "name" -> ReadName(b)
    [] kind = "int16" -> Reading(ReadInt16(b))
    [] kind = "int32" -> Reading(ReadInt32(b))

\* What was read so far, and next.
Followed(so_far, next) == [next EXCEPT !.value = Append(so_far.value, @)]

ReadFields(b, kinds) ==
  LET read[i \in 0..Len(kinds)] ==
        IF i = 0 THEN Gives(TRUE, <<>>, b)
        ELSE IF read[i - 1].ok THEN Followed(read[i - 1], ReadField(read[i - 1].to, kinds[i])) ELSE read[i - 1]
  IN read[Len(kinds)]

----------------------------------------------------------------------------
(* Header. A flag is a number of as many bits as its field.                 *)

FlagBits == [qr |-> 1, opcode |-> 4, aa |-> 1, tc |-> 1, rd |-> 1, ra |-> 1, z |-> 3, rcode |-> 4]

NoFlags == [f \in DOMAIN FlagBits |-> 0]

Encode(f) == <<f.rd + 2 * f.tc + 4 * f.aa + 8 * f.opcode + 128 * f.qr,
               f.rcode + 16 * f.z + 128 * f.ra>>

Decode(b1, b2) ==
  [qr |-> b1 \div 128, opcode |-> (b1 \div 8) % 16, aa |-> (b1 \div 4) % 2,
   tc |-> (b1 \div 2) % 2, rd |-> b1 % 2,
   ra |-> b2 \div 128, z |-> (b2 \div 16) % 8, rcode |-> b2 % 16]

HeaderLength == 12

HeaderBytes(h) ==
  Int16Bytes(h.id) \o Encode(h.flags) \o Int16Bytes(h.qdcount) \o Int16Bytes(h.ancount)
  \o Int16Bytes(h.nscount) \o Int16Bytes(h.arcount)

\* FLAGS::Serialize: the two bytes from i on.
ReadFlags(bytes, i) == Decode(bytes[i], bytes[i + 1])

\* Any part of a header that is too short may be read; the message fails.
ReadMessageHeader(b) ==
  LET r == ReadBytes(b, HeaderLength)
      At(i) == Int16Of(r.value[i], r.value[i + 1])
  IN IF ~r.ok THEN r
     ELSE Done(r.to, [id |-> At(1), flags |-> ReadFlags(r.value, 3),
                      qdcount |-> At(5), ancount |-> At(7), nscount |-> At(9), arcount |-> At(11)])

----------------------------------------------------------------------------
(* Questions.                                                               *)

\* A bug to try: the fields in another order.
QuestionBytesClassFirst(q) == NameBytes(q.name) \o Int16Bytes(q.class) \o Int16Bytes(q.type)

QuestionBytes(q) == NameBytes(q.name) \o Int16Bytes(q.type) \o Int16Bytes(q.class)

\* The fields of a question, and of a record up to its data.
QuestionOf(f) == [name |-> f[1], type |-> f[2], class |-> f[3]]
RecordOf(f, data) == [name |-> f[1], type |-> f[2], class |-> f[3], ttl |-> f[4], rdlen |-> f[5], data |-> data]

Questioned(r) == IF r.ok THEN [r EXCEPT !.value = QuestionOf(@)] ELSE r

ReadQuestion(b) == Questioned(ReadFields(b, <<"name", "int16", "int16">>))

----------------------------------------------------------------------------
(* Resource records: [name, type, class, ttl, rdlen, data]; TTL and address
   are 32 bits.                                                             *)

A == 1
CNAME == 5
SOA == 6
MX == 15
TXT == 16

ReadA(b, rdlen) ==
  LET ip == ReadInt32(b)
  IN IF rdlen # 4 THEN Gives(FALSE, <<>>, b) ELSE Gives(ip.ok, ip.value, ip.to)

\* It adds to a len that it has not initialized, and compares that to rdlen:
\* "lucky" when the two come out equal.
ReadCNAME(b, lucky) == LET name == ReadName(b) IN [name EXCEPT !.ok = @ /\ lucky]

\* Its length is the bytes that the preference and the name have here.
ReadMX(b, rdlen) ==
  LET Sized(r) == [r EXCEPT !.ok = @ /\ rdlen = r.to.read - b.read]
  IN Sized(ReadFields(b, <<"int16", "name">>))

ReadTXT(b, rdlen) ==
  LET len == ReadInt8(b)
      text == ReadBytes(len.to, len.value)
  IN IF ~len.ok \/ len.value # rdlen - 1 THEN Gives(FALSE, <<>>, b)
     ELSE Gives(text.ok, text.value, text.to)

\* RecordData::Create, and what the object of that type reads. A SOA reads nothing.
ReadData(b, type, rdlen, lucky) ==
  CASE type = A -> ReadA(b, rdlen)
    [] type = CNAME -> ReadCNAME(b, lucky)
    [] type = SOA -> Gives(TRUE, <<>>, b)
    [] type = MX -> ReadMX(b, rdlen)
    [] type = TXT -> ReadTXT(b, rdlen)
    [] OTHER -> Gives(FALSE, <<>>, b)

ReadRecord(b, lucky) ==
  LET WithData(f, data) == [data EXCEPT !.value = RecordOf(f.value, @)]
      Rest(f) == IF f.ok THEN WithData(f, ReadData(f.to, f.value[2], f.value[5], lucky)) ELSE f
  IN Rest(ReadFields(b, <<"name", "int16", "int16", "int32", "int16">>))

\* The writers of CNAME, MX and TXT add to the length they are given, which is
\* the one that was read or written before; that of A sets it.
WriteA(b, rr) == [to |-> WriteUInt32(b, rr.data), rdlen |-> 4]

WriteCNAME(b, rr) == [to |-> Write(b, NameBytes(rr.data)), rdlen |-> rr.rdlen + Len(NameBytes(rr.data))]

WriteMX(b, rr) == [to |-> Write(WriteInt16(b, rr.data[1]), NameBytes(rr.data[2])),
                   rdlen |-> rr.rdlen + 2 + Len(NameBytes(rr.data[2]))]

WriteTXT(b, rr) == [to |-> Write(WriteInt8(b, Len(rr.data)), rr.data), rdlen |-> rr.rdlen + 1 + Len(rr.data)]

WriteData(b, rr) ==
  CASE rr.type = A -> WriteA(b, rr)
    [] rr.type = CNAME -> WriteCNAME(b, rr)
    [] rr.type = SOA -> [to |-> b, rdlen |-> rr.rdlen]
    [] rr.type = MX -> WriteMX(b, rr)
    [] rr.type = TXT -> WriteTXT(b, rr)

\* The place of RDLENGTH is kept, and filled when the length is known: an offset
\* from the start of the vector used as one from the first accessible byte.
WriteRecord(b, rr) ==
  LET fixed == WriteUInt32(WriteInt16(WriteInt16(Write(b, NameBytes(rr.name)), rr.type), rr.class), rr.ttl)
      offset == WriteOffset(fixed)
      data == WriteData(WriteInt16(fixed, rr.rdlen), rr)
  IN UpdateInt16(data.to, offset, data.rdlen % 65536).to

----------------------------------------------------------------------------
(* Messages.                                                                *)

NoMessage ==
  [header |-> [id |-> 0, flags |-> NoFlags, qdcount |-> 0, ancount |-> 0, nscount |-> 0, arcount |-> 0],
   questions |-> <<>>, answers |-> <<>>, authorities |-> <<>>, additionals |-> <<>>]

\* Header::Question(true) takes a random identifier, and asks for recursion.
QueryHeader(id) == [NoMessage.header EXCEPT !.id = id, !.flags.rd = 1]

Question(name, qtype) == [name |-> DomainName(name), type |-> qtype, class |-> 1]

Query(id, name, qtype) ==
  [NoMessage EXCEPT !.header = [QueryHeader(id) EXCEPT !.qdcount = 1],
                    !.questions = << Question(name, qtype) >>]

Records(m) == m.answers \o m.authorities \o m.additionals

\* ToBuffer.
Pack(b, m) ==
  LET questions == FlattenSeq([i \in DOMAIN m.questions |-> QuestionBytes(m.questions[i])])
      packed[i \in 0..Len(Records(m))] ==
        IF i = 0 THEN Write(b, HeaderBytes(m.header) \o questions) ELSE WriteRecord(packed[i - 1], Records(m)[i])
  IN packed[Len(Records(m))]

\* What is read for a section is pushed to its vector; what fails is not.
Pushed(section, message, r) ==
  [r EXCEPT !.value = IF r.ok THEN [message EXCEPT ![section] = Append(@, r.value)] ELSE message]

ReadElement(section, r, lucky) ==
  Pushed(section, r.value, IF section = "questions" THEN ReadQuestion(r.to) ELSE ReadRecord(r.to, lucky))

Count == [questions |-> "qdcount", answers |-> "ancount", authorities |-> "nscount", additionals |-> "arcount"]

\* As many elements as the header says, unless one fails.
ReadSection(section, r, lucky) ==
  LET n == r.value.header[Count[section]]
      s[i \in 0..n] == IF i = 0 THEN r
                       ELSE IF s[i - 1].ok THEN ReadElement(section, s[i - 1], lucky) ELSE s[i - 1]
  IN s[n]

Sections == <<"questions", "answers", "authorities", "additionals">>

\* FromBuffer into message m, which is not emptied first.
Unpack(m, b, lucky) ==
  LET Headed(h) == Gives(h.ok, IF h.ok THEN [m EXCEPT !.header = h.value] ELSE m, h.to)
      read[i \in 0..Len(Sections)] ==
        IF i = 0 THEN Headed(ReadMessageHeader(b)) ELSE ReadSection(Sections[i], read[i - 1], lucky)
      AllRead(r) == IF r.ok THEN [r EXCEPT !.to = Flushed(@)] ELSE r
  IN AllRead(read[Len(Sections)])

\* ARecordData::String: the number, in the order of the host, is shown as if it
\* were in that of the network.
Shown(ip) == Reverse(Int32Bytes(ip))
=============================================================================
