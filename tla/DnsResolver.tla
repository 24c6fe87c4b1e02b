---------------------------- MODULE DnsResolver ----------------------------
(* examples/dns/DnsResolver.cpp: Resolver::Resolve packs a query, sends it in a
   datagram, waits for a datagram without a timeout and unpacks it, on one
   UdpSocket for all calls. The server and the network are not part of netb.  *)
EXTENDS DnsMessage, FiniteSets

CONSTANTS Names,        \* names that are asked for, each a sequence of labels
          Hosts,        \* names that occur in answers
          Types,        \* types of questions
          Ids,          \* what rand() gives
          Texts,        \* data of TXT records, each a sequence of strings
          Addresses,
          MaxCalls,     \* bound on the calls of Resolve
          MaxAnswers,   \* bound on the records in an answer
          Unsupported,  \* answers may have CNAME, NS and SOA records
          Chains,       \* names in answers may end in a pointer to a pointer
          Loss, Duplication,   \* faults of the network
          Reuse         \* one Response object for all calls

ASSUME ResolverAssumption ==
  /\ Ids \subseteq Nat /\ (\A id \in Ids : id < 65536) /\ Types \subseteq {A, CNAME, MX, TXT}
  /\ MaxCalls \in Nat /\ MaxAnswers \in Nat
  /\ Unsupported \in BOOLEAN /\ Chains \in BOOLEAN
  /\ Loss \in BOOLEAN /\ Duplication \in BOOLEAN /\ Reuse \in BOOLEAN

VARIABLES
  at,         \* where Resolve is: "idle", "packed", "sent", "aborted"
  calls,      \* calls made
  asked,      \* of the last call: [call, name, type]
  buf,        \* the local buffer of Resolve
  response,   \* the caller's Response
  returned,   \* what the last call returned: "nothing", "true", "false"
  requests,   \* datagrams on their way to the server: [bytes, asked, id]
  replies,    \* datagrams on their way back: [bytes, to, sections]
  inbox,      \* received by the kernel, not yet by the program
  taken       \* the reply that the last call received

vars == <<at, calls, asked, buf, response, returned, requests, replies, inbox, taken>>

NoQuestion == [call |-> 0, name |-> <<>>, type |-> 0]
NoSections == [answers |-> <<>>, authorities |-> <<>>, additionals |-> <<>>]
NoReply == [bytes |-> <<>>, to |-> NoQuestion, sections |-> NoSections]

Init ==
  /\ at = "idle" /\ calls = 0 /\ asked = NoQuestion
  /\ buf = EmptyStream /\ response = NoMessage /\ returned = "nothing"
  /\ requests = {} /\ replies = {} /\ inbox = <<>> /\ taken = NoReply

----------------------------------------------------------------------------
(* The resolver.                                                            *)

\* The caller's program, with a Response of its own for each call, or one for all.
Resolve(name, qtype, id) ==
  /\ at = "idle" /\ calls < MaxCalls
  /\ calls' = calls + 1
  /\ asked' = [call |-> calls + 1, name |-> name, type |-> qtype]
  /\ buf' = Pack(EmptyStream, Query(id, name, qtype))
  /\ response' = IF Reuse THEN response ELSE NoMessage
  /\ returned' = "nothing" /\ taken' = NoReply
  /\ at' = "packed"
  /\ UNCHANGED <<requests, replies, inbox>>

Send ==
  /\ at = "packed"
  /\ requests' = requests \cup {[bytes |-> Unread(buf), asked |-> asked]}
  /\ buf' = EmptyStream
  /\ at' = "sent"
  /\ UNCHANGED <<calls, asked, response, returned, replies, inbox, taken>>

SendFails ==
  /\ at = "packed"
  /\ returned' = "false" /\ at' = "idle"
  /\ UNCHANGED <<calls, asked, buf, response, requests, replies, inbox, taken>>

\* A bug to try: an answer that cannot be read is waited for again.
ReceiveAgain ==
  /\ at = "sent" /\ inbox # <<>>
  /\ taken' = Head(inbox) /\ inbox' = Tail(inbox)
  /\ \E lucky \in BOOLEAN :
       LET u == Unpack(response, StreamOf(Head(inbox).bytes), lucky)
       IN /\ response' = u.value /\ buf' = u.to
          /\ returned' = IF u.ok THEN "true" ELSE "nothing"
          /\ at' = IF u.ok THEN "idle" ELSE "sent"
  /\ UNCHANGED <<calls, asked, requests, replies>>

\* Any datagram is taken: the identifier is not looked at.
Receive ==
  /\ at = "sent" /\ inbox # <<>>
  /\ taken' = Head(inbox) /\ inbox' = Tail(inbox)
  /\ \E lucky \in BOOLEAN :
       LET u == Unpack(response, StreamOf(Head(inbox).bytes), lucky)
       IN /\ response' = u.value /\ buf' = u.to
          /\ returned' = IF u.ok THEN "true" ELSE "false"
          /\ at' = IF u.aborts THEN "aborted" ELSE "idle"
  /\ UNCHANGED <<calls, asked, requests, replies>>

\* ReceiveFrom returns an error, whatever has arrived or will.
ReceiveFails ==
  /\ at = "sent"
  /\ returned' = "false" /\ at' = "idle"
  /\ UNCHANGED <<calls, asked, buf, response, requests, replies, inbox, taken>>

----------------------------------------------------------------------------
(* The server. It answers as RFC 1035, quoted in DnsRecord.hpp, has it.      *)

\* What a name at offset p of a message says; a pointer is to a prior occurrence.
NameAt(bytes, p) ==
  LET name[q \in 0..Len(bytes)] ==
        LET labels == LabelsFrom(bytes, q)
            to == 256 * (bytes[labels.at + 1] % 64) + bytes[labels.at + 2]
        IN IF labels.end # "pointer" THEN labels.parts
           ELSE IF to < q THEN labels.parts \o name[to]
           ELSE <<>>
  IN name[p]

\* Where a name can be pointed at: it is spelled there.
Occurrences(bytes, name) ==
  {p \in HeaderLength .. Len(bytes) - 1 :
     /\ bytes[p + 1] = Len(name[1]) \/ bytes[p + 1] >= 192
     /\ LET labels == LabelsFrom(bytes, p)
        IN /\ \/ labels.end = "root"
              \/ Chains /\ labels.end = "pointer" /\ labels.at + 2 <= Len(bytes)
           /\ Len(labels.parts) <= Len(name)
           /\ NameAt(bytes, p) = name}

Pointer(p) == <<192 + p \div 256, p % 256>>

\* In full, or some labels and a pointer to where the rest is first spelled.
Spellings(bytes, name) ==
  {NameBytes(name)} \cup
  {Front(NameBytes(SubSeq(name, 1, k))) \o Pointer(Min(Occurrences(bytes, SubSeq(name, k + 1, Len(name))))) :
     k \in {i \in 0..Len(name) - 1 : Occurrences(bytes, SubSeq(name, i + 1, Len(name))) # {}}}

\* RDATA of a record, spelled in a message so far: a TXT record has one or more
\* strings, a SOA record two names and five numbers.
DataSpellings(bytes, rr) ==
  CASE rr.type = A -> {Int32Bytes(rr.data)}
    [] rr.type = TXT -> {FlattenSeq([i \in DOMAIN rr.data |-> <<Len(rr.data[i])>> \o rr.data[i]])}
    [] rr.type = SOA -> {s \o NameBytes(rr.data[2]) \o [i \in 1..20 |-> 0] : s \in Spellings(bytes, rr.data[1])}
    [] rr.type = MX -> {Int16Bytes(rr.data[1]) \o s : s \in Spellings(bytes, rr.data[2])}
    [] OTHER -> Spellings(bytes, rr.data)

RecordSpellings(bytes, rr) ==
  UNION {LET owner == bytes \o n \o Int16Bytes(rr.type) \o Int16Bytes(1) \o Int32Bytes(rr.ttl)
         IN {owner \o Int16Bytes(Len(d)) \o d : d \in DataSpellings(owner \o <<0, 0>>, rr)}
         : n \in Spellings(bytes, rr.name)}

DataOf(type) ==
  CASE type = A -> Addresses
    [] type = TXT -> Texts
    [] type = MX -> {<<10, n>> : n \in Hosts}
    [] type = SOA -> {<<n, n>> : n \in Hosts}
    [] OTHER -> Hosts

NS == 2

\* What a section may have: answers to the question, or an alias; who is in charge
\* of the name; the addresses of the hosts that are mentioned.
SectionTypes(section, q) ==
  CASE section = "answers" -> {q.type} \cup (IF Unsupported THEN {CNAME} ELSE {})
    [] section = "authorities" -> IF Unsupported THEN {NS, SOA} ELSE {}
    [] section = "additionals" -> {A}

SectionRecords(section, q) ==
  UNION {[name : IF section = "additionals" THEN Hosts ELSE {q.name}, type : {t}, ttl : {<<1, 44>>},
          data : DataOf(t)] : t \in SectionTypes(section, q)}

\* The replies to a question, and how one to a request can be spelled. A name
\* without records does not exist.
Replies(q) ==
  LET Lists(section) == BoundedSeq(SectionRecords(section, q), MaxAnswers)
  IN {s \in [answers : Lists("answers"), authorities : Lists("authorities"), additionals : Lists("additionals")] :
        Len(Records(s)) <= MaxAnswers}

ReplySpellings(request, s) ==
  LET id == SubSeq(request, 1, 2)
      flags == <<128 + 1, 128 + IF s.answers = <<>> THEN 3 ELSE 0>>   \* QR and RD; RA and RCODE
      counts == <<0, 1>> \o Int16Bytes(Len(s.answers)) \o Int16Bytes(Len(s.authorities))
                \o Int16Bytes(Len(s.additionals))
      start == id \o flags \o counts \o SubSeq(request, HeaderLength + 1, Len(request))
      Further(messages, rr) == UNION {RecordSpellings(m, rr) : m \in messages}
  IN FoldLeft(Further, {start}, Records(s))

\* One reply to a request, in the server's spelling.
Serve ==
  \E r \in requests : \E s \in Replies(r.asked) : \E bytes \in ReplySpellings(r.bytes, s) :
    /\ requests' = requests \ {r}
    /\ replies' = replies \cup {[bytes |-> bytes, to |-> r.asked, sections |-> s]}
    /\ UNCHANGED <<at, calls, asked, buf, response, returned, inbox, taken>>

----------------------------------------------------------------------------
(* The network.                                                             *)

Deliver ==
  \E r \in replies, copies \in 1..(IF Duplication THEN 2 ELSE 1) :
    /\ inbox' = inbox \o [i \in 1..copies |-> r]
    /\ replies' = replies \ {r}
    /\ UNCHANGED <<at, calls, asked, buf, response, returned, requests, taken>>

Lose ==
  /\ Loss
  /\ \/ \E r \in requests : requests' = requests \ {r} /\ UNCHANGED replies
     \/ \E r \in replies : replies' = replies \ {r} /\ UNCHANGED requests
  /\ UNCHANGED <<at, calls, asked, buf, response, returned, inbox, taken>>

Next ==
  \/ \E name \in Names, qtype \in Types, id \in Ids : Resolve(name, qtype, id)
  \/ Send \/ SendFails \/ Receive \/ ReceiveFails
  \/ Serve \/ Deliver \/ Lose

\* The resolver and the network do their steps. Where a datagram is all that a
\* step may take, that it is taken stands for the step: Serve when nothing is
\* lost, and Receive.
Handled == \E r \in requests : requests' = requests \ {r}
Taken == at = "sent" /\ inbox # <<>> /\ inbox' = Tail(inbox)

Fairness == WF_vars(Send) /\ WF_inbox(Taken) /\ WF_requests(Handled) /\ WF_vars(Deliver)

Spec == Init /\ [][Next]_vars /\ Fairness

----------------------------------------------------------------------------
(* Properties.                                                              *)

\* The reading position is in the buffer, the header's fields have their bits,
\* and the call is where its result says.
TypeOK ==
  /\ at \in {"idle", "packed", "sent", "aborted"} /\ calls \in 0..MaxCalls
  /\ buf.read \in 0..Len(buf.data) /\ buf.base = 0
  /\ \A i \in DOMAIN buf.data : buf.data[i] \in 0..255
  /\ \A f \in DOMAIN FlagBits : response.header.flags[f] \in 0..2 ^ FlagBits[f] - 1
  /\ response.header.id \in 0..65535 /\ response.header.ancount \in 0..65535
  /\ returned \in {"nothing", "true", "false"} /\ (returned # "nothing" => at \in {"idle", "aborted"})

\* What Message::ToBuffer packs, Message::FromBuffer unpacks: every query on the
\* wire reads as the question that was asked, and to the end.
QueryRoundTrip ==
  \A r \in requests :
    LET u == Unpack(NoMessage, StreamOf(r.bytes), FALSE)
    IN /\ u.ok /\ u.to = EmptyStream
       /\ u.value.header.flags.qr = 0 /\ u.value.header.flags.rd = 1
       /\ u.value.questions = <<[name |-> r.asked.name, type |-> r.asked.type, class |-> 1]>>

\* The part of a record that the server meant, and that its object has.
Meaning(rrs) ==
  [i \in DOMAIN rrs |-> [name |-> rrs[i].name, type |-> rrs[i].type, ttl |-> rrs[i].ttl,
                         data |-> IF rrs[i].type = TXT THEN rrs[i].data[1] ELSE rrs[i].data]]

Found(rrs) ==
  [i \in DOMAIN rrs |-> [name |-> rrs[i].name, type |-> rrs[i].type, ttl |-> rrs[i].ttl, data |-> rrs[i].data]]

\* Of a type that is implemented; a TXT record of a single string.
Supported(rr) == rr.type \in {A, MX} \/ (rr.type = TXT /\ Len(rr.data) = 1)

Received == Range(Records(taken.sections))   \* the records of the datagram

\* When Resolve returns true its Response has in each section the records of the
\* datagram it took, and nothing of the datagram is left, unless a SOA was among
\* them; it returns true for every answer that has A, MX and TXT records alone,
\* those of a single string. A name may be compressed to any number of its labels
\* and a pointer to where the others are spelled in full.
AnswerUnpacked ==
  taken # NoReply =>
    /\ (returned = "true" /\ \A rr \in Received : rr.type # SOA) =>
         /\ \A s \in DOMAIN NoSections : Found(response[s]) = Meaning(taken.sections[s])
         /\ buf = EmptyStream
    /\ (\A rr \in Received : Supported(rr)) => returned = "true"

\* An answer that Resolve returns is one to the question that it was called with.
\* It never compares identifiers: it relies on a datagram for each datagram.
AnswerMatchesQuestion == returned = "true" => taken.to = asked

\* Resolve returns, unless the datagram it waits for is lost: whatever the answer,
\* it is taken for one.
ResolveReturns ==
  at = "sent" ~> \/ at # "sent"
                 \/ taken = NoReply /\ requests = {} /\ replies = {} /\ inbox = <<>>

----------------------------------------------------------------------------
(* Stated of the program, and not true of it.                               *)

\* A call of Resolve returns; DnsResolver.h:26-27 defines a timeout and a number of
\* retries, which nothing uses.
ResolveAlwaysReturns == at = "sent" ~> at # "sent"

\* DnsRecord.hpp:219-226: a TTL is 32 bits, RDLENGTH the length of RDATA; what is
\* packed again reads as the same message.
RepackRoundTrip ==
  returned = "true" =>
    LET u == Unpack(NoMessage, Pack(EmptyStream, response), TRUE)
    IN u.ok /\ u.value = response

\* DnsRecord.hpp:57-70: a name may end in a pointer to a prior occurrence.
NamesAreRead == at # "aborted"

\* DnsRecord.hpp:484: TXT-DATA is one or more strings; an answer that has some is read.
TextsAreRead ==
  (taken # NoReply /\ \A rr \in Received : rr.type = TXT) => returned = "true"

\* DnsRecord.hpp:219-226: RDLENGTH is the length of RDATA; what is read is all of it.
AllIsRead == returned = "true" => buf = EmptyStream

\* ARecordData::String shows the address that the server sent.
AddressIsShown ==
  returned = "true" =>
    \A i \in DOMAIN response.answers :
      response.answers[i].type = A =>
        Shown(response.answers[i].data) = Int32Bytes(taken.sections.answers[i].data)
=============================================================================
