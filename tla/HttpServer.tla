----------------------------- MODULE HttpServer -----------------------------
(* examples/http: one connection of HttpServer.cpp, the requests that a peer
   sends on it, and the answer as HttpClient.cpp takes it. TCP cuts the bytes
   into pieces as it likes; each piece is one call of OnReceived.             *)
EXTENDS HttpMessage

CONSTANTS Requests,      \* messages that the peer may send
          Answer,        \* the HttpResponse of HandleRequest
          MaxRequests,   \* bound on the requests of the peer
          CutsCRLF       \* pieces may end between CR and LF

ASSUME HttpAssumption ==
  /\ Numbers \subseteq Nat /\ MaxRequests \in Nat /\ CutsCRLF \in BOOLEAN
  /\ \A m \in Requests : m.kind = "request"
  /\ Answer.kind = "response"

VARIABLES
  sent,       \* the requests sent so far
  wire,       \* their bytes that have not arrived
  request,    \* HttpConnection::_request
  buffer,     \* the receiving buffer of the connection
  server,     \* "up", or "ended" by an assertion or an exception
  answers,    \* the number of answers sent
  back,       \* bytes of the answers that the client has not received
  client,     \* "waiting", "complete", "incomplete", "ended"
  clientResponse   \* the client's HttpResponse

httpVars == <<sent, wire, request, buffer, server, answers, back, client, clientResponse>>

HttpInit ==
  /\ sent = <<>> /\ wire = <<>> /\ back = <<>> /\ answers = 0
  /\ request = HttpRequest(<<"GET">>, <<>>) /\ buffer = EmptyStream /\ server = "up"
  /\ client = "waiting" /\ clientResponse = HttpResponse(200, <<>>)

Packed(m) == ToBuffer(m, EmptyStream).data

\* HttpClient's request, or the next one of a peer that does not wait.
SendRequest(m) ==
  /\ Len(sent) < MaxRequests /\ client = "waiting"
  /\ sent' = Append(sent, m)
  /\ wire' = wire \o Packed(m)
  /\ UNCHANGED <<request, buffer, server, answers, back, client, clientResponse>>

\* The sizes of a piece of these bytes.
Pieces(bytes) == {n \in 1..Len(bytes) : CutsCRLF \/ ~(bytes[n] = CR /\ n < Len(bytes) /\ bytes[n + 1] = LF)}

\* A bug to try: what is left of the piece is dropped.
OnReceivedDrops(n) ==
  LET p == FromBuffer(request, Write(buffer, SubSeq(wire, 1, n)))
      done == p.msg.state = "DONE" /\ ~p.end
  IN /\ server = "up"
     /\ wire' = SubSeq(wire, n + 1, Len(wire))
     /\ buffer' = EmptyStream
     /\ request' = IF done THEN Reset(p.msg) ELSE p.msg
     /\ server' = IF p.end THEN "ended" ELSE "up"
     /\ answers' = IF done THEN answers + 1 ELSE answers
     /\ back' = IF done THEN back \o Packed(Answer) ELSE back
     /\ UNCHANGED <<sent, client, clientResponse>>

\* A bug to try: the request that is answered is not reset.
OnReceivedNoReset(n) ==
  LET p == FromBuffer(request, Write(buffer, SubSeq(wire, 1, n)))
      done == p.msg.state = "DONE" /\ ~p.end
  IN /\ server = "up"
     /\ wire' = SubSeq(wire, n + 1, Len(wire))
     /\ buffer' = p.to
     /\ request' = p.msg
     /\ server' = IF p.end THEN "ended" ELSE "up"
     /\ answers' = IF done THEN answers + 1 ELSE answers
     /\ back' = IF done THEN back \o Packed(Answer) ELSE back
     /\ UNCHANGED <<sent, client, clientResponse>>

OnReceived(n) ==
  LET p == FromBuffer(request, Write(buffer, SubSeq(wire, 1, n)))
      done == p.msg.state = "DONE" /\ ~p.end
  IN /\ server = "up"
     /\ wire' = SubSeq(wire, n + 1, Len(wire))
     /\ buffer' = p.to
     /\ request' = IF done THEN Reset(p.msg) ELSE p.msg
     /\ server' = IF p.end THEN "ended" ELSE "up"
     /\ answers' = IF done THEN answers + 1 ELSE answers
     /\ back' = IF done THEN back \o Packed(Answer) ELSE back
     /\ UNCHANGED <<sent, client, clientResponse>>

\* HttpClient receives once, and parses what it has got.
ClientReceive(n) ==
  LET p == FromBuffer(clientResponse, StreamOf(SubSeq(back, 1, n)))
  IN /\ client = "waiting" /\ sent # <<>>
     /\ back' = SubSeq(back, n + 1, Len(back))
     /\ clientResponse' = p.msg
     /\ client' = IF p.end THEN "ended" ELSE IF p.msg.state = "DONE" THEN "complete" ELSE "incomplete"
     /\ UNCHANGED <<sent, wire, request, buffer, server, answers>>

HttpNext ==
  \/ \E m \in Requests : SendRequest(m)
  \/ \E n \in Pieces(wire) : OnReceived(n)
  \/ \E n \in Pieces(back) : ClientReceive(n)

\* The network delivers what was sent, and the loop calls OnReceived for it:
\* that a piece is taken from the wire stands for the step.
PieceTaken == server = "up" /\ \E n \in Pieces(wire) : wire' = SubSeq(wire, n + 1, Len(wire))

HttpFairness == WF_wire(PieceTaken)

HttpSpec == HttpInit /\ [][HttpNext]_httpVars /\ HttpFairness

----------------------------------------------------------------------------
(* Properties.                                                              *)

\* The message and the buffer are in order: no two headers have one key
\* (SetHeader), a body that is waited for has a length and an array, an array
\* is there only after the headers.
WellFormed(m) ==
  /\ m.state \in {"READY", "HEADER", "BODY", "DONE"}
  /\ \A h \in DOMAIN m.headers : Cardinality(Keyed(m, m.headers[h].key)) = 1
  /\ m.state = "BODY" => m.len > 0 /\ m.room > 0
  /\ m.state \in {"READY", "HEADER"} => m.len = 0

HttpTypeOK ==
  /\ WellFormed(request) /\ WellFormed(clientResponse)
  /\ buffer.read \in 0..Len(buffer.data)
  /\ server \in {"up", "ended"} /\ client \in {"waiting", "complete", "incomplete", "ended"}
  /\ answers \in 0..MaxRequests

\* "This function will keep state until complete a messages" (FromBuffer): in
\* whatever pieces the bytes came, the message is what parsing them all in one
\* call gives, and the same bytes are left.
PiecesDoNotMatter ==
  server = "up" /\ request.state # "READY" =>
    LET p == FromBuffer(Reset(request), [buffer EXCEPT !.read = 0])
    IN p.msg = request /\ p.to = buffer

\* The headers of a message as a map: the last value of each key.
HeaderMap(headers) ==
  [key \in {h.key : h \in Range(headers)} |->
     headers[CHOOSE i \in DOMAIN headers :
       headers[i].key = key /\ \A j \in DOMAIN headers : headers[j].key = key => j <= i].value]

\* What FromBuffer has of the first message at any time is what was sent: its
\* start line and a first part of its headers, and when it waits for the body
\* all of them and the length.
HeadIsSent ==
  answers = 0 /\ request.state # "READY" =>
    LET m == sent[1]
    IN /\ request.first = m.first /\ request.second = m.second /\ request.version = m.version
       /\ \E n \in 0..Len(m.headers) :
            /\ HeaderMap(request.headers) = HeaderMap(SubSeq(m.headers, 1, n))
            /\ request.state = "BODY" => n = Len(m.headers) /\ request.len = m.len

\* No answer without a request: the head of the k-th request has arrived before
\* the k-th answer is sent.
AnswersHaveRequests ==
  LET heads == [k \in DOMAIN sent |-> Len(Packed([sent[k] EXCEPT !.len = 0]))]
      Before_(k) == FoldLeft(LAMBDA n, m : n + Len(Packed(m)), 0, SubSeq(sent, 1, k - 1))
      arrived == FoldLeft(LAMBDA n, m : n + Len(Packed(m)), 0, sent) - Len(wire)
  IN answers <= Cardinality({k \in DOMAIN sent : Before_(k) + heads[k] <= arrived})

\* A client that was told the response is complete has the one that was sent.
ResponseIsSent ==
  client = "complete" =>
    /\ clientResponse.first = Answer.first /\ clientResponse.version = Answer.version
    /\ clientResponse.second \in {Answer.second, DefaultPhrase(Answer.first)}
    /\ clientResponse.headers = Answer.headers

\* The first request on a connection is answered.
FirstIsAnswered == sent # <<>> ~> answers > 0

----------------------------------------------------------------------------
(* Properties that the code does not have.                                  *)

\* HttpMessage.cpp:171: FromBuffer returns true once a message is completed. One
\* without Content-Length, such as HttpClient and HttpServer send, ends whoever
\* receives it.
NobodyEnds == server = "up" /\ client # "ended"

\* Every request of a connection is answered. A second one begins with what
\* the first one left, and one that came with the first is not looked at.
AllAreAnswered == \A k \in 1..MaxRequests : Len(sent) >= k ~> answers >= k

\* A body is the one that was sent. The blank line's CRLF is read as its start.
BodyIsSent == request.room > 0 /\ request.body # <<>> => request.body = sent[1].body

\* The body fits the array that was allocated for it.
BodyFits == Len(request.body) <= request.room
=============================================================================
