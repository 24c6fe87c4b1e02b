---------------------------- MODULE HttpMessage ----------------------------
(* HttpMessage.cpp: packing a message and parsing it from an arriving stream,
   as operators on the message object and the StreamBuffer.

   Text is cut into tokens where the code looks: a space, ":", the two bytes of
   CRLF and the words between them are the "bytes" of the stream. A message is
     kind      "request" or "response", the derived class
     first     what its start line says: the method, or the code
     second    the url, or the phrase
     version, headers (in order), state (PARSING)
     len, body _body_len and what _body points to
     room      the size _body was allocated with, 0 when it is null           *)
EXTENDS StreamCodec, FiniteSets, TLC

CONSTANT Numbers    \* the numbers that messages spell

CR == "CR"
LF == "LF"
SP == "SP"
Colon == ":"
CRLF == <<CR, LF>>
ContentLength == <<"Content-Length">>

\* std::string::find and substr around the first t of a text.
Places(s, t) == {i \in DOMAIN s : s[i] = t}
Find(s, t) == IF Places(s, t) = {} THEN 0 ELSE FirstStop(Places(s, t))
Before(s, t) == SubSeq(s, 1, Find(s, t) - 1)
After(s, t) == SubSeq(s, Find(s, t) + 1, Len(s))

\* What operator>> takes from a line: it skips spaces, and stops at the next.
Trimmed(s) ==
  LET letters == DOMAIN s \ Places(s, SP)
  IN IF letters = {} THEN <<>> ELSE SubSeq(s, FirstStop(letters), Len(s))
Word(s) == IF Find(Trimmed(s), SP) = 0 THEN Trimmed(s) ELSE Before(Trimmed(s), SP)
AfterWord(s) == IF Find(Trimmed(s), SP) = 0 THEN <<>> ELSE After(Trimmed(s), SP)

\* Streams of decimal output, and of input: 0 when there is no number.
Spelled(n) == <<ToString(n)>>
NumberIn(s) ==
  LET read == {n \in Numbers : Word(s) # <<>> /\ Spelled(n) = <<Word(s)[1]>>}
  IN IF read = {} THEN 0 ELSE CHOOSE n \in read : TRUE

----------------------------------------------------------------------------
(* The object.                                                              *)

HttpRequest(method, url) ==
  [kind |-> "request", first |-> method, second |-> url, version |-> <<"HTTP/1.1">>,
   headers |-> <<>>, len |-> 0, body |-> <<>>, room |-> 0, state |-> "READY"]

HttpResponse(code, phrase) == [HttpRequest(code, phrase) EXCEPT !.kind = "response"]

\* HttpRequest::Reset and HttpResponse::Reset, of the start line.
ResetStart(m) ==
  IF m.kind = "request" THEN [m EXCEPT !.first = <<"GET">>, !.second = <<>>]
  ELSE [m EXCEPT !.first = 200, !.second = <<"OK">>]

\* The test of _body is inverted: an array, once allocated, stays.
Reset(m) ==
  [ResetStart(m) EXCEPT !.headers = <<>>, !.len = 0, !.version = <<"HTTP/1.1">>,
                        !.state = "READY", !.body = IF m.room = 0 THEN <<>> ELSE @]

Keyed(m, key) == {i \in DOMAIN m.headers : m.headers[i].key = key}

\* A bug to try: the first value stays.
SetHeaderOnce(m, key, value) ==
  IF Keyed(m, key) = {} THEN [m EXCEPT !.headers = Append(@, [key |-> key, value |-> value])] ELSE m

SetHeader(m, key, value) ==
  IF Keyed(m, key) = {} THEN [m EXCEPT !.headers = Append(@, [key |-> key, value |-> value])]
  ELSE [m EXCEPT !.headers[FirstStop(Keyed(m, key))].value = value]

RemoveHeader(m, key) == [m EXCEPT !.headers = SelectSeq(@, LAMBDA h : h.key # key)]

GetHeader(m, key) == m.headers[FirstStop(Keyed(m, key))].value

----------------------------------------------------------------------------
(* Start lines.                                                             *)

DefaultPhrase(code) == CASE code = 200 -> <<"OK">> [] code = 404 -> <<"Not", SP, "Found">>

StartLine(m) ==
  IF m.kind = "request" THEN m.first \o <<SP>> \o m.second \o <<SP>> \o m.version
  ELSE m.version \o <<SP>> \o Spelled(m.first) \o <<SP>>
       \o (IF m.second = <<>> THEN DefaultPhrase(m.first) ELSE m.second)

\* An extraction that finds no word leaves what was there.
ParseRequest(m, line) ==
  LET Taken(s, old) == IF Word(s) = <<>> THEN old ELSE Word(s)
      rest == AfterWord(line)
  IN [m EXCEPT !.first = Taken(line, @), !.second = Taken(rest, @), !.version = Taken(AfterWord(rest), @)]

\* A bug to try: the phrase starts after the first space.
ParseResponseShort(m, line) ==
  IF Find(line, SP) = 0 THEN m
  ELSE [m EXCEPT !.version = Before(line, SP), !.first = NumberIn(After(line, SP)), !.second = After(line, SP)]

ParseResponse(m, line) ==
  LET rest == After(line, SP)
  IN IF Find(line, SP) = 0 THEN m
     ELSE IF Find(rest, SP) = 0 THEN [m EXCEPT !.version = Before(line, SP)]
     ELSE [m EXCEPT !.version = Before(line, SP), !.first = NumberIn(Before(rest, SP)),
                    !.second = After(rest, SP)]

ParseStartLine(m, line) ==
  IF line = <<>> THEN m
  ELSE IF m.kind = "request" THEN ParseRequest(m, line) ELSE ParseResponse(m, line)

----------------------------------------------------------------------------
(* A message and a buffer.                                                  *)

HeaderText(h) == h.key \o <<Colon>> \o h.value \o CRLF

ToBuffer(m, b) ==
  LET lines == FlattenSeq([i \in DOMAIN m.headers |-> HeaderText(m.headers[i])])
      blank == Write(Write(WriteDelimited(b, StartLine(m), CRLF), lines), CRLF)
  IN IF m.len > 0 /\ m.room > 0 THEN Write(blank, m.body) ELSE blank

\* Where parsing got to: the message, the buffer, and "end" when the program
\* ends in an assertion or in an exception that nobody catches.
Parsing(m, b) == [msg |-> m, to |-> b, end |-> FALSE]
Ends(m, b) == [Parsing(m, b) EXCEPT !.end = TRUE]

ReadStartLine(m, b) ==
  LET Started(r) == IF r.ok THEN Parsing([ParseStartLine(m, r.value) EXCEPT !.state = "HEADER"], r.to)
                    ELSE Parsing(m, r.to)
  IN Started(ReadLine(b, CRLF))

\* A message without Content-Length: GetHeader returns a null pointer, from
\* which GetHeaderAsInt constructs a string.
BlankLine(m, b) ==
  IF Keyed(m, ContentLength) = {} THEN Ends(m, b)
  ELSE LET n == NumberIn(GetHeader(m, ContentLength))
       IN Parsing([m EXCEPT !.len = n, !.state = IF n > 0 THEN "BODY" ELSE "DONE"], b)

\* One line of the header: nothing changes when none is complete, when the
\* header is at its end, or when the program is.
HeaderLine(p) ==
  LET r == ReadLine(p.to, CRLF)
  IN IF p.msg.state # "HEADER" \/ p.end THEN p
     ELSE IF ~r.ok THEN Parsing(p.msg, r.to)
     ELSE IF r.value = <<>> THEN BlankLine(p.msg, r.to)
     ELSE IF Find(r.value, Colon) = 0 THEN Ends(p.msg, r.to)
     ELSE Parsing(SetHeader(p.msg, Before(r.value, Colon), After(r.value, Colon)), r.to)

\* What the first lines make of it.
HeaderLines(p) ==
  LET lines[n \in Nat] == IF n = 0 THEN p ELSE HeaderLine(lines[n - 1])
  IN lines

\* A bug to try: one header in a call.
ReadHeaderOnce(m, b) == HeaderLine(Parsing(m, b))

\* All the lines: a complete one has a byte before its delimiter, or is the last.
ReadHeader(m, b) == HeaderLines(Parsing(m, b))[Readable(b)]

\* An array that is there already keeps its size, and is written beyond it.
ReadBody(m, b) ==
  LET r == ReadBytes(b, m.len)
      allocated == [m EXCEPT !.room = IF @ = 0 THEN m.len ELSE @]
  IN IF r.ok THEN Parsing([allocated EXCEPT !.body = r.value, !.state = "DONE"], r.to)
     ELSE Parsing(allocated, r.to)

\* Each part, if parsing has come to it.
StartLineRead(p) == IF p.msg.state = "READY" THEN ReadStartLine(p.msg, p.to) ELSE p
HeaderRead(p) == IF p.msg.state = "HEADER" THEN ReadHeader(p.msg, p.to) ELSE p
BodyRead(p) == IF p.msg.state = "BODY" /\ ~p.end THEN ReadBody(p.msg, p.to) ELSE p

\* What is left in the buffer moves to its front.
Completed(p) == IF p.msg.state = "DONE" /\ ~p.end THEN [p EXCEPT !.to = Flushed(@)] ELSE p

FromBuffer(m, b) == Completed(BodyRead(HeaderRead(StartLineRead(Parsing(m, b)))))
=============================================================================
