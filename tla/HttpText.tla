------------------------------ MODULE HttpText ------------------------------
(* The requests and answers of HttpServer whose text says what they are: what
   the theorems of DataProofs assume of them, for a set T of letters.         *)
EXTENDS HttpServer

\* CR and LF come together, but for an LF at the beginning, which a body may
\* have left.
Tidy(s) ==
  \A i \in DOMAIN s :
    /\ s[i] = CR => i + 1 \in DOMAIN s /\ s[i + 1] = LF
    /\ s[i] = LF /\ i > 1 => s[i - 1] = CR

\* No line break is cut at either end.
Whole(s) == Tidy(s) /\ (s # <<>> => s[1] # LF)

\* A text without line breaks.
Plain(s) == \A i \in 1 .. Len(s) : s[i] # CR /\ s[i] # LF

\* A text without t.
Lacks(s, t) == \A i \in 1 .. Len(s) : s[i] # t

\* The letters that the code itself writes.
LettersFit(T) == {CR, LF, SP, Colon, "OK", "Not", "Found"} \subseteq T

\* The spelling of a number is one letter of T, and of no other number.
NumbersFit(T) ==
  /\ \A n \in Numbers : ToString(n) \in T /\ ToString(n) \notin {CR, LF, SP}
  /\ \A n, k \in Numbers : ToString(n) = ToString(k) => n = k

\* A text that can be a word of a start line.
WordFits(T, s) == s \in Seq(T) /\ s # <<>> /\ Plain(s) /\ Lacks(s, SP)

\* A message whose start line says what it is.
StartFits(T, m) ==
  /\ WordFits(T, m.version)
  /\ m.kind = "request" => WordFits(T, m.first) /\ WordFits(T, m.second)
  /\ m.kind = "response" =>
       /\ m.first \in Numbers /\ m.second \in Seq(T) /\ Plain(m.second)
       /\ m.second = <<>> => m.first \in {200, 404}

\* A header that can be sent: its colon is the first one of its line.
HeaderFits(T, h) ==
  /\ h.key \in Seq(T) /\ Plain(h.key) /\ Lacks(h.key, Colon)
  /\ h.value \in Seq(T) /\ Plain(h.value)

\* A message whose text is parsed to what it says: words are words, a key has
\* no colon, only the end of a line breaks it.
MessageFits(T, m) ==
  /\ m.kind \in {"request", "response"} /\ StartFits(T, m)
  /\ m.headers \in Seq([key : Seq(T), value : Seq(T)])
  /\ \A i \in 1 .. Len(m.headers) : HeaderFits(T, m.headers[i])
  /\ m.len > 0 /\ m.room > 0 => m.body \in Seq(T)
  /\ Whole(Packed(m))

\* The last Content-Length of a message is its length.
LengthTold(m) ==
  ContentLength \in DOMAIN HeaderMap(m.headers) => NumberIn(HeaderMap(m.headers)[ContentLength]) = m.len

\* Messages that say what they are.
RequestsFit(T) ==
  /\ LettersFit(T) /\ NumbersFit(T)
  /\ \A m \in Requests : m.kind = "request" /\ MessageFits(T, m) /\ LengthTold(m)

\* No two headers have one key.
DistinctKeys(hs) == \A i, j \in 1 .. Len(hs) : hs[i].key = hs[j].key => i = j

\* An answer that says what it is, each header once.
AnswerFits(T) == LettersFit(T) /\ NumbersFit(T) /\ MessageFits(T, Answer) /\ DistinctKeys(Answer.headers)
=============================================================================
