---------------------------- MODULE MCHttpServer ----------------------------
(* Values of HttpServer.                                                    *)
EXTENDS HttpText

Host == <<"Host">>
Sized(m, body) ==
  [SetHeader(m, ContentLength, Spelled(Len(body))) EXCEPT !.len = Len(body), !.room = Len(body), !.body = body]

Get == HttpRequest(<<"GET">>, <<"/a">>)
Post == SetHeader(RemoveHeader(SetHeader(HttpRequest(<<"POST">>, <<"/b">>), <<"Date">>, <<>>), <<"Date">>),
                  Host, <<"h", Colon, "80">>)
Twice == [Sized(Get, <<"x", "y", "z">>) EXCEPT
            !.headers = <<[key |-> Host, value |-> <<"h">>]>> \o @ \o <<[key |-> Host, value |-> <<SP, "i">>]>>]
Answered == SetHeader(HttpResponse(404, <<>>), ContentLength, Spelled(0))

\* Bodies that could be taken for the next request: one that is a request, and
\* ones that end in the ends of lines. A URL with a colon, so that a start line
\* that is read as a header goes on.
Inner == Packed(Sized(Get, <<>>))
Absolute == HttpRequest(<<"POST">>, <<"http", Colon, "b">>)

MCNumbers == {0, 1, 3, 4, 200, 404, Len(Inner)}
MCRequests == {Sized(Get, <<>>), Twice, Sized(Post, <<"x">>), Sized(Post, Inner), Sized(Absolute, Inner),
               Sized(Absolute, <<CR, LF, CR, LF>>)}
OneLength == {Sized(Get, <<>>)}
Bodies == {Sized(Post, <<"x", "y", "z">>)}
TwoBodies == {Sized(Post, <<"x", "y", "z">>), Sized(Post, <<"x", "y", "z", "w">>)}
ClientRequests == {HttpRequest(<<"GET">>, <<"google.com">>)}
ExampleAnswer == HttpResponse(200, <<>>)

\* What the theorems about HttpServer assume, of these values.
ASSUME ValuesFit == RequestsFit(STRING) /\ AnswerFits(STRING)
=============================================================================
