---------------------------- MODULE MCHttpServer ----------------------------
(* The streams of the instance: two requests of any kind (correct ones of  *)
(* both versions, with and without a Connection header, and one of each    *)
(* fault), or three that leave the connection open.                        *)
EXTENDS HttpServer

Correct ==
    {<<"get11", "crlf", "crlf">>,
     <<"get11", "crlf", "close", "crlf", "crlf">>,
     <<"get10", "crlf", "other", "crlf", "crlf">>,
     <<"get10", "crlf", "keep", "crlf", "crlf">>}

Faulty ==
    {<<"badversion", "crlf", "crlf">>,
     <<"badmethod", "crlf", "other", "crlf", "crlf">>,
     <<"get11", "crlf", "text", "crlf", "crlf">>,
     <<"get11", "crlf", "crlf", "text">>}

Lasting ==
    {<<"get11", "crlf", "crlf">>,
     <<"get10", "crlf", "keep", "crlf", "crlf">>}

MCStreams == [1 .. 2 -> Correct \cup Faulty] \cup [1 .. 3 -> Lasting]
=============================================================================
