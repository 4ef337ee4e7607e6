----------------------------- MODULE HttpServer -----------------------------
(***************************************************************************)
(* HttpServer, HttpContext, HttpRequest and HttpResponse (net/http): the   *)
(* server's message callback on one connection, over the part of           *)
(* TcpConnection that orders what is sent (output buffer, then file).      *)
(*                                                                         *)
(* The byte stream is a sequence of tokens.  "crlf" is a line end; a       *)
(* "get11" or "get10" token is a correct request line of that version,     *)
(* "badmethod" and "badversion" are faulty ones; "close", "keep" and       *)
(* "other" are header lines (the first two of Connection); "text" has no   *)
(* colon.  Tokens arrive in chunks of any length, so a chunk ends anywhere *)
(* in a request.  A chunk that ends within a token behaves like one that   *)
(* ends with "text": it does not end with an empty line.                   *)
(***************************************************************************)
EXTENDS Integers, SequencesExt

CONSTANTS
    Streams,      \* what peers may send: sequences of requests, each a
                  \* sequence of kinds
    FileChunks    \* chunks of the file a kJPEG response sends

VARIABLES
    pipelines,    \* TRUE: the peer sends without waiting for responses
    requests,     \* what the peer sends, chosen at the start
    incoming,     \* tokens not delivered yet, with their request's number
    input,        \* the connection's input buffer
    context,      \* HttpContext: m_state and m_request
    conn,         \* TcpConnection: state, output buffer, copier, channel
    answers,      \* history: the responses the connection accepted
    expected,     \* history: what the peer must receive for them
    wire          \* history: what was written to the socket

vars == <<pipelines, requests, incoming, input, context, conn, answers,
          expected, wire>>

NoRequest == [no |-> 0, method |-> "kInvalid", version |-> "kUnknown",
              connection |-> ""]
HttpContext == [state |-> "kExpectRequestLine", request |-> NoRequest]

NoCopier == [no |-> 0, left |-> 0]

-----------------------------------------------------------------------------
(* HttpContext: parsing.                                                   *)

Kinds(tokens) == {tokens[i].kind : i \in DOMAIN tokens}

\* The line ends of a buffer, and the line that ends at e.
Ends(b) == {i \in DOMAIN b : b[i].kind = "crlf"}
LineAt(b, e) == SubSeq(b, Max({i \in Ends(b) : i < e} \cup {0}) + 1, e - 1)
Rest(b, e) == SubSeq(b, e + 1, Len(b))

process_request_line(line) ==
    Len(line) = 1 /\ line[1].kind \in {"get11", "get10"}

\* What set_method and setVersion leave behind, also in a faulty line.
RequestAfter(request, line) ==
    CASE line = <<>> -> request
      [] process_request_line(line) ->
            [request EXCEPT !.no = line[1].no, !.method = "kGet",
                            !.version = line[1].kind]
      [] OTHER ->
            [request EXCEPT !.method =
                IF line[1].kind \in {"get11", "get10", "badversion"}
                THEN "kGet" ELSE "kInvalid"]

HasColon(line) == Kinds(line) \cap {"close", "keep", "other"} # {}

IsConnection(line) == Len(line) = 1 /\ line[1].kind \in {"close", "keep"}

\* Mutant: what lies behind the request is thrown away with it.
DropsRest(request, b) ==
    [buf |-> <<>>, state |-> "kGotAll", request |-> request]

\* The kExpectHeaders part of the loop: header lines are added (the last
\* Connection header counts) up to the first line without a colon.
parse_headers(request, b) ==
    LET stops == {e \in Ends(b) : ~HasColon(LineAt(b, e))}
        last == IF stops # {} THEN Min(stops) ELSE Max(Ends(b) \cup {0})
        added == {e \in Ends(b) : e <= last /\ IsConnection(LineAt(b, e))}
    IN  [buf |-> Rest(b, last),
         state |-> IF stops # {} THEN "kGotAll" ELSE "kExpectHeaders",
         request |-> IF added = {} THEN request
                     ELSE [request EXCEPT
                             !.connection = b[Max(added) - 1].kind]]

\* parse_request: `ok` is set by the request line and by nothing else.
parse_request(c, b) ==
    LET first == Min(Ends(b))
        request == RequestAfter(c.request, LineAt(b, first))
        untouched == [buf |-> b, state |-> c.state, request |-> c.request]
    IN  CASE c.state = "kExpectHeaders" ->
                [ok |-> FALSE, left |-> parse_headers(c.request, b)]
          [] c.state = "kGotAll" \/ Ends(b) = {} ->
                [ok |-> FALSE, left |-> untouched]
          [] OTHER ->
                IF process_request_line(LineAt(b, first))
                  THEN [ok |-> TRUE,
                        left |-> parse_headers(request, Rest(b, first))]
                  ELSE [ok |-> FALSE,
                        left |-> [untouched EXCEPT !.request = request]]

\* Mutant: the state is reset and the request kept.
ResetStateOnly(c) ==
    [state |-> "kExpectRequestLine", request |-> c.request]

reset(c) == HttpContext

-----------------------------------------------------------------------------
(* TcpConnection, as far as it orders what a server sends.                 *)

\* Mutant: sending goes on after shutdown().
SendsAlways(c, item) ==
    [c EXCEPT !.output = Append(@, item), !.writing = TRUE]

\* Mutant: the channel is not told to write.
SendsSilently(c, item) ==
    IF c.state = "kConnected" THEN [c EXCEPT !.output = Append(@, item)] ELSE c

send_buffer(c, item) ==
    IF c.state = "kConnected"
      THEN [c EXCEPT !.output = Append(@, item), !.writing = TRUE]
      ELSE c

\* Mutant: one chunk too many is copied.
OneChunkMore(c, no) ==
    [c EXCEPT !.copier = [no |-> no, left |-> FileChunks + 1], !.writing = TRUE]

enable_zero_copy(c, no) ==
    [c EXCEPT !.copier = [no |-> no, left |-> FileChunks], !.writing = TRUE]

\* shutdown() runs shutdown_in_reactor at once: FIN if nothing is written.
shutdown(c) ==
    IF c.state = "kConnected"
      THEN [c EXCEPT !.state = "kDisconnecting", !.fin = ~c.writing]
      ELSE c

-----------------------------------------------------------------------------
(* HttpServer                                                              *)

close_of(request) ==
    \/ request.connection = "close"
    \/ request.version = "get10" /\ request.connection # "keep"

Answer(no, status, type, close, forced) ==
    [no |-> no, status |-> status, type |-> type, close |-> close,
     forced |-> forced]

\* on_good_request: the user's callback picks the body and may ask to close
\* (as the default 404 callback does).
on_good_request(c, request, type, forced) ==
    LET close == close_of(request) \/ forced
        answer == Answer(request.no, 200, type, close, forced)
        sent == send_buffer(c, answer)
        copied == IF type = "kJPEG" THEN enable_zero_copy(sent, request.no)
                  ELSE sent
    IN  IF close THEN shutdown(copied) ELSE copied

\* Mutant: the last bytes of the buffer are not looked at.
AnyEnd(b) == TRUE

\* peek_last_as_string(4) = "\r\n\r\n"
EndsWithEmptyLine(b) ==
    Len(b) >= 2 /\ Kinds(SubSeq(b, Len(b) - 1, Len(b))) = {"crlf"}

Bad(no) == Answer(no, 400, "kHtml", TRUE, FALSE)

HeadOf(no) == [part |-> "head", no |-> no]
FileOf(no) == [part |-> "file", no |-> no]

\* What the peer must receive for an answer.
BytesOf(answer) ==
    <<HeadOf(answer.no)>>
      \o [i \in 1 .. (IF answer.type = "kJPEG" THEN FileChunks ELSE 0) |->
             FileOf(answer.no)]

\* What the connection is left with once a buffer was parsed.
Respond(parsed, type, forced) ==
    LET c == IF parsed.ok THEN conn
             ELSE shutdown(send_buffer(conn, Bad(Len(answers) + 1)))
    IN  IF parsed.left.state = "kGotAll"
          THEN on_good_request(c, parsed.left.request, type, forced)
          ELSE c

\* default_on_request on the buffer b: 400 when parsing fails, and the
\* response when all of a request was parsed.
default_on_request(b) ==
    IF ~EndsWithEmptyLine(b)
      THEN input' = b /\ UNCHANGED <<context, conn, answers, expected>>
      ELSE \E parsed \in {parse_request(context, b)} :
           \E type \in {"kHtml", "kJPEG"}, forced \in BOOLEAN :
           \E after \in {Respond(parsed, type, forced)} :
               /\ input' = parsed.left.buf
               /\ context' = IF parsed.left.state = "kGotAll"
                             THEN reset(parsed.left)
                             ELSE [state |-> parsed.left.state,
                                   request |-> parsed.left.request]
               /\ conn' = after
               /\ IF after.output = conn.output
                    THEN UNCHANGED <<answers, expected>>
                    ELSE /\ answers' = Append(answers, Last(after.output))
                         /\ expected' = expected \o BytesOf(Last(after.output))

-----------------------------------------------------------------------------
(* The peer and the network.                                               *)

\* A peer that does not pipeline sends a request when the one before is
\* answered completely and the server has not announced to close.
MaySend(n) ==
    \/ pipelines
    \/ /\ \A i \in 1 .. n : incoming[i].no = incoming[1].no
       /\ ~conn.fin
       /\ \/ incoming[1].no = 1
          \/ /\ Len(answers) >= incoming[1].no - 1
             /\ wire = expected
             /\ \A i \in DOMAIN answers : ~answers[i].close

Tokens(rs) ==
    FlattenSeq([i \in DOMAIN rs |->
                  [j \in DOMAIN rs[i] |-> [kind |-> rs[i][j], no |-> i]]])

Init ==
    /\ pipelines \in BOOLEAN
    /\ requests \in Streams
    /\ incoming = Tokens(requests)
    /\ input = <<>>
    /\ context = HttpContext                 \* on_connection
    /\ conn = [state |-> "kConnected", output |-> <<>>, copier |-> NoCopier,
               writing |-> FALSE, sending |-> "kNotSending", fin |-> FALSE]
    /\ answers = <<>> /\ expected = <<>>
    /\ wire = <<>>

Receive(n) ==
    /\ n \in 1 .. Len(incoming)
    /\ MaySend(n)
    /\ \E b \in {input \o SubSeq(incoming, 1, n)} : default_on_request(b)
    /\ incoming' = SubSeq(incoming, n + 1, Len(incoming))
    /\ UNCHANGED <<pipelines, requests, wire>>

\* Mutant: the file is started with the response head still buffered.
FileFirst ==
    /\ conn.writing
    /\ \E k \in 0 .. Len(conn.output) :
          LET copies == conn.copier.left > 0
              left == conn.copier.left - (IF copies THEN 1 ELSE 0)
              done == k = Len(conn.output) /\ left = 0
          IN  /\ wire' = wire
                   \o (IF copies THEN <<FileOf(conn.copier.no)>> ELSE <<>>)
                   \o [i \in 1 .. k |-> HeadOf(conn.output[i].no)]
              /\ conn' = [conn EXCEPT
                    !.output = SubSeq(@, k + 1, Len(@)),
                    !.copier = IF left = 0 THEN NoCopier
                               ELSE [@ EXCEPT !.left = left],
                    !.writing = ~done,
                    !.fin = done /\ conn.state = "kDisconnecting"]
    /\ UNCHANGED <<pipelines, requests, incoming, input, context, answers,
                   expected>>

\* handle_socket_writable: the buffer first, the file only behind it.
Writable ==
    /\ conn.writing
    /\ \E k \in 0 .. Len(conn.output) :
          LET wrote == conn.sending # "kSendingFile"
              buffered == IF wrote THEN SubSeq(conn.output, k + 1, Len(conn.output))
                          ELSE conn.output
              heads == IF wrote THEN SubSeq(conn.output, 1, k) ELSE <<>>
              copies == buffered = <<>> /\ conn.copier # NoCopier
              left == conn.copier.left - 1
              sending == IF copies /\ left > 0 THEN "kSendingFile"
                         ELSE IF copies THEN "kNotSending"
                         ELSE IF ~wrote THEN "kSendingFile"
                         ELSE IF buffered = <<>> THEN "kNotSending"
                         ELSE "kSendingBuffer"
          IN  /\ ~wrote => k = 0
              /\ wire' = wire \o [i \in DOMAIN heads |-> HeadOf(heads[i].no)]
                   \o (IF copies THEN <<FileOf(conn.copier.no)>> ELSE <<>>)
              /\ conn' = [conn EXCEPT
                    !.output = buffered,
                    !.copier = IF ~copies THEN @
                               ELSE IF left = 0 THEN NoCopier
                               ELSE [@ EXCEPT !.left = left],
                    !.sending = sending,
                    !.writing = sending # "kNotSending",
                    !.fin = @ \/ (sending = "kNotSending"
                                    /\ conn.state = "kDisconnecting")]
    /\ UNCHANGED <<pipelines, requests, incoming, input, context, answers,
                   expected>>

Next == (\E n \in 1 .. Len(incoming) : Receive(n)) \/ Writable

\* The peer sends the rest of a request it began, a socket the peer reads from
\* becomes writable, and the loop thread runs the handlers of what is ready.
Spec == Init /\ [][Next]_vars /\ WF_vars(Next)

-----------------------------------------------------------------------------
(* Properties                                                              *)

WellFormed(r) ==
    /\ Len(r) >= 3
    /\ r[1] \in {"get11", "get10"} /\ r[2] = "crlf"
    /\ "text" \notin Range(r)
    /\ {i \in 1 .. Len(r) - 1 : r[i] = "crlf" /\ r[i + 1] = "crlf"}
         = {Len(r) - 1}

(* The type of the server's state.                                         *)
TypeOK ==
    /\ context.state \in {"kExpectRequestLine", "kExpectHeaders", "kGotAll"}
    /\ conn.state \in {"kConnected", "kDisconnecting"}
    /\ conn.sending \in {"kNotSending", "kSendingBuffer", "kSendingFile"}
    /\ conn.copier.left \in 0 .. FileChunks
    /\ Len(answers) <= Len(requests)

(* However the stream is cut into chunks, and pipelined or not, the        *)
(* responses a connection accepts answer its requests one by one in order, *)
(* none skipped and none answered twice.                                   *)
AnswersInOrder == \A i \in DOMAIN answers : answers[i].no = i

(* A request that is correct is never answered 400 because of where its    *)
(* bytes were cut: parse_request forgets its result between calls, and     *)
(* only the test of the last four bytes keeps it from being called early.  *)
Only400ForFaulty ==
    \A i \in DOMAIN answers :
        answers[i].status = 400
            => \E j \in 1 .. i : ~WellFormed(requests[j])

(* Between two messages the context is as new, so that set_method finds    *)
(* kInvalid as it asserts, unless a faulty line was refused, after which   *)
(* the connection is shutting down.                                        *)
ContextClean ==
    /\ context.state = "kExpectRequestLine"
    /\ context # HttpContext => conn.state = "kDisconnecting"

(* Whether a response announces to close is decided by the version and the *)
(* Connection header of its own request, and by the user's callback, never *)
(* by an earlier request of the connection.                                *)
CloseFollowsRequest ==
    \A i \in DOMAIN answers :
        LET r == requests[answers[i].no]
        IN  answers[i].status = 200 /\ WellFormed(r) =>
                answers[i].close = \/ answers[i].forced
                                   \/ "close" \in Range(r)
                                   \/ r[1] = "get10" /\ "keep" \notin Range(r)

(* No response is accepted after one that announced the end of the         *)
(* connection, whatever a pipelining peer still sends.                     *)
NothingAfterClose ==
    \A i \in 1 .. Len(answers) - 1 : ~answers[i].close

(* With a peer that waits for each response, the socket carries the        *)
(* responses one after the other, each file behind its own head and whole, *)
(* as the Content-Length of a keep-alive connection promises.              *)
ResponsesNotMixed == ~pipelines => IsPrefix(wire, expected)

(* A peer that waits and sends only correct requests gets every request    *)
(* answered completely, or the connection is closed behind an answer that  *)
(* announced it.                                                           *)
RequestsAnswered ==
    ~pipelines /\ (\A i \in DOMAIN requests : WellFormed(requests[i]))
        => <>(/\ wire = expected
              /\ \/ Len(answers) = Len(requests)
                 \/ conn.fin /\ \E i \in DOMAIN answers : answers[i].close)

(* One response for each request, in order, none behind the end of the     *)
(* connection, and nothing of a request left over for the next one         *)
(* (default_on_request, HttpContext::reset, TcpConnection::send).          *)
HttpInv == TypeOK /\ AnswersInOrder /\ NothingAfterClose /\ ContextClean

(* An answer depends on its own request alone: 400 and closing (on_request *)
(* and on_good_request) follow from what that request says.                *)
AnswersFitRequests == Only400ForFaulty /\ CloseFollowsRequest
=============================================================================
