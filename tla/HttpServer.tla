------------------------------ MODULE HttpServer ------------------------------
(***************************************************************************)
(* One connection of an http::HttpServer: the requests of a client arrive  *)
(* in reads of any size, TcpConnection::handleRead() puts them in the      *)
(* input buffer and calls onMessage(), which parses one request with an    *)
(* HttpContext of its own and answers.                                     *)
(*                                                                         *)
(* A byte stands for what parsing cannot tell apart: a request line or a   *)
(* header without its end is one byte, the carriage return and the line    *)
(* feed are one each.                                                      *)
(***************************************************************************)
EXTENDS Buffer, SequencesExt

CONSTANTS
    RequestKinds,   \* the requests a client may send
    MaxRequests     \* bound: how many it sends

Versions == {"HTTP/1.0", "HTTP/1.1", "malformed"}
Connections == {"", "close", "Keep-Alive"}

\* The bytes of requests.
Symbol(type, request, value) ==
    [type |-> type, request |-> request, value |-> value]

RequestLine(k, version) == Symbol("requestLine", k, version)
Header(connection) == Symbol("header", 0, connection)
CR == Symbol("CR", 0, "")
LF == Symbol("LF", 0, "")

ASSUME HttpServerAssumption ==
    /\ RequestKinds \subseteq [version: Versions, connection: Connections]
    /\ MaxRequests \in Nat
    /\ {CR, LF} \cup {Header(c) : c \in Connections} \subseteq Byte
    /\ \A k \in 1 .. MaxRequests : {RequestLine(k, v) : v \in Versions} \subseteq Byte

VARIABLES
    requests,       \* what the client sends, in order
    received,       \* how many bytes of it the server has read
    inputBuffer,    \* inputBuffer_ of the connection
    state,          \* its state_
    responses       \* what was sent to the client

vars == <<requests, received, inputBuffer, state, responses>>

-----------------------------------------------------------------------------
(* What the client sends.                                                  *)

Encoded(k) ==
    LET r == requests[k]
    IN  <<RequestLine(k, r.version), CR, LF>>
        \o (IF r.connection = "" THEN <<>> ELSE <<Header(r.connection), CR, LF>>)
        \o <<CR, LF>>

Stream == FlattenSeq([k \in DOMAIN requests |-> Encoded(k)])

Init ==
    /\ requests \in UNION {[1 .. n -> RequestKinds] : n \in 1 .. MaxRequests}
    /\ received = 0
    /\ inputBuffer = NewBuffer
    /\ state = "kConnected"
    /\ responses = <<>>

-----------------------------------------------------------------------------
(* Parsing.                                                                *)

NoRequest == [request |-> 0, version |-> "", connection |-> ""]
NewContext == [state |-> "kExpectRequestLine", request |-> NoRequest]

\* findCRLF(): how many bytes are before the first CRLF, -1 if there is none.
findCRLF(b) ==
    LET c == Content(b)
        ends == {i \in 1 .. Len(c) - 1 : c[i] = CR /\ c[i + 1] = LF}
    IN  IF ends = {} THEN -1
        ELSE CHOOSE i \in 0 .. Len(c) :
                 i + 1 \in ends /\ \A j \in ends : i < j

\* processRequestLine() accepts three words, of known method and version.
IsRequestLine(line) ==
    /\ Len(line) = 1
    /\ line[1].type = "requestLine"
    /\ line[1].value # "malformed"

\* A line without a colon, empty or not, ends the headers.
HasColon(line) == \E i \in DOMAIN line : line[i].type = "header"

Parse(ok, hasMore, context, b) ==
    [ok |-> ok, hasMore |-> hasMore, context |-> context, buffer |-> b]

\* One turn of the while of parseRequest(): a line, if there is one.
ParseLine(p) ==
    LET end == findCRLF(p.buffer)
        line == SubSeq(Content(p.buffer), 1, end)
        rest == retrieve(p.buffer, end + 2)
        request == p.context.request
    IN  IF end = -1
          THEN Parse(p.ok, FALSE, p.context, p.buffer)
        ELSE IF p.context.state = "kExpectRequestLine"
          THEN IF IsRequestLine(line)
                 THEN Parse(TRUE, TRUE,
                            [state |-> "kExpectHeaders",
                             request |-> [request |-> line[1].request,
                                          version |-> line[1].value,
                                          connection |-> request.connection]],
                            rest)
                 ELSE Parse(FALSE, FALSE, p.context, p.buffer)
        ELSE IF HasColon(line)
          THEN Parse(p.ok, TRUE,
                     [p.context EXCEPT !.request =
                         [request EXCEPT !.connection = line[1].value]], rest)
          ELSE Parse(p.ok, FALSE, [p.context EXCEPT !.state = "kGotAll"], rest)

\* while (hasMore).
Turn(p) == IF p.hasMore THEN ParseLine(p) ELSE p

\* parseRequest(): line after line until one is missing or wrong, or the headers
\* end.  A line has two bytes at least, so there are fewer turns than bytes.
parseRequest(context, b) ==
    LET after[n \in 0 .. readableBytes(b) + 1] ==
            IF n = 0 THEN Parse(TRUE, TRUE, context, b) ELSE Turn(after[n - 1])
    IN  after[readableBytes(b) + 1]

-----------------------------------------------------------------------------
(* Answering.                                                              *)

\* TcpConnection::send(), which sends nothing once shutdown() was called.
Send(response) ==
    responses' = IF state = "kConnected" THEN Append(responses, response)
                                         ELSE responses

\* TcpConnection::shutdown().
Shutdown == state' = "kDisconnecting"

\* Mutant: HTTP/1.0 is kept open unless it says so.
AsksToCloseOrNot(r) ==
    \/ r.connection = "close"
    \/ r.version = "HTTP/1.0" /\ r.connection = "Keep-Alive"

AsksToClose(r) ==
    \/ r.connection = "close"
    \/ r.version = "HTTP/1.0" /\ r.connection # "Keep-Alive"

\* onRequest(): httpCallback_ may want to close where the client does not.
OnRequest(r) ==
    \E close \in {AsksToClose(r), TRUE} :
        /\ Send([status |-> "answer", request |-> r.request, close |-> close])
        /\ IF close THEN Shutdown ELSE UNCHANGED state

BadRequest ==
    /\ Send([status |-> "400 Bad Request", request |-> 0, close |-> TRUE])
    /\ Shutdown

\* handleRead() with n bytes, and onMessage() with a new HttpContext.
HandleRead(n) ==
    /\ n <= ReadLimit(inputBuffer)
    /\ received' = received + n
    /\ LET b == readFd(inputBuffer, SubSeq(Stream, received + 1, received + n))
           p == parseRequest(NewContext, b)
       IN  /\ inputBuffer' = p.buffer
           /\ \/ ~p.ok /\ BadRequest
              \/ p.ok /\ p.context.state = "kGotAll" /\ OnRequest(p.context.request)
              \/ /\ p.ok /\ p.context.state # "kGotAll"
                 /\ UNCHANGED <<state, responses>>
    /\ UNCHANGED requests

Next == \E n \in 1 .. Len(Stream) - received : HandleRead(n)

Spec == Init /\ [][Next]_vars

-----------------------------------------------------------------------------
(* Properties.                                                             *)

\* However the reads fall and whatever was retrieved in between, the buffer holds
\* the last bytes that arrived, each once and in order, and stays inside its
\* vector.
InputIsQueue ==
    /\ WellFormed(inputBuffer)
    /\ Content(inputBuffer) =
          SubSeq(Stream, received - readableBytes(inputBuffer) + 1, received)

\* The k-th response answers the k-th request, and only requests that ask to keep
\* the connection are followed by another response: nothing is sent after a
\* response that announced the end, or after a 400.
AnsweredInOrder ==
    \A k \in DOMAIN responses :
        /\ responses[k].status = "answer" =>
              responses[k].request = k /\ requests[k].version # "malformed"
        /\ responses[k].close <=> k = Len(responses) /\ state = "kDisconnecting"
        /\ ~responses[k].close =>
              LET r == requests[k]
              IN  IF r.version = "HTTP/1.1" THEN r.connection # "close"
                                            ELSE r.connection = "Keep-Alive"

\* "错误则发送 BAD REQUEST" (HttpServer.cc:73): who is sent a 400 has sent a
\* malformed request.  Does not hold: a request that arrives in two reads is
\* parsed with two contexts, and the second takes a header for a request line.
BadRequestIsMalformed ==
    \A k \in DOMAIN responses :
        responses[k].status = "400 Bad Request" =>
            requests[k].version = "malformed"

\* "支持管线化" (README.md:13): a client that sends further requests before the
\* answer is answered all the same.  Does not hold: onMessage() answers one request,
\* and the others wait in the input buffer for the next read.
PipelinedAnswered ==
    received = Len(Stream) /\ state = "kConnected" =>
        Len(responses) = Len(requests)
=============================================================================
