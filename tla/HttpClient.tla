---------------------------- MODULE HttpClient ----------------------------
(***************************************************************************)
(* The http call of core/modules/ngx_squ_http.c: connect, send a request,  *)
(* read and parse the response over as many reads as it takes, and return  *)
(* its body.  The handlers are those of the smtp call (SmtpClient), with   *)
(* the response parser in the place of the dialogue.                       *)
(*                                                                         *)
(* A response is a sequence of units of its text that the parser tells     *)
(* apart: "eol" is the end of a line, "length" a Content-Length header up  *)
(* to its end of line, "text" anything a line or a body can have, and      *)
(* "bad" what no line of the header may have.  One unit is a unit of room  *)
(* in the response buffer.                                                 *)
(***************************************************************************)
EXTENDS ScriptVm, Integers, Sequences, SequencesExt

CONSTANTS
    Responses,      \* records [units, length]: a response, and what its
                    \* Content-Length says (0 when it has none)
    HttpRoom        \* units that fit the first response buffer

Units == {"text", "eol", "length", "bad"}
NoResponse == [units |-> <<>>, length |-> 0]

\* Unit i is the end of an empty line; the first of them ends the header.
EmptyLine(units, i) == i > 1 /\ units[i] = "eol" /\ units[i - 1] = "eol"

\* Unit i is in the lines between the status line and the end of the header.
InHeaders(units, i) ==
    /\ \E j \in 1 .. i - 1 : units[j] = "eol"
    /\ \A j \in 1 .. i : ~EmptyLine(units, j)

\* A response that has a length says so in its header.
ASSUME HttpAssumption ==
    /\ HttpRoom \in Nat
    /\ \A r \in Responses :
          /\ r.units \in Seq(Units) /\ r.length \in Nat
          /\ r.length # 0 =>
                \E i \in DOMAIN r.units : r.units[i] = "length" /\ InHeaders(r.units, i)

VARIABLES
    http,           \* the ngx_squ_http_ctx_t of the call and its connection
    fetched         \* the response and body of the last call that returned one

httpVars == <<http, fetched>>

Steps == {"status_line", "headers", "body"}

NoHttp ==
    [conn |-> FALSE, rh |-> "dummy", rtimer |-> FALSE,
     wh |-> "dummy", wtimer |-> FALSE, at |-> "out", left |-> 0,
     response |-> NoResponse,   \* what the server will send
     read |-> 0,                \* how much of it has been read,
     parsed |-> 0,              \* and parsed (response->pos)
     step |-> "status_line",
     start |-> TRUE,            \* the parser is at the start of a line
     length |-> 0,              \* ctx->content_length, what is still to come
     bodyStart |-> 0,           \* ctx->body_start
     header |-> -1,             \* read when the buffer was changed, or -1
     size |-> HttpRoom]         \* of the response buffer

Http ==
    [conn : BOOLEAN, rh : {"dummy", "read"}, rtimer : BOOLEAN,
     wh : {"dummy", "connect", "write"}, wtimer : BOOLEAN,
     at : {"out", "read", "got", "parse", "write", "put"}, left : 0 .. 2,
     response : Responses \cup {NoResponse},
     read : Nat, parsed : Nat, step : Steps, start : BOOLEAN, length : Int,
     bodyStart : Nat, header : Int, size : Nat]

HttpInit == http = NoHttp /\ fetched = [response |-> NoResponse, body |-> <<>>]

HttpBecomes(r) == http' = r /\ UNCHANGED <<fetched, vm>>

-----------------------------------------------------------------------------
(* finalize                                                                 *)

\* Variant: what was in the first buffer is not put before the rest.
BodyOfLast(r) == SubSeq(r.response.units,
                        (IF r.header = -1 THEN r.bodyStart ELSE r.header) + 1, r.read)

\* The body the script is given: what follows the header in the buffer, and what
\* is in the second buffer when there is one.
Body(r) ==
    IF r.header = -1 THEN SubSeq(r.response.units, r.bodyStart + 1, r.read)
    ELSE SubSeq(r.response.units, r.bodyStart + 1, r.header)
            \o SubSeq(r.response.units, r.header + 1, r.read)

\* ngx_squ_http_finalize from a handler: the cleanup is told, the connection is
\* closed, the pool destroyed and the script goes on with the result.
HttpDone ==
    /\ http' = NoHttp /\ fetched' = [response |-> http.response, body |-> Body(http)]
    /\ Resume
HttpFails == http' = NoHttp /\ UNCHANGED fetched /\ Resume

\* ngx_squ_http_cleanup finalizes a call that was not finished.
HttpCleanup == http' = NoHttp /\ UNCHANGED fetched

-----------------------------------------------------------------------------
(* The response parser                                                      *)

Next1(r) == r.response.units[r.parsed + 1]

\* parse_status_line, for one unit.
ParseStatusLine(r) ==
    [r EXCEPT !.parsed = r.parsed + 1,
              !.step = IF Next1(r) = "eol" THEN "headers" ELSE "status_line"]

\* parse_header_line and parse_headers, for one unit.  An empty line ends the
\* header; the first Content-Length that is not 0 counts.
ParseHeaders(r) ==
    LET ends == Next1(r) = "eol" /\ r.start
    IN [r EXCEPT !.parsed = r.parsed + 1,
                 !.start = (Next1(r) = "eol"),
                 !.step = IF ends THEN "body" ELSE "headers",
                 !.bodyStart = IF ends THEN r.parsed + 1 ELSE r.bodyStart,
                 !.length = IF Next1(r) = "length" /\ r.length = 0
                              THEN r.response.length ELSE r.length]

\* parse_response, for the body: where what is to come does not fit behind what
\* is there, it gets a buffer of its own.
ParseBody(r) ==
    LET rest == IF r.length > 0 THEN r.length - (r.read - r.parsed) ELSE r.length
        room == r.size - (r.read - (IF r.header = -1 THEN 0 ELSE r.header))
        s == [r EXCEPT !.length = rest,
                       !.parsed = IF r.length > 0 THEN r.read ELSE r.parsed]
    IN IF rest > 0 /\ rest > room THEN [s EXCEPT !.header = r.read, !.size = rest]
       ELSE s

-----------------------------------------------------------------------------
(* The handlers                                                             *)

\* The timer of an event that has not timed out is deleted when its handler is
\* entered.
HttpEnterRead(r) == [r EXCEPT !.at = "read", !.rtimer = FALSE]
HttpEnterWrite(r) == [r EXCEPT !.at = "write", !.wtimer = FALSE]

\* connect_handler, when the connection is there: the request is made.
HttpConnect(r) == HttpEnterWrite([r EXCEPT !.wh = "write", !.left = 2])

Fetch ==
    /\ vm = Running /\ ~http.conn
    /\ \E resp \in Responses :
           LET r == [NoHttp EXCEPT !.conn = TRUE, !.response = resp]
           IN \/ http' = HttpConnect(r)
              \/ http' = [r EXCEPT !.wh = "connect", !.wtimer = TRUE]
    /\ Suspend("http", "http")
    /\ UNCHANGED fetched

HttpWriting == http.at \in {"write", "put"}

\* write_handler: send takes a part, everything, or nothing for now.
HttpWritePart ==
    /\ HttpWriting /\ http.left = 2
    /\ HttpBecomes([http EXCEPT !.at = "write", !.left = 1])
HttpWriteAll ==
    /\ HttpWriting
    /\ HttpBecomes(HttpEnterRead([http EXCEPT !.rh = "read", !.wh = "dummy", !.left = 0]))
HttpWriteAgain ==
    /\ http.at = "write"
    /\ HttpBecomes([http EXCEPT !.at = "out", !.wtimer = TRUE])
HttpWriteFails == HttpWriting /\ HttpFails

HttpReading == http.at \in {"read", "got"}

\* What is free in the buffer that is read into.
Room == http.size - (http.read - (IF http.header = -1 THEN 0 ELSE http.header))

\* read_handler: recv has some units, nothing for now, or the end.
HttpReadSome ==
    /\ HttpReading
    /\ \E k \in 1 .. Room :
          /\ http.read + k <= Len(http.response.units)
          /\ HttpBecomes([http EXCEPT !.at = "parse", !.read = http.read + k])
HttpReadAgain ==
    /\ http.at = "read" /\ Room > 0
    /\ HttpBecomes([http EXCEPT !.at = "out", !.rtimer = TRUE])

\* The end of the connection, an error, no room for a header, or no memory.
HttpReadFails == HttpReading /\ HttpFails

\* parse_response, one unit of the header at a time; at the end of what was read
\* the loop of read_handler goes on.
HttpParseHeader ==
    /\ http.at = "parse" /\ http.step # "body"
    /\ \/ /\ http.parsed < http.read /\ Next1(http) # "bad"
          /\ HttpBecomes(IF http.step = "status_line" THEN ParseStatusLine(http)
                         ELSE ParseHeaders(http))
       \/ http.parsed < http.read /\ Next1(http) = "bad" /\ HttpFails
       \/ http.parsed = http.read /\ HttpBecomes([http EXCEPT !.at = "read"])
HttpParseBody ==
    /\ http.at = "parse" /\ http.step = "body"
    /\ LET r == ParseBody(http)
       IN \/ r.length > 0 /\ HttpBecomes([r EXCEPT !.at = "read"])
          \/ r.header # http.header /\ HttpFails      \* no memory for the buffer
          \/ r.length <= 0 /\ HttpDone

HttpHandler ==
    \/ HttpWritePart \/ HttpWriteAll \/ HttpWriteAgain \/ HttpWriteFails
    \/ HttpReadSome \/ HttpReadAgain \/ HttpReadFails
    \/ HttpParseHeader \/ HttpParseBody

-----------------------------------------------------------------------------
(* Events                                                                   *)

HttpEvent == vm # Running /\ http.conn /\ http.at = "out"

HttpReadable ==
    /\ HttpEvent /\ http.rh = "read"
    /\ HttpBecomes([HttpEnterRead(http) EXCEPT !.at = "got"])

HttpWritable ==
    /\ HttpEvent
    /\ \/ http.wh = "connect" /\ HttpBecomes(HttpConnect(http))
       \/ http.wh = "write" /\ HttpBecomes([HttpEnterWrite(http) EXCEPT !.at = "put"])

HttpReadTimeout == HttpEvent /\ http.rtimer /\ http.rh = "read" /\ HttpFails
HttpWriteTimeout == HttpEvent /\ http.wtimer /\ http.wh # "dummy" /\ HttpFails

HttpNext ==
    \/ Fetch \/ HttpHandler
    \/ HttpReadable \/ HttpWritable \/ HttpReadTimeout \/ HttpWriteTimeout

-----------------------------------------------------------------------------
(* Properties                                                               *)

HttpTypeOK == http \in Http

\* However the response comes in pieces, a body that is returned is what follows
\* the first empty line of the response, without a gap, and has at least as much as the
\* header promised; reading stays inside the buffer.
HeaderEnd(units) ==
    CHOOSE i \in 1 .. Len(units) :
        EmptyLine(units, i) /\ \A j \in 1 .. i - 1 : ~EmptyLine(units, j)
BodyWhole ==
    /\ http.read - (IF http.header = -1 THEN 0 ELSE http.header) <= http.size
    /\ fetched.response # NoResponse =>
         LET units == fetched.response.units
         IN /\ IsPrefix(fetched.body, SubSeq(units, HeaderEnd(units) + 1, Len(units)))
            /\ Len(fetched.body) >= fetched.response.length

\* The script waits for the call as long as there is one, and when nothing of it
\* runs, a timer is set whose handler will end it.
HttpWakes ==
    /\ http.conn <=> WaitsOn("http")
    /\ http.conn /\ http.at = "out" =>
          \/ http.rtimer /\ http.rh = "read"
          \/ http.wtimer /\ http.wh # "dummy"

=============================================================================
