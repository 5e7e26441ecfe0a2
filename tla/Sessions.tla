------------------------------ MODULE Sessions ------------------------------
(***************************************************************************)
(* The protocols whose requests scripts answer: src/tcp (TcpSession), its   *)
(* copy src/udt, src/udp, and src/http with its log script.  A session is   *)
(* of one of them.  They share the loading of the script, its thread, the   *)
(* chain of output buffers (ngx_squ_udp_output, ngx_lua_udt_output and      *)
(* ngx_squ_http_output are ngx_squ_tcp_output again) and utils.sleep; they   *)
(* differ in what they send and when they end.                              *)
(*                                                                         *)
(* The request, its header and body filters and the order in which it is   *)
(* freed - cleanups, log handlers, pool - belong to nginx (external).      *)
(***************************************************************************)
EXTENDS TcpSession

VARIABLES
    proto,    \* "tcp", "udt", "udp" or "http"
    head,     \* whether an http request asks for the header only
    stage,    \* "script", "loading" while the script file is read, "reply" while
              \* an http response is sent, "log" while the log script runs, and
              \* "orphan": a read of the file outlives its session
    headers   \* response headers sent: a status, and a length if one is said

webVars == <<proto, head, stage, headers>>
sessionVars == <<vars, webVars>>

SessionsInit ==
    /\ Init
    /\ proto \in {"tcp", "udt", "udp", "http"}
    /\ head \in BOOLEAN /\ (head => proto = "http")
    /\ stage = "script" /\ headers = <<>>

-----------------------------------------------------------------------------
(* The script, whatever the protocol                                        *)

\* ngx_squ_load_script on a script that is not cached: the read of the file is
\* not complete at once.
LoadWaits ==
    /\ conn = "open" /\ vm = "new" /\ stage = "script"
    /\ stage' = "loading"
    /\ UNCHANGED <<vars, proto, head, headers>>

\* ngx_squ_handler: the script is there, at once or after ngx_squ_aio_read_handler.
Starts ==
    /\ stage \in {"script", "loading"} /\ Process
    /\ stage' = "script"
    /\ UNCHANGED <<proto, head, headers>>

\* A script of udp or http prints and sleeps as one of tcp does.  A log script
\* prints to nobody (ngx_squ_http_log_output), and no event is delivered while it
\* runs: it is never woken.
Runs ==
    /\ proto \in {"udp", "http"}
    /\ \/ stage = "script" /\ \E n \in PrintSizes : Output(n)
       \/ Sleep \/ SleepFails \/ SleepHalfFails
       \/ stage # "log" /\ (Wake \/ WakeFreed)
    /\ UNCHANGED webVars

\* The connection of a tcp, udt or udp session is closed while the script is read: the
\* pool with the thread in it is gone, and the read goes on.
ClosesLoading ==
    /\ proto # "http" /\ stage = "loading"
    /\ Close(held, ref)
    /\ stage' = "orphan"
    /\ UNCHANGED <<proto, head, headers>>

\* The read completes.  What ngx_squ_aio_read_handler then does to freed memory
\* is not the session's any more.
ReadFreed ==
    /\ stage = "orphan" /\ stage' = "script"
    /\ UNCHANGED <<vars, proto, head, headers>>

-----------------------------------------------------------------------------
(* tcp and udt                                                              *)

\* As in TcpSession.
Tcp ==
    /\ proto = "tcp" /\ stage = "script"
    /\ Next
    /\ UNCHANGED webVars

\* src/udt: the handlers of a session, of recv and of send are those of tcp on a
\* connection of udt.
UdtSession ==
    Process \/ LoadFails \/ ScriptEnds \/ CoreCloses \/ \E n \in PrintSizes : Output(n)
UdtRequest == Recv \/ RecvNoMemory \/ ReadEvent \/ ReadTimeout \/ ClientSends
UdtResponse == SendNothing \/ Send \/ WriteEvent \/ WriteTimeout

Udt ==
    /\ proto = "udt" /\ stage = "script"
    /\ \/ UdtSession \/ UdtRequest \/ UdtResponse
       \/ Sleep \/ SleepFails \/ SleepHalfFails \/ Wake \/ WakeFreed
    /\ UNCHANGED webVars

\* The file of the script could not be read, or what was read does not compile.
LateLoadFails ==
    /\ proto \in {"tcp", "udt"} /\ stage = "loading"
    /\ LoadFails
    /\ stage' = "script"
    /\ UNCHANGED <<proto, head, headers>>

-----------------------------------------------------------------------------
(* udp                                                                      *)

\* Variant: the datagram is the buffer written last.
DatagramLast == chain[last].data

\* What ngx_squ_udp_finalize sends: the first buffer of the chain.
Datagram == chain[1].data

\* ngx_squ_udp_finalize, whatever the script ended with: one datagram, which may
\* not be accepted, if anything was printed; then the connection is closed.
UdpFinalize(heldBefore) ==
    /\ Gone(heldBefore, 0)
    /\ sent' \in {sent} \cup (IF chain = <<>> THEN {} ELSE {sent \o Datagram})
    /\ stage' = "script"
    /\ UNCHANGED <<chain, last, printed, inVars, result, proto, head, headers>>

\* The script ends, or is not there to be run; before that its connection may be
\* closed under it (ngx_squ_udp_close_session).
Udp ==
    /\ proto = "udp" /\ conn = "open" /\ stage \in {"script", "loading"}
    /\ \/ vm = "running" /\ UdpFinalize(Release)
       \/ vm = "new" /\ UdpFinalize(held)
       \/ CoreCloses /\ UNCHANGED webVars

-----------------------------------------------------------------------------
(* http                                                                     *)

\* Variant: the length is that of the buffer written last.
BodyLengthLast == IF last = 0 THEN 0 ELSE Len(chain[last].data)

\* The sum over ctx->out.
BodyLength == Len(Pending)

\* ngx_squ_http_finalize: what the script ended with is not looked at.  The header
\* of a HEAD request is sent, and the request ended, before the length is known.
\* Where the header cannot be sent the request is ended as well.
HttpFinalize ==
    /\ \/ headers' = Append(headers, [status |-> "ok",
                                      length |-> IF head THEN <<>> ELSE <<BodyLength>>])
       \/ UNCHANGED headers
    /\ stage' = "reply"
    /\ UNCHANGED <<conn, outVars, inVars, rev, wev, result, proto, head>>

\* ngx_squ_http_handler ends before there is a thread: nginx answers with an
\* error page, or with nothing where the header was refused.
HttpRefuses ==
    /\ vm = "new" /\ stage = "script" /\ conn = "open"
    /\ vm' = "dead" /\ stage' = "reply"
    /\ headers' = <<[status |-> "error", length |-> <<>>]>>
    /\ UNCHANGED <<conn, ref, held, outVars, inVars, rev, wev, nap, result, proto, head>>

\* The script is not there to be run once the body of the request was read.
HttpLoadFails ==
    /\ vm = "new" /\ stage \in {"script", "loading"} /\ conn = "open"
    /\ vm' = "dead" /\ HttpFinalize
    /\ UNCHANGED <<ref, held, nap>>

\* The script returns or throws: ngx_squ_thread_run has destroyed the thread.
HttpScriptEnds ==
    /\ vm = "running" /\ stage = "script"
    /\ vm' = "dead" /\ held' = Release /\ ref' = 0 /\ HttpFinalize
    /\ UNCHANGED nap

\* ngx_http_output_filter and ngx_http_writer (external) send the body, if a
\* header was sent that is followed by one, as the connection takes it.
Body == headers # <<>> /\ headers[1].status = "ok" /\ ~head

HttpSends ==
    /\ stage = "reply" /\ Body /\ Pending # <<>>
    /\ \E k \in 1 .. Len(Pending) :
          chain' = Drop(k) /\ sent' = sent \o SubSeq(Pending, 1, k)
    /\ UNCHANGED <<conn, vm, ref, held, last, printed, inVars, rev, wev, nap, result, webVars>>

\* The request is freed, all of it sent or its connection broken: the cleanup
\* (ngx_squ_http_cleanup) destroys the thread again, and the log handler makes one
\* of its own, if the location has a log script that can be loaded.
HttpFreed ==
    /\ stage = "reply" /\ conn = "open"
    /\ \/ Close(held, ref) /\ stage' = "script"
       \/ /\ ref' = 1 /\ held' = held + 1 /\ vm' = "running"
          /\ nap' = [handler |-> FALSE, cleanup |-> FALSE, timer |-> FALSE]
          /\ stage' = "log"
          /\ UNCHANGED <<conn, outVars, inVars, rev, wev, result>>
    /\ UNCHANGED <<proto, head, headers>>

\* Variant: a log thread that is suspended is left to its event.
HttpLoggedWhenDone ==
    /\ stage = "log" /\ conn = "open"
    /\ IF vm = "running" THEN Close(Release, 0)
       ELSE /\ conn' = "closed"
            /\ UNCHANGED <<vm, ref, held, outVars, inVars, rev, wev, nap, result>>
    /\ stage' = "script"
    /\ UNCHANGED <<proto, head, headers>>

\* ngx_squ_http_log_handler destroys the log thread, which has ended or is
\* suspended, and the pool of the request goes.
HttpLogged ==
    /\ stage = "log"
    /\ IF vm = "running" THEN Close(Release, 0) ELSE Close(held, ref)
    /\ stage' = "script"
    /\ UNCHANGED <<proto, head, headers>>

Http ==
    /\ proto = "http"
    /\ \/ HttpRefuses \/ HttpLoadFails \/ HttpScriptEnds
       \/ HttpSends \/ HttpFreed \/ HttpLogged

-----------------------------------------------------------------------------
SessionsNext ==
    \/ LoadWaits \/ Starts \/ Runs \/ ClosesLoading \/ ReadFreed
    \/ Tcp \/ Udt \/ LateLoadFails \/ Udp \/ Http

SessionsSpec == SessionsInit /\ [][SessionsNext]_sessionVars

\* Armed timers fire, and a log handler returns.
FairSessionsSpec ==
    /\ SessionsSpec
    /\ WF_sessionVars((Tcp \/ Udt) /\ (ReadTimeout \/ WriteTimeout \/ Wake))
    /\ WF_sessionVars(Runs /\ Wake)
    /\ WF_sessionVars(Http /\ HttpLogged)

-----------------------------------------------------------------------------
(* Properties                                                               *)

\* Whatever the protocol, what the client is sent is what the script printed from
\* its first byte on, nothing twice and nothing left out, and never anything when
\* the session has ended: a datagram, too, is the beginning of the page.
Answers == INSTANCE Reply WITH open <- conn = "open"
ImplementsReply == Answers!Spec

\* A response has one header, before its body, and the length the header says is
\* that of all the script printed, however it ended: no client waits for bytes that
\* will not come or takes some for the next response.
LengthSaid ==
    proto = "http" =>
        /\ Len(headers) <= 1
        /\ sent # <<>> => headers # <<>> /\ ~head
        /\ \A i \in DOMAIN headers :
              headers[i].length # <<>> => headers[i].length = <<Len(sent \o Pending)>>

=============================================================================
