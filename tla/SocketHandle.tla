--------------------------- MODULE SocketHandle ---------------------------
(***************************************************************************)
(* The socket object of core/modules/ngx_squ_socket_module.c.  A handle    *)
(* has a pool of its own and is referred to from four sides: by the        *)
(* userdata a script holds, which the collector of the VM frees at a time  *)
(* of its own; by a cleanup in the pool of the session; by its connection, *)
(* whose events and timers call its handlers; and by itself to the thread  *)
(* it resumes.  Any of them may go first.                                  *)
(*                                                                         *)
(* UDT sockets are TCP sockets with another transport.  Calls that fail    *)
(* before they change anything are not steps.                              *)
(***************************************************************************)
EXTENDS ScriptVm

CONSTANT Handles

VARIABLE sock       \* sock[h]: the ngx_squ_socket_ctx_t of h and its connection

\* conn is the open connection, with the handlers and timers of its events.
Socket ==
    [ctx : {"none", "live", "freed"},     \* the handle's pool
     type : {"tcp", "udp"},
     opened : BOOLEAN,                    \* open got a connection
     thr : BOOLEAN,                       \* ctx->thr
     cln : BOOLEAN,                       \* cln_ctx->ctx points here
     udata : {"none", "held", "dropped"},
     conn : BOOLEAN,
     rh : {"dummy", "read", "udp_read"}, rtimer : BOOLEAN, rtimedout : BOOLEAN,
     wh : {"dummy", "connect", "write"}, wtimer : BOOLEAN, wtimedout : BOOLEAN]

NoSocket ==
    [ctx |-> "none", type |-> "tcp", opened |-> FALSE, thr |-> FALSE,
     cln |-> FALSE, udata |-> "none", conn |-> FALSE,
     rh |-> "dummy", rtimer |-> FALSE, rtimedout |-> FALSE,
     wh |-> "dummy", wtimer |-> FALSE, wtimedout |-> FALSE]

SocketInit == sock = [h \in Handles |-> NoSocket]

Becomes(h, s) == sock' = [sock EXCEPT ![h] = s]

\* ngx_close_connection: the events and timers are gone.
WithoutConn(s) ==
    [s EXCEPT !.conn = FALSE,
              !.rh = "dummy", !.rtimer = FALSE, !.rtimedout = FALSE,
              !.wh = "dummy", !.wtimer = FALSE, !.wtimedout = FALSE]

\* A script that runs holds h.
Holds(h) == vm = Running /\ sock[h].udata = "held"

-----------------------------------------------------------------------------
(* open and connecting                                                      *)

Registered == [NoSocket EXCEPT !.ctx = "live", !.thr = TRUE, !.cln = TRUE]
Connected(type) ==
    [Registered EXCEPT !.type = type, !.opened = TRUE, !.conn = TRUE]

\* The connection is there at once: the script gets its userdata.
SocketOpen(h) ==
    /\ vm = Running /\ sock[h].ctx = "none"
    /\ Becomes(h, [Connected("tcp") EXCEPT !.udata = "held"])
    /\ UNCHANGED vm

SocketOpenWaits(h) ==
    /\ vm = Running /\ sock[h].ctx = "none"
    /\ Becomes(h, [Connected("tcp") EXCEPT !.wh = "connect", !.wtimer = TRUE])
    /\ Suspend("connect", h)

\* A bad address or no connection: the pool is destroyed, and the cleanup that
\* is in the pool of the session already is left as it is.
SocketOpenFails(h) ==
    /\ vm = Running /\ sock[h].ctx = "none"
    /\ Becomes(h, [Registered EXCEPT !.ctx = "freed"])
    /\ UNCHANGED vm

SocketUdpOpen(h) ==
    /\ vm = Running /\ sock[h].ctx = "none"
    /\ Becomes(h, [Connected("udp") EXCEPT !.udata = "held"])
    /\ UNCHANGED vm

\* Variant: the handler stays installed after the connection is there.
SocketConnectHandlerStays(h, s) ==
    /\ s.ctx = "live" /\ s.thr
    /\ Becomes(h, [s EXCEPT !.udata = IF s.wtimedout THEN "none" ELSE "held",
                            !.wtimer = FALSE])
    /\ Resume

\* ngx_squ_socket_connect_handler, with s the handle as its event finds it.  The
\* userdata is made here.  When the session has ended in the meantime the pool
\* goes, but not the connection; what its events do after that is undefined.
SocketConnectHandler(h, s) ==
    \/ /\ s.ctx = "live" /\ s.thr
       /\ Becomes(h, [s EXCEPT !.udata = IF s.wtimedout THEN "none" ELSE "held",
                               !.wtimer = FALSE, !.wh = "dummy"])
       /\ Resume
    \/ /\ s.ctx = "live" /\ ~s.thr
       /\ Becomes(h, [s EXCEPT !.ctx = "freed"])
       /\ UNCHANGED vm

-----------------------------------------------------------------------------
(* send and recv                                                            *)

\* What ngx_squ_socket_write_handler makes of the handle: the send ends (at
\* once, when the event has timed out, now or in an earlier call), or it waits.
WriteEnds(s) ==
    [s EXCEPT !.wh = "dummy", !.wtimer = IF s.wtimedout THEN s.wtimer ELSE FALSE]
WriteWaits(s) == [s EXCEPT !.wtimer = TRUE]

\* ngx_squ_socket_read_handler, in the same way.
ReadEnds(s) ==
    [s EXCEPT !.rh = "dummy", !.rtimer = IF s.rtimedout THEN s.rtimer ELSE FALSE]

\* Variant: no timer for an answer that is to come.
ReadWaitsUntimed(s) == [s EXCEPT !.rtimer = FALSE]

ReadWaits(s) == [s EXCEPT !.rtimer = TRUE]

\* The handler was called from the call itself.
SocketSend(h) ==
    /\ Holds(h) /\ sock[h].conn /\ sock[h].type = "tcp"
    /\ LET s == [sock[h] EXCEPT !.rh = "dummy", !.wh = "write"]
       IN \/ Becomes(h, WriteEnds(s)) /\ UNCHANGED vm
          \/ ~s.wtimedout /\ Becomes(h, WriteWaits(s)) /\ Suspend("send", h)

SocketRecv(h) ==
    /\ Holds(h) /\ sock[h].conn /\ sock[h].type = "tcp"
    /\ LET s == [sock[h] EXCEPT !.rh = "read", !.wh = "dummy"]
       IN \/ Becomes(h, ReadEnds(s)) /\ UNCHANGED vm
          \/ ~s.rtimedout /\ Becomes(h, ReadWaits(s)) /\ Suspend("recv", h)

\* A send on a udp socket ends at once.
SocketUdpRecv(h) ==
    /\ Holds(h) /\ sock[h].conn /\ sock[h].type = "udp"
    /\ LET s == [sock[h] EXCEPT !.rh = "udp_read"]
       IN \/ Becomes(h, ReadEnds(s)) /\ UNCHANGED vm
          \/ ~s.rtimedout /\ Becomes(h, ReadWaits(s)) /\ Suspend("recv", h)

\* The end of a handler that an event has called: the thread is resumed, if the
\* session still has one.
WakeFrom(s) == IF s.thr THEN Resume ELSE UNCHANGED vm

SocketWriteHandler(h, s) ==
    /\ s.ctx = "live"
    /\ \/ Becomes(h, WriteEnds(s)) /\ WakeFrom(s)
       \/ ~s.wtimedout /\ Becomes(h, WriteWaits(s)) /\ UNCHANGED vm

SocketReadHandler(h, s) ==
    /\ s.ctx = "live"
    /\ \/ Becomes(h, ReadEnds(s)) /\ WakeFrom(s)
       \/ ~s.rtimedout /\ Becomes(h, ReadWaits(s)) /\ UNCHANGED vm

\* ngx_squ_socket_udp_read_handler does not loop; what it leaves is the same.
SocketUdpReadHandler(h, s) == SocketReadHandler(h, s)

-----------------------------------------------------------------------------
(* Events                                                                   *)

\* The handler of an event is called, with the handle as the event left it.
OnWrite(h, s) ==
    \/ s.wh = "connect" /\ SocketConnectHandler(h, s)
    \/ s.wh = "write" /\ SocketWriteHandler(h, s)
    \/ s.wh = "dummy" /\ Becomes(h, s) /\ UNCHANGED vm
OnRead(h, s) ==
    \/ s.rh = "read" /\ SocketReadHandler(h, s)
    \/ s.rh = "udp_read" /\ SocketUdpReadHandler(h, s)
    \/ s.rh = "dummy" /\ Becomes(h, s) /\ UNCHANGED vm

\* While a script runs no event is looked at.
SocketWritable(h) ==
    vm # Running /\ sock[h].conn /\ OnWrite(h, sock[h])
SocketReadable(h) ==
    vm # Running /\ sock[h].conn /\ OnRead(h, sock[h])
SocketWriteTimeout(h) ==
    /\ vm # Running /\ sock[h].wtimer
    /\ OnWrite(h, [sock[h] EXCEPT !.wtimer = FALSE, !.wtimedout = TRUE])
SocketReadTimeout(h) ==
    /\ vm # Running /\ sock[h].rtimer
    /\ OnRead(h, [sock[h] EXCEPT !.rtimer = FALSE, !.rtimedout = TRUE])

-----------------------------------------------------------------------------
(* close, the collector, and the end of the session                         *)

SocketClose(h) ==
    /\ Holds(h) /\ sock[h].conn
    /\ Becomes(h, WithoutConn(sock[h]))
    /\ UNCHANGED vm

\* The script keeps no reference to the userdata.
SocketDrop(h) ==
    /\ Holds(h)
    /\ Becomes(h, [sock[h] EXCEPT !.udata = "dropped"])
    /\ UNCHANGED vm

\* Variant: the collector does not tell the cleanup.
SocketGcAlone(h) ==
    /\ sock[h].udata = "dropped"
    /\ Becomes(h, [WithoutConn(sock[h]) EXCEPT !.ctx = "freed", !.udata = "none"])
    /\ UNCHANGED vm

\* ngx_squ_socket_gc: any script of the worker may set off the collector.
SocketGc(h) ==
    /\ sock[h].udata = "dropped"
    /\ Becomes(h, [WithoutConn(sock[h]) EXCEPT !.ctx = "freed", !.udata = "none",
                                               !.cln = FALSE])
    /\ UNCHANGED vm

\* ngx_squ_socket_cleanup: the pool of the session is destroyed.  The script's
\* stack is gone and with it the references to its handles.
SocketCleanup ==
    sock' = [h \in Handles |->
        LET s == sock[h]
        IN [s EXCEPT !.thr = IF s.cln /\ s.ctx = "live" THEN FALSE ELSE s.thr,
                     !.cln = FALSE,
                     !.udata = IF s.udata = "held" THEN "dropped" ELSE s.udata]]

SocketNext ==
    \E h \in Handles :
        \/ SocketOpen(h) \/ SocketOpenWaits(h) \/ SocketOpenFails(h)
        \/ SocketUdpOpen(h) \/ SocketSend(h) \/ SocketRecv(h)
        \/ SocketUdpRecv(h) \/ SocketWritable(h) \/ SocketReadable(h)
        \/ SocketWriteTimeout(h) \/ SocketReadTimeout(h)
        \/ SocketClose(h) \/ SocketDrop(h) \/ SocketGc(h)

-----------------------------------------------------------------------------
(* Properties                                                               *)

SocketTypeOK == sock \in [Handles -> Socket]

\* A handler that resumes the script is installed only while the script waits in
\* the call, and on the handle, that installed it; and while it waits, a timer
\* will call that handler.
SocketWakes ==
    \A h \in Handles :
        LET s == sock[h]
        IN /\ s.thr /\ s.ctx = "live" =>
                 /\ s.wh = "connect" <=> WaitsIn("connect", h)
                 /\ s.wh = "write" <=> WaitsIn("send", h)
                 /\ s.rh # "dummy" <=> WaitsIn("recv", h)
           /\ WaitsOn(h) => s.thr /\ s.ctx = "live" /\ (s.wtimer \/ s.rtimer)

\* Whichever of the collector, the script and the end of the session comes
\* first, nothing is left that leads to a handle that was freed: no userdata, no
\* cleanup and no connection.  Known exceptions: the cleanup of an open that has
\* failed, and the connection of a session that has ended while connecting.
SocketReclaimed ==
    \A h \in Handles :
        LET s == sock[h]
        IN s.ctx # "live" =>
             /\ s.udata = "none"
             /\ s.cln => ~s.opened
             /\ s.conn => s.wh = "connect" /\ vm = Ended

=============================================================================
