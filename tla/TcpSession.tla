----------------------------- MODULE TcpSession -----------------------------
(***************************************************************************)
(* One TCP session that is served by a script: src/tcp (session handlers,  *)
(* output, tcp.request.recv, tcp.response.send), the thread functions of   *)
(* src/core/ngx_squ.c that its events go through, and utils.sleep.  src/udt *)
(* has the same request and response handlers.                             *)
(*                                                                         *)
(* A worker is single threaded: the script runs until it suspends its VM in *)
(* recv, send or sleep or ends; only then does the event loop deliver the  *)
(* next event.  The connection, its events and timers, and the closing of  *)
(* a connection belong to nginx (external).                                *)
(***************************************************************************)
EXTENDS Naturals, Sequences, SequencesExt

CONSTANTS
    PageSize,     \* ngx_pagesize: the least size of an output buffer
    PrintSizes,   \* lengths of what the script prints
    MaxPrinted,   \* bound: bytes the script prints in all
    MaxInput      \* bound: bytes the client sends in all

ASSUME SessionAssumption ==
    /\ PageSize \in Nat \ {0}
    /\ PrintSizes \subseteq Nat \ {0}
    /\ MaxPrinted \in Nat /\ MaxInput \in Nat

VARIABLES
    conn,      \* the connection: "open" or "closed"
    vm,        \* "new", "running", suspended in "recv", "send" or "sleep", "dead"
    ref,       \* thr->ref
    held,      \* references the root VM holds on the thread's VM
    chain,     \* ctx->out: buffers [size, used, data]
    last,      \* position of ctx->last in the chain, 0 for NULL
    printed,   \* bytes printed so far; byte i is the i-th one
    sent,      \* bytes the connection has accepted
    input,     \* bytes the client has sent and the session not yet received
    arrived,   \* bytes the client has sent
    rev,       \* read event: its handler, timer_set and timedout
    wev,       \* write event
    nap,       \* sleep event: handler set, cleanup registered, timer_set
    result     \* what the last call gave the script

outVars == <<chain, last, printed, sent>>
inVars == <<input, arrived>>
vars == <<conn, vm, ref, held, outVars, inVars, rev, wev, nap, result>>

Event == [handler : {"core", "recv", "send", "dummy"},
          timer : BOOLEAN, timedout : BOOLEAN]
Suspended == {"recv", "send", "sleep"}

Quiet == [handler |-> "core", timer |-> FALSE, timedout |-> FALSE]

\* What the chain holds, in the order it would be sent.
Pending == FlattenSeq([i \in DOMAIN chain |-> chain[i].data])

\* ngx_squ_tcp_init_session, on a new connection.
Init ==
    /\ conn = "open" /\ vm = "new" /\ ref = 0 /\ held = 0
    /\ chain = <<>> /\ last = 0 /\ printed = 0 /\ sent = <<>>
    /\ input = 0 /\ arrived = 0
    /\ rev = Quiet /\ wev = Quiet
    /\ nap = [handler |-> FALSE, cleanup |-> FALSE, timer |-> FALSE]
    /\ result = "none"

-----------------------------------------------------------------------------
(* The thread and the end of the session                                    *)

\* ngx_squ_thread_destroy, any number of times.
Release == IF ref = 1 THEN held - 1 ELSE held

\* ngx_tcp_close_connection (external) calls ngx_squ_tcp_close_session, which
\* destroys the thread, deletes the connection's timers and destroys its pool,
\* whose cleanups delete the sleep timer (ngx_squ_sleep_cleanup).
Gone(heldBefore, refBefore) ==
    /\ conn' = "closed" /\ vm' = "dead" /\ ref' = 0
    /\ held' = IF refBefore = 1 THEN heldBefore - 1 ELSE heldBefore
    /\ rev' = Quiet /\ wev' = Quiet
    /\ nap' = [nap EXCEPT !.timer = @ /\ ~nap.cleanup]

Close(heldBefore, refBefore) ==
    Gone(heldBefore, refBefore) /\ UNCHANGED <<outVars, inVars, result>>

\* ngx_squ_tcp_process_session: the script is loaded, a thread created for it
\* and run (ngx_squ_thread_create, ngx_squ_thread_run).
Process ==
    /\ conn = "open" /\ vm = "new"
    /\ ref' = 1 /\ held' = held + 1 /\ vm' = "running"
    /\ UNCHANGED <<conn, outVars, inVars, rev, wev, nap, result>>

\* Loading fails at any step before the thread is created.
LoadFails ==
    /\ conn = "open" /\ vm = "new"
    /\ Close(held, ref)

\* The script returns or throws: ngx_squ_thread_run destroys the thread, and
\* ngx_squ_tcp_finalize closes the connection, which destroys it again.
ScriptEnds ==
    /\ conn = "open" /\ vm = "running"
    /\ Close(Release, 0)

\* nginx closes the connection under a suspended script, as a worker that exits.
CoreCloses ==
    /\ conn = "open" /\ vm \in Suspended
    /\ Close(held, ref)

\* A call that ends at once, or a suspended one that an event ends, leaves the
\* script running with a result.
Continue(r) == vm' = "running" /\ result' = r
Suspend(op) == vm' = op /\ UNCHANGED result

-----------------------------------------------------------------------------
(* Output                                                                   *)

\* ngx_squ_tcp_output: into the last buffer, or into a new one linked after it.
Output(n) ==
    /\ vm = "running" /\ printed + n <= MaxPrinted
    /\ LET bytes == [i \in 1 .. n |-> printed + i]
           room  == IF last = 0 THEN 0 ELSE chain[last].size - chain[last].used
           fresh == [size |-> IF n > PageSize THEN n ELSE PageSize,
                     used |-> n, data |-> bytes]
       IN IF last # 0 /\ room >= n
            THEN /\ chain' = [chain EXCEPT ![last].used = @ + n,
                                           ![last].data = @ \o bytes]
                 /\ UNCHANGED last
            ELSE /\ chain' = Append(SubSeq(chain, 1, last), fresh)
                 /\ last' = last + 1
    /\ printed' = printed + n
    /\ UNCHANGED <<conn, vm, ref, held, sent, inVars, rev, wev, nap, result>>

\* c->send_chain (external) takes the first k pending bytes.
Before(i) == Len(FlattenSeq([j \in 1 .. i - 1 |-> chain[j].data]))
Drop(k) ==
    [i \in DOMAIN chain |->
        LET d == chain[i].data
            g == IF k < Before(i) THEN 0
                 ELSE IF k - Before(i) < Len(d) THEN k - Before(i) ELSE Len(d)
        IN [chain[i] EXCEPT !.data = SubSeq(d, g + 1, Len(d))]]

\* Variant: only the first buffer is rewound.
RewoundFirst ==
    [i \in DOMAIN chain |->
        IF i = 1 THEN [chain[i] EXCEPT !.used = 0, !.data = <<>>] ELSE chain[i]]

\* After everything was sent all buffers are rewound and the first is the last.
Rewound == [i \in DOMAIN chain |-> [chain[i] EXCEPT !.used = 0, !.data = <<>>]]

\* Variant: the write handler stays installed when the call has ended.
WriteDoneArmed(r, timer) ==
    /\ wev' = [wev EXCEPT !.timer = timer]
    /\ Continue(r)

\* ngx_squ_tcp_response_write_handler, in a call of send or on an event.
WriteDone(r, timer) ==
    /\ wev' = [wev EXCEPT !.handler = "dummy", !.timer = timer]
    /\ Continue(r)

WriteHandler ==
    \/ /\ wev.timedout
       /\ WriteDone("failed", wev.timer)
       /\ UNCHANGED <<chain, last, sent>>
    \/ /\ ~wev.timedout
       /\ sent' = sent \o Pending
       /\ chain' = Rewound /\ last' = 1
       /\ WriteDone("sent", FALSE)
    \/ /\ ~wev.timedout
       /\ \E k \in 0 .. Len(Pending) - 1 :
             chain' = Drop(k) /\ sent' = sent \o SubSeq(Pending, 1, k)
       /\ UNCHANGED last
       /\ \/ WriteDone("failed", FALSE)         \* the connection is broken
          \/ WriteDone("failed", TRUE)          \* no event could be added
          \/ /\ wev' = [wev EXCEPT !.handler = "send", !.timer = TRUE]
             /\ Suspend("send")

\* What ngx_squ_tcp_response_send looks at: the first buffer of the chain.
FirstData == IF chain = <<>> THEN <<>> ELSE chain[1].data

SendNothing ==
    /\ vm = "running"
    /\ FirstData = <<>>
    /\ Continue("no data")
    /\ UNCHANGED <<conn, ref, held, outVars, inVars, rev, wev, nap>>

Send ==
    /\ vm = "running"
    /\ FirstData # <<>>
    /\ rev' = [rev EXCEPT !.handler = "dummy"]
    /\ WriteHandler
    /\ UNCHANGED <<conn, ref, held, printed, inVars, nap>>

\* The connection becomes writable or breaks: only the send handler acts.
WriteEvent ==
    /\ conn = "open" /\ vm # "running" /\ wev.handler = "send"
    /\ WriteHandler
    /\ UNCHANGED <<conn, ref, held, printed, inVars, rev, nap>>

\* A write timer expires: nginx sets timedout and calls the handler.
WriteTimeout ==
    /\ conn = "open" /\ vm # "running" /\ wev.timer
    /\ IF wev.handler = "send"
         THEN /\ wev' = [handler |-> "dummy", timer |-> FALSE, timedout |-> TRUE]
              /\ Continue("failed")
         ELSE /\ wev' = [wev EXCEPT !.timer = FALSE, !.timedout = TRUE]
              /\ UNCHANGED <<vm, result>>
    /\ UNCHANGED <<conn, ref, held, outVars, inVars, rev, nap>>

-----------------------------------------------------------------------------
(* Input                                                                    *)

\* ngx_squ_tcp_request_read_handler, in a call of recv or on an event.
ReadDone(r, timer) ==
    /\ rev' = [rev EXCEPT !.handler = "dummy", !.timer = timer]
    /\ Continue(r)

\* Variant: recv waits without a timer.
ReadHandlerUntimed ==
    \/ /\ ~rev.timedout /\ input > 0
       /\ \E k \in 1 .. input : input' = input - k
       /\ ReadDone("received", FALSE)
    \/ /\ ~rev.timedout /\ input = 0
       /\ rev' = [rev EXCEPT !.handler = "recv"]
       /\ Suspend("recv")
       /\ UNCHANGED input

ReadHandler ==
    \/ /\ rev.timedout
       /\ ReadDone("failed", rev.timer)
       /\ UNCHANGED input
    \/ /\ ~rev.timedout /\ input > 0
       /\ \E k \in 1 .. input : input' = input - k
       /\ ReadDone("received", FALSE)
    \/ /\ ~rev.timedout
       /\ ReadDone("failed", FALSE)             \* closed by the client, broken
       /\ UNCHANGED input
    \/ /\ ~rev.timedout /\ input = 0
       /\ \/ ReadDone("failed", TRUE)           \* no event could be added
          \/ /\ rev' = [rev EXCEPT !.handler = "recv", !.timer = TRUE]
             /\ Suspend("recv")
       /\ UNCHANGED input

\* ngx_squ_tcp_request_recv
Recv ==
    /\ vm = "running"
    /\ wev' = [wev EXCEPT !.handler = "dummy"]
    /\ ReadHandler
    /\ UNCHANGED <<conn, ref, held, outVars, arrived, nap>>

\* No memory for a buffer of the size asked for.  One that was too small has been
\* freed by then and stays in s->buffer, where a later and smaller recv would read
\* into it; where input is put is left out here.
RecvNoMemory ==
    /\ vm = "running"
    /\ Continue("failed")
    /\ UNCHANGED <<conn, ref, held, outVars, inVars, rev, wev, nap>>

\* Data has arrived, or the connection has broken.
ReadEvent ==
    /\ conn = "open" /\ vm # "running" /\ rev.handler = "recv"
    /\ ReadHandler
    /\ UNCHANGED <<conn, ref, held, outVars, arrived, wev, nap>>

ReadTimeout ==
    /\ conn = "open" /\ vm # "running" /\ rev.timer
    /\ IF rev.handler = "recv"
         THEN /\ rev' = [handler |-> "dummy", timer |-> FALSE, timedout |-> TRUE]
              /\ Continue("failed")
         ELSE /\ rev' = [rev EXCEPT !.timer = FALSE, !.timedout = TRUE]
              /\ UNCHANGED <<vm, result>>
    /\ UNCHANGED <<conn, ref, held, outVars, inVars, wev, nap>>

ClientSends ==
    /\ conn = "open" /\ arrived < MaxInput
    /\ input' = input + 1 /\ arrived' = arrived + 1
    /\ UNCHANGED <<conn, vm, ref, held, outVars, rev, wev, nap, result>>

-----------------------------------------------------------------------------
(* utils.sleep                                                              *)

\* ngx_squ_sleep: the first call sets the handler and registers the cleanup.
Sleep ==
    /\ vm = "running"
    /\ nap' = [handler |-> TRUE, cleanup |-> nap.cleanup \/ ~nap.handler,
               timer |-> TRUE]
    /\ Suspend("sleep")
    /\ UNCHANGED <<conn, ref, held, outVars, inVars, rev, wev>>

\* No memory for the context, or a time that does not parse.
SleepFails ==
    /\ vm = "running"
    /\ Continue("failed")
    /\ UNCHANGED <<conn, ref, held, outVars, inVars, rev, wev, nap>>

\* No memory for the cleanup: the handler stays set, so that no later call will
\* register one.
SleepHalfFails ==
    /\ vm = "running" /\ ~nap.handler
    /\ nap' = [nap EXCEPT !.handler = TRUE]
    /\ Continue("failed")
    /\ UNCHANGED <<conn, ref, held, outVars, inVars, rev, wev>>

\* ngx_squ_sleep_handler
Wake ==
    /\ vm = "sleep" /\ nap.timer
    /\ nap' = [nap EXCEPT !.timer = FALSE]
    /\ Continue("slept")
    /\ UNCHANGED <<conn, ref, held, outVars, inVars, rev, wev>>

\* A sleep timer that was not deleted fires after the session's pool is gone.
\* What the handler then does to freed memory is not the session's any more.
WakeFreed ==
    /\ vm = "dead" /\ nap.timer
    /\ nap' = [nap EXCEPT !.timer = FALSE]
    /\ UNCHANGED <<conn, vm, ref, held, outVars, inVars, rev, wev, result>>

-----------------------------------------------------------------------------
Next ==
    \/ Process \/ LoadFails \/ ScriptEnds \/ CoreCloses
    \/ \E n \in PrintSizes : Output(n)
    \/ SendNothing \/ Send \/ WriteEvent \/ WriteTimeout
    \/ Recv \/ RecvNoMemory \/ ReadEvent \/ ReadTimeout \/ ClientSends
    \/ Sleep \/ SleepFails \/ SleepHalfFails \/ Wake \/ WakeFreed

Spec == Init /\ [][Next]_vars

\* Armed timers fire.
FairSpec == Spec /\ WF_vars(ReadTimeout) /\ WF_vars(WriteTimeout) /\ WF_vars(Wake)

-----------------------------------------------------------------------------
(* Properties                                                               *)

\* However prints, partial writes, failures and rewinds alternate, no printed
\* byte is lost, repeated or overtaken while the session is open.
OutputInOrder ==
    conn = "open" => sent \o Pending = [i \in 1 .. printed |-> i]

\* Only the event the script waits for can wake it: an event handler that
\* resumes the VM is installed only while the VM is suspended in its call.  A
\* sleep timer outlives its session only where no cleanup could be registered.
WokenByItsOwn ==
    /\ rev.handler = "recv" => vm = "recv"
    /\ wev.handler = "send" => vm = "send"
    /\ nap.timer => vm = "sleep" \/ (vm = "dead" /\ ~nap.cleanup)

\* The reference ngx_squ_thread_create took is given back exactly once, also
\* when ngx_squ_thread_run and the close of the session both destroy the thread.
ReleasedOnce ==
    /\ held = ref
    /\ conn = "closed" => held = 0

\* A suspended script is resumed or its session closed.
CallsEnd == vm \in Suspended ~> vm \notin Suspended

\* send says "no data" only when nothing printed is waiting to be sent.
NoDataMeansNone ==
    [][SendNothing => Pending = <<>>]_vars

=============================================================================
