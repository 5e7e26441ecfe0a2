--------------------------- MODULE SessionsProofs ---------------------------
(***************************************************************************)
(* That in a session of any protocol, and in the log script of an http     *)
(* request, a suspended script is woken only by what it waits for, and     *)
(* the reference to its thread is given back exactly once, however much is *)
(* printed, sent and received: first of tcp by itself, then of them all,   *)
(* whose steps are those of tcp but for the stages of http.                *)
(*                                                                         *)
(* Then that what is sent is what was printed, from the first byte on and  *)
(* in order, that an http header says its length, and that a session of    *)
(* any protocol implements Reply.  What a chain of buffers holds is a      *)
(* recursive join of its parts; it is followed by an induction over the    *)
(* positions of the chain, with the offset at which each buffer begins.    *)
(***************************************************************************)
EXTENDS Sessions, FiniteSetTheorems, SequenceTheorems, WellFoundedInduction, TLAPS

-----------------------------------------------------------------------------
(* A tcp session                                                            *)

Alive == {"running"} \cup Suspended

\* The parts of the state the argument looks at.
Typed ==
    /\ conn \in {"open", "closed"}
    /\ vm \in {"new", "dead"} \cup Alive
    /\ rev \in Event /\ wev \in Event
    /\ nap \in [handler : BOOLEAN, cleanup : BOOLEAN, timer : BOOLEAN]

\* A thread exists, and is referenced once, from the start of the script to its
\* end, and the end of the script is the end of the session.
Life ==
    /\ conn = "closed" <=> vm = "dead"
    /\ vm \in Alive => ref = 1 /\ held = 1
    /\ vm \notin Alive => ref = 0 /\ held = 0

IInv == Typed /\ Life /\ WokenByItsOwn

\* A connection starts with no thread and no handler of a call.
LEMMA InitIInv == Init => IInv
BY DEF Init, IInv, Typed, Life, WokenByItsOwn, Alive, Suspended, Event, Quiet

\* Closing the session releases the thread, if there is one, and disarms every
\* event, but for a sleep timer without a cleanup.
LEMMA CloseStep ==
    ASSUME IInv, NEW h, NEW r \in {0, 1}, Gone(h, r),
           r = 1 => h = 1, r = 0 => h = 0,
           nap.timer /\ nap.cleanup => vm = "sleep"
    PROVE  IInv'
<1> USE DEF IInv
<1>1. /\ conn' = "closed" /\ vm' = "dead" /\ ref' = 0
      /\ rev' = Quiet /\ wev' = Quiet
      /\ nap' = [nap EXCEPT !.timer = @ /\ ~nap.cleanup]
  BY DEF Gone
<1>2. held' = 0
  BY DEF Gone
<1>3. Typed'
  BY <1>1 DEF Typed, Quiet, Event
<1>4. Life'
  BY <1>1, <1>2 DEF Life, Alive, Suspended
<1>5. nap'.timer => vm' = "dead" /\ ~nap'.cleanup
  BY <1>1 DEF Typed
<1> QED
  BY <1>1, <1>3, <1>4, <1>5 DEF WokenByItsOwn, Quiet

\* The four ways in which a session starts and ends.
LEMMA SessionStep ==
    ASSUME IInv, Process \/ LoadFails \/ ScriptEnds \/ CoreCloses
    PROVE  IInv'
<1> USE DEF IInv
<1>1. CASE Process
  BY <1>1 DEF Process, Typed, Life, WokenByItsOwn, Alive, Suspended
<1>2. CASE LoadFails
  <2>1. Gone(held, ref) /\ ref = 0 /\ held = 0
    BY <1>2 DEF LoadFails, Close, Life, Alive, Suspended
  <2> QED
    BY <2>1, CloseStep DEF WokenByItsOwn
<1>3. CASE ScriptEnds
  <2>1. Gone(Release, 0) /\ Release = 0
    BY <1>3 DEF ScriptEnds, Close, Life, Alive, Release
  <2> QED
    BY <2>1, CloseStep DEF WokenByItsOwn
<1>4. CASE CoreCloses
  <2>1. Gone(held, ref) /\ ref = 1 /\ held = 1
    BY <1>4 DEF CoreCloses, Close, Life, Alive
  <2> QED
    BY <2>1, CloseStep DEF WokenByItsOwn
<1> QED
  BY <1>1, <1>2, <1>3, <1>4

\* What a step inside the life of a thread leaves alone.
LEMMA ThreadStays ==
    ASSUME IInv, vm \in Alive, vm' \in Alive, UNCHANGED <<conn, ref, held>>
    PROVE  Life'
BY DEF IInv, Life, Alive, Suspended

\* The write handler suspends the script only with itself as the handler.
LEMMA WriteStep ==
    ASSUME IInv, WriteHandler
    PROVE  /\ wev' \in Event
           /\ \/ vm' = "running" /\ wev'.handler = "dummy"
              \/ vm' = "send" /\ wev'.handler = "send"
BY DEF IInv, Typed, WriteHandler, WriteDone, Continue, Suspend, Event

\* So does the read handler.
LEMMA ReadStep ==
    ASSUME IInv, ReadHandler
    PROVE  /\ rev' \in Event
           /\ \/ vm' = "running" /\ rev'.handler = "dummy"
              \/ vm' = "recv" /\ rev'.handler = "recv"
BY DEF IInv, Typed, ReadHandler, ReadDone, Continue, Suspend, Event

\* Printing, a send of nothing, and a recv without memory.
LEMMA PrintStep ==
    ASSUME IInv, (\E n \in PrintSizes : Output(n)) \/ SendNothing \/ RecvNoMemory
    PROVE  IInv'
<1>1. vm = "running" /\ vm' = "running" /\ UNCHANGED <<conn, ref, held, rev, wev, nap>>
  BY DEF Output, SendNothing, RecvNoMemory, Continue
<1> QED
  BY <1>1 DEF IInv, Typed, Life, WokenByItsOwn, Alive, Suspended

\* The calls and events of send.
LEMMA SendStep ==
    ASSUME IInv, Send \/ WriteEvent \/ WriteTimeout
    PROVE  IInv'
<1>1. CASE Send
  <2>1. /\ vm = "running" /\ UNCHANGED <<conn, ref, held, nap>>
        /\ rev' = [rev EXCEPT !.handler = "dummy"]
    BY <1>1 DEF Send
  <2>2. /\ wev' \in Event
        /\ \/ vm' = "running" /\ wev'.handler = "dummy"
           \/ vm' = "send" /\ wev'.handler = "send"
    BY <1>1, WriteStep DEF Send
  <2>3. Typed'
    BY <2>1, <2>2 DEF IInv, Typed, Event, Alive, Suspended
  <2>4. Life'
    BY <2>1, <2>2, ThreadStays DEF Alive, Suspended
  <2>5. rev'.handler = "dummy" /\ ~nap.timer
    BY <2>1 DEF IInv, Typed, Event, WokenByItsOwn
  <2> QED
    BY <2>1, <2>2, <2>3, <2>4, <2>5 DEF IInv, WokenByItsOwn
<1>2. CASE WriteEvent
  <2>1. /\ vm = "send" /\ UNCHANGED <<conn, ref, held, rev, nap>>
    BY <1>2 DEF WriteEvent, IInv, WokenByItsOwn
  <2>2. /\ wev' \in Event
        /\ \/ vm' = "running" /\ wev'.handler = "dummy"
           \/ vm' = "send" /\ wev'.handler = "send"
    BY <1>2, WriteStep DEF WriteEvent
  <2>3. Typed'
    BY <2>1, <2>2 DEF IInv, Typed, Event, Alive, Suspended
  <2>4. Life'
    BY <2>1, <2>2, ThreadStays DEF Alive, Suspended
  <2>5. rev.handler # "recv" /\ ~nap.timer
    BY <2>1 DEF IInv, WokenByItsOwn
  <2> QED
    BY <2>1, <2>2, <2>3, <2>4, <2>5 DEF IInv, WokenByItsOwn
<1>3. CASE WriteTimeout
  <2>1. UNCHANGED <<conn, ref, held, rev, nap>>
    BY <1>3 DEF WriteTimeout
  <2>2. CASE wev.handler = "send"
    <3>1. /\ vm = "send" /\ vm' = "running"
          /\ wev' = [handler |-> "dummy", timer |-> FALSE, timedout |-> TRUE]
      BY <1>3, <2>2 DEF WriteTimeout, Continue, IInv, WokenByItsOwn
    <3>2. Typed'
      BY <2>1, <3>1 DEF IInv, Typed, Event, Alive
    <3>3. Life'
      BY <2>1, <3>1, ThreadStays DEF Alive, Suspended
    <3> QED
      BY <2>1, <3>1, <3>2, <3>3 DEF IInv, WokenByItsOwn
  <2>3. CASE wev.handler # "send"
    <3>1. vm' = vm /\ wev' = [wev EXCEPT !.timer = FALSE, !.timedout = TRUE]
      BY <1>3, <2>3 DEF WriteTimeout
    <3>2. wev'.handler = wev.handler /\ wev' \in Event
      BY <3>1 DEF IInv, Typed, Event
    <3> QED
      BY <2>1, <3>1, <3>2 DEF IInv, Typed, Life, WokenByItsOwn
  <2> QED
    BY <2>2, <2>3
<1> QED
  BY <1>1, <1>2, <1>3

\* The calls and events of recv, and the arrival of data.
LEMMA RecvStep ==
    ASSUME IInv, Recv \/ ReadEvent \/ ReadTimeout
    PROVE  IInv'
<1>1. CASE Recv
  <2>1. /\ vm = "running" /\ UNCHANGED <<conn, ref, held, nap>>
        /\ wev' = [wev EXCEPT !.handler = "dummy"]
    BY <1>1 DEF Recv
  <2>2. /\ rev' \in Event
        /\ \/ vm' = "running" /\ rev'.handler = "dummy"
           \/ vm' = "recv" /\ rev'.handler = "recv"
    BY <1>1, ReadStep DEF Recv
  <2>3. Typed'
    BY <2>1, <2>2 DEF IInv, Typed, Event, Alive, Suspended
  <2>4. Life'
    BY <2>1, <2>2, ThreadStays DEF Alive, Suspended
  <2>5. wev'.handler = "dummy" /\ ~nap.timer
    BY <2>1 DEF IInv, Typed, Event, WokenByItsOwn
  <2> QED
    BY <2>1, <2>2, <2>3, <2>4, <2>5 DEF IInv, WokenByItsOwn
<1>2. CASE ReadEvent
  <2>1. /\ vm = "recv" /\ UNCHANGED <<conn, ref, held, wev, nap>>
    BY <1>2 DEF ReadEvent, IInv, WokenByItsOwn
  <2>2. /\ rev' \in Event
        /\ \/ vm' = "running" /\ rev'.handler = "dummy"
           \/ vm' = "recv" /\ rev'.handler = "recv"
    BY <1>2, ReadStep DEF ReadEvent
  <2>3. Typed'
    BY <2>1, <2>2 DEF IInv, Typed, Event, Alive, Suspended
  <2>4. Life'
    BY <2>1, <2>2, ThreadStays DEF Alive, Suspended
  <2>5. wev.handler # "send" /\ ~nap.timer
    BY <2>1 DEF IInv, WokenByItsOwn
  <2> QED
    BY <2>1, <2>2, <2>3, <2>4, <2>5 DEF IInv, WokenByItsOwn
<1>3. CASE ReadTimeout
  <2>1. UNCHANGED <<conn, ref, held, wev, nap>>
    BY <1>3 DEF ReadTimeout
  <2>2. CASE rev.handler = "recv"
    <3>1. /\ vm = "recv" /\ vm' = "running"
          /\ rev' = [handler |-> "dummy", timer |-> FALSE, timedout |-> TRUE]
      BY <1>3, <2>2 DEF ReadTimeout, Continue, IInv, WokenByItsOwn
    <3>2. Typed'
      BY <2>1, <3>1 DEF IInv, Typed, Event, Alive
    <3>3. Life'
      BY <2>1, <3>1, ThreadStays DEF Alive, Suspended
    <3> QED
      BY <2>1, <3>1, <3>2, <3>3 DEF IInv, WokenByItsOwn
  <2>3. CASE rev.handler # "recv"
    <3>1. vm' = vm /\ rev' = [rev EXCEPT !.timer = FALSE, !.timedout = TRUE]
      BY <1>3, <2>3 DEF ReadTimeout
    <3>2. rev'.handler = rev.handler /\ rev' \in Event
      BY <3>1 DEF IInv, Typed, Event
    <3> QED
      BY <2>1, <3>1, <3>2 DEF IInv, Typed, Life, WokenByItsOwn
  <2> QED
    BY <2>2, <2>3
<1> QED
  BY <1>1, <1>2, <1>3

\* The client's data changes nothing but the input.
LEMMA ClientStep ==
    ASSUME IInv, ClientSends
    PROVE  IInv'
BY DEF IInv, ClientSends, Typed, Life, WokenByItsOwn

\* sleep, its failures, and the timer, in time or too late.
LEMMA SleepStep ==
    ASSUME IInv, Sleep \/ SleepFails \/ SleepHalfFails \/ Wake \/ WakeFreed
    PROVE  IInv'
<1>1. UNCHANGED <<conn, ref, held, rev, wev>>
  BY DEF Sleep, SleepFails, SleepHalfFails, Wake, WakeFreed
<1>2. nap' \in [handler : BOOLEAN, cleanup : BOOLEAN, timer : BOOLEAN]
  <2>1. nap \in [handler : BOOLEAN, cleanup : BOOLEAN, timer : BOOLEAN]
    BY DEF IInv, Typed
  <2>2. CASE Sleep
    <3>1. (nap.cleanup \/ ~nap.handler) \in BOOLEAN
      OBVIOUS
    <3>2. nap' = [handler |-> TRUE, cleanup |-> nap.cleanup \/ ~nap.handler,
                  timer |-> TRUE]
      BY <2>2 DEF Sleep
    <3> QED
      BY <3>1, <3>2
  <2>3. CASE ~Sleep
    BY <2>1, <2>3 DEF SleepFails, SleepHalfFails, Wake, WakeFreed
  <2> QED
    BY <2>2, <2>3
<1>3. CASE Sleep
  <2>1. vm = "running" /\ vm' = "sleep"
    BY <1>3 DEF Sleep, Suspend
  <2> QED
    BY <1>1, <1>2, <2>1 DEF IInv, Typed, Life, WokenByItsOwn, Alive, Suspended
<1>4. CASE SleepFails \/ SleepHalfFails
  <2>1. vm = "running" /\ vm' = "running" /\ nap'.timer = nap.timer
    BY <1>4 DEF SleepFails, SleepHalfFails, Continue, IInv, Typed
  <2> QED
    BY <1>1, <1>2, <2>1 DEF IInv, Typed, Life, WokenByItsOwn, Alive, Suspended
<1>5. CASE Wake
  <2>1. vm = "sleep" /\ vm' = "running" /\ nap'.timer = FALSE
    BY <1>5 DEF Wake, Continue, IInv, Typed
  <2> QED
    BY <1>1, <1>2, <2>1 DEF IInv, Typed, Life, WokenByItsOwn, Alive, Suspended
<1>6. CASE WakeFreed
  <2>1. vm = "dead" /\ vm' = "dead" /\ nap'.timer = FALSE
    BY <1>6 DEF WakeFreed, IInv, Typed
  <2> QED
    BY <1>1, <1>2, <2>1 DEF IInv, Typed, Life, WokenByItsOwn, Alive, Suspended
<1> QED
  BY <1>3, <1>4, <1>5, <1>6

\* No step of a session breaks the invariant.
LEMMA NextIInv == IInv /\ [Next]_vars => IInv'
<1> SUFFICES ASSUME IInv, [Next]_vars PROVE IInv'
  OBVIOUS
<1>1. CASE UNCHANGED vars
  BY <1>1 DEF vars, outVars, inVars, IInv, Typed, Life, WokenByItsOwn
<1>2. CASE Next
  BY <1>2, SessionStep, PrintStep, SendStep, RecvStep, ClientStep, SleepStep DEF Next
<1> QED
  BY <1>1, <1>2

\* The inductive invariant of a session.
THEOREM InductiveInvariant == Spec => []IInv
BY InitIInv, NextIInv, PTL DEF Spec

\* An event handler that resumes the script is installed only while the script
\* waits in the call that installed it, and only a sleep without a cleanup can
\* outlive its session: read_handler, write_handler and sleep_handler never
\* find a running VM, which ngx_squ_thread_run would destroy.
THEOREM WokenOnlyByItsOwn == Spec => []WokenByItsOwn
<1>1. IInv => WokenByItsOwn
  BY DEF IInv
<1> QED
  BY <1>1, InductiveInvariant, PTL

\* ngx_squ_thread_destroy gives the reference back once, though
\* ngx_squ_thread_run and ngx_squ_tcp_close_session both call it.
THEOREM ThreadReleasedOnce == Spec => []ReleasedOnce
<1>1. IInv => ReleasedOnce
  BY DEF IInv, Typed, Life, ReleasedOnce, Alive, Suspended
<1> QED
  BY <1>1, InductiveInvariant, PTL

-----------------------------------------------------------------------------
(* A session of any protocol                                                *)

\* An http response is sent when its script has ended and its request has not; at
\* all other times a session lives as one of tcp does.
Replying == conn = "open" /\ vm = "dead" /\ ref = 0 /\ held = 0 /\ ~nap.timer

SInv ==
    /\ Typed /\ WokenByItsOwn
    /\ stage \in {"script", "loading", "reply", "log", "orphan"}
    /\ IF stage = "reply" THEN Replying ELSE Life
    /\ stage = "log" => vm \in {"running", "sleep"}
    /\ stage = "loading" => vm = "new"
    /\ stage = "orphan" => vm = "dead"

\* A session of any protocol starts as one of tcp does.
LEMMA SessionsInitSInv == SessionsInit => SInv
BY InitIInv DEF SessionsInit, SInv, IInv

\* A step that is one of a tcp session, from a stage in which there is one.
LEMMA TcpLikeStep ==
    ASSUME SInv, stage # "reply", [Next]_vars,
           stage' \in {"script", "loading", "log", "orphan"},
           stage' = "log" => vm' \in {"running", "sleep"},
           stage' = "loading" => vm' = "new",
           stage' = "orphan" => vm' = "dead"
    PROVE  SInv'
<1>1. IInv
  BY DEF SInv, IInv
<1>2. IInv'
  BY <1>1, NextIInv
<1> QED
  BY <1>2 DEF SInv, IInv

\* The end of a session in a stage that is not that of the reply.
LEMMA GoneStep ==
    ASSUME SInv, stage # "reply", stage' \in {"script", "orphan"},
           NEW h, NEW r \in {0, 1}, Gone(h, r),
           r = 1 => h = 1, r = 0 => h = 0,
           nap.timer /\ nap.cleanup => vm = "sleep"
    PROVE  SInv'
<1>1. IInv
  BY DEF SInv, IInv
<1>2. IInv'
  BY <1>1, CloseStep
<1>3. vm' = "dead"
  BY DEF Gone
<1> QED
  BY <1>2, <1>3 DEF SInv, IInv

\* What scripts of udp and http do is what scripts of tcp do.
LEMMA RunsStep == ASSUME SInv, Runs PROVE SInv'
<1>1. stage' = stage
  BY DEF Runs, webVars
<1>2. stage # "reply" /\ Next /\ (stage = "log" => vm' \in {"running", "sleep"})
  <2>1. CASE stage = "script" /\ \E n \in PrintSizes : Output(n)
    BY <2>1 DEF Next
  <2>2. CASE Sleep \/ SleepFails \/ SleepHalfFails
    BY <2>2 DEF Next, Sleep, SleepFails, SleepHalfFails, Suspend, Continue, SInv, Replying
  <2>3. CASE stage # "log" /\ (Wake \/ WakeFreed)
    BY <2>3 DEF Next, Wake, WakeFreed, SInv, Replying
  <2> QED
    BY <2>1, <2>2, <2>3 DEF Runs
<1>3. stage \in {"script", "loading", "log", "orphan"}
  BY <1>2 DEF SInv
<1>4. stage \notin {"loading", "orphan"} \/ vm' = vm
  BY DEF Runs, Output, Sleep, SleepFails, SleepHalfFails, Wake, WakeFreed, SInv
<1> QED
  BY <1>1, <1>2, <1>3, <1>4, TcpLikeStep DEF SInv

\* Loading, whatever the protocol.
LEMMA LoadStep ==
    ASSUME SInv, LoadWaits \/ Starts \/ ClosesLoading \/ ReadFreed \/ LateLoadFails
    PROVE  SInv'
<1>1. CASE LoadWaits
  BY <1>1, TcpLikeStep DEF LoadWaits, vars
<1>2. CASE Starts
  BY <1>2, TcpLikeStep DEF Starts, Next
<1>3. CASE ClosesLoading
  <2>1. stage # "reply" /\ ref = 0 /\ held = 0 /\ ~nap.timer /\ Gone(held, ref)
    BY <1>3 DEF ClosesLoading, Close, SInv, Life, Alive, Suspended, WokenByItsOwn
  <2> QED
    BY <1>3, <2>1, GoneStep DEF ClosesLoading
<1>4. CASE ReadFreed
  BY <1>4, TcpLikeStep DEF ReadFreed
<1>5. CASE LateLoadFails
  BY <1>5, TcpLikeStep DEF LateLoadFails, Next
<1> QED
  BY <1>1, <1>2, <1>3, <1>4, <1>5

\* What tcp and udt do, once the script is there.
LEMMA TcpStep == ASSUME SInv, Tcp \/ Udt PROVE SInv'
<1>1. stage = "script" /\ stage' = stage
  BY DEF Tcp, Udt, webVars
<1>2. Next
  BY DEF Tcp, Udt, UdtSession, UdtRequest, UdtResponse, Next
<1> QED
  BY <1>1, <1>2, TcpLikeStep

\* The end of a udp session, which sends its datagram.
LEMMA UdpStep == ASSUME SInv, Udp PROVE SInv'
<1>1. stage # "reply"
  BY DEF Udp, SInv, Replying, CoreCloses, Suspended
<1>2. CASE vm = "running" /\ UdpFinalize(Release)
  <2>1. Release = 0 /\ ~nap.timer
    BY <1>1, <1>2 DEF Release, SInv, Life, Alive, WokenByItsOwn
  <2> QED
    BY <1>1, <1>2, <2>1, GoneStep DEF UdpFinalize
<1>3. CASE vm = "new" /\ UdpFinalize(held)
  <2>1. held = 0 /\ ~nap.timer
    BY <1>1, <1>3 DEF SInv, Life, Alive, Suspended, WokenByItsOwn
  <2> QED
    BY <1>1, <1>3, <2>1, GoneStep DEF UdpFinalize
<1>4. CASE CoreCloses /\ UNCHANGED webVars
  <2>1. stage' = stage /\ Next /\ vm' = "dead" /\ vm \in Suspended
    BY <1>4 DEF webVars, Next, CoreCloses, Close, Gone
  <2>2. stage = "script"
    BY <2>1 DEF SInv, Suspended, Udp
  <2> QED
    BY <2>1, <2>2, TcpLikeStep
<1> QED
  BY <1>2, <1>3, <1>4 DEF Udp

\* The thread of the script ends before its response is sent, that of the log
\* script with the request.
LEMMA HttpStep == ASSUME SInv, Http PROVE SInv'
<1>1. CASE HttpRefuses
  BY <1>1 DEF HttpRefuses, SInv, Typed, Life, Replying, Alive, Suspended, WokenByItsOwn
<1>2. CASE HttpLoadFails
  BY <1>2 DEF HttpLoadFails, HttpFinalize, SInv, Typed, Life, Replying, Alive,
              Suspended, WokenByItsOwn
<1>3. CASE HttpScriptEnds
  <2>1. conn = "open" /\ ~nap.timer /\ Release = 0
    BY <1>3 DEF HttpScriptEnds, SInv, Typed, Life, Alive, Release, WokenByItsOwn
  <2>2. rev' = rev /\ wev' = wev /\ conn' = conn /\ stage' = "reply"
    BY <1>3 DEF HttpScriptEnds, HttpFinalize
  <2> QED
    BY <1>3, <2>1, <2>2 DEF HttpScriptEnds, SInv, Typed, Replying, WokenByItsOwn
<1>4. CASE HttpSends
  BY <1>4 DEF HttpSends, webVars, SInv, Typed, Replying, WokenByItsOwn
<1>5. CASE HttpFreed
  <2>1. Replying /\ rev.handler \notin {"recv"} /\ wev.handler \notin {"send"}
    BY <1>5 DEF HttpFreed, SInv, Replying, WokenByItsOwn
  <2>2. CASE Close(held, ref) /\ stage' = "script"
    BY <2>1, <2>2 DEF Close, Gone, SInv, Typed, Life, Replying, Alive, Suspended,
                      WokenByItsOwn, Quiet, Event
  <2>3. CASE stage' = "log"
    <3>1. /\ ref' = 1 /\ held' = 1 /\ vm' = "running"
          /\ nap' = [handler |-> FALSE, cleanup |-> FALSE, timer |-> FALSE]
          /\ conn' = conn /\ rev' = rev /\ wev' = wev
      BY <1>5, <2>1, <2>3 DEF HttpFreed, Replying
    <3> QED
      BY <2>1, <2>3, <3>1 DEF SInv, Typed, Life, Replying, Alive, Suspended, WokenByItsOwn
  <2> QED
    BY <1>5, <2>2, <2>3 DEF HttpFreed
<1>6. CASE HttpLogged
  <2>1. stage = "log" /\ stage' = "script" /\ ref = 1 /\ held = 1
    BY <1>6 DEF HttpLogged, SInv, Life, Alive, Suspended
  <2>2. CASE vm = "running" /\ Gone(Release, 0)
    BY <2>1, <2>2, GoneStep DEF Release, SInv, WokenByItsOwn
  <2>3. CASE vm = "sleep" /\ Gone(held, ref)
    BY <2>1, <2>3, GoneStep
  <2> QED
    BY <1>6, <2>2, <2>3 DEF HttpLogged, Close, SInv
<1> QED
  BY <1>1, <1>2, <1>3, <1>4, <1>5, <1>6 DEF Http

\* No step of any protocol breaks the invariant.
LEMMA NextSInv == SInv /\ [SessionsNext]_sessionVars => SInv'
<1> SUFFICES ASSUME SInv, [SessionsNext]_sessionVars PROVE SInv'
  OBVIOUS
<1>1. CASE SessionsNext
  BY <1>1, LoadStep, RunsStep, TcpStep, UdpStep, HttpStep DEF SessionsNext
<1>2. CASE UNCHANGED sessionVars
  BY <1>2 DEF sessionVars, vars, webVars, inVars, outVars, SInv, Typed, Life, Replying,
              Alive, Suspended, WokenByItsOwn
<1> QED
  BY <1>1, <1>2

\* The inductive invariant of sessions of every protocol.
THEOREM SessionsInvariant == SessionsSpec => []SInv
<1> QED
  BY SessionsInitSInv, NextSInv, PTL DEF SessionsSpec

\* A handler that resumes a script is installed only while the script waits in the
\* call that installed it, in sessions of every protocol (request_read_handler,
\* response_write_handler, ngx_squ_sleep_handler).
THEOREM SessionsWokenByTheirOwn == SessionsSpec => []WokenByItsOwn
<1>1. SInv => WokenByItsOwn
  BY DEF SInv
<1> QED
  BY <1>1, SessionsInvariant, PTL

\* The reference of ngx_squ_thread_create is given back exactly once, whichever of
\* thread_run, finalize, close_session, the cleanup of an http request and its log
\* handler destroy the thread.
THEOREM SessionsReleasedOnce == SessionsSpec => []ReleasedOnce
<1>1. SInv => ReleasedOnce
  BY DEF SInv, Replying, Life, ReleasedOnce, Alive, Suspended
<1> QED
  BY <1>1, SessionsInvariant, PTL

-----------------------------------------------------------------------------
(* What is sent                                                             *)

\* A set with 1 in it, and with every position the next, has all positions.
LEMMA UpTo ==
    ASSUME NEW n \in Nat, NEW S, n > 0 => 1 \in S,
           \A k \in 1 .. n : k \in S /\ k < n => k + 1 \in S
    PROVE  1 .. n \subseteq S
<1> SUFFICES ASSUME NEW z \in (1 .. n) \ S PROVE FALSE
  OBVIOUS
<1> DEFINE N == 1 .. n
           T == {1 .. k : k \in N \ S}
           R == StrictSubsetOrdering(N)
<1>1. IsWellFoundedOn(R, FiniteSubsetsOf(N))
  BY FS_StrictSubsetOrderingWellFounded
<1>2. \A a, b \in SUBSET N : a \subseteq b /\ a # b => <<a, b>> \in R
  BY DEF StrictSubsetOrdering
<1>3. T \subseteq FiniteSubsetsOf(N) /\ T # {}
  <2>1. \A k \in N : 1 .. k \in SUBSET N /\ IsFiniteSet(1 .. k)
    BY FS_Interval
  <2> QED
    BY <2>1 DEF FiniteSubsetsOf
<1>4. PICK t \in T : \A u \in T : ~(<<u, t>> \in R)
  <2> HIDE DEF T, R
  <2> QED
    BY <1>1, <1>3, WFMin
<1>5. PICK k \in N \ S : t = 1 .. k
  BY <1>4
<1>6. k \in 1 .. n /\ k # 1 /\ k - 1 \in 1 .. n /\ k - 1 < n /\ k - 1 + 1 = k
  BY <1>5
<1>7. k - 1 \in N \ S
  BY <1>5, <1>6
<1>8. 1 .. (k - 1) \in SUBSET N /\ 1 .. k \in SUBSET N
      /\ 1 .. (k - 1) \subseteq 1 .. k /\ 1 .. (k - 1) # 1 .. k
  <2>1. k \in 1 .. k /\ k \notin 1 .. (k - 1)
    BY <1>6
  <2>2. 1 .. (k - 1) \subseteq 1 .. k /\ 1 .. k \subseteq N
    BY <1>6
  <2> QED
    BY <2>1, <2>2
<1>9. <<1 .. (k - 1), 1 .. k>> \in R
  <2> HIDE DEF R
  <2> QED
    BY <1>2, <1>8
<1> HIDE DEF R
<1> QED
  BY <1>4, <1>5, <1>7, <1>9

\* f joins the first n of the sequences ss one by one.
Joins(f, ss, n) ==
    f[1] = ss[1] /\ \A k \in 1 .. n : k < n => f[k + 1] = f[k] \o ss[k + 1]

\* There is one way to join them.
LEMMA JoinedAlike ==
    ASSUME NEW n \in Nat, NEW ss, NEW f, NEW g, Joins(f, ss, n), Joins(g, ss, n)
    PROVE  \A i \in 1 .. n : g[i] = f[i]
<1> USE DEF Joins
<1> DEFINE Same == {i \in 1 .. n : g[i] = f[i]}
<1>1. n > 0 => 1 \in Same
  OBVIOUS
<1>2. ASSUME NEW k \in 1 .. n, k \in Same, k < n PROVE k + 1 \in Same
  <2>1. k + 1 \in 1 .. n /\ g[k] = f[k]
    BY <1>2
  <2>2. g[k + 1] = f[k + 1]
    BY <1>2, <2>1
  <2> QED
    BY <2>1, <2>2
<1>3. 1 .. n \subseteq Same
  <2> HIDE DEF Same
  <2> QED
    BY <1>1, <1>2, UpTo
<1> QED
  BY <1>3

\* FlattenSeq is what joins them all.
LEMMA FlattenIs ==
    ASSUME NEW ss, NEW f, Len(ss) \in Nat, Len(ss) # 0,
           f = [i \in 1 .. Len(ss) |-> f[i]], Joins(f, ss, Len(ss))
    PROVE  FlattenSeq(ss) = f[Len(ss)]
<1> DEFINE D(g) == g = [i \in 1 .. Len(ss) |-> IF i = 1 THEN ss[i] ELSE g[i - 1] \o ss[i]]
           F == CHOOSE g : D(g)
<1>1. FlattenSeq(ss) = F[Len(ss)]
  BY DEF FlattenSeq
<1>2. \A i \in 1 .. Len(ss) : f[i] = IF i = 1 THEN ss[i] ELSE f[i - 1] \o ss[i]
  <2> SUFFICES ASSUME NEW i \in 1 .. Len(ss), i # 1 PROVE f[i] = f[i - 1] \o ss[i]
    BY DEF Joins
  <2>1. i - 1 \in 1 .. Len(ss) /\ i - 1 < Len(ss) /\ (i - 1) + 1 = i
    OBVIOUS
  <2> QED
    BY <2>1 DEF Joins
<1>3. D(f)
  <2>1. f[1] = ss[1]
    BY DEF Joins
  <2> QED
    BY <1>2, <2>1
<1>4. D(F)
  BY <1>3
<1> HIDE DEF F
<1>5. F[1] = ss[1]
  BY <1>4
<1>6. ASSUME NEW k \in 1 .. Len(ss), k < Len(ss) PROVE F[k + 1] = F[k] \o ss[k + 1]
  <2>1. k + 1 \in 1 .. Len(ss) /\ k + 1 # 1 /\ (k + 1) - 1 = k
    BY <1>6
  <2> QED
    BY <1>4, <2>1
<1>7. Joins(F, ss, Len(ss))
  BY <1>5, <1>6 DEF Joins
<1>8. \A i \in 1 .. Len(ss) : F[i] = f[i]
  BY <1>7, JoinedAlike
<1> QED
  BY <1>1, <1>8

-----------------------------------------------------------------------------
\* The bytes behind byte a up to byte b, in order.
Run(a, b) == [x \in 1 .. b - a |-> a + x]

\* Its length and its bytes.
LEMMA RunIs ==
    ASSUME NEW a \in Nat, NEW b \in Nat, a <= b
    PROVE  /\ Run(a, b) \in Seq(Nat) /\ Len(Run(a, b)) = b - a
           /\ \A x \in 1 .. b - a : Run(a, b)[x] = a + x
<1> DEFINE n == b - a
<1>1. n \in Nat /\ \A x \in 1 .. n : a + x \in Nat
  OBVIOUS
<1>2. [x \in 1 .. n |-> a + x] \in Seq(Nat) /\ Len([x \in 1 .. n |-> a + x]) = n
  <2> HIDE DEF n
  <2> QED
    BY <1>1
<1> QED
  BY <1>2 DEF Run

\* A sequence that has the length and the bytes of a run is the run.
LEMMA IsRun ==
    ASSUME NEW a \in Nat, NEW b \in Nat, a <= b, NEW S, NEW s \in Seq(S),
           Len(s) = b - a, \A x \in 1 .. b - a : s[x] = a + x
    PROVE  s = Run(a, b)
<1>1. s = [x \in 1 .. Len(s) |-> s[x]]
  OBVIOUS
<1> QED
  BY <1>1 DEF Run

\* No bytes lie between a byte and itself.
LEMMA EmptyRun == ASSUME NEW a \in Nat PROVE Run(a, a) = <<>>
<1>1. a - a = 0
  OBVIOUS
<1>2. Run(a, a) = [x \in 1 .. 0 |-> a + x]
  BY <1>1 DEF Run
<1>3. [x \in 1 .. 0 |-> a + x] = <<>>
  OBVIOUS
<1> QED
  BY <1>2, <1>3

\* The first b bytes that are printed.
LEMMA PrintedRun == ASSUME NEW b \in Nat PROVE Run(0, b) = [i \in 1 .. b |-> i]
<1>1. b - 0 = b /\ \A i \in 1 .. b : 0 + i = i
  OBVIOUS
<1>2. Run(0, b) = [i \in 1 .. b |-> 0 + i]
  BY <1>1 DEF Run
<1> QED
  BY <1>1, <1>2

\* Two runs that meet are one.
LEMMA RunsJoin ==
    ASSUME NEW a \in Nat, NEW b \in Nat, NEW c \in Nat, a <= b, b <= c
    PROVE  Run(a, b) \o Run(b, c) = Run(a, c)
<1> DEFINE s == Run(a, b)
           t == Run(b, c)
           both == s \o t
<1>1. /\ s \in Seq(Nat) /\ Len(s) = b - a /\ \A x \in 1 .. b - a : s[x] = a + x
      /\ t \in Seq(Nat) /\ Len(t) = c - b /\ \A x \in 1 .. c - b : t[x] = b + x
  BY RunIs
<1> HIDE DEF s, t
<1>2. /\ both \in Seq(Nat) /\ Len(both) = Len(s) + Len(t)
      /\ \A x \in 1 .. Len(s) + Len(t) :
            both[x] = IF x <= Len(s) THEN s[x] ELSE t[x - Len(s)]
  BY <1>1, ConcatProperties
<1> HIDE DEF both
<1>3. Len(s) + Len(t) = c - a /\ Len(both) = c - a
  BY <1>1, <1>2
<1>4. ASSUME NEW x \in 1 .. c - a PROVE both[x] = a + x
  <2>1. CASE x <= b - a
    BY <1>1, <1>2, <1>3, <2>1
  <2>2. CASE x > b - a
    <3>1. x - (b - a) \in 1 .. c - b /\ b + (x - (b - a)) = a + x /\ ~(x <= b - a)
      BY <2>2
    <3>2. both[x] = t[x - (b - a)]
      BY <1>1, <1>2, <1>3, <3>1
    <3> QED
      BY <1>1, <3>1, <3>2
  <2> QED
    BY <2>1, <2>2
<1>5. a <= c
  OBVIOUS
<1>6. both = Run(a, c)
  BY <1>2, <1>3, <1>4, <1>5, IsRun
<1> QED
  BY <1>6 DEF both, s, t

\* The beginning of a run.
LEMMA RunFront ==
    ASSUME NEW a \in Nat, NEW b \in Nat, NEW k \in Nat, a + k <= b
    PROVE  SubSeq(Run(a, b), 1, k) = Run(a, a + k)
<1> DEFINE s == Run(a, b)
           front == SubSeq(s, 1, k)
<1>1. /\ s \in Seq(Nat) /\ Len(s) = b - a /\ \A x \in 1 .. b - a : s[x] = a + x
  BY RunIs
<1> HIDE DEF s
<1>2. \A i \in 1 .. k : s[i] \in Nat
  BY <1>1
<1>3. /\ front \in Seq(Nat) /\ Len(front) = IF 1 <= k THEN k - 1 + 1 ELSE 0
      /\ \A i \in 1 .. k - 1 + 1 : front[i] = s[1 + i - 1]
  BY <1>2, SubSeqProperties
<1> HIDE DEF front
<1>4. Len(front) = k /\ \A i \in 1 .. k : front[i] = a + i
  BY <1>1, <1>3
<1>5. a + k \in Nat /\ a <= a + k /\ (a + k) - a = k
  OBVIOUS
<1>6. front = Run(a, a + k)
  BY <1>3, <1>4, <1>5, IsRun
<1> QED
  BY <1>6 DEF front, s

\* The end of a run.
LEMMA RunBack ==
    ASSUME NEW a \in Nat, NEW b \in Nat, NEW k \in Nat, a + k <= b
    PROVE  SubSeq(Run(a, b), k + 1, b - a) = Run(a + k, b)
<1> DEFINE s == Run(a, b)
           back == SubSeq(s, k + 1, b - a)
<1>0. k + 1 \in Int /\ b - a \in Int /\ a + k \in Nat /\ b - (a + k) \in Nat
  OBVIOUS
<1>1. /\ s \in Seq(Nat) /\ Len(s) = b - a /\ \A x \in 1 .. b - a : s[x] = a + x
  BY RunIs
<1> HIDE DEF s
<1>2. \A i \in k + 1 .. b - a : s[i] \in Nat
  BY <1>1
<1>3. /\ back \in Seq(Nat)
      /\ Len(back) = IF k + 1 <= b - a THEN b - a - (k + 1) + 1 ELSE 0
      /\ \A i \in 1 .. b - a - (k + 1) + 1 : back[i] = s[k + 1 + i - 1]
  BY <1>0, <1>2, SubSeqProperties
<1> HIDE DEF back
<1>4. Len(back) = b - (a + k)
  BY <1>0, <1>3
<1>5. ASSUME NEW i \in 1 .. b - (a + k) PROVE back[i] = (a + k) + i
  <2>1. /\ i \in 1 .. b - a - (k + 1) + 1 /\ k + 1 + i - 1 = k + i
        /\ k + i \in 1 .. b - a /\ a + (k + i) = (a + k) + i
    OBVIOUS
  <2> QED
    BY <1>1, <1>3, <2>1
<1>6. back = Run(a + k, b)
  BY <1>0, <1>3, <1>4, <1>5, IsRun
<1> QED
  BY <1>6 DEF back, s

-----------------------------------------------------------------------------
\* Buffer i of the chain holds the bytes behind off[i] up to off[i + 1].
Buffer == [size : Nat, used : Nat, data : Seq(Nat)]

Laid(ch, off) ==
    /\ ch \in Seq(Buffer) /\ off \in [1 .. Len(ch) + 1 -> Nat]
    /\ \A i \in 1 .. Len(ch) :
          off[i] <= off[i + 1] /\ ch[i].data = Run(off[i], off[i + 1])

\* The offsets only grow.
LEMMA Grows ==
    ASSUME NEW ch, NEW off, Laid(ch, off)
    PROVE  \A i \in 1 .. Len(ch) + 1 : off[1] <= off[i]
<1> DEFINE n == Len(ch) + 1
           Fine == {i \in 1 .. n : off[1] <= off[i]}
<1>1. Len(ch) \in Nat /\ n \in Nat /\ \A i \in 1 .. n : off[i] \in Nat
  BY DEF Laid
<1>2. n > 0 => 1 \in Fine
  BY <1>1
<1>3. ASSUME NEW k \in 1 .. n, k \in Fine, k < n PROVE k + 1 \in Fine
  <2>1. k \in 1 .. Len(ch) /\ k + 1 \in 1 .. n
    BY <1>1, <1>3
  <2>2. off[k] <= off[k + 1]
    BY <2>1 DEF Laid
  <2> QED
    BY <1>1, <1>3, <2>1, <2>2
<1>4. 1 .. n \subseteq Fine
  <2> HIDE DEF Fine, n
  <2> QED
    BY <1>1, <1>2, <1>3, UpTo
<1> QED
  BY <1>4

\* The first buffer ends no later than the last.
LEMMA LaidGrows ==
    ASSUME NEW ch, NEW off, Laid(ch, off), Len(ch) \in Nat \ {0}
    PROVE  off[2] <= off[Len(ch) + 1]
<1> DEFINE n == Len(ch) + 1
           Fine == {i \in 1 .. n : i = 1 \/ off[2] <= off[i]}
<1>1. Len(ch) \in Nat /\ n \in Nat /\ n > 1 /\ \A i \in 1 .. n : off[i] \in Nat
  BY DEF Laid
<1>2. n > 0 => 1 \in Fine
  BY <1>1
<1>3. ASSUME NEW k \in 1 .. n, k \in Fine, k < n PROVE k + 1 \in Fine
  <2>1. k \in 1 .. Len(ch) /\ k + 1 \in 1 .. n /\ 2 \in 1 .. n
    BY <1>1, <1>3
  <2>2. off[k] <= off[k + 1]
    BY <2>1 DEF Laid
  <2>3. off[2] \in Nat /\ off[k] \in Nat /\ off[k + 1] \in Nat
    BY <1>1, <2>1
  <2>4. k = 1 \/ off[2] <= off[k]
    BY <1>3
  <2>5. off[2] <= off[k + 1]
    <3>1. CASE k = 1
      <4>1. k + 1 = 2
        BY <3>1
      <4> QED
        BY <2>3, <4>1
    <3> QED
      BY <2>2, <2>3, <2>4, <3>1
  <2> QED
    BY <2>1, <2>5
<1>4. 1 .. n \subseteq Fine
  <2> HIDE DEF Fine, n
  <2> QED
    BY <1>1, <1>2, <1>3, UpTo
<1>5. n \in 1 .. n /\ n # 1
  BY <1>1
<1> QED
  BY <1>4, <1>5

\* What the first n buffers hold, together.
LEMMA FlatLaid ==
    ASSUME NEW ch, NEW off, Laid(ch, off), NEW n \in 0 .. Len(ch)
    PROVE  FlattenSeq([i \in 1 .. n |-> ch[i].data]) = Run(off[1], off[n + 1])
<1> DEFINE ss == [i \in 1 .. n |-> ch[i].data]
           f == [i \in 1 .. n |-> Run(off[1], off[i + 1])]
<1> HIDE DEF ss, f
<1>0. /\ Len(ch) \in Nat /\ n \in Nat /\ n <= Len(ch)
      /\ \A i \in 1 .. Len(ch) + 1 : off[i] \in Nat /\ off[1] <= off[i]
      /\ \A i \in 1 .. Len(ch) : off[i] <= off[i + 1] /\ ch[i].data = Run(off[i], off[i + 1])
  <2>1. ch \in Seq(Buffer) /\ Len(ch) \in Nat
    BY DEF Laid
  <2>2. \A i \in 1 .. Len(ch) + 1 : off[i] \in Nat
    BY DEF Laid
  <2>3. \A i \in 1 .. Len(ch) + 1 : off[1] <= off[i]
    BY Grows
  <2>4. \A i \in 1 .. Len(ch) : off[i] <= off[i + 1] /\ ch[i].data = Run(off[i], off[i + 1])
    BY DEF Laid
  <2> QED
    BY <2>1, <2>2, <2>3, <2>4
<1> USE DEF ss, f
<1>1. Len(ss) = n /\ \A i \in 1 .. n : ss[i] = Run(off[i], off[i + 1])
  <2>1. \A i \in 1 .. n : ss[i] = Run(off[i], off[i + 1])
    BY <1>0
  <2>2. Len(ss) = n
    BY <1>0
  <2> QED
    BY <2>1, <2>2
<1>2. CASE n = 0
  <2>1. FlattenSeq(ss) = ss
    BY <1>1, <1>2 DEF FlattenSeq
  <2>2. off[1] - off[1] = 0
    BY <1>0
  <2>3. Run(off[1], off[n + 1]) = [x \in 1 .. 0 |-> off[1] + x]
    BY <1>2, <2>2 DEF Run
  <2>4. ss = <<>> /\ [x \in 1 .. 0 |-> off[1] + x] = <<>>
    BY <1>2
  <2> QED
    BY <2>1, <2>3, <2>4
<1>3. CASE n # 0
  <2>1. 1 \in 1 .. n /\ \A k \in 1 .. n : k \in 1 .. Len(ch) /\ k \in 1 .. Len(ch) + 1
                             /\ k + 1 \in 1 .. Len(ch) + 1
    BY <1>0, <1>3
  <2>2. f[1] = ss[1]
    BY <1>1, <2>1
  <2>3. ASSUME NEW k \in 1 .. n, k < n PROVE f[k + 1] = f[k] \o ss[k + 1]
    <3>1. k + 1 \in 1 .. n /\ f[k] = Run(off[1], off[k + 1])
          /\ f[k + 1] = Run(off[1], off[k + 1 + 1])
      BY <1>0, <2>3
    <3>2. ss[k + 1] = Run(off[k + 1], off[k + 1 + 1])
      BY <1>1, <3>1
    <3>3. off[1] \in Nat /\ off[k + 1] \in Nat /\ off[k + 1 + 1] \in Nat
          /\ off[1] <= off[k + 1] /\ off[k + 1] <= off[k + 1 + 1]
      BY <1>0, <2>1, <3>1
    <3>4. Run(off[1], off[k + 1]) \o Run(off[k + 1], off[k + 1 + 1]) = Run(off[1], off[k + 1 + 1])
      BY <3>3, RunsJoin
    <3> QED
      BY <3>1, <3>2, <3>4
  <2>4. f = [i \in 1 .. n |-> f[i]]
    OBVIOUS
  <2>5. f[n] = Run(off[1], off[n + 1])
    BY <1>0, <1>3
  <2> HIDE DEF f, ss
  <2>6. Joins(f, ss, n)
    BY <2>2, <2>3 DEF Joins
  <2>7. FlattenSeq(ss) = f[n]
    <3>1. Len(ss) \in Nat /\ Len(ss) # 0 /\ f = [i \in 1 .. Len(ss) |-> f[i]] /\ Joins(f, ss, Len(ss))
      BY <1>0, <1>1, <1>3, <2>4, <2>6
    <3> QED
      BY <1>1, <3>1, FlattenIs
  <2> QED
    BY <2>5, <2>7 DEF ss
<1> QED
  BY <1>2, <1>3

\* What is to be sent, and what of it lies before a buffer.
LEMMA PendingIs ==
    ASSUME NEW off, Laid(chain, off)
    PROVE  /\ Pending = Run(off[1], off[Len(chain) + 1])
           /\ \A i \in 1 .. Len(chain) : Before(i) = off[i] - off[1]
<1>1. Len(chain) \in Nat /\ DOMAIN chain = 1 .. Len(chain)
  BY DEF Laid
<1>2. Pending = Run(off[1], off[Len(chain) + 1])
  <2>1. Len(chain) \in 0 .. Len(chain)
    BY <1>1
  <2> QED
    BY <1>1, <2>1, FlatLaid DEF Pending
<1>3. ASSUME NEW i \in 1 .. Len(chain) PROVE Before(i) = off[i] - off[1]
  <2>1. i - 1 \in 0 .. Len(chain) /\ (i - 1) + 1 = i /\ i \in 1 .. Len(chain) + 1
        /\ 1 \in 1 .. Len(chain) + 1
    BY <1>1, <1>3
  <2>2. FlattenSeq([j \in 1 .. i - 1 |-> chain[j].data]) = Run(off[1], off[(i - 1) + 1])
    BY <2>1, FlatLaid
  <2>3. off[1] \in Nat /\ off[i] \in Nat /\ off[1] <= off[i]
    BY <2>1, Grows DEF Laid
  <2> QED
    BY <2>1, <2>2, <2>3, RunIs DEF Before
<1> QED
  BY <1>2, <1>3

\* The chain up to buffer l holds what lies between two positions, and what follows
\* it is empty.
Holds(ch, l, from, to) ==
    /\ l \in 0 .. Len(ch) /\ (ch # <<>> => l # 0)
    /\ \E off : /\ Laid(ch, off) /\ off[1] = from
                /\ \A i \in l + 1 .. Len(ch) + 1 : off[i] = to

\* What Drop(k) leaves begins k bytes later.
LEMMA DropIs ==
    ASSUME NEW a \in Nat, NEW b \in Nat, Holds(chain, last, a, b), NEW k \in Nat, a + k <= b
    PROVE  Holds(Drop(k), last, a + k, b) /\ Len(Drop(k)) = Len(chain)
<1>0. PICK off : /\ Laid(chain, off) /\ off[1] = a
                 /\ \A i \in last + 1 .. Len(chain) + 1 : off[i] = b
  BY DEF Holds
<1> DEFINE n == Len(chain)
           from == a + k
           new == [i \in 1 .. n + 1 |-> IF off[i] < from THEN from ELSE off[i]]
<1>1. /\ chain \in Seq(Buffer) /\ n \in Nat /\ from \in Nat /\ off[1] \in Nat
      /\ \A i \in 1 .. n : chain[i] \in Buffer /\ i \in 1 .. n + 1 /\ i + 1 \in 1 .. n + 1
      /\ \A i \in 1 .. n + 1 : off[i] \in Nat
  BY <1>0 DEF Laid
<1>2. \A i \in 1 .. n :
         /\ off[i] <= off[i + 1] /\ chain[i].data = Run(off[i], off[i + 1])
         /\ Before(i) = off[i] - a /\ a <= off[i]
  <2>1. \A i \in 1 .. n : off[i] <= off[i + 1] /\ chain[i].data = Run(off[i], off[i + 1])
    BY <1>0 DEF Laid
  <2>2. \A i \in 1 .. n : Before(i) = off[i] - a
    BY <1>0, PendingIs
  <2>3. \A i \in 1 .. n : a <= off[i]
    BY <1>0, <1>1, Grows
  <2> QED
    BY <2>1, <2>2, <2>3
<1>3. new \in [1 .. n + 1 -> Nat] /\ \A i \in 1 .. n + 1 : new[i] = IF off[i] < from THEN from ELSE off[i]
  BY <1>1
<1>4. DOMAIN chain = 1 .. n
  BY <1>1
<1> HIDE DEF n, from, new
<1>5. ASSUME NEW i \in 1 .. n
      PROVE  /\ Drop(k)[i] \in Buffer /\ new[i] <= new[i + 1]
             /\ Drop(k)[i].data = Run(new[i], new[i + 1])
  <2> DEFINE d == chain[i].data
             g == IF k < Before(i) THEN 0
                  ELSE IF k - Before(i) < Len(d) THEN k - Before(i) ELSE Len(d)
             p == off[i]
             q == off[i + 1]
  <2>1. Drop(k)[i] = [chain[i] EXCEPT !.data = SubSeq(d, g + 1, Len(d))]
    BY <1>4 DEF Drop
  <2>2. /\ p \in Nat /\ q \in Nat /\ p <= q /\ d = Run(p, q) /\ Len(d) = q - p
        /\ Before(i) = p - a /\ a <= p
    BY <1>1, <1>2, RunIs
  <2>3. /\ new[i] = (IF p < from THEN from ELSE p)
        /\ new[i + 1] = (IF q < from THEN from ELSE q)
    BY <1>1, <1>3
  <2>4. g = IF from < p THEN 0 ELSE IF from < q THEN from - p ELSE q - p
    <3> HIDE DEF p, q, d
    <3> QED
      BY <1>1, <2>2 DEF from
  <2> HIDE DEF p, q, d, g
  <2>5. g \in Nat /\ p + g <= q
    BY <1>1, <2>2, <2>4
  <2>6. SubSeq(d, g + 1, Len(d)) = Run(p + g, q)
    <3>1. p \in Nat /\ q \in Nat /\ g \in Nat /\ p + g <= q
      BY <2>2, <2>5
    <3>2. SubSeq(Run(p, q), g + 1, q - p) = Run(p + g, q)
      BY <3>1, RunBack
    <3> QED
      BY <2>2, <3>2
  <2>7. new[i] <= new[i + 1]
    BY <1>1, <2>2, <2>3
  <2>8. Run(p + g, q) = Run(new[i], new[i + 1])
    <3>1. CASE from < q
      <4>1. p + g = new[i] /\ q = new[i + 1]
        BY <1>1, <2>2, <2>3, <2>4, <3>1
      <4> QED
        BY <4>1
    <3>2. CASE q <= from
      <4>1. p + g = q /\ new[i] = new[i + 1] /\ new[i] \in Nat
        BY <1>1, <2>2, <2>3, <2>4, <3>2
      <4>2. Run(p + g, q) = <<>>
        BY <2>2, <4>1, EmptyRun
      <4>3. Run(new[i], new[i + 1]) = <<>>
        BY <4>1, EmptyRun
      <4> QED
        BY <4>2, <4>3
    <3> QED
      BY <1>1, <2>2, <3>1, <3>2
  <2>9. SubSeq(d, g + 1, Len(d)) \in Seq(Nat)
    <3>1. p + g \in Nat /\ q \in Nat /\ p + g <= q
      BY <2>2, <2>5
    <3>2. Run(p + g, q) \in Seq(Nat)
      BY <3>1, RunIs
    <3> QED
      BY <2>6, <3>2
  <2>10. Drop(k)[i] \in Buffer /\ Drop(k)[i].data = SubSeq(d, g + 1, Len(d))
    <3> DEFINE rest == SubSeq(d, g + 1, Len(d))
    <3> HIDE DEF rest
    <3>1. rest \in Seq(Nat)
      BY <2>9 DEF rest
    <3>2. chain[i] \in Buffer
      BY <1>1
    <3>3. Drop(k)[i] = [chain[i] EXCEPT !.data = rest]
      BY <2>1 DEF rest
    <3>4. Drop(k)[i] \in Buffer /\ Drop(k)[i].data = rest
      BY <3>1, <3>2, <3>3 DEF Buffer
    <3> QED
      BY <3>4 DEF rest
  <2> QED
    BY <2>6, <2>7, <2>8, <2>10
<1>6. Drop(k) \in Seq(Buffer) /\ Len(Drop(k)) = n
  <2>1. Drop(k) = [i \in 1 .. n |-> Drop(k)[i]]
    BY <1>4 DEF Drop
  <2>2. \A i \in 1 .. n : Drop(k)[i] \in Buffer
    BY <1>5
  <2> DEFINE rest == Drop(k)
  <2> HIDE DEF rest
  <2>3. rest = [i \in 1 .. n |-> rest[i]] /\ \A i \in 1 .. n : rest[i] \in Buffer
    BY <2>1, <2>2 DEF rest
  <2>4. rest \in Seq(Buffer) /\ Len(rest) = n
    BY <1>1, <2>3, SMTT(30)
  <2> QED
    BY <2>4 DEF rest
<1>7. Laid(Drop(k), new)
  BY <1>3, <1>5, <1>6 DEF Laid
<1>8. new[1] = from /\ \A i \in last + 1 .. n + 1 : new[i] = b
  <2>1. 1 \in 1 .. n + 1 /\ last \in 0 .. n
    BY <1>1 DEF n, Holds
  <2>2. a <= from /\ from <= b /\ off[1] = a /\ \A i \in last + 1 .. n + 1 : off[i] = b
    BY <1>0 DEF from, n
  <2>3. \A i \in last + 1 .. n + 1 : i \in 1 .. n + 1
    BY <2>1
  <2>4. \A i \in last + 1 .. n + 1 : new[i] = b
    BY <1>1, <1>3, <2>2, <2>3
  <2>5. new[1] = from
    BY <1>1, <1>3, <2>1, <2>2
  <2> QED
    BY <2>4, <2>5
<1>9. last \in 0 .. n /\ (Drop(k) # <<>> => last # 0)
  <2>1. last \in 0 .. n /\ (chain # <<>> => last # 0)
    BY DEF n, Holds
  <2>2. chain = <<>> => n = 0
    BY DEF n
  <2>3. n = 0 => Drop(k) = <<>>
    BY <1>6
  <2> QED
    BY <2>1, <2>2, <2>3
<1> QED
  BY <1>6, <1>7, <1>8, <1>9 DEF n, from, Holds

\* Rewound buffers are empty, wherever they begin.
LEMMA RewoundIs ==
    ASSUME chain \in Seq(Buffer), chain # <<>>, NEW b \in Nat
    PROVE  Holds(Rewound, 1, b, b) /\ Rewound # <<>>
<1> DEFINE rest == Rewound
           n == Len(chain)
           off == [i \in 1 .. n + 1 |-> b]
<1>1. n \in Nat /\ n # 0 /\ DOMAIN chain = 1 .. n
      /\ \A i \in 1 .. n : chain[i] \in Buffer
  OBVIOUS
<1> HIDE DEF n
<1>2. /\ rest = [i \in 1 .. n |-> rest[i]]
      /\ \A i \in 1 .. n : rest[i] = [chain[i] EXCEPT !.used = 0, !.data = <<>>]
  BY <1>1 DEF Rewound
<1> HIDE DEF rest
<1>3. ASSUME NEW i \in 1 .. n PROVE rest[i] \in Buffer /\ rest[i].data = <<>>
  <2>1. chain[i] \in Buffer /\ rest[i] = [chain[i] EXCEPT !.used = 0, !.data = <<>>]
    BY <1>1, <1>2
  <2>2. ASSUME NEW c \in Buffer, NEW e \in Seq(Nat), NEW d, d = [c EXCEPT !.used = 0, !.data = e]
        PROVE  d \in Buffer /\ d.data = e
    BY <2>2 DEF Buffer
  <2>3. <<>> \in Seq(Nat)
    OBVIOUS
  <2> QED
    BY <2>1, <2>2, <2>3
<1>4. rest \in Seq(Buffer) /\ Len(rest) = n
  <2>1. \A i \in 1 .. n : rest[i] \in Buffer
    BY <1>3
  <2>2. rest = [i \in 1 .. n |-> rest[i]] /\ n \in Nat
    BY <1>1, <1>2
  <2> QED
    BY <2>1, <2>2
<1>5. /\ off \in [1 .. n + 1 -> Nat]
      /\ \A i \in 1 .. n : i \in 1 .. n + 1 /\ i + 1 \in 1 .. n + 1
      /\ 1 \in 1 .. n + 1
  BY <1>1
<1>6. \A i \in 1 .. n + 1 : off[i] = b
  OBVIOUS
<1> HIDE DEF off
<1>7. \A i \in 1 .. n : off[i] <= off[i + 1] /\ rest[i].data = Run(off[i], off[i + 1])
  <2>1. Run(b, b) = <<>>
    BY EmptyRun
  <2> QED
    BY <1>3, <1>5, <1>6, <2>1
<1>8. Laid(rest, off)
  BY <1>4, <1>5, <1>7 DEF Laid
<1>9. 1 \in 0 .. n /\ off[1] = b /\ \A i \in 1 + 1 .. n + 1 : off[i] = b
  BY <1>1, <1>6
<1>10. Holds(rest, 1, b, b)
  BY <1>4, <1>8, <1>9 DEF Holds
<1>11. rest # <<>>
  BY <1>1, <1>4
<1> QED
  BY <1>10, <1>11 DEF rest

-----------------------------------------------------------------------------
\* What is sent so far is the beginning of what is printed, and the chain holds the
\* rest of it, in order and up to the buffer written last.
OutInv ==
    /\ printed \in Nat /\ Len(sent) \in Nat /\ Len(sent) <= printed
    /\ sent = Run(0, Len(sent))
    /\ Holds(chain, last, Len(sent), printed)
    /\ wev.handler = "send" => chain # <<>>

\* The script prints: into the room that is left, or behind the buffer written last,
\* where the rewound buffers that follow are dropped.
LEMMA PrintHolds ==
    ASSUME OutInv, NEW n \in PrintSizes, Output(n), SessionAssumption
    PROVE  Holds(chain', last', Len(sent), printed + n) /\ chain' # <<>>
<1> DEFINE to == printed + n
           bytes == [i \in 1 .. n |-> printed + i]
           fresh == [size |-> IF n > PageSize THEN n ELSE PageSize,
                     used |-> n, data |-> bytes]
<1>1. /\ n \in Nat /\ PageSize \in Nat /\ printed \in Nat /\ Len(sent) \in Nat
      /\ Len(sent) <= printed /\ to \in Nat /\ to = printed + n
  BY DEF OutInv, SessionAssumption
<1>2. PICK off : /\ Laid(chain, off) /\ off[1] = Len(sent)
                 /\ \A i \in last + 1 .. Len(chain) + 1 : off[i] = printed
  BY DEF OutInv, Holds
<1>3. /\ chain \in Seq(Buffer) /\ Len(chain) \in Nat /\ last \in 0 .. Len(chain)
      /\ (chain # <<>> => last # 0)
      /\ off \in [1 .. Len(chain) + 1 -> Nat]
      /\ \A i \in 1 .. Len(chain) :
            /\ chain[i] \in Buffer /\ off[i] \in Nat /\ off[i + 1] \in Nat
            /\ off[i] <= off[i + 1] /\ chain[i].data = Run(off[i], off[i + 1])
  <2>1. chain \in Seq(Buffer) /\ off \in [1 .. Len(chain) + 1 -> Nat]
        /\ \A i \in 1 .. Len(chain) :
              off[i] <= off[i + 1] /\ chain[i].data = Run(off[i], off[i + 1])
    BY <1>2 DEF Laid
  <2>2. last \in 0 .. Len(chain) /\ Len(chain) \in Nat /\ (chain # <<>> => last # 0)
    BY <2>1 DEF OutInv, Holds
  <2>3. ASSUME NEW i \in 1 .. Len(chain)
        PROVE  /\ chain[i] \in Buffer /\ off[i] \in Nat /\ off[i + 1] \in Nat
               /\ off[i] <= off[i + 1] /\ chain[i].data = Run(off[i], off[i + 1])
    <3>1. i \in 1 .. Len(chain) + 1 /\ i + 1 \in 1 .. Len(chain) + 1
      BY <2>2
    <3>2. off[i] \in Nat /\ off[i + 1] \in Nat
      BY <2>1, <3>1
    <3>3. chain[i] \in Buffer
      BY <2>1
    <3> QED
      BY <2>1, <3>2, <3>3
  <2> QED
    BY <2>1, <2>2, <2>3
<1>4. bytes = Run(printed, to)
  <2>1. to - printed = n
    BY <1>1
  <2> QED
    BY <2>1 DEF Run
<1>5. fresh \in Buffer /\ fresh.data = bytes /\ bytes \in Seq(Nat)
  <2>1. bytes \in Seq(Nat)
    BY <1>1, <1>4, RunIs
  <2> HIDE DEF bytes
  <2> QED
    BY <1>1, <2>1 DEF Buffer
<1>6. \/ /\ last # 0
         /\ chain' = [chain EXCEPT ![last].used = @ + n, ![last].data = @ \o bytes]
         /\ last' = last
      \/ chain' = Append(SubSeq(chain, 1, last), fresh) /\ last' = last + 1
  BY DEF Output
<1>0. printed <= to
  BY <1>1
<1> HIDE DEF bytes, fresh, to
<1>7. CASE /\ last # 0
           /\ chain' = [chain EXCEPT ![last].used = @ + n, ![last].data = @ \o bytes]
           /\ last' = last
  <2> DEFINE N == Len(chain)
             new == [i \in 1 .. N + 1 |-> IF i > last THEN to ELSE off[i]]
             d == chain[last].data \o bytes
             b == [chain[last] EXCEPT !.used = chain[last].used + n, !.data = d]
  <2>1. last \in 1 .. N /\ N \in Nat /\ chain[last] \in Buffer /\ last + 1 \in last + 1 .. N + 1
    BY <1>3, <1>7
  <2>2. chain' = [chain EXCEPT ![last] = b]
    <3>1. [chain EXCEPT ![last].used = @ + n, ![last].data = @ \o bytes]
            = [chain EXCEPT ![last] = b]
      BY <1>3, <2>1 DEF Buffer
    <3> QED
      BY <1>7, <3>1
  <2>3. /\ off[last] \in Nat /\ off[last] <= printed
        /\ chain[last].data = Run(off[last], printed)
    BY <1>2, <1>3, <2>1
  <2>4. off[last] <= to
    BY <1>0, <1>1, <2>3
  <2>5. d = Run(off[last], to)
    <3>1. Run(off[last], printed) \o Run(printed, to) = Run(off[last], to)
      BY <1>0, <1>1, <2>3, RunsJoin
    <3> QED
      BY <1>4, <2>3, <3>1
  <2>6. d \in Seq(Nat) /\ chain[last].used + n \in Nat
    <3>1. Run(off[last], to) \in Seq(Nat)
      BY <1>1, <2>3, <2>4, RunIs
    <3>2. chain[last].used \in Nat
      BY <2>1 DEF Buffer
    <3> QED
      BY <1>1, <2>5, <3>1, <3>2
  <2> HIDE DEF d
  <2>7. b \in Buffer /\ b.data = d
    BY <2>1, <2>6 DEF Buffer
  <2> HIDE DEF b
  <2>8. chain' \in Seq(Buffer) /\ Len(chain') = N /\ chain' # <<>>
        /\ \A i \in 1 .. N : chain'[i] = IF i = last THEN b ELSE chain[i]
    <3>1. chain' \in Seq(Buffer) /\ Len(chain') = N
      BY <1>3, <2>1, <2>2, <2>7
    <3>2. chain' # <<>>
      BY <2>1, <3>1
    <3>3. \A i \in 1 .. N : chain'[i] = IF i = last THEN b ELSE chain[i]
      BY <1>3, <2>2
    <3> QED
      BY <3>1, <3>2, <3>3
  <2>9. /\ new \in [1 .. N + 1 -> Nat]
        /\ \A i \in 1 .. N + 1 : new[i] = IF i > last THEN to ELSE off[i]
    BY <1>1, <1>3
  <2> HIDE DEF N, new
  <2>10. ASSUME NEW i \in 1 .. N
         PROVE  new[i] <= new[i + 1] /\ chain'[i].data = Run(new[i], new[i + 1])
    <3>1. i \in 1 .. N + 1 /\ i + 1 \in 1 .. N + 1 /\ i \in Nat /\ last \in Nat
      BY <2>1
    <3>2. /\ off[i] <= off[i + 1] /\ chain[i].data = Run(off[i], off[i + 1])
          /\ off[i] \in Nat /\ off[i + 1] \in Nat
      BY <1>3 DEF N
    <3>3. CASE i < last
      <4>1. new[i] = off[i] /\ new[i + 1] = off[i + 1] /\ chain'[i] = chain[i]
        BY <2>1, <2>8, <2>9, <3>1, <3>3
      <4> QED
        BY <3>2, <4>1
    <3>4. CASE i = last
      <4>1. new[i] = off[last] /\ new[i + 1] = to /\ chain'[i].data = d
        BY <2>1, <2>7, <2>8, <2>9, <3>1, <3>4
      <4> QED
        BY <2>4, <2>5, <4>1
    <3>5. CASE i > last
      <4>1. i \in last + 1 .. N + 1 /\ i + 1 \in last + 1 .. N + 1
        BY <2>1, <3>1, <3>5
      <4>2. off[i] = printed /\ off[i + 1] = printed
        BY <1>2, <4>1 DEF N
      <4>3. new[i] = to /\ new[i + 1] = to /\ chain'[i] = chain[i]
        BY <2>1, <2>8, <2>9, <3>1, <3>5
      <4>4. chain'[i].data = <<>> /\ Run(to, to) = <<>>
        BY <1>1, <3>2, <4>2, <4>3, EmptyRun
      <4> QED
        BY <1>1, <4>3, <4>4
    <3> QED
      BY <3>1, <3>3, <3>4, <3>5
  <2>11. Laid(chain', new)
    BY <2>8, <2>9, <2>10 DEF Laid
  <2>12. new[1] = Len(sent) /\ \A i \in last + 1 .. N + 1 : new[i] = to
    <3>1. 1 \in 1 .. N + 1 /\ ~(1 > last) /\ \A i \in last + 1 .. N + 1 : i \in 1 .. N + 1 /\ i > last
      BY <2>1
    <3> QED
      BY <1>2, <2>9, <3>1
  <2>13. last \in 0 .. N /\ last # 0 /\ last' = last
    BY <1>7, <2>1
  <2> QED
    BY <1>1, <2>8, <2>11, <2>12, <2>13 DEF Holds
<1>8. CASE chain' = Append(SubSeq(chain, 1, last), fresh) /\ last' = last + 1
  <2> DEFINE front == SubSeq(chain, 1, last)
             N == last + 1
             new == [i \in 1 .. N + 1 |-> IF i > N THEN to ELSE off[i]]
  <2>1. /\ front \in Seq(Buffer) /\ Len(front) = last
        /\ \A i \in 1 .. last : front[i] = chain[i]
    <3>1. \A i \in 1 .. last : chain[i] \in Buffer
      BY <1>3
    <3>2. /\ front \in Seq(Buffer) /\ Len(front) = IF 1 <= last THEN last - 1 + 1 ELSE 0
          /\ \A i \in 1 .. last - 1 + 1 : front[i] = chain[1 + i - 1]
      BY <1>3, <3>1, SubSeqProperties
    <3> HIDE DEF front
    <3> QED
      BY <1>3, <3>2
  <2>2. last \in Nat /\ N \in Nat
    BY <1>3
  <2> HIDE DEF front
  <2>3. /\ chain' \in Seq(Buffer) /\ Len(chain') = N /\ chain'[N] = fresh
        /\ \A i \in 1 .. last : chain'[i] = chain[i]
    <3>1. chain' = Append(front, fresh)
      BY <1>8 DEF front
    <3> QED
      BY <1>5, <2>1, <2>2, <3>1
  <2>4. /\ new \in [1 .. N + 1 -> Nat]
        /\ \A i \in 1 .. N + 1 : new[i] = IF i > N THEN to ELSE off[i]
    <3>1. \A i \in 1 .. N : i \in 1 .. Len(chain) + 1
      BY <1>3
    <3>2. \A i \in 1 .. N : off[i] \in Nat
      BY <1>3, <3>1
    <3> QED
      BY <1>1, <2>2, <3>2
  <2> HIDE DEF new
  <2>5. ASSUME NEW i \in 1 .. N
        PROVE  new[i] <= new[i + 1] /\ chain'[i].data = Run(new[i], new[i + 1])
    <3>1. CASE i \in 1 .. last
      <4>1. new[i] = off[i] /\ new[i + 1] = off[i + 1] /\ chain'[i] = chain[i] /\ i \in 1 .. Len(chain)
        BY <1>3, <2>2, <2>3, <2>4, <3>1
      <4> QED
        BY <1>3, <4>1
    <3>2. CASE i = N
      <4>1. new[i] = off[N] /\ new[i + 1] = to /\ chain'[i] = fresh
        BY <2>2, <2>3, <2>4, <3>2
      <4>2. off[N] = printed
        BY <1>2, <1>3, <2>2
      <4> QED
        BY <1>0, <1>4, <1>5, <4>1, <4>2
    <3> QED
      BY <2>2, <3>1, <3>2
  <2>6. Laid(chain', new)
    BY <2>3, <2>4, <2>5 DEF Laid
  <2>7. new[1] = Len(sent) /\ \A i \in N + 1 .. N + 1 : new[i] = to
    BY <1>2, <2>2, <2>4
  <2>8. N \in 0 .. Len(chain') /\ N # 0 /\ chain' # <<>>
    <3>1. N \in 0 .. Len(chain') /\ Len(chain') # 0
      BY <2>2, <2>3
    <3> QED
      BY <2>2, <3>1
  <2>9. last' = N
    BY <1>8
  <2> HIDE DEF N
  <2> QED
    BY <1>1, <2>3, <2>6, <2>7, <2>8, <2>9 DEF Holds
<1> QED
  BY <1>6, <1>7, <1>8

-----------------------------------------------------------------------------
\* What is to be sent is what was printed and not sent yet, and the first k bytes of
\* it can be taken from the chain.
LEMMA TakeHolds ==
    ASSUME OutInv
    PROVE  /\ Pending = Run(Len(sent), printed) /\ Len(Pending) = printed - Len(sent)
           /\ sent \o Pending = Run(0, printed)
           /\ \A k \in 0 .. printed - Len(sent) :
                 /\ sent \o SubSeq(Pending, 1, k) = Run(0, Len(sent) + k)
                 /\ Holds(Drop(k), last, Len(sent) + k, printed)
                 /\ Len(Drop(k)) = Len(chain)
<1> DEFINE a == Len(sent)
<1>1. a \in Nat /\ printed \in Nat /\ a <= printed /\ sent = Run(0, a)
      /\ Holds(chain, last, a, printed)
  BY DEF OutInv
<1> HIDE DEF a
<1>2. PICK off : /\ Laid(chain, off) /\ off[1] = a
                 /\ \A i \in last + 1 .. Len(chain) + 1 : off[i] = printed
  BY <1>1 DEF Holds
<1>3. off[Len(chain) + 1] = printed
  <2>1. last \in 0 .. Len(chain) /\ Len(chain) \in Nat
    BY <1>1, <1>2 DEF Holds, Laid
  <2>2. Len(chain) + 1 \in last + 1 .. Len(chain) + 1
    BY <2>1
  <2> QED
    BY <1>2, <2>2
<1>4. Pending = Run(a, printed)
  BY <1>2, <1>3, PendingIs
<1>5. Len(Pending) = printed - a
  BY <1>1, <1>4, RunIs
<1>6. sent \o Pending = Run(0, printed)
  <2>1. 0 \in Nat /\ 0 <= a
    BY <1>1
  <2>2. Run(0, a) \o Run(a, printed) = Run(0, printed)
    BY <1>1, <2>1, RunsJoin
  <2> QED
    BY <1>1, <1>4, <2>2
<1>7. ASSUME NEW k \in 0 .. printed - a
      PROVE  /\ sent \o SubSeq(Pending, 1, k) = Run(0, a + k)
             /\ Holds(Drop(k), last, a + k, printed) /\ Len(Drop(k)) = Len(chain)
  <2>1. k \in Nat /\ a + k <= printed /\ a + k \in Nat /\ a <= a + k
    BY <1>1
  <2>2. SubSeq(Pending, 1, k) = Run(a, a + k)
    BY <1>1, <1>4, <2>1, RunFront
  <2>3. Run(0, a) \o Run(a, a + k) = Run(0, a + k)
    <3>1. 0 \in Nat /\ 0 <= a
      BY <1>1
    <3> QED
      BY <1>1, <2>1, <3>1, RunsJoin
  <2>4. Holds(Drop(k), last, a + k, printed) /\ Len(Drop(k)) = Len(chain)
    BY <1>1, <2>1, DropIs
  <2> QED
    BY <1>1, <2>2, <2>3, <2>4
<1> QED
  BY <1>4, <1>5, <1>6, <1>7 DEF a

\* A run of l bytes, sent, and the chain behind it, are as they should be.
LEMMA SentSoFar ==
    ASSUME NEW l \in Nat, printed' \in Nat, l <= printed', sent' = Run(0, l),
           Holds(chain', last', l, printed'), wev'.handler = "send" => chain' # <<>>
    PROVE  OutInv'
<1>1. Len(sent') = l
  <2>1. l - 0 = l /\ 0 <= l
    OBVIOUS
  <2> QED
    BY <2>1, RunIs
<1>2. Holds(chain, last, Len(sent), printed)'
  BY <1>1 DEF Holds, Laid, Buffer, Run
<1> QED
  BY <1>1, <1>2 DEF OutInv, Run

\* A step that neither prints nor sends, nor installs the handler of a send.
Silent == UNCHANGED outVars /\ (wev'.handler = "send" => wev.handler = "send")

\* A call or an event of send.
Writes == WriteHandler /\ chain # <<>> /\ UNCHANGED printed

\* A step that says and sends nothing.
LEMMA SilentStep == ASSUME OutInv, Silent PROVE OutInv'
<1>1. OutInv /\ UNCHANGED outVars => Holds(chain', last', Len(sent'), printed')
  BY DEF OutInv, outVars
<1>2. Len(sent) \in Nat /\ printed \in Nat /\ Len(sent) <= printed
      /\ sent' = Run(0, Len(sent)) /\ printed' = printed /\ chain' = chain /\ last' = last
      /\ (wev.handler = "send" => chain # <<>>)
  BY DEF OutInv, Silent, outVars
<1> QED
  BY <1>1, <1>2, SentSoFar DEF Silent, OutInv

\* The script prints.
LEMMA PrintStepOut ==
    ASSUME OutInv, NEW n \in PrintSizes, Output(n), SessionAssumption
    PROVE  OutInv' /\ printed' > printed /\ sent' = sent
<1>1. n \in Nat \ {0} /\ printed \in Nat /\ Len(sent) \in Nat /\ Len(sent) <= printed
  BY DEF OutInv, SessionAssumption
<1>2. printed' = printed + n /\ sent' = sent
  BY DEF Output
<1>3. Holds(chain', last', Len(sent), printed + n) /\ chain' # <<>>
  BY PrintHolds
<1>4. sent' = Run(0, Len(sent))
  BY <1>2 DEF OutInv
<1>5. printed' \in Nat /\ Len(sent) <= printed' /\ printed' > printed
  BY <1>1, <1>2
<1> QED
  BY <1>1, <1>2, <1>3, <1>4, <1>5, SentSoFar

\* What is sent grows by bytes that were printed.
Sends == \E l \in Nat : Len(sent) <= l /\ l <= printed /\ sent' = Run(0, l)

\* Some of it is accepted.
LEMMA TakeStep ==
    ASSUME OutInv, UNCHANGED <<printed, last>>, NEW k \in 0 .. Len(Pending),
           chain' = Drop(k), sent' = sent \o SubSeq(Pending, 1, k),
           wev'.handler = "send" => chain # <<>>
    PROVE  OutInv' /\ Sends
<1>1. Len(sent) \in Nat /\ printed \in Nat /\ Len(sent) <= printed
  BY DEF OutInv
<1>2. k \in 0 .. printed - Len(sent)
  BY TakeHolds
<1> DEFINE l == Len(sent) + k
<1>3. l \in Nat /\ Len(sent) <= l /\ l <= printed
  BY <1>1, <1>2
<1>4. sent' = Run(0, l) /\ Holds(chain', last', l, printed') /\ Len(chain') = Len(chain)
  BY <1>2, TakeHolds
<1>5. chain # <<>> => chain' # <<>>
  <2>1. chain \in Seq(Buffer) /\ chain' \in Seq(Buffer)
    BY <1>4 DEF OutInv, Holds, Laid
  <2> QED
    BY <1>4, <2>1
<1> HIDE DEF l
<1> QED
  BY <1>1, <1>3, <1>4, <1>5, SentSoFar DEF Sends

\* A call or an event of send, whatever of it is accepted.
LEMMA WriteStepOut == ASSUME OutInv, Writes, wev \in Event PROVE OutInv' /\ Sends
<1>1. Len(sent) \in Nat /\ printed \in Nat /\ Len(sent) <= printed /\ printed' = printed
      /\ sent = Run(0, Len(sent)) /\ chain # <<>> /\ chain \in Seq(Buffer)
  BY DEF OutInv, Writes, Holds, Laid
<1>2. CASE UNCHANGED <<chain, last, sent>>
  <2>1. Holds(chain', last', Len(sent), printed')
    <3>1. OutInv /\ UNCHANGED <<chain, last, printed>> => Holds(chain', last', Len(sent), printed')
      BY DEF OutInv
    <3> QED
      BY <1>1, <1>2, <3>1
  <2>2. chain' # <<>> /\ sent' = Run(0, Len(sent))
    BY <1>1, <1>2
  <2> QED
    BY <1>1, <2>1, <2>2, SentSoFar DEF Sends
<1>3. CASE sent' = sent \o Pending /\ chain' = Rewound /\ last' = 1
  <2>1. sent' = Run(0, printed)
    BY <1>3, TakeHolds
  <2>2. Holds(chain', last', printed, printed') /\ chain' # <<>>
    BY <1>1, <1>3, RewoundIs
  <2> QED
    BY <1>1, <2>1, <2>2, SentSoFar DEF Sends
<1>4. CASE \E k \in 0 .. Len(Pending) - 1 :
              chain' = Drop(k) /\ sent' = sent \o SubSeq(Pending, 1, k) /\ last' = last
  <2>1. PICK k \in 0 .. Len(Pending) - 1 :
              chain' = Drop(k) /\ sent' = sent \o SubSeq(Pending, 1, k) /\ last' = last
    BY <1>4
  <2>2. k \in 0 .. Len(Pending)
    BY <1>1, <2>1, TakeHolds
  <2> QED
    BY <1>1, <2>1, <2>2, TakeStep
<1> QED
  BY <1>2, <1>3, <1>4 DEF Writes, WriteHandler

-----------------------------------------------------------------------------
\* What a session's step does to what it prints and sends: nothing, or it prints, or
\* it sends, in a call or an event of send, as the body of an http response, or, at
\* the end of a udp session, a datagram.
Ends ==
    /\ conn = "open" /\ conn' = "closed" /\ proto = "udp"
    /\ UNCHANGED <<chain, last, printed>>
    /\ sent' = sent \/ (chain # <<>> /\ sent' = sent \o Datagram)

Kinds ==
    /\ proto' = proto /\ head' = head /\ (conn = "closed" => conn' = "closed")
    /\ \/ Silent
       \/ conn = "open" /\ conn' = conn /\ \E n \in PrintSizes : Output(n)
       \/ conn = "open" /\ conn' = conn /\ Writes
       \/ conn = "open" /\ conn' = conn /\ HttpSends
       \/ Ends

\* The steps of a tcp session.
LEMMA TcpKinds ==
    ASSUME SInv, stage # "reply", OutInv, Next, UNCHANGED <<proto, head>>
    PROVE  Kinds
<1> USE DEF Kinds
<1>1. wev \in Event /\ rev \in Event /\ conn \in {"open", "closed"}
      /\ (vm = "running" => conn = "open") /\ (conn = "closed" => vm = "dead")
  BY DEF SInv, Typed, Life
<1>2. CASE LoadFails \/ ScriptEnds \/ CoreCloses
  <2>1. /\ conn = "open" /\ conn' = "closed" /\ UNCHANGED outVars /\ wev' = Quiet
    BY <1>2 DEF LoadFails, ScriptEnds, CoreCloses, Close, Gone
  <2> QED
    BY <2>1 DEF Silent, Quiet
<1>3. CASE \E n \in PrintSizes : Output(n)
  <2>1. conn = "open" /\ conn' = conn
    BY <1>1, <1>3 DEF Output
  <2> QED
    BY <1>3, <2>1
<1>4. CASE Send
  <2>1. conn = "open" /\ conn' = conn /\ WriteHandler /\ printed' = printed /\ chain # <<>>
    BY <1>1, <1>4 DEF Send, FirstData
  <2> QED
    BY <2>1 DEF Writes
<1>5. CASE WriteEvent
  <2>1. conn = "open" /\ conn' = conn /\ WriteHandler /\ printed' = printed /\ chain # <<>>
    BY <1>5 DEF WriteEvent, OutInv
  <2> QED
    BY <2>1 DEF Writes
<1>6. CASE WriteTimeout
  <2>1. conn' = conn /\ UNCHANGED outVars /\ (wev'.handler = "send" => wev.handler = "send")
    BY <1>1, <1>6 DEF WriteTimeout, Event
  <2> QED
    BY <2>1 DEF Silent
<1>7. CASE Recv
  <2>1. conn' = conn /\ UNCHANGED outVars /\ (wev'.handler = "send" => wev.handler = "send")
    BY <1>1, <1>7 DEF Recv, Event
  <2> QED
    BY <2>1 DEF Silent
<1>8. CASE \/ Process \/ SendNothing \/ RecvNoMemory \/ ReadEvent \/ ReadTimeout \/ ClientSends
           \/ Sleep \/ SleepFails \/ SleepHalfFails \/ Wake \/ WakeFreed
  <2>1. UNCHANGED <<conn, outVars, wev>>
    BY <1>8 DEF Process, SendNothing, RecvNoMemory, ReadEvent, ReadTimeout, ClientSends, Sleep,
                SleepFails, SleepHalfFails, Wake, WakeFreed
  <2> QED
    BY <2>1 DEF Silent
<1> QED
  BY <1>2, <1>3, <1>4, <1>5, <1>6, <1>7, <1>8 DEF Next

\* The steps of http.
LEMMA HttpKinds == ASSUME SInv, Http, UNCHANGED <<proto, head>> PROVE Kinds
<1> USE DEF Kinds
<1>1. CASE HttpRefuses \/ HttpLoadFails \/ HttpScriptEnds
  <2>1. UNCHANGED <<conn, outVars, wev>>
    BY <1>1 DEF HttpRefuses, HttpLoadFails, HttpScriptEnds, HttpFinalize
  <2> QED
    BY <2>1 DEF Silent
<1>2. CASE HttpSends
  <2>1. conn = "open" /\ conn' = conn
    BY <1>2 DEF HttpSends, SInv, Replying
  <2> QED
    BY <1>2, <2>1
<1>3. CASE HttpFreed
  <2>1. conn = "open" /\ UNCHANGED outVars /\ (wev'.handler = "send" => wev.handler = "send")
    BY <1>3 DEF HttpFreed, Close, Gone, Quiet
  <2> QED
    BY <2>1 DEF Silent
<1>4. CASE HttpLogged
  <2>1. conn' = "closed" /\ UNCHANGED outVars /\ wev' = Quiet
    BY <1>4 DEF HttpLogged, Close, Gone
  <2> QED
    BY <2>1 DEF Silent, Quiet
<1> QED
  BY <1>1, <1>2, <1>3, <1>4 DEF Http

\* The steps of every protocol.
LEMMA SessionKinds ==
    ASSUME SInv, conn = "open" \/ proto # "udp" => OutInv, SessionsNext
    PROVE  Kinds
<1>1. conn \in {"open", "closed"} /\ (stage # "reply" /\ conn = "closed" => vm = "dead")
  BY DEF SInv, Typed, Life
<1>2. CASE LoadWaits \/ Starts \/ ReadFreed
  <2>1. UNCHANGED <<proto, head, conn, outVars, wev>>
    BY <1>2 DEF LoadWaits, Starts, ReadFreed, Process, vars
  <2> QED
    BY <2>1 DEF Kinds, Silent
<1>3. CASE ClosesLoading \/ LateLoadFails
  <2>1. UNCHANGED <<proto, head, outVars>> /\ conn' = "closed" /\ wev' = Quiet
    BY <1>3 DEF ClosesLoading, LateLoadFails, LoadFails, Close, Gone
  <2> QED
    BY <2>1 DEF Kinds, Silent, Quiet
<1>4. CASE Runs
  <2>1. UNCHANGED <<proto, head>>
    BY <1>4 DEF Runs, webVars
  <2>2. CASE stage = "script" /\ \E n \in PrintSizes : Output(n)
    <3>1. conn = "open" /\ conn' = conn
      BY <1>1, <2>2 DEF Output
    <3> QED
      BY <2>1, <2>2, <3>1 DEF Kinds
  <2>3. CASE Sleep \/ SleepFails \/ SleepHalfFails \/ Wake \/ WakeFreed
    <3>1. UNCHANGED <<conn, outVars, wev>>
      BY <2>3 DEF Sleep, SleepFails, SleepHalfFails, Wake, WakeFreed
    <3> QED
      BY <2>1, <3>1 DEF Kinds, Silent
  <2> QED
    BY <1>4, <2>2, <2>3 DEF Runs
<1>5. CASE Tcp \/ Udt
  <2>1. Next /\ UNCHANGED <<proto, head>> /\ stage = "script" /\ proto # "udp"
    BY <1>5 DEF Tcp, Udt, UdtSession, UdtRequest, UdtResponse, Next, webVars
  <2> QED
    BY <2>1, TcpKinds
<1>6. CASE Udp
  <2>1. CASE vm = "running" /\ UdpFinalize(Release)
    <3>1. Ends /\ UNCHANGED <<proto, head>>
      BY <1>6, <2>1 DEF Udp, UdpFinalize, Gone, Ends
    <3> QED
      BY <3>1 DEF Kinds, Ends
  <2>2. CASE vm = "new" /\ UdpFinalize(held)
    <3>1. Ends /\ UNCHANGED <<proto, head>>
      BY <1>6, <2>2 DEF Udp, UdpFinalize, Gone, Ends
    <3> QED
      BY <3>1 DEF Kinds, Ends
  <2>3. CASE CoreCloses /\ UNCHANGED webVars
    <3>1. UNCHANGED <<proto, head, outVars>> /\ conn' = "closed" /\ wev' = Quiet
      BY <2>3 DEF CoreCloses, Close, Gone, webVars
    <3> QED
      BY <3>1 DEF Kinds, Silent, Quiet
  <2> QED
    BY <1>6, <2>1, <2>2, <2>3 DEF Udp
<1>7. CASE Http
  <2>1. UNCHANGED <<proto, head>>
    BY <1>7 DEF Http, HttpRefuses, HttpLoadFails, HttpScriptEnds, HttpFinalize, HttpSends,
                HttpFreed, HttpLogged, webVars
  <2> QED
    BY <1>7, <2>1, HttpKinds
<1> QED
  BY <1>2, <1>3, <1>4, <1>5, <1>6, <1>7 DEF SessionsNext

-----------------------------------------------------------------------------
\* The invariant of all that is sent.  A udp session's end leaves the chain as it is,
\* what was sent of it included: nothing looks at it again.
OInv == SInv /\ (conn = "open" \/ proto # "udp" => OutInv)

\* Nothing printed, nothing sent: an empty chain.
LEMMA SessionsInitOInv == SessionsInit => OInv
<1> SUFFICES ASSUME SessionsInit PROVE OInv
  OBVIOUS
<1>1. /\ chain = <<>> /\ last = 0 /\ printed = 0 /\ sent = <<>> /\ wev.handler # "send"
  BY DEF SessionsInit, Init, Quiet
<1> DEFINE off == [i \in 1 .. 1 |-> 0]
<1>2. off \in [1 .. 1 -> Nat] /\ off[1] = 0 /\ Len(<<>>) = 0 /\ <<>> \in Seq(Buffer)
  OBVIOUS
<1> HIDE DEF off
<1>3. \A i \in 1 .. Len(<<>>) : FALSE
  BY <1>2
<1>4. Laid(<<>>, off)
  BY <1>2, <1>3 DEF Laid
<1>5. Holds(<<>>, 0, 0, 0)
  <2>1. 0 \in 0 .. Len(<<>>) /\ \A i \in 0 + 1 .. Len(<<>>) + 1 : off[i] = 0
    BY <1>2
  <2> QED
    BY <1>2, <1>4, <2>1 DEF Holds
<1>6. Run(0, 0) = <<>>
  BY EmptyRun
<1>7. OutInv
  BY <1>1, <1>2, <1>5, <1>6 DEF OutInv
<1> QED
  BY <1>7, SessionsInitSInv DEF OInv

\* What a step of each kind leaves of it, and of what is sent while a session is open.
LEMMA KindsStep ==
    ASSUME OutInv, Kinds, wev \in Event, SessionAssumption
    PROVE  /\ conn' = "open" \/ proto' # "udp" => OutInv'
           /\ \/ UNCHANGED <<printed, sent>>
              \/ conn = "open" /\ conn' = conn /\ printed' > printed /\ printed' \in Nat /\ sent' = sent
              \/ conn = "open" /\ printed' = printed /\ Sends
<1>1. CASE Silent
  BY <1>1, SilentStep DEF Silent, outVars
<1>2. CASE conn = "open" /\ conn' = conn /\ \E n \in PrintSizes : Output(n)
  <2>1. OutInv' /\ printed' > printed /\ sent' = sent
    BY <1>2, PrintStepOut
  <2>2. printed' \in Nat
    BY <2>1 DEF OutInv
  <2> QED
    BY <1>2, <2>1, <2>2
<1>3. CASE conn = "open" /\ conn' = conn /\ Writes
  <2>1. OutInv' /\ Sends
    BY <1>3, WriteStepOut
  <2>2. printed' = printed
    BY <1>3 DEF Writes
  <2> QED
    BY <1>3, <2>1, <2>2
<1>4. CASE conn = "open" /\ conn' = conn /\ HttpSends
  <2>1. PICK k \in 1 .. Len(Pending) : chain' = Drop(k) /\ sent' = sent \o SubSeq(Pending, 1, k)
    BY <1>4 DEF HttpSends
  <2>2. UNCHANGED <<printed, last, wev>>
    BY <1>4 DEF HttpSends
  <2>3. k \in 0 .. Len(Pending)
    BY <2>1
  <2>4. wev'.handler = "send" => chain # <<>>
    BY <2>2 DEF OutInv
  <2>5. OutInv' /\ Sends
    BY <2>1, <2>2, <2>3, <2>4, TakeStep
  <2> QED
    BY <1>4, <2>2, <2>5
<1>5. CASE Ends
  <2>1. conn = "open" /\ printed' = printed /\ conn' # "open" /\ proto' = "udp"
    BY <1>5 DEF Ends, Kinds
  <2>2. Len(sent) \in Nat /\ printed \in Nat /\ Len(sent) <= printed /\ sent = Run(0, Len(sent))
    BY DEF OutInv
  <2>3. Sends
    <3>1. CASE sent' = sent
      BY <2>2, <3>1 DEF Sends
    <3>2. CASE chain # <<>> /\ sent' = sent \o Datagram
      <4> DEFINE a == Len(sent)
      <4>1. /\ a \in Nat /\ printed \in Nat /\ a <= printed /\ sent = Run(0, a)
            /\ Holds(chain, last, a, printed)
        BY DEF OutInv
      <4> HIDE DEF a
      <4>2. PICK off : /\ Laid(chain, off) /\ off[1] = a
                       /\ \A i \in last + 1 .. Len(chain) + 1 : off[i] = printed
        BY <4>1 DEF Holds
      <4>3. /\ chain \in Seq(Buffer) /\ Len(chain) \in Nat \ {0} /\ last \in 1 .. Len(chain)
        <5>1. chain \in Seq(Buffer)
          BY <4>2 DEF Laid
        <5>2. Len(chain) \in Nat \ {0}
          BY <3>2, <5>1
        <5> QED
          BY <3>2, <4>1, <5>1, <5>2 DEF Holds
      <4>4. /\ off[1] <= off[2] /\ Datagram = Run(off[1], off[2])
        <5>1. 1 \in 1 .. Len(chain) /\ 1 + 1 = 2
          BY <4>3
        <5> QED
          BY <4>2, <5>1 DEF Laid, Datagram
      <4>5. off[2] \in Nat /\ off[2] <= printed
        <5>1. /\ off \in [1 .. Len(chain) + 1 -> Nat] /\ 2 \in 1 .. Len(chain) + 1
          BY <4>2, <4>3 DEF Laid
        <5>2. off[2] <= off[Len(chain) + 1]
          BY <4>2, <4>3, LaidGrows
        <5>3. off[Len(chain) + 1] = printed
          BY <4>2, <4>3
        <5> QED
          BY <5>1, <5>2, <5>3
      <4>6. Run(0, a) \o Run(a, off[2]) = Run(0, off[2])
        <5>1. 0 \in Nat /\ 0 <= a /\ a <= off[2]
          BY <4>1, <4>2, <4>4
        <5> QED
          BY <4>1, <4>5, <5>1, RunsJoin
      <4>7. sent' = Run(0, off[2]) /\ a <= off[2]
        BY <3>2, <4>1, <4>2, <4>4, <4>6
      <4> QED
        BY <4>5, <4>7 DEF Sends, a
    <3> QED
      BY <1>5, <3>1, <3>2 DEF Ends
  <2> QED
    BY <2>1, <2>3
<1> QED
  BY <1>1, <1>2, <1>3, <1>4, <1>5 DEF Kinds

\* No step of any protocol breaks the invariant of what is sent.
LEMMA NextOInv == OInv /\ [SessionsNext]_sessionVars /\ SessionAssumption => OInv'
<1> SUFFICES ASSUME OInv, [SessionsNext]_sessionVars, SessionAssumption PROVE OInv'
  OBVIOUS
<1>1. SInv'
  BY NextSInv DEF OInv
<1>2. CASE UNCHANGED sessionVars
  <2>1. conn' = conn /\ proto' = proto /\ Silent
    BY <1>2 DEF sessionVars, vars, webVars, Silent, outVars
  <2> QED
    BY <1>1, <2>1, SilentStep DEF OInv
<1>3. CASE SessionsNext
  <2>1. Kinds
    BY <1>3, SessionKinds DEF OInv
  <2>2. conn' = "open" \/ proto' # "udp" => OutInv
    BY <2>1 DEF OInv, Kinds, SInv, Typed
  <2>3. conn' = "open" \/ proto' # "udp" => OutInv'
    BY <2>1, <2>2, KindsStep DEF OInv, SInv, Typed
  <2> QED
    BY <1>1, <2>3 DEF OInv
<1> QED
  BY <1>2, <1>3

\* What is sent and what waits to be sent is what was printed, in sessions of every protocol,
\* until a udp session has ended.
THEOREM SessionsOutput == SessionsSpec => []OInv
<1>1. SessionAssumption
  BY SessionAssumption
<1>2. OInv /\ [SessionsNext]_sessionVars => OInv'
  BY <1>1, NextOInv
<1> QED
  BY <1>2, SessionsInitOInv, PTL DEF SessionsSpec

\* However prints, partial writes, failures and rewinds alternate, no printed byte is
\* lost, repeated or overtaken while a session is open (ngx_squ_tcp_output and its
\* copies, ngx_squ_tcp_response_write_handler, ngx_http_output_filter).
THEOREM SessionsOutputInOrder == SessionsSpec => []OutputInOrder
<1>1. OInv => OutputInOrder
  <2> SUFFICES ASSUME OInv, conn = "open" PROVE sent \o Pending = [i \in 1 .. printed |-> i]
    BY DEF OutputInOrder
  <2>1. OutInv /\ printed \in Nat
    BY DEF OInv, OutInv
  <2>2. sent \o Pending = Run(0, printed)
    BY <2>1, TakeHolds
  <2>3. Run(0, printed) = [i \in 1 .. printed |-> i]
    BY <2>1, PrintedRun
  <2> QED
    BY <2>2, <2>3
<1> QED
  BY <1>1, SessionsOutput, PTL

-----------------------------------------------------------------------------
(* What is said of it in the header of a response                           *)

\* Before the script of an http request has ended nothing is sent; afterwards there is
\* one header at most, and nothing more is printed.
WebInv ==
    proto = "http" =>
        /\ headers = <<>> \/ \E h : headers = <<h>> /\ (h.length # <<>> => h.length = <<printed>>)
        /\ conn = "open" /\ stage \in {"script", "loading"} => headers = <<>> /\ sent = <<>>
        /\ sent # <<>> => headers # <<>> /\ ~head
        /\ stage # "orphan"

\* The header says the length of all that was printed.
LEMMA HeaderStep ==
    ASSUME OInv, WebInv, proto = "http", conn = "open", stage \in {"script", "loading"},
           HttpFinalize
    PROVE  WebInv'
<1>1. headers = <<>> /\ sent = <<>> /\ OutInv
  BY DEF WebInv, OInv
<1>2. BodyLength = printed
  <2>1. Len(Pending) = printed - Len(sent) /\ Len(sent) = 0 /\ printed \in Nat
    BY <1>1, TakeHolds DEF OutInv
  <2> QED
    BY <2>1 DEF BodyLength
<1>3. /\ stage' = "reply" /\ proto' = proto /\ sent' = sent /\ printed' = printed
  BY DEF HttpFinalize, outVars
<1>4. CASE UNCHANGED headers
  BY <1>1, <1>3, <1>4 DEF WebInv
<1>5. CASE headers' = Append(headers, [status |-> "ok",
                                       length |-> IF head THEN <<>> ELSE <<BodyLength>>])
  <2> DEFINE h == [status |-> "ok", length |-> IF head THEN <<>> ELSE <<BodyLength>>]
  <2>1. headers' = <<h>>
    BY <1>1, <1>5
  <2>2. h.length # <<>> => h.length = <<printed'>>
    BY <1>2, <1>3
  <2> HIDE DEF h
  <2> QED
    BY <1>1, <1>3, <2>1, <2>2 DEF WebInv
<1> QED
  BY <1>4, <1>5 DEF HttpFinalize

\* The steps of http: the header is made when the script has ended.
LEMMA HttpWebStep ==
    ASSUME OInv, WebInv, Http PROVE WebInv'
<1>0. proto = "http" /\ SInv
  BY DEF Http, OInv
<1>1. CASE HttpRefuses
  <2>1. /\ headers' = <<[status |-> "error", length |-> <<>>]>> /\ stage' = "reply"
        /\ proto' = proto /\ sent' = <<>>
    BY <1>0, <1>1 DEF HttpRefuses, WebInv, outVars
  <2> QED
    BY <2>1 DEF WebInv
<1>2. CASE HttpLoadFails
  BY <1>0, <1>2, HeaderStep DEF HttpLoadFails
<1>3. CASE HttpScriptEnds
  <2>1. conn = "open"
    BY <1>0, <1>3 DEF HttpScriptEnds, SInv, Typed, Life
  <2> QED
    BY <1>0, <1>3, <2>1, HeaderStep DEF HttpScriptEnds
<1>4. CASE HttpSends
  <2>1. headers # <<>> /\ ~head /\ stage = "reply"
        /\ UNCHANGED <<proto, head, stage, headers, printed>>
    BY <1>4 DEF HttpSends, Body, webVars
  <2> QED
    BY <2>1 DEF WebInv
<1>5. CASE HttpFreed
  <2>1. UNCHANGED <<proto, head, headers, printed, sent>>
        /\ (stage' = "log" \/ (stage' = "script" /\ conn' = "closed"))
    BY <1>5 DEF HttpFreed, Close, Gone, outVars
  <2> QED
    BY <2>1 DEF WebInv
<1>6. CASE HttpLogged
  <2>1. UNCHANGED <<proto, head, headers, printed, sent>> /\ stage' = "script" /\ conn' = "closed"
    BY <1>6 DEF HttpLogged, Close, Gone, outVars
  <2> QED
    BY <2>1 DEF WebInv
<1> QED
  BY <1>1, <1>2, <1>3, <1>4, <1>5, <1>6 DEF Http

\* No step of any protocol breaks the invariant of the header.
LEMMA NextWebInv ==
    OInv /\ WebInv /\ [SessionsNext]_sessionVars => WebInv'
<1> SUFFICES ASSUME OInv, WebInv, [SessionsNext]_sessionVars PROVE WebInv'
  OBVIOUS
<1>1. SInv /\ (stage # "reply" /\ vm = "running" => conn = "open") /\ conn \in {"open", "closed"}
  BY DEF OInv, SInv, Typed, Life
<1>2. CASE UNCHANGED sessionVars
  BY <1>2 DEF sessionVars, vars, webVars, outVars, WebInv
<1>3. CASE LoadWaits
  BY <1>3 DEF LoadWaits, vars, outVars, WebInv
<1>4. CASE Starts
  BY <1>4 DEF Starts, Process, outVars, WebInv
<1>5. CASE Runs
  <2>1. UNCHANGED webVars /\ sent' = sent /\ conn' = conn
    BY <1>5 DEF Runs, Output, Sleep, SleepFails, SleepHalfFails, Wake, WakeFreed, outVars
  <2>2. CASE stage = "script" /\ \E n \in PrintSizes : Output(n)
    <3>1. conn = "open"
      BY <1>1, <2>2 DEF Output
    <3> QED
      BY <2>1, <2>2, <3>1 DEF WebInv, webVars
  <2>3. CASE Sleep \/ SleepFails \/ SleepHalfFails \/ Wake \/ WakeFreed
    <3>1. printed' = printed
      BY <2>3 DEF Sleep, SleepFails, SleepHalfFails, Wake, WakeFreed, outVars
    <3> QED
      BY <2>1, <3>1 DEF WebInv, webVars
  <2> QED
    BY <1>5, <2>2, <2>3 DEF Runs
<1>6. CASE ReadFreed
  BY <1>6 DEF ReadFreed, vars, outVars, WebInv
<1>7. CASE ClosesLoading \/ Tcp \/ Udt \/ LateLoadFails \/ Udp
  <2>1. proto # "http" /\ proto' = proto
    BY <1>7 DEF ClosesLoading, Tcp, Udt, LateLoadFails, Udp, UdpFinalize, webVars
  <2> QED
    BY <2>1 DEF WebInv
<1>8. CASE Http
  BY <1>8, HttpWebStep
<1> QED
  BY <1>2, <1>3, <1>4, <1>5, <1>6, <1>7, <1>8 DEF SessionsNext

\* An http response has at most one header, and the header the length of all that was printed.
THEOREM SessionsHeaders == SessionsSpec => []WebInv
<1>1. SessionsInit => WebInv
  BY DEF SessionsInit, Init, WebInv
<1> QED
  BY <1>1, NextWebInv, SessionsOutput, PTL DEF SessionsSpec

\* A response has one header, sent before its body, and the length the header says is
\* that of all the script printed, however it ended (ngx_squ_http_finalize).
THEOREM SessionsLengthSaid == SessionsSpec => []LengthSaid
<1>1. OInv /\ WebInv => LengthSaid
  <2> SUFFICES ASSUME OInv, WebInv, proto = "http"
               PROVE  /\ Len(headers) <= 1
                      /\ sent # <<>> => headers # <<>> /\ ~head
                      /\ \A i \in DOMAIN headers :
                            headers[i].length # <<>> => headers[i].length = <<Len(sent \o Pending)>>
    BY DEF LengthSaid
  <2>1. Len(sent \o Pending) = printed
    <3>1. OutInv /\ printed \in Nat
      BY DEF OInv, OutInv
    <3>2. sent \o Pending = Run(0, printed)
      BY <3>1, TakeHolds
    <3>3. 0 \in Nat /\ 0 <= printed /\ printed - 0 = printed
      BY <3>1
    <3> QED
      BY <3>1, <3>2, <3>3, RunIs
  <2>2. CASE headers = <<>>
    BY <2>2 DEF WebInv
  <2>3. CASE \E h : headers = <<h>> /\ (h.length # <<>> => h.length = <<printed>>)
    <3>1. PICK h : headers = <<h>> /\ (h.length # <<>> => h.length = <<printed>>)
      BY <2>3
    <3>2. Len(headers) = 1 /\ DOMAIN headers = {1} /\ headers[1] = h
      BY <3>1
    <3> QED
      BY <2>1, <3>1, <3>2 DEF WebInv
  <2> QED
    BY <2>2, <2>3 DEF WebInv
<1> QED
  BY <1>1, SessionsHeaders, SessionsOutput, PTL

-----------------------------------------------------------------------------
(* What a client may rely on                                                *)

\* A shorter run from the first byte is the beginning of a longer one.
LEMMA PrefixOfRun ==
    ASSUME NEW a \in Nat, NEW b \in Nat, a <= b
    PROVE  Answers!IsPrefix(Run(0, a), Run(0, b))
<1>1. 0 \in Nat /\ 0 <= a /\ 0 <= b /\ a - 0 = a /\ b - 0 = b /\ 0 + a = a /\ a <= a
  OBVIOUS
<1>2. Len(Run(0, a)) = a /\ Len(Run(0, b)) = b
  BY <1>1, RunIs
<1>3. SubSeq(Run(0, a), 1, a) = Run(0, a) /\ SubSeq(Run(0, b), 1, a) = Run(0, a)
  BY <1>1, RunFront
<1> QED
  BY <1>2, <1>3 DEF Answers!IsPrefix

\* Each step of a session is a step of Reply, or leaves what the client sees alone.
LEMMA AnswersStep ==
    OInv /\ [SessionsNext]_sessionVars /\ SessionAssumption
        => [Answers!Next]_<<printed, sent, conn = "open">>
<1> SUFFICES ASSUME OInv, [SessionsNext]_sessionVars, SessionAssumption
             PROVE  Answers!Next \/ UNCHANGED <<printed, sent, conn = "open">>
  OBVIOUS
<1>1. CASE UNCHANGED sessionVars
  BY <1>1 DEF sessionVars, vars, outVars
<1>2. CASE SessionsNext /\ conn = "closed"
  <2>1. Kinds
    BY <1>2, SessionKinds DEF OInv
  <2> QED
    BY <1>2, <2>1 DEF Kinds, Silent, Ends, outVars
<1>3. CASE SessionsNext /\ conn = "open"
  <2>1. OutInv /\ wev \in Event
    BY <1>3 DEF OInv, SInv, Typed
  <2>2. Kinds
    BY <1>3, SessionKinds DEF OInv
  <2>3. \/ UNCHANGED <<printed, sent>>
        \/ conn' = conn /\ printed' > printed /\ printed' \in Nat /\ sent' = sent
        \/ printed' = printed /\ Sends
    BY <1>3, <2>1, <2>2, KindsStep
  <2>4. CASE conn' = conn /\ printed' > printed /\ printed' \in Nat /\ sent' = sent
    BY <1>3, <2>4 DEF Answers!Next, Answers!Prints
  <2>5. CASE printed' = printed /\ Sends
    <3>1. PICK l \in Nat : Len(sent) <= l /\ l <= printed /\ sent' = Run(0, l)
      BY <2>5 DEF Sends
    <3>2. Len(sent) \in Nat /\ printed \in Nat /\ sent = Run(0, Len(sent))
      BY <2>1 DEF OutInv
    <3>3. /\ Answers!IsPrefix(Run(0, Len(sent)), Run(0, l))
          /\ Answers!IsPrefix(Run(0, l), Run(0, printed))
      BY <3>1, <3>2, PrefixOfRun
    <3>4. Answers!IsPrefix(sent, sent') /\ Answers!IsPrefix(sent', [i \in 1 .. printed |-> i])
      BY <3>1, <3>2, <3>3, PrintedRun
    <3> QED
      BY <1>3, <2>5, <3>4 DEF Answers!Next, Answers!Send
  <2>6. CASE UNCHANGED <<printed, sent>>
    <3>1. Sends
      BY <2>1, <2>6 DEF OutInv, Sends
    <3> QED
      BY <2>5, <2>6, <3>1
  <2> QED
    BY <2>3, <2>4, <2>5, <2>6
<1> QED
  BY <1>1, <1>2, <1>3 DEF OInv, SInv, Typed

\* What the client of a session is sent, whatever the protocol, is what the script printed
\* from its first byte on, nothing twice and nothing left out, and never anything when
\* the session has ended.
THEOREM SessionsAnswer == SessionsSpec => ImplementsReply
<1>1. SessionsInit => Answers!Init
  BY DEF SessionsInit, Init, Answers!Init
<1>2. OInv /\ [SessionsNext]_sessionVars => [Answers!Next]_<<printed, sent, conn = "open">>
  BY SessionAssumption, AnswersStep
<1> QED
  BY <1>1, <1>2, SessionsOutput, PTL DEF SessionsSpec, ImplementsReply, Answers!Spec

=============================================================================
