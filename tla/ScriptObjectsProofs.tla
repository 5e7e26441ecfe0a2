------------------------ MODULE ScriptObjectsProofs ------------------------
(***************************************************************************)
(* That the objects of a script share its VM without disturbing one        *)
(* another, that whatever refers to a handle finds out when it has been    *)
(* freed, and that the kernel is asked to transfer only what is there, for *)
(* any number of handles and files, any responses and any sizes.           *)
(*                                                                         *)
(* Each object has an invariant of its own, SocketInv, MailInv, HttpInv and *)
(* FileInv, which speaks of the VM only as far as the VM waits for that    *)
(* object.  A step of one object turns the VM from running to a wait for   *)
(* that object or back (Turns), so that the others' invariants stay true   *)
(* (Apart).                                                                *)
(***************************************************************************)
EXTENDS ScriptObjects, SequenceTheorems, TLAPS

SocketWaits == [call : {"connect", "send", "recv"}, on : Handles]
MailWaits == [call : {"send mail"}, on : {"mail"}]
HttpWaits == [call : {"http"}, on : {"http"}]
FileWaitings == [call : {"fread", "fwrite"}, on : Files]

VmOK ==
    vm \in {Running, Ended} \cup SocketWaits \cup MailWaits \cup HttpWaits \cup FileWaitings

\* What a step of an object with these waits may do to the VM.
Turns(waits) ==
    \/ vm' = vm
    \/ vm = Running /\ vm' \in waits
    \/ vm \in waits /\ vm' = Running

\* What the object with these waits sees of a step of another.
Apart(waits) ==
    /\ vm \in waits \/ vm' \in waits => vm' = vm
    /\ vm = Ended <=> vm' = Ended

LEMMA Distinct ==
    /\ {Running, Ended} \cap (SocketWaits \cup MailWaits \cup HttpWaits \cup FileWaitings) = {}
    /\ SocketWaits \cap (MailWaits \cup HttpWaits \cup FileWaitings) = {}
    /\ MailWaits \cap (HttpWaits \cup FileWaitings) = {}
    /\ HttpWaits \cap FileWaitings = {}
    /\ Running # Ended
<1>1. Running.call = "run" /\ Ended.call = "ended"
  BY DEF Running, Ended
<1>2. \A w \in SocketWaits : w.call \in {"connect", "send", "recv"}
  BY DEF SocketWaits
<1>3. \A w \in MailWaits : w.call = "send mail"
  BY DEF MailWaits
<1>4. \A w \in HttpWaits : w.call = "http"
  BY DEF HttpWaits
<1>5. \A w \in FileWaitings : w.call \in {"fread", "fwrite"}
  BY DEF FileWaitings
<1> QED
  BY <1>1, <1>2, <1>3, <1>4, <1>5

-----------------------------------------------------------------------------
(* Sequences                                                                *)

\* What IsPrefix says, element by element.
LEMMA PrefixIs ==
    ASSUME NEW S, NEW s \in Seq(S), NEW t \in Seq(S), Len(s) <= Len(t),
           \A i \in 1 .. Len(s) : s[i] = t[i]
    PROVE  IsPrefix(s, t)
<1>1. /\ SubSeq(s, 1, Len(s)) \in Seq(S) /\ Len(SubSeq(s, 1, Len(s))) = Len(s)
      /\ \A i \in 1 .. Len(s) : SubSeq(s, 1, Len(s))[i] = s[i]
  <2>1. SubSeq(s, 1, Len(s)) = s
    BY SubSeqFull
  <2> QED
    BY <2>1
<1>2. /\ SubSeq(t, 1, Len(s)) \in Seq(S) /\ Len(SubSeq(t, 1, Len(s))) = Len(s)
      /\ \A i \in 1 .. Len(s) : SubSeq(t, 1, Len(s))[i] = t[i]
  <2>1. Len(s) \in Nat /\ Len(t) \in Nat /\ \A i \in 1 .. Len(s) : t[i] \in S
    OBVIOUS
  <2> DEFINE k == Len(s)
             front == SubSeq(t, 1, k)
  <2> HIDE DEF k
  <2>2. k \in Nat /\ \A i \in 1 .. k : t[i] \in S
    BY <2>1 DEF k
  <2>3. /\ front \in Seq(S) /\ Len(front) = IF 1 <= k THEN k - 1 + 1 ELSE 0
        /\ \A i \in 1 .. k - 1 + 1 : front[i] = t[1 + i - 1]
    BY <2>2, SubSeqProperties
  <2> HIDE DEF front
  <2>4. front \in Seq(S) /\ Len(front) = k /\ \A i \in 1 .. k : front[i] = t[i]
    BY <2>2, <2>3
  <2> QED
    BY <2>4 DEF front, k
<1>3. SubSeq(s, 1, Len(s)) = SubSeq(t, 1, Len(s))
  BY <1>1, <1>2, SeqEqual
<1> QED
  BY <1>3 DEF IsPrefix

\* What lies behind the first "from" elements, up to "to".
LEMMA PartIs ==
    ASSUME NEW S, NEW s \in Seq(S), NEW from \in Nat, NEW to \in Nat,
           from <= to, to <= Len(s)
    PROVE  /\ SubSeq(s, from + 1, to) \in Seq(S)
           /\ Len(SubSeq(s, from + 1, to)) = to - from
           /\ \A i \in 1 .. to - from : SubSeq(s, from + 1, to)[i] = s[from + i]
<1> DEFINE m == from + 1
           part == SubSeq(s, m, to)
<1>1. m \in Int /\ to \in Int /\ \A i \in m .. to : s[i] \in S
  OBVIOUS
<1> HIDE DEF m
<1>2. /\ part \in Seq(S)
      /\ Len(part) = IF m <= to THEN to - m + 1 ELSE 0
      /\ \A i \in 1 .. to - m + 1 : part[i] = s[m + i - 1]
  BY <1>1, SubSeqProperties
<1> HIDE DEF part
<1>3. /\ part \in Seq(S) /\ Len(part) = to - from
      /\ \A i \in 1 .. to - from : part[i] = s[from + i]
  BY <1>2 DEF m
<1> QED
  BY <1>3 DEF part, m

-----------------------------------------------------------------------------
(* Sockets: a handle by itself                                              *)

SocketCalls == {"connect", "send", "recv"}

\* The handle s of which the script waits for call ("none" where it does not),
\* in a session that has ended or not.
Consistent(s, call, ended) ==
    /\ s.udata = "held" => s.ctx = "live"
    /\ s.ctx = "live" /\ ~ended => s.thr /\ s.cln
    /\ ended => ~s.cln /\ (s.ctx = "live" => ~s.thr) /\ call = "none"
    /\ s.thr /\ s.ctx = "live" =>
          /\ s.wh = "connect" <=> call = "connect"
          /\ s.wh = "write" <=> call = "send"
          /\ s.rh # "dummy" <=> call = "recv"
    /\ call # "none" => s.thr /\ s.ctx = "live" /\ s.udata # "dropped"
    /\ s.wh = "connect" => s.udata = "none"
    /\ s.ctx # "live" =>
          /\ s.udata = "none"
          /\ s.cln => ~s.opened
          /\ s.conn => s.wh = "connect" /\ ended

\* While the script waits, a timer is set.
WriteTimed(s, call) == call \in {"connect", "send"} => s.wtimer
ReadTimed(s, call) == call = "recv" => s.rtimer

Fits(s, call, ended) ==
    Consistent(s, call, ended) /\ WriteTimed(s, call) /\ ReadTimed(s, call)

\* What open makes of a handle.
LEMMA OpenedFits ==
    ASSUME NEW type \in {"tcp", "udp"}
    PROVE  LET held == [Connected(type) EXCEPT !.udata = "held"]
               waits == [Connected(type) EXCEPT !.wh = "connect", !.wtimer = TRUE]
               failed == [Registered EXCEPT !.ctx = "freed"]
           IN /\ NoSocket \in Socket /\ Fits(NoSocket, "none", FALSE)
              /\ held \in Socket /\ Fits(held, "none", FALSE)
              /\ waits \in Socket /\ Fits(waits, "connect", FALSE)
              /\ failed \in Socket /\ Fits(failed, "none", FALSE)
BY DEF Connected, Registered, NoSocket, Socket, Fits, Consistent, WriteTimed, ReadTimed

\* What the calls of a script that holds the handle make of it.
LEMMA CalledFits ==
    ASSUME NEW s \in Socket, Fits(s, "none", FALSE), s.udata = "held"
    PROVE  LET send == [s EXCEPT !.rh = "dummy", !.wh = "write"]
               recv == [s EXCEPT !.rh = "read", !.wh = "dummy"]
               udp == [s EXCEPT !.rh = "udp_read"]
               drop == [s EXCEPT !.udata = "dropped"]
           IN /\ WriteEnds(send) \in Socket /\ Fits(WriteEnds(send), "none", FALSE)
              /\ WriteWaits(send) \in Socket /\ Fits(WriteWaits(send), "send", FALSE)
              /\ ReadEnds(recv) \in Socket /\ Fits(ReadEnds(recv), "none", FALSE)
              /\ ReadWaits(recv) \in Socket /\ Fits(ReadWaits(recv), "recv", FALSE)
              /\ ReadEnds(udp) \in Socket /\ Fits(ReadEnds(udp), "none", FALSE)
              /\ ReadWaits(udp) \in Socket /\ Fits(ReadWaits(udp), "recv", FALSE)
              /\ WithoutConn(s) \in Socket /\ Fits(WithoutConn(s), "none", FALSE)
              /\ drop \in Socket /\ Fits(drop, "none", FALSE)
<1> DEFINE send == [s EXCEPT !.rh = "dummy", !.wh = "write"]
           recv == [s EXCEPT !.rh = "read", !.wh = "dummy"]
           udp == [s EXCEPT !.rh = "udp_read"]
           drop == [s EXCEPT !.udata = "dropped"]
<1> USE DEF Socket, Fits, Consistent, WriteTimed, ReadTimed
<1>1. WriteEnds(send) \in Socket /\ Fits(WriteEnds(send), "none", FALSE)
  BY DEF WriteEnds
<1>2. WriteWaits(send) \in Socket /\ Fits(WriteWaits(send), "send", FALSE)
  BY DEF WriteWaits
<1>3. ReadEnds(recv) \in Socket /\ Fits(ReadEnds(recv), "none", FALSE)
  BY DEF ReadEnds
<1>4. ReadWaits(recv) \in Socket /\ Fits(ReadWaits(recv), "recv", FALSE)
  BY DEF ReadWaits
<1>5. ReadEnds(udp) \in Socket /\ Fits(ReadEnds(udp), "none", FALSE)
  BY DEF ReadEnds
<1>6. ReadWaits(udp) \in Socket /\ Fits(ReadWaits(udp), "recv", FALSE)
  BY DEF ReadWaits
<1>7. WithoutConn(s) \in Socket /\ Fits(WithoutConn(s), "none", FALSE)
  BY DEF WithoutConn
<1>8. drop \in Socket /\ Fits(drop, "none", FALSE)
  OBVIOUS
<1> HIDE DEF Socket, Fits, Consistent, WriteTimed, ReadTimed
<1> QED
  BY <1>1, <1>2, <1>3, <1>4, <1>5, <1>6, <1>7, <1>8

\* What the handlers of the write event make of a handle whose write timer may
\* just have fired.
LEMMA WriteHandled ==
    ASSUME NEW s \in Socket, NEW call \in SocketCalls \cup {"none"}, NEW ended \in BOOLEAN,
           Consistent(s, call, ended), ReadTimed(s, call)
    PROVE  LET connected == [s EXCEPT !.udata = IF s.wtimedout THEN "none" ELSE "held",
                                      !.wtimer = FALSE, !.wh = "dummy"]
               freed == [s EXCEPT !.ctx = "freed"]
           IN /\ s.wh = "connect" /\ s.ctx = "live" /\ s.thr =>
                     call = "connect" /\ connected \in Socket /\ Fits(connected, "none", ended)
              /\ s.wh = "connect" /\ s.ctx = "live" /\ ~s.thr =>
                     freed \in Socket /\ Fits(freed, call, ended)
              /\ s.wh = "write" /\ s.ctx = "live" =>
                     /\ s.thr => call = "send"
                     /\ WriteEnds(s) \in Socket
                     /\ Fits(WriteEnds(s), IF s.thr THEN "none" ELSE call, ended)
                     /\ WriteWaits(s) \in Socket /\ Fits(WriteWaits(s), call, ended)
              /\ s.wh = "dummy" => Fits(s, call, ended)
<1> DEFINE connected == [s EXCEPT !.udata = IF s.wtimedout THEN "none" ELSE "held",
                                  !.wtimer = FALSE, !.wh = "dummy"]
           freed == [s EXCEPT !.ctx = "freed"]
<1> USE DEF Socket, Fits, Consistent, WriteTimed, ReadTimed, SocketCalls
<1>1. s.wh = "connect" /\ s.ctx = "live" /\ s.thr =>
          call = "connect" /\ connected \in Socket /\ Fits(connected, "none", ended)
  OBVIOUS
<1>2. s.wh = "connect" /\ s.ctx = "live" /\ ~s.thr =>
          freed \in Socket /\ Fits(freed, call, ended)
  OBVIOUS
<1>3. s.wh = "write" /\ s.ctx = "live" =>
          /\ s.thr => call = "send"
          /\ WriteEnds(s) \in Socket
          /\ Fits(WriteEnds(s), IF s.thr THEN "none" ELSE call, ended)
  BY DEF WriteEnds
<1>4. s.wh = "write" /\ s.ctx = "live" =>
          WriteWaits(s) \in Socket /\ Fits(WriteWaits(s), call, ended)
  BY DEF WriteWaits
<1>5. s.wh = "dummy" => Fits(s, call, ended)
  OBVIOUS
<1> HIDE DEF Socket, Fits, Consistent, WriteTimed, ReadTimed, SocketCalls
<1> QED
  BY <1>1, <1>2, <1>3, <1>4, <1>5

\* The same of the read event.
LEMMA ReadHandled ==
    ASSUME NEW s \in Socket, NEW call \in SocketCalls \cup {"none"}, NEW ended \in BOOLEAN,
           Consistent(s, call, ended), WriteTimed(s, call)
    PROVE  /\ s.rh # "dummy" /\ s.ctx = "live" =>
                  /\ s.thr => call = "recv"
                  /\ ReadEnds(s) \in Socket
                  /\ Fits(ReadEnds(s), IF s.thr THEN "none" ELSE call, ended)
                  /\ ReadWaits(s) \in Socket /\ Fits(ReadWaits(s), call, ended)
           /\ s.rh = "dummy" => Fits(s, call, ended)
<1> USE DEF Socket, Fits, Consistent, WriteTimed, ReadTimed, SocketCalls
<1>1. s.rh # "dummy" /\ s.ctx = "live" =>
          /\ s.thr => call = "recv"
          /\ ReadEnds(s) \in Socket
          /\ Fits(ReadEnds(s), IF s.thr THEN "none" ELSE call, ended)
  BY DEF ReadEnds
<1>2. s.rh # "dummy" /\ s.ctx = "live" =>
          ReadWaits(s) \in Socket /\ Fits(ReadWaits(s), call, ended)
  BY DEF ReadWaits
<1>3. s.rh = "dummy" => Fits(s, call, ended)
  OBVIOUS
<1> HIDE DEF Socket, Fits, Consistent, WriteTimed, ReadTimed, SocketCalls
<1> QED
  BY <1>1, <1>2, <1>3

\* What a timer that fires, the collector and the end of the session do.
LEMMA TimedOut ==
    ASSUME NEW s \in Socket, NEW call, NEW ended \in BOOLEAN, Fits(s, call, ended)
    PROVE  LET late == [s EXCEPT !.wtimer = FALSE, !.wtimedout = TRUE]
               lateRead == [s EXCEPT !.rtimer = FALSE, !.rtimedout = TRUE]
           IN /\ late \in Socket /\ Consistent(late, call, ended) /\ ReadTimed(late, call)
              /\ lateRead \in Socket /\ Consistent(lateRead, call, ended)
              /\ WriteTimed(lateRead, call)
BY ZenonT(60) DEF Socket, Fits, Consistent, WriteTimed, ReadTimed

LEMMA CollectedFits ==
    ASSUME NEW s \in Socket, NEW call, NEW ended \in BOOLEAN, Fits(s, call, ended),
           s.udata = "dropped"
    PROVE  LET gone == [WithoutConn(s) EXCEPT !.ctx = "freed", !.udata = "none", !.cln = FALSE]
           IN gone \in Socket /\ Fits(gone, call, ended)
BY DEF Socket, Fits, Consistent, WriteTimed, ReadTimed, WithoutConn

LEMMA CleanedFits ==
    ASSUME NEW s \in Socket, NEW call, Fits(s, call, FALSE)
    PROVE  LET left == [s EXCEPT !.thr = IF s.cln /\ s.ctx = "live" THEN FALSE ELSE s.thr,
                                 !.cln = FALSE,
                                 !.udata = IF s.udata = "held" THEN "dropped" ELSE s.udata]
           IN left \in Socket /\ Fits(left, "none", TRUE)
BY ZenonT(60) DEF Socket, Fits, Consistent, WriteTimed, ReadTimed

-----------------------------------------------------------------------------
(* Sockets: all handles, and the VM                                         *)

\* The call on h the script waits in, or "none".
CallOn(h) == IF vm \in SocketWaits /\ vm.on = h THEN vm.call ELSE "none"

SocketInv ==
    sock \in [Handles -> Socket] /\ \A h \in Handles : Fits(sock[h], CallOn(h), vm = Ended)

LEMMA CallOnType ==
    ASSUME NEW h \in Handles
    PROVE  /\ CallOn(h) \in SocketCalls \cup {"none"}
           /\ vm \in {Running, Ended} => CallOn(h) = "none"
           /\ CallOn(h) # "none" => vm = [call |-> CallOn(h), on |-> h]
           /\ \A c \in SocketCalls : WaitsIn(c, h) => CallOn(h) = c
BY Distinct DEF CallOn, SocketWaits, SocketCalls, WaitsIn

LEMMA SocketBegins == SocketInit /\ vm = Running => SocketInv
BY OpenedFits, CallOnType, Distinct DEF SocketInit, SocketInv

LEMMA SocketStays == SocketInv /\ UNCHANGED sock /\ Apart(SocketWaits) => SocketInv'
<1> SUFFICES ASSUME SocketInv, UNCHANGED sock, Apart(SocketWaits), NEW h \in Handles
             PROVE  Fits(sock[h], CallOn(h)', vm' = Ended)
  BY DEF SocketInv
<1>1. CallOn(h)' = CallOn(h) /\ (vm = Ended <=> vm' = Ended)
  BY DEF Apart, CallOn
<1>2. Fits(sock[h], CallOn(h), vm = Ended)
  BY DEF SocketInv
<1>3. (vm' = Ended) = (vm = Ended)
  BY <1>1
<1> QED
  BY <1>1, <1>2, <1>3

\* A step that makes s of handle h and nothing of the others.
LEMMA SocketOne ==
    ASSUME SocketInv, NEW h \in Handles, NEW s \in Socket, Becomes(h, s),
           Turns({w \in SocketWaits : w.on = h}),
           Fits(s, CallOn(h)', vm' = Ended)
    PROVE  SocketInv' /\ Turns(SocketWaits)
<1>1. Turns(SocketWaits)
  BY DEF Turns
<1>2. sock' \in [Handles -> Socket] /\ sock'[h] = s
         /\ \A g \in Handles \ {h} : sock'[g] = sock[g]
  BY DEF SocketInv, Becomes
<1>3. ASSUME NEW g \in Handles \ {h} PROVE Fits(sock'[g], CallOn(g)', vm' = Ended)
  <2>1. CallOn(g)' = CallOn(g)
    BY <1>3, Distinct DEF Turns, CallOn
  <2>2. (vm' = Ended) = (vm = Ended)
    BY Distinct DEF Turns
  <2>3. Fits(sock[g], CallOn(g), vm = Ended) /\ sock'[g] = sock[g]
    BY <1>2 DEF SocketInv
  <2> QED
    BY <2>1, <2>2, <2>3
<1> QED
  BY <1>1, <1>2, <1>3 DEF SocketInv

\* The three ends of such a step: the VM stays as it is, waits, or goes on.
LEMMA SocketReturns ==
    ASSUME SocketInv, NEW h \in Handles, NEW s \in Socket, Becomes(h, s), vm' = vm,
           Fits(s, CallOn(h), vm = Ended)
    PROVE  SocketInv' /\ Turns(SocketWaits)
<1>1. CallOn(h)' = CallOn(h) /\ (vm' = Ended) = (vm = Ended)
  BY DEF CallOn
<1> QED
  BY <1>1, SocketOne DEF Turns

LEMMA SocketSuspends ==
    ASSUME SocketInv, NEW h \in Handles, NEW s \in Socket, Becomes(h, s), vm = Running,
           NEW c \in SocketCalls, vm' = [call |-> c, on |-> h], Fits(s, c, FALSE)
    PROVE  SocketInv' /\ Turns(SocketWaits)
<1>1. vm' \in SocketWaits /\ vm'.on = h /\ vm'.call = c
  BY DEF SocketWaits, SocketCalls
<1>2. CallOn(h)' = c /\ (vm' = Ended) = FALSE
  BY <1>1, Distinct DEF CallOn
<1>3. Turns({w \in SocketWaits : w.on = h})
  BY <1>1 DEF Turns
<1> QED
  BY <1>2, <1>3, SocketOne

LEMMA SocketResumes ==
    ASSUME SocketInv, NEW h \in Handles, NEW s \in Socket, Becomes(h, s),
           CallOn(h) # "none", vm' = Running, Fits(s, "none", FALSE)
    PROVE  SocketInv' /\ Turns(SocketWaits)
<1>1. vm \in SocketWaits /\ vm.on = h
  BY DEF CallOn
<1>2. CallOn(h)' = "none" /\ (vm' = Ended) = FALSE
  BY Distinct DEF CallOn
<1>3. Turns({w \in SocketWaits : w.on = h})
  BY <1>1 DEF Turns
<1> QED
  BY <1>2, <1>3, SocketOne

\* Calls of a script that runs.
LEMMA SocketCalled ==
    ASSUME SocketInv, NEW h \in Handles,
           SocketOpen(h) \/ SocketOpenWaits(h) \/ SocketOpenFails(h) \/ SocketUdpOpen(h)
             \/ SocketSend(h) \/ SocketRecv(h) \/ SocketUdpRecv(h)
             \/ SocketClose(h) \/ SocketDrop(h)
    PROVE  SocketInv' /\ Turns(SocketWaits)
<1>1. vm = Running /\ CallOn(h) = "none" /\ (vm = Ended) = FALSE
  BY CallOnType, Distinct
     DEF SocketOpen, SocketOpenWaits, SocketOpenFails, SocketUdpOpen, SocketSend,
         SocketRecv, SocketUdpRecv, SocketClose, SocketDrop, Holds
<1>2. sock[h] \in Socket /\ Fits(sock[h], "none", FALSE)
  <2>1. Fits(sock[h], CallOn(h), vm = Ended) /\ sock[h] \in Socket
    BY DEF SocketInv
  <2> QED
    BY <2>1, <1>1
<1>3. CASE SocketOpen(h) \/ SocketUdpOpen(h)
  <2>1. PICK type \in {"tcp", "udp"} :
           Becomes(h, [Connected(type) EXCEPT !.udata = "held"]) /\ vm' = vm
    BY <1>3 DEF SocketOpen, SocketUdpOpen
  <2> QED
    BY <1>1, <2>1, OpenedFits, SocketReturns
<1>4. CASE SocketOpenWaits(h)
  <2>1. /\ Becomes(h, [Connected("tcp") EXCEPT !.wh = "connect", !.wtimer = TRUE])
        /\ vm' = [call |-> "connect", on |-> h]
    BY <1>4 DEF SocketOpenWaits, Suspend
  <2> QED
    BY <1>1, <2>1, OpenedFits, SocketSuspends DEF SocketCalls
<1>5. CASE SocketOpenFails(h)
  <2>1. Becomes(h, [Registered EXCEPT !.ctx = "freed"]) /\ vm' = vm
    BY <1>5 DEF SocketOpenFails
  <2> QED
    BY <1>1, <2>1, OpenedFits, SocketReturns
<1>6. CASE SocketSend(h) \/ SocketRecv(h) \/ SocketUdpRecv(h)
           \/ SocketClose(h) \/ SocketDrop(h)
  <2> DEFINE s == sock[h]
             send == [s EXCEPT !.rh = "dummy", !.wh = "write"]
             recv == [s EXCEPT !.rh = "read", !.wh = "dummy"]
             udp == [s EXCEPT !.rh = "udp_read"]
             drop == [s EXCEPT !.udata = "dropped"]
             Ends(n) == Becomes(h, n) /\ vm' = vm
             Waits(n, c) == Becomes(h, n) /\ vm' = [call |-> c, on |-> h]
  <2>1. \/ Ends(WriteEnds(send)) \/ Waits(WriteWaits(send), "send")
        \/ Ends(ReadEnds(recv)) \/ Waits(ReadWaits(recv), "recv")
        \/ Ends(ReadEnds(udp)) \/ Waits(ReadWaits(udp), "recv")
        \/ Ends(WithoutConn(s)) \/ Ends(drop)
    BY <1>6 DEF SocketSend, SocketRecv, SocketUdpRecv, SocketClose, SocketDrop, Suspend
  <2>2. s.udata = "held"
    BY <1>6 DEF SocketSend, SocketRecv, SocketUdpRecv, SocketClose, SocketDrop, Holds
  <2>3. /\ WriteEnds(send) \in Socket /\ Fits(WriteEnds(send), "none", FALSE)
        /\ WriteWaits(send) \in Socket /\ Fits(WriteWaits(send), "send", FALSE)
        /\ ReadEnds(recv) \in Socket /\ Fits(ReadEnds(recv), "none", FALSE)
        /\ ReadWaits(recv) \in Socket /\ Fits(ReadWaits(recv), "recv", FALSE)
        /\ ReadEnds(udp) \in Socket /\ Fits(ReadEnds(udp), "none", FALSE)
        /\ ReadWaits(udp) \in Socket /\ Fits(ReadWaits(udp), "recv", FALSE)
        /\ WithoutConn(s) \in Socket /\ Fits(WithoutConn(s), "none", FALSE)
        /\ drop \in Socket /\ Fits(drop, "none", FALSE)
    BY <1>2, <2>2, CalledFits
  <2> HIDE DEF s, send, recv, udp, drop
  <2>4. ASSUME NEW n \in Socket, Fits(n, "none", FALSE), Ends(n)
        PROVE  SocketInv' /\ Turns(SocketWaits)
    BY <1>1, <2>4, SocketReturns
  <2>5. ASSUME NEW n \in Socket, NEW c \in {"send", "recv"}, Fits(n, c, FALSE), Waits(n, c)
        PROVE  SocketInv' /\ Turns(SocketWaits)
    BY <1>1, <2>5, SocketSuspends DEF SocketCalls
  <2> HIDE DEF Ends, Waits
  <2> QED
    BY <2>1, <2>3, <2>4, <2>5
<1> QED
  BY <1>3, <1>4, <1>5, <1>6

\* Events: a handler that resumes the script is that of the call it waits in.
LEMMA SocketWriteEvents ==
    ASSUME SocketInv, NEW h \in Handles, NEW s \in Socket, OnWrite(h, s), vm # Running,
           Consistent(s, CallOn(h), vm = Ended), ReadTimed(s, CallOn(h))
    PROVE  SocketInv' /\ Turns(SocketWaits)
<1> DEFINE call == CallOn(h)
           ended == (vm = Ended)
           connected == [s EXCEPT !.udata = IF s.wtimedout THEN "none" ELSE "held",
                                  !.wtimer = FALSE, !.wh = "dummy"]
           freed == [s EXCEPT !.ctx = "freed"]
<1>1. call \in SocketCalls \cup {"none"} /\ ended \in BOOLEAN
  BY CallOnType
<1>2. call # "none" => ended = FALSE
  BY CallOnType, Distinct
<1>3. /\ s.wh = "connect" /\ s.ctx = "live" /\ s.thr =>
             call = "connect" /\ connected \in Socket /\ Fits(connected, "none", ended)
      /\ s.wh = "connect" /\ s.ctx = "live" /\ ~s.thr =>
             freed \in Socket /\ Fits(freed, call, ended)
      /\ s.wh = "write" /\ s.ctx = "live" =>
             /\ s.thr => call = "send"
             /\ WriteEnds(s) \in Socket
             /\ Fits(WriteEnds(s), IF s.thr THEN "none" ELSE call, ended)
             /\ WriteWaits(s) \in Socket /\ Fits(WriteWaits(s), call, ended)
      /\ s.wh = "dummy" => Fits(s, call, ended)
  BY <1>1, WriteHandled
<1>4. ASSUME NEW n \in Socket, Becomes(h, n), vm' = vm, Fits(n, call, ended)
      PROVE  SocketInv' /\ Turns(SocketWaits)
  BY <1>4, SocketReturns
<1>5. ASSUME NEW n \in Socket, Becomes(h, n), vm' = Running, call # "none",
             Fits(n, "none", ended)
      PROVE  SocketInv' /\ Turns(SocketWaits)
  BY <1>2, <1>5, SocketResumes
<1>6. CASE s.wh = "connect" /\ SocketConnectHandler(h, s)
  <2>1. CASE s.ctx = "live" /\ s.thr /\ Becomes(h, connected) /\ vm' = Running
    BY <1>3, <1>5, <1>6, <2>1
  <2>2. CASE s.ctx = "live" /\ ~s.thr /\ Becomes(h, freed) /\ vm' = vm
    BY <1>3, <1>4, <1>6, <2>2
  <2> QED
    BY <1>6, <2>1, <2>2 DEF SocketConnectHandler, Resume
<1>7. CASE s.wh = "write" /\ SocketWriteHandler(h, s)
  <2>1. CASE s.ctx = "live" /\ Becomes(h, WriteEnds(s)) /\ s.thr /\ vm' = Running
    BY <1>3, <1>5, <1>7, <2>1
  <2>2. CASE s.ctx = "live" /\ Becomes(h, WriteEnds(s)) /\ ~s.thr /\ vm' = vm
    BY <1>3, <1>4, <1>7, <2>2
  <2>3. CASE s.ctx = "live" /\ Becomes(h, WriteWaits(s)) /\ vm' = vm
    BY <1>3, <1>4, <1>7, <2>3
  <2> QED
    BY <1>7, <2>1, <2>2, <2>3 DEF SocketWriteHandler, WakeFrom, Resume
<1>8. CASE s.wh = "dummy" /\ Becomes(h, s) /\ vm' = vm
  BY <1>3, <1>4, <1>8
<1> QED
  BY <1>6, <1>7, <1>8 DEF OnWrite

LEMMA SocketReadEvents ==
    ASSUME SocketInv, NEW h \in Handles, NEW s \in Socket, OnRead(h, s), vm # Running,
           Consistent(s, CallOn(h), vm = Ended), WriteTimed(s, CallOn(h))
    PROVE  SocketInv' /\ Turns(SocketWaits)
<1> DEFINE call == CallOn(h)
           ended == (vm = Ended)
<1>1. call \in SocketCalls \cup {"none"} /\ ended \in BOOLEAN
  BY CallOnType
<1>2. call # "none" => ended = FALSE
  BY CallOnType, Distinct
<1>3. /\ s.rh # "dummy" /\ s.ctx = "live" =>
             /\ s.thr => call = "recv"
             /\ ReadEnds(s) \in Socket
             /\ Fits(ReadEnds(s), IF s.thr THEN "none" ELSE call, ended)
             /\ ReadWaits(s) \in Socket /\ Fits(ReadWaits(s), call, ended)
      /\ s.rh = "dummy" => Fits(s, call, ended)
  BY <1>1, ReadHandled
<1>4. ASSUME NEW n \in Socket, Becomes(h, n), vm' = vm, Fits(n, call, ended)
      PROVE  SocketInv' /\ Turns(SocketWaits)
  BY <1>4, SocketReturns
<1>5. ASSUME NEW n \in Socket, Becomes(h, n), vm' = Running, call # "none",
             Fits(n, "none", ended)
      PROVE  SocketInv' /\ Turns(SocketWaits)
  BY <1>2, <1>5, SocketResumes
<1>6. CASE s.rh # "dummy" /\ SocketReadHandler(h, s)
  <2>1. CASE s.ctx = "live" /\ Becomes(h, ReadEnds(s)) /\ s.thr /\ vm' = Running
    BY <1>3, <1>5, <1>6, <2>1
  <2>2. CASE s.ctx = "live" /\ Becomes(h, ReadEnds(s)) /\ ~s.thr /\ vm' = vm
    BY <1>3, <1>4, <1>6, <2>2
  <2>3. CASE s.ctx = "live" /\ Becomes(h, ReadWaits(s)) /\ vm' = vm
    BY <1>3, <1>4, <1>6, <2>3
  <2> QED
    BY <1>6, <2>1, <2>2, <2>3 DEF SocketReadHandler, WakeFrom, Resume
<1>7. CASE s.rh = "dummy" /\ Becomes(h, s) /\ vm' = vm
  BY <1>3, <1>4, <1>7
<1> QED
  BY <1>6, <1>7 DEF OnRead, SocketUdpReadHandler

\* Every step of sockets, and the end of the session.
LEMMA SocketSteps == SocketInv /\ SocketNext => SocketInv' /\ Turns(SocketWaits)
<1> SUFFICES ASSUME SocketInv, SocketNext PROVE SocketInv' /\ Turns(SocketWaits)
  OBVIOUS
<1> PICK h \in Handles :
        \/ SocketOpen(h) \/ SocketOpenWaits(h) \/ SocketOpenFails(h)
        \/ SocketUdpOpen(h) \/ SocketSend(h) \/ SocketRecv(h)
        \/ SocketUdpRecv(h) \/ SocketWritable(h) \/ SocketReadable(h)
        \/ SocketWriteTimeout(h) \/ SocketReadTimeout(h)
        \/ SocketClose(h) \/ SocketDrop(h) \/ SocketGc(h)
  BY DEF SocketNext
<1> DEFINE late == [sock[h] EXCEPT !.wtimer = FALSE, !.wtimedout = TRUE]
           lateRead == [sock[h] EXCEPT !.rtimer = FALSE, !.rtimedout = TRUE]
           gone == [WithoutConn(sock[h]) EXCEPT !.ctx = "freed", !.udata = "none",
                                                !.cln = FALSE]
<1>1. sock[h] \in Socket /\ Fits(sock[h], CallOn(h), vm = Ended)
  BY DEF SocketInv
<1>2. /\ Consistent(sock[h], CallOn(h), vm = Ended)
      /\ WriteTimed(sock[h], CallOn(h)) /\ ReadTimed(sock[h], CallOn(h))
  BY <1>1 DEF Fits
<1>3. /\ late \in Socket /\ Consistent(late, CallOn(h), vm = Ended)
      /\ ReadTimed(late, CallOn(h))
      /\ lateRead \in Socket /\ Consistent(lateRead, CallOn(h), vm = Ended)
      /\ WriteTimed(lateRead, CallOn(h))
  <2>1. (vm = Ended) \in BOOLEAN
    OBVIOUS
  <2> QED
    BY <1>1, <2>1, TimedOut
<1>4. CASE SocketWritable(h)
  BY <1>1, <1>2, <1>4, SocketWriteEvents DEF SocketWritable
<1>5. CASE SocketReadable(h)
  BY <1>1, <1>2, <1>5, SocketReadEvents DEF SocketReadable
<1>6. CASE SocketWriteTimeout(h)
  BY <1>3, <1>6, SocketWriteEvents DEF SocketWriteTimeout
<1>7. CASE SocketReadTimeout(h)
  BY <1>3, <1>7, SocketReadEvents DEF SocketReadTimeout
<1>8. CASE SocketGc(h)
  <2>1. sock[h].udata = "dropped" /\ Becomes(h, gone) /\ vm' = vm
    BY <1>8 DEF SocketGc
  <2>2. (vm = Ended) \in BOOLEAN
    OBVIOUS
  <2>3. gone \in Socket /\ Fits(gone, CallOn(h), vm = Ended)
    BY <1>1, <2>1, <2>2, CollectedFits
  <2> QED
    BY <2>1, <2>3, SocketReturns
<1> QED
  BY <1>4, <1>5, <1>6, <1>7, <1>8, SocketCalled

LEMMA SocketCleaned == SocketInv /\ SocketCleanup /\ vm # Ended /\ vm' = Ended => SocketInv'
<1> SUFFICES ASSUME SocketInv, SocketCleanup, vm # Ended, vm' = Ended PROVE SocketInv'
  OBVIOUS
<1>1. ASSUME NEW h \in Handles
      PROVE  sock'[h] \in Socket /\ Fits(sock'[h], CallOn(h)', vm' = Ended)
  <2> DEFINE s == sock[h]
             left == [s EXCEPT !.thr = IF s.cln /\ s.ctx = "live" THEN FALSE ELSE s.thr,
                               !.cln = FALSE,
                               !.udata = IF s.udata = "held" THEN "dropped" ELSE s.udata]
  <2>1. s \in Socket /\ Fits(s, CallOn(h), vm = Ended) /\ (vm = Ended) = FALSE
    BY DEF SocketInv
  <2>2. left \in Socket /\ Fits(left, "none", TRUE)
    BY <2>1, CleanedFits
  <2>3. sock'[h] = left
    BY DEF SocketCleanup
  <2>4. CallOn(h)' = "none" /\ (vm' = Ended) = TRUE
    BY Distinct DEF CallOn
  <2> QED
    BY <2>2, <2>3, <2>4
<1>2. sock' \in [Handles -> Socket]
  BY <1>1 DEF SocketCleanup
<1> QED
  BY <1>1, <1>2 DEF SocketInv

-----------------------------------------------------------------------------
(* The mail call                                                            *)

\* The write event stands in for the read event only before the greeting; and
\* when no handler runs, a timer leads to one, but for the wait for the greeting.
MailFits(m) ==
    /\ m.at # "out" => m.conn
    /\ m.wh = "connect" => m.state = "start"
    /\ m.at \in {"read", "got"} /\ m.rev = "w" => m.state = "start" /\ m.wh = "dummy"
    /\ m.at \in {"write", "put"} => m.wh = "write"
    /\ m.conn /\ m.at = "out" =>
          m.rtimer \/ (m.wtimer /\ m.wh # "dummy") \/ (m.state = "start" /\ m.wh = "dummy")

MailInv == SmtpTypeOK /\ MailFits(mail) /\ (mail.conn <=> vm \in MailWaits)

LEMMA MailStates ==
    ToSet(SmtpStates) = {"start", "helo", "login", "user", "passwd", "from", "to",
                         "data", "quit", "done"}
BY DEF ToSet, SmtpStates

LEMMA NoMailType == NoMail \in Mail /\ MailFits(NoMail) /\ ~NoMail.conn
<1>1. Recipients \in Nat /\ SmtpRoom \in Nat
  BY SmtpAssumption
<1>2. NoMail.sent \in Seq(Command)
  BY DEF NoMail
<1> QED
  BY <1>1, <1>2, MailStates DEF NoMail, Mail, MailFits

\* The next command names a recipient there is.
LEMMA CommandType ==
    ASSUME NEW s \in ToSet(SmtpStates) \ {"done"}, NEW n \in 0 .. Recipients
    PROVE  LET c == SmtpNextCommand(s, n)
           IN c \in Command /\ c.cmd \in ToSet(SmtpStates) /\ c.to \in 0 .. Recipients
<1>1. Following(s) \in ToSet(SmtpStates)
  <2>1. \E i \in 1 .. 9 : SmtpStates[i] = s
    BY MailStates DEF SmtpStates
  <2>2. PICK i \in 1 .. 9 : Following(s) = SmtpStates[1 + i]
    BY <2>1 DEF Following
  <2> QED
    BY <2>2, MailStates DEF SmtpStates
<1>2. "to" \in ToSet(SmtpStates)
  BY MailStates
<1> QED
  BY <1>1, <1>2, SmtpAssumption DEF SmtpNextCommand, Command

LEMMA MailBegins == SmtpInit /\ vm = Running => MailInv
BY NoMailType, Distinct DEF SmtpInit, MailInv, SmtpTypeOK

LEMMA MailStays == MailInv /\ UNCHANGED smtpVars /\ Apart(MailWaits) => MailInv'
BY DEF MailInv, SmtpTypeOK, smtpVars, Apart, MailFits

LEMMA MailCleaned == MailInv /\ SmtpCleanup /\ vm' = Ended => MailInv'
BY NoMailType, Distinct DEF MailInv, SmtpTypeOK, SmtpCleanup

\* A handler of the call goes on or waits, or ends the call.
LEMMA MailGoesOn ==
    ASSUME MailInv, NEW m \in Mail, MailBecomes(m), MailFits(m), m.conn = mail.conn
    PROVE  MailInv' /\ Turns(MailWaits)
BY DEF MailInv, SmtpTypeOK, MailBecomes, Turns

LEMMA MailEnds ==
    ASSUME MailInv, mail.conn, NEW result \in Seq(Command), SmtpFinalize(result)
    PROVE  MailInv' /\ Turns(MailWaits)
BY NoMailType, Distinct DEF MailInv, SmtpTypeOK, SmtpFinalize, Resume, Turns

LEMMA MailSteps == MailInv /\ SmtpNext => MailInv' /\ Turns(MailWaits)
<1> SUFFICES ASSUME MailInv, SmtpNext PROVE MailInv' /\ Turns(MailWaits)
  OBVIOUS
<1>0. mail \in Mail /\ mailed \in Seq(Command) /\ MailFits(mail)
  BY DEF MailInv, SmtpTypeOK
<1> DEFINE Named == 0 .. Recipients
           Parts == 0 .. 2
           Pieces == 0 .. SmtpRoom
           Commands == Seq(Command)
           States == ToSet(SmtpStates)
<1>a. Mail = [conn : BOOLEAN, rh : {"dummy", "read"}, rtimer : BOOLEAN,
              wh : {"dummy", "connect", "write"}, wtimer : BOOLEAN, wtimedout : BOOLEAN,
              at : {"out", "read", "got", "write", "put"}, rev : {"r", "w"},
              state : States, n : Named, left : Parts, got : Pieces, sent : Commands]
  BY DEF Mail
<1>b. 0 \in Parts /\ 1 \in Parts /\ 2 \in Parts /\ 0 \in Pieces
  BY SmtpAssumption
<1> HIDE DEF Named, Parts, Pieces, Commands, States
<1>1. CASE SmtpSend
  <2> DEFINE m == [NoMail EXCEPT !.conn = TRUE]
  <2>1. \/ mail' = SmtpConnect(m) \/ mail' = [m EXCEPT !.wh = "connect", !.wtimer = TRUE]
    BY <1>1 DEF SmtpSend
  <2>2. /\ SmtpConnect(m) \in Mail /\ MailFits(SmtpConnect(m)) /\ SmtpConnect(m).conn
        /\ LET w == [m EXCEPT !.wh = "connect", !.wtimer = TRUE]
           IN w \in Mail /\ MailFits(w) /\ w.conn
    <3>1. NoMail \in Mail /\ NoMail.state = "start" /\ NoMail.at = "out"
      BY NoMailType DEF NoMail
    <3> HIDE DEF NoMail
    <3> QED
      BY <3>1 DEF Mail, SmtpConnect, EnterRead, MailFits
  <2>3. vm = Running /\ vm' = [call |-> "send mail", on |-> "mail"] /\ mailed' = mailed
    BY <1>1 DEF SmtpSend, Suspend
  <2>4. vm' \in MailWaits
    BY <2>3 DEF MailWaits
  <2> HIDE DEF m
  <2>5. mail' \in Mail /\ MailFits(mail') /\ mail'.conn
    BY <2>1, <2>2
  <2> QED
    BY <1>0, <2>3, <2>4, <2>5 DEF MailInv, SmtpTypeOK, Turns
<1>2. CASE SmtpFails /\ mail.conn
  BY <1>0, <1>2, MailEnds DEF SmtpFails
<1>3. CASE SmtpReadAgain
  <2> DEFINE m == IF mail.rev = "r" THEN [mail EXCEPT !.at = "out", !.rtimer = TRUE]
                  ELSE [mail EXCEPT !.at = "out", !.wtimer = TRUE]
  <2>1. m \in Mail /\ MailFits(m) /\ m.conn = mail.conn
    BY <1>0, <1>3 DEF SmtpReadAgain, Mail, MailFits
  <2> QED
    BY <1>3, <2>1, MailGoesOn DEF SmtpReadAgain
<1>4. CASE SmtpReadPiece
  <2> DEFINE got == mail.got + 1
             m == [mail EXCEPT !.at = "read", !.got = got]
  <2>1. MailBecomes(m) /\ mail.at \in {"read", "got"} /\ got \in 0 .. SmtpRoom
    BY <1>0, <1>4, SmtpAssumption DEF SmtpReadPiece, Reading, Mail
  <2> HIDE DEF got
  <2>2. m \in Mail
    BY <1>0, <1>a, <2>1 DEF Pieces
  <2>3. MailFits(m) /\ m.conn = mail.conn
    BY <1>0, <2>1 DEF Mail, MailFits
  <2> QED
    BY <2>1, <2>2, <2>3, MailGoesOn
<1>5. CASE SmtpReadReply /\ ~SmtpFails
  <2> DEFINE c == SmtpNextCommand(mail.state, mail.n)
             k == IF c.cmd = "to" THEN c.to ELSE mail.n
             sent == Append(mail.sent, c)
             m == EnterWrite([mail EXCEPT !.rh = "dummy", !.wh = "write", !.left = 2,
                                          !.state = c.cmd, !.n = k, !.sent = sent])
  <2>1. MailBecomes(m) /\ mail.state # "done" /\ mail.at # "out"
    BY <1>5 DEF SmtpReadReply, Reading
  <2>2. c \in Command /\ c.cmd \in ToSet(SmtpStates) /\ c.to \in 0 .. Recipients
    BY <1>0, <2>1, CommandType DEF Mail
  <2> HIDE DEF c
  <2>3. k \in 0 .. Recipients /\ sent \in Seq(Command)
    BY <1>0, <2>2 DEF Mail
  <2> HIDE DEF k, sent
  <2>4. m \in Mail
    <3>1. k \in Named /\ sent \in Commands /\ c.cmd \in States
      BY <2>2, <2>3 DEF Named, Commands, States
    <3> QED
      BY <1>0, <1>a, <1>b, <3>1 DEF EnterWrite
  <2>5. MailFits(m) /\ m.conn = mail.conn
    BY <1>0, <2>1 DEF EnterWrite, Mail, MailFits
  <2> QED
    BY <2>1, <2>4, <2>5, MailGoesOn
<1>6. CASE SmtpReadDone
  <2>1. mail.conn /\ mail.sent \in Seq(Command)
    BY <1>0, <1>6 DEF SmtpReadDone, Reading, MailFits, Mail
  <2> QED
    BY <1>6, <2>1, MailEnds DEF SmtpReadDone
<1>7. CASE SmtpWritePart
  <2> DEFINE m == [mail EXCEPT !.at = "write", !.left = 1]
  <2>1. m \in Mail
    BY <1>0, <1>a, <1>b
  <2>2. MailFits(m) /\ m.conn = mail.conn
    BY <1>0, <1>7 DEF SmtpWritePart, Writing, Mail, MailFits
  <2> QED
    BY <1>7, <2>1, <2>2, MailGoesOn DEF SmtpWritePart
<1>8. CASE SmtpWriteAll
  <2> DEFINE m == EnterRead([mail EXCEPT !.rh = "read", !.wh = "dummy", !.left = 0,
                                         !.got = 0], "r")
  <2>1. m \in Mail
    BY <1>0, <1>a, <1>b DEF EnterRead
  <2>2. MailFits(m) /\ m.conn = mail.conn
    BY <1>0, <1>8 DEF SmtpWriteAll, Writing, EnterRead, Mail, MailFits
  <2> QED
    BY <1>8, <2>1, <2>2, MailGoesOn DEF SmtpWriteAll
<1>9. CASE SmtpWriteAgain
  <2> DEFINE m == [mail EXCEPT !.at = "out", !.wtimer = TRUE]
  <2>1. m \in Mail /\ MailFits(m) /\ m.conn = mail.conn
    BY <1>0, <1>9 DEF SmtpWriteAgain, Mail, MailFits
  <2> QED
    BY <1>9, <2>1, MailGoesOn DEF SmtpWriteAgain
<1>10. CASE SmtpReadable
  <2> DEFINE m == [EnterRead(mail, "r") EXCEPT !.at = "got"]
  <2>1. m \in Mail /\ MailFits(m) /\ m.conn = mail.conn
    BY <1>0, <1>10 DEF SmtpReadable, SmtpEvent, EnterRead, Mail, MailFits
  <2> QED
    BY <1>10, <2>1, MailGoesOn DEF SmtpReadable
<1>11. CASE mail.conn /\ mail.wh = "connect" /\ MailBecomes(SmtpConnect(mail))
  <2> DEFINE m == SmtpConnect(mail)
  <2>1. m \in Mail /\ MailFits(m) /\ m.conn = mail.conn
    BY <1>0, <1>11 DEF SmtpConnect, EnterRead, Mail, MailFits
  <2> QED
    BY <1>11, <2>1, MailGoesOn
<1>12. CASE mail.conn /\ mail.wh = "write" /\ MailBecomes([EnterWrite(mail) EXCEPT !.at = "put"])
  <2> DEFINE m == [EnterWrite(mail) EXCEPT !.at = "put"]
  <2>1. m \in Mail /\ MailFits(m) /\ m.conn = mail.conn
    BY <1>0, <1>12 DEF EnterWrite, Mail, MailFits
  <2> QED
    BY <1>12, <2>1, MailGoesOn
<1>13. CASE mail.wh = "dummy" /\ MailBecomes([mail EXCEPT !.wtimer = FALSE, !.wtimedout = TRUE])
  <2> DEFINE m == [mail EXCEPT !.wtimer = FALSE, !.wtimedout = TRUE]
  <2>1. m \in Mail /\ MailFits(m) /\ m.conn = mail.conn
    BY <1>0, <1>13 DEF Mail, MailFits
  <2> QED
    BY <1>13, <2>1, MailGoesOn
<1>14. CASE SmtpHandler
  <2>1. mail.conn \/ SmtpReadAgain \/ SmtpReadPiece \/ SmtpReadReply
    BY <1>0, <1>14
    DEF SmtpHandler, Mail, MailFits, Reading, Writing, SmtpReadDone, SmtpReadFails, SmtpWritePart,
        SmtpWriteAll, SmtpWriteAgain, SmtpWriteFails
  <2>2. SmtpReadReply => mail.conn
    BY <1>0 DEF SmtpReadReply, Reading, MailFits
  <2> QED
    BY <1>14, <2>1, <2>2, <1>2, <1>3, <1>4, <1>5, <1>6, <1>7, <1>8, <1>9
    DEF SmtpHandler, SmtpReadFails, SmtpWriteFails
<1>15. CASE SmtpWritable \/ SmtpReadTimeout \/ SmtpWriteTimeout
  BY <1>15, <1>2, <1>11, <1>12, <1>13
  DEF SmtpWritable, SmtpReadTimeout, SmtpWriteTimeout, SmtpEvent
<1> QED
  BY <1>1, <1>10, <1>14, <1>15 DEF SmtpNext

-----------------------------------------------------------------------------
(* The dialogue of the mail call                                            *)

\* How many commands have been sent when the last is of this state and n recipients
\* have been named.
Place(state, n) ==
    CASE state = "start" -> 0 [] state = "helo" -> 1 [] state = "login" -> 2
      [] state = "user" -> 3 [] state = "passwd" -> 4 [] state = "from" -> 5
      [] state = "to" -> 5 + n [] state = "data" -> Recipients + 6
      [] state = "quit" -> Recipients + 7 [] state = "done" -> Recipients + 8

\* The commands m has sent are the beginning of the dialogue, as far as its state
\* and its counter say.
Placed(m) ==
    /\ m.state = "to" => m.n >= 1
    /\ m.state \in {"start", "helo", "login", "user", "passwd", "from"} => m.n = 0
    /\ Len(m.sent) = Place(m.state, m.n)
    /\ \A i \in 1 .. Len(m.sent) : m.sent[i] = SmtpDialogue[i]

DialogueInv == Placed(mail) /\ mailed \in {<<>>, SmtpDialogue}

\* The dialogue, place by place.
LEMMA DialogueIs ==
    /\ SmtpDialogue \in Seq(Command) /\ Len(SmtpDialogue) = Recipients + 8
    /\ \A i \in 1 .. 5 : SmtpDialogue[i] = [cmd |-> SmtpStates[i + 1], to |-> 0]
    /\ \A i \in 1 .. Recipients : SmtpDialogue[i + 5] = [cmd |-> "to", to |-> i]
    /\ \A i \in 1 .. 3 : SmtpDialogue[Recipients + 5 + i] = [cmd |-> SmtpStates[i + 7], to |-> 0]
<1> DEFINE before == [i \in 1 .. 5 |-> [cmd |-> SmtpStates[i + 1], to |-> 0]]
           named == [i \in 1 .. Recipients |-> [cmd |-> "to", to |-> i]]
           after == [i \in 1 .. 3 |-> [cmd |-> SmtpStates[i + 7], to |-> 0]]
<1>1. Recipients \in Nat
  BY SmtpAssumption
<1>2. \A i \in 1 .. 10 : SmtpStates[i] \in ToSet(SmtpStates)
  BY MailStates DEF SmtpStates
<1>3. /\ before \in Seq(Command) /\ Len(before) = 5
      /\ \A i \in 1 .. 5 : before[i] = [cmd |-> SmtpStates[i + 1], to |-> 0]
  <2>1. \A i \in 1 .. 5 : [cmd |-> SmtpStates[i + 1], to |-> 0] \in Command
    BY <1>1, <1>2 DEF Command
  <2> QED
    BY <2>1
<1>4. /\ named \in Seq(Command) /\ Len(named) = Recipients
      /\ \A i \in 1 .. Recipients : named[i] = [cmd |-> "to", to |-> i]
  <2>1. \A i \in 1 .. Recipients : [cmd |-> "to", to |-> i] \in Command
    BY <1>1, MailStates DEF Command
  <2> QED
    BY <1>1, <2>1
<1>5. /\ after \in Seq(Command) /\ Len(after) = 3
      /\ \A i \in 1 .. 3 : after[i] = [cmd |-> SmtpStates[i + 7], to |-> 0]
  <2>1. \A i \in 1 .. 3 : [cmd |-> SmtpStates[i + 7], to |-> 0] \in Command
    BY <1>1, <1>2 DEF Command
  <2> QED
    BY <2>1
<1>6. SmtpDialogue = (before \o named) \o after
  BY DEF SmtpDialogue
<1> DEFINE most == before \o named
<1> HIDE DEF before, named, after
<1>7. /\ most \in Seq(Command) /\ Len(most) = 5 + Recipients
      /\ \A i \in 1 .. 5 : most[i] = before[i]
      /\ \A i \in 1 .. Recipients : most[i + 5] = named[i]
  <2>1. /\ most \in Seq(Command) /\ Len(most) = Len(before) + Len(named)
        /\ \A i \in 1 .. Len(before) + Len(named) :
              most[i] = IF i <= Len(before) THEN before[i] ELSE named[i - Len(before)]
    BY <1>3, <1>4, ConcatProperties
  <2>2. \A i \in 1 .. 5 + Recipients : most[i] = IF i <= 5 THEN before[i] ELSE named[i - 5]
    BY <2>1, <1>3, <1>4
  <2>3. ASSUME NEW i \in 1 .. Recipients PROVE most[i + 5] = named[i]
    <3>1. i + 5 \in 1 .. 5 + Recipients /\ ~(i + 5 <= 5) /\ (i + 5) - 5 = i
      BY <1>1
    <3> QED
      BY <2>2, <3>1
  <2> QED
    BY <1>1, <1>3, <1>4, <2>1, <2>2, <2>3
<1> HIDE DEF most
<1>8. /\ SmtpDialogue \in Seq(Command) /\ Len(SmtpDialogue) = Recipients + 8
      /\ \A i \in 1 .. 5 + Recipients : SmtpDialogue[i] = most[i]
      /\ \A i \in 1 .. 3 : SmtpDialogue[Recipients + 5 + i] = after[i]
  <2>1. /\ most \o after \in Seq(Command) /\ Len(most \o after) = Len(most) + Len(after)
        /\ \A i \in 1 .. Len(most) + Len(after) :
              (most \o after)[i] = IF i <= Len(most) THEN most[i] ELSE after[i - Len(most)]
    BY <1>5, <1>7, ConcatProperties
  <2>2. \A i \in 1 .. Recipients + 8 :
           SmtpDialogue[i] = IF i <= 5 + Recipients THEN most[i] ELSE after[i - (5 + Recipients)]
    BY <2>1, <1>1, <1>5, <1>6, <1>7, SMTT(30) DEF most
  <2>3. ASSUME NEW i \in 1 .. 3 PROVE SmtpDialogue[Recipients + 5 + i] = after[i]
    <3> DEFINE k == Recipients + 5 + i
    <3>1. k \in 1 .. Recipients + 8 /\ ~(k <= 5 + Recipients) /\ k - (5 + Recipients) = i
      BY <1>1
    <3> HIDE DEF k
    <3>2. SmtpDialogue[k] = after[i]
      BY <2>2, <3>1
    <3> QED
      BY <3>2 DEF k
  <2>4. \A i \in 1 .. 5 + Recipients : SmtpDialogue[i] = most[i]
    BY <2>2, <1>1
  <2>5. SmtpDialogue \in Seq(Command) /\ Len(SmtpDialogue) = Recipients + 8
    BY <2>1, <1>1, <1>5, <1>6, <1>7 DEF most
  <2> QED
    BY <2>3, <2>4, <2>5
<1>9. ASSUME NEW i \in 1 .. Recipients
      PROVE  SmtpDialogue[i + 5] = [cmd |-> "to", to |-> i]
  <2>1. i + 5 \in 1 .. 5 + Recipients
    BY <1>1
  <2> QED
    BY <2>1, <1>4, <1>7, <1>8
<1>10. ASSUME NEW i \in 1 .. 5
       PROVE  SmtpDialogue[i] = [cmd |-> SmtpStates[i + 1], to |-> 0]
  <2>1. i \in 1 .. 5 + Recipients
    BY <1>1
  <2> QED
    BY <2>1, <1>3, <1>7, <1>8
<1> QED
  BY <1>5, <1>8, <1>9, <1>10

\* The command that follows is the next of the dialogue.
LEMMA NextIsNext ==
    ASSUME NEW m \in Mail, Placed(m), m.state # "done"
    PROVE  LET c == SmtpNextCommand(m.state, m.n)
               n == IF c.cmd = "to" THEN c.to ELSE m.n
           IN /\ c = SmtpDialogue[Len(m.sent) + 1]
              /\ Place(c.cmd, n) = Len(m.sent) + 1
              /\ c.cmd = "to" => n >= 1
              /\ c.cmd \in {"start", "helo", "login", "user", "passwd", "from"} => n = 0
<1> DEFINE c == SmtpNextCommand(m.state, m.n)
<1>1. m.state \in ToSet(SmtpStates) \ {"done"} /\ m.n \in 0 .. Recipients
        /\ Recipients \in Nat \ {0}
  BY SmtpAssumption DEF Mail
<1>2. /\ Following("start") = "helo" /\ Following("helo") = "login"
      /\ Following("login") = "user" /\ Following("user") = "passwd"
      /\ Following("passwd") = "from" /\ Following("to") = "data"
      /\ Following("data") = "quit" /\ Following("quit") = "done"
  BY DEF Following, SmtpStates
<1>3. /\ SmtpDialogue[1] = [cmd |-> "helo", to |-> 0]
      /\ SmtpDialogue[2] = [cmd |-> "login", to |-> 0]
      /\ SmtpDialogue[3] = [cmd |-> "user", to |-> 0]
      /\ SmtpDialogue[4] = [cmd |-> "passwd", to |-> 0]
      /\ SmtpDialogue[5] = [cmd |-> "from", to |-> 0]
      /\ SmtpDialogue[Recipients + 6] = [cmd |-> "data", to |-> 0]
      /\ SmtpDialogue[Recipients + 7] = [cmd |-> "quit", to |-> 0]
      /\ SmtpDialogue[Recipients + 8] = [cmd |-> "done", to |-> 0]
  <2>1. /\ SmtpStates[2] = "helo" /\ SmtpStates[3] = "login" /\ SmtpStates[4] = "user"
        /\ SmtpStates[5] = "passwd" /\ SmtpStates[6] = "from" /\ SmtpStates[8] = "data"
        /\ SmtpStates[9] = "quit" /\ SmtpStates[10] = "done"
    BY DEF SmtpStates
  <2> QED
    BY <1>1, <2>1, DialogueIs
<1>4. CASE m.state \in {"from", "to"} /\ m.n < Recipients
  <2>1. c = [cmd |-> "to", to |-> m.n + 1]
    BY <1>4 DEF SmtpNextCommand
  <2>2. Len(m.sent) = 5 + m.n
    BY <1>1, <1>4 DEF Placed, Place
  <2>3. SmtpDialogue[(m.n + 1) + 5] = [cmd |-> "to", to |-> m.n + 1]
    <3>1. m.n + 1 \in 1 .. Recipients
      BY <1>1, <1>4
    <3> QED
      BY <3>1, DialogueIs
  <2> QED
    BY <1>1, <2>1, <2>2, <2>3 DEF Place
<1>5. CASE ~(m.state \in {"from", "to"} /\ m.n < Recipients)
  <2>1. c = [cmd |-> Following(m.state), to |-> 0]
    BY <1>5 DEF SmtpNextCommand
  <2>2. m.state # "from" /\ (m.state = "to" => m.n = Recipients)
    BY <1>1, <1>5 DEF Placed
  <2>3. m.state \in {"start", "helo", "login", "user", "passwd", "to", "data", "quit"}
    BY <1>1, <2>2, MailStates
  <2> DEFINE follows(s, k) == /\ c = [cmd |-> s, to |-> 0]
                              /\ Len(m.sent) = k - 1
                              /\ SmtpDialogue[k] = [cmd |-> s, to |-> 0]
                              /\ Place(s, m.n) = k
  <2>4. /\ m.state = "start" => follows("helo", 1) /\ m.n = 0
        /\ m.state = "helo" => follows("login", 2) /\ m.n = 0
        /\ m.state = "login" => follows("user", 3) /\ m.n = 0
        /\ m.state = "user" => follows("passwd", 4) /\ m.n = 0
        /\ m.state = "passwd" => follows("from", 5) /\ m.n = 0
    <3> HIDE DEF c
    <3> QED
      BY <1>1, <1>2, <1>3, <2>1 DEF Placed, Place
  <2>5. /\ m.state = "to" => follows("data", Recipients + 6)
        /\ m.state = "data" => follows("quit", Recipients + 7)
        /\ m.state = "quit" => follows("done", Recipients + 8)
    <3> HIDE DEF c
    <3> QED
      BY <1>1, <1>2, <1>3, <2>1, <2>2 DEF Placed, Place
  <2>6. ASSUME NEW s \in ToSet(SmtpStates), NEW k \in Nat, follows(s, k), s \notin {"start", "to"},
               s \in {"helo", "login", "user", "passwd", "from"} => m.n = 0
        PROVE  LET n == IF c.cmd = "to" THEN c.to ELSE m.n
               IN /\ c = SmtpDialogue[Len(m.sent) + 1]
                  /\ Place(c.cmd, n) = Len(m.sent) + 1
                  /\ c.cmd = "to" => n >= 1
                  /\ c.cmd \in {"start", "helo", "login", "user", "passwd", "from"} => n = 0
    <3> HIDE DEF c
    <3> QED
      BY <1>1, <2>6
  <2>7. {"helo", "login", "user", "passwd", "from", "data", "quit", "done"} \subseteq ToSet(SmtpStates)
    BY MailStates
  <2> HIDE DEF follows, c
  <2>8. LET n == IF c.cmd = "to" THEN c.to ELSE m.n
        IN /\ c = SmtpDialogue[Len(m.sent) + 1]
           /\ Place(c.cmd, n) = Len(m.sent) + 1
           /\ c.cmd = "to" => n >= 1
           /\ c.cmd \in {"start", "helo", "login", "user", "passwd", "from"} => n = 0
    BY <1>1, <2>3, <2>4, <2>5, <2>6, <2>7
  <2> QED
    BY <2>8 DEF c
<1> QED
  BY <1>4, <1>5

\* A step of the call sends the next command, or ends the call, or sends nothing.
LEMMA MailMoves ==
    ASSUME MailInv, SmtpNext
    PROVE  \/ SmtpReadReply /\ mail'.sent = Append(mail.sent, SmtpNextCommand(mail.state, mail.n))
           \/ mail' = NoMail /\ mailed' = mailed
           \/ mail' = NoMail /\ mailed' = mail.sent /\ mail.state = "done"
           \/ mailed' = mailed /\ mail'.sent = <<>> /\ mail'.state = "start" /\ mail'.n = 0
           \/ mailed' = mailed /\ mail'.sent = mail.sent /\ mail'.state = mail.state
                 /\ mail'.n = mail.n
<1>0. mail \in Mail
  BY DEF MailInv, SmtpTypeOK
<1>1. CASE SmtpReadReply
  BY <1>0, <1>1 DEF SmtpReadReply, EnterWrite, MailBecomes, SmtpFails, SmtpFinalize, Mail
<1>2. CASE SmtpSend
  BY <1>2 DEF SmtpSend, SmtpConnect, EnterRead, NoMail
<1>3. CASE SmtpReadDone
  BY <1>3 DEF SmtpReadDone, SmtpFinalize
<1>4. CASE SmtpReadFails \/ SmtpWriteFails \/ SmtpReadTimeout
  BY <1>4 DEF SmtpReadFails, SmtpWriteFails, SmtpReadTimeout, SmtpFails, SmtpFinalize
<1>5. CASE SmtpReadAgain \/ SmtpReadPiece \/ SmtpWritePart \/ SmtpWriteAll \/ SmtpWriteAgain
  BY <1>0, <1>5 DEF SmtpReadAgain, SmtpReadPiece, SmtpWritePart, SmtpWriteAll, SmtpWriteAgain,
                    MailBecomes, EnterRead, Mail
<1>6. CASE SmtpReadable \/ SmtpWritable
  BY <1>0, <1>6 DEF SmtpReadable, SmtpWritable, SmtpConnect, EnterRead, EnterWrite,
                    MailBecomes, Mail
<1>7. CASE SmtpWriteTimeout
  BY <1>0, <1>7 DEF SmtpWriteTimeout, SmtpFails, SmtpFinalize, MailBecomes, Mail
<1> QED
  BY <1>1, <1>2, <1>3, <1>4, <1>5, <1>6, <1>7 DEF SmtpNext, SmtpHandler

LEMMA NoMailPlaced == Placed(NoMail)
BY DEF Placed, Place, NoMail

LEMMA DialogueGoesOn == MailInv /\ DialogueInv /\ SmtpNext => DialogueInv'
<1> SUFFICES ASSUME MailInv, DialogueInv, SmtpNext PROVE DialogueInv'
  OBVIOUS
<1>0. mail \in Mail /\ Placed(mail) /\ mailed \in {<<>>, SmtpDialogue}
         /\ mail.sent \in Seq(Command)
  BY DEF MailInv, SmtpTypeOK, DialogueInv, Mail
<1>1. CASE mail' = NoMail /\ mailed' = mailed
  BY <1>0, <1>1, NoMailPlaced DEF DialogueInv
<1>2. CASE mail' = NoMail /\ mailed' = mail.sent /\ mail.state = "done"
  <2>1. Len(mail.sent) = Recipients + 8
    BY <1>0, <1>2 DEF Placed, Place
  <2>2. mail.sent = SmtpDialogue
    BY <1>0, <2>1, DialogueIs, SeqEqual DEF Placed
  <2> QED
    BY <1>2, <2>2, NoMailPlaced DEF DialogueInv
<1>3. CASE mailed' = mailed /\ mail'.sent = <<>> /\ mail'.state = "start" /\ mail'.n = 0
  BY <1>0, <1>3 DEF DialogueInv, Placed, Place
<1>4. CASE mailed' = mailed /\ mail'.sent = mail.sent /\ mail'.state = mail.state
             /\ mail'.n = mail.n
  BY <1>0, <1>4 DEF DialogueInv, Placed
<1>5. CASE SmtpReadReply /\ mail'.sent = Append(mail.sent, SmtpNextCommand(mail.state, mail.n))
             /\ mail' # NoMail
  <2> DEFINE c == SmtpNextCommand(mail.state, mail.n)
             k == IF c.cmd = "to" THEN c.to ELSE mail.n
  <2>1. mail.state # "done" /\ mailed' = mailed /\ mail'.state = c.cmd /\ mail'.n = k
    BY <1>0, <1>5
    DEF SmtpReadReply, EnterWrite, MailBecomes, SmtpFails, SmtpFinalize, Mail
  <2>2. /\ c = SmtpDialogue[Len(mail.sent) + 1]
        /\ Place(c.cmd, k) = Len(mail.sent) + 1
        /\ c.cmd = "to" => k >= 1
        /\ c.cmd \in {"start", "helo", "login", "user", "passwd", "from"} => k = 0
    BY <1>0, <2>1, NextIsNext
  <2>3. c \in Command
    BY <1>0, <2>1, CommandType DEF Mail
  <2> HIDE DEF c, k
  <2>4. mail'.sent = Append(mail.sent, c)
    BY <1>5 DEF c
  <2>5. /\ Len(mail'.sent) = Len(mail.sent) + 1
        /\ \A i \in 1 .. Len(mail'.sent) : mail'.sent[i] = SmtpDialogue[i]
    BY <1>0, <2>2, <2>3, <2>4, AppendProperties DEF Placed
  <2>6. Placed(mail')
    BY <2>1, <2>2, <2>5 DEF Placed
  <2> QED
    BY <1>0, <2>1, <2>6 DEF DialogueInv
<1>6. SmtpReadReply /\ mail' = NoMail => mailed' = mailed
  BY <1>0 DEF SmtpReadReply, SmtpFails, SmtpFinalize, MailBecomes
<1> QED
  BY <1>1, <1>2, <1>3, <1>4, <1>5, <1>6, MailMoves

-----------------------------------------------------------------------------
(* The http call                                                            *)

\* When no handler of the call runs, a timer leads to one.
HttpFits(r) ==
    /\ r.at # "out" => r.conn
    /\ r.at \in {"read", "got", "parse"} => r.rh = "read"
    /\ r.at \in {"write", "put"} => r.wh = "write"
    /\ r.conn /\ r.at = "out" =>
          \/ r.rtimer /\ r.rh = "read"
          \/ r.wtimer /\ r.wh # "dummy"

HttpInv == HttpTypeOK /\ HttpFits(http) /\ (http.conn <=> vm \in HttpWaits)

LEMMA NoHttpType == NoHttp \in Http /\ HttpFits(NoHttp) /\ ~NoHttp.conn
BY HttpAssumption DEF NoHttp, Http, HttpFits, Steps

LEMMA HttpBegins == HttpInit /\ vm = Running => HttpInv
BY NoHttpType, Distinct DEF HttpInit, HttpInv, HttpTypeOK

LEMMA HttpStays == HttpInv /\ UNCHANGED httpVars /\ Apart(HttpWaits) => HttpInv'
BY DEF HttpInv, HttpTypeOK, httpVars, Apart, HttpFits

LEMMA HttpCleaned == HttpInv /\ HttpCleanup /\ vm' = Ended => HttpInv'
BY NoHttpType, Distinct DEF HttpInv, HttpTypeOK, HttpCleanup

\* A handler of the call goes on or waits, or ends the call.
LEMMA HttpGoesOn ==
    ASSUME HttpInv, NEW r \in Http, HttpBecomes(r), HttpFits(r), r.conn = http.conn
    PROVE  HttpInv' /\ Turns(HttpWaits)
BY DEF HttpInv, HttpTypeOK, HttpBecomes, Turns

LEMMA HttpEnds ==
    ASSUME HttpInv, http.conn, HttpDone \/ HttpFails
    PROVE  HttpInv' /\ Turns(HttpWaits)
BY NoHttpType, Distinct DEF HttpInv, HttpTypeOK, HttpDone, HttpFails, Resume, Turns

\* What the parser makes of the call is a call, at the same place of its dialogue.
LEMMA ParsedType ==
    ASSUME NEW r \in Http
    PROVE  /\ ParseStatusLine(r) \in Http /\ ParseHeaders(r) \in Http /\ ParseBody(r) \in Http
           /\ \A p \in {ParseStatusLine(r), ParseHeaders(r), ParseBody(r)} :
                 p.conn = r.conn /\ p.at = r.at /\ p.rh = r.rh
<1>1. r.read \in Nat /\ r.parsed \in Nat /\ r.length \in Int /\ r.bodyStart \in Nat
         /\ r.header \in Int /\ r.size \in Nat /\ r.response.length \in Int
  BY HttpAssumption DEF Http, NoResponse
<1> DEFINE next == r.parsed + 1
<1>2. next \in Nat
  BY <1>1
<1>3. ParseStatusLine(r) \in Http /\ ParseStatusLine(r).conn = r.conn
         /\ ParseStatusLine(r).at = r.at /\ ParseStatusLine(r).rh = r.rh
  <2> DEFINE step == IF Next1(r) = "eol" THEN "headers" ELSE "status_line"
  <2>1. step \in Steps
    BY DEF Steps
  <2>2. ParseStatusLine(r) = [r EXCEPT !.parsed = next, !.step = step]
    BY DEF ParseStatusLine
  <2> HIDE DEF next, step
  <2> QED
    BY <1>2, <2>1, <2>2 DEF Http
<1>4. ParseHeaders(r) \in Http /\ ParseHeaders(r).conn = r.conn
         /\ ParseHeaders(r).at = r.at /\ ParseHeaders(r).rh = r.rh
  <2> DEFINE ends == Next1(r) = "eol" /\ r.start
             start == (Next1(r) = "eol")
             step == IF ends THEN "body" ELSE "headers"
             from == IF ends THEN next ELSE r.bodyStart
             len == IF Next1(r) = "length" /\ r.length = 0
                      THEN r.response.length ELSE r.length
  <2>1. step \in Steps /\ from \in Nat /\ len \in Int /\ start \in BOOLEAN
    BY <1>1, <1>2 DEF Steps
  <2>2. ParseHeaders(r) = [r EXCEPT !.parsed = next, !.start = start, !.step = step,
                                    !.bodyStart = from, !.length = len]
    BY DEF ParseHeaders
  <2> HIDE DEF next, start, step, from, len
  <2> QED
    BY <1>2, <2>1, <2>2, ZenonT(60) DEF Http
<1>5. ParseBody(r) \in Http /\ ParseBody(r).conn = r.conn
         /\ ParseBody(r).at = r.at /\ ParseBody(r).rh = r.rh
  <2> DEFINE rest == IF r.length > 0 THEN r.length - (r.read - r.parsed) ELSE r.length
             room == r.size - (r.read - (IF r.header = -1 THEN 0 ELSE r.header))
             parsed == IF r.length > 0 THEN r.read ELSE r.parsed
             s == [r EXCEPT !.length = rest, !.parsed = parsed]
  <2>1. rest \in Int /\ parsed \in Nat
    BY <1>1
  <2>2. ParseBody(r) = IF rest > 0 /\ rest > room
                         THEN [s EXCEPT !.header = r.read, !.size = rest] ELSE s
    BY DEF ParseBody
  <2> HIDE DEF rest, room, parsed
  <2>3. s \in Http /\ s.conn = r.conn /\ s.at = r.at /\ s.rh = r.rh
    BY <2>1 DEF Http
  <2>4. ASSUME rest > 0
        PROVE  LET b == [s EXCEPT !.header = r.read, !.size = rest]
               IN b \in Http /\ b.conn = r.conn /\ b.at = r.at /\ b.rh = r.rh
    <3>1. rest \in Nat /\ r.read \in Int
      BY <1>1, <2>1, <2>4
    <3> HIDE DEF s
    <3> QED
      BY <2>3, <3>1 DEF Http
  <2> QED
    BY <2>2, <2>3, <2>4
<1> QED
  BY <1>3, <1>4, <1>5

LEMMA HttpSteps == HttpInv /\ HttpNext => HttpInv' /\ Turns(HttpWaits)
<1> SUFFICES ASSUME HttpInv, HttpNext PROVE HttpInv' /\ Turns(HttpWaits)
  OBVIOUS
<1>0. http \in Http /\ HttpFits(http)
  BY DEF HttpInv, HttpTypeOK
<1> DEFINE Parts == 0 .. 2
<1>a. Http = [conn : BOOLEAN, rh : {"dummy", "read"}, rtimer : BOOLEAN,
              wh : {"dummy", "connect", "write"}, wtimer : BOOLEAN,
              at : {"out", "read", "got", "parse", "write", "put"}, left : Parts,
              response : Responses \cup {NoResponse},
              read : Nat, parsed : Nat, step : Steps, start : BOOLEAN, length : Int,
              bodyStart : Nat, header : Int, size : Nat]
  BY DEF Http
<1>b. 0 \in Parts /\ 1 \in Parts /\ 2 \in Parts
  OBVIOUS
<1> HIDE DEF Parts
<1>1. CASE Fetch
  <2>1. PICK response \in Responses :
           LET r == [NoHttp EXCEPT !.conn = TRUE, !.response = response]
           IN http' = HttpConnect(r) \/ http' = [r EXCEPT !.wh = "connect", !.wtimer = TRUE]
    BY <1>1 DEF Fetch
  <2> DEFINE r == [NoHttp EXCEPT !.conn = TRUE, !.response = response]
  <2>2. /\ HttpConnect(r) \in Http /\ HttpFits(HttpConnect(r)) /\ HttpConnect(r).conn
        /\ LET w == [r EXCEPT !.wh = "connect", !.wtimer = TRUE]
           IN w \in Http /\ HttpFits(w) /\ w.conn
    <3>1. NoHttp \in Http /\ NoHttp.at = "out"
      BY NoHttpType DEF NoHttp
    <3>2. r \in Http /\ r.conn /\ r.at = "out"
      BY <3>1 DEF Http
    <3> HIDE DEF r
    <3>3. HttpConnect(r) \in Http /\ HttpFits(HttpConnect(r)) /\ HttpConnect(r).conn
      BY <3>2, <1>a, <1>b DEF HttpConnect, HttpEnterWrite, HttpFits
    <3> QED
      BY <3>2, <3>3 DEF Http, HttpFits
  <2>3. vm = Running /\ vm' = [call |-> "http", on |-> "http"]
    BY <1>1 DEF Fetch, Suspend
  <2>4. vm' \in HttpWaits
    BY <2>3 DEF HttpWaits
  <2>5. http' \in Http /\ HttpFits(http') /\ http'.conn
    BY <2>1, <2>2
  <2> QED
    BY <2>3, <2>4, <2>5 DEF HttpInv, HttpTypeOK, Turns
<1>2. CASE HttpFails /\ http.conn
  BY <1>2, HttpEnds
<1>3. CASE HttpWritePart
  <2> DEFINE r == [http EXCEPT !.at = "write", !.left = 1]
  <2>1. r \in Http /\ HttpFits(r) /\ r.conn = http.conn
    BY <1>0, <1>3, <1>a, <1>b DEF HttpWritePart, HttpWriting, HttpFits
  <2> QED
    BY <1>3, <2>1, HttpGoesOn DEF HttpWritePart
<1>4. CASE HttpWriteAll
  <2> DEFINE r == HttpEnterRead([http EXCEPT !.rh = "read", !.wh = "dummy", !.left = 0])
  <2>1. r \in Http /\ HttpFits(r) /\ r.conn = http.conn
    BY <1>0, <1>4, <1>a, <1>b DEF HttpWriteAll, HttpWriting, HttpEnterRead, HttpFits
  <2> QED
    BY <1>4, <2>1, HttpGoesOn DEF HttpWriteAll
<1>5. CASE HttpWriteAgain
  <2> DEFINE r == [http EXCEPT !.at = "out", !.wtimer = TRUE]
  <2>1. r \in Http /\ HttpFits(r) /\ r.conn = http.conn
    BY <1>0, <1>5 DEF HttpWriteAgain, Http, HttpFits
  <2> QED
    BY <1>5, <2>1, HttpGoesOn DEF HttpWriteAgain
<1>6. CASE HttpReadSome
  <2>1. PICK k \in 1 .. Room : HttpBecomes([http EXCEPT !.at = "parse", !.read = http.read + k])
    BY <1>6 DEF HttpReadSome
  <2> DEFINE read == http.read + k
             r == [http EXCEPT !.at = "parse", !.read = read]
  <2>2. read \in Nat
    BY <1>0 DEF Http
  <2>3. http.at \in {"read", "got"}
    BY <1>6 DEF HttpReadSome, HttpReading
  <2>4. HttpBecomes(r)
    BY <2>1
  <2> HIDE DEF read
  <2>5. r \in Http /\ HttpFits(r) /\ r.conn = http.conn
    BY <1>0, <2>2, <2>3 DEF Http, HttpFits
  <2> QED
    BY <2>4, <2>5, HttpGoesOn
<1>7. CASE HttpReadAgain
  <2> DEFINE r == [http EXCEPT !.at = "out", !.rtimer = TRUE]
  <2>1. http.at = "read" /\ HttpBecomes(r)
    BY <1>7 DEF HttpReadAgain
  <2>2. r \in Http /\ HttpFits(r) /\ r.conn = http.conn
    BY <1>0, <2>1 DEF Http, HttpFits
  <2> QED
    BY <2>1, <2>2, HttpGoesOn
<1>8. CASE http.at = "parse" /\ \E p \in {ParseStatusLine(http), ParseHeaders(http)} : HttpBecomes(p)
  <2>1. PICK p \in {ParseStatusLine(http), ParseHeaders(http)} : HttpBecomes(p)
    BY <1>8
  <2>2. p \in Http /\ p.conn = http.conn /\ p.at = http.at /\ p.rh = http.rh
    BY <1>0, ParsedType
  <2>3. HttpFits(p)
    BY <1>0, <1>8, <2>2 DEF HttpFits
  <2> QED
    BY <2>1, <2>2, <2>3, HttpGoesOn
<1>9. CASE http.at = "parse" /\ \E p \in {http, ParseBody(http)} : HttpBecomes([p EXCEPT !.at = "read"])
  <2>1. PICK p \in {http, ParseBody(http)} : HttpBecomes([p EXCEPT !.at = "read"])
    BY <1>9
  <2>2. p \in Http /\ p.conn = http.conn /\ p.rh = http.rh
    BY <1>0, ParsedType
  <2>3. http.conn /\ http.rh = "read"
    BY <1>0, <1>9 DEF HttpFits
  <2>4. [p EXCEPT !.at = "read"] \in Http /\ HttpFits([p EXCEPT !.at = "read"])
           /\ [p EXCEPT !.at = "read"].conn = http.conn
    BY <2>2, <2>3 DEF Http, HttpFits
  <2> QED
    BY <2>1, <2>4, HttpGoesOn
<1>10. CASE HttpDone /\ http.at = "parse"
  BY <1>0, <1>10, HttpEnds DEF HttpFits
<1>11. CASE HttpReadable
  <2> DEFINE r == [HttpEnterRead(http) EXCEPT !.at = "got"]
  <2>1. r \in Http /\ HttpFits(r) /\ r.conn = http.conn
    BY <1>0, <1>11 DEF HttpReadable, HttpEvent, HttpEnterRead, Http, HttpFits
  <2> QED
    BY <1>11, <2>1, HttpGoesOn DEF HttpReadable
<1>12. CASE http.conn /\ HttpBecomes(HttpConnect(http))
  <2>1. HttpConnect(http) \in Http /\ HttpFits(HttpConnect(http))
           /\ HttpConnect(http).conn = http.conn
    BY <1>0, <1>12, <1>a, <1>b DEF HttpConnect, HttpEnterWrite, HttpFits
  <2> QED
    BY <1>12, <2>1, HttpGoesOn
<1>13. CASE http.conn /\ http.wh = "write" /\ HttpBecomes([HttpEnterWrite(http) EXCEPT !.at = "put"])
  <2> DEFINE r == [HttpEnterWrite(http) EXCEPT !.at = "put"]
  <2>1. r \in Http /\ HttpFits(r) /\ r.conn = http.conn
    BY <1>0, <1>13 DEF HttpEnterWrite, Http, HttpFits
  <2> QED
    BY <1>13, <2>1, HttpGoesOn
<1>14. CASE HttpHandler
  <2>1. http.at # "out" => http.conn
    BY <1>0 DEF HttpFits
  <2>2. HttpWriteFails \/ HttpReadFails => HttpFails /\ http.conn
    BY <2>1 DEF HttpWriteFails, HttpReadFails, HttpWriting, HttpReading
  <2>3. ASSUME HttpParseHeader PROVE HttpInv' /\ Turns(HttpWaits)
    <3>1. \/ http.at = "parse" /\ \E p \in {ParseStatusLine(http), ParseHeaders(http)} : HttpBecomes(p)
          \/ http.at = "parse" /\ HttpFails
          \/ http.at = "parse" /\ HttpBecomes([http EXCEPT !.at = "read"])
      BY <2>3 DEF HttpParseHeader
    <3> QED
      BY <3>1, <2>1, <1>2, <1>8, <1>9
  <2>4. ASSUME HttpParseBody PROVE HttpInv' /\ Turns(HttpWaits)
    <3>1. \/ http.at = "parse" /\ HttpBecomes([ParseBody(http) EXCEPT !.at = "read"])
          \/ http.at = "parse" /\ HttpFails
          \/ http.at = "parse" /\ HttpDone
      BY <2>4 DEF HttpParseBody
    <3> QED
      BY <3>1, <2>1, <1>2, <1>9, <1>10
  <2> QED
    BY <1>14, <2>2, <2>3, <2>4, <1>2, <1>3, <1>4, <1>5, <1>6, <1>7 DEF HttpHandler
<1>15. CASE HttpWritable \/ HttpReadTimeout \/ HttpWriteTimeout
  BY <1>15, <1>2, <1>12, <1>13 DEF HttpWritable, HttpReadTimeout, HttpWriteTimeout, HttpEvent
<1> QED
  BY <1>1, <1>11, <1>14, <1>15 DEF HttpNext

-----------------------------------------------------------------------------
(* The body of the http call                                                *)

\* Where the buffer that is read into begins in the response.
Base(r) == IF r.header = -1 THEN 0 ELSE r.header

\* How far r has come in its response: the parser is behind the reader, which stays in
\* its buffer.
Reads(r) ==
    /\ r.parsed <= r.read /\ r.read <= Len(r.response.units)
    /\ r.header = -1 \/ (r.step = "body" /\ r.bodyStart <= r.header /\ r.header <= r.read)
    /\ r.read - Base(r) <= r.size

\* The status line is not over.
InStatusLine(r) ==
    /\ r.start /\ r.length = 0
    /\ \A i \in 1 .. r.parsed : r.response.units[i] # "eol"

\* The header is not over, and what it said of the length so far is noted.
InHeader(r) ==
    LET units == r.response.units
    IN /\ r.parsed >= 1 /\ (\E j \in 1 .. r.parsed : units[j] = "eol")
       /\ r.start <=> units[r.parsed] = "eol"
       /\ \A i \in 1 .. r.parsed : ~EmptyLine(units, i)
       /\ r.length \in {0, r.response.length}
       /\ \A i \in 1 .. r.parsed :
             units[i] = "length" /\ InHeaders(units, i) => r.length = r.response.length

\* The body begins behind the first empty line, what is to come is counted down from
\* what the header said, and a second buffer has room for just that.
InBody(r) ==
    LET units == r.response.units
    IN /\ r.bodyStart >= 1 /\ r.bodyStart <= r.parsed
       /\ EmptyLine(units, r.bodyStart)
       /\ \A i \in 1 .. r.bodyStart - 1 : ~EmptyLine(units, i)
       /\ r.length = r.response.length - (r.parsed - r.bodyStart)
       /\ r.header # -1 => r.size - (r.read - r.header) = r.length - (r.read - r.parsed)

Fetches(r) ==
    /\ Reads(r)
    /\ r.step = "status_line" => InStatusLine(r)
    /\ r.step = "headers" => InHeader(r)
    /\ r.step = "body" => InBody(r)

\* What was returned is the response's body (the second part of BodyWhole).
Returned(f) ==
    f.response # NoResponse =>
        LET units == f.response.units
        IN /\ IsPrefix(f.body, SubSeq(units, HeaderEnd(units) + 1, Len(units)))
           /\ Len(f.body) >= f.response.length

FetchInv == Fetches(http) /\ Returned(fetched)

\* What the invariant speaks of.
SameProgress(r, s) ==
    /\ r.response = s.response /\ r.read = s.read /\ r.parsed = s.parsed /\ r.step = s.step
    /\ r.start = s.start /\ r.length = s.length /\ r.bodyStart = s.bodyStart
    /\ r.header = s.header /\ r.size = s.size

LEMMA SameFetches ==
    ASSUME NEW r, NEW s, SameProgress(r, s), Fetches(s)
    PROVE  Fetches(r)
BY DEF SameProgress, Fetches, Reads, Base, InStatusLine, InHeader, InBody

\* A response is a sequence of units with a length it says in its header.
LEMMA ResponseOK ==
    ASSUME NEW r \in Http
    PROVE  /\ r.response.units \in Seq(Units) /\ r.response.length \in Nat
           /\ r.response.length # 0 =>
                 \E i \in 1 .. Len(r.response.units) :
                    r.response.units[i] = "length" /\ InHeaders(r.response.units, i)
           /\ r.read \in Nat /\ r.parsed \in Nat /\ r.length \in Int /\ r.bodyStart \in Nat
           /\ r.header \in Int /\ r.size \in Nat /\ r.start \in BOOLEAN
<1>1. r.response \in Responses \cup {NoResponse}
  BY DEF Http
<1>2. NoResponse.units \in Seq(Units) /\ NoResponse.length = 0
  BY DEF NoResponse
<1>3. r.response.units \in Seq(Units) /\ r.response.length \in Nat
  BY <1>1, <1>2, HttpAssumption
<1>4. DOMAIN r.response.units = 1 .. Len(r.response.units)
  BY <1>3
<1> QED
  BY <1>1, <1>2, <1>3, <1>4, HttpAssumption DEF Http

\* A call begins where its response begins.
LEMMA NewFetches ==
    ASSUME NEW r \in Http, r.read = 0, r.parsed = 0, r.step = "status_line", r.start,
           r.length = 0, r.header = -1
    PROVE  Fetches(r)
<1>1. Len(r.response.units) \in Nat /\ r.size \in Nat
  BY ResponseOK
<1> QED
  BY <1>1 DEF Fetches, Reads, Base, InStatusLine

LEMMA StatusLineParsed ==
    ASSUME NEW r \in Http, Fetches(r), r.step = "status_line", r.parsed < r.read
    PROVE  Fetches(ParseStatusLine(r))
<1> DEFINE units == r.response.units
           p == ParseStatusLine(r)
<1>1. /\ p.response = r.response /\ p.read = r.read /\ p.parsed = r.parsed + 1
      /\ p.step = (IF units[r.parsed + 1] = "eol" THEN "headers" ELSE "status_line")
      /\ p.start = r.start /\ p.length = r.length /\ p.bodyStart = r.bodyStart
      /\ p.header = r.header /\ p.size = r.size
  BY DEF ParseStatusLine, Next1, Http
<1>2. /\ units \in Seq(Units) /\ r.read \in Nat /\ r.parsed \in Nat /\ r.header \in Int
      /\ r.size \in Nat
  BY ResponseOK
<1>3. r.start /\ r.length = 0 /\ \A i \in 1 .. r.parsed : units[i] # "eol"
  BY DEF Fetches, InStatusLine
<1> HIDE DEF p
<1>4. Reads(p)
  BY <1>1, <1>2 DEF Fetches, Reads, Base
<1>5. p.step = "status_line" => InStatusLine(p)
  BY <1>1, <1>2, <1>3 DEF InStatusLine
<1>6. ASSUME p.step = "headers" PROVE InHeader(p)
  <2>1. units[r.parsed + 1] = "eol"
    BY <1>1, <1>6
  <2>2. \A i \in 1 .. r.parsed + 1 : ~EmptyLine(units, i)
    BY <1>2, <1>3 DEF EmptyLine
  <2>3. \A i \in 1 .. r.parsed + 1 : ~InHeaders(units, i)
    BY <1>2, <1>3 DEF InHeaders
  <2>4. r.parsed + 1 >= 1 /\ r.parsed + 1 \in 1 .. r.parsed + 1
    BY <1>2
  <2> QED
    BY <1>1, <1>3, <2>1, <2>2, <2>3, <2>4 DEF InHeader
<1>7. p.step # "body"
  BY <1>1
<1>8. Fetches(p)
  BY <1>4, <1>5, <1>6, <1>7 DEF Fetches
<1> QED
  BY <1>8 DEF p

LEMMA HeadersParsed ==
    ASSUME NEW r \in Http, Fetches(r), r.step = "headers", r.parsed < r.read
    PROVE  Fetches(ParseHeaders(r))
<1> DEFINE units == r.response.units
           next == units[r.parsed + 1]
           ends == next = "eol" /\ r.start
           p == ParseHeaders(r)
<1>1. /\ p.response = r.response /\ p.read = r.read /\ p.parsed = r.parsed + 1
      /\ p.step = (IF ends THEN "body" ELSE "headers")
      /\ p.start = (next = "eol")
      /\ p.length = (IF next = "length" /\ r.length = 0 THEN r.response.length ELSE r.length)
      /\ p.bodyStart = (IF ends THEN r.parsed + 1 ELSE r.bodyStart)
      /\ p.header = r.header /\ p.size = r.size
  BY DEF ParseHeaders, Next1, Http
<1>2. /\ units \in Seq(Units) /\ r.read \in Nat /\ r.parsed \in Nat /\ r.header \in Int
      /\ r.size \in Nat /\ r.length \in Int /\ r.response.length \in Nat
      /\ r.start \in BOOLEAN /\ r.bodyStart \in Nat
  BY ResponseOK
<1>3. /\ r.parsed >= 1 /\ (\E j \in 1 .. r.parsed : units[j] = "eol")
      /\ r.start <=> units[r.parsed] = "eol"
      /\ \A i \in 1 .. r.parsed : ~EmptyLine(units, i)
      /\ r.length \in {0, r.response.length}
      /\ \A i \in 1 .. r.parsed :
            units[i] = "length" /\ InHeaders(units, i) => r.length = r.response.length
  BY DEF Fetches, InHeader
<1>4. r.header = -1
  BY DEF Fetches, Reads
<1> HIDE DEF p
<1>5. Reads(p)
  BY <1>1, <1>2, <1>4 DEF Fetches, Reads, Base
<1>6. ends <=> EmptyLine(units, r.parsed + 1)
  <2>1. r.parsed + 1 > 1 /\ (r.parsed + 1) - 1 = r.parsed
    BY <1>2, <1>3
  <2> QED
    BY <1>3, <2>1 DEF EmptyLine
<1>7. p.length \in {0, r.response.length}
  BY <1>1, <1>3
<1>8. \A i \in 1 .. r.parsed + 1 :
         units[i] = "length" /\ InHeaders(units, i) => p.length = r.response.length
  <2> SUFFICES ASSUME NEW i \in 1 .. r.parsed + 1, units[i] = "length", InHeaders(units, i)
               PROVE  p.length = r.response.length
    OBVIOUS
  <2>1. CASE i <= r.parsed
    <3>1. r.length = r.response.length
      BY <1>2, <1>3, <2>1
    <3> QED
      BY <1>1, <3>1
  <2>2. CASE i = r.parsed + 1
    BY <1>1, <1>3, <2>2
  <2> QED
    BY <1>2, <2>1, <2>2
<1>9. ASSUME ~ends PROVE InHeader(p)
  <2>1. \A i \in 1 .. r.parsed + 1 : ~EmptyLine(units, i)
    <3> SUFFICES ASSUME NEW i \in 1 .. r.parsed + 1 PROVE ~EmptyLine(units, i)
      OBVIOUS
    <3>1. i \in 1 .. r.parsed \/ i = r.parsed + 1
      BY <1>2
    <3> QED
      BY <1>3, <1>6, <1>9, <3>1
  <2>2. r.parsed + 1 >= 1 /\ \E j \in 1 .. r.parsed + 1 : units[j] = "eol"
    BY <1>2, <1>3
  <2> HIDE DEF ends
  <2> QED
    BY <1>1, <1>7, <1>8, <2>1, <2>2 DEF InHeader
<1>10. ASSUME ends PROVE InBody(p)
  <2>1. EmptyLine(units, r.parsed + 1)
    BY <1>6, <1>10
  <2>2. p.bodyStart = r.parsed + 1 /\ p.parsed = r.parsed + 1
    BY <1>1, <1>10
  <2>3. \A i \in 1 .. (r.parsed + 1) - 1 : ~EmptyLine(units, i)
    BY <1>2, <1>3
  <2>4. p.length = r.response.length
    <3>1. CASE r.response.length = 0
      BY <1>7, <3>1
    <3>2. CASE r.response.length # 0
      <4>1. PICK i \in 1 .. Len(units) : units[i] = "length" /\ InHeaders(units, i)
        BY <3>2, ResponseOK
      <4>2. i < r.parsed + 1
        <5>1. i \in Nat /\ \A j \in 1 .. i : ~EmptyLine(units, j)
          BY <4>1 DEF InHeaders
        <5>2. r.parsed + 1 \notin 1 .. i
          BY <2>1, <5>1
        <5> QED
          BY <1>2, <5>1, <5>2
      <4>3. i \in 1 .. r.parsed + 1
        BY <1>2, <4>2
      <4> QED
        BY <1>8, <4>1, <4>3
    <3> QED
      BY <3>1, <3>2
  <2>5. p.length = r.response.length - ((r.parsed + 1) - (r.parsed + 1))
    BY <1>2, <2>4
  <2>6. r.parsed + 1 >= 1 /\ r.parsed + 1 <= r.parsed + 1
    BY <1>2
  <2> HIDE DEF ends
  <2> QED
    BY <1>1, <1>4, <2>1, <2>2, <2>3, <2>5, <2>6 DEF InBody
<1>11. Fetches(p)
  BY <1>1, <1>5, <1>9, <1>10 DEF Fetches
<1> QED
  BY <1>11 DEF p

LEMMA BodyParsed ==
    ASSUME NEW r \in Http, Fetches(r), r.step = "body"
    PROVE  /\ ParseBody(r).length > 0 => Fetches(ParseBody(r))
           /\ ParseBody(r).length <= 0 => r.response.length <= r.read - r.bodyStart
<1> DEFINE rest == IF r.length > 0 THEN r.length - (r.read - r.parsed) ELSE r.length
           done == IF r.length > 0 THEN r.read ELSE r.parsed
           room == r.size - (r.read - Base(r))
           p == ParseBody(r)
           grown == rest > 0 /\ rest > room
<1>1. /\ p.response = r.response /\ p.read = r.read /\ p.parsed = done
      /\ p.step = r.step /\ p.start = r.start /\ p.length = rest /\ p.bodyStart = r.bodyStart
      /\ p.header = (IF grown THEN r.read ELSE r.header)
      /\ p.size = (IF grown THEN rest ELSE r.size)
  BY DEF ParseBody, Http, Base
<1>2. /\ Len(r.response.units) \in Nat /\ r.read \in Nat /\ r.parsed \in Nat /\ r.header \in Int
      /\ r.size \in Nat /\ r.length \in Int /\ r.response.length \in Nat /\ r.bodyStart \in Nat
  BY ResponseOK
<1>3. /\ r.parsed <= r.read /\ r.read <= Len(r.response.units)
      /\ r.header = -1 \/ (r.bodyStart <= r.header /\ r.header <= r.read)
      /\ r.read - Base(r) <= r.size
  BY DEF Fetches, Reads
<1>4. InBody(r)
  BY DEF Fetches
<1>5. r.length = r.response.length - (r.parsed - r.bodyStart) /\ r.bodyStart <= r.parsed
  BY <1>4 DEF InBody
<1> HIDE DEF p
<1>6. ASSUME p.length > 0 PROVE Fetches(p)
  <2>1. r.length > 0 /\ done = r.read /\ rest = r.length - (r.read - r.parsed) /\ rest > 0
    BY <1>1, <1>2, <1>3, <1>6
  <2>2. rest = r.response.length - (r.read - r.bodyStart)
    BY <1>2, <1>5, <2>1
  <2>3. Reads(p)
    <3>1. CASE grown
      <4>1. p.header = r.read /\ p.size = rest /\ rest \in Int /\ r.read # -1
        BY <1>1, <1>2, <2>1, <3>1
      <4>2. Base(p) = r.read
        BY <4>1 DEF Base
      <4> QED
        BY <1>1, <1>2, <1>3, <1>5, <2>1, <4>1, <4>2 DEF Reads
    <3>2. CASE ~grown
      <4>1. p.header = r.header /\ p.size = r.size /\ Base(p) = Base(r)
        BY <1>1, <3>2 DEF Base
      <4> QED
        BY <1>1, <1>2, <1>3, <2>1, <4>1 DEF Reads
    <3> QED
      BY <3>1, <3>2
  <2>4. p.header # -1 => p.size - (p.read - p.header) = p.length - (p.read - p.parsed)
    <3>1. CASE grown
      BY <1>1, <1>2, <2>1, <3>1
    <3>2. CASE ~grown
      <4>1. r.header # -1 => r.size - (r.read - r.header) = r.length - (r.read - r.parsed)
        BY <1>4 DEF InBody
      <4> QED
        BY <1>1, <1>2, <2>1, <3>2, <4>1
    <3> QED
      BY <3>1, <3>2
  <2>5. r.bodyStart <= r.read
    BY <1>2, <1>3, <1>5
  <2>6. InBody(p)
    <3> HIDE DEF rest, done
    <3> QED
      BY <1>1, <1>4, <2>1, <2>2, <2>4, <2>5 DEF InBody
  <2> QED
    BY <1>1, <2>3, <2>6 DEF Fetches
<1>7. ASSUME p.length <= 0 PROVE r.response.length <= r.read - r.bodyStart
  BY <1>1, <1>2, <1>3, <1>5, <1>7, SMTT(30)
<1> QED
  BY <1>6, <1>7 DEF p

\* The body that is returned.
LEMMA BodyIs ==
    ASSUME NEW r \in Http, Fetches(r), r.step = "body",
           r.response.length <= r.read - r.bodyStart
    PROVE  Returned([response |-> r.response, body |-> Body(r)])
<1> DEFINE units == r.response.units
           from == r.bodyStart
           all == SubSeq(units, from + 1, Len(units))
           body == SubSeq(units, from + 1, r.read)
<1>1. /\ units \in Seq(Units) /\ Len(units) \in Nat /\ r.read \in Nat /\ from \in Nat
      /\ r.header \in Int /\ r.parsed \in Nat
  BY ResponseOK
<1>2. /\ from >= 1 /\ from <= r.parsed /\ r.parsed <= r.read /\ r.read <= Len(units)
      /\ r.header = -1 \/ (from <= r.header /\ r.header <= r.read)
      /\ EmptyLine(units, from) /\ \A i \in 1 .. from - 1 : ~EmptyLine(units, i)
  BY DEF Fetches, Reads, InBody
<1>3. HeaderEnd(units) = from
  <2> DEFINE First(i) == EmptyLine(units, i) /\ \A j \in 1 .. i - 1 : ~EmptyLine(units, j)
  <2>1. from \in 1 .. Len(units) /\ First(from)
    BY <1>1, <1>2
  <2>2. ASSUME NEW i \in 1 .. Len(units), First(i) PROVE i = from
    <3>1. ~(i \in 1 .. from - 1) /\ ~(from \in 1 .. i - 1)
      BY <1>2, <2>2
    <3> QED
      BY <1>1, <1>2, <3>1
  <2>3. HeaderEnd(units) = CHOOSE i \in 1 .. Len(units) : First(i)
    BY DEF HeaderEnd
  <2> HIDE DEF First
  <2> QED
    BY <2>1, <2>2, <2>3
<1>4. Body(r) = body
  <2>1. CASE r.header = -1
    BY <2>1 DEF Body
  <2>2. CASE r.header # -1
    <3>1. /\ from + 1 \in 1 .. Len(units) + 1 /\ r.header \in (from + 1) - 1 .. Len(units)
          /\ r.read \in r.header .. Len(units)
      BY <1>1, <1>2, <2>2
    <3>2. SubSeq(units, from + 1, r.header) \o SubSeq(units, r.header + 1, r.read) = body
      BY <1>1, <3>1, ConcatAdjacentSubSeq
    <3> QED
      BY <2>2, <3>2 DEF Body
  <2> QED
    BY <2>1, <2>2
<1> HIDE DEF units, from
<1>5. /\ body \in Seq(Units) /\ Len(body) = r.read - from
      /\ \A i \in 1 .. r.read - from : body[i] = units[from + i]
  BY <1>1, <1>2, PartIs
<1>6. /\ all \in Seq(Units) /\ Len(all) = Len(units) - from
      /\ \A i \in 1 .. Len(units) - from : all[i] = units[from + i]
  BY <1>1, <1>2, PartIs, SMTT(30)
<1> HIDE DEF body, all
<1>7. IsPrefix(body, all)
  <2> DEFINE k == r.read - from
             n == Len(units) - from
  <2>1. k \in Nat /\ n \in Nat /\ k <= n
    BY <1>1, <1>2
  <2>2. \A i \in 1 .. k : body[i] = units[from + i]
    BY <1>5
  <2>3. \A i \in 1 .. n : all[i] = units[from + i]
    BY <1>6
  <2>4. Len(body) = k /\ Len(all) = n
    BY <1>5, <1>6
  <2> HIDE DEF k, n
  <2>5. \A i \in 1 .. k : body[i] = all[i]
    BY <2>1, <2>2, <2>3
  <2> QED
    BY <1>5, <1>6, <2>1, <2>4, <2>5, PrefixIs
<1>8. Len(body) >= r.response.length
  BY <1>5 DEF from
<1> QED
  BY <1>3, <1>4, <1>7, <1>8 DEF Returned, all, units

LEMMA NoHttpFetches == Fetches(NoHttp)
<1>1. /\ NoHttp.read = 0 /\ NoHttp.parsed = 0 /\ NoHttp.step = "status_line" /\ NoHttp.start
      /\ NoHttp.length = 0 /\ NoHttp.header = -1
  BY DEF NoHttp
<1> QED
  BY <1>1, NoHttpType, NewFetches

LEMMA FetchGoesOn == HttpInv /\ FetchInv /\ HttpNext => FetchInv'
<1> SUFFICES ASSUME HttpInv, FetchInv, HttpNext PROVE FetchInv'
  OBVIOUS
<1>0. http \in Http /\ Fetches(http) /\ Returned(fetched)
  BY DEF HttpInv, HttpTypeOK, FetchInv
<1>1. ASSUME HttpFails PROVE FetchInv'
  BY <1>0, <1>1, NoHttpFetches DEF HttpFails, FetchInv
<1>2. ASSUME NEW r, HttpBecomes(r), Fetches(r) PROVE FetchInv'
  BY <1>0, <1>2 DEF HttpBecomes, FetchInv
<1>3. ASSUME NEW r, HttpBecomes(r), SameProgress(r, http) PROVE FetchInv'
  BY <1>0, <1>2, <1>3, SameFetches
<1>4. CASE Fetch
  <2>1. PICK response \in Responses :
           LET r == [NoHttp EXCEPT !.conn = TRUE, !.response = response]
           IN http' = HttpConnect(r) \/ http' = [r EXCEPT !.wh = "connect", !.wtimer = TRUE]
    BY <1>4 DEF Fetch
  <2> DEFINE r == [NoHttp EXCEPT !.conn = TRUE, !.response = response]
  <2>2. r \in Http
    <3>1. NoHttp \in Http
      BY NoHttpType
    <3> HIDE DEF NoHttp
    <3> QED
      BY <3>1 DEF Http
  <2>3. Fetches(r)
    <3>1. /\ r.read = 0 /\ r.parsed = 0 /\ r.step = "status_line" /\ r.start
          /\ r.length = 0 /\ r.header = -1
      BY DEF NoHttp
    <3> HIDE DEF r
    <3> QED
      BY <2>2, <3>1, NewFetches
  <2> HIDE DEF r
  <2>4. http' = HttpConnect(r) \/ http' = [r EXCEPT !.wh = "connect", !.wtimer = TRUE]
    BY <2>1 DEF r
  <2>5. SameProgress(http', r)
    BY <2>2, <2>4 DEF SameProgress, HttpConnect, HttpEnterWrite, Http
  <2>6. Fetches(http') /\ fetched' = fetched
    BY <1>4, <2>3, <2>5, SameFetches DEF Fetch
  <2> QED
    BY <1>0, <2>6 DEF FetchInv
<1>5. CASE HttpWritePart
  <2>1. HttpBecomes([http EXCEPT !.at = "write", !.left = 1])
    BY <1>5 DEF HttpWritePart
  <2>2. SameProgress([http EXCEPT !.at = "write", !.left = 1], http)
    BY <1>0 DEF SameProgress, Http
  <2> QED
    BY <1>3, <2>1, <2>2
<1>6. CASE HttpWriteAll
  <2> DEFINE r == HttpEnterRead([http EXCEPT !.rh = "read", !.wh = "dummy", !.left = 0])
  <2>1. HttpBecomes(r)
    BY <1>6 DEF HttpWriteAll
  <2>2. SameProgress(r, http)
    BY <1>0 DEF SameProgress, HttpEnterRead, Http
  <2> QED
    BY <1>3, <2>1, <2>2
<1>7. CASE HttpWriteAgain
  <2>1. HttpBecomes([http EXCEPT !.at = "out", !.wtimer = TRUE])
    BY <1>7 DEF HttpWriteAgain
  <2>2. SameProgress([http EXCEPT !.at = "out", !.wtimer = TRUE], http)
    BY <1>0 DEF SameProgress, Http
  <2> QED
    BY <1>3, <2>1, <2>2
<1>8. CASE HttpReadAgain
  <2>1. HttpBecomes([http EXCEPT !.at = "out", !.rtimer = TRUE])
    BY <1>8 DEF HttpReadAgain
  <2>2. SameProgress([http EXCEPT !.at = "out", !.rtimer = TRUE], http)
    BY <1>0 DEF SameProgress, Http
  <2> QED
    BY <1>3, <2>1, <2>2
<1>9. CASE HttpReadable
  <2> DEFINE r == [HttpEnterRead(http) EXCEPT !.at = "got"]
  <2>1. HttpBecomes(r)
    BY <1>9 DEF HttpReadable
  <2>2. SameProgress(r, http)
    BY <1>0 DEF SameProgress, HttpEnterRead, Http
  <2> QED
    BY <1>3, <2>1, <2>2
<1>10. CASE HttpWritable
  <2>1. SameProgress(HttpConnect(http), http)
    BY <1>0 DEF SameProgress, HttpConnect, HttpEnterWrite, Http
  <2>2. SameProgress([HttpEnterWrite(http) EXCEPT !.at = "put"], http)
    BY <1>0 DEF SameProgress, HttpEnterWrite, Http
  <2> QED
    BY <1>3, <1>10, <2>1, <2>2 DEF HttpWritable
<1>11. CASE HttpReadSome
  <2>1. PICK k \in 1 .. Room :
           /\ http.read + k <= Len(http.response.units)
           /\ HttpBecomes([http EXCEPT !.at = "parse", !.read = http.read + k])
    BY <1>11 DEF HttpReadSome
  <2> DEFINE read == http.read + k
             r == [http EXCEPT !.at = "parse", !.read = read]
  <2>2. /\ r.response = http.response /\ r.read = read /\ r.parsed = http.parsed
        /\ r.step = http.step /\ r.start = http.start /\ r.length = http.length
        /\ r.bodyStart = http.bodyStart /\ r.header = http.header /\ r.size = http.size
    BY <1>0 DEF Http
  <2>3. /\ http.response.units \in Seq(Units) /\ http.read \in Nat /\ http.parsed \in Nat
        /\ http.length \in Int /\ http.bodyStart \in Nat /\ http.header \in Int
        /\ http.size \in Nat
    BY <1>0, ResponseOK
  <2>4. /\ k \in Nat /\ read = http.read + k /\ Base(http) \in Int
        /\ read - Base(http) <= http.size /\ read <= Len(http.response.units)
    BY <2>1, <2>3 DEF Room, Base
  <2> HIDE DEF r, read
  <2>5. Base(r) = Base(http)
    BY <2>2 DEF Base
  <2>6. Reads(r)
    <3>1. Reads(http)
      BY <1>0 DEF Fetches
    <3> QED
      BY <2>1, <2>2, <2>3, <2>4, <2>5, <3>1 DEF Reads
  <2>7. r.step = "status_line" => InStatusLine(r)
    BY <1>0, <2>2 DEF Fetches, InStatusLine
  <2>8. r.step = "headers" => InHeader(r)
    BY <1>0, <2>2 DEF Fetches, InHeader
  <2>9. ASSUME r.step = "body" PROVE InBody(r)
    <3>1. InBody(http)
      BY <1>0, <2>2, <2>9 DEF Fetches
    <3>2. http.header # -1 => http.size - (http.read - http.header)
                                 = http.length - (http.read - http.parsed)
      BY <3>1 DEF InBody
    <3>3. r.header # -1 => r.size - (r.read - r.header) = r.length - (r.read - r.parsed)
      <4>1. r.size - (r.read - r.header) = (http.size - (http.read - http.header)) - k
        BY <2>2, <2>3, <2>4
      <4>2. r.length - (r.read - r.parsed) = (http.length - (http.read - http.parsed)) - k
        BY <2>2, <2>3, <2>4
      <4> QED
        BY <2>2, <3>2, <4>1, <4>2
    <3>4. r.bodyStart >= 1 /\ r.bodyStart <= r.parsed
      BY <2>2, <3>1 DEF InBody
    <3>5. /\ EmptyLine(r.response.units, r.bodyStart)
          /\ \A i \in 1 .. r.bodyStart - 1 : ~EmptyLine(r.response.units, i)
          /\ r.length = r.response.length - (r.parsed - r.bodyStart)
      BY <2>2, <3>1 DEF InBody
    <3> QED
      BY <3>3, <3>4, <3>5 DEF InBody
  <2>10. Fetches(r)
    BY <2>6, <2>7, <2>8, <2>9 DEF Fetches
  <2>11. HttpBecomes(r)
    BY <2>1 DEF r, read
  <2> QED
    BY <1>2, <2>10, <2>11
<1>12. CASE HttpParseHeader
  <2>1. CASE http.parsed < http.read /\ HttpBecomes(IF http.step = "status_line" THEN ParseStatusLine(http)
                                                    ELSE ParseHeaders(http))
    <3>1. http.step \in {"status_line", "headers"}
      BY <1>0, <1>12 DEF HttpParseHeader, Http, Steps
    <3>2. CASE http.step = "status_line"
      BY <1>0, <1>2, <2>1, <3>2, StatusLineParsed
    <3>3. CASE http.step = "headers"
      BY <1>0, <1>2, <2>1, <3>3, HeadersParsed
    <3> QED
      BY <3>1, <3>2, <3>3
  <2>2. CASE HttpBecomes([http EXCEPT !.at = "read"])
    <3>1. SameProgress([http EXCEPT !.at = "read"], http)
      BY <1>0 DEF SameProgress, Http
    <3> QED
      BY <1>3, <2>2, <3>1
  <2> QED
    BY <1>1, <1>12, <2>1, <2>2 DEF HttpParseHeader
<1>13. CASE HttpParseBody
  <2> DEFINE p == ParseBody(http)
  <2>1. http.step = "body"
    BY <1>13 DEF HttpParseBody
  <2>2. /\ p.length > 0 => Fetches(p)
        /\ p.length <= 0 => http.response.length <= http.read - http.bodyStart
    BY <1>0, <2>1, BodyParsed
  <2>3. p \in Http
    BY <1>0, ParsedType
  <2>4. \/ p.length > 0 /\ HttpBecomes([p EXCEPT !.at = "read"])
        \/ HttpFails
        \/ p.length <= 0 /\ HttpDone
    BY <1>13 DEF HttpParseBody
  <2> HIDE DEF p
  <2>5. CASE p.length > 0 /\ HttpBecomes([p EXCEPT !.at = "read"])
    <3>1. SameProgress([p EXCEPT !.at = "read"], p)
      BY <2>3 DEF SameProgress, Http
    <3>2. Fetches([p EXCEPT !.at = "read"])
      BY <2>2, <2>5, <3>1, SameFetches
    <3> QED
      BY <1>2, <2>5, <3>2
  <2>6. CASE p.length <= 0 /\ HttpDone
    <3>1. http' = NoHttp /\ fetched' = [response |-> http.response, body |-> Body(http)]
      BY <2>6 DEF HttpDone
    <3>2. Returned(fetched')
      BY <1>0, <2>1, <2>2, <2>6, <3>1, BodyIs
    <3> QED
      BY <3>1, <3>2, NoHttpFetches DEF FetchInv
  <2> QED
    BY <1>1, <2>4, <2>5, <2>6
<1>14. CASE HttpWriteFails \/ HttpReadFails \/ HttpReadTimeout \/ HttpWriteTimeout
  BY <1>1, <1>14 DEF HttpWriteFails, HttpReadFails, HttpReadTimeout, HttpWriteTimeout
<1> QED
  BY <1>4, <1>5, <1>6, <1>7, <1>8, <1>9, <1>10, <1>11, <1>12, <1>13, <1>14
  DEF HttpNext, HttpHandler

-----------------------------------------------------------------------------
(* Files                                                                    *)

\* The call on h the script waits in, or "none".
FileCallOn(h) == IF vm \in FileWaitings /\ vm.on = h THEN vm.call ELSE "none"

\* The handle f of which the script waits for call, in a session that has ended
\* or not: a transfer without a script that waits for it is one of a session that
\* has ended.
FileFits(f, call, ended) ==
    /\ f.udata = "held" => f.ctx = "live" /\ (~ended => f.thr)
    /\ f.thr <=> f.cln
    /\ ended => ~f.cln /\ call = "none"
    /\ f.aio # "none" => ended \/ (f.udata = "held" /\ call = f.aio)
    /\ call # "none" => f.aio = call /\ f.thr
    /\ f.ctx # "live" => ~f.fd /\ f.udata = "none"

\* What the kernel was asked to transfer for f lay in the file as it was then.
Spans(f) ==
    /\ f.aio # "none" => 0 <= f.offset /\ f.offset <= f.eof
    /\ f.aio = "fread" => f.size <= f.in.units /\ f.offset + f.size <= f.eof
    /\ f.aio = "fwrite" => f.size <= f.out.units

FileInv ==
    /\ file \in [Files -> FileCtx] /\ length \in Nat
    /\ \A h \in Files : FileFits(file[h], FileCallOn(h), vm = Ended) /\ Spans(file[h])

LEMMA MaxOfTwo ==
    ASSUME NEW a \in Int, NEW b \in Int
    PROVE  Max({a, b}) \in Int /\ Max({a, b}) >= a /\ Max({a, b}) >= b
<1>1. \E x \in {a, b} : \A y \in {a, b} : x >= y
  BY SMT
<1> QED
  BY <1>1 DEF Max

\* A buffer that was chosen for n units was made for as many.
LEMMA GrownFits ==
    ASSUME NEW b \in Buffer, NEW n \in Int
    PROVE  Grown(b, n) \in Buffer /\ n <= Grown(b, n).units
<1> DEFINE units == Max({FilePage, n})
<1>1. units \in Int /\ units >= FilePage /\ units >= n
  BY MaxOfTwo, FileAssumption
<1> HIDE DEF units
<1>2. CASE Suffices(b, n)
  BY <1>2 DEF Suffices, Grown, Buffer
<1>3. CASE ~Suffices(b, n)
  <2>1. Grown(b, n) = [units |-> units, live |-> TRUE]
    BY <1>3 DEF Grown, units
  <2>2. units \in Nat
    BY <1>1, FileAssumption
  <2> QED
    BY <1>1, <2>1, <2>2 DEF Buffer
<1> QED
  BY <1>2, <1>3

LEMMA ExtendedIsLength ==
    ASSUME length \in Nat, NEW f \in FileCtx, NEW n \in Int
    PROVE  Extended(f, n) \in Nat
<1> DEFINE end == WritesAt(f) + n
<1>1. length \in Int /\ end \in Int
  BY DEF WritesAt, FileCtx
<1> HIDE DEF end
<1>2. Max({length, end}) \in Int /\ Max({length, end}) >= length
  BY <1>1, MaxOfTwo
<1>3. Extended(f, n) = IF n = 0 THEN length ELSE Max({length, end})
  BY DEF Extended, end
<1> HIDE DEF Max
<1> QED
  BY <1>2, <1>3

LEMMA FileBegins == FileInit /\ vm = Running => FileInv
<1> SUFFICES ASSUME FileInit, vm = Running PROVE FileInv
  OBVIOUS
<1>1. \A h \in Files : FileCallOn(h) = "none"
  BY Distinct DEF FileCallOn
<1>2. NoFile \in FileCtx /\ FileFits(NoFile, "none", FALSE) /\ Spans(NoFile)
  BY DEF NoFile, NoBuffer, Buffer, FileCtx, FileFits, Spans
<1>3. (vm = Ended) = FALSE
  BY Distinct
<1>4. length \in Nat
  BY FileAssumption DEF FileInit
<1> HIDE DEF NoFile
<1> QED
  BY <1>1, <1>2, <1>3, <1>4 DEF FileInit, FileInv

LEMMA FileStays == FileInv /\ UNCHANGED fileVars /\ Apart(FileWaitings) => FileInv'
<1> SUFFICES ASSUME FileInv, UNCHANGED fileVars, Apart(FileWaitings)
             PROVE  FileInv'
  OBVIOUS
<1>1. \A h \in Files : FileCallOn(h)' = FileCallOn(h)
  BY DEF Apart, FileCallOn
<1>2. (vm' = Ended) = (vm = Ended)
  BY DEF Apart
<1>3. file' = file /\ length' = length
  BY DEF fileVars
<1> QED
  BY <1>1, <1>2, <1>3 DEF FileInv

\* A step that makes f of handle h and nothing of the others.
LEMMA FileOne ==
    ASSUME FileInv, NEW h \in Files, NEW f \in FileCtx, FileBecomes(h, f),
           Turns({w \in FileWaitings : w.on = h}),
           FileFits(f, FileCallOn(h)', vm' = Ended),
           length' \in Nat, Spans(f)
    PROVE  FileInv' /\ Turns(FileWaitings)
<1>1. Turns(FileWaitings)
  BY DEF Turns
<1>2. file' \in [Files -> FileCtx] /\ file'[h] = f
         /\ \A g \in Files \ {h} : file'[g] = file[g]
  BY DEF FileInv, FileBecomes
<1>3. ASSUME NEW g \in Files \ {h}
      PROVE  FileFits(file'[g], FileCallOn(g)', vm' = Ended) /\ Spans(file'[g])
  <2>1. FileCallOn(g)' = FileCallOn(g)
    BY <1>3, Distinct DEF Turns, FileCallOn
  <2>2. (vm' = Ended) = (vm = Ended)
    BY Distinct DEF Turns
  <2>3. FileFits(file[g], FileCallOn(g), vm = Ended) /\ file'[g] = file[g]
    BY <1>2 DEF FileInv
  <2>4. Spans(file[g])
    BY DEF FileInv, Spans, FileCtx
  <2> QED
    BY <2>1, <2>2, <2>3, <2>4
<1> QED
  BY <1>1, <1>2, <1>3 DEF FileInv

LEMMA FileReturns ==
    ASSUME FileInv, NEW h \in Files, NEW f \in FileCtx, FileBecomes(h, f), vm' = vm,
           FileFits(f, FileCallOn(h), vm = Ended),
           length' \in Nat, Spans(f)
    PROVE  FileInv' /\ Turns(FileWaitings)
<1>1. FileCallOn(h)' = FileCallOn(h) /\ (vm' = Ended) = (vm = Ended)
  BY DEF FileCallOn
<1> QED
  BY <1>1, FileOne DEF Turns

LEMMA FileSuspends ==
    ASSUME FileInv, NEW h \in Files, NEW f \in FileCtx, FileBecomes(h, f), vm = Running,
           NEW c \in {"fread", "fwrite"}, vm' = [call |-> c, on |-> h],
           FileFits(f, c, FALSE), length' = length, Spans(f)
    PROVE  FileInv' /\ Turns(FileWaitings)
<1>1. vm' \in FileWaitings /\ vm'.on = h /\ vm'.call = c
  BY DEF FileWaitings
<1>2. FileCallOn(h)' = c /\ (vm' = Ended) = FALSE
  BY <1>1, Distinct DEF FileCallOn
<1>3. Turns({w \in FileWaitings : w.on = h})
  BY <1>1 DEF Turns
<1>4. length' \in Nat
  BY DEF FileInv
<1> QED
  BY <1>2, <1>3, <1>4, FileOne

LEMMA FileResumes ==
    ASSUME FileInv, NEW h \in Files, NEW f \in FileCtx, FileBecomes(h, f),
           FileCallOn(h) # "none", vm' = Running, FileFits(f, "none", FALSE),
           length' \in Nat, Spans(f)
    PROVE  FileInv' /\ Turns(FileWaitings)
<1>1. vm \in FileWaitings /\ vm.on = h
  BY DEF FileCallOn
<1>2. FileCallOn(h)' = "none" /\ (vm' = Ended) = FALSE
  BY Distinct DEF FileCallOn
<1>3. Turns({w \in FileWaitings : w.on = h})
  BY <1>1 DEF Turns
<1> QED
  BY <1>2, <1>3, FileOne

\* A script that runs waits for no file, and nothing is transferred for what it
\* holds.
LEMMA FileFree ==
    ASSUME FileInv, NEW h \in Files, vm = Running
    PROVE  /\ FileCallOn(h) = "none" /\ (vm = Ended) = FALSE
           /\ file[h] \in FileCtx /\ FileFits(file[h], "none", FALSE) /\ file[h].aio = "none"
<1>1. FileCallOn(h) = "none" /\ (vm = Ended) = FALSE
  BY Distinct DEF FileCallOn
<1>2. file[h] \in FileCtx /\ FileFits(file[h], FileCallOn(h), vm = Ended)
  BY DEF FileInv
<1> QED
  BY <1>1, <1>2 DEF FileFits, FileCtx

\* So a call that returns leaves nothing to transfer behind.
LEMMA FileAnswers ==
    ASSUME FileInv, NEW h \in Files, NEW f \in FileCtx, FileBecomes(h, f),
           vm = Running, vm' = vm, FileFits(f, "none", FALSE), f.aio = "none",
           length' \in Nat
    PROVE  FileInv' /\ Turns(FileWaitings)
<1>1. FileCallOn(h) = "none" /\ (vm = Ended) = FALSE
  BY FileFree
<1>2. Spans(f)
  BY DEF Spans
<1> QED
  BY <1>1, <1>2, FileReturns

LEMMA FileOpens ==
    ASSUME FileInv, NEW h \in Files,
           FileOpen(h) \/ FileOpenFails(h) \/ FileClose(h) \/ FileDrop(h)
    PROVE  FileInv' /\ Turns(FileWaitings)
<1>l. length' \in {0, length}
  BY DEF FileOpen, FileOpenFails, FileClose, FileDrop
<1>v. vm = Running /\ vm' = vm
  BY DEF FileOpen, FileOpenFails, FileClose, FileDrop, HoldsFile
<1>n. length \in Nat
  BY DEF FileInv
<1>1. vm = Running /\ vm' = vm /\ length' \in Nat
  BY <1>l, <1>v, <1>n
<1>2. /\ FileCallOn(h) = "none" /\ (vm = Ended) = FALSE
      /\ file[h] \in FileCtx /\ FileFits(file[h], "none", FALSE) /\ file[h].aio = "none"
  BY <1>1, FileFree
<1>3. ASSUME NEW f \in FileCtx, FileBecomes(h, f), FileFits(f, "none", FALSE), f.aio = "none"
      PROVE  FileInv' /\ Turns(FileWaitings)
  BY <1>1, <1>3, FileAnswers
<1>a. NoFile \in FileCtx /\ FileFits(NoFile, "none", FALSE) /\ NoFile.aio = "none"
  BY DEF NoFile, NoBuffer, Buffer, FileCtx, FileFits
<1> HIDE DEF NoFile
<1>4. CASE FileOpen(h)
  <2>1. PICK append \in BOOLEAN :
           FileBecomes(h, [NoFile EXCEPT !.ctx = "live", !.thr = TRUE, !.cln = TRUE,
                                         !.udata = "held", !.fd = TRUE,
                                         !.append = append])
    BY <1>4 DEF FileOpen
  <2> DEFINE f == [NoFile EXCEPT !.ctx = "live", !.thr = TRUE, !.cln = TRUE,
                                 !.udata = "held", !.fd = TRUE, !.append = append]
  <2>2. f \in FileCtx /\ FileFits(f, "none", FALSE) /\ f.aio = "none"
    BY <1>a DEF FileCtx, FileFits
  <2> QED
    BY <1>3, <2>1, <2>2
<1>5. CASE FileOpenFails(h)
  <2>1. PICK registered \in BOOLEAN :
           FileBecomes(h, [NoFile EXCEPT !.ctx = "live", !.udata = "dropped",
                                         !.thr = registered, !.cln = registered])
    BY <1>5 DEF FileOpenFails
  <2> DEFINE f == [NoFile EXCEPT !.ctx = "live", !.udata = "dropped",
                                 !.thr = registered, !.cln = registered]
  <2>a. NoFile.fd = FALSE
    BY DEF NoFile
  <2>2. f \in FileCtx /\ FileFits(f, "none", FALSE) /\ f.aio = "none"
    BY <1>a, <2>a DEF FileCtx, FileFits
  <2> QED
    BY <1>3, <2>1, <2>2
<1>6. CASE FileClose(h)
  <2> DEFINE f == [file[h] EXCEPT !.fd = FALSE]
  <2>1. f \in FileCtx /\ FileFits(f, "none", FALSE) /\ f.aio = "none"
    BY <1>2 DEF FileCtx, FileFits
  <2> QED
    BY <1>3, <1>6, <2>1 DEF FileClose
<1>7. CASE FileDrop(h)
  <2> DEFINE f == [file[h] EXCEPT !.udata = "dropped"]
  <2>1. f \in FileCtx /\ FileFits(f, "none", FALSE) /\ f.aio = "none"
    BY <1>2, <1>7 DEF FileCtx, FileFits, FileDrop, HoldsFile
  <2> QED
    BY <1>3, <1>7, <2>1 DEF FileDrop
<1> QED
  BY <1>4, <1>5, <1>6, <1>7

\* The call is refused or ends at once, or the kernel is asked for what is there.
LEMMA FileReads ==
    ASSUME FileInv, NEW h \in Files, FileRead(h)
    PROVE  FileInv' /\ Turns(FileWaitings)
<1>1. vm = Running /\ file[h].udata = "held" /\ length' = length /\ length \in Nat
  BY DEF FileRead, HoldsFile, FileInv
<1>2. /\ FileCallOn(h) = "none" /\ (vm = Ended) = FALSE
      /\ file[h] \in FileCtx /\ FileFits(file[h], "none", FALSE) /\ file[h].aio = "none"
  BY <1>1, FileFree
<1>3. PICK o \in FileArguments, z \in FileArguments :
          LET f == ReadArguments(file[h], o, z)
              g == [f EXCEPT !.in = Grown(f.in, f.size)]
          IN \/ /\ ReadRefused(f) /\ FileBecomes(h, f) /\ UNCHANGED vm
             \/ /\ ~ReadRefused(f)
                /\ \/ /\ ~Suffices(f.in, f.size)
                      /\ FileBecomes(h, [f EXCEPT !.in = NotGrown(f.in)]) /\ UNCHANGED vm
                   \/ \E n \in 0 .. g.size :
                         FileBecomes(h, Transferred(g, n)) /\ UNCHANGED vm
                   \/ FileBecomes(h, Asked(g, "fread")) /\ Suspend("fread", h)
  BY DEF FileRead
<1> DEFINE f == ReadArguments(file[h], o, z)
           g == [f EXCEPT !.in = Grown(f.in, f.size)]
           lost == [f EXCEPT !.in = NotGrown(f.in)]
           asked == Asked(g, "fread")
           Idles(x) == x \in FileCtx /\ FileFits(x, "none", FALSE) /\ x.aio = "none"
<1>4. Idles(f) /\ f.udata = "held" /\ f.thr
  <2> DEFINE offset == Given(o, file[h].offset)
             size == Given(z, length - offset)
  <2>1. file[h].offset \in Int
    BY <1>2 DEF FileCtx
  <2>2. offset \in Int
    BY <2>1, FileAssumption DEF Given, FileArguments
  <2>3. size \in Int
    BY <1>1, <2>2, FileAssumption DEF Given, FileArguments
  <2>4. f = [file[h] EXCEPT !.offset = offset, !.size = size]
    BY DEF ReadArguments
  <2> HIDE DEF f, offset, size
  <2> QED
    BY <1>1, <1>2, <2>2, <2>3, <2>4 DEF FileCtx, FileFits
<1> HIDE DEF f
<1>a. Idles(lost)
  <2>1. NotGrown(f.in) \in Buffer
    BY <1>4 DEF NotGrown, Buffer, FileCtx
  <2> QED
    BY <1>4, <2>1 DEF FileCtx, FileFits
<1>5. Grown(f.in, f.size) \in Buffer /\ f.size <= Grown(f.in, f.size).units
  BY <1>4, GrownFits DEF FileCtx
<1>6. Idles(g) /\ g.udata = "held" /\ g.thr /\ g.size <= g.in.units /\ g.size = f.size
        /\ g.offset = f.offset
  BY <1>4, <1>5 DEF FileCtx, FileFits
<1>7. ASSUME NEW x, Idles(x), FileBecomes(h, x), vm' = vm
      PROVE  FileInv' /\ Turns(FileWaitings)
  <2>1. length' \in Nat
    BY <1>1
  <2> QED
    BY <1>1, <1>7, <2>1, FileAnswers
<1> HIDE DEF g, lost
<1>8. ASSUME NEW n \in 0 .. g.size PROVE Idles(Transferred(g, n))
  <2>1. g.offset + n \in Int
    BY <1>6 DEF FileCtx
  <2> QED
    BY <1>6, <2>1 DEF Transferred, FileCtx, FileFits
<1>9. CASE ~ReadRefused(f) /\ FileBecomes(h, asked) /\ vm' = [call |-> "fread", on |-> h]
  <2>1. asked \in FileCtx /\ FileFits(asked, "fread", FALSE)
    BY <1>1, <1>6 DEF Asked, FileCtx, FileFits
  <2>2. f.offset \in Int /\ f.size \in Int
    BY <1>4 DEF FileCtx
  <2>3. 0 <= f.offset /\ f.offset <= length /\ f.offset + f.size <= length
    BY <1>1, <1>9, <2>2 DEF ReadRefused
  <2>4. asked.offset = f.offset /\ asked.size = f.size /\ asked.in = g.in
          /\ asked.eof = length /\ asked.aio = "fread"
    BY <1>6 DEF Asked, FileCtx
  <2>5. Spans(asked)
    BY <1>6, <2>3, <2>4 DEF Spans
  <2> HIDE DEF asked
  <2> QED
    BY <1>1, <1>9, <2>1, <2>5, FileSuspends
<1> QED
  BY <1>3, <1>4, <1>a, <1>6, <1>7, <1>8, <1>9 DEF f, g, lost, Suspend

LEMMA FileWrites ==
    ASSUME FileInv, NEW h \in Files, FileWrite(h)
    PROVE  FileInv' /\ Turns(FileWaitings)
<1>1. vm = Running /\ file[h].udata = "held" /\ length \in Nat
  BY DEF FileWrite, HoldsFile, FileInv
<1>2. /\ FileCallOn(h) = "none" /\ (vm = Ended) = FALSE
      /\ file[h] \in FileCtx /\ FileFits(file[h], "none", FALSE) /\ file[h].aio = "none"
  BY <1>1, FileFree
<1>3. PICK o \in FileArguments, size \in 0 .. FileMax :
          LET f == [file[h] EXCEPT !.offset = Given(o, file[h].offset), !.size = size]
              g == [f EXCEPT !.out = Grown(f.out, size)]
              refused == f.offset < 0 \/ f.offset > length
          IN \/ refused /\ FileBecomes(h, f) /\ UNCHANGED <<length, vm>>
             \/ /\ ~refused
                /\ \/ /\ ~Suffices(f.out, size)
                      /\ FileBecomes(h, [f EXCEPT !.out = NotGrown(f.out)])
                      /\ UNCHANGED <<length, vm>>
                   \/ \E n \in 0 .. size :
                         /\ FileBecomes(h, Transferred(g, n))
                         /\ length' = Extended(g, n) /\ UNCHANGED vm
                   \/ /\ FileBecomes(h, Asked(g, "fwrite"))
                      /\ Suspend("fwrite", h) /\ UNCHANGED length
  BY DEF FileWrite
<1> DEFINE offset == Given(o, file[h].offset)
           f == [file[h] EXCEPT !.offset = offset, !.size = size]
           g == [f EXCEPT !.out = Grown(f.out, size)]
           lost == [f EXCEPT !.out = NotGrown(f.out)]
           asked == Asked(g, "fwrite")
           Idles(x) == x \in FileCtx /\ FileFits(x, "none", FALSE) /\ x.aio = "none"
<1>4. Idles(f) /\ f.udata = "held" /\ f.thr /\ f.offset = offset /\ f.size = size /\ size \in Int
  <2>1. offset \in Int /\ size \in Int
    BY <1>2, FileAssumption DEF Given, FileArguments, FileCtx
  <2> HIDE DEF offset
  <2> QED
    BY <1>1, <1>2, <2>1 DEF FileCtx, FileFits
<1> HIDE DEF f
<1>a. Idles(lost)
  <2>1. NotGrown(f.out) \in Buffer
    BY <1>4 DEF NotGrown, Buffer, FileCtx
  <2> QED
    BY <1>4, <2>1 DEF FileCtx, FileFits
<1>5. Grown(f.out, size) \in Buffer /\ size <= Grown(f.out, size).units
  BY <1>4, GrownFits DEF FileCtx
<1>6. Idles(g) /\ g.udata = "held" /\ g.thr /\ size <= g.out.units /\ g.size = size
        /\ g.offset = offset
  BY <1>4, <1>5 DEF FileCtx, FileFits
<1>7. ASSUME NEW x, Idles(x), FileBecomes(h, x), vm' = vm, length' \in Nat
      PROVE  FileInv' /\ Turns(FileWaitings)
  BY <1>1, <1>7, FileAnswers
<1> HIDE DEF g, lost
<1>8. ASSUME NEW n \in 0 .. size
      PROVE  Idles(Transferred(g, n)) /\ Extended(g, n) \in Nat
  <2>1. n \in Int /\ g.offset + n \in Int
    BY <1>4, <1>6 DEF FileCtx
  <2>2. Extended(g, n) \in Nat
    BY <1>1, <1>6, <2>1, ExtendedIsLength
  <2>3. Idles(Transferred(g, n))
    BY <1>6, <2>1 DEF Transferred, FileCtx, FileFits
  <2> QED
    BY <2>2, <2>3
<1>9. CASE ~(f.offset < 0 \/ f.offset > length) /\ FileBecomes(h, asked)
           /\ vm' = [call |-> "fwrite", on |-> h] /\ length' = length
  <2>1. asked \in FileCtx /\ FileFits(asked, "fwrite", FALSE)
    BY <1>1, <1>6 DEF Asked, FileCtx, FileFits
  <2>2. f.offset \in Int
    BY <1>4 DEF FileCtx
  <2>3. asked.offset = f.offset /\ asked.size = size /\ asked.out = g.out
          /\ asked.eof = length /\ asked.aio = "fwrite"
    BY <1>4, <1>6 DEF Asked, FileCtx
  <2>4. Spans(asked)
    BY <1>1, <1>6, <1>9, <2>2, <2>3 DEF Spans
  <2> HIDE DEF asked
  <2> QED
    BY <1>1, <1>9, <2>1, <2>4, FileSuspends
<1>10. length' = length => length' \in Nat
  BY <1>1
<1> HIDE DEF Idles
<1>11. \/ (FileBecomes(h, f) \/ FileBecomes(h, lost)) /\ vm' = vm /\ length' = length
       \/ \E n \in 0 .. size : FileBecomes(h, Transferred(g, n)) /\ vm' = vm /\ length' = Extended(g, n)
       \/ ~(f.offset < 0 \/ f.offset > length) /\ FileBecomes(h, asked)
            /\ vm' = [call |-> "fwrite", on |-> h] /\ length' = length
  BY <1>3 DEF f, g, lost, Suspend
<1> QED
  BY <1>4, <1>a, <1>7, <1>8, <1>9, <1>10, <1>11

\* A transfer that is complete resumes the script that waits for it, if its
\* session has not ended.
LEMMA FileCompletes ==
    ASSUME FileInv, NEW h \in Files, FileReadDone(h) \/ FileWriteDone(h)
    PROVE  FileInv' /\ Turns(FileWaitings)
<1> DEFINE s == file[h]
           call == FileCallOn(h)
           ended == (vm = Ended)
           idle == [s EXCEPT !.eof = 0, !.aio = "none"]
<1>1. s \in FileCtx /\ FileFits(s, call, ended) /\ length \in Nat /\ s.aio # "none"
  BY DEF FileInv, FileReadDone, FileWriteDone
<1>2. PICK n \in Int :
           /\ FileWakes(h, Transferred(s, n))
           /\ length' \in Nat
  <2>1. CASE FileReadDone(h)
    <3>1. s.size \in Int /\ length' = length
      BY <1>1, <2>1 DEF FileCtx, FileReadDone
    <3> QED
      BY <1>1, <2>1, <3>1 DEF FileReadDone
  <2>2. CASE FileWriteDone(h)
    <3>1. PICK n \in 0 .. s.size : FileWakes(h, Transferred(s, n)) /\ length' = Extended(s, n)
      BY <2>2 DEF FileWriteDone
    <3>2. n \in Int /\ s.offset + n \in Int
      BY <1>1 DEF FileCtx
    <3>4. length' \in Nat
      BY <1>1, <3>1, <3>2, ExtendedIsLength
    <3> QED
      BY <3>1, <3>2, <3>4
  <2> QED
    BY <2>1, <2>2
<1>3. CASE s.thr
  <2> DEFINE done == Transferred(s, n)
  <2>1. call # "none" /\ ended = FALSE
    BY <1>1, <1>3 DEF FileFits
  <2>2. s.offset + n \in Int
    BY <1>1, <1>2 DEF FileCtx
  <2>a. done.thr = s.thr
    BY <1>1 DEF Transferred, FileCtx
  <2>3. done \in FileCtx /\ FileFits(done, "none", FALSE) /\ done.aio = "none"
    BY <1>1, <2>1, <2>2 DEF Transferred, FileCtx, FileFits
  <2> HIDE DEF done
  <2>4. FileBecomes(h, done) /\ vm' = Running
    BY <1>2, <1>3, <2>a DEF FileWakes, Resume, done
  <2>5. Spans(done)
    BY <2>3 DEF Spans
  <2> QED
    BY <1>2, <2>1, <2>3, <2>4, <2>5, FileResumes
<1>4. CASE ~s.thr
  <2>1. idle \in FileCtx /\ FileFits(idle, call, ended) /\ idle.aio = "none"
    BY <1>1, <1>4 DEF FileCtx, FileFits
  <2>a. Transferred(s, n).thr = s.thr
    BY <1>1 DEF Transferred, FileCtx
  <2>2. FileBecomes(h, idle) /\ vm' = vm
    BY <1>2, <1>4, <2>a DEF FileWakes
  <2> HIDE DEF idle
  <2>3. Spans(idle)
    BY <2>1 DEF Spans
  <2> QED
    BY <1>2, <2>1, <2>2, <2>3, FileReturns
<1> QED
  BY <1>3, <1>4

LEMMA FileCollected ==
    ASSUME FileInv, NEW h \in Files, FileGc(h)
    PROVE  FileInv' /\ Turns(FileWaitings)
<1> DEFINE f == [file[h] EXCEPT !.ctx = "freed", !.udata = "none", !.fd = FALSE]
<1>1. file[h] \in FileCtx /\ FileFits(file[h], FileCallOn(h), vm = Ended)
         /\ Spans(file[h]) /\ length \in Nat
  BY DEF FileInv
<1>2. file[h].udata = "dropped" /\ FileBecomes(h, f) /\ vm' = vm /\ length' = length
  BY DEF FileGc
<1>3. f \in FileCtx /\ FileFits(f, FileCallOn(h), vm = Ended)
  BY <1>1, <1>2 DEF FileCtx, FileFits
<1>4. Spans(f)
  BY <1>1 DEF Spans, FileCtx
<1> HIDE DEF f
<1>5. length' \in Nat
  BY <1>1, <1>2
<1> QED
  BY <1>2, <1>3, <1>4, <1>5, FileReturns

\* Whoever changes the file changes no handle: what was asked for is asked for.
LEMMA FileChanges ==
    ASSUME FileInv, FileElsewhere
    PROVE  FileInv' /\ Turns(FileWaitings)
<1>1. length' \in Nat /\ file' = file /\ vm' = vm
  BY FileAssumption DEF FileElsewhere
<1>2. \A h \in Files : FileCallOn(h)' = FileCallOn(h)
  BY <1>1 DEF FileCallOn
<1> QED
  BY <1>1, <1>2 DEF FileInv, Turns

LEMMA FileSteps == FileInv /\ FileNext => FileInv' /\ Turns(FileWaitings)
BY FileOpens, FileReads, FileWrites, FileCompletes, FileCollected, FileChanges DEF FileNext

LEMMA FileCleaned == FileInv /\ FileCleanup /\ vm # Ended /\ vm' = Ended => FileInv'
<1> SUFFICES ASSUME FileInv, FileCleanup, vm # Ended, vm' = Ended PROVE FileInv'
  OBVIOUS
<1>1. ASSUME NEW h \in Files
      PROVE  /\ file'[h] \in FileCtx /\ FileFits(file'[h], FileCallOn(h)', vm' = Ended)
             /\ Spans(file'[h])
  <2> DEFINE s == file[h]
             left == [s EXCEPT !.thr = IF s.cln THEN FALSE ELSE s.thr,
                               !.cln = FALSE,
                               !.udata = IF s.udata = "held" THEN "dropped" ELSE s.udata]
  <2>1. s \in FileCtx /\ FileFits(s, FileCallOn(h), vm = Ended) /\ Spans(s)
    BY DEF FileInv
  <2>2. left \in FileCtx /\ FileFits(left, "none", TRUE)
    BY <2>1 DEF FileCtx, FileFits
  <2>3. Spans(left)
    BY <2>1 DEF Spans, FileCtx
  <2>4. file'[h] = left
    BY DEF FileCleanup
  <2>5. FileCallOn(h)' = "none" /\ (vm' = Ended) = TRUE
    BY Distinct DEF FileCallOn
  <2> QED
    BY <2>2, <2>3, <2>4, <2>5
<1>2. file' \in [Files -> FileCtx] /\ length' = length /\ length \in Nat
  BY <1>1 DEF FileCleanup, FileInv
<1> QED
  BY <1>1, <1>2 DEF FileInv

-----------------------------------------------------------------------------
(* The session                                                              *)

IInv == VmOK /\ SocketInv /\ MailInv /\ HttpInv /\ FileInv

\* What turns the VM for one object is of no concern to the others.
LEMMA TurnsApart ==
    ASSUME VmOK, NEW own, NEW other, Turns(own), own \cap other = {},
           Running \notin other, Ended \notin own, Running # Ended
    PROVE  Apart(other)
BY DEF Turns, Apart

LEMMA TurnsOK ==
    ASSUME VmOK, NEW own, Turns(own),
           own \subseteq SocketWaits \cup MailWaits \cup HttpWaits \cup FileWaitings
    PROVE  VmOK'
BY DEF Turns, VmOK

LEMMA Untouched ==
    ASSUME IInv, UNCHANGED vars
    PROVE  IInv'
<1>1. VmOK' /\ vm' = vm
  BY DEF IInv, VmOK, vars
<1>2. \A waits : Apart(waits)
  BY <1>1 DEF Apart
<1>3. UNCHANGED <<sock, smtpVars, httpVars, fileVars>>
  BY DEF vars
<1> QED
  BY <1>1, <1>2, <1>3, SocketStays, MailStays, HttpStays, FileStays DEF IInv

LEMMA IInvInductive == IInv /\ [Next]_vars => IInv'
<1> SUFFICES ASSUME IInv, [Next]_vars PROVE IInv'
  OBVIOUS
<1>1. VmOK /\ SocketInv /\ MailInv /\ HttpInv /\ FileInv
  BY DEF IInv
<1>2. CASE SocketStep
  <2>1. SocketNext /\ UNCHANGED <<smtpVars, httpVars, fileVars>>
    BY <1>2 DEF SocketStep, SocketsOnly
  <2>2. SocketInv' /\ Turns(SocketWaits)
    BY <1>1, <2>1, SocketSteps
  <2>3. VmOK' /\ Apart(MailWaits) /\ Apart(HttpWaits) /\ Apart(FileWaitings)
    BY <1>1, <2>2, Distinct, TurnsApart, TurnsOK
  <2> QED
    BY <1>1, <2>1, <2>2, <2>3, MailStays, HttpStays, FileStays DEF IInv
<1>3. CASE SmtpStep
  <2>1. SmtpNext /\ UNCHANGED <<sock, httpVars, fileVars>>
    BY <1>3 DEF SmtpStep, MailOnly
  <2>2. MailInv' /\ Turns(MailWaits)
    BY <1>1, <2>1, MailSteps
  <2>3. VmOK' /\ Apart(SocketWaits) /\ Apart(HttpWaits) /\ Apart(FileWaitings)
    BY <1>1, <2>2, Distinct, TurnsApart, TurnsOK
  <2> QED
    BY <1>1, <2>1, <2>2, <2>3, SocketStays, HttpStays, FileStays DEF IInv
<1>4. CASE HttpStep
  <2>1. HttpNext /\ UNCHANGED <<sock, smtpVars, fileVars>>
    BY <1>4 DEF HttpStep, HttpOnly
  <2>2. HttpInv' /\ Turns(HttpWaits)
    BY <1>1, <2>1, HttpSteps
  <2>3. VmOK' /\ Apart(SocketWaits) /\ Apart(MailWaits) /\ Apart(FileWaitings)
    BY <1>1, <2>2, Distinct, TurnsApart, TurnsOK
  <2> QED
    BY <1>1, <2>1, <2>2, <2>3, SocketStays, MailStays, FileStays DEF IInv
<1>5. CASE FileStep
  <2>1. FileNext /\ UNCHANGED <<sock, smtpVars, httpVars>>
    BY <1>5 DEF FileStep, FilesOnly
  <2>2. FileInv' /\ Turns(FileWaitings)
    BY <1>1, <2>1, FileSteps
  <2>3. VmOK' /\ Apart(SocketWaits) /\ Apart(MailWaits) /\ Apart(HttpWaits)
    BY <1>1, <2>2, Distinct, TurnsApart, TurnsOK
  <2> QED
    BY <1>1, <2>1, <2>2, <2>3, SocketStays, MailStays, HttpStays DEF IInv
<1>6. CASE SessionEnds
  <2>1. vm # Ended /\ vm' = Ended /\ SocketCleanup /\ SmtpCleanup /\ HttpCleanup /\ FileCleanup
    BY <1>6 DEF SessionEnds
  <2>2. VmOK'
    BY <2>1 DEF VmOK
  <2> QED
    BY <1>1, <2>1, <2>2, SocketCleaned, MailCleaned, HttpCleaned, FileCleaned DEF IInv
<1>7. CASE UNCHANGED vars
  BY <1>7, Untouched
<1> QED
  BY <1>2, <1>3, <1>4, <1>5, <1>6, <1>7 DEF Next

\* The invariant of the script's objects: the VM waits in a call of one of them or
\* in none, and each of them fits what the VM waits for.
THEOREM ObjectsInvariant == Spec => []IInv
<1>1. Init => IInv
  <2> SUFFICES ASSUME Init PROVE IInv
    OBVIOUS
  <2>1. vm = Running /\ SocketInit /\ SmtpInit /\ HttpInit /\ FileInit
    BY DEF Init
  <2> QED
    BY <2>1, SocketBegins, MailBegins, HttpBegins, FileBegins DEF IInv, VmOK
<1> QED
  BY <1>1, IInvInductive, PTL DEF Spec

-----------------------------------------------------------------------------
(* What follows from it                                                     *)

\* The wait of the VM is on an object by whose name it is known.
LEMMA WaitOf ==
    ASSUME VmOK
    PROVE  /\ \A h \in Handles : WaitsOn(h) => vm \in SocketWaits
           /\ WaitsOn("mail") <=> vm \in MailWaits
           /\ WaitsOn("http") <=> vm \in HttpWaits
           /\ \A w \in SocketWaits : w.on \in Handles
           /\ \A w \in FileWaitings : w.on \in Files
<1>1. vm \in {Running, Ended} => vm.call \in {"run", "ended"}
  BY DEF Running, Ended
<1>2. vm \in SocketWaits => vm.on \in Handles /\ vm.call \notin {"run", "ended"}
  BY DEF SocketWaits
<1>3. vm \in MailWaits => vm.on = "mail" /\ vm.call \notin {"run", "ended"}
  BY DEF MailWaits
<1>4. vm \in HttpWaits => vm.on = "http" /\ vm.call \notin {"run", "ended"}
  BY DEF HttpWaits
<1>5. vm \in FileWaitings => vm.on \in Files /\ vm.call \notin {"run", "ended"}
  BY DEF FileWaitings
<1>6. /\ \A w \in SocketWaits : w.on \in Handles
      /\ \A w \in FileWaitings : w.on \in Files
  BY DEF SocketWaits, FileWaitings
<1> QED
  BY <1>1, <1>2, <1>3, <1>4, <1>5, <1>6, ObjectsAssumption DEF VmOK, WaitsOn

LEMMA SocketsWake == IInv => SocketWakes
<1> SUFFICES ASSUME IInv, NEW h \in Handles
             PROVE  LET s == sock[h]
                    IN /\ s.thr /\ s.ctx = "live" =>
                             /\ s.wh = "connect" <=> WaitsIn("connect", h)
                             /\ s.wh = "write" <=> WaitsIn("send", h)
                             /\ s.rh # "dummy" <=> WaitsIn("recv", h)
                       /\ WaitsOn(h) => s.thr /\ s.ctx = "live" /\ (s.wtimer \/ s.rtimer)
  BY DEF SocketWakes
<1>1. Fits(sock[h], CallOn(h), vm = Ended) /\ VmOK
  BY DEF IInv, SocketInv
<1>2. \A c \in SocketCalls : WaitsIn(c, h) <=> CallOn(h) = c
  <2>1. \A c \in SocketCalls : c # "none"
    BY DEF SocketCalls
  <2> QED
    BY <2>1, CallOnType DEF WaitsIn
<1>3. WaitsOn(h) => CallOn(h) \in SocketCalls
  <2>1. WaitsOn(h) => vm \in SocketWaits /\ vm.on = h
    BY <1>1, WaitOf DEF WaitsOn
  <2>2. vm \in SocketWaits => vm.call \in SocketCalls
    BY DEF SocketWaits, SocketCalls
  <2> QED
    BY <2>1, <2>2 DEF CallOn
<1> QED
  BY <1>1, <1>2, <1>3 DEF Fits, Consistent, WriteTimed, ReadTimed, SocketCalls

LEMMA FilesWait == IInv => FileWaits
<1> SUFFICES ASSUME IInv, NEW h \in Files, NEW call \in {"fread", "fwrite"}
             PROVE  WaitsIn(call, h) <=> file[h].aio = call /\ file[h].thr
  BY DEF FileWaits
<1>1. FileFits(file[h], FileCallOn(h), vm = Ended) /\ file[h] \in FileCtx /\ VmOK
  BY DEF IInv, FileInv
<1>2. WaitsIn(call, h) => FileCallOn(h) = call
  <2>1. ASSUME WaitsIn(call, h)
        PROVE  vm \in FileWaitings /\ vm.on = h /\ vm.call = call
    BY <2>1 DEF WaitsIn, FileWaitings
  <2> QED
    BY <2>1 DEF FileCallOn
<1>3. FileCallOn(h) = call => WaitsIn(call, h)
  <2>1. vm \in FileWaitings => vm = [call |-> vm.call, on |-> vm.on]
    BY DEF FileWaitings
  <2> QED
    BY <2>1 DEF FileCallOn, WaitsIn
<1> QED
  BY <1>1, <1>2, <1>3 DEF FileFits, FileCtx

\* An event of one object never resumes a script that waits for another, or in
\* another call, and a script that waits is woken: SocketWakes, SmtpWakes, HttpWakes
\* and FileWaits, for all handles and files.
THEOREM WokenByItsOwnHolds == Spec => []WokenByItsOwn
<1>1. IInv => SmtpWakes
  BY WaitOf DEF IInv, MailInv, MailFits, SmtpWakes
<1>2. IInv => HttpWakes
  BY WaitOf DEF IInv, HttpInv, HttpFits, HttpWakes
<1>3. IInv => WokenByItsOwn
  BY <1>1, <1>2, SocketsWake, FilesWait DEF WokenByItsOwn
<1> QED
  BY <1>3, ObjectsInvariant, PTL

\* A handle that was freed has no userdata and no open file; a socket that was has no
\* connection and no cleanup, except the connection of a session that ended while it
\* was connecting and the cleanup of an open that failed; a file has no transfer,
\* except after the end of its session.  Of the cleanup of a file nothing is said
\* here: the collector leaves it, and it leads to a handle that was freed.
THEOREM ReclaimedHolds == Spec => []Reclaimed
<1>1. IInv => SocketReclaimed
  BY DEF IInv, SocketInv, SocketReclaimed, Fits, Consistent
<1>2. IInv => FileReclaimed
  BY DEF IInv, FileInv, FileFits, FileReclaimed
<1>3. IInv => Reclaimed
  BY <1>1, <1>2 DEF Reclaimed
<1> QED
  BY <1>3, ObjectsInvariant, PTL

\* What the kernel is asked to transfer lies in the file as the call found it, and is
\* no more than the buffer was made for, for any offsets, sizes and lengths and however
\* others change the file (whether the buffer's memory is still there is BufferLives, which does not hold).
THEOREM TransfersFitHolds == Spec => []TransfersFit
<1>1. IInv => TransfersFit
  BY DEF IInv, FileInv, Spans, TransfersFit
<1> QED
  BY <1>1, ObjectsInvariant, PTL

\* The mail call keeps to the dialogue of the protocol, for any number of recipients
\* and however commands and replies come in pieces: each command once and in its
\* order, and true is returned only when all have been sent and answered.
THEOREM MailInOrderHolds == Spec => []MailInOrder
<1>1. Init => DialogueInv
  BY NoMailPlaced DEF Init, SmtpInit, DialogueInv
<1>2. IInv /\ DialogueInv /\ [Next]_vars => DialogueInv'
  <2> SUFFICES ASSUME IInv, DialogueInv, [Next]_vars PROVE DialogueInv'
    OBVIOUS
  <2>1. CASE SmtpStep
    BY <2>1, DialogueGoesOn DEF IInv, SmtpStep
  <2>2. CASE SessionEnds
    BY <2>2, NoMailPlaced DEF SessionEnds, SmtpCleanup, DialogueInv
  <2>3. CASE UNCHANGED smtpVars
    BY <2>3 DEF smtpVars, DialogueInv
  <2> QED
    BY <2>1, <2>2, <2>3
    DEF Next, vars, SocketStep, SocketsOnly, HttpStep, HttpOnly, FileStep, FilesOnly
<1>3. IInv /\ DialogueInv => MailInOrder
  <2> SUFFICES ASSUME IInv, DialogueInv PROVE MailInOrder
    OBVIOUS
  <2>1. mail.sent \in Seq(Command) /\ mail.n \in 0 .. Recipients /\ mail.state \in ToSet(SmtpStates)
    BY DEF IInv, MailInv, SmtpTypeOK, Mail
  <2>2. Len(mail.sent) = Place(mail.state, mail.n)
           /\ \A i \in 1 .. Len(mail.sent) : mail.sent[i] = SmtpDialogue[i]
    BY DEF DialogueInv, Placed
  <2>3. Place(mail.state, mail.n) <= Recipients + 8
    BY <2>1, MailStates, SmtpAssumption DEF Place
  <2>4. IsPrefix(mail.sent, SmtpDialogue)
    BY <2>1, <2>2, <2>3, DialogueIs, PrefixIs
  <2> QED
    BY <2>4 DEF DialogueInv, MailInOrder
<1> QED
  BY <1>1, <1>2, <1>3, ObjectsInvariant, PTL DEF Spec

\* However a response comes in pieces, the body the script is given is what follows
\* the first empty line, without a gap, and as long as the header said, for any
\* response and any room.
THEOREM BodyWholeHolds == Spec => []BodyWhole
<1>1. Init => FetchInv
  BY NoHttpFetches DEF Init, HttpInit, FetchInv, Returned
<1>2. IInv /\ FetchInv /\ [Next]_vars => FetchInv'
  <2> SUFFICES ASSUME IInv, FetchInv, [Next]_vars PROVE FetchInv'
    OBVIOUS
  <2>1. CASE HttpStep
    BY <2>1, FetchGoesOn DEF IInv, HttpStep
  <2>2. CASE SessionEnds
    BY <2>2, NoHttpFetches DEF SessionEnds, HttpCleanup, FetchInv
  <2>3. CASE UNCHANGED httpVars
    BY <2>3 DEF httpVars, FetchInv
  <2> QED
    BY <2>1, <2>2, <2>3
    DEF Next, vars, SocketStep, SocketsOnly, SmtpStep, MailOnly, FileStep, FilesOnly
<1>3. FetchInv => BodyWhole
  BY DEF FetchInv, Fetches, Reads, Base, Returned, BodyWhole
<1> QED
  BY <1>1, <1>2, <1>3, ObjectsInvariant, PTL DEF Spec

=============================================================================
