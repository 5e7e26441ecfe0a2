---------------------------- MODULE SmtpClient ----------------------------
(***************************************************************************)
(* The send call of core/modules/ngx_squ_smtp_module.c: one call runs a    *)
(* whole dialogue with a mail server, over events, and owns its connection *)
(* and its pool.  It ends in ngx_squ_smtp_finalize, also when the session  *)
(* goes away first.                                                        *)
(*                                                                         *)
(* Handlers call one another; "at" says which of them runs, and until it   *)
(* is "out" again nothing else in the worker does.  Where the server       *)
(* answers at once the whole dialogue runs inside the call: the result is  *)
(* pushed and the pool destroyed by other lines than after an event, to    *)
(* the same effect (not_event).  A call that fails before it has a         *)
(* connection leaves its pool to the cleanup, and is not a step.           *)
(***************************************************************************)
EXTENDS ScriptVm, Naturals, Sequences, SequencesExt

CONSTANTS
    Recipients,     \* how many recipients the mail has
    SmtpRoom        \* pieces that fit the response buffer

\* A call without recipients is refused (ngx_squ_smtp_parse_args).
ASSUME SmtpAssumption == Recipients \in Nat \ {0} /\ SmtpRoom \in Nat

VARIABLES
    mail,           \* the ngx_squ_smtp_ctx_t of the call and its connection
    mailed          \* what was sent by the last call that returned true

smtpVars == <<mail, mailed>>

\* The states of ngx_squ_smtp_handle_response, named for what was sent last.
SmtpStates == <<"start", "helo", "login", "user", "passwd", "from", "to",
                "data", "quit", "done">>

Command == [cmd : ToSet(SmtpStates), to : 0 .. Recipients]

Mail ==
    [conn : BOOLEAN,                        \* there is a call, and a connection
     rh : {"dummy", "read"}, rtimer : BOOLEAN,
     wh : {"dummy", "connect", "write"}, wtimer : BOOLEAN, wtimedout : BOOLEAN,
     at : {"out", "read", "got", "write", "put"},
     rev : {"r", "w"},                      \* the event read_handler was given
     state : ToSet(SmtpStates),
     n : 0 .. Recipients,                   \* recipients named so far
     left : 0 .. 2,                         \* pieces of the command to be sent
     got : 0 .. SmtpRoom,                   \* pieces in the response buffer
     sent : Seq(Command)]                   \* the commands so far

NoMail ==
    [conn |-> FALSE, rh |-> "dummy", rtimer |-> FALSE,
     wh |-> "dummy", wtimer |-> FALSE, wtimedout |-> FALSE,
     at |-> "out", rev |-> "r", state |-> "start", n |-> 0, left |-> 0,
     got |-> 0, sent |-> <<>>]

SmtpInit == mail = NoMail /\ mailed = <<>>

\* The handler goes on, or waits for an event; the VM stays as it is.
MailBecomes(m) == mail' = m /\ UNCHANGED <<mailed, vm>>

\* ngx_squ_smtp_finalize from a handler: the cleanup is told, the connection is
\* closed, the pool destroyed and the script goes on with the result.
SmtpFinalize(result) ==
    /\ mail' = NoMail /\ mailed' = result
    /\ Resume
SmtpFails == SmtpFinalize(mailed)

\* ngx_squ_smtp_cleanup finalizes a call that was not finished.
SmtpCleanup == mail' = NoMail /\ UNCHANGED mailed

-----------------------------------------------------------------------------
(* The handlers                                                             *)

\* The timer of an event that has not timed out is deleted when its handler is
\* entered.
EnterRead(m, ev) ==
    [m EXCEPT !.at = "read", !.rev = ev,
              !.rtimer = IF ev = "r" THEN FALSE ELSE m.rtimer,
              !.wtimer = IF ev = "w" THEN FALSE ELSE m.wtimer]
EnterWrite(m) == [m EXCEPT !.at = "write", !.wtimer = FALSE]

\* connect_handler, when the connection is there: it reads the greeting, but
\* hands read_handler the write event, whose handler is the dummy by now.
SmtpConnect(m) ==
    EnterRead([m EXCEPT !.rh = "read", !.wh = "dummy"], "w")

SmtpSend ==
    /\ vm = Running /\ ~mail.conn
    /\ LET m == [NoMail EXCEPT !.conn = TRUE]
       IN \/ mail' = SmtpConnect(m)
          \/ mail' = [m EXCEPT !.wh = "connect", !.wtimer = TRUE]
    /\ Suspend("send mail", "mail")
    /\ UNCHANGED mailed

Following(s) == SmtpStates[1 + CHOOSE i \in 1 .. 9 : SmtpStates[i] = s]

\* Variant: the counter of recipients moves on after DATA is decided upon.
SmtpNextEarly(s, n) ==
    IF s \in {"from", "to"} /\ n + 1 < Recipients
      THEN [cmd |-> "to", to |-> n + 1]
      ELSE [cmd |-> Following(s), to |-> 0]

\* ngx_squ_smtp_handle_response: what follows an answer that is as it should be,
\* when n recipients have been named.
SmtpNextCommand(s, n) ==
    IF s \in {"from", "to"} /\ n < Recipients
      THEN [cmd |-> "to", to |-> n + 1]
      ELSE [cmd |-> Following(s), to |-> 0]

Reading == mail.at \in {"read", "got"}

\* recv has nothing for now; the timer is that of the event that was given.
SmtpReadAgain ==
    /\ mail.at = "read"
    /\ MailBecomes(IF mail.rev = "r" THEN [mail EXCEPT !.at = "out", !.rtimer = TRUE]
                   ELSE [mail EXCEPT !.at = "out", !.wtimer = TRUE])

\* recv has a piece of an answer, and there is room for more.
SmtpReadPiece ==
    /\ Reading /\ mail.got + 1 < SmtpRoom
    /\ MailBecomes([mail EXCEPT !.at = "read", !.got = mail.got + 1])

\* recv has the end of an answer that asks for the next command.  The write
\* event may have timed out while the greeting was waited for.
SmtpReadReply ==
    /\ Reading /\ mail.state # "done"
    /\ LET c == SmtpNextCommand(mail.state, mail.n)
       IN \/ /\ ~mail.wtimedout
             /\ MailBecomes(EnterWrite(
                   [mail EXCEPT !.rh = "dummy", !.wh = "write", !.left = 2,
                                !.state = c.cmd,
                                !.n = IF c.cmd = "to" THEN c.to ELSE mail.n,
                                !.sent = Append(mail.sent, c)]))
          \/ mail.wtimedout /\ SmtpFails

\* The answer to QUIT.
SmtpReadDone == Reading /\ mail.state = "done" /\ SmtpFinalize(mail.sent)

\* Another answer, one without an end that fills the buffer, the end of the
\* connection, or no memory.
SmtpReadFails == Reading /\ SmtpFails

Writing == mail.at \in {"write", "put"}

\* write_handler: send takes a part, everything, or nothing for now.
SmtpWritePart ==
    /\ Writing /\ mail.left = 2
    /\ MailBecomes([mail EXCEPT !.at = "write", !.left = 1])
SmtpWriteAll ==
    /\ Writing
    /\ MailBecomes(EnterRead([mail EXCEPT !.rh = "read", !.wh = "dummy", !.left = 0,
                                          !.got = 0], "r"))
SmtpWriteAgain ==
    /\ mail.at = "write"
    /\ MailBecomes([mail EXCEPT !.at = "out", !.wtimer = TRUE])
SmtpWriteFails == Writing /\ SmtpFails

SmtpHandler ==
    \/ SmtpReadAgain \/ SmtpReadPiece \/ SmtpReadReply \/ SmtpReadDone
    \/ SmtpReadFails
    \/ SmtpWritePart \/ SmtpWriteAll \/ SmtpWriteAgain \/ SmtpWriteFails

-----------------------------------------------------------------------------
(* Events                                                                   *)

SmtpEvent == vm # Running /\ mail.conn /\ mail.at = "out"

\* Something has come, or the server has closed the connection.
SmtpReadable ==
    /\ SmtpEvent /\ mail.rh = "read"
    /\ MailBecomes([EnterRead(mail, "r") EXCEPT !.at = "got"])

SmtpWritable ==
    /\ SmtpEvent
    /\ \/ mail.wh = "connect" /\ MailBecomes(SmtpConnect(mail))
       \/ mail.wh = "write" /\ MailBecomes([EnterWrite(mail) EXCEPT !.at = "put"])

SmtpReadTimeout == SmtpEvent /\ mail.rtimer /\ mail.rh = "read" /\ SmtpFails

SmtpWriteTimeout ==
    /\ SmtpEvent /\ mail.wtimer
    /\ \/ mail.wh # "dummy" /\ SmtpFails
       \/ /\ mail.wh = "dummy"
          /\ MailBecomes([mail EXCEPT !.wtimer = FALSE, !.wtimedout = TRUE])

SmtpNext ==
    \/ SmtpSend \/ SmtpHandler
    \/ SmtpReadable \/ SmtpWritable \/ SmtpReadTimeout \/ SmtpWriteTimeout

-----------------------------------------------------------------------------
(* Properties                                                               *)

SmtpTypeOK == mail \in Mail /\ mailed \in Seq(Command)

\* The commands are those of the protocol, in its order, each recipient is named
\* once, and the call returns true only after all of them.
SmtpDialogue ==
    [i \in 1 .. 5 |-> [cmd |-> SmtpStates[i + 1], to |-> 0]]
        \o [i \in 1 .. Recipients |-> [cmd |-> "to", to |-> i]]
        \o [i \in 1 .. 3 |-> [cmd |-> SmtpStates[i + 7], to |-> 0]]
MailInOrder ==
    IsPrefix(mail.sent, SmtpDialogue) /\ mailed \in {<<>>, SmtpDialogue}

\* The script waits for the call as long as there is one, and when nothing of it
\* runs a timer is set whose handler will end it; but for the wait for the
\* greeting, the timer of which leads to the dummy handler.
SmtpWakes ==
    /\ mail.conn <=> WaitsOn("mail")
    /\ mail.conn /\ mail.at = "out" =>
          mail.rtimer \/ (mail.wtimer /\ mail.wh # "dummy")
            \/ (mail.state = "start" /\ mail.wh = "dummy")

=============================================================================
