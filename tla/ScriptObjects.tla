--------------------------- MODULE ScriptObjects ---------------------------
(***************************************************************************)
(* One session whose script uses the objects that wait for something:      *)
(* sockets, the smtp call, the http call and files.  They share the VM,    *)
(* which any of their handlers may resume, and the pool of the session,    *)
(* whose cleanups are run when the session ends.                           *)
(***************************************************************************)
EXTENDS SocketHandle, SmtpClient, HttpClient, FileHandle

CONSTANT Scripts    \* what the scripts there are use, each a set of objects

\* What waits is told apart by name.
ASSUME ObjectsAssumption ==
    /\ Handles \cap Files = {}
    /\ {"mail", "http"} \cap (Handles \cup Files) = {}

VARIABLE uses       \* what the script of this session uses

vars == <<uses, vm, sock, smtpVars, httpVars, fileVars>>

Init ==
    /\ uses \in Scripts
    /\ vm = Running
    /\ SocketInit /\ SmtpInit /\ HttpInit /\ FileInit

\* No handler of a call is in the middle of its work.
Quiet == mail.at = "out" /\ http.at = "out"

\* The script has ended, or the connection of the session has gone away while
\* the script waited: ngx_squ_thread_destroy, and the cleanups of the pool.
SessionEnds ==
    /\ vm # Ended /\ Quiet
    /\ vm' = Ended
    /\ SocketCleanup /\ SmtpCleanup /\ HttpCleanup /\ FileCleanup
    /\ UNCHANGED uses

\* A step of one kind of object, none of another.
SocketsOnly == "socket" \in uses /\ Quiet /\ UNCHANGED <<uses, smtpVars, httpVars, fileVars>>
MailOnly == "smtp" \in uses /\ UNCHANGED <<uses, sock, httpVars, fileVars>>
HttpOnly == "http" \in uses /\ UNCHANGED <<uses, sock, smtpVars, fileVars>>
FilesOnly == "file" \in uses /\ Quiet /\ UNCHANGED <<uses, sock, smtpVars, httpVars>>

SocketStep == SocketsOnly /\ SocketNext
SmtpStep   == MailOnly /\ SmtpNext
HttpStep   == HttpOnly /\ HttpNext
FileStep   == FilesOnly /\ FileNext

Next == SocketStep \/ SmtpStep \/ HttpStep \/ FileStep \/ SessionEnds

Spec == Init /\ [][Next]_vars

\* Handlers that run come to their end, timers that are armed fire, and the kernel
\* completes what it was asked to do.
Fairness ==
    /\ \A h \in Handles :
          /\ WF_vars(SocketsOnly /\ SocketReadTimeout(h))
          /\ WF_vars(SocketsOnly /\ SocketWriteTimeout(h))
    /\ WF_vars(MailOnly /\ (SmtpHandler \/ SmtpReadTimeout \/ SmtpWriteTimeout))
    /\ WF_vars(HttpOnly /\ (HttpHandler \/ HttpReadTimeout \/ HttpWriteTimeout))
    /\ \A h \in Files : WF_vars(FilesOnly /\ (FileReadDone(h) \/ FileWriteDone(h)))

FairSpec == Spec /\ Fairness

-----------------------------------------------------------------------------
(* Properties                                                               *)

\* Whichever of the collector, the script and the end of the session comes first, a
\* handle that was freed has no userdata and nothing open.  No connection and no
\* cleanup leads to a socket that was freed, but for the two SocketReclaimed names; a
\* transfer may outlive its file after the session, and of the cleanup of a file
\* nothing is said, as it may.
Reclaimed == SocketReclaimed /\ FileReclaimed

\* An event of one object never resumes a script that waits for another, or in
\* another call; and a script that waits has a timer, or a transfer of the kernel,
\* that will wake it.
WokenByItsOwn == SocketWakes /\ SmtpWakes /\ HttpWakes /\ FileWaits

\* Every call a script waits in ends, whatever the servers do; for mail, once the
\* server has greeted.
CallsEnd ==
    /\ \A h \in Handles \cup Files : WaitsOn(h) ~> ~WaitsOn(h)
    /\ (mail.conn /\ mail.state # "start") ~> ~mail.conn
    /\ http.conn ~> ~http.conn

=============================================================================
