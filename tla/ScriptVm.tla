----------------------------- MODULE ScriptVm -----------------------------
(***************************************************************************)
(* The VM of one script thread as the objects of the script API see it: a  *)
(* script that runs calls an object; the call returns, or suspends the VM  *)
(* until a handler of the object resumes it (ngx_squ_thread_run).  The     *)
(* worker has one thread of control: while a script or a handler runs,     *)
(* nothing else does.                                                      *)
(***************************************************************************)

VARIABLE vm     \* what the VM does, and for which object

Running == [call |-> "run", on |-> "script"]
Ended   == [call |-> "ended", on |-> "script"]

WaitsIn(call, o) == vm = [call |-> call, on |-> o]
WaitsOn(o) == vm.call \notin {"run", "ended"} /\ vm.on = o

\* The call does not return yet: squ_yield.
Suspend(call, o) == vm' = [call |-> call, on |-> o]

\* The results are on the stack of the VM and the script goes on.
Resume == vm' = Running

=============================================================================
