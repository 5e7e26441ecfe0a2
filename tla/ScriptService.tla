--------------------------- MODULE ScriptService ---------------------------
(***************************************************************************)
(* What ngx_squ_load_script promises to the thread that calls it, whatever *)
(* lies between the file and the thread: the code of one version of the    *)
(* script, no older than what the thread saw of the file when it asked.    *)
(* A thread sees a label, the size and mtime of the file, and two versions *)
(* may have one label.  There is no cache here, no worker and no clock:    *)
(* they may not show.                                                      *)
(***************************************************************************)
EXTENDS Integers, Sequences

CONSTANTS
    Scripts,
    Threads,
    ScriptOf      \* the script a thread asks for

VARIABLES
    hist,     \* hist[s]: the labels of the versions of script s so far
    reader    \* reader[t]: where t is with its request for the script

vars == <<hist, reader>>

NoAnswer == [ver |-> 0, whole |-> TRUE]
Away(r) == r.state = "away"

Init ==
    /\ \A s \in Scripts : Len(hist[s]) = 1
    /\ \A t \in Threads : Away(reader[t])

\* The script is rewritten.
Write(s) ==
    /\ Len(hist'[s]) = Len(hist[s]) + 1
    /\ hist' = [hist EXCEPT ![s] = Append(@, hist'[s][Len(@) + 1])]
    /\ UNCHANGED reader

\* A thread looks at the script and asks for its code.
Ask(t) ==
    /\ Away(reader[t])
    /\ reader' = [reader EXCEPT ![t] =
                     [state |-> "asked",
                      label |-> hist[ScriptOf[t]][Len(hist[ScriptOf[t]])],
                      answer |-> NoAnswer]]
    /\ UNCHANGED hist

\* It is given the code of a version v.  Some version up to v has the label it
\* saw; and v may be a version that was read in part only where the label tells
\* that it is another one.
Give(t) ==
    /\ reader[t].state = "asked"
    /\ \E v \in DOMAIN hist[ScriptOf[t]], whole \in BOOLEAN :
          /\ \E u \in 1 .. v : hist[ScriptOf[t]][u] = reader[t].label
          /\ ~whole => hist[ScriptOf[t]][v] # reader[t].label
          /\ reader' = [reader EXCEPT ![t] =
                           [state |-> "given", label |-> reader[t].label,
                            answer |-> [ver |-> v, whole |-> whole]]]
    /\ UNCHANGED hist

\* The request fails or has been served; the next one starts anew.
Leave(t) ==
    /\ ~Away(reader[t])
    /\ reader' = [reader EXCEPT ![t] = reader'[t]] /\ Away(reader'[t])
    /\ UNCHANGED hist

Next ==
    \/ \E s \in Scripts : Write(s)
    \/ \E t \in Threads : Ask(t) \/ Give(t) \/ Leave(t)

Spec == Init /\ [][Next]_vars

=============================================================================
