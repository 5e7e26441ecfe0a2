-------------------------- MODULE MCScriptObjects --------------------------
(* Instances of ScriptObjects for TLC. *)
EXTENDS ScriptObjects

\* Sockets with each of the calls, and files.
SmallScripts == {{"socket", "smtp"}, {"socket", "http"}, {"file"}}

\* Files alone.
FileScripts == {{"file"}}

\* A body that fits the buffer behind its header, one that needs a buffer of its
\* own, more than was promised, no length, and a response that is none.
SmallResponses ==
    {[units |-> <<"text", "eol", "length", "eol", "eol">> \o [i \in 1 .. n |-> "text"],
      length |-> l] : n \in {1, 3}, l \in {1, 3}}
    \cup {[units |-> <<"text", "eol", "eol", "text">>, length |-> 0],
          [units |-> <<"text", "bad">>, length |-> 0]}

=============================================================================
