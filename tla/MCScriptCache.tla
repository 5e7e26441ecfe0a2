--------------------------- MODULE MCScriptCache ---------------------------
(* Small instances of ScriptCache for TLC. *)
EXTENDS ScriptCache, TLC

CONSTANTS w1, w2, t1, t2, s1, s2, n1, n2

\* Two workers; the second was started by a reload that lowered the expiry.
TwoThreads == {t1, t2}
TwoWorkerOf == t1 :> w1 @@ t2 :> w2
TwoExpire == w1 :> 1 @@ w2 :> 0

\* They serve one script file.
OneScriptOf == t1 :> s1 @@ t2 :> s1
OneHash == s1 :> 0

\* One serves a file, the other an inline script with the same crc32.
TwoScriptOf == t1 :> s1 @@ t2 :> s2
CollidingHash == s1 :> 0 @@ s2 :> 0

=============================================================================
