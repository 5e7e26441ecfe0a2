----------------------------- MODULE MCKeyTree -----------------------------
(* Instances of KeyTree for TLC. *)
EXTENDS KeyTree

\* Two crc32 values, with the second shared by two keys.
Few == [hash : {0}, bytes : {0, 1}] \cup [hash : {1}, bytes : {0, 1}]

=============================================================================
