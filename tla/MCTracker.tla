----------------------------- MODULE MCTracker -----------------------------
(* A small instance of Tracker for TLC. *)
EXTENDS Tracker, TLC

CONSTANTS w1, w2, t1, t2, p1, p2, p3

\* Two of the peers have one crc32.
SmallHash == t1 :> 0 @@ t2 :> 1 @@ p1 :> 0 @@ p2 :> 1 @@ p3 :> 1

\* What is compared of crc32 is whether two torrents, or two peers, have the same.
Symmetry == Permutations(Workers) \cup Permutations(Torrents) \cup Permutations({p2, p3})

=============================================================================
