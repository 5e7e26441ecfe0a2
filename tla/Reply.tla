------------------------------- MODULE Reply -------------------------------
(***************************************************************************)
(* What a script's client may rely on, whatever carries its answer (tcp, a *)
(* udp datagram or http): while the session is open the script prints, and *)
(* the client is sent, from the first byte on, some of what is printed so  *)
(* far; a session that has ended sends nothing more.                       *)
(***************************************************************************)
EXTENDS Naturals, Sequences, SequencesExt

VARIABLES
    printed,   \* bytes the script has printed; byte i is the i-th one
    sent,      \* bytes the client was sent
    open       \* whether the session goes on

Init == printed = 0 /\ sent = <<>> /\ open = TRUE

Prints ==
    /\ open /\ printed' \in Nat /\ printed' > printed
    /\ UNCHANGED <<sent, open>>

\* The last bytes may be sent as the session ends.
Send ==
    /\ open
    /\ IsPrefix(sent, sent') /\ IsPrefix(sent', [i \in 1 .. printed |-> i])
    /\ open' \in BOOLEAN
    /\ UNCHANGED printed

Next == Prints \/ Send

Spec == Init /\ [][Next]_<<printed, sent, open>>

=============================================================================
