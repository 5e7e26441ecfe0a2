--------------------------- MODULE MCProtocolConf ---------------------------
(* Instances of ProtocolConf for TLC. *)
EXTENDS ProtocolConf

CONSTANTS cache, request, recv, packet, stream, socket, session, btt, fA, fB

Linked == <<cache, request, recv, packet, stream>>
\* One file with a core module, one file with a core and a protocol module.
TwoFiles == fA :> <<socket>> @@ fB :> <<session, btt>>
Types == request :> "http" @@ recv :> "tcp" @@ packet :> "udp" @@ stream :> "udt"
         @@ btt :> "udp"
         @@ [m \in {cache, socket, session} |-> "core"]
Scopes == request :> 3 @@ btt :> 2 @@ recv :> 2 @@ packet :> 1 @@ stream :> 2

=============================================================================
