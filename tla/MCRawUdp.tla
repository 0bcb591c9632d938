----------------------------- MODULE MCRawUdp -----------------------------
(***************************************************************************)
(* RawUdpEcho with two clients that have ports of their own, the same one, *)
(* or one of them the server's; one client sends another line after the    *)
(* answer to its first.                                                    *)
(***************************************************************************)
EXTENDS RawUdpEcho, TLC

CONSTANTS a, b

MCServerPort == 1
MCAssignments == {a :> 2 @@ b :> 3, a :> 2 @@ b :> 2, a :> 2 @@ b :> 1}
MCMaxRequests == a :> 2 @@ b :> 1
=============================================================================
