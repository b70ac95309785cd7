------------------------------- MODULE MCEcho -------------------------------
(***************************************************************************)
(* A client on the server's host and one on another, and an entry for one  *)
(* of them only.                                                           *)
(***************************************************************************)
EXTENDS Echo, TLC

CONSTANTS c1, c2, h1, h2

MCClients == {c1, c2}
MCAddresses == {h1, h2}
MCHostOf == c1 :> h1 @@ c2 :> h2
MCMaxSent == c1 :> 2 @@ c2 :> 1
=============================================================================
