------------------------------- MODULE MCChat -------------------------------
(***************************************************************************)
(* Three clients, two of which talk: one can send a file of a header and   *)
(* one piece of data, the other a line or two.                             *)
(***************************************************************************)
EXTENDS Chat, TLC

CONSTANTS c1, c2, c3

MCTalk == c1 :> 2 @@ c2 :> 2 @@ c3 :> 0
=============================================================================
