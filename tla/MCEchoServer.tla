---------------------------- MODULE MCEchoServer ----------------------------
(***************************************************************************)
(* The table alone: three addresses for two entries, in any order of       *)
(* messages and CLOSEs, with the counters bounded.                         *)
(***************************************************************************)
EXTENDS EchoServer, TLC

CONSTANT MaxNumber     \* bound: the counters stop there

MCNext == ServerNext /\ \A i \in Entries : clients'[i].counter <= MaxNumber

MCSpec == ServerInit /\ [][MCNext]_serverVars

Symmetry == Permutations(Addresses)
=============================================================================
