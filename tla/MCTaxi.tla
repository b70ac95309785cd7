------------------------------- MODULE MCTaxi -------------------------------
(***************************************************************************)
(* Taxi for TLC's safety run.  Process ids are interchangeable; MaxSent    *)
(* bounds the pipes and the histories.                                     *)
(***************************************************************************)
EXTENDS Taxi, TLC

Symmetry == Permutations(Pids)
=============================================================================
