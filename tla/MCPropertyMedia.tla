---------------------------- MODULE MCPropertyMedia ----------------------------
(***************************************************************************)
(* Instances of PropertyMedia for TLC.                                     *)
(***************************************************************************)
EXTENDS PropertyMedia, TLC

Symmetry == Permutations(Keys) \cup Permutations(Units) \cup Permutations(Requests)
=============================================================================
