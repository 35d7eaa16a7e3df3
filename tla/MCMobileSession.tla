---------------------------- MODULE MCMobileSession ----------------------------
(***************************************************************************)
(* Instances of MobileSession for TLC.                                     *)
(***************************************************************************)
EXTENDS MobileSession, TLC

Symmetry == Permutations(Tokens) \cup Permutations(Families) \cup Permutations(Requests)
=============================================================================
