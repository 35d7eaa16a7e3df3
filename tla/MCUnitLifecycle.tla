--------------------------- MODULE MCUnitLifecycle ---------------------------
(***************************************************************************)
(* Instances of UnitLifecycle for TLC.                                     *)
(***************************************************************************)
EXTENDS UnitLifecycle, TLC

\* Bookings and users are told apart by nothing but what happens to them.
Symmetry == Permutations(Bookings) \cup Permutations(Users)
=============================================================================
