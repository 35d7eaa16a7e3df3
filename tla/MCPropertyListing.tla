--------------------------- MODULE MCPropertyListing ---------------------------
(***************************************************************************)
(* Instances of PropertyListing for TLC.                                   *)
(***************************************************************************)
EXTENDS PropertyListing, TLC

\* No property names a session, a unit or a listing.
Symmetry == Permutations(Sessions) \cup Permutations(RentalUnits)
              \cup Permutations(Properties)
=============================================================================
