------------------------- MODULE MCRentalTransactions -------------------------
(***************************************************************************)
(* Instances of RentalTransactions for TLC.                                *)
(***************************************************************************)
EXTENDS RentalTransactions, TLC

\* Sound for the refinement too: Reservation mentions no session and no user,
\* and treats all bookings alike.
Symmetry == Permutations(Bookings) \cup Permutations(Users)
              \cup Permutations(Requests) \cup Permutations(Workers)
=============================================================================
