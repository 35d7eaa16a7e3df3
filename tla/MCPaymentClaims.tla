---------------------------- MODULE MCPaymentClaims ----------------------------
(***************************************************************************)
(* Instances of PaymentClaims for TLC.                                     *)
(***************************************************************************)
EXTENDS PaymentClaims, TLC

CONSTANTS b1, a1, p1, q1, e1, e2, e3

Reports(e, s, outcome, x, k) ==
  [event |-> e, source |-> s, outcome |-> outcome, amount |-> x, ref |-> k]

\* The provider reports one transaction twice, under two event identifiers
\* and for two sources, and a refund under an identifier it used before.
MCCallbacks ==
  {Reports(e1, a1, "paid", q1, p1), Reports(e2, a1, "paid", q1, p1),
   Reports(e3, b1, "paid", q1, p1), Reports(e1, a1, "refunded", q1, p1)}

Symmetry == Permutations(Requests)
=============================================================================
