----------------------------- MODULE Reservation -----------------------------
(***************************************************************************)
(* What the marketplace promises about a rental unit, with no tables and   *)
(* no status columns.  A unit is reserved for at most one booking, lived   *)
(* in under at most one tenancy, and handed over only to a booking whose   *)
(* money was confirmed, after the previous occupant has left and the       *)
(* move-out was inspected.  UnitLifecycle (requests one at a time) and     *)
(* RentalTransactions (requests interleaved) are shown to implement it.    *)
(***************************************************************************)
CONSTANTS Units, Bookings

VARIABLES reserved,   \* per unit, the bookings it is reserved for
          funded,     \* bookings whose payment an administrator confirmed
          occupants,  \* per unit, the bookings whose tenant lives there
          vacated,    \* per unit, the ended tenancies not inspected yet
          spent       \* booking identities already used

vars == <<reserved, funded, occupants, vacated, spent>>

Init == /\ reserved = [u \in Units |-> {}]
        /\ funded = {}
        /\ occupants = [u \in Units |-> {}]
        /\ vacated = [u \in Units |-> {}]
        /\ spent = {}

Reserve(u, b) == /\ reserved[u] = {}
                 /\ b \notin spent
                 /\ reserved' = [reserved EXCEPT ![u] = {b}]
                 /\ spent' = spent \cup {b}
                 /\ UNCHANGED <<funded, occupants, vacated>>

Fund(u, b) == /\ b \in reserved[u] \ funded
              /\ funded' = funded \cup {b}
              /\ UNCHANGED <<reserved, occupants, vacated, spent>>

\* Unpaid reservations end, one after a decision or several at a deadline.
Release(S) == /\ S \cap funded = {}
              /\ reserved' = [u \in Units |-> reserved[u] \ S]
              /\ UNCHANGED <<funded, occupants, vacated, spent>>

MoveIn(u, b) == /\ b \in reserved[u] \cap funded
                /\ occupants[u] = {}
                /\ vacated[u] = {}
                /\ reserved' = [reserved EXCEPT ![u] = {}]
                /\ occupants' = [occupants EXCEPT ![u] = {b}]
                /\ UNCHANGED <<funded, vacated, spent>>

MoveOut(u, b) == /\ b \in occupants[u]
                 /\ occupants' = [occupants EXCEPT ![u] = {}]
                 /\ vacated' = [vacated EXCEPT ![u] = @ \cup {b}]
                 /\ UNCHANGED <<reserved, funded, spent>>

Inspect(u, b) == /\ b \in vacated[u]
                 /\ vacated' = [vacated EXCEPT ![u] = @ \ {b}]
                 /\ UNCHANGED <<reserved, funded, occupants, spent>>

Next == \/ \E u \in Units, b \in Bookings :
             Reserve(u, b) \/ Fund(u, b) \/ MoveIn(u, b)
               \/ MoveOut(u, b) \/ Inspect(u, b)
        \/ \E S \in SUBSET Bookings : Release(S)

Spec == Init /\ [][Next]_vars
=============================================================================
