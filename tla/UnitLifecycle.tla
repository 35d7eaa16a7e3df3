---------------------------- MODULE UnitLifecycle ----------------------------
(***************************************************************************)
(* The life of rental units of an active property: holds, bookings, their  *)
(* payments, tenancies and move-out inspections (api/routes/bookings.py,   *)
(* api/routes/tenancies.py, services/maintenance.py and the booking part   *)
(* of services/payment_providers.py).  Every request handler, and every    *)
(* maintenance cycle, is one action: this module is the system as it       *)
(* behaves when requests are served one at a time.  RentalTransactions     *)
(* splits the same handlers at their database statements.                  *)
(*                                                                         *)
(* A tenancy is identified by its booking (uq_tenancies_booking_id).  The  *)
(* caller of an action is the one its access check admits.  Notifications, *)
(* audit events and status history rows are appended by every action and   *)
(* read by none of them: they are left out.                                *)
(***************************************************************************)
EXTENDS Naturals, RentalTypes

CONSTANTS Units,               \* units of properties in status "active"
          Bookings,            \* identities of bookings and tenancies
          Users,               \* house seekers
          ManualReferences,    \* (method, reference) pairs a seeker types in
          ProviderReferences,  \* (provider, transaction) pairs of callbacks
          MaxDay,              \* bound on the calendar
          None                 \* the null of every nullable column

References == ManualReferences \cup ProviderReferences

ASSUME NoneAssumption ==
  /\ None \notin Units \cup Bookings \cup Users \cup References
  /\ MaxDay \in Nat

VARIABLES
  today,
  unitStatus, availableFrom,                  \* units; 0: no first day is set
  hold,                                       \* Redis booking-hold:unit:<id>
  bookingStatus, bookingUnit, seeker, moveIn, \* bookings
  overdue,                                    \* payment_due_at <= now
  payment, reference,                         \* booking_payments
  claim,                                      \* payment_reference_claims
  ledger,                                     \* number of ledger_entries
  tenantRole,                                 \* users promoted to "tenant"
  tenancy, readvertise, moveOut, inspected,   \* tenancies
  lastEnded                                   \* latest ended_at of a unit

unitVars    == <<unitStatus, availableFrom>>
bookingVars == <<bookingUnit, seeker, moveIn>>
payVars     == <<payment, reference, claim, ledger>>
tenancyVars == <<tenantRole, tenancy, readvertise, moveOut, inspected, lastEnded>>
vars == <<today, unitVars, hold, bookingStatus, bookingVars, overdue, payVars,
          tenancyVars>>

Days == 0 .. MaxDay
-----------------------------------------------------------------------------
ActiveBookings(u) ==
  {b \in Bookings : bookingUnit[b] = u /\ bookingStatus[b] \in ActiveStatus}

LiveTenancies(u) ==
  {t \in Bookings : bookingUnit[t] = u /\ tenancy[t] \in LiveStatus}

UnderNotice(u) ==
  {t \in Bookings : bookingUnit[t] = u /\ tenancy[t] = "notice_given"}

AwaitingInspection(u) ==
  {t \in Bookings : bookingUnit[t] = u /\ tenancy[t] = "ended" /\ ~inspected[t]}

\* Mutant: the release forgets that a tenant under notice still lives there.
StatusAfterReleaseM(u) == ReleasedStatus(FALSE, FALSE, AwaitingInspection(u) # {})

\* What _release_unit_after_failed_booking makes of the unit.
StatusAfterRelease(u) ==
  ReleasedStatus(UnderNotice(u) # {},
                 \E t \in UnderNotice(u) : readvertise[t],
                 AwaitingInspection(u) # {})

\* Mutants: the next booking is forgotten; only one of the two checks remains.
StatusAfterMoveOutM(u) == "inspection"
MayMoveInLive(u) == lastEnded[u] # None => inspected[lastEnded[u]]
MayMoveInUninspected(u) == LiveTenancies(u) = {}

\* A move-out leaves a unit that is booked again to its booking.
StatusAfterMoveOut(u) ==
  IF unitStatus[u] \in {"booked", "booking_pending"}
    THEN unitStatus[u] ELSE "inspection"

\* The last tenant has left and the move-out was inspected.
MayMoveIn(u) == /\ LiveTenancies(u) = {}
                /\ lastEnded[u] # None => inspected[lastEnded[u]]

\* Mutants: free on the day of the move-out; a day too late.
DayAfterM(day) == day
DayAfterLate(day) == day + 2
DayAfter(day) == day + 1

\* Mutant: the unique constraint on (method, reference) is missing.
ClaimableM(b, r) == TRUE

\* A claim succeeds when nobody, or the same source, holds the reference.
Claimable(b, r) == claim[r] \in {None, b}

\* Mutant: a payment under review expires too.
StaleReviewed == {b \in Bookings :
                    bookingStatus[b] \in {"pending_payment", "payment_review"} /\ overdue[b]}

\* The bookings a maintenance cycle selects.
Stale == {b \in Bookings : bookingStatus[b] = "pending_payment" /\ overdue[b]}
-----------------------------------------------------------------------------
Init ==
  /\ today = 0
  /\ unitStatus = [u \in Units |-> "available"]
  /\ availableFrom \in [Units -> Days]
  /\ hold = [u \in Units |-> None]
  /\ bookingStatus = [b \in Bookings |-> "none"]
  /\ bookingUnit = [b \in Bookings |-> None]
  /\ seeker = [b \in Bookings |-> None]
  /\ moveIn = [b \in Bookings |-> 0]
  /\ overdue = [b \in Bookings |-> FALSE]
  /\ payment = [b \in Bookings |-> "none"]
  /\ reference = [b \in Bookings |-> None]
  /\ claim = [r \in References |-> None]
  /\ ledger = [b \in Bookings |-> 0]
  /\ tenantRole = {}
  /\ tenancy = [b \in Bookings |-> "none"]
  /\ readvertise = [b \in Bookings |-> TRUE]
  /\ moveOut = [b \in Bookings |-> 0]
  /\ inspected = [b \in Bookings |-> FALSE]
  /\ lastEnded = [u \in Units |-> None]

\* Midnight, a payment deadline and the ten-minute life of a hold.
NextDay ==
  /\ today < MaxDay
  /\ today' = today + 1
  /\ UNCHANGED <<unitVars, hold, bookingStatus, bookingVars, overdue, payVars,
                 tenancyVars>>

DeadlinePasses(b) ==
  /\ bookingStatus[b] \in {"pending_payment", "payment_review"}
  /\ ~overdue[b]
  /\ overdue' = [overdue EXCEPT ![b] = TRUE]
  /\ UNCHANGED <<today, unitVars, hold, bookingStatus, bookingVars, payVars,
                 tenancyVars>>

HoldExpires(u) ==
  /\ hold[u] # None
  /\ hold' = [hold EXCEPT ![u] = None]
  /\ UNCHANGED <<today, unitVars, bookingStatus, bookingVars, overdue, payVars,
                 tenancyVars>>
-----------------------------------------------------------------------------
AcquireBookingHold(x, u) ==
  /\ unitStatus[u] \in BookableStatus
  /\ hold[u] = None
  /\ hold' = [hold EXCEPT ![u] = x]
  /\ UNCHANGED <<today, unitVars, bookingStatus, bookingVars, overdue, payVars,
                 tenancyVars>>

CreateBooking(x, u, b, day) ==
  /\ bookingStatus[b] = "none"
  /\ day >= today
  /\ hold[u] = x
  /\ unitStatus[u] \in BookableStatus
  /\ availableFrom[u] <= day
  /\ bookingStatus' = [bookingStatus EXCEPT ![b] = "pending_payment"]
  /\ bookingUnit' = [bookingUnit EXCEPT ![b] = u]
  /\ seeker' = [seeker EXCEPT ![b] = x]
  /\ moveIn' = [moveIn EXCEPT ![b] = day]
  /\ payment' = [payment EXCEPT ![b] = "pending"]
  /\ unitStatus' = [unitStatus EXCEPT ![u] = "booking_pending"]
  /\ hold' = [hold EXCEPT ![u] = None]
  /\ UNCHANGED <<today, availableFrom, overdue, reference, claim, ledger,
                 tenancyVars>>

\* A payment enters review: the seeker's form and a provider's callback end
\* in the same writes.  A claim of the same source is taken for granted again.
EnterReview(b, r) ==
  /\ Claimable(b, r)
  /\ claim' = [claim EXCEPT ![r] = b]
  /\ reference' = [reference EXCEPT ![b] = r]
  /\ payment' = [payment EXCEPT ![b] = "submitted"]
  /\ bookingStatus' = [bookingStatus EXCEPT ![b] = "payment_review"]
  /\ UNCHANGED <<today, unitVars, hold, bookingVars, overdue, ledger,
                 tenancyVars>>

SubmitBookingPayment(b, r) ==
  /\ bookingStatus[b] = "pending_payment"
  /\ ~overdue[b]
  /\ EnterReview(b, r)

ProcessBookingPaid(b, r) ==
  /\ bookingStatus[b] = "pending_payment"
  /\ payment[b] = "pending"
  /\ ~overdue[b]
  /\ EnterReview(b, r)

ConfirmBooking(b) ==
  LET u == bookingUnit[b] IN
  /\ bookingStatus[b] = "payment_review"
  /\ payment[b] = "submitted"
  /\ unitStatus[u] = "booking_pending"
  /\ payment' = [payment EXCEPT ![b] = "confirmed"]
  /\ bookingStatus' = [bookingStatus EXCEPT ![b] = "confirmed"]
  /\ unitStatus' = [unitStatus EXCEPT ![u] = "booked"]
  /\ ledger' = [ledger EXCEPT ![b] = IF @ = 0 THEN 2 ELSE @]
  /\ UNCHANGED <<today, availableFrom, hold, bookingVars, overdue, reference,
                 claim, tenancyVars>>

\* The trigger of migration 0013 frees the reference with the rejection.
RejectBookingPayment(b) ==
  LET u == bookingUnit[b] IN
  /\ bookingStatus[b] = "payment_review"
  /\ payment' = [payment EXCEPT ![b] = "rejected"]
  /\ claim' = [r \in References |->
                 IF r = reference[b] /\ claim[r] = b THEN None ELSE claim[r]]
  /\ bookingStatus' = [bookingStatus EXCEPT ![b] = "rejected"]
  /\ unitStatus' = [unitStatus EXCEPT ![u] = StatusAfterRelease(u)]
  /\ UNCHANGED <<today, availableFrom, hold, bookingVars, overdue, reference,
                 ledger, tenancyVars>>

CancelBooking(b) ==
  LET u == bookingUnit[b] IN
  /\ bookingStatus[b] = "pending_payment"
  /\ payment' = [payment EXCEPT ![b] = "cancelled"]
  /\ bookingStatus' = [bookingStatus EXCEPT ![b] = "cancelled"]
  /\ unitStatus' = [unitStatus EXCEPT ![u] = StatusAfterRelease(u)]
  /\ UNCHANGED <<today, availableFrom, hold, bookingVars, overdue, reference,
                 claim, ledger, tenancyVars>>

\* One maintenance cycle of the worker: every stale booking, in one commit.
ExpireStaleBookings ==
  /\ Stale # {}
  /\ bookingStatus' = [b \in Bookings |->
                         IF b \in Stale THEN "expired" ELSE bookingStatus[b]]
  /\ payment' = [b \in Bookings |->
                   IF b \in Stale /\ payment[b] = "pending"
                     THEN "expired" ELSE payment[b]]
  /\ unitStatus' = [u \in Units |->
                      IF /\ unitStatus[u] = "booking_pending"
                         /\ \E b \in Stale : bookingUnit[b] = u
                        THEN StatusAfterRelease(u) ELSE unitStatus[u]]
  /\ UNCHANGED <<today, availableFrom, hold, bookingVars, overdue, reference,
                 claim, ledger, tenancyVars>>
-----------------------------------------------------------------------------
ActivateTenancy(b) ==
  LET u == bookingUnit[b] IN
  /\ tenancy[b] = "none"
  /\ bookingStatus[b] = "confirmed"
  /\ moveIn[b] <= today
  /\ unitStatus[u] = "booked"
  /\ MayMoveIn(u)
  /\ tenancy' = [tenancy EXCEPT ![b] = "active"]
  /\ readvertise' = [readvertise EXCEPT ![b] = TRUE]
  /\ bookingStatus' = [bookingStatus EXCEPT ![b] = "fulfilled"]
  /\ unitStatus' = [unitStatus EXCEPT ![u] = "occupied"]
  /\ tenantRole' = tenantRole \cup {seeker[b]}
  /\ UNCHANGED <<today, availableFrom, hold, bookingVars, overdue, payVars,
                 moveOut, inspected, lastEnded>>

GiveNotice(t, day, again) ==
  LET u == bookingUnit[t] IN
  /\ tenancy[t] = "active"
  /\ day > today
  /\ tenancy' = [tenancy EXCEPT ![t] = "notice_given"]
  /\ moveOut' = [moveOut EXCEPT ![t] = day]
  /\ readvertise' = [readvertise EXCEPT ![t] = again]
  /\ availableFrom' = [availableFrom EXCEPT ![u] = DayAfter(day)]
  /\ unitStatus' = [unitStatus EXCEPT ![u] =
                      IF again THEN "vacating_soon" ELSE "notice_given"]
  /\ UNCHANGED <<today, hold, bookingStatus, bookingVars, overdue, payVars,
                 tenantRole, inspected, lastEnded>>

EndTenancy(t) ==
  LET u == bookingUnit[t] IN
  /\ tenancy[t] \in LiveStatus
  /\ tenancy' = [tenancy EXCEPT ![t] = "ended"]
  /\ inspected' = [inspected EXCEPT ![t] = FALSE]
  /\ lastEnded' = [lastEnded EXCEPT ![u] = t]
  /\ unitStatus' = [unitStatus EXCEPT ![u] = StatusAfterMoveOut(u)]
  /\ UNCHANGED <<today, availableFrom, hold, bookingStatus, bookingVars,
                 overdue, payVars, tenantRole, readvertise, moveOut>>

\* The handler does not ask whether this tenancy is the one inspected now.
CompleteInspection(t) ==
  LET u == bookingUnit[t] IN
  /\ tenancy[t] = "ended"
  /\ inspected' = [inspected EXCEPT ![t] = TRUE]
  /\ \/ /\ unitStatus[u] = "inspection"
        /\ unitStatus' = [unitStatus EXCEPT ![u] = "available"]
        /\ availableFrom' = [availableFrom EXCEPT ![u] = today]
     \/ /\ unitStatus[u] # "inspection"
        /\ UNCHANGED unitVars
  /\ UNCHANGED <<today, hold, bookingStatus, bookingVars, overdue, payVars,
                 tenantRole, tenancy, readvertise, moveOut, lastEnded>>
-----------------------------------------------------------------------------
Next ==
  \/ NextDay
  \/ ExpireStaleBookings
  \/ \E u \in Units : HoldExpires(u)
  \/ \E x \in Users, u \in Units : AcquireBookingHold(x, u)
  \/ \E x \in Users, u \in Units, b \in Bookings, day \in Days :
       CreateBooking(x, u, b, day)
  \/ \E b \in Bookings, r \in ManualReferences : SubmitBookingPayment(b, r)
  \/ \E b \in Bookings, r \in ProviderReferences : ProcessBookingPaid(b, r)
  \/ \E t \in Bookings, day \in Days, again \in BOOLEAN :
       GiveNotice(t, day, again)
  \/ \E b \in Bookings :
       \/ DeadlinePasses(b)
       \/ ConfirmBooking(b)
       \/ RejectBookingPayment(b)
       \/ CancelBooking(b)
       \/ ActivateTenancy(b)
       \/ EndTenancy(b)
       \/ CompleteInspection(b)

Spec == Init /\ [][Next]_vars
-----------------------------------------------------------------------------
TypeOK ==
  /\ today \in Days
  /\ unitStatus \in [Units -> UnitStatus]
  /\ availableFrom \in [Units -> 0 .. MaxDay + 1]
  /\ hold \in [Units -> Users \cup {None}]
  /\ bookingStatus \in [Bookings -> BookingStatus \cup {"none"}]
  /\ bookingUnit \in [Bookings -> Units \cup {None}]
  /\ \A b \in Bookings : bookingStatus[b] # "none" =>
                             bookingUnit[b] \in Units /\ seeker[b] \in Users
  /\ seeker \in [Bookings -> Users \cup {None}]
  /\ moveIn \in [Bookings -> Days]
  /\ overdue \in [Bookings -> BOOLEAN]
  /\ payment \in [Bookings -> PaymentStatus \cup {"none"}]
  /\ reference \in [Bookings -> References \cup {None}]
  /\ claim \in [References -> Bookings \cup {None}]
  /\ ledger \in [Bookings -> {0, 2}]
  /\ tenantRole \subseteq Users
  /\ tenancy \in [Bookings -> TenancyStatus \cup {"none"}]
  /\ \A b \in Bookings : tenancy[b] # "none" <=> bookingStatus[b] = "fulfilled"
  /\ readvertise \in [Bookings -> BOOLEAN]
  /\ moveOut \in [Bookings -> Days]
  /\ inspected \in [Bookings -> BOOLEAN]
  /\ lastEnded \in [Units -> Bookings \cup {None}]

\* A unit is booking_pending exactly while a booking of it waits for its
\* payment or its review, and booked exactly while one is confirmed.  So an
\* administrator who reviews a payment is never refused by confirm_booking's
\* "Unit booking state is invalid".
UnitFollowsBooking ==
  \A u \in Units :
    /\ unitStatus[u] = "booking_pending" <=>
         \E b \in ActiveBookings(u) : bookingStatus[b] # "confirmed"
    /\ unitStatus[u] = "booked" <=>
         \E b \in ActiveBookings(u) : bookingStatus[b] = "confirmed"

\* The status of a unit nobody has booked is that of its tenancy: a tenant
\* who gave no notice is never advertised over, and a unit shown as
\* available or under inspection has no tenant in it.
TellsItsTenancy(u) ==
  /\ unitStatus[u] = "occupied" <=>
       \E t \in LiveTenancies(u) : tenancy[t] = "active"
  /\ unitStatus[u] = "vacating_soon" => \E t \in UnderNotice(u) : readvertise[t]
  /\ unitStatus[u] = "notice_given" => \E t \in UnderNotice(u) : ~readvertise[t]
  /\ unitStatus[u] \in {"available", "inspection"} => LiveTenancies(u) = {}

UnitFollowsTenancy == \A u \in Units : TellsItsTenancy(u)

\* At most one tenancy awaits its inspection, it is the latest to have
\* ended, and only a unit with such a tenancy is under inspection.
OneInspection ==
  \A u \in Units :
    /\ AwaitingInspection(u) \subseteq {lastEnded[u]}
    /\ unitStatus[u] = "inspection" => AwaitingInspection(u) # {}

\* The partial unique index uq_bookings_active_unit never has to refuse.
OneActiveBooking ==
  \A u \in Units : \A b, c \in ActiveBookings(u) : b = c

\* Neither has uq_tenancies_live_unit: nobody moves in with somebody else.
OneLiveTenancy ==
  \A u \in Units : \A t, s \in LiveTenancies(u) : t = s

\* A booking, its payment and its ledger entries tell the same story: both
\* entries exist exactly for the bookings whose money was confirmed.
MoneyAgrees ==
  \A b \in Bookings :
    /\ payment[b] = CASE bookingStatus[b] = "pending_payment" -> "pending"
                      [] bookingStatus[b] = "payment_review"  -> "submitted"
                      [] bookingStatus[b] = "fulfilled"       -> "confirmed"
                      [] OTHER                                -> bookingStatus[b]
    /\ ledger[b] = IF payment[b] = "confirmed" THEN 2 ELSE 0

\* A reference is claimed by exactly the booking whose submitted or
\* confirmed payment quotes it, so two such payments never quote the same
\* one, and a rejected payment leaves its reference to its rightful payer.
ClaimsFollowPayments ==
  \A r \in References, b \in Bookings :
    claim[r] = b <=> payment[b] \in {"submitted", "confirmed"} /\ reference[b] = r

\* Nobody reserves a unit for a day on which the tenant under notice may
\* still be in it, whatever is booked, cancelled and rebooked meanwhile.
ReservedAfterNotice ==
  \A u \in Units : \A t \in UnderNotice(u), b \in ActiveBookings(u) :
    moveOut[t] < moveIn[b]

\* Two facts the invariants above need to be kept by every step: a unit is
\* let again only after its inspections, and the first day on offer is the
\* day after the tenant under notice leaves.
InspectedWhileLet ==
  \A u \in Units : LiveTenancies(u) # {} => AwaitingInspection(u) = {}

OfferedAfterNotice ==
  \A u \in Units : \A t \in UnderNotice(u) : availableFrom[u] = moveOut[t] + 1

\* The inductive invariant of the handlers.
IInv == /\ TypeOK
        /\ UnitFollowsBooking /\ OneActiveBooking
        /\ UnitFollowsTenancy /\ OneLiveTenancy
        /\ OneInspection      /\ InspectedWhileLet
        /\ MoneyAgrees        /\ ClaimsFollowPayments
        /\ ReservedAfterNotice /\ OfferedAfterNotice

\* A tenancy starts only when every earlier tenancy of the unit has ended
\* and its move-out was inspected.
MoveInAfterInspection ==
  [][\A b \in Bookings :
       tenancy[b] = "none" /\ tenancy'[b] # "none" =>
         \A t \in Bookings \ {b} :
           bookingUnit[t] = bookingUnit[b] =>
             tenancy[t] = "none" \/ (tenancy[t] = "ended" /\ inspected[t])]_vars

\* Money under review is decided by an administrator: neither the seeker
\* nor the deadline takes a booking out of payment_review.
ReviewIsDecided ==
  [][\A b \in Bookings :
       bookingStatus[b] = "payment_review" =>
         bookingStatus'[b] \in {"payment_review", "confirmed", "rejected"}]_vars

\* What the promises of Reservation read in the tables.
Reserved == [u \in Units |-> ActiveBookings(u)]
Funded == {b \in Bookings : bookingStatus[b] \in {"confirmed", "fulfilled"}}
Occupants == [u \in Units |-> LiveTenancies(u)]
Vacated == [u \in Units |-> AwaitingInspection(u)]
Spent == {b \in Bookings : bookingStatus[b] # "none"}

R == INSTANCE Reservation WITH reserved <- Reserved, funded <- Funded,
       occupants <- Occupants, vacated <- Vacated, spent <- Spent

\* Every behaviour of the handlers is one the marketplace promises.
ImplementsReservation == R!Spec

\* README and docs/ARCHITECTURE.md: a unit goes back to "available" from
\* "inspection".  A unit on offer as available has no inspection pending.
AvailableIsInspected ==
  \A u \in Units : unitStatus[u] = "available" => AwaitingInspection(u) = {}
=============================================================================
