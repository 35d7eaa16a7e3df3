----------------------------- MODULE RentalTypes -----------------------------
(***************************************************************************)
(* The status columns of the rental tables, as the enumerations of         *)
(* backend/app/models declare them, without the two values no code ever    *)
(* assigns (UnitStatus.INACTIVE, PaymentStatus.REFUNDED).  "none" stands   *)
(* for a row that has not been inserted yet.                               *)
(***************************************************************************)

UnitStatus == {"available", "booking_pending", "booked", "occupied",
               "notice_given", "vacating_soon", "inspection"}

BookingStatus == {"pending_payment", "payment_review", "confirmed",
                  "fulfilled", "rejected", "cancelled", "expired"}

PaymentStatus == {"pending", "submitted", "confirmed", "rejected",
                  "cancelled", "expired"}

TenancyStatus == {"active", "notice_given", "ended"}

\* A seeker may hold and book a unit in one of these states only.
BookableStatus == {"available", "vacating_soon"}

\* The bookings that uq_bookings_active_unit allows once per unit.
ActiveStatus == {"pending_payment", "payment_review", "confirmed"}

\* The tenancies that uq_tenancies_live_unit allows once per unit.
LiveStatus == {"active", "notice_given"}

\* What a unit becomes when its booking fails, from what is found of its
\* tenancies: one under notice (readvertised or not), one not yet inspected.
ReleasedStatus(underNotice, readvertised, inspectionPending) ==
  CASE underNotice /\ readvertised        -> "vacating_soon"
    [] underNotice /\ ~readvertised       -> "notice_given"
    [] ~underNotice /\ inspectionPending  -> "inspection"
    [] OTHER                              -> "available"
=============================================================================
