------------------------- MODULE UnitLifecycleProofs -------------------------
(***************************************************************************)
(* The safety properties of UnitLifecycle for any units, bookings, users,  *)
(* references and calendar.  IInv is inductive; one lemma per conjunct     *)
(* shows that a step keeps it.  A step that leaves the columns of the      *)
(* conjunct alone is one case (the frame), every other action is a case of *)
(* its own.  From IInv follow the invariants the runs check, that every    *)
(* step is one of Reservation or a stutter, and the two action properties. *)
(***************************************************************************)
EXTENDS UnitLifecycle, TLAPS

\* Every row the program starts with has the type of its column.
LEMMA TypeInit == Init => TypeOK
  BY NoneAssumption DEF Init, TypeOK, Days, UnitStatus, BookingStatus, PaymentStatus, TenancyStatus

\* No handler writes a value its column cannot hold, or a tenancy whose
\* booking is not fulfilled.
LEMMA TypeStep == TypeOK /\ [Next]_vars => TypeOK'
<1> SUFFICES ASSUME TypeOK, [Next]_vars PROVE TypeOK'
  OBVIOUS
<1> USE NoneAssumption DEF TypeOK, Days, UnitStatus, BookingStatus, PaymentStatus,
        TenancyStatus, unitVars, bookingVars, payVars, tenancyVars, References
<1>1. CASE NextDay
  BY <1>1 DEF NextDay
<1>2. CASE ExpireStaleBookings
  BY <1>2 DEF ExpireStaleBookings, Stale, StatusAfterRelease, ReleasedStatus
<1>3. ASSUME NEW u \in Units, HoldExpires(u) PROVE TypeOK'
  BY <1>3 DEF HoldExpires
<1>4. ASSUME NEW x \in Users, NEW u \in Units, AcquireBookingHold(x, u) PROVE TypeOK'
  BY <1>4 DEF AcquireBookingHold
<1>5. ASSUME NEW x \in Users, NEW u \in Units, NEW b \in Bookings, NEW day \in Days,
             CreateBooking(x, u, b, day)
      PROVE  TypeOK'
  BY <1>5 DEF CreateBooking
<1>6. ASSUME NEW b \in Bookings, NEW r \in References, bookingStatus[b] = "pending_payment",
             EnterReview(b, r)
      PROVE  TypeOK'
  BY <1>6 DEF EnterReview
<1>7. ASSUME NEW t \in Bookings, NEW day \in Days, NEW again \in BOOLEAN,
             GiveNotice(t, day, again)
      PROVE  TypeOK'
  BY <1>7 DEF GiveNotice, DayAfter
<1>8. ASSUME NEW b \in Bookings, DeadlinePasses(b) PROVE TypeOK'
  BY <1>8 DEF DeadlinePasses
<1>9. ASSUME NEW b \in Bookings, ConfirmBooking(b) PROVE TypeOK'
  BY <1>9 DEF ConfirmBooking
<1>10. ASSUME NEW b \in Bookings, RejectBookingPayment(b) PROVE TypeOK'
  BY <1>10 DEF RejectBookingPayment, StatusAfterRelease, ReleasedStatus
<1>11. ASSUME NEW b \in Bookings, CancelBooking(b) PROVE TypeOK'
  BY <1>11 DEF CancelBooking, StatusAfterRelease, ReleasedStatus
<1>12. ASSUME NEW b \in Bookings, ActivateTenancy(b) PROVE TypeOK'
  BY <1>12 DEF ActivateTenancy
<1>13. ASSUME NEW b \in Bookings, EndTenancy(b) PROVE TypeOK'
  BY <1>13 DEF EndTenancy, StatusAfterMoveOut, LiveStatus
<1>14. ASSUME NEW b \in Bookings, CompleteInspection(b) PROVE TypeOK'
  BY <1>14 DEF CompleteInspection
<1>15. CASE UNCHANGED vars
  BY <1>15 DEF vars
<1> HIDE DEF TypeOK
<1> QED
  BY <1>1, <1>2, <1>3, <1>4, <1>5, <1>6, <1>7, <1>8, <1>9, <1>10, <1>11, <1>12, <1>13,
      <1>14, <1>15 DEF Next, SubmitBookingPayment, ProcessBookingPaid

\* booking_pending and booked stay equivalent to an unpaid or reviewed, and a
\* confirmed, booking: each handler moves unit and booking together, and a new
\* booking needs a unit that has none.
LEMMA BookingStep ==
  ASSUME IInv, [Next]_vars
  PROVE  UnitFollowsBooking' /\ OneActiveBooking'
<1> USE NoneAssumption DEF ActiveBookings, ActiveStatus, UnitFollowsBooking, OneActiveBooking
<1>t. TypeOK /\ UnitFollowsBooking /\ OneActiveBooking /\ UnitFollowsTenancy
  BY DEF IInv
<1>1. CASE UNCHANGED <<unitStatus, bookingStatus, bookingUnit>>
  BY <1>t, <1>1
<1>2. CASE ExpireStaleBookings
  <2> USE <1>2, <1>t DEF ExpireStaleBookings, Stale, bookingVars, TypeOK
  <2>1. \A u \in Units : StatusAfterRelease(u) \notin {"booking_pending", "booked"}
    BY DEF StatusAfterRelease, ReleasedStatus
  <2>2. OneActiveBooking'
    OBVIOUS
  <2>3. ASSUME NEW u \in Units, NEW b \in Stale, bookingUnit[b] = u
        PROVE  /\ ActiveBookings(u)' = {}
               /\ unitStatus'[u] \notin {"booking_pending", "booked"}
    <3>1. b \in ActiveBookings(u) /\ unitStatus[u] = "booking_pending"
      BY <2>3
    <3>2. \A c \in Bookings : c # b => c \notin ActiveBookings(u)
      BY <3>1
    <3> QED BY <3>1, <3>2, <2>1, <2>3
  <2>4. ASSUME NEW u \in Units, \A b \in Stale : bookingUnit[b] # u
        PROVE  /\ ActiveBookings(u)' = ActiveBookings(u)
               /\ \A b \in ActiveBookings(u) : bookingStatus'[b] = bookingStatus[b]
               /\ unitStatus'[u] = unitStatus[u]
    BY <2>4
  <2>5. UnitFollowsBooking'
    <3> SUFFICES ASSUME NEW u \in Units
                 PROVE  /\ unitStatus'[u] = "booking_pending" <=>
                              \E b \in ActiveBookings(u)' : bookingStatus'[b] # "confirmed"
                        /\ unitStatus'[u] = "booked" <=>
                              \E b \in ActiveBookings(u)' : bookingStatus'[b] = "confirmed"
      BY DEF UnitFollowsBooking
    <3> HIDE <1>2, <1>t DEF ActiveBookings, ActiveStatus, ExpireStaleBookings, Stale,
        OneActiveBooking, TypeOK, UnitFollowsBooking
    <3>1. CASE \E b \in Stale : bookingUnit[b] = u
      <4>1. /\ ActiveBookings(u)' = {}
            /\ unitStatus'[u] \notin {"booking_pending", "booked"}
        BY <2>3, <3>1
      <4> QED BY <4>1
    <3>2. CASE \A b \in Stale : bookingUnit[b] # u
      <4>1. /\ ActiveBookings(u)' = ActiveBookings(u)
            /\ \A b \in ActiveBookings(u) : bookingStatus'[b] = bookingStatus[b]
            /\ unitStatus'[u] = unitStatus[u]
        BY <2>4, <3>2
      <4>2. /\ unitStatus[u] = "booking_pending" <=>
                 \E b \in ActiveBookings(u) : bookingStatus[b] # "confirmed"
            /\ unitStatus[u] = "booked" <=>
                 \E b \in ActiveBookings(u) : bookingStatus[b] = "confirmed"
        BY <1>t DEF UnitFollowsBooking
      <4> QED BY <4>1, <4>2
    <3> QED BY <3>1, <3>2
  <2> QED BY <2>2, <2>5
<1>3. ASSUME NEW x \in Users, NEW u \in Units, NEW b \in Bookings, NEW day \in Days,
             CreateBooking(x, u, b, day)
      PROVE  UnitFollowsBooking' /\ OneActiveBooking'
  BY <1>t, <1>3 DEF CreateBooking, TypeOK, BookableStatus
<1>4. ASSUME NEW b \in Bookings, NEW r \in References,
             bookingStatus[b] = "pending_payment", EnterReview(b, r)
      PROVE  UnitFollowsBooking' /\ OneActiveBooking'
  BY <1>t, <1>4 DEF EnterReview, TypeOK, unitVars, bookingVars
<1>5. ASSUME NEW b \in Bookings, ConfirmBooking(b)
      PROVE  UnitFollowsBooking' /\ OneActiveBooking'
  BY <1>t, <1>5 DEF ConfirmBooking, TypeOK, bookingVars
<1>6. ASSUME NEW b \in Bookings, RejectBookingPayment(b) \/ CancelBooking(b)
      PROVE  UnitFollowsBooking' /\ OneActiveBooking'
  <2>1. PICK u \in Units : /\ u = bookingUnit[b]
                           /\ b \in ActiveBookings(u)
                           /\ StatusAfterRelease(u) \notin {"booking_pending", "booked"}
    BY <1>t, <1>6 DEF RejectBookingPayment, CancelBooking, TypeOK, StatusAfterRelease,
        ReleasedStatus
  <2>2. /\ unitStatus' = [unitStatus EXCEPT ![u] = StatusAfterRelease(u)]
        /\ bookingUnit' = bookingUnit
        /\ bookingStatus'[b] \notin ActiveStatus
        /\ \A c \in Bookings \ {b} : bookingStatus'[c] = bookingStatus[c]
    BY <1>t, <1>6, <2>1 DEF RejectBookingPayment, CancelBooking, TypeOK, bookingVars
  <2>3. ActiveBookings(u)' = {}
    BY <1>t, <2>1, <2>2 DEF TypeOK
  <2>4. unitStatus'[u] = StatusAfterRelease(u)
    BY <1>t, <2>2 DEF TypeOK
  <2>5. ASSUME NEW v \in Units \ {u}
        PROVE  /\ ActiveBookings(v)' = ActiveBookings(v)
               /\ \A c \in ActiveBookings(v) : bookingStatus'[c] = bookingStatus[c]
               /\ unitStatus'[v] = unitStatus[v]
    BY <1>t, <2>1, <2>2 DEF TypeOK
  <2>6. UnitFollowsBooking'
    BY <1>t, <2>1, <2>3, <2>4, <2>5
  <2>7. OneActiveBooking'
    BY <1>t, <2>3, <2>5
  <2> QED BY <2>6, <2>7
<1>7. ASSUME NEW b \in Bookings, ActivateTenancy(b)
      PROVE  UnitFollowsBooking' /\ OneActiveBooking'
  BY <1>t, <1>7 DEF ActivateTenancy, TypeOK, bookingVars
<1>8. ASSUME NEW t \in Bookings, NEW day \in Days, NEW again \in BOOLEAN, GiveNotice(t, day, again)
      PROVE  UnitFollowsBooking' /\ OneActiveBooking'
  BY <1>t, <1>8 DEF GiveNotice, TypeOK, bookingVars, UnitFollowsTenancy, TellsItsTenancy,
      LiveTenancies, LiveStatus
<1>9. ASSUME NEW t \in Bookings, EndTenancy(t)
      PROVE  UnitFollowsBooking' /\ OneActiveBooking'
  BY <1>t, <1>9 DEF EndTenancy, TypeOK, bookingVars, StatusAfterMoveOut, LiveStatus
<1>10. ASSUME NEW t \in Bookings, CompleteInspection(t)
      PROVE  UnitFollowsBooking' /\ OneActiveBooking'
  BY <1>t, <1>10 DEF CompleteInspection, TypeOK, bookingVars, unitVars
<1> HIDE DEF UnitFollowsBooking, OneActiveBooking
<1> QED
  BY <1>1, <1>2, <1>3, <1>4, <1>5, <1>6, <1>7, <1>8, <1>9, <1>10
  DEF Next, vars, unitVars, bookingVars, NextDay, HoldExpires, AcquireBookingHold,
      DeadlinePasses, SubmitBookingPayment, ProcessBookingPaid, References

\* The four results of _release_unit_after_failed_booking.
LEMMA ReleaseFact ==
  ASSUME NEW u \in Units
  PROVE  /\ StatusAfterRelease(u) \in {"vacating_soon", "notice_given", "inspection", "available"}
         /\ StatusAfterRelease(u) = "vacating_soon" => \E t \in UnderNotice(u) : readvertise[t]
         /\ StatusAfterRelease(u) = "notice_given" => \E t \in UnderNotice(u) : ~readvertise[t]
         /\ StatusAfterRelease(u) \in {"inspection", "available"} => UnderNotice(u) = {}
         /\ StatusAfterRelease(u) = "inspection" => AwaitingInspection(u) # {}
  BY DEF StatusAfterRelease, ReleasedStatus

\* What a release makes of a unit agrees with the tenancy it finds there.
LEMMA ReleasedUnit ==
  ASSUME NEW u \in Units, TellsItsTenancy(u), unitStatus[u] = "booking_pending",
         unitStatus'[u] = StatusAfterRelease(u),
         UNCHANGED <<tenancy, readvertise, bookingUnit>>
  PROVE  TellsItsTenancy(u)'
<1>1. UnderNotice(u)' = UnderNotice(u) /\ LiveTenancies(u)' = LiveTenancies(u)
  BY DEF UnderNotice, LiveTenancies
<1>2. LiveTenancies(u) = UnderNotice(u)
  BY DEF TellsItsTenancy, UnderNotice, LiveTenancies, LiveStatus
<1>3. \A t \in UnderNotice(u) : tenancy[t] = "notice_given"
  BY DEF UnderNotice
<1> QED
  BY <1>1, <1>2, <1>3, ReleaseFact DEF TellsItsTenancy

\* The status of a unit keeps telling its tenancy, and two tenants never share
\* it: activation looks for a live tenancy first.
LEMMA TenancyStep ==
  ASSUME IInv, [Next]_vars
  PROVE  UnitFollowsTenancy' /\ OneLiveTenancy'
<1> DEFINE Goal == UnitFollowsTenancy' /\ OneLiveTenancy'
<1> USE NoneAssumption DEF UnderNotice, LiveTenancies, LiveStatus, TellsItsTenancy,
    UnitFollowsTenancy, OneLiveTenancy
<1>t. TypeOK /\ UnitFollowsBooking /\ UnitFollowsTenancy /\ OneLiveTenancy
  BY DEF IInv
<1>1. CASE UNCHANGED <<unitStatus, tenancy, readvertise, bookingUnit>>
  BY <1>t, <1>1
<1>2. CASE ExpireStaleBookings
  <2>1. UNCHANGED <<tenancy, readvertise, bookingUnit>>
    BY <1>2 DEF ExpireStaleBookings, bookingVars, tenancyVars
  <2>2. \A u \in Units :
          \/ unitStatus'[u] = unitStatus[u]
          \/ unitStatus[u] = "booking_pending" /\ unitStatus'[u] = StatusAfterRelease(u)
    BY <1>2 DEF ExpireStaleBookings
  <2>3. OneLiveTenancy'
    BY <1>t, <2>1
  <2>4. ASSUME NEW u \in Units PROVE TellsItsTenancy(u)'
    <3>1. CASE unitStatus'[u] = unitStatus[u]
      BY <1>t, <2>1, <3>1
    <3>2. CASE unitStatus[u] = "booking_pending" /\ unitStatus'[u] = StatusAfterRelease(u)
      BY <1>t, <2>1, <3>2, ReleasedUnit
    <3> QED BY <2>2, <3>1, <3>2
  <2> HIDE DEF TellsItsTenancy, OneLiveTenancy
  <2> QED BY <2>3, <2>4
<1>3. ASSUME NEW x \in Users, NEW u \in Units, NEW b \in Bookings, NEW day \in Days,
             CreateBooking(x, u, b, day)
      PROVE  Goal
  <2>1. \A t \in Bookings : tenancy[t] # "none" => t # b
    BY <1>t, <1>3 DEF CreateBooking, TypeOK
  <2>2. UNCHANGED <<tenancy, readvertise>>
    BY <1>3 DEF CreateBooking, tenancyVars
  <2> QED BY <1>t, <1>3, <2>1, <2>2 DEF CreateBooking, TypeOK, BookableStatus
<1>4. ASSUME NEW b \in Bookings, ConfirmBooking(b)
      PROVE  Goal
  BY <1>t, <1>4 DEF ConfirmBooking, TypeOK, bookingVars, tenancyVars
<1>5. ASSUME NEW b \in Bookings, RejectBookingPayment(b) \/ CancelBooking(b)
      PROVE  Goal
  <2>0. PICK u \in Units : u = bookingUnit[b]
    BY <1>t, <1>5 DEF RejectBookingPayment, CancelBooking, TypeOK
  <2>1. unitStatus[u] = "booking_pending"
    BY <1>t, <1>5, <2>0 DEF RejectBookingPayment, CancelBooking, TypeOK, UnitFollowsBooking,
        ActiveBookings, ActiveStatus
  <2>2. /\ unitStatus' = [unitStatus EXCEPT ![u] = StatusAfterRelease(u)]
        /\ UNCHANGED <<tenancy, readvertise, bookingUnit>>
    BY <1>5, <2>0 DEF RejectBookingPayment, CancelBooking, bookingVars, tenancyVars
  <2>3. OneLiveTenancy'
    BY <1>t, <2>2
  <2>4. ASSUME NEW v \in Units PROVE TellsItsTenancy(v)'
    <3>1. CASE v = u
      <4>1. unitStatus'[u] = StatusAfterRelease(u)
        BY <1>t, <2>2 DEF TypeOK
      <4> QED BY <1>t, <2>1, <2>2, <3>1, <4>1, ReleasedUnit
    <3>2. CASE v # u
      <4>1. unitStatus'[v] = unitStatus[v]
        BY <1>t, <2>2, <3>2 DEF TypeOK
      <4> QED BY <1>t, <2>2, <4>1
    <3> QED BY <3>1, <3>2
  <2> QED BY <2>3, <2>4
<1>6. ASSUME NEW b \in Bookings, ActivateTenancy(b)
      PROVE  Goal
  BY <1>t, <1>6 DEF ActivateTenancy, MayMoveIn, TypeOK, bookingVars
<1>7. ASSUME NEW t \in Bookings, NEW day \in Days, NEW again \in BOOLEAN, GiveNotice(t, day, again)
      PROVE  Goal
  BY <1>t, <1>7 DEF GiveNotice, TypeOK, bookingVars
<1>8. ASSUME NEW t \in Bookings, EndTenancy(t)
      PROVE  Goal
  BY <1>t, <1>8 DEF EndTenancy, TypeOK, bookingVars, StatusAfterMoveOut
<1>9. ASSUME NEW t \in Bookings, CompleteInspection(t)
      PROVE  Goal
  BY <1>t, <1>9 DEF CompleteInspection, TypeOK, bookingVars, unitVars
<1> HIDE DEF UnitFollowsTenancy, OneLiveTenancy
<1> QED
  BY <1>1, <1>2, <1>3, <1>4, <1>5, <1>6, <1>7, <1>8, <1>9
  DEF EnterReview, Next, vars, unitVars, bookingVars, payVars, tenancyVars, NextDay,
      HoldExpires, AcquireBookingHold, DeadlinePasses,
      SubmitBookingPayment, ProcessBookingPaid, References

\* At most one tenancy of a unit awaits its inspection, the latest to end:
\* the next move-in waits for it.
LEMMA InspectionStep ==
  ASSUME IInv, [Next]_vars
  PROVE  OneInspection' /\ InspectedWhileLet'
<1> DEFINE Goal == OneInspection' /\ InspectedWhileLet'
<1> USE NoneAssumption DEF LiveTenancies, LiveStatus, AwaitingInspection, OneInspection,
    InspectedWhileLet
<1>t. TypeOK /\ UnitFollowsBooking /\ OneInspection /\ InspectedWhileLet /\ OneLiveTenancy
  BY DEF IInv
<1>1. CASE UNCHANGED <<unitStatus, tenancy, inspected, lastEnded, bookingUnit>>
  BY <1>t, <1>1
<1>2. CASE ExpireStaleBookings
  <2>1. UNCHANGED <<tenancy, inspected, lastEnded, bookingUnit>>
    BY <1>2 DEF ExpireStaleBookings, bookingVars, tenancyVars
  <2>2. \A u \in Units : unitStatus'[u] = unitStatus[u] \/ unitStatus'[u] = StatusAfterRelease(u)
    BY <1>2 DEF ExpireStaleBookings
  <2> QED BY <1>t, <2>1, <2>2 DEF StatusAfterRelease, ReleasedStatus, TypeOK
<1>3. ASSUME NEW x \in Users, NEW u \in Units, NEW b \in Bookings, NEW day \in Days,
             CreateBooking(x, u, b, day)
      PROVE  Goal
  <2>1. \A t \in Bookings : tenancy[t] # "none" => t # b
    BY <1>t, <1>3 DEF CreateBooking, TypeOK
  <2>2. UNCHANGED <<tenancy, inspected, lastEnded>>
    BY <1>3 DEF CreateBooking, tenancyVars
  <2> QED BY <1>t, <1>3, <2>1, <2>2 DEF CreateBooking, TypeOK
<1>4. ASSUME NEW b \in Bookings, ConfirmBooking(b)
      PROVE  Goal
  BY <1>t, <1>4 DEF ConfirmBooking, TypeOK, bookingVars, tenancyVars
<1>5. ASSUME NEW b \in Bookings, RejectBookingPayment(b) \/ CancelBooking(b)
      PROVE  Goal
  <2>0. PICK u \in Units : u = bookingUnit[b]
    BY <1>t, <1>5 DEF RejectBookingPayment, CancelBooking, TypeOK
  <2>1. /\ unitStatus' = [unitStatus EXCEPT ![u] = StatusAfterRelease(u)]
        /\ UNCHANGED <<tenancy, inspected, lastEnded, bookingUnit>>
    BY <1>5, <2>0 DEF RejectBookingPayment, CancelBooking, bookingVars, tenancyVars
  <2> QED BY <1>t, <2>1 DEF StatusAfterRelease, ReleasedStatus, TypeOK
<1>6. ASSUME NEW b \in Bookings, ActivateTenancy(b)
      PROVE  Goal
  <2>0. PICK u \in Units : u = bookingUnit[b]
    BY <1>t, <1>6 DEF ActivateTenancy, TypeOK
  <2>1. unitStatus' = [unitStatus EXCEPT ![u] = "occupied"]
    BY <1>t, <1>6, <2>0 DEF ActivateTenancy, TypeOK
  <2>2. /\ tenancy' = [tenancy EXCEPT ![b] = "active"]
        /\ UNCHANGED <<inspected, lastEnded, bookingUnit>>
    BY <1>6 DEF ActivateTenancy, bookingVars
  <2>3. AwaitingInspection(u) = {}
    BY <1>t, <1>6, <2>0 DEF ActivateTenancy, MayMoveIn, TypeOK
  <2>4. tenancy[b] = "none"
    BY <1>6 DEF ActivateTenancy
  <2>5. \A v \in Units : AwaitingInspection(v)' = AwaitingInspection(v)
    BY <1>t, <2>2, <2>4 DEF TypeOK
  <2>6. \A v \in Units : v # u => LiveTenancies(v)' = LiveTenancies(v)
    BY <1>t, <2>0, <2>2, <2>4 DEF TypeOK
  <2>7. \A v \in Units : v # u => unitStatus'[v] = unitStatus[v]
    BY <1>t, <2>1 DEF TypeOK
  <2>8. unitStatus'[u] = "occupied"
    BY <1>t, <2>1 DEF TypeOK
  <2> HIDE DEF AwaitingInspection, LiveTenancies
  <2> QED BY <1>t, <2>1, <2>2, <2>3, <2>5, <2>6, <2>7, <2>8
<1>7. ASSUME NEW t \in Bookings, NEW day \in Days, NEW again \in BOOLEAN, GiveNotice(t, day, again)
      PROVE  Goal
  BY <1>t, <1>7 DEF GiveNotice, TypeOK, bookingVars
<1>8. ASSUME NEW t \in Bookings, EndTenancy(t)
      PROVE  Goal
  <2>0. PICK u \in Units : u = bookingUnit[t]
    BY <1>t, <1>8 DEF EndTenancy, TypeOK
  <2>1. t \in LiveTenancies(u)
    BY <1>8, <2>0 DEF EndTenancy
  <2>2. /\ tenancy' = [tenancy EXCEPT ![t] = "ended"]
        /\ inspected' = [inspected EXCEPT ![t] = FALSE]
        /\ lastEnded' = [lastEnded EXCEPT ![u] = t]
        /\ unitStatus' = [unitStatus EXCEPT ![u] = StatusAfterMoveOut(u)]
        /\ bookingUnit' = bookingUnit
    BY <1>8, <2>0 DEF EndTenancy, bookingVars
  <2>3. AwaitingInspection(u) = {}
    BY <1>t, <2>1
  <2>4. AwaitingInspection(u)' = {t} /\ LiveTenancies(u)' = {}
    BY <1>t, <2>0, <2>1, <2>2, <2>3 DEF TypeOK, OneLiveTenancy
  <2>5. \A v \in Units : v # u => /\ AwaitingInspection(v)' = AwaitingInspection(v)
                                 /\ LiveTenancies(v)' = LiveTenancies(v)
                                 /\ lastEnded'[v] = lastEnded[v]
                                 /\ unitStatus'[v] = unitStatus[v]
    BY <1>t, <2>0, <2>2 DEF TypeOK
  <2>6. lastEnded'[u] = t
    BY <1>t, <2>1, <2>2 DEF TypeOK
  <2> HIDE DEF AwaitingInspection, LiveTenancies
  <2> QED BY <1>t, <2>1, <2>4, <2>5, <2>6
<1>9. ASSUME NEW t \in Bookings, CompleteInspection(t)
      PROVE  Goal
  BY <1>t, <1>9 DEF CompleteInspection, TypeOK, bookingVars, unitVars
<1> HIDE DEF OneInspection, InspectedWhileLet
<1> QED
  BY <1>1, <1>2, <1>3, <1>4, <1>5, <1>6, <1>7, <1>8, <1>9
  DEF EnterReview, Next, vars, unitVars, bookingVars, payVars, tenancyVars, NextDay,
      HoldExpires, AcquireBookingHold, DeadlinePasses,
      SubmitBookingPayment, ProcessBookingPaid, References

\* A booking, its payment and its ledger entries move together.
LEMMA MoneyStep ==
  ASSUME IInv, [Next]_vars
  PROVE  MoneyAgrees'
<1> USE NoneAssumption DEF MoneyAgrees
<1>t. TypeOK /\ MoneyAgrees
  BY DEF IInv
<1>1. CASE UNCHANGED <<bookingStatus, payment, ledger>>
  BY <1>t, <1>1
<1>2. CASE ExpireStaleBookings
  BY <1>t, <1>2 DEF ExpireStaleBookings, Stale, TypeOK
<1>3. ASSUME NEW x \in Users, NEW u \in Units, NEW b \in Bookings, NEW day \in Days,
             CreateBooking(x, u, b, day)
      PROVE  MoneyAgrees'
  BY <1>t, <1>3 DEF CreateBooking, TypeOK
<1>4. ASSUME NEW b \in Bookings, NEW r \in References,
             bookingStatus[b] = "pending_payment", EnterReview(b, r)
      PROVE  MoneyAgrees'
  BY <1>t, <1>4 DEF EnterReview, TypeOK
<1>5. ASSUME NEW b \in Bookings, ConfirmBooking(b)
      PROVE  MoneyAgrees'
  BY <1>t, <1>5 DEF ConfirmBooking, TypeOK
<1>6. ASSUME NEW b \in Bookings, RejectBookingPayment(b)
      PROVE  MoneyAgrees'
  BY <1>t, <1>6 DEF RejectBookingPayment, TypeOK
<1>7. ASSUME NEW b \in Bookings, CancelBooking(b)
      PROVE  MoneyAgrees'
  BY <1>t, <1>7 DEF CancelBooking, TypeOK
<1>8. ASSUME NEW b \in Bookings, ActivateTenancy(b)
      PROVE  MoneyAgrees'
  BY <1>t, <1>8 DEF ActivateTenancy, TypeOK, payVars
<1> HIDE DEF MoneyAgrees
<1> QED
  BY <1>1, <1>2, <1>3, <1>4, <1>5, <1>6, <1>7, <1>8
  DEF GiveNotice, EndTenancy, CompleteInspection, Next, vars, unitVars, bookingVars,
      payVars, tenancyVars, NextDay, HoldExpires, AcquireBookingHold, DeadlinePasses,
      SubmitBookingPayment, ProcessBookingPaid, References

\* A claim comes with the submission that quotes it and goes with the
\* rejection of that payment.
LEMMA ClaimStep ==
  ASSUME IInv, [Next]_vars
  PROVE  ClaimsFollowPayments'
<1> USE NoneAssumption DEF ClaimsFollowPayments
<1>t. TypeOK /\ MoneyAgrees /\ ClaimsFollowPayments
  BY DEF IInv
<1>1. CASE UNCHANGED <<payment, claim, reference>>
  BY <1>t, <1>1
<1>2. CASE ExpireStaleBookings
  BY <1>t, <1>2 DEF ExpireStaleBookings, TypeOK
<1>3. ASSUME NEW x \in Users, NEW u \in Units, NEW b \in Bookings, NEW day \in Days,
             CreateBooking(x, u, b, day)
      PROVE  ClaimsFollowPayments'
  <2>1. payment[b] = "none"
    BY <1>t, <1>3 DEF CreateBooking, MoneyAgrees
  <2> QED BY <1>t, <1>3, <2>1 DEF CreateBooking, TypeOK
<1>4. ASSUME NEW b \in Bookings, NEW r \in References,
             bookingStatus[b] = "pending_payment", EnterReview(b, r)
      PROVE  ClaimsFollowPayments'
  <2>1. payment[b] = "pending"
    BY <1>t, <1>4 DEF MoneyAgrees
  <2>2. claim[r] = None
    BY <1>t, <1>4, <2>1 DEF EnterReview, Claimable
  <2> QED BY <1>t, <1>4, <2>1, <2>2 DEF EnterReview, TypeOK
<1>5. ASSUME NEW b \in Bookings, ConfirmBooking(b)
      PROVE  ClaimsFollowPayments'
  BY <1>t, <1>5 DEF ConfirmBooking, TypeOK
<1>6. ASSUME NEW b \in Bookings, RejectBookingPayment(b)
      PROVE  ClaimsFollowPayments'
  BY <1>t, <1>6 DEF RejectBookingPayment, TypeOK
<1>7. ASSUME NEW b \in Bookings, CancelBooking(b)
      PROVE  ClaimsFollowPayments'
  <2>1. payment[b] = "pending"
    BY <1>t, <1>7 DEF MoneyAgrees, CancelBooking
  <2> QED BY <1>t, <1>7, <2>1 DEF CancelBooking, TypeOK
<1> HIDE DEF ClaimsFollowPayments
<1> QED
  BY <1>1, <1>2, <1>3, <1>4, <1>5, <1>6, <1>7
  DEF ActivateTenancy, GiveNotice, EndTenancy, CompleteInspection, Next, vars, unitVars,
      bookingVars, payVars, tenancyVars, NextDay, HoldExpires, AcquireBookingHold,
      DeadlinePasses,
      SubmitBookingPayment, ProcessBookingPaid, References

\* A unit under notice is on offer from the day after the move-out, and every
\* booking made since then starts on such a day.
LEMMA NoticeStep ==
  ASSUME IInv, [Next]_vars
  PROVE  ReservedAfterNotice' /\ OfferedAfterNotice'
<1> DEFINE Goal == ReservedAfterNotice' /\ OfferedAfterNotice'
<1> USE NoneAssumption DEF ReservedAfterNotice, OfferedAfterNotice, UnderNotice,
                           ActiveBookings, ActiveStatus
<1>t. /\ TypeOK /\ UnitFollowsBooking /\ UnitFollowsTenancy /\ OneLiveTenancy
      /\ ReservedAfterNotice /\ OfferedAfterNotice
  BY DEF IInv
<1>1. CASE /\ UNCHANGED <<availableFrom, tenancy, moveOut, moveIn, bookingUnit>>
           /\ \A b \in Bookings : bookingStatus'[b] \in ActiveStatus => bookingStatus[b] \in ActiveStatus
  BY <1>t, <1>1
<1>2. CASE ExpireStaleBookings
  BY <1>t, <1>2 DEF ExpireStaleBookings, TypeOK, bookingVars, tenancyVars
<1>3. ASSUME NEW x \in Users, NEW u \in Units, NEW b \in Bookings, NEW day \in Days,
             CreateBooking(x, u, b, day)
      PROVE  Goal
  <2>1. \A t \in Bookings : tenancy[t] # "none" => t # b
    BY <1>t, <1>3 DEF CreateBooking, TypeOK
  <2>2. UNCHANGED <<tenancy, moveOut, availableFrom>>
    BY <1>3 DEF CreateBooking, tenancyVars
  <2>3. \A t \in UnderNotice(u) : moveOut[t] < day
    BY <1>t, <1>3 DEF CreateBooking, TypeOK, Days
  <2> QED BY <1>t, <1>3, <2>1, <2>2, <2>3 DEF CreateBooking, TypeOK
<1>4. ASSUME NEW b \in Bookings, NEW r \in References,
             bookingStatus[b] = "pending_payment", EnterReview(b, r)
      PROVE  Goal
  BY <1>t, <1>4 DEF EnterReview, TypeOK, unitVars, bookingVars, tenancyVars
<1>5. ASSUME NEW b \in Bookings, ConfirmBooking(b)
      PROVE  Goal
  BY <1>t, <1>5 DEF ConfirmBooking, TypeOK, bookingVars, tenancyVars
<1>6. ASSUME NEW b \in Bookings, RejectBookingPayment(b) \/ CancelBooking(b)
      PROVE  Goal
  BY <1>t, <1>6 DEF RejectBookingPayment, CancelBooking, TypeOK, bookingVars, tenancyVars
<1>7. ASSUME NEW b \in Bookings, ActivateTenancy(b)
      PROVE  Goal
  BY <1>t, <1>7 DEF ActivateTenancy, TypeOK, bookingVars
<1>8. ASSUME NEW t \in Bookings, NEW day \in Days, NEW again \in BOOLEAN, GiveNotice(t, day, again)
      PROVE  Goal
  <2>0. PICK u \in Units : u = bookingUnit[t]
    BY <1>t, <1>8 DEF GiveNotice, TypeOK
  <2>1. unitStatus[u] = "occupied" /\ UnderNotice(u) = {}
    BY <1>t, <1>8, <2>0 DEF GiveNotice, UnitFollowsTenancy, TellsItsTenancy, LiveTenancies,
                           LiveStatus, OneLiveTenancy
  <2>2. ActiveBookings(u) = {}
    BY <1>t, <2>1 DEF UnitFollowsBooking
  <2>3. /\ UNCHANGED <<bookingStatus, moveIn, bookingUnit>>
        /\ tenancy' = [tenancy EXCEPT ![t] = "notice_given"]
        /\ moveOut' = [moveOut EXCEPT ![t] = day]
        /\ availableFrom' = [availableFrom EXCEPT ![u] = day + 1]
    BY <1>8, <2>0 DEF GiveNotice, DayAfter, bookingVars
  <2> QED BY <1>t, <2>0, <2>1, <2>2, <2>3 DEF TypeOK
<1>9. ASSUME NEW t \in Bookings, EndTenancy(t)
      PROVE  Goal
  BY <1>t, <1>9 DEF EndTenancy, TypeOK, bookingVars
<1>10. ASSUME NEW t \in Bookings, CompleteInspection(t)
      PROVE  Goal
  BY <1>t, <1>10 DEF CompleteInspection, TypeOK, bookingVars, unitVars, UnitFollowsTenancy,
                     TellsItsTenancy, LiveTenancies, LiveStatus
<1> HIDE DEF ReservedAfterNotice, OfferedAfterNotice
<1> QED
  BY <1>1, <1>2, <1>3, <1>4, <1>5, <1>6, <1>7, <1>8, <1>9, <1>10
  DEF Next, vars, unitVars, bookingVars, payVars, tenancyVars, NextDay, HoldExpires,
      AcquireBookingHold, DeadlinePasses,
      SubmitBookingPayment, ProcessBookingPaid, References

\* The inductive invariant holds of the empty tables.
LEMMA InitIInv == Init => IInv
<1> SUFFICES ASSUME Init PROVE IInv
  OBVIOUS
<1>1. TypeOK
  BY TypeInit
<1>2. /\ \A b \in Bookings : /\ bookingStatus[b] = "none" /\ payment[b] = "none"
                            /\ tenancy[b] = "none" /\ ledger[b] = 0
      /\ \A u \in Units : unitStatus[u] = "available"
      /\ \A r \in References : claim[r] = None
  BY DEF Init
<1>3. \A u \in Units : /\ ActiveBookings(u) = {} /\ LiveTenancies(u) = {}
                     /\ UnderNotice(u) = {} /\ AwaitingInspection(u) = {}
  BY <1>2 DEF ActiveBookings, ActiveStatus, LiveTenancies, LiveStatus, UnderNotice,
      AwaitingInspection
<1>4. UnitFollowsBooking /\ OneActiveBooking /\ UnitFollowsTenancy /\ OneLiveTenancy
  BY <1>2, <1>3 DEF UnitFollowsBooking, OneActiveBooking, UnitFollowsTenancy,
      TellsItsTenancy, OneLiveTenancy
<1>5. OneInspection /\ InspectedWhileLet /\ ReservedAfterNotice /\ OfferedAfterNotice
  BY <1>2, <1>3 DEF OneInspection, InspectedWhileLet, ReservedAfterNotice, OfferedAfterNotice
<1>6. MoneyAgrees /\ ClaimsFollowPayments
  BY <1>2, NoneAssumption DEF MoneyAgrees, ClaimsFollowPayments
<1> QED
  BY <1>1, <1>4, <1>5, <1>6 DEF IInv

\* Every handler keeps the inductive invariant: the lemmas above together.
LEMMA StepIInv == IInv /\ [Next]_vars => IInv'
<1> SUFFICES ASSUME IInv, [Next]_vars PROVE IInv'
  OBVIOUS
<1>1. TypeOK'
  BY TypeStep DEF IInv
<1> QED
  BY <1>1, BookingStep, TenancyStep, InspectionStep, MoneyStep, ClaimStep, NoticeStep DEF IInv

\* Every reachable state satisfies the inductive invariant.
THEOREM Inductive == Spec => []IInv
  BY InitIInv, StepIInv, PTL DEF Spec

\* Every column of every reachable state holds a value of its type.
THEOREM TypeCorrect == Spec => []TypeOK
<1>1. IInv => TypeOK
  BY DEF IInv
<1> QED BY <1>1, Inductive, PTL

\* Reviewing a payment always finds the unit as confirm_booking expects it.
THEOREM UnitsFollowBookings == Spec => [](UnitFollowsBooking /\ OneActiveBooking)
<1>1. IInv => UnitFollowsBooking /\ OneActiveBooking
  BY DEF IInv
<1> QED BY <1>1, Inductive, PTL

\* A unit's status never contradicts who lives in it.
THEOREM UnitsFollowTenancies == Spec => [](UnitFollowsTenancy /\ OneLiveTenancy /\ OneInspection)
<1>1. IInv => UnitFollowsTenancy /\ OneLiveTenancy /\ OneInspection
  BY DEF IInv
<1> QED BY <1>1, Inductive, PTL

\* Bookings, payments, ledger entries and reference claims agree.
THEOREM MoneyIsConsistent == Spec => [](MoneyAgrees /\ ClaimsFollowPayments)
<1>1. IInv => MoneyAgrees /\ ClaimsFollowPayments
  BY DEF IInv
<1> QED BY <1>1, Inductive, PTL

\* No reservation begins before the tenant under notice is due to leave.
THEOREM NoEarlyReservation == Spec => []ReservedAfterNotice
<1>1. IInv => ReservedAfterNotice
  BY DEF IInv
<1> QED BY <1>1, Inductive, PTL

-----------------------------------------------------------------------------
\* The empty tables are the initial state of Reservation.
LEMMA RefineInit == Init => R!Init
  BY NoneAssumption DEF Init, R!Init, Reserved, Funded, Occupants, Vacated, Spent,
     ActiveBookings, ActiveStatus, LiveTenancies, LiveStatus, AwaitingInspection

\* A handler that changes no booking status, no tenancy and no inspection is
\* a stutter of Reservation.
LEMMA RefineStutter ==
  ASSUME UNCHANGED <<bookingStatus, bookingUnit, tenancy, inspected>>
  PROVE  UNCHANGED R!vars
  BY DEF R!vars, Reserved, Funded, Occupants, Vacated, Spent,
     ActiveBookings, LiveTenancies, AwaitingInspection

\* create_booking reserves a unit that is reserved for nobody.
LEMMA RefineReserve ==
  ASSUME IInv, NEW x \in Users, NEW u \in Units, NEW b \in Bookings, NEW day \in Days,
         CreateBooking(x, u, b, day)
  PROVE  R!Reserve(u, b)
<1>1. /\ TypeOK
      /\ bookingStatus[b] = "none" /\ tenancy[b] = "none"
      /\ bookingStatus' = [bookingStatus EXCEPT ![b] = "pending_payment"]
      /\ bookingUnit' = [bookingUnit EXCEPT ![b] = u]
      /\ UNCHANGED <<tenancy, inspected>>
  BY DEF IInv, CreateBooking, TypeOK, tenancyVars
<1>2. ActiveBookings(u) = {}
  BY DEF IInv, CreateBooking, UnitFollowsBooking, BookableStatus
<1>3. Reserved[u] = {} /\ b \notin Spent
  BY <1>1, <1>2 DEF Reserved, Spent
<1>4. Spent' = Spent \cup {b} /\ Funded' = Funded
  BY <1>1 DEF Spent, Funded, TypeOK
<1>5. ASSUME NEW v \in Units
      PROVE  /\ ActiveBookings(v)' = IF v = u THEN {b} ELSE ActiveBookings(v)
             /\ LiveTenancies(v)' = LiveTenancies(v)
             /\ AwaitingInspection(v)' = AwaitingInspection(v)
  BY <1>1, <1>2 DEF ActiveBookings, ActiveStatus, LiveTenancies, LiveStatus,
      AwaitingInspection, TypeOK
<1>6. /\ Reserved' = [Reserved EXCEPT ![u] = {b}]
      /\ Occupants' = Occupants /\ Vacated' = Vacated
  BY <1>5 DEF Reserved, Occupants, Vacated
<1> QED
  BY <1>3, <1>4, <1>6 DEF R!Reserve

\* confirm_booking funds a reservation.
LEMMA RefineFund ==
  ASSUME IInv, NEW b \in Bookings, ConfirmBooking(b)
  PROVE  R!Fund(bookingUnit[b], b)
<1> PICK u \in Units : u = bookingUnit[b]
  BY DEF IInv, TypeOK, ConfirmBooking
<1>1. /\ TypeOK
      /\ bookingStatus[b] = "payment_review"
      /\ bookingStatus' = [bookingStatus EXCEPT ![b] = "confirmed"]
      /\ UNCHANGED <<bookingUnit, tenancy, inspected>>
  BY DEF IInv, ConfirmBooking, bookingVars, tenancyVars
<1>2. b \in Reserved[u] /\ b \notin Funded
  BY <1>1 DEF Reserved, Funded, ActiveBookings, ActiveStatus
<1>3. /\ Funded' = Funded \cup {b} /\ Spent' = Spent
      /\ Reserved' = Reserved /\ Occupants' = Occupants /\ Vacated' = Vacated
  BY <1>1 DEF Reserved, Funded, Spent, Occupants, Vacated, ActiveBookings, ActiveStatus,
              LiveTenancies, AwaitingInspection, TypeOK
<1> QED
  BY <1>2, <1>3 DEF R!Fund

\* What a rejection, a cancellation and an expiry have in common.
LEMMA RefineRelease ==
  ASSUME TypeOK, NEW S \in SUBSET Bookings,
         \A b \in S : bookingStatus[b] \in {"pending_payment", "payment_review"},
         \A b \in S : bookingStatus'[b] \in {"rejected", "cancelled", "expired"},
         \A b \in Bookings \ S : bookingStatus'[b] = bookingStatus[b],
         UNCHANGED <<bookingUnit, tenancy, inspected>>
  PROVE  R!Release(S)
<1>1. S \cap Funded = {} /\ Funded' = Funded /\ Spent' = Spent
  BY DEF Funded, Spent
<1>2. \A v \in Units : ActiveBookings(v)' = ActiveBookings(v) \ S
  BY DEF ActiveBookings, ActiveStatus
<1>3. Occupants' = Occupants /\ Vacated' = Vacated
  BY DEF Occupants, Vacated, LiveTenancies, AwaitingInspection
<1>4. Reserved' = [v \in Units |-> Reserved[v] \ S]
  BY <1>2 DEF Reserved
<1> QED
  BY <1>1, <1>3, <1>4 DEF R!Release

\* activate_tenancy lets the holder of a funded reservation into a unit that
\* is empty and inspected.
LEMMA RefineMoveIn ==
  ASSUME IInv, NEW b \in Bookings, ActivateTenancy(b)
  PROVE  R!MoveIn(bookingUnit[b], b)
<1> PICK u \in Units : u = bookingUnit[b]
  BY DEF IInv, TypeOK, ActivateTenancy
<1>1. /\ TypeOK /\ OneActiveBooking /\ OneInspection
      /\ bookingStatus[b] = "confirmed" /\ tenancy[b] = "none"
      /\ MayMoveIn(u)
      /\ bookingStatus' = [bookingStatus EXCEPT ![b] = "fulfilled"]
      /\ tenancy' = [tenancy EXCEPT ![b] = "active"]
      /\ UNCHANGED <<bookingUnit, inspected>>
  BY DEF IInv, ActivateTenancy, bookingVars
<1>2. ActiveBookings(u) = {b} /\ LiveTenancies(u) = {} /\ AwaitingInspection(u) = {}
  <2>1. b \in ActiveBookings(u)
    BY <1>1 DEF ActiveBookings, ActiveStatus
  <2>2. LiveTenancies(u) = {}
    BY <1>1 DEF MayMoveIn
  <2>3. \A t \in AwaitingInspection(u) : t = lastEnded[u] /\ t \in Bookings /\ ~inspected[t]
    BY <1>1 DEF OneInspection, AwaitingInspection
  <2>4. AwaitingInspection(u) = {}
    BY <1>1, <2>3, NoneAssumption DEF MayMoveIn
  <2> QED BY <1>1, <2>1, <2>2, <2>4 DEF OneActiveBooking
<1>3. /\ b \in Reserved[u] \cap Funded /\ Occupants[u] = {} /\ Vacated[u] = {}
  BY <1>1, <1>2 DEF Reserved, Funded, Occupants, Vacated
<1>4. ASSUME NEW v \in Units
      PROVE  /\ ActiveBookings(v)' = IF v = u THEN {} ELSE ActiveBookings(v)
             /\ LiveTenancies(v)' = IF v = u THEN {b} ELSE LiveTenancies(v)
             /\ AwaitingInspection(v)' = AwaitingInspection(v)
  BY <1>1, <1>2 DEF ActiveBookings, ActiveStatus, LiveTenancies, LiveStatus,
      AwaitingInspection, TypeOK
<1>5. Funded' = Funded /\ Spent' = Spent
  BY <1>1 DEF Funded, Spent, TypeOK
<1>6. /\ Reserved' = [Reserved EXCEPT ![u] = {}]
      /\ Occupants' = [Occupants EXCEPT ![u] = {b}]
      /\ Vacated' = Vacated
  BY <1>4 DEF Reserved, Occupants, Vacated
<1> QED
  BY <1>3, <1>5, <1>6 DEF R!MoveIn

\* end_tenancy is a move-out.
LEMMA RefineMoveOut ==
  ASSUME IInv, NEW t \in Bookings, EndTenancy(t)
  PROVE  R!MoveOut(bookingUnit[t], t)
<1> PICK u \in Units : u = bookingUnit[t]
  BY DEF IInv, TypeOK, EndTenancy, LiveStatus
<1>1. /\ TypeOK /\ OneLiveTenancy
      /\ tenancy[t] \in LiveStatus
      /\ tenancy' = [tenancy EXCEPT ![t] = "ended"]
      /\ inspected' = [inspected EXCEPT ![t] = FALSE]
      /\ UNCHANGED <<bookingStatus, bookingUnit>>
  BY DEF IInv, EndTenancy, bookingVars
<1>2. LiveTenancies(u) = {t}
  BY <1>1 DEF LiveTenancies, OneLiveTenancy
<1>3. ASSUME NEW v \in Units
      PROVE  /\ LiveTenancies(v)' = IF v = u THEN {} ELSE LiveTenancies(v)
             /\ AwaitingInspection(v)' = IF v = u THEN AwaitingInspection(v) \cup {t}
                                                 ELSE AwaitingInspection(v)
  BY <1>1, <1>2 DEF LiveTenancies, LiveStatus, AwaitingInspection, TypeOK
<1>4. /\ Occupants' = [Occupants EXCEPT ![u] = {}]
      /\ Vacated' = [Vacated EXCEPT ![u] = @ \cup {t}]
      /\ t \in Occupants[u]
  BY <1>2, <1>3 DEF Occupants, Vacated
<1>5. Reserved' = Reserved /\ Funded' = Funded /\ Spent' = Spent
  BY <1>1 DEF Reserved, Funded, Spent, ActiveBookings
<1> QED
  BY <1>4, <1>5 DEF R!MoveOut

\* complete_inspection inspects a vacated unit, or repeats what was done.
LEMMA RefineInspect ==
  ASSUME IInv, NEW t \in Bookings, CompleteInspection(t)
  PROVE  R!Inspect(bookingUnit[t], t) \/ UNCHANGED R!vars
<1> PICK u \in Units : u = bookingUnit[t]
  BY DEF IInv, TypeOK, CompleteInspection
<1>1. /\ TypeOK
      /\ tenancy[t] = "ended"
      /\ inspected' = [inspected EXCEPT ![t] = TRUE]
      /\ UNCHANGED <<bookingStatus, bookingUnit, tenancy>>
  BY DEF IInv, CompleteInspection, bookingVars
<1>2. CASE inspected[t]
  <2>1. inspected' = inspected
    BY <1>1, <1>2 DEF TypeOK
  <2> QED BY <1>1, <2>1, RefineStutter
<1>3. CASE ~inspected[t]
  <2>1. ASSUME NEW v \in Units
        PROVE  AwaitingInspection(v)' = IF v = u THEN AwaitingInspection(v) \ {t}
                                                 ELSE AwaitingInspection(v)
    BY <1>1 DEF AwaitingInspection, TypeOK
  <2>2. t \in Vacated[u]
    BY <1>1, <1>3 DEF Vacated, AwaitingInspection
  <2>3. Vacated' = [Vacated EXCEPT ![u] = @ \ {t}]
    BY <2>1 DEF Vacated
  <2>4. Reserved' = Reserved /\ Funded' = Funded /\ Spent' = Spent /\ Occupants' = Occupants
    BY <1>1 DEF Reserved, Funded, Spent, Occupants, ActiveBookings, LiveTenancies
  <2> QED BY <2>2, <2>3, <2>4 DEF R!Inspect
<1> QED
  BY <1>2, <1>3

\* Every step of the handlers is a step of Reservation or a stutter.
LEMMA RefineStep == IInv /\ [Next]_vars => [R!Next]_R!vars
<1> SUFFICES ASSUME IInv, [Next]_vars PROVE [R!Next]_R!vars
  OBVIOUS
<1>t. TypeOK /\ \A b \in Bookings : bookingStatus[b] # "none" => bookingUnit[b] \in Units
  BY DEF IInv, TypeOK
<1>1. CASE UNCHANGED <<bookingStatus, bookingUnit, tenancy, inspected>>
  BY <1>1, RefineStutter
<1>2. CASE ExpireStaleBookings
  <2>1. R!Release(Stale)
    BY <1>t, <1>2, RefineRelease DEF ExpireStaleBookings, Stale, bookingVars, tenancyVars
  <2> QED BY <2>1 DEF R!Next, Stale
<1>3. ASSUME NEW x \in Users, NEW u \in Units, NEW b \in Bookings, NEW day \in Days,
             CreateBooking(x, u, b, day)
      PROVE  R!Next
  BY <1>3, RefineReserve DEF R!Next
<1>4. ASSUME NEW b \in Bookings, NEW r \in References,
             bookingStatus[b] = "pending_payment", EnterReview(b, r)
      PROVE  UNCHANGED R!vars
  <2>1. /\ bookingStatus' = [bookingStatus EXCEPT ![b] = "payment_review"]
        /\ UNCHANGED <<bookingUnit, tenancy, inspected>>
    BY <1>4 DEF EnterReview, bookingVars, tenancyVars
  <2> QED
    BY <1>t, <1>4, <2>1 DEF TypeOK, R!vars, Reserved, Funded, Occupants, Vacated, Spent,
       ActiveBookings, ActiveStatus, LiveTenancies, AwaitingInspection
<1>5. ASSUME NEW b \in Bookings, ConfirmBooking(b)
      PROVE  R!Next
  BY <1>t, <1>5, RefineFund DEF R!Next, ConfirmBooking
<1>6. ASSUME NEW b \in Bookings, RejectBookingPayment(b) \/ CancelBooking(b)
      PROVE  R!Next
  <2>1. R!Release({b})
    <3>1. /\ bookingStatus[b] \in {"pending_payment", "payment_review"}
          /\ bookingStatus'[b] \in {"rejected", "cancelled", "expired"}
          /\ \A c \in Bookings \ {b} : bookingStatus'[c] = bookingStatus[c]
          /\ UNCHANGED <<bookingUnit, tenancy, inspected>>
      BY <1>t, <1>6 DEF RejectBookingPayment, CancelBooking, bookingVars, tenancyVars, TypeOK
    <3> QED BY <1>t, <3>1, RefineRelease
  <2> QED BY <2>1 DEF R!Next
<1>7. ASSUME NEW b \in Bookings, ActivateTenancy(b)
      PROVE  R!Next
  BY <1>t, <1>7, RefineMoveIn DEF R!Next, ActivateTenancy
<1>8. ASSUME NEW t \in Bookings, EndTenancy(t)
      PROVE  R!Next
  <2>1. bookingUnit[t] \in Units
    BY <1>8 DEF IInv, TypeOK, EndTenancy, LiveStatus
  <2> QED BY <1>8, <2>1, RefineMoveOut DEF R!Next
<1>9. ASSUME NEW t \in Bookings, CompleteInspection(t)
      PROVE  [R!Next]_R!vars
  <2>1. bookingUnit[t] \in Units
    BY <1>9 DEF IInv, TypeOK, CompleteInspection
  <2> QED BY <1>9, <2>1, RefineInspect DEF R!Next
<1>10. ASSUME NEW t \in Bookings, NEW day \in Days, NEW again \in BOOLEAN, GiveNotice(t, day, again)
       PROVE  UNCHANGED R!vars
  <2>1. /\ tenancy[t] = "active"
        /\ tenancy' = [tenancy EXCEPT ![t] = "notice_given"]
        /\ UNCHANGED <<bookingStatus, bookingUnit, inspected>>
    BY <1>10 DEF GiveNotice, bookingVars
  <2> QED
    BY <1>t, <2>1 DEF TypeOK, R!vars, Reserved, Funded, Occupants, Vacated, Spent,
       ActiveBookings, LiveTenancies, LiveStatus, AwaitingInspection
<1> QED
  BY <1>1, <1>2, <1>3, <1>4, <1>5, <1>6, <1>7, <1>8, <1>9, <1>10
  DEF Next, vars, bookingVars, tenancyVars, NextDay, HoldExpires, AcquireBookingHold,
      DeadlinePasses,
      SubmitBookingPayment, ProcessBookingPaid, References

\* The handlers keep the promises of Reservation, for every number of units,
\* bookings and users.
THEOREM Refinement == Spec => ImplementsReservation
<1>1. Init => R!Init
  BY RefineInit
<1> QED
  BY <1>1, RefineStep, Inductive, PTL DEF Spec, ImplementsReservation, R!Spec

-----------------------------------------------------------------------------
\* The two action properties, from the same invariant.
LEMMA MoveInStep ==
  ASSUME IInv, [Next]_vars, NEW b \in Bookings, tenancy[b] = "none", tenancy'[b] # "none",
         NEW t \in Bookings \ {b}, bookingUnit[t] = bookingUnit[b]
  PROVE  tenancy[t] = "none" \/ (tenancy[t] = "ended" /\ inspected[t])
<1>t. TypeOK /\ OneInspection
  BY DEF IInv
<1>1. ActivateTenancy(b)
  <2>1. CASE UNCHANGED tenancy
    BY <2>1
  <2>2. ASSUME NEW c \in Bookings, tenancy[c] # "none",
               \E s \in TenancyStatus : tenancy' = [tenancy EXCEPT ![c] = s]
        PROVE  FALSE
    BY <1>t, <2>2 DEF TypeOK
  <2>3. ASSUME NEW c \in Bookings, ActivateTenancy(c)
        PROVE  c = b
    BY <1>t, <2>3 DEF ActivateTenancy, TypeOK
  <2>4. ASSUME NEW c \in Bookings, EndTenancy(c)
        PROVE  FALSE
    BY <2>2, <2>4 DEF EndTenancy, LiveStatus, TenancyStatus
  <2>5. ASSUME NEW c \in Bookings, NEW day \in Days, NEW again \in BOOLEAN, GiveNotice(c, day, again)
        PROVE  FALSE
    BY <2>2, <2>5 DEF GiveNotice, TenancyStatus
  <2> QED
    BY <2>1, <2>3, <2>4, <2>5
    DEF Next, vars, tenancyVars, NextDay, ExpireStaleBookings, HoldExpires, AcquireBookingHold,
        CreateBooking, DeadlinePasses, SubmitBookingPayment, ProcessBookingPaid, EnterReview,
        ConfirmBooking, RejectBookingPayment, CancelBooking, CompleteInspection
<1>2. PICK u \in Units : u = bookingUnit[b]
  BY <1>t, <1>1 DEF ActivateTenancy, TypeOK
<1>3. t \notin LiveTenancies(u)
  BY <1>1, <1>2 DEF ActivateTenancy, MayMoveIn
<1>4. CASE tenancy[t] = "ended" /\ ~inspected[t]
  <2>1. t \in AwaitingInspection(u)
    BY <1>2, <1>4 DEF AwaitingInspection
  <2>2. t = lastEnded[u]
    BY <1>t, <2>1 DEF OneInspection
  <2> QED BY <1>1, <1>2, <1>4, <2>2, NoneAssumption DEF ActivateTenancy, MayMoveIn
<1> QED
  BY <1>t, <1>2, <1>3, <1>4 DEF TypeOK, TenancyStatus, LiveTenancies, LiveStatus

\* Nobody moves in before every earlier tenant has left and the move-out
\* was inspected.
THEOREM MoveInsWait == Spec => MoveInAfterInspection
<1> DEFINE A == \A b \in Bookings :
                  tenancy[b] = "none" /\ tenancy'[b] # "none" =>
                    \A t \in Bookings \ {b} :
                      bookingUnit[t] = bookingUnit[b] =>
                        tenancy[t] = "none" \/ (tenancy[t] = "ended" /\ inspected[t])
<1>1. IInv /\ [Next]_vars => [A]_vars
  BY MoveInStep
<1> QED
  BY <1>1, Inductive, PTL DEF Spec, MoveInAfterInspection

\* No step but a confirmation or a rejection takes a booking out of review.
LEMMA ReviewStep ==
  ASSUME IInv, [Next]_vars, NEW b \in Bookings, bookingStatus[b] = "payment_review"
  PROVE  bookingStatus'[b] \in {"payment_review", "confirmed", "rejected"}
<1>t. TypeOK
  BY DEF IInv
<1>1. CASE UNCHANGED bookingStatus
  BY <1>1
<1>2. CASE ExpireStaleBookings
  BY <1>2 DEF ExpireStaleBookings, Stale
<1>3. ASSUME NEW x \in Users, NEW u \in Units, NEW c \in Bookings, NEW day \in Days,
             CreateBooking(x, u, c, day)
      PROVE  bookingStatus'[b] = bookingStatus[b]
  BY <1>t, <1>3 DEF CreateBooking, TypeOK
<1>4. ASSUME NEW c \in Bookings, NEW r \in References, EnterReview(c, r)
      PROVE  bookingStatus'[b] = "payment_review"
  BY <1>t, <1>4 DEF EnterReview, TypeOK
<1>5. ASSUME NEW c \in Bookings,
             ConfirmBooking(c) \/ RejectBookingPayment(c) \/ CancelBooking(c) \/ ActivateTenancy(c)
      PROVE  bookingStatus'[b] \in {"payment_review", "confirmed", "rejected"}
  BY <1>t, <1>5 DEF ConfirmBooking, RejectBookingPayment, CancelBooking, ActivateTenancy, TypeOK
<1> QED
  BY <1>1, <1>2, <1>3, <1>4, <1>5
  DEF Next, vars, NextDay, HoldExpires, AcquireBookingHold, DeadlinePasses, SubmitBookingPayment,
      ProcessBookingPaid, GiveNotice, EndTenancy, CompleteInspection, References

\* A payment under review leaves it by an administrator's decision only.
THEOREM ReviewsAreDecided == Spec => ReviewIsDecided
<1> DEFINE A == \A b \in Bookings :
                  bookingStatus[b] = "payment_review" =>
                    bookingStatus'[b] \in {"payment_review", "confirmed", "rejected"}
<1>1. IInv /\ [Next]_vars => [A]_vars
  BY ReviewStep
<1> QED
  BY <1>1, Inductive, PTL DEF Spec, ReviewIsDecided
=============================================================================
