--------------------------- MODULE RentalTransactions ---------------------------
(***************************************************************************)
(* The handlers of UnitLifecycle as concurrent database transactions.      *)
(* PostgreSQL runs them at READ COMMITTED: SELECT .. FOR UPDATE waits for  *)
(* the row lock and then reads the latest committed row, a plain SELECT    *)
(* reads the latest committed row without waiting, and a session's writes  *)
(* become visible when it commits, which also frees its locks.  An action  *)
(* here is one statement, or the flush and the commit that end a handler.  *)
(*                                                                         *)
(* The booking handlers lock the booking and then the unit.  The tenancy   *)
(* handlers lock the tenancy, read the unit with a plain SELECT, decide,   *)
(* and overwrite its status when they commit.                              *)
(*                                                                         *)
(* Dates, payments, references and ledger entries are those of             *)
(* UnitLifecycle; they change only under the lock of their booking and are *)
(* left out.  Tenancies are identified by their bookings.                  *)
(***************************************************************************)
EXTENDS Naturals, FiniteSets, RentalTypes

CONSTANTS Units, Bookings, Users,
          Requests,            \* API requests in flight
          Workers,             \* maintenance workers
          None

Sessions == Requests \cup Workers

ASSUME SessionAssumption ==
  /\ Requests \cap Workers = {}
  /\ None \notin Units \cup Bookings \cup Users
  /\ None \notin UnitStatus

VARIABLES unitStatus, bookingStatus, bookingUnit, overdue,
          tenancy, readvertise, inspected, lastEnded,
          hold,     \* Redis booking-hold:unit:<id>
          tx        \* what each session has locked, read and decided

tables == <<unitStatus, bookingStatus, bookingUnit, tenancy, readvertise,
            inspected, lastEnded>>
vars == <<tables, overdue, hold, tx>>

\* A session: the statement it runs next, its user and unit, the bookings or
\* the tenancy it works on, those whose unit it has still to release, the
\* unit status it read without a lock, the status it will give its rows (or,
\* for a notice, its unit), the unit statuses it will write, and its locks.
Idle == [step |-> "idle", user |-> None, unit |-> None, rows |-> {},
         todo |-> {}, saw |-> None, to |-> None,
         write |-> [u \in Units |-> None], held |-> {}]

BookingLock(b) == <<"bookings", b>>
TenancyLock(t) == <<"tenancies", t>>
UnitLock(u)    == <<"units", u>>

ActiveBookings(u) ==
  {b \in Bookings : bookingUnit[b] = u /\ bookingStatus[b] \in ActiveStatus}

LiveTenancies(u) ==
  {t \in Bookings : bookingUnit[t] = u /\ tenancy[t] \in LiveStatus}

UnderNotice(u) ==
  {t \in Bookings : bookingUnit[t] = u /\ tenancy[t] = "notice_given"}

AwaitingInspection(u) ==
  {t \in Bookings : bookingUnit[t] = u /\ tenancy[t] = "ended" /\ ~inspected[t]}
-----------------------------------------------------------------------------
Free(lock) == \A s \in Sessions : lock \notin tx[s].held

\* The statements that lock the unit.
LockingSteps == {"create_unit", "paid_unit", "confirm_unit", "release_unit",
                 "activate_unit"}

\* end_tenancy leaves the unit alone if it saw a booking on it, and an UPDATE
\* that would change nothing is not sent.
Overwrites(s) == tx[s].saw \notin {"booked", "booking_pending", "inspection"}

\* The tenancy handlers' UPDATE of the unit, sent when they commit.
UpdatesUnit(s) ==
  \/ tx[s].step = "notice_commit"
  \/ tx[s].step = "end_commit" /\ Overwrites(s)
  \/ tx[s].step = "inspect_commit" /\ tx[s].saw = "inspection"

\* Mutant: activate_tenancy locks the live tenancy it looks for.
WantsM(s) ==
  CASE tx[s].step = "activate_live" ->
         {TenancyLock(t) : t \in LiveTenancies(tx[s].unit)} \ tx[s].held
    [] tx[s].step \in LockingSteps \/ UpdatesUnit(s) ->
         {UnitLock(tx[s].unit)} \ tx[s].held
    [] OTHER -> {}

\* The row lock the next statement of a session waits for, if any.
Wants(s) ==
  IF tx[s].step \in LockingSteps \/ UpdatesUnit(s)
    THEN {UnitLock(tx[s].unit)} \ tx[s].held
    ELSE {}

\* A session is at a statement and has been granted the lock it waits for.
At(s, step) == tx[s].step = step /\ \A lock \in Wants(s) : Free(lock)

Become(s, t) == tx' = [tx EXCEPT ![s] = t]
Continue(s, step) ==
  Become(s, [tx[s] EXCEPT !.step = step, !.held = @ \cup Wants(s)])
Finish(s) == Become(s, Idle)

\* A handler that starts by locking a booking, or a tenancy, of its caller.
OnBooking(s, b, step) ==
  /\ tx[s] = Idle /\ s \in Requests
  /\ Free(BookingLock(b))
  /\ Become(s, [Idle EXCEPT !.step = step, !.unit = bookingUnit[b],
                            !.rows = {b}, !.held = {BookingLock(b)}])

OnTenancy(s, t, step, to) ==
  /\ tx[s] = Idle /\ s \in Requests
  /\ Free(TenancyLock(t))
  /\ Become(s, [Idle EXCEPT !.step = step, !.unit = bookingUnit[t], !.to = to,
                            !.rows = {t}, !.held = {TenancyLock(t)}])

\* A failed check, an exception or a crash: the transaction rolls back.
Abort(s) ==
  /\ tx[s] # Idle
  /\ Finish(s)
  /\ UNCHANGED <<tables, overdue, hold>>
-----------------------------------------------------------------------------
Init ==
  /\ unitStatus = [u \in Units |-> "available"]
  /\ bookingStatus = [b \in Bookings |-> "none"]
  /\ bookingUnit = [b \in Bookings |-> None]
  /\ overdue = [b \in Bookings |-> FALSE]
  /\ tenancy = [b \in Bookings |-> "none"]
  /\ readvertise = [b \in Bookings |-> TRUE]
  /\ inspected = [b \in Bookings |-> FALSE]
  /\ lastEnded = [u \in Units |-> None]
  /\ hold = [u \in Units |-> None]
  /\ tx = [s \in Sessions |-> Idle]

DeadlinePasses(b) ==
  /\ bookingStatus[b] \in {"pending_payment", "payment_review"}
  /\ ~overdue[b]
  /\ overdue' = [overdue EXCEPT ![b] = TRUE]
  /\ UNCHANGED <<tables, hold, tx>>

HoldExpires(u) ==
  /\ hold[u] # None
  /\ hold' = [hold EXCEPT ![u] = None]
  /\ UNCHANGED <<tables, overdue, tx>>

\* acquire_booking_hold: the unit is read, then the key is set if absent.
ReadForHold(s, x, u) ==
  /\ tx[s] = Idle /\ s \in Requests
  /\ unitStatus[u] \in BookableStatus
  /\ Become(s, [Idle EXCEPT !.step = "hold_set", !.user = x, !.unit = u])
  /\ UNCHANGED <<tables, overdue, hold>>

SetHold(s) ==
  /\ At(s, "hold_set")
  /\ hold' = [hold EXCEPT ![tx[s].unit] = IF @ = None THEN tx[s].user ELSE @]
  /\ Finish(s)
  /\ UNCHANGED <<tables, overdue>>

\* create_booking: the hold is read first and deleted last, whoever has it.
ReadHold(s, x, u) ==
  /\ tx[s] = Idle /\ s \in Requests
  /\ hold[u] = x
  /\ Become(s, [Idle EXCEPT !.step = "create_unit", !.user = x, !.unit = u])
  /\ UNCHANGED <<tables, overdue, hold>>

LockForCreate(s) ==
  /\ At(s, "create_unit")
  /\ unitStatus[tx[s].unit] \in BookableStatus
  /\ Continue(s, "create_commit")
  /\ UNCHANGED <<tables, overdue, hold>>

\* uq_bookings_active_unit accepts one more active booking of the unit.
BookingIndex(u) == ActiveBookings(u) = {}

CommitCreate(s, b) ==
  LET u == tx[s].unit IN
  /\ At(s, "create_commit")
  /\ bookingStatus[b] = "none"
  /\ BookingIndex(u)
  /\ bookingStatus' = [bookingStatus EXCEPT ![b] = "pending_payment"]
  /\ bookingUnit' = [bookingUnit EXCEPT ![b] = u]
  /\ unitStatus' = [unitStatus EXCEPT ![u] = "booking_pending"]
  /\ Become(s, [tx[s] EXCEPT !.step = "hold_delete", !.held = {}])
  /\ UNCHANGED <<overdue, tenancy, readvertise, inspected, lastEnded, hold>>

DeleteHold(s) ==
  /\ At(s, "hold_delete")
  /\ hold' = [hold EXCEPT ![tx[s].unit] = None]
  /\ Finish(s)
  /\ UNCHANGED <<tables, overdue>>
-----------------------------------------------------------------------------
\* submit_booking_payment commits under the booking's lock alone;
\* _process_booking_paid locks the unit as well.
SubmitBookingPayment(s, b) ==
  /\ bookingStatus[b] = "pending_payment" /\ ~overdue[b]
  /\ OnBooking(s, b, "review_commit")
  /\ UNCHANGED <<tables, overdue, hold>>

ProcessBookingPaid(s, b) ==
  /\ bookingStatus[b] = "pending_payment" /\ ~overdue[b]
  /\ OnBooking(s, b, "paid_unit")
  /\ UNCHANGED <<tables, overdue, hold>>

LockForPaid(s) ==
  /\ At(s, "paid_unit")
  /\ Continue(s, "review_commit")
  /\ UNCHANGED <<tables, overdue, hold>>

CommitReview(s) ==
  /\ At(s, "review_commit")
  /\ bookingStatus' = [b \in Bookings |-> IF b \in tx[s].rows
                         THEN "payment_review" ELSE bookingStatus[b]]
  /\ Finish(s)
  /\ UNCHANGED <<unitStatus, bookingUnit, tenancy, readvertise, inspected,
                 lastEnded, overdue, hold>>

ConfirmBooking(s, b) ==
  /\ bookingStatus[b] = "payment_review"
  /\ OnBooking(s, b, "confirm_unit")
  /\ UNCHANGED <<tables, overdue, hold>>

LockForConfirm(s) ==
  /\ At(s, "confirm_unit")
  /\ unitStatus[tx[s].unit] = "booking_pending"
  /\ Continue(s, "confirm_commit")
  /\ UNCHANGED <<tables, overdue, hold>>

CommitConfirm(s) ==
  /\ At(s, "confirm_commit")
  /\ bookingStatus' = [b \in Bookings |-> IF b \in tx[s].rows
                         THEN "confirmed" ELSE bookingStatus[b]]
  /\ unitStatus' = [unitStatus EXCEPT ![tx[s].unit] = "booked"]
  /\ Finish(s)
  /\ UNCHANGED <<bookingUnit, tenancy, readvertise, inspected, lastEnded,
                 overdue, hold>>
-----------------------------------------------------------------------------
\* The next booking whose unit is to be released, or the commit.
Onward(t) ==
  IF t.todo = {}
    THEN {[t EXCEPT !.step = "release_commit"]}
    ELSE {[t EXCEPT !.step = "release_unit", !.unit = bookingUnit[b],
                    !.todo = @ \ {b}] : b \in t.todo}

BeginRelease(s, S, to) ==
  /\ tx[s] = Idle
  /\ \E t \in Onward([Idle EXCEPT !.rows = S, !.todo = S, !.to = to,
                                  !.held = {BookingLock(b) : b \in S}]) :
       Become(s, t)
  /\ UNCHANGED <<tables, overdue, hold>>

RejectBookingPayment(s, b) ==
  /\ s \in Requests
  /\ Free(BookingLock(b))
  /\ bookingStatus[b] = "payment_review"
  /\ BeginRelease(s, {b}, "rejected")

CancelBooking(s, b) ==
  /\ s \in Requests
  /\ Free(BookingLock(b))
  /\ bookingStatus[b] = "pending_payment"
  /\ BeginRelease(s, {b}, "cancelled")

\* Mutants: the worker's SELECT takes no lock; its deadline test is inverted.
SelectedEarly == {b \in Bookings :
                    /\ bookingStatus[b] = "pending_payment" /\ ~overdue[b]
                    /\ Free(BookingLock(b))}
SelectedM == {b \in Bookings : bookingStatus[b] = "pending_payment" /\ overdue[b]}

\* FOR UPDATE SKIP LOCKED: the stale bookings nobody has locked.
Selected == {b \in Bookings : /\ bookingStatus[b] = "pending_payment" /\ overdue[b]
                              /\ Free(BookingLock(b))}

ExpireStaleBookings(w) ==
  /\ w \in Workers
  /\ Selected # {}
  /\ BeginRelease(w, Selected, "expired")

\* Mutant: the test is turned round.
ReleasesM(s) == tx[s].to = "expired" => unitStatus[tx[s].unit] # "booking_pending"

\* The worker releases only a unit that still is booking_pending.
Releases(s) == tx[s].to = "expired" => unitStatus[tx[s].unit] = "booking_pending"

LockForRelease(s) ==
  /\ At(s, "release_unit")
  /\ \/ /\ Releases(s)
        /\ Continue(s, "release_notice")
     \/ /\ ~Releases(s)
        /\ \E t \in Onward([tx[s] EXCEPT !.held = @ \cup Wants(s)]) : Become(s, t)
  /\ UNCHANGED <<tables, overdue, hold>>

\* The two SELECTs of the release see the tenancies at two moments.
ReadNotice(s) ==
  LET notice == UnderNotice(tx[s].unit)
      status == ReleasedStatus(TRUE, \E t \in notice : readvertise[t], FALSE)
  IN
  /\ At(s, "release_notice")
  /\ \/ /\ notice = {}
        /\ Continue(s, "release_inspection")
     \/ /\ notice # {}
        /\ \E t \in Onward([tx[s] EXCEPT !.write[tx[s].unit] = status]) :
             Become(s, t)
  /\ UNCHANGED <<tables, overdue, hold>>

ReadInspection(s) ==
  LET pending == AwaitingInspection(tx[s].unit) # {}
      status == ReleasedStatus(FALSE, FALSE, pending)
  IN
  /\ At(s, "release_inspection")
  /\ \E t \in Onward([tx[s] EXCEPT !.write[tx[s].unit] = status]) : Become(s, t)
  /\ UNCHANGED <<tables, overdue, hold>>

CommitRelease(s) ==
  /\ At(s, "release_commit")
  /\ bookingStatus' = [b \in Bookings |-> IF b \in tx[s].rows
                         THEN tx[s].to ELSE bookingStatus[b]]
  /\ unitStatus' = [u \in Units |-> IF tx[s].write[u] # None
                      THEN tx[s].write[u] ELSE unitStatus[u]]
  /\ Finish(s)
  /\ UNCHANGED <<bookingUnit, tenancy, readvertise, inspected, lastEnded,
                 overdue, hold>>
-----------------------------------------------------------------------------
ActivateTenancy(s, b) ==
  /\ tenancy[b] = "none"
  /\ bookingStatus[b] = "confirmed"
  /\ OnBooking(s, b, "activate_unit")
  /\ UNCHANGED <<tables, overdue, hold>>

LockForActivate(s) ==
  /\ At(s, "activate_unit")
  /\ unitStatus[tx[s].unit] = "booked"
  /\ Continue(s, "activate_live")
  /\ UNCHANGED <<tables, overdue, hold>>

ReadLive(s) ==
  /\ At(s, "activate_live")
  /\ LiveTenancies(tx[s].unit) = {}
  /\ Continue(s, "activate_previous")
  /\ UNCHANGED <<tables, overdue, hold>>

\* Mutant: the previous move-out is not looked up.
PreviousInspectedM(u) == TRUE
PreviousInspected(u) == lastEnded[u] # None => inspected[lastEnded[u]]

ReadPrevious(s) ==
  /\ At(s, "activate_previous")
  /\ PreviousInspected(tx[s].unit)
  /\ Continue(s, "activate_commit")
  /\ UNCHANGED <<tables, overdue, hold>>

\* The flush inserts the tenancy if uq_tenancies_live_unit accepts it.
CommitActivate(s, b) ==
  LET u == tx[s].unit IN
  /\ At(s, "activate_commit")
  /\ b \in tx[s].rows
  /\ LiveTenancies(u) = {}
  /\ tenancy' = [tenancy EXCEPT ![b] = "active"]
  /\ readvertise' = [readvertise EXCEPT ![b] = TRUE]
  /\ bookingStatus' = [bookingStatus EXCEPT ![b] = "fulfilled"]
  /\ unitStatus' = [unitStatus EXCEPT ![u] = "occupied"]
  /\ Finish(s)
  /\ UNCHANGED <<bookingUnit, inspected, lastEnded, overdue, hold>>

GiveNotice(s, t, again) ==
  /\ tenancy[t] = "active"
  /\ OnTenancy(s, t, "notice_commit", IF again THEN "vacating_soon" ELSE "notice_given")
  /\ UNCHANGED <<tables, overdue, hold>>

\* What give_notice reads of the unit decides nothing: it writes a status.
CommitNotice(s, t) ==
  /\ At(s, "notice_commit")
  /\ t \in tx[s].rows
  /\ tenancy' = [tenancy EXCEPT ![t] = "notice_given"]
  /\ readvertise' = [readvertise EXCEPT ![t] = (tx[s].to = "vacating_soon")]
  /\ unitStatus' = [unitStatus EXCEPT ![tx[s].unit] = tx[s].to]
  /\ Finish(s)
  /\ UNCHANGED <<bookingStatus, bookingUnit, inspected, lastEnded, overdue, hold>>

EndTenancy(s, t) ==
  /\ tenancy[t] \in LiveStatus
  /\ OnTenancy(s, t, "end_read", None)
  /\ UNCHANGED <<tables, overdue, hold>>

\* complete_inspection looks at the unit before it looks at the tenancy.
CompleteInspection(s, t) ==
  /\ tenancy[t] # "none"
  /\ OnTenancy(s, t, "inspect_read", None)
  /\ UNCHANGED <<tables, overdue, hold>>

\* _property_for_tenancy: a plain SELECT of the unit.
ReadUnit(s, from, next) ==
  /\ At(s, from)
  /\ Become(s, [tx[s] EXCEPT !.step = next, !.saw = unitStatus[tx[s].unit]])
  /\ UNCHANGED <<tables, overdue, hold>>

ReadForEnd(s) == ReadUnit(s, "end_read", "end_commit")
ReadForInspection(s) ==
  /\ \A t \in tx[s].rows : tenancy[t] = "ended"
  /\ ReadUnit(s, "inspect_read", "inspect_commit")

\* Mutant: the wrong enumeration, TenancyStatus.ENDED for the unit.
VacantStatusM == "ended"
VacantStatus == "inspection"

CommitEnd(s, t) ==
  LET u == tx[s].unit IN
  /\ At(s, "end_commit")
  /\ t \in tx[s].rows
  /\ tenancy' = [tenancy EXCEPT ![t] = "ended"]
  /\ inspected' = [inspected EXCEPT ![t] = FALSE]
  /\ lastEnded' = [lastEnded EXCEPT ![u] = t]
  /\ unitStatus' = [unitStatus EXCEPT ![u] = IF Overwrites(s)
                      THEN VacantStatus ELSE @]
  /\ Finish(s)
  /\ UNCHANGED <<bookingStatus, bookingUnit, readvertise, overdue, hold>>

CommitInspection(s, t) ==
  LET u == tx[s].unit IN
  /\ At(s, "inspect_commit")
  /\ t \in tx[s].rows
  /\ inspected' = [inspected EXCEPT ![t] = TRUE]
  /\ unitStatus' = [unitStatus EXCEPT ![u] = IF tx[s].saw = "inspection"
                      THEN "available" ELSE @]
  /\ Finish(s)
  /\ UNCHANGED <<bookingStatus, bookingUnit, tenancy, readvertise, lastEnded,
                 overdue, hold>>
-----------------------------------------------------------------------------
\* The statements of a transaction already begun.
Statement(s) ==
  \/ SetHold(s)
  \/ LockForCreate(s)
  \/ \E b \in Bookings : CommitCreate(s, b)
  \/ DeleteHold(s)
  \/ LockForPaid(s)
  \/ CommitReview(s)
  \/ LockForConfirm(s)
  \/ CommitConfirm(s)
  \/ LockForRelease(s)
  \/ ReadNotice(s)
  \/ ReadInspection(s)
  \/ CommitRelease(s)
  \/ LockForActivate(s)
  \/ ReadLive(s)
  \/ ReadPrevious(s)
  \/ \E b \in Bookings : CommitActivate(s, b)
  \/ \E t \in Bookings : CommitNotice(s, t)
  \/ ReadForEnd(s)
  \/ \E t \in Bookings : CommitEnd(s, t)
  \/ ReadForInspection(s)
  \/ \E t \in Bookings : CommitInspection(s, t)

\* The first statement of each handler.
Begin(s) ==
  \/ \E x \in Users, u \in Units : ReadForHold(s, x, u) \/ ReadHold(s, x, u)
  \/ \E b \in Bookings :
       \/ SubmitBookingPayment(s, b)
       \/ ProcessBookingPaid(s, b)
       \/ ConfirmBooking(s, b)
       \/ RejectBookingPayment(s, b)
       \/ CancelBooking(s, b)
       \/ ActivateTenancy(s, b)
       \/ \E again \in BOOLEAN : GiveNotice(s, b, again)
       \/ EndTenancy(s, b)
       \/ CompleteInspection(s, b)
  \/ ExpireStaleBookings(s)

Next ==
  \/ \E s \in Sessions : Begin(s) \/ Statement(s) \/ Abort(s)
  \/ \E b \in Bookings : DeadlinePasses(b)
  \/ \E u \in Units : HoldExpires(u)

Spec == Init /\ [][Next]_vars

\* Time passes; a request ends one way or the other; the worker comes back
\* every cycle (run_forever), finds a booking unlocked some time, is granted
\* a row lock that is freed again and again, and fails only so many times.
Fairness ==
  /\ \A b \in Bookings : WF_vars(DeadlinePasses(b))
  /\ \A s \in Requests : WF_vars(Statement(s) \/ Abort(s))
  /\ \A w \in Workers :
       /\ \A b \in Bookings : SF_vars(b \in Selected /\ ExpireStaleBookings(w))
       /\ SF_vars(LockForRelease(w))
       /\ WF_vars(Statement(w))
       /\ <>[][~Abort(w)]_vars

FairSpec == Spec /\ Fairness
-----------------------------------------------------------------------------
Locks == {BookingLock(b) : b \in Bookings} \cup {TenancyLock(t) : t \in Bookings}
           \cup {UnitLock(u) : u \in Units}

Steps == {"idle", "hold_set", "create_unit", "create_commit", "hold_delete",
          "paid_unit", "review_commit", "confirm_unit", "confirm_commit",
          "release_unit", "release_notice", "release_inspection",
          "release_commit", "activate_unit", "activate_live",
          "activate_previous", "activate_commit", "notice_commit", "end_read",
          "end_commit", "inspect_read", "inspect_commit"}

Transactions ==
  [step : Steps, user : Users \cup {None}, unit : Units \cup {None},
   rows : SUBSET Bookings, todo : SUBSET Bookings,
   saw : UnitStatus \cup {None}, to : BookingStatus \cup UnitStatus \cup {None},
   write : [Units -> UnitStatus \cup {None}], held : SUBSET Locks]

TypeOK ==
  /\ unitStatus \in [Units -> UnitStatus]
  /\ bookingStatus \in [Bookings -> BookingStatus \cup {"none"}]
  /\ bookingUnit \in [Bookings -> Units \cup {None}]
  /\ \A b \in Bookings : bookingStatus[b] # "none" => bookingUnit[b] \in Units
  /\ overdue \in [Bookings -> BOOLEAN]
  /\ tenancy \in [Bookings -> TenancyStatus \cup {"none"}]
  /\ \A b \in Bookings : tenancy[b] # "none" <=> bookingStatus[b] = "fulfilled"
  /\ readvertise \in [Bookings -> BOOLEAN]
  /\ inspected \in [Bookings -> BOOLEAN]
  /\ lastEnded \in [Units -> Bookings \cup {None}]
  /\ hold \in [Units -> Users \cup {None}]
  /\ tx \in [Sessions -> Transactions]

\* Whatever the tenancy handlers overwrite, a unit has one active booking at
\* most: where its status is wrong, uq_bookings_active_unit refuses.  Proved
\* in RentalTransactionsProofs; it also is what Reserve of Reservation asks.
OneActiveBooking ==
  \A u \in Units : \A b, c \in ActiveBookings(u) : b = c

\* A status that claims a booking or a tenant is never a leftover: booked
\* has a confirmed booking behind it, booking_pending an unpaid or reviewed
\* one, occupied a tenant who gave no notice.  (The converse is false:
\* see BookedUnitIsOffMarket.  vacating_soon may be a leftover: a release that
\* read the notice commits it after the tenancy ended.)
StatusIsBacked ==
  \A u \in Units :
    /\ unitStatus[u] = "booked" =>
         \E b \in ActiveBookings(u) : bookingStatus[b] = "confirmed"
    /\ unitStatus[u] = "booking_pending" =>
         \E b \in ActiveBookings(u) : bookingStatus[b] # "confirmed"
    /\ unitStatus[u] = "occupied" =>
         \E t \in LiveTenancies(u) : tenancy[t] = "active"

\* PostgreSQL never has to break a deadlock: there is no set of sessions in
\* which each waits for a row lock held by another one of the set.
NoDeadlock ==
  ~ \E S \in (SUBSET Sessions) \ {{}} : \A s \in S :
      \E r \in S \ {s} : Wants(s) \cap tx[r].held # {}

\* A booking under review leaves the review by an administrator's decision,
\* even if the deadline passed and a worker ran while it was submitted.
ReviewIsDecided ==
  [][\A b \in Bookings :
       bookingStatus[b] = "payment_review" =>
         bookingStatus'[b] \in {"payment_review", "confirmed", "rejected"}]_vars

\* The deadline, the worker and its SKIP LOCKED free every unpaid booking,
\* also when requests and workers fail now and then.
UnpaidBookingLapses ==
  \A b \in Bookings :
    bookingStatus[b] = "pending_payment" ~> bookingStatus[b] # "pending_payment"

Reserved == [u \in Units |-> ActiveBookings(u)]
Funded == {b \in Bookings : bookingStatus[b] \in {"confirmed", "fulfilled"}}
Occupants == [u \in Units |-> LiveTenancies(u)]
Vacated == [u \in Units |-> AwaitingInspection(u)]
Spent == {b \in Bookings : bookingStatus[b] # "none"}

R == INSTANCE Reservation WITH reserved <- Reserved, funded <- Funded,
       occupants <- Occupants, vacated <- Vacated, spent <- Spent

\* The promises of Reservation hold of the interleaved handlers too: nobody
\* is let into a unit somebody lives in, or that was not inspected, and
\* nobody without confirmed money, whatever the unit's status column says.
ImplementsReservation == R!Spec
-----------------------------------------------------------------------------
(* What the repository says, and its interleavings break. *)

\* docs/ANDROID_DEVICE_ACCEPTANCE.md: a unit that is booking_pending "can no
\* longer be double-booked": a unit with an active booking is not on offer.
BookedUnitIsOffMarket ==
  \A u \in Units : ActiveBookings(u) # {} => unitStatus[u] \notin BookableStatus
=============================================================================
