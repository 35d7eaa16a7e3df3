------------------------ MODULE RentalTransactionsProofs ------------------------
(***************************************************************************)
(* What the row locks, the two partial unique indexes and the re-reads     *)
(* under locks keep, for any number of interleaved requests and workers.   *)
(* The argument is the one of the locks: what a transaction has read of a  *)
(* row that it locked nobody else changes before it ends (Kept), so that   *)
(* its bookings and tenancies still are at its commit what they were when  *)
(* it found them (Sound).  What the unlocked reads of the tenancy handlers *)
(* saw is not among these facts, which is why nothing here says that a     *)
(* booked unit is off the market.                                          *)
(***************************************************************************)
EXTENDS RentalTransactions, TLAPS

\* The steps by the rows they work on.
SeekerSteps  == {"hold_set", "create_unit", "create_commit", "hold_delete"}
PaySteps     == {"paid_unit", "review_commit"}
ConfirmSteps == {"confirm_unit", "confirm_commit"}
ReleaseSteps == {"release_unit", "release_notice", "release_inspection", "release_commit"}
ActivateSteps == {"activate_unit", "activate_live", "activate_previous", "activate_commit"}
BookingSteps == PaySteps \cup ConfirmSteps \cup ReleaseSteps \cup ActivateSteps
TenancySteps == {"notice_commit", "end_read", "end_commit", "inspect_read", "inspect_commit"}

Released == {"vacating_soon", "notice_given", "inspection", "available"}

\* No row is locked twice.
LocksAreExclusive ==
  \A s, x \in Sessions : s # x => tx[s].held \cap tx[x].held = {}

\* A session at rest has nothing; one with a single row knows its unit.
BeginsSound(s) ==
  LET t == tx[s] IN
  /\ t.step = "idle" => t = Idle
  /\ t.step \in SeekerSteps => t.unit \in Units /\ t.user \in Users
  /\ t.step \in (BookingSteps \ ReleaseSteps) \cup TenancySteps =>
       \E b \in Bookings : t.rows = {b} /\ t.unit = bookingUnit[b]

\* The bookings of a session are locked and have the status it found.
ExpectedStatus(t) ==
  IF t.step \in PaySteps \/ (t.step \in ReleaseSteps /\ t.to # "rejected") THEN "pending_payment"
  ELSE IF t.step \in ActivateSteps THEN "confirmed" ELSE "payment_review"

BookingsSound(s) ==
  LET t == tx[s] IN
  t.step \in BookingSteps =>
    \A b \in t.rows : BookingLock(b) \in t.held /\ bookingStatus[b] = ExpectedStatus(t)

\* So have its tenancies; and a unit that end_tenancy will not overwrite has
\* not become occupied since it was read.
ExpectedTenancy(step) ==
  CASE step = "notice_commit"              -> {"active"}
    [] step \in {"end_read", "end_commit"} -> LiveStatus
    [] step = "inspect_read"               -> TenancyStatus
    [] step = "inspect_commit"             -> {"ended"}

TenanciesSound(s) ==
  LET t == tx[s] IN
  /\ t.step \in TenancySteps =>
       \A b \in t.rows : TenancyLock(b) \in t.held /\ tenancy[b] \in ExpectedTenancy(t.step)
  /\ t.step = "notice_commit" => t.to \in {"vacating_soon", "notice_given"}
  /\ t.step = "end_commit" /\ ~Overwrites(s) => unitStatus[t.unit] # "occupied"

\* A session past the lock of its unit has it; one that waits for a unit has
\* no other, unless it releases several.
UnitsSound(s) ==
  LET t == tx[s] IN
  /\ t.step \in {"create_commit", "confirm_commit", "release_notice", "release_inspection",
                 "activate_live", "activate_previous", "activate_commit"} =>
       UnitLock(t.unit) \in t.held
  /\ t.step \in (LockingSteps \ {"release_unit"}) \cup TenancySteps =>
       \A u \in Units : UnitLock(u) \notin t.held
  /\ t.step \in {"activate_previous", "activate_commit"} => LiveTenancies(t.unit) = {}
  /\ t.step = "activate_commit" => AwaitingInspection(t.unit) = {}

\* A release is at one of its bookings; the units of those it has dealt with
\* are locked, and will be written or wait for no booking.
ReleasesSound(s) ==
  LET t == tx[s]
      Current(b) == t.step # "release_commit" /\ bookingUnit[b] = t.unit
  IN
  t.step \in ReleaseSteps =>
    /\ t.to \in {"rejected", "cancelled", "expired"}
    /\ t.todo \subseteq t.rows
    /\ t.step # "release_commit" => \E b \in t.rows \ t.todo : bookingUnit[b] = t.unit
    /\ t.step = "release_commit" => t.todo = {}
    /\ \A u \in Units : UnitLock(u) \in t.held => \E b \in t.rows : bookingUnit[b] = u
    /\ \A u \in Units : t.write[u] # None => UnitLock(u) \in t.held /\ t.write[u] \in Released
    /\ \A b \in t.rows \ t.todo : Current(b) \/
         /\ UnitLock(bookingUnit[b]) \in t.held
         /\ t.write[bookingUnit[b]] # None \/ unitStatus[bookingUnit[b]] # "booking_pending"

Sound(s) == /\ BeginsSound(s) /\ BookingsSound(s) /\ TenanciesSound(s)
            /\ UnitsSound(s) /\ ReleasesSound(s)

\* One tenant at a time, and who moved out last is the only one whose move-out
\* may be waiting for its inspection, while nobody lives there.
OneTenantAtATime ==
  \A u \in Units :
    /\ \A b, c \in LiveTenancies(u) : b = c
    /\ AwaitingInspection(u) \subseteq {lastEnded[u]}
    /\ LiveTenancies(u) # {} => AwaitingInspection(u) = {}

\* The inductive invariant.
RentalInv ==
  /\ TypeOK /\ LocksAreExclusive
  /\ \A s \in Sessions : Sound(s)
  /\ OneActiveBooking /\ StatusIsBacked /\ OneTenantAtATime

\* A step of a session.
Works(s) == Begin(s) \/ Statement(s) \/ Abort(s)

\* Nothing changes that the locks of a session protect; and a unit somebody
\* lives in does not become occupied.
Kept(x) ==
  /\ \A b \in Bookings : BookingLock(b) \in tx[x].held /\ bookingStatus[b] # "none" =>
       bookingStatus'[b] = bookingStatus[b]
  /\ \A b \in Bookings : TenancyLock(b) \in tx[x].held /\ tenancy[b] # "none" =>
       tenancy'[b] = tenancy[b]
  /\ \A b \in Bookings : bookingStatus[b] # "none" => bookingUnit'[b] = bookingUnit[b]
  /\ \A u \in Units : UnitLock(u) \in tx[x].held =>
       /\ unitStatus'[u] = unitStatus[u]
       /\ LiveTenancies(u) = {} =>
            LiveTenancies(u)' = {} /\ (AwaitingInspection(u) = {} => AwaitingInspection(u)' = {})
  /\ \A u \in Units : LiveTenancies(u) # {} /\ unitStatus[u] # "occupied" =>
       unitStatus'[u] # "occupied"

\* Locks of different rows are different.
LEMMA LockNames ==
  /\ \A b, c \in Bookings : BookingLock(b) = BookingLock(c) => b = c
  /\ \A b, c \in Bookings : TenancyLock(b) = TenancyLock(c) => b = c
  /\ \A u, v \in Units : UnitLock(u) = UnitLock(v) => u = v
  /\ \A b, c \in Bookings, u \in Units : /\ BookingLock(b) # TenancyLock(c)
                                         /\ BookingLock(b) # UnitLock(u)
                                         /\ TenancyLock(b) # UnitLock(u)
BY DEF BookingLock, TenancyLock, UnitLock

\* A session at rest.
LEMMA IdleParts ==
  /\ Idle \in Transactions
  /\ Idle.step = "idle" /\ Idle.user = None /\ Idle.unit = None /\ Idle.rows = {}
  /\ Idle.todo = {} /\ Idle.saw = None /\ Idle.to = None /\ Idle.held = {}
  /\ Idle.write = [u \in Units |-> None]
BY DEF Idle, Transactions, Steps

\* A session that advances to another record keeps the type of tx.
LEMMA BecomesTyped ==
  ASSUME TypeOK, NEW s \in Sessions, NEW t \in Transactions, Become(s, t)
  PROVE  /\ tx' \in [Sessions -> Transactions] /\ tx'[s] = t
         /\ \A x \in Sessions \ {s} : tx'[x] = tx[x]
BY DEF TypeOK, Become

\* What the next booking of a release, or its commit, does to the record.
LEMMA OnwardParts ==
  ASSUME TypeOK, NEW t \in Transactions, NEW n \in Onward(t),
         \A b \in t.todo : bookingUnit[b] \in Units
  PROVE  /\ n \in Transactions
         /\ n.user = t.user /\ n.rows = t.rows /\ n.saw = t.saw /\ n.to = t.to
         /\ n.write = t.write /\ n.held = t.held
         /\ \/ /\ t.todo = {} /\ n.todo = {}
               /\ n.step = "release_commit" /\ n.unit = t.unit
            \/ /\ n.step = "release_unit"
               /\ \E b \in t.todo : n.unit = bookingUnit[b] /\ n.todo = t.todo \ {b}
<1>1. CASE t.todo = {}
  BY <1>1 DEF Onward, Transactions, Steps
<1>2. CASE t.todo # {}
  <2>1. PICK b \in t.todo : n = [t EXCEPT !.step = "release_unit", !.unit = bookingUnit[b],
                                          !.todo = @ \ {b}]
    BY <1>2 DEF Onward
  <2>2. bookingUnit[b] \in Units
    OBVIOUS
  <2> QED
    BY <2>1, <2>2 DEF Transactions, Steps
<1> QED
  BY <1>1, <1>2

\* What a session waits for is the row of its unit.
LEMMA WantsUnit ==
  ASSUME NEW s \in Sessions
  PROVE  /\ Wants(s) \subseteq {UnitLock(tx[s].unit)}
         /\ Wants(s) # {} => tx[s].step \in LockingSteps \cup TenancySteps
         /\ tx[s].step \in LockingSteps =>
              tx[s].held \cup Wants(s) = tx[s].held \cup {UnitLock(tx[s].unit)}
BY DEF Wants, UpdatesUnit, TenancySteps

\* A session changes its own record only, and takes locks that are free.
Moved(s) ==
  /\ tx' \in [Sessions -> Transactions]
  /\ \A x \in Sessions \ {s} : tx'[x] = tx[x]
  /\ \A lock \in tx'[s].held : lock \in tx[s].held \/ Free(lock)

\* The first statement of a handler that locks a booking.
LEMMA OnBookingParts ==
  ASSUME TypeOK, NEW s \in Sessions, NEW b \in Bookings, NEW step \in Steps,
         bookingStatus[b] # "none", OnBooking(s, b, step)
  PROVE  /\ Moved(s)
         /\ tx'[s].step = step /\ tx'[s].unit = bookingUnit[b] /\ tx'[s].rows = {b}
         /\ tx'[s].held = {BookingLock(b)}
<1> DEFINE t == [Idle EXCEPT !.step = step, !.unit = bookingUnit[b],
                             !.rows = {b}, !.held = {BookingLock(b)}]
<1>0. bookingUnit[b] \in Units \cup {None}
  BY DEF TypeOK
<1>1. t \in Transactions
  BY <1>0 DEF Idle, Transactions, Locks, Steps
<1>2. /\ t.step = step /\ t.unit = bookingUnit[b] /\ t.rows = {b} /\ t.held = {BookingLock(b)}
  BY DEF Idle
<1> QED
  BY <1>1, <1>2, BecomesTyped DEF OnBooking, Moved

\* The first statement of a handler that locks a tenancy.
LEMMA OnTenancyParts ==
  ASSUME TypeOK, NEW s \in Sessions, NEW b \in Bookings, NEW step \in Steps,
         NEW to \in UnitStatus \cup {None}, OnTenancy(s, b, step, to)
  PROVE  /\ Moved(s)
         /\ tx'[s].step = step /\ tx'[s].unit = bookingUnit[b] /\ tx'[s].rows = {b}
         /\ tx'[s].to = to /\ tx'[s].held = {TenancyLock(b)}
<1> DEFINE t == [Idle EXCEPT !.step = step, !.unit = bookingUnit[b], !.to = to,
                             !.rows = {b}, !.held = {TenancyLock(b)}]
<1>0. bookingUnit[b] \in Units \cup {None}
  BY DEF TypeOK
<1>1. t \in Transactions
  BY <1>0 DEF Idle, Transactions, Locks, Steps
<1>2. /\ t.step = step /\ t.unit = bookingUnit[b] /\ t.rows = {b} /\ t.to = to
      /\ t.held = {TenancyLock(b)}
  BY DEF Idle
<1> QED
  BY <1>1, <1>2, BecomesTyped DEF OnTenancy, Moved

\* A statement that goes on under the lock that it waited for.
LEMMA ContinueParts ==
  ASSUME TypeOK, NEW s \in Sessions, NEW step \in Steps, Continue(s, step),
         tx[s].unit \in Units, \A lock \in Wants(s) : Free(lock)
  PROVE  /\ Moved(s)
         /\ tx'[s].step = step /\ tx'[s].user = tx[s].user /\ tx'[s].unit = tx[s].unit
         /\ tx'[s].rows = tx[s].rows /\ tx'[s].todo = tx[s].todo /\ tx'[s].saw = tx[s].saw
         /\ tx'[s].to = tx[s].to /\ tx'[s].write = tx[s].write
         /\ tx'[s].held = tx[s].held \cup Wants(s)
<1> DEFINE t == [tx[s] EXCEPT !.step = step, !.held = @ \cup Wants(s)]
<1>0. tx[s] \in Transactions
  BY DEF TypeOK
<1>1. t \in Transactions
  BY <1>0, WantsUnit DEF Transactions, Locks
<1>2. /\ t.step = step /\ t.user = tx[s].user /\ t.unit = tx[s].unit
      /\ t.rows = tx[s].rows /\ t.todo = tx[s].todo /\ t.saw = tx[s].saw
      /\ t.to = tx[s].to /\ t.write = tx[s].write
      /\ t.held = tx[s].held \cup Wants(s)
  BY <1>0 DEF Transactions
<1>3. Become(s, t)
  BY DEF Continue
<1> QED
  BY <1>1, <1>2, <1>3, BecomesTyped DEF Moved

\* The end of a transaction, and its failure.
LEMMA FinishParts ==
  ASSUME TypeOK, NEW s \in Sessions, Finish(s)
  PROVE  Moved(s) /\ tx'[s] = Idle
BY IdleParts, BecomesTyped DEF Finish, Moved

\* A release that goes on to its next booking.
LEMMA OnwardMoves ==
  ASSUME TypeOK, NEW s \in Sessions, NEW t \in Transactions, NEW n \in Onward(t), Become(s, n),
         \A b \in t.todo : bookingUnit[b] \in Units,
         \A lock \in t.held : lock \in tx[s].held \/ Free(lock)
  PROVE  /\ Moved(s)
         /\ tx'[s].rows = t.rows /\ tx'[s].to = t.to
         /\ tx'[s].write = t.write /\ tx'[s].held = t.held
         /\ \/ /\ t.todo = {} /\ tx'[s].todo = {} /\ tx'[s].step = "release_commit"
            \/ /\ tx'[s].step = "release_unit"
               /\ \E b \in t.todo : tx'[s].unit = bookingUnit[b] /\ tx'[s].todo = t.todo \ {b}
<1>1. n \in Transactions
  BY OnwardParts
<1>2. tx'[s] = n /\ tx' \in [Sessions -> Transactions] /\ \A x \in Sessions \ {s} : tx'[x] = tx[x]
  BY <1>1, BecomesTyped
<1> QED
  BY <1>2, OnwardParts DEF Moved

-----------------------------------------------------------------------------
(* Every statement leaves its own session sound. *)

\* A session at rest is sound.
LEMMA FinishIsSound ==
  ASSUME TypeOK, NEW s \in Sessions, Finish(s)
  PROVE  Moved(s) /\ Sound(s)'
<1>1. Moved(s) /\ tx'[s] = Idle
  BY FinishParts
<1> QED
  BY <1>1, IdleParts DEF Sound, BeginsSound, BookingsSound, TenanciesSound, UnitsSound,
     ReleasesSound, SeekerSteps, BookingSteps, PaySteps, ConfirmSteps, ActivateSteps,
     ReleaseSteps, TenancySteps, LockingSteps

\* The statements of a seeker: the hold and the creation of a booking.
LEMMA SeekerWorks ==
  ASSUME RentalInv, NEW s \in Sessions,
         \/ \E x \in Users, u \in Units : ReadForHold(s, x, u) \/ ReadHold(s, x, u)
         \/ SetHold(s) \/ LockForCreate(s) \/ DeleteHold(s)
         \/ \E b \in Bookings : CommitCreate(s, b)
  PROVE  Moved(s) /\ Sound(s)'
<1> USE DEF SeekerSteps, BookingSteps, PaySteps, ConfirmSteps, ActivateSteps, ReleaseSteps,
            TenancySteps, LockingSteps
<1>t. TypeOK /\ Sound(s) /\ tx[s] \in Transactions
  BY DEF RentalInv, TypeOK
<1>1. ASSUME NEW x \in Users, NEW u \in Units, NEW step \in {"hold_set", "create_unit"},
             Become(s, [Idle EXCEPT !.step = step, !.user = x, !.unit = u])
      PROVE  Moved(s) /\ Sound(s)'
  <2> DEFINE t == [Idle EXCEPT !.step = step, !.user = x, !.unit = u]
  <2>1. t \in Transactions
    BY DEF Idle, Transactions, Steps
  <2>2. t.step = step /\ t.user = x /\ t.unit = u /\ t.held = {}
    BY DEF Idle
  <2> HIDE DEF t
  <2>3. tx'[s] = t /\ Moved(s)
    BY <1>t, <1>1, <2>1, <2>2, BecomesTyped DEF Moved, t
  <2> QED
    BY <2>2, <2>3 DEF Sound, BeginsSound, BookingsSound, TenanciesSound, UnitsSound, ReleasesSound
<1>2. CASE \E x \in Users, u \in Units : ReadForHold(s, x, u) \/ ReadHold(s, x, u)
  BY <1>1, <1>2 DEF ReadForHold, ReadHold
<1>3. CASE SetHold(s) \/ DeleteHold(s)
  BY <1>t, <1>3, FinishIsSound DEF SetHold, DeleteHold
<1>4. CASE LockForCreate(s)
  <2>1. tx[s].step = "create_unit" /\ tx[s].unit \in Units /\ tx[s].user \in Users
    BY <1>t, <1>4 DEF LockForCreate, At, Sound, BeginsSound
  <2>2. /\ Moved(s) /\ tx'[s].step = "create_commit"
        /\ tx'[s].user = tx[s].user /\ tx'[s].unit = tx[s].unit
        /\ tx'[s].held = tx[s].held \cup {UnitLock(tx[s].unit)}
    BY <1>t, <1>4, <2>1, ContinueParts, WantsUnit DEF LockForCreate, At, Steps
  <2> QED
    BY <2>1, <2>2 DEF Sound, BeginsSound, BookingsSound, TenanciesSound, UnitsSound, ReleasesSound
<1>5. ASSUME NEW b \in Bookings, CommitCreate(s, b) PROVE Moved(s) /\ Sound(s)'
  <2> DEFINE t == [tx[s] EXCEPT !.step = "hold_delete", !.held = {}]
  <2>1. tx[s].step = "create_commit" /\ tx[s].unit \in Units /\ tx[s].user \in Users
    BY <1>t, <1>5 DEF CommitCreate, At, Sound, BeginsSound
  <2>2. t \in Transactions
    BY <1>t DEF Transactions, Steps
  <2>3. t.step = "hold_delete" /\ t.user = tx[s].user /\ t.unit = tx[s].unit /\ t.held = {}
    BY <1>t DEF Transactions
  <2>4. Become(s, t)
    BY <1>5 DEF CommitCreate
  <2> HIDE DEF t
  <2>5. tx'[s] = t /\ Moved(s)
    BY <1>t, <2>2, <2>3, <2>4, BecomesTyped DEF Moved
  <2> QED
    BY <2>1, <2>3, <2>5
    DEF Sound, BeginsSound, BookingsSound, TenanciesSound, UnitsSound, ReleasesSound
<1> QED
  BY <1>2, <1>3, <1>4, <1>5

\* The handlers of one booking: its payment, confirmation and move-in.
LEMMA BookingWorks ==
  ASSUME RentalInv, NEW s \in Sessions,
         \/ \E b \in Bookings : \/ SubmitBookingPayment(s, b)
                                \/ ProcessBookingPaid(s, b)
                                \/ ConfirmBooking(s, b)
                                \/ ActivateTenancy(s, b)
                                \/ CommitActivate(s, b)
         \/ LockForPaid(s) \/ CommitReview(s)
         \/ LockForConfirm(s) \/ CommitConfirm(s)
         \/ LockForActivate(s) \/ ReadLive(s) \/ ReadPrevious(s)
  PROVE  Moved(s) /\ Sound(s)'
<1> USE DEF SeekerSteps, BookingSteps, PaySteps, ConfirmSteps, ActivateSteps, ReleaseSteps,
            TenancySteps, LockingSteps
<1>t. TypeOK /\ Sound(s) /\ tx[s] \in Transactions
  BY DEF RentalInv, TypeOK
<1>1. ASSUME NEW b \in Bookings,
             NEW step \in {"review_commit", "paid_unit", "confirm_unit", "activate_unit"},
             OnBooking(s, b, step), UNCHANGED tables,
             bookingStatus[b] = IF step = "confirm_unit" THEN "payment_review"
                                ELSE IF step = "activate_unit" THEN "confirmed"
                                ELSE "pending_payment"
      PROVE  Moved(s) /\ Sound(s)'
  <2>1. /\ Moved(s) /\ tx'[s].step = step /\ tx'[s].unit = bookingUnit[b]
        /\ tx'[s].rows = {b} /\ tx'[s].held = {BookingLock(b)}
    BY <1>t, <1>1, OnBookingParts DEF Steps
  <2> QED
    BY <1>1, <2>1, LockNames
    DEF Sound, BeginsSound, BookingsSound, TenanciesSound, UnitsSound, ReleasesSound,
        ExpectedStatus, tables
<1>2. ASSUME NEW b \in Bookings,
             \/ SubmitBookingPayment(s, b)
             \/ ProcessBookingPaid(s, b)
             \/ ConfirmBooking(s, b)
             \/ ActivateTenancy(s, b)
      PROVE  Moved(s) /\ Sound(s)'
  BY <1>1, <1>2 DEF SubmitBookingPayment, ProcessBookingPaid, ConfirmBooking, ActivateTenancy
<1>3. CASE CommitReview(s) \/ CommitConfirm(s) \/ \E b \in Bookings : CommitActivate(s, b)
  BY <1>t, <1>3, FinishIsSound DEF CommitReview, CommitConfirm, CommitActivate
<1>4. ASSUME tx[s].step \in {"paid_unit", "confirm_unit", "activate_unit",
                             "activate_live", "activate_previous"}
      PROVE  /\ tx[s].unit \in Units
             /\ \E b \in Bookings : tx[s].rows = {b} /\ tx[s].unit = bookingUnit[b]
             /\ \A b \in tx[s].rows : BookingLock(b) \in tx[s].held
                                        /\ bookingStatus[b] = ExpectedStatus(tx[s])
  <2>1. PICK b \in Bookings : tx[s].rows = {b} /\ tx[s].unit = bookingUnit[b]
    BY <1>t, <1>4 DEF Sound, BeginsSound
  <2>2. \A c \in tx[s].rows : BookingLock(c) \in tx[s].held
                                /\ bookingStatus[c] = ExpectedStatus(tx[s])
    BY <1>t, <1>4 DEF Sound, BookingsSound
  <2>3. bookingUnit[b] \in Units
    BY <1>t, <2>1, <2>2 DEF TypeOK, ExpectedStatus
  <2> QED
    BY <2>1, <2>2, <2>3
<1>5. ASSUME NEW from \in {"paid_unit", "confirm_unit", "activate_unit",
                           "activate_live", "activate_previous"},
             NEW step \in {"review_commit", "confirm_commit", "activate_live",
                           "activate_previous", "activate_commit"},
             At(s, from), Continue(s, step)
      PROVE  /\ Moved(s) /\ tx'[s].step = step /\ tx'[s].unit = tx[s].unit
             /\ tx'[s].rows = tx[s].rows /\ tx'[s].held = tx[s].held \cup Wants(s)
  BY <1>t, <1>4, <1>5, ContinueParts DEF At, Steps
<1>6. CASE LockForPaid(s)
  <2>1. tx[s].step = "paid_unit" /\ UNCHANGED tables
    BY <1>6 DEF LockForPaid, At
  <2>2. /\ Moved(s) /\ tx'[s].step = "review_commit" /\ tx'[s].unit = tx[s].unit
        /\ tx'[s].rows = tx[s].rows /\ tx'[s].held = tx[s].held \cup Wants(s)
    BY <1>5, <1>6 DEF LockForPaid
  <2> QED
    BY <1>4, <2>1, <2>2
    DEF Sound, BeginsSound, BookingsSound, TenanciesSound, UnitsSound, ReleasesSound,
        ExpectedStatus, tables
<1>7. CASE LockForConfirm(s)
  <2>1. tx[s].step = "confirm_unit" /\ UNCHANGED tables
    BY <1>7 DEF LockForConfirm, At
  <2>2. /\ Moved(s) /\ tx'[s].step = "confirm_commit" /\ tx'[s].unit = tx[s].unit
        /\ tx'[s].rows = tx[s].rows /\ tx'[s].held = tx[s].held \cup {UnitLock(tx[s].unit)}
    BY <1>5, <1>7, <2>1, WantsUnit DEF LockForConfirm
  <2> QED
    BY <1>4, <2>1, <2>2
    DEF Sound, BeginsSound, BookingsSound, TenanciesSound, UnitsSound, ReleasesSound,
        ExpectedStatus, tables
<1>8. CASE LockForActivate(s)
  <2>1. tx[s].step = "activate_unit" /\ UNCHANGED tables
    BY <1>8 DEF LockForActivate, At
  <2>2. /\ Moved(s) /\ tx'[s].step = "activate_live" /\ tx'[s].unit = tx[s].unit
        /\ tx'[s].rows = tx[s].rows /\ tx'[s].held = tx[s].held \cup {UnitLock(tx[s].unit)}
    BY <1>5, <1>8, <2>1, WantsUnit DEF LockForActivate
  <2> QED
    BY <1>4, <2>1, <2>2
    DEF Sound, BeginsSound, BookingsSound, TenanciesSound, UnitsSound, ReleasesSound,
        ExpectedStatus, tables
<1>9. CASE ReadLive(s)
  <2>1. /\ tx[s].step = "activate_live" /\ UNCHANGED tables
        /\ LiveTenancies(tx[s].unit) = {} /\ UnitLock(tx[s].unit) \in tx[s].held
    BY <1>t, <1>9 DEF ReadLive, At, Sound, UnitsSound
  <2>2. /\ Moved(s) /\ tx'[s].step = "activate_previous" /\ tx'[s].unit = tx[s].unit
        /\ tx'[s].rows = tx[s].rows /\ tx'[s].held = tx[s].held \cup Wants(s)
    BY <1>5, <1>9 DEF ReadLive
  <2> QED
    BY <1>4, <2>1, <2>2
    DEF Sound, BeginsSound, BookingsSound, TenanciesSound, UnitsSound, ReleasesSound,
        ExpectedStatus, tables, LiveTenancies
<1>10. CASE ReadPrevious(s)
  <2> DEFINE u == tx[s].unit
  <2>1. /\ tx[s].step = "activate_previous" /\ UNCHANGED tables
        /\ LiveTenancies(u) = {} /\ UnitLock(u) \in tx[s].held
    BY <1>t, <1>10 DEF ReadPrevious, At, Sound, UnitsSound
  <2>2. /\ Moved(s) /\ tx'[s].step = "activate_commit" /\ tx'[s].unit = u
        /\ tx'[s].rows = tx[s].rows /\ tx'[s].held = tx[s].held \cup Wants(s)
    BY <1>5, <1>10 DEF ReadPrevious
  <2>3. AwaitingInspection(u) = {}
    <3>1. u \in Units /\ AwaitingInspection(u) \subseteq {lastEnded[u]}
      BY <1>4, <2>1 DEF RentalInv, OneTenantAtATime
    <3>2. lastEnded[u] # None => inspected[lastEnded[u]]
      BY <1>10 DEF ReadPrevious, PreviousInspected
    <3> QED
      BY <3>1, <3>2, SessionAssumption DEF AwaitingInspection
  <2> QED
    BY <1>4, <2>1, <2>2, <2>3
    DEF Sound, BeginsSound, BookingsSound, TenanciesSound, UnitsSound, ReleasesSound,
        ExpectedStatus, tables, LiveTenancies, AwaitingInspection
<1> QED
  BY <1>2, <1>3, <1>6, <1>7, <1>8, <1>9, <1>10

\* The handlers of a tenancy: notice, move-out and inspection.
LEMMA TenancyWorks ==
  ASSUME RentalInv, NEW s \in Sessions,
         \/ \E b \in Bookings : \/ \E again \in BOOLEAN : GiveNotice(s, b, again)
                                \/ EndTenancy(s, b)
                                \/ CompleteInspection(s, b)
                                \/ CommitNotice(s, b) \/ CommitEnd(s, b) \/ CommitInspection(s, b)
         \/ ReadForEnd(s) \/ ReadForInspection(s)
  PROVE  Moved(s) /\ Sound(s)'
<1> USE DEF SeekerSteps, BookingSteps, PaySteps, ConfirmSteps, ActivateSteps, ReleaseSteps,
            TenancySteps, LockingSteps
<1>t. TypeOK /\ Sound(s) /\ tx[s] \in Transactions
  BY DEF RentalInv, TypeOK
<1>1. ASSUME NEW b \in Bookings, NEW step \in {"notice_commit", "end_read", "inspect_read"},
             NEW to \in UnitStatus \cup {None}, OnTenancy(s, b, step, to), UNCHANGED tables,
             tenancy[b] \in ExpectedTenancy(step),
             step = "notice_commit" => to \in {"vacating_soon", "notice_given"}
      PROVE  Moved(s) /\ Sound(s)'
  <2>1. /\ Moved(s) /\ tx'[s].step = step /\ tx'[s].unit = bookingUnit[b]
        /\ tx'[s].rows = {b} /\ tx'[s].to = to /\ tx'[s].held = {TenancyLock(b)}
    BY <1>t, <1>1, OnTenancyParts DEF Steps
  <2> QED
    BY <1>1, <2>1, LockNames
    DEF Sound, BeginsSound, BookingsSound, TenanciesSound, UnitsSound, ReleasesSound, tables
<1>2. ASSUME NEW b \in Bookings, NEW again \in BOOLEAN, GiveNotice(s, b, again)
      PROVE  Moved(s) /\ Sound(s)'
  BY <1>1, <1>2 DEF GiveNotice, ExpectedTenancy, UnitStatus
<1>3. ASSUME NEW b \in Bookings, EndTenancy(s, b) PROVE Moved(s) /\ Sound(s)'
  BY <1>1, <1>3 DEF EndTenancy, ExpectedTenancy
<1>4. ASSUME NEW b \in Bookings, CompleteInspection(s, b) PROVE Moved(s) /\ Sound(s)'
  <2>1. tenancy[b] \in ExpectedTenancy("inspect_read")
    BY <1>t, <1>4 DEF CompleteInspection, ExpectedTenancy, TypeOK
  <2> QED
    BY <1>1, <1>4, <2>1 DEF CompleteInspection
<1>5. ASSUME NEW b \in Bookings, CommitNotice(s, b) \/ CommitEnd(s, b) \/ CommitInspection(s, b)
      PROVE  Moved(s) /\ Sound(s)'
  BY <1>t, <1>5, FinishIsSound DEF CommitNotice, CommitEnd, CommitInspection
<1>6. ASSUME NEW from \in {"end_read", "inspect_read"}, NEW next \in {"end_commit", "inspect_commit"},
             ReadUnit(s, from, next)
      PROVE  /\ Moved(s) /\ UNCHANGED tables /\ tx[s].step = from
             /\ tx'[s].step = next /\ tx'[s].unit = tx[s].unit
             /\ tx'[s].rows = tx[s].rows /\ tx'[s].held = tx[s].held
             /\ tx'[s].saw = unitStatus[tx[s].unit]
             /\ \E b \in Bookings : tx[s].rows = {b} /\ tx[s].unit = bookingUnit[b]
             /\ \A b \in tx[s].rows : TenancyLock(b) \in tx[s].held
                                        /\ tenancy[b] \in ExpectedTenancy(from)
             /\ \A u \in Units : UnitLock(u) \notin tx[s].held
  <2> DEFINE t == [tx[s] EXCEPT !.step = next, !.saw = unitStatus[tx[s].unit]]
  <2>0. tx[s].step = from /\ UNCHANGED tables
    BY <1>6 DEF ReadUnit, At
  <2>1. /\ \E b \in Bookings : tx[s].rows = {b} /\ tx[s].unit = bookingUnit[b]
        /\ \A b \in tx[s].rows : TenancyLock(b) \in tx[s].held
                                   /\ tenancy[b] \in ExpectedTenancy(from)
        /\ \A u \in Units : UnitLock(u) \notin tx[s].held
    BY <1>t, <2>0 DEF Sound, BeginsSound, TenanciesSound, UnitsSound
  <2>2. tx[s].unit \in Units
    BY <1>t, <2>1 DEF TypeOK, ExpectedTenancy, LiveStatus, TenancyStatus
  <2>3. t \in Transactions
    BY <1>t, <2>2 DEF TypeOK, Transactions, Steps
  <2>4. /\ t.step = next /\ t.unit = tx[s].unit /\ t.rows = tx[s].rows
        /\ t.held = tx[s].held /\ t.saw = unitStatus[tx[s].unit]
    BY <1>t DEF Transactions
  <2>5. Become(s, t)
    BY <1>6 DEF ReadUnit
  <2> HIDE DEF t
  <2>6. tx'[s] = t /\ Moved(s)
    BY <1>t, <2>3, <2>4, <2>5, BecomesTyped DEF Moved
  <2> QED
    BY <2>0, <2>1, <2>4, <2>6
<1>7. CASE ReadForEnd(s)
  BY <1>6, <1>7
  DEF ReadForEnd, Sound, BeginsSound, BookingsSound, TenanciesSound, UnitsSound, ReleasesSound,
      ExpectedTenancy, Overwrites, tables
<1>8. CASE ReadForInspection(s)
  BY <1>6, <1>8
  DEF ReadForInspection, Sound, BeginsSound, BookingsSound, TenanciesSound, UnitsSound,
      ReleasesSound, ExpectedTenancy, tables
<1> QED
  BY <1>2, <1>3, <1>4, <1>5, <1>7, <1>8

\* What a release goes on with, whichever row it dealt with last.
LEMMA OnwardIsSound ==
  ASSUME RentalInv, NEW s \in Sessions, NEW t \in Transactions, NEW n \in Onward(t), Become(s, n),
         UNCHANGED tables,
         t.to \in {"rejected", "cancelled", "expired"},
         t.todo \subseteq t.rows,
         \A lock \in t.held : lock \in tx[s].held \/ Free(lock),
         \A b \in t.rows : /\ BookingLock(b) \in t.held
                           /\ bookingStatus[b] = IF t.to # "rejected" THEN "pending_payment"
                                                 ELSE "payment_review",
         \A u \in Units : UnitLock(u) \in t.held => \E b \in t.rows : bookingUnit[b] = u,
         \A u \in Units : t.write[u] # None => UnitLock(u) \in t.held /\ t.write[u] \in Released,
         \A b \in t.rows \ t.todo :
           /\ UnitLock(bookingUnit[b]) \in t.held
           /\ t.write[bookingUnit[b]] # None \/ unitStatus[bookingUnit[b]] # "booking_pending"
  PROVE  Moved(s) /\ Sound(s)'
<1>1. t.rows \subseteq Bookings
  BY DEF Transactions
<1>2. \A b \in t.todo : bookingUnit[b] \in Units
  BY <1>1 DEF RentalInv, TypeOK
<1>3. /\ Moved(s)
      /\ tx'[s].rows = t.rows /\ tx'[s].to = t.to
      /\ tx'[s].write = t.write /\ tx'[s].held = t.held
      /\ \/ /\ t.todo = {} /\ tx'[s].todo = {} /\ tx'[s].step = "release_commit"
         \/ /\ tx'[s].step = "release_unit"
            /\ \E b \in t.todo : tx'[s].unit = bookingUnit[b] /\ tx'[s].todo = t.todo \ {b}
  BY <1>2, OnwardMoves DEF RentalInv
<1>4. UNCHANGED <<bookingStatus, bookingUnit, unitStatus>>
  BY DEF tables
<1>5. tx'[s].step \in {"release_unit", "release_commit"}
  BY <1>3
<1> USE DEF SeekerSteps, BookingSteps, PaySteps, ConfirmSteps, ActivateSteps, ReleaseSteps,
            TenancySteps, LockingSteps
<1>6. BeginsSound(s)' /\ TenanciesSound(s)' /\ UnitsSound(s)'
  BY <1>5 DEF BeginsSound, TenanciesSound, UnitsSound
<1>7. BookingsSound(s)'
  BY <1>3, <1>4, <1>5 DEF BookingsSound, ExpectedStatus
<1>8. ReleasesSound(s)'
  <2>1. CASE tx'[s].step = "release_commit"
    BY <1>3, <1>4, <2>1 DEF ReleasesSound
  <2>2. CASE tx'[s].step = "release_unit"
    <3>1. PICK b \in t.todo : tx'[s].unit = bookingUnit[b] /\ tx'[s].todo = t.todo \ {b}
      BY <1>3, <2>2
    <3> QED
      BY <1>3, <1>4, <2>2, <3>1 DEF ReleasesSound
  <2> QED
    BY <1>5, <2>1, <2>2
<1> QED
  BY <1>3, <1>6, <1>7, <1>8 DEF Sound

\* The release of one booking by a decision, or of a batch by the worker.
LEMMA ReleaseWorks ==
  ASSUME RentalInv, NEW s \in Sessions,
         \/ \E b \in Bookings : RejectBookingPayment(s, b) \/ CancelBooking(s, b)
         \/ ExpireStaleBookings(s)
         \/ LockForRelease(s) \/ ReadNotice(s) \/ ReadInspection(s) \/ CommitRelease(s)
  PROVE  Moved(s) /\ Sound(s)'
<1> USE DEF SeekerSteps, BookingSteps, PaySteps, ConfirmSteps, ActivateSteps, ReleaseSteps,
            TenancySteps, LockingSteps
<1> DEFINE Row(t, b) == /\ BookingLock(b) \in t.held
                        /\ bookingStatus[b] = IF t.to # "rejected" THEN "pending_payment"
                                              ELSE "payment_review"
           Done(t, b) == /\ UnitLock(bookingUnit[b]) \in t.held
                         /\ \/ t.write[bookingUnit[b]] # None
                            \/ unitStatus[bookingUnit[b]] # "booking_pending"
<1>t. TypeOK /\ Sound(s) /\ tx[s] \in Transactions
  BY DEF RentalInv, TypeOK
<1>1. ASSUME NEW S \in SUBSET Bookings, NEW to \in {"rejected", "cancelled", "expired"},
             S # {}, BeginRelease(s, S, to),
             \A b \in S : /\ Free(BookingLock(b))
                          /\ bookingStatus[b] = IF to # "rejected" THEN "pending_payment"
                                                ELSE "payment_review"
      PROVE  Moved(s) /\ Sound(s)'
  <2> DEFINE t == [Idle EXCEPT !.rows = S, !.todo = S, !.to = to,
                               !.held = {BookingLock(b) : b \in S}]
  <2>1. t \in Transactions
    BY DEF Idle, Transactions, Locks, Steps, BookingStatus
  <2>2. /\ t.rows = S /\ t.todo = S /\ t.to = to /\ t.held = {BookingLock(b) : b \in S}
        /\ t.write = [u \in Units |-> None]
    BY DEF Idle
  <2>3. PICK n \in Onward(t) : Become(s, n)
    BY <1>1 DEF BeginRelease
  <2>4. UNCHANGED tables
    BY <1>1 DEF BeginRelease
  <2> HIDE DEF t
  <2>5. /\ \A lock \in t.held : lock \in tx[s].held \/ Free(lock)
        /\ \A b \in t.rows : Row(t, b)
        /\ \A u \in Units : UnitLock(u) \notin t.held /\ t.write[u] = None
    BY <1>1, <2>2, LockNames
  <2> QED
    BY <2>1, <2>2, <2>3, <2>4, <2>5, OnwardIsSound
<1>2. ASSUME NEW b \in Bookings, RejectBookingPayment(s, b) \/ CancelBooking(s, b)
      PROVE  Moved(s) /\ Sound(s)'
  BY <1>1, <1>2 DEF RejectBookingPayment, CancelBooking
<1>3. CASE ExpireStaleBookings(s)
  BY <1>1, <1>3 DEF ExpireStaleBookings, Selected
<1>4. CASE CommitRelease(s)
  BY <1>t, <1>4, FinishIsSound DEF CommitRelease
<1>5. ASSUME tx[s].step \in {"release_unit", "release_notice", "release_inspection"}
      PROVE  /\ tx[s].unit \in Units /\ tx[s].rows \subseteq Bookings
             /\ tx[s].to \in {"rejected", "cancelled", "expired"}
             /\ tx[s].todo \subseteq tx[s].rows
             /\ \E b \in tx[s].rows \ tx[s].todo : bookingUnit[b] = tx[s].unit
             /\ \A u \in Units : UnitLock(u) \in tx[s].held => \E b \in tx[s].rows : bookingUnit[b] = u
             /\ \A u \in Units : tx[s].write[u] # None =>
                  UnitLock(u) \in tx[s].held /\ tx[s].write[u] \in Released
             /\ \A b \in tx[s].rows : Row(tx[s], b)
             /\ \A b \in tx[s].rows \ tx[s].todo :
                  bookingUnit[b] = tx[s].unit \/ Done(tx[s], b)
             /\ tx[s].step # "release_unit" => UnitLock(tx[s].unit) \in tx[s].held
  <2>1. ReleasesSound(s) /\ UnitsSound(s) /\ tx[s].rows \subseteq Bookings
    BY <1>t DEF Sound, Transactions
  <2>2. \A b \in tx[s].rows : Row(tx[s], b)
    BY <1>t, <1>5 DEF Sound, BookingsSound, ExpectedStatus
  <2>3. \A b \in tx[s].rows : bookingUnit[b] \in Units
    BY <1>t, <2>1, <2>2 DEF TypeOK
  <2> QED
    BY <1>5, <2>1, <2>2, <2>3 DEF ReleasesSound, UnitsSound
<1>6. CASE LockForRelease(s)
  <2>1. /\ tx[s].step = "release_unit" /\ UNCHANGED tables
        /\ \A lock \in Wants(s) : Free(lock)
        /\ tx[s].held \cup Wants(s) = tx[s].held \cup {UnitLock(tx[s].unit)}
    BY <1>6, WantsUnit DEF LockForRelease, At
  <2>2. CASE Continue(s, "release_notice")
    <3>1. /\ Moved(s) /\ tx'[s].step = "release_notice" /\ tx'[s].unit = tx[s].unit
          /\ tx'[s].rows = tx[s].rows /\ tx'[s].todo = tx[s].todo
          /\ tx'[s].to = tx[s].to /\ tx'[s].write = tx[s].write
          /\ tx'[s].held = tx[s].held \cup {UnitLock(tx[s].unit)}
      BY <1>t, <1>5, <2>1, <2>2, ContinueParts DEF Steps
    <3>2. UNCHANGED <<bookingStatus, bookingUnit, unitStatus>>
      BY <2>1 DEF tables
    <3>3. BeginsSound(s)' /\ TenanciesSound(s)' /\ UnitsSound(s)'
      BY <3>1 DEF BeginsSound, TenanciesSound, UnitsSound
    <3>4. BookingsSound(s)'
      BY <1>5, <2>1, <3>1, <3>2 DEF BookingsSound, ExpectedStatus
    <3>5. ReleasesSound(s)'
      BY <1>5, <2>1, <3>1, <3>2, LockNames DEF ReleasesSound
    <3> QED
      BY <3>1, <3>3, <3>4, <3>5 DEF Sound
  <2>3. CASE ~Releases(s) /\ \E n \in Onward([tx[s] EXCEPT !.held = @ \cup Wants(s)]) : Become(s, n)
    <3> DEFINE t == [tx[s] EXCEPT !.held = @ \cup Wants(s)]
    <3>1. t \in Transactions
      BY <1>t, <1>5, <2>1, WantsUnit DEF Transactions, Locks
    <3>2. /\ t.rows = tx[s].rows /\ t.todo = tx[s].todo /\ t.to = tx[s].to
          /\ t.write = tx[s].write /\ t.held = tx[s].held \cup {UnitLock(tx[s].unit)}
      BY <1>t, <2>1 DEF Transactions
    <3>3. PICK n \in Onward(t) : Become(s, n)
      BY <2>3
    <3> HIDE DEF t
    <3>4. unitStatus[tx[s].unit] # "booking_pending"
      BY <2>3 DEF Releases
    <3>5. /\ \A lock \in t.held : lock \in tx[s].held \/ Free(lock)
          /\ \A u \in Units : UnitLock(u) \in t.held => \E b \in t.rows : bookingUnit[b] = u
          /\ \A b \in t.rows \ t.todo : Done(t, b)
      BY <1>5, <2>1, <3>2, <3>4, LockNames
    <3> QED
      BY <1>5, <2>1, <3>1, <3>2, <3>3, <3>5, OnwardIsSound
  <2> QED
    BY <1>6, <2>2, <2>3 DEF LockForRelease
<1>7. ASSUME NEW from \in {"release_notice", "release_inspection"}, At(s, from), UNCHANGED tables,
             NEW status \in Released,
             NEW n \in Onward([tx[s] EXCEPT !.write[tx[s].unit] = status]), Become(s, n)
      PROVE  Moved(s) /\ Sound(s)'
  <2> DEFINE t == [tx[s] EXCEPT !.write[tx[s].unit] = status]
  <2>0. tx[s].step = from
    BY <1>7 DEF At
  <2>1. t \in Transactions
    BY <1>t, <1>5, <2>0 DEF Transactions, Released, UnitStatus
  <2>2. /\ t.rows = tx[s].rows /\ t.todo = tx[s].todo /\ t.to = tx[s].to
        /\ t.write = [tx[s].write EXCEPT ![tx[s].unit] = status] /\ t.held = tx[s].held
    BY <1>t DEF Transactions
  <2>3. tx[s].write \in [Units -> UnitStatus \cup {None}]
    BY <1>t DEF Transactions
  <2>4. status # None
    BY SessionAssumption DEF Released, UnitStatus
  <2>6. n \in Onward(t) /\ Become(s, n) /\ UNCHANGED tables
    BY <1>7
  <2> HIDE DEF t
  <2>7. /\ \A lock \in t.held : lock \in tx[s].held \/ Free(lock)
        /\ t.todo \subseteq t.rows
        /\ \A b \in t.rows : Row(t, b)
        /\ \A u \in Units : UnitLock(u) \in t.held => \E b \in t.rows : bookingUnit[b] = u
    BY <1>5, <2>0, <2>2
  <2>5. /\ \A b \in t.rows \ t.todo : Done(t, b)
        /\ \A u \in Units : t.write[u] # None => UnitLock(u) \in t.held /\ t.write[u] \in Released
    BY <1>5, <2>0, <2>2, <2>3, <2>4
  <2> QED
    BY <1>5, <2>0, <2>1, <2>2, <2>5, <2>6, <2>7, OnwardIsSound
<1>8. CASE ReadNotice(s)
  <2> DEFINE notice == UnderNotice(tx[s].unit)
             status == ReleasedStatus(TRUE, \E t \in notice : readvertise[t], FALSE)
  <2>1. tx[s].step = "release_notice" /\ At(s, "release_notice") /\ UNCHANGED tables
    BY <1>8 DEF ReadNotice, At
  <2>2. CASE Continue(s, "release_inspection")
    <3>0. Wants(s) = {}
      BY <2>1 DEF Wants, UpdatesUnit
    <3>1. /\ Moved(s) /\ tx'[s].step = "release_inspection" /\ tx'[s].unit = tx[s].unit
          /\ tx'[s].rows = tx[s].rows /\ tx'[s].todo = tx[s].todo
          /\ tx'[s].to = tx[s].to /\ tx'[s].write = tx[s].write
          /\ tx'[s].held = tx[s].held
      BY <1>t, <1>5, <2>1, <2>2, <3>0, ContinueParts DEF Steps
    <3>2. UNCHANGED <<bookingStatus, bookingUnit, unitStatus>>
      BY <2>1 DEF tables
    <3>3. BeginsSound(s)' /\ TenanciesSound(s)' /\ UnitsSound(s)'
      BY <1>5, <2>1, <3>1 DEF BeginsSound, TenanciesSound, UnitsSound
    <3>4. BookingsSound(s)'
      BY <1>5, <2>1, <3>1, <3>2 DEF BookingsSound, ExpectedStatus
    <3>5. ReleasesSound(s)'
      BY <1>5, <2>1, <3>1, <3>2 DEF ReleasesSound
    <3> QED
      BY <3>1, <3>3, <3>4, <3>5 DEF Sound
  <2>3. CASE \E n \in Onward([tx[s] EXCEPT !.write[tx[s].unit] = status]) : Become(s, n)
    <3>1. status \in Released
      BY DEF ReleasedStatus, Released
    <3> QED
      BY <1>7, <2>1, <2>3, <3>1
  <2> QED
    BY <1>8, <2>2, <2>3 DEF ReadNotice
<1>9. CASE ReadInspection(s)
  <2> DEFINE status == ReleasedStatus(FALSE, FALSE, AwaitingInspection(tx[s].unit) # {})
  <2>1. status \in Released
    BY DEF ReleasedStatus, Released
  <2> QED
    BY <1>7, <1>9, <2>1 DEF ReadInspection
<1> QED
  BY <1>2, <1>3, <1>4, <1>6, <1>8, <1>9

\* Every step of a session is one of these.
LEMMA WorksAreSound ==
  ASSUME RentalInv, NEW s \in Sessions, Works(s)
  PROVE  Moved(s) /\ Sound(s)'
<1>1. CASE Abort(s)
  BY <1>1, FinishIsSound DEF RentalInv, Abort
<1>2. CASE Begin(s)
  BY <1>2, SeekerWorks, BookingWorks, TenancyWorks, ReleaseWorks DEF Begin
<1>3. CASE Statement(s)
  BY <1>3, SeekerWorks, BookingWorks, TenancyWorks, ReleaseWorks DEF Statement
<1> QED
  BY <1>1, <1>2, <1>3 DEF Works

-----------------------------------------------------------------------------
(* Nobody's commit disturbs what another session has locked. *)

\* Statements that write no table keep everything.
LEMMA ReadsKeep ==
  ASSUME UNCHANGED tables, NEW x \in Sessions
  PROVE  Kept(x)
BY DEF tables, Kept, LiveTenancies, AwaitingInspection

\* The commit of a new booking.
LEMMA CreateKeeps ==
  ASSUME RentalInv, NEW s \in Sessions, NEW x \in Sessions \ {s}, NEW b \in Bookings,
         CommitCreate(s, b)
  PROVE  Kept(x)
<1> DEFINE u == tx[s].unit
<1>1. /\ tx[s].step = "create_commit" /\ bookingStatus[b] = "none"
      /\ bookingStatus' = [bookingStatus EXCEPT ![b] = "pending_payment"]
      /\ bookingUnit' = [bookingUnit EXCEPT ![b] = u]
      /\ unitStatus' = [unitStatus EXCEPT ![u] = "booking_pending"]
      /\ UNCHANGED <<tenancy, inspected>>
  BY DEF CommitCreate, At
<1>2. UnitLock(u) \in tx[s].held
  BY <1>1 DEF RentalInv, Sound, UnitsSound
<1>3. UnitLock(u) \notin tx[x].held
  BY <1>2 DEF RentalInv, LocksAreExclusive
<1>4. tenancy[b] = "none"
  BY <1>1 DEF RentalInv, TypeOK
<1>5. \A v \in Units : UNCHANGED <<LiveTenancies(v), AwaitingInspection(v)>>
  BY <1>1, <1>4 DEF RentalInv, TypeOK, LiveTenancies, AwaitingInspection, LiveStatus
<1> QED
  BY <1>1, <1>3, <1>5 DEF RentalInv, TypeOK, Kept

\* The commits of the decisions on locked bookings.
LEMMA DecisionsKeep ==
  ASSUME RentalInv, NEW s \in Sessions, NEW x \in Sessions \ {s},
         CommitReview(s) \/ CommitConfirm(s) \/ CommitRelease(s)
  PROVE  Kept(x)
<1>1. /\ tx[s].step \in {"review_commit", "confirm_commit", "release_commit"}
      /\ UNCHANGED <<bookingUnit, tenancy, inspected>>
      /\ \A b \in Bookings : b \notin tx[s].rows => bookingStatus'[b] = bookingStatus[b]
  BY DEF CommitReview, CommitConfirm, CommitRelease, At
<1>2. \A b \in tx[s].rows : BookingLock(b) \in tx[s].held
  BY <1>1 DEF RentalInv, Sound, BookingsSound, BookingSteps, PaySteps, ConfirmSteps, ReleaseSteps
<1>3. \A v \in Units : UNCHANGED <<LiveTenancies(v), AwaitingInspection(v)>>
  BY <1>1 DEF LiveTenancies, AwaitingInspection
<1>4. \A v \in Units : \/ unitStatus'[v] = unitStatus[v]
                       \/ UnitLock(v) \in tx[s].held /\ unitStatus'[v] # "occupied"
  <2>1. CASE CommitReview(s)
    BY <2>1 DEF CommitReview
  <2>2. CASE CommitConfirm(s)
    <3>1. tx[s].step = "confirm_commit" /\ unitStatus' = [unitStatus EXCEPT ![tx[s].unit] = "booked"]
      BY <2>2 DEF CommitConfirm, At
    <3>2. UnitLock(tx[s].unit) \in tx[s].held
      BY <3>1 DEF RentalInv, Sound, UnitsSound
    <3> QED
      BY <3>1, <3>2 DEF RentalInv, TypeOK
  <2>3. CASE CommitRelease(s)
    <3>1. /\ tx[s].step = "release_commit"
          /\ unitStatus' = [u \in Units |-> IF tx[s].write[u] # None
                              THEN tx[s].write[u] ELSE unitStatus[u]]
      BY <2>3 DEF CommitRelease, At
    <3>2. \A v \in Units : tx[s].write[v] # None =>
            UnitLock(v) \in tx[s].held /\ tx[s].write[v] \in Released
      BY <3>1 DEF RentalInv, Sound, ReleasesSound, ReleaseSteps
    <3> QED
      BY <3>1, <3>2 DEF Released
  <2> QED
    BY <2>1, <2>2, <2>3
<1>5. \A lock \in tx[s].held : lock \notin tx[x].held
  BY DEF RentalInv, LocksAreExclusive
<1> QED
  BY <1>1, <1>2, <1>3, <1>4, <1>5 DEF Kept

\* The commit of a move-in.
LEMMA ActivateKeeps ==
  ASSUME RentalInv, NEW s \in Sessions, NEW x \in Sessions \ {s}, NEW b \in Bookings,
         CommitActivate(s, b)
  PROVE  Kept(x)
<1> DEFINE u == tx[s].unit
<1>1. /\ tx[s].step = "activate_commit" /\ b \in tx[s].rows /\ LiveTenancies(u) = {}
      /\ tenancy' = [tenancy EXCEPT ![b] = "active"]
      /\ bookingStatus' = [bookingStatus EXCEPT ![b] = "fulfilled"]
      /\ unitStatus' = [unitStatus EXCEPT ![u] = "occupied"]
      /\ UNCHANGED <<bookingUnit, inspected>>
  BY DEF CommitActivate, At
<1>2. /\ UnitLock(u) \in tx[s].held /\ BookingLock(b) \in tx[s].held
      /\ bookingStatus[b] = "confirmed" /\ bookingUnit[b] = u
  BY <1>1 DEF RentalInv, Sound, UnitsSound, BookingsSound, BeginsSound, ExpectedStatus,
     BookingSteps, ActivateSteps, ReleaseSteps, PaySteps
<1>3. UnitLock(u) \notin tx[x].held /\ BookingLock(b) \notin tx[x].held
  BY <1>2 DEF RentalInv, LocksAreExclusive
<1>4. tenancy[b] = "none"
  BY <1>2 DEF RentalInv, TypeOK
<1>5. \A v \in Units \ {u} : UNCHANGED <<LiveTenancies(v), AwaitingInspection(v)>>
  BY <1>1, <1>2 DEF RentalInv, TypeOK, LiveTenancies, AwaitingInspection
<1> QED
  BY <1>1, <1>3, <1>4, <1>5 DEF RentalInv, TypeOK, Kept

\* A tenancy handler that writes its unit has waited for its lock.
LEMMA TenancyCommitsLocked ==
  ASSUME RentalInv, NEW s \in Sessions, NEW x \in Sessions \ {s},
         tx[s].step \in {"notice_commit", "end_commit", "inspect_commit"}, At(s, tx[s].step)
  PROVE  /\ UpdatesUnit(s) => UnitLock(tx[s].unit) \notin tx[x].held
         /\ \A b \in tx[s].rows : /\ TenancyLock(b) \notin tx[x].held
                                  /\ tenancy[b] \in ExpectedTenancy(tx[s].step)
                                  /\ bookingUnit[b] = tx[s].unit
         /\ tx[s].unit \in Units
<1>1. Sound(s) /\ TypeOK /\ LocksAreExclusive
  BY DEF RentalInv
<1>2. \A b \in tx[s].rows : TenancyLock(b) \in tx[s].held /\ tenancy[b] \in ExpectedTenancy(tx[s].step)
  BY <1>1 DEF Sound, TenanciesSound, TenancySteps
<1>3. PICK b \in Bookings : tx[s].rows = {b} /\ tx[s].unit = bookingUnit[b]
  BY <1>1 DEF Sound, BeginsSound, TenancySteps
<1>4. tx[s].unit \in Units
  BY <1>1, <1>2, <1>3 DEF TypeOK, ExpectedTenancy, LiveStatus
<1>5. UnitLock(tx[s].unit) \notin tx[s].held
  BY <1>1, <1>4 DEF Sound, UnitsSound, TenancySteps
<1>6. UpdatesUnit(s) => Free(UnitLock(tx[s].unit))
  BY <1>5 DEF At, Wants
<1> QED
  BY <1>1, <1>2, <1>3, <1>4, <1>6 DEF LocksAreExclusive, Free

\* The commits of the tenancy handlers.
LEMMA TenanciesKeep ==
  ASSUME RentalInv, NEW s \in Sessions, NEW x \in Sessions \ {s}, NEW b \in Bookings,
         CommitNotice(s, b) \/ CommitEnd(s, b) \/ CommitInspection(s, b)
  PROVE  Kept(x)
<1> DEFINE u == tx[s].unit
<1>0. /\ tx[s].step \in {"notice_commit", "end_commit", "inspect_commit"} /\ At(s, tx[s].step)
      /\ b \in tx[s].rows /\ UNCHANGED <<bookingStatus, bookingUnit>>
  BY DEF CommitNotice, CommitEnd, CommitInspection, At
<1>1. /\ UpdatesUnit(s) => UnitLock(u) \notin tx[x].held
      /\ TenancyLock(b) \notin tx[x].held /\ tenancy[b] \in ExpectedTenancy(tx[s].step)
      /\ bookingUnit[b] = u /\ u \in Units
  BY <1>0, TenancyCommitsLocked
<1>t. TypeOK
  BY DEF RentalInv
<1>2. CASE CommitNotice(s, b)
  <2>1. /\ tx[s].step = "notice_commit" /\ UNCHANGED inspected
        /\ tenancy' = [tenancy EXCEPT ![b] = "notice_given"]
        /\ unitStatus' = [unitStatus EXCEPT ![u] = tx[s].to]
    BY <1>2 DEF CommitNotice, At
  <2>2. tenancy[b] = "active" /\ UpdatesUnit(s)
    BY <1>1, <2>1 DEF ExpectedTenancy, UpdatesUnit
  <2>3. tx[s].to # "occupied"
    BY <2>1 DEF RentalInv, Sound, TenanciesSound
  <2>4. \A v \in Units : UNCHANGED <<LiveTenancies(v), AwaitingInspection(v)>>
    BY <1>0, <1>t, <2>1, <2>2 DEF TypeOK, LiveTenancies, AwaitingInspection, LiveStatus
  <2> QED
    BY <1>0, <1>1, <1>t, <2>1, <2>2, <2>3, <2>4 DEF TypeOK, Kept
<1>3. CASE CommitEnd(s, b)
  <2>1. /\ tx[s].step = "end_commit" /\ inspected' = [inspected EXCEPT ![b] = FALSE]
        /\ tenancy' = [tenancy EXCEPT ![b] = "ended"]
        /\ unitStatus' = [unitStatus EXCEPT ![u] = IF Overwrites(s) THEN VacantStatus ELSE @]
    BY <1>3 DEF CommitEnd, At
  <2>2. tenancy[b] \in LiveStatus /\ (Overwrites(s) => UpdatesUnit(s))
    BY <1>1, <2>1 DEF ExpectedTenancy, UpdatesUnit
  <2>3. LiveTenancies(u) # {}
    BY <1>1, <2>2 DEF LiveTenancies
  <2>4. \A v \in Units \ {u} : UNCHANGED <<LiveTenancies(v), AwaitingInspection(v)>>
    BY <1>0, <1>1, <1>t, <2>1 DEF TypeOK, LiveTenancies, AwaitingInspection
  <2>5. \A v \in Units : LiveTenancies(v) = {} => UNCHANGED <<LiveTenancies(v), AwaitingInspection(v)>>
    BY <2>3, <2>4
  <2> QED
    BY <1>0, <1>1, <1>t, <2>1, <2>2, <2>5 DEF TypeOK, Kept, VacantStatus
<1>4. CASE CommitInspection(s, b)
  <2>1. /\ tx[s].step = "inspect_commit" /\ UNCHANGED tenancy
        /\ inspected' = [inspected EXCEPT ![b] = TRUE]
        /\ unitStatus' = [unitStatus EXCEPT ![u] = IF tx[s].saw = "inspection" THEN "available" ELSE @]
    BY <1>4 DEF CommitInspection, At
  <2>2. tx[s].saw = "inspection" => UpdatesUnit(s)
    BY <2>1 DEF UpdatesUnit
  <2>3. \A v \in Units : /\ LiveTenancies(v)' = LiveTenancies(v)
                         /\ AwaitingInspection(v)' \subseteq AwaitingInspection(v)
    BY <1>0, <1>t, <2>1 DEF TypeOK, LiveTenancies, AwaitingInspection
  <2> QED
    BY <1>0, <1>1, <1>t, <2>1, <2>2, <2>3 DEF TypeOK, Kept
<1> QED
  BY <1>2, <1>3, <1>4

\* A session that works keeps what all the others have locked.
LEMMA KeptByOthers ==
  ASSUME RentalInv, NEW s \in Sessions, NEW x \in Sessions \ {s}, Works(s)
  PROVE  Kept(x)
<1>1. CASE UNCHANGED tables
  BY <1>1, ReadsKeep
<1>2. CASE \E b \in Bookings : \/ CommitCreate(s, b) \/ CommitActivate(s, b)
                               \/ CommitNotice(s, b) \/ CommitEnd(s, b) \/ CommitInspection(s, b)
  BY <1>2, CreateKeeps, ActivateKeeps, TenanciesKeep
<1>3. CASE CommitReview(s) \/ CommitConfirm(s) \/ CommitRelease(s)
  BY <1>3, DecisionsKeep
<1>4. CASE Abort(s)
  BY <1>1, <1>4 DEF Abort
<1>5. CASE Begin(s)
  BY <1>1, <1>5 DEF Begin, ReadForHold, ReadHold, SubmitBookingPayment, ProcessBookingPaid,
     ConfirmBooking, RejectBookingPayment, CancelBooking, ActivateTenancy, GiveNotice,
     EndTenancy, CompleteInspection, ExpireStaleBookings, BeginRelease
<1>6. CASE Statement(s)
  BY <1>1, <1>2, <1>3, <1>6 DEF Statement, SetHold, LockForCreate, DeleteHold, LockForPaid,
     LockForConfirm, LockForRelease, ReadNotice, ReadInspection, LockForActivate, ReadLive,
     ReadPrevious, ReadForEnd, ReadForInspection, ReadUnit
<1> QED
  BY <1>4, <1>5, <1>6 DEF Works

\* What the others keep is all that a session's soundness rests on.
LEMMA SoundStays ==
  ASSUME RentalInv, NEW x \in Sessions, tx'[x] = tx[x], Kept(x)
  PROVE  Sound(x)'
<1> DEFINE t == tx[x]
<1> USE DEF SeekerSteps, BookingSteps, PaySteps, ConfirmSteps, ActivateSteps, ReleaseSteps,
            TenancySteps, LockingSteps
<1>1. TypeOK /\ Sound(x) /\ t \in Transactions
  BY DEF RentalInv, TypeOK
<1>2. ASSUME NEW b \in t.rows, t.step \in BookingSteps \cup TenancySteps
      PROVE  /\ b \in Bookings /\ bookingStatus[b] # "none"
             /\ bookingUnit[b] \in Units /\ bookingUnit'[b] = bookingUnit[b]
  <2>1. b \in Bookings
    BY <1>1 DEF Transactions
  <2>2. CASE t.step \in BookingSteps
    BY <1>1, <2>1, <2>2 DEF Sound, BookingsSound, ExpectedStatus, TypeOK, Kept
  <2>3. CASE t.step \in TenancySteps
    BY <1>1, <2>1, <2>3
    DEF Sound, TenanciesSound, ExpectedTenancy, LiveStatus, TenancyStatus, TypeOK, Kept
  <2> QED
    BY <1>2, <2>2, <2>3
<1>3. ASSUME t.step \in (BookingSteps \ ReleaseSteps) \cup TenancySteps
      PROVE  /\ t.unit \in Units
             /\ \E b \in Bookings : t.rows = {b} /\ t.unit = bookingUnit[b]
  BY <1>1, <1>2, <1>3 DEF Sound, BeginsSound
<1>4. BeginsSound(x)'
  <2>1. BeginsSound(x)
    BY <1>1 DEF Sound
  <2>2. ASSUME t.step \in (BookingSteps \ ReleaseSteps) \cup TenancySteps
        PROVE  \E b \in Bookings : t.rows = {b} /\ t.unit = bookingUnit'[b]
    <3>1. PICK b \in Bookings : t.rows = {b} /\ t.unit = bookingUnit[b]
      BY <1>3, <2>2
    <3>2. bookingUnit'[b] = bookingUnit[b]
      BY <1>2, <2>2, <3>1
    <3> QED
      BY <3>1, <3>2
  <2> QED
    BY <2>1, <2>2 DEF BeginsSound
<1>5. BookingsSound(x)'
  BY <1>1, <1>2 DEF Sound, BookingsSound, ExpectedStatus, Kept
<1>6. TenanciesSound(x)'
  <2>1. \A b \in t.rows : t.step \in TenancySteps =>
          TenancyLock(b) \in t.held /\ tenancy'[b] \in ExpectedTenancy(t.step)
    <3> SUFFICES ASSUME NEW b \in t.rows, t.step \in TenancySteps
                 PROVE  TenancyLock(b) \in t.held /\ tenancy'[b] \in ExpectedTenancy(t.step)
      OBVIOUS
    <3>1. TenancyLock(b) \in t.held /\ tenancy[b] \in ExpectedTenancy(t.step)
      BY <1>1 DEF Sound, TenanciesSound
    <3>2. tenancy[b] # "none"
      BY <3>1 DEF ExpectedTenancy, LiveStatus, TenancyStatus
    <3> QED
      BY <1>2, <3>1, <3>2 DEF Kept
  <2>2. ASSUME t.step = "end_commit", ~Overwrites(x) PROVE unitStatus'[t.unit] # "occupied"
    <3>1. PICK b \in Bookings : t.rows = {b} /\ t.unit = bookingUnit[b]
      BY <1>3, <2>2
    <3>2. tenancy[b] \in LiveStatus /\ unitStatus[t.unit] # "occupied"
      BY <1>1, <2>2, <3>1 DEF Sound, TenanciesSound, ExpectedTenancy
    <3>3. LiveTenancies(t.unit) # {}
      BY <3>1, <3>2 DEF LiveTenancies
    <3> QED
      BY <1>3, <2>2, <3>2, <3>3 DEF Kept
  <2> QED
    BY <1>1, <2>1, <2>2 DEF Sound, TenanciesSound, Overwrites
<1>7. UnitsSound(x)'
  <2>1. UnitsSound(x)
    BY <1>1 DEF Sound
  <2>2. ASSUME t.step \in {"activate_previous", "activate_commit"}
        PROVE  /\ LiveTenancies(t.unit)' = {}
               /\ t.step = "activate_commit" => AwaitingInspection(t.unit)' = {}
    <3>1. /\ t.unit \in Units /\ UnitLock(t.unit) \in t.held /\ LiveTenancies(t.unit) = {}
          /\ t.step = "activate_commit" => AwaitingInspection(t.unit) = {}
      BY <1>3, <2>1, <2>2 DEF UnitsSound
    <3>2. /\ LiveTenancies(t.unit)' = {}
          /\ AwaitingInspection(t.unit) = {} => AwaitingInspection(t.unit)' = {}
      BY <3>1 DEF Kept, LiveTenancies, AwaitingInspection
    <3> QED
      BY <3>1, <3>2
  <2> QED
    BY <2>1, <2>2 DEF UnitsSound, LiveTenancies, AwaitingInspection
<1>8. ReleasesSound(x)'
  <2> SUFFICES ASSUME t.step \in ReleaseSteps PROVE ReleasesSound(x)'
    BY DEF ReleasesSound
  <2>1. ReleasesSound(x)
    BY <1>1 DEF Sound
  <2>2. \A b \in t.rows : bookingUnit[b] \in Units /\ bookingUnit'[b] = bookingUnit[b]
    BY <1>2
  <2>3. \A u \in Units : UnitLock(u) \in t.held => unitStatus'[u] = unitStatus[u]
    BY DEF Kept
  <2> QED
    BY <2>1, <2>2, <2>3 DEF ReleasesSound
<1> QED
  BY <1>4, <1>5, <1>6, <1>7, <1>8 DEF Sound

\* The locks stay exclusive.
LEMMA LocksStayExclusive ==
  ASSUME RentalInv, NEW s \in Sessions, Moved(s)
  PROVE  LocksAreExclusive'
BY DEF RentalInv, Moved, LocksAreExclusive, Free

-----------------------------------------------------------------------------
(* Every commit keeps what relates the tables to each other. *)

TablesOK ==
  /\ unitStatus \in [Units -> UnitStatus]
  /\ bookingStatus \in [Bookings -> BookingStatus \cup {"none"}]
  /\ bookingUnit \in [Bookings -> Units \cup {None}]
  /\ \A b \in Bookings : bookingStatus[b] # "none" => bookingUnit[b] \in Units
  /\ tenancy \in [Bookings -> TenancyStatus \cup {"none"}]
  /\ \A b \in Bookings : tenancy[b] # "none" <=> bookingStatus[b] = "fulfilled"
  /\ readvertise \in [Bookings -> BOOLEAN]
  /\ inspected \in [Bookings -> BOOLEAN]
  /\ lastEnded \in [Units -> Bookings \cup {None}]

TablesInv == TablesOK /\ OneActiveBooking /\ StatusIsBacked /\ OneTenantAtATime

\* OneActiveBooking, StatusIsBacked and OneTenantAtATime, of one unit.
Consistent(u) ==
  /\ \A b, c \in ActiveBookings(u) : b = c
  /\ unitStatus[u] = "booked" => \E b \in ActiveBookings(u) : bookingStatus[b] = "confirmed"
  /\ unitStatus[u] = "booking_pending" =>
       \E b \in ActiveBookings(u) : bookingStatus[b] # "confirmed"
  /\ unitStatus[u] = "occupied" => \E t \in LiveTenancies(u) : tenancy[t] = "active"
  /\ \A b, c \in LiveTenancies(u) : b = c
  /\ AwaitingInspection(u) \subseteq {lastEnded[u]}
  /\ LiveTenancies(u) # {} => AwaitingInspection(u) = {}

\* The two ways to say it, before a step and after it.
LEMMA EveryUnit ==
  /\ TablesInv <=> TablesOK /\ \A u \in Units : Consistent(u)
  /\ TablesInv' <=> TablesOK' /\ \A u \in Units : Consistent(u)'
<1>1. TablesInv <=> TablesOK /\ \A u \in Units : Consistent(u)
  BY DEF TablesInv, OneActiveBooking, StatusIsBacked, OneTenantAtATime, Consistent
<1>2. TablesInv' <=> TablesOK' /\ \A u \in Units : Consistent(u)'
  BY DEF TablesInv, OneActiveBooking, StatusIsBacked, OneTenantAtATime, Consistent
<1> QED
  BY <1>1, <1>2

\* A unit none of whose bookings, tenancies and columns change is as it was.
LEMMA UnitUntouched ==
  ASSUME NEW u \in Units, Consistent(u), UNCHANGED <<unitStatus[u], lastEnded[u]>>,
         ActiveBookings(u)' = ActiveBookings(u), LiveTenancies(u)' = LiveTenancies(u),
         AwaitingInspection(u)' \subseteq AwaitingInspection(u),
         \A b \in ActiveBookings(u) : bookingStatus'[b] = bookingStatus[b],
         \A b \in LiveTenancies(u) : tenancy'[b] = tenancy[b]
  PROVE  Consistent(u)'
BY DEF Consistent

\* The insert of a booking: its unit had no active one.
LEMMA CreateTables ==
  ASSUME RentalInv, TablesInv, NEW s \in Sessions, NEW b \in Bookings, CommitCreate(s, b)
  PROVE  TablesInv'
<1>2. PICK u \in Units : u = tx[s].unit
  BY DEF CommitCreate, At, RentalInv, Sound, BeginsSound, SeekerSteps
<1>1. /\ bookingStatus[b] = "none" /\ ActiveBookings(u) = {}
      /\ bookingStatus' = [bookingStatus EXCEPT ![b] = "pending_payment"]
      /\ bookingUnit' = [bookingUnit EXCEPT ![b] = u]
      /\ unitStatus' = [unitStatus EXCEPT ![u] = "booking_pending"]
      /\ UNCHANGED <<tenancy, readvertise, inspected, lastEnded>>
  BY <1>2 DEF CommitCreate, BookingIndex
<1>3. TablesOK /\ tenancy[b] = "none"
  BY <1>1 DEF TablesInv, TablesOK
<1>4. TablesOK'
  BY <1>1, <1>2, <1>3 DEF TablesOK, BookingStatus, UnitStatus
<1>5. \A v \in Units : UNCHANGED <<LiveTenancies(v), AwaitingInspection(v)>>
  BY <1>1, <1>3 DEF TablesOK, LiveTenancies, AwaitingInspection, LiveStatus
<1>6. ActiveBookings(u)' = {b} /\ bookingStatus'[b] = "pending_payment"
      /\ unitStatus'[u] = "booking_pending"
  BY <1>1, <1>2, <1>3 DEF TablesOK, ActiveBookings, ActiveStatus
<1>7. \A v \in Units \ {u} : UNCHANGED <<ActiveBookings(v), unitStatus[v], lastEnded[v]>>
  BY <1>1, <1>3 DEF TablesOK, ActiveBookings, ActiveStatus
<1>8. \A c \in Bookings \ {b} : UNCHANGED bookingStatus[c]
  BY <1>1, <1>3 DEF TablesOK
<1>9. \A v \in Units : b \notin ActiveBookings(v)
  BY <1>1 DEF ActiveBookings, ActiveStatus
<1>10. ASSUME NEW v \in Units \ {u}
       PROVE  \A c \in ActiveBookings(v) : bookingStatus'[c] = bookingStatus[c]
  BY <1>8, <1>9 DEF ActiveBookings
<1>11. Consistent(u)'
  BY <1>1, <1>2, <1>5, <1>6, EveryUnit DEF Consistent
<1>12. \A v \in Units \ {u} : Consistent(v)'
  BY <1>1, <1>5, <1>7, <1>10, EveryUnit, UnitUntouched
<1> QED
  BY <1>4, <1>11, <1>12, EveryUnit

\* A payment under review: the booking stays active.
LEMMA ReviewTables ==
  ASSUME RentalInv, TablesInv, NEW s \in Sessions, CommitReview(s)
  PROVE  TablesInv'
<1>1. /\ tx[s].step = "review_commit"
      /\ bookingStatus' = [b \in Bookings |-> IF b \in tx[s].rows
                             THEN "payment_review" ELSE bookingStatus[b]]
      /\ UNCHANGED <<unitStatus, bookingUnit, tenancy, readvertise, inspected, lastEnded>>
  BY DEF CommitReview, At
<1>2. \A b \in tx[s].rows : bookingStatus[b] = "pending_payment"
  BY <1>1 DEF RentalInv, Sound, BookingsSound, BookingSteps, PaySteps, ExpectedStatus
<1>3. TablesOK'
  BY <1>1, <1>2 DEF TablesInv, TablesOK, BookingStatus
<1>4. \A u \in Units : ActiveBookings(u)' = ActiveBookings(u)
  BY <1>1, <1>2 DEF ActiveBookings, ActiveStatus
<1>5. \A b \in Bookings : (bookingStatus'[b] = "confirmed") <=> (bookingStatus[b] = "confirmed")
  BY <1>1, <1>2
<1>6. \A u \in Units : ActiveBookings(u) \subseteq Bookings
  BY DEF ActiveBookings
<1> QED
  BY <1>1, <1>3, <1>4, <1>5, <1>6
  DEF TablesInv, OneActiveBooking, StatusIsBacked, OneTenantAtATime, LiveTenancies, AwaitingInspection

\* The confirmation: the booking behind booked is now confirmed.
LEMMA ConfirmTables ==
  ASSUME RentalInv, TablesInv, NEW s \in Sessions, CommitConfirm(s)
  PROVE  TablesInv'
<1>1. /\ tx[s].step = "confirm_commit"
      /\ bookingStatus' = [b \in Bookings |-> IF b \in tx[s].rows
                             THEN "confirmed" ELSE bookingStatus[b]]
      /\ unitStatus' = [unitStatus EXCEPT ![tx[s].unit] = "booked"]
      /\ UNCHANGED <<bookingUnit, tenancy, readvertise, inspected, lastEnded>>
  BY DEF CommitConfirm, At
<1>2. PICK b \in Bookings : tx[s].rows = {b} /\ tx[s].unit = bookingUnit[b]
  BY <1>1 DEF RentalInv, Sound, BeginsSound, BookingSteps, ConfirmSteps, ReleaseSteps
<1>3. bookingStatus[b] = "payment_review"
  BY <1>1, <1>2 DEF RentalInv, Sound, BookingsSound, BookingSteps, ConfirmSteps, ExpectedStatus,
     PaySteps, ReleaseSteps, ActivateSteps
<1>4. TablesOK
  BY DEF TablesInv
<1>u. PICK u \in Units : u = bookingUnit[b]
  BY <1>2, <1>3 DEF TablesInv, TablesOK
<1>5. TablesOK'
  BY <1>1, <1>2, <1>3, <1>4, <1>u DEF TablesOK, BookingStatus, UnitStatus
<1>6. \A v \in Units : UNCHANGED <<ActiveBookings(v), LiveTenancies(v), AwaitingInspection(v)>>
  BY <1>1, <1>2, <1>3 DEF ActiveBookings, ActiveStatus, LiveTenancies, AwaitingInspection
<1>7. /\ b \in ActiveBookings(u) /\ bookingStatus'[b] = "confirmed" /\ unitStatus'[u] = "booked"
      /\ \A c \in Bookings \ {b} : bookingStatus'[c] = bookingStatus[c]
  BY <1>1, <1>2, <1>3, <1>4, <1>u DEF TablesOK, ActiveBookings, ActiveStatus
<1>8. \A v \in Units \ {u} : UNCHANGED unitStatus[v] /\ b \notin ActiveBookings(v)
  BY <1>1, <1>2, <1>4, <1>u DEF TablesOK, ActiveBookings
<1>9. \A v \in Units \ {u} : \A c \in ActiveBookings(v) : bookingStatus'[c] = bookingStatus[c]
  BY <1>7, <1>8 DEF ActiveBookings
<1>10. Consistent(u)'
  BY <1>1, <1>6, <1>7, EveryUnit DEF Consistent
<1>11. \A v \in Units \ {u} : Consistent(v)'
  BY <1>1, <1>6, <1>8, <1>9, EveryUnit, UnitUntouched
<1> QED
  BY <1>5, <1>10, <1>11, EveryUnit

\* The release: a unit that stays booking_pending keeps another booking, since
\* those of the batch are written or were not booking_pending under the lock.
LEMMA ReleaseTables ==
  ASSUME RentalInv, TablesInv, NEW s \in Sessions, CommitRelease(s)
  PROVE  TablesInv'
<1> DEFINE t == tx[s]
<1>1. /\ t.step = "release_commit"
      /\ bookingStatus' = [b \in Bookings |-> IF b \in t.rows THEN t.to ELSE bookingStatus[b]]
      /\ unitStatus' = [u \in Units |-> IF t.write[u] # None THEN t.write[u] ELSE unitStatus[u]]
      /\ UNCHANGED <<bookingUnit, tenancy, readvertise, inspected, lastEnded>>
  BY DEF CommitRelease, At
<1>2. /\ t.to \in {"rejected", "cancelled", "expired"}
      /\ \A u \in Units : t.write[u] # None => t.write[u] \in Released
      /\ \A b \in t.rows : \/ t.write[bookingUnit[b]] # None
                           \/ unitStatus[bookingUnit[b]] # "booking_pending"
  BY <1>1 DEF RentalInv, Sound, ReleasesSound, ReleaseSteps
<1>3. \A b \in t.rows : bookingStatus[b] \in {"pending_payment", "payment_review"}
  BY <1>1 DEF RentalInv, Sound, BookingsSound, BookingSteps, ReleaseSteps, PaySteps,
     ActivateSteps, ExpectedStatus
<1>4. TablesOK'
  BY <1>1, <1>2, <1>3 DEF TablesInv, TablesOK, BookingStatus, UnitStatus, Released
<1>5. \A u \in Units : ActiveBookings(u)' = ActiveBookings(u) \ t.rows
  BY <1>1, <1>2 DEF ActiveBookings, ActiveStatus
<1>6. OneActiveBooking'
  BY <1>5 DEF TablesInv, OneActiveBooking
<1>7. OneTenantAtATime'
  BY <1>1 DEF TablesInv, OneTenantAtATime, LiveTenancies, AwaitingInspection
<1>8. StatusIsBacked'
  <2> SUFFICES ASSUME NEW u \in Units
               PROVE  /\ unitStatus'[u] = "booked" =>
                           \E b \in ActiveBookings(u)' : bookingStatus'[b] = "confirmed"
                      /\ unitStatus'[u] = "booking_pending" =>
                           \E b \in ActiveBookings(u)' : bookingStatus'[b] # "confirmed"
                      /\ unitStatus'[u] = "occupied" =>
                           \E b \in LiveTenancies(u)' : tenancy'[b] = "active"
    BY DEF StatusIsBacked
  <2>1. CASE t.write[u] # None
    BY <1>1, <1>2, <2>1 DEF Released
  <2>2. CASE t.write[u] = None
    <3>1. unitStatus'[u] = unitStatus[u] /\ UNCHANGED LiveTenancies(u)
      BY <1>1, <2>2 DEF LiveTenancies
    <3>2. ASSUME unitStatus[u] = "booked"
          PROVE  \E b \in ActiveBookings(u)' : bookingStatus'[b] = "confirmed"
      <4>1. PICK b \in ActiveBookings(u) : bookingStatus[b] = "confirmed"
        BY <3>2 DEF TablesInv, StatusIsBacked
      <4>2. b \notin t.rows /\ b \in Bookings
        BY <1>3, <4>1 DEF ActiveBookings
      <4> QED
        BY <1>1, <1>5, <4>1, <4>2
    <3>3. ASSUME unitStatus[u] = "booking_pending"
          PROVE  \E b \in ActiveBookings(u)' : bookingStatus'[b] # "confirmed"
      <4>1. PICK b \in ActiveBookings(u) : bookingStatus[b] # "confirmed"
        BY <3>3 DEF TablesInv, StatusIsBacked
      <4>2. b \in Bookings /\ bookingUnit[b] = u
        BY <4>1 DEF ActiveBookings
      <4>3. b \notin t.rows
        BY <1>2, <2>2, <3>3, <4>2
      <4> QED
        BY <1>1, <1>5, <4>1, <4>2, <4>3
    <3> QED
      BY <1>1, <3>1, <3>2, <3>3 DEF TablesInv, StatusIsBacked
  <2> QED
    BY <2>1, <2>2
<1> QED
  BY <1>4, <1>6, <1>7, <1>8 DEF TablesInv

\* The move-in: nobody lived in the unit when its lock was taken.
LEMMA ActivateTables ==
  ASSUME RentalInv, TablesInv, NEW s \in Sessions, NEW b \in Bookings, CommitActivate(s, b)
  PROVE  TablesInv'
<1>1. /\ tx[s].step = "activate_commit" /\ b \in tx[s].rows
      /\ tenancy' = [tenancy EXCEPT ![b] = "active"]
      /\ readvertise' = [readvertise EXCEPT ![b] = TRUE]
      /\ bookingStatus' = [bookingStatus EXCEPT ![b] = "fulfilled"]
      /\ unitStatus' = [unitStatus EXCEPT ![tx[s].unit] = "occupied"]
      /\ UNCHANGED <<bookingUnit, inspected, lastEnded>>
  BY DEF CommitActivate, At
<1>2. bookingStatus[b] = "confirmed" /\ bookingUnit[b] = tx[s].unit
  BY <1>1 DEF RentalInv, Sound, BookingsSound, BeginsSound, ExpectedStatus,
     BookingSteps, ActivateSteps, ReleaseSteps, PaySteps
<1>3. TablesOK /\ tenancy[b] = "none"
  BY <1>2 DEF TablesInv, TablesOK
<1>4. PICK u \in Units : u = bookingUnit[b]
  BY <1>2, <1>3 DEF TablesOK
<1>5. LiveTenancies(u) = {} /\ AwaitingInspection(u) = {}
  BY <1>1, <1>2, <1>4 DEF RentalInv, Sound, UnitsSound
<1>6. TablesOK'
  BY <1>1, <1>2, <1>3 DEF TablesOK, BookingStatus, UnitStatus, TenancyStatus
<1>7. /\ ActiveBookings(u)' \subseteq ActiveBookings(u) /\ LiveTenancies(u)' = {b}
      /\ AwaitingInspection(u)' = {} /\ tenancy'[b] = "active" /\ unitStatus'[u] = "occupied"
  BY <1>1, <1>2, <1>3, <1>4, <1>5
  DEF TablesOK, ActiveBookings, LiveTenancies, AwaitingInspection, ActiveStatus, LiveStatus
<1>8. Consistent(u)'
  BY <1>7, EveryUnit DEF Consistent
<1>9. ASSUME NEW v \in Units \ {u} PROVE Consistent(v)'
  <2>1. UNCHANGED <<unitStatus[v], lastEnded[v], ActiveBookings(v), LiveTenancies(v), AwaitingInspection(v)>>
    BY <1>1, <1>2, <1>3, <1>4 DEF TablesOK, ActiveBookings, LiveTenancies, AwaitingInspection
  <2>2. /\ \A c \in ActiveBookings(v) : bookingStatus'[c] = bookingStatus[c]
        /\ \A c \in LiveTenancies(v) : tenancy'[c] = tenancy[c]
    BY <1>1, <1>3, <1>4 DEF TablesOK, ActiveBookings, LiveTenancies
  <2> QED
    BY <2>1, <2>2, EveryUnit, UnitUntouched
<1> QED
  BY <1>6, <1>8, <1>9, EveryUnit

\* The notice: it overwrites the unit's status with one that claims nothing.
LEMMA NoticeTables ==
  ASSUME RentalInv, TablesInv, NEW s \in Sessions, NEW b \in Bookings, CommitNotice(s, b)
  PROVE  TablesInv'
<1>1. /\ tx[s].step = "notice_commit" /\ b \in tx[s].rows
      /\ tenancy' = [tenancy EXCEPT ![b] = "notice_given"]
      /\ readvertise' = [readvertise EXCEPT ![b] = (tx[s].to = "vacating_soon")]
      /\ unitStatus' = [unitStatus EXCEPT ![tx[s].unit] = tx[s].to]
      /\ UNCHANGED <<bookingStatus, bookingUnit, inspected, lastEnded>>
  BY DEF CommitNotice, At
<1>2. /\ tenancy[b] = "active" /\ bookingUnit[b] = tx[s].unit
      /\ tx[s].to \in {"vacating_soon", "notice_given"}
  BY <1>1 DEF RentalInv, Sound, TenanciesSound, BeginsSound, ExpectedTenancy, TenancySteps
<1>3. TablesOK
  BY DEF TablesInv
<1>4. PICK u \in Units : u = bookingUnit[b]
  BY <1>2, <1>3 DEF TablesOK
<1>5. TablesOK'
  BY <1>1, <1>2, <1>3 DEF TablesOK, UnitStatus, TenancyStatus
<1>6. \A v \in Units : UNCHANGED <<ActiveBookings(v), LiveTenancies(v), AwaitingInspection(v)>>
  BY <1>1, <1>2, <1>3 DEF TablesOK, ActiveBookings, LiveTenancies, AwaitingInspection, LiveStatus
<1>7. unitStatus'[u] \in {"vacating_soon", "notice_given"}
  BY <1>1, <1>2, <1>3, <1>4 DEF TablesOK
<1>8. Consistent(u)'
  BY <1>1, <1>6, <1>7, EveryUnit DEF Consistent
<1>9. ASSUME NEW v \in Units \ {u} PROVE Consistent(v)'
  <2>1. UNCHANGED <<unitStatus[v], lastEnded[v]>>
    BY <1>1, <1>2, <1>3, <1>4 DEF TablesOK
  <2>2. \A c \in LiveTenancies(v) : tenancy'[c] = tenancy[c]
    BY <1>1, <1>3, <1>4 DEF TablesOK, LiveTenancies
  <2> QED
    BY <1>1, <1>6, <2>1, <2>2, EveryUnit, UnitUntouched
<1> QED
  BY <1>5, <1>8, <1>9, EveryUnit

\* The move-out: the one tenant leaves, and occupied is never left behind.
LEMMA EndTables ==
  ASSUME RentalInv, TablesInv, NEW s \in Sessions, NEW b \in Bookings, CommitEnd(s, b)
  PROVE  TablesInv'
<1>1. /\ tx[s].step = "end_commit" /\ b \in tx[s].rows
      /\ tenancy' = [tenancy EXCEPT ![b] = "ended"]
      /\ inspected' = [inspected EXCEPT ![b] = FALSE]
      /\ lastEnded' = [lastEnded EXCEPT ![tx[s].unit] = b]
      /\ unitStatus' = [unitStatus EXCEPT ![tx[s].unit] = IF Overwrites(s) THEN VacantStatus ELSE @]
      /\ UNCHANGED <<bookingStatus, bookingUnit, readvertise>>
  BY DEF CommitEnd, At
<1>2. /\ tenancy[b] \in LiveStatus /\ bookingUnit[b] = tx[s].unit
      /\ ~Overwrites(s) => unitStatus[tx[s].unit] # "occupied"
  BY <1>1 DEF RentalInv, Sound, TenanciesSound, BeginsSound, ExpectedTenancy, TenancySteps
<1>3. TablesOK
  BY DEF TablesInv
<1>4. PICK u \in Units : u = bookingUnit[b]
  BY <1>2, <1>3 DEF TablesOK, LiveStatus
<1>5. TablesOK'
  BY <1>1, <1>2, <1>3, <1>4 DEF TablesOK, UnitStatus, TenancyStatus, LiveStatus, VacantStatus
<1>6. \A v \in Units : UNCHANGED ActiveBookings(v)
  BY <1>1 DEF ActiveBookings
<1>7. b \in LiveTenancies(u)
  BY <1>2, <1>4 DEF LiveTenancies
<1>8. LiveTenancies(u) = {b} /\ AwaitingInspection(u) = {}
  BY <1>7, EveryUnit DEF Consistent
<1>9. LiveTenancies(u)' = {}
  BY <1>1, <1>3, <1>8 DEF TablesOK, LiveTenancies, LiveStatus
<1>10. AwaitingInspection(u)' \subseteq {b}
  BY <1>1, <1>3, <1>8 DEF TablesOK, AwaitingInspection
<1>11. lastEnded'[u] = b /\ unitStatus'[u] \in {"inspection", unitStatus[u]} /\ unitStatus'[u] # "occupied"
  BY <1>1, <1>2, <1>3, <1>4 DEF TablesOK, VacantStatus
<1>12. Consistent(u)'
  BY <1>1, <1>6, <1>9, <1>10, <1>11, EveryUnit DEF Consistent
<1>13. ASSUME NEW v \in Units \ {u} PROVE Consistent(v)'
  <2>1. UNCHANGED <<unitStatus[v], lastEnded[v], LiveTenancies(v), AwaitingInspection(v)>>
    BY <1>1, <1>2, <1>3, <1>4 DEF TablesOK, LiveTenancies, AwaitingInspection
  <2>2. \A c \in LiveTenancies(v) : tenancy'[c] = tenancy[c]
    BY <1>1, <1>3, <1>4 DEF TablesOK, LiveTenancies
  <2> QED
    BY <1>1, <1>6, <2>1, <2>2, EveryUnit, UnitUntouched
<1> QED
  BY <1>5, <1>12, <1>13, EveryUnit

\* The inspection: it only clears.
LEMMA InspectionTables ==
  ASSUME RentalInv, TablesInv, NEW s \in Sessions, NEW b \in Bookings, CommitInspection(s, b)
  PROVE  TablesInv'
<1>1. /\ tx[s].step = "inspect_commit" /\ b \in tx[s].rows
      /\ inspected' = [inspected EXCEPT ![b] = TRUE]
      /\ unitStatus' = [unitStatus EXCEPT ![tx[s].unit] = IF tx[s].saw = "inspection"
                          THEN "available" ELSE @]
      /\ UNCHANGED <<bookingStatus, bookingUnit, tenancy, readvertise, lastEnded>>
  BY DEF CommitInspection, At
<1>2. TablesOK
  BY DEF TablesInv
<1>3. TablesOK'
  BY <1>1, <1>2 DEF TablesOK, UnitStatus
<1>4. \A v \in Units : /\ UNCHANGED <<ActiveBookings(v), LiveTenancies(v), lastEnded[v]>>
                       /\ AwaitingInspection(v)' \subseteq AwaitingInspection(v)
                       /\ unitStatus'[v] \in {"available", unitStatus[v]}
  BY <1>1, <1>2 DEF TablesOK, ActiveBookings, LiveTenancies, AwaitingInspection
<1>5. ASSUME NEW v \in Units PROVE Consistent(v)'
  <2>1. Consistent(v)
    BY EveryUnit
  <2> QED
    BY <1>1, <1>4, <2>1 DEF Consistent
<1> QED
  BY <1>3, <1>5, EveryUnit

\* The statements of a session keep the tables consistent.
LEMMA WorkKeepsTables ==
  ASSUME RentalInv, NEW s \in Sessions, Works(s)
  PROVE  TablesInv'
<1>0. TablesInv
  BY DEF RentalInv, TypeOK, TablesInv, TablesOK
<1>1. CASE UNCHANGED tables
  BY <1>0, <1>1 DEF tables, TablesInv, TablesOK, OneActiveBooking, StatusIsBacked,
     OneTenantAtATime, ActiveBookings, LiveTenancies, AwaitingInspection
<1>2. CASE \E b \in Bookings : \/ CommitCreate(s, b) \/ CommitActivate(s, b)
                               \/ CommitNotice(s, b) \/ CommitEnd(s, b) \/ CommitInspection(s, b)
  BY <1>0, <1>2, CreateTables, ActivateTables, NoticeTables, EndTables, InspectionTables
<1>3. CASE CommitReview(s) \/ CommitConfirm(s) \/ CommitRelease(s)
  BY <1>0, <1>3, ReviewTables, ConfirmTables, ReleaseTables
<1>4. CASE Abort(s)
  BY <1>1, <1>4 DEF Abort
<1>5. CASE Begin(s)
  BY <1>1, <1>5 DEF Begin, ReadForHold, ReadHold, SubmitBookingPayment, ProcessBookingPaid,
     ConfirmBooking, RejectBookingPayment, CancelBooking, ActivateTenancy, GiveNotice,
     EndTenancy, CompleteInspection, ExpireStaleBookings, BeginRelease
<1>6. CASE Statement(s)
  BY <1>1, <1>2, <1>3, <1>6 DEF Statement, SetHold, LockForCreate, DeleteHold, LockForPaid,
     LockForConfirm, LockForRelease, ReadNotice, ReadInspection, LockForActivate, ReadLive,
     ReadPrevious, ReadForEnd, ReadForInspection, ReadUnit
<1> QED
  BY <1>4, <1>5, <1>6 DEF Works

\* They leave the deadlines alone, and only seekers write a hold.
LEMMA WorkKeepsHolds ==
  ASSUME RentalInv, NEW s \in Sessions, Works(s)
  PROVE  overdue' = overdue /\ hold' \in [Units -> Users \cup {None}]
<1>1. TypeOK
  BY DEF RentalInv
<1>2. overdue' = overdue
  BY DEF Works, Abort, Begin, ReadForHold, ReadHold, SubmitBookingPayment, ProcessBookingPaid,
     ConfirmBooking, RejectBookingPayment, CancelBooking, ActivateTenancy, GiveNotice,
     EndTenancy, CompleteInspection, ExpireStaleBookings, BeginRelease,
     Statement, SetHold, LockForCreate, DeleteHold, LockForPaid,
     LockForConfirm, LockForRelease, ReadNotice, ReadInspection, LockForActivate, ReadLive,
     ReadPrevious, ReadForEnd, ReadForInspection, ReadUnit,
     CommitCreate, CommitReview, CommitConfirm, CommitRelease, CommitActivate, CommitNotice,
     CommitEnd, CommitInspection
<1>3. \/ hold' = hold \/ SetHold(s) \/ DeleteHold(s)
  BY DEF Works, Abort, Begin, ReadForHold, ReadHold, SubmitBookingPayment, ProcessBookingPaid,
     ConfirmBooking, RejectBookingPayment, CancelBooking, ActivateTenancy, GiveNotice,
     EndTenancy, CompleteInspection, ExpireStaleBookings, BeginRelease,
     Statement, LockForCreate, LockForPaid,
     LockForConfirm, LockForRelease, ReadNotice, ReadInspection, LockForActivate, ReadLive,
     ReadPrevious, ReadForEnd, ReadForInspection, ReadUnit,
     CommitCreate, CommitReview, CommitConfirm, CommitRelease, CommitActivate, CommitNotice,
     CommitEnd, CommitInspection
<1>4. CASE SetHold(s)
  <2>1. tx[s].user \in Users
    BY <1>4 DEF SetHold, At, RentalInv, Sound, BeginsSound, SeekerSteps
  <2> QED
    BY <1>1, <1>4, <2>1 DEF SetHold, TypeOK
<1>5. CASE DeleteHold(s)
  BY <1>1, <1>5 DEF DeleteHold, TypeOK
<1> QED
  BY <1>1, <1>2, <1>3, <1>4, <1>5 DEF TypeOK

\* The initial state.
LEMMA RentalInit == Init => RentalInv
<1> SUFFICES ASSUME Init PROVE RentalInv
  OBVIOUS
<1>1. TypeOK
  BY IdleParts DEF Init, TypeOK, UnitStatus
<1>2. \A u \in Units : /\ ActiveBookings(u) = {} /\ LiveTenancies(u) = {}
                       /\ AwaitingInspection(u) = {}
  BY DEF Init, ActiveBookings, LiveTenancies, AwaitingInspection, ActiveStatus, LiveStatus
<1>3. OneActiveBooking /\ OneTenantAtATime
  BY <1>2 DEF OneActiveBooking, OneTenantAtATime
<1>4. StatusIsBacked
  BY DEF Init, StatusIsBacked
<1>5. \A s \in Sessions : tx[s] = Idle
  BY DEF Init
<1>6. LocksAreExclusive
  BY <1>5, IdleParts DEF LocksAreExclusive
<1>7. \A s \in Sessions : Sound(s)
  BY <1>5, IdleParts DEF Sound, BeginsSound, BookingsSound, TenanciesSound, UnitsSound,
     ReleasesSound, SeekerSteps, BookingSteps, PaySteps, ConfirmSteps, ActivateSteps,
     ReleaseSteps, TenancySteps, LockingSteps
<1> QED
  BY <1>1, <1>3, <1>4, <1>6, <1>7 DEF RentalInv

\* The invariant from its parts.
LEMMA RentalInvParts ==
  /\ RentalInv <=> /\ TablesInv /\ LocksAreExclusive /\ \A s \in Sessions : Sound(s)
                   /\ overdue \in [Bookings -> BOOLEAN]
                   /\ hold \in [Units -> Users \cup {None}]
                   /\ tx \in [Sessions -> Transactions]
  /\ RentalInv' <=> /\ TablesInv' /\ LocksAreExclusive' /\ \A s \in Sessions : Sound(s)'
                    /\ overdue' \in [Bookings -> BOOLEAN]
                    /\ hold' \in [Units -> Users \cup {None}]
                    /\ tx' \in [Sessions -> Transactions]
<1>1. RentalInv <=> /\ TablesInv /\ LocksAreExclusive /\ \A s \in Sessions : Sound(s)
                    /\ overdue \in [Bookings -> BOOLEAN]
                    /\ hold \in [Units -> Users \cup {None}]
                    /\ tx \in [Sessions -> Transactions]
  BY DEF RentalInv, TypeOK, TablesInv, TablesOK
<1>2. RentalInv' <=> /\ TablesInv' /\ LocksAreExclusive' /\ \A s \in Sessions : Sound(s)'
                     /\ overdue' \in [Bookings -> BOOLEAN]
                     /\ hold' \in [Units -> Users \cup {None}]
                     /\ tx' \in [Sessions -> Transactions]
  BY DEF RentalInv, TypeOK, TablesInv, TablesOK
<1> QED
  BY <1>1, <1>2

\* Whoever moves leaves its own session sound and keeps the others'.
LEMMA RentalStep == RentalInv /\ [Next]_vars => RentalInv'
<1> SUFFICES ASSUME RentalInv, [Next]_vars PROVE RentalInv'
  OBVIOUS
<1>1. ASSUME NEW s \in Sessions, Works(s) PROVE RentalInv'
  <2>1. Moved(s) /\ Sound(s)'
    BY <1>1, WorksAreSound
  <2>2. \A x \in Sessions \ {s} : Sound(x)'
    BY <1>1, <2>1, KeptByOthers, SoundStays DEF Moved
  <2>3. TablesInv' /\ LocksAreExclusive'
    BY <1>1, <2>1, WorkKeepsTables, LocksStayExclusive
  <2>4. /\ overdue' \in [Bookings -> BOOLEAN] /\ hold' \in [Units -> Users \cup {None}]
        /\ tx' \in [Sessions -> Transactions]
    BY <1>1, <2>1, WorkKeepsHolds, RentalInvParts DEF Moved
  <2> QED
    BY <2>1, <2>2, <2>3, <2>4, RentalInvParts
<1>2. ASSUME UNCHANGED <<tables, tx>>, overdue' \in [Bookings -> BOOLEAN],
             hold' \in [Units -> Users \cup {None}]
      PROVE  RentalInv'
  <2>1. \A x \in Sessions : Sound(x)'
    BY <1>2, ReadsKeep, SoundStays
  <2>2. TablesInv'
    BY <1>2 DEF RentalInv, TypeOK, tables, TablesInv, TablesOK, OneActiveBooking, StatusIsBacked,
       OneTenantAtATime, ActiveBookings, LiveTenancies, AwaitingInspection
  <2>3. LocksAreExclusive' /\ tx' \in [Sessions -> Transactions]
    BY <1>2 DEF RentalInv, TypeOK, LocksAreExclusive
  <2> QED
    BY <1>2, <2>1, <2>2, <2>3, RentalInvParts
<1>3. ASSUME NEW b \in Bookings, DeadlinePasses(b) PROVE RentalInv'
  BY <1>2, <1>3 DEF DeadlinePasses, RentalInv, TypeOK
<1>4. ASSUME NEW u \in Units, HoldExpires(u) PROVE RentalInv'
  BY <1>2, <1>4 DEF HoldExpires, RentalInv, TypeOK
<1>5. CASE UNCHANGED vars
  BY <1>2, <1>5 DEF vars, tables, RentalInv, TypeOK
<1> QED
  BY <1>1, <1>3, <1>4, <1>5 DEF Next, Works

\* The inductive invariant holds in every reachable state.
LEMMA RentalInvHolds == Spec => []RentalInv
BY RentalInit, RentalStep, PTL DEF Spec

-----------------------------------------------------------------------------
(* What the invariant gives. *)

\* The requests and workers, however interleaved, keep the tables and the
\* sessions well-formed: a booking has a tenancy exactly when it is fulfilled.
THEOREM TransactionsTypeCorrect == Spec => []TypeOK
BY RentalInvHolds, PTL DEF RentalInv

\* uq_bookings_active_unit and the locks keep one active booking per unit.
THEOREM OneActiveBookingHolds == Spec => []OneActiveBooking
BY RentalInvHolds, PTL DEF RentalInv

\* Whatever the tenancy handlers overwrite, a unit that says it is booked,
\* booking_pending or occupied has the booking or the tenant behind it.
THEOREM StatusIsBackedHolds == Spec => []StatusIsBacked
BY RentalInvHolds, PTL DEF RentalInv

\* A session that waits for a row while somebody waits for a row it holds is
\* a release, and both have an active booking of the unit.
LEMMA BlockersRelease ==
  ASSUME RentalInv, NEW s \in Sessions, NEW r \in Sessions, NEW x \in Sessions,
         Wants(s) \cap tx[r].held # {}, Wants(r) \cap tx[x].held # {}
  PROVE  /\ tx[r].step = "release_unit"
         /\ \E u \in Units : /\ UnitLock(u) \in tx[r].held /\ tx[s].unit = u
<1>1. /\ UnitLock(tx[s].unit) \in tx[r].held
      /\ Wants(s) # {} /\ Wants(r) # {}
  BY WantsUnit
<1>2. \A y \in Sessions : tx[y] \in Transactions /\ UnitsSound(y)
  BY DEF RentalInv, TypeOK, Sound
<1>3. UnitLock(tx[s].unit) \in Locks
  BY <1>1, <1>2 DEF Transactions
<1>4. PICK u \in Units : UnitLock(tx[s].unit) = UnitLock(u)
  BY <1>3 DEF Locks, UnitLock, BookingLock, TenancyLock
<1>5. tx[s].unit = u
  BY <1>4 DEF UnitLock
<1>6. tx[r].step \in LockingSteps \cup TenancySteps
  BY <1>1, WantsUnit
<1>7. tx[r].step = "release_unit"
  BY <1>1, <1>2, <1>5, <1>6 DEF UnitsSound
<1> QED
  BY <1>1, <1>5, <1>7

\* No set of sessions waits for itself.  Sessions that block and wait are
\* releases; two of them would have active bookings of the same unit, which
\* is one booking, and each would have locked it.
LEMMA NobodyWaitsInACircle == RentalInv => NoDeadlock
<1> SUFFICES ASSUME RentalInv, NEW S \in (SUBSET Sessions) \ {{}},
                    \A s \in S : \E r \in S \ {s} : Wants(s) \cap tx[r].held # {}
             PROVE  FALSE
  BY DEF NoDeadlock
<1>1. PICK s \in S, r \in S : Wants(s) \cap tx[r].held # {}
  OBVIOUS
<1>2. PICK x \in S \ {r} : Wants(r) \cap tx[x].held # {}
  OBVIOUS
<1>3. PICK y \in S : Wants(x) \cap tx[y].held # {}
  OBVIOUS
<1>4. tx[r].step = "release_unit"
  BY <1>1, <1>2, BlockersRelease
<1>5. tx[x].step = "release_unit"
  BY <1>2, <1>3, BlockersRelease
<1>6. PICK u \in Units : UnitLock(u) \in tx[x].held /\ tx[r].unit = u
  BY <1>2, <1>3, BlockersRelease
<1>7. \A z \in {r, x} :
        /\ \A b \in tx[z].rows : /\ b \in Bookings /\ BookingLock(b) \in tx[z].held
                                 /\ bookingStatus[b] \in ActiveStatus
        /\ ReleasesSound(z)
  BY <1>4, <1>5 DEF RentalInv, TypeOK, Transactions, Sound, BookingsSound, ExpectedStatus,
     BookingSteps, ReleaseSteps, PaySteps, ActivateSteps, ActiveStatus
<1>8. PICK b \in tx[r].rows : bookingUnit[b] = u
  BY <1>4, <1>6, <1>7 DEF ReleasesSound, ReleaseSteps
<1>9. PICK c \in tx[x].rows : bookingUnit[c] = u
  BY <1>5, <1>6, <1>7 DEF ReleasesSound, ReleaseSteps
<1>10. b \in ActiveBookings(u) /\ c \in ActiveBookings(u)
  BY <1>7, <1>8, <1>9 DEF ActiveBookings
<1>11. b = c
  BY <1>10 DEF RentalInv, OneActiveBooking
<1>12. BookingLock(b) \in tx[r].held \cap tx[x].held
  BY <1>7, <1>8, <1>9, <1>11
<1> QED
  BY <1>2, <1>12 DEF RentalInv, LocksAreExclusive

\* PostgreSQL never has to break a deadlock of requests and workers: the
\* booking is locked before the unit, and the batch of the worker meets a
\* second release of the same unit nowhere.
THEOREM NoDeadlockHolds == Spec => []NoDeadlock
BY RentalInvHolds, NobodyWaitsInACircle, PTL

\* What a step may do with the bookings.
LEMMA BookingMoves ==
  ASSUME RentalInv, [Next]_vars
  PROVE  \/ UNCHANGED bookingStatus
         \/ \E s \in Sessions :
              \/ \E b \in Bookings : CommitCreate(s, b) \/ CommitActivate(s, b)
              \/ CommitReview(s) \/ CommitConfirm(s) \/ CommitRelease(s)
<1>1. ASSUME NEW s \in Sessions, Begin(s) \/ Abort(s) PROVE UNCHANGED bookingStatus
  BY <1>1 DEF Abort, Begin, ReadForHold, ReadHold, SubmitBookingPayment, ProcessBookingPaid,
     ConfirmBooking, RejectBookingPayment, CancelBooking, ActivateTenancy, GiveNotice,
     EndTenancy, CompleteInspection, ExpireStaleBookings, BeginRelease, tables
<1>2. ASSUME NEW s \in Sessions, Statement(s)
      PROVE  \/ UNCHANGED bookingStatus
             \/ \E b \in Bookings : CommitCreate(s, b) \/ CommitActivate(s, b)
             \/ CommitReview(s) \/ CommitConfirm(s) \/ CommitRelease(s)
  BY <1>2 DEF Statement, SetHold, LockForCreate, DeleteHold, LockForPaid,
     LockForConfirm, LockForRelease, ReadNotice, ReadInspection, LockForActivate, ReadLive,
     ReadPrevious, ReadForEnd, ReadForInspection, ReadUnit, CommitNotice, CommitEnd,
     CommitInspection, tables
<1>3. CASE UNCHANGED vars \/ (\E b \in Bookings : DeadlinePasses(b)) \/ \E u \in Units : HoldExpires(u)
  BY <1>3 DEF vars, tables, DeadlinePasses, HoldExpires
<1> QED
  BY <1>1, <1>2, <1>3 DEF Next

\* The statuses that a session's commits move its bookings from.
LEMMA RowsAtCommit ==
  ASSUME RentalInv, NEW s \in Sessions, NEW b \in tx[s].rows,
         tx[s].step \in {"review_commit", "confirm_commit", "release_commit", "activate_commit"}
  PROVE  /\ b \in Bookings
         /\ tx[s].step = "review_commit" => bookingStatus[b] = "pending_payment"
         /\ tx[s].step = "confirm_commit" => bookingStatus[b] = "payment_review"
         /\ tx[s].step = "activate_commit" => bookingStatus[b] = "confirmed"
         /\ tx[s].step = "release_commit" =>
              \/ bookingStatus[b] = "payment_review" /\ tx[s].to = "rejected"
              \/ bookingStatus[b] = "pending_payment" /\ tx[s].to \in {"cancelled", "expired"}
         /\ tx[s].step # "release_commit" => tx[s].rows = {b} /\ tx[s].unit = bookingUnit[b]
<1>1. Sound(s) /\ tx[s] \in Transactions
  BY DEF RentalInv, TypeOK
<1>2. bookingStatus[b] = ExpectedStatus(tx[s]) /\ b \in Bookings
  BY <1>1 DEF Sound, BookingsSound, Transactions, BookingSteps, PaySteps, ConfirmSteps,
     ReleaseSteps, ActivateSteps
<1>3. tx[s].step # "release_commit" => tx[s].rows = {b} /\ tx[s].unit = bookingUnit[b]
  BY <1>1 DEF Sound, BeginsSound, BookingSteps, PaySteps, ConfirmSteps, ReleaseSteps, ActivateSteps
<1>4. tx[s].step = "release_commit" => tx[s].to \in {"rejected", "cancelled", "expired"}
  BY <1>1 DEF Sound, ReleasesSound, ReleaseSteps
<1> QED
  BY <1>2, <1>3, <1>4 DEF ExpectedStatus, PaySteps, ReleaseSteps, ActivateSteps

\* No commit but a confirmation or a rejection takes a booking out of review.
LEMMA ReviewStep ==
  ASSUME RentalInv, [Next]_vars, NEW b \in Bookings, bookingStatus[b] = "payment_review"
  PROVE  bookingStatus'[b] \in {"payment_review", "confirmed", "rejected"}
<1>1. ASSUME NEW s \in Sessions, NEW c \in Bookings, CommitCreate(s, c) \/ CommitActivate(s, c)
      PROVE  bookingStatus'[b] = bookingStatus[b]
  <2>1. bookingStatus \in [Bookings -> BookingStatus \cup {"none"}]
    BY DEF RentalInv, TypeOK
  <2>2. CASE CommitCreate(s, c)
    BY <2>1, <2>2 DEF CommitCreate
  <2>3. CASE CommitActivate(s, c)
    BY <2>1, <2>3, RowsAtCommit DEF CommitActivate, At
  <2> QED
    BY <1>1, <2>2, <2>3
<1>2. ASSUME NEW s \in Sessions, CommitReview(s) \/ CommitConfirm(s) \/ CommitRelease(s)
      PROVE  bookingStatus'[b] \in {"payment_review", "confirmed", "rejected"}
  BY <1>2, RowsAtCommit DEF CommitReview, CommitConfirm, CommitRelease, At
<1> QED
  BY <1>1, <1>2, BookingMoves

\* A booking under review leaves it by an administrator's decision only, even
\* if the deadline passes and a worker runs between any two of its statements.
THEOREM ReviewsAreDecided == Spec => ReviewIsDecided
<1> DEFINE A == \A b \in Bookings :
                  bookingStatus[b] = "payment_review" =>
                    bookingStatus'[b] \in {"payment_review", "confirmed", "rejected"}
<1>1. RentalInv /\ [Next]_vars => [A]_vars
  BY ReviewStep
<1> QED
  BY <1>1, RentalInvHolds, PTL DEF Spec, ReviewIsDecided

-----------------------------------------------------------------------------
(* The interleaved handlers implement Reservation. *)

\* The empty tables are the initial state of Reservation.
LEMMA RefineInit == Init => R!Init
BY DEF Init, R!Init, Reserved, Funded, Occupants, Vacated, Spent,
   ActiveBookings, ActiveStatus, LiveTenancies, LiveStatus, AwaitingInspection

\* A statement that changes no booking, no tenancy and no inspection is a
\* stutter of Reservation.
LEMMA RefineStutter ==
  ASSUME UNCHANGED <<bookingStatus, bookingUnit, tenancy, inspected>>
  PROVE  UNCHANGED R!vars
BY DEF R!vars, Reserved, Funded, Occupants, Vacated, Spent,
   ActiveBookings, LiveTenancies, AwaitingInspection

\* The insert that the partial unique index accepts reserves the unit.
LEMMA RefineReserve ==
  ASSUME RentalInv, NEW s \in Sessions, NEW b \in Bookings, CommitCreate(s, b)
  PROVE  R!Next
<1>u. PICK u \in Units : u = tx[s].unit
  BY DEF CommitCreate, At, RentalInv, Sound, BeginsSound, SeekerSteps
<1>1. /\ TypeOK
      /\ bookingStatus[b] = "none" /\ tenancy[b] = "none" /\ ActiveBookings(u) = {}
      /\ bookingStatus' = [bookingStatus EXCEPT ![b] = "pending_payment"]
      /\ bookingUnit' = [bookingUnit EXCEPT ![b] = u]
      /\ UNCHANGED <<tenancy, inspected>>
  BY <1>u DEF RentalInv, CommitCreate, BookingIndex, TypeOK
<1>2. Reserved[u] = {} /\ b \notin Spent
  BY <1>1 DEF Reserved, Spent
<1>3. Spent' = Spent \cup {b} /\ Funded' = Funded
  BY <1>1 DEF Spent, Funded, TypeOK
<1>4. ASSUME NEW v \in Units
      PROVE  /\ ActiveBookings(v)' = IF v = u THEN {b} ELSE ActiveBookings(v)
             /\ LiveTenancies(v)' = LiveTenancies(v)
             /\ AwaitingInspection(v)' = AwaitingInspection(v)
  BY <1>1 DEF ActiveBookings, ActiveStatus, LiveTenancies, LiveStatus, AwaitingInspection, TypeOK
<1>5. /\ Reserved' = [Reserved EXCEPT ![u] = {b}]
      /\ Occupants' = Occupants /\ Vacated' = Vacated
  BY <1>4 DEF Reserved, Occupants, Vacated
<1> QED
  BY <1>2, <1>3, <1>5 DEF R!Next, R!Reserve

\* The commit of a payment under review changes nothing of a reservation.
LEMMA RefineReview ==
  ASSUME RentalInv, NEW s \in Sessions, CommitReview(s)
  PROVE  UNCHANGED R!vars
<1>1. /\ bookingStatus' = [b \in Bookings |-> IF b \in tx[s].rows
                             THEN "payment_review" ELSE bookingStatus[b]]
      /\ UNCHANGED <<bookingUnit, tenancy, inspected>>
      /\ \A b \in tx[s].rows : bookingStatus[b] = "pending_payment"
  BY RowsAtCommit DEF CommitReview, At
<1> QED
  BY <1>1 DEF R!vars, Reserved, Funded, Occupants, Vacated, Spent, ActiveBookings,
     ActiveStatus, LiveTenancies, AwaitingInspection

\* The commit of a confirmation funds a reservation.
LEMMA RefineFund ==
  ASSUME RentalInv, NEW s \in Sessions, CommitConfirm(s)
  PROVE  R!Next
<1>1. PICK b \in tx[s].rows : tx[s].rows = {b} /\ bookingStatus[b] = "payment_review"
                                /\ b \in Bookings
  <2>1. tx[s].step = "confirm_commit"
    BY DEF CommitConfirm, At
  <2>2. tx[s].rows # {}
    BY <2>1 DEF RentalInv, Sound, BeginsSound, BookingSteps, ConfirmSteps, ReleaseSteps
  <2> QED
    BY <2>1, <2>2, RowsAtCommit
<1>2. /\ TypeOK /\ bookingStatus' = [bookingStatus EXCEPT ![b] = "confirmed"]
      /\ UNCHANGED <<bookingUnit, tenancy, inspected>>
  BY <1>1 DEF CommitConfirm, RentalInv, TypeOK
<1>3. PICK u \in Units : u = bookingUnit[b]
  BY <1>1, <1>2 DEF TypeOK
<1>4. b \in Reserved[u] /\ b \notin Funded
  BY <1>1, <1>3 DEF Reserved, Funded, ActiveBookings, ActiveStatus
<1>5. /\ Funded' = Funded \cup {b} /\ Spent' = Spent
      /\ Reserved' = Reserved /\ Occupants' = Occupants /\ Vacated' = Vacated
  BY <1>1, <1>2 DEF Reserved, Funded, Spent, Occupants, Vacated, ActiveBookings, ActiveStatus,
     LiveTenancies, AwaitingInspection, TypeOK
<1> QED
  BY <1>1, <1>3, <1>4, <1>5 DEF R!Next, R!Fund

\* The commit of a rejection, a cancellation or an expiry ends reservations
\* that were not funded.
LEMMA RefineRelease ==
  ASSUME RentalInv, NEW s \in Sessions, CommitRelease(s)
  PROVE  R!Next
<1> DEFINE S == tx[s].rows
<1>1. /\ bookingStatus' = [b \in Bookings |-> IF b \in S THEN tx[s].to ELSE bookingStatus[b]]
      /\ UNCHANGED <<bookingUnit, tenancy, inspected>> /\ tx[s].step = "release_commit"
  BY DEF CommitRelease, At
<1>2. \A b \in S : /\ b \in Bookings
                   /\ bookingStatus[b] \in {"pending_payment", "payment_review"}
                   /\ tx[s].to \in {"rejected", "cancelled", "expired"}
  BY <1>1, RowsAtCommit
<1>3. PICK T \in SUBSET Bookings : T = S
  BY <1>2
<1>4. T \cap Funded = {} /\ Funded' = Funded /\ Spent' = Spent
  BY <1>1, <1>2, <1>3 DEF Funded, Spent
<1>5. \A v \in Units : ActiveBookings(v)' = ActiveBookings(v) \ T
  BY <1>1, <1>2, <1>3 DEF ActiveBookings, ActiveStatus
<1>6. /\ Reserved' = [v \in Units |-> Reserved[v] \ T]
      /\ Occupants' = Occupants /\ Vacated' = Vacated
  BY <1>1, <1>5 DEF Reserved, Occupants, Vacated, LiveTenancies, AwaitingInspection
<1> QED
  BY <1>4, <1>6 DEF R!Next, R!Release

\* The commit of a move-in hands an empty, inspected unit over to whoever
\* reserved and funded it.
LEMMA RefineMoveIn ==
  ASSUME RentalInv, NEW s \in Sessions, NEW b \in Bookings, CommitActivate(s, b)
  PROVE  R!Next
<1>1. /\ tx[s].step = "activate_commit" /\ b \in tx[s].rows
      /\ tenancy' = [tenancy EXCEPT ![b] = "active"]
      /\ bookingStatus' = [bookingStatus EXCEPT ![b] = "fulfilled"]
      /\ UNCHANGED <<bookingUnit, inspected>>
  BY DEF CommitActivate, At
<1>2. bookingStatus[b] = "confirmed" /\ bookingUnit[b] = tx[s].unit
  BY <1>1, RowsAtCommit
<1>3. TypeOK /\ tenancy[b] = "none"
  BY <1>2 DEF RentalInv, TypeOK
<1>4. PICK u \in Units : u = bookingUnit[b]
  BY <1>2, <1>3 DEF TypeOK
<1>5. LiveTenancies(u) = {} /\ AwaitingInspection(u) = {}
  BY <1>1, <1>2, <1>4 DEF RentalInv, Sound, UnitsSound
<1>6. /\ \A c \in ActiveBookings(u) : c = b
      /\ b \in ActiveBookings(u)
  BY <1>2, <1>4 DEF RentalInv, OneActiveBooking, ActiveBookings, ActiveStatus
<1>7. b \in Reserved[u] \cap Funded /\ Occupants[u] = {} /\ Vacated[u] = {}
  BY <1>2, <1>5, <1>6 DEF Reserved, Funded, Occupants, Vacated
<1>8. Spent' = Spent /\ Funded' = Funded
  BY <1>1, <1>2, <1>3 DEF Spent, Funded, TypeOK
<1>9. ASSUME NEW v \in Units
      PROVE  /\ ActiveBookings(v)' = IF v = u THEN {} ELSE ActiveBookings(v)
             /\ LiveTenancies(v)' = IF v = u THEN {b} ELSE LiveTenancies(v)
             /\ AwaitingInspection(v)' = AwaitingInspection(v)
  <2>1. AwaitingInspection(v)' = AwaitingInspection(v)
    BY <1>1, <1>3 DEF TypeOK, AwaitingInspection
  <2>2. CASE v = u
    BY <1>1, <1>3, <1>4, <1>5, <1>6, <2>1, <2>2
    DEF TypeOK, ActiveBookings, LiveTenancies, ActiveStatus, LiveStatus
  <2>3. CASE v # u
    BY <1>1, <1>3, <1>4, <2>1, <2>3 DEF TypeOK, ActiveBookings, LiveTenancies
  <2> QED
    BY <2>2, <2>3
<1>10. /\ Reserved' = [Reserved EXCEPT ![u] = {}]
       /\ Occupants' = [Occupants EXCEPT ![u] = {b}] /\ Vacated' = Vacated
  BY <1>9 DEF Reserved, Occupants, Vacated
<1> QED
  BY <1>7, <1>8, <1>10 DEF R!Next, R!MoveIn

\* A notice leaves the tenant where he is.
LEMMA RefineNotice ==
  ASSUME RentalInv, NEW s \in Sessions, NEW b \in Bookings, CommitNotice(s, b)
  PROVE  UNCHANGED R!vars
<1>1. /\ tx[s].step = "notice_commit" /\ b \in tx[s].rows /\ TypeOK
      /\ tenancy' = [tenancy EXCEPT ![b] = "notice_given"]
      /\ UNCHANGED <<bookingStatus, bookingUnit, inspected>>
  BY DEF CommitNotice, At, RentalInv
<1>2. tenancy[b] = "active"
  BY <1>1 DEF RentalInv, Sound, TenanciesSound, ExpectedTenancy, TenancySteps
<1> QED
  BY <1>1, <1>2 DEF R!vars, Reserved, Funded, Occupants, Vacated, Spent, ActiveBookings,
     LiveTenancies, LiveStatus, AwaitingInspection, TypeOK

\* The commit of a move-out empties the unit and leaves it to be inspected.
LEMMA RefineMoveOut ==
  ASSUME RentalInv, NEW s \in Sessions, NEW b \in Bookings, CommitEnd(s, b)
  PROVE  R!Next
<1>1. /\ tx[s].step = "end_commit" /\ b \in tx[s].rows /\ TypeOK
      /\ tenancy' = [tenancy EXCEPT ![b] = "ended"]
      /\ inspected' = [inspected EXCEPT ![b] = FALSE]
      /\ UNCHANGED <<bookingStatus, bookingUnit>>
  BY DEF CommitEnd, At, RentalInv
<1>2. tenancy[b] \in LiveStatus
  BY <1>1 DEF RentalInv, Sound, TenanciesSound, ExpectedTenancy, TenancySteps
<1>3. PICK u \in Units : u = bookingUnit[b]
  BY <1>1, <1>2 DEF TypeOK, LiveStatus
<1>4. b \in LiveTenancies(u)
  BY <1>2, <1>3 DEF LiveTenancies
<1>5. \A c \in LiveTenancies(u) : c = b
  BY <1>4 DEF RentalInv, OneTenantAtATime
<1>6. ASSUME NEW v \in Units
      PROVE  /\ LiveTenancies(v)' = IF v = u THEN {} ELSE LiveTenancies(v)
             /\ AwaitingInspection(v)' = IF v = u THEN AwaitingInspection(v) \cup {b}
                                         ELSE AwaitingInspection(v)
  <2>1. CASE v = u
    <3>1. LiveTenancies(v)' = {}
      BY <1>1, <1>5, <2>1 DEF TypeOK, LiveTenancies, LiveStatus
    <3>2. AwaitingInspection(v)' = AwaitingInspection(v) \cup {b}
      BY <1>1, <1>3, <2>1 DEF TypeOK, AwaitingInspection
    <3> QED
      BY <2>1, <3>1, <3>2
  <2>2. CASE v # u
    BY <1>1, <1>3, <2>2 DEF TypeOK, LiveTenancies, AwaitingInspection
  <2> QED
    BY <2>1, <2>2
<1>7. /\ Occupants' = [Occupants EXCEPT ![u] = {}]
      /\ Vacated' = [Vacated EXCEPT ![u] = @ \cup {b}]
  BY <1>6 DEF Occupants, Vacated
<1>8. Reserved' = Reserved /\ Funded' = Funded /\ Spent' = Spent /\ b \in Occupants[u]
  BY <1>1, <1>4 DEF Reserved, Funded, Spent, ActiveBookings, Occupants
<1> QED
  BY <1>7, <1>8 DEF R!Next, R!MoveOut

\* The commit of an inspection clears the unit; a second one does nothing.
LEMMA RefineInspect ==
  ASSUME RentalInv, NEW s \in Sessions, NEW b \in Bookings, CommitInspection(s, b)
  PROVE  R!Next \/ UNCHANGED R!vars
<1>1. /\ tx[s].step = "inspect_commit" /\ b \in tx[s].rows /\ TypeOK
      /\ inspected' = [inspected EXCEPT ![b] = TRUE]
      /\ UNCHANGED <<bookingStatus, bookingUnit, tenancy>>
  BY DEF CommitInspection, At, RentalInv
<1>2. tenancy[b] = "ended"
  BY <1>1 DEF RentalInv, Sound, TenanciesSound, ExpectedTenancy, TenancySteps
<1>3. CASE inspected[b]
  <2>1. inspected' = inspected
    BY <1>1, <1>3 DEF TypeOK
  <2> QED
    BY <1>1, <2>1, RefineStutter
<1>4. CASE ~inspected[b]
  <2>1. PICK u \in Units : u = bookingUnit[b]
    BY <1>1, <1>2 DEF TypeOK
  <2>2. b \in Vacated[u]
    BY <1>2, <1>4, <2>1 DEF Vacated, AwaitingInspection
  <2>3. \A v \in Units : AwaitingInspection(v)' = IF v = u THEN AwaitingInspection(v) \ {b}
                                                  ELSE AwaitingInspection(v)
    BY <1>1, <2>1 DEF TypeOK, AwaitingInspection
  <2>4. Vacated' = [Vacated EXCEPT ![u] = @ \ {b}]
    BY <2>3 DEF Vacated
  <2>5. UNCHANGED <<Reserved, Funded, Occupants, Spent>>
    BY <1>1 DEF Reserved, Funded, Occupants, Spent, ActiveBookings, LiveTenancies
  <2> QED
    BY <2>2, <2>4, <2>5 DEF R!Next, R!Inspect
<1> QED
  BY <1>3, <1>4

\* Every step of the handlers is a step of Reservation or a stutter.
LEMMA RefineStep == RentalInv /\ [Next]_vars => [R!Next]_R!vars
<1> SUFFICES ASSUME RentalInv, [Next]_vars PROVE [R!Next]_R!vars
  OBVIOUS
<1>1. ASSUME NEW s \in Sessions, Begin(s) \/ Abort(s) PROVE UNCHANGED R!vars
  <2>1. UNCHANGED tables
    BY <1>1 DEF Abort, Begin, ReadForHold, ReadHold, SubmitBookingPayment, ProcessBookingPaid,
       ConfirmBooking, RejectBookingPayment, CancelBooking, ActivateTenancy, GiveNotice,
       EndTenancy, CompleteInspection, ExpireStaleBookings, BeginRelease
  <2> QED
    BY <2>1, RefineStutter DEF tables
<1>2. ASSUME NEW s \in Sessions, Statement(s) PROVE [R!Next]_R!vars
  <2>1. CASE UNCHANGED tables
    BY <2>1, RefineStutter DEF tables
  <2>2. CASE \E b \in Bookings : \/ CommitCreate(s, b) \/ CommitActivate(s, b)
                                 \/ CommitNotice(s, b) \/ CommitEnd(s, b) \/ CommitInspection(s, b)
    BY <2>2, RefineReserve, RefineMoveIn, RefineNotice, RefineMoveOut, RefineInspect
  <2>3. CASE CommitReview(s) \/ CommitConfirm(s) \/ CommitRelease(s)
    BY <2>3, RefineReview, RefineFund, RefineRelease
  <2> QED
    BY <1>2, <2>1, <2>2, <2>3 DEF Statement, SetHold, LockForCreate, DeleteHold, LockForPaid,
       LockForConfirm, LockForRelease, ReadNotice, ReadInspection, LockForActivate, ReadLive,
       ReadPrevious, ReadForEnd, ReadForInspection, ReadUnit
<1>3. CASE UNCHANGED vars \/ (\E b \in Bookings : DeadlinePasses(b)) \/ \E u \in Units : HoldExpires(u)
  BY <1>3, RefineStutter DEF vars, tables, DeadlinePasses, HoldExpires
<1> QED
  BY <1>1, <1>2, <1>3 DEF Next

\* The promises of Reservation hold of the handlers at READ COMMITTED, for any
\* number of requests and workers: one reservation and one tenant per unit,
\* confirmed money before a move-in, and no move-in before the inspection.
THEOREM TransactionsRefineReservation == Spec => ImplementsReservation
<1>1. Init => R!Init
  BY RefineInit
<1> QED
  BY <1>1, RefineStep, RentalInvHolds, PTL DEF Spec, ImplementsReservation, R!Spec
=============================================================================
