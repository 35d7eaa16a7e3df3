# Verification of the rental marketplace

TLA+ specifications of the backend in `backend/` (FastAPI, PostgreSQL, Redis) and of the parts of
the mobile client that take part in its protocols, model-checked with TLC and proved with TLAPS.
Paths below are relative to `backend/app` unless they say otherwise.

## 1. Inventory

| Part | State it keeps | Operations | How it interacts |
|---|---|---|---|
| Bookings (`api/routes/bookings.py`) | `bookings`, `booking_payments`, `ledger_entries`, `units.status`, Redis key `booking-hold:unit:<id>` | acquire hold, create, submit payment, confirm, reject, cancel | shares `units` with tenancies and the worker, claims with payments |
| Tenancies (`api/routes/tenancies.py`) | `tenancies`, `units.status`, `units.available_from`, `users.role` | activate, give notice, end, complete inspection | consumes confirmed bookings; decides what a failed booking leaves behind |
| Maintenance worker (`worker.py`, `services/maintenance.py`) | Redis key `mosala:maintenance:lock` | expire stale bookings, send viewing reminders | competes with requests for bookings (`SKIP LOCKED`) and units |
| Payment references (`services/payments.py`, migrations 0012 and 0013) | `payment_reference_claims` | claim; release by trigger when a payment is rejected | bookings, advert charges, provider events |
| Provider webhooks (`services/payment_providers.py`, `payment_webhooks.py`, `payment_reconciliation.py`) | `payment_provider_events` | verify, store, process, manual review, resolve | moves a booking or an advert charge into review |
| Listings and adverts (`properties.py`, `admin.py`, `advertising.py`, `landlords.py`) | `properties.status`, `units`, `advert_charges`, `landlord_profiles` | draft, submit, approve, quote, pay, confirm, activate, reject | only active properties take bookings |
| Sessions (`services/sessions.py`, `auth.py`) | `auth_refresh_tokens` | issue, rotate, detect reuse, revoke, revoke all | the mobile token store |
| Mobile token store (`mobile/lib/features/auth`) | two keys of the secure storage, refresh in flight, session generation | read, rotate, write, clear | sessions |
| Notification relay and realtime (`services/realtime.py`, `api/routes/realtime.py`, `mobile/.../realtime_client.dart`) | `notifications.realtime_published_at`, client window of seen ids | publish, mark, subscribe, reconnect | every handler inserts notifications |
| Viewings and favourites (`engagement.py`) | `viewing_requests`, `favourites` | request, decide, cancel, save | reminders by the worker |
| Media (`media.py`) | `property_media` | upload, confirm, cover, delete | listings under edit |
| Messaging (`messaging.py`), rate limit (`core/rate_limit.py`), feed, analytics, audit | conversations; one counter per key; read-only queries; append-only rows | | |

What is hard here, and what makes each part correct:

* **Bookings, tenancies and the worker** write the same column, `units.status`, from handlers that
  lock rows in different ways. All booking handlers lock the booking and then the unit. The tenancy
  handlers lock the tenancy, read the unit with a plain `SELECT` and overwrite its status when they
  commit. Correct means: one active booking and one live tenancy per unit; the status agrees with
  both; nobody moves in before the last tenant left and the move-out was inspected; money is
  confirmed once and never lost to a deadline; unpaid bookings end.
* **Payment references** must back one payment at a time and return to their payer after a rejection.
* **Provider events** are repeated and reordered and must be applied once.
* **Listings** are decided by administrators who read the property without a lock.
* **Sessions** rotate under a row lock but are revoked in bulk; the client may lose an answer, be
  killed between two writes, or log out while a rotation is in flight.
* **The relay** publishes before it commits, so delivery is at least once; the client deduplicates
  within a bounded window, over a connection that is started, stopped, refused and retried.
* **Reminders** are sent by workers that may overlap when the Redis lock expires, for viewings that
  are decided and cancelled meanwhile.
* **Media** have one cover and an object behind every row, without a lock on their property.

`PROJECT.json` lists every hazard with its line.

## 2. Plan

| Order | Module | What | Status |
|---|---|---|---|
| 1 | `RentalTypes`, `Reservation` | enumerations; what the marketplace promises about a unit | done |
| 2 | `UnitLifecycle` | bookings, payments, tenancies, one handler at a time; implements `Reservation` | checked, proved |
| 3 | `RentalTransactions` | the same handlers statement by statement; implements `Reservation` | checked, proved |
| 4 | `PropertyListing` | listings, units, landlord verification and advert charges with their unlocked reads | checked, proved |
| 5 | `PaymentClaims` | claims and provider events: insert or conflict, trigger, replay, advert charges, reconciliation | checked, proved |
| 6 | `SessionContract`, `Sessions`, `MobileSession` | rotation, reuse and logout; implements the contract; composed with the mobile client | checked, proved |
| 7 | `Viewings`, `Delivery` | viewings, reminders and the relay; composed with the client's window of identifiers | checked, proved |
| 8 | `RealtimeClient` | the client's connection: start, stop, attempts, retries | proved |
| 9 | `PropertyMedia` | uploads, the cover, deletion, statement by statement | checked, proved |

Every safety property of a passing run has a theorem. What is left is messaging, where marking a
conversation as read also marks messages its reader has not seen, and the width of one column, which
depends on a configured name; `PROJECT.json` lists both without a property.

## 3. Modules

### RentalTypes
The status enumerations of `models/rental.py`, `models/booking.py` and `models/tenancy.py`, the sets of
statuses the two partial unique indexes range over, and the decision table
`unit_status_after_booking_release`, which `bookings.py` repeats in
`_release_unit_after_failed_booking`.

### Reservation
The abstract specification, without tables: per unit the bookings it is reserved for, who lives in it
and which move-outs were not inspected; which bookings are funded; which identities are used.
`MoveIn` asks for a funded reservation, an empty unit and no open inspection; `Release` never takes a
funded booking. Both detailed modules implement it under the same mapping: reserved = active
bookings, funded = confirmed or fulfilled, occupants = live tenancies, vacated = ended tenancies not
inspected, spent = bookings that exist.

### UnitLifecycle
One action per handler, named as the handler. The state is the columns the handlers read: unit
status and first day on offer; booking status, unit, seeker and move-in day; "the deadline has
passed"; payment status and reference; claims; the number of ledger entries; tenancy status, notice
and inspection; the unit's latest ended tenancy (the code orders by `ended_at`); the hold. A tenancy
is identified by its booking (`uq_tenancies_booking_id`). A handler that refuses changes nothing and
has no action. `DeadlinePasses`, `NextDay` and `HoldExpires` are the clock. Left out: notifications,
audit events and history rows, which are appended and never read; the bookkeeping of the provider
event; repeated calls that return the row unchanged; retyping the claim's `(method, reference)`, of
which only equality matters.

### RentalTransactions
The same handlers as transactions: every session has a record `tx[s]` with the statement it is at,
the rows it works on, what it read, what it will write and which row locks it holds. An action is one
statement. `At` waits for the lock the statement needs (`Wants`); writes become visible with the
commit, which also frees the locks; a failed check, an exception and a crash are `Abort`. The unlocked
reads of `end_tenancy` and `complete_inspection` (`ReadUnit`) and the two reads of a release
(`ReadNotice`, `ReadInspection`) are statements of their own. ORM writes are blind: SQLAlchemy updates
the changed columns by primary key, and sends nothing if the value it read is the value it would
write (`Overwrites`). The worker selects a batch of unlocked stale bookings, locks their units one
after the other and commits once. Dates, payments, claims and ledger rows change only under their
booking's lock and are left to `UnitLifecycle`; a refusal because of them is an `Abort`.

### PropertyListing
The handlers of `landlords.py`, `properties.py`, `admin.py` and `advertising.py` that change state, for
the properties of one landlord (nothing else is shared between listings). No handler locks the
property or the landlord's profile, so each is a read (`tx[s]` keeps what was read) and a commit that
overwrites the status blindly; `submit_property` is four statements, `activate_property` three. The
charge is read and written under its lock, in one action, except by `activate_property`, which reads
it without. `revision` counts the edits of a property and its units; `reviewed` is a history variable:
the revision the approving request had read; `overlapped` is another: some request began before an
earlier one had ended. A unit is read together with the commit that changes or
deletes it. Left out: the public feed and the other queries; the media of a listing (see
`PropertyMedia`); how a charge is paid (see `PaymentClaims`).

### PaymentClaims
Payments of bookings and of advert charges (`Sources`), the claims of their references and the events
of a provider. A form (`SubmitPayment`) or a callback (`Receive`) is a transaction of the statements
of `claim_payment_reference` and `ingest_payment_webhook`: insert the event, lock the source and
compare (`LockSource`), insert the claim `ON CONFLICT DO NOTHING` (`InsertClaim`), look the
conflicting claim up (`LookUpClaim`), commit. An insert waits for whoever is inserting the same key
(`EventKey`, `ClaimKey`). A lookup that finds the conflicting claim gone is the code's RuntimeError.
The administrators' decisions lock one source and are one action; `AfterRejection` is the trigger of
migration 0013. A reference is the pair (method, reference). Booking and payment status move together
(`MoneyAgrees` of `UnitLifecycle`), so the payment's stands for both. Left out: signatures and the
parsing of payloads; the digest, whose mismatch refuses the call; the ledger.

### SessionContract, Sessions and MobileSession
`SessionContract` is what the session endpoints promise, call by call: a login opens a session with
one usable refresh token, a renewal replaces it by one never seen before, a token that was used before
ends its session (`DetectReuse`), a logout of all devices ends every session that is open when the call
is taken up (`LogoutAll`, `EndThem`), and an ended session never opens again. A call is visible from
its request to its answer, so the contract says what an *answered* call has done: it may not pick the
sessions it ends. The code keeps less in one case, and the contract names it: a call that ends
sessions spares one that was renewed while the call was in progress (`Settled`); and a logout whose
token was used meanwhile ends nothing (`NothingToEnd`). The first contradicts `README.md`, and
`RevokedSessionsAreOver` states the promise without that exception: see the findings.

`Sessions` models `services/sessions.py` and the handlers of `auth.py` as transactions: a rotation
locks the row it was given and inserts a replacement that nobody sees before its commit; the reuse
of a consumed token, a logout and a logout of all devices are an `UPDATE` of the rows of its snapshot,
locked one after the other and checked again. The snapshot does not have the row that a rotation is
about to insert, and the row it does have is found revoked and passed over. Under the mapping a
transaction shows its call, and the sessions it is going to end are those of the rows of its snapshot
that are still live.

`MobileSession` composes `Sessions` with `token_store.dart`, `api_auth_repository.dart` and
`session_cubit.dart`. Dart runs one continuation at a time; three chains of continuations exist, and
each await of the secure storage puts its chain into `queue`, which the platform serves in order. A
request and its answer may be delayed or lost, and the server still serves a request whose client gave
up. The app may be killed at any step and restarts from its storage. The session
generation is only ever compared with its value at the start of the rotation, so it is a flag
(`stale`).

### Viewings and Delivery
`Viewings` has the handlers of viewing requests, the reminders of the maintenance worker and the
relay. Handlers lock the viewing and commit once: one action each. A worker alternates relay and
maintenance cycles, crashes and restarts; the Redis lock may expire under its holder, and is released
only by the holder that finds its own value. `notes` are the committed notifications in the relay's
order; a relay cycle selects a batch with `SKIP LOCKED`, publishes and then commits, so a crash
publishes again. `Delivery` composes this with the client's window of seen identifiers: a published
event reaches the client or is lost. `overtaken` is a history variable: two workers relayed at once.

### RealtimeClient
`_connect` and the connection it makes, from one await to the next, for any number of overlapping
attempts: `Start`, `TokenRead`, `Opened`, the failures, the refusal 4401 after which the client gives
up, `Stop` and the retry timer. An attempt that listens without being the subscription is the one a
second `_connect` leaked.

### PropertyMedia
`confirm_upload`, `set_cover_media` and `delete_media` statement by statement, with the object store:
an `UPDATE` works on the rows its snapshot saw and waits for their locks; the object is deleted after
the commit. An image may show a unit, and `delete_unit` of `properties.py`, which is allowed in the
same states of the property, locks the unit, then the images that the database deletes with it (`ON
DELETE CASCADE`), and commits: their rows go, their objects stay, and no cover is chosen. An insert
waits for the unit's lock and is refused if the unit has gone. `object_storage_verify_uploads` is taken
to be on, which is its default. `disturbed`, `uncovered` and `reconfirmed` are history variables that
name what nothing in the code prevents: three overlaps, the cascade that takes the cover, and a key
that is confirmed again while its object's deletion is pending. They are exact: without any one of
them the property is violated.

## 4. Runs

| Run | Instance | Shows |
|---|---|---|
| `unit_lifecycle` | 1 unit, 3 bookings, 1 user, 1 manual and 1 provider reference, 3 days | eight safety properties and the refinement of `Reservation` by the serial handlers (500 thousand states) |
| `unit_inspection` | 1 unit, 2 bookings | finding: see below |
| `transactions` | 1 unit, 2 bookings, 2 users, 2 requests, 1 worker, fair | what survives the interleavings, no lock cycle, the refinement of `Reservation`, and an unpaid booking lapses despite lock contention and failures (260 thousand states) |
| `double_offer` | 1 unit, 2 bookings, 2 requests, 1 worker | finding: see below |
| `listing` | 2 requests, 1 listing, 2 units, 3 edits | what survives the unlocked reads, and what holds until two requests overlap (175 thousand states) |
| `unapproved_activation` | 2 requests, 1 listing, 1 unit | finding: see below |
| `payments` | 1 booking, 1 charge, 1 form and 1 provider reference, 4 callbacks of 3 events, 2 amounts, 2 requests, fair | claims, amounts and events stay consistent, and every callback is recorded (160 thousand states) |
| `mobile_session` | 3 tokens, 2 sessions, 2 server requests | storage, reuse, and the session contract (1.4 million states) |
| `revoked_sessions` | the same | finding: see below |
| `offline_logout` | the same | finding: see below |
| `delivery` | 1 viewing, 2 workers, batch and window of 2, at most 3 notifications before decisions stop, 1 crash, fair | reminders are due and sent, notifications relayed and shown once (730 thousand states) |
| `media` | 3 images, 1 unit, 2 requests | one cover, an object for every row, and a repair (4.6 million states) |

Bounds. Three bookings of one unit let a tenant leave, a successor be booked and a third party
interfere, which is what the serial handlers need at most. Statement by statement two bookings are
checked, a tenant's and a successor's: with two sessions, which are what each race needs, and the
worker as a third. What only shows with a third booking (a unit whose status is wrong, and the index that
still refuses a second active booking) or with a batch that spans units is left to the theorems of
section 6, which hold for any numbers. Three
days give a notice, its last day and the day after. Three edits of a listing are its first unit, its
removal and another change, so a listing is submitted, rejected, edited and submitted again. The four
callbacks report one transaction under two event identifiers and for two sources, and contradict one
event; two requests are what a conflict of claims needs, and administrators act beside them. Three
tokens are a login and two rotations, or two logins and a rotation of one; the second session is the
one a late answer belongs to. Three notifications exceed the batch and the window of two, so a batch
is split and an identifier leaves the window; one crash is enough to publish again, and two workers
to race for the lock. Three images are an old cover, a new one and a third that replaces a deleted
one; any of them may show the unit. The elements of a set are symmetric where no property names one; symmetry is not used with
liveness.

The theorems of section 6 remove the bounds from every safety property of the passing runs; only the
four liveness properties hold for these instances alone.

### Findings

Each is a shortest counterexample found by TLC:

* `AvailableIsInspected`: `complete_inspection` tests the unit's status, not its own tenancy's
  inspection. Called again for an older tenancy it frees a unit whose newest move-out is pending.
  `MoveInAfterInspection` still holds: the next move-in waits for the missing inspection.
* `BookedUnitIsOffMarket`: `end_tenancy` reads `vacating_soon`, a seeker
  books, `end_tenancy` commits `inspection`. The unit is offered again after its inspection, and the
  seeker's payment can be rejected but not confirmed. The index `uq_bookings_active_unit` alone keeps
  a second booking out (`OneActiveBooking`, proved).
* `ActivatedIsApproved`: a rejection commits between the read and the commit of an activation, and
  the rejected property goes live.
* `RevokedSessionsAreOver`: a logout of all devices, or the reuse of a token, is an `UPDATE` that waits for the
  row of a token that is being rotated, finds it revoked and passes over it; the rotation's new row is
  not in its snapshot. The call is answered, and the session goes on. `README.md:74` says that reuse
  "revokes that token family" and logout-all "signs the user out from every active device session", and
  `docs/ANDROID_DEVICE_ACCEPTANCE.md:40` asks to confirm that another session "can no longer refresh".
* `OfflineLogoutHolds`: a rotation takes its session generation after its storage reads. A logout that
  bumps the generation in between goes unnoticed, and the answer is stored after the logout cleared
  the storage: the user is signed in again at the next start.

### Other behaviours of the code seen in the models

These are reachable. We found no line of the repository that clearly excludes them, so no run asserts
their absence. Where a property has to excuse one, it names it.

* A cancellation reads a notice, `end_tenancy` (which saw the booking) commits, the cancellation
  commits `vacating_soon` for an empty unit.
* `create_booking` deletes the hold key without comparing it, so it may delete another seeker's.
* The mirror image of `ActivatedIsApproved` (a live property is rejected); an edit, the removal of the
  last unit, or an image, that commits after a submission. `ListingIsSound` therefore speaks only of
  behaviours in which no two requests overlapped.
* A logout that races the app's own rotation presents a token that the rotation has consumed: it ends
  nothing (`NothingToEnd`), and the server's session stays live, without the app's token. `README.md:74`
  says that logout "revokes the current refresh session"; a retry would need the new token, which the
  app has dropped.
* A refresh that is delivered late, after its rotation was repeated, ends a healthy session; a kill
  between the two storage writes leaves half a pair (`torn`).
* A second `_connect` passes the check of the first, and its predecessor's subscription survives
  `stop()`; `start()` while an interrupted attempt closes its socket leaves the client without a retry.
* Deleting a unit deletes its images in the database, with no other request under way: if the cover was one
  of them, the property keeps images and no cover until one is chosen (`uncovered` in `OneCover`; the
  feed then shows no cover image), and the objects stay in the store. The app's "Another photo will
  automatically become the cover" speaks of deleting a photo.
* Two first images confirmed at once, or a cover set while the old one is deleted, leave two covers; an
  image inserted while those it was counted with are deleted is left without one (`disturbed` in
  `OneCover`). `SetCoverRepairs` says that the next choice of a cover repairs all of these. An image
  confirmed again while its object's deletion is pending is left without an object.
* `confirm_upload` of a unit's cover and `delete_unit` may wait for each other's locks; PostgreSQL fails one.

## 5. Fairness

`RentalTransactions` (`transactions`): time passes; a request ends, with an answer or an error; the
worker comes back every cycle (`run_forever`), meets a booking that is unlocked again and again (strong
fairness of its selection), is granted a unit lock that is freed again and again (PostgreSQL queues
waiters), and fails only finitely often. The last assumption is needed: a cycle rolls its whole batch
back, so a worker that always fails frees nothing. People do nothing they do not want to.

`PaymentClaims` (`payments`): the provider repeats a callback until it is recorded (strong, since the
keys it waits for are freed again and again); a request whose statement can run runs it; requests fail
only finitely often, except in the lookup of a claim, whose RuntimeError is the code's own and may
recur.

`Delivery` (`delivery`): each worker's loop goes on (`run_forever` and `restart: unless-stopped` in
the compose file), and the key of the Redis lock has a TTL. Publication may be lost to the client for
ever; the two liveness properties are about the database.

The other specifications state no fairness: their steps are people's decisions, and what they promise
is safety.

## 6. Proofs

All of them hold for arbitrary constants under the named assumptions of the modules, which say that
the null value is none of the others and that bounds are natural numbers; TLC evaluates the
assumptions in the runs. `RealtimeClientProofs` states its own in each theorem.

### UnitLifecycleProofs

`IInv` is the conjunction of the safety invariants and two facts they need. `UnitFollowsBooking` is
needed to know that a unit which can be booked has no active booking, and so `OneActiveBooking`.
`UnitFollowsTenancy` is kept by a release because the release recomputes the status from the
tenancies (`ReleaseFact`, `ReleasedUnit`). `OneInspection` needs `InspectedWhileLet`, since a tenancy
that ends must find no other open inspection. `ReservedAfterNotice` needs `OfferedAfterNotice`: the
first day on offer does not change while a tenant under notice stays. One lemma per conjunct shows
that a step keeps it, with one case for all actions that leave its columns alone.

From `IInv` follow: `TypeCorrect`, `UnitsFollowBookings`, `UnitsFollowTenancies`, `MoneyIsConsistent`,
`NoEarlyReservation`; `Refinement` (initial states map to initial states, and each action to a step of
`Reservation` or a stutter: `RefineReserve`, `RefineFund`, `RefineRelease`, `RefineMoveIn`,
`RefineMoveOut`, `RefineInspect`); and the action properties `MoveInsWait` and `ReviewsAreDecided`.

### RentalTransactionsProofs

Any number of requests, workers, units and bookings. `RentalInv` says, besides the checked
invariants: no row is locked twice (`LocksAreExclusive`); every session is `Sound`, that is, its locked
bookings and tenancies still have the status it found them in, it has the lock of its unit past the
statement that takes it, and the units of a release batch are written or were seen not to be
`booking_pending` under their lock; and a unit has one live tenancy and one open inspection, never both
(`OneTenantAtATime`). The unlocked reads of the tenancy handlers are not among these facts, but one
consequence is: a unit that `end_tenancy` will not overwrite has not become occupied since it was
read, for the tenant it is about to end still lives there.

The induction has three parts. `WorksAreSound`: every statement leaves its own session sound
(`SeekerWorks`, `BookingWorks`, `TenancyWorks`, `ReleaseWorks`, which share `OnwardIsSound` for a batch
that goes on). `KeptByOthers` and `SoundStays`: no commit of one session changes what another has
locked (`Kept`), and that is all its soundness rests on; for the tenancy handlers, which write a unit
they have not locked before, `TenancyCommitsLocked` shows that the `UPDATE` itself waits.
`WorkKeepsTables`: one lemma per commit shows that the tables stay consistent, for the touched unit and,
by `UnitUntouched`, for all others.

From it: `TransactionsTypeCorrect`, `OneActiveBookingHolds`, `StatusIsBackedHolds`,
`ReviewsAreDecided` and `TransactionsRefineReservation`. `NoDeadlockHolds` is the one with an argument
of its own: in a circle of waiting sessions each both holds a unit and waits for one, so each is a
release (`BlockersRelease`); a release that waits for a unit and the one that holds it both have an
active booking of it, which is the same booking, locked by both.

### PropertyListingProofs

For any number of requests, listings and units. What a session may rely on between its read and
its commit is the induction: `SettledWhenActivating` (a session past the check of the charge has a
charge that is still paid or waived, by `SettledStays`) gives `MarketIsPaidFor`;
`SubmittedWhenDeciding` (a decision in hand is about a property that was submitted) gives
`DraftsAreSubmitted` and the last conjunct of `ListingTypes`. `ListingsAreSound` needs `OneByOne`: as
long as nothing overlapped, the one session at work finds what it read still true (`StillTrue`), and
no listing is past its draft when the landlord's verification changes.

### PaymentClaimsProofs

Any number of sources, references, callbacks and requests. `PaymentInv` has the same shape as
`RentalInv`: exclusive locks, and a soundness of each transaction. One on a callback holds the key of
an event that is still new (`BeginsSound`), one that will move its source has it locked and payable for
the amount that is asked, and holds the key of an unclaimed reference at its commit (`MovesSound`); one
that only reports an event as processed has found it applied and has the source locked
(`AppliesSound`). `StatementsAreSound`, `RequestsKeep` and `DecisionsKeep` carry it through every step;
`ClaimsStep` and `MoneyStep` show the two invariants. The theorems are `PaymentsTypeCorrect`,
`ClaimsFollowPaymentsHolds`, `ProviderMoneyIsAskedHolds`, and the action properties `EventActsOnceHolds`
and `ProcessedIsAppliedHolds`.

### RealtimeClientProofs

For any set of overlapping attempts: `ClientTypeCorrect`, and `ClientKeepsTryingHolds`: a client that
should run listens, connects, or has a retry to come, unless it found no token or was started while an
interrupted attempt was closing. The second exception is what `InterruptedIsExcused` carries through
the induction. This module has no run of its own: the theorem covers every instance.

### MobileSessionProofs

Any number of tokens, sessions and connections. Three arguments, one on top of the other.

The rows (`SessionInv`, kept by `SessionInvNext` whoever calls the endpoints). A row is locked by one
transaction at a time; a rotation has its token locked, so that the token is still live when it
commits, and the token it inserts belongs to nobody else; hence a session never has two live tokens.
A revocation has in hand the rows that its snapshot saw live: those that it has locked, and those it has
still to look at, which are live or revoked by then. The sessions of the live ones are what the contract
says the call is going to end, and only the commit of a rotation or of another revocation takes one of
them away (`Settled`). Each commit is therefore a step of `SessionContract`, of the same call, and every
other statement is a step that asks or a stutter: `SessionsImplementContract` for the server with arbitrary clients, and
`MobileImplementsContract` for the composition.

The storage (`StoreInv`). `main` and `rotation` may both be changing the storage. The platform serves
their writes in turn, so of the two the one that started first writes each key first and ends first
(`First`); each key, and whether the user is signed in, is what the one that started last wrote or is
going to write. A chain that changes nothing any more leaves this alone, and with both done the two
keys are of one pair: `TheStoreIsWhole`. `QueueInv` says that a chain is in the queue once, exactly
while it is at a step of the storage, which is `MobileTypes`.

The wire (`WireInv`). Every refresh token that the client may still send, from its storage, from a read
under way or in a request, is live, or its session has ended or is `lost`, or the rotation in flight
has sent it and is about to replace it (`RotationOn`). No second request of the last kind is under way,
because callers join the rotation in flight, unless the session is lost (`OneInFlight`). So a token that the server finds
consumed is of a session that is over or whose answer was lost: `ReuseIsALostAnswer`.

### DeliveryProofs

Any number of viewings, workers, notifications and crashes. `DeliveryInv` has the types; that a relaying
worker has rows locked that are not marked and that nobody else has, and publishes only these
(`RelayInv`); that a viewing whose reminder is being sent is accepted, due and not marked, and is
locked by one worker (`ReminderLocks`); and that one which has reminders is marked, and accepted or
cancelled (`RemindersMarked`), for nothing leads from there back to a decision. Only viewings that exist
can be due, so a batch of reminders is finite, and a list of as many entries as it has reminders has
each of them once (`TwoForEach`). `DeliveryTypes` and `RemindersAreDueHolds` follow.

`NoneIsShownTwice` assumes `BatchSize <= WindowSize`: the client keeps 200 identifiers, and a batch is 100
unless it is configured otherwise. Its invariant `ShownOnce` speaks of behaviours in which no two
workers relayed at once: what was shown and is not marked (because a relay crashed, or has not
committed yet) is among the oldest batch that is not marked, is locked by the one relay there may be,
and is still in the window, behind everything that is marked (`WindowInv`, `BatchInv`). An identifier that
leaves a full window is marked (`WindowIsLongEnough`): otherwise the whole window and the new
identifier, one more than a batch, would be among the oldest batch. `OldestIsABatch` counts that
batch, `OrderExists` shows that the order in which it is published exists.

### PropertyMediaProofs

Any number of images, units and requests. `MediaInv` has the types, the checked invariants and, for each
request, its shape and four facts. `ClearsSound`: who clears the covers saw every cover there is, and has
them locked at its commit, unless one was set meanwhile that its `UPDATE` could not see.
`DeletesSound`: a deletion knows whether its row is the cover, and which row replaces it, as long as
nothing else committed beside it. `ObjectsSound`: what is confirmed has its object, and what is
deleted has no row but the one the deletion has locked. `UnitSound`: who deletes a unit has all its images
locked at its commit, because inserts wait for the unit. Steps of one request go by `AdvanceKeeps`;
`CommitKeeps` shows that the facts of all others survive a commit, and `InsertKeeps`, `CoverKeeps`,
`DeletionKeeps` and `CascadeKeeps` do the rest. From it `MediaTypes`, `PropertyHasOneCover`,
`EveryRowHasItsObject` and the action property `ChoosingACoverRepairs`. The history variables excuse
what nothing in the code locks against; every other overlap is covered by the induction.

### What is only model-checked

Liveness (`UnpaidBookingLapses`, `CallbackIsRecorded`, `NotesAreRelayed`, `ViewingsAreReminded`), which
the prover's rules do not reach, and the five findings, whose counterexamples are runs by their
nature. `RentalInv`, `PaymentInv`, `MediaInv`, `MobileInv`, `DeliveryInv` and `ShownOnce` are proved, and
are not among the properties of a run.

## 7. Not modelled

* Favourites, messaging: single statements under a unique constraint, on which no other step depends.
  Their notifications are relayed like those of `Viewings`.
* Rate limiting: one atomic Lua script per request, with no intermediate state.
* Feed, analytics and the listing endpoints: read-only queries. Audit and history: rows that are
  appended and read by no handler.
* Health, headers, settings, the provisioning of an administrator: no protocol state.
* Mobile screens: they call the endpoints above and show the answers.
* Deployment and release tools.
* Within modelled parts: password hashing, token signatures, provider signatures, payload parsing, and
  the width of the column `method`, which depends on a configured name.
