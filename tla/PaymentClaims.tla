----------------------------- MODULE PaymentClaims -----------------------------
(***************************************************************************)
(* Payments of bookings and of advert charges, the claims that keep one    *)
(* reference from backing two of them, and the events of a payment         *)
(* provider (services/payments.py, payment_providers.py, the payment       *)
(* handlers of bookings.py, advertising.py and admin.py).                  *)
(*                                                                         *)
(* A form or a provider callback is a transaction of several statements:   *)
(* insert the event, lock the source, insert the claim ON CONFLICT DO      *)
(* NOTHING, look the conflicting claim up, commit.  An insert waits for    *)
(* the transaction that is inserting the same key.  The decisions of the   *)
(* administrators lock one source, read nothing else and are one action.   *)
(*                                                                         *)
(* A reference here is the pair (method, reference): a form cannot choose  *)
(* a provider's method.  Booking and payment status move together (see     *)
(* UnitLifecycle), so the payment's stands for both.                       *)
(***************************************************************************)
EXTENDS RentalTypes

CONSTANTS Bookings, Charges,    \* payments of bookings, advert charges
          FormReferences,       \* references typed into a form
          ProviderReferences,   \* transaction ids of the provider
          Events, Amounts,
          Callbacks,            \* the callbacks the provider sends
          Requests,             \* forms and callbacks in progress
          None

Sources == Bookings \cup Charges
References == FormReferences \cup ProviderReferences
Outcomes == {"paid", "failed", "refunded"}     \* pending, cancelled: as failed
Verdicts == {"recorded", "processed", "manual_review"}

\* A callback past its adapter and _validate_event.
Callback == [event : Events, source : Sources, outcome : Outcomes,
             amount : Amounts, ref : ProviderReferences \cup {None}]

ASSUME CallbackAssumption ==
  /\ Callbacks \subseteq Callback
  /\ Bookings \cap Charges = {}
  /\ FormReferences \cap ProviderReferences = {}
  /\ None \notin Sources \cup References \cup Events \cup Amounts
  /\ None \notin Callbacks /\ None \notin Verdicts

VARIABLES status, ref,          \* of each source
          amount,               \* what it asks for (None: nothing yet, or waived)
          late,                 \* bookings whose payment_due_at has passed
          claims,               \* reference -> the source that claims it
          events,               \* event -> its processing_status
          tx                    \* the transaction of each request

tables == <<status, ref, amount, claims, events>>
vars == <<tables, late, tx>>

\* A transaction: its next statement, its source and reference, its callback
\* (None for a form), whether it moves the source into review, the processing
\* status it will give the event, and the rows and keys it has locked.
Idle == [step |-> "idle", source |-> None, ref |-> None, callback |-> None,
         moves |-> FALSE, verdict |-> None, held |-> {}]

EventKey(e)   == <<"payment_provider_events", e>>
SourceLock(s) == <<"booking_payments, advert_charges", s>>
ClaimKey(k)   == <<"payment_reference_claims", k>>

Free(lock) == \A r \in Requests : lock \notin tx[r].held
At(r, step) == tx[r].step = step
Become(r, t) == tx' = [tx EXCEPT ![r] = t]

PayableStatus == {"pending", "quoted", "payment_rejected"}
ReviewStatus  == {"submitted", "payment_submitted"}
Settled       == ReviewStatus \cup {"confirmed", "paid"}
ChargeStatus  == {"none", "quoted", "payment_submitted", "paid", "payment_rejected", "waived"}

Payable(s) == status[s] \in PayableStatus /\ s \notin late
\* Mutant: the wrong enumeration, PaymentStatus.SUBMITTED for a charge.
InReviewM(s) == "submitted"
InReview(s) == IF s \in Bookings THEN "submitted" ELSE "payment_submitted"

Init ==
  /\ status = [s \in Sources |-> IF s \in Bookings THEN "pending" ELSE "none"]
  /\ ref = [s \in Sources |-> None]
  /\ amount \in [Sources -> Amounts \cup {None}]
  /\ \A s \in Sources : amount[s] = None <=> s \in Charges
  /\ late = {}
  /\ claims = [k \in References |-> None]
  /\ events = [e \in Events |-> "none"]
  /\ tx = [r \in Requests |-> Idle]

DeadlinePasses(b) ==
  /\ b \in Bookings \ late
  /\ late' = late \cup {b}
  /\ UNCHANGED <<tables, tx>>
-----------------------------------------------------------------------------
(* A form: the payer types a reference. *)

SubmitPayment(r, s, k) ==
  /\ tx[r] = Idle
  /\ Free(SourceLock(s))
  /\ Payable(s)
  /\ Become(r, [Idle EXCEPT !.step = "claim", !.source = s, !.ref = k,
                            !.moves = TRUE, !.held = {SourceLock(s)}])
  /\ UNCHANGED <<tables, late>>
-----------------------------------------------------------------------------
(* A callback of the provider, delivered any number of times in any order. *)

\* Mutant: no uq_payment_provider_event, every delivery is a new event.
NewEventM(c) == TRUE

\* The insert of the event: a recorded one is answered as a duplicate, or
\* refused if its digest differs, and changes nothing.
NewEvent(c) == events[c.event] = "none" /\ Free(EventKey(c.event))

\* What is decided without looking at the source (None: paid, look at it).
Verdict(c) ==
  CASE c.outcome = "refunded" -> "manual_review"
    [] c.outcome = "failed"   -> "recorded"
    [] c.outcome = "paid"     -> None

Receive(r, c) ==
  /\ tx[r] = Idle
  /\ NewEvent(c)
  /\ Become(r, [Idle EXCEPT !.step = IF Verdict(c) = None THEN "source" ELSE "commit",
                            !.source = c.source, !.ref = c.ref, !.callback = c,
                            !.verdict = Verdict(c), !.held = {EventKey(c.event)}])
  /\ UNCHANGED <<tables, late>>

\* Mutant: the amount is not compared.
MoneyMatchesM(c) == c.ref # None
MoneyMatches(c) == c.amount = amount[c.source] /\ c.ref # None

\* Mutant: the reference decides, whatever became of the payment.
AppliedM(c) == ref[c.source] = c.ref
Applied(c) == ref[c.source] = c.ref /\ status[c.source] \in Settled

\* _process_booking_paid, _process_advert_paid up to the claim.
LockSource(r) ==
  LET c == tx[r].callback
      Locked(step, moves, verdict) ==
        Become(r, [tx[r] EXCEPT !.step = step, !.moves = moves, !.verdict = verdict,
                                !.held = @ \cup {SourceLock(c.source)}])
  IN
  /\ At(r, "source")
  /\ Free(SourceLock(c.source))
  /\ \/ /\ MoneyMatches(c) /\ Applied(c)
        /\ Locked("commit", FALSE, "processed")
     \/ /\ MoneyMatches(c) /\ ~Applied(c) /\ Payable(c.source)
        /\ Locked("claim", TRUE, "processed")
     \/ /\ ~MoneyMatches(c) \/ ~(Applied(c) \/ Payable(c.source))
        /\ Locked("commit", FALSE, "manual_review")
  /\ UNCHANGED <<tables, late>>
-----------------------------------------------------------------------------
(* claim_payment_reference *)

\* INSERT .. ON CONFLICT DO NOTHING, after whoever is inserting the same key.
InsertClaim(r) ==
  LET k == tx[r].ref IN
  /\ At(r, "claim")
  /\ Free(ClaimKey(k))
  /\ \/ /\ claims[k] = None
        /\ Become(r, [tx[r] EXCEPT !.step = "commit", !.held = @ \cup {ClaimKey(k)}])
     \/ /\ claims[k] # None
        /\ Become(r, [tx[r] EXCEPT !.step = "lookup"])
  /\ UNCHANGED <<tables, late>>

OwnClaim(r) == claims[tx[r].ref] = tx[r].source

\* Mutant: a callback whose reference is claimed elsewhere fails.
RefusedM(r) == ~OwnClaim(r)
\* A form is refused; a claim that was deleted since the insert is an error.
Refused(r) == None \in {tx[r].callback, claims[tx[r].ref]}

\* The conflicting claim: one's own, another's (a form is refused, a callback
\* put to review), or deleted since the insert (RuntimeError, all rolled back).
LookUpClaim(r) ==
  /\ At(r, "lookup")
  /\ \/ /\ OwnClaim(r)
        /\ Become(r, [tx[r] EXCEPT !.step = "commit"])
     \/ /\ ~OwnClaim(r)
        /\ Become(r, IF Refused(r) THEN Idle
                     ELSE [tx[r] EXCEPT !.step = "commit", !.moves = FALSE,
                                        !.verdict = "manual_review"])
  /\ UNCHANGED <<tables, late>>

Commit(r) ==
  LET s == tx[r].source IN
  /\ At(r, "commit")
  /\ IF tx[r].moves
       THEN /\ status' = [status EXCEPT ![s] = InReview(s)]
            /\ ref' = [ref EXCEPT ![s] = tx[r].ref]
            /\ claims' = [claims EXCEPT ![tx[r].ref] = s]
       ELSE UNCHANGED <<status, ref, claims>>
  /\ events' = IF tx[r].callback = None THEN events
               ELSE [events EXCEPT ![tx[r].callback.event] = tx[r].verdict]
  /\ Become(r, Idle)
  /\ UNCHANGED <<amount, late>>

\* An error or a crash: nothing of the transaction remains.
Abort(r) ==
  /\ tx[r] # Idle
  /\ Become(r, Idle)
  /\ UNCHANGED <<tables, late>>
-----------------------------------------------------------------------------
(* Decisions about one source, under its lock. *)

Decide(s, from, to) ==
  /\ Free(SourceLock(s))
  /\ status[s] \in from
  /\ status' = [status EXCEPT ![s] = to]

\* confirm_booking, confirm_advert_charge_payment
ConfirmPayment(s) ==
  /\ Decide(s, ReviewStatus, IF s \in Bookings THEN "confirmed" ELSE "paid")
  /\ UNCHANGED <<ref, amount, claims, events, late, tx>>

\* Mutant: the trigger of migration 0013 is missing.
AfterRejectionM(s) == claims

\* The triggers of migration 0013: a rejected payment gives up its claim.
AfterRejection(s) == [k \in References |->
  IF k = ref[s] /\ claims[k] = s THEN None ELSE claims[k]]

\* reject_booking_payment, reject_advert_charge_payment
RejectPayment(s) ==
  /\ Decide(s, ReviewStatus, IF s \in Bookings THEN "rejected" ELSE "payment_rejected")
  /\ claims' = AfterRejection(s)
  /\ UNCHANGED <<ref, amount, events, late, tx>>

\* cancel_booking, and the worker for a booking whose deadline has passed
EndUnpaid(b) ==
  /\ b \in Bookings
  /\ \/ Decide(b, {"pending"}, "cancelled")
     \/ b \in late /\ Decide(b, {"pending"}, "expired")
  /\ UNCHANGED <<ref, amount, claims, events, late, tx>>

Quotable == {"none", "quoted", "payment_rejected"}

\* quote_advert_charge: a new amount, or a waiver.
QuoteCharge(s, a) ==
  /\ s \in Charges
  /\ \/ Decide(s, Quotable, "quoted") /\ amount' = [amount EXCEPT ![s] = a]
     \/ Decide(s, Quotable, "waived") /\ amount' = [amount EXCEPT ![s] = None]
  /\ ref' = [ref EXCEPT ![s] = None]
  /\ UNCHANGED <<claims, events, late, tx>>

\* resolve_payment_provider_event: closes the case, moves no money.
ResolveEvent(e) ==
  /\ events[e] = "manual_review"
  /\ events' = [events EXCEPT ![e] = "resolved"]
  /\ UNCHANGED <<status, ref, amount, claims, late, tx>>
-----------------------------------------------------------------------------
Statement(r) == LockSource(r) \/ InsertClaim(r) \/ LookUpClaim(r) \/ Commit(r)

Next ==
  \/ \E r \in Requests :
       \/ \E s \in Sources, k \in FormReferences : SubmitPayment(r, s, k)
       \/ \E c \in Callbacks : Receive(r, c)
       \/ Statement(r)
       \/ Abort(r)
  \/ \E s \in Sources :
       \/ ConfirmPayment(s)
       \/ RejectPayment(s)
       \/ EndUnpaid(s)
       \/ DeadlinePasses(s)
       \/ \E a \in Amounts : QuoteCharge(s, a)
  \/ \E e \in Events : ResolveEvent(e)

Spec == Init /\ [][Next]_vars

\* The provider repeats a callback until it is recorded; a request whose
\* statement can run runs it, also if what it waits for is taken again and
\* again; and only the lookup of a claim may fail for ever.
Fairness ==
  /\ \A c \in Callbacks : SF_vars(\E r \in Requests : Receive(r, c))
  /\ \A r \in Requests : SF_vars(Statement(r)) /\ <>[][Abort(r) => LookUpClaim(r)]_vars

FairSpec == Spec /\ Fairness
-----------------------------------------------------------------------------
Transaction ==
  [step : {"idle", "source", "claim", "lookup", "commit"},
   source : Sources \cup {None}, ref : References \cup {None},
   callback : Callbacks \cup {None}, moves : BOOLEAN,
   verdict : Verdicts \cup {None},
   held : SUBSET ({EventKey(e) : e \in Events} \cup {SourceLock(s) : s \in Sources}
                    \cup {ClaimKey(k) : k \in References})]

\* Types; and only a source whose payment was handed in has a reference.
TypeOK ==
  /\ status \in [Sources -> PaymentStatus \cup ChargeStatus]
  /\ \A s \in Sources : status[s] \in IF s \in Bookings THEN PaymentStatus ELSE ChargeStatus
  /\ ref \in [Sources -> References \cup {None}]
  /\ amount \in [Sources -> Amounts \cup {None}]
  /\ \A s \in Sources : ref[s] # None <=>
       status[s] \in Settled \cup {"rejected", "payment_rejected"}
  /\ late \subseteq Bookings
  /\ claims \in [References -> Sources \cup {None}]
  /\ events \in [Events -> {"none", "recorded", "processed", "manual_review", "resolved"}]
  /\ tx \in [Requests -> Transaction]

\* A reference is claimed by exactly the payment under review or accepted
\* that quotes it: no reference backs two payments, and a rejected one is
\* free for the payer it belongs to, in whatever order forms, callbacks and
\* decisions interleave.
ClaimsFollowPayments ==
  \A k \in References, s \in Sources :
    claims[k] = s <=> ref[s] = k /\ status[s] \in Settled

\* docs/PAYMENT_PROVIDERS.md: mismatches go to manual review.  Provider money
\* that is under review or accepted is the amount that is asked: the price
\* cannot be changed under a payment, nor by a late callback.
ProviderMoneyIsAsked ==
  \A s \in Sources : ref[s] \in ProviderReferences /\ status[s] \in Settled =>
    \E c \in Callbacks : /\ c.outcome = "paid" /\ c.source = s
                         /\ c.ref = ref[s] /\ c.amount = amount[s]

\* A request acts on a callback only if its event is not recorded yet: no
\* repetition, altered replay or concurrent delivery moves a payment again,
\* even after the payment was rejected in between.
EventActsOnce ==
  [][\A r \in Requests : LET c == tx[r].callback IN
       c # None /\ tx'[r] = Idle /\ tables' # tables => events[c.event] = "none"]_vars

\* An event is marked processed only while the payment it names is under
\* review or accepted with the event's reference.
ProcessedIsApplied ==
  [][\A c \in Callbacks :
       events[c.event] = "none" /\ events'[c.event] = "processed" =>
         \E d \in Callbacks : /\ d.event = c.event
                              /\ ref'[d.source] = d.ref /\ status'[d.source] \in Settled]_vars

\* Every callback is recorded in the end: waiting for keys and rows, conflicts,
\* RuntimeErrors and crashes only delay it.
CallbackIsRecorded == \A c \in Callbacks : <>(events[c.event] # "none")
=============================================================================
