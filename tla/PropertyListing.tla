---------------------------- MODULE PropertyListing ----------------------------
(***************************************************************************)
(* How one landlord's properties come on the market: verification of the   *)
(* landlord (api/routes/landlords.py, api/routes/admin.py), drafting and   *)
(* submission (api/routes/properties.py), review, advert charge and        *)
(* activation (api/routes/admin.py, api/routes/advertising.py and the      *)
(* advert part of services/payment_providers.py).                          *)
(*                                                                         *)
(* None of these handlers locks the property or the profile.  They read    *)
(* the row, check it and overwrite its status when they commit, so each    *)
(* is split at its statements: tx[s] is what a session has read so far.    *)
(* Only the charge is locked; what happens under its lock is one action.   *)
(***************************************************************************)
EXTENDS Naturals, FiniteSets

CONSTANTS Properties,    \* the landlord's properties
          RentalUnits,   \* identities of their units
          Sessions,      \* requests in flight
          MaxRevision,   \* bound on the edits of a property
          None

ASSUME ListingAssumption == None \notin Properties /\ MaxRevision \in Nat

VARIABLES
  addressed,      \* landlord_profiles.physical_address is set
  verification,   \* landlord_profiles.verification_status
  status,         \* properties.status; "none" before the row exists
  units,          \* the rows of units that belong to the property
  revision,       \* number of edits of the property and its units
  charge,         \* advert_charges.status; "none" before the row exists
  tx,             \* what each session has read
  reviewed,       \* history: the revision that was approved
  overlapped      \* history: a request began before another one ended

profileVars == <<addressed, verification>>
contentVars == <<units, revision>>
vars == <<profileVars, status, contentVars, charge, tx, reviewed, overlapped>>

VerificationStatus == {"not_submitted", "pending", "approved", "rejected"}
PropertyStatus == {"draft", "pending_verification", "approved", "active", "rejected"}
ChargeStatus == {"quoted", "payment_submitted", "payment_rejected", "paid", "waived"}

\* Mutants: approved content can be edited; any listing can be quoted; a
\* paid charge is quoted again; a rejected listing becomes a draft.
EditableStatusM == {"draft", "rejected", "approved"}
QuotableStatusM == {"draft", "approved"}
FinalChargeM == {"payment_submitted", "waived"}
AfterRejectionM == "draft"

EditableStatus == {"draft", "rejected"}
ReviewableStatus == {"pending_verification", "approved"}
QuotableStatus == {"approved"}
PayableCharge == {"quoted", "payment_rejected"}
FinalCharge == {"payment_submitted", "paid", "waived"}
ActivatableCharge == {"paid", "waived"}
AfterRejection == "rejected"
-----------------------------------------------------------------------------
\* A session: the statement it runs next, its property, the verification
\* status and the revision it read.
At(step, p, saw, seen) == [step |-> step, prop |-> p, saw |-> saw, seen |-> seen]
Idle == At("idle", None, None, 0)

Steps == {"idle", "profile", "verify", "decide", "update", "create_unit",
          "update_unit", "delete_unit", "submit_profile", "submit_units",
          "submit", "approve", "reject", "quote", "activate_charge", "activate"}

\* The handler of a profile, or of a property, has read its row.
Begin(s, session) ==
  /\ tx[s] = Idle
  /\ tx' = [tx EXCEPT ![s] = session]
  /\ overlapped' = (overlapped \/ \E r \in Sessions : tx[r] # Idle)
  /\ UNCHANGED <<profileVars, status, contentVars, charge, reviewed>>

OnProfile(s, step) == Begin(s, At(step, None, verification, 0))
OnProperty(s, p, step) == Begin(s, At(step, p, None, revision[p]))

Continue(s, from, to) ==
  /\ tx[s].step = from
  /\ tx' = [tx EXCEPT ![s] = At(to, tx[s].prop, None, tx[s].seen)]
  /\ UNCHANGED <<profileVars, status, contentVars, charge, reviewed, overlapped>>

Finish(s, step) == tx[s].step = step /\ tx' = [tx EXCEPT ![s] = Idle]

\* A check that fails, an exception, a restart: the transaction rolls back.
Abort(s) ==
  /\ tx[s] # Idle
  /\ tx' = [tx EXCEPT ![s] = Idle]
  /\ UNCHANGED <<profileVars, status, contentVars, charge, reviewed, overlapped>>

\* The commit overwrites the property's status, whatever it is by now.
SetStatus(p, to) ==
  /\ status' = [status EXCEPT ![p] = to]
  /\ UNCHANGED <<profileVars, contentVars, charge>>
-----------------------------------------------------------------------------
Init ==
  /\ addressed = FALSE
  /\ verification = "not_submitted"
  /\ status = [p \in Properties |-> "none"]
  /\ units = [p \in Properties |-> {}]
  /\ revision = [p \in Properties |-> 0]
  /\ charge = [p \in Properties |-> "none"]
  /\ reviewed = [p \in Properties |-> 0]
  /\ tx = [s \in Sessions |-> Idle]
  /\ overlapped = FALSE

UpdateProfile(s) == verification # "pending" /\ OnProfile(s, "profile")

CommitProfile(s) ==
  /\ Finish(s, "profile")
  /\ addressed' = TRUE
  /\ verification' = IF tx[s].saw = "rejected" THEN "not_submitted" ELSE verification
  /\ UNCHANGED <<status, contentVars, charge, reviewed, overlapped>>

SubmitVerification(s) ==
  /\ addressed
  /\ verification \in {"not_submitted", "rejected"}
  /\ OnProfile(s, "verify")

CommitVerification(s) ==
  /\ Finish(s, "verify")
  /\ verification' = "pending"
  /\ UNCHANGED <<addressed, status, contentVars, charge, reviewed, overlapped>>

DecideVerification(s) == verification = "pending" /\ OnProfile(s, "decide")

CommitDecision(s, decision) ==
  /\ Finish(s, "decide")
  /\ verification' = decision
  /\ UNCHANGED <<addressed, status, contentVars, charge, reviewed, overlapped>>
-----------------------------------------------------------------------------
CreateProperty(p) ==
  /\ status[p] = "none"
  /\ SetStatus(p, "draft")
  /\ UNCHANGED <<tx, reviewed, overlapped>>

\* update_property, create_unit, update_unit and delete_unit read the
\* property.  A unit is read together with its commit: all that matters is
\* whether it is still there.
Edit(s, p, step) == status[p] \in EditableStatus /\ OnProperty(s, p, step)

CommitEdit(s, step, rows) ==
  LET p == tx[s].prop IN
  /\ Finish(s, step)
  /\ revision[p] < MaxRevision
  /\ revision' = [revision EXCEPT ![p] = @ + 1]
  /\ units' = [units EXCEPT ![p] = rows]
  /\ UNCHANGED <<profileVars, status, charge, reviewed, overlapped>>

UpdateProperty(s) == CommitEdit(s, "update", units[tx[s].prop])
UpdateUnit(s) == /\ tx[s].step = "update_unit" /\ units[tx[s].prop] # {}
                 /\ CommitEdit(s, "update_unit", units[tx[s].prop])
CreateUnit(s, u) == /\ u \notin UNION {units[p] : p \in Properties}
                    /\ CommitEdit(s, "create_unit", units[tx[s].prop] \cup {u})
DeleteUnit(s, u) == /\ tx[s].step = "delete_unit" /\ u \in units[tx[s].prop]
                    /\ CommitEdit(s, "delete_unit", units[tx[s].prop] \ {u})

\* submit_property: the property, the profile, the number of units.
SubmitProperty(s, p) ==
  status[p] \in EditableStatus /\ OnProperty(s, p, "submit_profile")
CheckProfile(s) ==
  verification = "approved" /\ Continue(s, "submit_profile", "submit_units")
CountUnits(s) ==
  /\ tx[s].step = "submit_units"
  /\ units[tx[s].prop] # {}
  /\ Continue(s, "submit_units", "submit")
CommitSubmit(s) ==
  /\ Finish(s, "submit")
  /\ SetStatus(tx[s].prop, "pending_verification")
  /\ UNCHANGED <<reviewed, overlapped>>
-----------------------------------------------------------------------------
ApproveProperty(s, p) ==
  status[p] = "pending_verification" /\ OnProperty(s, p, "approve")
CommitApprove(s) ==
  /\ Finish(s, "approve")
  /\ SetStatus(tx[s].prop, "approved")
  /\ reviewed' = [reviewed EXCEPT ![tx[s].prop] = tx[s].seen]
  /\ UNCHANGED overlapped

RejectProperty(s, p) ==
  status[p] \in ReviewableStatus /\ OnProperty(s, p, "reject")
CommitReject(s) ==
  /\ Finish(s, "reject")
  /\ SetStatus(tx[s].prop, AfterRejection)
  /\ UNCHANGED <<reviewed, overlapped>>

\* activate_property: the property, then the charge without its lock.
ActivateProperty(s, p) ==
  status[p] = "approved" /\ OnProperty(s, p, "activate_charge")
CheckCharge(s) ==
  /\ tx[s].step = "activate_charge"
  /\ charge[tx[s].prop] \in ActivatableCharge
  /\ Continue(s, "activate_charge", "activate")
CommitActivate(s) ==
  /\ Finish(s, "activate")
  /\ SetStatus(tx[s].prop, "active")
  /\ UNCHANGED <<reviewed, overlapped>>
-----------------------------------------------------------------------------
SetCharge(p, to) ==
  /\ charge' = [charge EXCEPT ![p] = to]
  /\ UNCHANGED <<profileVars, status, contentVars, reviewed, overlapped>>

\* Of two quotes that both find no charge, the unique property_id lets one
\* insert its row and aborts the other.
QuoteAdvertCharge(s, p) ==
  status[p] \in QuotableStatus /\ OnProperty(s, p, "quote")
CommitQuote(s, to) ==
  /\ Finish(s, "quote")
  /\ charge[tx[s].prop] \notin FinalCharge
  /\ SetCharge(tx[s].prop, to)

\* The landlord's form and a provider's callback make the same transition.
SubmitAdvertChargePayment(p) ==
  charge[p] \in PayableCharge /\ SetCharge(p, "payment_submitted") /\ UNCHANGED tx
ConfirmAdvertChargePayment(p) ==
  charge[p] = "payment_submitted" /\ SetCharge(p, "paid") /\ UNCHANGED tx
RejectAdvertChargePayment(p) ==
  charge[p] = "payment_submitted" /\ SetCharge(p, "payment_rejected") /\ UNCHANGED tx
-----------------------------------------------------------------------------
Next ==
  \/ \E s \in Sessions :
       \/ Abort(s)
       \/ UpdateProfile(s) \/ CommitProfile(s)
       \/ SubmitVerification(s) \/ CommitVerification(s)
       \/ DecideVerification(s)
       \/ \E d \in {"approved", "rejected"} : CommitDecision(s, d)
       \/ UpdateProperty(s) \/ UpdateUnit(s)
       \/ \E u \in RentalUnits : CreateUnit(s, u) \/ DeleteUnit(s, u)
       \/ CheckProfile(s) \/ CountUnits(s) \/ CommitSubmit(s)
       \/ CommitApprove(s) \/ CommitReject(s)
       \/ CheckCharge(s) \/ CommitActivate(s)
       \/ \E to \in {"quoted", "waived"} : CommitQuote(s, to)
  \/ \E s \in Sessions, p \in Properties :
       \/ \E step \in {"update", "create_unit", "update_unit", "delete_unit"} :
            Edit(s, p, step)
       \/ SubmitProperty(s, p) \/ ApproveProperty(s, p) \/ RejectProperty(s, p)
       \/ ActivateProperty(s, p) \/ QuoteAdvertCharge(s, p)
  \/ \E p \in Properties :
       \/ CreateProperty(p)
       \/ SubmitAdvertChargePayment(p)
       \/ ConfirmAdvertChargePayment(p)
       \/ RejectAdvertChargePayment(p)

Spec == Init /\ [][Next]_vars
-----------------------------------------------------------------------------
Decisions == {"approve", "reject", "quote", "activate_charge", "activate"}
PropertySteps == Steps \ {"idle", "profile", "verify", "decide"}

TypeOK ==
  /\ addressed \in BOOLEAN
  /\ verification \in VerificationStatus
  /\ status \in [Properties -> PropertyStatus \cup {"none"}]
  /\ units \in [Properties -> SUBSET RentalUnits]
  /\ revision \in [Properties -> 0 .. MaxRevision]
  /\ charge \in [Properties -> ChargeStatus \cup {"none"}]
  /\ reviewed \in [Properties -> 0 .. MaxRevision]
  /\ overlapped \in BOOLEAN
  /\ tx \in [Sessions -> [step : Steps, prop : Properties \cup {None},
                          saw : VerificationStatus \cup {None},
                          seen : 0 .. MaxRevision]]
  /\ \A s \in Sessions : tx[s].step \in PropertySteps => tx[s].prop \in Properties
  /\ \A p \in Properties : charge[p] # "none" => status[p] \notin {"none", "draft"}

\* However the handlers interleave, a property is on the market only if its
\* advert was paid or waived: activate_property reads the charge without its
\* lock, but no handler takes back a payment that was verified.
PaidForActive ==
  \A p \in Properties : status[p] = "active" => charge[p] \in {"paid", "waived"}

\* However the handlers interleave, the first thing that happens to a draft
\* is its submission: no decision about an earlier version reaches it.
DraftIsSubmittedFirst ==
  [][\A p \in Properties :
       status[p] = "draft" => status'[p] \in {"draft", "pending_verification"}]_vars

\* As long as requests are served one at a time: a listing under review, approved or
\* on the market has units and a verified landlord, and what is approved or
\* on the market is the very content that was reviewed.
ListingIsSound ==
  ~overlapped => \A p \in Properties :
    /\ status[p] \in {"pending_verification", "approved", "active"} =>
         units[p] # {} /\ verification = "approved"
    /\ status[p] \in {"approved", "active"} => reviewed[p] = revision[p]

\* docs/ANDROID_DEVICE_ACCEPTANCE.md: "Confirm an unapproved/unpaid advert
\* cannot be activated".  Only an approved property goes on the market.
ActivatedIsApproved ==
  [][\A p \in Properties :
       status[p] # "active" /\ status'[p] = "active" => status[p] = "approved"]_vars
=============================================================================
