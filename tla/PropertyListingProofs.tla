------------------------- MODULE PropertyListingProofs -------------------------
(***************************************************************************)
(* What holds of PropertyListing however many requests interleave, for any *)
(* properties, units and bounds: types, that a property on the market is   *)
(* paid for, that a draft is first submitted, and that as long as requests *)
(* are served one at a time what is under review or on the market is       *)
(* sound.  The invariants say what a session that has read, but not yet    *)
(* committed, may rely on: a verified charge stays verified, and a listing *)
(* that was under review never becomes a draft again.                      *)
(***************************************************************************)
EXTENDS PropertyListing, TLAPS

\* A session about to activate a property has seen a charge that is still
\* paid or waived.
SettledWhenActivating ==
  \A s \in Sessions :
    tx[s].step = "activate" => charge[tx[s].prop] \in {"paid", "waived"}

\* A session about to decide on a property has seen it after its submission.
SubmittedWhenDeciding ==
  \A s \in Sessions :
    tx[s].step \in Decisions => status[tx[s].prop] \notin {"none", "draft"}

ListingInv == TypeOK /\ SubmittedWhenDeciding /\ SettledWhenActivating /\ PaidForActive

\* Every row the program starts with has the type of its column.
LEMMA ListingInit == Init => ListingInv
<1> SUFFICES ASSUME Init PROVE ListingInv
  OBVIOUS
<1>1. TypeOK
  <2>1. 0 \in 0 .. MaxRevision
    BY ListingAssumption
  <2>2. tx \in [Sessions -> [step : Steps, prop : Properties \cup {None},
                            saw : VerificationStatus \cup {None}, seen : 0 .. MaxRevision]]
    BY <2>1 DEF Init, Idle, At, Steps
  <2>3. \A s \in Sessions : tx[s].step = "idle"
    BY DEF Init, Idle, At
  <2>4. "idle" \notin PropertySteps
    BY DEF PropertySteps
  <2> QED
    BY <2>1, <2>2, <2>3, <2>4 DEF Init, TypeOK, VerificationStatus
<1>2. SubmittedWhenDeciding /\ SettledWhenActivating /\ PaidForActive
  BY DEF Init, SubmittedWhenDeciding, SettledWhenActivating, PaidForActive, Idle, At, Decisions
<1> QED
  BY <1>1, <1>2 DEF ListingInv

\* No handler writes a value its column cannot hold, or a charge for a
\* property that was never submitted.
LEMMA ListingType ==
  ASSUME ListingInv, [Next]_vars PROVE TypeOK'
<1> USE ListingAssumption DEF TypeOK, profileVars, contentVars
<1>t. TypeOK /\ SubmittedWhenDeciding
  BY DEF ListingInv
<1>1. ASSUME NEW s \in Sessions, Abort(s) PROVE TypeOK'
  BY <1>t, <1>1 DEF Abort, Idle, At, Steps, PropertySteps
<1>2. ASSUME NEW s \in Sessions, NEW step \in {"profile", "verify", "decide"}, OnProfile(s, step)
      PROVE  TypeOK'
  BY <1>t, <1>2 DEF OnProfile, Begin, Idle, At, Steps, PropertySteps
<1>3. ASSUME NEW s \in Sessions, NEW p \in Properties, NEW step \in PropertySteps,
             OnProperty(s, p, step)
      PROVE  TypeOK'
  BY <1>t, <1>3 DEF OnProperty, Begin, Idle, At, Steps, PropertySteps
<1>4. ASSUME NEW s \in Sessions, CommitProfile(s) PROVE TypeOK'
  BY <1>t, <1>4 DEF CommitProfile, Finish, Idle, At, Steps, PropertySteps, VerificationStatus
<1>5. ASSUME NEW s \in Sessions,
             \/ CommitVerification(s)
             \/ \E d \in {"approved", "rejected"} : CommitDecision(s, d)
      PROVE  TypeOK'
  BY <1>t, <1>5 DEF CommitVerification, CommitDecision, Finish, Idle, At, Steps, PropertySteps,
    VerificationStatus
<1>6. ASSUME NEW s \in Sessions, NEW step \in PropertySteps, NEW rows \in SUBSET RentalUnits,
             CommitEdit(s, step, rows)
      PROVE  TypeOK'
  BY <1>t, <1>6 DEF CommitEdit, Finish, Idle, At, Steps, PropertySteps
<1>7. ASSUME NEW s \in Sessions, CheckProfile(s) \/ CountUnits(s) \/ CheckCharge(s)
      PROVE  TypeOK'
  BY <1>t, <1>7 DEF CheckProfile, CountUnits, CheckCharge, Continue, At, Steps, PropertySteps
<1>8. ASSUME NEW s \in Sessions, CommitSubmit(s) \/ CommitReject(s) \/ CommitActivate(s)
      PROVE  TypeOK'
  BY <1>t, <1>8 DEF CommitSubmit, CommitReject, CommitActivate, Finish, SetStatus, Idle, At, Steps,
    PropertySteps, PropertyStatus, AfterRejection
<1>9. ASSUME NEW s \in Sessions, CommitApprove(s) PROVE TypeOK'
  BY <1>t, <1>9 DEF CommitApprove, Finish, SetStatus, Idle, At, Steps, PropertySteps, PropertyStatus
<1>10. ASSUME NEW s \in Sessions, NEW to \in {"quoted", "waived"}, CommitQuote(s, to)
       PROVE  TypeOK'
  BY <1>t, <1>10 DEF CommitQuote, Finish, SetCharge, Idle, At, Steps, PropertySteps, ChargeStatus,
    SubmittedWhenDeciding, Decisions
<1>11. ASSUME NEW p \in Properties, CreateProperty(p) PROVE TypeOK'
  BY <1>t, <1>11 DEF CreateProperty, SetStatus, PropertyStatus
<1>12. ASSUME NEW p \in Properties,
              \/ SubmitAdvertChargePayment(p)
              \/ ConfirmAdvertChargePayment(p)
              \/ RejectAdvertChargePayment(p)
       PROVE  TypeOK'
  BY <1>t, <1>12 DEF SubmitAdvertChargePayment, ConfirmAdvertChargePayment,
    RejectAdvertChargePayment, SetCharge, PayableCharge, ChargeStatus
<1>13. CASE UNCHANGED vars
  BY <1>t, <1>13 DEF vars
<1> HIDE DEF TypeOK
<1>14. ASSUME NEW s \in Sessions,
              \/ UpdateProperty(s) \/ UpdateUnit(s)
              \/ \E u \in RentalUnits : CreateUnit(s, u) \/ DeleteUnit(s, u)
       PROVE  TypeOK'
  <2> DEFINE rows == units[tx[s].prop]
             Edited(R) == \E step \in PropertySteps : CommitEdit(s, step, R)
  <2> USE DEF PropertySteps, Steps
  <2>1. tx[s].step \in PropertySteps => rows \subseteq RentalUnits
    BY <1>t DEF TypeOK
  <2>2. ASSUME UpdateProperty(s) \/ UpdateUnit(s) PROVE TypeOK'
    <3>1. Edited(rows)
      BY <2>2 DEF UpdateProperty, UpdateUnit
    <3>2. rows \in SUBSET RentalUnits
      BY <2>1, <3>1 DEF CommitEdit, Finish
    <3> QED BY <3>1, <3>2, <1>6
  <2>3. ASSUME NEW u \in RentalUnits, CreateUnit(s, u) PROVE TypeOK'
    <3>1. Edited(rows \cup {u})
      BY <2>3 DEF CreateUnit
    <3>2. rows \cup {u} \in SUBSET RentalUnits
      BY <2>1, <3>1 DEF CommitEdit, Finish
    <3> QED BY <3>1, <3>2, <1>6
  <2>4. ASSUME NEW u \in RentalUnits, DeleteUnit(s, u) PROVE TypeOK'
    <3>1. Edited(rows \ {u})
      BY <2>4 DEF DeleteUnit
    <3>2. rows \ {u} \in SUBSET RentalUnits
      BY <2>1, <3>1 DEF CommitEdit, Finish
    <3> QED BY <3>1, <3>2, <1>6
  <2> QED BY <1>14, <2>2, <2>3, <2>4
<1>15. ASSUME NEW s \in Sessions, NEW p \in Properties,
              \/ \E step \in {"update", "create_unit", "update_unit", "delete_unit"} :
                   Edit(s, p, step)
              \/ SubmitProperty(s, p) \/ ApproveProperty(s, p) \/ RejectProperty(s, p)
              \/ ActivateProperty(s, p) \/ QuoteAdvertCharge(s, p)
       PROVE  TypeOK'
  <2>1. \E step \in PropertySteps : OnProperty(s, p, step)
    BY <1>15 DEF Edit, SubmitProperty, ApproveProperty, RejectProperty, ActivateProperty,
      QuoteAdvertCharge, PropertySteps, Steps
  <2> QED BY <2>1, <1>3
<1>16. ASSUME NEW s \in Sessions, UpdateProfile(s) \/ SubmitVerification(s) \/ DecideVerification(s)
       PROVE  TypeOK'
  BY <1>2, <1>16 DEF UpdateProfile, SubmitVerification, DecideVerification
<1> QED
  BY <1>1, <1>4, <1>5, <1>7, <1>8, <1>9, <1>10, <1>11, <1>12, <1>13, <1>14, <1>15, <1>16 DEF Next

\* A session takes a decision in hand only for a submitted property, and no
\* other step makes that property a draft again.
LEMMA SubmittedStep ==
  ASSUME ListingInv, [Next]_vars PROVE SubmittedWhenDeciding'
<1>t. TypeOK /\ SubmittedWhenDeciding /\ TypeOK'
  BY ListingType DEF ListingInv
<1> SUFFICES ASSUME NEW r \in Sessions, tx'[r].step \in Decisions
             PROVE  status'[tx'[r].prop] \notin {"none", "draft"}
  BY DEF SubmittedWhenDeciding
<1> USE DEF Decisions
\* A step that ends a session, or begins another kind of handler.
<1>1. ASSUME UNCHANGED status, NEW s \in Sessions, tx'[s].step \notin Decisions,
             \A q \in Sessions \ {s} : tx'[q] = tx[q]
      PROVE  status'[tx'[r].prop] \notin {"none", "draft"}
  BY <1>t, <1>1 DEF SubmittedWhenDeciding
<1>2. ASSUME UNCHANGED tx, NEW p \in Properties,
             UNCHANGED status \/ (status[p] = "none" /\ status' = [status EXCEPT ![p] = "draft"])
      PROVE  status'[tx'[r].prop] \notin {"none", "draft"}
  BY <1>t, <1>2 DEF SubmittedWhenDeciding, TypeOK, PropertySteps, Steps
<1>3. ASSUME NEW s \in Sessions,
             \/ Abort(s)
             \/ UpdateProfile(s) \/ SubmitVerification(s) \/ DecideVerification(s)
             \/ CommitProfile(s) \/ CommitVerification(s)
             \/ \E d \in {"approved", "rejected"} : CommitDecision(s, d)
             \/ UpdateProperty(s) \/ UpdateUnit(s)
             \/ \E u \in RentalUnits : CreateUnit(s, u) \/ DeleteUnit(s, u)
             \/ CheckProfile(s) \/ CountUnits(s)
             \/ \E to \in {"quoted", "waived"} : CommitQuote(s, to)
      PROVE  status'[tx'[r].prop] \notin {"none", "draft"}
  BY <1>t, <1>1, <1>3 DEF Abort, UpdateProfile, SubmitVerification, DecideVerification, OnProfile, Begin,
    CommitProfile, CommitVerification, CommitDecision, UpdateProperty, UpdateUnit, CreateUnit,
    DeleteUnit, CommitEdit, Finish, CheckProfile, CountUnits, Continue, CommitQuote, SetCharge,
    Idle, At, TypeOK
<1>4. ASSUME NEW s \in Sessions, CheckCharge(s)
      PROVE  status'[tx'[r].prop] \notin {"none", "draft"}
  BY <1>t, <1>4 DEF CheckCharge, Continue, At, SubmittedWhenDeciding, TypeOK
<1>5. ASSUME NEW s \in Sessions,
             CommitSubmit(s) \/ CommitApprove(s) \/ CommitReject(s) \/ CommitActivate(s)
      PROVE  status'[tx'[r].prop] \notin {"none", "draft"}
  <2>1. \E to \in {"pending_verification", "approved", "rejected", "active"} :
          status' = [status EXCEPT ![tx[s].prop] = to]
    BY <1>5 DEF CommitSubmit, CommitApprove, CommitReject, CommitActivate, SetStatus, AfterRejection
  <2>2. tx' = [tx EXCEPT ![s] = Idle]
    BY <1>5 DEF CommitSubmit, CommitApprove, CommitReject, CommitActivate, Finish
  <2> QED
    BY <1>t, <2>1, <2>2 DEF SubmittedWhenDeciding, TypeOK, Idle, At, PropertySteps, Steps
<1>6. ASSUME NEW s \in Sessions, NEW p \in Properties,
             \/ \E step \in {"update", "create_unit", "update_unit", "delete_unit"} :
                  Edit(s, p, step)
             \/ SubmitProperty(s, p)
      PROVE  status'[tx'[r].prop] \notin {"none", "draft"}
  BY <1>t, <1>1, <1>6 DEF Edit, SubmitProperty, OnProperty, Begin, At, TypeOK
<1>7. ASSUME NEW s \in Sessions, NEW p \in Properties,
             \/ ApproveProperty(s, p) \/ RejectProperty(s, p)
             \/ ActivateProperty(s, p) \/ QuoteAdvertCharge(s, p)
      PROVE  status'[tx'[r].prop] \notin {"none", "draft"}
  <2>1. status[p] \notin {"none", "draft"}
    BY <1>7 DEF ApproveProperty, RejectProperty, ActivateProperty, QuoteAdvertCharge,
      ReviewableStatus, QuotableStatus
  <2>2. UNCHANGED status /\ \E step \in Steps : tx' = [tx EXCEPT ![s] = At(step, p, None, revision[p])]
    BY <1>7 DEF ApproveProperty, RejectProperty, ActivateProperty, QuoteAdvertCharge, OnProperty, Begin,
      Steps
  <2> QED
    BY <1>t, <2>1, <2>2 DEF At, SubmittedWhenDeciding, TypeOK
<1>8. ASSUME NEW p \in Properties,
             \/ CreateProperty(p) \/ SubmitAdvertChargePayment(p)
             \/ ConfirmAdvertChargePayment(p) \/ RejectAdvertChargePayment(p)
      PROVE  status'[tx'[r].prop] \notin {"none", "draft"}
  BY <1>2, <1>8 DEF CreateProperty, SetStatus, SubmitAdvertChargePayment,
    ConfirmAdvertChargePayment, RejectAdvertChargePayment, SetCharge
<1>9. CASE UNCHANGED vars
  BY <1>t, <1>9 DEF vars, SubmittedWhenDeciding
<1> QED
  BY <1>3, <1>4, <1>5, <1>6, <1>7, <1>8, <1>9 DEF Next

\* No step takes back a charge that was verified or waived.
LEMMA SettledStays ==
  ASSUME TypeOK, [Next]_vars, NEW p \in Properties, charge[p] \in {"paid", "waived"}
  PROVE  charge'[p] \in {"paid", "waived"}
<1>1. CASE UNCHANGED charge
  BY <1>1
<1>2. ASSUME NEW s \in Sessions, NEW to \in {"quoted", "waived"}, CommitQuote(s, to)
      PROVE  charge'[p] \in {"paid", "waived"}
  BY <1>2 DEF CommitQuote, SetCharge, FinalCharge, TypeOK
<1>3. ASSUME NEW q \in Properties,
             \/ SubmitAdvertChargePayment(q)
             \/ ConfirmAdvertChargePayment(q)
             \/ RejectAdvertChargePayment(q)
      PROVE  charge'[p] \in {"paid", "waived"}
  BY <1>3 DEF SubmitAdvertChargePayment, ConfirmAdvertChargePayment, RejectAdvertChargePayment,
    SetCharge, PayableCharge, TypeOK
<1> QED
  BY <1>1, <1>2, <1>3 DEF Next, vars, Abort, UpdateProfile, SubmitVerification,
    DecideVerification, OnProfile, Begin, CommitProfile, CommitVerification, CommitDecision,
    UpdateProperty, UpdateUnit, CreateUnit, DeleteUnit, CommitEdit, CheckProfile, CountUnits,
    CheckCharge, Continue, CommitSubmit, CommitApprove, CommitReject, CommitActivate, SetStatus,
    Edit, SubmitProperty, ApproveProperty, RejectProperty, ActivateProperty, QuoteAdvertCharge,
    OnProperty, Begin, CreateProperty

\* Only these steps touch the status of a property.
LEMMA StatusChanges ==
  ASSUME [Next]_vars
  PROVE  \/ UNCHANGED status
         \/ \E p \in Properties : CreateProperty(p)
         \/ \E s \in Sessions : CommitSubmit(s) \/ CommitApprove(s) \/ CommitReject(s) \/ CommitActivate(s)
<1>1. ASSUME NEW s \in Sessions,
             \/ UpdateProfile(s) \/ SubmitVerification(s) \/ DecideVerification(s)
             \/ \E p \in Properties :
                  \/ \E step \in {"update", "create_unit", "update_unit", "delete_unit"} :
                       Edit(s, p, step)
                  \/ SubmitProperty(s, p) \/ ApproveProperty(s, p) \/ RejectProperty(s, p)
                  \/ ActivateProperty(s, p) \/ QuoteAdvertCharge(s, p)
      PROVE  UNCHANGED status
  BY <1>1 DEF UpdateProfile, SubmitVerification, DecideVerification, OnProfile, Edit, SubmitProperty,
    ApproveProperty, RejectProperty, ActivateProperty, QuoteAdvertCharge, OnProperty, Begin
<1>2. ASSUME NEW s \in Sessions,
             \/ Abort(s) \/ CommitProfile(s) \/ CommitVerification(s)
             \/ \E d \in {"approved", "rejected"} : CommitDecision(s, d)
             \/ UpdateProperty(s) \/ UpdateUnit(s)
             \/ \E u \in RentalUnits : CreateUnit(s, u) \/ DeleteUnit(s, u)
             \/ CheckProfile(s) \/ CountUnits(s) \/ CheckCharge(s)
             \/ \E to \in {"quoted", "waived"} : CommitQuote(s, to)
      PROVE  UNCHANGED status
  BY <1>2 DEF Abort, CommitProfile, CommitVerification, CommitDecision, UpdateProperty, UpdateUnit,
    CreateUnit, DeleteUnit, CommitEdit, CheckProfile, CountUnits, CheckCharge, Continue, CommitQuote,
    SetCharge
<1>3. ASSUME NEW p \in Properties,
             \/ SubmitAdvertChargePayment(p)
             \/ ConfirmAdvertChargePayment(p) \/ RejectAdvertChargePayment(p)
      PROVE  UNCHANGED status
  BY <1>3 DEF SubmitAdvertChargePayment, ConfirmAdvertChargePayment, RejectAdvertChargePayment,
    SetCharge
<1>4. CASE UNCHANGED vars
  BY <1>4 DEF vars
<1> QED
  BY <1>1, <1>2, <1>3, <1>4 DEF Next

\* A session reaches the activation only past the check of the charge, and a
\* property becomes active only by the commit of such a session.
LEMMA SettledStep ==
  ASSUME ListingInv, [Next]_vars PROVE SettledWhenActivating' /\ PaidForActive'
<1>t. TypeOK /\ SettledWhenActivating /\ PaidForActive /\ TypeOK'
  BY ListingType DEF ListingInv
<1>c. \A p \in Properties : charge[p] \in {"paid", "waived"} => charge'[p] \in {"paid", "waived"}
  BY <1>t, SettledStays
<1>a. ASSUME NEW s \in Sessions, tx[s].step = "activate" PROVE tx[s].prop \in Properties
  BY <1>t, <1>a DEF TypeOK, PropertySteps, Steps
<1>1. SettledWhenActivating'
  <2> SUFFICES ASSUME NEW r \in Sessions, tx'[r].step = "activate"
               PROVE  charge'[tx'[r].prop] \in {"paid", "waived"}
    BY DEF SettledWhenActivating
  <2>1. CASE tx'[r] = tx[r]
    BY <1>t, <1>c, <1>a, <2>1 DEF SettledWhenActivating
  <2>2. CASE CheckCharge(r)
    BY <1>t, <2>2 DEF CheckCharge, Continue, At, TypeOK, ActivatableCharge
  <2>3. ASSUME NEW s \in Sessions,
               \/ UpdateProfile(s) \/ SubmitVerification(s) \/ DecideVerification(s)
               \/ \E p \in Properties :
                    \/ \E step \in {"update", "create_unit", "update_unit", "delete_unit"} :
                         Edit(s, p, step)
                    \/ SubmitProperty(s, p) \/ ApproveProperty(s, p) \/ RejectProperty(s, p)
                    \/ ActivateProperty(s, p) \/ QuoteAdvertCharge(s, p)
        PROVE  tx'[r] = tx[r]
    <3>1. \E session : session.step # "activate" /\ tx' = [tx EXCEPT ![s] = session]
      BY <2>3 DEF UpdateProfile, SubmitVerification, DecideVerification, OnProfile, Edit,
        SubmitProperty, ApproveProperty, RejectProperty, ActivateProperty, QuoteAdvertCharge,
        OnProperty, Begin, At
    <3> QED
      BY <1>t, <3>1 DEF TypeOK
  <2>4. ASSUME NEW s \in Sessions, tx' = [tx EXCEPT ![s] = Idle] PROVE tx'[r] = tx[r]
    BY <1>t, <2>4 DEF TypeOK, Idle, At
  <2>5. ASSUME NEW s \in Sessions,
               \/ Abort(s) \/ CommitProfile(s) \/ CommitVerification(s)
               \/ \E d \in {"approved", "rejected"} : CommitDecision(s, d)
               \/ UpdateProperty(s) \/ UpdateUnit(s)
               \/ \E u \in RentalUnits : CreateUnit(s, u) \/ DeleteUnit(s, u)
               \/ CommitSubmit(s) \/ CommitApprove(s) \/ CommitReject(s) \/ CommitActivate(s)
               \/ \E to \in {"quoted", "waived"} : CommitQuote(s, to)
        PROVE  tx'[r] = tx[r]
    <3>1. tx' = [tx EXCEPT ![s] = Idle]
      BY <2>5 DEF Abort, CommitProfile, CommitVerification, CommitDecision, UpdateProperty,
        UpdateUnit, CreateUnit, DeleteUnit, CommitEdit, CommitSubmit, CommitApprove, CommitReject,
        CommitActivate, CommitQuote, Finish
    <3> QED
      BY <2>4, <3>1
  <2>6. ASSUME NEW s \in Sessions, CheckProfile(s) \/ CountUnits(s) PROVE tx'[r] = tx[r]
    BY <1>t, <2>6 DEF CheckProfile, CountUnits, Continue, At, TypeOK
  <2>7. ASSUME NEW s \in Sessions, CheckCharge(s) PROVE tx'[r] = tx[r] \/ CheckCharge(r)
    BY <1>t, <2>7 DEF CheckCharge, Continue, At, TypeOK
  <2>8. ASSUME NEW p \in Properties,
               \/ CreateProperty(p) \/ SubmitAdvertChargePayment(p)
               \/ ConfirmAdvertChargePayment(p) \/ RejectAdvertChargePayment(p)
        PROVE  tx'[r] = tx[r]
    BY <2>8 DEF CreateProperty, SubmitAdvertChargePayment, ConfirmAdvertChargePayment,
      RejectAdvertChargePayment
  <2>9. CASE UNCHANGED vars
    BY <2>1, <2>9 DEF vars
  <2> QED
    BY <1>t, <2>1, <2>2, <2>3, <2>4, <2>5, <2>6, <2>7, <2>8, <2>9 DEF Next
<1>2. PaidForActive'
  <2> SUFFICES ASSUME NEW p \in Properties, status'[p] = "active"
               PROVE  charge'[p] \in {"paid", "waived"}
    BY DEF PaidForActive
  <2>1. CASE status[p] = "active"
    BY <1>t, <1>c, <2>1 DEF PaidForActive
  <2>2. ASSUME NEW s \in Sessions, CommitActivate(s), p = tx[s].prop
        PROVE  charge'[p] \in {"paid", "waived"}
    BY <1>t, <1>c, <2>2 DEF CommitActivate, Finish, SettledWhenActivating
  <2>3. CASE UNCHANGED status
    BY <2>1, <2>3
  <2>4. ASSUME NEW q \in Properties, CreateProperty(q) PROVE charge'[p] \in {"paid", "waived"}
    BY <1>t, <2>1, <2>4 DEF CreateProperty, SetStatus, TypeOK
  <2>5. ASSUME NEW s \in Sessions, CommitSubmit(s) \/ CommitApprove(s) \/ CommitReject(s)
        PROVE  charge'[p] \in {"paid", "waived"}
    BY <1>t, <2>1, <2>5 DEF CommitSubmit, CommitApprove, CommitReject, SetStatus, AfterRejection, TypeOK
  <2>6. ASSUME NEW s \in Sessions, CommitActivate(s) PROVE charge'[p] \in {"paid", "waived"}
    <3>1. status[p] = "active" \/ p = tx[s].prop
      BY <1>t, <2>6 DEF CommitActivate, SetStatus, TypeOK
    <3> QED
      BY <2>1, <2>2, <2>6, <3>1
  <2> QED
    BY <2>3, <2>4, <2>5, <2>6, StatusChanges
<1> QED
  BY <1>1, <1>2

\* Every reachable state satisfies the invariant.
THEOREM ListingInvariant == Spec => []ListingInv
<1>1. Init => ListingInv
  BY ListingInit
<1>2. ListingInv /\ [Next]_vars => ListingInv'
  BY ListingType, SubmittedStep, SettledStep DEF ListingInv
<1> QED
  BY <1>1, <1>2, PTL DEF Spec

\* Every column always holds a value of its type, and only a property that
\* was submitted has a charge.
THEOREM ListingTypes == Spec => []TypeOK
<1>1. ListingInv => TypeOK
  BY DEF ListingInv
<1> QED
  BY <1>1, ListingInvariant, PTL

\* However many requests interleave, what is on the market is paid for.
THEOREM MarketIsPaidFor == Spec => []PaidForActive
<1>1. ListingInv => PaidForActive
  BY DEF ListingInv
<1> QED
  BY <1>1, ListingInvariant, PTL

\* A decision in hand is never one about a draft, so only a submission can
\* change a draft's status.
LEMMA DraftStep ==
  ASSUME ListingInv, [Next]_vars, NEW p \in Properties, status[p] = "draft"
  PROVE  status'[p] \in {"draft", "pending_verification"}
<1>t. TypeOK /\ SubmittedWhenDeciding
  BY DEF ListingInv
<1>1. CASE UNCHANGED status
  BY <1>1
<1>2. ASSUME NEW q \in Properties, CreateProperty(q)
      PROVE  status'[p] \in {"draft", "pending_verification"}
  BY <1>t, <1>2 DEF CreateProperty, SetStatus, TypeOK
<1>3. ASSUME NEW s \in Sessions, CommitSubmit(s)
      PROVE  status'[p] \in {"draft", "pending_verification"}
  BY <1>t, <1>3 DEF CommitSubmit, SetStatus, TypeOK
<1>4. ASSUME NEW s \in Sessions, CommitApprove(s) \/ CommitReject(s) \/ CommitActivate(s)
      PROVE  status'[p] \in {"draft", "pending_verification"}
  <2>1. tx[s].prop # p
    BY <1>t, <1>4 DEF CommitApprove, CommitReject, CommitActivate, Finish, SubmittedWhenDeciding,
      Decisions
  <2> QED
    BY <1>t, <1>4, <2>1 DEF CommitApprove, CommitReject, CommitActivate, SetStatus, TypeOK
<1> QED
  BY <1>1, <1>2, <1>3, <1>4, StatusChanges

\* No decision about an earlier version reaches a draft.
THEOREM DraftsAreSubmitted == Spec => DraftIsSubmittedFirst
<1> DEFINE A == \A p \in Properties :
                  status[p] = "draft" => status'[p] \in {"draft", "pending_verification"}
<1>1. ListingInv /\ [Next]_vars => [A]_vars
  BY DraftStep
<1> QED
  BY <1>1, ListingInvariant, PTL DEF Spec, DraftIsSubmittedFirst

\* As long as no request overlaps another, at most one is being served, and
\* what it read is still so when it commits.
EditorSteps == {"update", "create_unit", "update_unit", "delete_unit",
                "submit_profile", "submit_units", "submit"}

StillTrue(s) ==
  /\ tx[s].step = "profile" => tx[s].saw = verification
  /\ tx[s].step = "verify" => verification \in {"not_submitted", "rejected"}
  /\ tx[s].step = "decide" => verification = "pending"
  /\ tx[s].step \in EditorSteps => status[tx[s].prop] \in EditableStatus
  /\ tx[s].step \in {"submit_units", "submit"} => verification = "approved"
  /\ tx[s].step = "submit" => units[tx[s].prop] # {}
  /\ tx[s].step = "approve" => /\ status[tx[s].prop] = "pending_verification"
                               /\ tx[s].seen = revision[tx[s].prop]
  /\ tx[s].step \in {"activate_charge", "activate"} => status[tx[s].prop] = "approved"

Alone(s) == \A r \in Sessions \ {s} : tx[r] = Idle

OneByOne ==
  ~overlapped => \A s \in Sessions : tx[s] # Idle => Alone(s) /\ StillTrue(s)

SoundInv == OneByOne /\ ListingIsSound

\* A request that begins alone finds what it has just read.
LEMMA BeginStep ==
  ASSUME TypeOK, SoundInv, NEW s \in Sessions, NEW session, Begin(s, session),
         tx'[s] = session => StillTrue(s)'
  PROVE  SoundInv'
<1>1. ListingIsSound'
  BY DEF SoundInv, ListingIsSound, Begin, profileVars, contentVars
<1>2. ASSUME ~overlapped' PROVE Alone(s)' /\ StillTrue(s)'
  BY <1>2 DEF Begin, Alone, TypeOK
<1>3. ASSUME ~overlapped', NEW r \in Sessions \ {s} PROVE tx'[r] = Idle
  BY <1>3 DEF Begin, TypeOK
<1> QED
  BY <1>1, <1>2, <1>3 DEF SoundInv, OneByOne

\* A request that ends leaves all sessions idle.
LEMMA EndStep ==
  ASSUME TypeOK, OneByOne, NEW s \in Sessions, tx[s] # Idle,
         tx' = [tx EXCEPT ![s] = Idle], UNCHANGED overlapped
  PROVE  OneByOne'
BY DEF OneByOne, Alone, TypeOK

\* What the steps that end a request, or change a charge, leave sound.
LEMMA SoundStep ==
  ASSUME TypeOK, TypeOK', SoundInv, [Next]_vars PROVE SoundInv'
<1> USE DEF profileVars, contentVars
<1>t. TypeOK /\ TypeOK' /\ OneByOne /\ ListingIsSound
  BY DEF SoundInv
\* The session s is the only one, and what it read is still so.
<1>f. ASSUME NEW s \in Sessions, tx[s].step # "idle", ~overlapped
      PROVE  Alone(s) /\ StillTrue(s)
  BY <1>t, <1>f DEF OneByOne, Idle, At
<1>1. ASSUME NEW s \in Sessions, Abort(s) PROVE SoundInv'
  <2>1. OneByOne'
    BY <1>t, <1>1, EndStep DEF Abort
  <2> QED
    BY <1>t, <1>1, <2>1 DEF Abort, SoundInv, ListingIsSound
<1>2. ASSUME NEW s \in Sessions, UpdateProfile(s) \/ SubmitVerification(s) \/ DecideVerification(s)
      PROVE  SoundInv'
  <2>1. \E session : Begin(s, session) /\ (tx'[s] = session => StillTrue(s)')
    BY <1>t, <1>2 DEF UpdateProfile, SubmitVerification, DecideVerification, OnProfile, Begin, At,
      StillTrue, EditorSteps
  <2> QED
    BY <1>t, <2>1, BeginStep DEF SoundInv
<1>3. ASSUME NEW s \in Sessions, NEW p \in Properties,
             \/ \E step \in {"update", "create_unit", "update_unit", "delete_unit"} :
                  Edit(s, p, step)
             \/ SubmitProperty(s, p) \/ ApproveProperty(s, p) \/ RejectProperty(s, p)
             \/ ActivateProperty(s, p) \/ QuoteAdvertCharge(s, p)
      PROVE  SoundInv'
  <2>1. \E session : Begin(s, session) /\ (tx'[s] = session => StillTrue(s)')
    BY <1>t, <1>3 DEF Edit, SubmitProperty, ApproveProperty, RejectProperty, ActivateProperty,
      QuoteAdvertCharge, OnProperty, Begin, At, StillTrue, EditorSteps
  <2> QED
    BY <1>t, <2>1, BeginStep DEF SoundInv
\* The profile: no listing of the landlord is beyond its draft when its
\* verification changes.
<1>4. ASSUME NEW s \in Sessions,
             \/ CommitProfile(s) \/ CommitVerification(s)
             \/ \E d \in {"approved", "rejected"} : CommitDecision(s, d)
      PROVE  SoundInv'
  <2>1. OneByOne'
    BY <1>t, <1>4, EndStep DEF CommitProfile, CommitVerification, CommitDecision, Finish, Idle, At
  <2>2. ASSUME ~overlapped PROVE verification = "approved" => verification' = "approved"
    BY <1>4, <1>f, <2>2 DEF CommitProfile, CommitVerification, CommitDecision, Finish, StillTrue
  <2>3. ListingIsSound'
    BY <1>t, <1>4, <2>2 DEF CommitProfile, CommitVerification, CommitDecision, ListingIsSound
  <2> QED
    BY <2>1, <2>3 DEF SoundInv
\* Edits: the listing is still a draft or rejected.
<1>5. ASSUME NEW s \in Sessions, NEW step \in EditorSteps, NEW rows, CommitEdit(s, step, rows)
      PROVE  SoundInv'
  <2>a. tx[s] # Idle
    BY <1>5 DEF CommitEdit, Finish, Idle, At, EditorSteps
  <2>1. OneByOne'
    BY <1>t, <1>5, <2>a, EndStep DEF CommitEdit, Finish
  <2>2. ASSUME ~overlapped PROVE status[tx[s].prop] \in {"draft", "rejected"}
    BY <1>5, <1>f, <2>2 DEF CommitEdit, Finish, StillTrue, EditorSteps, EditableStatus
  <2>3. ListingIsSound'
    BY <1>t, <1>5, <2>2 DEF CommitEdit, ListingIsSound, TypeOK
  <2> QED
    BY <2>1, <2>3 DEF SoundInv
<1>6. ASSUME NEW s \in Sessions,
             \/ UpdateProperty(s) \/ UpdateUnit(s)
             \/ \E u \in RentalUnits : CreateUnit(s, u) \/ DeleteUnit(s, u)
      PROVE  SoundInv'
  <2>1. \E step \in EditorSteps : \E rows : CommitEdit(s, step, rows)
    BY <1>6 DEF UpdateProperty, UpdateUnit, CreateUnit, DeleteUnit, EditorSteps
  <2> QED
    BY <2>1, <1>5
<1>7. ASSUME NEW s \in Sessions, CheckProfile(s) \/ CountUnits(s) \/ CheckCharge(s)
      PROVE  SoundInv'
  <2>1. ListingIsSound'
    BY <1>t, <1>7 DEF CheckProfile, CountUnits, CheckCharge, Continue, ListingIsSound
  <2>2. ASSUME ~overlapped PROVE StillTrue(s)' /\ \A r \in Sessions \ {s} : tx'[r] = Idle
    BY <1>t, <1>7, <1>f, <2>2 DEF CheckProfile, CountUnits, CheckCharge, Continue, At, StillTrue,
      Alone, EditorSteps, TypeOK
  <2> QED
    BY <1>7, <2>1, <2>2 DEF SoundInv, OneByOne, Alone, CheckProfile, CountUnits, CheckCharge,
      Continue
<1>8. ASSUME NEW s \in Sessions,
             CommitSubmit(s) \/ CommitApprove(s) \/ CommitReject(s) \/ CommitActivate(s)
      PROVE  SoundInv'
  <2>1. OneByOne'
    BY <1>t, <1>8, EndStep DEF CommitSubmit, CommitApprove, CommitReject, CommitActivate, Finish,
      Idle, At
  <2>2. tx[s].step # "idle" /\ tx[s].prop \in Properties
    BY <1>t, <1>8 DEF CommitSubmit, CommitApprove, CommitReject, CommitActivate, Finish, TypeOK,
      PropertySteps, Steps
  <2>3. CASE CommitSubmit(s)
    BY <1>t, <1>f, <2>1, <2>2, <2>3 DEF CommitSubmit, Finish, SetStatus, StillTrue, SoundInv,
      ListingIsSound, TypeOK
  <2>4. CASE CommitApprove(s)
    BY <1>t, <1>f, <2>1, <2>2, <2>4 DEF CommitApprove, Finish, SetStatus, StillTrue, SoundInv,
      ListingIsSound, TypeOK
  <2>5. CASE CommitReject(s)
    BY <1>t, <2>1, <2>2, <2>5 DEF CommitReject, Finish, SetStatus, AfterRejection, SoundInv,
      ListingIsSound, TypeOK
  <2>6. CASE CommitActivate(s)
    BY <1>t, <1>f, <2>1, <2>2, <2>6 DEF CommitActivate, Finish, SetStatus, StillTrue, SoundInv,
      ListingIsSound, TypeOK
  <2> QED
    BY <1>8, <2>3, <2>4, <2>5, <2>6
<1>9. ASSUME NEW s \in Sessions, NEW to \in {"quoted", "waived"}, CommitQuote(s, to)
      PROVE  SoundInv'
  <2>a. tx[s] # Idle
    BY <1>9 DEF CommitQuote, Finish, Idle, At
  <2>1. OneByOne'
    BY <1>t, <1>9, <2>a, EndStep DEF CommitQuote, Finish, SetCharge
  <2> QED
    BY <1>t, <1>9, <2>1 DEF CommitQuote, SetCharge, SoundInv, ListingIsSound
\* A new property, and the charges, touch nothing a request relies on.
<1>10. ASSUME NEW p \in Properties,
              \/ CreateProperty(p) \/ SubmitAdvertChargePayment(p)
              \/ ConfirmAdvertChargePayment(p) \/ RejectAdvertChargePayment(p)
       PROVE  SoundInv'
  <2>1. UNCHANGED <<tx, overlapped, profileVars, contentVars, reviewed>>
    BY <1>10 DEF CreateProperty, SetStatus, SubmitAdvertChargePayment,
      ConfirmAdvertChargePayment, RejectAdvertChargePayment, SetCharge
  <2>2. UNCHANGED status \/ (status[p] = "none" /\ status' = [status EXCEPT ![p] = "draft"])
    BY <1>10 DEF CreateProperty, SetStatus, SubmitAdvertChargePayment,
      ConfirmAdvertChargePayment, RejectAdvertChargePayment, SetCharge
  <2>3. ListingIsSound'
    BY <1>t, <2>1, <2>2 DEF ListingIsSound, TypeOK
  <2>4. ASSUME NEW s \in Sessions, StillTrue(s) PROVE StillTrue(s)'
    BY <1>t, <2>1, <2>2, <2>4 DEF StillTrue, EditorSteps, EditableStatus, TypeOK, PropertySteps,
      Steps
  <2> QED
    BY <1>t, <2>1, <2>3, <2>4 DEF SoundInv, OneByOne, Alone
<1>11. CASE UNCHANGED vars
  BY <1>t, <1>11 DEF vars, SoundInv, OneByOne, Alone, StillTrue, ListingIsSound
<1> QED
  BY <1>1, <1>2, <1>3, <1>4, <1>6, <1>7, <1>8, <1>9, <1>10, <1>11 DEF Next

\* As long as requests are served one at a time, what is under review,
\* approved or on the market is sound, for any number of listings and units.
THEOREM ListingsAreSound == Spec => []ListingIsSound
<1>1. Init => SoundInv
  BY DEF Init, SoundInv, OneByOne, ListingIsSound
<1>2. TypeOK /\ TypeOK' /\ SoundInv /\ [Next]_vars => SoundInv'
  BY SoundStep
<1>3. SoundInv => ListingIsSound
  BY DEF SoundInv
<1> QED
  BY <1>1, <1>2, <1>3, ListingTypes, PTL DEF Spec
=============================================================================
