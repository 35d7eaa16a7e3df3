-------------------------- MODULE PaymentClaimsProofs --------------------------
(***************************************************************************)
(* Claims, amounts and provider events stay consistent however many forms, *)
(* callbacks and decisions interleave, for any sources, references,        *)
(* callbacks and requests.  The argument is the one of the locks: what a   *)
(* transaction has read under a row lock or inserted under a key nobody    *)
(* else changes before it ends (Kept), so that at its commit the source is *)
(* still payable, the reference still unclaimed and the event still new    *)
(* (Sound).                                                                *)
(***************************************************************************)
EXTENDS PaymentClaims, TLAPS

\* No row or key is locked twice.
LocksAreExclusive ==
  \A r, x \in Requests : r # x => tx[r].held \cap tx[x].held = {}

\* A transaction on a callback has its new event, one of a form has a typed
\* reference to move to review.
BeginsSound(r) ==
  LET t == tx[r] IN
  /\ t.step = "idle" => t = Idle
  /\ t.step # "idle" => t.source \in Sources
  /\ t.callback # None =>
       /\ EventKey(t.callback.event) \in t.held
       /\ events[t.callback.event] = "none"
       /\ t.source = t.callback.source /\ t.ref = t.callback.ref
  /\ t.step = "source" =>
       t.callback # None /\ t.callback.outcome = "paid" /\ ~t.moves /\ t.verdict = None
  /\ t.step \notin {"idle", "source"} /\ t.callback # None => t.verdict \in Verdicts
  /\ t.step # "idle" /\ t.callback = None => t.ref \in FormReferences /\ t.moves

\* A transaction that will move its source has it locked and payable, for the
\* amount that is asked; at its commit it has inserted its claim.
MovesSound(r) ==
  LET t == tx[r] IN
  /\ t.step \in {"claim", "lookup"} => t.moves
  /\ t.moves =>
       /\ SourceLock(t.source) \in t.held
       /\ t.ref \in References
       /\ status[t.source] \in PayableStatus
       /\ t.callback # None => t.callback.outcome = "paid"
                               /\ amount[t.source] = t.callback.amount
  /\ t.moves /\ t.step = "commit" => ClaimKey(t.ref) \in t.held /\ claims[t.ref] = None

\* One that reports an event as processed and moves nothing has found the
\* payment applied, and has it locked.
AppliesSound(r) ==
  LET t == tx[r] IN
  ~t.moves /\ t.verdict = "processed" =>
    /\ t.callback # None /\ t.step = "commit"
    /\ SourceLock(t.source) \in t.held
    /\ ref[t.source] = t.ref /\ status[t.source] \in Settled

Sound(r) == BeginsSound(r) /\ MovesSound(r) /\ AppliesSound(r)

\* The inductive invariant.
PaymentInv ==
  /\ TypeOK /\ LocksAreExclusive
  /\ \A r \in Requests : Sound(r)
  /\ ClaimsFollowPayments /\ ProviderMoneyIsAsked

\* The actions of a request, and those of people and clocks.
Requested(r) ==
  \/ \E s \in Sources, k \in FormReferences : SubmitPayment(r, s, k)
  \/ \E c \in Callbacks : Receive(r, c)
  \/ Statement(r)
  \/ Abort(r)

Decided ==
  \/ \E s \in Sources :
       \/ ConfirmPayment(s)
       \/ RejectPayment(s)
       \/ EndUnpaid(s)
       \/ DeadlinePasses(s)
       \/ \E a \in Amounts : QuoteCharge(s, a)
  \/ \E e \in Events : ResolveEvent(e)

\* Nothing changes that the locks of r protect.
Kept(r) ==
  /\ \A s \in Sources : SourceLock(s) \in tx[r].held =>
       status'[s] = status[s] /\ ref'[s] = ref[s] /\ amount'[s] = amount[s]
  /\ \A k \in References : ClaimKey(k) \in tx[r].held /\ claims[k] = None => claims'[k] = None
  /\ \A e \in Events : EventKey(e) \in tx[r].held /\ events[e] = "none" => events'[e] = "none"

\* What the parts of a transaction are.
LEMMA TransactionParts ==
  ASSUME TypeOK, NEW r \in Requests
  PROVE  /\ tx[r] \in Transaction
         /\ tx[r].callback # None => /\ tx[r].callback \in Callback
                                     /\ tx[r].callback.event \in Events
                                     /\ tx[r].callback.source \in Sources
                                     /\ tx[r].callback.ref \in References \cup {None}
BY CallbackAssumption DEF TypeOK, Transaction, Callback, References

\* A transaction stays sound while it does nothing and what it locked is kept.
LEMMA SoundStays ==
  ASSUME TypeOK, NEW r \in Requests, Sound(r), tx'[r] = tx[r], Kept(r)
  PROVE  Sound(r)'
<1> DEFINE t == tx[r]
<1>t. /\ t.callback # None => t.callback.event \in Events /\ t.source \in Sources
      /\ t.moves => t.source \in Sources
  BY TransactionParts DEF Sound, BeginsSound, MovesSound, Idle
<1>1. BeginsSound(r)'
  BY <1>t DEF Sound, BeginsSound, Kept
<1>2. MovesSound(r)'
  BY <1>t DEF Sound, MovesSound, Kept
<1>3. AppliesSound(r)'
  BY <1>t DEF Sound, AppliesSound, Kept
<1> QED
  BY <1>1, <1>2, <1>3 DEF Sound

\* A request that does nothing is sound.
LEMMA IdleIsSound ==
  ASSUME NEW r \in Requests, tx[r] = Idle PROVE Sound(r)
<1>1. /\ Idle.step = "idle" /\ Idle.callback = None
      /\ Idle.moves = FALSE /\ Idle.verdict = None
  BY DEF Idle
<1>2. None # "processed"
  BY CallbackAssumption DEF Verdicts
<1> QED
  BY <1>1, <1>2 DEF Sound, BeginsSound, MovesSound, AppliesSound

\* The first state satisfies the invariant.
LEMMA PaymentInit == Init => PaymentInv
<1> SUFFICES ASSUME Init PROVE PaymentInv
  OBVIOUS
<1> USE CallbackAssumption DEF Init, Idle
<1>1. tx \in [Requests -> Transaction]
  BY DEF Transaction
<1>2. TypeOK
  BY <1>1 DEF TypeOK, PaymentStatus, ChargeStatus, Settled, ReviewStatus, Sources, References
<1>3. LocksAreExclusive
  BY DEF LocksAreExclusive
<1>4. ASSUME NEW r \in Requests PROVE Sound(r)
  <2>1. tx[r] = Idle
    OBVIOUS
  <2> QED
    BY <2>1, IdleIsSound
<1>5. ClaimsFollowPayments /\ ProviderMoneyIsAsked
  BY DEF ClaimsFollowPayments, ProviderMoneyIsAsked, Sources, References, Settled, ReviewStatus
<1> QED
  BY <1>2, <1>3, <1>4, <1>5 DEF PaymentInv

\* A request that advances to another record keeps the type of tx.
LEMMA BecomesTyped ==
  ASSUME TypeOK, NEW r \in Requests, NEW t \in Transaction, Become(r, t)
  PROVE  tx' \in [Requests -> Transaction]
BY DEF TypeOK, Become

\* Every statement of a request leaves a transaction record.
LEMMA RequestTyped ==
  ASSUME PaymentInv, NEW r \in Requests, Requested(r)
  PROVE  tx' \in [Requests -> Transaction]
<1> USE DEF PaymentInv
<1>i. Idle \in Transaction
  BY DEF Idle, Transaction
<1>t. tx[r] \in Transaction
  BY TransactionParts
<1>1. ASSUME NEW s \in Sources, NEW k \in FormReferences, SubmitPayment(r, s, k)
      PROVE  tx' \in [Requests -> Transaction]
  <2>1. [Idle EXCEPT !.step = "claim", !.source = s, !.ref = k,
                     !.moves = TRUE, !.held = {SourceLock(s)}] \in Transaction
    BY DEF Idle, Transaction, References
  <2> QED
    BY <1>1, <2>1, BecomesTyped DEF SubmitPayment
<1>2. ASSUME NEW c \in Callbacks, Receive(r, c) PROVE tx' \in [Requests -> Transaction]
  <2>1. c \in Callback
    BY CallbackAssumption
  <2>2. Verdict(c) \in Verdicts \cup {None}
    BY <2>1 DEF Verdict, Verdicts, Callback, Outcomes
  <2>3. [Idle EXCEPT !.step = IF Verdict(c) = None THEN "source" ELSE "commit",
                     !.source = c.source, !.ref = c.ref, !.callback = c,
                     !.verdict = Verdict(c), !.held = {EventKey(c.event)}] \in Transaction
    BY <2>1, <2>2 DEF Idle, Transaction, References, Callback
  <2> QED
    BY <1>2, <2>3, BecomesTyped DEF Receive
<1>3. CASE LockSource(r)
  <2>1. tx[r].callback \in Callback
    BY <1>3, TransactionParts DEF LockSource, At, Sound, BeginsSound
  <2>2. ASSUME NEW step \in {"commit", "claim"}, NEW moves \in BOOLEAN,
               NEW verdict \in {"processed", "manual_review"}
        PROVE  [tx[r] EXCEPT !.step = step, !.moves = moves, !.verdict = verdict,
                  !.held = @ \cup {SourceLock(tx[r].callback.source)}] \in Transaction
    BY <1>t, <2>1 DEF Transaction, Callback, Verdicts
  <2> QED
    BY <1>3, <2>2, BecomesTyped DEF LockSource
<1>4. CASE InsertClaim(r)
  <2>1. tx[r].ref \in References
    BY <1>4 DEF InsertClaim, At, Sound, MovesSound
  <2>2. [tx[r] EXCEPT !.step = "commit", !.held = @ \cup {ClaimKey(tx[r].ref)}] \in Transaction
    BY <1>t, <2>1 DEF Transaction
  <2>3. [tx[r] EXCEPT !.step = "lookup"] \in Transaction
    BY <1>t DEF Transaction
  <2> QED
    BY <1>4, <2>2, <2>3, BecomesTyped DEF InsertClaim
<1>5. CASE LookUpClaim(r)
  <2>1. [tx[r] EXCEPT !.step = "commit"] \in Transaction
    BY <1>t DEF Transaction
  <2>2. [tx[r] EXCEPT !.step = "commit", !.moves = FALSE, !.verdict = "manual_review"] \in Transaction
    BY <1>t DEF Transaction, Verdicts
  <2> QED
    BY <1>5, <1>i, <2>1, <2>2, BecomesTyped DEF LookUpClaim
<1>6. CASE Commit(r)
  BY <1>6, <1>i, BecomesTyped DEF Commit
<1>7. CASE Abort(r)
  BY <1>7, <1>i, BecomesTyped DEF Abort
<1> QED
  BY <1>1, <1>2, <1>3, <1>4, <1>5, <1>6, <1>7 DEF Requested, Statement

\* What a request does to the tables: its commit moves its source into review
\* under its reference, anything else changes nothing.
LEMMA RequestWrites ==
  ASSUME PaymentInv, NEW r \in Requests, Requested(r)
  PROVE  /\ amount' = amount /\ late' = late
         /\ \/ status' = status /\ ref' = ref /\ claims' = claims
            \/ Commit(r) /\ tx[r].moves
         /\ \/ events' = events
            \/ Commit(r) /\ tx[r].callback # None
<1>1. CASE Commit(r)
  <2>1. amount' = amount /\ late' = late
    BY <1>1 DEF Commit
  <2>2. tx[r].moves \/ (status' = status /\ ref' = ref /\ claims' = claims)
    BY <1>1 DEF Commit
  <2>3. events' = events \/ tx[r].callback # None
    BY <1>1 DEF Commit
  <2> QED
    BY <1>1, <2>1, <2>2, <2>3
<1>2. ASSUME ~Commit(r) PROVE UNCHANGED <<tables, late>>
  <2>1. ASSUME NEW s \in Sources, NEW k \in FormReferences, SubmitPayment(r, s, k)
        PROVE  UNCHANGED <<tables, late>>
    BY <2>1 DEF SubmitPayment
  <2>2. ASSUME NEW c \in Callbacks, Receive(r, c) PROVE UNCHANGED <<tables, late>>
    BY <2>2 DEF Receive
  <2>3. CASE LockSource(r)
    BY <2>3 DEF LockSource
  <2>4. CASE InsertClaim(r)
    BY <2>4 DEF InsertClaim
  <2>5. CASE LookUpClaim(r)
    BY <2>5 DEF LookUpClaim
  <2>6. CASE Abort(r)
    BY <2>6 DEF Abort
  <2> QED
    BY <1>2, <2>1, <2>2, <2>3, <2>4, <2>5, <2>6 DEF Requested, Statement
<1>3. CASE ~Commit(r)
  BY <1>2, <1>3 DEF tables
<1> QED
  BY <1>1, <1>3

\* A commit that moves its source.
LEMMA MoveWrites ==
  ASSUME PaymentInv, NEW r \in Requests, Commit(r), tx[r].moves
  PROVE  LET s == tx[r].source
             k == tx[r].ref
         IN /\ s \in Sources /\ k \in References
            /\ status[s] \in PayableStatus /\ claims[k] = None
            /\ SourceLock(s) \in tx[r].held /\ ClaimKey(k) \in tx[r].held
            /\ status' = [status EXCEPT ![s] = InReview(s)]
            /\ ref' = [ref EXCEPT ![s] = k]
            /\ claims' = [claims EXCEPT ![k] = s]
BY DEF PaymentInv, Sound, BeginsSound, MovesSound, Commit, At

\* Every step keeps the types, and the reference of each source with its status.
LEMMA PaymentTyped == ASSUME PaymentInv, [Next]_vars PROVE TypeOK'
<1> USE DEF PaymentInv
<1>1. ASSUME NEW r \in Requests, Requested(r) PROVE TypeOK'
  <2>1. tx' \in [Requests -> Transaction] /\ UNCHANGED <<amount, late>>
    BY <1>1, RequestTyped, RequestWrites
  <2>2. events' \in [Events -> {"none", "recorded", "processed", "manual_review", "resolved"}]
    <3>1. CASE UNCHANGED events
      BY <3>1 DEF TypeOK
    <3>2. CASE Commit(r) /\ tx[r].callback # None
      <4>1. tx[r].verdict \in Verdicts
        BY <3>2, TransactionParts DEF Commit, At, Sound, BeginsSound
      <4> QED
        BY <3>2, <4>1, TransactionParts DEF Commit, TypeOK, Verdicts
    <3> QED
      BY <1>1, <3>1, <3>2, RequestWrites
  <2>3. CASE UNCHANGED <<status, ref, claims>>
    BY <2>1, <2>2, <2>3 DEF TypeOK
  <2>4. CASE Commit(r) /\ tx[r].moves
    <3> DEFINE s == tx[r].source
    <3>1. s \in Sources /\ InReview(s) \in IF s \in Bookings THEN PaymentStatus ELSE ChargeStatus
      BY <2>4, MoveWrites DEF InReview, PaymentStatus, ChargeStatus
    <3>2. InReview(s) \in Settled
      BY DEF InReview, Settled, ReviewStatus
    <3>3. tx[r].ref # None
      BY <2>4, MoveWrites, CallbackAssumption
    <3> QED
      BY <2>1, <2>2, <2>4, <3>1, <3>2, <3>3, MoveWrites DEF TypeOK
  <2> QED
    BY <1>1, <2>3, <2>4, RequestWrites
<1>2. ASSUME NEW s \in Sources, ConfirmPayment(s) PROVE TypeOK'
  BY <1>2, CallbackAssumption DEF ConfirmPayment, Decide, TypeOK, Settled, ReviewStatus, PaymentStatus, ChargeStatus, Sources
<1>3. ASSUME NEW s \in Sources, RejectPayment(s) PROVE TypeOK'
  BY <1>3, CallbackAssumption DEF RejectPayment, AfterRejection, Decide, TypeOK, Settled, ReviewStatus, PaymentStatus, ChargeStatus, Sources
<1>4. ASSUME NEW s \in Sources, EndUnpaid(s) PROVE TypeOK'
  BY <1>4, CallbackAssumption DEF EndUnpaid, Decide, TypeOK, Settled, ReviewStatus, PaymentStatus, ChargeStatus, Sources
<1>5. ASSUME NEW s \in Sources, DeadlinePasses(s) PROVE TypeOK'
  BY <1>5 DEF DeadlinePasses, TypeOK, tables
<1>6. ASSUME NEW s \in Sources, NEW a \in Amounts, QuoteCharge(s, a) PROVE TypeOK'
  BY <1>6, CallbackAssumption DEF QuoteCharge, Decide, TypeOK, Quotable, Settled, ReviewStatus, PaymentStatus, ChargeStatus, Sources
<1>7. ASSUME NEW e \in Events, ResolveEvent(e) PROVE TypeOK'
  BY <1>7 DEF ResolveEvent, TypeOK
<1>8. CASE UNCHANGED vars
  BY <1>8 DEF vars, tables, TypeOK
<1> QED
  BY <1>1, <1>2, <1>3, <1>4, <1>5, <1>6, <1>7, <1>8 DEF Next, Requested

\* A request changes its own record only, and takes locks that are free.
LEMMA RequestLocks ==
  ASSUME PaymentInv, NEW r \in Requests, Requested(r)
  PROVE  /\ \A x \in Requests \ {r} : tx'[x] = tx[x]
         /\ \A l \in tx'[r].held : l \in tx[r].held \/ Free(l)
<1> USE DEF Become
<1>t. tx \in [Requests -> Transaction] /\ Idle.held = {}
  BY DEF PaymentInv, TypeOK, Idle
<1>b. ASSUME NEW t, Become(r, t)
      PROVE  tx'[r] = t /\ \A x \in Requests \ {r} : tx'[x] = tx[x]
  BY <1>t, <1>b
<1>h. ASSUME Become(r, Idle)
      PROVE  /\ \A x \in Requests \ {r} : tx'[x] = tx[x]
             /\ \A l \in tx'[r].held : l \in tx[r].held \/ Free(l)
  BY <1>b, <1>h, <1>t
<1> USE DEF Transaction
<1>1. ASSUME NEW s \in Sources, NEW k \in FormReferences, SubmitPayment(r, s, k)
      PROVE  /\ \A x \in Requests \ {r} : tx'[x] = tx[x]
             /\ \A l \in tx'[r].held : l \in tx[r].held \/ Free(l)
  BY <1>1, <1>t DEF SubmitPayment, Idle
<1>2. ASSUME NEW c \in Callbacks, Receive(r, c)
      PROVE  /\ \A x \in Requests \ {r} : tx'[x] = tx[x]
             /\ \A l \in tx'[r].held : l \in tx[r].held \/ Free(l)
  BY <1>2, <1>t DEF Receive, NewEvent, Idle
<1>3. CASE LockSource(r)
  <2> DEFINE l == SourceLock(tx[r].callback.source)
  <2>a. tx[r] \in Transaction
    BY <1>t
  <2>b. PICK step \in {"commit", "claim"}, moves \in BOOLEAN,
             verdict \in {"processed", "manual_review"} :
               tx' = [tx EXCEPT ![r] = [tx[r] EXCEPT !.step = step, !.moves = moves,
                                          !.verdict = verdict, !.held = @ \cup {l}]]
    BY <1>3 DEF LockSource
  <2>c. tx'[r].held = tx[r].held \cup {l}
    BY <1>t, <2>a, <2>b
  <2>1. tx'[r].held = tx[r].held \cup {l} /\ Free(l)
    BY <1>3, <2>c DEF LockSource
  <2>2. \A x \in Requests \ {r} : tx'[x] = tx[x]
    BY <1>3, <1>t DEF LockSource
  <2> QED
    BY <2>1, <2>2
<1>4. CASE InsertClaim(r)
  <2>1. tx'[r].held \subseteq tx[r].held \cup {ClaimKey(tx[r].ref)} /\ Free(ClaimKey(tx[r].ref))
    <3>a. tx[r] \in Transaction
      BY <1>t
    <3>1. CASE tx' = [tx EXCEPT ![r] = [tx[r] EXCEPT !.step = "commit",
                                          !.held = @ \cup {ClaimKey(tx[r].ref)}]]
      BY <1>4, <1>t, <3>1, <3>a DEF InsertClaim
    <3>2. CASE tx' = [tx EXCEPT ![r] = [tx[r] EXCEPT !.step = "lookup"]]
      BY <1>4, <1>t, <3>2, <3>a DEF InsertClaim
    <3> QED
      BY <1>4, <3>1, <3>2 DEF InsertClaim
  <2>2. \A x \in Requests \ {r} : tx'[x] = tx[x]
    BY <1>4, <1>t DEF InsertClaim
  <2> QED
    BY <2>1, <2>2
<1>5. CASE LookUpClaim(r)
  <2>1. tx'[r].held \subseteq tx[r].held
    BY <1>5, <1>t DEF LookUpClaim
  <2>2. \A x \in Requests \ {r} : tx'[x] = tx[x]
    BY <1>5, <1>t DEF LookUpClaim
  <2> QED
    BY <2>1, <2>2
<1>6. CASE Commit(r)
  BY <1>6, <1>h DEF Commit
<1>7. CASE Abort(r)
  BY <1>7, <1>h DEF Abort
<1> QED
  BY <1>1, <1>2, <1>3, <1>4, <1>5, <1>6, <1>7 DEF Requested, Statement

\* A lock is taken only while it is free, so no two transactions hold it.
LEMMA LocksStayExclusive == ASSUME PaymentInv, [Next]_vars PROVE LocksAreExclusive'
<1>1. ASSUME NEW r \in Requests, Requested(r) PROVE LocksAreExclusive'
  BY <1>1, RequestLocks DEF PaymentInv, LocksAreExclusive, Free
<1>2. ASSUME tx' = tx PROVE LocksAreExclusive'
  BY <1>2 DEF PaymentInv, LocksAreExclusive
<1>3. Decided \/ UNCHANGED vars => tx' = tx
  BY DEF Decided, ConfirmPayment, RejectPayment, EndUnpaid, DeadlinePasses, QuoteCharge,
         ResolveEvent, vars
<1> QED
  BY <1>1, <1>2, <1>3 DEF Next, Requested, Decided

\* A request keeps what the others have locked.
LEMMA RequestsKeep ==
  ASSUME PaymentInv, NEW r \in Requests, Requested(r), NEW x \in Requests \ {r}
  PROVE  Kept(x)
<1>e. tx[r].held \cap tx[x].held = {}
  BY DEF PaymentInv, LocksAreExclusive
<1>1. \A e \in Events : EventKey(e) \in tx[x].held /\ events[e] = "none" => events'[e] = "none"
  <2>1. CASE Commit(r) /\ tx[r].callback # None
    <3>1. EventKey(tx[r].callback.event) \in tx[r].held
      BY <2>1 DEF PaymentInv, Sound, BeginsSound
    <3>2. events' = [events EXCEPT ![tx[r].callback.event] = tx[r].verdict]
      BY <2>1 DEF Commit
    <3> QED
      BY <1>e, <3>1, <3>2 DEF PaymentInv, TypeOK
  <2> QED
    BY <2>1, RequestWrites
<1>2. CASE status' = status /\ ref' = ref /\ claims' = claims
  BY <1>1, <1>2, RequestWrites DEF Kept
<1>3. CASE Commit(r) /\ tx[r].moves
  BY <1>1, <1>3, <1>e, MoveWrites, RequestWrites DEF Kept, PaymentInv, TypeOK
<1> QED
  BY <1>2, <1>3, RequestWrites

\* A decision waits for the lock of its source, only frees claims, and only
\* closes events that are under manual review.
LEMMA DecisionsKeep ==
  ASSUME PaymentInv, Decided, NEW x \in Requests
  PROVE  tx' = tx /\ Kept(x)
<1> USE DEF PaymentInv, TypeOK
<1>1. ASSUME NEW s \in Sources, ConfirmPayment(s) PROVE tx' = tx /\ Kept(x)
  BY <1>1 DEF ConfirmPayment, Decide, Free, Kept
<1>2. ASSUME NEW s \in Sources, RejectPayment(s) PROVE tx' = tx /\ Kept(x)
  BY <1>2 DEF RejectPayment, AfterRejection, Decide, Free, Kept
<1>3. ASSUME NEW s \in Sources, EndUnpaid(s) PROVE tx' = tx /\ Kept(x)
  BY <1>3 DEF EndUnpaid, Decide, Free, Kept
<1>4. ASSUME NEW s \in Sources, DeadlinePasses(s) PROVE tx' = tx /\ Kept(x)
  BY <1>4 DEF DeadlinePasses, tables, Kept
<1>5. ASSUME NEW s \in Sources, NEW a \in Amounts, QuoteCharge(s, a) PROVE tx' = tx /\ Kept(x)
  BY <1>5 DEF QuoteCharge, Decide, Free, Kept
<1>6. ASSUME NEW e \in Events, ResolveEvent(e) PROVE tx' = tx /\ Kept(x)
  BY <1>6 DEF ResolveEvent, Kept
<1> QED
  BY <1>1, <1>2, <1>3, <1>4, <1>5, <1>6 DEF Decided

\* Every statement leaves its own transaction sound.
LEMMA StatementsAreSound ==
  ASSUME PaymentInv, NEW r \in Requests, Requested(r)
  PROVE  Sound(r)'
<1> USE DEF Become
<1>t. tx \in [Requests -> Transaction] /\ tx[r] \in Transaction
  BY TransactionParts DEF PaymentInv, TypeOK
<1>s. Sound(r) /\ TypeOK
  BY DEF PaymentInv
<1>i. ASSUME tx'[r] = Idle PROVE Sound(r)'
  <2>1. /\ Idle.step = "idle" /\ Idle.callback = None
        /\ Idle.moves = FALSE /\ Idle.verdict = None
    BY DEF Idle
  <2>2. None # "processed"
    BY CallbackAssumption DEF Verdicts
  <2> QED
    BY <1>i, <2>1, <2>2 DEF Sound, BeginsSound, MovesSound, AppliesSound
<1>1. ASSUME NEW s \in Sources, NEW k \in FormReferences, SubmitPayment(r, s, k)
      PROVE  Sound(r)'
  <2>1. /\ tx'[r].step = "claim" /\ tx'[r].source = s /\ tx'[r].ref = k
        /\ tx'[r].callback = None /\ tx'[r].moves = TRUE /\ tx'[r].verdict = None
        /\ tx'[r].held = {SourceLock(s)}
    BY <1>1, <1>t DEF SubmitPayment, Idle
  <2>2. status'[s] \in PayableStatus
    BY <1>1 DEF SubmitPayment, Payable, tables
  <2>3. None # "processed"
    BY CallbackAssumption DEF Verdicts
  <2> QED
    BY <2>1, <2>2, <2>3 DEF Sound, BeginsSound, MovesSound, AppliesSound, References
<1>2. ASSUME NEW c \in Callbacks, Receive(r, c) PROVE Sound(r)'
  <2>1. /\ tx'[r].step = IF Verdict(c) = None THEN "source" ELSE "commit"
        /\ tx'[r].source = c.source /\ tx'[r].ref = c.ref /\ tx'[r].callback = c
        /\ tx'[r].moves = FALSE /\ tx'[r].verdict = Verdict(c)
        /\ tx'[r].held = {EventKey(c.event)}
    BY <1>2, <1>t DEF Receive, Idle
  <2>2. c \in Callback /\ events'[c.event] = "none"
    BY <1>2, CallbackAssumption DEF Receive, NewEvent, tables
  <2>3. c # None /\ None \notin Verdicts
    BY CallbackAssumption
  <2>4. /\ Verdict(c) = None => c.outcome = "paid"
        /\ Verdict(c) \in {"recorded", "manual_review", None}
    BY <2>2, <2>3 DEF Verdict, Verdicts, Callback, Outcomes
  <2> QED
    BY <2>1, <2>2, <2>3, <2>4
    DEF Sound, BeginsSound, MovesSound, AppliesSound, Callback, Verdicts
<1>3. CASE LockSource(r)
  <2> DEFINE c == tx[r].callback
  <2>1. /\ c \in Callback /\ c # None /\ c.source = tx[r].source /\ c.ref = tx[r].ref
        /\ c.outcome = "paid" /\ EventKey(c.event) \in tx[r].held /\ events[c.event] = "none"
    BY <1>3, <1>s, TransactionParts DEF LockSource, At, Sound, BeginsSound
  <2>2. UNCHANGED <<tables, late>>
    BY <1>3 DEF LockSource
  <2>3. /\ c.source \in Sources /\ c.ref \in References \cup {None}
        /\ MoneyMatches(c) => c.amount = amount[c.source] /\ c.ref \in References
    BY <2>1 DEF Callback, References, MoneyMatches
  <2> DEFINE Locked(step, moves, verdict) ==
        tx' = [tx EXCEPT ![r] = [tx[r] EXCEPT !.step = step, !.moves = moves,
                 !.verdict = verdict, !.held = @ \cup {SourceLock(c.source)}]]
  <2>4. ASSUME NEW step \in {"commit", "claim"}, NEW moves \in BOOLEAN,
               NEW verdict \in {"processed", "manual_review"}, Locked(step, moves, verdict)
        PROVE  /\ tx'[r].step = step /\ tx'[r].moves = moves /\ tx'[r].verdict = verdict
               /\ tx'[r].held = tx[r].held \cup {SourceLock(c.source)}
               /\ tx'[r].callback = c /\ tx'[r].source = c.source /\ tx'[r].ref = c.ref
    BY <1>t, <2>1, <2>4 DEF Transaction
  <2>5. CASE Locked("commit", FALSE, "processed") /\ Applied(c)
    <3>1. /\ tx'[r].step = "commit" /\ tx'[r].moves = FALSE /\ tx'[r].verdict = "processed"
          /\ tx'[r].held = tx[r].held \cup {SourceLock(c.source)}
          /\ tx'[r].callback = c /\ tx'[r].source = c.source /\ tx'[r].ref = c.ref
      BY <2>4, <2>5
    <3> QED
      BY <2>1, <2>2, <2>3, <2>5, <3>1
      DEF Sound, BeginsSound, MovesSound, AppliesSound, Applied, tables, Verdicts
  <2>6. CASE Locked("claim", TRUE, "processed") /\ MoneyMatches(c) /\ Payable(c.source)
    <3>1. /\ tx'[r].step = "claim" /\ tx'[r].moves = TRUE /\ tx'[r].verdict = "processed"
          /\ tx'[r].held = tx[r].held \cup {SourceLock(c.source)}
          /\ tx'[r].callback = c /\ tx'[r].source = c.source /\ tx'[r].ref = c.ref
      BY <2>4, <2>6
    <3> QED
      BY <2>1, <2>2, <2>3, <2>6, <3>1
      DEF Sound, BeginsSound, MovesSound, AppliesSound, Payable, tables, Verdicts
  <2>7. CASE Locked("commit", FALSE, "manual_review")
    <3>1. /\ tx'[r].step = "commit" /\ tx'[r].moves = FALSE /\ tx'[r].verdict = "manual_review"
          /\ tx'[r].held = tx[r].held \cup {SourceLock(c.source)}
          /\ tx'[r].callback = c /\ tx'[r].source = c.source /\ tx'[r].ref = c.ref
      BY <2>4, <2>7
    <3> QED
      BY <2>1, <2>2, <2>3, <3>1
      DEF Sound, BeginsSound, MovesSound, AppliesSound, tables, Verdicts
  <2> QED
    BY <1>3, <2>5, <2>6, <2>7 DEF LockSource
<1>4. CASE InsertClaim(r)
  <2>1. tx[r].step = "claim" /\ UNCHANGED <<tables, late>>
    BY <1>4 DEF InsertClaim, At
  <2>2. PICK step \in {"commit", "lookup"}, held \in SUBSET (tx[r].held \cup {ClaimKey(tx[r].ref)}) :
          /\ tx' = [tx EXCEPT ![r] = [tx[r] EXCEPT !.step = step, !.held = held]]
          /\ tx[r].held \subseteq held
          /\ step = "commit" => claims[tx[r].ref] = None /\ ClaimKey(tx[r].ref) \in held
    <3>1. CASE claims[tx[r].ref] = None
      BY <1>4, <1>t, <3>1 DEF InsertClaim
    <3>2. CASE claims[tx[r].ref] # None
      <4>1. [tx[r] EXCEPT !.step = "lookup"] = [tx[r] EXCEPT !.step = "lookup", !.held = tx[r].held]
        BY <1>t DEF Transaction
      <4> QED
        BY <1>4, <3>2, <4>1 DEF InsertClaim
    <3> QED
      BY <3>1, <3>2
  <2>3. /\ tx'[r].step = step /\ tx'[r].held = held
        /\ tx'[r].moves = tx[r].moves /\ tx'[r].verdict = tx[r].verdict
        /\ tx'[r].callback = tx[r].callback
        /\ tx'[r].source = tx[r].source /\ tx'[r].ref = tx[r].ref
    BY <1>t, <2>2 DEF Transaction
  <2> QED
    BY <1>s, <2>1, <2>2, <2>3 DEF Sound, BeginsSound, MovesSound, AppliesSound, tables
<1>5. CASE LookUpClaim(r)
  <2>1. tx[r].step = "lookup" /\ UNCHANGED <<tables, late>>
    BY <1>5 DEF LookUpClaim, At
  <2>2. ~OwnClaim(r)
    BY <1>s, <2>1 DEF PaymentInv, ClaimsFollowPayments, OwnClaim, Sound, BeginsSound, MovesSound,
                      PayableStatus, Settled, ReviewStatus
  <2>3. CASE Refused(r)
    BY <1>5, <1>t, <1>i, <2>2, <2>3 DEF LookUpClaim
  <2>4. CASE ~Refused(r)
    <3>1. tx' = [tx EXCEPT ![r] = [tx[r] EXCEPT !.step = "commit", !.moves = FALSE,
                                                !.verdict = "manual_review"]]
      BY <1>5, <2>2, <2>4 DEF LookUpClaim
    <3>2. /\ tx'[r].step = "commit" /\ tx'[r].held = tx[r].held
          /\ tx'[r].moves = FALSE /\ tx'[r].verdict = "manual_review"
          /\ tx'[r].callback = tx[r].callback
          /\ tx'[r].source = tx[r].source /\ tx'[r].ref = tx[r].ref
      BY <1>t, <3>1 DEF Transaction
    <3>3. tx[r].callback # None
      BY <2>4 DEF Refused
    <3> QED
      BY <1>s, <2>1, <3>2, <3>3 DEF Sound, BeginsSound, MovesSound, AppliesSound, tables, Verdicts
  <2> QED
    BY <2>3, <2>4
<1>6. CASE Commit(r)
  BY <1>6, <1>t, <1>i DEF Commit
<1>7. CASE Abort(r)
  BY <1>7, <1>t, <1>i DEF Abort
<1> QED
  BY <1>1, <1>2, <1>3, <1>4, <1>5, <1>6, <1>7 DEF Requested, Statement

\* Every step leaves every transaction sound.
LEMMA SoundStep ==
  ASSUME PaymentInv, [Next]_vars, NEW x \in Requests
  PROVE  Sound(x)'
<1>s. Sound(x) /\ TypeOK
  BY DEF PaymentInv
<1>1. ASSUME NEW r \in Requests, Requested(r) PROVE Sound(x)'
  <2>1. CASE x = r
    BY <1>1, <2>1, StatementsAreSound
  <2>2. CASE x # r
    BY <1>1, <1>s, <2>2, RequestsKeep, RequestLocks, SoundStays
  <2> QED
    BY <2>1, <2>2
<1>2. CASE Decided
  BY <1>2, <1>s, DecisionsKeep, SoundStays
<1>3. CASE UNCHANGED vars
  BY <1>3, <1>s, SoundStays DEF vars, tables, Kept
<1> QED
  BY <1>1, <1>2, <1>3 DEF Next, Requested, Decided

\* A commit gives the reference to the payment that quotes it, whose old
\* reference no claim stands for; a rejection takes the claim with it; and a
\* charge that is quoted anew had no claim.
LEMMA ClaimsStep ==
  ASSUME PaymentInv, [Next]_vars
  PROVE  ClaimsFollowPayments'
<1>t. TypeOK /\ ClaimsFollowPayments /\ None \notin Sources \cup References
  BY CallbackAssumption DEF PaymentInv
<1> USE <1>t DEF ClaimsFollowPayments, TypeOK
<1>1. ASSUME NEW r \in Requests, Requested(r) PROVE ClaimsFollowPayments'
  <2>1. CASE status' = status /\ ref' = ref /\ claims' = claims
    BY <2>1
  <2>2. CASE Commit(r) /\ tx[r].moves
    <3> DEFINE s == tx[r].source
               k == tx[r].ref
    <3>1. /\ s \in Sources /\ k \in References
          /\ status[s] \notin Settled /\ claims[k] = None
          /\ status' = [status EXCEPT ![s] = InReview(s)]
          /\ ref' = [ref EXCEPT ![s] = k]
          /\ claims' = [claims EXCEPT ![k] = s]
      BY <2>2, MoveWrites DEF PayableStatus, Settled, ReviewStatus
    <3>2. InReview(s) \in Settled
      BY DEF InReview, Settled, ReviewStatus
    <3>3. ASSUME NEW j \in References, NEW q \in Sources
          PROVE  claims'[j] = q <=> ref'[q] = j /\ status'[q] \in Settled
      <4>1. CASE q = s
        BY <3>1, <3>2, <4>1
      <4>2. CASE q # s
        BY <3>1, <4>2
      <4> QED
        BY <4>1, <4>2
    <3> QED
      BY <3>3
  <2> QED
    BY <1>1, <2>1, <2>2, RequestWrites
<1>2. ASSUME NEW s \in Sources, ConfirmPayment(s) PROVE ClaimsFollowPayments'
  BY <1>2 DEF ConfirmPayment, Decide, Settled, ReviewStatus
<1>3. ASSUME NEW s \in Sources, RejectPayment(s) PROVE ClaimsFollowPayments'
  <2>1. /\ claims' = [k \in References |-> IF k = ref[s] /\ claims[k] = s THEN None ELSE claims[k]]
        /\ ref' = ref /\ status[s] \in Settled
        /\ status' = [status EXCEPT ![s] =
             IF s \in Bookings THEN "rejected" ELSE "payment_rejected"]
    BY <1>3 DEF RejectPayment, AfterRejection, Decide, Settled
  <2>2. status'[s] \notin Settled
    BY <2>1 DEF Settled, ReviewStatus
  <2>3. ASSUME NEW j \in References, NEW q \in Sources
        PROVE  claims'[j] = q <=> ref'[q] = j /\ status'[q] \in Settled
    <3>1. CASE q = s
      BY <2>1, <2>2, <3>1
    <3>2. CASE q # s
      BY <2>1, <3>2
    <3> QED
      BY <3>1, <3>2
  <2> QED
    BY <2>3
<1>4. ASSUME NEW s \in Sources, EndUnpaid(s) PROVE ClaimsFollowPayments'
  BY <1>4 DEF EndUnpaid, Decide, Settled, ReviewStatus
<1>5. ASSUME NEW s \in Sources, DeadlinePasses(s) PROVE ClaimsFollowPayments'
  BY <1>5 DEF DeadlinePasses, tables
<1>6. ASSUME NEW s \in Sources, NEW a \in Amounts, QuoteCharge(s, a) PROVE ClaimsFollowPayments'
  BY <1>6 DEF QuoteCharge, Decide, Quotable, Settled, ReviewStatus
<1>7. ASSUME NEW e \in Events, ResolveEvent(e) PROVE ClaimsFollowPayments'
  BY <1>7 DEF ResolveEvent
<1>8. CASE UNCHANGED vars
  BY <1>8 DEF vars, tables
<1> QED
  BY <1>1, <1>2, <1>3, <1>4, <1>5, <1>6, <1>7, <1>8 DEF Next, Requested

\* A commit moves the money of its callback, whose amount it has checked under
\* the lock of the source; a quote changes no amount that is under review.
LEMMA MoneyStep ==
  ASSUME PaymentInv, [Next]_vars
  PROVE  ProviderMoneyIsAsked'
<1>t. TypeOK /\ ProviderMoneyIsAsked
  BY DEF PaymentInv
<1>a. FormReferences \cap ProviderReferences = {} /\ None \notin ProviderReferences
  BY CallbackAssumption DEF References
<1> USE <1>t DEF ProviderMoneyIsAsked, TypeOK
<1>1. ASSUME NEW r \in Requests, Requested(r) PROVE ProviderMoneyIsAsked'
  <2>1. CASE status' = status /\ ref' = ref
    BY <1>1, <2>1, RequestWrites
  <2>2. CASE Commit(r) /\ tx[r].moves
    <3> DEFINE s == tx[r].source
               k == tx[r].ref
               c == tx[r].callback
    <3>1. /\ s \in Sources /\ k \in References /\ amount' = amount
          /\ status' = [status EXCEPT ![s] = InReview(s)]
          /\ ref' = [ref EXCEPT ![s] = k]
      BY <1>1, <2>2, MoveWrites, RequestWrites
    <3>2. c = None => k \in FormReferences
      BY <2>2 DEF PaymentInv, Sound, BeginsSound, Commit, At
    <3>3. c # None => /\ c \in Callbacks /\ c.outcome = "paid" /\ c.source = s
                      /\ c.ref = k /\ c.amount = amount[s]
      BY <2>2, TransactionParts DEF PaymentInv, Sound, BeginsSound, MovesSound, Transaction
    <3>4. ASSUME NEW q \in Sources, ref'[q] \in ProviderReferences, status'[q] \in Settled
          PROVE  \E d \in Callbacks : /\ d.outcome = "paid" /\ d.source = q
                                      /\ d.ref = ref'[q] /\ d.amount = amount'[q]
      <4>1. CASE q = s
        BY <1>a, <3>1, <3>2, <3>3, <3>4, <4>1
      <4>2. CASE q # s
        BY <3>1, <3>4, <4>2
      <4> QED
        BY <4>1, <4>2
    <3> QED
      BY <3>4
  <2> QED
    BY <1>1, <2>1, <2>2, RequestWrites
<1>2. ASSUME NEW s \in Sources, ConfirmPayment(s) PROVE ProviderMoneyIsAsked'
  BY <1>2 DEF ConfirmPayment, Decide, Settled, ReviewStatus
<1>3. ASSUME NEW s \in Sources, RejectPayment(s) PROVE ProviderMoneyIsAsked'
  BY <1>3 DEF RejectPayment, Decide, Settled, ReviewStatus
<1>4. ASSUME NEW s \in Sources, EndUnpaid(s) PROVE ProviderMoneyIsAsked'
  BY <1>4 DEF EndUnpaid, Decide, Settled, ReviewStatus
<1>5. ASSUME NEW s \in Sources, DeadlinePasses(s) PROVE ProviderMoneyIsAsked'
  BY <1>5 DEF DeadlinePasses, tables
<1>6. ASSUME NEW s \in Sources, NEW a \in Amounts, QuoteCharge(s, a) PROVE ProviderMoneyIsAsked'
  BY <1>a, <1>6 DEF QuoteCharge, Decide
<1>7. ASSUME NEW e \in Events, ResolveEvent(e) PROVE ProviderMoneyIsAsked'
  BY <1>7 DEF ResolveEvent
<1>8. CASE UNCHANGED vars
  BY <1>8 DEF vars, tables
<1> QED
  BY <1>1, <1>2, <1>3, <1>4, <1>5, <1>6, <1>7, <1>8 DEF Next, Requested

\* The inductive invariant holds in every reachable state.
LEMMA PaymentInvariant == Spec => []PaymentInv
<1>1. PaymentInv /\ [Next]_vars => PaymentInv'
  <2> SUFFICES ASSUME PaymentInv, [Next]_vars PROVE PaymentInv'
    OBVIOUS
  <2>1. TypeOK' /\ LocksAreExclusive' /\ ClaimsFollowPayments' /\ ProviderMoneyIsAsked'
    BY PaymentTyped, LocksStayExclusive, ClaimsStep, MoneyStep
  <2>2. ASSUME NEW x \in Requests PROVE Sound(x)'
    BY SoundStep
  <2> QED
    BY <2>1, <2>2 DEF PaymentInv
<1> QED
  BY PaymentInit, <1>1, PTL DEF Spec
-----------------------------------------------------------------------------
\* Every payment, charge, claim, event and transaction has its type, and only
\* a source whose payment was handed in has a reference
\* (bookings.py submit_payment, payment_providers.py, admin.py).
THEOREM PaymentsTypeCorrect == Spec => []TypeOK
BY PaymentInvariant, PTL DEF PaymentInv

\* A reference is claimed by exactly the payment under review or accepted that
\* quotes it: no reference backs two payments (payments.py
\* claim_payment_reference, the triggers of migration 0013).
THEOREM ClaimsFollowPaymentsHolds == Spec => []ClaimsFollowPayments
BY PaymentInvariant, PTL DEF PaymentInv

\* Provider money under review or accepted is the amount that is asked, for
\* every order of callbacks, quotes and decisions (payment_providers.py
\* _process_booking_paid, _process_advert_paid).
THEOREM ProviderMoneyIsAskedHolds == Spec => []ProviderMoneyIsAsked
BY PaymentInvariant, PTL DEF PaymentInv

\* A callback moves a payment only while its event is new: repetitions and
\* concurrent deliveries of it move nothing (payment_providers.py
\* process_provider_event).
THEOREM EventActsOnceHolds == Spec => EventActsOnce
<1> DEFINE Acts == \A r \in Requests : LET c == tx[r].callback IN
             c # None /\ tx'[r] = Idle /\ tables' # tables => events[c.event] = "none"
<1>1. PaymentInv => Acts
  BY DEF PaymentInv, Sound, BeginsSound
<1>2. PaymentInv /\ [Next]_vars => [Acts]_vars
  BY <1>1
<1> QED
  BY <1>2, PaymentInvariant, PTL DEF Spec, EventActsOnce

\* An event becomes processed only together with, or after, the payment it
\* names (payment_providers.py process_provider_event).
THEOREM ProcessedIsAppliedHolds == Spec => ProcessedIsApplied
<1> DEFINE Applies == \A c \in Callbacks :
             events[c.event] = "none" /\ events'[c.event] = "processed" =>
               \E d \in Callbacks : /\ d.event = c.event
                                    /\ ref'[d.source] = d.ref /\ status'[d.source] \in Settled
<1>1. ASSUME PaymentInv, Next, NEW c \in Callbacks,
             events[c.event] = "none", events'[c.event] = "processed"
      PROVE  \E d \in Callbacks : /\ d.event = c.event
                                  /\ ref'[d.source] = d.ref /\ status'[d.source] \in Settled
  <2>1. PICK r \in Requests : Requested(r)
    <3>1. Decided => events'[c.event] # "processed"
      <4>1. ASSUME NEW e \in Events, ResolveEvent(e) PROVE events'[c.event] # "processed"
        BY <1>1, <4>1 DEF ResolveEvent, PaymentInv, TypeOK
      <4>2. ASSUME events' = events PROVE events'[c.event] # "processed"
        BY <1>1, <4>2
      <4> QED
        BY <4>1, <4>2 DEF Decided, ConfirmPayment, RejectPayment, EndUnpaid, DeadlinePasses,
                          QuoteCharge, tables
    <3> QED
      BY <1>1, <3>1 DEF Next, Requested, Decided
  <2> DEFINE d == tx[r].callback
             s == tx[r].source
  <2>2. Commit(r) /\ d # None
    BY <1>1, <2>1, RequestWrites
  <2>3. /\ d \in Callbacks /\ d.event \in Events /\ d.source = s /\ d.ref = tx[r].ref
        /\ events' = [events EXCEPT ![d.event] = tx[r].verdict]
    BY <1>1, <2>2, TransactionParts
    DEF PaymentInv, Sound, BeginsSound, Commit, Transaction
  <2>4. d.event = c.event /\ tx[r].verdict = "processed"
    BY <1>1, <2>3 DEF PaymentInv, TypeOK
  <2>5. ref'[s] = tx[r].ref /\ status'[s] \in Settled
    <3>1. CASE tx[r].moves
      <4>1. s \in Sources /\ InReview(s) \in Settled
        BY <1>1, <2>2, <3>1, MoveWrites DEF InReview, Settled, ReviewStatus
      <4> QED
        BY <1>1, <2>2, <3>1, <4>1, MoveWrites DEF PaymentInv, TypeOK
    <3>2. CASE ~tx[r].moves
      BY <1>1, <2>2, <2>4, <3>2 DEF PaymentInv, Sound, AppliesSound, Commit
    <3> QED
      BY <3>1, <3>2
  <2> QED
    BY <2>3, <2>4, <2>5
<1>2. PaymentInv /\ Next => Applies
  BY <1>1
<1>3. PaymentInv /\ UNCHANGED vars => [Applies]_vars
  OBVIOUS
<1>4. PaymentInv /\ [Next]_vars => [Applies]_vars
  BY <1>2, <1>3
<1> QED
  BY <1>4, PaymentInvariant, PTL DEF Spec, ProcessedIsApplied
=============================================================================
