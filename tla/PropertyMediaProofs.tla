--------------------------- MODULE PropertyMediaProofs ---------------------------
(***************************************************************************)
(* The images of a property, for any keys, units and any number of         *)
(* requests: one cover, an object for every row, and a choice of a cover   *)
(* that repairs what it finds.  An UPDATE that saw every row has, at its   *)
(* commit, every cover locked, unless another was set that it could not    *)
(* see; a deletion knows whether its row is the cover as long as nothing   *)
(* else committed; a row is deleted or reconfirmed under its key, which is *)
(* what ObjectsSound says of each request in progress; and who deletes a   *)
(* unit has, at its commit, every image of the unit locked.                *)
(***************************************************************************)
EXTENDS PropertyMedia, TLAPS, FiniteSetTheorems

\* The steps of each kind of request, and what it has seen and locked at them.
Shape(t) ==
  /\ t.kind = "none" <=> t.step = "idle"
  /\ t.kind = "none" => t = Idle
  /\ t.kind \in {"confirm", "cover", "delete"} => t.key \in issued
  /\ t.kind = "unit" => t.unit \in Units
  /\ t.kind = "confirm" => t.step \in {"head", "count", "clear", "clearing", "commit"}
  /\ t.kind = "cover" => t.step \in {"clear", "clearing", "commit"}
  /\ t.kind = "delete" => t.step \in {"delete", "replace", "commit", "storage"}
  /\ t.kind = "unit" => t.step \in {"unit", "cascade", "commit"}
  /\ t.kind = "cover" => t.covers
  /\ t.step \in {"clear", "clearing", "replace"} => t.covers
  /\ t.step \notin {"commit", "replace"} => t.held = {}
  /\ t.kind = "confirm" /\ ~t.covers => t.held = {}
  /\ t.kind = "delete" => t.held \subseteq {t.key}
  /\ t.other # None => t.kind = "delete" /\ t.covers /\ t.step \in {"commit", "storage"}
  /\ t.saw \subseteq rows
  /\ ~Clears(t) => t.saw = {}
  /\ Clears(t) /\ t.step = "commit" => t.held = t.saw

\* Who clears the covers saw them all.
ClearsSound(t) == Clears(t) /\ ~t.stale => cover \subseteq t.saw

\* While nothing else commits, was_cover is true of the table, the row is
\* locked, and another row replaces it if there is one.
DeletesSound(t) ==
  t.kind = "delete" /\ t.step \in {"delete", "replace", "commit"} /\ ~t.stale =>
    /\ t.covers <=> t.key \in cover
    /\ t.covers /\ t.step \in {"replace", "commit"} => t.held = {t.key}
    /\ t.covers /\ t.step = "commit" /\ ~disturbed =>
         \/ t.other \in rows \ {t.key}
         \/ t.other = None /\ rows = {t.key}

\* What is confirmed has its object; what is deleted has no row left but the
\* one that the deletion has locked.
ObjectsSound(t) ==
  ~reconfirmed =>
    /\ t.kind = "confirm" /\ t.step # "head" => t.key \in objects
    /\ t.kind = "delete" /\ t.step \in {"replace", "commit"} => rows \cap {t.key} \subseteq t.held
    /\ t.kind = "delete" /\ t.step = "storage" => t.key \notin rows

\* Who deletes a unit has its images locked when it commits.
UnitSound(t) ==
  t.kind = "unit" /\ t.step = "commit" /\ t.unit \in units =>
    \A k \in rows : unitOf[k] = t.unit => k \in t.held

Sound(t) == Shape(t) /\ ClearsSound(t) /\ DeletesSound(t) /\ ObjectsSound(t) /\ UnitSound(t)

\* One cover, said without counting.
CoverIsOne ==
  ~disturbed => IF rows = {} \/ uncovered THEN cover = {} ELSE \E k \in rows : cover = {k}

\* The inductive invariant.
MediaInv ==
  /\ TypeOK /\ CoverIsOne /\ RowsHaveObjects
  /\ \A r \in Requests : Sound(tx[r])
-----------------------------------------------------------------------------
\* A free request is sound in every state.
LEMMA IdleIsSound == Idle \in Transaction /\ Sound(Idle)
  BY DEF Idle, Transaction, Sound, Shape, ClearsSound, DeletesSound, ObjectsSound, UnitSound, Clears

\* Nobody else has locked what a request has; locks exclude both ways.
LEMMA LocksExclude ==
  ASSUME MediaInv, NEW r \in Requests, NEW x \in Requests, x # r
  PROVE  tx[r].held \cap tx[x].held = {}
  BY DEF MediaInv, TypeOK, Free

\* Advance, which every statement but a commit is: the invariant is kept if the
\* transaction becomes a sound one with locks that nobody else has.
LEMMA AdvanceKeeps ==
  ASSUME MediaInv, NEW r \in Requests, NEW t \in Transaction, Advance(r, t),
         Sound(t), t.held \subseteq rows, Free(r, t.held)
  PROVE  MediaInv'
  <1>1. /\ editable' = editable /\ units' = units /\ issued' = issued /\ objects' = objects
        /\ rows' = rows /\ unitOf' = unitOf /\ cover' = cover
        /\ disturbed' = disturbed /\ uncovered' = uncovered /\ reconfirmed' = reconfirmed
        /\ tx' = [tx EXCEPT ![r] = t]
    BY DEF Advance, Become, table, history
  <1>2. tx \in [Requests -> Transaction]
    BY DEF MediaInv, TypeOK
  <1>3. tx' \in [Requests -> Transaction] /\ \A x \in Requests : tx'[x] = IF x = r THEN t ELSE tx[x]
    BY <1>1, <1>2
  <1>4. TypeOK'
    <2>1. \A x \in Requests : tx'[x].held \subseteq rows
      BY <1>3 DEF MediaInv, TypeOK
    <2>2. ASSUME NEW x \in Requests, NEW y \in Requests \ {x}
          PROVE  tx'[y].held \cap tx'[x].held = {}
      <3>1. CASE x # r /\ y # r
        BY <3>1, <1>3, LocksExclude
      <3>2. CASE x = r
        BY <3>2, <1>3 DEF Free
      <3>3. CASE y = r
        BY <3>3, <1>3 DEF Free
      <3>4. QED
        BY <3>1, <3>2, <3>3
    <2>3. QED
      BY <1>1, <1>3, <2>1, <2>2 DEF MediaInv, TypeOK, Free
  <1>5. CoverIsOne' /\ RowsHaveObjects'
    BY <1>1 DEF MediaInv, CoverIsOne, RowsHaveObjects
  <1>6. ASSUME NEW x \in Requests
        PROVE  Sound(tx[x])'
    <2>1. Sound(tx'[x])
      BY <1>3 DEF MediaInv
    <2>2. QED
      BY <1>1, <2>1 DEF Sound, Shape, ClearsSound, DeletesSound, ObjectsSound,
     UnitSound, Clears
  <1>7. QED
    BY <1>3, <1>4, <1>5, <1>6 DEF MediaInv

\* What a commit changes in the other transactions: the rows they saw that are
\* gone, and what they have read that is out of date.
LEMMA OthersAtCommit ==
  ASSUME MediaInv, NEW r \in Requests, NEW next, NEW made,
         Commits(r, next, made), NEW x \in Requests, x # r
  PROVE  /\ tx'[x] \in Transaction
         /\ tx'[x].kind = tx[x].kind /\ tx'[x].step = tx[x].step /\ tx'[x].key = tx[x].key
         /\ tx'[x].unit = tx[x].unit /\ tx'[x].covers = tx[x].covers
         /\ tx'[x].saw = tx[x].saw \cap rows'
         /\ tx'[x].held = tx[x].held /\ tx'[x].other = tx[x].other
         /\ tx'[x].stale <=> tx[x].stale \/ Outdates(made, tx[x])
         /\ tx[x] = Idle => tx'[x] = Idle
  <1>1. tx[x] \in Transaction
    BY DEF MediaInv, TypeOK
  <1>2. PICK old \in BOOLEAN : old <=> tx[x].stale \/ Outdates(made, tx[x])
    OBVIOUS
  <1>3. tx'[x] = [tx[x] EXCEPT !.saw = @ \cap rows', !.stale = old]
    <2>1. old = (tx[x].stale \/ Outdates(made, tx[x]))
      BY <1>1, <1>2 DEF Transaction
    <2>2. QED
      BY <2>1 DEF Commits
  <1>4. PICK saw \in SUBSET Keys : saw = tx[x].saw \cap rows'
    BY <1>1 DEF Transaction
  <1>5. tx'[x] = [tx[x] EXCEPT !.saw = saw, !.stale = old]
    BY <1>3, <1>4
  <1>6. /\ tx'[x] \in Transaction
        /\ tx'[x].kind = tx[x].kind /\ tx'[x].step = tx[x].step /\ tx'[x].key = tx[x].key
        /\ tx'[x].unit = tx[x].unit /\ tx'[x].covers = tx[x].covers
        /\ tx'[x].saw = saw /\ tx'[x].held = tx[x].held /\ tx'[x].other = tx[x].other
        /\ tx'[x].stale = old
    BY <1>1, <1>5 DEF Transaction
  <1>7. ASSUME tx[x] = Idle
        PROVE  tx'[x] = Idle
    <2>1. ~Outdates(made, tx[x]) /\ tx[x].stale = FALSE /\ tx[x].saw = {}
      BY <1>7 DEF Outdates, Clears, Idle
    <2>2. saw = {} /\ old = FALSE
      BY <1>2, <1>4, <2>1
    <2>3. tx'[x].saw = tx[x].saw /\ tx'[x].stale = tx[x].stale
      BY <1>6, <2>1, <2>2
    <2>4. tx'[x] = tx[x]
      BY <1>1, <1>6, <2>3 DEF Transaction
    <2>5. QED
      BY <1>7, <2>4
  <1>8. QED
    BY <1>2, <1>4, <1>6, <1>7

\* A commit keeps the invariant for everybody else if it takes away only rows
\* that it has locked, and adds one only to a unit that nobody deletes; the
\* deletion of a row that it adds is excused.
LEMMA CommitKeeps ==
  ASSUME MediaInv, NEW r \in Requests, NEW next \in Transaction, NEW made,
         Commits(r, next, made), next.held = {},
         rows \ tx[r].held \subseteq rows', rows' \subseteq issued,
         cover' \subseteq rows' \cap (cover \cup made),
         units' \subseteq units,
         unitOf' \in [Keys -> Units \cup {None}],
         \A k \in rows' : unitOf'[k] \in units' \cup {None},
         \A k \in rows' : k \in rows => unitOf'[k] = unitOf[k],
         \A k \in rows' : k \notin rows => UnitFree(r, unitOf'[k]),
         disturbed' \in BOOLEAN, ~disturbed' => ~disturbed,
         uncovered' \in BOOLEAN, reconfirmed' \in BOOLEAN,
         ~reconfirmed' =>
           ~reconfirmed /\ \A x \in Requests \ {r} :
                             tx[x].kind = "delete" => rows' \cap {tx[x].key} \subseteq rows,
         Sound(tx[r])', CoverIsOne', RowsHaveObjects'
  PROVE  MediaInv'
  <1>1. editable' = editable /\ issued' = issued /\ objects' = objects
    BY DEF Commits
  <1>2. tx'[r] = next
    BY DEF Commits
  <1>3. \A x \in Requests : tx'[x] \in Transaction
    BY <1>2, OthersAtCommit
  <1>4. tx' \in [Requests -> Transaction]
    BY <1>3 DEF Commits
  <1>5. \A x \in Requests : x # r => tx'[x].held = tx[x].held /\ tx[x].held \subseteq rows'
    <2> SUFFICES ASSUME NEW x \in Requests, x # r
                 PROVE  tx'[x].held = tx[x].held /\ tx[x].held \subseteq rows'
      OBVIOUS
    <2>1. tx[x].held \subseteq rows /\ tx[r].held \cap tx[x].held = {}
      BY LocksExclude DEF MediaInv, TypeOK
    <2>2. QED
      BY <2>1, OthersAtCommit
  <1>6. TypeOK'
    <2>1. \A x \in Requests : tx'[x].held \subseteq rows'
      BY <1>2, <1>5
    <2>2. \A x \in Requests : \A y \in Requests \ {x} : tx'[y].held \cap tx'[x].held = {}
      BY <1>2, <1>5, LocksExclude
    <2>3. QED
      BY <1>1, <1>4, <2>1, <2>2 DEF MediaInv, TypeOK, Free
  <1>7. ASSUME NEW x \in Requests, x # r
        PROVE  Sound(tx[x])'
    <2>1. /\ tx'[x].kind = tx[x].kind /\ tx'[x].step = tx[x].step /\ tx'[x].key = tx[x].key
          /\ tx'[x].unit = tx[x].unit /\ tx'[x].covers = tx[x].covers
          /\ tx'[x].saw = tx[x].saw \cap rows'
          /\ tx'[x].held = tx[x].held /\ tx'[x].other = tx[x].other
          /\ tx'[x].stale <=> tx[x].stale \/ Outdates(made, tx[x])
          /\ tx[x] = Idle => tx'[x] = Idle
      BY <1>7, OthersAtCommit
    <2>2. Sound(tx[x]) /\ tx[x].held \subseteq rows'
      BY <1>5, <1>7 DEF MediaInv
    <2>3. Shape(tx[x])'
      BY <1>1, <2>1, <2>2 DEF Sound, Shape, Clears
    <2>4. ClearsSound(tx[x])'
      BY <2>1, <2>2 DEF Sound, ClearsSound, Clears, Outdates
    <2>5. DeletesSound(tx[x])'
      BY <2>1 DEF DeletesSound, Outdates
    <2>6. ObjectsSound(tx[x])'
      BY <1>1, <1>7, <2>1, <2>2 DEF Sound, ObjectsSound
    <2>7. UnitSound(tx[x])'
      <3> SUFFICES ASSUME tx[x].kind = "unit", tx[x].step = "commit", tx[x].unit \in units',
                          NEW k \in rows', unitOf'[k] = tx[x].unit
                   PROVE  k \in tx[x].held
        BY <2>1 DEF UnitSound
      <3>1. k \in rows
        BY <1>7 DEF UnitFree
      <3>2. QED
        BY <2>2, <3>1 DEF Sound, UnitSound
    <2>8. QED
      BY <2>3, <2>4, <2>5, <2>6, <2>7 DEF Sound
  <1>8. QED
    BY <1>6, <1>7 DEF MediaInv
-----------------------------------------------------------------------------
(* The statements before a commit *)

\* The steps outside transactions.
LEMMA OthersKeep ==
  ASSUME MediaInv,
         PropertyMoves \/ (\E k \in Keys : CreateUploadUrl(k) \/ Upload(k)) \/ UNCHANGED vars
  PROVE  MediaInv'
  <1>1. /\ UNCHANGED <<units, rows, unitOf, cover, tx, disturbed, uncovered, reconfirmed>>
        /\ issued \subseteq issued' /\ issued' \subseteq Keys
        /\ objects \subseteq objects' /\ objects' \subseteq issued'
        /\ editable' \in BOOLEAN
    BY DEF MediaInv, TypeOK, PropertyMoves, CreateUploadUrl, Upload, vars, table, history
  <1>2. TypeOK' /\ CoverIsOne' /\ RowsHaveObjects'
    BY <1>1 DEF MediaInv, TypeOK, CoverIsOne, RowsHaveObjects, Free
  <1>3. ASSUME NEW x \in Requests
        PROVE  Sound(tx[x])'
    <2>1. Sound(tx[x])
      BY DEF MediaInv
    <2>2. QED
      BY <1>1, <2>1 DEF Sound, Shape, ClearsSound, DeletesSound, ObjectsSound,
     UnitSound, Clears
  <1>4. QED
    BY <1>1, <1>2, <1>3 DEF MediaInv

\* The fields of a transaction.
LEMMA Fields ==
  ASSUME MediaInv, NEW r \in Requests
  PROVE  /\ tx[r] \in Transaction /\ Sound(tx[r])
         /\ tx[r].held \subseteq rows /\ Free(r, tx[r].held)
         /\ rows \subseteq Keys /\ rows \subseteq issued /\ cover \subseteq rows
         /\ objects \subseteq issued /\ None \notin Keys \cup Units
  BY KeysAssumption DEF MediaInv, TypeOK

\* The requests begin.
LEMMA BeginKeeps ==
  ASSUME MediaInv, NEW r \in Requests, NEW k \in Keys, NEW u \in Units \cup {None},
         NEW b \in BOOLEAN,
         ConfirmUpload(r, k, u, b) \/ SetCover(r, k) \/ DeleteMedia(r, k)
  PROVE  MediaInv'
  <1>1. CASE ConfirmUpload(r, k, u, b)
    <2> DEFINE t == [Idle EXCEPT !.kind = "confirm", !.step = "head", !.key = k, !.unit = u,
                                 !.covers = b]
    <2>1. Advance(r, t) /\ k \in issued
      BY <1>1 DEF ConfirmUpload, Begin
    <2>2. t \in Transaction /\ t.held = {}
      BY DEF Transaction, Idle
    <2>3. Sound(t)
      BY <2>1 DEF Sound, Shape, ClearsSound, DeletesSound, ObjectsSound,
     UnitSound, Clears, Idle
    <2>4. QED
      BY <2>1, <2>2, <2>3, AdvanceKeeps DEF Free
  <1>2. CASE SetCover(r, k)
    <2> DEFINE t == [Idle EXCEPT !.kind = "cover", !.step = "clear", !.key = k, !.covers = TRUE]
    <2>1. Advance(r, t) /\ k \in issued
      BY <1>2, Fields DEF SetCover, Begin
    <2>2. t \in Transaction /\ t.held = {}
      BY DEF Transaction, Idle
    <2>3. Sound(t)
      BY <2>1 DEF Sound, Shape, ClearsSound, DeletesSound, ObjectsSound,
     UnitSound, Clears, Idle
    <2>4. QED
      BY <2>1, <2>2, <2>3, AdvanceKeeps DEF Free
  <1>3. CASE DeleteMedia(r, k)
    <2>1. PICK c \in BOOLEAN : c <=> k \in cover
      OBVIOUS
    <2> DEFINE t == [Idle EXCEPT !.kind = "delete", !.step = "delete", !.key = k, !.covers = c]
    <2>2. Advance(r, t) /\ k \in issued
      <3>1. c = (k \in cover)
        BY <2>1
      <3>2. QED
        BY <1>3, <3>1, Fields DEF DeleteMedia, Begin
    <2>3. t \in Transaction /\ t.held = {}
      BY DEF Transaction, Idle
    <2>4. Sound(t)
      BY <2>1, <2>2 DEF Sound, Shape, ClearsSound, DeletesSound, ObjectsSound,
     UnitSound, Clears, Idle
    <2>5. QED
      BY <2>2, <2>3, <2>4, AdvanceKeeps DEF Free
  <1>4. QED
    BY <1>1, <1>2, <1>3

\* confirm_upload, up to its commit.
LEMMA ConfirmKeeps ==
  ASSUME MediaInv, NEW r \in Requests, ObjectExists(r) \/ CountMedia(r)
  PROVE  MediaInv'
  <1>1. CASE ObjectExists(r)
    <2> DEFINE t == [tx[r] EXCEPT !.step = "count"]
    <2>1. Advance(r, t) /\ At(r, "confirm", "head") /\ tx[r].key \in objects
      BY <1>1 DEF ObjectExists
    <2>2. t \in Transaction /\ t.held = {}
      BY <2>1, Fields DEF Transaction, At, Sound, Shape
    <2>3. Sound(t)
      BY <2>1, Fields DEF At, Transaction, Sound, Shape, ClearsSound, DeletesSound, ObjectsSound,
     UnitSound, Clears
    <2>4. QED
      BY <2>1, <2>2, <2>3, AdvanceKeeps DEF Free
  <1>2. CASE CountMedia(r)
    <2>1. PICK c \in BOOLEAN : c <=> tx[r].covers \/ rows = {}
      OBVIOUS
    <2> DEFINE t == [tx[r] EXCEPT !.step = IF c THEN "clear" ELSE "commit", !.covers = c]
    <2>2. Advance(r, t) /\ At(r, "confirm", "count")
      <3>1. c = (tx[r].covers \/ rows = {})
        BY <2>1
      <3>2. QED
        BY <1>2, <3>1 DEF CountMedia
    <2>3. t \in Transaction /\ t.held = {}
      BY <2>2, Fields DEF Transaction, At, Sound, Shape
    <2>4. Sound(t)
      BY <2>1, <2>2, Fields
      DEF At, Transaction, Sound, Shape, ClearsSound, DeletesSound, ObjectsSound,
     UnitSound, Clears
    <2>5. QED
      BY <2>2, <2>3, <2>4, AdvanceKeeps DEF Free
  <1>3. QED
    BY <1>1, <1>2

\* The UPDATE that clears the covers.
LEMMA ClearKeeps ==
  ASSUME MediaInv, NEW r \in Requests, ClearCovers(r) \/ CoversCleared(r)
  PROVE  MediaInv'
  <1>1. CASE ClearCovers(r)
    <2> DEFINE t == [tx[r] EXCEPT !.step = "clearing", !.saw = rows]
    <2>1. Advance(r, t) /\ tx[r].step = "clear"
      BY <1>1 DEF ClearCovers
    <2>2. t \in Transaction /\ t.held = {}
      <3>1. t \in Transaction
        BY Fields DEF Transaction
      <3>2. tx[r].held = {}
        BY <2>1, Fields DEF Sound, Shape
      <3>3. t.held = tx[r].held
        BY Fields DEF Transaction
      <3>4. QED
        BY <3>1, <3>2, <3>3
    <2>3. Sound(t)
      BY <2>1, Fields DEF Transaction, Sound, Shape, ClearsSound, DeletesSound, ObjectsSound,
     UnitSound, Clears
    <2>4. QED
      BY <2>1, <2>2, <2>3, AdvanceKeeps DEF Free
  <1>2. CASE CoversCleared(r)
    <2> DEFINE t == [tx[r] EXCEPT !.step = "commit", !.held = tx[r].saw]
    <2>1. Advance(r, t) /\ tx[r].step = "clearing" /\ Free(r, tx[r].saw)
      BY <1>2 DEF CoversCleared, Locked
    <2>2. t \in Transaction /\ t.held = tx[r].saw
      BY <2>1, Fields DEF Transaction
    <2>3. Sound(t)
      BY <2>1, Fields DEF Transaction, Sound, Shape, ClearsSound, DeletesSound, ObjectsSound,
     UnitSound, Clears
    <2>4. t.held \subseteq rows /\ Free(r, t.held)
      BY <2>1, <2>2, Fields DEF Sound, Shape
    <2>5. QED
      BY <2>1, <2>2, <2>3, <2>4, AdvanceKeeps
  <1>3. QED
    BY <1>1, <1>2

\* delete_media, up to its commit.
LEMMA DeleteKeeps ==
  ASSUME MediaInv, NEW r \in Requests, DeleteRow(r) \/ ChooseReplacement(r)
  PROVE  MediaInv'
  <1>1. CASE DeleteRow(r)
    <2> DEFINE t == [tx[r] EXCEPT !.step = IF tx[r].covers THEN "replace" ELSE "commit",
                                  !.held = {tx[r].key} \cap rows]
    <2>1. Advance(r, t) /\ At(r, "delete", "delete") /\ Free(r, {tx[r].key})
      BY <1>1 DEF DeleteRow
    <2>2. t \in Transaction /\ t.held = {tx[r].key} \cap rows
      BY <2>1, Fields DEF Transaction
    <2>3. Sound(t)
      BY <2>1, Fields DEF At, Transaction, Sound, Shape, ClearsSound, DeletesSound, ObjectsSound,
     UnitSound, Clears
    <2>4. t.held \subseteq rows /\ Free(r, t.held)
      BY <2>1, <2>2 DEF Free
    <2>5. QED
      BY <2>1, <2>2, <2>3, <2>4, AdvanceKeeps
  <1>2. CASE ChooseReplacement(r)
    <2>1. /\ At(r, "delete", "replace") /\ tx[r].covers
          /\ ~tx[r].stale => tx[r].key \in cover
      BY <1>2, Fields DEF ChooseReplacement, At, Sound, Shape, DeletesSound
    <2>2. PICK other \in Keys \cup {None} :
            /\ Advance(r, [tx[r] EXCEPT !.step = "commit", !.other = other])
            /\ \/ other \in Candidates(r) \ cover
               \/ other = None /\ (Candidates(r) = {} \/ Candidates(r) \cap cover # {})
      <3>1. CASE Candidates(r) = {} /\ Advance(r, [tx[r] EXCEPT !.step = "commit"])
        <4>1. tx[r].other = None
          BY <1>2, Fields, <2>1 DEF At, Sound, Shape, Transaction
        <4>2. QED
          BY <3>1, <4>1, Fields DEF Transaction
      <3>2. CASE \E x \in Candidates(r) :
                    Advance(r, [tx[r] EXCEPT !.step = "commit",
                                             !.other = IF x \in cover THEN None ELSE x])
        <4>1. PICK x \in Candidates(r) :
                Advance(r, [tx[r] EXCEPT !.step = "commit",
                                         !.other = IF x \in cover THEN None ELSE x])
          BY <3>2
        <4>2. x \in Keys
          BY Fields DEF Candidates
        <4>3. CASE x \in cover
          <5>1. Advance(r, [tx[r] EXCEPT !.step = "commit", !.other = None])
            BY <4>1, <4>3
          <5>2. QED
            BY <4>3, <5>1
        <4>4. CASE x \notin cover
          <5>1. Advance(r, [tx[r] EXCEPT !.step = "commit", !.other = x])
            BY <4>1, <4>4
          <5>2. QED
            BY <4>2, <4>4, <5>1
        <4>5. QED
          BY <4>3, <4>4
      <3>3. QED
        BY <1>2, <3>1, <3>2 DEF ChooseReplacement
    <2> DEFINE t == [tx[r] EXCEPT !.step = "commit", !.other = other]
    <2>3. t \in Transaction /\ t.held = tx[r].held
      BY Fields DEF Transaction
    <2>4. Shape(t) /\ ClearsSound(t) /\ ObjectsSound(t) /\ UnitSound(t)
      BY <2>1, Fields
      DEF At, Transaction, Sound, Shape, ClearsSound, ObjectsSound, UnitSound, Clears
    <2>5. DeletesSound(t)
      <3>1. ASSUME ~tx[r].stale, ~disturbed
            PROVE  \/ other \in rows \ {tx[r].key}
                   \/ other = None /\ rows = {tx[r].key}
        <4>1. cover = {tx[r].key} /\ tx[r].key \in rows
          BY <2>1, <3>1, Fields DEF MediaInv, CoverIsOne
        <4>2. QED
          BY <2>2, <4>1 DEF Candidates
      <3>2. QED
        BY <2>1, <3>1, Fields DEF At, Transaction, Sound, DeletesSound
    <2>6. QED
      BY <2>2, <2>3, <2>4, <2>5, Fields, AdvanceKeeps DEF Sound
  <1>3. QED
    BY <1>1, <1>2

\* delete_unit, up to its commit.
LEMMA UnitKeeps ==
  ASSUME MediaInv, NEW r \in Requests, LockUnit(r) \/ Cascade(r)
  PROVE  MediaInv'
  <1>1. CASE LockUnit(r)
    <2> DEFINE t == [tx[r] EXCEPT !.step = IF tx[r].unit \in units THEN "cascade" ELSE "commit"]
    <2>1. Advance(r, t) /\ At(r, "unit", "unit")
      BY <1>1 DEF LockUnit
    <2>2. t \in Transaction /\ t.held = {}
      BY <2>1, Fields DEF Transaction, At, Sound, Shape
    <2>3. Sound(t)
      BY <2>1, Fields
      DEF At, Transaction, Sound, Shape, ClearsSound, DeletesSound, ObjectsSound, UnitSound, Clears
    <2>4. QED
      BY <2>1, <2>2, <2>3, AdvanceKeeps DEF Free
  <1>2. CASE Cascade(r)
    <2> DEFINE images == {k \in rows : unitOf[k] = tx[r].unit}
               t == [tx[r] EXCEPT !.step = "commit", !.held = images]
    <2>1. Advance(r, t) /\ At(r, "unit", "cascade") /\ Free(r, images)
      BY <1>2 DEF Cascade
    <2>2. t \in Transaction /\ t.held = images
      BY <2>1, Fields DEF Transaction
    <2>3. Sound(t)
      BY <2>1, Fields
      DEF At, Transaction, Sound, Shape, ClearsSound, DeletesSound, ObjectsSound, UnitSound, Clears
    <2>4. QED
      BY <2>1, <2>2, <2>3, AdvanceKeeps
  <1>3. QED
    BY <1>1, <1>2

\* An abort lets go of what the request has locked.
LEMMA AbortKeeps ==
  ASSUME MediaInv, NEW r \in Requests, Abort(r)
  PROVE  MediaInv'
  <1>1. Advance(r, Idle) /\ Idle.held = {}
    BY DEF Abort, Idle
  <1>2. QED
    BY <1>1, IdleIsSound, AdvanceKeeps DEF Free
-----------------------------------------------------------------------------
(* The commits *)

\* Whoever clears the covers has every cover locked when it commits, unless one
\* was set that its UPDATE could not see.
LEMMA CoverIsHeld ==
  ASSUME MediaInv, NEW r \in Requests, tx[r].kind \in {"confirm", "cover"},
         tx[r].step = "commit", tx[r].covers, ~tx[r].stale
  PROVE  cover \subseteq tx[r].held
  BY Fields DEF Sound, Shape, ClearsSound, Clears

LEMMA InsertKeeps ==
  ASSUME MediaInv, NEW r \in Requests, InsertMedia(r)
  PROVE  MediaInv'
  <1> DEFINE k == tx[r].key
             made == {x \in {k} : tx[r].covers}
  <1>1. /\ At(r, "confirm", "commit") /\ k \notin rows
        /\ UnitFree(r, tx[r].unit) /\ tx[r].unit \in units \cup {None}
        /\ rows' = rows \cup {k} /\ units' = units
        /\ unitOf' = [unitOf EXCEPT ![k] = tx[r].unit]
        /\ cover' = (cover \ tx[r].held) \cup made
        /\ disturbed' = (disturbed \/ IF tx[r].covers THEN tx[r].stale ELSE rows = {})
        /\ uncovered' = (uncovered /\ ~tx[r].covers)
        /\ reconfirmed' = (reconfirmed \/ Meets(k, "delete"))
        /\ Commits(r, Idle, made)
    BY DEF InsertMedia
  <1>2. /\ tx[r].kind = "confirm" /\ tx[r].step = "commit" /\ k \in issued /\ k \in Keys
        /\ ~tx[r].covers => tx[r].held = {}
    BY <1>1, Fields DEF At, Sound, Shape, MediaInv, TypeOK
  <1>3. tx'[r] = Idle /\ objects' = objects
    BY <1>1 DEF Commits
  <1>4. Sound(tx[r])'
    BY <1>3 DEF Idle, Sound, Shape, ClearsSound, DeletesSound, ObjectsSound, UnitSound, Clears
  <1>5. CoverIsOne'
    <2> SUFFICES ASSUME ~disturbed'
                 PROVE  IF uncovered' THEN cover' = {} ELSE \E x \in rows' : cover' = {x}
      BY <1>1 DEF CoverIsOne
    <2>1. ~disturbed
      BY <1>1
    <2>2. CASE tx[r].covers
      <3>1. cover \subseteq tx[r].held
        BY <1>1, <1>2, <2>2, CoverIsHeld
      <3>2. cover' = {k} /\ ~uncovered'
        BY <1>1, <2>2, <3>1
      <3>3. QED
        BY <1>1, <3>2
    <2>3. CASE ~tx[r].covers
      <3>1. rows # {}
        BY <1>1, <2>3
      <3>2. cover' = cover /\ (uncovered' <=> uncovered)
        BY <1>1, <1>2, <2>3
      <3>3. QED
        BY <1>1, <2>1, <3>1, <3>2 DEF MediaInv, CoverIsOne
    <2>4. QED
      BY <2>2, <2>3
  <1>6. RowsHaveObjects'
    BY <1>1, <1>2, <1>3, Fields DEF MediaInv, RowsHaveObjects, Sound, ObjectsSound
  <1>7. disturbed' \in BOOLEAN /\ uncovered' \in BOOLEAN /\ reconfirmed' \in BOOLEAN
        /\ (~disturbed' => ~disturbed)
    BY <1>1
  <1>8. ASSUME ~reconfirmed', NEW x \in Requests, tx[x].kind = "delete"
        PROVE  rows' \cap {tx[x].key} \subseteq rows
    BY <1>1, <1>8 DEF Meets
  <1>9. ~reconfirmed' => ~reconfirmed
    BY <1>1
  <1>10. /\ rows' \subseteq issued /\ rows \ tx[r].held \subseteq rows'
         /\ cover' \subseteq rows' \cap (cover \cup made) /\ units' \subseteq units
    BY <1>1, <1>2, Fields
  <1>11. /\ unitOf' \in [Keys -> Units \cup {None}]
         /\ \A x \in rows' : unitOf'[x] \in units' \cup {None}
         /\ \A x \in rows' : x \in rows => unitOf'[x] = unitOf[x]
         /\ \A x \in rows' : x \notin rows => UnitFree(r, unitOf'[x])
    BY <1>1, <1>2, Fields DEF MediaInv, TypeOK
  <1>12. Idle \in Transaction /\ Idle.held = {}
    BY IdleIsSound DEF Idle
  <1> HIDE DEF made
  <1>13. QED
    BY <1>1, <1>4, <1>5, <1>6, <1>7, <1>8, <1>9, <1>10, <1>11, <1>12, CommitKeeps

LEMMA CoverKeeps ==
  ASSUME MediaInv, NEW r \in Requests, CommitCover(r)
  PROVE  MediaInv'
  <1> DEFINE k == tx[r].key
  <1>1. /\ At(r, "cover", "commit") /\ k \in rows
        /\ units' = units /\ rows' = rows /\ unitOf' = unitOf /\ reconfirmed' = reconfirmed
        /\ cover' = (cover \ tx[r].held) \cup {k}
        /\ disturbed' = (disturbed \/ tx[r].stale) /\ uncovered' = FALSE
        /\ Commits(r, Idle, {k})
    BY DEF CommitCover, StillThere
  <1>2. tx[r].kind = "cover" /\ tx[r].step = "commit" /\ tx[r].covers
    BY <1>1, Fields DEF At, Sound, Shape
  <1>3. tx'[r] = Idle /\ objects' = objects
    BY <1>1 DEF Commits
  <1>4. Sound(tx[r])'
    BY <1>3 DEF Idle, Sound, Shape, ClearsSound, DeletesSound, ObjectsSound, UnitSound, Clears
  <1>5. CoverIsOne'
    <2> SUFFICES ASSUME ~disturbed'
                 PROVE  \E x \in rows' : cover' = {x}
      BY <1>1 DEF CoverIsOne
    <2>1. cover \subseteq tx[r].held
      BY <1>1, <1>2, CoverIsHeld
    <2>2. QED
      BY <1>1, <2>1
  <1>6. /\ RowsHaveObjects' /\ reconfirmed' \in BOOLEAN /\ uncovered' \in BOOLEAN
        /\ disturbed' \in BOOLEAN /\ (~disturbed' => ~disturbed)
    BY <1>1, <1>3 DEF MediaInv, TypeOK, RowsHaveObjects
  <1>7. /\ rows' \subseteq issued /\ rows \ tx[r].held \subseteq rows'
        /\ cover' \subseteq rows' \cap (cover \cup {k})
    BY <1>1, Fields
  <1>8. /\ unitOf' \in [Keys -> Units \cup {None}]
        /\ \A x \in rows' : unitOf'[x] \in units' \cup {None}
    BY <1>1 DEF MediaInv, TypeOK
  <1>9. Idle \in Transaction /\ Idle.held = {}
    BY IdleIsSound DEF Idle
  <1>10. QED
    BY <1>1, <1>4, <1>5, <1>6, <1>7, <1>8, <1>9, CommitKeeps

\* The units of the rows that are left.
LEMMA UnitsOfTheRest ==
  ASSUME MediaInv, NEW gone, rows' = rows \ gone, unitOf' = Without(gone)
  PROVE  /\ unitOf' \in [Keys -> Units \cup {None}]
         /\ \A k \in rows' : unitOf'[k] = unitOf[k]
  BY DEF Without, MediaInv, TypeOK

LEMMA DeletionKeeps ==
  ASSUME MediaInv, NEW r \in Requests, CommitDelete(r)
  PROVE  MediaInv'
  <1> DEFINE gone == tx[r].held
             new == {tx[r].other} \ {None}
             next == [tx[r] EXCEPT !.step = "storage", !.held = {}]
             k == tx[r].key
  <1>1. /\ At(r, "delete", "commit") /\ new \subseteq rows
        /\ rows' = rows \ gone /\ cover' = (cover \cup new) \ gone
        /\ unitOf' = Without(gone)
        /\ disturbed' = (disturbed \/ (tx[r].stale /\ (tx[r].covers \/ gone \cap cover # {})))
        /\ uncovered' = (uncovered /\ rows' # {})
        /\ units' = units /\ reconfirmed' = reconfirmed
        /\ Commits(r, next, new)
    BY DEF CommitDelete
  <1>2. /\ tx[r].kind = "delete" /\ tx[r].step = "commit" /\ k \in issued
        /\ gone \subseteq {k} /\ gone \subseteq rows
        /\ tx[r].other # None => tx[r].covers
    BY <1>1, Fields DEF At, Sound, Shape
  <1>3. next \in Transaction /\ next.held = {}
    BY Fields DEF Transaction
  <1>4. tx'[r] = next /\ objects' = objects /\ issued' = issued
    BY <1>1 DEF Commits
  <1>5. CoverIsOne'
    <2> SUFFICES ASSUME ~disturbed', rows' # {}
                 PROVE  IF uncovered' THEN cover' = {} ELSE \E x \in rows' : cover' = {x}
      <3>1. rows' = {} => cover' = {}
        BY <1>1, Fields
      <3>2. QED
        BY <3>1 DEF CoverIsOne
    <2>1. /\ ~disturbed /\ (uncovered' <=> uncovered)
          /\ tx[r].stale => ~tx[r].covers /\ gone \cap cover = {}
          /\ ~tx[r].stale => (tx[r].covers <=> k \in cover)
      BY <1>1, <1>2, Fields DEF Sound, DeletesSound
    <2>2. CASE uncovered
      <3>1. cover = {}
        BY <2>1, <2>2 DEF MediaInv, CoverIsOne
      <3>2. new = {}
        BY <1>2, <2>1, <3>1
      <3>3. QED
        BY <1>1, <2>1, <2>2, <3>1, <3>2
    <2>3. CASE ~uncovered
      <3>1. PICK x \in rows : cover = {x}
        BY <1>1, <2>1, <2>3 DEF MediaInv, CoverIsOne
      <3>2. CASE ~tx[r].covers
        <4>1. gone \cap cover = {} /\ new = {}
          BY <1>2, <2>1, <3>2
        <4>2. QED
          BY <1>1, <2>1, <2>3, <3>1, <4>1
      <3>3. CASE tx[r].covers
        <4>1. gone = {k} /\ cover = {k} /\ ~tx[r].stale
          BY <1>2, <2>1, <3>1, <3>3, Fields DEF Sound, DeletesSound
        <4>2. tx[r].other \in rows \ {k}
          BY <1>1, <1>2, <2>1, <3>3, <4>1, Fields DEF Sound, DeletesSound
        <4>3. new = {tx[r].other}
          BY <4>2, Fields
        <4>4. QED
          BY <1>1, <2>1, <2>3, <4>1, <4>2, <4>3
      <3>4. QED
        BY <3>2, <3>3
    <2>4. QED
      BY <2>2, <2>3
  <1>6. /\ RowsHaveObjects' /\ reconfirmed' \in BOOLEAN /\ uncovered' \in BOOLEAN
        /\ disturbed' \in BOOLEAN /\ (~disturbed' => ~disturbed)
    BY <1>1, <1>4, Fields DEF MediaInv, TypeOK, RowsHaveObjects, Transaction
  <1>7. Sound(tx[r])'
    <2>1. Shape(tx[r])'
      <3>1. next.saw \subseteq rows'
        BY <1>2, Fields DEF Transaction, Sound, Shape, Clears
      <3>2. QED
        BY <1>2, <1>4, <3>1, Fields DEF Transaction, Sound, Shape, Clears
    <2>2. ClearsSound(tx[r])' /\ DeletesSound(tx[r])' /\ UnitSound(tx[r])'
      BY <1>2, <1>4, Fields DEF Transaction, ClearsSound, DeletesSound, UnitSound, Clears
    <2>3. ObjectsSound(tx[r])'
      BY <1>1, <1>2, <1>4, Fields DEF Transaction, Sound, ObjectsSound
    <2>4. QED
      BY <2>1, <2>2, <2>3 DEF Sound
  <1>8. /\ rows' \subseteq issued /\ rows \ gone \subseteq rows' /\ rows' \subseteq rows
        /\ cover' \subseteq rows' \cap (cover \cup new) /\ units' \subseteq units
    BY <1>1, Fields
  <1>9. /\ unitOf' \in [Keys -> Units \cup {None}]
        /\ \A x \in rows' : unitOf'[x] = unitOf[x]
    BY <1>1, UnitsOfTheRest
  <1>10. \A x \in rows' : unitOf'[x] \in units' \cup {None}
    BY <1>1, <1>8, <1>9 DEF MediaInv, TypeOK
  <1> HIDE DEF gone, new, next
  <1>11. QED
    BY <1>1, <1>3, <1>5, <1>6, <1>7, <1>8, <1>9, <1>10, CommitKeeps DEF gone

LEMMA DeleteUnitKeeps ==
  ASSUME MediaInv, NEW r \in Requests, NEW u \in Units, DeleteUnit(r, u)
  PROVE  MediaInv'
  <1> DEFINE t == [Idle EXCEPT !.kind = "unit", !.step = "unit", !.unit = u]
  <1>1. Advance(r, t)
    BY DEF DeleteUnit, Begin
  <1>2. t \in Transaction /\ t.held = {}
    BY DEF Transaction, Idle
  <1>3. Sound(t)
    BY DEF Sound, Shape, ClearsSound, DeletesSound, ObjectsSound, UnitSound, Clears, Idle
  <1>4. QED
    BY <1>1, <1>2, <1>3, AdvanceKeeps DEF Free

\* The deletion of a unit takes its images away, all of them.
LEMMA CascadeKeeps ==
  ASSUME MediaInv, NEW r \in Requests, CommitUnit(r)
  PROVE  MediaInv'
  <1> DEFINE gone == tx[r].held
             u == tx[r].unit
  <1>1. /\ At(r, "unit", "commit")
        /\ units' = units \ {u} /\ rows' = rows \ gone /\ unitOf' = Without(gone)
        /\ cover' = cover \ gone
        /\ uncovered' = ((uncovered \/ gone \cap cover # {}) /\ rows' # {})
        /\ disturbed' = disturbed /\ reconfirmed' = reconfirmed
        /\ Commits(r, Idle, {})
    BY DEF CommitUnit
  <1>2. /\ u \in Units /\ gone \subseteq rows
        /\ u \in units => \A k \in rows : unitOf[k] = u => k \in gone
    BY <1>1, Fields DEF At, Sound, Shape, UnitSound
  <1>3. tx'[r] = Idle /\ objects' = objects
    BY <1>1 DEF Commits
  <1>4. Sound(tx[r])'
    BY <1>3 DEF Idle, Sound, Shape, ClearsSound, DeletesSound, ObjectsSound, UnitSound, Clears
  <1>5. CoverIsOne'
    <2> SUFFICES ASSUME ~disturbed, rows' # {}
                 PROVE  IF uncovered' THEN cover' = {} ELSE \E x \in rows' : cover' = {x}
      <3>1. rows' = {} => cover' = {}
        BY <1>1, Fields
      <3>2. QED
        BY <1>1, <3>1 DEF CoverIsOne
    <2>1. CASE uncovered
      BY <1>1, <2>1 DEF MediaInv, CoverIsOne
    <2>2. CASE ~uncovered
      <3>1. PICK x \in rows : cover = {x}
        BY <1>1, <2>2 DEF MediaInv, CoverIsOne
      <3>2. QED
        BY <1>1, <2>2, <3>1
    <2>3. QED
      BY <2>1, <2>2
  <1>6. /\ RowsHaveObjects' /\ reconfirmed' \in BOOLEAN /\ disturbed' \in BOOLEAN
        /\ uncovered' \in BOOLEAN
    BY <1>1, <1>3 DEF MediaInv, TypeOK, RowsHaveObjects
  <1>7. /\ rows' \subseteq issued /\ rows \ gone \subseteq rows' /\ rows' \subseteq rows
        /\ cover' \subseteq rows' \cap (cover \cup {}) /\ units' \subseteq units
    BY <1>1, Fields
  <1>8. /\ unitOf' \in [Keys -> Units \cup {None}]
        /\ \A x \in rows' : unitOf'[x] = unitOf[x]
    BY <1>1, UnitsOfTheRest
  <1>9. \A x \in rows' : unitOf'[x] \in units' \cup {None}
    <2> SUFFICES ASSUME NEW x \in rows'
                 PROVE  unitOf[x] \in units' \cup {None}
      BY <1>8
    <2>1. x \in rows /\ x \notin gone /\ unitOf[x] \in units \cup {None}
      BY <1>1 DEF MediaInv, TypeOK
    <2>2. QED
      BY <1>1, <1>2, <2>1
  <1>10. Idle \in Transaction /\ Idle.held = {}
    BY IdleIsSound DEF Idle
  <1> HIDE DEF gone, u
  <1>11. QED
    BY <1>1, <1>4, <1>5, <1>6, <1>7, <1>8, <1>9, <1>10, CommitKeeps DEF gone

LEMMA ObjectKeeps ==
  ASSUME MediaInv, NEW r \in Requests, DeleteObject(r)
  PROVE  MediaInv'
  <1> DEFINE k == tx[r].key
  <1>1. /\ tx[r].kind = "delete" /\ tx[r].step = "storage"
        /\ objects' = objects \ {k} /\ tx' = [tx EXCEPT ![r] = Idle]
        /\ reconfirmed' = (reconfirmed \/ Meets(k, "confirm"))
        /\ editable' = editable /\ units' = units /\ issued' = issued
        /\ rows' = rows /\ unitOf' = unitOf /\ cover' = cover
        /\ disturbed' = disturbed /\ uncovered' = uncovered
    BY DEF DeleteObject, Committed, At, Become, table
  <1>2. /\ tx' \in [Requests -> Transaction]
        /\ \A x \in Requests : tx'[x] = IF x = r THEN Idle ELSE tx[x]
    BY <1>1, IdleIsSound DEF MediaInv, TypeOK
  <1>3. TypeOK'
    <2>1. \A x \in Requests : tx'[x].held \subseteq rows
      BY <1>2, Fields DEF Idle
    <2>2. \A x \in Requests : \A y \in Requests \ {x} : tx'[y].held \cap tx'[x].held = {}
      BY <1>2, LocksExclude DEF Idle
    <2>3. QED
      BY <1>1, <1>2, <2>1, <2>2 DEF MediaInv, TypeOK, Free
  <1>4. CoverIsOne' /\ RowsHaveObjects'
    BY <1>1, Fields DEF MediaInv, CoverIsOne, RowsHaveObjects, Sound, ObjectsSound
  <1>5. ASSUME NEW x \in Requests
        PROVE  Sound(tx[x])'
    <2>1. CASE x = r
      <3>1. tx'[x] = Idle
        BY <1>2, <2>1
      <3>2. QED
        BY <3>1 DEF Idle, Sound, Shape, ClearsSound, DeletesSound, ObjectsSound,
     UnitSound, Clears
    <2>2. CASE x # r
      <3>1. tx'[x] = tx[x] /\ Sound(tx[x])
        BY <1>2, <2>2, Fields
      <3>2. ~reconfirmed' => ~reconfirmed /\ (tx[x].kind = "confirm" => tx[x].key # k)
        BY <1>1 DEF Meets
      <3>3. tx[x].kind = "confirm" /\ tx[x].key # k => (tx[x].key \in objects => tx[x].key \in objects')
        BY <1>1
      <3>4. ObjectsSound(tx[x])'
        BY <1>1, <3>1, <3>2, <3>3 DEF Sound, ObjectsSound
      <3>5. QED
        BY <1>1, <3>1, <3>4 DEF Sound, Shape, ClearsSound, DeletesSound, UnitSound, Clears
    <2>3. QED
      BY <2>1, <2>2
  <1>6. QED
    BY <1>2, <1>3, <1>4, <1>5 DEF MediaInv
-----------------------------------------------------------------------------
LEMMA MediaInvInit == Init => MediaInv
  <1> SUFFICES ASSUME Init
               PROVE  MediaInv
    OBVIOUS
  <1>1. \A r \in Requests : Sound(tx[r])
    BY IdleIsSound DEF Init
  <1>2. TypeOK
    BY IdleIsSound DEF Init, TypeOK, Idle, Free
  <1>3. QED
    BY <1>1, <1>2 DEF Init, MediaInv, CoverIsOne, RowsHaveObjects

LEMMA MediaInvNext == MediaInv /\ [Next]_vars => MediaInv'
  <1> SUFFICES ASSUME MediaInv, [Next]_vars
               PROVE  MediaInv'
    OBVIOUS
  <1>1. CASE PropertyMoves \/ (\E k \in Keys : CreateUploadUrl(k) \/ Upload(k)) \/ UNCHANGED vars
    BY <1>1, OthersKeep
  <1>2. ASSUME NEW r \in Requests, NEW k \in Keys, NEW u \in Units \cup {None}, NEW b \in BOOLEAN,
               ConfirmUpload(r, k, u, b) \/ SetCover(r, k) \/ DeleteMedia(r, k)
        PROVE  MediaInv'
    BY <1>2, BeginKeeps
  <1>3. ASSUME NEW r \in Requests, NEW u \in Units, DeleteUnit(r, u)
        PROVE  MediaInv'
    BY <1>3, DeleteUnitKeeps
  <1>4. ASSUME NEW r \in Requests,
               \/ ObjectExists(r) \/ CountMedia(r) \/ InsertMedia(r)
               \/ ClearCovers(r) \/ CoversCleared(r) \/ CommitCover(r)
               \/ DeleteRow(r) \/ ChooseReplacement(r) \/ CommitDelete(r) \/ DeleteObject(r)
               \/ LockUnit(r) \/ Cascade(r) \/ CommitUnit(r)
               \/ Abort(r)
        PROVE  MediaInv'
    BY <1>4, ConfirmKeeps, InsertKeeps, ClearKeeps, CoverKeeps, DeleteKeeps, DeletionKeeps,
       ObjectKeeps, UnitKeeps, CascadeKeeps, AbortKeeps
  <1>5. QED
    BY <1>1, <1>2, <1>3, <1>4 DEF Next
-----------------------------------------------------------------------------
\* The inductive invariant holds.
THEOREM MediaIsSound == Spec => []MediaInv
  BY MediaInvInit, MediaInvNext, PTL DEF Spec

\* Every column and every request keeps its type; rows have issued keys and show
\* units that exist, and one request at a time has a row locked.
THEOREM MediaTypes == Spec => []TypeOK
  <1>1. MediaInv => TypeOK
    BY DEF MediaInv
  <1>2. QED
    BY <1>1, MediaIsSound, PTL

\* A property with images has one cover, but for the overlaps that OneCover names
\* and after the deletion of a unit took the cover with it.
THEOREM PropertyHasOneCover == Spec => []OneCover
  <1>1. ASSUME MediaInv
        PROVE  OneCover
    <2> SUFFICES ASSUME ~disturbed
                 PROVE  Cardinality(cover) = IF rows = {} \/ uncovered THEN 0 ELSE 1
      BY DEF OneCover
    <2>1. CASE rows = {} \/ uncovered
      <3>1. cover = {}
        BY <1>1, <2>1 DEF MediaInv, CoverIsOne
      <3>2. QED
        BY <2>1, <3>1, FS_EmptySet
    <2>2. CASE ~(rows = {} \/ uncovered)
      <3>1. PICK x \in rows : cover = {x}
        BY <1>1, <2>2 DEF MediaInv, CoverIsOne
      <3>2. Cardinality({x}) = 1
        BY FS_Singleton
      <3>3. QED
        BY <2>2, <3>1, <3>2
    <2>3. QED
      BY <2>1, <2>2
  <1>2. QED
    BY <1>1, MediaIsSound, PTL

\* The image of every row is in the object storage, unless its key was
\* confirmed again while its deletion was in progress.
THEOREM EveryRowHasItsObject == Spec => []RowsHaveObjects
  <1>1. MediaInv => RowsHaveObjects
    BY DEF MediaInv
  <1>2. QED
    BY <1>1, MediaIsSound, PTL

\* Choosing a cover leaves that one alone, whatever the covers were before,
\* unless a row that its UPDATE had not seen became a cover meanwhile.
THEOREM ChoosingACoverRepairs == Spec => SetCoverRepairs
  <1>1. ASSUME MediaInv, NEW r \in Requests, CommitCover(r), ~tx[r].stale
        PROVE  cover' = {tx[r].key}
    <2>1. tx[r].kind = "cover" /\ tx[r].step = "commit" /\ tx[r].covers
      BY <1>1, Fields DEF CommitCover, At, Sound, Shape
    <2>2. cover \subseteq tx[r].held
      BY <1>1, <2>1, CoverIsHeld
    <2>3. QED
      BY <1>1, <2>2 DEF CommitCover
  <1>2. MediaInv => [\A r \in Requests :
                       CommitCover(r) /\ ~tx[r].stale => cover' = {tx[r].key}]_vars
    BY <1>1
  <1>3. QED
    BY <1>2, MediaIsSound, PTL DEF SetCoverRepairs
=============================================================================
