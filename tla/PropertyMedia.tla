----------------------------- MODULE PropertyMedia -----------------------------
(***************************************************************************)
(* The images of one property: upload targets, confirmation, the cover and *)
(* deletion (routes/media.py, core/storage.py, models/media.py), and the   *)
(* deletion of a unit, which the database cascades to the images of the    *)
(* unit (routes/properties.py, migration 0003).                            *)
(*                                                                         *)
(* A row is named by its object key, which is unique; a key that is        *)
(* deleted and confirmed again is the same row here.  A statement reads    *)
(* what is committed, an UPDATE waits for the locks on the rows it saw     *)
(* when it began, and what a request writes shows when it commits.  Role   *)
(* checks, the sort order and the expiry of an upload URL are left out:    *)
(* the replacement of a deleted cover is any row.  Units are created       *)
(* before their images (PropertyListing has their life).                   *)
(***************************************************************************)
EXTENDS FiniteSets

CONSTANTS Keys,        \* bound: object keys that are issued
          Units,       \* bound: units of the property
          Requests,    \* bound: confirm, cover and delete requests in progress
          None

ASSUME KeysAssumption == None \notin Keys \cup Units

VARIABLES editable,    \* the property is a draft or rejected
          units,       \* the units that exist
          issued,      \* keys of the upload targets handed out
          objects,     \* keys that object storage has
          rows,        \* keys of the rows of property_media
          unitOf,      \* row -> the unit it shows (None: the property, or no row)
          cover,       \* the rows whose is_cover is set
          tx,          \* the transaction of each request
          disturbed,   \* history: see OneCover
          uncovered,   \* history: see OneCover
          reconfirmed  \* history: see RowsHaveObjects

table == <<rows, unitOf, cover>>
history == <<disturbed, uncovered, reconfirmed>>
vars == <<editable, units, issued, objects, table, tx, history>>

\* What a request does, to which row and unit, and its next statement; whether
\* it makes a cover (or deletes one); the rows its UPDATE saw and those it has
\* locked; the row that replaces a deleted cover; and, for the properties,
\* whether a commit of another request outdated what it has read.
Idle == [kind |-> "none", step |-> "idle", key |-> None, unit |-> None, covers |-> FALSE,
         saw |-> {}, held |-> {}, other |-> None, stale |-> FALSE]

Transaction ==
  [kind : {"none", "confirm", "cover", "delete", "unit"},
   step : {"idle", "head", "count", "clear", "clearing", "commit", "delete", "replace",
           "storage", "unit", "cascade"},
   key : Keys \cup {None}, unit : Units \cup {None}, covers : BOOLEAN,
   saw : SUBSET Keys, held : SUBSET Keys, other : Keys \cup {None}, stale : BOOLEAN]

At(r, kind, step) == tx[r].kind = kind /\ tx[r].step = step
Become(r, t) == tx' = [tx EXCEPT ![r] = t]

\* A statement that only moves its own transaction on.
Advance(r, t) ==
  Become(r, t) /\ UNCHANGED <<editable, units, issued, objects, table, history>>

\* No other request has locked a row of S, or deletes the unit.
Free(r, S) == \A x \in Requests \ {r} : tx[x].held \cap S = {}
UnitFree(r, u) ==
  \A x \in Requests \ {r} :
    tx[x].kind = "unit" /\ tx[x].step \in {"cascade", "commit"} => tx[x].unit # u

Init ==
  /\ editable = TRUE /\ units = Units
  /\ issued = {} /\ objects = {} /\ rows = {} /\ cover = {}
  /\ unitOf = [k \in Keys |-> None]
  /\ tx = [r \in Requests |-> Idle]
  /\ disturbed = FALSE /\ uncovered = FALSE /\ reconfirmed = FALSE
-----------------------------------------------------------------------------
\* The property is submitted, or rejected again.
PropertyMoves ==
  editable' = ~editable /\ UNCHANGED <<units, issued, objects, table, tx, history>>

CreateUploadUrl(k) ==
  /\ editable /\ k \notin issued
  /\ issued' = issued \cup {k}
  /\ UNCHANGED <<editable, units, objects, table, tx, history>>

Upload(k) ==
  /\ k \in issued \ objects
  /\ objects' = objects \cup {k}
  /\ UNCHANGED <<editable, units, issued, table, tx, history>>
-----------------------------------------------------------------------------
(* What the requests share *)

Begin(r, t) == tx[r] = Idle /\ editable /\ Advance(r, t)

\* UPDATE property_media SET is_cover = false: its snapshot, then its locks.
ClearCovers(r) ==
  /\ tx[r].step = "clear"
  /\ Advance(r, [tx[r] EXCEPT !.step = "clearing", !.saw = rows])

\* Mutant: only the rows whose is_cover changes are updated, and locked.
LockedM(r) == tx[r].saw \cap cover
Locked(r) == tx[r].saw

CoversCleared(r) ==
  /\ tx[r].step = "clearing"
  /\ Free(r, Locked(r))
  /\ Advance(r, [tx[r] EXCEPT !.step = "commit", !.held = Locked(r)])

\* The UPDATE of t has begun, and t is going to set the cover.
Clears(t) ==
  t.kind \in {"confirm", "cover"} /\ t.covers /\ t.step \in {"clearing", "commit"}

\* What a commit that sets the covers in made outdates: the covers that an
\* UPDATE saw, and all that a deletion has read.
Outdates(made, t) ==
  \/ Clears(t) /\ ~(made \subseteq t.saw)
  \/ t.kind = "delete" /\ t.step # "storage"

\* The commit of r, which goes on as next; a row that is gone is not among
\* those that the others saw.
Commits(r, next, made) ==
  /\ tx' = [x \in Requests |->
              IF x = r THEN next
              ELSE [tx[x] EXCEPT !.saw = @ \cap rows',
                                 !.stale = @ \/ Outdates(made, tx[x])]]
  /\ UNCHANGED <<editable, issued, objects>>

\* Another request of this kind for the key is in progress.
Meets(k, kind) == \E r \in Requests : tx[r].kind = kind /\ tx[r].key = k

\* A conflict, a row that is gone (StaleDataError), a deadlock, a crash: the
\* transaction rolls back, and a deletion after its commit leaves its object.
Abort(r) == tx[r] # Idle /\ Advance(r, Idle)
-----------------------------------------------------------------------------
(* confirm_upload *)

ConfirmUpload(r, k, u, isCover) ==
  /\ k \in issued /\ u \in units \cup {None}
  /\ Begin(r, [Idle EXCEPT !.kind = "confirm", !.step = "head", !.key = k, !.unit = u,
                           !.covers = isCover])

\* With settings.object_storage_verify_uploads, which is the default.
ObjectExists(r) ==
  /\ At(r, "confirm", "head")
  /\ tx[r].key \in objects
  /\ Advance(r, [tx[r] EXCEPT !.step = "count"])

CountMedia(r) ==
  LET makeCover == tx[r].covers \/ rows = {} IN
  /\ At(r, "confirm", "count")
  /\ tx[r].key \notin rows
  /\ Advance(r, [tx[r] EXCEPT !.step = IF makeCover THEN "clear" ELSE "commit",
                              !.covers = makeCover])

\* The insert waits for whoever has the key, or deletes the unit.
InsertMedia(r) ==
  LET k == tx[r].key
      made == {x \in {k} : tx[r].covers}
  IN
  /\ At(r, "confirm", "commit")
  /\ Free(r, {k}) /\ k \notin rows
  /\ UnitFree(r, tx[r].unit) /\ tx[r].unit \in units \cup {None}
  /\ rows' = rows \cup {k}
  /\ unitOf' = [unitOf EXCEPT ![k] = tx[r].unit]
  /\ cover' = (cover \ tx[r].held) \cup made
  /\ disturbed' = (disturbed \/ IF tx[r].covers THEN tx[r].stale ELSE rows = {})
  /\ uncovered' = (uncovered /\ ~tx[r].covers)
  /\ reconfirmed' = (reconfirmed \/ Meets(k, "delete"))
  /\ Commits(r, Idle, made)
  /\ UNCHANGED units
-----------------------------------------------------------------------------
(* set_cover_media *)

SetCover(r, k) ==
  k \in rows /\ Begin(r, [Idle EXCEPT !.kind = "cover", !.step = "clear", !.key = k,
                                       !.covers = TRUE])

\* Mutant: that the row has gone is not noticed.
StillThereM(r) == TRUE
StillThere(r) == tx[r].key \in rows

CommitCover(r) ==
  /\ At(r, "cover", "commit")
  /\ StillThere(r)
  /\ cover' = (cover \ tx[r].held) \cup {tx[r].key}
  /\ disturbed' = (disturbed \/ tx[r].stale)
  /\ uncovered' = FALSE
  /\ UNCHANGED <<units, rows, unitOf, reconfirmed>>
  /\ Commits(r, Idle, {tx[r].key})
-----------------------------------------------------------------------------
(* delete_media *)

\* covers is was_cover, read without a lock.
DeleteMedia(r, k) ==
  k \in rows /\ Begin(r, [Idle EXCEPT !.kind = "delete", !.step = "delete", !.key = k,
                                       !.covers = k \in cover])

\* The DELETE waits for the row; that it has gone meanwhile is only a warning.
DeleteRow(r) ==
  /\ At(r, "delete", "delete")
  /\ Free(r, {tx[r].key})
  /\ Advance(r, [tx[r] EXCEPT !.step = IF tx[r].covers THEN "replace" ELSE "commit",
                              !.held = {tx[r].key} \cap rows])

\* Mutant: the deleted row is not flushed, and may replace itself.
CandidatesM(r) == rows
Candidates(r) == rows \ {tx[r].key}

ChooseReplacement(r) ==
  /\ At(r, "delete", "replace")
  /\ \/ \E x \in Candidates(r) :
          Advance(r, [tx[r] EXCEPT !.step = "commit", !.other = IF x \in cover THEN None ELSE x])
     \/ Candidates(r) = {} /\ Advance(r, [tx[r] EXCEPT !.step = "commit"])

Without(gone) == [k \in Keys |-> IF k \in gone THEN None ELSE unitOf[k]]

CommitDelete(r) ==
  LET gone == tx[r].held
      new == {tx[r].other} \ {None}
  IN
  /\ At(r, "delete", "commit")
  /\ Free(r, new) /\ new \subseteq rows
  /\ rows' = rows \ gone
  /\ unitOf' = Without(gone)
  /\ cover' = (cover \cup new) \ gone
  /\ disturbed' = (disturbed \/ (tx[r].stale /\ (tx[r].covers \/ gone \cap cover # {})))
  /\ uncovered' = (uncovered /\ rows' # {})
  /\ Commits(r, [tx[r] EXCEPT !.step = "storage", !.held = {}], new)
  /\ UNCHANGED <<units, reconfirmed>>

\* Mutant: the object is deleted before the commit, which then fails.
CommittedM(r) == At(r, "delete", "commit")
Committed(r) == At(r, "delete", "storage")

DeleteObject(r) ==
  /\ Committed(r)
  /\ objects' = objects \ {tx[r].key}
  /\ Become(r, Idle)
  /\ reconfirmed' = (reconfirmed \/ Meets(tx[r].key, "confirm"))
  /\ UNCHANGED <<editable, units, issued, table, disturbed, uncovered>>
-----------------------------------------------------------------------------
(* delete_unit *)

DeleteUnit(r, u) ==
  u \in units /\ Begin(r, [Idle EXCEPT !.kind = "unit", !.step = "unit", !.unit = u])

\* The DELETE waits for the unit; that it has gone meanwhile is only a warning.
LockUnit(r) ==
  /\ At(r, "unit", "unit")
  /\ UnitFree(r, tx[r].unit)
  /\ Advance(r, [tx[r] EXCEPT !.step = IF tx[r].unit \in units THEN "cascade" ELSE "commit"])

\* ON DELETE CASCADE: the images of the unit.
Cascade(r) ==
  LET images == {k \in rows : unitOf[k] = tx[r].unit} IN
  /\ At(r, "unit", "cascade")
  /\ Free(r, images)
  /\ Advance(r, [tx[r] EXCEPT !.step = "commit", !.held = images])

\* The objects of the images stay in the store, and no cover is chosen.
CommitUnit(r) ==
  LET gone == tx[r].held IN
  /\ At(r, "unit", "commit")
  /\ units' = units \ {tx[r].unit}
  /\ rows' = rows \ gone
  /\ unitOf' = Without(gone)
  /\ cover' = cover \ gone
  /\ uncovered' = ((uncovered \/ gone \cap cover # {}) /\ rows' # {})
  /\ Commits(r, Idle, {})
  /\ UNCHANGED <<disturbed, reconfirmed>>
-----------------------------------------------------------------------------
Next ==
  \/ PropertyMoves
  \/ \E k \in Keys : CreateUploadUrl(k) \/ Upload(k)
  \/ \E r \in Requests :
       \/ \E k \in Keys :
            \/ \E u \in Units \cup {None}, isCover \in BOOLEAN : ConfirmUpload(r, k, u, isCover)
            \/ SetCover(r, k) \/ DeleteMedia(r, k)
       \/ ObjectExists(r) \/ CountMedia(r) \/ InsertMedia(r)
       \/ ClearCovers(r) \/ CoversCleared(r) \/ CommitCover(r)
       \/ DeleteRow(r) \/ ChooseReplacement(r) \/ CommitDelete(r) \/ DeleteObject(r)
       \/ \E u \in Units : DeleteUnit(r, u)
       \/ LockUnit(r) \/ Cascade(r) \/ CommitUnit(r)
       \/ Abort(r)

Spec == Init /\ [][Next]_vars
-----------------------------------------------------------------------------
\* Types; a row has an issued key and shows a unit that exists, and one request
\* at a time has it locked.
TypeOK ==
  /\ editable \in BOOLEAN
  /\ disturbed \in BOOLEAN /\ uncovered \in BOOLEAN /\ reconfirmed \in BOOLEAN
  /\ units \subseteq Units /\ issued \subseteq Keys /\ objects \subseteq issued
  /\ rows \subseteq issued /\ cover \subseteq rows
  /\ unitOf \in [Keys -> Units \cup {None}]
  /\ \A k \in rows : unitOf[k] \in units \cup {None}
  /\ tx \in [Requests -> Transaction]
  /\ \A r \in Requests : tx[r].held \subseteq rows /\ Free(r, tx[r].held)

\* README.md: "gallery and cover-image management".  A property with images has
\* one cover, after any sequence of confirmations, choices and deletions,
\* failures included, and in every interleaving of them but these, which the
\* code does not lock against (disturbed):
\*  - an image becomes the cover, and whoever makes it the cover has not seen
\*    another cover that was set while its UPDATE was under way;
\*  - an image is inserted without being the cover, and those it was counted
\*    with are gone;
\*  - a cover is deleted, and anything was committed since delete_media read it.
\* And in one case without any overlap (uncovered): the deletion of a unit takes
\* the cover with it and leaves the other images without one, until the next
\* choice of a cover or until they are gone.
OneCover ==
  ~disturbed => Cardinality(cover) = IF rows = {} \/ uncovered THEN 0 ELSE 1

\* Whatever happened before, choosing a cover leaves that one alone, unless a
\* row that its UPDATE had not seen became a cover meanwhile.
SetCoverRepairs ==
  [][\A r \in Requests :
       CommitCover(r) /\ ~tx[r].stale => cover' = {tx[r].key}]_vars

\* An image that is listed can be fetched: the object outlives the row through
\* retries, overlapping deletions and failures, unless the key was confirmed
\* again while its deletion was in progress.
RowsHaveObjects == ~reconfirmed => rows \subseteq objects
=============================================================================
