----------------------------- MODULE DeliveryProofs -----------------------------
(***************************************************************************)
(* Proofs about Delivery, for any viewings, workers and bounds: types; two *)
(* workers never relay the same notification; each party is reminded of a  *)
(* viewing once, while it is accepted and its time has come; and the       *)
(* client shows no notification twice unless two workers relay at the same *)
(* time.  The last theorem needs a window that is not shorter than a batch *)
(* (200 and 100 identifiers in the code).                                  *)
(***************************************************************************)
EXTENDS Delivery, TLAPS, FiniteSetTheorems, SequenceTheorems

Reminding(w) == worker[w].step = "reminding"

Kinds == {"viewing_requested", "viewing_updated", "viewing_cancelled", "viewing_reminder"}
NoteType == [to : {"owner", "requester"}, kind : Kinds, viewing : ViewingIds]

Steps == {"asleep", "relaying", "relayed", "locked", "reminding", "reminded"}
Rows == Nat \cup ViewingIds
WorkerType == [step : Steps, held : SUBSET Rows, batch : Seq(Nat)]

\* The columns, the workers and the client have their types.
DeliveryTyped ==
  /\ status \in [ViewingIds -> ViewingStatus \cup {"none"}]
  /\ schedule \in [ViewingIds -> {"none", "later", "soon", "past"}]
  /\ reminded \subseteq ViewingIds
  /\ notes \in Seq(NoteType) /\ relayed \subseteq DOMAIN notes
  /\ lock \in Workers \cup {None}
  /\ worker \in [Workers -> WorkerType]
  /\ crashes \in 0 .. MaxCrashes
  /\ window \in Seq(Nat) /\ Len(window) <= WindowSize
  /\ shown \subseteq DOMAIN notes
  /\ again \in BOOLEAN /\ overtaken \in BOOLEAN

\* A relaying worker has locked rows that are not marked, which no other worker
\* has, and publishes these and no others.
RelayInv ==
  \A w \in Workers : Relaying(w) =>
    /\ worker[w].held \subseteq DOMAIN notes \ relayed
    /\ worker[w].batch \in Seq(worker[w].held)
    /\ \A x \in Workers \ {w} : Relaying(x) => worker[w].held \cap worker[x].held = {}

\* A viewing whose reminder is being sent can be reminded of, and no other
\* worker is at it.
ReminderLocks ==
  \A w \in Workers : Reminding(w) =>
    /\ worker[w].held \subseteq ViewingIds
    /\ \A v \in worker[w].held :
         status[v] = "accepted" /\ schedule[v] \in {"soon", "past"} /\ v \notin reminded
    /\ \A x \in Workers \ {w} : Reminding(x) => worker[w].held \cap worker[x].held = {}

\* Who was reminded is marked, and can only cancel.
RemindersMarked ==
  \A v \in ViewingIds : Reminders(notes, v) # {} =>
    v \in reminded /\ status[v] \in {"accepted", "cancelled"}

Requested == {v \in ViewingIds : status[v] # "none"}

ReminderInv == ReminderLocks /\ RemindersMarked /\ IsFiniteSet(Requested)

\* The notifications that are not marked.
Unrelayed == DOMAIN notes \ relayed

\* What was shown and is not marked belongs to the oldest batch and is in the
\* window, behind everything that is marked.
WindowInv ==
  /\ \A i \in DOMAIN window : window[i] \in shown
  /\ \A i, j \in DOMAIN window : i # j => window[i] # window[j]
  /\ \A i, j \in DOMAIN window : i < j /\ window[j] \in relayed => window[i] \in relayed
  /\ \A n \in shown \ relayed : \E i \in DOMAIN window : window[i] = n
  /\ shown \ relayed \subseteq Oldest(Unrelayed)

\* The only worker that relays has the oldest batch locked, with all of these.
BatchInv ==
  \A w \in Workers : Relaying(w) =>
    /\ \A x \in Workers : Relaying(x) => x = w
    /\ worker[w].held \subseteq Oldest(Unrelayed)
    /\ shown \ relayed \subseteq worker[w].held

ShownOnce == ~overtaken => ~again /\ WindowInv /\ BatchInv

DeliveryInv == DeliveryTyped /\ RelayInv /\ ReminderInv
-----------------------------------------------------------------------------
(* Sets of notifications, and their order *)

LEMMA RankGrows ==
  ASSUME NEW S \in SUBSET Nat, IsFiniteSet(S), NEW m \in S, NEW n \in S, m < n
  PROVE  /\ Cardinality(Older(S, m)) \in Nat /\ Cardinality(Older(S, n)) \in Nat
         /\ Cardinality(Older(S, m)) < Cardinality(Older(S, n))
  <1>1. IsFiniteSet(Older(S, n))
    BY FS_Subset DEF Older
  <1>2. Older(S, m) \in SUBSET Older(S, n)
    <2>1. \A k \in S : k < m => k < n
      BY SMT
    <2>2. QED
      BY <2>1, Zenon DEF Older
  <1>3. m \in Older(S, n) /\ m \notin Older(S, m)
    BY DEF Older
  <1>4. /\ IsFiniteSet(Older(S, m))
        /\ Cardinality(Older(S, m)) <= Cardinality(Older(S, n))
        /\ Cardinality(Older(S, m)) # Cardinality(Older(S, n))
    BY <1>1, <1>2, <1>3, FS_Subset
  <1>5. Cardinality(Older(S, m)) \in Nat /\ Cardinality(Older(S, n)) \in Nat
    BY <1>1, <1>4, FS_CardinalityType
  <1>6. QED
    BY <1>4, <1>5

LEMMA RanksDiffer ==
  ASSUME NEW S \in SUBSET Nat, IsFiniteSet(S), NEW m \in S, NEW n \in S,
         Cardinality(Older(S, m)) = Cardinality(Older(S, n))
  PROVE  m = n
  <1>1. ~(m < n) /\ ~(n < m)
    BY RankGrows
  <1>2. QED
    BY <1>1

LEMMA OldestIsABatch ==
  ASSUME NEW S \in SUBSET Nat, IsFiniteSet(S)
  PROVE  /\ IsFiniteSet(Oldest(S))
         /\ Cardinality(Oldest(S)) \in Nat /\ Cardinality(Oldest(S)) <= BatchSize
  <1> DEFINE rank == [n \in Oldest(S) |-> Cardinality(Older(S, n))]
  <1>1. \A n \in S : Cardinality(Older(S, n)) \in Nat
    BY FS_Subset, FS_CardinalityType DEF Older
  <1>2. rank \in [Oldest(S) -> 0 .. BatchSize - 1]
    <2>1. ASSUME NEW n \in Oldest(S)
          PROVE  Cardinality(Older(S, n)) \in 0 .. BatchSize - 1
      <3>1. Cardinality(Older(S, n)) \in Nat /\ Cardinality(Older(S, n)) < BatchSize
        BY <1>1 DEF Oldest
      <3>2. QED
        BY <3>1, ViewingsAssumption
    <2>2. QED
      BY <2>1
  <1>3. \A m, n \in Oldest(S) : rank[m] = rank[n] => m = n
    BY RanksDiffer DEF Oldest
  <1>4. rank \in Injection(Oldest(S), 0 .. BatchSize - 1)
    BY <1>2, <1>3 DEF Injection, IsInjective
  <1>5. IsFiniteSet(0 .. BatchSize - 1) /\ Cardinality(0 .. BatchSize - 1) = BatchSize
    BY FS_Interval, ViewingsAssumption
  <1>6. IsFiniteSet(Oldest(S)) /\ Cardinality(Oldest(S)) <= BatchSize
    BY <1>4, <1>5, FS_Injection
  <1>7. QED
    BY <1>6, FS_CardinalityType

LEMMA OrderExists ==
  ASSUME NEW S \in SUBSET Nat, IsFiniteSet(S)
  PROVE  \E s \in [1 .. Cardinality(S) -> S] :
           \A i, j \in DOMAIN s : i < j => s[i] < s[j]
  <1> DEFINE rank == [n \in S |-> Cardinality(Older(S, n)) + 1]
             N == Cardinality(S)
  <1>0. N \in Nat
    BY FS_CardinalityType
  <1>1. ASSUME NEW n \in S
        PROVE  Cardinality(Older(S, n)) \in Nat /\ Cardinality(Older(S, n)) < N
    <2>1. Older(S, n) \in SUBSET S /\ n \notin Older(S, n)
      BY DEF Older
    <2>2. /\ IsFiniteSet(Older(S, n)) /\ Cardinality(Older(S, n)) <= N
          /\ Cardinality(Older(S, n)) # N
      BY <2>1, FS_Subset
    <2>3. QED
      BY <1>0, <2>2, FS_CardinalityType
  <1>2. rank \in [S -> 1 .. N]
    BY <1>0, <1>1
  <1>3. \A m, n \in S : rank[m] = rank[n] => m = n
    BY <1>1, RanksDiffer
  <1>4. rank \in Injection(S, 1 .. N)
    BY <1>2, <1>3 DEF Injection, IsInjective
  <1>5. IsFiniteSet(1 .. N) /\ Cardinality(1 .. N) = N
    BY <1>0, FS_Interval
  <1>6. rank \in Surjection(S, 1 .. N)
    BY <1>4, <1>5, FS_Injection
  <1>7. \A i \in 1 .. N : \E n \in S : rank[n] = i
    BY <1>6 DEF Surjection
  <1> DEFINE s == [i \in 1 .. N |-> CHOOSE n \in S : rank[n] = i]
  <1>8. \A i \in 1 .. N : s[i] \in S /\ rank[s[i]] = i
    BY <1>7
  <1>9. s \in [1 .. N -> S]
    BY <1>8
  <1> HIDE DEF s
  <1>10. ASSUME NEW i \in 1 .. N, NEW j \in 1 .. N, i < j
         PROVE  s[i] < s[j]
    <2>1. s[i] \in S /\ s[j] \in S /\ rank[s[i]] = i /\ rank[s[j]] = j
      BY <1>8
    <2>2. Cardinality(Older(S, s[i])) + 1 = i /\ Cardinality(Older(S, s[j])) + 1 = j
      BY <2>1
    <2>3. /\ Cardinality(Older(S, s[i])) \in Nat /\ Cardinality(Older(S, s[j])) \in Nat
          /\ Cardinality(Older(S, s[i])) < Cardinality(Older(S, s[j]))
      <3>1. Cardinality(Older(S, s[i])) \in Nat /\ Cardinality(Older(S, s[j])) \in Nat
        BY <1>1, <2>1
      <3>2. QED
        BY <1>10, <2>2, <3>1
    <2>4. s[i] # s[j]
      BY <2>3
    <2>5. ASSUME s[j] < s[i]
          PROVE  FALSE
      <3>1. Cardinality(Older(S, s[j])) < Cardinality(Older(S, s[i]))
        BY <2>1, <2>5, RankGrows
      <3>2. QED
        BY <2>3, <3>1
    <2>6. s[i] \in Nat /\ s[j] \in Nat
      BY <2>1
    <2>7. QED
      BY <2>4, <2>5, <2>6
  <1>11. QED
    BY <1>9, <1>10

LEMMA ListIsASequence ==
  ASSUME NEW S, NEW n \in Nat, NEW s \in [1 .. n -> S]
  PROVE  s \in Seq(S) /\ Len(s) = n /\ DOMAIN s = 1 .. n
  OBVIOUS

LEMMA WiderSequence ==
  ASSUME NEW S, NEW T, S \subseteq T, NEW s \in Seq(S)
  PROVE  s \in Seq(T)
  <1>1. Len(s) \in Nat /\ s \in [1 .. Len(s) -> S]
    OBVIOUS
  <1>2. s \in [1 .. Len(s) -> T]
    BY <1>1
  <1>3. QED
    BY <1>1, <1>2, ListIsASequence

LEMMA HeadAndTail ==
  ASSUME NEW S, NEW s \in Seq(S), s # <<>>
  PROVE  Head(s) \in S /\ Tail(s) \in Seq(S)
  OBVIOUS

LEMMA OrderIsASequence ==
  ASSUME NEW S \in SUBSET Nat, IsFiniteSet(S)
  PROVE  InOrder(S) \in Seq(S)
  <1>1. InOrder(S) \in [1 .. Cardinality(S) -> S]
    BY OrderExists DEF InOrder
  <1>2. QED
    BY <1>1, FS_CardinalityType
-----------------------------------------------------------------------------
(* What the actions leave alone *)

\* The notifications only grow, at the end.
Grown ==
  /\ notes' \in Seq(NoteType) /\ DOMAIN notes \subseteq DOMAIN notes'
  /\ \A n \in DOMAIN notes : notes'[n] = notes[n]
  /\ \A n \in DOMAIN notes, m \in DOMAIN notes' \ DOMAIN notes : n < m

\* No relay begins, publishes or commits.
QuietRelay ==
  /\ Grown /\ UNCHANGED <<relayed, feed>>
  /\ \A x \in Workers :
       worker'[x].step = "relaying" => worker[x].step = "relaying" /\ worker'[x] = worker[x]

\* No reminder is selected or sent.
QuietReminders ==
  /\ \A v \in ViewingIds : Reminders(notes', v) = Reminders(notes, v)
  /\ \A x \in Workers :
       worker'[x].step = "reminding" => worker[x].step = "reminding" /\ worker'[x] = worker[x]

LEMMA Moved ==
  ASSUME worker \in [Workers -> WorkerType], NEW w \in Workers,
         NEW step, NEW held, NEW batch, Move(w, step, held, batch)
  PROVE  /\ worker'[w].step = step /\ worker'[w].held = held /\ worker'[w].batch = batch
         /\ \A x \in Workers \ {w} : worker'[x] = worker[x]
         /\ step \in Steps /\ held \in SUBSET Rows /\ batch \in Seq(Nat) =>
              worker' \in [Workers -> WorkerType]
  <1> DEFINE record == [step |-> step, held |-> held, batch |-> batch]
  <1>1. worker' = [worker EXCEPT ![w] = record]
    BY DEF Move
  <1>2. record.step = step /\ record.held = held /\ record.batch = batch
    OBVIOUS
  <1>3. step \in Steps /\ held \in SUBSET Rows /\ batch \in Seq(Nat) => record \in WorkerType
    BY DEF WorkerType
  <1> HIDE DEF record
  <1>4. QED
    BY <1>1, <1>2, <1>3

LEMMA NotesAreNumbered ==
  ASSUME notes \in Seq(NoteType)
  PROVE  /\ DOMAIN notes = 1 .. Len(notes) /\ Len(notes) \in Nat
         /\ DOMAIN notes \in SUBSET Nat /\ IsFiniteSet(DOMAIN notes)
  <1>1. DOMAIN notes = 1 .. Len(notes) /\ Len(notes) \in Nat
    OBVIOUS
  <1>2. QED
    BY <1>1, FS_Interval

LEMMA OneMoreNote ==
  ASSUME notes \in Seq(NoteType), NEW n \in NoteType, n.kind # "viewing_reminder",
         notes' = Append(notes, n)
  PROVE  Grown /\ \A v \in ViewingIds : Reminders(notes', v) = Reminders(notes, v)
  <1> DEFINE L == Len(notes)
  <1>1. DOMAIN notes = 1 .. L /\ L \in Nat
    OBVIOUS
  <1>2. notes' \in Seq(NoteType) /\ Len(notes') = L + 1 /\ DOMAIN notes' = 1 .. L + 1
    OBVIOUS
  <1>3. notes'[L + 1] = n /\ \A i \in 1 .. L : notes'[i] = notes[i]
    OBVIOUS
  <1> HIDE DEF L
  <1>4. Grown
    BY <1>1, <1>2, <1>3 DEF Grown
  <1>5. ASSUME NEW v \in ViewingIds
        PROVE  Reminders(notes', v) = Reminders(notes, v)
    <2>1. \A i \in DOMAIN notes' : i \in DOMAIN notes \/ i = L + 1
      BY <1>1, <1>2
    <2>2. QED
      BY <2>1, <1>1, <1>3, <1>4 DEF Reminders, Grown
  <1>6. QED
    BY <1>4, <1>5

LEMMA SameNotes ==
  ASSUME notes \in Seq(NoteType), notes' = notes
  PROVE  Grown /\ \A v \in ViewingIds : Reminders(notes', v) = Reminders(notes, v)
  BY DEF Grown
-----------------------------------------------------------------------------
(* The handlers, and the clock *)

\* A handler locks its viewing: no reminder of it is being sent.
LEMMA NotLocked ==
  ASSUME NEW v, v \notin LockedViewings, NEW w \in Workers, Reminding(w)
  PROVE  v \notin worker[w].held
  BY DEF LockedViewings, Reminding

\* What a step that changes one viewing has to keep.
LEMMA OneViewing ==
  ASSUME DeliveryTyped, ReminderInv, NEW v \in ViewingIds,
         UNCHANGED worker,
         status' \in [ViewingIds -> ViewingStatus \cup {"none"}],
         \A u \in ViewingIds \ {v} :
           status'[u] = status[u] /\ schedule'[u] = schedule[u] /\ (u \in reminded' <=> u \in reminded),
         \A u \in ViewingIds : Reminders(notes', u) = Reminders(notes, u),
         Reminders(notes, v) # {} => v \in reminded' /\ status'[v] \in {"accepted", "cancelled"},
         \A w \in Workers : Reminding(w) /\ v \in worker[w].held =>
           /\ status'[v] = status[v] /\ schedule'[v] \in {"soon", "past"}
           /\ v \in reminded' <=> v \in reminded
  PROVE  ReminderInv'
  <1>1. ReminderLocks'
    <2>1. ASSUME NEW w \in Workers, Reminding(w)
          PROVE  /\ worker[w].held \subseteq ViewingIds
                 /\ \A u \in worker[w].held :
                      /\ status'[u] = "accepted" /\ schedule'[u] \in {"soon", "past"}
                      /\ u \notin reminded'
                 /\ \A x \in Workers \ {w} :
                      Reminding(x) => worker[w].held \cap worker[x].held = {}
      BY <2>1 DEF ReminderInv, ReminderLocks
    <2>2. QED
      BY <2>1 DEF ReminderLocks, Reminding
  <1>2. RemindersMarked'
    BY DEF ReminderInv, RemindersMarked
  <1>3. IsFiniteSet(Requested')
    <2>1. Requested' \in SUBSET (Requested \cup {v})
      BY DEF Requested
    <2>2. IsFiniteSet(Requested \cup {v})
      BY FS_AddElement DEF ReminderInv
    <2>3. QED
      BY <2>1, <2>2, FS_Subset
  <1>4. QED
    BY <1>1, <1>2, <1>3 DEF ReminderInv

LEMMA RelayKeptWhenQuiet ==
  ASSUME RelayInv, QuietRelay
  PROVE  RelayInv'
  <1>1. ASSUME NEW w \in Workers, worker'[w].step = "relaying"
        PROVE  /\ worker'[w].held \subseteq DOMAIN notes' \ relayed'
               /\ worker'[w].batch \in Seq(worker'[w].held)
               /\ \A x \in Workers \ {w} : worker'[x].step = "relaying" =>
                    worker'[w].held \cap worker'[x].held = {}
    <2>1. worker'[w] = worker[w] /\ worker[w].step = "relaying"
      BY <1>1 DEF QuietRelay
    <2>2. \A x \in Workers : worker'[x].step = "relaying" =>
            worker'[x] = worker[x] /\ worker[x].step = "relaying"
      BY DEF QuietRelay
    <2>3. relayed' = relayed /\ DOMAIN notes \subseteq DOMAIN notes'
      BY DEF QuietRelay, Grown
    <2>4. QED
      BY <2>1, <2>2, <2>3 DEF RelayInv, Relaying
  <1>2. QED
    BY <1>1 DEF RelayInv, Relaying

LEMMA PeopleKeep ==
  ASSUME DeliveryInv, People, UNCHANGED feed
  PROVE  DeliveryInv' /\ QuietRelay /\ QuietReminders
  <1> USE DEF DeliveryInv
  <1>1. PICK v \in ViewingIds :
          \/ RequestViewing(v)
          \/ \E d \in {"accepted", "rescheduled", "declined"} : DecideViewing(v, d)
          \/ CancelViewing(v)
          \/ TimePasses(v)
    BY DEF People
  <1>2. UNCHANGED <<relayed, lock, worker, crashes, feed>>
    BY <1>1 DEF RequestViewing, DecideViewing, CancelViewing, TimePasses
  <1> SUFFICES /\ status' \in [ViewingIds -> ViewingStatus \cup {"none"}]
               /\ schedule' \in [ViewingIds -> {"none", "later", "soon", "past"}]
               /\ reminded' \subseteq ViewingIds
               /\ Grown /\ \A u \in ViewingIds : Reminders(notes', u) = Reminders(notes, u)
               /\ ReminderInv'
    <2>1. UNCHANGED <<window, shown, again, overtaken>> /\ UNCHANGED <<lock, worker, crashes, relayed>>
      BY <1>2 DEF feed
    <2>2. QuietRelay /\ QuietReminders
      BY <1>2 DEF QuietRelay, QuietReminders
    <2>3. DeliveryTyped'
      BY <2>1 DEF DeliveryTyped, Grown
    <2>4. QED
      BY <2>2, <2>3, RelayKeptWhenQuiet
  <1>3. CASE RequestViewing(v)
    <2>1. /\ status' = [status EXCEPT ![v] = "pending"] /\ status[v] = "none"
          /\ notes' = Append(notes, Note("owner", "viewing_requested", v))
          /\ UNCHANGED <<schedule, reminded>>
      BY <1>3 DEF RequestViewing
    <2>2. Note("owner", "viewing_requested", v) \in NoteType
      BY DEF Note, NoteType, Kinds
    <2>3. Grown /\ \A u \in ViewingIds : Reminders(notes', u) = Reminders(notes, u)
      BY <2>1, <2>2, OneMoreNote DEF Note, DeliveryTyped
    <2>4. status' \in [ViewingIds -> ViewingStatus \cup {"none"}]
      BY <2>1 DEF DeliveryTyped, ViewingStatus
    <2>5. Reminders(notes, v) = {}
      BY <2>1 DEF ReminderInv, RemindersMarked
    <2>6. \A w \in Workers : Reminding(w) => v \notin worker[w].held
      BY <2>1 DEF ReminderInv, ReminderLocks
    <2>7. ReminderInv'
      BY <1>2, <2>1, <2>3, <2>4, <2>5, <2>6, OneViewing DEF DeliveryTyped
    <2>8. QED
      BY <2>1, <2>3, <2>4, <2>7 DEF DeliveryTyped
  <1>4. ASSUME NEW d \in {"accepted", "rescheduled", "declined"}, DecideViewing(v, d)
        PROVE  /\ status' \in [ViewingIds -> ViewingStatus \cup {"none"}]
               /\ schedule' \in [ViewingIds -> {"none", "later", "soon", "past"}]
               /\ reminded' \subseteq ViewingIds
               /\ Grown /\ \A u \in ViewingIds : Reminders(notes', u) = Reminders(notes, u)
               /\ ReminderInv'
    <2> DEFINE time == IF d = "declined" THEN "none" ELSE "later"
    <2>1. /\ status' = [status EXCEPT ![v] = d] /\ status[v] \in {"pending", "rescheduled"}
          /\ schedule' = [schedule EXCEPT ![v] = time]
          /\ notes' = Append(notes, Note("requester", "viewing_updated", v))
          /\ reminded' = reminded \ {v} /\ v \notin LockedViewings
      BY <1>4 DEF DecideViewing
    <2>2. Note("requester", "viewing_updated", v) \in NoteType
      BY DEF Note, NoteType, Kinds
    <2>3. Grown /\ \A u \in ViewingIds : Reminders(notes', u) = Reminders(notes, u)
      BY <2>1, <2>2, OneMoreNote DEF Note, DeliveryTyped
    <2>4. status' \in [ViewingIds -> ViewingStatus \cup {"none"}]
      BY <2>1 DEF DeliveryTyped, ViewingStatus
    <2>5. Reminders(notes, v) = {}
      BY <2>1 DEF ReminderInv, RemindersMarked
    <2>6. \A w \in Workers : Reminding(w) => v \notin worker[w].held
      BY <2>1, NotLocked
    <2>7. schedule' \in [ViewingIds -> {"none", "later", "soon", "past"}]
      <3>1. time \in {"none", "later", "soon", "past"}
        OBVIOUS
      <3> HIDE DEF time
      <3>2. QED
        BY <2>1, <3>1 DEF DeliveryTyped
    <2>8. \A u \in ViewingIds \ {v} :
            status'[u] = status[u] /\ schedule'[u] = schedule[u] /\ (u \in reminded' <=> u \in reminded)
      BY <2>1 DEF DeliveryTyped
    <2>9. ReminderInv'
      BY <1>2, <2>3, <2>4, <2>5, <2>6, <2>8, OneViewing DEF DeliveryTyped
    <2>10. QED
      BY <2>1, <2>3, <2>4, <2>7, <2>9 DEF DeliveryTyped
  <1>5. CASE CancelViewing(v)
    <2>1. /\ status' = [status EXCEPT ![v] = "cancelled"]
          /\ status[v] \in {"pending", "accepted", "rescheduled"}
          /\ notes' = Append(notes, Note("owner", "viewing_cancelled", v))
          /\ UNCHANGED <<schedule, reminded>> /\ v \notin LockedViewings
      BY <1>5 DEF CancelViewing
    <2>2. Note("owner", "viewing_cancelled", v) \in NoteType
      BY DEF Note, NoteType, Kinds
    <2>3. Grown /\ \A u \in ViewingIds : Reminders(notes', u) = Reminders(notes, u)
      BY <2>1, <2>2, OneMoreNote DEF Note, DeliveryTyped
    <2>4. status' \in [ViewingIds -> ViewingStatus \cup {"none"}]
      BY <2>1 DEF DeliveryTyped, ViewingStatus
    <2>5. \A w \in Workers : Reminding(w) => v \notin worker[w].held
      BY <2>1, NotLocked
    <2>6. Reminders(notes, v) # {} => v \in reminded' /\ status'[v] \in {"accepted", "cancelled"}
      BY <2>1 DEF ReminderInv, RemindersMarked, DeliveryTyped
    <2>7. ReminderInv'
      BY <1>2, <2>1, <2>3, <2>4, <2>5, <2>6, OneViewing DEF DeliveryTyped
    <2>8. QED
      BY <2>1, <2>3, <2>4, <2>7 DEF DeliveryTyped
  <1>6. CASE TimePasses(v)
    <2>1. UNCHANGED <<status, reminded, notes>>
      BY <1>6 DEF TimePasses
    <2>2. PICK time \in {"soon", "past"} : schedule' = [schedule EXCEPT ![v] = time]
      BY <1>6 DEF TimePasses
    <2>3. Grown /\ \A u \in ViewingIds : Reminders(notes', u) = Reminders(notes, u)
      BY <2>1, SameNotes DEF DeliveryTyped
    <2>4. schedule' \in [ViewingIds -> {"none", "later", "soon", "past"}]
      BY <2>2 DEF DeliveryTyped
    <2>5. schedule'[v] \in {"soon", "past"} /\ \A u \in ViewingIds \ {v} : schedule'[u] = schedule[u]
      BY <2>2 DEF DeliveryTyped
    <2>6. Reminders(notes, v) # {} => v \in reminded /\ status[v] \in {"accepted", "cancelled"}
      BY DEF ReminderInv, RemindersMarked
    <2>7. ReminderInv'
      BY <1>2, <2>1, <2>3, <2>5, <2>6, OneViewing DEF DeliveryTyped
    <2>8. QED
      BY <2>1, <2>3, <2>4, <2>7 DEF DeliveryTyped
  <1>7. QED
    BY <1>1, <1>3, <1>4, <1>5, <1>6
-----------------------------------------------------------------------------
(* The maintenance cycle *)

LEMMA LocksKeptWhenQuiet ==
  ASSUME ReminderInv, QuietReminders, UNCHANGED viewing
  PROVE  ReminderInv'
  <1>1. status' = status /\ schedule' = schedule /\ reminded' = reminded
    BY DEF viewing
  <1>2. ReminderLocks'
    <2>1. ASSUME NEW w \in Workers, worker'[w].step = "reminding"
          PROVE  /\ worker'[w].held \subseteq ViewingIds
                 /\ \A v \in worker'[w].held :
                      status[v] = "accepted" /\ schedule[v] \in {"soon", "past"} /\ v \notin reminded
                 /\ \A x \in Workers \ {w} : worker'[x].step = "reminding" =>
                      worker'[w].held \cap worker'[x].held = {}
      <3>1. worker'[w] = worker[w] /\ worker[w].step = "reminding"
        BY <2>1 DEF QuietReminders
      <3>2. \A x \in Workers : worker'[x].step = "reminding" =>
              worker'[x] = worker[x] /\ worker[x].step = "reminding"
        BY DEF QuietReminders
      <3>3. QED
        BY <3>1, <3>2 DEF ReminderInv, ReminderLocks, Reminding
    <2>2. QED
      BY <1>1, <2>1 DEF ReminderLocks, Reminding
  <1>3. RemindersMarked'
    BY <1>1 DEF ReminderInv, RemindersMarked, QuietReminders
  <1>4. Requested' = Requested
    BY <1>1 DEF Requested
  <1>5. QED
    BY <1>2, <1>3, <1>4 DEF ReminderInv

\* What a worker does without selecting, publishing or sending anything.
LEMMA WorkerRests ==
  ASSUME DeliveryInv, NEW w \in Workers, NEW step \in {"asleep", "locked", "relayed", "reminded"},
         Move(w, step, {}, <<>>), UNCHANGED <<viewing, notes, relayed, feed>>
  PROVE  /\ worker' \in [Workers -> WorkerType]
         /\ QuietRelay /\ QuietReminders
         /\ RelayInv' /\ ReminderInv'
  <1>1. worker \in [Workers -> WorkerType] /\ notes \in Seq(NoteType)
    BY DEF DeliveryInv, DeliveryTyped
  <1>2. worker'[w].step = step /\ \A x \in Workers \ {w} : worker'[x] = worker[x]
    BY <1>1, Moved
  <1>3. worker' \in [Workers -> WorkerType]
    <2>1. step \in Steps /\ {} \in SUBSET Rows /\ <<>> \in Seq(Nat)
      BY DEF Steps
    <2>2. QED
      BY <1>1, <2>1, Moved
  <1>4. \A x \in Workers : worker'[x].step \in {"relaying", "reminding"} => worker'[x] = worker[x]
    BY <1>2
  <1>5. QuietRelay /\ QuietReminders
    BY <1>1, <1>4, SameNotes DEF QuietRelay, QuietReminders
  <1>6. QED
    BY <1>3, <1>5, RelayKeptWhenQuiet, LocksKeptWhenQuiet DEF DeliveryInv

LEMMA MaintenanceKeeps ==
  ASSUME DeliveryInv, NEW w \in Workers, UNCHANGED feed,
         AcquireLock(w) \/ ReleaseLock(w) \/ Crash(w)
  PROVE  DeliveryInv' /\ QuietRelay /\ QuietReminders
  <1>1. UNCHANGED <<viewing, notes, relayed>>
    BY DEF AcquireLock, ReleaseLock, Crash
  <1>2. \E step \in {"asleep", "locked", "relayed", "reminded"} : Move(w, step, {}, <<>>)
    BY DEF AcquireLock, ReleaseLock, Crash
  <1>3. /\ worker' \in [Workers -> WorkerType]
        /\ QuietRelay /\ QuietReminders
        /\ RelayInv' /\ ReminderInv'
    BY <1>1, <1>2, WorkerRests
  <1>4. lock' \in Workers \cup {None} /\ crashes' \in 0 .. MaxCrashes
    BY ViewingsAssumption DEF AcquireLock, ReleaseLock, Crash, DeliveryInv, DeliveryTyped
  <1>5. DeliveryTyped'
    BY <1>1, <1>3, <1>4 DEF DeliveryInv, DeliveryTyped, feed, viewing
  <1>6. QED
    BY <1>3, <1>5 DEF DeliveryInv

LEMMA ExpiryKeeps ==
  ASSUME DeliveryInv, LockExpires, UNCHANGED feed
  PROVE  DeliveryInv' /\ QuietRelay /\ QuietReminders
  <1>1. UNCHANGED <<viewing, notes, relayed, worker, crashes>> /\ lock' = None
    BY DEF LockExpires
  <1>2. QuietRelay /\ QuietReminders
    BY <1>1, SameNotes DEF QuietRelay, QuietReminders, DeliveryInv, DeliveryTyped
  <1>3. DeliveryTyped'
    BY <1>1 DEF DeliveryInv, DeliveryTyped, feed, viewing
  <1>4. QED
    BY <1>1, <1>2, <1>3, RelayKeptWhenQuiet, LocksKeptWhenQuiet DEF DeliveryInv

\* The viewings that are selected are due, and nobody else is at them.
LEMMA SelectionKeeps ==
  ASSUME DeliveryInv, NEW w \in Workers, SelectReminders(w), UNCHANGED feed
  PROVE  /\ DeliveryInv' /\ QuietRelay
         /\ \A v \in ViewingIds : Reminders(notes', v) = Reminders(notes, v)
  <1> DEFINE due == {v \in ViewingIds : Due(v) /\ Selectable(v)}
  <1>1. UNCHANGED <<viewing, notes, relayed, lock, crashes>> /\ Move(w, "reminding", due, <<>>)
    BY DEF SelectReminders
  <1>2. worker \in [Workers -> WorkerType] /\ notes \in Seq(NoteType)
    BY DEF DeliveryInv, DeliveryTyped
  <1>3. /\ worker'[w].step = "reminding" /\ worker'[w].held = due
        /\ \A x \in Workers \ {w} : worker'[x] = worker[x]
    BY <1>1, <1>2, Moved
  <1>4. worker' \in [Workers -> WorkerType]
    <2>1. "reminding" \in Steps /\ due \in SUBSET Rows /\ <<>> \in Seq(Nat)
      BY DEF Steps, Rows
    <2> HIDE DEF due
    <2>2. QED
      BY <1>1, <1>2, <2>1, Moved
  <1>5. QuietRelay
    BY <1>1, <1>2, <1>3, SameNotes DEF QuietRelay
  <1>6. DeliveryTyped'
    BY <1>1, <1>4 DEF DeliveryInv, DeliveryTyped, feed, viewing
  <1>7. \A v \in due : status[v] = "accepted" /\ schedule[v] = "soon" /\ v \notin reminded
    BY DEF Due
  <1>8. \A x \in Workers : Reminding(x) => worker[x].held \cap due = {}
    BY DEF Selectable, LockedViewings, Reminding
  <1>9. ReminderLocks'
    <2>1. ASSUME NEW y \in Workers, worker'[y].step = "reminding"
          PROVE  /\ worker'[y].held \subseteq ViewingIds
                 /\ \A v \in worker'[y].held :
                      status[v] = "accepted" /\ schedule[v] \in {"soon", "past"} /\ v \notin reminded
                 /\ \A x \in Workers \ {y} : worker'[x].step = "reminding" =>
                      worker'[y].held \cap worker'[x].held = {}
      <3>1. CASE y = w
        BY <1>3, <1>7, <1>8, <3>1 DEF Reminding
      <3>2. CASE y # w
        <4>1. worker'[y] = worker[y] /\ Reminding(y)
          BY <1>3, <2>1, <3>2 DEF Reminding
        <4>2. \A x \in Workers \ {y} : worker'[x].step = "reminding" =>
                worker[y].held \cap worker'[x].held = {}
          BY <1>3, <1>8, <4>1 DEF DeliveryInv, ReminderInv, ReminderLocks, Reminding
        <4>3. QED
          BY <4>1, <4>2 DEF DeliveryInv, ReminderInv, ReminderLocks
      <3>3. QED
        BY <3>1, <3>2
    <2>2. QED
      BY <1>1, <2>1 DEF ReminderLocks, Reminding, viewing
  <1>10. RemindersMarked' /\ IsFiniteSet(Requested')
    BY <1>1 DEF DeliveryInv, ReminderInv, RemindersMarked, Requested, viewing
  <1>11. QED
    BY <1>1, <1>5, <1>6, <1>9, <1>10, RelayKeptWhenQuiet DEF DeliveryInv, ReminderInv

LEMMA RemindersAreFinite ==
  ASSUME NEW due, IsFiniteSet(due)
  PROVE  IsFiniteSet(RemindersOf(due)) /\ Cardinality(RemindersOf(due)) \in Nat
  <1> DEFINE parties == {"requester", "owner"}
             note == [p \in parties \X due |-> Note(p[1], "viewing_reminder", p[2])]
  <1>1. IsFiniteSet(parties)
    <2>1. IsFiniteSet({"requester"})
      BY FS_Singleton
    <2>2. IsFiniteSet({"requester"} \cup {"owner"})
      BY <2>1, FS_AddElement
    <2>3. parties = {"requester"} \cup {"owner"}
      OBVIOUS
    <2>4. QED
      BY <2>2, <2>3
  <1>2. IsFiniteSet(parties \X due)
    BY <1>1, FS_Product
  <1>3. note \in [parties \X due -> RemindersOf(due)]
    BY DEF RemindersOf
  <1>4. ASSUME NEW r \in RemindersOf(due)
        PROVE  \E p \in parties \X due : note[p] = r
    <2>1. PICK to \in parties, v \in due : r = Note(to, "viewing_reminder", v)
      BY DEF RemindersOf
    <2>2. <<to, v>> \in parties \X due /\ note[<<to, v>>] = r
      BY <2>1
    <2>3. QED
      BY <2>2
  <1>5. note \in Surjection(parties \X due, RemindersOf(due))
    BY <1>3, <1>4 DEF Surjection
  <1>6. IsFiniteSet(RemindersOf(due))
    BY <1>2, <1>5, FS_Surjection
  <1>7. QED
    BY <1>6, FS_CardinalityType

\* Every step reminds of a viewing at most once, and then both parties.
RemindersDue ==
  \A v \in ViewingIds :
    Reminders(notes', v) # Reminders(notes, v) =>
      /\ Reminders(notes, v) = {} /\ Cardinality(Reminders(notes', v)) = 2
      /\ status'[v] = "accepted" /\ schedule[v] \in {"soon", "past"}

LEMMA PairHasTwo ==
  ASSUME NEW a, NEW b, a # b
  PROVE  Cardinality({a, b}) = 2
  <1>1. IsFiniteSet({a}) /\ Cardinality({a}) = 1
    BY FS_Singleton
  <1>2. b \notin {a} /\ {a} \cup {b} = {a, b}
    OBVIOUS
  <1>3. Cardinality({a} \cup {b}) = Cardinality({a}) + 1
    BY <1>1, <1>2, FS_AddElement
  <1>4. QED
    BY <1>1, <1>2, <1>3

LEMMA Concatenated ==
  ASSUME NEW S, NEW a \in Seq(S), NEW b \in Seq(S)
  PROVE  /\ a \o b \in Seq(S) /\ Len(a \o b) = Len(a) + Len(b)
         /\ DOMAIN (a \o b) = 1 .. Len(a) + Len(b)
         /\ \A i \in 1 .. Len(a) : (a \o b)[i] = a[i]
         /\ \A i \in 1 .. Len(b) : (a \o b)[Len(a) + i] = b[i]
  OBVIOUS

\* A list of the reminders of some viewings has each of them once: appended to
\* the notifications, it adds exactly two for each of the viewings.
LEMMA TwoForEach ==
  ASSUME notes \in Seq(NoteType), NEW due \in SUBSET ViewingIds, IsFiniteSet(due),
         NEW s \in [1 .. Cardinality(RemindersOf(due)) -> RemindersOf(due)],
         {s[i] : i \in DOMAIN s} = RemindersOf(due),
         notes' = notes \o s
  PROVE  /\ Grown
         /\ \A v \in ViewingIds \ due : Reminders(notes', v) = Reminders(notes, v)
         /\ \A v \in due : Reminders(notes, v) = {} =>
              Reminders(notes', v) # {} /\ Cardinality(Reminders(notes', v)) = 2
  <1> DEFINE N == Cardinality(RemindersOf(due))
             L == Len(notes)
  <1>0. N \in Nat /\ L \in Nat /\ DOMAIN notes = 1 .. L
    BY RemindersAreFinite
  <1>1. /\ s \in [1 .. N -> RemindersOf(due)] /\ N = Cardinality(RemindersOf(due))
        /\ s \in Seq(RemindersOf(due)) /\ Len(s) = N /\ DOMAIN s = 1 .. N
    <2>1. s \in [1 .. N -> RemindersOf(due)] /\ N = Cardinality(RemindersOf(due))
      OBVIOUS
    <2> HIDE DEF N
    <2>2. N \in Nat
      BY <1>0
    <2>3. QED
      BY <2>1, <2>2, ListIsASequence
  <1> HIDE DEF N
  <1>2. RemindersOf(due) \subseteq NoteType
    BY DEF RemindersOf, NoteType, Note, Kinds
  <1>3. s \in Seq(NoteType)
    BY <1>1, <1>2
  <1>4. notes' \in Seq(NoteType) /\ Len(notes') = L + N /\ DOMAIN notes' = 1 .. L + N
    <2>1. /\ notes \o s \in Seq(NoteType) /\ Len(notes \o s) = Len(notes) + Len(s)
          /\ DOMAIN (notes \o s) = 1 .. Len(notes) + Len(s)
      BY <1>3, Concatenated
    <2>2. QED
      BY <1>1, <2>1
  <1>5. /\ \A i \in 1 .. L : notes'[i] = notes[i]
        /\ \A i \in 1 .. N : notes'[L + i] = s[i]
    BY <1>1, <1>3, Concatenated
  <1> HIDE DEF L
  <1>6. \A i, j \in 1 .. N : s[i] = s[j] => i = j
    <2>1. \A r \in RemindersOf(due) : \E i \in 1 .. N : s[i] = r
      BY <1>1
    <2>2. s \in Surjection(1 .. N, RemindersOf(due))
      BY <1>1, <2>1 DEF Surjection
    <2>3. IsFiniteSet(1 .. N) /\ Cardinality(1 .. N) = N
      BY <1>0, FS_Interval
    <2>4. s \in Injection(1 .. N, RemindersOf(due))
      BY <1>1, <2>2, <2>3, FS_SurjSameCardinalityImpliesInj
    <2>5. QED
      BY <1>1, <2>4 DEF Injection, IsInjective
  <1>7. \A r \in RemindersOf(due) : \E i \in 1 .. N : s[i] = r
    BY <1>1
  <1>8. \A i \in 1 .. N : s[i] \in RemindersOf(due)
    BY <1>1
  <1>9. \A i \in DOMAIN notes' : i \in DOMAIN notes \/ \E k \in 1 .. N : i = L + k
    <2>1. ASSUME NEW i \in 1 .. L + N, i \notin 1 .. L
          PROVE  i - L \in 1 .. N /\ i = L + (i - L)
      BY <1>0, <2>1
    <2>2. QED
      BY <1>0, <1>4, <2>1
  <1>10. Grown
    BY <1>0, <1>4, <1>5 DEF Grown
  <1>11. ASSUME NEW v \in ViewingIds \ due
         PROVE  Reminders(notes', v) = Reminders(notes, v)
    <2>0. \A r \in RemindersOf(due) : r.viewing # v
      BY DEF RemindersOf, Note
    <2>1. \A k \in 1 .. N : notes'[L + k].viewing # v
      BY <1>5, <1>8, <2>0
    <2>2. QED
      BY <1>9, <1>10, <2>1 DEF Reminders, Grown
  <1>12. ASSUME NEW v \in due, Reminders(notes, v) = {}
         PROVE  Reminders(notes', v) # {} /\ Cardinality(Reminders(notes', v)) = 2
    <2> DEFINE first == Note("requester", "viewing_reminder", v)
               second == Note("owner", "viewing_reminder", v)
    <2>1. first \in RemindersOf(due) /\ second \in RemindersOf(due)
      BY DEF RemindersOf
    <2>2. first # second
      BY DEF Note
    <2>3. \A r \in RemindersOf(due) :
            r.kind = "viewing_reminder" /\ (r.viewing = v <=> r = first \/ r = second)
      BY DEF RemindersOf, Note
    <2> HIDE DEF first, second
    <2>4. PICK i \in 1 .. N, j \in 1 .. N : s[i] = first /\ s[j] = second
      BY <1>7, <2>1
    <2>5. \A k \in 1 .. N :
            L + k \in DOMAIN notes'
            /\ notes'[L + k].kind = "viewing_reminder"
            /\ (notes'[L + k].viewing = v <=> k = i \/ k = j)
      <3>1. ASSUME NEW k \in 1 .. N
            PROVE  /\ notes'[L + k].kind = "viewing_reminder"
                   /\ (notes'[L + k].viewing = v <=> k = i \/ k = j)
        <4>1. notes'[L + k] = s[k] /\ s[k] \in RemindersOf(due)
          BY <1>5, <1>8
        <4>2. s[k] = first <=> k = i
          BY <1>6, <2>4
        <4>3. s[k] = second <=> k = j
          BY <1>6, <2>4
        <4>4. QED
          BY <2>3, <4>1, <4>2, <4>3
      <3>2. \A k \in 1 .. N : L + k \in 1 .. L + N
        BY <1>0
      <3>3. QED
        BY <1>4, <3>1, <3>2
    <2>6. \A k \in DOMAIN notes :
            ~(notes'[k].kind = "viewing_reminder" /\ notes'[k].viewing = v)
      BY <1>10, <1>12 DEF Reminders, Grown
    <2>7. Reminders(notes', v) = {L + i, L + j}
      BY <1>9, <2>5, <2>6 DEF Reminders
    <2>8. L + i # L + j
      BY <1>0, <2>2, <2>4
    <2>9. QED
      BY <2>7, <2>8, PairHasTwo
  <1>13. QED
    BY <1>10, <1>11, <1>12

\* The commit of the reminders: the viewings are locked, hence still accepted,
\* and not marked, hence not reminded of before.
LEMMA SendingKeeps ==
  ASSUME DeliveryInv, NEW w \in Workers, CommitReminders(w), UNCHANGED feed
  PROVE  DeliveryInv' /\ QuietRelay /\ RemindersDue
  <1> DEFINE due == worker[w].held
  <1>1. /\ Reminding(w)
        /\ reminded' = reminded \cup due
        /\ UNCHANGED <<status, schedule, relayed, lock, crashes>>
        /\ Move(w, "reminded", {}, <<>>)
    BY DEF CommitReminders, Reminding
  <1>2. /\ due \in SUBSET ViewingIds
        /\ \A v \in due : status[v] = "accepted" /\ schedule[v] \in {"soon", "past"} /\ v \notin reminded
        /\ \A x \in Workers \ {w} : Reminding(x) => due \cap worker[x].held = {}
    BY <1>1 DEF DeliveryInv, ReminderInv, ReminderLocks
  <1>3. IsFiniteSet(due)
    <2>1. due \in SUBSET Requested
      BY <1>2 DEF Requested
    <2>2. QED
      BY <2>1, FS_Subset DEF DeliveryInv, ReminderInv
  <1>4. \A v \in due : Reminders(notes, v) = {}
    BY <1>2 DEF DeliveryInv, ReminderInv, RemindersMarked
  <1>5. worker \in [Workers -> WorkerType] /\ notes \in Seq(NoteType)
    BY DEF DeliveryInv, DeliveryTyped
  <1>6. PICK s \in [1 .. Cardinality(RemindersOf(due)) -> RemindersOf(due)] :
          {s[i] : i \in DOMAIN s} = RemindersOf(due) /\ notes' = notes \o s
    BY DEF CommitReminders
  <1> HIDE DEF due
  <1>7. /\ Grown
        /\ \A v \in ViewingIds \ due : Reminders(notes', v) = Reminders(notes, v)
        /\ \A v \in due :
             Reminders(notes', v) # {} /\ Cardinality(Reminders(notes', v)) = 2
    BY <1>2, <1>3, <1>4, <1>5, <1>6, TwoForEach
  <1>8. RemindersDue
    BY <1>1, <1>2, <1>4, <1>7 DEF RemindersDue
  <1>9. /\ worker' \in [Workers -> WorkerType] /\ worker'[w].step = "reminded"
        /\ \A x \in Workers \ {w} : worker'[x] = worker[x]
    <2>1. "reminded" \in Steps /\ {} \in SUBSET Rows /\ <<>> \in Seq(Nat)
      BY DEF Steps
    <2>2. QED
      BY <1>1, <1>5, <2>1, Moved
  <1>10. \A x \in Workers : worker'[x].step \in {"relaying", "reminding"} =>
           x # w /\ worker'[x] = worker[x]
    BY <1>9
  <1>11. QuietRelay
    BY <1>1, <1>7, <1>10 DEF QuietRelay
  <1>12. DeliveryTyped'
    BY <1>1, <1>2, <1>7, <1>9 DEF DeliveryInv, DeliveryTyped, Grown, feed
  <1>13. ReminderLocks'
    <2>1. ASSUME NEW y \in Workers, worker'[y].step = "reminding"
          PROVE  /\ worker'[y].held \subseteq ViewingIds
                 /\ \A v \in worker'[y].held :
                      status[v] = "accepted" /\ schedule[v] \in {"soon", "past"} /\ v \notin reminded'
                 /\ \A x \in Workers \ {y} : worker'[x].step = "reminding" =>
                      worker'[y].held \cap worker'[x].held = {}
      <3>1. y # w /\ worker'[y] = worker[y] /\ Reminding(y)
        BY <1>10, <2>1 DEF Reminding
      <3>2. due \cap worker[y].held = {}
        BY <1>2, <3>1
      <3>3. \A x \in Workers \ {y} : worker'[x].step = "reminding" =>
              Reminding(x) /\ worker'[x] = worker[x]
        BY <1>10 DEF Reminding
      <3>4. QED
        BY <1>1, <3>1, <3>2, <3>3 DEF DeliveryInv, ReminderInv, ReminderLocks
    <2>2. QED
      BY <1>1, <2>1 DEF ReminderLocks, Reminding
  <1>14. RemindersMarked'
    <2>1. ASSUME NEW v \in ViewingIds, Reminders(notes', v) # {}
          PROVE  v \in reminded' /\ status'[v] \in {"accepted", "cancelled"}
      <3>1. CASE v \in due
        BY <1>1, <1>2, <3>1
      <3>2. CASE v \notin due
        BY <1>1, <1>7, <2>1, <3>2 DEF DeliveryInv, ReminderInv, RemindersMarked
      <3>3. QED
        BY <3>1, <3>2
    <2>2. QED
      BY <2>1 DEF RemindersMarked
  <1>15. IsFiniteSet(Requested')
    BY <1>1 DEF DeliveryInv, ReminderInv, Requested
  <1>16. QED
    BY <1>8, <1>11, <1>12, <1>13, <1>14, <1>15, RelayKeptWhenQuiet DEF DeliveryInv, ReminderInv
-----------------------------------------------------------------------------
(* The relay *)

\* A relay cycle selects rows that nobody has locked.
LEMMA RelayBegins ==
  ASSUME DeliveryInv, NEW w \in Workers, BeginRelay(w)
  PROVE  /\ DeliveryInv' /\ notes' = notes
         /\ worker'[w].step = "relaying" /\ worker'[w].held = Oldest(Pending)
         /\ \A x \in Workers \ {w} : worker'[x] = worker[x]
  <1> DEFINE batch == Oldest(Pending)
  <1>1. /\ UNCHANGED <<viewing, notes, relayed, lock, crashes>>
        /\ Move(w, "relaying", batch, InOrder(batch))
        /\ UNCHANGED <<window, shown, again>>
        /\ overtaken' = (overtaken \/ \E x \in Workers : Relaying(x))
    BY DEF BeginRelay, SelectNotes
  <1>2. worker \in [Workers -> WorkerType] /\ notes \in Seq(NoteType)
    BY DEF DeliveryInv, DeliveryTyped
  <1>3. /\ Pending \subseteq DOMAIN notes \ relayed
        /\ Pending \in SUBSET Nat /\ IsFiniteSet(Pending)
    BY <1>2, NotesAreNumbered, FS_Subset DEF Pending
  <1>4. /\ batch \subseteq Pending
        /\ batch \in SUBSET Nat /\ IsFiniteSet(batch)
    BY <1>3, FS_Subset DEF Oldest
  <1>5. \A x \in Workers : Relaying(x) => batch \cap worker[x].held = {}
    BY <1>4 DEF Pending, LockedNotes, Relaying
  <1> HIDE DEF batch
  <1>6. InOrder(batch) \in Seq(batch) /\ InOrder(batch) \in Seq(Nat)
    <2>1. InOrder(batch) \in Seq(batch)
      BY <1>4, OrderIsASequence
    <2>2. QED
      BY <1>4, <2>1, WiderSequence
  <1>7. /\ worker' \in [Workers -> WorkerType]
        /\ worker'[w].step = "relaying" /\ worker'[w].held = batch
        /\ worker'[w].batch = InOrder(batch)
        /\ \A x \in Workers \ {w} : worker'[x] = worker[x]
    <2>1. "relaying" \in Steps /\ batch \in SUBSET Rows
      BY <1>4 DEF Steps, Rows
    <2>2. QED
      BY <1>1, <1>2, <1>6, <2>1, Moved
  <1>8. overtaken' \in BOOLEAN
    BY <1>1
  <1>9. DeliveryTyped'
    BY <1>1, <1>7, <1>8 DEF DeliveryInv, DeliveryTyped, viewing
  <1>10. RelayInv'
    <2>1. ASSUME NEW y \in Workers, worker'[y].step = "relaying"
          PROVE  /\ worker'[y].held \subseteq DOMAIN notes \ relayed
                 /\ worker'[y].batch \in Seq(worker'[y].held)
                 /\ \A x \in Workers \ {y} : worker'[x].step = "relaying" =>
                      worker'[y].held \cap worker'[x].held = {}
      <3>1. CASE y = w
        BY <1>3, <1>4, <1>5, <1>6, <1>7, <3>1 DEF Relaying
      <3>2. CASE y # w
        <4>1. worker'[y] = worker[y] /\ Relaying(y)
          BY <1>7, <2>1, <3>2 DEF Relaying
        <4>2. \A x \in Workers \ {y} : worker'[x].step = "relaying" =>
                worker[y].held \cap worker'[x].held = {}
          BY <1>5, <1>7, <4>1 DEF DeliveryInv, RelayInv, Relaying
        <4>3. QED
          BY <4>1, <4>2 DEF DeliveryInv, RelayInv
      <3>3. QED
        BY <3>1, <3>2
    <2>2. QED
      BY <1>1, <2>1 DEF RelayInv, Relaying
  <1>11. QuietReminders
    BY <1>1, <1>7 DEF QuietReminders
  <1>12. QED
    BY <1>1, <1>7, <1>9, <1>10, <1>11, LocksKeptWhenQuiet DEF DeliveryInv, batch

\* Marking a batch takes nothing from the batches of the others.
LEMMA RelayCommits ==
  ASSUME DeliveryInv, NEW w \in Workers, CommitRelay(w), UNCHANGED feed
  PROVE  /\ DeliveryInv' /\ notes' = notes
         /\ Relaying(w) /\ relayed' = relayed \cup worker[w].held
         /\ worker'[w].step = "relayed" /\ \A x \in Workers \ {w} : worker'[x] = worker[x]
  <1>1. /\ Relaying(w) /\ relayed' = relayed \cup worker[w].held
        /\ UNCHANGED <<viewing, notes, lock, crashes>> /\ Move(w, "relayed", {}, <<>>)
    BY DEF CommitRelay, Marked, Relaying
  <1>2. worker \in [Workers -> WorkerType] /\ notes \in Seq(NoteType)
    BY DEF DeliveryInv, DeliveryTyped
  <1>3. /\ worker' \in [Workers -> WorkerType]
        /\ worker'[w].step = "relayed" /\ \A x \in Workers \ {w} : worker'[x] = worker[x]
    <2>1. "relayed" \in Steps /\ {} \in SUBSET Rows /\ <<>> \in Seq(Nat)
      BY DEF Steps
    <2>2. QED
      BY <1>1, <1>2, <2>1, Moved
  <1>4. worker[w].held \subseteq DOMAIN notes
    BY <1>1 DEF DeliveryInv, RelayInv
  <1>5. DeliveryTyped'
    BY <1>1, <1>3, <1>4 DEF DeliveryInv, DeliveryTyped, feed, viewing
  <1>6. RelayInv'
    <2>1. ASSUME NEW y \in Workers, worker'[y].step = "relaying"
          PROVE  /\ worker'[y].held \subseteq DOMAIN notes \ relayed'
                 /\ worker'[y].batch \in Seq(worker'[y].held)
                 /\ \A x \in Workers \ {y} : worker'[x].step = "relaying" =>
                      worker'[y].held \cap worker'[x].held = {}
      <3>1. y # w /\ worker'[y] = worker[y] /\ Relaying(y)
        BY <1>3, <2>1 DEF Relaying
      <3>2. worker[y].held \cap worker[w].held = {}
        BY <1>1, <3>1 DEF DeliveryInv, RelayInv
      <3>3. \A x \in Workers \ {y} : worker'[x].step = "relaying" =>
              Relaying(x) /\ worker'[x] = worker[x]
        BY <1>3 DEF Relaying
      <3>4. QED
        BY <1>1, <3>1, <3>2, <3>3 DEF DeliveryInv, RelayInv
    <2>2. QED
      BY <1>1, <2>1 DEF RelayInv, Relaying
  <1>7. QuietReminders
    BY <1>1, <1>3 DEF QuietReminders
  <1>8. QED
    BY <1>1, <1>3, <1>5, <1>6, <1>7, LocksKeptWhenQuiet DEF DeliveryInv

\* The window after a new identifier: the oldest left it if it was full.
LEMMA WindowMoves ==
  ASSUME window \in Seq(Nat), Len(window) <= WindowSize, NEW n \in Nat
  PROVE  /\ Kept(Append(window, n)) \in Seq(Nat)
         /\ Len(Kept(Append(window, n))) <= WindowSize
         /\ \E d \in {0, 1} :
              /\ d = 1 => Len(window) = WindowSize
              /\ DOMAIN Kept(Append(window, n)) = 1 .. Len(window) + 1 - d
              /\ \A i \in 1 .. Len(window) - d : Kept(Append(window, n))[i] = window[i + d]
              /\ Kept(Append(window, n))[Len(window) + 1 - d] = n
  <1> DEFINE longer == Append(window, n)
             L == Len(window)
  <1>1. L \in Nat /\ WindowSize \in Nat /\ WindowSize > 0 /\ L <= WindowSize
    BY WindowAssumption
  <1>2. /\ longer \in Seq(Nat) /\ Len(longer) = L + 1 /\ DOMAIN longer = 1 .. L + 1
        /\ \A i \in 1 .. L : longer[i] = window[i]
        /\ longer[L + 1] = n
    OBVIOUS
  <1> HIDE DEF longer, L
  <1>3. CASE L = WindowSize
    <2>1. Kept(longer) = Tail(longer)
      BY <1>1, <1>2, <1>3 DEF Kept
    <2>2. /\ Tail(longer) \in Seq(Nat) /\ Len(Tail(longer)) = L
          /\ DOMAIN Tail(longer) = 1 .. L
          /\ \A i \in 1 .. L : Tail(longer)[i] = longer[i + 1]
      BY <1>1, <1>2
    <2>3. \A i \in 1 .. L - 1 : Tail(longer)[i] = window[i + 1]
      BY <1>1, <1>2, <2>2
    <2>4. Tail(longer)[L] = n
      BY <1>1, <1>2, <1>3, <2>2
    <2>5. L + 1 - 1 = L
      BY <1>1
    <2>6. QED
      BY <1>1, <1>3, <2>1, <2>2, <2>3, <2>4, <2>5 DEF longer, L
  <1>4. CASE L # WindowSize
    <2>1. Kept(longer) = longer /\ Len(longer) <= WindowSize
      BY <1>1, <1>2, <1>4 DEF Kept
    <2>2. /\ DOMAIN longer = 1 .. L + 1 - 0 /\ longer[L + 1 - 0] = n
          /\ \A i \in 1 .. L - 0 : longer[i] = window[i + 0]
      BY <1>1, <1>2
    <2>3. QED
      BY <1>2, <2>1, <2>2 DEF longer, L
  <1>5. QED
    BY <1>3, <1>4

\* A publication is of a row of the batch; whether the event reaches the client
\* is open.
LEMMA RelayPublishes ==
  ASSUME DeliveryInv, NEW w \in Workers, NEW n \in DOMAIN notes, Publication(w, n)
  PROVE  /\ DeliveryInv' /\ notes' = notes /\ relayed' = relayed
         /\ Relaying(w) /\ n \in worker[w].held
         /\ worker'[w].step = "relaying" /\ worker'[w].held = worker[w].held
         /\ \A x \in Workers \ {w} : worker'[x] = worker[x]
  <1>1. /\ Relaying(w) /\ worker[w].batch # <<>> /\ n = Head(worker[w].batch)
        /\ UNCHANGED <<viewing, notes, relayed, lock, crashes>>
        /\ Move(w, "relaying", worker[w].held, Tail(worker[w].batch))
        /\ Accept(n) \/ UNCHANGED feed
    BY DEF Publication, Publish, Relaying
  <1>2. worker \in [Workers -> WorkerType] /\ notes \in Seq(NoteType)
    BY DEF DeliveryInv, DeliveryTyped
  <1>3. /\ worker[w].held \subseteq DOMAIN notes \ relayed
        /\ worker[w].batch \in Seq(worker[w].held)
    BY <1>1 DEF DeliveryInv, RelayInv
  <1>4. n \in worker[w].held /\ Tail(worker[w].batch) \in Seq(worker[w].held)
    BY <1>1, <1>3, HeadAndTail
  <1>5. DOMAIN notes \subseteq Nat
    BY <1>2, NotesAreNumbered
  <1>6. /\ worker' \in [Workers -> WorkerType]
        /\ worker'[w].step = "relaying" /\ worker'[w].held = worker[w].held
        /\ worker'[w].batch = Tail(worker[w].batch)
        /\ \A x \in Workers \ {w} : worker'[x] = worker[x]
    <2>1. "relaying" \in Steps /\ worker[w].held \in SUBSET Rows
      BY <1>3, <1>5 DEF Steps, Rows
    <2>2. Tail(worker[w].batch) \in Seq(Nat)
      <3>1. worker[w].held \subseteq Nat
        BY <1>3, <1>5
      <3>2. QED
        BY <1>4, <3>1, WiderSequence
    <2> DEFINE held == worker[w].held
               tail == Tail(worker[w].batch)
    <2>3. Move(w, "relaying", held, tail) /\ held \in SUBSET Rows /\ tail \in Seq(Nat)
      BY <1>1, <2>1, <2>2
    <2> HIDE DEF held, tail
    <2>4. /\ worker' \in [Workers -> WorkerType]
          /\ worker'[w].step = "relaying" /\ worker'[w].held = held /\ worker'[w].batch = tail
          /\ \A x \in Workers \ {w} : worker'[x] = worker[x]
      BY <1>2, <2>1, <2>3, Moved
    <2>5. QED
      BY <2>4 DEF held, tail
  <1>7. /\ window' \in Seq(Nat) /\ Len(window') <= WindowSize
        /\ shown' \subseteq DOMAIN notes /\ again' \in BOOLEAN /\ overtaken' \in BOOLEAN
    <2>1. CASE UNCHANGED feed
      BY <2>1 DEF DeliveryInv, DeliveryTyped, feed
    <2>2. CASE Accept(n) /\ ~UNCHANGED feed
      <3>1. /\ window' = Kept(Append(window, n)) /\ shown' = shown \cup {n}
            /\ again' = (again \/ n \in shown) /\ UNCHANGED overtaken
        BY <2>2 DEF Accept
      <3>2. window \in Seq(Nat) /\ Len(window) <= WindowSize /\ n \in Nat
        BY <1>5 DEF DeliveryInv, DeliveryTyped
      <3>3. QED
        BY <3>1, <3>2, WindowMoves DEF DeliveryInv, DeliveryTyped
    <2>3. QED
      BY <1>1, <2>1, <2>2
  <1>8. DeliveryTyped'
    BY <1>1, <1>6, <1>7 DEF DeliveryInv, DeliveryTyped, viewing
  <1>9. RelayInv'
    <2>1. ASSUME NEW y \in Workers, worker'[y].step = "relaying"
          PROVE  /\ worker'[y].held \subseteq DOMAIN notes \ relayed
                 /\ worker'[y].batch \in Seq(worker'[y].held)
                 /\ \A x \in Workers \ {y} : worker'[x].step = "relaying" =>
                      worker'[y].held \cap worker'[x].held = {}
      <3>1. \A x \in Workers : worker'[x].step = "relaying" =>
              Relaying(x) /\ worker'[x].held = worker[x].held
        BY <1>1, <1>6 DEF Relaying
      <3>2. worker'[y].batch \in Seq(worker[y].held)
        BY <1>4, <1>6, <2>1 DEF DeliveryInv, RelayInv, Relaying
      <3>3. QED
        BY <2>1, <3>1, <3>2 DEF DeliveryInv, RelayInv
    <2>2. QED
      BY <1>1, <2>1 DEF RelayInv, Relaying
  <1>10. QuietReminders
    BY <1>1, <1>6 DEF QuietReminders
  <1>11. QED
    BY <1>1, <1>4, <1>6, <1>8, <1>9, <1>10, LocksKeptWhenQuiet DEF DeliveryInv
-----------------------------------------------------------------------------
(* Types, locks and reminders *)

LEMMA StutterKeeps ==
  ASSUME DeliveryInv, UNCHANGED vars
  PROVE  DeliveryInv' /\ QuietRelay /\ QuietReminders
  <1>1. UNCHANGED <<viewing, notes, relayed, lock, worker, crashes, feed>>
    BY DEF vars, server
  <1>2. QuietRelay /\ QuietReminders
    BY <1>1, SameNotes DEF QuietRelay, QuietReminders, DeliveryInv, DeliveryTyped
  <1>3. DeliveryTyped'
    BY <1>1 DEF DeliveryInv, DeliveryTyped, viewing, feed
  <1>4. QED
    BY <1>1, <1>2, <1>3, RelayKeptWhenQuiet, LocksKeptWhenQuiet DEF DeliveryInv

\* Every step is one of the relay, or leaves it alone.
LEMMA DeliverySteps ==
  ASSUME DeliveryInv, [Next]_vars
  PROVE  /\ DeliveryInv' /\ RemindersDue
         /\ \/ QuietRelay
            \/ \E w \in Workers :
                 \/ BeginRelay(w)
                 \/ \E n \in DOMAIN notes : Publication(w, n)
                 \/ CommitRelay(w) /\ UNCHANGED feed
  <1>1. CASE UNCHANGED vars
    BY <1>1, StutterKeeps DEF QuietReminders, RemindersDue
  <1>2. CASE (People \/ LockExpires) /\ UNCHANGED feed
    BY <1>2, PeopleKeep, ExpiryKeeps DEF QuietReminders, RemindersDue
  <1>3. ASSUME NEW w \in Workers, Crash(w), UNCHANGED feed
        PROVE  DeliveryInv' /\ QuietRelay /\ RemindersDue
    BY <1>3, MaintenanceKeeps DEF QuietReminders, RemindersDue
  <1>4. ASSUME NEW w \in Workers, Cycle(w)
        PROVE  /\ DeliveryInv' /\ RemindersDue
               /\ \/ QuietRelay
                  \/ BeginRelay(w)
                  \/ \E n \in DOMAIN notes : Publication(w, n)
                  \/ CommitRelay(w) /\ UNCHANGED feed
    <2>1. CASE BeginRelay(w)
      BY <2>1, RelayBegins DEF RemindersDue
    <2>2. CASE \E n \in DOMAIN notes : Publication(w, n)
      BY <2>2, RelayPublishes DEF RemindersDue
    <2>3. CASE CommitRelay(w) /\ UNCHANGED feed
      BY <2>3, RelayCommits DEF RemindersDue
    <2>4. CASE (AcquireLock(w) \/ ReleaseLock(w)) /\ UNCHANGED feed
      BY <2>4, MaintenanceKeeps DEF QuietReminders, RemindersDue
    <2>5. CASE SelectReminders(w) /\ UNCHANGED feed
      BY <2>5, SelectionKeeps DEF RemindersDue
    <2>6. CASE CommitReminders(w) /\ UNCHANGED feed
      BY <2>6, SendingKeeps
    <2>7. QED
      BY <1>4, <2>1, <2>2, <2>3, <2>4, <2>5, <2>6 DEF Cycle
  <1>5. QED
    BY <1>1, <1>2, <1>3, <1>4 DEF Next

LEMMA DeliveryInvInit == DeliveryInit => DeliveryInv
  <1> SUFFICES ASSUME DeliveryInit
               PROVE  DeliveryInv
    OBVIOUS
  <1>1. /\ status = [v \in ViewingIds |-> "none"] /\ schedule = [v \in ViewingIds |-> "none"]
        /\ reminded = {} /\ notes = <<>> /\ relayed = {} /\ lock = None
        /\ worker = [w \in Workers |-> Asleep] /\ crashes = 0
        /\ window = <<>> /\ shown = {} /\ again = FALSE /\ overtaken = FALSE
    BY DEF DeliveryInit, Init, FeedInit
  <1>2. Asleep \in WorkerType
    BY DEF Asleep, WorkerType, Steps
  <1>3. DeliveryTyped
    <2>1. /\ status \in [ViewingIds -> ViewingStatus \cup {"none"}]
          /\ schedule \in [ViewingIds -> {"none", "later", "soon", "past"}]
      BY <1>1 DEF ViewingStatus
    <2>2. worker \in [Workers -> WorkerType]
      BY <1>1, <1>2
    <2>3. crashes \in 0 .. MaxCrashes
      BY <1>1, ViewingsAssumption
    <2>4. /\ notes \in Seq(NoteType) /\ DOMAIN notes = {}
          /\ window \in Seq(Nat) /\ Len(window) = 0 /\ 0 <= WindowSize
      BY <1>1, WindowAssumption
    <2>5. QED
      BY <1>1, <2>1, <2>2, <2>3, <2>4 DEF DeliveryTyped
  <1>4. \A w \in Workers : worker[w].step = "asleep"
    BY <1>1 DEF Asleep
  <1>5. RelayInv /\ ReminderLocks
    BY <1>4 DEF RelayInv, ReminderLocks, Relaying, Reminding
  <1>6. \A v \in ViewingIds : Reminders(notes, v) = {}
    BY <1>1 DEF Reminders
  <1>7. Requested = {}
    BY <1>1 DEF Requested
  <1>8. QED
    BY <1>3, <1>5, <1>6, <1>7, FS_EmptySet DEF DeliveryInv, ReminderInv, RemindersMarked

\* The induction, for any number of workers, viewings, notifications and crashes.
THEOREM DeliveryIsSound == Spec => []DeliveryInv
  <1>1. DeliveryInv /\ [Next]_vars => DeliveryInv'
    BY DeliverySteps
  <1>2. QED
    BY <1>1, DeliveryInvInit, PTL DEF Spec

\* Two workers never have the same notification locked, nor one that is marked,
\* and the tables, the workers and the client keep their types.
THEOREM DeliveryTypes == Spec => []TypeOK
  <1>1. DeliveryInv => TypeOK
    BY DEF DeliveryInv, DeliveryTyped, RelayInv, TypeOK
  <1>2. QED
    BY <1>1, DeliveryIsSound, PTL

\* A viewing is reminded of once for each party, while it is accepted and when
\* its time has come, however workers overlap, crash and lose their lock.
THEOREM RemindersAreDueHolds == Spec => RemindersAreDue
  <1> DEFINE Step == \A v \in ViewingIds :
               Reminders(notes', v) # Reminders(notes, v) =>
                 /\ Reminders(notes, v) = {} /\ Cardinality(Reminders(notes', v)) = 2
                 /\ status'[v] = "accepted" /\ schedule[v] \in {"soon", "past"}
  <1>1. DeliveryInv /\ [Next]_vars => [Step]_vars
    <2>1. ASSUME DeliveryInv, [Next]_vars
          PROVE  Step
      BY <2>1, DeliverySteps DEF RemindersDue
    <2> HIDE DEF Step
    <2>2. QED
      BY <2>1
  <1>2. Spec => [][Step]_vars
    <2> HIDE DEF Step
    <2>1. QED
      BY <1>1, DeliveryIsSound, PTL DEF Spec
  <1>3. QED
    BY <1>2 DEF RemindersAreDue
-----------------------------------------------------------------------------
(* The window *)

\* New notifications do not move the old ones out of the oldest batch.
LEMMA OldestStays ==
  ASSUME DeliveryTyped, Grown, relayed' = relayed
  PROVE  Oldest(Unrelayed) \subseteq Oldest(DOMAIN notes' \ relayed')
  <1>1. ASSUME NEW n \in Oldest(Unrelayed)
        PROVE  n \in Oldest(DOMAIN notes' \ relayed')
    <2>1. n \in Unrelayed /\ n \in DOMAIN notes /\ Cardinality(Older(Unrelayed, n)) < BatchSize
      BY DEF Oldest, Unrelayed
    <2>2. ASSUME NEW m \in DOMAIN notes' \ relayed', m < n
          PROVE  m \in Unrelayed
      <3>1. CASE m \in DOMAIN notes
        BY <3>1, <2>2 DEF Unrelayed
      <3>2. CASE m \notin DOMAIN notes
        <4>1. n < m
          BY <2>1, <3>2 DEF Grown
        <4>2. m \in Nat /\ n \in Nat
          BY <2>1 DEF Grown
        <4>3. QED
          BY <2>2, <4>1, <4>2
      <3>3. QED
        BY <3>1, <3>2
    <2>3. Unrelayed \subseteq DOMAIN notes' \ relayed'
      BY DEF Unrelayed, Grown
    <2>4. Older(DOMAIN notes' \ relayed', n) = Older(Unrelayed, n)
      BY <2>2, <2>3 DEF Older
    <2>5. QED
      BY <2>1, <2>3, <2>4 DEF Oldest
  <1>2. QED
    BY <1>1

LEMMA WindowKeptWhenQuiet ==
  ASSUME DeliveryTyped, ShownOnce, QuietRelay
  PROVE  ShownOnce'
  <1> SUFFICES ASSUME ~overtaken'
               PROVE  ~again' /\ WindowInv' /\ BatchInv'
    BY DEF ShownOnce
  <1>1. /\ relayed' = relayed /\ window' = window /\ shown' = shown
        /\ again' = again /\ overtaken' = overtaken
        /\ Grown
    BY DEF QuietRelay, feed
  <1>2. ~again /\ WindowInv /\ BatchInv
    BY <1>1 DEF ShownOnce
  <1>3. Oldest(Unrelayed) \subseteq Oldest(DOMAIN notes' \ relayed')
    BY <1>1, OldestStays
  <1>4. WindowInv'
    <2>1. shown \ relayed \subseteq Oldest(DOMAIN notes' \ relayed')
      BY <1>2, <1>3 DEF WindowInv
    <2>2. QED
      BY <1>1, <1>2, <2>1 DEF WindowInv, Unrelayed
  <1>5. ASSUME NEW w \in Workers, worker'[w].step = "relaying"
        PROVE  /\ \A x \in Workers : worker'[x].step = "relaying" => x = w
               /\ worker'[w].held \subseteq Oldest(DOMAIN notes' \ relayed')
               /\ shown \ relayed \subseteq worker'[w].held
    <2>1. worker'[w] = worker[w] /\ Relaying(w)
      BY <1>5 DEF QuietRelay, Relaying
    <2>2. \A x \in Workers : worker'[x].step = "relaying" => Relaying(x)
      BY DEF QuietRelay, Relaying
    <2>3. QED
      BY <1>2, <1>3, <2>1, <2>2 DEF BatchInv
  <1>6. BatchInv'
    BY <1>1, <1>5 DEF BatchInv, Relaying, Unrelayed
  <1>7. QED
    BY <1>1, <1>2, <1>4, <1>6

\* Alone, a relay selects the oldest batch of all that is not marked.
LEMMA WindowKeptByBegin ==
  ASSUME DeliveryInv, ShownOnce, NEW w \in Workers, BeginRelay(w)
  PROVE  ShownOnce'
  <1> SUFFICES ASSUME ~overtaken'
               PROVE  ~again' /\ WindowInv' /\ BatchInv'
    BY DEF ShownOnce
  <1>1. /\ UNCHANGED <<notes, relayed, window, shown, again>>
        /\ overtaken' = (overtaken \/ \E x \in Workers : Relaying(x))
    BY DEF BeginRelay, SelectNotes
  <1>2. ~overtaken /\ \A x \in Workers : ~Relaying(x)
    BY <1>1
  <1>3. ~again /\ WindowInv
    BY <1>2 DEF ShownOnce
  <1>4. /\ worker'[w].step = "relaying" /\ worker'[w].held = Oldest(Pending)
        /\ \A x \in Workers \ {w} : worker'[x] = worker[x]
    BY RelayBegins
  <1>5. Pending = Unrelayed
    <2>1. LockedNotes = {}
      BY <1>2 DEF LockedNotes, Relaying
    <2>2. QED
      BY <2>1 DEF Pending, Unrelayed
  <1>6. WindowInv'
    BY <1>1, <1>3 DEF WindowInv, Unrelayed
  <1>7. \A x \in Workers : worker'[x].step = "relaying" => x = w
    BY <1>2, <1>4 DEF Relaying
  <1>8. shown \ relayed \subseteq Oldest(Unrelayed)
    BY <1>3 DEF WindowInv
  <1>9. BatchInv'
    BY <1>1, <1>4, <1>5, <1>7, <1>8 DEF BatchInv, Relaying, Unrelayed
  <1>10. QED
    BY <1>1, <1>3, <1>6, <1>9

\* The commit of the one relay marks all that was shown.
LEMMA WindowKeptByCommit ==
  ASSUME DeliveryInv, ShownOnce, NEW w \in Workers, CommitRelay(w), UNCHANGED feed
  PROVE  ShownOnce'
  <1> SUFFICES ASSUME ~overtaken'
               PROVE  ~again' /\ WindowInv' /\ BatchInv'
    BY DEF ShownOnce
  <1>1. /\ Relaying(w) /\ relayed' = relayed \cup worker[w].held
        /\ worker'[w].step = "relayed" /\ \A x \in Workers \ {w} : worker'[x] = worker[x]
    BY RelayCommits
  <1>2. /\ window' = window /\ shown' = shown
        /\ again' = again /\ overtaken' = overtaken
    BY DEF feed
  <1>3. ~again /\ WindowInv /\ BatchInv
    BY <1>2 DEF ShownOnce
  <1>4. shown \subseteq relayed'
    BY <1>1, <1>3 DEF BatchInv
  <1>5. WindowInv'
    BY <1>2, <1>3, <1>4 DEF WindowInv
  <1>6. \A x \in Workers : worker'[x].step # "relaying"
    BY <1>1, <1>3 DEF BatchInv, Relaying
  <1>7. BatchInv'
    BY <1>6 DEF BatchInv, Relaying
  <1>8. QED
    BY <1>2, <1>3, <1>5, <1>7

\* An identifier that is not marked leaves the window only if it is longer than
\* a batch of identifiers that are not marked, which it is not.
LEMMA WindowIsLongEnough ==
  ASSUME DeliveryInv, WindowInv, BatchSize <= WindowSize, NEW n \in Oldest(Unrelayed),
         n \notin shown, Len(window) = WindowSize
  PROVE  window[1] \in relayed
  <1> SUFFICES ASSUME window[1] \notin relayed
               PROVE  FALSE
    OBVIOUS
  <1>1. /\ window \in Seq(Nat) /\ notes \in Seq(NoteType)
        /\ WindowSize \in Nat /\ WindowSize > 0 /\ DOMAIN window = 1 .. WindowSize
    BY WindowAssumption DEF DeliveryInv, DeliveryTyped
  <1>2. \A i \in 1 .. WindowSize : window[i] \in shown \ relayed
    <2>1. ASSUME NEW i \in 1 .. WindowSize, window[i] \in relayed
          PROVE  FALSE
      <3>1. i # 1 /\ 1 \in 1 .. WindowSize /\ 1 < i
        BY <1>1, <2>1
      <3>2. QED
        BY <1>1, <2>1, <3>1 DEF WindowInv
    <2>2. QED
      BY <1>1, <2>1 DEF WindowInv
  <1>3. Unrelayed \in SUBSET Nat /\ IsFiniteSet(Unrelayed)
    BY <1>1, NotesAreNumbered, FS_Subset DEF Unrelayed
  <1> DEFINE batch == Oldest(Unrelayed)
             place == [i \in 1 .. WindowSize + 1 |-> IF i = WindowSize + 1 THEN n ELSE window[i]]
  <1>4. IsFiniteSet(batch) /\ Cardinality(batch) \in Nat /\ Cardinality(batch) <= BatchSize
    BY <1>3, OldestIsABatch
  <1>5. \A i \in 1 .. WindowSize : window[i] \in batch /\ window[i] # n
    BY <1>2 DEF WindowInv
  <1> HIDE DEF batch
  <1>6. n \in batch
    BY DEF batch
  <1>7. place \in [1 .. WindowSize + 1 -> batch]
    <2>1. ASSUME NEW i \in 1 .. WindowSize + 1, i # WindowSize + 1
          PROVE  i \in 1 .. WindowSize
      BY <1>1, <2>1
    <2>2. QED
      BY <1>5, <1>6, <2>1
  <1>8. IsFiniteSet(1 .. WindowSize + 1) /\ Cardinality(1 .. WindowSize + 1) = WindowSize + 1
    BY <1>1, FS_Interval
  <1>9. Cardinality(batch) < WindowSize + 1
    BY <1>1, <1>4, ViewingsAssumption
  <1>10. PICK i \in 1 .. WindowSize + 1, j \in 1 .. WindowSize + 1 : i # j /\ place[i] = place[j]
    <2> HIDE DEF place
    <2>1. QED
      BY <1>4, <1>7, <1>8, <1>9, FS_PigeonHole
  <1>11. i = WindowSize + 1 \/ i \in 1 .. WindowSize
    BY <1>1
  <1>12. j = WindowSize + 1 \/ j \in 1 .. WindowSize
    BY <1>1
  <1>13. \A k \in 1 .. WindowSize : place[k] = window[k] /\ k # WindowSize + 1
    BY <1>1
  <1>14. place[WindowSize + 1] = n
    BY <1>1
  <1> HIDE DEF place
  <1>15. \A k, l \in 1 .. WindowSize : k # l => place[k] # place[l]
    <2>1. \A k, l \in 1 .. WindowSize : k # l => window[k] # window[l]
      BY <1>1 DEF WindowInv
    <2>2. QED
      BY <1>13, <2>1
  <1>16. \A k \in 1 .. WindowSize : place[k] # place[WindowSize + 1]
    BY <1>5, <1>13, <1>14
  <1>17. QED
    BY <1>10, <1>11, <1>12, <1>15, <1>16

\* A publication of what was shown finds it in the window; any other adds an
\* identifier to the window, and one that is marked leaves it.
LEMMA WindowKeptByPublication ==
  ASSUME DeliveryInv, ShownOnce, BatchSize <= WindowSize,
         NEW w \in Workers, NEW n \in DOMAIN notes, Publication(w, n)
  PROVE  ShownOnce'
  <1> SUFFICES ASSUME ~overtaken'
               PROVE  ~again' /\ WindowInv' /\ BatchInv'
    BY DEF ShownOnce
  <1>1. /\ notes' = notes /\ relayed' = relayed
        /\ Relaying(w) /\ n \in worker[w].held
        /\ worker'[w].step = "relaying" /\ worker'[w].held = worker[w].held
        /\ \A x \in Workers \ {w} : worker'[x] = worker[x]
    BY RelayPublishes
  <1>2. Accept(n) \/ UNCHANGED feed
    BY DEF Publication
  <1>3. overtaken' = overtaken
    BY <1>2 DEF Accept, feed
  <1>4. ~again /\ WindowInv /\ BatchInv
    BY <1>3 DEF ShownOnce
  <1>5. n \in Oldest(Unrelayed) /\ n \notin relayed
    BY <1>1, <1>4 DEF BatchInv, Oldest, Unrelayed
  <1>6. /\ shown' = shown \/ shown' = shown \cup {n}
        /\ ~again' /\ WindowInv'
    <2>1. CASE UNCHANGED feed
      BY <1>1, <1>4, <2>1 DEF feed, WindowInv, Unrelayed
    <2>2. CASE Accept(n) /\ ~UNCHANGED feed
      <3>1. /\ \A i \in DOMAIN window : window[i] # n
            /\ window' = Kept(Append(window, n)) /\ shown' = shown \cup {n}
            /\ again' = (again \/ n \in shown)
        BY <2>2 DEF Accept
      <3>2. n \notin shown
        BY <1>4, <1>5, <3>1 DEF WindowInv
      <3> DEFINE L == Len(window)
      <3>3. /\ window \in Seq(Nat) /\ L \in Nat /\ L <= WindowSize /\ DOMAIN window = 1 .. L
            /\ WindowSize \in Nat /\ WindowSize > 0 /\ n \in Nat
        BY NotesAreNumbered, WindowAssumption DEF DeliveryInv, DeliveryTyped
      <3>4. PICK d \in {0, 1} :
              /\ d = 1 => L = WindowSize
              /\ DOMAIN window' = 1 .. L + 1 - d
              /\ \A i \in 1 .. L - d : window'[i] = window[i + d]
              /\ window'[L + 1 - d] = n
        BY <3>1, <3>3, WindowMoves
      <3>5. d = 1 => window[1] \in relayed
        BY <1>4, <1>5, <3>2, <3>4, WindowIsLongEnough
      <3> HIDE DEF L
      <3>6. \A i \in DOMAIN window' : i = L + 1 - d \/ (i \in 1 .. L - d /\ i + d \in 1 .. L)
        BY <3>3, <3>4
      <3>7. \A i \in DOMAIN window' :
              window'[i] = n \/ (i + d \in 1 .. L /\ window'[i] = window[i + d])
        BY <3>4, <3>6
      <3>8. \A i \in DOMAIN window' : window'[i] \in shown'
        BY <1>4, <3>1, <3>3, <3>7 DEF WindowInv
      <3>9. ASSUME NEW i \in DOMAIN window', NEW j \in DOMAIN window', i < j
            PROVE  window'[i] # window'[j] /\ (window'[j] \in relayed => window'[i] \in relayed)
        <4>1. i \in 1 .. L - d /\ i + d \in 1 .. L /\ window'[i] = window[i + d]
          <5>1. i \in 1 .. L + 1 - d /\ j \in 1 .. L + 1 - d
            BY <3>4
          <5>2. i # L + 1 - d
            BY <3>3, <3>9, <5>1
          <5>3. QED
            BY <3>4, <3>6, <5>2
        <4>2. CASE j = L + 1 - d
          BY <1>5, <3>1, <3>3, <3>4, <4>1, <4>2
        <4>3. CASE j # L + 1 - d
          <5>1. j + d \in 1 .. L /\ window'[j] = window[j + d]
            BY <3>4, <3>6, <4>3
          <5>2. i + d < j + d
            BY <3>3, <3>4, <3>9
          <5>3. i + d # j + d
            BY <3>3, <3>4, <3>9
          <5>4. QED
            BY <1>4, <3>3, <4>1, <5>1, <5>2, <5>3 DEF WindowInv
        <4>4. QED
          BY <4>2, <4>3
      <3>10. ASSUME NEW i \in DOMAIN window', NEW j \in DOMAIN window', i # j
             PROVE  window'[i] # window'[j]
        <4>1. i < j \/ j < i
          BY <3>3, <3>4, <3>10
        <4>2. QED
          BY <3>9, <4>1
      <3>11. ASSUME NEW m \in shown' \ relayed
             PROVE  \E i \in DOMAIN window' : window'[i] = m
        <4>1. CASE m = n
          <5>1. L + 1 - d \in DOMAIN window'
            BY <3>3, <3>4
          <5>2. QED
            BY <3>4, <4>1, <5>1
        <4>2. CASE m # n
          <5>1. PICK k \in 1 .. L : window[k] = m
            BY <1>4, <3>1, <3>3, <3>11, <4>2 DEF WindowInv
          <5>2. d = 1 => k # 1
            BY <3>5, <3>11, <5>1
          <5>3. k - d \in 1 .. L - d /\ k - d + d = k /\ k - d \in DOMAIN window'
            BY <3>3, <3>4, <5>2
          <5>4. window'[k - d] = m
            BY <3>4, <5>1, <5>3
          <5>5. QED
            BY <5>3, <5>4
        <4>3. QED
          BY <4>1, <4>2
      <3>12. shown' \ relayed \subseteq Oldest(Unrelayed)
        BY <1>4, <1>5, <3>1 DEF WindowInv
      <3>13. WindowInv'
        BY <1>1, <3>8, <3>9, <3>10, <3>11, <3>12 DEF WindowInv, Unrelayed
      <3>14. QED
        BY <1>4, <3>1, <3>2, <3>13
    <2>3. QED
      BY <1>2, <2>1, <2>2
  <1>7. \A x \in Workers : worker'[x].step = "relaying" =>
          Relaying(x) /\ worker'[x].held = worker[x].held
    BY <1>1 DEF Relaying
  <1>8. shown' \ relayed \subseteq worker[w].held
    BY <1>1, <1>4, <1>6 DEF BatchInv
  <1>9. \A x \in Workers : worker'[x].step = "relaying" => x = w
    BY <1>1, <1>4, <1>7 DEF BatchInv
  <1>10. worker[w].held \subseteq Oldest(Unrelayed)
    BY <1>1, <1>4 DEF BatchInv
  <1>11. BatchInv'
    BY <1>1, <1>7, <1>8, <1>9, <1>10 DEF BatchInv, Relaying, Unrelayed
  <1>12. QED
    BY <1>6, <1>11

LEMMA ShownOnceInit == DeliveryInit => ShownOnce
  <1> SUFFICES ASSUME DeliveryInit
               PROVE  ShownOnce
    OBVIOUS
  <1>1. /\ worker = [w \in Workers |-> Asleep]
        /\ window = <<>> /\ shown = {} /\ again = FALSE
    BY DEF DeliveryInit, Init, FeedInit
  <1>2. BatchInv
    BY <1>1 DEF BatchInv, Relaying, Asleep
  <1>3. DOMAIN window = {}
    BY <1>1
  <1>4. QED
    BY <1>1, <1>2, <1>3 DEF ShownOnce, WindowInv

\* The client shows no notification twice, whatever is lost and whoever crashes,
\* unless two workers relayed at the same time: the window has to be as long as
\* a batch, and the argument is that it never forgets what may come again.
THEOREM NoneIsShownTwice ==
  ASSUME BatchSize <= WindowSize
  PROVE  Spec => []NoneShownTwice
  <1>1. DeliveryInv /\ ShownOnce /\ [Next]_vars => ShownOnce'
    <2> SUFFICES ASSUME DeliveryInv, ShownOnce, [Next]_vars
                 PROVE  ShownOnce'
      OBVIOUS
    <2>1. CASE QuietRelay
      BY <2>1, WindowKeptWhenQuiet DEF DeliveryInv
    <2>2. CASE \E w \in Workers :
                 \/ BeginRelay(w)
                 \/ \E n \in DOMAIN notes : Publication(w, n)
                 \/ CommitRelay(w) /\ UNCHANGED feed
      BY <2>2, WindowKeptByBegin, WindowKeptByPublication, WindowKeptByCommit
    <2>3. QED
      BY <2>1, <2>2, DeliverySteps
  <1>2. ShownOnce => NoneShownTwice
    BY DEF ShownOnce, NoneShownTwice
  <1>3. QED
    BY <1>1, <1>2, ShownOnceInit, DeliveryIsSound, PTL DEF Spec
=============================================================================
