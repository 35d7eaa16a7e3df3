-------------------------------- MODULE Viewings --------------------------------
(***************************************************************************)
(* Viewing requests (routes/engagement.py), their reminders by the         *)
(* maintenance worker (services/maintenance.py, worker.py) and the relay   *)
(* of the notifications they insert (services/realtime.py).                *)
(*                                                                         *)
(* Handlers lock the viewing and commit once: one action each, which waits *)
(* for the row.  A worker alternates relay and maintenance cycles; it may  *)
(* crash and restart, and the Redis lock of the maintenance cycle may      *)
(* expire under it.  Selecting FOR UPDATE SKIP LOCKED is one action.       *)
(*                                                                         *)
(* notes lists the notifications in the order of the relay (created_at,    *)
(* here the order of their commits).  The property of a viewing stays      *)
(* active; a maintenance cycle is due after every relay cycle; the expiry  *)
(* of bookings, its other half, is in RentalTransactions.                  *)
(***************************************************************************)
EXTENDS Naturals, Sequences, FiniteSets

CONSTANTS ViewingIds, Workers, None,
          BatchSize,     \* notification_relay_batch_size
          MaxNotes,      \* bound: decisions end when so many notifications exist
          MaxCrashes     \* bound: crashes of workers

ASSUME ViewingsAssumption ==
  /\ BatchSize \in Nat \ {0} /\ MaxNotes \in Nat /\ MaxCrashes \in Nat
  /\ None \notin ViewingIds \cup Workers

VARIABLES status,     \* viewing -> its status ("none": no row)
          schedule,   \* viewing -> scheduled_at against now: none, later, soon, past
          reminded,   \* the viewings whose reminder_sent_at is set
          notes,      \* committed notifications
          relayed,    \* those whose realtime_published_at is set
          lock,       \* the worker named by mosala:maintenance:lock, if any
          worker,     \* where each worker is, and the rows it has locked
          crashes

viewing == <<status, schedule, reminded>>
server == <<viewing, notes, relayed, lock, worker, crashes>>

Asleep == [step |-> "asleep", held |-> {}, batch |-> <<>>]

ViewingStatus == {"pending", "accepted", "declined", "rescheduled", "cancelled"}

Note(to, kind, v) == [to |-> to, kind |-> kind, viewing |-> v]

LockedViewings == UNION {worker[w].held : w \in {x \in Workers : worker[x].step = "reminding"}}
LockedNotes == UNION {worker[w].held : w \in {x \in Workers : worker[x].step = "relaying"}}

Init ==
  /\ status = [v \in ViewingIds |-> "none"]
  /\ schedule = [v \in ViewingIds |-> "none"]
  /\ reminded = {} /\ notes = <<>> /\ relayed = {}
  /\ lock = None
  /\ worker = [w \in Workers |-> Asleep]
  /\ crashes = 0
-----------------------------------------------------------------------------
(* The handlers *)

RequestViewing(v) ==
  /\ status[v] = "none"
  /\ status' = [status EXCEPT ![v] = "pending"]
  /\ notes' = Append(notes, Note("owner", "viewing_requested", v))
  /\ UNCHANGED <<schedule, reminded, relayed, lock, worker, crashes>>

\* Accepting and rescheduling name a time in the future, declining names none.
\* A time within the reminder window is one that TimePasses brings there.
DecideViewing(v, decision) ==
  /\ Len(notes) < MaxNotes
  /\ v \notin LockedViewings
  /\ status[v] \in {"pending", "rescheduled"}
  /\ status' = [status EXCEPT ![v] = decision]
  /\ schedule' = [schedule EXCEPT ![v] = IF decision = "declined" THEN "none" ELSE "later"]
  /\ reminded' = reminded \ {v}
  /\ notes' = Append(notes, Note("requester", "viewing_updated", v))
  /\ UNCHANGED <<relayed, lock, worker, crashes>>

CancelViewing(v) ==
  /\ v \notin LockedViewings
  /\ status[v] \in {"pending", "accepted", "rescheduled"}
  /\ status' = [status EXCEPT ![v] = "cancelled"]
  /\ notes' = Append(notes, Note("owner", "viewing_cancelled", v))
  /\ UNCHANGED <<schedule, reminded, relayed, lock, worker, crashes>>

\* The clock: a viewing comes within viewing_reminder_hours, and passes.
TimePasses(v) ==
  /\ \/ schedule[v] = "later" /\ schedule' = [schedule EXCEPT ![v] = "soon"]
     \/ schedule[v] = "soon"  /\ schedule' = [schedule EXCEPT ![v] = "past"]
  /\ UNCHANGED <<status, reminded, notes, relayed, lock, worker, crashes>>
-----------------------------------------------------------------------------
(* The maintenance cycle *)

Move(w, step, held, batch) ==
  worker' = [worker EXCEPT ![w] = [step |-> step, held |-> held, batch |-> batch]]

\* Without the lock the worker goes back to sleep.
AcquireLock(w) ==
  /\ worker[w].step = "relayed"
  /\ \/ lock = None /\ lock' = w /\ Move(w, "locked", {}, <<>>)
     \/ lock # None /\ UNCHANGED lock /\ Move(w, "asleep", {}, <<>>)
  /\ UNCHANGED <<viewing, notes, relayed, crashes>>

\* The TTL of the key runs out, whether or not its worker still works.
LockExpires ==
  /\ lock # None
  /\ lock' = None
  /\ UNCHANGED <<viewing, notes, relayed, worker, crashes>>

\* Mutant: FOR UPDATE is missing.
SelectableM(v) == TRUE
Selectable(v) == v \notin LockedViewings

\* Mutant: the comparison with the end of the reminder window is reversed.
DueM(v) == status[v] = "accepted" /\ schedule[v] = "later" /\ v \notin reminded
Due(v) == status[v] = "accepted" /\ schedule[v] = "soon" /\ v \notin reminded

SelectReminders(w) ==
  /\ worker[w].step = "locked"
  /\ Move(w, "reminding", {v \in ViewingIds : Due(v) /\ Selectable(v)}, <<>>)
  /\ UNCHANGED <<viewing, notes, relayed, lock, crashes>>

\* Two notifications for each viewing, and one commit for all.
RemindersOf(due) ==
  {Note(to, "viewing_reminder", v) : to \in {"requester", "owner"}, v \in due}

CommitReminders(w) ==
  LET reminders == RemindersOf(worker[w].held) IN
  /\ worker[w].step = "reminding"
  /\ reminded' = reminded \cup worker[w].held
  /\ \E s \in [1 .. Cardinality(reminders) -> reminders] :
       /\ {s[i] : i \in DOMAIN s} = reminders
       /\ notes' = notes \o s
  /\ Move(w, "reminded", {}, <<>>)
  /\ UNCHANGED <<status, schedule, relayed, lock, crashes>>

\* The lock is deleted only if it is still the worker's own.
ReleaseLock(w) ==
  /\ worker[w].step = "reminded"
  /\ lock' = IF lock = w THEN None ELSE lock
  /\ Move(w, "asleep", {}, <<>>)
  /\ UNCHANGED <<viewing, notes, relayed, crashes>>
-----------------------------------------------------------------------------
(* The relay *)

\* Mutant: rows that another relay has locked are not skipped.
PendingM == DOMAIN notes \ relayed
Pending == {n \in DOMAIN notes : n \notin relayed /\ n \notin LockedNotes}

\* ORDER BY created_at LIMIT batch_size.
Older(S, n) == {m \in S : m < n}
Oldest(S) == {n \in S : Cardinality(Older(S, n)) < BatchSize}
InOrder(S) == CHOOSE s \in [1 .. Cardinality(S) -> S] :
                \A i, j \in DOMAIN s : i < j => s[i] < s[j]

\* The oldest notifications that are neither published nor locked.
SelectNotes(w) ==
  /\ worker[w].step = "asleep"
  /\ Move(w, "relaying", Oldest(Pending), InOrder(Oldest(Pending)))
  /\ UNCHANGED <<viewing, notes, relayed, lock, crashes>>

\* Redis passes the event on to who is subscribed at this moment.
Publish(w, n) ==
  /\ worker[w].step = "relaying" /\ worker[w].batch # <<>>
  /\ n = Head(worker[w].batch)
  /\ Move(w, "relaying", worker[w].held, Tail(worker[w].batch))
  /\ UNCHANGED <<viewing, notes, relayed, lock, crashes>>

\* Mutant: the first row of a batch is not marked.
MarkedM(w) == {n \in worker[w].held : \E m \in worker[w].held : m < n}
Marked(w) == worker[w].held

CommitRelay(w) ==
  /\ worker[w].step = "relaying" /\ worker[w].batch = <<>>
  /\ relayed' = relayed \cup Marked(w)
  /\ Move(w, "relayed", {}, <<>>)
  /\ UNCHANGED <<viewing, notes, lock, crashes>>

\* A statement, Redis or the process fails: the transaction rolls back.  An
\* exception releases the lock of the maintenance cycle; a crash does not.
Crash(w) ==
  /\ crashes < MaxCrashes
  /\ worker[w].step # "asleep"
  /\ crashes' = crashes + 1
  /\ \/ UNCHANGED lock
     \/ worker[w].step \in {"locked", "reminding", "reminded"} /\ lock = w /\ lock' = None
  /\ Move(w, "asleep", {}, <<>>)
  /\ UNCHANGED <<viewing, notes, relayed>>
=============================================================================
