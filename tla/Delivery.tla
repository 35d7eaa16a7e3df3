-------------------------------- MODULE Delivery --------------------------------
(***************************************************************************)
(* Viewings composed with the requester's realtime client, which keeps a   *)
(* window of the identifiers it has seen (realtime_client.dart) behind the *)
(* socket of routes/realtime.py.  RealtimeClient says when a connection    *)
(* listens; here an event that is published reaches the client or is lost, *)
(* at once: Redis and the socket keep the order of the publications.       *)
(***************************************************************************)
EXTENDS Viewings

CONSTANT WindowSize     \* identifiers kept by _seenNotificationIds

ASSUME WindowAssumption == WindowSize \in Nat \ {0}

VARIABLES window,        \* _seenNotificationIds, oldest first
          shown,         \* history: notifications added to the event stream
          again,         \* history: one was added twice
          overtaken      \* history: two workers relayed at the same time

feed == <<window, shown, again, overtaken>>
vars == <<server, feed>>

FeedInit ==
  /\ window = <<>> /\ shown = {}
  /\ again = FALSE /\ overtaken = FALSE

DeliveryInit == Init /\ FeedInit
-----------------------------------------------------------------------------
\* Mutant: the newest identifier is forgotten instead of the oldest.
KeptM(s) == IF Len(s) > WindowSize THEN SubSeq(s, 1, WindowSize) ELSE s
Kept(s) == IF Len(s) > WindowSize THEN Tail(s) ELSE s

\* _acceptNotification and the event stream.
Accept(n) ==
  IF \E i \in DOMAIN window : window[i] = n
    THEN UNCHANGED feed
    ELSE /\ window' = Kept(Append(window, n))
         /\ shown' = shown \cup {n}
         /\ again' = (again \/ n \in shown)
         /\ UNCHANGED overtaken

Publication(w, n) ==
  /\ Publish(w, n)
  /\ \/ notes[n].to = "requester" /\ Accept(n)
     \/ UNCHANGED feed

Relaying(w) == worker[w].step = "relaying"

BeginRelay(w) ==
  /\ SelectNotes(w)
  /\ overtaken' = (overtaken \/ \E x \in Workers : Relaying(x))
  /\ UNCHANGED <<window, shown, again>>

Cycle(w) ==
  \/ BeginRelay(w)
  \/ \E n \in DOMAIN notes : Publication(w, n)
  \/ /\ CommitRelay(w) \/ AcquireLock(w) \/ SelectReminders(w)
          \/ CommitReminders(w) \/ ReleaseLock(w)
     /\ UNCHANGED feed

People ==
  \E v \in ViewingIds :
    \/ RequestViewing(v)
    \/ \E d \in {"accepted", "rescheduled", "declined"} : DecideViewing(v, d)
    \/ CancelViewing(v)
    \/ TimePasses(v)

Next ==
  \/ \E w \in Workers : Cycle(w) \/ (Crash(w) /\ UNCHANGED feed)
  \/ (People \/ LockExpires) /\ UNCHANGED feed

\* The worker's loop goes on for ever (run_forever, restart: unless-stopped),
\* and the key of the lock has a TTL.
Fairness == /\ \A w \in Workers : WF_vars(Cycle(w))
            /\ WF_vars(LockExpires /\ UNCHANGED feed)

Spec == DeliveryInit /\ [][Next]_vars /\ Fairness
-----------------------------------------------------------------------------
\* Types; two workers never have the same row locked, nor a row that is done.
TypeOK ==
  /\ status \in [ViewingIds -> ViewingStatus \cup {"none"}]
  /\ schedule \in [ViewingIds -> {"none", "later", "soon", "past"}]
  /\ reminded \subseteq ViewingIds /\ relayed \subseteq DOMAIN notes
  /\ lock \in Workers \cup {None} /\ crashes <= MaxCrashes
  /\ \A w \in Workers : Relaying(w) =>
       /\ worker[w].held \subseteq DOMAIN notes \ relayed
       /\ \A x \in Workers \ {w} : Relaying(x) => worker[w].held \cap worker[x].held = {}
  /\ Len(window) <= WindowSize /\ shown \subseteq DOMAIN notes

\* README.md: the client deduplicates at-least-once delivery.  Crashes of the
\* relay and lost events show no notification twice, as long as the window is
\* not shorter than a batch and no two workers relay at the same time.
NoneShownTwice == again => overtaken

Reminders(s, v) == {n \in DOMAIN s : s[n].kind = "viewing_reminder" /\ s[n].viewing = v}

\* A viewing is reminded of once for each party, when its time has come and it
\* is still accepted as the reminder commits: two workers after the lock's TTL,
\* crashes, cancellations and decisions notwithstanding.
RemindersAreDue ==
  [][\A v \in ViewingIds :
       Reminders(notes', v) # Reminders(notes, v) =>
         /\ Reminders(notes, v) = {} /\ Cardinality(Reminders(notes', v)) = 2
         /\ status'[v] = "accepted" /\ schedule[v] \in {"soon", "past"}]_vars

\* Every committed notification is relayed, although workers crash: with the
\* bound on their number, there is again and again none left to relay.
NotesAreRelayed == []<>(relayed = DOMAIN notes)

\* An accepted viewing is reminded of when its time comes, unless it passes or
\* is cancelled first, whoever crashed holding the maintenance lock.
ViewingsAreReminded ==
  \A v \in ViewingIds :
    status[v] = "accepted" /\ schedule[v] = "soon" ~>
      v \in reminded \/ status[v] # "accepted" \/ schedule[v] = "past"
=============================================================================
