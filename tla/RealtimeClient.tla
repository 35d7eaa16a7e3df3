----------------------------- MODULE RealtimeClient -----------------------------
(***************************************************************************)
(* The connection of the mobile client to the realtime socket              *)
(* (realtime_client.dart), started and stopped with the session            *)
(* (main.dart).                                                            *)
(*                                                                         *)
(* An attempt is a call of _connect and the connection it makes.  Dart     *)
(* runs from one await to the next.  _subscription names an attempt; one   *)
(* that listens without being the subscription was leaked by a second      *)
(* _connect.  Cancelling a subscription completes at once.                 *)
(***************************************************************************)
EXTENDS Naturals

CONSTANTS Attempts,   \* bound: attempts and connections at the same time
          None

VARIABLES attempt,       \* where each attempt is
          shouldRun, connecting, subscription, timer,
          closing,       \* calls of _closeTransport by _handleDisconnect
          excused        \* history: see ClientKeepsTrying

vars == <<attempt, shouldRun, connecting, subscription, timer, closing, excused>>

Steps == {"idle", "reading", "opening", "abandoning", "failing", "listening"}

Init ==
  /\ attempt = [a \in Attempts |-> "idle"]
  /\ shouldRun = FALSE /\ connecting = FALSE
  /\ subscription = None /\ timer = FALSE /\ closing = 0
  /\ excused = FALSE
-----------------------------------------------------------------------------
(* _connect *)

Busy == connecting \/ subscription # None

\* The synchronous part of _connect, with shouldRun set, by an idle attempt.
Connect ==
  \/ Busy /\ UNCHANGED attempt
  \/ ~Busy /\ \E a \in Attempts :
                attempt[a] = "idle" /\ attempt' = [attempt EXCEPT ![a] = "reading"]

\* A session begins.  An attempt of the last one that was told to stop while
\* it opened, and still closes its socket, counts as connecting.
Start ==
  /\ shouldRun' = TRUE
  /\ Connect
  /\ excused' = (\E a \in Attempts : attempt[a] = "abandoning")
  /\ UNCHANGED <<connecting, subscription, timer, closing>>

\* The token store has a token, or none: then _connect returns.
TokenRead(a) ==
  /\ attempt[a] = "reading"
  /\ \/ /\ attempt' = [attempt EXCEPT ![a] = "opening"]
        /\ connecting' = TRUE
        /\ UNCHANGED excused
     \/ /\ attempt' = [attempt EXCEPT ![a] = "idle"]
        /\ excused' = TRUE
        /\ UNCHANGED connecting
  /\ UNCHANGED <<shouldRun, subscription, timer, closing>>

Opened(a) ==
  /\ attempt[a] = "opening"
  /\ \/ /\ shouldRun
        /\ attempt' = [attempt EXCEPT ![a] = "listening"]
        /\ subscription' = a
        /\ connecting' = FALSE
     \/ /\ ~shouldRun
        /\ attempt' = [attempt EXCEPT ![a] = "abandoning"]
        /\ UNCHANGED <<subscription, connecting>>
  /\ UNCHANGED <<shouldRun, timer, closing, excused>>

Abandoned(a) ==
  /\ attempt[a] = "abandoning"
  /\ attempt' = [attempt EXCEPT ![a] = "idle"]
  /\ connecting' = FALSE
  /\ UNCHANGED <<shouldRun, subscription, timer, closing, excused>>

\* _closeTransport cancels the subscription there is, whoever made it.
Cancelled(A) == [a \in Attempts |-> IF a = subscription THEN "idle" ELSE A[a]]

\* The socket cannot be opened, or not in ten seconds.
OpenFails(a) ==
  /\ attempt[a] = "opening"
  /\ attempt' = Cancelled([attempt EXCEPT ![a] = "failing"])
  /\ subscription' = None
  /\ UNCHANGED <<shouldRun, connecting, timer, closing, excused>>

Failed(a) ==
  /\ attempt[a] = "failing"
  /\ attempt' = [attempt EXCEPT ![a] = "idle"]
  /\ connecting' = FALSE
  /\ timer' = (timer \/ shouldRun)
  /\ UNCHANGED <<shouldRun, subscription, closing, excused>>
-----------------------------------------------------------------------------
(* Disconnection, retry and stop *)

\* The socket ends: by the network, by the server, or with a close code that
\* says that the token was refused.
Disconnect(a, refused) ==
  /\ attempt[a] = "listening"
  /\ attempt' = Cancelled([attempt EXCEPT ![a] = "idle"])
  /\ subscription' = None
  /\ closing' = closing + 1
  /\ shouldRun' = (shouldRun /\ ~refused)
  /\ UNCHANGED <<connecting, timer, excused>>

Closed ==
  /\ closing > 0
  /\ closing' = closing - 1
  /\ timer' = (timer \/ shouldRun)
  /\ UNCHANGED <<attempt, shouldRun, connecting, subscription, excused>>

TimerFires ==
  /\ timer
  /\ timer' = FALSE
  /\ IF shouldRun THEN Connect ELSE UNCHANGED attempt
  /\ UNCHANGED <<shouldRun, connecting, subscription, closing, excused>>

Stop ==
  /\ shouldRun' = FALSE /\ timer' = FALSE
  /\ attempt' = Cancelled(attempt)
  /\ subscription' = None
  /\ UNCHANGED <<connecting, closing, excused>>
-----------------------------------------------------------------------------
Next ==
  \/ Start \/ Stop \/ TimerFires \/ Closed
  \/ \E a \in Attempts :
       \/ TokenRead(a) \/ Opened(a) \/ Abandoned(a)
       \/ OpenFails(a) \/ Failed(a)
       \/ \E refused \in BOOLEAN : Disconnect(a, refused)

Spec == Init /\ [][Next]_vars
-----------------------------------------------------------------------------
\* Types; the subscription listens, and connecting means that an attempt is
\* past its token and not done.
TypeOK ==
  /\ attempt \in [Attempts -> Steps]
  /\ shouldRun \in BOOLEAN /\ connecting \in BOOLEAN
  /\ timer \in BOOLEAN /\ excused \in BOOLEAN
  /\ subscription \in Attempts \cup {None} /\ closing \in Nat
  /\ subscription # None => attempt[subscription] = "listening"
  /\ connecting => \E a \in Attempts : attempt[a] \in {"opening", "abandoning", "failing"}

\* README.md: "automatic Flutter WebSocket reconnect".  A client that should run
\* is connected, connecting or about to try, however start, stop, timer,
\* failures and refusals interleave, unless it found no token or was started
\* while an attempt that stop() interrupted was closing its socket.
ClientKeepsTrying ==
  shouldRun /\ ~excused =>
    timer \/ closing > 0 \/ \E a \in Attempts : attempt[a] # "idle"

\* An attempt that was told to stop and is not done excuses the client that
\* is started meanwhile.
InterruptedIsExcused ==
  shouldRun /\ (\E a \in Attempts : attempt[a] = "abandoning") => excused

\* The inductive invariant.
IInv == TypeOK /\ InterruptedIsExcused /\ ClientKeepsTrying
=============================================================================
