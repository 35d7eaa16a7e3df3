------------------------- MODULE RealtimeClientProofs -------------------------
(***************************************************************************)
(* The mobile client's realtime connection, for any number of attempts and *)
(* of transports that close at the same time: however start, stop, timer,  *)
(* failures and refusals interleave, a client that should run does not     *)
(* come to rest unconnected, but for the excuses of ClientKeepsTrying.     *)
(* Only a stop can interrupt an attempt and only a start can follow it, so *)
(* InterruptedIsExcused is what the end of such an attempt relies on.      *)
(***************************************************************************)
EXTENDS RealtimeClient, TLAPS

\* A client is created at rest.
LEMMA ClientInit == Init => IInv
<1> SUFFICES ASSUME Init PROVE IInv
  OBVIOUS
<1>1. TypeOK
  BY DEF Init, TypeOK, Steps
<1>2. InterruptedIsExcused /\ ClientKeepsTrying
  BY DEF Init, InterruptedIsExcused, ClientKeepsTrying
<1> QED
  BY <1>1, <1>2 DEF IInv

\* Connecting changes nothing, or begins to read the token: afterwards some
\* attempt is not idle.
LEMMA ConnectTries ==
  ASSUME TypeOK, Connect
  PROVE  /\ attempt' \in [Attempts -> Steps]
         /\ \A a \in Attempts : attempt[a] # "idle" => attempt'[a] = attempt[a]
         /\ \A a \in Attempts : attempt'[a] # attempt[a] => attempt'[a] = "reading"
         /\ subscription \in Attempts \cup {None}
         /\ \E a \in Attempts : attempt'[a] # "idle"
<1>1. CASE Busy /\ UNCHANGED attempt
  BY <1>1 DEF TypeOK, Busy
<1>2. CASE \E a \in Attempts :
             attempt[a] = "idle" /\ attempt' = [attempt EXCEPT ![a] = "reading"]
  BY <1>2 DEF TypeOK, Steps
<1> QED
  BY <1>1, <1>2 DEF Connect

\* Cancelling the subscription makes its attempt idle and no other.
LEMMA CancelledAttempts ==
  ASSUME NEW A \in [Attempts -> Steps]
  PROVE  /\ Cancelled(A) \in [Attempts -> Steps]
         /\ \A a \in Attempts : Cancelled(A)[a] = IF a = subscription THEN "idle" ELSE A[a]
BY DEF Cancelled, Steps

\* No call or callback breaks the bookkeeping of the fields.
LEMMA ClientType == ASSUME None \notin Attempts, IInv, [Next]_vars PROVE TypeOK'
<1> USE DEF IInv, TypeOK, Steps
<1>1. CASE Start
  <2>1. subscription # None => attempt'[subscription] = "listening"
    BY <1>1, ConnectTries DEF Start
  <2>2. connecting => \E a \in Attempts : attempt'[a] \in {"opening", "abandoning", "failing"}
    BY <1>1, ConnectTries DEF Start
  <2>3. shouldRun' \in BOOLEAN /\ excused' \in BOOLEAN
    BY <1>1 DEF Start
  <2>4. attempt' \in [Attempts -> Steps]
    BY <1>1, ConnectTries DEF Start
  <2>5. connecting' = connecting /\ subscription' = subscription /\ timer' = timer /\ closing' = closing
    BY <1>1 DEF Start
  <2>6. (connecting \in BOOLEAN /\ timer \in BOOLEAN)'
    BY <2>5
  <2>7. (closing \in Nat /\ subscription \in Attempts \cup {None})'
    BY <2>5
  <2>8. (subscription # None => attempt[subscription] = "listening")'
    BY <2>5, <2>1
  <2>9. (connecting => \E a \in Attempts : attempt[a] \in {"opening", "abandoning", "failing"})'
    BY <2>5, <2>2
  <2> QED
    BY <2>3, <2>4, <2>6, <2>7, <2>8, <2>9
<1>2. CASE Stop
  <2>1. attempt' \in [Attempts -> Steps]
    BY <1>2, CancelledAttempts DEF Stop
  <2>2. connecting => \E a \in Attempts : attempt'[a] \in {"opening", "abandoning", "failing"}
    BY <1>2, CancelledAttempts DEF Stop
  <2> QED
    BY <1>2, <2>1, <2>2 DEF Stop
<1>3. CASE TimerFires
  BY <1>3, ConnectTries DEF TimerFires
<1>4. CASE Closed
  BY <1>4 DEF Closed
<1>5. ASSUME NEW a \in Attempts, TokenRead(a) PROVE TypeOK'
  <2>1. attempt' \in [Attempts -> Steps] /\ attempt'[a] \in {"opening", "idle"}
    BY <1>5 DEF TokenRead
  <2>2. \A b \in Attempts \ {a} : attempt'[b] = attempt[b]
    BY <1>5 DEF TokenRead
  <2>3. (subscription # None => attempt[subscription] = "listening")'
    BY <1>5, <2>2 DEF TokenRead
  <2>4. (connecting => \E b \in Attempts : attempt[b] \in {"opening", "abandoning", "failing"})'
    BY <1>5, <2>2 DEF TokenRead
  <2>5. connecting' \in BOOLEAN /\ excused' \in BOOLEAN
    BY <1>5 DEF TokenRead
  <2> QED
    BY <1>5, <2>1, <2>3, <2>4, <2>5 DEF TokenRead
<1>6. ASSUME NEW a \in Attempts, Opened(a) PROVE TypeOK'
  BY <1>6 DEF Opened
<1>7. ASSUME NEW a \in Attempts, Abandoned(a) PROVE TypeOK'
  BY <1>7 DEF Abandoned
<1>8. ASSUME NEW a \in Attempts, OpenFails(a) PROVE TypeOK'
  <2>1. [attempt EXCEPT ![a] = "failing"] \in [Attempts -> Steps]
    OBVIOUS
  <2>2. attempt' \in [Attempts -> Steps] /\ attempt'[a] = "failing"
    BY <1>8, <2>1, CancelledAttempts DEF OpenFails
  <2> QED
    BY <1>8, <2>2 DEF OpenFails
<1>9. ASSUME NEW a \in Attempts, Failed(a) PROVE TypeOK'
  BY <1>9 DEF Failed
<1>10. ASSUME NEW a \in Attempts, NEW refused \in BOOLEAN, Disconnect(a, refused)
       PROVE  TypeOK'
  <2>1. [attempt EXCEPT ![a] = "idle"] \in [Attempts -> Steps]
    OBVIOUS
  <2>2. attempt' \in [Attempts -> Steps] /\ subscription' \in Attempts \cup {None}
    BY <1>10, <2>1, CancelledAttempts DEF Disconnect
  <2>3. (connecting => \E b \in Attempts : attempt[b] \in {"opening", "abandoning", "failing"})'
    <3>1. \A b \in Attempts :
            attempt'[b] = IF b = subscription THEN "idle"
                          ELSE [attempt EXCEPT ![a] = "idle"][b]
      BY <1>10, <2>1, CancelledAttempts DEF Disconnect
    <3>2. attempt[a] = "listening" /\ connecting' = connecting
      BY <1>10 DEF Disconnect
    <3>3. \A b \in Attempts : attempt[b] # "listening" => b # subscription /\ b # a
      BY <3>2
    <3>4. \A b \in Attempts : attempt[b] # "listening" => attempt'[b] = attempt[b]
      BY <3>1, <3>3
    <3> QED
      BY <3>2, <3>4
  <2>4. closing' \in Nat /\ subscription' = None
    BY <1>10 DEF Disconnect
  <2>5. shouldRun' \in BOOLEAN
    BY <1>10 DEF Disconnect
  <2>6. connecting' \in BOOLEAN /\ timer' \in BOOLEAN /\ excused' \in BOOLEAN
    BY <1>10 DEF Disconnect
  <2> QED
    BY <2>2, <2>3, <2>4, <2>5, <2>6
<1>11. CASE UNCHANGED vars
  BY <1>11 DEF vars
<1> QED
  BY <1>1, <1>2, <1>3, <1>4, <1>5, <1>6, <1>7, <1>8, <1>9, <1>10, <1>11 DEF Next

\* An attempt is abandoned only while the client should not run, and a start
\* that finds one is excused.
LEMMA ClientInterrupted == ASSUME None \notin Attempts, IInv, [Next]_vars PROVE InterruptedIsExcused'
<1> USE DEF IInv, TypeOK, Steps, InterruptedIsExcused
<1>1. CASE Start
  BY <1>1, ConnectTries DEF Start
<1>2. CASE Stop
  BY <1>2 DEF Stop
<1>3. CASE TimerFires
  BY <1>3, ConnectTries DEF TimerFires
<1>4. CASE Closed
  BY <1>4 DEF Closed
<1>5. ASSUME NEW a \in Attempts, TokenRead(a) PROVE InterruptedIsExcused'
  BY <1>5 DEF TokenRead
<1>6. ASSUME NEW a \in Attempts, Opened(a) PROVE InterruptedIsExcused'
  BY <1>6 DEF Opened
<1>7. ASSUME NEW a \in Attempts, Abandoned(a) PROVE InterruptedIsExcused'
  BY <1>7 DEF Abandoned
<1>8. ASSUME NEW a \in Attempts, OpenFails(a) PROVE InterruptedIsExcused'
  BY <1>8 DEF OpenFails, Cancelled
<1>9. ASSUME NEW a \in Attempts, Failed(a) PROVE InterruptedIsExcused'
  BY <1>9 DEF Failed
<1>10. ASSUME NEW a \in Attempts, NEW refused \in BOOLEAN, Disconnect(a, refused)
       PROVE  InterruptedIsExcused'
  BY <1>10 DEF Disconnect, Cancelled
<1>11. CASE UNCHANGED vars
  BY <1>11 DEF vars
<1> QED
  BY <1>1, <1>2, <1>3, <1>4, <1>5, <1>6, <1>7, <1>8, <1>9, <1>10, <1>11 DEF Next

\* Whatever ends an attempt or a connection leaves a timer, a transport that
\* closes and then sets one, or another attempt.
LEMMA ClientTries == ASSUME None \notin Attempts, IInv, [Next]_vars PROVE ClientKeepsTrying'
<1> USE DEF IInv, TypeOK, Steps, ClientKeepsTrying
<1>1. CASE Start
  BY <1>1, ConnectTries DEF Start
<1>2. CASE Stop
  BY <1>2 DEF Stop
<1>3. CASE TimerFires
  BY <1>3, ConnectTries DEF TimerFires
<1>4. CASE Closed
  BY <1>4 DEF Closed
<1>5. ASSUME NEW a \in Attempts, TokenRead(a) PROVE ClientKeepsTrying'
  BY <1>5 DEF TokenRead
<1>6. ASSUME NEW a \in Attempts, Opened(a) PROVE ClientKeepsTrying'
  BY <1>6 DEF Opened
<1>7. ASSUME NEW a \in Attempts, Abandoned(a) PROVE ClientKeepsTrying'
  BY <1>7 DEF Abandoned, InterruptedIsExcused
<1>8. ASSUME NEW a \in Attempts, OpenFails(a) PROVE ClientKeepsTrying'
  <2>1. [attempt EXCEPT ![a] = "failing"] \in [Attempts -> Steps]
    OBVIOUS
  <2>2. attempt'[a] = "failing"
    BY <1>8, <2>1, CancelledAttempts DEF OpenFails
  <2> QED
    BY <2>2
<1>9. ASSUME NEW a \in Attempts, Failed(a) PROVE ClientKeepsTrying'
  BY <1>9 DEF Failed
<1>10. ASSUME NEW a \in Attempts, NEW refused \in BOOLEAN, Disconnect(a, refused)
       PROVE  ClientKeepsTrying'
  BY <1>10 DEF Disconnect, Cancelled
<1>11. CASE UNCHANGED vars
  BY <1>11 DEF vars
<1> QED
  BY <1>1, <1>2, <1>3, <1>4, <1>5, <1>6, <1>7, <1>8, <1>9, <1>10, <1>11 DEF Next

\* The inductive invariant of the client.
LEMMA ClientInvariant == ASSUME None \notin Attempts PROVE Spec => []IInv
<1>1. IInv /\ [Next]_vars => IInv'
  BY ClientType, ClientInterrupted, ClientTries DEF IInv
<1> QED
  BY <1>1, ClientInit, PTL DEF Spec

\* The subscription listens, and connecting means that an attempt is under
\* way: what _connect checks before it begins another one.
THEOREM ClientTypeCorrect == ASSUME None \notin Attempts PROVE Spec => []TypeOK
<1>1. IInv => TypeOK
  BY DEF IInv
<1> QED
  BY <1>1, ClientInvariant, PTL

\* A client that should run is connected, connecting or about to try, unless
\* it found no token or was started while an interrupted attempt was closing.
THEOREM ClientKeepsTryingHolds ==
  ASSUME None \notin Attempts PROVE Spec => []ClientKeepsTrying
<1>1. IInv => ClientKeepsTrying
  BY DEF IInv
<1> QED
  BY <1>1, ClientInvariant, PTL
=============================================================================
