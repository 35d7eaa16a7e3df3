-------------------------------- MODULE Sessions --------------------------------
(***************************************************************************)
(* The refresh tokens of one user (services/sessions.py, routes/auth.py)   *)
(* as concurrent transactions.  A rotation locks the row of the token it   *)
(* is given; the replacement it inserts is visible to others only when it  *)
(* commits.  Detecting a reuse, and signing out everywhere, are one UPDATE *)
(* of many rows: its snapshot names the live rows, which it then locks one *)
(* after the other, checking again that each is still live.                *)
(*                                                                         *)
(* A family is named by Families; a raw token and its row by Tokens.  An   *)
(* access token is signed and never looked up.                             *)
(***************************************************************************)
CONSTANTS Tokens, Families, Requests, None

ASSUME SessionAssumption == None \notin Tokens \cup Families \cup Requests

VARIABLES family,   \* committed row -> its family_id (None: no row yet)
          live,     \* the committed rows whose revoked_at is null
          tx        \* the request that each connection serves

rows == <<family, live>>

Idle == [step |-> "idle", call |-> None, token |-> None, new |-> None,
         todo |-> {}, held |-> {}, answer |-> None]

Issued == {t \in Tokens : family[t] # None}
LiveIn(f) == {t \in live : family[t] = f}

Free(t) == \A r \in Requests : t \notin tx[r].held
Become(r, t) == tx' = [tx EXCEPT ![r] = t]
Answer(r, a) == Become(r, [Idle EXCEPT !.step = "answered", !.answer = a])
Arrived(r, call) == tx[r].step = "sent" /\ tx[r].call = call

\* A raw token is random: never one that exists or is being inserted.
Fresh(t) == t \notin Issued /\ \A r \in Requests : t # tx[r].new

Init ==
  /\ family = [t \in Tokens |-> None]
  /\ live = {}
  /\ tx = [r \in Requests |-> Idle]

\* A request on the wire: login, refresh, logout (with a token), logout_all.
Send(r, call, t) ==
  /\ tx[r] = Idle
  /\ Become(r, [Idle EXCEPT !.step = "sent", !.call = call, !.token = t])

Login(r, f, t) ==
  /\ Arrived(r, "login")
  /\ Fresh(t)
  /\ \A u \in Issued : family[u] # f
  /\ family' = [family EXCEPT ![t] = f]
  /\ live' = live \cup {t}
  /\ Answer(r, t)

\* rotate_refresh_token: the row is locked, the replacement flushed.
BeginRotation(r, n) ==
  /\ Arrived(r, "refresh")
  /\ Free(tx[r].token) /\ tx[r].token \in live
  /\ Fresh(n)
  /\ Become(r, [tx[r] EXCEPT !.step = "rotating", !.new = n, !.held = {tx[r].token}])
  /\ UNCHANGED rows

CommitRotation(r) ==
  /\ tx[r].step = "rotating"
  /\ family' = [family EXCEPT ![tx[r].new] = family[tx[r].token]]
  /\ live' = (live \ {tx[r].token}) \cup {tx[r].new}
  /\ Answer(r, tx[r].new)

\* The token has expired, or its user is not active any more.
RefuseExpired(r) ==
  /\ Arrived(r, "refresh")
  /\ Free(tx[r].token) /\ tx[r].token \in live
  /\ live' = live \ {tx[r].token}
  /\ Answer(r, None)
  /\ UNCHANGED family

\* The snapshot of an UPDATE of every live row of S.
BeginRevocation(r, S, held) ==
  /\ Become(r, [tx[r] EXCEPT !.step = "revoking", !.todo = S, !.held = held])
  /\ UNCHANGED rows

DetectReuse(r) ==
  LET t == tx[r].token IN
  /\ Arrived(r, "refresh")
  /\ Free(t) /\ t \in Issued \ live
  /\ BeginRevocation(r, LiveIn(family[t]), {t})

\* Mutant: the rows that are locked are passed over.
LogoutAllM(r) ==
  /\ Arrived(r, "logout_all")
  /\ BeginRevocation(r, {t \in live : Free(t)}, {})

LogoutAll(r) ==
  /\ Arrived(r, "logout_all")
  /\ BeginRevocation(r, live, {})

LockNext(r, t) ==
  /\ tx[r].step = "revoking"
  /\ t \in tx[r].todo /\ Free(t)
  /\ Become(r, [tx[r] EXCEPT !.todo = @ \ {t}, !.held = @ \cup {t}])
  /\ UNCHANGED rows

CommitRevocation(r) ==
  /\ tx[r].step = "revoking" /\ tx[r].todo = {}
  /\ live' = live \ tx[r].held
  /\ Answer(r, None)
  /\ UNCHANGED family

\* revoke_refresh_token: a token that is not live is left alone.
Logout(r) ==
  /\ Arrived(r, "logout")
  /\ Free(tx[r].token)
  /\ live' = live \ {tx[r].token}
  /\ Answer(r, None)
  /\ UNCHANGED family

\* The request is lost on its way, or its transaction fails.
Abort(r) ==
  /\ tx[r].step \in {"sent", "rotating", "revoking"}
  /\ Become(r, Idle)
  /\ UNCHANGED rows

\* Nobody waits for the answer any more.
Forget(r) ==
  /\ tx[r].step = "answered"
  /\ Become(r, Idle)
  /\ UNCHANGED rows

Serve(r) ==
  \/ \E f \in Families, t \in Tokens : Login(r, f, t)
  \/ \E t \in Tokens : BeginRotation(r, t) \/ LockNext(r, t)
  \/ CommitRotation(r)
  \/ RefuseExpired(r)
  \/ DetectReuse(r)
  \/ LogoutAll(r)
  \/ CommitRevocation(r)
  \/ Logout(r)
  \/ Abort(r)

\* Devices of the user send what they were given, in any order, more than once.
Devices(r) ==
  /\ \/ Send(r, "login", None)
     \/ \E t \in Issued : Send(r, "refresh", t) \/ Send(r, "logout", t)
     \/ Send(r, "logout_all", None)
  /\ UNCHANGED rows

Next == \E r \in Requests : Devices(r) \/ Serve(r) \/ Forget(r)

vars == <<rows, tx>>
Spec == Init /\ [][Next]_vars
-----------------------------------------------------------------------------
\* What a transaction shows of its call, and the rows that it is going to
\* revoke, or that it saw live and finds revoked.
Shown(t) ==
  [at |-> CASE t.step = "idle" -> "none" [] t.step \in {"sent", "rotating"} -> "asked"
            [] t.step = "revoking" -> "ending" [] t.step = "answered" -> "answered",
   asks |-> t.call, token |-> t.token, answer |-> t.answer]
ToRevoke(t) == IF t.step = "revoking" THEN t.todo \cup t.held ELSE {}

Contract == INSTANCE SessionContract WITH
  Calls <- Requests, owner <- family, usable <- live,
  call <- [r \in Requests |-> Shown(tx[r])],
  ending <- [r \in Requests |-> {family[t] : t \in live \cap ToRevoke(tx[r])}]

\* README.md:74: the reuse of a token "revokes that token family", and logout-all
\* "signs the user out from every active device session".  When either call is
\* answered, each session it found open is over.
RevokedSessionsAreOver ==
  [][\A r \in Requests :
       CommitRevocation(r) =>
         \A t \in tx[r].held, u \in live' : family[u] # family[t]]_vars
=============================================================================
