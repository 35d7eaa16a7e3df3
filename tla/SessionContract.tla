---------------------------- MODULE SessionContract ----------------------------
(***************************************************************************)
(* What the session endpoints promise (README.md, "Mobile authentication   *)
(* sessions"), call by call and without rows, locks and statements.  A     *)
(* session is a family of refresh tokens.  A renewal replaces its token by *)
(* one never seen before, a token used twice ends its session, a logout of *)
(* all devices ends every session that is open when the call is taken up,  *)
(* and a session that ended never opens again.                             *)
(*                                                                         *)
(* The code keeps less in one case, and the contract says which: a call    *)
(* that ends sessions spares one that was renewed while it was in progress *)
(* (Settled).  README.md makes no such exception: Sessions states it       *)
(* without one as RevokedSessionsAreOver.                                  *)
(***************************************************************************)
CONSTANTS Tokens, Families, Calls, None

VARIABLES owner,    \* token -> its session (None: it was never issued)
          usable,   \* the tokens that can be used
          call,     \* what each call asks, where it stands and its answer
          ending    \* the sessions that each call is going to end

vars == <<owner, usable, call, ending>>

Nothing == [at |-> "none", asks |-> None, token |-> None, answer |-> None]
Questions == {"login", "refresh", "logout", "logout_all"}

Asked(c, what) == call[c].at = "asked" /\ call[c].asks = what
Answer(c, a) ==
  call' = [call EXCEPT ![c] = [at |-> "answered", asks |-> None, token |-> None, answer |-> a]]

Open == {owner[t] : t \in usable}
Without(S) == {t \in usable : owner[t] \notin S}

\* The sessions of S are over or were renewed: nobody ends them any more.
Settled(c, S) == ending' = [d \in Calls |-> IF d = c THEN {} ELSE ending[d] \ S]

Init ==
  /\ owner = [t \in Tokens |-> None]
  /\ usable = {}
  /\ call = [c \in Calls |-> Nothing]
  /\ ending = [c \in Calls |-> {}]

Ask(c, what, t) ==
  /\ call[c] = Nothing
  /\ call' = [call EXCEPT ![c] = [at |-> "asked", asks |-> what, token |-> t, answer |-> None]]
  /\ UNCHANGED <<owner, usable, ending>>

SignIn(c, f, t) ==
  /\ Asked(c, "login")
  /\ owner[t] = None /\ \A u \in Tokens : owner[u] # f
  /\ owner' = [owner EXCEPT ![t] = f]
  /\ usable' = usable \cup {t}
  /\ Answer(c, t) /\ UNCHANGED ending

Renew(c, n) ==
  LET f == owner[call[c].token] IN
  /\ Asked(c, "refresh") /\ call[c].token \in usable
  /\ owner[n] = None
  /\ owner' = [owner EXCEPT ![n] = f]
  /\ usable' = Without({f}) \cup {n}
  /\ Answer(c, n) /\ Settled(c, {f})

\* A logout, or a token that has expired.
EndOne(c) ==
  LET f == owner[call[c].token] IN
  /\ Asked(c, "logout") \/ Asked(c, "refresh")
  /\ call[c].token \in usable
  /\ usable' = Without({f})
  /\ Answer(c, None) /\ Settled(c, {f})
  /\ UNCHANGED owner

\* A logout with a token that was used ends nothing.
NothingToEnd(c) ==
  /\ Asked(c, "logout") /\ call[c].token \notin usable
  /\ Answer(c, None)
  /\ UNCHANGED <<owner, usable, ending>>

\* The call goes on to end the sessions of F.
EndsAll(c, F) ==
  /\ call' = [call EXCEPT ![c].at = "ending"]
  /\ ending' = [ending EXCEPT ![c] = F]
  /\ UNCHANGED <<owner, usable>>

DetectReuse(c) ==
  LET t == call[c].token IN
  /\ Asked(c, "refresh")
  /\ t \notin usable /\ owner[t] # None
  /\ EndsAll(c, {owner[t]} \cap Open)

LogoutAll(c) == Asked(c, "logout_all") /\ EndsAll(c, Open)

EndThem(c) ==
  /\ call[c].at = "ending"
  /\ usable' = Without(ending[c])
  /\ Answer(c, None) /\ Settled(c, ending[c])
  /\ UNCHANGED owner

Fail(c) ==
  /\ call[c].at \in {"asked", "ending"}
  /\ call' = [call EXCEPT ![c] = Nothing]
  /\ ending' = [ending EXCEPT ![c] = {}]
  /\ UNCHANGED <<owner, usable>>

Forget(c) ==
  /\ call[c].at = "answered"
  /\ call' = [call EXCEPT ![c] = Nothing]
  /\ UNCHANGED <<owner, usable, ending>>

\* Every step takes one call further.
Next == \E c \in Calls :
  /\ call'[c].at # call[c].at
  /\ \/ \E what \in Questions, t \in Tokens \cup {None} : Ask(c, what, t)
     \/ \E f \in Families, t \in Tokens : SignIn(c, f, t)
     \/ \E n \in Tokens : Renew(c, n)
     \/ EndOne(c) \/ NothingToEnd(c)
     \/ DetectReuse(c) \/ LogoutAll(c) \/ EndThem(c)
     \/ Fail(c) \/ Forget(c)

Spec == Init /\ [][Next]_vars
=============================================================================
