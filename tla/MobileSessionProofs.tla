--------------------------- MODULE MobileSessionProofs ---------------------------
(***************************************************************************)
(* The server's sessions, and the mobile session composed with them, for   *)
(* any tokens, families and connections.  Three arguments, of which the    *)
(* last two are invariants of their own on top of the types:               *)
(*                                                                         *)
(* The rows.  A row is locked by one transaction at a time; a rotation has *)
(* its token locked, so that the token is live when it commits, and        *)
(* inserts a token that nobody else has; therefore a family never has two  *)
(* live tokens, and the live rows that a revocation names stand for the    *)
(* sessions that its call is going to end (SessionInv).                    *)
(*                                                                         *)
(* The storage.  Two chains may be changing it at once, main and rotation; *)
(* as it serves them in turn, the one that started first writes each key   *)
(* first and finishes first (First), so that the keys, and whether one is  *)
(* signed in, are those of the one that started last (StoreInv).           *)
(*                                                                         *)
(* The wire.  Whatever refresh token the client may still send is live,    *)
(* or of a session that is over or lost, unless it is the one that the     *)
(* rotation in flight has sent and will replace (WireInv).                 *)
(***************************************************************************)
EXTENDS MobileSession, TLAPS, SequenceTheorems, FiniteSetTheorems
-----------------------------------------------------------------------------
(* The rows: Sessions, whoever sends the requests *)

Transaction ==
  [step : {"idle", "sent", "rotating", "revoking", "answered"},
   call : {"login", "refresh", "logout", "logout_all", None},
   token : Tokens \cup {None}, new : Tokens \cup {None},
   todo : SUBSET Tokens, held : SUBSET Tokens, answer : Tokens \cup {None}]

RowsTyped ==
  /\ family \in [Tokens -> Families \cup {None}]
  /\ live \subseteq Issued

\* A family has at most one live token.
OneLive == \A t, u \in live : family[t] = family[u] => t = u

\* What the transaction t is about exists, but the token that it inserts.
Sound(t) ==
  /\ t.step = "idle" => t = Idle
  /\ t.step \in {"sent", "answered"} => t.held = {}
  /\ t.step # "rotating" => t.new = None
  /\ t.step = "rotating" => /\ t.call = "refresh"
                            /\ t.token \in live /\ t.held = {t.token}
                            /\ t.new \in Tokens \ Issued
  /\ t.step = "sent" /\ t.call \in {"refresh", "logout"} => t.token \in Issued
  /\ t.held \subseteq Issued /\ t.todo \subseteq Issued
  /\ t.answer \in Issued \cup {None}

\* No row is locked twice, and no token inserted twice.
Exclusive ==
  \A r, x \in Requests : r # x =>
    /\ tx[r].held \cap tx[x].held = {}
    /\ tx[r].new = tx[x].new => tx[r].new = None

\* The inductive invariant.
SessionInv ==
  /\ RowsTyped /\ OneLive /\ Exclusive
  /\ tx \in [Requests -> Transaction]
  /\ \A r \in Requests : Sound(tx[r])
-----------------------------------------------------------------------------
\* A step that leaves the rows alone keeps the invariant if the transaction
\* becomes a sound one, with locks and a new token that nobody else has.
LEMMA BecomeKeeps ==
  ASSUME SessionInv, NEW r \in Requests, NEW t \in Transaction, Become(r, t), UNCHANGED rows,
         Sound(t), \A x \in Requests \ {r} : t.held \cap tx[x].held = {},
         t.new = None \/ \A x \in Requests \ {r} : t.new # tx[x].new
  PROVE  SessionInv'
  <1>1. family' = family /\ live' = live
    BY DEF rows
  <1>2. /\ tx' \in [Requests -> Transaction]
        /\ \A x \in Requests : tx'[x] = IF x = r THEN t ELSE tx[x]
    BY DEF Become, SessionInv
  <1>3. Exclusive'
    BY <1>2 DEF SessionInv, Exclusive
  <1>4. RowsTyped' /\ OneLive'
    BY <1>1 DEF SessionInv, RowsTyped, OneLive, Issued
  <1>5. ASSUME NEW x \in Requests
        PROVE  Sound(tx[x])'
    <2>1. Sound(tx'[x])
      BY <1>2 DEF SessionInv
    <2>2. QED
      BY <1>1, <2>1 DEF Sound, Issued
  <1>6. QED
    BY <1>2, <1>3, <1>4, <1>5 DEF SessionInv

\* An answer, with the rows that it reports committed: no token is issued but a
\* fresh one or the transaction's own, and no row that another has locked dies.
LEMMA AnswerKeeps ==
  ASSUME SessionInv, NEW r \in Requests, NEW a \in Tokens \cup {None}, Answer(r, a),
         RowsTyped', OneLive', a \in Issued' \cup {None}, Issued \subseteq Issued',
         \A x \in Requests \ {r} : tx[x].new \notin Issued' /\ live \cap tx[x].held \subseteq live'
  PROVE  SessionInv'
  <1> DEFINE t == [Idle EXCEPT !.step = "answered", !.answer = a]
  <1>1. tx \in [Requests -> Transaction] /\ t \in Transaction
    BY DEF SessionInv, Idle, Transaction
  <1>2. /\ tx' \in [Requests -> Transaction]
        /\ \A x \in Requests : tx'[x] = IF x = r THEN t ELSE tx[x]
    BY <1>1 DEF Answer, Become
  <1>3. t.held = {} /\ t.new = None
    BY DEF Idle
  <1>4. Exclusive'
    BY <1>2, <1>3 DEF SessionInv, Exclusive
  <1>5. ASSUME NEW x \in Requests
        PROVE  Sound(tx[x])'
    <2>1. CASE x = r
      BY <1>2, <2>1 DEF Sound, Idle
    <2>2. CASE x # r
      <3>1. tx'[x] = tx[x] /\ tx[x] \in Transaction /\ Sound(tx[x])
        BY <1>1, <1>2, <2>2 DEF SessionInv
      <3>2. tx[x].new \notin Issued' /\ live \cap tx[x].held \subseteq live'
        BY <2>2
      <3>3. QED
        BY <3>1, <3>2 DEF Sound, Transaction
    <2>3. QED
      BY <2>1, <2>2
  <1>6. QED
    BY <1>2, <1>4, <1>5 DEF SessionInv

\* The fields of a transaction.
LEMMA Fields ==
  ASSUME SessionInv, NEW r \in Requests
  PROVE  /\ tx[r] \in Transaction /\ Sound(tx[r])
         /\ \A x \in Requests \ {r} : tx[r].held \cap tx[x].held = {}
         /\ \A x \in Requests \ {r} : tx[r].new = tx[x].new => tx[r].new = None
         /\ Issued \subseteq Tokens /\ live \subseteq Issued
         /\ family \in [Tokens -> Families \cup {None}]
         /\ None \notin Tokens /\ None \notin Families
  BY SessionAssumption DEF SessionInv, RowsTyped, Exclusive, Issued
-----------------------------------------------------------------------------
(* Requests and the statements before a commit *)

LEMMA SendKeeps ==
  ASSUME SessionInv, NEW r \in Requests, NEW call \in {"login", "refresh", "logout", "logout_all"},
         NEW t \in Tokens \cup {None}, call \in {"refresh", "logout"} => t \in Issued,
         Send(r, call, t), UNCHANGED rows
  PROVE  SessionInv'
  <1> DEFINE n == [Idle EXCEPT !.step = "sent", !.call = call, !.token = t]
  <1>1. n \in Transaction /\ n.held = {} /\ n.new = None
    BY DEF Idle, Transaction
  <1>2. Sound(n)
    BY DEF Sound, Idle
  <1>3. Become(r, n)
    BY DEF Send
  <1>4. QED
    BY <1>1, <1>2, <1>3, BecomeKeeps

LEMMA FreedKeeps ==
  ASSUME SessionInv, NEW r \in Requests, Become(r, Idle), UNCHANGED rows
  PROVE  SessionInv'
  <1>1. Idle \in Transaction /\ Idle.held = {} /\ Idle.new = None /\ Sound(Idle)
    BY DEF Idle, Transaction, Sound
  <1>2. QED
    BY <1>1, BecomeKeeps

LEMMA RotationKeeps ==
  ASSUME SessionInv, NEW r \in Requests, NEW n \in Tokens, BeginRotation(r, n)
  PROVE  SessionInv'
  <1> DEFINE t == [tx[r] EXCEPT !.step = "rotating", !.new = n, !.held = {tx[r].token}]
  <1>1. /\ Become(r, t) /\ UNCHANGED rows
        /\ Free(tx[r].token) /\ tx[r].token \in live /\ Fresh(n)
        /\ tx[r].step = "sent" /\ tx[r].call = "refresh"
    BY DEF BeginRotation, Arrived
  <1>2. t \in Transaction /\ t.held = {tx[r].token} /\ t.new = n
    BY <1>1, Fields DEF Transaction
  <1>3. Sound(t)
    BY <1>1, Fields DEF Transaction, Sound, Fresh
  <1>4. \A x \in Requests \ {r} : t.held \cap tx[x].held = {} /\ t.new # tx[x].new
    BY <1>1, <1>2 DEF Free, Fresh
  <1>5. QED
    BY <1>1, <1>2, <1>3, <1>4, BecomeKeeps

LEMMA RevocationKeeps ==
  ASSUME SessionInv, NEW r \in Requests,
         DetectReuse(r) \/ LogoutAll(r) \/ \E t \in Tokens : LockNext(r, t)
  PROVE  SessionInv'
  <1>1. ASSUME NEW S \in SUBSET Issued, NEW H \in SUBSET Issued, BeginRevocation(r, S, H),
               tx[r].step = "sent", \A t \in H : Free(t)
        PROVE  SessionInv'
    <2> DEFINE t == [tx[r] EXCEPT !.step = "revoking", !.todo = S, !.held = H]
    <2>1. Become(r, t) /\ UNCHANGED rows
      BY <1>1 DEF BeginRevocation
    <2>2. /\ t \in Transaction /\ t.held = H /\ t.new = None
          /\ t.step = "revoking" /\ t.todo = S /\ t.answer \in Issued \cup {None}
      <3>1. tx[r].new = None /\ tx[r].answer \in Issued \cup {None}
        BY <1>1, Fields DEF Sound
      <3>2. S \in SUBSET Tokens /\ H \in SUBSET Tokens
        BY Fields
      <3>3. QED
        BY <3>1, <3>2, Fields DEF Transaction
    <2>3. Sound(t)
      <3> HIDE DEF t
      <3>1. QED
        BY <1>1, <2>2 DEF Sound
    <2>4. \A x \in Requests \ {r} : t.held \cap tx[x].held = {}
      BY <1>1, <2>2 DEF Free
    <2>5. QED
      BY <2>1, <2>2, <2>3, <2>4, BecomeKeeps
  <1>2. CASE DetectReuse(r)
    <2>1. LiveIn(family[tx[r].token]) \in SUBSET Issued
      BY Fields DEF LiveIn
    <2>2. {tx[r].token} \in SUBSET Issued /\ Free(tx[r].token)
      BY <1>2 DEF DetectReuse
    <2>3. QED
      BY <1>1, <1>2, <2>1, <2>2 DEF DetectReuse, Arrived
  <1>3. CASE LogoutAll(r)
    BY <1>1, <1>3, Fields DEF LogoutAll, Arrived
  <1>4. ASSUME NEW u \in Tokens, LockNext(r, u)
        PROVE  SessionInv'
    <2> DEFINE t == [tx[r] EXCEPT !.todo = @ \ {u}, !.held = @ \cup {u}]
    <2>1. /\ Become(r, t) /\ UNCHANGED rows
          /\ tx[r].step = "revoking" /\ u \in tx[r].todo /\ Free(u)
      BY <1>4 DEF LockNext
    <2>2. /\ t \in Transaction /\ t.held = tx[r].held \cup {u} /\ t.new = None
          /\ t.step = "revoking" /\ t.todo = tx[r].todo \ {u} /\ t.answer \in Issued \cup {None}
      <3>1. tx[r].new = None /\ tx[r].answer \in Issued \cup {None}
        BY <2>1, Fields DEF Sound
      <3>2. QED
        BY <2>1, <3>1, Fields DEF Transaction
    <2>3. Sound(t)
      <3>1. u \in Issued /\ tx[r].held \subseteq Issued /\ tx[r].todo \subseteq Issued
        BY <2>1, Fields DEF Sound
      <3> HIDE DEF t
      <3>2. QED
        BY <2>2, <3>1 DEF Sound
    <2>4. \A x \in Requests \ {r} : t.held \cap tx[x].held = {}
      BY <2>1, <2>2, Fields DEF Free
    <2>5. QED
      BY <2>1, <2>2, <2>3, <2>4, BecomeKeeps
  <1>5. QED
    BY <1>2, <1>3, <1>4
-----------------------------------------------------------------------------
(* The commits *)

\* Who revokes rows that nobody else has locked keeps the invariant.
LEMMA RevokedKeeps ==
  ASSUME SessionInv, NEW r \in Requests, NEW R \in SUBSET Tokens,
         family' = family, live' = live \ R, Answer(r, None),
         \A x \in Requests \ {r} : R \cap tx[x].held = {}
  PROVE  SessionInv'
  <1>1. Issued' = Issued
    BY DEF Issued
  <1>2. RowsTyped' /\ OneLive'
    BY <1>1 DEF SessionInv, RowsTyped, OneLive
  <1>3. \A x \in Requests \ {r} : tx[x].new \notin Issued
    BY Fields DEF Sound, Issued
  <1>4. \A x \in Requests \ {r} : live \cap tx[x].held \subseteq live'
    OBVIOUS
  <1>5. QED
    BY <1>1, <1>2, <1>3, <1>4, AnswerKeeps

LEMMA LoginCommits ==
  ASSUME SessionInv, NEW r \in Requests, NEW f \in Families, NEW t \in Tokens, Login(r, f, t)
  PROVE  SessionInv'
  <1>1. /\ tx[r].step = "sent" /\ Fresh(t) /\ \A u \in Issued : family[u] # f
        /\ family' = [family EXCEPT ![t] = f] /\ live' = live \cup {t} /\ Answer(r, t)
    BY DEF Login, Arrived
  <1>2. /\ family' \in [Tokens -> Families \cup {None}] /\ family'[t] = f
        /\ \A u \in Tokens \ {t} : family'[u] = family[u]
        /\ f # None /\ t # None /\ t \notin Issued
    BY <1>1, Fields DEF Fresh
  <1>3. Issued' = Issued \cup {t}
    BY <1>2 DEF Issued
  <1>4. RowsTyped' /\ OneLive'
    <2>1. RowsTyped'
      BY <1>1, <1>2, <1>3, Fields DEF RowsTyped
    <2>2. \A u \in live : u # t /\ family'[u] = family[u] /\ family[u] # f
      BY <1>1, <1>2, Fields
    <2>3. QED
      BY <1>1, <1>2, <2>1, <2>2 DEF SessionInv, OneLive
  <1>5. \A x \in Requests \ {r} : tx[x].new \notin Issued' /\ live \cap tx[x].held \subseteq live'
    BY <1>1, <1>3, Fields DEF Fresh, Sound, Issued
  <1>6. QED
    BY <1>1, <1>3, <1>4, <1>5, AnswerKeeps

LEMMA RotationCommits ==
  ASSUME SessionInv, NEW r \in Requests, CommitRotation(r)
  PROVE  SessionInv'
  <1> DEFINE t == tx[r].token
             n == tx[r].new
             f == family[t]
  <1>1. /\ tx[r].step = "rotating"
        /\ family' = [family EXCEPT ![n] = f] /\ live' = (live \ {t}) \cup {n} /\ Answer(r, n)
    BY DEF CommitRotation
  <1>2. t \in live /\ t \in Tokens /\ tx[r].held = {t} /\ n \in Tokens \ Issued /\ f \in Families
    BY <1>1, Fields DEF Sound, Issued
  <1>3. /\ family' \in [Tokens -> Families \cup {None}] /\ family'[n] = f
        /\ \A u \in Tokens \ {n} : family'[u] = family[u]
        /\ n # None /\ f # None
    BY <1>1, <1>2, Fields
  <1>4. Issued' = Issued \cup {n}
    BY <1>2, <1>3 DEF Issued
  <1>5. RowsTyped' /\ OneLive'
    <2>1. RowsTyped'
      BY <1>1, <1>3, <1>4, Fields DEF RowsTyped
    <2>2. \A u \in live \ {t} : u # n /\ family'[u] = family[u] /\ family[u] # f
      BY <1>2, <1>3, Fields DEF SessionInv, OneLive
    <2>3. QED
      BY <1>1, <1>3, <2>1, <2>2 DEF SessionInv, OneLive
  <1>6. ASSUME NEW x \in Requests \ {r}
        PROVE  tx[x].new \notin Issued' /\ live \cap tx[x].held \subseteq live'
    <2>1. tx[x].new # n /\ t \notin tx[x].held
      BY <1>2, <1>3, Fields
    <2>2. tx[x].new \notin Issued
      BY Fields DEF Sound, Issued
    <2>3. QED
      BY <1>1, <1>4, <2>1, <2>2
  <1>7. QED
    BY <1>1, <1>2, <1>4, <1>5, <1>6, AnswerKeeps

LEMMA RevocationCommits ==
  ASSUME SessionInv, NEW r \in Requests,
         RefuseExpired(r) \/ CommitRevocation(r) \/ Logout(r)
  PROVE  SessionInv'
  <1>1. CASE RefuseExpired(r) \/ Logout(r)
    <2>1. /\ family' = family /\ live' = live \ {tx[r].token} /\ Answer(r, None)
          /\ Free(tx[r].token) /\ tx[r].token \in Tokens
      BY <1>1, Fields DEF RefuseExpired, Logout, Arrived, Sound
    <2> DEFINE R == {tx[r].token}
    <2>2. R \in SUBSET Tokens /\ live' = live \ R /\ \A x \in Requests \ {r} : R \cap tx[x].held = {}
      BY <2>1 DEF Free
    <2> HIDE DEF R
    <2>3. QED
      BY <2>1, <2>2, RevokedKeeps
  <1>2. CASE CommitRevocation(r)
    <2>1. family' = family /\ live' = live \ tx[r].held /\ Answer(r, None)
      BY <1>2 DEF CommitRevocation
    <2>2. tx[r].held \in SUBSET Tokens /\ \A x \in Requests \ {r} : tx[r].held \cap tx[x].held = {}
      BY Fields DEF Transaction
    <2>3. QED
      BY <2>1, <2>2, RevokedKeeps
  <1>3. QED
    BY <1>1, <1>2
-----------------------------------------------------------------------------
LEMMA SessionInvInit == Init => SessionInv
  <1> SUFFICES ASSUME Init
               PROVE  SessionInv
    OBVIOUS
  <1>1. Idle \in Transaction /\ Sound(Idle) /\ Idle.held = {} /\ Idle.new = None
    BY DEF Idle, Transaction, Sound
  <1>2. RowsTyped /\ OneLive
    BY DEF Init, RowsTyped, OneLive, Issued
  <1>3. QED
    BY <1>1, <1>2 DEF Init, SessionInv, Exclusive

\* Every step of the server keeps the invariant.
LEMMA ServeKeeps ==
  ASSUME SessionInv, NEW r \in Requests, Serve(r)
  PROVE  SessionInv'
  <1>1. ASSUME NEW f \in Families, NEW t \in Tokens, Login(r, f, t)
        PROVE  SessionInv'
    BY <1>1, LoginCommits
  <1>2. CASE CommitRotation(r)
    BY <1>2, RotationCommits
  <1>3. CASE RefuseExpired(r) \/ CommitRevocation(r) \/ Logout(r)
    BY <1>3, RevocationCommits
  <1>4. ASSUME NEW t \in Tokens, BeginRotation(r, t)
        PROVE  SessionInv'
    BY <1>4, RotationKeeps DEF BeginRotation
  <1>5. ASSUME NEW t \in Tokens, LockNext(r, t)
        PROVE  SessionInv'
    BY <1>5, RevocationKeeps DEF LockNext
  <1>6. CASE DetectReuse(r) \/ LogoutAll(r)
    BY <1>6, RevocationKeeps DEF DetectReuse, LogoutAll, BeginRevocation
  <1>7. CASE Abort(r)
    BY <1>7, FreedKeeps DEF Abort
  <1>8. QED
    BY <1>1, <1>2, <1>3, <1>4, <1>5, <1>6, <1>7 DEF Serve

\* So is every step of a device, and of a connection that is given up.
LEMMA ClientsKeep ==
  ASSUME SessionInv, NEW r \in Requests, Devices(r) \/ Forget(r)
  PROVE  SessionInv'
  <1>1. UNCHANGED rows
    BY DEF Devices, Forget
  <1>2. CASE Forget(r)
    BY <1>1, <1>2, FreedKeeps DEF Forget
  <1>3. CASE Send(r, "login", None) \/ Send(r, "logout_all", None)
    BY <1>1, <1>3, SendKeeps
  <1>4. ASSUME NEW t \in Issued, Send(r, "refresh", t) \/ Send(r, "logout", t)
        PROVE  SessionInv'
    BY <1>1, <1>4, SendKeeps, Fields
  <1>5. QED
    BY <1>1, <1>2, <1>3, <1>4 DEF Devices

LEMMA SessionInvNext == SessionInv /\ [Next]_vars => SessionInv'
  <1>1. ASSUME SessionInv, UNCHANGED vars
        PROVE  SessionInv'
    <2>1. UNCHANGED <<family, live, tx>>
      BY <1>1 DEF vars, rows
    <2>2. SessionInv'
      BY <1>1, <2>1 DEF SessionInv, RowsTyped, OneLive, Exclusive, Sound, Issued
    <2>3. QED
      BY <2>1, <2>2 DEF rows
  <1>2. QED
    BY <1>1, ServeKeeps, ClientsKeep DEF Next
-----------------------------------------------------------------------------
\* Whatever devices send, a token that is being rotated is live and locked, and
\* a family has at most one live token.
THEOREM SessionsAreSound == Spec => []SessionInv
  BY SessionInvInit, SessionInvNext, PTL DEF Spec

-----------------------------------------------------------------------------
(* The contract: what the calls show, and the sessions they are going to end *)

Calls == [r \in Requests |-> Shown(tx[r])]
Ending == [r \in Requests |-> {family[t] : t \in live \cap ToRevoke(tx[r])}]

\* A transaction becomes t: its call shows it, and no other call moves.
LEMMA CallMoves ==
  ASSUME SessionInv, NEW r \in Requests, NEW t, Become(r, t)
  PROVE  /\ Calls' = [Calls EXCEPT ![r] = Shown(t)]
         /\ \A x \in Requests : tx'[x] = IF x = r THEN t ELSE tx[x]
  BY DEF Become, Calls, SessionInv

\* The rows stay: the sessions that the other calls will end are the same.
LEMMA EndingMoves ==
  ASSUME SessionInv, NEW r \in Requests, NEW t, Become(r, t), UNCHANGED rows
  PROVE  Ending' = [Ending EXCEPT ![r] = {family[u] : u \in live \cap ToRevoke(t)}]
  <1>1. family' = family /\ live' = live
    BY DEF rows
  <1>2. \A x \in Requests : tx'[x] = IF x = r THEN t ELSE tx[x]
    BY CallMoves
  <1>3. \A x \in Requests : {family[u] : u \in live \cap ToRevoke(tx[x])}'
                              = {family[u] : u \in live \cap ToRevoke(IF x = r THEN t ELSE tx[x])}
    BY <1>1, <1>2 DEF ToRevoke
  <1>4. QED
    BY <1>3 DEF Ending

\* A row is about to be revoked only if it exists, and a transaction that is
\* not revoking ends no session.
LEMMA RevokedRows ==
  ASSUME SessionInv, NEW r \in Requests
  PROVE  /\ ToRevoke(tx[r]) \subseteq Issued
         /\ tx[r].step # "revoking" => Ending[r] = {}
  BY Fields DEF ToRevoke, Sound, Ending

\* The live rows of R go, and with them their sessions, in which nothing but
\* new tokens can be live: no call has to end them any more.
LEMMA SessionsSettle ==
  ASSUME SessionInv, NEW r \in Requests, NEW a \in Tokens \cup {None}, Answer(r, a),
         NEW R \in SUBSET live, \A u \in Issued : family'[u] = family[u],
         \A u \in Issued : u \in live' <=> u \in live \ R
  PROVE  Ending' = [d \in Requests |->
                      IF d = r THEN {} ELSE Ending[d] \ {family[u] : u \in R}]
  <1> DEFINE t == [Idle EXCEPT !.step = "answered", !.answer = a]
             S == {family[u] : u \in R}
  <1>1. \A x \in Requests : tx'[x] = IF x = r THEN t ELSE tx[x]
    BY CallMoves DEF Answer
  <1>2. ToRevoke(t) = {}
    BY DEF ToRevoke, Idle
  <1>3. ASSUME NEW d \in Requests
        PROVE  {family'[u] : u \in live' \cap ToRevoke(tx'[d])}
                 = IF d = r THEN {} ELSE Ending[d] \ S
    <2>1. CASE d = r
      BY <1>1, <1>2, <2>1
    <2>2. CASE d # r
      <3> DEFINE T == ToRevoke(tx[d])
      <3>1. ToRevoke(tx'[d]) = T
        BY <1>1, <2>2
      <3>2. T \subseteq Issued /\ live \subseteq Issued
        BY RevokedRows, Fields
      <3>3. Ending[d] = {family[u] : u \in live \cap T}
        BY DEF Ending
      <3>4. \A u \in live, v \in R : family[u] = family[v] => u = v
        BY DEF SessionInv, OneLive
      <3> HIDE DEF T
      <3>5. {family'[u] : u \in live' \cap T} = {family[u] : u \in live \cap T} \ S
        <4>1. \A u \in live' \cap T : family'[u] = family[u] /\ u \in live \cap T /\ family[u] \notin S
          BY <3>2, <3>4
        <4>2. \A u \in live \cap T : family[u] \notin S => u \in live' /\ family'[u] = family[u]
          BY <3>2
        <4>3. QED
          BY <4>1, <4>2
      <3>6. QED
        BY <2>2, <3>1, <3>3, <3>5
    <2>3. QED
      BY <2>1, <2>2
  <1>4. Ending' = [d \in Requests |-> {family'[u] : u \in live' \cap ToRevoke(tx'[d])}]
    BY DEF Ending, ToRevoke
  <1>5. QED
    BY <1>3, <1>4

ContractStep == [Contract!Next]_(Contract!vars)

\* An idle connection shows nothing, and an answer shows itself.
LEMMA NothingIsShown == Shown(Idle) = Contract!Nothing /\ ToRevoke(Idle) = {}
  BY DEF Shown, ToRevoke, Idle, Contract!Nothing

\* A step that shows nothing is one of the contract.
LEMMA NothingShown ==
  ASSUME SessionInv, UNCHANGED <<rows, Calls, Ending>>
  PROVE  ContractStep
  BY DEF ContractStep, Contract!vars, Calls, Ending, rows

\* A client sends a request.
LEMMA AsksStep ==
  ASSUME SessionInv, NEW r \in Requests, NEW call \in {"login", "refresh", "logout", "logout_all"},
         NEW t \in Tokens \cup {None}, Send(r, call, t), UNCHANGED rows
  PROVE  ContractStep
  <1> DEFINE n == [Idle EXCEPT !.step = "sent", !.call = call, !.token = t]
  <1>1. tx[r] = Idle /\ Become(r, n)
    BY DEF Send
  <1>2. /\ Shown(Idle) = Contract!Nothing
        /\ Shown(n) = [at |-> "asked", asks |-> call, token |-> t, answer |-> None]
        /\ ToRevoke(n) = {}
    <2>1. n.step = "sent" /\ n.call = call /\ n.token = t /\ n.answer = None
      BY DEF Idle
    <2> HIDE DEF n
    <2>2. QED
      BY <2>1, NothingIsShown DEF Shown, ToRevoke
  <1>3. Calls[r] = Contract!Nothing /\ Ending[r] = {}
    BY <1>1, <1>2, RevokedRows DEF Calls, Idle
  <1> HIDE DEF n
  <1>4. Calls' = [Calls EXCEPT ![r] = Shown(n)] /\ Ending' = Ending
    <2>1. Calls' = [Calls EXCEPT ![r] = Shown(n)]
      BY <1>1, CallMoves
    <2>2. Ending' = [Ending EXCEPT ![r] = {}]
      BY <1>1, <1>2, EndingMoves
    <2>3. QED
      BY <1>3, <2>1, <2>2 DEF Ending
  <1>5. Contract!Ask(r, call, t)
    BY <1>2, <1>3, <1>4 DEF Contract!Ask, Calls, Ending, rows
  <1>6. Calls'[r].at # Calls[r].at
    <2>1. Calls'[r] = Shown(n)
      BY <1>4 DEF Calls
    <2>2. QED
      BY <1>2, <1>3, <2>1 DEF Contract!Nothing
  <1>7. QED
    BY <1>5, <1>6 DEF ContractStep, Contract!Next, Contract!Questions, Calls

\* A transaction fails, or nobody waits for its answer any more.
LEMMA FreedStep ==
  ASSUME SessionInv, NEW r \in Requests, Become(r, Idle), UNCHANGED rows, tx[r].step # "idle"
  PROVE  ContractStep
  <1>1. Shown(Idle) = Contract!Nothing /\ ToRevoke(Idle) = {}
    BY NothingIsShown
  <1>2. Calls' = [Calls EXCEPT ![r] = Contract!Nothing] /\ Ending' = [Ending EXCEPT ![r] = {}]
    BY <1>1, CallMoves, EndingMoves
  <1>3. Calls[r].at = "answered" => Ending' = Ending
    BY <1>2, RevokedRows DEF Calls, Shown, Ending
  <1>4. Calls[r].at \in {"asked", "ending", "answered"}
    BY Fields DEF Calls, Shown, Transaction
  <1>5. Contract!Fail(r) \/ Contract!Forget(r)
    BY <1>2, <1>3, <1>4 DEF Contract!Fail, Contract!Forget, Calls, Ending, rows
  <1>6. Calls'[r].at # Calls[r].at
    BY <1>2, <1>4 DEF Contract!Nothing, Calls
  <1>7. QED
    BY <1>5, <1>6 DEF ContractStep, Contract!Next, Calls

\* What the call of a request that has arrived shows.
LEMMA ArrivedShows ==
  ASSUME SessionInv, NEW r \in Requests, NEW call, Arrived(r, call)
  PROVE  /\ Calls[r].at = "asked" /\ Calls[r].asks = call /\ Calls[r].token = tx[r].token
         /\ Ending[r] = {}
  BY RevokedRows DEF Arrived, Calls, Shown

\* What an answer shows.
LEMMA AnswerShows ==
  ASSUME SessionInv, NEW r \in Requests, NEW a \in Tokens \cup {None}, Answer(r, a)
  PROVE  /\ Calls' = [Calls EXCEPT ![r] = [at |-> "answered", asks |-> None, token |-> None,
                                           answer |-> a]]
         /\ Calls'[r].at = "answered"
  <1> DEFINE t == [Idle EXCEPT !.step = "answered", !.answer = a]
  <1>1. Shown(t) = [at |-> "answered", asks |-> None, token |-> None, answer |-> a]
    <2>1. t.step = "answered" /\ t.call = None /\ t.token = None /\ t.answer = a
      BY DEF Idle
    <2> HIDE DEF t
    <2>2. QED
      BY <2>1 DEF Shown
  <1>2. Become(r, t)
    BY DEF Answer
  <1>3. tx'[r] = t /\ Calls' = [Calls EXCEPT ![r] = Shown(t)]
    BY <1>2, CallMoves
  <1> HIDE DEF t
  <1>4. Calls'[r] = Shown(t)
    BY <1>3 DEF Calls
  <1>5. QED
    BY <1>1, <1>3, <1>4

LEMMA AnswerMovesOn ==
  ASSUME SessionInv, NEW r \in Requests, NEW a \in Tokens \cup {None}, Answer(r, a),
         Calls[r].at \in {"asked", "ending"}
  PROVE  Calls'[r].at # Calls[r].at
  BY AnswerShows

LEMMA LoginSignsIn ==
  ASSUME SessionInv, NEW r \in Requests, NEW f \in Families, NEW t \in Tokens, Login(r, f, t)
  PROVE  ContractStep
  <1>1. /\ Arrived(r, "login") /\ Fresh(t) /\ \A u \in Issued : family[u] # f
        /\ family' = [family EXCEPT ![t] = f] /\ live' = live \cup {t} /\ Answer(r, t)
    BY DEF Login
  <1>2. family[t] = None /\ \A u \in Tokens : family[u] # f
    BY <1>1, Fields DEF Fresh, Issued
  <1>3. Ending' = [d \in Requests |-> IF d = r THEN {} ELSE Ending[d] \ {family[u] : u \in {}}]
    <2>1. \A u \in Issued : family'[u] = family[u] /\ (u \in live' <=> u \in live \ {})
      BY <1>1, <1>2, Fields DEF Issued
    <2>2. QED
      BY <1>1, <2>1, SessionsSettle
  <1>4. Ending' = Ending
    BY <1>1, <1>3, ArrivedShows DEF Ending
  <1>5. Contract!SignIn(r, f, t)
    BY <1>1, <1>2, <1>4, ArrivedShows, AnswerShows
    DEF Contract!SignIn, Contract!Asked, Contract!Answer, Calls, Ending
  <1>6. Calls'[r].at # Calls[r].at
    BY <1>1, ArrivedShows, AnswerMovesOn
  <1>7. QED
    BY <1>5, <1>6 DEF ContractStep, Contract!Next, Calls

LEMMA RotationRenews ==
  ASSUME SessionInv, NEW r \in Requests, CommitRotation(r)
  PROVE  ContractStep
  <1> DEFINE t == tx[r].token
             n == tx[r].new
             f == family[t]
  <1>1. /\ tx[r].step = "rotating"
        /\ family' = [family EXCEPT ![n] = f] /\ live' = (live \ {t}) \cup {n} /\ Answer(r, n)
    BY DEF CommitRotation
  <1>2. /\ t \in live /\ t \in Tokens /\ n \in Tokens \ Issued /\ family[n] = None
        /\ tx[r].call = "refresh"
    BY <1>1, Fields DEF Sound, Issued
  <1>3. Calls[r].at = "asked" /\ Calls[r].asks = "refresh" /\ Calls[r].token = t
    BY <1>1, <1>2 DEF Calls, Shown
  <1>4. Ending' = [d \in Requests |-> IF d = r THEN {} ELSE Ending[d] \ {f}]
    <2> DEFINE R == {t}
    <2>1. \A u \in Issued : family'[u] = family[u] /\ (u \in live' <=> u \in live \ R)
      BY <1>1, <1>2, Fields
    <2>2. {family[u] : u \in R} = {f} /\ R \in SUBSET live /\ n \in Tokens
      BY <1>2
    <2> HIDE DEF R, t, n, f
    <2>3. QED
      BY <1>1, <2>1, <2>2, SessionsSettle
  <1>5. live' = {u \in live : family[u] \notin {f}} \cup {n}
    BY <1>1, <1>2 DEF SessionInv, OneLive
  <1>6. Contract!Renew(r, n)
    <2>1. Calls[r].token \in live /\ family[Calls[r].token] = f
      BY <1>2, <1>3
    <2> HIDE DEF t, n, f
    <2>2. QED
      BY <1>1, <1>2, <1>3, <1>4, <1>5, <2>1, AnswerShows
      DEF Contract!Renew, Contract!Asked, Contract!Answer, Contract!Settled, Contract!Without,
          Calls, Ending
  <1>7. Calls'[r].at # Calls[r].at
    BY <1>1, <1>2, <1>3, AnswerMovesOn
  <1>8. QED
    BY <1>2, <1>6, <1>7 DEF ContractStep, Contract!Next, Calls

LEMMA LogoutEndsOne ==
  ASSUME SessionInv, NEW r \in Requests, RefuseExpired(r) \/ Logout(r)
  PROVE  ContractStep
  <1> DEFINE t == tx[r].token
             f == family[t]
  <1>1. /\ \/ Arrived(r, "refresh") /\ t \in live
           \/ Arrived(r, "logout")
        /\ family' = family /\ live' = live \ {t} /\ Answer(r, None)
    BY DEF RefuseExpired, Logout
  <1>2. /\ Calls[r].at = "asked" /\ Calls[r].asks \in {"refresh", "logout"}
        /\ Calls[r].asks = "refresh" => t \in live
        /\ Calls[r].token = t /\ Ending[r] = {}
    BY <1>1, ArrivedShows
  <1>3. Calls'[r].at # Calls[r].at
    BY <1>1, <1>2, AnswerMovesOn
  <1>4. CASE t \in live
    <2>1. Ending' = [d \in Requests |-> IF d = r THEN {} ELSE Ending[d] \ {f}]
      <3> DEFINE R == {t}
      <3>1. \A u \in Issued : family'[u] = family[u] /\ (u \in live' <=> u \in live \ R)
        BY <1>1
      <3>2. {family[u] : u \in R} = {f} /\ R \in SUBSET live
        BY <1>4
      <3> HIDE DEF R, t, f
      <3>3. QED
        BY <1>1, <3>1, <3>2, SessionsSettle
    <2>2. live' = {u \in live : family[u] \notin {f}}
      BY <1>1, <1>4 DEF SessionInv, OneLive
    <2>3. Calls[r].token \in live /\ family[Calls[r].token] = f
      BY <1>2, <1>4
    <2> HIDE DEF t, f
    <2>4. Contract!EndOne(r)
      BY <1>1, <1>2, <2>1, <2>2, <2>3, AnswerShows
      DEF Contract!EndOne, Contract!Asked, Contract!Answer, Contract!Settled, Contract!Without,
          Calls, Ending
    <2>5. QED
      BY <1>3, <2>4 DEF ContractStep, Contract!Next, Calls
  <1>5. CASE t \notin live
    <2>1. live' = live
      BY <1>1, <1>5
    <2>2. Ending' = [d \in Requests |-> IF d = r THEN {} ELSE Ending[d] \ {family[u] : u \in {}}]
      BY <1>1, <2>1, SessionsSettle
    <2>3. Ending' = Ending
      BY <1>2, <2>2 DEF Ending
    <2>4. Contract!NothingToEnd(r)
      BY <1>1, <1>2, <1>5, <2>1, <2>3, AnswerShows
      DEF Contract!NothingToEnd, Contract!Asked, Contract!Answer, Calls, Ending
    <2>5. QED
      BY <1>3, <2>4 DEF ContractStep, Contract!Next, Calls
  <1>6. QED
    BY <1>4, <1>5

\* The snapshot of a revocation: the call goes on to end the sessions it names.
LEMMA RevocationTakesUp ==
  ASSUME SessionInv, NEW r \in Requests, DetectReuse(r) \/ LogoutAll(r)
  PROVE  ContractStep
  <1>1. ASSUME NEW S \in SUBSET Issued, NEW H \in SUBSET Issued, BeginRevocation(r, S, H),
               tx[r].step = "sent"
        PROVE  /\ Calls' = [Calls EXCEPT ![r].at = "ending"]
               /\ Ending' = [Ending EXCEPT ![r] = {family[u] : u \in live \cap (S \cup H)}]
               /\ Calls'[r].at # Calls[r].at
               /\ UNCHANGED <<family, live>>
    <2> DEFINE t == [tx[r] EXCEPT !.step = "revoking", !.todo = S, !.held = H]
    <2>1. Become(r, t) /\ UNCHANGED rows
      BY <1>1 DEF BeginRevocation
    <2>2. /\ Shown(tx[r]).at = "asked"
          /\ Shown(t) = [Shown(tx[r]) EXCEPT !.at = "ending"]
          /\ ToRevoke(t) = S \cup H
      BY <1>1, Fields DEF Shown, ToRevoke, Transaction
    <2> HIDE DEF t
    <2>3. Calls[r] = Shown(tx[r])
      BY DEF Calls
    <2>4. Calls' = [Calls EXCEPT ![r] = [Shown(tx[r]) EXCEPT !.at = "ending"]]
      BY <2>1, <2>2, CallMoves
    <2>5. Calls'[r].at = "ending"
      <3>1. Calls'[r] = Shown(t)
        BY <2>1, CallMoves DEF Calls
      <3>2. QED
        BY <2>2, <3>1 DEF Shown
    <2>6. QED
      BY <2>1, <2>2, <2>3, <2>4, <2>5, EndingMoves DEF rows
  <1>2. CASE DetectReuse(r)
    <2> DEFINE u == tx[r].token
               f == family[u]
    <2>1. /\ Arrived(r, "refresh") /\ u \in Issued \ live
          /\ BeginRevocation(r, LiveIn(f), {u})
      BY <1>2 DEF DetectReuse
    <2>2. LiveIn(f) \in SUBSET Issued /\ {u} \in SUBSET Issued
      BY <2>1, Fields DEF LiveIn
    <2>3. {family[v] : v \in live \cap (LiveIn(f) \cup {u})} = {f} \cap {family[v] : v \in live}
      BY <2>1 DEF LiveIn
    <2>4. /\ Calls[r].at = "asked" /\ Calls[r].asks = "refresh" /\ Calls[r].token = u
          /\ u \notin live /\ f # None
      BY <2>1, ArrivedShows DEF Issued
    <2>5. Contract!DetectReuse(r)
      <3>1. /\ Calls' = [Calls EXCEPT ![r].at = "ending"]
            /\ Ending' = [Ending EXCEPT ![r] = {f} \cap {family[v] : v \in live}]
            /\ UNCHANGED <<family, live>>
        <4> DEFINE S == LiveIn(f)
                   H == {u}
        <4>1. S \in SUBSET Issued /\ H \in SUBSET Issued /\ BeginRevocation(r, S, H)
          BY <2>1, <2>2
        <4> HIDE DEF S, H
        <4>2. /\ Calls' = [Calls EXCEPT ![r].at = "ending"]
              /\ Ending' = [Ending EXCEPT ![r] = {family[v] : v \in live \cap (S \cup H)}]
              /\ UNCHANGED <<family, live>>
          BY <1>1, <2>1, <4>1 DEF Arrived
        <4>3. QED
          BY <2>3, <4>2 DEF S, H
      <3>2. Calls[r].token \notin live /\ family[Calls[r].token] = f
        BY <2>4
      <3> HIDE DEF u, f
      <3>3. QED
        BY <2>4, <3>1, <3>2
        DEF Contract!DetectReuse, Contract!Asked, Contract!EndsAll, Contract!Open, Calls, Ending
    <2>6. QED
      BY <1>1, <2>1, <2>2, <2>5 DEF Arrived, ContractStep, Contract!Next, Calls
  <1>3. CASE LogoutAll(r)
    <2>1. Arrived(r, "logout_all") /\ BeginRevocation(r, live, {})
      BY <1>3 DEF LogoutAll
    <2>2. live \in SUBSET Issued /\ live \cap (live \cup {}) = live
      BY Fields
    <2>3. /\ Calls' = [Calls EXCEPT ![r].at = "ending"]
          /\ Ending' = [Ending EXCEPT ![r] = {family[u] : u \in live}]
          /\ Calls'[r].at # Calls[r].at
          /\ UNCHANGED <<family, live>>
      <3>1. {} \in SUBSET Issued /\ tx[r].step = "sent"
        BY <2>1 DEF Arrived
      <3>2. Ending' = [Ending EXCEPT ![r] = {family[u] : u \in live \cap (live \cup {})}]
        BY <1>1, <2>1, <2>2, <3>1
      <3>3. QED
        BY <1>1, <2>1, <2>2, <3>1, <3>2
    <2>4. Contract!LogoutAll(r)
      BY <2>1, <2>3, ArrivedShows
      DEF Contract!LogoutAll, Contract!Asked, Contract!EndsAll, Contract!Open, Calls, Ending
    <2>5. QED
      BY <2>3, <2>4 DEF ContractStep, Contract!Next, Calls
  <1>4. QED
    BY <1>2, <1>3

\* One row more is locked: what the call shows, and will end, is the same.
LEMMA NextRowIsLocked ==
  ASSUME SessionInv, NEW r \in Requests, NEW u \in Tokens, LockNext(r, u)
  PROVE  ContractStep
  <1> DEFINE t == [tx[r] EXCEPT !.todo = @ \ {u}, !.held = @ \cup {u}]
  <1>1. Become(r, t) /\ UNCHANGED rows /\ tx[r].step = "revoking" /\ u \in tx[r].todo
    BY DEF LockNext
  <1>2. Shown(t) = Shown(tx[r]) /\ ToRevoke(t) = ToRevoke(tx[r])
    BY <1>1, Fields DEF Shown, ToRevoke, Transaction
  <1> HIDE DEF t
  <1>3. Calls' = Calls /\ Ending' = Ending
    <2>1. Calls' = [Calls EXCEPT ![r] = Shown(tx[r])]
      BY <1>1, <1>2, CallMoves
    <2>2. Ending' = [Ending EXCEPT ![r] = {family[v] : v \in live \cap ToRevoke(tx[r])}]
      BY <1>1, <1>2, EndingMoves
    <2>3. QED
      BY <2>1, <2>2 DEF Calls, Ending
  <1>4. QED
    BY <1>1, <1>3, NothingShown

LEMMA RotationIsHidden ==
  ASSUME SessionInv, NEW r \in Requests, NEW n \in Tokens, BeginRotation(r, n)
  PROVE  ContractStep
  <1> DEFINE t == [tx[r] EXCEPT !.step = "rotating", !.new = n, !.held = {tx[r].token}]
  <1>1. Become(r, t) /\ UNCHANGED rows /\ tx[r].step = "sent"
    BY DEF BeginRotation, Arrived
  <1>2. Shown(t) = Shown(tx[r]) /\ ToRevoke(t) = ToRevoke(tx[r])
    BY <1>1, Fields DEF Shown, ToRevoke, Transaction
  <1> HIDE DEF t
  <1>3. Calls' = Calls /\ Ending' = Ending
    <2>1. Calls' = [Calls EXCEPT ![r] = Shown(tx[r])]
      BY <1>1, <1>2, CallMoves
    <2>2. Ending' = [Ending EXCEPT ![r] = {family[v] : v \in live \cap ToRevoke(tx[r])}]
      BY <1>1, <1>2, EndingMoves
    <2>3. QED
      BY <2>1, <2>2 DEF Calls, Ending
  <1>4. QED
    BY <1>1, <1>3, NothingShown

\* A revocation commits: the sessions that the call was to end are over.
LEMMA RevocationEndsThem ==
  ASSUME SessionInv, NEW r \in Requests, CommitRevocation(r)
  PROVE  ContractStep
  <1> DEFINE R == live \cap tx[r].held
  <1>1. /\ tx[r].step = "revoking" /\ tx[r].todo = {}
        /\ family' = family /\ live' = live \ tx[r].held /\ Answer(r, None)
    BY DEF CommitRevocation
  <1>2. ToRevoke(tx[r]) = tx[r].held /\ Ending[r] = {family[u] : u \in R}
    BY <1>1 DEF ToRevoke, Ending
  <1>3. Calls[r].at = "ending"
    BY <1>1 DEF Calls, Shown
  <1>4. Ending' = [d \in Requests |-> IF d = r THEN {} ELSE Ending[d] \ {family[u] : u \in R}]
    <2>1. \A u \in Issued : family'[u] = family[u] /\ (u \in live' <=> u \in live \ R)
      BY <1>1
    <2>2. QED
      BY <1>1, <2>1, SessionsSettle
  <1>5. live' = {u \in live : family[u] \notin {family[v] : v \in R}}
    <2>1. \A u, v \in live : family[u] = family[v] => u = v
      BY DEF SessionInv, OneLive
    <2>2. QED
      BY <1>1, <2>1
  <1> HIDE DEF R
  <1>6. Contract!EndThem(r)
    <2>1. /\ Ending' = [d \in Requests |-> IF d = r THEN {} ELSE Ending[d] \ Ending[r]]
          /\ live' = {u \in live : family[u] \notin Ending[r]}
      BY <1>2, <1>4, <1>5
    <2>2. QED
      BY <1>1, <1>3, <2>1, AnswerShows
      DEF Contract!EndThem, Contract!Answer, Contract!Settled, Contract!Without, Calls, Ending
  <1>7. Calls'[r].at # Calls[r].at
    BY <1>1, <1>3, AnswerMovesOn
  <1>8. QED
    BY <1>6, <1>7 DEF ContractStep, Contract!Next, Calls

\* What a step of the devices and the server does to the rows and connections.
Traffic ==
  \/ UNCHANGED <<rows, tx>>
  \/ \E r \in Requests : tx[r].step = "answered" /\ Become(r, Idle) /\ UNCHANGED rows
  \/ \E r \in Requests :
       \E call \in {"login", "refresh", "logout", "logout_all"}, t \in Tokens \cup {None} :
         Send(r, call, t) /\ UNCHANGED rows
  \/ \E r \in Requests : Serve(r)

LEMMA TrafficKeepsTheContract ==
  ASSUME SessionInv, Traffic
  PROVE  ContractStep
  <1>1. CASE UNCHANGED <<rows, tx>>
    BY <1>1, NothingShown DEF Calls, Ending, rows
  <1>2. ASSUME NEW r \in Requests, tx[r].step = "answered", Become(r, Idle), UNCHANGED rows
        PROVE  ContractStep
    BY <1>2, FreedStep
  <1>3. ASSUME NEW r \in Requests, Serve(r)
        PROVE  ContractStep
    <2>1. CASE Abort(r)
      BY <2>1, FreedStep DEF Abort
    <2>2. QED
      BY <1>3, <2>1, LoginSignsIn, RotationIsHidden, NextRowIsLocked, RotationRenews, LogoutEndsOne,
         RevocationTakesUp, RevocationEndsThem DEF Serve
  <1>4. QED
    BY <1>1, <1>2, <1>3, AsksStep DEF Traffic

LEMMA ContractInit == Init => Contract!Init
  <1>1. Shown(Idle) = Contract!Nothing /\ ToRevoke(Idle) = {}
    BY NothingIsShown
  <1>2. QED
    BY <1>1 DEF Init, Contract!Init

\* The session endpoints implement the contract for any devices of the user:
\* each call that is answered signed in, renewed its session, or ended the
\* sessions that it was to end.
THEOREM SessionsImplementContract == Spec => Contract!Spec
  <1>1. SessionInv /\ [Next]_vars => [Contract!Next]_(Contract!vars)
    <2> SUFFICES ASSUME SessionInv, [Next]_vars
                 PROVE  ContractStep
      BY DEF ContractStep
    <2>1. \A r \in Requests : Devices(r) => Traffic
      BY Fields DEF Devices, Traffic
    <2>2. Traffic
      BY <2>1 DEF Next, vars, Forget, Traffic
    <2>3. QED
      BY <2>2, TrafficKeepsTheContract
  <1>2. QED
    BY <1>1, ContractInit, SessionsAreSound, PTL DEF Spec, Contract!Spec
-----------------------------------------------------------------------------
(* The client *)

Writes == {"write_access", "write_refresh"}
Deletes == {"delete_access", "delete_refresh"}

ChainRecord ==
  [step : StorageSteps \cup {"idle", "joined", "guest", "ask_me", "login", "logout",
                             "ask_logout_all", "logout_all", "refreshing"},
   goal : {"request", "restore", "logout_all", None},
   token : Tokens \cup {None}, saw : BOOLEAN,
   request : Requests \cup {None}, stale : BOOLEAN]

\* The steps of each chain, and what its read is for.
ChainsTyped ==
  /\ chain \in [Chains -> ChainRecord]
  /\ chain.reader.step \in {"idle", "read_access", "read_refresh", "joined"}
  /\ chain.reader.step # "idle" => chain.reader.goal = "request"
  /\ chain.main.step \notin {"read_again", "refreshing"}
  /\ chain.main.step \in {"read_access", "read_refresh", "joined"} =>
       chain.main.goal \in {"restore", "logout_all"}
  /\ chain.rotation.step \in Changing \cup {"idle", "refreshing", "read_again"}
  /\ (\E c \in Chains : chain[c].step = "joined") => chain.rotation.step # "idle"

In(c, q) == \E i \in 1 .. Len(q) : q[i] = c
Before(c, d, q) == \E i, j \in 1 .. Len(q) : i < j /\ q[i] = c /\ q[j] = d
Once(q) == q \in Seq(Chains) /\ \A i, j \in 1 .. Len(q) : q[i] = q[j] => i = j

\* A chain is in the queue once, and only at a storage step.
QueueInv ==
  /\ Once(queue)
  /\ \A c \in Chains : chain[c].step \in StorageSteps <=> In(c, queue)

ClientTyped ==
  /\ ChainsTyped /\ QueueInv
  /\ access \in Tokens \cup {None} /\ refresh \in Tokens \cup {None}
  /\ screen \in {"checking", "guest", "home"}
  /\ signedIn \in BOOLEAN /\ torn \in BOOLEAN /\ lost \in SUBSET Families
-----------------------------------------------------------------------------
(* The storage *)

Pending(c) == chain[c].step \in Changing

\* What c writes to the two keys, and whether it has written the first.
Value(c) == IF chain[c].step \in Writes THEN chain[c].token ELSE None
Half(c) == chain[c].step \in {"write_refresh", "delete_refresh"}

Ahead(c, d) == Before(c, d, queue)

\* Of two chains that change the storage, c started first.
First(c, d) == (Half(c) /\ ~Half(d)) \/ ((Half(c) <=> Half(d)) /\ Ahead(c, d))

Pair == {<<"main", "rotation">>, <<"rotation", "main">>}

\* The access key is that of the chain that wrote it last.
LastWriter ==
  \A p \in Pair : Half(p[1]) /\ (Half(p[2]) => Ahead(p[2], p[1])) => access = Value(p[1])

\* Whether one is signed in was decided by the chain that started last, but a
\* rotation that stores its answer decides nothing.
LastDecides ==
  /\ chain.main.step \in Writes /\ ~(chain.rotation.step \in Deletes /\ First("main", "rotation"))
       => signedIn
  /\ chain.main.step \in Deletes => ~signedIn
  /\ chain.rotation.step \in Deletes /\ (Pending("main") => First("main", "rotation")) => ~signedIn

\* As long as no rotation started while main was changing the storage: the
\* rotation is first if both do, one whose answer will be stored belongs to who
\* is signed in, and the storage is whole while nobody changes it.
WholeUnlessTorn ==
  ~torn =>
    /\ Pending("main") /\ Pending("rotation") => First("rotation", "main")
    /\ chain.rotation.step = "refreshing" /\ ~chain.rotation.stale => ~Pending("main") /\ signedIn
    /\ chain.rotation.step \in Writes /\ ~Pending("main") => signedIn
    /\ ~Pending("main") /\ ~Pending("rotation") =>
         access = refresh /\ (signedIn <=> refresh # None)

StoreInv == LastWriter /\ LastDecides /\ WholeUnlessTorn
-----------------------------------------------------------------------------
(* The wire *)

\* The session of t is over, or an answer to it was lost; t can be used, or is
\* of such a session.
Ended(t) == LiveIn(family[t]) = {} \/ family[t] \in lost
Usable(t) == t \in live \/ Ended(t)

\* Every rotation that the server may yet begin or commit is the one that the
\* client waits for, or its session is lost.
OneInFlight ==
  \A r \in Requests :
    /\ tx[r].step = "rotating" \/ (tx[r].step = "sent" /\ tx[r].call = "refresh")
    /\ family[tx[r].token] \notin lost
    => /\ chain.rotation.step = "refreshing" /\ chain.rotation.request = r
       /\ chain.rotation.token = tx[r].token

\* The request that the rotation waits for, and its answer.
RotationOn(t, r) ==
  \/ tx[r].step = "idle"
  \/ /\ tx[r].step \in {"sent", "rotating", "revoking"}
     /\ tx[r].call = "refresh" /\ tx[r].token = t
     /\ tx[r].step = "sent" => Usable(t)
     /\ tx[r].step = "revoking" => Ended(t)
  \/ /\ tx[r].step = "answered"
     /\ tx[r].answer = None => Ended(t)
     /\ tx[r].answer # None => family[tx[r].answer] = family[t] /\ Usable(tx[r].answer)

RotationSound ==
  /\ chain.rotation.step = "refreshing" =>
       /\ chain.rotation.token \in Issued /\ chain.rotation.request \in Requests
       /\ RotationOn(chain.rotation.token, chain.rotation.request)
  /\ chain.rotation.step \in Writes =>
       chain.rotation.token \in Issued /\ Usable(chain.rotation.token)

\* The token of a login is of a session that the storage and the rotation do
\* not know yet.
NewSession(t) ==
  /\ t \in Issued /\ Usable(t)
  /\ refresh # None => family[t] # family[refresh]
  /\ chain.rotation.step \in Writes \cup {"refreshing"} => family[t] # family[chain.rotation.token]

LoginOn(r) ==
  \/ tx[r].step = "idle"
  \/ tx[r].step = "sent" /\ tx[r].call = "login"
  \/ tx[r].step = "answered" /\ NewSession(tx[r].answer)

LoginSound ==
  /\ chain.main.step = "login" => chain.main.request \in Requests /\ LoginOn(chain.main.request)
  /\ chain.main.step \in Writes => NewSession(chain.main.token)

\* The stored refresh token can be used, or the rotation in flight replaces it.
StoredSound ==
  /\ access \in Issued \cup {None} /\ refresh \in Issued \cup {None}
  /\ refresh # None =>
       \/ Usable(refresh)
       \/ /\ chain.rotation.step \in Writes \cup {"refreshing"}
          /\ family[chain.rotation.token] = family[refresh]

WireInv == OneInFlight /\ RotationSound /\ LoginSound /\ StoredSound

\* The inductive invariant.
MobileInv == SessionInv /\ ClientTyped /\ StoreInv /\ WireInv
-----------------------------------------------------------------------------
(* Queues *)

\* A chain that joins a queue, or does not.
LEMMA JoinsOnce ==
  ASSUME NEW q, Once(q), NEW c \in Chains, NEW s \in {<<>>, <<c>>}, s = <<c>> => ~In(c, q)
  PROVE  /\ Once(q \o s)
         /\ \A d \in Chains : In(d, q \o s) <=> In(d, q) \/ (d = c /\ s = <<c>>)
         /\ \A d, e \in Chains : Before(d, e, q) => Before(d, e, q \o s)
         /\ \A d \in Chains : In(d, q) /\ s = <<c>> => Before(d, c, q \o s)
  <1>1. q \in Seq(Chains) /\ \A i, j \in 1 .. Len(q) : q[i] = q[j] => i = j
    BY DEF Once
  <1>2. CASE s = <<>>
    <2>1. q \o s = q
      BY <1>1, <1>2
    <2>2. <<>> # <<c>>
      OBVIOUS
    <2>3. QED
      BY <1>2, <2>1, <2>2
  <1>3. CASE s = <<c>>
    <2> DEFINE p == q \o <<c>>
    <2>1. /\ p \in Seq(Chains) /\ Len(p) = Len(q) + 1 /\ Len(q) \in Nat
          /\ \A i \in 1 .. Len(q) : p[i] = q[i]
          /\ p[Len(q) + 1] = c
      BY <1>1
    <2> HIDE DEF p
    <2>2. Once(p)
      BY <1>1, <1>3, <2>1 DEF Once, In
    <2>3. \A d \in Chains : In(d, p) <=> In(d, q) \/ d = c
      BY <2>1 DEF In
    <2>4. \A d, e \in Chains : Before(d, e, q) => Before(d, e, p)
      BY <2>1 DEF Before
    <2>5. \A d \in Chains : In(d, q) => Before(d, c, p)
      BY <2>1 DEF In, Before
    <2>6. QED
      BY <1>3, <2>2, <2>3, <2>4, <2>5 DEF p
  <1>4. QED
    BY <1>2, <1>3

\* Nobody is ahead of himself, or behind somebody ahead of whom he is.
LEMMA QueueIsOrdered ==
  ASSUME NEW q, Once(q), NEW c \in Chains, NEW d \in Chains, In(c, q), In(d, q), c # d
  PROVE  Before(c, d, q) <=> ~Before(d, c, q)
  <1>1. q \in Seq(Chains) /\ \A i, j \in 1 .. Len(q) : q[i] = q[j] => i = j
    BY DEF Once
  <1>2. PICK i \in 1 .. Len(q) : q[i] = c
    BY DEF In
  <1>3. PICK j \in 1 .. Len(q) : q[j] = d
    BY DEF In
  <1>4. Before(c, d, q) <=> i < j
    BY <1>1, <1>2, <1>3 DEF Before
  <1>5. Before(d, c, q) <=> j < i
    BY <1>1, <1>2, <1>3 DEF Before
  <1>6. i # j /\ i \in Int /\ j \in Int
    BY <1>2, <1>3
  <1>7. QED
    BY <1>4, <1>5, <1>6

\* The head leaves.
LEMMA HeadLeaves ==
  ASSUME NEW q, Once(q), q # <<>>
  PROVE  /\ Once(Tail(q)) /\ Head(q) \in Chains
         /\ \A d \in Chains : In(d, Tail(q)) <=> In(d, q) /\ d # Head(q)
         /\ \A d, e \in Chains : Before(d, e, q) /\ d # Head(q) => Before(d, e, Tail(q))
         /\ \A d \in Chains : ~Before(d, Head(q), q)
  <1> DEFINE p == Tail(q)
  <1>1. q \in Seq(Chains) /\ \A i, j \in 1 .. Len(q) : q[i] = q[j] => i = j
    BY DEF Once
  <1>2. /\ p \in Seq(Chains) /\ Len(q) \in Nat \ {0} /\ Len(p) = Len(q) - 1
        /\ \A i \in 1 .. Len(p) : p[i] = q[i + 1]
        /\ Head(q) = q[1] /\ q[1] \in Chains
    BY <1>1
  <1> HIDE DEF p
  <1>3. \A i \in 2 .. Len(q) : i - 1 \in 1 .. Len(p) /\ p[i - 1] = q[i]
    BY <1>2
  <1>4. Once(p)
    BY <1>1, <1>2 DEF Once
  <1>5. ASSUME NEW d \in Chains
        PROVE  In(d, p) <=> In(d, q) /\ d # Head(q)
    <2>1. ASSUME In(d, p)
          PROVE  In(d, q) /\ d # Head(q)
      <3>1. PICK i \in 1 .. Len(p) : p[i] = d
        BY <2>1 DEF In
      <3>2. i + 1 \in 1 .. Len(q) /\ q[i + 1] = d /\ i + 1 # 1 /\ 1 \in 1 .. Len(q)
        BY <1>2, <3>1
      <3>3. QED
        BY <1>1, <1>2, <3>2 DEF In
    <2>2. ASSUME In(d, q), d # Head(q)
          PROVE  In(d, p)
      <3>1. PICK i \in 1 .. Len(q) : q[i] = d
        BY <2>2 DEF In
      <3>2. i \in 2 .. Len(q)
        BY <1>2, <2>2, <3>1
      <3>3. QED
        BY <1>3, <3>1, <3>2 DEF In
    <2>3. QED
      BY <2>1, <2>2
  <1>6. ASSUME NEW d \in Chains, NEW e \in Chains, Before(d, e, q), d # Head(q)
        PROVE  Before(d, e, p)
    <2>1. PICK i \in 1 .. Len(q), j \in 1 .. Len(q) : i < j /\ q[i] = d /\ q[j] = e
      BY <1>6 DEF Before
    <2>2. i \in 2 .. Len(q) /\ j \in 2 .. Len(q) /\ i - 1 < j - 1
      BY <1>2, <1>6, <2>1
    <2>3. QED
      BY <1>3, <2>1, <2>2 DEF Before
  <1>7. ASSUME NEW d \in Chains, Before(d, Head(q), q)
        PROVE  FALSE
    <2>1. PICK i \in 1 .. Len(q), j \in 1 .. Len(q) : i < j /\ q[j] = q[1]
      BY <1>2, <1>7 DEF Before
    <2>2. QED
      BY <1>1, <1>2, <2>1
  <1>8. QED
    BY <1>2, <1>4, <1>5, <1>6, <1>7 DEF p

\* What Continue makes of the queue: whoever was in it keeps his place, and
\* those that call the storage join behind.
LEMMA QueueAfter ==
  ASSUME NEW C \in [Chains -> ChainRecord], NEW rest, Continue(C, rest), Once(rest),
         \A c \in Chains : In(c, rest) => C[c].step \in StorageSteps
  PROVE  /\ chain' = C /\ QueueInv'
         /\ \A c, d \in Chains : Before(c, d, rest) => Ahead(c, d)'
         /\ \A c, d \in Chains : In(c, rest) /\ ~In(d, rest) /\ C[d].step \in StorageSteps
                                   => Ahead(c, d)'
  <1> DEFINE joins(c) == IF C[c].step \in StorageSteps /\ \A i \in DOMAIN rest : rest[i] # c
                           THEN <<c>> ELSE <<>>
             q1 == rest \o joins("rotation")
             q2 == q1 \o joins("main")
             q3 == q2 \o joins("reader")
  <1>1. chain' = C /\ queue' = q3
    BY DEF Continue
  <1>2. /\ "rotation" \in Chains /\ "main" \in Chains /\ "reader" \in Chains
        /\ \A c \in Chains : c \in {"rotation", "main", "reader"}
    BY DEF Chains
  <1>3. \A c \in Chains : /\ joins(c) \in {<<>>, <<c>>}
                          /\ joins(c) = <<c>> <=> C[c].step \in StorageSteps /\ ~In(c, rest)
    <2>1. DOMAIN rest = 1 .. Len(rest)
      BY DEF Once
    <2>2. \A c \in Chains : <<c>> # <<>>
      OBVIOUS
    <2>3. QED
      BY <2>1, <2>2 DEF In
  <1> HIDE DEF joins
  <1>4. /\ Once(q1)
        /\ \A d \in Chains : In(d, q1) <=> In(d, rest) \/ (d = "rotation" /\ joins("rotation") = <<"rotation">>)
        /\ \A d, e \in Chains : Before(d, e, rest) => Before(d, e, q1)
        /\ \A d \in Chains : In(d, rest) /\ joins("rotation") = <<"rotation">> => Before(d, "rotation", q1)
    BY <1>2, <1>3, JoinsOnce
  <1> HIDE DEF q1
  <1>5. /\ Once(q2)
        /\ \A d \in Chains : In(d, q2) <=> In(d, q1) \/ (d = "main" /\ joins("main") = <<"main">>)
        /\ \A d, e \in Chains : Before(d, e, q1) => Before(d, e, q2)
        /\ \A d \in Chains : In(d, q1) /\ joins("main") = <<"main">> => Before(d, "main", q2)
    BY <1>2, <1>3, <1>4, JoinsOnce
  <1> HIDE DEF q2
  <1>6. /\ Once(q3)
        /\ \A d \in Chains : In(d, q3) <=> In(d, q2) \/ (d = "reader" /\ joins("reader") = <<"reader">>)
        /\ \A d, e \in Chains : Before(d, e, q2) => Before(d, e, q3)
        /\ \A d \in Chains : In(d, q2) /\ joins("reader") = <<"reader">> => Before(d, "reader", q3)
    BY <1>2, <1>3, <1>4, <1>5, JoinsOnce
  <1> HIDE DEF q3
  <1>7. \A c \in Chains : C[c].step \in StorageSteps <=> In(c, q3)
    BY <1>2, <1>3, <1>4, <1>5, <1>6
  <1>8. QueueInv'
    BY <1>1, <1>6, <1>7 DEF QueueInv
  <1>9. \A c, d \in Chains : Before(c, d, rest) => Before(c, d, q3)
    BY <1>4, <1>5, <1>6
  <1>10. ASSUME NEW c \in Chains, NEW d \in Chains, In(c, rest), ~In(d, rest), C[d].step \in StorageSteps
         PROVE  Before(c, d, q3)
    BY <1>2, <1>3, <1>4, <1>5, <1>6, <1>10
  <1>11. QED
    BY <1>1, <1>8, <1>9, <1>10 DEF Ahead
-----------------------------------------------------------------------------
(* What the operators on chains do *)

LEMMA ChainNames ==
  /\ Chains = {"main", "reader", "rotation"}
  /\ "main" \in Chains /\ "reader" \in Chains /\ "rotation" \in Chains
  BY DEF Chains

LEMMA NothingTyped ==
  Nothing \in ChainRecord /\ Nothing.step = "idle" /\ Nothing.request = None /\ Nothing.stale = FALSE
  BY DEF Nothing, ChainRecord

\* Clear makes the chain delete, and outdates a rotation in flight.
LEMMA ClearChains ==
  ASSUME NEW C \in [Chains -> ChainRecord], NEW c \in Chains
  PROVE  /\ Clear(C, c) \in [Chains -> ChainRecord]
         /\ Clear(C, c)[c].step = "delete_access"
         /\ \A d \in Chains :
              /\ d # c => Clear(C, c)[d].step = C[d].step
              /\ Clear(C, c)[d].goal = C[d].goal /\ Clear(C, c)[d].token = C[d].token
              /\ Clear(C, c)[d].request = C[d].request /\ Clear(C, c)[d].saw = C[d].saw
              /\ d # "rotation" => Clear(C, c)[d].stale = C[d].stale
         /\ Clear(C, c).rotation.stale = (C.rotation.step # "idle")
         /\ \A d \in Chains : d \notin {c, "rotation"} => Clear(C, c)[d] = C[d]
  <1> DEFINE b == [C.rotation EXCEPT !.stale = (C.rotation.step # "idle")]
             B == [C EXCEPT !["rotation"] = b]
  <1>1. Bumped(C) = B
    BY DEF Bumped
  <1>2. C["rotation"] \in ChainRecord
    BY ChainNames
  <1>3. /\ b \in ChainRecord /\ b.step = C["rotation"].step /\ b.goal = C["rotation"].goal
        /\ b.token = C["rotation"].token /\ b.saw = C["rotation"].saw
        /\ b.request = C["rotation"].request /\ b.stale = (C["rotation"].step # "idle")
    BY <1>2 DEF ChainRecord
  <1>4. /\ B \in [Chains -> ChainRecord] /\ B["rotation"] = b
        /\ \A d \in Chains : d # "rotation" => B[d] = C[d]
    BY <1>3, ChainNames
  <1> HIDE DEF b, B
  <1> DEFINE a == [B[c] EXCEPT !.step = "delete_access"]
             D == [B EXCEPT ![c] = a]
  <1>5. Clear(C, c) = D
    BY <1>1 DEF Clear
  <1>6. B[c] \in ChainRecord
    BY <1>4
  <1>7. /\ a \in ChainRecord /\ a.step = "delete_access" /\ a.goal = B[c].goal
        /\ a.token = B[c].token /\ a.saw = B[c].saw
        /\ a.request = B[c].request /\ a.stale = B[c].stale
    BY <1>6 DEF ChainRecord, StorageSteps
  <1>8. D \in [Chains -> ChainRecord] /\ D[c] = a /\ \A d \in Chains : d # c => D[d] = B[d]
    BY <1>4, <1>7
  <1> HIDE DEF a, D
  <1>9. QED
    BY <1>3, <1>4, <1>5, <1>7, <1>8, ChainNames

AfterSteps == {"guest", "ask_me", "ask_logout_all", "delete_access"}

\* The reader has what it wants.
LEMMA AfterReader ==
  ASSUME NEW C \in [Chains -> ChainRecord], C.reader.goal = "request", NEW given
  PROVE  /\ AfterRead(C, "reader", given) \in [Chains -> ChainRecord]
         /\ AfterRead(C, "reader", given).reader = Nothing
         /\ \A d \in Chains : d # "reader" => AfterRead(C, "reader", given)[d] = C[d]
  <1>1. AfterRead(C, "reader", given) = [C EXCEPT !["reader"] = Nothing]
    BY ChainNames DEF AfterRead
  <1>2. QED
    BY <1>1, NothingTyped, ChainNames

\* Main goes on to the server, to the login, or to clear the storage.
LEMMA AfterMain ==
  ASSUME NEW C \in [Chains -> ChainRecord], C.main.goal \in {"restore", "logout_all"},
         NEW given \in BOOLEAN
  PROVE  LET D == AfterRead(C, "main", given) IN
         /\ D \in [Chains -> ChainRecord]
         /\ D.main.step \in AfterSteps /\ D.reader = C.reader
         /\ D.rotation.step = C.rotation.step /\ D.rotation.token = C.rotation.token
         /\ D.rotation.request = C.rotation.request /\ D.rotation.goal = C.rotation.goal
         /\ D.rotation.stale = C.rotation.stale
              \/ (D.main.step = "delete_access" /\ D.rotation.stale = (C.rotation.step # "idle"))
         /\ D.main.step = "delete_access" => D.rotation.stale = (C.rotation.step # "idle")
  <1> DEFINE D == AfterRead(C, "main", given)
  <1>1. ASSUME NEW step \in {"guest", "ask_me", "ask_logout_all"},
               D = [C EXCEPT !["main"].step = step]
        PROVE  /\ D \in [Chains -> ChainRecord]
               /\ D.main.step = step /\ D.reader = C.reader /\ D.rotation = C.rotation
    <2> DEFINE m == [C["main"] EXCEPT !.step = step]
    <2>1. C["main"] \in ChainRecord
      BY ChainNames
    <2>2. m \in ChainRecord /\ m.step = step
      BY <2>1 DEF ChainRecord
    <2>3. D = [C EXCEPT !["main"] = m]
      BY <1>1
    <2> HIDE DEF m, D
    <2>4. QED
      BY <2>2, <2>3, ChainNames
  <1>2. \/ \E step \in {"guest", "ask_me", "ask_logout_all"} : D = [C EXCEPT !["main"].step = step]
        \/ D = Clear(C, "main")
    BY DEF AfterRead
  <1> HIDE DEF D
  <1>3. CASE D = Clear(C, "main")
    <2>1. /\ D \in [Chains -> ChainRecord] /\ D.main.step = "delete_access" /\ D.reader = C.reader
          /\ D.rotation.step = C.rotation.step /\ D.rotation.token = C.rotation.token
          /\ D.rotation.request = C.rotation.request /\ D.rotation.goal = C.rotation.goal
          /\ D.rotation.stale = (C.rotation.step # "idle")
      BY <1>3, ClearChains, ChainNames
    <2>2. QED
      BY <2>1 DEF AfterSteps, D
  <1>4. QED
    BY <1>1, <1>2, <1>3 DEF AfterSteps, D

\* The rotation's future completes: those that joined it go on.
LEMMA CompletedChains ==
  ASSUME ChainsTyped, NEW given \in BOOLEAN
  PROVE  LET D == Completed(given) IN
         /\ D \in [Chains -> ChainRecord]
         /\ D.rotation.step = "idle"
         /\ D.reader = IF chain.reader.step = "joined" THEN Nothing ELSE chain.reader
         /\ chain.main.step # "joined" => D.main = chain.main
         /\ chain.main.step = "joined" => D.main.step \in AfterSteps
  <1> DEFINE C == [chain EXCEPT !["rotation"] = Nothing]
             E == IF C["reader"].step = "joined" THEN AfterRead(C, "reader", given) ELSE C
             D == IF C["main"].step = "joined" THEN AfterRead(E, "main", given) ELSE E
  <1>1. Completed(given) = D
    BY DEF Completed
  <1>2. /\ C \in [Chains -> ChainRecord] /\ C.rotation = Nothing
        /\ C.main = chain.main /\ C.reader = chain.reader
    BY NothingTyped, ChainNames DEF ChainsTyped
  <1> HIDE DEF C
  <1>3. /\ E \in [Chains -> ChainRecord] /\ E.rotation = Nothing /\ E.main = chain.main
        /\ E.reader = IF chain.reader.step = "joined" THEN Nothing ELSE chain.reader
    <2>1. CASE chain.reader.step = "joined"
      <3>1. C.reader.goal = "request"
        BY <1>2, <2>1 DEF ChainsTyped
      <3>2. QED
        BY <1>2, <2>1, <3>1, AfterReader, ChainNames
    <2>2. CASE chain.reader.step # "joined"
      BY <1>2, <2>2
    <2>3. QED
      BY <2>1, <2>2
  <1> HIDE DEF E
  <1>4. CASE chain.main.step = "joined"
    <2>1. E.main.goal \in {"restore", "logout_all"}
      BY <1>3, <1>4 DEF ChainsTyped
    <2>2. D = AfterRead(E, "main", given)
      BY <1>2, <1>4
    <2>3. QED
      BY <1>1, <1>3, <1>4, <2>1, <2>2, AfterMain, NothingTyped
  <1>5. CASE chain.main.step # "joined"
    <2>1. D = E
      BY <1>2, <1>5
    <2>2. QED
      BY <1>1, <1>3, <1>5, <2>1, NothingTyped
  <1>6. QED
    BY <1>4, <1>5
-----------------------------------------------------------------------------
(* Steps that the storage sees *)

\* What a step does to a chain that is not its own.
Kept(c) ==
  /\ chain'[c].step = chain[c].step /\ chain'[c].token = chain[c].token
  /\ chain'[c].request = chain[c].request
Calm(c) == chain[c].step \notin Changing /\ chain'[c].step \notin Changing
Unmoved(c) == Kept(c) \/ Calm(c)

OrderKept ==
  \A p \in Pair : Pending(p[1]) /\ Pending(p[2]) => (Ahead(p[1], p[2])' <=> Ahead(p[1], p[2]))

\* The tokens that are being written are tokens.
WritesTokens == \A c \in {"main", "rotation"} : chain[c].step \in Writes => chain[c].token \in Tokens

\* Nobody is ahead of a chain that is ahead of him.
LEMMA AheadIsOrdered ==
  ASSUME NEW q, Once(q)
  PROVE  \A p \in Pair : Before(p[1], p[2], q) => ~Before(p[2], p[1], q)
  <1>1. ASSUME NEW p \in Pair, Before(p[1], p[2], q)
        PROVE  ~Before(p[2], p[1], q)
    <2>1. p[1] \in Chains /\ p[2] \in Chains /\ p[1] # p[2]
      BY ChainNames DEF Pair
    <2>2. In(p[1], q) /\ In(p[2], q)
      BY <1>1 DEF Before, In
    <2>3. QED
      BY <1>1, <2>1, <2>2, QueueIsOrdered
  <1>2. QED
    BY <1>1

\* Two chains that change the storage are ordered.
LEMMA FirstIsTotal ==
  ASSUME QueueInv, Pending("main"), Pending("rotation")
  PROVE  First("main", "rotation") <=> ~First("rotation", "main")
  <1>1. In("main", queue) /\ In("rotation", queue)
    BY ChainNames DEF QueueInv, Pending, Changing, StorageSteps
  <1>2. Ahead("main", "rotation") <=> ~Ahead("rotation", "main")
    BY <1>1, QueueIsOrdered, ChainNames DEF QueueInv, Ahead
  <1>3. QED
    BY <1>2 DEF First

\* No chain that changes the storage is touched.
LEMMA QuietSteps ==
  ASSUME StoreInv, Unmoved("main"), Unmoved("rotation"), OrderKept,
         access' = access, refresh' = refresh, signedIn' = signedIn, torn => torn',
         ~torn' /\ chain'.rotation.step = "refreshing" /\ ~chain'.rotation.stale =>
           ~Pending("main")' /\ signedIn
  PROVE  StoreInv'
  <1>1. \A c \in {"main", "rotation"} :
          /\ Pending(c)' <=> Pending(c)
          /\ Pending(c) => chain'[c].step = chain[c].step /\ chain'[c].token = chain[c].token
    BY DEF Unmoved, Kept, Calm, Pending
  <1>2. \A c \in {"main", "rotation"} :
          /\ Half(c)' <=> Half(c)
          /\ Half(c) => Pending(c) /\ Value(c)' = Value(c)
          /\ chain'[c].step \in Writes <=> chain[c].step \in Writes
          /\ chain'[c].step \in Deletes <=> chain[c].step \in Deletes
    BY <1>1 DEF Pending, Half, Value, Writes, Deletes, Changing
  <1>3. \A p \in Pair : Pending(p[1]) /\ Pending(p[2]) => (First(p[1], p[2])' <=> First(p[1], p[2]))
    BY <1>2 DEF First, OrderKept, Pair
  <1>4. LastWriter'
    BY <1>2 DEF StoreInv, LastWriter, OrderKept, Pair
  <1>5. LastDecides'
    BY <1>1, <1>2, <1>3 DEF StoreInv, LastDecides, Pair, Pending, Deletes, Writes, Changing
  <1>6. WholeUnlessTorn'
    BY <1>1, <1>2, <1>3 DEF StoreInv, WholeUnlessTorn, Pair
  <1>7. QED
    BY <1>4, <1>5, <1>6 DEF StoreInv

\* Main starts to write a login or to clear, behind a rotation that is writing,
\* or as one ends.
LEMMA MainStarts ==
  ASSUME StoreInv, QueueInv', ~Pending("main"), NEW step \in {"write_access", "delete_access"},
         chain'.main.step = step, access' = access, signedIn' = (step = "write_access"),
         \/ /\ Kept("rotation")
            /\ Pending("rotation") => Ahead("rotation", "main")'
            /\ chain'.rotation.step = "refreshing" => chain'.rotation.stale
         \/ chain'.rotation.step \notin Changing \cup {"refreshing"}
  PROVE  StoreInv'
  <1>1. Pending("main")' /\ ~Half("main")'
    BY DEF Pending, Half, Changing
  <1>2. CASE chain'.rotation.step \notin Changing \cup {"refreshing"}
    <2>1. ~Pending("rotation")' /\ ~Half("rotation")'
      BY <1>2 DEF Pending, Half, Changing
    <2>2. LastWriter'
      BY <1>1, <2>1 DEF LastWriter, Pair
    <2>3. LastDecides'
      BY <1>2 DEF LastDecides, Writes, Deletes, Changing
    <2>4. WholeUnlessTorn'
      BY <1>1, <1>2, <2>1 DEF WholeUnlessTorn, Writes, Changing
    <2>5. QED
      BY <2>2, <2>3, <2>4 DEF StoreInv
  <1>3. CASE /\ Kept("rotation")
             /\ Pending("rotation") => Ahead("rotation", "main")'
             /\ chain'.rotation.step = "refreshing" => chain'.rotation.stale
    <2>1. /\ Half("rotation")' <=> Half("rotation")
          /\ Pending("rotation")' <=> Pending("rotation")
          /\ Value("rotation")' = Value("rotation")
      BY <1>3 DEF Kept, Half, Pending, Value
    <2>2. ~Half("main")
      BY DEF Pending, Half, Changing
    <2>3. Pending("rotation")' => First("rotation", "main")'
      BY <1>1, <1>3, <2>1 DEF First
    <2>4. Pending("rotation")' => ~First("main", "rotation")'
      <3>1. Pending("rotation")' => ~Ahead("main", "rotation")'
        BY <1>3, <2>1, AheadIsOrdered DEF Pair, Ahead, QueueInv
      <3>2. QED
        BY <1>1, <3>1 DEF First
    <2>5. LastWriter'
      BY <1>1, <2>1, <2>2 DEF StoreInv, LastWriter, Pair
    <2>6. LastDecides'
      BY <1>1, <2>4 DEF LastDecides, Pending, Changing, Writes, Deletes
    <2>7. WholeUnlessTorn'
      BY <1>1, <1>3, <2>3 DEF WholeUnlessTorn
    <2>8. QED
      BY <2>5, <2>6, <2>7 DEF StoreInv
  <1>4. QED
    BY <1>2, <1>3

\* A rotation that is not outdated stores its answer, or clears.
LEMMA RotationStarts ==
  ASSUME StoreInv, QueueInv', ~Pending("rotation"), NEW step \in {"write_access", "delete_access"},
         chain.rotation.step = "refreshing", ~chain.rotation.stale,
         chain'.rotation.step = step, Kept("main"),
         Pending("main") => Ahead("main", "rotation")',
         access' = access, torn' = torn,
         signedIn' = (signedIn /\ step # "delete_access"), signedIn \in BOOLEAN
  PROVE  StoreInv'
  <1>1. Pending("rotation")' /\ ~Half("rotation")' /\ ~Half("rotation")
    BY DEF Pending, Half, Changing
  <1>2. /\ Half("main")' <=> Half("main")
        /\ Pending("main")' <=> Pending("main")
        /\ Value("main")' = Value("main")
        /\ chain'.main.step = chain.main.step
    BY DEF Kept, Half, Pending, Value
  <1>3. Pending("main")' => First("main", "rotation")'
    BY <1>1, <1>2 DEF First
  <1>4. LastWriter'
    BY <1>1, <1>2 DEF StoreInv, LastWriter, Pair
  <1>5. ~Pending("rotation") => chain.rotation.step \notin Deletes
    BY DEF Pending, Changing, Deletes
  <1>6. LastDecides'
    BY <1>2, <1>3, <1>5 DEF StoreInv, LastDecides, Pending, Changing, Writes, Deletes
  <1>7. WholeUnlessTorn'
    BY <1>1, <1>2 DEF StoreInv, WholeUnlessTorn, Writes
  <1>8. QED
    BY <1>4, <1>6, <1>7 DEF StoreInv

\* The chain c writes, or deletes, the access key, and queues for the other.
LEMMA HalfDone ==
  ASSUME StoreInv, QueueInv, QueueInv', NEW p \in Pair, ~Half(p[1]), Pending(p[1]),
         chain'[p[1]].token = chain[p[1]].token,
         \/ chain[p[1]].step = "write_access" /\ chain'[p[1]].step = "write_refresh"
         \/ chain[p[1]].step = "delete_access" /\ chain'[p[1]].step = "delete_refresh",
         Kept(p[2]), chain'.rotation.stale = chain.rotation.stale,
         Pending(p[2]) => Ahead(p[1], p[2]) /\ Ahead(p[2], p[1])',
         access' = Value(p[1]), refresh' = refresh, signedIn' = signedIn, torn' = torn
  PROVE  StoreInv'
  <1> DEFINE c == p[1]
             d == p[2]
  <1>1. p = <<c, d>> /\ <<d, c>> \in Pair /\ c # d
        /\ ((c = "main" /\ d = "rotation") \/ (c = "rotation" /\ d = "main"))
        /\ \A q \in Pair : q = <<c, d>> \/ q = <<d, c>>
    BY DEF Pair
  <1> HIDE DEF c, d
  <1>2. /\ Half(c)' /\ Pending(c)' /\ Pending(c) /\ ~Half(c)
        /\ chain'[c].step \in Writes <=> chain[c].step \in Writes
        /\ chain'[c].step \in Deletes <=> chain[c].step \in Deletes
        /\ Value(c)' = Value(c)
    BY DEF c, Half, Pending, Changing, Writes, Deletes, Value
  <1>3. /\ Half(d)' <=> Half(d)
        /\ Pending(d)' <=> Pending(d)
        /\ Value(d)' = Value(d) /\ chain'[d].step = chain[d].step
    BY DEF d, Kept, Half, Pending, Value
  <1>4. Half(d) => Pending(d)
    BY DEF Half, Pending, Changing
  <1>5. Pending(d) => Ahead(c, d) /\ Ahead(d, c)' /\ ~Ahead(d, c) /\ ~Ahead(c, d)'
    BY <1>1, AheadIsOrdered DEF c, d, Ahead, QueueInv
  <1>6. Pending(d) => /\ First(c, d)' <=> First(c, d)
                      /\ First(d, c)' <=> First(d, c)
    BY <1>2, <1>3, <1>5 DEF First
  <1>7. LastWriter'
    <2>1. access' = Value(c)'
      BY <1>2 DEF c
    <2>2. Half(d)' => ~Ahead(c, d)'
      BY <1>3, <1>4, <1>5
    <2>3. QED
      BY <1>1, <1>2, <2>1, <2>2 DEF LastWriter
  <1>8. LastDecides'
    BY <1>1, <1>2, <1>3, <1>6 DEF StoreInv, LastDecides, Pending, Writes, Deletes, Changing
  <1>9. chain'.rotation.step = "refreshing" <=> chain.rotation.step = "refreshing"
    BY <1>1, <1>2, <1>3 DEF Pending, Changing
  <1>10. WholeUnlessTorn'
    BY <1>1, <1>2, <1>3, <1>6, <1>9 DEF StoreInv, WholeUnlessTorn, Pending, Writes, Changing
  <1>11. QED
    BY <1>7, <1>8, <1>10 DEF StoreInv

\* Main is done: the storage is whole, or a rotation is still changing it.
LEMMA MainFinishes ==
  ASSUME StoreInv, QueueInv, WritesTokens, None \notin Tokens, Half("main"), signedIn \in BOOLEAN,
         chain'.main.step = "idle",
         Kept("rotation"), chain'.rotation.stale = chain.rotation.stale,
         Pending("rotation") => Ahead("main", "rotation"),
         refresh' = Value("main"), access' = access, signedIn' = signedIn,
         torn' = (torn /\ chain.rotation.step # "idle")
  PROVE  StoreInv'
  <1>1. ~Pending("main")' /\ ~Half("main")' /\ Pending("main")
    BY DEF Pending, Half, Changing
  <1>2. /\ Half("rotation")' <=> Half("rotation")
        /\ Pending("rotation")' <=> Pending("rotation")
        /\ Value("rotation")' = Value("rotation")
        /\ chain'.rotation.step = chain.rotation.step
    BY DEF Kept, Half, Pending, Value
  <1>3. Half("rotation") => Pending("rotation")
    BY DEF Half, Pending, Changing
  <1>4. Pending("rotation") => First("main", "rotation")
    BY DEF First
  <1>5. LastWriter'
    BY <1>1, <1>2, <1>3 DEF StoreInv, LastWriter, Pair
  <1>6. LastDecides'
    BY <1>1, <1>2, <1>4 DEF StoreInv, LastDecides, Pending, Changing, Writes, Deletes
  <1>7. ASSUME ~Pending("rotation")
        PROVE  access' = refresh' /\ (signedIn' <=> refresh' # None)
    <2>1. access = Value("main")
      BY <1>3, <1>7 DEF StoreInv, LastWriter, Pair
    <2>2. CASE chain.main.step \in Writes
      <3>1. signedIn
        BY <1>7, <2>2 DEF StoreInv, LastDecides, Pending, Changing, Deletes
      <3>2. Value("main") # None
        BY <2>2 DEF Value, WritesTokens
      <3>3. QED
        BY <2>1, <3>1, <3>2
    <2>3. CASE chain.main.step \notin Writes
      <3>1. chain.main.step \in Deletes /\ Value("main") = None
        BY <2>3 DEF Half, Writes, Deletes, Value
      <3>2. ~signedIn
        BY <3>1 DEF StoreInv, LastDecides
      <3>3. QED
        BY <2>1, <3>1, <3>2
    <2>4. QED
      BY <2>2, <2>3
  <1>8. ASSUME ~torn', Pending("rotation")
        PROVE  FALSE
    <2>1. ~torn
      BY <1>8 DEF Pending, Changing
    <2>2. First("rotation", "main")
      BY <1>1, <1>8, <2>1 DEF StoreInv, WholeUnlessTorn
    <2>3. QED
      BY <1>1, <1>4, <1>8, <2>2, FirstIsTotal
  <1>9. ASSUME ~torn', chain.rotation.step = "refreshing", ~chain.rotation.stale
        PROVE  FALSE
    <2>1. ~torn
      BY <1>9
    <2>2. QED
      BY <1>1, <1>9, <2>1 DEF StoreInv, WholeUnlessTorn
  <1>10. chain.rotation.step \in Writes => Pending("rotation")
    BY DEF Pending, Writes, Changing
  <1>11. WholeUnlessTorn'
    BY <1>1, <1>2, <1>7, <1>8, <1>9, <1>10 DEF WholeUnlessTorn
  <1>12. QED
    BY <1>5, <1>6, <1>11 DEF StoreInv

\* So is the rotation.
LEMMA RotationFinishes ==
  ASSUME StoreInv, QueueInv, WritesTokens, None \notin Tokens, Half("rotation"), signedIn \in BOOLEAN,
         chain'.rotation.step = "idle", Unmoved("main"),
         Pending("main") => Ahead("rotation", "main"),
         refresh' = Value("rotation"), access' = access, signedIn' = signedIn, torn' = torn
  PROVE  StoreInv'
  <1>1. ~Pending("rotation")' /\ ~Half("rotation")' /\ Pending("rotation")
    BY DEF Pending, Half, Changing
  <1>2. /\ Pending("main")' <=> Pending("main")
        /\ Pending("main") => chain'.main.step = chain.main.step /\ Value("main")' = Value("main")
    BY DEF Unmoved, Kept, Calm, Pending, Value
  <1>3. /\ Half("main")' <=> Half("main")
        /\ Half("main") => Pending("main")
        /\ chain'.main.step \in Writes <=> chain.main.step \in Writes
        /\ chain'.main.step \in Deletes <=> chain.main.step \in Deletes
    BY <1>2 DEF Half, Pending, Changing, Writes, Deletes
  <1>4. Pending("main") => First("rotation", "main")
    BY DEF First
  <1>5. Pending("main") => ~First("main", "rotation")
    BY <1>1, <1>4, FirstIsTotal
  <1>6. LastWriter'
    BY <1>1, <1>2, <1>3 DEF StoreInv, LastWriter, Pair
  <1>7. LastDecides'
    BY <1>1, <1>3, <1>5 DEF StoreInv, LastDecides, Pending, Changing, Writes, Deletes
  <1>8. ASSUME ~torn, ~Pending("main")
        PROVE  access' = refresh' /\ (signedIn' <=> refresh' # None)
    <2>1. access = Value("rotation")
      BY <1>3, <1>8 DEF StoreInv, LastWriter, Pair
    <2>2. CASE chain.rotation.step \in Writes
      <3>1. signedIn
        BY <1>8, <2>2 DEF StoreInv, WholeUnlessTorn
      <3>2. Value("rotation") # None
        BY <2>2 DEF Value, WritesTokens
      <3>3. QED
        BY <2>1, <3>1, <3>2
    <2>3. CASE chain.rotation.step \notin Writes
      <3>1. chain.rotation.step \in Deletes /\ Value("rotation") = None
        BY <2>3 DEF Half, Writes, Deletes, Value
      <3>2. ~signedIn
        BY <1>8, <3>1 DEF StoreInv, LastDecides
      <3>3. QED
        BY <2>1, <3>1, <3>2
    <2>4. QED
      BY <2>2, <2>3
  <1>9. WholeUnlessTorn'
    BY <1>1, <1>2, <1>8 DEF WholeUnlessTorn, Writes
  <1>10. QED
    BY <1>6, <1>7, <1>9 DEF StoreInv
-----------------------------------------------------------------------------
(* Steps of the server, on the wire *)

LEMMA SessionFields ==
  ASSUME SessionInv
  PROVE  /\ Issued \subseteq Tokens /\ live \subseteq Issued
         /\ family \in [Tokens -> Families \cup {None}]
         /\ None \notin Tokens /\ None \notin Families
         /\ \A t \in Issued : family[t] \in Families
  BY SessionAssumption DEF SessionInv, RowsTyped, Issued

\* What a step of the server does to a session: one that is over stays so, and
\* a token stays usable unless it is the one that is renewed.
LEMMA ServedToken ==
  ASSUME SessionInv, NEW r \in Requests, Serve(r), lost' = lost, NEW t \in Issued
  PROVE  /\ family'[t] = family[t] /\ t \in Issued'
         /\ Ended(t) => Ended(t)'
         /\ Usable(t) /\ ~(tx[r].step = "rotating" /\ tx[r].token = t) => Usable(t)'
  <1>1. t \in Tokens /\ family[t] # None
    BY DEF Issued
  <1>2. ASSUME NEW R \in SUBSET Tokens, family' = family, live' = live \ R
        PROVE  /\ family'[t] = family[t] /\ t \in Issued'
               /\ Ended(t) => Ended(t)'
               /\ Usable(t) => Usable(t)'
    <2>1. t \in Issued'
      BY <1>1, <1>2 DEF Issued
    <2>2. LiveIn(family[t]) = {} => LiveIn(family[t])' = {}
      BY <1>2 DEF LiveIn
    <2>3. t \in live => t \in live' \/ LiveIn(family[t])' = {}
      <3>1. ASSUME t \in live, t \notin live'
            PROVE  LiveIn(family[t])' = {}
        <4>1. \A u \in live : family[u] = family[t] => u = t
          BY <3>1 DEF SessionInv, OneLive
        <4>2. QED
          BY <1>2, <3>1, <4>1 DEF LiveIn
      <3>2. QED
        BY <3>1
    <2>4. QED
      BY <1>2, <2>1, <2>2, <2>3 DEF Ended, Usable
  <1>3. ASSUME UNCHANGED rows
        PROVE  /\ family'[t] = family[t] /\ t \in Issued'
               /\ Ended(t) => Ended(t)'
               /\ Usable(t) => Usable(t)'
    BY <1>1, <1>3 DEF rows, Ended, Usable, LiveIn, Issued
  <1>4. ASSUME NEW f \in Families, NEW n \in Tokens, Login(r, f, n)
        PROVE  /\ family'[t] = family[t] /\ t \in Issued'
               /\ Ended(t) => Ended(t)'
               /\ Usable(t) => Usable(t)'
    <2>1. /\ n \notin Issued /\ family[t] # f
          /\ family' = [family EXCEPT ![n] = f] /\ live' = live \cup {n}
      BY <1>4 DEF Login, Fresh
    <2>2. n # t /\ family'[t] = family[t] /\ family'[n] = f
          /\ \A u \in Tokens : u # n => family'[u] = family[u]
      BY <1>1, <2>1, SessionFields
    <2>3. LiveIn(family[t]) = {} => LiveIn(family[t])' = {}
      BY <2>1, <2>2, SessionFields DEF LiveIn
    <2>4. QED
      BY <1>1, <2>1, <2>2, <2>3 DEF Ended, Usable, Issued
  <1>5. CASE CommitRotation(r)
    <2> DEFINE n == tx[r].new
               o == tx[r].token
    <2>1. /\ tx[r].step = "rotating" /\ n \in Tokens \ Issued /\ o \in live
          /\ family' = [family EXCEPT ![n] = family[o]] /\ live' = (live \ {o}) \cup {n}
      BY <1>5, Fields DEF CommitRotation, Sound
    <2> HIDE DEF n, o
    <2>2. n # t /\ family'[t] = family[t] /\ family'[n] = family[o]
          /\ \A u \in Tokens : u # n => family'[u] = family[u]
      BY <1>1, <2>1, SessionFields
    <2>3. LiveIn(family[t]) = {} => LiveIn(family[t])' = {}
      BY <2>1, <2>2, SessionFields DEF LiveIn
    <2>4. t # o /\ t \in live => t \in live'
      BY <2>1
    <2>5. t \in Issued'
      BY <1>1, <2>2 DEF Issued
    <2>6. QED
      BY <2>1, <2>2, <2>3, <2>4, <2>5 DEF Ended, Usable, o
  <1>6. CASE RefuseExpired(r) \/ Logout(r)
    <2>1. tx[r].token \in Tokens
      BY <1>6, Fields DEF RefuseExpired, Logout, Arrived, Sound
    <2>2. family' = family /\ live' = live \ {tx[r].token}
      BY <1>6 DEF RefuseExpired, Logout
    <2>3. QED
      BY <1>2, <2>1, <2>2
  <1>7. CASE CommitRevocation(r)
    <2>1. tx[r].held \in SUBSET Tokens
      BY Fields DEF Transaction
    <2>2. family' = family /\ live' = live \ tx[r].held
      BY <1>7 DEF CommitRevocation
    <2>3. QED
      BY <1>2, <2>1, <2>2
  <1>8. CASE UNCHANGED rows
    BY <1>3, <1>8
  <1>9. UNCHANGED rows \/ CommitRotation(r) \/ RefuseExpired(r) \/ Logout(r) \/ CommitRevocation(r)
        \/ \E f \in Families, n \in Tokens : Login(r, f, n)
    BY DEF Serve, BeginRotation, LockNext, DetectReuse, LogoutAll, BeginRevocation, Abort
  <1>10. QED
    BY <1>4, <1>5, <1>6, <1>7, <1>8, <1>9

LEMMA ServedOthers ==
  ASSUME SessionInv, NEW r \in Requests, Serve(r)
  PROVE  \A x \in Requests : x # r => tx'[x] = tx[x]
  BY DEF SessionInv, Serve, Login, BeginRotation, LockNext, CommitRotation, RefuseExpired,
         DetectReuse, LogoutAll, BeginRevocation, CommitRevocation, Logout, Abort, Answer, Become

\* The request of a rotation goes on, or is answered.
LEMMA ServedRotation ==
  ASSUME SessionInv, NEW r \in Requests, Serve(r), lost' = lost, NEW t \in Issued,
         RotationOn(t, r)
  PROVE  RotationOn(t, r)'
  <1>1. /\ family'[t] = family[t]
        /\ Ended(t) => Ended(t)'
        /\ Usable(t) /\ ~(tx[r].step = "rotating" /\ tx[r].token = t) => Usable(t)'
    BY ServedToken
  <1>2. tx \in [Requests -> Transaction] /\ tx[r] \in Transaction /\ Sound(tx[r])
    BY Fields DEF SessionInv
  <1>3. ASSUME NEW a \in Tokens \cup {None}, Answer(r, a)
        PROVE  tx'[r].step = "answered" /\ tx'[r].answer = a
    BY <1>2, <1>3 DEF Answer, Become, Idle
  <1>4. CASE tx[r].step = "idle" \/ tx[r].step = "answered"
    BY <1>4
    DEF Serve, Login, BeginRotation, LockNext, CommitRotation, RefuseExpired, Arrived,
        DetectReuse, LogoutAll, CommitRevocation, Logout, Abort
  <1>5. CASE Abort(r)
    <2>1. tx'[r].step = "idle"
      BY <1>2, <1>5 DEF Abort, Become, Idle
    <2>2. QED
      BY <2>1 DEF RotationOn
  <1>6. CASE tx[r].step = "sent" /\ ~Abort(r)
    <2>1. tx[r].call = "refresh" /\ tx[r].token = t /\ Usable(t)
      BY <1>6 DEF RotationOn
    <2>2. \/ \E n \in Tokens : BeginRotation(r, n)
          \/ RefuseExpired(r) \/ DetectReuse(r)
      BY <1>6, <2>1
      DEF Serve, Login, BeginRotation, LockNext, CommitRotation, RefuseExpired, Arrived,
          DetectReuse, LogoutAll, CommitRevocation, Logout
    <2>3. ASSUME NEW n \in Tokens, BeginRotation(r, n)
          PROVE  RotationOn(t, r)'
      <3>1. tx'[r].step = "rotating" /\ tx'[r].call = tx[r].call /\ tx'[r].token = tx[r].token
        BY <1>2, <2>3 DEF BeginRotation, Become, Transaction
      <3>2. QED
        BY <2>1, <3>1 DEF RotationOn
    <2>4. CASE RefuseExpired(r)
      <3>1. family' = family /\ t \in live /\ live' = live \ {t} /\ Answer(r, None)
        BY <2>1, <2>4 DEF RefuseExpired
      <3>2. LiveIn(family[t])' = {}
        BY <3>1 DEF LiveIn, SessionInv, OneLive
      <3>3. Ended(t)'
        BY <3>1, <3>2 DEF Ended
      <3>4. QED
        BY <1>3, <3>1, <3>3 DEF RotationOn
    <2>5. CASE DetectReuse(r)
      <3>1. t \notin live
        BY <2>1, <2>5 DEF DetectReuse
      <3>2. Ended(t)'
        BY <1>1, <2>1, <3>1 DEF Usable
      <3>3. tx'[r].step = "revoking" /\ tx'[r].call = tx[r].call /\ tx'[r].token = tx[r].token
        BY <1>2, <2>5 DEF DetectReuse, BeginRevocation, Become, Transaction
      <3>4. QED
        BY <2>1, <3>2, <3>3 DEF RotationOn
    <2>6. QED
      BY <2>2, <2>3, <2>4, <2>5
  <1>7. CASE tx[r].step = "rotating" /\ ~Abort(r)
    <2> DEFINE n == tx[r].new
    <2>1. tx[r].token = t /\ t \in live /\ n \in Tokens \ Issued
      BY <1>2, <1>7 DEF RotationOn, Sound
    <2>2. CommitRotation(r)
      BY <1>7
      DEF Serve, Login, BeginRotation, LockNext, CommitRotation, RefuseExpired, Arrived,
          DetectReuse, LogoutAll, CommitRevocation, Logout
    <2>3. /\ family' = [family EXCEPT ![n] = family[t]] /\ n \in live' /\ Answer(r, n)
      BY <2>1, <2>2 DEF CommitRotation
    <2>4. family'[n] = family[t]
      BY <2>1, <2>3, SessionFields
    <2>5. n # None
      BY <2>1, SessionFields
    <2>6. QED
      BY <1>1, <1>3, <2>1, <2>3, <2>4, <2>5 DEF RotationOn, Usable
  <1>8. CASE tx[r].step = "revoking" /\ ~Abort(r)
    <2>1. Ended(t)' /\ tx[r].call = "refresh" /\ tx[r].token = t
      BY <1>1, <1>8 DEF RotationOn
    <2>2. CommitRevocation(r) \/ \E u \in Tokens : LockNext(r, u)
      BY <1>8
      DEF Serve, Login, BeginRotation, LockNext, CommitRotation, RefuseExpired, Arrived,
          DetectReuse, LogoutAll, CommitRevocation, Logout
    <2>3. CASE CommitRevocation(r)
      BY <1>3, <2>1, <2>3 DEF CommitRevocation, RotationOn
    <2>4. ASSUME NEW u \in Tokens, LockNext(r, u)
          PROVE  RotationOn(t, r)'
      <3>1. tx'[r].step = "revoking" /\ tx'[r].call = tx[r].call /\ tx'[r].token = tx[r].token
        BY <1>2, <1>8, <2>4 DEF LockNext, Become, Transaction
      <3>2. QED
        BY <2>1, <3>1 DEF RotationOn
    <2>5. QED
      BY <2>2, <2>3, <2>4
  <1>9. QED
    BY <1>2, <1>4, <1>5, <1>6, <1>7, <1>8 DEF Transaction

LEMMA ServedLogin ==
  ASSUME SessionInv, NEW r \in Requests, Serve(r), UNCHANGED client, RotationSound, StoredSound,
         LoginOn(r)
  PROVE  LoginOn(r)'
  <1>1. tx \in [Requests -> Transaction] /\ tx[r] \in Transaction
    BY Fields DEF SessionInv
  <1>2. chain' = chain /\ refresh' = refresh /\ lost' = lost
    BY DEF client, storage, history
  <1>3. tx[r].step = "sent" /\ tx[r].call = "login"
    BY DEF LoginOn, Serve, Login, BeginRotation, LockNext, CommitRotation, RefuseExpired, Arrived,
           DetectReuse, LogoutAll, CommitRevocation, Logout, Abort
  <1>4. Abort(r) \/ \E f \in Families, t \in Tokens : Login(r, f, t)
    BY <1>3
    DEF Serve, Login, BeginRotation, LockNext, CommitRotation, RefuseExpired, Arrived,
        DetectReuse, LogoutAll, CommitRevocation, Logout, Abort
  <1>5. CASE Abort(r)
    <2>1. tx'[r].step = "idle"
      BY <1>1, <1>5 DEF Abort, Become, Idle
    <2>2. QED
      BY <2>1 DEF LoginOn
  <1>6. ASSUME NEW f \in Families, NEW t \in Tokens, Login(r, f, t)
        PROVE  LoginOn(r)'
    <2>1. /\ t \notin Issued /\ \A u \in Issued : family[u] # f
          /\ family' = [family EXCEPT ![t] = f] /\ live' = live \cup {t} /\ Answer(r, t)
      BY <1>6 DEF Login, Fresh
    <2>2. family'[t] = f /\ f # None /\ \A u \in Issued : family'[u] = family[u]
      BY <2>1, SessionFields
    <2>3. tx'[r].step = "answered" /\ tx'[r].answer = t
      BY <1>1, <2>1 DEF Answer, Become, Idle
    <2>4. t \in Issued' /\ Usable(t)'
      BY <2>1, <2>2 DEF Issued, Usable
    <2>5. refresh # None => family'[refresh] # f
      BY <2>1, <2>2 DEF StoredSound
    <2>6. chain.rotation.step \in Writes \cup {"refreshing"} => family'[chain.rotation.token] # f
      BY <2>1, <2>2 DEF RotationSound
    <2>7. QED
      BY <1>2, <2>2, <2>3, <2>4, <2>5, <2>6 DEF LoginOn, NewSession
  <1>7. QED
    BY <1>4, <1>5, <1>6

\* A token that the client does not rotate stays usable.
LEMMA ServedUsable ==
  ASSUME SessionInv, OneInFlight, NEW r \in Requests, Serve(r), lost' = lost, NEW t \in Issued,
         Usable(t),
         chain.rotation.step = "refreshing" /\ chain.rotation.request = r => chain.rotation.token # t
  PROVE  Usable(t)'
  <1>1. CASE tx[r].step = "rotating" /\ tx[r].token = t
    <2>1. family[t] \in lost
      BY <1>1 DEF OneInFlight
    <2>2. QED
      BY <2>1, ServedToken DEF Ended, Usable
  <1>2. CASE ~(tx[r].step = "rotating" /\ tx[r].token = t)
    BY <1>2, ServedToken
  <1>3. QED
    BY <1>1, <1>2

\* The server keeps what the client relies on.
LEMMA WireServed ==
  ASSUME SessionInv, WireInv, NEW r \in Requests, Serve(r), UNCHANGED client
  PROVE  WireInv'
  <1>1. /\ chain' = chain /\ refresh' = refresh /\ access' = access /\ lost' = lost
    BY DEF client, storage, history
  <1>2. \A x \in Requests : x # r => tx'[x] = tx[x]
    BY ServedOthers
  <1>3. \A t \in Issued : /\ family'[t] = family[t] /\ t \in Issued'
                          /\ Ended(t) => Ended(t)'
    BY <1>1, ServedToken
  <1>4. OneInFlight'
    <2> SUFFICES ASSUME NEW x \in Requests,
                        tx'[x].step = "rotating" \/ (tx'[x].step = "sent" /\ tx'[x].call = "refresh"),
                        family'[tx'[x].token] \notin lost
                 PROVE  /\ chain.rotation.step = "refreshing" /\ chain.rotation.request = x
                        /\ chain.rotation.token = tx'[x].token
      BY <1>1 DEF OneInFlight
    <2>1. CASE x # r
      <3>1. tx'[x] = tx[x]
        BY <1>2, <2>1
      <3>2. tx[x].token \in Issued
        BY <3>1, Fields DEF Sound
      <3>3. QED
        BY <1>3, <3>1, <3>2 DEF WireInv, OneInFlight
    <2>2. CASE x = r
      <3>1. tx \in [Requests -> Transaction] /\ tx[r] \in Transaction
        BY Fields DEF SessionInv
      <3>2. \A a : Answer(r, a) => tx'[r].step = "answered"
        BY <3>1 DEF Answer, Become, Idle
      <3>3. Abort(r) => tx'[r].step = "idle"
        BY <3>1 DEF Abort, Become, Idle
      <3>4. \A S, H : BeginRevocation(r, S, H) => tx'[r].step = "revoking"
        BY <3>1 DEF BeginRevocation, Become, Transaction
      <3>5. \A u \in Tokens : LockNext(r, u) => tx'[r].step = "revoking"
        BY <3>1 DEF LockNext, Become, Transaction
      <3>6. PICK n \in Tokens : BeginRotation(r, n)
        BY <2>2, <3>2, <3>3, <3>4, <3>5
        DEF Serve, Login, CommitRotation, RefuseExpired, DetectReuse, LogoutAll,
            CommitRevocation, Logout
      <3>7. /\ tx[r].step = "sent" /\ tx[r].call = "refresh" /\ tx'[r].token = tx[r].token
            /\ tx[r].token \in Issued
        BY <3>1, <3>6, Fields DEF BeginRotation, Arrived, Become, Transaction, Sound
      <3>8. QED
        BY <1>3, <2>2, <3>7 DEF WireInv, OneInFlight
    <2>3. QED
      BY <2>1, <2>2
  <1>5. RotationSound'
    <2>1. ASSUME chain.rotation.step = "refreshing"
          PROVE  RotationOn(chain.rotation.token, chain.rotation.request)'
      <3>1. PICK t \in Issued : t = chain.rotation.token
        BY <2>1 DEF WireInv, RotationSound
      <3>2. PICK x \in Requests : x = chain.rotation.request
        BY <2>1 DEF WireInv, RotationSound
      <3>3. RotationOn(t, x)
        BY <2>1, <3>1, <3>2 DEF WireInv, RotationSound
      <3>4. CASE x = r
        <4>1. RotationOn(t, r)'
          BY <1>1, <3>3, <3>4, ServedRotation
        <4>2. QED
          BY <1>1, <3>1, <3>2, <3>4, <4>1 DEF RotationOn
      <3>5. CASE x # r
        <4>1. tx'[x] = tx[x] /\ tx[x].answer \in Issued \cup {None}
          BY <1>2, <3>5, Fields DEF Sound
        <4>2. \A u \in Issued : Usable(u) => Usable(u)'
          BY <1>1, <3>2, <3>5, ServedUsable DEF WireInv
        <4>3. RotationOn(t, x)'
          BY <1>3, <3>3, <4>1, <4>2 DEF RotationOn
        <4>4. QED
          BY <1>1, <3>1, <3>2, <4>3 DEF RotationOn
      <3>6. QED
        BY <3>4, <3>5
    <2>2. ASSUME chain.rotation.step \in Writes
          PROVE  Usable(chain.rotation.token)'
      <3>1. PICK t \in Issued : t = chain.rotation.token
        BY <2>2 DEF WireInv, RotationSound
      <3>2. Usable(t)'
        BY <1>1, <2>2, <3>1, ServedUsable DEF WireInv, RotationSound, Writes
      <3>3. QED
        BY <1>1, <3>1, <3>2 DEF Usable, Ended
    <2>3. QED
      BY <1>1, <1>3, <2>1, <2>2 DEF WireInv, RotationSound
  <1>6. ASSUME NEW t, NewSession(t)
        PROVE  NewSession(t)'
    <2>1. t \in Issued
      BY <1>6 DEF NewSession
    <2>2. chain.rotation.step = "refreshing" => chain.rotation.token # t
      BY <1>6 DEF NewSession
    <2>3. Usable(t)'
      BY <1>1, <1>6, <2>1, <2>2, ServedUsable DEF WireInv, NewSession
    <2>4. /\ refresh # None => refresh \in Issued
          /\ chain.rotation.step \in Writes \cup {"refreshing"} => chain.rotation.token \in Issued
      BY DEF WireInv, StoredSound, RotationSound
    <2>5. QED
      BY <1>1, <1>3, <1>6, <2>1, <2>3, <2>4 DEF NewSession
  <1>7. LoginSound'
    <2>1. ASSUME chain.main.step = "login"
          PROVE  chain.main.request \in Requests /\ LoginOn(chain.main.request)'
      <3>1. PICK x \in Requests : x = chain.main.request
        BY <2>1 DEF WireInv, LoginSound
      <3>2. LoginOn(x)
        BY <2>1, <3>1 DEF WireInv, LoginSound
      <3>3. LoginOn(x)'
        <4>1. CASE x = r
          BY <3>2, <4>1, ServedLogin DEF WireInv
        <4>2. CASE x # r
          <5>1. tx'[x] = tx[x] /\ (tx[x].step = "answered" => tx[x].answer \in Issued \cup {None})
            BY <1>2, <4>2, Fields DEF Sound
          <5>2. QED
            BY <1>6, <3>2, <5>1 DEF LoginOn, NewSession
        <4>3. QED
          BY <4>1, <4>2
      <3>4. QED
        BY <1>1, <3>1, <3>3 DEF LoginOn
    <2>2. ASSUME chain.main.step \in Writes
          PROVE  NewSession(chain.main.token)'
      <3>1. PICK t \in Issued : t = chain.main.token
        BY <2>2 DEF WireInv, LoginSound, NewSession
      <3>2. NewSession(t)'
        BY <1>6, <2>2, <3>1 DEF WireInv, LoginSound
      <3>3. QED
        BY <1>1, <3>1, <3>2 DEF NewSession, Usable, Ended
    <2>3. QED
      BY <1>1, <2>1, <2>2 DEF LoginSound
  <1>8. StoredSound'
    <2>1. access' \in Issued' \cup {None} /\ refresh' \in Issued' \cup {None}
      BY <1>1, <1>3 DEF WireInv, StoredSound
    <2>2. ASSUME refresh # None
          PROVE  \/ Usable(refresh)'
                 \/ /\ chain.rotation.step \in Writes \cup {"refreshing"}
                    /\ family'[chain.rotation.token] = family'[refresh]
      <3>1. PICK t \in Issued : t = refresh
        BY <2>2 DEF WireInv, StoredSound
      <3>2. CASE Usable(t) /\ ~(chain.rotation.step = "refreshing" /\ chain.rotation.token = t)
        <4>1. Usable(t)'
          BY <1>1, <3>2, ServedUsable DEF WireInv
        <4>2. QED
          BY <1>1, <3>1, <4>1 DEF Usable, Ended
      <3>3. CASE chain.rotation.step = "refreshing" /\ chain.rotation.token = t
        BY <3>1, <3>3
      <3>4. CASE ~Usable(t)
        <4>1. /\ chain.rotation.step \in Writes \cup {"refreshing"}
              /\ family[chain.rotation.token] = family[t] /\ chain.rotation.token \in Issued
          BY <2>2, <3>1, <3>4 DEF WireInv, StoredSound, RotationSound
        <4>2. QED
          BY <1>3, <3>1, <4>1
      <3>5. QED
        BY <3>2, <3>3, <3>4
    <2>3. QED
      BY <1>1, <2>1, <2>2 DEF StoredSound
  <1>9. QED
    BY <1>4, <1>5, <1>7, <1>8 DEF WireInv
-----------------------------------------------------------------------------
(* Steps of the client, on the wire *)

\* Connections that a step of the client answers, gives up or begins to use,
\* but for refresh.
Connections ==
  \A r \in Requests :
    \/ tx'[r] = tx[r]
    \/ tx'[r].step = "idle"
    \/ tx'[r].step = "sent" /\ tx'[r].call # "refresh" /\ ~Waiting(r)

\* No rotation in flight may be forgotten unless its answer counts as lost, and
\* no token unless its session is over, or lost.
Forgotten(t, r) == tx'[r].step = "idle" \/ family[t] \in lost'
Ends(t) == LiveIn(family[t]) = {} \/ family[t] \in lost'

\* What becomes of a rotation: nothing; it goes on writing; its answer is
\* there; it is over without a token to store.
Writing(c) ==
  chain[c].step \in Writes /\ chain'[c].step \in Writes /\ chain'[c].token = chain[c].token

RotationOver ==
  /\ chain'.rotation.step \notin Writes \cup {"refreshing"}
  /\ chain.rotation.step \in Writes \cup {"refreshing"} => Ends(chain.rotation.token)
  /\ chain.rotation.step = "refreshing" =>
       Forgotten(chain.rotation.token, chain.rotation.request)

RotationStores ==
  /\ chain.rotation.step = "refreshing" /\ chain'.rotation.step = "write_access"
  /\ Forgotten(chain.rotation.token, chain.rotation.request)
  /\ chain'.rotation.token \in Issued /\ Usable(chain'.rotation.token)
  /\ family[chain'.rotation.token] = family[chain.rotation.token]

\* And of main: nothing; it goes on writing; it logs in; its answer is there;
\* it has no token.
LoginSent ==
  /\ chain'.main.step = "login" /\ chain'.main.request \in Requests
  /\ tx'[chain'.main.request].step = "sent" /\ tx'[chain'.main.request].call = "login"

LoginStores ==
  /\ chain.main.step = "login" /\ tx[chain.main.request].step = "answered"
  /\ chain'.main.step = "write_access" /\ chain'.main.token = tx[chain.main.request].answer

\* Tokens and sessions as the client finds them: none dies of its steps.
LEMMA TokensKept ==
  ASSUME UNCHANGED rows, lost \subseteq lost'
  PROVE  /\ family' = family /\ Issued' = Issued
         /\ \A t : (Ended(t) => Ended(t)') /\ (Usable(t) => Usable(t)')
  BY DEF rows, Issued, Ended, Usable, LiveIn

\* A step that stores no refresh token and sends none.
LEMMA ClientKeepsWire ==
  ASSUME WireInv, UNCHANGED rows, lost \subseteq lost', Connections,
         access' \in Issued \cup {None}, refresh' \in {refresh, None},
         Kept("rotation") \/ Writing("rotation") \/ RotationStores \/ RotationOver,
         Kept("main") \/ Writing("main") \/ LoginSent \/ LoginStores
           \/ chain'.main.step \notin Writes \cup {"login"}
  PROVE  WireInv'
  <1> USE TokensKept
  <1>1. chain.rotation.step = "refreshing" => chain.rotation.step \notin Writes
    BY DEF Writes
  <1>2. OneInFlight'
    <2> SUFFICES ASSUME NEW r \in Requests,
                        tx'[r].step = "rotating" \/ (tx'[r].step = "sent" /\ tx'[r].call = "refresh"),
                        family[tx'[r].token] \notin lost'
                 PROVE  /\ chain'.rotation.step = "refreshing" /\ chain'.rotation.request = r
                        /\ chain'.rotation.token = tx'[r].token
      BY DEF OneInFlight
    <2>1. tx'[r] = tx[r]
      BY DEF Connections
    <2>2. /\ chain.rotation.step = "refreshing" /\ chain.rotation.request = r
          /\ chain.rotation.token = tx[r].token
      BY <2>1 DEF WireInv, OneInFlight
    <2>3. ~Forgotten(chain.rotation.token, chain.rotation.request)
      BY <2>1, <2>2 DEF Forgotten
    <2>4. Kept("rotation")
      BY <1>1, <2>2, <2>3 DEF Writing, RotationStores, RotationOver
    <2>5. QED
      BY <2>1, <2>2, <2>4 DEF Kept
  <1>3. RotationSound'
    <2>1. CASE Kept("rotation")
      <3>1. ASSUME chain.rotation.step = "refreshing"
            PROVE  RotationOn(chain.rotation.token, chain.rotation.request)'
        <4>1. PICK r \in Requests : r = chain.rotation.request /\ RotationOn(chain.rotation.token, r)
          BY <3>1 DEF WireInv, RotationSound
        <4>2. Waiting(r)
          BY <4>1, ChainNames DEF Waiting
        <4>3. tx'[r] = tx[r] \/ tx'[r].step = "idle"
          BY <4>2 DEF Connections
        <4> DEFINE t == chain.rotation.token
        <4>4. /\ tx'[r].step = "idle" => RotationOn(t, r)'
              /\ tx'[r] = tx[r] => RotationOn(t, r)'
          BY <2>1, <4>1 DEF RotationOn, Kept
        <4>5. QED
          BY <2>1, <4>1, <4>3, <4>4 DEF Kept
      <3>2. QED
        BY <2>1, <3>1 DEF WireInv, RotationSound, Kept
    <2>2. CASE Writing("rotation")
      BY <2>2 DEF WireInv, RotationSound, Writing, Writes
    <2>3. CASE RotationStores
      BY <2>3 DEF RotationSound, RotationStores, Writes
    <2>4. CASE RotationOver
      BY <2>4 DEF RotationSound, RotationOver
    <2>5. QED
      BY <2>1, <2>2, <2>3, <2>4
  <1>4. ASSUME NEW t, NewSession(t)
        PROVE  NewSession(t)'
    BY <1>4 DEF NewSession, Kept, Writing, RotationStores, RotationOver
  <1>5. LoginSound'
    <2>1. CASE Kept("main")
      <3>1. ASSUME chain.main.step = "login"
            PROVE  chain.main.request \in Requests /\ LoginOn(chain.main.request)'
        <4>1. PICK r \in Requests : r = chain.main.request /\ LoginOn(r)
          BY <3>1 DEF WireInv, LoginSound
        <4>2. tx'[r] = tx[r] \/ tx'[r].step = "idle"
          BY <4>1, ChainNames DEF Connections, Waiting
        <4>3. LoginOn(r)'
          BY <1>4, <4>1, <4>2 DEF LoginOn
        <4>4. QED
          BY <2>1, <4>1, <4>3 DEF Kept
      <3>2. QED
        BY <1>4, <2>1, <3>1 DEF WireInv, LoginSound, Kept
    <2>2. CASE Writing("main")
      BY <1>4, <2>2 DEF WireInv, LoginSound, Writing, Writes
    <2>3. CASE LoginSent
      BY <2>3 DEF LoginSound, LoginSent, LoginOn, Writes
    <2>4. CASE LoginStores
      <3>1. NewSession(tx[chain.main.request].answer)
        BY <2>4 DEF WireInv, LoginSound, LoginOn, LoginStores
      <3>2. QED
        BY <1>4, <2>4, <3>1 DEF LoginStores, LoginSound, Writes
    <2>5. CASE chain'.main.step \notin Writes \cup {"login"}
      BY <2>5 DEF LoginSound
    <2>6. QED
      BY <2>1, <2>2, <2>3, <2>4, <2>5
  <1>6. StoredSound'
    <2>1. ASSUME refresh # None, refresh' = refresh, ~Usable(refresh)
          PROVE  \/ Usable(refresh)'
                 \/ /\ chain'.rotation.step \in Writes \cup {"refreshing"}
                    /\ family[chain'.rotation.token] = family[refresh]
      <3>1. /\ chain.rotation.step \in Writes \cup {"refreshing"}
            /\ family[chain.rotation.token] = family[refresh]
        BY <2>1 DEF WireInv, StoredSound
      <3>2. CASE RotationOver
        <4>1. Ends(chain.rotation.token)
          BY <3>1, <3>2 DEF RotationOver
        <4>2. Ends(refresh)
          BY <3>1, <4>1 DEF Ends
        <4>3. Usable(refresh)'
          BY <2>1, <4>2 DEF rows, Ends, Ended, Usable, LiveIn
        <4>4. QED
          BY <4>3
      <3>3. QED
        BY <3>1, <3>2 DEF Kept, Writing, RotationStores, Writes
    <2>2. QED
      BY <2>1 DEF WireInv, StoredSound
  <1>7. QED
    BY <1>2, <1>3, <1>5, <1>6 DEF WireInv

\* A rotation sends the stored token.
LEMMA RotationSent ==
  ASSUME WireInv, UNCHANGED rows, lost' = lost, access' = access, refresh' = refresh,
         NEW r \in Requests, ~Waiting(r), \A x \in Requests : x # r => tx'[x] = tx[x],
         tx'[r].step = "sent", tx'[r].call = "refresh", tx'[r].token = refresh,
         chain.rotation.step = "idle", refresh # None,
         chain'.rotation.step = "refreshing", chain'.rotation.token = refresh,
         chain'.rotation.request = r,
         Kept("main") \/ chain'.main.step \notin Writes \cup {"login"}
  PROVE  WireInv'
  <1> USE TokensKept
  <1>1. chain.rotation.step \notin Writes \cup {"refreshing"} /\ chain'.rotation.step \notin Writes
    BY DEF Writes
  <1>2. refresh \in Issued /\ Usable(refresh)
    BY <1>1 DEF WireInv, StoredSound
  <1>3. OneInFlight'
    BY <1>1 DEF WireInv, OneInFlight
  <1>4. RotationSound'
    BY <1>1, <1>2 DEF RotationSound, RotationOn
  <1>5. ASSUME NEW t, NewSession(t)
        PROVE  NewSession(t)'
    BY <1>5 DEF NewSession
  <1>6. ASSUME Kept("main"), chain.main.step = "login"
        PROVE  chain.main.request \in Requests /\ LoginOn(chain.main.request)'
    <2>1. PICK x \in Requests : x = chain.main.request /\ LoginOn(x)
      BY <1>6 DEF WireInv, LoginSound
    <2>2. tx'[x] = tx[x]
      BY <2>1, ChainNames DEF Waiting
    <2>3. LoginOn(x)'
      BY <1>5, <2>1, <2>2 DEF LoginOn
    <2>4. QED
      BY <1>6, <2>1, <2>3 DEF Kept
  <1>7. LoginSound'
    BY <1>5, <1>6 DEF WireInv, LoginSound, Kept
  <1>8. StoredSound'
    BY <1>2 DEF WireInv, StoredSound
  <1>9. QED
    BY <1>3, <1>4, <1>7, <1>8 DEF WireInv

\* The refresh key is that of the rotation.
LEMMA RotationStored ==
  ASSUME WireInv, UNCHANGED rows, lost' = lost, access' = access, tx' = tx,
         chain.rotation.step \in Writes, refresh' = chain.rotation.token,
         chain'.rotation.step = "idle",
         Kept("main") \/ chain'.main.step \notin Writes \cup {"login"}
  PROVE  WireInv'
  <1> USE TokensKept
  <1>1. chain.rotation.step # "refreshing" /\ chain'.rotation.step \notin Writes \cup {"refreshing"}
    BY DEF Writes
  <1>2. refresh' \in Issued /\ Usable(refresh')
    BY DEF WireInv, RotationSound
  <1>3. OneInFlight' /\ RotationSound'
    BY <1>1 DEF WireInv, OneInFlight, RotationSound
  <1>4. ASSUME NEW t, NewSession(t)
        PROVE  NewSession(t)'
    BY <1>1, <1>4 DEF NewSession
  <1>5. LoginSound'
    BY <1>4 DEF WireInv, LoginSound, Kept, LoginOn
  <1>6. StoredSound'
    <2>1. Usable(refresh)'
      BY <1>2 DEF Usable, Ended
    <2>2. QED
      BY <1>2, <2>1 DEF WireInv, StoredSound
  <1>7. QED
    BY <1>3, <1>5, <1>6 DEF WireInv

\* The refresh key is that of a login.
LEMMA LoginStored ==
  ASSUME WireInv, UNCHANGED rows, lost' = lost, access' = access, tx' = tx,
         chain.main.step \in Writes, refresh' = chain.main.token,
         chain'.main.step = "idle", Kept("rotation")
  PROVE  WireInv'
  <1> USE TokensKept
  <1>1. chain'.main.step \notin Writes \cup {"login"}
    BY DEF Writes
  <1>2. refresh' \in Issued /\ Usable(refresh')
    BY DEF WireInv, LoginSound, NewSession
  <1>3. OneInFlight'
    BY DEF WireInv, OneInFlight, Kept
  <1>4. RotationSound'
    BY DEF WireInv, RotationSound, RotationOn, Kept
  <1>5. LoginSound'
    BY <1>1 DEF LoginSound
  <1>6. StoredSound'
    <2>1. Usable(refresh)'
      BY <1>2 DEF Usable, Ended
    <2>2. QED
      BY <1>2, <2>1 DEF WireInv, StoredSound
  <1>7. QED
    BY <1>3, <1>4, <1>5, <1>6 DEF WireInv
-----------------------------------------------------------------------------
(* Steps of the client, in the queue *)

Stays(C, c) == chain[c].step \in StorageSteps => C[c].step \in StorageSteps

\* A chain takes a step that is not of the storage.
LEMMA QueueStays ==
  ASSUME QueueInv, NEW C \in [Chains -> ChainRecord], Continue(C, queue),
         \A c \in Chains : Stays(C, c)
  PROVE  /\ chain' = C /\ QueueInv'
         /\ \A c, d \in Chains : Ahead(c, d) => Ahead(c, d)'
         /\ \A c, d \in Chains : /\ chain[c].step \in StorageSteps
                                 /\ chain[d].step \notin StorageSteps /\ C[d].step \in StorageSteps
                                 => Ahead(c, d)'
  <1>1. Once(queue) /\ \A c \in Chains : chain[c].step \in StorageSteps <=> In(c, queue)
    BY DEF QueueInv
  <1>2. \A c \in Chains : In(c, queue) => C[c].step \in StorageSteps
    BY <1>1 DEF Stays
  <1>3. /\ chain' = C /\ QueueInv'
        /\ \A c, d \in Chains : Before(c, d, queue) => Ahead(c, d)'
        /\ \A c, d \in Chains : In(c, queue) /\ ~In(d, queue) /\ C[d].step \in StorageSteps
                                  => Ahead(c, d)'
    BY <1>1, <1>2, QueueAfter
  <1>4. QED
    BY <1>1, <1>3 DEF Ahead

\* The storage has served the chain h.
LEMMA QueueServes ==
  ASSUME QueueInv, NEW C \in [Chains -> ChainRecord], Continue(C, Tail(queue)),
         NEW h \in Chains, queue # <<>>, Head(queue) = h,
         \A c \in Chains \ {h} : Stays(C, c)
  PROVE  /\ chain' = C /\ QueueInv'
         /\ \A c \in Chains \ {h} : chain[c].step \in StorageSteps => Ahead(h, c)
         /\ \A c \in Chains \ {h} : chain[c].step \in StorageSteps /\ C[h].step \in StorageSteps
                                      => Ahead(c, h)'
         /\ \A c, d \in Chains \ {h} : Ahead(c, d) => Ahead(c, d)'
         /\ \A c, d \in Chains \ {h} : /\ chain[c].step \in StorageSteps
                                       /\ chain[d].step \notin StorageSteps
                                       /\ C[d].step \in StorageSteps
                                       => Ahead(c, d)'
  <1>1. Once(queue) /\ \A c \in Chains : chain[c].step \in StorageSteps <=> In(c, queue)
    BY DEF QueueInv
  <1>2. /\ Once(Tail(queue))
        /\ \A d \in Chains : In(d, Tail(queue)) <=> In(d, queue) /\ d # h
        /\ \A d, e \in Chains : Before(d, e, queue) /\ d # h => Before(d, e, Tail(queue))
        /\ \A d \in Chains : ~Before(d, h, queue)
    BY <1>1, HeadLeaves
  <1>3. \A c \in Chains : In(c, Tail(queue)) => C[c].step \in StorageSteps
    BY <1>1, <1>2 DEF Stays
  <1>4. /\ chain' = C /\ QueueInv'
        /\ \A c, d \in Chains : Before(c, d, Tail(queue)) => Ahead(c, d)'
        /\ \A c, d \in Chains : In(c, Tail(queue)) /\ ~In(d, Tail(queue))
                                  /\ C[d].step \in StorageSteps => Ahead(c, d)'
    BY <1>2, <1>3, QueueAfter
  <1>5. In(h, queue)
    <2>1. Len(queue) \in Nat \ {0} /\ queue[1] = h
      BY <1>1 DEF Once
    <2>2. QED
      BY <2>1 DEF In
  <1>6. \A c \in Chains \ {h} : In(c, queue) => Before(h, c, queue)
    BY <1>1, <1>2, <1>5, QueueIsOrdered
  <1>7. QED
    BY <1>1, <1>2, <1>4, <1>6 DEF Ahead

\* Chains that keep their order keep its reverse.
LEMMA OrderIsKept ==
  ASSUME QueueInv, QueueInv',
         \A p \in Pair : Pending(p[1]) /\ Pending(p[2]) /\ Ahead(p[1], p[2]) => Ahead(p[1], p[2])'
  PROVE  OrderKept
  <1> SUFFICES ASSUME NEW p \in Pair, Pending(p[1]), Pending(p[2]), ~Ahead(p[1], p[2])
               PROVE  ~Ahead(p[1], p[2])'
    BY DEF OrderKept
  <1>1. p[1] \in Chains /\ p[2] \in Chains /\ p[1] # p[2] /\ <<p[2], p[1]>> \in Pair
    BY ChainNames DEF Pair
  <1>2. In(p[1], queue) /\ In(p[2], queue)
    BY <1>1 DEF QueueInv, Pending, Changing, StorageSteps
  <1>3. Ahead(p[2], p[1])
    BY <1>1, <1>2, QueueIsOrdered DEF QueueInv, Ahead
  <1>4. Ahead(p[2], p[1])'
    BY <1>1, <1>3
  <1>5. Once(queue')
    BY DEF QueueInv
  <1>6. QED
    BY <1>1, <1>4, <1>5, AheadIsOrdered DEF Ahead

\* Who begins to write a login, or to clear, decides; nobody else does.
LEMMA SignedIn ==
  ASSUME NEW C, NEW rest, Continue(C, rest), signedIn \in BOOLEAN
  PROVE  /\ signedIn' \in BOOLEAN
         /\ C.main.step = "write_access" /\ chain.main.step # "write_access" => signedIn'
         /\ ~(C.main.step = "write_access" /\ chain.main.step # "write_access")
            => (signedIn' <=> /\ signedIn
                              /\ \A c \in Chains : C[c].step = "delete_access" =>
                                                     chain[c].step = "delete_access")
  BY DEF Continue

\* How a step moves the chains: to C, with or without a storage operation of h
\* that is done.
Steps(C) == Continue(C, queue) /\ \A c \in Chains : Stays(C, c)
Served(C, h) ==
  /\ Continue(C, Tail(queue)) /\ \A c \in Chains \ {h} : Stays(C, c)
  /\ queue # <<>> /\ Head(queue) = h
Moves(C, h) == Steps(C) \/ Served(C, h)

\* A step that changes no storage and begins no change of it.
LEMMA QuietMove ==
  ASSUME StoreInv, QueueInv, signedIn \in BOOLEAN, NEW C \in [Chains -> ChainRecord],
         NEW h \in Chains, Moves(C, h), chain[h].step \notin Changing,
         \A c \in {"main", "rotation"} :
           \/ /\ C[c].step = chain[c].step /\ C[c].token = chain[c].token
              /\ C[c].request = chain[c].request
           \/ chain[c].step \notin Changing /\ C[c].step \notin Changing,
         C.reader.step \notin Changing,
         access' = access, refresh' = refresh, torn => torn',
         ~torn' /\ C.rotation.step = "refreshing" /\ ~C.rotation.stale =>
           ~Pending("main") /\ signedIn
  PROVE  chain' = C /\ QueueInv' /\ StoreInv' /\ signedIn' = signedIn
  <1>1. /\ chain' = C /\ QueueInv'
        /\ \A c, d \in Chains \ {h} : Ahead(c, d) => Ahead(c, d)'
    BY QueueStays, QueueServes DEF Moves, Steps, Served
  <1>2. \A p \in Pair : Pending(p[1]) /\ Pending(p[2]) =>
                          p[1] \in Chains \ {h} /\ p[2] \in Chains \ {h}
    BY ChainNames DEF Pair, Pending
  <1>3. OrderKept
    BY <1>1, <1>2, OrderIsKept
  <1>4. signedIn' = signedIn
    <2>1. \A c \in Chains : C[c].step \in Changing => C[c].step = chain[c].step
      BY ChainNames
    <2>2. PICK rest : Continue(C, rest)
      BY DEF Moves, Steps, Served
    <2>3. signedIn' \in BOOLEAN /\ (signedIn' <=> signedIn)
      BY <2>1, <2>2, SignedIn, ChainNames DEF Changing
    <2>4. QED
      BY <2>3
  <1>5. Unmoved("main") /\ Unmoved("rotation")
    BY <1>1 DEF Unmoved, Kept, Calm
  <1>6. Pending("main")' <=> Pending("main")
    BY <1>5 DEF Unmoved, Kept, Calm, Pending
  <1>7. StoreInv'
    BY <1>1, <1>3, <1>4, <1>5, <1>6, QuietSteps
  <1>8. QED
    BY <1>1, <1>4, <1>7

\* Main begins to clear, or to store a login; a rotation in flight is outdated.
LEMMA StartingMove ==
  ASSUME StoreInv, QueueInv, signedIn \in BOOLEAN, NEW C \in [Chains -> ChainRecord],
         NEW h \in Chains, Moves(C, h), h # "rotation" \/ C.rotation.step = "idle",
         chain.main.step \in StorageSteps => Served(C, "main"),
         ~Pending("main"), C.main.step \in {"write_access", "delete_access"},
         C.reader.step \notin Changing, access' = access,
         \/ /\ C.rotation.step = chain.rotation.step /\ C.rotation.token = chain.rotation.token
            /\ C.rotation.request = chain.rotation.request
            /\ C.rotation.step = "refreshing" => C.rotation.stale
         \/ C.rotation.step \notin Changing \cup {"refreshing"}
  PROVE  chain' = C /\ QueueInv' /\ StoreInv' /\ signedIn' \in BOOLEAN
  <1>1. chain' = C /\ QueueInv'
    BY QueueStays, QueueServes DEF Moves, Steps, Served
  <1>2. C.main.step \in StorageSteps /\ chain.main.step \notin Changing
        /\ \A c \in Chains : chain[c].step \in Changing => chain[c].step \in StorageSteps
    BY DEF StorageSteps, Pending, Changing
  <1>3. PICK rest : Continue(C, rest)
    BY DEF Moves, Steps, Served
  <1>4. /\ signedIn' \in BOOLEAN
        /\ signedIn' <=> C.main.step = "write_access"
    <2>1. C.main.step = "write_access" => chain.main.step # "write_access"
      BY <1>2 DEF Changing
    <2>2. C.main.step = "delete_access" => chain.main.step # "delete_access"
      BY <1>2 DEF Changing
    <2>3. QED
      BY <1>3, <2>1, <2>2, SignedIn, ChainNames
  <1>5. CASE C.rotation.step \notin Changing \cup {"refreshing"}
    BY <1>1, <1>4, <1>5, MainStarts
  <1>6. CASE /\ C.rotation.step = chain.rotation.step /\ C.rotation.token = chain.rotation.token
             /\ C.rotation.request = chain.rotation.request
             /\ C.rotation.step = "refreshing" => C.rotation.stale
             /\ h # "rotation"
    <2>1. ASSUME Pending("rotation")
          PROVE  Ahead("rotation", "main")'
      <3>1. "rotation" \in Chains \ {h} /\ chain["rotation"].step \in StorageSteps
        BY <1>2, <1>6, <2>1, ChainNames DEF Pending
      <3>2. CASE Served(C, "main")
        BY <1>2, <2>1, <3>2, QueueServes, ChainNames DEF Served, Pending
      <3>3. CASE chain.main.step \notin StorageSteps /\ Steps(C)
        BY <1>2, <3>1, <3>3, QueueStays, ChainNames DEF Steps
      <3>4. CASE chain.main.step \notin StorageSteps /\ Served(C, h) /\ h # "main"
        BY <1>2, <3>1, <3>4, QueueServes, ChainNames DEF Served
      <3>5. QED
        BY <3>2, <3>3, <3>4 DEF Moves
    <2>2. QED
      BY <1>1, <1>4, <1>6, <2>1, MainStarts DEF Kept
  <1>7. QED
    BY <1>1, <1>4, <1>5, <1>6 DEF Changing

\* The future of the rotation completes; main, if it waits for it, may clear.
LEMMA CompletedTypes ==
  ASSUME ChainsTyped, NEW given \in BOOLEAN
  PROVE  LET D == Completed(given) IN
         /\ D \in [Chains -> ChainRecord] /\ D.rotation.step = "idle"
         /\ D.reader.step \notin Changing
         /\ \A c \in Chains \ {"rotation"} : Stays(D, c)
         /\ \/ /\ D.main.step = chain.main.step /\ D.main.token = chain.main.token
               /\ D.main.request = chain.main.request
            \/ chain.main.step = "joined" /\ D.main.step \in AfterSteps
         /\ chain' = D => ChainsTyped'
  <1> DEFINE D == Completed(given)
  <1>1. /\ D \in [Chains -> ChainRecord]
        /\ D.rotation.step = "idle"
        /\ D.reader = IF chain.reader.step = "joined" THEN Nothing ELSE chain.reader
        /\ chain.main.step # "joined" => D.main = chain.main
        /\ chain.main.step = "joined" => D.main.step \in AfterSteps
    BY CompletedChains
  <1> HIDE DEF D
  <1>2. D.reader.step \in {"idle", "read_access", "read_refresh"}
        /\ (D.reader.step # "idle" => D.reader.goal = "request")
    BY <1>1, NothingTyped DEF ChainsTyped
  <1>3. /\ D.main.step \notin {"read_again", "refreshing", "joined"}
        /\ D.main.step \in {"read_access", "read_refresh"} => D.main.goal \in {"restore", "logout_all"}
    BY <1>1 DEF ChainsTyped, AfterSteps
  <1>4. \A c \in Chains \ {"rotation"} : Stays(D, c)
    BY <1>1, NothingTyped, ChainNames DEF Stays, StorageSteps
  <1>5. chain' = D => ChainsTyped'
    BY <1>1, <1>2, <1>3, ChainNames DEF ChainsTyped
  <1>6. QED
    BY <1>1, <1>2, <1>4, <1>5 DEF D, Changing

\* A rotation completes that has stored nothing.
LEMMA RotationGivesUp ==
  ASSUME ChainsTyped, QueueInv, StoreInv, signedIn \in BOOLEAN, NEW given \in BOOLEAN,
         \/ Continue(Completed(given), queue) /\ chain.rotation.step = "refreshing"
         \/ /\ Continue(Completed(given), Tail(queue)) /\ queue # <<>> /\ Head(queue) = "rotation"
            /\ chain.rotation.step = "read_again",
         access' = access, refresh' = refresh, torn' = torn
  PROVE  /\ ChainsTyped' /\ QueueInv' /\ StoreInv' /\ signedIn' \in BOOLEAN
         /\ chain'.rotation.step = "idle" /\ (Kept("main") \/ chain'.main.step \in AfterSteps)
  <1> DEFINE D == Completed(given)
  <1>1. /\ D \in [Chains -> ChainRecord] /\ D.rotation.step = "idle"
        /\ D.reader.step \notin Changing
        /\ \A c \in Chains \ {"rotation"} : Stays(D, c)
        /\ \/ /\ D.main.step = chain.main.step /\ D.main.token = chain.main.token
              /\ D.main.request = chain.main.request
           \/ chain.main.step = "joined" /\ D.main.step \in AfterSteps
        /\ chain' = D => ChainsTyped'
    BY CompletedTypes
  <1>2. \/ Continue(D, queue) /\ chain.rotation.step = "refreshing"
        \/ /\ Continue(D, Tail(queue)) /\ queue # <<>> /\ Head(queue) = "rotation"
           /\ chain.rotation.step = "read_again"
    OBVIOUS
  <1> HIDE DEF D
  <1>3. Moves(D, "rotation") /\ chain.rotation.step \notin Changing
    BY <1>1, <1>2 DEF Moves, Steps, Served, Stays, StorageSteps, Changing
  <1>4. CASE chain.main.step = "joined" /\ D.main.step = "delete_access"
    <2>1. chain.main.step \notin StorageSteps /\ ~Pending("main")
      BY <1>4 DEF StorageSteps, Pending, Changing
    <2>2. D.rotation.step \notin Changing \cup {"refreshing"}
      BY <1>1 DEF Changing
    <2>3. chain' = D /\ QueueInv' /\ StoreInv' /\ signedIn' \in BOOLEAN
      BY <1>1, <1>3, <1>4, <2>1, <2>2, StartingMove, ChainNames
    <2>4. QED
      BY <1>1, <1>4, <2>3 DEF AfterSteps
  <1>5. CASE ~(chain.main.step = "joined" /\ D.main.step = "delete_access")
    <2>1. \A c \in {"main", "rotation"} :
            \/ /\ D[c].step = chain[c].step /\ D[c].token = chain[c].token
               /\ D[c].request = chain[c].request
            \/ chain[c].step \notin Changing /\ D[c].step \notin Changing
      BY <1>1, <1>3, <1>5 DEF Changing, AfterSteps
    <2>2. chain' = D /\ QueueInv' /\ StoreInv' /\ signedIn' = signedIn
      BY <1>1, <1>3, <2>1, QuietMove, ChainNames
    <2>3. QED
      BY <1>1, <2>2 DEF Kept
  <1>6. QED
    BY <1>4, <1>5

\* A rotation completes that has stored its answer, or has cleared.
LEMMA RotationCompletes ==
  ASSUME ChainsTyped, QueueInv, StoreInv, signedIn \in BOOLEAN, NEW given \in BOOLEAN,
         WritesTokens, None \notin Tokens,
         Continue(Completed(given), Tail(queue)), queue # <<>>, Head(queue) = "rotation",
         Half("rotation"), access' = access, refresh' = Value("rotation"), torn' = torn
  PROVE  /\ ChainsTyped' /\ QueueInv' /\ StoreInv' /\ signedIn' \in BOOLEAN
         /\ chain'.rotation.step = "idle" /\ (Kept("main") \/ chain'.main.step \in AfterSteps)
  <1> DEFINE D == Completed(given)
  <1>1. /\ D \in [Chains -> ChainRecord] /\ D.rotation.step = "idle"
        /\ D.reader.step \notin Changing
        /\ \A c \in Chains \ {"rotation"} : Stays(D, c)
        /\ \/ /\ D.main.step = chain.main.step /\ D.main.token = chain.main.token
              /\ D.main.request = chain.main.request
           \/ chain.main.step = "joined" /\ D.main.step \in AfterSteps
        /\ chain' = D => ChainsTyped'
    BY CompletedTypes
  <1>2. Served(D, "rotation")
    BY <1>1 DEF Served
  <1> HIDE DEF D
  <1>3. /\ chain' = D /\ QueueInv'
        /\ \A c \in Chains \ {"rotation"} : chain[c].step \in StorageSteps => Ahead("rotation", c)
    BY <1>1, <1>2, QueueServes, ChainNames DEF Served
  <1>4. CASE chain.main.step = "joined" /\ D.main.step = "delete_access"
    <2>1. chain.main.step \notin StorageSteps /\ ~Pending("main")
      BY <1>4 DEF StorageSteps, Pending, Changing
    <2>2. D.rotation.step \notin Changing \cup {"refreshing"}
      BY <1>1 DEF Changing
    <2>3. chain' = D /\ QueueInv' /\ StoreInv' /\ signedIn' \in BOOLEAN
      BY <1>1, <1>2, <1>4, <2>1, <2>2, StartingMove, ChainNames DEF Moves
    <2>4. QED
      BY <1>1, <1>4, <2>3 DEF AfterSteps
  <1>5. CASE ~(chain.main.step = "joined" /\ D.main.step = "delete_access")
    <2>1. Unmoved("main")
      BY <1>1, <1>3, <1>5 DEF Unmoved, Kept, Calm, Changing, AfterSteps
    <2>2. Pending("main") => Ahead("rotation", "main")
      BY <1>3, ChainNames DEF Pending, Changing, StorageSteps
    <2>3. signedIn' = signedIn
      <3>1. \A c \in Chains : D[c].step \in {"write_access", "delete_access"} =>
                                D[c].step = chain[c].step
        BY <1>1, <1>5, ChainNames DEF Changing, AfterSteps
      <3>2. Continue(D, Tail(queue))
        BY <1>2 DEF Served
      <3>3. signedIn' \in BOOLEAN /\ (signedIn' <=> signedIn)
        BY <3>1, <3>2, SignedIn, ChainNames
      <3>4. QED
        BY <3>3
    <2>4. StoreInv'
      BY <1>1, <1>3, <2>1, <2>2, <2>3, RotationFinishes
    <2>5. QED
      BY <1>1, <1>3, <2>3, <2>4 DEF Kept
  <1>6. QED
    BY <1>4, <1>5
-----------------------------------------------------------------------------
(* What the steps of main and of the reader have in common *)

\* A client's step keeps the invariant if it keeps its parts.
LEMMA ClientStep ==
  ASSUME MobileInv, UNCHANGED rows, UNCHANGED tx \/ SessionInv',
         ChainsTyped', QueueInv', StoreInv', WireInv',
         screen' \in {"checking", "guest", "home"}, signedIn' \in BOOLEAN, torn' \in BOOLEAN,
         lost' \in SUBSET Families
  PROVE  MobileInv'
  <1>1. SessionInv'
    <2>1. CASE UNCHANGED tx
      <3>1. UNCHANGED vars
        BY <2>1 DEF vars
      <3>2. QED
        BY <3>1, SessionInvNext DEF MobileInv
    <2>2. QED
      BY <2>1
  <1>2. Issued' \subseteq Tokens
    BY DEF Issued
  <1>3. access' \in Tokens \cup {None} /\ refresh' \in Tokens \cup {None}
    BY <1>2 DEF WireInv, StoredSound
  <1>4. ClientTyped'
    BY <1>3 DEF ClientTyped
  <1>5. QED
    BY <1>1, <1>4 DEF MobileInv

\* A connection is used, for a token that exists if one is sent.
LEMMA Connected ==
  ASSUME MobileInv, NEW r \in Requests, NEW call \in {"login", "refresh", "logout", "logout_all"},
         NEW t \in Tokens \cup {None}, call \in {"refresh", "logout"} => t \in Issued,
         Connect(r, call, t), UNCHANGED rows
  PROVE  /\ SessionInv' /\ ~Waiting(r)
         /\ tx'[r].step = "sent" /\ tx'[r].call = call /\ tx'[r].token = t
         /\ \A x \in Requests : x # r => tx'[x] = tx[x]
         /\ call # "refresh" => Connections
  <1>1. ~Waiting(r) /\ Send(r, call, t) /\ SessionInv
    BY DEF Connect, MobileInv
  <1>2. SessionInv'
    BY <1>1, SendKeeps
  <1>3. /\ tx'[r].step = "sent" /\ tx'[r].call = call /\ tx'[r].token = t
        /\ \A x \in Requests : x # r => tx'[x] = tx[x]
    BY <1>1 DEF Send, Become, Idle, SessionInv
  <1>4. QED
    BY <1>1, <1>2, <1>3 DEF Connections

\* An answer is taken.
LEMMA Taken ==
  ASSUME MobileInv, NEW c \in Chains, NEW step, NEW r \in Requests, Answered(c, step, r)
  PROVE  /\ SessionInv' /\ UNCHANGED rows /\ Connections
         /\ chain[c].step = step /\ chain[c].request = r
         /\ tx[r].step = "answered" /\ tx'[r].step = "idle"
  <1>1. /\ chain[c].step = step /\ chain[c].request = r /\ tx[r].step = "answered"
        /\ Become(r, Idle) /\ UNCHANGED rows /\ SessionInv
    BY DEF Answered, MobileInv
  <1>2. SessionInv'
    BY <1>1, FreedKeeps
  <1>3. tx'[r].step = "idle" /\ \A x \in Requests : x # r => tx'[x] = tx[x]
    BY <1>1 DEF Become, Idle, SessionInv
  <1>4. QED
    BY <1>1, <1>2, <1>3 DEF Connections

\* No connection is touched.
LEMMA NotConnected == UNCHANGED vars => UNCHANGED rows /\ UNCHANGED tx /\ Connections
  BY DEF vars, Connections

\* Main, or the reader, goes on without changing the storage.
LEMMA QuietClient ==
  ASSUME MobileInv, NEW c \in {"main", "reader"}, NEW C \in [Chains -> ChainRecord],
         \A d \in Chains \ {c} : C[d] = chain[d], Moves(C, c),
         chain[c].step \notin Changing, C[c].step \notin Changing,
         chain' = C => ChainsTyped' /\ (C[c].step = "login" => LoginSent),
         UNCHANGED rows, UNCHANGED tx \/ SessionInv', Connections,
         access' = access, refresh' = refresh, torn' = torn, lost' = lost,
         screen' \in {"checking", "guest", "home"}
  PROVE  MobileInv'
  <1>1. /\ StoreInv /\ QueueInv /\ WireInv /\ ChainsTyped /\ signedIn \in BOOLEAN
        /\ torn \in BOOLEAN /\ lost \in SUBSET Families
    BY DEF MobileInv, ClientTyped
  <1>2. C.rotation = chain.rotation /\ (c = "main" => C.reader = chain.reader)
        /\ (c = "reader" => C.main = chain.main)
    BY ChainNames
  <1>3. C.reader.step \notin Changing /\ c \in Chains
    <2>1. chain.reader.step \notin Changing
      BY <1>1 DEF ChainsTyped, Changing
    <2>2. QED
      BY <1>2, <2>1, ChainNames
  <1>4. ~torn /\ C.rotation.step = "refreshing" /\ ~C.rotation.stale => ~Pending("main") /\ signedIn
    BY <1>1, <1>2 DEF StoreInv, WholeUnlessTorn
  <1>5. chain' = C /\ QueueInv' /\ StoreInv' /\ signedIn' = signedIn
    <2>1. \A d \in {"main", "rotation"} :
            \/ /\ C[d].step = chain[d].step /\ C[d].token = chain[d].token
               /\ C[d].request = chain[d].request
            \/ chain[d].step \notin Changing /\ C[d].step \notin Changing
      BY <1>2
    <2>2. QED
      BY <1>1, <1>3, <1>4, <2>1, QuietMove
  <1>6. Kept("rotation")
    BY <1>2, <1>5 DEF Kept
  <1>7. Kept("main") \/ LoginSent \/ chain'.main.step \notin Writes \cup {"login"}
    BY <1>2, <1>5 DEF Kept, Writes, Changing
  <1>8. WireInv'
    <2>1. access' \in Issued \cup {None}
      BY <1>1 DEF WireInv, StoredSound
    <2>2. QED
      BY <1>1, <1>6, <1>7, <2>1, ClientKeepsWire
  <1>9. QED
    BY <1>1, <1>5, <1>8, ClientStep

\* Main begins to clear, or to store a login, and outdates a rotation in flight.
LEMMA StartingClient ==
  ASSUME MobileInv, NEW C \in [Chains -> ChainRecord],
         (Steps(C) /\ chain.main.step \notin StorageSteps) \/ Served(C, "main"),
         chain.main.step \notin Changing, C.main.step \in {"write_access", "delete_access"},
         C.main.step = "write_access" =>
           /\ chain.main.step = "login" /\ tx[chain.main.request].step = "answered"
           /\ C.main.token = tx[chain.main.request].answer,
         C.reader = chain.reader,
         C.rotation.step = chain.rotation.step, C.rotation.token = chain.rotation.token,
         C.rotation.request = chain.rotation.request,
         C.rotation.stale = (C.rotation.step # "idle"),
         UNCHANGED rows, UNCHANGED tx \/ SessionInv', Connections,
         access' = access, refresh' = refresh, torn' = torn, lost' = lost, screen' = screen
  PROVE  MobileInv'
  <1>1. /\ StoreInv /\ QueueInv /\ WireInv /\ ChainsTyped /\ signedIn \in BOOLEAN
        /\ torn \in BOOLEAN /\ lost \in SUBSET Families /\ screen \in {"checking", "guest", "home"}
    BY DEF MobileInv, ClientTyped
  <1>2. C.reader.step \notin Changing
    BY <1>1 DEF ChainsTyped, Changing
  <1>3. chain' = C /\ QueueInv' /\ StoreInv' /\ signedIn' \in BOOLEAN
    <2>1. Moves(C, "main") /\ (chain.main.step \in StorageSteps => Served(C, "main"))
          /\ ~Pending("main")
      BY DEF Moves, Pending
    <2>2. QED
      BY <1>1, <1>2, <2>1, StartingMove, ChainNames
  <1>4. ChainsTyped'
    <2>1. /\ C.main.step # "joined" /\ C.main.step \notin {"read_again", "refreshing"}
          /\ C.main.step \notin {"read_access", "read_refresh", "joined"}
      OBVIOUS
    <2>2. QED
      BY <1>1, <1>3, <2>1, ChainNames DEF ChainsTyped
  <1>5. Kept("rotation")
    BY <1>3 DEF Kept
  <1>6. LoginStores \/ chain'.main.step \notin Writes \cup {"login"}
    BY <1>3 DEF LoginStores, Writes
  <1>7. WireInv'
    <2>1. access' \in Issued \cup {None}
      BY <1>1 DEF WireInv, StoredSound
    <2>2. QED
      BY <1>1, <1>5, <1>6, <2>1, ClientKeepsWire
  <1>8. QED
    BY <1>1, <1>3, <1>4, <1>7, ClientStep
-----------------------------------------------------------------------------
(* read() *)

\* Main, or the reader, alone moves to a record of a chain.
LEMMA OneMoves ==
  ASSUME ChainsTyped, NEW c \in Chains, NEW v \in ChainRecord
  PROVE  LET C == [chain EXCEPT ![c] = v] IN
         /\ C \in [Chains -> ChainRecord] /\ C[c] = v
         /\ \A d \in Chains \ {c} : C[d] = chain[d]
  BY DEF ChainsTyped

\* The steps after which the chains are typed if main, or the reader, takes one.
LEMMA OneTyped ==
  ASSUME ChainsTyped, NEW c \in {"main", "reader"}, NEW v \in ChainRecord,
         chain' = [chain EXCEPT ![c] = v],
         c = "reader" => /\ v.step \in {"idle", "read_access", "read_refresh", "joined"}
                         /\ v.step # "idle" => v.goal = "request",
         c = "main" => /\ v.step \notin {"read_again", "refreshing"}
                       /\ v.step \in {"read_access", "read_refresh", "joined"} =>
                            v.goal \in {"restore", "logout_all"},
         v.step = "joined" => chain.rotation.step # "idle"
  PROVE  ChainsTyped'
  <1>1. /\ chain' \in [Chains -> ChainRecord] /\ chain'[c] = v
        /\ \A d \in Chains \ {c} : chain'[d] = chain[d]
    BY OneMoves, ChainNames
  <1>2. chain'.rotation = chain.rotation
        /\ (c = "reader" => chain'.main = chain.main /\ chain'.reader = v)
        /\ (c = "main" => chain'.reader = chain.reader /\ chain'.main = v)
    BY <1>1, ChainNames
  <1>3. (\E d \in Chains : chain'[d].step = "joined") => chain'.rotation.step # "idle"
    BY <1>1, <1>2 DEF ChainsTyped
  <1>4. CASE c = "reader"
    BY <1>1, <1>2, <1>3, <1>4 DEF ChainsTyped
  <1>5. CASE c = "main"
    BY <1>1, <1>2, <1>3, <1>5 DEF ChainsTyped
  <1>6. QED
    BY <1>4, <1>5

LEMMA ReadKeeps ==
  ASSUME MobileInv, NEW c \in {"main", "reader"}, NEW goal \in {"request", "restore", "logout_all"},
         c = "reader" <=> goal = "request", Read(c, goal)
  PROVE  MobileInv'
  <1> DEFINE v == [chain[c] EXCEPT !.step = "read_access", !.goal = goal]
             C == [chain EXCEPT ![c] = v]
  <1>1. /\ ChainsTyped /\ QueueInv /\ screen \in {"checking", "guest", "home"} /\ c \in Chains
        /\ chain[c] \in ChainRecord /\ chain[c].step = "idle"
    BY ChainNames DEF MobileInv, ClientTyped, ChainsTyped, Read, Nothing
  <1>2. v \in ChainRecord /\ v.step = "read_access" /\ v.goal = goal
    BY <1>1 DEF ChainRecord, StorageSteps
  <1>3. Continue(C, queue) /\ UNCHANGED <<vars, storage, screen, history>>
    BY DEF Read
  <1> HIDE DEF v
  <1>4. /\ C \in [Chains -> ChainRecord] /\ C[c] = v
        /\ \A d \in Chains \ {c} : C[d] = chain[d]
    BY <1>1, <1>2, OneMoves
  <1>5. chain' = C => ChainsTyped'
    BY <1>1, <1>2, OneTyped
  <1> HIDE DEF C
  <1>6. Moves(C, c)
    BY <1>1, <1>3, <1>4 DEF Moves, Steps, Stays, StorageSteps
  <1>7. QED
    BY <1>1, <1>2, <1>3, <1>4, <1>5, <1>6, QuietClient, NotConnected
    DEF storage, history, Changing

LEMMA AccessReadKeeps ==
  ASSUME MobileInv, NEW c \in {"main", "reader"}, AccessRead(c)
  PROVE  MobileInv'
  <1>1. PICK b \in BOOLEAN : b <=> access # None
    OBVIOUS
  <1> DEFINE v == [chain[c] EXCEPT !.step = "read_refresh", !.saw = b]
             C == [chain EXCEPT ![c] = v]
  <1>2. /\ ChainsTyped /\ QueueInv /\ screen \in {"checking", "guest", "home"} /\ c \in Chains
        /\ chain[c] \in ChainRecord /\ chain[c].step = "read_access"
        /\ queue # <<>> /\ Head(queue) = c
    BY ChainNames DEF MobileInv, ClientTyped, ChainsTyped, AccessRead, Done
  <1>3. v \in ChainRecord /\ v.step = "read_refresh" /\ v.goal = chain[c].goal
    BY <1>2 DEF ChainRecord, StorageSteps
  <1>4. Continue(C, Tail(queue)) /\ UNCHANGED <<vars, storage, screen, history>>
    <2>1. b = (access # None)
      BY <1>1
    <2>2. QED
      BY <2>1 DEF AccessRead
  <1> HIDE DEF v
  <1>5. /\ C \in [Chains -> ChainRecord] /\ C[c] = v
        /\ \A d \in Chains \ {c} : C[d] = chain[d]
    BY <1>2, <1>3, OneMoves
  <1>6. chain' = C => ChainsTyped'
    <2>1. c = "reader" => v.goal = "request"
      BY <1>2, <1>3 DEF ChainsTyped
    <2>2. c = "main" => v.goal \in {"restore", "logout_all"}
      BY <1>2, <1>3 DEF ChainsTyped
    <2>3. QED
      BY <1>2, <1>3, <2>1, <2>2, OneTyped
  <1> HIDE DEF C
  <1>7. Moves(C, c)
    BY <1>2, <1>4, <1>5 DEF Moves, Served, Stays
  <1>8. QED
    BY <1>2, <1>3, <1>4, <1>5, <1>6, <1>7, QuietClient, NotConnected
    DEF storage, history, Changing

\* Main begins to clear: from a step of its own, or as its read is done.
LEMMA ClearsClient ==
  ASSUME MobileInv, NEW D \in [Chains -> ChainRecord],
         \A d \in Chains \ {"main"} : D[d] = chain[d],
         \/ Continue(Clear(D, "main"), queue) /\ chain.main.step \notin StorageSteps
         \/ /\ Continue(Clear(D, "main"), Tail(queue)) /\ queue # <<>> /\ Head(queue) = "main"
            /\ chain.main.step \notin Changing,
         UNCHANGED rows, UNCHANGED tx \/ SessionInv', Connections,
         UNCHANGED <<storage, screen, history>>
  PROVE  MobileInv'
  <1> DEFINE C == Clear(D, "main")
  <1>1. /\ C \in [Chains -> ChainRecord] /\ C.main.step = "delete_access"
        /\ C.reader = D.reader /\ C.rotation.step = D.rotation.step
        /\ C.rotation.token = D.rotation.token /\ C.rotation.request = D.rotation.request
        /\ C.rotation.stale = (D.rotation.step # "idle")
    BY ClearChains, ChainNames
  <1>2. D.reader = chain.reader /\ D.rotation = chain.rotation
    BY ChainNames
  <1>3. \/ Continue(C, queue) /\ chain.main.step \notin StorageSteps
        \/ /\ Continue(C, Tail(queue)) /\ queue # <<>> /\ Head(queue) = "main"
           /\ chain.main.step \notin Changing
    OBVIOUS
  <1> HIDE DEF C
  <1>4. (Steps(C) /\ chain.main.step \notin StorageSteps) \/ Served(C, "main")
    <2>1. \A c \in Chains \ {"main"} : Stays(C, c)
      BY <1>1, <1>2, ChainNames DEF Stays
    <2>2. chain.main.step \notin StorageSteps => Stays(C, "main")
      BY DEF Stays
    <2>3. QED
      BY <1>3, <2>1, <2>2 DEF Steps, Served
  <1>5. chain.main.step \notin Changing
    BY <1>3 DEF StorageSteps, Changing
  <1>6. QED
    BY <1>1, <1>2, <1>4, <1>5, StartingClient DEF storage, history

LEMMA TokenReadKeeps ==
  ASSUME MobileInv, NEW c \in {"main", "reader"}, TokenRead(c)
  PROVE  MobileInv'
  <1> DEFINE given == chain[c].saw
             A == AfterRead(chain, c, given)
  <1>1. /\ ChainsTyped /\ QueueInv /\ screen \in {"checking", "guest", "home"} /\ c \in Chains
        /\ chain[c] \in ChainRecord /\ chain[c].step = "read_refresh"
        /\ queue # <<>> /\ Head(queue) = c /\ given \in BOOLEAN
    BY ChainNames DEF MobileInv, ClientTyped, ChainsTyped, TokenRead, Done, ChainRecord
  <1>2. Continue(A, Tail(queue)) /\ UNCHANGED <<vars, storage, screen, history>>
    BY DEF TokenRead
  <1>3. ASSUME NEW v \in ChainRecord, A = [chain EXCEPT ![c] = v],
               v.step \in {"idle", "guest", "ask_me", "ask_logout_all"},
               c = "reader" => v.step = "idle"
        PROVE  MobileInv'
    <2> DEFINE C == [chain EXCEPT ![c] = v]
    <2>1. /\ C \in [Chains -> ChainRecord] /\ C[c] = v
          /\ \A d \in Chains \ {c} : C[d] = chain[d]
      BY <1>1, <1>3, OneMoves
    <2>2. chain' = C => ChainsTyped'
      BY <1>1, <1>3, OneTyped
    <2>3. Continue(C, Tail(queue))
      BY <1>2, <1>3
    <2> HIDE DEF C
    <2>4. Moves(C, c)
      BY <1>1, <2>1, <2>3 DEF Moves, Served, Stays
    <2>5. QED
      BY <1>1, <1>2, <1>3, <2>1, <2>2, <2>4, QuietClient, NotConnected
      DEF storage, history, Changing
  <1>4. ASSUME NEW step \in {"guest", "ask_me", "ask_logout_all"}, c = "main",
               A = [chain EXCEPT ![c].step = step]
        PROVE  MobileInv'
    <2> DEFINE v == [chain[c] EXCEPT !.step = step]
    <2>1. v \in ChainRecord /\ v.step = step
      BY <1>1 DEF ChainRecord
    <2>2. A = [chain EXCEPT ![c] = v]
      BY <1>4
    <2> HIDE DEF v, A
    <2>3. QED
      BY <1>3, <1>4, <2>1, <2>2
  <1>5. CASE c = "reader"
    <2>1. chain[c].goal = "request"
      BY <1>1, <1>5 DEF ChainsTyped
    <2>2. A = [chain EXCEPT ![c] = Nothing]
      BY <2>1 DEF AfterRead
    <2> HIDE DEF A
    <2>3. QED
      BY <1>3, <1>5, <2>2, NothingTyped
  <1>6. CASE c = "main"
    <2>1. chain[c].goal \in {"restore", "logout_all"}
      BY <1>1, <1>6 DEF ChainsTyped
    <2>2. \/ \E step \in {"guest", "ask_me", "ask_logout_all"} : A = [chain EXCEPT ![c].step = step]
          \/ A = Clear(chain, c)
      BY <1>1, <2>1 DEF AfterRead
    <2> HIDE DEF A
    <2>3. CASE A = Clear(chain, c)
      <3>1. Continue(Clear(chain, "main"), Tail(queue)) /\ chain["main"].step \notin Changing
        BY <1>1, <1>2, <1>6, <2>3 DEF Changing
      <3>2. chain \in [Chains -> ChainRecord]
        BY <1>1 DEF ChainsTyped
      <3>3. QED
        BY <1>1, <1>2, <1>6, <3>1, <3>2, ClearsClient, NotConnected
    <2>4. QED
      BY <1>4, <1>6, <2>2, <2>3
  <1>7. QED
    BY <1>5, <1>6
-----------------------------------------------------------------------------
(* _rotate and _performRotation *)

LEMMA JoinKeeps ==
  ASSUME MobileInv, NEW c \in {"main", "reader"}, Done(c, "read_refresh"),
         chain.rotation.step # "idle",
         Continue([chain EXCEPT ![c].step = "joined"], Tail(queue)),
         UNCHANGED <<vars, storage, screen, history>>
  PROVE  MobileInv'
  <1> DEFINE v == [chain[c] EXCEPT !.step = "joined"]
             C == [chain EXCEPT ![c] = v]
  <1>1. /\ ChainsTyped /\ QueueInv /\ screen \in {"checking", "guest", "home"} /\ c \in Chains
        /\ chain[c] \in ChainRecord /\ chain[c].step = "read_refresh"
        /\ queue # <<>> /\ Head(queue) = c
    BY ChainNames DEF MobileInv, ClientTyped, ChainsTyped, Done
  <1>2. v \in ChainRecord /\ v.step = "joined" /\ v.goal = chain[c].goal
    BY <1>1 DEF ChainRecord
  <1>3. Continue(C, Tail(queue))
    OBVIOUS
  <1> HIDE DEF v
  <1>4. /\ C \in [Chains -> ChainRecord] /\ C[c] = v
        /\ \A d \in Chains \ {c} : C[d] = chain[d]
    BY <1>1, <1>2, OneMoves
  <1>5. chain' = C => ChainsTyped'
    <2>1. c = "reader" => v.goal = "request"
      BY <1>1, <1>2 DEF ChainsTyped
    <2>2. c = "main" => v.goal \in {"restore", "logout_all"}
      BY <1>1, <1>2 DEF ChainsTyped
    <2>3. QED
      BY <1>1, <1>2, <2>1, <2>2, OneTyped
  <1> HIDE DEF C
  <1>6. Moves(C, c)
    BY <1>1, <1>3, <1>4 DEF Moves, Served, Stays
  <1>7. QED
    BY <1>1, <1>2, <1>4, <1>5, <1>6, QuietClient, NotConnected
    DEF storage, history, Changing

\* A rotation starts: if main is not changing the storage, one is signed in.
LEMMA RotateKeeps ==
  ASSUME MobileInv, NEW c \in {"main", "reader"}, NEW r \in Requests, Done(c, "read_refresh"),
         refresh # None, chain.rotation.step = "idle", Connect(r, "refresh", refresh),
         Continue([[chain EXCEPT ![c].step = "joined"] EXCEPT !.rotation =
                     [Nothing EXCEPT !.step = "refreshing", !.token = refresh,
                                     !.saw = chain[c].saw, !.request = r]], Tail(queue)),
         torn' = (torn \/ chain.main.step \in Changing),
         UNCHANGED <<rows, storage, screen, lost>>
  PROVE  MobileInv'
  <1> DEFINE v == [chain[c] EXCEPT !.step = "joined"]
             w == [Nothing EXCEPT !.step = "refreshing", !.token = refresh,
                                  !.saw = chain[c].saw, !.request = r]
             C == [[chain EXCEPT ![c] = v] EXCEPT !["rotation"] = w]
  <1>1. /\ ChainsTyped /\ QueueInv /\ StoreInv /\ WireInv
        /\ screen \in {"checking", "guest", "home"} /\ c \in Chains
        /\ chain[c] \in ChainRecord /\ chain[c].step = "read_refresh"
        /\ queue # <<>> /\ Head(queue) = c
        /\ signedIn \in BOOLEAN /\ torn \in BOOLEAN /\ lost \in SUBSET Families
    BY ChainNames DEF MobileInv, ClientTyped, ChainsTyped, Done
  <1>2. refresh \in Issued /\ refresh \in Tokens
    BY <1>1 DEF WireInv, StoredSound, Issued
  <1>3. v \in ChainRecord /\ v.step = "joined" /\ v.goal = chain[c].goal
    BY <1>1 DEF ChainRecord
  <1>4. w \in ChainRecord /\ w.step = "refreshing" /\ w.token = refresh /\ w.request = r
    BY <1>1, <1>2 DEF ChainRecord, Nothing
  <1>5. Continue(C, Tail(queue))
    OBVIOUS
  <1> HIDE DEF v, w
  <1>6. /\ C \in [Chains -> ChainRecord] /\ C[c] = v /\ C["rotation"] = w
        /\ \A d \in Chains \ {c, "rotation"} : C[d] = chain[d]
    BY <1>1, <1>3, <1>4, ChainNames DEF ChainsTyped
  <1> HIDE DEF C
  <1>7. Moves(C, c)
    <2>1. \A d \in Chains \ {c} : Stays(C, d)
      BY <1>1, <1>6 DEF Stays, StorageSteps
    <2>2. QED
      BY <1>1, <1>5, <2>1 DEF Moves, Served
  <1>8. ~torn' => ~Pending("main") /\ signedIn
    <2>1. ~torn' => ~torn /\ ~Pending("main")
      BY DEF Pending
    <2>2. ~Pending("rotation")
      BY DEF Pending, Changing
    <2>3. QED
      BY <1>1, <2>1, <2>2 DEF StoreInv, WholeUnlessTorn
  <1>9. chain' = C /\ QueueInv' /\ StoreInv' /\ signedIn' = signedIn
    <2>1. \A d \in {"main", "rotation"} :
            \/ /\ C[d].step = chain[d].step /\ C[d].token = chain[d].token
               /\ C[d].request = chain[d].request
            \/ chain[d].step \notin Changing /\ C[d].step \notin Changing
      BY <1>1, <1>3, <1>4, <1>6, ChainNames DEF Changing
    <2>2. C.reader.step \notin Changing /\ chain[c].step \notin Changing
      BY <1>1, <1>3, <1>6, ChainNames DEF Changing, ChainsTyped
    <2>3. access' = access /\ refresh' = refresh /\ (torn => torn')
      BY DEF storage
    <2>4. QED
      BY <1>1, <1>6, <1>7, <1>8, <2>1, <2>2, <2>3, QuietMove
  <1>10. ChainsTyped'
    <2>1. c = "reader" => v.goal = "request"
      BY <1>1, <1>3 DEF ChainsTyped
    <2>2. c = "main" => v.goal \in {"restore", "logout_all"}
      BY <1>1, <1>3 DEF ChainsTyped
    <2>3. CASE c = "reader"
      BY <1>1, <1>3, <1>4, <1>6, <1>9, <2>1, <2>3, ChainNames DEF ChainsTyped
    <2>4. CASE c = "main"
      BY <1>1, <1>3, <1>4, <1>6, <1>9, <2>2, <2>4, ChainNames DEF ChainsTyped
    <2>5. QED
      BY <2>3, <2>4
  <1>11. /\ SessionInv' /\ ~Waiting(r)
         /\ tx'[r].step = "sent" /\ tx'[r].call = "refresh" /\ tx'[r].token = refresh
         /\ \A x \in Requests : x # r => tx'[x] = tx[x]
    BY <1>2, Connected
  <1>12. WireInv'
    <2>1. Kept("main") \/ chain'.main.step \notin Writes \cup {"login"}
      BY <1>3, <1>6, <1>9, ChainNames DEF Kept, Writes
    <2>2. UNCHANGED rows /\ lost' = lost /\ access' = access /\ refresh' = refresh
      BY DEF storage
    <2>3. chain'.rotation.step = "refreshing" /\ chain'.rotation.token = refresh
          /\ chain'.rotation.request = r
      BY <1>4, <1>6, <1>9
    <2>4. QED
      BY <1>1, <1>11, <2>1, <2>2, <2>3, RotationSent
  <1>13. torn' \in BOOLEAN /\ lost' \in SUBSET Families /\ screen' \in {"checking", "guest", "home"}
    BY <1>1
  <1>14. QED
    BY <1>1, <1>9, <1>10, <1>11, <1>12, <1>13, ClientStep

LEMMA NeedsRotationKeeps ==
  ASSUME MobileInv, NEW c \in {"main", "reader"}, NEW r \in Requests, NeedsRotation(c, r)
  PROVE  MobileInv'
  <1>1. CASE InFlight
    <2>1. /\ Done(c, "read_refresh") /\ chain.rotation.step # "idle"
          /\ Continue([chain EXCEPT ![c].step = "joined"], Tail(queue))
          /\ UNCHANGED <<vars, storage, screen, history>>
      BY <1>1 DEF NeedsRotation, InFlight, history
    <2>2. QED
      BY <2>1, JoinKeeps
  <1>2. CASE ~InFlight
    BY <1>2, RotateKeeps DEF NeedsRotation, InFlight
  <1>3. QED
    BY <1>1, <1>2

\* A rotation that is over without an answer to store: it takes those that
\* joined it along.
LEMMA GivesUpKeeps ==
  ASSUME MobileInv, NEW given \in BOOLEAN,
         \/ Continue(Completed(given), queue) /\ chain.rotation.step = "refreshing"
         \/ /\ Continue(Completed(given), Tail(queue)) /\ queue # <<>> /\ Head(queue) = "rotation"
            /\ chain.rotation.step = "read_again",
         UNCHANGED rows, UNCHANGED tx \/ SessionInv', Connections,
         chain.rotation.step = "refreshing" =>
           /\ Ends(chain.rotation.token)
           /\ Forgotten(chain.rotation.token, chain.rotation.request),
         lost \subseteq lost', lost' \in SUBSET Families, UNCHANGED <<storage, screen, torn>>
  PROVE  MobileInv'
  <1>1. /\ ChainsTyped /\ QueueInv /\ StoreInv /\ WireInv /\ signedIn \in BOOLEAN
        /\ screen \in {"checking", "guest", "home"} /\ torn \in BOOLEAN
    BY DEF MobileInv, ClientTyped
  <1>2. access' = access /\ refresh' = refresh /\ torn' = torn /\ screen' = screen
    BY DEF storage
  <1>3. /\ ChainsTyped' /\ QueueInv' /\ StoreInv' /\ signedIn' \in BOOLEAN
        /\ chain'.rotation.step = "idle" /\ (Kept("main") \/ chain'.main.step \in AfterSteps)
    BY <1>1, <1>2, RotationGivesUp
  <1>4. RotationOver
    BY <1>3 DEF RotationOver, Writes
  <1>5. Kept("main") \/ chain'.main.step \notin Writes \cup {"login"}
    BY <1>3 DEF AfterSteps, Writes
  <1>6. WireInv'
    <2>1. access' \in Issued \cup {None}
      BY <1>1, <1>2 DEF WireInv, StoredSound
    <2>2. QED
      BY <1>1, <1>2, <1>4, <1>5, <2>1, ClientKeepsWire
  <1>7. QED
    BY <1>1, <1>2, <1>3, <1>6, ClientStep

LEMMA RotationFailsKeeps ==
  ASSUME MobileInv, RotationFails
  PROVE  MobileInv'
  <1> DEFINE t == chain.rotation.token
  <1>1. t \in Issued /\ chain.rotation.step = "refreshing"
    BY DEF MobileInv, WireInv, RotationSound, RotationFails
  <1>2. family[t] \in Families
    BY <1>1, SessionFields DEF MobileInv
  <1>3. lost' = lost \cup {family[t]} /\ lost \in SUBSET Families
    BY DEF RotationFails, MobileInv, ClientTyped
  <1>4. chain.rotation.saw \in BOOLEAN
    BY ChainNames DEF MobileInv, ClientTyped, ChainsTyped, ChainRecord
  <1>5. Ends(t) /\ Forgotten(t, chain.rotation.request)
    BY <1>3 DEF Ends, Forgotten
  <1>6. /\ Continue(Completed(chain.rotation.saw), queue)
        /\ UNCHANGED <<vars, storage, screen, torn>>
    BY DEF RotationFails
  <1>7. UNCHANGED rows /\ UNCHANGED tx /\ Connections /\ UNCHANGED <<storage, screen, torn>>
    BY <1>6, NotConnected
  <1> HIDE DEF t
  <1>8. QED
    BY <1>1, <1>2, <1>3, <1>4, <1>5, <1>6, <1>7, GivesUpKeeps DEF t

LEMMA AccessReadAgainKeeps ==
  ASSUME MobileInv, AccessReadAgain
  PROVE  MobileInv'
  <1>1. PICK b \in BOOLEAN : b <=> access # None
    OBVIOUS
  <1>2. Continue(Completed(b), Tail(queue))
    <2>1. b = (access # None)
      BY <1>1
    <2>2. QED
      BY <2>1 DEF AccessReadAgain
  <1>3. /\ queue # <<>> /\ Head(queue) = "rotation" /\ chain.rotation.step = "read_again"
        /\ UNCHANGED <<vars, storage, screen, history>>
    BY DEF AccessReadAgain, Done
  <1>4. /\ UNCHANGED rows /\ UNCHANGED tx /\ Connections /\ UNCHANGED <<storage, screen, torn>>
        /\ lost' = lost /\ lost \in SUBSET Families
    BY <1>3, NotConnected DEF history, MobileInv, ClientTyped
  <1>5. QED
    BY <1>2, <1>3, <1>4, GivesUpKeeps

\* Only the rotation moves.
LEMMA RotationMoves ==
  ASSUME ChainsTyped, NEW C \in [Chains -> ChainRecord],
         \A d \in Chains \ {"rotation"} : C[d] = chain[d],
         C.rotation.step \in Changing \cup {"read_again"}, chain' = C
  PROVE  ChainsTyped' /\ Kept("main")
  <1>1. C.main = chain.main /\ C.reader = chain.reader /\ C.rotation.step # "idle"
    BY ChainNames DEF Changing
  <1>2. QED
    BY <1>1, ChainNames DEF ChainsTyped, Kept

\* The answer of a rotation that main has outdated is dropped: it is lost.
LEMMA OutdatedKeeps ==
  ASSUME MobileInv, NEW C \in [Chains -> ChainRecord],
         \A d \in Chains \ {"rotation"} : C[d] = chain[d],
         C.rotation.step = "read_again", chain.rotation.step = "refreshing", Continue(C, queue),
         UNCHANGED rows, SessionInv', Connections,
         Ends(chain.rotation.token), Forgotten(chain.rotation.token, chain.rotation.request),
         lost \subseteq lost', lost' \in SUBSET Families, UNCHANGED <<storage, screen, torn>>
  PROVE  MobileInv'
  <1>1. /\ ChainsTyped /\ QueueInv /\ StoreInv /\ WireInv /\ signedIn \in BOOLEAN
        /\ screen \in {"checking", "guest", "home"} /\ torn \in BOOLEAN
    BY DEF MobileInv, ClientTyped
  <1>2. access' = access /\ refresh' = refresh /\ torn' = torn /\ screen' = screen
    BY DEF storage
  <1>3. Moves(C, "rotation") /\ chain.rotation.step \notin Changing
    BY ChainNames DEF Moves, Steps, Stays, StorageSteps, Changing
  <1>4. C.main = chain.main /\ C.reader.step \notin Changing
    <2>1. C.reader = chain.reader /\ C.main = chain.main
      BY ChainNames
    <2>2. QED
      BY <1>1, <2>1 DEF ChainsTyped, Changing
  <1>5. chain' = C /\ QueueInv' /\ StoreInv' /\ signedIn' = signedIn
    <2>1. \A d \in {"main", "rotation"} :
            \/ /\ C[d].step = chain[d].step /\ C[d].token = chain[d].token
               /\ C[d].request = chain[d].request
            \/ chain[d].step \notin Changing /\ C[d].step \notin Changing
      BY <1>3, <1>4 DEF Changing
    <2>2. QED
      BY <1>1, <1>2, <1>3, <1>4, <2>1, QuietMove, ChainNames
  <1>6. ChainsTyped' /\ Kept("main")
    BY <1>1, <1>5, RotationMoves
  <1>7. RotationOver
    BY <1>5 DEF RotationOver, Writes
  <1>8. WireInv'
    <2>1. access' \in Issued \cup {None}
      BY <1>1, <1>2 DEF WireInv, StoredSound
    <2>2. QED
      BY <1>1, <1>2, <1>6, <1>7, <2>1, ClientKeepsWire
  <1>9. QED
    BY <1>1, <1>2, <1>5, <1>6, <1>8, ClientStep

\* One that is not outdated is stored, or the storage cleared.
LEMMA AnswerStoredKeeps ==
  ASSUME MobileInv, NEW C \in [Chains -> ChainRecord],
         \A d \in Chains \ {"rotation"} : C[d] = chain[d],
         C.rotation.step \in {"write_access", "delete_access"},
         chain.rotation.step = "refreshing", ~chain.rotation.stale, Continue(C, queue),
         UNCHANGED rows, SessionInv', Connections,
         Forgotten(chain.rotation.token, chain.rotation.request),
         C.rotation.step = "write_access" =>
           /\ C.rotation.token \in Issued /\ Usable(C.rotation.token)
           /\ family[C.rotation.token] = family[chain.rotation.token],
         C.rotation.step = "delete_access" => Ends(chain.rotation.token),
         lost' = lost, UNCHANGED <<storage, screen, torn>>
  PROVE  MobileInv'
  <1>1. /\ ChainsTyped /\ QueueInv /\ StoreInv /\ WireInv /\ signedIn \in BOOLEAN
        /\ screen \in {"checking", "guest", "home"} /\ torn \in BOOLEAN /\ lost \in SUBSET Families
    BY DEF MobileInv, ClientTyped
  <1>2. access' = access /\ refresh' = refresh /\ torn' = torn /\ screen' = screen
    BY DEF storage
  <1>3. C.main = chain.main /\ C.reader = chain.reader
    BY ChainNames
  <1>4. /\ chain' = C /\ QueueInv'
        /\ \A c, d \in Chains : /\ chain[c].step \in StorageSteps
                                /\ chain[d].step \notin StorageSteps /\ C[d].step \in StorageSteps
                                => Ahead(c, d)'
    <2>1. \A c \in Chains : Stays(C, c)
      BY ChainNames DEF Stays, StorageSteps
    <2>2. QED
      BY <1>1, <2>1, QueueStays
  <1>5. ChainsTyped' /\ Kept("main")
    <2>1. C.rotation.step \in Changing
      BY DEF Changing
    <2>2. QED
      BY <1>1, <1>4, <2>1, RotationMoves
  <1>6. /\ signedIn' \in BOOLEAN
        /\ signedIn' <=> signedIn /\ C.rotation.step # "delete_access"
    <2>1. C.reader.step # "delete_access"
      BY <1>1, <1>3 DEF ChainsTyped
    <2>2. QED
      BY <1>1, <1>3, <2>1, SignedIn, ChainNames
  <1>7. Pending("main") => Ahead("main", "rotation")'
    <2>1. "refreshing" \notin StorageSteps /\ C.rotation.step \in StorageSteps
      BY DEF StorageSteps
    <2>2. Pending("main") => chain["main"].step \in StorageSteps
      BY DEF Pending, Changing, StorageSteps
    <2>3. QED
      BY <1>4, <2>1, <2>2, ChainNames
  <1>8. StoreInv'
    <2>1. ~Pending("rotation")
      BY DEF Pending, Changing
    <2>2. PICK step \in {"write_access", "delete_access"} : chain'.rotation.step = step
      BY <1>4
    <2>3. signedIn' = (signedIn /\ step # "delete_access")
      BY <1>1, <1>4, <1>6, <2>2
    <2>4. QED
      BY <1>1, <1>2, <1>4, <1>5, <1>7, <2>1, <2>2, <2>3, RotationStarts
  <1>9. RotationStores \/ RotationOver
    BY <1>4 DEF RotationStores, RotationOver, Writes
  <1>10. WireInv'
    <2>1. access' \in Issued \cup {None}
      BY <1>1, <1>2 DEF WireInv, StoredSound
    <2>2. QED
      BY <1>1, <1>2, <1>5, <1>9, <2>1, ClientKeepsWire
  <1>11. QED
    BY <1>1, <1>2, <1>4, <1>5, <1>6, <1>8, <1>10, ClientStep

LEMMA RotationAnsweredKeeps ==
  ASSUME MobileInv, NEW r \in Requests, RotationAnswered(r)
  PROVE  MobileInv'
  <1> DEFINE new == tx[r].answer
             t == chain.rotation.token
             own == [chain EXCEPT !.rotation.request = None]
             u == [chain["rotation"] EXCEPT !.request = None]
             L == lost \cup (IF new # None /\ Outdated THEN {family[new]} ELSE {})
  <1>1. Answered("rotation", "refreshing", r)
    BY DEF RotationAnswered
  <1>2. /\ SessionInv' /\ UNCHANGED rows /\ Connections
        /\ chain.rotation.step = "refreshing" /\ chain.rotation.request = r
        /\ tx[r].step = "answered" /\ tx'[r].step = "idle"
    BY <1>1, Taken, ChainNames
  <1>3. /\ ChainsTyped /\ t \in Issued /\ RotationOn(t, r) /\ lost \in SUBSET Families
        /\ chain["rotation"] \in ChainRecord
    BY <1>2, ChainNames DEF MobileInv, ClientTyped, ChainsTyped, WireInv, RotationSound
  <1>4. /\ new = None => Ended(t)
        /\ new # None => family[new] = family[t] /\ Usable(new)
    BY <1>2, <1>3 DEF RotationOn
  <1>5. new \in Issued \cup {None}
    BY Fields DEF MobileInv, Sound
  <1>6. new # None => family[new] \in Families
    BY <1>5, SessionFields DEF MobileInv
  <1>7. Forgotten(t, r)
    BY <1>2 DEF Forgotten
  <1>8. lost' = L /\ UNCHANGED <<storage, screen, torn>>
    BY DEF RotationAnswered
  <1>9. lost \subseteq lost' /\ lost' \in SUBSET Families
    BY <1>3, <1>6, <1>8
  <1>10. /\ u \in ChainRecord /\ u.step = "refreshing" /\ u.token = t
         /\ u.saw = chain["rotation"].saw
    BY <1>2, <1>3 DEF ChainRecord
  <1>11. /\ own = [chain EXCEPT !["rotation"] = u]
         /\ own \in [Chains -> ChainRecord] /\ own["rotation"] = u
         /\ \A d \in Chains \ {"rotation"} : own[d] = chain[d]
    BY <1>3, <1>10, ChainNames DEF ChainsTyped
  <1>12. \/ /\ new # None /\ Outdated
            /\ Continue([own EXCEPT !.rotation.step = "read_again"], queue)
         \/ /\ new # None /\ ~Outdated
            /\ Continue([own EXCEPT !.rotation.step = "write_access", !.rotation.token = new], queue)
         \/ /\ new = None /\ ~Outdated
            /\ Continue(Clear(own, "rotation"), queue)
         \/ /\ new = None /\ Outdated
            /\ Continue(Completed(chain.rotation.saw), queue)
    BY DEF RotationAnswered
  <1> HIDE DEF new, own, u, L
  <1>13. CASE /\ new # None /\ Outdated
              /\ Continue([own EXCEPT !.rotation.step = "read_again"], queue)
    <2> DEFINE v == [u EXCEPT !.step = "read_again"]
               C == [own EXCEPT !["rotation"] = v]
    <2>1. v \in ChainRecord /\ v.step = "read_again"
      BY <1>10 DEF ChainRecord, StorageSteps
    <2>2. Continue(C, queue)
      BY <1>11, <1>13
    <2> HIDE DEF v
    <2>3. /\ C \in [Chains -> ChainRecord] /\ C["rotation"] = v
          /\ \A d \in Chains \ {"rotation"} : C[d] = chain[d]
      BY <1>11, <2>1, ChainNames
    <2> HIDE DEF C
    <2>4. Ends(t)
      BY <1>4, <1>8, <1>13 DEF Ends, L
    <2>5. QED
      BY <1>2, <1>7, <1>8, <1>9, <2>1, <2>2, <2>3, <2>4, OutdatedKeeps
  <1>14. CASE /\ new # None /\ ~Outdated
              /\ Continue([own EXCEPT !.rotation.step = "write_access", !.rotation.token = new], queue)
    <2> DEFINE v == [u EXCEPT !.step = "write_access", !.token = new]
               C == [own EXCEPT !["rotation"] = v]
    <2>1. new \in Tokens
      BY <1>5, <1>14 DEF Issued
    <2>2. v \in ChainRecord /\ v.step = "write_access" /\ v.token = new
      BY <1>10, <2>1 DEF ChainRecord, StorageSteps
    <2>3. Continue(C, queue)
      BY <1>11, <1>14
    <2> HIDE DEF v
    <2>4. /\ C \in [Chains -> ChainRecord] /\ C["rotation"] = v
          /\ \A d \in Chains \ {"rotation"} : C[d] = chain[d]
      BY <1>11, <2>2, ChainNames
    <2> HIDE DEF C
    <2>5. lost' = lost /\ ~chain.rotation.stale
      BY <1>8, <1>14 DEF L, Outdated
    <2>6. QED
      BY <1>2, <1>4, <1>5, <1>7, <1>8, <1>14, <2>2, <2>3, <2>4, <2>5, AnswerStoredKeeps
  <1>15. CASE new = None /\ ~Outdated /\ Continue(Clear(own, "rotation"), queue)
    <2> DEFINE C == Clear(own, "rotation")
    <2>1. /\ C \in [Chains -> ChainRecord] /\ C["rotation"].step = "delete_access"
          /\ \A d \in Chains \ {"rotation"} : C[d] = chain[d]
      <3>1. /\ C \in [Chains -> ChainRecord] /\ C["rotation"].step = "delete_access"
            /\ \A d \in Chains : d \notin {"rotation", "rotation"} => C[d] = own[d]
        BY <1>11, ClearChains, ChainNames
      <3> HIDE DEF C
      <3>2. QED
        BY <1>11, <3>1
    <2>2. Continue(C, queue)
      BY <1>15
    <2> HIDE DEF C
    <2>3. lost' = lost /\ ~chain.rotation.stale
      BY <1>8, <1>15 DEF L, Outdated
    <2>4. Ends(t)
      BY <1>4, <1>15, <2>3 DEF Ends, Ended
    <2>5. QED
      BY <1>2, <1>7, <1>8, <2>1, <2>2, <2>3, <2>4, AnswerStoredKeeps
  <1>16. CASE new = None /\ Outdated /\ Continue(Completed(chain.rotation.saw), queue)
    <2>1. chain.rotation.saw \in BOOLEAN
      BY <1>3, ChainNames DEF ChainRecord
    <2>2. Ends(t)
      BY <1>4, <1>9, <1>16 DEF Ends, Ended
    <2>3. QED
      BY <1>2, <1>7, <1>8, <1>9, <1>16, <2>1, <2>2, GivesUpKeeps
  <1>17. QED
    BY <1>12, <1>13, <1>14, <1>15, <1>16
-----------------------------------------------------------------------------
(* The writes and the deletions of main and of the rotation *)

\* The tokens that are being written exist.
LEMMA Written ==
  ASSUME MobileInv
  PROVE  /\ WritesTokens /\ None \notin Tokens
         /\ \A c \in {"main", "rotation"} : chain[c].step \in Writes => chain[c].token \in Issued
  <1>1. \A c \in {"main", "rotation"} : chain[c].step \in Writes => chain[c].token \in Issued
    BY DEF MobileInv, WireInv, RotationSound, LoginSound, NewSession
  <1>2. QED
    BY <1>1, SessionFields DEF MobileInv, WritesTokens

\* The access key is written or deleted.
LEMMA AccessKeeps ==
  ASSUME MobileInv, NEW c \in {"main", "rotation"}, NEW step \in {"write_refresh", "delete_refresh"},
         chain[c].step = (IF step = "write_refresh" THEN "write_access" ELSE "delete_access"),
         queue # <<>>, Head(queue) = c,
         Continue([chain EXCEPT ![c].step = step], Tail(queue)),
         access' = Value(c), UNCHANGED <<vars, refresh, screen, history>>
  PROVE  MobileInv'
  <1> DEFINE v == [chain[c] EXCEPT !.step = step]
             C == [chain EXCEPT ![c] = v]
  <1>1. /\ ChainsTyped /\ QueueInv /\ StoreInv /\ WireInv /\ signedIn \in BOOLEAN
        /\ screen \in {"checking", "guest", "home"} /\ torn \in BOOLEAN /\ lost \in SUBSET Families
        /\ c \in Chains /\ chain[c] \in ChainRecord
    BY ChainNames DEF MobileInv, ClientTyped, ChainsTyped
  <1>2. /\ v \in ChainRecord /\ v.step = step /\ v.token = chain[c].token
        /\ v.stale = chain[c].stale
    BY <1>1 DEF ChainRecord, StorageSteps
  <1>3. Continue(C, Tail(queue))
    OBVIOUS
  <1> HIDE DEF v
  <1>4. /\ C \in [Chains -> ChainRecord] /\ C[c] = v
        /\ \A d \in Chains \ {c} : C[d] = chain[d]
    BY <1>1, <1>2, OneMoves
  <1> HIDE DEF C
  <1>5. \A d \in Chains \ {c} : Stays(C, d)
    BY <1>4 DEF Stays
  <1>6. /\ chain' = C /\ QueueInv'
        /\ \A d \in Chains \ {c} : chain[d].step \in StorageSteps =>
                                     Ahead(c, d) /\ Ahead(d, c)'
    <2>1. C[c].step \in StorageSteps
      BY <1>2, <1>4 DEF StorageSteps
    <2>2. QED
      BY <1>1, <1>3, <1>4, <1>5, <2>1, QueueServes
  <1>7. PICK d \in {"main", "rotation"} : d # c /\ <<c, d>> \in Pair
    BY DEF Pair
  <1>8. d \in Chains \ {c} /\ C[d] = chain[d] /\ C.reader = chain.reader
    BY <1>4, <1>7, ChainNames
  <1>9. Kept(d)
    BY <1>6, <1>8 DEF Kept
  <1>10. ChainsTyped'
    <2>1. C[c].step \notin {"idle", "joined", "refreshing", "read_again", "read_access", "read_refresh"}
          /\ C[c].step \in Changing
      BY <1>2, <1>4 DEF Changing
    <2>2. \A x \in Chains : x = c \/ x = d \/ x = "reader"
      BY <1>7, ChainNames
    <2>3. chain[c].step \notin {"idle", "joined", "refreshing"}
      OBVIOUS
    <2>4. CASE c = "main"
      BY <1>1, <1>4, <1>6, <1>7, <1>8, <2>1, <2>2, <2>4, ChainNames DEF ChainsTyped
    <2>5. CASE c = "rotation"
      BY <1>1, <1>4, <1>6, <1>7, <1>8, <2>1, <2>2, <2>5, ChainNames DEF ChainsTyped
    <2>6. QED
      BY <2>4, <2>5
  <1>11. signedIn' = signedIn
    <2>1. \A x \in Chains : C[x].step \in {"write_access", "delete_access"} =>
                              C[x].step = chain[x].step
      BY <1>2, <1>4
    <2>2. signedIn' \in BOOLEAN /\ (signedIn' <=> signedIn)
      BY <1>1, <1>3, <2>1, SignedIn, ChainNames
    <2>3. QED
      BY <1>1, <2>2
  <1>12. StoreInv'
    <2> DEFINE p == <<c, d>>
    <2>1. /\ p \in Pair /\ p[1] = c /\ p[2] = d
      BY <1>7
    <2>2. ~Half(c) /\ Pending(c) /\ chain'[c].token = chain[c].token
          /\ \/ chain[c].step = "write_access" /\ chain'[c].step = "write_refresh"
             \/ chain[c].step = "delete_access" /\ chain'[c].step = "delete_refresh"
      BY <1>2, <1>4, <1>6 DEF Half, Pending, Changing
    <2>3. Pending(d) => Ahead(c, d) /\ Ahead(d, c)'
      BY <1>6, <1>8 DEF Pending, Changing, StorageSteps
    <2>4. chain'.rotation.stale = chain.rotation.stale
      BY <1>2, <1>4, <1>6, <1>7, <1>8
    <2>5. refresh' = refresh /\ torn' = torn
      BY DEF history
    <2> HIDE DEF p
    <2>6. QED
      BY <1>1, <1>6, <1>9, <1>11, <2>1, <2>2, <2>3, <2>4, <2>5, HalfDone
  <1>13. WireInv'
    <2>1. access' \in Issued \cup {None}
      BY Written DEF Value
    <2>2. UNCHANGED rows /\ Connections /\ lost' = lost /\ refresh' = refresh
      BY NotConnected DEF history
    <2>3. chain'[c].step = step /\ chain'[c].token = chain[c].token
      BY <1>2, <1>4, <1>6
    <2>4. step = "write_refresh" => Writing(c)
      BY <2>3 DEF Writing, Writes
    <2>5. step = "delete_refresh" =>
            chain'[c].step \notin Writes \cup {"login", "refreshing"}
            /\ chain[c].step \notin Writes \cup {"refreshing"}
      BY <2>3 DEF Writes
    <2>6. CASE c = "main"
      <3>1. d = "rotation"
        BY <1>7, <2>6
      <3>2. Kept("rotation") /\ (Writing("main") \/ chain'.main.step \notin Writes \cup {"login"})
        BY <1>9, <2>4, <2>5, <2>6, <3>1
      <3>3. QED
        BY <1>1, <2>1, <2>2, <3>2, ClientKeepsWire
    <2>7. CASE c = "rotation"
      <3>1. d = "main"
        BY <1>7, <2>7
      <3>2. Kept("main") /\ (Writing("rotation") \/ RotationOver)
        BY <1>9, <2>4, <2>5, <2>7, <3>1 DEF RotationOver
      <3>3. QED
        BY <1>1, <2>1, <2>2, <3>2, ClientKeepsWire
    <2>8. QED
      BY <2>6, <2>7
  <1>14. UNCHANGED rows /\ UNCHANGED tx /\ screen' = screen /\ torn' = torn /\ lost' = lost
    BY NotConnected DEF history
  <1>15. QED
    BY <1>1, <1>6, <1>10, <1>11, <1>12, <1>13, <1>14, ClientStep

\* The refresh key is written or deleted, by main.
LEMMA MainDoneKeeps ==
  ASSUME MobileInv, chain.main.step \in {"write_refresh", "delete_refresh"},
         queue # <<>>, Head(queue) = "main",
         Continue([chain EXCEPT !["main"] = Nothing], Tail(queue)),
         refresh' = Value("main"), screen' \in {"home", "guest"}, torn' = (torn /\ InFlight),
         UNCHANGED <<vars, access, lost>>
  PROVE  MobileInv'
  <1> DEFINE C == [chain EXCEPT !["main"] = Nothing]
  <1>1. /\ ChainsTyped /\ QueueInv /\ StoreInv /\ WireInv /\ signedIn \in BOOLEAN
        /\ torn \in BOOLEAN /\ lost \in SUBSET Families
    BY DEF MobileInv, ClientTyped
  <1>2. Continue(C, Tail(queue))
    OBVIOUS
  <1>3. /\ C \in [Chains -> ChainRecord] /\ C["main"] = Nothing
        /\ \A d \in Chains \ {"main"} : C[d] = chain[d]
    BY <1>1, NothingTyped, OneMoves, ChainNames
  <1>4. chain' = C => ChainsTyped'
    BY <1>1, NothingTyped, OneTyped
  <1> HIDE DEF C
  <1>5. /\ chain' = C /\ QueueInv'
        /\ \A d \in Chains \ {"main"} : chain[d].step \in StorageSteps => Ahead("main", d)
    <2>1. \A d \in Chains \ {"main"} : Stays(C, d)
      BY <1>3 DEF Stays
    <2>2. QED
      BY <1>1, <1>2, <1>3, <2>1, QueueServes, ChainNames
  <1>6. Kept("rotation") /\ chain'.rotation.stale = chain.rotation.stale
        /\ chain'.main.step = "idle"
    BY <1>3, <1>5, NothingTyped, ChainNames DEF Kept
  <1>7. signedIn' = signedIn
    <2>1. \A x \in Chains : C[x].step \in {"write_access", "delete_access"} =>
                              C[x].step = chain[x].step
      BY <1>3, NothingTyped
    <2>2. signedIn' \in BOOLEAN /\ (signedIn' <=> signedIn)
      BY <1>1, <1>2, <2>1, SignedIn, ChainNames
    <2>3. QED
      BY <1>1, <2>2
  <1>8. Half("main") /\ (Pending("rotation") => Ahead("main", "rotation"))
    BY <1>5, ChainNames DEF Half, Pending, Changing, StorageSteps
  <1>9. StoreInv'
    BY <1>1, <1>6, <1>7, <1>8, Written, MainFinishes DEF InFlight
  <1>10. UNCHANGED rows /\ tx' = tx /\ lost' = lost /\ access' = access
    BY NotConnected
  <1>11. WireInv'
    <2>1. CASE chain.main.step = "write_refresh"
      <3>1. chain.main.step \in Writes /\ refresh' = chain.main.token
        BY <2>1 DEF Writes, Value
      <3>2. QED
        BY <1>1, <1>6, <1>10, <3>1, LoginStored
    <2>2. CASE chain.main.step = "delete_refresh"
      <3>1. refresh' \in {refresh, None}
        BY <2>2 DEF Value, Writes
      <3>2. Connections /\ access' \in Issued \cup {None}
        BY <1>1, <1>10, NotConnected DEF WireInv, StoredSound
      <3>3. chain'.main.step \notin Writes \cup {"login"}
        BY <1>6 DEF Writes
      <3>4. QED
        BY <1>1, <1>6, <1>10, <3>1, <3>2, <3>3, ClientKeepsWire
    <2>3. QED
      BY <2>1, <2>2
  <1>12. torn' \in BOOLEAN
    OBVIOUS
  <1>13. QED
    BY <1>1, <1>4, <1>5, <1>7, <1>9, <1>10, <1>11, <1>12, ClientStep

\* And by the rotation.
LEMMA RotationDoneKeeps ==
  ASSUME MobileInv, chain.rotation.step \in {"write_refresh", "delete_refresh"},
         queue # <<>>, Head(queue) = "rotation", NEW given \in BOOLEAN,
         Continue(Completed(given), Tail(queue)),
         refresh' = Value("rotation"), screen' = screen, torn' = torn,
         UNCHANGED <<vars, access, lost>>
  PROVE  MobileInv'
  <1>1. /\ ChainsTyped /\ QueueInv /\ StoreInv /\ WireInv /\ signedIn \in BOOLEAN
        /\ screen \in {"checking", "guest", "home"} /\ torn \in BOOLEAN /\ lost \in SUBSET Families
    BY DEF MobileInv, ClientTyped
  <1>2. Half("rotation") /\ access' = access
    BY DEF Half
  <1>3. /\ ChainsTyped' /\ QueueInv' /\ StoreInv' /\ signedIn' \in BOOLEAN
        /\ chain'.rotation.step = "idle" /\ (Kept("main") \/ chain'.main.step \in AfterSteps)
    BY <1>1, <1>2, Written, RotationCompletes
  <1>4. UNCHANGED rows /\ tx' = tx /\ lost' = lost /\ access' = access /\ Connections
    BY NotConnected
  <1>5. Kept("main") \/ chain'.main.step \notin Writes \cup {"login"}
    BY <1>3 DEF AfterSteps, Writes
  <1>6. WireInv'
    <2>1. CASE chain.rotation.step = "write_refresh"
      <3>1. chain.rotation.step \in Writes /\ refresh' = chain.rotation.token
        BY <2>1 DEF Writes, Value
      <3>2. QED
        BY <1>1, <1>3, <1>4, <1>5, <3>1, RotationStored
    <2>2. CASE chain.rotation.step = "delete_refresh"
      <3>1. refresh' \in {refresh, None}
        BY <2>2 DEF Value, Writes
      <3>2. access' \in Issued \cup {None} /\ RotationOver
        BY <1>1, <1>3, <1>4, <2>2 DEF WireInv, StoredSound, RotationOver, Writes
      <3>3. QED
        BY <1>1, <1>4, <1>5, <3>1, <3>2, ClientKeepsWire
    <2>3. QED
      BY <2>1, <2>2
  <1>7. QED
    BY <1>1, <1>3, <1>4, <1>6, ClientStep

LEMMA WritesKeep ==
  ASSUME MobileInv, NEW c \in {"main", "rotation"},
         AccessWritten(c) \/ AccessDeleted(c) \/ RefreshWritten(c) \/ RefreshDeleted(c)
  PROVE  MobileInv'
  <1>1. CASE AccessWritten(c)
    <2>1. /\ chain[c].step = "write_access" /\ queue # <<>> /\ Head(queue) = c
          /\ access' = Value(c)
          /\ Continue([chain EXCEPT ![c].step = "write_refresh"], Tail(queue))
          /\ UNCHANGED <<vars, refresh, screen, history>>
      BY <1>1 DEF AccessWritten, Done, Value, Writes
    <2>2. QED
      BY <2>1, AccessKeeps
  <1>2. CASE AccessDeleted(c)
    <2>1. /\ chain[c].step = "delete_access" /\ queue # <<>> /\ Head(queue) = c
          /\ access' = Value(c)
          /\ Continue([chain EXCEPT ![c].step = "delete_refresh"], Tail(queue))
          /\ UNCHANGED <<vars, refresh, screen, history>>
      BY <1>2 DEF AccessDeleted, Done, Value, Writes
    <2>2. QED
      BY <2>1, AccessKeeps
  <1>3. CASE (RefreshWritten(c) \/ RefreshDeleted(c)) /\ c = "main"
    <2>1. /\ chain.main.step \in {"write_refresh", "delete_refresh"}
          /\ queue # <<>> /\ Head(queue) = "main"
          /\ Continue([chain EXCEPT !["main"] = Nothing], Tail(queue))
          /\ refresh' = Value("main") /\ screen' \in {"home", "guest"}
          /\ UNCHANGED <<vars, access, lost>>
      BY <1>3 DEF RefreshWritten, RefreshDeleted, Done, Value, Writes
    <2>2. torn' = (torn /\ InFlight)
      BY <1>3 DEF RefreshWritten, RefreshDeleted, MobileInv, ClientTyped
    <2>3. QED
      BY <2>1, <2>2, MainDoneKeeps
  <1>4. CASE (RefreshWritten(c) \/ RefreshDeleted(c)) /\ c = "rotation"
    <2>1. /\ chain.rotation.step \in {"write_refresh", "delete_refresh"}
          /\ queue # <<>> /\ Head(queue) = "rotation"
          /\ \E given \in BOOLEAN : Continue(Completed(given), Tail(queue))
          /\ refresh' = Value("rotation") /\ screen' = screen
          /\ UNCHANGED <<vars, access, lost>>
      BY <1>4 DEF RefreshWritten, RefreshDeleted, Done, Value, Writes
    <2>2. torn' = torn
      BY <1>4 DEF RefreshWritten, RefreshDeleted, MobileInv, ClientTyped
    <2>3. QED
      BY <2>1, <2>2, RotationDoneKeeps
  <1>5. QED
    BY <1>1, <1>2, <1>3, <1>4
-----------------------------------------------------------------------------
(* The session cubit and the repository *)

\* Main alone moves, by no storage operation, and begins no change.
LEMMA MainGoesOn ==
  ASSUME MobileInv, NEW v \in ChainRecord,
         \/ Continue([chain EXCEPT !["main"] = v], queue) /\ chain.main.step \notin StorageSteps
         \/ /\ Continue([chain EXCEPT !["main"] = v], Tail(queue))
            /\ queue # <<>> /\ Head(queue) = "main",
         chain.main.step \notin Changing, v.step \notin Changing,
         v.step \notin {"read_again", "refreshing", "joined", "read_access", "read_refresh"},
         v.step = "login" => /\ v.request \in Requests
                             /\ tx'[v.request].step = "sent" /\ tx'[v.request].call = "login",
         UNCHANGED rows, UNCHANGED tx \/ SessionInv', Connections,
         UNCHANGED <<storage, history>>, screen' \in {"checking", "guest", "home"}
  PROVE  MobileInv'
  <1> DEFINE C == [chain EXCEPT !["main"] = v]
  <1>1. ChainsTyped
    BY DEF MobileInv, ClientTyped
  <1>2. /\ C \in [Chains -> ChainRecord] /\ C["main"] = v
        /\ \A d \in Chains \ {"main"} : C[d] = chain[d]
    BY <1>1, OneMoves, ChainNames
  <1>3. chain' = C => ChainsTyped'
    BY <1>1, OneTyped
  <1>4. \/ Continue(C, queue) /\ chain.main.step \notin StorageSteps
        \/ Continue(C, Tail(queue)) /\ queue # <<>> /\ Head(queue) = "main"
    OBVIOUS
  <1> HIDE DEF C
  <1>5. Moves(C, "main")
    BY <1>2, <1>4, ChainNames DEF Moves, Steps, Served, Stays
  <1>6. chain' = C => (C["main"].step = "login" => LoginSent)
    BY <1>2 DEF LoginSent
  <1>7. access' = access /\ refresh' = refresh /\ torn' = torn /\ lost' = lost
    BY DEF storage, history
  <1>8. QED
    BY <1>2, <1>3, <1>5, <1>6, <1>7, QuietClient

LEMMA NothingToRestoreKeeps ==
  ASSUME MobileInv, NothingToRestore
  PROVE  MobileInv'
  <1> DEFINE C == [chain EXCEPT !["main"] = Nothing]
  <1>1. /\ ChainsTyped /\ QueueInv /\ StoreInv /\ WireInv /\ signedIn \in BOOLEAN
        /\ torn \in BOOLEAN /\ lost \in SUBSET Families
    BY DEF MobileInv, ClientTyped
  <1>2. /\ chain' = C /\ chain.main.step = "guest" /\ screen' = "guest"
        /\ UNCHANGED <<vars, storage, queue, signedIn, history>>
    BY DEF NothingToRestore
  <1>3. /\ C \in [Chains -> ChainRecord] /\ C["main"] = Nothing
        /\ \A d \in Chains \ {"main"} : C[d] = chain[d]
    BY <1>1, NothingTyped, OneMoves, ChainNames
  <1>4. ChainsTyped'
    BY <1>1, <1>2, NothingTyped, OneTyped
  <1> HIDE DEF C
  <1>5. QueueInv'
    BY <1>1, <1>2, <1>3, NothingTyped DEF QueueInv, StorageSteps
  <1>6. Kept("rotation") /\ Calm("main") /\ chain'.rotation = chain.rotation
    BY <1>2, <1>3, NothingTyped, ChainNames DEF Kept, Calm, Changing
  <1>7. StoreInv'
    <2>1. OrderKept
      BY <1>2 DEF OrderKept, Ahead
    <2>2. Pending("main")' <=> Pending("main")
      BY <1>6 DEF Calm, Pending
    <2>3. access' = access /\ refresh' = refresh /\ signedIn' = signedIn /\ torn' = torn
      BY <1>2 DEF storage, history
    <2>4. ~torn' /\ chain'.rotation.step = "refreshing" /\ ~chain'.rotation.stale =>
            ~Pending("main")' /\ signedIn
      BY <1>1, <1>6, <2>2, <2>3 DEF StoreInv, WholeUnlessTorn
    <2>5. QED
      BY <1>1, <1>6, <2>1, <2>3, <2>4, QuietSteps DEF Unmoved
  <1>8. WireInv'
    <2>1. chain'.main.step \notin Writes \cup {"login"}
      BY <1>2, <1>3, NothingTyped DEF Writes
    <2>2. access' \in Issued \cup {None} /\ refresh' = refresh /\ lost' = lost
      BY <1>1, <1>2 DEF WireInv, StoredSound, storage, history
    <2>3. UNCHANGED rows /\ Connections
      BY <1>2, NotConnected
    <2>4. QED
      BY <1>1, <1>6, <2>1, <2>2, <2>3, ClientKeepsWire
  <1>9. UNCHANGED rows /\ UNCHANGED tx /\ torn' = torn /\ lost' = lost /\ signedIn' = signedIn
    BY <1>2, NotConnected DEF history
  <1>10. QED
    BY <1>1, <1>2, <1>4, <1>5, <1>7, <1>8, <1>9, ClientStep

LEMMA AskedMeKeeps ==
  ASSUME MobileInv, AskedMe
  PROVE  MobileInv'
  <1>1. /\ chain.main.step = "ask_me" /\ chain.main.step \notin StorageSteps
        /\ chain.main.step \notin Changing /\ UNCHANGED <<vars, storage, history>>
    BY DEF AskedMe, StorageSteps, Changing
  <1>2. CASE Continue(Clear(chain, "main"), queue) /\ UNCHANGED screen
    <2>1. chain \in [Chains -> ChainRecord]
      BY DEF MobileInv, ClientTyped, ChainsTyped
    <2>2. QED
      BY <1>1, <1>2, <2>1, ClearsClient, NotConnected
  <1>3. CASE Continue([chain EXCEPT !["main"] = Nothing], queue) /\ screen' \in {"home", "guest"}
    BY <1>1, <1>3, NothingTyped, MainGoesOn, NotConnected DEF Changing
  <1>4. QED
    BY <1>2, <1>3 DEF AskedMe

LEMMA AskKeeps ==
  ASSUME MobileInv, NEW r \in Requests, NEW call \in {"login", "logout_all"},
         chain.main.step \notin StorageSteps, Ask(chain, "main", call, r, call, None)
  PROVE  MobileInv'
  <1> DEFINE v == [chain["main"] EXCEPT !.step = call, !.request = r, !.token = None]
  <1>1. /\ chain["main"] \in ChainRecord /\ chain.main.step \notin Changing
        /\ screen \in {"checking", "guest", "home"}
    BY ChainNames DEF MobileInv, ClientTyped, ChainsTyped, StorageSteps, Changing
  <1>2. v \in ChainRecord /\ v.step = call /\ v.request = r
    BY <1>1 DEF ChainRecord
  <1>3. /\ Connect(r, call, None) /\ Continue([chain EXCEPT !["main"] = v], queue)
        /\ UNCHANGED <<rows, storage, screen, history>>
    BY DEF Ask
  <1> HIDE DEF v
  <1>4. SessionInv' /\ Connections /\ tx'[r].step = "sent" /\ tx'[r].call = call
    BY <1>3, Connected
  <1>5. QED
    BY <1>1, <1>2, <1>3, <1>4, MainGoesOn DEF Changing

LEMMA LoginAnsweredKeeps ==
  ASSUME MobileInv, NEW r \in Requests, LoginAnswered(r)
  PROVE  MobileInv'
  <1> DEFINE new == tx[r].answer
             u == [chain["rotation"] EXCEPT !.stale = (chain["rotation"].step # "idle")]
             B == [chain EXCEPT !["rotation"] = u]
             v == [chain["main"] EXCEPT !.step = "write_access", !.request = None, !.token = new]
             C == [B EXCEPT !["main"] = v]
  <1>1. /\ SessionInv' /\ UNCHANGED rows /\ Connections
        /\ chain.main.step = "login" /\ chain.main.request = r
        /\ tx[r].step = "answered" /\ tx'[r].step = "idle"
    BY Taken, ChainNames DEF LoginAnswered
  <1>2. chain \in [Chains -> ChainRecord]
    BY DEF MobileInv, ClientTyped, ChainsTyped
  <1>3. new \in Tokens
    BY <1>1, SessionFields DEF MobileInv, WireInv, LoginSound, LoginOn, NewSession
  <1>4. /\ u \in ChainRecord /\ u.step = chain["rotation"].step /\ u.token = chain["rotation"].token
        /\ u.request = chain["rotation"].request /\ u.stale = (chain["rotation"].step # "idle")
    BY <1>2, ChainNames DEF ChainRecord
  <1>5. /\ B \in [Chains -> ChainRecord] /\ B["rotation"] = u
        /\ \A d \in Chains \ {"rotation"} : B[d] = chain[d]
    BY <1>2, <1>4, ChainNames
  <1>6. B = Bumped(chain) /\ B["main"] = chain["main"]
    BY <1>5, ChainNames DEF Bumped
  <1>7. v \in ChainRecord /\ v.step = "write_access" /\ v.token = new
    <2>1. chain["main"] \in ChainRecord
      BY <1>2, ChainNames
    <2> HIDE DEF u, B, new
    <2>2. QED
      BY <1>3, <2>1 DEF ChainRecord, StorageSteps
  <1>8. Continue(C, queue) /\ UNCHANGED <<storage, screen, history>>
    BY <1>6 DEF LoginAnswered
  <1> HIDE DEF u, B, v
  <1>9. /\ C \in [Chains -> ChainRecord] /\ C["main"] = v /\ C["rotation"] = u
        /\ C["reader"] = chain["reader"]
    BY <1>5, <1>7, ChainNames
  <1> HIDE DEF C, new
  <1>10. Steps(C) /\ chain.main.step \notin StorageSteps /\ chain.main.step \notin Changing
    BY <1>1, <1>4, <1>8, <1>9, ChainNames DEF Steps, Stays, StorageSteps, Changing
  <1>11. QED
    BY <1>1, <1>4, <1>7, <1>8, <1>9, <1>10, StartingClient DEF storage, history, new

LEMMA StartLogoutKeeps ==
  ASSUME MobileInv, StartLogout
  PROVE  MobileInv'
  <1> DEFINE v == [chain["main"] EXCEPT !.step = "read_for_logout"]
  <1>1. /\ chain["main"] \in ChainRecord /\ chain.main.step = "idle"
        /\ chain.main.step \notin Changing /\ chain.main.step \notin StorageSteps
        /\ screen \in {"checking", "guest", "home"}
    BY ChainNames DEF MobileInv, ClientTyped, ChainsTyped, StorageSteps, Changing, StartLogout, Nothing
  <1>2. v \in ChainRecord /\ v.step = "read_for_logout"
    BY <1>1 DEF ChainRecord, StorageSteps
  <1>3. /\ Continue([chain EXCEPT !["main"] = v], queue)
        /\ UNCHANGED <<vars, storage, screen, history>>
    BY DEF StartLogout
  <1> HIDE DEF v
  <1>4. QED
    BY <1>1, <1>2, <1>3, MainGoesOn, NotConnected DEF Changing

LEMMA ReadForLogoutKeeps ==
  ASSUME MobileInv, NEW r \in Requests, ReadForLogout(r)
  PROVE  MobileInv'
  <1>1. /\ chain["main"] \in ChainRecord /\ chain \in [Chains -> ChainRecord]
        /\ chain.main.step = "read_for_logout" /\ chain.main.step \notin Changing
        /\ queue # <<>> /\ Head(queue) = "main"
        /\ screen \in {"checking", "guest", "home"} /\ UNCHANGED <<storage, screen, history>>
    BY ChainNames DEF MobileInv, ClientTyped, ChainsTyped, Changing, ReadForLogout, Done
  <1>2. CASE /\ refresh # None /\ Connect(r, "logout", refresh) /\ UNCHANGED rows
             /\ Continue([chain EXCEPT !.main.step = "logout", !.main.request = r], Tail(queue))
    <2> DEFINE v == [chain["main"] EXCEPT !.step = "logout", !.request = r]
    <2>1. v \in ChainRecord /\ v.step = "logout"
      BY <1>1 DEF ChainRecord
    <2>2. Continue([chain EXCEPT !["main"] = v], Tail(queue))
      <3>1. [chain EXCEPT !.main.step = "logout", !.main.request = r] = [chain EXCEPT !["main"] = v]
        BY <1>1, ChainNames
      <3>2. QED
        BY <1>2, <3>1
    <2> HIDE DEF v
    <2>3. refresh \in Issued /\ refresh \in Tokens
      BY <1>2, SessionFields DEF MobileInv, WireInv, StoredSound
    <2>4. SessionInv' /\ Connections
      BY <1>2, <2>3, Connected
    <2>5. QED
      BY <1>1, <1>2, <2>1, <2>2, <2>4, MainGoesOn DEF Changing
  <1>3. CASE Continue(Clear(chain, "main"), Tail(queue)) /\ UNCHANGED vars
    BY <1>1, <1>3, ClearsClient, NotConnected
  <1>4. QED
    BY <1>2, <1>3 DEF ReadForLogout

\* The end of a logout, answered or not, begins to clear.
LEMMA LogoutEnds ==
  ASSUME MobileInv, chain.main.step \notin StorageSteps,
         Continue(Clear([chain EXCEPT !.main.request = None], "main"), queue),
         UNCHANGED rows, UNCHANGED tx \/ SessionInv', Connections,
         UNCHANGED <<storage, screen, history>>
  PROVE  MobileInv'
  <1> DEFINE v == [chain["main"] EXCEPT !.request = None]
             D == [chain EXCEPT !["main"] = v]
  <1>1. chain["main"] \in ChainRecord /\ ChainsTyped
    BY ChainNames DEF MobileInv, ClientTyped, ChainsTyped
  <1>2. v \in ChainRecord
    BY <1>1 DEF ChainRecord
  <1>3. Continue(Clear(D, "main"), queue)
    OBVIOUS
  <1> HIDE DEF v
  <1>4. D \in [Chains -> ChainRecord] /\ \A d \in Chains \ {"main"} : D[d] = chain[d]
    BY <1>1, <1>2, OneMoves, ChainNames
  <1> HIDE DEF D
  <1>5. QED
    BY <1>3, <1>4, ClearsClient

LEMMA LogoutAnsweredKeeps ==
  ASSUME MobileInv, NEW r \in Requests, LogoutAnswered(r) \/ LogoutAllAnswered(r)
  PROVE  MobileInv'
  <1>1. /\ Answered("main", "logout", r) \/ Answered("main", "logout_all", r)
        /\ Continue(Clear([chain EXCEPT !.main.request = None], "main"), queue)
        /\ UNCHANGED <<storage, screen, history>>
    BY DEF LogoutAnswered, LogoutAllAnswered
  <1>2. /\ SessionInv' /\ UNCHANGED rows /\ Connections
        /\ chain.main.step \in {"logout", "logout_all"}
    BY <1>1, Taken, ChainNames
  <1>3. chain.main.step \notin StorageSteps
    BY <1>2 DEF StorageSteps
  <1>4. QED
    BY <1>1, <1>2, <1>3, LogoutEnds

LEMMA MainFailsKeeps ==
  ASSUME MobileInv, MainFails
  PROVE  MobileInv'
  <1>1. /\ chain.main.step \in {"login", "logout", "logout_all"}
        /\ UNCHANGED <<vars, storage, screen, history>>
        /\ screen \in {"checking", "guest", "home"}
    BY DEF MainFails, MobileInv, ClientTyped
  <1>2. chain.main.step \notin StorageSteps /\ chain.main.step \notin Changing
    BY <1>1 DEF StorageSteps, Changing
  <1>3. CASE Continue([chain EXCEPT !["main"] = Nothing], queue)
    BY <1>1, <1>2, <1>3, NothingTyped, MainGoesOn, NotConnected DEF Changing
  <1>4. CASE Continue(Clear([chain EXCEPT !.main.request = None], "main"), queue)
    BY <1>1, <1>2, <1>4, LogoutEnds, NotConnected
  <1>5. QED
    BY <1>3, <1>4 DEF MainFails
-----------------------------------------------------------------------------
(* Kills, the server, and the theorems *)

LEMMA KillKeeps ==
  ASSUME MobileInv, Kill
  PROVE  MobileInv'
  <1> DEFINE t == chain.rotation.token
             L == lost \cup (IF chain.rotation.step \in {"refreshing", "write_access", "write_refresh"}
                               THEN {family[t]} ELSE {})
  <1>1. /\ ChainsTyped /\ QueueInv /\ StoreInv /\ WireInv /\ signedIn \in BOOLEAN
        /\ torn \in BOOLEAN /\ lost \in SUBSET Families
    BY DEF MobileInv, ClientTyped
  <1>2. /\ chain' = [c \in Chains |-> Nothing] /\ queue' = <<>> /\ screen' = "checking"
        /\ torn' = (torn \/ \E c \in Chains : chain[c].step \in Changing)
        /\ lost' = L /\ signedIn' = (refresh # None) /\ UNCHANGED <<vars, storage>>
    BY DEF Kill
  <1>3. /\ chain' \in [Chains -> ChainRecord]
        /\ \A c \in Chains : chain'[c] = Nothing /\ chain'[c].step = "idle"
    BY <1>2, NothingTyped
  <1>4. ChainsTyped'
    BY <1>3, ChainNames DEF ChainsTyped, Changing
  <1>5. QueueInv'
    BY <1>2, <1>3 DEF QueueInv, Once, In, StorageSteps
  <1>6. chain'.main.step = "idle" /\ chain'.rotation.step = "idle"
    BY <1>3, ChainNames
  <1>7. access' = access /\ refresh' = refresh
    BY <1>2 DEF storage
  <1>8. StoreInv'
    <2>1. LastWriter' /\ LastDecides'
      BY <1>6 DEF LastWriter, LastDecides, Pair, Half, Writes, Deletes
    <2>2. ~torn' => ~torn /\ ~Pending("main") /\ ~Pending("rotation")
      BY <1>2, ChainNames DEF Pending
    <2>3. WholeUnlessTorn'
      BY <1>1, <1>2, <1>6, <1>7, <2>2 DEF StoreInv, WholeUnlessTorn, Pending, Writes, Changing
    <2>4. QED
      BY <2>1, <2>3 DEF StoreInv
  <1>9. chain.rotation.step \in Writes \cup {"refreshing"} => family[t] \in lost'
    BY <1>2 DEF Writes
  <1>10. lost \subseteq lost' /\ lost' \in SUBSET Families
    <2>1. chain.rotation.step \in Writes \cup {"refreshing"} => family[t] \in Families
      BY <1>1, SessionFields DEF MobileInv, WireInv, RotationSound
    <2>2. QED
      BY <1>1, <1>2, <2>1 DEF Writes
  <1>11. WireInv'
    <2>1. RotationOver
      BY <1>6, <1>9 DEF RotationOver, Writes, Ends, Forgotten
    <2>2. chain'.main.step \notin Writes \cup {"login"}
      BY <1>6 DEF Writes
    <2>3. UNCHANGED rows /\ Connections
      BY <1>2, NotConnected
    <2>4. access' \in Issued \cup {None}
      BY <1>1, <1>7 DEF WireInv, StoredSound
    <2>5. QED
      BY <1>1, <1>7, <1>10, <2>1, <2>2, <2>3, <2>4, ClientKeepsWire
  <1>12. UNCHANGED rows /\ UNCHANGED tx /\ torn' \in BOOLEAN /\ signedIn' \in BOOLEAN
    BY <1>1, <1>2, NotConnected
  <1>13. QED
    BY <1>2, <1>4, <1>5, <1>8, <1>10, <1>11, <1>12, ClientStep

\* The client's part of the invariant is about its own variables.
LEMMA ClientUnchanged ==
  ASSUME ClientTyped, StoreInv, UNCHANGED client
  PROVE  ClientTyped' /\ StoreInv'
  <1>1. UNCHANGED <<access, refresh, queue, chain, screen, signedIn, torn, lost>>
    BY DEF client, storage, history
  <1>2. ClientTyped'
    BY <1>1 DEF ClientTyped, ChainsTyped, QueueInv
  <1>3. StoreInv'
    BY <1>1 DEF StoreInv, LastWriter, LastDecides, WholeUnlessTorn, Half, Ahead, Value, Pending, First
  <1>4. QED
    BY <1>2, <1>3

LEMMA ServerKeeps ==
  ASSUME MobileInv, NEW r \in Requests, Server(r) \/ Late(r)
  PROVE  MobileInv'
  <1>1. ClientTyped' /\ StoreInv'
    BY ClientUnchanged DEF MobileInv, Server, Late
  <1>2. CASE Server(r)
    BY <1>1, <1>2, ServeKeeps, WireServed DEF MobileInv, Server
  <1>3. CASE Late(r)
    <2>1. /\ SessionInv /\ WireInv /\ UNCHANGED client /\ Become(r, Idle) /\ UNCHANGED rows
      BY <1>3 DEF MobileInv, Late, Forget
    <2>2. SessionInv'
      BY <2>1, FreedKeeps
    <2>3. Connections
      BY <2>1 DEF Become, Idle, SessionInv, Connections
    <2>4. Kept("main") /\ Kept("rotation") /\ lost' = lost /\ refresh' = refresh
          /\ access' \in Issued \cup {None}
      BY <2>1 DEF client, storage, history, Kept, WireInv, StoredSound
    <2>5. WireInv'
      BY <2>1, <2>3, <2>4, ClientKeepsWire
    <2>6. QED
      BY <1>1, <2>2, <2>5 DEF MobileInv
  <1>4. QED
    BY <1>2, <1>3

LEMMA MobileInvInit == ComposedInit => MobileInv
  <1> SUFFICES ASSUME ComposedInit
               PROVE  MobileInv
    OBVIOUS
  <1>1. SessionInv
    BY SessionInvInit DEF ComposedInit
  <1>2. /\ \A c \in Chains : chain[c] = Nothing /\ chain[c].step = "idle"
        /\ chain \in [Chains -> ChainRecord]
        /\ access = None /\ refresh = None /\ queue = <<>> /\ screen = "checking"
        /\ signedIn = FALSE /\ torn = FALSE /\ lost = {}
    BY NothingTyped DEF ComposedInit, ClientInit
  <1>3. chain.main.step = "idle" /\ chain.rotation.step = "idle" /\ chain.reader.step = "idle"
    BY <1>2, ChainNames
  <1>4. ChainsTyped /\ QueueInv
    BY <1>2, <1>3, ChainNames DEF ChainsTyped, QueueInv, Once, In, StorageSteps, Changing
  <1>5. StoreInv
    BY <1>2, <1>3
    DEF StoreInv, LastWriter, LastDecides, WholeUnlessTorn, Pair, Half, Writes, Deletes, Pending,
        Changing
  <1>6. WireInv
    <2>1. \A r \in Requests : tx[r].step = "idle"
      BY DEF ComposedInit, Init, Idle
    <2>2. QED
      BY <1>2, <1>3, <2>1
      DEF WireInv, OneInFlight, RotationSound, LoginSound, StoredSound, Writes
  <1>7. QED
    BY <1>1, <1>2, <1>4, <1>5, <1>6 DEF MobileInv, ClientTyped

LEMMA StorageKeeps ==
  ASSUME MobileInv, Storage
  PROVE  MobileInv'
  BY AccessReadKeeps, TokenReadKeeps, NeedsRotationKeeps, WritesKeep, AccessReadAgainKeeps,
     ReadForLogoutKeeps DEF Storage

LEMMA NetworkKeeps ==
  ASSUME MobileInv, Network
  PROVE  MobileInv'
  <1>1. ASSUME NEW r \in Requests, AskLogoutAll(r)
        PROVE  MobileInv'
    BY <1>1, AskKeeps DEF AskLogoutAll, StorageSteps
  <1>2. QED
    BY <1>1, RotationAnsweredKeeps, LoginAnsweredKeeps, LogoutAnsweredKeeps, RotationFailsKeeps,
       MainFailsKeeps, AskedMeKeeps, NothingToRestoreKeeps DEF Network

LEMMA PersonKeeps ==
  ASSUME MobileInv, Person
  PROVE  MobileInv'
  <1>1. CASE Restore
    BY <1>1, ReadKeeps DEF Restore
  <1>2. CASE StartLogoutAll
    BY <1>2, ReadKeeps DEF StartLogoutAll
  <1>3. CASE ScreenReads
    BY <1>3, ReadKeeps DEF ScreenReads
  <1>4. ASSUME NEW r \in Requests, StartLogin(r)
        PROVE  MobileInv'
    BY <1>4, AskKeeps DEF StartLogin, StorageSteps, Nothing
  <1>5. QED
    BY <1>1, <1>2, <1>3, <1>4, StartLogoutKeeps, KillKeeps DEF Person

\* Every step keeps the invariant.
LEMMA MobileInvNext == MobileInv /\ [ComposedNext]_allVars => MobileInv'
  <1> SUFFICES ASSUME MobileInv, [ComposedNext]_allVars
               PROVE  MobileInv'
    OBVIOUS
  <1>1. CASE ComposedNext
    BY <1>1, StorageKeeps, NetworkKeeps, PersonKeeps, ServerKeeps DEF ComposedNext
  <1>2. CASE UNCHANGED allVars
    <2>1. UNCHANGED vars /\ UNCHANGED client
      BY <1>2 DEF allVars
    <2>2. SessionInv'
      BY <2>1, SessionInvNext DEF MobileInv
    <2>3. ClientTyped' /\ StoreInv'
      BY <2>1, ClientUnchanged DEF MobileInv
    <2>4. Kept("main") /\ Kept("rotation") /\ lost' = lost /\ refresh' = refresh
          /\ access' \in Issued \cup {None}
      BY <2>1 DEF client, storage, history, Kept, MobileInv, WireInv, StoredSound
    <2>5. WireInv'
      BY <2>1, <2>4, NotConnected, ClientKeepsWire DEF MobileInv
    <2>6. QED
      BY <2>2, <2>3, <2>5 DEF MobileInv
  <1>3. QED
    BY <1>1, <1>2

\* The composition of the mobile client and the server is sound for any tokens,
\* families and connections.
THEOREM MobileSessionIsSound == ComposedSpec => []MobileInv
  <1>1. MobileInv /\ [ComposedNext]_allVars => MobileInv'
    BY MobileInvNext
  <1>2. QED
    BY <1>1, MobileInvInit, PTL DEF ComposedSpec

\* A chain at a storage step, and no other, is in the queue once, and nobody
\* waits for a rotation that is not in flight.
THEOREM MobileTypes == ComposedSpec => []TypeOK
  <1>1. MobileInv => TypeOK
    <2> SUFFICES ASSUME MobileInv
                 PROVE  TypeOK
      OBVIOUS
    <2>1. /\ family \in [Tokens -> Families \cup {None}] /\ live \subseteq Issued
          /\ ClientTyped /\ ChainsTyped /\ QueueInv
      BY DEF MobileInv, SessionInv, RowsTyped, ClientTyped
    <2>2. ASSUME NEW c \in Chains
          PROVE  Cardinality({i \in DOMAIN queue : queue[i] = c}) =
                   IF chain[c].step \in StorageSteps THEN 1 ELSE 0
      <3>1. DOMAIN queue = 1 .. Len(queue)
        BY <2>1 DEF QueueInv, Once
      <3>2. CASE chain[c].step \in StorageSteps
        <4>1. PICK i \in 1 .. Len(queue) : queue[i] = c
          BY <2>1, <3>2 DEF QueueInv, In
        <4>2. {j \in DOMAIN queue : queue[j] = c} = {i}
          BY <2>1, <3>1, <4>1 DEF QueueInv, Once
        <4>3. Cardinality({i}) = 1
          BY FS_Singleton
        <4>4. QED
          BY <3>2, <4>2, <4>3
      <3>3. CASE chain[c].step \notin StorageSteps
        <4>1. {j \in DOMAIN queue : queue[j] = c} = {}
          BY <2>1, <3>1, <3>3 DEF QueueInv, In
        <4>2. QED
          BY <3>3, <4>1, FS_EmptySet
      <3>4. QED
        BY <3>2, <3>3
    <2>3. QED
      BY <2>1, <2>2 DEF TypeOK, ClientTyped, ChainsTyped
  <1>2. QED
    BY <1>1, MobileSessionIsSound, PTL

\* At rest, and unless it is torn, the storage holds both tokens of one pair
\* while one is signed in, and nothing otherwise.
THEOREM TheStoreIsWhole == ComposedSpec => []StoreIsWhole
  <1>1. MobileInv => StoreIsWhole
    <2> SUFFICES ASSUME MobileInv, queue = <<>>, ~torn
                 PROVE  access = refresh /\ (signedIn <=> refresh # None)
      BY DEF StoreIsWhole
    <2>1. QueueInv /\ WholeUnlessTorn
      BY DEF MobileInv, ClientTyped, StoreInv
    <2>2. \A c \in Chains : ~In(c, queue)
      BY DEF In
    <2>3. ~Pending("main") /\ ~Pending("rotation")
      BY <2>1, <2>2, ChainNames DEF QueueInv, Pending, Changing, StorageSteps
    <2>4. QED
      BY <2>1, <2>3 DEF WholeUnlessTorn
  <1>2. QED
    BY <1>1, MobileSessionIsSound, PTL
-----------------------------------------------------------------------------
\* What becomes of the rows and the connections.
LEMMA ConnectionsMove ==
  ASSUME MobileInv, [ComposedNext]_allVars
  PROVE  Traffic
  <1>1. refresh \in Tokens \cup {None}
    BY DEF MobileInv, ClientTyped
  <1>2. CASE Storage
    BY <1>1, <1>2 DEF Traffic, Storage, AccessRead, TokenRead, NeedsRotation, AccessWritten,
       RefreshWritten, AccessDeleted, RefreshDeleted, AccessReadAgain, ReadForLogout, Connect, vars
  <1>3. CASE Network
    BY <1>3 DEF Traffic, Network, RotationAnswered, LoginAnswered, LogoutAnswered, LogoutAllAnswered,
                AskLogoutAll, RotationFails, MainFails, AskedMe, NothingToRestore, Answered, Ask,
                Connect, vars
  <1>4. CASE Person
    BY <1>4 DEF Traffic, Person, Restore, StartLogin, StartLogout, StartLogoutAll, ScreenReads, Kill,
                Read, Ask, Connect, vars
  <1>5. CASE \E r \in Requests : Server(r) \/ Late(r)
    BY <1>5 DEF Traffic, Server, Late, Forget
  <1>6. CASE UNCHANGED allVars
    BY <1>6 DEF Traffic, allVars, vars
  <1>7. QED
    BY <1>2, <1>3, <1>4, <1>5, <1>6 DEF ComposedNext

\* Only the server detects a reuse.
LEMMA OnlyReuseRevokes ==
  ASSUME MobileInv, [ComposedNext]_allVars, NEW r \in Requests,
         tx[r].step = "sent", tx[r].call = "refresh", tx'[r].step = "revoking"
  PROVE  DetectReuse(r)
  <1>1. SessionInv /\ tx \in [Requests -> Transaction] /\ tx[r] \in Transaction
    BY DEF MobileInv, SessionInv
  <1>2. ASSUME NEW x \in Requests, Become(x, Idle)
        PROVE  FALSE
    BY <1>1, <1>2 DEF Become, Idle
  <1>3. ASSUME NEW x \in Requests, NEW call, NEW t, Send(x, call, t)
        PROVE  FALSE
    BY <1>1, <1>3 DEF Send, Become, Idle
  <1>4. ASSUME NEW x \in Requests, Serve(x)
        PROVE  DetectReuse(r)
    <2>1. x = r
      BY <1>1, <1>4, ServedOthers
    <2>2. \A a : ~Answer(r, a)
      BY <1>1 DEF Answer, Become, Idle
    <2>3. ~Abort(r)
      BY <1>1 DEF Abort, Become, Idle
    <2>4. \A n \in Tokens : ~BeginRotation(r, n)
      BY <1>1 DEF BeginRotation, Become, Transaction
    <2>5. QED
      BY <1>4, <2>1, <2>2, <2>3, <2>4
      DEF Serve, Login, LockNext, CommitRotation, RefuseExpired, LogoutAll, CommitRevocation,
          Logout, Arrived
  <1>5. QED
    BY <1>1, <1>2, <1>3, <1>4, ConnectionsMove DEF Traffic

\* The server takes a token for stolen, and ends a session that is alive, only
\* if the client lost the answer with the token that replaced it.
THEOREM ReuseIsALostAnswer == ComposedSpec => ReuseNeedsALostAnswer
  <1> DEFINE Reuse == \A r \in Requests :
                        /\ tx[r].step = "sent" /\ tx[r].call = "refresh"
                        /\ tx'[r].step = "revoking" /\ LiveIn(family[tx[r].token]) # {}
                        => family[tx[r].token] \in lost
  <1>1. MobileInv /\ [ComposedNext]_allVars => [Reuse]_allVars
    <2> SUFFICES ASSUME MobileInv, [ComposedNext]_allVars, NEW r \in Requests,
                        tx[r].step = "sent", tx[r].call = "refresh", tx'[r].step = "revoking",
                        LiveIn(family[tx[r].token]) # {}, family[tx[r].token] \notin lost
                 PROVE  FALSE
      OBVIOUS
    <2>1. tx[r].token \notin live
      BY OnlyReuseRevokes DEF DetectReuse
    <2>2. /\ chain.rotation.step = "refreshing" /\ chain.rotation.request = r
          /\ chain.rotation.token = tx[r].token
      BY DEF MobileInv, WireInv, OneInFlight
    <2>3. Usable(tx[r].token)
      BY <2>2 DEF MobileInv, WireInv, RotationSound, RotationOn
    <2>4. QED
      BY <2>1, <2>3 DEF Usable, Ended
  <1>2. QED
    BY <1>1, MobileSessionIsSound, PTL DEF ComposedSpec, ReuseNeedsALostAnswer

\* The sessions that the rows show keep the contract, whatever the network
\* loses and whenever the app is killed.
THEOREM MobileImplementsContract == ComposedSpec => ImplementsContract
  <1>1. MobileInv /\ [ComposedNext]_allVars => [Contract!Next]_(Contract!vars)
    <2> SUFFICES ASSUME MobileInv, [ComposedNext]_allVars
                 PROVE  ContractStep
      BY DEF ContractStep
    <2>1. SessionInv /\ Traffic
      BY ConnectionsMove DEF MobileInv
    <2>2. QED
      BY <2>1, TrafficKeepsTheContract
  <1>2. ComposedInit => Contract!Init
    BY ContractInit DEF ComposedInit
  <1>3. QED
    BY <1>1, <1>2, MobileSessionIsSound, PTL DEF ComposedSpec, ImplementsContract, Contract!Spec
=============================================================================
