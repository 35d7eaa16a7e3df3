----------------------------- MODULE MobileSession -----------------------------
(***************************************************************************)
(* The mobile client's session (token_store.dart, api_auth_repository.dart,*)
(* session_cubit.dart) composed with the server's (Sessions), over a       *)
(* network that delays and loses requests and answers, and on a device     *)
(* that may kill the app between any two steps.                            *)
(*                                                                         *)
(* Dart runs one continuation at a time, from one await to the next.  The  *)
(* platform's secure storage serves reads, writes and deletions in the     *)
(* order they were called.  Three chains of continuations exist: main (the *)
(* session cubit: restore, login, logout, logout of all devices), reader   *)
(* (a repository that needs an access token) and rotation (the static      *)
(* _refreshInFlight).  A pair of tokens is named by its refresh token.     *)
(*                                                                         *)
(* _sessionGeneration is only ever compared with its value at the start of *)
(* the rotation: rotation.stale says that it has grown since.              *)
(***************************************************************************)
EXTENDS Sessions, Sequences, FiniteSets

Chains == {"main", "reader", "rotation"}

VARIABLES access, refresh,  \* the two keys of the secure storage
          queue,            \* chains whose storage operation is not done
          chain,            \* where each chain is, and its local variables
          screen,           \* what the session cubit shows
          signedIn,         \* history: tokens were stored and not cleared since
          torn,             \* history: see Kill and NeedsRotation
          lost              \* history: families with an answer to a refresh not stored

storage == <<access, refresh>>
history == <<torn, lost>>
client == <<storage, queue, chain, screen, signedIn, history>>
allVars == <<vars, client>>

\* step: the await the chain is at; goal: what the read is for; token: the
\* refresh token it sent or the pair it writes; saw: it read an access token;
\* request: the connection it waits for; stale: see above.
Nothing == [step |-> "idle", goal |-> None, token |-> None, saw |-> FALSE,
            request |-> None, stale |-> FALSE]

StorageSteps == {"read_access", "read_refresh", "read_for_logout", "read_again",
                 "write_access", "write_refresh", "delete_access", "delete_refresh"}

Changing == {"write_access", "write_refresh", "delete_access", "delete_refresh"}

\* The chains move to C; those that call the storage join its queue.  Whoever
\* begins to write a login, or to clear, decides whether one is signed in.
Continue(C, rest) ==
  LET joins(c) == IF C[c].step \in StorageSteps /\ \A i \in DOMAIN rest : rest[i] # c
                    THEN <<c>> ELSE <<>>
      starts(c, step) == C[c].step = step /\ chain[c].step # step
  IN
  /\ chain' = C
  /\ queue' = rest \o joins("rotation") \o joins("main") \o joins("reader")
  /\ signedIn' = \/ starts("main", "write_access")
                 \/ signedIn /\ \A c \in Chains : ~starts(c, "delete_access")

\* write, writeTokens and clear add one to the generation.
Bumped(C) == [C EXCEPT !.rotation.stale = C.rotation.step # "idle"]

Clear(C, c) == [Bumped(C) EXCEPT ![c].step = "delete_access"]

\* What a chain does when read() gives it an access token, or none.
AfterRead(C, c, given) ==
  CASE C[c].goal = "request"  -> [C EXCEPT ![c] = Nothing]
    [] C[c].goal = "restore" /\ ~given   -> [C EXCEPT ![c].step = "guest"]
    [] C[c].goal = "restore" /\ given    -> [C EXCEPT ![c].step = "ask_me"]
    [] C[c].goal = "logout_all" /\ ~given -> Clear(C, c)
    [] C[c].goal = "logout_all" /\ given -> [C EXCEPT ![c].step = "ask_logout_all"]

\* Mutant: _refreshInFlight is cleared before the chains that joined it go on.
CompletedM(given) == [chain EXCEPT !.rotation = Nothing]

\* The rotation's future completes: the chains that await it go on.
Completed(given) ==
  LET C == [chain EXCEPT !.rotation = Nothing]
      Goes(D, c) == IF C[c].step = "joined" THEN AfterRead(D, c, given) ELSE D
  IN Goes(Goes(C, "reader"), "main")

ClientInit ==
  /\ access = None /\ refresh = None /\ queue = <<>>
  /\ chain = [c \in Chains |-> Nothing]
  /\ screen = "checking"
  /\ signedIn = FALSE /\ torn = FALSE /\ lost = {}

Waiting(r) == \E c \in Chains : chain[c].request = r
Connect(r, call, t) == ~Waiting(r) /\ Send(r, call, t)

\* A chain sends a request on an idle connection and waits for its answer.
Ask(C, c, step, r, call, t) ==
  /\ Connect(r, call, t)
  /\ Continue([C EXCEPT ![c].step = step, ![c].request = r, ![c].token = t], queue)
  /\ UNCHANGED <<rows, storage, screen, history>>
-----------------------------------------------------------------------------
(* read() and _rotate *)

Read(c, goal) ==
  /\ chain[c] = Nothing
  /\ Continue([chain EXCEPT ![c].step = "read_access", ![c].goal = goal], queue)
  /\ UNCHANGED <<vars, storage, screen, history>>

\* The storage operation at the head of the queue is done, for the chain c.
Done(c, step) == queue # <<>> /\ Head(queue) = c /\ chain[c].step = step

AccessRead(c) ==
  /\ Done(c, "read_access")
  /\ Continue([chain EXCEPT ![c].step = "read_refresh", ![c].saw = (access # None)], Tail(queue))
  /\ UNCHANGED <<vars, storage, screen, history>>

\* No refresh token, or an access token that is good for a minute more.
TokenRead(c) ==
  /\ Done(c, "read_refresh")
  /\ refresh = None \/ chain[c].saw
  /\ Continue(AfterRead(chain, c, chain[c].saw), Tail(queue))
  /\ UNCHANGED <<vars, storage, screen, history>>

\* Mutant: every reader starts a rotation of its own.
InFlightM == FALSE
InFlight == chain.rotation.step # "idle"

\* _rotate: join the rotation in flight, or start one.  It takes the generation
\* of this moment for that of the token it read: if main called writeTokens or
\* clear after the read was queued, the rotation belongs to a session gone by.
NeedsRotation(c, r) ==
  LET joined == [chain EXCEPT ![c].step = "joined"]
      rotation == [Nothing EXCEPT !.step = "refreshing", !.token = refresh,
                                  !.saw = chain[c].saw, !.request = r]
  IN
  /\ Done(c, "read_refresh")
  /\ refresh # None
  /\ \/ /\ InFlight
        /\ Continue(joined, Tail(queue))
        /\ UNCHANGED <<vars, torn>>
     \/ /\ ~InFlight
        /\ Connect(r, "refresh", refresh)
        /\ Continue([joined EXCEPT !.rotation = rotation], Tail(queue))
        /\ torn' = (torn \/ chain.main.step \in Changing)
        /\ UNCHANGED rows
  /\ UNCHANGED <<storage, screen, lost>>
-----------------------------------------------------------------------------
(* _performRotation *)

\* The chain waits for the answer of r, which is there: a token, or a refusal.
Answered(c, step, r) ==
  /\ chain[c].step = step /\ chain[c].request = r
  /\ tx[r].step = "answered"
  /\ Become(r, Idle)
  /\ UNCHANGED rows

\* Mutant: the answer is stored whatever happened since.
OutdatedM == FALSE
Outdated == chain.rotation.stale

RotationAnswered(r) ==
  LET new == tx[r].answer
      own == [chain EXCEPT !.rotation.request = None]
  IN
  /\ Answered("rotation", "refreshing", r)
  /\ \/ /\ new # None /\ Outdated
        /\ Continue([own EXCEPT !.rotation.step = "read_again"], queue)
     \/ /\ new # None /\ ~Outdated
        /\ Continue([own EXCEPT !.rotation.step = "write_access",
                                !.rotation.token = new], queue)
     \/ /\ new = None /\ ~Outdated
        /\ Continue(Clear(own, "rotation"), queue)
     \/ /\ new = None /\ Outdated
        /\ Continue(Completed(chain.rotation.saw), queue)
  /\ lost' = lost \cup (IF new # None /\ Outdated THEN {family[new]} ELSE {})
  /\ UNCHANGED <<storage, screen, torn>>

\* A timeout: the old access token has to do.
RotationFails ==
  /\ chain.rotation.step = "refreshing"
  /\ Continue(Completed(chain.rotation.saw), queue)
  /\ lost' = lost \cup {family[chain.rotation.token]}
  /\ UNCHANGED <<vars, storage, screen, torn>>

AccessReadAgain ==
  /\ Done("rotation", "read_again")
  /\ Continue(Completed(access # None), Tail(queue))
  /\ UNCHANGED <<vars, storage, screen, history>>
-----------------------------------------------------------------------------
(* _writeTokensInternal and clear, for the rotation and for main *)

AccessWritten(c) ==
  /\ Done(c, "write_access")
  /\ access' = chain[c].token
  /\ Continue([chain EXCEPT ![c].step = "write_refresh"], Tail(queue))
  /\ UNCHANGED <<vars, refresh, screen, history>>

RefreshWritten(c) ==
  /\ Done(c, "write_refresh")
  /\ refresh' = chain[c].token
  /\ Continue(IF c = "rotation" THEN Completed(TRUE)
                                ELSE [chain EXCEPT ![c] = Nothing], Tail(queue))
  /\ screen' = IF c = "main" THEN "home" ELSE screen
  /\ torn' = (torn /\ (c # "main" \/ InFlight))
  /\ UNCHANGED <<vars, access, lost>>

AccessDeleted(c) ==
  /\ Done(c, "delete_access")
  /\ access' = None
  /\ Continue([chain EXCEPT ![c].step = "delete_refresh"], Tail(queue))
  /\ UNCHANGED <<vars, refresh, screen, history>>

RefreshDeleted(c) ==
  /\ Done(c, "delete_refresh")
  /\ refresh' = None
  /\ Continue(IF c = "rotation" THEN Completed(FALSE)
                                ELSE [chain EXCEPT ![c] = Nothing], Tail(queue))
  /\ screen' = IF c = "main" THEN "guest" ELSE screen
  /\ torn' = (torn /\ (c # "main" \/ InFlight))
  /\ UNCHANGED <<vars, access, lost>>
-----------------------------------------------------------------------------
(* The session cubit and the repository *)

\* The screens behind the login, and the realtime client, need a token.
ScreenReads == screen = "home" /\ Read("reader", "request")

Restore == screen = "checking" /\ Read("main", "restore")

NothingToRestore ==
  /\ chain.main.step = "guest"
  /\ chain' = [chain EXCEPT !.main = Nothing]
  /\ screen' = "guest"
  /\ UNCHANGED <<vars, storage, queue, signedIn, history>>

\* /auth/me: the token is accepted, refused (then all is cleared), or the
\* server cannot be reached (then the cubit shows the login screen).
AskedMe ==
  /\ chain.main.step = "ask_me"
  /\ \/ /\ Continue(Clear(chain, "main"), queue)
        /\ UNCHANGED screen
     \/ /\ Continue([chain EXCEPT !.main = Nothing], queue)
        /\ screen' \in {"home", "guest"}
  /\ UNCHANGED <<vars, storage, history>>

StartLogin(r) ==
  /\ screen = "guest" /\ chain.main = Nothing
  /\ Ask(chain, "main", "login", r, "login", None)

LoginAnswered(r) ==
  /\ Answered("main", "login", r)
  /\ Continue([Bumped(chain) EXCEPT !.main.step = "write_access", !.main.request = None,
                                    !.main.token = tx[r].answer], queue)
  /\ UNCHANGED <<storage, screen, history>>

StartLogout ==
  /\ screen = "home" /\ chain.main = Nothing
  /\ Continue([chain EXCEPT !.main.step = "read_for_logout"], queue)
  /\ UNCHANGED <<vars, storage, screen, history>>

ReadForLogout(r) ==
  /\ Done("main", "read_for_logout")
  /\ \/ /\ refresh # None
        /\ Connect(r, "logout", refresh)
        /\ Continue([chain EXCEPT !.main.step = "logout", !.main.request = r], Tail(queue))
        /\ UNCHANGED rows
     \/ /\ refresh = None
        /\ Continue(Clear(chain, "main"), Tail(queue))
        /\ UNCHANGED vars
  /\ UNCHANGED <<storage, screen, history>>

\* Local logout works whatever the server said.
LogoutAnswered(r) ==
  /\ Answered("main", "logout", r)
  /\ Continue(Clear([chain EXCEPT !.main.request = None], "main"), queue)
  /\ UNCHANGED <<storage, screen, history>>

StartLogoutAll == screen = "home" /\ Read("main", "logout_all")

AskLogoutAll(r) ==
  /\ chain.main.step = "ask_logout_all"
  /\ Ask(chain, "main", "logout_all", r, "logout_all", None)

LogoutAllAnswered(r) ==
  /\ Answered("main", "logout_all", r)
  /\ Continue(Clear([chain EXCEPT !.main.request = None], "main"), queue)
  /\ UNCHANGED <<storage, screen, history>>

\* No answer: login and logout of all devices report an error, logout clears.
MainFails ==
  /\ \/ /\ chain.main.step \in {"login", "logout_all"}
        /\ Continue([chain EXCEPT !.main = Nothing], queue)
     \/ /\ chain.main.step = "logout"
        /\ Continue(Clear([chain EXCEPT !.main.request = None], "main"), queue)
  /\ UNCHANGED <<vars, storage, screen, history>>
-----------------------------------------------------------------------------
\* The app is killed; what the storage was not asked for is never done.
Kill ==
  /\ chain' = [c \in Chains |-> Nothing] /\ queue' = <<>>
  /\ screen' = "checking"
  /\ torn' = (torn \/ \E c \in Chains : chain[c].step \in Changing)
  /\ lost' = lost \cup (IF chain.rotation.step \in {"refreshing", "write_access", "write_refresh"}
                         THEN {family[chain.rotation.token]} ELSE {})
  /\ signedIn' = (refresh # None)
  /\ UNCHANGED <<vars, storage>>

Server(r) == Serve(r) /\ UNCHANGED client
Late(r) == ~Waiting(r) /\ Forget(r) /\ UNCHANGED client

Storage ==
  \/ \E c \in {"main", "reader"} :
       \/ AccessRead(c) \/ TokenRead(c)
       \/ \E r \in Requests : NeedsRotation(c, r)
  \/ \E c \in {"main", "rotation"} :
       \/ AccessWritten(c) \/ RefreshWritten(c)
       \/ AccessDeleted(c) \/ RefreshDeleted(c)
  \/ AccessReadAgain
  \/ \E r \in Requests : ReadForLogout(r)

Network ==
  \/ \E r \in Requests :
       \/ RotationAnswered(r)
       \/ LoginAnswered(r)
       \/ LogoutAnswered(r)
       \/ LogoutAllAnswered(r)
       \/ AskLogoutAll(r)
  \/ RotationFails
  \/ MainFails
  \/ AskedMe
  \/ NothingToRestore

Person ==
  \/ Restore
  \/ \E r \in Requests : StartLogin(r)
  \/ StartLogout
  \/ StartLogoutAll
  \/ ScreenReads
  \/ Kill

ComposedNext ==
  \/ Storage \/ Network \/ Person
  \/ \E r \in Requests : Server(r) \/ Late(r)

ComposedInit == Init /\ ClientInit
ComposedSpec == ComposedInit /\ [][ComposedNext]_allVars
-----------------------------------------------------------------------------
\* Types; a chain at a storage step, and no other, is in the queue once; nobody
\* waits for a rotation that is not in flight.
TypeOK ==
  /\ family \in [Tokens -> Families \cup {None}] /\ live \subseteq Issued
  /\ access \in Tokens \cup {None} /\ refresh \in Tokens \cup {None}
  /\ screen \in {"checking", "guest", "home"}
  /\ signedIn \in BOOLEAN /\ torn \in BOOLEAN /\ lost \subseteq Families
  /\ \A c \in Chains :
       Cardinality({i \in DOMAIN queue : queue[i] = c}) =
         IF chain[c].step \in StorageSteps THEN 1 ELSE 0
  /\ (\E c \in Chains : chain[c].step = "joined") => chain.rotation.step # "idle"

\* When the storage is at rest, it holds both tokens of one pair after a
\* login and nothing after a logout, whatever rotation was in flight, unless
\* the app was killed between two writes or the rotation belongs to a session
\* gone by (see OfflineLogoutHolds).
StoreIsWhole ==
  queue = <<>> /\ ~torn => access = refresh /\ (signedIn <=> refresh # None)

\* The server takes a consumed token for theft, and ends a session that is
\* alive, only if the client did not store the token that replaced it (a lost
\* answer, a kill, an answer discarded after a logout): readers that interleave
\* with each other and with the end of a rotation never send a token twice.
ReuseNeedsALostAnswer ==
  [][\A r \in Requests :
       /\ tx[r].step = "sent" /\ tx[r].call = "refresh"
       /\ tx'[r].step = "revoking" /\ LiveIn(family[tx[r].token]) # {}
       => family[tx[r].token] \in lost]_allVars

\* api_auth_repository.dart: "Local logout must still work offline."  Signed
\* out, the app finds no refresh token in its storage.
OfflineLogoutHolds == queue = <<>> /\ ~signedIn => refresh = None

\* Rotations, reuse, logouts and their failures implement the contract: one
\* usable token for each open session, and no way back for an ended one.
ImplementsContract == Contract!Spec
=============================================================================
