------------------------------ MODULE Accounts ------------------------------
(***************************************************************************)
(* Registration, login, refresh and logout of app/routes/auth.py, the      *)
(* tokens of app/utils/security.py, the rows of app/models/user.py, and    *)
(* the life of one live WebSocket (app/api/v1/routes/live.py), which holds *)
(* an access token for longer than any request does.                       *)
(*                                                                         *)
(* A token is its claims: equal claims encode to equal strings, and "exp"  *)
(* is cut to whole seconds, so the clock counts seconds.  Handlers run in  *)
(* a thread pool: another request may commit between a handler's SELECT    *)
(* and its own commit, and the clock may advance.  Nothing in the code     *)
(* clears users.is_active or deletes a user, so those checks always pass.  *)
(***************************************************************************)
EXTENDS Naturals, FiniteSets

CONSTANTS
  Phones,       \* phone numbers
  Requests,     \* requests in flight
  Sockets,      \* WebSocket connections
  MaxTime,      \* bound on the clock
  MaxRows,      \* bound on the user_sessions rows ever made
  AccessLife,   \* ACCESS_TOKEN_EXPIRE_MINUTES
  RefreshLife,  \* REFRESH_TOKEN_EXPIRE_DAYS
  Margin,       \* WS_TOKEN_EXPIRY_MARGIN_SEC
  Poll,         \* the receive timeout of the socket's loop
  Null

ASSUME LivesAssumption ==
  /\ {MaxTime, MaxRows, AccessLife, RefreshLife, Margin, Poll} \subseteq Nat

\* A socket looks at the clock more often than the margin is long.
ASSUME MarginAssumption == Poll < Margin

Token == [sub : Phones, exp : Nat]

UserSession == [user : Phones, access : Token, refresh : Token, expires : Nat]

ASSUME NullAssumption == Null \notin Nat /\ Null \notin UserSession

VARIABLES
  now,      \* seconds
  users,    \* phone numbers of the users, with their profiles
  rows,     \* id -> user_sessions row, or Null
  revoked,  \* history: ids of rows a logout deleted
  created,  \* history: phone -> the first rows of registrations answered 201
  issued,   \* access tokens that clients hold and that have not lapsed
  req,      \* the handlers in flight
  socket    \* the WebSocket handlers

vars == <<now, users, rows, revoked, created, issued, req, socket>>

RowIds == 1..MaxRows

Idle == [at |-> "idle"]
Gone == [at |-> "away", token |-> Null, until |-> Null, wake |-> 0]

Init ==
  /\ now = 0
  /\ users = {}
  /\ rows = [i \in RowIds |-> Null]
  /\ revoked = {}
  /\ created = [p \in Phones |-> {}]
  /\ issued = {}
  /\ req = [q \in Requests |-> Idle]
  /\ socket = [k \in Sockets |-> Gone]

-----------------------------------------------------------------------------
(* Tokens *)

\* create_access_token and create_refresh_token.
AccessToken(p) == [sub |-> p, exp |-> now + AccessLife]
RefreshToken(p) == [sub |-> p, exp |-> now + RefreshLife]

\* verify_token: the signature holds by construction; the lifetime may not.
Valid(token) == now <= token.exp

\* Unique columns of user_sessions; i is the row being written.
TokenTaken(i, row) ==
  \E j \in RowIds \ {i} :
    rows[j] # Null /\ (rows[j].access = row.access \/ rows[j].refresh = row.refresh)

Fresh(i) == rows[i] = Null /\ i \notin revoked /\ \A j \in 1..(i - 1) : rows[j] # Null \/ j \in revoked

NewRow(p) ==
  [user |-> p, access |-> AccessToken(p), refresh |-> RefreshToken(p), expires |-> now + RefreshLife]

Reply(q) == req' = [req EXCEPT ![q] = Idle]

-----------------------------------------------------------------------------
(* POST /auth/register *)

\* The SELECT on the phone number: 400 when it is taken, else hash and go on.
RegisterCheck(q, p) ==
  /\ req[q].at = "idle"
  /\ p \notin users
  /\ req' = [req EXCEPT ![q] = [at |-> "register", phone |-> p]]
  /\ UNCHANGED <<now, users, rows, revoked, created, issued, socket>>

\* Mutant: the column is not unique, only the SELECT guards it.
UserRefusedNever(p) == {FALSE}

\* The unique columns of users, at the flush of the INSERT: the phone number may be
\* taken by now, and the email address may be another user's.
UserRefused(p) == {(p \in users), TRUE}

\* One transaction inserts user, profile and session and commits.  The flush
\* of the user fails on a unique column (500, outside the try of the commit)
\* and everything is rolled back.
RegisterCommit(q) ==
  /\ req[q].at = "register"
  /\ \E refused \in UserRefused(req[q].phone) :
       IF refused
         THEN UNCHANGED <<users, rows, created, issued>>
         ELSE LET p == req[q].phone IN
              \E i \in RowIds :
                /\ Fresh(i)
                /\ users' = users \cup {p}
                /\ rows' = [rows EXCEPT ![i] = NewRow(p)]
                /\ created' = [created EXCEPT ![p] = @ \cup {i}]
                /\ issued' = issued \cup {AccessToken(p)}
  /\ Reply(q)
  /\ UNCHANGED <<now, revoked, socket>>

-----------------------------------------------------------------------------
(* POST /auth/login, /auth/refresh, /auth/logout *)

\* SELECT the user and verify the password.
LoginCheck(q, p) ==
  /\ req[q].at = "idle"
  /\ p \in users
  /\ req' = [req EXCEPT ![q] = [at |-> "login", phone |-> p]]
  /\ UNCHANGED <<now, users, rows, revoked, created, issued, socket>>

\* _issue_tokens_and_session: two logins of one user in one second make
\* equal tokens, and the second INSERT fails on the unique columns (500).
LoginCommit(q) ==
  /\ req[q].at = "login"
  /\ \E i \in RowIds :
       /\ Fresh(i)
       /\ IF TokenTaken(i, NewRow(req[q].phone))
            THEN UNCHANGED <<rows, issued>>
            ELSE /\ rows' = [rows EXCEPT ![i] = NewRow(req[q].phone)]
                 /\ issued' = issued \cup {AccessToken(req[q].phone)}
  /\ Reply(q)
  /\ UNCHANGED <<now, users, revoked, created, socket>>

\* Verify the refresh token, SELECT its row and its user.
RefreshCheck(q, i) ==
  /\ req[q].at = "idle"
  /\ rows[i] # Null
  /\ Valid(rows[i].refresh)
  /\ rows[i].expires >= now
  /\ req' = [req EXCEPT ![q] = [at |-> "refresh", id |-> i, row |-> rows[i]]]
  /\ UNCHANGED <<now, users, rows, revoked, created, issued, socket>>

\* Mutant: the row that was read is written back whether or not it is there.
UpdateOutcomeUpsert(i, old, new) == "update"

\* Mutant: a bulk UPDATE that does not notice that it matched no row.
UpdateOutcomeUnnoticed(i, old, new) == IF rows[i] = Null \/ new = old THEN "nothing" ELSE "update"

\* What the flush of "sess.access_token = new_access" does: an equal token is
\* no change and no UPDATE; a row that is gone fails the flush
\* (StaleDataError), as does a token another row has.
UpdateOutcome(i, old, new) ==
  CASE new = old -> "nothing"
    [] new # old /\ rows[i] = Null -> "fail"
    [] new # old /\ rows[i] # Null /\ TokenTaken(i, new) -> "fail"
    [] OTHER -> "update"

RefreshCommit(q) ==
  /\ req[q].at = "refresh"
  /\ LET i == req[q].id
         old == req[q].row
         new == [old EXCEPT !.access = AccessToken(old.user)]
         outcome == UpdateOutcome(i, old, new)
     IN /\ rows' = IF outcome = "update"
                     THEN [rows EXCEPT ![i] = IF @ = Null THEN new ELSE [@ EXCEPT !.access = new.access]]
                     ELSE rows
        /\ issued' = IF outcome = "fail" THEN issued ELSE issued \cup {new.access}
  /\ Reply(q)
  /\ UNCHANGED <<now, users, revoked, created, socket>>

\* One DELETE of every row of the user, committed.  get_current_user asks for
\* a valid access token and does not look at user_sessions.
Logout(token) ==
  /\ Valid(token)
  /\ LET mine == {i \in RowIds : rows[i] # Null /\ rows[i].user = token.sub} IN
     /\ rows' = [i \in RowIds |-> IF i \in mine THEN Null ELSE rows[i]]
     /\ revoked' = revoked \cup mine
  /\ UNCHANGED <<now, users, created, issued, req, socket>>

-----------------------------------------------------------------------------
(* The live WebSocket: two reads in the thread pool, then the loop *)

SetSocket(k, s) ==
  /\ socket' = [socket EXCEPT ![k] = s]
  /\ UNCHANGED <<now, users, rows, revoked, created, issued, req>>

\* The first frame brings a token: _authenticate.
Handshake(k, token) ==
  /\ socket[k].at = "away"
  /\ Valid(token)
  /\ SetSocket(k, [Gone EXCEPT !.at = "authenticated", !.token = token])

\* _may_watch_session admits the user or the socket is closed.  Then
\* _token_expiry_epoch verifies the token again: None once it has lapsed.  The
\* hub registers the socket and "ready" is sent.
Admit(k) ==
  /\ socket[k].at = "authenticated"
  /\ \E allowed \in BOOLEAN :
       SetSocket(k, IF allowed
                      THEN [socket[k] EXCEPT !.at = "open", !.wake = now,
                              !.until = IF Valid(socket[k].token) THEN socket[k].token.exp ELSE Null]
                      ELSE Gone)

\* Mutant: closes when the token lapses, not before.
LapsingLate(s) == s.until # Null /\ now >= s.until

\* expires_at is not None and time.time() >= expires_at - margin.
Lapsing(s) == s.until # Null /\ now + Margin >= s.until

\* The top of the loop, when the receive timed out or the client wrote: close
\* with 4401, or receive again.
Look(k) ==
  /\ socket[k].at = "open"
  /\ SetSocket(k, IF Lapsing(socket[k]) THEN Gone ELSE [socket[k] EXCEPT !.wake = now + Poll])

\* The client leaves: WebSocketDisconnect, unregister.
Disconnect(k) ==
  /\ socket[k].at # "away"
  /\ SetSocket(k, Gone)

-----------------------------------------------------------------------------

\* The event loop wakes a socket when it is due.
Tick ==
  /\ now < MaxTime
  /\ \A k \in Sockets : socket[k].at = "open" => socket[k].wake > now
  /\ now' = now + 1
  /\ issued' = {token \in issued : now' <= token.exp}
  /\ UNCHANGED <<users, rows, revoked, created, req, socket>>

Next ==
  \/ \E q \in Requests :
       \/ \E p \in Phones : LoginCheck(q, p) \/ RegisterCheck(q, p)
       \/ \E i \in RowIds : RefreshCheck(q, i)
       \/ RegisterCommit(q) \/ LoginCommit(q) \/ RefreshCommit(q)
  \/ \E token \in issued : Logout(token) \/ \E k \in Sockets : Handshake(k, token)
  \/ \E k \in Sockets : Admit(k) \/ Look(k) \/ Disconnect(k)
  \/ Tick

Spec == Init /\ [][Next]_vars

-----------------------------------------------------------------------------
(* Properties *)

\* Of all registrations of one phone number, however many passed the SELECT before any of
\* them committed, one is answered 201: nobody else gets tokens for that number without
\* its password (auth.py, register).
OneAccountPerPhone == \A p \in Phones : Cardinality(created[p]) <= 1

\* A logout is final: a refresh that read the row before the logout cannot
\* bring it back, so every session is one a login made after it.
LogoutIsFinal == \A i \in revoked : rows[i] = Null

\* A refresh hands out a token only for a session that is there, or the very
\* token that session already had (auth.py, refresh_token).
RefreshIsBacked ==
  [][issued' \subseteq issued \/ \E i \in RowIds : rows'[i] # Null /\ rows'[i].access \in issued' \ issued]_vars

\* A socket whose expiry was read is closed while its token is still valid:
\* the loop looks at the clock more often than the margin is long.
SocketClosesInTime ==
  \A k \in Sockets : socket[k].at = "open" /\ socket[k].until # Null => now <= socket[k].until
=============================================================================
