--------------------------- MODULE AccountsProofs ---------------------------
(***************************************************************************)
(* Theorems about Accounts, for every number of phones, requests, sockets  *)
(* and rows, every lifetime of the tokens and every bound on the clock.    *)
(***************************************************************************)
EXTENDS Accounts, FiniteSetTheorems, TLAPS

\* What a handler carries from its SELECT to its commit.
RequestState(r) ==
  /\ r.at \in {"register", "login"} => r.phone \in Phones
  /\ r.at = "refresh" => r.id \in RowIds /\ r.row \in UserSession

SocketState(s) ==
  /\ s \in [at : {"away", "authenticated", "open"}, token : Token \cup {Null},
            until : Nat \cup {Null}, wake : Nat]
  /\ s.at = "authenticated" => s.token \in Token

Types ==
  /\ now \in Nat
  /\ rows \in [RowIds -> UserSession \cup {Null}]
  /\ revoked \subseteq RowIds
  /\ created \in [Phones -> SUBSET RowIds]
  /\ issued \subseteq Token
  /\ DOMAIN req = Requests /\ \A q \in Requests : RequestState(req[q])
  /\ DOMAIN socket = Sockets /\ \A k \in Sockets : SocketState(socket[k])

\* A phone without a user has no registration that was answered 201.
Registered ==
  \A p \in Phones : created[p] = {} \/ (p \in users /\ \E i \in RowIds : created[p] = {i})

\* A token that has not lapsed and that a row holds, or held when a refresh read it, is
\* one a client was given.
Known(token) == now <= token.exp => token \in issued

HeldIsIssued ==
  /\ \A i \in RowIds : rows[i] # Null => Known(rows[i].access)
  /\ \A q \in Requests : req[q].at = "refresh" => Known(req[q].row.access)

\* A socket wakes before its token lapses.
WakesInTime ==
  \A k \in Sockets :
    socket[k].at = "open" /\ socket[k].until # Null =>
      now <= socket[k].wake /\ socket[k].wake <= socket[k].until

-----------------------------------------------------------------------------

LEMMA NewTokens ==
  ASSUME NEW p \in Phones, now \in Nat
  PROVE  /\ AccessToken(p) \in Token /\ RefreshToken(p) \in Token
         /\ AccessToken(p).exp = now + AccessLife
         /\ NewRow(p) \in UserSession /\ NewRow(p) # Null
         /\ NewRow(p).access = AccessToken(p)
  BY LivesAssumption, NullAssumption DEF AccessToken, RefreshToken, NewRow, Token, UserSession

\* A refresh writes over a row that is there.
LEMMA UpdatesRow ==
  ASSUME NEW i, NEW old, NEW new, UpdateOutcome(i, old, new) = "update"
  PROVE  rows[i] # Null
  BY DEF UpdateOutcome

LEMMA NothingMeansEqual ==
  ASSUME NEW i, NEW old, NEW new, UpdateOutcome(i, old, new) # "fail",
         UpdateOutcome(i, old, new) # "update"
  PROVE  new = old
  BY DEF UpdateOutcome

\* What a refresh writes.
LEMMA Refreshed ==
  ASSUME Types, NEW q \in Requests, RefreshCommit(q)
  PROVE  \E i \in RowIds, old \in UserSession, new \in UserSession :
           /\ i = req[q].id /\ old = req[q].row
           /\ new = [old EXCEPT !.access = AccessToken(old.user)]
           /\ new.access = AccessToken(old.user)
           /\ \/ /\ UpdateOutcome(i, old, new) = "update"
                 /\ rows[i] \in UserSession
                 /\ rows' = [rows EXCEPT ![i] = [rows[i] EXCEPT !.access = new.access]]
                 /\ issued' = issued \cup {new.access}
              \/ /\ new = old
                 /\ rows' = rows
                 /\ issued' = issued \cup {new.access}
              \/ UNCHANGED <<rows, issued>>
<1> DEFINE i == req[q].id
           old == req[q].row
           new == [old EXCEPT !.access = AccessToken(old.user)]
           outcome == UpdateOutcome(i, old, new)
<1>1. i \in RowIds /\ old \in UserSession
  BY DEF Types, RequestState, RefreshCommit
<1>2. old.user \in Phones /\ AccessToken(old.user) \in Token
  BY <1>1, NewTokens DEF UserSession, Types
<1>3. new \in UserSession /\ new.access = AccessToken(old.user)
  BY <1>1, <1>2 DEF UserSession
<1>4. /\ rows' = IF outcome = "update"
                   THEN [rows EXCEPT ![i] = IF rows[i] = Null THEN new
                                              ELSE [rows[i] EXCEPT !.access = new.access]]
                   ELSE rows
      /\ issued' = IF outcome = "fail" THEN issued ELSE issued \cup {new.access}
  BY DEF RefreshCommit
<1>5. outcome = "update" => rows[i] # Null
  BY UpdatesRow
<1>6. outcome = "fail" \/ outcome = "update" \/ new = old
  BY NothingMeansEqual
<1>7. rows[i] # Null => rows[i] \in UserSession
  BY <1>1 DEF Types
<1> HIDE DEF i, old, new, outcome
<1>8. \/ /\ outcome = "update"
         /\ rows[i] \in UserSession
         /\ rows' = [rows EXCEPT ![i] = [rows[i] EXCEPT !.access = new.access]]
         /\ issued' = issued \cup {new.access}
      \/ new = old /\ rows' = rows /\ issued' = issued \cup {new.access}
      \/ UNCHANGED <<rows, issued>>
  BY <1>4, <1>5, <1>6, <1>7
<1> QED
  BY <1>1, <1>3, <1>8 DEF i, old, new, outcome

-----------------------------------------------------------------------------
LEMMA TypesInit == Init => Types
  BY DEF Init, Types, RequestState, SocketState, Idle, Gone, RowIds

LEMMA TypesStep == Types /\ [Next]_vars => Types'
<1> SUFFICES ASSUME Types, [Next]_vars
             PROVE  Types'
  OBVIOUS
<1>1. CASE UNCHANGED vars
  BY <1>1 DEF vars, Types, RequestState, SocketState
<1>2. ASSUME NEW q \in Requests, NEW p \in Phones, LoginCheck(q, p) \/ RegisterCheck(q, p)
      PROVE  Types'
  BY <1>2 DEF Types, LoginCheck, RegisterCheck, RequestState
<1>3. ASSUME NEW q \in Requests, NEW i \in RowIds, RefreshCheck(q, i)
      PROVE  Types'
  BY <1>3 DEF Types, RefreshCheck, RequestState
<1>4. ASSUME NEW q \in Requests, RegisterCommit(q)
      PROVE  Types'
  <2>1. req[q].phone \in Phones
    BY <1>4 DEF RegisterCommit, Types, RequestState
  <2>2. AccessToken(req[q].phone) \in Token /\ NewRow(req[q].phone) \in UserSession
    BY <2>1, NewTokens DEF Types
  <2>3. /\ rows' \in [RowIds -> UserSession \cup {Null}]
        /\ created' \in [Phones -> SUBSET RowIds]
        /\ issued' \subseteq Token
    BY <1>4, <2>1, <2>2 DEF RegisterCommit, Types
  <2> QED
    BY <1>4, <2>3 DEF RegisterCommit, Reply, Idle, Types, RequestState
<1>5. ASSUME NEW q \in Requests, LoginCommit(q)
      PROVE  Types'
  <2>1. req[q].phone \in Phones
    BY <1>5 DEF LoginCommit, Types, RequestState
  <2>2. AccessToken(req[q].phone) \in Token /\ NewRow(req[q].phone) \in UserSession
    BY <2>1, NewTokens DEF Types
  <2>3. rows' \in [RowIds -> UserSession \cup {Null}] /\ issued' \subseteq Token
    BY <1>5, <2>1, <2>2 DEF LoginCommit, Types
  <2> QED
    BY <1>5, <2>3 DEF LoginCommit, Reply, Idle, Types, RequestState
<1>6. ASSUME NEW q \in Requests, RefreshCommit(q)
      PROVE  Types'
  <2>1. rows' \in [RowIds -> UserSession \cup {Null}] /\ issued' \subseteq Token
    <3>1. PICK i \in RowIds, new \in UserSession :
            \/ /\ rows[i] \in UserSession
               /\ rows' = [rows EXCEPT ![i] = [rows[i] EXCEPT !.access = new.access]]
               /\ issued' = issued \cup {new.access}
            \/ rows' = rows /\ issued' = issued \cup {new.access}
            \/ UNCHANGED <<rows, issued>>
      BY <1>6, Refreshed
    <3>2. new.access \in Token
      BY DEF UserSession
    <3>3. CASE /\ rows[i] \in UserSession
               /\ rows' = [rows EXCEPT ![i] = [rows[i] EXCEPT !.access = new.access]]
               /\ issued' = issued \cup {new.access}
      <4>1. [rows[i] EXCEPT !.access = new.access] \in UserSession
        BY <3>2, <3>3 DEF UserSession
      <4> QED
        BY <3>2, <3>3, <4>1 DEF Types
    <3> QED
      BY <3>1, <3>2, <3>3 DEF Types
  <2> QED
    BY <1>6, <2>1 DEF RefreshCommit, Reply, Idle, Types, RequestState
<1>7. ASSUME NEW token, Logout(token)
      PROVE  Types'
  BY <1>7 DEF Types, Logout
<1>8. ASSUME NEW token \in issued, NEW k \in Sockets, Handshake(k, token)
      PROVE  Types'
  BY <1>8 DEF Types, Handshake, SetSocket, SocketState, Gone
<1>9. ASSUME NEW k \in Sockets, Admit(k) \/ Look(k) \/ Disconnect(k)
      PROVE  Types'
  <2>1. SocketState(socket[k]) /\ now \in Nat /\ Poll \in Nat
    BY LivesAssumption DEF Types
  <2>2. PICK s : SetSocket(k, s) /\ SocketState(s)
    <3>1. SocketState(Gone)
      BY DEF SocketState, Gone
    <3>2. CASE Admit(k)
      <4>1. PICK allowed \in BOOLEAN :
              SetSocket(k, IF allowed
                      THEN [socket[k] EXCEPT !.at = "open", !.wake = now,
                              !.until = IF Valid(socket[k].token) THEN socket[k].token.exp ELSE Null]
                      ELSE Gone)
        BY <3>2 DEF Admit
      <4>2. socket[k].token.exp \in Nat
        BY <2>1, <3>2 DEF Admit, SocketState, Token
      <4>3. SocketState([socket[k] EXCEPT !.at = "open", !.wake = now,
                  !.until = IF Valid(socket[k].token) THEN socket[k].token.exp ELSE Null])
        BY <2>1, <4>2 DEF SocketState
      <4> QED
        BY <3>1, <4>1, <4>3
    <3>3. CASE Look(k)
      BY <2>1, <3>1, <3>3 DEF Look, SocketState
    <3> QED
      BY <1>9, <3>1, <3>2, <3>3 DEF Disconnect
  <2> QED
    BY <2>2 DEF SetSocket, Types
<1>10. CASE Tick
  BY <1>10 DEF Tick, Types
<1> QED
  BY <1>1, <1>2, <1>3, <1>4, <1>5, <1>6, <1>7, <1>8, <1>9, <1>10 DEF Next

-----------------------------------------------------------------------------

LEMMA LogoutInit == Init => LogoutIsFinal
  BY DEF Init, LogoutIsFinal

\* A new row takes an id no logout has deleted, and a refresh writes no row that is gone.
LEMMA LogoutStep == Types /\ LogoutIsFinal /\ [Next]_vars => LogoutIsFinal'
<1> SUFFICES ASSUME Types, LogoutIsFinal, [Next]_vars
             PROVE  LogoutIsFinal'
  OBVIOUS
<1> USE DEF LogoutIsFinal
<1>0. rows \in [RowIds -> UserSession \cup {Null}] /\ revoked \subseteq RowIds
  BY DEF Types
<1>1. CASE UNCHANGED vars
  BY <1>1 DEF vars
<1>2. ASSUME NEW q \in Requests, NEW p \in Phones, LoginCheck(q, p) \/ RegisterCheck(q, p)
      PROVE  LogoutIsFinal'
  BY <1>2 DEF LoginCheck, RegisterCheck
<1>3. ASSUME NEW q \in Requests, NEW i \in RowIds, RefreshCheck(q, i)
      PROVE  LogoutIsFinal'
  BY <1>3 DEF RefreshCheck
<1>4. ASSUME NEW q \in Requests, RegisterCommit(q) \/ LoginCommit(q)
      PROVE  LogoutIsFinal'
  <2>1. UNCHANGED revoked
    BY <1>4 DEF RegisterCommit, LoginCommit
  <2>2. rows' = rows \/ \E i \in RowIds : i \notin revoked /\ \E r : rows' = [rows EXCEPT ![i] = r]
    BY <1>4 DEF RegisterCommit, LoginCommit, Fresh
  <2> QED
    BY <1>0, <2>1, <2>2
<1>5. ASSUME NEW q \in Requests, RefreshCommit(q)
      PROVE  LogoutIsFinal'
  <2>1. UNCHANGED revoked
    BY <1>5 DEF RefreshCommit
  <2>2. rows' = rows \/ \E i \in RowIds : rows[i] # Null /\ \E r : rows' = [rows EXCEPT ![i] = r]
    BY <1>5, Refreshed, NullAssumption
  <2> QED
    BY <1>0, <2>1, <2>2
<1>6. ASSUME NEW token, Logout(token)
      PROVE  LogoutIsFinal'
  BY <1>0, <1>6 DEF Logout
<1>7. ASSUME NEW k \in Sockets, (\E token \in issued : Handshake(k, token)) \/ Admit(k) \/ Look(k) \/ Disconnect(k)
      PROVE  LogoutIsFinal'
  BY <1>7 DEF Handshake, Admit, Look, Disconnect, SetSocket
<1>8. CASE Tick
  BY <1>8 DEF Tick
<1> QED
  BY <1>1, <1>2, <1>3, <1>4, <1>5, <1>6, <1>7, <1>8 DEF Next

-----------------------------------------------------------------------------

LEMMA RegisteredInit == Init => Registered
<1>1. Init => \A p \in Phones : created[p] = {}
  BY DEF Init
<1> QED
  BY <1>1 DEF Registered

\* The insert that is not refused is that of a phone without a user.
LEMMA RegisteredStep == Types /\ Registered /\ [Next]_vars => Registered'
<1> SUFFICES ASSUME Types, Registered, [Next]_vars
             PROVE  Registered'
  OBVIOUS
<1> USE DEF Registered
<1>0. created \in [Phones -> SUBSET RowIds]
  BY DEF Types
<1>1. CASE UNCHANGED vars
  BY <1>1 DEF vars
<1>2. ASSUME NEW q \in Requests, NEW p \in Phones, LoginCheck(q, p) \/ RegisterCheck(q, p)
      PROVE  Registered'
  BY <1>2 DEF LoginCheck, RegisterCheck
<1>3. ASSUME NEW q \in Requests, NEW i \in RowIds, RefreshCheck(q, i)
      PROVE  Registered'
  BY <1>3 DEF RefreshCheck
<1>4. ASSUME NEW q \in Requests, RegisterCommit(q)
      PROVE  Registered'
  <2> DEFINE p == req[q].phone
  <2>1. p \in Phones
    BY <1>4 DEF Types, RequestState, RegisterCommit
  <2>2. CASE UNCHANGED <<users, created>>
    BY <2>2
  <2>3. CASE p \notin users /\ \E i \in RowIds :
               users' = users \cup {p} /\ created' = [created EXCEPT ![p] = @ \cup {i}]
    <3>1. PICK i \in RowIds :
            users' = users \cup {p} /\ created' = [created EXCEPT ![p] = @ \cup {i}]
      BY <2>3
    <3>2. created[p] = {}
      BY <2>1, <2>3
    <3>3. created'[p] = {i} /\ \A o \in Phones \ {p} : created'[o] = created[o]
      BY <1>0, <2>1, <3>1, <3>2
    <3> HIDE DEF p
    <3> QED
      BY <2>1, <3>1, <3>3
  <2>4. PICK refused \in UserRefused(p) :
          IF refused
            THEN UNCHANGED <<users, created>>
            ELSE \E i \in RowIds :
                   users' = users \cup {p} /\ created' = [created EXCEPT ![p] = @ \cup {i}]
    BY <1>4 DEF RegisterCommit
  <2>5. refused \/ p \notin users
    BY <2>4 DEF UserRefused
  <2> QED
    BY <2>2, <2>3, <2>4, <2>5
<1>5. ASSUME NEW q \in Requests, LoginCommit(q) \/ RefreshCommit(q)
      PROVE  Registered'
  BY <1>5 DEF LoginCommit, RefreshCommit
<1>6. ASSUME NEW token, Logout(token)
      PROVE  Registered'
  BY <1>6 DEF Logout
<1>7. ASSUME NEW k \in Sockets, (\E token \in issued : Handshake(k, token)) \/ Admit(k) \/ Look(k) \/ Disconnect(k)
      PROVE  Registered'
  BY <1>7 DEF Handshake, Admit, Look, Disconnect, SetSocket
<1>8. CASE Tick
  BY <1>8 DEF Tick
<1> QED
  BY <1>1, <1>2, <1>3, <1>4, <1>5, <1>6, <1>7, <1>8 DEF Next

-----------------------------------------------------------------------------

LEMMA WakesInit == Init => WakesInTime
  BY DEF Init, WakesInTime, Gone

\* At each look the next one is due before the token lapses, for Poll < Margin; the clock
\* does not pass a socket that is due.
LEMMA WakesStep == Types /\ WakesInTime /\ [Next]_vars => WakesInTime'
<1> SUFFICES ASSUME Types, WakesInTime, [Next]_vars
             PROVE  WakesInTime'
  OBVIOUS
<1>0. /\ DOMAIN socket = Sockets /\ \A k \in Sockets : SocketState(socket[k])
      /\ now \in Nat /\ Poll \in Nat /\ Margin \in Nat /\ Poll < Margin
  BY LivesAssumption, MarginAssumption DEF Types
<1>1. CASE UNCHANGED <<now, socket>>
  BY <1>1 DEF WakesInTime
<1>2. ASSUME NEW q \in Requests,
             RegisterCommit(q) \/ LoginCommit(q) \/ RefreshCommit(q)
               \/ (\E p \in Phones : LoginCheck(q, p) \/ RegisterCheck(q, p))
               \/ (\E i \in RowIds : RefreshCheck(q, i))
      PROVE  UNCHANGED <<now, socket>>
  BY <1>2 DEF RegisterCommit, LoginCommit, RefreshCommit, LoginCheck, RegisterCheck, RefreshCheck
<1>3. ASSUME NEW token, Logout(token)
      PROVE  UNCHANGED <<now, socket>>
  BY <1>3 DEF Logout
<1>4. ASSUME NEW k \in Sockets, NEW s, SetSocket(k, s),
             s.at = "open" /\ s.until # Null => now <= s.wake /\ s.wake <= s.until
      PROVE  WakesInTime'
  BY <1>0, <1>4 DEF WakesInTime, SetSocket
<1>5. ASSUME NEW k \in Sockets, (\E token \in issued : Handshake(k, token)) \/ Disconnect(k)
      PROVE  WakesInTime'
  <2>1. [Gone EXCEPT !.at = "authenticated"].at = "authenticated" /\ Gone.at = "away"
    BY DEF Gone
  <2>2. \A token : [Gone EXCEPT !.at = "authenticated", !.token = token].at = "authenticated"
    BY DEF Gone
  <2> QED
    BY <1>4, <1>5, <2>1, <2>2 DEF Handshake, Disconnect
<1>6. ASSUME NEW k \in Sockets, Admit(k)
      PROVE  WakesInTime'
  <2>1. /\ socket[k] \in [at : {"away", "authenticated", "open"}, token : Token \cup {Null},
                          until : Nat \cup {Null}, wake : Nat]
        /\ socket[k].token \in Token
    BY <1>0, <1>6 DEF Admit, SocketState
  <2> DEFINE s == [socket[k] EXCEPT !.at = "open", !.wake = now,
                     !.until = IF Valid(socket[k].token) THEN socket[k].token.exp ELSE Null]
  <2>2. s.wake = now /\ s.until = IF now <= socket[k].token.exp THEN socket[k].token.exp ELSE Null
    BY <2>1 DEF Valid
  <2>3. s.until # Null => now <= s.wake /\ s.wake <= s.until
    BY <1>0, <2>1, <2>2 DEF Token
  <2>4. SetSocket(k, s) \/ SetSocket(k, Gone)
    BY <1>6 DEF Admit
  <2>5. Gone.at = "away"
    BY DEF Gone
  <2> HIDE DEF s
  <2> QED
    BY <1>4, <2>3, <2>4, <2>5
<1>7. ASSUME NEW k \in Sockets, Look(k)
      PROVE  WakesInTime'
  <2>1. /\ socket[k] \in [at : {"away", "authenticated", "open"}, token : Token \cup {Null},
                          until : Nat \cup {Null}, wake : Nat]
    BY <1>0 DEF SocketState
  <2> DEFINE s == [socket[k] EXCEPT !.wake = now + Poll]
  <2>2. s.wake = now + Poll /\ s.until = socket[k].until
    BY <2>1
  <2>3. ~Lapsing(socket[k]) /\ s.until # Null => now <= s.wake /\ s.wake <= s.until
    BY <1>0, <2>1, <2>2 DEF Lapsing
  <2>4. SetSocket(k, IF Lapsing(socket[k]) THEN Gone ELSE s)
    BY <1>7 DEF Look
  <2>5. Gone.at = "away"
    BY DEF Gone
  <2> HIDE DEF s
  <2> QED
    BY <1>4, <2>3, <2>4, <2>5
<1>8. CASE Tick
  <2>1. \A k \in Sockets : socket[k].at = "open" => socket[k].wake > now
    BY <1>8 DEF Tick
  <2>2. now' = now + 1 /\ socket' = socket
    BY <1>8 DEF Tick
  <2>3. \A k \in Sockets : socket[k].wake \in Nat
    BY <1>0 DEF SocketState
  <2> QED
    BY <1>0, <2>1, <2>2, <2>3 DEF WakesInTime
<1>9. CASE UNCHANGED vars
  BY <1>1, <1>9 DEF vars
<1> QED
  BY <1>1, <1>2, <1>3, <1>5, <1>6, <1>7, <1>8, <1>9 DEF Next

-----------------------------------------------------------------------------

LEMMA HeldInit == Init => HeldIsIssued
  BY DEF Init, HeldIsIssued, Idle

\* Every token that is written into a row is handed to a client in the same step.
LEMMA HeldStep == Types /\ HeldIsIssued /\ [Next]_vars => HeldIsIssued'
<1> SUFFICES ASSUME Types, HeldIsIssued, [Next]_vars
             PROVE  HeldIsIssued'
  OBVIOUS
<1>0. /\ rows \in [RowIds -> UserSession \cup {Null}]
      /\ DOMAIN req = Requests /\ now \in Nat /\ issued \subseteq Token
  BY DEF Types
<1>1. CASE UNCHANGED vars
  BY <1>1 DEF vars, HeldIsIssued, Known
<1>2. ASSUME NEW q \in Requests, NEW p \in Phones, LoginCheck(q, p) \/ RegisterCheck(q, p)
      PROVE  HeldIsIssued'
  BY <1>0, <1>2 DEF HeldIsIssued, Known, LoginCheck, RegisterCheck
<1>3. ASSUME NEW q \in Requests, NEW i \in RowIds, RefreshCheck(q, i)
      PROVE  HeldIsIssued'
  BY <1>0, <1>3 DEF HeldIsIssued, Known, RefreshCheck
\* A commit that gives a row a token and the client the same one.
<1>4. ASSUME NEW q \in Requests, Reply(q), now' = now, issued \subseteq issued',
             \A i \in RowIds : \/ rows'[i] = rows[i]
                               \/ rows'[i] # Null => rows'[i].access \in issued'
      PROVE  HeldIsIssued'
  <2>1. ASSUME NEW i \in RowIds, rows'[i] # Null, now <= rows'[i].access.exp
        PROVE  rows'[i].access \in issued'
    <3>1. CASE rows'[i] = rows[i]
      BY <1>4, <2>1, <3>1 DEF HeldIsIssued, Known
    <3>2. CASE rows'[i].access \in issued'
      BY <3>2
    <3> QED
      BY <1>4, <2>1, <3>1, <3>2
  <2>2. \A o \in Requests : req'[o].at = "refresh" => req'[o] = req[o]
    BY <1>0, <1>4 DEF Reply, Idle
  <2>3. ASSUME NEW o \in Requests, req'[o].at = "refresh", now <= req'[o].row.access.exp
        PROVE  req'[o].row.access \in issued'
    <3>1. req'[o] = req[o]
      BY <2>2, <2>3
    <3> QED
      BY <1>4, <2>3, <3>1 DEF HeldIsIssued, Known
  <2> QED
    BY <1>4, <2>1, <2>3 DEF HeldIsIssued, Known
<1>5. ASSUME NEW q \in Requests, RegisterCommit(q) \/ LoginCommit(q)
      PROVE  HeldIsIssued'
  <2> DEFINE p == req[q].phone
  <2>1. p \in Phones
    BY <1>5 DEF Types, RequestState, RegisterCommit, LoginCommit
  <2>2. NewRow(p).access = AccessToken(p)
    BY <1>0, <2>1, NewTokens
  <2>3. \/ UNCHANGED <<rows, issued>>
        \/ \E i \in RowIds : /\ rows' = [rows EXCEPT ![i] = NewRow(p)]
                             /\ issued' = issued \cup {AccessToken(p)}
    BY <1>5 DEF RegisterCommit, LoginCommit
  <2>4. now' = now /\ Reply(q)
    BY <1>5 DEF RegisterCommit, LoginCommit
  <2> HIDE DEF p
  <2>5. \A i \in RowIds : \/ rows'[i] = rows[i]
                          \/ rows'[i] # Null => rows'[i].access \in issued'
    BY <1>0, <2>2, <2>3
  <2> QED
    BY <1>4, <2>3, <2>4, <2>5
<1>6. ASSUME NEW q \in Requests, RefreshCommit(q)
      PROVE  HeldIsIssued'
  <2>1. now' = now /\ Reply(q)
    BY <1>6 DEF RefreshCommit
  <2>2. PICK i \in RowIds, new \in UserSession :
          \/ /\ rows[i] \in UserSession
             /\ rows' = [rows EXCEPT ![i] = [rows[i] EXCEPT !.access = new.access]]
             /\ issued' = issued \cup {new.access}
          \/ rows' = rows /\ issued' = issued \cup {new.access}
          \/ UNCHANGED <<rows, issued>>
    BY <1>6, Refreshed
  <2>3. \A j \in RowIds : \/ rows'[j] = rows[j]
                          \/ rows'[j] # Null => rows'[j].access \in issued'
    BY <1>0, <2>2 DEF UserSession
  <2>4. issued \subseteq issued'
    BY <2>2
  <2> QED
    BY <1>4, <2>1, <2>3, <2>4
<1>7. ASSUME NEW token, Logout(token)
      PROVE  HeldIsIssued'
  BY <1>0, <1>7 DEF HeldIsIssued, Known, Logout
<1>8. ASSUME NEW k \in Sockets, (\E token \in issued : Handshake(k, token)) \/ Admit(k) \/ Look(k) \/ Disconnect(k)
      PROVE  HeldIsIssued'
  BY <1>8 DEF HeldIsIssued, Known, Handshake, Admit, Look, Disconnect, SetSocket
<1>9. CASE Tick
  <2>1. now' = now + 1 /\ issued' = {token \in issued : now' <= token.exp} /\ UNCHANGED <<rows, req>>
    BY <1>9 DEF Tick
  <2>2. ASSUME NEW token, token.exp \in Nat, Known(token)
        PROVE  Known(token)'
    BY <1>0, <2>1, <2>2 DEF Known
  <2>3. \A i \in RowIds : rows[i] # Null => rows[i].access.exp \in Nat
    BY <1>0 DEF UserSession, Token
  <2>4. \A q \in Requests : req[q].at = "refresh" => req[q].row.access.exp \in Nat
    BY DEF Types, RequestState, UserSession, Token
  <2> QED
    BY <2>1, <2>2, <2>3, <2>4 DEF HeldIsIssued
<1> QED
  BY <1>1, <1>2, <1>3, <1>5, <1>6, <1>7, <1>8, <1>9 DEF Next

\* A refresh after a logout hands out nothing but the token the client has already.
LEMMA BackedStep ==
  Types /\ HeldIsIssued /\ [Next]_vars =>
    \/ issued' \subseteq issued
    \/ \E i \in RowIds : rows'[i] # Null /\ rows'[i].access \in issued' \ issued
    \/ UNCHANGED vars
<1> SUFFICES ASSUME Types, HeldIsIssued, Next, ~(issued' \subseteq issued)
             PROVE  \E i \in RowIds : rows'[i] # Null /\ rows'[i].access \in issued' \ issued
  OBVIOUS
<1>0. rows \in [RowIds -> UserSession \cup {Null}] /\ now \in Nat
  BY DEF Types
<1>1. ASSUME NEW q \in Requests, RegisterCommit(q) \/ LoginCommit(q)
      PROVE  \E i \in RowIds : rows'[i] # Null /\ rows'[i].access \in issued' \ issued
  <2> DEFINE p == req[q].phone
  <2>1. p \in Phones
    BY <1>1 DEF Types, RequestState, RegisterCommit, LoginCommit
  <2>2. NewRow(p).access = AccessToken(p) /\ NewRow(p) # Null
    BY <1>0, <2>1, NewTokens
  <2>3. \/ UNCHANGED <<rows, issued>>
        \/ \E i \in RowIds : /\ rows' = [rows EXCEPT ![i] = NewRow(p)]
                             /\ issued' = issued \cup {AccessToken(p)}
    BY <1>1 DEF RegisterCommit, LoginCommit
  <2> HIDE DEF p
  <2>4. PICK i \in RowIds : /\ rows' = [rows EXCEPT ![i] = NewRow(p)]
                            /\ issued' = issued \cup {AccessToken(p)}
    BY <2>3
  <2>5. rows'[i] = NewRow(p)
    BY <1>0, <2>4
  <2> QED
    BY <2>2, <2>4, <2>5
<1>2. ASSUME NEW q \in Requests, RefreshCommit(q)
      PROVE  \E i \in RowIds : rows'[i] # Null /\ rows'[i].access \in issued' \ issued
  <2>1. PICK i \in RowIds, old \in UserSession, new \in UserSession :
          /\ old = req[q].row
          /\ new.access = AccessToken(old.user)
          /\ \/ /\ rows[i] \in UserSession
                /\ rows' = [rows EXCEPT ![i] = [rows[i] EXCEPT !.access = new.access]]
                /\ issued' = issued \cup {new.access}
             \/ /\ new = old
                /\ rows' = rows
                /\ issued' = issued \cup {new.access}
             \/ UNCHANGED <<rows, issued>>
    BY <1>2, Refreshed
  <2>2. new # old
    <3>1. SUFFICES ASSUME new = old
                   PROVE  old.access \in issued
      BY <2>1
    <3>2. now <= old.access.exp
      BY <1>0, <2>1, <3>1, NewTokens, LivesAssumption DEF UserSession
    <3>3. Known(old.access)
      BY <1>2, <2>1 DEF HeldIsIssued, RefreshCommit
    <3> QED
      BY <3>2, <3>3 DEF Known
  <2>3. /\ rows[i] \in UserSession
        /\ rows' = [rows EXCEPT ![i] = [rows[i] EXCEPT !.access = new.access]]
        /\ issued' = issued \cup {new.access}
    BY <2>1, <2>2
  <2>4. rows'[i] \in UserSession /\ rows'[i].access = new.access
    BY <1>0, <2>3 DEF UserSession
  <2> QED
    BY <2>3, <2>4, NullAssumption
<1>3. ASSUME NEW q \in Requests,
             (\E p \in Phones : LoginCheck(q, p) \/ RegisterCheck(q, p))
               \/ (\E i \in RowIds : RefreshCheck(q, i))
      PROVE  UNCHANGED issued
  BY <1>3 DEF LoginCheck, RegisterCheck, RefreshCheck
<1>4. ASSUME NEW token, Logout(token)
      PROVE  UNCHANGED issued
  BY <1>4 DEF Logout
<1>5. ASSUME NEW k \in Sockets, (\E token \in issued : Handshake(k, token)) \/ Admit(k) \/ Look(k) \/ Disconnect(k)
      PROVE  UNCHANGED issued
  BY <1>5 DEF Handshake, Admit, Look, Disconnect, SetSocket
<1>6. Tick => issued' \subseteq issued
  BY DEF Tick
<1> QED
  BY <1>1, <1>2, <1>3, <1>4, <1>5, <1>6 DEF Next

-----------------------------------------------------------------------------

\* auth.py, logout: a refresh that read its row before the logout brings nothing back.
THEOREM LogoutFinal == Spec => []LogoutIsFinal
  BY TypesInit, TypesStep, LogoutInit, LogoutStep, PTL DEF Spec

\* auth.py, register: of all registrations of one phone number one is answered 201.
THEOREM OneAccount == Spec => []OneAccountPerPhone
<1>1. Registered => OneAccountPerPhone
  <2> SUFFICES ASSUME Registered, NEW p \in Phones
               PROVE  Cardinality(created[p]) <= 1
    BY DEF OneAccountPerPhone
  <2>1. CASE created[p] = {}
    BY <2>1, FS_EmptySet
  <2>2. CASE \E i \in RowIds : created[p] = {i}
    <3>1. PICK i \in RowIds : created[p] = {i}
      BY <2>2
    <3>2. Cardinality({i}) = 1
      BY FS_Singleton
    <3> QED
      BY <3>1, <3>2
  <2> QED
    BY <2>1, <2>2 DEF Registered
<1> QED
  BY <1>1, TypesInit, TypesStep, RegisteredInit, RegisteredStep, PTL DEF Spec

\* live.py: a socket is closed before the token it was opened with lapses.
THEOREM SocketCloses == Spec => []SocketClosesInTime
<1>1. Types /\ WakesInTime => SocketClosesInTime
  BY DEF Types, SocketState, WakesInTime, SocketClosesInTime
<1> QED
  BY <1>1, TypesInit, TypesStep, WakesInit, WakesStep, PTL DEF Spec

\* auth.py, refresh_token: a token that is new belongs to a session that is there.
THEOREM RefreshBacked == Spec => RefreshIsBacked
  BY TypesInit, TypesStep, HeldInit, HeldStep, BackedStep, PTL DEF Spec, RefreshIsBacked
=============================================================================
