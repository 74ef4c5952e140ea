---------------------------- MODULE AccessProofs ----------------------------
(***************************************************************************)
(* Proofs about signing in and out and the gateway: the state is           *)
(* well-typed, no address is registered twice, a logout is for good, and a *)
(* limiter bounds what it lets through, for any number of users, browsers, *)
(* calls and gateway replicas.                                             *)
(***************************************************************************)
EXTENDS Access, CountingProofs, SequenceTheorems, TLAPS

SessionRows == [user : accounts, expires : Nat, revoked : 0..now \cup {Never}]
IssuedTokens == [token : Tokens, found : 0..now, row : 0..Len(rows)]
Windows == [Gateways -> [Limiters -> [Keys -> [start : Nat, hits : Nat]]]]
CallOps == AuthOps \cup {"none", "cart", "catalog", "health"}
CallRecords == [op : CallOps, user : Users \cup {Anyone}, row : 0..Len(rows), bearer : Tokens,
                pc : CallStates, found : 0..now, status : Nat]

\* One call.  A refresh that is about to sign found its row before the row was revoked.
CallOK(q) ==
  /\ q \in CallRecords
  /\ q.pc \in {"sign", "storeToken"} => q.user \in accounts
  /\ q.pc \in {"findUser", "insertUser"} => q.user \in Users
  /\ q.pc = "findToken" => q.row # 0
  /\ q.pc # "answered" => q.status = 0
  /\ q.op = "register" /\ q.status = 201 => q.user \in accounts
  /\ q.pc = "sign" /\ q.op # "login" => q.row # 0 /\ q.found <= rows[q.row].revoked

\* One browser, when there are n rows.
BrowserOK(q, n) ==
  /\ q \in [pc : {"idle", "registering", "signingIn", "signingOut"}, user : Users \cup {Anyone},
            call : Calls \cup {0}, session : Tokens, row : 0..n]
  /\ q.pc = "registering" => q.user \in Users

TablesOK ==
  /\ use \in Uses
  /\ now \in 0..MaxTime
  /\ windows \in Windows
  /\ accounts \subseteq Users
  /\ rows \in Seq(SessionRows)
  /\ issued \subseteq IssuedTokens

CallsOK ==
  /\ DOMAIN call = Calls /\ call = [c \in Calls |-> call[c]]
  /\ \A c \in Calls : CallOK(call[c])

BrowsersOK ==
  /\ DOMAIN browser = Browsers /\ browser = [b \in Browsers |-> browser[b]]
  /\ \A b \in Browsers : BrowserOK(browser[b], Len(rows))

\* The inductive invariant.
AccessInv == TablesOK /\ CallsOK /\ BrowsersOK /\ RegisteredOnce /\ LogoutIsForGood

LEMMA InvImpliesTypeOK == AccessInv => TypeOK
<1> SUFFICES ASSUME AccessInv PROVE TypeOK
  OBVIOUS
<1>1. call \in [Calls -> CallRecords]
  BY DEF AccessInv, CallsOK, CallOK
<1>2. browser \in [Browsers -> [pc : {"idle", "registering", "signingIn", "signingOut"},
                               user : Users \cup {Anyone}, call : Calls \cup {0},
                               session : Tokens, row : 0..Len(rows)]]
  BY DEF AccessInv, BrowsersOK, BrowserOK
<1> QED BY <1>1, <1>2
        DEF AccessInv, TablesOK, CallsOK, CallOK, BrowsersOK, BrowserOK, TypeOK, SessionRows,
            IssuedTokens, Windows, CallRecords, CallOps

LEMMA Times == MaxTime \in Nat /\ Never = MaxTime + 1 /\ Never \in Nat
  BY GatewayAssumption DEF Never

-----------------------------------------------------------------------------
(* What the steps have in common *)

\* The tables of the auth service only grow, but for a row that is revoked now.
TablesGrow ==
  /\ now' = now
  /\ accounts \subseteq accounts' /\ accounts' \subseteq Users
  /\ rows' \in Seq(SessionRows')
  /\ Len(rows) <= Len(rows')
  /\ \A i \in 1..Len(rows) :
       /\ rows'[i].user = rows[i].user
       /\ rows'[i].revoked = rows[i].revoked
            \/ (rows[i].revoked = Never /\ rows'[i].revoked = now)

\* What is issued is issued for no row, or for a row found before it was revoked.
IssuedGrow ==
  \A t \in issued' : t \in issued \/ t.row = 0
                     \/ (/\ t.row \in 1..Len(rows) /\ t.found \in 0..now
                         /\ t.found <= rows[t.row].revoked)

\* Call c moves on to q.
Moves(c, q) == call' = [call EXCEPT ![c] = q]

\* A logged-out call's promise.
Ended(q) ==
  \A i \in 1..q.row : rows[i].user = q.bearer.user =>
    /\ rows[i].revoked <= q.found
    /\ \A t \in issued : t.row = i => t.found <= q.found

LEMMA CallKept ==
  ASSUME NEW q, TablesOK, TablesGrow, CallOK(q)
  PROVE  CallOK(q)'
<1>1. rows \in Seq(SessionRows) /\ Len(rows) \in Nat /\ Len(rows') \in Nat /\ now \in Nat
  BY Times DEF TablesOK, TablesGrow
<1>2. q \in CallRecords'
  BY <1>1 DEF CallOK, CallRecords, TablesGrow
<1>3. ASSUME q.pc = "sign", q.op # "login" PROVE q.row # 0 /\ q.found <= rows'[q.row].revoked
  <2>1. q.row \in 1..Len(rows) /\ q.found \in 0..now /\ q.found <= rows[q.row].revoked
    BY <1>1, <1>3 DEF CallOK, CallRecords
  <2> QED BY <1>1, <2>1 DEF TablesGrow
<1> QED BY <1>2, <1>3 DEF CallOK, TablesGrow

LEMMA BrowsersKept ==
  ASSUME TablesOK, TablesGrow, BrowsersOK, UNCHANGED browser
  PROVE  BrowsersOK'
<1>1. Len(rows) \in Nat /\ Len(rows') \in Nat /\ Len(rows) <= Len(rows')
  BY DEF TablesOK, TablesGrow
<1>2. \A b \in Browsers : BrowserOK(browser'[b], Len(rows'))
  BY <1>1 DEF BrowsersOK, BrowserOK
<1> QED BY <1>2 DEF BrowsersOK

\* What a logout ended stays ended: a revoked row stays revoked, and a token is issued
\* only for a row found before it was revoked.
LEMMA EndedKept ==
  ASSUME NEW q, TablesOK, TablesGrow, CallOK(q), Ended(q),
         IssuedGrow
  PROVE  Ended(q)'
<1> SUFFICES ASSUME NEW i \in 1..q.row, rows'[i].user = q.bearer.user
             PROVE  /\ rows'[i].revoked <= q.found
                    /\ \A t \in issued' : t.row = i => t.found <= q.found
  BY DEF Ended
<1>1. q.row \in 0..Len(rows) /\ q.found \in 0..now /\ now \in 0..MaxTime /\ Len(rows) \in Nat
  BY DEF CallOK, CallRecords, TablesOK
<1>2. i \in 1..Len(rows) /\ i # 0
  BY <1>1
<1>3. rows[i].user = q.bearer.user
  BY <1>2 DEF TablesGrow
<1>4. rows[i].revoked <= q.found /\ \A t \in issued : t.row = i => t.found <= q.found
  BY <1>3 DEF Ended
<1>5. rows[i] \in SessionRows
  BY <1>2 DEF TablesOK
<1>6. rows[i].revoked \in Nat /\ rows[i].revoked # Never
  BY <1>1, <1>4, <1>5, Times DEF SessionRows
<1>7. rows'[i].revoked = rows[i].revoked
  BY <1>2, <1>6 DEF TablesGrow
<1>8. ASSUME NEW t \in issued', t.row = i PROVE t.found <= q.found
  BY <1>1, <1>2, <1>4, <1>6, <1>8 DEF IssuedGrow
<1> QED BY <1>4, <1>7, <1>8

\* One call moves on.
LEMMA CallStep ==
  ASSUME NEW c \in Calls, NEW q, AccessInv, TablesGrow, TablesOK', BrowsersOK',
         Moves(c, q), CallOK(q)',
         q.op = "register" /\ q.status = 201 => q.user \notin accounts,
         q.op = "logout" /\ q.status = 204 => Ended(q)',
         IssuedGrow
  PROVE  AccessInv'
<1>1. \A d \in Calls : call'[d] = IF d = c THEN q ELSE call[d]
  BY DEF Moves, AccessInv, CallsOK
<1>2. \A d \in Calls : CallOK(call[d])
  BY DEF AccessInv, CallsOK
<1>3. CallsOK'
  <2>1. \A d \in Calls : CallOK(call[d])'
    <3> TAKE d \in Calls
    <3>1. CASE d = c
      BY <1>1, <3>1 DEF CallOK, CallRecords, TablesGrow
    <3>2. CASE d # c
      <4> DEFINE other == call[d]
      <4>1. CallOK(other)
        BY <1>2
      <4> QED BY <1>1, <1>2, <3>2, CallKept DEF AccessInv
    <3> QED BY <3>1, <3>2
  <2>2. call' = [d \in Calls |-> call'[d]] /\ DOMAIN call' = Calls
    BY DEF Moves, AccessInv, CallsOK
  <2> QED BY <2>1, <2>2 DEF CallsOK
<1>4. RegisteredOnce'
  <2> SUFFICES ASSUME NEW d \in Calls, NEW e \in Calls,
                      call'[d].op = "register", call'[d].status = 201, call'[e].op = "register",
                      call'[e].status = 201, call'[d].user = call'[e].user, d # e
               PROVE  FALSE
    BY DEF RegisteredOnce
  <2>1. CASE d # c /\ e # c
    BY <1>1, <2>1 DEF AccessInv, RegisteredOnce
  <2>2. CASE d = c
    BY <1>1, <1>2, <2>2 DEF CallOK
  <2>3. CASE e = c
    BY <1>1, <1>2, <2>3 DEF CallOK
  <2> QED BY <2>1, <2>2, <2>3
<1>5. LogoutIsForGood'
  <2> SUFFICES ASSUME NEW d \in Calls, call'[d].op = "logout", call'[d].status = 204
               PROVE  Ended(call[d])'
    BY DEF LogoutIsForGood, Ended
  <2>1. CASE d = c
    BY <1>1, <2>1 DEF Ended
  <2>2. CASE d # c
    <3>1. PICK other : other = call[d]
      OBVIOUS
    <3>2. CallOK(other)
      BY <1>2, <3>1
    <3>3. Ended(other)
      BY <1>1, <2>2, <3>1 DEF AccessInv, LogoutIsForGood, Ended
    <3>4. Ended(other)'
      BY <3>2, <3>3, EndedKept DEF AccessInv
    <3> QED BY <1>1, <2>2, <3>1, <3>4 DEF Ended
  <2> QED BY <2>1, <2>2
<1> QED BY <1>3, <1>4, <1>5 DEF AccessInv

\* Steps that leave the tables alone grow them.
LEMMA SameTables ==
  ASSUME AccessInv, UNCHANGED <<now, accounts, rows>>
  PROVE  TablesGrow
<1>1. rows \in Seq(SessionRows) /\ Len(rows) \in Nat /\ accounts \subseteq Users
  BY DEF AccessInv, TablesOK
<1>2. SessionRows' = SessionRows
  BY DEF SessionRows
<1> QED BY <1>1, <1>2 DEF TablesGrow

\* A call moves on and leaves the tables alone.
LEMMA QuietCall ==
  ASSUME NEW c \in Calls, NEW q, AccessInv, CallOK(q), Moves(c, q),
         q.status \notin {201, 204}, UNCHANGED <<now, accounts, rows, issued, use>>,
         windows' \in Windows, BrowsersOK'
  PROVE  AccessInv'
<1>1. TablesGrow
  BY SameTables
<1>2. TablesOK'
  BY DEF AccessInv, TablesOK, SessionRows, IssuedTokens
<1>3. CallOK(q)'
  BY <1>1, CallKept DEF AccessInv
<1>4. IssuedGrow
  BY DEF IssuedGrow
<1> QED BY <1>1, <1>2, <1>3, <1>4, CallStep

-----------------------------------------------------------------------------
(* The auth service *)

\* The three writes of the auth service, on the tables.
LEMMA NewAccountOK ==
  ASSUME NEW user \in Users, AccessInv, NewAccount(user),
         UNCHANGED <<now, windows, browser, use, issued>>
  PROVE  TablesGrow /\ TablesOK' /\ BrowsersOK'
<1>1. /\ rows \in Seq(SessionRows) /\ rows' = rows /\ Len(rows) \in Nat
      /\ accounts' = accounts \cup {user} /\ accounts \subseteq Users
  BY DEF AccessInv, TablesOK, NewAccount
<1>2. SessionRows \subseteq SessionRows'
  BY <1>1 DEF SessionRows
<1>3. rows' \in Seq(SessionRows')
  BY <1>1, <1>2
<1>4. TablesGrow
  BY <1>1, <1>3 DEF TablesGrow
<1>5. TablesOK'
  BY <1>1, <1>3 DEF AccessInv, TablesOK, IssuedTokens
<1> QED BY <1>4, <1>5, BrowsersKept DEF AccessInv

LEMMA NewSessionOK ==
  ASSUME NEW user \in accounts, AccessInv, NewSession(user),
         UNCHANGED <<now, windows, browser, use, issued>>
  PROVE  /\ TablesGrow /\ TablesOK' /\ BrowsersOK'
         /\ Len(rows') = Len(rows) + 1 /\ Len(rows) \in Nat
<1>1. NewRow(user) \in SessionRows
  BY AuthAssumption, Times DEF NewRow, SessionRows, AccessInv, TablesOK
<1>2. /\ rows \in Seq(SessionRows) /\ rows' = Append(rows, NewRow(user))
      /\ accounts' = accounts /\ accounts \subseteq Users
  BY DEF AccessInv, TablesOK, NewSession
<1>3. /\ rows' \in Seq(SessionRows) /\ Len(rows') = Len(rows) + 1 /\ Len(rows) \in Nat
      /\ \A i \in 1..Len(rows) : rows'[i] = rows[i]
  BY <1>1, <1>2
<1>4. SessionRows' = SessionRows
  BY <1>2 DEF SessionRows
<1>5. TablesGrow
  BY <1>2, <1>3, <1>4 DEF TablesGrow
<1>6. TablesOK'
  BY <1>2, <1>3, <1>4 DEF AccessInv, TablesOK, IssuedTokens
<1> QED BY <1>3, <1>5, <1>6, BrowsersKept DEF AccessInv

LEMMA RevokedOK ==
  ASSUME NEW user, AccessInv, Revoked(user), UNCHANGED <<now, windows, browser, use, issued>>
  PROVE  /\ TablesGrow /\ TablesOK' /\ BrowsersOK' /\ Len(rows') = Len(rows)
         /\ Len(rows) \in Nat /\ now \in Nat
         /\ \A i \in 1..Len(rows) : rows'[i].user = user => rows'[i].revoked <= now
<1>1. /\ rows \in Seq(SessionRows) /\ accounts' = accounts /\ accounts \subseteq Users
      /\ Len(rows) \in Nat /\ now \in Nat /\ DOMAIN rows = 1..Len(rows)
  BY Times DEF AccessInv, TablesOK, Revoked
<1>2. \A i \in 1..Len(rows) : rows[i] \in SessionRows
  BY <1>1
<1>3. rows' = [i \in 1..Len(rows) |->
                 IF rows[i].user = user /\ rows[i].revoked = Never
                 THEN [rows[i] EXCEPT !.revoked = now] ELSE rows[i]]
  BY <1>1 DEF Revoked, ToRevoke
<1>4. \A i \in 1..Len(rows) :
        /\ rows'[i] \in SessionRows /\ rows'[i].user = rows[i].user
        /\ rows'[i].revoked = rows[i].revoked
             \/ (rows[i].revoked = Never /\ rows'[i].revoked = now)
        /\ rows'[i].user = user => rows'[i].revoked <= now
  <2> TAKE i \in 1..Len(rows)
  <2>1. /\ rows[i].user \in accounts /\ rows[i].expires \in Nat /\ now \in 0..now
        /\ rows[i].revoked \in 0..now \cup {Never} /\ rows[i] \in SessionRows
    BY <1>1, <1>2 DEF SessionRows
  <2>2. CASE rows[i].user = user /\ rows[i].revoked = Never
    <3>1. rows'[i] = [rows[i] EXCEPT !.revoked = now]
      BY <1>3, <2>2
    <3>2. rows'[i] \in SessionRows /\ rows'[i].user = rows[i].user /\ rows'[i].revoked = now
      BY <2>1, <3>1 DEF SessionRows
    <3> QED BY <1>1, <2>2, <3>2
  <2>3. CASE ~(rows[i].user = user /\ rows[i].revoked = Never)
    <3>1. rows'[i] = rows[i]
      BY <1>3, <2>3
    <3> QED BY <1>1, <2>1, <2>3, <3>1
  <2> QED BY <2>2, <2>3
<1>5. rows' \in Seq(SessionRows) /\ Len(rows') = Len(rows)
  BY <1>1, <1>3, <1>4
<1>6. SessionRows' = SessionRows
  BY <1>1 DEF SessionRows
<1>7. TablesGrow
  BY <1>1, <1>4, <1>5, <1>6 DEF TablesGrow
<1>8. TablesOK'
  BY <1>1, <1>5, <1>6 DEF AccessInv, TablesOK, IssuedTokens
<1> QED BY <1>1, <1>4, <1>5, <1>7, <1>8, BrowsersKept DEF AccessInv

\* The record of a call whose handler goes to pc, or answers.
LEMMA GotoRecord ==
  ASSUME NEW c \in Calls, NEW pc, CallsOK, CallGoto(c, pc)
  PROVE  \E q : q = [call[c] EXCEPT !.pc = pc] /\ Moves(c, q)
  BY DEF CallGoto, Moves, CallsOK, CallOK, CallRecords

LEMMA ReplyRecord ==
  ASSUME NEW c \in Calls, NEW status \in Nat \ {201, 204}, CallsOK, CallReply(c, status)
  PROVE  \E q : /\ Moves(c, q) /\ CallOK(q) /\ q.status \notin {201, 204}
                /\ q = [call[c] EXCEPT !.pc = "answered", !.status = status]
<1>1. PICK q : q = [call[c] EXCEPT !.pc = "answered", !.status = status]
  OBVIOUS
<1>2. call[c] \in CallRecords
  BY DEF CallsOK, CallOK
<1>3. q \in CallRecords /\ q.pc = "answered" /\ q.status = status
  BY <1>1, <1>2 DEF CallRecords, CallStates
<1>4. CallOK(q)
  BY <1>3 DEF CallOK
<1>5. Moves(c, q)
  BY <1>1, <1>2 DEF Moves, CallReply, CallsOK, CallRecords
<1> QED BY <1>1, <1>3, <1>4, <1>5

LEMMA AuthStepOK ==
  ASSUME NEW c \in Calls, AccessInv, AuthStep(c), UNCHANGED <<browser, use>>
  PROVE  AccessInv'
<1>1. call[c] \in CallRecords /\ CallOK(call[c]) /\ CallsOK /\ BrowsersOK /\ TablesOK
  BY DEF AccessInv, CallsOK, CallOK
<1>2. UNCHANGED <<now, windows, browser, use>>
  BY DEF AuthStep, FindUser, InsertUser, FindActiveRefreshToken, SignAccessToken,
         StoreRefreshToken, VerifyAccessToken, RevokeAll, AuthFails, gatewayVars
<1>3. windows' \in Windows
  BY <1>1, <1>2 DEF TablesOK
<1>4. ASSUME UNCHANGED <<accounts, rows, issued>>,
             NEW q, CallOK(q), Moves(c, q), q.status \notin {201, 204}
      PROVE  AccessInv'
  <2>1. BrowsersOK'
    BY <1>1, <1>2, <1>4 DEF BrowsersOK
  <2> QED BY <1>2, <1>3, <1>4, <2>1, QuietCall
<1>5. ASSUME UNCHANGED <<accounts, rows, issued>>, NEW n \in Nat \ {201, 204}, CallReply(c, n)
      PROVE  AccessInv'
  BY <1>1, <1>4, <1>5, ReplyRecord
<1>6. \A n \in {409, 401, 500, 200} : n \in Nat \ {201, 204}
  OBVIOUS
<1>7. UNCHANGED issued => IssuedGrow
  BY DEF IssuedGrow
<1>8. CASE FindUser(c)
  <2>1. UNCHANGED <<accounts, rows, issued>> /\ call[c].pc = "findUser"
    BY <1>8 DEF FindUser
  <2>2. CASE CallReply(c, 409) \/ CallReply(c, 401)
    BY <1>5, <1>6, <2>1, <2>2
  <2>3. ASSUME NEW pc \in {"insertUser", "sign"}, CallGoto(c, pc),
               pc = "sign" => call[c].op = "login" /\ call[c].user \in accounts
        PROVE  AccessInv'
    <3>1. PICK q : q = [call[c] EXCEPT !.pc = pc] /\ Moves(c, q)
      BY <1>1, <2>3, GotoRecord
    <3>2. /\ q \in CallRecords /\ q.pc = pc /\ q.op = call[c].op /\ q.user = call[c].user
          /\ q.status = 0
      BY <1>1, <2>1, <3>1 DEF CallOK, CallRecords, CallStates
    <3>3. CallOK(q)
      BY <1>1, <2>1, <2>3, <3>2 DEF CallOK
    <3>4. Moves(c, q) /\ q.status \notin {201, 204}
      BY <3>1, <3>2
    <3> QED BY <1>4, <2>1, <3>3, <3>4
  <2> QED BY <1>8, <2>2, <2>3 DEF FindUser, MayMatch
<1>9. CASE InsertUser(c)
  <2>1. call[c].pc = "insertUser" /\ call[c].user \in Users /\ issued' = issued
    BY <1>1, <1>9 DEF InsertUser, CallOK
  <2>2. CASE ~FreeAddress(call[c].user)
    BY <1>5, <1>6, <1>9, <2>1, <2>2 DEF InsertUser
  <2>3. CASE FreeAddress(call[c].user)
    <3>1. call' = [call EXCEPT ![c].pc = "answered", ![c].status = 201] /\ NewAccount(call[c].user)
      BY <1>9, <2>3 DEF InsertUser, CallReply
    <3>2. TablesGrow /\ TablesOK' /\ BrowsersOK'
      BY <1>2, <2>1, <3>1, NewAccountOK
    <3>3. PICK q : q = [call[c] EXCEPT !.pc = "answered", !.status = 201]
      OBVIOUS
    <3>4. /\ q \in CallRecords /\ q.pc = "answered" /\ q.status = 201 /\ q.user = call[c].user
      BY <1>1, <3>3 DEF CallRecords, CallStates
    <3>5. CallOK(q)'
      BY <1>2, <3>1, <3>4 DEF CallOK, CallRecords, NewAccount
    <3>6. Moves(c, q)
      BY <1>1, <3>1, <3>3 DEF Moves, CallsOK, CallRecords
    <3> QED BY <1>7, <2>1, <2>3, <3>2, <3>4, <3>5, <3>6, CallStep DEF FreeAddress
  <2> QED BY <2>2, <2>3
<1>10. CASE FindActiveRefreshToken(c)
  <2>1. UNCHANGED <<accounts, rows, issued>> /\ call[c].pc = "findToken"
    BY <1>10 DEF FindActiveRefreshToken
  <2>2. CASE CallReply(c, 401)
    BY <1>5, <1>6, <2>1, <2>2
  <2>3. CASE /\ Active(call[c].row)
             /\ call' = [call EXCEPT ![c].pc = "sign", ![c].user = rows[call[c].row].user,
                                     ![c].found = now]
    <3>1. call[c].row \in 1..Len(rows) /\ Len(rows) \in Nat /\ now \in Nat
      BY <1>1, <2>1, Times DEF CallOK, CallRecords, TablesOK
    <3>2. rows[call[c].row] \in SessionRows /\ rows[call[c].row].revoked = Never
      BY <1>1, <2>3, <3>1 DEF TablesOK, Active
    <3>3. rows[call[c].row].user \in accounts /\ accounts \subseteq Users
      BY <1>1, <3>2 DEF SessionRows, TablesOK
    <3>4. PICK q : q = [call[c] EXCEPT !.pc = "sign", !.user = rows[call[c].row].user, !.found = now]
      OBVIOUS
    <3>5. Moves(c, q)
      BY <1>1, <2>3, <3>4 DEF Moves, CallsOK, CallRecords
    <3>6. /\ q \in CallRecords /\ q.pc = "sign" /\ q.user = rows[call[c].row].user
          /\ q.found = now /\ q.row = call[c].row /\ q.status = 0
      <4>1. rows[call[c].row].user \in Users \cup {Anyone} /\ now \in 0..now
        BY <3>1, <3>3
      <4>2. call[c].status = 0
        BY <1>1, <2>1 DEF CallOK
      <4> QED BY <1>1, <3>4, <4>1, <4>2 DEF CallRecords, CallStates
    <3>7. now <= Never
      BY <1>1, Times DEF TablesOK
    <3>8. CallOK(q)
      BY <3>1, <3>2, <3>3, <3>6, <3>7 DEF CallOK
    <3> QED BY <1>4, <2>1, <3>5, <3>6, <3>8
  <2> QED BY <1>10, <2>2, <2>3 DEF FindActiveRefreshToken
<1>11. CASE SignAccessToken(c)
  <2> DEFINE login == call[c].op = "login"
             new == [token |-> Token(c), found |-> call[c].found,
                     row |-> IF login THEN 0 ELSE call[c].row]
  <2>1. /\ call[c].pc = "sign" /\ issued' = issued \cup {new} /\ UNCHANGED <<accounts, rows>>
        /\ call' = [call EXCEPT ![c].bearer = Token(c),
                                ![c].pc = IF login THEN "storeToken" ELSE "answered",
                                ![c].status = IF login THEN 0 ELSE 200]
    BY <1>11 DEF SignAccessToken
  <2>2. call[c].user \in accounts /\ call[c].status = 0 /\ accounts \subseteq Users /\ now \in Nat
    BY <1>1, <2>1, Times DEF CallOK, TablesOK
  <2>3. Token(c) \in Tokens
    BY <2>2, AuthAssumption DEF Token, Tokens
  <2>4. Len(rows) \in Nat /\ call[c].row \in 0..Len(rows) /\ call[c].found \in 0..now
    BY <1>1 DEF CallRecords, TablesOK
  <2>5. new \in IssuedTokens
    BY <2>3, <2>4 DEF IssuedTokens
  <2>6. new.row # 0 => /\ new.row \in 1..Len(rows) /\ new.found \in 0..now
                       /\ new.found <= rows[new.row].revoked
    BY <1>1, <2>1, <2>4 DEF CallOK
  <2> HIDE DEF new
  <2>7. TablesGrow
    BY <1>2, <2>1, SameTables
  <2>8. TablesOK' /\ BrowsersOK'
    BY <1>1, <1>2, <2>1, <2>5, <2>7, BrowsersKept DEF TablesOK, SessionRows, IssuedTokens
  <2>9. PICK q : q = [call[c] EXCEPT !.bearer = Token(c),
                                     !.pc = IF login THEN "storeToken" ELSE "answered",
                                     !.status = IF login THEN 0 ELSE 200]
    OBVIOUS
  <2>10. Moves(c, q)
    BY <1>1, <2>1, <2>9 DEF Moves, CallsOK, CallRecords
  <2>11. /\ q \in CallRecords /\ q.pc \in {"storeToken", "answered"} /\ q.status \in {0, 200}
         /\ q.pc = "storeToken" => q.status = 0
         /\ q.user = call[c].user
    <3> DEFINE pc == IF login THEN "storeToken" ELSE "answered"
               status == IF login THEN 0 ELSE 200
    <3>1. pc \in CallStates /\ pc \in {"storeToken", "answered"}
      BY DEF CallStates
    <3>2. status \in Nat /\ status \in {0, 200} /\ (pc = "storeToken" => status = 0)
      OBVIOUS
    <3>3. call[c] \in CallRecords
      BY <1>1
    <3> HIDE DEF login, pc, status
    <3>4. q = [call[c] EXCEPT !.bearer = Token(c), !.pc = pc, !.status = status]
      BY <2>9 DEF pc, status
    <3> HIDE DEF pc, status
    <3>5. q \in CallRecords
      BY <2>3, <3>1, <3>2, <3>3, <3>4 DEF CallRecords
    <3>6. q.pc = pc /\ q.status = status /\ q.user = call[c].user
      BY <3>3, <3>4 DEF CallRecords
    <3> QED BY <3>1, <3>2, <3>5, <3>6
  <2>12. CallOK(q)
    BY <2>2, <2>11 DEF CallOK
  <2>13. CallOK(q)'
    BY <1>1, <2>7, <2>12, CallKept
  <2>14. IssuedGrow
    BY <2>1, <2>6 DEF IssuedGrow
  <2> QED BY <2>7, <2>8, <2>10, <2>11, <2>13, <2>14, CallStep
<1>12. CASE StoreRefreshToken(c)
  <2>1. /\ call[c].pc = "storeToken" /\ NewSession(call[c].user) /\ issued' = issued
        /\ call' = [call EXCEPT ![c].row = Len(rows) + 1, ![c].pc = "answered", ![c].status = 200]
    BY <1>12 DEF StoreRefreshToken
  <2>2. call[c].user \in accounts
    BY <1>1, <2>1 DEF CallOK
  <2>3. TablesGrow /\ TablesOK' /\ BrowsersOK' /\ Len(rows') = Len(rows) + 1 /\ Len(rows) \in Nat
    BY <1>2, <2>1, <2>2, NewSessionOK
  <2>4. PICK q : q = [call[c] EXCEPT !.row = Len(rows) + 1, !.pc = "answered", !.status = 200]
    OBVIOUS
  <2>5. Moves(c, q)
    BY <1>1, <2>1, <2>4 DEF Moves, CallsOK, CallRecords
  <2>6. q \in CallRecords' /\ q.pc = "answered" /\ q.status = 200
    <3>1. Len(rows) + 1 \in 0..Len(rows') /\ now' = now
      BY <1>2, <2>3
    <3>2. call[c] \in CallRecords /\ "answered" \in CallStates /\ 200 \in Nat
      BY <1>1 DEF CallStates
    <3>3. q.pc = "answered" /\ q.status = 200 /\ q.row = Len(rows) + 1
      BY <2>4, <3>2 DEF CallRecords
    <3>4. /\ q.op = call[c].op /\ q.user = call[c].user /\ q.bearer = call[c].bearer
          /\ q.found = call[c].found
      BY <2>4, <3>2 DEF CallRecords
    <3>5. q = [op |-> q.op, user |-> q.user, row |-> q.row, bearer |-> q.bearer, pc |-> q.pc,
               found |-> q.found, status |-> q.status]
      BY <2>4, <3>2 DEF CallRecords
    <3>6. /\ call[c].op \in CallOps /\ call[c].user \in Users \cup {Anyone}
          /\ call[c].bearer \in Tokens /\ call[c].found \in 0..now
      BY <3>2 DEF CallRecords
    <3>7. q \in CallRecords'
      BY <3>1, <3>2, <3>3, <3>4, <3>5, <3>6 DEF CallRecords
    <3> QED BY <3>3, <3>7
  <2>7. CallOK(q)'
    BY <2>6 DEF CallOK
  <2> QED BY <1>7, <2>1, <2>3, <2>5, <2>6, <2>7, CallStep
<1>13. CASE VerifyAccessToken(c)
  <2>1. UNCHANGED <<accounts, rows, issued>> /\ call[c].pc = "verify"
    BY <1>13 DEF VerifyAccessToken
  <2>2. CASE CallReply(c, 200) \/ CallReply(c, 401)
    BY <1>5, <1>6, <2>1, <2>2
  <2>3. CASE CallGoto(c, "revoke")
    <3>1. PICK q : q = [call[c] EXCEPT !.pc = "revoke"] /\ Moves(c, q)
      BY <1>1, <2>3, GotoRecord
    <3>2. q \in CallRecords /\ q.pc = "revoke" /\ q.status = 0
      BY <1>1, <2>1, <3>1 DEF CallOK, CallRecords, CallStates
    <3>3. CallOK(q)
      BY <3>2 DEF CallOK
    <3>4. Moves(c, q) /\ q.status \notin {201, 204}
      BY <3>1, <3>2
    <3> QED BY <1>4, <2>1, <3>3, <3>4
  <2> QED BY <1>13, <2>2, <2>3 DEF VerifyAccessToken
<1>14. CASE RevokeAll(c)
  <2>1. /\ Revoked(call[c].bearer.user) /\ issued' = issued
        /\ call' = [call EXCEPT ![c] = [call[c] EXCEPT !.pc = "answered", !.status = 204,
                                                      !.row = Len(rows), !.found = now]]
    BY <1>1, <1>14 DEF RevokeAll, CallsOK
  <2>2. /\ TablesGrow /\ TablesOK' /\ BrowsersOK' /\ Len(rows') = Len(rows)
        /\ Len(rows) \in Nat /\ now \in Nat
        /\ \A i \in 1..Len(rows) : rows'[i].user = call[c].bearer.user => rows'[i].revoked <= now
    BY <1>2, <2>1, RevokedOK
  <2>3. PICK q : q = [call[c] EXCEPT !.pc = "answered", !.status = 204, !.row = Len(rows), !.found = now]
    OBVIOUS
  <2>4. Moves(c, q)
    BY <2>1, <2>3 DEF Moves
  <2>5. /\ q \in CallRecords' /\ q.pc = "answered" /\ q.status = 204 /\ q.row = Len(rows)
        /\ q.found = now /\ q.bearer = call[c].bearer
    <3>1. Len(rows) \in 0..Len(rows') /\ now \in 0..now' /\ now' = now
      BY <1>2, <2>2
    <3>2. call[c] \in CallRecords /\ "answered" \in CallStates /\ 204 \in Nat
      BY <1>1 DEF CallStates
    <3>3. q.pc = "answered" /\ q.status = 204 /\ q.row = Len(rows) /\ q.found = now
      BY <2>3, <3>2 DEF CallRecords
    <3>4. q.op = call[c].op /\ q.user = call[c].user /\ q.bearer = call[c].bearer
      BY <2>3, <3>2 DEF CallRecords
    <3>5. q = [op |-> q.op, user |-> q.user, row |-> q.row, bearer |-> q.bearer, pc |-> q.pc,
               found |-> q.found, status |-> q.status]
      BY <2>3, <3>2 DEF CallRecords
    <3>6. call[c].op \in CallOps /\ call[c].user \in Users \cup {Anyone} /\ call[c].bearer \in Tokens
      BY <3>2 DEF CallRecords
    <3>7. q \in CallRecords'
      BY <3>1, <3>2, <3>3, <3>4, <3>5, <3>6 DEF CallRecords
    <3> QED BY <3>3, <3>4, <3>7
  <2>6. CallOK(q)'
    BY <2>5 DEF CallOK
  <2>7. \A t \in issued : t.found <= now
    BY <1>1, <2>2 DEF TablesOK, IssuedTokens
  <2>8. Ended(q)'
    BY <2>1, <2>2, <2>5, <2>7 DEF Ended
  <2> QED BY <1>7, <2>1, <2>2, <2>4, <2>5, <2>6, <2>8, CallStep
<1>15. CASE AuthFails(c)
  <2>1. CallReply(c, 500) /\ issued' = issued
    BY <1>15 DEF AuthFails
  <2>2. CASE UNCHANGED <<accounts, rows>>
    BY <1>5, <1>6, <2>1, <2>2
  <2>3. ASSUME TablesGrow, TablesOK', BrowsersOK' PROVE AccessInv'
    <3>1. PICK n \in Nat : n = 500
      OBVIOUS
    <3>2. CallReply(c, n) /\ n \in Nat \ {201, 204}
      BY <2>1, <3>1 DEF CallReply
    <3>3. PICK q : /\ Moves(c, q) /\ CallOK(q) /\ q.status \notin {201, 204}
                   /\ q = [call[c] EXCEPT !.pc = "answered", !.status = n]
      BY <1>1, <3>2, ReplyRecord, Zenon
    <3>4. CallOK(q)'
      BY <1>1, <2>3, <3>3, CallKept
    <3> QED BY <1>7, <2>1, <2>3, <3>3, <3>4, CallStep
  <2>4. CASE call[c].pc = "insertUser" /\ NewAccount(call[c].user)
    BY <1>1, <1>2, <2>1, <2>3, <2>4, NewAccountOK DEF CallOK
  <2>5. CASE call[c].pc = "storeToken" /\ NewSession(call[c].user)
    BY <1>1, <1>2, <2>1, <2>3, <2>5, NewSessionOK DEF CallOK
  <2>6. CASE Revoked(call[c].bearer.user)
    BY <1>2, <2>1, <2>3, <2>6, RevokedOK
  <2> QED BY <1>15, <2>2, <2>4, <2>5, <2>6 DEF AuthFails
<1> QED BY <1>8, <1>9, <1>10, <1>11, <1>12, <1>13, <1>14, <1>15 DEF AuthStep

-----------------------------------------------------------------------------
(* The clock, and calls that are sent *)

LEMMA TickOK ==
  ASSUME AccessInv, Tick, UNCHANGED <<authVars, browser, use>>
  PROVE  AccessInv'
<1>1. /\ now' = now + 1 /\ now \in Nat /\ now' \in 0..MaxTime /\ 0..now \subseteq 0..now'
      /\ UNCHANGED <<windows, accounts, rows, issued, call, browser, use>>
  BY Times DEF Tick, authVars, AccessInv, TablesOK
<1>2. SessionRows \subseteq SessionRows' /\ IssuedTokens \subseteq IssuedTokens'
      /\ CallRecords \subseteq CallRecords'
  <2>1. now' \in Nat /\ Len(rows') = Len(rows) /\ accounts' = accounts
    BY <1>1
  <2> QED BY <1>1, <2>1 DEF SessionRows, IssuedTokens, CallRecords
<1>3. TablesOK'
  <2>1. rows' \in Seq(SessionRows')
    BY <1>1, <1>2 DEF AccessInv, TablesOK
  <2> QED BY <1>1, <1>2, <2>1 DEF AccessInv, TablesOK, Windows
<1>4. \A c \in Calls : CallOK(call[c])'
  BY <1>1, <1>2 DEF AccessInv, CallsOK, CallOK
<1>5. CallsOK' /\ BrowsersOK'
  BY <1>1, <1>4 DEF AccessInv, CallsOK, BrowsersOK, BrowserOK
<1>6. RegisteredOnce' /\ LogoutIsForGood'
  BY <1>1 DEF AccessInv, RegisteredOnce, LogoutIsForGood
<1> QED BY <1>3, <1>5, <1>6 DEF AccessInv

LEMMA AdmitOK ==
  ASSUME NEW g \in Gateways, NEW scope, NEW ip, NEW token, TablesOK, Admit(g, scope, ip, token)
  PROVE  windows' \in Windows /\ UNCHANGED now
<1>1. /\ now \in Nat
      /\ \A l \in Limiters, k \in Keys : windows[g][l][k] \in [start : Nat, hits : Nat]
  BY Times DEF TablesOK, Windows
<1>2. \A l \in Limiters, k \in Keys : Hit(g, l, k) \in [start : Nat, hits : Nat]
  BY <1>1 DEF Hit
<1>3. PICK new : new = [l \in Limiters |-> [k \in Keys |->
        IF l \in Reached(g, scope, ip, token) /\ k = KeyOf(l, ip, token)
        THEN Hit(g, l, k) ELSE windows[g][l][k]]]
  OBVIOUS
<1>4. new \in [Limiters -> [Keys -> [start : Nat, hits : Nat]]]
  BY <1>1, <1>2, <1>3
<1>5. windows' = [windows EXCEPT ![g] = new]
  BY <1>3 DEF Admit
<1> QED BY <1>4, <1>5 DEF TablesOK, Windows, Admit

\* What is recorded of a call that is sent.
LEMMA SentOK ==
  ASSUME NEW c, NEW op \in CallOps, NEW user \in Users \cup {Anyone}, NEW row \in 0..Len(rows),
         NEW bearer \in Tokens, NEW verdict \in {0, 401, 429},
         op \in {"register", "login"} => user \in Users, op = "refresh" => row # 0,
         TablesOK
  PROVE  /\ CallOK(Sent(c, op, user, row, bearer, verdict))
         /\ Sent(c, op, user, row, bearer, verdict).status \notin {201, 204}
<1>1. PICK q : q = Sent(c, op, user, row, bearer, verdict)
  OBVIOUS
<1>2. FirstQuery(op) \in {"findUser", "findToken", "verify"}
  BY DEF FirstQuery
<1>3. 0 \in 0..now /\ verdict \in Nat
  BY DEF TablesOK
<1>4. /\ q.op = op /\ q.user = user /\ q.row = row /\ q.bearer = bearer /\ q.found = 0
      /\ q.pc = (IF verdict = 0 /\ op \in AuthOps THEN FirstQuery(op) ELSE "answered")
      /\ q.status = (IF verdict = 0 /\ op \notin AuthOps THEN 200 ELSE verdict)
  BY <1>1 DEF Sent, NewCall
<1>5. q = [op |-> q.op, user |-> q.user, row |-> q.row, bearer |-> q.bearer, pc |-> q.pc,
           found |-> q.found, status |-> q.status]
  BY <1>1 DEF Sent, NewCall
<1>6. q.pc \in CallStates /\ q.status \in Nat
  BY <1>2, <1>3, <1>4 DEF CallStates
<1>7. q \in CallRecords
  BY <1>3, <1>4, <1>5, <1>6 DEF CallRecords
<1>8. q.pc = "findUser" => op \in {"register", "login"}
  BY <1>4 DEF FirstQuery
<1>9. q.pc = "findToken" => op = "refresh"
  BY <1>4 DEF FirstQuery
<1>10. q.pc \notin {"sign", "storeToken", "insertUser"}
  BY <1>2, <1>4
<1>11. q.pc # "answered" => q.status = 0
  BY <1>4
<1>12. q.status \notin {201, 204}
  BY <1>4
<1> QED BY <1>1, <1>4, <1>7, <1>8, <1>9, <1>10, <1>11, <1>12 DEF CallOK

LEMMA SendOK ==
  ASSUME NEW c \in Calls, NEW op \in CallOps, NEW user \in Users \cup {Anyone},
         NEW row \in 0..Len(rows), NEW bearer \in Tokens, NEW ip,
         op \in {"register", "login"} => user \in Users, op = "refresh" => row # 0,
         AccessInv, Send(c, op, user, row, bearer, ip), BrowsersOK'
  PROVE  AccessInv'
<1>1. PICK g \in Gateways :
        /\ Admit(g, ScopeOf(op), ip, bearer)
        /\ call' = [call EXCEPT ![c] =
             Sent(c, op, user, row, bearer, Verdict(g, ScopeOf(op), ip, bearer))]
  BY DEF Send
<1>2. UNCHANGED <<accounts, rows, issued, use>>
  BY DEF Send
<1>3. TablesOK
  BY DEF AccessInv
<1>4. windows' \in Windows /\ UNCHANGED now
  BY <1>1, <1>3, AdmitOK
<1>5. PICK verdict \in {0, 401, 429} : verdict = Verdict(g, ScopeOf(op), ip, bearer)
  BY DEF Verdict
<1>6. PICK q : q = Sent(c, op, user, row, bearer, verdict)
  OBVIOUS
<1>7. CallOK(q) /\ q.status \notin {201, 204}
  BY <1>3, <1>6, SentOK
<1>8. Moves(c, q)
  BY <1>1, <1>5, <1>6 DEF Moves
<1> QED BY <1>2, <1>4, <1>7, <1>8, QuietCall

-----------------------------------------------------------------------------
(* Browsers *)

LEMMA BrowserMoves ==
  ASSUME NEW b \in Browsers, NEW q, AccessInv, UNCHANGED rows,
         browser' = [browser EXCEPT ![b] = q], BrowserOK(q, Len(rows))
  PROVE  BrowsersOK'
  BY DEF AccessInv, BrowsersOK

LEMMA AwaitOK ==
  ASSUME NEW b \in Browsers, NEW pc \in {"idle", "registering", "signingIn", "signingOut"},
         NEW user \in Users \cup {Anyone}, NEW c \in Calls \cup {0},
         pc = "registering" => user \in Users,
         AccessInv, Await(b, pc, user, c), UNCHANGED rows
  PROVE  BrowsersOK'
<1>1. BrowserOK(browser[b], Len(rows))
  BY DEF AccessInv, BrowsersOK
<1>2. PICK q : q = [browser[b] EXCEPT !.pc = pc, !.user = user, !.call = c]
  OBVIOUS
<1>3. BrowserOK(q, Len(rows))
  BY <1>1, <1>2 DEF BrowserOK
<1>4. browser' = [browser EXCEPT ![b] = q]
  BY <1>1, <1>2 DEF Await, BrowserOK, AccessInv, BrowsersOK
<1> QED BY <1>3, <1>4, BrowserMoves

LEMMA NoTokenOK == NoToken \in Tokens
  BY DEF NoToken, Tokens

LEMMA ClearOK ==
  ASSUME NEW b \in Browsers, AccessInv, ClearCookies(b), UNCHANGED rows
  PROVE  BrowsersOK'
<1>1. Len(rows) \in Nat
  BY DEF AccessInv, TablesOK
<1>2. BrowserOK(SignedOut, Len(rows))
  BY <1>1, NoTokenOK DEF BrowserOK, SignedOut
<1>3. browser' = [browser EXCEPT ![b] = SignedOut]
  BY DEF ClearCookies
<1> QED BY <1>2, <1>3, BrowserMoves

\* A browser moves and nothing else does.
LEMMA BrowserOnly ==
  ASSUME AccessInv, UNCHANGED <<gatewayVars, authVars, use>>, BrowsersOK'
  PROVE  AccessInv'
  BY DEF AccessInv, TablesOK, CallsOK, CallOK, CallRecords, SessionRows, IssuedTokens, Windows,
         RegisteredOnce, LogoutIsForGood, gatewayVars, authVars

\* The session route, the forms and the sign-out button.
LEMMA BrowserStepOK ==
  ASSUME NEW b \in Browsers, AccessInv,
         \/ \E u \in use.users : SignUp(b, u) \/ SignIn(b, u)
         \/ AfterRegister(b) \/ ShowError(b) \/ SetCookies(b)
         \/ SignOut(b) \/ AfterLogout(b)
         \/ \E op \in {"cart", "me"} : Visit(b, op)
  PROVE  AccessInv'
<1>1. /\ BrowserOK(browser[b], Len(rows)) /\ Len(rows) \in Nat /\ use \in Uses
      /\ TablesOK /\ CallsOK /\ BrowsersOK
  BY DEF AccessInv, BrowsersOK, TablesOK
<1>2. /\ 0 \in 0..Len(rows) /\ NoToken \in Tokens /\ browser[b].session \in Tokens
      /\ browser[b].session.user \in Users \cup {Anyone} /\ Anyone \in Users \cup {Anyone}
      /\ {"register", "login", "logout", "cart", "me"} \subseteq CallOps
  BY <1>1, NoTokenOK DEF BrowserOK, Tokens, CallOps, AuthOps
<1>3. ASSUME NEW u \in use.users, SignUp(b, u) PROVE AccessInv'
  <2>1. PICK c \in Calls : /\ Send(c, "register", u, 0, NoToken, Storefront)
                           /\ Await(b, "registering", u, c)
    BY <1>3 DEF SignUp
  <2>2. u \in Users
    BY <1>1, AccessAssumption
  <2>3. BrowsersOK'
    BY <2>1, <2>2, AwaitOK DEF Send
  <2> QED BY <1>2, <2>1, <2>2, <2>3, SendOK
<1>4. ASSUME NEW u \in use.users, SignIn(b, u) PROVE AccessInv'
  <2>1. PICK c \in Calls : /\ Send(c, "login", u, 0, NoToken, Storefront)
                           /\ Await(b, "signingIn", u, c)
    BY <1>4 DEF SignIn
  <2>2. u \in Users
    BY <1>1, AccessAssumption
  <2>3. BrowsersOK'
    BY <2>1, <2>2, AwaitOK DEF Send
  <2> QED BY <1>2, <2>1, <2>2, <2>3, SendOK
<1>5. CASE AfterRegister(b)
  <2>1. PICK u : u = browser[b].user
    OBVIOUS
  <2>2. PICK c \in Calls : /\ Send(c, "login", u, 0, NoToken, Storefront)
                           /\ Await(b, "signingIn", u, c)
    BY <1>5, <2>1 DEF AfterRegister
  <2>3. u \in Users
    BY <1>1, <1>5, <2>1 DEF AfterRegister, BrowserOK
  <2>4. BrowsersOK'
    BY <2>2, <2>3, AwaitOK DEF Send
  <2> QED BY <1>2, <2>2, <2>3, <2>4, SendOK
<1>6. CASE ShowError(b)
  <2>1. Await(b, "idle", Anyone, 0) /\ UNCHANGED <<gatewayVars, authVars, use>>
    BY <1>6 DEF ShowError
  <2>2. BrowsersOK'
    BY <1>2, <2>1, AwaitOK DEF authVars
  <2> QED BY <2>1, <2>2, BrowserOnly
<1>7. CASE SetCookies(b)
  <2>1. PICK c \in Calls : browser[b].call = c
    BY <1>7 DEF SetCookies, Answered
  <2>2. call[c].bearer \in Tokens /\ call[c].row \in 0..Len(rows)
    BY <1>1, <2>1 DEF CallsOK, CallOK, CallRecords
  <2>3. PICK q : q = [SignedOut EXCEPT !.session = call[c].bearer, !.row = call[c].row]
    OBVIOUS
  <2>4. BrowserOK(q, Len(rows))
    BY <1>2, <2>2, <2>3 DEF BrowserOK, SignedOut
  <2>5. browser' = [browser EXCEPT ![b] = q] /\ UNCHANGED <<gatewayVars, authVars, use>>
    BY <1>7, <2>1, <2>3 DEF SetCookies
  <2>6. BrowsersOK'
    BY <2>4, <2>5, BrowserMoves DEF authVars
  <2> QED BY <2>5, <2>6, BrowserOnly
<1>8. CASE SignOut(b)
  <2>1. CASE ~HasSession(b)
    <3>1. ClearCookies(b) /\ UNCHANGED <<gatewayVars, authVars, use>>
      BY <1>8, <2>1 DEF SignOut
    <3>2. BrowsersOK'
      BY <3>1, ClearOK DEF authVars
    <3> QED BY <3>1, <3>2, BrowserOnly
  <2>2. CASE HasSession(b)
    <3>1. PICK c \in Calls : /\ Send(c, "logout", Anyone, 0, browser[b].session, Storefront)
                             /\ Await(b, "signingOut", Anyone, c)
      BY <1>8, <2>2 DEF SignOut
    <3>2. BrowsersOK'
      BY <1>2, <3>1, AwaitOK DEF Send
    <3> QED BY <1>2, <3>1, <3>2, SendOK
  <2> QED BY <2>1, <2>2
<1>9. CASE AfterLogout(b)
  <2>1. ClearCookies(b) /\ UNCHANGED <<gatewayVars, authVars, use>>
    BY <1>9 DEF AfterLogout
  <2>2. BrowsersOK'
    BY <2>1, ClearOK DEF authVars
  <2> QED BY <2>1, <2>2, BrowserOnly
<1>10. ASSUME NEW op \in {"cart", "me"}, Visit(b, op) PROVE AccessInv'
  <2>1. PICK c \in Calls : Send(c, op, browser[b].session.user, 0, browser[b].session, Storefront)
    BY <1>10 DEF Visit
  <2>2. UNCHANGED <<browser, rows>>
    BY <1>10, <2>1 DEF Visit, Send
  <2>3. BrowsersOK'
    BY <1>1, <2>2 DEF BrowsersOK
  <2> QED BY <1>2, <2>1, <2>3, SendOK
<1> QED BY <1>3, <1>4, <1>5, <1>6, <1>7, <1>8, <1>9, <1>10

LEMMA InitOK == Init => AccessInv
<1> SUFFICES ASSUME Init PROVE AccessInv
  OBVIOUS
<1>1. /\ use \in Uses /\ use.accounts \subseteq Users /\ use.rows \in Seq(use.accounts)
      /\ use.cookies \in [Browsers -> 0..Len(use.rows)]
  BY AccessAssumption DEF Init
<1>2. /\ now = 0 /\ 0 \in 0..MaxTime /\ accounts = use.accounts /\ issued = {}
      /\ DOMAIN use.rows = 1..Len(use.rows) /\ Len(use.rows) \in Nat
  <2>1. GatewayInit /\ accounts = use.accounts /\ issued = {}
    BY DEF Init
  <2>2. now = 0
    BY <2>1, Zenon DEF GatewayInit
  <2>3. 0 \in 0..MaxTime
    BY Times
  <2>4. DOMAIN use.rows = 1..Len(use.rows) /\ Len(use.rows) \in Nat
    BY <1>1
  <2> QED BY <2>1, <2>2, <2>3, <2>4
<1>3. \A i \in 1..Len(use.rows) : NewRow(use.rows[i]) \in SessionRows
  BY <1>1, <1>2, AuthAssumption, Times DEF NewRow, SessionRows
<1>4. rows = [i \in 1..Len(use.rows) |-> NewRow(use.rows[i])]
  BY <1>2 DEF Init
<1>5. rows \in Seq(SessionRows) /\ Len(rows) = Len(use.rows)
  BY <1>2, <1>3, <1>4
<1>6. TablesOK
  BY <1>1, <1>2, <1>5 DEF Init, GatewayInit, TablesOK, Windows
<1>7. NewCall \in CallRecords /\ NewCall.pc = "unsent" /\ NewCall.status = 0 /\ NewCall.op = "none"
  BY <1>2, <1>5, NoTokenOK DEF NewCall, CallRecords, CallStates, CallOps
<1>8. CallOK(NewCall)
  BY <1>7 DEF CallOK
<1>9. call = [c \in Calls |-> NewCall]
  BY DEF Init
<1>10. CallsOK
  BY <1>8, <1>9 DEF CallsOK
<1>11. RegisteredOnce /\ LogoutIsForGood
  BY <1>7, <1>9 DEF RegisteredOnce, LogoutIsForGood
<1>12. ASSUME NEW b \in Browsers PROVE BrowserOK(browser[b], Len(rows))
  <2>1. BrowserOK(SignedOut, Len(rows))
    BY <1>2, <1>5, NoTokenOK DEF BrowserOK, SignedOut
  <2>2. CASE use.cookies[b] = 0
    BY <2>1, <2>2 DEF Init
  <2>3. CASE use.cookies[b] # 0
    <3>1. PICK i \in 1..Len(use.rows) : i = use.cookies[b]
      BY <1>1, <1>2, <2>3
    <3>2. SessionOf(i) \in Tokens
      BY <1>1, <1>2, AuthAssumption DEF SessionOf, Tokens
    <3>3. browser[b] = [SignedOut EXCEPT !.session = SessionOf(i), !.row = i]
      BY <2>3, <3>1 DEF Init
    <3>4. PICK session \in Tokens : session = SessionOf(i)
      BY <3>2
    <3>5. i \in 0..Len(rows)
      BY <1>2, <1>5
    <3>6. browser[b] = [pc |-> "idle", user |-> Anyone, call |-> 0, session |-> session, row |-> i]
      BY <3>3, <3>4 DEF SignedOut
    <3> QED BY <3>4, <3>5, <3>6 DEF BrowserOK
  <2> QED BY <2>2, <2>3
<1>13. BrowsersOK
  BY <1>12 DEF BrowsersOK, Init
<1> QED BY <1>6, <1>10, <1>11, <1>13 DEF AccessInv

-----------------------------------------------------------------------------
(* Theorems *)

\* AccessInv is inductive: it holds at the start and every step of the gateway, the auth
\* service, the storefront's session route and the clients keeps it.
THEOREM AccessInvariant == Spec => []AccessInv
<1>1. AccessInv /\ [Next]_accessVars => AccessInv'
  <2> SUFFICES ASSUME AccessInv, [Next]_accessVars PROVE AccessInv'
    OBVIOUS
  <2>1. CASE now < use.ticks /\ Tick /\ UNCHANGED <<authVars, browser, use>>
    BY <2>1, TickOK
  <2>2. ASSUME NEW c \in Calls, AuthStep(c), UNCHANGED <<browser, use>> PROVE AccessInv'
    BY <2>2, AuthStepOK
  <2>3. ASSUME NEW b \in Browsers,
               \/ \E u \in use.users : SignUp(b, u) \/ SignIn(b, u)
               \/ AfterRegister(b) \/ ShowError(b) \/ SetCookies(b)
               \/ SignOut(b) \/ AfterLogout(b)
               \/ \E op \in {"cart", "me"} : Visit(b, op)
        PROVE  AccessInv'
    BY <2>3, BrowserStepOK
  <2>4. ASSUME NEW c \in Calls, NEW op \in {"refresh", "catalog", "health", "cart"},
               NEW i \in 0..Len(rows), op = "refresh" => i # 0,
               Send(c, op, Anyone, i, NoToken, Elsewhere), UNCHANGED browser
        PROVE  AccessInv'
    <3>1. op \in CallOps /\ Anyone \in Users \cup {Anyone}
      BY DEF CallOps, AuthOps
    <3>2. BrowsersOK'
      BY <2>4 DEF Send, AccessInv, BrowsersOK
    <3> QED BY <2>4, <3>1, <3>2, NoTokenOK, SendOK
  <2>5. ASSUME NEW i \in DOMAIN rows, Refresh(i) PROVE AccessInv'
    <3>1. DOMAIN rows = 1..Len(rows) /\ Len(rows) \in Nat
      BY DEF AccessInv, TablesOK
    <3>2. i \in 0..Len(rows) /\ i # 0
      BY <2>5, <3>1
    <3> QED BY <2>4, <2>5, <3>2 DEF Refresh
  <2>6. ASSUME NEW op \in {"catalog", "health", "cart"}, Anonymous(op) PROVE AccessInv'
    <3>1. 0 \in 0..Len(rows)
      BY DEF AccessInv, TablesOK
    <3> QED BY <2>4, <2>6, <3>1 DEF Anonymous
  <2>7. CASE UNCHANGED accessVars
    <3>1. UNCHANGED <<gatewayVars, authVars, use>> /\ UNCHANGED <<browser, rows>>
      BY <2>7 DEF accessVars, authVars
    <3>2. BrowsersOK'
      BY <3>1 DEF AccessInv, BrowsersOK
    <3> QED BY <3>1, <3>2, BrowserOnly
  <2> QED BY <2>1, <2>2, <2>3, <2>5, <2>6, <2>7 DEF Next
<1> QED BY <1>1, InitOK, PTL DEF Spec

\* Type correctness: no call is bound to a row that does not exist, and a handler signs
\* tokens only for an account that exists.
THEOREM AccessTypeCorrect == Spec => []TypeOK
  BY AccessInvariant, InvImpliesTypeOK, PTL

\* No address is registered twice, however many sign-ups run beside each other: the look-up
\* races, the UNIQUE column decides (routes/auth.ts, register; migrations/001).
THEOREM AccountsAreUnique == Spec => []RegisteredOnce
<1>1. AccessInv => RegisteredOnce
  BY DEF AccessInv
<1> QED BY <1>1, AccessInvariant, PTL

\* An answered logout holds against every refresh, login and logout that runs beside it
\* (routes/auth.ts, refresh and logout).
THEOREM LogoutHolds == Spec => []LogoutIsForGood
<1>1. AccessInv => LogoutIsForGood
  BY DEF AccessInv
<1> QED BY <1>1, AccessInvariant, PTL

-----------------------------------------------------------------------------
(* Stretches of time, and what a limiter let through in them *)

Passes == [0..MaxTime -> Nat]
Stretch(f, first, last) == SumOf([t \in first..last |-> f[t]])

LEMMA StretchType ==
  ASSUME NEW f \in Passes, NEW a \in Nat, NEW c \in Nat, c <= MaxTime
  PROVE  /\ Summable([t \in a..c |-> f[t]])
         /\ Stretch(f, a, c) \in Nat
<1>1. IsFiniteSet(a..c)
  BY FS_Interval
<1>2. \A t \in a..c : f[t] \in Nat
  BY Times DEF Passes
<1>3. Summable([t \in a..c |-> f[t]])
  BY <1>1, <1>2 DEF Summable
<1> QED BY <1>3, SumType DEF Stretch

LEMMA StretchNat ==
  ASSUME NEW f \in Passes, NEW a \in Nat, NEW c \in Nat, c <= MaxTime
  PROVE  Stretch(f, a, c) \in Nat
  BY StretchType

LEMMA MaxTimeItself == MaxTime \in Nat /\ MaxTime <= MaxTime
  BY Times

\* Less time, fewer hits.
LEMMA StretchWithin ==
  ASSUME NEW f \in Passes, NEW a \in Nat, NEW c \in Nat, c <= MaxTime,
         NEW d \in Nat, NEW e \in Nat, a <= d, e <= c
  PROVE  Stretch(f, d, e) <= Stretch(f, a, c)
<1>1. e <= MaxTime
  BY Times
<1>2. PICK p, q : p = [t \in d..e |-> f[t]] /\ q = [t \in a..c |-> f[t]]
  OBVIOUS
<1>3. Summable(p) /\ Summable(q)
  BY <1>1, <1>2, StretchType
<1>4. /\ DOMAIN p = d..e /\ DOMAIN q = a..c /\ d..e \subseteq a..c
      /\ \A t \in d..e : p[t] = f[t] /\ q[t] = f[t]
  BY <1>2
<1>5. \A t \in d..e : p[t] <= q[t]
  <2>1. \A t \in d..e : p[t] \in Nat
    BY <1>3, <1>4 DEF Summable
  <2> QED BY <1>4, <2>1
<1>6. SumOf(p) <= SumOf(q)
  BY <1>3, <1>4, <1>5, SumMonotone
<1> QED BY <1>2, <1>6 DEF Stretch

LEMMA StretchSplit ==
  ASSUME NEW f \in Passes, NEW a \in Nat, NEW c \in Nat, c <= MaxTime,
         NEW m \in Nat, a < m, m <= c
  PROVE  Stretch(f, a, c) <= Stretch(f, a, m - 1) + Stretch(f, m, c)
<1>1. m - 1 \in Nat /\ m - 1 <= MaxTime
  BY Times
<1>2. PICK q, p1, p2 : /\ q = [t \in a..c |-> f[t]] /\ p1 = [t \in a..(m - 1) |-> f[t]]
                       /\ p2 = [t \in m..c |-> f[t]]
  OBVIOUS
<1>3. Summable(q) /\ Summable(p1) /\ Summable(p2)
  BY <1>1, <1>2, StretchType
<1>4. /\ DOMAIN q = a..c /\ DOMAIN p1 = a..(m - 1) /\ DOMAIN p2 = m..c
      /\ a..c \subseteq (a..(m - 1)) \cup (m..c)
      /\ \A t \in DOMAIN p1 : t \in DOMAIN q => p1[t] = q[t]
      /\ \A t \in DOMAIN p2 : t \in DOMAIN q => p2[t] = q[t]
  BY <1>2
<1>5. SumOf(q) <= SumOf(p1) + SumOf(p2)
  BY <1>3, <1>4, SumParts
<1> QED BY <1>2, <1>5 DEF Stretch

LEMMA StretchFirst ==
  ASSUME NEW f \in Passes, NEW a \in Nat, NEW c \in Nat, c <= MaxTime, a <= c
  PROVE  Stretch(f, a, c) = Stretch(f, a + 1, c) + f[a]
<1>1. PICK p, q : p = [t \in (a + 1)..c |-> f[t]] /\ q = [t \in a..c |-> f[t]]
  OBVIOUS
<1>2. Summable(p) /\ Summable(q)
  BY <1>1, StretchType
<1>3. /\ DOMAIN p = (a + 1)..c /\ DOMAIN q = a..c /\ a \notin DOMAIN p
      /\ DOMAIN q = DOMAIN p \cup {a} /\ q[a] = f[a]
      /\ \A t \in DOMAIN p : q[t] = p[t]
  BY <1>1
<1>4. q[a] \in Nat
  BY <1>2, <1>3 DEF Summable
<1>5. SumOf(q) = SumOf(p) + q[a]
  BY <1>2, <1>3, <1>4, SumAdd
<1> QED BY <1>1, <1>3, <1>5 DEF Stretch

LEMMA StretchSame ==
  ASSUME NEW f, NEW g, NEW a, NEW c, \A t \in a..c : f[t] = g[t]
  PROVE  Stretch(f, a, c) = Stretch(g, a, c)
<1>1. [t \in a..c |-> f[t]] = [t \in a..c |-> g[t]]
  OBVIOUS
<1> QED BY <1>1 DEF Stretch

LEMMA StretchZero ==
  ASSUME NEW f, NEW a \in Nat, NEW c \in Nat, \A t \in a..c : f[t] = 0
  PROVE  Stretch(f, a, c) = 0
<1>1. PICK q : q = [t \in a..c |-> f[t]]
  OBVIOUS
<1>2. \A t \in DOMAIN q : q[t] = 0
  BY <1>1
<1>3. \A t : UnitsOf(t, 0) = {}
  BY DEF UnitsOf
<1>4. Units(q) = {}
  BY <1>2, <1>3, UnitsMember
<1> QED BY <1>1, <1>4, FS_EmptySet DEF Stretch, SumOf

LEMMA StretchBump ==
  ASSUME NEW f \in Passes, NEW g, NEW a \in Nat, NEW c \in Nat, c <= MaxTime, NEW n \in a..c,
         g[n] = f[n] + 1, \A t \in a..c : t # n => g[t] = f[t]
  PROVE  Stretch(g, a, c) = Stretch(f, a, c) + 1
<1>1. PICK p, q : p = [t \in a..c |-> f[t]] /\ q = [t \in a..c |-> g[t]]
  OBVIOUS
<1>2. Summable(p)
  BY <1>1, StretchType
<1>3. DOMAIN q = DOMAIN p /\ q[n] = p[n] + 1 /\ \A t \in DOMAIN p : t # n => q[t] = p[t]
  BY <1>1
<1>4. n \in DOMAIN p
  BY <1>1
<1>5. SumOf(q) = SumOf(p) + 1
  BY <1>2, <1>3, <1>4, SumBump
<1> QED BY <1>1, <1>5 DEF Stretch

-----------------------------------------------------------------------------
(* One key of one limiter *)

\* The key's window, of h hits from s on, with what was let through since it began.
WindowOK(f, s, h, b, n) ==
  /\ s \in 0..n
  /\ f[s] >= 1
  /\ Stretch(f, s, MaxTime) <= b
  /\ Stretch(f, s, MaxTime) <= h
  /\ \A t \in 0..MaxTime : s + Window <= t => f[t] = 0
  /\ \A t \in 0..MaxTime : t < s /\ s < t + Window => Stretch(f, t, s - 1) <= b - 1

BurstOK(f, b) ==
  \A t \in 0..MaxTime : t + Window - 1 <= MaxTime => Stretch(f, t, t + Window - 1) <= 2 * b - 1

\* The record f of what was let through, up to the time n, beside the key's window: a
\* window that is over left a hit at its start outside every stretch that reaches the next.
KeyOK(f, s, h, b, n) ==
  /\ f \in Passes
  /\ \A t \in 0..MaxTime : n < t => f[t] = 0
  /\ h = 0 => \A t \in 0..MaxTime : f[t] = 0
  /\ h # 0 => WindowOK(f, s, h, b, n)
  /\ BurstOK(f, b)

\* A stretch that ends before the last hit is an old one; one that has it spends, before
\* the window, less than a budget, and in it no more than one.
LEMMA BurstFollows ==
  ASSUME NEW f \in Passes, NEW g \in Passes, NEW s \in Nat, NEW h \in Nat,
         NEW b \in Nat \ {0}, NEW n \in 0..MaxTime,
         BurstOK(f, b), WindowOK(g, s, h, b, n), \A t \in 0..MaxTime : t # n => g[t] = f[t]
  PROVE  BurstOK(g, b)
<1> SUFFICES ASSUME NEW t \in 0..MaxTime, t + Window - 1 <= MaxTime
             PROVE  Stretch(g, t, t + Window - 1) <= 2 * b - 1
  BY DEF BurstOK
<1>1. PICK e : e = t + Window - 1
  OBVIOUS
<1>2. /\ Window \in Nat \ {0} /\ MaxTime \in Nat /\ t \in Nat /\ e \in Nat /\ e <= MaxTime
      /\ t <= e /\ t + Window = e + 1 /\ n \in Nat /\ s \in Nat /\ s <= n
  BY <1>1, GatewayAssumption DEF WindowOK
<1>3. Stretch(g, t, e) \in Nat /\ Stretch(g, s, MaxTime) \in Nat
  <2>1. Stretch(g, t, e) \in Nat
    BY <1>2, StretchNat
  <2>2. Stretch(g, s, MaxTime) \in Nat
    BY MaxTimeItself, StretchNat
  <2> QED BY <2>1, <2>2
<1>4. Stretch(g, s, MaxTime) <= b
  BY DEF WindowOK
<1>5. CASE n \notin t..e
  <2>1. \A x \in t..e : g[x] = f[x]
    BY <1>2, <1>5
  <2>2. Stretch(g, t, e) = Stretch(f, t, e)
    BY <2>1, StretchSame
  <2> QED BY <1>1, <2>2 DEF BurstOK
<1>6. CASE s <= t
  <2>1. Stretch(g, t, e) <= Stretch(g, s, MaxTime)
    BY <1>2, <1>6, StretchWithin
  <2> QED BY <1>1, <1>3, <1>4, <2>1
<1>7. CASE n \in t..e /\ t < s
  <2>1. s <= e /\ s < t + Window /\ s - 1 \in Nat /\ s - 1 <= MaxTime
    BY <1>2, <1>7
  <2>2. Stretch(g, t, e) <= Stretch(g, t, s - 1) + Stretch(g, s, e)
    BY <1>2, <1>7, <2>1, StretchSplit
  <2>3. Stretch(g, t, s - 1) <= b - 1
    BY <1>7, <2>1 DEF WindowOK
  <2>4. Stretch(g, s, e) <= Stretch(g, s, MaxTime)
    BY <1>2, StretchWithin
  <2>5. Stretch(g, t, s - 1) \in Nat /\ Stretch(g, s, e) \in Nat
    BY <1>2, <2>1, StretchType
  <2> QED BY <1>1, <1>3, <1>4, <2>2, <2>3, <2>4, <2>5
<1> QED BY <1>2, <1>5, <1>6, <1>7

\* A hit in the key's window, let through or refused.
LEMMA HitInWindow ==
  ASSUME NEW f, NEW s \in Nat, NEW h \in Nat, NEW b \in Nat \ {0}, NEW n \in 0..MaxTime,
         KeyOK(f, s, h, b, n), h # 0, n < s + Window,
         NEW g \in Passes, \A t \in 0..MaxTime : t # n => g[t] = f[t],
         g[n] = IF h + 1 <= b THEN f[n] + 1 ELSE f[n]
  PROVE  KeyOK(g, s, h + 1, b, n)
<1>1. /\ MaxTime \in Nat /\ Window \in Nat \ {0} /\ n \in Nat /\ f \in Passes
      /\ s \in Nat /\ h \in Nat /\ h + 1 \in Nat /\ s <= n
  BY GatewayAssumption DEF KeyOK, WindowOK
<1>2. WindowOK(f, s, h, b, n) /\ BurstOK(f, b)
  BY DEF KeyOK
<1>3. /\ Stretch(f, s, MaxTime) \in Nat /\ Stretch(f, s, MaxTime) <= b
      /\ Stretch(f, s, MaxTime) <= h
  <2>1. Stretch(f, s, MaxTime) \in Nat
    BY <1>1, MaxTimeItself, StretchNat
  <2> QED BY <1>2, <2>1 DEF WindowOK
<1>4. CASE h + 1 <= b
  <2>1. g[n] = f[n] + 1
    BY <1>4
  <2>2. /\ g \in Passes /\ g[n] = f[n] + 1 /\ f[n] \in Nat
        /\ \A t \in 0..MaxTime : t # n => g[t] = f[t]
    BY <1>1, <2>1 DEF Passes
  <2>3. \A t \in 0..MaxTime : f[t] \in Nat
    BY <1>1 DEF Passes
  <2>4. g[s] >= 1
    <3>1. f[s] >= 1 /\ f[s] \in Nat /\ s \in 0..MaxTime
      BY <1>1, <1>2, <2>3 DEF WindowOK
    <3> QED BY <2>2, <3>1
  <2>5. Stretch(g, s, MaxTime) = Stretch(f, s, MaxTime) + 1
    <3>1. n \in s..MaxTime
      BY <1>1
    <3>2. \A t \in s..MaxTime : t # n => g[t] = f[t]
      BY <1>1, <2>2
    <3> QED BY <1>1, <2>1, <3>1, <3>2, MaxTimeItself, StretchBump
  <2>6. \A t \in 0..MaxTime : s + Window <= t => g[t] = 0
    BY <1>1, <1>2, <2>2 DEF WindowOK
  <2>7. ASSUME NEW t \in 0..MaxTime, t < s, s < t + Window
        PROVE  Stretch(g, t, s - 1) <= b - 1
    <3>1. PICK e : e = s - 1
      OBVIOUS
    <3>2. \A x \in t..e : g[x] = f[x]
      BY <1>1, <2>2, <3>1
    <3>3. Stretch(g, t, e) = Stretch(f, t, e)
      BY <3>2, StretchSame
    <3>4. Stretch(f, t, s - 1) <= b - 1
      BY <1>2, <2>7 DEF WindowOK
    <3> QED BY <3>1, <3>3, <3>4
  <2>8. Stretch(g, s, MaxTime) <= b /\ Stretch(g, s, MaxTime) <= h + 1
    BY <1>1, <1>3, <1>4, <2>5
  <2>9. WindowOK(g, s, h + 1, b, n)
    BY <1>1, <2>4, <2>6, <2>7, <2>8 DEF WindowOK
  <2>10. BurstOK(g, b)
    BY <1>1, <1>2, <2>2, <2>9, BurstFollows
  <2>11. \A t \in 0..MaxTime : n < t => g[t] = 0
    BY <1>1, <2>2 DEF KeyOK
  <2> QED BY <1>1, <2>2, <2>9, <2>10, <2>11 DEF KeyOK
<1>5. CASE ~(h + 1 <= b)
  <2>1. g = f
    <3>1. g[n] = f[n]
      BY <1>5
    <3>2. \A t \in 0..MaxTime : g[t] = f[t]
      BY <3>1
    <3> QED BY <1>1, <3>2 DEF Passes
  <2>2. Stretch(f, s, MaxTime) <= h + 1
    BY <1>1, <1>3
  <2>3. WindowOK(f, s, h + 1, b, n)
    BY <1>1, <1>2, <2>2 DEF WindowOK
  <2> QED BY <1>1, <2>1, <2>3 DEF KeyOK
<1> QED BY <1>4, <1>5

\* A hit that begins a window.  The window before it, if any, is over, and its first hit is
\* too old to be in a stretch with this one.
LEMMA HitOfNewWindow ==
  ASSUME NEW f, NEW s \in Nat, NEW h \in Nat, NEW b \in Nat \ {0}, NEW n \in 0..MaxTime,
         KeyOK(f, s, h, b, n), h = 0 \/ s + Window <= n,
         NEW g \in Passes, \A t \in 0..MaxTime : t # n => g[t] = f[t], g[n] = f[n] + 1
  PROVE  KeyOK(g, n, 1, b, n)
<1>1. /\ MaxTime \in Nat /\ Window \in Nat \ {0} /\ n \in Nat /\ f \in Passes
      /\ s \in Nat
  BY GatewayAssumption DEF KeyOK
<1>2. f[n] = 0 /\ \A t \in 0..MaxTime : n <= t => f[t] = 0
  <2>1. f[n] = 0
    <3>1. CASE h = 0
      BY <3>1 DEF KeyOK
    <3>2. CASE h # 0
      BY <3>2 DEF KeyOK, WindowOK
    <3> QED BY <3>1, <3>2
  <2>2. \A t \in 0..MaxTime : n < t => f[t] = 0
    BY DEF KeyOK
  <2> QED BY <1>1, <2>1, <2>2
<1>3. g \in Passes /\ g[n] = 1 /\ \A t \in 0..MaxTime : t # n => g[t] = f[t]
  BY <1>1, <1>2 DEF Passes
<1>4. Stretch(g, n, MaxTime) = 1
  <2>1. Stretch(f, n, MaxTime) = 0
    <3>1. \A t \in n..MaxTime : f[t] = 0
      BY <1>1, <1>2
    <3> QED BY <1>1, <3>1, StretchZero
  <2>2. n \in n..MaxTime
    BY <1>1
  <2>3. Stretch(g, n, MaxTime) = Stretch(f, n, MaxTime) + 1
    <3>1. \A t \in n..MaxTime : t # n => g[t] = f[t]
      BY <1>1
    <3> QED BY <1>1, <2>2, <3>1, MaxTimeItself, StretchBump
  <2> QED BY <2>1, <2>3
<1>5. ASSUME NEW t \in 0..MaxTime, t < n, n < t + Window
      PROVE  Stretch(g, t, n - 1) <= b - 1
  <2> SUFFICES ASSUME NEW e, e = n - 1 PROVE Stretch(g, t, e) <= b - 1
    OBVIOUS
  <2>1. t \in Nat /\ e \in Nat /\ e <= MaxTime /\ e < n
    BY <1>1, <1>5
  <2>2. \A x \in t..e : g[x] = f[x]
    BY <1>1, <1>3, <2>1
  <2>3. Stretch(g, t, e) = Stretch(f, t, e)
    BY <2>2, StretchSame
  <2>4. CASE h = 0
    <3>1. \A x \in t..e : f[x] = 0
      BY <1>1, <2>1, <2>4 DEF KeyOK
    <3>2. Stretch(f, t, e) = 0
      BY <2>1, <3>1, StretchZero
    <3> QED BY <2>3, <3>2
  <2>5. CASE h # 0
    <3>1. s + Window <= n /\ s + 1 <= t /\ s <= MaxTime
      BY <1>1, <1>5, <2>5
    <3>2. WindowOK(f, s, h, b, n)
      BY <2>5 DEF KeyOK
    <3>3. Stretch(f, t, e) <= Stretch(f, s + 1, MaxTime)
      BY <1>1, <2>1, <3>1, MaxTimeItself, StretchWithin
    <3>4. Stretch(f, s, MaxTime) = Stretch(f, s + 1, MaxTime) + f[s]
      BY <1>1, <3>1, MaxTimeItself, StretchFirst
    <3>5. f[s] >= 1 /\ Stretch(f, s, MaxTime) <= b
      BY <3>2 DEF WindowOK
    <3>6. f[s] \in Nat
      BY <1>1, <3>1 DEF Passes
    <3>7. /\ Stretch(f, t, e) \in Nat /\ Stretch(f, s + 1, MaxTime) \in Nat
          /\ Stretch(f, s, MaxTime) \in Nat
      <4>1. Stretch(f, t, e) \in Nat
        BY <1>1, <2>1, StretchNat
      <4>2. s + 1 \in Nat
        OBVIOUS
      <4> QED BY <1>1, <4>1, <4>2, MaxTimeItself, StretchNat
    <3> QED BY <2>3, <3>3, <3>4, <3>5, <3>6, <3>7
  <2> QED BY <2>4, <2>5
<1>6. WindowOK(g, n, 1, b, n)
  <2>1. \A t \in 0..MaxTime : n + Window <= t => g[t] = 0
    BY <1>1, <1>2, <1>3
  <2> QED BY <1>1, <1>3, <1>4, <1>5, <2>1 DEF WindowOK
<1>7. BurstOK(g, b)
  BY <1>1, <1>3, <1>6, BurstFollows DEF KeyOK
<1>8. \A t \in 0..MaxTime : n < t => g[t] = 0
  BY <1>1, <1>2, <1>3
<1> QED BY <1>1, <1>3, <1>6, <1>7, <1>8 DEF KeyOK

-----------------------------------------------------------------------------
(* Every key of every limiter *)

LimitsInv ==
  /\ passed \in [Gateways -> [Limiters -> [Keys -> Passes]]]
  /\ \A g \in Gateways, l \in Limiters, k \in Keys :
       KeyOK(passed[g][l][k], windows[g][l][k].start, windows[g][l][k].hits, Budget[l], now)

\* One key that was hit: its window is Hit, and what was let through grows unless the hit
\* was refused.
LEMMA HitKeyOK ==
  ASSUME NEW g \in Gateways, NEW l \in Limiters, NEW k \in Keys, TablesOK, LimitsInv,
         NEW w, w = Hit(g, l, k), NEW f,
         f = IF Refuses(g, l, k) THEN passed[g][l][k]
             ELSE LetThrough(g, l, k)
  PROVE  KeyOK(f, w.start, w.hits, Budget[l], now)
<1>1. PICK old, s, h, b : /\ old = passed[g][l][k] /\ b = Budget[l]
                          /\ s = windows[g][l][k].start /\ h = windows[g][l][k].hits
  OBVIOUS
<1>2. windows[g][l][k] \in [start : Nat, hits : Nat]
  BY DEF TablesOK, Windows
<1>3. /\ old \in Passes /\ b \in Nat \ {0} /\ s \in Nat /\ h \in Nat /\ now \in 0..MaxTime
      /\ KeyOK(old, s, h, b, now)
  BY <1>1, <1>2, GatewayAssumption DEF LimitsInv, TablesOK
<1>4. Fresh(g, l, k) <=> h = 0 \/ s + Window <= now
  BY <1>1 DEF Fresh
<1>5. PICK new : new = [old EXCEPT ![now] = @ + 1]
  OBVIOUS
<1>6. /\ new \in Passes /\ new[now] = old[now] + 1
      /\ \A t \in 0..MaxTime : t # now => new[t] = old[t]
  BY <1>3, <1>5 DEF Passes
<1>7. LetThrough(g, l, k) = new
  BY <1>1, <1>5 DEF LetThrough
<1>8. CASE Fresh(g, l, k)
  <2>1. w.start = now /\ w.hits = 1
    BY <1>8 DEF Hit
  <2>2. ~Refuses(g, l, k)
    BY <1>1, <1>3, <2>1 DEF Refuses
  <2>3. f = new
    BY <1>7, <2>2
  <2>4. KeyOK(new, now, 1, b, now)
    BY <1>3, <1>4, <1>6, <1>8, HitOfNewWindow
  <2> QED BY <1>1, <2>1, <2>3, <2>4
<1>9. CASE ~Fresh(g, l, k)
  <2>1. w.start = s /\ w.hits = h + 1
    BY <1>1, <1>2, <1>9 DEF Hit
  <2>2. h # 0 /\ now < s + Window
    BY <1>3, <1>4, <1>9, GatewayAssumption
  <2>3. Refuses(g, l, k) <=> ~(h + 1 <= b)
    BY <1>1, <1>3, <2>1 DEF Refuses
  <2>4. CASE h + 1 <= b
    <3>1. f = new
      BY <1>7, <2>3, <2>4
    <3>2. KeyOK(new, s, h + 1, b, now)
      BY <1>3, <1>6, <2>2, <2>4, HitInWindow
    <3> QED BY <1>1, <2>1, <3>1, <3>2
  <2>5. CASE ~(h + 1 <= b)
    <3>1. f = old
      BY <1>1, <2>3, <2>5
    <3>2. KeyOK(old, s, h + 1, b, now)
      BY <1>3, <2>2, <2>5, HitInWindow
    <3> QED BY <1>1, <2>1, <3>1, <3>2
  <2> QED BY <2>4, <2>5
<1> QED BY <1>8, <1>9

\* A call through one replica hits at most one key of a limiter there, and none elsewhere.
LEMMA AdmitLimits ==
  ASSUME NEW g \in Gateways, NEW scope, NEW ip, NEW token, TablesOK, LimitsInv,
         Admit(g, scope, ip, token)
  PROVE  LimitsInv'
<1> DEFINE hit(l, k) == l \in Reached(g, scope, ip, token) /\ k = KeyOf(l, ip, token)
           record(l, k) == IF hit(l, k) /\ ~Refuses(g, l, k)
                           THEN LetThrough(g, l, k) ELSE passed[g][l][k]
           window(l, k) == IF hit(l, k) THEN Hit(g, l, k) ELSE windows[g][l][k]
<1>1. /\ windows' = [windows EXCEPT ![g] = [l \in Limiters |-> [k \in Keys |-> window(l, k)]]]
      /\ passed' = [passed EXCEPT ![g] = [l \in Limiters |-> [k \in Keys |-> record(l, k)]]]
      /\ now' = now
  <2>1. windows' = [windows EXCEPT ![g] = [l \in Limiters |-> [k \in Keys |-> window(l, k)]]]
    BY DEF Admit
  <2>2. passed' = [passed EXCEPT ![g] = [l \in Limiters |-> [k \in Keys |-> record(l, k)]]]
    BY DEF Admit
  <2>3. now' = now
    BY DEF Admit
  <2> QED BY <2>1, <2>2, <2>3
<1>2. ASSUME NEW l \in Limiters, NEW k \in Keys
      PROVE  KeyOK(record(l, k), window(l, k).start, window(l, k).hits, Budget[l], now)
  <2>1. CASE hit(l, k)
    <3>1. PICK w, f : /\ w = Hit(g, l, k)
                      /\ f = IF Refuses(g, l, k) THEN passed[g][l][k]
                             ELSE LetThrough(g, l, k)
      OBVIOUS
    <3>2. KeyOK(f, w.start, w.hits, Budget[l], now)
      BY <3>1, HitKeyOK
    <3>3. record(l, k) = f /\ window(l, k) = w
      BY <2>1, <3>1
    <3> QED BY <3>2, <3>3
  <2>2. CASE ~hit(l, k)
    <3>1. record(l, k) = passed[g][l][k] /\ window(l, k) = windows[g][l][k]
      BY <2>2
    <3> HIDE DEF record, window
    <3> QED BY <3>1 DEF LimitsInv
  <2> QED BY <2>1, <2>2
<1> HIDE DEF record, window
<1>3. \A l \in Limiters, k \in Keys : record(l, k) \in Passes
  BY <1>2 DEF KeyOK
<1>4. windows \in Windows /\ passed \in [Gateways -> [Limiters -> [Keys -> Passes]]]
  BY DEF TablesOK, LimitsInv
<1>5. [l \in Limiters |-> [k \in Keys |-> record(l, k)]] \in [Limiters -> [Keys -> Passes]]
  BY <1>3
<1>6. passed' \in [Gateways -> [Limiters -> [Keys -> Passes]]]
  BY <1>1, <1>4, <1>5
<1>7. ASSUME NEW x \in Gateways, NEW l \in Limiters, NEW k \in Keys
      PROVE  KeyOK(passed'[x][l][k], windows'[x][l][k].start, windows'[x][l][k].hits,
                   Budget[l], now')
  <2>1. CASE x = g
    <3>1. passed'[x][l][k] = record(l, k) /\ windows'[x][l][k] = window(l, k)
      BY <1>1, <1>4, <2>1 DEF Windows
    <3> QED BY <1>1, <1>2, <3>1
  <2>2. CASE x # g
    <3>1. passed'[x][l][k] = passed[x][l][k] /\ windows'[x][l][k] = windows[x][l][k]
      BY <1>1, <1>4, <2>2 DEF Windows
    <3> QED BY <1>1, <3>1 DEF LimitsInv
  <2> QED BY <2>1, <2>2
<1> QED BY <1>6, <1>7 DEF LimitsInv

\* Time passes: nothing is let through that was not.
LEMMA TickLimits ==
  ASSUME TablesOK, LimitsInv, Tick
  PROVE  LimitsInv'
<1>1. now \in 0..MaxTime /\ MaxTime \in Nat /\ now' = now + 1 /\ UNCHANGED <<windows, passed>>
  BY Times DEF TablesOK, Tick
<1>2. ASSUME NEW f, NEW s, NEW h, NEW b, KeyOK(f, s, h, b, now) PROVE KeyOK(f, s, h, b, now')
  BY <1>1, <1>2 DEF KeyOK, WindowOK
<1> QED BY <1>1, <1>2 DEF LimitsInv

\* The steps of Next, as the limiters see them.
LEMMA GatewaySteps ==
  ASSUME Next
  PROVE  \/ Tick
         \/ \E g \in Gateways : \E scope, ip, token : Admit(g, scope, ip, token)
         \/ UNCHANGED gatewayVars
<1> DEFINE Admits == \E g \in Gateways : \E scope, ip, token : Admit(g, scope, ip, token)
<1>1. ASSUME NEW c, NEW op, NEW user, NEW row, NEW bearer, NEW ip,
             Send(c, op, user, row, bearer, ip)
      PROVE  Admits
  BY <1>1 DEF Send
<1> HIDE DEF Admits
<1>2. ASSUME NEW c \in Calls, AuthStep(c) PROVE UNCHANGED gatewayVars
  BY <1>2 DEF AuthStep, FindUser, InsertUser, FindActiveRefreshToken, SignAccessToken,
              StoreRefreshToken, VerifyAccessToken, RevokeAll, AuthFails
<1>3. ASSUME NEW b \in Browsers,
             \/ \E u \in use.users : SignUp(b, u) \/ SignIn(b, u)
             \/ AfterRegister(b) \/ ShowError(b) \/ SetCookies(b)
             \/ SignOut(b) \/ AfterLogout(b)
             \/ \E op \in {"cart", "me"} : Visit(b, op)
      PROVE  Admits \/ UNCHANGED gatewayVars
  <2>1. CASE \E u \in use.users : SignUp(b, u) \/ SignIn(b, u)
    BY <1>1, <2>1 DEF SignUp, SignIn
  <2>2. CASE AfterRegister(b) \/ \E op \in {"cart", "me"} : Visit(b, op)
    BY <1>1, <2>2 DEF AfterRegister, Visit
  <2>3. CASE ShowError(b) \/ SetCookies(b) \/ AfterLogout(b)
    BY <2>3 DEF ShowError, SetCookies, AfterLogout
  <2>4. CASE SignOut(b)
    BY <1>1, <2>4 DEF SignOut
  <2> QED BY <1>3, <2>1, <2>2, <2>3, <2>4
<1>4. ASSUME \/ \E i \in DOMAIN rows : Refresh(i)
             \/ \E op \in {"catalog", "health", "cart"} : Anonymous(op)
      PROVE  Admits
  BY <1>1, <1>4 DEF Refresh, Anonymous
<1> QED BY <1>2, <1>3, <1>4 DEF Next, Admits

LEMMA LimitsInitially == Init => LimitsInv
<1> SUFFICES ASSUME Init PROVE LimitsInv
  OBVIOUS
<1>1. MaxTime \in Nat /\ Window \in Nat \ {0} /\ Budget \in [Limiters -> Nat \ {0}]
  BY GatewayAssumption
<1>2. PICK none : none = [t \in 0..MaxTime |-> 0]
  OBVIOUS
<1>3. none \in Passes /\ \A t \in 0..MaxTime : none[t] = 0
  BY <1>2 DEF Passes
<1>4. ASSUME NEW b \in Nat \ {0} PROVE BurstOK(none, b)
  <2> SUFFICES ASSUME NEW t \in 0..MaxTime, t + Window - 1 <= MaxTime
               PROVE  Stretch(none, t, t + Window - 1) <= 2 * b - 1
    BY DEF BurstOK
  <2>1. t \in Nat /\ t + Window - 1 \in Nat
    BY <1>1
  <2>2. \A x \in t..(t + Window - 1) : none[x] = 0
    BY <1>1, <1>3
  <2>3. Stretch(none, t, t + Window - 1) = 0
    BY <2>1, <2>2, StretchZero
  <2> QED BY <2>3
<1>5. ASSUME NEW b \in Nat \ {0} PROVE KeyOK(none, 0, 0, b, 0)
  BY <1>3, <1>4 DEF KeyOK
<1>6. /\ now = 0
      /\ passed = [g \in Gateways |-> [l \in Limiters |-> [k \in Keys |-> none]]]
      /\ windows = [g \in Gateways |-> [l \in Limiters |-> [k \in Keys |-> [start |-> 0, hits |-> 0]]]]
  BY <1>2 DEF Init, GatewayInit
<1>7. passed \in [Gateways -> [Limiters -> [Keys -> Passes]]]
  BY <1>3, <1>6
<1>8. ASSUME NEW g \in Gateways, NEW l \in Limiters, NEW k \in Keys
      PROVE  KeyOK(passed[g][l][k], windows[g][l][k].start, windows[g][l][k].hits, Budget[l], now)
  <2>1. passed[g][l][k] = none /\ windows[g][l][k].start = 0 /\ windows[g][l][k].hits = 0
    BY <1>6
  <2>2. Budget[l] \in Nat \ {0}
    BY <1>1
  <2> QED BY <1>5, <1>6, <2>1, <2>2
<1> QED BY <1>7, <1>8 DEF LimitsInv

\* The inductive invariant of the limiters: what a key was let through since its window
\* began is within its hits and its budget, and what it was let through shortly before is
\* less than a budget.
THEOREM LimitsInvariant == Spec => []LimitsInv
<1>1. AccessInv /\ LimitsInv /\ [Next]_accessVars => LimitsInv'
  <2> SUFFICES ASSUME AccessInv, LimitsInv, [Next]_accessVars PROVE LimitsInv'
    OBVIOUS
  <2>1. TablesOK
    BY DEF AccessInv
  <2>2. CASE UNCHANGED gatewayVars
    BY <2>2 DEF gatewayVars, LimitsInv
  <2>3. CASE UNCHANGED accessVars
    BY <2>2, <2>3 DEF accessVars
  <2> QED BY <2>1, <2>2, <2>3, TickLimits, AdmitLimits, GatewaySteps
<1> QED BY <1>1, LimitsInitially, AccessInvariant, PTL DEF Spec

\* In any stretch of time as long as a window, a replica lets less than two budgets of a
\* key through (the rate limiters of gateway/src/app.ts, whose windows are fixed).
THEOREM BurstIsBounded == Spec => []BurstBounded
<1>1. LimitsInv => BurstBounded
  BY DEF LimitsInv, KeyOK, BurstOK, BurstBounded, PassedIn, Stretch
<1> QED BY <1>1, LimitsInvariant, PTL
=============================================================================
