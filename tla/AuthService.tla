---------------------------- MODULE AuthService ----------------------------
(***************************************************************************)
(* The auth service (services/auth): accounts, access tokens that are only *)
(* verified and never stored, refresh tokens that are rows of a table.     *)
(* Each handler is a sequence of database calls with awaits in between.    *)
(***************************************************************************)
EXTENDS Gateway, Sequences

CONSTANTS
  Calls,      \* the calls a behaviour may make, in the order they are sent
  AccessTTL,  \* life of an access token, in ticks
  RefreshTTL, \* life of a refresh token, in ticks
  Anyone      \* the user of a token that names none

VARIABLES
  accounts, \* the users whose row exists; the address is unique
  rows,     \* the refresh_tokens table
  issued,   \* access tokens signed: with the row they go with, and when it was found
  call      \* the handler of each call; row and found also keep, as history, the
            \* rows a logout met and when

authVars == <<accounts, rows, issued, call>>

AuthOps == {"register", "login", "refresh", "me", "logout"}

ASSUME AuthAssumption ==
  /\ Calls \subseteq Nat
  /\ AccessTTL \in Nat /\ RefreshTTL \in Nat
  /\ Anyone \notin Users

NoToken == [user |-> Anyone, expires |-> 0]
NewCall == [op |-> "none", user |-> Anyone, row |-> 0, bearer |-> NoToken, pc |-> "unsent",
            found |-> 0, status |-> 0]

\* Rows without a revocation time have it at Never.
Never == MaxTime + 1
NewRow(user) == [user |-> user, expires |-> now + RefreshTTL, revoked |-> Never]

CallGoto(c, pc) == call' = [call EXCEPT ![c].pc = pc]
CallReply(c, status) == call' = [call EXCEPT ![c].pc = "answered", ![c].status = status]

FirstQuery(op) ==
  CASE op \in {"register", "login"} -> "findUser"
    [] op = "refresh" -> "findToken"
    [] OTHER -> "verify"

-----------------------------------------------------------------------------
(* register *)

\* Mutant: nobody is refused.
AcceptsAnyone(user) == TRUE
\* A password can only match the hash of an existing account.
MayMatch(user) == user \in accounts

FindUser(c) ==
  /\ call[c].pc = "findUser"
  /\ \/ call[c].op = "register" /\ call[c].user \in accounts /\ CallReply(c, 409)
     \/ call[c].op = "register" /\ call[c].user \notin accounts /\ CallGoto(c, "insertUser")
     \/ call[c].op = "login" /\ CallReply(c, 401) \* no such account, or a wrong password
     \/ call[c].op = "login" /\ MayMatch(call[c].user) /\ CallGoto(c, "sign")
  /\ UNCHANGED <<gatewayVars, accounts, rows, issued>>

\* Mutant: the address is not UNIQUE.
AnyAddress(user) == TRUE
FreeAddress(user) == user \notin accounts

NewAccount(user) == accounts' = accounts \cup {user} /\ UNCHANGED rows

\* The violated constraint is not an HttpError: 500.
InsertUser(c) ==
  /\ call[c].pc = "insertUser"
  /\ IF FreeAddress(call[c].user)
     THEN NewAccount(call[c].user) /\ CallReply(c, 201)
     ELSE UNCHANGED <<accounts, rows>> /\ CallReply(c, 500)
  /\ UNCHANGED <<gatewayVars, issued>>

-----------------------------------------------------------------------------
(* login, refresh *)

Token(c) == [user |-> call[c].user, expires |-> now + AccessTTL]

\* login signs, then stores the row; refresh signs and is done.
SignAccessToken(c) ==
  /\ call[c].pc = "sign"
  /\ issued' = issued \cup {[token |-> Token(c), found |-> call[c].found,
                             row |-> IF call[c].op = "login" THEN 0 ELSE call[c].row]}
  /\ call' = [call EXCEPT ![c].bearer = Token(c),
                          ![c].pc = IF call[c].op = "login" THEN "storeToken" ELSE "answered",
                          ![c].status = IF call[c].op = "login" THEN 0 ELSE 200]
  /\ UNCHANGED <<gatewayVars, accounts, rows>>

NewSession(user) == rows' = Append(rows, NewRow(user)) /\ UNCHANGED accounts

StoreRefreshToken(c) ==
  /\ call[c].pc = "storeToken"
  /\ NewSession(call[c].user)
  /\ call' = [call EXCEPT ![c].row = Len(rows) + 1, ![c].pc = "answered", ![c].status = 200]
  /\ UNCHANGED <<gatewayVars, issued>>

\* Mutant: the query lost AND revoked_at IS NULL.
ActiveIfUnexpired(row) == now < rows[row].expires
Active(row) == rows[row].revoked = Never /\ now < rows[row].expires

FindActiveRefreshToken(c) ==
  /\ call[c].pc = "findToken"
  /\ IF Active(call[c].row)
     THEN call' = [call EXCEPT ![c].pc = "sign", ![c].user = rows[call[c].row].user,
                               ![c].found = now]
     ELSE CallReply(c, 401)
  /\ UNCHANGED <<gatewayVars, accounts, rows, issued>>

-----------------------------------------------------------------------------
(* me, logout *)

VerifyAccessToken(c) ==
  /\ call[c].pc = "verify"
  /\ IF Verified(call[c].bearer)
     THEN IF call[c].op = "me" THEN CallReply(c, 200) ELSE CallGoto(c, "revoke")
     ELSE CallReply(c, 401)
  /\ UNCHANGED <<gatewayVars, accounts, rows, issued>>

\* Mutant: only the newest session is revoked.
NewestOf(user) ==
  {i \in DOMAIN rows : rows[i].user = user /\ \A j \in DOMAIN rows : rows[j].user = user => j <= i}
ToRevoke(user) == {i \in DOMAIN rows : rows[i].user = user /\ rows[i].revoked = Never}

Revoked(user) ==
  /\ rows' = [i \in DOMAIN rows |->
                IF i \in ToRevoke(user) THEN [rows[i] EXCEPT !.revoked = now] ELSE rows[i]]
  /\ UNCHANGED accounts

RevokeAll(c) ==
  /\ call[c].pc = "revoke"
  /\ Revoked(call[c].bearer.user)
  /\ call' = [call EXCEPT ![c] = [@ EXCEPT !.pc = "answered", !.status = 204,
                                          !.row = Len(rows), !.found = now]]
  /\ UNCHANGED <<gatewayVars, issued>>

\* A query fails, before or after its effect, or the process dies.
AuthFails(c) ==
  /\ call[c].pc \notin {"unsent", "answered"}
  /\ \/ UNCHANGED <<accounts, rows>>
     \/ call[c].pc = "insertUser" /\ FreeAddress(call[c].user) /\ NewAccount(call[c].user)
     \/ call[c].pc = "storeToken" /\ NewSession(call[c].user)
     \/ call[c].pc = "revoke" /\ Revoked(call[c].bearer.user)
  /\ CallReply(c, 500)
  /\ UNCHANGED <<gatewayVars, issued>>

AuthStep(c) ==
  \/ FindUser(c) \/ InsertUser(c)
  \/ FindActiveRefreshToken(c) \/ SignAccessToken(c) \/ StoreRefreshToken(c)
  \/ VerifyAccessToken(c) \/ RevokeAll(c)
  \/ AuthFails(c)
=============================================================================
