------------------------------- MODULE Access -------------------------------
(***************************************************************************)
(* Signing in and out: browsers on the storefront, whose session route     *)
(* (frontend/app/api/session) calls the auth service through the gateway   *)
(* and keeps both tokens in cookies; clients that use a refresh token; and *)
(* the calls for the cart and the orders that spend a user's budget.       *)
(***************************************************************************)
EXTENDS AuthService

CONSTANTS
  Browsers,
  Storefront, \* the address every call of the storefront's server comes from
  Elsewhere,  \* the address of the other clients
  Uses        \* what a behaviour consists of: the operations used, how many calls
              \* and ticks there are, the accounts and sessions it starts with

VARIABLES
  browser, \* per browser: its cookies and the call its session route waits for
  use      \* what this behaviour consists of

accessVars == <<gatewayVars, authVars, browser, use>>

ASSUME AccessAssumption ==
  /\ 0 \notin Calls
  /\ {Storefront, Elsewhere} \subseteq IPs
  /\ \A u \in Uses :
       /\ u.users \cup u.accounts \subseteq Users
       /\ u.rows \in Seq(u.accounts)
       /\ u.cookies \in [Browsers -> 0..Len(u.rows)]

SignedOut == [pc |-> "idle", user |-> Anyone, call |-> 0, session |-> NoToken, row |-> 0]

SessionOf(i) == [user |-> use.rows[i], expires |-> AccessTTL]

Init ==
  /\ use \in Uses
  /\ GatewayInit
  /\ accounts = use.accounts
  /\ rows = [i \in DOMAIN use.rows |-> NewRow(use.rows[i])]
  /\ issued = {}
  /\ call = [c \in Calls |-> NewCall]
  /\ browser = [b \in Browsers |->
       IF use.cookies[b] = 0 THEN SignedOut
       ELSE [SignedOut EXCEPT !.session = SessionOf(use.cookies[b]), !.row = use.cookies[b]]]

-----------------------------------------------------------------------------
(* A call through some replica of the gateway *)

ScopeOf(op) ==
  CASE op \in AuthOps -> "auth" [] op = "cart" -> "user" [] op = "health" -> "health"
    [] OTHER -> "open"

NextToSend(c) ==
  c <= use.calls /\ call[c].pc = "unsent" /\ \A d \in Calls : d < c => call[d].pc # "unsent"

\* What is forwarded to another service than auth is answered 200.
Sent(c, op, user, row, bearer, verdict) ==
  [NewCall EXCEPT !.op = op, !.user = user, !.row = row, !.bearer = bearer,
                  !.pc = IF verdict = 0 /\ op \in AuthOps THEN FirstQuery(op) ELSE "answered",
                  !.status = IF verdict = 0 /\ op \notin AuthOps THEN 200 ELSE verdict]

Send(c, op, user, row, bearer, ip) ==
  /\ NextToSend(c)
  /\ op \in use.ops
  /\ \E g \in Gateways :
       /\ Admit(g, ScopeOf(op), ip, bearer)
       /\ call' = [call EXCEPT ![c] =
            Sent(c, op, user, row, bearer, Verdict(g, ScopeOf(op), ip, bearer))]
  /\ UNCHANGED <<accounts, rows, issued, use>>

-----------------------------------------------------------------------------
(* app/api/session/route.ts, the forms and the sign-out button *)

Await(b, pc, user, c) ==
  browser' = [browser EXCEPT ![b].pc = pc, ![b].user = user, ![b].call = c]

Idle(b) == browser[b].pc = "idle"
\* The cookie lives as long as the token in it.
HasSession(b) == Verified(browser[b].session)
Answered(b) == \E c \in Calls : browser[b].call = c /\ call[c].pc = "answered"
Status(b) == call[browser[b].call].status

SignUp(b, u) ==
  /\ Idle(b)
  /\ \E c \in Calls : Send(c, "register", u, 0, NoToken, Storefront) /\ Await(b, "registering", u, c)

SignIn(b, u) ==
  /\ Idle(b)
  /\ \E c \in Calls : Send(c, "login", u, 0, NoToken, Storefront) /\ Await(b, "signingIn", u, c)

\* POST, mode register: the account was made, now sign in.
AfterRegister(b) ==
  /\ browser[b].pc = "registering" /\ Answered(b) /\ Status(b) = 201
  /\ \E c \in Calls :
       /\ Send(c, "login", browser[b].user, 0, NoToken, Storefront)
       /\ Await(b, "signingIn", browser[b].user, c)

ShowError(b) ==
  /\ browser[b].pc \in {"registering", "signingIn"}
  /\ Answered(b) => Status(b) \notin {200, 201} \* or the call itself failed
  /\ Await(b, "idle", Anyone, 0)
  /\ UNCHANGED <<gatewayVars, authVars, use>>

SetCookies(b) ==
  /\ browser[b].pc = "signingIn" /\ Answered(b) /\ Status(b) = 200
  /\ browser' = [browser EXCEPT ![b] = [SignedOut EXCEPT !.session = call[browser[b].call].bearer,
                                                      !.row = call[browser[b].call].row]]
  /\ UNCHANGED <<gatewayVars, authVars, use>>

ClearCookies(b) == browser' = [browser EXCEPT ![b] = SignedOut]

\* DELETE: without the session cookie the auth service is not called.
SignOut(b) ==
  /\ Idle(b) /\ browser[b].row # 0
  /\ IF HasSession(b)
     THEN \E c \in Calls :
            /\ Send(c, "logout", Anyone, 0, browser[b].session, Storefront)
            /\ Await(b, "signingOut", Anyone, c)
     ELSE ClearCookies(b) /\ UNCHANGED <<gatewayVars, authVars, use>>

\* Best effort: whatever the call answered, or if it did not.
AfterLogout(b) ==
  /\ browser[b].pc = "signingOut"
  /\ ClearCookies(b)
  /\ UNCHANGED <<gatewayVars, authVars, use>>

-----------------------------------------------------------------------------
(* Other calls *)

\* A page that asks for the cart or the orders, or for the profile.
Visit(b, op) ==
  /\ Idle(b) /\ HasSession(b)
  /\ \E c \in Calls : Send(c, op, browser[b].session.user, 0, browser[b].session, Storefront)
  /\ UNCHANGED browser

\* A client that was given the refresh token of row i.
Refresh(i) ==
  /\ \E c \in Calls : Send(c, "refresh", Anyone, i, NoToken, Elsewhere)
  /\ UNCHANGED browser

\* Without a token: the catalog, the probes, or a cart that answers 401.
Anonymous(op) ==
  /\ \E c \in Calls : Send(c, op, Anyone, 0, NoToken, Elsewhere)
  /\ UNCHANGED browser

Next ==
  \/ now < use.ticks /\ Tick /\ UNCHANGED <<authVars, browser, use>>
  \/ \E c \in Calls : AuthStep(c) /\ UNCHANGED <<browser, use>>
  \/ \E b \in Browsers :
       \/ \E u \in use.users : SignUp(b, u) \/ SignIn(b, u)
       \/ AfterRegister(b) \/ ShowError(b) \/ SetCookies(b)
       \/ SignOut(b) \/ AfterLogout(b)
       \/ \E op \in {"cart", "me"} : Visit(b, op)
  \/ \E i \in DOMAIN rows : Refresh(i)
  \/ \E op \in {"catalog", "health", "cart"} : Anonymous(op)

Spec == Init /\ [][Next]_accessVars

Tokens == [user : Users \cup {Anyone}, expires : Nat]
CallStates == {"unsent", "findUser", "insertUser", "sign", "storeToken", "findToken", "verify",
               "revoke", "answered"}

TypeOK ==
  /\ now \in 0..MaxTime
  /\ windows \in [Gateways -> [Limiters -> [Keys -> [start : Nat, hits : Nat]]]]
  /\ accounts \subseteq Users
  /\ rows \in Seq([user : accounts, expires : Nat, revoked : 0..now \cup {Never}])
  /\ issued \subseteq [token : Tokens, found : 0..now, row : 0..Len(rows)]
  /\ call \in [Calls -> [op : AuthOps \cup {"none", "cart", "catalog", "health"},
                         user : Users \cup {Anyone}, row : 0..Len(rows), bearer : Tokens,
                         pc : CallStates, found : 0..now, status : Nat]]
  /\ \A c \in Calls :
       /\ call[c].pc \in {"sign", "storeToken"} => call[c].user \in accounts
       /\ call[c].pc \in {"findUser", "insertUser"} => call[c].user \in Users
       /\ call[c].pc = "findToken" => call[c].row # 0
  /\ browser \in [Browsers -> [pc : {"idle", "registering", "signingIn", "signingOut"},
                               user : Users \cup {Anyone}, call : Calls \cup {0},
                               session : Tokens, row : 0..Len(rows)]]
  /\ \A b \in Browsers : browser[b].pc = "registering" => browser[b].user \in Users

-----------------------------------------------------------------------------
\* Two sign-ups with one address that both passed the look-up make one account, and
\* one of them is told so: no address is registered twice.
RegisteredOnce ==
  \A c, d \in Calls :
    call[c].op = "register" /\ call[c].status = 201 /\ call[d].op = "register"
      /\ call[d].status = 201 /\ call[c].user = call[d].user => c = d

\* A logout that was answered is for good: every session the user had then is revoked,
\* and no access token is made from it but by a refresh that had already found it, also
\* when refreshes, logins and other logouts run beside it.
LogoutIsForGood ==
  \A c \in Calls : call[c].op = "logout" /\ call[c].status = 204 =>
    \A i \in 1..call[c].row : rows[i].user = call[c].bearer.user =>
      /\ rows[i].revoked <= call[c].found
      /\ \A t \in issued : t.row = i => t.found <= call[c].found

\* A user is refused only for what the user sent, as long as the users of one address
\* have, together, the budget of the address (gateway/src/app.ts: "one account maxing
\* this out doesn't affect anyone else on the same network").
SentBy(u, c) == {d \in Calls : d <= c /\ call[d].op = "cart" /\ call[d].user = u}
OthersUnaffected ==
  Budget["user"] * Cardinality(Users) <= Budget["global"] =>
    \A c \in Calls : call[c].op = "cart" /\ call[c].status = 429 =>
      Cardinality(SentBy(call[c].user, c)) > Budget["user"]
=============================================================================
