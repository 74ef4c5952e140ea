------------------------------ MODULE Gateway ------------------------------
(***************************************************************************)
(* The API gateway (gateway): what its hooks do to a request before it is  *)
(* forwarded.  Three rate limiters count in the memory of each replica     *)
(* (RATE_LIMIT_REDIS_URL is unset in infra/k8s): all routes but the health *)
(* ones by IP address, /api/auth again by IP address, /api/cart and        *)
(* /api/orders again by the user the access token names.                   *)
(***************************************************************************)
EXTENDS Naturals, Counting

CONSTANTS
  Gateways, \* replicas of the gateway
  Users,    \* user ids
  IPs,      \* addresses requests come from: the storefront's server, other clients
  Budget,   \* requests a limiter lets through in one window
  Window,   \* length of a window, in ticks
  MaxTime   \* bound on the clock

VARIABLES
  now,     \* the clock
  windows, \* per replica, limiter and key: the window's start and the hits in it
  passed   \* history: per replica, limiter and key, the hits let through at each tick

gatewayVars == <<now, windows, passed>>

Limiters == {"global", "auth", "user"}
Scopes == {"health", "auth", "user", "open"}
Keys == IPs \cup Users

ASSUME GatewayAssumption ==
  /\ Budget \in [Limiters -> Nat \ {0}]
  /\ Window \in Nat \ {0}
  /\ MaxTime \in Nat
  /\ IPs \cap Users = {}

\* assertRateLimitInvariants: the process does not start otherwise.
RateLimitInvariants == Budget["user"] < Budget["global"]
ASSUME RateLimitAssumption == RateLimitInvariants

GatewayInit ==
  /\ now = 0
  /\ windows = [g \in Gateways |-> [l \in Limiters |-> [k \in Keys |-> [start |-> 0, hits |-> 0]]]]
  /\ passed = [g \in Gateways |-> [l \in Limiters |-> [k \in Keys |-> [t \in 0..MaxTime |-> 0]]]]

\* An access token is the user it names and the time it expires.
Verified(token) == token.user \in Users /\ now < token.expires

\* buildApp: the limiters registered around a route.
LimitersOf ==
  [s \in Scopes |->
     CASE s = "health" -> {} [] s = "auth" -> {"global", "auth"}
       [] s = "user" -> {"global", "user"} [] OTHER -> {"global"}]

KeyOf(l, ip, token) == IF l = "user" THEN token.user ELSE ip

\* The key has no window, or its window is over.
Fresh(g, l, k) == windows[g][l][k].hits = 0 \/ windows[g][l][k].start + Window <= now

\* Mutant: the first hit of a window is not counted.
HitFromZero(g, l, k) ==
  IF Fresh(g, l, k) THEN [start |-> now, hits |-> 0] ELSE [windows[g][l][k] EXCEPT !.hits = @ + 1]
\* One more hit of the key, in its window or in a new one.
Hit(g, l, k) ==
  IF Fresh(g, l, k) THEN [start |-> now, hits |-> 1] ELSE [windows[g][l][k] EXCEPT !.hits = @ + 1]

Refuses(g, l, k) == Hit(g, l, k).hits > Budget[l]

\* The hooks run in order and stop at the first that refuses: the global limiter, the
\* scope's own, the user's only after the token was verified.
Reached(g, scope, ip, token) ==
  {l \in LimitersOf[scope] :
     /\ l # "global" => ~Refuses(g, "global", ip)
     /\ l = "user" => Verified(token)}

Verdict(g, scope, ip, token) ==
  IF \E l \in Reached(g, scope, ip, token) : Refuses(g, l, KeyOf(l, ip, token)) THEN 429
  ELSE IF scope = "user" /\ ~Verified(token) THEN 401
  ELSE 0

\* What the key was let through, with one more now.
LetThrough(g, l, k) == [passed[g][l][k] EXCEPT ![now] = @ + 1]

\* A refused hit counts as well.
Admit(g, scope, ip, token) ==
  LET reached == Reached(g, scope, ip, token)
      hit(l, k) == l \in reached /\ k = KeyOf(l, ip, token)
  IN /\ windows' = [windows EXCEPT ![g] = [l \in Limiters |-> [k \in Keys |->
           IF hit(l, k) THEN Hit(g, l, k) ELSE @[l][k]]]]
     /\ passed' = [passed EXCEPT ![g] = [l \in Limiters |-> [k \in Keys |->
           IF hit(l, k) /\ ~Refuses(g, l, k) THEN LetThrough(g, l, k) ELSE @[l][k]]]]
     /\ UNCHANGED now

Tick ==
  /\ now < MaxTime
  /\ now' = now + 1
  /\ UNCHANGED <<windows, passed>>

-----------------------------------------------------------------------------
(* What a limiter promises *)

PassedIn(g, l, k, first, last) == SumOf([t \in first..last |-> passed[g][l][k][t]])

\* A window starts with its first hit, so around the end of one a key may spend what is
\* left of a budget and a whole one, but no more in any stretch as long as a window, on
\* one replica.
BurstBounded ==
  \A g \in Gateways, l \in Limiters, k \in Keys, t \in 0..MaxTime :
    t + Window - 1 <= MaxTime => PassedIn(g, l, k, t, t + Window - 1) <= 2 * Budget[l] - 1
=============================================================================
