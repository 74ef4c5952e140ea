------------------------------ MODULE MCAccess ------------------------------
(***************************************************************************)
(* Small instances of signing in and of the gateway's limits for TLC.      *)
(***************************************************************************)
EXTENDS Access

CONSTANTS ann, bob, b1, b2

TwoUsers == {ann, bob}
Both == {b1, b2}

Limits(global, auth, user) ==
  [l \in Limiters |-> CASE l = "global" -> global [] l = "auth" -> auth [] OTHER -> user]
Wide == Limits(3, 2, 2)
OneEach == Limits(2, 1, 1)

Use(ops, n, ticks, users, first, owners) ==
  [ops |-> ops, calls |-> n, ticks |-> ticks, users |-> users, accounts |-> first, rows |-> owners,
   cookies |-> [b \in Browsers |->
     IF b = b1 /\ Len(owners) > 0 THEN 1 ELSE IF b = b2 /\ Len(owners) > 1 THEN 2 ELSE 0]]

\* Two browsers sign up with one address, in and out; ann signs in again and out while
\* her sessions are refreshed; everyone spends budgets.
Mixes == {Use({"register", "login", "logout"}, 4, 1, {ann}, {}, <<>>),
          Use({"login", "logout", "refresh"}, 3, 1, {ann}, {ann}, <<ann>>),
          Use({"logout", "refresh"}, 3, 2, {}, {ann}, <<ann>>),
          Use({"cart", "catalog", "health", "me"}, 4, 2, {}, {ann, bob}, <<ann, bob>>)}
Busy == {Use({"cart"}, 3, 0, {}, {ann, bob}, <<ann, bob>>)}
=============================================================================
