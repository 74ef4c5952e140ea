# A TLA+ model of the ecommerce checkout

The repository is a shop built of small services (`src/README.md`,
`src/ARCHITECTURE.md`, `src/shared/CONTRACTS.md`): a storefront and an admin
console (Next.js), an API gateway (Fastify), and auth, catalog, cart, order,
inventory, payment and notification services, each with its own database.
There is no central coordinator. An order goes through a *choreographed saga*
over Kafka: order, inventory and payment react to each other's events. This
directory models that saga and the three paths that lead to it: a customer's cart up
to the order, signing in and out, and the gateway's limits. What is hard to get right and
hard to test in the repository (which has no automated tests) is there:
two replicas of every service, at-least-once and at-most-once consumption, no
outbox, no transaction across services, carts and sessions read and
written back across awaits.

## 1. Inventory

### The saga

```
client -> order:  POST /orders            order.created  -> inventory, payment
inventory:        reserve every line      inventory.reserved -> order, payment
                  or roll back            inventory.failed   -> order
payment:          charge                  payment.completed  -> order
                  or decline              payment.failed     -> order, inventory
order:            confirm / cancel        order.confirmed, order.cancelled -> notification
inventory:        payment.failed: release the reservations
```

Services share nothing but the bus. Inside a service the HTTP handlers, the
consumer and the other replica's consumer share one Postgres database.

### Components

| Component | State | Operations | What makes it correct |
|---|---|---|---|
| **Event bus** (Kafka; external) | topic-partition logs, group offsets, assignment | publish, fetch, commit, rebalance | the assumptions listed in section 4 |
| **Order** `services/order` | `orders`, `order_items`; consumer position | POST /orders (read cart, insert, publish, clear cart); consumer: reserve, confirm, cancel, announce | status only moves forward, terminal is final, what is announced is what is stored, confirmed only if paid |
| **Inventory** `services/inventory` | `stock`, `reservations`; consumer position and commit | order.created (guard, decrement, insert, publish or roll back), payment.failed (release), POST /inventory | no oversell, no lost unit, outcome published, complete compensation |
| **Payment** `services/payment` | `payments` (unique per order), `order_amounts`; auto-committed position | order.created (cache the total), inventory.reserved (check, resolve amount, charge, publish) | charged once, announced as stored, for an announced total |
| **Cart** `services/cart` | one Redis value per user, 7 days from its last write | add, update, remove (read the whole cart, ask the catalog, write it back), clear | an atomic cart but for named races, no line of it or of an order beyond what was asked for |
| **Auth** `services/auth` | users, refresh tokens | register, login, refresh, me, logout, query by query | one account per address, a logout is for good |
| **Gateway** `gateway` | rate-limit counters per replica | three limiters, JWT check, proxy | a bound on what a limiter passes |
| **Storefront** `frontend` | what each button, row and page shows; cookies | change the cart, place the order, poll its status; sign up, in and out | every press ends, the page settles on the final status |
| **Admin console** `admin` | the dashboard's numbers | count and list orders; set stock (in `InventoryService`) | the breakdown adds up to the total |
| Notification `services/notification` | none | a mail per order.confirmed / order.cancelled | every outcome is mailed at least once |
| Catalog, infra | | stateless reads, one insert; configuration | |

### What is hard

* **Interleaving**: after a rebalance the old owner of a partition goes on
  with an event its new owner fetches again (inventory `service.go:58`, payment
  `kafka_consumer.py:159`); two orders take the same stock line by line
  (`repository.go:97`); an administrator overwrites the level meanwhile.
* **Atomicity**: decrement and insert, insert and publish, update and publish are
  separate steps everywhere; a crash or an error fits between any two.
* **Delivery**: inventory commits after its handler, order *before* it
  (kafka-go's `ReadMessage`), payment in the background. Producers may write twice
  or report an error for an event that was written.
* **Ordering**: events of one order are ordered within a topic only.
* **Retries**: inventory starts a failed handler over (`handleWithRetry`), on
  top of what the first attempt left behind.
* **Timeouts**: payment waits for an amount that arrives on another topic.
* **Stale copies**: a cart handler writes back the cart it read before other requests
  changed it (`cartService.ts:45`); POST /orders deletes whatever the cart holds by
  then (`orders.go:81`); a refresh signs for a session found before a logout
  (`auth.ts:119`); a poll may be answered after a later one (`OrderStatusView.tsx:40`).
* **Limits**: windows start with a key's first hit and are counted per replica, and
  the shared limiter counts what the user's own refuses (`app.ts:105`, `app.ts:152`).

`PROJECT.json` lists each hazard at its line with the properties about it.

## 2. Modules

| Module | Models |
|---|---|
| `EventBus` | Kafka as the clients in `src/` use it, and the budget of disturbances |
| `OrderService` | `services/order`: POST /orders, the consumer, the transitions |
| `InventoryService` | `services/inventory`: both handlers, the retry loop, POST /inventory |
| `PaymentService` | `services/payment`: both handlers, the amount cache |
| `CheckoutSaga` | the three services on one bus; the properties across them |
| `OrderLifecycle` | abstract: what checkout promises a customer, without services or faults |
| `InventoryAlone`, `PaymentAlone` | one service against the most general behaviour of those that feed it |
| `CartService` | `services/cart`: the four mutations call by call |
| `OrderPlacement` | POST /orders as the cart sees it, on top of `CartService` |
| `Storefront` | `frontend`: the cart and order controls, the polling order page |
| `Console` | `admin`: the dashboard over the order service's two queries |
| `Shop` | the four composed; the properties across them |
| `AtomicCart` | abstract: what a cart promises, without requests, copies or failures |
| `Gateway` | `gateway`: limiters, windows, token check, in hook order |
| `AuthService` | `services/auth`, behind the gateway |
| `Access` | the storefront's session route and the other clients; the composition |
| `Counting` | sums as numbers of units, for the stock, the cart, the limiters and the dashboard |
| `MCCheckout`, `MCInventory`, `MCPayment`, `MCShop`, `MCAccess` | small instances for TLC |
| `EventBusProofs`, `CountingProofs`, `InventoryProofs`, `PaymentProofs` | lemmas about the bus, sums and the two services |
| `AloneProofs`, `CheckoutSagaProofs`, `ShopProofs`, `AccessProofs` | the theorems; the order service's lemmas are in `CheckoutSagaProofs` |

The saga's modules and the shop's meet in POST /orders: `OrderService` has its publish and
what follows on the bus, `OrderPlacement` its calls to the cart; the order's later
statuses, which the pages show, move in `Shop` as `OrderLifecycle` allows.
`Access` is independent of both: the cart sees a user id that the gateway verified.

### How they correspond to the code

*Granularity.* An action is what happens between two points where something else can
come between: one SQL statement (or one transaction), one publish, one
fetch, one commit. `InvGuard`, `InvDecrement`, `InvInsert`, `InvPublishReserved`,
`InvRelease`, `InvPublishFailed`, `InvCommit` are `HandleOrderCreated` and the
end of `Run`; `InvLookup`, `InvRelease`, `InvCommit` are `HandlePaymentFailed`.
`PayExists`, `PayResolve`, `PayCharge`, `PayPublish` are
`_handle_inventory_reserved`. `CreateOrderRow`, `PublishCreated`, `DeleteCart` are
`CreateOrder`; `OrdRead`, `OrdHandle`, `OrdPublish` are the order consumer.
`Receive`, `FetchProduct`, `ReadCart`, `WriteCart`, `ClearCart` are the cart's routes, in
the order each handler has them (`addItem` asks the catalog before it reads,
`updateItem` after); `GetCart`, `InsertOrder`, `DeleteCart` are `CreateOrder` again.
In `AuthService` each action is one query or one signature of a handler. A request
through the gateway is one action up to the forwarded call, since the in-memory store
answers at once.

*State.* A table is a function of its key (`orders`, `payments`,
`orderAmounts`, `stock`) or a sequence of rows in order of insertion
(`reservations`). `inv`, `ord`, `pay` hold per replica where its consumer is
and its local variables. `supplied` (units ever put into stock) is a history
variable, read by no guard. In the shop `req` holds the handler of each request with
its copy of the cart, `control` each component's state and the request it
waits for, `page` the order page with its outstanding polls; `version` counts the
writes of the cart and `seen` the version of a copy, both history. In `Access`
`windows` are the limiters' counters, `rows` the refresh tokens in order of insertion,
`call` the handlers, `browser` the cookies; `passed`, `issued` and, in a logout's record,
`found` and `row` are history.

*Errors.* `InvDbError`, `OrdHandleError`, `PayRaises` and `CreateOrderFails` are
failing calls; a failed write has happened or not, since the acknowledgement
of a commit can be lost. What follows is the code's own error path: inventory
retries from the first step and then gives the message up, order and payment
log and go on.

*Crash.* A replica forgets its local state (`InvCrash`, `OrdCrash`,
`PayCrash`); its group gets a new assignment and every member resumes from the
committed offsets. A *rebalance* does the latter without the former: the
worker keeps handling what it holds.

*Abstractions.* An order's lines and total are constants; totals are natural numbers;
the reason "insufficient stock: <product>" loses the product; an envelope
keeps the order, the amount and the reason. Undecodable messages, logs,
metrics and traces are left out. The simulated latency is an interleaving point
and the simulated failure rate a free choice. An order whose cart is empty is
refused with nothing changed, so a modelled request has a cart with lines.
In `OrderService` a `POST /orders` that reads the cart and inserts the order is one
step; `OrderPlacement` has the steps. A cart line is its quantity, because no
handler changes a price; carts of different customers are different keys. A page's
text, and which of its messages an enabled button shows, are left out. Passwords match or
not, freely, if the account exists; a token is the user and its expiry. A session
cookie lives as long as the access token in it, which the model keeps in one.

## 3. Runs

Every run is small in data and complete in interleavings. "Disturbances" is the
set of fault kinds a behaviour of the saga may suffer and `MaxDisturbances` how many in
all; budgets are shared by all services. Deadlock checking is off in all runs: a behaviour in
which all events are handled, all requests made and the budget spent has no further step.

| Run | Instance | Shows |
|---|---|---|
| `saga_faults` | 1 order of 2 lines, all 8 kinds, 1 fault | `TypeOK`; `ConfirmedIsPaid`; `CancelReasonIsTrue`; `ImplementsLifecycle` |
| `saga_redelivery` | 1 order of 2 lines, the first short until restocked; 3 of crash / duplicate / restock | `ConfirmedHoldsStock`, `AnnouncementsAgree`, `TerminalIsFinal` |
| `saga_live` | the order of `saga_faults` with fairness; 1 of rebalance / duplicate / restock | `EveryOrderIsDecided`, `DeclinedIsCompensated` |
| `inventory_faults` | 2 orders crossing on 2 products, 2 replicas, 3 attempts, any 2 of rebalance / crash / failing call / restock, with fairness | `InvAloneTypeOK`, `NoOversell`, `DeclinedIsReleased` |
| `inventory_quiet` | the same with 2 attempts; 2 of rebalance / duplicate / failing commit / restock, no failing handler call, no crash | `StockConserved`, `OutcomeIsPublished` |
| `payment_faults` | 2 orders, 2 replicas, 2 partitions dealt round-robin, any 1 fault | `PayAloneTypeOK`, `OutcomeMatchesRow`, `AmountIsTotalOrFallback` |
| `shop` | 5 mixes of operations, at most 3 requests from 5 components, 1 failure, 2 products, with fairness | `TypeOK`, `NoInventedUnits`, `BreakdownCoversTotal`, `ImplementsAtomicCart`, `PressIsAnswered`, `PageSettles` |
| `access` | 4 mixes of operations, at most 4 calls, 2 browsers, 2 users, 2 addresses, 2 ticks | `TypeOK`, `RegisteredOnce`, `LogoutIsForGood`, `BurstBounded` |

The bounds of the saga are enough for the cases that matter to occur: a second line that can be
short after the first was reserved (rollback), an order that is refused, restocked and
redelivered (so that order receives both outcomes, in any order), two orders that each hold what the other
wants, a replica that still works on what another fetched again, and two faults in
sequence (a duplicate, then a crash in its handling; in `saga_redelivery` three). `MaxAttempts` is 3 in
the code; 2 already gives a retry and a giving up, and 3 is used where the property
depends on surviving two errors. `ResolveAttempts` is 5 in the code; 1 or 2 give the hit, the
late hit and the fallback. One partition per topic orders events as strictly
as Kafka can; payment's two partitions are there because round-robin assignment then
splits the topics between the replicas. Symmetry is not used.

In the saga runs each service has one replica; replicas that race are in the
single-service runs, which keep the environment most general (`order.created` once
or twice, `payment.failed` for any order seen reserved).

In `shop` and `access` a behaviour starts by choosing one *mix*: the operations its
requests may use, how many there are, and the failures there may be. All mixes together are the
questions; one instance with all operations and failures is out of TLC's reach. Two requests
overlap in every way two handlers can (a lost update, a clear or an order
between a read and its write, a double order); a third is there where it takes three (an order
beside two adds, a retry after a lost answer). Requests of the cart service need no
replicas in the model: handlers share only Redis. One quantity (2) differs from the unit
the cart may start with, so adding, setting and adding twice are told apart. Two polls
outstanding are the fewest that overtake each other. The page the order service serves
has 1 order in the model and 100 in the code, so the undercount occurs with two. In
`access` four calls allow a sign-up raced by another and both followed by a
sign-in, or two refreshes and a login beside a logout; 2 ticks are a window and the start
of the next. The model of the gateway has one replica, because each counts alone: `BurstBounded`
is per replica, and R replicas let through R times as much.

What the properties of the shop say where the code is known to race: `ImplementsAtomicCart`
allows, besides the steps of `AtomicCart`, exactly three kinds of step, each named and tied to
its cause: `ActsOnOldCopy` (a handler acts on a copy of a cart that has changed
since), `ActsBesideOrder` (a handler acts between another order's insert and its
delete), `KeepsOrderedCart` (a placed order's delete did not happen). Anything else that a step did to
the cart or the orders would be a violation. The mutants of the project show
that: a handler that drops the other lines is found, with one request and no race.

### Runs that refute what the documentation says

Each checks one statement of the repository against what the code does.

| Run | Statement | What TLC finds |
|---|---|---|
| `inventory_both_outcomes` | `services/inventory/README.md:160-163`: the guard "is what makes redelivery safe" | an order short on its first line leaves no row; its duplicate is processed again, and after the other order's release `inventory.reserved` follows `inventory.failed` |
| `payment_lost_outcome` | `services/payment/README.md:64-68`: skipping is "safe under Kafka's at-least-once delivery" | a restart between insert and publish: the redelivery is skipped and the outcome never announced |
| `order_reordered` | `shared/CONTRACTS.md:153-154`: all events of an order are processed in order | no fault at all: `payment.completed` is handled while the order is pending, and ignored |

| `gateway_starvation` | `gateway/src/app.ts:138-139`: "one account maxing this out doesn't affect anyone else on the same network" | two users whose budgets together fit the address's: requests the user's limiter refuses were counted by the shared one, and the other user is refused at the first request |

Disagreements met while modelling that have no run of their own:

* `eventbus/consumer.go:127-134` relies on the offset of a message given up "not being
  advanced past" it; the commit of the partition's next message advances it.
* `services/inventory/README.md:194-197` says only a narrow crash window loses an outcome; one
  failing insert is enough: the second attempt (`consumer.go:145`) sees the first one's
  row, takes the event for a duplicate and commits it.
* A replica that reserves a later line after another replica's release for the same order
  leaves an active row (`service.go:89`); `DeclinedIsReleased` is about the rows the
  release could read.
* `admin/app/page.tsx:11-16` asks for 1000 orders and says the tallies undercount beyond that; the order
  service caps a page at 100, so the breakdown undercounts from 101 orders on.
* `OrderStatusView.tsx:37-39` says polling stops at a terminal state; a late answer of an
  earlier poll shows an active status again and restarts it, until the next answer.
* A cart row whose quantity was changed stays disabled until the page is loaded
  anew (`CartItemsList.tsx:28`): `busy` is reset only after a failure.
* Signing out after the session cookie expired calls nobody, so the refresh tokens stay
  valid until they expire (`app/api/session/route.ts:72`).
* Two concurrent registrations of one address: the second is answered 500, not the
  documented 409 (`auth.ts:83`; the UNIQUE violation is not an `HttpError`).
* `/readyz` of the gateway leaves inventory out, though the comment says every
  upstream (`routes/health.ts:26-30`).

### Fairness

`FairSpec` has weak fairness for each replica's consumer steps and, in
`CheckoutSaga`, for the publish and the cart clearing of a request that inserted its
order. The code justifies it: the loops (`Run`, `_consume_loop`) run as long as the
process, every blocking call returns, and a handler that returns goes on.
Weak fairness is enough because a step of a replica stays enabled until it takes it
or a disturbance intervenes, and disturbances are bounded. Nothing is assumed of
customers, of faults, or of payment's auto-commit. In `Shop` the handlers of the cart and
of POST /orders (`CartStep`, `PlacementStep`) run to their end, an answered component acts on the
answer, and the order page's interval fires and its polls are answered: an
HTTP handler without a blocking wait either returns or dies, and a dead one is answered by the
gateway. `Access` states no fairness; its properties are safety. Weak fairness of the publish
action includes the outcome "error" only while the budget lasts.

## 4. Assumptions about Kafka

`EventBus` is external: it is written from how the clients are used.
A log is append-only and keyed by order id; a publish that is acknowledged is
in the log, once or (client retry) twice; one that fails is in it or not; a group's
members fetch each partition in order; after a rebalance or restart they
resume at the committed offset; a commit is accepted whatever its offset (kafka-go
does not check it against the assignment). A `kafka-go` `ReadMessage` commits before it
returns, a `FetchMessage` does not; aiokafka commits the positions of
its assigned partitions at any time.

## 5. Proofs

Every theorem is for every value of the constants; the only assumptions are
the named `ASSUME`s of the modules. Beyond the types of the constants and names that differ these are: orders have at least one
line and lines a positive quantity; the replicas of a service are finitely many (sums over them);
the gateway's budgets and window are positive. Two theorems about `StockConserved` have a
hypothesis of their own, stated below. Every inductive invariant was first checked by TLC on
the instances of section 3.

All 18 invariants of the passing runs, `TerminalIsFinal`, and the two refinements
`ImplementsLifecycle` and `ImplementsAtomicCart` are theorems.

### The saga

`CheckoutSagaProofs` proves, for every set of orders, products, replicas and
partitions, every assignment and every bound on the disturbances:

| Theorem | States |
|---|---|
| `SagaInvariant`, `CauseInvariant` | `Spec => []SagaInv`, `Spec => []CauseInv`, the inductive invariants |
| `TypeCorrect` | `Spec => []TypeOK` |
| `ConfirmedWasPaid` | `Spec => []ConfirmedIsPaid` |
| `ReasonIsTrue` | `Spec => []CancelReasonIsTrue` |
| `AnnouncedIsStored` | `Spec => []AnnouncementsAgree` |
| `VerdictIsStored` | `Spec => []OutcomeMatchesRow` |
| `AmountIsTrue` | `Spec => []AmountIsTotalOrFallback` |
| `TerminalForEver` | `Spec => TerminalIsFinal` |
| `NeverOversold` | `Spec => []NoOversell` |
| `ConfirmedKeepsStock` | `Spec => []ConfirmedHoldsStock` |
| `StockIsConserved` | `Spec => []StockConserved`, if neither `"crash"` nor `"dbError"` is among the disturbances |
| `SagaIsLifecycle` | `Spec => ImplementsLifecycle` |

**Why an invariant stronger than the properties.** `ConfirmedIsPaid` relates two tables
of two services. A step that confirms an order reads neither payment's table nor the bus: it acts on
an event a worker took from the bus some time ago. So the chain is spelled out in `SagaInv`:

1. an event an order worker is handling *was sent* (`HandlesWhatWasSent`: logs only grow);
2. a `payment.completed` or `payment.failed` that was sent *agrees with the row*
   (`OutcomeMatchesRow`), and so does one about to be sent (`PublishesItsRow`); failed ones say
   "card declined" (`FailedIsDeclined`), and `inventory.failed` says "insufficient
   stock" (`FailedIsShort`);
3. a row of `payments` never changes once written (`PaidOnce`, the UNIQUE
   constraint), so what was true when the event was sent is true when it is applied;
4. what order has announced, or is about to, agrees with its own table
   (`AnnouncementsAgree`, `AnnouncesItsRow`), which holds since a terminal row never
   changes (`TerminalStays`) and only the worker that made the transition announces it;
   `ReceivedHasNoRow` keeps the insert of a new order from overwriting one.

`SagaInv` is the conjunction with the type invariants. Type correctness is not shallow here: stock
is a natural number because of the conditional UPDATE, a worker's line index is within the
order's lines, and the rows it holds exist.

**Causes.** The stock of a confirmed order, and the refinement, need more: that effects
follow their causes. `CauseInv` adds to `SagaInv`

1. what precedes what: an order that was announced has a row and one that moved on had its
   `inventory.reserved` sent (`OrderCause`); a charge follows an `inventory.reserved`, and amounts
   cached, carried or charged come from an `order.created` (`PaymentCause`);
2. how replicas of inventory share the rows (`WorkInv`): each works on an event that was
   sent, in the handler of its topic; a release holds rows of its own order; and *no two
   replicas can roll back the same row* (`RowsAreApart`), although an event may be handled by two
   at once;
3. `LinesAreHeld`: the lines a worker has passed are held by rows of its own, and
   `ReservedIsHeld`: once `inventory.reserved` was sent, every line has a row that *no replica may roll
   back any more* and that only a failed payment releases. With `ConfirmedIsPaid` a
   confirmed order's stock is safe: its payment is completed, and stays so.
4. `NoExcess`: there are never more units than were supplied.

For 2 to 4 the many steps of inventory, its error paths included, are first brought into one
form (`Effect`, lemma `InventoryEffect`): a worker starts over, takes a line's stock, records
a row, gives one back, or moves on, with what that does to the tables. The arguments are then
about five cases. Each service's own part is preserved by its own steps
(`OrderInvStep`, `OrderCauseStep`, `PaymentInvStep`, `PaymentCauseStep`, `InventoryTyped`, `WorkInvStep`,
`NoExcessStep`), and by the others' because they leave its tables alone and publish on other
topics (the `...Frame` lemmas). `EventBusProofs` states once what a publish, a fetch, a rejoin do
to the logs.

**Sums.** `NoOversell` adds up quantities over a set of rows that grows. A recursive sum cannot be
reasoned about here, so `Counting` defines a sum as the number of units, each unit a pair of
its element and a place: `SumOf(q) == Cardinality(Units(q))`. `MCInventory` checks that this is the
sum by recursion; `CountingProofs` proves from the theorems on cardinality what one element more,
less or larger does to a sum (`SumAdd`, `SumBump`, `SumMonotone`, `SumParts`). `ExcessStep`
then shows that no step raises what is on the shelf, reserved and in hand, less what was supplied,
and that a step lowers it only where it interrupts a worker between its decrement and its
insert. That is why `StockIsConserved` has its hypothesis: a crash or a failing call does lose
units in this code, and with it the property is false. TLC's run of it makes the same choice.

**The lifecycle.** `SagaIsLifecycle` maps the three services to what the customer sees: the
status, the charge, and what was announced. Every step of order that changes a
row is a step of the lifecycle (`OrderIsLifecycle`); a charge is one because the
order has a row by then (`CauseInv`, item 1); everything inventory does is a stutter.

### Inventory and payment alone

`AloneProofs` proves the same of the specifications the single-service runs check, where the
other services are replaced by the most general behaviour:

| Theorem | States |
|---|---|
| `InvAloneInvariant`, `PayAloneInvariant` | the inductive invariants |
| `InvAloneTyped`, `PayAloneTyped` | `InvAloneTypeOK`, `PayAloneTypeOK` always hold |
| `InvAloneNeverOversells` | `InvAloneSpec => []NoOversell` |
| `InvAloneConserves` | `InvAloneSpec => []StockConserved`, with the hypothesis of `StockIsConserved` |
| `PayAloneAnnouncesRow` | `PayAloneSpec => []OutcomeMatchesRow` |
| `PayAloneAmount` | `PayAloneSpec => []AmountIsTotalOrFallback` |

They need of the feeding services only that these write on topics of their own.

### The shop

`ShopProofs`, for any products, requests, quantities, mixes, components, polls and failures:

| Theorem | States |
|---|---|
| `ShopInvariant` | `Spec => []ShopInv`, the inductive invariant |
| `ShopTypeCorrect` | `Spec => []TypeOK` |
| `CartIsAtomic` | `Spec => ImplementsAtomicCart` |
| `BoundInvariant` | `Spec => [](ShopInv /\ BoundInv)`, the inductive invariant of the next |
| `NothingInvented` | `Spec => []NoInventedUnits` |
| `BreakdownCovers` | `Spec => []BreakdownCoversTotal` |

The refinement hides the half-done order: while a handler has inserted its order and the
cart is still the one it ordered, the units count as taken (`UnitsLeft`). A write by a handler
that is not on an old copy must then be an atomic change of what is
in the cart *now*, which needs to know that its copy is the cart. That is the part `CartInv` adds
to the types (`CopyOK`): *a copy whose version is the current one equals the cart*, and an
order about to be inserted has a cart that is not empty. It is inductive because
every change of the cart is also a new version, which outdates all copies.
The proof has a lemma per action of `CartService` and `OrderPlacement`; the steps of
storefront, dashboard and saga leave the cart and the orders' lines alone.

`NoInventedUnits` bounds the cart, and each order by itself, by all requests sent. It does not bound
the orders together: two requests that both ordered one cart hold its units twice, which is the double
order `ActsBesideOrder` names. The bound is not inductive: a handler may write
back a copy taken long ago, or make an order of it, so the copies must be bounded as well, and a copy
that already had the handler's own units would have them twice. `BoundInv` is tighter: *for one initial
cart, the cart, every copy at hand and every order hold no more than that cart and the requests already
answered*, and a request is answered by the very step that writes its units. An order is a copy at the
step that inserts it, and its lines never change afterwards (`Placing`). There is no assumption that
requests are finitely many; that only finitely many were *sent* is part of the invariant.

`BreakdownCoversTotal` compares two queries made at different times: orders are only
ever added, so the tally of the later query has at least the total of the earlier one, or a
full page. The tallies by status partition the page (`SumParts`).

### Signing in and out

`AccessProofs`, for any users, browsers, addresses, replicas, budgets, calls and times:

| Theorem | States |
|---|---|
| `AccessInvariant` | `Spec => []AccessInv`, the inductive invariant |
| `AccessTypeCorrect` | `Spec => []TypeOK` |
| `AccountsAreUnique` | `Spec => []RegisteredOnce` |
| `LogoutHolds` | `Spec => []LogoutIsForGood` |
| `LimitsInvariant` | `Spec => []LimitsInv`, the inductive invariant of the limiters |
| `BurstIsBounded` | `Spec => []BurstBounded` |

`LogoutIsForGood` compares what a logout met with tokens signed later, so the invariant
follows the refresh between its query and its signature: a refresh about to sign *found
its row before the row was revoked*, and a token that was signed records when. The tables only
grow, a revocation time is never replaced, and a row that a logout could see is
revoked no later than its answer. `RegisteredOnce` needs that a call answered 201
has its account in the table: then the UNIQUE constraint refuses every later insert.

`BurstBounded` speaks of every stretch as long as a window, the limiter only of the window
it is in. `LimitsInv` relates the two for each key: since the window's start no more was let through
than its hits, and than the budget; *a stretch that began before it and reaches it saw at
most the budget less one before it*, because the previous window began with a
hit that was let through and that such a stretch has missed. That hit is the one in `2 * Budget - 1`.

### Only model-checked

The liveness properties (`EveryOrderIsDecided`, `DeclinedIsCompensated`, `DeclinedIsReleased`,
`OutcomeIsPublished`, `PressIsAnswered`, `PageSettles`): the prover does not reach
fairness. That `SumOf` is the recursive sum: the prover has no induction over data.
The four runs that end in a violation are counterexamples and have nothing to prove.

## 6. Not modelled

* **Notification**: it keeps no state but its group's offset and logs a mail per
  event; that a redelivery mails again is visible in the code and has nothing to be related to.
* **Catalog**: reads and one insert on MongoDB. The cart model takes from it whether a
  product exists, as a set that may shrink.
* **Pages that only show** the catalog, the cart or a list; creating a product; the admin
  console's own session (one shared token).
* **The gateway's shared Redis store** for its limits (unset in `infra/k8s`), the `/readyz`
  probes of the upstreams, forwarding itself.
* **Start-up**: topic creation, connecting with retries, payment's consumer task that ends.
* Rendering, metrics, traces, logs, Terraform and Kubernetes manifests (of which the models take the
  number of replicas and that a dead process is restarted), password hashing and
  token signatures.

## 7. Plan

Done, in this order: `EventBus`, `InventoryService` with `InventoryAlone`,
`PaymentService` with `PaymentAlone`, `OrderService`, `CheckoutSaga`, `OrderLifecycle`;
`CartService`, `OrderPlacement`, `Storefront`, `Console`, `Shop`, `AtomicCart`; `Gateway`,
`AuthService`, `Access`; their runs and the proofs of section 5.

Next:

1. `NotificationService` as the saga's last consumer: every announced outcome is mailed at least once.
2. `ServiceStartup`: topic creation with retries, readiness, the consumer task that ends.
3. Pagination of the list endpoints as an operator against a reference definition.
4. Two orders through the whole saga; two replicas of order.

Proofs to come: the safety steps the liveness properties rest on, such as that an unfinished
release keeps a row to release and its event uncommitted; that each fault kind the
violation runs use is needed.
