# uhok-backend in TLA+

TLA+ models of the backend's concurrent and transactional logic, TLC runs that
check them on small instances, and TLAPS proofs for every instance.
`PROJECT.json` maps every definition to the lines it models and lists the runs,
the mutants that show each property can fail, the hazards and the theorems.

| module | what it is |
| --- | --- |
| `WaiterRegistry` | the in-memory rendezvous of a payment confirmation and its webhook |
| `PaymentV2` | payment by webhook: requests, webhook calls, sessions, pools, restarts |
| `PaymentContract` | what a payment confirmation promises, abstractly |
| `PaymentV2Properties`, `PaymentV2Proofs`, `MCPaymentV2` | its properties, proofs and small instances |
| `CartOrder` | a user's cart and the orders made from it, as database transactions |
| `CartContract` | the life of a cart row, abstractly |
| `CartOrderProperties`, `CartOrderProofs`, `MCCartOrder` | its properties, proofs and small instance |
| `OrderStatus` | every other writer and reader of an order line's status: confirmations, payment v1, automatic progress, lists |
| `OrderStatusContract` | what those requests make of a line, abstractly |
| `OrderStatusProperties`, `OrderStatusProofs`, `MCOrderStatus` | its properties, proofs and small instances |
| `Likes` | the like buttons under row and gap locks, and the reminders of liked broadcasts |
| `Accounts` | signup, login, logout, the blacklist of tokens, the two ways in with a token |
| `UserLog` | the user log and its background writers |
| `SearchHistory` | the two search histories |
| `Catalog` | the listings that Redis keeps: fill, hit, expiry, invalidation |
| `OrderPrices` | stored prices against offers that change |
| `Combinations` | the pages of GET /by-ingredients and the tracker's memory and file |
| `Inventory` | the greedy choice of recipes for a stock |
| `RecipeSearch` | the pages of recipes by name, with the ML service's failures, and by ingredients |
| `IngredientStatus` | which materials of a recipe are owned, in the cart or missing |
| `MCSite` | small instances of the ten components from `Likes` on |
| `UserProofs` | proofs about `Likes`, `Accounts`, `UserLog` and `SearchHistory` |
| `CatalogProofs` | proofs about `Catalog` and `OrderPrices` |
| `RecipeProofs` | proofs about `Combinations`, `Inventory`, `RecipeSearch` and `IngredientStatus` |
| `FoldProofs` | lemmas: induction over sets, sums over sets, folds of sequences |
| `SiteProofs` | the ten components side by side |

## 1. The system

A FastAPI gateway (`gateway/main.py`) includes the routers of six services.
Handlers are coroutines on one event loop: between two awaits nothing else in
the process runs. MariaDB holds users (auth database) and everything
else (service database), Postgres the recommendations and the event log, Redis
the read caches. A route gets its session from a dependency that only rolls
back and closes (`common/database/mariadb_service.py:30-40`): what no `commit`
has confirmed is lost when the handler returns, whatever it answered.

### Components, their state and what makes them correct

| component | state and operations | what is hard | what makes it correct |
| --- | --- | --- | --- |
| **WaiterRegistry** (`payment_v2_crud.py:118-224`) | waiters, stored results, callback tokens; subscribe, resolve, register/verify/discard token, cleanup | a webhook before, during or after the wait; one request's cleanup over all entries | no lost wakeup; a live request keeps its token; no token beside a result |
| **Payment v2** (`payment_v2_crud.py`, `v2_router.py`, `order_cancel_management_crud.py`, `order_payment_state_management_crud.py`) | the status history tables, CANCEL_TIME, open sessions; confirm, webhook, expiry of stuck orders | repeated, late and unlabelled webhooks, commit after resolve, replies lost after a commit, swallowed failures, restarts, two clocks | rows agree with what was announced; an acknowledged payment is recorded; definite answers were announced |
| **Sessions and pools** (`mariadb_service.py`, `mariadb_auth.py`, `dependencies.py`) | connections out of two pools | confirmations hold connections for over a minute | waiting requests cannot starve webhooks |
| **Cart and order creation** (`kok/crud/cart_crud.py`, `kok_order_create_crud.py` and their routers) | KOK_CART, KOK_ORDERS; add, update, delete, order | snapshot reads before locked writes, double orders, an error after the commit | a cart row is ordered once and never comes back |
| **Order status, payment v1, home shopping orders** (`kok_order_status_crud.py`, `hs_order_status_crud.py`, `hs_order_flow_crud.py`, `payment_v1_crud.py` and their routers) | the two history tables; confirm a line or an order, create, poll, progress in a background task, read | sessions that nothing commits; rows of one second; a list read line by line; half a cancellation | what was confirmed is recorded; what is recorded is shown; lines of an order are paid together |
| **Prices** (`order_price_management_crud.py`, `kok_order_price_crud.py`, `hs_order_pricing_crud.py`) | stored line prices | offers that change before the payment; 0 taken for missing | the client is charged the total it was told |
| **Users and tokens** (`auth_router.py`, `jwt_blacklist_*`, `jwt_handler.py`) | USERS, JWT_BLACKLIST; signup, login, logout, cleanup | check then insert; failing queries count as valid; expiry | a logged out token stays rejected until it expires |
| **Likes and reminders** (`likes_crud.py` twice, `notification_crud.py`) | like rows, notifications; toggle, mark as read | locking a row that is not there; a lost reply | one like per user and product; a reminder goes with its like |
| **User log** (`log_utils.py`, `event_crud.py`, `activity_crud.py`) | USER_LOG; two routes, background writes with retries | the background session never commits | a reported event is stored |
| **Search histories** (`search_crud.py` twice) | history rows; add, delete, search | a background task with a borrowed session | a user's own rows, until removed |
| **Listings in Redis** (`listing_crud.py`, `schedule_crud.py`, `redis_cache.py`, `cache_manager.py`, `cache_utils.py`) | cached answers; read-through, invalidation | a fill that races an invalidation; what is stored is not what was answered | an invalidated entry does not come back; an entry is its subject's |
| **Recipe pages** (`combination_tracker.py`, `recommendation_router.py`) | memory and a file; track, exclude, clean up, save, load | crash while saving, forgetting after six hours | lower pages' recipes are not proposed again |
| **Inventory recommendation** (`inventory_recipe.py`) | the remaining stock of one request | materials listed twice, in the request or in a recipe; units that are missing | nothing is spent twice |
| **Recipe search** (`recipe_search_crud.py`, `remote_ml_adapter.py`) | none beside a request's retries | pages without an order, totals by another query, failures of the ML service | the pages reach every recipe |
| **Ingredient status** (`recipe_ingredient_status_crud.py`) | one request's snapshot | cart and orders change between two reads | the answer was true at one moment |
| status code cache, product reads, recipe details, keyword extraction, gateway, logging | reads, single inserts, text | see section 7 | see section 7 |

Interactions. A *confirm/v2* request authenticates against the auth database,
reads and writes the service database, calls the payment server over HTTP and
waits on the registry. The payment server calls the *webhook* route, which checks
the token in the registry, writes the order tables, wakes the request through the
registry and then commits. Orders read by the payment paths are created by *order
creation*, which takes rows that the *cart* routes write. The *order status*
requests write the same history tables as payments, and read them; *prices* are
stored with an order and summed up by its payment. *Ingredient status* reads
what carts and orders hold. Nearly every route starts a *user log* task.
Likes, accounts, logs, histories, listings and recipe pages share no state with
each other or with orders.

## 2. Payment v2

### How the model follows the code

One confirmation is one `tx_id`, an element of `Confirms`; its handler's position
is `pc[c]`. One delivery `<<c, n>>` is the n-th webhook call that arrives for `c`;
its handler's position is `hook[d]`. A step of a handler is what happens between
two points where others can interfere: an await on the network, on the registry's lock
or on a commit. Reads of a session's own snapshot and writes of its own
uncommitted rows are joined with the next visible step, which under REPEATABLE
READ nobody can tell apart.

| action | code |
| --- | --- |
| `Authenticate` | `get_current_user` (`common/dependencies.py`): takes an auth connection, kept to the end |
| `CheckOrder` | access check, `_expire_stale_payment_requested`, `_verify_order_status_for_payment` on one snapshot |
| `ReportExpired` | the HTTPException(400) after `cancel_order`, and the rollback by the session dependency |
| `RequestPayment` | SET TRANSACTION, the PAYMENT_REQUESTED rows, the token, the POST sent |
| `PostFails`, `PostRejected`, `PostAcked` | the three ends of the POST |
| `SubscribeToWebhook`, `Wake`, `WaitTimesOut` | `subscribe`, the end of `wait_for`, the timeout with `cleanup` |
| `VerifyWebhook` | a call arrives: `verify_callback_token` |
| `Event` | the header `X-Payment-Event`, and the default `payment.completed` of a call without it (`v2_router.py:101-103`) |
| `ApplyCompleted`, `ApplyCompletedFails`, `ApplyFailed` | the rows of either event; `except Exception` around `cancel_order` leaves what it has written |
| `ResolveWaiters`, `CommitWebhook`, `CommitWebhookFails` | `resolve`, then the commit in the route, which may fail, or go through and have its reply lost: both are a 500 |
| `PaymentServer` | external: accepts or refuses a payment, decides it once |
| `Crash` | the process restarts: registry and open sessions are gone |

`rows` holds the committed rows of both history tables, `pending[s]` what session
s has written. A row's `by` stands for its history id. Time is `clock`, the second
rows are stamped with; `Latest` returns every row that `ORDER BY changed_at DESC
LIMIT 1` may pick, ties included.

Which event a call carries is not the payment's own outcome. `Headless` are the
calls that come without the header: whatever the server has decided, they are
applied as completed. `Unlisted` are the children that a session's look-up of its
order does not find: `order_detail_read_crud.py:100-112` logs a failing query and
goes on without its lines. Both are constants, so that the theorems hold for any
choice of such calls and look-ups.

### What the runs check

`payment_v2` (`MCPaymentV2.cfg`, 891,000 states, 95 s): two confirmations of one order
with a kok and a home shopping child; two webhook calls of the first payment, the
second without its event header and with a look-up that misses the kok order, one call
of the second payment, whose confirmation misses the home shopping order; one
restart. It checks the types and

* `NoLostWakeup`: the result reaches a waiting request whichever of subscribe and resolve ran first;
* `LiveTokenKept`, `TokenRetired`: a request under way keeps its token through the cleanup of others; a stored result ends it;
* `RowsAreBacked`: committed rows agree with the server's decision or, for a call without its header, with the default event. Its mutant, `EventUnread`, applies the default to every call;
* `AckedIsRecorded`: a 200 means that every child the call found is recorded; no part of these is paid alone, and a call that was refused has paid nothing. A 500 says nothing: the rows may be committed and the reply lost;
* `ClosedOrdersStayClosed`: no request passes the checks of an order of which it has found a child that a webhook has settled;
* `ImplementsContract`: a client is told at most one thing, a definite answer was announced by a call, and an announcement is the outcome decided, or "completed" by a call that names none (refinement of `PaymentContract`).

`payment_v2_progress` (`MCPaymentV2Progress.cfg`, 74,000 states, 68 s): three
confirmations, one of a stuck order, two auth and three service connections, so
that pools run out; a webhook, a restart. It checks `EveryConfirmAnswered`,
`EveryWebhookAnswered`, `ResolvedIsTold` under fairness, and
`ConfirmsLeaveServiceConnections`: the requests that wait for webhooks never hold
the last connection that the webhooks need. That holds because each also holds
an auth connection, of which there are fewer (15 by SQLAlchemy's defaults in
`mariadb_auth.py`, 50 by `pool_size` and `max_overflow` in `mariadb_service.py`); `ConnectionsAreLeft` proves
that nothing else about the pools matters, so that an auth pool as large as the service pool could undo it.

Three runs end in a counterexample to something the repository says:

* `paid_once`: `docs/db_concurrency_control.md:75-78` says that a repeated webhook
  writes nothing. Overlapping calls both pass the token check, and the handler
  inserts without reading the status.
* `told_paid`: `services/order/research.md:46-49` puts the database before the answer.
  `resolve` wakes the request before the route commits.
* `late_webhook`: the comment at `payment_v2_crud.py:358-359` says the token stays for a
  late webhook. `cleanup` of a later timeout drops tokens older than 300 s.

Bounds. Two requests are the least that conflict over an order and over the
registry's cleanup, and all interference between requests goes through these two;
a third one is there in the progress run, for the pools. Two calls of one webhook
are the least repetition. One restart can come anywhere, and a second one finds
nothing that a first has not. One call without its header, after or before one that
has it, can settle a failed payment's order both ways; a call or a confirmation that
misses a child is enough to part the children. The clock has one or two seconds: rows of one second
tie, rows of different seconds do not, and the order in between is free.

Fairness. `WF(ConfirmStep(c))`: the event loop runs every coroutine that can go
on; the POST ends within its 10 s timeout, the wait within 60 s
(`PostFails` and `WaitTimesOut` stay enabled). `WF(HookStep(d))`: database calls
return or raise (30 s for a connection). Neither the clients nor the payment
server nor the arrival of webhooks is assumed fair.

Assumptions about the deployment, named constants of the model:
`SetTransactionRefused = FALSE`: the confirm handler and the completed webhook send
SET TRANSACTION after their session's first query; the server is taken to accept
and ignore it, as `docs/db_concurrency_control.md:105-107` allows for (a server that
refuses it fails every payment, which the model can show by setting TRUE).
`UtcLag = 0`: the container runs in UTC, so that `datetime.utcnow()` in
`cancel_order` agrees with `datetime.now()` elsewhere; `Age = 1`: an order is at least a
second old when it is first confirmed, which takes a request of its own. The
columns hold whole seconds, so that `UtcLag < Age` is what keeps a settled order's
rows later than its ORDER_RECEIVED rows; the mutant `CancelInUtc` shows what
happens on a server ahead of UTC.

### What is proved

`PaymentV2Proofs` proves for any numbers of requests, deliveries, orders,
children, restarts and connections: `TypeCorrect`, `NoWakeupLost`,
`TokenLifetime` (`LiveTokenKept`), `TokenRetirement` (`TokenRetired`), `TablesAreBacked`
(`RowsAreBacked`), `AcksAreRecorded` (`AckedIsRecorded`) and `Implementation`
(`ImplementsContract`), all from
`Invariance == Spec => []Inv`, and `SettledOrdersStayClosed` (`ClosedOrdersStayClosed`)
under `UtcLag < Age`. They hold whichever calls come without their header and whichever
children each session's look-up misses.
`Inv` joins the properties with what they need: results in the registry, and definite
answers, are what a call has announced (`ResultsAreHeard`, `AnswersAreHeard`), hooks run
only after the decision (`HooksAreDecided`), a request leaves no trace before its POST
(`NoTraceYet`: this is what makes the first registration of a token safe), and open webhook
sessions hold only rows that their event backs, all of them where it is "completed"
(`SessionsAreBacked`: this turns the commit into a step that keeps
`RowsAreBacked`, whether its reply is lost or not). The proof goes action by action, with lemmas for the effects
that several share (a rollback, an answer, a registry operation).
`SettledOrdersStayClosed` takes a second invariant, `TimesAreOrdered`: ORDER_RECEIVED
rows have the orders' creation time, everything a session writes is later.
The assumptions are `RegistryParameters` and `PaymentParameters`, types of the
constants; nothing is assumed of the pools' sizes, but for the next theorem.

`ConnectionsAreLeft` (`ConfirmsLeaveServiceConnections`) assumes `AuthPool < ServicePool`,
which the two engines' settings give (15 < 50). Its invariant is `AuthBounded`: the
requests between authentication and answer are finitely many, and no more than
`AuthPool`. `AuthHoldersGrow` shows that only `Authenticate` adds to them, and only
while a connection is free; a request that waits for a webhook is one of them,
and the library's facts about subsets do the rest.

Only model-checked: liveness, which is outside the prover's reach.

## 3. Cart and orders

### How the model follows the code

A request (`Adds`, `Updates`, `Deletes`, `Orders`) is one HTTP call with one session.
`seen[r]` is what its session has loaded: a snapshot, that later writes are
computed from. Its one write is sent with the COMMIT, as one step, against the
committed `carts`, and waits for `Locked` rows. An order takes its locks in
`LockCarts` (SELECT ... FOR UPDATE) and keeps them until `CommitOrder`; rows it
writes in between are invisible, and the ORDERS row, the ORDER_RECEIVED history and
the notifications have no other reader here. `issuedTo` remembers ids that were
given out: clients name ids they were given, which may be stale.

| action | code |
| --- | --- |
| `LoadForAdd`, `InsertRow`, `IncreaseQuantity`, `ReportAdd` | `add_kok_cart` (`cart_crud.py:62-128`) and its route, commit and second query included |
| `LoadForUpdate`, `WriteUpdate` | `update_kok_cart_quantity` and its route |
| `LoadForDelete`, `WriteDelete` | `delete_kok_cart_item` and its route, which takes a missing row for a success |
| `LockCarts`, `CommitOrder` | `create_orders_from_selected_carts` (`kok_order_create_crud.py:20-161`) and its route; the answer of an order that was committed is 201, a 400 ("refused": the response model's ValidationError is a ValueError, `order/routers/kok/cart_router.py:75-95`) or a 500 |
| `Fail` | every exception: rollback and an error, at any point, a restart included |

An UPDATE of a row that is gone raises StaleDataError, which is why
`SetQuantity` demands the row: this is all that keeps an add from bringing an
ordered row back. An INSERT over an existing (user, product) violates
`UK_KOK_CART_USER_PRODUCT`.

### What the run checks

`cart_order` (`MCCartOrder.cfg`, 692,000 states up to symmetry, 137 s): two adds of one
product, an add of another, an update, a delete and two orders of one user, with up
to three rows issued.

* `LockedRowsAreStable`: from locking to commit nobody changes or takes an order's rows;
* `OneRowPerProduct`: one row per product, however many adds race;
* `OrderAnswersAreTrue`: 201 means that something was ordered, and the 400 that says the selected rows are gone that nothing was. Any other 400, and a 500, may answer an order that was committed: a client that takes it for a refusal and orders again is told "missing";
* `ImplementsCart`: each row is issued, then removed or ordered, once; an order takes all of its rows in one step or none (refinement of `CartContract`; `docs/db_concurrency_control.md:11-48`).

Bounds. Two orders are a double click; three adds make two rows, so that an
order can take part of its selection, and let a third be inserted where one has left. One user is enough because
every query carries a user id; `CartOrderProofs` covers any number. The requests of
one kind and product differ in nothing, so that `SYMMETRY Alike` is sound: the run
checks safety only. No fairness is assumed and requests may stay unanswered.

Left out: product row locks and SERIALIZABLE gap locks, which only make others wait
(a deadlock is a `Fail`); the price lookup, whose failure is a `Fail`; two client
mistakes, ids never issued (no row) and ids of other users, against which the SELECT
guards and the DELETE does not (see the hazards). Lost updates
between two adds do happen in the model, as in the code, and no document denies it.

### What is proved

`CartOrderProofs` proves for any users, products, requests and rows:
`TypeCorrect` (`TypeOK`), `LocksProtect` (`LockedRowsAreStable`), `RowPerProduct` (`OneRowPerProduct`),
`OrdersToldTruly` (`OrderAnswersAreTrue`) and
`Implementation` (`ImplementsCart`), from `Invariance == Spec => []Inv`. The heart is
that whoever writes a row looks at the locks (`LockedRowsStay`). By itself that is not
inductive: that an insert cannot fall into a locked selection takes the selection's
ids having been issued (`OrderProgress`), that a stale write keeps a row's user
and product takes `LoadedRowsAreIssued` and `RowsAreIssued`, and that a commit does
not disturb another order takes `LocksAreExclusive`. The refinement adds
`DeletesLoadOneRow` and shows that an order's commit is the contract's `Take`
(`CommitTakes`, `CommitContract`), an insert its `Issue`, a delete its `Remove`, and
every other step a stutter. The assumptions are `RequestParameters` (kinds of
requests are disjoint, each has a user) and `ContentParameters` (quantities are at
least 1, as `interaction_schema.py` demands).

## 4. The status of an order line

### How the model follows the code

`OrderStatus` has one request per session. `pending[r]` is what a session has
written and not committed, `snapshot[r]` what it reads, `todo[r]` the status changes
that its handler has still to write. `rows` are the committed history rows of both
kinds of line; `id` orders one line's rows as their history ids do, `at` is the
second in `changed_at`. `CurrentRows` is `ORDER BY changed_at DESC, history_id DESC`,
`LatestRows` the queries that leave the id out and may pick any row of the last
second. A payment by v2, the subject of section 2, is two steps here: its check
and its webhook's commit. The commit pays the lines that the webhook's look-up has
found, all of the order or none (`Found`: its lines are in one table), or cancels those that
`cancel_order` has reached, whose failure midway is swallowed
(`payment_v2_crud.py:543`): `Reached`.

| action | code |
| --- | --- |
| `ConfirmLine`, `ConfirmOrder` | `kok/payment_router.py:27-140`: no look at the status |
| `ConfirmHs`, `CreateHs` | `hs_order_flow_crud.py`: the confirmation demands PAYMENT_REQUESTED |
| `UpdateStatus`, `Commit` | one inserted row; the commit, whose answer may be lost |
| `PatchStatus` | `kok/status_router.py`: fails on an attribute that its request model lacks |
| `StartAutoKok`, `StartAutoHs`, `FinishAuto` | the background task, its steps and the session that is closed uncommitted |
| `StartV1`, `SkipMarking`, `PollPending`, `PollCompleted`, `CancelV1`, `FinishV1` | `payment_v1_crud.py` and its route: marks, polls, the cancellation that its own exception rolls back, the answer without a commit |
| `OpenV2`, `SettleV2` | payment v2 |
| `ReadKokStatus`, `ReadHsStatus`, `OpenList`, `ReadDelivery`, `FinishList` | the status routes and GET /orders, line by line in one snapshot |
| `Fail` | any refusal or exception: rollback |

### What the runs check

`order_status` (`MCOrderStatus.cfg`, 266,000 states, 49 s): two kok lines of one order, a home shopping
line; any three of thirteen requests, each of which may fail anywhere.

* `PaidIsCurrent`: a line that was paid and never cancelled is shown as paid, though it was received and paid in one second, as a home shopping line can be;
* `ConfirmationsAreRecorded`: a confirmation commits all of its lines or none, and all if it was answered with 200;
* `HsIsPaidByV2Only`: a home shopping line is paid by payment v2 alone, because its own confirmation waits for a row that no session commits;
* `ListsAreUniform`: GET /orders never shows an order half paid, but for what the code allows: a line confirmed alone, latest rows of one second, a cancellation that failed midway and reached one line and not the other (`CancelledAlone`), and an order that was both paid and cancelled (`Contested`). The last is a window of its own: `confirm_payment` marks the lines one after the other, each with the second of its own insert, and looks at no status; a webhook that cancels the order in one second between two of them leaves an order of which some lines end as paid and some as cancelled, with every line holding both rows. It takes three seconds: the order's, and one for each side of the cancellation;
* `ImplementsStatus`: a line is received, then paid with its whole order or alone, or cancelled with some of its order's lines, and no other status ever reaches the tables (refinement of `OrderStatusContract`). PREPARING, SHIPPING and DELIVERED, which the background tasks report, do not.

`order_status_v1` ends in a counterexample to `routers/payment/v1_router.py:43`: a
client is told PAYMENT_COMPLETED and no line is updated.

Bounds. `Sent = 3` of the requests run in one behaviour: a writer, a rival and a
reader, or three writers; which three is free, so that every combination occurs.
`MaxAttempts = 1`: a poll goes on or is the last. The kok lines were received in
second 0 (`Age = 1`) and the requests run in seconds 1 and 2: the rows they write tie or do not,
a home shopping line may be received and paid in one second, and a cancellation may fall
between two payments of one confirmation. A kok line whose cart order is of the same second as
its payment is left to the theorems, which hold for every `Age`. A line's `lastId` is not bounded; each request writes each line at most
three times. `UtcLag = 0` as in section 2. No fairness: the run is about safety, and
requests may stay unanswered.

### What is proved

`OrderStatusProofs` proves for any lines, orders, requests, clocks and polls
`TypeCorrect`, `ConfirmationsRecorded`, `HsPaidByV2` and `Implementation` from
`StatusInvariance == Spec => []StatusInv`. The properties are not inductive: that a
commit brings all of a confirmation's lines takes `WorkIsDone` (each is still in `todo` or already
in `pending`), that it settles lines that exist takes `ReceivedFirst`, and that a
home shopping confirmation never comes to write takes both that no committed row is
PAYMENT_REQUESTED. `PaidShowsAsPaid` (`PaidIsCurrent`) takes a second invariant, `RowsInOrder`:
ids grow with time, every payment is later than the line's receipt, and the one
request that makes a home shopping line has ended before anything pays it.
The assumptions are `StatusParameters` (types), `HsLinesAreAlone`
(`create_homeshopping_order` makes an ORDERS row for its line alone) and `CreatedOnce`
(a line is made by one request).

`ListsShowOneMoment` (`ListsAreUniform`) takes a third invariant, `ListInv`: what
pays an order as a whole has written each of its lines alike, and a cancellation those
that it reached, in one second (`SettledTogether`); the lines were received together, first
(`ReceivedTogether`); and a list's snapshot is a set of rows of which both held when it was taken
(`Moment`). From a moment, two lines of an order share a code among their latest
rows (`ShareACode`): if one was paid the other was, and `Contested` aside both end
paid (`PaidAtLast`), otherwise their rows mirror each other (`Mirrored`). That a
line has a latest row at all comes from `RowsInOrder`.

## 5. The other components

Each is a module with its variables, one action per operation, its specification
and its properties. `MCSite` gives them their small values and one run, `site`
(`MCSite.cfg`, 1,216,000 states, 174 s): the variable `component` chooses at the start which of
them moves, so that their states add up and are not multiplied; they share no
state, so nothing is lost. `SiteTypeOK` checks all their types. All are about
safety; no fairness is assumed, requests may stop anywhere (`CHECK_DEADLOCK FALSE`).

**Likes.** A toggle is a locking read, an insert or a delete, and a commit. InnoDB
locks the row that was found, or the gap where none was, which many may hold and
which keeps all others from inserting: two first likes wait for each other and
`Deadlocked` ends one. A commit that went through may have its reply lost, which is
answered as an error. `TogglesTurnLikesOver`: a toggle answered with success has turned the
like over, as it says; the like changes at the end of a toggle of it only, at most once, and
there is never a second row, although no unique key forbids it.
`RemindersFollowLikes`: a reminder goes with its like, also when deleting it fails,
by the foreign key's cascade. Five toggles, four of one broadcast: like, unlike,
like again, and a rival.

**Accounts.** A token is its user and its second of expiry, so that two logins of one
second get the same token, and a logout of one logs out the other. `SignupsAreTrue`:
201 and 409 are true however many signups race (the loser of the unique key gets
a 500). `LoggedOutStayOut`: a token shown after its logout does not get in, except
through the code's own doors: `get_current_user_optional` asks no blacklist, a
failed query counts as "not blacklisted", the query's comparison is strict in the
token's last second. Two signups of one address, three visits, tokens of one
moment, three moments.

**UserLog.** `create_user_log` only flushes. The two routes commit; `send_user_log` closes its own session.
`OnlyPostsAreKept`: what a route says is recorded is, and nothing else. The run
`site_saved_logs` ends in a counterexample to `log_utils.py:141`: the task returns
`saved_to_db` and no row is kept. Two posts and two tasks, two attempts.

**OrderPrices.** `ChargedAsOrdered`: a payment asks for the total that the client was told
when ordering, whatever became of the offers; a failed query asks for 0, and an
order of 0 is priced anew. Three lines, prices 0 and 3, quantities 1 and 2.
Amounts and sums are integers, as the columns are.

**SearchHistory.** `HistoryIsTheUsers`: a row that a user was told is saved stays until a
removal by that user has found it and come to its commit, whose reply may be lost, and a removed row
stays away. The task of a search adds its row to the request's session, which nothing
commits: see section 6. Four requests of two users.

**Catalog.** `listing` chooses one of the five cached listings or the uncached baseline;
the tables are a version number. An expiry may happen at any time, which stands for every time
to live. Errors of Redis are misses. An empty list is stored and never hit; a
recommendation is not stored when empty, and one that failed is replaced by fixed
products and stored like any other (`FallBack`, `recommendation_crud.py:375-378`); the best of the stores are not cached for
anonymous users, who get the best of all. `InvalidatedStaysOut`: after an
invalidation the cache holds nothing older, except what was read from the tables
before it and stored after: KEYS and DELETE are two steps, and a view's read and its
store are two. An invalidation that met an error of Redis is answered with 200 and
"0 deleted" (`FailSweep`), and claims nothing.
`ServedAsFilled`: what a view gets from the cache is its own subject's, not empty,
and what the filler was answered, from the tables or by the stand-in for a failed
recommendation, which no other listing has; but the best sellers come whole, since the entry of
one page holds the whole listing (section 6). Three views of two subjects, one change of the tables to an empty listing.

**Combinations.** The tracking of one user and inventory, which share no key with
others. The file is truncated and then written; a restart may come at any point.
`LowerPagesAreExcluded`: a page proposes no recipe that a lower page last answered,
across restarts, unless the tracker has forgotten: after six hours, or because the
process ended before or while the file was written (section 6). A page that was tracked may still end
in an error, when its answer does not validate (`FailPage`). Page 1 twice and page 2, two recipes.

**Inventory.** `recommend_sequentially_for_inventory` on whole amounts, its score as a
fold over the materials; of an ingredient that the request names twice the last entry
counts. `StockIsSpentOnce`: what the recipes are said to use and what is left add up to what was
given, no recipe comes twice, and what a recipe is said to use is what it needed, unless it lists
a material twice. `MostKindsFirst`: the answer descends by the number of rows of materials
used, by kinds where no recipe lists one twice, though each choice is made
from another stock; and a search that ends by itself leaves no usable recipe. The run
`site_stock_reuse` ends in a counterexample to `inventory_recipe.py:42`: a recipe that lists eggs twice is
charged with its last row only, and the next recipe is chosen for eggs that are gone.
Requests of three entries that may repeat an ingredient, with amounts from -1 to 3 and three units;
three recipes, one of which lists an ingredient twice.

**RecipeSearch.** A search by name asks the ML service; a search by ingredients, the recipes
for a cart and those for a broadcast (a cart's first page) look up the recipes with all of a list.
The rows of that query are sorted by a count that is the same for all, so that a page is
any rows (`RowsOf`), and the next page is cut from another order. `IngredientPagesReachAll`: for one list, the pages
before one with a recipe are full, and the total that a search has told reaches that page: it counts the
recipes with any of the ingredients, so that it may say too much and never too little. The run
`site_search_pages` ends in a counterexample to `search_router.py:35`: every page of a search by name
repeats the first. The ML service ranks the same way each time it is asked. Two pages of two of
a search, two pages and a cart's second page of ingredients, four recipes, lists that are empty or repeat a
name, one retry.

**IngredientStatus.** `StatusOfOneMoment`: the answer was true of all materials at one
moment of the request, while products go from the cart into orders between its two
reads: both see the snapshot of the first query. Two products, up to three states
of the tables under one request.

### What is proved

For any numbers of requests and of what they are about:

| theorem | property | the argument |
| --- | --- | --- |
| `UserProofs.TogglesHold`, `RemindersHold` | `TogglesTurnLikesOver`, `RemindersFollowLikes` | `LikesInv`: who has found the row, or inserted one, has no rival with a lock; who holds a gap sees no row (`ToggleInOrder`) |
| `SignupsHold` | `SignupsAreTrue` | the address is unique, and a user's signup has ended (`AccountsInOrder`) |
| `LogoutsHold` | `LoggedOutStayOut` | a logged out token is in the blacklist or over, and stays so through cleanup and time (`Blocked`, `StillBlocked`) |
| `PostsAreKept` | `OnlyPostsAreKept` | inductive with the types |
| `HistoryKept` | `HistoryIsTheUsers` | what a removal has found was posted by its own user and the posting is over (`RowsArePosted`); only a commit takes a row away, and it marks its removal |
| `CatalogProofs.InvalidationHolds`, `ServedTruly` | `InvalidatedStaysOut`, `ServedAsFilled` | every entry, and every view about to store, is either young enough, or racing, or still to be deleted (`SweepsInOrder`); an entry is what its filler was answered, stand-ins included (`EntriesAreAnswers`) |
| `ChargesHold` | `ChargedAsOrdered` | the stored lines add up to the total that was told (`PricesInv`); the sum of prices that are stored does not see the offers (`TotalsAreOrdered`) |
| `RecipeProofs.LowerPagesHold` | `LowerPagesAreExcluded` | what was last answered is tracked, and saved once a page is answered, unless a page is being saved (`AnswersAreTracked`, `AnswersAreSaved`) |
| `SpendingHolds`, `ChoicesInOrder` | `StockIsSpentOnce`, `MostKindsFirst` | row by row, a score takes from its copy of the stock what it reports, but for a material that was listed before (`RowTakes`, `ScoreTakesWhatIsLeft`), and what an answer says of a recipe is its score (`ChoicesAreTold`); less stock never scores more rows (`ScoreGrows`), so no later choice beats an earlier one (`ChoicesDescend`) |
| `IngredientPagesHold` | `IngredientPagesReachAll` | a page has as many rows as are left after the pages before it (`PagesAreCut`); a list with a recipe on some page has each of its names in a recipe, and then the total counts at least the recipes with all of them |
| `StatusHolds` | `StatusOfOneMoment` | both reads see one moment's tables (`RequestsSeeOneMoment`); marking row by row gives each material the status it has there (`AllAreMarked`), and the three counts add up (`CountsAddUp`) |
| `SiteProofs.SiteIsItsParts`, `SiteTypes` | `SiteTypeOK` | a step of the site is a step of one component and a stutter of the nine others, so that every theorem about a component holds of the composition that is checked |

Several models compute with folds: sums of prices and of stock, scores and marks
material by material. The library's induction theorems take an operator, which the
provers cannot instantiate, so that `FoldProofs` does induction over *sets*: a
nonempty set of numbers has a least element (`NumberInduction`), and a set that has
the empty set and, with what is left of a set, the set itself, has every subset of a finite set
(`SubsetInduction`). From that it shows that the fold exists and is unique
(`FoldExists`, `FoldIsUnique`), that a sum does not depend on the order of adding
(`SumAnyOrder`, `SumAdd`), and that a fold of a sequence goes through its values row by row
(`FoldsLeftSteps`). A property is then carried along the rows by `NumbersUpTo`.

The assumptions are the types of the constants, named in each module, and what
sums and folds need to mean anything: an order has finitely many lines and a
recipe finitely many materials (`OrderPricesParameters`, `InventoryParameters`,
`IngredientStatusParameters`); there is a price. `RecipeSearchParameters` has finitely many recipes.

Only model-checked: nothing but liveness, which no property of these components states.

## 6. What the code does otherwise, and no run shows

These differences between the code and its documents are in the models, as the code
has them; each would fail a property in a few steps.

* `payment_v2_crud.py:57-63` cancels a stuck order and raises a 400 that rolls the cancellation back (`ReportExpired`).
* `v2_router.py:101-103` takes a webhook without its event header for a completed payment, "in development and tests", and in production too: a failed payment's order gets paid rows (`Event`, `Headless`).
* `order_detail_read_crud.py:100-112` takes a failed look-up for an order without such lines: a completed payment is acknowledged and not recorded (`Listed`, `Found`).
* `kok/routers/payment_router.py:37` says that only a PAYMENT_REQUESTED line is confirmed. The route looks at no status (`ConfirmLine`, and `PayLine` of the contract): a cancelled line is paid.
* `kok/routers/search_router.py:54` and `:66` say that a search is recorded in the history. Its task flushes into the request's session, which nothing commits (`DropSearch`).
* `listing_crud.py:407-408` gives the best sellers a page and a size. The entry that one request stores for a page is the whole listing, so that the second request of a page gets more than the first (`Stored`; `ServedAsFilled` says when).
* `combination_tracker.py:5` keeps the tracking over restarts. The file is truncated before it is written, and a crash between the two empties it for every user (`Torn`, `OpenFile`; `LowerPagesAreExcluded` excepts it).
* `jwt_blacklist_query_crud.py:43` lets a logged out token in when its query fails, and `order_price_management_crud.py:113` charges 0: `LoggedOutStayOut` and `ChargedAsOrdered` except both by name.
* `inventory_recipe.py:40` counts "kinds" of materials, and `recipe_recommendation_crud.py:249` puts "the most ingredients" first. What is counted is rows, a material that is listed twice twice (`UseMaterial`).
* `recipe_search_crud.py:71-76` counts, as the total of a search by ingredients, the recipes with any of them, or none if one of the names is in no recipe (`TotalOf`), against `search_router.py:35`.
* `kok/schemas/interaction_schema.py:201` and `:204` call a cart's `total_count` and `total_pages` those of all recipes. They are of the page (`LookUp`).
* The pages of a search by ingredients are cut from rows that the query does not order: a recipe may be on two pages and another on none (`RowsOf`).

## 7. Not modelled

* The broadcast scheduler: nothing starts it, and its `start()` needs a running loop that it would not have. `start_hs_auto_update`: its route compares a status code with a Korean name and never calls it.
* `cleanup_duplicate_likes.py`: its statements name columns that the like tables do not have.
* The status code cache: rows that never change, filled by one event loop.
* Branch `method="recipe"` of `recommend_by_recipe_pgvector_v2` (titles, then the ML service): every caller asks for `"ingredient"`, `kok/routers/cart_router.py:285` and `homeshopping/routers/recommendation_router.py:259`.
* Recipe details, ratings and `simple_cache.py`, whose lookups are commented out; product and stream reads, order counts, images and the formatting of lists: queries without state. One of them, `list_router.py`, multiplies a line's price, which already is a total, by the quantity again in what it shows.
* Keyword extraction and the matching of home shopping and kok products: text processing, seen by `IngredientStatus` as a function from products to materials. `fetch_recipe_ingredients_status` has no caller that can run, and `ingredient_matcher` is imported and missing.
* Password hashing, settings, logging, configuration, the gateway: one call each, no interleaving.
* Payments with more than one server process: `WaiterRegistry` and the tracker live in one process's memory, and the deployment runs one worker.

What a continuation could add: the recipe pages with several inventories of one
user, and a contract for the cache of listings that `Catalog` would implement.
