# A verification development for BiteX99

BiteX99 is a food-delivery platform: a FastAPI backend (`src/bitex99/app`) with
PostgreSQL, Redis and WebSockets, and a Flutter client (`src/frontend`). This
directory holds TLA+ modules that model the backend, the configurations with
which TLC checks them, and proofs that TLAPS checks. `PROJECT.json` maps every
definition to the lines it stands for and lists the runs, the mutants, the
hazards, the findings and the theorems.

## 1. Inventory

All paths are below `src/bitex99/app`.

| component | state | operations | hard behaviour | correct when | modules |
| --- | --- | --- | --- | --- | --- |
| **Order life cycle** (`services/order_service.py`, `services/order_management_service.py`, `models/order.py`, `utils/notification_service.py`) | `orders.status`, `order_responses` | place, accept, reject, auto-reject after 90 s, preparing, ready, cancel, status webhook | every handler reads, decides and commits much later, with no lock and no version; the auto-reject task races with the restaurant | the response agrees with the status; terminal statuses are final; a placed order is answered; an order under way is on somebody's screen | `OrderStatus`, `Dispatch`, `Screens` |
| **Dispatch and delivery** (`services/assignment_service.py`, `utils/assignment_engine.py`) | `delivery_assignments`, `delivery_otps`, Redis `assignment_pending`, `rejected_partners`, `unassigned`, asyncio timers | choose a partner, offer, time out, accept, reject, reached, picked up, deliver, fail | several requests and tasks per order in flight, a timer racing a late answer, retries, Redis not rolled back with the database, restarts lose timers | a partner has one active assignment; an order has one partner; an open offer is settled; delivery, code and pay move together | `Dispatch` |
| **Checkout** (`services/cart_service.py`, `order_service.place_order`, `models/coupon.py`) | cart items, coupon `used_count`, orders | add, change, remove, clear, place with coupon | the same cart placed twice, items added during checkout, coupon counter read and written in two steps | an item is ordered once; a coupon is not used more than `max_uses`; an order is of one restaurant | `Checkout` |
| **Prices** (`cart_service.py`, `routers/coupons.py`, `order_service.py`, `routers/flutter_api.py`) | menu prices, fees, minimums, coupons | show the cart, validate it, quote a coupon, bill one order or several | one calculation in five copies; menu and coupon change between them | what is shown is what is charged | `Pricing` |
| **Wallets and payouts** (`services/earnings_service.py`, `incentive_service.py`, `payout_service.py`, `restaurant_payout_service.py`) | wallet balances, earnings, incentives, payouts | pay a delivery, award an incentive, request a payout, mark it paid | balance is read, changed in memory and written back; a payout task reads a row that may not be committed yet | balance = earned - paid out; every payout is eventually paid; one award for each rule and day | `Wallet`, `Ledger` |
| **Delivery partners** (`services/kyc_service.py`, `routers/delivery/admin_kyc.py`, `routers/delivery/duty.py`, `services/location_service.py`, cleanup task of `main.py`) | KYC documents, `partner_status`, `is_online`, `partner_shifts`, last location | upload, submit, approve, reject, start and stop duty, location updates, offline after silence | re-upload during a review; two starts race; the cleanup task decides one by one and commits for all | complete documents are submitted; whoever is on duty was approved; on duty exactly while one shift is open; no partner is taken off duty during a delivery | `Partner` |
| **Restaurant partners** (`services/restaurant_document_service.py`, `restaurant_partner_service.py`, `routers/restaurant/admin_restaurant.py`) | profile, documents, `partner_status`, `is_open` | register, upload, submit, approve, reject, open, close | an upload commits twice and looks at rows in between; closing counts orders and commits later | complete documents are submitted; an open restaurant has been reviewed; nobody closes on active orders | `Restaurant` |
| **WebSocket feeds** (`main.py` `ConnectionManager` and four endpoints) | connections for each user, Redis `pending_orders:` buffer | connect, send, disconnect, drain the buffer | an old handler's clean-up removes a newer connection; a popped message is lost when the send fails | whoever is connected has been told what waits | `Feeds` |
| **Login** (`services/auth_service.py`, `utils/otp.py`, `utils/jwt.py`) | Redis code, attempts, cooldown; refresh-token hash; users and partners | send code, verify, log in, refresh, log out | attempt counter and code read and written in several Redis calls; overlapping first logins; two refreshes race | a code is used once and guessed at most three times; partners are numbered without gaps; a client is not logged out by its own refresh | `Otp`, `Accounts` |
| **Menu** (`services/menu_management_service.py`, `menu_service.py`) | categories, items | create, change, hide, delete, switch many | items are deleted by a tag, categories for good with a cascade | no item is lost with its category, no removed one comes back | `Menu` |
| **Offers and reviews** (`services/restaurant_offer_service.py`, `review_service.py`) | offers, `has_offers`; reviews, `rating`, `total_reviews` | create, switch, delete; review | computed columns are written as values; the mean is rounded with every review | the flag agrees with the offers; the count and the mean with the reviews | `Shopfront` |
| **Addresses** (`services/address_service.py`) | addresses, `is_default` | create, change, delete, set default | the default moves in two statements | a new default is the only one | `Addresses` |
| **Surge and pay** (`utils/surge_detector.py`, `services/earnings_service.py`, `routers/admin.py`, surge task of `main.py`) | Redis surge keys | periodic check, rain, show, pay a delivery | the same sum is computed in three places; keys expire | what the screens show is what is paid; the parts add up | `Surge` |
| **Statements** (`services/restaurant_analytics_service.py`, `restaurant_payout_service.py`, `earnings_service.py`) | none of their own | overview, charts, busy hours, pending payout, the partner's week | each query has its own idea of a day, in two time zones, and of which orders count | figures of one period agree with each other | `Reports` |
| **Profiles, browsing, support** (`services/restaurant_service.py`, `user_service.py`, `support_service.py`, ...) | rows | read, write one row | none | - | - |
| **HTTP shell** (`routers/`, `middleware.py`, `dependencies.py`, `redis_client.py`) | none of its own | routing, validation, rate limit, in-memory Redis substitute | - | - | - |
| **Flutter client** (`src/frontend`) | client state | screens, polling, WebSocket reconnect | - | - | - |

How they interact: Checkout inserts PLACED orders and starts the auto-reject
task; the restaurant's accept starts dispatch; dispatch reads duty and location,
creates the assignment and pushes it over a WebSocket feed; delivery writes the
order, the assignment, the code, the earnings and both wallets in one
transaction and then looks at incentives. `routers/flutter_api.py` offers the
same services to the client and composes some of them (accept then prepare);
where it goes its own way (KYC, restaurants, login, the list form of checkout)
its handlers are actions of the component's module.

The one property of the platform that shapes every model: **each HTTP request
and each asyncio task has a database session of its own** (`database.py:27-49`).
It reads rows, awaits many times, changes attributes in memory and flushes or
commits at the end; the `UPDATE` writes only the columns that were changed, with
absolute values. No query uses `FOR UPDATE`, no row has a version. So the last
commit wins, and only the UNIQUE constraints make a commit fail.

Because of that most properties come in two kinds. Some hold however requests
overlap. Others hold only as long as the requests on one partner, restaurant or
customer do not overlap, and that is what their statement says: the models have
both kinds of clients, chosen by the initial state (`orderly`, `patient`,
`careful`, ...), so that the same run explores the careless ones, too.

## 2. Plan

Everything planned is done; in the order of importance:

1. `OrderStatus`, `Dispatch` with `MCDispatch`, `DispatchProofs`; `Screens`.
2. `Wallet` with its abstract specification `Ledger`, `MCWallet`, `WalletProofs`.
3. `Checkout` with `MCCheckout`, `CheckoutProofs`.
4. `Partner` with `MCPartner`, `PartnerProofs`.
5. `Restaurant`, `Feeds` with `MCRestaurant`, `RestaurantProofs`, `FeedsProofs`.
6. The components that keep single records, with `MCRecords`: `Requests` (what
   they share), `Otp` and `Accounts` (`LoginProofs`), `Menu`, `Shopfront`,
   `Addresses`, `Pricing` and `Surge` with `Amounts`, `Reports` (`RecordsProofs`).

Every safety property of the runs has a theorem. What could be added: the rest
of the statements (the ranking of dishes); incentives on the acceptance rate.

## 3. `OrderStatus` and `Dispatch`

### State

| variable | code |
| --- | --- |
| `order` | `orders.status`, `NO_ROW` before the order is placed |
| `response` | `order_responses.action` (unique for each order) |
| `asgStatus`, `asgPartner` | `delivery_assignments.status`, `.partner_id` (unique for each order) |
| `otpUsed`, `earnings` | `delivery_otps.is_used`, number of `partner_earnings` rows of the order |
| `offerKeys`, `rejected`, `unassigned` | Redis `assignment_pending:{partner}`, `rejected_partners:{order}`, `unassigned:{order}` |
| `autoReject`, `assignTasks`, `offerTimer`, `failTasks` | asyncio tasks not yet run: `_auto_reject`, `auto_assign_partner`, `_handle_timeout` (`"more"` or `"last"`: whether other partners were found with the one offered), the part of `_handle_timeout` that fails the order |
| `sess` | handlers and tasks in flight |
| `faults` | restarts and failed transactions so far |

### Actions

A handler is split where another handler can change what it sees:

* its **reads and guards** are one action (`AcceptOrder`, `PickedUp`, ...), which
  leaves the columns it will write in a session record;
* where the code reads twice with a decision in between (`accept_order`,
  `reject_order`: order, then response; `accept_assignment`: row, then Redis
  key, then delete) the second read is an action of its own (`ReadResponse`,
  `CheckOffer`, `TakeOffer`);
* `Commit` applies the pending columns and starts what the code starts after
  its commit; `Rollback` is a commit that meets a unique constraint; `Abort` is
  any other exception;
* `do_assign` goes on after its commit (`StoreOffer`: the offer key; `ArmTimer`).

Redis calls take effect at once, as in the code, even if the transaction fails
later. Two reads whose second can only make the handler give up (`deliver`:
assignment, then code) are one action. An attribute that is set to the value that
was read is not written (`Write`), as SQLAlchemy does it.

Abstractions: a timer may fire any time after it is armed and a key may expire
any time after it is set, so every order of a late answer and a timeout is
covered; which of the eligible partners is on duty and nearest is chosen freely;
prices, distances, names, messages and pushes are left out; a wrong or expired
delivery code changes nothing and is left out. Placement is the insertion of
PLACED rows (the checkout is a component of its own). Two facts of the code are
used: nothing sets `payment_status` to SUCCESS, so the refund branch of
`cancel_order` is dead, and nothing reads the `unassigned` key. The driver's
treatment of the array parameter in `find_nearest_partners` is not modelled.

### Runs

| run | instance | what it shows |
| --- | --- | --- |
| `serial` | 2 orders, 2 partners, 1 session, 1 fault, no webhook | when handlers do not overlap, partners are exclusive (`PartnerExclusive`), the audit agrees (`StatusAgreesWithAudit`), order and assignment agree (`OrderFollowsDelivery`), delivery, code and pay move together and once (`DeliveryMovesTogether`), and no order under way drops off every screen (`NoOrderIsLost`), through restarts, failed transactions, expiries and late timers |
| `overlap` | 1 order, 2 partners, 2 sessions, 1 fault, webhook | what holds under overlap: `DispatchOnlyAfterResponse`, `OfferIsWatched`, `FinishedMeansPaid`, `OfferedOnce` |
| `liveness` | 1 order, 1 partner, 2 sessions, no fault | `PlacedOrderIsAnswered`, `OfferIsSettled` |
| `terminal` | 1 order, 1 partner, 1 session | refutes that a cancelled order stays cancelled; see the findings in `PROJECT.json` |

More disagreements with the documents show in the model and have no run of
their own. With two sessions the invariants of `serial` fail: two dispatches choose
the same partner before either commits (`PartnerExclusive`, against
SPEC_ARCHITECTURE.md:474), and two completions of one delivery pay twice
(`DeliveryMovesTogether`, against SPEC_ARCHITECTURE.md:342). An accept and a
reject that overlap leave one's answer and the other's status. Two overlapping
accepts of one offer both pass the check of the offer key
(SPEC_ARCHITECTURE.md:352 says the first one's deletion prevents it), without an
effect on any row. An order for which no partner is found stays CONFIRMED:
SPEC2.md:480-481 promises retries, but nothing reads the `unassigned` key. A
partner who lets an offer pass is never followed by the next one, although
SPEC2.md:514 and SPEC_ARCHITECTURE.md:483 say so: the second offer would be a
second row for the order, which `order_id`'s unique constraint refuses. Orders
from a cart of several restaurants get no auto-reject task (SPEC3.md:478).

`Screens` reads the state of `Dispatch` as the restaurant's, the partner's and
the app's lists do. `NoOrderIsLost` relates these lists, which different handlers
feed, and it is why the app's two tables of status words are modelled: asked for
"preparing" the app filters by CONFIRMED, so no word finds an order that is
PREPARING; a FAILED order is shown as cancelled; and the list of orders waiting for
a partner also has those whose partner has REACHED_RESTAURANT.

Bounds. Two orders are needed to compete for a partner, two partners to have a
reassignment, two sessions to overlap; three sessions add no pair of operations
that two do not have, and the theorems below cover any number. One fault (`MaxFaults`) may
strike at every point of every behaviour. `serial` leaves the webhook out: it may
set any status the table allows without regard to the assignment, so the
agreement of order and assignment is not meant to hold with it. Orders,
partners and sessions are interchangeable, so symmetry is used in the safety
runs and not in the liveness runs. Deadlock is not checked: when every order is
finished and no task is left, the system rightly stops.

Fairness. `FairSpec` assumes that a started handler goes on (weak fairness of
`Continue`: the event loop runs what is ready) and that a due task is run
(strong fairness for each order and kind of task, because the model has fewer
session slots than the event loop, which has no such limit, and a task must not
be starved by that bound). No request of a client and no expiry is fair. After
a restart nothing rebuilds the tasks, so `liveness` assumes no fault.

### Proofs

`DispatchProofs` proves, for every set of orders, partners and sessions, any
number of faults, with and without the webhook, assuming only
`ConstantsAssumption`:

| theorem | statement |
| --- | --- |
| `TypeCorrect` | `Spec => []TypeOK` |
| `DispatchAfterResponse` | `Spec => []DispatchOnlyAfterResponse` |
| `FinishedIsPaid` | `Spec => []FinishedMeansPaid` |
| `OfferWatched` | `Spec => []OfferIsWatched` |
| `OrderOfferedOnce` | `Spec => OfferedOnce` |
| `InvariantHolds` | `Spec => []DispatchInv`, the inductive invariant |

None of the properties is inductive alone, because a commit applies what a
session decided earlier. `DispatchInv` adds `SessionsShaped` (which operation can
hold which pending write and where it may stand: only `deliver` holds DELIVERED,
only `do_assign` holds ASSIGNED, ...), `AssignmentRows` (who works on an
assignment has seen its row; a row has a partner) and `AnsweredFirst` (every
dispatch task, every assignment session and every accept that found an answer
belongs to an answered order). The proof sorts the steps into three kinds
(`NextKinds`): those that open a session, those that commit one (`CommitFacts`),
those that leave the rows alone; each invariant is then kept kind by kind.
`OfferIsWatched` needs more, namely that without a fault a session in flight stays as
it is until it moves (`SessionStays`) and a timer until it fires (`TimerStays`).

The properties of the `serial` run need more: `Serial`, that is at most one session and no
webhook. Under it, for any orders, partners, faults and expiries:

| theorem | statement |
| --- | --- |
| `SerialPartnerExclusive` | `Spec => []PartnerExclusive` |
| `SerialAudit` | `Spec => []StatusAgreesWithAudit` |
| `SerialOrderFollows` | `Spec => []OrderFollowsDelivery` |
| `SerialDelivery` | `Spec => []DeliveryMovesTogether` |
| `SerialOrderShown` | `Spec => []NoOrderIsLost` |
| `SerialInvariant` | `Spec => []SerialInv`, the inductive invariant |

`SerialInv` says which combinations of an order's columns there are (`GoodRow`: an
assignment only of an accepted order, OUT_FOR_DELIVERY exactly with a picked-up
assignment, ...), that the session in flight will leave its order's row so
(`LeavesGood`) and offers it only to a partner who is free, and that pending tasks
belong to rows they fit (`TasksFollow`: dispatch to accepted orders, failing to
timed-out assignments). What overlaps break is the second part: with two sessions the row
a handler decided on is no longer the row it overwrites. The webhook breaks the first.

Only model-checked: liveness.

## 4. `Wallet` and `Ledger`

### State

| variable | code |
| --- | --- |
| `balance` | `delivery_partners.wallet_balance`, `restaurant_partners.wallet_balance` |
| `credited` | what the owner's rows add up to: `partner_earnings.total_earned` and `partner_incentives.bonus_amount` of a partner, the net amounts of a restaurant's delivered orders |
| `asg` | `delivery_assignments.status` of the deliveries under way |
| `rows`, `awards` | `partner_earnings` and `partner_incentives` rows dated today |
| `payout`, `tasks` | rows of `payouts` and `restaurant_payouts`; their sleeping asyncio tasks |
| `sess`, `faults` | handlers in flight; restarts and failed transactions so far |

### Actions

A handler takes up to five steps. `Request`: authentication loads the owner's
row, and with it the balance; the session keeps that object (SQLAlchemy's
identity map), so the handler's own `select` of the same row does not refresh
it. `Deliver`, `FailDelivery`, `RequestPayout`: the guards, and the new absolute
balances in memory (a delivery reads the restaurant's row only now); `Respond`
stands for every request that ends without a write. `FlushCredit`,
`FlushPayout`: the UPDATEs are sent, which waits until no other open transaction
has updated the same rows and then holds their locks; a payout also gets its id
and its task here, before its commit. `CheckAndAward`: the incentives, decided on
rows read after the flush. `CommitCredit`, `CommitPayout`: the values are
written, the locks released.

Deliver's several reads before the flush are one action; they are of different
rows, and the one that could make the handler give up late (the code) is
modelled in `Dispatch`. Locks that one flush needs are taken together: the
handlers flush their tables in one order, so waiting with some of them in hand
delays others but blocks nobody for ever. Amounts are natural numbers; rounding
and the earnings formula are left out, as are incentives on the acceptance rate
(a rule here counts a day's deliveries; one on the peak hours differs in which
it counts). `NewDay` is midnight, at any time: sessions in flight keep the date
of the rows they will insert.

`Ledger` is the abstract promise: balances grow by earnings and fall only by a new
payout row of exactly that amount, which the balance covered.

### Runs

| run | instance | what it shows |
| --- | --- | --- |
| `wallet_overlap` | 1 partner, 2 deliveries, rules at 1 and 2 deliveries, 1 payout, 2 sessions, 1 fault | under any overlap a wallet is backed by rows (`WalletBacked`), a rule is awarded once a day (`AwardedOnce`) and not missed (`ThresholdRewarded`) |
| `wallet_serial` | 2 partners, 3 deliveries, 2 rules, 2 payouts, 1 session, 1 fault | without overlap balances are exact (`BalanceExact`), the wallets implement `Ledger` (`KeepsLedger`), and a committed payout whose task still sleeps is paid (`PayoutSettles`) |
| `wallet_credit_race` | 2 partners, 2 sessions | of two deliveries for one restaurant that overlap, one credit is lost; see the findings |

In the same way two overlapping payout requests are both granted one balance
(payout_service.py:38, against SPEC2.md:837): with two sessions `BalanceExact` and
`KeepsLedger` fail. There is no run of its own for it.

A payout whose task wakes before the request's commit finds no row and stays
PROCESSING (and so does one whose task a restart loses): `PayoutSettles` is
therefore stated for a task that still sleeps when the row is there, after the
last fault, although SPEC2.md:841 promises it of every payout.

Bounds. The amounts (pay 2, net 3, partial 1, payouts of 2 or 3, bonus 1) keep the
order of the real ones and allow a payout after one delivery. Two deliveries and
two sessions let a rule's threshold be reached by either of two overlapping
deliveries; the theorems cover any number. Symmetry (sessions, payout rows) is
not used where a temporal property or an action property is checked. Fairness:
only that the event loop resumes a sleeping task (`PayOut`). Requests can always
arrive, so there is no deadlock to exclude.

### Proofs

`WalletProofs` proves, assuming only `WalletAssumption`:

| theorem | statement |
| --- | --- |
| `WalletTypeCorrect` | `Spec => []TypeOK` (so no balance is ever negative) |
| `MoneyIsBacked` | `Spec => []WalletBacked` |
| `AwardOnce` | `Spec => []AwardedOnce` |
| `RewardNotMissed` | `Spec => ThresholdRewarded` |
| `SerialKeepsLedger` | `Spec => KeepsLedger` if there is one session |
| `SerialBalanceExact` | `Spec => []BalanceExact` if there is one session |
| `WalletInvariant` | `Spec => []WalletInv`, the inductive invariant |

`WalletInv` adds to the properties what sessions carry: `Covered` (what a session
read or will write is at most the rows there are plus those it inserts; rows are
never deleted, so a stale value stays covered), `LocksExclusive` (sessions past
their flush share no wallet) and `AwardsRight` (the awards a session is about to
commit are not there yet and complete; only a session with the same partner could
change that, and the locks exclude it). `Shaped` says what is filled in when.
Nothing but the row lock keeps a rule from being awarded twice: with `RowsFree`
always true, both TLC and the proof fail. For one session, `SerialInv` adds that what
the session read is still what the database says (`Fresh`), and then each commit
is a step of `Ledger`.

`BalanceExact` sums over the payout rows. `PaidOut` counts their units (a row of
amount n has n of them), so that the library's theorems on the cardinality of a
union say how a new row changes the sum. `BalanceInv` adds that a session earns
nothing for a wallet it does not update (`Booked`) and that the units are
finite (`UnitsFinite`).

Only model-checked: liveness.

## 5. `Checkout`

### State

| variable | code |
| --- | --- |
| `cart` | `cart_items.quantity` for each user and item, 0 where there is no row; the row's `restaurant_id` is the item's (`RestaurantOf`) |
| `used` | `coupons.used_count` of one coupon |
| `orders` | `orders` with their `order_items`; `coupon` says whether the order has the discount |
| `sess` | handlers in flight: the rows they hold, what they have read, and the deletes, quantities, orders and counter they will commit |

### Actions

Cart changes read, and write at the commit: `AddItem`, `UpdateQuantity`,
`RemoveItem` (also a quantity of 0), `ClearCart`. `POST /orders/place` is
`BeginPlace` (read the cart), `PlaceOrder`, `Commit`. The client's `POST /orders`
is `BeginCreate` or, when it sends a list, `ReplaceCart` and `FillCart`; then
`PlaceOrdersForCart` for several restaurants, or `ReadAgain` and `PlaceOrder` for
one. In `ReadAgain` the second query returns the rows of now, but SQLAlchemy's
identity map keeps the quantities of the rows the session has loaded before.
`Refuse` is an `OrderServiceError`: the router makes a response of it, and
`get_db` commits what is done so far. `Fail` is any other exception and rolls back.

There are no locks in the model. A statement that has to wait for a row goes on when
the other transaction has ended and looks at the row again, so it is as if it
came after; what matters is whether the row it meant is still there. When a
commit deletes rows, the other sessions forget them (`Forget`): a DELETE then
finds nothing, an UPDATE fails (`Conflict`), as does an INSERT of a row that has
come into being (`uq_cart_user_item`).

Merged: the additions of one list (other carts do not matter to them, and the
customer's own further requests meet the same rows before or after); the reads
of `place_order` after the cart, up to its DELETE. Of these the coupon is read
some awaits before the DELETE, so a cart row that is added exactly between the
two, by a third request, is deleted in the code and left alone in the model; the
same loss with the row added a moment earlier, after the cart was read, is in the
model, and no property relates the two reads. Left out: prices, minimums,
addresses, availability and opening hours (whatever they are, a handler that
checks them goes on or refuses), the amount of the discount, other coupons.

### Runs

| run | instance | what it shows |
| --- | --- | --- |
| `checkout_overlap` | 1 customer, 2 items of 2 restaurants, 2 orders, 2 sessions, both endpoints | under any overlap the coupon's counter is never ahead of the discounted orders (`CouponNeverAhead`), and a row that a checkout has read is kept or ordered (`NothingReadIsDropped`) |
| `checkout_serial` | the same with 1 session, quantities to 2, 3 orders, the client's endpoint | without overlap the counter is exact (`CouponExact`), an order is of one restaurant (`OrderOfOneRestaurant`), and a checkout that empties the cart has ordered what was in it (`CheckoutTakesCart`) |

What the code does not give, and the model shows: `/orders/place` makes one order of
a mixed cart, against the single-restaurant constraint of SPEC.md:446
(cart_service.py:84 lets items of several restaurants in); two placements that overlap both
order the cart, and use a coupon beyond `max_uses`; an item added between the
last read and the DELETE is dropped unordered; a mixed cart of which the second
restaurant's minimum is not met is ordered in part, and the cart keeps everything.
SPEC.md:386 promises "all or nothing" of `/orders/place`, which keeps it; `POST /orders`
does not.

Bounds. Two items of two restaurants make a mixed cart; two sessions overlap;
`MaxUses` is 1, so that the second use is the one too many. In `checkout_overlap`
a row's quantity is at most 1 (`MaxQuantity`), so adding to a row that is there is
not taken; `checkout_serial` has quantities to 2, and the theorems any. Customers share
only the coupon, so one with two sessions covers two with one each. Symmetry is
used for sessions and orders, with safety and action properties that treat
them alike. Every request may come at any time and no state ends the system, so
deadlock is checked; no fairness is assumed.

### Proofs

`CheckoutProofs` proves, assuming only `CheckoutAssumption`:

| theorem | statement |
| --- | --- |
| `CheckoutTypeCorrect` | `Spec => []TypeOK` |
| `CouponNotAhead` | `Spec => []CouponNeverAhead` |
| `NothingReadDropped` | `Spec => NothingReadIsDropped` |
| `SerialCouponExact` | `Spec => []CouponExact` if there is one session |
| `SerialCheckoutTakesCart` | `Spec => CheckoutTakesCart` if there is one session |
| `SerialOrdersAreSplit` | `Spec => []OrderOfOneRestaurant` if there is one session and nobody uses `/orders/place` |
| `CheckoutInvariant` | `Spec => []CheckoutInv`, the inductive invariant |

`CheckoutInv` adds to the types and the coupon's bound what sessions carry.
`CountRight`: a counter to be written is at most one more than the discounted orders
and comes with one (orders are never taken away, so a stale counter stays right).
`ReadRight`: rows held are there, and those a commit deletes are in its orders.
Every step but a commit changes one session and no row (`Moves`), so the proof shows
once that such steps keep the invariant, and for each action only that it is one. For
one session, `SerialInv` adds that the counter to be written is of now, and
`WholeInv` that what it has read is still the customer's whole cart and that the
orders it will write have all of it (`WholeCart`) or, without `/orders/place`, are of
one restaurant each (`SplitCart`). Restaurants are assumed finite because the code
counts those of a cart.

Nothing is left to TLC alone.

## 6. `Partner`

### State and actions

| variable | code |
| --- | --- |
| `docs`, `status` | `kyc_documents.status` of the required types, `users.partner_status` |
| `online`, `heard` | `delivery_partners.is_online`; is `last_location_at` at most ten minutes old? |
| `open`, `started` | the `partner_shifts` rows without `ended_at`; how many there have been |
| `carrying` | has the partner an assignment in an active status? |
| `sweep` | what the cleanup task has decided about the partner and not committed yet |
| `sess` | requests in flight: what they have loaded, will write, and have locked |
| `orderly`, `app` | partners whose transactions never overlap; partners of the Flutter app |

A request is `Request` (authentication, or the admin's lookup, loads the rows), one
handler action (`UploadDocument`, `ApproveKyc`, `StartDuty`, ...: the guards, the
decision, and the statements that lock rows at once) and `Commit`. An attribute
set to its loaded value is not written. The KYC upsert and the approval of all
documents are statements, so they lock; the rest are attributes of objects.
Assignment (`find_nearest_partners` to the commit) is here as far as it reads duty;
the rest of it is `Dispatch`. The cleanup task loads the silent partners
(`SweepLoad`) and commits for all at the end. Silence may begin at any time.

### Run and proofs

`partner` (1 partner, 2 required documents of which the app's form knows one, 2
sessions, 2 shifts): when transactions on a partner do not overlap, the last
upload submits (`UploadsSubmit`), a review stands (`ReviewStands`), nobody is on duty
or carries an order unapproved (`OnDutyWasApproved`), a partner on duty has one
open shift and no other has any (`OneShiftOnDuty`), and only silence takes a
carrier off duty (`NotCutOff`).
With overlap none of it holds: two last uploads each miss the other's row and
nobody submits; an upload's KYC_SUBMITTED overwrites an approval; two starts open
two shifts; the cleanup task ends a shift that has just begun. The partners of
the app are outside these properties because its handlers do not ask for the
documents (it submits whatever the form has, and approves the partner alone).

One partner suffices because no row is shared between partners; two documents
make an upload that is not the last; two shifts let a stale end meet a new start.
Deadlock is checked.

`PartnerProofs` proves `PartnerTypeCorrect`, `LastUploadSubmits`, `ReviewsStand`,
`DutyAfterApproval`, `OneOpenShift`, `CarrierStaysOnDuty`, and, whatever overlaps,
`PendingHasUploaded`: whoever waits for a review has all documents (outside the app).
The invariant `PartnerInv` says of a session on an orderly partner that it is alone
(`Alone`) and that its writes, applied to the rows there are, leave good rows
(`Consistent`); of a decision of the cleanup task that it names the open shift
(`SweepInv`). Each handler is shown once to decide well (`HandlerWell`), so
that `Commit` needs no case for each of them.

## 7. `Restaurant` and `Feeds`

The two share no state; `MCRestaurant` runs both in one instance, of which each
behaviour moves one (`focus`), so that their numbers of states add.

### `Restaurant`

`profile`, `docs`, `status`, `isOpen` and `active` are the columns of the
restaurant, its partner and documents, and the number of its active orders;
`sess`, `orderly` and `app` are as in `Partner`. Unlike there an upload commits
twice: `UploadDocument`, `Commit`, then `CheckDocuments` looks at the documents of
all and at the user of before (the identity map), and a second `Commit` submits.
The app's registration commits twice as well. `Fail` is a request that dies between
two steps; what it has committed stays.

Properties (run `restaurant_feeds`: 1 restaurant, 2 required documents and an
optional one, 2 sessions, 1 order, 1 failure): however uploads overlap,
complete documents are submitted by the time nobody is under way (`UploadsSubmit`,
which `Partner` cannot promise: the second look comes after the commit); only a
restaurant that has left PENDING_DOCS opens or gets orders (`OpenWasReviewed`);
without overlap a review stands (`ReviewStands`) and nobody closes on active orders
(`OpenWhileActive`). Not promised by the code: rejecting a document leaves an open
restaurant open, though its partner gets 403 from the order endpoints from then on.

`RestaurantProofs` proves `RestaurantTypeCorrect`, `UploadsAreSubmitted`,
`OpenAfterReview`. `RestaurantInv` adds what a request in flight may rely on
(`Right`: a status that was left is never PENDING_DOCS again, rows are never
deleted) and who is still going to submit (`UploadsAwaited`). `ReviewStandsAlways`
and `ActiveStaysOpen` are about restaurants whose requests do not overlap:
`OrderlyInv` says that a request on such a restaurant is alone and that what it
plans, applied to the rows of now, leaves a status that fits the documents
(`Ordered`, `Reviewed`).

### `Feeds`

One entry of the registry, of any `kind`; the connections that come and go on it
(`conn`: where the handler is, is the client still `up`, what it `holds` to send);
what each client has been sent (`shown`); orders from their insertion to the answer
(`placed`) with the task that announces them (`notifier`); the Redis `buffer`; the
pending offer and its dispatcher (`pending`, `offerer`). Every `await` of the
handlers is a step. A send to a client that has gone is lost, raises at once, or
raises late (at most `MaxLateSends` times). `End` removes the entry, whoever's it is.

`FeedsAreCurrent` (same run: 3 connections, 2 orders, 2 offers): as long as a
client reconnects only after its old handler's end and no send fails late, a
connected restaurant has been sent every PLACED order that was announced, and a
connected partner the pending offer, though the buffer pops before it sends, lives
for an hour, and dead connections may stay registered. Without these conditions
it fails: the old handler's end removes the newer connection, and nobody
finds it from then on. Three connections allow a dead one that stays registered,
one that follows and one after that. Clients of the other two kinds have no
promise: nobody repeats what they miss.

`FeedsProofs` proves `FeedsTypeCorrect` and `ConnectedAreCurrent`, which states
`FeedsAreCurrent`. The invariant: of a client that reconnects after the end only
one handler runs (`Alone`); hence a connection that is up is the one in the
registry, and what it has not been sent it is about to be (`Told`). It assumes
only `FeedsAssumption`: no connection and no offer is the value that stands for none.

Both systems may rightly stop (no orders left, everybody disconnected), so
deadlock is not checked. No fairness is assumed.

## 8. The components that keep single records

`MCRecords` runs these in one instance by the same device of a `focus`. `Requests`
has what they share: sessions with a next step.

| module | what is modelled | property of the run `records` |
| --- | --- | --- |
| `Otp` | codes over single Redis calls: cooldown, store, read, compare, count, block, accept; expiry and failures between them | `CodeIsSpent`: for a phone that waits for each answer a code logs in at most once and takes at most `MaxAttempts` wrong answers. Overlapping answers, as the code stands, count as one |
| `Accounts` | login (find or insert, become a partner, conflict on the unique columns), the app's second transaction, refresh tokens: issue, rotate, revoke, expire, lost answers | `PartnersRegistered`: partner's role implies a partner's row, and the rows are numbered without a gap however first logins overlap; `StaysLoggedIn`: a client that misses no answer holds the stored token |
| `Menu` | categories with cascade, items with a removal tag, bulk switch; who sees what | `MenuKept`: deleting a category takes no item along that is not removed, and nothing removed comes back |
| `Shopfront` | offers with `has_offers`, reviews with the rounded running mean | `ColumnsAgree`: the mean is off by no more than its roundings, however reviews overlap; the summary's stars add up; the flag is right |
| `Addresses` | the default, moved in two statements, with row locks | `DefaultMoves`: a new default is the only one |
| `Pricing` | the five computations of a cart's price, while menu, restaurants and coupon change | `AmountsAgree`: an unchanged quote is charged |
| `Surge` | the level, rain, expiry, the earnings formula | `AmountsAgree`: the bonus shown is paid, the breakdown adds up |
| `Reports` | overview, charts, busy hours, pending payout, the partner's week | `ReportsAgree`: once there is an order, the figures of one period agree over every edge of day, week, month and year |

`Amounts` puts `Pricing` and `Surge` together to state `AmountsAgree`, which asks
the same of both.
As everywhere, `patient`, `single`, `careful`, `composed`, `unhurried` name
clients that wait for each answer; the instance also has some that do not.

Abstractions and bounds. `Otp`: three codes, three attempts (the code's number).
`Accounts`: two users, of which one overlaps its own requests. `Menu`: two
categories and two items, so that an item can move into a category that is being
deleted. `Shopfront`: three reviews with ratings 1 and 2, which make every kind of
rounding; ratings in hundredths, the Numeric column's precision. `Pricing` and
`Surge`: amounts in paise; the code's binary floats round ties either way, the
model up in every copy. `Reports`: time in quarters of a day, India's offset of
five and a half hours counted as one quarter; the calendar of three years around
28 February 2025, with leaps to the edges of each period, two of them; the
database session is taken to run in UTC, as `func.date` then does.

What the models show beside the properties: `bulk-toggle` asks for no tag, so a
removed dish can be made orderable again (`CanBeOrdered`), though nobody sees it;
the app's login overwrites the role, so a partner who logs in as a customer is one
from then on; a coupon is ignored for a cart of several restaurants; the minimum
is compared with the total after fee and discount; a surge level of HIGH is set
for a city without a free partner, be there orders or not; no code sets
`surge:MANUAL`; orders have no tip; the overview's revenue counts cancelled
orders and the charts do not; the year's chart begins within a thirteenth month
and drops it.

### Proofs

`LoginProofs`, assuming `OtpAssumption` and `AccountsAssumption`:

* `OtpTypeCorrect`, with the consequence that no stored key reaches the limit, so
  the first test of `verify_otp` decides nothing, and `CodeSpentOnce`: what a request
  has read is right about its code (`ReadRight`) even if the key has expired since.
* `AccountsTypeCorrect` and `PartnersAlwaysRegistered`, however logins overlap:
  `RegisterInv` says of a login about to commit that the role comes with a partner's
  row, old or new, and that its number is at most one beyond the rows of now, so
  that the unique column leaves it no other value (`LoginRight`). Users are finite,
  as the code counts the rows.
* `ClientsStayLoggedIn`: `TokenInv` says that a user who waits for each answer has
  one request in flight and that the stored token, if there is one, is the one that
  the client holds or is about to be given (`TokenRight`).

`RecordsProofs`, assuming the named assumption of each module:

* **Sums.** Columns, amounts and figures are sums over sets of rows
  (`SumFunction`, a fold). Induction over finite sets is out of the prover's
  reach, because the library's theorem takes an operator. The theorem that strict
  inclusion is well founded takes none, and from it follows that among the finite sets
  for which a statement fails one is smallest (`SmallestSet`). With it the module shows,
  once for all, that the fold's function exists and is unique, and that sums split
  over a partition, a union, a removed element (`SumPartition`, `SumUnion`,
  `SumRemove`) and count when each term is one (`PartsCount`).
* `AddressTypeCorrect`, `DefaultIsMoved`: the default that the request found, and
  cleared, is the one there is (`RequestSound`).
* `MenuTypeCorrect`, `MenuIsKept`: for a careful owner, what a request has read is
  still so (`MenuSound`), hence a category that is deleted for good has no item left
  but removed ones.
* `ShopfrontTypeCorrect`, `ColumnsAlwaysAgree`: `ShopInv` adds that no two requests
  rate one order (`RatesOnce`) and that a mark to be written is what the offers say now
  (`MarkRight`); each review moves the running mean away from the true one by at
  most half a hundredth, which is arithmetic on quotients.
* `CustomerPaysWhatWasShown`, `DeliveryPaysWhatWasShown` and with them
  `AmountsAlwaysAgree`: `PriceInv` says that a quote is that of the present cart and
  catalogue (`QuoteRight`); the totals of the restaurants' orders then add up to the
  cart's by `SumPartition`. `SurgeInv` says the same of a bonus shown.
* `ReportsAlwaysAgree`: `ReportsInv` says that no row is dated later than now and
  that now lies within the calendar. All the rest is about the definitions: each
  order of a period has its bucket among the labels, made without it. For weeks that
  is arithmetic modulo 7. For months it needs of the calendar only that months have
  from 28 to 31 days (`CalendarAssumption`): then going to the 28th and back by 32
  days reaches the month before, and twelve such steps reach every first day in
  between (`CursorFacts`, `MonthsAreLabels`). The cursor is a recursive function; that it exists is
  shown by twelve steps, not by induction. That net payouts by day add up to the week's
  within half a paisa for each rounding is `SumsNear` on `CommissionIsNear`.

The instances of these modules bound what TLC enumerates: two orders on
the calendar of three years, three reviews, two dishes. The theorems have none of these bounds.

## 9. What is proved, and what is not

| | |
| --- | --- |
| proved for all constants, any overlap | type correctness of the eleven modules whose requests overlap; `DispatchOnlyAfterResponse`, `FinishedMeansPaid`, `OfferIsWatched`, `OfferedOnce`, `WalletBacked`, `AwardedOnce`, `ThresholdRewarded`, `CouponNeverAhead`, `NothingReadIsDropped`, `UploadsSubmit` and `OpenWasReviewed` of restaurants, `PartnersRegistered`, the reviews' part of `ColumnsAgree`, `AmountsAgree`, `ReportsAgree` |
| proved for one session, or for clients whose requests do not overlap | `PartnerExclusive`, `StatusAgreesWithAudit`, `OrderFollowsDelivery`, `DeliveryMovesTogether`, `NoOrderIsLost`, `BalanceExact`, `KeepsLedger`, `CouponExact`, `CheckoutTakesCart`, `OrderOfOneRestaurant`, the properties of `Partner`, `ReviewStands` and `OpenWhileActive` of restaurants, `FeedsAreCurrent`, `CodeIsSpent`, `StaysLoggedIn`, `MenuKept`, `DefaultMoves`, the offers' part of `ColumnsAgree` |
| model-checked only | liveness: `PlacedOrderIsAnswered`, `OfferIsSettled`, `PayoutSettles`. It rests on fairness, that is on ENABLED, which is out of the prover's reach |

The proofs rest on the named assumptions about the constants
(`ConstantsAssumption`, `WalletAssumption`, ...), which TLC evaluates on every run.

## 10. Findings

`terminal`: a customer cancels a CONFIRMED order, and pick-up and delivery carry it
on; SPEC calls CANCELLED terminal. `wallet_credit_race`: two deliveries for one
restaurant overlap, and one credit is lost. The quotes and lines are in
`PROJECT.json`.

## 11. Not modelled

* Profiles, browsing restaurants, support tickets: reads, and writes of single
  rows by their owner on which nothing else rests.
* Of the modelled components: incentives on the acceptance rate and the
  statistics columns of earnings and shifts; the ranking of dishes; the owner's
  answer to a review; opening hours (they may refuse a checkout, as any check
  may); the signature of tokens.
* The layout of responses in `routers/flutter_api.py`, the schemas, middleware and
  error mapping, the in-memory substitute for Redis.
* `app/api`, `app/core`, `otp_service.py`, `onboarding_service.py`: an earlier version
  that `main.py` does not mount.
* The Flutter client: its requests are what the models let happen at any time.
* Seeds, migrations and test scripts.
