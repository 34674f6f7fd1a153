------------------------------ MODULE Checkout ------------------------------
(***************************************************************************)
(* The customer's cart, the coupon and the placement of orders, through    *)
(* the two endpoints that place: POST /orders/place and the client's       *)
(* POST /orders, which may replace the cart first and makes one order for  *)
(* each restaurant in it.                                                  *)
(*                                                                         *)
(* A handler reads the cart, later the coupon, deletes the cart and writes *)
(* at the end; other requests of the same customer come in between.  A     *)
(* statement that has to wait for a row of an open transaction goes on     *)
(* when that one has ended and looks at the row again, so it is as if it   *)
(* came after it, and there are no locks in the model.  What such a        *)
(* statement needs to know is whether the row it meant is still there:     *)
(* when a row is deleted, the sessions that hold it forget it.             *)
(*                                                                         *)
(* Prices, addresses and availability are left out: whatever they are, a   *)
(* handler that checks them may go on or refuse.                           *)
(***************************************************************************)
EXTENDS Naturals, FiniteSets, Functions

CONSTANTS
    Users, Items, Restaurants,
    RestaurantOf,   \* the restaurant of a menu item
    Quantities,     \* the quantities a request may name
    MaxQuantity,    \* bound on the quantity of one row of a cart
    MaxUses,        \* coupons.max_uses of the coupon
    Endpoints,      \* which of "place", "create" the clients use
    Orders,         \* the orders that may be placed
    NoOrder,        \* an order that is not there
    Sessions        \* how many handlers may be in flight at once

OrderRows ==
    [user : Users, restaurant : Restaurants, items : [Items -> Nat],
     coupon : BOOLEAN]

ASSUME CheckoutAssumption ==
    /\ RestaurantOf \in [Items -> Restaurants]
    /\ IsFiniteSet(Restaurants)
    /\ Quantities \subseteq Nat \ {0}
    /\ MaxQuantity \in Nat
    /\ MaxUses \in Nat
    /\ Endpoints \subseteq {"place", "create"}
    /\ IsFiniteSet(Orders)
    /\ NoOrder \notin OrderRows

VARIABLES
    cart,       \* quantity of an item in a user's cart_items, 0 for no row
    used,       \* coupons.used_count
    orders,     \* orders with their order_items
    sess        \* handlers in flight

vars == <<cart, used, orders, sess>>
db   == <<cart, used, orders>>

-----------------------------------------------------------------------------
(* Sessions *)

Work ==
    [op : {"cart", "place", "replace"},
     at : {"fill", "group", "checkout", "commit"},
     user : Users,
     held : SUBSET Items,       \* rows it has loaded and that are still there
     del : SUBSET Items,        \* rows its DELETEs found, still there
     put : [Items -> Nat],      \* quantities it writes, 0 for none
     ins : SUBSET Items,        \* the ones of put that are INSERTs
     read : [Items -> Nat],     \* the cart it has read (or was sent)
     new : SUBSET OrderRows,    \* orders it inserts
     count : Nat]               \* used_count it writes, 0 for none

Idle == [at |-> "idle"]
Busy(s) == sess[s] # Idle

NoItems == [i \in Items |-> 0]
Rows(u) == {i \in Items : cart[u][i] > 0}
Contents(c) == {i \in Items : c[i] > 0}
RestaurantsIn(c) == {RestaurantOf[i] : i \in Contents(c)}

Start(s, u, work) ==
    /\ ~Busy(s)
    /\ sess' = [sess EXCEPT ![s] = work]
    /\ UNCHANGED db

Fresh(op, at, u) ==
    [op |-> op, at |-> at, user |-> u, held |-> {}, del |-> {},
     put |-> NoItems, ins |-> {}, read |-> NoItems, new |-> {}, count |-> 0]

Continue(s, from, work) ==
    /\ Busy(s) /\ sess[s].at = from
    /\ sess' = [sess EXCEPT ![s] = work]
    /\ UNCHANGED db

\* What a session's SELECT finds: its own writes and what others committed.
Visible(w, c) ==
    [i \in Items |-> IF w.put[i] > 0 THEN w.put[i]
                     ELSE IF i \in w.del THEN 0 ELSE c[i]]

-----------------------------------------------------------------------------
(* The cart *)

\* A row that is there gets a new quantity, otherwise one is inserted.  Items
\* of any restaurant are accepted: the list of existing items is empty.
AddItem(s, u, i, n) ==
    /\ cart[u][i] + n <= MaxQuantity
    /\ Start(s, u,
         [Fresh("cart", "commit", u) EXCEPT
            !.held = {i} \cap Rows(u),
            !.ins = {i} \ Rows(u),
            !.put[i] = cart[u][i] + n])

RemoveItem(s, u, i) ==
    /\ i \in Rows(u)
    /\ Start(s, u, [Fresh("cart", "commit", u) EXCEPT !.del = {i}])

\* A quantity of 0 removes the row; an unchanged one is not written.
UpdateQuantity(s, u, i, n) ==
    /\ i \in Rows(u) /\ n # cart[u][i]
    /\ Start(s, u,
         [Fresh("cart", "commit", u) EXCEPT !.held = {i}, !.put[i] = n])

ClearCart(s, u) ==
    Start(s, u, [Fresh("cart", "commit", u) EXCEPT !.del = Rows(u)])

-----------------------------------------------------------------------------
(* Placing orders *)

\* POST /orders/place reads the cart.
BeginPlace(s, u) ==
    /\ "place" \in Endpoints
    /\ Rows(u) # {}
    /\ Start(s, u, [Fresh("place", "checkout", u) EXCEPT
                      !.held = Rows(u), !.read = cart[u]])

\* POST /orders without a list of items.
BeginCreate(s, u) ==
    /\ "create" \in Endpoints
    /\ Rows(u) # {}
    /\ Start(s, u, [Fresh("place", "group", u) EXCEPT
                      !.held = Rows(u), !.read = cart[u]])

\* POST /orders with a list: it deletes the cart, adds what it was sent, and
\* reads the cart.  An empty list leaves it at that, like ClearCart.
ReplaceCart(s, u, list) ==
    /\ "create" \in Endpoints
    /\ Contents(list) # {}
    /\ Start(s, u, [Fresh("replace", "fill", u) EXCEPT
                      !.del = Rows(u), !.read = list])

FillCart(s) ==
    LET w == sess[s]
        list == Contents(w.read)
        there == Rows(w.user) \ w.del
        put == [i \in Items |->
                  IF i \notin list THEN 0
                  ELSE IF i \in there THEN cart[w.user][i] + w.read[i]
                  ELSE w.read[i]]
        filled == [w EXCEPT !.put = put, !.ins = list \ there]
    IN  /\ Busy(s) /\ w.at = "fill"
        /\ \A i \in Items : put[i] <= MaxQuantity
        /\ Continue(s, "fill",
             [filled EXCEPT !.at = "group", !.held = there,
                            !.read = Visible(filled, cart[w.user])])

\* place_orders_for_cart leaves a cart of one restaurant to place_order, which
\* reads it again: the rows as they are now, but of the rows it has loaded
\* before the quantities of then.
ReadAgain(s) ==
    LET w == sess[s]
        c == Visible(w, cart[w.user])
    IN  /\ Busy(s) /\ Cardinality(RestaurantsIn(w.read)) = 1
        /\ Contents(c) # {}
        /\ Continue(s, "group",
             [w EXCEPT !.at = "checkout",
                       !.held = @ \cup (Rows(w.user) \ w.del),
                       !.read = [i \in Items |->
                           IF c[i] > 0 /\ i \in w.held THEN w.read[i] ELSE c[i]]])

OrderOf(w, r, items, coupon) ==
    [user |-> w.user, restaurant |-> r, items |-> items, coupon |-> coupon]

\* Mutant: the cart is not split.
PartOf_Whole(c, r) == c

\* The part of a cart that comes from one restaurant.
PartOf(c, r) == [i \in Items |-> IF RestaurantOf[i] = r THEN c[i] ELSE 0]

\* DELETE FROM cart_items WHERE user_id = ...: all the rows there are.  What the
\* handler has read is not needed any more.
Cleared(w) ==
    [w EXCEPT !.at = "commit", !.read = NoItems,
              !.del = Rows(w.user), !.put = NoItems, !.ins = {}]

\* Mutant: the use of the coupon is not counted.
PlaceOrder_NotCounted(s, r, coupon) ==
    LET w == sess[s]
    IN  /\ Busy(s) /\ r \in RestaurantsIn(w.read)
        /\ coupon => used < MaxUses
        /\ Continue(s, "checkout",
             [Cleared(w) EXCEPT !.new = {OrderOf(w, r, w.read, coupon)}])

\* Mutant: only the items of the restaurant are ordered.
PlaceOrder_OwnItems(s, r, coupon) ==
    LET w == sess[s]
    IN  /\ Busy(s) /\ r \in RestaurantsIn(w.read)
        /\ coupon => used < MaxUses
        /\ Continue(s, "checkout",
             [Cleared(w) EXCEPT
                !.new = {OrderOf(w, r, PartOf(w.read, r), coupon)},
                !.count = IF coupon THEN used + 1 ELSE 0])

\* One order, for the restaurant of the oldest row (whichever that is), with
\* everything in the cart.  The coupon's counter is incremented in memory.
PlaceOrder(s, r, coupon) ==
    LET w == sess[s]
    IN  /\ Busy(s) /\ r \in RestaurantsIn(w.read)
        /\ coupon => used < MaxUses
        /\ Continue(s, "checkout",
             [Cleared(w) EXCEPT
                !.new = {OrderOf(w, r, w.read, coupon)},
                !.count = IF coupon THEN used + 1 ELSE 0])

\* Mutant: the first restaurant's order is the only one.
PlaceOrdersForCart_First(s) ==
    LET w == sess[s]
    IN  /\ Busy(s) /\ Cardinality(RestaurantsIn(w.read)) > 1
        /\ \E r \in RestaurantsIn(w.read) :
              Continue(s, "group",
                [Cleared(w) EXCEPT
                   !.new = {OrderOf(w, r, PartOf(w.read, r), FALSE)}])

\* One order for each restaurant, without a coupon.
PlaceOrdersForCart(s) ==
    LET w == sess[s]
    IN  /\ Busy(s) /\ Cardinality(RestaurantsIn(w.read)) > 1
        /\ Continue(s, "group",
             [Cleared(w) EXCEPT
                !.new = {OrderOf(w, r, PartOf(w.read, r), FALSE) :
                            r \in RestaurantsIn(w.read)}])

\* Mutant: the coupon is counted when it is validated.
Refuse_CouponCounted(s, made) ==
    LET w == sess[s]
    IN  /\ Busy(s) /\ w.at \in {"group", "checkout"}
        /\ made \subseteq RestaurantsIn(w.read) /\ made # RestaurantsIn(w.read)
        /\ made # {} => w.at = "group"
        /\ Continue(s, w.at,
             [w EXCEPT !.at = "commit", !.read = NoItems,
                       !.new = {OrderOf(w, r, PartOf(w.read, r), FALSE) :
                                   r \in made},
                       !.count = IF used < MaxUses THEN used + 1 ELSE 0])

\* An OrderServiceError becomes a response, and the transaction is committed
\* with what it has done so far: the orders of the restaurants before the one
\* whose minimum is not met, and a replaced cart.
Refuse(s, made) ==
    LET w == sess[s]
    IN  /\ Busy(s) /\ w.at \in {"group", "checkout"}
        /\ made \subseteq RestaurantsIn(w.read) /\ made # RestaurantsIn(w.read)
        /\ made # {} => w.at = "group"
        /\ Continue(s, w.at,
             [w EXCEPT !.at = "commit", !.read = NoItems,
                       !.new = {OrderOf(w, r, PartOf(w.read, r), FALSE) :
                                   r \in made}])

-----------------------------------------------------------------------------
(* The end of the transaction *)

\* An INSERT meets another row of the user and item (uq_cart_user_item), or an
\* UPDATE finds its row gone.
Conflict(w) ==
    \E i \in Contents(w.put) :
        IF i \in w.ins THEN i \in Rows(w.user) \ w.del ELSE i \notin w.held

\* Sessions forget the rows of a user that are deleted.
Forget(u, rows) ==
    [t \in Sessions |->
        IF Busy(t) /\ sess[t].user = u
        THEN [sess[t] EXCEPT !.held = @ \ rows, !.del = @ \ rows]
        ELSE sess[t]]

Free == {k \in Orders : orders[k] = NoOrder}

Commit(s) ==
    LET w == sess[s]
    IN  /\ Busy(s) /\ w.at = "commit" /\ ~Conflict(w)
        /\ cart' = [cart EXCEPT ![w.user] = Visible(w, @)]
        /\ used' = IF w.count > 0 THEN w.count ELSE used
        /\ \E ids \in SUBSET Free : \E f \in Bijection(ids, w.new) :
              orders' = [k \in Orders |-> IF k \in ids THEN f[k] ELSE orders[k]]
        /\ sess' = [Forget(w.user, w.del) EXCEPT ![s] = Idle]

\* The conflict, or any other exception at any time, rolls back.
Fail(s) == Busy(s) /\ sess' = [sess EXCEPT ![s] = Idle] /\ UNCHANGED db

-----------------------------------------------------------------------------
(* The specification *)

Init ==
    /\ cart = [u \in Users |-> NoItems]
    /\ used = 0
    /\ orders = [k \in Orders |-> NoOrder]
    /\ sess = [s \in Sessions |-> Idle]

CartRequest(s, u) ==
    \/ \E i \in Items, n \in Quantities : AddItem(s, u, i, n)
    \/ \E i \in Items, n \in Quantities : UpdateQuantity(s, u, i, n)
    \/ \E i \in Items : RemoveItem(s, u, i)
    \/ ClearCart(s, u)

PlaceRequest(s, u) ==
    \/ BeginPlace(s, u)
    \/ BeginCreate(s, u)
    \/ \E list \in [Items -> Quantities \cup {0}] : ReplaceCart(s, u, list)

Checkout(s) ==
    \/ FillCart(s)
    \/ ReadAgain(s)
    \/ \E r \in Restaurants, coupon \in BOOLEAN : PlaceOrder(s, r, coupon)
    \/ PlaceOrdersForCart(s)
    \/ \E made \in SUBSET Restaurants : Refuse(s, made)

Next ==
    \E s \in Sessions :
        \/ \E u \in Users : CartRequest(s, u) \/ PlaceRequest(s, u)
        \/ Checkout(s)
        \/ Commit(s)
        \/ Fail(s)

Spec == Init /\ [][Next]_vars

-----------------------------------------------------------------------------
(* Properties *)

TypeOK ==
    /\ cart \in [Users -> [Items -> Nat]]
    /\ used \in Nat
    /\ orders \in [Orders -> OrderRows \cup {NoOrder}]
    /\ sess \in [Sessions -> Work \cup {Idle}]

Discounted == {k \in Orders : orders[k] # NoOrder /\ orders[k].coupon}

\* order_service.py:208-210: the coupon's counter is written in the transaction of
\* the order that uses it, so however checkouts overlap and fail it is never
\* ahead of the orders with a discount, and never above its maximum: no
\* customer is refused a use that nobody had.
CouponNeverAhead ==
    /\ used <= Cardinality(Discounted)
    /\ used <= MaxUses

\* However requests overlap, a row that a checkout has read and then deletes is
\* in an order of it (order_service.py:74-79 and 213): the cart is deleted
\* wholesale, but only what came after the last read can be dropped.
NothingReadIsDropped ==
    [][\A s \in Sessions :
         LET w == sess[s]
             placed == {k \in Orders : orders'[k] # orders[k]}
         IN  Busy(s) /\ sess'[s] = Idle /\ placed # {}
             => \A i \in w.held \cap Rows(w.user) :
                   \/ cart'[w.user][i] > 0
                   \/ \E k \in placed : orders'[k].items[i] > 0]_vars

\* Without overlap each use of the coupon is counted, so it has at most
\* max_uses (order_service.py:536).
CouponExact == used = Cardinality(Discounted)

\* Without overlap a checkout that ends with an empty cart has ordered all that
\* was in it: nothing the customer did not send anew is dropped.
CheckoutTakesCart ==
    [][\A s \in Sessions :
         LET w == sess[s]
             placed == {k \in Orders : orders'[k] # orders[k]}
         IN  /\ Busy(s) /\ sess'[s] = Idle /\ placed # {}
             /\ w.op # "replace" /\ cart'[w.user] = NoItems
             => \A i \in Rows(w.user) : \E k \in placed :
                   /\ orders'[k].user = w.user
                   /\ orders'[k].items[i] = cart[w.user][i]]_vars

\* SPEC.md:446: one cart is of one restaurant, so an order is.
OrderOfOneRestaurant ==
    \A k \in Orders :
        orders[k] # NoOrder => RestaurantsIn(orders[k].items) = {orders[k].restaurant}
=============================================================================
