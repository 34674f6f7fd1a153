------------------------------ MODULE Pricing ------------------------------
(***************************************************************************)
(* What a customer is shown and what the order charges.  The cart, its     *)
(* validation, the coupon endpoint, the order of one restaurant and the    *)
(* orders of several each compute with the current menu: five copies of    *)
(* one calculation, between which menu, restaurant and coupon may change.  *)
(*                                                                         *)
(* Amounts are in paise.  The code computes with binary floats and rounds  *)
(* to two digits; a tie may go either way, here it goes up in every copy.  *)
(* How a cart is filled, and what overlapping requests do to it and to the *)
(* coupon's counter, is the subject of Checkout.                           *)
(***************************************************************************)
EXTENDS Integers, FiniteSets, Functions

CONSTANTS
    Dishes, Kitchens, KitchenOf,
    DishRows,       \* rows of menu_items
    KitchenRows,    \* rows of restaurants
    CouponRows,     \* rows of coupons
    Baskets,        \* carts: the quantity of each dish
    None            \* NULL, nothing shown, nothing ordered

DishRow    == [price : Nat, discounted : Nat \cup {None}, available : BOOLEAN]
KitchenRow == [fee : Nat, least : Nat, open : BOOLEAN]
CouponRow  == [active : BOOLEAN, dated : BOOLEAN, left : Nat \cup {None}, least : Nat,
               percent : BOOLEAN, value : Nat, most : Nat \cup {None}]

ASSUME PricingAssumption ==
    /\ IsFiniteSet(Dishes)
    /\ KitchenOf \in [Dishes -> Kitchens]
    /\ Baskets \subseteq [Dishes -> Nat]
    /\ DishRows \subseteq DishRow
    /\ KitchenRows \subseteq KitchenRow
    /\ CouponRows \subseteq CouponRow

VARIABLES
    dish, kitchen, coupon,
    basket,     \* the customer's cart
    quote,      \* what the customer was shown, None once anything has changed
    bills       \* the orders that the placement of the cart made

catalogue  == <<dish, kitchen, coupon>>
priceVars  == <<catalogue, basket, quote, bills>>

InBasket == {d \in Dishes : basket[d] > 0}
Involved == {KitchenOf[d] : d \in InBasket}
DishesOf(r) == {d \in InBasket : KitchenOf[d] = r}

-----------------------------------------------------------------------------
(* The calculation *)

\* A discounted price of 0 is a price.
EffectivePrice(row) == IF row.discounted # None THEN row.discounted ELSE row.price

ItemTotal(d) == EffectivePrice(dish[d]) * basket[d]
Total(ds) == SumFunction([d \in ds |-> ItemTotal(d)])

\* n / d, to the nearest integer.
Nearest(n, d) == (2 * n + d) \div (2 * d)

Smaller(a, b) == IF a < b THEN a ELSE b

\* Who may use the coupon for how much: dated tells if today is between its
\* dates, left how many uses there are or None for no limit.
CouponApplies(amount) ==
    /\ coupon.active /\ coupon.dated
    /\ coupon.left # 0
    /\ amount >= coupon.least

Discount(amount) ==
    LET share == Nearest(amount * coupon.value, 100)
        asked == IF ~coupon.percent THEN coupon.value
                 ELSE IF coupon.most = None THEN share
                 ELSE Smaller(share, coupon.most)
    IN  Smaller(asked, amount)

\* Mutant: the cart shows the fee of its first restaurant.
DeliveryFee_First ==
    IF Involved = {} THEN 0 ELSE kitchen[CHOOSE r \in Involved : TRUE].fee

\* The cart's delivery fee: each restaurant's once.
DeliveryFee == SumFunction([r \in Involved |-> kitchen[r].fee])

-----------------------------------------------------------------------------
(* What the customer is shown *)

CartTotal == Total(InBasket) + DeliveryFee

CartValid ==
    /\ \A d \in InBasket : dish[d].available
    /\ \A r \in Involved : kitchen[r].open

\* The answer of the coupon endpoint to the total of the cart's items.
CouponOffer ==
    IF CouponApplies(Total(InBasket)) THEN Discount(Total(InBasket)) ELSE 0

ShowCart ==
    /\ quote' = [grand |-> CartTotal, valid |-> CartValid, discount |-> CouponOffer]
    /\ UNCHANGED <<catalogue, basket, bills>>

-----------------------------------------------------------------------------
(* What the order charges *)

Bill(r, ds, discount) ==
    [kitchen |-> r, items |-> Total(ds), fee |-> kitchen[r].fee,
     discount |-> discount, total |-> Total(ds) + kitchen[r].fee - discount]

Placed(new) ==
    /\ \A b \in new : b.total >= kitchen[b.kitchen].least
    /\ bills' = new
    /\ basket' = [d \in Dishes |-> 0]
    /\ quote' = None
    /\ UNCHANGED <<dish, kitchen>>

\* Everything in the cart, in one order of the restaurant of its oldest row.
PlaceOrder(r, code) ==
    LET amount == Total(InBasket)
    IN  /\ r \in Involved /\ kitchen[r].open
        /\ \A d \in InBasket : dish[d].available
        /\ code => CouponApplies(amount)
        /\ Placed({Bill(r, InBasket, IF code THEN Discount(amount) ELSE 0)})
        /\ coupon' = IF code /\ coupon.left # None
                     THEN [coupon EXCEPT !.left = @ - 1] ELSE coupon

\* An order of each restaurant; a coupon's code is not looked at.
PlaceOrdersForCart ==
    /\ Cardinality(Involved) > 1
    /\ \A r \in Involved : kitchen[r].open
    /\ \A d \in InBasket : dish[d].available
    /\ Placed({Bill(r, DishesOf(r), 0) : r \in Involved})
    /\ UNCHANGED coupon

-----------------------------------------------------------------------------
(* What changes meanwhile *)

UpdateDish(d, row) ==
    /\ dish' = [dish EXCEPT ![d] = row]
    /\ quote' = None
    /\ UNCHANGED <<kitchen, coupon, basket, bills>>

UpdateKitchen(r, row) ==
    /\ kitchen' = [kitchen EXCEPT ![r] = row]
    /\ quote' = None
    /\ UNCHANGED <<dish, coupon, basket, bills>>

\* Other customers use the coupon.
UseCoupon ==
    /\ coupon.left \notin {0, None}
    /\ coupon' = [coupon EXCEPT !.left = @ - 1]
    /\ quote' = None
    /\ UNCHANGED <<dish, kitchen, basket, bills>>

FillBasket(b) ==
    /\ basket' = b
    /\ quote' = None /\ bills' = None
    /\ UNCHANGED catalogue

-----------------------------------------------------------------------------
(* The specification *)

PriceInit ==
    /\ dish \in [Dishes -> DishRows]
    /\ kitchen \in [Kitchens -> KitchenRows]
    /\ coupon \in CouponRows
    /\ basket = [d \in Dishes |-> 0]
    /\ quote = None /\ bills = None

PriceNext ==
    \/ ShowCart
    \/ \E r \in Kitchens, code \in BOOLEAN : PlaceOrder(r, code)
    \/ PlaceOrdersForCart
    \/ \E d \in Dishes, row \in DishRows : UpdateDish(d, row)
    \/ \E r \in Kitchens, row \in KitchenRows : UpdateKitchen(r, row)
    \/ UseCoupon
    \/ \E b \in Baskets : FillBasket(b)

PriceSpec == PriceInit /\ [][PriceNext]_priceVars

-----------------------------------------------------------------------------
(* Properties *)

\* If nothing has changed since the customer saw the cart, and the cart is not
\* put into one order though it is of several restaurants, then the cart was
\* valid, and the orders together charge the grand total less a discount that
\* is the one shown, or none (cart_service.py:280-282, coupons.py:84-93,
\* order_service.py:118-137 and 316-332).
ShownIsCharged ==
    [][LET discount == SumFunction([b \in bills' |-> b.discount])
           ordered  == {b.kitchen : b \in bills'}
       IN  quote # None /\ bills' \notin {bills, None} /\ ordered = Involved =>
             /\ quote.valid
             /\ discount \in {0, quote.discount}
             /\ SumFunction([b \in bills' |-> b.total]) = quote.grand - discount
      ]_priceVars

=============================================================================
