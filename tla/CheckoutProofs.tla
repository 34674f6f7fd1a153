--------------------------- MODULE CheckoutProofs ---------------------------
(***************************************************************************)
(* Proofs about Checkout for every set of users, items, restaurants and    *)
(* sessions: types, the coupon's counter, what a checkout may drop; and,   *)
(* for one session, that the counter is exact and that a checkout orders   *)
(* what it has read: all of the cart, and each restaurant its part.        *)
(***************************************************************************)
EXTENDS Checkout, FiniteSetTheorems, TLAPS

USE DEF db

-----------------------------------------------------------------------------
(* The inductive invariant *)

\* What a session is about to write agrees with the rows it rests on.
CountRight(w) ==
    /\ w.at # "commit" => w.count = 0 /\ w.new = {}
    /\ w.count > 0 =>
         /\ w.count <= MaxUses
         /\ w.count <= Cardinality(Discounted) + 1
         /\ \E o \in w.new : o.coupon

ReadRight(w) ==
    /\ w.held \subseteq Rows(w.user)
    /\ w.at \in {"group", "checkout"} => \A i \in w.held : w.read[i] > 0
    /\ w.at = "group" => w.held \cap w.del = {}
    /\ w.at = "commit" /\ w.new # {} =>
         \A i \in w.held \cap w.del : \E o \in w.new : o.items[i] > 0

Right(w) == w \in Work /\ CountRight(w) /\ ReadRight(w)

CheckoutInv ==
    /\ TypeOK
    /\ CouponNeverAhead
    /\ \A s \in Sessions : Busy(s) => Right(sess[s])

-----------------------------------------------------------------------------
(* Steps before the commit change one session and no row *)

Moves(s) ==
    /\ UNCHANGED <<cart, used, orders>>
    /\ \E x \in Work \cup {Idle} :
         /\ sess' = [sess EXCEPT ![s] = x]
         /\ x = Idle \/ Right(x)

\* An idle session is no work.
LEMMA IdleIsNoWork == Idle \notin Work
  BY DEF Idle, Work

LEMMA FreshWork ==
    ASSUME NEW op \in {"cart", "place", "replace"},
           NEW at \in {"fill", "group", "checkout", "commit"},
           NEW u \in Users
    PROVE  Fresh(op, at, u) \in Work
  BY DEF Fresh, Work, NoItems

LEMMA MaxUsesType == MaxUses \in Nat
  BY CheckoutAssumption

LEMMA DiscountedFinite == IsFiniteSet(Discounted) /\ Cardinality(Discounted) \in Nat
  <1>1. Discounted \subseteq Orders
    BY DEF Discounted
  <1>2. IsFiniteSet(Orders)
    BY CheckoutAssumption
  <1> QED
    BY <1>1, <1>2, FS_Subset, FS_CardinalityType

\* The requests that work on the cart.
LEMMA CartMoves ==
    ASSUME TypeOK, NEW s \in Sessions, NEW u \in Users, CartRequest(s, u)
    PROVE  Moves(s)
  <1>q. Quantities \subseteq Nat
    BY CheckoutAssumption
  <1>1. ASSUME NEW i \in Items, NEW n \in Quantities, AddItem(s, u, i, n)
        PROVE  Moves(s)
    <2> DEFINE x == [Fresh("cart", "commit", u) EXCEPT
                       !.held = {i} \cap Rows(u), !.ins = {i} \ Rows(u),
                       !.put[i] = cart[u][i] + n]
    <2>0. cart[u][i] + n \in Nat
      BY <1>q DEF TypeOK
    <2>1. x \in Work
      BY <2>0 DEF Work, Fresh, NoItems, Rows
    <2>2. Right(x)
      BY <2>1 DEF Right, CountRight, ReadRight, Fresh, NoItems
    <2> QED
      BY <1>1, <2>1, <2>2 DEF AddItem, Start, Moves
  <1>2. ASSUME NEW i \in Items, NEW n \in Quantities, UpdateQuantity(s, u, i, n)
        PROVE  Moves(s)
    <2> DEFINE x == [Fresh("cart", "commit", u) EXCEPT !.held = {i}, !.put[i] = n]
    <2>1. x \in Work
      BY <1>q DEF Work, Fresh, NoItems
    <2>2. i \in Rows(u)
      BY <1>2 DEF UpdateQuantity
    <2>3. Right(x)
      BY <2>1, <2>2 DEF Right, CountRight, ReadRight, Fresh, NoItems
    <2> QED
      BY <1>2, <2>1, <2>3 DEF UpdateQuantity, Start, Moves
  <1>3. ASSUME NEW i \in Items, RemoveItem(s, u, i)
        PROVE  Moves(s)
    <2> DEFINE x == [Fresh("cart", "commit", u) EXCEPT !.del = {i}]
    <2>1. x \in Work
      BY <1>3 DEF Work, Fresh, NoItems
    <2>2. Right(x)
      BY <2>1 DEF Right, CountRight, ReadRight, Fresh, NoItems
    <2> QED
      BY <1>3, <2>1, <2>2 DEF RemoveItem, Start, Moves
  <1>4. ASSUME ClearCart(s, u)
        PROVE  Moves(s)
    <2> DEFINE x == [Fresh("cart", "commit", u) EXCEPT !.del = Rows(u)]
    <2>1. x \in Work
      BY <1>4 DEF Work, Fresh, NoItems, Rows
    <2>2. Right(x)
      BY <2>1 DEF Right, CountRight, ReadRight, Fresh, NoItems
    <2> QED
      BY <1>4, <2>1, <2>2 DEF ClearCart, Start, Moves
  <1> QED
    BY <1>1, <1>2, <1>3, <1>4 DEF CartRequest

\* The requests that start a checkout.
LEMMA PlaceMoves ==
    ASSUME TypeOK, NEW s \in Sessions, NEW u \in Users, PlaceRequest(s, u)
    PROVE  Moves(s)
  <1>q. Quantities \subseteq Nat
    BY CheckoutAssumption
  <1>1. ASSUME NEW at \in {"group", "checkout"},
               Start(s, u, [Fresh("place", at, u) EXCEPT
                              !.held = Rows(u), !.read = cart[u]])
        PROVE  Moves(s)
    <2> DEFINE x == [Fresh("place", at, u) EXCEPT
                       !.held = Rows(u), !.read = cart[u]]
    <2>1. x \in Work
      BY DEF Work, Fresh, NoItems, Rows, TypeOK
    <2>2. Right(x)
      BY <2>1 DEF Right, CountRight, ReadRight, Fresh, NoItems, Rows
    <2> QED
      BY <1>1, <2>1, <2>2 DEF Start, Moves
  <1>2. ASSUME NEW list \in [Items -> Quantities \cup {0}], ReplaceCart(s, u, list)
        PROVE  Moves(s)
    <2> DEFINE x == [Fresh("replace", "fill", u) EXCEPT
                       !.del = Rows(u), !.read = list]
    <2>0. list \in [Items -> Nat]
      <3>1. Quantities \cup {0} \subseteq Nat
        BY <1>q
      <3> QED
        BY <3>1
    <2>1. x \in Work
      BY <2>0 DEF Work, Fresh, NoItems, Rows
    <2>2. Right(x)
      BY <2>1 DEF Right, CountRight, ReadRight, Fresh, NoItems
    <2> QED
      BY <1>2, <2>1, <2>2 DEF ReplaceCart, Start, Moves
  <1> QED
    BY <1>1, <1>2 DEF PlaceRequest, BeginPlace, BeginCreate

LEMMA VisibleType ==
    ASSUME NEW w \in Work, NEW c \in [Items -> Nat]
    PROVE  /\ Visible(w, c) \in [Items -> Nat]
           /\ \A i \in Items :
                /\ i \notin w.del /\ c[i] > 0 => Visible(w, c)[i] > 0
                /\ c[i] > 0 /\ Visible(w, c)[i] = 0 => i \in w.del
  BY DEF Visible, Work

LEMMA PartOfType ==
    ASSUME NEW c \in [Items -> Nat], NEW r \in Restaurants
    PROVE  PartOf(c, r) \in [Items -> Nat]
  BY DEF PartOf

LEMMA OrderOfType ==
    ASSUME NEW w \in Work, NEW r \in Restaurants, NEW items \in [Items -> Nat],
           NEW coupon \in BOOLEAN
    PROVE  /\ OrderOf(w, r, items, coupon) \in OrderRows
           /\ OrderOf(w, r, items, coupon).items = items
           /\ OrderOf(w, r, items, coupon).coupon = coupon
  BY DEF OrderOf, OrderRows, Work

LEMMA RestaurantsInType ==
    ASSUME NEW c \in [Items -> Nat]
    PROVE  /\ RestaurantsIn(c) \subseteq Restaurants
           /\ \A i \in Items : c[i] > 0 => RestaurantOf[i] \in RestaurantsIn(c)
  BY CheckoutAssumption DEF RestaurantsIn, Contents

\* The steps of a checkout before its commit.
LEMMA FillMoves ==
    ASSUME TypeOK, NEW s \in Sessions, Busy(s) => Right(sess[s]), FillCart(s)
    PROVE  Moves(s)
  <1> DEFINE w == sess[s]
             u == w.user
             list == Contents(w.read)
             there == Rows(u) \ w.del
             put == [i \in Items |->
                       IF i \notin list THEN 0
                       ELSE IF i \in there THEN cart[u][i] + w.read[i]
                       ELSE w.read[i]]
             filled == [w EXCEPT !.put = put, !.ins = list \ there]
             x == [filled EXCEPT !.at = "group", !.held = there,
                                 !.read = Visible(filled, cart[u])]
  <1>1. w \in Work /\ w.at = "fill" /\ Right(w)
    BY DEF FillCart, TypeOK, Busy, Right
  <1>2. cart[u] \in [Items -> Nat] /\ w.read \in [Items -> Nat]
    BY <1>1 DEF TypeOK, Work
  <1>3. put \in [Items -> Nat]
    BY <1>2
  <1>4. list \subseteq Items /\ there \subseteq Items
    BY DEF Contents, Rows
  <1> HIDE DEF put, list, there
  <1>5. filled \in Work
    BY <1>1, <1>3, <1>4 DEF Work
  <1>6. filled.del = w.del
    BY <1>1 DEF Work
  <1> HIDE DEF filled
  <1>7. Visible(filled, cart[u]) \in [Items -> Nat]
    BY <1>2, <1>5, VisibleType
  <1>8. \A i \in there : Visible(filled, cart[u])[i] > 0
    BY <1>2, <1>5, <1>6, VisibleType DEF there, Rows
  <1>9. x \in Work
    BY <1>4, <1>5, <1>7 DEF Work
  <1>10. /\ x.at = "group" /\ x.held = there /\ x.del = w.del /\ x.user = u
         /\ x.read = Visible(filled, cart[u])
         /\ x.count = w.count /\ x.new = w.new
    BY <1>1, <1>5 DEF Work, filled
  <1>11. Right(x)
    BY <1>1, <1>8, <1>9, <1>10 DEF Right, CountRight, ReadRight, there
  <1>12. sess' = [sess EXCEPT ![s] = x] /\ UNCHANGED <<cart, used, orders>>
    BY DEF FillCart, Continue, x, filled, put, there, list
  <1> QED
    BY <1>9, <1>11, <1>12 DEF Moves

LEMMA ReadAgainMoves ==
    ASSUME TypeOK, NEW s \in Sessions, Busy(s) => Right(sess[s]), ReadAgain(s)
    PROVE  Moves(s)
  <1> DEFINE w == sess[s]
             u == w.user
             c == Visible(w, cart[u])
             held == w.held \cup (Rows(u) \ w.del)
             read == [i \in Items |->
                        IF c[i] > 0 /\ i \in w.held THEN w.read[i] ELSE c[i]]
             x == [w EXCEPT !.at = "checkout", !.held = held, !.read = read]
  <1>1. w \in Work /\ w.at = "group" /\ Right(w)
    BY DEF ReadAgain, Continue, TypeOK, Busy, Right
  <1>2. cart[u] \in [Items -> Nat] /\ w.read \in [Items -> Nat]
        /\ w.held \subseteq Items
    BY <1>1 DEF TypeOK, Work
  <1>3. c \in [Items -> Nat]
    BY <1>1, <1>2, VisibleType
  <1>4. \A i \in held : c[i] > 0
    BY <1>1, <1>2, VisibleType DEF Right, ReadRight, Rows
  <1> HIDE DEF c
  <1>5. read \in [Items -> Nat]
    BY <1>2, <1>3
  <1>6. held \subseteq Items /\ held \subseteq Rows(u)
    BY <1>1, <1>2 DEF Rows, Right, ReadRight
  <1>7. \A i \in held : read[i] > 0
    BY <1>1, <1>4, <1>6 DEF Right, ReadRight
  <1> HIDE DEF held, read
  <1>8. x \in Work
    BY <1>1, <1>5, <1>6 DEF Work
  <1>9. /\ x.at = "checkout" /\ x.held = held /\ x.user = u /\ x.read = read
        /\ x.count = w.count /\ x.new = w.new
    BY <1>1 DEF Work
  <1>10. Right(x)
    BY <1>1, <1>6, <1>7, <1>8, <1>9 DEF Right, CountRight, ReadRight
  <1>11. sess' = [sess EXCEPT ![s] = x] /\ UNCHANGED <<cart, used, orders>>
    BY DEF ReadAgain, Continue, x, held, read, c
  <1> QED
    BY <1>8, <1>10, <1>11 DEF Moves

\* A session that is ready to commit orders is right if what it has read of
\* the rows it deletes is in them.
LEMMA ReadyIsRight ==
    ASSUME TypeOK, NEW w \in Work, ReadRight(w),
           NEW new \in SUBSET OrderRows, NEW count \in Nat,
           \A i \in w.held : \E o \in new : o.items[i] > 0,
           count > 0 => /\ count <= MaxUses
                        /\ count <= Cardinality(Discounted) + 1
                        /\ \E o \in new : o.coupon
    PROVE  Right([Cleared(w) EXCEPT !.new = new, !.count = count])
  <1> DEFINE x == [Cleared(w) EXCEPT !.new = new, !.count = count]
  <1>1. Cleared(w) \in Work
    BY DEF Cleared, Work, NoItems, Rows
  <1>2. x \in Work
    BY <1>1 DEF Work
  <1>3. /\ x.at = "commit" /\ x.held = w.held /\ x.user = w.user
        /\ x.new = new /\ x.count = count
    BY DEF Cleared, Work
  <1> QED
    BY <1>2, <1>3 DEF Right, CountRight, ReadRight

LEMMA PlaceOrderMoves ==
    ASSUME TypeOK, CouponNeverAhead, NEW s \in Sessions,
           Busy(s) => Right(sess[s]),
           NEW r \in Restaurants, NEW coupon \in BOOLEAN, PlaceOrder(s, r, coupon)
    PROVE  Moves(s)
  <1> DEFINE w == sess[s]
             o == OrderOf(w, r, w.read, coupon)
             count == IF coupon THEN used + 1 ELSE 0
             x == [Cleared(w) EXCEPT !.new = {o}, !.count = count]
  <1>1. w \in Work /\ w.at = "checkout" /\ Right(w)
    BY DEF PlaceOrder, Continue, TypeOK, Busy, Right
  <1>2. o \in OrderRows /\ o.items = w.read /\ o.coupon = coupon
    BY <1>1, OrderOfType DEF Work
  <1> HIDE DEF o
  <1>3. \A i \in w.held : \E d \in {o} : d.items[i] > 0
    BY <1>1, <1>2 DEF Right, ReadRight
  <1>4. count \in Nat
    BY DEF TypeOK
  <1>5. count > 0 => /\ count <= MaxUses
                     /\ count <= Cardinality(Discounted) + 1
                     /\ \E d \in {o} : d.coupon
    <2>1. coupon => used < MaxUses
      BY DEF PlaceOrder
    <2> QED
      BY <1>2, <2>1, MaxUsesType, DiscountedFinite DEF CouponNeverAhead, TypeOK
  <1> HIDE DEF count
  <1>6. Right(x)
    BY <1>1, <1>2, <1>3, <1>4, <1>5, ReadyIsRight DEF Right
  <1>7. sess' = [sess EXCEPT ![s] = x] /\ UNCHANGED <<cart, used, orders>>
    BY DEF PlaceOrder, Continue, x, o, count
  <1> QED
    BY <1>6, <1>7 DEF Moves, Right

LEMMA PlaceOrdersMoves ==
    ASSUME TypeOK, NEW s \in Sessions, Busy(s) => Right(sess[s]),
           PlaceOrdersForCart(s)
    PROVE  Moves(s)
  <1> DEFINE w == sess[s]
             new == {OrderOf(w, r, PartOf(w.read, r), FALSE) :
                        r \in RestaurantsIn(w.read)}
             x == [Cleared(w) EXCEPT !.new = new]
             y == [Cleared(w) EXCEPT !.new = new, !.count = 0]
  <1>1. w \in Work /\ w.at = "group" /\ Right(w)
    BY DEF PlaceOrdersForCart, Continue, TypeOK, Busy, Right
  <1>2. w.read \in [Items -> Nat] /\ w.held \subseteq Items
    BY <1>1 DEF Work
  <1>3. new \subseteq OrderRows
    <2> SUFFICES ASSUME NEW r \in RestaurantsIn(w.read)
                 PROVE  OrderOf(w, r, PartOf(w.read, r), FALSE) \in OrderRows
      OBVIOUS
    <2>1. r \in Restaurants
      BY <1>2, RestaurantsInType
    <2> QED
      BY <1>1, <1>2, <2>1, PartOfType, OrderOfType
  <1>4. \A i \in w.held : \E o \in new : o.items[i] > 0
    <2> TAKE i \in w.held
    <2> DEFINE r == RestaurantOf[i]
    <2>1. w.read[i] > 0 /\ r \in RestaurantsIn(w.read) /\ r \in Restaurants
      BY <1>1, <1>2, RestaurantsInType DEF Right, ReadRight
    <2>2. PartOf(w.read, r)[i] = w.read[i]
      BY <1>2 DEF PartOf
    <2>3. OrderOf(w, r, PartOf(w.read, r), FALSE).items = PartOf(w.read, r)
      BY <1>1, <1>2, <2>1, PartOfType, OrderOfType
    <2>4. OrderOf(w, r, PartOf(w.read, r), FALSE) \in new
      BY <2>1
    <2> HIDE DEF new, r
    <2> QED
      BY <2>1, <2>2, <2>3, <2>4
  <1> HIDE DEF new
  <1>5. Right(y)
    <2>1. new \in SUBSET OrderRows /\ ReadRight(w) /\ 0 \in Nat
      BY <1>1, <1>3 DEF Right
    <2>2. 0 > 0 => /\ 0 <= MaxUses
                   /\ 0 <= Cardinality(Discounted) + 1
                   /\ \E o \in new : o.coupon
      OBVIOUS
    <2> QED
      BY <1>1, <1>4, <2>1, <2>2, ReadyIsRight
  <1>6. x = y
    <2>1. w.count = 0
      BY <1>1 DEF Right, CountRight
    <2> DEFINE c == Cleared(w)
    <2>2. c \in Work /\ c.count = 0
      BY <1>1, <2>1 DEF Cleared, Work, NoItems, Rows
    <2> HIDE DEF c
    <2>3. [c EXCEPT !.new = new] = [c EXCEPT !.new = new, !.count = 0]
      BY <2>2 DEF Work
    <2> QED
      BY <2>3 DEF c
  <1>7. sess' = [sess EXCEPT ![s] = x] /\ UNCHANGED <<cart, used, orders>>
    BY DEF PlaceOrdersForCart, Continue, x, new
  <1> QED
    BY <1>5, <1>6, <1>7 DEF Moves, Right

LEMMA RefuseMoves ==
    ASSUME TypeOK, NEW s \in Sessions, Busy(s) => Right(sess[s]),
           NEW made \in SUBSET Restaurants, Refuse(s, made)
    PROVE  Moves(s)
  <1> DEFINE w == sess[s]
             new == {OrderOf(w, r, PartOf(w.read, r), FALSE) : r \in made}
             x == [w EXCEPT !.at = "commit", !.read = NoItems, !.new = new]
  <1>1. w \in Work /\ w.at \in {"group", "checkout"} /\ Right(w)
    BY DEF Refuse, Continue, TypeOK, Busy, Right
  <1>2. new \subseteq OrderRows
    <2> SUFFICES ASSUME NEW r \in made
                 PROVE  OrderOf(w, r, PartOf(w.read, r), FALSE) \in OrderRows
      OBVIOUS
    <2>1. w.read \in [Items -> Nat]
      BY <1>1 DEF Work
    <2> QED
      BY <1>1, <2>1, PartOfType, OrderOfType
  <1>3. new # {} => w.at = "group"
    BY DEF Refuse
  <1> HIDE DEF new
  <1>4. x \in Work
    BY <1>1, <1>2 DEF Work, NoItems
  <1>5. /\ x.at = "commit" /\ x.held = w.held /\ x.del = w.del
        /\ x.user = w.user /\ x.count = w.count /\ x.new = new
    BY <1>1 DEF Work
  <1>6. w.count = 0
    BY <1>1 DEF Right, CountRight
  <1>7. Right(x)
    BY <1>1, <1>3, <1>4, <1>5, <1>6 DEF Right, CountRight, ReadRight
  <1>8. sess' = [sess EXCEPT ![s] = x] /\ UNCHANGED <<cart, used, orders>>
    BY DEF Refuse, Continue, x, new
  <1> QED
    BY <1>4, <1>7, <1>8 DEF Moves

\* Every step is of one session, and moves it unless it is a commit.
LEMMA NextKinds ==
    ASSUME CheckoutInv, Next
    PROVE  \E s \in Sessions : Moves(s) \/ Commit(s)
  <1>1. PICK s \in Sessions :
          \/ \E u \in Users : CartRequest(s, u) \/ PlaceRequest(s, u)
          \/ Checkout(s)
          \/ Commit(s)
          \/ Fail(s)
    BY DEF Next
  <1>2. TypeOK /\ CouponNeverAhead /\ (Busy(s) => Right(sess[s]))
    BY DEF CheckoutInv
  <1>3. CASE \E u \in Users : CartRequest(s, u) \/ PlaceRequest(s, u)
    BY <1>2, <1>3, CartMoves, PlaceMoves
  <1>4. CASE Checkout(s)
    BY <1>2, <1>4, FillMoves, ReadAgainMoves, PlaceOrderMoves, PlaceOrdersMoves,
       RefuseMoves DEF Checkout
  <1>5. CASE Fail(s)
    BY <1>5 DEF Fail, Moves
  <1> QED
    BY <1>1, <1>3, <1>4, <1>5

-----------------------------------------------------------------------------
(* The commit *)

\* What a commit does, spelled out.
CommitFacts(s) ==
    LET w == sess[s]
        u == w.user
    IN  /\ w \in Work /\ w.at = "commit" /\ Right(w)
        /\ cart' = [cart EXCEPT ![u] = Visible(w, cart[u])]
        /\ used' = IF w.count > 0 THEN w.count ELSE used
        /\ \A k \in Orders : orders[k] # NoOrder => orders'[k] = orders[k]
        /\ \A k \in Orders : orders'[k] # orders[k] =>
              orders[k] = NoOrder /\ orders'[k] \in w.new
        /\ \A o \in w.new : \E k \in Orders :
              orders[k] = NoOrder /\ orders'[k] = o
        /\ \A k, l \in Orders :
              /\ orders'[k] # orders[k] /\ orders'[l] # orders[l]
              /\ orders'[k] = orders'[l]
              => k = l
        /\ sess' = [Forget(u, w.del) EXCEPT ![s] = Idle]

LEMMA CommitDoes ==
    ASSUME CheckoutInv, NEW s \in Sessions, Commit(s)
    PROVE  /\ CommitFacts(s)
           /\ orders' \in [Orders -> OrderRows \cup {NoOrder}]
  <1> DEFINE w == sess[s]
  <1>1. w \in Work /\ w.at = "commit" /\ Right(w)
    BY DEF Commit, CheckoutInv, TypeOK, Busy, Right
  <1>2a. PICK ids \in SUBSET Free : \E f \in Bijection(ids, w.new) :
          orders' = [k \in Orders |-> IF k \in ids THEN f[k] ELSE orders[k]]
    BY DEF Commit
  <1>2. PICK f \in Bijection(ids, w.new) :
          orders' = [k \in Orders |-> IF k \in ids THEN f[k] ELSE orders[k]]
    BY <1>2a
  <1>3. /\ f \in [ids -> w.new]
        /\ \A o \in w.new : \E k \in ids : f[k] = o
    BY DEF Bijection, Surjection
  <1>4. \A k \in ids : k \in Orders /\ orders[k] = NoOrder
    BY DEF Free
  <1>5. w.new \subseteq OrderRows
    BY <1>1 DEF Work
  <1>6. orders \in [Orders -> OrderRows \cup {NoOrder}]
    BY DEF CheckoutInv, TypeOK
  <1>7. orders' \in [Orders -> OrderRows \cup {NoOrder}]
    BY <1>2, <1>3, <1>5, <1>6
  <1>8. \A k \in Orders : orders[k] # NoOrder => orders'[k] = orders[k]
    BY <1>2, <1>4
  <1>9. \A k \in Orders : orders'[k] # orders[k] =>
              orders[k] = NoOrder /\ orders'[k] \in w.new
    BY <1>2, <1>3, <1>4
  <1>10. \A o \in w.new : \E k \in Orders :
              orders[k] = NoOrder /\ orders'[k] = o
    BY <1>2, <1>3, <1>4
  <1>10a. \A k, l \in Orders :
              /\ orders'[k] # orders[k] /\ orders'[l] # orders[l]
              /\ orders'[k] = orders'[l]
              => k = l
    <2>1. \A k, l \in ids : f[k] = f[l] => k = l
      BY DEF Bijection, Injection, IsInjective
    <2> QED
      BY <1>2, <2>1
  <1>11. /\ cart' = [cart EXCEPT ![w.user] = Visible(w, cart[w.user])]
         /\ used' = IF w.count > 0 THEN w.count ELSE used
         /\ sess' = [Forget(w.user, w.del) EXCEPT ![s] = Idle]
    BY DEF Commit
  <1> QED
    BY <1>1, <1>7, <1>8, <1>9, <1>10, <1>10a, <1>11 DEF CommitFacts

LEMMA NoOrderIsNoRow == NoOrder \notin OrderRows
  BY CheckoutAssumption

\* A commit only adds to the orders with a discount.
LEMMA DiscountedGrows ==
    ASSUME CheckoutInv, NEW s \in Sessions, CommitFacts(s)
    PROVE  /\ Discounted \subseteq Discounted'
           /\ IsFiniteSet(Discounted') /\ Cardinality(Discounted') \in Nat
           /\ Cardinality(Discounted) <= Cardinality(Discounted')
           /\ (\E o \in sess[s].new : o.coupon)
                => Cardinality(Discounted) + 1 <= Cardinality(Discounted')
  <1>1. Discounted \subseteq Discounted'
    BY DEF CommitFacts, Discounted
  <1>2. IsFiniteSet(Discounted')
    <2>1. Discounted' \subseteq Orders
      BY DEF Discounted
    <2> QED
      BY <2>1, CheckoutAssumption, FS_Subset
  <1>3. /\ Cardinality(Discounted') \in Nat
        /\ Cardinality(Discounted) <= Cardinality(Discounted')
    BY <1>1, <1>2, FS_Subset, FS_CardinalityType
  <1>4. ASSUME NEW o \in sess[s].new, o.coupon
        PROVE  Cardinality(Discounted) + 1 <= Cardinality(Discounted')
    <2>1. PICK k \in Orders : orders[k] = NoOrder /\ orders'[k] = o
      BY DEF CommitFacts
    <2>2. o \in OrderRows
      BY DEF CommitFacts, Work
    <2>3. k \in Discounted' /\ k \notin Discounted
      BY <1>4, <2>1, <2>2, NoOrderIsNoRow DEF Discounted
    <2>4. /\ IsFiniteSet(Discounted \cup {k})
          /\ Cardinality(Discounted \cup {k}) = Cardinality(Discounted) + 1
      BY <2>3, DiscountedFinite, FS_AddElement
    <2>5. Discounted \cup {k} \subseteq Discounted'
      BY <1>1, <2>3
    <2> QED
      BY <1>2, <2>4, <2>5, FS_Subset
  <1> QED
    BY <1>1, <1>2, <1>3, <1>4

\* The sessions that a commit leaves in flight forget rows and nothing else.
LEMMA OthersForget ==
    ASSUME CheckoutInv, NEW s \in Sessions, CommitFacts(s)
    PROVE  /\ sess'[s] = Idle
           /\ \A t \in Sessions \ {s} :
                /\ ~Busy(t) => sess'[t] = Idle
                /\ Busy(t) =>
                     /\ sess[t] \in Work
                     /\ sess'[t] \in Work
                     /\ sess'[t].user = sess[t].user
                     /\ sess'[t].at = sess[t].at
                     /\ sess'[t].read = sess[t].read
                     /\ sess'[t].new = sess[t].new
                     /\ sess'[t].count = sess[t].count
                     /\ sess'[t].held \subseteq sess[t].held
                     /\ sess'[t].del \subseteq sess[t].del
                     /\ sess[t].user = sess[s].user =>
                          sess'[t].held \cap sess[s].del = {}
           /\ sess' \in [Sessions -> Work \cup {Idle}]
  <1> DEFINE u == sess[s].user
             del == sess[s].del
  <1>1. /\ sess' = [Forget(u, del) EXCEPT ![s] = Idle]
        /\ sess \in [Sessions -> Work \cup {Idle}]
    BY DEF CommitFacts, CheckoutInv, TypeOK
  <1>2. sess'[s] = Idle
    BY <1>1 DEF Forget
  <1>3. \A t \in Sessions \ {s} :
          sess'[t] = IF Busy(t) /\ sess[t].user = u
                     THEN [sess[t] EXCEPT !.held = sess[t].held \ del,
                                          !.del = sess[t].del \ del]
                     ELSE sess[t]
    BY <1>1 DEF Forget
  <1> HIDE DEF u, del
  <1>4. ASSUME NEW t \in Sessions \ {s}
        PROVE  /\ ~Busy(t) => sess'[t] = Idle
               /\ Busy(t) =>
                     /\ sess[t] \in Work
                     /\ sess'[t] \in Work
                     /\ sess'[t].user = sess[t].user
                     /\ sess'[t].at = sess[t].at
                     /\ sess'[t].read = sess[t].read
                     /\ sess'[t].new = sess[t].new
                     /\ sess'[t].count = sess[t].count
                     /\ sess'[t].held \subseteq sess[t].held
                     /\ sess'[t].del \subseteq sess[t].del
                     /\ sess[t].user = u => sess'[t].held \cap del = {}
    <2>1. CASE ~Busy(t)
      BY <1>3, <2>1 DEF Busy
    <2>2. CASE Busy(t)
      <3>1. sess[t] \in Work
        BY <1>1, <2>2 DEF Busy
      <3>2. CASE sess[t].user = u
        <4>1. sess'[t] = [sess[t] EXCEPT !.held = sess[t].held \ del,
                                         !.del = sess[t].del \ del]
          BY <1>3, <2>2, <3>2
        <4> QED
          BY <2>2, <3>1, <4>1 DEF Work
      <3>3. CASE sess[t].user # u
        BY <1>3, <2>2, <3>1, <3>3
      <3> QED
        BY <3>2, <3>3
    <2> QED
      BY <2>1, <2>2
  <1>5. sess' \in [Sessions -> Work \cup {Idle}]
    <2>1. \A t \in Sessions : sess'[t] \in Work \cup {Idle}
      BY <1>2, <1>4
    <2>2. sess' = [t \in Sessions |-> sess'[t]]
      BY <1>1 DEF Forget
    <2> QED
      BY <2>1, <2>2
  <1> QED
    BY <1>2, <1>4, <1>5 DEF u, del

LEMMA CommitKeepsTypes ==
    ASSUME CheckoutInv, NEW s \in Sessions, CommitFacts(s),
           orders' \in [Orders -> OrderRows \cup {NoOrder}]
    PROVE  TypeOK'
  <1>1. cart' \in [Users -> [Items -> Nat]]
    <2> DEFINE w == sess[s]
    <2>1. w \in Work /\ w.user \in Users
      BY DEF CommitFacts, Work
    <2>2. cart \in [Users -> [Items -> Nat]]
      BY DEF CheckoutInv, TypeOK
    <2>3. Visible(w, cart[w.user]) \in [Items -> Nat]
      BY <2>1, <2>2, VisibleType
    <2> QED
      BY <2>2, <2>3 DEF CommitFacts
  <1>2. used' \in Nat
    BY DEF CommitFacts, Work, CheckoutInv, TypeOK
  <1> QED
    BY <1>1, <1>2, OthersForget DEF TypeOK

LEMMA CommitKeepsCoupon ==
    ASSUME CheckoutInv, NEW s \in Sessions, CommitFacts(s)
    PROVE  CouponNeverAhead'
  <1> DEFINE w == sess[s]
  <1>1. /\ w \in Work /\ CountRight(w) /\ used \in Nat
        /\ used' = IF w.count > 0 THEN w.count ELSE used
        /\ used <= Cardinality(Discounted) /\ used <= MaxUses
    <2>1. /\ w \in Work /\ CountRight(w)
          /\ used' = IF w.count > 0 THEN w.count ELSE used
      BY DEF CommitFacts, Right
    <2>2. used \in Nat /\ used <= Cardinality(Discounted) /\ used <= MaxUses
      BY DEF CheckoutInv, TypeOK, CouponNeverAhead
    <2> QED
      BY <2>1, <2>2
  <1>2. w.count \in Nat
    BY <1>1 DEF Work
  <1>2a. /\ Cardinality(Discounted) \in Nat /\ Cardinality(Discounted') \in Nat
         /\ Cardinality(Discounted) <= Cardinality(Discounted')
         /\ (\E o \in w.new : o.coupon)
              => Cardinality(Discounted) + 1 <= Cardinality(Discounted')
    BY DiscountedGrows, DiscountedFinite
  <1>3. CASE w.count > 0
    <2>1. /\ w.count <= MaxUses
          /\ w.count <= Cardinality(Discounted) + 1
          /\ \E o \in w.new : o.coupon
      BY <1>1, <1>3 DEF CountRight
    <2> QED
      BY <1>1, <1>2, <1>2a, <1>3, <2>1, MaxUsesType DEF CouponNeverAhead
  <1>4. CASE w.count = 0
    BY <1>1, <1>2a, <1>4, MaxUsesType DEF CouponNeverAhead
  <1> QED
    BY <1>2, <1>3, <1>4

\* A row that another session still holds is still there.
LEMMA HeldStay ==
    ASSUME CheckoutInv, NEW s \in Sessions, CommitFacts(s),
           NEW t \in Sessions \ {s}, Busy(t)
    PROVE  \A i \in sess'[t].held : i \in Items /\ cart'[sess[t].user][i] > 0
  <1> DEFINE w == sess[s]
             v == sess[t]
  <1>1. /\ w \in Work /\ v \in Work /\ v.held \subseteq Rows(v.user)
        /\ cart \in [Users -> [Items -> Nat]]
        /\ cart' = [cart EXCEPT ![w.user] = Visible(w, cart[w.user])]
    BY OthersForget DEF CommitFacts, CheckoutInv, TypeOK, Right, ReadRight
  <1>2. /\ sess'[t].held \subseteq v.held
        /\ v.user = w.user => sess'[t].held \cap w.del = {}
    BY OthersForget
  <1>3. w.user \in Users /\ v.user \in Users
    BY <1>1 DEF Work
  <1>4. CASE v.user = w.user
    <2> SUFFICES ASSUME NEW i \in sess'[t].held
                 PROVE  i \in Items /\ cart'[w.user][i] > 0
      BY <1>4
    <2>1. i \in Items /\ cart[w.user][i] > 0 /\ i \notin w.del
      BY <1>1, <1>2, <1>4 DEF Rows
    <2>2. Visible(w, cart[w.user])[i] > 0
      BY <1>1, <1>3, <2>1, VisibleType
    <2> QED
      BY <1>1, <1>3, <2>1, <2>2
  <1>5. CASE v.user # w.user
    BY <1>1, <1>2, <1>3, <1>5 DEF Rows
  <1> QED
    BY <1>4, <1>5

LEMMA CommitKeepsSessions ==
    ASSUME CheckoutInv, NEW s \in Sessions, CommitFacts(s),
           NEW t \in Sessions, Busy(t)'
    PROVE  Right(sess[t])'
  <1>1. t # s /\ Busy(t)
    BY OthersForget DEF Busy
  <1> DEFINE v == sess[t]
             x == sess'[t]
  <1>2. /\ v \in Work /\ x \in Work
        /\ x.user = v.user /\ x.at = v.at /\ x.read = v.read
        /\ x.new = v.new /\ x.count = v.count
        /\ x.held \subseteq v.held /\ x.del \subseteq v.del
    BY <1>1, OthersForget
  <1>3. CountRight(v) /\ ReadRight(v)
    BY <1>1 DEF CheckoutInv, Right
  <1>4. \A i \in x.held : i \in Items /\ cart'[x.user][i] > 0
    BY <1>1, <1>2, HeldStay
  <1>5. Cardinality(Discounted) <= Cardinality(Discounted')
        /\ Cardinality(Discounted') \in Nat
    BY DiscountedGrows
  <1>6. CountRight(v)'
    BY <1>2, <1>3, <1>5, DiscountedFinite DEF CountRight, Work
  <1>7. ReadRight(v)'
    BY <1>2, <1>3, <1>4 DEF ReadRight, Rows
  <1> QED
    BY <1>2, <1>6, <1>7 DEF Right

-----------------------------------------------------------------------------
(* The theorems *)

LEMMA InitInv == Init => CheckoutInv
  <1> SUFFICES ASSUME Init PROVE CheckoutInv
    OBVIOUS
  <1>1. TypeOK
    BY DEF Init, TypeOK, NoItems
  <1>2. CouponNeverAhead
    BY DiscountedFinite, MaxUsesType DEF Init, CouponNeverAhead
  <1> QED
    BY <1>1, <1>2 DEF Init, CheckoutInv, Busy

LEMMA MoveKeepsInv ==
    ASSUME CheckoutInv, NEW s \in Sessions, Moves(s)
    PROVE  CheckoutInv'
  <1>1. PICK x \in Work \cup {Idle} :
          sess' = [sess EXCEPT ![s] = x] /\ (x = Idle \/ Right(x))
    BY DEF Moves
  <1>2. cart' = cart /\ used' = used /\ orders' = orders
    BY DEF Moves
  <1>3. TypeOK'
    BY <1>1, <1>2 DEF CheckoutInv, TypeOK
  <1>4. CouponNeverAhead'
    BY <1>2 DEF CheckoutInv, CouponNeverAhead, Discounted
  <1>5. ASSUME NEW t \in Sessions, Busy(t)'
        PROVE  Right(sess[t])'
    <2>1. Right(sess'[t])
      BY <1>1, <1>5 DEF CheckoutInv, TypeOK, Busy
    <2> QED
      BY <1>2, <2>1 DEF Right, CountRight, ReadRight, Rows, Discounted
  <1> QED
    BY <1>3, <1>4, <1>5 DEF CheckoutInv

LEMMA NextKeepsInv == CheckoutInv /\ [Next]_vars => CheckoutInv'
  <1>1. ASSUME CheckoutInv, Next PROVE CheckoutInv'
    <2>1. PICK s \in Sessions : Moves(s) \/ Commit(s)
      BY <1>1, NextKinds
    <2>2. CASE Moves(s)
      BY <1>1, <2>2, MoveKeepsInv
    <2>3. CASE Commit(s)
      BY <1>1, <2>3, CommitDoes, CommitKeepsTypes, CommitKeepsCoupon,
         CommitKeepsSessions DEF CheckoutInv
    <2> QED
      BY <2>1, <2>2, <2>3
  <1>2. ASSUME CheckoutInv, UNCHANGED vars PROVE CheckoutInv'
    BY <1>2 DEF CheckoutInv, vars, TypeOK, CouponNeverAhead, Discounted, Busy,
       Right, CountRight, ReadRight, Rows
  <1> QED
    BY <1>1, <1>2

\* The inductive invariant: what every session in flight is about to write rests
\* on rows that are there.
THEOREM CheckoutInvariant == Spec => []CheckoutInv
  BY InitInv, NextKeepsInv, PTL DEF Spec

\* Rows, orders and sessions keep their types.
THEOREM CheckoutTypeCorrect == Spec => []TypeOK
  BY CheckoutInvariant, PTL DEF CheckoutInv

\* The coupon's counter is never ahead of the discounted orders, nor of the
\* maximum, however the checkouts of any number of users overlap.
THEOREM CouponNotAhead == Spec => []CouponNeverAhead
  BY CheckoutInvariant, PTL DEF CheckoutInv

LEMMA CommitDropsNothingRead ==
    ASSUME CheckoutInv, NEW s \in Sessions, Commit(s),
           NEW i \in sess[s].held \cap Rows(sess[s].user), NEW j \in Orders,
           orders'[j] # orders[j], ~(cart'[sess[s].user][i] > 0)
    PROVE  \E k \in Orders : orders'[k] # orders[k] /\ orders'[k].items[i] > 0
  <1> DEFINE w == sess[s]
  <1>1. CommitFacts(s)
    BY CommitDoes
  <1>2. /\ w \in Work /\ w.at = "commit" /\ ReadRight(w)
        /\ cart \in [Users -> [Items -> Nat]]
        /\ cart' = [cart EXCEPT ![w.user] = Visible(w, cart[w.user])]
    BY <1>1 DEF CommitFacts, Right, CheckoutInv, TypeOK
  <1>3. w.user \in Users /\ i \in Items /\ cart[w.user][i] > 0
    BY <1>2 DEF Work, Rows
  <1>4. /\ Visible(w, cart[w.user]) \in [Items -> Nat]
        /\ cart[w.user][i] > 0 /\ Visible(w, cart[w.user])[i] = 0 => i \in w.del
    BY <1>2, <1>3, VisibleType
  <1>5. i \in w.del
    BY <1>2, <1>3, <1>4
  <1>6. w.new # {}
    BY <1>1 DEF CommitFacts
  <1>7. PICK o \in w.new : o.items[i] > 0
    BY <1>2, <1>5, <1>6 DEF ReadRight
  <1>8. PICK k \in Orders : orders[k] = NoOrder /\ orders'[k] = o
    BY <1>1 DEF CommitFacts
  <1>9. o # NoOrder
    BY <1>2, NoOrderIsNoRow DEF Work
  <1> QED
    BY <1>7, <1>8, <1>9

LEMMA StepDropsNothingRead ==
    ASSUME CheckoutInv, [Next]_vars,
           NEW s \in Sessions, Busy(s), sess'[s] = Idle,
           NEW j \in Orders, orders'[j] # orders[j],
           NEW i \in sess[s].held \cap Rows(sess[s].user),
           ~(cart'[sess[s].user][i] > 0)
    PROVE  \E k \in Orders : orders'[k] # orders[k] /\ orders'[k].items[i] > 0
  <1>1. Next
    BY DEF vars
  <1>2. PICK t \in Sessions : Moves(t) \/ Commit(t)
    BY <1>1, NextKinds
  <1>3. Commit(t)
    BY <1>2 DEF Moves
  <1>4. s = t
    <2> SUFFICES ASSUME s # t PROVE FALSE
      OBVIOUS
    <2>1. sess'[s] \in Work
      BY <1>3, CommitDoes, OthersForget
    <2> QED
      BY <2>1, IdleIsNoWork
  <1> QED
    BY <1>3, <1>4, CommitDropsNothingRead

\* A row that a checkout has read and deletes is in one of its orders.
THEOREM NothingReadDropped == Spec => NothingReadIsDropped
  <1> DEFINE A == \A s \in Sessions :
                    LET w == sess[s]
                        placed == {k \in Orders : orders'[k] # orders[k]}
                    IN  Busy(s) /\ sess'[s] = Idle /\ placed # {}
                        => \A i \in w.held \cap Rows(w.user) :
                              \/ cart'[w.user][i] > 0
                              \/ \E k \in placed : orders'[k].items[i] > 0
  <1>1. ASSUME CheckoutInv, [Next]_vars PROVE A
    BY <1>1, StepDropsNothingRead
  <1>2. CheckoutInv /\ [Next]_vars => [A]_vars
    BY <1>1
  <1> HIDE DEF A
  <1>3. Spec => [][A]_vars
    BY <1>2, CheckoutInvariant, PTL DEF Spec
  <1> QED
    BY <1>3 DEF A, NothingReadIsDropped

-----------------------------------------------------------------------------
(* One session *)

\* What the only session is about to write counts exactly its own order.
CountFresh(w) ==
    /\ w.count = 0 => \A o \in w.new : ~o.coupon
    /\ w.count > 0 => /\ w.count = used + 1
                      /\ \E o \in OrderRows : w.new = {o} /\ o.coupon

SerialInv ==
    /\ CheckoutInv
    /\ CouponExact
    /\ \A s \in Sessions : Busy(s) => CountFresh(sess[s])

LEMMA SessionStepsCount ==
    ASSUME CheckoutInv, NEW s \in Sessions,
           \/ \E u \in Users : CartRequest(s, u) \/ PlaceRequest(s, u)
           \/ Checkout(s)
           \/ Fail(s)
    PROVE  sess'[s] # Idle => CountFresh(sess'[s])
  <1> DEFINE w == sess[s]
  <1>0. sess \in [Sessions -> Work \cup {Idle}]
    BY DEF CheckoutInv, TypeOK
  <1>w. ASSUME Busy(s), w.at # "commit"
        PROVE  w \in Work /\ w.count = 0 /\ w.new = {}
    BY <1>w DEF CheckoutInv, Right, CountRight
  <1>1. CASE \E u \in Users : CartRequest(s, u)
    <2>1. ASSUME NEW u \in Users, NEW x, Start(s, u, x), x.count = 0, x.new = {}
          PROVE  CountFresh(sess'[s])
      BY <1>0, <2>1 DEF Start, CountFresh
    <2>2. ASSUME NEW u \in Users, NEW i \in Items, NEW n \in Quantities,
                 AddItem(s, u, i, n)
          PROVE  CountFresh(sess'[s])
      <3> DEFINE x == [Fresh("cart", "commit", u) EXCEPT
                         !.held = {i} \cap Rows(u), !.ins = {i} \ Rows(u),
                         !.put[i] = cart[u][i] + n]
      <3>1. x.count = 0 /\ x.new = {}
        BY DEF Fresh
      <3>2. Start(s, u, x)
        BY <2>2 DEF AddItem
      <3> QED
        BY <2>1, <3>1, <3>2
    <2>3. ASSUME NEW u \in Users, NEW i \in Items, NEW n \in Quantities,
                 UpdateQuantity(s, u, i, n)
          PROVE  CountFresh(sess'[s])
      <3> DEFINE x == [Fresh("cart", "commit", u) EXCEPT !.held = {i}, !.put[i] = n]
      <3>1. x.count = 0 /\ x.new = {}
        BY DEF Fresh
      <3>2. Start(s, u, x)
        BY <2>3 DEF UpdateQuantity
      <3> QED
        BY <2>1, <3>1, <3>2
    <2>4. ASSUME NEW u \in Users, NEW i \in Items, RemoveItem(s, u, i)
          PROVE  CountFresh(sess'[s])
      <3> DEFINE x == [Fresh("cart", "commit", u) EXCEPT !.del = {i}]
      <3>1. x.count = 0 /\ x.new = {}
        BY DEF Fresh
      <3>2. Start(s, u, x)
        BY <2>4 DEF RemoveItem
      <3> QED
        BY <2>1, <3>1, <3>2
    <2>5. ASSUME NEW u \in Users, ClearCart(s, u)
          PROVE  CountFresh(sess'[s])
      <3> DEFINE x == [Fresh("cart", "commit", u) EXCEPT !.del = Rows(u)]
      <3>1. x.count = 0 /\ x.new = {}
        BY DEF Fresh
      <3>2. Start(s, u, x)
        BY <2>5 DEF ClearCart
      <3> QED
        BY <2>1, <3>1, <3>2
    <2> QED
      BY <1>1, <2>2, <2>3, <2>4, <2>5 DEF CartRequest
  <1>2. CASE \E u \in Users : PlaceRequest(s, u)
    <2>1. sess'[s].count = 0 /\ sess'[s].new = {}
      BY <1>0, <1>2 DEF PlaceRequest, BeginPlace, BeginCreate, ReplaceCart, Start,
         Fresh
    <2> QED
      BY <2>1 DEF CountFresh
  <1>3. CASE FillCart(s) \/ ReadAgain(s)
    <2>1. w \in Work /\ w.count = 0 /\ w.new = {}
      BY <1>3, <1>w DEF FillCart, ReadAgain, Continue
    <2>2. ASSUME NEW at, NEW x, Continue(s, at, x), x.count = 0, x.new = {}
          PROVE  CountFresh(sess'[s])
      BY <1>0, <2>2 DEF Continue, CountFresh
    <2>3. CASE FillCart(s)
      <3> DEFINE list == Contents(w.read)
                 there == Rows(w.user) \ w.del
                 put == [i \in Items |->
                           IF i \notin list THEN 0
                           ELSE IF i \in there THEN cart[w.user][i] + w.read[i]
                           ELSE w.read[i]]
                 filled == [w EXCEPT !.put = put, !.ins = list \ there]
                 x == [filled EXCEPT !.at = "group", !.held = there,
                                     !.read = Visible(filled, cart[w.user])]
      <3>1. Continue(s, "fill", x)
        BY <2>3 DEF FillCart
      <3>2. filled.count = 0 /\ filled.new = {} /\ DOMAIN filled = DOMAIN w
        BY <2>1 DEF Work
      <3>3. DOMAIN w = {"op", "at", "user", "held", "del", "put", "ins", "read",
                        "new", "count"}
        BY <2>1 DEF Work
      <3> HIDE DEF filled
      <3>4. x.count = 0 /\ x.new = {}
        BY <3>2, <3>3
      <3> HIDE DEF x
      <3> QED
        BY <2>2, <3>1, <3>4
    <2>4. CASE ReadAgain(s)
      <3> DEFINE c == Visible(w, cart[w.user])
                 read == [i \in Items |->
                            IF c[i] > 0 /\ i \in w.held THEN w.read[i] ELSE c[i]]
                 x == [w EXCEPT !.at = "checkout",
                                !.held = @ \cup (Rows(w.user) \ w.del),
                                !.read = read]
      <3>1. Continue(s, "group", x)
        BY <2>4 DEF ReadAgain
      <3> HIDE DEF c, read
      <3>2. x.count = 0 /\ x.new = {}
        BY <2>1 DEF Work
      <3> HIDE DEF x
      <3> QED
        BY <2>2, <3>1, <3>2
    <2> QED
      BY <1>3, <2>3, <2>4
  <1>4. ASSUME NEW r \in Restaurants, NEW coupon \in BOOLEAN,
               PlaceOrder(s, r, coupon)
        PROVE  CountFresh(sess'[s])
    <2> DEFINE o == OrderOf(w, r, w.read, coupon)
               count == IF coupon THEN used + 1 ELSE 0
    <2>1. w \in Work
      BY <1>4, <1>w DEF PlaceOrder, Continue
    <2>2. o \in OrderRows /\ o.coupon = coupon
      BY <2>1, OrderOfType DEF Work
    <2> HIDE DEF o
    <2>3. Cleared(w) \in Work
      BY <2>1 DEF Cleared, Work, NoItems, Rows
    <2>4. sess'[s] = [Cleared(w) EXCEPT !.new = {o}, !.count = count]
      BY <1>0, <1>4 DEF PlaceOrder, Continue, o
    <2>5. sess'[s].new = {o} /\ sess'[s].count = count
      BY <2>3, <2>4 DEF Work
    <2>6. used \in Nat
      BY DEF CheckoutInv, TypeOK
    <2>7. CASE coupon
      <3>1. sess'[s].count = used + 1
        BY <2>5, <2>7
      <3>2. used + 1 # 0
        BY <2>6
      <3>3. \E q \in OrderRows : sess'[s].new = {q} /\ q.coupon
        BY <2>2, <2>5, <2>7
      <3> QED
        BY <3>1, <3>2, <3>3 DEF CountFresh
    <2>8. CASE ~coupon
      <3>1. sess'[s].count = 0
        BY <2>5, <2>8
      <3>2. \A q \in sess'[s].new : ~q.coupon
        BY <2>2, <2>5, <2>8
      <3> QED
        BY <3>1, <3>2 DEF CountFresh
    <2> QED
      BY <2>7, <2>8
  <1>5. ASSUME NEW rs \in SUBSET Restaurants, w \in Work, sess'[s].count = 0,
               sess'[s].new = {OrderOf(w, r, PartOf(w.read, r), FALSE) : r \in rs}
        PROVE  CountFresh(sess'[s])
    <2>1. \A r \in rs : ~OrderOf(w, r, PartOf(w.read, r), FALSE).coupon
      BY DEF OrderOf
    <2>2. \A q \in sess'[s].new : ~q.coupon
      BY <1>5, <2>1
    <2>3. sess'[s].count = 0
      BY <1>5
    <2> QED
      BY <2>2, <2>3 DEF CountFresh
  <1>6. CASE PlaceOrdersForCart(s)
    <2>1. w \in Work /\ w.count = 0 /\ w.read \in [Items -> Nat]
      BY <1>6, <1>w DEF PlaceOrdersForCart, Continue, Work
    <2>2. Cleared(w) \in Work /\ Cleared(w).count = 0
      BY <2>1 DEF Cleared, Work, NoItems, Rows
    <2>3. /\ sess'[s].count = 0
          /\ sess'[s].new = {OrderOf(w, r, PartOf(w.read, r), FALSE) :
                                r \in RestaurantsIn(w.read)}
      BY <1>0, <1>6, <2>2 DEF PlaceOrdersForCart, Continue, Work
    <2>4. RestaurantsIn(w.read) \in SUBSET Restaurants
      BY <2>1, RestaurantsInType
    <2> QED
      BY <1>5, <2>1, <2>3, <2>4
  <1>7. ASSUME NEW made \in SUBSET Restaurants, Refuse(s, made)
        PROVE  CountFresh(sess'[s])
    <2>1. w \in Work /\ w.count = 0
      BY <1>7, <1>w DEF Refuse, Continue
    <2>2. /\ sess'[s].count = 0
          /\ sess'[s].new = {OrderOf(w, r, PartOf(w.read, r), FALSE) : r \in made}
      BY <1>0, <1>7, <2>1 DEF Refuse, Continue, Work
    <2> QED
      BY <1>5, <2>1, <2>2
  <1>8. CASE Fail(s)
    BY <1>0, <1>8 DEF Fail
  <1> QED
    BY <1>1, <1>2, <1>3, <1>4, <1>6, <1>7, <1>8 DEF Checkout

\* A commit counts a discounted order if and only if it adds one.
LEMMA CommitCountsExactly ==
    ASSUME CheckoutInv, CouponExact, NEW s \in Sessions, CommitFacts(s),
           CountFresh(sess[s])
    PROVE  CouponExact'
  <1> DEFINE w == sess[s]
  <1>1. /\ w \in Work
        /\ used' = IF w.count > 0 THEN w.count ELSE used
    BY DEF CommitFacts
  <1>2. w.count \in Nat /\ used \in Nat /\ used = Cardinality(Discounted)
    BY <1>1 DEF Work, CheckoutInv, TypeOK, CouponExact
  <1>3. Discounted \subseteq Discounted'
    BY DiscountedGrows
  <1>4. \A k \in Discounted' \ Discounted :
          /\ k \in Orders /\ orders'[k] # orders[k]
          /\ orders'[k] \in w.new /\ orders'[k].coupon
    BY DEF Discounted, CommitFacts
  <1>5. CASE w.count = 0
    <2>1. \A o \in w.new : ~o.coupon
      BY <1>5 DEF CountFresh
    <2>2. Discounted' = Discounted
      BY <1>3, <1>4, <2>1
    <2> QED
      BY <1>1, <1>2, <1>5, <2>2 DEF CouponExact
  <1>6. CASE w.count > 0
    <2>1. PICK o \in OrderRows : w.count = used + 1 /\ w.new = {o} /\ o.coupon
      BY <1>6 DEF CountFresh
    <2>2. PICK k \in Orders : orders[k] = NoOrder /\ orders'[k] = o
      BY <2>1 DEF CommitFacts
    <2>3. k \in Discounted' /\ k \notin Discounted /\ orders'[k] # orders[k]
      BY <2>1, <2>2, NoOrderIsNoRow DEF Discounted
    <2>4. \A l \in Discounted' \ Discounted : l = k
      BY <1>4, <2>1, <2>2, <2>3 DEF CommitFacts
    <2>5. Discounted' = Discounted \cup {k}
      BY <1>3, <2>3, <2>4
    <2>6. Cardinality(Discounted') = Cardinality(Discounted) + 1
      BY <2>3, <2>5, DiscountedFinite, FS_AddElement
    <2> QED
      BY <1>1, <1>2, <1>6, <2>1, <2>6 DEF CouponExact
  <1> QED
    BY <1>2, <1>5, <1>6

LEMMA SerialNext ==
    ASSUME \A s, t \in Sessions : s = t, SerialInv, [Next]_vars
    PROVE  SerialInv'
  <1>1. CheckoutInv /\ CheckoutInv'
    BY NextKeepsInv DEF SerialInv
  <1>2. CASE UNCHANGED vars
    BY <1>1, <1>2 DEF SerialInv, vars, CouponExact, Discounted, Busy, CountFresh
  <1>3. CASE Next
    <2>1. PICK s \in Sessions :
            \/ \E u \in Users : CartRequest(s, u) \/ PlaceRequest(s, u)
            \/ Checkout(s)
            \/ Commit(s)
            \/ Fail(s)
      BY <1>3 DEF Next
    <2>2. CASE Commit(s)
      <3>1. CommitFacts(s) /\ sess'[s] = Idle
        BY <1>1, <2>2, CommitDoes, OthersForget
      <3>2. CountFresh(sess[s])
        BY <2>2 DEF SerialInv, Commit
      <3>3. CouponExact'
        BY <1>1, <3>1, <3>2, CommitCountsExactly DEF SerialInv
      <3> QED
        BY <1>1, <3>1, <3>3 DEF SerialInv, Busy
    <2>3. CASE ~Commit(s)
      <3>1. sess'[s] # Idle => CountFresh(sess'[s])
        BY <1>1, <2>1, <2>3, SessionStepsCount
      <3>2. used' = used /\ orders' = orders
        BY <2>1, <2>3 DEF CartRequest, PlaceRequest, Checkout, Fail, AddItem,
           UpdateQuantity, RemoveItem, ClearCart, BeginPlace, BeginCreate,
           ReplaceCart, FillCart, ReadAgain, PlaceOrder, PlaceOrdersForCart,
           Refuse, Start, Continue
      <3>3. CouponExact'
        BY <3>2 DEF SerialInv, CouponExact, Discounted
      <3>4. \A t \in Sessions : Busy(t)' => CountFresh(sess[t])'
        BY <3>1, <3>2 DEF Busy, CountFresh
      <3> QED
        BY <1>1, <3>3, <3>4 DEF SerialInv
    <2> QED
      BY <2>2, <2>3
  <1> QED
    BY <1>2, <1>3

\* If requests do not overlap, each use of the coupon is counted, whatever fails
\* or is refused in between: max_uses holds.
THEOREM SerialCouponExact ==
    ASSUME \A s, t \in Sessions : s = t
    PROVE  Spec => []CouponExact
  <1>1. Init => SerialInv
    <2> SUFFICES ASSUME Init PROVE SerialInv
      OBVIOUS
    <2>1. Discounted = {}
      BY DEF Init, Discounted
    <2>2. CouponExact
      BY <2>1, FS_EmptySet DEF Init, CouponExact
    <2> QED
      BY <2>2, InitInv DEF Init, SerialInv, Busy
  <1>2. SerialInv /\ [Next]_vars => SerialInv'
    BY SerialNext
  <1>3. SerialInv => CouponExact
    BY DEF SerialInv
  <1> QED
    BY <1>1, <1>2, <1>3, PTL DEF Spec

-----------------------------------------------------------------------------
(* One session: the cart is ordered whole, and split by restaurant *)

PureOrder(o) == RestaurantsIn(o.items) = {o.restaurant}

\* What the only session has read is still in the cart, as it sees it, and the
\* orders it inserts are what it has read.
WholeCart(w) ==
    /\ w.at = "fill" => w.op = "replace"
    /\ w.op = "cart" => w.at = "commit" /\ w.new = {}
    /\ w.at \in {"group", "checkout"} => w.read = Visible(w, cart[w.user])
    /\ w.op = "place" /\ w.at # "commit" => w.del = {} /\ w.put = NoItems
    /\ w.op = "place" /\ w.at = "commit" /\ w.new # {} =>
         \/ w.del = {} /\ w.put = NoItems
         \/ \A i \in Rows(w.user) : \E o \in w.new :
               o.user = w.user /\ o.items[i] = cart[w.user][i]

\* Of the orders that are made one for each restaurant.
SplitCart(w) ==
    /\ w.at = "checkout" => \E r \in Restaurants : RestaurantsIn(w.read) = {r}
    /\ \A o \in w.new : PureOrder(o)

WholeRight(w) == WholeCart(w) /\ ("place" \notin Endpoints => SplitCart(w))

WholeInv ==
    /\ CheckoutInv
    /\ \A s \in Sessions : Busy(s) => WholeRight(sess[s])
    /\ "place" \notin Endpoints => OrderOfOneRestaurant

LEMMA PartIsPure ==
    ASSUME NEW w \in Work, NEW c \in [Items -> Nat], NEW r \in RestaurantsIn(c)
    PROVE  /\ PureOrder(OrderOf(w, r, PartOf(c, r), FALSE))
           /\ OrderOf(w, r, PartOf(c, r), FALSE).user = w.user
           /\ OrderOf(w, r, PartOf(c, r), FALSE).items = PartOf(c, r)
  <1>1. r \in Restaurants
    BY RestaurantsInType
  <1>2. PICK o : o = OrderOf(w, r, PartOf(c, r), FALSE)
    OBVIOUS
  <1>3. o.user = w.user /\ o.items = PartOf(c, r) /\ o.restaurant = r
    BY <1>2 DEF OrderOf
  <1>4. RestaurantsIn(PartOf(c, r)) = {r}
    <2>1. PICK i \in Items : c[i] > 0 /\ RestaurantOf[i] = r
      BY DEF RestaurantsIn, Contents
    <2>2. \A j \in Items : PartOf(c, r)[j] = IF RestaurantOf[j] = r THEN c[j] ELSE 0
      BY DEF PartOf
    <2>3. Contents(PartOf(c, r)) = {j \in Items : RestaurantOf[j] = r /\ c[j] > 0}
      BY <2>2 DEF Contents
    <2> QED
      BY <2>1, <2>3 DEF RestaurantsIn
  <1> QED
    BY <1>2, <1>3, <1>4 DEF PureOrder

\* What a session without writes sees is the cart.
LEMMA SeesTheCart ==
    ASSUME NEW w \in Work, NEW c \in [Items -> Nat], w.del = {}, w.put = NoItems
    PROVE  Visible(w, c) = c
  BY DEF Visible, NoItems

LEMMA CartWhole ==
    ASSUME CheckoutInv, NEW s \in Sessions, NEW u \in Users, CartRequest(s, u)
    PROVE  WholeRight(sess'[s])
  <1>0. sess \in [Sessions -> Work \cup {Idle}]
    BY DEF CheckoutInv, TypeOK
  <1>1. ASSUME NEW x, Start(s, u, x), x.op = "cart", x.at = "commit", x.new = {}
        PROVE  WholeRight(sess'[s])
    BY <1>0, <1>1 DEF Start, WholeRight, WholeCart, SplitCart
  <1>2. ASSUME NEW i \in Items, NEW n \in Quantities, AddItem(s, u, i, n)
        PROVE  WholeRight(sess'[s])
    <2> DEFINE x == [Fresh("cart", "commit", u) EXCEPT
                       !.held = {i} \cap Rows(u), !.ins = {i} \ Rows(u),
                       !.put[i] = cart[u][i] + n]
    <2>1. x.op = "cart" /\ x.at = "commit" /\ x.new = {}
      BY DEF Fresh
    <2>2. Start(s, u, x)
      BY <1>2 DEF AddItem
    <2> QED
      BY <1>1, <2>1, <2>2
  <1>3. ASSUME NEW i \in Items, NEW n \in Quantities, UpdateQuantity(s, u, i, n)
        PROVE  WholeRight(sess'[s])
    <2> DEFINE x == [Fresh("cart", "commit", u) EXCEPT !.held = {i}, !.put[i] = n]
    <2>1. x.op = "cart" /\ x.at = "commit" /\ x.new = {}
      BY DEF Fresh
    <2>2. Start(s, u, x)
      BY <1>3 DEF UpdateQuantity
    <2> QED
      BY <1>1, <2>1, <2>2
  <1>4. ASSUME NEW i \in Items, RemoveItem(s, u, i)
        PROVE  WholeRight(sess'[s])
    <2> DEFINE x == [Fresh("cart", "commit", u) EXCEPT !.del = {i}]
    <2>1. x.op = "cart" /\ x.at = "commit" /\ x.new = {}
      BY DEF Fresh
    <2>2. Start(s, u, x)
      BY <1>4 DEF RemoveItem
    <2> QED
      BY <1>1, <2>1, <2>2
  <1>5. ASSUME ClearCart(s, u)
        PROVE  WholeRight(sess'[s])
    <2> DEFINE x == [Fresh("cart", "commit", u) EXCEPT !.del = Rows(u)]
    <2>1. x.op = "cart" /\ x.at = "commit" /\ x.new = {}
      BY DEF Fresh
    <2>2. Start(s, u, x)
      BY <1>5 DEF ClearCart
    <2> QED
      BY <1>1, <2>1, <2>2
  <1> QED
    BY <1>2, <1>3, <1>4, <1>5 DEF CartRequest

LEMMA PlaceWhole ==
    ASSUME CheckoutInv, NEW s \in Sessions, NEW u \in Users, PlaceRequest(s, u)
    PROVE  WholeRight(sess'[s])
  <1>0. sess \in [Sessions -> Work \cup {Idle}] /\ cart[u] \in [Items -> Nat]
    BY DEF CheckoutInv, TypeOK
  <1>1. ASSUME NEW at \in {"group", "checkout"},
               at = "checkout" => "place" \in Endpoints,
               Start(s, u, [Fresh("place", at, u) EXCEPT
                              !.held = Rows(u), !.read = cart[u]])
        PROVE  WholeRight(sess'[s])
    <2>1. PICK x : x = [Fresh("place", at, u) EXCEPT !.held = Rows(u), !.read = cart[u]]
      OBVIOUS
    <2>2. /\ x \in Work /\ x.op = "place" /\ x.at = at /\ x.user = u
          /\ x.del = {} /\ x.put = NoItems /\ x.read = cart[u] /\ x.new = {}
      BY <1>0, <2>1 DEF Work, Fresh, NoItems, Rows
    <2>3. Visible(x, cart[u]) = cart[u]
      BY <1>0, <2>2, SeesTheCart
    <2>4. sess'[s] = x
      BY <1>0, <1>1, <2>1 DEF Start
    <2> QED
      BY <1>1, <2>2, <2>3, <2>4 DEF WholeRight, WholeCart, SplitCart
  <1>2. ASSUME NEW list \in [Items -> Quantities \cup {0}], ReplaceCart(s, u, list)
        PROVE  WholeRight(sess'[s])
    <2>1. PICK x : x = [Fresh("replace", "fill", u) EXCEPT !.del = Rows(u), !.read = list]
      OBVIOUS
    <2>2. x.op = "replace" /\ x.at = "fill" /\ x.new = {}
      BY <2>1 DEF Fresh
    <2>3. sess'[s] = x
      BY <1>0, <1>2, <2>1 DEF ReplaceCart, Start
    <2> QED
      BY <2>2, <2>3 DEF WholeRight, WholeCart, SplitCart
  <1> QED
    BY <1>1, <1>2 DEF PlaceRequest, BeginPlace, BeginCreate

\* A handler that has not decided yet.
LEMMA WorkSoFar ==
    ASSUME WholeInv, NEW s \in Sessions, Busy(s), sess[s].at # "commit"
    PROVE  /\ sess[s] \in Work /\ WholeRight(sess[s]) /\ Right(sess[s])
           /\ sess[s].new = {} /\ sess[s].user \in Users
           /\ cart[sess[s].user] \in [Items -> Nat]
           /\ sess[s].read \in [Items -> Nat]
           /\ sess \in [Sessions -> Work \cup {Idle}]
  <1>1. sess[s] \in Work /\ WholeRight(sess[s]) /\ Right(sess[s]) /\ sess[s].new = {}
    BY DEF WholeInv, CheckoutInv, Right, CountRight
  <1> QED
    BY <1>1 DEF Work, WholeInv, CheckoutInv, TypeOK

LEMMA FillWhole ==
    ASSUME WholeInv, NEW s \in Sessions, FillCart(s)
    PROVE  WholeRight(sess'[s])
  <1> DEFINE w == sess[s]
             u == w.user
             list == Contents(w.read)
             there == Rows(u) \ w.del
             put == [i \in Items |->
                       IF i \notin list THEN 0
                       ELSE IF i \in there THEN cart[u][i] + w.read[i]
                       ELSE w.read[i]]
             filled == [w EXCEPT !.put = put, !.ins = list \ there]
             x == [filled EXCEPT !.at = "group", !.held = there,
                                 !.read = Visible(filled, cart[u])]
  <1>1. /\ w \in Work /\ w.at = "fill" /\ WholeRight(w) /\ w.new = {}
        /\ cart[u] \in [Items -> Nat] /\ w.read \in [Items -> Nat]
        /\ sess \in [Sessions -> Work \cup {Idle}]
    BY WorkSoFar DEF FillCart
  <1>2. put \in [Items -> Nat] /\ list \subseteq Items /\ there \subseteq Items
    BY <1>1 DEF Contents, Rows
  <1>3. sess'[s] = x
    BY <1>1 DEF FillCart, Continue
  <1> HIDE DEF put, list, there
  <1>4. /\ filled \in Work /\ filled.op = w.op /\ filled.user = u /\ filled.new = {}
        /\ filled.del = w.del /\ filled.put = put
    BY <1>1, <1>2 DEF Work
  <1> HIDE DEF filled
  <1>5. /\ x.op = w.op /\ x.user = u /\ x.new = {} /\ x.del = filled.del
        /\ x.put = filled.put /\ x.at = "group" /\ x.read = Visible(filled, cart[u])
    BY <1>4 DEF Work
  <1> HIDE DEF x
  <1>6. x.op = "replace"
    BY <1>1, <1>5 DEF WholeRight, WholeCart
  <1>7. Visible(x, cart[u]) = Visible(filled, cart[u])
    BY <1>5 DEF Visible
  <1> QED
    BY <1>3, <1>5, <1>6, <1>7 DEF WholeRight, WholeCart, SplitCart

\* What is read again is what has been read before.
LEMMA ReadAgainWhole ==
    ASSUME WholeInv, NEW s \in Sessions, ReadAgain(s)
    PROVE  WholeRight(sess'[s])
  <1> DEFINE w == sess[s]
             u == w.user
             c == Visible(w, cart[u])
             held == w.held \cup (Rows(u) \ w.del)
             read == [i \in Items |->
                        IF c[i] > 0 /\ i \in w.held THEN w.read[i] ELSE c[i]]
             x == [w EXCEPT !.at = "checkout", !.held = held, !.read = read]
  <1>1. /\ w \in Work /\ w.at = "group" /\ WholeRight(w) /\ w.new = {}
        /\ cart[u] \in [Items -> Nat] /\ w.read \in [Items -> Nat]
        /\ sess \in [Sessions -> Work \cup {Idle}]
        /\ Cardinality(RestaurantsIn(w.read)) = 1
    BY WorkSoFar DEF ReadAgain, Continue
  <1>2. c = w.read /\ c \in [Items -> Nat]
    BY <1>1 DEF WholeRight, WholeCart
  <1>3. sess'[s] = x
    BY <1>1 DEF ReadAgain, Continue
  <1> HIDE DEF c, held
  <1>4. read = c
    BY <1>1, <1>2
  <1> HIDE DEF read
  <1>5. /\ x.op = w.op /\ x.user = u /\ x.new = {} /\ x.del = w.del
        /\ x.put = w.put /\ x.at = "checkout" /\ x.read = read
    BY <1>1 DEF Work
  <1> HIDE DEF x
  <1>6. Visible(x, cart[u]) = c
    BY <1>5 DEF Visible, c
  <1>7. \E r \in Restaurants : RestaurantsIn(w.read) = {r}
    <2>1. RestaurantsIn(w.read) \subseteq Restaurants
      BY <1>1, RestaurantsInType
    <2>2. IsFiniteSet(RestaurantsIn(w.read))
      BY <2>1, CheckoutAssumption, FS_Subset
    <2>3. \E r : RestaurantsIn(w.read) = {r}
      BY <1>1, <2>2, FS_Singleton
    <2> QED
      BY <2>1, <2>3
  <1>8. w.op = "place" => w.del = {} /\ w.put = NoItems
    BY <1>1 DEF WholeRight, WholeCart
  <1>9. w.op # "cart"
    BY <1>1 DEF WholeRight, WholeCart
  <1> QED
    BY <1>2, <1>3, <1>4, <1>5, <1>6, <1>7, <1>8, <1>9 DEF WholeRight, WholeCart, SplitCart

LEMMA PlaceOrderWhole ==
    ASSUME WholeInv, NEW s \in Sessions,
           NEW r \in Restaurants, NEW coupon \in BOOLEAN, PlaceOrder(s, r, coupon)
    PROVE  WholeRight(sess'[s])
  <1> DEFINE w == sess[s]
             o == OrderOf(w, r, w.read, coupon)
             count == IF coupon THEN used + 1 ELSE 0
             x == [Cleared(w) EXCEPT !.new = {o}, !.count = count]
  <1>1. /\ w \in Work /\ w.at = "checkout" /\ WholeRight(w)
        /\ cart[w.user] \in [Items -> Nat] /\ w.read \in [Items -> Nat]
        /\ sess \in [Sessions -> Work \cup {Idle}]
    BY WorkSoFar DEF PlaceOrder, Continue
  <1>2. o.user = w.user /\ o.items = w.read /\ o.restaurant = r
    BY DEF OrderOf
  <1>3. sess'[s] = x
    BY <1>1 DEF PlaceOrder, Continue
  <1> HIDE DEF o, count
  <1>4. /\ x.op = w.op /\ x.user = w.user /\ x.new = {o} /\ x.at = "commit"
    BY <1>1 DEF Work, Cleared
  <1> HIDE DEF x
  <1>5. w.op = "place" => w.read = cart[w.user]
    BY <1>1, SeesTheCart DEF WholeRight, WholeCart
  <1>6. w.op # "cart"
    BY <1>1 DEF WholeRight, WholeCart
  <1>7. WholeCart(x)
    BY <1>2, <1>4, <1>5, <1>6 DEF WholeCart
  <1>8. ASSUME "place" \notin Endpoints PROVE SplitCart(x)
    <2>1. r \in RestaurantsIn(w.read)
      BY DEF PlaceOrder
    <2>2. PICK q \in Restaurants : RestaurantsIn(w.read) = {q}
      BY <1>1, <1>8 DEF WholeRight, SplitCart
    <2> QED
      BY <1>2, <1>4, <2>1, <2>2 DEF SplitCart, PureOrder
  <1> QED
    BY <1>3, <1>7, <1>8 DEF WholeRight

LEMMA PlaceOrdersWhole ==
    ASSUME WholeInv, NEW s \in Sessions, PlaceOrdersForCart(s)
    PROVE  WholeRight(sess'[s])
  <1> DEFINE w == sess[s]
             new == {OrderOf(w, r, PartOf(w.read, r), FALSE) :
                        r \in RestaurantsIn(w.read)}
             x == [Cleared(w) EXCEPT !.new = new]
  <1>1. /\ w \in Work /\ w.at = "group" /\ WholeRight(w)
        /\ cart[w.user] \in [Items -> Nat] /\ w.read \in [Items -> Nat]
        /\ sess \in [Sessions -> Work \cup {Idle}]
    BY WorkSoFar DEF PlaceOrdersForCart, Continue
  <1>2. \A p \in new : PureOrder(p) /\ p.user = w.user
    <2> SUFFICES ASSUME NEW r \in RestaurantsIn(w.read)
                 PROVE  /\ PureOrder(OrderOf(w, r, PartOf(w.read, r), FALSE))
                        /\ OrderOf(w, r, PartOf(w.read, r), FALSE).user = w.user
      OBVIOUS
    <2> QED
      BY <1>1, PartIsPure
  <1>3. \A i \in Contents(w.read) : \E p \in new : p.items[i] = w.read[i]
    <2> SUFFICES ASSUME NEW i \in Items, w.read[i] > 0
                 PROVE  \E p \in new : p.items[i] = w.read[i]
      BY DEF Contents
    <2>1. RestaurantOf[i] \in RestaurantsIn(w.read)
      BY <1>1, RestaurantsInType
    <2>2. PICK p : p = OrderOf(w, RestaurantOf[i], PartOf(w.read, RestaurantOf[i]), FALSE)
      OBVIOUS
    <2>3. p \in new
      BY <2>1, <2>2
    <2>4. p.items = PartOf(w.read, RestaurantOf[i])
      BY <1>1, <2>1, <2>2, PartIsPure
    <2>5. p.items[i] = w.read[i]
      BY <2>4 DEF PartOf
    <2> QED
      BY <2>3, <2>5
  <1>4. sess'[s] = x
    BY <1>1 DEF PlaceOrdersForCart, Continue
  <1> HIDE DEF new
  <1>5. x.op = w.op /\ x.user = w.user /\ x.new = new /\ x.at = "commit"
    BY <1>1 DEF Work, Cleared
  <1> HIDE DEF x
  <1>6. w.op = "place" => w.read = cart[w.user]
    BY <1>1, SeesTheCart DEF WholeRight, WholeCart
  <1>7. w.op # "cart"
    BY <1>1 DEF WholeRight, WholeCart
  <1>8. WholeCart(x)
    BY <1>2, <1>3, <1>5, <1>6, <1>7 DEF WholeCart, Rows, Contents
  <1> QED
    BY <1>2, <1>4, <1>5, <1>8 DEF WholeRight, SplitCart

LEMMA RefuseWhole ==
    ASSUME WholeInv, NEW s \in Sessions, NEW made \in SUBSET Restaurants, Refuse(s, made)
    PROVE  WholeRight(sess'[s])
  <1> DEFINE w == sess[s]
             new == {OrderOf(w, r, PartOf(w.read, r), FALSE) : r \in made}
             x == [w EXCEPT !.at = "commit", !.read = NoItems, !.new = new]
  <1>1. /\ w \in Work /\ w.at \in {"group", "checkout"} /\ WholeRight(w)
        /\ cart[w.user] \in [Items -> Nat] /\ w.read \in [Items -> Nat]
        /\ sess \in [Sessions -> Work \cup {Idle}]
    BY WorkSoFar DEF Refuse, Continue
  <1>2. made \subseteq RestaurantsIn(w.read)
    BY DEF Refuse
  <1>3. \A p \in new : PureOrder(p)
    BY <1>1, <1>2, PartIsPure
  <1>4. sess'[s] = x
    BY <1>1 DEF Refuse, Continue
  <1> HIDE DEF new
  <1>5. /\ x.op = w.op /\ x.new = new /\ x.at = "commit" /\ x.del = w.del
        /\ x.put = w.put
    BY <1>1 DEF Work
  <1> HIDE DEF x
  <1>6. /\ w.op # "cart"
        /\ w.op = "place" => w.del = {} /\ w.put = NoItems
    BY <1>1 DEF WholeRight, WholeCart
  <1>7. WholeCart(x)
    BY <1>5, <1>6 DEF WholeCart
  <1> QED
    BY <1>3, <1>4, <1>5, <1>7 DEF WholeRight, SplitCart

\* A commit inserts the orders as they were made.
LEMMA CommitKeepsPure ==
    ASSUME CheckoutInv, OrderOfOneRestaurant, NEW s \in Sessions, CommitFacts(s),
           \A o \in sess[s].new : PureOrder(o)
    PROVE  OrderOfOneRestaurant'
  <1> SUFFICES ASSUME NEW k \in Orders, orders'[k] # NoOrder
               PROVE  RestaurantsIn(orders'[k].items) = {orders'[k].restaurant}
    BY DEF OrderOfOneRestaurant, RestaurantsIn, Contents
  <1>1. CASE orders'[k] = orders[k]
    BY <1>1 DEF OrderOfOneRestaurant
  <1>2. CASE orders'[k] # orders[k]
    BY <1>2 DEF CommitFacts, PureOrder
  <1> QED
    BY <1>1, <1>2

LEMMA WholeNext ==
    ASSUME \A s, t \in Sessions : s = t, WholeInv, [Next]_vars
    PROVE  WholeInv'
  <1>1. CheckoutInv /\ CheckoutInv'
    BY NextKeepsInv DEF WholeInv
  <1>2. ASSUME UNCHANGED <<cart, orders>>, NEW x, WholeRight(x) PROVE WholeRight(x)'
    BY <1>2 DEF WholeRight, WholeCart, SplitCart, Rows, Visible, NoItems, PureOrder,
                RestaurantsIn, Contents
  <1>3. ASSUME UNCHANGED <<cart, orders>>,
               \A s \in Sessions : sess'[s] # Idle => WholeRight(sess'[s])
        PROVE  WholeInv'
    <2>1. "place" \notin Endpoints => OrderOfOneRestaurant'
      BY <1>3 DEF WholeInv, OrderOfOneRestaurant, RestaurantsIn, Contents
    <2>2. ASSUME NEW s \in Sessions, Busy(s)' PROVE WholeRight(sess[s])'
      <3>1. PICK x : x = sess'[s] /\ WholeRight(x)
        BY <1>3, <2>2 DEF Busy
      <3>2. WholeRight(x)'
        BY <1>2, <1>3, <3>1
      <3> QED
        BY <3>1, <3>2
    <2> QED
      BY <1>1, <2>1, <2>2 DEF WholeInv
  <1>4. CASE UNCHANGED vars
    BY <1>3, <1>4 DEF WholeInv, vars, Busy
  <1>5. CASE Next
    <2>1. PICK s \in Sessions :
            \/ \E u \in Users : CartRequest(s, u) \/ PlaceRequest(s, u)
            \/ Checkout(s)
            \/ Commit(s)
            \/ Fail(s)
      BY <1>5 DEF Next
    <2>2. CASE Commit(s)
      <3>1. CommitFacts(s) /\ sess'[s] = Idle
        BY <1>1, <2>2, CommitDoes, OthersForget
      <3>2. "place" \notin Endpoints => SplitCart(sess[s])
        BY <2>2 DEF WholeInv, Commit, WholeRight
      <3>3. "place" \notin Endpoints => OrderOfOneRestaurant'
        BY <1>1, <3>1, <3>2, CommitKeepsPure DEF WholeInv, SplitCart
      <3> QED
        BY <1>1, <3>1, <3>3 DEF WholeInv, Busy
    <2>3. CASE \E u \in Users : CartRequest(s, u) \/ PlaceRequest(s, u)
      <3>1. WholeRight(sess'[s])
        BY <1>1, <2>3, CartWhole, PlaceWhole
      <3>2. UNCHANGED <<cart, orders>>
        BY <2>3 DEF CartRequest, PlaceRequest, AddItem, UpdateQuantity, RemoveItem,
           ClearCart, BeginPlace, BeginCreate, ReplaceCart, Start
      <3> QED
        BY <1>3, <3>1, <3>2
    <2>4. CASE Checkout(s)
      <3>1. WholeRight(sess'[s])
        BY <2>4, FillWhole, ReadAgainWhole, PlaceOrderWhole, PlaceOrdersWhole,
           RefuseWhole DEF Checkout
      <3>2. UNCHANGED <<cart, orders>>
        BY <2>4 DEF Checkout, FillCart, ReadAgain, PlaceOrder, PlaceOrdersForCart,
           Refuse, Continue
      <3> QED
        BY <1>3, <3>1, <3>2
    <2>5. CASE Fail(s)
      <3>1. sess'[s] = Idle /\ UNCHANGED <<cart, orders>>
        BY <1>1, <2>5 DEF Fail, CheckoutInv, TypeOK
      <3> QED
        BY <1>3, <3>1
    <2> QED
      BY <2>1, <2>2, <2>3, <2>4, <2>5
  <1> QED
    BY <1>4, <1>5

LEMMA InitWhole == Init => WholeInv
  BY InitInv DEF Init, WholeInv, Busy, OrderOfOneRestaurant

\* The commit of the only session orders all rows of the cart that it empties.
LEMMA CommitTakesAll ==
    ASSUME WholeInv, NEW s \in Sessions, Commit(s),
           sess[s].op # "replace", cart'[sess[s].user] = NoItems,
           NEW j \in Orders, orders'[j] # orders[j], NEW i \in Rows(sess[s].user)
    PROVE  \E k \in Orders : /\ orders'[k] # orders[k]
                             /\ orders'[k].user = sess[s].user
                             /\ orders'[k].items[i] = cart[sess[s].user][i]
  <1> DEFINE w == sess[s]
  <1>1. CommitFacts(s)
    BY CommitDoes DEF WholeInv
  <1>2. /\ w \in Work /\ w.at = "commit" /\ WholeCart(w) /\ w.new # {}
        /\ cart \in [Users -> [Items -> Nat]] /\ w.user \in Users
        /\ cart' = [cart EXCEPT ![w.user] = Visible(w, cart[w.user])]
    BY <1>1 DEF CommitFacts, WholeInv, WholeRight, Commit, CheckoutInv, TypeOK, Work
  <1>3. w.op = "place"
    BY <1>2 DEF WholeCart, Work
  <1>4. ~(w.del = {} /\ w.put = NoItems)
    <2> SUFFICES ASSUME w.del = {}, w.put = NoItems PROVE FALSE
      OBVIOUS
    <2>1. cart'[w.user] = cart[w.user]
      BY <1>2, SeesTheCart
    <2> QED
      BY <2>1 DEF Rows, NoItems
  <1>5. PICK o \in w.new : o.user = w.user /\ o.items[i] = cart[w.user][i]
    BY <1>2, <1>3, <1>4 DEF WholeCart
  <1>6. PICK k \in Orders : orders[k] = NoOrder /\ orders'[k] = o
    BY <1>1 DEF CommitFacts
  <1>7. o # NoOrder
    BY <1>2, NoOrderIsNoRow DEF Work
  <1> QED
    BY <1>5, <1>6, <1>7

LEMMA StepTakesAll ==
    ASSUME WholeInv, [Next]_vars,
           NEW s \in Sessions, Busy(s), sess'[s] = Idle,
           NEW j \in Orders, orders'[j] # orders[j],
           sess[s].op # "replace", cart'[sess[s].user] = NoItems,
           NEW i \in Rows(sess[s].user)
    PROVE  \E k \in Orders : /\ orders'[k] # orders[k]
                             /\ orders'[k].user = sess[s].user
                             /\ orders'[k].items[i] = cart[sess[s].user][i]
  <1>1. Next /\ CheckoutInv
    BY DEF vars, WholeInv
  <1>2. PICK t \in Sessions : Moves(t) \/ Commit(t)
    BY <1>1, NextKinds
  <1>3. Commit(t)
    BY <1>2 DEF Moves
  <1>4. s = t
    <2> SUFFICES ASSUME s # t PROVE FALSE
      OBVIOUS
    <2>1. sess'[s] \in Work
      BY <1>1, <1>3, CommitDoes, OthersForget
    <2> QED
      BY <2>1, IdleIsNoWork
  <1> QED
    BY <1>3, <1>4, CommitTakesAll

\* If requests do not overlap and the clients place with POST /orders only, each
\* order is of one restaurant, however mixed the carts are
\* (order_service.py:277-384).
THEOREM SerialOrdersAreSplit ==
    ASSUME \A s, t \in Sessions : s = t, "place" \notin Endpoints
    PROVE  Spec => []OrderOfOneRestaurant
  <1>1. WholeInv /\ [Next]_vars => WholeInv'
    BY WholeNext
  <1>2. WholeInv => OrderOfOneRestaurant
    BY DEF WholeInv
  <1> QED
    BY <1>1, <1>2, InitWhole, PTL DEF Spec

\* If requests do not overlap, a checkout that empties the cart has ordered every
\* row of it in its quantity, through either endpoint.
THEOREM SerialCheckoutTakesCart ==
    ASSUME \A s, t \in Sessions : s = t
    PROVE  Spec => CheckoutTakesCart
  <1> DEFINE A == \A s \in Sessions :
                    LET w == sess[s]
                        placed == {k \in Orders : orders'[k] # orders[k]}
                    IN  /\ Busy(s) /\ sess'[s] = Idle /\ placed # {}
                        /\ w.op # "replace" /\ cart'[w.user] = NoItems
                        => \A i \in Rows(w.user) : \E k \in placed :
                              /\ orders'[k].user = w.user
                              /\ orders'[k].items[i] = cart[w.user][i]
  <1>1. WholeInv /\ [Next]_vars => WholeInv'
    BY WholeNext
  <1>2. ASSUME WholeInv, [Next]_vars PROVE A
    BY <1>2, StepTakesAll
  <1>3. WholeInv /\ [Next]_vars => [A]_vars
    BY <1>2
  <1> HIDE DEF A
  <1>4. Spec => [][A]_vars
    BY <1>1, <1>3, InitWhole, PTL DEF Spec
  <1> QED
    BY <1>4 DEF A, CheckoutTakesCart
=============================================================================
