----------------------------- MODULE MCRecords -----------------------------
(***************************************************************************)
(* An instance for TLC of the components that keep single records: login   *)
(* codes, accounts, the menu, a restaurant's computed columns, addresses,  *)
(* prices, surge and reports.  They share no state, so one of them, the    *)
(* focus of the behaviour, runs while the others stay as they are: their   *)
(* numbers of states add instead of multiplying.                           *)
(*                                                                         *)
(* The phone, the first user and the restaurant's owner wait for each      *)
(* answer: the properties are about such clients.  The second user and the *)
(* customers do not, and disturb them.                                     *)
(***************************************************************************)
EXTENDS Otp, Accounts, Menu, Shopfront, Addresses, Amounts, Reports, TLC

CONSTANTS Patient, Single, u1, u2, r1, r2, f1, f2

VARIABLE focus

MCMaxTokens == u1 :> 2 @@ u2 :> 1

MCKitchenOf == f1 :> r1 @@ f2 :> r2
MCBaskets == {[d \in {f1, f2} |-> IF d = f1 THEN n ELSE m] : n \in 0..2, m \in 0..1}

\* A plain price, a discounted one, one discounted to nothing, one not there.
MCDishRows ==
    {[price |-> 9950, discounted |-> None, available |-> TRUE],
     [price |-> 9950, discounted |-> 3333, available |-> TRUE],
     [price |-> 9950, discounted |-> 0, available |-> TRUE],
     [price |-> 9950, discounted |-> None, available |-> FALSE]}

MCKitchenRows ==
    {[fee |-> 2500, least |-> 0, open |-> TRUE],
     [fee |-> 0, least |-> 9000, open |-> TRUE],
     [fee |-> 2500, least |-> 0, open |-> FALSE]}

\* A percentage with a cap, one without, a sum larger than most carts, and a
\* coupon that nobody may use.
MCCouponRows ==
    LET row == [active |-> TRUE, dated |-> TRUE, left |-> 1, least |-> 5000,
                percent |-> TRUE, value |-> 15, most |-> 2000]
    IN  {row, [row EXCEPT !.most = None, !.left = None],
         [row EXCEPT !.percent = FALSE, !.value = 12000, !.least = 0],
         [row EXCEPT !.dated = FALSE]}

\* 2024 and the years that follow; day 0 is Monday, 1 January 2024.
MCFirstDays ==
    {0, 31, 60, 91, 121, 152, 182, 213, 244, 274, 305, 335}
    \cup {366 + d + 365 * y : y \in 0..2,
            d \in {0, 31, 59, 90, 120, 151, 181, 212, 243, 273, 304, 334}}

\* Noon of 28 February 2025.
MCEpochs == {4 * 424 + 2}

\* A quarter of a day, or to the edges of the charts' periods.
MCLeaps == {1, 4 * 6, 4 * 29, 4 * 89, 4 * 364}

allVars == <<otpVars, accountVars, menuVars, shopVars, addrVars, priceVars,
             surgeVars, reportVars, focus>>

Idlers ==
    /\ focus # "addresses" => ~unhurried
    /\ focus # "surge" => ~manual
    /\ focus # "prices" =>
         /\ \A d \in Dishes : dish[d] = [price |-> 9950, discounted |-> None, available |-> TRUE]
         /\ \A r \in Kitchens : kitchen[r] = [fee |-> 2500, least |-> 0, open |-> TRUE]
         /\ ~coupon.dated

MCInit ==
    /\ focus \in {"codes", "accounts", "menu", "shop", "addresses", "prices", "surge",
                 "reports"}
    /\ OtpInit /\ patient = Patient
    /\ AccountsInit /\ single = Single
    /\ MenuInit /\ careful
    /\ ShopInit /\ composed
    /\ AddrInit /\ PriceInit /\ SurgeInit /\ ReportsInit
    /\ Idlers

MCNext ==
    /\ UNCHANGED focus
    /\ IF focus = "codes" THEN OtpNext ELSE UNCHANGED otpVars
    /\ IF focus = "accounts" THEN AccountsNext ELSE UNCHANGED accountVars
    /\ IF focus = "menu" THEN MenuNext ELSE UNCHANGED menuVars
    /\ IF focus = "shop" THEN ShopNext ELSE UNCHANGED shopVars
    /\ IF focus = "addresses" THEN AddrNext ELSE UNCHANGED addrVars
    /\ IF focus = "prices" THEN PriceNext ELSE UNCHANGED priceVars
    /\ IF focus = "surge" THEN SurgeNext ELSE UNCHANGED surgeVars
    /\ IF focus = "reports" THEN ReportsNext ELSE UNCHANGED reportVars

MCSpec == MCInit /\ [][MCNext]_allVars

Symmetry == Permutations(Sessions) \cup Permutations(Sales)
=============================================================================
