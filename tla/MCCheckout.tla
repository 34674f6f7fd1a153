----------------------------- MODULE MCCheckout -----------------------------
(***************************************************************************)
(* Instances of Checkout for TLC: two restaurants, the first with the      *)
(* items i1 and i3, the second with i2.                                    *)
(***************************************************************************)
EXTENDS Checkout, TLC

CONSTANTS i1, i2, i3, r1, r2

MCRestaurantOf == [i \in Items |-> IF i = i2 THEN r2 ELSE r1]

Symmetry == Permutations(Sessions) \cup Permutations(Orders)
            \cup Permutations(Users)
=============================================================================
