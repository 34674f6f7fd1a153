------------------------------ MODULE Amounts ------------------------------
(***************************************************************************)
(* Prices and pay together.  The two share nothing but what is asked of    *)
(* them: an amount that one part of the code shows is the amount that      *)
(* another part charges or pays.                                           *)
(***************************************************************************)
EXTENDS Pricing, Surge

\* What customers and partners are shown is what they are charged and paid:
\* the computations that the code repeats in several places agree
\* (cart_service.py:225, coupons.py:77, order_service.py:118, surge_detector.py:63).
AmountsAgree == ShownIsCharged /\ PaidAsShown

=============================================================================
