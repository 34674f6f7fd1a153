------------------------------ MODULE MCWallet ------------------------------
(***************************************************************************)
(* Instances of Wallet for TLC: the amounts are small numbers that keep    *)
(* the order of the real ones (a partial pay below a pay, a first payout   *)
(* possible after one delivery).                                           *)
(***************************************************************************)
EXTENDS Wallet, TLC

CONSTANTS p1, p2, r1, r2

MCPay == [o \in Orders |-> 2]
MCNet == [o \in Orders |-> 3]
MCMinPayout == [a \in Accounts |-> IF a = Restaurant THEN 3 ELSE 2]

\* One partner delivers everything, or every order has its own.
OnePartner == [o \in Orders |-> p1]
TwoPartners ==
    CHOOSE f \in [Orders -> Partners] : \A p \in Partners : \E o \in Orders : f[o] = p

\* A rule met by the first delivery of a day, or one more by the second.
ThresholdOne == [r \in Rules |-> 1]
ThresholdTwo == [r \in Rules |-> IF r = r1 THEN 1 ELSE 2]
MCBonus == [rs \in SUBSET Rules |-> Cardinality(rs)]

Symmetry == Permutations(Sessions) \cup Permutations(PayoutIds)
=============================================================================
