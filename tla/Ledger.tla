------------------------------- MODULE Ledger -------------------------------
(***************************************************************************)
(* What the wallets promise their owners: an amount earned is added to a   *)
(* balance, and money leaves a balance in one way only, as a payout row of *)
(* exactly that amount which the balance covered.                          *)
(***************************************************************************)
EXTENDS Naturals

CONSTANTS
    Accounts,    \* the owners of wallets
    PayoutIds,   \* the payout rows that may be inserted
    NoPayout     \* a payout row that is not there

VARIABLES
    balance,     \* wallet_balance of every account
    payout       \* the payout rows

ledgerVars == <<balance, payout>>

Init ==
    /\ balance = [a \in Accounts |-> 0]
    /\ payout = [k \in PayoutIds |-> NoPayout]

Earn ==
    /\ DOMAIN balance' = Accounts
    /\ \A a \in Accounts : balance'[a] \in Nat /\ balance'[a] >= balance[a]
    /\ UNCHANGED payout

Withdraw(a, k) ==
    /\ payout[k] = NoPayout
    /\ \E n \in 1..balance[a] :
         /\ balance' = [balance EXCEPT ![a] = @ - n]
         /\ payout' = [payout EXCEPT ![k] =
                [account |-> a, amount |-> n, status |-> "PROCESSING"]]

Settle(k) ==
    /\ payout[k] # NoPayout
    /\ payout' = [payout EXCEPT ![k].status = "PAID"]
    /\ UNCHANGED balance

Next ==
    \/ Earn
    \/ \E a \in Accounts, k \in PayoutIds : Withdraw(a, k)
    \/ \E k \in PayoutIds : Settle(k)

Spec == Init /\ [][Next]_ledgerVars
=============================================================================
