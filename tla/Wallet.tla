------------------------------- MODULE Wallet -------------------------------
(***************************************************************************)
(* The wallets of the delivery partners and of a restaurant: deliveries    *)
(* credit both, a failed delivery credits the partner in part, incentives  *)
(* credit the partner once a day and rule, and payouts debit.              *)
(*                                                                         *)
(* A handler reads a balance into memory, computes with it and writes the  *)
(* result as an absolute value.  The row that authentication loads stays   *)
(* in the session, so the handler's own select does not read it again.     *)
(* The flush sends the UPDATEs, whose row locks the database holds until   *)
(* the transaction ends: a second session waits at its flush, and then     *)
(* writes the value it computed long before.  What a handler reads after   *)
(* its flush is up to date, though, and that is where incentives are       *)
(* decided.                                                                *)
(*                                                                         *)
(* Amounts are natural numbers and a day is over at any time.              *)
(***************************************************************************)
EXTENDS Naturals, FiniteSets

CONSTANTS
    Partners,    \* the delivery partners
    Restaurant,  \* the wallet of the restaurant partner
    Orders,      \* deliveries a partner has picked up
    Owner,       \* the partner of each of them
    Pay, Net,    \* what a delivery earns the partner and the restaurant
    PartialPay,  \* what a failed delivery earns the partner
    Rules,       \* the active incentive rules that count a day's deliveries
    Threshold,   \* deliveries of a day that a rule asks for
    Bonus,       \* the bonus_amount of a set of rules, in total
    MinPayout,   \* the smallest payout of an account
    Amounts,     \* the amounts that payouts are requested of
    PayoutIds,   \* the payout rows that may be inserted
    NoPayout,    \* a payout row that is not there
    Sessions,    \* how many handlers may be in flight at once
    MaxFaults    \* how many restarts and failed transactions may happen

Accounts == Partners \cup {Restaurant}
None == "NONE"            \* the session has no order, no payout

ASSUME WalletAssumption ==
    /\ Restaurant \notin Partners
    /\ Owner \in [Orders -> Partners]
    /\ Pay \in [Orders -> Nat] /\ Net \in [Orders -> Nat]
    /\ PartialPay \in Nat
    /\ Threshold \in [Rules -> Nat]
    /\ Bonus \in [SUBSET Rules -> Nat]
    /\ MinPayout \in [Accounts -> Nat \ {0}]
    /\ Amounts \subseteq Nat
    /\ None \notin PayoutIds
    /\ NoPayout \notin [account : Accounts, amount : Nat \ {0},
                        status : {"PROCESSING", "PAID"}]
    /\ MaxFaults \in Nat

VARIABLES
    balance,    \* wallet_balance of delivery_partners, restaurant_partners
    credited,   \* what the rows of an account say it earned, in total
    asg,        \* delivery_assignments.status; "PICKED_UP" stands for
                \* REACHED_CUSTOMER too
    rows,       \* partner_earnings rows of a partner dated today
    awards,     \* partner_incentives rows of a partner and rule dated today
    payout,     \* rows of payouts and restaurant_payouts
    tasks,      \* payouts with a simulate_processing or _mark_paid_later task
    sess,       \* handlers in flight
    faults      \* restarts and failed transactions so far

vars == <<balance, credited, asg, rows, awards, payout, tasks, sess, faults>>
db   == <<balance, credited, asg, rows, awards, payout>>

-----------------------------------------------------------------------------
(* Sessions *)

Nothing == [a \in Accounts |-> 0]

Work ==
    [op : {"request", "deliver", "fail_delivery", "request_payout"},
     at : {"loaded", "flush", "award", "commit"},
     account : Accounts,            \* whose request it is
     touches : SUBSET Accounts,     \* the wallets it updates
     value : [Accounts -> Nat],     \* what it read or will write of each
     gain : [Accounts -> Nat],      \* what the rows it inserts add up to
     order : Orders \cup {None},
     today : BOOLEAN,               \* is the earnings row dated today?
     awards : SUBSET Rules,         \* incentives it inserts, dated today
     amount : Nat,                  \* of the payout
     id : PayoutIds \cup {None}]

Idle == [at |-> "idle"]
Busy(s) == sess[s] # Idle

Step(s, from, work) ==
    /\ Busy(s) /\ sess[s].at = from
    /\ sess' = [sess EXCEPT ![s] = work]

-----------------------------------------------------------------------------
(* Handlers *)

\* Authentication loads the account's row, with its balance.
Request(s, a) ==
    /\ ~Busy(s)
    /\ sess' = [sess EXCEPT ![s] =
         [op |-> "request", at |-> "loaded", account |-> a, touches |-> {},
          value |-> [Nothing EXCEPT ![a] = balance[a]], gain |-> Nothing,
          order |-> None, today |-> TRUE, awards |-> {}, amount |-> 0,
          id |-> None]]
    /\ UNCHANGED <<db, tasks, faults>>

\* The request only reads, or a check of the handler refuses it.
Respond(s) ==
    /\ Step(s, "loaded", Idle)
    /\ UNCHANGED <<db, tasks, faults>>

\* deliver: the restaurant's row is read here, the partner's is the one that
\* authentication loaded.
Deliver(s, o) ==
    LET w == sess[s]
        p == Owner[o]
    IN  /\ Busy(s) /\ w.account = p
        /\ asg[o] = "PICKED_UP"
        /\ Step(s, "loaded",
             [w EXCEPT !.op = "deliver", !.at = "flush",
                       !.touches = {p, Restaurant},
                       !.value = [w.value EXCEPT
                            ![p] = @ + Pay[o],
                            ![Restaurant] = balance[Restaurant] + Net[o]],
                       !.gain = [w.gain EXCEPT ![p] = Pay[o],
                                               ![Restaurant] = Net[o]],
                       !.order = o, !.today = TRUE])
        /\ UNCHANGED <<db, tasks, faults>>

\* The row's earned_at is the start of the transaction: its day was fixed
\* when authentication began.
FailDelivery(s, o) ==
    LET w == sess[s]
        p == Owner[o]
    IN  /\ Busy(s) /\ w.account = p
        /\ asg[o] = "PICKED_UP"
        /\ Step(s, "loaded",
             [w EXCEPT !.op = "fail_delivery", !.at = "flush",
                       !.touches = {p},
                       !.value[p] = @ + PartialPay,
                       !.gain[p] = PartialPay,
                       !.order = o])
        /\ UNCHANGED <<db, tasks, faults>>

RequestPayout(s, n) ==
    LET w == sess[s]
        a == w.account
    IN  /\ Busy(s)
        /\ n <= w.value[a]
        /\ n >= MinPayout[a]
        /\ Step(s, "loaded",
             [w EXCEPT !.op = "request_payout", !.at = "flush",
                       !.touches = {a},
                       !.value[a] = @ - n,
                       !.amount = n])
        /\ UNCHANGED <<db, tasks, faults>>

-----------------------------------------------------------------------------
(* The flush and what follows it *)

\* Mutant: nothing is flushed, so locked, before check_and_award reads.
RowsFree_Always(s) == TRUE

\* No other open transaction has updated a wallet that s updates.
RowsFree(s) ==
    \A t \in Sessions \ {s} :
        Busy(t) /\ sess[t].at \in {"award", "commit"}
            => sess[t].touches \cap sess[s].touches = {}

\* The credits are flushed by calculate_earnings and fail_delivery.
FlushCredit(s) ==
    LET w == sess[s]
    IN  /\ Busy(s) /\ w.op \in {"deliver", "fail_delivery"}
        /\ RowsFree(s)
        /\ Step(s, "flush",
             [w EXCEPT !.at = IF w.op = "deliver" THEN "award" ELSE "commit"])
        /\ UNCHANGED <<db, tasks, faults>>

\* Flushing a payout gives it its id, with which the task is created at once,
\* before the commit.
FlushPayout(s, k) ==
    LET w == sess[s]
    IN  /\ Busy(s) /\ w.op = "request_payout"
        /\ RowsFree(s)
        /\ payout[k] = NoPayout /\ k \notin tasks
        /\ \A t \in Sessions : Busy(t) => sess[t].id # k
        /\ Step(s, "flush", [w EXCEPT !.at = "commit", !.id = k])
        /\ tasks' = tasks \cup {k}
        /\ UNCHANGED <<db, faults>>

\* Mutant: the count leaves the session's own row out.
TodayCount_Committed(s) == rows[sess[s].account]

\* The partner's earnings rows of today that the session sees: the committed
\* ones and its own.
TodayCount(s) == rows[sess[s].account] + (IF sess[s].today THEN 1 ELSE 0)

Due(s) ==
    {r \in Rules : /\ awards[sess[s].account][r] = 0
                   /\ TodayCount(s) >= Threshold[r]}

\* Mutant: award_incentive credits the wallet without inserting its row.
CheckAndAward_NoRow(s) ==
    LET w == sess[s]
        a == w.account
    IN  /\ Busy(s)
        /\ Step(s, "award",
             [w EXCEPT !.at = "commit", !.value[a] = @ + Bonus[Due(s)]])
        /\ UNCHANGED <<db, tasks, faults>>

CheckAndAward(s) ==
    LET w == sess[s]
        a == w.account
    IN  /\ Busy(s)
        /\ Step(s, "award",
             [w EXCEPT !.at = "commit", !.awards = Due(s),
                       !.value[a] = @ + Bonus[Due(s)],
                       !.gain[a] = @ + Bonus[Due(s)]])
        /\ UNCHANGED <<db, tasks, faults>>

Outcome(w) == IF w.op = "deliver" THEN "DELIVERED" ELSE "FAILED"

\* Mutant: of the two wallets only the partner's is written.
CommitCredit_PartnerOnly(s) ==
    LET w == sess[s]
        p == w.account
    IN  /\ Busy(s) /\ w.op \in {"deliver", "fail_delivery"}
        /\ Step(s, "commit", Idle)
        /\ balance' = [balance EXCEPT ![p] = w.value[p]]
        /\ credited' = [a \in Accounts |-> credited[a] + w.gain[a]]
        /\ asg' = [asg EXCEPT ![w.order] = Outcome(w)]
        /\ rows' = [rows EXCEPT ![p] = @ + (IF w.today THEN 1 ELSE 0)]
        /\ awards' = [awards EXCEPT ![p] = [r \in Rules |->
                          @[r] + (IF r \in w.awards THEN 1 ELSE 0)]]
        /\ UNCHANGED <<payout, tasks, faults>>

CommitCredit(s) ==
    LET w == sess[s]
        p == w.account
    IN  /\ Busy(s) /\ w.op \in {"deliver", "fail_delivery"}
        /\ Step(s, "commit", Idle)
        /\ balance' = [a \in Accounts |->
                          IF a \in w.touches THEN w.value[a] ELSE balance[a]]
        /\ credited' = [a \in Accounts |-> credited[a] + w.gain[a]]
        /\ asg' = [asg EXCEPT ![w.order] = Outcome(w)]
        /\ rows' = [rows EXCEPT ![p] = @ + (IF w.today THEN 1 ELSE 0)]
        /\ awards' = [awards EXCEPT ![p] = [r \in Rules |->
                          @[r] + (IF r \in w.awards THEN 1 ELSE 0)]]
        /\ UNCHANGED <<payout, tasks, faults>>

\* Mutant: the payout's row is never added to the session.
CommitPayout_NoRow(s) ==
    LET w == sess[s]
        a == w.account
    IN  /\ Busy(s) /\ w.op = "request_payout"
        /\ Step(s, "commit", Idle)
        /\ balance' = [balance EXCEPT ![a] = w.value[a]]
        /\ UNCHANGED <<credited, asg, rows, awards, payout, tasks, faults>>

CommitPayout(s) ==
    LET w == sess[s]
        a == w.account
    IN  /\ Busy(s) /\ w.op = "request_payout"
        /\ Step(s, "commit", Idle)
        /\ balance' = [balance EXCEPT ![a] = w.value[a]]
        /\ payout' = [payout EXCEPT ![w.id] =
                [account |-> a, amount |-> w.amount, status |-> "PROCESSING"]]
        /\ UNCHANGED <<credited, asg, rows, awards, tasks, faults>>

-----------------------------------------------------------------------------
(* Payout tasks, the clock, faults *)

\* Mutant: the task only reads the payout.
PayOut_Dropped(k) ==
    /\ k \in tasks
    /\ tasks' = tasks \ {k}
    /\ UNCHANGED <<db, sess, faults>>

\* Two seconds after the flush.  The task gives up if it does not see the row.
PayOut(k) ==
    /\ k \in tasks
    /\ tasks' = tasks \ {k}
    /\ payout' = IF payout[k] = NoPayout THEN payout
                 ELSE [payout EXCEPT ![k].status = "PAID"]
    /\ UNCHANGED <<balance, credited, asg, rows, awards, sess, faults>>

\* Midnight: no row, committed or not, is dated today.
NewDay ==
    /\ rows' = [p \in Partners |-> 0]
    /\ awards' = [p \in Partners |-> [r \in Rules |-> 0]]
    /\ sess' = [s \in Sessions |->
                   IF Busy(s)
                   THEN [sess[s] EXCEPT !.today = FALSE, !.awards = {}]
                   ELSE Idle]
    /\ UNCHANGED <<balance, credited, asg, payout, tasks, faults>>

\* The transaction fails and rolls back; tasks it created live on.
FailTransaction(s) ==
    /\ faults < MaxFaults
    /\ Busy(s)
    /\ sess' = [sess EXCEPT ![s] = Idle]
    /\ faults' = faults + 1
    /\ UNCHANGED <<db, tasks>>

FailTask(k) ==
    /\ faults < MaxFaults
    /\ k \in tasks
    /\ tasks' = tasks \ {k}
    /\ faults' = faults + 1
    /\ UNCHANGED <<db, sess>>

\* The server process ends and starts again.
Restart ==
    /\ faults < MaxFaults
    /\ sess' = [s \in Sessions |-> Idle]
    /\ tasks' = {}
    /\ faults' = faults + 1
    /\ UNCHANGED db

-----------------------------------------------------------------------------
(* The specification *)

Init ==
    /\ balance = Nothing
    /\ credited = Nothing
    /\ asg = [o \in Orders |-> "PICKED_UP"]
    /\ rows = [p \in Partners |-> 0]
    /\ awards = [p \in Partners |-> [r \in Rules |-> 0]]
    /\ payout = [k \in PayoutIds |-> NoPayout]
    /\ tasks = {}
    /\ sess = [s \in Sessions |-> Idle]
    /\ faults = 0

Handler(s) ==
    \/ Respond(s)
    \/ \E o \in Orders : Deliver(s, o) \/ FailDelivery(s, o)
    \/ \E n \in Amounts : RequestPayout(s, n)

Finish(s) ==
    \/ FlushCredit(s)
    \/ \E k \in PayoutIds : FlushPayout(s, k)
    \/ CheckAndAward(s)
    \/ CommitCredit(s)
    \/ CommitPayout(s)

Next ==
    \/ \E s \in Sessions :
         \/ \E a \in Accounts : Request(s, a)
         \/ Handler(s)
         \/ Finish(s)
         \/ FailTransaction(s)
    \/ \E k \in PayoutIds : PayOut(k) \/ FailTask(k)
    \/ NewDay
    \/ Restart

Spec == Init /\ [][Next]_vars

\* The event loop resumes a sleeping task.
Fairness == \A k \in PayoutIds : WF_vars(PayOut(k))

FairSpec == Spec /\ Fairness

-----------------------------------------------------------------------------
(* Properties *)

PayoutRows ==
    [account : Accounts, amount : Nat \ {0}, status : {"PROCESSING", "PAID"}]

\* Every variable has values of its kind.
TypeOK ==
    /\ balance \in [Accounts -> Nat]
    /\ credited \in [Accounts -> Nat]
    /\ asg \in [Orders -> {"PICKED_UP", "DELIVERED", "FAILED"}]
    /\ rows \in [Partners -> Nat]
    /\ awards \in [Partners -> [Rules -> Nat]]
    /\ payout \in [PayoutIds -> PayoutRows \cup {NoPayout}]
    /\ tasks \in SUBSET PayoutIds
    /\ sess \in [Sessions -> Work \cup {Idle}]
    /\ faults \in 0..MaxFaults

\* However requests overlap, a wallet holds no more than the rows of its owner
\* add up to: a lost update can swallow money, it cannot make any.
WalletBacked == \A a \in Accounts : balance[a] <= credited[a]

\* However deliveries overlap, a rule is awarded once a day.  No constraint on
\* partner_incentives says so; the row lock on the partner does, since
\* check_and_award reads after the flush that takes it.
AwardedOnce == \A p \in Partners, r \in Rules : awards[p][r] <= 1

\* A delivery that takes the partner's count of the day to a rule's threshold
\* leaves the rule awarded, whatever else is in flight.
ThresholdRewarded ==
    [][\A s \in Sessions :
         /\ Busy(s) /\ sess[s].op = "deliver" /\ sess[s].today
         /\ rows'[sess[s].account] > rows[sess[s].account]
         /\ sess'[s] = Idle
         => \A r \in Rules :
              rows'[sess[s].account] >= Threshold[r]
                => awards'[sess[s].account][r] > 0]_vars

\* The payouts of an account, and what they add up to, unit by unit.
PaidTo(a) ==
    {k \in PayoutIds : payout[k] # NoPayout /\ payout[k].account = a}
PaidUnits(a) == UNION {{k} \X (1..payout[k].amount) : k \in PaidTo(a)}
PaidOut(a)   == Cardinality(PaidUnits(a))

\* As long as requests do not overlap, a balance is what was earned less what
\* was paid out, over any sequence of deliveries, failures and payouts.
BalanceExact ==
    \A a \in Accounts : balance[a] + PaidOut(a) = credited[a]

\* As long as requests do not overlap, the wallets keep the ledger's promise.
Book == INSTANCE Ledger WITH
            Accounts <- Accounts, PayoutIds <- PayoutIds, NoPayout <- NoPayout,
            balance <- balance, payout <- payout
KeepsLedger == Book!Spec

\* A delivery adds its net amount to the restaurant's wallet.
RestaurantCredited ==
    [][\A o \in Orders :
         asg[o] = "PICKED_UP" /\ asg'[o] = "DELIVERED"
           => balance'[Restaurant] = balance[Restaurant] + Net[o]]_vars

\* A payout whose task still sleeps when its row is there, once the faults are
\* over, is paid (payout_service.py:75-83): later requests do not prevent it.
PayoutSettles ==
    \A k \in PayoutIds :
        (payout[k] # NoPayout /\ k \in tasks /\ faults = MaxFaults)
            ~> (payout[k] # NoPayout /\ payout[k].status = "PAID")
=============================================================================
