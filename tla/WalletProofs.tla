---------------------------- MODULE WalletProofs ----------------------------
(***************************************************************************)
(* Proofs about Wallet for any sets of partners, deliveries, rules and     *)
(* sessions and any amounts.                                               *)
(*                                                                         *)
(* First, for overlapping requests: a wallet never exceeds what its owner  *)
(* earned, and a rule is awarded once a day and not missed.  The first     *)
(* holds because a stale balance is at most today's earnings; the second   *)
(* because sessions past their flush do not share a wallet.  Then, for     *)
(* requests that do not overlap: the wallets implement Ledger, and every   *)
(* balance is exact, by counting the money paid out unit by unit.          *)
(***************************************************************************)
EXTENDS Wallet, FiniteSetTheorems, TLAPS

-----------------------------------------------------------------------------
(* The inductive invariant for overlapping requests *)

Credits == {"deliver", "fail_delivery"}

\* What a session has filled in by the time it stands where it stands.
Shaped(w) ==
    /\ w.at = "loaded" => /\ w.op = "request"
                          /\ w.touches = {}
                          /\ w.gain = Nothing
    /\ w.at # "loaded" => w.op # "request" /\ w.account \in w.touches
    /\ w.at = "award" => w.op = "deliver"
    /\ w.op \in Credits => w.order \in Orders /\ w.account \in Partners
    /\ w.op = "request_payout" => /\ w.touches = {w.account}
                                  /\ w.gain = Nothing
                                  /\ w.amount # 0
                                  /\ w.at = "commit" => w.id \in PayoutIds
    /\ w.awards # {} => w.op = "deliver" /\ w.at = "commit"

\* What a session read or will write is covered by the rows that are there
\* and those it inserts itself.
Covered(w) ==
    \A a \in w.touches \cup {w.account} : w.value[a] <= credited[a] + w.gain[a]

\* The awards a session is about to insert are not there yet, and none that
\* its own earnings row makes due is missing.
AwardsRight(w) ==
    w.op = "deliver" /\ w.at = "commit" =>
      /\ \A r \in w.awards : awards[w.account][r] = 0
      /\ w.today => \A r \in Rules :
            rows[w.account] + 1 >= Threshold[r]
              => awards[w.account][r] > 0 \/ r \in w.awards

\* Past its flush a session holds the row locks of the wallets it updates.
Holds(s) == Busy(s) /\ sess[s].at \in {"award", "commit"}

LocksExclusive ==
    \A s, t \in Sessions :
        s # t /\ Holds(s) /\ Holds(t)
            => sess[s].touches \cap sess[t].touches = {}

SessionsRight ==
    \A s \in Sessions : Busy(s) =>
        Shaped(sess[s]) /\ Covered(sess[s]) /\ AwardsRight(sess[s])

WalletInv ==
    /\ TypeOK
    /\ WalletBacked
    /\ AwardedOnce
    /\ SessionsRight
    /\ LocksExclusive

-----------------------------------------------------------------------------
(* Steps *)

\* The initial state satisfies the invariant.
LEMMA WalletInit == Init => WalletInv
  <1>. SUFFICES ASSUME Init PROVE WalletInv
    OBVIOUS
  <1>. USE WalletAssumption DEF Init
  <1>1. TypeOK
    BY DEF TypeOK, Nothing
  <1>2. WalletBacked /\ AwardedOnce
    BY DEF WalletBacked, AwardedOnce, Nothing
  <1>3. SessionsRight /\ LocksExclusive
    BY DEF SessionsRight, LocksExclusive, Holds, Busy
  <1>4. QED
    BY <1>1, <1>2, <1>3 DEF WalletInv

\* A step that leaves the database alone and moves one session keeps the
\* invariant, if the session's new state is right and locks no locked row.
LEMMA SessionMoves ==
    ASSUME WalletInv, NEW s \in Sessions, NEW w \in Work,
           Shaped(w), Covered(w), AwardsRight(w),
           w.at \in {"award", "commit"} =>
               \A t \in Sessions \ {s} :
                   Holds(t) => sess[t].touches \cap w.touches = {},
           sess' = [sess EXCEPT ![s] = w],
           tasks' \in SUBSET PayoutIds,
           UNCHANGED <<db, faults>>
    PROVE  WalletInv'
  <1>. USE DEF WalletInv, db
  <1>1. /\ sess'[s] = w
        /\ \A t \in Sessions \ {s} : sess'[t] = sess[t]
    BY DEF TypeOK
  <1>2. TypeOK'
    BY DEF TypeOK
  <1>3. WalletBacked' /\ AwardedOnce'
    BY DEF WalletBacked, AwardedOnce
  <1>4. SessionsRight'
    <2>. SUFFICES ASSUME NEW t \in Sessions, Busy(t)'
                  PROVE  (/\ Shaped(sess[t])
                          /\ Covered(sess[t])
                          /\ AwardsRight(sess[t]))'
      BY DEF SessionsRight
    <2>1. CASE t = s
      BY <2>1, <1>1 DEF Shaped, Covered, AwardsRight
    <2>2. CASE t # s
      <3>1. Busy(t) /\ sess'[t] = sess[t]
        BY <2>2, <1>1 DEF Busy
      <3>2. QED
        BY <3>1 DEF SessionsRight, Shaped, Covered, AwardsRight
    <2>3. QED
      BY <2>1, <2>2
  <1>5. LocksExclusive'
    BY <1>1 DEF LocksExclusive, Holds, Busy
  <1>6. QED
    BY <1>2, <1>3, <1>4, <1>5

\* Sessions may end without a trace in the database.
LEMMA SessionsEnd ==
    ASSUME WalletInv,
           sess' \in [Sessions -> Work \cup {Idle}],
           \A s \in Sessions : sess'[s] = sess[s] \/ sess'[s] = Idle,
           tasks' \in SUBSET PayoutIds,
           faults' \in 0..MaxFaults,
           UNCHANGED db
    PROVE  WalletInv'
  <1>. USE DEF WalletInv, db
  <1>1. TypeOK' /\ WalletBacked' /\ AwardedOnce'
    BY DEF TypeOK, WalletBacked, AwardedOnce
  <1>2. \A s \in Sessions : Busy(s)' => Busy(s) /\ sess'[s] = sess[s]
    BY DEF Busy
  <1>3. SessionsRight'
    BY <1>2 DEF SessionsRight, Shaped, Covered, AwardsRight
  <1>4. LocksExclusive'
    BY <1>2 DEF LocksExclusive, Holds
  <1>5. QED
    BY <1>1, <1>3, <1>4

\* A request starts with the committed balance.
LEMMA RequestStep ==
    ASSUME WalletInv, NEW s \in Sessions, NEW a \in Accounts, Request(s, a)
    PROVE  WalletInv'
  <1>. DEFINE w == [op |-> "request", at |-> "loaded", account |-> a,
                    touches |-> {}, value |-> [Nothing EXCEPT ![a] = balance[a]],
                    gain |-> Nothing, order |-> None, today |-> TRUE,
                    awards |-> {}, amount |-> 0, id |-> None]
  <1>1. w \in Work
    <2>1. [Nothing EXCEPT ![a] = balance[a]] \in [Accounts -> Nat]
      BY DEF WalletInv, TypeOK, Nothing
    <2>2. Nothing \in [Accounts -> Nat]
      BY DEF Nothing
    <2>3. QED
      BY <2>1, <2>2 DEF Work
  <1>2. Shaped(w)
    BY DEF Shaped, Credits
  <1>3. Covered(w)
    BY DEF Covered, Nothing, WalletInv, WalletBacked, TypeOK
  <1>4. AwardsRight(w)
    BY DEF AwardsRight
  <1>5. sess' = [sess EXCEPT ![s] = w] /\ tasks' \in SUBSET PayoutIds
    BY DEF Request, WalletInv, TypeOK
  <1>6. UNCHANGED <<db, faults>>
    BY DEF Request
  <1>. HIDE DEF w
  <1>7. w.at = "loaded"
    BY DEF w
  <1>8. QED
    BY <1>1, <1>2, <1>3, <1>4, <1>5, <1>6, <1>7, SessionMoves

\* What is known of a session that is busy.
LEMMA BusyFacts ==
    ASSUME WalletInv, NEW s \in Sessions, Busy(s)
    PROVE  /\ sess[s] \in Work
           /\ Shaped(sess[s]) /\ Covered(sess[s]) /\ AwardsRight(sess[s])
  BY DEF WalletInv, TypeOK, SessionsRight, Busy

\* A delivery adds to what it read the same amounts as to the rows.
LEMMA DeliverStep ==
    ASSUME WalletInv, NEW s \in Sessions, NEW o \in Orders, Deliver(s, o)
    PROVE  WalletInv'
  <1>. DEFINE v == sess[s]
              p == Owner[o]
              value == [v.value EXCEPT ![p] = @ + Pay[o],
                             ![Restaurant] = balance[Restaurant] + Net[o]]
              gain == [v.gain EXCEPT ![p] = Pay[o], ![Restaurant] = Net[o]]
              w == [v EXCEPT !.op = "deliver", !.at = "flush",
                             !.touches = {p, Restaurant},
                             !.value = value, !.gain = gain,
                             !.order = o, !.today = TRUE]
  <1>1. /\ v \in Work /\ Shaped(v) /\ Covered(v)
        /\ v.at = "loaded" /\ v.account = p
    BY BusyFacts DEF Deliver, Step
  <1>2. /\ p \in Partners /\ p \in Accounts /\ p # Restaurant
        /\ Restaurant \in Accounts
        /\ Pay[o] \in Nat /\ Net[o] \in Nat
    BY WalletAssumption DEF Accounts
  <1>3. v.value \in [Accounts -> Nat] /\ v.gain = Nothing /\ v.awards = {}
    BY <1>1 DEF Work, Shaped
  <1>4. balance \in [Accounts -> Nat] /\ credited \in [Accounts -> Nat]
    BY DEF WalletInv, TypeOK
  <1>5. value \in [Accounts -> Nat] /\ gain \in [Accounts -> Nat]
    BY <1>2, <1>3, <1>4 DEF Nothing
  <1>6. /\ value[p] <= credited[p] + gain[p]
        /\ value[Restaurant] <= credited[Restaurant] + gain[Restaurant]
    <2>1. v.value[p] <= credited[p]
      BY <1>1, <1>2, <1>3, <1>4 DEF Covered, Nothing
    <2>2. balance[Restaurant] <= credited[Restaurant]
      BY <1>2 DEF WalletInv, WalletBacked
    <2>3. QED
      BY <2>1, <2>2, <1>2, <1>3, <1>4 DEF Nothing
  <1>7. /\ sess' = [sess EXCEPT ![s] = w]
        /\ tasks' \in SUBSET PayoutIds
        /\ UNCHANGED <<db, faults>>
    BY <1>1, <1>2 DEF Deliver, Step, WalletInv, TypeOK
  <1>. HIDE DEF value, gain
  <1>8. w \in Work
    BY <1>1, <1>2, <1>5 DEF Work
  <1>9. /\ w.at = "flush" /\ w.op = "deliver" /\ w.account = p
        /\ w.touches = {p, Restaurant} /\ w.awards = {} /\ w.order = o
        /\ w.value = value /\ w.gain = gain
    BY <1>1, <1>3 DEF Work
  <1>. HIDE DEF w
  <1>10. Shaped(w) /\ AwardsRight(w)
    BY <1>2, <1>9 DEF Shaped, AwardsRight, Credits
  <1>11. Covered(w)
    BY <1>6, <1>9 DEF Covered
  <1>12. QED
    BY <1>7, <1>8, <1>9, <1>10, <1>11, SessionMoves

\* So does a failed delivery, for the partner alone.
LEMMA FailDeliveryStep ==
    ASSUME WalletInv, NEW s \in Sessions, NEW o \in Orders, FailDelivery(s, o)
    PROVE  WalletInv'
  <1>. DEFINE v == sess[s]
              p == Owner[o]
              value == [v.value EXCEPT ![p] = @ + PartialPay]
              gain == [v.gain EXCEPT ![p] = PartialPay]
              w == [v EXCEPT !.op = "fail_delivery", !.at = "flush",
                             !.touches = {p},
                             !.value = value, !.gain = gain, !.order = o]
  <1>1. /\ v \in Work /\ Shaped(v) /\ Covered(v)
        /\ v.at = "loaded" /\ v.account = p
    BY BusyFacts DEF FailDelivery, Step
  <1>2. p \in Partners /\ p \in Accounts /\ PartialPay \in Nat
    BY WalletAssumption DEF Accounts
  <1>3. v.value \in [Accounts -> Nat] /\ v.gain = Nothing /\ v.awards = {}
    BY <1>1 DEF Work, Shaped
  <1>4. credited \in [Accounts -> Nat]
    BY DEF WalletInv, TypeOK
  <1>5. value \in [Accounts -> Nat] /\ gain \in [Accounts -> Nat]
    BY <1>2, <1>3 DEF Nothing
  <1>6. value[p] <= credited[p] + gain[p]
    <2>1. v.value[p] <= credited[p]
      BY <1>1, <1>2, <1>3, <1>4 DEF Covered, Nothing
    <2>2. QED
      BY <2>1, <1>2, <1>3, <1>4 DEF Nothing
  <1>7. /\ sess' = [sess EXCEPT ![s] = w]
        /\ tasks' \in SUBSET PayoutIds
        /\ UNCHANGED <<db, faults>>
    BY <1>1, <1>2 DEF FailDelivery, Step, WalletInv, TypeOK
  <1>. HIDE DEF value, gain
  <1>8. w \in Work
    BY <1>1, <1>2, <1>5 DEF Work
  <1>9. /\ w.at = "flush" /\ w.op = "fail_delivery" /\ w.account = p
        /\ w.touches = {p} /\ w.awards = {} /\ w.order = o
        /\ w.value = value /\ w.gain = gain
    BY <1>1, <1>3 DEF Work
  <1>. HIDE DEF w
  <1>10. Shaped(w) /\ AwardsRight(w)
    BY <1>2, <1>9 DEF Shaped, AwardsRight, Credits
  <1>11. Covered(w)
    BY <1>6, <1>9 DEF Covered
  <1>12. QED
    BY <1>7, <1>8, <1>9, <1>10, <1>11, SessionMoves

\* A payout takes no more than the balance that was read.
LEMMA RequestPayoutStep ==
    ASSUME WalletInv, NEW s \in Sessions, NEW n \in Amounts, RequestPayout(s, n)
    PROVE  WalletInv'
  <1>. DEFINE v == sess[s]
              a == v.account
              value == [v.value EXCEPT ![a] = @ - n]
              w == [v EXCEPT !.op = "request_payout", !.at = "flush",
                             !.touches = {a}, !.value = value, !.amount = n]
  <1>1. /\ v \in Work /\ Shaped(v) /\ Covered(v)
        /\ v.at = "loaded" /\ n <= v.value[a] /\ n >= MinPayout[a]
    BY BusyFacts DEF RequestPayout, Step
  <1>2. a \in Accounts /\ n \in Nat /\ MinPayout[a] \in Nat \ {0}
    BY <1>1, WalletAssumption DEF Work
  <1>3. /\ v.value \in [Accounts -> Nat]
        /\ v.gain = Nothing /\ v.awards = {}
    BY <1>1 DEF Work, Shaped
  <1>4. credited \in [Accounts -> Nat]
    BY DEF WalletInv, TypeOK
  <1>5. value \in [Accounts -> Nat] /\ n # 0
    BY <1>1, <1>2, <1>3
  <1>6. value[a] <= credited[a] + Nothing[a]
    BY <1>1, <1>2, <1>3, <1>4 DEF Covered, Nothing
  <1>7. /\ sess' = [sess EXCEPT ![s] = w]
        /\ tasks' \in SUBSET PayoutIds
        /\ UNCHANGED <<db, faults>>
    BY <1>1, <1>2 DEF RequestPayout, Step, WalletInv, TypeOK
  <1>. HIDE DEF value
  <1>8. w \in Work
    BY <1>1, <1>2, <1>5 DEF Work
  <1>9. /\ w.at = "flush" /\ w.op = "request_payout" /\ w.account = a
        /\ w.touches = {a} /\ w.awards = {} /\ w.amount = n
        /\ w.value = value /\ w.gain = Nothing
    BY <1>1, <1>3 DEF Work
  <1>. HIDE DEF w
  <1>10. Shaped(w) /\ AwardsRight(w)
    BY <1>2, <1>5, <1>9 DEF Shaped, AwardsRight, Credits
  <1>11. Covered(w)
    BY <1>6, <1>9 DEF Covered
  <1>12. QED
    BY <1>7, <1>8, <1>9, <1>10, <1>11, SessionMoves

\* The flush of a credit takes locks that nobody holds.
LEMMA FlushCreditStep ==
    ASSUME WalletInv, NEW s \in Sessions, FlushCredit(s)
    PROVE  WalletInv'
  <1>. DEFINE v == sess[s]
              w == [v EXCEPT !.at = IF v.op = "deliver" THEN "award" ELSE "commit"]
  <1>1. /\ v \in Work /\ Shaped(v) /\ Covered(v)
        /\ v.at = "flush" /\ v.op \in Credits
    BY BusyFacts DEF FlushCredit, Step, Credits
  <1>2. /\ sess' = [sess EXCEPT ![s] = w]
        /\ tasks' \in SUBSET PayoutIds
        /\ UNCHANGED <<db, faults>>
    BY DEF FlushCredit, Step, WalletInv, TypeOK
  <1>3. w \in Work
    BY <1>1 DEF Work
  <1>4. /\ w.at = IF v.op = "deliver" THEN "award" ELSE "commit"
        /\ w.op = v.op /\ w.account = v.account /\ w.touches = v.touches
        /\ w.value = v.value /\ w.gain = v.gain /\ w.order = v.order
        /\ w.awards = v.awards
    BY <1>1 DEF Work
  <1>5. \A t \in Sessions \ {s} :
            Holds(t) => sess[t].touches \cap v.touches = {}
    BY DEF FlushCredit, RowsFree, Holds
  <1>. HIDE DEF w
  <1>6. Shaped(w) /\ Covered(w) /\ AwardsRight(w)
    BY <1>1, <1>4 DEF Shaped, Covered, AwardsRight, Credits
  <1>7. QED
    BY <1>2, <1>3, <1>4, <1>5, <1>6, SessionMoves

\* So does the flush of a payout.
LEMMA FlushPayoutStep ==
    ASSUME WalletInv, NEW s \in Sessions, NEW k \in PayoutIds, FlushPayout(s, k)
    PROVE  WalletInv'
  <1>. DEFINE v == sess[s]
              w == [v EXCEPT !.at = "commit", !.id = k]
  <1>1. /\ v \in Work /\ Shaped(v) /\ Covered(v)
        /\ v.at = "flush" /\ v.op = "request_payout"
    BY BusyFacts DEF FlushPayout, Step
  <1>2. /\ sess' = [sess EXCEPT ![s] = w]
        /\ tasks' \in SUBSET PayoutIds
        /\ UNCHANGED <<db, faults>>
    BY DEF FlushPayout, Step, WalletInv, TypeOK
  <1>3. w \in Work
    BY <1>1 DEF Work
  <1>4. /\ w.at = "commit" /\ w.id = k
        /\ w.op = v.op /\ w.account = v.account /\ w.touches = v.touches
        /\ w.value = v.value /\ w.gain = v.gain /\ w.order = v.order
        /\ w.awards = v.awards /\ w.amount = v.amount
    BY <1>1 DEF Work
  <1>5. \A t \in Sessions \ {s} :
            Holds(t) => sess[t].touches \cap v.touches = {}
    BY DEF FlushPayout, RowsFree, Holds
  <1>. HIDE DEF w
  <1>6. Shaped(w) /\ Covered(w) /\ AwardsRight(w)
    BY <1>1, <1>4 DEF Shaped, Covered, AwardsRight, Credits
  <1>7. QED
    BY <1>2, <1>3, <1>4, <1>5, <1>6, SessionMoves

\* The awards are decided on rows that only the session itself can change
\* before it commits.
LEMMA CheckAndAwardStep ==
    ASSUME WalletInv, NEW s \in Sessions, CheckAndAward(s)
    PROVE  WalletInv'
  <1>. DEFINE v == sess[s]
              a == v.account
              bonus == Bonus[Due(s)]
              value == [v.value EXCEPT ![a] = @ + bonus]
              gain == [v.gain EXCEPT ![a] = @ + bonus]
              w == [v EXCEPT !.at = "commit", !.awards = Due(s),
                             !.value = value, !.gain = gain]
  <1>1. /\ v \in Work /\ Shaped(v) /\ Covered(v) /\ Busy(s)
        /\ v.at = "award" /\ v.op = "deliver"
    BY BusyFacts DEF CheckAndAward, Step, Shaped
  <1>2. /\ a \in Partners /\ a \in Accounts /\ a \in v.touches
        /\ v.order \in Orders
    BY <1>1 DEF Shaped, Credits, Accounts
  <1>3. /\ v.value \in [Accounts -> Nat] /\ v.gain \in [Accounts -> Nat]
        /\ v.touches \subseteq Accounts /\ v.today \in BOOLEAN
    BY <1>1 DEF Work
  <1>4. Due(s) \in SUBSET Rules /\ bonus \in Nat
    BY WalletAssumption DEF Due
  <1>5. credited \in [Accounts -> Nat] /\ rows \in [Partners -> Nat]
        /\ awards \in [Partners -> [Rules -> Nat]]
    BY DEF WalletInv, TypeOK
  <1>6. value \in [Accounts -> Nat] /\ gain \in [Accounts -> Nat]
    BY <1>2, <1>3, <1>4
  <1>7. \A b \in v.touches : value[b] <= credited[b] + gain[b]
    <2>. SUFFICES ASSUME NEW b \in v.touches
                  PROVE  value[b] <= credited[b] + gain[b]
      OBVIOUS
    <2>1. b \in Accounts /\ v.value[b] <= credited[b] + v.gain[b]
      BY <1>1, <1>3 DEF Covered
    <2>2. QED
      BY <2>1, <1>2, <1>3, <1>4, <1>5
  <1>8. /\ sess' = [sess EXCEPT ![s] = w]
        /\ tasks' \in SUBSET PayoutIds
        /\ UNCHANGED <<db, faults>>
    BY DEF CheckAndAward, Step, WalletInv, TypeOK
  <1>. HIDE DEF value, gain, bonus
  <1>9. w \in Work
    BY <1>1, <1>4, <1>6 DEF Work
  <1>10. /\ w.at = "commit" /\ w.op = "deliver" /\ w.account = a
         /\ w.touches = v.touches /\ w.awards = Due(s)
         /\ w.value = value /\ w.gain = gain /\ w.order = v.order
         /\ w.today = v.today
    BY <1>1 DEF Work
  <1>11. \A t \in Sessions \ {s} :
            Holds(t) => sess[t].touches \cap v.touches = {}
    BY <1>1 DEF WalletInv, LocksExclusive, Holds
  <1>. HIDE DEF w
  <1>12. Shaped(w) /\ Covered(w)
    BY <1>2, <1>7, <1>10 DEF Shaped, Covered, Credits
  <1>13. AwardsRight(w)
    <2>1. \A r \in Rules : r \in Due(s) <=>
             awards[a][r] = 0
               /\ rows[a] + (IF v.today THEN 1 ELSE 0) >= Threshold[r]
      BY DEF Due, TodayCount
    <2>2. \A r \in Rules : awards[a][r] \in Nat
      BY <1>2, <1>5
    <2>3. QED
      BY <1>4, <1>10, <2>1, <2>2 DEF AwardsRight
  <1>14. QED
    BY <1>8, <1>9, <1>10, <1>11, <1>12, <1>13, SessionMoves

\* A commit that ends one session, adds to what some accounts earned, writes
\* covered balances, and changes today's rows of a locked partner only.
LEMMA CommitCreditStep ==
    ASSUME WalletInv, NEW s \in Sessions, CommitCredit(s)
    PROVE  WalletInv'
  <1>. DEFINE w == sess[s]
              p == w.account
  <1>1. /\ w \in Work /\ Shaped(w) /\ Covered(w) /\ AwardsRight(w) /\ Busy(s)
        /\ w.at = "commit" /\ w.op \in Credits
    BY BusyFacts DEF CommitCredit, Step, Credits
  <1>2. /\ p \in Partners /\ p \in w.touches /\ w.order \in Orders
        /\ w.touches \subseteq Accounts
        /\ w.value \in [Accounts -> Nat] /\ w.gain \in [Accounts -> Nat]
        /\ w.awards \subseteq Rules
    BY <1>1 DEF Shaped, Work
  <1>3. TypeOK
    BY DEF WalletInv
  <1>4. /\ sess'[s] = Idle
        /\ \A t \in Sessions \ {s} : sess'[t] = sess[t]
    BY <1>3 DEF CommitCredit, Step, TypeOK
  <1>5. TypeOK'
    <2>1. balance' \in [Accounts -> Nat] /\ credited' \in [Accounts -> Nat]
      BY <1>2, <1>3 DEF CommitCredit, TypeOK
    <2>2. asg' \in [Orders -> {"PICKED_UP", "DELIVERED", "FAILED"}]
      BY <1>2, <1>3 DEF CommitCredit, TypeOK, Outcome
    <2>3. rows' \in [Partners -> Nat] /\ awards' \in [Partners -> [Rules -> Nat]]
      BY <1>2, <1>3 DEF CommitCredit, TypeOK
    <2>4. sess' \in [Sessions -> Work \cup {Idle}]
      BY <1>3 DEF CommitCredit, Step, TypeOK
    <2>5. QED
      BY <1>3, <2>1, <2>2, <2>3, <2>4 DEF CommitCredit, TypeOK
  <1>6. \A a \in Accounts : credited[a] \in Nat /\ w.gain[a] \in Nat
                              /\ credited'[a] = credited[a] + w.gain[a]
    BY <1>2, <1>3 DEF CommitCredit, TypeOK
  <1>7. WalletBacked'
    <2>. SUFFICES ASSUME NEW a \in Accounts PROVE balance'[a] <= credited'[a]
      BY DEF WalletBacked
    <2>1. CASE a \in w.touches
      BY <1>1, <1>6, <2>1 DEF Covered, CommitCredit
    <2>2. CASE a \notin w.touches
      <3>1. balance'[a] = balance[a] /\ balance[a] <= credited[a]
        BY <2>2 DEF CommitCredit, WalletInv, WalletBacked
      <3>2. balance[a] \in Nat
        BY <1>3 DEF TypeOK
      <3>3. QED
        BY <3>1, <3>2, <1>6
    <2>3. QED
      BY <2>1, <2>2
  <1>8. \A q \in Partners \ {p} : rows'[q] = rows[q] /\ awards'[q] = awards[q]
    BY <1>3 DEF CommitCredit, TypeOK
  <1>9. AwardedOnce'
    <2>. SUFFICES ASSUME NEW q \in Partners, NEW r \in Rules
                  PROVE  awards'[q][r] <= 1
      BY DEF AwardedOnce
    <2>1. awards[q][r] <= 1 /\ awards[q][r] \in Nat
      BY <1>3 DEF WalletInv, AwardedOnce, TypeOK
    <2>2. CASE q = p
      <3>1. awards'[q][r] = awards[q][r] + (IF r \in w.awards THEN 1 ELSE 0)
        BY <2>2, <1>2, <1>3 DEF CommitCredit, TypeOK
      <3>2. r \in w.awards => awards[q][r] = 0
        BY <2>2, <1>1 DEF AwardsRight, Shaped
      <3>3. QED
        BY <3>1, <3>2, <2>1
    <2>3. QED
      BY <2>1, <2>2, <1>8
  <1>10. SessionsRight'
    <2>. SUFFICES ASSUME NEW t \in Sessions, Busy(t)'
                  PROVE  (/\ Shaped(sess[t])
                          /\ Covered(sess[t])
                          /\ AwardsRight(sess[t]))'
      BY DEF SessionsRight
    <2>1. t # s /\ Busy(t) /\ sess'[t] = sess[t]
      BY <1>4 DEF Busy
    <2>2. /\ sess[t] \in Work
          /\ Shaped(sess[t]) /\ Covered(sess[t]) /\ AwardsRight(sess[t])
      BY <2>1, BusyFacts
    <2>3. Shaped(sess[t])'
      BY <2>1, <2>2 DEF Shaped
    <2>4. Covered(sess[t])'
      <3>. SUFFICES ASSUME NEW a \in sess[t].touches \cup {sess[t].account}
                    PROVE  sess[t].value[a] <= credited'[a] + sess[t].gain[a]
        BY <2>1 DEF Covered
      <3>1. /\ a \in Accounts
            /\ sess[t].value[a] \in Nat /\ sess[t].gain[a] \in Nat
        BY <2>2 DEF Work
      <3>2. sess[t].value[a] <= credited[a] + sess[t].gain[a]
        BY <2>2 DEF Covered
      <3>3. QED
        BY <3>1, <3>2, <1>6
    <2>5. AwardsRight(sess[t])'
      <3>1. CASE sess[t].at = "commit" /\ sess[t].op = "deliver"
        <4>1. sess[t].account \in Partners /\ sess[t].account \in sess[t].touches
          BY <2>2, <3>1 DEF Shaped, Credits
        <4>2. sess[t].touches \cap w.touches = {}
          BY <2>1, <3>1, <1>1 DEF WalletInv, LocksExclusive, Holds
        <4>3. sess[t].account # p
          BY <4>1, <4>2, <1>2
        <4>4. QED
          BY <4>1, <4>3, <1>8, <2>1, <2>2 DEF AwardsRight
      <3>2. QED
        BY <3>1, <2>1 DEF AwardsRight
    <2>6. QED
      BY <2>3, <2>4, <2>5
  <1>11. LocksExclusive'
    BY <1>4 DEF WalletInv, LocksExclusive, Holds, Busy
  <1>12. QED
    BY <1>5, <1>7, <1>9, <1>10, <1>11 DEF WalletInv

\* A payout's commit writes a balance that is covered without new rows.
LEMMA CommitPayoutStep ==
    ASSUME WalletInv, NEW s \in Sessions, CommitPayout(s)
    PROVE  WalletInv'
  <1>. DEFINE w == sess[s]
              a == w.account
  <1>1. /\ w \in Work /\ Shaped(w) /\ Covered(w) /\ Busy(s)
        /\ w.at = "commit" /\ w.op = "request_payout"
    BY BusyFacts DEF CommitPayout, Step
  <1>2. /\ a \in Accounts /\ w.id \in PayoutIds
        /\ w.amount \in Nat \ {0} /\ w.value \in [Accounts -> Nat]
        /\ w.gain = Nothing
    BY <1>1 DEF Shaped, Work
  <1>3. TypeOK
    BY DEF WalletInv
  <1>4. /\ sess'[s] = Idle
        /\ \A t \in Sessions \ {s} : sess'[t] = sess[t]
        /\ UNCHANGED <<credited, asg, rows, awards, tasks, faults>>
    BY <1>3 DEF CommitPayout, Step, TypeOK
  <1>5. balance' = [balance EXCEPT ![a] = w.value[a]]
    BY DEF CommitPayout
  <1>6. TypeOK'
    <2>1. balance' \in [Accounts -> Nat]
      BY <1>2, <1>3, <1>5 DEF TypeOK
    <2>2. payout' \in [PayoutIds -> PayoutRows \cup {NoPayout}]
      BY <1>2, <1>3 DEF CommitPayout, TypeOK, PayoutRows
    <2>3. sess' \in [Sessions -> Work \cup {Idle}]
      BY <1>3 DEF CommitPayout, Step, TypeOK
    <2>4. QED
      BY <1>3, <1>4, <2>1, <2>2, <2>3 DEF TypeOK
  <1>7. WalletBacked'
    <2>1. w.value[a] <= credited[a]
      BY <1>1, <1>2, <1>3 DEF Covered, Nothing, TypeOK
    <2>2. QED
      BY <2>1, <1>3, <1>4, <1>5 DEF WalletInv, WalletBacked, TypeOK
  <1>8. AwardedOnce'
    BY <1>4 DEF WalletInv, AwardedOnce
  <1>9. \A t \in Sessions : Busy(t)' => Busy(t) /\ sess'[t] = sess[t]
    BY <1>4 DEF Busy
  <1>10. SessionsRight'
    BY <1>4, <1>9 DEF WalletInv, SessionsRight, Shaped, Covered, AwardsRight
  <1>11. LocksExclusive'
    BY <1>9 DEF WalletInv, LocksExclusive, Holds
  <1>12. QED
    BY <1>6, <1>7, <1>8, <1>10, <1>11 DEF WalletInv

\* The payout task touches the payout's row only.
LEMMA PayOutStep ==
    ASSUME WalletInv, NEW k \in PayoutIds, PayOut(k)
    PROVE  WalletInv'
  <1>1. TypeOK
    BY DEF WalletInv
  <1>2. payout' \in [PayoutIds -> PayoutRows \cup {NoPayout}]
    <2>1. CASE payout[k] = NoPayout
      BY <1>1, <2>1 DEF PayOut, TypeOK
    <2>2. CASE payout[k] # NoPayout
      <3>1. payout[k] \in PayoutRows
        BY <1>1, <2>2 DEF TypeOK
      <3>2. [payout[k] EXCEPT !.status = "PAID"] \in PayoutRows
        BY <3>1 DEF PayoutRows
      <3>3. payout' = [payout EXCEPT ![k] = [payout[k] EXCEPT !.status = "PAID"]]
        BY <2>2 DEF PayOut
      <3>4. QED
        BY <1>1, <3>2, <3>3 DEF TypeOK
    <2>3. QED
      BY <2>1, <2>2
  <1>3. TypeOK'
    BY <1>1, <1>2 DEF PayOut, TypeOK
  <1>4. /\ WalletBacked' /\ AwardedOnce'
        /\ SessionsRight' /\ LocksExclusive'
    BY DEF PayOut, WalletInv, WalletBacked, AwardedOnce, SessionsRight, Shaped,
           Covered, AwardsRight, LocksExclusive, Holds, Busy
  <1>5. QED
    BY <1>3, <1>4 DEF WalletInv

\* Midnight clears the day's rows together with what sessions count as today.
LEMMA NewDayStep ==
    ASSUME WalletInv, NewDay
    PROVE  WalletInv'
  <1>1. TypeOK
    BY DEF WalletInv
  <1>2. \A s \in Sessions :
            /\ Busy(s) => sess'[s] = [sess[s] EXCEPT !.today = FALSE, !.awards = {}]
            /\ ~Busy(s) => sess'[s] = Idle
    BY DEF NewDay
  <1>3. \A s \in Sessions : Busy(s) =>
            /\ sess'[s] \in Work
            /\ sess'[s].at = sess[s].at /\ sess'[s].op = sess[s].op
            /\ sess'[s].account = sess[s].account
            /\ sess'[s].touches = sess[s].touches
            /\ sess'[s].value = sess[s].value /\ sess'[s].gain = sess[s].gain
            /\ sess'[s].order = sess[s].order /\ sess'[s].id = sess[s].id
            /\ sess'[s].amount = sess[s].amount
            /\ sess'[s].today = FALSE /\ sess'[s].awards = {}
    <2>. SUFFICES ASSUME NEW s \in Sessions, Busy(s)
                  PROVE  /\ sess'[s] \in Work
                         /\ sess'[s].at = sess[s].at
                         /\ sess'[s].op = sess[s].op
                         /\ sess'[s].account = sess[s].account
                         /\ sess'[s].touches = sess[s].touches
                         /\ sess'[s].value = sess[s].value
                         /\ sess'[s].gain = sess[s].gain
                         /\ sess'[s].order = sess[s].order
                         /\ sess'[s].id = sess[s].id
                         /\ sess'[s].amount = sess[s].amount
                         /\ sess'[s].today = FALSE
                         /\ sess'[s].awards = {}
      OBVIOUS
    <2>1. sess[s] \in Work
      BY BusyFacts
    <2>2. sess'[s] = [sess[s] EXCEPT !.today = FALSE, !.awards = {}]
      BY <1>2
    <2>3. QED
      BY <2>1, <2>2 DEF Work
  <1>4. TypeOK'
    <2>1. sess' \in [Sessions -> Work \cup {Idle}]
      BY <1>2, <1>3 DEF NewDay
    <2>2. rows' \in [Partners -> Nat] /\ awards' \in [Partners -> [Rules -> Nat]]
      BY DEF NewDay
    <2>3. QED
      BY <1>1, <2>1, <2>2 DEF NewDay, TypeOK
  <1>5. WalletBacked' /\ AwardedOnce'
    <2>1. WalletBacked'
      BY DEF NewDay, WalletInv, WalletBacked
    <2>2. \A p \in Partners, r \in Rules : awards'[p][r] = 0
      BY DEF NewDay
    <2>3. QED
      BY <2>1, <2>2 DEF AwardedOnce
  <1>6. \A s \in Sessions : Busy(s)' => Busy(s)
    BY <1>2 DEF Busy
  <1>7. SessionsRight'
    <2>. SUFFICES ASSUME NEW s \in Sessions, Busy(s)'
                  PROVE  (/\ Shaped(sess[s])
                          /\ Covered(sess[s])
                          /\ AwardsRight(sess[s]))'
      BY DEF SessionsRight
    <2>1. Busy(s) /\ Shaped(sess[s]) /\ Covered(sess[s])
      BY <1>6, BusyFacts
    <2>2. UNCHANGED credited
      BY DEF NewDay
    <2>3. Shaped(sess[s])' /\ Covered(sess[s])'
      BY <1>3, <2>1, <2>2 DEF Shaped, Covered
    <2>4. AwardsRight(sess[s])'
      BY <1>3, <2>1 DEF AwardsRight
    <2>5. QED
      BY <2>3, <2>4
  <1>8. LocksExclusive'
    BY <1>3, <1>6 DEF WalletInv, LocksExclusive, Holds
  <1>9. QED
    BY <1>4, <1>5, <1>7, <1>8 DEF WalletInv

\* Every step keeps the invariant.
LEMMA WalletNext == WalletInv /\ [Next]_vars => WalletInv'
  <1>. SUFFICES ASSUME WalletInv, [Next]_vars PROVE WalletInv'
    OBVIOUS
  <1>1. ASSUME NEW s \in Sessions, NEW a \in Accounts, Request(s, a)
        PROVE  WalletInv'
    BY <1>1, RequestStep
  <1>2. ASSUME NEW s \in Sessions, Handler(s) PROVE WalletInv'
    <2>1. CASE Respond(s)
      BY <2>1, SessionsEnd DEF Respond, Step, WalletInv, TypeOK
    <2>2. ASSUME NEW o \in Orders, Deliver(s, o) \/ FailDelivery(s, o)
          PROVE  WalletInv'
      BY <2>2, DeliverStep, FailDeliveryStep
    <2>3. ASSUME NEW n \in Amounts, RequestPayout(s, n) PROVE WalletInv'
      BY <2>3, RequestPayoutStep
    <2>4. QED
      BY <1>2, <2>1, <2>2, <2>3 DEF Handler
  <1>3. ASSUME NEW s \in Sessions, Finish(s) PROVE WalletInv'
    BY <1>3, FlushCreditStep, FlushPayoutStep, CheckAndAwardStep,
       CommitCreditStep, CommitPayoutStep DEF Finish
  <1>4. ASSUME NEW s \in Sessions, FailTransaction(s) PROVE WalletInv'
    <2>1. faults' \in 0..MaxFaults
      BY <1>4, WalletAssumption DEF FailTransaction, WalletInv, TypeOK
    <2>2. QED
      BY <1>4, <2>1, SessionsEnd DEF FailTransaction, WalletInv, TypeOK
  <1>5. ASSUME NEW k \in PayoutIds, PayOut(k) PROVE WalletInv'
    BY <1>5, PayOutStep
  <1>6. ASSUME NEW k \in PayoutIds, FailTask(k) PROVE WalletInv'
    <2>1. faults' \in 0..MaxFaults
      BY <1>6, WalletAssumption DEF FailTask, WalletInv, TypeOK
    <2>2. QED
      BY <1>6, <2>1, SessionsEnd DEF FailTask, WalletInv, TypeOK
  <1>7. CASE NewDay
    BY <1>7, NewDayStep
  <1>8. CASE Restart
    <2>1. faults' \in 0..MaxFaults
      BY <1>8, WalletAssumption DEF Restart, WalletInv, TypeOK
    <2>2. QED
      BY <1>8, <2>1, SessionsEnd DEF Restart, WalletInv, TypeOK
  <1>9. CASE UNCHANGED vars
    BY <1>9, SessionsEnd DEF vars, db, WalletInv, TypeOK
  <1>10. QED
    BY <1>1, <1>2, <1>3, <1>4, <1>5, <1>6, <1>7, <1>8, <1>9 DEF Next

-----------------------------------------------------------------------------
(* Overlapping requests *)

\* The invariant holds in every reachable state.
THEOREM WalletInvariant == Spec => []WalletInv
  BY WalletInit, WalletNext, PTL DEF Spec

\* Every variable keeps its type.
THEOREM WalletTypeCorrect == Spec => []TypeOK
  <1>1. WalletInv => TypeOK
    BY DEF WalletInv
  <1>2. QED
    BY <1>1, WalletInvariant, PTL

\* No interleaving of deliveries, failures, payouts and crashes leaves more in
\* a wallet than its owner earned: request_payout's and deliver's lost updates
\* only ever lose money.
THEOREM MoneyIsBacked == Spec => []WalletBacked
  <1>1. WalletInv => WalletBacked
    BY DEF WalletInv
  <1>2. QED
    BY <1>1, WalletInvariant, PTL

\* check_and_award awards a rule at most once a day, without any constraint.
THEOREM AwardOnce == Spec => []AwardedOnce
  <1>1. WalletInv => AwardedOnce
    BY DEF WalletInv
  <1>2. QED
    BY <1>1, WalletInvariant, PTL

\* The step that commits a delivery dated today commits with it the award of
\* every rule whose threshold the day has reached.
LEMMA RewardStep ==
    ASSUME WalletInv, [Next]_vars,
           NEW s \in Sessions, Busy(s), sess[s].op = "deliver", sess[s].today,
           rows'[sess[s].account] > rows[sess[s].account],
           sess'[s] = Idle,
           NEW r \in Rules, rows'[sess[s].account] >= Threshold[r]
    PROVE  awards'[sess[s].account][r] > 0
  <1>. DEFINE w == sess[s]
              p == w.account
  <1>1. /\ TypeOK
        /\ w \in Work /\ Shaped(w) /\ AwardsRight(w)
        /\ p \in Partners
    BY BusyFacts DEF WalletInv, Shaped, Credits
  <1>2. rows[p] \in Nat /\ awards[p] \in [Rules -> Nat]
    BY <1>1 DEF TypeOK
  <1>3. ~UNCHANGED rows
    BY <1>2
  <1>4. ~NewDay
    <2>1. NewDay => rows'[p] = 0
      BY <1>1 DEF NewDay
    <2>2. QED
      BY <2>1, <1>2
  <1>5. PICK t \in Sessions : CommitCredit(t)
    BY <1>3, <1>4 DEF Next, Handler, Finish, Request, Respond, Deliver,
       FailDelivery, RequestPayout, FlushCredit, FlushPayout, CheckAndAward,
       CommitPayout, PayOut, FailTransaction, FailTask, Restart, vars, db
  <1>6. t = s
    BY <1>1, <1>5 DEF CommitCredit, Step, TypeOK, Busy
  <1>7. /\ w.at = "commit"
        /\ rows'[p] = rows[p] + 1
        /\ awards'[p][r] = awards[p][r] + (IF r \in w.awards THEN 1 ELSE 0)
    BY <1>1, <1>5, <1>6 DEF CommitCredit, Step, TypeOK
  <1>8. awards[p][r] > 0 \/ r \in w.awards
    BY <1>1, <1>7 DEF AwardsRight
  <1>9. QED
    BY <1>2, <1>7, <1>8

\* No overlap makes check_and_award miss a rule: the delivery that reaches the
\* threshold sees its own row and, behind the lock, all that came before.
THEOREM RewardNotMissed == Spec => ThresholdRewarded
  <1>1. WalletInv /\ [Next]_vars =>
          [\A s \in Sessions :
             /\ Busy(s) /\ sess[s].op = "deliver" /\ sess[s].today
             /\ rows'[sess[s].account] > rows[sess[s].account]
             /\ sess'[s] = Idle
             => \A r \in Rules :
                  rows'[sess[s].account] >= Threshold[r]
                    => awards'[sess[s].account][r] > 0]_vars
    BY RewardStep
  <1>2. QED
    BY <1>1, WalletInvariant, PTL DEF Spec, ThresholdRewarded

-----------------------------------------------------------------------------
(* Requests that do not overlap *)

\* With one session, what it read is what the database still says.
Fresh(w) ==
    /\ w.at = "loaded" => w.value[w.account] = balance[w.account]
    /\ w.op \in Credits =>
          \A a \in w.touches : w.value[a] = balance[a] + w.gain[a]
    /\ w.op = "request_payout" =>
          /\ w.value[w.account] + w.amount = balance[w.account]
          /\ w.at = "commit" => payout[w.id] = NoPayout

SerialInv ==
    /\ WalletInv
    /\ \A s \in Sessions : Busy(s) => Fresh(sess[s])

\* The handlers compute with fresh values.
LEMMA FreshHandlers ==
    ASSUME SerialInv, NEW s \in Sessions, Busy(s)', UNCHANGED <<balance, payout>>,
           \/ \E a \in Accounts : Request(s, a)
           \/ Handler(s)
    PROVE  Fresh(sess[s])'
  <1>. USE DEF SerialInv, db
  <1>1. TypeOK
    BY DEF WalletInv
  <1>2. ASSUME NEW a \in Accounts, Request(s, a)
        PROVE  Fresh(sess[s])'
    <2>1. /\ sess'[s].at = "loaded" /\ sess'[s].op = "request"
          /\ sess'[s].account = a
          /\ sess'[s].value = [Nothing EXCEPT ![a] = balance[a]]
      BY <1>1, <1>2 DEF Request, TypeOK
    <2>2. sess'[s].value[a] = balance[a]
      BY <2>1 DEF Nothing
    <2>3. QED
      BY <2>1, <2>2 DEF Fresh, Credits
  <1>3. ~Respond(s)
    BY <1>1 DEF Respond, Step, Busy, TypeOK
  <1>4. ASSUME NEW o \in Orders, Deliver(s, o) PROVE Fresh(sess[s])'
    <2>. DEFINE v == sess[s]
                p == Owner[o]
    <2>1. /\ v \in Work /\ Shaped(v) /\ Fresh(v)
          /\ v.at = "loaded" /\ v.account = p
      BY <1>4, BusyFacts DEF Deliver, Step
    <2>2. /\ p \in Accounts /\ p # Restaurant /\ Restaurant \in Accounts
          /\ v.value \in [Accounts -> Nat] /\ v.gain = Nothing
      BY <2>1, WalletAssumption DEF Accounts, Work, Shaped
    <2>3. v.value[p] = balance[p]
      BY <2>1 DEF Fresh
    <2>4. /\ sess'[s].at = "flush" /\ sess'[s].op = "deliver"
          /\ sess'[s].touches = {p, Restaurant}
          /\ sess'[s].value = [v.value EXCEPT
                 ![p] = @ + Pay[o], ![Restaurant] = balance[Restaurant] + Net[o]]
          /\ sess'[s].gain = [v.gain EXCEPT ![p] = Pay[o], ![Restaurant] = Net[o]]
      BY <1>1, <1>4, <2>1 DEF Deliver, Step, TypeOK, Work
    <2>5. /\ sess'[s].value[p] = balance[p] + sess'[s].gain[p]
          /\ sess'[s].value[Restaurant]
                = balance[Restaurant] + sess'[s].gain[Restaurant]
      BY <2>2, <2>3, <2>4 DEF Nothing
    <2>6. QED
      BY <2>4, <2>5 DEF Fresh, Credits
  <1>5. ASSUME NEW o \in Orders, FailDelivery(s, o) PROVE Fresh(sess[s])'
    <2>. DEFINE v == sess[s]
                p == Owner[o]
    <2>1. /\ v \in Work /\ Shaped(v) /\ Fresh(v)
          /\ v.at = "loaded" /\ v.account = p
      BY <1>5, BusyFacts DEF FailDelivery, Step
    <2>2. /\ p \in Accounts
          /\ v.value \in [Accounts -> Nat] /\ v.gain = Nothing
      BY <2>1, WalletAssumption DEF Accounts, Work, Shaped
    <2>3. v.value[p] = balance[p]
      BY <2>1 DEF Fresh
    <2>4. /\ sess'[s].at = "flush" /\ sess'[s].op = "fail_delivery"
          /\ sess'[s].touches = {p}
          /\ sess'[s].value = [v.value EXCEPT ![p] = @ + PartialPay]
          /\ sess'[s].gain = [v.gain EXCEPT ![p] = PartialPay]
      BY <1>1, <1>5, <2>1 DEF FailDelivery, Step, TypeOK, Work
    <2>5. sess'[s].value[p] = balance[p] + sess'[s].gain[p]
      BY <2>2, <2>3, <2>4 DEF Nothing
    <2>6. QED
      BY <2>4, <2>5 DEF Fresh, Credits
  <1>6. ASSUME NEW n \in Amounts, RequestPayout(s, n) PROVE Fresh(sess[s])'
    <2>. DEFINE v == sess[s]
                a == v.account
    <2>1. /\ v \in Work /\ Fresh(v) /\ v.at = "loaded" /\ n <= v.value[a]
      BY <1>6, BusyFacts DEF RequestPayout, Step
    <2>2. /\ a \in Accounts /\ n \in Nat
          /\ v.value \in [Accounts -> Nat]
      BY <2>1, WalletAssumption DEF Work
    <2>3. v.value[a] = balance[a]
      BY <2>1 DEF Fresh
    <2>4. /\ sess'[s].at = "flush" /\ sess'[s].op = "request_payout"
          /\ sess'[s].account = a /\ sess'[s].amount = n
          /\ sess'[s].value = [v.value EXCEPT ![a] = @ - n]
      BY <1>1, <1>6, <2>1 DEF RequestPayout, Step, TypeOK, Work
    <2>5. sess'[s].value[a] + n = balance[a]
      BY <2>1, <2>2, <2>3, <2>4
    <2>6. QED
      BY <2>4, <2>5 DEF Fresh, Credits
  <1>7. QED
    BY <1>2, <1>3, <1>4, <1>5, <1>6 DEF Handler

\* The flush leaves the values alone, and an award adds to both sides.
LEMMA FreshFlushes ==
    ASSUME SerialInv, NEW s \in Sessions,
           \/ FlushCredit(s)
           \/ \E k \in PayoutIds : FlushPayout(s, k)
           \/ CheckAndAward(s)
    PROVE  Fresh(sess[s])'
  <1>. DEFINE v == sess[s]
  <1>1. /\ TypeOK /\ Busy(s)
        /\ UNCHANGED <<balance, payout>>
    BY DEF SerialInv, WalletInv, FlushCredit, FlushPayout, CheckAndAward, db
  <1>2. v \in Work /\ Shaped(v) /\ Fresh(v) /\ WalletInv
    BY <1>1, BusyFacts DEF SerialInv
  <1>3. CASE FlushCredit(s)
    <2>1. /\ sess'[s].at # "loaded" /\ v.op \in Credits
          /\ sess'[s].op = v.op /\ sess'[s].touches = v.touches
          /\ sess'[s].value = v.value /\ sess'[s].gain = v.gain
      BY <1>1, <1>2, <1>3 DEF FlushCredit, Step, TypeOK, Work, Credits
    <2>2. QED
      BY <1>1, <1>2, <2>1 DEF Fresh, Credits
  <1>4. ASSUME NEW k \in PayoutIds, FlushPayout(s, k) PROVE Fresh(sess[s])'
    <2>1. /\ sess'[s].at = "commit" /\ v.op = "request_payout"
          /\ sess'[s].op = v.op /\ sess'[s].account = v.account
          /\ sess'[s].value = v.value /\ sess'[s].amount = v.amount
          /\ sess'[s].id = k /\ payout[k] = NoPayout
      BY <1>1, <1>2, <1>4 DEF FlushPayout, Step, TypeOK, Work
    <2>2. QED
      BY <1>1, <1>2, <2>1 DEF Fresh, Credits
  <1>5. CASE CheckAndAward(s)
    <2>. DEFINE a == v.account
                bonus == Bonus[Due(s)]
    <2>1. /\ sess'[s].at = "commit" /\ v.op = "deliver"
          /\ sess'[s].op = v.op /\ sess'[s].touches = v.touches
          /\ sess'[s].value = [v.value EXCEPT ![a] = @ + bonus]
          /\ sess'[s].gain = [v.gain EXCEPT ![a] = @ + bonus]
      BY <1>1, <1>2, <1>5 DEF CheckAndAward, Step, TypeOK, Work, Shaped
    <2>2. /\ a \in Accounts /\ v.touches \subseteq Accounts
          /\ v.value \in [Accounts -> Nat] /\ v.gain \in [Accounts -> Nat]
          /\ balance \in [Accounts -> Nat]
      BY <1>1, <1>2 DEF Work, TypeOK
    <2>3. bonus \in Nat
      BY WalletAssumption DEF Due
    <2>4. \A b \in v.touches : v.value[b] = balance[b] + v.gain[b]
      BY <1>2, <2>1 DEF Fresh, Credits
    <2>. HIDE DEF bonus
    <2>5. \A b \in v.touches : sess'[s].value[b] = balance[b] + sess'[s].gain[b]
      BY <2>1, <2>2, <2>3, <2>4
    <2>6. QED
      BY <1>1, <2>1, <2>5 DEF Fresh, Credits
  <1>6. QED
    BY <1>3, <1>4, <1>5

\* A session that keeps its record is fresh as long as the rows are unchanged.
LEMMA FreshStays ==
    ASSUME SerialInv, UNCHANGED <<balance, payout>>,
           \A s \in Sessions : Busy(s)' => Busy(s) /\ sess'[s] = sess[s]
    PROVE  \A s \in Sessions : Busy(s)' => Fresh(sess[s])'
  BY DEF SerialInv, Fresh

\* Every step of a system with one session keeps its values fresh.
LEMMA SerialNext ==
    ASSUME NEW only, Sessions = {only}
    PROVE  SerialInv /\ [Next]_vars => SerialInv'
  <1>. SUFFICES ASSUME SerialInv, [Next]_vars
                PROVE  \A s \in Sessions : Busy(s)' => Fresh(sess[s])'
    BY WalletNext DEF SerialInv
  <1>1. TypeOK /\ WalletInv
    BY DEF SerialInv, WalletInv
  <1>2. ASSUME NEW s \in Sessions, Busy(s)',
               (\E a \in Accounts : Request(s, a)) \/ Handler(s)
        PROVE  Fresh(sess[s])'
    <2>1. UNCHANGED <<balance, payout>>
      BY <1>2 DEF Request, Handler, Respond, Deliver, FailDelivery,
         RequestPayout, db
    <2>2. QED
      BY <1>2, <2>1, FreshHandlers
  <1>3. ASSUME NEW s \in Sessions, CommitCredit(s) \/ CommitPayout(s)
        PROVE  ~Busy(s)'
    BY <1>1, <1>3 DEF CommitCredit, CommitPayout, Step, Busy, TypeOK
  <1>4. ASSUME NEW s \in Sessions, Busy(s)', Finish(s) PROVE Fresh(sess[s])'
    BY <1>3, <1>4, FreshFlushes DEF Finish
  <1>5. ASSUME NEW s \in Sessions, Busy(s)', FailTransaction(s) PROVE FALSE
    BY <1>1, <1>5 DEF FailTransaction, Busy, TypeOK
  <1>6. ASSUME NEW s \in Sessions, Busy(s)', NEW k \in PayoutIds, PayOut(k)
        PROVE  Fresh(sess[s])'
    <2>1. UNCHANGED <<balance, sess>> /\ Busy(s)
      BY <1>6 DEF PayOut, Busy
    <2>2. Fresh(sess[s]) /\ sess[s] \in Work /\ Shaped(sess[s])
      BY <1>1, <2>1, BusyFacts DEF SerialInv
    <2>3. \A j \in PayoutIds : payout[j] = NoPayout => payout'[j] = NoPayout
      BY <1>1, <1>6 DEF PayOut, TypeOK
    <2>4. sess[s].op = "request_payout" /\ sess[s].at = "commit"
            => sess[s].id \in PayoutIds
      BY <2>2 DEF Shaped
    <2>5. QED
      BY <2>1, <2>2, <2>3, <2>4 DEF Fresh
  <1>7. ASSUME NEW s \in Sessions, Busy(s)', NewDay PROVE Fresh(sess[s])'
    <2>1. Busy(s) /\ UNCHANGED <<balance, payout>>
      BY <1>7 DEF NewDay, Busy
    <2>2. sess'[s] = [sess[s] EXCEPT !.today = FALSE, !.awards = {}]
      BY <1>7, <2>1 DEF NewDay
    <2>3. Fresh(sess[s]) /\ sess[s] \in Work
      BY <1>1, <2>1, BusyFacts DEF SerialInv
    <2>4. /\ sess'[s].at = sess[s].at /\ sess'[s].op = sess[s].op
          /\ sess'[s].account = sess[s].account
          /\ sess'[s].touches = sess[s].touches
          /\ sess'[s].value = sess[s].value /\ sess'[s].gain = sess[s].gain
          /\ sess'[s].id = sess[s].id /\ sess'[s].amount = sess[s].amount
      BY <2>2, <2>3 DEF Work
    <2>5. QED
      BY <2>1, <2>3, <2>4 DEF Fresh
  <1>8. ASSUME NEW k \in PayoutIds, FailTask(k)
        PROVE  \A s \in Sessions : Busy(s)' => Fresh(sess[s])'
    BY <1>8, FreshStays DEF FailTask, db, Busy
  <1>9. ASSUME NEW s \in Sessions, Busy(s)', Restart PROVE FALSE
    BY <1>9 DEF Restart, Busy
  <1>10. CASE UNCHANGED vars
    BY <1>10, FreshStays DEF vars, Busy
  <1>11. QED
    BY <1>2, <1>4, <1>5, <1>6, <1>7, <1>8, <1>9, <1>10 DEF Next

\* With one session, every step is a step of the ledger or leaves it alone.
LEMMA LedgerStep ==
    ASSUME SerialInv, [Next]_vars
    PROVE  [Book!Next]_(Book!ledgerVars)
  <1>. USE DEF Book!ledgerVars
  <1>1. TypeOK /\ WalletInv
    BY DEF SerialInv, WalletInv
  <1>2. ASSUME NEW s \in Sessions, CommitCredit(s) PROVE Book!Next
    <2>. DEFINE w == sess[s]
    <2>1. /\ w \in Work /\ Shaped(w) /\ Fresh(w)
          /\ w.op \in Credits /\ w.at = "commit"
      BY <1>1, <1>2, BusyFacts DEF CommitCredit, Step, Credits, SerialInv
    <2>2. \A a \in Accounts : balance'[a] \in Nat /\ balance'[a] >= balance[a]
      <3>. SUFFICES ASSUME NEW a \in Accounts
                    PROVE  balance'[a] \in Nat /\ balance'[a] >= balance[a]
        OBVIOUS
      <3>1. balance[a] \in Nat /\ w.gain[a] \in Nat
        BY <1>1, <2>1 DEF TypeOK, Work
      <3>2. CASE a \in w.touches
        <4>1. balance'[a] = balance[a] + w.gain[a]
          BY <1>2, <2>1, <3>2 DEF CommitCredit, Fresh
        <4>2. QED
          BY <3>1, <4>1
      <3>3. CASE a \notin w.touches
        BY <1>2, <3>1, <3>3 DEF CommitCredit
      <3>4. QED
        BY <3>2, <3>3
    <2>3. DOMAIN balance' = Accounts /\ UNCHANGED payout
      BY <1>2 DEF CommitCredit
    <2>4. QED
      BY <2>2, <2>3 DEF Book!Next, Book!Earn
  <1>3. ASSUME NEW s \in Sessions, CommitPayout(s) PROVE Book!Next
    <2>. DEFINE w == sess[s]
                a == w.account
    <2>1. /\ w \in Work /\ Shaped(w) /\ Fresh(w)
          /\ w.op = "request_payout" /\ w.at = "commit"
      BY <1>1, <1>3, BusyFacts DEF CommitPayout, Step, SerialInv
    <2>2. /\ a \in Accounts /\ w.id \in PayoutIds
          /\ w.amount \in Nat \ {0} /\ w.value[a] \in Nat
          /\ w.value[a] + w.amount = balance[a]
          /\ payout[w.id] = NoPayout
      BY <2>1 DEF Shaped, Fresh, Work
    <2>3. w.amount \in 1..balance[a] /\ w.value[a] = balance[a] - w.amount
      BY <2>2
    <2>4. /\ balance' = [balance EXCEPT ![a] = @ - w.amount]
          /\ payout' = [payout EXCEPT ![w.id] =
                [account |-> a, amount |-> w.amount, status |-> "PROCESSING"]]
      BY <1>3, <2>3 DEF CommitPayout
    <2>5. Book!Withdraw(a, w.id)
      BY <2>2, <2>3, <2>4 DEF Book!Withdraw
    <2>6. QED
      BY <2>2, <2>5 DEF Book!Next
  <1>4. ASSUME NEW k \in PayoutIds, PayOut(k)
        PROVE  [Book!Next]_(Book!ledgerVars)
    BY <1>4 DEF PayOut, Book!Next, Book!Settle
  <1>5. CASE UNCHANGED <<balance, payout>>
    BY <1>5
  <1> DEFINE Quiet == UNCHANGED <<balance, payout>>
  <1>6. ASSUME NEW s \in Sessions, Handler(s) PROVE Quiet
    <2>1. ASSUME Respond(s) PROVE Quiet
      BY <2>1 DEF Respond, db
    <2>2. ASSUME NEW o \in Orders, Deliver(s, o) PROVE Quiet
      BY <2>2 DEF Deliver, db
    <2>3. ASSUME NEW o \in Orders, FailDelivery(s, o) PROVE Quiet
      BY <2>3 DEF FailDelivery, db
    <2>4. ASSUME NEW n \in Amounts, RequestPayout(s, n) PROVE Quiet
      BY <2>4 DEF RequestPayout, db
    <2>5. QED
      BY <1>6, <2>1, <2>2, <2>3, <2>4 DEF Handler
  <1>7. ASSUME NEW s \in Sessions, NEW a \in Accounts, Request(s, a) PROVE Quiet
    BY <1>7 DEF Request, db
  <1>8. ASSUME NEW s \in Sessions, FlushCredit(s) PROVE Quiet
    BY <1>8 DEF FlushCredit, db
  <1>9. ASSUME NEW s \in Sessions, NEW k \in PayoutIds, FlushPayout(s, k) PROVE Quiet
    BY <1>9 DEF FlushPayout, db
  <1>10. ASSUME NEW s \in Sessions, CheckAndAward(s) PROVE Quiet
    BY <1>10 DEF CheckAndAward, db
  <1>11. ASSUME NEW s \in Sessions, FailTransaction(s) PROVE Quiet
    BY <1>11 DEF FailTransaction, db
  <1>12. ASSUME NEW k \in PayoutIds, FailTask(k) PROVE Quiet
    BY <1>12 DEF FailTask, db
  <1>13. ASSUME NewDay \/ Restart PROVE Quiet
    <2>1. CASE NewDay
      BY <2>1 DEF NewDay
    <2>2. CASE Restart
      BY <2>2 DEF Restart, db
    <2>3. QED
      BY <1>13, <2>1, <2>2
  <1>14. CASE UNCHANGED vars
    BY <1>14 DEF vars
  <1>15. CASE Next
    <2>1. \/ \E s \in Sessions : CommitCredit(s) \/ CommitPayout(s)
          \/ \E k \in PayoutIds : PayOut(k)
          \/ Quiet
      <3> HIDE DEF Quiet
      <3>1. QED
        BY <1>15, <1>6, <1>7, <1>8, <1>9, <1>10, <1>11, <1>12, <1>13 DEF Next, Finish
    <2>2. QED
      BY <2>1, <1>2, <1>3, <1>4, <1>5
  <1>16. QED
    BY <1>14, <1>15, <1>5

\* Without overlaps the wallets implement the ledger: money leaves a balance
\* only as a payout row of that amount.
THEOREM SerialKeepsLedger ==
    ASSUME NEW only, Sessions = {only}
    PROVE  Spec => KeepsLedger
  <1>1. Init => SerialInv
    BY WalletInit DEF SerialInv, Init, Busy
  <1>2. SerialInv /\ [Next]_vars => SerialInv'
    BY SerialNext
  <1>3. Init => Book!Init
    BY DEF Init, Book!Init, Nothing
  <1>4. SerialInv /\ [Next]_vars => [Book!Next]_(Book!ledgerVars)
    BY LedgerStep
  <1>5. QED
    BY <1>1, <1>2, <1>3, <1>4, PTL DEF Spec, KeepsLedger, Book!Spec

-----------------------------------------------------------------------------
(* The inductive invariant for exact balances *)

\* A session earns nothing for a wallet that it does not update.
Booked(w) ==
    w.op \in Credits => \A a \in Accounts \ w.touches : w.gain[a] = 0

AllBooked == \A s \in Sessions : Busy(s) => Booked(sess[s])

UnitsFinite == \A a \in Accounts : IsFiniteSet(PaidUnits(a))

BalanceInv ==
    /\ SerialInv
    /\ AllBooked
    /\ UnitsFinite
    /\ BalanceExact

-----------------------------------------------------------------------------
(* Steps *)

\* Between a session's first read and its commit nothing is earned for a
\* wallet it does not update.
LEMMA BookedNext ==
    ASSUME WalletInv, AllBooked, [Next]_vars
    PROVE  AllBooked'
  <1>. SUFFICES ASSUME NEW s \in Sessions, Busy(s)'
                PROVE  Booked(sess'[s])
    BY DEF AllBooked, Booked
  <1>1. TypeOK
    BY DEF WalletInv
  <1>2. CASE sess'[s] = sess[s]
    BY <1>2 DEF AllBooked, Busy
  <1>3. ASSUME NEW a \in Accounts, Request(s, a) PROVE Booked(sess'[s])
    BY <1>1, <1>3 DEF Request, TypeOK, Booked, Credits
  <1>4. ASSUME NEW o \in Orders, Deliver(s, o) PROVE Booked(sess'[s])
    <2>. DEFINE v == sess[s]
    <2>1. v \in Work /\ Shaped(v) /\ v.at = "loaded"
      BY <1>4, BusyFacts DEF Deliver, Step
    <2>2. v.gain = Nothing
      BY <2>1 DEF Shaped
    <2>3. /\ sess'[s].touches = {Owner[o], Restaurant}
          /\ sess'[s].gain = [Nothing EXCEPT ![Owner[o]] = Pay[o],
                                             ![Restaurant] = Net[o]]
      BY <1>1, <1>4, <2>1, <2>2 DEF Deliver, Step, TypeOK, Work
    <2>4. QED
      BY <2>3 DEF Booked, Nothing
  <1>5. ASSUME NEW o \in Orders, FailDelivery(s, o) PROVE Booked(sess'[s])
    <2>. DEFINE v == sess[s]
    <2>1. v \in Work /\ Shaped(v) /\ v.at = "loaded"
      BY <1>5, BusyFacts DEF FailDelivery, Step
    <2>2. v.gain = Nothing
      BY <2>1 DEF Shaped
    <2>3. /\ sess'[s].touches = {Owner[o]}
          /\ sess'[s].gain = [Nothing EXCEPT ![Owner[o]] = PartialPay]
      BY <1>1, <1>5, <2>1, <2>2 DEF FailDelivery, Step, TypeOK, Work
    <2>4. QED
      BY <2>3 DEF Booked, Nothing
  <1>6. ASSUME NEW n \in Amounts, RequestPayout(s, n) PROVE Booked(sess'[s])
    <2>1. sess[s] \in Work
      BY <1>6, BusyFacts DEF RequestPayout, Step
    <2>2. sess'[s].op = "request_payout"
      BY <1>1, <1>6, <2>1 DEF RequestPayout, Step, TypeOK, Work
    <2>3. QED
      BY <2>2 DEF Booked, Credits
  <1>7. CASE FlushCredit(s) \/ \E k \in PayoutIds : FlushPayout(s, k)
    <2>1. Busy(s) /\ sess[s] \in Work
      BY <1>7, BusyFacts DEF FlushCredit, FlushPayout
    <2>2. \/ \E at \in {"award", "commit"} :
                 sess'[s] = [sess[s] EXCEPT !.at = at]
          \/ \E k \in PayoutIds :
                 sess'[s] = [sess[s] EXCEPT !.at = "commit", !.id = k]
      BY <1>1, <1>7 DEF FlushCredit, FlushPayout, Step, TypeOK
    <2>3. /\ sess'[s].op = sess[s].op /\ sess'[s].touches = sess[s].touches
          /\ sess'[s].gain = sess[s].gain
      BY <2>1, <2>2 DEF Work
    <2>4. QED
      BY <2>1, <2>3 DEF AllBooked, Booked
  <1>8. CASE CheckAndAward(s)
    <2>. DEFINE v == sess[s]
                a == v.account
    <2>1. Busy(s) /\ v \in Work /\ Shaped(v) /\ v.at = "award"
      BY <1>8, BusyFacts DEF CheckAndAward, Step
    <2>2. a \in v.touches /\ v.gain \in [Accounts -> Nat]
      BY <2>1 DEF Shaped, Work
    <2>3. /\ sess'[s].op = v.op /\ sess'[s].touches = v.touches
          /\ sess'[s].gain = [v.gain EXCEPT ![a] = @ + Bonus[Due(s)]]
      BY <1>1, <1>8, <2>1 DEF CheckAndAward, Step, TypeOK, Work
    <2>4. Booked(v)
      BY <2>1 DEF AllBooked
    <2>5. QED
      BY <2>2, <2>3, <2>4 DEF Booked
  <1>9. ASSUME NewDay PROVE Booked(sess'[s])
    <2>1. Busy(s)
      BY <1>9 DEF NewDay, Busy
    <2>2. sess'[s] = [sess[s] EXCEPT !.today = FALSE, !.awards = {}]
      BY <1>9, <2>1 DEF NewDay
    <2>3. sess[s] \in Work
      BY <2>1, BusyFacts
    <2>4. /\ sess'[s].op = sess[s].op /\ sess'[s].touches = sess[s].touches
          /\ sess'[s].gain = sess[s].gain
      BY <2>2, <2>3 DEF Work
    <2>5. QED
      BY <2>1, <2>4 DEF AllBooked, Booked
  <1>10. sess'[s] # Idle
    BY DEF Busy
  <1>11. ASSUME Respond(s) \/ FailTransaction(s) \/ Restart
                  \/ CommitCredit(s) \/ CommitPayout(s)
         PROVE  FALSE
    BY <1>1, <1>10, <1>11 DEF Respond, FailTransaction, Restart, CommitCredit,
       CommitPayout, Step, TypeOK
  <1>12. ASSUME NEW k \in PayoutIds, PayOut(k) \/ FailTask(k)
         PROVE  sess'[s] = sess[s]
    BY <1>12 DEF PayOut, FailTask
  <1>13. ASSUME NEW t \in Sessions, t # s,
                \/ \E a \in Accounts : Request(t, a)
                \/ Handler(t)
                \/ Finish(t)
                \/ FailTransaction(t)
         PROVE  sess'[s] = sess[s]
    <2>1. sess \in [Sessions -> Work \cup {Idle}]
      BY <1>1 DEF TypeOK
    <2>2. \E w : sess' = [sess EXCEPT ![t] = w]
      <3>1. CASE \E a \in Accounts : Request(t, a)
        BY <3>1 DEF Request
      <3>2. CASE Handler(t)
        BY <3>2 DEF Handler, Respond, Deliver, FailDelivery, RequestPayout, Step
      <3>3. CASE Finish(t)
        BY <3>3 DEF Finish, FlushCredit, FlushPayout, CheckAndAward,
           CommitCredit, CommitPayout, Step
      <3>4. CASE FailTransaction(t)
        BY <3>4 DEF FailTransaction
      <3>5. QED
        BY <1>13, <3>1, <3>2, <3>3, <3>4
    <2>3. QED
      BY <1>13, <2>1, <2>2
  <1>14. CASE UNCHANGED vars
    BY <1>2, <1>14 DEF vars
  <1>15. CASE Next
    BY <1>2, <1>3, <1>4, <1>5, <1>6, <1>7, <1>8, <1>9, <1>11, <1>12, <1>13,
       <1>15 DEF Next, Handler, Finish
  <1>16. QED
    BY <1>14, <1>15

\* A row that is added to the payouts of an account adds its amount, and the
\* payouts of other accounts stay as they are.
LEMMA PaidOutGrows ==
    ASSUME TypeOK, UnitsFinite, NEW a \in Accounts, NEW k \in PayoutIds,
           NEW n \in Nat, payout[k] = NoPayout,
           payout' = [payout EXCEPT ![k] =
                [account |-> a, amount |-> n, status |-> "PROCESSING"]],
           payout'[k] # NoPayout
    PROVE  /\ UnitsFinite'
           /\ PaidOut(a)' = PaidOut(a) + n
           /\ \A b \in Accounts \ {a} : PaidOut(b)' = PaidOut(b)
  <1>1. /\ payout'[k].account = a /\ payout'[k].amount = n
        /\ \A j \in PayoutIds \ {k} : payout'[j] = payout[j]
    BY DEF TypeOK
  <1>2. PaidTo(a)' = PaidTo(a) \cup {k} /\ k \notin PaidTo(a)
    BY <1>1 DEF PaidTo
  <1>3. ASSUME NEW b \in Accounts \ {a}
        PROVE  PaidTo(b)' = PaidTo(b) /\ k \notin PaidTo(b)
    BY <1>1 DEF PaidTo
  <1>. DEFINE New == {k} \X (1..n)
  <1>4. PaidUnits(a)' = PaidUnits(a) \cup New
    <2>1. \A j \in PaidTo(a) : j \in PayoutIds \ {k}
      BY <1>2 DEF PaidTo
    <2>2. QED
      BY <1>1, <1>2, <2>1 DEF PaidUnits
  <1>5. ASSUME NEW b \in Accounts \ {a} PROVE PaidUnits(b)' = PaidUnits(b)
    <2>1. \A j \in PaidTo(b) : j \in PayoutIds \ {k}
      BY <1>3 DEF PaidTo
    <2>2. QED
      BY <1>1, <1>3, <2>1 DEF PaidUnits
  <1>6. PaidUnits(a) \cap New = {}
    BY <1>2 DEF PaidUnits
  <1>7. IsFiniteSet(New) /\ Cardinality(New) = n
    <2>1. IsFiniteSet({k}) /\ Cardinality({k}) = 1
      BY FS_Singleton
    <2>2. IsFiniteSet(1..n) /\ Cardinality(1..n) = n
      BY FS_Interval
    <2>3. /\ IsFiniteSet({k} \X (1..n))
          /\ Cardinality({k} \X (1..n)) = Cardinality({k}) * Cardinality(1..n)
      BY <2>1, <2>2, FS_Product
    <2>4. QED
      BY <2>1, <2>2, <2>3
  <1>. HIDE DEF New
  <1>8. IsFiniteSet(PaidUnits(a)) /\ Cardinality(PaidUnits(a)) \in Nat
    BY FS_CardinalityType DEF UnitsFinite
  <1>9. /\ IsFiniteSet(PaidUnits(a) \cup New)
        /\ Cardinality(PaidUnits(a) \cup New) = Cardinality(PaidUnits(a)) + n
    <2>1. /\ IsFiniteSet(PaidUnits(a) \cup New)
          /\ Cardinality(PaidUnits(a) \cup New)
                = Cardinality(PaidUnits(a)) + Cardinality(New)
                    - Cardinality(PaidUnits(a) \cap New)
      BY <1>7, <1>8, FS_Union
    <2>2. Cardinality(PaidUnits(a) \cap New) = 0
      BY <1>6, FS_EmptySet
    <2>3. QED
      BY <1>7, <1>8, <2>1, <2>2
  <1>10. UnitsFinite'
    BY <1>4, <1>5, <1>9 DEF UnitsFinite
  <1>11. QED
    BY <1>4, <1>5, <1>9, <1>10 DEF PaidOut

\* A step that changes no payout but its status changes no sum.
LEMMA PaidOutStays ==
    ASSUME UnitsFinite,
           \A k \in PayoutIds :
             \/ payout'[k] = payout[k]
             \/ /\ payout[k] # NoPayout /\ payout'[k] # NoPayout
                /\ payout'[k].account = payout[k].account
                /\ payout'[k].amount = payout[k].amount
    PROVE  UnitsFinite' /\ \A a \in Accounts : PaidOut(a)' = PaidOut(a)
  <1>1. ASSUME NEW a \in Accounts PROVE PaidUnits(a)' = PaidUnits(a)
    <2>1. PaidTo(a)' = PaidTo(a)
      BY DEF PaidTo
    <2>2. \A k \in PaidTo(a) : payout'[k].amount = payout[k].amount
      BY DEF PaidTo
    <2>3. QED
      BY <2>1, <2>2 DEF PaidUnits
  <1>2. QED
    BY <1>1 DEF UnitsFinite, PaidOut

\* A credit that is committed reaches both the wallet and the rows.
LEMMA CommitCreditExact ==
    ASSUME BalanceInv, NEW s \in Sessions, CommitCredit(s)
    PROVE  UnitsFinite' /\ BalanceExact'
  <1>. DEFINE w == sess[s]
  <1>1. /\ TypeOK /\ w \in Work /\ Fresh(w) /\ Booked(w)
        /\ w.op \in Credits
    BY BusyFacts DEF BalanceInv, SerialInv, WalletInv, AllBooked,
       CommitCredit, Credits
  <1>2. UnitsFinite' /\ \A a \in Accounts : PaidOut(a)' = PaidOut(a)
    BY PaidOutStays DEF BalanceInv, CommitCredit
  <1>3. ASSUME NEW a \in Accounts
        PROVE  /\ balance'[a] = balance[a] + w.gain[a]
               /\ credited'[a] = credited[a] + w.gain[a]
               /\ balance[a] \in Nat /\ credited[a] \in Nat /\ w.gain[a] \in Nat
    <2>1. balance[a] \in Nat /\ credited[a] \in Nat /\ w.gain[a] \in Nat
      BY <1>1 DEF TypeOK, Work
    <2>2. credited'[a] = credited[a] + w.gain[a]
      BY DEF CommitCredit
    <2>3. CASE a \in w.touches
      BY <1>1, <2>1, <2>2, <2>3 DEF CommitCredit, Fresh
    <2>4. CASE a \notin w.touches
      <3>1. w.gain[a] = 0
        BY <1>1, <2>4 DEF Booked
      <3>2. balance'[a] = balance[a]
        BY <2>4 DEF CommitCredit
      <3>3. QED
        BY <2>1, <2>2, <3>1, <3>2
    <2>5. QED
      BY <2>3, <2>4
  <1>4. ASSUME NEW a \in Accounts PROVE PaidOut(a) \in Nat
    BY FS_CardinalityType DEF BalanceInv, UnitsFinite, PaidOut
  <1>5. BalanceExact'
    BY <1>2, <1>3, <1>4 DEF BalanceInv, BalanceExact
  <1>6. QED
    BY <1>2, <1>5

\* A payout that is committed moves its amount from the balance to the rows.
LEMMA CommitPayoutExact ==
    ASSUME BalanceInv, NEW s \in Sessions, CommitPayout(s)
    PROVE  UnitsFinite' /\ BalanceExact'
  <1>w. PICK w : w = sess[s]
    OBVIOUS
  <1>a. PICK a : a = w.account
    OBVIOUS
  <1>. USE <1>w, <1>a
  <1>1. /\ TypeOK /\ w \in Work /\ Shaped(w) /\ Fresh(w)
        /\ w.op = "request_payout" /\ w.at = "commit"
    BY BusyFacts DEF BalanceInv, SerialInv, WalletInv, CommitPayout, Step
  <1>2. /\ a \in Accounts /\ w.id \in PayoutIds
        /\ w.amount \in Nat \ {0} /\ w.value[a] \in Nat
        /\ w.value[a] + w.amount = balance[a]
        /\ payout[w.id] = NoPayout
    BY <1>1 DEF Shaped, Fresh, Work
  <1>3. /\ payout' = [payout EXCEPT ![w.id] =
                [account |-> a, amount |-> w.amount, status |-> "PROCESSING"]]
        /\ balance' = [balance EXCEPT ![a] = w.value[a]]
        /\ UNCHANGED credited
    BY DEF CommitPayout
  <1>4. [account |-> a, amount |-> w.amount, status |-> "PROCESSING"] # NoPayout
    BY <1>2, WalletAssumption
  <1>5. payout'[w.id] # NoPayout
    BY <1>1, <1>2, <1>3, <1>4 DEF TypeOK
  <1>6. /\ UnitsFinite'
        /\ PaidOut(a)' = PaidOut(a) + w.amount
        /\ \A b \in Accounts \ {a} : PaidOut(b)' = PaidOut(b)
    BY <1>1, <1>2, <1>3, <1>5, PaidOutGrows DEF BalanceInv
  <1>7. PaidOut(a) \in Nat
    BY <1>2, FS_CardinalityType DEF BalanceInv, UnitsFinite, PaidOut
  <1>8. balance'[a] = w.value[a] /\ \A b \in Accounts \ {a} : balance'[b] = balance[b]
    BY <1>1, <1>2, <1>3 DEF TypeOK
  <1>9. balance'[a] + PaidOut(a)' = credited[a]
    BY <1>2, <1>6, <1>7, <1>8 DEF BalanceInv, BalanceExact
  <1>10. BalanceExact'
    BY <1>3, <1>6, <1>8, <1>9 DEF BalanceInv, BalanceExact
  <1>11. QED
    BY <1>6, <1>10

\* Every step of a system with one session keeps the balances exact.
LEMMA BalanceNext ==
    ASSUME NEW only, Sessions = {only}
    PROVE  BalanceInv /\ [Next]_vars => BalanceInv'
  <1>. SUFFICES ASSUME BalanceInv, [Next]_vars PROVE BalanceInv'
    OBVIOUS
  <1>1. SerialInv' /\ AllBooked'
    BY SerialNext, BookedNext DEF BalanceInv, SerialInv
  <1>2. CASE \E s \in Sessions : CommitCredit(s) \/ CommitPayout(s)
    BY <1>1, <1>2, CommitCreditExact, CommitPayoutExact DEF BalanceInv
  <1>3. ASSUME NEW k \in PayoutIds, PayOut(k) PROVE BalanceInv'
    <2>1. TypeOK /\ UNCHANGED <<balance, credited>>
      BY <1>3 DEF PayOut, BalanceInv, SerialInv, WalletInv
    <2>2. ASSUME NEW j \in PayoutIds, payout'[j] # payout[j]
          PROVE  /\ payout[j] # NoPayout /\ payout'[j] # NoPayout
                 /\ payout'[j].account = payout[j].account
                 /\ payout'[j].amount = payout[j].amount
      <3>1. j = k /\ payout[k] # NoPayout
        BY <1>3, <2>1, <2>2 DEF PayOut, TypeOK
      <3>2. payout[k] \in PayoutRows
        BY <2>1, <3>1 DEF TypeOK
      <3>3. payout'[k] = [payout[k] EXCEPT !.status = "PAID"]
        BY <1>3, <2>1, <3>1 DEF PayOut, TypeOK
      <3>4. /\ payout'[k] \in PayoutRows
            /\ payout'[k].account = payout[k].account
            /\ payout'[k].amount = payout[k].amount
        BY <3>2, <3>3 DEF PayoutRows
      <3>5. payout'[k] # NoPayout
        BY <3>4, WalletAssumption DEF PayoutRows
      <3>6. QED
        BY <3>1, <3>4, <3>5
    <2>3. UnitsFinite' /\ \A a \in Accounts : PaidOut(a)' = PaidOut(a)
      BY <2>2, PaidOutStays DEF BalanceInv
    <2>4. QED
      BY <1>1, <2>1, <2>3 DEF BalanceInv, BalanceExact
  <1>. DEFINE Quiet == UNCHANGED <<balance, credited, payout>>
  <1>4. CASE Quiet
    <2>1. UnitsFinite' /\ BalanceExact'
      BY <1>4 DEF BalanceInv, UnitsFinite, BalanceExact, PaidOut, PaidUnits,
         PaidTo
    <2>2. QED
      BY <1>1, <2>1 DEF BalanceInv
  <1>5. ASSUME NEW s \in Sessions,
               \/ \E a \in Accounts : Request(s, a)
               \/ Handler(s)
               \/ FlushCredit(s)
               \/ \E k \in PayoutIds : FlushPayout(s, k)
               \/ CheckAndAward(s)
               \/ FailTransaction(s)
        PROVE  Quiet
    <2>1. CASE \E a \in Accounts : Request(s, a)
      BY <2>1 DEF Request, db
    <2>2. CASE Handler(s)
      BY <2>2 DEF Handler, Respond, Deliver, FailDelivery, RequestPayout, db
    <2>3. CASE FlushCredit(s) \/ \E k \in PayoutIds : FlushPayout(s, k)
      BY <2>3 DEF FlushCredit, FlushPayout, db
    <2>4. CASE CheckAndAward(s) \/ FailTransaction(s)
      BY <2>4 DEF CheckAndAward, FailTransaction, db
    <2>5. QED
      BY <1>5, <2>1, <2>2, <2>3, <2>4
  <1>6. ASSUME NEW k \in PayoutIds, FailTask(k) PROVE Quiet
    BY <1>6 DEF FailTask, db
  <1>7. ASSUME NewDay \/ Restart PROVE Quiet
    BY <1>7 DEF NewDay, Restart, db
  <1>8. ASSUME UNCHANGED vars PROVE Quiet
    BY <1>8 DEF vars
  <1>. HIDE DEF Quiet
  <1>9. QED
    BY <1>2, <1>3, <1>4, <1>5, <1>6, <1>7, <1>8 DEF Next, Finish

\* Without overlaps a balance is what its owner earned less what was paid out,
\* over any sequence of deliveries, failures, awards and payouts.
THEOREM SerialBalanceExact ==
    ASSUME NEW only, Sessions = {only}
    PROVE  Spec => []BalanceExact
  <1>1. Init => BalanceInv
    <2>. SUFFICES ASSUME Init PROVE BalanceInv
      OBVIOUS
    <2>1. SerialInv /\ AllBooked
      BY WalletInit DEF SerialInv, AllBooked, Init, Busy
    <2>2. \A a \in Accounts : PaidUnits(a) = {}
      BY DEF PaidUnits, PaidTo, Init
    <2>3. \A a \in Accounts : IsFiniteSet(PaidUnits(a)) /\ PaidOut(a) = 0
      BY <2>2, FS_EmptySet DEF PaidOut
    <2>4. QED
      BY <2>1, <2>3 DEF BalanceInv, UnitsFinite, BalanceExact, Init, Nothing
  <1>2. BalanceInv /\ [Next]_vars => BalanceInv'
    BY BalanceNext
  <1>3. BalanceInv => BalanceExact
    BY DEF BalanceInv
  <1>4. QED
    BY <1>1, <1>2, <1>3, PTL DEF Spec
=============================================================================
