------------------------------ MODULE Reports ------------------------------
(***************************************************************************)
(* The figures that a restaurant and its delivery partner are shown: the   *)
(* overview, the charts, the busy hours, the pending payout and the        *)
(* partner's week.  Each is a query of its own over the same rows, with    *)
(* its own idea of when a day, a week, a month or a period begins.         *)
(*                                                                         *)
(* Time is counted in quarters of a day from a Monday's midnight in UTC.   *)
(* The restaurant's days begin at midnight in India, five and a half hours *)
(* earlier, here one quarter; the partner's begin at midnight in UTC.  The *)
(* rows are those of one restaurant and one partner: every query selects   *)
(* them first.  Money is in paise.                                         *)
(***************************************************************************)
EXTENDS Integers, FiniteSetsExt

CONSTANTS
    Sales,          \* the orders
    NoSale,         \* an order that has not been placed
    Amounts,        \* what an order may cost
    Pays,           \* what the partner may get for one
    FirstDays,      \* the calendar: the days on which a month begins
    Epochs,         \* when a behaviour begins
    Leaps,          \* how much time may pass between two events
    MaxLeaps        \* bounds how often it does

IstDay(t) == (t + 1) \div 4
UtcDay(t) == t \div 4

ASSUME ReportsAssumption ==
    /\ IsFiniteSet(Sales)
    /\ Amounts \subseteq Nat /\ Pays \subseteq Nat \ {0}
    /\ FirstDays \subseteq Nat
    /\ Epochs \subseteq Nat /\ Leaps \subseteq Nat /\ MaxLeaps \in Nat

\* A month has from 28 to 31 days, as far as a behaviour goes and for thirteen
\* months before.
ASSUME CalendarAssumption ==
    /\ \A a, b \in FirstDays : a < b => b - a >= 28
    /\ \A e \in Epochs, n \in Leaps \cup {0} :
         \A day \in (IstDay(e) - 403)..IstDay(e + MaxLeaps * n) :
            FirstDays \cap (day - 30..day) # {}

VARIABLES
    sale,       \* orders: status, created_at, delivered_at, total_amount; earned
    now,
    leaps       \* how often time has passed

reportVars == <<sale, now, leaps>>

Sold == {o \in Sales : sale[o] # NoSale}

-----------------------------------------------------------------------------
(* The calendar *)

Today == IstDay(now)

\* Day 0 is a Monday.
Monday(day) == day - (day % 7)

FirstOfMonth(day) == Max(FirstDays \cap (day - 30..day))

-----------------------------------------------------------------------------
(* The restaurant's figures *)

Created(o) == IstDay(sale[o].created)

\* Charts and busy hours leave out what was cancelled or has failed.
Counts(o) == sale[o].status \notin {"CANCELLED", "FAILED"}

Revenue(S) == SumFunction([o \in S |-> sale[o].amount])

Figures(S) ==
    [orders |-> Cardinality(S), revenue |-> Revenue(S),
     cancelled |-> Cardinality({o \in S : sale[o].status = "CANCELLED"})]

PlacedSince(day) == {o \in Sold : Created(o) >= day}

BestDay(since) ==
    LET On(d) == Revenue({o \in PlacedSince(since) : Counts(o) /\ Created(o) = d})
    IN  Max({On(d) : d \in since..since + 6})

Overview ==
    LET month == FirstOfMonth(Today)
        last  == FirstOfMonth(month - 1)
    IN  [today     |-> Figures({o \in Sold : Created(o) = Today}),
         week      |-> Figures(PlacedSince(Monday(Today))),
         month     |-> Figures(PlacedSince(month)),
         lastMonth |-> Figures(PlacedSince(last) \ PlacedSince(month)),
         allTime   |-> Figures(Sold),
         bestDay   |-> BestDay(Monday(Today))]

Periods == {"7days", "30days", "3months", "year"}

PeriodStart(period) ==
    Today - CASE period = "7days"   -> 6
              [] period = "30days"  -> 29
              [] period = "3months" -> 89
              [] period = "year"    -> 364

\* The first days of the last twelve months: the cursor goes to the month's
\* 28th, back by 32 days, and to the first of the month that it is in then.
Cursor ==
    LET cursor[i \in 0..11] ==
          IF i = 0 THEN FirstOfMonth(Today) ELSE FirstOfMonth(cursor[i - 1] + 27 - 32)
    IN  cursor

\* The label, named by its first day, that a day's orders are shown under ...
Bucket(period, day) ==
    CASE period \in {"7days", "30days"} -> day
      [] period = "3months"             -> Monday(day)
      [] period = "year"                -> FirstOfMonth(day)

\* Mutant: the weeks are counted from the day on which the period begins.
Labels_FromStart(period) ==
    CASE period \in {"7days", "30days"} -> PeriodStart(period)..Today
      [] period = "3months" -> {d \in PeriodStart(period)..Today : (d - PeriodStart(period)) % 7 = 0}
      [] period = "year" -> Range(Cursor)

\* ... and the labels of the chart, which are made without the rows.
Labels(period) ==
    CASE period \in {"7days", "30days"} -> PeriodStart(period)..Today
      [] period = "3months" ->
           {d \in Monday(PeriodStart(period))..Today : d = Monday(d)}
      [] period = "year" -> Range(Cursor)

Charted(period) == {o \in PlacedSince(PeriodStart(period)) : Counts(o)}

RevenueChart(period) ==
    LET orders == Charted(period)
    IN  [label \in Labels(period) |->
            Figures({o \in orders : Bucket(period, Created(o)) = label})]

\* The orders of the last thirty days, to the hour, by the hour of the day.
PeakHours ==
    [hour \in 0..3 |->
        Cardinality({o \in Sold : /\ Counts(o) /\ sale[o].created >= now - 30 * 4
                                    /\ (sale[o].created + 1) % 4 = hour})]

-----------------------------------------------------------------------------
(* The restaurant's payout and the partner's week *)

\* To the nearest paisa; commission_rate is 20.
Commission(gross) == (2 * gross * 20 + 100) \div 200

Payable(S) ==
    [orders |-> Cardinality(S), gross |-> Revenue(S),
     net |-> Revenue(S) - Commission(Revenue(S))]

PendingPayout ==
    LET week == {o \in Sold : /\ sale[o].status = "DELIVERED"
                                /\ IstDay(sale[o].ended) >= Monday(Today)}
        days == {IstDay(sale[o].ended) : o \in week}
    IN  [total |-> Payable(week),
         byDay |-> [d \in days |-> Payable({o \in week : IstDay(sale[o].ended) = d})]]

\* partner_earnings: one row for a delivery, and one for a failed delivery.
Earned == {o \in Sold : sale[o].earned > 0}

Earnings(S) ==
    [deliveries |-> Cardinality(S), amount |-> SumFunction([o \in S |-> sale[o].earned])]

\* The service groups the rows since the start by their date ...
WeeklyEarnings ==
    LET start == UtcDay(now) - 6
        rows  == {o \in Earned : UtcDay(sale[o].ended) >= start}
    IN  [i \in 0..6 |-> Earnings({o \in rows : UtcDay(sale[o].ended) = start + i})]

\* ... the app's endpoint asks for the rows between two midnights, day by day.
AgentEarnings ==
    LET midnight == 4 * UtcDay(now)
    IN  [i \in 0..6 |->
            LET from == midnight - 4 * (6 - i)
            IN  Earnings({o \in Earned : from <= sale[o].ended /\ sale[o].ended < from + 4})]

TodayEarnings == Earnings({o \in Earned : sale[o].ended >= 4 * UtcDay(now)})

-----------------------------------------------------------------------------
(* The rows *)

PlaceSale(o, amount) ==
    /\ sale[o] = NoSale
    /\ sale' = [sale EXCEPT ![o] = [status |-> "PLACED", created |-> now, ended |-> -1,
                                    amount |-> amount, earned |-> 0]]
    /\ UNCHANGED <<now, leaps>>

EndSale(o, status, pay) ==
    /\ o \in Sold /\ sale[o].status = "PLACED"
    /\ status = "CANCELLED" => pay = 0
    /\ status = "DELIVERED" => pay > 0
    /\ sale' = [sale EXCEPT ![o].status = status, ![o].ended = now, ![o].earned = pay]
    /\ UNCHANGED <<now, leaps>>

TimePasses(n) ==
    /\ leaps < MaxLeaps
    /\ now' = now + n /\ leaps' = leaps + 1
    /\ UNCHANGED sale

ReportsInit ==
    /\ sale = [o \in Sales |-> NoSale] /\ now \in Epochs /\ leaps = 0

ReportsNext ==
    \/ \E o \in Sales, amount \in Amounts : PlaceSale(o, amount)
    \/ \E o \in Sales, pay \in Pays \cup {0} :
         \E status \in {"DELIVERED", "CANCELLED", "FAILED"} : EndSale(o, status, pay)
    \/ \E n \in Leaps : TimePasses(n)

ReportsSpec == ReportsInit /\ [][ReportsNext]_reportVars

-----------------------------------------------------------------------------
(* Properties *)

\* A chart shows each order of its period, under one of its labels: none falls
\* between labels that are made without looking at the rows.  The year's chart
\* begins in a thirteenth month, and drops that month's orders
\* (restaurant_analytics_service.py:201-265).
ChartsAddUp ==
    \A period \in Periods :
        LET chart == RevenueChart(period)
            S     == {o \in Charted(period) :
                        period = "year" => Created(o) >= Cursor[11]}
        IN  /\ SumFunction([l \in DOMAIN chart |-> chart[l].orders]) = Cardinality(S)
            /\ SumFunction([l \in DOMAIN chart |-> chart[l].revenue]) = Revenue(S)

\* The overview's windows, made by other queries, agree with the charts: today's
\* orders are the last bar and those taken back, no day of the week is better
\* than the week, and the busy hours hold at least the orders of thirty days.
OverviewAgrees ==
    /\ Overview.today.orders =
         RevenueChart("7days")[Today].orders
           + Cardinality({o \in Sold : Created(o) = Today /\ ~Counts(o)})
    /\ Overview.bestDay <= Overview.week.revenue
    /\ Overview.month.orders + Overview.lastMonth.orders <= Overview.allTime.orders
    /\ SumFunction(PeakHours) >= Cardinality(Charted("30days"))

\* The days of the pending payout add up to its total; the net amounts do so to
\* half a paisa for each rounding (restaurant_payout_service.py:56-117).
PayoutAddsUp ==
    LET p    == PendingPayout
        days == DOMAIN p.byDay
        off  == SumFunction([d \in days |-> p.byDay[d].net]) - p.total.net
    IN  /\ SumFunction([d \in days |-> p.byDay[d].orders]) = p.total.orders
        /\ SumFunction([d \in days |-> p.byDay[d].gross]) = p.total.gross
        /\ 2 * off \in -(Cardinality(days) + 1)..Cardinality(days) + 1

\* The two endpoints show a partner the same week (earnings_service.py:177-213,
\* flutter_api.py:1464-1497).
WeeksAgree ==
    WeeklyEarnings = AgentEarnings /\ WeeklyEarnings[6] = TodayEarnings

\* Once there is an order, whoever looks at the same orders twice sees the same
\* figures, in the overview, the charts, the payouts and the partner's week.
ReportsAgree ==
    Sold # {} => ChartsAddUp /\ OverviewAgrees /\ PayoutAddsUp /\ WeeksAgree

=============================================================================
