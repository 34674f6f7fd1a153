------------------------------- MODULE Surge -------------------------------
(***************************************************************************)
(* The surge of a city and a delivery's pay.  A background task sets the   *)
(* automatic level in Redis every ten minutes, the admins add rain; what   *)
(* this is worth is computed in three places: for the admin's screen, for  *)
(* the partner's, and for the earnings row of a delivery.                  *)
(*                                                                         *)
(* Each of them reads three keys one after the other; here it is one step, *)
(* as the property is about the case that no key changes.  Amounts are in  *)
(* paise, distances in units of 10 m, as the column NUMERIC(6, 2).         *)
(***************************************************************************)
EXTENDS Integers

CONSTANTS
    MaxWaiting, MaxFree,    \* bounds on waiting orders and free partners
    Distances               \* the distance_km of assignments

ASSUME SurgeAssumption ==
    MaxWaiting \in Nat /\ MaxFree \in Nat /\ Distances \subseteq Nat

Levels == {"NONE", "MILD", "MEDIUM", "HIGH"}

VARIABLES
    auto,       \* Redis surge:AUTO:{city}, NONE for no key
    manual,     \* is surge:MANUAL:{city} set?  (No code does.)
    rain,       \* is surge:RAIN:{city} set?
    bonus,      \* what a screen showed, -1 once a key has changed
    earned      \* the last row of partner_earnings, or of no kind

surgeVars == <<auto, manual, rain, bonus, earned>>

NoEarnings == [kind |-> "none", base |-> 0, distance |-> 0, surge |-> 0, tip |-> 0,
               total |-> 0, peak |-> 0]

-----------------------------------------------------------------------------
(* The level *)

\* More than 4.5, 3 or 2 orders waiting for each free partner; without a free
\* partner it is HIGH, be there an order or not.
Level(waiting, free) ==
    CASE free = 0 \/ 2 * waiting > 9 * free -> "HIGH"
      [] free # 0 /\ 2 * waiting <= 9 * free /\ waiting > 3 * free -> "MEDIUM"
      [] free # 0 /\ waiting <= 3 * free /\ waiting > 2 * free -> "MILD"
      [] free # 0 /\ waiting <= 2 * free -> "NONE"

Sets(a, r) ==
    /\ auto' = a /\ rain' = r
    /\ bonus' = IF a = auto /\ r = rain THEN bonus ELSE -1
    /\ UNCHANGED <<manual, earned>>

AutoSurgeCheck(waiting, free) == Sets(Level(waiting, free), rain)
AutoExpires == auto # "NONE" /\ Sets("NONE", rain)
EnableRain  == Sets(auto, TRUE)
DisableRain == Sets(auto, FALSE)        \* or its time is over

-----------------------------------------------------------------------------
(* What it is worth *)

Larger(a, b) == IF a > b THEN a ELSE b
LevelPay(level) == [NONE |-> 0, MILD |-> 1000, MEDIUM |-> 2000, HIGH |-> 3000][level]

\* The screens of the admin and of the app.
StatusOfCity ==
    Larger(LevelPay(auto), IF manual THEN 1000 ELSE 0) + (IF rain THEN 2000 ELSE 0)

PublicStatus ==
    Larger(LevelPay(auto), IF manual THEN 1000 ELSE 0) + (IF rain THEN 2000 ELSE 0)

ShowSurge(shown) ==
    /\ bonus' = shown
    /\ UNCHANGED <<auto, manual, rain, earned>>

SurgePay ==
    Larger(LevelPay(auto), IF manual THEN 1000 ELSE 0) + (IF rain THEN 2000 ELSE 0)

-----------------------------------------------------------------------------
(* The earnings row *)

\* 6 rupees for every kilometre beyond the second.
DistancePay(km) == Larger(0, 6 * (km - 200))

PeakBonus(peak) == IF peak THEN 800 ELSE 0

\* Orders have no tip_amount.  The peak bonus is kept in the surge column.
CalculateEarnings(km, peak) ==
    /\ earned' = [kind |-> "delivery", base |-> 2000, distance |-> DistancePay(km),
                  surge |-> SurgePay + PeakBonus(peak), tip |-> 0,
                  total |-> 2000 + DistancePay(km) + PeakBonus(peak) + SurgePay,
                  peak |-> PeakBonus(peak)]
    /\ UNCHANGED <<auto, manual, rain, bonus>>

FailedPay ==
    /\ earned' = [NoEarnings EXCEPT !.kind = "failure", !.base = 1250, !.total = 1250]
    /\ UNCHANGED <<auto, manual, rain, bonus>>

\* The day's breakdown sums the columns of the rows, here of one.
Breakdown(row) == row.base + row.distance + row.surge + row.tip

-----------------------------------------------------------------------------
(* The specification *)

SurgeInit ==
    /\ auto = "NONE" /\ rain = FALSE /\ manual \in BOOLEAN
    /\ bonus = -1
    /\ earned = NoEarnings

SurgeNext ==
    \/ \E waiting \in 0..MaxWaiting, free \in 0..MaxFree : AutoSurgeCheck(waiting, free)
    \/ AutoExpires \/ EnableRain \/ DisableRain
    \/ \E shown \in {StatusOfCity, PublicStatus} : ShowSurge(shown)
    \/ \E km \in Distances, peak \in BOOLEAN : CalculateEarnings(km, peak)
    \/ FailedPay

SurgeSpec == SurgeInit /\ [][SurgeNext]_surgeVars

-----------------------------------------------------------------------------
(* Properties *)

\* A delivery pays the bonus that was last shown, on whichever screen, if no
\* key has changed since, and the day's breakdown adds up to what was earned
\* (surge_detector.py:63-95, admin.py:175-177, flutter_api.py:1579-1587,
\* earnings_service.py:74-88).
PaidAsShown ==
    [][earned' # earned =>
         /\ earned'.kind = "delivery" /\ bonus # -1
              => earned'.surge = bonus + earned'.peak
         /\ Breakdown(earned') = earned'.total]_surgeVars

=============================================================================
