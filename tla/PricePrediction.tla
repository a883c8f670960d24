-------------------------- MODULE PricePrediction --------------------------
(***************************************************************************)
(* The rule-based predictor of the ML service (packages/ml): a score of    *)
(* hundredths summed over four factors, an advice to buy or to wait, and a *)
(* buyer who follows it, asking again on the day it told them to wait for. *)
(***************************************************************************)
EXTENDS Integers, Sequences, FiniteSets

CONSTANTS
  Departure,    \* days of the year, 1..365, flights leave on
  DaysOut       \* how long before departure a buyer first asks

ASSUME DepartureAssumption == Departure \subseteq 1..365 /\ DaysOut \subseteq Int

VARIABLES
  flight,       \* day of the year, weekday, and whether the place is a popular one
  daysOut,      \* days left until departure
  advice,       \* the recommendation, "" before one is asked for
  waitDays

adviceVars == <<flight, daysOut, advice, waitDays>>

-----------------------------------------------------------------------------
(* models/rules.py                                                         *)

MonthStart == <<0, 31, 59, 90, 120, 151, 181, 212, 243, 273, 304, 334>>
Month(d) == CHOOSE m \in 1..12 :
              MonthStart[m] < d /\ (m < 12 => d <= MonthStart[m + 1])

SeasonalFactor == <<15, -10, -5, -5, 5, 20, 30, 25, 0, -10, -15, 10>>

\* Monday is 0.
DayOfWeekFactor == [w \in 0..6 |-> <<0, -15, -15, 0, 15, 5, 15>>[w + 1]]

AdvanceFactorFlat(n) == IF n <= 6 THEN 50 ELSE IF n <= 60 THEN -10 ELSE -20

AdvanceFactor(n) ==
  CASE n <= 6 -> 50 [] n \in 7..20 -> 30 [] n \in 21..60 -> -10 [] n \in 61..999 -> -20
    [] OTHER -> 0

\* First day and length; a holiday counts for a day more than it lasts.
Holidays == {<<1, 8>>, <<54, 1>>, <<67, 1>>, <<121, 1>>, <<129, 1>>, <<163, 1>>, <<308, 1>>}

NearHoliday(d) ==
  \E h \in Holidays, year \in {0, 365} : h[1] + year - d \in (-h[2])..14

-----------------------------------------------------------------------------
(* models/predictor.py                                                     *)

HolidayFactor(f) == IF ~NearHoliday(f.day) THEN 0 ELSE IF f.popular THEN 35 ELSE 25

Factors(f, n) ==
  <<AdvanceFactor(n), DayOfWeekFactor[f.weekday], SeasonalFactor[Month(f.day)],
    HolidayFactor(f)>>

Score(f, n) ==
  AdvanceFactor(n) + DayOfWeekFactor[f.weekday] + SeasonalFactor[Month(f.day)]
    + HolidayFactor(f)

\* The sums of 0.15 and of -0.15 that binary floating point carries past the
\* threshold; the other sums of the same amount stay on it.
RoundsPast ==
  {<<-10, -15, -15, 25>>, <<-10, 0, -5, 0>>, <<-10, 5, -10, 0>>, <<-10, 5, 20, 0>>,
   <<-20, -15, -15, 35>>, <<-20, -15, 25, 25>>, <<-20, 0, 5, 0>>, <<-20, 5, 0, 0>>,
   <<-20, 15, -10, 0>>}

Past(f, n) == Factors(f, n) \in RoundsPast

Direction(f, n) ==
  CASE Score(f, n) > 15 \/ (Score(f, n) = 15 /\ Past(f, n)) -> "UP"
    [] Score(f, n) < -15 \/ (Score(f, n) = -15 /\ Past(f, n)) -> "DOWN"
    [] OTHER -> "STABLE"

Least(a, b) == IF a < b THEN a ELSE b

\* Python's round: to the nearest integer, a half to the even one; x is in tenths.
RoundTenths(x) ==
  IF x % 10 = 5 THEN IF (x \div 10) % 2 = 0 THEN x \div 10 ELSE x \div 10 + 1
  ELSE (x + 5) \div 10

\* round(|score| * 10) and round(|score| * 5), of hundredths.
EstimateWaitDays(score, n) ==
  CASE n > 30 -> Least(7, RoundTenths(-score))
    [] n \in 15..30 -> Least(3, RoundTenths((-score) \div 2))
    [] OTHER -> 1

\* A date in the past has no prediction.
Recommended(f, n) ==
  IF n < 0 THEN "NO_DATA" ELSE IF Direction(f, n) = "DOWN" THEN "WAIT" ELSE "BUY_NOW"

Predict ==
  /\ advice = ""
  /\ advice' = Recommended(flight, daysOut)
  /\ waitDays' = IF advice' = "WAIT"
                 THEN EstimateWaitDays(Score(flight, daysOut), daysOut) ELSE 0
  /\ UNCHANGED <<flight, daysOut>>

\* The buyer does as told and comes back.
WaitAsTold ==
  /\ advice = "WAIT"
  /\ daysOut' = daysOut - waitDays
  /\ advice' = "" /\ waitDays' = 0
  /\ UNCHANGED flight

AdviceInit ==
  /\ flight \in [day: Departure, weekday: 0..6, popular: BOOLEAN]
  /\ daysOut \in DaysOut
  /\ advice = "" /\ waitDays = 0

AdviceNext == Predict \/ WaitAsTold

AdviceSpec == AdviceInit /\ [][AdviceNext]_adviceVars

-----------------------------------------------------------------------------
(* Properties                                                              *)

\* Whoever waits as told, for as long as told, is never led into the last week
\* before departure, where the rules charge most, nor past it; and every wait
\* brings the departure nearer, so the advice ends in buying.
NeverWaitLate ==
  advice = "WAIT" => waitDays >= 1 /\ AdvanceFactor(daysOut - waitDays) # 50
=============================================================================
