--------------------------- MODULE PriceCalendar ---------------------------
(***************************************************************************)
(* The price calendar of a month: the tiers the API gives the days         *)
(* (search.service.ts, and the same rule in travelpayouts.service.ts), and *)
(* the colours the page gives them, which it works out anew from the       *)
(* prices (components/PriceCalendar.tsx).                                  *)
(***************************************************************************)
EXTENDS Integers, Sequences, FiniteSets, Functions

CONSTANTS
  MaxDays,      \* bound on the days of a month
  DayPrice      \* prices a day may have; none is below 1500

ASSUME CalendarAssumption == MaxDays \in Nat /\ DayPrice \subseteq Nat

VARIABLES
  prices,       \* min_price of the days of the month
  cachedMonth,  \* the tiers in Redis under calendar:*, <<>> is no entry
  seen          \* the tiers the page was sent, <<>> before it asks

calendarVars == <<prices, cachedMonth, seen>>

\* sorted[k - 1]: the price of which fewer than k days are cheaper, and k at least
\* are not dearer.
Sorted(s, k) ==
  CHOOSE p \in Range(s) : /\ Cardinality({i \in DOMAIN s : s[i] < p}) < k
                          /\ Cardinality({i \in DOMAIN s : s[i] <= p}) >= k

\* sorted[Math.floor(length * n / 10)], counted from 0.
Threshold(s, n) == Sorted(s, (Len(s) * n) \div 10 + 1)

\* As Tier, asking about the red days first.
TierRedFirst(s, p) ==
  IF p >= Threshold(s, 8) THEN 2 ELSE IF p <= Threshold(s, 2) THEN 0 ELSE 1

\* 0 green, 1 yellow, 2 red.
Tier(s, p) ==
  IF p <= Threshold(s, 2) THEN 0 ELSE IF p >= Threshold(s, 8) THEN 2 ELSE 1

Lowest(s) == Sorted(s, 1)
Highest(s) == Sorted(s, Len(s))

\* Thirds of the range rather than of the days.
Colour(s, p) ==
  LET range == Highest(s) - Lowest(s)
      above == 100 * (p - Lowest(s))
  IN IF range = 0 \/ above < 33 * range THEN 0 ELSE IF above < 66 * range THEN 1 ELSE 2

Tiers == [i \in DOMAIN prices |-> Tier(prices, prices[i])]

CalendarInit ==
  /\ prices \in UNION {[1..n -> DayPrice] : n \in 1..MaxDays}
  /\ cachedMonth = <<>> /\ seen = <<>>

\* The entry, or the month anew: the generated prices of a day depend on the route
\* and the day only.  setex may fail.
GetCalendar ==
  /\ seen' = IF cachedMonth # <<>> THEN cachedMonth ELSE Tiers
  /\ cachedMonth' \in {cachedMonth, seen'}
  /\ UNCHANGED prices

CalendarExpires ==
  /\ cachedMonth # <<>> /\ cachedMonth' = <<>>
  /\ UNCHANGED <<prices, seen>>

CalendarNext == GetCalendar \/ CalendarExpires

CalendarSpec == CalendarInit /\ [][CalendarNext]_calendarVars

-----------------------------------------------------------------------------
(* Properties                                                              *)

\* The two colourings of a month, though they disagree about single days, both
\* keep the order of the prices: a dearer day never looks cheaper than a cheaper
\* one, the cheapest day is green in both, and on the page the dearest is red
\* whenever it is dearer than another.
TiersOrdered ==
  seen # <<>> => \A i, j \in DOMAIN prices :
    /\ prices[i] <= prices[j] =>
         seen[i] <= seen[j] /\ Colour(prices, prices[i]) <= Colour(prices, prices[j])
    /\ prices[i] = Lowest(prices) => seen[i] = 0 /\ Colour(prices, prices[i]) = 0
    /\ Lowest(prices) < prices[i] /\ prices[i] = Highest(prices) =>
         Colour(prices, prices[i]) = 2
=============================================================================
