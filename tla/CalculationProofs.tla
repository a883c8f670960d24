------------------------- MODULE CalculationProofs -------------------------
(***************************************************************************)
(* The three calculations, for every price, list of protections, date and  *)
(* month: the quotation of a booking (Quote), the advice to buy or to wait *)
(* (PricePrediction) and the price calendar (PriceCalendar).               *)
(***************************************************************************)
EXTENDS Quote, PricePrediction, PriceCalendar, PricingProofs, SequenceTheorems

-----------------------------------------------------------------------------
(* Quote *)

\* Every entry handled has its row, and the accumulator is the closed form.
QuoteInv ==
  /\ TypeOK
  /\ LoopComputesPartialTotal
  /\ \A i \in 1 .. done :
       /\ protectionDetails[i].type = ToProtectionType(protections[i])
       /\ protectionDetails[i].premium = Premium(protections[i], flightPrice)

LEMMA NothingCosts == ASSUME NEW list, NEW price \in Nat PROVE PartialTotal(list, price, 0) = 0
<1>1. 1 .. 0 = {}
  OBVIOUS
<1>2. PartialTotal(list, price, 0) = TotalOf(list, price, 1 .. 0)
  BY PartialTotalIsTotalOf
<1> QED
  BY <1>1, <1>2, TotalOfNothing

LEMMA CoverageType ==
  ASSUME NEW price \in Nat, NEW kind \in RequestedKind PROVE Coverage(kind, price) \in Nat
<1>1. (price + 1) \div 2 \in Nat
  OBVIOUS
<1> QED
  BY <1>1 DEF Coverage, RequestedKind

LEMMA QuoteInvStep == ASSUME QuoteInv, [Next]_vars PROVE QuoteInv'
<1>1. CASE UNCHANGED vars
  BY <1>1 DEF QuoteInv, TypeOK, LoopComputesPartialTotal, PartialTotal, CountOf, vars
<1>2. CASE AddProtection
  <2> DEFINE kind == protections[done + 1]
             row == [type |-> ToProtectionType(kind), premium |-> Premium(kind, flightPrice),
                     coverage |-> Coverage(kind, flightPrice)]
  <2>1. /\ flightPrice' = flightPrice /\ protections' = protections /\ done' = done + 1
        /\ protectionTotal' = protectionTotal + Premium(kind, flightPrice)
        /\ protectionDetails' = Append(protectionDetails, row)
        /\ done < Len(protections)
    BY <1>2 DEF AddProtection
  <2>2. /\ flightPrice \in Nat /\ done \in Nat /\ kind \in RequestedKind
        /\ Len(protections) \in Nat
    BY <2>1 DEF QuoteInv, TypeOK
  <2>3. row \in Detail
    BY <2>2, PremiumType, CoverageType, ToProtectionTypeType DEF Detail
  <2>4. row.type = ToProtectionType(kind) /\ row.premium = Premium(kind, flightPrice)
    OBVIOUS
  <2>5. Premium(kind, flightPrice) \in Nat
    BY <2>2, PremiumType
  <2>6. PartialTotal(protections, flightPrice, done + 1) =
          PartialTotal(protections, flightPrice, done) + Premium(kind, flightPrice)
    BY <2>2, PartialTotalNext
  <2> HIDE DEF row
  <2>7. /\ protectionDetails' \in Seq(Detail) /\ Len(protectionDetails') = done + 1
        /\ protectionDetails'[done + 1] = row
        /\ \A i \in 1 .. done : protectionDetails'[i] = protectionDetails[i]
    BY <2>1, <2>3 DEF QuoteInv, TypeOK
  <2>8. TypeOK'
    BY <2>1, <2>2, <2>5, <2>7 DEF QuoteInv, TypeOK
  <2>9. LoopComputesPartialTotal'
    BY <2>1, <2>6 DEF QuoteInv, LoopComputesPartialTotal
  <2>10. ASSUME NEW i \in 1 .. done + 1
         PROVE  /\ protectionDetails'[i].type = ToProtectionType(protections[i])
                /\ protectionDetails'[i].premium = Premium(protections[i], flightPrice)
    BY <2>2, <2>4, <2>7, <2>10 DEF QuoteInv
  <2> QED
    BY <2>1, <2>8, <2>9, <2>10 DEF QuoteInv
<1> QED
  BY <1>1, <1>2 DEF Next

\* The loop over dto.protections keeps its accumulator and its rows together.
THEOREM QuoteCorrect == Spec => []QuoteInv
<1>1. Init => QuoteInv
  <2> SUFFICES ASSUME Init PROVE QuoteInv
    OBVIOUS
  <2>1. flightPrice \in Nat /\ protections \in Seq(RequestedKind) /\ done = 0
    BY PricesAssumption, ListsAssumption DEF Init
  <2>2. TypeOK
    BY <2>1 DEF Init, TypeOK
  <2>3. LoopComputesPartialTotal
    BY <2>1, NothingCosts DEF Init, LoopComputesPartialTotal
  <2> QED
    BY <2>1, <2>2, <2>3 DEF QuoteInv
<1> QED
  BY <1>1, QuoteInvStep, PTL DEF Spec

\* The accumulator of the loop is the closed form every booking is charged by, for
\* every list of protections however long and however often it repeats itself.
THEOREM LoopComputes == Spec => []LoopComputesPartialTotal
<1>1. QuoteInv => LoopComputesPartialTotal
  BY DEF QuoteInv
<1> QED
  BY <1>1, QuoteCorrect, PTL

LEMMA CfarPremiumType == \A price \in Nat : CfarPremium(price) \in Nat
BY CfarPremiumInBounds

\* The list asks once for each of the boxes that are ticked, and for nothing else.
OnceEach(list, chosen) ==
  /\ \A i \in 1 .. Len(list) : list[i] \in chosen
  /\ \A x \in chosen : \E i \in 1 .. Len(list) : x = list[i]
  /\ chosen \subseteq {"cancel_for_any_reason", "price_drop"}
  /\ Cardinality(chosen) = Len(list)

\* What the page adds up for the boxes that are ticked, and what the server charges.
LEMMA PageList ==
  ASSUME NEW price \in Nat, NEW list \in Seq(RequestedKind), NEW chosen, OnceEach(list, chosen)
  PROVE  price + PartialTotal(list, price, Len(list)) =
           price + (IF "cancel_for_any_reason" \in chosen THEN CfarPremium(price) ELSE 0)
                 + (IF "price_drop" \in chosen THEN 1500 ELSE 0)
<1> DEFINE cancel == "cancel_for_any_reason"
           drop == "price_drop"
           n == Len(list)
<1>1. n \in Nat /\ \A i \in 1 .. n : list[i] \in RequestedKind /\ list[i] \in chosen
  BY DEF OnceEach
<1>2. CfarPremium(price) \in Nat
  BY CfarPremiumType
<1>3. Premium(cancel, price) = CfarPremium(price) /\ Premium(drop, price) = 1500
  BY DEF Premium, PriceDropPremium
<1>4. cancel # drop
  OBVIOUS
<1>5. IsFiniteSet({cancel, drop}) /\ Cardinality({cancel, drop}) = 2
  <2>1. IsFiniteSet({cancel}) /\ Cardinality({cancel}) = 1
    BY FS_Singleton
  <2>2. {cancel, drop} = {cancel} \cup {drop} /\ drop \notin {cancel}
    OBVIOUS
  <2>3. IsFiniteSet({cancel} \cup {drop}) /\ Cardinality({cancel} \cup {drop}) = 1 + 1
    BY <2>1, <2>2, FS_AddElement
  <2> QED
    BY <2>2, <2>3
<1>6. n \in {0, 1, 2}
  <2>1. chosen \subseteq {cancel, drop} /\ Cardinality(chosen) = n
    BY DEF OnceEach
  <2>2. Cardinality(chosen) <= 2
    BY <1>5, <2>1, FS_Subset
  <2> HIDE DEF n
  <2> QED
    BY <1>1, <2>1, <2>2
<1>7. PartialTotal(list, price, 0) = 0
  BY NothingCosts
<1>8. CASE n = 0
  <2>1. chosen = {}
    BY <1>1, <1>8 DEF OnceEach
  <2> QED
    BY <1>7, <1>8, <2>1
<1>9. ASSUME n > 0 PROVE PartialTotal(list, price, 1) = Premium(list[1], price)
  <2>1. list[1] \in RequestedKind /\ 0 \in Nat /\ 0 + 1 = 1
    BY <1>1, <1>9
  <2>2. PartialTotal(list, price, 0 + 1) = PartialTotal(list, price, 0) + Premium(list[0 + 1], price)
    BY <2>1, PartialTotalNext
  <2>3. Premium(list[1], price) \in Nat
    BY <2>1, PremiumType
  <2> QED
    BY <1>7, <2>1, <2>2, <2>3
<1>10. CASE n = 1
  <2>1. chosen = {list[1]} /\ list[1] \in {cancel, drop}
    <3>1. list[1] \in chosen /\ chosen \subseteq {cancel, drop}
      BY <1>1, <1>10 DEF OnceEach
    <3>2. \A x \in chosen : x = list[1]
      <4>1. \A x \in chosen : \E i \in 1 .. 1 : x = list[i]
        BY <1>10 DEF OnceEach
      <4> QED
        BY <4>1
    <3> QED
      BY <3>1, <3>2
  <2>2. PartialTotal(list, price, n) = Premium(list[1], price)
    BY <1>9, <1>10
  <2>3. CASE list[1] = cancel
    BY <1>2, <1>3, <2>1, <2>2, <2>3
  <2>4. CASE list[1] = drop
    BY <1>3, <2>1, <2>2, <2>4
  <2> QED
    BY <2>1, <2>3, <2>4
<1>11. CASE n = 2
  <2>1. chosen = {list[1], list[2]} /\ list[1] \in {cancel, drop} /\ list[2] \in {cancel, drop}
    <3>1. \A i \in 1 .. 2 : list[i] \in chosen /\ list[i] \in {cancel, drop}
      BY <1>11 DEF OnceEach
    <3>2. \A x \in chosen : \E i \in 1 .. 2 : x = list[i]
      BY <1>11 DEF OnceEach
    <3>3. \A i \in 1 .. 2 : i = 1 \/ i = 2
      OBVIOUS
    <3> QED
      BY <3>1, <3>2, <3>3
  <2>2. list[1] # list[2]
    <3>1. ASSUME list[1] = list[2] PROVE FALSE
      <4>1. chosen = {list[1]}
        BY <2>1, <3>1
      <4>2. Cardinality(chosen) = 1
        BY <4>1, FS_Singleton
      <4> QED
        BY <1>11, <4>2 DEF OnceEach
    <3> QED
      BY <3>1
  <2>3. PartialTotal(list, price, 1 + 1) = PartialTotal(list, price, 1) + Premium(list[1 + 1], price)
    <3>1. list[1 + 1] \in RequestedKind /\ 1 \in Nat
      BY <1>1, <1>11
    <3> QED
      BY <3>1, PartialTotalNext
  <2>4. PartialTotal(list, price, n) = Premium(list[1], price) + Premium(list[2], price)
    BY <1>9, <1>11, <2>3
  <2>5. PartialTotal(list, price, n) = CfarPremium(price) + 1500
    <3>1. CASE list[1] = cancel
      BY <1>2, <1>3, <2>1, <2>2, <2>4, <3>1
    <3>2. CASE list[1] = drop
      BY <1>2, <1>3, <2>1, <2>2, <2>4, <3>2
    <3> QED
      BY <2>1, <3>1, <3>2
  <2>6. cancel \in chosen /\ drop \in chosen
    BY <2>1, <2>2
  <2> QED
    BY <1>2, <2>5, <2>6
<1> QED
  BY <1>6, <1>8, <1>10, <1>11

\* The page's copy of the CFAR rule and the server's give the same premium.
LEMMA SameCfar == \A price \in Nat : ShownCfar(price) = CfarPremium(price)
<1> SUFFICES ASSUME NEW price \in Nat PROVE ShownCfar(price) = CfarPremium(price)
  OBVIOUS
<1> DEFINE share == (12 * price + 50) \div 100
<1>1. share \in Int
  OBVIOUS
<1>2. CASE share < 1500
  BY <1>1, <1>2 DEF ShownCfar, CfarPremium, Clamp
<1>3. CASE share > 5000
  BY <1>1, <1>3 DEF ShownCfar, CfarPremium, Clamp
<1>4. CASE 1500 <= share /\ share <= 5000
  BY <1>1, <1>4 DEF ShownCfar, CfarPremium, Clamp
<1> QED
  BY <1>1, <1>2, <1>3, <1>4

\* The amount charged is the one the booking page showed for the boxes ticked: its
\* copy of both rules agrees with the server's.
THEOREM Shown == Spec => []ShownIsCharged
<1>1. QuoteInv => ShownIsCharged
  <2> SUFFICES ASSUME QuoteInv, Quoted, FromThePage PROVE Total = ShownTotal(Ticked)
    BY DEF ShownIsCharged
  <2>1. protectionTotal = PartialTotal(protections, flightPrice, Len(protections))
    BY DEF QuoteInv, LoopComputesPartialTotal, Quoted
  <2>2. flightPrice \in Nat /\ protections \in Seq(RequestedKind)
    BY DEF QuoteInv, TypeOK
  <2>3. OnceEach(protections, Ticked)
    BY <2>2 DEF OnceEach, FromThePage, Ticked
  <2> QED
    BY <2>1, <2>2, <2>3, PageList, SameCfar DEF Total, ShownTotal
<1> QED
  BY <1>1, QuoteCorrect, PTL

\* A quoted row costs what its entry costs, which is in the total.
LEMMA QuotedRow ==
  ASSUME QuoteInv, Quoted, NEW i \in CfarRows
  PROVE  /\ flightPrice \in Nat /\ protectionTotal \in Nat
         /\ protectionDetails[i].premium \in Nat
         /\ protectionDetails[i].premium <= protectionTotal
         /\ protectionDetails[i].premium \in {CfarPremium(flightPrice), 1500, 0}
<1>1. /\ flightPrice \in Nat /\ protectionTotal \in Nat /\ Len(protections) \in Nat
      /\ i \in 1 .. Len(protections) /\ protections[i] \in RequestedKind
      /\ protectionDetails[i].premium = Premium(protections[i], flightPrice)
      /\ protectionTotal = PartialTotal(protections, flightPrice, Len(protections))
  BY DEF QuoteInv, TypeOK, Quoted, CfarRows, LoopComputesPartialTotal
<1>2. Premium(protections[i], flightPrice) \in Nat
  BY <1>1, PremiumType
<1>3. Premium(protections[i], flightPrice) <= protectionTotal
  BY <1>1, PremiumInTotal
<1>4. Premium(protections[i], flightPrice) \in {CfarPremium(flightPrice), 1500, 0}
  BY DEF Premium, PriceDropPremium
<1> QED
  BY <1>1, <1>2, <1>3, <1>4

\* A cancellation under CFAR gives back at least the price of the flight and at most
\* what was paid, whatever else the booking was sold with.
THEOREM GivesBack == Spec => []CfarGivesFlightPriceBack
<1>1. QuoteInv => CfarGivesFlightPriceBack
  BY QuotedRow DEF CfarGivesFlightPriceBack, CfarRefund, Total
<1> QED
  BY <1>1, QuoteCorrect, PTL

\* From 1500 roubles the premium is at most the price of the flight.
LEMMA PremiumBelowPrice ==
  ASSUME NEW price \in Nat, price >= 1500 PROVE CfarPremium(price) <= price
<1> DEFINE share == (12 * price + 50) \div 100
<1>1. share \in Int /\ share <= price
  OBVIOUS
<1> HIDE DEF share
<1>2. Clamp(1500, 5000, share) <= price
  BY <1>1 DEF Clamp
<1> QED
  BY <1>2 DEF CfarPremium, share

\* From 1500 roubles on, CFAR never pays back less than the airline would have.
THEOREM NeverWorse == Spec => []CfarNeverWorse
<1>1. QuoteInv => CfarNeverWorse
  <2> SUFFICES ASSUME QuoteInv, Quoted, flightPrice >= 1500, NEW i \in CfarRows
               PROVE  CfarRefund(Total, protectionDetails[i].premium) >= AirlineRefund(Total)
    BY DEF CfarNeverWorse
  <2> DEFINE q == protectionDetails[i].premium
  <2>1. flightPrice \in Nat /\ protectionTotal \in Nat /\ q \in Nat /\ q <= protectionTotal
    BY QuotedRow
  <2>2. q <= flightPrice
    BY <2>1, QuotedRow, PremiumBelowPrice
  <2> HIDE DEF q
  <2>3. flightPrice + protectionTotal - q >= (flightPrice + protectionTotal + 1) \div 2
    BY <2>1, <2>2
  <2> QED
    BY <2>1, <2>3 DEF CfarRefund, AirlineRefund, Total, q
<1> QED
  BY <1>1, QuoteCorrect, PTL

-----------------------------------------------------------------------------
(* PricePrediction                                                         *)

\* Every day of the year is in a month, and no month's factor is below -15.
LEMMA MonthOfDay ==
  ASSUME NEW d \in 1..365 PROVE Month(d) \in 1..12
<1> DEFINE within(m) == MonthStart[m] < d /\ (m < 12 => d <= MonthStart[m + 1])
<1>1. /\ d <= 31 => within(1)
      /\ 31 < d /\ d <= 59 => within(2)
      /\ 59 < d /\ d <= 90 => within(3)
      /\ 90 < d /\ d <= 120 => within(4)
      /\ 120 < d /\ d <= 151 => within(5)
      /\ 151 < d /\ d <= 181 => within(6)
  BY DEF MonthStart
<1>2. /\ 181 < d /\ d <= 212 => within(7)
      /\ 212 < d /\ d <= 243 => within(8)
      /\ 243 < d /\ d <= 273 => within(9)
      /\ 273 < d /\ d <= 304 => within(10)
      /\ 304 < d /\ d <= 334 => within(11)
      /\ 334 < d => within(12)
  BY DEF MonthStart
<1> HIDE DEF within
<1>3. \E m \in 1..12 : within(m)
  <2>1. CASE d <= 181
    BY <1>1, <2>1
  <2>2. CASE d > 181
    BY <1>2, <2>2
  <2> QED
    BY <2>1, <2>2
<1>4. Month(d) = CHOOSE m \in 1..12 : within(m)
  BY DEF Month, within
<1> QED
  BY <1>3, <1>4

FlightFacts == [day: 1..365, weekday: 0..6, popular: BOOLEAN]

LEMMA FactorBounds ==
  ASSUME NEW f \in FlightFacts
  PROVE  /\ SeasonalFactor[Month(f.day)] \in (-15)..30
         /\ DayOfWeekFactor[f.weekday] \in (-15)..15
         /\ HolidayFactor(f) \in 0..35
<1>1. \A m \in 1..12 : SeasonalFactor[m] \in (-15)..30
  <2>1. ASSUME NEW m \in 1..12 PROVE SeasonalFactor[m] \in (-15)..30
    <3>1. \/ m = 1 \/ m = 2 \/ m = 3 \/ m = 4 \/ m = 5 \/ m = 6
          \/ m = 7 \/ m = 8 \/ m = 9 \/ m = 10 \/ m = 11 \/ m = 12
      OBVIOUS
    <3> QED
      BY <3>1 DEF SeasonalFactor
  <2> QED
    BY <2>1
<1>2. \A w \in 0..6 : DayOfWeekFactor[w] \in (-15)..15
  <2>1. ASSUME NEW w \in 0..6 PROVE DayOfWeekFactor[w] \in (-15)..15
    <3>1. w + 1 = 1 \/ w + 1 = 2 \/ w + 1 = 3 \/ w + 1 = 4 \/ w + 1 = 5 \/ w + 1 = 6 \/ w + 1 = 7
      OBVIOUS
    <3> QED
      BY <3>1 DEF DayOfWeekFactor
  <2> QED
    BY <2>1
<1>3. f.day \in 1..365 /\ f.weekday \in 0..6
  BY DEF FlightFacts
<1>4. HolidayFactor(f) \in 0..35
  BY DEF HolidayFactor
<1> QED
  BY <1>1, <1>2, <1>3, <1>4, MonthOfDay

\* The advice to wait is given three weeks ahead and more, and of what the score
\* says no more than a week is waited.
LEMMA WaitEndsEarly ==
  ASSUME NEW f \in FlightFacts, NEW n \in Nat,
         Direction(f, n) = "DOWN"
  PROVE  LET days == EstimateWaitDays(Score(f, n), n)
         IN  days \in Int /\ days >= 1 /\ n - days > 6
<1> DEFINE score == Score(f, n)
           days == EstimateWaitDays(score, n)
<1>1. /\ score \in Int /\ score <= -15 /\ AdvanceFactor(n) \in {50, 30, -10, -20, 0}
      /\ score >= AdvanceFactor(n) - 30
  <2>1. AdvanceFactor(n) \in {50, 30, -10, -20, 0}
    BY DEF AdvanceFactor
  <2>2. PICK a \in {50, 30, -10, -20, 0} : a = AdvanceFactor(n)
    BY <2>1
  <2>3. PICK s \in (-15)..30, w \in (-15)..15, h \in 0..35 :
          /\ s = SeasonalFactor[Month(f.day)] /\ w = DayOfWeekFactor[f.weekday]
          /\ h = HolidayFactor(f)
    BY FactorBounds
  <2>4. score = a + w + s + h
    BY <2>2, <2>3 DEF Score
  <2>5. score \in Int /\ score >= a - 30
    BY <2>4
  <2>6. score <= -15
    <3> HIDE DEF score
    <3>1. Direction(f, n) = "DOWN" => score < -15 \/ score = -15
      BY DEF Direction, score
    <3> QED
      BY <2>5, <3>1
  <2> QED
    BY <2>1, <2>2, <2>5, <2>6
<1>2. n > 20
  <2>1. n <= 6 => AdvanceFactor(n) = 50
    BY DEF AdvanceFactor
  <2>2. n \in 7..20 => AdvanceFactor(n) = 30
    BY DEF AdvanceFactor
  <2> HIDE DEF score
  <2> QED
    BY <1>1, <2>1, <2>2
<1> HIDE DEF score
<1>3. \A x \in Nat : x >= 7 => RoundTenths(x) \in Int /\ RoundTenths(x) >= 1
  <2>1. ASSUME NEW x \in Nat, x >= 7 PROVE RoundTenths(x) \in Int /\ RoundTenths(x) >= 1
    <3>1. (x + 5) \div 10 \in Int /\ (x + 5) \div 10 >= 1 /\ x \div 10 \in Int
      BY <2>1
    <3>2. x % 10 = 5 => x \div 10 >= 1
      BY <2>1
    <3> QED
      BY <3>1, <3>2 DEF RoundTenths
  <2> QED
    BY <2>1
<1>4. CASE n > 30
  <2>1. PICK x \in Nat : x = -score /\ x >= 7
    BY <1>1
  <2>2. days = Least(7, RoundTenths(x))
    BY <1>4, <2>1 DEF EstimateWaitDays
  <2>3. RoundTenths(x) \in Int /\ RoundTenths(x) >= 1
    BY <1>3, <2>1
  <2>4. days \in Int /\ days >= 1 /\ days <= 7
    BY <2>2, <2>3 DEF Least
  <2> QED
    BY <1>4, <2>4 DEF score
<1>5. CASE n <= 30
  <2>1. PICK x \in Nat : x = (-score) \div 2 /\ x >= 7
    BY <1>1
  <2>2. days = Least(3, RoundTenths(x))
    BY <1>2, <1>5, <2>1 DEF EstimateWaitDays
  <2>3. RoundTenths(x) \in Int /\ RoundTenths(x) >= 1
    BY <1>3, <2>1
  <2>4. days \in Int /\ days >= 1 /\ days <= 3
    BY <2>2, <2>3 DEF Least
  <2> QED
    BY <1>2, <2>4 DEF score
<1> QED
  BY <1>4, <1>5

DaysToWait(f, n) == EstimateWaitDays(Score(f, n), n)

WaitsRight(f, n, days) ==
  n >= 0 /\ Direction(f, n) = "DOWN" /\ days = DaysToWait(f, n)

AdviceInv ==
  /\ flight \in FlightFacts
  /\ daysOut \in Int
  /\ advice = "WAIT" => WaitsRight(flight, daysOut, waitDays)

\* Whoever waits as told arrives before the last week, on every day of the year and
\* however early they first ask.
THEOREM WaitsInTime == AdviceSpec => []NeverWaitLate
<1>1. AdviceInit => AdviceInv
  BY DepartureAssumption DEF AdviceInit, AdviceInv, FlightFacts
<1>2. AdviceInv /\ [AdviceNext]_adviceVars => AdviceInv'
  <2>1. ASSUME AdviceInv, Predict PROVE AdviceInv'
    <3>1. flight' = flight /\ daysOut' = daysOut /\ flight \in FlightFacts /\ daysOut \in Int
      BY <2>1 DEF AdviceInv, Predict
    <3>2. ASSUME advice' = "WAIT" PROVE WaitsRight(flight, daysOut, waitDays')
      <4>1. Recommended(flight, daysOut) = "WAIT"
        BY <2>1, <3>2 DEF Predict
      <4>2. daysOut >= 0 /\ Direction(flight, daysOut) = "DOWN"
        BY <3>1, <4>1 DEF Recommended
      <4>3. waitDays' = EstimateWaitDays(Score(flight, daysOut), daysOut)
        BY <2>1, <3>2 DEF Predict
      <4> QED
        BY <4>2, <4>3 DEF WaitsRight, DaysToWait
    <3> QED
      BY <3>1, <3>2 DEF AdviceInv
  <2>2. ASSUME AdviceInv, WaitAsTold PROVE AdviceInv'
    <3>1. daysOut \in Nat /\ flight \in FlightFacts /\ Direction(flight, daysOut) = "DOWN"
          /\ waitDays = DaysToWait(flight, daysOut)
      <4>1. advice = "WAIT"
        BY <2>2 DEF WaitAsTold
      <4>2. WaitsRight(flight, daysOut, waitDays) /\ flight \in FlightFacts /\ daysOut \in Int
        BY <2>2, <4>1 DEF AdviceInv
      <4> QED
        BY <4>2 DEF WaitsRight
    <3>2. waitDays \in Int
      BY <3>1, WaitEndsEarly DEF DaysToWait
    <3>3. flight' = flight /\ daysOut' = daysOut - waitDays
      BY <2>2 DEF WaitAsTold
    <3>4. daysOut' \in Int
      BY <3>1, <3>2, <3>3
    <3>5. advice' # "WAIT"
      BY <2>2 DEF WaitAsTold
    <3> QED
      BY <3>1, <3>3, <3>4, <3>5 DEF AdviceInv
  <2>3. ASSUME AdviceInv, UNCHANGED adviceVars PROVE AdviceInv'
    BY <2>3 DEF AdviceInv, adviceVars
  <2> QED
    BY <2>1, <2>2, <2>3 DEF AdviceNext
<1>3. AdviceInv => NeverWaitLate
  <2> SUFFICES ASSUME AdviceInv, advice = "WAIT"
               PROVE  waitDays >= 1 /\ AdvanceFactor(daysOut - waitDays) # 50
    BY DEF NeverWaitLate
  <2>1. /\ daysOut \in Nat /\ flight \in FlightFacts /\ Direction(flight, daysOut) = "DOWN"
        /\ waitDays = DaysToWait(flight, daysOut)
    <3>1. WaitsRight(flight, daysOut, waitDays) /\ flight \in FlightFacts /\ daysOut \in Int
      BY DEF AdviceInv
    <3> QED
      BY <3>1 DEF WaitsRight
  <2>2. waitDays \in Int /\ waitDays >= 1 /\ daysOut - waitDays > 6
    BY <2>1, WaitEndsEarly DEF DaysToWait
  <2>3. \A n \in Int : n > 6 => AdvanceFactor(n) # 50
    BY DEF AdvanceFactor
  <2> QED
    BY <2>1, <2>2, <2>3
<1> QED
  BY <1>1, <1>2, <1>3, PTL DEF AdviceSpec

-----------------------------------------------------------------------------
(* PriceCalendar: the two colourings of a month                             *)

NotDearer(s, p) == {i \in DOMAIN s : s[i] <= p}
Cheaper(s, p) == {i \in DOMAIN s : s[i] < p}

LEMMA DayCounts ==
  ASSUME NEW n \in Nat, NEW s \in [1..n -> Nat], NEW p \in Int
  PROVE  /\ Cardinality(NotDearer(s, p)) \in 0..n
         /\ Cardinality(Cheaper(s, p)) \in 0..n
         /\ Cardinality(NotDearer(s, p)) = n => NotDearer(s, p) = 1..n
         /\ Cardinality(Cheaper(s, p)) = 0 => Cheaper(s, p) = {}
<1>1. IsFiniteSet(1..n) /\ Cardinality(1..n) = n
  BY FS_Interval
<1>2. NotDearer(s, p) \subseteq 1..n /\ Cheaper(s, p) \subseteq 1..n
  BY DEF NotDearer, Cheaper
<1>3. /\ IsFiniteSet(NotDearer(s, p)) /\ IsFiniteSet(Cheaper(s, p))
      /\ Cardinality(NotDearer(s, p)) <= n /\ Cardinality(Cheaper(s, p)) <= n
      /\ Cardinality(NotDearer(s, p)) = n => NotDearer(s, p) = 1..n
  BY <1>1, <1>2, FS_Subset
<1>4. Cardinality(NotDearer(s, p)) \in Nat /\ Cardinality(Cheaper(s, p)) \in Nat
  BY <1>3, FS_CardinalityType
<1>5. Cardinality(Cheaper(s, p)) = 0 => Cheaper(s, p) = {}
  BY <1>3, FS_EmptySet
<1> QED
  BY <1>3, <1>4, <1>5

Bounded(s, j) == \E top \in Nat : \A i \in 1..j : s[i] <= top

LEMMA PricesBounded ==
  ASSUME NEW n \in Nat, NEW s \in [1..n -> Nat]
  PROVE  \E top \in Nat : \A i \in 1..n : s[i] <= top
<1> DEFINE Unbounded == {j \in 0..n : ~ Bounded(s, j)}
<1>1. ASSUME Unbounded # {} PROVE FALSE
  <2>0. Unbounded \subseteq Nat
    OBVIOUS
  <2>1. PICK j \in Unbounded : \A k \in Unbounded : j <= k
    <3> HIDE DEF Unbounded
    <3> QED
      BY <1>1, <2>0, LeastNumber
  <2>2. j # 0
    <3>1. \A i \in 1..0 : s[i] <= 0
      OBVIOUS
    <3>2. Bounded(s, 0)
      BY <3>1 DEF Bounded
    <3> QED
      BY <3>2
  <2>3. j - 1 \in 0..n /\ j \in 1..n /\ Bounded(s, j - 1)
    BY <2>1, <2>2
  <2>4. PICK top \in Nat : \A i \in 1..(j - 1) : s[i] <= top
    BY <2>3 DEF Bounded
  <2>5. PICK more \in Nat : top <= more /\ s[j] <= more
    <3>1. s[j] \in Nat
      BY <2>3
    <3>2. top <= s[j] \/ s[j] <= top
      BY <3>1
    <3> QED
      BY <3>1, <3>2
  <2>6. \A i \in 1..j : s[i] <= more
    <3>1. ASSUME NEW i \in 1..j PROVE s[i] <= more
      <4>1. s[i] \in Nat
        BY <2>3
      <4>2. i = j \/ i \in 1..(j - 1)
        BY <2>3
      <4> QED
        BY <2>4, <2>5, <4>1, <4>2
    <3> QED
      BY <3>1
  <2>7. Bounded(s, j)
    BY <2>6 DEF Bounded
  <2> QED
    BY <2>1, <2>7
<1>2. Bounded(s, n)
  BY <1>1
<1> QED
  BY <1>2 DEF Bounded

\* The k-th price exists, of every month and every k.
LEMMA SortedIs ==
  ASSUME NEW n \in Nat, NEW s \in [1..n -> Nat], NEW k \in 1..n
  PROVE  /\ Sorted(s, k) \in Range(s)
         /\ Cardinality(Cheaper(s, Sorted(s, k))) < k
         /\ Cardinality(NotDearer(s, Sorted(s, k))) >= k
<1> DEFINE Enough == {p \in Nat : Cardinality(NotDearer(s, p)) >= k}
<1>1. Enough # {}
  <2>1. PICK top \in Nat : \A i \in 1..n : s[i] <= top
    BY PricesBounded
  <2>2. NotDearer(s, top) = 1..n
    BY <2>1 DEF NotDearer
  <2>3. Cardinality(NotDearer(s, top)) = n
    BY <2>2, FS_Interval
  <2> QED
    BY <2>3
<1>2. PICK p \in Enough : \A q \in Enough : p <= q
  BY <1>1, LeastNumber
<1>3. Cardinality(Cheaper(s, p)) < k
  <2>1. CASE p = 0
    <3>1. Cheaper(s, p) = {}
      BY <2>1 DEF Cheaper
    <3> QED
      BY <3>1, FS_EmptySet
  <2>2. CASE p # 0
    <3>1. p - 1 \in Nat /\ p - 1 \notin Enough
      BY <1>2, <2>2
    <3>2. Cheaper(s, p) = NotDearer(s, p - 1)
      BY <3>1 DEF Cheaper, NotDearer
    <3>3. Cardinality(NotDearer(s, p - 1)) \in 0..n
      BY <3>1, DayCounts
    <3> QED
      BY <3>1, <3>2, <3>3
  <2> QED
    BY <2>1, <2>2
<1>4. p \in Range(s)
  <2>1. ASSUME p \notin Range(s) PROVE FALSE
    <3>1. \A i \in 1..n : s[i] # p
      BY <2>1 DEF Range
    <3>2. NotDearer(s, p) = Cheaper(s, p)
      BY <3>1 DEF NotDearer, Cheaper
    <3>3. Cardinality(NotDearer(s, p)) \in 0..n
      BY DayCounts
    <3> QED
      BY <1>2, <1>3, <3>2, <3>3
  <2> QED
    BY <2>1
<1>5. \E q \in Range(s) : /\ Cardinality({i \in DOMAIN s : s[i] < q}) < k
                          /\ Cardinality({i \in DOMAIN s : s[i] <= q}) >= k
  BY <1>2, <1>3, <1>4 DEF Cheaper, NotDearer
<1> QED
  BY <1>5 DEF Sorted, Cheaper, NotDearer

LEMMA CheapestDay ==
  ASSUME NEW n \in Nat, NEW s \in [1..n -> Nat], NEW p \in Nat, NEW i \in 1..n,
         Cardinality(Cheaper(s, p)) = 0
  PROVE  p <= s[i]
<1>1. Cheaper(s, p) = {}
  BY DayCounts
<1> QED
  BY <1>1 DEF Cheaper

LEMMA DearestDay ==
  ASSUME NEW n \in Nat, NEW s \in [1..n -> Nat], NEW p \in Nat, NEW i \in 1..n,
         Cardinality(NotDearer(s, p)) = n
  PROVE  s[i] <= p
<1>1. NotDearer(s, p) = 1..n
  BY DayCounts
<1> QED
  BY <1>1 DEF NotDearer

TierOf(green, red, p) == IF p <= green THEN 0 ELSE IF p >= red THEN 2 ELSE 1

LEMMA TiersKeepOrder ==
  ASSUME NEW green \in Nat, NEW red \in Nat, NEW p \in Nat, NEW q \in Nat, p <= q
  PROVE  TierOf(green, red, p) <= TierOf(green, red, q)
BY DEF TierOf

ThirdOf(low, high, p) ==
  IF high - low = 0 \/ 100 * (p - low) < 33 * (high - low) THEN 0
  ELSE IF 100 * (p - low) < 66 * (high - low) THEN 1 ELSE 2

LEMMA ThirdsKeepOrder ==
  ASSUME NEW low \in Nat, NEW high \in Nat, NEW p \in Nat, NEW q \in Nat,
         low <= p, p <= q, q <= high
  PROVE  /\ ThirdOf(low, high, p) <= ThirdOf(low, high, q)
         /\ p = low => ThirdOf(low, high, p) = 0
         /\ low < q /\ q = high => ThirdOf(low, high, q) = 2
BY DEF ThirdOf

LEMMA MonthPrices ==
  ASSUME NEW n \in Nat \ {0}, NEW s \in [1..n -> Nat]
  PROVE  /\ Threshold(s, 2) \in Range(s) /\ Threshold(s, 8) \in Range(s)
         /\ Lowest(s) \in Nat /\ \A i \in 1..n : Lowest(s) <= s[i]
         /\ Highest(s) \in Nat /\ \A i \in 1..n : s[i] <= Highest(s)
<1>1. Len(s) = n
  <2>1. s \in Seq(Nat)
    OBVIOUS
  <2>2. DOMAIN s = 1..Len(s) /\ Len(s) \in Nat
    BY <2>1, LenProperties
  <2> QED
    BY <2>2
<1>2. Range(s) \subseteq Nat
  BY DEF Range
<1>3. (n * 2) \div 10 + 1 \in 1..n /\ (n * 8) \div 10 + 1 \in 1..n /\ 1 \in 1..n /\ n \in 1..n
  OBVIOUS
<1>4. Threshold(s, 2) \in Range(s) /\ Threshold(s, 8) \in Range(s)
  BY <1>1, <1>3, SortedIs DEF Threshold
<1>5. Lowest(s) \in Nat /\ \A i \in 1..n : Lowest(s) <= s[i]
  <2>1. Sorted(s, 1) \in Nat /\ Cardinality(Cheaper(s, Sorted(s, 1))) < 1
    BY <1>2, <1>3, SortedIs
  <2>2. Cardinality(Cheaper(s, Sorted(s, 1))) \in 0..n
    BY <2>1, DayCounts
  <2>3. PICK p \in Nat : p = Sorted(s, 1) /\ Cardinality(Cheaper(s, p)) = 0
    BY <2>1, <2>2
  <2>4. \A i \in 1..n : p <= s[i]
    BY <2>3, CheapestDay
  <2> QED
    BY <2>3, <2>4 DEF Lowest
<1>6. Highest(s) \in Nat /\ \A i \in 1..n : s[i] <= Highest(s)
  <2>1. Sorted(s, n) \in Nat /\ Cardinality(NotDearer(s, Sorted(s, n))) >= n
    BY <1>2, <1>3, SortedIs
  <2>2. Cardinality(NotDearer(s, Sorted(s, n))) \in 0..n
    BY <2>1, DayCounts
  <2>3. PICK p \in Nat : p = Sorted(s, n) /\ Cardinality(NotDearer(s, p)) = n
    BY <2>1, <2>2
  <2>4. \A i \in 1..n : s[i] <= p
    BY <2>3, DearestDay
  <2> QED
    BY <1>1, <2>3, <2>4 DEF Highest
<1> QED
  BY <1>4, <1>5, <1>6

\* Of any two days of a month.
LEMMA ColoursOrdered ==
  ASSUME NEW n \in Nat \ {0}, NEW s \in [1..n -> Nat], NEW i \in 1..n, NEW j \in 1..n
  PROVE  /\ s[i] <= s[j] => Tier(s, s[i]) <= Tier(s, s[j]) /\ Colour(s, s[i]) <= Colour(s, s[j])
         /\ s[i] = Lowest(s) => Tier(s, s[i]) = 0 /\ Colour(s, s[i]) = 0
         /\ Lowest(s) < s[i] /\ s[i] = Highest(s) => Colour(s, s[i]) = 2
<1>1. PICK low \in Nat, high \in Nat, green \in Nat, red \in Nat :
        /\ low = Lowest(s) /\ high = Highest(s)
        /\ green = Threshold(s, 2) /\ red = Threshold(s, 8)
        /\ low <= green
  <2>1. PICK g \in 1..n : Threshold(s, 2) = s[g]
    BY MonthPrices DEF Range
  <2>2. PICK r \in 1..n : Threshold(s, 8) = s[r]
    BY MonthPrices DEF Range
  <2>3. s[g] \in Nat /\ s[r] \in Nat
    OBVIOUS
  <2> QED
    BY <2>1, <2>2, <2>3, MonthPrices
<1>2. PICK p \in Nat, q \in Nat : p = s[i] /\ q = s[j] /\ low <= p /\ p <= high /\ low <= q /\ q <= high
  BY <1>1, MonthPrices
<1>3. Tier(s, p) = TierOf(green, red, p) /\ Tier(s, q) = TierOf(green, red, q)
  BY <1>1 DEF Tier, TierOf
<1>4. Colour(s, p) = ThirdOf(low, high, p) /\ Colour(s, q) = ThirdOf(low, high, q)
  BY <1>1 DEF Colour, ThirdOf
<1>5. p <= q => TierOf(green, red, p) <= TierOf(green, red, q)
  BY <1>1, <1>2, TiersKeepOrder
<1>6. p <= q => ThirdOf(low, high, p) <= ThirdOf(low, high, q)
  BY <1>1, <1>2, ThirdsKeepOrder
<1>7. p = low => TierOf(green, red, p) = 0 /\ ThirdOf(low, high, p) = 0
  <2>1. p <= p
    BY <1>2
  <2> QED
    BY <1>1, <1>2, <2>1, ThirdsKeepOrder DEF TierOf
<1>8. low < p /\ p = high => ThirdOf(low, high, p) = 2
  <2>1. p <= p
    BY <1>2
  <2> QED
    BY <1>1, <1>2, <2>1, ThirdsKeepOrder
<1> QED
  BY <1>1, <1>2, <1>3, <1>4, <1>5, <1>6, <1>7, <1>8

CalendarInv ==
  /\ \E n \in Nat \ {0} : prices \in [1..n -> Nat]
  /\ cachedMonth # <<>> => cachedMonth = Tiers
  /\ seen # <<>> => seen = Tiers

\* The two colourings keep the order of the prices in every month: however many
\* days it has, whatever they cost, from the cache or not.
THEOREM ColouringsAgree == CalendarSpec => []TiersOrdered
<1>1. CalendarInit => CalendarInv
  <2>1. ASSUME CalendarInit PROVE CalendarInv
    <3>0. prices \in UNION {[1..n -> DayPrice] : n \in 1..MaxDays}
      BY <2>1 DEF CalendarInit
    <3>1. PICK n \in 1..MaxDays : prices \in [1..n -> DayPrice]
      BY <3>0
    <3>2. n \in Nat \ {0} /\ prices \in [1..n -> Nat]
      <4>1. DayPrice \subseteq Nat /\ MaxDays \in Nat
        BY CalendarAssumption
      <4>2. \A i \in 1..n : prices[i] \in Nat
        BY <3>1, <4>1
      <4>3. n \in Nat \ {0}
        BY <3>1, <4>1
      <4> QED
        BY <3>1, <4>2, <4>3
    <3> QED
      BY <2>1, <3>2 DEF CalendarInit, CalendarInv
  <2> QED
    BY <2>1
<1>2. CalendarInv /\ [CalendarNext]_calendarVars => CalendarInv'
  <2>1. ASSUME CalendarInv, GetCalendar PROVE CalendarInv'
    <3>1. prices' = prices /\ Tiers' = Tiers
      BY <2>1 DEF GetCalendar, Tiers
    <3>2. seen' = Tiers
      BY <2>1 DEF GetCalendar, CalendarInv
    <3>3. cachedMonth' = cachedMonth \/ cachedMonth' = Tiers
      BY <2>1, <3>2 DEF GetCalendar
    <3> HIDE DEF Tiers
    <3> QED
      BY <2>1, <3>1, <3>2, <3>3 DEF CalendarInv
  <2>2. ASSUME CalendarInv, CalendarExpires PROVE CalendarInv'
    BY <2>2 DEF CalendarInv, CalendarExpires, Tiers
  <2>3. ASSUME CalendarInv, UNCHANGED calendarVars PROVE CalendarInv'
    BY <2>3 DEF CalendarInv, calendarVars, Tiers
  <2> QED
    BY <2>1, <2>2, <2>3 DEF CalendarNext
<1>3. CalendarInv => TiersOrdered
  <2> SUFFICES ASSUME CalendarInv, seen # <<>>, NEW i \in DOMAIN prices, NEW j \in DOMAIN prices
               PROVE  /\ prices[i] <= prices[j] =>
                           /\ seen[i] <= seen[j]
                           /\ Colour(prices, prices[i]) <= Colour(prices, prices[j])
                      /\ prices[i] = Lowest(prices) =>
                           seen[i] = 0 /\ Colour(prices, prices[i]) = 0
                      /\ Lowest(prices) < prices[i] /\ prices[i] = Highest(prices) =>
                           Colour(prices, prices[i]) = 2
    BY DEF TiersOrdered
  <2>1. PICK n \in Nat \ {0} : prices \in [1..n -> Nat]
    BY DEF CalendarInv
  <2>2. seen[i] = Tier(prices, prices[i]) /\ seen[j] = Tier(prices, prices[j])
    BY DEF CalendarInv, Tiers
  <2>3. i \in 1..n /\ j \in 1..n
    BY <2>1
  <2> QED
    BY <2>1, <2>2, <2>3, ColoursOrdered
<1> QED
  BY <1>1, <1>2, <1>3, PTL DEF CalendarSpec
=============================================================================
