------------------------------ MODULE MCQuote ------------------------------
(***************************************************************************)
(* Instances of Quote, PricePrediction and PriceCalendar: three            *)
(* calculations that share nothing, each run on its own behaviours while   *)
(* the other two rest.  Prices lie on both sides of every boundary of the  *)
(* quotation (1500, where CFAR breaks even; 12500 and 41667, where 12%     *)
(* meets the clamps), with every list of at most MaxLength protections.    *)
(***************************************************************************)
EXTENDS Quote, PricePrediction, PriceCalendar

CONSTANT MaxLength

MCPrices ==
  {1, 2} \cup (1498 .. 1502) \cup (12495 .. 12505) \cup (41660 .. 41675)
    \cup {7331, 25000, 99999}

MCProtectionLists == UNION {[1 .. n -> RequestedKind] : n \in 0 .. MaxLength}

\* Two days of every month and both edges of the neighbourhoods of holidays.
MCDeparture ==
  {MonthStart[m] + d : m \in 1..12, d \in {12, 27}} \cup
  {h[1] + d : h \in Holidays \ {<<1, 8>>}, d \in {-15, -14, 1, 2}} \cup {9, 10, 351, 352}

MCDaysOut == {-1, 0, 6, 7, 14, 15, 20, 21, 22, 30, 31, 35, 60, 61, 65, 999, 1000}

QuoteRests == done = 0 /\ protections = <<>> /\ flightPrice = 1
             /\ protectionTotal = 0 /\ protectionDetails = <<>>
AdviceRests == flight = [day |-> 1, weekday |-> 0, popular |-> FALSE]
             /\ daysOut = 0 /\ advice = "rests" /\ waitDays = 0
CalendarRests == prices = <<>> /\ cachedMonth = <<>> /\ seen = <<>>

calculationVars == <<vars, adviceVars, calendarVars>>

CalculationsRest == QuoteRests /\ AdviceRests /\ CalendarRests

CalculationsInit ==
  \/ Init /\ AdviceRests /\ CalendarRests
  \/ AdviceInit /\ QuoteRests /\ CalendarRests
  \/ CalendarInit /\ QuoteRests /\ AdviceRests

CalculationsNext ==
  \/ Next /\ UNCHANGED <<adviceVars, calendarVars>>
  \/ AdviceNext /\ UNCHANGED <<vars, calendarVars>>
  \/ prices # <<>> /\ CalendarNext /\ UNCHANGED <<vars, adviceVars>>
=============================================================================
