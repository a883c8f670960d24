------------------------------- MODULE Quote -------------------------------
(***************************************************************************)
(* The quotation part of createBooking (booking.service.ts:153-181): the   *)
(* loop that turns dto.protections into protectionDetails and              *)
(* protectionTotal, one step per entry, next to the total that the booking *)
(* page shows the buyer beforehand (web/src/app/booking/[id]/page.tsx) and *)
(* the refund that cancelBooking would answer for the booking.             *)
(***************************************************************************)
EXTENDS Pricing

CONSTANTS
  Prices,           \* flight prices to quote
  ProtectionLists   \* values of dto.protections

ASSUME PricesAssumption == Prices \subseteq Nat
ASSUME ListsAssumption  == ProtectionLists \subseteq Seq(RequestedKind)

VARIABLES
  flightPrice,
  protections,        \* dto.protections
  done,               \* how many entries the loop has handled
  protectionTotal,
  protectionDetails

vars == <<flightPrice, protections, done, protectionTotal, protectionDetails>>

Detail == [type : ProtectionType, premium : Nat, coverage : Nat]

TypeOK ==
  /\ flightPrice \in Nat
  /\ protections \in Seq(RequestedKind)
  /\ done \in 0 .. Len(protections)
  /\ protectionTotal \in Nat
  /\ protectionDetails \in Seq(Detail)
  /\ Len(protectionDetails) = done

Init ==
  /\ flightPrice \in Prices
  /\ protections \in ProtectionLists
  /\ done = 0
  /\ protectionTotal = 0
  /\ protectionDetails = <<>>

\* Wrong variant: the accumulator keeps the last premium only.
AddProtectionOverwrites ==
  /\ done < Len(protections)
  /\ LET kind == protections[done + 1]
     IN /\ protectionTotal' = Premium(kind, flightPrice)
        /\ protectionDetails' =
             Append(protectionDetails,
                    [type     |-> ToProtectionType(kind),
                     premium  |-> Premium(kind, flightPrice),
                     coverage |-> Coverage(kind, flightPrice)])
  /\ done' = done + 1
  /\ UNCHANGED <<flightPrice, protections>>

\* One iteration of the loop over dto.protections.
AddProtection ==
  /\ done < Len(protections)
  /\ LET kind == protections[done + 1]
     IN /\ protectionTotal' = protectionTotal + Premium(kind, flightPrice)
        /\ protectionDetails' =
             Append(protectionDetails,
                    [type     |-> ToProtectionType(kind),
                     premium  |-> Premium(kind, flightPrice),
                     coverage |-> Coverage(kind, flightPrice)])
  /\ done' = done + 1
  /\ UNCHANGED <<flightPrice, protections>>

Next == AddProtection

Spec == Init /\ [][Next]_vars

-----------------------------------------------------------------------------
Quoted == done = Len(protections)

Total == flightPrice + protectionTotal

\* Wrong variant: the page does not cap the premium.
ShownCfarUncapped(price) ==
  LET share == (12 * price + 50) \div 100
  IN  IF share < 1500 THEN 1500 ELSE share

\* The page's own copy of the CFAR rule: 12% rounded, capped, then floored.
ShownCfar(price) ==
  LET share  == (12 * price + 50) \div 100
      capped == IF share > 5000 THEN 5000 ELSE share
  IN  IF capped < 1500 THEN 1500 ELSE capped

\* What the booking page adds up for a set of ticked protections.
ShownTotal(chosen) ==
  flightPrice
    + (IF "cancel_for_any_reason" \in chosen THEN ShownCfar(flightPrice) ELSE 0)
    + (IF "price_drop" \in chosen THEN 1500 ELSE 0)

\* The protections the page can send: it offers two boxes, each ticked once.
Ticked == {protections[i] : i \in DOMAIN protections}

FromThePage ==
  /\ Ticked \subseteq {"cancel_for_any_reason", "price_drop"}
  /\ Cardinality(Ticked) = Len(protections)

CfarRows == {i \in DOMAIN protectionDetails :
               protectionDetails[i].type = "CANCEL_FOR_ANY_REASON"}

-----------------------------------------------------------------------------
(* Properties *)

\* The loop's accumulator is, after every entry, the closed form the booking
\* model charges: nothing is counted twice or skipped, whatever the list
\* repeats.
LoopComputesPartialTotal ==
  protectionTotal = PartialTotal(protections, flightPrice, done)

\* The amount charged is the amount the page showed the buyer for the same
\* flight price: two separate copies of the formula, in two languages of the
\* stack, agree.
ShownIsCharged == Quoted /\ FromThePage => Total = ShownTotal(Ticked)

\* A cancellation under any of the CFAR rows of the booking gives back at
\* least the flight price ("100% refund of the flight price") and never more
\* than was paid.
CfarGivesFlightPriceBack ==
  Quoted => \A i \in CfarRows :
    /\ CfarRefund(Total, protectionDetails[i].premium) >= flightPrice
    /\ CfarRefund(Total, protectionDetails[i].premium) <= Total

\* From 1500 roubles, the lowest price the search produces per passenger
\* (search.service.ts:361), a buyer of CFAR never gets less back than the
\* airline policy would have paid on the same booking without it.  At 1500
\* the two are equal; below it CFAR is the worse deal.
CfarNeverWorse ==
  Quoted /\ flightPrice >= 1500 => \A i \in CfarRows :
    CfarRefund(Total, protectionDetails[i].premium) >= AirlineRefund(Total)
=============================================================================
