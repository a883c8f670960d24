---------------------------- MODULE CreateProofs ----------------------------
(***************************************************************************)
(* What createBooking promises about money, for every number of calls,     *)
(* freezes and restarts: who pays less than the listed price, and what a   *)
(* buyer who can still pay pays for.                                       *)
(***************************************************************************)
EXTENDS CancellationProofs

\* Where a call got a price below the listed one from.
Discounted(r) ==
  flightPrice[r] # listed[r] =>
    /\ freezeId[r] \in Freeze
    /\ OwnerOf[freezeId[r]] = BuyerOf[r]
    /\ flightPrice[r] = FrozenPrice[freezeId[r]]
    /\ flightPrice[r] < listed[r]

\* Past the update of the freeze, a discounted call has spent it.
PriceTied(r) ==
  /\ step[r] \in {"idle", "freeze"} => flightPrice[r] = listed[r]
  /\ Discounted(r)
  /\ step[r] \in {"pay", "reply", "save", "done"} /\ flightPrice[r] # listed[r] =>
       freeze[freezeId[r]] = "USED"

\* A payment is of the amount its call will store.
PaymentTied(r) ==
  /\ step[r] \in {"idle", "freeze", "use", "pay"} =>
       payment[r].status = "none" /\ ~ payment[r].page
  /\ step[r] \in {"reply", "save"} => payment[r].amount = AmountDue(r)

\* A booking with a payment page waits for its buyer from the start, and no
\* cancellation takes one that is not confirmed.
BookingTied(r) ==
  /\ step[r] # "done" => ~ Booked(r)
  /\ Booked(r) => booking[r].item = flightPrice[r] /\ payment[r].amount = booking[r].total
  /\ Booked(r) /\ payment[r].page => booking[r].status = "PENDING"

Tied(r) == PriceTied(r) /\ PaymentTied(r) /\ BookingTied(r)

CreateInv == \A r \in Request : Tied(r)

\* A step that takes a call nowhere, except perhaps to its failure, and leaves its
\* rows alone, but perhaps spends a freeze.
LEMMA StaysTied ==
  ASSUME NEW r \in Request, Tied(r),
         step'[r] = step[r] \/ step'[r] = "failed",
         freezeId'[r] = freezeId[r], protections'[r] = protections[r],
         listed'[r] = listed[r], flightPrice'[r] = flightPrice[r],
         payment'[r] = payment[r], booking'[r] = booking[r], step[r] # "done" \/ step'[r] = "done",
         freezeId[r] \in Freeze /\ freeze[freezeId[r]] = "USED" => freeze'[freezeId[r]] = "USED"
  PROVE  Tied(r)'
<1>1. Booked(r)' = Booked(r) /\ AmountDue(r)' = AmountDue(r)
  BY DEF Booked, AmountDue, TotalPrice, ProtectionTotal, PartialTotal, CountOf
<1>2. PriceTied(r)'
  BY DEF Tied, PriceTied, Discounted
<1>3. PaymentTied(r)'
  BY <1>1 DEF Tied, PaymentTied
<1>4. BookingTied(r)'
  BY <1>1 DEF Tied, BookingTied
<1> QED
  BY <1>2, <1>3, <1>4 DEF Tied

\* A call leaves the others alone.
LEMMA OtherRequests ==
  ASSUME TypeOK, NEW r \in Request, CreateBooking(r), NEW q \in Request, q # r
  PROVE  /\ step'[q] = step[q] /\ freezeId'[q] = freezeId[q]
         /\ protections'[q] = protections[q] /\ listed'[q] = listed[q]
         /\ flightPrice'[q] = flightPrice[q] /\ payment'[q] = payment[q]
         /\ booking'[q] = booking[q]
<1>1. CASE FindFlight(r) \/ FlightUnavailable(r) \/ ReadFreeze(r) \/ UseFreeze(r)
  BY <1>1 DEF FindFlight, FlightUnavailable, ReadFreeze, UseFreeze, TypeOK, tables, outsideVars
<1>2. CASE CreateMockPayment(r) \/ OpenPayment(r) \/ PaymentReply(r) \/ PaymentError(r)
  BY <1>2 DEF CreateMockPayment, OpenPayment, PaymentReply, PaymentError, TypeOK, tables, outsideVars
<1>3. CASE SaveBooking(r) \/ RequestFails(r)
  BY <1>3 DEF SaveBooking, RequestFails, TypeOK, tables, outsideVars
<1> QED
  BY <1>1, <1>2, <1>3 DEF CreateBooking

\* No step makes a used freeze active again.
LEMMA UsedStaysUsed ==
  ASSUME TypeOK, FreezeNamed, NEW r \in Request, CreateBooking(r), NEW f \in Freeze,
         freeze[f] = "USED"
  PROVE  freeze'[f] = "USED"
<1>1. CASE UseFreeze(r)
  <2>1. freeze' = [freeze EXCEPT ![freezeId[r]] = "USED"]
    BY <1>1 DEF UseFreeze
  <2> QED
    BY <2>1 DEF TypeOK
<1>2. CASE ~ UseFreeze(r)
  BY <1>2 DEF CreateBooking, FindFlight, FlightUnavailable, ReadFreeze, CreateMockPayment,
     OpenPayment, PaymentReply, PaymentError, SaveBooking, RequestFails, tables
<1> QED
  BY <1>1, <1>2

\* The steps of a call keep its own price, payment and booking together.
LEMMA FindFlightTied ==
  ASSUME TypeOK, NEW r \in Request, Tied(r), FindFlight(r) PROVE Tied(r)'
<1>1. PICK f \in Freeze \cup {NoFreeze}, list \in ProtectionLists, p \in Price :
        /\ listed' = [listed EXCEPT ![r] = p]
        /\ flightPrice' = [flightPrice EXCEPT ![r] = p]
        /\ step' = [step EXCEPT ![r] = IF f = NoFreeze THEN "pay" ELSE "freeze"]
  BY DEF FindFlight
<1>2. flightPrice'[r] = listed'[r] /\ step'[r] \in {"pay", "freeze"}
  BY <1>1 DEF TypeOK
<1>3. payment' = payment /\ booking' = booking /\ payment[r].status = "none" /\ ~ payment[r].page
      /\ ~ Booked(r)
  BY DEF FindFlight, outsideVars, tables, Tied, PaymentTied, BookingTied
<1>4. PriceTied(r)'
  BY <1>2 DEF PriceTied, Discounted
<1>5. PaymentTied(r)'
  BY <1>2, <1>3 DEF Tied, PaymentTied
<1>6. BookingTied(r)'
  BY <1>2, <1>3 DEF Tied, BookingTied, Booked
<1> QED
  BY <1>4, <1>5, <1>6 DEF Tied

LEMMA ReadFreezeTied ==
  ASSUME TypeOK, FreezeNamed, NEW r \in Request, Tied(r), ReadFreeze(r) PROVE Tied(r)'
<1>1. /\ freezeId[r] \in Freeze /\ step[r] = "freeze" /\ flightPrice[r] = listed[r]
      /\ payment' = payment /\ booking' = booking /\ listed' = listed /\ freezeId' = freezeId
  BY DEF FreezeNamed, ReadFreeze, Tied, PriceTied, outsideVars, tables
<1>2. step'[r] \in {"use", "pay"}
  BY DEF ReadFreeze, TypeOK
<1>3. PriceTied(r)'
  <2>1. CASE Usable(r)
    <3>1. flightPrice'[r] = LowerPrice(flightPrice[r], FrozenPrice[freezeId[r]]) /\ step'[r] = "use"
      BY <2>1 DEF ReadFreeze, TypeOK
    <3>2. flightPrice[r] \in Nat /\ FrozenPrice[freezeId[r]] \in Nat
      BY <1>1, FreezeAssumption DEF TypeOK
    <3>3. flightPrice'[r] # listed[r] =>
            flightPrice'[r] = FrozenPrice[freezeId[r]] /\ flightPrice'[r] < listed[r]
      BY <1>1, <3>1, <3>2 DEF LowerPrice
    <3> QED
      BY <1>1, <2>1, <3>1, <3>3 DEF PriceTied, Discounted, Usable
  <2>2. CASE ~ Usable(r)
    <3>1. flightPrice' = flightPrice
      BY <2>2 DEF ReadFreeze
    <3> QED
      BY <1>1, <3>1 DEF PriceTied, Discounted
  <2> QED
    BY <2>1, <2>2
<1>4. PaymentTied(r)'
  BY <1>1, <1>2 DEF Tied, PaymentTied, Booked
<1>5. BookingTied(r)'
  BY <1>1, <1>2 DEF Tied, BookingTied, Booked
<1> QED
  BY <1>3, <1>4, <1>5 DEF Tied

LEMMA UseFreezeTied ==
  ASSUME TypeOK, FreezeNamed, NEW r \in Request, Tied(r), UseFreeze(r) PROVE Tied(r)'
<1>1. /\ step[r] = "use" /\ step'[r] = "pay" /\ freezeId[r] \in Freeze
      /\ payment' = payment /\ booking' = booking /\ listed' = listed
      /\ freezeId' = freezeId /\ flightPrice' = flightPrice
  BY DEF FreezeNamed, UseFreeze, TypeOK, outsideVars
<1>2. freeze'[freezeId[r]] = "USED"
  BY <1>1 DEF UseFreeze, TypeOK
<1>3. PriceTied(r)'
  BY <1>1, <1>2 DEF Tied, PriceTied, Discounted
<1>4. PaymentTied(r)' /\ BookingTied(r)'
  BY <1>1 DEF Tied, PaymentTied, BookingTied, Booked
<1> QED
  BY <1>3, <1>4 DEF Tied

\* The payment is made, whatever its status and with a page or without.
LEMMA PaymentMadeTied ==
  ASSUME TypeOK, NEW r \in Request, Tied(r), CreateMockPayment(r) \/ OpenPayment(r)
  PROVE  Tied(r)'
<1>1. /\ step[r] = "pay" /\ booking' = booking /\ listed' = listed /\ freezeId' = freezeId
      /\ flightPrice' = flightPrice /\ freeze' = freeze
      /\ protections' = protections /\ ~ Booked(r)
  BY DEF CreateMockPayment, OpenPayment, tables, Tied, BookingTied
<1>2. step'[r] \in {"save", "reply"} /\ payment'[r].amount = AmountDue(r)
  <2>1. CASE CreateMockPayment(r)
    BY <2>1 DEF CreateMockPayment, TypeOK
  <2>2. CASE OpenPayment(r)
    BY <2>2 DEF OpenPayment, TypeOK
  <2> QED
    BY <2>1, <2>2
<1>3. AmountDue(r)' = AmountDue(r) /\ Booked(r)' = Booked(r)
  BY <1>1 DEF AmountDue, TotalPrice, ProtectionTotal, PartialTotal, CountOf, Booked
<1>4. PriceTied(r)'
  BY <1>1, <1>2 DEF Tied, PriceTied, Discounted
<1>5. PaymentTied(r)' /\ BookingTied(r)'
  BY <1>1, <1>2, <1>3 DEF PaymentTied, BookingTied
<1> QED
  BY <1>4, <1>5 DEF Tied

LEMMA PaymentReplyTied ==
  ASSUME TypeOK, NEW r \in Request, Tied(r), PaymentReply(r) PROVE Tied(r)'
<1>1. /\ step[r] = "reply" /\ step'[r] = "save" /\ booking' = booking /\ listed' = listed
      /\ freezeId' = freezeId /\ flightPrice' = flightPrice /\ freeze' = freeze
      /\ protections' = protections /\ payment' = payment
  BY DEF PaymentReply, TypeOK, tables, outsideVars
<1>2. AmountDue(r)' = AmountDue(r) /\ Booked(r)' = Booked(r)
  BY <1>1 DEF AmountDue, TotalPrice, ProtectionTotal, PartialTotal, CountOf, Booked
<1>3. PriceTied(r)'
  BY <1>1 DEF Tied, PriceTied, Discounted
<1>4. PaymentTied(r)'
  BY <1>1, <1>2 DEF Tied, PaymentTied
<1>5. BookingTied(r)'
  BY <1>1, <1>2 DEF Tied, BookingTied
<1> QED
  BY <1>3, <1>4, <1>5 DEF Tied

\* A booking whose payment has a page is stored as pending.
LEMMA SaveBookingTied ==
  ASSUME TypeOK, NEW r \in Request, Tied(r), SaveBooking(r) PROVE Tied(r)'
<1>1. /\ step[r] = "save" /\ step'[r] = "done" /\ listed' = listed
      /\ freezeId' = freezeId /\ flightPrice' = flightPrice /\ freeze' = freeze
      /\ payment' = payment
  BY DEF SaveBooking, TypeOK, outsideVars
<1>2. booking'[r] = [status |-> IF payment[r].page THEN "PENDING" ELSE "CONFIRMED",
                     total |-> AmountDue(r), item |-> flightPrice[r]]
  BY DEF SaveBooking, TypeOK, IsPending
<1>3. payment[r].amount = AmountDue(r)
  BY <1>1 DEF Tied, PaymentTied
<1>4. PriceTied(r)'
  BY <1>1 DEF Tied, PriceTied, Discounted
<1>5. Booked(r)'
  BY <1>2 DEF Booked
<1>6. PaymentTied(r)'
  BY <1>1, <1>5 DEF Tied, PaymentTied
<1>7. BookingTied(r)'
  <2>1. booking'[r].item = flightPrice'[r] /\ payment'[r].amount = booking'[r].total
    BY <1>1, <1>2, <1>3
  <2>2. payment'[r].page => booking'[r].status = "PENDING"
    BY <1>1, <1>2
  <2> QED
    BY <1>1, <2>1, <2>2 DEF BookingTied
<1> QED
  BY <1>4, <1>6, <1>7 DEF Tied

LEMMA CallFailsTied ==
  ASSUME TypeOK, NEW r \in Request, Tied(r),
         FlightUnavailable(r) \/ PaymentError(r) \/ RequestFails(r)
  PROVE  Tied(r)'
<1>1. /\ step[r] # "done" /\ step'[r] \in {"rejected", "unpaid", "failed"} /\ booking' = booking
      /\ listed' = listed /\ freezeId' = freezeId /\ flightPrice' = flightPrice
      /\ payment' = payment
  BY DEF FlightUnavailable, PaymentError, RequestFails, TypeOK, tables, outsideVars
<1>2. PriceTied(r)'
  BY <1>1 DEF Tied, PriceTied, Discounted
<1>3. PaymentTied(r)' /\ BookingTied(r)'
  BY <1>1 DEF Tied, PaymentTied, BookingTied, Booked
<1> QED
  BY <1>2, <1>3 DEF Tied

LEMMA CreateKeepsInv ==
  ASSUME TypeOK, FreezeNamed, CreateInv, NEW r \in Request, CreateBooking(r) PROVE CreateInv'
<1>1. Tied(r)'
  BY FindFlightTied, ReadFreezeTied, UseFreezeTied, PaymentMadeTied, PaymentReplyTied,
     SaveBookingTied, CallFailsTied DEF CreateBooking, CreateInv
<1>2. ASSUME NEW q \in Request, q # r PROVE Tied(q)'
  <2>1. Tied(q)
    BY DEF CreateInv
  <2>2. freezeId[q] \in Freeze /\ freeze[freezeId[q]] = "USED" => freeze'[freezeId[q]] = "USED"
    BY UsedStaysUsed
  <2> QED
    BY <1>2, <2>1, <2>2, OtherRequests, StaysTied
<1> QED
  BY <1>1, <1>2 DEF CreateInv

\* A cancellation closes a stored booking and touches nothing else of a call.
LEMMA CancelKeepsInv ==
  ASSUME TypeOK, CancellationInv, CreateInv, NEW c \in Cancellation, CancelBooking(c)
  PROVE  CreateInv'
<1>1. /\ step' = step /\ freezeId' = freezeId /\ protections' = protections
      /\ listed' = listed /\ flightPrice' = flightPrice /\ payment' = payment /\ freeze' = freeze
  BY DEF CancelBooking, RefuseCancellation, ReadBooking, PayOut, VoidProtections, CloseBooking,
     CancellationFails, tables, createVars, outsideVars
<1>2. ASSUME NEW r \in Request PROVE Tied(r)'
  <2>1. Tied(r)
    BY DEF CreateInv
  <2>2. CASE booking'[r] = booking[r]
    BY <1>1, <2>1, <2>2, StaysTied
  <2>3. CASE booking'[r] # booking[r]
    <3>1. CloseBooking(c)
      BY <1>2, <2>3 DEF CancelBooking, RefuseCancellation, ReadBooking, PayOut, VoidProtections,
         CancellationFails, tables
    <3>2. r = target[c] /\ booking'[r] = [booking[r] EXCEPT !.status = "CANCELLED"]
      BY <2>3, <3>1 DEF CloseBooking, TypeOK
    <3>3. booking[r].status \in {"CONFIRMED", "CANCELLED"}
      BY <3>1, <3>2 DEF CancellationInv, CloseBooking, Cancelling
    <3>4. /\ booking'[r].status = "CANCELLED" /\ booking'[r].item = booking[r].item
          /\ booking'[r].total = booking[r].total
      <4>1. booking[r] \in BookingRow
        BY DEF TypeOK
      <4> QED
        BY <3>2, <4>1 DEF BookingRow
    <3>5. Booked(r) /\ Booked(r)'
      BY <3>3, <3>4 DEF Booked
    <3>6. step[r] = "done"
      BY <2>1, <3>5 DEF Tied, BookingTied
    <3>7. PriceTied(r)'
      BY <1>1, <2>1 DEF Tied, PriceTied, Discounted
    <3>8. PaymentTied(r)'
      BY <1>1, <2>1, <3>5, <3>6 DEF Tied, PaymentTied
    <3>9. BookingTied(r)'
      BY <1>1, <2>1, <3>3, <3>4, <3>5, <3>6 DEF Tied, BookingTied
    <3> QED
      BY <3>7, <3>8, <3>9 DEF Tied
  <2> QED
    BY <2>2, <2>3
<1> QED
  BY <1>2 DEF CreateInv

\* The end of a payment changes neither its amount nor its page.
LEMMA PaidTied ==
  ASSUME TypeOK, CreateInv, NEW r \in Request, Pay(r) \/ PaymentLapses(r)
  PROVE  CreateInv'
<1>1. /\ step' = step /\ freezeId' = freezeId /\ protections' = protections
      /\ listed' = listed /\ flightPrice' = flightPrice /\ booking' = booking /\ freeze' = freeze
      /\ payment[r].status = "pending"
  BY DEF Pay, PaymentLapses, tables, createVars
<1>2. ASSUME NEW q \in Request, q # r PROVE Tied(q)'
  <2>1. payment'[q] = payment[q]
    BY <1>2 DEF Pay, PaymentLapses, TypeOK
  <2> QED
    BY <1>1, <2>1, StaysTied DEF CreateInv
<1>3. Tied(r)'
  <2>1. Tied(r)
    BY DEF CreateInv
  <2>2. payment'[r].amount = payment[r].amount /\ payment'[r].page = payment[r].page
    <3>1. payment[r] \in Payment
      BY DEF TypeOK
    <3>2. \/ payment'[r] = [payment[r] EXCEPT !.status = "succeeded"]
          \/ payment'[r] = [payment[r] EXCEPT !.status = "canceled"]
      BY DEF Pay, PaymentLapses, TypeOK
    <3> QED
      BY <3>1, <3>2 DEF Payment
  <2>3. step[r] \notin {"idle", "freeze", "use", "pay"}
    BY <1>1, <2>1 DEF Tied, PaymentTied
  <2>4. Booked(r)' = Booked(r) /\ AmountDue(r)' = AmountDue(r)
    BY <1>1 DEF Booked, AmountDue, TotalPrice, ProtectionTotal, PartialTotal, CountOf
  <2>5. PriceTied(r)'
    BY <1>1, <2>1 DEF Tied, PriceTied, Discounted
  <2>6. PaymentTied(r)'
    BY <1>1, <2>1, <2>2, <2>3, <2>4 DEF Tied, PaymentTied
  <2>7. BookingTied(r)'
    BY <1>1, <2>1, <2>2, <2>3, <2>4 DEF Tied, BookingTied
  <2> QED
    BY <2>5, <2>6, <2>7 DEF Tied
<1> QED
  BY <1>2, <1>3 DEF CreateInv

LEMMA CreateInvStep ==
  ASSUME TypeOK, FreezeNamed, CancellationInv, CreateInv, [Next]_vars PROVE CreateInv'
<1>1. ASSUME NEW c \in Cancellation, CancelBooking(c) PROVE CreateInv'
  BY <1>1, CancelKeepsInv
<1>2. ASSUME NEW r \in Request, Pay(r) \/ PaymentLapses(r) PROVE CreateInv'
  BY <1>2, PaidTied
<1>3. CASE Restart
  <2>1. ASSUME NEW r \in Request PROVE Tied(r)'
    <3>1. /\ freezeId' = freezeId /\ protections' = protections /\ listed' = listed
          /\ flightPrice' = flightPrice /\ booking' = booking /\ freeze' = freeze
          /\ payment' = payment
      BY <1>3 DEF Restart, tables, outsideVars
    <3>2. step'[r] = IF step[r] \in Creating THEN "failed" ELSE step[r]
      BY <1>3 DEF Restart
    <3> QED
      BY <3>1, <3>2, StaysTied DEF CreateInv, Creating
  <2> QED
    BY <2>1 DEF CreateInv
<1>4. CASE UNCHANGED <<tables, createVars, payment>>
  BY <1>4, StaysTied DEF CreateInv, tables, createVars
<1> QED
  BY <1>1, <1>2, <1>3, <1>4, CreateKeepsInv
     DEF Next, Outside, FreezeExpires, HandleWebhook, vars, outsideVars

\* The invariant of createBooking, next to those it rests on.
THEOREM CreateCorrect == Spec => []CreateInv
<1>1. Init => TypeOK /\ FreezeNamed /\ CreateInv
  <2>1. Init => CreateInv
    BY DEF Init, CreateInv, Tied, PriceTied, Discounted, PaymentTied, BookingTied, Booked
  <2> QED
    BY <2>1, InitTypeOK DEF Init, FreezeNamed
<1>2. TypeOK /\ FreezeNamed /\ CancellationInv /\ CreateInv /\ [Next]_vars
        => TypeOK' /\ FreezeNamed' /\ CreateInv'
  BY NextTypeOK, FreezeNamedStep, CreateInvStep
<1> QED
  BY <1>1, <1>2, CancellationCorrect, PTL DEF Spec

\* Whoever pays less than the cache listed has spent a freeze of their own and pays
\* exactly its price, however many requests compete for it.
THEOREM Discount == Spec => []DiscountNeedsFreeze
<1>1. CreateInv => DiscountNeedsFreeze
  BY DEF CreateInv, Tied, PriceTied, Discounted, BookingTied, DiscountNeedsFreeze
<1> QED
  BY <1>1, CreateCorrect, PTL

\* Whoever can still pay pays for a booking that waits for it, whatever cancellations,
\* restarts and late webhooks come in between.
THEOREM Payable == Spec => []PayableIsPending
<1>1. CreateInv => PayableIsPending
  BY DEF CreateInv, Tied, BookingTied, PayableIsPending
<1> QED
  BY <1>1, CreateCorrect, PTL

\* A cancellation closes confirmed bookings only, and nothing reopens one.
THEOREM Moves == Spec => StatusMoves
<1>1. TypeOK /\ CancellationInv /\ CreateInv /\ [Next]_vars => [StatusMove]_booking
  <2>1. ASSUME TypeOK, CancellationInv, CreateInv, Next PROVE StatusMove \/ UNCHANGED booking
    <3>1. ASSUME NEW r \in Request, SaveBooking(r) PROVE StatusMove
      <4>1. booking[r].status = "NONE"
        BY <2>1, <3>1 DEF SaveBooking, CreateInv, Tied, BookingTied, Booked
      <4>2. booking'[r].status \in {"PENDING", "CONFIRMED"}
        BY <2>1, <3>1 DEF SaveBooking, TypeOK
      <4>3. \A b \in Request : b # r => booking'[b] = booking[b]
        BY <2>1, <3>1 DEF SaveBooking, TypeOK
      <4> QED
        BY <4>1, <4>2, <4>3 DEF StatusMove
    <3>2. ASSUME NEW c \in Cancellation, CloseBooking(c) PROVE StatusMove
      <4>1. booking[target[c]].status \in {"CONFIRMED", "CANCELLED"}
        BY <2>1, <3>2 DEF CancellationInv, CloseBooking, Cancelling
      <4>2. target[c] \in Request /\ booking[target[c]] \in BookingRow
        BY <2>1 DEF TypeOK
      <4>3. booking'[target[c]].status = "CANCELLED"
        BY <2>1, <3>2, <4>2 DEF CloseBooking, TypeOK, BookingRow
      <4>4. \A b \in Request : b # target[c] => booking'[b] = booking[b]
        BY <2>1, <3>2 DEF CloseBooking, TypeOK
      <4> QED
        BY <4>1, <4>3, <4>4 DEF StatusMove
    <3> QED
      BY <2>1, <3>1, <3>2
      DEF Next, CreateBooking, FindFlight, FlightUnavailable, ReadFreeze, UseFreeze,
          CreateMockPayment, OpenPayment, PaymentReply, PaymentError, RequestFails,
          CancelBooking, RefuseCancellation, ReadBooking, PayOut, VoidProtections,
          CancellationFails, Outside, Restart, FreezeExpires, Pay, PaymentLapses,
          HandleWebhook, tables
  <2> QED
    BY <2>1 DEF vars, tables
<1> QED
  BY <1>1, TypeCorrect, CancellationCorrect, CreateCorrect, PTL DEF Spec, StatusMoves

-----------------------------------------------------------------------------
(* The ledger: what was paid in, what the rows say, what is claimed back.  *)

\* What a booking costs is its item and the premiums of its rows, none of which
\* is above what the buyer pays for all of them.
Ledgered(b) ==
  /\ Booked(b) => booking[b].total = booking[b].item + PremiumsPaid(b)
  /\ \A k \in Rows(b) : booking[b].item + protection[b][k].premium <= booking[b].total

\* The amount a cancellation took from its copy of the booking is still the one
\* the row it is about to pay out is worth.
RefundTied(c) ==
  cancelStep[c] = "payout" =>
    refund[c] = booking[target[c]].total - protection[target[c]][cfar[c]].premium

MoneyInv ==
  /\ \A b \in Request : Ledgered(b)
  /\ ClaimIsRefund
  /\ \A c \in Cancellation : RefundTied(c)

\* The row a payout writes.
LEMMA PaidRow ==
  ASSUME TypeOK, NEW c \in Cancellation, PayOut(c),
         NEW b \in Request, b = target[c], cfar[c] \in Rows(b)
  PROVE  protection'[b] = [protection[b] EXCEPT ![cfar[c]] =
           [protection[b][cfar[c]] EXCEPT !.status = "PAID_OUT", !.claim = refund[c]]]
BY DEF PayOut, TypeOK

\* What a payout does to the rows, one by one.
LEMMA RowsAfterPayOut ==
  ASSUME TypeOK, NEW c \in Cancellation, PayOut(c),
         NEW b \in Request, b = target[c], cfar[c] \in Rows(b)
  PROVE  /\ \A k \in Rows(b) : k # cfar[c] => protection'[b][k] = protection[b][k]
         /\ \A k \in Rows(b) : protection'[b][k].premium = protection[b][k].premium
         /\ protection'[b][cfar[c]].claim = refund[c]
<1> DEFINE paid == [protection[b][cfar[c]] EXCEPT !.status = "PAID_OUT", !.claim = refund[c]]
<1>1. protection[b] \in Seq(ProtectionRow) /\ cfar[c] \in 1 .. Len(protection[b])
  BY DEF TypeOK, Rows
<1>2. protection[b][cfar[c]] \in ProtectionRow /\ refund[c] \in Int
  BY RowType DEF TypeOK, Rows
<1>3. paid.premium = protection[b][cfar[c]].premium /\ paid.claim = refund[c]
  BY <1>2 DEF ProtectionRow
<1>4. protection'[b] = [protection[b] EXCEPT ![cfar[c]] = paid]
  BY PaidRow
<1> HIDE DEF paid
<1>5. \A k \in Rows(b) :
        protection'[b][k] = IF k = cfar[c] THEN paid ELSE protection[b][k]
  BY <1>1, <1>4 DEF Rows
<1> QED
  BY <1>3, <1>5

\* What voiding does to them: nothing to an amount, nothing to a row that is not active.
LEMMA RowsAfterVoid ==
  ASSUME TypeOK, NEW c \in Cancellation, VoidProtections(c),
         NEW b \in Request, b = target[c], NEW k \in Rows(b)
  PROVE  /\ protection[b][k].status # "ACTIVE" => protection'[b][k] = protection[b][k]
         /\ protection'[b][k].premium = protection[b][k].premium
         /\ protection'[b][k].claim = protection[b][k].claim
<1>1. protection'[b] = [i \in 1 .. Len(protection[b]) |-> Voided(protection[b][i])]
  BY DEF VoidProtections, TypeOK
<1>2. protection'[b][k] = Voided(protection[b][k])
  BY <1>1 DEF Rows
<1>3. protection[b][k] \in ProtectionRow
  BY RowType DEF Rows
<1> QED
  BY <1>2, <1>3 DEF Voided, ProtectionRow

\* The step leaves the amounts of a booking, and the claims on it, as they are.
SameAmounts(b) ==
  /\ Booked(b)' = Booked(b)
  /\ booking'[b].total = booking[b].total /\ booking'[b].item = booking[b].item
  /\ Rows(b)' = Rows(b) /\ CfarRows(b)' = CfarRows(b)
  /\ \A k \in Rows(b) : protection'[b][k].premium = protection[b][k].premium

SameClaims(b) ==
  /\ PaidRows(b)' = PaidRows(b)
  /\ \A k \in Rows(b) : protection'[b][k].claim = protection[b][k].claim

LEMMA SameBookingSameAmounts ==
  ASSUME NEW b \in Request, booking'[b] = booking[b], protection'[b] = protection[b]
  PROVE  SameAmounts(b) /\ SameClaims(b)
BY SameRows DEF SameAmounts, SameClaims, Booked

\* No cancellation changes an amount.
LEMMA CancelSameAmounts ==
  ASSUME TypeOK, CancellationInv, NEW c \in Cancellation, CancelBooking(c), NEW b \in Request
  PROVE  /\ SameAmounts(b)
         /\ SameClaims(b) \/ (PayOut(c) /\ b = target[c])
<1>1. CASE PayOut(c)
  <2>1. CASE b = target[c]
    <3>1. cfar[c] \in Rows(b) /\ booking' = booking
      BY <1>1, <2>1 DEF PayOut, CancellationInv, CfarRows
    <3>2. Rows(b)' = Rows(b) /\ CfarRows(b)' = CfarRows(b)
      BY <1>1, <2>1, <3>1, PayOutEffect
    <3>3. \A k \in Rows(b) : protection'[b][k].premium = protection[b][k].premium
      BY <1>1, <2>1, <3>1, RowsAfterPayOut
    <3> QED
      BY <1>1, <2>1, <3>1, <3>2, <3>3 DEF SameAmounts, Booked
  <2>2. CASE b # target[c]
    <3>1. booking'[b] = booking[b] /\ protection'[b] = protection[b]
      BY <1>1, <2>2 DEF PayOut, TypeOK
    <3> QED
      BY <3>1, SameBookingSameAmounts
  <2> QED
    BY <2>1, <2>2
<1>2. CASE VoidProtections(c)
  <2>1. CASE b = target[c]
    <3>1. booking' = booking
      BY <1>2 DEF VoidProtections
    <3>2. Rows(b)' = Rows(b) /\ CfarRows(b)' = CfarRows(b) /\ PaidRows(b)' = PaidRows(b)
      BY <1>2, <2>1, VoidEffect
    <3>3. \A k \in Rows(b) : /\ protection'[b][k].premium = protection[b][k].premium
                             /\ protection'[b][k].claim = protection[b][k].claim
      BY <1>2, <2>1, RowsAfterVoid
    <3> QED
      BY <3>1, <3>2, <3>3 DEF SameAmounts, SameClaims, Booked
  <2>2. CASE b # target[c]
    <3>1. booking'[b] = booking[b] /\ protection'[b] = protection[b]
      BY <1>2, <2>2 DEF VoidProtections, TypeOK
    <3> QED
      BY <3>1, SameBookingSameAmounts
  <2> QED
    BY <2>1, <2>2
<1>3. CASE CloseBooking(c)
  <2>1. protection' = protection
    BY <1>3 DEF CloseBooking
  <2>2. CASE b = target[c]
    <3>1. booking'[b] = [booking[b] EXCEPT !.status = "CANCELLED"] /\ booking[b] \in BookingRow
      BY <1>3, <2>2 DEF CloseBooking, TypeOK
    <3>2. /\ booking'[b].total = booking[b].total /\ booking'[b].item = booking[b].item
          /\ booking'[b].status = "CANCELLED"
      BY <3>1 DEF BookingRow
    <3>3. booking[b].status # "NONE"
      BY <1>3, <2>2 DEF CloseBooking, CancellationInv, Cancelling
    <3> QED
      BY <2>1, <3>2, <3>3, SameRows DEF SameAmounts, SameClaims, Booked
  <2>3. CASE b # target[c]
    <3>1. booking'[b] = booking[b]
      BY <1>3, <2>3 DEF CloseBooking, TypeOK
    <3> QED
      BY <2>1, <3>1, SameBookingSameAmounts
  <2> QED
    BY <2>2, <2>3
<1>4. CASE RefuseCancellation(c) \/ ReadBooking(c) \/ CancellationFails(c)
  <2>1. booking' = booking /\ protection' = protection
    BY <1>4 DEF RefuseCancellation, ReadBooking, CancellationFails, tables
  <2> QED
    BY <2>1, SameBookingSameAmounts
<1> QED
  BY <1>1, <1>2, <1>3, <1>4 DEF CancelBooking

\* Nor does any other step, but for the one that stores the booking.
LEMMA OthersSameAmounts ==
  ASSUME TypeOK, [Next]_vars, NEW b \in Request,
         ~ \E c \in Cancellation : CancelBooking(c), ~ SaveBooking(b)
  PROVE  SameAmounts(b) /\ SameClaims(b)
<1>1. booking'[b] = booking[b] /\ protection'[b] = protection[b]
  <2>1. CASE \E r \in Request : SaveBooking(r)
    <3>1. PICK r \in Request : SaveBooking(r)
      BY <2>1
    <3>2. r # b
      BY <3>1
    <3> QED
      BY <3>1, <3>2 DEF SaveBooking, TypeOK
  <2>2. CASE ~ \E r \in Request : SaveBooking(r)
    BY <2>2 DEF Next, CreateBooking, FindFlight, FlightUnavailable, ReadFreeze, UseFreeze,
       CreateMockPayment, OpenPayment, PaymentReply, PaymentError, RequestFails, Outside, Restart,
       FreezeExpires, Pay, PaymentLapses, HandleWebhook, vars, tables
  <2> QED
    BY <2>1, <2>2
<1> QED
  BY <1>1, SameBookingSameAmounts

\* Where the amounts stay, so does the ledger.
LEMMA LedgerStays ==
  ASSUME TypeOK, NEW b \in Request, SameAmounts(b), Ledgered(b) PROVE Ledgered(b)'
<1>1. PremiumsPaid(b)' = PremiumsPaid(b)
  <2>1. [k \in Rows(b) |-> protection[b][k].premium]'
          = [k \in Rows(b) |-> protection[b][k].premium]
    BY DEF SameAmounts
  <2> QED
    BY <2>1 DEF PremiumsPaid
<1> QED
  BY <1>1 DEF Ledgered, SameAmounts

\* The transaction of createBooking writes rows that add up to the total it writes
\* beside them, though it computes the one from the list and the others one by one.
LEMMA SaveLedgers ==
  ASSUME TypeOK, NEW r \in Request, SaveBooking(r)
  PROVE  Ledgered(r)' /\ PaidRows(r)' = {}
<1> DEFINE list == protections[r]
           price == flightPrice[r]
           n == Len(list)
           rows == [i \in 1 .. n |-> NewProtection(list[i], price)]
<1>1. /\ list \in Seq(RequestedKind) /\ price \in Nat /\ n \in Nat
      /\ \A i \in 1 .. n : list[i] \in RequestedKind
  BY DEF TypeOK
<1>2. /\ protection'[r] = rows
      /\ booking'[r].total = AmountDue(r) /\ booking'[r].item = price
  BY DEF SaveBooking, TypeOK
<1>3. Len(rows) = n /\ DOMAIN rows = 1 .. n
  BY <1>1
<1>4. \A i \in 1 .. n : rows[i].premium = Premium(list[i], price) /\ rows[i].status = "ACTIVE"
  BY DEF NewProtection
<1>5. AmountDue(r) = price + PartialTotal(list, price, n)
  BY DEF AmountDue, TotalPrice, ProtectionTotal
<1>6. PartialTotal(list, price, n) \in Nat
  BY <1>1, PartialTotalType
<1> HIDE DEF list, price, n, rows
<1>7. Rows(r)' = 1 .. n
  BY <1>2, <1>3 DEF Rows
<1>8. PremiumsPaid(r)' = PartialTotal(list, price, n)
  <2> DEFINE f == [k \in 1 .. n |-> rows[k].premium]
  <2>1. PremiumsPaid(r)' = SumFunction(f)
    <3>1. [k \in Rows(r) |-> protection[r][k].premium]' = f
      BY <1>2, <1>7
    <3> QED
      BY <3>1 DEF PremiumsPaid
  <2>2. DOMAIN f = 1 .. n /\ \A i \in 1 .. n : f[i] = Premium(list[i], price)
    BY <1>4
  <2> HIDE DEF f
  <2> QED
    BY <1>1, <2>1, <2>2, PremiumsAddUp
<1>9. \A k \in 1 .. n : price + rows[k].premium <= price + PartialTotal(list, price, n)
  <2>1. ASSUME NEW k \in 1 .. n
        PROVE  price + rows[k].premium <= price + PartialTotal(list, price, n)
    <3>1. Premium(list[k], price) <= PartialTotal(list, price, n)
      BY <1>1, PremiumInTotal
    <3>2. Premium(list[k], price) \in Nat
      BY <1>1, PremiumType
    <3> QED
      BY <1>1, <1>4, <1>6, <3>1, <3>2
  <2> QED
    BY <2>1
<1>10. PaidRows(r)' = {}
  BY <1>2, <1>4, <1>7 DEF PaidRows
<1> QED
  BY <1>2, <1>5, <1>7, <1>8, <1>9, <1>10 DEF Ledgered

\* The query fixes the refund, and what it was computed from stays.
LEMMA RefundStays ==
  ASSUME TypeOK, TypeOK', CancellationInv, MoneyInv, [Next]_vars,
         \A b \in Request : SameAmounts(b) \/ SaveBooking(b),
         NEW c \in Cancellation
  PROVE  RefundTied(c)'
<1> SUFFICES ASSUME cancelStep'[c] = "payout" PROVE RefundTied(c)'
  BY DEF RefundTied
<1>1. target' = target /\ target[c] \in Request
  BY DEF TypeOK, Next, CreateBooking, FindFlight, FlightUnavailable, ReadFreeze, UseFreeze,
     CreateMockPayment, OpenPayment, PaymentReply, PaymentError, SaveBooking, RequestFails,
     CancelBooking, RefuseCancellation, ReadBooking, PayOut, VoidProtections, CloseBooking,
     CancellationFails, Outside, Restart, FreezeExpires, Pay, PaymentLapses, HandleWebhook,
     vars, cancelVars
<1>2. CASE ReadBooking(c)
  <2>1. booking' = booking /\ protection' = protection
    BY <1>2 DEF ReadBooking, tables
  <2>2. PICK k \in ActiveCfar(target[c]) :
          /\ cfar' = [cfar EXCEPT ![c] = k]
          /\ refund' = [refund EXCEPT ![c] =
               CfarRefund(booking[target[c]].total, protection[target[c]][k].premium)]
    BY <1>2 DEF ReadBooking, TypeOK
  <2>3. cfar'[c] = k
        /\ refund'[c] = booking[target[c]].total - protection[target[c]][k].premium
    BY <2>2 DEF TypeOK, CfarRefund
  <2> QED
    BY <1>1, <2>1, <2>3 DEF RefundTied
<1>3. CASE ~ ReadBooking(c)
  <2>1. /\ cancelStep[c] = "payout"
        /\ cfar'[c] = cfar[c] /\ refund'[c] = refund[c]
    <3>1. CASE \E d \in Cancellation : CancelBooking(d)
      <4>1. PICK d \in Cancellation : CancelBooking(d)
        BY <3>1
      <4>2. CASE d = c
        <5>1. cancelStep'[c] # "payout"
          BY <1>3, <4>1, <4>2 DEF CancelBooking, RefuseCancellation, PayOut, VoidProtections,
             CloseBooking, CancellationFails, TypeOK
        <5> QED
          BY <5>1
      <4>3. CASE d # c
        <5>1. CASE ReadBooking(d)
          BY <4>3, <5>1 DEF ReadBooking, TypeOK
        <5>2. CASE ~ ReadBooking(d)
          BY <4>1, <4>3, <5>2 DEF CancelBooking, RefuseCancellation, PayOut, VoidProtections,
             CloseBooking, CancellationFails, TypeOK
        <5> QED
          BY <5>1, <5>2
      <4> QED
        BY <4>2, <4>3
    <3>2. CASE ~ \E d \in Cancellation : CancelBooking(d)
      BY <3>2 DEF Next, CreateBooking, FindFlight, FlightUnavailable, ReadFreeze, UseFreeze,
         CreateMockPayment, OpenPayment, PaymentReply, PaymentError, SaveBooking, RequestFails,
         Outside, Restart, FreezeExpires, Pay, PaymentLapses, HandleWebhook, vars, cancelVars
    <3> QED
      BY <3>1, <3>2
  <2>2. Booked(target[c]) /\ cfar[c] \in Rows(target[c])
    BY <1>1, <2>1 DEF CancellationInv, Cancelling, CfarRows, Booked
  <2>3. ~ SaveBooking(target[c])
    BY <1>1, <2>2 DEF SaveBooking, CancellationInv
  <2>4. SameAmounts(target[c])
    BY <1>1, <2>3
  <2> QED
    BY <1>1, <2>1, <2>2, <2>4 DEF SameAmounts, MoneyInv, RefundTied
<1> QED
  BY <1>2, <1>3

\* The claims on one booking.
ClaimsTied(b) ==
  \A k \in PaidRows(b) :
    /\ k \in CfarRows(b)
    /\ protection[b][k].claim = booking[b].total - protection[b][k].premium
    /\ protection[b][k].claim >= booking[b].item

LEMMA ClaimsStay ==
  ASSUME NEW b \in Request, SameAmounts(b), SameClaims(b), ClaimsTied(b) PROVE ClaimsTied(b)'
BY DEF SameAmounts, SameClaims, ClaimsTied, PaidRows

\* A payout, of the row the call read however long ago, claims its worth.
LEMMA PayOutClaims ==
  ASSUME TypeOK, CancellationInv, MoneyInv, NEW c \in Cancellation, PayOut(c),
         NEW b \in Request, b = target[c]
  PROVE  ClaimsTied(b)'
<1>1. /\ cancelStep[c] = "payout" /\ booking' = booking
      /\ cfar[c] \in CfarRows(b) /\ cfar[c] \in Rows(b)
  BY DEF PayOut, CancellationInv, CfarRows
<1>2. CfarRows(b)' = CfarRows(b) /\ PaidRows(b)' = PaidRows(b) \cup {cfar[c]}
  BY <1>1, PayOutEffect
<1>3. ClaimsTied(b) /\ Ledgered(b) /\ RefundTied(c)
  BY DEF MoneyInv, ClaimIsRefund, ClaimsTied
<1>4. refund[c] = booking[b].total - protection[b][cfar[c]].premium
  BY <1>1, <1>3 DEF RefundTied
<1>5. refund[c] >= booking[b].item
  <2>1. booking[b].item + protection[b][cfar[c]].premium <= booking[b].total
    BY <1>1, <1>3 DEF Ledgered
  <2>2. /\ booking[b].item \in Nat /\ booking[b].total \in Nat
        /\ protection[b][cfar[c]].premium \in Nat
    <3>1. booking[b] \in BookingRow /\ protection[b][cfar[c]] \in ProtectionRow
      BY <1>1, RowType DEF TypeOK, Rows
    <3> QED
      BY <3>1 DEF BookingRow, ProtectionRow
  <2> QED
    BY <1>4, <2>1, <2>2
<1>6. ASSUME NEW k \in PaidRows(b)'
      PROVE  /\ k \in CfarRows(b)'
             /\ protection'[b][k].claim = booking'[b].total - protection'[b][k].premium
             /\ protection'[b][k].claim >= booking'[b].item
  <2>1. k \in Rows(b)
    BY <1>1, <1>2 DEF PaidRows
  <2>2. CASE k = cfar[c]
    <3>1. protection'[b][k].premium = protection[b][k].premium /\ protection'[b][k].claim = refund[c]
      BY <1>1, <2>1, <2>2, RowsAfterPayOut
    <3> QED
      BY <1>1, <1>2, <1>4, <1>5, <2>2, <3>1
  <2>3. CASE k # cfar[c]
    <3>1. protection'[b][k] = protection[b][k]
      BY <1>1, <2>1, <2>3, RowsAfterPayOut
    <3>2. k \in PaidRows(b)
      BY <1>2, <2>3
    <3> QED
      BY <1>1, <1>2, <1>3, <3>1, <3>2 DEF ClaimsTied
  <2> QED
    BY <2>2, <2>3
<1> QED
  BY <1>6 DEF ClaimsTied

LEMMA MoneyInvStep ==
  ASSUME TypeOK, TypeOK', CancellationInv, MoneyInv, [Next]_vars PROVE MoneyInv'
<1>1. ASSUME NEW b \in Request
      PROVE  /\ SameAmounts(b) \/ SaveBooking(b)
             /\ \/ SameClaims(b) /\ SameAmounts(b)
                \/ SaveBooking(b)
                \/ \E c \in Cancellation : PayOut(c) /\ b = target[c]
  <2>1. CASE \E c \in Cancellation : CancelBooking(c)
    <3>1. PICK c \in Cancellation : CancelBooking(c)
      BY <2>1
    <3> QED
      BY <3>1, CancelSameAmounts
  <2>2. CASE ~ \E c \in Cancellation : CancelBooking(c)
    BY <2>2, OthersSameAmounts
  <2> QED
    BY <2>1, <2>2
<1>2. ASSUME NEW b \in Request PROVE Ledgered(b)' /\ ClaimsTied(b)'
  <2>1. Ledgered(b) /\ ClaimsTied(b)
    BY DEF MoneyInv, ClaimIsRefund, ClaimsTied
  <2>2. CASE SaveBooking(b)
    BY <2>2, SaveLedgers DEF ClaimsTied
  <2>3. CASE ~ SaveBooking(b)
    <3>1. Ledgered(b)'
      BY <1>1, <2>1, <2>3, LedgerStays
    <3>2. CASE \E c \in Cancellation : PayOut(c) /\ b = target[c]
      BY <3>1, <3>2, PayOutClaims
    <3>3. CASE ~ \E c \in Cancellation : PayOut(c) /\ b = target[c]
      BY <1>1, <2>1, <2>3, <3>1, <3>3, ClaimsStay
    <3> QED
      BY <3>2, <3>3
  <2> QED
    BY <2>2, <2>3
<1>3. ASSUME NEW c \in Cancellation PROVE RefundTied(c)'
  BY <1>1, RefundStays
<1> QED
  BY <1>2, <1>3 DEF MoneyInv, ClaimIsRefund, ClaimsTied

\* The invariant of the amounts, next to those it rests on.
THEOREM MoneyCorrect == Spec => []MoneyInv
<1>1. Init => MoneyInv
  <2> SUFFICES ASSUME Init PROVE MoneyInv
    OBVIOUS
  <2>1. \A b \in Request : ~ Booked(b) /\ Rows(b) = {} /\ PaidRows(b) = {}
    BY DEF Init, Booked, Rows, PaidRows
  <2>2. \A c \in Cancellation : cancelStep[c] # "payout"
    BY DEF Init
  <2> QED
    BY <2>1, <2>2 DEF MoneyInv, Ledgered, ClaimIsRefund, RefundTied
<1>2. TypeOK /\ TypeOK' /\ CancellationInv /\ MoneyInv /\ [Next]_vars => MoneyInv'
  BY MoneyInvStep
<1> QED
  BY <1>1, <1>2, TypeCorrect, CancellationCorrect, PTL DEF Spec

\* The payment, the booking, its item and the rows of its protections agree, for
\* every list of protections, every price and every interleaving.
THEOREM Ledger == Spec => []LedgerBalanced
<1>1. MoneyInv /\ CreateInv => LedgerBalanced
  BY DEF MoneyInv, Ledgered, CreateInv, Tied, BookingTied, LedgerBalanced
<1> QED
  BY <1>1, MoneyCorrect, CreateCorrect, PTL

\* A recorded claim is the total less the premium of its own row and never below
\* the price of the flight, whichever of the overlapping cancellations wrote it.
THEOREM Claimed == Spec => []ClaimIsRefund
<1>1. MoneyInv => ClaimIsRefund
  BY DEF MoneyInv
<1> QED
  BY <1>1, MoneyCorrect, PTL

\* With one CFAR row at most, a row paid out or voided is never written again with
\* another content: a late payout finds the row paid with the same amount, and never
\* voided.
THEOREM ProtectionsFinal == Spec => ProtectionMoves
<1>1. ASSUME TypeOK, CancellationInv, MoneyInv, [Next]_vars, NEW b \in Request, NEW k \in Rows(b),
             Cardinality(CfarRows(b)) <= 1, protection[b][k].status # "ACTIVE"
      PROVE  protection'[b][k] = protection[b][k]
  <2>1. CASE SaveBooking(b)
    BY <1>1, <2>1 DEF SaveBooking, CancellationInv
  <2>2. ASSUME NEW c \in Cancellation, PayOut(c), b = target[c]
        PROVE  protection'[b][k] = protection[b][k]
    <3>1. /\ cancelStep[c] = "payout"
          /\ cfar[c] \in CfarRows(b) /\ cfar[c] \in Rows(b)
      BY <1>1, <2>2 DEF PayOut, CancellationInv, CfarRows
    <3>2. CASE k # cfar[c]
      BY <1>1, <2>2, <3>1, <3>2, RowsAfterPayOut
    <3>3. CASE k = cfar[c]
      <4>1. CfarRows(b) = {k}
        <5>1. IsFiniteSet(CfarRows(b))
          <6>1. Len(protection[b]) \in Nat
            BY <1>1 DEF TypeOK
          <6>2. IsFiniteSet(Rows(b))
            BY <6>1, FS_Interval DEF Rows
          <6> QED
            BY <6>2, FS_Subset DEF CfarRows
        <5>2. ASSUME NEW j \in CfarRows(b), j # k PROVE FALSE
          <6>1. {j, k} \subseteq CfarRows(b)
            BY <3>1, <3>3
          <6>2. Cardinality({j, k}) <= Cardinality(CfarRows(b)) /\ Cardinality(CfarRows(b)) \in Nat
            BY <5>1, <6>1, FS_Subset, FS_CardinalityType
          <6>3. Cardinality({j, k}) = 2
            <7>1. Cardinality({k}) = 1 /\ IsFiniteSet({k})
              BY FS_Singleton
            <7>2. {j, k} = {k} \cup {j} /\ j \notin {k}
              BY <5>2
            <7>3. Cardinality({k} \cup {j}) = Cardinality({k}) + 1
              BY <7>1, <7>2, FS_AddElement
            <7> QED
              BY <7>1, <7>2, <7>3
          <6> QED
            BY <1>1, <6>2, <6>3
        <5> QED
          BY <3>1, <3>3, <5>2
      <4>2. k \in ActiveRows(b) \cup PaidRows(b)
        BY <1>1, <4>1 DEF CancellationInv
      <4>3. protection[b][k].status = "PAID_OUT"
        BY <1>1, <4>2 DEF ActiveRows, PaidRows
      <4>4. protection[b][k].claim = refund[c]
        <5>1. k \in PaidRows(b)
          BY <1>1, <4>3 DEF PaidRows
        <5> QED
          BY <1>1, <2>2, <3>1, <3>3, <5>1 DEF MoneyInv, ClaimIsRefund, RefundTied
      <4>5. protection'[b][k] =
              [protection[b][k] EXCEPT !.status = "PAID_OUT", !.claim = refund[c]]
        <5>1. protection[b] \in Seq(ProtectionRow) /\ k \in 1 .. Len(protection[b])
          BY <1>1 DEF TypeOK, Rows
        <5>2. protection'[b] = [protection[b] EXCEPT ![k] =
                [protection[b][k] EXCEPT !.status = "PAID_OUT", !.claim = refund[c]]]
          BY <1>1, <2>2, <3>1, <3>3, PaidRow
        <5> QED
          BY <5>1, <5>2
      <4>6. protection[b][k] \in ProtectionRow
        BY <1>1, RowType DEF Rows
      <4> QED
        BY <4>3, <4>4, <4>5, <4>6 DEF ProtectionRow
    <3> QED
      BY <3>2, <3>3
  <2>3. ASSUME NEW c \in Cancellation, VoidProtections(c), b = target[c]
        PROVE  protection'[b][k] = protection[b][k]
    BY <1>1, <2>3, RowsAfterVoid
  <2>4. CASE /\ ~ SaveBooking(b)
             /\ ~ \E c \in Cancellation : PayOut(c) /\ b = target[c]
             /\ ~ \E c \in Cancellation : VoidProtections(c) /\ b = target[c]
    <3>1. protection'[b] = protection[b]
      <4>1. CASE \E c \in Cancellation : CancelBooking(c)
        <5>1. PICK c \in Cancellation : CancelBooking(c)
          BY <4>1
        <5>2. CASE PayOut(c) \/ VoidProtections(c)
          <6>1. b # target[c]
            BY <2>4, <5>2
          <6> QED
            BY <1>1, <5>2, <6>1 DEF PayOut, VoidProtections, TypeOK
        <5>3. CASE ~ (PayOut(c) \/ VoidProtections(c))
          BY <5>1, <5>3 DEF CancelBooking, RefuseCancellation, ReadBooking, CloseBooking,
             CancellationFails, tables
        <5> QED
          BY <5>2, <5>3
      <4>2. CASE \E r \in Request : SaveBooking(r)
        <5>1. PICK r \in Request : SaveBooking(r)
          BY <4>2
        <5>2. r # b
          BY <2>4, <5>1
        <5> QED
          BY <1>1, <5>1, <5>2 DEF SaveBooking, TypeOK
      <4>3. CASE /\ ~ \E c \in Cancellation : CancelBooking(c)
                 /\ ~ \E r \in Request : SaveBooking(r)
        BY <1>1, <4>3 DEF Next, CreateBooking, FindFlight, FlightUnavailable, ReadFreeze, UseFreeze,
           CreateMockPayment, OpenPayment, PaymentReply, PaymentError, RequestFails, Outside,
           Restart, FreezeExpires, Pay, PaymentLapses, HandleWebhook, vars, tables
      <4> QED
        BY <4>1, <4>2, <4>3
    <3> QED
      BY <3>1
  <2> QED
    BY <2>1, <2>2, <2>3, <2>4
<1>2. TypeOK /\ CancellationInv /\ MoneyInv /\ [Next]_vars => [ProtectionMove]_protection
  BY <1>1 DEF ProtectionMove
<1> QED
  BY <1>2, TypeCorrect, CancellationCorrect, MoneyCorrect, PTL DEF Spec, ProtectionMoves
=============================================================================
