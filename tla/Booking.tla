------------------------------ MODULE Booking ------------------------------
(***************************************************************************)
(* createBooking and cancelBooking of                                      *)
(* packages/api/src/booking/booking.service.ts, with the payment client    *)
(* (payment/yookassa.service.ts), the payment webhook                      *)
(* (payment/payment.controller.ts) and the three tables they share:        *)
(* price_freezes, bookings (with its one item) and protections.            *)
(*                                                                         *)
(* The API is one Node process.  A handler runs without interruption from  *)
(* one await to the next, so a handler is one action per awaited call:     *)
(* what the code computes after the call returns, up to the next call, is  *)
(* part of the same action.  Between two actions of a call any other call  *)
(* may run, the call may die (the awaited call throws), or the process may *)
(* be restarted, which kills every call in flight.                         *)
(*                                                                         *)
(* A booking and its payment are named by the request that creates them:   *)
(* a request makes at most one of each (the ids are fresh UUIDs).  PNRs,   *)
(* passengers and the payment method carry no decision and are left out.   *)
(***************************************************************************)
EXTENDS Pricing, FiniteSetsExt

CONSTANTS
  Request,          \* POST /bookings calls
  Cancellation,     \* POST /bookings/:id/cancel calls
  Freeze,           \* rows of price_freezes
  BuyerOf,          \* the authenticated user of each call of either kind
  OwnerOf,          \* price_freezes.user_id
  FrozenPrice,      \* price_freezes.frozen_price
  Price,            \* prices the search cache may hold for the flight
  ProtectionLists,  \* values of dto.protections
  NoFreeze          \* dto.freeze_id is absent

ASSUME FreezeAssumption ==
  /\ NoFreeze \notin Freeze
  /\ FrozenPrice \in [Freeze -> Nat]
ASSUME PriceAssumption == Price \subseteq Nat
ASSUME ListsAssumption == ProtectionLists \subseteq Seq(RequestedKind)

VARIABLES
  live,         \* yookassa.isAvailable(): FALSE is the mock mode
  freeze,       \* price_freezes.status
  expired,      \* the freezes whose expires_at has passed
  payment,      \* the payments as YooKassa, or the mock, holds them
  notices,      \* payments whose webhook is not acknowledged yet
  booking,      \* bookings, with booking_items.price
  protection,   \* protections of each booking
  step,         \* where each createBooking call stands
  freezeId,     \* dto.freeze_id
  protections,  \* dto.protections
  listed,       \* Number(flight.price)
  flightPrice,
  applied,      \* did the call take the branch that uses the freeze
  cancelStep,   \* where each cancelBooking call stands
  target,       \* bookingId
  cfar,         \* the row cfarProtection, 0 if undefined
  refund        \* refundAmount

tables      == <<freeze, booking, protection>>
createVars  == <<step, freezeId, protections, listed, flightPrice, applied>>
cancelVars  == <<cancelStep, target, cfar, refund>>
outsideVars == <<expired, payment, notices>>
vars == <<live, tables, createVars, cancelVars, outsideVars>>

CreateStep ==
  {"idle", "freeze", "use", "pay", "reply", "save",
   "done", "rejected", "unpaid", "failed"}
Creating == {"freeze", "use", "pay", "reply", "save"}

CancelStep ==
  {"idle", "payout", "void", "close", "answered", "rejected", "failed"}
Cancelling == {"payout", "void", "close"}

FreezeStatus     == {"ACTIVE", "USED"}
ProtectionStatus == {"ACTIVE", "PAID_OUT", "VOIDED"}
BookingStatus    == {"NONE", "PENDING", "CONFIRMED", "CANCELLED"}
PaymentStatus    == {"none", "pending", "succeeded", "canceled"}

ProtectionRow ==
  [type : ProtectionType, premium : Nat, status : ProtectionStatus,
   claim : Int]
BookingRow == [status : BookingStatus, total : Nat, item : Nat]
\* "page" says whether the answer carried a confirmation_url.
Payment ==
  [status : PaymentStatus, amount : Nat, mock : BOOLEAN, page : BOOLEAN]

TypeOK ==
  /\ live \in BOOLEAN
  /\ freeze \in [Freeze -> FreezeStatus]
  /\ expired \subseteq Freeze
  /\ payment \in [Request -> Payment]
  /\ notices \subseteq Request
  /\ booking \in [Request -> BookingRow]
  /\ protection \in [Request -> Seq(ProtectionRow)]
  /\ step \in [Request -> CreateStep]
  /\ freezeId \in [Request -> Freeze \cup {NoFreeze}]
  /\ protections \in [Request -> Seq(RequestedKind)]
  /\ listed \in [Request -> Nat]
  /\ flightPrice \in [Request -> Nat]
  /\ applied \in [Request -> BOOLEAN]
  /\ cancelStep \in [Cancellation -> CancelStep]
  /\ target \in [Cancellation -> Request]
  /\ cfar \in [Cancellation -> Nat]
  /\ refund \in [Cancellation -> Int]

\* Nothing is booked; the freezes are the active ones sold earlier.
Init ==
  /\ live \in BOOLEAN
  /\ freeze = [f \in Freeze |-> "ACTIVE"]
  /\ expired = {}
  /\ payment = [r \in Request |->
                  [status |-> "none", amount |-> 0, mock |-> FALSE,
                   page |-> FALSE]]
  /\ notices = {}
  /\ booking = [r \in Request |->
                  [status |-> "NONE", total |-> 0, item |-> 0]]
  /\ protection = [r \in Request |-> <<>>]
  /\ step = [r \in Request |-> "idle"]
  /\ freezeId = [r \in Request |-> NoFreeze]
  /\ protections = [r \in Request |-> <<>>]
  /\ listed = [r \in Request |-> 0]
  /\ flightPrice = [r \in Request |-> 0]
  /\ applied = [r \in Request |-> FALSE]
  /\ cancelStep = [c \in Cancellation |-> "idle"]
  /\ target \in [Cancellation -> Request]
  /\ cfar = [c \in Cancellation |-> 0]
  /\ refund = [c \in Cancellation |-> 0]

-----------------------------------------------------------------------------
(* createBooking *)

\* findFlightInCache answers with the flight and the price the cache holds
\* at that moment.
FindFlight(r) ==
  /\ step[r] = "idle"
  /\ \E f \in Freeze \cup {NoFreeze}, list \in ProtectionLists, p \in Price :
       /\ freezeId' = [freezeId EXCEPT ![r] = f]
       /\ protections' = [protections EXCEPT ![r] = list]
       /\ listed' = [listed EXCEPT ![r] = p]
       /\ flightPrice' = [flightPrice EXCEPT ![r] = p]
       /\ step' = [step EXCEPT ![r] =
                     IF f = NoFreeze THEN "pay" ELSE "freeze"]
  /\ UNCHANGED <<live, tables, applied, cancelVars, outsideVars>>

\* The flight has left the cache, or Redis does not answer: 409.
FlightUnavailable(r) ==
  /\ step[r] = "idle"
  /\ step' = [step EXCEPT ![r] = "rejected"]
  /\ UNCHANGED <<live, tables, freezeId, protections, listed, flightPrice,
                 applied, cancelVars, outsideVars>>

\* Wrong variant: the freeze is looked up by id alone.
UsableByAnyone(r) ==
  freeze[freezeId[r]] = "ACTIVE" /\ freezeId[r] \notin expired

Usable(r) ==
  LET f == freezeId[r]
  IN  OwnerOf[f] = BuyerOf[r] /\ freeze[f] = "ACTIVE" /\ f \notin expired

LowerPrice(a, b) == IF a < b THEN a ELSE b

\* findFirst on the freeze.  A freeze that is not usable is ignored and the
\* booking goes on at the listed price.
ReadFreeze(r) ==
  /\ step[r] = "freeze"
  /\ IF Usable(r)
     THEN /\ flightPrice' = [flightPrice EXCEPT ![r] =
                               LowerPrice(@, FrozenPrice[freezeId[r]])]
          /\ step' = [step EXCEPT ![r] = "use"]
     ELSE /\ step' = [step EXCEPT ![r] = "pay"]
          /\ UNCHANGED flightPrice
  /\ UNCHANGED <<live, tables, freezeId, protections, listed, applied,
                 cancelVars, outsideVars>>

\* The update that marks the freeze as used names the row by id alone.
UseFreeze(r) ==
  /\ step[r] = "use"
  /\ freeze' = [freeze EXCEPT ![freezeId[r]] = "USED"]
  /\ applied' = [applied EXCEPT ![r] = TRUE]
  /\ step' = [step EXCEPT ![r] = "pay"]
  /\ UNCHANGED <<live, booking, protection, freezeId, protections, listed,
                 flightPrice, cancelVars, outsideVars>>

\* Wrong variant: the premiums are charged on the listed price.
AmountDueListed(r) == flightPrice[r] + ProtectionTotal(protections[r], listed[r])

AmountDue(r) == TotalPrice(protections[r], flightPrice[r])

\* createPayment in mock mode answers at once, as succeeded and with no page.
CreateMockPayment(r) ==
  /\ step[r] = "pay" /\ ~live
  /\ payment' = [payment EXCEPT ![r] =
       [status |-> "succeeded", amount |-> AmountDue(r), mock |-> TRUE,
        page |-> FALSE]]
  /\ step' = [step EXCEPT ![r] = "save"]
  /\ UNCHANGED <<live, tables, freezeId, protections, listed, flightPrice,
                 applied, cancelVars, expired, notices>>

\* What YooKassa may answer to a redirect payment: a page only while it
\* waits for the buyer.  createPayment takes any status, and a reply without
\* a page as well (confirmation_url || null).
Answer ==
  {a \in [status : PaymentStatus \ {"none"}, page : BOOLEAN] :
     a.page => a.status = "pending"}

\* YooKassa opens the payment; its answer is still under way.  A payment that
\* is settled from the start has its webhook sent like any other.
OpenPayment(r) ==
  /\ step[r] = "pay" /\ live
  /\ \E a \in Answer :
       /\ payment' = [payment EXCEPT ![r] =
            [status |-> a.status, amount |-> AmountDue(r), mock |-> FALSE,
             page |-> a.page]]
       /\ notices' = IF a.status = "pending" THEN notices
                     ELSE notices \cup {r}
  /\ step' = [step EXCEPT ![r] = "reply"]
  /\ UNCHANGED <<live, tables, freezeId, protections, listed, flightPrice,
                 applied, cancelVars, expired>>

PaymentReply(r) ==
  /\ step[r] = "reply"
  /\ step' = [step EXCEPT ![r] = "save"]
  /\ UNCHANGED <<live, tables, freezeId, protections, listed, flightPrice,
                 applied, cancelVars, outsideVars>>

\* Wrong variant: the call has no timeout.
PaymentErrorNoTimeout(r) ==
  /\ live /\ step[r] = "pay"
  /\ step' = [step EXCEPT ![r] = "unpaid"]
  /\ UNCHANGED <<live, tables, freezeId, protections, listed, flightPrice,
                 applied, cancelVars, outsideVars>>

\* The call to YooKassa is refused or runs into its 15 s timeout, whether
\* or not the payment was opened: createBooking throws and undoes nothing.
PaymentError(r) ==
  /\ live /\ step[r] \in {"pay", "reply"}
  /\ step' = [step EXCEPT ![r] = "unpaid"]
  /\ UNCHANGED <<live, tables, freezeId, protections, listed, flightPrice,
                 applied, cancelVars, outsideVars>>

NewProtection(kind, price) ==
  [type    |-> ToProtectionType(kind),
   premium |-> Premium(kind, price),
   status  |-> "ACTIVE",
   claim   |-> 0]

\* Wrong variant: every stored booking counts as confirmed.
IsPendingNever(r) == FALSE

\* The answer carries a confirmation_url, whatever its status says.
IsPending(r) == payment[r].page

\* The transaction that writes booking, item, passengers and protections.
SaveBooking(r) ==
  /\ step[r] = "save"
  /\ booking' = [booking EXCEPT ![r] =
       [status |-> IF IsPending(r) THEN "PENDING" ELSE "CONFIRMED",
        total  |-> AmountDue(r),
        item   |-> flightPrice[r]]]
  /\ protection' = [protection EXCEPT ![r] =
       [i \in 1 .. Len(protections[r]) |->
          NewProtection(protections[r][i], flightPrice[r])]]
  /\ step' = [step EXCEPT ![r] = "done"]
  /\ UNCHANGED <<live, freeze, freezeId, protections, listed, flightPrice,
                 applied, cancelVars, outsideVars>>

\* An awaited database call throws; the transaction, if any, rolls back.
RequestFails(r) ==
  /\ step[r] \in {"freeze", "use", "save"}
  /\ step' = [step EXCEPT ![r] = "failed"]
  /\ UNCHANGED <<live, tables, freezeId, protections, listed, flightPrice,
                 applied, cancelVars, outsideVars>>

-----------------------------------------------------------------------------
(* cancelBooking *)

\* Wrong variant: any active protection passes for CFAR.
ActiveAny(b) ==
  {k \in 1 .. Len(protection[b]) : protection[b][k].status = "ACTIVE"}

ActiveCfar(b) ==
  {k \in 1 .. Len(protection[b]) :
     /\ protection[b][k].type = "CANCEL_FOR_ANY_REASON"
     /\ protection[b][k].status = "ACTIVE"}

Found(c) ==
  /\ booking[target[c]].status # "NONE"
  /\ BuyerOf[target[c]] = BuyerOf[c]

\* Wrong variant: a pending booking may be cancelled too.
CancellableUnlessCancelled(c) == booking[target[c]].status # "CANCELLED"

\* The code also accepts COMPLETED, a status that nothing in the API writes.
Cancellable(c) == booking[target[c]].status = "CONFIRMED"

\* No such booking of this user (404), or not a confirmed one (400).
RefuseCancellation(c) ==
  /\ cancelStep[c] = "idle"
  /\ ~ (Found(c) /\ Cancellable(c))
  /\ cancelStep' = [cancelStep EXCEPT ![c] = "rejected"]
  /\ UNCHANGED <<live, tables, createVars, target, cfar, refund, outsideVars>>

\* One query reads the booking with its protections and decides everything
\* that follows.  The query has no order, so any active CFAR row may be the
\* first.
ReadBooking(c) ==
  /\ cancelStep[c] = "idle"
  /\ Found(c) /\ Cancellable(c)
  /\ LET b == target[c]
     IN \/ \E k \in ActiveCfar(b) :
             /\ cfar' = [cfar EXCEPT ![c] = k]
             /\ refund' = [refund EXCEPT ![c] =
                  CfarRefund(booking[b].total, protection[b][k].premium)]
             /\ cancelStep' = [cancelStep EXCEPT ![c] = "payout"]
        \/ /\ ActiveCfar(b) = {}
           /\ refund' = [refund EXCEPT ![c] = AirlineRefund(booking[b].total)]
           /\ cancelStep' = [cancelStep EXCEPT ![c] = "void"]
           /\ UNCHANGED cfar
  /\ UNCHANGED <<live, tables, createVars, target, outsideVars>>

PayOut(c) ==
  /\ cancelStep[c] = "payout"
  /\ protection' = [protection EXCEPT ![target[c]][cfar[c]] =
       [@ EXCEPT !.status = "PAID_OUT", !.claim = refund[c]]]
  /\ cancelStep' = [cancelStep EXCEPT ![c] = "void"]
  /\ UNCHANGED <<live, freeze, booking, createVars, target, cfar, refund,
                 outsideVars>>

\* Wrong variants: the update loses its filter, misses its rows, or writes
\* a status no reader knows.
VoidedUnfiltered(row) == [row EXCEPT !.status = "VOIDED"]
VoidedNothing(row) == row
VoidedAsExpired(row) ==
  IF row.status = "ACTIVE" THEN [row EXCEPT !.status = "EXPIRED"] ELSE row

Voided(row) ==
  IF row.status = "ACTIVE" THEN [row EXCEPT !.status = "VOIDED"] ELSE row

\* Wrong variant: with nothing left to void, the call returns.
VoidProtectionsReturns(c) ==
  /\ cancelStep[c] = "void"
  /\ protection' = [protection EXCEPT ![target[c]] =
       [k \in 1 .. Len(@) |-> Voided(@[k])]]
  /\ cancelStep' = [cancelStep EXCEPT ![c] =
       IF protection' = protection THEN "answered" ELSE "close"]
  /\ UNCHANGED <<live, freeze, booking, createVars, target, cfar, refund,
                 outsideVars>>

VoidProtections(c) ==
  /\ cancelStep[c] = "void"
  /\ protection' = [protection EXCEPT ![target[c]] =
       [k \in 1 .. Len(@) |-> Voided(@[k])]]
  /\ cancelStep' = [cancelStep EXCEPT ![c] = "close"]
  /\ UNCHANGED <<live, freeze, booking, createVars, target, cfar, refund,
                 outsideVars>>

CloseBooking(c) ==
  /\ cancelStep[c] = "close"
  /\ booking' = [booking EXCEPT ![target[c]].status = "CANCELLED"]
  /\ cancelStep' = [cancelStep EXCEPT ![c] = "answered"]
  /\ UNCHANGED <<live, freeze, protection, createVars, target, cfar, refund,
                 outsideVars>>

CancellationFails(c) ==
  /\ cancelStep[c] \in Cancelling
  /\ cancelStep' = [cancelStep EXCEPT ![c] = "failed"]
  /\ UNCHANGED <<live, tables, createVars, target, cfar, refund, outsideVars>>

-----------------------------------------------------------------------------
(* The process, the clock and YooKassa *)

\* The process dies and comes back with whatever YooKassa keys its
\* environment then holds.  The calls in flight are gone; the tables stay.
Restart ==
  /\ live' \in BOOLEAN
  /\ step' = [r \in Request |->
                IF step[r] \in Creating THEN "failed" ELSE step[r]]
  /\ cancelStep' = [c \in Cancellation |->
                IF cancelStep[c] \in Cancelling THEN "failed"
                ELSE cancelStep[c]]
  /\ UNCHANGED <<tables, freezeId, protections, listed, flightPrice, applied,
                 target, cfar, refund, outsideVars>>

FreezeExpires(f) ==
  /\ f \notin expired
  /\ expired' = expired \cup {f}
  /\ UNCHANGED <<live, tables, createVars, cancelVars, payment, notices>>

\* The buyer learns the payment page from the response of createBooking or,
\* later, from getBookingById: both return it after the rows are stored.
PageKnown(r) == booking[r].status # "NONE"

\* The buyer pays on the page.  A payment without one is settled, if at all,
\* by YooKassa alone.
Pay(r) ==
  /\ payment[r].status = "pending"
  /\ payment[r].page => PageKnown(r)
  /\ payment' = [payment EXCEPT ![r].status = "succeeded"]
  /\ notices' = notices \cup {r}
  /\ UNCHANGED <<live, tables, createVars, cancelVars, expired>>

PaymentLapses(r) ==
  /\ payment[r].status = "pending"
  /\ payment' = [payment EXCEPT ![r].status = "canceled"]
  /\ notices' = notices \cup {r}
  /\ UNCHANGED <<live, tables, createVars, cancelVars, expired>>

\* handleWebhook logs the event and answers 200.  It changes no table.
HandleWebhook(r) ==
  /\ r \in notices
  /\ notices' = notices \ {r}
  /\ UNCHANGED <<live, tables, createVars, cancelVars, expired, payment>>

-----------------------------------------------------------------------------
CreateBooking(r) ==
  \/ FindFlight(r)        \/ FlightUnavailable(r)
  \/ ReadFreeze(r)        \/ UseFreeze(r)
  \/ CreateMockPayment(r) \/ OpenPayment(r)
  \/ PaymentReply(r)      \/ PaymentError(r)
  \/ SaveBooking(r)       \/ RequestFails(r)

CancelBooking(c) ==
  \/ RefuseCancellation(c) \/ ReadBooking(c)
  \/ PayOut(c) \/ VoidProtections(c) \/ CloseBooking(c)
  \/ CancellationFails(c)

Outside ==
  \/ Restart
  \/ \E f \in Freeze : FreezeExpires(f)
  \/ \E r \in Request : Pay(r) \/ PaymentLapses(r) \/ HandleWebhook(r)

Next ==
  \/ \E r \in Request : CreateBooking(r)
  \/ \E c \in Cancellation : CancelBooking(c)
  \/ Outside

Spec == Init /\ [][Next]_vars

\* The steps of a call that nothing but a restart can hold up: the event
\* loop runs them, the database answers or throws, the timer of the payment
\* call fires.  That YooKassa answers, that buyers pay and that freezes
\* expire is not assumed.  YooKassa repeats a webhook until it gets its 200.
HandlerRuns(r) ==
  \/ ReadFreeze(r) \/ UseFreeze(r) \/ CreateMockPayment(r)
  \/ PaymentError(r) \/ SaveBooking(r)

CancellationRuns(c) == PayOut(c) \/ VoidProtections(c) \/ CloseBooking(c)

Fairness ==
  /\ \A r \in Request : WF_vars(HandlerRuns(r)) /\ WF_vars(HandleWebhook(r))
  /\ \A c \in Cancellation : WF_vars(CancellationRuns(c))

FairSpec == Spec /\ Fairness

-----------------------------------------------------------------------------
(* Vocabulary of the properties *)

Booked(b) == booking[b].status # "NONE"

Rows(b) == 1 .. Len(protection[b])

CfarRows(b) ==
  {k \in Rows(b) : protection[b][k].type = "CANCEL_FOR_ANY_REASON"}

ActiveRows(b) == {k \in Rows(b) : protection[b][k].status = "ACTIVE"}

PaidRows(b) == {k \in Rows(b) : protection[b][k].status = "PAID_OUT"}

PremiumsPaid(b) ==
  SumFunction([k \in Rows(b) |-> protection[b][k].premium])

Claims(b) == MapThenSumSet(LAMBDA k : protection[b][k].claim, PaidRows(b))

-----------------------------------------------------------------------------
(* What the code guarantees *)

\* The four places that hold money agree for good: the payment, the total of
\* the booking, the price of its item and the premiums of its protections,
\* which were computed before the payment and written after it.
LedgerBalanced ==
  \A b \in Request : Booked(b) =>
    /\ payment[b].amount = booking[b].total
    /\ booking[b].total = booking[b].item + PremiumsPaid(b)

\* A booking below the price the cache listed has taken a freeze of its own
\* buyer out of circulation, and pays exactly the frozen price.
DiscountNeedsFreeze ==
  \A b \in Request : Booked(b) /\ booking[b].item # listed[b] =>
    /\ freezeId[b] \in Freeze
    /\ freeze[freezeId[b]] = "USED"
    /\ OwnerOf[freezeId[b]] = BuyerOf[b]
    /\ booking[b].item = FrozenPrice[freezeId[b]]
    /\ booking[b].item < listed[b]

\* No order of concurrent, repeated or interrupted cancellations leaves a
\* cancelled booking with a protection somebody could still claim.
CancelledIsVoided ==
  \A b \in Request : booking[b].status = "CANCELLED" =>
    ActiveRows(b) = {}

\* A booking sold with CFAR is not cancelled without one of its CFAR rows
\* having been paid out, however many cancellations ran, overlapped or died.
CfarHonoured ==
  \A b \in Request : booking[b].status = "CANCELLED" /\ CfarRows(b) # {} =>
    CfarRows(b) \cap PaidRows(b) # {}

\* What every cancellation in flight may still rely on, although it reads the
\* booking once and others write it meanwhile: its booking stays stored, its
\* CFAR row stays one, a CFAR booking never has its CFAR rows all voided, and
\* what a call paid out or voided is still so when it closes the booking.
\* This is the inductive form of CancelledIsVoided and CfarHonoured.
CancellationInv ==
  /\ \A r \in Request : step[r] # "done" => ~Booked(r)
  /\ \A b \in Request : ~Booked(b) => Rows(b) = {}
  /\ \A b \in Request : CfarRows(b) # {} =>
       CfarRows(b) \cap (ActiveRows(b) \cup PaidRows(b)) # {}
  /\ \A c \in Cancellation :
       /\ cancelStep[c] \in Cancelling =>
            booking[target[c]].status \in {"CONFIRMED", "CANCELLED"}
       /\ cancelStep[c] = "payout" => cfar[c] \in CfarRows(target[c])
       /\ cancelStep[c] \in {"void", "close"} /\ CfarRows(target[c]) # {} =>
            CfarRows(target[c]) \cap PaidRows(target[c]) # {}
       /\ cancelStep[c] = "close" => ActiveRows(target[c]) = {}
  /\ CancelledIsVoided
  /\ CfarHonoured

\* Whatever cancellation wrote it and however old its copy of the booking,
\* a recorded claim is the total less that row's own premium, and covers the
\* price of the flight.
ClaimIsRefund ==
  \A b \in Request : \A k \in PaidRows(b) :
    /\ k \in CfarRows(b)
    /\ protection[b][k].claim = booking[b].total - protection[b][k].premium
    /\ protection[b][k].claim >= booking[b].item

\* A buyer who can still pay does so for a booking that waits for it: no
\* cancellation, however it overlaps the payment, closes a booking whose page
\* still takes money, and none such is stored as confirmed.
PayableIsPending ==
  \A b \in Request :
    Booked(b) /\ payment[b].page /\ payment[b].status = "pending" =>
      booking[b].status = "PENDING"

\* The moves of a status the documents know: a stored booking is new, closed
\* from CONFIRMED, or moved by the end of its payment.
StatusMove ==
  \A b \in Request : booking'[b].status # booking[b].status =>
    \/ booking[b].status = "NONE" /\ booking'[b].status # "CANCELLED"
    \/ booking[b].status = "CONFIRMED" /\ booking'[b].status = "CANCELLED"
    \/ /\ booking[b].status = "PENDING"
       /\ \/ booking'[b].status = "CONFIRMED" /\ payment[b].status = "succeeded"
          \/ booking'[b].status = "CANCELLED" /\ payment[b].status = "canceled"

\* A booking is cancelled from CONFIRMED, or from PENDING once its payment is
\* canceled, and a cancelled one stays cancelled: no late step of another
\* call reopens a booking or closes one that waits for its buyer.
StatusMoves == [][StatusMove]_booking

ProtectionMove ==
  \A b \in Request : \A k \in Rows(b) :
    Cardinality(CfarRows(b)) <= 1 /\ protection[b][k].status # "ACTIVE" =>
      protection'[b][k] = protection[b][k]

\* A protection that has been paid out or voided stays that way, in a booking
\* with at most one CFAR row, all the booking page can order.
ProtectionMoves == [][ProtectionMove]_protection

\* A createBooking call whose payment is under way comes to an end: YooKassa
\* falling silent cannot hold it.
RequestAnswered ==
  \A r \in Request : step[r] \in Creating ~> step[r] \notin Creating

\* A payout is followed by the cancellation of its booking unless the call
\* that made it dies: no interleaving with other cancellations strands it.
PayoutClosesBooking ==
  \A b \in Request :
    PaidRows(b) # {} ~>
      \/ booking[b].status = "CANCELLED"
      \/ \E c \in Cancellation : target[c] = b /\ cancelStep[c] = "failed"

-----------------------------------------------------------------------------
(* What the documents say and the code does not do *)

\* A freeze buys one booking.
FreezeUsedOnce ==
  \A f \in Freeze :
    Cardinality({r \in Request : Booked(r) /\ applied[r] /\ freezeId[r] = f}) <= 1

\* A booking is CONFIRMED when it is paid: a payment that did not succeed ends
\* createBooking with an error.
ConfirmedIsPaid ==
  \A b \in Request : booking[b].status = "CONFIRMED" =>
    payment[b].status = "succeeded"

\* The products of a booking do not pay more back than was paid in.
NoDoubleRefund == \A b \in Request : Claims(b) <= booking[b].total
=============================================================================
