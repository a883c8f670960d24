--------------------------- MODULE BookingProofs ---------------------------
(***************************************************************************)
(* Theorems about Booking, for every set of calls, freezes, prices and     *)
(* protection lists.                                                       *)
(***************************************************************************)
EXTENDS Booking, PricingProofs, SequenceTheorems

\* What a request is charged is a number of roubles.
LEMMA AmountDueType ==
  ASSUME TypeOK, NEW r \in Request
  PROVE  AmountDue(r) \in Nat
<1>1. flightPrice[r] \in Nat /\ protections[r] \in Seq(RequestedKind)
  BY DEF TypeOK
<1>2. QED
  BY <1>1, TotalPriceType DEF AmountDue

\* The rows the transaction writes: one active row per requested protection.
LEMMA NewRows ==
  ASSUME NEW list \in Seq(RequestedKind), NEW price \in Nat,
         NEW rows,
         rows = [i \in 1 .. Len(list) |-> NewProtection(list[i], price)]
  PROVE  /\ rows \in Seq(ProtectionRow)
         /\ Len(rows) = Len(list)
         /\ \A k \in 1 .. Len(rows) : rows[k].status = "ACTIVE"
<1>1. \A i \in 1 .. Len(list) :
        /\ NewProtection(list[i], price) \in ProtectionRow
        /\ NewProtection(list[i], price).status = "ACTIVE"
  <2> TAKE i \in 1 .. Len(list)
  <2>1. list[i] \in RequestedKind
    OBVIOUS
  <2>2. Premium(list[i], price) \in Nat
    BY <2>1, PremiumType
  <2>3. ToProtectionType(list[i]) \in ProtectionType
    BY ToProtectionTypeType
  <2>4. QED
    BY <2>2, <2>3 DEF NewProtection, ProtectionRow, ProtectionStatus
<1>2. rows \in [1 .. Len(list) -> ProtectionRow]
  BY <1>1
<1>3. Len(list) \in Nat
  OBVIOUS
<1>4. QED
  BY <1>1, <1>2, <1>3

\* A row of protections is a record of its type.
LEMMA RowType ==
  ASSUME TypeOK, NEW b \in Request, NEW k \in 1 .. Len(protection[b])
  PROVE  /\ protection[b] \in Seq(ProtectionRow)
         /\ k \in Nat
         /\ protection[b][k] \in ProtectionRow
<1>1. protection[b] \in Seq(ProtectionRow)
  BY DEF TypeOK
<1>2. QED
  BY <1>1

\* Writing one element, inside the domain or outside of it, leaves a
\* sequence a sequence.
LEMMA WriteElement ==
  ASSUME NEW S, NEW s \in Seq(S), NEW k,
         NEW x, k \in 1 .. Len(s) => x \in S
  PROVE  [s EXCEPT ![k] = x] \in Seq(S)
<1>1. CASE k \in 1 .. Len(s)
  BY <1>1, ExceptSeq
<1>2. CASE k \notin 1 .. Len(s)
  <2>1. DOMAIN s = 1 .. Len(s)
    OBVIOUS
  <2>2. [s EXCEPT ![k] = x] = [i \in DOMAIN s |-> s[i]]
    BY <1>2, <2>1
  <2>3. s = [i \in DOMAIN s |-> s[i]]
    OBVIOUS
  <2>4. QED
    BY <2>2, <2>3
<1>3. QED
  BY <1>1, <1>2

\* Voiding a row leaves it a row.
LEMMA VoidedType ==
  ASSUME NEW row \in ProtectionRow
  PROVE  Voided(row) \in ProtectionRow
<1>1. [row EXCEPT !.status = "VOIDED"] \in ProtectionRow
  BY DEF ProtectionRow, ProtectionStatus
<1>2. QED
  BY <1>1 DEF Voided

\* Only a call that names a freeze reads or uses one; without this the type
\* invariant is not inductive.
FreezeNamed ==
  \A r \in Request : step[r] \in {"freeze", "use"} => freezeId[r] \in Freeze

\* No call has begun and no row is stored when the system starts.
LEMMA InitTypeOK == Init => TypeOK
BY FreezeAssumption
DEF Init, TypeOK, Payment, PaymentStatus, BookingRow, BookingStatus,
    FreezeStatus, CreateStep, CancelStep

\* No step of createBooking leaves the types.
LEMMA CreateTypeOK ==
  ASSUME TypeOK, FreezeNamed, NEW r \in Request, CreateBooking(r)
  PROVE  TypeOK'
<1>1. CASE FindFlight(r)
  <2>1. PICK f \in Freeze \cup {NoFreeze}, list \in ProtectionLists,
             p \in Price :
          /\ freezeId' = [freezeId EXCEPT ![r] = f]
          /\ protections' = [protections EXCEPT ![r] = list]
          /\ listed' = [listed EXCEPT ![r] = p]
          /\ flightPrice' = [flightPrice EXCEPT ![r] = p]
          /\ step' = [step EXCEPT ![r] =
                        IF f = NoFreeze THEN "pay" ELSE "freeze"]
    BY <1>1 DEF FindFlight
  <2>2. list \in Seq(RequestedKind) /\ p \in Nat
    BY ListsAssumption, PriceAssumption
  <2>3. /\ freezeId' \in [Request -> Freeze \cup {NoFreeze}]
        /\ protections' \in [Request -> Seq(RequestedKind)]
        /\ listed' \in [Request -> Nat]
        /\ flightPrice' \in [Request -> Nat]
        /\ step' \in [Request -> CreateStep]
    BY <2>1, <2>2 DEF TypeOK, CreateStep
  <2>4. QED
    BY <1>1, <2>3
    DEF FindFlight, TypeOK, tables, cancelVars, outsideVars
<1>2. CASE FlightUnavailable(r)
  BY <1>2
  DEF FlightUnavailable, TypeOK, CreateStep, tables, cancelVars, outsideVars
<1>3. CASE ReadFreeze(r)
  <2>1. freezeId[r] \in Freeze
    BY <1>3 DEF ReadFreeze, FreezeNamed
  <2>2. FrozenPrice[freezeId[r]] \in Nat /\ flightPrice[r] \in Nat
    BY <2>1, FreezeAssumption DEF TypeOK
  <2>3. LowerPrice(flightPrice[r], FrozenPrice[freezeId[r]]) \in Nat
    BY <2>2 DEF LowerPrice
  <2>4. /\ flightPrice' \in [Request -> Nat]
        /\ step' \in [Request -> CreateStep]
    <3>1. CASE Usable(r)
      <4>1. flightPrice' =
              [flightPrice EXCEPT ![r] =
                 LowerPrice(flightPrice[r], FrozenPrice[freezeId[r]])]
        BY <1>3, <3>1 DEF ReadFreeze
      <4>2. step' = [step EXCEPT ![r] = "use"]
        BY <1>3, <3>1 DEF ReadFreeze
      <4>3. QED
        BY <2>3, <4>1, <4>2 DEF TypeOK, CreateStep
    <3>2. CASE ~Usable(r)
      BY <1>3, <3>2 DEF ReadFreeze, TypeOK, CreateStep
    <3>3. QED
      BY <3>1, <3>2
  <2>5. QED
    BY <1>3, <2>4
    DEF ReadFreeze, TypeOK, tables, cancelVars, outsideVars
<1>4. CASE UseFreeze(r)
  BY <1>4
  DEF UseFreeze, TypeOK, CreateStep, FreezeStatus, cancelVars, outsideVars
<1>5. CASE CreateMockPayment(r)
  BY <1>5, AmountDueType
  DEF CreateMockPayment, TypeOK, CreateStep, Payment, PaymentStatus, tables,
      cancelVars
<1>6. CASE OpenPayment(r)
  <2>1. PICK a \in Answer :
          /\ payment' = [payment EXCEPT ![r] =
               [status |-> a.status, amount |-> AmountDue(r), mock |-> FALSE,
                page |-> a.page]]
          /\ notices' = IF a.status = "pending" THEN notices ELSE notices \cup {r}
    BY <1>6 DEF OpenPayment
  <2>2. a.status \in PaymentStatus /\ a.page \in BOOLEAN
    BY DEF Answer
  <2>3. [status |-> a.status, amount |-> AmountDue(r), mock |-> FALSE, page |-> a.page]
          \in Payment
    BY <2>2, AmountDueType DEF Payment
  <2>4. payment' \in [Request -> Payment] /\ notices' \subseteq Request
    BY <2>1, <2>3 DEF TypeOK
  <2> QED
    BY <1>6, <2>4 DEF OpenPayment, TypeOK, CreateStep, tables, cancelVars
<1>7. CASE PaymentReply(r)
  BY <1>7
  DEF PaymentReply, TypeOK, CreateStep, tables, cancelVars, outsideVars
<1>8. CASE PaymentError(r)
  BY <1>8
  DEF PaymentError, TypeOK, CreateStep, tables, cancelVars, outsideVars
<1>9. CASE SaveBooking(r)
  <2> DEFINE rows == [i \in 1 .. Len(protections[r]) |->
                       NewProtection(protections[r][i], flightPrice[r])]
  <2>1. protection' = [protection EXCEPT ![r] = rows]
    BY <1>9 DEF SaveBooking
  <2>2. protections[r] \in Seq(RequestedKind) /\ flightPrice[r] \in Nat
    BY DEF TypeOK
  <2>3. rows \in Seq(ProtectionRow)
    BY <2>2, NewRows
  <2> HIDE DEF rows
  <2>4. protection' \in [Request -> Seq(ProtectionRow)]
    BY <2>1, <2>3 DEF TypeOK
  <2>5. AmountDue(r) \in Nat
    BY AmountDueType
  <2>6. booking' \in [Request -> BookingRow]
    BY <1>9, <2>2, <2>5
    DEF SaveBooking, TypeOK, BookingRow, BookingStatus
  <2>7. QED
    BY <1>9, <2>4, <2>6
    DEF SaveBooking, TypeOK, CreateStep, cancelVars, outsideVars
<1>10. CASE RequestFails(r)
  BY <1>10
  DEF RequestFails, TypeOK, CreateStep, tables, cancelVars, outsideVars
<1>11. QED
  BY <1>1, <1>2, <1>3, <1>4, <1>5, <1>6, <1>7, <1>8, <1>9, <1>10
  DEF CreateBooking

\* Nor does a restart, the clock, YooKassa or the webhook.
LEMMA OutsideTypeOK ==
  ASSUME TypeOK, Outside
  PROVE  TypeOK'
<1>1. CASE Restart
  BY <1>1
  DEF Restart, TypeOK, CreateStep, CancelStep, tables, outsideVars
<1>2. CASE \E f \in Freeze : FreezeExpires(f)
  BY <1>2 DEF FreezeExpires, TypeOK, tables, createVars, cancelVars
<1>3. ASSUME NEW r \in Request, Pay(r) PROVE TypeOK'
  BY <1>3
  DEF Pay, TypeOK, Payment, PaymentStatus, tables, createVars, cancelVars
<1>4. ASSUME NEW r \in Request, PaymentLapses(r) PROVE TypeOK'
  BY <1>4
  DEF PaymentLapses, TypeOK, Payment, PaymentStatus, tables, createVars,
      cancelVars
<1>5. ASSUME NEW r \in Request, HandleWebhook(r) PROVE TypeOK'
  BY <1>5 DEF HandleWebhook, TypeOK, tables, createVars, cancelVars
<1>6. QED
  BY <1>1, <1>2, <1>3, <1>4, <1>5 DEF Outside

\* No step of cancelBooking leaves the types.
LEMMA CancelTypeOK ==
  ASSUME TypeOK, NEW c \in Cancellation, CancelBooking(c)
  PROVE  TypeOK'
<1>1. CASE RefuseCancellation(c)
  BY <1>1
  DEF RefuseCancellation, TypeOK, CancelStep, tables, createVars, outsideVars
<1>2. CASE ReadBooking(c)
  <2> DEFINE b == target[c]
  <2>1. b \in Request /\ booking[b].total \in Nat
    BY DEF TypeOK, BookingRow
  <2>2. ASSUME NEW k \in ActiveCfar(b)
        PROVE  k \in Nat
               /\ CfarRefund(booking[b].total, protection[b][k].premium) \in Int
    <3>1. k \in 1 .. Len(protection[b])
      BY DEF ActiveCfar
    <3>2. k \in Nat /\ protection[b][k] \in ProtectionRow
      BY <2>1, <3>1, RowType
    <3>3. QED
      BY <2>1, <3>2 DEF ProtectionRow, CfarRefund
  <2>3. AirlineRefund(booking[b].total) \in Nat
    BY <2>1, AirlineRefundType
  <2>4. /\ cfar' \in [Cancellation -> Nat]
        /\ refund' \in [Cancellation -> Int]
        /\ cancelStep' \in [Cancellation -> CancelStep]
    <3>1. CASE ActiveCfar(b) = {}
      <4>1. /\ cfar' = cfar
            /\ refund' = [refund EXCEPT ![c] =
                            AirlineRefund(booking[b].total)]
            /\ cancelStep' = [cancelStep EXCEPT ![c] = "void"]
        BY <1>2, <3>1 DEF ReadBooking
      <4>2. QED
        BY <2>3, <4>1 DEF TypeOK, CancelStep
    <3>2. CASE ActiveCfar(b) # {}
      <4>1. PICK k \in ActiveCfar(b) :
              /\ cfar' = [cfar EXCEPT ![c] = k]
              /\ refund' = [refund EXCEPT ![c] =
                   CfarRefund(booking[b].total, protection[b][k].premium)]
              /\ cancelStep' = [cancelStep EXCEPT ![c] = "payout"]
        BY <1>2, <3>2 DEF ReadBooking
      <4>2. QED
        BY <2>2, <4>1 DEF TypeOK, CancelStep
    <3>3. QED
      BY <3>1, <3>2
  <2>5. QED
    BY <1>2, <2>4 DEF ReadBooking, TypeOK, tables, createVars, outsideVars
<1>3. CASE PayOut(c)
  <2> DEFINE b == target[c]
             k == cfar[c]
             row == [protection[b][k] EXCEPT !.status = "PAID_OUT",
                                             !.claim = refund[c]]
  <2>1. b \in Request /\ refund[c] \in Int /\ protection[b] \in Seq(ProtectionRow)
    BY DEF TypeOK
  <2>2. protection' = [protection EXCEPT ![b] = [@ EXCEPT ![k] = row]]
    BY <1>3 DEF PayOut
  <2>3. [protection[b] EXCEPT ![k] = row] \in Seq(ProtectionRow)
    <3>1. k \in 1 .. Len(protection[b]) => row \in ProtectionRow
      <4> SUFFICES ASSUME k \in 1 .. Len(protection[b])
                   PROVE  row \in ProtectionRow
        OBVIOUS
      <4>1. protection[b][k] \in ProtectionRow
        BY <2>1, RowType
      <4>2. QED
        BY <2>1, <4>1 DEF ProtectionRow, ProtectionStatus
    <3> HIDE DEF row, k, b
    <3>2. QED
      BY <2>1, <3>1, WriteElement
  <2> HIDE DEF row, k
  <2>4. protection' \in [Request -> Seq(ProtectionRow)]
    BY <2>1, <2>2, <2>3 DEF TypeOK
  <2>5. QED
    BY <1>3, <2>4
    DEF PayOut, TypeOK, CancelStep, createVars, outsideVars
<1>4. CASE VoidProtections(c)
  <2> DEFINE b == target[c]
             rows == [k \in 1 .. Len(protection[b]) |->
                        Voided(protection[b][k])]
  <2>1. b \in Request /\ Len(protection[b]) \in Nat
    BY DEF TypeOK
  <2>2. protection' = [protection EXCEPT ![b] = rows]
    BY <1>4 DEF VoidProtections
  <2>3. ASSUME NEW k \in 1 .. Len(protection[b])
        PROVE  Voided(protection[b][k]) \in ProtectionRow
    BY <2>1, RowType, VoidedType
  <2>4. rows \in Seq(ProtectionRow)
    BY <2>1, <2>3
  <2> HIDE DEF rows
  <2>5. protection' \in [Request -> Seq(ProtectionRow)]
    BY <2>2, <2>4 DEF TypeOK
  <2>6. QED
    BY <1>4, <2>5
    DEF VoidProtections, TypeOK, CancelStep, createVars, outsideVars
<1>5. CASE CloseBooking(c)
  <2>1. target[c] \in Request /\ booking[target[c]] \in BookingRow
    BY DEF TypeOK
  <2>2. [booking[target[c]] EXCEPT !.status = "CANCELLED"] \in BookingRow
    BY <2>1 DEF BookingRow, BookingStatus
  <2>3. booking' \in [Request -> BookingRow]
    BY <1>5, <2>1, <2>2 DEF CloseBooking, TypeOK
  <2>4. QED
    BY <1>5, <2>3
    DEF CloseBooking, TypeOK, CancelStep, createVars, outsideVars
<1>6. CASE CancellationFails(c)
  BY <1>6
  DEF CancellationFails, TypeOK, CancelStep, tables, createVars, outsideVars
<1>7. QED
  BY <1>1, <1>2, <1>3, <1>4, <1>5, <1>6 DEF CancelBooking

\* No step leaves a call that has no freeze among those that read one.
LEMMA FreezeNamedStep ==
  ASSUME TypeOK, FreezeNamed, [Next]_vars
  PROVE  FreezeNamed'
<1>1. ASSUME NEW r \in Request, CreateBooking(r) PROVE FreezeNamed'
  <2>1. CASE FindFlight(r)
    BY <2>1 DEF FindFlight, FreezeNamed, TypeOK
  <2>2. CASE freezeId' = freezeId
             /\ \E s \in CreateStep \ {"freeze"} :
                  /\ step' = [step EXCEPT ![r] = s]
                  /\ s = "use" => step[r] = "freeze"
    BY <2>2 DEF FreezeNamed, TypeOK
  <2>3. QED
    BY <1>1, <2>1, <2>2
    DEF CreateBooking, CreateStep, FlightUnavailable, ReadFreeze, UseFreeze,
        CreateMockPayment, OpenPayment, PaymentReply, PaymentError,
        SaveBooking, RequestFails, tables
<1>2. CASE Restart
  BY <1>2 DEF Restart, FreezeNamed, TypeOK, Creating
<1>3. CASE step' = step /\ freezeId' = freezeId
  BY <1>3 DEF FreezeNamed
<1>4. QED
  BY <1>1, <1>2, <1>3
  DEF Next, CancelBooking, RefuseCancellation, ReadBooking, PayOut,
      VoidProtections, CloseBooking, CancellationFails, Outside,
      FreezeExpires, Pay, PaymentLapses, HandleWebhook, vars, createVars

\* No step leaves the types.
LEMMA NextTypeOK ==
  ASSUME TypeOK, FreezeNamed, [Next]_vars
  PROVE  TypeOK'
<1>1. CASE Next
  BY <1>1, CreateTypeOK, CancelTypeOK, OutsideTypeOK DEF Next
<1>2. CASE UNCHANGED vars
  BY <1>2
  DEF vars, TypeOK, tables, createVars, cancelVars, outsideVars
<1>3. QED
  BY <1>1, <1>2

\* Every variable keeps its type: the rows of the three tables hold only the
\* values their enums allow, and every amount is a number of roubles.
THEOREM TypeCorrect == Spec => []TypeOK
<1>1. Init => TypeOK /\ FreezeNamed
  BY InitTypeOK DEF Init, FreezeNamed
<1>2. TypeOK /\ FreezeNamed /\ [Next]_vars => TypeOK' /\ FreezeNamed'
  BY NextTypeOK, FreezeNamedStep
<1>3. QED
  BY <1>1, <1>2, PTL DEF Spec
=============================================================================
