------------------------- MODULE CancellationProofs -------------------------
(***************************************************************************)
(* What no interleaving of cancellations can do to a booking, for every    *)
(* number of calls.                                                        *)
(***************************************************************************)
EXTENDS BookingContract, BookingProofs

\* Where a booking's rows do not change, neither do the sets made of them.
LEMMA SameRows ==
  ASSUME NEW b \in Request, protection'[b] = protection[b]
  PROVE  /\ Rows(b)' = Rows(b)
         /\ CfarRows(b)' = CfarRows(b)
         /\ ActiveRows(b)' = ActiveRows(b)
         /\ PaidRows(b)' = PaidRows(b)
BY DEF Rows, CfarRows, ActiveRows, PaidRows

\* A payout moves one row of one booking to the paid ones.
LEMMA PayOutEffect ==
  ASSUME TypeOK, NEW c \in Cancellation, PayOut(c),
         NEW b \in Request, b = target[c], cfar[c] \in Rows(b)
  PROVE  /\ Rows(b)' = Rows(b)
         /\ CfarRows(b)' = CfarRows(b)
         /\ ActiveRows(b)' = ActiveRows(b) \ {cfar[c]}
         /\ PaidRows(b)' = PaidRows(b) \cup {cfar[c]}
<1> DEFINE row(i) == protection[b][i]
           k == cfar[c]
           paid == [row(k) EXCEPT !.status = "PAID_OUT", !.claim = refund[c]]
<1>1. protection[b] \in Seq(ProtectionRow) /\ k \in 1 .. Len(protection[b])
  BY DEF TypeOK, Rows
<1>2. row(k) \in ProtectionRow
  BY <1>1
<1>3. /\ paid \in ProtectionRow
      /\ paid.type = row(k).type
      /\ paid.status = "PAID_OUT"
  <2>1. refund[c] \in Int
    BY DEF TypeOK
  <2>2. QED
    BY <1>2, <2>1 DEF ProtectionRow, ProtectionStatus
<1>4. protection'[b] = [protection[b] EXCEPT ![k] = paid]
  BY DEF PayOut, TypeOK
<1> HIDE DEF paid, k
<1>5. /\ Len(protection'[b]) = Len(protection[b])
      /\ \A i \in 1 .. Len(protection[b]) :
           protection'[b][i] = IF i = k THEN paid ELSE protection[b][i]
  BY <1>1, <1>3, <1>4, ExceptSeq
<1>6. Rows(b)' = Rows(b)
  BY <1>5 DEF Rows
<1>7. CfarRows(b)' = CfarRows(b)
  BY <1>3, <1>5 DEF Rows, CfarRows
<1>8. ActiveRows(b)' = ActiveRows(b) \ {k}
  BY <1>3, <1>5 DEF Rows, ActiveRows
<1>9. PaidRows(b)' = PaidRows(b) \cup {k}
  BY <1>1, <1>3, <1>5 DEF Rows, PaidRows
<1>10. QED
  BY <1>6, <1>7, <1>8, <1>9 DEF k

\* Voiding leaves no active row and takes no row out of the paid ones.
LEMMA VoidEffect ==
  ASSUME TypeOK, NEW c \in Cancellation, VoidProtections(c),
         NEW b \in Request, b = target[c]
  PROVE  /\ Rows(b)' = Rows(b)
         /\ CfarRows(b)' = CfarRows(b)
         /\ ActiveRows(b)' = {}
         /\ PaidRows(b)' = PaidRows(b)
<1>1. protection'[b] = [k \in 1 .. Len(protection[b]) |->
                          Voided(protection[b][k])]
  BY DEF VoidProtections, TypeOK
<1>2. ASSUME NEW k \in 1 .. Len(protection[b])
      PROVE  /\ Voided(protection[b][k]).type = protection[b][k].type
             /\ Voided(protection[b][k]).status =
                  IF protection[b][k].status = "ACTIVE" THEN "VOIDED"
                  ELSE protection[b][k].status
  <2>1. protection[b][k] \in ProtectionRow
    BY RowType
  <2>2. QED
    BY <2>1 DEF Voided, ProtectionRow
<1>3. Len(protection[b]) \in Nat
  BY DEF TypeOK
<1>4. /\ Len(protection'[b]) = Len(protection[b])
      /\ \A k \in 1 .. Len(protection[b]) :
           protection'[b][k] = Voided(protection[b][k])
  BY <1>1, <1>3
<1>5. \A k \in 1 .. Len(protection[b]) :
        /\ protection'[b][k].type = protection[b][k].type
        /\ protection'[b][k].status # "ACTIVE"
        /\ protection'[b][k].status = "PAID_OUT"
             <=> protection[b][k].status = "PAID_OUT"
  BY <1>2, <1>4
<1>6. Rows(b)' = Rows(b)
  BY <1>4 DEF Rows
<1>7. CfarRows(b)' = CfarRows(b)
  BY <1>4, <1>5 DEF Rows, CfarRows
<1>8. ActiveRows(b)' = {}
  BY <1>4, <1>5 DEF Rows, ActiveRows
<1>9. PaidRows(b)' = PaidRows(b)
  BY <1>4, <1>5 DEF Rows, PaidRows
<1>10. QED
  BY <1>6, <1>7, <1>8, <1>9

\* A step that stores, moves and pays nothing, and lets no call into a
\* cancellation, keeps the invariant.
LEMMA Untouched ==
  ASSUME CancellationInv,
         protection' = protection, booking' = booking,
         target' = target, cfar' = cfar,
         \A r \in Request : step'[r] # "done" => step[r] # "done",
         \A c \in Cancellation :
           cancelStep'[c] \in Cancelling => cancelStep'[c] = cancelStep[c]
  PROVE  CancellationInv'
BY DEF CancellationInv, CancelledIsVoided, CfarHonoured, Booked, Rows,
       CfarRows, ActiveRows, PaidRows, Cancelling

\* The transaction of createBooking stores an untouched booking: nobody can
\* be cancelling it yet, and all its rows are active.
LEMMA SaveKeepsInv ==
  ASSUME TypeOK, CancellationInv, NEW r \in Request, SaveBooking(r)
  PROVE  CancellationInv'
<1> DEFINE rows == [i \in 1 .. Len(protections[r]) |->
                      NewProtection(protections[r][i], flightPrice[r])]
<1>1. protection' = [protection EXCEPT ![r] = rows]
  BY DEF SaveBooking
<1>2. /\ Len(rows) \in Nat
      /\ \A k \in 1 .. Len(rows) : rows[k].status = "ACTIVE"
  <2>1. protections[r] \in Seq(RequestedKind) /\ flightPrice[r] \in Nat
    BY DEF TypeOK
  <2>2. rows \in Seq(ProtectionRow)
        /\ \A k \in 1 .. Len(rows) : rows[k].status = "ACTIVE"
    BY <2>1, NewRows
  <2> HIDE DEF rows
  <2>3. QED
    BY <2>2
<1> HIDE DEF rows
<1>3. /\ ActiveRows(r)' = Rows(r)'
      /\ CfarRows(r)' \subseteq ActiveRows(r)'
      /\ Booked(r)'
      /\ booking'[r].status # "CANCELLED"
  <2>1. protection'[r] = rows
    BY <1>1 DEF TypeOK
  <2>2. booking'[r].status \in {"PENDING", "CONFIRMED"}
    BY DEF SaveBooking, TypeOK
  <2>3. QED
    BY <1>2, <2>1, <2>2 DEF ActiveRows, CfarRows, Rows, Booked
<1>4. /\ ~Booked(r)
      /\ step' = [step EXCEPT ![r] = "done"]
      /\ cancelStep' = cancelStep /\ target' = target /\ cfar' = cfar
  BY DEF SaveBooking, CancellationInv, cancelVars
<1>5. ASSUME NEW b \in Request, b # r
      PROVE  /\ protection'[b] = protection[b]
             /\ booking'[b] = booking[b]
             /\ Booked(b)' = Booked(b)
             /\ Rows(b)' = Rows(b)
             /\ CfarRows(b)' = CfarRows(b)
             /\ ActiveRows(b)' = ActiveRows(b)
             /\ PaidRows(b)' = PaidRows(b)
  <2>1. protection'[b] = protection[b] /\ booking'[b] = booking[b]
    BY <1>1, <1>5 DEF SaveBooking, TypeOK
  <2>2. QED
    BY <2>1, SameRows DEF Booked
<1>6. ASSUME NEW c \in Cancellation, cancelStep[c] \in Cancelling
      PROVE  target[c] # r
  BY <1>4, <1>6 DEF CancellationInv, Booked
<1>7. \A q \in Request : step'[q] # "done" => ~Booked(q)'
  BY <1>4, <1>5 DEF CancellationInv, TypeOK
<1>8. \A b \in Request : ~Booked(b)' => Rows(b)' = {}
  BY <1>3, <1>5 DEF CancellationInv
<1>9. \A b \in Request : CfarRows(b)' # {} =>
        CfarRows(b)' \cap (ActiveRows(b)' \cup PaidRows(b)') # {}
  BY <1>3, <1>5 DEF CancellationInv
<1>10. \A b \in Request : booking'[b].status = "CANCELLED" =>
         /\ ActiveRows(b)' = {}
         /\ CfarRows(b)' # {} => CfarRows(b)' \cap PaidRows(b)' # {}
  BY <1>3, <1>5 DEF CancellationInv, CancelledIsVoided, CfarHonoured
<1>11. ASSUME NEW c \in Cancellation, NEW b \in Request, b = target[c]
       PROVE  /\ cancelStep[c] \in Cancelling =>
                   booking'[b].status \in {"CONFIRMED", "CANCELLED"}
              /\ cancelStep[c] = "payout" => cfar[c] \in CfarRows(b)'
              /\ cancelStep[c] \in {"void", "close"} /\ CfarRows(b)' # {} =>
                   CfarRows(b)' \cap PaidRows(b)' # {}
              /\ cancelStep[c] = "close" => ActiveRows(b)' = {}
  BY <1>5, <1>6, <1>11 DEF CancellationInv, Cancelling
<1>12. \A c \in Cancellation : target[c] \in Request
  BY DEF TypeOK
<1>13. QED
  BY <1>4, <1>7, <1>8, <1>9, <1>10, <1>11, <1>12
  DEF CancellationInv, CancelledIsVoided, CfarHonoured

\* The query of a cancellation: a CFAR booking without an active CFAR row has
\* a paid one, so the call that goes straight to voiding finds its duty done.
LEMMA ReadKeepsInv ==
  ASSUME TypeOK, CancellationInv, NEW c \in Cancellation, ReadBooking(c)
  PROVE  CancellationInv'
<1> DEFINE t == target[c]
<1>1. /\ t \in Request
      /\ booking' = booking /\ protection' = protection
      /\ step' = step /\ target' = target
      /\ booking[t].status = "CONFIRMED"
  BY DEF ReadBooking, TypeOK, tables, createVars, Found, Cancellable
<1>2. ActiveCfar(t) = CfarRows(t) \cap ActiveRows(t)
  BY DEF ActiveCfar, CfarRows, ActiveRows, Rows
<1>3. /\ \A d \in Cancellation \ {c} :
           cancelStep'[d] = cancelStep[d] /\ cfar'[d] = cfar[d]
      /\ \/ cancelStep'[c] = "payout" /\ cfar'[c] \in CfarRows(t)
         \/ /\ cancelStep'[c] = "void"
            /\ CfarRows(t) # {} => CfarRows(t) \cap PaidRows(t) # {}
  <2>1. CASE ActiveCfar(t) = {}
    <3>1. /\ cfar' = cfar
          /\ cancelStep' = [cancelStep EXCEPT ![c] = "void"]
      BY <2>1 DEF ReadBooking
    <3>2. CfarRows(t) # {} => CfarRows(t) \cap PaidRows(t) # {}
      BY <1>1, <1>2, <2>1 DEF CancellationInv
    <3>3. QED
      BY <3>1, <3>2 DEF TypeOK
  <2>2. CASE ActiveCfar(t) # {}
    <3>1. PICK k \in ActiveCfar(t) :
            /\ cfar' = [cfar EXCEPT ![c] = k]
            /\ cancelStep' = [cancelStep EXCEPT ![c] = "payout"]
      BY <2>2 DEF ReadBooking
    <3>2. QED
      BY <1>2, <3>1 DEF TypeOK
  <2>3. QED
    BY <2>1, <2>2
<1>4. \A b \in Request : /\ Rows(b)' = Rows(b)
                         /\ CfarRows(b)' = CfarRows(b)
                         /\ ActiveRows(b)' = ActiveRows(b)
                         /\ PaidRows(b)' = PaidRows(b)
                         /\ Booked(b)' = Booked(b)
  BY <1>1, SameRows DEF Booked
<1>5. \A d \in Cancellation : target[d] \in Request
  BY DEF TypeOK
<1>6. QED
  BY <1>1, <1>3, <1>4, <1>5
  DEF CancellationInv, CancelledIsVoided, CfarHonoured, Cancelling

\* Paying a row out takes it from the active rows to the paid ones and leaves
\* every other call what it relies on.
LEMMA PayOutKeepsInv ==
  ASSUME TypeOK, CancellationInv, NEW c \in Cancellation, PayOut(c)
  PROVE  CancellationInv'
<1> DEFINE t == target[c]
<1>1. /\ t \in Request
      /\ cancelStep[c] = "payout"
      /\ cancelStep' = [cancelStep EXCEPT ![c] = "void"]
      /\ booking' = booking /\ step' = step
      /\ target' = target /\ cfar' = cfar
  BY DEF PayOut, TypeOK, createVars
<1>2. cfar[c] \in CfarRows(t) /\ cfar[c] \in Rows(t)
  BY <1>1 DEF CancellationInv, CfarRows
<1>3. /\ Rows(t)' = Rows(t)
      /\ CfarRows(t)' = CfarRows(t)
      /\ ActiveRows(t)' = ActiveRows(t) \ {cfar[c]}
      /\ PaidRows(t)' = PaidRows(t) \cup {cfar[c]}
  BY <1>1, <1>2, PayOutEffect
<1>4. ASSUME NEW b \in Request, b # t
      PROVE  /\ Rows(b)' = Rows(b)
             /\ CfarRows(b)' = CfarRows(b)
             /\ ActiveRows(b)' = ActiveRows(b)
             /\ PaidRows(b)' = PaidRows(b)
  <2>1. protection'[b] = protection[b]
    BY <1>4 DEF PayOut, TypeOK
  <2>2. QED
    BY <2>1, SameRows
<1>5. \A b \in Request : Booked(b)' = Booked(b)
  BY <1>1 DEF Booked
<1>6. \A d \in Cancellation :
        target[d] \in Request /\ cancelStep'[d] =
          IF d = c THEN "void" ELSE cancelStep[d]
  BY <1>1 DEF TypeOK
<1>7. QED
  BY <1>1, <1>2, <1>3, <1>4, <1>5, <1>6
  DEF CancellationInv, CancelledIsVoided, CfarHonoured, Cancelling

\* Voiding takes nothing out of the paid rows.
LEMMA VoidKeepsInv ==
  ASSUME TypeOK, CancellationInv, NEW c \in Cancellation, VoidProtections(c)
  PROVE  CancellationInv'
<1> DEFINE t == target[c]
<1>1. /\ t \in Request
      /\ cancelStep[c] = "void"
      /\ cancelStep' = [cancelStep EXCEPT ![c] = "close"]
      /\ booking' = booking /\ step' = step
      /\ target' = target /\ cfar' = cfar
  BY DEF VoidProtections, TypeOK, createVars
<1>2. /\ Rows(t)' = Rows(t)
      /\ CfarRows(t)' = CfarRows(t)
      /\ ActiveRows(t)' = {}
      /\ PaidRows(t)' = PaidRows(t)
  BY <1>1, VoidEffect
<1>3. CfarRows(t) # {} => CfarRows(t) \cap PaidRows(t) # {}
  BY <1>1 DEF CancellationInv
<1>4. ASSUME NEW b \in Request, b # t
      PROVE  /\ Rows(b)' = Rows(b)
             /\ CfarRows(b)' = CfarRows(b)
             /\ ActiveRows(b)' = ActiveRows(b)
             /\ PaidRows(b)' = PaidRows(b)
  <2>1. protection'[b] = protection[b]
    BY <1>4 DEF VoidProtections, TypeOK
  <2>2. QED
    BY <2>1, SameRows
<1>5. \A b \in Request : Booked(b)' = Booked(b)
  BY <1>1 DEF Booked
<1>6. \A d \in Cancellation :
        target[d] \in Request /\ cancelStep'[d] =
          IF d = c THEN "close" ELSE cancelStep[d]
  BY <1>1 DEF TypeOK
<1>7. QED
  BY <1>1, <1>2, <1>3, <1>4, <1>5, <1>6
  DEF CancellationInv, CancelledIsVoided, CfarHonoured, Cancelling

\* A call closes the booking only when nothing active is left and its CFAR,
\* if it has one, is paid.
LEMMA CloseKeepsInv ==
  ASSUME TypeOK, CancellationInv, NEW c \in Cancellation, CloseBooking(c)
  PROVE  CancellationInv'
<1> DEFINE t == target[c]
<1>1. /\ t \in Request
      /\ cancelStep[c] = "close"
      /\ cancelStep' = [cancelStep EXCEPT ![c] = "answered"]
      /\ protection' = protection /\ step' = step
      /\ target' = target /\ cfar' = cfar
  BY DEF CloseBooking, TypeOK, createVars
<1>2. /\ booking[t].status # "NONE"
      /\ ActiveRows(t) = {}
      /\ CfarRows(t) # {} => CfarRows(t) \cap PaidRows(t) # {}
  BY <1>1 DEF CancellationInv, Cancelling
<1>3. \A b \in Request :
        booking'[b].status = IF b = t THEN "CANCELLED" ELSE booking[b].status
  BY <1>1 DEF CloseBooking, TypeOK, BookingRow
<1>4. \A b \in Request : /\ Rows(b)' = Rows(b)
                         /\ CfarRows(b)' = CfarRows(b)
                         /\ ActiveRows(b)' = ActiveRows(b)
                         /\ PaidRows(b)' = PaidRows(b)
                         /\ Booked(b)' = Booked(b)
  BY <1>1, <1>2, <1>3, SameRows DEF Booked
<1>5. \A d \in Cancellation :
        target[d] \in Request /\ cancelStep'[d] =
          IF d = c THEN "answered" ELSE cancelStep[d]
  BY <1>1 DEF TypeOK
<1>6. QED
  BY <1>1, <1>2, <1>3, <1>4, <1>5
  DEF CancellationInv, CancelledIsVoided, CfarHonoured, Cancelling

\* The invariant is inductive.
LEMMA CancellationInvStep ==
  ASSUME TypeOK, CancellationInv, [Next]_vars
  PROVE  CancellationInv'
<1>1. ASSUME NEW r \in Request, CreateBooking(r) PROVE CancellationInv'
  <2>1. CASE SaveBooking(r)
    BY <2>1, SaveKeepsInv
  <2>2. CASE ~SaveBooking(r)
    <3>1. /\ booking' = booking /\ protection' = protection
          /\ cancelStep' = cancelStep /\ target' = target /\ cfar' = cfar
          /\ step[r] # "done"
      BY <1>1, <2>2
      DEF CreateBooking, FindFlight, FlightUnavailable, ReadFreeze, UseFreeze,
          CreateMockPayment, OpenPayment, PaymentReply, PaymentError,
          RequestFails, tables, cancelVars
    <3>2. \A q \in Request \ {r} : step'[q] = step[q]
      BY <1>1, <2>2
      DEF CreateBooking, FindFlight, FlightUnavailable, ReadFreeze, UseFreeze,
          CreateMockPayment, OpenPayment, PaymentReply, PaymentError,
          RequestFails, TypeOK
    <3>3. QED
      BY <3>1, <3>2, Untouched
  <2>3. QED
    BY <2>1, <2>2
<1>2. ASSUME NEW c \in Cancellation, CancelBooking(c) PROVE CancellationInv'
  <2>1. CASE RefuseCancellation(c) \/ CancellationFails(c)
    <3>1. /\ booking' = booking /\ protection' = protection
          /\ step' = step /\ target' = target /\ cfar' = cfar
          /\ \A d \in Cancellation :
               cancelStep'[d] \in Cancelling => cancelStep'[d] = cancelStep[d]
      BY <2>1
      DEF RefuseCancellation, CancellationFails, tables, createVars, TypeOK,
          Cancelling
    <3>2. QED
      BY <3>1, Untouched
  <2>2. QED
    BY <1>2, <2>1, ReadKeepsInv, PayOutKeepsInv, VoidKeepsInv, CloseKeepsInv
    DEF CancelBooking
<1>3. CASE Outside \/ UNCHANGED vars
  <2>1. /\ booking' = booking /\ protection' = protection
        /\ target' = target /\ cfar' = cfar
        /\ \A r \in Request : step'[r] # "done" => step[r] # "done"
        /\ \A c \in Cancellation :
             cancelStep'[c] \in Cancelling => cancelStep'[c] = cancelStep[c]
    BY <1>3
    DEF Outside, Restart, FreezeExpires, Pay, PaymentLapses, HandleWebhook,
        vars, tables, createVars, cancelVars, Creating, Cancelling
  <2>2. QED
    BY <2>1, Untouched
<1>4. QED
  BY <1>1, <1>2, <1>3 DEF Next

\* Whatever cancellations of whatever bookings do, overlapping or dying, each
\* of them keeps what it relies on.
THEOREM CancellationCorrect == Spec => []CancellationInv
<1>1. Init => TypeOK /\ FreezeNamed /\ CancellationInv
  <2>1. Init => CancellationInv
    BY DEF Init, CancellationInv, CancelledIsVoided, CfarHonoured, Booked,
           Rows, CfarRows, Cancelling
  <2>2. QED
    BY <2>1, InitTypeOK DEF Init, FreezeNamed
<1>2. TypeOK /\ FreezeNamed /\ CancellationInv /\ [Next]_vars
        => TypeOK' /\ FreezeNamed' /\ CancellationInv'
  BY NextTypeOK, FreezeNamedStep, CancellationInvStep
<1>3. QED
  BY <1>1, <1>2, PTL DEF Spec

\* A cancelled booking has no protection anybody could still claim
\* (cancelBooking voids before it closes, and nothing activates a row again).
THEOREM Voiding == Spec => []CancelledIsVoided
<1>1. CancellationInv => CancelledIsVoided
  BY DEF CancellationInv
<1>2. QED
  BY <1>1, CancellationCorrect, PTL

\* A booking sold with CFAR is not cancelled before a CFAR row of it is paid.
THEOREM Honouring == Spec => []CfarHonoured
<1>1. CancellationInv => CfarHonoured
  BY DEF CancellationInv
<1>2. QED
  BY <1>1, CancellationCorrect, PTL

-----------------------------------------------------------------------------
(* Booking implements CfarContract, for every number of calls.             *)

\* What a step does to one booking, given what it does to its status and to
\* its paid rows: the contract moves along CfarContract or stays.
LEMMA OneContract ==
  ASSUME NEW b \in Request, Booked(b), Booked(b)',
         CfarRows(b)' = CfarRows(b),
         PaidRows(b) \subseteq PaidRows(b)',
         booking[b].status = "CANCELLED" => booking'[b].status = "CANCELLED",
         booking'[b].status = "CANCELLED" /\ booking[b].status # "CANCELLED"
           => CfarRows(b) = {} \/ CfarRows(b) \cap PaidRows(b) # {}
  PROVE  \/ ContractOf(b)' = ContractOf(b)
         \/ ContractOf(b) = "insured" /\ ContractOf(b)' = "paid"
         \/ ContractOf(b) \in {"paid", "uninsured"} /\ ContractOf(b)' = "closed"
BY DEF ContractOf

\* A step that moves one contract the way CfarContract allows, and no other,
\* is a step of CfarContract or a stutter.
LEMMA OneMoves ==
  ASSUME NEW b \in Request,
         \A a \in Request \ {b} : ContractOf(a)' = ContractOf(a),
         \/ ContractOf(b)' = ContractOf(b)
         \/ ContractOf(b) = "none" /\ ContractOf(b)' \in {"insured", "uninsured"}
         \/ ContractOf(b) = "insured" /\ ContractOf(b)' = "paid"
         \/ ContractOf(b) \in {"paid", "uninsured"} /\ ContractOf(b)' = "closed"
  PROVE  Abstract!Next
         \/ contracts' = contracts
<1> DEFINE con == [a \in Request |-> ContractOf(a)]
           new == [a \in Request |-> ContractOf(a)']
<1>0. contracts = con /\ contracts' = new
  BY DEF contracts
<1>1. CASE ContractOf(b)' = ContractOf(b)
  <2>1. \A a \in Request : ContractOf(a)' = ContractOf(a)
    BY <1>1
  <2>2. new = con
    BY <2>1
  <2>3. QED
    BY <1>0, <2>2
<1>2. CASE ContractOf(b)' # ContractOf(b)
  <2>1. new = [con EXCEPT ![b] = ContractOf(b)']
    OBVIOUS
  <2>2. con[b] = ContractOf(b)
    OBVIOUS
  <2> HIDE DEF con, new
  <2>3. CASE ContractOf(b) = "none" /\ ContractOf(b)' \in {"insured", "uninsured"}
    BY <1>0, <2>1, <2>2, <2>3 DEF Abstract!Next, Abstract!Sell
  <2>4. CASE ContractOf(b) = "insured" /\ ContractOf(b)' = "paid"
    BY <1>0, <2>1, <2>2, <2>4 DEF Abstract!Next, Abstract!PayOut
  <2>5. CASE /\ ContractOf(b) \in {"paid", "uninsured"}
             /\ ContractOf(b)' = "closed"
    BY <1>0, <2>1, <2>2, <2>5 DEF Abstract!Next, Abstract!Close
  <2>6. QED
    BY <1>2, <2>3, <2>4, <2>5
<1>3. QED
  BY <1>1, <1>2

\* What a booking's contract is depends on its own rows and status alone.
LEMMA SameContract ==
  ASSUME NEW b \in Request,
         protection'[b] = protection[b], booking'[b] = booking[b]
  PROVE  ContractOf(b)' = ContractOf(b)
<1>1. /\ CfarRows(b)' = CfarRows(b)
      /\ PaidRows(b)' = PaidRows(b)
      /\ Booked(b)' = Booked(b)
  BY SameRows DEF Booked
<1>2. QED
  BY <1>1 DEF ContractOf

\* createBooking sells the contract of its own booking.
LEMMA SaveSells ==
  ASSUME TypeOK, CancellationInv, NEW r \in Request, SaveBooking(r)
  PROVE  Abstract!Next
<1>1. /\ ~Booked(r)
      /\ Booked(r)'
      /\ booking'[r].status # "CANCELLED"
      /\ \A a \in Request \ {r} :
           protection'[a] = protection[a] /\ booking'[a] = booking[a]
  BY DEF SaveBooking, CancellationInv, Booked, TypeOK
<1>2. CfarRows(r)' \cap PaidRows(r)' = {}
  <2> DEFINE rows == [i \in 1 .. Len(protections[r]) |->
                        NewProtection(protections[r][i], flightPrice[r])]
  <2>1. protections[r] \in Seq(RequestedKind) /\ flightPrice[r] \in Nat
    BY DEF TypeOK
  <2>2. \A k \in 1 .. Len(rows) : rows[k].status = "ACTIVE"
    BY <2>1, NewRows
  <2>3. protection'[r] = rows
    BY DEF SaveBooking, TypeOK
  <2> HIDE DEF rows
  <2>4. QED
    BY <2>2, <2>3 DEF PaidRows, Rows
<1>3. /\ ContractOf(r) = "none"
      /\ ContractOf(r)' \in {"insured", "uninsured"}
  BY <1>1, <1>2 DEF ContractOf
<1>4. \A a \in Request \ {r} : ContractOf(a)' = ContractOf(a)
  BY <1>1, SameContract
<1>5. contracts' # contracts
  <2> DEFINE old == [a \in Request |-> ContractOf(a)]
             new == [a \in Request |-> ContractOf(a)']
  <2>1. old[r] # new[r]
    BY <1>3
  <2>2. old # new
    BY <2>1
  <2>3. QED
    BY <2>2 DEF contracts
<1>6. QED
  BY <1>3, <1>4, <1>5, OneMoves

\* A step of a cancellation that writes a table moves the contract of its
\* target or none.
LEMMA CancelMoves ==
  ASSUME TypeOK, CancellationInv, NEW c \in Cancellation,
         NEW t \in Request, t = target[c],
         PayOut(c) \/ VoidProtections(c) \/ CloseBooking(c)
  PROVE  Abstract!Next
         \/ contracts' = contracts
<1>1. /\ cancelStep[c] \in Cancelling
      /\ Booked(t)
  BY DEF PayOut, VoidProtections, CloseBooking, Cancelling, CancellationInv,
         Booked
<1>2. \A a \in Request \ {t} :
        protection'[a] = protection[a] /\ booking'[a] = booking[a]
  BY DEF TypeOK, PayOut, VoidProtections, CloseBooking
<1>3. \A a \in Request \ {t} : ContractOf(a)' = ContractOf(a)
  BY <1>2, SameContract
<1>4. /\ Booked(t)'
      /\ CfarRows(t)' = CfarRows(t)
      /\ PaidRows(t) \subseteq PaidRows(t)'
      /\ booking[t].status = "CANCELLED" => booking'[t].status = "CANCELLED"
      /\ booking'[t].status = "CANCELLED" /\ booking[t].status # "CANCELLED"
           => CfarRows(t) = {} \/ CfarRows(t) \cap PaidRows(t) # {}
  <2>1. CASE PayOut(c)
    <3>1. cfar[c] \in Rows(t)
      BY <2>1 DEF PayOut, CancellationInv, CfarRows
    <3>2. CfarRows(t)' = CfarRows(t) /\ PaidRows(t) \subseteq PaidRows(t)'
      BY <1>1, <2>1, <3>1, PayOutEffect
    <3>3. booking' = booking
      BY <2>1 DEF PayOut
    <3>4. QED
      BY <1>1, <3>2, <3>3 DEF Booked
  <2>2. CASE VoidProtections(c)
    <3>1. CfarRows(t)' = CfarRows(t) /\ PaidRows(t)' = PaidRows(t)
      BY <1>1, <2>2, VoidEffect
    <3>2. booking' = booking
      BY <2>2 DEF VoidProtections
    <3>3. QED
      BY <1>1, <3>1, <3>2 DEF Booked
  <2>3. CASE CloseBooking(c)
    <3>1. CfarRows(t)' = CfarRows(t) /\ PaidRows(t)' = PaidRows(t)
      BY <1>1, <2>3, SameRows DEF CloseBooking
    <3>2. booking'[t].status = "CANCELLED"
      BY <1>1, <2>3 DEF CloseBooking, TypeOK, BookingRow
    <3>3. CfarRows(t) = {} \/ CfarRows(t) \cap PaidRows(t) # {}
      BY <2>3 DEF CloseBooking, CancellationInv
    <3>4. QED
      BY <3>1, <3>2, <3>3 DEF Booked
  <2>4. QED
    BY <2>1, <2>2, <2>3
<1>5. \/ ContractOf(t)' = ContractOf(t)
      \/ ContractOf(t) = "insured" /\ ContractOf(t)' = "paid"
      \/ ContractOf(t) \in {"paid", "uninsured"} /\ ContractOf(t)' = "closed"
  BY <1>1, <1>4, OneContract
<1>6. QED
  BY <1>1, <1>3, <1>5, OneMoves

\* Every step of every call maps to a step of the contract or to a stutter.
LEMMA StepMoves ==
  ASSUME TypeOK, CancellationInv, [Next]_vars
  PROVE  Abstract!Next
         \/ contracts' = contracts
<1>1. CASE \E r \in Request : SaveBooking(r)
  BY <1>1, SaveSells
<1>2. CASE \E c \in Cancellation :
             PayOut(c) \/ VoidProtections(c) \/ CloseBooking(c)
  <2>1. \A c \in Cancellation : target[c] \in Request
    BY DEF TypeOK
  <2>2. QED
    BY <1>2, <2>1, CancelMoves
<1>3. CASE booking' = booking /\ protection' = protection
  <2>1. \A a \in Request : ContractOf(a)' = ContractOf(a)
    BY <1>3, SameContract
  <2>2. QED
    BY <2>1 DEF contracts
<1>4. QED
  BY <1>1, <1>2, <1>3
  DEF Next, vars, tables, Outside, Restart, FreezeExpires, Pay, PaymentLapses,
      HandleWebhook, CancelBooking, RefuseCancellation, ReadBooking,
      CancellationFails, CreateBooking, FindFlight, FlightUnavailable,
      ReadFreeze, UseFreeze, CreateMockPayment, OpenPayment, PaymentReply,
      PaymentError, RequestFails

\* createBooking and cancelBooking implement the contract: a booking sold with
\* CFAR is paid out before it is closed and stays closed, for every number of
\* calls that overlap, repeat or die.
THEOREM Implements == Spec => ImplementsContract
<1>1. Init => Abstract!Init
  <2> SUFFICES ASSUME Init PROVE Abstract!Init
    OBVIOUS
  <2>1. \A b \in Request : ContractOf(b) = "none"
    BY DEF Init, ContractOf, Booked
  <2>2. QED
    BY <2>1 DEF Abstract!Init, contracts
<1>2. TypeOK /\ CancellationInv /\ [Next]_vars
        => [Abstract!Next]_contracts
  BY StepMoves
<1>3. QED
  BY <1>1, <1>2, TypeCorrect, CancellationCorrect, PTL
  DEF Spec, ImplementsContract, Abstract!Spec
=============================================================================
