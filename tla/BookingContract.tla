-------------------------- MODULE BookingContract --------------------------
(***************************************************************************)
(* How the rows of Booking represent the contract of CfarContract.         *)
(***************************************************************************)
EXTENDS Booking

ContractOf(b) ==
  IF ~Booked(b) THEN "none"
  ELSE IF booking[b].status = "CANCELLED" THEN "closed"
  ELSE IF CfarRows(b) = {} THEN "uninsured"
  ELSE IF CfarRows(b) \cap PaidRows(b) = {} THEN "insured"
  ELSE "paid"

contracts == [b \in Request |-> ContractOf(b)]

Abstract == INSTANCE CfarContract WITH
  Contract <- Request,
  contract <- contracts

\* Every step of createBooking and cancelBooking sells, pays out or closes one
\* contract, or leaves all of them as they were.
ImplementsContract == Abstract!Spec
=============================================================================
