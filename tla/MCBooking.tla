----------------------------- MODULE MCBooking -----------------------------
(***************************************************************************)
(* Instances of Booking.  Two users exist; the calls and freezes in Bobs   *)
(* are Bob's, all others Alice's.  The frozen price lies below the listed  *)
(* price of 20000 and above that of 5000, where two are listed, so that a  *)
(* freeze helps or does not.                                               *)
(***************************************************************************)
EXTENDS BookingContract

CONSTANTS Alice, Bob, Bobs

MCBuyerOf ==
  [x \in Request \cup Cancellation |-> IF x \in Bobs THEN Bob ELSE Alice]

MCOwnerOf == [f \in Freeze |-> IF f \in Bobs THEN Bob ELSE Alice]

MCFrozenPrice == [f \in Freeze |-> 6000]

\* What the booking page can order, at one CFAR at most.
PageLists ==
  {<<>>, <<"cancel_for_any_reason">>,
   <<"price_drop", "cancel_for_any_reason">>}

OneList == {<<"price_drop", "cancel_for_any_reason">>}

\* Accepted by the DTO: the second entry becomes a CFAR row as well.
TwoCfarLists ==
  {<<"price_drop">>, <<"cancel_for_any_reason", "price_freeze">>,
   <<"cancel_for_any_reason", "price_drop", "cancel_for_any_reason">>}

AllLists == PageLists \cup TwoCfarLists
=============================================================================
