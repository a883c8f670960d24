------------------------------ MODULE Pricing ------------------------------
(***************************************************************************)
(* The price arithmetic of packages/api/src/booking/booking.service.ts:    *)
(* what a protection costs, what a booking costs, what a cancellation      *)
(* refunds.  Prices are assumed to be whole roubles, with which            *)
(* Math.round(price * 0.12) and Math.round(total * 0.5) are integer        *)
(* divisions.  Most producers of flights round to them                     *)
(* (search.service.ts:148,360, amadeus.service.ts:137,                     *)
(* travelpayouts.service.ts:169); travelpayouts.service.ts:292 passes a    *)
(* fare on as the provider quotes it, and frozen_price is a Decimal that   *)
(* keeps whatever the flight cost.  12 * price is never an odd multiple of *)
(* 50, so the premium has no rounding tie; the half refund has, and        *)
(* Math.round takes it up.                                                 *)
(***************************************************************************)
EXTENDS Integers, Sequences, FiniteSets

\* The protection names the DTO accepts (booking.dto.ts:49).
RequestedKind == {"cancel_for_any_reason", "price_drop", "price_freeze"}

\* The values of the database enum that toProtectionType can produce.
ProtectionType == {"CANCEL_FOR_ANY_REASON", "PRICE_DROP"}

\* Wrong variant: no fallback for "price_freeze".
ToProtectionTypeUnmapped(kind) ==
  CASE kind = "price_drop"            -> "PRICE_DROP"
    [] kind = "cancel_for_any_reason" -> "CANCEL_FOR_ANY_REASON"
    [] OTHER                          -> "PRICE_FREEZE"

\* "price_freeze" falls back to CANCEL_FOR_ANY_REASON.
ToProtectionType(kind) ==
  IF kind = "price_drop" THEN "PRICE_DROP" ELSE "CANCEL_FOR_ANY_REASON"

Clamp(low, high, x) ==
  CASE x < low  -> low
    [] x > high -> high
    [] OTHER    -> x

\* Wrong variant: the lower clamp is off.
CfarPremiumHighFloor(price) == Clamp(2000, 5000, (12 * price + 50) \div 100)

CfarPremium(price) == Clamp(1500, 5000, (12 * price + 50) \div 100)

PriceDropPremium == 1500

\* What one entry of dto.protections costs; "price_freeze" is free.
Premium(kind, price) ==
  CASE kind = "cancel_for_any_reason" -> CfarPremium(price)
    [] kind = "price_drop"            -> PriceDropPremium
    [] OTHER                          -> 0

\* What one entry promises to cover, as the response states it.
Coverage(kind, price) ==
  CASE kind = "cancel_for_any_reason" -> price
    [] kind = "price_drop"            -> (price + 1) \div 2
    [] OTHER                          -> 0

\* How many of the first n entries of dto.protections ask for kind.
CountOf(kind, list, n) == Cardinality({i \in 1 .. n : list[i] = kind})

\* The accumulator of the protection loop after its first n entries.  The
\* premium depends on the kind alone, so the sum is a count per kind.
PartialTotal(list, price, n) ==
  CountOf("cancel_for_any_reason", list, n) * CfarPremium(price)
    + CountOf("price_drop", list, n) * PriceDropPremium

ProtectionTotal(list, price) == PartialTotal(list, price, Len(list))

TotalPrice(list, price) == price + ProtectionTotal(list, price)

\* Wrong variant: the premium is deducted once more.
CfarRefundDeductedTwice(total, premium) == total - 2 * premium

\* The refund of a cancellation that finds an active CFAR, and of one that
\* does not.
CfarRefund(total, premium) == total - premium

AirlineRefund(total) == (total + 1) \div 2
=============================================================================
