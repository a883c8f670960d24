SPECIFICATION Spec
CONSTANTS
  Request = {r1, r2}
  Cancellation = {c1}
  Freeze = {f1, f2}
  Alice = Alice
  Bob = Bob
  Bobs = {f2}
  NoFreeze = NoFreeze
  BuyerOf <- MCBuyerOf
  OwnerOf <- MCOwnerOf
  FrozenPrice <- MCFrozenPrice
  Price = {5000, 20000}
  ProtectionLists <- OneList
INVARIANTS
  LedgerBalanced
  DiscountNeedsFreeze
  PayableIsPending
