SPECIFICATION Spec
CONSTANTS
  Request = {r1}
  Cancellation = {}
  Freeze = {}
  Alice = Alice
  Bob = Bob
  Bobs = {}
  NoFreeze = NoFreeze
  BuyerOf <- MCBuyerOf
  OwnerOf <- MCOwnerOf
  FrozenPrice <- MCFrozenPrice
  Price = {20000}
  ProtectionLists <- OneList
INVARIANT ConfirmedIsPaid
