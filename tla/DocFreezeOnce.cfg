SPECIFICATION Spec
CONSTANTS
  Request = {r1, r2}
  Cancellation = {}
  Freeze = {f1}
  Alice = Alice
  Bob = Bob
  Bobs = {}
  NoFreeze = NoFreeze
  BuyerOf <- MCBuyerOf
  OwnerOf <- MCOwnerOf
  FrozenPrice <- MCFrozenPrice
  Price = {20000}
  ProtectionLists <- OneList
INVARIANT FreezeUsedOnce
