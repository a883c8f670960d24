SPECIFICATION Spec
CONSTANTS
  Request = {r1}
  Cancellation = {c1, c2}
  Freeze = {}
  Alice = Alice
  Bob = Bob
  Bobs = {}
  NoFreeze = NoFreeze
  BuyerOf <- MCBuyerOf
  OwnerOf <- MCOwnerOf
  FrozenPrice <- MCFrozenPrice
  Price = {20000}
  ProtectionLists <- TwoCfarLists
INVARIANT NoDoubleRefund
