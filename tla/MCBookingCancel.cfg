SPECIFICATION FairSpec
CONSTANTS
  Request = {r1}
  Cancellation = {c1, c2, c3}
  Freeze = {f1}
  Alice = Alice
  Bob = Bob
  Bobs = {}
  NoFreeze = NoFreeze
  BuyerOf <- MCBuyerOf
  OwnerOf <- MCOwnerOf
  FrozenPrice <- MCFrozenPrice
  Price = {20000}
  ProtectionLists <- AllLists
INVARIANTS
  TypeOK
  CancelledIsVoided
  CfarHonoured
  CancellationInv
  ClaimIsRefund
PROPERTIES
  StatusMoves
  ProtectionMoves
  ImplementsContract
  RequestAnswered
  PayoutClosesBooking
