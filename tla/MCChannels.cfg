SPECIFICATION ChannelsSpec
CONSTANTS
  MaxLength = 4
  Prices <- MCPrices
  ProtectionLists <- MCProtectionLists
  Departure <- MCDeparture
  DaysOut <- MCDaysOut
  MaxDays = 5
  DayPrice = {1500, 1600, 2400, 2500, 9000}
  Order = {o1, o2}
  Endpoint = {e1, e2}
  Send = {s1, s2}
  NoArray = NoArray
  Release = {1, 2, 3}
  Shell = {"/"}
  Other = {"p"}
  Tab = {t1}
  Freeze = {f1}
  Expires <- MCExpires
  Concurrency = 1
  LastDay = 4
  Chatter = {c1}
  Handler = {h1, h2}
  Received = {"start", "usage", "search", "add", "confirm", "freeze", "delete"}
  Window = 2
  LastTick = 3
  Airport = {a1, a2, a3}
  Nothing = Nothing
INVARIANTS
  LoopComputesPartialTotal
  ShownIsCharged
  CfarGivesFlightPriceBack
  CfarNeverWorse
  NeverWaitLate
  TiersOrdered
  AnswerMatches
  LossExplained
  NavigationAnswered
  ClaimsAreDone
  RateLimited
  SubmitsWhatItShows
PROPERTIES
  JobsHandled
  PassedIsAnswered
CHECK_DEADLOCK FALSE
