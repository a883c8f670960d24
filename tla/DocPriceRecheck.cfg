SPECIFICATION Spec
CONSTANTS
  Route = {r1}
  Date = {1, 2}
  Day = {0, 1, 2}
  MockDay <- MCMockDay
  Party = {1, 2}
  Fare = {200}
  Offer = {1}
  Slot = {1}
  Spread = {85}
  Id <- MCId
  AmadeusId <- MCAmadeusId
  CheapId <- MCCheapId
  LatestId <- MCLatestId
  MockId <- MCMockId
  MockPrice <- MCMockPrice
  Search = {s1, s2}
  Lookup <- MCLookup
  Page = {p1}
  Retries = 1
  NoFlight = NoFlight
INVARIANT PriceRechecked
