---------------------------- MODULE FlightSearch ----------------------------
(***************************************************************************)
(* The search of flights (packages/api/src/search): the Redis entries a    *)
(* search fills and a lookup by flight id scans, and the three sources a   *)
(* miss falls back along: Amadeus, Travelpayouts, generated flights.  The  *)
(* entry of a route and date is written without comparing, expires after   *)
(* half an hour, and is the only place a flight exists.                    *)
(***************************************************************************)
EXTENDS Integers, FiniteSets

CONSTANTS
  Route, Date,      \* what a cache key is made of
  Day,              \* days a flight departs on, in Moscow
  MockDay,          \* the day generated flights of a date depart on
  Party,            \* numbers of passengers
  Fare,             \* fares the providers may answer with, per passenger
  Offer,            \* numbers of offers in a provider's response
  Slot,             \* generated flights of a search
  Id, AmadeusId, CheapId, LatestId, MockId,   \* how each source names a flight
  MockPrice,        \* price of a generated flight, for a party
  Spread,           \* percents of the cheapest real fare generated flights go for
  Search, Lookup,   \* calls of searchFlights; calls that look a flight up by id
  NoFlight

Key == [route: Route, date: Date]

\* The key of a flight is the route it is labelled with and the date it was asked for.
Flight == [id: Id, key: Key, day: Day, price: Nat]

ASSUME SearchAssumption ==
  /\ Party \subseteq Nat \ {0} /\ Fare \subseteq Nat \ {0}
  /\ Spread \subseteq 85..134
  /\ Date \subseteq Day /\ MockDay \in [Date -> Day]
  /\ AmadeusId \in [Offer -> Id]
  /\ CheapId \in [Offer \X Date -> Id]
  /\ LatestId \in [Date \X Fare -> Id]
  /\ MockId \in [Key \X Slot -> Id]
  /\ Key # {} /\ Party # {} /\ Id # {}
  /\ MockPrice \in [Key \X Slot \X Party -> Nat]
  /\ NoFlight \notin Flight

\* The sources name their flights apart, and a response names its own apart.  A
\* generated id is a hash of flight number, date and slot; it is taken to tell dates
\* and slots apart, but two routes may come by the same flight number.
ASSUME IdAssumption ==
  /\ \A o, q \in Offer : AmadeusId[o] = AmadeusId[q] => o = q
  /\ \A x, y \in Key \X Slot :
       MockId[x] = MockId[y] => x[1].date = y[1].date /\ x[2] = y[2]
  /\ \A x \in Key \X Slot :
       /\ \A o \in Offer : AmadeusId[o] # MockId[x]
       /\ \A c \in Offer \X Date : CheapId[c] # MockId[x]
       /\ \A e \in Date \X Fare : LatestId[e] # MockId[x]
  /\ \A c \in Offer \X Date, e \in Date \X Fare : CheapId[c] # LatestId[e]

VARIABLES
  cache,        \* Redis search:*, {} is no entry
  token,        \* AmadeusService.token: usable for another minute, or not
  sources,      \* the providers with credentials, read at start
  step, asked, party, answer,   \* calls of searchFlights
  scan, wanted, left, got,      \* calls of getFlightById and findFlightInCache
  held          \* history: keys that have held the wanted id since the scan began

searchVars == <<token, sources, step, asked, party, answer>>
lookupVars == <<scan, wanted, left, got>>
fsVars == <<cache, held, searchVars, lookupVars>>

\* What a slot holds that no call uses.
AnyKey == CHOOSE k \in Key : TRUE
AnyParty == CHOOSE n \in Party : TRUE
AnyId == CHOOSE i \in Id : TRUE

Steps == {"idle", "token", "offers", "prices", "store"}

FSTypeOK ==
  /\ cache \in [Key -> SUBSET Flight]
  /\ token \in {"none", "usable"} /\ sources \subseteq {"amadeus", "travelpayouts"}
  /\ step \in [Search -> Steps] /\ asked \in [Search -> Key] /\ party \in [Search -> Party]
  /\ answer \in [Search -> SUBSET Flight]
  /\ scan \in [Lookup -> {"idle", "scanning", "found", "missing", "error"}]
  /\ wanted \in [Lookup -> Id] /\ left \in [Lookup -> SUBSET Key]
  /\ got \in [Lookup -> Flight \cup {NoFlight}] /\ held \in [Lookup -> SUBSET Key]

FSInit ==
  /\ cache = [k \in Key |-> {}] /\ token = "none"
  /\ sources \in SUBSET {"amadeus", "travelpayouts"}
  /\ step = [s \in Search |-> "idle"]
  /\ asked = [s \in Search |-> AnyKey] /\ party = [s \in Search |-> AnyParty]
  /\ answer = [s \in Search |-> {}]
  /\ scan = [l \in Lookup |-> "idle"] /\ wanted = [l \in Lookup |-> AnyId]
  /\ left = [l \in Lookup |-> {}] /\ got = [l \in Lookup |-> NoFlight]
  /\ held = [l \in Lookup |-> {}]

-----------------------------------------------------------------------------
(* The three sources                                                       *)

Cheapest(F) == CHOOSE p \in {f.price : f \in F} : \A f \in F : p <= f.price

\* Math.round(realPrice * (0.85 + Math.random() * 0.5)).
Around(p) == {(x * p + 50) \div 100 : x \in Spread}

Generated(id, k, price) ==
  [id |-> id, key |-> k, day |-> MockDay[k.date], price |-> price]

\* As MockFlights, of a seed that leaves out the day.
MockFlightsAnyDay(k, n) == {Generated(MockId[<<AnyKey, i>>], k, MockPrice[<<k, i, n>>]) : i \in Slot}

\* The same identifiers and prices whenever one party asks on one day.  The hour is
\* set in the server's time zone, on midnight in Moscow's.
MockFlights(k, n) == {Generated(MockId[<<k, i>>], k, MockPrice[<<k, i, n>>]) : i \in Slot}

\* Offers are numbered anew in every response; the total is the party's.
AmadeusFlights(k, n, fare) ==
  {[id |-> AmadeusId[o], key |-> k, day |-> k.date, price |-> fare[o] * n] : o \in DOMAIN fare}

\* toFlightResult: the fare is one passenger's, whatever the party.
CheapFlight(k, e) == [id |-> CheapId[<<e[1], e[2]>>], key |-> k, day |-> e[2], price |-> e[3]]

\* The entries of /v1/prices/cheap of the wanted day.
CheapFlights(k, E) == {CheapFlight(k, e) : e \in {x \in E : x[2] = k.date}}

\* As LatestFlights, of every day of the month.
LatestOfMonth(k, n, E) ==
  {[id |-> LatestId[<<e[1], e[2]>>], key |-> k, day |-> e[1], price |-> e[2] * n]
     : e \in E}

\* An entry of /v2/prices/latest, which answers for the month, of the wanted day.
LatestFlights(k, n, E) ==
  {[id |-> LatestId[<<e[1], e[2]>>], key |-> k, day |-> e[1], price |-> e[2] * n]
     : e \in {x \in E : x[1] = k.date}}

\* Real flights and the generated ones, priced around the cheapest real one.
Supplement(T, k, price) ==
  T \cup {Generated(MockId[<<k, i>>], k, price[i]) : i \in Slot}

AtMostOne(S) == {{}} \cup {{x} : x \in S}

-----------------------------------------------------------------------------
(* searchFlights: a hit answers what is under the key and changes nothing. *)

\* Where a search goes that Amadeus has given nothing.
AfterAmadeus(s, k, n) ==
  IF "travelpayouts" \in sources
  THEN step' = [step EXCEPT ![s] = "prices"] /\ UNCHANGED answer
  ELSE /\ step' = [step EXCEPT ![s] = "store"]
       /\ answer' = [answer EXCEPT ![s] = MockFlights(k, n)]

\* Nothing under the key, or Redis threw, which counts as nothing.  The token is
\* compared with the clock before the first await.
SearchMiss(s) ==
  /\ step[s] = "idle"
  /\ \E k \in Key, n \in Party :
       /\ asked' = [asked EXCEPT ![s] = k] /\ party' = [party EXCEPT ![s] = n]
       /\ IF "amadeus" \in sources
          THEN /\ step' = [step EXCEPT ![s] = IF token = "usable" THEN "offers" ELSE "token"]
               /\ UNCHANGED answer
          ELSE AfterAmadeus(s, k, n)
  /\ UNCHANGED <<cache, held, token, sources, lookupVars>>

\* Searches that find no usable token each fetch one.
GetToken(s) ==
  /\ step[s] = "token"
  /\ \/ /\ token' = "usable"
        /\ step' = [step EXCEPT ![s] = "offers"] /\ UNCHANGED answer
     \/ AfterAmadeus(s, asked[s], party[s]) /\ UNCHANGED token
  /\ UNCHANGED <<cache, held, sources, asked, party, lookupVars>>

\* An error, a timeout and an empty response are all "no results".
AmadeusAnswers(s) ==
  /\ step[s] = "offers"
  /\ \/ \E O \in SUBSET Offer \ {{}} : \E fare \in [O -> Fare] :
          /\ answer' = [answer EXCEPT ![s] = AmadeusFlights(asked[s], party[s], fare)]
          /\ step' = [step EXCEPT ![s] = "store"]
     \/ AfterAmadeus(s, asked[s], party[s])
  /\ UNCHANGED <<cache, held, token, sources, asked, party, lookupVars>>

\* Each endpoint answers or fails on its own (allSettled); a failure is no entries.
TravelpayoutsAnswers(s) ==
  /\ step[s] = "prices"
  /\ \E cheap \in AtMostOne(Offer \X Date \X Fare), latest \in AtMostOne(Date \X Fare) :
       LET T == CheapFlights(asked[s], cheap)
                  \cup LatestFlights(asked[s], party[s], latest)
       IN IF T = {}
          THEN answer' = [answer EXCEPT ![s] = MockFlights(asked[s], party[s])]
          ELSE \E price \in [Slot -> Around(Cheapest(T))] :
                 answer' = [answer EXCEPT ![s] = Supplement(T, asked[s], price)]
  /\ step' = [step EXCEPT ![s] = "store"]
  /\ UNCHANGED <<cache, held, token, sources, asked, party, lookupVars>>

\* The keys whose entry in c names the flight i.
Holding(c, i) == {k \in Key : \E f \in c[k] : f.id = i}

\* What every change of an entry does to the history of the scans under way.
Keep(c) == held' = [l \in Lookup |-> held[l] \cap Holding(c, wanted[l])]

StoredUnder(s) == asked[s]

\* setex, whatever is there by now; an error of Redis is swallowed.  The client has
\* its answer, and the slot is free for another call.
StoreResult(s) ==
  /\ step[s] = "store"
  /\ \/ cache' = [cache EXCEPT ![StoredUnder(s)] = answer[s]] /\ Keep(cache')
     \/ UNCHANGED <<cache, held>>
  /\ step' = [step EXCEPT ![s] = "idle"] /\ answer' = [answer EXCEPT ![s] = {}]
  /\ asked' = [asked EXCEPT ![s] = AnyKey] /\ party' = [party EXCEPT ![s] = AnyParty]
  /\ UNCHANGED <<token, sources, lookupVars>>

EntryExpires(k) ==
  /\ cache[k] # {}
  /\ cache' = [cache EXCEPT ![k] = {}] /\ Keep(cache')
  /\ UNCHANGED <<searchVars, lookupVars>>

TokenExpires ==
  /\ token = "usable" /\ token' = "none"
  /\ UNCHANGED <<cache, held, sources, step, asked, party, answer, lookupVars>>

-----------------------------------------------------------------------------
(* getFlightById, and findFlightInCache of createBooking                   *)

\* keys('search:*'): the entries there are now.
StartScan(l, i) ==
  LET present == {k \in Key : cache[k] # {}}
  IN /\ scan' = [scan EXCEPT ![l] = "scanning"] /\ wanted' = [wanted EXCEPT ![l] = i]
     /\ left' = [left EXCEPT ![l] = present] /\ got' = [got EXCEPT ![l] = NoFlight]
     /\ held' = [held EXCEPT ![l] = present \cap Holding(cache, i)]
     /\ UNCHANGED <<cache, searchVars>>

\* The caller has its flight, null or error, and the slot is free.
EndScan(l) ==
  /\ scan' = [scan EXCEPT ![l] = "idle"] /\ wanted' = [wanted EXCEPT ![l] = AnyId]
  /\ left' = [left EXCEPT ![l] = {}] /\ got' = [got EXCEPT ![l] = NoFlight]
  /\ held' = [held EXCEPT ![l] = {}]
  /\ UNCHANGED <<cache, searchVars>>

\* One entry after the other, in no order Redis promises; one that has expired
\* since, or does not name the flight, is passed over.
ScanKey(l) ==
  /\ scan[l] = "scanning"
  /\ \E k \in left[l] :
       \/ /\ \E f \in cache[k] : f.id = wanted[l] /\ got' = [got EXCEPT ![l] = f]
          /\ scan' = [scan EXCEPT ![l] = "found"] /\ UNCHANGED left
       \/ /\ \A f \in cache[k] : f.id # wanted[l]
          /\ left' = [left EXCEPT ![l] = @ \ {k}] /\ UNCHANGED <<scan, got>>
  /\ UNCHANGED <<cache, held, wanted, searchVars>>

\* As ScanEnds, giving up at the first entry that has expired.
ScanGivesUp(l) ==
  /\ scan[l] = "scanning" /\ (left[l] = {} \/ \E k \in left[l] : cache[k] = {})
  /\ scan' = [scan EXCEPT ![l] = "missing"]
  /\ UNCHANGED <<cache, held, wanted, left, got, searchVars>>

ScanEnds(l) ==
  /\ scan[l] = "scanning" /\ left[l] = {}
  /\ scan' = [scan EXCEPT ![l] = "missing"]
  /\ UNCHANGED <<cache, held, wanted, left, got, searchVars>>

\* Redis throws: the lookup says null, as if there were no such flight.
ScanFails(l) ==
  /\ scan[l] = "scanning"
  /\ scan' = [scan EXCEPT ![l] = "error"]
  /\ UNCHANGED <<cache, held, wanted, left, got, searchVars>>

-----------------------------------------------------------------------------
SearchRuns(s) ==
  GetToken(s) \/ AmadeusAnswers(s) \/ TravelpayoutsAnswers(s) \/ StoreResult(s)
ScanRuns(l) == ScanKey(l) \/ ScanEnds(l) \/ ScanFails(l)

FSNext ==
  \/ \E s \in Search : SearchMiss(s) \/ SearchRuns(s)
  \/ \E k \in Key : EntryExpires(k)
  \/ TokenExpires
  \/ \E l \in Lookup : ScanRuns(l)

-----------------------------------------------------------------------------
(* Properties                                                              *)

Fits(f, k) ==
  /\ f.key = k
  /\ \/ f.day = k.date
     \/ f.day = MockDay[k.date] /\ \E i \in Slot : f.id = MockId[<<k, i>>]

\* What is under a key, and what a search of it answers, was found for its route and
\* departs on its day, whichever source it came from: the month of prices
\* Travelpayouts answers with does not leak into one day's results.  Generated flights
\* are the exception: in a time zone west of Moscow's they depart the day before.
ResultsFitKey ==
  /\ \A k \in Key : \A f \in cache[k] : Fits(f, k)
  /\ \A s \in Search : \A f \in answer[s] : Fits(f, asked[s])

\* A scan during which entries expire and are written again says "no such
\* flight" only if no entry has named the flight all along.
ScanFindsHeld == \A l \in Lookup : scan[l] = "missing" => held[l] = {}
=============================================================================
