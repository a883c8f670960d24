-------------------------- MODULE StorefrontProofs --------------------------
(***************************************************************************)
(* Theorems about Storefront, for any routes, dates, offers, fares, pages  *)
(* and calls: the types, what the search cache holds, what a scan of it    *)
(* finds, and what a buyer is charged.                                     *)
(***************************************************************************)
EXTENDS Storefront, TLAPS

-----------------------------------------------------------------------------
(* The flights of the sources                                              *)

\* The slots no call uses hold values of their types.
LEMMA AnyType == AnyKey \in Key /\ AnyParty \in Party /\ AnyId \in Id
BY SearchAssumption DEF AnyKey, AnyParty, AnyId

\* A fare for a party, and a share of a price, are natural numbers.
LEMMA Product == \A a, b \in Nat : a * b \in Nat
OBVIOUS

LEMMA Percent == \A a \in Nat : (a + 50) \div 100 \in Nat
BY SMT

LEMMA AroundNat == ASSUME NEW p \in Nat PROVE Around(p) \subseteq Nat
<1>1. ASSUME NEW x \in Spread PROVE (x * p + 50) \div 100 \in Nat
  <2>1. x \in Nat
    BY SearchAssumption
  <2>2. x * p \in Nat
    BY <2>1, Product
  <2> QED
    BY <2>2, Percent
<1> QED
  BY <1>1 DEF Around

\* A generated flight is a flight.
LEMMA GeneratedType ==
  ASSUME NEW k \in Key, NEW i \in Id, NEW price \in Nat
  PROVE  Generated(i, k, price) \in Flight
<1>1. MockDay[k.date] \in Day
  BY SearchAssumption DEF Key
<1> QED
  BY <1>1 DEF Generated, Flight

LEMMA MockFlightsType ==
  ASSUME NEW k \in Key, NEW n \in Party PROVE MockFlights(k, n) \subseteq Flight
<1>1. ASSUME NEW i \in Slot PROVE Generated(MockId[<<k, i>>], k, MockPrice[<<k, i, n>>]) \in Flight
  <2>1. MockId[<<k, i>>] \in Id /\ MockPrice[<<k, i, n>>] \in Nat
    BY SearchAssumption
  <2> QED
    BY <2>1, GeneratedType
<1> QED
  BY <1>1 DEF MockFlights

LEMMA AmadeusFlightsType ==
  ASSUME NEW k \in Key, NEW n \in Party, NEW O \in SUBSET Offer, NEW fare \in [O -> Fare]
  PROVE  AmadeusFlights(k, n, fare) \subseteq Flight
<1>1. ASSUME NEW o \in O
      PROVE  [id |-> AmadeusId[o], key |-> k, day |-> k.date, price |-> fare[o] * n] \in Flight
  <2>1. AmadeusId[o] \in Id /\ k.date \in Day
    BY SearchAssumption DEF Key
  <2>2. fare[o] \in Nat /\ n \in Nat
    BY SearchAssumption
  <2>3. fare[o] * n \in Nat
    BY <2>2, Product
  <2> QED
    BY <2>1, <2>3 DEF Flight
<1> QED
  BY <1>1 DEF AmadeusFlights

LEMMA CheapFlightType ==
  ASSUME NEW k \in Key, NEW e \in Offer \X Date \X Fare
  PROVE  CheapFlight(k, e) \in Flight
<1>1. e[1] \in Offer /\ e[2] \in Date /\ e[3] \in Fare
  OBVIOUS
<1>2. CheapId[<<e[1], e[2]>>] \in Id /\ e[2] \in Day /\ e[3] \in Nat
  BY <1>1, SearchAssumption
<1> QED
  BY <1>2 DEF CheapFlight, Flight

LEMMA LatestFlightType ==
  ASSUME NEW k \in Key, NEW n \in Party, NEW e \in Date \X Fare
  PROVE  [id |-> LatestId[<<e[1], e[2]>>], key |-> k, day |-> e[1], price |-> e[2] * n] \in Flight
<1>1. e[1] \in Date /\ e[2] \in Fare
  OBVIOUS
<1>2. LatestId[<<e[1], e[2]>>] \in Id /\ e[1] \in Day /\ e[2] \in Nat /\ n \in Nat
  BY <1>1, SearchAssumption
<1>3. e[2] * n \in Nat
  BY <1>2, Product
<1> QED
  BY <1>2, <1>3 DEF Flight

\* The flights of the two endpoints of Travelpayouts.
Real(k, n, cheap, latest) == CheapFlights(k, cheap) \cup LatestFlights(k, n, latest)

\* There are at most two of them, so one is the cheapest.
LEMMA RealType ==
  ASSUME NEW k \in Key, NEW n \in Party,
         NEW cheap \in AtMostOne(Offer \X Date \X Fare), NEW latest \in AtMostOne(Date \X Fare)
  PROVE  /\ Real(k, n, cheap, latest) \subseteq Flight
         /\ Real(k, n, cheap, latest) # {} => Cheapest(Real(k, n, cheap, latest)) \in Nat
<1> DEFINE C == CheapFlights(k, cheap)
           L == LatestFlights(k, n, latest)
<1>1. C = {} \/ \E a \in Flight : C = {a}
  <2>1. CASE cheap = {}
    BY <2>1 DEF CheapFlights
  <2>2. CASE \E e \in Offer \X Date \X Fare : cheap = {e}
    <3>1. PICK e \in Offer \X Date \X Fare : cheap = {e}
      BY <2>2
    <3>2. CheapFlight(k, e) \in Flight
      BY CheapFlightType
    <3>3. C = {} \/ C = {CheapFlight(k, e)}
      BY <3>1 DEF CheapFlights
    <3> QED
      BY <3>2, <3>3
  <2> QED
    BY <2>1, <2>2 DEF AtMostOne
<1>2. L = {} \/ \E b \in Flight : L = {b}
  <2>1. CASE latest = {}
    BY <2>1 DEF LatestFlights
  <2>2. CASE \E e \in Date \X Fare : latest = {e}
    <3>1. PICK e \in Date \X Fare : latest = {e}
      BY <2>2
    <3> DEFINE b == [id |-> LatestId[<<e[1], e[2]>>], key |-> k, day |-> e[1], price |-> e[2] * n]
    <3>2. b \in Flight
      BY LatestFlightType
    <3>3. L = {} \/ L = {b}
      BY <3>1 DEF LatestFlights
    <3> QED
      BY <3>2, <3>3
  <2> QED
    BY <2>1, <2>2 DEF AtMostOne
<1>3. C \cup L \subseteq Flight
  BY <1>1, <1>2
<1>4. ASSUME C \cup L # {} PROVE Cheapest(C \cup L) \in Nat
  <2>1. \E f \in C \cup L : \A g \in C \cup L : f.price <= g.price
    <3>1. \A f \in C \cup L : f.price \in Nat
      BY <1>3 DEF Flight
    <3>2. CASE C = {} \/ L = {}
      BY <1>1, <1>2, <1>4, <3>1, <3>2
    <3>3. CASE \E a, b \in Flight : C = {a} /\ L = {b}
      <4>1. PICK a, b \in Flight : C = {a} /\ L = {b}
        BY <3>3
      <4>2. a.price \in Nat /\ b.price \in Nat
        BY DEF Flight
      <4>3. CASE a.price <= b.price
        BY <4>1, <4>2, <4>3
      <4>4. CASE b.price <= a.price
        BY <4>1, <4>2, <4>4
      <4> QED
        BY <4>2, <4>3, <4>4
    <3> QED
      BY <1>1, <1>2, <3>2, <3>3
  <2>2. \E p \in {f.price : f \in C \cup L} : \A f \in C \cup L : p <= f.price
    BY <2>1
  <2>3. Cheapest(C \cup L) \in {f.price : f \in C \cup L}
    BY <2>2 DEF Cheapest
  <2> QED
    BY <1>3, <2>3 DEF Flight
<1> QED
  BY <1>3, <1>4 DEF Real

LEMMA SupplementType ==
  ASSUME NEW T \in SUBSET Flight, NEW k \in Key, NEW price \in [Slot -> Nat]
  PROVE  Supplement(T, k, price) \subseteq Flight
<1>1. ASSUME NEW i \in Slot PROVE Generated(MockId[<<k, i>>], k, price[i]) \in Flight
  BY SearchAssumption, GeneratedType
<1> QED
  BY <1>1 DEF Supplement

-----------------------------------------------------------------------------
(* Types                                                                   *)

LEMMA InitTypeOK == Init => TypeOK
BY AnyType, SearchAssumption, StorefrontAssumption DEF Init, FSInit, TypeOK, FSTypeOK, Screens, Steps

\* A search Amadeus has given nothing goes on or takes generated flights.
LEMMA AfterAmadeusType ==
  ASSUME FSTypeOK, NEW s \in Search, NEW k \in Key, NEW n \in Party, AfterAmadeus(s, k, n)
  PROVE  step' \in [Search -> Steps] /\ answer' \in [Search -> SUBSET Flight]
<1>1. MockFlights(k, n) \in SUBSET Flight
  BY MockFlightsType
<1> QED
  BY <1>1 DEF AfterAmadeus, FSTypeOK, Steps

LEMMA SearchMissTypeOK ==
  ASSUME FSTypeOK, NEW s \in Search, SearchMiss(s) PROVE FSTypeOK'
<1>1. PICK k \in Key, n \in Party :
        /\ asked' = [asked EXCEPT ![s] = k] /\ party' = [party EXCEPT ![s] = n]
        /\ IF "amadeus" \in sources
           THEN /\ step' = [step EXCEPT ![s] = IF token = "usable" THEN "offers" ELSE "token"]
                /\ UNCHANGED answer
           ELSE AfterAmadeus(s, k, n)
  BY DEF SearchMiss
<1>2. asked' \in [Search -> Key] /\ party' \in [Search -> Party]
  BY <1>1 DEF FSTypeOK
<1>3. step' \in [Search -> Steps] /\ answer' \in [Search -> SUBSET Flight]
  BY <1>1, AfterAmadeusType DEF FSTypeOK, Steps
<1> QED
  BY <1>2, <1>3 DEF FSTypeOK, SearchMiss, lookupVars

LEMMA GetTokenTypeOK ==
  ASSUME FSTypeOK, NEW s \in Search, GetToken(s) PROVE FSTypeOK'
<1>1. asked[s] \in Key /\ party[s] \in Party
  BY DEF FSTypeOK
<1>2. step' \in [Search -> Steps] /\ answer' \in [Search -> SUBSET Flight]
  BY <1>1, AfterAmadeusType DEF FSTypeOK, Steps, GetToken
<1> QED
  BY <1>2 DEF FSTypeOK, GetToken, lookupVars

LEMMA AmadeusAnswersTypeOK ==
  ASSUME FSTypeOK, NEW s \in Search, AmadeusAnswers(s) PROVE FSTypeOK'
<1>1. asked[s] \in Key /\ party[s] \in Party
  BY DEF FSTypeOK
<1>2. step' \in [Search -> Steps] /\ answer' \in [Search -> SUBSET Flight]
  <2>1. CASE AfterAmadeus(s, asked[s], party[s])
    BY <1>1, <2>1, AfterAmadeusType
  <2>2. ASSUME NEW O \in SUBSET Offer, NEW fare \in [O -> Fare],
               answer' = [answer EXCEPT ![s] = AmadeusFlights(asked[s], party[s], fare)],
               step' = [step EXCEPT ![s] = "store"]
        PROVE  step' \in [Search -> Steps] /\ answer' \in [Search -> SUBSET Flight]
    <3>1. AmadeusFlights(asked[s], party[s], fare) \in SUBSET Flight
      BY <1>1, AmadeusFlightsType
    <3> QED
      BY <2>2, <3>1 DEF FSTypeOK, Steps
  <2> QED
    BY <2>1, <2>2 DEF AmadeusAnswers
<1> QED
  BY <1>2 DEF FSTypeOK, AmadeusAnswers, lookupVars

LEMMA TravelpayoutsAnswersTypeOK ==
  ASSUME FSTypeOK, NEW s \in Search, TravelpayoutsAnswers(s) PROVE FSTypeOK'
<1>1. asked[s] \in Key /\ party[s] \in Party
  BY DEF FSTypeOK
<1>2. PICK cheap \in AtMostOne(Offer \X Date \X Fare), latest \in AtMostOne(Date \X Fare) :
        LET T == Real(asked[s], party[s], cheap, latest)
        IN IF T = {}
           THEN answer' = [answer EXCEPT ![s] = MockFlights(asked[s], party[s])]
           ELSE \E price \in [Slot -> Around(Cheapest(T))] :
                  answer' = [answer EXCEPT ![s] = Supplement(T, asked[s], price)]
  BY DEF TravelpayoutsAnswers, Real
<1> DEFINE T == Real(asked[s], party[s], cheap, latest)
<1>3. T \subseteq Flight /\ (T # {} => Cheapest(T) \in Nat)
  BY <1>1, RealType
<1>4. answer' \in [Search -> SUBSET Flight]
  <2>1. CASE T = {}
    <3>1. MockFlights(asked[s], party[s]) \in SUBSET Flight
      BY <1>1, MockFlightsType
    <3> QED
      BY <1>2, <2>1, <3>1 DEF FSTypeOK
  <2>2. CASE T # {}
    <3>1. PICK price \in [Slot -> Around(Cheapest(T))] :
            answer' = [answer EXCEPT ![s] = Supplement(T, asked[s], price)]
      BY <1>2, <2>2
    <3>2. price \in [Slot -> Nat]
      <4>1. Around(Cheapest(T)) \subseteq Nat
        BY <1>3, <2>2, AroundNat
      <4> QED
        BY <4>1
    <3>3. Supplement(T, asked[s], price) \in SUBSET Flight
      BY <1>1, <1>3, <3>2, SupplementType
    <3> QED
      BY <3>1, <3>3 DEF FSTypeOK
  <2> QED
    BY <2>1, <2>2
<1>5. step' \in [Search -> Steps]
  BY DEF FSTypeOK, TravelpayoutsAnswers, Steps
<1> QED
  BY <1>4, <1>5 DEF FSTypeOK, TravelpayoutsAnswers, lookupVars

LEMMA StoreResultTypeOK ==
  ASSUME FSTypeOK, NEW s \in Search, StoreResult(s) PROVE FSTypeOK'
<1>1. cache' \in [Key -> SUBSET Flight] /\ held' \in [Lookup -> SUBSET Key]
  BY DEF FSTypeOK, StoreResult, Keep, StoredUnder
<1>2. /\ step' \in [Search -> Steps] /\ answer' \in [Search -> SUBSET Flight]
      /\ asked' \in [Search -> Key] /\ party' \in [Search -> Party]
  BY AnyType DEF FSTypeOK, StoreResult, Steps
<1> QED
  BY <1>1, <1>2 DEF FSTypeOK, StoreResult, lookupVars

LEMMA ExpiryTypeOK ==
  ASSUME FSTypeOK, TokenExpires \/ \E k \in Key : EntryExpires(k) PROVE FSTypeOK'
<1>1. CASE TokenExpires
  BY <1>1 DEF FSTypeOK, TokenExpires, lookupVars
<1>2. ASSUME NEW k \in Key, EntryExpires(k) PROVE FSTypeOK'
  <2>1. cache' \in [Key -> SUBSET Flight] /\ held' \in [Lookup -> SUBSET Key]
    BY <1>2 DEF FSTypeOK, EntryExpires, Keep
  <2> QED
    BY <1>2, <2>1 DEF FSTypeOK, EntryExpires, searchVars, lookupVars
<1> QED
  BY <1>1, <1>2

LEMMA StartScanTypeOK ==
  ASSUME FSTypeOK, NEW l \in Lookup, NEW i \in Id, StartScan(l, i) PROVE FSTypeOK'
<1>1. {k \in Key : cache[k] # {}} \in SUBSET Key
  OBVIOUS
<1> QED
  BY <1>1 DEF FSTypeOK, StartScan, searchVars

LEMMA EndScanTypeOK ==
  ASSUME FSTypeOK, NEW l \in Lookup, EndScan(l) PROVE FSTypeOK'
BY AnyType DEF FSTypeOK, EndScan, searchVars

LEMMA ScanTypeOK ==
  ASSUME FSTypeOK, NEW l \in Lookup, ScanRuns(l) PROVE FSTypeOK'
<1>1. CASE ScanKey(l)
  <2>1. got' \in [Lookup -> Flight \cup {NoFlight}]
    <3>1. PICK k \in left[l] :
            \/ /\ \E f \in cache[k] : f.id = wanted[l] /\ got' = [got EXCEPT ![l] = f]
            \/ UNCHANGED got
      BY <1>1 DEF ScanKey
    <3>2. k \in Key
      BY <3>1 DEF FSTypeOK
    <3>3. cache[k] \subseteq Flight
      BY <3>2 DEF FSTypeOK
    <3> QED
      BY <3>1, <3>3 DEF FSTypeOK
  <2>2. scan' \in [Lookup -> {"idle", "scanning", "found", "missing", "error"}]
        /\ left' \in [Lookup -> SUBSET Key]
    BY <1>1 DEF FSTypeOK, ScanKey
  <2> QED
    BY <1>1, <2>1, <2>2 DEF FSTypeOK, ScanKey, searchVars
<1>2. CASE ScanEnds(l) \/ ScanFails(l)
  BY <1>2 DEF FSTypeOK, ScanEnds, ScanFails, searchVars
<1> QED
  BY <1>1, <1>2 DEF ScanRuns

\* A step of the API keeps its types.
LEMMA FSNextTypeOK == ASSUME FSTypeOK, FSNext PROVE FSTypeOK'
BY SearchMissTypeOK, GetTokenTypeOK, AmadeusAnswersTypeOK, TravelpayoutsAnswersTypeOK,
   StoreResultTypeOK, ExpiryTypeOK, ScanTypeOK
   DEF FSNext, SearchRuns

\* The two calls of a page are lookups of its own.
LEMMA PageLookups ==
  ASSUME NEW p \in Page
  PROVE  /\ View(p) \in Lookup /\ Order(p) \in Lookup
         /\ \A q \in Page : View(p) # Order(q) /\ (q # p => View(p) # View(q) /\ Order(p) # Order(q))
BY StorefrontAssumption DEF View, Order

\* What a call of a lookup does to the others.
LEMMA OtherLookups ==
  ASSUME FSTypeOK, NEW l \in Lookup, NEW m \in Lookup, m # l, NEW i \in Id,
         StartScan(l, i) \/ EndScan(l) \/ ScanRuns(l)
  PROVE  scan'[m] = scan[m] /\ got'[m] = got[m] /\ wanted'[m] = wanted[m]
<1>1. CASE StartScan(l, i) \/ EndScan(l)
  BY <1>1 DEF FSTypeOK, StartScan, EndScan
<1>2. CASE ScanKey(l)
  BY <1>2 DEF FSTypeOK, ScanKey
<1>3. CASE ScanEnds(l) \/ ScanFails(l)
  BY <1>3 DEF FSTypeOK, ScanEnds, ScanFails
<1> QED
  BY <1>1, <1>2, <1>3 DEF ScanRuns

\* A step of a scan finds a flight of an entry of the cache under the wanted name,
\* or finds none.
LEMMA ScanStep ==
  ASSUME FSTypeOK, NEW l \in Lookup, ScanRuns(l)
  PROVE  /\ cache' = cache /\ wanted' = wanted /\ scan[l] = "scanning"
         /\ \/ /\ scan'[l] = "found"
               /\ \E k \in Key : got'[l] \in cache[k] /\ got'[l].id = wanted[l]
            \/ scan'[l] # "found" /\ scan'[l] # "idle"
<1>1. CASE ScanKey(l)
  <2>1. PICK k \in left[l] :
          \/ /\ \E f \in cache[k] : f.id = wanted[l] /\ got' = [got EXCEPT ![l] = f]
             /\ scan' = [scan EXCEPT ![l] = "found"]
          \/ UNCHANGED scan
    BY <1>1 DEF ScanKey
  <2>2. k \in Key
    BY <2>1 DEF FSTypeOK
  <2>3. CASE /\ \E f \in cache[k] : f.id = wanted[l] /\ got' = [got EXCEPT ![l] = f]
             /\ scan' = [scan EXCEPT ![l] = "found"]
    <3>1. scan'[l] = "found"
      BY <2>3 DEF FSTypeOK
    <3>2. \E f \in cache[k] : f.id = wanted[l] /\ got'[l] = f
      BY <2>3 DEF FSTypeOK
    <3> QED
      BY <1>1, <2>2, <3>1, <3>2 DEF ScanKey
  <2>4. CASE UNCHANGED scan
    BY <1>1, <2>4 DEF ScanKey
  <2> QED
    BY <2>1, <2>3, <2>4
<1>2. CASE ScanEnds(l) \/ ScanFails(l)
  BY <1>2 DEF FSTypeOK, ScanEnds, ScanFails
<1> QED
  BY <1>1, <1>2 DEF ScanRuns

\* Steps of the API other than those of a scan leave the scans alone.
LEMMA SearchSteps ==
  ASSUME FSNext, ~ \E l \in Lookup : ScanRuns(l)
  PROVE  UNCHANGED lookupVars
BY DEF FSNext, SearchMiss, SearchRuns, GetToken, AmadeusAnswers, TravelpayoutsAnswers,
       StoreResult, EntryExpires, TokenExpires, lookupVars

\* The form shows a flight: what makes the types inductive, as the order asks for
\* its id.
FormShows ==
  \A p \in Page :
    /\ screen[p] \in {"form", "sending"} => shown[p] \in Flight
    /\ scan[View(p)] = "found" => got[View(p)] \in Flight

LEMMA ApiStepTypeOK ==
  ASSUME TypeOK, FormShows, ApiStep PROVE TypeOK' /\ FormShows'
<1>1. changed' \in [Page -> BOOLEAN]
  BY DEF TypeOK, ApiStep, Touched
<1>2. TypeOK'
  BY <1>1, FSNextTypeOK DEF TypeOK, ApiStep, pageVars
<1>3. ASSUME NEW p \in Page, scan'[View(p)] = "found" PROVE got'[View(p)] \in Flight
  <2>1. CASE UNCHANGED lookupVars
    BY <1>3, <2>1 DEF FormShows, lookupVars
  <2>2. ASSUME NEW l \in Lookup, ScanRuns(l) PROVE got'[View(p)] \in Flight
    <3>1. CASE l = View(p)
      <4>1. PICK k \in Key : got'[l] \in cache[k]
        BY <1>3, <2>2, <3>1, ScanStep DEF TypeOK
      <4> QED
        BY <3>1, <4>1 DEF TypeOK, FSTypeOK
    <3>2. CASE l # View(p)
      <4>1. scan'[View(p)] = scan[View(p)] /\ got'[View(p)] = got[View(p)]
        BY <2>2, <3>2, AnyType, PageLookups, OtherLookups DEF TypeOK
      <4> QED
        BY <1>3, <4>1 DEF FormShows
    <3> QED
      BY <3>1, <3>2
  <2> QED
    BY <2>1, <2>2, SearchSteps DEF ApiStep
<1>4. FormShows'
  BY <1>3 DEF FormShows, ApiStep, pageVars, View
<1> QED
  BY <1>2, <1>4

LEMMA PageTypeOK ==
  ASSUME TypeOK, FormShows, NEW p \in Page, OpenBooking(p) \/ Submit(p) \/ Reacts(p)
  PROVE  TypeOK'
<1> USE PageLookups
<1>1. CASE OpenBooking(p)
  <2>1. FSTypeOK'
    BY <1>1, StartScanTypeOK DEF TypeOK, OpenBooking
  <2> QED
    BY <1>1, <2>1, StorefrontAssumption DEF TypeOK, OpenBooking, Go, Screens
<1>2. CASE FlightLoads(p)
  <2>1. FSTypeOK'
    BY <1>2, EndScanTypeOK DEF TypeOK, FlightLoads
  <2>2. got[View(p)] \in Flight \cup {NoFlight}
    BY DEF TypeOK, FSTypeOK
  <2> QED
    BY <1>2, <2>1, <2>2 DEF TypeOK, FlightLoads, Go, Screens
<1>3. CASE LoadFails(p)
  <2>1. FSTypeOK'
    <3>1. wanted[View(p)] \in Id
      BY DEF TypeOK, FSTypeOK
    <3> QED
      BY <1>3, <3>1, StartScanTypeOK, EndScanTypeOK DEF TypeOK, LoadFails
  <2>2. tries' \in [Page -> 0..Retries]
    BY <1>3, StorefrontAssumption DEF TypeOK, LoadFails
  <2> QED
    BY <1>3, <2>1, <2>2 DEF TypeOK, LoadFails, Go, Screens
<1>4. CASE OrderTaken(p)
  <2>1. FSTypeOK'
    BY <1>4, EndScanTypeOK DEF TypeOK, OrderTaken
  <2> QED
    BY <1>4, <2>1 DEF TypeOK, OrderTaken, Go, Screens
<1>5. CASE OrderFails(p)
  <2>1. FSTypeOK'
    BY <1>5, EndScanTypeOK DEF TypeOK, OrderFails
  <2> QED
    BY <1>5, <2>1 DEF TypeOK, OrderFails, Go, Screens
<1>6. CASE Submit(p)
  <2>1. shown[p].id \in Id
    BY <1>6 DEF FormShows, Submit, Flight
  <2>2. FSTypeOK'
    BY <1>6, <2>1, StartScanTypeOK DEF TypeOK, Submit
  <2> QED
    BY <1>6, <2>2 DEF TypeOK, Submit, Go, Screens
<1> QED
  BY <1>1, <1>2, <1>3, <1>4, <1>5, <1>6 DEF Reacts

\* Every step of a page begins or ends one of its lookups.
LEMMA PageCalls ==
  ASSUME TypeOK, FormShows, NEW p \in Page, OpenBooking(p) \/ Submit(p) \/ Reacts(p)
  PROVE  \E l \in {View(p), Order(p)}, i \in Id : StartScan(l, i) \/ EndScan(l)
<1>1. CASE OpenBooking(p)
  BY <1>1 DEF OpenBooking
<1>2. CASE Submit(p)
  BY <1>2 DEF Submit, FormShows, Flight
<1>3. CASE Reacts(p)
  BY <1>3, AnyType, PageLookups
     DEF Reacts, FlightLoads, LoadFails, OrderTaken, OrderFails, TypeOK, FSTypeOK
<1> QED
  BY <1>1, <1>2, <1>3

\* What the call of a lookup does to it.
LEMMA OwnLookup ==
  ASSUME FSTypeOK, NEW l \in Lookup, NEW i \in Id
  PROVE  /\ StartScan(l, i) => scan'[l] = "scanning" /\ wanted'[l] = i /\ cache' = cache
         /\ EndScan(l) => scan'[l] = "idle" /\ cache' = cache
BY DEF FSTypeOK, StartScan, EndScan

\* A page's step leaves the other pages, their lookups and the cache alone.
LEMMA OtherPages ==
  ASSUME TypeOK, FormShows, NEW p \in Page, OpenBooking(p) \/ Submit(p) \/ Reacts(p),
         NEW q \in Page, q # p
  PROVE  /\ cache' = cache
         /\ screen'[q] = screen[q] /\ shown'[q] = shown[q] /\ changed'[q] = changed[q]
         /\ scan'[View(q)] = scan[View(q)] /\ scan'[Order(q)] = scan[Order(q)]
         /\ got'[View(q)] = got[View(q)] /\ got'[Order(q)] = got[Order(q)]
         /\ wanted'[Order(q)] = wanted[Order(q)]
<1>1. PICK l \in {View(p), Order(p)}, i \in Id : StartScan(l, i) \/ EndScan(l)
  BY PageCalls
<1>2. l \in Lookup /\ View(q) \in Lookup /\ Order(q) \in Lookup /\ View(q) # l /\ Order(q) # l
  BY PageLookups
<1>3. /\ cache' = cache
      /\ scan'[View(q)] = scan[View(q)] /\ scan'[Order(q)] = scan[Order(q)]
      /\ got'[View(q)] = got[View(q)] /\ got'[Order(q)] = got[Order(q)]
      /\ wanted'[Order(q)] = wanted[Order(q)]
  BY <1>1, <1>2, OtherLookups, OwnLookup DEF TypeOK
<1>4. screen'[q] = screen[q] /\ shown'[q] = shown[q] /\ changed'[q] = changed[q]
  BY DEF TypeOK, OpenBooking, Submit, Reacts, FlightLoads, LoadFails, OrderTaken, OrderFails, Go
<1> QED
  BY <1>3, <1>4

LEMMA PageFormShows ==
  ASSUME TypeOK, FormShows, NEW p \in Page, OpenBooking(p) \/ Submit(p) \/ Reacts(p)
  PROVE  FormShows'
<1> DEFINE Shows(q) == /\ screen[q] \in {"form", "sending"} => shown[q] \in Flight
                       /\ scan[View(q)] = "found" => got[View(q)] \in Flight
<1>1. ASSUME NEW q \in Page, q # p PROVE Shows(q)'
  BY <1>1, OtherPages DEF FormShows, View
<1>2. Shows(p)'
  <2>1. View(p) \in Lookup /\ Order(p) \in Lookup /\ View(p) # Order(p)
    BY PageLookups
  <2>2. CASE OpenBooking(p)
    BY <2>1, <2>2, OwnLookup DEF TypeOK, OpenBooking, Go, View
  <2>3. CASE FlightLoads(p)
    BY <2>1, <2>3, AnyType, OwnLookup DEF TypeOK, FormShows, FlightLoads, Go, View
  <2>4. CASE LoadFails(p)
    <3>1. wanted[View(p)] \in Id
      BY <2>1 DEF TypeOK, FSTypeOK
    <3> QED
      BY <2>1, <2>4, <3>1, AnyType, OwnLookup DEF TypeOK, LoadFails, Go, View
  <2>5. CASE Submit(p)
    <3>1. shown[p] \in Flight /\ shown[p].id \in Id
      BY <2>5 DEF FormShows, Submit, Flight
    <3>2. scan'[View(p)] = scan[View(p)] /\ got'[View(p)] = got[View(p)]
      BY <2>1, <2>5, <3>1, OtherLookups DEF TypeOK, Submit
    <3> QED
      BY <2>5, <3>1, <3>2 DEF TypeOK, FormShows, Submit, Go, View
  <2>6. CASE OrderTaken(p) \/ OrderFails(p)
    <3>1. scan'[View(p)] = scan[View(p)] /\ got'[View(p)] = got[View(p)]
      BY <2>1, <2>6, AnyType, OtherLookups DEF TypeOK, OrderTaken, OrderFails
    <3>2. screen[p] = "sending"
      BY <2>6 DEF OrderTaken, OrderFails
    <3> QED
      BY <2>6, <3>1, <3>2 DEF TypeOK, FormShows, OrderTaken, OrderFails, Go, View
  <2> QED
    BY <2>2, <2>3, <2>4, <2>5, <2>6 DEF Reacts
<1> QED
  BY <1>1, <1>2 DEF FormShows

LEMMA InitFormShows == Init => FormShows
BY PageLookups DEF Init, FSInit, FormShows

LEMMA TypeStep ==
  ASSUME TypeOK, FormShows, [Next]_vars PROVE TypeOK' /\ FormShows'
<1>1. CASE Next
  BY <1>1, ApiStepTypeOK, PageTypeOK, PageFormShows DEF Next
<1>2. CASE UNCHANGED vars
  BY <1>2 DEF vars, fsVars, searchVars, lookupVars, pageVars, TypeOK, FSTypeOK, FormShows, View
<1> QED
  BY <1>1, <1>2

\* Every reachable state has its types, for any constants.
THEOREM TypeCorrect == Spec => []TypeOK
BY InitTypeOK, InitFormShows, TypeStep, PTL DEF Spec

-----------------------------------------------------------------------------
(* What the cache holds                                                    *)

\* Flights of one search: labelled with its key, on its day, each named apart from
\* the others, and those with a generated name named for its date.
Good(F, k) ==
  /\ \A f \in F : Fits(f, k)
  /\ \A f, g \in F : f.id = g.id => f = g
  /\ \A f \in F, j \in Key, i \in Slot : f.id = MockId[<<j, i>>] => j.date = k.date

\* A name no generated flight has.
Foreign(f) == \A x \in Key \X Slot : f.id # MockId[x]

\* Generated flights are named apart, for their date.
LEMMA GeneratedNames ==
  ASSUME NEW k \in Key, NEW m \in Key, NEW i \in Slot, NEW j \in Slot,
         MockId[<<k, i>>] = MockId[<<m, j>>]
  PROVE  m.date = k.date /\ i = j
<1>1. <<k, i>> \in Key \X Slot /\ <<m, j>> \in Key \X Slot
  OBVIOUS
<1>2. <<k, i>>[1].date = <<m, j>>[1].date /\ <<k, i>>[2] = <<m, j>>[2]
  BY <1>1, IdAssumption
<1> QED
  BY <1>2

LEMMA GeneratedFits ==
  ASSUME NEW k \in Key, NEW i \in Slot, NEW price
  PROVE  Fits(Generated(MockId[<<k, i>>], k, price), k)
BY DEF Fits, Generated

LEMMA MockFlightsGood ==
  ASSUME NEW k \in Key, NEW n \in Party PROVE Good(MockFlights(k, n), k)
<1> DEFINE G(i) == Generated(MockId[<<k, i>>], k, MockPrice[<<k, i, n>>])
<1>1. \A f \in MockFlights(k, n) : \E i \in Slot : f = G(i)
  BY DEF MockFlights
<1>2. \A i \in Slot : G(i).id = MockId[<<k, i>>] /\ Fits(G(i), k)
  BY GeneratedFits DEF Generated
<1> HIDE DEF G
<1> DEFINE M == MockFlights(k, n)
<1>3. \A f, g \in M : f.id = g.id => f = g
  <2>1. ASSUME NEW i \in Slot, NEW j \in Slot, G(i).id = G(j).id PROVE i = j
    <3>1. MockId[<<k, i>>] = MockId[<<k, j>>]
      BY <1>2, <2>1
    <3> QED
      BY <3>1, GeneratedNames
  <2> QED
    BY <1>1, <2>1
<1>4. \A f \in M, j \in Key, i \in Slot : f.id = MockId[<<j, i>>] => j.date = k.date
  <2>1. ASSUME NEW m \in Slot, NEW j \in Key, NEW i \in Slot, G(m).id = MockId[<<j, i>>]
        PROVE  j.date = k.date
    <3>1. MockId[<<k, m>>] = MockId[<<j, i>>]
      BY <1>2, <2>1
    <3> QED
      BY <3>1, GeneratedNames
  <2> QED
    BY <1>1, <2>1
<1> QED
  BY <1>1, <1>2, <1>3, <1>4 DEF Good

\* The flights of a response of Amadeus, whose numbers it gives once each.
LEMMA AmadeusFlightsGood ==
  ASSUME NEW k \in Key, NEW n \in Party, NEW O \in SUBSET Offer, NEW fare \in [O -> Fare]
  PROVE  Good(AmadeusFlights(k, n, fare), k)
<1> DEFINE A(o) == [id |-> AmadeusId[o], key |-> k, day |-> k.date, price |-> fare[o] * n]
<1>1. \A f \in AmadeusFlights(k, n, fare) : \E o \in Offer : f = A(o)
  BY DEF AmadeusFlights
<1>2. \A o \in Offer : A(o).id = AmadeusId[o] /\ Fits(A(o), k)
  BY DEF Fits
<1> HIDE DEF A
<1>3. \A o \in Offer, j \in Key, i \in Slot : AmadeusId[o] # MockId[<<j, i>>]
  BY IdAssumption
<1>4. \A o, q \in Offer : AmadeusId[o] = AmadeusId[q] => o = q
  BY IdAssumption
<1> QED
  BY <1>1, <1>2, <1>3, <1>4 DEF Good

\* The flights of Travelpayouts, of which each endpoint gives one at the most.
LEMMA RealGood ==
  ASSUME NEW k \in Key, NEW n \in Party,
         NEW cheap \in AtMostOne(Offer \X Date \X Fare), NEW latest \in AtMostOne(Date \X Fare)
  PROVE  /\ Good(Real(k, n, cheap, latest), k)
         /\ \A f \in Real(k, n, cheap, latest) : Foreign(f)
<1> DEFINE C == CheapFlights(k, cheap)
           L == LatestFlights(k, n, latest)
<1>1. /\ \A f, g \in C : f = g
      /\ \A f \in C : Fits(f, k) /\ \E c \in Offer \X Date : f.id = CheapId[c]
  <2>1. \A e, x \in cheap : e = x
    BY DEF AtMostOne
  <2>2. \A f \in C : \E e \in cheap : e[2] = k.date /\ f = CheapFlight(k, e)
    BY DEF CheapFlights
  <2>3. cheap \subseteq Offer \X Date \X Fare
    BY DEF AtMostOne
  <2>4. ASSUME NEW e \in cheap, e[2] = k.date
        PROVE  /\ Fits(CheapFlight(k, e), k)
               /\ \E c \in Offer \X Date : CheapFlight(k, e).id = CheapId[c]
    <3>1. <<e[1], e[2]>> \in Offer \X Date
      BY <2>3
    <3> QED
      BY <2>4, <3>1 DEF CheapFlight, Fits
  <2> QED
    BY <2>1, <2>2, <2>4
<1>2. /\ \A f, g \in L : f = g
      /\ \A f \in L : Fits(f, k) /\ \E e \in Date \X Fare : f.id = LatestId[e]
  <2> DEFINE F(e) == [id |-> LatestId[<<e[1], e[2]>>], key |-> k, day |-> e[1], price |-> e[2] * n]
  <2>1. \A e, x \in latest : e = x
    BY DEF AtMostOne
  <2>2. \A f \in L : \E e \in latest : e[1] = k.date /\ f = F(e)
    BY DEF LatestFlights
  <2>3. latest \subseteq Date \X Fare
    BY DEF AtMostOne
  <2>4. ASSUME NEW e \in latest, e[1] = k.date
        PROVE  Fits(F(e), k) /\ \E x \in Date \X Fare : F(e).id = LatestId[x]
    <3>1. <<e[1], e[2]>> \in Date \X Fare
      BY <2>3
    <3> QED
      BY <2>4, <3>1 DEF Fits
  <2> HIDE DEF F
  <2> QED
    BY <2>1, <2>2, <2>4
<1>3. \A c \in Offer \X Date, e \in Date \X Fare : CheapId[c] # LatestId[e]
  BY IdAssumption
<1>4. \A f \in C \cup L : Foreign(f)
  BY <1>1, <1>2, IdAssumption DEF Foreign
<1>5. \A f, g \in C \cup L : f.id = g.id => f = g
  BY <1>1, <1>2, <1>3
<1>6. \A f \in C \cup L, j \in Key, i \in Slot : f.id # MockId[<<j, i>>]
  BY <1>4 DEF Foreign
<1> QED
  BY <1>1, <1>2, <1>4, <1>5, <1>6 DEF Good, Real

LEMMA SupplementGood ==
  ASSUME NEW k \in Key, NEW T, Good(T, k), \A f \in T : Foreign(f), NEW price
  PROVE  Good(Supplement(T, k, price), k)
<1> DEFINE G(i) == Generated(MockId[<<k, i>>], k, price[i])
<1>1. \A f \in Supplement(T, k, price) : f \in T \/ \E i \in Slot : f = G(i)
  BY DEF Supplement
<1>2. \A i \in Slot : G(i).id = MockId[<<k, i>>] /\ Fits(G(i), k)
  BY GeneratedFits DEF Generated
<1>3. \A f \in T, j \in Key, i \in Slot : f.id # MockId[<<j, i>>]
  BY DEF Foreign
<1> HIDE DEF G
<1> DEFINE S == Supplement(T, k, price)
<1>4. \A f, g \in S : f.id = g.id => f = g
  <2>1. ASSUME NEW i \in Slot, NEW j \in Slot, G(i).id = G(j).id PROVE i = j
    <3>1. MockId[<<k, i>>] = MockId[<<k, j>>]
      BY <1>2, <2>1
    <3> QED
      BY <3>1, GeneratedNames
  <2>2. \A f \in T, i \in Slot : f.id # G(i).id
    BY <1>2, <1>3
  <2>3. \A f, g \in T : f.id = g.id => f = g
    BY DEF Good
  <2> QED
    BY <1>1, <2>1, <2>2, <2>3
<1>5. \A f \in S, j \in Key, i \in Slot : f.id = MockId[<<j, i>>] => j.date = k.date
  <2>1. ASSUME NEW m \in Slot, NEW j \in Key, NEW i \in Slot, G(m).id = MockId[<<j, i>>]
        PROVE  j.date = k.date
    <3>1. MockId[<<k, m>>] = MockId[<<j, i>>]
      BY <1>2, <2>1
    <3> QED
      BY <3>1, GeneratedNames
  <2> QED
    BY <1>1, <1>3, <2>1
<1>6. \A f \in S : Fits(f, k)
  BY <1>1, <1>2 DEF Good
<1> QED
  BY <1>4, <1>5, <1>6 DEF Good

\* What the cache holds and the searches under way will put there; a search that has
\* no result yet holds none, which its first step relies on.
StoreInv ==
  /\ \A k \in Key : Good(cache[k], k)
  /\ \A s \in Search : Good(answer[s], asked[s])
  /\ \A s \in Search : step[s] # "store" => answer[s] = {}

LEMMA NothingGood == ASSUME NEW k PROVE Good({}, k)
BY DEF Good

LEMMA AfterAmadeusGood ==
  ASSUME FSTypeOK, StoreInv, NEW s \in Search, step[s] # "store",
         NEW k \in Key, NEW n \in Party, AfterAmadeus(s, k, n)
  PROVE  /\ Good(answer'[s], k) /\ (step'[s] # "store" => answer'[s] = {})
         /\ \A r \in Search : r # s => answer'[r] = answer[r] /\ step'[r] = step[r]
<1>1. CASE "travelpayouts" \in sources
  <2>1. answer[s] = {}
    BY DEF StoreInv
  <2>2. answer' = answer /\ step' = [step EXCEPT ![s] = "prices"]
    BY <1>1 DEF AfterAmadeus
  <2>3. Good({}, k)
    BY NothingGood
  <2> QED
    BY <2>1, <2>2, <2>3 DEF FSTypeOK
<1>2. CASE "travelpayouts" \notin sources
  <2>1. answer'[s] = MockFlights(k, n) /\ step'[s] = "store"
    BY <1>2 DEF FSTypeOK, AfterAmadeus
  <2> QED
    BY <1>2, <2>1, MockFlightsGood DEF FSTypeOK, AfterAmadeus
<1> QED
  BY <1>1, <1>2

\* A step of one search that leaves the cache alone: its own slot decides.
LEMMA StoreInvOf ==
  ASSUME StoreInv, cache' = cache, NEW s \in Search,
         Good(answer'[s], asked'[s]), step'[s] # "store" => answer'[s] = {},
         \A r \in Search : r # s => answer'[r] = answer[r] /\ step'[r] = step[r] /\ asked'[r] = asked[r]
  PROVE  StoreInv'
BY DEF StoreInv

LEMMA SearchMissGood ==
  ASSUME FSTypeOK, StoreInv, NEW s \in Search, SearchMiss(s) PROVE StoreInv'
<1>1. PICK k \in Key, n \in Party :
        /\ asked' = [asked EXCEPT ![s] = k]
        /\ IF "amadeus" \in sources
           THEN /\ step' = [step EXCEPT ![s] = IF token = "usable" THEN "offers" ELSE "token"]
                /\ UNCHANGED answer
           ELSE AfterAmadeus(s, k, n)
  BY DEF SearchMiss
<1>2. asked'[s] = k /\ \A r \in Search : r # s => asked'[r] = asked[r]
  BY <1>1 DEF FSTypeOK
<1>3. /\ Good(answer'[s], k) /\ (step'[s] # "store" => answer'[s] = {})
      /\ \A r \in Search : r # s => answer'[r] = answer[r] /\ step'[r] = step[r]
  <2>1. CASE "amadeus" \in sources
    <3>1. answer[s] = {} /\ answer' = answer
      BY <1>1, <2>1 DEF SearchMiss, StoreInv
    <3> QED
      BY <1>1, <2>1, <3>1, NothingGood DEF FSTypeOK
  <2>2. CASE "amadeus" \notin sources
    BY <1>1, <2>2, AfterAmadeusGood DEF SearchMiss
  <2> QED
    BY <2>1, <2>2
<1> QED
  BY <1>2, <1>3, StoreInvOf DEF SearchMiss

LEMMA GetTokenGood ==
  ASSUME FSTypeOK, StoreInv, NEW s \in Search, GetToken(s) PROVE StoreInv'
<1>1. asked[s] \in Key /\ party[s] \in Party /\ step[s] # "store" /\ answer[s] = {}
  BY DEF FSTypeOK, StoreInv, GetToken
<1>2. /\ Good(answer'[s], asked[s]) /\ (step'[s] # "store" => answer'[s] = {})
      /\ \A r \in Search : r # s => answer'[r] = answer[r] /\ step'[r] = step[r]
  <2>1. CASE AfterAmadeus(s, asked[s], party[s])
    BY <1>1, <2>1, AfterAmadeusGood
  <2>2. CASE step' = [step EXCEPT ![s] = "offers"] /\ UNCHANGED answer
    BY <1>1, <2>2, NothingGood DEF FSTypeOK
  <2> QED
    BY <2>1, <2>2 DEF GetToken
<1> QED
  BY <1>2, StoreInvOf DEF GetToken

LEMMA AmadeusAnswersGood ==
  ASSUME FSTypeOK, StoreInv, NEW s \in Search, AmadeusAnswers(s) PROVE StoreInv'
<1>1. asked[s] \in Key /\ party[s] \in Party /\ step[s] # "store"
  BY DEF FSTypeOK, AmadeusAnswers
<1>2. /\ Good(answer'[s], asked[s]) /\ (step'[s] # "store" => answer'[s] = {})
      /\ \A r \in Search : r # s => answer'[r] = answer[r] /\ step'[r] = step[r]
  <2>1. CASE AfterAmadeus(s, asked[s], party[s])
    BY <1>1, <2>1, AfterAmadeusGood
  <2>2. CASE \E O \in SUBSET Offer \ {{}} : \E fare \in [O -> Fare] :
               /\ answer' = [answer EXCEPT ![s] = AmadeusFlights(asked[s], party[s], fare)]
               /\ step' = [step EXCEPT ![s] = "store"]
    <3>4. PICK O \in SUBSET Offer : \E fare \in [O -> Fare] :
            /\ answer' = [answer EXCEPT ![s] = AmadeusFlights(asked[s], party[s], fare)]
            /\ step' = [step EXCEPT ![s] = "store"]
      BY <2>2
    <3>1. PICK fare \in [O -> Fare] :
            /\ answer' = [answer EXCEPT ![s] = AmadeusFlights(asked[s], party[s], fare)]
            /\ step' = [step EXCEPT ![s] = "store"]
      BY <3>4
    <3>2. Good(AmadeusFlights(asked[s], party[s], fare), asked[s])
      BY <1>1, AmadeusFlightsGood
    <3>3. answer'[s] = AmadeusFlights(asked[s], party[s], fare) /\ step'[s] = "store"
      BY <3>1 DEF FSTypeOK
    <3> QED
      BY <3>1, <3>2, <3>3 DEF FSTypeOK
  <2> QED
    BY <2>1, <2>2 DEF AmadeusAnswers
<1> QED
  BY <1>2, StoreInvOf DEF AmadeusAnswers

LEMMA TravelpayoutsAnswersGood ==
  ASSUME FSTypeOK, StoreInv, NEW s \in Search, TravelpayoutsAnswers(s) PROVE StoreInv'
<1>1. asked[s] \in Key /\ party[s] \in Party
  BY DEF FSTypeOK
<1>2. PICK cheap \in AtMostOne(Offer \X Date \X Fare), latest \in AtMostOne(Date \X Fare) :
        LET T == Real(asked[s], party[s], cheap, latest)
        IN IF T = {}
           THEN answer' = [answer EXCEPT ![s] = MockFlights(asked[s], party[s])]
           ELSE \E price \in [Slot -> Around(Cheapest(T))] :
                  answer' = [answer EXCEPT ![s] = Supplement(T, asked[s], price)]
  BY DEF TravelpayoutsAnswers, Real
<1> DEFINE T == Real(asked[s], party[s], cheap, latest)
<1>3. Good(answer'[s], asked[s]) /\ \A r \in Search : r # s => answer'[r] = answer[r]
  <2>1. CASE T = {}
    BY <1>1, <1>2, <2>1, MockFlightsGood DEF FSTypeOK
  <2>2. CASE T # {}
    <3>1. PICK price : answer' = [answer EXCEPT ![s] = Supplement(T, asked[s], price)]
      BY <1>2, <2>2
    <3>2. Good(T, asked[s]) /\ \A f \in T : Foreign(f)
      BY <1>1, RealGood
    <3> HIDE DEF T
    <3>3. Good(Supplement(T, asked[s], price), asked[s])
      BY <1>1, <3>2, SupplementGood
    <3> QED
      BY <3>1, <3>3 DEF FSTypeOK
  <2> QED
    BY <2>1, <2>2
<1>4. step'[s] = "store" /\ \A r \in Search : r # s => step'[r] = step[r]
  BY DEF FSTypeOK, TravelpayoutsAnswers
<1> QED
  BY <1>3, <1>4, StoreInvOf DEF TravelpayoutsAnswers

\* A result is stored under the key it was asked for.
LEMMA StoreResultGood ==
  ASSUME FSTypeOK, StoreInv, NEW s \in Search, StoreResult(s) PROVE StoreInv'
<1>1. \A k \in Key : Good(cache'[k], k)
  <2>1. CASE cache' = [cache EXCEPT ![asked[s]] = answer[s]]
    BY <2>1 DEF FSTypeOK, StoreInv
  <2>2. CASE UNCHANGED cache
    BY <2>2 DEF StoreInv
  <2> QED
    BY <2>1, <2>2 DEF StoreResult, StoredUnder
<1>2. /\ answer'[s] = {}
      /\ \A r \in Search : r # s => answer'[r] = answer[r] /\ step'[r] = step[r] /\ asked'[r] = asked[r]
  BY DEF FSTypeOK, StoreResult
<1> QED
  BY <1>1, <1>2, NothingGood DEF StoreInv

LEMMA ExpiryGood ==
  ASSUME FSTypeOK, StoreInv, TokenExpires \/ \E k \in Key : EntryExpires(k) PROVE StoreInv'
<1>1. CASE TokenExpires
  BY <1>1 DEF StoreInv, TokenExpires
<1>2. ASSUME NEW k \in Key, EntryExpires(k) PROVE StoreInv'
  <2>1. \A j \in Key : Good(cache'[j], j)
    BY <1>2, NothingGood DEF FSTypeOK, StoreInv, EntryExpires
  <2> QED
    BY <1>2, <2>1 DEF StoreInv, EntryExpires, searchVars
<1> QED
  BY <1>1, <1>2

\* Pages and scans change neither the cache nor a search.
LEMMA ScansGood ==
  ASSUME StoreInv, UNCHANGED <<cache, searchVars>> PROVE StoreInv'
BY DEF StoreInv, searchVars

LEMMA NextGood ==
  ASSUME TypeOK, StoreInv, Next PROVE StoreInv'
<1>1. CASE ApiStep
  <2>1. ASSUME NEW l \in Lookup, ScanRuns(l) PROVE StoreInv'
    BY <2>1, ScansGood DEF ScanRuns, ScanKey, ScanEnds, ScanFails
  <2> QED
    BY <1>1, <2>1, SearchMissGood, GetTokenGood, AmadeusAnswersGood, TravelpayoutsAnswersGood,
       StoreResultGood, ExpiryGood DEF ApiStep, FSNext, SearchRuns, TypeOK
<1>2. ASSUME NEW p \in Page, OpenBooking(p) \/ Submit(p) \/ Reacts(p) PROVE StoreInv'
  BY <1>2, ScansGood DEF OpenBooking, Submit, Reacts, FlightLoads, LoadFails, OrderTaken,
     OrderFails, StartScan, EndScan
<1> QED
  BY <1>1, <1>2 DEF Next

LEMMA InitGood == Init => StoreInv
<1>1. ASSUME Init PROVE (\A k \in Key : cache[k] = {}) /\ (\A s \in Search : answer[s] = {})
  BY <1>1 DEF Init, FSInit
<1> QED
  BY <1>1, NothingGood DEF StoreInv

\* Nothing of another route or day gets under a key, or into the answer of a search,
\* for any number of searches, sources, offers and fares.
THEOREM ResultsFit == Spec => []ResultsFitKey
<1>1. Init => StoreInv
  BY InitGood
<1>2. TypeOK /\ StoreInv /\ [Next]_vars => StoreInv'
  BY NextGood, ScansGood DEF vars, fsVars, searchVars
<1>3. StoreInv => ResultsFitKey
  BY DEF StoreInv, Good, ResultsFitKey
<1> QED
  BY <1>1, <1>2, <1>3, TypeCorrect, PTL DEF Spec

-----------------------------------------------------------------------------
(* What a scan finds                                                       *)

\* The entries that have named the wanted flight all along still do, and are still
\* to be read; so there are none once nothing is left to read.
ScanInv ==
  \A l \in Lookup :
    /\ held[l] \subseteq Holding(cache, wanted[l])
    /\ scan[l] = "scanning" => held[l] \subseteq left[l]
    /\ scan[l] = "missing" => held[l] = {}

\* A change of an entry takes from the history what no longer names the flight.
LEMMA KeepScanInv ==
  ASSUME FSTypeOK, ScanInv, Keep(cache'), UNCHANGED lookupVars PROVE ScanInv'
<1>1. \A l \in Lookup : held'[l] = held[l] \cap Holding(cache', wanted[l])
  BY DEF Keep
<1> QED
  BY <1>1 DEF ScanInv, lookupVars

LEMMA SameScanInv ==
  ASSUME ScanInv, UNCHANGED <<cache, held, lookupVars>> PROVE ScanInv'
BY DEF ScanInv, lookupVars

LEMMA ScanRunsInv ==
  ASSUME FSTypeOK, ScanInv, NEW l \in Lookup, ScanRuns(l) PROVE ScanInv'
<1>1. CASE ScanKey(l)
  <2>1. PICK k \in left[l] :
          \/ scan' = [scan EXCEPT ![l] = "found"] /\ UNCHANGED left
          \/ /\ \A f \in cache[k] : f.id # wanted[l]
             /\ left' = [left EXCEPT ![l] = @ \ {k}] /\ UNCHANGED <<scan, got>>
    BY <1>1 DEF ScanKey
  <2>2. CASE scan' = [scan EXCEPT ![l] = "found"] /\ UNCHANGED left
    BY <1>1, <2>2 DEF FSTypeOK, ScanInv, ScanKey
  <2>3. CASE /\ \A f \in cache[k] : f.id # wanted[l]
             /\ left' = [left EXCEPT ![l] = @ \ {k}] /\ UNCHANGED <<scan, got>>
    <3>1. k \notin held[l]
      BY <2>3 DEF ScanInv, Holding
    <3>2. left'[l] = left[l] \ {k} /\ \A m \in Lookup : m # l => left'[m] = left[m]
      BY <2>3 DEF FSTypeOK
    <3>3. scan[l] = "scanning" /\ scan' = scan /\ held' = held /\ cache' = cache /\ wanted' = wanted
      BY <1>1, <2>3 DEF ScanKey
    <3> QED
      BY <3>1, <3>2, <3>3 DEF ScanInv
  <2> QED
    BY <2>1, <2>2, <2>3
<1>2. CASE ScanEnds(l)
  <2>1. held[l] = {}
    BY <1>2 DEF ScanInv, ScanEnds
  <2> QED
    BY <1>2, <2>1 DEF FSTypeOK, ScanInv, ScanEnds
<1>3. CASE ScanFails(l)
  BY <1>3 DEF FSTypeOK, ScanInv, ScanFails
<1> QED
  BY <1>1, <1>2, <1>3 DEF ScanRuns

LEMMA StartScanInv ==
  ASSUME FSTypeOK, ScanInv, NEW l \in Lookup, NEW i \in Id, StartScan(l, i) PROVE ScanInv'
<1> DEFINE present == {k \in Key : cache[k] # {}}
<1>1. /\ scan' = [scan EXCEPT ![l] = "scanning"] /\ wanted' = [wanted EXCEPT ![l] = i]
      /\ left' = [left EXCEPT ![l] = present]
      /\ held' = [held EXCEPT ![l] = present \cap Holding(cache, i)] /\ cache' = cache
  BY DEF StartScan
<1>2. scan'[l] = "scanning" /\ wanted'[l] = i /\ left'[l] = present
      /\ held'[l] = present \cap Holding(cache, i)
  BY <1>1 DEF FSTypeOK
<1>3. \A m \in Lookup : m # l => /\ scan'[m] = scan[m] /\ wanted'[m] = wanted[m]
                                 /\ left'[m] = left[m] /\ held'[m] = held[m]
  BY <1>1 DEF FSTypeOK
<1> HIDE DEF present
<1> QED
  BY <1>1, <1>2, <1>3 DEF ScanInv

LEMMA EndScanInv ==
  ASSUME FSTypeOK, ScanInv, NEW l \in Lookup, EndScan(l) PROVE ScanInv'
<1>1. scan'[l] = "idle" /\ held'[l] = {} /\ cache' = cache
  BY DEF FSTypeOK, EndScan
<1>2. \A m \in Lookup : m # l => /\ scan'[m] = scan[m] /\ wanted'[m] = wanted[m]
                                 /\ left'[m] = left[m] /\ held'[m] = held[m]
  BY DEF FSTypeOK, EndScan
<1> QED
  BY <1>1, <1>2 DEF ScanInv

LEMMA ApiStepScanInv == ASSUME TypeOK, ScanInv, FSNext PROVE ScanInv'
<1>1. ASSUME NEW s \in Search, StoreResult(s) PROVE ScanInv'
  BY <1>1, KeepScanInv, SameScanInv DEF StoreResult, TypeOK, lookupVars
<1>2. ASSUME NEW k \in Key, EntryExpires(k) PROVE ScanInv'
  BY <1>2, KeepScanInv DEF EntryExpires, TypeOK, lookupVars
<1>3. ASSUME NEW s \in Search,
             SearchMiss(s) \/ GetToken(s) \/ AmadeusAnswers(s) \/ TravelpayoutsAnswers(s)
      PROVE  ScanInv'
  BY <1>3, SameScanInv
     DEF SearchMiss, GetToken, AmadeusAnswers, TravelpayoutsAnswers
<1>4. CASE TokenExpires
  BY <1>4, SameScanInv DEF TokenExpires
<1>5. ASSUME NEW l \in Lookup, ScanRuns(l) PROVE ScanInv'
  BY <1>5, ScanRunsInv DEF TypeOK
<1> QED
  BY <1>1, <1>2, <1>3, <1>4, <1>5 DEF FSNext, SearchRuns

LEMMA PageScanInv ==
  ASSUME TypeOK, FormShows, ScanInv, NEW p \in Page, OpenBooking(p) \/ Submit(p) \/ Reacts(p)
  PROVE  ScanInv'
<1>1. PICK l \in {View(p), Order(p)}, i \in Id : StartScan(l, i) \/ EndScan(l)
  BY PageCalls
<1> QED
  BY <1>1, PageLookups, StartScanInv, EndScanInv DEF TypeOK

\* A lookup says there is no such flight only if no entry has named it since the
\* lookup began, whatever expires and is written again meanwhile.
THEOREM ScanFinds == Spec => []ScanFindsHeld
<1>1. Init => TypeOK /\ FormShows /\ ScanInv
  BY InitTypeOK, InitFormShows DEF Init, FSInit, ScanInv
<1>2. TypeOK /\ FormShows /\ ScanInv /\ [Next]_vars => TypeOK' /\ FormShows' /\ ScanInv'
  <2>1. ASSUME TypeOK, FormShows, ScanInv, Next PROVE ScanInv'
    BY <2>1, ApiStepScanInv, PageScanInv DEF Next, ApiStep
  <2>2. ASSUME ScanInv, UNCHANGED vars PROVE ScanInv'
    BY <2>2, SameScanInv DEF vars, fsVars
  <2> QED
    BY <2>1, <2>2, TypeStep
<1>3. ScanInv => ScanFindsHeld
  BY DEF ScanInv, ScanFindsHeld
<1> QED
  BY <1>1, <1>2, <1>3, PTL DEF Spec

-----------------------------------------------------------------------------
(* What a buyer is charged                                                 *)

\* The flight found for an order is the one shown, or its entry has changed, or
\* another search's results name another flight alike.
ByItsName(p) ==
  \/ got[Order(p)] = shown[p]
  \/ changed[p]
  \/ /\ got[Order(p)].key # shown[p].key
     /\ \A k \in Key, i \in Slot :
          got[Order(p)].id = MockId[<<k, i>>] => got[Order(p)].key.route # shown[p].key.route

\* A page looks one flight up at a time; what it shows is still in the cache while its
\* entry stays; and the order is for what it shows.
Tied(p) ==
  /\ scan[View(p)] # "idle" => screen[p] = "loading"
  /\ scan[Order(p)] # "idle" => screen[p] = "sending" /\ wanted[Order(p)] = shown[p].id
  /\ screen[p] = "loading" => shown[p] = NoFlight
  /\ Seen(p) # NoFlight /\ ~ changed[p] => Seen(p) \in cache[Seen(p).key]
  /\ scan[Order(p)] = "found" => ByItsName(p)

PageInv == \A p \in Page : Tied(p)

\* Flights of the cache that share a name are the same or of other searches.
LEMMA Namesakes ==
  ASSUME FSTypeOK, StoreInv, NEW k \in Key, NEW f \in cache[k],
         NEW g \in Flight, g \in cache[g.key], f.id = g.id
  PROVE  \/ f = g
         \/ /\ f.key # g.key
            /\ \A j \in Key, i \in Slot : f.id = MockId[<<j, i>>] => f.key.route # g.key.route
<1>1. f.key = k /\ g.key \in Key
  BY DEF StoreInv, Good, Fits, Flight
<1>2. CASE k = g.key
  BY <1>2 DEF StoreInv, Good
<1>3. CASE k # g.key
  <2>1. ASSUME NEW j \in Key, NEW i \in Slot, f.id = MockId[<<j, i>>]
        PROVE  k.route # g.key.route
    <3>1. \A m \in Key : \A h \in cache[m] : h.id = MockId[<<j, i>>] => j.date = m.date
      BY DEF StoreInv, Good
    <3>2. j.date = k.date /\ j.date = g.key.date
      <4>1. g.id = MockId[<<j, i>>]
        BY <2>1
      <4> QED
        BY <1>1, <2>1, <3>1, <4>1
    <3>3. \A a, b \in Key : a.route = b.route /\ a.date = b.date => a = b
      BY DEF Key
    <3> QED
      BY <1>1, <1>3, <3>2, <3>3
  <2> QED
    BY <1>1, <1>3, <2>1
<1> QED
  BY <1>2, <1>3

\* A page whose own part does not change, in a step that changes no entry it has seen.
LEMMA TiedSame ==
  ASSUME NEW p \in Page, Tied(p),
         screen'[p] = screen[p], shown'[p] = shown[p],
         scan'[View(p)] = scan[View(p)], got'[View(p)] = got[View(p)],
         scan'[Order(p)] = scan[Order(p)], got'[Order(p)] = got[Order(p)],
         wanted'[Order(p)] = wanted[Order(p)],
         changed[p] => changed'[p],
         changed'[p] \/ Seen(p) = NoFlight \/ cache'[Seen(p).key] = cache[Seen(p).key]
  PROVE  Tied(p)'
<1>1. Seen(p)' = Seen(p)
  BY DEF Seen, View
<1>2. Seen(p)' # NoFlight /\ ~ changed'[p] => Seen(p)' \in cache'[Seen(p)'.key]
  BY <1>1 DEF Tied
<1>3. scan'[Order(p)] = "found" => ByItsName(p)'
  BY DEF Tied, ByItsName, Order
<1> QED
  BY <1>2, <1>3 DEF Tied, View, Order

LEMMA ApiStepTied ==
  ASSUME TypeOK, FormShows, StoreInv, NEW p \in Page, Tied(p), ApiStep PROVE Tied(p)'
<1>1. screen' = screen /\ shown' = shown /\ changed'[p] = (changed[p] \/ Touched(Seen(p)))
  BY DEF ApiStep, pageVars
<1>2. CASE UNCHANGED lookupVars
  BY <1>1, <1>2, TiedSame DEF lookupVars, Touched
<1>3. ASSUME NEW l \in Lookup, ScanRuns(l) PROVE Tied(p)'
  <2>1. cache' = cache /\ wanted' = wanted /\ scan[l] = "scanning"
    BY <1>3, ScanStep DEF TypeOK
  <2>2. changed'[p] = changed[p]
    BY <1>1, <2>1 DEF Touched, TypeOK
  <2>3. View(p) \in Lookup /\ Order(p) \in Lookup /\ View(p) # Order(p)
    BY PageLookups
  <2>4. CASE l # View(p) /\ l # Order(p)
    <3>1. /\ scan'[View(p)] = scan[View(p)] /\ got'[View(p)] = got[View(p)]
          /\ scan'[Order(p)] = scan[Order(p)] /\ got'[Order(p)] = got[Order(p)]
      BY <1>3, <2>3, <2>4, AnyType, OtherLookups DEF TypeOK
    <3> QED
      BY <1>1, <2>1, <2>2, <3>1, TiedSame
  <2>5. CASE l = View(p)
    <3>1. scan'[Order(p)] = scan[Order(p)] /\ got'[Order(p)] = got[Order(p)]
      BY <1>3, <2>3, <2>5, AnyType, OtherLookups DEF TypeOK
    <3>2. screen[p] = "loading" /\ shown[p] = NoFlight
      BY <2>1, <2>5 DEF Tied
    <3>3. Seen(p)' # NoFlight => Seen(p)' \in cache'[Seen(p)'.key]
      <4>1. CASE scan'[l] = "found"
        <5>1. PICK k \in Key : got'[l] \in cache[k]
          BY <1>3, <4>1, ScanStep DEF TypeOK
        <5>2. got'[l].key = k
          BY <5>1 DEF StoreInv, Good, Fits
        <5>3. Seen(p)' = got'[l]
          BY <2>5, <4>1 DEF Seen, View
        <5> QED
          BY <2>1, <5>1, <5>2, <5>3
      <4>2. CASE scan'[l] # "found"
        BY <1>1, <2>5, <3>2, <4>2 DEF Seen, View
      <4> QED
        BY <4>1, <4>2
    <3>4. scan'[Order(p)] = "found" => ByItsName(p)'
      BY <1>1, <2>2, <3>1 DEF Tied, ByItsName, Order
    <3> QED
      BY <1>1, <2>1, <3>1, <3>2, <3>3, <3>4 DEF Tied, View, Order
  <2>6. CASE l = Order(p)
    <3>1. scan'[View(p)] = scan[View(p)] /\ got'[View(p)] = got[View(p)]
      BY <1>3, <2>3, <2>6, AnyType, OtherLookups DEF TypeOK
    <3>2. screen[p] = "sending" /\ wanted[l] = shown[p].id /\ scan[View(p)] = "idle"
      BY <2>1, <2>6 DEF Tied
    <3>3. shown[p] \in Flight /\ Seen(p) = shown[p]
      BY <3>2 DEF FormShows, Seen
    <3>4. Seen(p)' = Seen(p)
      BY <1>1, <3>1 DEF Seen, View
    <3>5. ASSUME scan'[l] = "found" PROVE ByItsName(p)'
      <4>1. PICK k \in Key : got'[l] \in cache[k] /\ got'[l].id = wanted[l]
        BY <1>3, <3>5, ScanStep DEF TypeOK
      <4>2. CASE ~ changed[p]
        <5>1. shown[p] \in cache[shown[p].key]
          BY <3>3, <4>2, SearchAssumption DEF Tied
        <5>2. \/ got'[l] = shown[p]
              \/ /\ got'[l].key # shown[p].key
                 /\ \A j \in Key, i \in Slot :
                      got'[l].id = MockId[<<j, i>>] => got'[l].key.route # shown[p].key.route
          BY <3>2, <3>3, <4>1, <5>1, Namesakes DEF TypeOK
        <5> QED
          BY <1>1, <2>6, <5>2 DEF ByItsName, Order
      <4>3. CASE changed[p]
        BY <2>2, <4>3 DEF ByItsName
      <4> QED
        BY <4>2, <4>3
    <3> QED
      BY <1>1, <2>1, <2>2, <2>6, <3>1, <3>2, <3>4, <3>5 DEF Tied, View, Order
  <2> QED
    BY <2>4, <2>5, <2>6
<1> QED
  BY <1>2, <1>3, SearchSteps DEF ApiStep

\* What a page's own step does to what ties it to its lookups.
LEMMA OwnStepTied ==
  ASSUME TypeOK, FormShows, NEW p \in Page, Tied(p), OpenBooking(p) \/ Submit(p) \/ Reacts(p)
  PROVE  Tied(p)'
<1>1. View(p) \in Lookup /\ Order(p) \in Lookup /\ View(p) # Order(p)
  BY PageLookups
<1>2. cache' = cache
  BY <1>1, PageCalls, OwnLookup DEF TypeOK
<1>3. wanted[View(p)] \in Id
  BY <1>1 DEF TypeOK, FSTypeOK
<1>4. CASE OpenBooking(p) \/ LoadFails(p) \/ FlightLoads(p)
  <2>1. scan'[Order(p)] = scan[Order(p)] /\ scan[Order(p)] = "idle"
    <3>1. scan'[Order(p)] = scan[Order(p)]
      BY <1>1, <1>3, <1>4, AnyType, OtherLookups DEF TypeOK, OpenBooking, LoadFails, FlightLoads
    <3> QED
      BY <1>4, <3>1 DEF Tied, OpenBooking, LoadFails, FlightLoads
  <2>2. CASE OpenBooking(p)
    <3>1. scan'[View(p)] = "scanning" /\ screen'[p] = "loading" /\ shown'[p] = NoFlight
      BY <1>1, <2>2, OwnLookup DEF TypeOK, OpenBooking, Go
    <3> QED
      BY <2>1, <3>1 DEF Tied, View, Order, Seen
  <2>3. CASE LoadFails(p)
    <3>1. shown' = shown /\ changed' = changed /\ shown[p] = NoFlight
      BY <2>3 DEF LoadFails, Tied
    <3>2. \/ scan'[View(p)] = "scanning" /\ screen'[p] = "loading"
          \/ scan'[View(p)] = "idle" /\ screen'[p] = "missing"
      BY <1>1, <1>3, <2>3, OwnLookup DEF TypeOK, LoadFails, Go
    <3> QED
      BY <2>1, <3>1, <3>2 DEF Tied, View, Order, Seen
  <2>4. CASE FlightLoads(p)
    <3>1. scan'[View(p)] = "idle" /\ screen'[p] = "form" /\ shown'[p] = got[View(p)]
          /\ changed' = changed /\ scan[View(p)] = "found"
      BY <1>1, AnyType, <2>4, OwnLookup DEF TypeOK, FlightLoads, Go
    <3>2. Seen(p)' = Seen(p)
      BY <3>1 DEF Seen, View
    <3> QED
      BY <1>2, <2>1, <3>1, <3>2 DEF Tied, View, Order
  <2> QED
    BY <1>4, <2>2, <2>3, <2>4
<1>5. CASE Submit(p) \/ OrderTaken(p) \/ OrderFails(p)
  <2>1. screen[p] \in {"form", "sending"} /\ scan[View(p)] = "idle"
        /\ shown[p] \in Flight
    BY <1>5 DEF Tied, FormShows, Submit, OrderTaken, OrderFails
  <2>2. shown[p].id \in Id
    BY <2>1 DEF Flight
  <2>3. scan'[View(p)] = "idle"
    BY <1>1, <1>5, <2>1, <2>2, AnyType, OtherLookups DEF TypeOK, Submit, OrderTaken, OrderFails
  <2>4. Seen(p) = shown[p] /\ Seen(p)' = shown'[p]
    BY <2>1, <2>3 DEF Seen, View
  <2>5. CASE Submit(p)
    <3>1. scan'[Order(p)] = "scanning" /\ wanted'[Order(p)] = shown[p].id /\ screen'[p] = "sending"
          /\ shown' = shown /\ changed' = changed
      BY <1>1, <2>2, <2>5, OwnLookup DEF TypeOK, Submit, Go
    <3> QED
      BY <1>2, <2>3, <2>4, <3>1 DEF Tied, View, Order
  <2>6. CASE OrderTaken(p) \/ OrderFails(p)
    <3>1. scan'[Order(p)] = "idle" /\ screen'[p] \in {"left", "form"}
          /\ (shown'[p] = NoFlight \/ (shown' = shown /\ changed' = changed))
      BY <1>1, <2>6, AnyType, OwnLookup DEF TypeOK, OrderTaken, OrderFails, Go
    <3> QED
      BY <1>2, <2>3, <2>4, <3>1 DEF Tied, View, Order
  <2> QED
    BY <1>5, <2>5, <2>6
<1> QED
  BY <1>4, <1>5 DEF Reacts

LEMMA PageStepTied ==
  ASSUME TypeOK, FormShows, PageInv, NEW p \in Page, OpenBooking(p) \/ Submit(p) \/ Reacts(p)
  PROVE  PageInv'
<1>1. ASSUME NEW q \in Page, q # p PROVE Tied(q)'
  <2>1. Tied(q)
    BY DEF PageInv
  <2> QED
    BY <1>1, <2>1, OtherPages, TiedSame
<1>2. Tied(p)'
  BY OwnStepTied DEF PageInv
<1> QED
  BY <1>1, <1>2 DEF PageInv

LEMMA InitPageInv == Init => PageInv
BY PageLookups DEF Init, FSInit, PageInv, Tied, Seen

\* For any number of buyers and searches: a price other than the one shown is charged
\* only when the entry of the flight was written or expired meanwhile, or when another
\* search's results name a flight by the same provider's id, or by the id generated
\* for another route.
THEOREM ChargeIsExplained == Spec => []ChargeExplained
<1>1. Init => TypeOK /\ FormShows /\ StoreInv /\ PageInv
  BY InitTypeOK, InitFormShows, InitGood, InitPageInv
<1>2. TypeOK /\ FormShows /\ StoreInv /\ PageInv /\ [Next]_vars
        => TypeOK' /\ FormShows' /\ StoreInv' /\ PageInv'
  <2>1. ASSUME TypeOK, FormShows, StoreInv, PageInv, Next PROVE StoreInv' /\ PageInv'
    <3>1. StoreInv'
      BY <2>1, NextGood
    <3>2. CASE ApiStep
      BY <2>1, <3>1, <3>2, ApiStepTied DEF PageInv
    <3>3. CASE \E p \in Page : OpenBooking(p) \/ Submit(p) \/ Reacts(p)
      BY <2>1, <3>1, <3>3, PageStepTied
    <3> QED
      BY <2>1, <3>1, <3>2, <3>3 DEF Next
  <2>2. ASSUME StoreInv, PageInv, UNCHANGED vars PROVE StoreInv' /\ PageInv'
    <3>1. StoreInv'
      BY <2>2, ScansGood DEF vars, fsVars, searchVars
    <3>2. ASSUME NEW p \in Page PROVE Tied(p)'
      <4>1. Tied(p)
        BY <2>2 DEF PageInv
      <4> QED
        BY <2>2, <4>1, TiedSame DEF vars, fsVars, lookupVars, pageVars
    <3> QED
      BY <3>1, <3>2 DEF PageInv
  <2> QED
    BY <2>1, <2>2, TypeStep
<1>3. PageInv => ChargeExplained
  BY DEF PageInv, Tied, ByItsName, ChargeExplained, Charged
<1> QED
  BY <1>1, <1>2, <1>3, PTL DEF Spec
=============================================================================
