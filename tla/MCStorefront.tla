---------------------------- MODULE MCStorefront ----------------------------
(* Instances of Storefront for TLC: one route, days named by numbers.      *)
EXTENDS Storefront, TLC

MCLookup == Page \X {"view", "order"}

\* Identifiers as the sources build them: a number of the response; number and
\* time of departure; day and fare; a hash of route, day and slot.
MCAmadeusId == [o \in Offer |-> <<"amadeus", o>>]
MCCheapId == [x \in Offer \X Date |-> <<"cheap", x[1], x[2]>>]
MCLatestId == [x \in Date \X Fare |-> <<"latest", x[1], x[2]>>]
MCMockId == [x \in Key \X Slot |-> <<"mock", x[1].date, x[2]>>]
MCId ==
  {MCAmadeusId[x] : x \in Offer} \cup {MCCheapId[x] : x \in Offer \X Date} \cup
  {MCLatestId[x] : x \in Date \X Fare} \cup {MCMockId[x] : x \in Key \X Slot}

\* The API's images run in UTC.
MCMockDay == [d \in Date |-> d - 1]

MCMockPrice == [x \in Key \X Slot \X Party |-> 300 * x[3]]
=============================================================================
