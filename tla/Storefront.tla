----------------------------- MODULE Storefront -----------------------------
(***************************************************************************)
(* The booking page (packages/web/src/app/booking/[id]/page.tsx) over the  *)
(* search API: a page looks its flight up when it opens, shows the price,  *)
(* and sends an order for the id alone; createBooking looks the id up once *)
(* more and charges what it finds then.                                    *)
(***************************************************************************)
EXTENDS FlightSearch

CONSTANTS
  Page,
  Retries       \* of a failed query: 2 in app/layout.tsx

ASSUME StorefrontAssumption ==
  Lookup = Page \X {"view", "order"} /\ Retries \in Nat

VARIABLES
  screen,       \* what the page shows
  tries,        \* failed loads of the flight so far
  shown,        \* the flight the form shows
  changed       \* history: its entry was written or expired since it was looked up

pageVars == <<screen, tries, shown>>
vars == <<fsVars, pageVars, changed>>

Screens == {"list", "loading", "form", "missing", "sending", "left"}

TypeOK ==
  /\ FSTypeOK
  /\ screen \in [Page -> Screens] /\ tries \in [Page -> 0..Retries]
  /\ shown \in [Page -> Flight \cup {NoFlight}]
  /\ changed \in [Page -> BOOLEAN]

Init ==
  /\ FSInit
  /\ screen = [p \in Page |-> "list"] /\ tries = [p \in Page |-> 0]
  /\ shown = [p \in Page |-> NoFlight]
  /\ changed = [p \in Page |-> FALSE]

View(p) == <<p, "view">>
Order(p) == <<p, "order">>

Go(p, to) == screen' = [screen EXCEPT ![p] = to]

\* A card of the results, a link, or a reload: any id may be asked for.  (A flight opened
\* again within a minute may be shown from the browser's query cache; that is left out.)
OpenBooking(p) ==
  /\ screen[p] \in {"list", "form", "missing", "left"}
  /\ \E i \in Id : StartScan(View(p), i)
  /\ Go(p, "loading")
  /\ tries' = [tries EXCEPT ![p] = 0]
  /\ shown' = [shown EXCEPT ![p] = NoFlight] /\ changed' = [changed EXCEPT ![p] = FALSE]

FlightLoads(p) ==
  /\ screen[p] = "loading" /\ scan[View(p)] = "found"
  /\ shown' = [shown EXCEPT ![p] = got[View(p)]]
  /\ Go(p, "form") /\ EndScan(View(p))
  /\ UNCHANGED <<tries, changed>>

\* As LoadFails, of a page that never stops trying.
LoadRetries(p) ==
  /\ screen[p] = "loading" /\ scan[View(p)] \in {"missing", "error"}
  /\ tries' = [tries EXCEPT ![p] = @ + 1]
  /\ StartScan(View(p), wanted[View(p)])
  /\ UNCHANGED <<screen, shown, changed>>

\* "Not found" is an error like any other to useQuery, which tries again.
LoadFails(p) ==
  /\ screen[p] = "loading" /\ scan[View(p)] \in {"missing", "error"}
  /\ \/ /\ tries[p] < Retries
        /\ tries' = [tries EXCEPT ![p] = @ + 1]
        /\ StartScan(View(p), wanted[View(p)])
        /\ UNCHANGED screen
     \/ /\ tries[p] = Retries /\ Go(p, "missing") /\ EndScan(View(p))
        /\ UNCHANGED tries
  /\ UNCHANGED <<shown, changed>>

\* handleSubmit with valid passports; the button is disabled until it settles.
\* The request carries the id of the flight and no price.
Submit(p) ==
  /\ screen[p] = "form"
  /\ StartScan(Order(p), shown[p].id)
  /\ Go(p, "sending")
  /\ UNCHANGED <<tries, shown, changed>>

\* createBooking has its flight and goes through: the page leaves for the payment
\* page, breaks on the response without one (it keeps the booking and then reads
\* bookingResult.booking), or never sees the answer and shows an error.
OrderTaken(p) ==
  /\ screen[p] = "sending" /\ scan[Order(p)] = "found"
  /\ EndScan(Order(p))
  /\ \/ Go(p, "left") /\ shown' = [shown EXCEPT ![p] = NoFlight]
                       /\ changed' = [changed EXCEPT ![p] = FALSE]
     \/ Go(p, "form") /\ UNCHANGED <<shown, changed>>
  /\ UNCHANGED tries

\* No such flight, or createBooking fails later on: the form with an error.
OrderFails(p) ==
  /\ screen[p] = "sending" /\ scan[Order(p)] \in {"found", "missing", "error"}
  /\ Go(p, "form") /\ EndScan(Order(p))
  /\ UNCHANGED <<tries, shown, changed>>

\* The flight createBooking takes the price of.
Charged(p) ==
  IF screen[p] = "sending" /\ scan[Order(p)] = "found" THEN got[Order(p)] ELSE NoFlight

Reacts(p) == FlightLoads(p) \/ LoadFails(p) \/ OrderTaken(p) \/ OrderFails(p)

\* The flight the page shows or is about to show.
Seen(p) == IF scan[View(p)] = "found" THEN got[View(p)] ELSE shown[p]
Touched(f) == f # NoFlight /\ cache'[f.key] # cache[f.key]

\* Steps of the API and of other clients' searches.
ApiStep ==
  /\ FSNext
  /\ changed' = [p \in Page |-> changed[p] \/ Touched(Seen(p))]
  /\ UNCHANGED pageVars

Next == ApiStep \/ \E p \in Page : OpenBooking(p) \/ Submit(p) \/ Reacts(p)

Spec == Init /\ [][Next]_vars

-----------------------------------------------------------------------------
(* Properties                                                              *)

\* The price charged is the one shown, unless the flight's entry was written or
\* expired since the page looked it up, or another search's results name another
\* flight alike: a provider's id, or a generated one of another route.
ChargeExplained ==
  \A p \in Page : Charged(p) # NoFlight =>
    \/ Charged(p) = shown[p]
    \/ changed[p]
    \/ /\ Charged(p).key # shown[p].key
       /\ \A k \in Key, i \in Slot :
            Charged(p).id = MockId[<<k, i>>] => Charged(p).key.route # shown[p].key.route

\* docs/Refinement.md:35 (EC-14): a price more than 5% above the one shown is
\* shown to the buyer first.
PriceRechecked ==
  \A p \in Page :
    Charged(p) # NoFlight => 100 * Charged(p).price <= 105 * shown[p].price
=============================================================================
