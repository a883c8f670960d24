# HopperRU: a verification of its protocols

TLA+ specifications of the parts of HopperRU (a travel API, its web client, bot
and price model) in which the order of steps decides whether the result is
right, with TLC models and TLAPS proofs.

## 1. The system

The API is one Node process (`packages/api`) over PostgreSQL and Redis, used by a
Next.js client (`packages/web`) and a Telegram bot (`packages/bot`); a Python
service (`packages/ml`) predicts prices. A handler of the API runs without
interruption from one `await` to the next, and anything may happen at an
`await`: another handler runs, the awaited call throws, the process is
restarted. There is no lock and, except for the transaction that stores a
booking, no transaction.

| Component | State | Operations | Interacts with | What makes it correct | Module |
|---|---|---|---|---|---|
| Booking: create (`booking.service.ts`) | `bookings`, `booking_items`, `protections`; writes `price_freezes` | `createBooking` | Redis (flight), YooKassa, database | one price in the payment, the booking, the item and the premiums; discounts only for a freeze of one's own; whoever can still pay does so for a booking that waits | `Pricing`, `Quote`, `Booking` |
| Booking: cancel | `bookings.status`, `protections` | `cancelBooking` | database | CFAR is paid before its booking is closed; nothing claimable is left behind; the claim is right; nothing is taken back | `Booking`, `CfarContract` |
| Booking: read | none | `getBookings`, `getBookingById` | database, YooKassa | tells the buyer the payment page | guard of `Pay` in `Booking` |
| Payment (`yookassa.service.ts`, `payment.controller.ts`) | payments at YooKassa | `createPayment`, `getPayment`, `createRefund`, `handleWebhook` | YooKassa | a paid booking is confirmed | `Booking` |
| Booking providers (`nemo-booking.provider.ts`, mock) | reservations at Nemo | search, book, ticket, cancel | Nemo | what it answers is what Nemo has | `BookingProviders` |
| Fintech (`fintech.service.ts`) | none: stubs | `createFreeze`, `getFreeze`, `useFreeze`, `createProtection` | none | - | none |
| Auth (`auth.service.ts`, `auth.guard.ts`) | `users`: code, expiry, refresh hash | `register`, `verifyCode`, `refreshToken`, `validateUser` | SMS gateway | one live refresh token per user, replaced by whoever shows it; any other closes the session | `Auth` |
| Search (`search.service.ts`, `amadeus.service.ts`, `travelpayouts.service.ts`) | Redis `search:*`, `calendar:*` | `searchFlights`, `getFlightById`, `getCalendar` | Amadeus, Travelpayouts | results fit their key; a flight that is there is found; tiers follow the prices | `FlightSearch`, `PriceCalendar` |
| ML service (`packages/ml`) | none | `/predict` | none | advice to wait never leads into the dearest days | `PricePrediction` |
| Prediction (`prediction.service.ts`) | Redis `prediction:*` | `predict` | Redis | a constant, whatever it is asked | none |
| Notification (`notification.service.ts`) | BullMQ queue | `scheduleFreezeExpiryReminder`, `processJob` | Redis | a queued reminder is handled | `Reminders` |
| Web push (`web-push.service.ts`) | subscriptions in memory | `subscribe`, `sendToUser` | push services | no subscription lost or doubled | `WebPush` |
| User (`user.service.ts`) | none: stubs | profile, alerts | none | - | none |
| Web session (`lib/auth.ts`, `AuthGuard.tsx`) | localStorage of the browser | verify, refresh, logout | Auth | the stored token is the live one; only its age signs out; every check and form comes to an end | `WebSession` |
| Booking page (`booking/[id]/page.tsx`) | flight, form, result | load, retry, submit | Search, Booking | charges what it shows, or the entry has changed since | total in `Quote`; rest `Storefront` |
| Search form and page (`SearchForm.tsx`, `search/page.tsx`), calendar (`PriceCalendar.tsx`) | fields, suggestions | type, select, swap, submit, pick a day | Search | searches for what the fields show; colours follow the prices | `SearchPage`, `PriceCalendar` |
| Service worker (`public/sw.js`, `useServiceWorker.ts`) | caches, requests under way | install, activate, fetch, push, click | API | every page request is answered with a page, through releases and offline | `ServiceWorker` |
| Bot (`packages/bot`) | rate limits in memory | commands, texts, buttons | API | claims only what was done; answers whom it lets through | `TelegramBot` |

The behaviours that are hard to test here: two requests that read a row before
either writes it; a call that dies between two awaited writes and is repeated; a
payment whose outcome arrives apart from its booking; the mode of the payment
client changing under existing bookings; tabs that share one rotating token, or change
users under a refresh; a cache entry that changes between search and booking. `PROJECT.json` lists them
line by line under `hazards`, with the properties that cover them.

## 2. The modules

| Module | What it models |
|---|---|
| `Pricing` | premiums, total, refunds: pure operators over integers |
| `Quote` | the protection loop of `createBooking` as a state machine, next to the booking page's own copy of the rules |
| `Booking` | `createBooking`, `cancelBooking`, `createPayment`, the webhook, and the three tables they share |
| `CfarContract` | the promise to a buyer of CFAR: none, sold, paid, closed |
| `BookingContract` | how rows of `Booking` represent a contract; states that `Booking` implements `CfarContract` |
| `Auth` | `register`, `verifyCode`, `refreshToken` over the `users` table |
| `WebSession` | the pages of a browser and its localStorage, composed with `Auth` |
| `FlightSearch` | the search cache, the sources that fill it, the scans that look a flight up by id |
| `Storefront` | the booking page over `FlightSearch`: what it shows and what `createBooking` charges |
| `PriceCalendar`, `PricePrediction` | the tiers and colours of a month; the advice to wait, followed day by day |
| `BookingProviders` | the Nemo and the mock provider |
| `WebPush`, `Reminders` | push subscriptions; the queue of reminders and its worker |
| `ServiceWorker`, `SearchPage` | releases, caches and page requests of the tabs of a browser; the airport fields of the search form |
| `TelegramBot` | the rate limit and the handlers of the bot, with the messages Telegram refuses |
| `MCQuote`, `MCBooking`, `MCWebSession`, `MCStorefront`, `MCChannels` | instances for TLC |
| `PricingProofs`, `BookingProofs`, `CancellationProofs`, `CreateProofs` | theorems about `Pricing`, `Booking` and `BookingContract` |
| `CalculationProofs` | theorems about `Quote`, `PricePrediction` and `PriceCalendar` |
| `ChannelsProofs` | theorems about `BookingProviders`, `WebPush`, `ServiceWorker`, `SearchPage` and `TelegramBot` |
| `WebSessionProofs`, `StorefrontProofs` | theorems about `WebSession` with `Auth`, and `Storefront` with `FlightSearch` |

### Pricing and Quote

Prices are whole roubles, so that `Math.round` of a share is an integer division
(`Pricing` says which way ties go). This is an assumption: the sources of the API
give such prices, but Travelpayouts' is passed on as it comes
(`travelpayouts.service.ts:292`) and a frozen price is a `Decimal`. `price_freeze` in
`dto.protections` is accepted by the DTO, stored as
`CANCEL_FOR_ANY_REASON` and costs nothing, and is modelled so. `Quote` runs the
loop entry by entry: `protectionTotal` and `protectionDetails` are its
accumulators. `PartialTotal` is the closed form (a count per kind) that `Booking`
uses; `LoopComputesPartialTotal` shows that they agree. The booking page does not ask
for the total, it works it out by rules of its own (`page.tsx:265-273`): `ShownCfar`
is that rule, written as the page writes it, and `ShownIsCharged` compares the two.

### Booking

A call of `createBooking` is an element of `Request`; `step[r]` says which awaited
call it is at. The booking and the payment it makes carry its name.

| `step` | waiting for | actions that leave it |
|---|---|---|
| `idle` | the cache | `FindFlight`, `FlightUnavailable` |
| `freeze` | `priceFreeze.findFirst` | `ReadFreeze`, `RequestFails` |
| `use` | `priceFreeze.update` | `UseFreeze`, `RequestFails` |
| `pay` | `createPayment`, not yet at YooKassa | `CreateMockPayment`, `OpenPayment`, `PaymentError` |
| `reply` | the answer of YooKassa | `PaymentReply`, `PaymentError` |
| `save` | the transaction | `SaveBooking`, `RequestFails` |
| `done`, `rejected`, `unpaid`, `failed` | nothing | |

A call of `cancelBooking` is an element of `Cancellation`: `idle` (the query with
the protections; `ReadBooking` or `RefuseCancellation`), `payout`, `void`, `close`,
then `answered`, `rejected` or `failed`. It keeps the row and the amount it read.
The query has no order, so `ReadBooking` takes any active CFAR row.

A payment carries `page`: whether YooKassa's answer had a confirmation URL. `Answer`
is what may come back: a page only while the payment is pending, and none with any
status (`confirmation_url || null`, `yookassa.service.ts:113`). `SaveBooking` decides
between PENDING and CONFIRMED from the page alone, as `booking.service.ts:192` does,
and not from the mode: a live answer without a page is stored as CONFIRMED unpaid,
which `doc_confirmed_paid` shows.

Outside: `Restart` ends every call in flight and may gain or lose the credentials
of YooKassa, and with them real payments (read from the configuration at start);
`FreezeExpires` is the clock; `Pay` and `PaymentLapses` are the buyer and YooKassa,
and each leaves a notice for `HandleWebhook`. The payment page reaches the buyer with
the response or from `getBookingById`, both of which follow the transaction, so a
payment with a page is paid only once its booking is stored (`PageKnown`); one
without is settled, if at all, by YooKassa.

Left out: names, passports, PNRs, payment methods, currencies and texts, on which
nothing depends; `COMPLETED` and the other statuses nothing writes; `createRefund`,
which nothing calls; the flight of a freeze, which nothing compares.
`createFreeze` is a stub, so active freezes are given by `Init`.

### CfarContract

`none -> insured -> paid -> closed` or `none -> uninsured -> closed`, and nothing
else. `ContractOf` reads it off the tables: an insured contract is a stored
booking with CFAR rows of which none is paid.

### Auth and WebSession

`Auth` has a slot per request being handled (`Call`); `at[c]` is the awaited call.

| `at` | waiting for | actions that leave it |
|---|---|---|
| `free` | a request | `Register`, `VerifyCode` (each with the row it reads or writes first), `AskRefresh` |
| `texting` | SMSC | `SendSmsCode` |
| `storing` | `user.update` of `verifyCode` | `StoreSession` |
| `asked` | the row of `refreshToken` | `RefreshToken` |
| `rotating`, `revoking` | `user.update` of `refreshToken` | `Rotate`, `Revoke` |
| `answered`, `refused` | the client | `Release` |

`HandlerFails` ends a handler anywhere (the database throws, the process
restarts). A token pair carries no identifier, only the user and whole seconds,
so it is the record of both: two pairs of one second are one pair, as in the
code. Phone formatting and the user's name are left out.

`WebSession` gives each page the state of the one flow it runs: the form of
`auth/page.tsx` (`form`, `sending`, `code`, `resending`, `verifying`) and the check
of `AuthGuard` (`guard`, `me`, `refreshing`, then `in` or `out`). Sending a code
request or a sign-in is one step with the handler's first access, as nothing the
browser does meanwhile matters to it; sending a refresh is a step of its own,
because it reads localStorage and the handler reads the row later. `crossed` is a
history variable: the pages whose refresh is under way and whose stored session has
since passed to another user, or to nobody, by the hand of another page. With `Lossy`,
`Settles` lets the page see an error while the handler runs on. The countdown of
the resend button is left out: it delays, and forbids nothing in the end.

### FlightSearch and Storefront

A cache entry is a set of flights under `[route, date]`, `{}` when there is none; a
flight is its id, the key it was found for, the day it departs and its price. A
call of `searchFlights` that misses is an element of `Search`:

| `step` | waiting for | actions that leave it |
|---|---|---|
| `idle` | a search | `SearchMiss` (a hit changes nothing) |
| `token` | Amadeus' OAuth | `GetToken` |
| `offers` | Amadeus' offers | `AmadeusAnswers` |
| `prices` | both endpoints of Travelpayouts | `TravelpayoutsAnswers` |
| `store` | `setex` | `StoreResult` |

An error, a timeout and an empty answer are one thing to the code, and lead to the
next source; `sources` says which are configured. A lookup by id (`getFlightById`,
and `findFlightInCache` of `createBooking`, which are the same code twice) is an
element of `Lookup`: `keys`, then one `get` at a time (`ScanKey`), while entries
are written and expire. `held` is a history variable: the entries that have named
the flight since the scan began.

How each source names its flights is a parameter (`AmadeusId` counts from 1 in
every response, `CheapId` is made of a number and a departure, `LatestId` of a day
and a fare, `MockId` is a hash), because names that coincide decide what is
booked. `IdAssumption` says that a hash tells dates and slots apart and that no
other name looks like one; routes may share one.

`Storefront` adds the page: `screen` is `list`, `loading`, `form`, `sending`,
`missing` or `left`. `OpenBooking` and `Submit` start the two lookups, `LoadFails`
retries, `OrderTaken` and `OrderFails` are the answer. `changed` is a history
variable: the shown flight's entry was written or expired since it was looked up.
`Booking` and `Storefront` meet in one value: `FindFlight` of `Booking` takes any
price, and `Storefront` says which prices it can be.

### PriceCalendar and PricePrediction

`Tier` is the percentile rule of `getCalendar`, `Colour` the thirds the page works
out for itself; both see the same month, the first perhaps from Redis.
`PricePrediction` has the tables of `rules.py`, the score in hundredths (and the
sums which floating point rounds across a threshold, `RoundsPast`), `Direction`
and `EstimateWaitDays` with Python's rounding; `WaitAsTold` is a buyer who waits as
told and asks again. Confidence, savings and texts are left out. `Sorted` picks the
k-th smallest price by counting, where the code sorts: the provers see through a
count and not through `SortSeq`; `Filtered` of `WebPush` is `filter` by positions for
the same reason.

### BookingProviders, WebPush, Reminders

`BookingProviders`: `MockCreate`, and for Nemo `FindMatchingFlight`, `Book`,
`Ticket`, `CancelBooking`; each request may be carried out and its answer lost
(`unheard`), a call that fails leaves what it has reserved, and an answer of 2xx is
taken to say it was carried out, as the code takes it without a look at its body. A definition whose
comment begins "As ..." (`TicketForgiven`, `ScanGivesUp`, `LoadRetries`, `OldCaches`)
is a plausible mistake that a property is tested against, and no part of `Next`.
`WebPush` keeps the one thing that matters of `sendToUser`: whether the array it
mapped before its await is still the one `subscribe` appends to (`shared`), and
how many results it will have. `Settle` filters by the results: an endpoint is dropped
when its push failed with 410 (`expired`) and kept when it failed otherwise
(`failed`), or arrived before the browser gave it up. `Reminders`: the two `queue.add` calls of a freeze
are separate steps; `Take` and `ProcessJob` are the worker; `RestartWorker` makes
the jobs in hand stall, which BullMQ allows once. The other jobs of the queue have
no delay and go through the same switch.

### ServiceWorker, SearchPage, TelegramBot

`ServiceWorker`: one static cache per release (its name carries the version). A page
request of a tab is a step per `await` of `sw.js:65-92`: `MatchCaches`, `FetchPage`,
`FallBack`, each in the release it was sent to, so that another may install, take
over and delete its caches in between; `puts` are the writes `fetch` handlers start
and do not wait for, which may land after `Activate` has deleted their cache.
`SearchPage`: an airport field is a code and a label; suggestions are a list worked
out earlier, which `Blurred` closes 200 ms late; `searched` is a history variable,
the codes of the last search with the labels then shown. `TelegramBot`: a handler is
`opening` (a message or toast), `api`, `closing`, and on an error the apology or
bot.ts's own `catch`; `did` says whether the API did what it was asked, and an answer
is taken to say so. `refused` counts the messages of this update that Telegram
refused, `cut` says the process ended: the only excuses for an update that nobody
answers. The rate limit forgets nothing until a restart, as in the code. `/alerts`
and `/bookings` have no action because they cannot be reached (below).

## 3. The runs

| Run | Instance | Shows |
|---|---|---|
| `booking_cancel` | one request, three cancellations, a freeze, lists with and without two CFAR rows, fair handlers | cancellation safety, right claims, and `ImplementsContract`; requests end; payouts close bookings |
| `booking_create` | two requests of one buyer, two freezes (one another user's), two prices, one cancellation, payments with every status and with or without a page | the amounts add up; a discount is backed by a freeze; nobody pays for a booking that does not wait for it |
| `web_one` | one page, two users, every request answered, four seconds | the stored token is the live one and only its age signs out |
| `web_lossy` | one page, two call slots, two users, losses and failures | checks and forms end |
| `web_tabs` | two pages, two users | every check reaches a verdict; the profile stored is the tokens' user, unless a refresh is answered after the session changed hands |
| `search` | one page, one route, two dates, one search at a time, every source answering with at most one offer, one retry | results fit their key; a scan misses only what no entry has held all along; a charge that differs from the price shown is explained |
| `channels`: calculations | lists of up to four entries, prices on both sides of every clamp and rounding boundary; departures around every holiday and in every month; months of up to five days, with ties | the loop computes the closed form; the page shows what is charged; CFAR gives at least the price of the flight back and never less than the airline's half; following the advice to wait never leads into the last week; both colourings keep the order of the prices |
| `channels`: the rest | two orders; two endpoints and two sends; three releases and two URLs; one freeze and four days; two handlers, a user, seven kinds of update and four ticks; three airports | the properties of the six small modules; reminders are handled; the bot answers |

`channels` runs nine machines that share no variable: `scene` says which of them
moves, and for the three calculations of `MCQuote` the initial state does. Those stop
for good when the list, the month, the clock or the orders are used up, which is no
fault of the code, so this run does not check for deadlock.

Bounds. A hazard of cancellation takes two overlapping calls; the third allows
one to die between them and be repeated. A race for a freeze takes two requests.
Two prices and one frozen price between them make a freeze useful or useless in
`booking_create`; `booking_cancel`, where freezes matter less, has one. The theorems
below remove the bound on calls for the properties they cover. An
access token lives one second and a refresh token two in `web_one`, so four seconds
show each valid, expired, and renewed within its own second; in `web_lossy`, where any
request may fail, one second suffices to expire both, and in `web_tabs`, where two
users meet in one browser, the refresh token lives one as well.
Two dates suffice for two entries that name a flight alike, one retry (the code has
two) for a page that looks up twice, and an expired entry filled again for one
that is rewritten; that two searches miss at once and overwrite each other takes a
second search, which `doc_price_recheck` has, with parties of one and of two, and
the theorems have for any number. Two sends overlap; three releases let one be
skipped, and one tab lets both others take over while its request waits; four days hold
a reminder three days ahead and one the day before; with
a window of two ticks and a clock of three an update falls within, at the end and
past it.

Fairness. `HandlerRuns` and `CancellationRuns` are the steps only a restart can
hold up: the event loop runs them and the database answers or throws. The timer
of `yookassa.request` makes `PaymentError` one of them; that YooKassa answers, a
buyer pays or a freeze expires is not assumed. `HandleWebhook` is fair because
YooKassa repeats a notice until it is answered. In `WebSession` handlers run, a
request is answered or fails (fetch settles: the code sets no timeout of its own,
so this is the browser's), and a page follows its answer and its redirects; that
a user signs in, navigates or logs out is not assumed. In `channels`, days pass
(`NextDay`); the worker takes a job that stays due and processes what it has taken,
which is BullMQ's polling and a handler that awaits nothing of ours; a bot handler
takes its next step (`Serves`), as each of its awaits ends at the latest at the
10-second limit of its API client or with Telegram's error. No fairness is assumed
of users, of the push services, of Nemo or of a restart.

Runs that end in a violation each state what a document says and the code does not
do:

| Run | Document | What happens |
|---|---|---|
| `doc_freeze_once` | docs/Pseudocode.md:394 | one freeze, two bookings at its price |
| `doc_double_refund` | docs/Refinement.md:50 | two CFAR rows, two payouts, more than was paid |
| `doc_silent_refresh` | docs/Refinement.md:58 | two pages refresh with one token and sign the browser out |
| `doc_confirmed_paid` | docs/Pseudocode.md:87 | YooKassa's answer carries no page, and the unpaid booking is stored as CONFIRMED |
| `doc_price_recheck` | docs/Refinement.md:35 | the order is charged over 5% more than the page showed, unasked |

Read off the code, and not given a run of their own: an expired, used or foreign
freeze is ignored and the listed price charged (`booking.service.ts:132-150`;
docs/Pseudocode.md:539 refuses it); `price_freeze` is stored as a CFAR row with
premium 0 (`booking.service.ts:39`); a cancellation repeated after a failed one
answers with the airline's half although CFAR was paid (`booking.service.ts:476`);
two overlapping refreshes with one token are both answered
(`auth.service.ts:143-159`); logging out leaves the session open at the API, and
the late answer of another tab's refresh brings its tokens back; a
freeze spent before a payment fails stays spent (docs/Pseudocode.md:585-588 gives it
back); the webhook logs a payment and changes no booking
(README/eng/api-docs.md:601).

Of search: the key leaves out passengers and cabin; a comment says five minutes
where the entry lives 1800 s; generated flights depart a day early when the server
runs in UTC (`search.service.ts:327-328`), which `ResultsFitKey` excepts by name; the
green tier is "the cheapest 20%" plus one day and all that tie with it; the page
colours a month by rules of its own and may contradict the API's tiers. A day of
the calendar searches for one passenger while the form keeps its own numbers. The
predictor names savings of 15% where it expects a drop of 10%.

Of what surrounds it: the confirmation screen reads `bookingResult.booking` of a
value that is the booking itself (`page.tsx:163`), so an order without a payment
page ends in an error although it was made; an order may also be made and its buyer
told of an error. The providers and the notification service are called by nothing
yet. Nemo's flight is matched by a substring and by any segment, and the retry of
docs/Refinement.md:40 (EC-19) is not made; a ticket may be issued and its answer
lost. Push subscriptions live in memory and end with the process; of two
overlapping sends the later writes back what it filtered out of an older array. The
API cache of `sw.js` (not modelled) is keyed by the URL alone, and a late `put`
recreates a deleted cache; the button of the update banner messages a worker that
never waits. In the bot, `/alerts` and
`/bookings` are unreachable behind the text handler
(docs/features/telegram-bot/README.md:75-76), several API routes it calls do not
exist, the toast of `delete_alert` precedes the call, and `cancel_booking` calls
nothing.

## 4. The proofs

Every safety invariant and every action property that a run checks is also a
theorem, for all sets of calls, users, orders and so on, and without the bounds of
section 3. Liveness stays with TLC.

### Assumptions

The modules state them as named `ASSUME`s, and TLC evaluates them in every run: prices
and frozen prices are natural numbers and lists hold kinds the DTO accepts
(`Booking`, `Quote`); `NoFreeze` is no freeze, `NoArray` no array; releases are numbered
from 1 and the app shell has `/` (`ServiceWorker`); departures are days of one year
(`PricePrediction`); ids as described in section 2 (`FlightSearch`); windows and limits
are numbers. One group of theorems needs more and says so: `SessionCorrect`,
`StoredLive` and `Silent` one page and no losses.

### Booking

* `CfarPremiumInBounds`: the premium is between 1500 and 5000.
* `BookingProofs!TypeCorrect`: `Spec => []TypeOK`. Alone `TypeOK` is not inductive,
  because a call at `freeze` without a freeze would read a price that is none;
  `FreezeNamed` excludes it.
* `CancellationCorrect`: `Spec => []CancellationInv`, and from it `Voiding` and
  `Honouring`. A cancelled booking is CFAR-paid because the call that closes it
  passed `payout` or read no active CFAR row. The second case needs that CFAR rows
  of one booking are never all voided: a call voids only after it has paid, or has
  found, a paid row, and paid rows stay paid. All this must hold of every call in
  flight, and `CancellationInv` says it for each. `PayOutEffect` and `VoidEffect`
  give what a write does to the sets `CfarRows`, `ActiveRows` and `PaidRows`; the
  rest is about these sets.
* `Implements`: `Spec => ImplementsContract`, step by step from `CancellationInv`:
  saving sells, paying pays, closing closes, everything else stutters.
* `CreateCorrect`: `Spec => []CreateInv`, and from it `Discount` and `Payable`, and
  `Moves`. `CreateInv` says of each call, at each await, what price it has (`PriceTied`:
  the listed one, or that of a spent freeze of the buyer's own), which payment
  (`PaymentTied`: of the amount due) and which booking (`BookingTied`: of the payment's
  amount, and PENDING if the payment has a page), however the client's mode changes
  with a restart.
* `Payable`: whoever can still pay (the payment has a page and is pending) does so for
  a booking that is PENDING. That it is stored so is `SaveBooking`; that no
  cancellation closes it takes `CancellationInv`, because a call closes from a copy it
  read earlier: what it read was CONFIRMED, still is unless another call has closed
  it, and so never had a page. `Moves` allows the moves the documents give the
  webhook (README/eng/api-docs.md:601-602), which the code does not make.
* `MoneyCorrect`: `Spec => []MoneyInv`, and from it `Ledger` (with `CreateInv`),
  `Claimed` and `ProtectionsFinal`. `ClaimIsRefund` is not inductive: the amount
  a cancellation pays out was worked out from the copy it read, perhaps before
  other payouts. `RefundTied` says that it is still what its row is worth, which
  holds because nothing writes amounts after `SaveBooking`; `Ledgered` ties the total
  to the item and the premiums of the rows. The total is a sum over a list and the
  premiums a sum over rows in no order. `PremiumsAddUp` (in `PricingProofs`) shows
  that the two agree, by taking the least row at which they would not
  (`LeastNumber`: a non-empty set of naturals has a least element, from the library's
  well-foundedness of `<`). This stands in for induction, whose library theorems
  take an operator as a parameter.
* `ProtectionsFinal` is about every payout of a booking with one CFAR row: a late
  one finds the row paid, with the amount it is about to write, and never voided.

### Calculations

* `QuoteCorrect`: `Spec => []QuoteInv`: the accumulator is the closed form and the
  rows are those of the list so far. From it `LoopComputes`, `Shown` (a list with one
  entry for each box ticked, and its sum; the page's cap is the server's clamp, which is
  arithmetic and not a shared definition), `GivesBack` and `NeverWorse`, the last
  two from the bounds of a premium and of one premium among many.
* `WaitsInTime`, over every departure and distance: nearer than 21 days no season,
  weekday and holiday bring the score down to where waiting is advised, and
  `WaitEndsEarly` shows that from there each wait `EstimateWaitDays` gives ends with
  more than six days left.
  The attempt found two guards of a `CASE` in the model that overlapped where Python's
  `elif` does not, which TLC, taking the first, had passed over.
* `ColouringsAgree`: `TiersOrdered` for months of any length. A k-th smallest price
  exists (`SortedIs`) and is no less than an earlier one, so the two thresholds are in
  order, and so are the thirds of the page.

### Search and the booking page

* `StorefrontProofs!TypeCorrect`, for any number of pages, searches and sources. An
  order asks for the id of the flight shown, so the types need `FormShows`: a form
  shows a flight.
* `ResultsFit`: `Spec => []ResultsFitKey`, from `StoreInv`: every set of flights that is
  under a key or about to be stored fits it and names each flight once.
* `ScanFinds`: `Spec => []ScanFindsHeld`, from `ScanInv`: what has named the flight all
  along still does, and is still to be scanned. Searches and expiry may do
  anything else.
* `ChargeIsExplained`: `Spec => []ChargeExplained`, from `StoreInv` and `PageInv`: a page
  whose entry was not touched still has its flight in the cache, and two flights
  of the cache with one name are the same or of other searches (`Namesakes`, which
  uses `IdAssumption`).

### Session

* `WebSessionProofs!TypeCorrect`: the types, for any number of pages and with
  losses; `AllFit` adds that a page awaits a call exactly when it shows so.
* `SessionCorrect`, and from it `StoredLive` and `Silent`, assume one page
  (`Page = {p}`) and `~Lossy`. `StoredIsLive` says nothing while a refresh is under
  way; `SessionInv` does: the row a refresh has read cannot change before it
  writes, because no other call is under way (`OnlyCall`). Both assumptions are
  needed: `doc_silent_refresh` breaks the conclusion with a second page, and a lost
  answer leaves the browser without the token the API has moved to.
* `ProfileRight`, for any number of users, pages and calls and with losses: profile
  and tokens part only at the answer of a refresh of a page in `crossed`. It is
  about a step, so `PagesInv` has to say what each page's awaited call may answer:
  `OwnCall` that it answers for the user it was sent for, and, unless the page is in
  `crossed`, that this is still the stored one; `CallsApart` that no two pages await one
  call. Without the exception the conclusion is false: alice's refresh is under way
  when another tab logs out and signs bob in, and its answer stores alice's tokens
  under bob's profile (`lib/auth.ts:74`), a state `web_tabs` reaches.

### The small modules

* `AnswersMatch` from `OrderRight`, which says at each point of `createBooking` what is
  reserved at Nemo: a ticket nobody was told of is there only after an answer was lost.
* `Navigable`: any release that activates has stored its shell, and the caches it
  deletes are not its own; so whatever a request that is under way had hoped to find
  in them, "/" of the active release answers it. `RequestSteps` says so of each await.
* `ClaimsDone` from `DoneBeforeSaid`: a handler that is about to say so has been
  answered by the API.
* `Limited`: an update is let through only a window after the last one of its user
  (`LetThrough`), and no note is later than the clock (`LimitInv`).
* `SubmitsShown`: every operation writes a code and its label together, or clears the
  code; so the last search is for the labels it was made under.
* `NoSilentLoss` from `OneSend`: as long as no two sends have overlapped, the one that
  waits has mapped the very array that `subscribe` appends to, so what it filters out
  of that array loses nobody. `Filtered` keeps the elements asked for, each once and
  in order.

### Only model-checked

Liveness, which the provers cannot treat: `RequestAnswered`, `PayoutClosesBooking`,
`CheckEnds`, `FormAnswers`, `CheckDecides`, `JobsHandled` and `PassedIsAnswered`. What
the runs of documents violate has no theorem, of course.

## 5. The plan

Done: `Pricing`, `Quote`, `Booking`, `CfarContract`; `Auth`, `WebSession`; search, the
booking page and the calendar; the providers, notifications, web push, service
worker, search form and bot; the rules of the ML service; proofs of every safety
property the runs check.

Left: what two pages still guarantee of the stored token, as a theorem beside
`CheckDecides`; the hazards `PROJECT.json` lists without a property; a `search` run with
a second route or two searches at once, which takes TLC longer than five minutes
(the theorems cover both).

### Not modelled

* Fintech and User: their operations are stubs that keep no state. Active freezes
  are therefore given by `Init` in `Booking`.
* Prediction: answers one constant and caches it; nothing depends on it, and it does
  not call the ML service.
* API infrastructure (modules, connections, error filter), DTO validation, the
  shared package's constants, rendering, and vendored or generated files.
* Partly modelled: `getBookings` and `getPayment` read only; the booking page's
  passenger fields and its refetch on focus; the dashboard and the list of
  bookings, which render server state; React Query's cache, which may show a flight
  for 60 s without a lookup (`layout.tsx:23`); the form's date, passengers and
  address; push and click of the service worker, which show a notification and open a
    page, its API cache and the update banner; the bodies of the providers' answers;
  `/retrain`, confidence and savings of the ML
  service; the bot's parsing and texts; the columns no handler modelled here reads.
