--------------------------- MODULE ChannelsProofs ---------------------------
(***************************************************************************)
(* The parts beside the booking service, each for any number of orders,    *)
(* releases, tabs, handlers and browsers: the booking providers, the       *)
(* service worker, the Telegram bot, the search form and web push.         *)
(***************************************************************************)
EXTENDS BookingProviders, WebPush, ServiceWorker, TelegramBot, SearchPage,
        PricingProofs, SequenceTheorems

-----------------------------------------------------------------------------
(* BookingProviders *)

\* What is reserved at Nemo at each point of createBooking, and after it.
OrderRight(at, made, lost, cancelling) ==
  /\ at \in {"idle", "search", "book"} => made = "none" /\ ~lost /\ cancelling = "idle"
  /\ at = "ticket" => made = "booked" /\ ~lost /\ cancelling = "idle"
  /\ at = "confirmed" => /\ made \in {"ticketed", "cancelled"} /\ ~lost
                         /\ cancelling = "done" => made = "cancelled"
  /\ at = "failed" => (made = "ticketed" => lost) /\ cancelling = "idle"

ProvidersType ==
  /\ call \in [Order -> {"idle", "search", "book", "ticket", "confirmed", "failed"}]
  /\ reservation \in [Order -> {"none", "booked", "ticketed", "cancelled"}]
  /\ unheard \in [Order -> BOOLEAN]
  /\ cancel \in [Order -> {"idle", "done", "failed"}]

ProvidersInv ==
  /\ ProvidersType
  /\ provider = "nemo" =>
       \A o \in Order : OrderRight(call[o], reservation[o], unheard[o], cancel[o])

LEMMA ProvidersTypeStep == ASSUME ProvidersType, [ProvidersNext]_providerVars PROVE ProvidersType'
<1>1. ASSUME NEW o \in Order, MockCreate(o) PROVE ProvidersType'
  BY <1>1 DEF MockCreate, Answer, ProvidersType
<1>2. ASSUME NEW o \in Order, NemoCreate(o) PROVE ProvidersType'
  BY <1>2 DEF NemoCreate, Answer, ProvidersType
<1>3. ASSUME NEW o \in Order, FindMatchingFlight(o) PROVE ProvidersType'
  BY <1>3 DEF FindMatchingFlight, Answer, ProvidersType
<1>4. ASSUME NEW o \in Order, Book(o) PROVE ProvidersType'
  BY <1>4 DEF Book, Request, Answer, ProvidersType
<1>5. ASSUME NEW o \in Order, Ticket(o) PROVE ProvidersType'
  BY <1>5 DEF Ticket, Request, Answer, ProvidersType
<1>6. ASSUME NEW o \in Order, CancelBooking(o) PROVE ProvidersType'
  BY <1>6 DEF CancelBooking, ProvidersType
<1>7. ASSUME UNCHANGED providerVars PROVE ProvidersType'
  BY <1>7 DEF providerVars, ProvidersType
<1> QED
  BY <1>1, <1>2, <1>3, <1>4, <1>5, <1>6, <1>7 DEF ProvidersNext

\* A step of createBooking or cancelBooking changes what is known of its own order.
OrderMoves(o) ==
  /\ provider' = provider
  /\ \A d \in Order \ {o} :
       /\ call'[d] = call[d] /\ reservation'[d] = reservation[d]
       /\ unheard'[d] = unheard[d] /\ cancel'[d] = cancel[d]
  /\ provider = "nemo" => OrderRight(call'[o], reservation'[o], unheard'[o], cancel'[o])

LEMMA OrderSteps ==
  ASSUME ProvidersInv, NEW o \in Order,
         \/ MockCreate(o) \/ NemoCreate(o) \/ FindMatchingFlight(o)
         \/ Book(o) \/ Ticket(o) \/ CancelBooking(o)
  PROVE  OrderMoves(o)
<1>1. ProvidersType
      /\ (provider = "nemo" => OrderRight(call[o], reservation[o], unheard[o], cancel[o]))
  BY DEF ProvidersInv
<1>2. CASE MockCreate(o)
  BY <1>1, <1>2 DEF MockCreate, Answer, ProvidersType, OrderMoves
<1>3. CASE NemoCreate(o)
  BY <1>1, <1>3 DEF NemoCreate, Answer, ProvidersType, OrderMoves, OrderRight
<1>4. CASE FindMatchingFlight(o)
  BY <1>1, <1>4 DEF FindMatchingFlight, Answer, ProvidersType, OrderMoves, OrderRight
<1>5. CASE Book(o)
  BY <1>1, <1>5 DEF Book, Request, Answer, ProvidersType, OrderMoves, OrderRight
<1>6. CASE Ticket(o)
  BY <1>1, <1>6 DEF Ticket, Request, Answer, ProvidersType, OrderMoves, OrderRight
<1>7. CASE CancelBooking(o)
  BY <1>1, <1>7 DEF CancelBooking, ProvidersType, OrderMoves, OrderRight
<1> QED
  BY <1>2, <1>3, <1>4, <1>5, <1>6, <1>7

\* What Nemo's provider answers is what Nemo has, whichever answers of Nemo's are
\* lost and however many calls are under way.
THEOREM AnswersMatch == ProvidersSpec => []AnswerMatches
<1>1. ProvidersInit => ProvidersInv
  BY DEF ProvidersInit, ProvidersInv, ProvidersType, OrderRight
<1>2. ProvidersInv /\ [ProvidersNext]_providerVars => ProvidersInv'
  <2>1. ASSUME ProvidersInv, ProvidersNext PROVE ProvidersInv'
    <3>1. ProvidersType'
      BY <2>1, ProvidersTypeStep DEF ProvidersInv
    <3>2. PICK o \in Order : OrderMoves(o)
      BY <2>1, OrderSteps DEF ProvidersNext
    <3>3. ASSUME provider' = "nemo", NEW d \in Order
          PROVE  OrderRight(call'[d], reservation'[d], unheard'[d], cancel'[d])
      <4>1. CASE d = o
        BY <3>2, <3>3, <4>1 DEF OrderMoves
      <4>2. CASE d # o
        BY <2>1, <3>2, <3>3, <4>2 DEF OrderMoves, ProvidersInv
      <4> QED
        BY <4>1, <4>2
    <3> QED
      BY <3>1, <3>3 DEF ProvidersInv
  <2>2. ASSUME ProvidersInv, UNCHANGED providerVars PROVE ProvidersInv'
    BY <2>2 DEF ProvidersInv, ProvidersType, providerVars
  <2> QED
    BY <2>1, <2>2
<1>3. ProvidersInv => AnswerMatches
  BY DEF ProvidersInv, ProvidersType, AnswerMatches, OrderRight
<1> QED
  BY <1>1, <1>2, <1>3, PTL DEF ProvidersSpec

-----------------------------------------------------------------------------
(* ServiceWorker *)

\* A request under way is in the hands of a release, and some release is in control.
WorkerInv ==
  /\ deployed \in Release /\ installing \in Release \cup {0} /\ active \in Release \cup {0}
  /\ pages \in [Release -> SUBSET Url]
  /\ puts \subseteq Release \X Url
  /\ request \in [Tab -> [awaits : {"nothing", "caches", "network", "shell"},
                          by : Release \cup {0}, url : Url]]
  /\ \A t \in Tab : request[t].awaits # "nothing" => request[t].by \in Release /\ active # 0
  /\ served \in [Tab -> {"none", "cache", "network", "shell", "nothing"}]
  /\ NavigationAnswered

\* A step of a request leaves the other tabs', the workers and the caches alone, and does
\* not answer with nothing.
RequestMoves(t) ==
  /\ UNCHANGED <<deployed, installing, active, pages>>
  /\ puts' \subseteq Release \X Url
  /\ \E r \in [awaits : {"nothing", "caches", "network", "shell"},
               by : Release \cup {0}, url : Url] :
       /\ request' = [request EXCEPT ![t] = r]
       /\ r.awaits # "nothing" => r.by \in Release /\ active # 0
  /\ \/ served' = served
     \/ \E how \in {"cache", "network", "shell"} : served' = [served EXCEPT ![t] = how]

LEMMA RequestSteps ==
  ASSUME WorkerInv, NEW t \in Tab,
         (\E u \in Url : Navigate(t, u)) \/ MatchCaches(t) \/ FetchPage(t) \/ FallBack(t)
  PROVE  RequestMoves(t)
<1> DEFINE Requests == [awaits : {"nothing", "caches", "network", "shell"},
                        by : Release \cup {0}, url : Url]
<1>0. 0 \notin Release /\ "/" \in Url /\ NoRequest \in Requests /\ NoRequest.awaits = "nothing"
  BY WorkerAssumption DEF Url, NoRequest
<1>1. ASSUME NEW u \in Url, Navigate(t, u) PROVE RequestMoves(t)
  <2>1. [awaits |-> "caches", by |-> active, url |-> u] \in Requests /\ active \in Release
    BY <1>1 DEF Navigate, WorkerInv
  <2> QED
    BY <1>1, <2>1 DEF Navigate, WorkerInv, RequestMoves
<1>2. request[t] \in Requests
  BY DEF WorkerInv
<1>3. ASSUME request[t].awaits # "nothing", NEW what \in {"network", "shell"}, Await(t, what)
      PROVE  \E r \in Requests : /\ request' = [request EXCEPT ![t] = r]
                                 /\ r.awaits # "nothing" => r.by \in Release /\ active # 0
  <2>1. request' = [request EXCEPT ![t] = [request[t] EXCEPT !.awaits = what]]
    BY <1>3 DEF Await
  <2>2. [request[t] EXCEPT !.awaits = what] \in Requests
        /\ [request[t] EXCEPT !.awaits = what].by = request[t].by
    BY <1>2, <1>3
  <2>3. request[t].by \in Release /\ active # 0
    BY <1>3 DEF WorkerInv
  <2> QED
    BY <2>1, <2>2, <2>3
<1>4. ASSUME request[t].awaits # "nothing"
      PROVE  puts \subseteq Release \X Url /\ (Keep(t) => puts' \subseteq Release \X Url)
  BY <1>2, <1>4 DEF WorkerInv, Keep
<1>5. ASSUME NEW how \in {"cache", "network", "shell"}, Respond(t, how)
      PROVE  /\ served' = [served EXCEPT ![t] = how]
             /\ \E r \in Requests : /\ request' = [request EXCEPT ![t] = r]
                                    /\ r.awaits # "nothing" => r.by \in Release /\ active # 0
  BY <1>0, <1>5 DEF Respond
<1> HIDE DEF Requests
<1>6. CASE MatchCaches(t)
  <2>1. request[t].awaits # "nothing" /\ UNCHANGED <<deployed, installing, active, pages>>
        /\ (Keep(t) \/ UNCHANGED puts)
    BY <1>6 DEF MatchCaches
  <2>2. Respond(t, "cache") \/ Await(t, "network")
    BY <1>6 DEF MatchCaches
  <2>3. CASE Respond(t, "cache")
    BY <1>4, <1>5, <2>1, <2>3 DEF RequestMoves, Requests
  <2>4. CASE Await(t, "network")
    BY <1>3, <1>4, <2>1, <2>4 DEF RequestMoves, Requests, Await
  <2> QED
    BY <2>2, <2>3, <2>4
<1>7. CASE FetchPage(t)
  <2>1. request[t].awaits # "nothing" /\ UNCHANGED <<deployed, installing, active, pages>>
        /\ (Keep(t) \/ UNCHANGED puts)
    BY <1>7 DEF FetchPage
  <2>2. Respond(t, "network") \/ Await(t, "shell")
    BY <1>7 DEF FetchPage
  <2>3. CASE Respond(t, "network")
    BY <1>4, <1>5, <2>1, <2>3 DEF RequestMoves, Requests
  <2>4. CASE Await(t, "shell")
    BY <1>3, <1>4, <2>1, <2>4 DEF RequestMoves, Requests, Await
  <2> QED
    BY <2>2, <2>3, <2>4
<1>8. CASE FallBack(t)
  <2>1. request[t].awaits # "nothing" /\ UNCHANGED <<deployed, installing, active, pages, puts>>
    BY <1>8 DEF FallBack
  <2>2. active \in Release /\ "/" \in pages[active]
    BY <2>1, WorkerAssumption DEF WorkerInv, NavigationAnswered
  <2>3. Respond(t, "shell")
    BY <1>8, <2>2 DEF FallBack, Cached
  <2> QED
    BY <1>4, <1>5, <2>1, <2>3 DEF RequestMoves, Requests
<1> QED
  BY <1>1, <1>6, <1>7, <1>8

LEMMA WorkerInvStep == ASSUME WorkerInv, [WorkerNext]_workerVars PROVE WorkerInv'
<1>0. 0 \notin Release /\ "/" \in Shell /\ Shell \subseteq Url
  BY WorkerAssumption DEF Url
<1>1. ASSUME Deploy PROVE WorkerInv'
  BY <1>1 DEF Deploy, WorkerInv, NavigationAnswered
<1>2. ASSUME FindUpdate PROVE WorkerInv'
  BY <1>2 DEF FindUpdate, WorkerInv, NavigationAnswered
<1>3. ASSUME Install PROVE WorkerInv'
  <2>1. installing \in Release
    BY <1>3 DEF Install, WorkerInv
  <2>2. pages' \in [Release -> SUBSET Url] /\ \A r \in Release : pages[r] \subseteq pages'[r]
    BY <1>0, <1>3, <2>1 DEF Install, WorkerInv
  <2>3. UNCHANGED <<deployed, active, puts, request, served>> /\ installing' \in Release \cup {0}
    BY <1>3, <2>1 DEF Install
  <2> QED
    BY <1>0, <2>2, <2>3 DEF WorkerInv, NavigationAnswered
<1>4. ASSUME Activate PROVE WorkerInv'
  BY <1>4 DEF Activate, CurrentCaches, WorkerInv, NavigationAnswered
<1>5. ASSUME NEW t \in Tab,
             (\E u \in Url : Navigate(t, u)) \/ MatchCaches(t) \/ FetchPage(t) \/ FallBack(t)
      PROVE  WorkerInv'
  BY <1>5, RequestSteps DEF RequestMoves, WorkerInv, NavigationAnswered
<1>6. ASSUME NEW p \in puts, PutPage(p) PROVE WorkerInv'
  <2>1. p[1] \in Release /\ p[2] \in Url
    BY DEF WorkerInv
  <2>2. pages' \in [Release -> SUBSET Url] /\ \A r \in Release : pages[r] \subseteq pages'[r]
    BY <1>6, <2>1 DEF PutPage, WorkerInv
  <2>3. UNCHANGED <<deployed, installing, active, request, served>> /\ puts' \subseteq puts
    BY <1>6 DEF PutPage
  <2> QED
    BY <1>0, <2>2, <2>3 DEF WorkerInv, NavigationAnswered
<1>7. ASSUME Connection PROVE WorkerInv'
  BY <1>7 DEF Connection, WorkerInv, NavigationAnswered
<1>8. ASSUME UNCHANGED workerVars PROVE WorkerInv'
  BY <1>8 DEF workerVars, WorkerInv, NavigationAnswered
<1> QED
  BY <1>1, <1>2, <1>3, <1>4, <1>5, <1>6, <1>7, <1>8 DEF WorkerNext

\* Through any number of releases, installed, failed and taken over while any number of
\* tabs have requests under way, no page request is left without a page, online or not.
THEOREM Navigable == WorkerSpec => []NavigationAnswered
<1>1. WorkerInit => WorkerInv
  BY WorkerAssumption DEF WorkerInit, WorkerInv, NavigationAnswered, NoRequest, Url
<1>2. WorkerInv /\ [WorkerNext]_workerVars => WorkerInv'
  BY WorkerInvStep
<1>3. WorkerInv => NavigationAnswered
  BY DEF WorkerInv
<1> QED
  BY <1>1, <1>2, <1>3, PTL DEF WorkerSpec

-----------------------------------------------------------------------------
(* TelegramBot *)

BotType ==
  /\ kind \in [Handler -> Kind]
  /\ stage \in [Handler -> {"idle", "opening", "api", "closing", "apology", "generic"}]
  /\ did \in [Handler -> BOOLEAN]
  /\ outcome \in [Handler -> {"none", "success", "error", "generic", "nothing"}]

\* An update that writes is done before its handler begins to say so.
DoneBeforeSaid ==
  \A h \in Handler :
    kind[h] \in Writes /\ (stage[h] = "closing" \/ outcome[h] = "success") => did[h]

ClaimsInv == BotType /\ DoneBeforeSaid

LEMMA ClaimsInvStep == ASSUME ClaimsInv, [BotNext]_botVars PROVE ClaimsInv'
<1> USE DEF ClaimsInv, BotType, DoneBeforeSaid
<1>1. ASSUME NEW h \in Handler, NEW u \in Chatter, Receive(h, u) PROVE ClaimsInv'
  <2>1. CASE UNCHANGED <<kind, stage, did, outcome, refused, cut>>
    BY <2>1
  <2>2. ASSUME NEW k \in Received, Begin(h, k) PROVE ClaimsInv'
    <3>1. k \in Kind
      BY BotAssumption
    <3>2. First(k) \in {"opening", "api", "closing"} /\ (k \in Writes => First(k) = "opening")
      BY <3>1 DEF First, Writes, Opens, Kind
    <3> HIDE DEF Kind
    <3>3. /\ kind' = [kind EXCEPT ![h] = k] /\ stage' = [stage EXCEPT ![h] = First(k)]
          /\ did' = [did EXCEPT ![h] = FALSE] /\ outcome' = [outcome EXCEPT ![h] = "none"]
      BY <2>2 DEF Begin
    <3>4. BotType'
      BY <3>1, <3>2, <3>3
    <3>5. ASSUME NEW d \in Handler, kind'[d] \in Writes, stage'[d] = "closing" \/ outcome'[d] = "success"
          PROVE did'[d]
      <4>1. CASE d = h
        BY <3>2, <3>3, <3>5, <4>1
      <4>2. CASE d # h
        BY <3>3, <3>5, <4>2
      <4> QED
        BY <4>1, <4>2
    <3> QED
      BY <3>4, <3>5
  <2> QED
    BY <1>1, <2>1, <2>2 DEF Receive
<1>2. ASSUME NEW h \in Handler, Open(h) PROVE ClaimsInv'
  <2>1. kind[h] \in Writes => kind[h] \in CallsApi
    BY DEF Writes, CallsApi
  <2> QED
    BY <1>2, <2>1 DEF Open, GoTo
<1>3. ASSUME NEW h \in Handler, CallApi(h) PROVE ClaimsInv'
  <2>1. kind[h] \in Writes => kind[h] # "start"
    BY DEF Writes
  <2> QED
    BY <1>3, <2>1 DEF CallApi, GoTo
<1>4. ASSUME NEW h \in Handler, Close(h) PROVE ClaimsInv'
  BY <1>4 DEF Close, GoTo, End
<1>5. ASSUME NEW h \in Handler, Apologize(h) PROVE ClaimsInv'
  BY <1>5 DEF Apologize, GoTo, End
<1>6. ASSUME NEW h \in Handler, CatchAll(h) PROVE ClaimsInv'
  BY <1>6 DEF CatchAll, End
<1>7. ASSUME Tick PROVE ClaimsInv'
  BY <1>7 DEF Tick
<1>8. ASSUME RestartBot PROVE ClaimsInv'
  BY <1>8 DEF RestartBot, Kind
<1>9. ASSUME UNCHANGED botVars PROVE ClaimsInv'
  BY <1>9 DEF botVars
<1> QED
  BY <1>1, <1>2, <1>3, <1>4, <1>5, <1>6, <1>7, <1>8, <1>9 DEF BotNext

\* No message says a booking was made, a price frozen or an alert deleted before the
\* API did it, however many updates are handled side by side and whatever fails.
THEOREM ClaimsDone == BotSpec => []ClaimsAreDone
<1>1. BotInit => ClaimsInv
  BY DEF BotInit, ClaimsInv, BotType, DoneBeforeSaid, Kind
<1>2. ClaimsInv /\ [BotNext]_botVars => ClaimsInv'
  BY ClaimsInvStep
<1>3. ClaimsInv => ClaimsAreDone
  BY DEF ClaimsInv, DoneBeforeSaid, ClaimsAreDone
<1> QED
  BY <1>1, <1>2, <1>3, PTL DEF BotSpec

\* The messages let through are apart, and none is of the future.
LimitInv ==
  /\ tick \in Nat
  /\ lastMessage \in [Chatter -> Seq(Nat)]
  /\ \A u \in Chatter : \A i \in DOMAIN lastMessage[u] : lastMessage[u][i] <= tick
  /\ RateLimited

LEMMA LimitInvStep == ASSUME LimitInv, [BotNext]_botVars PROVE LimitInv'
<1> USE DEF LimitInv, RateLimited
<1>1. ASSUME NEW h \in Handler, NEW u \in Chatter, Receive(h, u) PROVE LimitInv'
  <2>1. /\ tick' = tick /\ tick \in Nat
        /\ lastMessage' = [lastMessage EXCEPT ![u] = Append(lastMessage[u], tick)]
        /\ LetThrough(u)
    BY <1>1 DEF Receive, Note
  <2>2. PICK s \in Seq(Nat) : s = lastMessage[u]
    OBVIOUS
  <2>3. /\ \A i \in 1..Len(s) : s[i] \in Nat /\ s[i] <= tick
        /\ \A i, j \in 1..Len(s) : i < j => s[j] - s[i] >= Window
        /\ \A i \in 1..Len(s) : i = Len(s) => tick - s[i] >= Window
    <3>1. \A i \in 1..Len(s) : s[i] \in Nat
      BY <2>2
    <3>2. DOMAIN lastMessage[u] = 1..Len(s)
      BY <2>2
    <3>3. \A i \in 1..Len(s) : s[i] <= tick
      BY <2>2, <3>2
    <3>4. \A i, j \in 1..Len(s) : i < j => s[j] - s[i] >= Window
      BY <2>2, <3>2
    <3>5. \A i \in 1..Len(s) : i = Len(s) => tick - s[i] >= Window
      BY <2>1, <2>2, <3>2 DEF LetThrough
    <3> QED
      BY <3>1, <3>3, <3>4, <3>5
  <2>4. \A i \in 1..Len(s) : tick - s[i] >= Window
    <3>1. ASSUME NEW i \in 1..Len(s) PROVE tick - s[i] >= Window
      <4>1. CASE i = Len(s)
        BY <2>3, <4>1
      <4>2. CASE i < Len(s)
        <5>1. Len(s) \in 1..Len(s)
          BY <4>2
        <5>2. s[Len(s)] - s[i] >= Window /\ s[Len(s)] <= tick /\ s[i] \in Nat /\ s[Len(s)] \in Nat
          BY <2>3, <4>2, <5>1
        <5> QED
          BY <2>1, <5>2, BotAssumption
      <4> QED
        BY <4>1, <4>2
    <3> QED
      BY <3>1
  <2>5. PICK t \in Seq(Nat) : t = Append(s, tick)
    BY <2>1, <2>2, AppendProperties
  <2>6. /\ Len(t) = Len(s) + 1 /\ t[Len(s) + 1] = tick
        /\ \A i \in 1..Len(s) : t[i] = s[i]
    <3>1. s \in Seq(Nat) /\ tick \in Nat
      BY <2>1, <2>2
    <3>2. /\ Len(Append(s, tick)) = Len(s) + 1 /\ Append(s, tick)[Len(s) + 1] = tick
          /\ \A i \in 1..Len(s) : Append(s, tick)[i] = s[i]
      BY <3>1, AppendProperties
    <3> QED
      BY <2>5, <3>2
  <2>7. \A i \in 1..Len(t) : t[i] <= tick
    <3>1. Len(s) \in Nat /\ \A i \in 1..Len(t) : i \in 1..Len(s) \/ i = Len(s) + 1
      BY <2>2, <2>6
    <3>2. ASSUME NEW i \in 1..Len(t) PROVE t[i] <= tick
      <4>1. CASE i = Len(s) + 1
        BY <2>1, <2>6, <4>1
      <4>2. CASE i \in 1..Len(s)
        <5>1. t[i] = s[i]
          BY <2>6, <4>2
        <5>2. s[i] <= tick
          BY <2>3, <4>2
        <5> QED
          BY <5>1, <5>2
      <4> QED
        BY <3>1, <4>1, <4>2
    <3> QED
      BY <3>2
  <2>8. \A i, j \in 1..Len(t) : i < j => t[j] - t[i] >= Window
    <3>1. ASSUME NEW i \in 1..Len(t), NEW j \in 1..Len(t), i < j PROVE t[j] - t[i] >= Window
      <4>1. i \in 1..Len(s)
        BY <2>6, <3>1
      <4>2. CASE j = Len(s) + 1
        BY <2>4, <2>6, <4>1, <4>2
      <4>3. CASE j # Len(s) + 1
        <5>1. j \in 1..Len(s)
          BY <2>6, <4>3
        <5> QED
          BY <2>3, <2>6, <3>1, <4>1, <5>1
      <4> QED
        BY <4>2, <4>3
    <3> QED
      BY <3>1
  <2>9. lastMessage' = [lastMessage EXCEPT ![u] = t]
    BY <2>1, <2>2, <2>5
  <2>10. lastMessage' \in [Chatter -> Seq(Nat)]
    BY <2>9
  <2>11. ASSUME NEW v \in Chatter
         PROVE  /\ \A i \in DOMAIN lastMessage'[v] : lastMessage'[v][i] <= tick
                /\ \A i, j \in DOMAIN lastMessage'[v] :
                     i < j => lastMessage'[v][j] - lastMessage'[v][i] >= Window
    <3>1. CASE v = u
      <4>1. lastMessage'[v] = t /\ DOMAIN t = 1..Len(t)
        BY <2>9, <3>1
      <4> QED
        BY <2>7, <2>8, <4>1
    <3>2. CASE v # u
      <4>1. lastMessage'[v] = lastMessage[v]
        BY <2>9, <3>2
      <4> QED
        BY <4>1
    <3> QED
      BY <3>1, <3>2
  <2> QED
    BY <2>1, <2>10, <2>11
<1>2. ASSUME tick \in Nat, Tick PROVE LimitInv'
  <2>1. tick' = tick + 1 /\ lastMessage' = lastMessage
    BY <1>2 DEF Tick
  <2>2. ASSUME NEW u \in Chatter, NEW i \in DOMAIN lastMessage[u] PROVE lastMessage[u][i] <= tick + 1
    <3>1. lastMessage[u] \in Seq(Nat)
      OBVIOUS
    <3>2. lastMessage[u][i] \in Nat /\ lastMessage[u][i] <= tick
      BY <3>1
    <3> QED
      BY <1>2, <3>2
  <2> QED
    BY <1>2, <2>1, <2>2
<1>3. ASSUME RestartBot PROVE LimitInv'
  BY <1>3 DEF RestartBot
<1>4. ASSUME UNCHANGED <<tick, lastMessage>> PROVE LimitInv'
  BY <1>4
<1>5. ASSUME NEW h \in Handler, Serves(h) PROVE UNCHANGED <<tick, lastMessage>>
  BY <1>5 DEF Serves, Open, CallApi, Close, Apologize, CatchAll
<1> QED
  BY <1>1, <1>2, <1>3, <1>4, <1>5 DEF BotNext, Serves, botVars

\* Of the updates of one user that are handled, any two are a window apart, however
\* many there are.
THEOREM Limited == BotSpec => []RateLimited
<1>1. BotInit => LimitInv
  BY DEF BotInit, LimitInv, RateLimited
<1>2. LimitInv /\ [BotNext]_botVars => LimitInv'
  BY LimitInvStep
<1>3. LimitInv => RateLimited
  BY DEF LimitInv
<1> QED
  BY <1>1, <1>2, <1>3, PTL DEF BotSpec

-----------------------------------------------------------------------------
(* SearchPage *)

\* A field that has a code shows its airport, or, typed in, has no code.
PageInv ==
  /\ code \in [Fields -> Airport \cup {Nothing}]
  /\ label \in [Fields -> Label]
  /\ suggested \in [Fields -> SUBSET Airport]
  /\ \A x \in Fields : code[x] # Nothing => label[x] = code[x]
  /\ SubmitsWhatItShows

LEMMA PageInvStep == ASSUME PageInv, [SearchPageNext]_pageFormVars PROVE PageInv'
<1> USE DEF PageInv, SubmitsWhatItShows, Label
<1>1. \A x \in Fields : \A S \in FilterAirports(x) : S \subseteq Airport
  BY DEF FilterAirports
<1>2. ASSUME NEW x \in Fields, Type(x) PROVE PageInv'
  BY <1>1, <1>2 DEF Type, Set, Suggest
<1>3. ASSUME NEW x \in Fields, Focus(x) PROVE PageInv'
  BY <1>1, <1>3 DEF Focus, Suggest
<1>4. ASSUME NEW x \in Fields, Blurred(x) PROVE PageInv'
  BY <1>4 DEF Blurred, Suggest
<1>5. ASSUME NEW x \in Fields, NEW a \in Airport, Select(x, a) PROVE PageInv'
  BY <1>5 DEF Select, Set, Suggest
<1>6. ASSUME SwapAirports PROVE PageInv'
  <2>1. \A x \in Fields : OtherField[x] \in Fields
    BY DEF OtherField, Fields
  <2> QED
    BY <1>6, <2>1 DEF SwapAirports
<1>7. ASSUME HandleSubmit PROVE PageInv'
  <2>1. \A x \in Fields : code[x] \in Airport /\ label[x] = code[x]
    BY <1>7 DEF HandleSubmit
  <2>2. SubmitsWhatItShows'
    <3>1. searched' = {[codes |-> code, labels |-> label]}
      BY <1>7 DEF HandleSubmit
    <3> QED
      BY <2>1, <3>1
  <2>3. code' = code /\ label' \in [Fields -> Label] /\ \A x \in Fields : label'[x] = code[x]
    BY <1>7, <2>1 DEF HandleSubmit
  <2>4. suggested' \in [Fields -> SUBSET Airport]
    BY <1>7 DEF HandleSubmit
  <2> QED
    BY <2>2, <2>3, <2>4
<1>8. ASSUME UNCHANGED pageFormVars PROVE PageInv'
  BY <1>8 DEF pageFormVars
<1> QED
  BY <1>2, <1>3, <1>4, <1>5, <1>6, <1>7, <1>8 DEF SearchPageNext

\* Whatever is typed, selected, swapped and left, the form searches for the airports
\* its fields show, and for both of them.
THEOREM SubmitsShown == SearchPageSpec => []SubmitsWhatItShows
<1>1. SearchPageInit => PageInv
  BY DEF SearchPageInit, PageInv, SubmitsWhatItShows, Label
<1>2. PageInv /\ [SearchPageNext]_pageFormVars => PageInv'
  BY PageInvStep
<1>3. PageInv => SubmitsWhatItShows
  BY DEF PageInv
<1> QED
  BY <1>1, <1>2, <1>3, PTL DEF SearchPageSpec

-----------------------------------------------------------------------------
(* WebPush: Array.filter, then the subscriptions *)

\* How many of the positions kept come no later than i: where a[i] goes.
Rank(keep, i) == Cardinality({j \in keep : j <= i})

LEMMA RankType ==
  ASSUME NEW n \in Nat, NEW keep \in SUBSET (1..n)
  PROVE  /\ IsFiniteSet(keep) /\ Cardinality(keep) \in Nat
         /\ \A i \in Int : IsFiniteSet({j \in keep : j <= i}) /\ Rank(keep, i) \in 0..Cardinality(keep)
<1>1. IsFiniteSet(keep)
  <2>1. IsFiniteSet(1..n)
    BY FS_Interval
  <2> QED
    BY <2>1, FS_Subset
<1>2. Cardinality(keep) \in Nat
  BY <1>1, FS_CardinalityType
<1>3. ASSUME NEW i \in Int
      PROVE  IsFiniteSet({j \in keep : j <= i}) /\ Rank(keep, i) \in 0..Cardinality(keep)
  <2>1. {j \in keep : j <= i} \in SUBSET keep
    OBVIOUS
  <2>2. IsFiniteSet({j \in keep : j <= i}) /\ Rank(keep, i) <= Cardinality(keep)
    BY <1>1, <2>1, FS_Subset DEF Rank
  <2>3. Rank(keep, i) \in Nat
    BY <2>2, FS_CardinalityType DEF Rank
  <2> QED
    BY <1>2, <2>2, <2>3
<1> QED
  BY <1>1, <1>2, <1>3

LEMMA RankGrows ==
  ASSUME NEW n \in Nat, NEW keep \in SUBSET (1..n), NEW i \in 1..n
  PROVE  Rank(keep, i) = Rank(keep, i - 1) + (IF i \in keep THEN 1 ELSE 0)
<1> DEFINE upTo == {j \in keep : j <= i}
           before == {j \in keep : j <= i - 1}
<1>0. \A j \in keep : j \in 1..n
  OBVIOUS
<1>1. IsFiniteSet(before) /\ Cardinality(before) \in Nat
  <2>1. i - 1 \in Int
    OBVIOUS
  <2>2. IsFiniteSet(before)
    BY <2>1, RankType
  <2> QED
    BY <2>2, FS_CardinalityType
<1>2. CASE i \in keep
  <2>1. upTo = before \cup {i} /\ i \notin before
    <3>1. \A j \in keep : j <= i <=> j <= i - 1 \/ j = i
      BY <1>0
    <3>2. upTo \subseteq before \cup {i}
      BY <1>0, <3>1
    <3>3. before \cup {i} \subseteq upTo
      BY <1>0, <1>2, <3>1
    <3>4. i \notin before
      BY <1>0
    <3> QED
      BY <3>2, <3>3, <3>4
  <2>2. Cardinality(before \cup {i}) = Cardinality(before) + 1
    BY <1>1, <2>1, FS_AddElement
  <2> QED
    BY <1>2, <2>1, <2>2 DEF Rank
<1>3. CASE i \notin keep
  <2>1. \A j \in keep : j <= i <=> j <= i - 1
    BY <1>0, <1>3
  <2>2. upTo = before
    <3>1. upTo \subseteq before
      BY <1>0, <2>1
    <3>2. before \subseteq upTo
      BY <1>0, <2>1
    <3> QED
      BY <3>1, <3>2
  <2>3. Rank(keep, i) = Cardinality(upTo) /\ Rank(keep, i - 1) = Cardinality(before)
    BY DEF Rank
  <2> HIDE DEF upTo, before
  <2> QED
    BY <1>1, <1>3, <2>2, <2>3
<1> QED
  BY <1>2, <1>3

\* Every place in the filtered array is somebody's.
LEMMA RankReaches ==
  ASSUME NEW n \in Nat, NEW keep \in SUBSET (1..n), NEW k \in 1..Cardinality(keep)
  PROVE  \E i \in keep : Rank(keep, i) = k
<1> DEFINE Far == {i \in 0..n : Rank(keep, i) >= k}
<1>0. \A j \in keep : j \in 1..n
  OBVIOUS
<1>1. Rank(keep, n) = Cardinality(keep) /\ Cardinality(keep) \in Nat
  <2>1. {j \in keep : j <= n} = keep
    <3>1. keep \subseteq {j \in keep : j <= n}
      BY <1>0
    <3> QED
      BY <3>1
  <2> QED
    BY <2>1, RankType DEF Rank
<1>2. Rank(keep, 0) = 0
  <2>1. {j \in keep : j <= 0} = {}
    <3>1. \A j \in keep : ~ (j <= 0)
      BY <1>0
    <3> QED
      BY <3>1, Zenon
  <2> QED
    BY <2>1, FS_EmptySet DEF Rank
<1>3. n \in Far /\ Far \subseteq Nat
  BY <1>1
<1>4. PICK i \in Far : \A m \in Far : i <= m
  <2> HIDE DEF Far
  <2> QED
    BY <1>3, LeastNumber
<1>5. i \in 1..n /\ ~ (Rank(keep, i - 1) >= k)
  <2>1. i # 0
    BY <1>1, <1>2, <1>4
  <2>2. i \in 1..n /\ i - 1 \in 0..n /\ ~ (i <= i - 1)
    BY <1>4, <2>1
  <2>3. i - 1 \notin Far
    BY <1>4, <2>2
  <2> QED
    BY <2>2, <2>3
<1>6. Rank(keep, i - 1) \in Nat /\ Rank(keep, i) \in Nat
  <2>1. i - 1 \in Int /\ i \in Int
    BY <1>5
  <2>2. Rank(keep, i - 1) \in 0..Cardinality(keep) /\ Rank(keep, i) \in 0..Cardinality(keep)
    BY <2>1, RankType
  <2> QED
    BY <1>1, <2>2
<1>7. Rank(keep, i) = Rank(keep, i - 1) + (IF i \in keep THEN 1 ELSE 0)
  BY <1>5, RankGrows
<1>8. Rank(keep, i) >= k /\ k \in Nat
  BY <1>1, <1>4
<1>9. i \in keep /\ Rank(keep, i) = k
  BY <1>5, <1>6, <1>7, <1>8
<1> QED
  BY <1>9

\* And nobody else's.
LEMMA RankApart ==
  ASSUME NEW n \in Nat, NEW keep \in SUBSET (1..n), NEW i \in keep, NEW e \in keep, i < e
  PROVE  Rank(keep, i) # Rank(keep, e)
<1> DEFINE upTo == {j \in keep : j <= i}
           more == {j \in keep : j <= e}
<1>0. \A j \in keep : j \in 1..n
  OBVIOUS
<1>1. i \in Int /\ e \in Int
  BY <1>0
<1>2. IsFiniteSet(upTo) /\ IsFiniteSet(more)
  BY <1>1, RankType
<1>3. upTo \in SUBSET more /\ e \in more /\ e \notin upTo
  <2>1. \A j \in keep : j <= i => j <= e
    BY <1>0, <1>1
  <2>2. upTo \subseteq more
    BY <1>0, <1>1, <2>1
  <2>3. e \in more /\ e \notin upTo
    BY <1>1
  <2> QED
    BY <2>2, <2>3
<1>4. Cardinality(upTo) = Cardinality(more) => upTo = more
  BY <1>2, <1>3, FS_Subset
<1> QED
  BY <1>3, <1>4 DEF Rank

LEMMA RankPositive ==
  ASSUME NEW n \in Nat, NEW keep \in SUBSET (1..n), NEW i \in keep
  PROVE  Rank(keep, i) \in 1..Cardinality(keep)
<1>1. i \in Int /\ i \in {j \in keep : j <= i}
  OBVIOUS
<1>2. IsFiniteSet({j \in keep : j <= i}) /\ Rank(keep, i) \in 0..Cardinality(keep)
  BY <1>1, RankType
<1>3. Rank(keep, i) # 0
  BY <1>1, <1>2, FS_EmptySet DEF Rank
<1>4. Cardinality(keep) \in Nat
  BY RankType
<1> QED
  BY <1>2, <1>3, <1>4

\* A filtered array is an array; it holds what is at the positions kept and nothing
\* else, and holds nothing twice that the array does not.
LEMMA FilteredIs ==
  ASSUME NEW S, NEW a \in Seq(S), NEW keep \in SUBSET (1..Len(a))
  PROVE  /\ Filtered(a, keep) \in Seq(S)
         /\ Range(Filtered(a, keep)) = {a[i] : i \in keep}
         /\ (\A i, j \in DOMAIN a : a[i] = a[j] => i = j) =>
              \A i, j \in DOMAIN Filtered(a, keep) :
                Filtered(a, keep)[i] = Filtered(a, keep)[j] => i = j
<1> DEFINE b == Filtered(a, keep)
           size == Cardinality(keep)
           At(k) == CHOOSE i \in keep : Rank(keep, i) = k
<1>0. Len(a) \in Nat /\ DOMAIN a = 1..Len(a) /\ \A i \in 1..Len(a) : a[i] \in S
  OBVIOUS
<1>1. Len(a) \in Nat /\ DOMAIN a = 1..Len(a) /\ size \in Nat /\ \A i \in 1..Len(a) : a[i] \in S
  BY <1>0, RankType
<1>2. \A k \in 1..size : At(k) \in keep /\ Rank(keep, At(k)) = k
  <2>1. ASSUME NEW k \in 1..size PROVE At(k) \in keep /\ Rank(keep, At(k)) = k
    <3>1. \E i \in keep : Rank(keep, i) = k
      BY <1>1, RankReaches
    <3> QED
      BY <3>1
  <2> QED
    BY <2>1
<1>3. b = [k \in 1..size |-> a[At(k)]]
  BY DEF Filtered, Rank
<1> HIDE DEF At, b, size
<1>4. DOMAIN b = 1..size /\ \A k \in 1..size : b[k] = a[At(k)]
  BY <1>3
<1>5. \A k \in 1..size : b[k] \in S
  BY <1>1, <1>2, <1>4
<1>6. b \in Seq(S)
  BY <1>1, <1>3, <1>4, <1>5
<1>7. ASSUME NEW i \in keep PROVE \E k \in 1..size : b[k] = a[i]
  <2>1. Rank(keep, i) \in 1..size
    BY <1>1, RankPositive DEF size
  <2>2. PICK k \in 1..size : k = Rank(keep, i)
    BY <2>1
  <2>3. At(k) \in keep /\ Rank(keep, At(k)) = Rank(keep, i)
    BY <1>2, <2>2
  <2>4. At(k) \in Int /\ i \in Int
    <3>1. \A j \in keep : j \in 1..Len(a)
      OBVIOUS
    <3>2. At(k) \in 1..Len(a) /\ i \in 1..Len(a)
      BY <2>3, <3>1
    <3> QED
      BY <1>1, <3>2
  <2>5. At(k) = i
    <3>1. ~ (At(k) < i) /\ ~ (i < At(k))
      BY <1>1, <2>3, RankApart
    <3> QED
      BY <2>4, <3>1
  <2> QED
    BY <1>4, <2>5
<1>8. Range(b) = {a[i] : i \in keep}
  <2>1. \A x \in Range(b) : x \in {a[i] : i \in keep}
    BY <1>2, <1>4 DEF Range
  <2>2. \A x \in {a[i] : i \in keep} : x \in Range(b)
    BY <1>4, <1>7 DEF Range
  <2> QED
    BY <2>1, <2>2
<1>9. ASSUME \A i, j \in DOMAIN a : a[i] = a[j] => i = j,
             NEW i \in DOMAIN b, NEW j \in DOMAIN b, b[i] = b[j]
      PROVE  i = j
  <2>1. i \in 1..size /\ j \in 1..size
    BY <1>4
  <2>2. a[At(i)] = a[At(j)]
    BY <1>4, <1>9, <2>1
  <2>3. At(i) \in keep /\ At(j) \in keep /\ Rank(keep, At(i)) = i /\ Rank(keep, At(j)) = j
    BY <1>2, <2>1
  <2>4. At(i) = At(j)
    BY <1>1, <1>9, <2>2, <2>3
  <2> QED
    BY <2>3, <2>4
<1> QED
  BY <1>6, <1>8, <1>9 DEF b

\* While no two sends have overlapped, the one that is under way, if any, holds the
\* array that is in the map.
OneSend ==
  /\ \A s \in Send : mapped[s] # NoArray => shared[s] /\ mapped[s] = subs
  /\ \A s, t \in Send : mapped[s] # NoArray /\ mapped[t] # NoArray => s = t

PushType ==
  /\ subs \in Seq(Endpoint)
  /\ mapped \in [Send -> Seq(Endpoint) \cup {NoArray}]
  /\ shared \in [Send -> BOOLEAN]
  /\ \A s \in Send : shared[s] => mapped[s] # NoArray
  /\ subscribed \subseteq Endpoint
  /\ overlapped \in BOOLEAN

Once(list) == \A i, j \in DOMAIN list : list[i] = list[j] => i = j

PushInv ==
  /\ PushType
  /\ ~overlapped => OneSend /\ subscribed \ gone \subseteq Range(subs) /\ Once(subs)

LEMMA AppendedOnce ==
  ASSUME NEW S, NEW list \in Seq(S), NEW e \in S
  PROVE  /\ Append(list, e) \in Seq(S)
         /\ Range(Append(list, e)) = Range(list) \cup {e}
         /\ Once(list) /\ e \notin Range(list) => Once(Append(list, e))
<1> DEFINE more == Append(list, e)
           n == Len(list)
<1>1. /\ n \in Nat /\ DOMAIN list = 1..n
      /\ more \in Seq(S) /\ Len(more) = n + 1 /\ DOMAIN more = 1..(n + 1)
      /\ \A i \in 1..n : more[i] = list[i]
      /\ more[n + 1] = e
  <2>1. more \in Seq(S) /\ Len(more) = n + 1
    BY AppendProperties
  <2>2. DOMAIN more = 1..Len(more) /\ DOMAIN list = 1..n /\ n \in Nat
    BY <2>1, LenProperties
  <2> QED
    BY <2>1, <2>2, AppendProperties
<1> HIDE DEF more, n
<1>2. \A i \in 1..(n + 1) : i \in 1..n \/ i = n + 1
  BY <1>1
<1>3. Range(more) \subseteq Range(list) \cup {e}
  BY <1>1, <1>2 DEF Range
<1>4. Range(list) \cup {e} \subseteq Range(more)
  <2>1. n + 1 \in 1..(n + 1) /\ 1..n \subseteq 1..(n + 1)
    BY <1>1
  <2> QED
    BY <1>1, <2>1 DEF Range
<1>5. ASSUME Once(list), e \notin Range(list),
             NEW i \in 1..(n + 1), NEW j \in 1..(n + 1), more[i] = more[j]
      PROVE  i = j
  <2>1. \A k \in 1..n : more[k] # e
    BY <1>1, <1>5 DEF Range
  <2>2. CASE i \in 1..n /\ j \in 1..n
    BY <1>1, <1>5, <2>2 DEF Once
  <2>3. CASE ~ (i \in 1..n /\ j \in 1..n)
    BY <1>1, <1>2, <1>5, <2>1, <2>3
  <2> QED
    BY <2>2, <2>3
<1> QED
  BY <1>1, <1>3, <1>4, <1>5 DEF more, Once

LEMMA PushInvStep == ASSUME PushInv, [PushNext]_pushVars PROVE PushInv'
<1>1. ASSUME NEW e \in Endpoint, Subscribe(e) PROVE PushInv'
  <2>1. /\ shared' = shared /\ gone' = gone /\ overlapped' = overlapped
        /\ subscribed' = subscribed \cup {e} /\ e \notin gone
    BY <1>1 DEF Subscribe
  <2>2. CASE e \in Range(subs)
    <3>1. subs' = subs /\ mapped' = mapped
      BY <1>1, <2>2 DEF Subscribe
    <3> QED
      BY <2>1, <2>2, <3>1 DEF PushInv, PushType, OneSend
  <2>3. CASE e \notin Range(subs)
    <3>1. /\ subs' = Append(subs, e)
          /\ mapped' = [s \in Send |-> IF shared[s] THEN Append(mapped[s], e) ELSE mapped[s]]
      BY <1>1, <2>3 DEF Subscribe
    <3>2. /\ subs' \in Seq(Endpoint) /\ Range(subs') = Range(subs) \cup {e}
          /\ Once(subs) => Once(subs')
      BY <2>3, <3>1, AppendedOnce DEF PushInv, PushType
    <3>3. ASSUME NEW s \in Send
          PROVE  /\ mapped'[s] \in Seq(Endpoint) \cup {NoArray}
                 /\ mapped'[s] # NoArray <=> mapped[s] # NoArray
                 /\ shared[s] => mapped'[s] = Append(mapped[s], e)
      <4>1. CASE shared[s]
        <5>1. mapped[s] \in Seq(Endpoint) /\ mapped[s] # NoArray
          BY <4>1 DEF PushInv, PushType
        <5>2. mapped'[s] = Append(mapped[s], e)
          BY <3>1, <4>1
        <5>3. mapped'[s] \in Seq(Endpoint)
          BY <5>1, <5>2, AppendProperties
        <5> QED
          BY <5>1, <5>2, <5>3, PushAssumption
      <4>2. CASE ~shared[s]
        BY <3>1, <4>2 DEF PushInv, PushType
      <4> QED
        BY <4>1, <4>2
    <3>4. mapped' \in [Send -> Seq(Endpoint) \cup {NoArray}]
      BY <3>1, <3>3
    <3>5. PushType'
      BY <2>1, <3>2, <3>3, <3>4 DEF PushInv, PushType
    <3>6. ~overlapped => OneSend'
      BY <2>1, <3>1, <3>3 DEF PushInv, OneSend
    <3> QED
      BY <2>1, <3>2, <3>5, <3>6 DEF PushInv
  <2> QED
    BY <2>2, <2>3
<1>2. ASSUME NEW e \in Endpoint, GiveUp(e) PROVE PushInv'
  BY <1>2 DEF GiveUp, PushInv, PushType, OneSend
<1>3. ASSUME NEW s \in Send, SendToUser(s) PROVE PushInv'
  <2>1. /\ mapped' = [mapped EXCEPT ![s] = subs] /\ shared' = [shared EXCEPT ![s] = TRUE]
        /\ overlapped' = (overlapped \/ \E other \in Send : mapped[other] # NoArray)
        /\ subs' = subs /\ gone' = gone /\ subscribed' = subscribed
    BY <1>3 DEF SendToUser
  <2>2. PushType'
    BY <2>1, PushAssumption DEF PushInv, PushType
  <2>3. ASSUME ~overlapped' PROVE OneSend'
    <3>1. \A other \in Send : mapped[other] = NoArray
      BY <2>1, <2>3
    <3>2. \A other \in Send : mapped'[other] # NoArray =>
            other = s /\ mapped'[other] = subs /\ shared'[other]
      BY <2>1, <3>1 DEF PushInv, PushType
    <3> QED
      BY <2>1, <3>2 DEF OneSend
  <2>4. ~overlapped' => ~overlapped
    BY <2>1 DEF PushInv, PushType
  <2> QED
    BY <2>1, <2>2, <2>3, <2>4 DEF PushInv
<1>4. ASSUME NEW s \in Send, Settle(s) PROVE PushInv'
  <2>1. /\ mapped[s] # NoArray /\ mapped' = [mapped EXCEPT ![s] = NoArray]
        /\ gone' = gone /\ subscribed' = subscribed /\ overlapped' = overlapped
    BY <1>4 DEF Settle
  <2>2. mapped[s] \in Seq(Endpoint)
    BY <2>1 DEF PushInv, PushType
  <2>3. CASE subs' = subs /\ shared' = [shared EXCEPT ![s] = FALSE]
    <3>1. PushType'
      BY <2>1, <2>3 DEF PushInv, PushType
    <3>2. ~overlapped => OneSend'
      BY <2>1, <2>3 DEF PushInv, PushType, OneSend
    <3> QED
      BY <2>1, <2>3, <3>1, <3>2 DEF PushInv
  <2>4. ASSUME NEW failed, NEW expired \in SUBSET (failed \cap gone),
               subs' = ValidSubs(mapped[s], failed, expired),
               shared' = [other \in Send |-> FALSE]
        PROVE  PushInv'
    <3> DEFINE keep == {i \in DOMAIN mapped[s] : mapped[s][i] \notin expired}
    <3>1. keep \in SUBSET (1..Len(mapped[s])) /\ subs' = Filtered(mapped[s], keep)
      BY <2>2, <2>4 DEF ValidSubs
    <3>2. /\ subs' \in Seq(Endpoint) /\ Range(subs') = {mapped[s][i] : i \in keep}
          /\ Once(mapped[s]) => Once(subs')
      <4> HIDE DEF keep
      <4> QED
        BY <2>2, <3>1, FilteredIs DEF Once
    <3>3. PushType'
      BY <2>1, <2>4, <3>2 DEF PushInv, PushType
    <3>4. ASSUME ~overlapped
          PROVE  OneSend' /\ subscribed \ gone \subseteq Range(subs') /\ Once(subs')
      <4>1. mapped[s] = subs /\ \A other \in Send : mapped[other] # NoArray => other = s
        BY <2>1, <3>4 DEF PushInv, OneSend
      <4>2. \A other \in Send : mapped'[other] = NoArray
        BY <2>1, <4>1 DEF PushInv, PushType
      <4>3. OneSend'
        BY <4>2 DEF OneSend
      <4>4. \A e \in Range(subs) : e \notin gone => e \in Range(subs')
        BY <2>4, <3>2, <4>1 DEF Range
      <4>5. subscribed \ gone \subseteq Range(subs) /\ Once(subs)
        BY <3>4 DEF PushInv
      <4> QED
        BY <3>2, <4>1, <4>3, <4>4, <4>5
    <3> QED
      BY <2>1, <3>3, <3>4 DEF PushInv
  <2> QED
    BY <1>4, <2>3, <2>4 DEF Settle
<1>5. ASSUME RestartPush PROVE PushInv'
  <2>1. subs' = <<>> /\ subs' \in Seq(Endpoint) /\ DOMAIN subs' = {}
    BY <1>5 DEF RestartPush
  <2>2. Once(subs')
    BY <2>1 DEF Once
  <2>3. PushType' /\ OneSend'
    BY <1>5, <2>1 DEF RestartPush, PushType, OneSend
  <2> QED
    BY <1>5, <2>2, <2>3 DEF RestartPush, PushInv
<1>6. ASSUME UNCHANGED pushVars PROVE PushInv'
  BY <1>6 DEF pushVars, PushInv, PushType, OneSend
<1> QED
  BY <1>1, <1>2, <1>3, <1>4, <1>5, <1>6 DEF PushNext

\* A browser that is subscribed and has not given up is reached, and once, unless two
\* sends have overlapped: however many browsers there are, and whatever is appended to
\* the array while a send waits.
THEOREM NoSilentLoss == PushSpec => []LossExplained
<1>1. PushInit => PushInv
  <2>1. ASSUME PushInit PROVE PushInv
    <3>1. subs = <<>> /\ subs \in Seq(Endpoint) /\ DOMAIN subs = {}
      BY <2>1 DEF PushInit
    <3>2. Once(subs)
      BY <3>1 DEF Once
    <3>3. PushType /\ OneSend
      BY <2>1, <3>1 DEF PushInit, PushType, OneSend
    <3> QED
      BY <2>1, <3>2, <3>3 DEF PushInit, PushInv
  <2> QED
    BY <2>1
<1>2. PushInv /\ [PushNext]_pushVars => PushInv'
  BY PushInvStep
<1>3. PushInv => LossExplained
  BY DEF PushInv, Once, LossExplained
<1> QED
  BY <1>1, <1>2, <1>3, PTL DEF PushSpec
=============================================================================
