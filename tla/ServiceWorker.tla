--------------------------- MODULE ServiceWorker ---------------------------
(***************************************************************************)
(* The service worker's pages (packages/web/public/sw.js) and the hook     *)
(* that registers it: the releases of the worker, each with a static cache *)
(* of its own name, and how the page requests of several tabs are answered *)
(* online and offline while one release takes over from another.  A        *)
(* request awaits the caches, then the network, then the caches again, in  *)
(* the worker it was sent to; a cache is filled after the answer is given. *)
(***************************************************************************)
EXTENDS Naturals, FiniteSets

CONSTANTS
  Release,      \* of sw.js: 1..n; the name of the static cache tells them apart
  Shell, Other, \* URLs of the application shell, with "/"; further pages
  Tab           \* of the browser, each with one page request at a time

ASSUME WorkerAssumption == Release \subseteq Nat \ {0} /\ 1 \in Release /\ "/" \in Shell

Url == Shell \cup Other

VARIABLES
  deployed,     \* the release the server has
  installing,   \* a release that has begun to install, 0 if none
  active,       \* the release in control, 0 if none
  pages,        \* static cache of each release: URLs in it
  puts,         \* cache.put calls that no answer waits for, with their releases
  online,       \* the browser's connection
  request,      \* of each tab: its URL, the release that handles it, what it awaits
  served        \* how each tab's last page request was answered

workerVars == <<deployed, installing, active, pages, puts, online, request, served>>

NoRequest == [awaits |-> "nothing", by |-> 0, url |-> "/"]

WorkerInit ==
  /\ deployed = 1 /\ installing = 0 /\ active = 0
  /\ pages = [r \in Release |-> {}] /\ puts = {} /\ online = TRUE
  /\ request = [t \in Tab |-> NoRequest] /\ served = [t \in Tab |-> "none"]

Cached(u) == \E r \in Release : u \in pages[r]

Deploy ==
  /\ deployed + 1 \in Release /\ deployed' = deployed + 1
  /\ UNCHANGED <<installing, active, pages, puts, online, request, served>>

\* register, and reg.update() once an hour, find a release that is not the active one.
FindUpdate ==
  /\ online /\ installing = 0 /\ active # deployed
  /\ installing' = deployed
  /\ UNCHANGED <<deployed, active, pages, puts, online, request, served>>

\* addAll is all or nothing, and a worker whose addAll fails is discarded.
Install ==
  /\ installing # 0 /\ "/" \notin pages[installing]
  /\ \/ /\ online /\ UNCHANGED installing
        /\ pages' = [pages EXCEPT ![installing] = @ \cup Shell]
     \/ installing' = 0 /\ UNCHANGED pages
  /\ UNCHANGED <<deployed, active, puts, online, request, served>>

\* As CurrentCaches, of a list nobody has brought up to date.
OldCaches(r) == {r - 1}

CurrentCaches(r) == {r}

\* skipWaiting has it follow at once; the caches of other releases are deleted, whatever
\* the requests under way have still to look for in them.
Activate ==
  /\ installing # 0 /\ Shell \subseteq pages[installing]
  /\ active' = installing /\ installing' = 0
  /\ pages' = [r \in Release |-> IF r \in CurrentCaches(installing) THEN pages[r] ELSE {}]
  /\ UNCHANGED <<deployed, puts, online, request, served>>

Await(t, what) == request' = [request EXCEPT ![t].awaits = what] /\ UNCHANGED served

Respond(t, how) ==
  request' = [request EXCEPT ![t] = NoRequest] /\ served' = [served EXCEPT ![t] = how]

\* A response of status 200 is kept, in the cache of the release that asked for it.
Keep(t) == puts' = puts \cup {<<request[t].by, request[t].url>>}

Navigate(t, u) ==
  /\ active # 0 /\ request[t] = NoRequest
  /\ request' = [request EXCEPT ![t] = [awaits |-> "caches", by |-> active, url |-> u]]
  /\ UNCHANGED <<deployed, installing, active, pages, puts, online, served>>

\* caches.match, of any cache there is; a page found is answered, and fetched anew
\* without anyone waiting for it.
MatchCaches(t) ==
  /\ request[t].awaits = "caches"
  /\ \/ /\ Cached(request[t].url) /\ Respond(t, "cache")
        /\ (online /\ Keep(t)) \/ UNCHANGED puts
     \/ ~Cached(request[t].url) /\ Await(t, "network") /\ UNCHANGED puts
  /\ UNCHANGED <<deployed, installing, active, pages, online>>

FetchPage(t) ==
  /\ request[t].awaits = "network"
  /\ \/ online /\ Respond(t, "network") /\ (Keep(t) \/ UNCHANGED puts)
     \/ ~online /\ Await(t, "shell") /\ UNCHANGED puts
  /\ UNCHANGED <<deployed, installing, active, pages, online>>

\* Offline the "/" of the shell; undefined is a network error to the browser.
FallBack(t) ==
  /\ request[t].awaits = "shell"
  /\ Respond(t, IF Cached("/") THEN "shell" ELSE "nothing")
  /\ UNCHANGED <<deployed, installing, active, pages, puts, online>>

\* caches.open makes the cache anew if another release has deleted it.
PutPage(p) ==
  /\ p \in puts
  /\ pages' = [pages EXCEPT ![p[1]] = @ \cup {p[2]}] /\ puts' = puts \ {p}
  /\ UNCHANGED <<deployed, installing, active, online, request, served>>

\* The browser's connection comes and goes.
Connection ==
  /\ online' = ~online
  /\ UNCHANGED <<deployed, installing, active, pages, puts, request, served>>

WorkerNext ==
  \/ Deploy \/ FindUpdate \/ Install \/ Activate \/ Connection
  \/ \E t \in Tab : \/ \E u \in Url : Navigate(t, u)
                    \/ MatchCaches(t) \/ FetchPage(t) \/ FallBack(t)
  \/ \E p \in puts : PutPage(p)

WorkerSpec == WorkerInit /\ [][WorkerNext]_workerVars

-----------------------------------------------------------------------------
(* Properties                                                              *)

\* Once a worker is in control, no page request is left without a page, offline or
\* not: neither a release that fails to install, nor one that takes over and deletes
\* the caches of the one before while requests of that one await the caches or the
\* network, nor a late put takes "/" away.
NavigationAnswered ==
  /\ \A t \in Tab : served[t] # "nothing"
  /\ active # 0 => Shell \subseteq pages[active]
=============================================================================
