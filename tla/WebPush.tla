------------------------------ MODULE WebPush ------------------------------
(***************************************************************************)
(* The push subscriptions of one user (notification/web-push.service.ts):  *)
(* an array in the process's memory, to which subscribe appends in place,  *)
(* and which a send reads before it awaits the push services and replaces, *)
(* filtered, after.                                                        *)
(***************************************************************************)
EXTENDS Naturals, Sequences, FiniteSets, Functions

CONSTANTS
  Endpoint,     \* browsers of the user
  Send,         \* calls of sendToUser
  NoArray

ASSUME PushAssumption == NoArray \notin Seq(Endpoint)

VARIABLES
  subs,         \* the array in the map
  mapped,       \* the array a send has read, NoArray when none is under way
  shared,       \* whether that array is still the one in the map
  results,      \* how many results the send will have: the length it read
  gone,         \* endpoints the user has given up: the push service answers 410
  subscribed,   \* history: endpoints whose subscribe has returned
  overlapped    \* history: two sends have been under way at once

pushVars == <<subs, mapped, shared, results, gone, subscribed, overlapped>>

PushInit ==
  /\ subs = <<>> /\ gone = {} /\ subscribed = {} /\ overlapped = FALSE
  /\ mapped = [s \in Send |-> NoArray] /\ shared = [s \in Send |-> FALSE]
  /\ results = [s \in Send |-> 0]

\* What is appended to the array in the map is appended to what a send holds of it.
Subscribe(e) ==
  /\ e \notin gone
  /\ IF e \in Range(subs) THEN UNCHANGED <<subs, mapped>>
     ELSE /\ subs' = Append(subs, e)
          /\ mapped' = [s \in Send |->
               IF shared[s] THEN Append(mapped[s], e) ELSE mapped[s]]
  /\ subscribed' = subscribed \cup {e}
  /\ UNCHANGED <<shared, results, gone, overlapped>>

\* The browser drops its subscription.
GiveUp(e) ==
  /\ e \in subscribed /\ gone' = gone \cup {e}
  /\ UNCHANGED <<subs, mapped, shared, results, subscribed, overlapped>>

SendToUser(s) ==
  /\ mapped[s] = NoArray /\ subs # <<>>
  /\ mapped' = [mapped EXCEPT ![s] = subs] /\ shared' = [shared EXCEPT ![s] = TRUE]
  /\ results' = [results EXCEPT ![s] = Len(subs)]
  /\ overlapped' = (overlapped \/ \E other \in Send : mapped[other] # NoArray)
  /\ UNCHANGED <<subs, gone, subscribed>>

\* Array.filter: the entries at the positions kept, in their order.
Filtered(a, keep) ==
  [k \in 1..Cardinality(keep) |->
     a[CHOOSE i \in keep : Cardinality({j \in keep : j <= i}) = k]]

\* As ValidSubs, keeping only the endpoints whose push arrived.
DeliveredSubs(a, failed, expired) == Filtered(a, {i \in DOMAIN a : a[i] \notin failed})

\* 410 is the only rejection that removes an endpoint; the rest are logged.
ValidSubs(a, failed, expired) == Filtered(a, {i \in DOMAIN a : a[i] \notin expired})

\* allSettled, the filter and the map's new array.  A push may fail, with 410 only if the
\* browser has given its endpoint up, though perhaps not if it did so during the send.
\* An endpoint appended meanwhile has no result: the filter throws on it and the map
\* keeps the array it has.
Settle(s) ==
  /\ mapped[s] # NoArray
  /\ \/ /\ Len(mapped[s]) > results[s]
        /\ shared' = [shared EXCEPT ![s] = FALSE] /\ UNCHANGED subs
     \/ /\ Len(mapped[s]) = results[s]
        /\ \E failed \in SUBSET Range(mapped[s]) : \E expired \in SUBSET (failed \cap gone) :
             subs' = ValidSubs(mapped[s], failed, expired)
        /\ shared' = [other \in Send |-> FALSE]
  /\ mapped' = [mapped EXCEPT ![s] = NoArray]
  /\ results' = [results EXCEPT ![s] = 0]
  /\ UNCHANGED <<gone, subscribed, overlapped>>

\* The array is in memory only: a restart loses it, and no browser is told.
RestartPush ==
  /\ subs' = <<>> /\ subscribed' = {} /\ overlapped' = FALSE
  /\ mapped' = [s \in Send |-> NoArray] /\ shared' = [s \in Send |-> FALSE]
  /\ results' = [s \in Send |-> 0]
  /\ UNCHANGED gone

PushNext ==
  \/ \E e \in Endpoint : Subscribe(e) \/ GiveUp(e)
  \/ \E s \in Send : SendToUser(s) \/ Settle(s)
  \/ RestartPush

PushSpec == PushInit /\ [][PushNext]_pushVars

-----------------------------------------------------------------------------
(* Properties                                                              *)

\* Between restarts, a subscribed browser that has not given up is in the array,
\* once, unless two sends overlapped and the later one wrote back what it had
\* filtered out of an older array.
LossExplained ==
  ~overlapped =>
    /\ subscribed \ gone \subseteq Range(subs)
    /\ \A i, j \in DOMAIN subs : subs[i] = subs[j] => i = j
=============================================================================
