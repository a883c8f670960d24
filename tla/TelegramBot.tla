---------------------------- MODULE TelegramBot ----------------------------
(***************************************************************************)
(* The Telegram bot (packages/bot): a rate limit per user in the process's *)
(* memory, and handlers that each open with a message or a toast, call the *)
(* API, and close with a message.  Updates are handled side by side; every *)
(* call of Telegram and of the API may fail, the API's after it did what   *)
(* it was asked (10 seconds are all it is given).                          *)
(***************************************************************************)
EXTENDS Naturals, Sequences

CONSTANTS
  Chatter,      \* users of the bot
  Handler,      \* updates handled at once
  Received,     \* the kinds of updates the users send
  Window,       \* RATE_LIMIT_WINDOW_MS, in ticks of the clock
  LastTick

\* The searches and presses of buttons that reach a handler, and the commands.
Kind == {"start", "usage", "search", "select", "add", "confirm", "freeze", "predict",
         "delete", "cancel"}

ASSUME BotAssumption == Window \in Nat \ {0} /\ LastTick \in Nat /\ Received \subseteq Kind

CallsApi == {"start", "search", "select", "confirm", "freeze", "predict", "delete"}
Writes == {"confirm", "freeze", "delete"}
Opens == Kind \ {"start", "usage"}

VARIABLES
  tick,
  lastMessage,  \* rateLimitMap, as the ticks of all messages let through
  kind, stage,  \* of each handler
  did,          \* whether the API has done what this update asked
  outcome,      \* the last message of the update
  refused, cut  \* how often Telegram refused this update a message; the process ended

botVars == <<tick, lastMessage, kind, stage, did, outcome, refused, cut>>

BotInit ==
  /\ tick = 0 /\ lastMessage = [u \in Chatter |-> <<>>]
  /\ kind = [h \in Handler |-> "start"] /\ stage = [h \in Handler |-> "idle"]
  /\ did = [h \in Handler |-> FALSE] /\ outcome = [h \in Handler |-> "none"]
  /\ refused = [h \in Handler |-> 0] /\ cut = [h \in Handler |-> FALSE]

\* As LetThrough, of a map that is never brought up to date.
LetThroughSinceFirst(u) ==
  \A i \in DOMAIN lastMessage[u] : i = 1 => tick - lastMessage[u][i] >= Window

LetThrough(u) ==
  \A i \in DOMAIN lastMessage[u] :
    i = Len(lastMessage[u]) => tick - lastMessage[u][i] >= Window

First(k) == IF k \in Opens THEN "opening" ELSE IF k \in CallsApi THEN "api" ELSE "closing"

Begin(h, k) ==
  /\ stage[h] = "idle"
  /\ kind' = [kind EXCEPT ![h] = k] /\ stage' = [stage EXCEPT ![h] = First(k)]
  /\ did' = [did EXCEPT ![h] = FALSE] /\ outcome' = [outcome EXCEPT ![h] = "none"]
  /\ refused' = [refused EXCEPT ![h] = 0] /\ cut' = [cut EXCEPT ![h] = FALSE]

Note(u) == lastMessage' = [lastMessage EXCEPT ![u] = Append(@, tick)]

\* An update within the window of one let through is dropped without a trace.  One let
\* through may have no handler: the text handler takes every text that is left, among
\* them /alerts and /bookings, which are registered after it, and answers none but
\* searches.
Receive(h, u) ==
  /\ LetThrough(u) /\ Note(u)
  /\ (\E k \in Received : Begin(h, k)) \/ UNCHANGED <<kind, stage, did, outcome, refused, cut>>
  /\ UNCHANGED tick

GoTo(h, to) == stage' = [stage EXCEPT ![h] = to] /\ UNCHANGED outcome

End(h, how) ==
  stage' = [stage EXCEPT ![h] = "idle"] /\ outcome' = [outcome EXCEPT ![h] = how]

Sent == UNCHANGED refused
Refuse(h) == refused' = [refused EXCEPT ![h] = @ + 1]

\* reply or answerCbQuery, outside any try: a failure is errorHandler's.
Open(h) ==
  /\ stage[h] = "opening"
  /\ \/ GoTo(h, IF kind[h] \in CallsApi THEN "api" ELSE "closing") /\ Sent
     \/ GoTo(h, "generic") /\ Refuse(h)
  /\ UNCHANGED <<tick, lastMessage, kind, did, cut>>

\* As CallApi, of handlers that all go on like /start.
CallApiRegardless(h) ==
  /\ stage[h] = "api" /\ GoTo(h, "closing")
  /\ did' \in {did, [did EXCEPT ![h] = TRUE]}
  /\ UNCHANGED <<tick, lastMessage, kind, refused, cut>>

\* Done and answered; done, but the answer was late or no use; refused.
\* Only /start goes on regardless.  An answer is taken to say the call was carried out.
\* (Of the paths the bot calls, the API serves /freeze and /alerts/:id only as
\* fintech/freeze and user/alerts/:id, and those and bookings only to a bearer of a
\* token, which the bot is not: as the two stand, these calls are all refused.)
CallApi(h) ==
  /\ stage[h] = "api"
  /\ \/ GoTo(h, "closing") /\ did' = [did EXCEPT ![h] = TRUE]
     \/ /\ GoTo(h, IF kind[h] = "start" THEN "closing" ELSE "apology")
        /\ did' \in {did, [did EXCEPT ![h] = TRUE]}
  /\ UNCHANGED <<tick, lastMessage, kind, refused, cut>>

\* The message with the result, inside the try of those that call the API.
Close(h) ==
  /\ stage[h] = "closing"
  /\ \/ End(h, "success") /\ Sent
     \/ /\ GoTo(h, IF kind[h] \in CallsApi \ {"start"} THEN "apology" ELSE "generic")
        /\ Refuse(h)
  /\ UNCHANGED <<tick, lastMessage, kind, did, cut>>

\* As Apologize, of a catch that only writes to the log.
ApologizeToTheLog(h) ==
  /\ stage[h] = "apology" /\ End(h, "nothing")
  /\ UNCHANGED <<tick, lastMessage, kind, did, refused, cut>>

\* The handler's own "try again later", which may fail in its turn.
Apologize(h) ==
  /\ stage[h] = "apology"
  /\ \/ End(h, "error") /\ Sent
     \/ GoTo(h, "generic") /\ Refuse(h)
  /\ UNCHANGED <<tick, lastMessage, kind, did, cut>>

\* errorHandler; if its reply fails, nothing can be done.
CatchAll(h) ==
  /\ stage[h] = "generic"
  /\ \/ End(h, "generic") /\ Sent
     \/ End(h, "nothing") /\ Refuse(h)
  /\ UNCHANGED <<tick, lastMessage, kind, did, cut>>

Tick ==
  /\ tick < LastTick /\ tick' = tick + 1
  /\ UNCHANGED <<lastMessage, kind, stage, did, outcome, refused, cut>>

\* SIGTERM, a deployment: the map and the updates in hand are gone.
RestartBot ==
  /\ lastMessage' = [u \in Chatter |-> <<>>]
  /\ stage' = [h \in Handler |-> "idle"] /\ outcome' = [h \in Handler |-> "nothing"]
  /\ kind' = [h \in Handler |-> "start"] /\ did' = [h \in Handler |-> FALSE]
  /\ refused' = [h \in Handler |-> 0] /\ cut' = [h \in Handler |-> TRUE]
  /\ UNCHANGED tick

BotNext ==
  \/ \E h \in Handler : \/ \E u \in Chatter : Receive(h, u)
                        \/ Open(h) \/ CallApi(h) \/ Close(h) \/ Apologize(h) \/ CatchAll(h)
  \/ Tick \/ RestartBot

BotSpec == BotInit /\ [][BotNext]_botVars

Serves(h) == Open(h) \/ CallApi(h) \/ Close(h) \/ Apologize(h) \/ CatchAll(h)

-----------------------------------------------------------------------------
(* Properties                                                              *)

\* A message that says a booking was made, a price frozen or an alert deleted is
\* sent only after the API did it.  (The converse fails: a booking may be made and its
\* buyer told of an error, and the toast of delete_alert comes before the call.)
ClaimsAreDone ==
  \A h \in Handler : outcome[h] = "success" /\ kind[h] \in Writes => did[h]

\* Between restarts, no two updates of a user that come within the window of each
\* other are both handled, however many were dropped between them.
RateLimited ==
  \A u \in Chatter : \A i, j \in DOMAIN lastMessage[u] :
    i < j => lastMessage[u][j] - lastMessage[u][i] >= Window

\* Whoever is let through and has a handler is told how it ended, unless Telegram
\* refused two messages of this update, one of them the apology for the other or for
\* the API's failure, or the process ended: no handler ends in silence of its own.
Answered(h) ==
  \/ outcome[h] \in {"success", "error", "generic"}
  \/ refused[h] >= 2 \/ cut[h]

PassedIsAnswered ==
  \A h \in Handler : (stage[h] # "idle") ~> (stage[h] = "idle" /\ Answered(h))
=============================================================================
