----------------------------- MODULE MCChannels -----------------------------
(***************************************************************************)
(* Six machines and the calculations of MCQuote, which share nothing,      *)
(* checked in one run: the scene says which of them moves, and the others  *)
(* keep their initial states.                                              *)
(***************************************************************************)
EXTENDS MCQuote, BookingProviders, WebPush, ServiceWorker, Reminders, TelegramBot,
        SearchPage

VARIABLE scene

allVars == <<scene, calculationVars, providerVars, pushVars, workerVars, reminderVars,
             botVars, pageFormVars>>

ChannelsInit ==
  /\ scene \in {"calculations", "providers", "push", "worker", "reminders", "bot", "page"}
  /\ IF scene = "calculations" THEN CalculationsInit ELSE CalculationsRest
  /\ ProvidersInit /\ (scene = "providers" \/ provider = "nemo")
  /\ PushInit /\ WorkerInit /\ RemindersInit /\ BotInit /\ SearchPageInit

Rest(playing) ==
  /\ scene = playing /\ UNCHANGED scene
  /\ IF playing = "calculations" THEN TRUE ELSE UNCHANGED calculationVars
  /\ IF playing = "providers" THEN TRUE ELSE UNCHANGED providerVars
  /\ IF playing = "push" THEN TRUE ELSE UNCHANGED pushVars
  /\ IF playing = "worker" THEN TRUE ELSE UNCHANGED workerVars
  /\ IF playing = "reminders" THEN TRUE ELSE UNCHANGED reminderVars
  /\ IF playing = "bot" THEN TRUE ELSE UNCHANGED botVars
  /\ IF playing = "page" THEN TRUE ELSE UNCHANGED pageFormVars

ChannelsNext ==
  \/ Rest("calculations") /\ CalculationsNext
  \/ Rest("providers") /\ ProvidersNext
  \/ Rest("push") /\ PushNext
  \/ Rest("worker") /\ WorkerNext
  \/ Rest("reminders") /\ RemindersNext
  \/ Rest("bot") /\ BotNext
  \/ Rest("page") /\ SearchPageNext

\* Days pass, the worker takes what stays due and processes what it has taken, and the
\* bot's handlers run: each of their awaits ends, at the latest at its time limit.
ChannelsFairness ==
  /\ WF_allVars(Rest("reminders") /\ NextDay)
  /\ \A j \in Job : /\ WF_allVars(Rest("reminders") /\ Take(j))
                    /\ WF_allVars(Rest("reminders") /\ ProcessJob(j))
  /\ \A h \in Handler : WF_allVars(Rest("bot") /\ Serves(h))

ChannelsSpec == ChannelsInit /\ [][ChannelsNext]_allVars /\ ChannelsFairness

MCExpires == [f \in Freeze |-> 4]
=============================================================================
