----------------------------- MODULE Reminders -----------------------------
(***************************************************************************)
(* The notification queue (notification/notification.service.ts): jobs     *)
(* added to a BullMQ queue in Redis, two of them, delayed, for a freeze,   *)
(* and a worker that takes up to five at a time.  The queue outlives the   *)
(* process; a job whose worker dies stalls and is handed out once more.    *)
(***************************************************************************)
EXTENDS Integers, FiniteSets

CONSTANTS
  Freeze,       \* freezes with reminders
  Expires,      \* the day each of them expires
  Concurrency,  \* jobs in hand at once: 5
  LastDay

ASSUME RemindersAssumption ==
  Expires \in [Freeze -> Nat] /\ Concurrency \in Nat \ {0} /\ LastDay \in Nat

Job == Freeze \X {"3_days", "1_day"}

VARIABLES
  today,
  job,          \* "none", "delayed", "active", "done" or "failed"; a job without delay is ripe
  due,          \* the day a delayed job may be handed out
  stalls,       \* times the job's worker has died with it in hand
  adding        \* scheduleFreezeExpiryReminder: the freezes whose second add is to come

reminderVars == <<today, job, due, stalls, adding>>

RemindersInit ==
  /\ today = 0 /\ adding = {}
  /\ job = [j \in Job |-> "none"] /\ due = [j \in Job |-> 0]
  /\ stalls = [j \in Job |-> 0]

Later(a, b) == IF a > b THEN a ELSE b

\* queue.add: the delay is what is left until the reminder's day, or nothing.
Add(j, daysBefore) ==
  /\ job' = [job EXCEPT ![j] = "delayed"]
  /\ due' = [due EXCEPT ![j] = Later(today, Expires[j[1]] - daysBefore)]

ScheduleFirst(f) ==
  /\ job[<<f, "3_days">>] = "none"
  /\ Add(<<f, "3_days">>, 3) /\ adding' = adding \cup {f}
  /\ UNCHANGED <<today, stalls>>

\* The second add, or an error of Redis or the end of the process before it.
ScheduleSecond(f) ==
  /\ f \in adding /\ adding' = adding \ {f}
  /\ Add(<<f, "1_day">>, 1) \/ UNCHANGED <<job, due>>
  /\ UNCHANGED <<today, stalls>>

InHand == {j \in Job : job[j] = "active"}

Take(j) ==
  /\ job[j] = "delayed" /\ due[j] <= today /\ Cardinality(InHand) < Concurrency
  /\ job' = [job EXCEPT ![j] = "active"]
  /\ UNCHANGED <<today, due, stalls, adding>>

\* As ProcessJob, of a worker that drops what it cannot place.
ProcessJobKind(j) ==
  /\ job[j] = "active" /\ j[2] = "3_days"
  /\ job' = [job EXCEPT ![j] = "done"]
  /\ UNCHANGED <<today, due, stalls, adding>>

\* Every branch of the switch logs and returns.
ProcessJob(j) ==
  /\ job[j] = "active"
  /\ job' = [job EXCEPT ![j] = "done"]
  /\ UNCHANGED <<today, due, stalls, adding>>

\* The process dies.  Its jobs stall and are handed out again, once: BullMQ fails a
\* job that stalls a second time.  A call under way goes no further.
RestartWorker ==
  /\ InHand # {} \/ adding # {}
  /\ stalls' = [j \in Job |-> stalls[j] + (IF j \in InHand THEN 1 ELSE 0)]
  /\ job' = [j \in Job |-> CASE j \notin InHand -> job[j]
                             [] j \in InHand /\ stalls[j] = 0 -> "delayed"
                             [] OTHER -> "failed"]
  /\ adding' = {}
  /\ UNCHANGED <<today, due>>

NextDay ==
  /\ today < LastDay /\ today' = today + 1
  /\ UNCHANGED <<job, due, stalls, adding>>

RemindersNext ==
  \/ \E f \in Freeze : ScheduleFirst(f) \/ ScheduleSecond(f)
  \/ \E j \in Job : Take(j) \/ ProcessJob(j)
  \/ RestartWorker \/ NextDay

RemindersSpec == RemindersInit /\ [][RemindersNext]_reminderVars

-----------------------------------------------------------------------------
(* Properties                                                              *)

\* A reminder that was queued is handled, on its day or later, unless the process
\* died twice with it in hand.
JobsHandled ==
  \A j \in Job : (job[j] = "delayed") ~>
    \/ job[j] = "done" /\ due[j] <= today
    \/ job[j] = "failed" /\ stalls[j] = 2
=============================================================================
