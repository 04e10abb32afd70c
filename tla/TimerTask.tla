------------------------------ MODULE TimerTask ------------------------------
(***************************************************************************)
(* Periodic tasks of one nginx worker (resty/concurrent/timer_task.lua):   *)
(* the chain of timers in which every run schedules the next one, and the  *)
(* two flags, active_tasks and last_one, that end it.  A run yields (it    *)
(* waits for a lock and for the 3scale backend), so that cancel() and the  *)
(* garbage collector get between its beginning and its end.                *)
(***************************************************************************)
EXTENDS Integers, FiniteSets

CONSTANTS
  Task,         \* ids of the tasks
  MaxFailures   \* bound: calls of ngx.timer.at that fail before the worker exits

ASSUME MaxFailuresAssumption == MaxFailures \in Nat

VARIABLES
  active,     \* _M.active_tasks
  lastOne,    \* _M.last_one
  object,     \* "none", "new", "executed" or "collected": the TimerTask instance
  pending,    \* timers of the task that nginx has not fired yet
  running,    \* runs of the task between their first and their last step
  exiting,    \* the worker is shutting down
  failures,
  cancelled,  \* history: "no", "plain", "more": the last call of cancel()
  extra,      \* history: runs begun since the task was cancelled
  waiting,    \* history: tasks that cancel(true) found between two runs
  underway,   \* history: tasks that cancel(true) found in a run
  stopped     \* history: tasks whose next run could not be scheduled

timers == <<pending, running, exiting, failures, stopped>>
flags  == <<active, lastOne>>
history == <<cancelled, extra, waiting, underway>>
vars   == <<flags, timers, object, history>>

Chain(t) == pending[t] + running[t]

Init ==
  /\ active = {} /\ lastOne = {}
  /\ object = [t \in Task |-> "none"]
  /\ pending = [t \in Task |-> 0] /\ running = [t \in Task |-> 0]
  /\ exiting = FALSE /\ failures = 0
  /\ cancelled = [t \in Task |-> "no"] /\ extra = [t \in Task |-> 0]
  /\ waiting = {} /\ underway = {} /\ stopped = {}

(* TimerTask.new() registers the id.                                       *)
New(t) ==
  /\ object[t] = "none"
  /\ object' = [object EXCEPT ![t] = "new"]
  /\ active' = active \cup {t}
  /\ UNCHANGED <<lastOne, timers, history>>

(* The check at the top of run_periodic().                                 *)
MayRun_Always(t) == t \in Task   \* mutant: the flags are not looked at
MayRun(t) == t \in active \/ t \in lastOne

(* schedule_next(): ngx.timer.at may fail, and does once the worker exits; *)
(* the failure is logged and nothing else is done.                         *)
ScheduleNext(t) ==
  \/ /\ ~exiting
     /\ pending' = [pending EXCEPT ![t] = @ + 1]
     /\ UNCHANGED <<failures, stopped>>
  \/ /\ exiting \/ failures < MaxFailures
     /\ failures' = IF exiting THEN failures ELSE failures + 1
     /\ stopped' = stopped \cup {t}
     /\ UNCHANGED pending

(* The end of run_periodic(): the flag for a last run is looked at now.    *)
EndOfPeriod(t) ==
  \/ /\ t \notin lastOne
     /\ ScheduleNext(t)
     /\ UNCHANGED lastOne
  \/ /\ t \in lastOne
     /\ lastOne' = lastOne \ {t}
     /\ UNCHANGED <<pending, failures, stopped>>

BeginRun(t) ==
  /\ running' = [running EXCEPT ![t] = @ + 1]
  /\ extra' = [extra EXCEPT ![t] = IF cancelled[t] = "no" THEN 0 ELSE @ + 1]
  /\ waiting' = waiting \ {t} /\ underway' = underway

(* execute(): once in the life of a task, as the batcher does.  Without    *)
(* run_now it only schedules; with run_now it runs the function first.     *)
Execute(t) ==
  /\ object[t] = "new"
  /\ object' = [object EXCEPT ![t] = "executed"]
  /\ MayRun(t)
  /\ EndOfPeriod(t)
  /\ UNCHANGED <<active, running, exiting, history>>

ExecuteNow(t) ==
  /\ object[t] = "new"
  /\ object' = [object EXCEPT ![t] = "executed"]
  /\ MayRun(t)
  /\ BeginRun(t)
  /\ UNCHANGED <<flags, pending, exiting, failures, stopped, cancelled>>

(* A task that was cancelled before: execute() returns at once.            *)
ExecuteCancelled(t) ==
  /\ object[t] = "new" /\ ~MayRun(t)
  /\ object' = [object EXCEPT ![t] = "executed"]
  /\ UNCHANGED <<flags, timers, history>>

(* timer_execute(): nginx fires a timer, early when the worker exits.      *)
FireAndRun_Every(t) ==   \* mutant: a timer that repeats, as ngx.timer.every makes
  /\ pending[t] > 0 /\ MayRun(t)
  /\ BeginRun(t)
  /\ UNCHANGED <<flags, object, pending, exiting, failures, stopped, cancelled>>

FireAndRun(t) ==
  /\ pending[t] > 0 /\ MayRun(t)
  /\ pending' = [pending EXCEPT ![t] = @ - 1]
  /\ BeginRun(t)
  /\ UNCHANGED <<flags, object, exiting, failures, stopped, cancelled>>

FireInVain_Twice(t) ==   \* mutant: a timer that has fired already fires again
  /\ ~MayRun(t)
  /\ pending' = [pending EXCEPT ![t] = @ - 1]
  /\ UNCHANGED <<flags, object, running, exiting, failures, stopped, history>>

FireInVain(t) ==
  /\ pending[t] > 0 /\ ~MayRun(t)
  /\ pending' = [pending EXCEPT ![t] = @ - 1]
  /\ UNCHANGED <<flags, object, running, exiting, failures, stopped, history>>

(* The function returns or raises: pcall makes no difference between them. *)
FinishRun_NoPcall(t) ==   \* mutant: an error ends the timer's thread
  /\ running[t] > 0
  /\ running' = [running EXCEPT ![t] = @ - 1]
  /\ \/ EndOfPeriod(t)
     \/ UNCHANGED <<lastOne, pending, failures, stopped>>
  /\ UNCHANGED <<active, object, exiting, history>>

FinishRun(t) ==
  /\ running[t] > 0
  /\ running' = [running EXCEPT ![t] = @ - 1]
  /\ EndOfPeriod(t)
  /\ UNCHANGED <<active, object, exiting, history>>

(* cancel().  The batcher calls it from the __gc of the policy instance    *)
(* that holds the task, when the task's own __gc may be behind it: the     *)
(* finalizers of one sweep run in any order, with timers between them.     *)
MarkCancelled(t, more) ==
  /\ cancelled' = [cancelled EXCEPT ![t] = IF more THEN "more" ELSE "plain"]
  /\ waiting' = IF more /\ pending[t] > 0 THEN waiting \cup {t} ELSE waiting
  /\ underway' = IF more /\ running[t] > 0 THEN underway \cup {t} ELSE underway

Cancel_Plain(t, more) ==   \* mutant: run_one_more is ignored
  /\ object[t] # "none" /\ cancelled[t] = "no"
  /\ active' = active \ {t}
  /\ MarkCancelled(t, more)
  /\ UNCHANGED <<timers, lastOne, object, extra>>

Cancel(t, more) ==
  /\ object[t] # "none" /\ cancelled[t] = "no"
  /\ lastOne' = IF more THEN lastOne \cup {t} ELSE lastOne
  /\ active' = active \ {t}
  /\ MarkCancelled(t, more)
  /\ UNCHANGED <<timers, object, extra>>

(* The __gc of an instance that nobody refers to unregisters its id.       *)
Collect_Leaks(t) ==   \* mutant: __gc is not called, as for a plain table in Lua 5.1
  /\ object[t] \in {"new", "executed"}
  /\ object' = [object EXCEPT ![t] = "collected"]
  /\ UNCHANGED <<active, lastOne, timers, history>>

Collect(t) ==
  /\ object[t] \in {"new", "executed"}
  /\ object' = [object EXCEPT ![t] = "collected"]
  /\ active' = active \ {t}
  /\ UNCHANGED <<lastOne, timers, history>>

WorkerExits ==
  /\ ~exiting
  /\ exiting' = TRUE
  /\ UNCHANGED <<flags, object, pending, running, failures, stopped, history>>

Fire(t) == FireAndRun(t) \/ FireInVain(t)

Next ==
  \/ \E t \in Task : \/ New(t) \/ Execute(t) \/ ExecuteNow(t) \/ ExecuteCancelled(t)
                     \/ Fire(t) \/ FinishRun(t)
                     \/ \E more \in BOOLEAN : Cancel(t, more)
                     \/ Collect(t)
  \/ WorkerExits

Spec == Init /\ [][Next]_vars

(* nginx fires its timers, and a run ends: its lock and its request to the *)
(* backend have timeouts.                                                  *)
Fairness == \A t \in Task : WF_vars(Fire(t)) /\ WF_vars(FinishRun(t))

FairSpec == Spec /\ Fairness

-----------------------------------------------------------------------------
TypeOK ==
  /\ active \subseteq Task /\ lastOne \subseteq Task
  /\ object \in [Task -> {"none", "new", "executed", "collected"}]
  /\ pending \in [Task -> Nat] /\ running \in [Task -> Nat]
  /\ exiting \in BOOLEAN /\ failures \in 0..MaxFailures
  /\ cancelled \in [Task -> {"no", "plain", "more"}]
  /\ extra \in [Task -> Nat]
  /\ waiting \subseteq Task /\ underway \subseteq Task /\ stopped \subseteq Task

(* Two runs of one task never overlap, and no task has two chains of       *)
(* timers: each run has one successor.                                     *)
SingleChain == \A t \in Task : Chain(t) <= 1

(* A task that is registered and was executed goes on for ever, failing    *)
(* runs included; only a timer that could not be created ends its chain.   *)
ChainLives == \A t \in Task :
  t \in active /\ object[t] = "executed" /\ t \notin stopped => Chain(t) = 1

(* After cancel() no run begins; after cancel(true) at most one does, and  *)
(* none if a run was under way: its end takes the permission for another.  *)
CancelledStops == \A t \in Task :
  /\ cancelled[t] = "plain" \/ t \in underway => extra[t] = 0
  /\ cancelled[t] = "more" => extra[t] <= 1

(* A task that is cancelled with run_one_more between two runs, collected  *)
(* before or not, has the timer and the permission for the run that it was *)
(* promised until that run begins.                                         *)
WaitingRunsOnceMore == \A t \in waiting : pending[t] > 0 /\ t \in lastOne

(* A task that has no instance or was cancelled holds no timer for ever.   *)
CancelledQuiesces == \A t \in Task :
  object[t] = "collected" \/ cancelled[t] # "no" ~> Chain(t) = 0
=============================================================================
