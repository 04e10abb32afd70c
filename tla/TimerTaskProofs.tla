--------------------------- MODULE TimerTaskProofs ---------------------------
(* Proofs of the safety of TimerTask, for every set of tasks and any number *)
(* of timers that cannot be created.                                        *)
EXTENDS TimerTask, TLAPS

(* One step of a task.                                                      *)
Step(t) ==
  \/ New(t) \/ Execute(t) \/ ExecuteNow(t) \/ ExecuteCancelled(t)
  \/ FireAndRun(t) \/ FireInVain(t) \/ FinishRun(t)
  \/ Cancel(t, TRUE) \/ Cancel(t, FALSE) \/ Collect(t)

LEMMA NextIsStep == Next => WorkerExits \/ \E t \in Task : Step(t)
BY DEF Next, Step, Fire

(* What a chain of timers may add to the state: schedule_next().            *)
LEMMA ScheduleTypes ==
  ASSUME TypeOK, NEW t \in Task, EndOfPeriod(t)
  PROVE  /\ pending' \in [Task -> Nat] /\ lastOne' \subseteq Task
         /\ failures' \in 0..MaxFailures /\ stopped' \subseteq Task
<1> USE DEF TypeOK
<1>1. CASE UNCHANGED <<pending, failures, stopped>> /\ lastOne' = lastOne \ {t}
  BY <1>1
<1>2. CASE ScheduleNext(t) /\ UNCHANGED lastOne
  <2>1. pending' \in [Task -> Nat] /\ stopped' \subseteq Task
    BY <1>2 DEF ScheduleNext
  <2>2. failures' = failures \/ (failures < MaxFailures /\ failures' = failures + 1)
    BY <1>2 DEF ScheduleNext
  <2>3. failures \in 0..MaxFailures /\ MaxFailures \in Nat
    BY MaxFailuresAssumption
  <2>4. failures' \in 0..MaxFailures
    BY <2>2, <2>3
  <2> QED BY <1>2, <2>1, <2>4
<1> QED BY <1>1, <1>2 DEF EndOfPeriod

(* The state of the tasks of a worker keeps its shape: timer_task.lua.      *)
THEOREM TypeCorrect == Spec => []TypeOK
<1>1. Init => TypeOK
  <2> SUFFICES ASSUME Init PROVE TypeOK
    OBVIOUS
  <2>1. failures = 0 /\ MaxFailures \in Nat
    BY MaxFailuresAssumption DEF Init
  <2>2. failures \in 0..MaxFailures
    BY <2>1
  <2> QED BY <2>2 DEF Init, TypeOK
<1>2. ASSUME TypeOK, [Next]_vars PROVE TypeOK'
  <2> USE DEF flags, timers, history
  <2>1. ASSUME NEW t \in Task, Step(t) PROVE TypeOK'
    <3>1. CASE New(t) BY <1>2, <3>1 DEF New, TypeOK
    <3>2. CASE Execute(t)
      BY <1>2, <3>2, ScheduleTypes DEF Execute, TypeOK
    <3>3. CASE ExecuteNow(t)
      BY <1>2, <3>3 DEF ExecuteNow, BeginRun, TypeOK
    <3>4. CASE ExecuteCancelled(t)
      BY <1>2, <3>4 DEF ExecuteCancelled, TypeOK
    <3>5. CASE FireAndRun(t)
      BY <1>2, <3>5 DEF FireAndRun, BeginRun, TypeOK
    <3>6. CASE FireInVain(t)
      BY <1>2, <3>6 DEF FireInVain, TypeOK
    <3>7. CASE FinishRun(t)
      <4>1. running' \in [Task -> Nat]
        BY <1>2, <3>7 DEF FinishRun, TypeOK
      <4> QED BY <1>2, <3>7, <4>1, ScheduleTypes DEF FinishRun, TypeOK
    <3>8. ASSUME NEW more \in BOOLEAN, Cancel(t, more) PROVE TypeOK'
      BY <1>2, <3>8 DEF Cancel, MarkCancelled, TypeOK
    <3>9. CASE Collect(t) BY <1>2, <3>9 DEF Collect, TypeOK
    <3> QED BY <2>1, <3>1, <3>2, <3>3, <3>4, <3>5, <3>6, <3>7, <3>8, <3>9 DEF Step
  <2>2. CASE WorkerExits BY <1>2, <2>2 DEF WorkerExits, TypeOK
  <2>3. CASE UNCHANGED vars BY <1>2, <2>3 DEF vars, TypeOK
  <2> QED BY <1>2, <2>1, <2>2, <2>3, NextIsStep
<1> QED BY <1>1, <1>2, PTL DEF Spec

(***************************************************************************)
(* What the flags say of a task and its chain.  Before execute() there is  *)
(* no timer.  A task is in one of active_tasks and last_one at most, and   *)
(* cancel() takes it out of the first.  While last_one is set, the last    *)
(* run has not begun, or it is under way and no timer is left.  The run in *)
(* which cancel(true) found a task is the last one and leaves no timer.    *)
(***************************************************************************)
Fresh(t) ==
  /\ object[t] \in {"none", "new"} => pending[t] = 0 /\ running[t] = 0
  /\ object[t] = "none" => t \notin active /\ cancelled[t] = "no"

Flags(t) ==
  /\ t \in active => cancelled[t] = "no" /\ object[t] \in {"new", "executed"}
  /\ t \in lastOne => cancelled[t] = "more"

OneChain(t) ==
  \/ pending[t] = 0 /\ running[t] \in {0, 1}
  \/ pending[t] = 1 /\ running[t] = 0

Begun(t) ==
  /\ cancelled[t] \in {"no", "plain"} => extra[t] = 0
  /\ extra[t] \in {0, 1}
  /\ t \in lastOne /\ extra[t] = 1 => pending[t] = 0 /\ running[t] = 1
  /\ t \in underway => /\ cancelled[t] = "more" /\ extra[t] = 0 /\ pending[t] = 0
                       /\ (t \in lastOne <=> running[t] = 1)

Lives(t) == t \in active /\ object[t] = "executed" /\ t \notin stopped =>
              pending[t] = 1 \/ running[t] = 1

Waits(t) == t \in waiting => pending[t] = 1 /\ t \in lastOne

Sound(t) == Fresh(t) /\ Flags(t) /\ OneChain(t) /\ Begun(t) /\ Lives(t) /\ Waits(t)

(* A task is not touched by the steps of the others.                        *)
LEMMA OthersKeep ==
  ASSUME TypeOK, NEW t \in Task, NEW u \in Task, u # t, Sound(t), Step(u)
  PROVE  Sound(t)'
<1> DEFINE Kept ==
      /\ object'[t] = object[t] /\ pending'[t] = pending[t] /\ running'[t] = running[t]
      /\ cancelled'[t] = cancelled[t] /\ extra'[t] = extra[t]
      /\ t \in active' <=> t \in active
      /\ t \in lastOne' <=> t \in lastOne
      /\ t \in waiting' <=> t \in waiting
      /\ t \in underway' <=> t \in underway
      /\ t \in stopped' <=> t \in stopped
<1>1. Kept
  <2> USE DEF TypeOK, flags, timers, history
  <2>1. CASE New(u) BY <2>1 DEF New
  <2>2. CASE Execute(u) BY <2>2 DEF Execute, EndOfPeriod, ScheduleNext
  <2>3. CASE ExecuteNow(u) BY <2>3 DEF ExecuteNow, BeginRun
  <2>4. CASE ExecuteCancelled(u) BY <2>4 DEF ExecuteCancelled
  <2>5. CASE FireAndRun(u) BY <2>5 DEF FireAndRun, BeginRun
  <2>6. CASE FireInVain(u) BY <2>6 DEF FireInVain
  <2>7. CASE FinishRun(u) BY <2>7 DEF FinishRun, EndOfPeriod, ScheduleNext
  <2>8. ASSUME NEW more \in BOOLEAN, Cancel(u, more) PROVE Kept
    BY <2>8 DEF Cancel, MarkCancelled
  <2>9. CASE Collect(u) BY <2>9 DEF Collect
  <2> QED BY <2>1, <2>2, <2>3, <2>4, <2>5, <2>6, <2>7, <2>8, <2>9 DEF Step
<1> QED BY <1>1 DEF Sound, Fresh, Flags, OneChain, Begun, Lives, Waits

(* The end of a period is reached with no timer and at most the run that    *)
(* ends: the task has one timer, or it stopped, or its last run is over.    *)
LEMMA PeriodEnds ==
  ASSUME TypeOK, NEW t \in Task, Sound(t), pending[t] = 0, EndOfPeriod(t)
  PROVE  \/ pending'[t] = 1 /\ t \notin lastOne' /\ t \notin lastOne /\ stopped' = stopped
         \/ pending'[t] = 0 /\ t \notin lastOne' /\ (t \in active => t \in stopped')
<1>1. pending'[t] = pending[t] + 1 \/ UNCHANGED pending
  BY DEF EndOfPeriod, ScheduleNext, TypeOK
<1>2. CASE t \in lastOne
  BY <1>2 DEF EndOfPeriod, ScheduleNext, Sound, Flags
<1>3. CASE t \notin lastOne
  <2>1. CASE pending' = [pending EXCEPT ![t] = @ + 1] /\ UNCHANGED <<failures, stopped, lastOne>>
    BY <1>3, <2>1 DEF TypeOK
  <2>2. CASE stopped' = stopped \cup {t} /\ UNCHANGED <<pending, lastOne>>
    BY <1>3, <2>2
  <2> QED BY <1>3, <2>1, <2>2 DEF EndOfPeriod, ScheduleNext
<1> QED BY <1>2, <1>3

(* No step of a task breaks what the flags say of it.                       *)
LEMMA StepKeeps ==
  ASSUME TypeOK, NEW t \in Task, Sound(t), Step(t) PROVE Sound(t)'
<1> USE DEF TypeOK, flags, timers, history, Sound, Fresh, Flags, OneChain, Begun, Lives, Waits
<1>1. CASE New(t) BY <1>1 DEF New
<1>2. CASE Execute(t)
  <2>1. pending[t] = 0 /\ running[t] = 0 /\ t \notin underway
    BY <1>2 DEF Execute, MayRun
  <2>2. /\ object'[t] = "executed" /\ running'[t] = 0 /\ t \notin waiting'
        /\ UNCHANGED <<underway, active, cancelled, extra>>
    BY <1>2, <2>1 DEF Execute
  <2> HIDE DEF TypeOK, Sound
  <2>3. \/ pending'[t] = 1 /\ t \notin lastOne' /\ t \notin lastOne /\ stopped' = stopped
        \/ pending'[t] = 0 /\ t \notin lastOne' /\ (t \in active => t \in stopped')
    BY <1>2, <2>1, PeriodEnds DEF Execute
  <2> QED BY <2>1, <2>2, <2>3 DEF Sound
<1>3. CASE ExecuteNow(t)
  <2>1. pending[t] = 0 /\ running[t] = 0 /\ extra[t] = 0 /\ t \notin underway
    BY <1>3 DEF ExecuteNow, MayRun
  <2>2. /\ object'[t] = "executed" /\ running'[t] = 1 /\ pending'[t] = 0
        /\ t \notin waiting' /\ UNCHANGED <<underway, active, lastOne, cancelled, stopped>>
        /\ extra'[t] = IF cancelled[t] = "no" THEN 0 ELSE 1
    BY <1>3, <2>1 DEF ExecuteNow, BeginRun
  <2>3. cancelled[t] \in {"no", "more"}
    BY <1>3 DEF ExecuteNow, MayRun
  <2> HIDE DEF TypeOK
  <2> QED BY <2>1, <2>2, <2>3
<1>4. CASE ExecuteCancelled(t) BY <1>4 DEF ExecuteCancelled, MayRun
<1>5. CASE FireAndRun(t)
  <2>1. /\ pending[t] = 1 /\ running[t] = 0 /\ extra[t] = 0 /\ t \notin underway
        /\ cancelled[t] \in {"no", "more"}
    BY <1>5 DEF FireAndRun, MayRun
  <2>2. /\ running'[t] = 1 /\ pending'[t] = 0 /\ t \notin waiting'
        /\ UNCHANGED <<underway, active, lastOne, object, cancelled, stopped>>
        /\ extra'[t] = IF cancelled[t] = "no" THEN 0 ELSE 1
    BY <1>5, <2>1 DEF FireAndRun, BeginRun
  <2> HIDE DEF TypeOK
  <2> QED BY <2>1, <2>2
<1>6. CASE FireInVain(t)
  <2>1. pending[t] = 1 /\ t \notin active /\ t \notin lastOne
    BY <1>6 DEF FireInVain, MayRun
  <2>2. pending'[t] = 0 /\ UNCHANGED <<active, lastOne, object, running, stopped, history>>
    BY <1>6, <2>1 DEF FireInVain
  <2> QED BY <2>1, <2>2
<1>7. CASE FinishRun(t)
  <2>1. pending[t] = 0 /\ running[t] = 1
    BY <1>7 DEF FinishRun
  <2>2. /\ running'[t] = 0 /\ t \notin waiting'
        /\ UNCHANGED <<underway, active, object, cancelled, extra>>
    BY <1>7, <2>1 DEF FinishRun
  <2> HIDE DEF TypeOK, Sound
  <2>3. \/ pending'[t] = 1 /\ t \notin lastOne' /\ t \notin lastOne /\ stopped' = stopped
        \/ pending'[t] = 0 /\ t \notin lastOne' /\ (t \in active => t \in stopped')
    BY <1>7, <2>1, PeriodEnds DEF FinishRun
  <2> QED BY <2>1, <2>2, <2>3 DEF Sound
<1>8. ASSUME NEW more \in BOOLEAN, Cancel(t, more) PROVE Sound(t)'
  <2>1. /\ cancelled[t] = "no" /\ extra[t] = 0
        /\ t \notin lastOne /\ t \notin waiting /\ t \notin underway
    BY <1>8 DEF Cancel
  <2>2. /\ UNCHANGED <<object, pending, running, extra, stopped>>
        /\ t \notin active'
        /\ t \in lastOne' => more
        /\ cancelled'[t] = IF more THEN "more" ELSE "plain"
    BY <1>8, <2>1 DEF Cancel, MarkCancelled
  <2>3. t \in waiting' => pending[t] = 1 /\ t \in lastOne'
    BY <1>8, <2>1 DEF Cancel, MarkCancelled
  <2>4. t \in underway' => more /\ pending[t] = 0 /\ running[t] = 1 /\ t \in lastOne'
    BY <1>8, <2>1 DEF Cancel, MarkCancelled
  <2> HIDE DEF TypeOK, Sound, Fresh, Flags, OneChain, Begun, Lives, Waits
  <2>5. Fresh(t)' /\ OneChain(t)'
    BY <1>8, <2>2 DEF Cancel, Sound, Fresh, OneChain
  <2>6. Flags(t)' /\ Begun(t)' /\ Lives(t)'
    BY <2>1, <2>2, <2>4 DEF Flags, Begun, Lives
  <2>7. Waits(t)'
    BY <2>2, <2>3 DEF Waits
  <2> QED BY <2>5, <2>6, <2>7 DEF Sound
<1>9. CASE Collect(t) BY <1>9 DEF Collect
<1> QED BY <1>1, <1>2, <1>3, <1>4, <1>5, <1>6, <1>7, <1>8, <1>9 DEF Step

(* Sound holds of every task in every execution.                            *)
THEOREM SoundInvariant == Spec => [](\A t \in Task : Sound(t))
<1>1. Init => \A t \in Task : Sound(t)
  BY DEF Init, Sound, Fresh, Flags, OneChain, Begun, Lives, Waits
<1>2. ASSUME TypeOK, \A t \in Task : Sound(t), [Next]_vars PROVE (\A t \in Task : Sound(t))'
  <2> SUFFICES ASSUME NEW t \in Task PROVE Sound(t)'
    OBVIOUS
  <2>1. CASE UNCHANGED vars \/ WorkerExits
    BY <1>2, <2>1 DEF vars, WorkerExits, flags, timers, history,
                      Sound, Fresh, Flags, OneChain, Begun, Lives, Waits
  <2>2. ASSUME NEW u \in Task, Step(u) PROVE Sound(t)'
    BY <1>2, <2>2, OthersKeep, StepKeeps
  <2> QED BY <1>2, <2>1, <2>2, NextIsStep
<1> QED BY <1>1, <1>2, TypeCorrect, PTL DEF Spec

(* run_periodic() schedules one run after another: no task ever has two     *)
(* chains of timers, and no two of its runs overlap.                        *)
THEOREM RunsNeverOverlap == Spec => []SingleChain
<1>1. ASSUME TypeOK, \A t \in Task : Sound(t) PROVE SingleChain
  <2> SUFFICES ASSUME NEW t \in Task PROVE Chain(t) <= 1
    BY DEF SingleChain
  <2> QED BY <1>1 DEF Sound, OneChain, Chain
<1> QED BY <1>1, SoundInvariant, TypeCorrect, PTL

(* After schedule_next() a registered task has its next run, unless nginx   *)
(* refused the timer.                                                       *)
THEOREM ChainGoesOn == Spec => []ChainLives
<1>1. ASSUME TypeOK, \A t \in Task : Sound(t) PROVE ChainLives
  <2> SUFFICES ASSUME NEW t \in Task, t \in active, object[t] = "executed", t \notin stopped
               PROVE  Chain(t) = 1
    BY DEF ChainLives
  <2> QED BY <1>1 DEF Sound, OneChain, Lives, Chain
<1> QED BY <1>1, SoundInvariant, TypeCorrect, PTL

(* cancel(): the flags let no further run begin, or one with run_one_more   *)
(* if no run is under way.                                                  *)
THEOREM CancelStopsRuns == Spec => []CancelledStops
<1>1. ASSUME \A t \in Task : Sound(t) PROVE CancelledStops
  <2> SUFFICES ASSUME NEW t \in Task
               PROVE  /\ cancelled[t] = "plain" \/ t \in underway => extra[t] = 0
                      /\ extra[t] <= 1
    BY DEF CancelledStops
  <2> QED BY <1>1 DEF Sound, Begun
<1> QED BY <1>1, SoundInvariant, PTL

(* cancel(true) between two runs, before or after the task is collected:    *)
(* the timer and the permission stay.                                       *)
THEOREM WaitingTaskRuns == Spec => []WaitingRunsOnceMore
<1>1. ASSUME TypeOK, \A t \in Task : Sound(t) PROVE WaitingRunsOnceMore
  <2> SUFFICES ASSUME NEW t \in waiting PROVE pending[t] > 0 /\ t \in lastOne
    BY DEF WaitingRunsOnceMore
  <2>1. t \in Task
    BY <1>1 DEF TypeOK
  <2> QED BY <1>1, <2>1 DEF Sound, Waits
<1> QED BY <1>1, SoundInvariant, TypeCorrect, PTL

-----------------------------------------------------------------------------
(***************************************************************************)
(* The end of a task, without fairness: what a task that was cancelled, or *)
(* has no instance, has left to do is finite, and nothing adds to it.      *)
(***************************************************************************)
Retired(t) == object[t] = "collected" \/ cancelled[t] # "no"

(* The events of nginx that are due at most for a retired task: a timer    *)
(* that fires in vain, a run that ends and leaves such a timer, or the     *)
(* last run.  cancel(true) may still promise that one to a task that was   *)
(* collected first.                                                        *)
Due(t) ==
  (IF object[t] = "new" THEN 2 ELSE 0)
  + (IF t \in lastOne THEN 2 * pending[t] + running[t]
     ELSE IF cancelled[t] = "no" THEN 2 * pending[t] + 3 * running[t]
     ELSE pending[t] + 2 * running[t])

FewDue(t) == Due(t) \in 0..3 /\ (Due(t) = 0 => Chain(t) = 0)

RunsDown(t) == Retired(t) =>
  /\ Retired(t)' /\ Due(t)' <= Due(t)
  /\ (Fire(t) \/ FinishRun(t) => Due(t)' < Due(t))

(* Only its own steps change what is due for a task.                       *)
LEMMA OthersDue ==
  ASSUME TypeOK, NEW t \in Task, NEW u \in Task, u # t, Step(u)
  PROVE  RunsDown(t)
<1>1. /\ object'[t] = object[t] /\ pending'[t] = pending[t] /\ running'[t] = running[t]
      /\ cancelled'[t] = cancelled[t] /\ (t \in lastOne' <=> t \in lastOne)
  <2> USE DEF TypeOK, flags, timers, history
  <2>1. CASE New(u) BY <2>1 DEF New
  <2>2. CASE Execute(u) BY <2>2 DEF Execute, EndOfPeriod, ScheduleNext
  <2>3. CASE ExecuteNow(u) BY <2>3 DEF ExecuteNow, BeginRun
  <2>4. CASE ExecuteCancelled(u) BY <2>4 DEF ExecuteCancelled
  <2>5. CASE FireAndRun(u) BY <2>5 DEF FireAndRun, BeginRun
  <2>6. CASE FireInVain(u) BY <2>6 DEF FireInVain
  <2>7. CASE FinishRun(u) BY <2>7 DEF FinishRun, EndOfPeriod, ScheduleNext
  <2>8. ASSUME NEW more \in BOOLEAN, Cancel(u, more) PROVE cancelled'[t] = cancelled[t]
    BY <2>8 DEF Cancel, MarkCancelled
  <2>9. ASSUME NEW more \in BOOLEAN, Cancel(u, more)
        PROVE  /\ object'[t] = object[t] /\ pending'[t] = pending[t] /\ running'[t] = running[t]
               /\ (t \in lastOne' <=> t \in lastOne)
    BY <2>9 DEF Cancel
  <2>10. CASE Collect(u) BY <2>10 DEF Collect
  <2> QED BY <2>1, <2>2, <2>3, <2>4, <2>5, <2>6, <2>7, <2>8, <2>9, <2>10 DEF Step
<1>2. ~Fire(t) /\ ~FinishRun(t)
  <2>1. pending[t] > 0 /\ Fire(t) => pending'[t] # pending[t]
    BY DEF Fire, FireAndRun, FireInVain, TypeOK
  <2>2. running[t] > 0 /\ FinishRun(t) => running'[t] # running[t]
    BY DEF FinishRun, TypeOK
  <2> QED BY <1>1, <2>1, <2>2 DEF Fire, FireAndRun, FireInVain, FinishRun
<1>3. Due(t)' = Due(t) /\ (Retired(t) => Retired(t)')
  BY <1>1 DEF Due, Retired
<1>4. Due(t) \in Int
  BY DEF TypeOK, Due
<1> QED BY <1>2, <1>3, <1>4 DEF RunsDown

(* The steps of a retired task: each timer that fires and each run that    *)
(* ends brings the end of its chain nearer.                                *)
LEMMA StepDue ==
  ASSUME TypeOK, TypeOK', NEW t \in Task, Sound(t), Sound(t)', Step(t)
  PROVE  RunsDown(t)
<1> SUFFICES ASSUME Retired(t)
             PROVE  /\ Retired(t)' /\ Due(t)' <= Due(t)
                    /\ (Fire(t) \/ FinishRun(t) => Due(t)' < Due(t))
  BY DEF RunsDown
<1> DEFINE Down == Retired(t)' /\ Due(t)' < Due(t)
<1>0. /\ pending[t] \in Nat /\ running[t] \in Nat /\ t \notin active
      /\ pending'[t] \in Nat /\ running'[t] \in Nat
      /\ cancelled[t] = "more" \/ t \notin lastOne
  BY DEF TypeOK, Sound, Flags, Retired
<1>1. CASE New(t)
  BY <1>1 DEF New, Retired, Sound, Fresh
<1>2. CASE Execute(t)
  <2>1. pending[t] = 0 /\ running[t] = 0 /\ t \in lastOne /\ object[t] = "new"
    BY <1>0, <1>2 DEF Execute, MayRun, Sound, Fresh
  <2>2. /\ pending'[t] = 0 /\ running'[t] = 0 /\ object'[t] = "executed"
        /\ cancelled' = cancelled
    BY <1>2, <2>1 DEF Execute, EndOfPeriod, TypeOK, history
  <2>3. Down
    BY <2>1, <2>2 DEF Due, Retired
  <2> QED BY <1>0, <2>3 DEF Due
<1>3. CASE ExecuteNow(t)
  <2>1. pending[t] = 0 /\ running[t] = 0 /\ t \in lastOne /\ object[t] = "new"
    BY <1>0, <1>3 DEF ExecuteNow, MayRun, Sound, Fresh
  <2>2. /\ pending'[t] = 0 /\ running'[t] = 1 /\ object'[t] = "executed" /\ lastOne' = lastOne
        /\ cancelled' = cancelled
    BY <1>3, <2>1 DEF ExecuteNow, BeginRun, TypeOK, flags
  <2>3. Down
    BY <2>1, <2>2 DEF Due, Retired
  <2> QED BY <1>0, <2>3 DEF Due
<1>4. CASE ExecuteCancelled(t)
  <2>1. /\ object[t] = "new" /\ object'[t] = "executed"
        /\ UNCHANGED <<lastOne, pending, running, cancelled>>
    BY <1>4 DEF ExecuteCancelled, TypeOK, flags, timers, history
  <2>2. Down
    BY <1>0, <2>1 DEF Due, Retired
  <2> QED BY <1>0, <2>2 DEF Due
<1>5. CASE FireAndRun(t)
  <2>1. pending[t] = 1 /\ running[t] = 0 /\ t \in lastOne
    BY <1>0, <1>5 DEF FireAndRun, MayRun, Sound, OneChain
  <2>2. /\ pending'[t] = 0 /\ running'[t] = 1
        /\ UNCHANGED <<lastOne, object, cancelled>>
    BY <1>5, <2>1 DEF FireAndRun, BeginRun, TypeOK, flags
  <2>3. Down
    BY <2>1, <2>2 DEF Due, Retired
  <2> QED BY <1>0, <2>3 DEF Due
<1>6. CASE FireInVain(t)
  <2>1. /\ pending[t] > 0 /\ pending'[t] = pending[t] - 1
        /\ UNCHANGED <<lastOne, object, running, cancelled>>
    BY <1>6 DEF FireInVain, TypeOK, flags, history
  <2>2. Down
    BY <1>0, <2>1 DEF Due, Retired
  <2> QED BY <1>0, <2>2 DEF Due
<1>7. CASE FinishRun(t)
  <2>1. pending[t] = 0 /\ running[t] = 1 /\ running'[t] = 0 /\ UNCHANGED <<object, cancelled>>
    BY <1>0, <1>7 DEF FinishRun, Sound, OneChain, TypeOK, history
  <2>2. \/ pending'[t] = 1 /\ t \notin lastOne' /\ t \notin lastOne
        \/ pending'[t] = 0 /\ t \notin lastOne'
    BY <1>7, <2>1, PeriodEnds DEF FinishRun
  <2>3. Down
    BY <2>1, <2>2 DEF Due, Retired
  <2> QED BY <1>0, <2>3 DEF Due
<1>8. ASSUME NEW more \in BOOLEAN, Cancel(t, more)
      PROVE  Retired(t)' /\ Due(t)' <= Due(t) /\ ~Fire(t) /\ ~FinishRun(t)
  <2>1. /\ cancelled[t] = "no" /\ t \notin lastOne /\ cancelled'[t] \in {"more", "plain"}
        /\ UNCHANGED <<object, pending, running>>
    BY <1>8 DEF Cancel, MarkCancelled, Sound, Flags, TypeOK, timers
  <2>2. Retired(t)' /\ Due(t)' <= Due(t)
    BY <1>0, <2>1 DEF Due, Retired
  <2>3. ~Fire(t) /\ ~FinishRun(t)
    BY <2>1 DEF Fire, FireAndRun, FireInVain, FinishRun, TypeOK
  <2> QED BY <2>2, <2>3
<1>9. CASE Collect(t)
  <2>1. /\ object[t] \in {"new", "executed"} /\ object'[t] = "collected"
        /\ UNCHANGED <<lastOne, pending, running, cancelled>>
    BY <1>9 DEF Collect, TypeOK, timers, history
  <2>2. Retired(t)' /\ Due(t)' <= Due(t)
    BY <1>0, <2>1 DEF Due, Retired
  <2>3. ~Fire(t) /\ ~FinishRun(t)
    BY <2>1 DEF Fire, FireAndRun, FireInVain, FinishRun
  <2> QED BY <2>2, <2>3
<1> QED BY <1>1, <1>2, <1>3, <1>4, <1>5, <1>6, <1>7, <1>8, <1>9 DEF Step

(* The worker may exit before a task has ended.                            *)
LEMMA NobodyDue ==
  ASSUME TypeOK, NEW t \in Task, WorkerExits \/ UNCHANGED vars PROVE RunsDown(t)
<1>1. UNCHANGED <<object, pending, running, cancelled, lastOne>>
  BY DEF WorkerExits, vars, flags, timers, history
<1>2. ~Fire(t) /\ ~FinishRun(t)
  BY <1>1 DEF Fire, FireAndRun, FireInVain, FinishRun, TypeOK
<1>3. Due(t) \in Int
  BY DEF TypeOK, Due
<1> QED BY <1>1, <1>2, <1>3 DEF RunsDown, Due, Retired

(* A task that is cancelled or collected is over after three events at     *)
(* most, whatever else happens: every timer that fires and every run that  *)
(* ends brings it nearer to the end, and no step takes it back, not even   *)
(* the cancel(true) that the policy's __gc calls after the task's own.     *)
(* With fairness that is CancelledQuiesces.                                *)
THEOREM RetiredRunDown ==
  Spec => [](\A t \in Task : FewDue(t)) /\ [][\A t \in Task : RunsDown(t)]_vars
<1>1. ASSUME TypeOK, \A t \in Task : Sound(t) PROVE \A t \in Task : FewDue(t)
  <2> SUFFICES ASSUME NEW t \in Task PROVE FewDue(t)
    OBVIOUS
  <2>1. /\ pending[t] \in Nat /\ running[t] \in Nat
        /\ object[t] = "new" => pending[t] = 0 /\ running[t] = 0
        /\ \/ pending[t] = 0 /\ running[t] \in {0, 1}
           \/ pending[t] = 1 /\ running[t] = 0
    BY <1>1 DEF TypeOK, Sound, Fresh, OneChain
  <2>2. CASE pending[t] = 0 /\ running[t] = 0
    BY <2>2 DEF FewDue, Due, Chain
  <2>3. CASE pending[t] = 0 /\ running[t] = 1
    BY <2>1, <2>3 DEF FewDue, Due, Chain
  <2>4. CASE pending[t] = 1 /\ running[t] = 0
    BY <2>1, <2>4 DEF FewDue, Due, Chain
  <2> QED BY <2>1, <2>2, <2>3, <2>4
<1>2. ASSUME TypeOK, TypeOK', \A t \in Task : Sound(t), (\A t \in Task : Sound(t))', [Next]_vars
      PROVE  [\A t \in Task : RunsDown(t)]_vars
  <2> SUFFICES ASSUME NEW t \in Task PROVE RunsDown(t)
    OBVIOUS
  <2>1. ASSUME NEW u \in Task, Step(u) PROVE RunsDown(t)
    <3>1. CASE u = t
      BY <1>2, <2>1, <3>1, StepDue
    <3>2. CASE u # t
      BY <1>2, <2>1, <3>2, OthersDue
    <3> QED BY <3>1, <3>2
  <2>2. CASE WorkerExits \/ UNCHANGED vars
    BY <1>2, <2>2, NobodyDue
  <2> QED BY <1>2, <2>1, <2>2, NextIsStep
<1> QED BY <1>1, <1>2, SoundInvariant, TypeCorrect, PTL DEF Spec
=============================================================================
