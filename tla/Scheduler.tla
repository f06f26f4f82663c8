------------------------------ MODULE Scheduler ------------------------------
(***************************************************************************)
(* BasicScheduler (sim/src/scheduler.cc): the discrete-event scheduler of  *)
(* the simulator.  A task is a list of stages; a stage needs units of      *)
(* resources for some service time.  Every step takes an event of least    *)
(* timestamp from the event queue and runs its handler; a stage that       *)
(* cannot start waits in waiting_queue_ until a completion drains it.      *)
(*                                                                         *)
(* A handler is one action, except that HandleTaskComplete leaves in       *)
(* drainLeft the number of iterations its trailing drain_waiting call will *)
(* make, and each iteration is one DrainStep: an iteration calls the       *)
(* policy hook, which sees the state between iterations.  Nothing else can *)
(* happen before the drain ends.                                           *)
(*                                                                         *)
(* Times and units are naturals (doubles in the code), a stage names each  *)
(* resource at most once, and a stochastic service time is any member of   *)
(* the stage's set.  The policy hook is arbitrary: each call may return    *)
(* any member of Decisions.                                                *)
(***************************************************************************)
EXTENDS Integers, Sequences, FiniteSets, Functions

CONSTANTS
  Task,         \* task ids
  Resource,     \* resource ids of the pool
  Capacity,     \* Capacity[r]: units of resource r
  Stages,       \* Stages[t]: the stages of task t, see StageType
  ArrivalTimes, \* the arrival times a workload may give its tasks
  Decisions,    \* what the policy hook may return, see DecisionType
  NoLimit,      \* admission_limit_ without a value
  Keep          \* a decision without an admission directive

StageType == [demand : [Resource -> Nat], service : SUBSET Nat]

\* A decision without a waiting order has the empty order: both leave the
\* queue as it is.  The admission directive {enabled = false} is NoLimit.
DecisionType == [order : Seq(Task), admission : Nat \cup {NoLimit, Keep}]

\* What validate_task checks before a task is in
Validated(t) ==
  /\ Stages[t] # <<>>
  /\ \A i \in DOMAIN Stages[t] :
       /\ Stages[t][i].service # {}
       /\ \A r \in Resource : Stages[t][i].demand[r] <= Capacity[r]

\* The Resource constructor refuses a capacity of 0.
ASSUME SchedulerAssumption ==
  /\ IsFiniteSet(Task)
  /\ Capacity \in [Resource -> Nat \ {0}]
  /\ Stages \in [Task -> Seq(StageType)]
  /\ \A t \in Task : Validated(t)
  /\ ArrivalTimes \subseteq Nat
  /\ Decisions \subseteq DecisionType
  /\ Decisions # {}
  /\ NoLimit \notin Nat
  /\ Keep \notin Nat
  /\ Keep # NoLimit

VARIABLES
  currentTime,       \* current_time_
  eventQueue,        \* queue_: the pending events
  tasks,             \* the ids in tasks_
  arrivalTime,       \* task.arrival_time
  stageIndex,        \* stage_index, from 1
  active,            \* ctx.active
  activeServiceTime, \* ctx.active_service_time
  readyTime,         \* ready_time of the current stage's runtime
  queueTime,         \* queue_duration summed over the stages started so far
  serviceTime,       \* service_duration summed over the stages started so far
  inUse,             \* in_use of every resource of the pool
  activeTaskCount,   \* active_task_count_
  waitingQueue,      \* waiting_queue_
  waitingSet,        \* waiting_set_
  admissionLimit,    \* admission_limit_
  completedTasks,    \* completed_tasks_
  drainLeft          \* iterations left of the running drain_waiting, or 0

runtimeVars == <<active, activeServiceTime, queueTime, serviceTime, inUse,
                 activeTaskCount>>
vars == <<currentTime, eventQueue, tasks, arrivalTime, stageIndex, readyTime,
          runtimeVars, waitingQueue, waitingSet, admissionLimit,
          completedTasks, drainLeft>>

EventType == {"arrival", "ready", "start", "complete"}
Events == [timestamp : Nat, type : EventType, id : Task]
Event(time, type, t) == [timestamp |-> time, type |-> type, id |-> t]

Stage(t) == Stages[t][stageIndex[t]]
Finished(t) == stageIndex[t] > Len(Stages[t])

------------------------------------------------------------------------------
(* The policy hook *)

Position(s, x) ==
  CHOOSE i \in DOMAIN s : s[i] = x /\ \A j \in DOMAIN s : s[j] = x => i <= j

\* x comes before y once order is applied to queue: the ids of order first, at
\* their first mention, then the others as they were queued.
Precedes(order, queue, x, y) ==
  IF x \in Range(order)
  THEN y \in Range(order) => Position(order, x) < Position(order, y)
  ELSE y \notin Range(order) /\ Position(queue, x) < Position(queue, y)

\* Mutant: ids of the order that do not wait are not filtered out.
Members_unfiltered(order, queue, waiting) ==
  IF queue = <<>> THEN {} ELSE Range(order) \cup Range(queue)

\* The ids in the queue once order is applied to it.
Members(order, queue, waiting) ==
  IF queue = <<>> THEN {} ELSE (Range(order) \cap waiting) \cup Range(queue)

\* apply_waiting_reorder: there is exactly one such queue.
Reorderings(order, queue, waiting) ==
  LET ids == Members(order, queue, waiting) IN
  {q \in [1..Cardinality(ids) -> ids] :
     /\ IsInjective(q)
     /\ Range(q) = ids
     /\ \A i, j \in DOMAIN q : i < j => Precedes(order, queue, q[i], q[j])}

\* apply_admission_control
AppliedLimit(admission, limit) == IF admission = Keep THEN limit ELSE admission

\* What the decision d makes of the queue and the limit
Applied(d, queue, waiting, limit) ==
  {[queue |-> q, limit |-> AppliedLimit(d.admission, limit)] :
     q \in Reorderings(d.order, queue, waiting)}

\* evaluate_policy_hook: the queues and limits it may leave.
EvaluatePolicyHook(queue, waiting, limit) ==
  UNION {Applied(d, queue, waiting, limit) : d \in Decisions}

------------------------------------------------------------------------------
(* try_start_task *)

\* Mutant: one more task than the limit is admitted.
Admits_offByOne(limit) == limit # NoLimit => activeTaskCount <= limit

Admits(limit) == limit # NoLimit => activeTaskCount < limit

\* Mutant: something is left of the resources that the stage needs.
Fits_something(t) ==
  \A r \in Resource : Stage(t).demand[r] > 0 => inUse[r] < Capacity[r]

Fits(t) == \A r \in Resource : inUse[r] + Stage(t).demand[r] <= Capacity[r]

\* The two checks that come first.  The early returns for a finished and for an
\* active task are not here: try_start_task is only called with a task that
\* waits or whose Ready event was just taken, which OnePlace shows to be neither.
CanStart(t, limit) == Admits(limit) /\ Fits(t)

Elapsed(from, to) == IF to > from THEN to - from ELSE 0

\* What try_start_task does once the checks passed; pending are the events it
\* adds the Start event to, ready is the time the stage became ready.
StartTask(t, pending, now, ready) ==
  \E duration \in Stage(t).service :
    /\ inUse' = [r \in Resource |-> inUse[r] + Stage(t).demand[r]]
    /\ active' = [active EXCEPT ![t] = TRUE]
    /\ activeTaskCount' = activeTaskCount + 1
    /\ activeServiceTime' = [activeServiceTime EXCEPT ![t] = duration]
    /\ queueTime' = [queueTime EXCEPT ![t] = @ + Elapsed(ready, now)]
    /\ serviceTime' = [serviceTime EXCEPT ![t] = @ + duration]
    /\ waitingSet' = waitingSet \ {t}
    /\ eventQueue' = pending \cup {Event(now, "start", t)}

------------------------------------------------------------------------------
(* Actions *)

Init ==
  /\ currentTime = 0
  /\ eventQueue = {}
  /\ tasks = {}
  /\ arrivalTime = [t \in Task |-> 0]
  /\ stageIndex = [t \in Task |-> 1]
  /\ active = [t \in Task |-> FALSE]
  /\ activeServiceTime = [t \in Task |-> 0]
  /\ readyTime = [t \in Task |-> 0]
  /\ queueTime = [t \in Task |-> 0]
  /\ serviceTime = [t \in Task |-> 0]
  /\ inUse = [r \in Resource |-> 0]
  /\ activeTaskCount = 0
  /\ waitingQueue = <<>>
  /\ waitingSet = {}
  /\ admissionLimit = NoLimit
  /\ completedTasks = <<>>
  /\ drainLeft = 0

\* submit_task, between two calls of step_once.  It does not compare the
\* arrival time with current_time_; its callers only submit tasks before the
\* first step or, for DAG nodes, at the current time.
Submit(t) ==
  /\ drainLeft = 0
  /\ t \notin tasks
  /\ tasks' = tasks \cup {t}
  /\ \E arrival \in ArrivalTimes \cup {currentTime} :
       /\ arrival >= currentTime
       /\ arrivalTime' = [arrivalTime EXCEPT ![t] = arrival]
       /\ eventQueue' = eventQueue \cup {Event(arrival, "arrival", t)}
  /\ UNCHANGED <<currentTime, stageIndex, readyTime, runtimeVars, waitingQueue,
                 waitingSet, admissionLimit, completedTasks, drainLeft>>

\* EventQueue::pop and the first assignment of step_once.  The priority queue
\* compares timestamps only: any event of least timestamp may come.
Pop(e, type) ==
  /\ drainLeft = 0
  /\ e \in eventQueue
  /\ e.type = type
  /\ \A f \in eventQueue : e.timestamp <= f.timestamp
  /\ currentTime' = e.timestamp

\* validate_task refused a task without stages: the early return is never taken.
HandleTaskArrival(e) ==
  /\ Pop(e, "arrival")
  /\ eventQueue' = (eventQueue \ {e}) \cup {Event(e.timestamp, "ready", e.id)}
  /\ UNCHANGED <<tasks, arrivalTime, stageIndex, readyTime, runtimeVars,
                 waitingQueue, waitingSet, admissionLimit, completedTasks,
                 drainLeft>>

\* Mutant: the new task is put into the queue only, not into waiting_set_.
Enlisted_queueOnly(t) == waitingSet

\* waiting_set_ after the insertion of t
Enlisted(t) == waitingSet \cup {t}

\* Mutant: a later stage keeps the ready time of the first one.
ReadyRecorded_firstStageOnly(t, time) ==
  [readyTime EXCEPT ![t] = IF stageIndex[t] = 1 THEN time ELSE @]

\* ready_time of the runtime of t's stage, recorded once per stage
ReadyRecorded(t, time) == [readyTime EXCEPT ![t] = time]

\* What handle_task_ready does before it calls the hook, and leaves alone
TakeReady(e) ==
  /\ Pop(e, "ready")
  /\ readyTime' = ReadyRecorded(e.id, e.timestamp)
  /\ UNCHANGED <<tasks, arrivalTime, stageIndex, completedTasks, drainLeft>>

\* try_start_task succeeds with what the hook left, h.
ReadyStarts(e, h) ==
  /\ CanStart(e.id, h.limit)
  /\ StartTask(e.id, eventQueue \ {e}, e.timestamp, e.timestamp)
  /\ waitingQueue' = h.queue
  /\ admissionLimit' = h.limit

\* It fails: the task was queued, and the hook's second call left g.
ReadyWaits(e, h, g) ==
  /\ ~CanStart(e.id, h.limit)
  /\ waitingSet' = Enlisted(e.id)
  /\ waitingQueue' = g.queue
  /\ admissionLimit' = g.limit
  /\ eventQueue' = eventQueue \ {e}
  /\ UNCHANGED runtimeVars

\* The hook runs before the attempt to start and, if the task has to wait,
\* again after it was queued; the second call is not followed by a drain.
HandleTaskReady(e) ==
  /\ TakeReady(e)
  /\ \E h \in EvaluatePolicyHook(waitingQueue, waitingSet, admissionLimit) :
       \/ ReadyStarts(e, h)
       \/ \E g \in EvaluatePolicyHook(Append(h.queue, e.id), Enlisted(e.id), h.limit) :
            ReadyWaits(e, h, g)

HandleTaskStart(e) ==
  /\ Pop(e, "start")
  /\ active[e.id]
  /\ eventQueue' = (eventQueue \ {e}) \cup
       {Event(e.timestamp + activeServiceTime[e.id], "complete", e.id)}
  /\ UNCHANGED <<tasks, arrivalTime, stageIndex, readyTime, runtimeVars,
                 waitingQueue, waitingSet, admissionLimit, completedTasks,
                 drainLeft>>

\* Mutant: of several units one only is given back.
Released_leak(t) ==
  [r \in Resource |-> inUse[r] - (IF Stage(t).demand[r] > 1 THEN 1
                                  ELSE Stage(t).demand[r])]

\* Mutant: the units are given back twice.
Released_twice(t) == [r \in Resource |-> inUse[r] - 2 * Stage(t).demand[r]]

\* in_use after every requirement of the stage was released.  UnitsAccounted
\* shows that release never finds fewer units in use than it gives back.
Released(t) == [r \in Resource |-> inUse[r] - Stage(t).demand[r]]

CountAfterCompletion(t) ==
  IF active[t] /\ activeTaskCount > 0 THEN activeTaskCount - 1 ELSE activeTaskCount

Deactivated(t) == [active EXCEPT ![t] = FALSE]

HasNextStage(t) == stageIndex[t] < Len(Stages[t])

\* Mutant: only the front task is tried.
DrainIterations_one == IF waitingQueue = <<>> THEN 0 ELSE 1

\* Mutant: the last waiting task is left out.
DrainIterations_short == IF waitingQueue = <<>> THEN 0 ELSE Len(waitingQueue) - 1

\* max_iterations of the drain_waiting call that ends handle_task_complete
DrainIterations == Len(waitingQueue)

HandleTaskComplete(e) ==
  LET t == e.id IN
  /\ Pop(e, "complete")
  /\ inUse' = Released(t)
  /\ activeTaskCount' = CountAfterCompletion(t)
  /\ active' = Deactivated(t)
  /\ activeServiceTime' = [activeServiceTime EXCEPT ![t] = 0]
  /\ stageIndex' = [stageIndex EXCEPT ![t] = @ + 1]
  /\ \/ /\ HasNextStage(t)
        /\ eventQueue' = (eventQueue \ {e}) \cup {Event(e.timestamp, "ready", t)}
        /\ UNCHANGED completedTasks
     \/ /\ ~HasNextStage(t)
        /\ completedTasks' = Append(completedTasks, t)
        /\ eventQueue' = eventQueue \ {e}
  /\ drainLeft' = DrainIterations
  /\ UNCHANGED <<tasks, arrivalTime, readyTime, queueTime, serviceTime,
                 waitingQueue, waitingSet, admissionLimit>>

\* With what the hook left, h, the front task starts or goes to the back.
TryFront(h) ==
  LET t == Head(h.queue) IN
  /\ admissionLimit' = h.limit
  /\ \/ /\ CanStart(t, h.limit)
        /\ StartTask(t, eventQueue, currentTime, readyTime[t])
        /\ waitingQueue' = Tail(h.queue)
     \/ /\ ~CanStart(t, h.limit)
        /\ waitingQueue' = Append(Tail(h.queue), t)
        /\ UNCHANGED <<eventQueue, waitingSet, runtimeVars>>

\* What becomes of the loop, and what it leaves alone
GoOnDraining ==
  /\ drainLeft' = IF waitingQueue' = <<>> THEN 0 ELSE drainLeft - 1
  /\ UNCHANGED <<currentTime, tasks, arrivalTime, stageIndex, readyTime,
                 completedTasks>>

\* One iteration of drain_waiting
DrainStep ==
  /\ drainLeft > 0
  /\ \E h \in EvaluatePolicyHook(waitingQueue, waitingSet, admissionLimit) :
       TryFront(h)
  /\ GoOnDraining

\* handle_event
HandleEvent(e) ==
  \/ HandleTaskArrival(e)
  \/ HandleTaskReady(e)
  \/ HandleTaskStart(e)
  \/ HandleTaskComplete(e)

\* step_once, and the rest of its last handler
StepOnce == (\E e \in eventQueue : HandleEvent(e)) \/ DrainStep

Next == (\E t \in Task : Submit(t)) \/ StepOnce

Spec == Init /\ [][Next]_vars

\* run_until_empty and the run loops of the tools call step_once until the
\* event queue is empty.
FairSpec == Spec /\ WF_vars(StepOnce)

------------------------------------------------------------------------------
(* Properties *)

\* Every variable has its type.
TypeOK ==
  /\ currentTime \in Nat
  /\ eventQueue \subseteq Events
  /\ tasks \subseteq Task
  /\ arrivalTime \in [Task -> Nat]
  /\ stageIndex \in [Task -> Nat \ {0}]
  /\ active \in [Task -> BOOLEAN]
  /\ activeServiceTime \in [Task -> Nat]
  /\ readyTime \in [Task -> Nat]
  /\ queueTime \in [Task -> Nat]
  /\ serviceTime \in [Task -> Nat]
  /\ inUse \in [Resource -> Nat]
  /\ activeTaskCount \in Nat
  /\ waitingQueue \in Seq(Task)
  /\ waitingSet \subseteq Task
  /\ admissionLimit \in Nat \cup {NoLimit}
  /\ completedTasks \in Seq(Task)
  /\ drainLeft \in Nat

EventsOf(t) == {e \in eventQueue : e.id = t}
InFlight(t) == t \in tasks /\ ~Finished(t)

\* Whenever the policy hook can look, waiting_queue_ holds the members of
\* waiting_set_, each once, however the hook reordered it: a task that is in one
\* of them only is never started again, or queued twice.
WaitingConsistent ==
  IsInjective(waitingQueue) /\ Range(waitingQueue) = waitingSet

\* A task that was submitted and has a stage left is in exactly one place: it
\* waits, or it has exactly one pending event; any other task is in none.  Lost
\* or doubled tasks would be invisible to the run loop until its end.
OnePlace ==
  \A t \in Task :
    IF ~InFlight(t) THEN t \notin waitingSet /\ EventsOf(t) = {}
    ELSE IF t \in waitingSet THEN EventsOf(t) = {}
    ELSE \E e \in eventQueue : EventsOf(t) = {e}

\* A task is active exactly from its Start event being pushed to its Complete
\* event being handled, so no event finds it in a state its handler ignores.
ActiveHasEvent ==
  \A t \in Task :
    active[t] <=> \E e \in EventsOf(t) : e.type \in {"start", "complete"}

\* completed_tasks_ lists each finished task, once.
CompletedOnce ==
  /\ IsInjective(completedTasks)
  /\ Range(completedTasks) = {t \in Task : Finished(t)}

ActiveTasks == {t \in Task : active[t]}

\* active_task_count_, which only handlers count up and down, is the number of
\* active tasks: a drift would make the admission limit too tight or too wide.
ActiveCountExact == activeTaskCount = Cardinality(ActiveTasks)

UnitsHeld(r) == UNION {{t} \X (1..Stage(t).demand[r]) : t \in ActiveTasks}

\* The units in use of a resource are the demands of the stages being served,
\* and never exceed the capacity: nothing leaks over any run of the scheduler,
\* and release never finds fewer units in use than it is to give back.
UnitsAccounted ==
  \A r \in Resource :
    /\ inUse[r] = Cardinality(UnitsHeld(r))
    /\ inUse[r] <= Capacity[r]

\* Once the event queue is empty, so that step_once returns false for good, no
\* task is left behind: nothing waits, every submitted task was completed and
\* every unit was given back.  Holds for policies that never set the limit to 0.
RunEndsClean ==
  eventQueue = {} /\ drainLeft = 0 =>
    /\ waitingQueue = <<>>
    /\ tasks = Range(completedTasks)
    /\ \A r \in Resource : inUse[r] = 0

\* No pending event lies in the past, so the clock of the simulation, which
\* step_once sets without looking at its old value, never goes back.
NoEventInThePast == \A e \in eventQueue : e.timestamp >= currentTime

\* Outside the drain no waiting task could be started: capacity and admission
\* slots are never left idle while someone could use them.  Holds without a
\* reordering policy; drain_waiting tries each task once only if it rotates.
WorkConserving ==
  drainLeft = 0 => \A t \in waitingSet : ~CanStart(t, admissionLimit)

\* The clock never goes back.
ClockMonotone == [][currentTime' >= currentTime]_vars

\* The sojourn time of a task, which the metrics report as the sum of its
\* stages' queue and service durations, is the time from arrival to completion.
SojournAccounted ==
  [][\A t \in Task : stageIndex[t] = Len(Stages[t]) /\ Finished(t)' =>
        queueTime[t] + serviceTime[t] = currentTime' - arrivalTime[t]]_vars

\* How far the service of task t is accounted for: to the timestamp of its
\* event, or past it by the service time of the stage that is about to start.
AccountedUntil(e) ==
  e.timestamp + (IF e.type = "start" THEN activeServiceTime[e.id] ELSE 0)

Account(t) == arrivalTime[t] + queueTime[t] + serviceTime[t]

TimeAccountedOf(t) ==
  /\ t \notin tasks => queueTime[t] = 0 /\ serviceTime[t] = 0
  /\ t \in waitingSet => Account(t) = readyTime[t] /\ readyTime[t] <= currentTime
  /\ \A e \in EventsOf(t) : Account(t) = AccountedUntil(e)

\* What makes SojournAccounted hold: at every point of its life the stages of a
\* task that were started account for all the time since it arrived.
TimeAccounted == \A t \in Task : TimeAccountedOf(t)

\* The hook never sets a limit of 0.
PositiveLimits == \A d \in Decisions : d.admission # 0

\* A task that waits outside the drain waits for one that is being served.
NeverStranded ==
  /\ admissionLimit # 0
  /\ waitingQueue # <<>> => activeTaskCount > 0 \/ drainLeft > 0

\* The stages of a task are served from the first to the last, once submitted.
StagesInOrder ==
  \A t \in Task :
    /\ stageIndex[t] <= Len(Stages[t]) + 1
    /\ t \notin tasks => stageIndex[t] = 1

\* The drain goes on only while there is someone to try.
DrainHasWork == drainLeft > 0 => waitingQueue # <<>>

\* The inductive invariant
IInv ==
  /\ TypeOK
  /\ WaitingConsistent
  /\ StagesInOrder
  /\ OnePlace
  /\ ActiveHasEvent
  /\ CompletedOnce
  /\ ActiveCountExact
  /\ UnitsAccounted
  /\ \A r \in Resource : IsFiniteSet(UnitsHeld(r))
  /\ NoEventInThePast
  /\ DrainHasWork

Service == INSTANCE StageService WITH
  submitted <- tasks, serving <- ActiveTasks, stage <- stageIndex

\* The scheduler, whatever its hook decides, does nothing but serve the stages of
\* the tasks in order, within the capacity, and goes on for as long as a stage is
\* served or could be.  Holds for policies that never set the limit to 0.
ServesStages == Service!FairSpec

\* No step starts a task beyond the admission limit then in force.
AdmissionRespected ==
  [][(\E t \in Task : active'[t] /\ ~active[t]) =>
        admissionLimit' = NoLimit \/ Cardinality(ActiveTasks') <= admissionLimit']_vars

\* Every task that is submitted is completed, whatever the policy decides.
EveryTaskCompletes == \A t \in Task : t \in tasks ~> t \in Range(completedTasks)

Shares(t, u) == \E r \in Resource : Stage(t).demand[r] > 0 /\ Stage(u).demand[r] > 0

\* scope.md:111: contention for a shared resource is first come, first served
\* (no policy specifies otherwise): no task gets units of a resource while one
\* that asked for it strictly earlier still waits.
FirstComeFirstServed ==
  [][\A t, u \in Task :
        ~(/\ active'[t] /\ ~active[t]
          /\ u \in waitingSet /\ u \in waitingSet'
          /\ readyTime[u] < readyTime'[t]
          /\ Shares(t, u))]_vars
==============================================================================
