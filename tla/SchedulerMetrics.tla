--------------------------- MODULE SchedulerMetrics ---------------------------
(***************************************************************************)
(* What BasicScheduler observes of itself while it runs, and the policies  *)
(* that decide by it: the utilization of the host and NIC cores, the       *)
(* samples of RollingRuntimeMetrics, the peak depth of the waiting queue   *)
(* and the marks of recent reorders.  Each action is the action of         *)
(* Scheduler with the samples its handler records; a call of the hook      *)
(* takes a snapshot, which drops the samples that left their windows.      *)
(*                                                                         *)
(* Utilizations are the units in use, not yet divided by the capacity.     *)
(* The fields queueLog, useLog and reorderLog of metrics are history: the  *)
(* code has no such logs, the properties compare the windows with them.    *)
(***************************************************************************)
EXTENDS Scheduler, Windows

CONSTANTS
  HostCpu, NicCpu,              \* the resources of type kHostCpu and kNicCpu
  HostResources, NicResources,  \* all resources of the host and of the NIC
  QueueWindow,                  \* queue_window_us, 0 for no limit
  UtilizationWindow,            \* utilization_window_us, 0 for no limit
  SojournCapacity,              \* sojourn_window_tasks
  ReorderWindow,                \* kPolicyWaitingReorderWindow
  PolicyIds,                    \* the policies a run may have
  Rules,                        \* the rules of the policy "dsl"
  Always, Absent                \* see Policies

INSTANCE Policies

\* Task ids are numbers, and there are finitely many resources.
ASSUME SchedulerMetricsAssumption ==
  /\ Task \subseteq Nat
  /\ IsFiniteSet(Resource)
  /\ HostCpu \subseteq HostResources /\ HostResources \subseteq Resource
  /\ NicCpu \subseteq NicResources /\ NicResources \subseteq Resource
  /\ {QueueWindow, UtilizationWindow, SojournCapacity} \subseteq Nat
  /\ ReorderWindow \in Nat \ {0}
  /\ PolicyIds \subseteq BuiltIns \cup {"dsl", "any"}
  /\ Rules \in Seq(Range(Rules))
  /\ \A i \in DOMAIN Rules : IsRule(Rules[i])

VARIABLES
  policy,  \* policy_hook_; "any" decides anything in Decisions
  usage,   \* host_usage_.in_use and nic_usage_.in_use
  metrics  \* rolling_metrics_, the peak depth and the marks of reorders

observed == <<policy, usage, metrics>>
allVars == <<vars, observed>>

------------------------------------------------------------------------------
(* Recording *)

UseSample(now, use) == [at |-> now, host |-> use.host, nic |-> use.nic]

\* trim_queue_samples, trim_utilization_samples
Trimmed(samples, window, now) ==
  IF window = 0 THEN samples ELSE DropOlder(samples, now - window)

\* snapshot drops what left the windows.
Snapshotted(m, now) ==
  [m EXCEPT !.queue = Trimmed(@, QueueWindow, now),
            !.use = Trimmed(@, UtilizationWindow, now)]

\* evaluate_policy_hook takes a snapshot only if there is a hook.
BeforeHook(m, now) == IF policy = "none" THEN m ELSE Snapshotted(m, now)

\* record_waiting_queue_sample
WithDepth(m, now, depth) ==
  LET sample == [at |-> now, depth |-> depth] IN
  [m EXCEPT !.peakDepth = IF depth > @ THEN depth ELSE @,
            !.latestDepth = depth,
            !.queue = Trimmed(Append(@, sample), QueueWindow, now),
            !.queueLog = Append(@, sample)]

\* record_utilization_sample
WithUse(m, now, use) ==
  [m EXCEPT !.latestUse = use,
            !.use = Trimmed(Append(@, UseSample(now, use)), UtilizationWindow, now),
            !.useLog = Append(@, UseSample(now, use))]

\* record_task
WithTask(m, timing) ==
  IF SojournCapacity = 0 THEN m
  ELSE [m EXCEPT !.tasks = IF Len(@) = SojournCapacity THEN Append(Tail(@), timing)
                           ELSE Append(@, timing)]

\* Mutant: the mark of the oldest task in the window is dropped as well.
Pruned_offByOne(marks, completed) ==
  IF completed <= ReorderWindow THEN marks
  ELSE DropOlder(marks, completed - ReorderWindow + 1)

\* prune_waiting_reorder_marks
Pruned(marks, completed) ==
  IF completed <= ReorderWindow THEN marks
  ELSE DropOlder(marks, completed - ReorderWindow)

\* The end of apply_waiting_reorder: the queue was before, and is now after.
WithReorder(m, before, after) ==
  LET mark == [at |-> Len(completedTasks)] IN
  IF after = before \/ Len(after) <= 1 THEN m
  ELSE [m EXCEPT !.marks = Pruned(Append(@, mark), Len(completedTasks)),
                 !.reorderLog = Append(@, mark)]

\* policy_waiting_reorders_recent
RecentReorders(m, completed, window) ==
  IF window = 0 \/ completed = 0 THEN 0
  ELSE Len(DropOlder(m.marks, IF completed > window THEN completed - window ELSE 0))

Clamp(x, low, high) == IF x < low THEN low ELSE IF x > high THEN high ELSE x

DomainCapacity(resources) == SumFunctionOnSet(Capacity, resources)
DemandOn(t, resources) == SumFunctionOnSet(Stage(t).demand, resources)

\* adjust_domain_usage for the requirements of t's stage, all taken or all
\* given back: the clamping of each is the clamping of their sum.
Adjusted(t, sign) ==
  [host |-> Clamp(usage.host + sign * DemandOn(t, HostCpu), 0, DomainCapacity(HostCpu)),
   nic |-> Clamp(usage.nic + sign * DemandOn(t, NicCpu), 0, DomainCapacity(NicCpu))]

------------------------------------------------------------------------------
(* What a policy sees *)

Fraction(num, den) == [num |-> num, den |-> den]
SumOf(samples, field) ==
  SumFunction([i \in DOMAIN samples |-> samples[i][field]])

\* Without samples the queue falls back to the latest depth ...
QueueAverage(m) ==
  IF m.queue = <<>> THEN Fraction(m.latestDepth, 1)
  ELSE Fraction(SumOf(m.queue, "depth"), Len(m.queue))

\* ... and the utilization of a domain, "host" or "nic", to 0.
UseAverage(samples, capacity, domain) ==
  IF samples = <<>> \/ capacity = 0 THEN Fraction(0, 1)
  ELSE Fraction(SumOf(samples, domain), Len(samples) * capacity)

HostAverage(m) == UseAverage(m.use, DomainCapacity(HostCpu), "host")
NicAverage(m) == UseAverage(m.use, DomainCapacity(NicCpu), "nic")

SojournMean(m) ==
  IF m.tasks = <<>> THEN Fraction(0, 1)
  ELSE Fraction(SumOf(m.tasks, "queue") + SumOf(m.tasks, "service"), Len(m.tasks))

\* policy_state_snapshot, of what the policies use.  Rules name stages by their
\* index here, not by their label.
PolicySnapshot(queue, m) ==
  [order |-> queue,
   score |-> [t \in Task |->
     IF Finished(t) THEN 0 ELSE DemandOn(t, HostResources) - DemandOn(t, NicResources)],
   stage |-> [t \in Task |-> [label |-> Absent, index |-> stageIndex[t] - 1]],
   average |-> [metric \in Metrics |->
     CASE metric = "queue_avg" -> QueueAverage(m)
       [] metric = "host_util_avg" -> HostAverage(m)
       [] metric = "nic_util_avg" -> NicAverage(m)
       [] metric = "sojourn_mean_us" -> SojournMean(m)]]

\* The hook's decisions
Evaluate(s) ==
  CASE policy = "any" -> Decisions
    [] policy = "dsl" -> {Decide(Rules, s)}
    [] OTHER -> {BuiltIn(policy, s)}

\* evaluate_policy_hook with this policy; m is what BeforeHook left.
Hook(m, queue, waiting, limit) ==
  UNION {Applied(d, queue, waiting, limit) : d \in Evaluate(PolicySnapshot(queue, m))}

------------------------------------------------------------------------------
(* Actions *)

\* The constructor records an empty queue and idle cores.
ObserveInit ==
  /\ Init
  /\ policy \in PolicyIds
  /\ usage = [host |-> 0, nic |-> 0]
  /\ metrics =
       [queue |-> <<[at |-> 0, depth |-> 0]>>, latestDepth |-> 0, peakDepth |-> 0,
        use |-> <<UseSample(0, usage)>>, latestUse |-> usage,
        tasks |-> <<>>, marks |-> <<>>,
        queueLog |-> <<[at |-> 0, depth |-> 0]>>, useLog |-> <<UseSample(0, usage)>>,
        reorderLog |-> <<>>]

\* submit_task and the handlers that record nothing
ObserveNothing ==
  /\ \/ \E t \in Task : Submit(t)
     \/ \E e \in eventQueue : HandleTaskArrival(e) \/ HandleTaskStart(e)
  /\ UNCHANGED observed

\* The depth that is recorded for a ready task that has to wait
ReadyDepth(h) == Len(h.queue) + 1

ObserveReady(e) ==
  LET now == e.timestamp
      m == BeforeHook(metrics, now)
  IN
  /\ TakeReady(e)
  /\ \E h \in Hook(m, waitingQueue, waitingSet, admissionLimit) :
       LET first == WithReorder(m, waitingQueue, h.queue) IN
       \/ /\ ReadyStarts(e, h)
          /\ usage' = Adjusted(e.id, 1)
          /\ metrics' = WithUse(first, now, usage')
       \/ LET queue == Append(h.queue, e.id)
              queued == WithDepth(first, now, ReadyDepth(h))
          IN \E g \in Hook(queued, queue, Enlisted(e.id), h.limit) :
               /\ ReadyWaits(e, h, g)
               /\ metrics' = WithReorder(queued, queue, g.queue)
               /\ UNCHANGED usage
  /\ UNCHANGED policy

\* finalize_task_metrics
Finalized(m, t) ==
  [WithTask(m, [queue |-> queueTime[t], service |-> serviceTime[t]])
     EXCEPT !.marks = Pruned(@, Len(completedTasks) + 1)]

ObserveComplete(e) ==
  LET sampled == WithUse(metrics, e.timestamp, Adjusted(e.id, -1)) IN
  /\ HandleTaskComplete(e)
  /\ usage' = Adjusted(e.id, -1)
  /\ metrics' = IF HasNextStage(e.id) THEN sampled ELSE Finalized(sampled, e.id)
  /\ UNCHANGED policy

\* An iteration records the depth when it takes the front task out and, if that
\* cannot start, when it is back.
DrainSamples(m, h, started) ==
  LET popped == WithDepth(m, currentTime, Len(h.queue) - 1) IN
  IF started THEN popped ELSE WithDepth(popped, currentTime, Len(h.queue))

\* Mutant: the policy is asked for limits only while the queue drains.
DrainHook_limitOnly(m) ==
  {[h EXCEPT !.queue = waitingQueue] :
     h \in Hook(m, waitingQueue, waitingSet, admissionLimit)}

\* Each iteration calls the hook anew.
DrainHook(m) == Hook(m, waitingQueue, waitingSet, admissionLimit)

ObserveDrain ==
  LET m == BeforeHook(metrics, currentTime) IN
  /\ drainLeft > 0
  /\ \E h \in DrainHook(m) :
       LET t == Head(h.queue)
           started == CanStart(t, h.limit)
           sampled == DrainSamples(WithReorder(m, waitingQueue, h.queue), h, started)
       IN /\ TryFront(h)
          /\ usage' = IF started THEN Adjusted(t, 1) ELSE usage
          /\ metrics' = IF started THEN WithUse(sampled, currentTime, usage')
                        ELSE sampled
  /\ GoOnDraining
  /\ UNCHANGED policy

\* rolling_metrics_snapshot and policy_state_snapshot, which the tools may call
\* between two steps, are const but drop samples.
ReadMetrics ==
  /\ drainLeft = 0
  /\ metrics' = Snapshotted(metrics, currentTime)
  /\ UNCHANGED <<vars, policy, usage>>

ObserveNext ==
  \/ ObserveNothing
  \/ \E e \in eventQueue : ObserveReady(e) \/ ObserveComplete(e)
  \/ ObserveDrain
  \/ ReadMetrics

ObserveSpec == ObserveInit /\ [][ObserveNext]_allVars

------------------------------------------------------------------------------
(* Properties *)

\* host_usage_ and nic_usage_, which are counted up and down beside the pool and
\* clamped without a word, are the units of the cores that the pool has in use.
UsageExact ==
  /\ usage.host = SumFunctionOnSet(inUse, HostCpu)
  /\ usage.nic = SumFunctionOnSet(inUse, NicCpu)

IsWindow(s, log, threshold) ==
  \E k \in 0..Len(log) :
    /\ s = SubSeq(log, k + 1, Len(log))
    /\ \A i \in 1..Len(log) : i <= k <=> log[i].at < threshold

\* The sojourn statistics are about the last SojournCapacity tasks that completed,
\* with the times accounted to them.
SojournWindowExact ==
  LET n == Len(completedTasks)
      count == IF n < SojournCapacity THEN n ELSE SojournCapacity
  IN metrics.tasks =
       [i \in 1..count |-> [queue |-> queueTime[completedTasks[n - count + i]],
                            service |-> serviceTime[completedTasks[n - count + i]]]]

\* The latest samples are the state of the scheduler: no change of the queue's
\* depth or of a core's use goes unrecorded, on any path through the handlers.
LatestSamplesExact ==
  /\ metrics.latestDepth = Len(waitingQueue)
  /\ metrics.latestUse = usage

\* What a reader gets are the samples of the window, of all ever recorded: it
\* does not matter when and how often the samples were trimmed before, nor which
\* path recorded the latest one; and the usage they sample is that of the pool.
WindowsExact ==
  LET m == Snapshotted(metrics, currentTime) IN
  /\ QueueWindow > 0 => IsWindow(m.queue, m.queueLog, currentTime - QueueWindow)
  /\ UtilizationWindow > 0 => IsWindow(m.use, m.useLog, currentTime - UtilizationWindow)
  /\ UsageExact
  /\ LatestSamplesExact
  /\ SojournWindowExact

\* The recent reorders, for every window up to the one that marks are kept for,
\* are those since the completion that many completions ago, although marks are
\* dropped at completions and at reorders.
RecentReordersExact ==
  LET completed == Len(completedTasks) IN
  \A window \in 1..ReorderWindow : completed > 0 =>
    RecentReorders(metrics, completed, window) =
      Cardinality({i \in 1..Len(metrics.reorderLog) :
                     metrics.reorderLog[i].at >= completed - window})

Score == PolicySnapshot(waitingQueue, metrics).score

\* The task that a sorting policy puts first.
BestWaiting(t) ==
  \A u \in waitingSet \ {t} :
    CASE policy = "descending-id" -> t > u
      [] policy = "prefer-host" -> Ranked(t, u, Score, TRUE)
      [] policy = "prefer-nic" -> Ranked(t, u, Score, FALSE)
      [] OTHER -> TRUE

\* A drain starts the task that the policy ranks first or none: because the hook
\* sorts in each iteration anew, a task it ranks first that does not fit keeps
\* all others from being tried.
DrainKeepsRanking ==
  [][\A t \in waitingSet : drainLeft > 0 /\ active'[t] => BestWaiting(t)]_allVars

\* Outside the drain no waiting task could be started: capacity and admission
\* slots are never left idle while someone could use them.  Holds without a
\* policy and under limit-active-1, which leave the queue alone and lift no
\* limit: then the rotation of drain_waiting tries each waiting task once.
WorkConservingUnsorted == policy \in {"none", "limit-active-1"} => WorkConserving

\* The host's cores have all been in use for the whole window.
HostBusyThroughout ==
  LET log == metrics.useLog
      full == DomainCapacity(HostCpu)
  IN \E i \in DOMAIN log :
       /\ log[i].at <= currentTime - UtilizationWindow
       /\ \A j \in i..Len(log) : log[j].host = full

\* README.md:121: the window is the horizon of the utilization averages.  So a
\* host that was busy throughout the window has full average utilization.
AverageSeesBusyHost ==
  HostBusyThroughout =>
    LET average == HostAverage(Snapshotted(metrics, currentTime)) IN
    average.num = average.den
===============================================================================
