# NicLoadOff, specified and verified in TLA+

NicLoadOff is a discrete-event simulator, in C++20 and single-threaded, of a host
with a SmartNIC: tasks of several stages contend for resources (host CPU cores, NIC
cores, NIC DRAM, PCIe), a policy hook reorders the waiting tasks and limits how many
are active, and DAGs of stages release their nodes as their predecessors complete. Around
it are a loader of YAML workloads, a command line tool with batches, a terminal interface
and a placement benchmark. These modules specify what its core does, TLC checks them on small instances, and
TLAPS proves the main results for every workload, capacity and policy.

Nothing runs in parallel here. What makes the program hard is the order of things:
events of equal timestamp come in any order; a handler calls the policy hook at several
points and goes on with what the hook left; state is kept in several copies that are
changed at different places; and a run ends, without a word, whenever the event queue is
empty.

## 1. The system

### Components

| Component (source) | State | Operations | Status |
|---|---|---|---|
| Scheduler (`sim/src/scheduler.cc`) | clock, event queue, task contexts (stage index, active flag, service time, stage runtimes), waiting queue and waiting set, active count, admission limit, completed list, reorder marks, utilisation | `submit_task`, `step_once`, `run_until_empty`, the four handlers, `drain_waiting`, `evaluate_policy_hook` | modelled |
| Event queue (`event_queue.cc/.hh`) | pending events | `push`, `pop` by timestamp only | modelled |
| Resource pool (`resource.cc`) | capacity and units in use of each resource | `can_allocate`, `allocate`, `release` | modelled |
| DAG runtime (`dag_runtime.cc`) | per node: remaining dependencies, released, completed | `initial_tasks`, `release_successors` | modelled |
| DAG submission controller (`dag_submission_controller.cc`) | the map from task ids to DAGs | `submit_initial`, `handle_task_completion` | modelled |
| Command line runner (`tools/cli/runner.cc`) | options and their `_cli` flags; of a batch its entries, the CSV, the reports | `parse_arguments`, `parse_manifest_file`, `run_batch_manifest`, the run loop of `run_simulation` | partly: the text of reports is left out |
| Workload specification (`workload.cc`) | none | validation of stages, tasks and DAGs (names, entry points, cycles, reachability), topological order | modelled |
| Workload loader (`workload_loader.cc`) | none that outlives a call | tokens, recursive parser of a YAML subset, fields and their rules, inference of entry points | modelled |
| Policy hooks (`basic_policy_hooks.hh`) | none | descending id, max active, demand skew, rolling adaptive | modelled |
| Policy DSL (`policy_dsl.cc`) | rules | `Program::evaluate`: first rule with a directive wins | modelled |
| Rolling metrics (`rolling_runtime_metrics.cc`) | windows of samples | record, trim, snapshot | modelled |
| Terminal interface (`tools/tui/main.cc`) | the selection in the menus, service modes, a session, `auto_run`, `next_seed`, saved reports | the keys, `load_selection`, `step_once`, `reset`, `save_metrics` | partly: the drawing and the event log are left out |
| Placement benchmark (`tools/placement/placement_benchmark.cc`) | what `main` has read and made so far; the summary and the CSV | `parse_args`, arrivals, `expand_workload`, `apply_placement_mode`, the run, `write_summary`, `append_csv` | modelled |
| Profile loader (`profile_loader.cc`) | none | a second tokenizer and parser, fields and their types | modelled |
| Profile resources (`profile_resources.cc`) | none | capacities of the pool | modelled |
| Service time model (`service_time_model.cc`) | a random generator | overrides, means, sampling | modelled: a sample is any member of a set |
| Run metrics (`run_metrics.cc`) | none | `compute_run_metrics`, percentiles | modelled |
| Python tooling | none | plots, CI summaries | not modelled |

### Interactions

* The run loop submits the plain tasks and has the controller submit the entry nodes of
  the DAGs; then it calls `step_once` until it returns false. After a step whose event was
  a completion it passes the task on to the controller, which may submit more tasks.
* `step_once` pops an event of least timestamp, sets the clock, and runs the handler. The
  handlers push events, take and give back units of the pool, and call the hook.
* The hook is called with a snapshot before a ready task is tried, after it was queued,
  and in every iteration of a drain. What it returns is applied at once: the waiting queue
  is rebuilt and the admission limit replaced.

### What is hard, and what has to hold

* *Events of one instant*: arrival, ready, start and complete events of several tasks
  interleave. A task must be in exactly one place and no event may find it in a state that
  its handler ignores (`OnePlace`).
* *Copies of one fact*: `waiting_queue_` and `waiting_set_`; `active_task_count_` and the
  active flags; `in_use` and the stages being served; `remaining_dependencies` and the
  completed nodes; `task_to_runtime_` and the submitted nodes (`WaitingConsistent`,
  `UnitsAccounted`, `ControllerConsistent`).
* *The silent end*: with an empty event queue the run is over, whoever waits
  (`RunEndsClean`, `RunEndsComplete`, `EveryTaskCompletes`, `OrderUnlessAborted`).
* *The drain*: it tries as many front tasks as the queue was long, while a hook may
  reorder the queue under it (`WorkConservingUnsorted`, `DrainKeepsRanking`).
* *Time*: the clock is set to an event's timestamp, whatever it was; durations are written
  at three different events (`SojournAccounted`, `NoGapBetweenStages`).
* *Observation*: what the policies decide by is recorded by hand at each place that changes
  it, and dropped at reads, at writes, and at completions (`WindowsExact`, `ReportExact`).
* *Policies in the loop*: a decision is applied in the middle of a handler, and its limit
  outlives it (`AdmissionRespected`).
* *Rules that share a decision*: two fields, filled by the first rule that has something to
  say about each (`FirstRuleWins`, `ReordersOnlyMatching`).
* *A recursive search over graphs that may have cycles*: the marks of the nodes change as
  calls start and return, and entry points may be the loader's own (`VerdictRight`,
  `InferenceSuffices`, `Decided`); another function orders the same graphs by counting
  (`OrderedIffAcyclic`).
* *Collisions of ids*, which are found in the middle of a run only (`CollisionDetected`,
  `AbortsForAReason`).
* *Exceptions half-way*: `try_start_task` checks each requirement alone and then allocates one after
  another, and a node is validated only when its predecessors are done (`UnitsWithinCapacity`,
  `AbortsForAReason`).
* *Two sources for each option*: the arguments are read before the manifest that one of them
  names, whose sections end where a line is not indented, and nothing may be lost or
  swallowed on the way (`FlagsOverrideManifest`, `RefusedIffFaulty`).
* *Batches that end half-way*: a CSV that batches append to, a header that is buffered until the first
  row, reports that are emptied before they are written, and exceptions, kills and failing
  writes between any two of these (`RowsFollowTheManifest`, `OneHeaderFirst`,
  `ReportsBackRows`, and `RowsOfTheRuns` of the placement benchmark).
* *Menus and a session that has to follow them*: profiles, policies and workloads may fail to
  load at different places of one function, with the session kept or removed (`SettingsApplied`,
  `ReportsKept`, `AutoRunEnds`).
* *A parser that does not complain*: a misplaced line ends a block, and with it perhaps the
  document, without an error (`ReadAsIndented`); the parser of profiles is a copy that differs in one
  place, and both loaders have fields with rules of their own (`LoadedAsWritten`).
* *Copies of a workload*: ids are shifted by a stride modulo 2^64, and stages are moved from one side
  to the other as a whole or not at all (`CopiesHaveTheirOwnIds`, `PlacedAsAsked`).

`PROJECT.json` lists these hazards at the lines where they bite.

## 2. The modules

| Module | What it is |
|---|---|
| `Scheduler` | the scheduler, the event queue, the pool and an arbitrary policy hook |
| `MCScheduler` | its instances for TLC |
| `StageService` | abstract: what a scheduler owes to the tasks it is given |
| `Scheduler_proofs` | its inductive invariant and the theorems that follow from it, the recorded durations among them |
| `PrecedenceOrder` | abstract: what a run owes to the DAGs |
| `DagRun` | the run loop, the controller and the DAG runtimes, composed with `Scheduler` |
| `MCDagRun` | its instance for TLC |
| `RunFaults` | `DagRun` with tasks that are refused and stages that name a resource twice |
| `MCRunFaults` | its instance for TLC |
| `DagRun_proofs` | the inductive invariants of both, the theorems, and the safety part of the refinement |
| `Windows` | dropping the old entries of a log, shared by samples and marks |
| `Policies` | the shipped policies and the rules of the DSL, as functions of a snapshot |
| `PolicyProgram` | one call of a DSL program, a loop over its rules |
| `MCPolicyProgram` | its instance for TLC |
| `PolicyProgram_proofs` | which rule wins, and what a reordering leaves where it is |
| `SchedulerMetrics` | `Scheduler` with what it observes of itself, under the shipped policies |
| `RunMetrics` | the report on a run |
| `MCSchedulerMetrics` | instances of both for TLC |
| `Metrics_proofs` | shipped policies are hooks of `Scheduler`; windows, reports and the drain |
| `DagValidation` | the loading and the validation of one DAG, a depth-first search |
| `TopologicalOrder` | the order of the nodes of a validated DAG, by counting indegrees |
| `MCDagValidation` | an instance of both for TLC |
| `DagValidation_proofs` | the search's inductive invariant, that its verdicts are right, and the order |
| `CommandLine` | the arguments and the manifest of the command line tool |
| `CommandLine_proofs` | its inductive invariant, the loop over a manifest, precedence and refusals |
| `BatchRuns` | batches, one process after another on the same files |
| `BatchRuns_proofs` | its inductive invariant, and that CSV and reports follow the manifests |
| `TuiSession` | the terminal interface: keys, menus, session, reports |
| `MCCommandLine`, `MCBatchRuns`, `MCTuiSession` | their instances for TLC |
| `YamlDocument` | the tokenizer, the parser and the accessors of workload files and profiles; what lines and tokens mean without them |
| `ProfileLoader` | what makes a profile of a document, and the platform of a profile |
| `WorkloadLoader` | what makes a workload of a document, and tasks of a workload |
| `Placement` | the copies and the placement of a workload, as operators |
| `PlacementBenchmark` | the benchmark, from its arguments and files to its CSV |
| `Outlines` | documents with the layout of the example files, made of what they say |
| `MCPlacementBenchmark` | an instance of `PlacementBenchmark` for TLC |
| `Tools_proofs` | that tokenizer and parser do what lines mean, what the loaders return, the benchmark's invariants and theorems, and those of `TuiSession` |

`PlacementBenchmark` extends `WorkloadLoader` and `ProfileLoader`, which extend `YamlDocument`, and has an
instance of `Placement`; `DagRun` and `SchedulerMetrics` extend `Scheduler`, `RunFaults` extends
`DagRun`. Only `Outlines` declares operators `RECURSIVE`, which the prover cannot use; the instance for
TLC extends it, and no module with theorems does.

Operators called `X_something` right before an operator `X` are mutants: what a plausible
bug would make of `X`. Each property is shown to be violated when its mutant is put in
the place of `X`, so that no property holds by the shape of the model.

### Scheduler

Variables have the names of the members they stand for, without the underscore
(`currentTime`, `waitingQueue`, ...). Of the contexts of a task, `stageIndex`, `active`,
`activeServiceTime` and `readyTime` are functions on task ids; `queueTime` and
`serviceTime` are the sums of `queue_duration` and `service_duration` over the stages
started so far, which is all that the metrics use. `stageIndex` counts from 1.

| Action | Code |
|---|---|
| `Submit(t)` | `submit_task`, with the checks of `validate_task` as assumptions on `Stages` |
| `HandleTaskArrival(e)`, `HandleTaskReady(e)`, `HandleTaskStart(e)`, `HandleTaskComplete(e)` | `step_once` with the handler of the event |
| `DrainStep` | one iteration of the `drain_waiting` call that ends `handle_task_complete` |

A handler is one action, with all that it calls. The drain is the exception: its iterations
call the hook, whose view of the state is what the invariants are about, so each iteration is
an action. The handlers that call the hook are put together from parts (`TakeReady`,
`ReadyStarts`, `ReadyWaits`; `TryFront`, `GoOnDraining`), so that `SchedulerMetrics` can
observe what happens between two of its calls. `drainLeft` is the number of iterations left;
no other action can happen while it is positive, because the program does nothing else.

*Abstractions.* Times and units are naturals. A stage names a resource at most once
(`demand` is a function). A stochastic service time is any member of a set. The hook is
arbitrary: each call returns any member of `Decisions`, so that what holds here holds
of every policy in the repository and of every DSL program; the orders may be partial,
repeat ids or name ids that do not wait, as `apply_waiting_reorder` allows. Two early
returns that can never be taken are left out, and the comment says which invariant shows
that. The event queue is a set: `OnePlace` shows that it never holds two equal events.

### StageService

Tasks are submitted, and their stages begin and finish one after another, a stage only
while the stages that are served and this one fit into the resources. `Scheduler` implements it
with `submitted <- tasks`, `serving <- {t : active[t]}`, `stage <- stageIndex`: of the
events, the queues and the hook nothing is left, so that it says in a page what they may do to a
task. Its fairness, that some stage begins or ends as long as one can, follows from that of
the scheduler only because of what the drain does.

### DagRun

A node is a pair of its DAG and its position. `remaining`, `released`, `completed`,
`nodeArrival` are the fields of `PlannedDagNode`, `runtimeOf` is `task_to_runtime_`.
`nextTask`, `nextDag`, `registering` and `lastCompleted` say where the loop is:

| Action | Code |
|---|---|
| `SubmitPlainTask` | the loop over `tasks` in `run_simulation` |
| `SubmitInitial` | an iteration of `submit_initial`, with `initial_tasks` |
| `Register(n)` | an iteration of `register_tasks`: the map, then `submit_task` |
| `Step`, `Drain` | `step_once`, of which the drain comes in steps of its own |
| `HandleTaskCompletion` | `handle_task_completion`, with `release_successors` |

An exception sets `aborted`, after which nothing happens. Nodes that become ready together
are registered in any order (the code takes the order of the successors). The edges are a
set of pairs of a node and a position in its list of successors, so that a successor that
is named twice counts twice, as it does in `compute_indegrees`. What the loader and
`validate_task_dag_spec` check is `DagAssumption`; its acyclicity is stated as: every
non-empty set of nodes has one without predecessors in the set.

### RunFaults

`DagRun` takes its tasks for valid and a demand for one number per resource. `RunFaults` drops both:
`refused` has the tasks that `validate_task` throws for, which for a node is when its
predecessors are done, and `requirements` has the list that a stage's demand is made of.
`try_start_task` looks at each requirement alone (`CanAllocateEach`) and then allocates one after
another; the first that exceeds the capacity throws, with those before it in use
(`PartlyInUse`). Every action of `DagRun` is an action here (`FaultySubmitPlainTask`,
`FaultyRegister`, `FaultyStep`, `FaultyDrain`), or fails and sets `aborted`.

### PrecedenceOrder

Jobs are submitted once, after the jobs before them are done, are done once, and under
fairness all get done. `DagRun` implements it with `submitted <- released \ registering`
and `done <- completed`, and `RunFaults` does as long as nothing throws.

### Policies and PolicyProgram

`Policies` has no variables: a policy maps a snapshot to a decision. Of a snapshot the
policies use the order of the waiting tasks, their scores (pending host demand less
pending NIC demand), the label and index of their stages, and the averages, which are
fractions: comparisons are exact where the code compares doubles. A rule is what
`parse_rules` leaves of it; whether its `match.metadata` agrees with the scenario does not
change in a run and is a Boolean of the rule. `Decide` says what a program decides;
`PolicyProgram` is the loop of `Program::evaluate`, one rule per step (`Skip`, `Reorder`,
`Admission`), whose cursor and two optional fields are variables.

### SchedulerMetrics

`SchedulerMetrics` extends `Scheduler` with three variables: `policy`, the hook of the
run; `usage`, the units in use of `host_usage_` and `nic_usage_`; and `metrics`, a record of
the samples of `RollingRuntimeMetrics`, the peak depth and the reorder marks. Its fields
`queueLog`, `useLog` and `reorderLog` are history that the code does not have.

| Action | Code |
|---|---|
| `ObserveNothing` | `submit_task`, `handle_task_arrival`, `handle_task_start`: nothing is recorded |
| `ObserveReady(e)` | `handle_task_ready` with its one or two hook calls, the depth sample, the utilization sample of a start |
| `ObserveComplete(e)` | `handle_task_complete` up to the drain, with `finalize_task_metrics` |
| `ObserveDrain` | an iteration of `drain_waiting`, which records the depth twice if the task does not start |
| `ReadMetrics` | `rolling_metrics_snapshot`, which the tools call between steps; const, but it drops samples |

Each is a conjunction of the action of `Scheduler` and what is recorded. The policy is one
of the built-in ones, `"dsl"` with the program `Rules`, or `"any"`, the arbitrary hook of
`Scheduler`. A run without a policy takes no snapshots. Rules name stages by index, since
labels do not change what a run does to the state; utilizations are units, divided by the
capacity only where a policy reads them. The peaks of samples and the percentile, which
only reports show, are left out.

### RunMetrics

`compute_run_metrics` keeps no state: it is an operator, `ComputeRunMetrics`, over a state of
`SchedulerMetrics`, and the property compares it with that state whenever it could be called.
Percentiles interpolate in hundredths of a time unit. Means and ratios are left as their sums and
counts; the split of the service times by domain is left out.

### DagValidation

The recursion of the lambda `dfs` is a variable `stack`; the loop variable of each call
is kept in `position`, and `visitState` is `visit_state`. `reachable` is set together with the
first change of `visit_state`, so a node is reachable that is not `"unvisited"`.

| Action | Code |
|---|---|
| `ParseTaskDag` | `parse_task_dag`, for its names, successors and entry points |
| `CheckNames` | `validate_task_dag_spec` up to its search |
| `VisitEntry` | an iteration of the loop over `entry_indexes` |
| `FindCycle`, `Descend` | an iteration of the loop of `dfs`, up to the recursive call if it makes one |
| `Return` | the end of a call of `dfs` |
| `CheckReachable` | the last loop |

An exception is a `verdict`. The stages of nodes are valid here. The inferred entry points
are sorted by name in the code; names are model values, so they come in any order.
The tests and the placement benchmark validate a DAG without loading it, so a run may
start at either function.

`TopologicalOrder` adds `topological_order`, which counts indegrees down, as the runtime of
a DAG does. It is called on DAGs that passed the search, so it is compared with the
search's verdicts. Its loops are folds: `PushReady` over the nodes, `CountDown` over the successors
of the node that was taken, and `Iterated` over more iterations than there can be.

### CommandLine

`argv` is a history of the arguments, which the properties compare with the result;
`options`, `given` (the `_cli` flags), `config`, `batch` and `labels` are the code's. A line of a
manifest is its indentation, key and value; `ParsedManifest` is the loop over the lines, a
recursive function, since the file is read at once.

| Action | Code |
|---|---|
| `SetOption(f, v)`, `NameManifest`, `NameBatch`, `Unusable`, `Help` | an iteration of the loop of `parse_arguments` |
| `EndBatch` | the check of `--batch` against the other options |
| `EndWithManifest(lines)` | `parse_manifest_file` and what fills the open options from it |
| `EndWithoutManifest` | the rest of `parse_arguments` |

### BatchRuns

The files outlive the processes: `csv` is the sequence of its lines, `reports` says of each path
which run of which process wrote it. `stream` is the state of `csv_stream`: the header is in its buffer
until the first row is flushed.

| Action | Code |
|---|---|
| `Refuse(m)`, `RefuseCsv(m)`, `Start(m)` | `parse_batch_manifest_data` and the opening of the CSV |
| `Simulate` | `run_simulation` up to the opening of the report, which empties it |
| `WriteReport` | the rest of `write_report`; what the closing of the stream loses goes unnoticed |
| `AppendRow` | `append_batch_csv_row` and the flush; a bad stream stays bad |
| `Fail` | an exception of `run_simulation`, which ends the batch |
| `Kill` | the process is killed between any two of these |

The settings of a run and of the defaults are given or not for each of `Fields`; `Setting`,
`Metadata`, `OutputPath` and `MetadataKeys` are what `parse_batch_manifest_data` makes of the two.
What was lost is noted in `damaged`, a history; properties that no code could keep
with lost writes are claimed of the rest.

### TuiSession

A key and the step of the simulation that may follow it in one iteration of the loop are
two actions; `turn` says which comes next (`phase` is the benchmark's; the specification is `TuiSpec`).
`NoSession` stands for the empty pointers. `menu` holds the four indexes of `AppState`. A
session is what it was made from, its seed and the number of events that are left.

| Action | Code |
|---|---|
| `FirstLoad` | `main` before its loop |
| `Move`, `SwitchMenu`, `Enter`, `Pause`, `StepKey`, `ToggleMode`, `CycleLabel`, `CyclePolicy`, `Reset`, `Save`, `Quit` | the cases of the `switch` over the key, with `load_selection`, `reset` and `save_metrics` |
| `NoKey` | `getch` times out |
| `AutoStep`, `NoStep` | the step of an automatic run, if its interval is over |

`moved` is a history: the menus were moved, or a profile failed to load, since the session was
made. The interface allows the difference then and shows the selection, not the session.

### YamlDocument, WorkloadLoader and ProfileLoader

A document is a sequence of lines as `tokenize` sees them, which `Scan` reads one by one. The functions of
`MiniYamlParser` call each other: what a call returns, a node and the index it leaves `index_` at, is a
recursive function of the call, that is of the member function, the index and the indentation it is
called with. A function of a loader that throws is a predicate, which holds if it does not, and the
value it returns. Texts are model values or short strings; the number that a text starts with is a
constant function, because `parse_double` takes a prefix. Ids are taken modulo a power of 2.

`YamlDocument` says the same a second time, without a loop, a state or a call. `Content` picks the entries
and items that no earlier `>` or `|` makes text; `IsFaulty` is a line that no reader could take;
`HasPlace` says that a token continues a block, opens a value or goes on with an item; and `Meaning` is the node
that tokens with a place stand for: the children of a token are those indented in it and in
nothing that is indented in it. The properties and the theorems compare the code with these.

`profile_loader.cc` has a copy of tokenizer and parser, which differs in `parse_value`: it throws
where the other accepts a block that is indented by more than two columns (`IndentedTooFar`). Its
fields are data: for each mapping the type of each key. `Inventory` is
`make_resource_inventory_from_profile`, with its fallbacks for zeros, and `HasMean` and
`SelectMean` say when `ServiceTimeModel` throws and what it takes otherwise.

That a DAG is valid is stated in `WorkloadLoader`; how the code finds out is the subject of
`DagValidation`.

### PlacementBenchmark

| Action | Code |
|---|---|
| `ParseArgs` | `parse_args` |
| `LoadProfile` | `load_profile_from_file` |
| `ReadDocument`, `LoadWorkload` | `load_workload_from_file` |
| `LoadArrivals` | `load_arrival_fixture` and `scale_arrivals` |
| `Expand`, `Place` | `expand_workload`, `apply_placement_mode` |
| `MakeTasks` | `from_spec` and `make_tasks_from_spec` |
| `Submit` | `submit_task` and `submit_initial`, of which what may throw |
| `RunEnds`, `RunThrows` | the run loop |
| `WriteSummary`, `AppendCsv` | `write_summary`, `append_csv`; each may fail to open its file |
| `Again` | the program is started again, with other arguments and the same files |

The run is the loop of `DagRun` and `RunFaults`, so here it is one step: it ends, or it throws where
a stage asks for more than there is, asks for a resource twice, or ids collide. A sample of the
exponential distribution is any of a set of instants. Of the results, a row has what tells one
run from another. `ended` is a history of the runs that wrote a row.

## 3. The runs

| Run | Instance | What it shows |
|---|---|---|
| `MCScheduler_any` | 3 tasks, two resources of 2 units, 4 stages, 12 decisions | the safety properties of the scheduler under a hook that decides anything at each call; it implements `StageService`; with fairness, every submitted task completes |
| `MCScheduler_fcfs` | 3 tasks that need NIC DRAM, no policy | a counterexample, see Findings |
| `MCRunFaults` | a diamond with a doubled edge, a chain, a plain task of two stages, 7 ids; four sets of refused tasks, a stage that asks for its two units at once or one by one | the properties of the composition, of the exceptions and of what they leave; it implements `PrecedenceOrder`, liveness included, unless an exception ends it |
| `MCDagRun_colliding` | two DAGs and a plain task that share ids | a collision never goes unnoticed |
| `MCPolicyProgram` | 420 programs of one or two of 20 rules, 32 snapshots of up to 3 waiting tasks | the loop over the rules decides as `README.md:142` says |
| `MCSchedulerMetrics_any` | 4 tasks on host and NIC cores under 8 policies: none, arbitrary, five built-in ones and the rules of `adaptive.dsl.yaml`; windows of 1 time unit, of 2 completions and of 1 completion for the reorder marks | the metrics and the report are what the logs of the run say they are; the drain leaves no startable task waiting if nothing sorts, and keeps to the ranking if something does |
| `MCSchedulerMetrics_busy` | a task of 3 time units on all host cores, a window of 1 | a counterexample, see Findings |
| `MCDagValidation` | all graphs of 3 nodes, and doubled edges, doubled and unknown names, each with 5 lists of entry points | the verdicts are those of the definitions of a valid DAG, and the topological order agrees with them |
| `MCCommandLine` | up to 3 arguments over 5 options, manifests of up to 5 lines of 14 kinds | the precedence that the documentation gives, and exact error reporting |
| `MCBatchRuns` | 3 processes, 8 manifests: a sweep, one with other columns, two whose runs share a report, one with faults, 3 that are refused | CSV and reports stay in step with the manifests through failures and kills |
| `MCTuiSession` | 2 profiles, 2 policies and 2 workloads, of which one each does not load; 2 labels, 2 seeds, 2 reports | the session follows the menus, reports are kept, an automatic run ends |
| `MCPlacementBenchmark` | short files of up to 4 arbitrary lines, workload files in two layouts and profiles with each fault the loaders know; 5 settings, 9 faulty command lines, 3 fixtures, up to 2 arrivals a window, a second run that appends | files are read as far as they are in order and loaded as they were written; copies have ids of their own, stages are where they are asked to be, and the CSV has a row for each run |

*Bounds.* Tasks, stages and arrival times are finite, so every run ends and no counter
needs a bound; time goes as far as the service times take it. Three tasks are
enough for one to be served, one to wait and one to overtake; four for
two to wait for different resources. Capacity 2 lets a task hold part of a resource while
another needs all of it. Service times include 0, where a start and a completion share
an instant, and stages with two possible times. The orders of `AnyPolicy` reverse the
queue, or repeat an id and leave one out; with the limits 1, 2 and none, set and lifted at
any call. The diamond has a join that waits for two branches, a doubled edge and an entry
point with predecessors, which `initial_tasks` has to skip. The refused tasks are the plain one,
which ends the run at once, the last node of the diamond, which ends it near its end, or a node of each
DAG; the stage that names its resource twice asks for all units of it, so that it throws as soon as
another task holds one of them. The windows of
`MCSchedulerMetrics_any` are as short as they can be, so that samples, sojourns and marks
leave them within a run of four tasks; times and completions pass each window by more than
its length. Two rules are enough for one to precede the other with a directive for the same
field, for the other field, or with none; three waiting tasks for two to
match a rule around one that does not.

Three nodes are enough for a cycle of each length up to three, for a successor that two
nodes share, and for a cycle beside what the entry points reach; larger graphs are what the
theorems are for. Three arguments are an option, the same option again and the manifest, in
any order; five lines are the two required fields, a header, a line in its section and one that
may have left it. Three processes are one that makes the CSV, one that fails on it and one that
appends to what is left; each manifest of a run meets each other one. In the terminal
interface two of everything let a selection load, fail and load again; `MaxSeed` and `MaxFiles` bound
resets and reports. Ids of 4 bits with a stride of 4 leave room for the copies of an id below
the stride, and for ids that are not; numbers of 3 bits (`Uint32Bits`) for those that fit a field of a
profile and those that do not. The layouts indent nested blocks by two columns, as
the examples do, and by four. A short file has up to four lines, which is a block, a line in it, one
that leaves it and one that follows. `MaxRows` bounds the CSV: its second row is of a run whose metadata
may differ from those of the run that named the columns; one path stands for all, since runs on
different files do not meet.

The runs end when the workload is done: deadlock is not an error in them
(`CHECK_DEADLOCK FALSE`), and `RunEndsClean` and `RunEndsComplete` say what the last
state must be. Assumption: the hook sets no limit of 0 (`PositiveLimits`), which would
stop the run by design; no shipped policy does, and the DSL rejects it.

*Fairness.* `FairSpec` is weak fairness of `StepOnce`: `run_until_empty` and the loops
of the tools call `step_once` until no event is left. `FairFaultySpec` is weak fairness of the
whole loop, which stops for an exception or an empty queue only. `FairSpec` of `DagValidation`
says that the functions go on until they return or throw. `FairSpec` of `TuiSession` is weak
fairness of `Next`, because `getch` waits for 50 ms at most, and strong fairness of
`AutoStep`: the step comes when 150 ms have passed since the last one, so that it is enabled again
and again while no key restarts the interval. `n` and `r` do restart it, but the one
steps the simulation itself and the other ends the automatic run. No other
fairness is assumed: nothing about the hook, about which of several events of one timestamp
comes first, about keys, or about processes that are killed.

## 4. The proofs

The theorems hold for every number of tasks, stages and resources, every capacity, every set of
decisions and every workload that the assumptions `SchedulerAssumption` and `DagAssumption` admit;
for every program, snapshot, policy and length of the windows, every DAG, every command line and
manifest, every batch, all menus, and every workload that is copied and placed. What the assumptions
ask of the constants is what the code gives them: task ids are naturals and resources finitely many,
the window of the reorder marks is a positive constant (`scheduler.hh:32`), a snapshot lists each
waiting task once, a rule is one that `parse_rules` lets through, a line of a manifest has a
value if it has a key (`IsManifest`), and `None`, which stands for a margin, a key or a value that is not there,
is no number (`NoneAssumption`).

*Loops and recursion.* No induction theorem of the library can be cited here, since they are stated
of an operator. Where a theorem is about a recursive function or a fold, the induction is done by
hand: among the counterexamples there would be a least one (`LeastOf`, from the well-foundedness of
the naturals), and the step before it is none. The same argument shows that a function exists that
satisfies the recursion (`SumsExist`, `LoopExists`, `FoldsExist`): the functions up to each size can
be extended to the next.

**Scheduler.** The properties are not inductive one by one. `UnitsAccounted` needs to know that a
Complete event finds its task active (`ActiveHasEvent`), which needs that the task has no second
event (`OnePlace`), which needs that a drained task has none (`WaitingConsistent`). `IInv` is their
conjunction, with three parts that no run states by itself: stages are served in order
(`StagesInOrder`), the units held are finitely many, and the drain only goes on while someone waits
(`DrainHasWork`). `NextIInv` has one lemma per action; the two places that start a task share
`TryStartIInv`, and the hook enters through `HookKeepsQueue` alone: whatever order it asks for, the
queue keeps its members, each once. `Invariance` gives `TypeCorrect`, `WaitingIsConsistent`,
`NoTaskLost`, `CompletionsAreExact`, `ActiveCountIsExact` and `UnitsAreAccounted`; `ClockIsMonotone`
and `AdmissionIsRespected` are about steps. `NoTaskStranded` adds, for hooks with limits above 0,
that waiting tasks wait for an active one: a drain that found nobody active would have started its
front task, since it fits into an empty pool. `RunsEndClean` follows.

`SchedulerServesStages` is the safety part of the refinement: a start is `Begin`, since the units of
the active tasks are those in use; a completion is `Finish`; every other step stutters.

**Time.** `SojournIsAccounted` rests on `TimeAccounted`: at any time, a task's arrival plus its
recorded queue and service times is the timestamp of its event, or the time since which it waits.
`FinishedAreByNow`: what is finished was so by the present time, and never changes.

**SchedulerMetrics.** `PolicyInvariance` is the invariant of the scheduler under a shipped policy;
`PoliciesAreHooks` is the refinement: what is observed is a history as far as the scheduler is
concerned, and each decision of each policy, the sorting ones included, is one of an arbitrary hook.
So all theorems about `Scheduler` hold under every policy that is shipped and every program of the
DSL.

`WindowsAreExact` compares what is kept with a log of everything. `MetricsInv` says of each of the
three windows that the log is in the order of time and that what is kept is the log without a prefix
of entries that have left the window (`Kept`). Dropping keeps that, whenever it is done and however
often, because time and the number of completions never go back; a reader who drops once more is
left with exactly the entries within the window. The sojourn window is the last entries of the
completed list; the usage of a domain is the sum over its resources of the units in use, which each
start and completion changes on both sides. `RecentReordersAreExact` is the same for any shorter
window of marks.

`UnsortedConservesWork`: while a drain is running, each waiting task behind those that it has still
to try could not start when it was tried (`Tried`), and cannot now: since then units were only
taken, and no limit of these policies is ever lifted. At the end of the drain that is the whole
queue; a ready task that does not fit is queued at the end. `DrainKeepsRank`: the hook has just
sorted the queue when its front is tried, and the sort puts those first that rank first.

**RunMetrics.** `ReportsAreExact` is about an operator over the states of a run. The sorted
latencies are the latencies in the order of positions (`SortedUpSorts`), whose existence is an
argument about least elements again; a percentile lies between the two values around its rank
(`LiesBetween`), so that the share of tasks it is named for is enclosed; the sums over the completed
list need that it lists each task once, and the reorders are those of `RecentReordersAreExact`.

**DagRun.** `RunImplementsScheduler` shows that a run of a workload is a run of the scheduler, so
that everything above holds of it. `RunIInv` adds the controller's invariant: the counters are
exact, a node is released exactly when its counter is 0 and its DAG's turn has come, and, until an
exception ends the run, the map, the scheduler's tasks and the flags agree. From it:
`CountersStayExact`, `CompletionsFindTheirNode` (the exceptions of `release_successors` are
unreachable), `AbortsOnCollisions`, `PrecedenceIsRespected`, `RunImplementsOrder` (the safety part
of the refinement) and, with `RunsEndClean` and acyclicity, `RunsEndComplete` and
`CollisionsAreDetected`. `NoSubmissionsInThePast` justifies the guard of `Submit` on arrival times:
it takes no behaviour of the run away. `NoGapsBetweenStages` rests on `Gapless`: completed nodes are
finished, at times that have passed; the last completion, while it has not been passed on, is of
this instant; and the release time of a released node is the latest time at which a predecessor
completed. A node that is ready has, by its exact counter, no predecessor left, and lost the last
one just now. Later steps leave both sides alone: the account of a finished task never changes
(`AccountsAreFinal`), and neither does an arrival time (`ArrivalsAreFinal`).

**RunFaults.** Up to the exception a run with faults takes only steps of `DagRun`, so that `RunIInv`
and the invariant of the scheduler hold as long as `aborted` does not (`FaultyInvariance`); nothing
happens afterwards. What is left to show is what the last step leaves. `UnitsStayWithinCapacity`:
the requirements before the first that throws did not throw, and the last of them that names a
resource bounds the units of all of them. `AbortsHaveAReason`: where each requirement fits alone and
one throws, another before it names the same resource. `FaultyRunImplementsOrder` and
`FaultyCompletionsFindTheirNode` carry the results for `DagRun` over.

**PolicyProgram.** `FirstRuleAlwaysWins` rests on `FirstSoFar`: at each rule, a field that is still
empty is one no earlier rule had a directive for, and a field that is set holds that of the first
rule that had one. `OnlyMatchingReordered`: the tasks that match are put in the order of their
demand, ties by id, which makes each of them come exactly once; the n-th of them takes the n-th of
the positions that matched, so that the others keep theirs.

**DagValidation.** `SearchInv` relates the marks to the calls: the nodes being visited are those on
the stack, each once, and each call was made for an edge of the one below; the nodes whose calls
returned are the visited ones, and their successors returned before them; a loop has passed only
successors that are visited, or the one it has called for. With it, `AcceptedDagsAreValid`: of any
set of nodes the one whose call returned last has no predecessor in the set. `RefusedDagsAreFaulty`:
the stack from the node that is met again up to the top is a set in which everyone has a
predecessor; when the search ends, the visited nodes are closed under successors.
`InferenceAlwaysSuffices`: the nodes that the entry points do not reach would have one without
predecessors among them, which would be an entry point. `VerdictsAreRight` puts the first two
together. Acyclicity here is what `DagAssumption` asks of the DAGs of `DagRun`, so the theorem
justifies it.

`OrdersAreTopological` is about the second algorithm. `Counted` is the invariant of its loop over
the mentions C of successors that were counted down: the indegree of a node is the number of its
mentions outside C, and a node is in the order or ready, and only once, if and only if it has none
left. After each node taken, C has the mentions in the lists of the nodes in the order, each as
often as it is written there (`TakeFirstRound`), so that a node is taken only after all its
predecessors (`LeadsOnward`). The loop ends, because different nodes are taken (`OrderOfLoop`); of
the nodes that are left over each has a predecessor among them.

**Placement.** `CopiesKeepIdsApart`: if the ids of a workload are apart and below the stride, and
the copies do not reach the range of ids, the ids of all copies are apart. The id of a copy
determines the arrival and the original id as quotient and remainder by the stride, and the position
of the copy is determined by the two in the same way. The assumptions are needed: nothing in
`expand_workload` checks them. `MovedStagesAreOnOneSide`: after the placement every demand and the
profile of a stage that moved are on the side that was chosen, and the units are those of before.

**PlacementBenchmark.** The benchmark applies the two to what it has read, so it must be known what a
file can be read as. `DocumentRead` says that the parser comes to its end and returns nodes, whatever
the tokens. That the recursive function exists is no matter of course: `Rank` bounds the calls that a
call leads to, by the tokens that are left, and `parse_value` calls the others for the same token; a call
leads to calls of a lower rank only (`CallRead`), so the function is extended rank by rank
(`CallsReadBelow`). "Made of nodes" is membership in a set that is closed under the parts of its members
(`NodeSet`).

`TokensAreTheContent` is about the loop over the lines, whose state is a margin: while a block scalar is
open it is that of the line that opened it, and each line so far is its text or is no longer
(`ScansContent`). A margin survives blank lines, so the tokens up to a line are those of the lines that count
up to it (`CountedLonger`, `AppendedIs`), and `tokenize` throws at the first faulty line.

`DocumentEnds` says where the parser stops. A token
has its place by an earlier one (`PlacedBy`): by the one before it in its block, by the key right before
it whose value it opens, or by the item whose map it goes on. The induction is over ranks again. It says of a
call that takes a token only if that has a place (`EndsWell`): all tokens up to the one it stops at have
a place and are indented by as much as the call asks for, and none of them gives a place to that one
(`EndsAtMisfit`). Blocks are joined by `JoinedReads`: a token at the outer indentation hides what is
before it. Two things that `tokenize` sees to are needed: indentations are even, so that what is deeper than a key is
deep enough to be its value, and an item has a key or a value. It follows that what the
parser drops is exactly what follows the first misfit.

`DocumentsMean` says what it returns: the node that the tokens up to there mean. `Meaning` looks at the tokens
before the misfit alone (`IsCut`), the parser at all of them, so both are put side by side for the calls of each
rank (`CallsMeanBelow`): a call that ends where its block does returns the map, or the sequence, of the
tokens of the block that are indented as the first is (`Span`, `BlockMeans`). The value of a key and the rest of
an item are such blocks (`ValueMeans`, `ItemMeans`), because tokens that have a place are `Connected`:
between a token and those it holds nothing is indented by less. `emplace` keeps the first of two
entries with one key, and so does a map that is built from its end (`MapOfMore`); items are put before
those that follow (`SequenceOfMore`). That the values of `Meaning` are well defined is shown with it: the
value of a token is determined by those of later ones (`LaterDetermine`), so the values that the parser
returns are the only ones.

`ReadsAsIndented` is the invariant of the benchmark: whatever file `tokenize` accepts. `LoadsWhatIsWritten`
follows the file through `main`. It assumes of the files given that were written from a node
(`FilesDescribed`) that their lines mean it, and that what they are said to be loaded as is what the
loaders make of the *node*; it shows that `main`, which has only the lines, loads that, or refuses the file where
the loader refuses the node. The invariant `FilesInv` says in each phase what has become of profile and
workload, and where a run was refused, why: a profile is missing only where the file has none
(`ProfileInv`); a workload is empty after a refusal only if there are no tokens or the root is no workload
(`LoadedInv`), because a workload that is loaded has a task at least (`LoadedType`). In
`MCPlacementBenchmark` TLC evaluates that the documents are faithful (`OutlinesAssumption`), and the invariant
compares with a workload and a platform that no loader made: they come from the outline that the file was
written from.

Also from `LoadedType`: a document that passes the loader's checks is turned into
tasks with stages and nodes whose demands name resources there are, which is what placement looks at.

`BenchmarkType` and `WorkloadInv` are inductive. The second says what `main` has made of the document
in each phase, and of nothing else: the copies are those of what was loaded, for the arrivals that
were read, and after the placement they are those copies, placed under the mode of the arguments, which
is one of the three although its capitals do not count (`ModeOfCommand`). `CopiesAlwaysHaveTheirOwnIds` and
`StagesAlwaysPlaced` follow with the theorems above and `PlacedKeepsIds`; nothing is assumed of the
files but that they consist of lines, and of the constants that the stride is positive
(`placement_benchmark.cc:206`), that numbers are integers and that the names of the modes have no capitals.
`RowsAlwaysOfTheRuns` rests on `RowsInv`: a run that has reported and has yet to append has in its
summary what its row will say, whichever runs wrote or failed to write before it; where its metadata
has the keys of the header, each value is in the column of its key.

**BatchRuns.** The three properties speak of the end of the file, of the last batch and of reports
that later runs may overwrite; none is inductive. `IInv` adds what they rest on: while the header is
in the buffer the CSV is empty and no run has written a row; a stream that went bad has been noted
in `damaged`; the rows of the last batch are of runs before the current one, so that the row to come
follows them (`RecentInv`, `OrderInv`); and the report at the path of a recent row is that of its
run or a later one, or incomplete while the current run shares the path (`BackedInv`). From it:
`HeaderComesFirst`, `RowsAreTheRuns` and `RowsHaveReports`, for every set of manifests and any
number of processes.

**CommandLine.** While arguments are read, the options, the flags, the manifest and the batch are
those of the last argument for each (`Parsing`, in `IInv`), whose part for a single option is
`AppendedValue`. The manifest is a loop over its lines: `Parsed` shows by the least line that would
break it (`IsRead`) that the lines read so far are faulty if and only if one of them is, and that
each field has the value of the last line for it, sections included. At the end the two meet:
`FlagsAlwaysOverride` and `FaultsAreRefused`.

**TuiSession.** `SettingsApplied` is inductive with the shape of a session (`SessionInv`): each key
either leaves selection and session alone, changes both together, or notes that they differ.
`ReportsAlwaysKept` needs that the reports are finitely many, so that there is a free number for the
next one.

*Model-checked only:* everything under fairness (`EveryTaskCompletes`, `AutoRunEnds`, `Decided`, the
liveness in `ServesStages` and `OrderUnlessAborted`), since the prover handles neither fairness nor
ENABLED. Of `LoadedAsWritten` the instance has one thing that the theorem does not: the expected workload of an
outline is made by recursion over what it says (`Outlines`), with operators the prover cannot use.

## 5. Findings

`scope.md:111` says of NIC DRAM and PCIe that "contention is first-come/first-served unless
specified". No policy needs to be set for the code to do otherwise: `handle_task_ready`
tries a newly ready task before those that wait, and the drain passes over a front task that
does not fit. `MCScheduler_fcfs` finds a task that gets DRAM units while one that
asked for them earlier still waits.

`README.md:121` calls the rolling window the horizon of the utilization averages. Samples
are taken only when cores are taken or given back; when none is left in the window the
average is 0 (`rolling_runtime_metrics.cc:123`), while the average of the queue falls back to
its latest value. `MCSchedulerMetrics_busy` finds a host whose cores are all in use throughout
the window, with an average utilization of 0. `prefer-adaptive` and DSL rules on
`host_util_avg` decide by that value.

Further places where the code and its documents part, which the modules follow the code in
and which need no run to be seen:

* `README.md:142` says that `adaptive.dsl.yaml` "relaxes the admission limit once queues
  drain". Its rule sets `max_active: 2` while the queue is short, from the first call on, and
  no action of the DSL lifts a limit.
* `r` is "Reset (new seed)" (`main.cc:916`). After a policy or workload failed to load there is no
  session; the next `m` or `p` loads one with `next_seed` (`main.cc:619`) but, keeping "the
  seed", does not count it up, so the reset after it runs with the same seed. If the policy fails,
  `auto_run` stays set without a session.
* A saved report names the workload that is highlighted, not the one of its session, if the
  menu was moved without loading (`Report` in `TuiSession`).
* `--batch` is "incompatible with other options" (`runner.cc:967`), but the flags of the
  rolling windows are accepted with it and ignored (`Rolling` in `CommandLine`).
* `README.md:125` says that "every batch/manifest entry" accepts a `rolling_windows:` block;
  `parse_manifest_file` refuses it and knows three flat keys instead.
* Batches produce "individual JSON reports" (`README.md:165`), but runs that share
  `defaults.output` or a name overwrite each other's without a word; a batch with other metadata keys
  appends rows whose columns are not those of the header; `write_report` looks at the stream
  before it is closed (`runner.cc:955`), so a full disk may go unnoticed.
* `workloads/SCHEMA.md` says that ids "must be unique" (line 42), which the loader does not check;
  that exactly one of `deterministic_service_time` and `service_profile` is given and "the loader
  enforces this constraint" (line 63), which refuses neither only; that `description` is optional, which is
  required; and describes `dag_tasks` with `entry_points` where the loader reads `dag` and `entry`
  of a task. Hints that stand beside a node's `stage`, "preserved in the generated
  `TaskDagNode`" (line 92), and a task's `placement_hint` are not read at all.
* The parser stops at a line that is out of place and returns what it has: a workload whose last tasks are
  indented wrongly is a shorter workload. A list at the indentation of its key is cut off this way,
  which YAML allows. The parser of profiles, a second one, refuses some indentations
  that this one accepts.
* `s` "saves the current metrics report" (`README.md:84`), but a saved report always has 0
  `waiting_reorders` under `policy_metrics`: it is made of the completed tasks alone
  (`main.cc:806`, the overload for a list of tasks), while the panel shows the scheduler's count.
* `append_csv` of the placement benchmark names the columns when it creates the file. A later run with
  other metadata keys, or the same in another order, puts its values under columns that are not
  theirs (`IsLineOf` claims no more).
* In `poisson_bursty` fixtures a window without a rate takes no time, so that idle windows
  do not separate bursts.
* A placement can bring two demands for one resource into one stage, each of which `can_allocate`
  checks by itself, while `allocate` throws half-way if only one fits (`scheduler.cc:194`,
  `UnitsWithinCapacity` in `MCRunFaults`).

An observation that contradicts no document: under a policy that sorts, each iteration of
a drain tries the task that ranks first, because the hook undoes the rotation. If that task
does not fit, no other is tried before the next completion (`DrainKeepsRanking`).

## 6. Not modelled

Statistics, distributions, the text of reports, summaries and plots are arithmetic and text
without state that a run reads again. Doubles are naturals here, so rounding and the 1e-12
tolerance of the pool are outside. Of the run metrics, means and ratios are left as sums and counts, and
the split of service times by domain is left out. What no code reads after a profile was loaded is
checked for its type and not kept. `policy_dsl.cc` reads its rules with a YAML library; the rules are
modelled as it leaves them. The drawing, the event log and the presets of the terminal interface show
state and do not change it; paths are not resolved. The Python tools only read results.

## 7. Plan

What is left, in the order of importance:

1. The metrics of a session in `TuiSession`, so that saved reports can be compared with what the
   panel shows.
2. That what `Outlines` writes is faithful, for every outline and not only for those of the instance: an
   induction over the data, with the lines and the node of an outline as recursive functions.
