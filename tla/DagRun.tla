------------------------------- MODULE DagRun -------------------------------
(***************************************************************************)
(* A run of a workload: the loop of run_simulation (tools/cli/runner.cc),  *)
(* the DagSubmissionController and the TaskDagRuntimes it drives, composed *)
(* with the Scheduler.  The loop submits the plain tasks, then the entry   *)
(* nodes of every DAG; after each step of the scheduler that completed a   *)
(* task it has the controller submit the nodes which that task released.   *)
(*                                                                         *)
(* A node is a pair <<d, i>>: node i (from 1) of the d-th DAG.  The ids of *)
(* the nodes and of the plain tasks may collide: no loader compares them.  *)
(* An exception ends the run and sets aborted.  Nodes that become ready    *)
(* together are registered in any order.                                   *)
(***************************************************************************)
EXTENDS Scheduler

CONSTANTS
  PlainTasks,  \* spec.tasks: a sequence of [id, arrival]
  Dags,        \* spec.dag_tasks: a sequence of [base, arrival, successors, entries]
  None         \* no completion to pass on, no runtime

Node == UNION {{d} \X DOMAIN Dags[d].successors : d \in DOMAIN Dags}
Successors(n) == Dags[n[1]].successors[n[2]]

\* make_task_id; the constructor refuses a DAG whose ids would overflow.
NodeId(n) == Dags[n[1]].base + n[2] - 1

\* <<m, k>> is the edge to the k-th successor of m, which may repeat an earlier one.
Edge == UNION {{m} \X DOMAIN Successors(m) : m \in Node}
Target(e) == <<e[1][1], Successors(e[1])[e[2]]>>
InEdges(n, S) == {e \in Edge : e[1] \in S /\ Target(e) = n}

IsEntry(n) == n[2] \in Range(Dags[n[1]].entries)

\* What the loader and validate_task_dag_spec check before a run: successors and
\* entry points exist, every node is reachable from an entry point (so a node
\* without predecessors is one) and there is no cycle.
ValidDags ==
  /\ \A e \in Edge : Target(e) \in Node
  /\ \A n \in Node : InEdges(n, Node) = {} => IsEntry(n)
  /\ \A S \in SUBSET Node : S # {} => \E n \in S : InEdges(n, S) = {}

\* Every node is a task of one stage.
ASSUME DagAssumption ==
  /\ PlainTasks \in Seq([id : Task, arrival : ArrivalTimes])
  /\ Dags \in Seq([base : Nat, arrival : ArrivalTimes,
                   successors : Seq(Seq(Nat)), entries : Seq(Nat)])
  /\ IsFiniteSet(Edge)
  /\ \A n \in Node : NodeId(n) \in Task /\ Len(Stages[NodeId(n)]) = 1
  /\ ValidDags
  /\ None \notin Task /\ None \notin DOMAIN Dags

VARIABLES
  nextTask,     \* the index of the plain task that is submitted next
  nextDag,      \* the index of the DAG whose entry nodes are registered next
  registering,  \* the released nodes that register_tasks has still to register
  nodeArrival,  \* task.arrival_time of each node
  remaining,    \* remaining_dependencies
  released,     \* the nodes with released set
  completed,    \* the nodes with completed set
  runtimeOf,    \* task_to_runtime_: the DAG of each id, or None
  lastCompleted,\* the task that the last step completed, until it is passed on
  aborted       \* an exception ended the run

nodeVars == <<nodeArrival, remaining, released, completed>>
dagVars == <<nextTask, nextDag, registering, nodeVars, runtimeOf, lastCompleted,
             aborted>>
runVars == <<vars, dagVars>>

RunInit ==
  /\ Init
  /\ nextTask = 1
  /\ nextDag = 1
  /\ registering = {}
  /\ nodeArrival = [n \in Node |-> Dags[n[1]].arrival]
  /\ remaining = [n \in Node |-> Cardinality(InEdges(n, Node))]
  /\ released = {}
  /\ completed = {}
  /\ runtimeOf = [t \in Task |-> None]
  /\ lastCompleted = None
  /\ aborted = FALSE

\* Mutant: a known id is skipped.
SubmitAt_silent(t, arrival) ==
  /\ IF t \in tasks THEN UNCHANGED vars ELSE Submit(t) /\ arrivalTime'[t] = arrival
  /\ UNCHANGED aborted

\* submit_task with its first check: a known id makes it throw.
SubmitAt(t, arrival) ==
  \/ /\ t \notin tasks
     /\ Submit(t)
     /\ arrivalTime'[t] = arrival
     /\ UNCHANGED aborted
  \/ /\ t \in tasks
     /\ aborted' = TRUE
     /\ UNCHANGED vars

SubmitPlainTask ==
  /\ ~aborted
  /\ nextTask <= Len(PlainTasks)
  /\ SubmitAt(PlainTasks[nextTask].id, PlainTasks[nextTask].arrival)
  /\ nextTask' = nextTask + 1
  /\ UNCHANGED <<nextDag, registering, nodeVars, runtimeOf, lastCompleted>>

\* Mutant: entry points are released even if they have predecessors.
InitialTasks_allEntries(d) == {n \in Node : n[1] = d /\ IsEntry(n)}

\* initial_tasks: an entry point with predecessors is left to them.
InitialTasks(d) ==
  {n \in Node : n[1] = d /\ IsEntry(n) /\ remaining[n] = 0 /\ n \notin released}

\* An iteration of submit_initial, up to its register_tasks
SubmitInitial ==
  /\ ~aborted
  /\ nextTask > Len(PlainTasks)
  /\ registering = {}
  /\ nextDag <= Len(Dags)
  /\ registering' = InitialTasks(nextDag)
  /\ released' = released \cup InitialTasks(nextDag)
  /\ nextDag' = nextDag + 1
  /\ UNCHANGED <<vars, nextTask, nodeArrival, remaining, completed, runtimeOf,
                 lastCompleted, aborted>>

\* Mutant: the map is left without the new entry.
Registered_unmapped(n) == runtimeOf

\* task_to_runtime_ with the id of n in it
Registered(n) == [runtimeOf EXCEPT ![NodeId(n)] = n[1]]

\* An iteration of register_tasks: an id that is in the map throws, an id that
\* the scheduler knows does so after it was put into the map.
Register(n) ==
  /\ ~aborted
  /\ n \in registering
  /\ \/ /\ runtimeOf[NodeId(n)] = None
        /\ runtimeOf' = Registered(n)
        /\ SubmitAt(NodeId(n), nodeArrival[n])
        /\ registering' = IF aborted' THEN registering ELSE registering \ {n}
     \/ /\ runtimeOf[NodeId(n)] # None
        /\ aborted' = TRUE
        /\ UNCHANGED <<vars, runtimeOf, registering>>
  /\ UNCHANGED <<nextTask, nextDag, nodeVars, lastCompleted>>

\* step_once, for an event that the loop looks at afterwards
Step ==
  /\ ~aborted
  /\ nextTask > Len(PlainTasks)
  /\ nextDag > Len(Dags)
  /\ registering = {}
  /\ lastCompleted = None
  /\ \E e \in eventQueue :
       /\ HandleEvent(e)
       /\ lastCompleted' = IF e.type = "complete" THEN e.id ELSE None
  /\ UNCHANGED <<nextTask, nextDag, registering, nodeVars, runtimeOf, aborted>>

\* The rest of step_once: the drain that ends handle_task_complete
Drain == DrainStep /\ UNCHANGED dagVars

\* remaining_dependencies after release_successors went through m's successors
Decremented(m) ==
  [n \in Node |->
     IF n \in completed THEN remaining[n]
     ELSE IF remaining[n] < Cardinality(InEdges(n, {m})) THEN 0
     ELSE remaining[n] - Cardinality(InEdges(n, {m}))]

\* Mutant: a node is ready as soon as one of its predecessors completed.
Ready_anyPredecessor(m) ==
  {n \in Node : InEdges(n, {m}) # {} /\ n \notin released}

\* Mutant: it is ready anew with each predecessor that completes.
Ready_eachPredecessor(m) == {n \in Node : InEdges(n, {m}) # {}}

\* The nodes that release_successors returns
Ready(m) == {n \in Node : remaining[n] > 0 /\ Decremented(m)[n] = 0 /\ n \notin released}

\* task.arrival_time of the nodes once m completed
ReleaseTimes(m) ==
  [n \in Node |-> IF n \in Ready(m) THEN currentTime ELSE nodeArrival[n]]

\* handle_task_completion, up to its register_tasks, once the step is over.  The
\* three throws of release_successors are not here: ControllerConsistent shows
\* that its node is released and not completed.
HandleTaskCompletion ==
  LET d == runtimeOf[lastCompleted]
      m == <<d, lastCompleted - Dags[d].base + 1>>
  IN
  /\ ~aborted
  /\ lastCompleted # None
  /\ drainLeft = 0
  /\ \/ /\ d = None
        /\ UNCHANGED <<registering, nodeVars, runtimeOf>>
     \/ /\ d # None
        /\ runtimeOf' = [runtimeOf EXCEPT ![lastCompleted] = None]
        /\ completed' = completed \cup {m}
        /\ remaining' = Decremented(m)
        /\ released' = released \cup Ready(m)
        /\ registering' = Ready(m)
        /\ nodeArrival' = ReleaseTimes(m)
  /\ lastCompleted' = None
  /\ UNCHANGED <<vars, nextTask, nextDag, aborted>>

RunNext ==
  \/ SubmitPlainTask
  \/ SubmitInitial
  \/ \E n \in Node : Register(n)
  \/ Step
  \/ Drain
  \/ HandleTaskCompletion

RunSpec == RunInit /\ [][RunNext]_runVars

------------------------------------------------------------------------------
(* Properties *)

RunTypeOK ==
  /\ nextTask \in 1..Len(PlainTasks) + 1
  /\ nextDag \in 1..Len(Dags) + 1
  /\ registering \subseteq Node
  /\ nodeArrival \in [Node -> Nat]
  /\ remaining \in [Node -> Nat]
  /\ released \subseteq Node
  /\ completed \subseteq Node
  /\ runtimeOf \in [Task -> DOMAIN Dags \cup {None}]
  /\ lastCompleted \in Task \cup {None}
  /\ aborted \in BOOLEAN

\* remaining_dependencies, which is only counted down, is the number of edges
\* from the predecessors that have not completed.
CountersExact ==
  \A n \in Node : remaining[n] = Cardinality(InEdges(n, Node \ completed))

\* A node that was handed to the scheduler
IsRegistered(n) == n \in released \ registering

\* task_to_runtime_ holds exactly the nodes that were submitted and whose
\* completion has not been passed on: a completion always finds its node, and
\* release_successors never throws.
ControllerConsistent ==
  ~aborted =>
    \A t \in Task, d \in DOMAIN Dags :
      runtimeOf[t] = d <=>
        \E n \in Node : /\ n[1] = d /\ NodeId(n) = t
                        /\ IsRegistered(n) /\ n \notin completed

\* A node's task is started only when the tasks of all its predecessors have
\* completed in the scheduler.  Holds when the ids differ.
PrecedenceRespected ==
  [][\A n \in Node : active'[NodeId(n)] /\ ~active[NodeId(n)] =>
        \A e \in InEdges(n, Node) : NodeId(e[1]) \in Range(completedTasks)]_runVars

\* No node is submitted with an arrival time in the past, which submit_task does
\* not look at: its event would turn the clock of the simulation back.
NoSubmissionInThePast == \A n \in registering : nodeArrival[n] >= currentTime

\* A node's task arrives exactly when the last of its predecessors completed: the
\* times of the stages of a DAG add up along its paths, without gap or overlap.
NoGapBetweenStages ==
  \A n \in Node :
    IsRegistered(n) /\ InEdges(n, Node) # {} =>
      /\ \A e \in InEdges(n, Node) : Account(NodeId(e[1])) <= arrivalTime[NodeId(n)]
      /\ \E e \in InEdges(n, Node) : Account(NodeId(e[1])) = arrivalTime[NodeId(n)]

Ended ==
  /\ nextTask > Len(PlainTasks) /\ nextDag > Len(Dags) /\ registering = {}
  /\ lastCompleted = None /\ eventQueue = {} /\ drainLeft = 0

\* A run that ends without an exception has completed every node of every DAG,
\* and every task: none is left waiting for a predecessor for ever.
RunEndsComplete ==
  Ended /\ ~aborted =>
    /\ completed = Node
    /\ Range(completedTasks) =
         {NodeId(n) : n \in Node} \cup {p.id : p \in Range(PlainTasks)}

\* Two entries of the workload have the same id.
IdsCollide ==
  \/ \E n, m \in Node : n # m /\ NodeId(n) = NodeId(m)
  \/ \E n \in Node, p \in Range(PlainTasks) : NodeId(n) = p.id
  \/ \E i, j \in DOMAIN PlainTasks : i # j /\ PlainTasks[i].id = PlainTasks[j].id

\* An exception ends the run only if two ids collide.
AbortsOnCollisionOnly == aborted => IdsCollide

\* A collision never goes unnoticed: no run with one ends normally, as if the two
\* entries were the same task.
CollisionDetected == Ended /\ IdsCollide => aborted

\* A node is released once its DAG's turn came and no dependency remains.
ReleasedWhenDue ==
  \A n \in Node : n \in released <=> remaining[n] = 0 /\ n[1] < nextDag

\* The nodes go from released, by way of registering, to completed.
NodesInOrder ==
  /\ registering \subseteq released
  /\ completed \subseteq released
  /\ registering \cap completed = {}
  /\ released # {} => nextTask > Len(PlainTasks)
  /\ lastCompleted # None =>
       registering = {} /\ nextDag > Len(Dags) /\ stageIndex[lastCompleted] > 1

PlainIds == {PlainTasks[i].id : i \in 1..nextTask - 1}
NodeIds == {NodeId(n) : n \in {m \in Node : IsRegistered(m)}}

\* The scheduler has the tasks and nodes that were submitted, all of them with
\* an id of their own.
SubmittedApart ==
  /\ tasks = PlainIds \cup NodeIds
  /\ PlainIds \cap NodeIds = {}
  /\ \A i, j \in 1..nextTask - 1 : PlainTasks[i].id = PlainTasks[j].id => i = j
  /\ \A n, m \in Node :
       IsRegistered(n) /\ IsRegistered(m) /\ NodeId(n) = NodeId(m) => n = m

\* A node is completed once the scheduler has completed its task, up to the
\* completion that is still to be passed on.
CompletionsPassedOn ==
  \A n \in Node :
    IsRegistered(n) =>
      (n \in completed <=> Finished(NodeId(n)) /\ lastCompleted # NodeId(n))

\* The inductive invariant of the run, next to that of the scheduler
RunIInv ==
  /\ RunTypeOK
  /\ CountersExact
  /\ ReleasedWhenDue
  /\ NodesInOrder
  /\ ~aborted => ControllerConsistent /\ SubmittedApart /\ CompletionsPassedOn

\* A node counts as submitted once register_tasks is through with it.
Order == INSTANCE PrecedenceOrder WITH
  Job <- Node,
  Before <- {<<e[1], Target(e)>> : e \in Edge},
  submitted <- released \ registering,
  done <- completed
==============================================================================
