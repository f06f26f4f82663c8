------------------------------ MODULE RunFaults ------------------------------
(***************************************************************************)
(* The runs of DagRun whose tasks may be at fault, each with an exception  *)
(* that ends the run where the fault is noticed:                           *)
(*                                                                         *)
(*   - validate_task refuses a task, which for the node of a DAG is when   *)
(*     its predecessors have completed, in the middle of the run;          *)
(*   - a stage names a resource in several requirements.  try_start_task   *)
(*     looks at each requirement alone before it allocates any of them:    *)
(*     if the pool has the units for each, but not for all, an allocation  *)
(*     throws and leaves those before it in use.                           *)
(*                                                                         *)
(* Which tasks are refused and what the requirements are belongs to the    *)
(* workload; both are chosen in the initial state and never change.  Every *)
(* step is the one of DagRun, or fails.                                    *)
(***************************************************************************)
EXTENDS DagRun

CONSTANTS
  RefusedSets,     \* the sets of tasks that validate_task may have to refuse
  RequirementSets  \* functions from the tasks to a list of requirements per stage

RequirementType == [resource : Resource, units : Nat]

\* The units of resource r that the first n requirements of a list ask for
UnitsOf(list, n, r) ==
  UNION {{i} \X (1..list[i].units) : i \in {j \in 1..n : list[j].resource = r}}

\* A list is one of the stage: together its requirements are the stage's demand.
IsListOf(list, stage) ==
  /\ list \in Seq(RequirementType)
  /\ \A r \in Resource : Cardinality(UnitsOf(list, Len(list), r)) = stage.demand[r]

ASSUME FaultAssumption ==
  /\ RefusedSets \subseteq SUBSET Task
  /\ \A lists \in RequirementSets :
       /\ DOMAIN lists = Task
       /\ \A t \in Task : /\ DOMAIN lists[t] = DOMAIN Stages[t]
                        /\ \A k \in DOMAIN lists[t] : IsListOf(lists[t][k], Stages[t][k])

VARIABLES
  refused,      \* the tasks that validate_task throws for
  requirements  \* task.stages[k].requirements of each task

faultyVars == <<runVars, refused, requirements>>

List(t) == requirements[t][stageIndex[t]]

------------------------------------------------------------------------------
(* Resource and ResourcePool *)

\* Mutant: only the first requirement is looked at.
CanAllocateEach_first(list) ==
  list # <<>> => inUse[list[1].resource] + list[1].units <= Capacity[list[1].resource]

\* can_allocate holds for each requirement.
CanAllocateEach(list) ==
  \A i \in DOMAIN list :
    inUse[list[i].resource] + list[i].units <= Capacity[list[i].resource]

\* allocate throws for the i-th requirement, those before it being in use.
AllocateThrows(list, i) ==
  inUse[list[i].resource] + Cardinality(UnitsOf(list, i, list[i].resource))
    > Capacity[list[i].resource]

FirstThrow(list) ==
  CHOOSE i \in DOMAIN list :
    AllocateThrows(list, i) /\ \A j \in 1..(i - 1) : ~AllocateThrows(list, j)

\* Mutant: the allocation that throws has taken its units already.
PartlyInUse_late(list) ==
  [r \in Resource |-> inUse[r] + Cardinality(UnitsOf(list, FirstThrow(list), r))]

\* in_use when the allocations end with an exception
PartlyInUse(list) ==
  [r \in Resource |-> inUse[r] + Cardinality(UnitsOf(list, FirstThrow(list) - 1, r))]

\* try_start_task gets past its checks, but not through the allocations.
StartThrows(t, limit) ==
  /\ Admits(limit)
  /\ CanAllocateEach(List(t))
  /\ \E i \in DOMAIN List(t) : AllocateThrows(List(t), i)

\* What an exception leaves of the run when the start of t fails
FailStart(t) ==
  /\ inUse' = PartlyInUse(List(t))
  /\ aborted' = TRUE
  /\ UNCHANGED <<active, activeServiceTime, queueTime, serviceTime, activeTaskCount,
                 waitingSet>>

------------------------------------------------------------------------------
(* Actions *)

FaultyInit ==
  /\ RunInit
  /\ refused \in RefusedSets
  /\ requirements \in RequirementSets

\* submit_task looks for a known id first, then validates the task.
FaultySubmitPlainTask ==
  \/ /\ nextTask <= Len(PlainTasks)
     /\ PlainTasks[nextTask].id \notin refused
     /\ SubmitPlainTask
  \/ /\ ~aborted
     /\ nextTask <= Len(PlainTasks)
     /\ PlainTasks[nextTask].id \in refused
     /\ aborted' = TRUE
     /\ UNCHANGED <<vars, nextTask, nextDag, registering, nodeVars, runtimeOf,
                    lastCompleted>>

\* The id of a node that is refused is in the map when submit_task throws.
FaultyRegister(n) ==
  \/ NodeId(n) \notin refused /\ Register(n)
  \/ /\ ~aborted
     /\ n \in registering
     /\ NodeId(n) \in refused
     /\ runtimeOf' = IF runtimeOf[NodeId(n)] = None THEN Registered(n) ELSE runtimeOf
     /\ aborted' = TRUE
     /\ UNCHANGED <<vars, nextTask, nextDag, registering, nodeVars, lastCompleted>>

\* handle_task_ready, whose attempt to start the task may throw
FaultyReady(e) ==
  /\ TakeReady(e)
  /\ \E h \in EvaluatePolicyHook(waitingQueue, waitingSet, admissionLimit) :
       \/ ReadyStarts(e, h) /\ UNCHANGED aborted
       \/ /\ ~StartThrows(e.id, h.limit)
          /\ \E g \in EvaluatePolicyHook(Append(h.queue, e.id), Enlisted(e.id), h.limit) :
               ReadyWaits(e, h, g)
          /\ UNCHANGED aborted
       \/ /\ StartThrows(e.id, h.limit)
          /\ FailStart(e.id)
          /\ waitingQueue' = h.queue
          /\ admissionLimit' = h.limit
          /\ eventQueue' = eventQueue \ {e}

FaultyStep ==
  /\ ~aborted
  /\ nextTask > Len(PlainTasks)
  /\ nextDag > Len(Dags)
  /\ registering = {}
  /\ lastCompleted = None
  /\ \E e \in eventQueue :
       /\ \/ /\ HandleTaskArrival(e) \/ HandleTaskStart(e) \/ HandleTaskComplete(e)
             /\ UNCHANGED aborted
          \/ FaultyReady(e)
       /\ lastCompleted' = IF e.type = "complete" THEN e.id ELSE None
  /\ UNCHANGED <<nextTask, nextDag, registering, nodeVars, runtimeOf>>

\* An iteration of drain_waiting: the front task is out of the queue when its
\* start throws.
FaultyDrain ==
  /\ ~aborted
  /\ drainLeft > 0
  /\ \E h \in EvaluatePolicyHook(waitingQueue, waitingSet, admissionLimit) :
       \/ /\ ~StartThrows(Head(h.queue), h.limit)
          /\ TryFront(h)
          /\ GoOnDraining
          /\ UNCHANGED aborted
       \/ /\ StartThrows(Head(h.queue), h.limit)
          /\ FailStart(Head(h.queue))
          /\ waitingQueue' = Tail(h.queue)
          /\ admissionLimit' = h.limit
          /\ UNCHANGED <<currentTime, eventQueue, tasks, arrivalTime, stageIndex,
                         readyTime, completedTasks, drainLeft>>
  /\ UNCHANGED <<nextTask, nextDag, registering, nodeVars, runtimeOf, lastCompleted>>

FaultyNext ==
  /\ \/ FaultySubmitPlainTask
     \/ SubmitInitial
     \/ \E n \in Node : FaultyRegister(n)
     \/ FaultyStep
     \/ FaultyDrain
     \/ HandleTaskCompletion
  /\ UNCHANGED <<refused, requirements>>

FaultySpec == FaultyInit /\ [][FaultyNext]_faultyVars

FairFaultySpec == FaultySpec /\ WF_faultyVars(FaultyNext)

------------------------------------------------------------------------------
(* Properties *)

\* A stage of t names a resource in two of its requirements.
NamesTwice(t) ==
  \E k \in DOMAIN requirements[t] : \E i, j \in DOMAIN requirements[t][k] :
    i # j /\ requirements[t][k][i].resource = requirements[t][k][j].resource

\* The tasks of the workload
Used == {NodeId(n) : n \in Node} \cup {p.id : p \in Range(PlainTasks)}

\* An exception ends a run only if two ids collide, validate_task refuses a task
\* or a stage names a resource twice: no contention for units, no decision of a
\* policy and no order of events makes a workload without these faults fail.
AbortsForAReason ==
  aborted => \/ IdsCollide
             \/ Used \cap refused # {}
             \/ \E t \in Used : NamesTwice(t)

\* The pool never hands out more than it has, not even in the stage whose
\* allocations come to a sudden end, and has the units of all others in use.
UnitsWithinCapacity ==
  \A r \in Resource :
    /\ inUse[r] <= Capacity[r]
    /\ inUse[r] >= Cardinality(UnitsHeld(r))
    /\ ~aborted => inUse[r] = Cardinality(UnitsHeld(r))

\* A run does the nodes of its DAGs in order, and all of them unless an exception
\* ends it.
OrderUnlessAborted == Order!Spec /\ (<>aborted \/ Order!Fairness)
==============================================================================
