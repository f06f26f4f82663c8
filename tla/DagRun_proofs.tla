---------------------------- MODULE DagRun_proofs ----------------------------
(***************************************************************************)
(* Theorems about DagRun and RunFaults.  A run of a workload is a run of   *)
(* the scheduler, so every theorem about Scheduler holds of it; the        *)
(* invariant RunIInv of the controller is proved on top of the             *)
(* scheduler's.  Until an exception ends it, a run with faults takes the   *)
(* steps of one without; what the exception itself leaves behind is looked *)
(* at for each of its causes.                                              *)
(***************************************************************************)
EXTENDS RunFaults, Scheduler_proofs, WellFoundedInduction

------------------------------------------------------------------------------
(* Facts about the workload *)

\* A node is the pair of its DAG and its position, and its id gives it back.
LEMMA NodeTyped ==
  ASSUME NEW n \in Node
  PROVE  /\ n[1] \in DOMAIN Dags
         /\ n[1] \in 1..Len(Dags)
         /\ NodeId(n) \in Task
         /\ Len(Stages[NodeId(n)]) = 1
         /\ <<n[1], NodeId(n) - Dags[n[1]].base + 1>> = n
         /\ Dags[n[1]].arrival \in Nat
<1>1. PICK d \in DOMAIN Dags : n \in {d} \X DOMAIN Dags[d].successors
  BY DEF Node
<1>2. n = <<n[1], n[2]>> /\ n[1] = d /\ n[2] \in DOMAIN Dags[d].successors
  BY <1>1
<1> DEFINE R == [base : Nat, arrival : ArrivalTimes,
                 successors : Seq(Seq(Nat)), entries : Seq(Nat)]
<1>3. Dags \in Seq(R)
  BY DagAssumption DEF DagAssumption
<1>4. /\ d \in 1..Len(Dags) /\ Dags[d].base \in Nat /\ Dags[d].arrival \in Nat
      /\ Dags[d].successors \in Seq(Seq(Nat))
  <2>1. Dags[d] \in R /\ d \in 1..Len(Dags)
    <3> HIDE DEF R
    <3> QED BY <1>1, <1>3
  <2> QED BY <2>1, SchedulerAssumption DEF SchedulerAssumption
<1>5. n[2] \in Nat
  BY <1>2, <1>4
<1>6. NodeId(n) - Dags[n[1]].base + 1 = n[2]
  BY <1>2, <1>4, <1>5 DEF NodeId
<1> QED BY <1>1, <1>2, <1>4, <1>6, DagAssumption DEF DagAssumption

LEMMA EdgesTyped ==
  ASSUME NEW e \in Edge
  PROVE  e[1] \in Node /\ Target(e) \in Node /\ Target(e)[1] = e[1][1]
<1>1. e[1] \in Node
  BY DEF Edge
<1> QED BY <1>1, DagAssumption DEF DagAssumption, ValidDags, Target

\* The edges from m are, among those from S, the ones that go when m leaves S.
LEMMA EdgesRemoved ==
  ASSUME NEW S \in SUBSET Node, NEW m \in S, NEW n \in Node
  PROVE  /\ Cardinality(InEdges(n, S)) \in Nat
         /\ Cardinality(InEdges(n, {m})) \in Nat
         /\ Cardinality(InEdges(n, {m})) <= Cardinality(InEdges(n, S))
         /\ Cardinality(InEdges(n, S \ {m})) =
              Cardinality(InEdges(n, S)) - Cardinality(InEdges(n, {m}))
<1> DEFINE A == InEdges(n, S)
           B == InEdges(n, {m})
<1>1. A \subseteq Edge /\ B \subseteq A
  BY DEF InEdges
<1>2. IsFiniteSet(A)
  BY <1>1, DagAssumption, FS_Subset DEF DagAssumption
<1>3. IsFiniteSet(B) /\ Cardinality(B) <= Cardinality(A)
  BY <1>1, <1>2, FS_Subset
<1>4. Cardinality(A) \in Nat /\ Cardinality(B) \in Nat
  BY <1>2, <1>3, FS_CardinalityType
<1>5. Cardinality(A \ B) = Cardinality(A) - Cardinality(A \cap B)
  BY <1>2, FS_Difference
<1>6. A \cap B = B
  BY <1>1
<1>7. InEdges(n, S \ {m}) = A \ B
  BY DEF InEdges
<1> QED BY <1>3, <1>4, <1>5, <1>6, <1>7

LEMMA NoEdgesLeft ==
  ASSUME NEW S \in SUBSET Node, NEW n \in Node
  PROVE  Cardinality(InEdges(n, S)) = 0 <=> InEdges(n, S) = {}
<1>1. IsFiniteSet(InEdges(n, S))
  BY DagAssumption, FS_Subset DEF DagAssumption, InEdges
<1> QED BY <1>1, FS_EmptySet

------------------------------------------------------------------------------
(* Composition *)

IndexTyped == nextTask \in Nat \ {0}

\* Whatever the run loop does is a step of the scheduler or leaves it alone.
LEMMA RunStepSchedules ==
  ASSUME IndexTyped, [RunNext]_runVars
  PROVE  IndexTyped' /\ [Next]_vars
<1>1. CASE SubmitPlainTask
  <2> DEFINE R == [id : Task, arrival : ArrivalTimes]
  <2>1. PlainTasks \in Seq(R)
    BY DagAssumption DEF DagAssumption
  <2>2. nextTask \in 1..Len(PlainTasks)
    BY <1>1, <2>1 DEF SubmitPlainTask, IndexTyped
  <2>3. PlainTasks[nextTask].id \in Task
    <3>1. PlainTasks[nextTask] \in R
      <4> HIDE DEF R
      <4> QED BY <2>1, <2>2
    <3> QED BY <3>1
  <2>4. Submit(PlainTasks[nextTask].id) \/ UNCHANGED vars
    BY <1>1 DEF SubmitPlainTask, SubmitAt
  <2> QED BY <1>1, <2>3, <2>4 DEF SubmitPlainTask, IndexTyped, Next
<1>2. CASE SubmitInitial
  BY <1>2 DEF SubmitInitial, IndexTyped
<1>3. CASE \E n \in Node : Register(n)
  <2>1. PICK n \in Node : Register(n)
    BY <1>3
  <2>2. Submit(NodeId(n)) \/ UNCHANGED vars
    BY <2>1 DEF Register, SubmitAt
  <2> QED BY <2>1, <2>2, NodeTyped DEF Register, IndexTyped, Next
<1>4. CASE Step
  BY <1>4 DEF Step, IndexTyped, Next, StepOnce
<1>5. CASE Drain
  BY <1>5 DEF Drain, dagVars, IndexTyped, Next, StepOnce
<1>6. CASE HandleTaskCompletion
  BY <1>6 DEF HandleTaskCompletion, IndexTyped
<1>7. CASE UNCHANGED runVars
  BY <1>7 DEF runVars, dagVars, IndexTyped
<1> QED BY <1>1, <1>2, <1>3, <1>4, <1>5, <1>6, <1>7 DEF RunNext

\* A run of a workload is a run of the scheduler.
THEOREM RunImplementsScheduler == RunSpec => Spec
<1>1. RunInit => IndexTyped /\ Init
  BY DEF RunInit, IndexTyped
<1>2. IndexTyped /\ [RunNext]_runVars => IndexTyped' /\ [Next]_vars
  BY RunStepSchedules
<1> QED BY <1>1, <1>2, PTL DEF RunSpec, Spec

\* In particular its inductive invariant holds in every state of a run.
LEMMA RunKeepsIInv == RunSpec => []IInv
BY RunImplementsScheduler, Invariance, PTL
------------------------------------------------------------------------------
(* The invariant of the controller *)

\* What holds until an exception ends the run
Controlled == ControllerConsistent /\ SubmittedApart /\ CompletionsPassedOn

LEMMA InitRunIInv == RunInit => RunIInv
<1> SUFFICES ASSUME RunInit PROVE RunIInv
  OBVIOUS
<1> USE DEF RunInit
<1>1. \A n \in Node : Cardinality(InEdges(n, Node)) \in Nat
  <2> TAKE n \in Node
  <2>1. IsFiniteSet(InEdges(n, Node))
    BY DagAssumption, FS_Subset DEF DagAssumption, InEdges
  <2> QED BY <2>1, FS_CardinalityType
<1>2. PlainTasks \in Seq([id : Task, arrival : ArrivalTimes])
      /\ Len(Dags) \in Nat /\ None \notin DOMAIN Dags
  <2> DEFINE R == [id : Task, arrival : ArrivalTimes]
  <2> DEFINE Q == [base : Nat, arrival : ArrivalTimes,
                   successors : Seq(Seq(Nat)), entries : Seq(Nat)]
  <2>1. PlainTasks \in Seq(R) /\ Dags \in Seq(Q) /\ None \notin DOMAIN Dags
    BY DagAssumption DEF DagAssumption
  <2>2. Len(Dags) \in Nat
    <3> HIDE DEF Q
    <3> QED BY <2>1
  <2> QED BY <2>1, <2>2
<1>3. Len(PlainTasks) \in Nat
  <2> DEFINE R == [id : Task, arrival : ArrivalTimes]
  <2>1. PlainTasks \in Seq(R)
    BY <1>2
  <2> HIDE DEF R
  <2> QED BY <2>1
<1>4. RunTypeOK
  <2>1. nodeArrival \in [Node -> Nat]
    BY NodeTyped
  <2>2. remaining \in [Node -> Nat]
    BY <1>1
  <2>3. nextTask \in 1..Len(PlainTasks) + 1 /\ nextDag \in 1..Len(Dags) + 1
    BY <1>2, <1>3
  <2> QED BY <2>1, <2>2, <2>3 DEF RunTypeOK
<1>5. CountersExact
  <2>1. Node \ completed = Node
    OBVIOUS
  <2> QED BY <2>1 DEF CountersExact
<1>6. ReleasedWhenDue
  <2>1. \A n \in Node : ~(n[1] < nextDag)
    BY NodeTyped
  <2> QED BY <2>1 DEF ReleasedWhenDue
<1>7. NodesInOrder
  BY DEF NodesInOrder
<1>8. \A n \in Node : ~IsRegistered(n)
  BY DEF IsRegistered
<1>9. ControllerConsistent
  BY <1>2, <1>8 DEF ControllerConsistent
<1>10. SubmittedApart
  <2>1. tasks = {}
    BY DEF Init
  <2>2. PlainIds = {} /\ NodeIds = {}
    BY <1>8 DEF PlainIds, NodeIds
  <2> QED BY <2>1, <2>2, <1>8 DEF SubmittedApart
<1>11. CompletionsPassedOn
  BY <1>8 DEF CompletionsPassedOn
<1> QED BY <1>4, <1>5, <1>6, <1>7, <1>9, <1>10, <1>11 DEF RunIInv

\* An event's handler submits nothing, and moves a task on to its next stage if
\* it is a Complete event.
LEMMA HandlerEffect ==
  ASSUME IInv, NEW e \in eventQueue, HandleEvent(e)
  PROVE  /\ UNCHANGED tasks
         /\ e.id \in Task /\ e.id \in tasks
         /\ stageIndex[e.id] \in Nat \ {0}
         /\ e.type # "complete" => UNCHANGED stageIndex
         /\ e.type = "complete" => stageIndex' = [stageIndex EXCEPT ![e.id] = @ + 1]
<1>1. e.id \in Task /\ e.id \in tasks
  BY EventOwner
<1>2. stageIndex[e.id] \in Nat \ {0}
  BY <1>1 DEF IInv, TypeOK
<1>3. /\ UNCHANGED tasks
      /\ e.type # "complete" => UNCHANGED stageIndex
      /\ e.type = "complete" => stageIndex' = [stageIndex EXCEPT ![e.id] = @ + 1]
  BY DEF HandleEvent, HandleTaskArrival, HandleTaskReady, TakeReady, HandleTaskStart,
         HandleTaskComplete, Pop
<1> QED BY <1>1, <1>2, <1>3

\* A node's task has one stage: it is finished once it left the first.
LEMMA NodeFinished ==
  ASSUME NEW n \in Node
  PROVE  /\ Finished(NodeId(n)) <=> stageIndex[NodeId(n)] > 1
         /\ Finished(NodeId(n))' <=> stageIndex'[NodeId(n)] > 1
BY NodeTyped DEF Finished

\* submit_task does not touch the stages, and adds the task unless it throws.
LEMMA SubmitAtEffect ==
  ASSUME NEW t \in Task, NEW arrival, SubmitAt(t, arrival), ~aborted
  PROVE  /\ UNCHANGED stageIndex
         /\ ~aborted' => t \notin tasks /\ tasks' = tasks \cup {t}
         /\ aborted' => t \in tasks /\ UNCHANGED tasks
         /\ aborted' \in BOOLEAN
<1>1. CASE t \notin tasks /\ Submit(t) /\ UNCHANGED aborted
  <2>1. UNCHANGED stageIndex /\ tasks' = tasks \cup {t}
    BY <1>1 DEF Submit
  <2>2. ~aborted'
    BY <1>1
  <2>3. aborted' = FALSE
    BY <2>2, <1>1
  <2> QED BY <1>1, <2>1, <2>2, <2>3
<1>2. CASE t \in tasks /\ aborted' = TRUE /\ UNCHANGED vars
  <2>1. UNCHANGED <<stageIndex, tasks>>
    BY <1>2 DEF vars
  <2> QED BY <1>2, <2>1
<1> QED BY <1>1, <1>2 DEF SubmitAt

LEMMA SubmitPlainRunIInv ==
  ASSUME IInv, RunIInv, SubmitPlainTask
  PROVE  RunIInv'
<1> USE DEF RunIInv
<1> DEFINE t == PlainTasks[nextTask].id
<1>1. /\ ~aborted /\ nextTask <= Len(PlainTasks) /\ nextTask' = nextTask + 1
      /\ SubmitAt(t, PlainTasks[nextTask].arrival)
      /\ UNCHANGED <<nextDag, registering, nodeArrival, remaining, released,
                     completed, runtimeOf, lastCompleted>>
  BY DEF SubmitPlainTask, nodeVars
<1>2. /\ Len(PlainTasks) \in Nat /\ nextTask \in 1..Len(PlainTasks) /\ t \in Task
  <2> DEFINE R == [id : Task, arrival : ArrivalTimes]
  <2>1. PlainTasks \in Seq(R)
    BY DagAssumption DEF DagAssumption
  <2>2. Len(PlainTasks) \in Nat
    <3> HIDE DEF R
    <3> QED BY <2>1
  <2>3. nextTask \in 1..Len(PlainTasks)
    BY <1>1, <2>2 DEF RunTypeOK
  <2>4. PlainTasks[nextTask] \in R
    <3> HIDE DEF R
    <3> QED BY <2>1, <2>3
  <2> QED BY <2>2, <2>3, <2>4
<1>3. /\ UNCHANGED stageIndex
      /\ ~aborted' => t \notin tasks /\ tasks' = tasks \cup {t}
      /\ aborted' \in BOOLEAN
  BY <1>1, <1>2, SubmitAtEffect DEF RunTypeOK
<1>4. released = {} /\ \A n \in Node : ~IsRegistered(n)
  BY <1>1, <1>2 DEF NodesInOrder, IsRegistered
<1>5. RunTypeOK'
  BY <1>1, <1>2, <1>3 DEF RunTypeOK
<1>6. CountersExact' /\ ReleasedWhenDue'
  BY <1>1 DEF CountersExact, ReleasedWhenDue
<1>7. NodesInOrder'
  BY <1>1, <1>3, <1>4 DEF NodesInOrder
<1>8. ASSUME ~aborted'
      PROVE  Controlled'
  <2>1. \A n \in Node : ~IsRegistered(n)'
    BY <1>1, <1>4 DEF IsRegistered
  <2>2. ControllerConsistent'
    BY <1>1, <1>4, <2>1 DEF ControllerConsistent
  <2>3. NodeIds = {} /\ NodeIds' = {}
    BY <1>4, <2>1 DEF NodeIds
  <2>4. PlainIds' = PlainIds \cup {t}
    <3>1. 1..nextTask' - 1 = (1..nextTask - 1) \cup {nextTask}
      BY <1>1, <1>2
    <3> QED BY <3>1 DEF PlainIds
  <2>5. tasks = PlainIds
    BY <1>1, <2>3 DEF SubmittedApart
  <2>6. \A i, j \in 1..nextTask' - 1 : PlainTasks[i].id = PlainTasks[j].id => i = j
    <3>1. \A i \in 1..nextTask' - 1 : i \in 1..nextTask - 1 \/ i = nextTask
      BY <1>1, <1>2
    <3>2. \A i \in 1..nextTask - 1 : PlainTasks[i].id # t
      BY <1>8, <1>3, <2>5 DEF PlainIds
    <3> QED BY <3>1, <3>2, <1>1 DEF SubmittedApart
  <2>7. SubmittedApart'
    BY <1>3, <1>8, <2>1, <2>3, <2>4, <2>5, <2>6 DEF SubmittedApart
  <2>8. CompletionsPassedOn'
    BY <2>1 DEF CompletionsPassedOn
  <2> QED BY <2>2, <2>7, <2>8 DEF Controlled
<1> QED BY <1>5, <1>6, <1>7, <1>8 DEF Controlled

LEMMA SubmitInitialRunIInv ==
  ASSUME IInv, RunIInv, SubmitInitial
  PROVE  RunIInv'
<1> USE DEF RunIInv
<1> DEFINE I == InitialTasks(nextDag)
<1>1. /\ ~aborted /\ nextTask > Len(PlainTasks) /\ registering = {}
      /\ nextDag <= Len(Dags) /\ nextDag' = nextDag + 1
      /\ registering' = I /\ released' = released \cup I
      /\ UNCHANGED <<tasks, stageIndex, nextTask, nodeArrival, remaining,
                     completed, runtimeOf, lastCompleted, aborted>>
  BY DEF SubmitInitial, vars
<1>2. I \subseteq Node /\ I \cap released = {} /\ \A n \in I : n[1] = nextDag
  BY DEF InitialTasks
<1>3. Len(Dags) \in Nat /\ nextDag \in 1..Len(Dags)
  <2> DEFINE Q == [base : Nat, arrival : ArrivalTimes,
                   successors : Seq(Seq(Nat)), entries : Seq(Nat)]
  <2>1. Dags \in Seq(Q)
    BY DagAssumption DEF DagAssumption
  <2>2. Len(Dags) \in Nat
    <3> HIDE DEF Q
    <3> QED BY <2>1
  <2> QED BY <2>2, <1>1 DEF RunTypeOK
<1>4. RunTypeOK'
  BY <1>1, <1>2, <1>3 DEF RunTypeOK
<1>5. CountersExact'
  BY <1>1 DEF CountersExact
<1>6. ReleasedWhenDue'
  <2>1. \A n \in Node : n[1] \in Nat
    BY NodeTyped
  <2>2. ASSUME NEW n \in Node, n[1] = nextDag, remaining[n] = 0
        PROVE  n \in I
    <3>1. n \notin released
      BY <2>2, <1>3 DEF ReleasedWhenDue
    <3>2. \A m \in completed : m[1] < nextDag
      BY DEF ReleasedWhenDue, NodesInOrder, RunTypeOK
    <3>3. InEdges(n, Node \ completed) = {}
      BY <2>2, NoEdgesLeft DEF CountersExact
    <3>4. ASSUME NEW e \in Edge, Target(e) = n
          PROVE  FALSE
      <4>1. e[1] \in Node /\ e[1][1] = nextDag
        BY <2>2, <3>4, EdgesTyped
      <4>2. e[1] \notin completed
        BY <4>1, <3>2, <1>3
      <4> QED BY <4>1, <4>2, <3>3, <3>4 DEF InEdges
    <3>5. IsEntry(n)
      BY <3>4, DagAssumption DEF DagAssumption, ValidDags, InEdges
    <3> QED BY <2>2, <3>1, <3>5 DEF InitialTasks
  <2>3. \A n \in I : remaining[n] = 0 /\ n[1] = nextDag
    BY DEF InitialTasks
  <2>4. ASSUME NEW n \in Node
        PROVE  n \in released' <=> remaining'[n] = 0 /\ n[1] < nextDag'
    <3>1. n[1] < nextDag' <=> n[1] < nextDag \/ n[1] = nextDag
      BY <2>1, <1>1, <1>3
    <3>2. n \in released <=> remaining[n] = 0 /\ n[1] < nextDag
      BY DEF ReleasedWhenDue
    <3> QED BY <3>1, <3>2, <2>2, <2>3, <1>1
  <2> QED BY <2>4 DEF ReleasedWhenDue
<1>7. lastCompleted = None /\ completed \subseteq released
  BY <1>1, <1>3 DEF NodesInOrder
<1>8. \A n \in Node : IsRegistered(n)' <=> IsRegistered(n)
  BY <1>1, <1>2 DEF IsRegistered
<1>9. NodesInOrder'
  BY <1>1, <1>2, <1>7 DEF NodesInOrder
<1>10. ASSUME ~aborted'
       PROVE  Controlled'
  <2>1. PlainIds' = PlainIds /\ NodeIds' = NodeIds
    BY <1>1, <1>8 DEF PlainIds, NodeIds
  <2>2. ControllerConsistent'
    BY <1>1, <1>8 DEF ControllerConsistent
  <2>3. SubmittedApart'
    BY <1>1, <1>8, <2>1 DEF SubmittedApart
  <2>4. CompletionsPassedOn'
    BY <1>1, <1>8 DEF CompletionsPassedOn, Finished
  <2> QED BY <2>2, <2>3, <2>4 DEF Controlled
<1> QED BY <1>4, <1>5, <1>6, <1>9, <1>10 DEF Controlled

\* A node of an exception-free run comes to the scheduler under an id that it
\* does not know, and starts out at its first stage.
LEMMA RegisterRunIInv ==
  ASSUME IInv, RunIInv, NEW n \in Node, Register(n)
  PROVE  RunIInv'
<1> USE DEF RunIInv
<1> DEFINE t == NodeId(n)
<1>1. /\ ~aborted /\ n \in registering
      /\ UNCHANGED <<nextTask, nextDag, nodeArrival, remaining, released,
                     completed, lastCompleted>>
  BY DEF Register, nodeVars
<1>2. t \in Task /\ n[1] \in DOMAIN Dags /\ Len(Stages[t]) = 1
  BY NodeTyped
<1>3. CASE /\ runtimeOf[t] # None /\ aborted' = TRUE
           /\ UNCHANGED <<vars, runtimeOf, registering>>
  <2>1. UNCHANGED stageIndex
    BY <1>3 DEF vars
  <2>2. RunTypeOK'
    BY <1>1, <1>3 DEF RunTypeOK
  <2>3. CountersExact' /\ ReleasedWhenDue'
    BY <1>1 DEF CountersExact, ReleasedWhenDue
  <2>4. NodesInOrder'
    BY <1>1, <1>3, <2>1 DEF NodesInOrder
  <2> QED BY <1>3, <2>2, <2>3, <2>4
<1>4. CASE /\ runtimeOf[t] = None /\ runtimeOf' = Registered(n)
           /\ SubmitAt(t, nodeArrival[n])
           /\ registering' = IF aborted' THEN registering ELSE registering \ {n}
  <2>1. /\ UNCHANGED stageIndex
        /\ ~aborted' => t \notin tasks /\ tasks' = tasks \cup {t}
        /\ aborted' \in BOOLEAN
    BY <1>1, <1>2, <1>4, SubmitAtEffect
  <2>2. runtimeOf' = [runtimeOf EXCEPT ![t] = n[1]]
    BY <1>4 DEF Registered
  <2>3. registering' \subseteq registering
    BY <1>4
  <2>4. RunTypeOK'
    BY <1>1, <1>2, <2>1, <2>2, <2>3 DEF RunTypeOK
  <2>5. CountersExact' /\ ReleasedWhenDue'
    BY <1>1 DEF CountersExact, ReleasedWhenDue
  <2>6. lastCompleted = None
    BY <1>1 DEF NodesInOrder
  <2>7. NodesInOrder'
    BY <1>1, <2>3, <2>6 DEF NodesInOrder
  <2>8. ASSUME ~aborted'
        PROVE  Controlled'
    <3>1. t \notin tasks /\ tasks' = tasks \cup {t} /\ registering' = registering \ {n}
      BY <2>1, <2>8, <1>4
    <3>2. tasks = PlainIds \cup NodeIds /\ PlainIds \cap NodeIds = {}
      BY <1>1 DEF SubmittedApart
    <3>3. n \in released /\ n \notin completed
      BY <1>1 DEF NodesInOrder
    <3>4. IsRegistered(n)' /\ ~IsRegistered(n)
      BY <1>1, <3>1, <3>3 DEF IsRegistered
    <3>5. \A m \in Node \ {n} : IsRegistered(m)' <=> IsRegistered(m)
      BY <1>1, <3>1 DEF IsRegistered
    <3>6. \A m \in Node : IsRegistered(m) => NodeId(m) # t
      BY <3>1, <3>2 DEF NodeIds
    <3>7. ControllerConsistent'
      <4> SUFFICES ASSUME NEW u \in Task, NEW d \in DOMAIN Dags
                   PROVE  runtimeOf'[u] = d <=>
                            \E m \in Node : /\ m[1] = d /\ NodeId(m) = u
                                            /\ IsRegistered(m)' /\ m \notin completed'
        BY DEF ControllerConsistent
      <4>1. runtimeOf[u] = d <=>
              \E m \in Node : /\ m[1] = d /\ NodeId(m) = u
                              /\ IsRegistered(m) /\ m \notin completed
        BY <1>1 DEF ControllerConsistent
      <4>2. CASE u = t
        <5>1. runtimeOf'[u] = n[1]
          BY <4>2, <1>2, <2>2 DEF RunTypeOK
        <5>2. \A m \in Node : IsRegistered(m)' /\ NodeId(m) = u => m = n
          BY <4>2, <3>5, <3>6
        <5> QED BY <5>1, <5>2, <4>2, <3>4, <3>3, <1>1
      <4>3. CASE u # t
        <5>1. runtimeOf'[u] = runtimeOf[u]
          BY <4>3, <1>2, <2>2 DEF RunTypeOK
        <5>2. \A m \in Node : NodeId(m) = u => (IsRegistered(m)' <=> IsRegistered(m))
          BY <4>3, <3>5
        <5> QED BY <5>1, <5>2, <4>1, <1>1
      <4> QED BY <4>2, <4>3
    <3>8. SubmittedApart'
      <4>1. PlainIds' = PlainIds
        BY <1>1 DEF PlainIds
      <4>2. NodeIds' = NodeIds \cup {t}
        BY <3>4, <3>5 DEF NodeIds
      <4>3. \A m, k \in Node :
              IsRegistered(m)' /\ IsRegistered(k)' /\ NodeId(m) = NodeId(k) => m = k
        BY <1>1, <3>5, <3>6 DEF SubmittedApart
      <4>4. \A i, j \in 1..nextTask' - 1 : PlainTasks[i].id = PlainTasks[j].id => i = j
        BY <1>1 DEF SubmittedApart
      <4>5. tasks' = PlainIds' \cup NodeIds' /\ PlainIds' \cap NodeIds' = {}
        BY <3>1, <3>2, <4>1, <4>2
      <4> QED BY <4>3, <4>4, <4>5 DEF SubmittedApart
    <3>9. CompletionsPassedOn'
      <4>1. stageIndex[t] = 1
        BY <1>2, <3>1 DEF IInv, StagesInOrder
      <4>2. ~Finished(t)'
        BY <4>1, <1>2, <2>1 DEF Finished
      <4>3. \A m \in Node : Finished(NodeId(m))' <=> Finished(NodeId(m))
        BY <2>1 DEF Finished
      <4>4. ASSUME NEW m \in Node \ {n}, IsRegistered(m)'
            PROVE  m \in completed' <=> Finished(NodeId(m))' /\ lastCompleted' # NodeId(m)
        BY <4>4, <4>3, <3>5, <1>1 DEF CompletionsPassedOn
      <4>5. n \in completed' <=> Finished(t)' /\ lastCompleted' # t
        BY <4>2, <3>3, <1>1
      <4> QED BY <4>4, <4>5 DEF CompletionsPassedOn
    <3> QED BY <3>7, <3>8, <3>9 DEF Controlled
  <2> QED BY <2>4, <2>5, <2>7, <2>8 DEF Controlled
<1> QED BY <1>3, <1>4 DEF Register

\* A step of the scheduler leaves the nodes alone; the completion it may bring is
\* kept to be passed on, so that its node is not completed yet.
LEMMA StepRunIInv ==
  ASSUME IInv, RunIInv, Step
  PROVE  RunIInv'
<1> USE DEF RunIInv
<1>1. /\ ~aborted /\ nextTask > Len(PlainTasks) /\ nextDag > Len(Dags)
      /\ registering = {} /\ lastCompleted = None
      /\ UNCHANGED <<nextTask, nextDag, registering, nodeArrival, remaining,
                     released, completed, runtimeOf, aborted>>
  BY DEF Step, nodeVars
<1>2. PICK e \in eventQueue :
        /\ HandleEvent(e)
        /\ lastCompleted' = IF e.type = "complete" THEN e.id ELSE None
  BY DEF Step
<1>3. /\ UNCHANGED tasks
      /\ e.id \in Task /\ e.id \in tasks
      /\ stageIndex[e.id] \in Nat \ {0}
      /\ e.type # "complete" => UNCHANGED stageIndex
      /\ e.type = "complete" => stageIndex' = [stageIndex EXCEPT ![e.id] = @ + 1]
  BY <1>2, HandlerEffect
<1>4. ~Finished(e.id) /\ None \notin Task
  BY EventOwner, DagAssumption DEF DagAssumption
<1>5. stageIndex \in [Task -> Nat \ {0}]
  BY DEF IInv, TypeOK
<1>6. RunTypeOK'
  BY <1>1, <1>2, <1>3 DEF RunTypeOK
<1>7. CountersExact' /\ ReleasedWhenDue'
  BY <1>1 DEF CountersExact, ReleasedWhenDue
<1>8. NodesInOrder'
  <2>1. lastCompleted' # None => stageIndex'[lastCompleted'] > 1
    BY <1>2, <1>3, <1>5
  <2> QED BY <2>1, <1>1 DEF NodesInOrder
<1>9. \A n \in Node : IsRegistered(n)' <=> IsRegistered(n)
  BY <1>1 DEF IsRegistered
<1>10. ControllerConsistent'
  BY <1>1, <1>9 DEF ControllerConsistent
<1>11. SubmittedApart'
  <2>1. PlainIds' = PlainIds /\ NodeIds' = NodeIds
    BY <1>1, <1>9 DEF PlainIds, NodeIds
  <2> QED BY <1>1, <1>3, <1>9, <2>1 DEF SubmittedApart
<1>12. CompletionsPassedOn'
  <2> SUFFICES ASSUME NEW n \in Node, IsRegistered(n)
               PROVE  n \in completed <=>
                        Finished(NodeId(n))' /\ lastCompleted' # NodeId(n)
    BY <1>1, <1>9 DEF CompletionsPassedOn
  <2>1. NodeId(n) \in Task
    BY NodeTyped
  <2>2. n \in completed <=> Finished(NodeId(n))
    BY <1>1, <1>4, <2>1 DEF CompletionsPassedOn
  <2>3. CASE e.type = "complete" /\ e.id = NodeId(n)
    BY <2>2, <2>3, <1>2, <1>4
  <2>4. CASE ~(e.type = "complete" /\ e.id = NodeId(n))
    <3>1. stageIndex'[NodeId(n)] = stageIndex[NodeId(n)]
      BY <2>1, <2>4, <1>3, <1>5
    <3>2. lastCompleted' # NodeId(n)
      BY <2>1, <2>4, <1>2, <1>4
    <3> QED BY <2>2, <3>1, <3>2 DEF Finished
  <2> QED BY <2>3, <2>4
<1> QED BY <1>6, <1>7, <1>8, <1>10, <1>11, <1>12

\* Nothing that the controller looks at changes.
LEMMA SameRunIInv ==
  ASSUME RunIInv, UNCHANGED <<tasks, stageIndex>>, UNCHANGED dagVars
  PROVE  RunIInv'
<1> USE DEF RunIInv
<1>1. UNCHANGED <<nextTask, nextDag, registering, nodeArrival, remaining,
                  released, completed, runtimeOf, lastCompleted, aborted>>
  BY DEF dagVars, nodeVars
<1>2. RunTypeOK'
  BY <1>1 DEF RunTypeOK
<1>3. CountersExact' /\ ReleasedWhenDue'
  BY <1>1 DEF CountersExact, ReleasedWhenDue
<1>4. NodesInOrder'
  BY <1>1 DEF NodesInOrder
<1>5. \A n \in Node : IsRegistered(n)' <=> IsRegistered(n)
  BY <1>1 DEF IsRegistered
<1>6. PlainIds' = PlainIds /\ NodeIds' = NodeIds
  BY <1>1, <1>5 DEF PlainIds, NodeIds
<1>7. ~aborted' => ControllerConsistent'
  BY <1>1, <1>5 DEF ControllerConsistent
<1>8. ~aborted' => SubmittedApart'
  BY <1>1, <1>5, <1>6 DEF SubmittedApart
<1>9. ~aborted' => CompletionsPassedOn'
  BY <1>1, <1>5 DEF CompletionsPassedOn, Finished
<1> QED BY <1>2, <1>3, <1>4, <1>7, <1>8, <1>9

\* A completion that is passed on finds the node it belongs to, and what it takes
\* off every counter are the edges from that node.
LEMMA CompletionRunIInv ==
  ASSUME IInv, RunIInv, HandleTaskCompletion
  PROVE  RunIInv'
<1> USE DEF RunIInv
<1> DEFINE t == lastCompleted
           d == runtimeOf[t]
           m == <<d, t - Dags[d].base + 1>>
<1>1. /\ ~aborted /\ t # None /\ lastCompleted' = None
      /\ UNCHANGED <<tasks, stageIndex, nextTask, nextDag, aborted>>
  BY DEF HandleTaskCompletion, vars
<1>2. /\ t \in Task /\ None \notin DOMAIN Dags /\ None \notin Task
      /\ d \in DOMAIN Dags \cup {None}
  BY <1>1, DagAssumption DEF DagAssumption, RunTypeOK
<1>3. registering = {} /\ nextDag > Len(Dags) /\ stageIndex[t] > 1
  BY <1>1 DEF NodesInOrder
<1>4. PlainIds' = PlainIds
  BY <1>1 DEF PlainIds
<1>5. \A x \in Node : Finished(NodeId(x))' <=> Finished(NodeId(x))
  BY <1>1 DEF Finished
<1>6. CASE d = None /\ UNCHANGED <<registering, nodeVars, runtimeOf>>
  <2>1. UNCHANGED <<registering, nodeArrival, remaining, released, completed,
                    runtimeOf>>
    BY <1>6 DEF nodeVars
  <2>2. RunTypeOK'
    BY <1>1, <2>1 DEF RunTypeOK
  <2>3. CountersExact' /\ ReleasedWhenDue'
    BY <1>1, <2>1 DEF CountersExact, ReleasedWhenDue
  <2>4. NodesInOrder'
    BY <1>1, <2>1 DEF NodesInOrder
  <2>5. \A x \in Node : IsRegistered(x)' <=> IsRegistered(x)
    BY <2>1 DEF IsRegistered
  <2>6. ControllerConsistent'
    BY <1>1, <2>1, <2>5 DEF ControllerConsistent
  <2>7. NodeIds' = NodeIds
    BY <2>5 DEF NodeIds
  <2>8. SubmittedApart'
    BY <1>1, <1>4, <2>5, <2>7 DEF SubmittedApart
  <2>9. CompletionsPassedOn'
    <3> SUFFICES ASSUME NEW x \in Node, IsRegistered(x)
                 PROVE  x \in completed <=> Finished(NodeId(x)) /\ None # NodeId(x)
      BY <1>1, <1>5, <2>1, <2>5 DEF CompletionsPassedOn
    <3>1. NodeId(x) \in Task /\ x[1] \in DOMAIN Dags /\ Len(Stages[NodeId(x)]) = 1
      BY NodeTyped
    <3>2. x \in completed <=> Finished(NodeId(x)) /\ t # NodeId(x)
      BY <1>1 DEF CompletionsPassedOn
    <3>3. x \notin completed => runtimeOf[NodeId(x)] = x[1]
      BY <1>1, <3>1 DEF ControllerConsistent
    <3>4. NodeId(x) # t
      BY <3>1, <3>2, <3>3, <1>2, <1>6
    <3> QED BY <3>1, <3>2, <3>4, <1>2
  <2> QED BY <2>2, <2>3, <2>4, <2>6, <2>8, <2>9
<1>7. CASE /\ d # None
           /\ runtimeOf' = [runtimeOf EXCEPT ![t] = None]
           /\ completed' = completed \cup {m}
           /\ remaining' = Decremented(m)
           /\ released' = released \cup Ready(m)
           /\ registering' = Ready(m)
           /\ nodeArrival' = ReleaseTimes(m)
  <2>1. PICK n \in Node : /\ n[1] = d /\ NodeId(n) = t
                          /\ IsRegistered(n) /\ n \notin completed
    BY <1>1, <1>2, <1>7 DEF ControllerConsistent
  <2>2. m = n /\ Len(Stages[t]) = 1
    BY <2>1, NodeTyped
  <2>3. /\ completed' = completed \cup {n} /\ remaining' = Decremented(n)
        /\ released' = released \cup Ready(n) /\ registering' = Ready(n)
        /\ nodeArrival' = ReleaseTimes(n)
    BY <1>7, <2>2
  <2>4. Ready(n) \subseteq Node /\ Ready(n) \cap released = {}
    BY DEF Ready
  <2>5. n \in released /\ completed \subseteq released
    BY <2>1 DEF IsRegistered, NodesInOrder
  <2>6. ASSUME NEW x \in Node
        PROVE  /\ remaining[x] \in Nat /\ remaining'[x] \in Nat
               /\ remaining'[x] = Cardinality(InEdges(x, Node \ completed'))
               /\ remaining'[x] <= remaining[x]
    <3>1. Node \ completed' = (Node \ completed) \ {n} /\ n \in Node \ completed
      BY <2>1, <2>3
    <3>2. remaining[x] = Cardinality(InEdges(x, Node \ completed))
      BY DEF CountersExact
    <3>3. /\ Cardinality(InEdges(x, Node \ completed)) \in Nat
          /\ Cardinality(InEdges(x, {n})) \in Nat
          /\ Cardinality(InEdges(x, {n})) <= Cardinality(InEdges(x, Node \ completed))
          /\ Cardinality(InEdges(x, (Node \ completed) \ {n})) =
               Cardinality(InEdges(x, Node \ completed)) - Cardinality(InEdges(x, {n}))
      BY <3>1, EdgesRemoved
    <3>4. x \in completed => remaining[x] = 0
      BY <2>5 DEF ReleasedWhenDue
    <3>5. remaining'[x] =
            IF x \in completed THEN remaining[x]
            ELSE IF remaining[x] < Cardinality(InEdges(x, {n})) THEN 0
            ELSE remaining[x] - Cardinality(InEdges(x, {n}))
      BY <2>3 DEF Decremented
    <3> DEFINE c == Cardinality(InEdges(x, Node \ completed))
               k == Cardinality(InEdges(x, {n}))
    <3>6. Cardinality(InEdges(x, Node \ completed')) = c - k
      BY <3>1, <3>3
    <3>7. c \in Nat /\ k \in Nat /\ k <= c /\ remaining[x] = c
      BY <3>2, <3>3
    <3>8. remaining'[x] = IF x \in completed THEN c ELSE IF c < k THEN 0 ELSE c - k
      BY <3>5, <3>7
    <3>9. x \in completed => c = 0
      BY <3>4, <3>7
    <3> HIDE DEF c, k
    <3>10. remaining'[x] = c - k
      BY <3>7, <3>8, <3>9
    <3> QED BY <3>6, <3>7, <3>10
  <2>7. RunTypeOK'
    <3>1. remaining' \in [Node -> Nat]
      <4>1. remaining' = [x \in Node |-> remaining'[x]]
        BY <2>3 DEF Decremented
      <4> QED BY <4>1, <2>6
    <3>2. currentTime \in Nat
      BY DEF IInv, TypeOK
    <3>3. nodeArrival' \in [Node -> Nat]
      BY <2>3, <3>2 DEF ReleaseTimes, RunTypeOK
    <3>4. runtimeOf' \in [Task -> DOMAIN Dags \cup {None}]
      BY <1>7 DEF RunTypeOK
    <3> QED BY <1>1, <2>1, <2>3, <2>4, <3>1, <3>3, <3>4 DEF RunTypeOK
  <2>8. CountersExact'
    BY <2>6 DEF CountersExact
  <2>9. ReleasedWhenDue'
    <3> SUFFICES ASSUME NEW x \in Node
                 PROVE  x \in released' <=> remaining'[x] = 0 /\ x[1] < nextDag'
      BY DEF ReleasedWhenDue
    <3>1. x[1] < nextDag /\ nextDag' = nextDag
      <4>1. Len(Dags) \in Nat
        <5> DEFINE Q == [base : Nat, arrival : ArrivalTimes,
                         successors : Seq(Seq(Nat)), entries : Seq(Nat)]
        <5>1. Dags \in Seq(Q)
          BY DagAssumption DEF DagAssumption
        <5> HIDE DEF Q
        <5> QED BY <5>1
      <4>2. nextDag \in 1..Len(Dags) + 1 /\ x[1] \in 1..Len(Dags)
        BY NodeTyped DEF RunTypeOK
      <4> QED BY <4>1, <4>2, <1>1, <1>3
    <3>2. x \in released <=> remaining[x] = 0
      BY <3>1 DEF ReleasedWhenDue
    <3>3. x \in Ready(n) <=> remaining[x] > 0 /\ remaining'[x] = 0 /\ x \notin released
      BY <2>3 DEF Ready
    <3> QED BY <2>3, <2>6, <3>1, <3>2, <3>3
  <2>10. NodesInOrder'
    BY <1>1, <2>1, <2>3, <2>4, <2>5 DEF NodesInOrder
  <2>11. \A x \in Node : IsRegistered(x)' <=> IsRegistered(x)
    BY <1>3, <2>3, <2>4 DEF IsRegistered
  <2>12. \A x \in Node : IsRegistered(x) /\ NodeId(x) = t => x = n
    BY <1>1, <2>1 DEF SubmittedApart
  <2>13. ControllerConsistent'
    <3> SUFFICES ASSUME NEW u \in Task, NEW c \in DOMAIN Dags
                 PROVE  runtimeOf'[u] = c <=>
                          \E x \in Node : /\ x[1] = c /\ NodeId(x) = u
                                          /\ IsRegistered(x) /\ x \notin completed'
      BY <2>11 DEF ControllerConsistent
    <3>1. runtimeOf[u] = c <=>
            \E x \in Node : /\ x[1] = c /\ NodeId(x) = u
                            /\ IsRegistered(x) /\ x \notin completed
      BY <1>1 DEF ControllerConsistent
    <3>2. CASE u = t
      <4>1. runtimeOf'[u] = None
        BY <3>2, <1>7, <1>2 DEF RunTypeOK
      <4> QED BY <4>1, <3>2, <1>2, <2>3, <2>12
    <3>3. CASE u # t
      <4>1. runtimeOf'[u] = runtimeOf[u]
        BY <3>3, <1>7, <1>2 DEF RunTypeOK
      <4>2. \A x \in Node : NodeId(x) = u => (x \in completed' <=> x \in completed)
        BY <3>3, <2>1, <2>3
      <4> QED BY <4>1, <4>2, <3>1
    <3> QED BY <3>2, <3>3
  <2>14. SubmittedApart'
    <3>1. NodeIds' = NodeIds
      BY <2>11 DEF NodeIds
    <3> QED BY <1>1, <1>4, <2>11, <3>1 DEF SubmittedApart
  <2>15. CompletionsPassedOn'
    <3> SUFFICES ASSUME NEW x \in Node, IsRegistered(x)
                 PROVE  x \in completed' <=> Finished(NodeId(x)) /\ None # NodeId(x)
      BY <1>1, <1>5, <2>11 DEF CompletionsPassedOn
    <3>1. NodeId(x) \in Task
      BY NodeTyped
    <3>2. x \in completed <=> Finished(NodeId(x)) /\ t # NodeId(x)
      BY <1>1 DEF CompletionsPassedOn
    <3>3. Finished(t)
      BY <1>3, <2>2 DEF Finished
    <3> QED BY <3>1, <3>2, <3>3, <1>2, <2>1, <2>3, <2>12
  <2> QED BY <2>7, <2>8, <2>9, <2>10, <2>13, <2>14, <2>15
<1> QED BY <1>6, <1>7 DEF HandleTaskCompletion

LEMMA NextRunIInv == IInv /\ RunIInv /\ [RunNext]_runVars => RunIInv'
<1> SUFFICES ASSUME IInv, RunIInv, [RunNext]_runVars PROVE RunIInv'
  OBVIOUS
<1>1. CASE SubmitPlainTask
  BY <1>1, SubmitPlainRunIInv
<1>2. CASE SubmitInitial
  BY <1>2, SubmitInitialRunIInv
<1>3. CASE \E n \in Node : Register(n)
  BY <1>3, RegisterRunIInv
<1>4. CASE Step
  BY <1>4, StepRunIInv
<1>5. CASE Drain
  <2>1. UNCHANGED <<tasks, stageIndex>> /\ UNCHANGED dagVars
    BY <1>5 DEF Drain, DrainStep, GoOnDraining
  <2> QED BY <2>1, SameRunIInv
<1>6. CASE HandleTaskCompletion
  BY <1>6, CompletionRunIInv
<1>7. CASE UNCHANGED runVars
  <2>1. UNCHANGED <<tasks, stageIndex>> /\ UNCHANGED dagVars
    BY <1>7 DEF runVars, vars
  <2> QED BY <2>1, SameRunIInv
<1> QED BY <1>1, <1>2, <1>3, <1>4, <1>5, <1>6, <1>7 DEF RunNext

\* The inductive invariant of the run holds, next to that of the scheduler.
THEOREM RunInvariance == RunSpec => [](IInv /\ RunIInv)
<1>1. RunInit => RunIInv
  BY InitRunIInv
<1>2. IInv /\ RunIInv /\ [RunNext]_runVars => RunIInv'
  BY NextRunIInv
<1>3. RunSpec => []IInv
  BY RunKeepsIInv
<1> QED BY <1>1, <1>2, <1>3, PTL DEF RunSpec

------------------------------------------------------------------------------
(* What the invariant gives *)

\* Every variable of the run loop and of the controller keeps its type.
THEOREM RunTypeCorrect == RunSpec => []RunTypeOK
<1>1. RunIInv => RunTypeOK
  BY DEF RunIInv
<1> QED BY <1>1, RunInvariance, PTL

\* Whatever the shape of the DAGs, the counters that release_successors counts
\* down are the numbers of edges from predecessors that have not completed.
THEOREM CountersStayExact == RunSpec => []CountersExact
<1>1. RunIInv => CountersExact
  BY DEF RunIInv
<1> QED BY <1>1, RunInvariance, PTL

\* A completion always finds the node it belongs to in task_to_runtime_.
THEOREM CompletionsFindTheirNode == RunSpec => []ControllerConsistent
<1>1. RunIInv => ControllerConsistent
  BY DEF RunIInv, ControllerConsistent
<1> QED BY <1>1, RunInvariance, PTL

\* The lengths of the workload's two lists are numbers.
LEMMA Lengths == Len(Dags) \in Nat /\ Len(PlainTasks) \in Nat
<1> DEFINE R == [id : Task, arrival : ArrivalTimes]
           Q == [base : Nat, arrival : ArrivalTimes,
                 successors : Seq(Seq(Nat)), entries : Seq(Nat)]
<1>1. PlainTasks \in Seq(R) /\ Dags \in Seq(Q)
  BY DagAssumption DEF DagAssumption
<1> HIDE DEF R, Q
<1> QED BY <1>1

\* What has been submitted once every plain task and node was.
LEMMA EverythingSubmitted ==
  ASSUME RunIInv, ~aborted, nextTask > Len(PlainTasks), NEW S \in SUBSET Node,
         \A n \in S : IsRegistered(n)
  PROVE  /\ \A n \in S : NodeId(n) \in tasks
         /\ PlainIds = {p.id : p \in Range(PlainTasks)}
         /\ S = Node => tasks = {p.id : p \in Range(PlainTasks)} \cup
                                 {NodeId(n) : n \in Node}
<1>1. tasks = PlainIds \cup NodeIds
  BY DEF RunIInv, SubmittedApart
<1>2. 1..nextTask - 1 = DOMAIN PlainTasks
  <2>1. nextTask - 1 = Len(PlainTasks)
    BY Lengths DEF RunIInv, RunTypeOK
  <2>2. DOMAIN PlainTasks = 1..Len(PlainTasks)
    <3> DEFINE R == [id : Task, arrival : ArrivalTimes]
    <3>1. PlainTasks \in Seq(R)
      BY DagAssumption DEF DagAssumption
    <3> HIDE DEF R
    <3> QED BY <3>1
  <2> QED BY <2>1, <2>2
<1>3. PlainIds = {p.id : p \in Range(PlainTasks)}
  BY <1>2 DEF PlainIds, Range
<1>4. \A n \in S : NodeId(n) \in NodeIds
  BY DEF NodeIds
<1>5. S = Node => NodeIds = {NodeId(n) : n \in Node}
  BY DEF NodeIds
<1> QED BY <1>1, <1>3, <1>4, <1>5

\* A run that ended without an exception has released every node: the nodes that
\* are not completed would have a first one, which nothing holds back.
LEMMA EveryNodeCompleted ==
  ASSUME IInv, RunIInv, RunEndsClean, Ended, ~aborted
  PROVE  completed = Node /\ \A n \in Node : IsRegistered(n)
<1> USE DEF RunIInv
<1> DEFINE S == Node \ completed
<1>1. S = {}
  <2> SUFFICES ASSUME S # {} PROVE FALSE
    OBVIOUS
  <2>1. PICK n \in S : InEdges(n, S) = {}
    BY DagAssumption DEF DagAssumption, ValidDags
  <2>2. remaining[n] = 0
    BY <2>1, NoEdgesLeft DEF CountersExact
  <2>3. n[1] < nextDag
    <3>1. n[1] \in 1..Len(Dags)
      BY NodeTyped
    <3> QED BY <3>1, Lengths DEF Ended, RunTypeOK
  <2>4. IsRegistered(n)
    BY <2>1, <2>2, <2>3 DEF ReleasedWhenDue, IsRegistered, Ended
  <2>5. NodeId(n) \in tasks /\ NodeId(n) \in Task
    BY <2>1, <2>4, NodeTyped DEF SubmittedApart, NodeIds
  <2>6. Finished(NodeId(n))
    BY <2>5 DEF Ended, RunEndsClean, IInv, CompletedOnce
  <2>7. n \in completed
    BY <2>1, <2>4, <2>5, <2>6, DagAssumption DEF DagAssumption, CompletionsPassedOn, Ended
  <2> QED BY <2>1, <2>7
<1>2. completed = Node
  BY <1>1 DEF RunTypeOK
<1> QED BY <1>2 DEF IsRegistered, NodesInOrder, Ended

\* With limits above 0, a run that ends without an exception has completed every
\* task and every node of every DAG.
THEOREM RunsEndComplete ==
  ASSUME PositiveLimits
  PROVE  RunSpec => []RunEndsComplete
<1>1. ASSUME IInv, RunIInv, RunEndsClean
      PROVE  RunEndsComplete
  <2> SUFFICES ASSUME Ended, ~aborted
               PROVE  /\ completed = Node
                      /\ Range(completedTasks) = {NodeId(n) : n \in Node} \cup
                                                 {p.id : p \in Range(PlainTasks)}
    BY DEF RunEndsComplete
  <2>1. completed = Node /\ \A n \in Node : IsRegistered(n)
    BY <1>1, EveryNodeCompleted
  <2>2. tasks = {p.id : p \in Range(PlainTasks)} \cup {NodeId(n) : n \in Node}
    BY <1>1, <2>1, EverythingSubmitted DEF Ended
  <2>3. tasks = Range(completedTasks)
    BY <1>1 DEF RunEndsClean, Ended
  <2> QED BY <2>1, <2>2, <2>3
<1>2. RunSpec => []RunEndsClean
  BY RunImplementsScheduler, RunsEndClean, PTL
<1> QED BY <1>1, <1>2, RunInvariance, PTL

\* No two nodes or plain tasks with the same id get past a run unnoticed.
THEOREM CollisionsAreDetected ==
  ASSUME PositiveLimits
  PROVE  RunSpec => []CollisionDetected
<1>1. ASSUME IInv, RunIInv, RunEndsClean
      PROVE  CollisionDetected
  <2> SUFFICES ASSUME Ended, ~aborted
               PROVE  ~IdsCollide
    BY DEF CollisionDetected
  <2>1. \A n \in Node : IsRegistered(n)
    BY <1>1, EveryNodeCompleted
  <2>2. \A n, m \in Node : NodeId(n) = NodeId(m) => n = m
    BY <1>1, <2>1 DEF RunIInv, SubmittedApart
  <2>3. \A n \in Node, p \in Range(PlainTasks) : NodeId(n) # p.id
    <3>1. PlainIds = {p.id : p \in Range(PlainTasks)}
      BY <1>1, <2>1, EverythingSubmitted DEF Ended
    <3>2. \A n \in Node : NodeId(n) \in NodeIds
      BY <2>1 DEF NodeIds
    <3> QED BY <1>1, <3>1, <3>2 DEF RunIInv, SubmittedApart
  <2>4. \A i, j \in DOMAIN PlainTasks : PlainTasks[i].id = PlainTasks[j].id => i = j
    <3>1. DOMAIN PlainTasks = 1..Len(PlainTasks)
      <4> DEFINE R == [id : Task, arrival : ArrivalTimes]
      <4>1. PlainTasks \in Seq(R)
        BY DagAssumption DEF DagAssumption
      <4> HIDE DEF R
      <4> QED BY <4>1
    <3>2. 1..nextTask - 1 = 1..Len(PlainTasks)
      BY <1>1, Lengths DEF RunIInv, RunTypeOK, Ended
    <3> QED BY <1>1, <3>1, <3>2 DEF RunIInv, SubmittedApart
  <2> QED BY <2>2, <2>3, <2>4 DEF IdsCollide
<1>2. RunSpec => []RunEndsClean
  BY RunImplementsScheduler, RunsEndClean, PTL
<1> QED BY <1>1, <1>2, RunInvariance, PTL

\* The step that ends a run submits an id anew, and changes nothing else of the
\* scheduler.
LEMMA CollisionEnds ==
  ASSUME IInv, RunIInv, [RunNext]_runVars, ~aborted, aborted'
  PROVE  IdsCollide /\ UNCHANGED vars
<1> USE DEF RunIInv
<1>1. tasks = PlainIds \cup NodeIds
  BY DEF SubmittedApart
<1>2. DOMAIN PlainTasks = 1..Len(PlainTasks) /\ nextTask - 1 <= Len(PlainTasks)
      /\ nextTask \in Nat
  <2> DEFINE R == [id : Task, arrival : ArrivalTimes]
  <2>1. PlainTasks \in Seq(R)
    BY DagAssumption DEF DagAssumption
  <2> HIDE DEF R
  <2> QED BY <2>1, Lengths DEF RunTypeOK
<1>3. 1..nextTask - 1 \subseteq DOMAIN PlainTasks
  BY <1>2, Lengths
<1>4. ASSUME SubmitPlainTask
      PROVE  IdsCollide
  <2>1. PlainTasks[nextTask].id \in tasks /\ nextTask <= Len(PlainTasks)
    BY <1>4 DEF SubmitPlainTask, SubmitAt
  <2>2. NodeIds = {}
    BY <2>1, <1>2, Lengths DEF NodesInOrder, NodeIds, IsRegistered
  <2>3. PICK i \in 1..nextTask - 1 : PlainTasks[i].id = PlainTasks[nextTask].id
    BY <1>1, <2>1, <2>2 DEF PlainIds
  <2>4. nextTask \in DOMAIN PlainTasks /\ i # nextTask /\ i \in DOMAIN PlainTasks
    BY <1>2, <1>3, <2>1, <2>3 DEF RunTypeOK
  <2> QED BY <2>3, <2>4 DEF IdsCollide
<1>5. ASSUME NEW n \in Node, Register(n)
      PROVE  IdsCollide
  <2>1. n \in registering /\ ~IsRegistered(n)
    BY <1>5 DEF Register, IsRegistered
  <2>2. NodeId(n) \in Task
    BY NodeTyped
  <2>3. ASSUME NEW m \in Node, IsRegistered(m), NodeId(m) = NodeId(n)
        PROVE  IdsCollide
    BY <2>1, <2>3 DEF IdsCollide
  <2>4. CASE runtimeOf[NodeId(n)] # None
    <3>1. runtimeOf[NodeId(n)] \in DOMAIN Dags
      BY <2>2, <2>4 DEF RunTypeOK
    <3>2. \E m \in Node : NodeId(m) = NodeId(n) /\ IsRegistered(m)
      BY <2>2, <3>1 DEF ControllerConsistent
    <3> QED BY <2>3, <3>2
  <2>5. CASE NodeId(n) \in tasks
    <3>1. CASE NodeId(n) \in NodeIds
      BY <3>1, <2>3 DEF NodeIds
    <3>2. CASE NodeId(n) \in PlainIds
      <4>1. PICK i \in 1..nextTask - 1 : PlainTasks[i].id = NodeId(n)
        BY <3>2 DEF PlainIds
      <4>2. PlainTasks[i] \in Range(PlainTasks)
        BY <1>3, <4>1 DEF Range
      <4> QED BY <4>1, <4>2 DEF IdsCollide
    <3> QED BY <2>5, <1>1, <3>1, <3>2
  <2> QED BY <1>5, <2>4, <2>5 DEF Register, SubmitAt
<1>6. SubmitPlainTask \/ \E n \in Node : Register(n)
  BY DEF RunNext, SubmitInitial, Step, Drain, dagVars, HandleTaskCompletion, runVars
<1>7. UNCHANGED vars
  BY <1>6 DEF SubmitPlainTask, Register, SubmitAt
<1> QED BY <1>4, <1>5, <1>6, <1>7

\* An exception ends a run only if two ids collide.
THEOREM AbortsOnCollisions == RunSpec => []AbortsOnCollisionOnly
<1>1. RunInit => AbortsOnCollisionOnly
  BY DEF RunInit, AbortsOnCollisionOnly
<1>2. ASSUME IInv, RunIInv, AbortsOnCollisionOnly, [RunNext]_runVars
      PROVE  AbortsOnCollisionOnly'
  BY <1>2, CollisionEnds DEF AbortsOnCollisionOnly, IdsCollide
<1> QED BY <1>1, <1>2, RunInvariance, PTL DEF RunSpec

------------------------------------------------------------------------------
(* Order *)

\* The predecessors of a released node are completed, and so are their tasks.
LEMMA PredecessorsCompleted ==
  ASSUME IInv, RunIInv, NEW n \in released
  PROVE  /\ \A e \in InEdges(n, Node) : e[1] \in completed
         /\ ~aborted => \A e \in InEdges(n, Node) :
                           NodeId(e[1]) \in Range(completedTasks)
<1> USE DEF RunIInv
<1>1. n \in Node
  BY DEF RunTypeOK
<1>2. InEdges(n, Node \ completed) = {}
  BY <1>1, NoEdgesLeft DEF ReleasedWhenDue, CountersExact
<1>3. \A e \in InEdges(n, Node) : e[1] \in completed /\ e[1] \in Node
  BY <1>2 DEF InEdges
<1>4. ASSUME ~aborted, NEW m \in completed
      PROVE  NodeId(m) \in Range(completedTasks)
  <2>1. IsRegistered(m) /\ m \in Node /\ NodeId(m) \in Task
    BY <1>4, NodeTyped DEF IsRegistered, NodesInOrder, RunTypeOK
  <2>2. Finished(NodeId(m))
    BY <1>4, <2>1 DEF CompletionsPassedOn
  <2> QED BY <2>1, <2>2 DEF IInv, CompletedOnce
<1> QED BY <1>3, <1>4

\* If the ids differ, a task that has the id of a node is that node's.
LEMMA TaskOfNode ==
  ASSUME RunIInv, ~aborted, ~IdsCollide, NEW n \in Node, NodeId(n) \in tasks
  PROVE  n \in released
<1>1. NodeId(n) \notin PlainIds
  <2> SUFFICES ASSUME NEW i \in 1..nextTask - 1, PlainTasks[i].id = NodeId(n)
               PROVE  FALSE
    BY DEF PlainIds
  <2>1. DOMAIN PlainTasks = 1..Len(PlainTasks)
    <3> DEFINE R == [id : Task, arrival : ArrivalTimes]
    <3>1. PlainTasks \in Seq(R)
      BY DagAssumption DEF DagAssumption
    <3> HIDE DEF R
    <3> QED BY <3>1
  <2>2. i \in DOMAIN PlainTasks
    BY <2>1, Lengths DEF RunIInv, RunTypeOK
  <2>3. PlainTasks[i] \in Range(PlainTasks)
    BY <2>2 DEF Range
  <2> QED BY <2>3 DEF IdsCollide
<1>2. NodeId(n) \in NodeIds
  BY <1>1 DEF RunIInv, SubmittedApart
<1>3. PICK m \in Node : IsRegistered(m) /\ NodeId(m) = NodeId(n)
  BY <1>2 DEF NodeIds
<1>4. m = n
  BY <1>3 DEF IdsCollide
<1> QED BY <1>3, <1>4 DEF IsRegistered

\* If the ids differ, no node's task starts before the scheduler has completed the
\* tasks of all its predecessors, however events, drains and releases interleave.
THEOREM PrecedenceIsRespected ==
  ASSUME ~IdsCollide
  PROVE  RunSpec => PrecedenceRespected
<1>1. ASSUME IInv, RunIInv, AbortsOnCollisionOnly, [RunNext]_runVars,
             NEW n \in Node, active'[NodeId(n)], ~active[NodeId(n)],
             NEW e \in InEdges(n, Node)
      PROVE  NodeId(e[1]) \in Range(completedTasks)
  <2>1. ~aborted
    BY <1>1 DEF AbortsOnCollisionOnly
  <2>2. active' # active
    BY <1>1
  <2>3. UNCHANGED tasks
    <3>1. ~(\E t \in Task : Submit(t))
      BY <2>2 DEF Submit, runtimeVars
    <3>2. Step \/ Drain
      <4>1. CASE SubmitPlainTask
        BY <4>1, <2>2 DEF SubmitPlainTask, SubmitAt, Submit, vars, runtimeVars
      <4>2. CASE SubmitInitial
        BY <4>2, <2>2 DEF SubmitInitial, vars, runtimeVars
      <4>3. CASE \E m \in Node : Register(m)
        BY <4>3, <2>2 DEF Register, SubmitAt, Submit, vars, runtimeVars
      <4>4. CASE HandleTaskCompletion
        BY <4>4, <2>2 DEF HandleTaskCompletion, vars, runtimeVars
      <4>5. CASE UNCHANGED runVars
        BY <4>5, <2>2 DEF runVars, vars, runtimeVars
      <4> QED BY <1>1, <4>1, <4>2, <4>3, <4>4, <4>5 DEF RunNext
    <3> QED BY <3>2 DEF Step, Drain, DrainStep, GoOnDraining, HandleEvent, HandleTaskArrival,
                        HandleTaskReady, TakeReady, HandleTaskStart, HandleTaskComplete
  <2>4. NodeId(n) \in Task
    BY NodeTyped
  <2>5. IInv'
    <3>1. IndexTyped
      BY <1>1, Lengths DEF RunIInv, RunTypeOK, IndexTyped
    <3>2. [Next]_vars
      BY <1>1, <3>1, RunStepSchedules
    <3> QED BY <1>1, <3>2, NextIInv
  <2>6. NodeId(n) \in tasks'
    BY <1>1, <2>4, <2>5 DEF IInv, ActiveHasEvent, OnePlace, InFlight
  <2>7. n \in released
    BY <1>1, <2>1, <2>3, <2>6, TaskOfNode
  <2> QED BY <1>1, <2>1, <2>7, PredecessorsCompleted
<1>2. IInv /\ RunIInv /\ AbortsOnCollisionOnly /\ [RunNext]_runVars =>
        [\A n \in Node : active'[NodeId(n)] /\ ~active[NodeId(n)] =>
            \A e \in InEdges(n, Node) : NodeId(e[1]) \in Range(completedTasks)]_runVars
  BY <1>1
<1> QED BY <1>2, RunInvariance, AbortsOnCollisions, PTL DEF RunSpec, PrecedenceRespected

\* A step of the run submits a node whose predecessors are done, finishes a
\* submitted node, or does neither.
LEMMA StepInOrder ==
  ASSUME IInv, RunIInv, [RunNext]_runVars
  PROVE  [Order!Next]_<<released \ registering, completed>>
<1> DEFINE before == {<<e[1], Target(e)>> : e \in Edge}
<1> USE DEF RunIInv
<1>1. CASE UNCHANGED <<registering, released, completed>>
  BY <1>1
<1>2. ASSUME SubmitInitial
      PROVE  UNCHANGED <<released \ registering, completed>>
  <2>1. /\ registering = {} /\ registering' = InitialTasks(nextDag)
        /\ released' = released \cup InitialTasks(nextDag)
        /\ UNCHANGED completed
    BY <1>2 DEF SubmitInitial
  <2>2. InitialTasks(nextDag) \cap released = {}
    BY DEF InitialTasks
  <2> QED BY <2>1, <2>2
<1>3. ASSUME NEW n \in Node, Register(n)
      PROVE  Order!Submit(n) \/ UNCHANGED <<registering, released, completed>>
  <2>1. /\ n \in registering /\ UNCHANGED <<released, completed>>
        /\ registering' = registering \ {n} \/ UNCHANGED registering
    BY <1>3 DEF Register, nodeVars
  <2>2. CASE registering' = registering \ {n}
    <3>1. n \in released
      BY <2>1 DEF NodesInOrder
    <3>2. (released \ registering)' = (released \ registering) \cup {n}
      BY <2>1, <2>2, <3>1
    <3>3. \A e \in InEdges(n, Node) : e[1] \in completed
      BY <3>1, PredecessorsCompleted
    <3>4. ASSUME NEW i \in Node, <<i, n>> \in before
          PROVE  i \in completed
      <4>1. PICK e \in Edge : <<i, n>> = <<e[1], Target(e)>>
        BY <3>4
      <4> QED BY <4>1, <3>3 DEF InEdges
    <3> QED BY <2>1, <3>2, <3>4 DEF Order!Submit
  <2> QED BY <2>1, <2>2
<1>4. ASSUME HandleTaskCompletion
      PROVE  (\E n \in Node : Order!Finish(n))
               \/ UNCHANGED <<registering, released, completed>>
  <2> DEFINE t == lastCompleted
             d == runtimeOf[t]
             m == <<d, t - Dags[d].base + 1>>
  <2>1. CASE d = None /\ UNCHANGED <<registering, nodeVars>>
    BY <2>1 DEF nodeVars
  <2>2. CASE /\ d # None
             /\ completed' = completed \cup {m}
             /\ released' = released \cup Ready(m)
             /\ registering' = Ready(m)
    <3>1. t # None /\ ~aborted
      BY <1>4 DEF HandleTaskCompletion
    <3>2. t \in Task /\ d \in DOMAIN Dags /\ registering = {}
      BY <3>1, <2>2 DEF RunTypeOK, NodesInOrder
    <3>3. PICK n \in Node : /\ n[1] = d /\ NodeId(n) = t
                            /\ IsRegistered(n) /\ n \notin completed
      BY <3>1, <3>2 DEF ControllerConsistent
    <3>4. m = n
      BY <3>3, NodeTyped
    <3>5. Ready(m) \cap released = {}
      BY DEF Ready
    <3>6. UNCHANGED (released \ registering)
      BY <2>2, <3>2, <3>5
    <3>7. completed' = completed \cup {n} /\ n \in (released \ registering) \ completed
      BY <2>2, <3>3, <3>4 DEF IsRegistered
    <3>8. Order!Finish(n)
      BY <3>6, <3>7 DEF Order!Finish
    <3> QED BY <3>8
  <2> QED BY <1>4, <2>1, <2>2 DEF HandleTaskCompletion
<1>5. SubmitPlainTask \/ Step \/ Drain \/ UNCHANGED runVars
        => UNCHANGED <<registering, released, completed>>
  BY DEF SubmitPlainTask, Step, Drain, runVars, dagVars, nodeVars
<1> QED BY <1>1, <1>2, <1>3, <1>4, <1>5 DEF RunNext, Order!Next

\* The run implements the abstract order: no node is submitted before its
\* predecessors are done, none twice, and none finishes that was not submitted.
THEOREM RunImplementsOrder == RunSpec => Order!Spec
<1>1. RunInit => Order!Init
  BY DEF RunInit, Order!Init
<1>2. IInv /\ RunIInv /\ [RunNext]_runVars => [Order!Next]_<<released \ registering, completed>>
  BY StepInOrder
<1> QED BY <1>1, <1>2, RunInvariance, PTL DEF RunSpec, Order!Spec

------------------------------------------------------------------------------
(* Time *)

\* The clock stands still until the last DAG has had its entry nodes released.
ClockWaits == nextTask <= Len(PlainTasks) \/ nextDag <= Len(Dags) => currentTime = 0

\* What NoSubmissionInThePast rests on
SubmissionsInTime == ClockWaits /\ NoSubmissionInThePast

\* submit_task is never given an arrival time before the current time, which it
\* does not look at: the guard of Submit takes no behaviour of the run away.
THEOREM NoSubmissionsInThePast == RunSpec => []NoSubmissionInThePast
<1>1. RunInit => SubmissionsInTime
  BY DEF RunInit, Init, SubmissionsInTime, ClockWaits, NoSubmissionInThePast
<1>2. ASSUME IInv, RunIInv, SubmissionsInTime, [RunNext]_runVars
      PROVE  SubmissionsInTime'
  <2> USE <1>2 DEF RunIInv, SubmissionsInTime
  <2>1. currentTime \in Nat /\ nodeArrival \in [Node -> Nat] /\ registering \subseteq Node
    BY DEF IInv, TypeOK, RunTypeOK
  <2>2. nextTask \in Nat /\ nextDag \in Nat /\ Len(Dags) \in Nat /\ Len(PlainTasks) \in Nat
    BY Lengths DEF RunTypeOK
  <2>3. CASE UNCHANGED <<currentTime, nodeArrival>> /\ registering' \subseteq registering
             /\ nextTask' >= nextTask /\ nextDag' >= nextDag
             /\ nextTask' \in Nat /\ nextDag' \in Nat
    <3>1. ClockWaits'
      BY <2>2, <2>3 DEF ClockWaits
    <3>2. NoSubmissionInThePast'
      BY <2>3 DEF NoSubmissionInThePast
    <3> QED BY <3>1, <3>2
  <2>4. ASSUME NEW t, NEW arrival, SubmitAt(t, arrival)
        PROVE  UNCHANGED currentTime
    BY <2>4 DEF SubmitAt, Submit, vars
  <2>5. CASE SubmitPlainTask
    <3>1. UNCHANGED currentTime
      BY <2>4, <2>5 DEF SubmitPlainTask
    <3>2. UNCHANGED <<nodeArrival, registering, nextDag>> /\ nextTask' = nextTask + 1
      BY <2>5 DEF SubmitPlainTask, nodeVars
    <3> QED BY <2>2, <2>3, <3>1, <3>2
  <2>6. CASE SubmitInitial
    <3>1. /\ nextDag <= Len(Dags) /\ nextDag' = nextDag + 1
          /\ UNCHANGED <<currentTime, nodeArrival, nextTask>>
          /\ registering' = InitialTasks(nextDag)
      BY <2>6 DEF SubmitInitial, vars
    <3>2. currentTime = 0
      BY <3>1 DEF ClockWaits
    <3>3. NoSubmissionInThePast'
      BY <2>1, <3>1, <3>2 DEF NoSubmissionInThePast, InitialTasks
    <3>4. ClockWaits'
      BY <3>1, <3>2 DEF ClockWaits
    <3> QED BY <3>3, <3>4
  <2>7. ASSUME NEW n \in Node, Register(n)
        PROVE  SubmissionsInTime'
    <3>1. UNCHANGED currentTime
      BY <2>4, <2>7 DEF Register, vars
    <3>2. UNCHANGED <<nodeArrival, nextTask, nextDag>> /\ registering' \subseteq registering
      BY <2>7 DEF Register, nodeVars
    <3> QED BY <2>2, <2>3, <3>1, <3>2
  <2>8. CASE Step
    BY <2>2, <2>8 DEF Step, ClockWaits, NoSubmissionInThePast
  <2>9. CASE Drain
    BY <2>2, <2>3, <2>9 DEF Drain, DrainStep, GoOnDraining, dagVars, nodeVars
  <2>10. CASE HandleTaskCompletion
    <3> DEFINE t == lastCompleted
               d == runtimeOf[t]
               m == <<d, t - Dags[d].base + 1>>
    <3>1. UNCHANGED <<currentTime, nextTask, nextDag>>
      BY <2>10 DEF HandleTaskCompletion, vars
    <3>2. ClockWaits'
      BY <3>1 DEF ClockWaits
    <3>3. CASE UNCHANGED <<registering, nodeVars>>
      BY <2>2, <2>3, <3>1, <3>3 DEF nodeVars
    <3>4. CASE registering' = Ready(m) /\ nodeArrival' = ReleaseTimes(m)
      <4>1. \A n \in Ready(m) : n \in Node /\ nodeArrival'[n] = currentTime
        BY <3>4 DEF ReleaseTimes, Ready
      <4> QED BY <4>1, <3>1, <3>2, <3>4, <2>1 DEF NoSubmissionInThePast
    <3> QED BY <2>10, <3>3, <3>4 DEF HandleTaskCompletion
  <2>11. CASE UNCHANGED runVars
    BY <2>2, <2>3, <2>11 DEF runVars, vars, dagVars, nodeVars
  <2> QED BY <1>2, <2>5, <2>6, <2>7, <2>8, <2>9, <2>10, <2>11 DEF RunNext
<1>3. SubmissionsInTime => NoSubmissionInThePast
  BY DEF SubmissionsInTime
<1> QED BY <1>1, <1>2, <1>3, RunInvariance, PTL DEF RunSpec

\* A completed node's task was completed by the scheduler, not later than now.
CompletedBefore ==
  \A n \in completed : Finished(NodeId(n)) /\ Account(NodeId(n)) <= currentTime

\* A completion that is still to be passed on is of this instant.
CompletedNow ==
  lastCompleted # None /\ Finished(lastCompleted) => Account(lastCompleted) = currentTime

\* n is due at the time when the last of its predecessors completed.
IsDue(n, time) ==
  InEdges(n, Node) # {} =>
    /\ \A e \in InEdges(n, Node) : Account(NodeId(e[1])) <= time
    /\ \E e \in InEdges(n, Node) : Account(NodeId(e[1])) = time

ReleasedWithoutGap == \A n \in released : IsDue(n, nodeArrival[n])

\* The scheduler knows the arrival time that the controller gave the node.
ArrivesAsReleased ==
  \A n \in Node :
    IsRegistered(n) =>
      NodeId(n) \in tasks /\ arrivalTime[NodeId(n)] = nodeArrival[n]

\* What NoGapBetweenStages rests on
Gapless == CompletedBefore /\ CompletedNow /\ ReleasedWithoutGap /\ ArrivesAsReleased

LEMMA InitGapless == RunInit => Gapless
BY DEF RunInit, Gapless, CompletedBefore, CompletedNow, ReleasedWithoutGap,
       ArrivesAsReleased, IsRegistered

\* A node that is due stays so: the accounts of its predecessors are final.
LEMMA StaysDue ==
  ASSUME IInv, RunIInv, CompletedBefore, [Next]_vars, NEW n \in released, NEW time,
         IsDue(n, time)
  PROVE  IsDue(n, time)'
<1>1. ASSUME NEW e \in InEdges(n, Node)
      PROVE  Account(NodeId(e[1]))' = Account(NodeId(e[1]))
  <2>1. e[1] \in completed /\ e[1] \in Node
    BY PredecessorsCompleted DEF InEdges
  <2> QED BY <2>1, NodeTyped, AccountsAreFinal DEF CompletedBefore
<1> QED BY <1>1 DEF IsDue

\* A step of the scheduler leaves what is completed and released in order.
LEMMA StepKeepsGapless ==
  ASSUME IInv, IInv', RunIInv, Gapless, [Next]_vars
  PROVE  /\ UNCHANGED completed => CompletedBefore'
         /\ UNCHANGED <<nodeArrival, released>> => ReleasedWithoutGap'
         /\ UNCHANGED <<currentTime, stageIndex, lastCompleted>> => CompletedNow'
<1>1. ASSUME NEW n \in completed
      PROVE  Finished(NodeId(n))' /\ Account(NodeId(n))' <= currentTime'
  <2>1. NodeId(n) \in Task /\ Finished(NodeId(n)) /\ Account(NodeId(n)) <= currentTime
    BY NodeTyped DEF Gapless, CompletedBefore, RunIInv, RunTypeOK
  <2>2. Account(NodeId(n)) \in Nat /\ currentTime \in Nat /\ currentTime' \in Nat
    BY <2>1, TimeTyped DEF IInv, TypeOK
  <2>3. Account(NodeId(n))' = Account(NodeId(n)) /\ Finished(NodeId(n))'
    BY <2>1, AccountsAreFinal
  <2>4. currentTime' >= currentTime
    BY ClockGoesOn
  <2> QED BY <2>1, <2>2, <2>3, <2>4
<1>2. ASSUME NEW n \in released
      PROVE  IsDue(n, nodeArrival[n])'
               \/ nodeArrival' # nodeArrival
  <2>1. CASE nodeArrival' = nodeArrival
    <3>1. PICK time : time = nodeArrival[n]
      OBVIOUS
    <3>2. IsDue(n, time)
      BY <3>1 DEF Gapless, ReleasedWithoutGap
    <3>3. IsDue(n, time)'
      BY <3>2, StaysDue DEF Gapless
    <3> QED BY <2>1, <3>1, <3>3 DEF IsDue
  <2> QED BY <2>1
<1>3. ASSUME UNCHANGED <<currentTime, stageIndex, lastCompleted>>,
             lastCompleted # None, Finished(lastCompleted)'
      PROVE  Account(lastCompleted)' = currentTime'
  <2>1. lastCompleted \in Task /\ Finished(lastCompleted)
    BY <1>3 DEF RunIInv, RunTypeOK, Finished
  <2>2. Account(lastCompleted)' = Account(lastCompleted)
    BY <1>3, <2>1, AccountsAreFinal DEF Account
  <2> QED BY <1>3, <2>1, <2>2 DEF Gapless, CompletedNow
<1> QED BY <1>1, <1>2, <1>3 DEF CompletedBefore, ReleasedWithoutGap, CompletedNow

\* submit_task is for new tasks, so the arrival time of a task never changes.
LEMMA ArrivalsAreFinal ==
  ASSUME IInv, [Next]_vars, NEW t \in tasks
  PROVE  t \in tasks' /\ arrivalTime'[t] = arrivalTime[t]
<1>1. t \in Task
  BY DEF IInv, TypeOK
<1>2. ASSUME NEW u \in Task, Submit(u)
      PROVE  t \in tasks' /\ arrivalTime'[t] = arrivalTime[t]
  BY <1>1, <1>2 DEF Submit, IInv, TypeOK
<1>3. CASE UNCHANGED <<tasks, arrivalTime>>
  BY <1>3
<1>4. StepOnce => UNCHANGED <<tasks, arrivalTime>>
  BY DEF StepOnce, HandleEvent, HandleTaskArrival, HandleTaskReady, TakeReady,
         HandleTaskStart, HandleTaskComplete, DrainStep, GoOnDraining
<1> QED BY <1>2, <1>3, <1>4 DEF Next, vars

LEMMA StepKeepsArrivals ==
  ASSUME IInv, [Next]_vars, ArrivesAsReleased, NEW n \in Node, IsRegistered(n),
         nodeArrival'[n] = nodeArrival[n]
  PROVE  NodeId(n) \in tasks' /\ arrivalTime'[NodeId(n)] = nodeArrival'[n]
BY ArrivalsAreFinal DEF ArrivesAsReleased

\* The entry nodes of a DAG that are released at once have no predecessors.
LEMMA InitialWithoutGap ==
  ASSUME RunIInv, NEW n \in InitialTasks(nextDag)
  PROVE  InEdges(n, Node) = {}
<1> USE DEF RunIInv
<1>1. n \in Node /\ n[1] = nextDag /\ remaining[n] = 0
  BY DEF InitialTasks
<1>2. InEdges(n, Node \ completed) = {}
  BY <1>1, NoEdgesLeft DEF CountersExact
<1> SUFFICES ASSUME NEW e \in InEdges(n, Node) PROVE FALSE
  OBVIOUS
<1>3. e[1] \in Node /\ e[1][1] = nextDag
  BY <1>1, EdgesTyped DEF InEdges
<1>4. e[1] \in released
  BY <1>2, <1>3 DEF InEdges, NodesInOrder
<1>5. e[1][1] < nextDag /\ nextDag \in Nat
  BY <1>3, <1>4 DEF ReleasedWhenDue, RunTypeOK
<1> QED BY <1>3, <1>5

\* A node that is ready with the completion of m is due now: m completed now, and
\* its other predecessors before.
LEMMA ReadyWithoutGap ==
  ASSUME IInv, RunIInv, RunIInv', Gapless, NEW m \in Node, NEW n \in Ready(m),
         completed' = completed \cup {m}, n \in released',
         remaining' = Decremented(m), m \notin completed,
         Account(NodeId(m)) = currentTime
  PROVE  IsDue(n, currentTime)
<1> USE DEF RunIInv
<1>1. n \in Node /\ remaining[n] > 0 /\ remaining'[n] = 0
  BY DEF Ready
<1>2. InEdges(n, Node \ completed') = {}
  BY <1>1, NoEdgesLeft DEF CountersExact, RunTypeOK
<1>3. \A e \in InEdges(n, Node) : e[1] \in completed \/ e[1] = m
  BY <1>2 DEF InEdges
<1>4. \A e \in InEdges(n, Node) : Account(NodeId(e[1])) <= currentTime
  <2>1. currentTime \in Nat
    BY DEF IInv, TypeOK
  <2> QED BY <1>3, <2>1 DEF Gapless, CompletedBefore
<1>5. PICK e \in InEdges(n, Node) : e[1] = m
  <2> SUFFICES ASSUME \A e \in InEdges(n, Node) : e[1] # m PROVE FALSE
    OBVIOUS
  <2>1. InEdges(n, Node \ completed) = {}
    BY <1>3 DEF InEdges
  <2>2. Node \ completed \in SUBSET Node
    OBVIOUS
  <2>3. Cardinality(InEdges(n, Node \ completed)) = 0
    BY <1>1, <2>1, <2>2, NoEdgesLeft
  <2>4. remaining[n] = 0
    BY <1>1, <2>3 DEF CountersExact
  <2> QED BY <1>1, <2>4
<1> QED BY <1>4, <1>5 DEF IsDue

\* A completion that is passed on makes its node completed and readies others.
LEMMA CompletionGapless ==
  ASSUME IInv, RunIInv, RunIInv', Gapless, HandleTaskCompletion
  PROVE  Gapless'
<1> DEFINE t == lastCompleted
           d == runtimeOf[t]
           m == <<d, t - Dags[d].base + 1>>
<1>1. /\ ~aborted /\ t # None /\ lastCompleted' = None /\ UNCHANGED vars
  BY DEF HandleTaskCompletion
<1>2. UNCHANGED <<currentTime, tasks, stageIndex, arrivalTime, queueTime, serviceTime>>
  BY <1>1 DEF vars, runtimeVars
<1>3. CompletedNow'
  BY <1>1 DEF CompletedNow
<1>4. CASE UNCHANGED <<registering, nodeVars>>
  <2>1. UNCHANGED <<registering, nodeArrival, released, completed>>
    BY <1>4 DEF nodeVars
  <2> QED BY <1>2, <1>3, <2>1 DEF Gapless, CompletedBefore, ReleasedWithoutGap,
             ArrivesAsReleased, IsRegistered, IsDue, Account, Finished
<1>5. CASE /\ d # None
           /\ completed' = completed \cup {m}
           /\ remaining' = Decremented(m)
           /\ released' = released \cup Ready(m)
           /\ registering' = Ready(m)
           /\ nodeArrival' = ReleaseTimes(m)
  <2>1. t \in Task /\ d \in DOMAIN Dags /\ registering = {} /\ stageIndex[t] > 1
    BY <1>1, <1>5 DEF RunIInv, RunTypeOK, NodesInOrder
  <2>2. PICK n \in Node : /\ n[1] = d /\ NodeId(n) = t
                          /\ IsRegistered(n) /\ n \notin completed
    BY <1>1, <2>1 DEF RunIInv, ControllerConsistent
  <2>3. m = n
    BY <2>2, NodeTyped
  <2>4. Finished(t) /\ Account(NodeId(n)) = currentTime
    BY <1>1, <2>1, <2>2, NodeFinished DEF Gapless, CompletedNow
  <2>5. /\ completed' = completed \cup {n} /\ remaining' = Decremented(n)
        /\ released' = released \cup Ready(n) /\ registering' = Ready(n)
        /\ nodeArrival' = ReleaseTimes(n)
    BY <1>5, <2>3
  <2>6. /\ Ready(n) \subseteq Node /\ Ready(n) \cap released = {} /\ released \subseteq Node
        /\ currentTime \in Nat
    BY DEF Ready, RunIInv, RunTypeOK, IInv, TypeOK
  <2>7. CompletedBefore'
    <3>1. Account(NodeId(n)) <= currentTime
      BY <2>4, <2>6
    <3>2. \A x \in completed' : Finished(NodeId(x)) /\ Account(NodeId(x)) <= currentTime
      BY <2>2, <2>4, <2>5, <3>1 DEF Gapless, CompletedBefore
    <3> QED BY <1>2, <3>2 DEF CompletedBefore, Finished, Account
  <2>8. ASSUME NEW x \in released'
        PROVE  IsDue(x, nodeArrival'[x])
    <3>1. CASE x \in Ready(n)
      <4>1. nodeArrival'[x] = currentTime
        BY <2>5, <2>6, <3>1 DEF ReleaseTimes
      <4>2. IsDue(x, currentTime)
        BY <2>2, <2>4, <2>5, <2>8, <3>1, ReadyWithoutGap
      <4> QED BY <4>1, <4>2
    <3>2. CASE x \in released
      <4>1. nodeArrival'[x] = nodeArrival[x]
        BY <2>5, <2>6, <3>2 DEF ReleaseTimes
      <4> QED BY <4>1, <3>2 DEF Gapless, ReleasedWithoutGap
    <3> QED BY <2>5, <2>8, <3>1, <3>2
  <2>9. ReleasedWithoutGap'
    BY <1>2, <2>8 DEF ReleasedWithoutGap, IsDue, Account
  <2>10. ArrivesAsReleased'
    <3> SUFFICES ASSUME NEW x \in Node, IsRegistered(x)'
                 PROVE  NodeId(x) \in tasks' /\ arrivalTime'[NodeId(x)] = nodeArrival'[x]
      BY DEF ArrivesAsReleased
    <3>1. x \in released /\ x \notin Ready(n) /\ IsRegistered(x)
      BY <2>1, <2>5, <2>6 DEF IsRegistered
    <3>2. nodeArrival'[x] = nodeArrival[x]
      BY <2>5, <3>1 DEF ReleaseTimes
    <3> QED BY <1>2, <3>1, <3>2 DEF Gapless, ArrivesAsReleased
  <2> QED BY <1>3, <2>7, <2>9, <2>10 DEF Gapless
<1> QED BY <1>4, <1>5 DEF HandleTaskCompletion

\* Every step keeps the times of the nodes in order.
LEMMA NextGapless ==
  ASSUME IInv, IInv', RunIInv, RunIInv', TimeAccounted, Gapless, [RunNext]_runVars
  PROVE  Gapless'
<1>1. [Next]_vars
  <2>1. IndexTyped
    BY Lengths DEF RunIInv, RunTypeOK, IndexTyped
  <2> QED BY <2>1, RunStepSchedules
<1>2. ASSUME UNCHANGED <<nodeArrival, released, completed>>,
             UNCHANGED <<currentTime, stageIndex, lastCompleted>> \/ CompletedNow',
             \A n \in Node : IsRegistered(n)' /\ ~IsRegistered(n) =>
               NodeId(n) \in tasks' /\ arrivalTime'[NodeId(n)] = nodeArrival'[n]
      PROVE  Gapless'
  <2>1. CompletedBefore' /\ ReleasedWithoutGap' /\ CompletedNow'
    BY <1>1, <1>2, StepKeepsGapless
  <2>2. ArrivesAsReleased'
    BY <1>1, <1>2, StepKeepsArrivals DEF Gapless, ArrivesAsReleased
  <2> QED BY <2>1, <2>2 DEF Gapless
<1>3. ASSUME NEW t, NEW arrival, SubmitAt(t, arrival)
      PROVE  UNCHANGED <<currentTime, stageIndex>>
  BY <1>3 DEF SubmitAt, Submit, vars
<1>4. CASE SubmitPlainTask
  <2>1. UNCHANGED <<currentTime, stageIndex>>
    BY <1>3, <1>4 DEF SubmitPlainTask
  <2>2. UNCHANGED <<nodeArrival, released, completed, registering, lastCompleted>>
    BY <1>4 DEF SubmitPlainTask, nodeVars
  <2> QED BY <2>1, <2>2, <1>2 DEF IsRegistered
<1>5. CASE SubmitInitial
  <2>1. /\ registering = {} /\ registering' = InitialTasks(nextDag)
        /\ released' = released \cup InitialTasks(nextDag)
        /\ UNCHANGED <<vars, nodeArrival, completed, lastCompleted>>
    BY <1>5 DEF SubmitInitial
  <2>2. UNCHANGED <<currentTime, tasks, stageIndex, arrivalTime, queueTime, serviceTime>>
    BY <2>1 DEF vars, runtimeVars
  <2>3. CompletedBefore' /\ CompletedNow'
    BY <1>1, <2>1, <2>2, StepKeepsGapless
  <2>4. ReleasedWithoutGap'
    <3>1. \A n \in InitialTasks(nextDag) : IsDue(n, nodeArrival[n])'
      BY InitialWithoutGap DEF IsDue
    <3>2. \A n \in released : IsDue(n, nodeArrival[n])'
      BY <2>1, <2>2 DEF Gapless, ReleasedWithoutGap, IsDue, Account
    <3> QED BY <2>1, <3>1, <3>2 DEF ReleasedWithoutGap
  <2>5. ArrivesAsReleased'
    BY <2>1, <2>2 DEF Gapless, ArrivesAsReleased, IsRegistered, InitialTasks
  <2> QED BY <2>3, <2>4, <2>5 DEF Gapless
<1>6. ASSUME NEW n \in Node, Register(n)
      PROVE  Gapless'
  <2>1. UNCHANGED <<nodeArrival, released, completed, lastCompleted>>
    BY <1>6 DEF Register, nodeVars
  <2>2. UNCHANGED <<currentTime, stageIndex>>
    BY <1>3, <1>6 DEF Register, vars
  <2>3. ASSUME NEW m \in Node, IsRegistered(m)', ~IsRegistered(m)
        PROVE  NodeId(m) \in tasks' /\ arrivalTime'[NodeId(m)] = nodeArrival[m]
    <3>1. registering' # registering
      BY <2>1, <2>3 DEF IsRegistered
    <3>2. ~aborted' /\ registering' = registering \ {n} /\ SubmitAt(NodeId(n), nodeArrival[n])
      BY <1>6, <3>1 DEF Register
    <3>3. m = n
      BY <2>1, <2>3, <3>2 DEF IsRegistered
    <3>4. Submit(NodeId(n)) /\ arrivalTime'[NodeId(n)] = nodeArrival[n]
      BY <3>2 DEF SubmitAt
    <3> QED BY <3>3, <3>4 DEF Submit
  <2> QED BY <2>1, <2>2, <2>3, <1>2
<1>7. CASE Step
  <2>1. PICK e \in eventQueue :
          /\ HandleEvent(e)
          /\ lastCompleted' = IF e.type = "complete" THEN e.id ELSE None
    BY <1>7 DEF Step
  <2>2. UNCHANGED <<nodeArrival, released, completed, registering>>
    BY <1>7 DEF Step, nodeVars
  <2>3. ASSUME e.type = "complete"
        PROVE  Account(e.id)' = currentTime'
    <3>1. HandleTaskComplete(e)
      BY <2>1, <2>3 DEF HandleEvent, HandleTaskArrival, HandleTaskReady, TakeReady,
                        HandleTaskStart, Pop
    <3>2. e.id \in Task /\ e.timestamp \in Nat /\ e \in EventsOf(e.id)
      BY EventOwner DEF EventsOf
    <3>3. Account(e.id) = AccountedUntil(e)
      BY <3>2 DEF TimeAccounted, TimeAccountedOf
    <3>4. AccountedUntil(e) = e.timestamp /\ currentTime' = e.timestamp
      BY <2>3, <3>1, <3>2 DEF AccountedUntil, HandleTaskComplete, Pop
    <3>5. Account(e.id)' = Account(e.id)
      BY <3>1 DEF HandleTaskComplete, Account
    <3> QED BY <3>3, <3>4, <3>5
  <2>4. CompletedNow'
    BY <2>1, <2>3 DEF CompletedNow
  <2> QED BY <1>2, <2>2, <2>4 DEF IsRegistered
<1>8. CASE Drain
  <2>1. UNCHANGED <<currentTime, stageIndex>>
    BY <1>8 DEF Drain, DrainStep, GoOnDraining
  <2>2. UNCHANGED <<nodeArrival, released, completed, registering, lastCompleted>>
    BY <1>8 DEF Drain, dagVars, nodeVars
  <2> QED BY <1>2, <2>1, <2>2 DEF IsRegistered
<1>9. CASE UNCHANGED runVars
  <2>1. UNCHANGED <<currentTime, stageIndex, nodeArrival, released, completed, registering,
                    lastCompleted>>
    BY <1>9 DEF runVars, vars, dagVars, nodeVars
  <2> QED BY <1>2, <2>1 DEF IsRegistered
<1>10. CASE HandleTaskCompletion
  BY <1>10, CompletionGapless
<1> QED BY <1>4, <1>5, <1>6, <1>7, <1>8, <1>9, <1>10 DEF RunNext

\* The times of the stages of a DAG add up along its paths: a node's task arrives
\* exactly when the scheduler completed the last of its predecessors, whatever the
\* policy does, whatever drains lie in between, and however the run ends.
THEOREM NoGapsBetweenStages == RunSpec => []NoGapBetweenStages
<1>1. IInv /\ IInv' /\ RunIInv /\ RunIInv' /\ TimeAccounted /\ Gapless /\ [RunNext]_runVars
        => Gapless'
  BY NextGapless
<1>2. ASSUME RunIInv, Gapless
      PROVE  NoGapBetweenStages
  BY <1>2 DEF Gapless, ReleasedWithoutGap, ArrivesAsReleased, IsDue, IsRegistered,
              NoGapBetweenStages
<1>3. RunSpec => []TimeAccounted
  BY RunImplementsScheduler, TimeIsAccounted, PTL
<1> QED BY <1>1, <1>2, <1>3, InitGapless, RunInvariance, PTL DEF RunSpec

------------------------------------------------------------------------------
(* Runs with faults *)

------------------------------------------------------------------------------
(* Until the exception *)

\* A step that does not fail is one of DagRun.
LEMMA SoundStep ==
  ASSUME [FaultyNext]_faultyVars, ~aborted'
  PROVE  [RunNext]_runVars
<1>1. CASE FaultySubmitPlainTask
  BY <1>1 DEF FaultySubmitPlainTask, RunNext
<1>2. ASSUME NEW n \in Node, FaultyRegister(n)
      PROVE  RunNext
  BY <1>2 DEF FaultyRegister, RunNext
<1>3. CASE FaultyStep
  <2>1. PICK e \in eventQueue :
          /\ \/ /\ HandleTaskArrival(e) \/ HandleTaskStart(e) \/ HandleTaskComplete(e)
                /\ UNCHANGED aborted
             \/ FaultyReady(e)
          /\ lastCompleted' = IF e.type = "complete" THEN e.id ELSE None
    BY <1>3 DEF FaultyStep
  <2>2. FaultyReady(e) => HandleTaskReady(e) /\ UNCHANGED aborted
    BY DEF FaultyReady, FailStart, HandleTaskReady
  <2>3. HandleEvent(e) /\ UNCHANGED aborted
    BY <2>1, <2>2 DEF HandleEvent
  <2>4. Step
    BY <1>3, <2>1, <2>3 DEF FaultyStep, Step
  <2> QED BY <2>4 DEF RunNext
<1>4. CASE FaultyDrain
  <2>1. DrainStep /\ UNCHANGED aborted
    BY <1>4 DEF FaultyDrain, FailStart, DrainStep
  <2>2. Drain
    BY <1>4, <2>1 DEF FaultyDrain, Drain, dagVars
  <2> QED BY <2>2 DEF RunNext
<1>5. CASE UNCHANGED faultyVars
  BY <1>5 DEF faultyVars
<1> QED BY <1>1, <1>2, <1>3, <1>4, <1>5 DEF FaultyNext, RunNext

\* The invariants of the scheduler and of the controller, until then
SoundSoFar == ~aborted => IInv /\ RunIInv

LEMMA SoundSoFarKept ==
  ASSUME SoundSoFar, [FaultyNext]_faultyVars
  PROVE  /\ SoundSoFar'
         /\ aborted => UNCHANGED <<runVars, requirements>>
<1>1. aborted => UNCHANGED <<runVars, requirements>>
  BY DEF FaultyNext, FaultySubmitPlainTask, SubmitPlainTask, SubmitInitial, FaultyRegister,
         Register, FaultyStep, FaultyDrain, HandleTaskCompletion, faultyVars
<1>2. ASSUME ~aborted'
      PROVE  IInv' /\ RunIInv'
  <2>1. ~aborted
    BY <1>1, <1>2 DEF runVars, dagVars
  <2>2. [RunNext]_runVars
    BY <1>2, SoundStep
  <2>3. IndexTyped
    BY <2>1, Lengths DEF SoundSoFar, RunIInv, RunTypeOK, IndexTyped
  <2>4. [Next]_vars
    BY <2>2, <2>3, RunStepSchedules
  <2> QED BY <2>1, <2>2, <2>4, NextIInv, NextRunIInv DEF SoundSoFar
<1> QED BY <1>1, <1>2 DEF SoundSoFar

\* Every fact about the scheduler and the controller that follows from their
\* inductive invariants holds of a run with faults up to its exception.
THEOREM FaultyInvariance == FaultySpec => []SoundSoFar
<1>1. FaultyInit => SoundSoFar
  BY InitIInv, InitRunIInv DEF FaultyInit, RunInit, SoundSoFar
<1>2. SoundSoFar /\ [FaultyNext]_faultyVars => SoundSoFar'
  BY SoundSoFarKept
<1> QED BY <1>1, <1>2, PTL DEF FaultySpec

\* With validate_task and the resource pool at fault, too, the controller's map
\* holds exactly the nodes that are submitted and not passed on.
THEOREM FaultyCompletionsFindTheirNode == FaultySpec => []ControllerConsistent
<1>1. SoundSoFar => ControllerConsistent
  BY DEF SoundSoFar, RunIInv, ControllerConsistent
<1> QED BY <1>1, FaultyInvariance, PTL

------------------------------------------------------------------------------
(* The units that a list of requirements asks for *)

LEMMA Least ==
  ASSUME NEW S, S \subseteq Nat, S # {}
  PROVE  \E x \in S : \A y \in S : x <= y
<1>1. PICK x \in S : \A y \in S : <<y, x>> \notin OpToRel(<, Nat)
  BY NatLessThanWellFounded, WFMin
<1>2. \A y \in S : ~(y < x)
  <2> TAKE y \in S
  <2>1. <<y, x>> \in Nat \X Nat /\ <<y, x>>[1] = y /\ <<y, x>>[2] = x
    OBVIOUS
  <2> QED BY <1>1, <2>1 DEF OpToRel
<1> QED BY <1>2

LEMMA Greatest ==
  ASSUME NEW S, S \subseteq Nat, S # {}, NEW n \in Nat, \A x \in S : x <= n
  PROVE  \E x \in S : \A y \in S : y <= x
<1> DEFINE T == {n - x : x \in S}
<1>1. T \subseteq Nat /\ T # {}
  <2>1. \A x \in S : n - x \in Nat
    OBVIOUS
  <2>2. T \subseteq Nat
    BY <2>1
  <2>3. PICK x \in S : TRUE
    OBVIOUS
  <2>4. n - x \in T
    OBVIOUS
  <2> QED BY <2>2, <2>4
<1>2. PICK z \in T : \A y \in T : z <= y
  BY <1>1, Least
<1>3. PICK x \in S : z = n - x
  OBVIOUS
<1>4. \A y \in S : n - x <= n - y
  BY <1>2, <1>3
<1> QED BY <1>4

\* The requirements of a stage that a task has still to complete
LEMMA ListTyped ==
  ASSUME IInv, requirements \in RequirementSets, NEW t \in Task, ~Finished(t)
  PROVE  /\ List(t) \in Seq(RequirementType)
         /\ \A r \in Resource :
              Cardinality(UnitsOf(List(t), Len(List(t)), r)) = Stage(t).demand[r]
         /\ stageIndex[t] \in DOMAIN requirements[t]
<1>1. stageIndex[t] \in DOMAIN Stages[t]
  BY StageTyped DEF IInv
<1>2. /\ DOMAIN requirements[t] = DOMAIN Stages[t]
      /\ \A k \in DOMAIN requirements[t] : IsListOf(requirements[t][k], Stages[t][k])
  BY FaultAssumption DEF FaultAssumption
<1> QED BY <1>1, <1>2 DEF IsListOf, List, Stage

\* The units of one requirement, and of all that come before it
LEMMA RequirementTyped ==
  ASSUME NEW list \in Seq(RequirementType), NEW i \in DOMAIN list
  PROVE  /\ i \in Nat \ {0} /\ i <= Len(list) /\ Len(list) \in Nat
         /\ list[i].resource \in Resource /\ list[i].units \in Nat
<1>1. i \in 1..Len(list) /\ Len(list) \in Nat /\ list[i] \in RequirementType
  OBVIOUS
<1> QED BY <1>1 DEF RequirementType

LEMMA UnitsOfFinite ==
  ASSUME NEW list \in Seq(RequirementType), NEW n \in 0..Len(list), NEW r
  PROVE  IsFiniteSet(UnitsOf(list, n, r)) /\ Cardinality(UnitsOf(list, n, r)) \in Nat
<1> DEFINE J == {j \in 1..n : list[j].resource = r}
           F == {{i} \X (1..list[i].units) : i \in J}
<1>1. n \in Nat /\ \A j \in J : j \in DOMAIN list
  BY DEF RequirementType
<1>2. IsFiniteSet(J)
  <2>1. IsFiniteSet(1..n) /\ J \subseteq 1..n
    BY <1>1, FS_Interval
  <2> QED BY <2>1, FS_Subset
<1>3. IsFiniteSet(F)
  <2> DEFINE f == [i \in J |-> {i} \X (1..list[i].units)]
  <2>1. f \in [J -> F] /\ \A A \in F : \E i \in J : f[i] = A
    OBVIOUS
  <2>2. f \in Surjection(J, F)
    BY <2>1 DEF Surjection
  <2> QED BY <1>2, <2>2, FS_Surjection
<1>4. \A A \in F : IsFiniteSet(A)
  <2> SUFFICES ASSUME NEW i \in J PROVE IsFiniteSet({i} \X (1..list[i].units))
    OBVIOUS
  <2>1. list[i].units \in Nat
    BY <1>1, RequirementTyped
  <2> QED BY <2>1, UnitsCardinality DEF Units
<1>5. IsFiniteSet(UNION F)
  BY <1>3, <1>4, FS_UNION
<1> QED BY <1>5, FS_CardinalityType DEF UnitsOf

\* What the allocations take before one of them throws is within the capacity.
LEMMA PartlyFits ==
  ASSUME inUse \in [Resource -> Nat], \A r \in Resource : inUse[r] <= Capacity[r],
         NEW list \in Seq(RequirementType), \E i \in DOMAIN list : AllocateThrows(list, i)
  PROVE  \A r \in Resource :
           PartlyInUse(list)[r] <= Capacity[r] /\ PartlyInUse(list)[r] >= inUse[r]
<1> DEFINE I == {i \in DOMAIN list : AllocateThrows(list, i)}
           f == FirstThrow(list)
<1>1. \A i \in DOMAIN list : i \in Nat \ {0} /\ i <= Len(list)
  BY RequirementTyped
<1>2. f \in DOMAIN list /\ \A j \in 1..(f - 1) : ~AllocateThrows(list, j)
  <2>1. PICK i \in I : \A j \in I : i <= j
    BY <1>1, Least
  <2>2. \A j \in 1..(i - 1) : j \in DOMAIN list /\ ~(i <= j)
    <3>1. i \in Nat /\ i <= Len(list) /\ Len(list) \in Nat
      BY RequirementTyped
    <3> QED BY <3>1
  <2>3. \E k \in DOMAIN list :
          AllocateThrows(list, k) /\ \A j \in 1..(k - 1) : ~AllocateThrows(list, j)
    BY <2>1, <2>2
  <2> QED BY <2>3 DEF FirstThrow
<1>3. f - 1 \in 0..Len(list) /\ Len(list) \in Nat /\ 1..(f - 1) \subseteq DOMAIN list
  <2>1. f \in Nat \ {0} /\ f <= Len(list) /\ Len(list) \in Nat
    BY <1>2, RequirementTyped
  <2> QED BY <2>1
<1> SUFFICES ASSUME NEW r \in Resource
             PROVE  /\ inUse[r] + Cardinality(UnitsOf(list, f - 1, r)) <= Capacity[r]
                    /\ inUse[r] + Cardinality(UnitsOf(list, f - 1, r)) >= inUse[r]
  BY DEF PartlyInUse
<1>4. /\ inUse[r] \in Nat /\ inUse[r] <= Capacity[r]
      /\ Cardinality(UnitsOf(list, f - 1, r)) \in Nat
  BY <1>3, UnitsOfFinite
<1> DEFINE J == {j \in 1..(f - 1) : list[j].resource = r}
<1>5. CASE J = {}
  <2>1. UnitsOf(list, f - 1, r) = {}
    BY <1>5 DEF UnitsOf
  <2>2. Cardinality(UnitsOf(list, f - 1, r)) = 0
    BY <2>1, FS_EmptySet
  <2> QED BY <1>4, <2>2
<1>6. CASE J # {}
  <2>1. PICK l \in J : \A j \in J : j <= l
    <3>1. J \subseteq Nat /\ f - 1 \in Nat /\ \A j \in J : j <= f - 1
      BY <1>3
    <3> QED BY <1>6, <3>1, Greatest
  <2>2. l \in Nat /\ l <= f - 1 /\ f - 1 \in Nat /\ list[l].resource = r
    BY <1>3
  <2>3. {j \in 1..l : list[j].resource = r} = J
    BY <2>1, <2>2
  <2>4. UnitsOf(list, l, r) = UnitsOf(list, f - 1, r)
    BY <2>3 DEF UnitsOf
  <2>5. ~(inUse[r] + Cardinality(UnitsOf(list, l, r)) > Capacity[r])
    BY <1>2, <2>2 DEF AllocateThrows
  <2>6. Capacity[r] \in Nat
    BY SchedulerAssumption DEF SchedulerAssumption
  <2> QED BY <1>4, <2>4, <2>5, <2>6
<1> QED BY <1>5, <1>6

\* An allocation throws although each requirement was looked at only if two of
\* them are for the same resource.
LEMMA ThrowsNamingTwice ==
  ASSUME inUse \in [Resource -> Nat], NEW list \in Seq(RequirementType),
         CanAllocateEach(list), NEW i \in DOMAIN list, AllocateThrows(list, i)
  PROVE  \E j \in DOMAIN list : i # j /\ list[i].resource = list[j].resource
<1> DEFINE r == list[i].resource
           J == {j \in 1..i : list[j].resource = r}
<1> SUFFICES ASSUME \A j \in DOMAIN list : j # i => list[j].resource # r
             PROVE  FALSE
  OBVIOUS
<1>1. /\ i \in Nat \ {0} /\ i <= Len(list) /\ Len(list) \in Nat
      /\ r \in Resource /\ list[i].units \in Nat
  BY RequirementTyped
<1>2. J = {i}
  <2>1. i \in 1..i /\ \A j \in 1..i : j \in DOMAIN list
    BY <1>1
  <2> QED BY <2>1
<1>3. UnitsOf(list, i, r) = Units(i, list[i].units)
  BY <1>2 DEF UnitsOf, Units
<1>4. Cardinality(UnitsOf(list, i, r)) = list[i].units
  BY <1>1, <1>3, UnitsCardinality
<1>5. inUse[r] + list[i].units <= Capacity[r] /\ Capacity[r] \in Nat
  BY <1>1, SchedulerAssumption DEF CanAllocateEach, SchedulerAssumption
<1> QED BY <1>1, <1>4, <1>5 DEF AllocateThrows

------------------------------------------------------------------------------
(* The exception *)

\* A start that throws is one of a task of the workload that waits or was just
\* taken from the event queue, and leaves all but the pool and the queue alone.
LEMMA StartFails ==
  ASSUME IInv, FaultyStep \/ FaultyDrain, aborted', ~aborted
  PROVE  \E t \in Task : /\ t \in tasks /\ ~Finished(t)
                         /\ \E limit : StartThrows(t, limit)
                         /\ inUse' = PartlyInUse(List(t))
                         /\ UNCHANGED <<active, stageIndex, tasks>>
<1>1. CASE FaultyStep
  <2>1. PICK e \in eventQueue : FaultyReady(e)
    BY <1>1 DEF FaultyStep
  <2>2. PICK h \in EvaluatePolicyHook(waitingQueue, waitingSet, admissionLimit) :
          StartThrows(e.id, h.limit) /\ FailStart(e.id)
    BY <2>1 DEF FaultyReady
  <2>3. e.id \in Task /\ e.id \in tasks /\ ~Finished(e.id)
    BY EventOwner
  <2>4. UNCHANGED <<stageIndex, tasks>>
    BY <2>1 DEF FaultyReady, TakeReady
  <2> QED BY <2>2, <2>3, <2>4 DEF FailStart
<1>2. CASE FaultyDrain
  <2>1. PICK h \in EvaluatePolicyHook(waitingQueue, waitingSet, admissionLimit) :
          /\ StartThrows(Head(h.queue), h.limit) /\ FailStart(Head(h.queue))
          /\ UNCHANGED <<tasks, stageIndex>>
    BY <1>2 DEF FaultyDrain
  <2> DEFINE t == Head(h.queue)
  <2>2. t \in waitingSet
    <3>1. /\ waitingQueue # <<>> /\ waitingQueue \in Seq(Task)
          /\ waitingSet \in SUBSET Task
      BY <1>2 DEF FaultyDrain, IInv, TypeOK, DrainHasWork
    <3>2. Range(waitingQueue) = waitingSet /\ admissionLimit \in Nat \cup {NoLimit}
      BY DEF IInv, TypeOK, WaitingConsistent
    <3>3. /\ h.queue \in Seq(Task) /\ Range(h.queue) = waitingSet
          /\ IsInjective(h.queue) /\ h.queue # <<>>
      BY <3>1, <3>2, HookKeepsQueue DEF HookResult
    <3> QED BY <3>3, HeadTail
  <2>3. t \in Task /\ t \in tasks /\ ~Finished(t)
    BY <2>2 DEF IInv, TypeOK, OnePlace, InFlight
  <2> QED BY <2>1, <2>3 DEF FailStart
<1> QED BY <1>1, <1>2

\* The tasks that the scheduler has are of the workload.
LEMMA TasksUsed ==
  ASSUME RunIInv, ~aborted
  PROVE  tasks \subseteq Used
<1>1. DOMAIN PlainTasks = 1..Len(PlainTasks) /\ Len(PlainTasks) \in Nat
      /\ nextTask \in 1..Len(PlainTasks) + 1
  <2> DEFINE R == [id : Task, arrival : ArrivalTimes]
  <2>1. PlainTasks \in Seq(R)
    BY DagAssumption DEF DagAssumption
  <2> HIDE DEF R
  <2> QED BY <2>1, Lengths DEF RunIInv, RunTypeOK
<1>2. PlainIds \subseteq Used
  <2> SUFFICES ASSUME NEW i \in 1..nextTask - 1
               PROVE  PlainTasks[i].id \in Used
    BY DEF PlainIds
  <2>1. i \in DOMAIN PlainTasks
    BY <1>1
  <2>2. PlainTasks[i] \in Range(PlainTasks)
    BY <2>1 DEF Range
  <2> QED BY <2>2 DEF Used
<1>3. NodeIds \subseteq Used
  BY DEF NodeIds, Used
<1> QED BY <1>2, <1>3 DEF RunIInv, SubmittedApart

\* A refusal or a collision leaves the scheduler as it was.
LEMMA SubmissionFails ==
  ASSUME IInv, RunIInv, FaultyNext, aborted', ~aborted, ~FaultyStep, ~FaultyDrain
  PROVE  UNCHANGED vars /\ (IdsCollide \/ Used \cap refused # {})
<1>1. ASSUME [RunNext]_runVars
      PROVE  IdsCollide /\ UNCHANGED vars
  BY <1>1, CollisionEnds
<1>2. CASE FaultySubmitPlainTask
  <2>1. CASE SubmitPlainTask
    BY <1>1, <2>1 DEF RunNext
  <2>2. CASE /\ nextTask <= Len(PlainTasks) /\ PlainTasks[nextTask].id \in refused
             /\ UNCHANGED vars
    <3>1. nextTask \in DOMAIN PlainTasks
      <4> DEFINE R == [id : Task, arrival : ArrivalTimes]
      <4>1. PlainTasks \in Seq(R)
        BY DagAssumption DEF DagAssumption
      <4> HIDE DEF R
      <4> QED BY <2>2, <4>1, Lengths DEF RunIInv, RunTypeOK
    <3>2. PlainTasks[nextTask].id \in Used
      BY <3>1 DEF Used, Range
    <3> QED BY <2>2, <3>2
  <2> QED BY <1>2, <2>1, <2>2 DEF FaultySubmitPlainTask
<1>3. ASSUME NEW n \in Node, FaultyRegister(n)
      PROVE  UNCHANGED vars /\ (IdsCollide \/ Used \cap refused # {})
  <2>1. CASE Register(n)
    BY <1>1, <2>1 DEF RunNext
  <2>2. CASE NodeId(n) \in refused /\ UNCHANGED vars
    BY <2>2 DEF Used
  <2> QED BY <1>3, <2>1, <2>2 DEF FaultyRegister
<1>4. ~SubmitInitial /\ ~HandleTaskCompletion
  BY DEF SubmitInitial, HandleTaskCompletion
<1> QED BY <1>2, <1>3, <1>4 DEF FaultyNext

\* The units in use are those of the stages being served.
LEMMA UnitsHeldKept ==
  ASSUME UNCHANGED <<active, stageIndex>>, NEW r
  PROVE  UnitsHeld(r)' = UnitsHeld(r)
BY DEF UnitsHeld, ActiveTasks, Stage

WhatFailsLeaves ==
  requirements \in RequirementSets /\ UnitsWithinCapacity /\ AbortsForAReason

\* The step that ends a run.
LEMMA ExceptionSafe ==
  ASSUME IInv, RunIInv, requirements \in RequirementSets,
         FaultyNext, aborted', ~aborted
  PROVE  UnitsWithinCapacity' /\ AbortsForAReason'
<1>1. /\ inUse \in [Resource -> Nat]
      /\ \A r \in Resource : inUse[r] <= Capacity[r] /\ inUse[r] = Cardinality(UnitsHeld(r))
  BY DEF IInv, TypeOK, UnitsAccounted
<1>2. UNCHANGED <<requirements, refused>>
  BY DEF FaultyNext
<1>3. CASE ~FaultyStep /\ ~FaultyDrain
  <2>1. UNCHANGED vars /\ (IdsCollide \/ Used \cap refused # {})
    BY <1>3, SubmissionFails
  <2>2. UNCHANGED <<inUse, active, stageIndex>>
    BY <2>1 DEF vars, runtimeVars
  <2>3. UnitsWithinCapacity'
    BY <1>1, <2>2, UnitsHeldKept DEF UnitsWithinCapacity
  <2>4. AbortsForAReason'
    BY <1>2, <2>1 DEF AbortsForAReason, IdsCollide, Used
  <2> QED BY <2>3, <2>4
<1>4. CASE FaultyStep \/ FaultyDrain
  <2>1. PICK t \in Task : /\ t \in tasks /\ ~Finished(t)
                          /\ \E limit : StartThrows(t, limit)
                          /\ inUse' = PartlyInUse(List(t))
                          /\ UNCHANGED <<active, stageIndex, tasks>>
    BY <1>4, StartFails
  <2> DEFINE list == List(t)
  <2>2. list \in Seq(RequirementType) /\ stageIndex[t] \in DOMAIN requirements[t]
    BY <2>1, ListTyped
  <2>3. CanAllocateEach(list) /\ \E i \in DOMAIN list : AllocateThrows(list, i)
    BY <2>1 DEF StartThrows
  <2>4. \A r \in Resource : inUse'[r] <= Capacity[r] /\ inUse'[r] >= inUse[r]
    <3> HIDE DEF list
    <3> QED BY <1>1, <2>1, <2>2, <2>3, PartlyFits DEF list
  <2>5. UnitsWithinCapacity'
    BY <1>1, <2>1, <2>4, UnitsHeldKept DEF UnitsWithinCapacity
  <2>6. PICK i \in DOMAIN list : AllocateThrows(list, i)
    BY <2>3
  <2>7. \E j \in DOMAIN list : i # j /\ list[i].resource = list[j].resource
    <3> HIDE DEF list
    <3> QED BY <1>1, <2>2, <2>3, <2>6, ThrowsNamingTwice
  <2>8. NamesTwice(t)
    BY <2>2, <2>6, <2>7 DEF NamesTwice, List
  <2>9. t \in Used
    BY <2>1, TasksUsed
  <2>10. NamesTwice(t)' /\ Used' = Used
    BY <1>2, <2>8 DEF NamesTwice, Used
  <2> QED BY <2>5, <2>9, <2>10 DEF AbortsForAReason
<1> QED BY <1>3, <1>4

LEMMA FaultyExceptions == FaultySpec => []WhatFailsLeaves
<1>1. FaultyInit => WhatFailsLeaves
  <2> SUFFICES ASSUME FaultyInit PROVE WhatFailsLeaves
    OBVIOUS
  <2>1. UnitsAccounted /\ ~aborted
    BY InitIInv DEF FaultyInit, RunInit, IInv
  <2>2. UnitsWithinCapacity
    <3>1. inUse \in [Resource -> Nat]
      BY InitIInv DEF FaultyInit, RunInit, IInv, TypeOK
    <3> QED BY <2>1, <3>1 DEF UnitsAccounted, UnitsWithinCapacity
  <2> QED BY <2>1, <2>2 DEF FaultyInit, WhatFailsLeaves, AbortsForAReason
<1>2. ASSUME WhatFailsLeaves, SoundSoFar, SoundSoFar', [FaultyNext]_faultyVars
      PROVE  WhatFailsLeaves'
  <2>1. requirements' \in RequirementSets
    BY <1>2 DEF WhatFailsLeaves, FaultyNext, faultyVars
  <2>2. CASE ~aborted'
    <3>1. IInv'
      BY <1>2, <2>2 DEF SoundSoFar
    <3>2. UnitsWithinCapacity'
      BY <3>1 DEF IInv, TypeOK, UnitsAccounted, UnitsWithinCapacity
    <3> QED BY <2>1, <2>2, <3>2 DEF WhatFailsLeaves, AbortsForAReason
  <2>3. CASE aborted
    <3>1. UNCHANGED <<runVars, requirements, refused>>
      BY <1>2, <2>3, SoundSoFarKept DEF FaultyNext, faultyVars
    <3>2. UNCHANGED <<inUse, active, stageIndex, aborted>>
      BY <3>1 DEF runVars, vars, runtimeVars, dagVars
    <3>3. UnitsWithinCapacity'
      BY <1>2, <3>2, UnitsHeldKept DEF WhatFailsLeaves, UnitsWithinCapacity
    <3>4. AbortsForAReason'
      BY <1>2, <3>1, <3>2 DEF WhatFailsLeaves, AbortsForAReason, IdsCollide, Used, NamesTwice
    <3> QED BY <2>1, <3>3, <3>4 DEF WhatFailsLeaves
  <2>4. CASE aborted' /\ ~aborted
    <3>1. FaultyNext
      BY <1>2, <2>4 DEF faultyVars, runVars, dagVars
    <3>2. IInv /\ RunIInv /\ requirements \in RequirementSets
      BY <1>2, <2>4 DEF SoundSoFar, WhatFailsLeaves
    <3> QED BY <2>1, <2>4, <3>1, <3>2, ExceptionSafe DEF WhatFailsLeaves
  <2> QED BY <2>2, <2>3, <2>4
<1>3. SoundSoFar /\ WhatFailsLeaves /\ SoundSoFar' /\ [FaultyNext]_faultyVars => WhatFailsLeaves'
  BY <1>2
<1> QED BY <1>1, <1>3, FaultyInvariance, PTL DEF FaultySpec

\* Even when the allocations of a stage come to a sudden end, the pool has handed
\* out no more than it has, and not forgotten a stage that is being served.
THEOREM UnitsStayWithinCapacity == FaultySpec => []UnitsWithinCapacity
<1>1. WhatFailsLeaves => UnitsWithinCapacity
  BY DEF WhatFailsLeaves
<1> QED BY <1>1, FaultyExceptions, PTL

\* A run fails because of a collision of ids, a refused task or a stage that names
\* a resource twice, and for no other reason.
THEOREM AbortsHaveAReason == FaultySpec => []AbortsForAReason
<1>1. WhatFailsLeaves => AbortsForAReason
  BY DEF WhatFailsLeaves
<1> QED BY <1>1, FaultyExceptions, PTL

\* The nodes are submitted and completed in order in runs with faults, too.
THEOREM FaultyRunImplementsOrder == FaultySpec => Order!Spec
<1>1. FaultyInit => Order!Init
  BY DEF FaultyInit, RunInit, Order!Init
<1>2. ASSUME SoundSoFar, [FaultyNext]_faultyVars
      PROVE  [Order!Next]_<<released \ registering, completed>>
  <2>1. CASE ~aborted'
    <3>1. [RunNext]_runVars
      BY <1>2, <2>1, SoundStep
    <3>2. ~aborted
      BY <1>2, <2>1, SoundSoFarKept DEF runVars, dagVars
    <3> QED BY <1>2, <3>1, <3>2, StepInOrder DEF SoundSoFar
  <2>2. CASE aborted
    <3>1. UNCHANGED runVars
      BY <1>2, <2>2, SoundSoFarKept
    <3> QED BY <3>1 DEF runVars, dagVars, nodeVars
  <2>3. CASE aborted' /\ ~aborted
    <3>1. UNCHANGED <<released, completed, registering>>
      BY <1>2, <2>3 DEF FaultyNext, FaultySubmitPlainTask, SubmitPlainTask, SubmitInitial,
         FaultyRegister, Register, FaultyStep, FaultyDrain, HandleTaskCompletion, nodeVars,
         faultyVars, runVars, dagVars
    <3> QED BY <3>1
  <2> QED BY <2>1, <2>2, <2>3
<1>3. SoundSoFar /\ [FaultyNext]_faultyVars
        => [Order!Next]_<<released \ registering, completed>>
  BY <1>2
<1> QED BY <1>1, <1>3, FaultyInvariance, PTL DEF FaultySpec, Order!Spec

==============================================================================
