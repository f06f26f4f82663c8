---------------------------- MODULE WorkloadLoader ----------------------------
(***************************************************************************)
(* What load_workload_from_file (sim/src/workload_loader.cc) makes of a    *)
(* document, and make_tasks_from_spec and TaskDagRuntime's constructor of  *)
(* the result.  A function that may throw is a predicate, which holds if   *)
(* it does not, and the value it returns then.                             *)
(*                                                                         *)
(* Numbers are integers: Numeral gives the value of the texts that are     *)
(* one.  The name, version and description of a workload are left out,     *)
(* except that they must be there.  That a DAG has no cycle and no node    *)
(* out of reach is stated here; DagValidation is about how it is found.    *)
(***************************************************************************)
EXTENDS YamlDocument

CONSTANTS
  LowerCase, \* LowerCase[text] of the texts with capitals
  IdBits     \* the width of a TaskId: 64

MaxId == 2 ^ IdBits - 1

ASSUME LoaderAssumption ==
  /\ IdBits \in Nat /\ MaxId \in Nat
  /\ \A text \in DOMAIN Numeral : Numeral[text] \in Int

ResourceClass == {"host_cpu", "host_dram", "host_link", "nic_cpu", "nic_dram", "nic_link"}

------------------------------------------------------------------------------
(* Texts and ids *)

Lower(text) == IF text \in DOMAIN LowerCase THEN LowerCase[text] ELSE text

\* parse_uint64: stoull takes a minus sign, and negates within the type.
Id(node, key) == Number(node, key) % (MaxId + 1)

------------------------------------------------------------------------------
(* Stages *)

IsDemand(node) ==
  /\ HasKind(node, "resource", "scalar") /\ HasNumber(node, "units")
  /\ Text(node, "resource") \in ResourceClass

Demand(node) == [resource |-> Text(node, "resource"), units |-> Number(node, "units")]

IsProfile(node) ==
  /\ HasKind(node, "key", "scalar") /\ HasKind(node, "domain", "scalar")
  /\ Text(node, "domain") \in {"host", "nic"}
  /\ MayHave(node, "mode", "scalar")
  /\ Optional(node, "mode") \in {Absent, "deterministic", "stochastic"}

\* The domain and the key of the profile; its mode does not matter here.
Profile(node, field) == IF Has(node, "service_profile")
                        THEN Text(Field(node, "service_profile"), field) ELSE Absent

HasServiceTime(node) ==
  Has(node, "deterministic_service_time") \/ Has(node, "service_profile")

IsStage(node) ==
  /\ MayHaveNumber(node, "deterministic_service_time")
  /\ MayHave(node, "service_profile", "map")
  /\ Has(node, "service_profile") => IsProfile(Field(node, "service_profile"))
  /\ HasServiceTime(node)
  /\ HasKind(node, "demands", "sequence")
  /\ \A i \in DOMAIN Items(node, "demands") : IsDemand(Items(node, "demands")[i])
  /\ MayHave(node, "placement_default", "scalar")
  /\ MayHave(node, "placement_eligible", "sequence")
  /\ AllScalars(Items(node, "placement_eligible"))
  /\ \A key \in {"instructions", "bytes_in", "bytes_out"} : MayHaveNumber(node, key)

\* parse_stage
Stage(node) ==
  LET demands == Items(node, "demands")
      eligible == Texts(Items(node, "placement_eligible"))
      hint == Optional(node, "placement_default")
  IN [time |-> IF Has(node, "deterministic_service_time")
               THEN Number(node, "deterministic_service_time") ELSE Absent,
      profile |-> Profile(node, "domain"),
      key |-> Profile(node, "key"),
      demands |-> [i \in DOMAIN demands |-> Demand(demands[i])],
      hint |-> IF hint = Absent THEN Absent ELSE Lower(hint),
      eligible |-> [i \in DOMAIN eligible |-> Lower(eligible[i])]]

\* validate_stage
StageIsSound(stage) ==
  /\ stage.time # Absent => stage.time >= 0
  /\ \A i \in DOMAIN stage.demands : stage.demands[i].units >= 0

------------------------------------------------------------------------------
(* Tasks *)

HasIdAndArrival(node) == HasNumber(node, "id") /\ HasNumber(node, "arrival_time")

IsLinearTask(node) ==
  /\ HasIdAndArrival(node) /\ HasKind(node, "stages", "sequence")
  /\ Items(node, "stages") # <<>>
  /\ \A i \in DOMAIN Items(node, "stages") : IsStage(Items(node, "stages")[i])

\* parse_linear_task
LinearTask(node) ==
  LET stages == Items(node, "stages") IN
  [id |-> Id(node, "id"), arrival |-> Number(node, "arrival_time"),
   stages |-> [i \in DOMAIN stages |-> Stage(stages[i])]]

IsStageNode(node) ==
  /\ HasKind(node, "name", "scalar") /\ Has(node, "stage")
  /\ IsStage(Field(node, "stage"))
  /\ MayHave(node, "successors", "sequence") /\ AllScalars(Items(node, "successors"))

\* parse_stage_node
StageNode(node) ==
  [name |-> Text(node, "name"), stage |-> Stage(Field(node, "stage")),
   successors |-> Texts(Items(node, "successors"))]

\* What parse_task_dag and validate_task_dag_spec ask of the graph
IsDag(nodes, entries) ==
  LET names == {nodes[i].name : i \in DOMAIN nodes}
      After(name) ==
        UNION {ToSet(nodes[i].successors) : i \in {j \in DOMAIN nodes : nodes[j].name = name}}
  IN /\ nodes # <<>> /\ Cardinality(names) = Len(nodes)
     /\ \A name \in names : After(name) \subseteq names
     /\ entries # <<>> /\ ToSet(entries) \subseteq names
     /\ Cardinality(ToSet(entries)) = Len(entries)
     /\ \A S \in SUBSET names :
          /\ S # {} => \E name \in S : \A m \in S : name \notin After(m)
          /\ ToSet(entries) \subseteq S /\ (\A m \in S : After(m) \subseteq S) => S = names

\* The nodes of a "dag"
DagNodes(dag) == [i \in DOMAIN Items(dag, "nodes") |-> StageNode(Items(dag, "nodes")[i])]

\* The entry points given, or else the nodes that are nobody's successor, sorted
EntryPoints(dag, nodes) ==
  IF Items(dag, "entry") # <<>> THEN Texts(Items(dag, "entry"))
  ELSE LET after == UNION {ToSet(nodes[i].successors) : i \in DOMAIN nodes}
       IN SetToSeq({nodes[i].name : i \in DOMAIN nodes} \ after)

\* What parse_task_dag throws for, validate_task_dag_spec included, which looks
\* for numbers below 0 that a linear task may have.
IsDagTask(node) ==
  /\ HasIdAndArrival(node) /\ HasKind(node, "dag", "map")
  /\ Number(node, "arrival_time") >= 0
  /\ LET dag == Field(node, "dag") IN
     /\ HasKind(dag, "nodes", "sequence")
     /\ \A i \in DOMAIN Items(dag, "nodes") : IsStageNode(Items(dag, "nodes")[i])
     /\ MayHave(dag, "entry", "sequence") /\ AllScalars(Items(dag, "entry"))
     /\ IsDag(DagNodes(dag), EntryPoints(dag, DagNodes(dag)))
     /\ \A i \in DOMAIN DagNodes(dag) : StageIsSound(DagNodes(dag)[i].stage)

\* parse_task_dag
DagTask(node) ==
  LET dag == Field(node, "dag") IN
  [id |-> Id(node, "id"), arrival |-> Number(node, "arrival_time"),
   nodes |-> DagNodes(dag), entries |-> EntryPoints(dag, DagNodes(dag))]

\* Mutant: a task with both keys is taken for a DAG.
IsTask_both(node) == IF Has(node, "dag") THEN IsDagTask(node) ELSE IsLinearTask(node)

IsTask(node) ==
  /\ ~(Has(node, "stages") /\ Has(node, "dag"))
  /\ IF Has(node, "dag") THEN IsDagTask(node) ELSE IsLinearTask(node)

\* load_workload_from_file, of the root of the document
IsWorkload(root) ==
  /\ \A key \in {"schema_version", "workload_name", "description"} :
       HasKind(root, key, "scalar")
  /\ HasKind(root, "tasks", "sequence")
  /\ Items(root, "tasks") # <<>>
  /\ \A i \in DOMAIN Items(root, "tasks") : IsTask(Items(root, "tasks")[i])

Empty == [tasks |-> <<>>, dags |-> <<>>]

\* The workload with the task of a node: its linear tasks and its DAGs are apart.
WithTask(spec, node) ==
  IF Has(node, "dag") THEN [spec EXCEPT !.dags = Append(@, DagTask(node))]
  ELSE [spec EXCEPT !.tasks = Append(@, LinearTask(node))]

Workload(root) ==
  LET nodes == Items(root, "tasks")
      spec[n \in 0..Len(nodes)] == IF n = 0 THEN Empty ELSE WithTask(spec[n - 1], nodes[n])
  IN spec[Len(nodes)]

------------------------------------------------------------------------------
(* make_tasks_from_spec and DagSubmissionController::from_spec *)

\* What the two throw for; the second refuses ids of nodes that overflow.
IsRunnable(spec) ==
  /\ \A i \in DOMAIN spec.tasks :
       LET task == spec.tasks[i] IN
       task.arrival >= 0 /\ \A k \in DOMAIN task.stages : StageIsSound(task.stages[k])
  /\ \A i \in DOMAIN spec.dags :
       LET dag == spec.dags[i] IN
       /\ dag.arrival >= 0
       /\ dag.id + Len(dag.nodes) - 1 <= MaxId
       /\ \A k \in DOMAIN dag.nodes : StageIsSound(dag.nodes[k].stage)
===============================================================================
