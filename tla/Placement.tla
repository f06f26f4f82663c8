------------------------------ MODULE Placement ------------------------------
(***************************************************************************)
(* What the placement benchmark (tools/placement/placement_benchmark.cc)   *)
(* does to a workload before it runs it: expand_workload makes a copy of   *)
(* it for each arrival, apply_placement_mode moves stages to the host or   *)
(* to the NIC.                                                             *)
(*                                                                         *)
(* A workload is [tasks, dags], a task [id, arrival, stages], a DAG        *)
(* [id, arrival, nodes, ...] of nodes [stage, ...], and a stage            *)
(* [profile, demands, hint, eligible, ...].  A side is "host" or "nic".    *)
(***************************************************************************)
EXTENDS Integers, Sequences, FiniteSets, Functions

CONSTANTS
  IdStride,  \* id_stride: 1'000'000
  IdRange,   \* ids are computed modulo IdRange: 2^64
  NoSide     \* StagePlacement::kNone; a hint or profile that is not there

Mode == {"host_pinned", "nic_pinned", "hint_respect"}

------------------------------------------------------------------------------
(* expand_workload *)

\* Mutant: the first two copies have the same ids.
CopyOf_samePair(entry, k, offset) ==
  [entry EXCEPT !.id = (@ + (IF k = 0 THEN 0 ELSE k - 1) * IdStride) % IdRange,
                !.arrival = @ + offset]

\* The copy of a task or DAG for the k-th arrival, from 0, at time offset
CopyOf(entry, k, offset) ==
  [entry EXCEPT !.id = (@ + k * IdStride) % IdRange, !.arrival = @ + offset]

\* The copies of all entries, arrival by arrival
Copies(entries, arrivals) ==
  [p \in 1..Len(arrivals) * Len(entries) |->
     LET k == (p - 1) \div Len(entries)
         i == ((p - 1) % Len(entries)) + 1
     IN CopyOf(entries[i], k, arrivals[k + 1])]

ExpandWorkload(base, arrivals) ==
  [tasks |-> Copies(base.tasks, arrivals), dags |-> Copies(base.dags, arrivals)]

------------------------------------------------------------------------------
(* apply_placement_mode *)

\* allows_placement
AllowsPlacement(stage, side) == stage.eligible = <<>> \/ side \in Range(stage.eligible)

\* The side a mode asks for; placement_from_hint knows no other hints than sides.
Wanted(stage, mode) ==
  CASE mode = "host_pinned" -> "host"
    [] mode = "nic_pinned" -> "nic"
    [] mode = "hint_respect" ->
         IF stage.hint \in {"host", "nic"} THEN stage.hint ELSE NoSide

\* choose_stage_placement
ChooseStagePlacement(stage, mode) ==
  LET side == Wanted(stage, mode) IN
  IF side # NoSide /\ AllowsPlacement(stage, side) THEN side ELSE NoSide

\* Mutant: links stay where they are.
RemapResource_notLinks(resource, side) ==
  CASE side = "host" /\ resource = "nic_cpu" -> "host_cpu"
    [] side = "host" /\ resource = "nic_dram" -> "host_dram"
    [] side = "nic" /\ resource = "host_cpu" -> "nic_cpu"
    [] side = "nic" /\ resource = "host_dram" -> "nic_dram"
    [] OTHER -> resource

\* remap_resource
RemapResource(resource, side) ==
  CASE side = "host" /\ resource = "nic_cpu" -> "host_cpu"
    [] side = "host" /\ resource = "nic_dram" -> "host_dram"
    [] side = "host" /\ resource = "nic_link" -> "host_link"
    [] side = "nic" /\ resource = "host_cpu" -> "nic_cpu"
    [] side = "nic" /\ resource = "host_dram" -> "nic_dram"
    [] side = "nic" /\ resource = "host_link" -> "nic_link"
    [] OTHER -> resource

MovedDemand(demand, side) == [demand EXCEPT !.resource = RemapResource(@, side)]

\* apply_stage_placement; a demand on a resource may come to stand next to another.
ApplyStagePlacement(stage, side) ==
  IF side = NoSide THEN stage
  ELSE [stage EXCEPT
          !.profile = IF @ = NoSide THEN @ ELSE side,
          !.demands = [i \in DOMAIN @ |-> MovedDemand(@[i], side)]]

PlacedStage(stage, mode) == ApplyStagePlacement(stage, ChooseStagePlacement(stage, mode))

PlacedNode(node, mode) == [node EXCEPT !.stage = PlacedStage(@, mode)]

\* apply_placement_mode
ApplyPlacementMode(workload, mode) ==
  [tasks |-> [i \in DOMAIN workload.tasks |->
     [workload.tasks[i] EXCEPT
        !.stages = [k \in DOMAIN @ |-> PlacedStage(@[k], mode)]]],
   dags |-> [i \in DOMAIN workload.dags |->
     [workload.dags[i] EXCEPT
        !.nodes = [k \in DOMAIN @ |-> PlacedNode(@[k], mode)]]]]

------------------------------------------------------------------------------
(* What the two are to preserve *)

\* The ids of a workload, as <<position, id>>: tasks, then nodes of DAGs
TaskIds(workload) ==
  {<<"task", i, workload.tasks[i].id>> : i \in DOMAIN workload.tasks}
NodeIds(workload) ==
  UNION {{<<"node", i, workload.dags[i].id + k - 1>> : k \in DOMAIN workload.dags[i].nodes} :
           i \in DOMAIN workload.dags}
Ids(workload) == TaskIds(workload) \cup NodeIds(workload)

\* No two tasks or nodes have the same id.
IdsApart(workload) == \A x, y \in Ids(workload) : x # y => x[3] # y[3]

\* All ids are below the stride.
IdsBelowStride(workload) == \A x \in Ids(workload) : x[3] \in 0..IdStride - 1

SideOf(resource) == IF resource \in {"host_cpu", "host_dram", "host_link"} THEN "host" ELSE "nic"
===============================================================================
