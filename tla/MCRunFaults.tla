----------------------------- MODULE MCRunFaults -----------------------------
(***************************************************************************)
(* An instance of RunFaults for TLC: a workload with and without faults.   *)
(***************************************************************************)
EXTENDS RunFaults, TLC

MCResource == {"host_cpu", "nic_core"}

\* A hook that at any call may reorder the queue and set a limit for good.
DistinctPolicy ==
  {[order |-> <<>>, admission |-> Keep], [order |-> <<22, 21, 13>>, admission |-> 1]}

\* A task of two stages and two DAGs: a diamond whose last node is named twice
\* by one of its predecessors and is an entry point as well, and a chain.
DistinctIds == {1} \cup 11..14 \cup 21..22
DistinctPlain == <<[id |-> 1, arrival |-> 0]>>
DistinctDags ==
  <<[base |-> 11, arrival |-> 0,
     successors |-> <<<<2, 3>>, <<4>>, <<4, 4>>, <<>>>>, entries |-> <<1, 4>>],
    [base |-> 21, arrival |-> 1, successors |-> <<<<2>>, <<>>>>, entries |-> <<1>>]>>

\* The NIC has two units, so that a stage may ask for them one by one.
FaultyCapacity == "host_cpu" :> 1 @@ "nic_core" :> 2
Stage1(cpu, core, durations) ==
  <<[demand |-> ("host_cpu" :> cpu @@ "nic_core" :> core), service |-> durations]>>

\* The first task shares the NIC with node 12, which asks for all of it, and with
\* the nodes 13, on both resources, and 21.
FaultyStages ==
  1 :> (Stage1(1, 0, {1}) \o Stage1(0, 1, {1})) @@
  11 :> Stage1(1, 0, {1}) @@ 12 :> Stage1(0, 2, {0, 2}) @@ 13 :> Stage1(1, 1, {1}) @@
  14 :> Stage1(1, 0, {1}) @@ 21 :> Stage1(0, 1, {1, 2}) @@ 22 :> Stage1(1, 0, {0})

Host(units) == [resource |-> "host_cpu", units |-> units]
Nic(units) == [resource |-> "nic_core", units |-> units]

\* Node 12 asks for its two units at once, or one by one.
RequirementsWith(list) ==
  1 :> <<<<Host(1)>>, <<Nic(1)>>>> @@ 11 :> <<<<Host(1)>>>> @@ 12 :> <<list>> @@
  13 :> <<<<Host(1), Nic(1)>>>> @@ 14 :> <<<<Host(1)>>>> @@
  21 :> <<<<Nic(1)>>>> @@ 22 :> <<<<Host(1), Nic(0)>>>>
Requirements ==
  {RequirementsWith(<<Nic(2)>>), RequirementsWith(<<Nic(1), Host(0), Nic(1)>>)}

\* No task, the first one, the last node of the diamond, or a node of each DAG
Refusals == {{}, {1}, {14}, {12, 22}}
==============================================================================
