--------------------------- MODULE MCPolicyProgram ---------------------------
(***************************************************************************)
(* An instance of PolicyProgram for TLC.                                   *)
(***************************************************************************)
EXTENDS PolicyProgram

AnyTask == [label |-> Absent, index |-> Absent]
ReduceTask == [label |-> "reduce", index |-> Absent]
SecondStage == [label |-> Absent, index |-> 1]

\* policies/examples: the queue builds up
QueueBuildsUp ==
  [metric |-> "queue_avg", op |-> ">", value |-> [num |-> 1, den |-> 2]]

ReorderRules ==
  {[when |-> w, metadata |-> TRUE, task |-> p,
    action |-> [type |-> "reorder", preferHost |-> h]] :
     w \in {Always, QueueBuildsUp}, p \in {AnyTask, ReduceTask, SecondStage},
     h \in BOOLEAN}

AdmissionRules ==
  {[when |-> w, metadata |-> m, task |-> p,
    action |-> [type |-> "admission", limit |-> n]] :
     w \in {Always}, m \in BOOLEAN, p \in {AnyTask, ReduceTask}, n \in {1, 2}}

MCRules == ReorderRules \cup AdmissionRules
MCPrograms == {<<r>> : r \in MCRules} \cup (MCRules \X MCRules)

Ids == 1..3
MapStage == [label |-> "map", index |-> 0]
ReduceStage == [label |-> "reduce", index |-> 1]

\* An idle system and one whose queue builds up
Averages ==
  {[m \in Metrics |-> [num |-> n, den |-> 1]] : n \in {0, 1}}

\* Queues of no, two and three tasks; equal and different scores.
MCSnapshots ==
  {[order |-> o, score |-> c, stage |-> g, average |-> a] :
     o \in {<<>>, <<2, 1>>, <<1, 2, 3>>, <<3, 1, 2>>},
     c \in {<<1, 1, -2>>, <<-1, 2, 3>>},
     g \in {<<MapStage, ReduceStage, ReduceStage>>,
            <<ReduceStage, MapStage, ReduceStage>>},
     a \in Averages}
==============================================================================
