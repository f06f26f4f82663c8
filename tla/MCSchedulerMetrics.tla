-------------------------- MODULE MCSchedulerMetrics --------------------------
(***************************************************************************)
(* Instances of SchedulerMetrics for TLC.                                  *)
(***************************************************************************)
EXTENDS RunMetrics, TLC

MCResource == {"host_cpu", "nic_cpu"}
MCCapacity == [r \in MCResource |-> 2]

Needs(host, nic, durations) ==
  [demand |-> ("host_cpu" :> host @@ "nic_cpu" :> nic), service |-> durations]

\* Four tasks that compete for both domains, with different scores.
SkewedStages ==
  <<<<Needs(2, 0, {2})>>,
    <<Needs(1, 2, {1}), Needs(1, 0, {1})>>,
    <<Needs(2, 1, {1})>>,
    <<Needs(1, 1, {1})>>>>

\* A task that keeps the host busy for longer than the window, and a late one.
BusyStages == <<<<Needs(2, 0, {3})>>, <<Needs(0, 1, {1})>>>>

NoRules == <<>>

WhenQueue(op, num, den) ==
  [metric |-> "queue_avg", op |-> op, value |-> [num |-> num, den |-> den]]
WhenNic(op, num, den) ==
  [metric |-> "nic_util_avg", op |-> op, value |-> [num |-> num, den |-> den]]
AnyTask == [label |-> Absent, index |-> Absent]
Rule(when, action) ==
  [when |-> when, metadata |-> TRUE, task |-> AnyTask, action |-> action]

\* policies/examples/adaptive.dsl.yaml
AdaptiveRules ==
  <<Rule(WhenQueue(">", 1, 2), [type |-> "reorder", preferHost |-> FALSE]),
    Rule(WhenNic(">", 7, 10), [type |-> "reorder", preferHost |-> TRUE]),
    Rule(WhenQueue("<=", 1, 5), [type |-> "admission", limit |-> 2])>>

\* Decisions that the other policies do not use
KeepAll == {[order |-> <<>>, admission |-> Keep]}

\* Decisions of the policy "any"
SomeDecisions ==
  {[order |-> o, admission |-> a] : o \in {<<>>, <<3, 2, 1>>}, a \in {Keep, 1, NoLimit}}
===============================================================================
