----------------------------- MODULE MCScheduler -----------------------------
(***************************************************************************)
(* Instances of Scheduler for TLC.                                         *)
(***************************************************************************)
EXTENDS Scheduler, TLC

MCResource == {"host_cpu", "nic_dram"}
MCCapacity == [r \in MCResource |-> 2]

\* a stage that needs cpu units of the host CPU and dram units of the NIC DRAM
NeedsStage(cpu, dram, durations) ==
  [demand |-> ("host_cpu" :> cpu @@ "nic_dram" :> dram), service |-> durations]

\* Task 1 holds a unit of the CPU for one of two times, task 2 moves from the
\* CPU to the DRAM, and task 3 needs the whole CPU, so that it and the others
\* keep each other waiting.
ContentionStages ==
  <<<<NeedsStage(1, 0, {1, 2})>>,
    <<NeedsStage(1, 0, {1}), NeedsStage(0, 2, {0})>>,
    <<NeedsStage(2, 1, {1})>>>>

NoDirective == [order |-> <<>>, admission |-> Keep]

\* Tasks 1 and 2 need half of the NIC DRAM, task 3 all of it.
DramStages ==
  <<<<NeedsStage(0, 1, {1, 2})>>,
    <<NeedsStage(0, 1, {1})>>,
    <<NeedsStage(0, 2, {1})>>>>

\* no hook
NoPolicy == {NoDirective}

\* A hook that decides anew at each call: orders that are partial, repeat an id
\* or name tasks that do not wait; limits that come, change and go.
AnyPolicy ==
  {[order |-> o, admission |-> a] :
     o \in {<<>>, <<3, 2, 1>>, <<2, 2, 3>>}, a \in {Keep, NoLimit, 1, 2}}
==============================================================================
