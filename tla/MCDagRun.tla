------------------------------- MODULE MCDagRun -------------------------------
(***************************************************************************)
(* An instance of DagRun for TLC whose ids collide.                        *)
(***************************************************************************)
EXTENDS DagRun, TLC

MCResource == {"host_cpu", "nic_core"}
MCCapacity == [r \in MCResource |-> 1]

OnHost(durations) == [demand |-> ("host_cpu" :> 1 @@ "nic_core" :> 0), service |-> durations]
OnNic(durations) == [demand |-> ("host_cpu" :> 0 @@ "nic_core" :> 1), service |-> durations]

\* A hook that at any call may reorder the queue and set a limit for good.
PolicyOver(order) ==
  {[order |-> <<>>, admission |-> Keep], [order |-> order, admission |-> 1]}
CollidingPolicy == PolicyOver(<<14, 13>>)

\* Two chains that share an id, and a task that has the id of the last node.
CollidingIds == 11..14
CollidingPlain == <<[id |-> 14, arrival |-> 0], [id |-> 13, arrival |-> 0]>>
CollidingDags ==
  <<[base |-> 11, arrival |-> 0, successors |-> <<<<2>>, <<>>>>, entries |-> <<1>>],
    [base |-> 12, arrival |-> 0, successors |-> <<<<2>>, <<>>>>, entries |-> <<1>>]>>
CollidingStages ==
  11 :> <<OnHost({1, 2})>> @@ 12 :> <<OnHost({1})>> @@
  13 :> <<OnNic({1})>> @@ 14 :> <<OnNic({1, 2})>>
==============================================================================
