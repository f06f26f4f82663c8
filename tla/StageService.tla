---------------------------- MODULE StageService ----------------------------
(***************************************************************************)
(* What a scheduler owes to the tasks it is given: it serves their stages, *)
(* each task's one after another from the first to the last, and never     *)
(* more of them at a time than the resources have units for; and it goes   *)
(* on serving.  When a stage begins and how long it takes is left open.    *)
(* Scheduler implements it.                                                *)
(***************************************************************************)
EXTENDS Integers, Sequences, FiniteSets

CONSTANTS Task, Resource, Capacity, Stages

VARIABLES submitted, serving, stage

vars == <<submitted, serving, stage>>

\* The units of r that the tasks in S hold while their stages are served
Held(S, r) == UNION {{t} \X (1..Stages[t][stage[t]].demand[r]) : t \in S}

Init ==
  /\ submitted = {}
  /\ serving = {}
  /\ stage = [t \in Task |-> 1]

Submit(t) ==
  /\ t \notin submitted
  /\ submitted' = submitted \cup {t}
  /\ UNCHANGED <<serving, stage>>

Begin(t) ==
  /\ t \in submitted \ serving
  /\ stage[t] <= Len(Stages[t])
  /\ \A r \in Resource : Cardinality(Held(serving \cup {t}, r)) <= Capacity[r]
  /\ serving' = serving \cup {t}
  /\ UNCHANGED <<submitted, stage>>

Finish(t) ==
  /\ t \in serving
  /\ serving' = serving \ {t}
  /\ stage' = [stage EXCEPT ![t] = @ + 1]
  /\ UNCHANGED submitted

Serve == \E t \in Task : Begin(t) \/ Finish(t)

Next == Serve \/ \E t \in Task : Submit(t)

Spec == Init /\ [][Next]_vars

\* Some stage begins or ends, for as long as one can.
FairSpec == Spec /\ WF_vars(Serve)
=============================================================================
