--------------------------- MODULE PrecedenceOrder ---------------------------
(***************************************************************************)
(* What a run owes to the DAGs of a workload: every job is submitted once, *)
(* after the jobs before it are done, and is done once; all get done.      *)
(* DagRun implements it.                                                   *)
(***************************************************************************)
CONSTANTS
  Job,
  Before  \* pairs <<i, j>>: i has to be done before j is submitted

VARIABLES submitted, done

Init == submitted = {} /\ done = {}

Submit(j) ==
  /\ j \notin submitted
  /\ \A i \in Job : <<i, j>> \in Before => i \in done
  /\ submitted' = submitted \cup {j}
  /\ UNCHANGED done

Finish(j) ==
  /\ j \in submitted \ done
  /\ done' = done \cup {j}
  /\ UNCHANGED submitted

Next == \E j \in Job : Submit(j) \/ Finish(j)

Spec == Init /\ [][Next]_<<submitted, done>>

\* The jobs get done for as long as there are any to submit or to finish.
Fairness == WF_<<submitted, done>>(Next)
==============================================================================
