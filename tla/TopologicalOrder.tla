--------------------------- MODULE TopologicalOrder ---------------------------
(***************************************************************************)
(* topological_order (sim/src/workload.cc), for the TaskDag that           *)
(* make_task_dag_from_spec makes of a DAG: it counts indegrees down, like  *)
(* the runtime of a DAG, where the validation searches depth first.  An    *)
(* order that does not have every node is an exception.                    *)
(***************************************************************************)
EXTENDS DagValidation, SequencesExt

\* node.successors, a position for each name in the list
SuccessorsOf(i) ==
  [k \in DOMAIN spec.successors[i] |-> Index(spec.successors[i][k])]

\* Mutant: a successor that is named twice is counted once.
Indegree_distinct(j) == Cardinality({i \in Nodes : Edge(i, j)})

\* indegree, to which each mention counts
Indegree(j) ==
  Cardinality({e \in UNION {{i} \X DOMAIN spec.successors[i] : i \in Nodes} :
                 SuccessorsOf(e[1])[e[2]] = j})

\* What the loop over the successors of a node does for one of them
CountDown(s, j) ==
  IF s.indegree[j] = 0 THEN s
  ELSE [s EXCEPT !.indegree[j] = @ - 1,
                 !.ready = IF s.indegree[j] = 1 THEN Append(@, j) ELSE @]

\* An iteration of the loop over the ready nodes
TakeFirst(s) ==
  FoldLeft(CountDown, [s EXCEPT !.ready = Tail(@), !.order = Append(@, Head(s.ready))],
           SuccessorsOf(Head(s.ready)))

\* What the loop over all nodes does for one of them
PushReady(s, j) == IF s.indegree[j] = 0 THEN [s EXCEPT !.ready = Append(@, j)] ELSE s

FirstReady ==
  FoldLeft(PushReady,
           [indegree |-> [j \in Nodes |-> Indegree(j)], ready |-> <<>>, order |-> <<>>],
           [i \in Nodes |-> i])

\* An iteration of the loop, if it has not ended
Iterated(s, n) == IF s.ready = <<>> THEN s ELSE TakeFirst(s)

\* What the loop leaves; a node that got ready twice would make it too long.
Order == FoldLeft(Iterated, FirstReady, [n \in 1..Len(spec.names) + 1 |-> n]).order

------------------------------------------------------------------------------
(* Properties *)

IsTopological(order) ==
  /\ IsInjective(order) /\ Range(order) = Nodes
  /\ \A p, q \in DOMAIN order : Edge(order[p], order[q]) => p < q

\* The two algorithms agree: what the depth-first search accepts has an order, in
\* which every edge leads onward, and where it finds a cycle nodes are left over.
OrderedIffAcyclic ==
  /\ verdict = "accepted" => IsTopological(Order)
  /\ verdict = "cycle" => Len(Order) < Len(spec.names)
==============================================================================
