---------------------------- MODULE DagValidation ----------------------------
(***************************************************************************)
(* How a DAG of a workload gets into the simulator: parse_task_dag         *)
(* (sim/src/workload_loader.cc), which infers entry points that are not    *)
(* given, then validate_task_dag_spec (sim/src/workload.cc), which looks   *)
(* for cycles and for nodes out of reach with a depth-first search.  The   *)
(* placement benchmark and the tests call the second without the first.    *)
(*                                                                         *)
(* The recursion of the search is a stack of nodes; position is the local  *)
(* variable of the loop in the call of each.  An exception is the verdict  *)
(* "refused", or, of the search, "cycle" or "unreachable".                 *)
(***************************************************************************)
EXTENDS Integers, Sequences, FiniteSets, Functions

CONSTANTS
  Name,  \* names of nodes, and names no node has
  Specs  \* the DAGs that may be given, see SpecType

\* The entries are empty if the document has none.
SpecType == [names : Seq(Name), successors : Seq(Seq(Name)), entries : Seq(Name)]

ASSUME DagValidationAssumption ==
  /\ Specs \subseteq SpecType
  /\ \A s \in Specs : Len(s.names) = Len(s.successors)

VARIABLES
  spec,        \* the argument; its entries become spec.entry_points
  verdict,     \* "loading", "given", "searching", or how it ended
  visitState,  \* visit_state
  stack,       \* the calls of dfs that have not returned, the latest last
  position,    \* the successor of each node that its call looks at
  nextEntry,   \* the position in entry_indexes of the loop that calls dfs
  finished     \* history: the nodes in the order in which their calls returned

searchVars == <<visitState, stack, position, nextEntry, finished>>
vars == <<spec, verdict, searchVars>>

Nodes == DOMAIN spec.names
Named == Range(spec.names)
Mentioned == UNION {Range(spec.successors[i]) : i \in Nodes}

\* name_to_index, once the names are known to be different
Index(name) == CHOOSE i \in Nodes : spec.names[i] = name

Init ==
  /\ spec \in Specs
  /\ verdict \in {"loading", "given"}
  /\ visitState = [i \in Nodes |-> "unvisited"]
  /\ stack = <<>>
  /\ position = [i \in Nodes |-> 1]
  /\ nextEntry = 1
  /\ finished = <<>>

NamesFit == spec.names # <<>> /\ IsInjective(spec.names) /\ Mentioned \subseteq Named

\* Mutant: a node without successors is no candidate.
Candidates_connected ==
  {spec.names[i] : i \in {j \in Nodes : spec.successors[j] # <<>>}} \ Mentioned

\* The nodes that are nobody's successor
Candidates == Named \ Mentioned

Orderings(S) == {q \in [1..Cardinality(S) -> S] : IsInjective(q)}

\* What parse_task_dag throws for; the stages and times are valid here.
Loadable ==
  /\ NamesFit
  /\ Range(spec.entries) \subseteq Named
  /\ spec.entries = <<>> => Candidates # {}

\* parse_task_dag, up to its call of validate_task_dag_spec.  The inferred entry
\* points are sorted by name, of which the model knows nothing: any order.
ParseTaskDag ==
  /\ verdict = "loading"
  /\ \/ /\ ~Loadable
        /\ verdict' = "refused"
        /\ UNCHANGED spec
     \/ /\ Loadable
        /\ verdict' = "given"
        /\ \E entries \in IF spec.entries = <<>> THEN Orderings(Candidates)
                          ELSE {spec.entries} :
             spec' = [spec EXCEPT !.entries = entries]
  /\ UNCHANGED searchVars

EntriesFit ==
  /\ spec.entries # <<>>
  /\ IsInjective(spec.entries)
  /\ Range(spec.entries) \subseteq Named

\* validate_task_dag_spec, up to its depth-first search
CheckNames ==
  /\ verdict = "given"
  /\ verdict' = IF NamesFit /\ EntriesFit THEN "searching" ELSE "refused"
  /\ UNCHANGED <<spec, searchVars>>

\* dfs(index), up to its loop; the calls under way are at these positions.
Call(i, positions) ==
  /\ visitState' = [visitState EXCEPT ![i] = "visiting"]
  /\ stack' = Append(stack, i)
  /\ position' = [positions EXCEPT ![i] = 1]

\* An iteration of the loop over entry_indexes
VisitEntry ==
  /\ verdict = "searching" /\ stack = <<>> /\ nextEntry <= Len(spec.entries)
  /\ LET i == Index(spec.entries[nextEntry]) IN
     IF visitState[i] = "unvisited" THEN Call(i, position)
     ELSE UNCHANGED <<visitState, stack, position>>
  /\ nextEntry' = nextEntry + 1
  /\ UNCHANGED <<spec, verdict, finished>>

\* The running call is about node Current; Following is the successor it looks at.
Current == stack[Len(stack)]
SuccessorsLeft == position[Current] <= Len(spec.successors[Current])
Following == Index(spec.successors[Current][position[Current]])
InCall == verdict = "searching" /\ stack # <<>>

ClosesCycle == visitState[Following] = "visiting"

FindCycle ==
  /\ InCall /\ SuccessorsLeft
  /\ ClosesCycle
  /\ verdict' = "cycle"
  /\ UNCHANGED <<spec, searchVars>>

\* Mutant: a call that returns is made again.
Advanced_again == position

\* The running call goes on with its next successor, if its callee returns.
Advanced == [position EXCEPT ![Current] = @ + 1]

Descend ==
  /\ InCall /\ SuccessorsLeft
  /\ ~ClosesCycle
  /\ IF visitState[Following] = "unvisited" THEN Call(Following, Advanced)
     ELSE position' = Advanced /\ UNCHANGED <<visitState, stack>>
  /\ UNCHANGED <<spec, verdict, nextEntry, finished>>

\* Mutant: reachable is visit_state, and a node whose call returned is unvisited.
Left_unvisited(i) == [visitState EXCEPT ![i] = "unvisited"]

Left(i) == [visitState EXCEPT ![i] = "visited"]

Return ==
  /\ InCall /\ ~SuccessorsLeft
  /\ visitState' = Left(Current)
  /\ stack' = SubSeq(stack, 1, Len(stack) - 1)
  /\ finished' = Append(finished, Current)
  /\ UNCHANGED <<spec, verdict, position, nextEntry>>

\* reachable holds of the nodes that were ever visited.
AllReached == \A i \in Nodes : visitState[i] # "unvisited"

CheckReachable ==
  /\ verdict = "searching" /\ stack = <<>> /\ nextEntry > Len(spec.entries)
  /\ verdict' = IF AllReached THEN "accepted" ELSE "unreachable"
  /\ UNCHANGED <<spec, searchVars>>

Next ==
  \/ ParseTaskDag
  \/ CheckNames
  \/ VisitEntry
  \/ FindCycle
  \/ Descend
  \/ Return
  \/ CheckReachable

Spec == Init /\ [][Next]_vars

\* The functions return or throw.
FairSpec == Spec /\ WF_vars(Next)

------------------------------------------------------------------------------
(* Properties *)

Edge(i, j) == spec.names[j] \in Range(spec.successors[i])

\* Every set of nodes has one without predecessors in the set.
Acyclic ==
  \A S \in SUBSET Nodes : S # {} => \E j \in S : \A i \in S : ~Edge(i, j)

HoldsEntries(S) == \A i \in Nodes : spec.names[i] \in Range(spec.entries) => i \in S
Closed(S) == \A i \in S : \A j \in Nodes : Edge(i, j) => j \in S

\* Only all nodes together hold the entry points and all successors of them.
Reachable == \A S \in SUBSET Nodes : HoldsEntries(S) /\ Closed(S) => S = Nodes

\* Every variable has its type.
TypeOK ==
  /\ spec \in SpecType /\ Len(spec.names) = Len(spec.successors)
  /\ verdict \in {"loading", "given", "searching", "refused", "cycle",
                  "unreachable", "accepted"}
  /\ visitState \in [Nodes -> {"unvisited", "visiting", "visited"}]
  /\ stack \in Seq(Nodes)
  /\ position \in [Nodes -> Nat \ {0}]
  /\ nextEntry \in Nat \ {0}
  /\ finished \in Seq(Nodes)

\* SCHEMA.md: the loader validates unique names, existing successors, at least one
\* entry point, no cycles and reachability.  What is accepted has all of it, as
\* the runtime of the DAG assumes.
AcceptedIsValid ==
  verdict = "accepted" => NamesFit /\ EntriesFit /\ Acyclic /\ Reachable

\* No valid DAG is turned away, and the reason given is the right one.
RefusedForAReason ==
  /\ verdict = "cycle" => ~Acyclic
  /\ verdict = "unreachable" => ~Reachable
  /\ verdict = "refused" => ~NamesFit \/ ~EntriesFit

\* Every graph gets the verdict that it deserves.
VerdictRight == AcceptedIsValid /\ RefusedForAReason

\* The calls that have not returned are the nodes being visited, each once: the
\* recursion is no deeper than the DAG has nodes, whatever its edges.
CallsAreVisiting ==
  /\ IsInjective(stack)
  /\ Range(stack) = {i \in Nodes : visitState[i] = "visiting"}

\* The calls return successors first.
SuccessorsFirst ==
  \A p \in DOMAIN finished : \A j \in Nodes :
    Edge(finished[p], j) => \E q \in 1..(p - 1) : finished[q] = j

\* A document may leave the entry points of a DAG out: inference finds some, and
\* the nodes found reach every other.
InferenceSuffices ==
  [][verdict = "loading" /\ verdict' # verdict /\ spec.entries = <<>> /\ NamesFit /\ Acyclic
       => verdict' = "given" /\ Reachable']_vars

\* Every document gets its verdict.
Decided == <>(verdict \in {"refused", "cycle", "unreachable", "accepted"})
==============================================================================
