--------------------------- MODULE MCDagValidation ---------------------------
(***************************************************************************)
(* An instance of DagValidation and TopologicalOrder for TLC: all graphs   *)
(* of three nodes.                                                         *)
(***************************************************************************)
EXTENDS TopologicalOrder, TLC

MCName == {"a", "b", "c", "none"}
ThreeNames == <<"a", "b", "c">>

\* The successors of a node: every set of the three, in the order of the names,
\* and one that mentions a node twice; for two nodes, also one with a name that no
\* node has.
Lists ==
  {SelectSeq(ThreeNames, LAMBDA n : n \in S) : S \in SUBSET Range(ThreeNames)}
    \cup {<<"b", "b", "c">>}
OddLists == {<<"b", "b">>, <<"c", "none">>}

EntryLists == {<<>>, <<"a">>, <<"b", "a">>, <<"a", "a">>, <<"none">>}

Graphs(names, lists) ==
  {[names |-> names, successors |-> s, entries |-> e] :
     s \in [1..Len(names) -> lists], e \in EntryLists}

MCSpecs ==
  Graphs(ThreeNames, Lists)
    \cup Graphs(<<"a", "b">>, {<<>>, <<"a">>, <<"b">>} \cup OddLists)
    \cup Graphs(<<"a", "a">>, {<<>>, <<"a">>})
    \cup Graphs(<<>>, {<<>>})
==============================================================================
