------------------------- MODULE DagValidation_proofs -------------------------
(***************************************************************************)
(* The depth-first search of validate_task_dag_spec decides rightly, for   *)
(* DAGs of any size and shape: what it accepts is free of cycles and       *)
(* reachable, and what it refuses has a cycle or a node out of reach.      *)
(***************************************************************************)
EXTENDS TopologicalOrder, FiniteSetTheorems, SequenceTheorems, WellFoundedInduction, TLAPS

Started == verdict \in {"searching", "cycle", "unreachable", "accepted"}

\* The nodes whose calls returned are the visited ones, each once.
FinishedVisited ==
  /\ IsInjective(finished)
  /\ Range(finished) = {i \in Nodes : visitState[i] = "visited"}

\* What the loop of a call has passed: successors that were visited, or the callee.
LoopsRight ==
  \A p \in DOMAIN stack :
    /\ position[stack[p]] <= Len(spec.successors[stack[p]]) + 1
    /\ \A l \in 1..(position[stack[p]] - 1) : \A j \in Nodes :
         spec.names[j] = spec.successors[stack[p]][l] =>
           visitState[j] = "visited" \/ (p < Len(stack) /\ j = stack[p + 1])

\* A call was made for an edge of its caller.
CallsFollowEdges == \A p \in 1..(Len(stack) - 1) : Edge(stack[p], stack[p + 1])

EntriesSeen ==
  \A e \in 1..(nextEntry - 1) : \A j \in Nodes :
    e \in DOMAIN spec.entries /\ spec.names[j] = spec.entries[e] =>
      visitState[j] # "unvisited"

VisitedInReach ==
  \A S \in SUBSET Nodes : HoldsEntries(S) /\ Closed(S) =>
    \A i \in Nodes : visitState[i] # "unvisited" => i \in S

SearchOver == stack = <<>> /\ nextEntry > Len(spec.entries)

ClosedCycle ==
  stack # <<>> /\ \E j \in Nodes : visitState[j] = "visiting" /\ Edge(Current, j)

VerdictsRight ==
  /\ Started => NamesFit /\ EntriesFit
  /\ verdict = "refused" => ~NamesFit \/ ~EntriesFit
  /\ verdict = "cycle" => ClosedCycle
  /\ verdict = "accepted" => SearchOver /\ AllReached
  /\ verdict = "unreachable" => SearchOver /\ ~AllReached

NotStarted ==
  ~Started => /\ visitState = [i \in Nodes |-> "unvisited"]
              /\ stack = <<>> /\ finished = <<>> /\ nextEntry = 1

SearchInv ==
  /\ TypeOK
  /\ NotStarted
  /\ CallsAreVisiting
  /\ FinishedVisited
  /\ SuccessorsFirst
  /\ LoopsRight
  /\ CallsFollowEdges
  /\ EntriesSeen
  /\ VisitedInReach
  /\ VerdictsRight

------------------------------------------------------------------------------
(* Names *)

\* The document, for the provers: a record whose fields are sequences.
LEMMA SpecParts ==
  ASSUME TypeOK
  PROVE  /\ spec.names \in Seq(Name) /\ spec.entries \in Seq(Name)
         /\ spec.successors \in Seq(Seq(Name))
         /\ Len(spec.names) \in Nat
         /\ Nodes = 1..Len(spec.names)
         /\ \A i \in Nodes : /\ spec.successors[i] \in Seq(Name)
                             /\ Len(spec.successors[i]) \in Nat
                             /\ DOMAIN spec.successors[i] = 1..Len(spec.successors[i])
         /\ Len(spec.entries) \in Nat
         /\ DOMAIN spec.entries = 1..Len(spec.entries)
<1>1. /\ spec.names \in Seq(Name) /\ spec.entries \in Seq(Name)
      /\ spec.successors \in Seq(Seq(Name)) /\ Len(spec.names) = Len(spec.successors)
  BY DEF TypeOK, SpecType
<1>2. Nodes = 1..Len(spec.names) /\ Nodes = 1..Len(spec.successors)
  BY <1>1 DEF Nodes
<1>3. \A i \in Nodes : spec.successors[i] \in Seq(Name)
  BY <1>1, <1>2
<1> QED
  BY <1>1, <1>2, <1>3

\* name_to_index finds the node of a name.
LEMMA IndexOfName ==
  ASSUME NEW name \in Named
  PROVE  Index(name) \in Nodes /\ spec.names[Index(name)] = name
<1>1. \E i \in Nodes : spec.names[i] = name
  BY DEF Named, Nodes, Range
<1> QED
  BY <1>1 DEF Index

LEMMA FollowingNamed ==
  ASSUME TypeOK, NamesFit, stack # <<>>, SuccessorsLeft
  PROVE  /\ Current \in Nodes /\ Following \in Nodes
         /\ spec.names[Following] = spec.successors[Current][position[Current]]
         /\ Edge(Current, Following)
<1>1. Current \in Nodes
  BY DEF TypeOK, Current
<1>2. position[Current] \in DOMAIN spec.successors[Current]
  BY <1>1, SpecParts DEF TypeOK, SuccessorsLeft
<1> DEFINE name == spec.successors[Current][position[Current]]
<1>3. name \in Range(spec.successors[Current])
  BY <1>2 DEF Range
<1>4. name \in Named
  BY <1>1, <1>3 DEF NamesFit, Mentioned
<1>5. Following \in Nodes /\ spec.names[Following] = name
  BY <1>4, IndexOfName DEF Following
<1> QED
  BY <1>1, <1>3, <1>5 DEF Edge

LEMMA EntryNamed ==
  ASSUME TypeOK, EntriesFit, nextEntry <= Len(spec.entries)
  PROVE  /\ Index(spec.entries[nextEntry]) \in Nodes
         /\ spec.names[Index(spec.entries[nextEntry])] = spec.entries[nextEntry]
         /\ spec.entries[nextEntry] \in Range(spec.entries)
<1>1. nextEntry \in DOMAIN spec.entries
  BY SpecParts DEF TypeOK
<1>2. spec.entries[nextEntry] \in Range(spec.entries)
  BY <1>1 DEF Range
<1>3. spec.entries[nextEntry] \in Named
  BY <1>2 DEF EntriesFit
<1> QED
  BY <1>2, <1>3, IndexOfName

LEMMA NamesDiffer ==
  ASSUME NamesFit, NEW i \in Nodes, NEW j \in Nodes, spec.names[i] = spec.names[j]
  PROVE  i = j
BY DEF NamesFit, IsInjective, Nodes

------------------------------------------------------------------------------
(* Before the search *)

\* A document that was not searched yet
LEMMA FreshSearch ==
  ASSUME TypeOK, NotStarted, ~Started
  PROVE  /\ CallsAreVisiting /\ FinishedVisited /\ SuccessorsFirst /\ LoopsRight
         /\ CallsFollowEdges /\ EntriesSeen /\ VisitedInReach
<1>1. /\ visitState = [i \in Nodes |-> "unvisited"]
      /\ stack = <<>> /\ finished = <<>> /\ nextEntry = 1
  BY DEF NotStarted
<1>2. CallsAreVisiting
  BY <1>1 DEF CallsAreVisiting, IsInjective, Range
<1>3. FinishedVisited
  BY <1>1 DEF FinishedVisited, IsInjective, Range
<1>4. SuccessorsFirst /\ LoopsRight /\ CallsFollowEdges /\ EntriesSeen
  BY <1>1 DEF SuccessorsFirst, LoopsRight, CallsFollowEdges, EntriesSeen
<1>5. VisitedInReach
  BY <1>1 DEF VisitedInReach
<1> QED
  BY <1>2, <1>3, <1>4, <1>5

LEMMA InitSearchInv == Init => SearchInv
<1> SUFFICES ASSUME Init PROVE SearchInv
  OBVIOUS
<1>1. spec \in SpecType /\ Len(spec.names) = Len(spec.successors)
  BY DagValidationAssumption DEF Init
<1>2. TypeOK
  BY <1>1 DEF Init, TypeOK
<1>3. ~Started /\ NotStarted
  BY DEF Init, Started, NotStarted
<1>4. VerdictsRight
  BY <1>3 DEF Init, VerdictsRight, Started
<1> QED
  BY <1>2, <1>3, <1>4, FreshSearch DEF SearchInv

\* What an action before the search has to show
LEMMA FreshStep ==
  ASSUME SearchInv, TypeOK', UNCHANGED searchVars, ~Started, VerdictsRight',
         spec'.names = spec.names
  PROVE  SearchInv'
<1>1. /\ visitState = [i \in Nodes |-> "unvisited"]
      /\ stack = <<>> /\ finished = <<>> /\ nextEntry = 1
  BY DEF SearchInv, NotStarted
<1>2. /\ visitState' = [i \in Nodes' |-> "unvisited"]
      /\ stack' = <<>> /\ finished' = <<>> /\ nextEntry' = 1
  BY <1>1 DEF searchVars, Nodes
<1>3. CallsAreVisiting'
  BY <1>2 DEF CallsAreVisiting, IsInjective, Range
<1>4. FinishedVisited'
  BY <1>2 DEF FinishedVisited, IsInjective, Range
<1>5. (SuccessorsFirst /\ LoopsRight /\ CallsFollowEdges /\ EntriesSeen)'
  BY <1>2 DEF SuccessorsFirst, LoopsRight, CallsFollowEdges, EntriesSeen
<1>6. VisitedInReach'
  BY <1>2 DEF VisitedInReach
<1>7. NotStarted'
  BY <1>2 DEF NotStarted
<1> QED
  BY <1>3, <1>4, <1>5, <1>6, <1>7 DEF SearchInv

LEMMA CandidatesFinite ==
  ASSUME TypeOK
  PROVE  IsFiniteSet(Candidates)
<1>1. IsFiniteSet(Nodes)
  BY SpecParts, FS_Interval
<1>2. IsFiniteSet(Named)
  <2>1. spec.names \in Surjection(Nodes, Named)
    BY SpecParts DEF Surjection, Named, Range, Nodes
  <2> QED
    BY <1>1, <2>1, FS_Surjection
<1> QED
  BY <1>2, FS_Subset DEF Candidates

LEMMA ParseSearchInv == SearchInv /\ ParseTaskDag => SearchInv'
<1> SUFFICES ASSUME SearchInv, ParseTaskDag PROVE SearchInv'
  OBVIOUS
<1>1. ~Started /\ UNCHANGED searchVars
  BY DEF ParseTaskDag, Started
<1>2. spec \in SpecType /\ Len(spec.names) = Len(spec.successors)
  BY DEF SearchInv, TypeOK
<1>3. CASE ~Loadable
  <2>1. spec' = spec /\ verdict' = "refused"
    BY <1>3 DEF ParseTaskDag
  <2>2. TypeOK'
    BY <1>1, <2>1 DEF SearchInv, TypeOK, searchVars, Nodes
  <2>3. ~NamesFit \/ ~EntriesFit
    <3>1. SUFFICES ASSUME NamesFit, EntriesFit PROVE FALSE
      OBVIOUS
    <3>2. Loadable
      BY <3>1 DEF Loadable, EntriesFit
    <3> QED
      BY <1>3, <3>2
  <2>4. VerdictsRight'
    BY <2>1, <2>3 DEF VerdictsRight, Started, NamesFit, EntriesFit, Named, Mentioned, Nodes
  <2> QED
    BY <1>1, <2>1, <2>2, <2>4, FreshStep
<1>4. CASE Loadable
  <2>1. verdict' = "given"
    BY <1>4 DEF ParseTaskDag
  <2>2. PICK entries : /\ spec' = [spec EXCEPT !.entries = entries]
                       /\ entries \in Seq(Name)
    <3>1. CASE spec.entries # <<>>
      BY <1>2, <1>4, <3>1 DEF ParseTaskDag, SpecType
    <3>2. CASE spec.entries = <<>>
      <4>1. PICK entries \in Orderings(Candidates) : spec' = [spec EXCEPT !.entries = entries]
        BY <1>4, <3>2 DEF ParseTaskDag
      <4>2. Candidates \subseteq Name
        <5>1. Named \subseteq Name
          BY <1>2 DEF Named, Range, SpecType
        <5> QED
          BY <5>1 DEF Candidates
      <4>3. Cardinality(Candidates) \in Nat
        BY CandidatesFinite, FS_CardinalityType DEF SearchInv
      <4>4. entries \in Seq(Name)
        BY <4>1, <4>2, <4>3 DEF Orderings
      <4> QED
        BY <4>1, <4>4
    <3> QED
      BY <3>1, <3>2
  <2>3. /\ spec' \in SpecType /\ Len(spec'.names) = Len(spec'.successors)
        /\ spec'.names = spec.names
    BY <1>2, <2>2 DEF SpecType
  <2>4. TypeOK'
    BY <1>1, <2>1, <2>3 DEF SearchInv, TypeOK, searchVars, Nodes
  <2>5. VerdictsRight'
    BY <2>1 DEF VerdictsRight, Started
  <2> QED
    BY <1>1, <2>3, <2>4, <2>5, FreshStep
<1> QED
  BY <1>3, <1>4

LEMMA CheckNamesSearchInv == SearchInv /\ CheckNames => SearchInv'
<1> SUFFICES ASSUME SearchInv, CheckNames PROVE SearchInv'
  OBVIOUS
<1>1. ~Started /\ UNCHANGED searchVars /\ spec' = spec
  BY DEF CheckNames, Started
<1>2. TypeOK'
  BY <1>1 DEF SearchInv, TypeOK, searchVars, Nodes, CheckNames
<1>3. VerdictsRight'
  BY <1>1 DEF CheckNames, VerdictsRight, Started, NamesFit, EntriesFit, Named, Mentioned, Nodes
<1> QED
  BY <1>1, <1>2, <1>3, FreshStep

------------------------------------------------------------------------------
(* The search *)

\* An unvisited node is called: from the loop over the entry points, or by the
\* running call for one of its successors.
CalledFor(i) ==
  \/ stack = <<>> /\ spec.names[i] \in Range(spec.entries)
  \/ stack # <<>> /\ Edge(Current, i)

LEMMA CurrentOnStack ==
  ASSUME TypeOK, stack # <<>>
  PROVE  Current \in Range(stack)
<1>1. stack \in Seq(Nodes) /\ Len(stack) \in DOMAIN stack
  BY DEF TypeOK
<1> QED
  BY <1>1 DEF Current, Range

LEMMA CallTypeOK ==
  ASSUME TypeOK, NEW i \in Nodes, NEW positions \in [Nodes -> Nat \ {0}],
         UNCHANGED <<spec, verdict, finished>>, nextEntry' \in Nat \ {0},
         visitState' = [visitState EXCEPT ![i] = "visiting"],
         stack' = Append(stack, i), position' = [positions EXCEPT ![i] = 1]
  PROVE  TypeOK'
<1>1. Nodes' = Nodes
  BY DEF Nodes
<1>2. stack' \in Seq(Nodes)
  BY DEF TypeOK
<1>3. position' \in [Nodes -> Nat \ {0}]
  OBVIOUS
<1>4. visitState' \in [Nodes -> {"unvisited", "visiting", "visited"}]
  BY DEF TypeOK
<1> QED
  BY <1>1, <1>2, <1>3, <1>4 DEF TypeOK

\* The set of nodes on the stack grows by i, and so do the nodes being visited.
LEMMA CallKeepsStack ==
  ASSUME TypeOK, CallsAreVisiting, NEW i \in Nodes, visitState[i] = "unvisited",
         spec' = spec, stack' = Append(stack, i),
         visitState' = [visitState EXCEPT ![i] = "visiting"]
  PROVE  /\ CallsAreVisiting'
         /\ Len(stack') = Len(stack) + 1 /\ stack'[Len(stack')] = i
         /\ \A p \in 1..Len(stack) : stack'[p] = stack[p] /\ stack[p] # i
         /\ Len(stack) \in Nat /\ DOMAIN stack = 1..Len(stack)
<1>1. stack \in Seq(Nodes) /\ Len(stack) \in Nat /\ DOMAIN stack = 1..Len(stack)
  BY DEF TypeOK
<1>2. /\ Len(stack') = Len(stack) + 1 /\ stack'[Len(stack')] = i
      /\ \A p \in 1..Len(stack) : stack'[p] = stack[p]
      /\ DOMAIN stack' = 1..(Len(stack) + 1)
  BY <1>1
<1>3. \A p \in 1..Len(stack) : stack[p] # i
  BY <1>1 DEF CallsAreVisiting, Range
<1>4. IsInjective(stack')
  <2>1. \A p, q \in 1..Len(stack) : stack[p] = stack[q] => p = q
    BY <1>1 DEF CallsAreVisiting, IsInjective
  <2>2. \A p, q \in 1..(Len(stack) + 1) : stack'[p] = stack'[q] => p = q
    BY <1>1, <1>2, <1>3, <2>1
  <2> QED
    BY <1>2, <2>2 DEF IsInjective
<1>5. Range(stack') = Range(stack) \cup {i}
  BY <1>1, <1>2 DEF Range
<1>6. Range(stack') = {j \in Nodes' : visitState'[j] = "visiting"}
  BY <1>5 DEF CallsAreVisiting, TypeOK, Nodes
<1> QED
  BY <1>1, <1>2, <1>3, <1>4, <1>6 DEF CallsAreVisiting

\* What a call leaves true that is not about the loops
LEMMA CallKeepsRest ==
  ASSUME SearchInv, NEW i \in Nodes, visitState[i] = "unvisited", CalledFor(i),
         UNCHANGED <<spec, finished>>, stack' = Append(stack, i),
         visitState' = [visitState EXCEPT ![i] = "visiting"]
  PROVE  /\ FinishedVisited' /\ SuccessorsFirst' /\ CallsFollowEdges'
         /\ VisitedInReach'
<1>1. /\ Len(stack') = Len(stack) + 1 /\ stack'[Len(stack')] = i
      /\ \A p \in 1..Len(stack) : stack'[p] = stack[p] /\ stack[p] # i
      /\ Len(stack) \in Nat /\ DOMAIN stack = 1..Len(stack)
  BY CallKeepsStack DEF SearchInv
<1>2. FinishedVisited'
  BY DEF SearchInv, FinishedVisited, TypeOK, Nodes
<1>3. SuccessorsFirst'
  BY DEF SearchInv, SuccessorsFirst, Edge, Nodes
<1>4. CallsFollowEdges'
  <2> SUFFICES ASSUME NEW p \in 1..Len(stack) PROVE Edge(stack'[p], stack'[p + 1])
    BY <1>1 DEF CallsFollowEdges, Edge
  <2>1. CASE p < Len(stack)
    <3>1. p \in 1..(Len(stack) - 1) /\ p + 1 \in 1..Len(stack)
      BY <1>1, <2>1
    <3> QED
      BY <1>1, <3>1 DEF SearchInv, CallsFollowEdges
  <2>2. CASE p = Len(stack)
    <3>1. stack # <<>>
      BY <1>1, <2>2
    <3>2. Edge(Current, i)
      BY <3>1 DEF CalledFor
    <3> QED
      BY <1>1, <2>2, <3>2 DEF Current
  <2>3. p < Len(stack) \/ p = Len(stack)
    <3>1. Len(stack) \in Nat
      BY <1>1
    <3> QED
      BY <3>1
  <2> QED
    BY <2>1, <2>2, <2>3
<1>5. VisitedInReach'
  <2> SUFFICES ASSUME NEW S \in SUBSET Nodes, HoldsEntries(S), Closed(S),
                      NEW j \in Nodes, visitState'[j] # "unvisited"
               PROVE  j \in S
    BY DEF VisitedInReach, HoldsEntries, Closed, Edge, Nodes
  <2>1. CASE j # i
    BY <2>1 DEF SearchInv, VisitedInReach, TypeOK
  <2>2. CASE j = i /\ stack = <<>>
    BY <2>2 DEF CalledFor, HoldsEntries
  <2>3. CASE j = i /\ stack # <<>>
    <3>1. Current \in Range(stack)
      BY <2>3, CurrentOnStack DEF SearchInv
    <3>2. Current \in Nodes /\ visitState[Current] # "unvisited"
      BY <3>1 DEF SearchInv, CallsAreVisiting
    <3>3. Current \in S
      BY <3>2 DEF SearchInv, VisitedInReach
    <3> QED
      BY <2>3, <3>3 DEF CalledFor, Closed
  <2> QED
    BY <2>1, <2>2, <2>3
<1> QED
  BY <1>2, <1>3, <1>4, <1>5

LEMMA VisitEntrySearchInv == SearchInv /\ VisitEntry => SearchInv'
<1> SUFFICES ASSUME SearchInv, VisitEntry PROVE SearchInv'
  OBVIOUS
<1> DEFINE i == Index(spec.entries[nextEntry])
<1>1. /\ verdict = "searching" /\ verdict' = verdict /\ spec' = spec
      /\ finished' = finished /\ nextEntry' = nextEntry + 1 /\ stack = <<>>
      /\ nextEntry <= Len(spec.entries)
  BY DEF VisitEntry
<1>2. TypeOK /\ EntriesFit /\ Started /\ Started'
  BY <1>1 DEF SearchInv, VerdictsRight, Started
<1>3. /\ i \in Nodes /\ spec.names[i] = spec.entries[nextEntry]
      /\ spec.names[i] \in Range(spec.entries)
  BY <1>1, <1>2, EntryNamed
<1>4. VerdictsRight' /\ NotStarted'
  BY <1>1, <1>2 DEF SearchInv, VerdictsRight, NotStarted, NamesFit, EntriesFit, Named,
                    Mentioned, Nodes
<1>5. \A j \in Nodes : spec.names[j] = spec.entries[nextEntry] => j = i
  BY <1>2, <1>3, NamesDiffer DEF SearchInv, VerdictsRight
<1> HIDE DEF i
<1>6. \A e \in 1..(nextEntry' - 1) : e \in 1..(nextEntry - 1) \/ e = nextEntry
  BY <1>1 DEF SearchInv, TypeOK
<1>7. CASE visitState[i] # "unvisited"
  <2>1. UNCHANGED <<visitState, stack, position>>
    BY <1>7 DEF VisitEntry, i
  <2>2. TypeOK'
    BY <1>1, <2>1 DEF SearchInv, TypeOK, Nodes
  <2>3. EntriesSeen'
    BY <1>1, <1>5, <1>6, <1>7, <2>1 DEF SearchInv, EntriesSeen, Nodes
  <2>4. /\ CallsAreVisiting' /\ FinishedVisited' /\ SuccessorsFirst' /\ LoopsRight'
        /\ CallsFollowEdges' /\ VisitedInReach'
    BY <1>1, <2>1 DEF SearchInv, CallsAreVisiting, FinishedVisited, SuccessorsFirst,
       LoopsRight, CallsFollowEdges, VisitedInReach, HoldsEntries, Closed, Edge, Nodes
  <2> QED
    BY <1>4, <2>2, <2>3, <2>4 DEF SearchInv
<1>8. CASE visitState[i] = "unvisited"
  <2>1. /\ visitState' = [visitState EXCEPT ![i] = "visiting"]
        /\ stack' = Append(stack, i) /\ position' = [position EXCEPT ![i] = 1]
    BY <1>8 DEF VisitEntry, Call, i
  <2>2. TypeOK'
    <3>1. nextEntry' \in Nat \ {0}
      BY <1>1 DEF SearchInv, TypeOK
    <3> QED
      <4>1. position \in [Nodes -> Nat \ {0}]
        BY DEF SearchInv, TypeOK
      <4> QED
        BY <1>1, <1>2, <1>3, <2>1, <3>1, <4>1, CallTypeOK
  <2>3. CallsAreVisiting'
    BY <1>1, <1>3, <1>8, <2>1, CallKeepsStack DEF SearchInv
  <2>4. FinishedVisited' /\ SuccessorsFirst' /\ CallsFollowEdges' /\ VisitedInReach'
    BY <1>1, <1>3, <1>8, <2>1, CallKeepsRest DEF CalledFor
  <2>5. EntriesSeen'
    BY <1>1, <1>3, <1>5, <1>6, <2>1 DEF SearchInv, EntriesSeen, TypeOK, Nodes
  <2>6. LoopsRight'
    <3>1. stack' = <<i>>
      BY <1>1, <1>3, <2>1
    <3>2. Len(spec.successors[i]) \in Nat
      BY <1>2, <1>3, SpecParts
    <3>3. position'[i] = 1
      BY <1>3, <2>1 DEF SearchInv, TypeOK
    <3> QED
      BY <1>1, <3>1, <3>2, <3>3 DEF LoopsRight
  <2> QED
    BY <1>4, <2>2, <2>3, <2>4, <2>5, <2>6 DEF SearchInv
<1> QED
  BY <1>7, <1>8

LEMMA FindCycleSearchInv == SearchInv /\ FindCycle => SearchInv'
<1> SUFFICES ASSUME SearchInv, FindCycle PROVE SearchInv'
  OBVIOUS
<1>1. /\ verdict = "searching" /\ verdict' = "cycle" /\ UNCHANGED <<spec, searchVars>>
      /\ stack # <<>> /\ SuccessorsLeft /\ visitState[Following] = "visiting"
  BY DEF FindCycle, InCall, ClosesCycle
<1>2. TypeOK /\ NamesFit /\ EntriesFit
  BY <1>1 DEF SearchInv, VerdictsRight, Started
<1>3. Following \in Nodes /\ Edge(Current, Following)
  BY <1>1, <1>2, FollowingNamed
<1>4. ClosedCycle
  BY <1>1, <1>3 DEF ClosedCycle
<1>5. VerdictsRight'
  BY <1>1, <1>2, <1>4 DEF VerdictsRight, Started, ClosedCycle, Current, Edge, NamesFit,
     EntriesFit, Named, Mentioned, Nodes, searchVars
<1>6. NotStarted' /\ TypeOK'
  BY <1>1, <1>2 DEF NotStarted, Started, TypeOK, Nodes, searchVars
<1>7. /\ CallsAreVisiting' /\ FinishedVisited' /\ SuccessorsFirst' /\ LoopsRight'
      /\ CallsFollowEdges' /\ EntriesSeen' /\ VisitedInReach'
  BY <1>1 DEF SearchInv, CallsAreVisiting, FinishedVisited, SuccessorsFirst, LoopsRight,
     CallsFollowEdges, EntriesSeen, VisitedInReach, HoldsEntries, Closed, Edge, Nodes,
     searchVars
<1> QED
  BY <1>5, <1>6, <1>7 DEF SearchInv

\* The calls below the running one are about other nodes, which are being visited.
LEMMA StackFacts ==
  ASSUME TypeOK, CallsAreVisiting, stack # <<>>
  PROVE  /\ Len(stack) \in Nat \ {0} /\ DOMAIN stack = 1..Len(stack)
         /\ \A p \in 1..Len(stack) : stack[p] \in Nodes /\ visitState[stack[p]] = "visiting"
         /\ \A p \in 1..(Len(stack) - 1) : stack[p] # Current
<1>1. stack \in Seq(Nodes) /\ Len(stack) \in Nat \ {0} /\ DOMAIN stack = 1..Len(stack)
  BY DEF TypeOK
<1>2. \A p \in 1..Len(stack) : stack[p] \in Range(stack)
  BY <1>1 DEF Range
<1>3. \A p \in 1..Len(stack) : stack[p] \in Nodes /\ visitState[stack[p]] = "visiting"
  BY <1>2 DEF CallsAreVisiting
<1>4. \A p \in 1..(Len(stack) - 1) : stack[p] # Current
  BY <1>1 DEF CallsAreVisiting, IsInjective, Current
<1> QED
  BY <1>1, <1>3, <1>4

LEMMA DescendSearchInv == SearchInv /\ Descend => SearchInv'
<1> SUFFICES ASSUME SearchInv, Descend PROVE SearchInv'
  OBVIOUS
<1> DEFINE i == Following
<1>1. /\ verdict = "searching" /\ UNCHANGED <<spec, verdict, nextEntry, finished>>
      /\ stack # <<>> /\ SuccessorsLeft /\ visitState[i] # "visiting"
  BY DEF Descend, InCall, ClosesCycle
<1>2. TypeOK /\ NamesFit /\ Started /\ Started' /\ CallsAreVisiting
  BY <1>1 DEF SearchInv, VerdictsRight, Started
<1>3. /\ Current \in Nodes /\ i \in Nodes /\ Edge(Current, i)
      /\ spec.names[i] = spec.successors[Current][position[Current]]
  BY <1>1, <1>2, FollowingNamed
<1>4. VerdictsRight' /\ NotStarted'
  BY <1>1, <1>2 DEF SearchInv, VerdictsRight, NotStarted, NamesFit, EntriesFit, Named,
                    Mentioned, Nodes
<1>5. /\ Len(stack) \in Nat \ {0} /\ DOMAIN stack = 1..Len(stack)
      /\ \A p \in 1..Len(stack) : stack[p] \in Nodes /\ visitState[stack[p]] = "visiting"
      /\ \A p \in 1..(Len(stack) - 1) : stack[p] # Current
  BY <1>1, <1>2, StackFacts
<1>6. \A j \in Nodes : spec.names[j] = spec.names[i] => j = i
  BY <1>2, <1>3, NamesDiffer
<1>7. /\ Advanced \in [Nodes -> Nat \ {0}]
      /\ Advanced[Current] = position[Current] + 1
      /\ \A j \in Nodes : j # Current => Advanced[j] = position[j]
  BY <1>2, <1>3 DEF TypeOK, Advanced
<1>8. /\ position[Current] \in Nat \ {0} /\ Len(spec.successors[Current]) \in Nat
      /\ position[Current] <= Len(spec.successors[Current])
  BY <1>1, <1>2, <1>3, SpecParts DEF TypeOK, SuccessorsLeft
<1> HIDE DEF i
\* What the running call has passed once it goes on
<1>9. \A l \in 1..(Advanced[Current] - 1) : \A j \in Nodes :
        spec.names[j] = spec.successors[Current][l] => visitState[j] = "visited" \/ j = i
  <2> SUFFICES ASSUME NEW l \in 1..(Advanced[Current] - 1), NEW j \in Nodes,
                      spec.names[j] = spec.successors[Current][l]
               PROVE  visitState[j] = "visited" \/ j = i
    OBVIOUS
  <2>1. CASE l = position[Current]
    BY <1>3, <1>6, <2>1
  <2>2. CASE l # position[Current]
    <3>1. l \in 1..(position[Current] - 1)
      BY <1>7, <1>8, <2>2
    <3>2. Len(stack) \in DOMAIN stack /\ ~(Len(stack) < Len(stack))
      <4>1. Len(stack) \in Nat \ {0} /\ DOMAIN stack = 1..Len(stack)
        BY <1>5
      <4> QED
        BY <4>1
    <3> QED
      BY <3>1, <3>2 DEF SearchInv, LoopsRight, Current
  <2> QED
    BY <2>1, <2>2
<1>10. CASE visitState[i] # "unvisited"
  <2>1. UNCHANGED <<visitState, stack>> /\ position' = Advanced
    BY <1>10 DEF Descend, i
  <2>2. TypeOK'
    BY <1>1, <1>2, <1>7, <2>1 DEF TypeOK, Nodes
  <2>3. visitState[i] = "visited"
    BY <1>1, <1>2, <1>3, <1>10 DEF TypeOK, i
  <2>4. LoopsRight'
    <3> SUFFICES ASSUME NEW p \in 1..Len(stack)
                 PROVE  /\ Advanced[stack[p]] <= Len(spec.successors[stack[p]]) + 1
                        /\ \A l \in 1..(Advanced[stack[p]] - 1) : \A j \in Nodes :
                             spec.names[j] = spec.successors[stack[p]][l] =>
                               visitState[j] = "visited" \/ (p < Len(stack) /\ j = stack[p + 1])
      <4>1. DOMAIN stack = 1..Len(stack)
        BY <1>5
      <4>2. spec' = spec /\ stack' = stack /\ position' = Advanced /\ visitState' = visitState
        BY <1>1, <2>1
      <4> QED
        BY <4>1, <4>2 DEF LoopsRight, Nodes
    <3>1. CASE p = Len(stack)
      <4>1. stack[p] = Current
        BY <3>1 DEF Current
      <4>2. Advanced[Current] <= Len(spec.successors[Current]) + 1
        BY <1>7, <1>8
      <4> QED
        BY <1>9, <2>3, <4>1, <4>2
    <3>2. CASE p # Len(stack)
      <4>1. stack[p] \in Nodes /\ stack[p] # Current
        BY <1>5, <3>2
      <4>2. Advanced[stack[p]] = position[stack[p]]
        BY <1>7, <4>1
      <4> QED
        BY <1>5, <4>2 DEF SearchInv, LoopsRight
    <3> QED
      BY <3>1, <3>2
  <2>5. /\ CallsAreVisiting' /\ FinishedVisited' /\ SuccessorsFirst' /\ CallsFollowEdges'
        /\ EntriesSeen' /\ VisitedInReach'
    BY <1>1, <2>1 DEF SearchInv, CallsAreVisiting, FinishedVisited, SuccessorsFirst,
       CallsFollowEdges, EntriesSeen, VisitedInReach, HoldsEntries, Closed, Edge, Nodes
  <2> QED
    BY <1>4, <2>2, <2>4, <2>5 DEF SearchInv
<1>11. CASE visitState[i] = "unvisited"
  <2>1. /\ visitState' = [visitState EXCEPT ![i] = "visiting"]
        /\ stack' = Append(stack, i) /\ position' = [Advanced EXCEPT ![i] = 1]
    BY <1>11 DEF Descend, Call, i
  <2>2. nextEntry' \in Nat \ {0}
    BY <1>1, <1>2 DEF TypeOK
  <2>3. TypeOK'
    BY <1>1, <1>2, <1>3, <1>7, <2>1, <2>2, CallTypeOK
  <2>4. /\ CallsAreVisiting'
        /\ Len(stack') = Len(stack) + 1 /\ stack'[Len(stack')] = i
        /\ \A p \in 1..Len(stack) : stack'[p] = stack[p] /\ stack[p] # i
    BY <1>1, <1>2, <1>3, <1>11, <2>1, CallKeepsStack
  <2>5. FinishedVisited' /\ SuccessorsFirst' /\ CallsFollowEdges' /\ VisitedInReach'
    BY <1>1, <1>3, <1>11, <2>1, CallKeepsRest DEF CalledFor
  <2>6. EntriesSeen'
    BY <1>1, <1>2, <1>3, <2>1 DEF SearchInv, EntriesSeen, TypeOK, Nodes
  <2>7. \A j \in Nodes : visitState[j] = "visited" => visitState'[j] = "visited"
    BY <1>2, <1>11, <2>1 DEF TypeOK
  <2>8. LoopsRight'
    <3> SUFFICES ASSUME NEW p \in 1..(Len(stack) + 1)
                 PROVE  /\ position'[stack'[p]] <= Len(spec.successors[stack'[p]]) + 1
                        /\ \A l \in 1..(position'[stack'[p]] - 1) : \A j \in Nodes :
                             spec.names[j] = spec.successors[stack'[p]][l] =>
                               visitState'[j] = "visited"
                                 \/ (p < Len(stack) + 1 /\ j = stack'[p + 1])
      <4>1. stack' \in Seq(Nodes')
        BY <2>3 DEF TypeOK
      <4>2. DOMAIN stack' = 1..(Len(stack) + 1)
        BY <2>4, <4>1
      <4> QED
        BY <1>1, <2>4, <4>2 DEF LoopsRight, Nodes
    <3>1. CASE p = Len(stack) + 1
      <4>1. stack'[p] = i /\ position'[i] = 1
        BY <1>3, <1>7, <2>1, <2>4, <3>1
      <4>2. Len(spec.successors[i]) \in Nat
        BY <1>2, <1>3, SpecParts
      <4> QED
        BY <4>1, <4>2
    <3>2. CASE p = Len(stack)
      <4>1. stack'[p] = Current /\ stack'[p + 1] = i /\ Current # i
        BY <1>5, <2>4, <3>2 DEF Current
      <4>2. position'[Current] = Advanced[Current]
        BY <1>3, <1>7, <2>1, <4>1
      <4>3. Advanced[Current] <= Len(spec.successors[Current]) + 1
        BY <1>7, <1>8
      <4>4. \A l \in 1..(Advanced[Current] - 1) : \A j \in Nodes :
              spec.names[j] = spec.successors[Current][l] =>
                visitState'[j] = "visited" \/ j = i
        BY <1>9, <2>7
      <4> QED
        BY <1>5, <3>2, <4>1, <4>2, <4>3, <4>4
    <3>3. CASE p # Len(stack) /\ p # Len(stack) + 1
      <4>1. p \in 1..(Len(stack) - 1) /\ p + 1 \in 1..Len(stack)
        <5>1. Len(stack) \in Nat
          BY <1>5
        <5> QED
          BY <3>3, <5>1
      <4>2. stack'[p] = stack[p] /\ stack'[p + 1] = stack[p + 1] /\ stack[p] # i
        BY <1>5, <2>4, <4>1
      <4>3. stack[p] \in Nodes /\ stack[p] # Current
        BY <1>5, <4>1
      <4>4. position'[stack[p]] = position[stack[p]]
        BY <1>7, <2>1, <4>2, <4>3
      <4>5. /\ position[stack[p]] <= Len(spec.successors[stack[p]]) + 1
            /\ \A l \in 1..(position[stack[p]] - 1) : \A j \in Nodes :
                 spec.names[j] = spec.successors[stack[p]][l] =>
                   visitState[j] = "visited" \/ (p < Len(stack) /\ j = stack[p + 1])
        <5>1. p \in DOMAIN stack
          BY <1>5, <4>1
        <5>2. LoopsRight
          BY DEF SearchInv
        <5> QED
          BY <5>1, <5>2 DEF LoopsRight
      <4> QED
        BY <1>5, <2>7, <4>1, <4>2, <4>4, <4>5
    <3> QED
      BY <3>1, <3>2, <3>3
  <2> QED
    BY <1>4, <2>3, <2>4, <2>5, <2>6, <2>8 DEF SearchInv
<1> QED
  BY <1>10, <1>11

LEMMA ShorterStack ==
  ASSUME NEW S, NEW q \in Seq(S), q # <<>>
  PROVE  LET r == SubSeq(q, 1, Len(q) - 1) IN
         /\ r \in Seq(S) /\ Len(r) = Len(q) - 1 /\ DOMAIN r = 1..(Len(q) - 1)
         /\ \A p \in 1..(Len(q) - 1) : r[p] = q[p]
<1> DEFINE n == Len(q)
           r == SubSeq(q, 1, n - 1)
<1>1. n \in Nat \ {0} /\ \A p \in 1..n : q[p] \in S
  OBVIOUS
<1> HIDE DEF n
<1>2. n - 1 \in Int /\ 1 \in Int /\ \A p \in 1..(n - 1) : q[p] \in S
  BY <1>1
<1>3. /\ r \in Seq(S)
      /\ Len(r) = IF 1 <= n - 1 THEN (n - 1) - 1 + 1 ELSE 0
      /\ \A p \in 1..((n - 1) - 1 + 1) : r[p] = q[1 + p - 1]
  BY <1>2, SubSeqProperties
<1> HIDE DEF r
<1>4. Len(r) = n - 1 /\ \A p \in 1..(n - 1) : r[p] = q[p]
  BY <1>1, <1>3
<1>5. DOMAIN r = 1..(n - 1)
  BY <1>3, <1>4
<1> QED
  BY <1>3, <1>4, <1>5 DEF n, r

LEMMA ReturnSearchInv == SearchInv /\ Return => SearchInv'
<1> SUFFICES ASSUME SearchInv, Return PROVE SearchInv'
  OBVIOUS
<1> DEFINE i == Current
           n == Len(stack)
<1>1. /\ verdict = "searching" /\ UNCHANGED <<spec, verdict, position, nextEntry>>
      /\ stack # <<>> /\ ~SuccessorsLeft
      /\ visitState' = [visitState EXCEPT ![i] = "visited"]
      /\ stack' = SubSeq(stack, 1, n - 1) /\ finished' = Append(finished, i)
  BY DEF Return, InCall, Left
<1>2. TypeOK /\ NamesFit /\ Started /\ Started' /\ CallsAreVisiting
  BY <1>1 DEF SearchInv, VerdictsRight, Started
<1>3. /\ n \in Nat \ {0} /\ DOMAIN stack = 1..n
      /\ \A p \in 1..n : stack[p] \in Nodes /\ visitState[stack[p]] = "visiting"
      /\ \A p \in 1..(n - 1) : stack[p] # i
  BY <1>1, <1>2, StackFacts
<1>4. i \in Nodes /\ visitState[i] = "visiting" /\ i = stack[n]
  BY <1>3 DEF Current
<1>5. VerdictsRight' /\ NotStarted'
  BY <1>1, <1>2 DEF SearchInv, VerdictsRight, NotStarted, NamesFit, EntriesFit, Named,
                    Mentioned, Nodes
<1>6. /\ stack' \in Seq(Nodes) /\ Len(stack') = n - 1 /\ DOMAIN stack' = 1..(n - 1)
      /\ \A p \in 1..(n - 1) : stack'[p] = stack[p]
  <2>1. stack \in Seq(Nodes)
    BY <1>2 DEF TypeOK
  <2> QED
    BY <1>1, <2>1, ShorterStack
<1>7. /\ finished \in Seq(Nodes) /\ Len(finished) \in Nat
      /\ DOMAIN finished = 1..Len(finished)
  BY <1>2 DEF TypeOK
<1> HIDE DEF i, n
<1>8. /\ finished' \in Seq(Nodes) /\ DOMAIN finished' = 1..(Len(finished) + 1)
      /\ \A p \in 1..Len(finished) : finished'[p] = finished[p]
      /\ finished'[Len(finished) + 1] = i
  BY <1>1, <1>4, <1>7
<1>9. Nodes' = Nodes
  BY <1>1 DEF Nodes
<1>10. \A j \in Nodes : visitState'[j] = IF j = i THEN "visited" ELSE visitState[j]
  BY <1>1, <1>2 DEF TypeOK
<1>11. TypeOK'
  <2>1. visitState' \in [Nodes -> {"unvisited", "visiting", "visited"}]
    BY <1>1, <1>2 DEF TypeOK
  <2> QED
    BY <1>1, <1>2, <1>6, <1>8, <1>9, <2>1 DEF TypeOK
<1>12. CallsAreVisiting'
  <2>1. IsInjective(stack')
    BY <1>2, <1>3, <1>6 DEF CallsAreVisiting, IsInjective
  <2>2. Range(stack') = Range(stack) \ {i}
    <3>1. Range(stack) = {stack[p] : p \in 1..n}
      BY <1>3 DEF Range
    <3>2. Range(stack') = {stack[p] : p \in 1..(n - 1)}
      BY <1>6 DEF Range
    <3>3. n \in Nat \ {0}
      BY <1>3
    <3>4. \A p \in 1..n : p = n \/ p \in 1..(n - 1)
      BY <3>3
    <3>5. \A p \in 1..(n - 1) : p \in 1..n
      BY <3>3
    <3> QED
      BY <1>3, <1>4, <3>1, <3>2, <3>4, <3>5
  <2>3. Range(stack') = {j \in Nodes' : visitState'[j] = "visiting"}
    BY <1>2, <1>9, <1>10, <2>2 DEF CallsAreVisiting
  <2> QED
    BY <2>1, <2>3 DEF CallsAreVisiting
<1>13. FinishedVisited'
  <2>1. IsInjective(finished) /\ Range(finished) = {j \in Nodes : visitState[j] = "visited"}
    BY DEF SearchInv, FinishedVisited
  <2>2. \A p \in 1..Len(finished) : finished[p] # i
    BY <1>4, <1>7, <2>1 DEF Range
  <2>3. IsInjective(finished')
    <3>1. \A p, q \in 1..Len(finished) : finished[p] = finished[q] => p = q
      BY <1>7, <2>1 DEF IsInjective
    <3>2. \A p, q \in 1..(Len(finished) + 1) : finished'[p] = finished'[q] => p = q
      BY <1>7, <1>8, <2>2, <3>1
    <3> QED
      BY <1>8, <3>2 DEF IsInjective
  <2>4. Range(finished') = Range(finished) \cup {i}
    BY <1>7, <1>8 DEF Range
  <2> QED
    BY <1>4, <1>9, <1>10, <2>1, <2>3, <2>4 DEF FinishedVisited
\* All the successors of i were visited.
<1>14. \A j \in Nodes : Edge(i, j) => visitState[j] = "visited"
  <2> SUFFICES ASSUME NEW j \in Nodes, Edge(i, j) PROVE visitState[j] = "visited"
    OBVIOUS
  <2>1. /\ Len(spec.successors[i]) \in Nat
        /\ DOMAIN spec.successors[i] = 1..Len(spec.successors[i])
    BY <1>2, <1>4, SpecParts
  <2>2. PICK l \in 1..Len(spec.successors[i]) : spec.names[j] = spec.successors[i][l]
    BY <2>1 DEF Edge, Range
  <2>3. position[i] \in Nat /\ position[i] > Len(spec.successors[i])
    <3>1. position[i] \in Nat
      BY <1>2, <1>4 DEF TypeOK
    <3>2. ~(position[i] <= Len(spec.successors[i]))
      BY <1>1 DEF SuccessorsLeft, i
    <3> QED
      BY <2>1, <3>1, <3>2
  <2>4. l \in 1..(position[i] - 1)
    BY <2>1, <2>3
  <2>5. n \in DOMAIN stack /\ ~(n < n)
    <3>1. n \in Nat \ {0} /\ DOMAIN stack = 1..n
      BY <1>3
    <3> QED
      BY <3>1
  <2>6. LoopsRight
    BY DEF SearchInv
  <2> QED
    BY <1>4, <2>2, <2>4, <2>5, <2>6 DEF LoopsRight, n
<1>15. SuccessorsFirst'
  <2> SUFFICES ASSUME NEW p \in 1..(Len(finished) + 1), NEW j \in Nodes, Edge(finished'[p], j)
               PROVE  \E q \in 1..(p - 1) : finished'[q] = j
    BY <1>1, <1>8, <1>9 DEF SuccessorsFirst, Edge
  <2>1. CASE p = Len(finished) + 1
    <3>1. visitState[j] = "visited"
      BY <1>8, <1>14, <2>1
    <3>2. j \in Range(finished)
      BY <3>1 DEF SearchInv, FinishedVisited
    <3>3. PICK q \in 1..Len(finished) : finished[q] = j
      BY <1>7, <3>2 DEF Range
    <3>4. q \in 1..(p - 1)
      BY <1>7, <2>1
    <3> QED
      BY <1>8, <3>3, <3>4
  <2>2. CASE p # Len(finished) + 1
    <3>1. p \in 1..Len(finished)
      BY <1>7, <2>2
    <3>2. Edge(finished[p], j)
      BY <1>8, <3>1
    <3>3. PICK q \in 1..(p - 1) : finished[q] = j
      BY <1>7, <3>1, <3>2 DEF SearchInv, SuccessorsFirst
    <3>4. q \in 1..Len(finished)
      BY <1>7, <3>1
    <3> QED
      BY <1>8, <3>3, <3>4
  <2> QED
    BY <2>1, <2>2
<1>16. LoopsRight'
  <2> SUFFICES ASSUME NEW p \in 1..(n - 1)
               PROVE  /\ position[stack'[p]] <= Len(spec.successors[stack'[p]]) + 1
                      /\ \A l \in 1..(position[stack'[p]] - 1) : \A j \in Nodes :
                           spec.names[j] = spec.successors[stack'[p]][l] =>
                             visitState'[j] = "visited" \/ (p < n - 1 /\ j = stack'[p + 1])
    <3>1. spec' = spec /\ position' = position
      BY <1>1
    <3>2. Len(stack') = n - 1 /\ DOMAIN stack' = 1..(n - 1)
      BY <1>6
    <3> QED
      BY <1>9, <3>1, <3>2 DEF LoopsRight
  <2>1. n \in Nat \ {0}
    BY <1>3
  <2>2. p \in 1..n
    BY <2>1
  <2>3. /\ position[stack[p]] <= Len(spec.successors[stack[p]]) + 1
        /\ \A l \in 1..(position[stack[p]] - 1) : \A j \in Nodes :
             spec.names[j] = spec.successors[stack[p]][l] =>
               visitState[j] = "visited" \/ (p < n /\ j = stack[p + 1])
    BY <1>3, <2>2 DEF SearchInv, LoopsRight, n
  <2>7. stack'[p] = stack[p]
    BY <1>6
  <2>4. \A j \in Nodes : visitState[j] = "visited" => visitState'[j] = "visited"
    BY <1>10
  <2>5. CASE p = n - 1
    <3>1. p + 1 = n
      BY <2>1, <2>5
    <3>2. stack[p + 1] = i /\ visitState'[i] = "visited"
      BY <1>4, <1>10, <3>1
    <3> QED
      BY <2>3, <2>4, <2>7, <3>2
  <2>6. CASE p # n - 1
    <3>1. p < n - 1 /\ p + 1 \in 1..(n - 1)
      BY <2>1, <2>6
    <3>2. stack'[p + 1] = stack[p + 1]
      BY <1>6, <3>1
    <3> QED
      BY <2>3, <2>4, <2>7, <3>1, <3>2
  <2> QED
    BY <2>5, <2>6
<1>17. CallsFollowEdges'
  <2> SUFFICES ASSUME NEW p \in 1..(n - 2) PROVE Edge(stack'[p], stack'[p + 1])
    <3>1. n \in Nat \ {0} /\ Len(stack') = n - 1
      BY <1>3, <1>6
    <3>2. (n - 1) - 1 = n - 2
      BY <3>1
    <3> QED
      BY <1>1, <3>1, <3>2 DEF CallsFollowEdges, Edge
  <2>1. n \in Nat \ {0}
    BY <1>3
  <2>2. p \in 1..(n - 1) /\ p + 1 \in 1..(n - 1)
    BY <2>1
  <2>3. Edge(stack[p], stack[p + 1])
    BY <2>2 DEF SearchInv, CallsFollowEdges, n
  <2> QED
    BY <1>6, <2>2, <2>3
<1>18. EntriesSeen'
  BY <1>1, <1>9, <1>10 DEF SearchInv, EntriesSeen
<1>19. VisitedInReach'
  <2>1. \A j \in Nodes : visitState'[j] # "unvisited" => visitState[j] # "unvisited"
    BY <1>4, <1>10
  <2> QED
    BY <1>1, <1>9, <2>1 DEF SearchInv, VisitedInReach, HoldsEntries, Closed, Edge
<1> QED
  BY <1>5, <1>11, <1>12, <1>13, <1>15, <1>16, <1>17, <1>18, <1>19 DEF SearchInv

LEMMA CheckReachableSearchInv == SearchInv /\ CheckReachable => SearchInv'
<1> SUFFICES ASSUME SearchInv, CheckReachable PROVE SearchInv'
  OBVIOUS
<1>1. /\ verdict = "searching" /\ UNCHANGED <<spec, searchVars>> /\ SearchOver
      /\ verdict' = IF AllReached THEN "accepted" ELSE "unreachable"
  BY DEF CheckReachable, SearchOver
<1>2. TypeOK /\ NamesFit /\ EntriesFit
  BY <1>1 DEF SearchInv, VerdictsRight, Started
<1>3. VerdictsRight'
  BY <1>1, <1>2 DEF VerdictsRight, SearchOver, AllReached, NamesFit, EntriesFit, Named,
     Mentioned, Nodes, searchVars
<1>4. NotStarted' /\ TypeOK'
  BY <1>1, <1>2 DEF NotStarted, Started, TypeOK, Nodes, searchVars
<1>5. /\ CallsAreVisiting' /\ FinishedVisited' /\ SuccessorsFirst' /\ LoopsRight'
      /\ CallsFollowEdges' /\ EntriesSeen' /\ VisitedInReach'
  BY <1>1 DEF SearchInv, CallsAreVisiting, FinishedVisited, SuccessorsFirst, LoopsRight,
     CallsFollowEdges, EntriesSeen, VisitedInReach, HoldsEntries, Closed, Edge, Nodes,
     searchVars
<1> QED
  BY <1>3, <1>4, <1>5 DEF SearchInv

LEMMA NextSearchInv == SearchInv /\ [Next]_vars => SearchInv'
<1> SUFFICES ASSUME SearchInv, [Next]_vars PROVE SearchInv'
  OBVIOUS
<1>1. CASE ParseTaskDag
  BY <1>1, ParseSearchInv
<1>2. CASE CheckNames
  BY <1>2, CheckNamesSearchInv
<1>3. CASE VisitEntry
  BY <1>3, VisitEntrySearchInv
<1>4. CASE FindCycle
  BY <1>4, FindCycleSearchInv
<1>5. CASE Descend
  BY <1>5, DescendSearchInv
<1>6. CASE Return
  BY <1>6, ReturnSearchInv
<1>7. CASE CheckReachable
  BY <1>7, CheckReachableSearchInv
<1>8. CASE UNCHANGED vars
  <2>1. TypeOK' /\ NotStarted'
    BY <1>8 DEF SearchInv, TypeOK, NotStarted, Started, Nodes, vars, searchVars
  <2>2. VerdictsRight'
    BY <1>8 DEF SearchInv, VerdictsRight, Started, ClosedCycle, Current, Edge, SearchOver,
       AllReached, NamesFit, EntriesFit, Named, Mentioned, Nodes, vars, searchVars
  <2>3. /\ CallsAreVisiting' /\ FinishedVisited' /\ SuccessorsFirst' /\ LoopsRight'
        /\ CallsFollowEdges' /\ EntriesSeen' /\ VisitedInReach'
    BY <1>8 DEF SearchInv, CallsAreVisiting, FinishedVisited, SuccessorsFirst, LoopsRight,
       CallsFollowEdges, EntriesSeen, VisitedInReach, HoldsEntries, Closed, Edge, Nodes,
       vars, searchVars
  <2> QED
    BY <2>1, <2>2, <2>3 DEF SearchInv
<1> QED
  BY <1>1, <1>2, <1>3, <1>4, <1>5, <1>6, <1>7, <1>8 DEF Next

THEOREM SearchInvAlways == Spec => []SearchInv
BY InitSearchInv, NextSearchInv, PTL DEF Spec

------------------------------------------------------------------------------
(* What the verdicts mean *)

\* Of the places of finished that hold a node of a set, one is the last.
LEMMA LastFinished ==
  ASSUME TypeOK, NEW S, NEW p0 \in DOMAIN finished, finished[p0] \in S
  PROVE  \E p \in DOMAIN finished :
           /\ finished[p] \in S
           /\ \A q \in DOMAIN finished : finished[q] \in S => q <= p
<1> DEFINE n == Len(finished)
           T == {n - p : p \in {q \in 1..n : finished[q] \in S}}
           Less == {x \in Nat \X Nat : x[1] < x[2]}
<1>1. n \in Nat /\ DOMAIN finished = 1..n
  BY DEF TypeOK
<1> HIDE DEF n
<1>2. T \subseteq Nat /\ T # {}
  BY <1>1
<1>3. IsWellFoundedOn(Less, Nat)
  <2>1. OpToRel(<, Nat) = Less
    BY Zenon DEF OpToRel
  <2> QED
    BY <2>1, NatLessThanWellFounded, Zenon
<1>4. PICK x \in T : \A y \in T : ~(<<y, x>> \in Less)
  <2> HIDE DEF T, Less
  <2> QED
    BY <1>2, <1>3, WFMin
<1>5. \A y \in T : x <= y
  <2> SUFFICES ASSUME NEW y \in T PROVE x <= y
    OBVIOUS
  <2>1. ~(<<y, x>> \in Less)
    BY <1>4
  <2> HIDE DEF T
  <2>2. x \in Nat /\ y \in Nat
    BY <1>2
  <2> QED
    BY <2>1, <2>2
<1>6. PICK p \in 1..n : finished[p] \in S /\ x = n - p
  OBVIOUS
<1>7. \A q \in 1..n : finished[q] \in S => q <= p
  <2> SUFFICES ASSUME NEW q \in 1..n, finished[q] \in S PROVE q <= p
    OBVIOUS
  <2>1. n - q \in T
    OBVIOUS
  <2>2. n - p <= n - q
    BY <1>5, <1>6, <2>1
  <2> QED
    BY <1>1, <2>2
<1> QED
  BY <1>1, <1>6, <1>7

\* If all calls returned successors first, the node of a set that was left last has no
\* predecessor in the set.
LEMMA AcceptedAcyclic ==
  ASSUME SearchInv, verdict = "accepted"
  PROVE  Acyclic
<1> SUFFICES ASSUME NEW S \in SUBSET Nodes, S # {}
             PROVE  \E j \in S : \A i \in S : ~Edge(i, j)
  BY DEF Acyclic
<1>1. TypeOK /\ stack = <<>> /\ AllReached /\ IsInjective(finished)
  BY DEF SearchInv, VerdictsRight, SearchOver, FinishedVisited
<1>2. Range(stack) = {}
  BY <1>1 DEF Range
<1>3. Nodes \subseteq Range(finished)
  BY <1>1, <1>2 DEF SearchInv, FinishedVisited, CallsAreVisiting, AllReached, TypeOK
<1>4. PICK p0 \in DOMAIN finished : finished[p0] \in S
  BY <1>3 DEF Range
<1>5. PICK p \in DOMAIN finished :
        finished[p] \in S /\ \A q \in DOMAIN finished : finished[q] \in S => q <= p
  BY <1>1, <1>4, LastFinished
<1>6. ASSUME NEW i \in S, Edge(i, finished[p]) PROVE FALSE
  <2>1. PICK q \in DOMAIN finished : finished[q] = i
    BY <1>3 DEF Range
  <2>2. PICK r \in 1..(q - 1) : finished[r] = finished[p]
    BY <1>5, <1>6, <2>1 DEF SearchInv, SuccessorsFirst
  <2>3. DOMAIN finished = 1..Len(finished) /\ Len(finished) \in Nat
    BY <1>1 DEF TypeOK
  <2>4. r \in DOMAIN finished /\ r < q
    BY <2>1, <2>3
  <2>5. r = p
    BY <1>1, <2>2, <2>4 DEF IsInjective
  <2>6. q <= p
    BY <1>5, <2>1
  <2> QED
    BY <2>3, <2>4, <2>5, <2>6
<1> QED
  BY <1>5, <1>6

LEMMA AcceptedReachable ==
  ASSUME SearchInv, verdict = "accepted"
  PROVE  Reachable
<1>1. AllReached
  BY DEF SearchInv, VerdictsRight
<1> QED
  BY <1>1 DEF SearchInv, VisitedInReach, AllReached, Reachable

\* The stack from the node that closes the cycle up to the running call
LEMMA CycleFound ==
  ASSUME SearchInv, verdict = "cycle"
  PROVE  ~Acyclic
<1>1. stack # <<>>
  BY DEF SearchInv, VerdictsRight, ClosedCycle
<1>2. PICK j \in Nodes : visitState[j] = "visiting" /\ Edge(Current, j)
  BY DEF SearchInv, VerdictsRight, ClosedCycle
<1> DEFINE n == Len(stack)
<1>3. /\ n \in Nat \ {0} /\ DOMAIN stack = 1..n
      /\ \A p \in 1..n : stack[p] \in Nodes
  BY <1>1, StackFacts DEF SearchInv
<1>4. \A p \in 1..(n - 1) : Edge(stack[p], stack[p + 1])
  BY DEF SearchInv, CallsFollowEdges
<1>5. Edge(stack[n], j)
  BY <1>2 DEF Current
<1> HIDE DEF n
<1>6. PICK first \in 1..n : stack[first] = j
  BY <1>2, <1>3 DEF SearchInv, CallsAreVisiting, Range
<1> DEFINE S == {stack[p] : p \in first..n}
<1>7. S \subseteq Nodes /\ S # {}
  BY <1>3, <1>6
<1>8. ASSUME NEW k \in S PROVE \E i \in S : Edge(i, k)
  <2>1. PICK p \in first..n : k = stack[p]
    OBVIOUS
  <2>2. CASE p = first
    <3>1. stack[n] \in S
      BY <1>3, <1>6
    <3> QED
      BY <1>5, <1>6, <2>1, <2>2, <3>1
  <2>3. CASE p # first
    <3>1. p - 1 \in first..n /\ p - 1 \in 1..(n - 1) /\ (p - 1) + 1 = p
      BY <1>3, <1>6, <2>1, <2>3
    <3>2. stack[p - 1] \in S
      BY <3>1
    <3>3. Edge(stack[p - 1], stack[p])
      BY <1>4, <3>1
    <3> QED
      BY <2>1, <3>2, <3>3
  <2> QED
    BY <2>2, <2>3
<1> HIDE DEF S
<1> QED
  BY <1>7, <1>8 DEF Acyclic

\* The visited nodes hold the entry points and their own successors.
LEMMA UnreachableFound ==
  ASSUME SearchInv, verdict = "unreachable"
  PROVE  ~Reachable
<1> DEFINE S == {i \in Nodes : visitState[i] # "unvisited"}
<1>1. TypeOK /\ SearchOver /\ ~AllReached
  BY DEF SearchInv, VerdictsRight
<1>2. HoldsEntries(S)
  <2> SUFFICES ASSUME NEW i \in Nodes, spec.names[i] \in Range(spec.entries)
               PROVE  visitState[i] # "unvisited"
    BY DEF HoldsEntries
  <2>1. /\ Len(spec.entries) \in Nat /\ DOMAIN spec.entries = 1..Len(spec.entries)
        /\ nextEntry \in Nat /\ nextEntry > Len(spec.entries)
    BY <1>1, SpecParts DEF TypeOK, SearchOver
  <2>2. PICK e \in 1..Len(spec.entries) : spec.names[i] = spec.entries[e]
    BY <2>1 DEF Range
  <2>3. e \in 1..(nextEntry - 1) /\ e \in DOMAIN spec.entries
    BY <2>1
  <2> QED
    BY <2>2, <2>3 DEF SearchInv, EntriesSeen
<1>3. Closed(S)
  <2> SUFFICES ASSUME NEW i \in S, NEW j \in Nodes, Edge(i, j) PROVE j \in S
    BY DEF Closed
  <2>1. Range(stack) = {}
    BY <1>1 DEF SearchOver, Range
  <2>2. visitState[i] = "visited"
    BY <1>1, <2>1 DEF SearchInv, CallsAreVisiting, TypeOK
  <2>3. i \in Range(finished)
    BY <2>2 DEF SearchInv, FinishedVisited
  <2>4. PICK p \in DOMAIN finished : finished[p] = i
    BY <2>3 DEF Range
  <2>5. PICK q \in 1..(p - 1) : finished[q] = j
    BY <2>4 DEF SearchInv, SuccessorsFirst
  <2>6. q \in DOMAIN finished
    BY <1>1, <2>4, <2>5 DEF TypeOK
  <2>7. j \in Range(finished)
    BY <2>5, <2>6 DEF Range
  <2> QED
    BY <2>7 DEF SearchInv, FinishedVisited
<1>4. S # Nodes /\ S \subseteq Nodes
  BY <1>1 DEF AllReached
<1> HIDE DEF S
<1> QED
  BY <1>2, <1>3, <1>4 DEF Reachable

\* validate_task_dag_spec accepts only what it is documented to accept: a DAG of any
\* size that passes has different names, existing successors and entry points, no cycle
\* and no node out of reach.
THEOREM AcceptedDagsAreValid == Spec => []AcceptedIsValid
<1>1. SearchInv => AcceptedIsValid
  BY AcceptedAcyclic, AcceptedReachable DEF SearchInv, VerdictsRight, Started, AcceptedIsValid
<1> QED
  BY <1>1, SearchInvAlways, PTL

\* A DAG of any size that is refused has the fault it is refused for.
THEOREM RefusedDagsAreFaulty == Spec => []RefusedForAReason
<1>1. SearchInv => RefusedForAReason
  BY CycleFound, UnreachableFound DEF SearchInv, VerdictsRight, RefusedForAReason
<1> QED
  BY <1>1, SearchInvAlways, PTL

\* The verdict is right for every graph, of any size.
THEOREM VerdictsAreRight == Spec => []VerdictRight
<1>1. AcceptedIsValid /\ RefusedForAReason => VerdictRight
  BY DEF VerdictRight
<1> QED
  BY <1>1, AcceptedDagsAreValid, RefusedDagsAreFaulty, PTL

\* The recursion of dfs is on different nodes, so it is no deeper than the DAG has nodes.
THEOREM CallsAreAlwaysVisiting == Spec => []CallsAreVisiting
<1>1. SearchInv => CallsAreVisiting
  BY DEF SearchInv
<1> QED
  BY <1>1, SearchInvAlways, PTL

\* The calls of dfs return for every successor before they return for a node.
THEOREM SuccessorsAlwaysFirst == Spec => []SuccessorsFirst
<1>1. SearchInv => SuccessorsFirst
  BY DEF SearchInv
<1> QED
  BY <1>1, SearchInvAlways, PTL

------------------------------------------------------------------------------
(* Inferred entry points *)

\* An ordering of a finite set leaves nothing out.
LEMMA OrderingHasAll ==
  ASSUME NEW S, IsFiniteSet(S), NEW q \in Orderings(S)
  PROVE  Range(q) = S
<1> DEFINE n == Cardinality(S)
<1>1. n \in Nat
  BY FS_CardinalityType
<1>2. IsFiniteSet(1..n) /\ Cardinality(1..n) = n
  BY <1>1, FS_Interval
<1>3. q \in Injection(1..n, S)
  BY DEF Orderings, IsInjective, Injection
<1>4. q \in Surjection(1..n, S)
  BY <1>2, <1>3, FS_Injection
<1> QED
  BY <1>4 DEF Surjection, Range

\* In a DAG without cycles, the nodes without predecessors reach every other.
LEMMA CandidatesReach ==
  ASSUME NamesFit, Acyclic, NEW S \in SUBSET Nodes, Closed(S),
         \A i \in Nodes : spec.names[i] \in Candidates => i \in S
  PROVE  S = Nodes
<1> SUFFICES ASSUME Nodes \ S # {} PROVE FALSE
  OBVIOUS
<1>1. PICK j \in Nodes \ S : \A i \in Nodes \ S : ~Edge(i, j)
  BY DEF Acyclic
<1>2. \A i \in S : ~Edge(i, j)
  BY <1>1 DEF Closed
<1>3. spec.names[j] \notin Mentioned
  BY <1>1, <1>2 DEF Mentioned, Edge
<1>4. spec.names[j] \in Candidates
  BY <1>1, <1>3 DEF Candidates, Named, Range, Nodes
<1> QED
  BY <1>1, <1>4

LEMMA CandidatesExist ==
  ASSUME TypeOK, NamesFit, Acyclic
  PROVE  Candidates # {}
<1>1. Nodes # {}
  <2>1. spec.names \in Seq(Name) /\ spec.names # <<>> /\ Nodes = 1..Len(spec.names)
    BY SpecParts DEF NamesFit
  <2>2. Len(spec.names) \in Nat \ {0}
    BY <2>1, EmptySeq
  <2>3. 1 \in Nodes
    BY <2>1, <2>2
  <2> QED
    BY <2>3
<1> SUFFICES ASSUME Candidates = {} PROVE FALSE
  OBVIOUS
<1>2. Closed({})
  BY DEF Closed
<1>3. {} = Nodes
  BY <1>2, CandidatesReach
<1> QED
  BY <1>1, <1>3

\* A document without entry points and without faults of its own is never turned away
\* for the entry points that parse_task_dag finds, whatever its size and their order.
THEOREM InferenceAlwaysSuffices == Spec => InferenceSuffices
<1> DEFINE Step == /\ verdict = "loading" /\ verdict' # verdict
                   /\ spec.entries = <<>> /\ NamesFit /\ Acyclic
<1>1. ASSUME SearchInv, Next, Step PROVE verdict' = "given" /\ Reachable'
  <2>1. ParseTaskDag
    BY <1>1 DEF Next, CheckNames, VisitEntry, FindCycle, Descend, Return, CheckReachable,
       InCall
  <2>2. TypeOK /\ Candidates # {}
    BY <1>1, CandidatesExist DEF SearchInv
  <2>3. Loadable
    BY <1>1, <2>2 DEF Loadable, Range
  <2>4. verdict' = "given"
    BY <2>1, <2>3 DEF ParseTaskDag
  <2>5. PICK entries \in Orderings(Candidates) : spec' = [spec EXCEPT !.entries = entries]
    BY <1>1, <2>1, <2>3 DEF ParseTaskDag
  <2>6. Range(entries) = Candidates
    BY <2>2, <2>5, CandidatesFinite, OrderingHasAll
  <2>7. /\ spec'.entries = entries /\ spec'.names = spec.names
        /\ spec'.successors = spec.successors
    BY <2>2, <2>5 DEF TypeOK, SpecType
  <2>8. Nodes' = Nodes /\ \A i, j \in Nodes : Edge(i, j)' = Edge(i, j)
    BY <2>7 DEF Nodes, Edge
  <2>9. \A S \in SUBSET Nodes : HoldsEntries(S)' /\ Closed(S)' => S = Nodes
    <3> SUFFICES ASSUME NEW S \in SUBSET Nodes, HoldsEntries(S)', Closed(S)'
                 PROVE  S = Nodes
      OBVIOUS
    <3>1. Closed(S)
      BY <2>8 DEF Closed
    <3>2. \A i \in Nodes : spec.names[i] \in Candidates => i \in S
      BY <2>6, <2>7, <2>8 DEF HoldsEntries
    <3> QED
      BY <1>1, <3>1, <3>2, CandidatesReach
  <2> QED
    BY <2>4, <2>8, <2>9 DEF Reachable
<1>2. SearchInv /\ [Next]_vars =>
        [verdict = "loading" /\ verdict' # verdict /\ spec.entries = <<>> /\ NamesFit
           /\ Acyclic => verdict' = "given" /\ Reachable']_vars
  <2> SUFFICES ASSUME SearchInv, Next
               PROVE  Step => verdict' = "given" /\ Reachable'
    OBVIOUS
  <2> QED
    BY <1>1
<1> QED
  BY <1>2, SearchInvAlways, PTL DEF Spec, InferenceSuffices

------------------------------------------------------------------------------
(* Folds *)

LEMMA LeastPosition ==
  ASSUME NEW S \in SUBSET Nat, S # {}
  PROVE  \E i \in S : \A j \in S : i <= j
<1>1. PICK i \in S : \A j \in S : <<j, i>> \notin OpToRel(<, Nat)
  BY NatLessThanWellFounded, WFMin
<1>2. \A j \in S : <<j, i>> \in Nat \X Nat /\ <<j, i>>[1] = j /\ <<j, i>>[2] = i
  OBVIOUS
<1>3. \A j \in S : ~(j < i)
  BY <1>1, <1>2 DEF OpToRel
<1> QED BY <1>3

LEMMA MaxOf ==
  ASSUME NEW L \in Nat, NEW s \in SUBSET (1..L), s # {}
  PROVE  Max(s) \in s /\ \A y \in s : Max(s) >= y
<1> DEFINE above == {n \in Nat : \A y \in s : n >= y}
<1>1. L \in above
  OBVIOUS
<1>2. PICK n \in above : \A m \in above : n <= m
  <2>1. above \in SUBSET Nat /\ above # {}
    BY <1>1
  <2> HIDE DEF above
  <2> QED BY <2>1, LeastPosition
<1>3. n \in s
  <2> SUFFICES ASSUME n \notin s PROVE FALSE
    OBVIOUS
  <2>1. \A y \in s : y \in Nat \ {0} /\ n >= y /\ n # y
    BY <1>2
  <2>2. n - 1 \in Nat /\ \A y \in s : n - 1 >= y
    <3>1. n \in Nat /\ \E y \in s : y \in Nat \ {0} /\ n >= y
      BY <2>1, <1>2
    <3> HIDE DEF above
    <3> QED BY <2>1, <3>1
  <2>3. n - 1 \in above /\ ~(n <= n - 1)
    BY <2>2
  <2> HIDE DEF above
  <2> QED BY <1>2, <2>3
<1> QED BY <1>2, <1>3 DEF Max

\* The function over which FoldLeft is defined, for a step that is a function
FoldsTo(F, states, base, step, L) ==
  /\ F \in [SUBSET (1..L) -> states]
  /\ \A s \in SUBSET (1..L) :
       F[s] = IF s = {} THEN base ELSE step[<<F[s \ {Max(s)}], Max(s)>>]

\* There is one: it can be extended from smaller sets to larger ones.
LEMMA FoldsExist ==
  ASSUME NEW states, NEW L \in Nat, NEW base \in states,
         NEW step \in [states \X (1..L) -> states]
  PROVE  \E F : FoldsTo(F, states, base, step, L)
<1> DEFINE S == 1..L
           Step(F, s) == IF s = {} THEN base ELSE step[<<F[s \ {Max(s)}], Max(s)>>]
           UpTo(F, n) == /\ F \in [SUBSET S -> states]
                         /\ \A s \in SUBSET S : Cardinality(s) <= n => F[s] = Step(F, s)
           Bad == {n \in Nat : ~\E F : UpTo(F, n)}
<1>0. IsFiniteSet(S)
  BY FS_Interval
<1>1. \A s \in SUBSET S : IsFiniteSet(s) /\ Cardinality(s) \in Nat /\ Cardinality(s) <= Cardinality(S)
  BY <1>0, FS_Subset, FS_CardinalityType
<1>2. \A s \in SUBSET S : s # {} => /\ Max(s) \in S /\ s \ {Max(s)} \in SUBSET S
                                   /\ Cardinality(s \ {Max(s)}) = Cardinality(s) - 1
  BY <1>1, MaxOf, FS_RemoveElement
<1>3. \A F \in [SUBSET S -> states] : \A s \in SUBSET S : Step(F, s) \in states
  BY <1>2
<1>4. Bad = {}
  <2> SUFFICES ASSUME Bad # {} PROVE FALSE
    OBVIOUS
  <2>1. PICK n \in Bad : \A m \in Bad : n <= m
    <3>1. Bad \in SUBSET Nat
      OBVIOUS
    <3> HIDE DEF Bad
    <3> QED BY <3>1, LeastPosition
  <2>2. n \in Nat /\ n # 0
    <3> DEFINE Z == [s \in SUBSET S |-> base]
    <3>1. UpTo(Z, 0)
      BY <1>1, FS_EmptySet
    <3> QED BY <3>1
  <2>3. n - 1 \in Nat /\ n - 1 \notin Bad
    <3>1. n - 1 \in Nat /\ ~(n <= n - 1)
      BY <2>2
    <3> HIDE DEF Bad
    <3> QED BY <2>1, <3>1
  <2>4. PICK F : UpTo(F, n - 1)
    BY <2>3
  <2> DEFINE G == [s \in SUBSET S |-> IF Cardinality(s) = n THEN Step(F, s) ELSE F[s]]
  <2>5. G \in [SUBSET S -> states]
    <3>1. \A s \in SUBSET S : Step(F, s) \in states
      BY <1>3, <2>4
    <3> HIDE DEF Step
    <3> QED BY <2>4, <3>1
  <2>6. ASSUME NEW s \in SUBSET S, Cardinality(s) <= n
        PROVE  G[s] = Step(G, s)
    <3>1. CASE s = {}
      <4>1. Cardinality(s) = 0
        BY <3>1, FS_EmptySet
      <4>2. G[s] = F[s] /\ Cardinality(s) <= n - 1
        <5> HIDE DEF Step
        <5> QED BY <2>2, <4>1
      <4> HIDE DEF G
      <4> QED BY <2>4, <3>1, <4>2
    <3>2. CASE s # {}
      <4> DEFINE u == s \ {Max(s)}
      <4>1. u \in SUBSET S /\ Cardinality(u) = Cardinality(s) - 1
        BY <1>2, <3>2
      <4>2. G[u] = F[u]
        <5>1. Cardinality(u) # n
          BY <1>1, <2>2, <2>6, <4>1
        <5> HIDE DEF u, Step
        <5> QED BY <4>1, <5>1
      <4>3. G[s] = Step(F, s)
        <5>1. CASE Cardinality(s) = n
          <6> HIDE DEF Step
          <6> QED BY <5>1
        <5>2. CASE Cardinality(s) # n
          <6>1. Cardinality(s) <= n - 1
            BY <1>1, <2>2, <2>6, <5>2
          <6>2. F[s] = Step(F, s)
            <7> HIDE DEF Step
            <7> QED BY <2>4, <6>1
          <6> HIDE DEF Step
          <6> QED BY <5>2, <6>2
        <5> QED BY <5>1, <5>2
      <4>4. Step(G, s) = Step(F, s)
        <5> HIDE DEF G
        <5> QED BY <4>2
      <4> HIDE DEF G, Step
      <4> QED BY <4>3, <4>4
    <3> QED BY <3>1, <3>2
  <2>7. UpTo(G, n)
    <3> HIDE DEF G, Step
    <3> QED BY <2>5, <2>6
  <2> QED BY <2>1, <2>7
<1>5. PICK F : UpTo(F, Cardinality(S))
  BY <1>0, <1>4, FS_CardinalityType
<1> QED BY <1>1, <1>5 DEF FoldsTo

\* The states after each number of steps of such a fold
StatesOf(after, states, base, step, L) ==
  /\ after \in [0..L -> states] /\ after[0] = base
  /\ \A k \in 1..L : after[k] = step[<<after[k - 1], k>>]

\* A function that is defined like that takes the states one after the other.
LEMMA FoldStates ==
  ASSUME NEW states, NEW L \in Nat, NEW base \in states,
         NEW step \in [states \X (1..L) -> states], NEW F, F[{}] = base,
         \A s \in SUBSET (1..L) :
           s # {} /\ F[s \ {Max(s)}] \in states => F[s] = step[<<F[s \ {Max(s)}], Max(s)>>]
  PROVE  \E after : after = [k \in 0..L |-> F[1..k]] /\ StatesOf(after, states, base, step, L)
<1> DEFINE after == [k \in 0..L |-> F[1..k]]
           Bad == {k \in 0..L : F[1..k] \notin states}
<1>1. 1..0 = {}
  OBVIOUS
<1>2. after[0] = base
  BY <1>1
<1>3. ASSUME NEW k \in 1..L, F[1..(k - 1)] \in states
      PROVE  F[1..k] = step[<<F[1..(k - 1)], k>>]
  <2>1. Max(1..k) = k
    <3>1. Max(1..k) \in 1..k /\ \A y \in 1..k : Max(1..k) >= y
      <4>1. k \in Nat /\ 1..k \in SUBSET (1..k) /\ 1..k # {}
        OBVIOUS
      <4> QED BY ONLY <4>1, MaxOf
    <3> QED BY <3>1
  <2>2. 1..k \in SUBSET (1..L) /\ 1..k # {} /\ (1..k) \ {k} = 1..(k - 1)
    OBVIOUS
  <2> QED BY <1>3, <2>1, <2>2
<1>4. Bad = {}
  <2> SUFFICES ASSUME Bad # {} PROVE FALSE
    OBVIOUS
  <2>1. PICK k \in Bad : \A m \in Bad : k <= m
    <3>1. Bad \in SUBSET Nat
      OBVIOUS
    <3> HIDE DEF Bad
    <3> QED BY <3>1, LeastPosition
  <2>2. k \in 1..L
    BY <1>1
  <2>3. k - 1 \in 0..L /\ k - 1 \notin Bad
    <3>1. k - 1 \in 0..L /\ ~(k <= k - 1)
      BY <2>2
    <3> HIDE DEF Bad
    <3> QED BY <2>1, <3>1
  <2>4. F[1..(k - 1)] \in states
    BY <2>3
  <2>5. F[1..k] \in states
    BY <1>3, <2>2, <2>4
  <2> QED BY <2>5
<1>5. \A k \in 0..L : F[1..k] \in states
  BY <1>4
<1>6. after \in [0..L -> states]
  BY <1>5
<1>7. \A k \in 1..L : after[k] = step[<<after[k - 1], k>>]
  <2> SUFFICES ASSUME NEW k \in 1..L
               PROVE  after[k] = step[<<after[k - 1], k>>]
    OBVIOUS
  <2>1. k - 1 \in 0..L /\ k \in 0..L
    OBVIOUS
  <2> QED BY <1>3, <1>5, <2>1
<1>8. StatesOf(after, states, base, step, L)
  <2> HIDE DEF after
  <2> QED BY <1>2, <1>6, <1>7 DEF StatesOf
<1> QED BY <1>8

------------------------------------------------------------------------------
(* The topological order *)

LoopState == [indegree : [Nodes -> Nat], ready : Seq(Nodes), order : Seq(Nodes)]

\* What the constructor of the order is given: names that fit, see NamesFit
GraphGiven == TypeOK /\ NamesFit

Mentions == UNION {{i} \X DOMAIN spec.successors[i] : i \in Nodes}
Target(e) == SuccessorsOf(e[1])[e[2]]
MentionsOf(j) == {e \in Mentions : Target(e) = j}

LEMMA SuccessorNodes ==
  ASSUME GraphGiven, NEW i \in Nodes
  PROVE  /\ SuccessorsOf(i) \in Seq(Nodes)
         /\ DOMAIN SuccessorsOf(i) = DOMAIN spec.successors[i]
         /\ Len(SuccessorsOf(i)) = Len(spec.successors[i])
         /\ \A k \in DOMAIN SuccessorsOf(i) :
              spec.names[SuccessorsOf(i)[k]] = spec.successors[i][k]
<1> DEFINE list == spec.successors[i]
<1>1. list \in Seq(Name) /\ DOMAIN list = 1..Len(list) /\ Len(list) \in Nat
  BY SpecParts DEF GraphGiven
<1>2. \A k \in DOMAIN list : Index(list[k]) \in Nodes /\ spec.names[Index(list[k])] = list[k]
  <2> SUFFICES ASSUME NEW k \in DOMAIN list
               PROVE  Index(list[k]) \in Nodes /\ spec.names[Index(list[k])] = list[k]
    OBVIOUS
  <2>1. list[k] \in Mentioned
    BY DEF Mentioned, Range
  <2>2. list[k] \in Named
    BY <2>1 DEF GraphGiven, NamesFit
  <2> QED BY <2>2, IndexOfName
<1> HIDE DEF list
<1>3. SuccessorsOf(i) = [k \in 1..Len(list) |-> Index(list[k])]
  BY <1>1 DEF SuccessorsOf, list
<1>4. SuccessorsOf(i) \in Seq(Nodes) /\ Len(SuccessorsOf(i)) = Len(list)
  BY <1>1, <1>2, <1>3
<1> QED BY <1>1, <1>2, <1>3, <1>4 DEF list

\* An edge is a mention.
LEMMA EdgeIsMention ==
  ASSUME GraphGiven, NEW i \in Nodes, NEW j \in Nodes
  PROVE  Edge(i, j) <=> \E e \in MentionsOf(j) : e[1] = i
<1>1. /\ DOMAIN SuccessorsOf(i) = DOMAIN spec.successors[i]
      /\ \A k \in DOMAIN SuccessorsOf(i) :
           /\ SuccessorsOf(i)[k] \in Nodes
           /\ spec.names[SuccessorsOf(i)[k]] = spec.successors[i][k]
  <2>1. SuccessorsOf(i) \in Seq(Nodes)
    BY SuccessorNodes
  <2> HIDE DEF SuccessorsOf
  <2>2. \A k \in DOMAIN SuccessorsOf(i) : SuccessorsOf(i)[k] \in Nodes
    BY <2>1
  <2> QED BY <2>2, SuccessorNodes
<1>2. ASSUME Edge(i, j)
      PROVE  \E e \in MentionsOf(j) : e[1] = i
  <2>1. PICK k \in DOMAIN spec.successors[i] : spec.successors[i][k] = spec.names[j]
    BY <1>2 DEF Edge, Range
  <2>2. SuccessorsOf(i)[k] = j
    BY <1>1, <2>1, NamesDiffer DEF GraphGiven
  <2>3. <<i, k>> \in Mentions
    BY <2>1 DEF Mentions
  <2> QED BY <2>2, <2>3 DEF MentionsOf, Target
<1>3. ASSUME NEW e \in MentionsOf(j), e[1] = i
      PROVE  Edge(i, j)
  <2>1. e \in Mentions /\ SuccessorsOf(i)[e[2]] = j
    BY <1>3 DEF MentionsOf, Target
  <2>2. e[2] \in DOMAIN spec.successors[i]
    BY <2>1, <1>3 DEF Mentions
  <2> QED BY <1>1, <2>1, <2>2 DEF Edge, Range
<1> QED BY <1>2, <1>3

LEMMA MentionsFinite ==
  ASSUME GraphGiven
  PROVE  /\ IsFiniteSet(Nodes) /\ Cardinality(Nodes) = Len(spec.names)
         /\ IsFiniteSet(Mentions)
         /\ \A e \in Mentions : e[1] \in Nodes /\ Target(e) \in Nodes
         /\ \A j \in Nodes : IsFiniteSet(MentionsOf(j)) /\ Indegree(j) = Cardinality(MentionsOf(j))
<1>1. Nodes = 1..Len(spec.names) /\ Len(spec.names) \in Nat
  BY SpecParts DEF GraphGiven
<1>2. IsFiniteSet(Nodes) /\ Cardinality(Nodes) = Len(spec.names)
  BY <1>1, FS_Interval
<1>3. \A i \in Nodes : Len(spec.successors[i]) \in Nat
  BY SpecParts DEF GraphGiven
<1>4. \A i \in Nodes : i \in Nat
  BY <1>1
<1>5. PICK most \in Nat : \A i \in Nodes : Len(spec.successors[i]) <= most
  <2> DEFINE Bad == {n \in Nat : ~\E most \in Nat :
                       \A i \in Nodes : i <= n => Len(spec.successors[i]) <= most}
  <2>1. Bad = {}
    <3> SUFFICES ASSUME Bad # {} PROVE FALSE
      OBVIOUS
    <3>1. PICK n \in Bad : \A m \in Bad : n <= m
      <4>1. Bad \in SUBSET Nat
        OBVIOUS
      <4> HIDE DEF Bad
      <4> QED BY <4>1, LeastPosition
    <3>2. n \in Nat /\ n # 0
      BY <1>1
    <3>3. n - 1 \in Nat /\ n - 1 \notin Bad
      <4>1. n - 1 \in Nat /\ ~(n <= n - 1)
        BY <3>2
      <4> HIDE DEF Bad
      <4> QED BY <3>1, <4>1
    <3>4. PICK before \in Nat : \A i \in Nodes : i <= n - 1 => Len(spec.successors[i]) <= before
      BY <3>3
    <3> HIDE DEF Bad
    <3>0. \A k \in Nat : (\A i \in Nodes : i <= n => Len(spec.successors[i]) <= k) => n \notin Bad
      BY DEF Bad
    <3>6. CASE n \in Nodes
      <4> DEFINE len == Len(spec.successors[n])
                 most == IF len > before THEN len ELSE before
      <4>1. most \in Nat /\ most >= len /\ most >= before
        BY <3>4, <1>3, <1>4, <3>6
      <4>2. \A i \in Nodes : i <= n => Len(spec.successors[i]) <= most
        <5> SUFFICES ASSUME NEW i \in Nodes, i <= n
                     PROVE  Len(spec.successors[i]) <= most
          OBVIOUS
        <5>1. CASE i = n
          BY <4>1, <5>1
        <5>2. CASE i # n
          <6>1. i <= n - 1
            BY <3>2, <1>3, <1>4, <5>2
          <6>2. Len(spec.successors[i]) <= before /\ Len(spec.successors[i]) \in Nat
            BY <3>4, <1>3, <1>4, <6>1
          <6> HIDE DEF most
          <6> QED BY <3>4, <4>1, <6>2
        <5> QED BY <5>1, <5>2
      <4> HIDE DEF most
      <4> QED BY <3>0, <3>1, <4>1, <4>2
    <3>7. CASE n \notin Nodes
      <4>1. \A i \in Nodes : i <= n => Len(spec.successors[i]) <= before
        BY <3>2, <3>4, <1>3, <1>4, <3>7
      <4> QED BY <3>0, <3>1, <3>4, <4>1
    <3> QED BY <3>6, <3>7
  <2>2. Len(spec.names) \notin Bad
    BY <2>1
  <2>3. PICK most \in Nat : \A i \in Nodes : i <= Len(spec.names) => Len(spec.successors[i]) <= most
    BY <1>1, <2>2
  <2>4. \A i \in Nodes : i <= Len(spec.names)
    BY <1>1
  <2> QED BY <2>3, <2>4
<1>6. Mentions \subseteq Nodes \X (1..most)
  BY <1>5, SpecParts DEF GraphGiven, Mentions
<1>7. IsFiniteSet(Mentions)
  <2>1. IsFiniteSet(1..most)
    BY <1>5, FS_Interval
  <2>2. IsFiniteSet(Nodes \X (1..most))
    BY <1>2, <2>1, FS_Product
  <2> QED BY <1>6, <2>2, FS_Subset
<1>8. ASSUME NEW e \in Mentions
      PROVE  e[1] \in Nodes /\ Target(e) \in Nodes
  <2>1. e[1] \in Nodes /\ e[2] \in DOMAIN spec.successors[e[1]]
    BY DEF Mentions
  <2>2. SuccessorsOf(e[1]) \in Seq(Nodes) /\ e[2] \in DOMAIN SuccessorsOf(e[1])
    BY <2>1, SuccessorNodes
  <2> QED BY <2>1, <2>2 DEF Target
<1>9. ASSUME NEW j \in Nodes
      PROVE  IsFiniteSet(MentionsOf(j)) /\ Indegree(j) = Cardinality(MentionsOf(j))
  BY <1>7, FS_Subset DEF MentionsOf, Indegree, Mentions, Target
<1> QED BY <1>2, <1>7, <1>8, <1>9

LEMMA CountDownType ==
  ASSUME NEW s \in LoopState, NEW j \in Nodes
  PROVE  CountDown(s, j) \in LoopState
<1>1. s.indegree \in [Nodes -> Nat] /\ s.ready \in Seq(Nodes) /\ s.order \in Seq(Nodes)
  BY DEF LoopState
<1>2. CASE s.indegree[j] = 0
  BY <1>2 DEF CountDown
<1>3. CASE s.indegree[j] # 0
  <2> DEFINE less == [s.indegree EXCEPT ![j] = s.indegree[j] - 1]
             more == IF s.indegree[j] = 1 THEN Append(s.ready, j) ELSE s.ready
  <2>1. less \in [Nodes -> Nat]
    BY <1>1, <1>3
  <2>2. more \in Seq(Nodes)
    BY <1>1
  <2>3. CountDown(s, j) = [indegree |-> less, ready |-> more, order |-> s.order]
    BY <1>3 DEF CountDown, LoopState
  <2> HIDE DEF less, more
  <2> QED BY <1>1, <2>1, <2>2, <2>3 DEF LoopState
<1> QED BY <1>2, <1>3

\* The states of the loop over a list of successors
CountsDown(after, s, list) ==
  /\ after \in [0..Len(list) -> LoopState] /\ after[0] = s
  /\ \A k \in 1..Len(list) : after[k] = CountDown(after[k - 1], list[k])
  /\ FoldLeft(CountDown, s, list) = after[Len(list)]

LEMMA CountDownStates ==
  ASSUME NEW s \in LoopState, NEW list \in Seq(Nodes)
  PROVE  \E after : CountsDown(after, s, list)
<1> DEFINE L == Len(list)
           step == [p \in LoopState \X (1..L) |-> CountDown(p[1], list[p[2]])]
           body(F) == [t \in SUBSET (1..L) |->
                         IF t = {} THEN s ELSE CountDown(F[t \ {Max(t)}], list[Max(t)])]
           iter == CHOOSE F : F = body(F)
<1>1. L \in Nat /\ DOMAIN list = 1..L /\ \A k \in 1..L : list[k] \in Nodes
  OBVIOUS
<1>2. step \in [LoopState \X (1..L) -> LoopState]
  BY <1>1, CountDownType
<1>3. \A p \in LoopState, k \in 1..L : step[<<p, k>>] = CountDown(p, list[k])
  OBVIOUS
<1> HIDE DEF step
<1>4. PICK F : FoldsTo(F, LoopState, s, step, L)
  BY <1>1, <1>2, FoldsExist
<1>5. ASSUME NEW G, NEW t \in SUBSET (1..L), G \in [SUBSET (1..L) -> LoopState], t # {}
      PROVE  step[<<G[t \ {Max(t)}], Max(t)>>] = CountDown(G[t \ {Max(t)}], list[Max(t)])
  <2>1. Max(t) \in 1..L
    BY <1>1, <1>5, MaxOf
  <2>2. G[t \ {Max(t)}] \in LoopState
    BY <1>5
  <2> QED BY <1>3, <2>1, <2>2
<1>6. F = body(F)
  <2>1. F = [t \in SUBSET (1..L) |-> F[t]]
    BY <1>4 DEF FoldsTo
  <2>2. \A t \in SUBSET (1..L) : F[t] = IF t = {} THEN s ELSE CountDown(F[t \ {Max(t)}], list[Max(t)])
    BY <1>4, <1>5 DEF FoldsTo
  <2> QED BY <2>1, <2>2
<1>7. iter = body(iter)
  <2> HIDE DEF body
  <2> QED BY <1>6
<1>8. iter[{}] = s /\ \A t \in SUBSET (1..L) :
        t # {} /\ iter[t \ {Max(t)}] \in LoopState =>
          iter[t] = step[<<iter[t \ {Max(t)}], Max(t)>>]
  <2>1. \A t \in SUBSET (1..L) :
          iter[t] = IF t = {} THEN s ELSE CountDown(iter[t \ {Max(t)}], list[Max(t)])
    <3> HIDE DEF iter
    <3> QED BY <1>7
  <2>2. \A t \in SUBSET (1..L) : t # {} => Max(t) \in 1..L
    BY <1>1, MaxOf
  <2> HIDE DEF iter
  <2> QED BY <1>3, <2>1, <2>2
<1>9. FoldLeft(CountDown, s, list) = iter[1..L]
  BY <1>1 DEF FoldLeft, MapThenFoldSet
<1> HIDE DEF iter, body
<1>10. PICK after : after = [k \in 0..L |-> iter[1..k]] /\ StatesOf(after, LoopState, s, step, L)
  BY <1>1, <1>2, <1>8, FoldStates
<1>11. \A k \in 1..L : after[k] = CountDown(after[k - 1], list[k])
  BY <1>3, <1>10 DEF StatesOf
<1>12. FoldLeft(CountDown, s, list) = after[L]
  BY <1>1, <1>9, <1>10
<1>13. CountsDown(after, s, list)
  BY <1>10, <1>11, <1>12 DEF CountsDown, StatesOf
<1> QED BY <1>13

\* The state of the loop when the mentions in C were counted down: a node that has
\* none left got ready, once.
Counted(s, C) ==
  /\ s \in LoopState
  /\ \A j \in Nodes : s.indegree[j] = Cardinality(MentionsOf(j) \ C)
  /\ IsInjective(s.order) /\ IsInjective(s.ready)
  /\ Range(s.order) \cap Range(s.ready) = {}
  /\ \A j \in Nodes : j \in Range(s.order) \cup Range(s.ready) <=> MentionsOf(j) \subseteq C

LEMMA LoopParts ==
  ASSUME NEW s \in LoopState
  PROVE  /\ s.indegree \in [Nodes -> Nat] /\ s.ready \in Seq(Nodes) /\ s.order \in Seq(Nodes)
         /\ Len(s.ready) \in Nat /\ DOMAIN s.ready = 1..Len(s.ready)
         /\ Len(s.order) \in Nat /\ DOMAIN s.order = 1..Len(s.order)
<1>1. s.indegree \in [Nodes -> Nat] /\ s.ready \in Seq(Nodes) /\ s.order \in Seq(Nodes)
  BY DEF LoopState
<1> QED BY <1>1

LEMMA Appended ==
  ASSUME NEW q \in Seq(Nodes), NEW j \in Nodes
  PROVE  /\ Append(q, j) \in Seq(Nodes)
         /\ Range(Append(q, j)) = Range(q) \cup {j}
         /\ IsInjective(q) /\ j \notin Range(q) => IsInjective(Append(q, j))
<1> DEFINE more == Append(q, j)
<1>1. /\ more \in Seq(Nodes) /\ DOMAIN q = 1..Len(q) /\ Len(q) \in Nat
      /\ DOMAIN more = 1..(Len(q) + 1)
      /\ \A k \in 1..Len(q) : more[k] = q[k]
      /\ more[Len(q) + 1] = j
  OBVIOUS
<1> HIDE DEF more
<1>2. Range(more) = Range(q) \cup {j}
  <2>1. \A x \in Range(more) : x \in Range(q) \cup {j}
    <3> SUFFICES ASSUME NEW k \in DOMAIN more PROVE more[k] \in Range(q) \cup {j}
      BY DEF Range
    <3>1. k \in 1..Len(q) \/ k = Len(q) + 1
      BY <1>1
    <3> QED BY <1>1, <3>1 DEF Range
  <2>2. \A k \in DOMAIN q : q[k] \in Range(more)
    BY <1>1 DEF Range
  <2>3. j \in Range(more)
    BY <1>1 DEF Range
  <2> QED BY <2>1, <2>2, <2>3 DEF Range
<1>3. ASSUME IsInjective(q), j \notin Range(q)
      PROVE  IsInjective(more)
  <2> SUFFICES ASSUME NEW k \in DOMAIN more, NEW l \in DOMAIN more, more[k] = more[l]
               PROVE  k = l
    BY DEF IsInjective
  <2>1. \A m \in 1..Len(q) : q[m] # j
    BY <1>1, <1>3 DEF Range
  <2>2. (k \in 1..Len(q) \/ k = Len(q) + 1) /\ (l \in 1..Len(q) \/ l = Len(q) + 1)
    BY <1>1
  <2>3. CASE k \in 1..Len(q) /\ l \in 1..Len(q)
    <3>1. q[k] = q[l]
      BY <1>1, <2>3
    <3> QED BY <1>1, <1>3, <2>3, <3>1 DEF IsInjective
  <2> QED BY <1>1, <2>1, <2>2, <2>3
<1> QED BY <1>1, <1>2, <1>3 DEF more

LEMMA CountDownCounted ==
  ASSUME GraphGiven, NEW s, NEW C, Counted(s, C), NEW e \in Mentions \ C
  PROVE  /\ Counted(CountDown(s, Target(e)), C \cup {e})
         /\ CountDown(s, Target(e)).order = s.order
<1> DEFINE j == Target(e)
           t == CountDown(s, j)
           D == C \cup {e}
<1>1. j \in Nodes /\ e \in MentionsOf(j) \ C
  BY MentionsFinite DEF MentionsOf
<1>2. s \in LoopState /\ t \in LoopState
  BY <1>1, CountDownType DEF Counted
<1>3. \A i \in Nodes : /\ IsFiniteSet(MentionsOf(i) \ C)
                       /\ Cardinality(MentionsOf(i) \ C) \in Nat
  BY MentionsFinite, FS_Difference, FS_CardinalityType
<1>4. \A i \in Nodes : i # j => e \notin MentionsOf(i)
  BY DEF MentionsOf
<1>5. \A i \in Nodes : i # j => MentionsOf(i) \ D = MentionsOf(i) \ C
  BY <1>4
<1>6. MentionsOf(j) \ D = (MentionsOf(j) \ C) \ {e}
  OBVIOUS
<1>7. Cardinality(MentionsOf(j) \ D) = Cardinality(MentionsOf(j) \ C) - 1
  BY <1>1, <1>3, <1>6, FS_RemoveElement
<1>8. s.indegree[j] = Cardinality(MentionsOf(j) \ C) /\ s.indegree[j] \in Nat /\ s.indegree[j] # 0
  <2>1. Cardinality(MentionsOf(j) \ C) # 0
    BY <1>1, <1>3, FS_EmptySet
  <2> QED BY <1>1, <1>3, <2>1 DEF Counted
<1> HIDE DEF j, D
<1>9. /\ t.order = s.order
      /\ t.indegree = [s.indegree EXCEPT ![j] = s.indegree[j] - 1]
      /\ t.ready = IF s.indegree[j] = 1 THEN Append(s.ready, j) ELSE s.ready
  BY <1>2, <1>8 DEF CountDown, LoopState
<1> HIDE DEF t
<1>10. \A i \in Nodes : t.indegree[i] = Cardinality(MentionsOf(i) \ D)
  <2> SUFFICES ASSUME NEW i \in Nodes PROVE t.indegree[i] = Cardinality(MentionsOf(i) \ D)
    OBVIOUS
  <2>1. s.indegree \in [Nodes -> Nat]
    BY <1>2, LoopParts
  <2>2. CASE i = j
    BY <1>7, <1>8, <1>9, <2>1, <2>2
  <2>3. CASE i # j
    <3>1. t.indegree[i] = s.indegree[i]
      BY <1>9, <2>1, <2>3
    <3> QED BY <1>5, <2>3, <3>1 DEF Counted
  <2> QED BY <2>2, <2>3
<1>11. j \notin Range(s.order) \cup Range(s.ready)
  BY <1>1 DEF Counted
<1>12. s.indegree[j] = 1 <=> MentionsOf(j) \subseteq D
  <2>1. IsFiniteSet(MentionsOf(j) \ D)
    BY <1>1, <1>3, <1>6, FS_RemoveElement
  <2>2. s.indegree[j] = 1 <=> Cardinality(MentionsOf(j) \ D) = 0
    BY <1>7, <1>8
  <2>3. Cardinality(MentionsOf(j) \ D) = 0 <=> MentionsOf(j) \ D = {}
    BY <2>1, FS_EmptySet
  <2> QED BY <2>2, <2>3
<1>13. \A i \in Nodes : i # j => (MentionsOf(i) \subseteq D <=> MentionsOf(i) \subseteq C)
  BY <1>4 DEF D
<1>14. CASE s.indegree[j] = 1
  <2>1. s.ready \in Seq(Nodes) /\ t.ready = Append(s.ready, j)
    BY <1>2, <1>9, <1>14, LoopParts
  <2>2. Range(t.ready) = Range(s.ready) \cup {j} /\ IsInjective(t.ready)
    BY <1>1, <1>11, <2>1, Appended DEF Counted
  <2> QED BY <1>1, <1>2, <1>9, <1>10, <1>11, <1>12, <1>13, <1>14, <2>2 DEF Counted, D, j, t
<1>15. CASE s.indegree[j] # 1
  <2>1. t.ready = s.ready
    BY <1>9, <1>15
  <2>2. ~(MentionsOf(j) \subseteq D) /\ ~(MentionsOf(j) \subseteq C)
    BY <1>1, <1>12, <1>15
  <2> QED BY <1>1, <1>2, <1>9, <1>10, <1>13, <2>1, <2>2 DEF Counted, D, j, t
<1> QED BY <1>14, <1>15

\* The mentions in the lists of the nodes in the order
CountedBy(order) == {e \in Mentions : e[1] \in Range(order)}

\* Every edge to a node in the order comes from one before it.
LeadsOnward(order) ==
  \A q \in DOMAIN order : \A i \in Nodes :
    Edge(i, order[q]) => \E p \in 1..(q - 1) : order[p] = i

\* What the loop keeps
Round(s) == Counted(s, CountedBy(s.order)) /\ LeadsOnward(s.order)

\* s, when the first ready node was taken and before its successors are counted down
Taken(s) == [s EXCEPT !.ready = Tail(@), !.order = Append(@, Head(s.ready))]

LEMMA TakenParts ==
  ASSUME NEW s \in LoopState, s.ready # <<>>
  PROVE  /\ Head(s.ready) \in Nodes /\ Taken(s) \in LoopState
         /\ Taken(s).indegree = s.indegree
         /\ Taken(s).ready = Tail(s.ready)
         /\ Taken(s).order = Append(s.order, Head(s.ready))
         /\ Head(s.ready) = s.ready[1]
         /\ Range(s.ready) = Range(Tail(s.ready)) \cup {Head(s.ready)}
         /\ IsInjective(s.ready) => /\ IsInjective(Tail(s.ready))
                                    /\ Head(s.ready) \notin Range(Tail(s.ready))
<1> DEFINE q == s.ready
           rest == Tail(s.ready)
           h == Head(s.ready)
<1>1. s.indegree \in [Nodes -> Nat] /\ q \in Seq(Nodes) /\ s.order \in Seq(Nodes)
  BY LoopParts
<1>2. h \in Nodes /\ rest \in Seq(Nodes) /\ Len(rest) = Len(q) - 1 /\ h = q[1]
      /\ \A k \in 1..Len(rest) : rest[k] = q[k + 1]
  BY <1>1, HeadTailProperties
<1>3. Append(s.order, h) \in Seq(Nodes)
  BY <1>1, <1>2
<1>4. /\ Taken(s) \in LoopState /\ Taken(s).indegree = s.indegree
      /\ Taken(s).ready = rest /\ Taken(s).order = Append(s.order, h)
  <2>1. PICK a, b : a = rest /\ b = Append(s.order, h)
    OBVIOUS
  <2>2. Taken(s) = [s EXCEPT !.ready = a, !.order = b]
    BY <2>1 DEF Taken
  <2> HIDE DEF rest, h, q
  <2>3. a \in Seq(Nodes) /\ b \in Seq(Nodes)
    BY <1>2, <1>3, <2>1
  <2>4. PICK r : r = Taken(s)
    OBVIOUS
  <2>5. r \in LoopState /\ r.indegree = s.indegree /\ r.ready = a /\ r.order = b
    BY <2>2, <2>3, <2>4 DEF LoopState
  <2> QED BY <2>1, <2>4, <2>5
<1> HIDE DEF rest, h
<1>5. /\ DOMAIN q = 1..Len(q) /\ Len(q) \in Nat \ {0} /\ DOMAIN rest = 1..(Len(q) - 1)
      /\ \A k \in 1..(Len(q) - 1) : rest[k] = q[k + 1]
  BY <1>1, <1>2
<1> HIDE DEF q
<1>6. Range(q) = Range(rest) \cup {h}
  <2>1. \A x \in Range(q) : x \in Range(rest) \cup {h}
    <3> SUFFICES ASSUME NEW k \in 1..Len(q) PROVE q[k] \in Range(rest) \cup {h}
      BY <1>5 DEF Range
    <3>1. CASE k = 1
      BY <1>2, <3>1
    <3>2. CASE k # 1
      <4>1. k - 1 \in 1..(Len(q) - 1) /\ (k - 1) + 1 = k
        BY <1>5, <3>2
      <4>2. rest[k - 1] = q[k]
        BY <1>5, <4>1
      <4> QED BY <1>5, <4>1, <4>2 DEF Range
    <3> QED BY <3>1, <3>2
  <2>2. \A x \in Range(rest) : x \in Range(q)
    <3> SUFFICES ASSUME NEW k \in 1..(Len(q) - 1) PROVE rest[k] \in Range(q)
      BY <1>5 DEF Range
    <3>1. k + 1 \in DOMAIN q
      BY <1>5
    <3> QED BY <1>5, <3>1 DEF Range
  <2>3. h \in Range(q)
    BY <1>2, <1>5 DEF Range
  <2> QED BY <2>1, <2>2, <2>3
<1>7. ASSUME IsInjective(q)
      PROVE  IsInjective(rest) /\ h \notin Range(rest)
  <2>1. \A k, l \in 1..Len(q) : q[k] = q[l] => k = l
    BY <1>5, <1>7 DEF IsInjective
  <2>2. \A k \in 1..(Len(q) - 1) : k + 1 \in 1..Len(q) /\ k + 1 # 1 /\ 1 \in 1..Len(q)
    BY <1>5
  <2>3. \A k, l \in 1..(Len(q) - 1) : rest[k] = rest[l] => k = l
    <3> SUFFICES ASSUME NEW k \in 1..(Len(q) - 1), NEW l \in 1..(Len(q) - 1), rest[k] = rest[l]
                 PROVE  k = l
      OBVIOUS
    <3>1. k + 1 = l + 1
      BY <1>5, <2>1, <2>2
    <3> QED BY <3>1
  <2>4. \A k \in 1..(Len(q) - 1) : rest[k] # h
    BY <1>2, <1>5, <2>1, <2>2 DEF q
  <2> QED BY <1>5, <2>3, <2>4 DEF IsInjective, Range
<1> QED BY <1>2, <1>4, <1>6, <1>7 DEF q, rest, h

LEMMA TakenCounted ==
  ASSUME NEW s, NEW C, Counted(s, C), s.ready # <<>>
  PROVE  Counted(Taken(s), C)
<1> DEFINE h == Head(s.ready)
<1>1. s \in LoopState /\ s.order \in Seq(Nodes)
  BY LoopParts DEF Counted
<1>2. /\ h \in Nodes /\ Taken(s) \in LoopState
      /\ Taken(s).indegree = s.indegree /\ Taken(s).ready = Tail(s.ready)
      /\ Taken(s).order = Append(s.order, h)
      /\ Range(s.ready) = Range(Tail(s.ready)) \cup {h}
      /\ IsInjective(Tail(s.ready)) /\ h \notin Range(Tail(s.ready))
  BY <1>1, TakenParts DEF Counted
<1>3. h \notin Range(s.order)
  BY <1>2 DEF Counted
<1> HIDE DEF h
<1>4. Range(Append(s.order, h)) = Range(s.order) \cup {h} /\ IsInjective(Append(s.order, h))
  BY <1>1, <1>2, <1>3, Appended DEF Counted
<1>5. \A j \in Nodes : Taken(s).indegree[j] = Cardinality(MentionsOf(j) \ C)
  BY <1>2 DEF Counted
<1>6. Range(Taken(s).order) \cap Range(Taken(s).ready) = {}
  BY <1>2, <1>3, <1>4 DEF Counted
<1>7. Range(Taken(s).order) \cup Range(Taken(s).ready) = Range(s.order) \cup Range(s.ready)
  BY <1>2, <1>4
<1> QED BY <1>2, <1>4, <1>5, <1>6, <1>7 DEF Counted

LEMMA TakeFirstRound ==
  ASSUME GraphGiven, NEW s, Round(s), s.ready # <<>>
  PROVE  /\ Round(TakeFirst(s))
         /\ Len(TakeFirst(s).order) = Len(s.order) + 1
<1> DEFINE h == Head(s.ready)
           list == SuccessorsOf(h)
           C == CountedBy(s.order)
           order == Append(s.order, h)
<1>1. s \in LoopState /\ Counted(s, C) /\ LeadsOnward(s.order)
  BY DEF Round, Counted
<1>2. /\ h \in Nodes /\ Taken(s) \in LoopState /\ Taken(s).order = order
      /\ Range(s.ready) = Range(Tail(s.ready)) \cup {h}
  BY <1>1, TakenParts
<1>3. h \notin Range(s.order) /\ MentionsOf(h) \subseteq C
  <2> HIDE DEF C, h
  <2> QED BY <1>1, <1>2 DEF Counted
<1>4. Counted(Taken(s), C)
  BY <1>1, TakenCounted
<1>5. list \in Seq(Nodes) /\ DOMAIN list = DOMAIN spec.successors[h] /\ Len(list) \in Nat
      /\ DOMAIN list = 1..Len(list)
  <2>1. list \in Seq(Nodes) /\ DOMAIN list = DOMAIN spec.successors[h]
    BY <1>2, SuccessorNodes
  <2> HIDE DEF list
  <2> QED BY <2>1
<1>6. PICK after : CountsDown(after, Taken(s), list)
  BY <1>2, <1>5, CountDownStates
<1> DEFINE Upto(k) == C \cup ({h} \X (1..k))
           Bad == {k \in 0..Len(list) : ~(Counted(after[k], Upto(k)) /\ after[k].order = order)}
<1>7. Bad = {}
  <2> SUFFICES ASSUME Bad # {} PROVE FALSE
    OBVIOUS
  <2>1. PICK k \in Bad : \A m \in Bad : k <= m
    <3>1. Bad \in SUBSET Nat
      BY <1>5
    <3> HIDE DEF Bad
    <3> QED BY <3>1, LeastPosition
  <2>2. k \in 0..Len(list) /\ ~(Counted(after[k], Upto(k)) /\ after[k].order = order)
    OBVIOUS
  <2>3. k # 0
    <3> SUFFICES ASSUME k = 0 PROVE FALSE
      OBVIOUS
    <3>1. Upto(0) = C
      OBVIOUS
    <3>2. after[0] = Taken(s)
      BY <1>6 DEF CountsDown
    <3> HIDE DEF Upto, Bad, order
    <3> QED BY <1>2, <1>4, <2>2, <3>1, <3>2
  <2>4. k \in 1..Len(list) /\ k - 1 \in 0..Len(list) /\ ~(k <= k - 1)
    BY <1>5, <2>2, <2>3
  <2>5. k - 1 \notin Bad
    <3> HIDE DEF Bad
    <3> QED BY <2>1, <2>4
  <2>6. Counted(after[k - 1], Upto(k - 1)) /\ after[k - 1].order = order
    BY <2>4, <2>5
  <2> DEFINE e == <<h, k>>
  <2>7. e \in Mentions /\ Target(e) = list[k]
    BY <1>2, <1>5, <2>4 DEF Mentions, Target
  <2>8. e \notin Upto(k - 1)
    <3>1. e \notin C
      BY <1>3 DEF CountedBy
    <3> HIDE DEF C
    <3> QED BY <2>4, <3>1
  <2>9. Upto(k) = Upto(k - 1) \cup {e}
    <3>1. 1..k = (1..(k - 1)) \cup {k}
      BY <1>5, <2>4
    <3> HIDE DEF C
    <3> QED BY <3>1
  <2>10. after[k] = CountDown(after[k - 1], Target(e))
    BY <1>6, <2>4, <2>7 DEF CountsDown
  <2> HIDE DEF Upto, Bad, e, order, list, h, C
  <2>11. Counted(after[k], Upto(k)) /\ after[k].order = order
    BY <2>6, <2>7, <2>8, <2>9, <2>10, CountDownCounted
  <2> QED BY <2>2, <2>11
<1>8. Counted(after[Len(list)], Upto(Len(list))) /\ after[Len(list)].order = order
  <2>1. Len(list) \in 0..Len(list)
    BY <1>5
  <2> HIDE DEF Upto, order, list
  <2> QED BY <1>7, <2>1
<1>9. TakeFirst(s) = after[Len(list)]
  BY <1>6 DEF TakeFirst, CountsDown, Taken
<1>10. s.order \in Seq(Nodes) /\ Range(order) = Range(s.order) \cup {h}
  BY <1>1, <1>2, LoopParts, Appended
<1>11. Upto(Len(list)) = CountedBy(order)
  <2>1. \A e \in CountedBy(order) : e \in Upto(Len(list))
    <3> SUFFICES ASSUME NEW e \in Mentions, e[1] \in Range(order)
                 PROVE  e \in Upto(Len(list))
      BY DEF CountedBy
    <3>1. e = <<e[1], e[2]>> /\ e[2] \in DOMAIN spec.successors[e[1]]
      BY DEF Mentions
    <3>2. CASE e[1] \in Range(s.order)
      BY <3>2 DEF CountedBy
    <3>3. CASE e[1] = h
      <4>1. e[2] \in 1..Len(list)
        BY <1>5, <3>1, <3>3
      <4>2. <<h, e[2]>> \in {h} \X (1..Len(list))
        BY <4>1
      <4>3. e = <<h, e[2]>>
        BY <3>1, <3>3
      <4> QED BY <4>2, <4>3
    <3> QED BY <1>10, <3>2, <3>3
  <2>2. \A e \in C : e \in CountedBy(order)
    BY <1>10 DEF CountedBy
  <2>3. \A e \in {h} \X (1..Len(list)) : e \in CountedBy(order)
    BY <1>2, <1>5, <1>10 DEF CountedBy, Mentions
  <2> HIDE DEF C, order, h, list
  <2> QED BY <2>1, <2>2, <2>3
<1>12. /\ Len(s.order) \in Nat /\ Len(order) = Len(s.order) + 1
       /\ DOMAIN s.order = 1..Len(s.order) /\ DOMAIN order = 1..(Len(s.order) + 1)
       /\ \A p \in 1..Len(s.order) : order[p] = s.order[p]
       /\ order[Len(s.order) + 1] = h
  <2> HIDE DEF h
  <2> QED BY <1>2, <1>10
<1>13. LeadsOnward(order)
  <2> HIDE DEF order, h
  <2> SUFFICES ASSUME NEW q \in 1..(Len(s.order) + 1), NEW i \in Nodes, Edge(i, order[q])
               PROVE  \E p \in 1..(q - 1) : order[p] = i
    BY <1>12 DEF LeadsOnward
  <2>1. CASE q \in 1..Len(s.order)
    <3>1. Edge(i, s.order[q])
      BY <1>12, <2>1
    <3>2. PICK p \in 1..(q - 1) : s.order[p] = i
      BY <1>1, <1>12, <2>1, <3>1 DEF LeadsOnward
    <3>3. p \in 1..Len(s.order)
      BY <1>12, <2>1
    <3> QED BY <1>12, <3>2, <3>3
  <2>2. CASE q = Len(s.order) + 1
    <3>1. Edge(i, h)
      BY <1>12, <2>2
    <3>2. PICK e \in MentionsOf(h) : e[1] = i
      BY <1>2, <3>1, EdgeIsMention
    <3>3. i \in Range(s.order)
      BY <1>3, <3>2 DEF CountedBy
    <3>4. PICK p \in 1..Len(s.order) : s.order[p] = i
      BY <1>12, <3>3 DEF Range
    <3> QED BY <1>12, <2>2, <3>4
  <2> QED BY <1>12, <2>1, <2>2
<1> HIDE DEF Upto, order, list, h, C
<1> QED BY <1>8, <1>9, <1>11, <1>12, <1>13 DEF Round

\* The states of the loop over all nodes
Pushes(after, s, list) ==
  /\ after \in [0..Len(list) -> LoopState] /\ after[0] = s
  /\ \A k \in 1..Len(list) : after[k] = PushReady(after[k - 1], list[k])
  /\ FoldLeft(PushReady, s, list) = after[Len(list)]

LEMMA Pushed ==
  ASSUME NEW s \in LoopState, NEW j \in Nodes
  PROVE  /\ PushReady(s, j) \in LoopState
         /\ PushReady(s, j).indegree = s.indegree /\ PushReady(s, j).order = s.order
         /\ PushReady(s, j).ready =
              IF s.indegree[j] = 0 THEN Append(s.ready, j) ELSE s.ready
<1>1. s.indegree \in [Nodes -> Nat] /\ s.ready \in Seq(Nodes) /\ s.order \in Seq(Nodes)
  BY LoopParts
<1>2. CASE s.indegree[j] = 0
  <2> DEFINE more == Append(s.ready, j)
  <2>1. more \in Seq(Nodes)
    BY <1>1
  <2>2. PushReady(s, j) = [s EXCEPT !.ready = more]
    BY <1>2 DEF PushReady
  <2>3. \A a : [s EXCEPT !.ready = a] = [indegree |-> s.indegree, ready |-> a, order |-> s.order]
    BY DEF LoopState
  <2>4. PushReady(s, j) = [indegree |-> s.indegree, ready |-> more, order |-> s.order]
    <3> HIDE DEF more
    <3> QED BY <2>2, <2>3
  <2> HIDE DEF more
  <2>5. PushReady(s, j) \in LoopState
    BY <1>1, <2>1, <2>4 DEF LoopState
  <2> QED BY <1>2, <2>4, <2>5 DEF more
<1>3. CASE s.indegree[j] # 0
  BY <1>3 DEF PushReady
<1> QED BY <1>2, <1>3

LEMMA PushStates ==
  ASSUME NEW s \in LoopState, NEW list \in Seq(Nodes)
  PROVE  \E after : Pushes(after, s, list)
<1> DEFINE L == Len(list)
           step == [p \in LoopState \X (1..L) |-> PushReady(p[1], list[p[2]])]
           body(F) == [t \in SUBSET (1..L) |->
                         IF t = {} THEN s ELSE PushReady(F[t \ {Max(t)}], list[Max(t)])]
           iter == CHOOSE F : F = body(F)
<1>1. L \in Nat /\ DOMAIN list = 1..L /\ \A k \in 1..L : list[k] \in Nodes
  OBVIOUS
<1>2. step \in [LoopState \X (1..L) -> LoopState]
  BY <1>1, Pushed
<1>3. \A p \in LoopState, k \in 1..L : step[<<p, k>>] = PushReady(p, list[k])
  OBVIOUS
<1> HIDE DEF step
<1>4. PICK F : FoldsTo(F, LoopState, s, step, L)
  BY <1>1, <1>2, FoldsExist
<1>5. ASSUME NEW G, NEW t \in SUBSET (1..L), G \in [SUBSET (1..L) -> LoopState], t # {}
      PROVE  step[<<G[t \ {Max(t)}], Max(t)>>] = PushReady(G[t \ {Max(t)}], list[Max(t)])
  <2>1. Max(t) \in 1..L
    BY <1>1, <1>5, MaxOf
  <2>2. G[t \ {Max(t)}] \in LoopState
    BY <1>5
  <2> QED BY <1>3, <2>1, <2>2
<1>6. F = body(F)
  <2>1. F = [t \in SUBSET (1..L) |-> F[t]]
    BY <1>4 DEF FoldsTo
  <2>2. \A t \in SUBSET (1..L) : F[t] = IF t = {} THEN s ELSE PushReady(F[t \ {Max(t)}], list[Max(t)])
    BY <1>4, <1>5 DEF FoldsTo
  <2> QED BY <2>1, <2>2
<1>7. iter = body(iter)
  <2> HIDE DEF body
  <2> QED BY <1>6
<1>8. iter[{}] = s /\ \A t \in SUBSET (1..L) :
        t # {} /\ iter[t \ {Max(t)}] \in LoopState =>
          iter[t] = step[<<iter[t \ {Max(t)}], Max(t)>>]
  <2>1. \A t \in SUBSET (1..L) :
          iter[t] = IF t = {} THEN s ELSE PushReady(iter[t \ {Max(t)}], list[Max(t)])
    <3> HIDE DEF iter
    <3> QED BY <1>7
  <2>2. \A t \in SUBSET (1..L) : t # {} => Max(t) \in 1..L
    BY <1>1, MaxOf
  <2> HIDE DEF iter
  <2> QED BY <1>3, <2>1, <2>2
<1>9. FoldLeft(PushReady, s, list) = iter[1..L]
  BY <1>1 DEF FoldLeft, MapThenFoldSet
<1> HIDE DEF iter, body
<1>10. PICK after : after = [k \in 0..L |-> iter[1..k]] /\ StatesOf(after, LoopState, s, step, L)
  BY <1>1, <1>2, <1>8, FoldStates
<1>11. \A k \in 1..L : after[k] = PushReady(after[k - 1], list[k])
  BY <1>3, <1>10 DEF StatesOf
<1>12. FoldLeft(PushReady, s, list) = after[L]
  BY <1>1, <1>9, <1>10
<1>13. Pushes(after, s, list)
  BY <1>10, <1>11, <1>12 DEF Pushes, StatesOf
<1> QED BY <1>13

LEMMA FirstReadyRound ==
  ASSUME GraphGiven
  PROVE  Round(FirstReady) /\ FirstReady.order = <<>>
<1> DEFINE list == [i \in Nodes |-> i]
           degrees == [j \in Nodes |-> Indegree(j)]
           base == [indegree |-> degrees, ready |-> <<>>, order |-> <<>>]
           N == Len(spec.names)
<1>1. N \in Nat /\ Nodes = 1..N
  BY SpecParts DEF GraphGiven
<1>2. list \in Seq(Nodes) /\ Len(list) = N /\ \A k \in 1..N : list[k] = k
  BY <1>1
<1>3. \A j \in Nodes : Indegree(j) \in Nat /\ Indegree(j) = Cardinality(MentionsOf(j))
  BY MentionsFinite, FS_CardinalityType
<1>4. degrees \in [Nodes -> Nat]
  BY <1>3
<1>5. base \in LoopState /\ base.indegree = degrees /\ base.ready = <<>> /\ base.order = <<>>
  <2> HIDE DEF degrees
  <2>1. <<>> \in Seq(Nodes)
    BY EmptySeq
  <2> QED BY <1>4, <2>1 DEF LoopState
<1>6. FirstReady = FoldLeft(PushReady, base, list)
  BY DEF FirstReady
<1> HIDE DEF base, list
<1>7. PICK after : Pushes(after, base, list)
  BY <1>2, <1>5, PushStates
<1> DEFINE Right(k) == /\ after[k].indegree = degrees /\ after[k].order = <<>>
                       /\ IsInjective(after[k].ready)
                       /\ Range(after[k].ready) = {j \in 1..k : Indegree(j) = 0}
           Bad == {k \in 0..N : ~Right(k)}
<1>8. Bad = {}
  <2> SUFFICES ASSUME Bad # {} PROVE FALSE
    OBVIOUS
  <2>1. PICK k \in Bad : \A m \in Bad : k <= m
    <3>1. Bad \in SUBSET Nat
      BY <1>1
    <3> HIDE DEF Bad
    <3> QED BY <3>1, LeastPosition
  <2>2. k \in 0..N /\ ~Right(k)
    OBVIOUS
  <2>3. k # 0
    <3> SUFFICES ASSUME k = 0 PROVE FALSE
      OBVIOUS
    <3>1. after[0] = base
      BY <1>7 DEF Pushes
    <3>2. IsInjective(<<>>) /\ Range(<<>>) = {}
      BY DEF IsInjective, Range
    <3>3. {j \in 1..0 : Indegree(j) = 0} = {}
      OBVIOUS
    <3>4. Right(0)
      <4> HIDE DEF degrees
      <4> QED BY <1>5, <3>1, <3>2, <3>3
    <3> HIDE DEF Right
    <3> QED BY <2>2, <3>4
  <2>4. k \in 1..N /\ k - 1 \in 0..N /\ ~(k <= k - 1)
    BY <1>1, <2>2, <2>3
  <2>5. Right(k - 1)
    <3>1. k - 1 \notin Bad
      <4> HIDE DEF Bad
      <4> QED BY <2>1, <2>4
    <3> HIDE DEF Right
    <3> QED BY <2>4, <3>1
  <2> DEFINE s == after[k - 1]
  <2>6. s \in LoopState /\ after[k] = PushReady(s, k) /\ k \in Nodes
    BY <1>1, <1>2, <1>7, <2>4 DEF Pushes
  <2>7. /\ after[k].indegree = s.indegree /\ after[k].order = s.order
        /\ after[k].ready = IF s.indegree[k] = 0 THEN Append(s.ready, k) ELSE s.ready
    <3> HIDE DEF s
    <3> QED BY <2>6, Pushed
  <2>8. s.indegree[k] = Indegree(k)
    BY <2>5, <2>6
  <2>9. 1..k = (1..(k - 1)) \cup {k} /\ k \notin 1..(k - 1)
    BY <2>4
  <2>10. CASE Indegree(k) = 0
    <3>1. s.ready \in Seq(Nodes) /\ k \notin Range(s.ready)
      BY <2>5, <2>6, <2>9, LoopParts
    <3>2. /\ Range(Append(s.ready, k)) = Range(s.ready) \cup {k}
          /\ IsInjective(Append(s.ready, k))
      BY <2>5, <2>6, <3>1, Appended
    <3>3. {j \in 1..k : Indegree(j) = 0} = {j \in 1..(k - 1) : Indegree(j) = 0} \cup {k}
      BY <2>9, <2>10
    <3>4. Right(k)
      <4> HIDE DEF degrees
      <4> QED BY <2>5, <2>7, <2>8, <2>10, <3>2, <3>3
    <3> HIDE DEF Right
    <3> QED BY <2>2, <3>4
  <2>11. CASE Indegree(k) # 0
    <3>1. {j \in 1..k : Indegree(j) = 0} = {j \in 1..(k - 1) : Indegree(j) = 0}
      BY <2>9, <2>11
    <3>2. Right(k)
      <4> HIDE DEF degrees
      <4> QED BY <2>5, <2>7, <2>8, <2>11, <3>1
    <3> HIDE DEF Right
    <3> QED BY <2>2, <3>2
  <2> QED BY <2>10, <2>11
<1>9. Right(N) /\ FirstReady = after[N] /\ FirstReady \in LoopState
  <2>1. N \in 0..N
    BY <1>1
  <2>2. Right(N)
    <3> HIDE DEF Right
    <3> QED BY <1>8, <2>1
  <2>3. FirstReady = after[N] /\ after[N] \in LoopState
    BY <1>2, <1>6, <1>7, <2>1 DEF Pushes
  <2> HIDE DEF Right
  <2> QED BY <2>2, <2>3
<1>10. \A j \in Nodes : Indegree(j) = 0 <=> MentionsOf(j) = {}
  BY <1>3, MentionsFinite, FS_EmptySet
<1> DEFINE s == FirstReady
<1>11. /\ s.indegree = degrees /\ s.order = <<>> /\ IsInjective(s.ready)
       /\ Range(s.ready) = {j \in Nodes : Indegree(j) = 0}
  BY <1>1, <1>9
<1> HIDE DEF s
<1>12. Range(<<>>) = {} /\ IsInjective(<<>>) /\ DOMAIN <<>> = {}
  BY DEF Range, IsInjective
<1>13. CountedBy(s.order) = {}
  BY <1>11, <1>12 DEF CountedBy
<1>14. \A j \in Nodes : s.indegree[j] = Cardinality(MentionsOf(j) \ {})
  <2>1. \A j \in Nodes : MentionsOf(j) \ {} = MentionsOf(j)
    OBVIOUS
  <2> QED BY <1>3, <1>11, <2>1
<1>15. \A j \in Nodes : j \in Range(s.order) \cup Range(s.ready) <=> MentionsOf(j) \subseteq {}
  BY <1>10, <1>11, <1>12
<1>16. Counted(s, {})
  <2>1. s \in LoopState
    BY <1>9 DEF s
  <2>2. Range(s.order) \cap Range(s.ready) = {} /\ IsInjective(s.order)
    BY <1>11, <1>12
  <2> QED BY <1>11, <1>14, <1>15, <2>1, <2>2 DEF Counted
<1>17. LeadsOnward(s.order)
  BY <1>11, <1>12 DEF LeadsOnward
<1> QED BY <1>11, <1>13, <1>16, <1>17 DEF Round, s

Rounds == {s \in LoopState : Round(s)}

LEMMA IteratedRound ==
  ASSUME GraphGiven, NEW s \in Rounds, NEW n
  PROVE  /\ Iterated(s, n) \in Rounds
         /\ IF s.ready = <<>> THEN Iterated(s, n) = s
            ELSE Len(Iterated(s, n).order) = Len(s.order) + 1
<1>1. CASE s.ready = <<>>
  BY <1>1 DEF Iterated
<1>2. CASE s.ready # <<>>
  <2>1. Round(TakeFirst(s)) /\ Len(TakeFirst(s).order) = Len(s.order) + 1
    BY <1>2, TakeFirstRound DEF Rounds
  <2>2. TakeFirst(s) \in LoopState
    BY <2>1 DEF Round, Counted
  <2> QED BY <1>2, <2>1, <2>2 DEF Iterated, Rounds
<1> QED BY <1>1, <1>2

\* The states of the loop over the ready nodes, up to the end of the fold
Iterates(after, s, list) ==
  /\ after \in [0..Len(list) -> Rounds] /\ after[0] = s
  /\ \A k \in 1..Len(list) : after[k] = Iterated(after[k - 1], list[k])
  /\ FoldLeft(Iterated, s, list) = after[Len(list)]

LEMMA IterateStates ==
  ASSUME GraphGiven, NEW s \in Rounds, NEW list \in Seq(Nat)
  PROVE  \E after : Iterates(after, s, list)
<1> DEFINE L == Len(list)
           step == [p \in Rounds \X (1..L) |-> Iterated(p[1], list[p[2]])]
           body(F) == [t \in SUBSET (1..L) |->
                         IF t = {} THEN s ELSE Iterated(F[t \ {Max(t)}], list[Max(t)])]
           iter == CHOOSE F : F = body(F)
<1>1. L \in Nat /\ DOMAIN list = 1..L
  OBVIOUS
<1>2. step \in [Rounds \X (1..L) -> Rounds]
  BY <1>1, IteratedRound
<1>3. \A p \in Rounds, k \in 1..L : step[<<p, k>>] = Iterated(p, list[k])
  OBVIOUS
<1> HIDE DEF step
<1>4. PICK F : FoldsTo(F, Rounds, s, step, L)
  BY <1>1, <1>2, FoldsExist
<1>5. ASSUME NEW G, NEW t \in SUBSET (1..L), G \in [SUBSET (1..L) -> Rounds], t # {}
      PROVE  step[<<G[t \ {Max(t)}], Max(t)>>] = Iterated(G[t \ {Max(t)}], list[Max(t)])
  <2>1. Max(t) \in 1..L
    BY <1>1, <1>5, MaxOf
  <2>2. G[t \ {Max(t)}] \in Rounds
    BY <1>5
  <2> QED BY <1>3, <2>1, <2>2
<1>6. F = body(F)
  <2>1. F = [t \in SUBSET (1..L) |-> F[t]]
    BY <1>4 DEF FoldsTo
  <2>2. \A t \in SUBSET (1..L) : F[t] = IF t = {} THEN s ELSE Iterated(F[t \ {Max(t)}], list[Max(t)])
    BY <1>4, <1>5 DEF FoldsTo
  <2> QED BY <2>1, <2>2
<1>7. iter = body(iter)
  <2> HIDE DEF body
  <2> QED BY <1>6
<1>8. iter[{}] = s /\ \A t \in SUBSET (1..L) :
        t # {} /\ iter[t \ {Max(t)}] \in Rounds =>
          iter[t] = step[<<iter[t \ {Max(t)}], Max(t)>>]
  <2>1. \A t \in SUBSET (1..L) :
          iter[t] = IF t = {} THEN s ELSE Iterated(iter[t \ {Max(t)}], list[Max(t)])
    <3> HIDE DEF iter
    <3> QED BY <1>7
  <2>2. \A t \in SUBSET (1..L) : t # {} => Max(t) \in 1..L
    BY <1>1, MaxOf
  <2> HIDE DEF iter
  <2> QED BY <1>3, <2>1, <2>2
<1>9. FoldLeft(Iterated, s, list) = iter[1..L]
  BY <1>1 DEF FoldLeft, MapThenFoldSet
<1> HIDE DEF iter, body
<1>10. PICK after : after = [k \in 0..L |-> iter[1..k]] /\ StatesOf(after, Rounds, s, step, L)
  BY <1>1, <1>2, <1>8, FoldStates
<1>11. \A k \in 1..L : after[k] = Iterated(after[k - 1], list[k])
  <2> SUFFICES ASSUME NEW k \in 1..L PROVE after[k] = Iterated(after[k - 1], list[k])
    OBVIOUS
  <2>1. k - 1 \in 0..L
    BY <1>1
  <2>2. after[k] = step[<<after[k - 1], k>>] /\ after[k - 1] \in Rounds
    BY <1>10, <2>1 DEF StatesOf
  <2> QED BY <1>3, <2>2
<1>12. FoldLeft(Iterated, s, list) = after[L]
  BY <1>1, <1>9, <1>10
<1>13. Iterates(after, s, list)
  BY <1>10, <1>11, <1>12 DEF Iterates, StatesOf
<1> QED BY <1>13

\* A sequence of different nodes is no longer than there are nodes, and has all of
\* them when it is that long.
LEMMA DifferentNodes ==
  ASSUME GraphGiven, NEW q \in Seq(Nodes), IsInjective(q)
  PROVE  /\ Len(q) \in Nat /\ Len(q) <= Len(spec.names)
         /\ Len(q) = Len(spec.names) <=> Range(q) = Nodes
<1>1. Len(q) \in Nat /\ DOMAIN q = 1..Len(q) /\ q \in [1..Len(q) -> Nodes]
  OBVIOUS
<1>2. q \in Injection(1..Len(q), Nodes)
  BY <1>1 DEF Injection, IsInjective
<1>3. IsFiniteSet(Nodes) /\ Cardinality(Nodes) = Len(spec.names)
  BY MentionsFinite
<1>4. Cardinality(1..Len(q)) = Len(q)
  BY <1>1, FS_Interval
<1>5. /\ Cardinality(1..Len(q)) <= Cardinality(Nodes)
      /\ Cardinality(1..Len(q)) = Cardinality(Nodes) <=> q \in Surjection(1..Len(q), Nodes)
  BY <1>2, <1>3, FS_Injection
<1>6. q \in Surjection(1..Len(q), Nodes) <=> Range(q) = Nodes
  BY <1>1 DEF Surjection, Range
<1> QED BY <1>1, <1>3, <1>4, <1>5, <1>6

\* The loop is over before the fold is, and the order is what it left.
LEMMA OrderOfLoop ==
  ASSUME GraphGiven
  PROVE  \E s \in Rounds : s.ready = <<>> /\ Order = s.order
<1> DEFINE N == Len(spec.names)
           list == [n \in 1..N + 1 |-> n]
<1>1. N \in Nat /\ list \in Seq(Nat) /\ Len(list) = N + 1
  BY SpecParts DEF GraphGiven
<1>2. FirstReady \in Rounds /\ FirstReady.order = <<>>
  <2>1. Round(FirstReady) /\ FirstReady.order = <<>>
    BY FirstReadyRound
  <2>2. FirstReady \in LoopState
    BY <2>1 DEF Round, Counted
  <2> QED BY <2>1, <2>2 DEF Rounds
<1>3. Order = FoldLeft(Iterated, FirstReady, list).order
  BY DEF Order
<1> HIDE DEF list
<1>4. PICK after : Iterates(after, FirstReady, list)
  BY <1>1, <1>2, IterateStates
<1> DEFINE Goes(k) == after[k].ready = <<>> \/ Len(after[k].order) = k
           Bad == {k \in 0..(N + 1) : ~Goes(k)}
<1>5. Bad = {}
  <2> SUFFICES ASSUME Bad # {} PROVE FALSE
    OBVIOUS
  <2>1. PICK k \in Bad : \A m \in Bad : k <= m
    <3>1. Bad \in SUBSET Nat
      BY <1>1
    <3> HIDE DEF Bad
    <3> QED BY <3>1, LeastPosition
  <2>2. k \in 0..(N + 1) /\ ~Goes(k)
    OBVIOUS
  <2>3. k # 0
    <3>1. after[0].order = <<>>
      BY <1>2, <1>4 DEF Iterates
    <3> QED BY <2>2, <3>1
  <2>4. k \in 1..(N + 1) /\ k - 1 \in 0..(N + 1) /\ ~(k <= k - 1)
    BY <1>1, <2>2, <2>3
  <2>5. Goes(k - 1)
    <3>1. k - 1 \notin Bad
      <4> HIDE DEF Bad
      <4> QED BY <2>1, <2>4
    <3> HIDE DEF Goes
    <3> QED BY <2>4, <3>1
  <2>6. after[k] = Iterated(after[k - 1], list[k]) /\ after[k - 1] \in Rounds
    BY <1>1, <1>4, <2>4 DEF Iterates
  <2>7. IF after[k - 1].ready = <<>> THEN after[k] = after[k - 1]
        ELSE Len(after[k].order) = Len(after[k - 1].order) + 1
    BY <2>6, IteratedRound
  <2> QED BY <2>2, <2>4, <2>5, <2>7
<1> DEFINE s == after[N + 1]
<1>6. s \in Rounds /\ Goes(N + 1) /\ Order = s.order
  <2>1. N + 1 \in 0..(N + 1)
    BY <1>1
  <2>2. s \in Rounds /\ Order = s.order
    BY <1>1, <1>3, <1>4, <2>1 DEF Iterates
  <2>3. Goes(N + 1)
    <3> HIDE DEF Goes
    <3> QED BY <1>5, <2>1
  <2> QED BY <2>2, <2>3
<1>7. Len(s.order) # N + 1
  <2>1. s.order \in Seq(Nodes) /\ IsInjective(s.order)
    BY <1>6, LoopParts DEF Rounds, Round, Counted
  <2>2. Len(s.order) \in Nat /\ Len(s.order) <= N
    BY <2>1, DifferentNodes
  <2> QED BY <1>1, <2>2
<1> QED BY <1>6, <1>7

\* A node is in the order as soon as all its predecessors are.
LEMMA OrderFacts ==
  ASSUME GraphGiven
  PROVE  /\ Order \in Seq(Nodes) /\ IsInjective(Order) /\ LeadsOnward(Order)
         /\ \A j \in Nodes : (\A i \in Nodes : Edge(i, j) => i \in Range(Order)) => j \in Range(Order)
<1>1. PICK s \in Rounds : s.ready = <<>> /\ Order = s.order
  BY OrderOfLoop
<1>2. s \in LoopState /\ Counted(s, CountedBy(Order)) /\ LeadsOnward(Order)
  BY <1>1 DEF Rounds, Round
<1>3. Order \in Seq(Nodes) /\ IsInjective(Order)
  BY <1>1, <1>2, LoopParts DEF Counted
<1>4. ASSUME NEW j \in Nodes, \A i \in Nodes : Edge(i, j) => i \in Range(Order)
      PROVE  j \in Range(Order)
  <2>1. MentionsOf(j) \subseteq CountedBy(Order)
    <3> SUFFICES ASSUME NEW e \in MentionsOf(j) PROVE e \in CountedBy(Order)
      OBVIOUS
    <3>1. e \in Mentions /\ e[1] \in Nodes
      BY MentionsFinite DEF MentionsOf
    <3>2. Edge(e[1], j)
      BY <3>1, EdgeIsMention
    <3> QED BY <1>4, <3>1, <3>2 DEF CountedBy
  <2>2. j \in Range(s.order) \cup Range(s.ready)
    BY <1>2, <2>1 DEF Counted
  <2>3. Range(<<>>) = {}
    BY DEF Range
  <2> QED BY <1>1, <2>2, <2>3
<1> QED BY <1>2, <1>3, <1>4

LEMMA AcyclicHasOrder ==
  ASSUME GraphGiven, Acyclic
  PROVE  IsTopological(Order)
<1>1. Range(Order) \subseteq Nodes
  BY OrderFacts DEF Range
<1>2. Range(Order) = Nodes
  <2> SUFFICES ASSUME Nodes \ Range(Order) # {} PROVE FALSE
    BY <1>1
  <2>1. PICK j \in Nodes \ Range(Order) : \A i \in Nodes \ Range(Order) : ~Edge(i, j)
    BY DEF Acyclic
  <2> QED BY <2>1, OrderFacts
<1>3. ASSUME NEW p \in DOMAIN Order, NEW q \in DOMAIN Order, Edge(Order[p], Order[q])
      PROVE  p < q
  <2>1. DOMAIN Order = 1..Len(Order) /\ Len(Order) \in Nat /\ Order[p] \in Nodes
    BY OrderFacts
  <2>2. PICK r \in 1..(q - 1) : Order[r] = Order[p]
    BY <1>3, <2>1, OrderFacts DEF LeadsOnward
  <2>3. r \in DOMAIN Order /\ r < q
    BY <2>1, <2>2
  <2>4. r = p
    BY <2>2, <2>3, OrderFacts DEF IsInjective
  <2> QED BY <2>3, <2>4
<1> QED BY <1>2, <1>3, OrderFacts DEF IsTopological

LEMMA CyclicLeavesNodes ==
  ASSUME GraphGiven, ~Acyclic
  PROVE  Len(Order) < Len(spec.names)
<1>1. PICK S \in SUBSET Nodes : S # {} /\ \A j \in S : \E i \in S : Edge(i, j)
  BY DEF Acyclic
<1>2. Order \in Seq(Nodes) /\ DOMAIN Order = 1..Len(Order) /\ Len(Order) \in Nat
  BY OrderFacts
<1>3. Range(Order) # Nodes
  <2> SUFFICES ASSUME Range(Order) = Nodes PROVE FALSE
    OBVIOUS
  <2> DEFINE places == {q \in 1..Len(Order) : Order[q] \in S}
  <2>1. places # {} /\ places \in SUBSET Nat
    BY <1>1, <1>2 DEF Range
  <2>2. PICK q \in places : \A p \in places : q <= p
    <3> HIDE DEF places
    <3> QED BY <2>1, LeastPosition
  <2>3. q \in 1..Len(Order) /\ Order[q] \in S
    OBVIOUS
  <2>4. PICK i \in S : Edge(i, Order[q])
    BY <1>1, <2>3
  <2>5. PICK p \in 1..(q - 1) : Order[p] = i
    BY <1>2, <2>3, <2>4, OrderFacts DEF LeadsOnward
  <2>6. p \in places /\ ~(q <= p)
    BY <1>2, <2>3, <2>5
  <2> HIDE DEF places
  <2> QED BY <2>2, <2>6
<1> QED BY <1>2, <1>3, SpecParts, DifferentNodes, OrderFacts DEF GraphGiven

\* What validate_task_dag_spec accepts has an order in which every edge leads onward, and
\* topological_order finds it; where the one finds a cycle, the other leaves nodes over.
THEOREM OrdersAreTopological == Spec => []OrderedIffAcyclic
<1>1. SearchInv /\ AcceptedIsValid /\ RefusedForAReason => OrderedIffAcyclic
  <2> SUFFICES ASSUME SearchInv, AcceptedIsValid, RefusedForAReason
               PROVE  OrderedIffAcyclic
    OBVIOUS
  <2>1. ASSUME verdict = "accepted"
        PROVE  IsTopological(Order)
    <3>1. GraphGiven /\ Acyclic
      BY <2>1 DEF AcceptedIsValid, SearchInv, GraphGiven
    <3> QED BY <3>1, AcyclicHasOrder
  <2>2. ASSUME verdict = "cycle"
        PROVE  Len(Order) < Len(spec.names)
    <3>1. ~Acyclic
      BY <2>2 DEF RefusedForAReason
    <3>2. GraphGiven
      BY <2>2 DEF SearchInv, VerdictsRight, Started, GraphGiven
    <3> QED BY <3>1, <3>2, CyclicLeavesNodes
  <2> QED BY <2>1, <2>2 DEF OrderedIffAcyclic
<1> QED BY <1>1, SearchInvAlways, AcceptedDagsAreValid, RefusedDagsAreFaulty, PTL
===============================================================================
