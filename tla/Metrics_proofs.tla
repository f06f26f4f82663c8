--------------------------- MODULE Metrics_proofs ----------------------------
(***************************************************************************)
(* Theorems about SchedulerMetrics and RunMetrics: the invariant of        *)
(* Scheduler holds under the policies the simulator ships, the windows of  *)
(* samples are exact, the drain keeps the policies' ranking and idles no   *)
(* capacity, and a report is true to its run.                              *)
(***************************************************************************)
EXTENDS RunMetrics, Scheduler_proofs

\* The lemmas about sorting; the variables of the loop play no part in them.
Program == INSTANCE PolicyProgram_proofs WITH
  Programs <- {}, Snapshots <- {}, rules <- Rules, snapshot <- <<>>, next <- 1,
  order <- <<>>, admission <- Keep

------------------------------------------------------------------------------
(* Sums *)

LEMMA LeastOf ==
  ASSUME NEW S \in SUBSET Nat, S # {}
  PROVE  \E i \in S : \A j \in S : i <= j
<1>1. PICK i \in S : \A j \in S : <<j, i>> \notin OpToRel(<, Nat)
  BY NatLessThanWellFounded, WFMin
<1>2. \A j \in S : <<j, i>> \in Nat \X Nat /\ <<j, i>>[1] = j /\ <<j, i>>[2] = i
  OBVIOUS
<1>3. \A j \in S : ~(j < i)
  BY <1>1, <1>2 DEF OpToRel
<1> QED BY <1>3

\* Of a set of subsets of a finite set, one has none of the others within it.
LEMMA MinimalSubset ==
  ASSUME NEW S, IsFiniteSet(S), NEW T \in SUBSET (SUBSET S), T # {}
  PROVE  \E s \in T : \A u \in T : u \subseteq s => u = s
<1>1. IsWellFoundedOn(StrictSubsetOrdering(S), SUBSET S)
  BY FS_StrictSubsetOrderingWellFounded, FS_FiniteSubsetsOfFinite
<1>2. PICK s \in T : \A u \in T : <<u, s>> \notin StrictSubsetOrdering(S)
  BY <1>1, WFMin
<1> QED BY <1>2 DEF StrictSubsetOrdering

Chosen(s) == CHOOSE x \in s : TRUE

\* F[s] is the sum of f over s.
IsSum(F, f, S) ==
  /\ F \in [SUBSET S -> Int]
  /\ \A s \in SUBSET S : F[s] = IF s = {} THEN 0 ELSE f[Chosen(s)] + F[s \ {Chosen(s)}]

LEMMA ChosenIn == ASSUME NEW s, s # {} PROVE Chosen(s) \in s
BY DEF Chosen

\* There are such functions: they can be extended from smaller sets to larger ones.
LEMMA SumsExist ==
  ASSUME NEW S, IsFiniteSet(S), NEW f, \A x \in S : f[x] \in Int
  PROVE  \E F : IsSum(F, f, S)
<1> DEFINE Step(F, s) == IF s = {} THEN 0 ELSE f[Chosen(s)] + F[s \ {Chosen(s)}]
           SumUpTo(F, n) == /\ F \in [SUBSET S -> Int]
                            /\ \A s \in SUBSET S : Cardinality(s) <= n => F[s] = Step(F, s)
           Bad == {n \in Nat : ~\E F : SumUpTo(F, n)}
<1>1. \A s \in SUBSET S : IsFiniteSet(s) /\ Cardinality(s) \in Nat
  BY FS_Subset, FS_CardinalityType
<1>2. Bad = {}
  <2> SUFFICES ASSUME Bad # {} PROVE FALSE
    OBVIOUS
  <2>1. PICK n \in Bad : \A m \in Bad : ~(m < n)
    <3>1. Bad \in SUBSET Nat
      OBVIOUS
    <3> HIDE DEF Bad
    <3>2. PICK n \in Bad : \A m \in Bad : n <= m
      BY <3>1, LeastOf
    <3> QED BY <3>1, <3>2
  <2>2. n # 0
    <3> DEFINE Z == [s \in SUBSET S |-> 0]
    <3>1. SumUpTo(Z, 0)
      BY <1>1, FS_EmptySet
    <3> QED BY <3>1
  <2>3. n - 1 \in Nat /\ n - 1 \notin Bad
    <3>1. n \in Nat
      OBVIOUS
    <3>2. n - 1 \in Nat /\ n - 1 < n
      BY <2>2, <3>1
    <3> HIDE DEF Bad
    <3> QED BY <2>1, <3>2
  <2>4. PICK F : SumUpTo(F, n - 1)
    BY <2>3
  <2> DEFINE G == [s \in SUBSET S |-> IF Cardinality(s) = n THEN Step(F, s) ELSE F[s]]
  <2>5. G \in [SUBSET S -> Int]
    BY <2>4, ChosenIn
  <2>6. ASSUME NEW s \in SUBSET S, Cardinality(s) <= n
        PROVE  G[s] = Step(G, s)
    <3>1. CASE s = {}
      <4>1. Cardinality(s) = 0
        BY <3>1, FS_EmptySet
      <4> QED BY <2>2, <2>4, <3>1, <4>1
    <3>2. CASE s # {}
      <4> DEFINE u == s \ {Chosen(s)}
      <4>1. u \in SUBSET S /\ Cardinality(u) = Cardinality(s) - 1
        BY <1>1, <3>2, ChosenIn, FS_RemoveElement
      <4>2. G[u] = F[u]
        BY <1>1, <2>6, <4>1
      <4>3. G[s] = Step(F, s)
        BY <1>1, <2>4, <2>6
      <4> QED BY <3>2, <4>2, <4>3
    <3> QED BY <3>1, <3>2
  <2>7. SumUpTo(G, n)
    <3> HIDE DEF G, Step
    <3> QED BY <2>5, <2>6
  <2> QED BY <2>1, <2>7
<1>3. PICK F : SumUpTo(F, Cardinality(S))
  BY <1>1, <1>2
<1>4. \A s \in SUBSET S : Cardinality(s) <= Cardinality(S)
  BY FS_Subset
<1> QED BY <1>3, <1>4 DEF IsSum

LEMMA SumIs ==
  ASSUME NEW S, IsFiniteSet(S), NEW f, \A x \in S : f[x] \in Int
  PROVE  \E F : IsSum(F, f, S) /\ SumFunctionOnSet(f, S) = F[S]
<1> DEFINE iter == CHOOSE F : F = [s \in SUBSET S |->
                     IF s = {} THEN 0 ELSE f[CHOOSE x \in s : TRUE] + F[s \ {CHOOSE x \in s : TRUE}]]
<1>1. PICK F : IsSum(F, f, S)
  BY SumsExist
<1>2. F = [s \in SUBSET S |->
              IF s = {} THEN 0 ELSE f[CHOOSE x \in s : TRUE] + F[s \ {CHOOSE x \in s : TRUE}]]
  BY <1>1 DEF IsSum, Chosen
<1>3. SumFunctionOnSet(f, S) = iter[S]
  BY DEF SumFunctionOnSet, FoldFunctionOnSet, MapThenFoldSet
<1>4. iter = [s \in SUBSET S |-> IF s = {} THEN 0
                ELSE f[CHOOSE x \in s : TRUE] + iter[s \ {CHOOSE x \in s : TRUE}]]
  BY <1>2, Zenon
<1> HIDE DEF iter
<1>5. \A s \in SUBSET S :
        iter[s] = IF s = {} THEN 0 ELSE f[Chosen(s)] + iter[s \ {Chosen(s)}]
  BY <1>4 DEF Chosen
<1>6. \A s \in SUBSET S : iter[s] = F[s]
  <2> DEFINE T == {s \in SUBSET S : iter[s] # F[s]}
  <2> SUFFICES ASSUME T # {} PROVE FALSE
    OBVIOUS
  <2>1. PICK s \in T : \A u \in T : u \subseteq s => u = s
    <3>1. T \in SUBSET (SUBSET S)
      OBVIOUS
    <3> HIDE DEF T
    <3> QED BY <3>1, MinimalSubset
  <2>2. s # {} => Chosen(s) \in s
    BY ChosenIn
  <2>3. s # {} => iter[s \ {Chosen(s)}] = F[s \ {Chosen(s)}]
    BY <2>1, <2>2
  <2> QED BY <1>1, <1>5, <2>1, <2>3 DEF IsSum
<1>7. S \in SUBSET S
  OBVIOUS
<1> QED BY <1>1, <1>3, <1>6, <1>7

LEMMA SumTyped ==
  ASSUME NEW S, IsFiniteSet(S), NEW f, \A x \in S : f[x] \in Int
  PROVE  SumFunctionOnSet(f, S) \in Int
<1>1. PICK F : IsSum(F, f, S) /\ SumFunctionOnSet(f, S) = F[S]
  BY SumIs
<1> QED BY <1>1 DEF IsSum

\* The sum of sums
LEMMA SumAdds ==
  ASSUME NEW S, IsFiniteSet(S), NEW f, NEW g, NEW h,
         \A x \in S : f[x] \in Int /\ g[x] \in Int /\ h[x] = f[x] + g[x]
  PROVE  SumFunctionOnSet(h, S) = SumFunctionOnSet(f, S) + SumFunctionOnSet(g, S)
<1>1. \A x \in S : h[x] \in Int
  OBVIOUS
<1>2. PICK F : IsSum(F, f, S) /\ SumFunctionOnSet(f, S) = F[S]
  BY SumIs
<1>3. PICK G : IsSum(G, g, S) /\ SumFunctionOnSet(g, S) = G[S]
  BY SumIs
<1>4. PICK H : IsSum(H, h, S) /\ SumFunctionOnSet(h, S) = H[S]
  BY <1>1, SumIs
<1> DEFINE T == {s \in SUBSET S : H[s] # F[s] + G[s]}
<1>5. T = {}
  <2> SUFFICES ASSUME T # {} PROVE FALSE
    OBVIOUS
  <2>1. PICK s \in T : \A u \in T : u \subseteq s => u = s
    <3>1. T \in SUBSET (SUBSET S)
      OBVIOUS
    <3> HIDE DEF T
    <3> QED BY <3>1, MinimalSubset
  <2>2. CASE s = {}
    <3>1. s \in SUBSET S /\ H[s] # F[s] + G[s]
      BY <2>1
    <3>2. H[s] = 0 /\ F[s] = 0 /\ G[s] = 0
      BY <1>2, <1>3, <1>4, <2>2, <3>1 DEF IsSum
    <3> QED BY <3>1, <3>2
  <2>3. CASE s # {}
    <3> DEFINE x == Chosen(s)
               u == s \ {x}
    <3>1. x \in s
      BY <2>3, ChosenIn
    <3>2. x \in S /\ u \in SUBSET S /\ u \subseteq s /\ u # s /\ s \in SUBSET S
      BY <3>1
    <3>3. H[u] = F[u] + G[u]
      BY <2>1, <3>2
    <3>4. H[s] = h[x] + H[u] /\ F[s] = f[x] + F[u] /\ G[s] = g[x] + G[u]
      BY <1>2, <1>3, <1>4, <2>3, <3>2 DEF IsSum
    <3>5. F[u] \in Int /\ G[u] \in Int /\ f[x] \in Int /\ g[x] \in Int /\ h[x] = f[x] + g[x]
      BY <1>2, <1>3, <3>2 DEF IsSum
    <3>6. H[s] # F[s] + G[s]
      BY <2>1
    <3> HIDE DEF x, u
    <3> QED BY <3>3, <3>4, <3>5, <3>6
  <2> QED BY <2>2, <2>3
<1>6. S \in SUBSET S
  OBVIOUS
<1> QED BY <1>2, <1>3, <1>4, <1>5, <1>6

\* Sums of naturals are naturals.
LEMMA SumNat ==
  ASSUME NEW S, IsFiniteSet(S), NEW f, \A x \in S : f[x] \in Nat
  PROVE  SumFunctionOnSet(f, S) \in Nat
<1>1. PICK F : IsSum(F, f, S) /\ SumFunctionOnSet(f, S) = F[S]
  BY SumIs
<1> DEFINE T == {s \in SUBSET S : F[s] \notin Nat}
<1>2. T = {}
  <2> SUFFICES ASSUME T # {} PROVE FALSE
    OBVIOUS
  <2>1. PICK s \in T : \A u \in T : u \subseteq s => u = s
    <3>1. T \in SUBSET (SUBSET S)
      OBVIOUS
    <3> HIDE DEF T
    <3> QED BY <3>1, MinimalSubset
  <2>2. CASE s = {}
    <3>1. s \in SUBSET S /\ F[s] \notin Nat
      BY <2>1
    <3>2. F[s] = 0
      BY <1>1, <2>2, <3>1 DEF IsSum
    <3> QED BY <3>1, <3>2
  <2>3. CASE s # {}
    <3> DEFINE x == Chosen(s)
               u == s \ {x}
    <3>1. x \in s
      BY <2>3, ChosenIn
    <3>2. x \in S /\ u \in SUBSET S /\ u \subseteq s /\ u # s /\ s \in SUBSET S
      BY <3>1
    <3>3. F[u] \in Nat
      BY <2>1, <3>2
    <3>4. F[s] = f[x] + F[u] /\ f[x] \in Nat /\ F[s] \notin Nat
      BY <1>1, <2>1, <2>3, <3>2 DEF IsSum
    <3> HIDE DEF x, u
    <3> QED BY <3>3, <3>4
  <2> QED BY <2>2, <2>3
<1>3. S \in SUBSET S
  OBVIOUS
<1> QED BY <1>1, <1>2, <1>3

\* Sums of larger summands are larger.
LEMMA SumMonotone ==
  ASSUME NEW S, IsFiniteSet(S), NEW f, NEW g,
         \A x \in S : f[x] \in Int /\ g[x] \in Int /\ f[x] <= g[x]
  PROVE  SumFunctionOnSet(f, S) <= SumFunctionOnSet(g, S)
<1> DEFINE d == [x \in S |-> g[x] - f[x]]
<1>1. \A x \in S : d[x] \in Nat /\ d[x] \in Int /\ g[x] = f[x] + d[x]
  OBVIOUS
<1> HIDE DEF d
<1>2. SumFunctionOnSet(g, S) = SumFunctionOnSet(f, S) + SumFunctionOnSet(d, S)
  BY <1>1, SumAdds
<1>3. SumFunctionOnSet(d, S) \in Nat /\ SumFunctionOnSet(f, S) \in Int
  BY <1>1, SumNat, SumTyped
<1> QED BY <1>2, <1>3

\* A sum of zeros
LEMMA SumOfZeros ==
  ASSUME NEW S, IsFiniteSet(S), NEW f, \A x \in S : f[x] = 0
  PROVE  SumFunctionOnSet(f, S) = 0
<1>1. \A x \in S : f[x] \in Int /\ f[x] = f[x] + f[x]
  OBVIOUS
<1>2. SumFunctionOnSet(f, S) = SumFunctionOnSet(f, S) + SumFunctionOnSet(f, S)
  BY <1>1, SumAdds
<1>3. SumFunctionOnSet(f, S) \in Int
  BY <1>1, SumTyped
<1>4. \A n \in Int : n = n + n => n = 0
  OBVIOUS
<1> QED BY <1>2, <1>3, <1>4

------------------------------------------------------------------------------
(* Decisions *)

\* The demands of a task's stage on the resources of a domain
LEMMA DemandTyped ==
  ASSUME TypeOK, NEW t \in Task, ~Finished(t), NEW resources \in SUBSET Resource
  PROVE  /\ IsFiniteSet(resources)
         /\ DemandOn(t, resources) \in Nat
<1>1. IsFiniteSet(resources)
  BY SchedulerMetricsAssumption, FS_Subset DEF SchedulerMetricsAssumption
<1>2. \A r \in resources : Stage(t).demand[r] \in Nat
  BY StageTyped
<1> QED BY <1>1, <1>2, SumNat DEF DemandOn

\* What policy_state_snapshot gives a policy
LEMMA SnapshotTyped ==
  ASSUME TypeOK, NEW queue \in Seq(Task), IsInjective(queue), NEW m,
         NEW s, s = PolicySnapshot(queue, m)
  PROVE  /\ s.order = queue
         /\ \A t \in Task : s.score[t] \in Int
         /\ Program!IsSnapshot(s)
<1>1. s.order = queue
  BY DEF PolicySnapshot
<1>2. \A t \in Task : s.score[t] \in Int
  <2> TAKE t \in Task
  <2>1. CASE Finished(t)
    BY <2>1 DEF PolicySnapshot
  <2>2. CASE ~Finished(t)
    <3>1. HostResources \in SUBSET Resource /\ NicResources \in SUBSET Resource
      BY SchedulerMetricsAssumption DEF SchedulerMetricsAssumption
    <3>2. DemandOn(t, HostResources) \in Nat /\ DemandOn(t, NicResources) \in Nat
      BY <2>2, <3>1, DemandTyped
    <3>3. s.score[t] = DemandOn(t, HostResources) - DemandOn(t, NicResources)
      BY <2>2 DEF PolicySnapshot
    <3> QED BY <3>2, <3>3
  <2> QED BY <2>1, <2>2
<1>3. queue \in Seq(Int) /\ Range(queue) \in SUBSET Task
  <2>1. Task \in SUBSET Int
    BY SchedulerMetricsAssumption DEF SchedulerMetricsAssumption
  <2>2. queue \in Seq(Int)
    BY <2>1, SeqMonotonic
  <2>3. \A i \in DOMAIN queue : queue[i] \in Task
    OBVIOUS
  <2> QED BY <2>2, <2>3 DEF Range
<1>4. Program!IsSnapshot(s)
  BY <1>1, <1>2, <1>3 DEF Program!IsSnapshot, Program!IsInjective, IsInjective,
                          Program!Range, Range
<1> QED BY <1>1, <1>2, <1>4

LEMMA ProgramAssumed ==
  /\ \A program \in {} : Program!IsProgram(program)
  /\ \A s \in {} : Program!IsSnapshot(s)
  /\ Keep \notin Nat
BY SchedulerAssumption DEF SchedulerAssumption

LEMMA SameFiniteSets ==
  \A S : /\ Program!Cardinality(S) = Cardinality(S)
         /\ Program!IsFiniteSet(S) <=> IsFiniteSet(S)
BY DEF Program!Cardinality, Cardinality, Program!IsFiniteSet, IsFiniteSet

\* What a sort by demand gives
LEMMA ByDemandTyped ==
  ASSUME TypeOK, NEW queue \in Seq(Task), IsInjective(queue), NEW m, NEW preferHost \in BOOLEAN,
         NEW s, s = PolicySnapshot(queue, m), NEW q, q = ByDemand(s, preferHost)
  PROVE  /\ q \in Seq(Task) /\ IsInjective(q) /\ Range(q) = Range(queue)
         /\ \A i, j \in 1..Len(q) : i < j => Ranked(q[i], q[j], s.score, preferHost)
<1> DEFINE ids == Range(queue)
           score == s.score
<1>1. s.order = queue /\ \A t \in Task : score[t] \in Int
  BY SnapshotTyped
<1>2. ids \in SUBSET Task /\ Task \in SUBSET Int /\ IsFiniteSet(ids)
  <2>1. ids \in SUBSET Task
    BY DEF Range
  <2>2. Task \in SUBSET Int /\ IsFiniteSet(Task)
    BY SchedulerMetricsAssumption, SchedulerAssumption
       DEF SchedulerMetricsAssumption, SchedulerAssumption
  <2> HIDE DEF ids
  <2> QED BY <2>1, <2>2, FS_Subset
<1>3. q = SortedByDemand(ids, score, preferHost)
  BY <1>1 DEF ByDemand
<1> HIDE DEF ids, score
<1>4. q = Program!SortedByDemand(ids, score, preferHost)
  BY <1>3, Zenon
     DEF Program!SortedByDemand, SortedByDemand, Program!Ranked, Ranked,
         Program!Cardinality, Cardinality
<1>5. /\ ids \in SUBSET Int /\ Program!IsFiniteSet(ids)
      /\ \A x \in ids : score[x] \in Int
  <2>1. ids \in SUBSET Int /\ \A x \in ids : score[x] \in Int
    BY <1>1, <1>2
  <2> QED BY <1>2, <2>1, SameFiniteSets
<1>6. /\ q \in Seq(ids) /\ Len(q) = Program!Cardinality(ids)
      /\ Program!IsInjective(q) /\ Program!Range(q) = ids
      /\ \A i, j \in 1..Program!Cardinality(ids) :
           i < j => Program!Ranked(q[i], q[j], score, preferHost)
  BY <1>4, <1>5, ProgramAssumed, Program!DemandSorted
<1>7. IsInjective(q) /\ Range(q) = ids
  BY <1>6 DEF Program!IsInjective, IsInjective, Program!Range, Range
<1>8. \A i, j \in 1..Len(q) : i < j => Ranked(q[i], q[j], score, preferHost)
  BY <1>6 DEF Program!Ranked, Ranked
<1> QED BY <1>2, <1>6, <1>7, <1>8 DEF ids, score

LEMMA DescendingTyped ==
  ASSUME NEW queue \in Seq(Task), NEW q, q = Descending(Range(queue))
  PROVE  /\ q \in Seq(Task) /\ IsInjective(q) /\ Range(q) = Range(queue)
         /\ \A i, j \in 1..Len(q) : i < j => q[i] > q[j]
<1> DEFINE ids == Range(queue)
<1>1. ids \in SUBSET Task /\ Task \in SUBSET Int /\ IsFiniteSet(ids)
  <2>1. ids \in SUBSET Task
    BY DEF Range
  <2>2. Task \in SUBSET Int /\ IsFiniteSet(Task)
    BY SchedulerMetricsAssumption, SchedulerAssumption
       DEF SchedulerMetricsAssumption, SchedulerAssumption
  <2> HIDE DEF ids
  <2> QED BY <2>1, <2>2, FS_Subset
<1> HIDE DEF ids
<1>2. q = Program!Descending(ids)
  BY Zenon DEF Program!Descending, Descending, Program!Cardinality, Cardinality, ids
<1>3. ids \in SUBSET Int /\ Program!IsFiniteSet(ids)
  <2>1. ids \in SUBSET Int
    BY <1>1
  <2> QED BY <1>1, <2>1, SameFiniteSets
<1>4. /\ q \in Seq(ids) /\ Len(q) = Program!Cardinality(ids)
      /\ Program!IsInjective(q) /\ Program!Range(q) = ids
      /\ \A i, j \in 1..Program!Cardinality(ids) : i < j => q[i] > q[j]
  BY <1>2, <1>3, ProgramAssumed, Program!DescendingSorted
<1>5. IsInjective(q) /\ Range(q) = ids
  BY <1>4 DEF Program!IsInjective, IsInjective, Program!Range, Range
<1>6. q \in Seq(Task)
  BY <1>1, <1>4, SeqMonotonic
<1> QED BY <1>4, <1>5, <1>6 DEF ids

\* What a rule's reorder gives
LEMMA ReorderTyped ==
  ASSUME TypeOK, NEW queue \in Seq(Task), IsInjective(queue), NEW m,
         NEW s, s = PolicySnapshot(queue, m),
         NEW rule, rule.action.preferHost \in BOOLEAN, NEW q, q = ReorderWaiting(rule, s)
  PROVE  q \in Seq(Task)
<1>1. s.order = queue /\ Program!IsSnapshot(s)
  BY SnapshotTyped
<1>2. CASE q = <<>>
  BY <1>2
<1>3. CASE q # <<>>
  <2>1. q = Program!ReorderWaiting(rule, s)
    BY Zenon
       DEF Program!ReorderWaiting, ReorderWaiting, Program!Filtered, Filtered,
           Program!SortedByDemand, SortedByDemand, Program!Ranked, Ranked,
           Program!Positions, Positions, Program!MatchesTask, MatchesTask,
           Program!Cardinality, Cardinality
  <2>2. q \in [DOMAIN s.order -> Program!Range(s.order)]
    BY <1>1, <1>3, <2>1, ProgramAssumed, Program!ReorderingPermutes
  <2>3. DOMAIN queue = 1..Len(queue) /\ Len(queue) \in Nat /\ Program!Range(queue) \in SUBSET Task
    BY DEF Program!Range
  <2> QED BY <1>1, <2>2, <2>3
<1> QED BY <1>2, <1>3

\* What the rules of the policy "dsl" decide
LEMMA DecideTyped ==
  ASSUME TypeOK, NEW queue \in Seq(Task), IsInjective(queue), NEW m,
         NEW s, s = PolicySnapshot(queue, m)
  PROVE  Decide(Rules, s) \in DecisionType
<1> DEFINE ordering == {i \in DOMAIN Rules : Orders(Rules[i], s)}
           limiting == {i \in DOMAIN Rules : Limits(Rules[i], s)}
           order == IF ordering = {} THEN <<>> ELSE ReorderWaiting(Rules[First(ordering)], s)
           limit == IF limiting = {} THEN Keep ELSE Rules[First(limiting)].action.limit
<1>1. /\ DOMAIN Rules \in SUBSET Nat
      /\ \A i \in DOMAIN Rules : Rules[i].action \in Actions
  BY SchedulerMetricsAssumption DEF SchedulerMetricsAssumption, IsRule
<1>2. \A S \in SUBSET Nat : S # {} => First(S) \in S
  BY LeastOf DEF First
<1>3. order \in Seq(Task)
  <2>1. CASE ordering = {}
    BY <2>1
  <2>2. CASE ordering # {}
    <3>1. First(ordering) \in ordering
      BY <1>1, <1>2, <2>2
    <3>2. /\ Rules[First(ordering)].action \in Actions
          /\ Rules[First(ordering)].action.type = "reorder"
      BY <1>1, <3>1 DEF Orders
    <3>3. Rules[First(ordering)].action.preferHost \in BOOLEAN
      BY <3>2 DEF Actions
    <3> QED BY <2>2, <3>3, ReorderTyped
  <2> QED BY <2>1, <2>2
<1>4. limit \in Nat \cup {NoLimit, Keep}
  <2>1. CASE limiting = {}
    BY <2>1
  <2>2. CASE limiting # {}
    <3>1. First(limiting) \in limiting
      BY <1>1, <1>2, <2>2
    <3>2. /\ Rules[First(limiting)].action \in Actions
          /\ Rules[First(limiting)].action.type = "admission"
      BY <1>1, <3>1 DEF Limits
    <3>3. Rules[First(limiting)].action.limit \in Nat
      BY <3>2 DEF Actions
    <3> QED BY <2>2, <3>3
  <2> QED BY <2>1, <2>2
<1>5. Decide(Rules, s) = [order |-> order, admission |-> limit]
  BY DEF Decide, Decision
<1> HIDE DEF order, limit
<1> QED BY <1>3, <1>4, <1>5 DEF DecisionType

\* Whatever the policy, its decisions are decisions of a hook.
LEMMA EvaluateTyped ==
  ASSUME TypeOK, policy \in PolicyIds, NEW queue \in Seq(Task), IsInjective(queue), NEW m,
         NEW d \in Evaluate(PolicySnapshot(queue, m))
  PROVE  d \in DecisionType
<1> DEFINE s == PolicySnapshot(queue, m)
<1>1. policy \in BuiltIns \cup {"dsl", "any"}
  BY SchedulerMetricsAssumption DEF SchedulerMetricsAssumption
<1>2. Decisions \subseteq DecisionType
  BY SchedulerAssumption DEF SchedulerAssumption
<1>3. s.order = queue /\ <<>> \in Seq(Task)
  BY SnapshotTyped
<1>4. \A h \in BOOLEAN : ByDemand(s, h) \in Seq(Task)
  BY ByDemandTyped
<1>5. Descending(Range(queue)) \in Seq(Task)
  BY DescendingTyped
<1>6. Decide(Rules, s) \in DecisionType
  BY DecideTyped
<1>7. d \in Evaluate(s)
  OBVIOUS
<1> HIDE DEF s
<1>8. CASE policy = "any"
  BY <1>2, <1>7, <1>8 DEF Evaluate
<1>9. CASE policy = "dsl"
  BY <1>6, <1>7, <1>9 DEF Evaluate
<1>10. CASE policy \in BuiltIns
  <2>1. d = BuiltIn(policy, s)
    BY <1>7, <1>10 DEF Evaluate, BuiltIns
  <2>2. FavorsHost(s) \in BOOLEAN
    BY DEF FavorsHost
  <2>3. Adaptive(s) \in Seq(Task)
    BY <1>3, <1>4, <2>2 DEF Adaptive
  <2>4. \E q \in Seq(Task), a \in {Keep, 1} : d = Decision(q, a)
    <3>1. CASE policy \in {"none", "limit-active-1"}
      <4>1. d = Decision(<<>>, IF policy = "none" THEN Keep ELSE 1)
        BY <2>1, <3>1 DEF BuiltIn
      <4> QED BY <1>3, <4>1
    <3>2. CASE policy = "descending-id"
      <4>1. d = Decision(Descending(Range(queue)), Keep)
        BY <1>3, <2>1, <3>2 DEF BuiltIn
      <4> QED BY <1>5, <4>1
    <3>3. CASE policy \in {"prefer-host", "prefer-nic"}
      <4>1. d = Decision(ByDemand(s, policy = "prefer-host"), Keep)
        BY <2>1, <3>3 DEF BuiltIn
      <4> QED BY <1>4, <4>1
    <3>4. CASE policy = "prefer-adaptive"
      <4>1. d = Decision(Adaptive(s), Keep)
        BY <2>1, <3>4 DEF BuiltIn
      <4> QED BY <2>3, <4>1
    <3> QED BY <1>10, <3>1, <3>2, <3>3, <3>4 DEF BuiltIns
  <2> QED BY <2>4 DEF Decision, DecisionType
<1> QED BY <1>1, <1>8, <1>9, <1>10

\* So a call of the hook leaves a queue of the same tasks.
LEMMA PolicyKeepsQueue ==
  ASSUME TypeOK, policy \in PolicyIds, NEW queue \in Seq(Task), IsInjective(queue),
         NEW waiting \in SUBSET Task, Range(queue) = waiting,
         NEW limit \in Nat \cup {NoLimit}, NEW m, NEW h \in Hook(m, queue, waiting, limit)
  PROVE  HookResult(h, waiting) /\ (queue # <<>> => h.queue # <<>>)
<1>1. PICK d \in Evaluate(PolicySnapshot(queue, m)) : h \in Applied(d, queue, waiting, limit)
  BY DEF Hook
<1>2. d \in DecisionType
  BY EvaluateTyped
<1> QED BY <1>1, <1>2, AppliedKeepsQueue

------------------------------------------------------------------------------
(* The invariant of Scheduler *)

\* What ObserveReady does to the variables of Scheduler
LEMMA ReadyObserved ==
  ASSUME IInv, policy \in PolicyIds, NEW e \in eventQueue, ObserveReady(e)
  PROVE  IInv'
<1> DEFINE m == BeforeHook(metrics, e.timestamp)
<1>1. /\ waitingQueue \in Seq(Task) /\ IsInjective(waitingQueue)
      /\ waitingSet \in SUBSET Task /\ Range(waitingQueue) = waitingSet
      /\ admissionLimit \in Nat \cup {NoLimit} /\ TypeOK
  BY DEF IInv, TypeOK, WaitingConsistent
<1>2. PICK h \in Hook(m, waitingQueue, waitingSet, admissionLimit) :
        \/ ReadyStarts(e, h)
        \/ \E n : \E g \in Hook(n, Append(h.queue, e.id), Enlisted(e.id), h.limit) :
             ReadyWaits(e, h, g)
  BY DEF ObserveReady
<1>3. HookResult(h, waitingSet)
  BY <1>1, <1>2, PolicyKeepsQueue
<1>4. TakeReady(e) /\ e.id \in Task /\ e.id \notin waitingSet
  BY ReadyTaken DEF ObserveReady
<1>5. CASE ReadyStarts(e, h)
  BY <1>3, <1>4, <1>5, ReadyStartsIInv
<1>6. ASSUME NEW n, NEW g \in Hook(n, Append(h.queue, e.id), Enlisted(e.id), h.limit),
             ReadyWaits(e, h, g)
      PROVE  IInv'
  <2> DEFINE q == Append(h.queue, e.id)
             w == Enlisted(e.id)
             l == h.limit
  <2>1. /\ q \in Seq(Task) /\ IsInjective(q) /\ Range(q) = w
        /\ w \in SUBSET Task /\ l \in Nat \cup {NoLimit}
    BY <1>1, <1>3, <1>4, AppendFresh DEF HookResult, Enlisted
  <2>2. g \in Hook(n, q, w, l)
    BY <1>6
  <2> HIDE DEF q, w, l
  <2>3. HookResult(g, w)
    BY <1>1, <2>1, <2>2, PolicyKeepsQueue
  <2>4. HookResult(g, Enlisted(e.id))
    BY <2>3 DEF w
  <2> QED BY <1>4, <1>6, <2>4, ReadyWaitsIInv
<1> QED BY <1>2, <1>5, <1>6

\* ... and ObserveDrain
LEMMA DrainObserved ==
  ASSUME IInv, policy \in PolicyIds, ObserveDrain
  PROVE  IInv'
<1>1. /\ waitingQueue \in Seq(Task) /\ IsInjective(waitingQueue)
      /\ waitingSet \in SUBSET Task /\ Range(waitingQueue) = waitingSet
      /\ admissionLimit \in Nat \cup {NoLimit} /\ TypeOK
  BY DEF IInv, TypeOK, WaitingConsistent
<1>2. drainLeft > 0 /\ GoOnDraining /\ waitingQueue # <<>>
  BY DEF ObserveDrain, IInv, DrainHasWork
<1> DEFINE n == BeforeHook(metrics, currentTime)
<1>3. PICK h \in Hook(n, waitingQueue, waitingSet, admissionLimit) : TryFront(h)
  BY DEF ObserveDrain, DrainHook
<1>4. HookResult(h, waitingSet) /\ h.queue # <<>>
  BY <1>1, <1>2, <1>3, PolicyKeepsQueue
<1> QED BY <1>2, <1>3, <1>4, FrontIInv

\* No step breaks the invariant.
LEMMA ObserveIInv ==
  ASSUME IInv, policy \in PolicyIds, [ObserveNext]_allVars
  PROVE  IInv' /\ (policy \in PolicyIds)'
<1>1. CASE ObserveNothing
  <2>1. Next
    BY <1>1 DEF ObserveNothing, Next, StepOnce, HandleEvent
  <2> QED BY <1>1, <2>1, NextIInv DEF ObserveNothing, observed
<1>2. CASE \E e \in eventQueue : ObserveReady(e)
  BY <1>2, ReadyObserved DEF ObserveReady
<1>3. CASE \E e \in eventQueue : ObserveComplete(e)
  <2>1. Next
    BY <1>3 DEF ObserveComplete, Next, StepOnce, HandleEvent
  <2> QED BY <1>3, <2>1, NextIInv DEF ObserveComplete
<1>4. CASE ObserveDrain
  BY <1>4, DrainObserved DEF ObserveDrain
<1>5. CASE UNCHANGED <<vars, policy>>
  BY <1>5, NextIInv
<1> QED BY <1>1, <1>2, <1>3, <1>4, <1>5 DEF ObserveNext, ReadMetrics, allVars, observed

\* The invariant of Scheduler, IInv, holds under each policy that the simulator
\* ships: whatever it samples and decides, no task is lost and every unit accounted.
THEOREM PolicyInvariance == ObserveSpec => [](IInv /\ policy \in PolicyIds)
<1>1. ObserveInit => IInv /\ policy \in PolicyIds
  BY InitIInv DEF ObserveInit
<1>2. IInv /\ policy \in PolicyIds /\ [ObserveNext]_allVars => (IInv /\ policy \in PolicyIds)'
  BY ObserveIInv
<1> QED BY <1>1, <1>2, PTL DEF ObserveSpec

------------------------------------------------------------------------------
(* Usage *)

\* When the units of a stage are taken or given back, the clamped sum of a domain
\* is the sum of what the pool then has in use.
LEMMA DomainAdjusted ==
  ASSUME IInv, IInv', NEW cores \in SUBSET Resource, NEW t \in Task, ~Finished(t),
         NEW sign \in {1, -1},
         \A r \in Resource : inUse'[r] = inUse[r] + sign * Stage(t).demand[r]
  PROVE  Clamp(SumFunctionOnSet(inUse, cores) + sign * DemandOn(t, cores),
               0, DomainCapacity(cores))
           = SumFunctionOnSet(inUse, cores)'
<1> DEFINE d == Stage(t).demand
           old == inUse
           new == inUse'
<1>1. /\ IsFiniteSet(cores)
      /\ \A r \in cores : d[r] \in Nat /\ old[r] \in Nat /\ new[r] \in Nat
                          /\ Capacity[r] \in Nat /\ new[r] <= Capacity[r]
                          /\ new[r] = old[r] + sign * d[r]
  <2>1. IsFiniteSet(cores)
    BY DemandTyped DEF IInv
  <2>2. d \in [Resource -> Nat] /\ old \in [Resource -> Nat] /\ new \in [Resource -> Nat]
    BY StageTyped DEF IInv, TypeOK
  <2>3. \A r \in Resource : Capacity[r] \in Nat /\ new[r] <= Capacity[r]
    BY SchedulerAssumption DEF SchedulerAssumption, IInv, UnitsAccounted
  <2> HIDE DEF d, old, new
  <2>4. \A r \in Resource : new[r] = old[r] + sign * d[r]
    BY DEF d, old, new
  <2> QED BY <2>1, <2>2, <2>3, <2>4
<1> HIDE DEF d, old, new
<1>2. /\ SumFunctionOnSet(d, cores) \in Nat /\ SumFunctionOnSet(old, cores) \in Nat
      /\ SumFunctionOnSet(new, cores) \in Nat
  BY <1>1, SumNat
<1>3. SumFunctionOnSet(new, cores) <= SumFunctionOnSet(Capacity, cores)
      /\ SumFunctionOnSet(Capacity, cores) \in Nat
  BY <1>1, SumMonotone, SumNat
<1>4. SumFunctionOnSet(new, cores)
        = SumFunctionOnSet(old, cores) + sign * SumFunctionOnSet(d, cores)
  <2>1. CASE sign = 1
    <3>1. \A r \in cores : old[r] \in Int /\ d[r] \in Int /\ new[r] = old[r] + d[r]
      BY <1>1, <2>1
    <3>2. SumFunctionOnSet(new, cores) = SumFunctionOnSet(old, cores) + SumFunctionOnSet(d, cores)
      BY <1>1, <3>1, SumAdds
    <3> QED BY <1>2, <2>1, <3>2
  <2>2. CASE sign = -1
    <3>1. \A r \in cores : new[r] \in Int /\ d[r] \in Int /\ old[r] = new[r] + d[r]
      BY <1>1, <2>2
    <3>2. SumFunctionOnSet(old, cores) = SumFunctionOnSet(new, cores) + SumFunctionOnSet(d, cores)
      BY <1>1, <3>1, SumAdds
    <3> QED BY <1>2, <2>2, <3>2
  <2> QED BY <2>1, <2>2
<1>5. SumFunctionOnSet(inUse, cores)' = SumFunctionOnSet(new, cores)
  BY DEF new
<1> QED BY <1>2, <1>3, <1>4, <1>5 DEF Clamp, DemandOn, DomainCapacity, d, old

\* So the usage stays exact.
LEMMA UsageAdjusted ==
  ASSUME IInv, IInv', UsageExact, NEW t \in Task, ~Finished(t), NEW sign \in {1, -1},
         \A r \in Resource : inUse'[r] = inUse[r] + sign * Stage(t).demand[r],
         usage' = Adjusted(t, sign)
  PROVE  UsageExact'
<1>1. HostCpu \in SUBSET Resource /\ NicCpu \in SUBSET Resource
  BY SchedulerMetricsAssumption DEF SchedulerMetricsAssumption
<1>2. usage'.host = Clamp(usage.host + sign * DemandOn(t, HostCpu), 0, DomainCapacity(HostCpu))
      /\ usage'.nic = Clamp(usage.nic + sign * DemandOn(t, NicCpu), 0, DomainCapacity(NicCpu))
  BY DEF Adjusted
<1>3. usage'.host = SumFunctionOnSet(inUse, HostCpu)'
  BY <1>1, <1>2, DomainAdjusted DEF UsageExact
<1>4. usage'.nic = SumFunctionOnSet(inUse, NicCpu)'
  BY <1>1, <1>2, DomainAdjusted DEF UsageExact
<1> QED BY <1>3, <1>4 DEF UsageExact

------------------------------------------------------------------------------
(* Windows *)

\* A log without its first k entries
Suffix(log, k) == SubSeq(log, k + 1, Len(log))

LEMMA SuffixIs ==
  ASSUME NEW S, NEW log \in Seq(S), NEW k \in 0..Len(log)
  PROVE  /\ Suffix(log, k) \in Seq(S) /\ Len(Suffix(log, k)) = Len(log) - k
         /\ \A i \in 1..Len(Suffix(log, k)) : Suffix(log, k)[i] = log[i + k]
<1> DEFINE t == SubSeq(log, k + 1, Len(log))
<1>1. \A i \in k + 1..Len(log) : log[i] \in S
  OBVIOUS
<1>2. /\ t \in Seq(S)
      /\ Len(t) = IF k + 1 <= Len(log) THEN Len(log) - (k + 1) + 1 ELSE 0
      /\ \A i \in 1..(Len(log) - (k + 1) + 1) : t[i] = log[k + 1 + i - 1]
  BY <1>1, SubSeqProperties
<1>3. t = Suffix(log, k)
  BY DEF Suffix
<1> HIDE DEF t
<1>4. t \in Seq(S) /\ Len(t) = Len(log) - k /\ \A i \in 1..Len(t) : t[i] = log[i + k]
  BY <1>2
<1> QED BY <1>3, <1>4

LEMMA IsSuffix ==
  ASSUME NEW S, NEW log \in Seq(S), NEW k \in 0..Len(log), NEW s \in Seq(S),
         Len(s) = Len(log) - k, \A i \in 1..Len(s) : s[i] = log[i + k]
  PROVE  s = Suffix(log, k)
<1> DEFINE t == Suffix(log, k)
<1>1. t \in Seq(S) /\ Len(t) = Len(log) - k /\ \A i \in 1..Len(t) : t[i] = log[i + k]
  BY SuffixIs
<1> HIDE DEF t
<1>2. s = t
  BY <1>1, SeqEqual
<1> QED BY <1>2 DEF t

\* The loop that drops old entries stops at the first that is not old.
LEMMA OlderThanIs ==
  ASSUME NEW S, \A x \in S : x.at \in Nat, NEW s \in Seq(S), NEW threshold \in Int
  PROVE  /\ OlderThan(s, threshold) \in 0..Len(s)
         /\ \A i \in 1..OlderThan(s, threshold) : s[i].at < threshold
         /\ OlderThan(s, threshold) < Len(s) => s[OlderThan(s, threshold) + 1].at >= threshold
<1> DEFINE P(k) == /\ \A i \in 1..k : s[i].at < threshold
                   /\ k < Len(s) => s[k + 1].at >= threshold
           young == {i \in 1..Len(s) : s[i].at >= threshold}
<1>1. \A i \in 1..Len(s) : s[i].at \in Nat
  OBVIOUS
<1>2. \E k \in 0..Len(s) : P(k)
  <2>1. CASE young = {}
    <3>1. P(Len(s)) /\ Len(s) \in 0..Len(s)
      BY <1>1, <2>1
    <3> HIDE DEF P
    <3> QED BY <3>1
  <2>2. CASE young # {}
    <3>1. young \in SUBSET Nat
      OBVIOUS
    <3> HIDE DEF young
    <3>2. PICK m \in young : \A j \in young : m <= j
      BY <2>2, <3>1, LeastOf
    <3> USE DEF young
    <3>3. m - 1 \in 0..Len(s) /\ m \in 1..Len(s) /\ s[m].at >= threshold
      BY <3>2
    <3>4. \A i \in 1..m - 1 : s[i].at < threshold
      <4> SUFFICES ASSUME NEW i \in 1..m - 1, ~(s[i].at < threshold) PROVE FALSE
        OBVIOUS
      <4>1. i \in 1..Len(s) /\ i < m
        BY <3>3
      <4>2. i \in young
        BY <1>1, <4>1
      <4> QED BY <3>2, <4>1, <4>2
    <3>5. (m - 1) + 1 = m
      BY <3>3
    <3>6. P(m - 1)
      BY <3>3, <3>4, <3>5
    <3> HIDE DEF P
    <3> QED BY <3>3, <3>6
  <2> QED BY <2>1, <2>2
<1>3. OlderThan(s, threshold) = CHOOSE k \in 0..Len(s) : P(k)
  BY DEF OlderThan
<1> QED BY <1>2, <1>3

\* The entries of a log come in the order of time, up to now.
InOrder(log, now) ==
  /\ \A i \in DOMAIN log : log[i].at <= now
  /\ \A i, j \in DOMAIN log : i < j => log[i].at <= log[j].at

\* s has the end of the log, at least all that is in the window.
Kept(s, log, window, now) ==
  window > 0 =>
    \E k \in 0..Len(log) :
      /\ s = SubSeq(log, k + 1, Len(log))
      /\ \A i \in 1..k : log[i].at < now - window

\* Dropping leaves exactly the window.
LEMMA DroppedToWindow ==
  ASSUME NEW S, \A x \in S : x.at \in Nat, NEW log \in Seq(S), NEW threshold \in Int,
         \A i, j \in DOMAIN log : i < j => log[i].at <= log[j].at,
         NEW k \in 0..Len(log), \A i \in 1..k : log[i].at < threshold,
         NEW s, s = SubSeq(log, k + 1, Len(log))
  PROVE  /\ DropOlder(s, threshold) \in Seq(S)
         /\ IsWindow(DropOlder(s, threshold), log, threshold)
<1> DEFINE o == OlderThan(s, threshold)
           j == k + o
           t == DropOlder(s, threshold)
<1>1. s \in Seq(S) /\ Len(s) = Len(log) - k /\ \A i \in 1..Len(s) : s[i] = log[i + k]
  BY SuffixIs DEF Suffix
<1>2. /\ o \in 0..Len(s) /\ \A i \in 1..o : s[i].at < threshold
      /\ o < Len(s) => s[o + 1].at >= threshold
  BY <1>1, OlderThanIs
<1>3. t = Suffix(s, o)
  BY DEF DropOlder, Suffix
<1> HIDE DEF o, t
<1>4. t \in Seq(S) /\ Len(t) = Len(s) - o /\ \A i \in 1..Len(t) : t[i] = s[i + o]
  BY <1>1, <1>2, <1>3, SuffixIs
<1>5. j \in 0..Len(log) /\ Len(t) = Len(log) - j
  <2> DEFINE n == Len(log)
  <2>1. n \in Nat
    BY LenProperties
  <2>2. Len(s) = n - k
    BY <1>1
  <2>k. k \in 0..n
    OBVIOUS
  <2> HIDE DEF n
  <2>3. n - k \in Nat
    BY <2>1, <2>k, SMT
  <2>4. o \in 0..(n - k)
    BY <1>2, <2>2, Zenon
  <2>5. Len(t) = (n - k) - o
    BY <1>4, <2>2, Zenon
  <2>6. k + o \in 0..n /\ (n - k) - o = n - (k + o)
    BY <2>1, <2>k, <2>3, <2>4, SMT
  <2> QED BY <2>5, <2>6, Zenon DEF n
<1>6. \A i \in 1..Len(t) : t[i] = log[i + j]
  <2> TAKE i \in 1..Len(t)
  <2>1. i + o \in 1..Len(s) /\ (i + o) + k = i + j
    BY <1>1, <1>2, <1>4
  <2> HIDE DEF j
  <2> QED BY <1>1, <1>4, <2>1
<1>7. t = Suffix(log, j)
  <2> HIDE DEF j
  <2> QED BY <1>4, <1>5, <1>6, IsSuffix
<1>8. \A i \in 1..Len(log) : i <= j <=> log[i].at < threshold
  <2> TAKE i \in 1..Len(log)
  <2>0. \A l \in 1..Len(log) : log[l].at \in Nat
    OBVIOUS
  <2>1. CASE i <= k
    <3>1. i <= j /\ i \in 1..k
      BY <1>2, <2>1
    <3> HIDE DEF j
    <3> QED BY <3>1
  <2>2. CASE i > k /\ i <= j
    <3>1. i - k \in 1..o /\ i - k \in 1..Len(s) /\ (i - k) + k = i
      BY <1>1, <1>2, <2>2
    <3>2. s[i - k] = log[i] /\ s[i - k].at < threshold
      BY <1>1, <1>2, <3>1
    <3> QED BY <2>2, <3>2
  <2>3. CASE i > j
    <3>1. o < Len(s) /\ o + 1 \in 1..Len(s) /\ (o + 1) + k = j + 1
      BY <1>1, <1>2, <2>3
    <3>2. s[o + 1] = log[j + 1] /\ s[o + 1].at >= threshold
      BY <1>1, <1>2, <3>1
    <3>3. j + 1 \in DOMAIN log /\ i \in DOMAIN log /\ (j + 1 < i \/ j + 1 = i)
      BY <1>5, <2>3
    <3> HIDE DEF j
    <3>4. log[j + 1].at <= log[i].at
      BY <2>0, <3>3
    <3>5. log[i].at \in Nat /\ log[j + 1].at \in Nat /\ j \in Int
      BY <1>5, <2>0, <3>3
    <3>6. log[j + 1].at >= threshold
      BY <3>2
    <3>7. ~(log[i].at < threshold)
      BY <3>4, <3>5, <3>6
    <3> QED BY <2>3, <3>5, <3>7
  <2> QED BY <1>5, <2>1, <2>2, <2>3
<1> HIDE DEF j
<1> QED BY <1>4, <1>5, <1>7, <1>8 DEF IsWindow, Suffix, t

LEMMA KeptLater ==
  ASSUME NEW S, \A x \in S : x.at \in Nat, NEW log \in Seq(S), NEW s,
         NEW window \in Nat, NEW now \in Nat, NEW later \in Nat, now <= later,
         InOrder(log, now), Kept(s, log, window, now)
  PROVE  InOrder(log, later) /\ Kept(s, log, window, later)
<1>1. \A i \in DOMAIN log : log[i].at \in Nat
  OBVIOUS
<1>2. InOrder(log, later)
  BY <1>1 DEF InOrder
<1>3. ASSUME window > 0 PROVE Kept(s, log, window, later)
  <2>1. PICK k \in 0..Len(log) : /\ s = SubSeq(log, k + 1, Len(log))
                                 /\ \A i \in 1..k : log[i].at < now - window
    BY <1>3 DEF Kept
  <2>2. \A i \in 1..k : log[i].at < later - window
    <3> TAKE i \in 1..k
    <3>1. log[i].at \in Nat /\ log[i].at < now - window
      BY <1>1, <2>1
    <3> QED BY <3>1
  <2> QED BY <2>1, <2>2 DEF Kept
<1> QED BY <1>2, <1>3 DEF Kept

\* Trimming keeps all that is in the window, and nothing else if there is one.
LEMMA KeptTrimmed ==
  ASSUME NEW S, \A x \in S : x.at \in Nat, NEW log \in Seq(S), NEW s \in Seq(S),
         NEW window \in Nat, NEW now \in Nat,
         InOrder(log, now), Kept(s, log, window, now)
  PROVE  /\ Trimmed(s, window, now) \in Seq(S)
         /\ Kept(Trimmed(s, window, now), log, window, now)
         /\ window > 0 => IsWindow(Trimmed(s, window, now), log, now - window)
<1>1. CASE window = 0
  BY <1>1 DEF Trimmed, Kept
<1>2. CASE window > 0
  <2> DEFINE t == DropOlder(s, now - window)
  <2>1. PICK k \in 0..Len(log) : /\ s = SubSeq(log, k + 1, Len(log))
                                 /\ \A i \in 1..k : log[i].at < now - window
    BY <1>2 DEF Kept
  <2>2. now - window \in Int /\ \A i, j \in DOMAIN log : i < j => log[i].at <= log[j].at
    BY DEF InOrder
  <2>3. t \in Seq(S) /\ IsWindow(t, log, now - window)
    BY <2>1, <2>2, DroppedToWindow
  <2>4. Trimmed(s, window, now) = t
    BY <1>2 DEF Trimmed
  <2> HIDE DEF t
  <2>5. Kept(t, log, window, now)
    <3>1. PICK j \in 0..Len(log) : /\ t = SubSeq(log, j + 1, Len(log))
                                   /\ \A i \in 1..Len(log) : i <= j <=> log[i].at < now - window
      BY <2>3 DEF IsWindow
    <3>2. \A i \in 1..j : log[i].at < now - window
      BY <3>1
    <3> QED BY <3>1, <3>2 DEF Kept
  <2> QED BY <2>3, <2>4, <2>5
<1> QED BY <1>1, <1>2

\* A new entry enters the log and what is kept of it.
LEMMA KeptAppended ==
  ASSUME NEW S, \A x \in S : x.at \in Nat, NEW log \in Seq(S), NEW s \in Seq(S),
         NEW window \in Nat, NEW now \in Nat, NEW x \in S, x.at = now,
         InOrder(log, now), Kept(s, log, window, now)
  PROVE  /\ Append(log, x) \in Seq(S) /\ Append(s, x) \in Seq(S)
         /\ InOrder(Append(log, x), now)
         /\ Kept(Append(s, x), Append(log, x), window, now)
<1> DEFINE l == Append(log, x)
           t == Append(s, x)
<1>1. /\ l \in Seq(S) /\ Len(l) = Len(log) + 1 /\ l[Len(log) + 1] = x
      /\ \A i \in 1..Len(log) : l[i] = log[i]
  OBVIOUS
<1>2. /\ t \in Seq(S) /\ Len(t) = Len(s) + 1 /\ t[Len(s) + 1] = x
      /\ \A i \in 1..Len(s) : t[i] = s[i]
  OBVIOUS
<1> HIDE DEF l, t
<1>3. InOrder(l, now)
  <2>1. \A i \in 1..Len(l) : i \in 1..Len(log) \/ i = Len(log) + 1
    BY <1>1
  <2>2. DOMAIN l = 1..Len(l) /\ DOMAIN log = 1..Len(log)
    BY <1>1
  <2>3. \A i \in DOMAIN l : l[i].at <= now
    BY <1>1, <2>1, <2>2 DEF InOrder
  <2>4. \A i, j \in DOMAIN l : i < j => l[i].at <= l[j].at
    <3> SUFFICES ASSUME NEW i \in DOMAIN l, NEW j \in DOMAIN l, i < j PROVE l[i].at <= l[j].at
      OBVIOUS
    <3>1. i \in 1..Len(log)
      BY <1>1, <2>2
    <3>2. CASE j \in 1..Len(log)
      BY <1>1, <2>2, <3>1, <3>2 DEF InOrder
    <3>3. CASE j = Len(log) + 1
      BY <1>1, <2>2, <3>1, <3>3 DEF InOrder
    <3> QED BY <2>1, <2>2, <3>2, <3>3
  <2> QED BY <2>3, <2>4 DEF InOrder
<1>4. ASSUME window > 0 PROVE Kept(t, l, window, now)
  <2>1. PICK k \in 0..Len(log) : s = Suffix(log, k) /\ \A i \in 1..k : log[i].at < now - window
    BY <1>4 DEF Kept, Suffix
  <2>2. /\ Len(s) = Len(log) - k /\ \A i \in 1..Len(s) : s[i] = log[i + k]
    BY <2>1, SuffixIs
  <2>3. k \in 0..Len(l) /\ Len(t) = Len(l) - k
    BY <1>1, <1>2, <2>2
  <2>4. \A i \in 1..Len(t) : t[i] = l[i + k]
    <3> TAKE i \in 1..Len(t)
    <3>1. CASE i \in 1..Len(s)
      <4>1. i + k \in 1..Len(log)
        BY <2>2, <3>1
      <4> QED BY <1>1, <1>2, <2>2, <3>1, <4>1
    <3>2. CASE i = Len(s) + 1
      <4>1. i + k = Len(log) + 1
        BY <2>2, <3>2
      <4> QED BY <1>1, <1>2, <3>2, <4>1
    <3> QED BY <1>2, <3>1, <3>2
  <2>5. t = Suffix(l, k)
    BY <1>1, <1>2, <2>3, <2>4, IsSuffix
  <2>6. \A i \in 1..k : l[i].at < now - window
    <3> TAKE i \in 1..k
    <3>1. i \in 1..Len(log)
      OBVIOUS
    <3> QED BY <1>1, <2>1, <3>1
  <2> QED BY <2>3, <2>5, <2>6 DEF Kept, Suffix
<1>5. Kept(t, l, window, now)
  BY <1>4 DEF Kept
<1> QED BY <1>1, <1>2, <1>3, <1>5 DEF l, t

\* Both at once, as the metrics record a sample
LEMMA KeptRecorded ==
  ASSUME NEW S, \A x \in S : x.at \in Nat, NEW log \in Seq(S), NEW s \in Seq(S),
         NEW window \in Nat, NEW now \in Nat, NEW x \in S, x.at = now,
         InOrder(log, now), Kept(s, log, window, now)
  PROVE  /\ Append(log, x) \in Seq(S) /\ Trimmed(Append(s, x), window, now) \in Seq(S)
         /\ InOrder(Append(log, x), now)
         /\ Kept(Trimmed(Append(s, x), window, now), Append(log, x), window, now)
<1> DEFINE l == Append(log, x)
           t == Append(s, x)
<1>1. l \in Seq(S) /\ t \in Seq(S) /\ InOrder(l, now) /\ Kept(t, l, window, now)
  BY KeptAppended
<1> HIDE DEF l, t
<1>2. Trimmed(t, window, now) \in Seq(S) /\ Kept(Trimmed(t, window, now), l, window, now)
  BY <1>1, KeptTrimmed
<1> QED BY <1>1, <1>2 DEF l, t

------------------------------------------------------------------------------
(* What the metrics hold *)

DepthSample == [at : Nat, depth : Nat]
Level == [host : Int, nic : Int]
LevelSample == [at : Nat, host : Int, nic : Int]
Times == [queue : Nat, service : Nat]
Mark == [at : Nat]

MetricsType ==
  [queue : Seq(DepthSample), latestDepth : Nat, peakDepth : Nat,
   use : Seq(LevelSample), latestUse : Level, tasks : Seq(Times), marks : Seq(Mark),
   queueLog : Seq(DepthSample), useLog : Seq(LevelSample), reorderLog : Seq(Mark)]

\* The inductive invariant of the windows: whatever was dropped so far had left
\* its window, which for marks counts the completed tasks, done.
Sound(m, now, done) ==
  /\ m \in MetricsType
  /\ m.latestDepth <= m.peakDepth
  /\ InOrder(m.queueLog, now) /\ Kept(m.queue, m.queueLog, QueueWindow, now)
  /\ InOrder(m.useLog, now) /\ Kept(m.use, m.useLog, UtilizationWindow, now)
  /\ InOrder(m.reorderLog, done) /\ Kept(m.marks, m.reorderLog, ReorderWindow, done)

SameLatest(n, m) ==
  n.latestDepth = m.latestDepth /\ n.latestUse = m.latestUse /\ n.tasks = m.tasks

LEMMA WindowsAssumed ==
  /\ QueueWindow \in Nat /\ UtilizationWindow \in Nat
  /\ SojournCapacity \in Nat /\ ReorderWindow \in Nat /\ ReorderWindow > 0
BY SchedulerMetricsAssumption DEF SchedulerMetricsAssumption

\* Time passes, and tasks complete.
LEMMA LaterSound ==
  ASSUME NEW m, NEW now \in Nat, NEW done \in Nat, Sound(m, now, done),
         NEW later \in Nat, now <= later, NEW more \in Nat, done <= more
  PROVE  Sound(m, later, more)
<1>1. /\ m \in MetricsType
      /\ m.queueLog \in Seq(DepthSample) /\ m.useLog \in Seq(LevelSample)
      /\ m.reorderLog \in Seq(Mark)
  BY DEF Sound, MetricsType
<1>2. InOrder(m.queueLog, later) /\ Kept(m.queue, m.queueLog, QueueWindow, later)
  BY <1>1, WindowsAssumed, KeptLater DEF Sound, DepthSample
<1>3. InOrder(m.useLog, later) /\ Kept(m.use, m.useLog, UtilizationWindow, later)
  BY <1>1, WindowsAssumed, KeptLater DEF Sound, LevelSample
<1>4. InOrder(m.reorderLog, more) /\ Kept(m.marks, m.reorderLog, ReorderWindow, more)
  BY <1>1, WindowsAssumed, KeptLater DEF Sound, Mark
<1> QED BY <1>1, <1>2, <1>3, <1>4 DEF Sound

LEMMA SnapshottedSound ==
  ASSUME NEW m, NEW now \in Nat, NEW done \in Nat, Sound(m, now, done),
         NEW n, n = Snapshotted(m, now)
  PROVE  /\ Sound(n, now, done) /\ SameLatest(n, m)
         /\ n.queueLog = m.queueLog /\ n.useLog = m.useLog
         /\ QueueWindow > 0 => IsWindow(n.queue, m.queueLog, now - QueueWindow)
         /\ UtilizationWindow > 0 => IsWindow(n.use, m.useLog, now - UtilizationWindow)
<1> DEFINE q == Trimmed(m.queue, QueueWindow, now)
           u == Trimmed(m.use, UtilizationWindow, now)
<1>1. /\ m \in MetricsType
      /\ m.queueLog \in Seq(DepthSample) /\ m.useLog \in Seq(LevelSample)
      /\ m.queue \in Seq(DepthSample) /\ m.use \in Seq(LevelSample)
  BY DEF Sound, MetricsType
<1>2. /\ q \in Seq(DepthSample) /\ Kept(q, m.queueLog, QueueWindow, now)
      /\ QueueWindow > 0 => IsWindow(q, m.queueLog, now - QueueWindow)
  BY <1>1, WindowsAssumed, KeptTrimmed DEF Sound, DepthSample
<1>3. /\ u \in Seq(LevelSample) /\ Kept(u, m.useLog, UtilizationWindow, now)
      /\ UtilizationWindow > 0 => IsWindow(u, m.useLog, now - UtilizationWindow)
  BY <1>1, WindowsAssumed, KeptTrimmed DEF Sound, LevelSample
<1>4. n = [m EXCEPT !.queue = q, !.use = u]
  BY DEF Snapshotted
<1> HIDE DEF q, u
<1>5. /\ n \in MetricsType /\ n.queue = q /\ n.use = u /\ n.queueLog = m.queueLog
      /\ n.useLog = m.useLog /\ n.marks = m.marks /\ n.reorderLog = m.reorderLog
      /\ SameLatest(n, m) /\ n.peakDepth = m.peakDepth
  BY <1>1, <1>2, <1>3, <1>4 DEF MetricsType, SameLatest
<1> QED BY <1>2, <1>3, <1>5 DEF Sound, SameLatest

LEMMA BeforeHookSound ==
  ASSUME NEW m, NEW now \in Nat, NEW done \in Nat, Sound(m, now, done),
         NEW n, n = BeforeHook(m, now)
  PROVE  Sound(n, now, done) /\ SameLatest(n, m)
BY SnapshottedSound DEF BeforeHook, SameLatest

LEMMA WithDepthSound ==
  ASSUME NEW m, NEW now \in Nat, NEW done \in Nat, Sound(m, now, done),
         NEW depth \in Nat, NEW n, n = WithDepth(m, now, depth)
  PROVE  /\ Sound(n, now, done)
         /\ n.latestDepth = depth /\ n.latestUse = m.latestUse /\ n.tasks = m.tasks
<1> DEFINE x == [at |-> now, depth |-> depth]
           log == Append(m.queueLog, x)
           q == Trimmed(Append(m.queue, x), QueueWindow, now)
           peak == IF depth > m.peakDepth THEN depth ELSE m.peakDepth
<1>1. /\ m \in MetricsType /\ m.peakDepth \in Nat
      /\ m.queueLog \in Seq(DepthSample) /\ m.queue \in Seq(DepthSample)
  BY DEF Sound, MetricsType
<1>2. /\ x \in DepthSample /\ x.at = now /\ \A d \in DepthSample : d.at \in Nat
      /\ peak \in Nat /\ depth <= peak
  BY <1>1 DEF DepthSample
<1>3. n = [m EXCEPT !.peakDepth = peak, !.latestDepth = depth, !.queue = q, !.queueLog = log]
  BY DEF WithDepth
<1>4. /\ q \in Seq(DepthSample) /\ log \in Seq(DepthSample)
      /\ InOrder(log, now) /\ Kept(q, log, QueueWindow, now)
  <2> HIDE DEF x
  <2> QED BY <1>1, <1>2, WindowsAssumed, KeptRecorded DEF Sound
<1> HIDE DEF q, log, peak, x
<1>5. /\ n \in MetricsType /\ n.queue = q /\ n.queueLog = log /\ n.use = m.use
      /\ n.useLog = m.useLog /\ n.marks = m.marks /\ n.reorderLog = m.reorderLog
      /\ n.latestDepth = depth /\ n.latestUse = m.latestUse /\ n.tasks = m.tasks
      /\ n.peakDepth = peak
  BY <1>1, <1>2, <1>3, <1>4 DEF MetricsType
<1> QED BY <1>2, <1>4, <1>5 DEF Sound

LEMMA WithUseSound ==
  ASSUME NEW m, NEW now \in Nat, NEW done \in Nat, Sound(m, now, done),
         NEW use \in Level, NEW n, n = WithUse(m, now, use)
  PROVE  /\ Sound(n, now, done)
         /\ n.latestDepth = m.latestDepth /\ n.latestUse = use /\ n.tasks = m.tasks
<1> DEFINE x == UseSample(now, use)
           log == Append(m.useLog, x)
           u == Trimmed(Append(m.use, x), UtilizationWindow, now)
<1>1. m \in MetricsType /\ m.useLog \in Seq(LevelSample) /\ m.use \in Seq(LevelSample)
  BY DEF Sound, MetricsType
<1>2. x \in LevelSample /\ x.at = now /\ \A d \in LevelSample : d.at \in Nat
  BY <1>1 DEF LevelSample, Level, UseSample
<1>3. n = [m EXCEPT !.latestUse = use, !.use = u, !.useLog = log]
  BY DEF WithUse
<1>4. /\ u \in Seq(LevelSample) /\ log \in Seq(LevelSample)
      /\ InOrder(log, now) /\ Kept(u, log, UtilizationWindow, now)
  <2> HIDE DEF x
  <2> QED BY <1>1, <1>2, WindowsAssumed, KeptRecorded DEF Sound
<1> HIDE DEF u, log, x
<1>5. /\ n \in MetricsType /\ n.use = u /\ n.useLog = log /\ n.queue = m.queue
      /\ n.queueLog = m.queueLog /\ n.marks = m.marks /\ n.reorderLog = m.reorderLog
      /\ n.latestDepth = m.latestDepth /\ n.latestUse = use /\ n.tasks = m.tasks
      /\ n.peakDepth = m.peakDepth
  BY <1>1, <1>3, <1>4 DEF MetricsType
<1> QED BY <1>4, <1>5 DEF Sound

\* prune_waiting_reorder_marks drops what left the window of marks.
LEMMA PrunedKept ==
  ASSUME NEW log \in Seq(Mark), NEW s \in Seq(Mark), NEW done \in Nat,
         InOrder(log, done), Kept(s, log, ReorderWindow, done)
  PROVE  Pruned(s, done) \in Seq(Mark) /\ Kept(Pruned(s, done), log, ReorderWindow, done)
<1>1. \A x \in Mark : x.at \in Nat
  BY DEF Mark
<1>2. CASE done <= ReorderWindow
  BY <1>2 DEF Pruned
<1>3. CASE done > ReorderWindow
  <2>1. Pruned(s, done) = Trimmed(s, ReorderWindow, done)
    BY <1>3, WindowsAssumed DEF Pruned, Trimmed
  <2> QED BY <1>1, <2>1, WindowsAssumed, KeptTrimmed
<1> QED BY <1>2, <1>3, WindowsAssumed

LEMMA WithReorderSound ==
  ASSUME NEW m, NEW now \in Nat, NEW done \in Nat, done = Len(completedTasks),
         Sound(m, now, done), NEW before, NEW after, NEW n, n = WithReorder(m, before, after)
  PROVE  Sound(n, now, done) /\ SameLatest(n, m)
<1> DEFINE x == [at |-> done]
           log == Append(m.reorderLog, x)
           appended == Append(m.marks, x)
           s == Pruned(appended, done)
<1>1. CASE n = m
  BY <1>1 DEF SameLatest
<1>2. CASE n = [m EXCEPT !.marks = s, !.reorderLog = log]
  <2>1. m \in MetricsType /\ m.reorderLog \in Seq(Mark) /\ m.marks \in Seq(Mark)
    BY DEF Sound, MetricsType
  <2>2. x \in Mark /\ x.at = done /\ \A d \in Mark : d.at \in Nat
    BY DEF Mark
  <2>3. /\ appended \in Seq(Mark) /\ log \in Seq(Mark)
        /\ InOrder(log, done) /\ Kept(appended, log, ReorderWindow, done)
    <3> HIDE DEF x
    <3> QED BY <2>1, <2>2, WindowsAssumed, KeptAppended DEF Sound
  <2> HIDE DEF appended, log
  <2>4. s \in Seq(Mark) /\ Kept(s, log, ReorderWindow, done)
    BY <2>3, PrunedKept
  <2> HIDE DEF s
  <2>5. /\ n \in MetricsType /\ n.marks = s /\ n.reorderLog = log /\ n.queue = m.queue
        /\ n.queueLog = m.queueLog /\ n.use = m.use /\ n.useLog = m.useLog
        /\ SameLatest(n, m) /\ n.peakDepth = m.peakDepth
    BY <1>2, <2>1, <2>3, <2>4 DEF MetricsType, SameLatest
  <2> QED BY <2>3, <2>4, <2>5 DEF Sound, SameLatest
<1>3. n = m \/ n = [m EXCEPT !.marks = s, !.reorderLog = log]
  BY DEF WithReorder
<1> QED BY <1>1, <1>2, <1>3

\* The times of the last tasks that completed, when order are all of them.
LastTimes(order, timing) ==
  LET n == Len(order)
      count == IF n < SojournCapacity THEN n ELSE SojournCapacity
  IN [i \in 1..count |-> timing[order[n - count + i]]]

\* record_task takes the next one in, and the oldest one out if there is no room.
LEMMA TaskRecorded ==
  ASSUME NEW order \in Seq(Task), NEW timing \in [Task -> Times], NEW t \in Task,
         NEW m, m.tasks = LastTimes(order, timing), m.tasks \in Seq(Times),
         m \in MetricsType, NEW n, n = WithTask(m, timing[t])
  PROVE  /\ n.tasks = LastTimes(Append(order, t), timing)
         /\ n \in MetricsType
         /\ n = [m EXCEPT !.tasks = n.tasks]
<1> DEFINE old == m.tasks
           size == Len(order)
           count == IF size < SojournCapacity THEN size ELSE SojournCapacity
           all == Append(order, t)
           more == IF size + 1 < SojournCapacity THEN size + 1 ELSE SojournCapacity
           new == IF Len(old) = SojournCapacity THEN Append(Tail(old), timing[t])
                  ELSE Append(old, timing[t])
<1>1. /\ size \in Nat /\ SojournCapacity \in Nat /\ count \in Nat /\ more \in Nat
      /\ timing[t] \in Times
  BY WindowsAssumed
<1>2. /\ Len(all) = size + 1 /\ all[size + 1] = t
      /\ \A i \in 1..size : all[i] = order[i]
  OBVIOUS
<1>3. old \in Seq(Times) /\ old = [i \in 1..count |-> timing[order[size - count + i]]]
  BY DEF LastTimes
<1>4. LastTimes(all, timing) = [i \in 1..more |-> timing[all[(size + 1) - more + i]]]
  BY <1>2 DEF LastTimes
<1> HIDE DEF all, old
<1>5. Len(old) = count /\ \A i \in 1..count : old[i] = timing[order[size - count + i]]
  <2>1. DOMAIN old = 1..Len(old) /\ Len(old) \in Nat
    BY <1>3, LenProperties
  <2> HIDE DEF count
  <2> QED BY <1>1, <1>3, <2>1
<1>6. CASE SojournCapacity = 0
  <2>1. n = m /\ count = 0 /\ more = 0
    BY <1>1, <1>6 DEF WithTask
  <2>2. 1..count = {} /\ 1..more = {}
    BY <2>1
  <2>3. n.tasks = LastTimes(all, timing)
    BY <1>3, <1>4, <2>1, <2>2 DEF old
  <2>4. n = [m EXCEPT !.tasks = n.tasks]
    BY <2>1 DEF MetricsType
  <2> QED BY <2>1, <2>3, <2>4 DEF all
<1>7. CASE SojournCapacity > 0
  <2>1. n = [m EXCEPT !.tasks = new]
    BY <1>1, <1>7 DEF WithTask, old
  <2>2. new \in Seq(Times) /\ Len(new) = more
        /\ \A i \in 1..more : new[i] = timing[all[(size + 1) - more + i]]
    <3>1. CASE Len(old) = SojournCapacity
      <4>1. /\ count = SojournCapacity /\ more = SojournCapacity /\ old # <<>>
            /\ size >= count /\ count > 0
        BY <1>1, <1>5, <1>7, <3>1
      <4>2. /\ Tail(old) \in Seq(Times) /\ Len(Tail(old)) = count - 1
            /\ \A i \in 1..count - 1 : Tail(old)[i] = old[i + 1]
        <5> HIDE DEF count
        <5>1. /\ Tail(old) \in Seq(Times) /\ Len(Tail(old)) = Len(old) - 1
              /\ \A i \in 1..Len(old) - 1 : Tail(old)[i] = old[i + 1]
          BY <1>3, <4>1, HeadTailProperties
        <5> QED BY <1>5, <5>1
      <4> DEFINE rest == Tail(old)
      <4>3. new = Append(rest, timing[t])
        BY <3>1
      <4> HIDE DEF rest, new, count, more
      <4>4. /\ new \in Seq(Times) /\ Len(new) = more /\ new[more] = timing[t]
            /\ \A i \in 1..more - 1 : new[i] = old[i + 1]
        BY <1>1, <4>1, <4>2, <4>3 DEF rest
      <4>5. \A i \in 1..more - 1 : new[i] = timing[all[(size + 1) - more + i]]
        <5> TAKE i \in 1..more - 1
        <5>1. /\ i + 1 \in 1..count /\ size - count + (i + 1) = (size + 1) - more + i
              /\ (size + 1) - more + i \in 1..size
          BY <1>1, <4>1
        <5>2. old[i + 1] = timing[order[(size + 1) - more + i]]
          BY <1>5, <5>1
        <5> QED BY <1>2, <4>4, <5>1, <5>2
      <4>6. timing[all[(size + 1) - more + more]] = timing[t]
        BY <1>1, <1>2
      <4> QED BY <1>1, <4>1, <4>4, <4>5, <4>6
    <3>2. CASE Len(old) # SojournCapacity
      <4>1. count = size /\ more = size + 1
        BY <1>1, <1>5, <3>2
      <4>2. new = Append(old, timing[t])
        BY <3>2
      <4> HIDE DEF new, count, more
      <4>3. /\ new \in Seq(Times) /\ Len(new) = more /\ new[more] = timing[t]
            /\ \A i \in 1..size : new[i] = old[i]
        BY <1>1, <1>3, <1>5, <4>1, <4>2
      <4>4. \A i \in 1..size : new[i] = timing[all[(size + 1) - more + i]]
        <5> TAKE i \in 1..size
        <5>1. size - count + i = i /\ (size + 1) - more + i = i
          BY <1>1, <4>1
        <5> QED BY <1>2, <1>5, <4>1, <4>3, <5>1
      <4>5. timing[all[(size + 1) - more + more]] = timing[t]
        BY <1>1, <1>2
      <4> QED BY <1>1, <4>1, <4>3, <4>4, <4>5
    <3> QED BY <3>1, <3>2
  <2> HIDE DEF new, more, count
  <2>3. new = LastTimes(all, timing)
    BY <1>4, <2>2
  <2>4. n \in MetricsType /\ n.tasks = new
    BY <2>1, <2>2 DEF MetricsType
  <2> QED BY <2>1, <2>3, <2>4 DEF all
<1> QED BY <1>1, <1>6, <1>7

\* The end of handle_task_complete, when t was the last task to complete
LEMMA FinalizedSound ==
  ASSUME IInv, NEW t \in Task, NEW now \in Nat, NEW m, m.tasks \in Seq(Times),
         NEW done \in Nat, done = Len(completedTasks), Sound(m, now, done),
         NEW timing \in [Task -> Times], timing[t] = [queue |-> queueTime[t], service |-> serviceTime[t]],
         m.tasks = LastTimes(completedTasks, timing), NEW n, n = Finalized(m, t)
  PROVE  /\ Sound(n, now, done + 1)
         /\ n.tasks = LastTimes(Append(completedTasks, t), timing)
         /\ n.latestDepth = m.latestDepth /\ n.latestUse = m.latestUse
<1>1. completedTasks \in Seq(Task) /\ m \in MetricsType
  BY DEF IInv, TypeOK, Sound
<1> DEFINE k == WithTask(m, timing[t])
           s == Pruned(m.marks, done + 1)
<1>2. /\ k \in MetricsType /\ k = [m EXCEPT !.tasks = k.tasks]
      /\ k.tasks = LastTimes(Append(completedTasks, t), timing)
  BY <1>1, TaskRecorded
<1>3. Sound(m, now, done + 1)
  BY LaterSound
<1>4. s \in Seq(Mark) /\ Kept(s, m.reorderLog, ReorderWindow, done + 1)
  <2>1. m.reorderLog \in Seq(Mark) /\ m.marks \in Seq(Mark)
    BY <1>1 DEF MetricsType
  <2> QED BY <1>3, <2>1, PrunedKept DEF Sound
<1>5. n = [k EXCEPT !.marks = Pruned(k.marks, done + 1)]
  BY DEF Finalized
<1> HIDE DEF k
<1>6. /\ k.marks = m.marks /\ k.queue = m.queue /\ k.queueLog = m.queueLog
      /\ k.use = m.use /\ k.useLog = m.useLog /\ k.reorderLog = m.reorderLog
      /\ k.latestDepth = m.latestDepth /\ k.latestUse = m.latestUse
      /\ k.peakDepth = m.peakDepth
  BY <1>1, <1>2 DEF MetricsType
<1>7. n = [k EXCEPT !.marks = s]
  BY <1>5, <1>6
<1> HIDE DEF s
<1>8. /\ n \in MetricsType /\ n.marks = s /\ n.queue = m.queue /\ n.queueLog = m.queueLog
      /\ n.use = m.use /\ n.useLog = m.useLog /\ n.reorderLog = m.reorderLog
      /\ n.tasks = k.tasks /\ n.latestDepth = m.latestDepth /\ n.latestUse = m.latestUse
      /\ n.peakDepth = m.peakDepth
  BY <1>2, <1>4, <1>6, <1>7 DEF MetricsType
<1> QED BY <1>2, <1>3, <1>4, <1>8 DEF Sound

------------------------------------------------------------------------------
(* The inductive invariant of the windows *)

TimingOf == [t \in Task |-> [queue |-> queueTime[t], service |-> serviceTime[t]]]

MetricsInv ==
  /\ IInv
  /\ policy \in PolicyIds
  /\ Sound(metrics, currentTime, Len(completedTasks))
  /\ metrics.tasks = LastTimes(completedTasks, TimingOf)
  /\ LatestSamplesExact
  /\ UsageExact

\* A hook is called for a queue of known length, and leaves it so.
LEMMA HookKeepsLength ==
  ASSUME NEW queue \in Seq(Task), IsInjective(queue), NEW h, HookResult(h, Range(queue))
  PROVE  Len(h.queue) = Len(queue)
<1>1. /\ h.queue \in Seq(Task) /\ IsInjective(h.queue) /\ Range(h.queue) = Range(queue)
  BY DEF HookResult
<1>2. \A s \in Seq(Task) : IsInjective(s) => Cardinality(Range(s)) = Len(s)
  <2> SUFFICES ASSUME NEW s \in Seq(Task), IsInjective(s) PROVE Cardinality(Range(s)) = Len(s)
    OBVIOUS
  <2>1. s \in Bijection(1..Len(s), Range(s))
    <3>1. s \in [1..Len(s) -> Range(s)] /\ DOMAIN s = 1..Len(s)
      BY DEF Range
    <3>2. s \in Surjection(1..Len(s), Range(s))
      BY <3>1 DEF Surjection, Range
    <3>3. s \in Injection(1..Len(s), Range(s))
      BY <3>1 DEF Injection, IsInjective
    <3> QED BY <3>2, <3>3 DEF Bijection
  <2>2. ExistsBijection(1..Len(s), Range(s))
    BY <2>1 DEF ExistsBijection
  <2>3. Len(s) \in Nat
    OBVIOUS
  <2> QED BY <2>2, <2>3, FS_CountingElements
<1> QED BY <1>1, <1>2

\* The time of an event is not in the past.
LEMMA PoppedLater ==
  ASSUME IInv, NEW e \in eventQueue, NEW type, Pop(e, type)
  PROVE  e.timestamp \in Nat /\ currentTime \in Nat /\ currentTime <= e.timestamp
         /\ currentTime' = e.timestamp
BY DEF IInv, TypeOK, NoEventInThePast, Pop, Events

\* The times of a task that is not finished are not in the window.
LEMMA TimesKept ==
  ASSUME IInv, TypeOK', NEW t \in Task, ~Finished(t),
         completedTasks' = completedTasks,
         \A u \in Task \ {t} : queueTime'[u] = queueTime[u] /\ serviceTime'[u] = serviceTime[u]
  PROVE  LastTimes(completedTasks, TimingOf)' = LastTimes(completedTasks, TimingOf)
<1> DEFINE n == Len(completedTasks)
           count == IF n < SojournCapacity THEN n ELSE SojournCapacity
<1>1. /\ completedTasks \in Seq(Task) /\ n \in Nat /\ count \in Nat /\ count <= n
      /\ \A u \in Range(completedTasks) : Finished(u)
  <2>1. completedTasks \in Seq(Task) /\ \A u \in Range(completedTasks) : Finished(u)
    BY DEF IInv, TypeOK, CompletedOnce
  <2>2. n \in Nat
    BY <2>1
  <2> QED BY <2>1, <2>2, WindowsAssumed
<1>2. \A u \in Range(completedTasks) : u \in Task /\ u # t
  BY <1>1 DEF Range
<1>3. \A u \in Range(completedTasks) : TimingOf'[u] = TimingOf[u]
  BY <1>2 DEF TimingOf
<1>4. \A i \in 1..count : completedTasks[n - count + i] \in Range(completedTasks)
  <2> TAKE i \in 1..count
  <2>1. n - count + i \in 1..n
    BY <1>1
  <2> QED BY <1>1, <2>1 DEF Range
<1>5. LastTimes(completedTasks, TimingOf)
        = [i \in 1..count |-> TimingOf[completedTasks[n - count + i]]]
  BY DEF LastTimes
<1>6. LastTimes(completedTasks, TimingOf)'
        = [i \in 1..count |-> TimingOf'[completedTasks[n - count + i]]]
  BY DEF LastTimes
<1> HIDE DEF n, count
<1>7. \A i \in 1..count : TimingOf'[completedTasks[n - count + i]]
                            = TimingOf[completedTasks[n - count + i]]
  BY <1>3, <1>4
<1> QED BY <1>5, <1>6, <1>7

\* A stage that starts changes the times of its task only.
LEMMA TimesStarted ==
  ASSUME IInv, IInv', NEW t \in Task, ~Finished(t), NEW pending, NEW now, NEW ready,
         completedTasks' = completedTasks, StartTask(t, pending, now, ready)
  PROVE  LastTimes(completedTasks, TimingOf)' = LastTimes(completedTasks, TimingOf)
<1>1. \A u \in Task \ {t} : queueTime'[u] = queueTime[u] /\ serviceTime'[u] = serviceTime[u]
  BY DEF StartTask, IInv, TypeOK
<1> QED BY <1>1, TimesKept DEF IInv

LEMMA AdjustedTyped ==
  ASSUME TypeOK, usage \in Level, NEW t \in Task, ~Finished(t), NEW sign \in {1, -1}
  PROVE  Adjusted(t, sign) \in Level
<1>1. HostCpu \in SUBSET Resource /\ NicCpu \in SUBSET Resource
  BY SchedulerMetricsAssumption DEF SchedulerMetricsAssumption
<1>2. \A r \in Resource : Capacity[r] \in Nat
  BY SchedulerAssumption DEF SchedulerAssumption
<1>3. /\ DemandOn(t, HostCpu) \in Nat /\ DemandOn(t, NicCpu) \in Nat
      /\ IsFiniteSet(HostCpu) /\ IsFiniteSet(NicCpu)
  BY <1>1, DemandTyped
<1>4. DomainCapacity(HostCpu) \in Nat /\ DomainCapacity(NicCpu) \in Nat
  BY <1>1, <1>2, <1>3, SumNat DEF DomainCapacity
<1>5. \A x \in Int, high \in Nat : Clamp(x, 0, high) \in Int
  BY DEF Clamp
<1>6. usage.host \in Int /\ usage.nic \in Int
  BY DEF Level
<1>7. usage.host + sign * DemandOn(t, HostCpu) \in Int
      /\ usage.nic + sign * DemandOn(t, NicCpu) \in Int
  BY <1>3, <1>6
<1> QED BY <1>4, <1>5, <1>7 DEF Adjusted, Level

LEMMA UsageTyped ==
  ASSUME MetricsInv
  PROVE  metrics \in MetricsType /\ usage \in Level /\ metrics.tasks \in Seq(Times)
BY DEF MetricsInv, Sound, MetricsType, LatestSamplesExact

\* handle_task_ready keeps the invariant when the task starts ...
LEMMA ReadyStartsMetrics ==
  ASSUME MetricsInv, IInv', NEW e \in eventQueue, TakeReady(e),
         NEW m, m = BeforeHook(metrics, e.timestamp), policy' = policy,
         NEW h, HookResult(h, waitingSet), ReadyStarts(e, h),
         usage' = Adjusted(e.id, 1),
         metrics' = WithUse(WithReorder(m, waitingQueue, h.queue), e.timestamp, usage')
  PROVE  MetricsInv'
<1> DEFINE t == e.id
           now == e.timestamp
           done == Len(completedTasks)
           first == WithReorder(m, waitingQueue, h.queue)
<1>1. /\ now \in Nat /\ currentTime \in Nat /\ currentTime <= now /\ currentTime' = now
      /\ done \in Nat /\ t \in Task /\ ~Finished(t) /\ completedTasks' = completedTasks
      /\ UNCHANGED stageIndex
  <2>1. IInv /\ completedTasks \in Seq(Task)
    BY DEF MetricsInv, IInv, TypeOK
  <2>2. /\ Pop(e, "ready") /\ t \in Task /\ ~Finished(t) /\ completedTasks' = completedTasks
        /\ UNCHANGED stageIndex
    BY <2>1, ReadyTaken
  <2> QED BY <2>1, <2>2, PoppedLater
<1>2. usage' \in Level
  BY <1>1, AdjustedTyped, UsageTyped DEF MetricsInv, IInv
<1>3. Sound(m, now, done) /\ SameLatest(m, metrics)
  <2>1. Sound(metrics, now, done)
    BY <1>1, LaterSound DEF MetricsInv
  <2> QED BY <1>1, <2>1, BeforeHookSound
<1>4. Sound(first, now, done) /\ SameLatest(first, m)
  BY <1>1, <1>3, WithReorderSound
<1> HIDE DEF first
<1>5. /\ Sound(metrics', now, done) /\ metrics'.latestDepth = first.latestDepth
      /\ metrics'.latestUse = usage' /\ metrics'.tasks = first.tasks
  BY <1>1, <1>2, <1>4, WithUseSound DEF first
<1>6. Len(waitingQueue') = Len(waitingQueue)
  <2>1. /\ waitingQueue \in Seq(Task) /\ IsInjective(waitingQueue)
        /\ Range(waitingQueue) = waitingSet
    BY DEF MetricsInv, IInv, TypeOK, WaitingConsistent
  <2> QED BY <2>1, HookKeepsLength DEF ReadyStarts
<1>7. LatestSamplesExact'
  BY <1>3, <1>4, <1>5, <1>6 DEF LatestSamplesExact, SameLatest, MetricsInv
<1>8. (metrics.tasks = LastTimes(completedTasks, TimingOf))'
  <2>1. StartTask(t, eventQueue \ {e}, now, now)
    BY DEF ReadyStarts
  <2>2. LastTimes(completedTasks, TimingOf)' = LastTimes(completedTasks, TimingOf)
    BY <1>1, <2>1, TimesStarted DEF MetricsInv
  <2> QED BY <1>3, <1>4, <1>5, <2>2 DEF SameLatest, MetricsInv
<1>9. UsageExact'
  <2>1. \A r \in Resource : inUse'[r] = inUse[r] + 1 * Stage(t).demand[r]
    <3>1. \A r \in Resource : Stage(t).demand[r] \in Nat
      BY <1>1, StageTyped DEF MetricsInv, IInv
    <3>2. inUse' = [r \in Resource |-> inUse[r] + Stage(t).demand[r]]
      BY DEF ReadyStarts, StartTask
    <3> HIDE DEF t
    <3> QED BY <3>1, <3>2
  <2> QED BY <1>1, <2>1, UsageAdjusted DEF MetricsInv
<1> QED BY <1>1, <1>5, <1>7, <1>8, <1>9 DEF MetricsInv

\* ... and when it has to wait.
LEMMA ReadyWaitsMetrics ==
  ASSUME MetricsInv, IInv', NEW e \in eventQueue, TakeReady(e),
         NEW m, m = BeforeHook(metrics, e.timestamp), policy' = policy,
         NEW h, HookResult(h, waitingSet), NEW queue, queue = Append(h.queue, e.id),
         NEW queued,
         queued = WithDepth(WithReorder(m, waitingQueue, h.queue), e.timestamp, ReadyDepth(h)),
         NEW g, HookResult(g, Enlisted(e.id)), ReadyWaits(e, h, g),
         metrics' = WithReorder(queued, queue, g.queue), usage' = usage
  PROVE  MetricsInv'
<1> DEFINE t == e.id
           now == e.timestamp
           done == Len(completedTasks)
           first == WithReorder(m, waitingQueue, h.queue)
<1>1. /\ now \in Nat /\ currentTime \in Nat /\ currentTime <= now /\ currentTime' = now
      /\ done \in Nat /\ t \in Task /\ t \notin waitingSet /\ ~Finished(t)
      /\ completedTasks' = completedTasks
  <2>1. IInv /\ completedTasks \in Seq(Task)
    BY DEF MetricsInv, IInv, TypeOK
  <2>2. /\ Pop(e, "ready") /\ t \in Task /\ t \notin waitingSet /\ ~Finished(t)
        /\ completedTasks' = completedTasks
    BY <2>1, ReadyTaken
  <2> QED BY <2>1, <2>2, PoppedLater
<1>2. /\ h.queue \in Seq(Task) /\ ReadyDepth(h) \in Nat
      /\ queue \in Seq(Task) /\ IsInjective(queue) /\ Range(queue) = Enlisted(t)
      /\ Len(queue) = ReadyDepth(h)
  <2>1. /\ h.queue \in Seq(Task) /\ IsInjective(h.queue) /\ Range(h.queue) = waitingSet
    BY DEF HookResult
  <2>2. queue \in Seq(Task) /\ IsInjective(queue) /\ Range(queue) = waitingSet \cup {t}
    BY <1>1, <2>1, AppendFresh
  <2>3. ReadyDepth(h) \in Nat /\ Len(queue) = ReadyDepth(h)
    BY <1>1, <2>1 DEF ReadyDepth
  <2> QED BY <2>1, <2>2, <2>3 DEF Enlisted
<1>3. Sound(m, now, done) /\ SameLatest(m, metrics)
  <2>1. Sound(metrics, now, done)
    BY <1>1, LaterSound DEF MetricsInv
  <2> QED BY <1>1, <2>1, BeforeHookSound
<1>4. Sound(first, now, done) /\ SameLatest(first, m)
  BY <1>1, <1>3, WithReorderSound
<1> HIDE DEF first
<1>5. /\ Sound(queued, now, done) /\ queued.latestDepth = ReadyDepth(h)
      /\ queued.latestUse = first.latestUse /\ queued.tasks = first.tasks
  <2> DEFINE depth == ReadyDepth(h)
  <2>1. queued = WithDepth(first, now, depth)
    BY DEF first
  <2>2. now \in Nat /\ done \in Nat /\ depth \in Nat /\ Sound(first, now, done)
    BY <1>1, <1>2, <1>4
  <2> HIDE DEF now, done, depth
  <2>3. /\ Sound(queued, now, done) /\ queued.latestDepth = depth
        /\ queued.latestUse = first.latestUse /\ queued.tasks = first.tasks
    BY <2>1, <2>2, WithDepthSound
  <2> QED BY <2>3 DEF depth
<1>6. Sound(metrics', now, done) /\ SameLatest(metrics', queued)
  BY <1>1, <1>5, WithReorderSound
<1>7. Len(waitingQueue') = ReadyDepth(h)
  <2>1. HookResult(g, Range(queue))
    BY <1>2
  <2> QED BY <1>2, <2>1, HookKeepsLength DEF ReadyWaits
<1>8. LatestSamplesExact'
  BY <1>3, <1>4, <1>5, <1>6, <1>7 DEF LatestSamplesExact, SameLatest, MetricsInv
<1>9. (metrics.tasks = LastTimes(completedTasks, TimingOf))'
  <2>1. queueTime' = queueTime /\ serviceTime' = serviceTime
    BY DEF ReadyWaits, runtimeVars
  <2>2. LastTimes(completedTasks, TimingOf)' = LastTimes(completedTasks, TimingOf)
    BY <1>1, <2>1, TimesKept DEF MetricsInv, IInv
  <2> QED BY <1>3, <1>4, <1>5, <1>6, <2>2 DEF SameLatest, MetricsInv
<1>10. UsageExact'
  BY DEF ReadyWaits, runtimeVars, MetricsInv, UsageExact
<1> QED BY <1>1, <1>6, <1>8, <1>9, <1>10 DEF MetricsInv

\* handle_task_complete keeps it up to its drain ...
LEMMA CompleteMetrics ==
  ASSUME MetricsInv, IInv', NEW e \in eventQueue, ObserveComplete(e)
  PROVE  MetricsInv'
<1> DEFINE t == e.id
           now == e.timestamp
           done == Len(completedTasks)
           sampled == WithUse(metrics, now, Adjusted(t, -1))
<1>1. /\ now \in Nat /\ currentTime \in Nat /\ currentTime <= now /\ currentTime' = now
      /\ done \in Nat /\ completedTasks \in Seq(Task) /\ t \in Task /\ ~Finished(t)
  <2>1. IInv /\ completedTasks \in Seq(Task)
    BY DEF MetricsInv, IInv, TypeOK
  <2>2. Pop(e, "complete")
    BY DEF ObserveComplete, HandleTaskComplete
  <2>3. t \in Task /\ ~Finished(t)
    BY <2>1, <2>2, EventOwner DEF Pop, IInv
  <2> QED BY <2>1, <2>2, <2>3, PoppedLater
<1>2. /\ usage' = Adjusted(t, -1) /\ policy' = policy /\ usage' \in Level
      /\ inUse' = Released(t) /\ queueTime' = queueTime /\ serviceTime' = serviceTime
      /\ waitingQueue' = waitingQueue
      /\ metrics' = IF HasNextStage(t) THEN sampled ELSE Finalized(sampled, t)
      /\ completedTasks' = IF HasNextStage(t) THEN completedTasks ELSE Append(completedTasks, t)
  <2>1. Adjusted(t, -1) \in Level
    BY <1>1, AdjustedTyped, UsageTyped DEF MetricsInv, IInv
  <2> QED BY <2>1 DEF ObserveComplete, HandleTaskComplete
<1>3. Sound(metrics, now, done)
  BY <1>1, LaterSound DEF MetricsInv
<1>4. /\ Sound(sampled, now, done) /\ sampled.latestDepth = metrics.latestDepth
      /\ sampled.latestUse = usage' /\ sampled.tasks = metrics.tasks
  <2>1. sampled = WithUse(metrics, now, usage')
    BY <1>2
  <2>2. now \in Nat /\ done \in Nat /\ usage' \in Level /\ Sound(metrics, now, done)
    BY <1>1, <1>2, <1>3
  <2> HIDE DEF sampled, now, done
  <2> QED BY <2>1, <2>2, WithUseSound
<1> HIDE DEF sampled
<1>5. UsageExact'
  <2>1. \A r \in Resource : inUse'[r] = inUse[r] + (-1) * Stage(t).demand[r]
    <3>1. \A r \in Resource : Stage(t).demand[r] \in Nat /\ inUse[r] \in Nat
      BY <1>1, StageTyped DEF MetricsInv, IInv, TypeOK
    <3>2. inUse' = [r \in Resource |-> inUse[r] - Stage(t).demand[r]]
      BY <1>2 DEF Released
    <3> HIDE DEF t
    <3> QED BY <3>1, <3>2
  <2> QED BY <1>1, <1>2, <2>1, UsageAdjusted DEF MetricsInv
<1>6. TimingOf' = TimingOf /\ TimingOf \in [Task -> Times]
      /\ TimingOf[t] = [queue |-> queueTime[t], service |-> serviceTime[t]]
  BY <1>1, <1>2 DEF TimingOf, Times, MetricsInv, IInv, TypeOK
<1>7. metrics.tasks = LastTimes(completedTasks, TimingOf) /\ metrics.tasks \in Seq(Times)
  BY UsageTyped DEF MetricsInv
<1>8. LastTimes(completedTasks, TimingOf)' = LastTimes(completedTasks', TimingOf)
  BY <1>6
<1>9. CASE HasNextStage(t)
  <2>1. metrics' = sampled /\ completedTasks' = completedTasks
    BY <1>2, <1>9
  <2>2. LatestSamplesExact'
    BY <1>2, <1>4, <2>1 DEF LatestSamplesExact, MetricsInv
  <2> QED BY <1>1, <1>2, <1>4, <1>5, <1>7, <1>8, <2>1, <2>2 DEF MetricsInv
<1>10. CASE ~HasNextStage(t)
  <2>1. metrics' = Finalized(sampled, t) /\ completedTasks' = Append(completedTasks, t)
    BY <1>2, <1>10
  <2>2. IInv /\ sampled.tasks \in Seq(Times)
    BY <1>4, <1>7 DEF MetricsInv
  <2>3. /\ Sound(metrics', now, done + 1)
        /\ metrics'.tasks = LastTimes(Append(completedTasks, t), TimingOf)
        /\ metrics'.latestDepth = sampled.latestDepth /\ metrics'.latestUse = sampled.latestUse
    BY <1>1, <1>4, <1>6, <1>7, <2>1, <2>2, FinalizedSound
  <2>4. Len(completedTasks') = done + 1
    BY <1>1, <2>1
  <2>5. LatestSamplesExact'
    BY <1>2, <1>4, <2>3 DEF LatestSamplesExact, MetricsInv
  <2>6. (metrics.tasks = LastTimes(completedTasks, TimingOf))'
    BY <1>8, <2>1, <2>3
  <2> QED BY <1>1, <1>2, <1>5, <2>3, <2>4, <2>5, <2>6 DEF MetricsInv
<1> QED BY <1>9, <1>10

\* ... and an iteration of the drain does.
LEMMA DrainMetrics ==
  ASSUME MetricsInv, IInv', ObserveDrain
  PROVE  MetricsInv'
<1> DEFINE now == currentTime
           done == Len(completedTasks)
           m == BeforeHook(metrics, now)
<1>1. /\ now \in Nat /\ currentTime' = now /\ policy' = policy
      /\ done \in Nat /\ completedTasks' = completedTasks /\ UNCHANGED stageIndex
  BY DEF MetricsInv, IInv, TypeOK, ObserveDrain, GoOnDraining
<1>2. PICK h \in Hook(m, waitingQueue, waitingSet, admissionLimit) :
        LET t == Head(h.queue)
            started == CanStart(t, h.limit)
            sampled == DrainSamples(WithReorder(m, waitingQueue, h.queue), h, started)
        IN /\ TryFront(h)
           /\ usage' = IF started THEN Adjusted(t, 1) ELSE usage
           /\ metrics' = IF started THEN WithUse(sampled, currentTime, usage')
                         ELSE sampled
  BY DEF ObserveDrain, DrainHook
<1> DEFINE t == Head(h.queue)
           first == WithReorder(m, waitingQueue, h.queue)
           popped == WithDepth(first, now, Len(h.queue) - 1)
<1>3. HookResult(h, waitingSet) /\ h.queue # <<>> /\ Len(h.queue) = Len(waitingQueue)
  <2>1. /\ waitingQueue \in Seq(Task) /\ IsInjective(waitingQueue)
        /\ waitingSet \in SUBSET Task /\ Range(waitingQueue) = waitingSet
        /\ admissionLimit \in Nat \cup {NoLimit} /\ TypeOK /\ policy \in PolicyIds
    BY DEF MetricsInv, IInv, TypeOK, WaitingConsistent
  <2>2. waitingQueue # <<>>
    BY DEF ObserveDrain, MetricsInv, IInv, DrainHasWork
  <2>3. HookResult(h, waitingSet) /\ h.queue # <<>>
    <3> HIDE DEF m
    <3> QED BY <1>2, <2>1, <2>2, PolicyKeepsQueue
  <2> QED BY <2>1, <2>3, HookKeepsLength
<1>4. /\ h.queue \in Seq(Task) /\ Len(h.queue) \in Nat /\ Len(h.queue) - 1 \in Nat
      /\ Tail(h.queue) \in Seq(Task) /\ Len(Tail(h.queue)) = Len(h.queue) - 1
      /\ t \in Task /\ ~Finished(t)
  <2>1. /\ h.queue \in Seq(Task) /\ IsInjective(h.queue) /\ Range(h.queue) = waitingSet
    BY <1>3 DEF HookResult
  <2>2. t \in waitingSet /\ t \in Task
    BY <1>3, <2>1, HeadTail
  <2>3. ~Finished(t)
    BY <2>2 DEF MetricsInv, IInv, OnePlace, InFlight
  <2>4. Len(h.queue) \in Nat /\ Len(h.queue) - 1 \in Nat
        /\ Tail(h.queue) \in Seq(Task) /\ Len(Tail(h.queue)) = Len(h.queue) - 1
    BY <1>3, <2>1
  <2> QED BY <2>1, <2>2, <2>3, <2>4
<1>5. Sound(m, now, done) /\ SameLatest(m, metrics)
  BY <1>1, BeforeHookSound DEF MetricsInv
<1>6. /\ TryFront(h)
      /\ CanStart(t, h.limit) => /\ usage' = Adjusted(t, 1)
                                 /\ metrics' = WithUse(popped, now, usage')
      /\ ~CanStart(t, h.limit) => /\ usage' = usage
                                  /\ metrics' = WithDepth(popped, now, Len(h.queue))
  BY <1>2 DEF DrainSamples
<1> HIDE DEF m
<1>7. Sound(first, now, done) /\ SameLatest(first, m)
  BY <1>1, <1>5, WithReorderSound
<1> HIDE DEF first
<1>8. /\ Sound(popped, now, done) /\ popped.latestDepth = Len(h.queue) - 1
      /\ popped.latestUse = usage /\ popped.tasks = metrics.tasks
  <2>1. /\ Sound(popped, now, done) /\ popped.latestDepth = Len(h.queue) - 1
        /\ popped.latestUse = first.latestUse /\ popped.tasks = first.tasks
    <3> DEFINE depth == Len(h.queue) - 1
    <3>1. popped = WithDepth(first, now, depth) /\ depth \in Nat
      BY <1>4
    <3> HIDE DEF depth, popped
    <3>2. Sound(popped, now, done) /\ popped.latestDepth = depth
          /\ popped.latestUse = first.latestUse /\ popped.tasks = first.tasks
      BY <1>1, <1>7, <3>1, WithDepthSound
    <3> QED BY <3>2 DEF depth
  <2> QED BY <1>5, <1>7, <2>1 DEF SameLatest, MetricsInv, LatestSamplesExact
<1> HIDE DEF popped
<1>9. CASE CanStart(t, h.limit)
  <2>1. waitingQueue' = Tail(h.queue) /\ StartTask(t, eventQueue, now, readyTime[t])
    BY <1>6, <1>9 DEF TryFront
  <2>2. usage' \in Level
    BY <1>4, <1>6, <1>9, AdjustedTyped, UsageTyped DEF MetricsInv, IInv
  <2>3. /\ Sound(metrics', now, done) /\ metrics'.latestDepth = Len(h.queue) - 1
        /\ metrics'.latestUse = usage' /\ metrics'.tasks = metrics.tasks
    BY <1>1, <1>6, <1>8, <1>9, <2>2, WithUseSound
  <2>4. LatestSamplesExact'
    BY <1>4, <2>1, <2>3 DEF LatestSamplesExact
  <2>5. (metrics.tasks = LastTimes(completedTasks, TimingOf))'
    <3>1. LastTimes(completedTasks, TimingOf)' = LastTimes(completedTasks, TimingOf)
      BY <1>1, <1>4, <2>1, TimesStarted DEF MetricsInv
    <3> QED BY <2>3, <3>1 DEF MetricsInv
  <2>6. UsageExact'
    <3>1. \A r \in Resource : inUse'[r] = inUse[r] + 1 * Stage(t).demand[r]
      <4>1. \A r \in Resource : Stage(t).demand[r] \in Nat
        BY <1>4, StageTyped DEF MetricsInv, IInv
      <4>2. inUse' = [r \in Resource |-> inUse[r] + Stage(t).demand[r]]
        BY <2>1 DEF StartTask
      <4> HIDE DEF t
      <4> QED BY <4>1, <4>2
    <3> HIDE DEF t
    <3> QED BY <1>4, <1>6, <1>9, <3>1, UsageAdjusted DEF MetricsInv
  <2> QED BY <1>1, <2>3, <2>4, <2>5, <2>6 DEF MetricsInv
<1>10. CASE ~CanStart(t, h.limit)
  <2>1. waitingQueue' = Append(Tail(h.queue), t) /\ UNCHANGED runtimeVars
    BY <1>6, <1>10 DEF TryFront
  <2>2. /\ Sound(metrics', now, done) /\ metrics'.latestDepth = Len(h.queue)
        /\ metrics'.latestUse = usage /\ metrics'.tasks = metrics.tasks
    <3> DEFINE depth == Len(h.queue)
    <3>1. metrics' = WithDepth(popped, now, depth) /\ depth \in Nat
      BY <1>4, <1>6, <1>10
    <3> HIDE DEF depth
    <3>2. Sound(metrics', now, done) /\ metrics'.latestDepth = depth
          /\ metrics'.latestUse = popped.latestUse /\ metrics'.tasks = popped.tasks
      BY <1>1, <1>8, <3>1, WithDepthSound
    <3> QED BY <1>8, <3>2 DEF depth
  <2>3. Len(waitingQueue') = Len(h.queue)
    <3> HIDE DEF t
    <3> QED BY <1>4, <2>1
  <2>4. LatestSamplesExact'
    BY <1>6, <1>10, <2>2, <2>3 DEF LatestSamplesExact
  <2>5. (metrics.tasks = LastTimes(completedTasks, TimingOf))'
    <3>1. LastTimes(completedTasks, TimingOf)' = LastTimes(completedTasks, TimingOf)
      BY <1>1, <2>1 DEF LastTimes, TimingOf, runtimeVars
    <3> QED BY <2>2, <3>1 DEF MetricsInv
  <2>6. UsageExact'
    BY <1>6, <1>10, <2>1 DEF MetricsInv, UsageExact, runtimeVars
  <2> QED BY <1>1, <2>2, <2>4, <2>5, <2>6 DEF MetricsInv
<1> QED BY <1>9, <1>10

LEMMA InitMetrics == ObserveInit => MetricsInv
<1> SUFFICES ASSUME ObserveInit PROVE MetricsInv
  OBVIOUS
<1> DEFINE x == [at |-> 0, depth |-> 0]
           u == UseSample(0, usage)
<1>1. IInv /\ policy \in PolicyIds /\ completedTasks = <<>> /\ currentTime = 0
  BY InitIInv DEF ObserveInit, Init
<1>2. usage = [host |-> 0, nic |-> 0] /\ usage \in Level
  BY DEF ObserveInit, Level
<1>3. x \in DepthSample /\ x.at = 0 /\ u \in LevelSample /\ u.at = 0
  BY <1>2 DEF DepthSample, LevelSample, UseSample
<1>4. metrics = [queue |-> <<x>>, latestDepth |-> 0, peakDepth |-> 0,
                 use |-> <<u>>, latestUse |-> usage, tasks |-> <<>>, marks |-> <<>>,
                 queueLog |-> <<x>>, useLog |-> <<u>>, reorderLog |-> <<>>]
  BY DEF ObserveInit
<1> HIDE DEF x, u
<1>5. /\ <<x>> \in Seq(DepthSample) /\ Len(<<x>>) = 1 /\ <<x>>[1] = x
      /\ <<u>> \in Seq(LevelSample) /\ Len(<<u>>) = 1 /\ <<u>>[1] = u
      /\ <<>> \in Seq(Mark) /\ <<>> \in Seq(Times)
  BY <1>3
<1>6. metrics \in MetricsType
  BY <1>2, <1>4, <1>5 DEF MetricsType
<1>7. \A s, window : s = SubSeq(s, 1, Len(s)) /\ Len(s) \in Nat => Kept(s, s, window, 0)
  BY DEF Kept
<1>8. \A S : \A s \in Seq(S) : s = SubSeq(s, 1, Len(s)) /\ Len(s) \in Nat
  <2> SUFFICES ASSUME NEW S, NEW s \in Seq(S) PROVE s = SubSeq(s, 1, Len(s)) /\ Len(s) \in Nat
    OBVIOUS
  <2>1. s = Suffix(s, 0)
    BY IsSuffix
  <2> QED BY <2>1 DEF Suffix
<1>9. Sound(metrics, 0, 0)
  <2>1. InOrder(<<x>>, 0) /\ InOrder(<<u>>, 0) /\ InOrder(<<>>, 0)
    BY <1>3, <1>5 DEF InOrder
  <2>2. Kept(<<x>>, <<x>>, QueueWindow, 0)
    BY <1>5, <1>7, <1>8
  <2>3. Kept(<<u>>, <<u>>, UtilizationWindow, 0)
    BY <1>5, <1>7, <1>8
  <2>4. Kept(<<>>, <<>>, ReorderWindow, 0)
    BY <1>5, <1>7, <1>8
  <2> QED BY <1>4, <1>6, <2>1, <2>2, <2>3, <2>4 DEF Sound
<1>10. Len(completedTasks) = 0 /\ metrics.tasks = LastTimes(completedTasks, TimingOf)
  <2>1. Len(completedTasks) = 0
    BY <1>1
  <2>2. LastTimes(completedTasks, TimingOf) = <<>>
    BY <2>1, WindowsAssumed DEF LastTimes
  <2> QED BY <1>4, <2>1, <2>2
<1>11. LatestSamplesExact
  BY <1>4 DEF LatestSamplesExact, ObserveInit, Init
<1>12. UsageExact
  <2>1. \A cores \in SUBSET Resource : SumFunctionOnSet(inUse, cores) = 0
    <3> SUFFICES ASSUME NEW cores \in SUBSET Resource PROVE SumFunctionOnSet(inUse, cores) = 0
      OBVIOUS
    <3>1. IsFiniteSet(cores) /\ \A r \in cores : inUse[r] = 0
      BY SchedulerMetricsAssumption, FS_Subset DEF SchedulerMetricsAssumption, ObserveInit, Init
    <3> QED BY <3>1, SumOfZeros
  <2>2. HostCpu \in SUBSET Resource /\ NicCpu \in SUBSET Resource
    BY SchedulerMetricsAssumption DEF SchedulerMetricsAssumption
  <2> QED BY <1>2, <2>1, <2>2 DEF UsageExact
<1> QED BY <1>1, <1>9, <1>10, <1>11, <1>12 DEF MetricsInv

LEMMA ReadyMetrics ==
  ASSUME MetricsInv, IInv', NEW e \in eventQueue, ObserveReady(e)
  PROVE  MetricsInv'
<1> DEFINE m == BeforeHook(metrics, e.timestamp)
<1>1. /\ waitingQueue \in Seq(Task) /\ IsInjective(waitingQueue)
      /\ waitingSet \in SUBSET Task /\ Range(waitingQueue) = waitingSet
      /\ admissionLimit \in Nat \cup {NoLimit} /\ IInv /\ TypeOK /\ policy \in PolicyIds
  BY DEF MetricsInv, IInv, TypeOK, WaitingConsistent
<1>2. TakeReady(e) /\ policy' = policy /\ e.id \in Task /\ e.id \notin waitingSet
  BY <1>1, ReadyTaken DEF ObserveReady
<1>3. PICK h \in Hook(m, waitingQueue, waitingSet, admissionLimit) :
        \/ /\ ReadyStarts(e, h)
           /\ usage' = Adjusted(e.id, 1)
           /\ metrics' = WithUse(WithReorder(m, waitingQueue, h.queue), e.timestamp, usage')
        \/ LET queue == Append(h.queue, e.id)
               queued == WithDepth(WithReorder(m, waitingQueue, h.queue), e.timestamp,
                                   ReadyDepth(h))
           IN \E g \in Hook(queued, queue, Enlisted(e.id), h.limit) :
                /\ ReadyWaits(e, h, g)
                /\ metrics' = WithReorder(queued, queue, g.queue)
                /\ UNCHANGED usage
  BY DEF ObserveReady
<1> HIDE DEF m
<1>4. HookResult(h, waitingSet)
  BY <1>1, <1>3, PolicyKeepsQueue
<1>5. CASE /\ ReadyStarts(e, h)
           /\ usage' = Adjusted(e.id, 1)
           /\ metrics' = WithUse(WithReorder(m, waitingQueue, h.queue), e.timestamp, usage')
  BY <1>2, <1>4, <1>5, ReadyStartsMetrics DEF m
<1>6. ASSUME NEW queue, queue = Append(h.queue, e.id), NEW queued,
             queued = WithDepth(WithReorder(m, waitingQueue, h.queue), e.timestamp,
                                ReadyDepth(h)),
             NEW g \in Hook(queued, queue, Enlisted(e.id), h.limit),
             ReadyWaits(e, h, g), metrics' = WithReorder(queued, queue, g.queue), usage' = usage
      PROVE  MetricsInv'
  <2> DEFINE w == Enlisted(e.id)
             l == h.limit
  <2>1. /\ queue \in Seq(Task) /\ IsInjective(queue) /\ Range(queue) = w
        /\ w \in SUBSET Task /\ l \in Nat \cup {NoLimit}
    BY <1>1, <1>2, <1>4, <1>6, AppendFresh DEF HookResult, Enlisted
  <2>2. g \in Hook(queued, queue, w, l)
    OBVIOUS
  <2> HIDE DEF w, l
  <2>3. HookResult(g, w)
    BY <1>1, <2>1, <2>2, PolicyKeepsQueue
  <2>4. HookResult(g, Enlisted(e.id))
    BY <2>3 DEF w
  <2> QED BY <1>2, <1>4, <1>6, <2>4, ReadyWaitsMetrics DEF m
<1> QED BY <1>3, <1>5, <1>6

LEMMA ObserveMetrics ==
  ASSUME MetricsInv, [ObserveNext]_allVars
  PROVE  MetricsInv'
<1>1. IInv' /\ (policy \in PolicyIds)'
  BY ObserveIInv DEF MetricsInv
<1>2. CASE ObserveNothing
  <2>1. Next /\ UNCHANGED observed
    BY <1>2 DEF ObserveNothing, Next, StepOnce, HandleEvent
  <2>2. /\ UNCHANGED <<completedTasks, waitingQueue, queueTime, serviceTime, inUse>>
        /\ metrics' = metrics /\ usage' = usage
    BY <1>2 DEF ObserveNothing, observed, Submit, HandleTaskArrival, HandleTaskStart, runtimeVars
  <2>3. currentTime' \in Nat /\ currentTime \in Nat /\ currentTime <= currentTime'
        /\ Len(completedTasks) \in Nat
    BY <1>1, <2>1, ClockGoesOn DEF MetricsInv, IInv, TypeOK
  <2>4. Sound(metrics', currentTime', Len(completedTasks'))
    BY <2>2, <2>3, LaterSound DEF MetricsInv
  <2>5. (metrics.tasks = LastTimes(completedTasks, TimingOf))'
    BY <2>2 DEF MetricsInv, LastTimes, TimingOf
  <2>6. LatestSamplesExact' /\ UsageExact'
    BY <2>2 DEF MetricsInv, LatestSamplesExact, UsageExact
  <2> QED BY <1>1, <2>4, <2>5, <2>6 DEF MetricsInv
<1>3. CASE \E e \in eventQueue : ObserveReady(e)
  BY <1>1, <1>3, ReadyMetrics
<1>4. CASE \E e \in eventQueue : ObserveComplete(e)
  BY <1>1, <1>4, CompleteMetrics
<1>5. CASE ObserveDrain
  BY <1>1, <1>5, DrainMetrics
<1>6. CASE ReadMetrics
  <2>1. /\ metrics' = Snapshotted(metrics, currentTime)
        /\ UNCHANGED <<vars, policy, usage>>
    BY <1>6 DEF ReadMetrics
  <2>2. currentTime \in Nat /\ Len(completedTasks) \in Nat
    BY DEF MetricsInv, IInv, TypeOK
  <2>3. Sound(metrics', currentTime, Len(completedTasks)) /\ SameLatest(metrics', metrics)
    BY <2>1, <2>2, SnapshottedSound DEF MetricsInv
  <2>4. UNCHANGED <<currentTime, completedTasks, waitingQueue, queueTime, serviceTime, inUse, usage>>
    BY <2>1 DEF vars, runtimeVars
  <2>5. (metrics.tasks = LastTimes(completedTasks, TimingOf))'
    BY <2>3, <2>4 DEF MetricsInv, LastTimes, TimingOf, SameLatest
  <2>6. LatestSamplesExact' /\ UsageExact'
    BY <2>3, <2>4 DEF MetricsInv, LatestSamplesExact, UsageExact, SameLatest
  <2> QED BY <1>1, <2>3, <2>4, <2>5, <2>6 DEF MetricsInv
<1>7. CASE UNCHANGED allVars
  <2>1. UNCHANGED <<currentTime, completedTasks, waitingQueue, queueTime, serviceTime, inUse,
                    usage, metrics>>
    BY <1>7 DEF allVars, vars, runtimeVars, observed
  <2> QED BY <1>1, <2>1 DEF MetricsInv, LastTimes, TimingOf, LatestSamplesExact, UsageExact
<1> QED BY <1>2, <1>3, <1>4, <1>5, <1>6, <1>7 DEF ObserveNext

LEMMA MetricsInvariant == ObserveSpec => []MetricsInv
<1>1. MetricsInv /\ [ObserveNext]_allVars => MetricsInv'
  BY ObserveMetrics
<1> QED BY <1>1, InitMetrics, PTL DEF ObserveSpec

\* What a reader of the metrics gets is what happened in the window, whatever
\* paths the handlers took and whenever samples were dropped before; the usage that
\* is counted beside the pool is that of the pool.
THEOREM WindowsAreExact == ObserveSpec => []WindowsExact
<1>1. MetricsInv => WindowsExact
  <2> SUFFICES ASSUME MetricsInv PROVE WindowsExact
    OBVIOUS
  <2> DEFINE m == Snapshotted(metrics, currentTime)
  <2>1. currentTime \in Nat /\ Len(completedTasks) \in Nat
    BY DEF MetricsInv, IInv, TypeOK
  <2>2. /\ m.queueLog = metrics.queueLog /\ m.useLog = metrics.useLog
        /\ QueueWindow > 0 => IsWindow(m.queue, metrics.queueLog, currentTime - QueueWindow)
        /\ UtilizationWindow > 0 =>
             IsWindow(m.use, metrics.useLog, currentTime - UtilizationWindow)
    BY <2>1, SnapshottedSound DEF MetricsInv
  <2>3. SojournWindowExact
    <3> DEFINE n == Len(completedTasks)
               count == IF n < SojournCapacity THEN n ELSE SojournCapacity
    <3>1. count \in Nat /\ count <= n /\ completedTasks \in Seq(Task)
      BY <2>1, WindowsAssumed DEF MetricsInv, IInv, TypeOK
    <3>2. metrics.tasks = [i \in 1..count |-> TimingOf[completedTasks[n - count + i]]]
      BY DEF MetricsInv, LastTimes
    <3> HIDE DEF count
    <3>3. \A i \in 1..count : completedTasks[n - count + i] \in Task
      <4> TAKE i \in 1..count
      <4>1. n - count + i \in 1..n
        BY <2>1, <3>1
      <4> QED BY <3>1, <4>1
    <3>4. metrics.tasks =
            [i \in 1..count |-> [queue |-> queueTime[completedTasks[n - count + i]],
                                 service |-> serviceTime[completedTasks[n - count + i]]]]
      BY <3>2, <3>3 DEF TimingOf
    <3> QED BY <3>4 DEF SojournWindowExact, count
  <2> HIDE DEF m
  <2> QED BY <2>2, <2>3 DEF WindowsExact, MetricsInv, m
<1> QED BY <1>1, MetricsInvariant, PTL

\* Of the marks that were kept, those within any shorter window are all there are.
THEOREM RecentReordersAreExact == ObserveSpec => []RecentReordersExact
<1>1. MetricsInv => RecentReordersExact
  <2> DEFINE done == Len(completedTasks)
             log == metrics.reorderLog
  <2> SUFFICES ASSUME MetricsInv, NEW window \in 1..ReorderWindow, done > 0
               PROVE  RecentReorders(metrics, done, window)
                        = Cardinality({i \in 1..Len(log) : log[i].at >= done - window})
    BY DEF RecentReordersExact
  <2> DEFINE threshold == IF done > window THEN done - window ELSE 0
             s == DropOlder(metrics.marks, threshold)
  <2>1. /\ done \in Nat /\ window \in Nat /\ window <= ReorderWindow /\ window > 0
        /\ threshold \in Nat /\ done - window <= threshold
        /\ threshold > 0 => threshold = done - window
    BY WindowsAssumed DEF MetricsInv, IInv, TypeOK
  <2>2. log \in Seq(Mark) /\ \A x \in Mark : x.at \in Nat
    BY DEF MetricsInv, Sound, MetricsType, Mark
  <2>3. RecentReorders(metrics, done, window) = Len(s)
    BY <2>1 DEF RecentReorders
  <2> HIDE DEF threshold, log, done
  <2>4. \A i \in 1..Len(log) : log[i].at \in Nat
    BY <2>2
  <2>5. PICK k \in 0..Len(log) : /\ metrics.marks = SubSeq(log, k + 1, Len(log))
                                 /\ \A i \in 1..k : log[i].at < done - ReorderWindow
    BY <2>1, WindowsAssumed DEF MetricsInv, Sound, Kept, log, done
  <2>6. \A i \in 1..k : log[i].at < threshold
    <3> TAKE i \in 1..k
    <3>1. i \in 1..Len(log) /\ log[i].at < done - ReorderWindow
      BY <2>2, <2>5
    <3> QED BY <2>1, <2>4, <3>1, WindowsAssumed
  <2>7. \A i, j \in DOMAIN log : i < j => log[i].at <= log[j].at
    BY DEF MetricsInv, Sound, InOrder, log
  <2>8. s \in Seq(Mark) /\ IsWindow(s, log, threshold)
    <3> DEFINE marks == metrics.marks
    <3>1. /\ s = DropOlder(marks, threshold) /\ threshold \in Int
          /\ marks = SubSeq(log, k + 1, Len(log))
      BY <2>1, <2>5
    <3> HIDE DEF marks, s
    <3> QED BY <2>2, <2>6, <2>7, <3>1, DroppedToWindow
  <2> HIDE DEF s
  <2>9. PICK j \in 0..Len(log) : /\ s = SubSeq(log, j + 1, Len(log))
                                 /\ \A i \in 1..Len(log) : i <= j <=> log[i].at < threshold
    BY <2>8 DEF IsWindow
  <2>10. Len(s) = Len(log) - j
    BY <2>2, <2>9, SuffixIs DEF Suffix
  <2>11. {i \in 1..Len(log) : log[i].at >= done - window} = (j + 1)..Len(log)
    <3>1. \A i \in 1..Len(log) : log[i].at >= done - window <=> ~(log[i].at < threshold)
      BY <2>1, <2>4
    <3>2. \A i \in 1..Len(log) : log[i].at >= done - window <=> i > j
      BY <2>9, <3>1
    <3>3. Len(log) \in Nat
      BY <2>2
    <3> QED BY <3>2, <3>3
  <2>12. Cardinality((j + 1)..Len(log)) = Len(log) - j
    <3> DEFINE a == j + 1
               b == Len(log)
    <3>1. a \in Int /\ b \in Int /\ b \in Nat /\ j <= b
      BY <2>2
    <3> HIDE DEF a, b
    <3>2. Cardinality(a..b) = IF a > b THEN 0 ELSE b - a + 1
      BY <3>1, FS_Interval
    <3> QED BY <3>1, <3>2 DEF a, b
  <2> QED BY <2>3, <2>10, <2>11, <2>12
<1> QED BY <1>1, MetricsInvariant, PTL

------------------------------------------------------------------------------
(* What a policy makes of the queue *)

\* Two sequences of the same elements, each once, in the same order are the same.
LEMMA SameOrder ==
  ASSUME NEW S, NEW s \in Seq(S), NEW q \in Seq(S), IsInjective(s), IsInjective(q),
         Range(q) = Range(s),
         \A i, j \in DOMAIN q : i < j => Position(s, q[i]) < Position(s, q[j])
  PROVE  q = s
<1> DEFINE f(i) == Position(s, q[i])
<1>1. /\ Len(s) \in Nat /\ DOMAIN s = 1..Len(s)
      /\ Len(q) \in Nat /\ DOMAIN q = 1..Len(q)
  OBVIOUS
<1>2. \A i \in DOMAIN s : Position(s, s[i]) = i
  <2> SUFFICES ASSUME NEW i \in DOMAIN s PROVE Position(s, s[i]) = i
    OBVIOUS
  <2>1. \A j \in DOMAIN s : s[j] = s[i] => j = i
    BY DEF IsInjective
  <2> QED BY <1>1, <2>1 DEF Position
<1>3. \A i \in DOMAIN q : f(i) \in DOMAIN s /\ s[f(i)] = q[i]
  <2> SUFFICES ASSUME NEW i \in DOMAIN q PROVE f(i) \in DOMAIN s /\ s[f(i)] = q[i]
    OBVIOUS
  <2>1. q[i] \in Range(s)
    BY DEF Range
  <2>2. PICK j \in DOMAIN s : s[j] = q[i]
    BY <2>1 DEF Range
  <2>3. Position(s, q[i]) = j
    BY <1>2, <2>2
  <2> QED BY <2>2, <2>3
<1>4. \A i, j \in DOMAIN q : i < j => f(i) < f(j)
  OBVIOUS
<1> HIDE DEF f
<1>5. \A i \in DOMAIN q : f(i) = i
  <2> DEFINE bad == {i \in DOMAIN q : f(i) # i}
  <2> SUFFICES ASSUME bad # {} PROVE FALSE
    OBVIOUS
  <2>1. bad \in SUBSET Nat
    BY <1>1
  <2> HIDE DEF bad
  <2>2. PICK i \in bad : \A j \in bad : i <= j
    BY <2>1, LeastOf
  <2> USE DEF bad
  <2>3. i \in DOMAIN q /\ f(i) # i /\ f(i) \in 1..Len(s) /\ i \in 1..Len(q)
    BY <1>1, <1>3, <2>2
  <2>4. \A j \in DOMAIN q : j < i => f(j) = j
    <3> SUFFICES ASSUME NEW j \in DOMAIN q, j < i, f(j) # j PROVE FALSE
      OBVIOUS
    <3>1. j \in bad /\ j \in Int /\ i \in Int
      BY <1>1, <2>3
    <3> QED BY <2>2, <3>1
  <2> HIDE DEF bad
  <2>5. f(i) > i
    <3>1. CASE i = 1
      BY <2>3, <3>1
    <3>2. CASE i > 1
      <4>1. i - 1 \in DOMAIN q /\ i - 1 < i
        BY <1>1, <2>3, <3>2
      <4>2. f(i - 1) = i - 1 /\ f(i - 1) < f(i)
        BY <1>4, <2>3, <2>4, <4>1
      <4> QED BY <2>3, <4>2
    <3> QED BY <2>3, <3>1, <3>2
  <2>6. i \in DOMAIN s
    BY <1>1, <2>3, <2>5
  <2>7. PICK j \in DOMAIN q : q[j] = s[i]
    <3>1. s[i] \in Range(q)
      BY <2>6 DEF Range
    <3> QED BY <3>1 DEF Range
  <2>8. f(j) = i
    BY <1>2, <2>6, <2>7 DEF f
  <2>9. j \in Int /\ i \in Int
    BY <1>1, <2>3
  <2>10. CASE j < i
    BY <2>4, <2>8, <2>9, <2>10
  <2>11. CASE j = i
    BY <2>3, <2>8, <2>11
  <2>12. CASE j > i
    <3>1. f(i) < f(j)
      BY <1>4, <2>3, <2>12
    <3> QED BY <2>3, <2>5, <2>8, <2>9, <3>1
  <2> QED BY <2>9, <2>10, <2>11, <2>12
<1>6. \A i \in DOMAIN q : i \in DOMAIN s /\ s[i] = q[i]
  BY <1>3, <1>5
<1>7. \A i \in DOMAIN s : i \in DOMAIN q
  <2> SUFFICES ASSUME NEW i \in DOMAIN s PROVE i \in DOMAIN q
    OBVIOUS
  <2>1. s[i] \in Range(q)
    BY DEF Range
  <2>2. PICK j \in DOMAIN q : q[j] = s[i]
    BY <2>1 DEF Range
  <2>3. j = i
    BY <1>2, <1>5, <2>2 DEF f
  <2> QED BY <2>3
<1>8. DOMAIN q = DOMAIN s
  BY <1>6, <1>7
<1>9. Len(q) = Len(s)
  <2> DEFINE a == Len(q)
             b == Len(s)
  <2>1. a \in Nat /\ b \in Nat /\ 1..a = 1..b
    BY <1>1, <1>8
  <2> HIDE DEF a, b
  <2>2. /\ a > 0 => a \in 1..b
        /\ b > 0 => b \in 1..a
    BY <2>1
  <2>3. a = b
    BY <2>1, <2>2
  <2> QED BY <2>3 DEF a, b
<1> QED BY <1>1, <1>6, <1>9, SeqEqual

\* An order of all that wait becomes the queue, and no order leaves it alone.
LEMMA OrderApplied ==
  ASSUME NEW queue \in Seq(Task), IsInjective(queue),
         NEW waiting \in SUBSET Task, Range(queue) = waiting,
         NEW order \in Seq(Task), IsInjective(order), order = <<>> \/ Range(order) = waiting,
         NEW q \in Reorderings(order, queue, waiting)
  PROVE  q = IF order = <<>> THEN queue ELSE order
<1>1. Members(order, queue, waiting) = waiting
  <2>1. CASE queue = <<>>
    <3>1. Range(queue) = {}
      BY <2>1 DEF Range
    <3> QED BY <2>1, <3>1 DEF Members
  <2>2. CASE queue # <<>>
    BY <2>2 DEF Members
  <2> QED BY <2>1, <2>2
<1>2. /\ q \in [1..Cardinality(waiting) -> waiting] /\ IsInjective(q) /\ Range(q) = waiting
      /\ \A i, j \in DOMAIN q : i < j => Precedes(order, queue, q[i], q[j])
  BY <1>1 DEF Reorderings
<1>3. Cardinality(waiting) \in Nat
  BY SchedulerAssumption, FS_Subset, FS_CardinalityType DEF SchedulerAssumption
<1>4. q \in Seq(Task)
  BY <1>2, <1>3
<1>5. \A i \in DOMAIN q : q[i] \in waiting
  BY <1>2
<1>6. CASE order = <<>>
  <2>1. Range(order) = {}
    BY <1>6 DEF Range
  <2>2. \A i, j \in DOMAIN q : i < j => Position(queue, q[i]) < Position(queue, q[j])
    BY <1>2, <2>1 DEF Precedes
  <2>3. q = queue
    BY <1>2, <1>4, <2>2, SameOrder
  <2> QED BY <1>6, <2>3
<1>7. CASE order # <<>>
  <2>1. Range(order) = waiting
    BY <1>7
  <2>2. \A i, j \in DOMAIN q : i < j => Position(order, q[i]) < Position(order, q[j])
    BY <1>2, <1>5, <2>1 DEF Precedes
  <2>3. q = order
    BY <1>2, <1>4, <2>1, <2>2, SameOrder
  <2> QED BY <1>7, <2>3
<1> QED BY <1>6, <1>7

\* Two policies leave the queue alone.
LEMMA Unsorted ==
  ASSUME policy \in {"none", "limit-active-1"},
         NEW queue \in Seq(Task), IsInjective(queue),
         NEW waiting \in SUBSET Task, Range(queue) = waiting,
         NEW limit, NEW m, NEW h \in Hook(m, queue, waiting, limit)
  PROVE  h.queue = queue /\ h.limit = IF policy = "none" THEN limit ELSE 1
<1>1. PICK d \in Evaluate(PolicySnapshot(queue, m)) : h \in Applied(d, queue, waiting, limit)
  BY DEF Hook
<1>2. d = [order |-> <<>>, admission |-> IF policy = "none" THEN Keep ELSE 1]
  BY <1>1 DEF Evaluate, BuiltIn, Decision
<1>3. PICK q \in Reorderings(<<>>, queue, waiting) :
        h = [queue |-> q, limit |-> AppliedLimit(d.admission, limit)]
  BY <1>1, <1>2 DEF Applied
<1>4. <<>> \in Seq(Task) /\ IsInjective(<<>>)
  BY DEF IsInjective
<1>5. q = queue
  BY <1>3, <1>4, OrderApplied
<1>6. 1 # Keep
  BY SchedulerAssumption DEF SchedulerAssumption
<1> QED BY <1>2, <1>3, <1>5, <1>6 DEF AppliedLimit

\* Three others put first the task that they rank first.
LEMMA RankedFirst ==
  ASSUME TypeOK, policy \in {"descending-id", "prefer-host", "prefer-nic"},
         NEW queue \in Seq(Task), IsInjective(queue), queue # <<>>,
         NEW waiting \in SUBSET Task, Range(queue) = waiting,
         NEW limit, NEW m, NEW h \in Hook(m, queue, waiting, limit),
         NEW u \in waiting \ {Head(h.queue)},
         NEW score, score = PolicySnapshot(queue, m).score
  PROVE  CASE policy = "descending-id" -> Head(h.queue) > u
           [] policy = "prefer-host" -> Ranked(Head(h.queue), u, score, TRUE)
           [] policy = "prefer-nic" -> Ranked(Head(h.queue), u, score, FALSE)
<1> DEFINE s == PolicySnapshot(queue, m)
           R(x, y) == CASE policy = "descending-id" -> x > y
                        [] policy = "prefer-host" -> Ranked(x, y, score, TRUE)
                        [] policy = "prefer-nic" -> Ranked(x, y, score, FALSE)
<1>1. PICK d \in Evaluate(s) : h \in Applied(d, queue, waiting, limit)
  BY DEF Hook
<1>2. s.order = queue
  BY SnapshotTyped
<1>3. d = BuiltIn(policy, s)
  BY <1>1 DEF Evaluate
<1>4. /\ d.order \in Seq(Task) /\ IsInjective(d.order) /\ Range(d.order) = Range(queue)
      /\ \A i, j \in 1..Len(d.order) : i < j => R(d.order[i], d.order[j])
  <2>1. CASE policy = "descending-id"
    <3>1. d.order = Descending(Range(queue))
      BY <1>2, <1>3, <2>1 DEF BuiltIn, Decision
    <3> QED BY <2>1, <3>1, DescendingTyped
  <2>2. CASE policy = "prefer-host"
    <3>1. d.order = ByDemand(s, TRUE)
      BY <1>3, <2>2 DEF BuiltIn, Decision
    <3>2. /\ d.order \in Seq(Task) /\ IsInjective(d.order) /\ Range(d.order) = Range(queue)
          /\ \A i, j \in 1..Len(d.order) :
               i < j => Ranked(d.order[i], d.order[j], score, TRUE)
      BY <3>1, ByDemandTyped
    <3> QED BY <2>2, <3>2
  <2>3. CASE policy = "prefer-nic"
    <3>1. d.order = ByDemand(s, FALSE)
      BY <1>3, <2>3 DEF BuiltIn, Decision
    <3>2. /\ d.order \in Seq(Task) /\ IsInjective(d.order) /\ Range(d.order) = Range(queue)
          /\ \A i, j \in 1..Len(d.order) :
               i < j => Ranked(d.order[i], d.order[j], score, FALSE)
      BY <3>1, ByDemandTyped
    <3> QED BY <2>3, <3>2
  <2> QED BY <2>1, <2>2, <2>3
<1> HIDE DEF R, s
<1>5. PICK q \in Reorderings(d.order, queue, waiting) :
        h = [queue |-> q, limit |-> AppliedLimit(d.admission, limit)]
  BY <1>1 DEF Applied
<1>6. q = IF d.order = <<>> THEN queue ELSE d.order
  BY <1>4, <1>5, OrderApplied
<1>7. d.order # <<>>
  <2>1. queue[1] \in Range(queue)
    <3>1. 1 \in DOMAIN queue
      OBVIOUS
    <3> QED BY <3>1 DEF Range
  <2>2. SUFFICES ASSUME d.order = <<>> PROVE FALSE
    OBVIOUS
  <2>3. Range(d.order) = {}
    BY <2>2 DEF Range
  <2> QED BY <1>4, <2>1, <2>3
<1>8. h.queue = d.order
  BY <1>5, <1>6, <1>7
<1>9. PICK j \in 1..Len(d.order) : d.order[j] = u
  <2>1. u \in Range(d.order)
    BY <1>4
  <2> QED BY <1>4, <2>1 DEF Range
<1>10. Head(h.queue) = d.order[1] /\ 1 \in 1..Len(d.order) /\ 1 < j
  <2>1. Head(d.order) = d.order[1] /\ 1 \in 1..Len(d.order)
    BY <1>4, <1>7
  <2> QED BY <1>8, <1>9, <2>1
<1>11. R(Head(h.queue), u)
  BY <1>4, <1>9, <1>10
<1> QED BY <1>11 DEF R

------------------------------------------------------------------------------
(* Work conservation and ranking *)

Unsorting == policy \in {"none", "limit-active-1"}

\* The inductive invariant of work conservation: of the waiting queue, all but the
\* tasks that the running drain has still to try could not be started.
Tried ==
  /\ admissionLimit \in {NoLimit, 1}
  /\ policy = "none" => admissionLimit = NoLimit
  /\ \A i \in DOMAIN waitingQueue :
       i > drainLeft => ~CanStart(waitingQueue[i], admissionLimit)

TriedInv == IInv /\ policy \in PolicyIds /\ (Unsorting => Tried)

\* A limit is never lifted.
LEMMA LimitTightens ==
  ASSUME TypeOK, Unsorting, Tried, NEW limit, limit = (IF policy = "none" THEN admissionLimit ELSE 1),
         NEW t
  PROVE  /\ limit \in {NoLimit, 1} /\ (policy = "none" => limit = NoLimit)
         /\ CanStart(t, limit) => CanStart(t, admissionLimit)
BY DEF TypeOK, Unsorting, Tried, CanStart, Admits

\* When a stage starts, no more tasks can start than before.
LEMMA StartBlocks ==
  ASSUME IInv, NEW t \in Task, ~Finished(t), NEW pending, NEW now, NEW ready,
         StartTask(t, pending, now, ready), stageIndex' = stageIndex,
         NEW u \in Task, ~Finished(u), NEW limit \in {NoLimit, 1}, ~CanStart(u, limit)
  PROVE  ~CanStart(u, limit)'
<1>1. /\ activeTaskCount' = activeTaskCount + 1
      /\ inUse' = [r \in Resource |-> inUse[r] + Stage(t).demand[r]]
  BY DEF StartTask
<1>2. activeTaskCount \in Nat /\ inUse \in [Resource -> Nat] /\ TypeOK
  BY DEF IInv, TypeOK
<1>3. Stage(t).demand \in [Resource -> Nat] /\ Stage(u).demand \in [Resource -> Nat]
  BY <1>2, StageTyped
<1>4. Stage(u)' = Stage(u)
  BY DEF Stage
<1>5. Capacity \in [Resource -> Nat]
  BY SchedulerAssumption DEF SchedulerAssumption
<1>6. \A r \in Resource : inUse'[r] = inUse[r] + Stage(t).demand[r]
  BY <1>1
<1>7. Admits(limit)' => Admits(limit)
  BY <1>1, <1>2 DEF Admits
<1>8. Fits(u)' => Fits(u)
  <2> SUFFICES ASSUME Fits(u)', NEW r \in Resource
               PROVE  inUse[r] + Stage(u).demand[r] <= Capacity[r]
    BY DEF Fits
  <2>1. inUse'[r] + Stage(u).demand[r] <= Capacity[r]
    BY <1>4 DEF Fits
  <2>2. /\ inUse[r] \in Nat /\ Stage(u).demand[r] \in Nat /\ Stage(t).demand[r] \in Nat
        /\ Capacity[r] \in Nat /\ inUse'[r] = inUse[r] + Stage(t).demand[r]
    BY <1>2, <1>3, <1>5, <1>6
  <2> QED BY <2>1, <2>2
<1> QED BY <1>7, <1>8 DEF CanStart

\* Tasks that wait have a stage left.
LEMMA WaitingUnfinished ==
  ASSUME IInv, NEW i \in DOMAIN waitingQueue
  PROVE  waitingQueue[i] \in Task /\ waitingQueue[i] \in waitingSet /\ ~Finished(waitingQueue[i])
<1>1. waitingQueue[i] \in waitingSet
  BY DEF IInv, WaitingConsistent, Range
<1> QED BY <1>1 DEF IInv, TypeOK, OnePlace, InFlight

LEMMA ReadyTried ==
  ASSUME IInv, policy \in PolicyIds, Unsorting, Tried, NEW e \in eventQueue, ObserveReady(e)
  PROVE  Tried'
<1> DEFINE t == e.id
           m == BeforeHook(metrics, e.timestamp)
<1>1. /\ waitingQueue \in Seq(Task) /\ IsInjective(waitingQueue)
      /\ waitingSet \in SUBSET Task /\ Range(waitingQueue) = waitingSet /\ TypeOK
  BY DEF IInv, TypeOK, WaitingConsistent
<1>2. /\ TakeReady(e) /\ policy' = policy /\ t \in Task /\ t \notin waitingSet /\ ~Finished(t)
      /\ drainLeft = 0 /\ drainLeft' = 0 /\ stageIndex' = stageIndex
  BY ReadyTaken DEF ObserveReady
<1>3. PICK h \in Hook(m, waitingQueue, waitingSet, admissionLimit) :
        \/ ReadyStarts(e, h)
        \/ \E n : \E g \in Hook(n, Append(h.queue, t), Enlisted(t), h.limit) :
             ReadyWaits(e, h, g)
  BY DEF ObserveReady
<1> HIDE DEF m
<1>4. h.queue = waitingQueue /\ h.limit = IF policy = "none" THEN admissionLimit ELSE 1
  BY <1>1, <1>3, Unsorted DEF Unsorting
<1>5. /\ h.limit \in {NoLimit, 1} /\ (policy = "none" => h.limit = NoLimit)
      /\ \A u : CanStart(u, h.limit) => CanStart(u, admissionLimit)
  BY <1>1, <1>4, LimitTightens
<1>6. \A i \in DOMAIN waitingQueue : ~CanStart(waitingQueue[i], h.limit)
  <2>1. DOMAIN waitingQueue = 1..Len(waitingQueue)
    BY <1>1
  <2> QED BY <1>2, <1>5, <2>1 DEF Tried
<1>7. CASE ReadyStarts(e, h)
  <2>1. /\ waitingQueue' = waitingQueue /\ admissionLimit' = h.limit
        /\ StartTask(t, eventQueue \ {e}, e.timestamp, e.timestamp)
    BY <1>4, <1>7 DEF ReadyStarts
  <2>2. \A i \in DOMAIN waitingQueue : ~CanStart(waitingQueue[i], h.limit)'
    <3> SUFFICES ASSUME NEW i \in DOMAIN waitingQueue PROVE ~CanStart(waitingQueue[i], h.limit)'
      OBVIOUS
    <3> DEFINE u == waitingQueue[i]
    <3>1. u \in Task /\ ~Finished(u) /\ ~CanStart(u, h.limit)
      BY <1>6, WaitingUnfinished
    <3>2. u' = u
      BY <2>1
    <3>3. ASSUME NEW v, v = u PROVE ~CanStart(v, h.limit)'
      BY <1>2, <1>5, <2>1, <3>1, <3>3, StartBlocks
    <3> QED BY <3>2, <3>3
  <2> QED BY <1>2, <1>5, <2>1, <2>2 DEF Tried
<1>8. ASSUME NEW n, NEW g \in Hook(n, Append(h.queue, t), Enlisted(t), h.limit), ReadyWaits(e, h, g)
      PROVE  Tried'
  <2> DEFINE queue == Append(waitingQueue, t)
             w == waitingSet \cup {t}
  <2>1. /\ queue \in Seq(Task) /\ IsInjective(queue) /\ Range(queue) = w /\ w \in SUBSET Task
    BY <1>1, <1>2, AppendFresh
  <2>2. g \in Hook(n, queue, w, h.limit)
    BY <1>4, <1>8 DEF Enlisted
  <2>3. /\ Len(queue) = Len(waitingQueue) + 1 /\ queue[Len(waitingQueue) + 1] = t
        /\ DOMAIN queue = 1..Len(queue) /\ DOMAIN waitingQueue = 1..Len(waitingQueue)
        /\ \A i \in 1..Len(waitingQueue) : queue[i] = waitingQueue[i]
    BY <1>1, <1>2
  <2> HIDE DEF queue, w
  <2>4. g.queue = queue /\ g.limit = IF policy = "none" THEN h.limit ELSE 1
    BY <2>1, <2>2, Unsorted DEF Unsorting
  <2>5. g.limit = h.limit
    BY <1>4, <2>4
  <2>6. /\ waitingQueue' = queue /\ admissionLimit' = h.limit /\ ~CanStart(t, h.limit)
        /\ UNCHANGED <<inUse, activeTaskCount>>
    BY <1>4, <1>8, <2>4, <2>5 DEF ReadyWaits, runtimeVars
  <2>7. \A i \in DOMAIN queue : ~CanStart(queue[i], h.limit)
    <3> SUFFICES ASSUME NEW i \in DOMAIN queue PROVE ~CanStart(queue[i], h.limit)
      OBVIOUS
    <3>1. i \in 1..Len(waitingQueue) \/ i = Len(waitingQueue) + 1
      BY <1>1, <2>3
    <3> QED BY <1>6, <2>3, <2>6, <3>1
  <2>8. \A u : CanStart(u, h.limit)' <=> CanStart(u, h.limit)
    BY <1>2, <2>6 DEF CanStart, Admits, Fits, Stage
  <2> QED BY <1>2, <1>5, <2>6, <2>7, <2>8 DEF Tried
<1> QED BY <1>3, <1>7, <1>8

LEMMA DrainTried ==
  ASSUME IInv, policy \in PolicyIds, Unsorting, Tried, ObserveDrain
  PROVE  Tried'
<1> DEFINE m == BeforeHook(metrics, currentTime)
           t == Head(waitingQueue)
           rest == Tail(waitingQueue)
<1>1. /\ waitingQueue \in Seq(Task) /\ IsInjective(waitingQueue) /\ waitingQueue # <<>>
      /\ waitingSet \in SUBSET Task /\ Range(waitingQueue) = waitingSet /\ TypeOK
      /\ drainLeft \in Nat /\ drainLeft > 0
  BY DEF IInv, TypeOK, WaitingConsistent, DrainHasWork, ObserveDrain
<1>2. /\ policy' = policy /\ stageIndex' = stageIndex
      /\ drainLeft' = IF waitingQueue' = <<>> THEN 0 ELSE drainLeft - 1
  BY DEF ObserveDrain, GoOnDraining
<1>3. PICK h \in Hook(m, waitingQueue, waitingSet, admissionLimit) : TryFront(h)
  BY DEF ObserveDrain, DrainHook
<1> HIDE DEF m
<1>4. h.queue = waitingQueue /\ h.limit = IF policy = "none" THEN admissionLimit ELSE 1
  BY <1>1, <1>3, Unsorted DEF Unsorting
<1>5. /\ h.limit \in {NoLimit, 1} /\ (policy = "none" => h.limit = NoLimit)
      /\ \A u : CanStart(u, h.limit) => CanStart(u, admissionLimit)
  BY <1>1, <1>4, LimitTightens
<1>6. /\ DOMAIN waitingQueue = 1..Len(waitingQueue) /\ Len(waitingQueue) \in Nat
      /\ rest \in Seq(Task) /\ Len(rest) = Len(waitingQueue) - 1
      /\ DOMAIN rest = 1..Len(rest) /\ t = waitingQueue[1] /\ 1 \in DOMAIN waitingQueue
      /\ \A i \in 1..Len(rest) : rest[i] = waitingQueue[i + 1]
  BY <1>1
<1>7. t \in Task /\ ~Finished(t)
  BY <1>6, WaitingUnfinished
<1>8. \A i \in DOMAIN waitingQueue : i > drainLeft => ~CanStart(waitingQueue[i], h.limit)
  BY <1>5 DEF Tried
<1> HIDE DEF t, rest
<1>9. \A i \in DOMAIN rest : /\ rest[i] \in Task /\ ~Finished(rest[i])
                             /\ i > drainLeft - 1 => ~CanStart(rest[i], h.limit)
  <2> SUFFICES ASSUME NEW i \in DOMAIN rest
               PROVE  /\ rest[i] \in Task /\ ~Finished(rest[i])
                      /\ i > drainLeft - 1 => ~CanStart(rest[i], h.limit)
    OBVIOUS
  <2>1. /\ i + 1 \in DOMAIN waitingQueue /\ rest[i] = waitingQueue[i + 1]
        /\ i > drainLeft - 1 => i + 1 > drainLeft
    BY <1>1, <1>6
  <2> QED BY <1>8, <2>1, WaitingUnfinished
<1>10. \/ /\ waitingQueue' = rest /\ admissionLimit' = h.limit
          /\ StartTask(t, eventQueue, currentTime, readyTime[t])
       \/ /\ waitingQueue' = Append(rest, t) /\ admissionLimit' = h.limit
          /\ ~CanStart(t, h.limit)
          /\ UNCHANGED runtimeVars
  BY <1>3, <1>4 DEF TryFront, t, rest
<1>11. CASE /\ waitingQueue' = rest /\ admissionLimit' = h.limit
            /\ StartTask(t, eventQueue, currentTime, readyTime[t])
  <2>1. \A i \in DOMAIN waitingQueue' : i > drainLeft' => i > drainLeft - 1 /\ i \in DOMAIN rest
    <3>1. CASE waitingQueue' = <<>>
      BY <3>1
    <3>2. CASE waitingQueue' # <<>>
      BY <1>2, <1>11, <3>2
    <3> QED BY <3>1, <3>2
  <2>2. \A i \in DOMAIN waitingQueue' :
          i > drainLeft' => ~CanStart(waitingQueue[i], admissionLimit)'
    <3> SUFFICES ASSUME NEW i \in DOMAIN waitingQueue', i > drainLeft'
                 PROVE  ~CanStart(waitingQueue[i], admissionLimit)'
      OBVIOUS
    <3>1. PICK v : v = rest[i]
      OBVIOUS
    <3>2. v \in Task /\ ~Finished(v) /\ ~CanStart(v, h.limit)
      BY <1>9, <2>1, <3>1
    <3>3. ~CanStart(v, h.limit)'
      BY <1>2, <1>5, <1>7, <1>11, <3>2, StartBlocks
    <3>4. waitingQueue'[i] = v /\ admissionLimit' = h.limit
      BY <1>11, <3>1
    <3> QED BY <3>3, <3>4
  <2> QED BY <1>2, <1>5, <1>11, <2>2 DEF Tried
<1>12. CASE /\ waitingQueue' = Append(rest, t) /\ admissionLimit' = h.limit
            /\ ~CanStart(t, h.limit)
            /\ UNCHANGED runtimeVars
  <2>1. \A u : CanStart(u, h.limit)' <=> CanStart(u, h.limit)
    BY <1>2, <1>12 DEF CanStart, Admits, Fits, Stage, runtimeVars
  <2>2. /\ DOMAIN waitingQueue' = 1..(Len(rest) + 1) /\ waitingQueue' # <<>>
        /\ waitingQueue'[Len(rest) + 1] = t
        /\ \A i \in 1..Len(rest) : waitingQueue'[i] = rest[i]
    <3> DEFINE q == Append(rest, t)
    <3>0. rest \in Seq(Task) /\ t \in Task
      BY <1>6, <1>7
    <3>1. /\ DOMAIN q = 1..(Len(rest) + 1) /\ q[Len(rest) + 1] = t
          /\ \A i \in 1..Len(rest) : q[i] = rest[i]
      BY <3>0
    <3>2. q # <<>> /\ waitingQueue' = q
      BY <1>6, <1>7, <1>12
    <3> HIDE DEF q
    <3> QED BY <3>1, <3>2
  <2>3. drainLeft' = drainLeft - 1
    BY <1>2, <2>2
  <2>4. \A i \in DOMAIN waitingQueue' :
          i > drainLeft - 1 => ~CanStart(waitingQueue'[i], h.limit)
    <3> SUFFICES ASSUME NEW i \in DOMAIN waitingQueue', i > drainLeft - 1
                 PROVE  ~CanStart(waitingQueue'[i], h.limit)
      OBVIOUS
    <3>1. i \in DOMAIN rest \/ i = Len(rest) + 1
      BY <1>6, <2>2
    <3> QED BY <1>6, <1>9, <1>12, <2>2, <3>1
  <2> QED BY <1>2, <1>5, <1>12, <2>1, <2>3, <2>4 DEF Tried
<1> QED BY <1>10, <1>11, <1>12

LEMMA ObserveTried ==
  ASSUME TriedInv, [ObserveNext]_allVars
  PROVE  TriedInv'
<1>1. IInv' /\ (policy \in PolicyIds)' /\ policy' = policy
  <2>1. policy' = policy
    BY DEF ObserveNext, ObserveNothing, ObserveReady, ObserveComplete, ObserveDrain,
           ReadMetrics, allVars, observed
  <2> QED BY <2>1, ObserveIInv DEF TriedInv
<1>2. SUFFICES ASSUME Unsorting PROVE Tried'
  BY <1>1 DEF TriedInv, Unsorting
<1>3. IInv /\ policy \in PolicyIds /\ Tried
  BY <1>2 DEF TriedInv
<1>4. ASSUME UNCHANGED <<inUse, activeTaskCount, stageIndex, waitingQueue, admissionLimit,
                         drainLeft>>
      PROVE  Tried'
  BY <1>1, <1>3, <1>4 DEF Tried, CanStart, Admits, Fits, Stage
<1>5. CASE ObserveNothing
  BY <1>4, <1>5 DEF ObserveNothing, Submit, HandleTaskArrival, HandleTaskStart, runtimeVars
<1>6. CASE \E e \in eventQueue : ObserveReady(e)
  BY <1>2, <1>3, <1>6, ReadyTried
<1>7. CASE \E e \in eventQueue : ObserveComplete(e)
  <2>1. /\ waitingQueue' = waitingQueue /\ admissionLimit' = admissionLimit
        /\ drainLeft' = Len(waitingQueue)
    BY <1>7 DEF ObserveComplete, HandleTaskComplete, DrainIterations
  <2>2. waitingQueue \in Seq(Task)
    BY <1>3 DEF IInv, TypeOK
  <2>3. \A i \in DOMAIN waitingQueue' : ~(i > drainLeft')
    BY <2>1, <2>2
  <2> QED BY <1>1, <1>3, <2>1, <2>3 DEF Tried
<1>8. CASE ObserveDrain
  BY <1>2, <1>3, <1>8, DrainTried
<1>9. CASE ReadMetrics \/ UNCHANGED allVars
  BY <1>4, <1>9 DEF ReadMetrics, allVars, vars, runtimeVars
<1> QED BY <1>5, <1>6, <1>7, <1>8, <1>9 DEF ObserveNext

\* Without a policy and under limit-active-1 the rotation of drain_waiting tries each
\* task: outside the drain, no capacity is idle that a waiting task could use.
THEOREM UnsortedConservesWork == ObserveSpec => []WorkConservingUnsorted
<1>1. ObserveInit => TriedInv
  BY InitIInv DEF ObserveInit, TriedInv, Tried, Init
<1>2. TriedInv /\ [ObserveNext]_allVars => TriedInv'
  BY ObserveTried
<1>3. TriedInv => WorkConservingUnsorted
  <2> SUFFICES ASSUME TriedInv, Unsorting, drainLeft = 0, NEW t \in waitingSet
               PROVE  ~CanStart(t, admissionLimit)
    BY DEF WorkConservingUnsorted, WorkConserving, Unsorting
  <2>1. waitingQueue \in Seq(Task) /\ Range(waitingQueue) = waitingSet
    BY DEF TriedInv, IInv, TypeOK, WaitingConsistent
  <2>2. PICK i \in DOMAIN waitingQueue : waitingQueue[i] = t
    BY <2>1 DEF Range
  <2>3. i > drainLeft
    BY <2>1, <2>2
  <2> QED BY <2>2, <2>3 DEF TriedInv, Tried
<1> QED BY <1>1, <1>2, <1>3, PTL DEF ObserveSpec

LEMMA DrainRanked ==
  ASSUME IInv, ObserveNext, NEW t \in waitingSet, drainLeft > 0, active'[t]
  PROVE  BestWaiting(t)
<1> DEFINE m == BeforeHook(metrics, currentTime)
<1>1. ObserveDrain
  BY DEF ObserveNext, ObserveNothing, ObserveReady, ObserveComplete, ReadMetrics, Submit,
         HandleTaskArrival, HandleTaskStart, HandleTaskComplete, TakeReady, Pop
<1>2. PICK h \in Hook(m, waitingQueue, waitingSet, admissionLimit) : TryFront(h)
  BY <1>1 DEF ObserveDrain, DrainHook
<1>3. /\ waitingQueue \in Seq(Task) /\ IsInjective(waitingQueue) /\ waitingQueue # <<>>
      /\ waitingSet \in SUBSET Task /\ Range(waitingQueue) = waitingSet /\ TypeOK
      /\ admissionLimit \in Nat \cup {NoLimit}
  BY DEF IInv, TypeOK, WaitingConsistent, DrainHasWork
<1>4. t = Head(h.queue)
  <2>1. ~active[t] /\ t \in Task
    BY <1>3 DEF IInv, OnePlace, ActiveHasEvent
  <2>2. StartTask(Head(h.queue), eventQueue, currentTime, readyTime[Head(h.queue)])
    BY <1>2, <2>1 DEF TryFront, runtimeVars
  <2>3. active' = [active EXCEPT ![Head(h.queue)] = TRUE]
    BY <2>2 DEF StartTask
  <2> QED BY <1>3, <2>1, <2>3 DEF TypeOK
<1>5. Score = PolicySnapshot(waitingQueue, m).score
  BY DEF Score, PolicySnapshot
<1> HIDE DEF m
<1>6. ASSUME NEW u \in waitingSet \ {t}
      PROVE  /\ policy = "descending-id" => t > u
             /\ policy = "prefer-host" => Ranked(t, u, Score, TRUE)
             /\ policy = "prefer-nic" => Ranked(t, u, Score, FALSE)
  <2>1. CASE policy = "descending-id"
    BY <1>2, <1>3, <1>4, <1>5, <2>1, RankedFirst
  <2>2. CASE policy = "prefer-host"
    BY <1>2, <1>3, <1>4, <1>5, <2>2, RankedFirst
  <2>3. CASE policy = "prefer-nic"
    BY <1>2, <1>3, <1>4, <1>5, <2>3, RankedFirst
  <2> QED BY <2>1, <2>2, <2>3
<1> QED BY <1>6 DEF BestWaiting

\* The drain starts only the task that a sorting policy ranks first of all that wait.
THEOREM DrainKeepsRank == ObserveSpec => DrainKeepsRanking
<1>1. IInv /\ policy \in PolicyIds /\ [ObserveNext]_allVars
        => [\A t \in waitingSet : drainLeft > 0 /\ active'[t] => BestWaiting(t)]_allVars
  BY DrainRanked
<1> QED BY <1>1, PolicyInvariance, PTL DEF ObserveSpec, DrainKeepsRanking

------------------------------------------------------------------------------
(* Refinement *)

\* The scheduler whose hook may return any decision there is
AnyHook == INSTANCE Scheduler_proofs WITH Decisions <- DecisionType

\* What a policy may leave, that hook may leave.
LEMMA PolicyIsHook ==
  ASSUME TypeOK, policy \in PolicyIds, NEW queue \in Seq(Task), IsInjective(queue),
         NEW waiting, NEW limit, NEW m, NEW h \in Hook(m, queue, waiting, limit)
  PROVE  h \in AnyHook!EvaluatePolicyHook(queue, waiting, limit)
<1>1. PICK d \in Evaluate(PolicySnapshot(queue, m)) : h \in Applied(d, queue, waiting, limit)
  BY DEF Hook
<1>2. d \in DecisionType
  BY EvaluateTyped
<1>3. h \in AnyHook!Applied(d, queue, waiting, limit)
  BY <1>1, Zenon
     DEF Applied, AnyHook!Applied, Reorderings, AnyHook!Reorderings, Members, AnyHook!Members,
         AppliedLimit, AnyHook!AppliedLimit, Precedes, AnyHook!Precedes, Position,
         AnyHook!Position, Range, AnyHook!Range, IsInjective, AnyHook!IsInjective,
         Cardinality, AnyHook!Cardinality
<1> HIDE DEF AnyHook!Applied
<1> QED BY <1>2, <1>3 DEF AnyHook!EvaluatePolicyHook

\* The handlers are the same but for the hook.
LEMMA SameHandlers ==
  ASSUME NEW e, NEW h, NEW g, NEW t
  PROVE  /\ Init => AnyHook!Init
         /\ Submit(t) => AnyHook!Submit(t)
         /\ HandleTaskArrival(e) => AnyHook!HandleTaskArrival(e)
         /\ HandleTaskStart(e) => AnyHook!HandleTaskStart(e)
         /\ HandleTaskComplete(e) => AnyHook!HandleTaskComplete(e)
         /\ TakeReady(e) => AnyHook!TakeReady(e)
         /\ ReadyStarts(e, h) => AnyHook!ReadyStarts(e, h)
         /\ ReadyWaits(e, h, g) => AnyHook!ReadyWaits(e, h, g)
         /\ TryFront(h) => AnyHook!TryFront(h)
         /\ GoOnDraining => AnyHook!GoOnDraining
         /\ AnyHook!vars = vars
         /\ AnyHook!Enlisted(t) = Enlisted(t)
<1> USE DEF Pop, AnyHook!Pop, Event, AnyHook!Event, runtimeVars, AnyHook!runtimeVars
<1>1. AnyHook!vars = vars /\ AnyHook!Enlisted(t) = Enlisted(t)
  BY DEF vars, AnyHook!vars, Enlisted, AnyHook!Enlisted
<1>2. Init => AnyHook!Init
  BY DEF Init, AnyHook!Init
<1>3. Submit(t) => AnyHook!Submit(t)
  BY DEF Submit, AnyHook!Submit
<1>4. /\ HandleTaskArrival(e) => AnyHook!HandleTaskArrival(e)
      /\ HandleTaskStart(e) => AnyHook!HandleTaskStart(e)
  BY DEF HandleTaskArrival, AnyHook!HandleTaskArrival, HandleTaskStart, AnyHook!HandleTaskStart
<1>5. HandleTaskComplete(e) => AnyHook!HandleTaskComplete(e)
  BY Zenon
     DEF HandleTaskComplete, AnyHook!HandleTaskComplete, Released, AnyHook!Released, Stage,
         AnyHook!Stage, CountAfterCompletion, AnyHook!CountAfterCompletion, Deactivated,
         AnyHook!Deactivated, HasNextStage, AnyHook!HasNextStage, DrainIterations,
         AnyHook!DrainIterations
<1>6. TakeReady(e) => AnyHook!TakeReady(e)
  BY DEF TakeReady, AnyHook!TakeReady, ReadyRecorded, AnyHook!ReadyRecorded
<1>7. \A u, limit : CanStart(u, limit) <=> AnyHook!CanStart(u, limit)
  BY Zenon DEF CanStart, AnyHook!CanStart, Admits, AnyHook!Admits, Fits, AnyHook!Fits, Stage,
               AnyHook!Stage
<1>8. \A u, pending, now, ready :
        StartTask(u, pending, now, ready) => AnyHook!StartTask(u, pending, now, ready)
  BY Zenon DEF StartTask, AnyHook!StartTask, Elapsed, AnyHook!Elapsed, Stage, AnyHook!Stage
<1>9. ReadyStarts(e, h) => AnyHook!ReadyStarts(e, h)
  BY <1>7, <1>8 DEF ReadyStarts, AnyHook!ReadyStarts
<1>10. ReadyWaits(e, h, g) => AnyHook!ReadyWaits(e, h, g)
  BY <1>7 DEF ReadyWaits, AnyHook!ReadyWaits, Enlisted, AnyHook!Enlisted
<1>11. TryFront(h) => AnyHook!TryFront(h)
  BY <1>7, <1>8 DEF TryFront, AnyHook!TryFront
<1>12. GoOnDraining => AnyHook!GoOnDraining
  BY DEF GoOnDraining, AnyHook!GoOnDraining
<1> QED BY <1>1, <1>2, <1>3, <1>4, <1>5, <1>6, <1>9, <1>10, <1>11, <1>12

\* A run under a policy is a run of Scheduler: what the policies observe of the
\* scheduler changes nothing in how it handles its events, and every decision that a
\* policy takes, at each of the three places where the hook is called, is one that
\* the abstract hook may take.
THEOREM PoliciesAreHooks == ObserveSpec => AnyHook!Spec
<1>1. ObserveInit => AnyHook!Init
  BY SameHandlers DEF ObserveInit
<1>2. IInv /\ policy \in PolicyIds /\ [ObserveNext]_allVars => [AnyHook!Next]_AnyHook!vars
  <2> SUFFICES ASSUME IInv, policy \in PolicyIds, [ObserveNext]_allVars
               PROVE  [AnyHook!Next]_AnyHook!vars
    OBVIOUS
  <2>0. /\ waitingQueue \in Seq(Task) /\ IsInjective(waitingQueue)
        /\ waitingSet \in SUBSET Task /\ Range(waitingQueue) = waitingSet
        /\ admissionLimit \in Nat \cup {NoLimit} /\ TypeOK
    BY DEF IInv, TypeOK, WaitingConsistent
  <2>1. CASE ObserveNothing
    BY <2>1, SameHandlers
       DEF ObserveNothing, AnyHook!Next, AnyHook!StepOnce, AnyHook!HandleEvent
  <2>2. ASSUME NEW e \in eventQueue, ObserveReady(e)
        PROVE  AnyHook!Next
    <3> DEFINE m == BeforeHook(metrics, e.timestamp)
    <3>1. PICK h \in Hook(m, waitingQueue, waitingSet, admissionLimit) :
            \/ ReadyStarts(e, h)
            \/ \E n : \E g \in Hook(n, Append(h.queue, e.id), Enlisted(e.id), h.limit) :
                 ReadyWaits(e, h, g)
      BY <2>2 DEF ObserveReady
    <3>2. HookResult(h, waitingSet)
      BY <2>0, <3>1, PolicyKeepsQueue
    <3>3. TakeReady(e) /\ e.id \in Task /\ e.id \notin waitingSet
      BY <2>2, ReadyTaken DEF ObserveReady
    <3>4. h \in AnyHook!EvaluatePolicyHook(waitingQueue, waitingSet, admissionLimit)
      BY <2>0, <3>1, PolicyIsHook
    <3>5. AnyHook!TakeReady(e)
      BY <3>3, SameHandlers
    <3>6. \/ AnyHook!ReadyStarts(e, h)
          \/ \E g \in AnyHook!EvaluatePolicyHook(Append(h.queue, e.id), AnyHook!Enlisted(e.id),
                                                 h.limit) : AnyHook!ReadyWaits(e, h, g)
      <4>1. CASE ReadyStarts(e, h)
        BY <4>1, SameHandlers
      <4>2. ASSUME NEW n, NEW g \in Hook(n, Append(h.queue, e.id), Enlisted(e.id), h.limit),
                   ReadyWaits(e, h, g)
            PROVE  /\ AnyHook!ReadyWaits(e, h, g)
                   /\ g \in AnyHook!EvaluatePolicyHook(Append(h.queue, e.id),
                                                       AnyHook!Enlisted(e.id), h.limit)
        <5> DEFINE q == Append(h.queue, e.id)
        <5>1. q \in Seq(Task) /\ IsInjective(q)
          BY <3>2, <3>3, AppendFresh DEF HookResult
        <5>2. g \in Hook(n, q, Enlisted(e.id), h.limit)
          BY <4>2
        <5> HIDE DEF q
        <5>3. g \in AnyHook!EvaluatePolicyHook(q, Enlisted(e.id), h.limit)
          BY <2>0, <5>1, <5>2, PolicyIsHook
        <5>4. AnyHook!Enlisted(e.id) = Enlisted(e.id) /\ AnyHook!ReadyWaits(e, h, g)
          BY <4>2, SameHandlers
        <5> QED BY <5>3, <5>4 DEF q
      <4> QED BY <3>1, <4>1, <4>2
    <3>7. AnyHook!HandleTaskReady(e)
      BY <3>4, <3>5, <3>6 DEF AnyHook!HandleTaskReady
    <3> QED BY <3>7 DEF AnyHook!Next, AnyHook!StepOnce, AnyHook!HandleEvent
  <2>3. ASSUME NEW e \in eventQueue, ObserveComplete(e)
        PROVE  AnyHook!Next
    <3>1. AnyHook!HandleTaskComplete(e)
      BY <2>3, SameHandlers DEF ObserveComplete
    <3> QED BY <3>1 DEF AnyHook!Next, AnyHook!StepOnce, AnyHook!HandleEvent
  <2>4. CASE ObserveDrain
    <3> DEFINE n == BeforeHook(metrics, currentTime)
    <3>1. PICK h \in Hook(n, waitingQueue, waitingSet, admissionLimit) : TryFront(h)
      BY <2>4 DEF ObserveDrain, DrainHook
    <3>2. h \in AnyHook!EvaluatePolicyHook(waitingQueue, waitingSet, admissionLimit)
      BY <2>0, <3>1, PolicyIsHook
    <3>3. AnyHook!TryFront(h) /\ AnyHook!GoOnDraining /\ drainLeft > 0
      BY <2>4, <3>1, SameHandlers DEF ObserveDrain
    <3> QED BY <3>2, <3>3 DEF AnyHook!Next, AnyHook!StepOnce, AnyHook!DrainStep
  <2>5. CASE UNCHANGED vars
    BY <2>5 DEF vars, AnyHook!vars, runtimeVars, AnyHook!runtimeVars
  <2> QED BY <2>1, <2>2, <2>3, <2>4, <2>5 DEF ObserveNext, ReadMetrics, allVars
<1> QED BY <1>1, <1>2, PolicyInvariance, PTL DEF ObserveSpec, AnyHook!Spec

------------------------------------------------------------------------------
(* Sorting *)

\* s is sorted by taking its values in the order of positions.
SortsBy(sorted, s, position) ==
  /\ position \in [DOMAIN s -> DOMAIN s] /\ IsInjective(position)
  /\ Range(position) = DOMAIN s
  /\ sorted = [k \in DOMAIN s |-> s[position[k]]]
  /\ \A i, j \in DOMAIN s : i < j => sorted[i] <= sorted[j]

LEMMA SortedUpSorts ==
  ASSUME NEW s \in Seq(Nat)
  PROVE  \E position : SortsBy(SortedUp(s), s, position)
<1> DEFINE n == Len(s)
           ids == DOMAIN s
           R == {p \in ids \X ids : s[p[1]] < s[p[2]] \/ (s[p[1]] = s[p[2]] /\ p[1] < p[2])}
           before == [i \in ids |-> Before(s, i)]
           q == [k \in 1..n |-> CHOOSE i \in ids : Cardinality(Before(s, i)) = k - 1]
<1>1. n \in Nat /\ ids = 1..n /\ \A i \in ids : s[i] \in Nat
  OBVIOUS
<1>2. IsFiniteSet(ids) /\ Cardinality(ids) = n
  <2>1. /\ IsFiniteSet(1..n)
        /\ Cardinality(1..n) = IF 1 > n THEN 0 ELSE n - 1 + 1
    BY <1>1, FS_Interval
  <2> HIDE DEF n, ids
  <2> QED BY <1>1, <2>1
<1>3. \A x, y \in ids : <<x, y>> \in R <=> s[x] < s[y] \/ (s[x] = s[y] /\ x < y)
  OBVIOUS
<1>4. \A x \in ids : before[x] = {y \in ids : <<y, x>> \in R}
  <2> HIDE DEF R
  <2> QED BY <1>3 DEF Before
<1> HIDE DEF R
<1>5. Program!OrderedBefore(R, ids, before)
  <2> HIDE DEF before, n
  <2>1. \A x \in ids : <<x, x>> \notin R
    BY <1>1, <1>3
  <2>2. ASSUME NEW x \in ids, NEW y \in ids, NEW z \in ids,
               <<x, y>> \in R, <<y, z>> \in R
        PROVE  <<x, z>> \in R
    <3>1. /\ s[x] \in Nat /\ s[y] \in Nat /\ s[z] \in Nat /\ x \in Nat /\ y \in Nat /\ z \in Nat
          /\ s[x] < s[y] \/ (s[x] = s[y] /\ x < y)
          /\ s[y] < s[z] \/ (s[y] = s[z] /\ y < z)
      BY <1>1, <1>3, <2>2
    <3>2. s[x] < s[z] \/ (s[x] = s[z] /\ x < z)
      BY <3>1
    <3> QED BY <1>3, <3>2
  <2>3. \A x, y \in ids : x # y => <<x, y>> \in R \/ <<y, x>> \in R
    BY <1>1, <1>3
  <2> QED BY <1>4, <2>1, <2>2, <2>3 DEF Program!OrderedBefore
<1>6. Program!IsFiniteSet(ids) /\ Program!Cardinality(ids) = n
  BY <1>2, SameFiniteSets DEF Program!Cardinality, Cardinality
<1>7. \A i \in ids : before[i] = Before(s, i)
  OBVIOUS
<1>8. Program!ListsByRank(q, ids, before)
  <2>1. q = [k \in 1..n |-> q[k]]
    OBVIOUS
  <2>2. ASSUME NEW k \in 1..n, \E x \in ids : Cardinality(Before(s, x)) = k - 1
        PROVE  q[k] \in ids /\ Cardinality(Before(s, q[k])) = k - 1
    <3> HIDE DEF n, ids, before
    <3> QED BY <2>2, Zenon
  <2>3. \A S : Program!Cardinality(S) = Cardinality(S)
    BY Zenon DEF Program!Cardinality, Cardinality
  <2> HIDE DEF n, ids, before, q
  <2> QED BY <1>2, <1>7, <2>1, <2>2, <2>3 DEF Program!ListsByRank
<1>9. /\ q \in Seq(ids) /\ Len(q) = n /\ Program!IsInjective(q) /\ Program!Range(q) = ids
      /\ \A i, j \in 1..n : i < j => <<q[i], q[j]>> \in R
  <2> HIDE DEF n, ids, before, q
  <2> QED BY <1>5, <1>6, <1>8, ProgramAssumed, Program!SortedByRank
<1>10. q \in [ids -> ids] /\ IsInjective(q) /\ Range(q) = ids
  <2> HIDE DEF q
  <2>1. DOMAIN q = ids /\ \A k \in ids : q[k] \in ids
    BY <1>1, <1>9
  <2>2. q = [k \in DOMAIN q |-> q[k]]
    BY <1>9
  <2> QED BY <1>9, <2>1, <2>2
          DEF Program!IsInjective, IsInjective, Program!Range, Range
<1>11. SortedUp(s) = [k \in ids |-> s[q[k]]]
  <2> DEFINE C(k) == CHOOSE i \in ids : Cardinality(Before(s, i)) = k - 1
  <2>1. SortedUp(s) = [k \in ids |-> s[C(k)]]
    BY Zenon DEF SortedUp
  <2>2. \A k \in ids : q[k] = C(k)
    BY <1>1
  <2> HIDE DEF C, q, ids
  <2> QED BY <2>1, <2>2
<1> HIDE DEF q
<1>12. \A i, j \in ids : i < j => SortedUp(s)[i] <= SortedUp(s)[j]
  <2> SUFFICES ASSUME NEW i \in ids, NEW j \in ids, i < j
               PROVE  SortedUp(s)[i] <= SortedUp(s)[j]
    OBVIOUS
  <2>1. <<q[i], q[j]>> \in R /\ q[i] \in ids /\ q[j] \in ids
    BY <1>1, <1>9, <1>10
  <2>0. \A x, y \in ids : <<x, y>> \in R => s[x] <= s[y]
    BY <1>1, <1>3
  <2> HIDE DEF ids
  <2>2. s[q[i]] <= s[q[j]]
    BY <2>0, <2>1
  <2> QED BY <1>11, <2>2
<1> QED BY <1>10, <1>11, <1>12 DEF SortsBy

------------------------------------------------------------------------------
(* Percentiles *)

\* Rounding of hundredths
LEMMA Hundredths ==
  ASSUME NEW x \in Nat
  PROVE  /\ x \div 100 \in Nat /\ x % 100 \in 0..99 /\ x = 100 * (x \div 100) + (x % 100)
         /\ (x + 99) \div 100 = (x \div 100) + (IF x % 100 = 0 THEN 0 ELSE 1)
<1>1. x \div 100 \in Nat /\ x % 100 \in 0..99 /\ x = 100 * (x \div 100) + (x % 100)
  OBVIOUS
<1>2. (x + 99) \div 100 = (x \div 100) + (IF x % 100 = 0 THEN 0 ELSE 1)
  OBVIOUS
<1> QED BY <1>1, <1>2

LEMMA Parts ==
  ASSUME NEW d \in Nat, NEW r \in 0..100, NEW s \in 0..100, r <= s
  PROVE  d * r \in Nat /\ d * s \in Nat /\ d * r <= d * s /\ d * s <= d * 100
<1>1. d * r \in Nat /\ d * s \in Nat /\ d * (s - r) \in Nat /\ d * (100 - s) \in Nat
  OBVIOUS
<1>2. d * (s - r) = d * s - d * r /\ d * (100 - s) = d * 100 - d * s
  OBVIOUS
<1> QED BY <1>1, <1>2

\* A sorted list of naturals
Ascending(s) ==
  /\ s \in Seq(Nat) /\ s # <<>>
  /\ \A i, j \in DOMAIN s : i < j => s[i] <= s[j]

\* p lies r hundredths of the way from the value at d + 1 to the next.
LiesBetween(p, s, d, r) ==
  /\ p \in Nat /\ 100 * s[d + 1] <= p
  /\ r = 0 => p = 100 * s[d + 1]
  /\ r # 0 => /\ d + 2 <= Len(s) /\ p <= 100 * s[d + 2]
              /\ \E gap \in Nat : s[d + 2] = s[d + 1] + gap /\ p = 100 * s[d + 1] + gap * r

\* A percentile is between the values whose positions enclose its rank.
LEMMA PercentileBetween ==
  ASSUME NEW s, Ascending(s), NEW quantile \in 0..100
  PROVE  \E d \in 0..Len(s) - 1 : \E r \in 0..99 :
           /\ quantile * (Len(s) - 1) = 100 * d + r
           /\ LiesBetween(Percentile(s, quantile), s, d, r)
<1> DEFINE n == Len(s)
           rank == quantile * (n - 1)
           d == rank \div 100
           r == rank % 100
           p == Percentile(s, quantile)
<1>1. n \in Nat \ {0} /\ DOMAIN s = 1..n /\ \A i \in 1..n : s[i] \in Nat
  BY EmptySeq, LenProperties DEF Ascending
<1>2. \A i, j \in 1..n : i < j => s[i] <= s[j]
  BY <1>1 DEF Ascending
<1>3. p = IF r = 0 THEN 100 * s[d + 1] ELSE 100 * s[d + 1] + (s[d + 2] - s[d + 1]) * r
  BY Zenon DEF Percentile
<1> HIDE DEF p, n
<1>4. rank \in Nat /\ rank <= 100 * (n - 1)
  <2> DEFINE k == n - 1
  <2>1. k \in Nat
    BY <1>1
  <2> HIDE DEF k
  <2>2. quantile * k = k * quantile /\ k * quantile \in Nat /\ k * quantile <= k * 100
    BY <2>1, Parts
  <2>3. rank = quantile * k
    BY DEF k
  <2> HIDE DEF rank
  <2> QED BY <2>1, <2>2, <2>3 DEF k
<1>5. rank = quantile * (Len(s) - 1)
  BY DEF n
<1> HIDE DEF rank
<1>6. d \in Nat /\ r \in 0..99 /\ rank = 100 * d + r
  BY <1>4, Hundredths
<1> HIDE DEF d, r
<1>7. d \in 0..n - 1 /\ (r # 0 => d + 2 <= n)
  BY <1>1, <1>4, <1>6
<1>8. d + 1 \in 1..n /\ (r # 0 => d + 2 \in 1..n)
  BY <1>1, <1>7
<1>9. s[d + 1] \in Nat /\ (r # 0 => s[d + 2] \in Nat /\ s[d + 1] <= s[d + 2])
  <2>1. r # 0 => d + 1 < d + 2
    BY <1>6
  <2> QED BY <1>1, <1>2, <1>8, <2>1
<1>10. LiesBetween(p, s, d, r)
  <2>1. CASE r = 0
    <3>1. p = 100 * s[d + 1]
      BY <1>3, <2>1
    <3> QED BY <1>9, <2>1, <3>1 DEF LiesBetween
  <2>2. CASE r # 0
    <3> DEFINE low == s[d + 1]
               high == s[d + 2]
               gap == high - low
    <3>1. low \in Nat /\ high \in Nat /\ low <= high
      BY <1>9, <2>2
    <3>2. p = 100 * low + gap * r
      BY <1>3, <2>2
    <3> HIDE DEF low, high
    <3>3. gap \in Nat /\ high = low + gap
      BY <3>1
    <3> HIDE DEF gap
    <3>4. gap * r \in Nat /\ gap * r <= gap * 100
      BY <1>6, <3>3, Parts
    <3>5. p \in Nat /\ 100 * low <= p /\ p <= 100 * high
      BY <3>1, <3>2, <3>3, <3>4
    <3>6. /\ p \in Nat /\ 100 * s[d + 1] <= p
          /\ d + 2 <= Len(s) /\ p <= 100 * s[d + 2]
          /\ s[d + 2] = s[d + 1] + gap /\ p = 100 * s[d + 1] + gap * r
      BY <1>7, <2>2, <3>2, <3>3, <3>5, Zenon DEF low, high, n
    <3> QED BY <2>2, <3>3, <3>6, Zenon DEF LiesBetween
  <2> QED BY <2>1, <2>2
<1> QED BY <1>5, <1>6, <1>7, <1>10 DEF n, p

\* Of two quantiles, the larger has the larger percentile.
LEMMA PercentileMonotone ==
  ASSUME NEW s, Ascending(s), NEW a \in 0..100, NEW b \in 0..100, a <= b
  PROVE  Percentile(s, a) <= Percentile(s, b)
<1> DEFINE n == Len(s)
           P == Percentile(s, a)
           Q == Percentile(s, b)
<1>1. n \in Nat \ {0} /\ DOMAIN s = 1..n /\ \A i \in 1..n : s[i] \in Nat
  BY EmptySeq, LenProperties DEF Ascending
<1>2. \A i, j \in 1..n : i < j => s[i] <= s[j]
  BY <1>1 DEF Ascending
<1>3. PICK d \in 0..n - 1 : \E r \in 0..99 : a * (n - 1) = 100 * d + r /\ LiesBetween(P, s, d, r)
  BY PercentileBetween
<1>4. PICK r \in 0..99 : a * (n - 1) = 100 * d + r /\ LiesBetween(P, s, d, r)
  BY <1>3
<1>5. PICK e \in 0..n - 1 : \E t \in 0..99 : b * (n - 1) = 100 * e + t /\ LiesBetween(Q, s, e, t)
  BY PercentileBetween
<1>6. PICK t \in 0..99 : b * (n - 1) = 100 * e + t /\ LiesBetween(Q, s, e, t)
  BY <1>5
<1>7. 100 * d + r <= 100 * e + t
  <2> DEFINE k == n - 1
  <2>1. k \in Nat /\ a * k = 100 * d + r /\ b * k = 100 * e + t
    BY <1>1, <1>4, <1>6
  <2> HIDE DEF k, n, P, Q
  <2>2. k * a <= k * b
    BY <2>1, Parts
  <2>3. a * k = k * a /\ b * k = k * b
    BY <2>1
  <2> QED BY <2>1, <2>2, <2>3
<1> HIDE DEF n
<1>8. n \in Nat /\ d \in Nat /\ e \in Nat /\ d + 1 \in 1..n /\ e + 1 \in 1..n
  BY <1>1
<1>9. s[d + 1] \in Nat /\ s[e + 1] \in Nat
  BY <1>1, <1>8
<1> HIDE DEF P, Q
<1>10. CASE d = e
  <2>1. r <= t
    BY <1>7, <1>8, <1>10
  <2>2. CASE r = 0
    <3>1. P = 100 * s[d + 1] /\ 100 * s[e + 1] <= Q
      BY <1>4, <1>6, <2>2 DEF LiesBetween
    <3> QED BY <1>10, <3>1 DEF P, Q
  <2>3. CASE r # 0
    <3>1. t # 0
      BY <2>1, <2>3
    <3>2. PICK gap \in Nat : s[d + 2] = s[d + 1] + gap /\ P = 100 * s[d + 1] + gap * r
      BY <1>4, <2>3 DEF LiesBetween
    <3>3. PICK g \in Nat : s[d + 2] = s[d + 1] + g /\ Q = 100 * s[d + 1] + g * t
      BY <1>6, <1>10, <3>1 DEF LiesBetween
    <3>4. g = gap
      BY <1>9, <3>2, <3>3
    <3>5. gap * r \in Nat /\ gap * t \in Nat /\ gap * r <= gap * t
      BY <2>1, Parts
    <3>6. Q = 100 * s[d + 1] + gap * t
      BY <3>3, <3>4
    <3> QED BY <1>9, <3>2, <3>5, <3>6 DEF P, Q
  <2> QED BY <2>2, <2>3
<1>11. CASE d # e
  <2>1. d + 1 <= e
    BY <1>7, <1>8, <1>11
  <2>2. P <= 100 * s[e + 1]
    <3>1. CASE r = 0
      <4>1. s[d + 1] <= s[e + 1] /\ P = 100 * s[d + 1]
        BY <1>2, <1>4, <1>8, <2>1, <3>1 DEF LiesBetween
      <4> QED BY <1>9, <4>1
    <3>2. CASE r # 0
      <4>1. P <= 100 * s[d + 2] /\ P \in Nat
        BY <1>4, <3>2 DEF LiesBetween
      <4>2. d + 2 \in 1..n
        BY <1>8, <2>1
      <4>3. s[d + 2] <= s[e + 1] /\ s[d + 2] \in Nat
        <5>1. CASE d + 2 = e + 1
          BY <1>1, <4>2, <5>1, <1>9
        <5>2. CASE d + 2 # e + 1
          <6>1. d + 2 < e + 1
            BY <1>8, <2>1, <5>2
          <6> QED BY <1>1, <1>2, <1>8, <4>2, <6>1
        <5> QED BY <5>1, <5>2
      <4> QED BY <1>9, <4>1, <4>3
    <3> QED BY <3>1, <3>2
  <2>3. 100 * s[e + 1] <= Q /\ P \in Nat /\ Q \in Nat
    BY <1>4, <1>6 DEF LiesBetween
  <2> QED BY <1>9, <2>2, <2>3 DEF P, Q
<1> QED BY <1>10, <1>11

\* As many elements as an interval that is mapped into them one to one
LEMMA IntervalFits ==
  ASSUME NEW a \in Nat, NEW b \in Nat, a <= b, NEW S, IsFiniteSet(S), NEW f,
         \A k \in a..b : f[k] \in S, \A k, l \in a..b : f[k] = f[l] => k = l
  PROVE  Cardinality(S) >= b - a + 1
<1> DEFINE g == [k \in a..b |-> f[k]]
<1>1. g \in Injection(a..b, S)
  BY DEF Injection, IsInjective
<1>2. Cardinality(a..b) = b - a + 1
  BY FS_Interval
<1> HIDE DEF g
<1> QED BY <1>1, <1>2, FS_Injection, FS_CardinalityType

\* The percentile of the sorted values is a quantile of the values.
LEMMA PercentileIsQuantile ==
  ASSUME NEW s \in Seq(Nat), s # <<>>, NEW position, NEW sorted, SortsBy(sorted, s, position),
         Ascending(sorted), Len(sorted) = Len(s), NEW quantile \in 0..100
  PROVE  IsQuantile(Percentile(sorted, quantile), s, quantile)
<1> DEFINE n == Len(s)
           rank == quantile * (n - 1)
           p == Percentile(sorted, quantile)
           below == {i \in DOMAIN s : 100 * s[i] <= p}
           above == {i \in DOMAIN s : 100 * s[i] >= p}
<1>0. n \in Nat \ {0} /\ DOMAIN s = 1..n
  BY EmptySeq, LenProperties
<1>d. PICK d \in 0..n - 1 : \E r \in 0..99 : rank = 100 * d + r /\ LiesBetween(p, sorted, d, r)
  BY PercentileBetween
<1>r. PICK r \in 0..99 : rank = 100 * d + r /\ LiesBetween(p, sorted, d, r)
  BY <1>d
<1>1. /\ p \in Nat /\ 100 * sorted[d + 1] <= p
      /\ r = 0 => p = 100 * sorted[d + 1]
      /\ r # 0 => d + 2 <= n /\ p <= 100 * sorted[d + 2]
  BY <1>r DEF LiesBetween
<1>p. DOMAIN s = DOMAIN sorted
  BY <1>0, LenProperties DEF Ascending
<1>3. /\ IsFiniteSet(1..n)
      /\ \A k \in 1..n : position[k] \in 1..n /\ sorted[k] = s[position[k]] /\ sorted[k] \in Nat
      /\ \A k, l \in 1..n : position[k] = position[l] => k = l
      /\ \A k, l \in 1..n : k <= l => sorted[k] <= sorted[l]
  <2>1. IsFiniteSet(1..n)
    BY <1>0, FS_Interval
  <2>2. \A k \in 1..n : sorted[k] \in Nat
    BY <1>0, <1>p DEF Ascending
  <2> HIDE DEF n, rank, p, below, above
  <2>3. /\ position \in [1..n -> 1..n]
        /\ \A k, l \in 1..n : position[k] = position[l] => k = l
        /\ \A k \in 1..n : sorted[k] = s[position[k]]
        /\ \A k, l \in 1..n : k < l => sorted[k] <= sorted[l]
    BY <1>0 DEF SortsBy, IsInjective
  <2>4. \A k, l \in 1..n : k <= l => sorted[k] <= sorted[l]
    <3> TAKE k, l \in 1..n
    <3> QED BY <2>2, <2>3
  <2> QED BY <2>1, <2>2, <2>3, <2>4
<1>4. /\ below = {i \in 1..n : 100 * s[i] <= p} /\ IsFiniteSet(below)
      /\ above = {i \in 1..n : 100 * s[i] >= p} /\ IsFiniteSet(above)
  <2>1. below \in SUBSET (1..n) /\ above \in SUBSET (1..n)
    BY <1>0
  <2> QED BY <1>0, <1>3, <2>1, FS_Subset
<1>2. rank \div 100 = d /\ (rank + 99) \div 100 = d + (IF r = 0 THEN 0 ELSE 1)
  <2> HIDE DEF n, rank, p, below, above
  <2>1. rank = 100 * d + r /\ d \in Nat /\ r \in 0..99
    BY <1>0, <1>r
  <2>2. rank \div 100 = d /\ rank % 100 = r /\ rank \in Nat
    BY <2>1
  <2> QED BY <2>2, Hundredths
<1> HIDE DEF n, rank, p, below, above
<1>5. Cardinality(below) > d
  <2>1. \A k \in 1..d + 1 : k \in 1..n /\ k <= d + 1 /\ d + 1 \in 1..n
    BY <1>0, <1>1
  <2>2. \A k \in 1..d + 1 : sorted[k] <= sorted[d + 1]
    BY <1>3, <2>1
  <2>3. \A k \in 1..d + 1 : position[k] \in below
    <3> TAKE k \in 1..d + 1
    <3>1. sorted[k] \in Nat /\ sorted[k] = s[position[k]] /\ position[k] \in 1..n
      BY <1>3, <2>1
    <3>2. sorted[k] <= sorted[d + 1] /\ sorted[d + 1] \in Nat
      BY <1>3, <2>1, <2>2
    <3>3. 100 * sorted[k] <= p
      BY <1>1, <3>1, <3>2
    <3> QED BY <1>4, <3>1, <3>3
  <2>4. \A k, l \in 1..d + 1 : position[k] = position[l] => k = l
    BY <1>3, <2>1
  <2>5. Cardinality(below) >= (d + 1) - 1 + 1
    <3> DEFINE u == d + 1
    <3>1. 1 \in Nat /\ u \in Nat /\ 1 <= u
      BY <1>0
    <3>2. /\ \A k \in 1..u : position[k] \in below
          /\ \A k, l \in 1..u : position[k] = position[l] => k = l
      BY <2>3, <2>4
    <3> HIDE DEF u
    <3>3. Cardinality(below) >= u - 1 + 1
      BY <1>4, <3>1, <3>2, IntervalFits
    <3> QED BY <3>3 DEF u
  <2>6. Cardinality(below) \in Nat
    BY <1>4, FS_CardinalityType
  <2> QED BY <1>0, <1>1, <2>5, <2>6
<1>6. Cardinality(above) >= n - (d + (IF r = 0 THEN 0 ELSE 1))
  <2> DEFINE u == IF r = 0 THEN d + 1 ELSE d + 2
  <2>1. u \in 1..n /\ p <= 100 * sorted[u]
    BY <1>0, <1>1
  <2>2. n - u + 1 = n - (d + (IF r = 0 THEN 0 ELSE 1))
    BY <1>0, <1>1
  <2> HIDE DEF u
  <2>3. \A k \in u..n : k \in 1..n /\ u <= k
    BY <1>0, <1>1, <2>1
  <2>4. \A k \in u..n : position[k] \in above
    <3> TAKE k \in u..n
    <3>1. sorted[k] \in Nat /\ sorted[k] = s[position[k]] /\ position[k] \in 1..n
      BY <1>3, <2>3
    <3>2. sorted[u] <= sorted[k] /\ sorted[u] \in Nat
      BY <1>3, <2>1, <2>3
    <3>3. 100 * sorted[k] >= p
      BY <1>0, <1>1, <2>1, <3>1, <3>2
    <3> QED BY <1>4, <3>1, <3>3
  <2>5. \A k, l \in u..n : position[k] = position[l] => k = l
    BY <1>3, <2>3
  <2>6. Cardinality(above) >= n - u + 1
    <3>1. u \in Nat /\ n \in Nat /\ u <= n
      BY <1>0, <1>1, <2>1
    <3> QED BY <1>4, <2>4, <2>5, <3>1, IntervalFits
  <2> QED BY <2>2, <2>6
<1>7. IsQuantile(p, s, quantile) <=>
        /\ Cardinality(below) > rank \div 100
        /\ Cardinality(above) >= n - (rank + 99) \div 100
  BY DEF IsQuantile, n, rank, below, above
<1> QED BY <1>2, <1>5, <1>6, <1>7 DEF p

------------------------------------------------------------------------------
(* The report *)

LEMMA AnyHookAssumed == AnyHook!SchedulerAssumption
BY SchedulerAssumption
   DEF SchedulerAssumption, AnyHook!SchedulerAssumption, Validated, AnyHook!Validated,
       StageType, AnyHook!StageType, DecisionType, AnyHook!DecisionType,
       IsFiniteSet, AnyHook!IsFiniteSet

\* Under every policy, too, what tasks were accounted for lies in the past.
LEMMA ObservedByNow == ObserveSpec => []FinishedByNow
<1>1. AnyHook!FinishedByNow => FinishedByNow
  BY DEF FinishedByNow, AnyHook!FinishedByNow, Finished, AnyHook!Finished, Account,
         AnyHook!Account
<1>2. AnyHook!Spec => []AnyHook!FinishedByNow
  BY AnyHookAssumed, AnyHook!FinishedAreByNow
<1> QED BY <1>1, <1>2, PoliciesAreHooks, PTL

\* What completed is what finished.
LEMMA CompletedAreFinished ==
  ASSUME IInv
  PROVE  /\ completedTasks \in Seq(Task)
         /\ \A i \in DOMAIN completedTasks :
              completedTasks[i] \in tasks /\ Finished(completedTasks[i])
         /\ {completedTasks[i] : i \in 1..Len(completedTasks)} = {t \in tasks : Finished(t)}
         /\ Len(completedTasks) = Cardinality({t \in tasks : Finished(t)})
<1> DEFINE c == completedTasks
           n == Len(c)
           done == {t \in tasks : Finished(t)}
<1>1. c \in Seq(Task) /\ IsInjective(c) /\ Range(c) = {t \in Task : Finished(t)}
      /\ tasks \in SUBSET Task
  BY DEF IInv, TypeOK, CompletedOnce
<1>2. n \in Nat /\ DOMAIN c = 1..n
  BY <1>1, LenProperties
<1>3. \A t \in Task : Finished(t) => t \in tasks
  <2> SUFFICES ASSUME NEW t \in Task, Finished(t) PROVE t \in tasks
    OBVIOUS
  <2>1. Len(Stages[t]) \in Nat \ {0}
    BY SchedulerAssumption, EmptySeq, LenProperties DEF SchedulerAssumption, Validated
  <2> QED BY <2>1 DEF IInv, StagesInOrder, Finished
<1>4. Range(c) = done
  BY <1>1, <1>3
<1>5. {c[i] : i \in 1..n} = done
  <2> HIDE DEF c, n, done
  <2> QED BY <1>2, <1>4 DEF Range
<1>6. n = Cardinality(done)
  <2>1. c \in Bijection(1..n, done)
    <3> HIDE DEF c, n, done
    <3>1. c \in [1..n -> done]
      <4>1. c = [i \in 1..n |-> c[i]]
        BY <1>1, <1>2
      <4>2. \A i \in 1..n : c[i] \in done
        BY <1>5
      <4> QED BY <4>1, <4>2
    <3>2. \A y \in done : \E i \in 1..n : c[i] = y
      BY <1>5
    <3>3. \A i, j \in 1..n : c[i] = c[j] => i = j
      BY <1>1, <1>2 DEF IsInjective
    <3> QED BY <3>1, <3>2, <3>3 DEF Bijection, Injection, Surjection, IsInjective
  <2>2. ExistsBijection(1..n, done)
    BY <2>1 DEF ExistsBijection
  <2>3. IsFiniteSet(1..n) /\ Cardinality(1..n) = n
    <3> HIDE DEF n
    <3>1. /\ IsFiniteSet(1..n)
          /\ Cardinality(1..n) = IF 1 > n THEN 0 ELSE n - 1 + 1
      BY <1>2, FS_Interval
    <3> QED BY <1>2, <3>1
  <2> HIDE DEF n, done
  <2> QED BY <2>2, <2>3, FS_Bijection
<1>7. \A i \in DOMAIN c : c[i] \in done
  BY <1>2, <1>5
<1> HIDE DEF c
<1> QED BY <1>1, <1>5, <1>6, <1>7 DEF c

\* The statistics of the latencies
LEMMA StatsAreExact ==
  ASSUME NEW s \in Seq(Nat), s # <<>>, NEW stats, stats = LatencyStats(s)
  PROVE  /\ IsQuantile(stats.p50, s, 50)
         /\ IsQuantile(stats.p95, s, 95)
         /\ IsQuantile(stats.p99, s, 99)
         /\ stats.min <= stats.max
         /\ 100 * stats.min <= stats.p50 /\ stats.p50 <= stats.p95
         /\ stats.p95 <= stats.p99 /\ stats.p99 <= 100 * stats.max
<1> DEFINE sorted == SortedUp(s)
           n == Len(s)
<1>1. PICK position : SortsBy(sorted, s, position)
  BY SortedUpSorts
<1>2. n \in Nat \ {0} /\ DOMAIN s = 1..n
  BY EmptySeq, LenProperties
<1>3. Ascending(sorted) /\ Len(sorted) = n
  <2> HIDE DEF sorted, n
  <2>p. position \in [1..n -> 1..n]
    BY <1>1, <1>2 DEF SortsBy
  <2>1. \A k \in 1..n : s[position[k]] \in Nat
    <3> TAKE k \in 1..n
    <3>1. position[k] \in 1..n
      BY <2>p
    <3> QED BY <1>2, <3>1
  <2>2. sorted = [k \in 1..n |-> s[position[k]]]
    BY <1>1, <1>2 DEF SortsBy
  <2>3. sorted \in Seq(Nat) /\ Len(sorted) = n /\ sorted # <<>> /\ DOMAIN sorted = 1..n
    BY <1>2, <2>1, <2>2
  <2>4. \A i, j \in 1..n : i < j => sorted[i] <= sorted[j]
    BY <1>1, <1>2 DEF SortsBy
  <2> QED BY <2>3, <2>4 DEF Ascending
<1>4. /\ stats.min = sorted[1] /\ stats.max = sorted[n]
      /\ stats.p50 = Percentile(sorted, 50) /\ stats.p95 = Percentile(sorted, 95)
      /\ stats.p99 = Percentile(sorted, 99)
  BY <1>3 DEF LatencyStats
<1> HIDE DEF sorted, n
<1>5. \A q \in 0..100 : IsQuantile(Percentile(sorted, q), s, q)
  BY <1>1, <1>3, PercentileIsQuantile DEF n
<1>6. \A a, b \in 0..100 : a <= b => Percentile(sorted, a) <= Percentile(sorted, b)
  BY <1>3, PercentileMonotone
<1>7. /\ \A k \in 1..n : sorted[k] \in Nat
      /\ \A i, j \in 1..n : i <= j => sorted[i] <= sorted[j]
  <2>1. DOMAIN sorted = 1..n /\ \A k \in 1..n : sorted[k] \in Nat
    BY <1>3, LenProperties DEF Ascending
  <2>2. \A i, j \in 1..n : i < j => sorted[i] <= sorted[j]
    BY <1>3, <2>1 DEF Ascending
  <2> QED BY <1>2, <2>1, <2>2
<1>8. \A q \in 0..100 :
        100 * sorted[1] <= Percentile(sorted, q) /\ Percentile(sorted, q) <= 100 * sorted[n]
  <2> TAKE q \in 0..100
  <2>1. PICK d \in 0..n - 1 : \E r \in 0..99 : LiesBetween(Percentile(sorted, q), sorted, d, r)
    BY <1>3, PercentileBetween
  <2>2. PICK r \in 0..99 : LiesBetween(Percentile(sorted, q), sorted, d, r)
    BY <2>1
  <2>3. /\ 1 \in 1..n /\ n \in 1..n /\ d + 1 \in 1..n /\ 1 <= d + 1 /\ d + 1 <= n
        /\ r # 0 => d + 2 \in 1..n /\ d + 2 <= n
    BY <1>2, <1>3, <2>2 DEF LiesBetween
  <2>4. /\ sorted[1] <= sorted[d + 1] /\ sorted[d + 1] <= sorted[n]
        /\ sorted[1] \in Nat /\ sorted[d + 1] \in Nat /\ sorted[n] \in Nat
        /\ r # 0 => sorted[d + 2] <= sorted[n] /\ sorted[d + 2] \in Nat
    BY <1>7, <2>3
  <2>5. /\ Percentile(sorted, q) \in Nat /\ 100 * sorted[d + 1] <= Percentile(sorted, q)
        /\ r = 0 => Percentile(sorted, q) = 100 * sorted[d + 1]
        /\ r # 0 => Percentile(sorted, q) <= 100 * sorted[d + 2]
    BY <2>2 DEF LiesBetween
  <2>6. 100 * sorted[1] <= Percentile(sorted, q)
    BY <2>4, <2>5
  <2>7. CASE r = 0
    BY <2>4, <2>5, <2>6, <2>7
  <2>8. CASE r # 0
    <3>1. /\ sorted[d + 2] <= sorted[n] /\ sorted[d + 2] \in Nat /\ sorted[n] \in Nat
          /\ Percentile(sorted, q) \in Nat /\ Percentile(sorted, q) <= 100 * sorted[d + 2]
      BY <2>4, <2>5, <2>8
    <3> QED BY <2>6, <3>1
  <2> QED BY <2>7, <2>8
<1>9. sorted[1] <= sorted[n]
  BY <1>2, <1>7
<1>10. 50 \in 0..100 /\ 95 \in 0..100 /\ 99 \in 0..100
  OBVIOUS
<1>11. /\ Percentile(sorted, 50) <= Percentile(sorted, 95)
       /\ Percentile(sorted, 95) <= Percentile(sorted, 99)
  BY <1>6, <1>10
<1> QED BY <1>4, <1>5, <1>8, <1>9, <1>10, <1>11

\* The recent reorders, when fewer tasks completed than marks are kept for, too
LEMMA RecentOfAll ==
  ASSUME MetricsInv, RecentReordersExact, NEW n, n = Len(completedTasks), n > 0,
         NEW k, k = IF n < ReorderWindow THEN n ELSE ReorderWindow
  PROVE  RecentReorders(metrics, n, ReorderWindow) =
           Cardinality({i \in 1..Len(metrics.reorderLog) : metrics.reorderLog[i].at >= n - k})
<1> DEFINE log == metrics.reorderLog
           marks(threshold) == {i \in 1..Len(log) : log[i].at >= threshold}
<1>1. n \in Nat /\ ReorderWindow \in Nat /\ ReorderWindow > 0
  BY WindowsAssumed DEF MetricsInv, IInv, TypeOK
<1>2. log \in Seq(Mark) /\ \A i \in 1..Len(log) : log[i].at \in Nat
  <2>1. metrics \in MetricsType
    BY DEF MetricsInv, Sound
  <2>2. log \in Seq(Mark)
    BY <2>1 DEF MetricsType
  <2> HIDE DEF log
  <2>3. \A i \in 1..Len(log) : log[i] \in Mark
    BY <2>2
  <2> QED BY <2>2, <2>3 DEF Mark
<1>3. RecentReorders(metrics, n, ReorderWindow) = Cardinality(marks(n - ReorderWindow))
  <2>1. ReorderWindow \in 1..ReorderWindow
    BY <1>1
  <2> QED BY <2>1 DEF RecentReordersExact
<1> HIDE DEF log
<1>4. marks(n - ReorderWindow) = marks(n - k)
  BY <1>1, <1>2
<1> QED BY <1>3, <1>4 DEF log

\* A report, whenever it is made, is true to its run: each completed task is in it
\* once, with a time in the system that lies in the past; the percentiles enclose
\* the share of tasks that they are named for; no queue was deeper than the peak.
THEOREM ReportsAreExact == ObserveSpec => []ReportExact
<1>1. MetricsInv /\ FinishedByNow /\ RecentReordersExact => ReportExact
  <2> SUFFICES ASSUME MetricsInv, FinishedByNow, RecentReordersExact
               PROVE  ReportExact
    OBVIOUS
  <2> DEFINE c == completedTasks
             n == Len(c)
             timings == [i \in DOMAIN c |-> Timing(c[i])]
             s == [i \in DOMAIN timings |-> Latency(timings[i])]
             queues == [i \in DOMAIN timings |-> timings[i].queue]
             services == [i \in DOMAIN timings |-> timings[i].service]
             report == ComputeRunMetrics
             k == IF n < ReorderWindow THEN n ELSE ReorderWindow
  <2>0. IInv
    BY DEF MetricsInv
  <2>1. /\ c \in Seq(Task)
        /\ \A i \in DOMAIN c : c[i] \in tasks /\ Finished(c[i])
        /\ {c[i] : i \in 1..n} = {t \in tasks : Finished(t)}
        /\ n = Cardinality({t \in tasks : Finished(t)})
    BY <2>0, CompletedAreFinished
  <2>2. n \in Nat /\ DOMAIN c = 1..n /\ \A i \in 1..n : c[i] \in Task
    BY <2>1, LenProperties
  <2>3. \A t \in Task : /\ queueTime[t] \in Nat /\ serviceTime[t] \in Nat
                        /\ arrivalTime[t] \in Nat /\ currentTime \in Nat
                        /\ Timing(t).id = t /\ Timing(t).queue = queueTime[t]
                        /\ Timing(t).service = serviceTime[t]
                        /\ Latency(Timing(t)) = queueTime[t] + serviceTime[t]
    BY <2>0 DEF IInv, TypeOK, Timing, Latency
  <2> DEFINE stats == IF Len(timings) = 0 THEN [count |-> 0] ELSE LatencyStats(s)
             recent == RecentReorders(metrics, Len(timings), ReorderWindow)
             size == IF Len(timings) < ReorderWindow THEN Len(timings) ELSE ReorderWindow
             sums == <<SumFunction(queues), SumFunction(services), SumFunction(s)>>
             peak == metrics.peakDepth
  <2>4. report = [tasks |-> timings, queue |-> sums[1], service |-> sums[2], latency |-> sums[3],
                  stats |-> stats, peak |-> peak, recent |-> recent, recentTasks |-> size]
    <3> DEFINE q == SumFunction(queues)
               v == SumFunction(services)
               l == SumFunction(s)
    <3>1. report = [tasks |-> timings, queue |-> q, service |-> v, latency |-> l,
                    stats |-> stats, peak |-> peak, recent |-> recent, recentTasks |-> size]
      BY Zenon DEF ComputeRunMetrics, SumOf
    <3>2. sums[1] = q /\ sums[2] = v /\ sums[3] = l
      OBVIOUS
    <3> HIDE DEF report, timings, stats, recent, size, peak, sums, q, v, l
    <3> QED BY <3>1, <3>2
  <2>5. /\ DOMAIN timings = 1..n /\ Len(timings) = n
        /\ DOMAIN s = 1..n /\ Len(s) = n /\ s \in Seq(Nat)
        /\ \A i \in 1..n :
             /\ timings[i] = Timing(c[i])
             /\ s[i] = queueTime[c[i]] + serviceTime[c[i]] /\ s[i] \in Nat
             /\ queues[i] = queueTime[c[i]] /\ services[i] = serviceTime[c[i]]
             /\ queueTime[c[i]] \in Nat /\ serviceTime[c[i]] \in Nat
        /\ DOMAIN queues = 1..n /\ DOMAIN services = 1..n
    <3> HIDE DEF c, n
    <3>1. timings = [i \in 1..n |-> Timing(c[i])]
      BY <2>2
    <3> HIDE DEF timings
    <3>2. DOMAIN timings = 1..n /\ Len(timings) = n
      BY <2>2, <3>1
    <3>3. s = [i \in 1..n |-> queueTime[c[i]] + serviceTime[c[i]]]
      <4>1. \A i \in 1..n : Latency(timings[i]) = queueTime[c[i]] + serviceTime[c[i]]
        BY <2>2, <2>3, <3>1
      <4> QED BY <3>2, <4>1
    <3>4. \A i \in 1..n : queueTime[c[i]] \in Nat /\ serviceTime[c[i]] \in Nat
      BY <2>2, <2>3
    <3>5. \A i \in 1..n : timings[i].queue = queueTime[c[i]] /\ timings[i].service = serviceTime[c[i]]
      BY <2>2, <2>3, <3>1
    <3>6. /\ queues = [i \in 1..n |-> queueTime[c[i]]]
          /\ services = [i \in 1..n |-> serviceTime[c[i]]]
      BY <3>2, <3>5
    <3> HIDE DEF s, queues, services
    <3> QED BY <2>2, <3>1, <3>2, <3>3, <3>4, <3>6
  <2>6. report.latency = report.queue + report.service
    <3>1. /\ SumFunction(queues) = SumFunctionOnSet(queues, 1..n)
          /\ SumFunction(services) = SumFunctionOnSet(services, 1..n)
          /\ SumFunction(s) = SumFunctionOnSet(s, 1..n)
      <4>1. \A f : SumFunction(f) = SumFunctionOnSet(f, DOMAIN f)
        BY DEF SumFunction, SumFunctionOnSet, FoldFunction
      <4> HIDE DEF queues, services, s
      <4> QED BY <2>5, <4>1
    <3>2. \A i \in 1..n : queues[i] \in Int /\ services[i] \in Int /\ s[i] = queues[i] + services[i]
      <4> HIDE DEF queues, services, s, n, c, timings
      <4> TAKE i \in 1..n
      <4> QED BY <2>5
    <3>3. IsFiniteSet(1..n)
      BY <2>2, FS_Interval
    <3> HIDE DEF queues, services, s, n, report
    <3>4. SumFunction(s) = SumFunction(queues) + SumFunction(services)
      <4> DEFINE I == 1..n
      <4>1. /\ \A i \in I : queues[i] \in Int /\ services[i] \in Int /\ s[i] = queues[i] + services[i]
            /\ IsFiniteSet(I)
        BY <3>2, <3>3
      <4> HIDE DEF I
      <4>2. SumFunctionOnSet(s, I) = SumFunctionOnSet(queues, I) + SumFunctionOnSet(services, I)
        BY <4>1, SumAdds
      <4> QED BY <3>1, <4>2 DEF I
    <3> HIDE DEF timings, stats, recent, size, peak
    <3> QED BY <2>4, <3>4
  <2>7. \A i \in 1..n : Latency(report.tasks[i]) <= currentTime - arrivalTime[report.tasks[i].id]
    <3> TAKE i \in 1..n
    <3>1. c[i] \in Task /\ Finished(c[i]) /\ i \in DOMAIN c
      BY <2>1, <2>2
    <3>2. Account(c[i]) <= currentTime
      BY <3>1 DEF FinishedByNow
    <3>3. report.tasks[i] = Timing(c[i])
      <4> HIDE DEF report, timings, c, stats, recent, size, peak, sums, n
      <4> QED BY <2>4, <2>5
    <3> HIDE DEF report, c
    <3>4. queueTime[c[i]] + serviceTime[c[i]] <= currentTime - arrivalTime[c[i]]
      BY <2>3, <3>1, <3>2 DEF Account
    <3> QED BY <2>3, <3>1, <3>3, <3>4
  <2>8. /\ {report.tasks[i].id : i \in 1..n} = {t \in tasks : Finished(t)}
        /\ report.tasks = timings
    <3>1. report.tasks = timings
      <4> HIDE DEF report, timings, stats, recent, size, peak, sums
      <4> QED BY <2>4
    <3>2. \A i \in 1..n : report.tasks[i].id = c[i]
      <4> HIDE DEF report, timings, c, n
      <4> QED BY <2>2, <2>3, <2>5, <3>1
    <3> HIDE DEF report, c, n, timings
    <3> QED BY <2>1, <3>1, <3>2
  <2>9. n > 0 =>
          /\ IsQuantile(report.stats.p50, s, 50)
          /\ IsQuantile(report.stats.p95, s, 95)
          /\ IsQuantile(report.stats.p99, s, 99)
          /\ report.stats.min <= report.stats.max
          /\ 100 * report.stats.min <= report.stats.p50 /\ report.stats.p50 <= report.stats.p95
          /\ report.stats.p95 <= report.stats.p99 /\ report.stats.p99 <= 100 * report.stats.max
    <3> SUFFICES ASSUME n > 0
                 PROVE  /\ IsQuantile(report.stats.p50, s, 50)
                        /\ IsQuantile(report.stats.p95, s, 95)
                        /\ IsQuantile(report.stats.p99, s, 99)
                        /\ report.stats.min <= report.stats.max
                        /\ 100 * report.stats.min <= report.stats.p50
                        /\ report.stats.p50 <= report.stats.p95
                        /\ report.stats.p95 <= report.stats.p99
                        /\ report.stats.p99 <= 100 * report.stats.max
      OBVIOUS
    <3>1. report.stats = stats
      <4> HIDE DEF report, timings, stats, recent, size, peak, sums
      <4> QED BY <2>4
    <3>2. stats = LatencyStats(s)
      <4> HIDE DEF n, timings, s
      <4> QED BY <2>2, <2>5
    <3>3. s \in Seq(Nat) /\ s # <<>>
      <4> HIDE DEF n, s
      <4> QED BY <2>2, <2>5
    <3> HIDE DEF report, stats, s, n
    <3> QED BY <3>1, <3>2, <3>3, StatsAreExact
  <2>10. n > 0 => report.recent = Cardinality({i \in 1..Len(metrics.reorderLog) :
                                     metrics.reorderLog[i].at >= n - report.recentTasks})
    <3>1. report.recent = recent /\ report.recentTasks = size
      <4> HIDE DEF report, timings, stats, recent, size, peak, sums
      <4> QED BY <2>4
    <3>2. Len(timings) = n
      BY <2>5
    <3>3. size = k /\ recent = RecentReorders(metrics, n, ReorderWindow)
      <4> HIDE DEF timings, n
      <4> QED BY <3>2
    <3>4. n > 0 => RecentReorders(metrics, n, ReorderWindow) =
             Cardinality({i \in 1..Len(metrics.reorderLog) : metrics.reorderLog[i].at >= n - k})
      BY RecentOfAll
    <3> HIDE DEF report, recent, size, k, n
    <3> QED BY <3>1, <3>3, <3>4
  <2>11. report.peak >= Len(waitingQueue)
    <3>1. report.peak = peak
      <4> HIDE DEF report, timings, stats, recent, size, peak, sums
      <4> QED BY <2>4
    <3>2. /\ metrics.latestDepth = Len(waitingQueue) /\ metrics.latestDepth \in Nat
          /\ metrics.peakDepth \in Nat /\ metrics.latestDepth <= metrics.peakDepth
      BY DEF MetricsInv, LatestSamplesExact, Sound, MetricsType
    <3> HIDE DEF report
    <3> QED BY <3>1, <3>2
  <2>12. s = [i \in DOMAIN report.tasks |-> Latency(report.tasks[i])] /\ Len(s) = n
    <3>1. Len(s) = n
      BY <2>5
    <3> HIDE DEF report, n
    <3> QED BY <2>8, <3>1
  <2> HIDE DEF report, s, n, timings, c
  <2> QED BY <2>1, <2>6, <2>7, <2>8, <2>9, <2>10, <2>11, <2>12 DEF ReportExact, report
<1> QED BY <1>1, MetricsInvariant, ObservedByNow, RecentReordersAreExact, PTL
==============================================================================
