------------------------- MODULE PolicyProgram_proofs -------------------------
(***************************************************************************)
(* The first rule with a directive wins, for every program and snapshot.   *)
(***************************************************************************)
EXTENDS PolicyProgram, FiniteSetTheorems, TLAPS

------------------------------------------------------------------------------
(* Sorting *)

\* R orders ids totally, and before has those that come before each.
OrderedBefore(R, ids, before) ==
  /\ \A x \in ids : <<x, x>> \notin R
  /\ \A x, y, z \in ids : <<x, y>> \in R /\ <<y, z>> \in R => <<x, z>> \in R
  /\ \A x, y \in ids : x # y => <<x, y>> \in R \/ <<y, x>> \in R
  /\ \A x \in ids : before[x] = {y \in ids : <<y, x>> \in R}

\* At i, q has the element that i - 1 others come before.
ListsByRank(q, ids, before) ==
  /\ q = [i \in 1..Cardinality(ids) |-> q[i]]
  /\ \A i \in 1..Cardinality(ids) :
       (\E x \in ids : Cardinality(before[x]) = i - 1) =>
         q[i] \in ids /\ Cardinality(before[q[i]]) = i - 1

\* The elements of a finite set in a strict total order: how many come before each
\* tells its place.
LEMMA SortedByRank ==
  ASSUME NEW ids, IsFiniteSet(ids), NEW R, NEW before, NEW q,
         OrderedBefore(R, ids, before), ListsByRank(q, ids, before)
  PROVE  /\ q \in Seq(ids) /\ Len(q) = Cardinality(ids)
         /\ IsInjective(q) /\ Range(q) = ids
         /\ \A i, j \in 1..Cardinality(ids) : i < j => <<q[i], q[j]>> \in R
<1> DEFINE n == Cardinality(ids)
           rank == [x \in ids |-> Cardinality(before[x])]
<1>0. /\ \A x \in ids : <<x, x>> \notin R
      /\ \A x, y, z \in ids : <<x, y>> \in R /\ <<y, z>> \in R => <<x, z>> \in R
      /\ \A x, y \in ids : x # y => <<x, y>> \in R \/ <<y, x>> \in R
      /\ \A x \in ids : before[x] = {y \in ids : <<y, x>> \in R}
  BY DEF OrderedBefore
<1>1. n \in Nat
  BY FS_CardinalityType
<1>2. \A x \in ids : IsFiniteSet(before[x]) /\ Cardinality(before[x]) \in 0..n - 1
  <2> TAKE x \in ids
  <2>1. before[x] \in SUBSET (ids \ {x})
    <3>1. before[x] = {y \in ids : <<y, x>> \in R}
      BY <1>0
    <3>2. \A y \in before[x] : y \in ids /\ y # x
      BY <1>0, <3>1
    <3> QED BY <3>2
  <2>2. IsFiniteSet(ids \ {x}) /\ Cardinality(ids \ {x}) = n - 1
    BY FS_RemoveElement
  <2>3. IsFiniteSet(before[x]) /\ Cardinality(before[x]) <= n - 1
    BY <2>1, <2>2, FS_Subset
  <2>4. Cardinality(before[x]) \in Nat
    BY <2>3, FS_CardinalityType
  <2> QED BY <1>1, <2>3, <2>4
<1>3. \A x, y \in ids : <<x, y>> \in R => rank[x] < rank[y]
  <2> SUFFICES ASSUME NEW x \in ids, NEW y \in ids, <<x, y>> \in R
               PROVE  rank[x] < rank[y]
    OBVIOUS
  <2>1. before[x] \in SUBSET before[y] /\ before[x] # before[y]
    BY <1>0
  <2>2. Cardinality(before[x]) <= Cardinality(before[y])
        /\ Cardinality(before[x]) # Cardinality(before[y])
    BY <1>2, <2>1, FS_Subset
  <2>3. Cardinality(before[x]) \in 0..n - 1 /\ Cardinality(before[y]) \in 0..n - 1
    BY <1>2
  <2> HIDE DEF n
  <2> QED BY <1>1, <2>2, <2>3
<1>4. rank \in [ids -> 0..n - 1]
  BY <1>2
<1>5. \A x, y \in ids : rank[x] = rank[y] => x = y
  <2> SUFFICES ASSUME NEW x \in ids, NEW y \in ids, rank[x] = rank[y], x # y
               PROVE  FALSE
    OBVIOUS
  <2>1. rank[x] \in 0..n - 1 /\ rank[y] \in 0..n - 1
    BY <1>4
  <2>2. rank[x] < rank[y] \/ rank[y] < rank[x]
    BY <1>0, <1>3
  <2> HIDE DEF rank, n
  <2> QED BY <1>1, <2>1, <2>2
<1>6. rank \in Surjection(ids, 0..n - 1)
  <2>1. rank \in Injection(ids, 0..n - 1)
    <3> HIDE DEF rank
    <3> QED BY <1>4, <1>5 DEF Injection, IsInjective
  <2>2. IsFiniteSet(0..n - 1) /\ Cardinality(0..n - 1) = n
    <3> HIDE DEF n
    <3>1. /\ IsFiniteSet(0..n - 1)
          /\ Cardinality(0..n - 1) = IF 0 > n - 1 THEN 0 ELSE n - 1 - 0 + 1
      BY <1>1, FS_Interval
    <3> QED BY <1>1, <3>1
  <2> HIDE DEF rank
  <2> QED BY <2>1, <2>2, FS_Injection
<1>7. \A i \in 1..n : q[i] \in ids /\ rank[q[i]] = i - 1
  <2> TAKE i \in 1..n
  <2>1. i - 1 \in 0..n - 1
    BY <1>1
  <2>2. PICK x \in ids : rank[x] = i - 1
    BY <1>6, <2>1 DEF Surjection
  <2>3. Cardinality(before[x]) = i - 1
    BY <2>2
  <2> QED BY <2>3 DEF ListsByRank
<1> HIDE DEF rank
<1>8. DOMAIN q = 1..n /\ q \in Seq(ids) /\ Len(q) = n
  <2>1. q \in [1..n -> ids]
    BY <1>7 DEF ListsByRank
  <2> HIDE DEF n
  <2> QED BY <1>1, <2>1
<1>9. IsInjective(q)
  <2> HIDE DEF n
  <2> QED BY <1>1, <1>7, <1>8 DEF IsInjective
<1>10. \A x \in ids : rank[x] + 1 \in 1..n /\ q[rank[x] + 1] = x
  <2> TAKE x \in ids
  <2>1. rank[x] \in 0..n - 1
    BY <1>4
  <2> HIDE DEF n
  <2>2. rank[x] + 1 \in 1..n
    BY <1>1, <2>1
  <2>3. rank[q[rank[x] + 1]] = rank[x]
    BY <1>1, <1>7, <2>1, <2>2
  <2> QED BY <1>5, <1>7, <2>2, <2>3
<1>11. Range(q) = ids
  BY <1>7, <1>8, <1>10 DEF Range
<1>12. \A i, j \in 1..n : i < j => <<q[i], q[j]>> \in R
  <2> SUFFICES ASSUME NEW i \in 1..n, NEW j \in 1..n, i < j, <<q[i], q[j]>> \notin R
               PROVE  FALSE
    OBVIOUS
  <2>1. q[i] # q[j]
    BY <1>8, <1>9 DEF IsInjective
  <2>2. <<q[j], q[i]>> \in R
    BY <1>0, <1>7, <2>1
  <2>3. rank[q[j]] < rank[q[i]]
    BY <1>3, <1>7, <2>2
  <2>4. rank[q[j]] = j - 1 /\ rank[q[i]] = i - 1
    BY <1>7
  <2> HIDE DEF n
  <2> QED BY <1>1, <2>3, <2>4
<1> QED BY <1>8, <1>9, <1>11, <1>12

\* Both sorts by demand list the ids as Ranked orders them.
LEMMA DemandSorted ==
  ASSUME NEW ids \in SUBSET Int, IsFiniteSet(ids), NEW score, \A x \in ids : score[x] \in Int,
         NEW preferHost \in BOOLEAN,
         NEW q, q = SortedByDemand(ids, score, preferHost)
  PROVE  /\ q \in Seq(ids) /\ Len(q) = Cardinality(ids)
         /\ IsInjective(q) /\ Range(q) = ids
         /\ \A i, j \in 1..Cardinality(ids) :
              i < j => Ranked(q[i], q[j], score, preferHost)
<1> DEFINE R == {p \in ids \X ids : Ranked(p[1], p[2], score, preferHost)}
           D(x) == {y \in ids : Ranked(y, x, score, preferHost)}
           before == [x \in ids |-> D(x)]
<1>1. \A x, y \in ids : <<x, y>> \in R <=> Ranked(x, y, score, preferHost)
  OBVIOUS
<1>2. \A x \in ids : before[x] = {y \in ids : <<y, x>> \in R}
  <2> HIDE DEF R
  <2> QED BY <1>1
<1>3. OrderedBefore(R, ids, before)
  <2> HIDE DEF R, before
  <2> QED BY <1>1, <1>2 DEF OrderedBefore, Ranked
<1>4. q = [i \in 1..Cardinality(ids) |-> CHOOSE x \in ids : Cardinality(D(x)) = i - 1]
  BY Zenon DEF SortedByDemand
<1> HIDE DEF D
<1>5. \A x \in ids : before[x] = D(x)
  OBVIOUS
<1> HIDE DEF R, before
<1>6. ListsByRank(q, ids, before)
  <2>1. q = [i \in 1..Cardinality(ids) |-> q[i]]
    BY <1>4
  <2>2. ASSUME NEW i \in 1..Cardinality(ids), \E x \in ids : Cardinality(D(x)) = i - 1
        PROVE  q[i] \in ids /\ Cardinality(D(q[i])) = i - 1
    BY <1>4, <2>2, Zenon
  <2> QED BY <1>5, <2>1, <2>2 DEF ListsByRank
<1>7. /\ q \in Seq(ids) /\ Len(q) = Cardinality(ids)
      /\ IsInjective(q) /\ Range(q) = ids
      /\ \A i, j \in 1..Cardinality(ids) : i < j => <<q[i], q[j]>> \in R
  BY <1>3, <1>6, SortedByRank
<1>8. \A i \in 1..Cardinality(ids) : q[i] \in ids
  BY <1>7
<1> QED BY <1>1, <1>7, <1>8

\* descending-id lists them from the greatest to the least.
LEMMA DescendingSorted ==
  ASSUME NEW ids \in SUBSET Int, IsFiniteSet(ids), NEW q, q = Descending(ids)
  PROVE  /\ q \in Seq(ids) /\ Len(q) = Cardinality(ids)
         /\ IsInjective(q) /\ Range(q) = ids
         /\ \A i, j \in 1..Cardinality(ids) : i < j => q[i] > q[j]
<1> DEFINE R == {p \in ids \X ids : p[1] > p[2]}
           D(x) == {y \in ids : y > x}
           before == [x \in ids |-> D(x)]
<1>1. \A x, y \in ids : <<x, y>> \in R <=> x > y
  OBVIOUS
<1>2. \A x \in ids : before[x] = {y \in ids : <<y, x>> \in R}
  <2> HIDE DEF R
  <2> QED BY <1>1
<1>3. OrderedBefore(R, ids, before)
  <2> HIDE DEF R, before
  <2> QED BY <1>1, <1>2 DEF OrderedBefore
<1>4. q = [i \in 1..Cardinality(ids) |-> CHOOSE x \in ids : Cardinality(D(x)) = i - 1]
  BY Zenon DEF Descending
<1> HIDE DEF D
<1>5. \A x \in ids : before[x] = D(x)
  OBVIOUS
<1> HIDE DEF R, before
<1>6. ListsByRank(q, ids, before)
  <2>1. q = [i \in 1..Cardinality(ids) |-> q[i]]
    BY <1>4
  <2>2. ASSUME NEW i \in 1..Cardinality(ids), \E x \in ids : Cardinality(D(x)) = i - 1
        PROVE  q[i] \in ids /\ Cardinality(D(q[i])) = i - 1
    BY <1>4, <2>2, Zenon
  <2> QED BY <1>5, <2>1, <2>2 DEF ListsByRank
<1>7. /\ q \in Seq(ids) /\ Len(q) = Cardinality(ids)
      /\ IsInjective(q) /\ Range(q) = ids
      /\ \A i, j \in 1..Cardinality(ids) : i < j => <<q[i], q[j]>> \in R
  BY <1>3, <1>6, SortedByRank
<1>8. \A i \in 1..Cardinality(ids) : q[i] \in ids
  BY <1>7
<1> QED BY <1>1, <1>7, <1>8

\* A rule permutes the tasks that match among their positions: the k-th of these
\* positions gets the k-th of the sorted tasks.
LEMMA ReorderingPermutes ==
  ASSUME NEW rule, rule.action.preferHost \in BOOLEAN, NEW s, IsSnapshot(s),
         NEW q, q = ReorderWaiting(rule, s), q # <<>>
  PROVE  /\ q \in [DOMAIN s.order -> Range(s.order)]
         /\ IsInjective(q) /\ Range(q) = Range(s.order)
         /\ \A i \in DOMAIN s.order \ Positions(rule, s) : q[i] = s.order[i]
<1> DEFINE o == s.order
           P == Positions(rule, s)
           ids == {o[i] : i \in P}
           upTo(i) == {j \in P : j <= i}
           rank == [i \in P |-> Cardinality(upTo(i))]
           f == Filtered(rule, s)
           n == Cardinality(P)
<1>1. o \in Seq(Int) /\ IsInjective(o) /\ \A x \in Range(o) : s.score[x] \in Int
  BY DEF IsSnapshot
<1>2. P \in SUBSET (1..Len(o)) /\ IsFiniteSet(P) /\ n \in Nat
  <2>1. P \in SUBSET (1..Len(o)) /\ Len(o) \in Nat
    BY <1>1 DEF Positions
  <2>2. IsFiniteSet(1..Len(o))
    BY <2>1, FS_Interval
  <2> HIDE DEF P, o
  <2> QED BY <2>1, <2>2, FS_Subset, FS_CardinalityType
<1>3. q = [i \in DOMAIN o |-> IF i \in P THEN f[Cardinality(upTo(i))] ELSE o[i]]
  BY Zenon DEF ReorderWaiting
<1>4. f = SortedByDemand(ids, s.score, rule.action.preferHost)
  BY DEF Filtered
<1> HIDE DEF P, f, o
<1>5. ids \in SUBSET Int /\ ids \in SUBSET Range(o)
  <2> SUFFICES ASSUME NEW i \in P PROVE o[i] \in Int /\ o[i] \in Range(o)
    OBVIOUS
  <2>1. i \in DOMAIN o
    BY <1>1, <1>2
  <2> QED BY <1>1, <2>1 DEF Range
<1>6. IsFiniteSet(ids) /\ Cardinality(ids) = n
  <2> DEFINE g == [i \in P |-> o[i]]
  <2>1. g \in Bijection(P, ids)
    <3>1. g \in [P -> ids] /\ \A x \in ids : \E i \in P : g[i] = x
      OBVIOUS
    <3>2. \A i, j \in P : g[i] = g[j] => i = j
      BY <1>1, <1>2 DEF IsInjective
    <3> HIDE DEF g, ids
    <3> QED BY <3>1, <3>2 DEF Bijection, Injection, Surjection, IsInjective
  <2>2. ExistsBijection(P, ids)
    BY <2>1 DEF ExistsBijection
  <2> HIDE DEF g, ids
  <2> QED BY <1>2, <2>2, FS_Bijection
<1>7. /\ f \in Seq(ids) /\ Len(f) = n /\ IsInjective(f) /\ Range(f) = ids
  <2> HIDE DEF ids, n
  <2>1. \A x \in ids : s.score[x] \in Int
    BY <1>1, <1>5
  <2> QED BY <1>4, <1>5, <1>6, <2>1, DemandSorted
<1>8. \A i \in P : upTo(i) \in SUBSET P /\ i \in upTo(i)
  BY <1>2
<1>9. \A i, j \in P : i < j => upTo(i) \in SUBSET upTo(j) /\ j \notin upTo(i)
  BY <1>2
<1> HIDE DEF upTo
<1>10. rank \in [P -> 1..n]
  <2> SUFFICES ASSUME NEW i \in P PROVE Cardinality(upTo(i)) \in 1..n
    OBVIOUS
  <2>1. IsFiniteSet(upTo(i)) /\ Cardinality(upTo(i)) <= n /\ Cardinality(upTo(i)) \in Nat
    BY <1>2, <1>8, FS_Subset, FS_CardinalityType
  <2>2. Cardinality(upTo(i)) # 0
    BY <1>8, <2>1, FS_EmptySet
  <2> HIDE DEF n
  <2> QED BY <1>2, <2>1, <2>2
<1>11. \A i, j \in P : rank[i] = rank[j] => i = j
  <2>1. ASSUME NEW i \in P, NEW j \in P, i < j PROVE rank[i] # rank[j]
    <3>1. IsFiniteSet(upTo(j))
      BY <1>2, <1>8, FS_Subset
    <3>2. upTo(i) \in SUBSET upTo(j) /\ upTo(i) # upTo(j)
      BY <1>8, <1>9, <2>1
    <3>3. Cardinality(upTo(i)) # Cardinality(upTo(j))
      BY <3>1, <3>2, FS_Subset
    <3> QED BY <3>3
  <2> HIDE DEF rank
  <2>2. \A i, j \in P : i < j \/ j < i \/ i = j
    BY <1>2
  <2> QED BY <2>1, <2>2
<1>12. \A k \in 1..n : \E i \in P : rank[i] = k
  <2>1. rank \in Injection(P, 1..n)
    <3> HIDE DEF rank, n
    <3> QED BY <1>10, <1>11 DEF Injection, IsInjective
  <2>2. IsFiniteSet(1..n) /\ Cardinality(1..n) = n
    <3> HIDE DEF n
    <3>1. /\ IsFiniteSet(1..n)
          /\ Cardinality(1..n) = IF 1 > n THEN 0 ELSE n - 1 + 1
      BY <1>2, FS_Interval
    <3> QED BY <1>2, <3>1
  <2>3. rank \in Surjection(P, 1..n)
    <3> HIDE DEF rank
    <3> QED BY <1>2, <2>1, <2>2, FS_Injection
  <2> QED BY <2>3 DEF Surjection
<1>13. \A i \in DOMAIN o : q[i] = IF i \in P THEN f[rank[i]] ELSE o[i]
  BY <1>3
<1>14. DOMAIN q = DOMAIN o /\ q = [i \in DOMAIN o |-> q[i]]
  BY <1>3
<1> HIDE DEF rank, ids, n
<1>15. DOMAIN f = 1..n /\ DOMAIN o = 1..Len(o) /\ P \in SUBSET DOMAIN o
  BY <1>1, <1>2, <1>7
<1>16. \A i \in P : q[i] \in ids
  BY <1>7, <1>10, <1>13, <1>15
<1>17. Range(q) = Range(o)
  <2>1. \A i \in DOMAIN o : q[i] \in Range(o)
    BY <1>5, <1>13, <1>16 DEF Range
  <2>2. \A i \in DOMAIN o : \E j \in DOMAIN o : q[j] = o[i]
    <3> TAKE i \in DOMAIN o
    <3>1. CASE i \notin P
      BY <1>13, <3>1
    <3>2. CASE i \in P
      <4>1. o[i] \in ids
        BY <3>2 DEF ids
      <4>2. PICK k \in 1..n : f[k] = o[i]
        BY <1>7, <1>15, <4>1 DEF Range
      <4>3. PICK j \in P : rank[j] = k
        BY <1>12
      <4> QED BY <1>13, <1>15, <4>2, <4>3
    <3> QED BY <3>1, <3>2
  <2> QED BY <1>14, <2>1, <2>2 DEF Range
<1>18. IsInjective(q)
  <2> SUFFICES ASSUME NEW i \in DOMAIN o, NEW j \in DOMAIN o, q[i] = q[j] PROVE i = j
    BY <1>14 DEF IsInjective
  <2>1. CASE i \in P /\ j \in P
    <3>1. f[rank[i]] = f[rank[j]] /\ rank[i] \in 1..n /\ rank[j] \in 1..n
      BY <1>10, <1>13, <2>1
    <3> QED BY <1>7, <1>11, <1>15, <2>1, <3>1 DEF IsInjective
  <2>2. CASE i \notin P /\ j \notin P
    BY <1>1, <1>13, <2>2 DEF IsInjective
  <2>3. \A k, l \in DOMAIN o : k \in P /\ l \notin P => q[k] # q[l]
    <3> SUFFICES ASSUME NEW k \in P, NEW l \in DOMAIN o \ P, q[k] = q[l] PROVE FALSE
      OBVIOUS
    <3>1. PICK m \in P : q[k] = o[m]
      BY <1>16 DEF ids
    <3> QED BY <1>1, <1>13, <1>15, <3>1 DEF IsInjective
  <2> QED BY <2>1, <2>2, <2>3
<1>19. q \in [DOMAIN o -> Range(o)]
  BY <1>14, <1>17 DEF Range
<1> QED BY <1>13, <1>17, <1>18, <1>19 DEF o, P

------------------------------------------------------------------------------
(* The loop *)

\* The loop only reads the program and the snapshot.
ProgramFixed == rules \in Programs /\ IsProgram(rules) /\ IsSnapshot(snapshot)

LoopInv == ProgramFixed /\ FirstSoFar

\* The first element of a set of numbers is the one with none before it.
LEMMA FirstUnique ==
  ASSUME NEW S \in SUBSET Int, NEW i \in S, \A j \in S : i <= j
  PROVE  First(S) = i
<1>1. \A k \in S : (\A j \in S : k <= j) => k = i
  OBVIOUS
<1> QED
  BY <1>1 DEF First

\* The loop starts before the first rule, with empty fields.
LEMMA InitLoopInv == Init => LoopInv
<1> SUFFICES ASSUME Init PROVE LoopInv
  OBVIOUS
<1>1. ProgramFixed
  BY PolicyProgramAssumption DEF Init, ProgramFixed
<1>2. Len(rules) \in Nat
  BY <1>1 DEF ProgramFixed, IsProgram
<1>3. FirstSoFar
  BY <1>2 DEF Init, FirstSoFar
<1> QED
  BY <1>1, <1>3 DEF LoopInv

\* An iteration looks at one more rule.
LEMMA NextLoopInv == LoopInv /\ [Next]_vars => LoopInv'
<1> SUFFICES ASSUME LoopInv, [Next]_vars PROVE LoopInv'
  OBVIOUS
<1>1. CASE UNCHANGED vars
  BY <1>1 DEF LoopInv, ProgramFixed, IsProgram, FirstSoFar, vars
<1>2. CASE Next
  <2>1. /\ rules' = rules /\ snapshot' = snapshot /\ next' = next + 1
        /\ next <= Len(rules)
    BY <1>2 DEF Next, Skip, Reorder, Admission, Continue
  <2>2. ProgramFixed'
    BY <2>1 DEF LoopInv, ProgramFixed, IsProgram
  <2>3. /\ Len(rules) \in Nat
        /\ DOMAIN rules = 1..Len(rules)
    BY DEF LoopInv, ProgramFixed, IsProgram
  <2>4. next \in 1..Len(rules)
    BY <2>1, <2>3 DEF LoopInv, FirstSoFar
  <2>5. next' \in 1..(Len(rules) + 1) /\ 1..(next' - 1) = 1..(next - 1) \cup {next}
    BY <2>1, <2>3, <2>4
  <2>6. /\ Rule.action.type = "reorder" \/ Rule.action.type = "admission"
        /\ Rule.action.type = "admission" => Rule.action.limit \in Nat
    <3>1. Rule.action \in Actions
      BY <2>3, <2>4 DEF LoopInv, ProgramFixed, IsProgram, IsRule, Rule
    <3> QED
      BY <3>1 DEF Actions
  <2>7. IF order' = <<>> THEN \A i \in 1..(next' - 1) : ~Orders(rules[i], snapshot)
        ELSE \E i \in 1..(next' - 1) :
               /\ Orders(rules[i], snapshot)
               /\ \A j \in 1..(i - 1) : ~Orders(rules[j], snapshot)
               /\ order' = ReorderWaiting(rules[i], snapshot)
    <3>1. CASE order # <<>>
      <4>1. order' = order
        BY <1>2, <3>1 DEF Next, Skip, Reorder, Admission, KeepsFirst
      <4> QED
        BY <3>1, <4>1, <2>5 DEF LoopInv, FirstSoFar
    <3>2. CASE order = <<>> /\ Orders(Rule, snapshot)
      <4>1. order' = ReorderWaiting(Rule, snapshot) /\ order' # <<>>
        BY <1>2, <3>2 DEF Next, Skip, Reorder, Admission, KeepsFirst, Orders
      <4>2. \A j \in 1..(next - 1) : ~Orders(rules[j], snapshot)
        BY <3>2 DEF LoopInv, FirstSoFar
      <4> QED
        BY <3>2, <4>1, <4>2, <2>4, <2>5 DEF Rule
    <3>3. CASE order = <<>> /\ ~Orders(Rule, snapshot)
      <4>1. order' = <<>>
        BY <1>2, <3>3 DEF Next, Skip, Reorder, Admission, KeepsFirst, Orders
      <4>2. \A j \in 1..(next - 1) : ~Orders(rules[j], snapshot)
        BY <3>3 DEF LoopInv, FirstSoFar
      <4> QED
        BY <3>3, <4>1, <4>2, <2>5 DEF Rule
    <3> QED
      BY <3>1, <3>2, <3>3
  <2>8. IF admission' = Keep THEN \A i \in 1..(next' - 1) : ~Limits(rules[i], snapshot)
        ELSE \E i \in 1..(next' - 1) :
               /\ Limits(rules[i], snapshot)
               /\ \A j \in 1..(i - 1) : ~Limits(rules[j], snapshot)
               /\ admission' = rules[i].action.limit
    <3>1. CASE admission # Keep
      <4>1. admission' = admission
        BY <1>2, <3>1 DEF Next, Skip, Reorder, Admission, KeepsFirst
      <4> QED
        BY <3>1, <4>1, <2>5 DEF LoopInv, FirstSoFar
    <3>2. CASE admission = Keep /\ Limits(Rule, snapshot)
      <4>1. admission' = Rule.action.limit /\ admission' # Keep
        BY <1>2, <3>2, <2>6, PolicyProgramAssumption
           DEF Next, Skip, Reorder, Admission, KeepsFirst, Limits
      <4>2. \A j \in 1..(next - 1) : ~Limits(rules[j], snapshot)
        BY <3>2 DEF LoopInv, FirstSoFar
      <4> QED
        BY <3>2, <4>1, <4>2, <2>4, <2>5 DEF Rule
    <3>3. CASE admission = Keep /\ ~Limits(Rule, snapshot)
      <4>1. admission' = Keep
        BY <1>2, <3>3 DEF Next, Skip, Reorder, Admission, Limits
      <4>2. \A j \in 1..(next - 1) : ~Limits(rules[j], snapshot)
        BY <3>3 DEF LoopInv, FirstSoFar
      <4> QED
        BY <3>3, <4>1, <4>2, <2>5 DEF Rule
    <3> QED
      BY <3>1, <3>2, <3>3
  <2> QED
    BY <2>1, <2>2, <2>5, <2>7, <2>8 DEF LoopInv, FirstSoFar
<1> QED
  BY <1>1, <1>2 DEF Next

\* What the invariant says of the field for orders when the loop is over
LEMMA OrderDecided ==
  ASSUME LoopInv, Returned
  PROVE  order = Decide(rules, snapshot).order
<1> DEFINE ordering == {i \in DOMAIN rules : Orders(rules[i], snapshot)}
<1>1. Len(rules) \in Nat /\ DOMAIN rules = 1..Len(rules)
  BY DEF LoopInv, ProgramFixed, IsProgram
<1>2. 1..(next - 1) = DOMAIN rules
  BY <1>1 DEF LoopInv, FirstSoFar, Returned
<1>3. Decide(rules, snapshot).order =
        IF ordering = {} THEN <<>> ELSE ReorderWaiting(rules[First(ordering)], snapshot)
  BY DEF Decide, Decision
<1>4. CASE order = <<>>
  <2>1. ordering = {}
    BY <1>2, <1>4 DEF LoopInv, FirstSoFar
  <2> QED
    BY <1>3, <1>4, <2>1
<1>5. CASE order # <<>>
  <2>1. PICK i \in DOMAIN rules :
          /\ Orders(rules[i], snapshot)
          /\ \A j \in 1..(i - 1) : ~Orders(rules[j], snapshot)
          /\ order = ReorderWaiting(rules[i], snapshot)
    BY <1>2, <1>5 DEF LoopInv, FirstSoFar
  <2>2. i \in ordering /\ \A j \in ordering : i <= j
    BY <1>1, <2>1
  <2>3. ordering \in SUBSET Int
    BY <1>1
  <2>4. First(ordering) = i
    BY <2>2, <2>3, FirstUnique
  <2> QED
    BY <1>3, <2>1, <2>2, <2>4
<1> QED
  BY <1>4, <1>5

\* ... and of the field for admission
LEMMA AdmissionDecided ==
  ASSUME LoopInv, Returned
  PROVE  admission = Decide(rules, snapshot).admission
<1> DEFINE limiting == {i \in DOMAIN rules : Limits(rules[i], snapshot)}
<1>1. Len(rules) \in Nat /\ DOMAIN rules = 1..Len(rules)
  BY DEF LoopInv, ProgramFixed, IsProgram
<1>2. 1..(next - 1) = DOMAIN rules
  BY <1>1 DEF LoopInv, FirstSoFar, Returned
<1>3. Decide(rules, snapshot).admission =
        IF limiting = {} THEN Keep ELSE rules[First(limiting)].action.limit
  BY DEF Decide, Decision
<1>4. CASE admission = Keep
  <2>1. limiting = {}
    BY <1>2, <1>4 DEF LoopInv, FirstSoFar
  <2> QED
    BY <1>3, <1>4, <2>1
<1>5. CASE admission # Keep
  <2>1. PICK i \in DOMAIN rules :
          /\ Limits(rules[i], snapshot)
          /\ \A j \in 1..(i - 1) : ~Limits(rules[j], snapshot)
          /\ admission = rules[i].action.limit
    BY <1>2, <1>5 DEF LoopInv, FirstSoFar
  <2>2. i \in limiting /\ \A j \in limiting : i <= j
    BY <1>1, <2>1
  <2>3. limiting \in SUBSET Int
    BY <1>1
  <2>4. First(limiting) = i
    BY <2>2, <2>3, FirstUnique
  <2> QED
    BY <1>3, <2>1, <2>2, <2>4
<1> QED
  BY <1>4, <1>5

\* Program::evaluate decides as documented, for every program, snapshot and
\* number of rules: each field of the decision is the first directive for it.
THEOREM FirstRuleAlwaysWins == Spec => []FirstRuleWins
<1>1. LoopInv => FirstRuleWins
  BY OrderDecided, AdmissionDecided DEF FirstRuleWins, Decide, Decision
<1> QED
  BY <1>1, InitLoopInv, NextLoopInv, PTL DEF Spec

\* In every program and snapshot: an order is a permutation of the waiting queue in
\* which the tasks that no reordering rule matches keep their places.
THEOREM OnlyMatchingReordered == Spec => []ReordersOnlyMatching
<1>1. LoopInv => ReordersOnlyMatching
  <2> SUFFICES ASSUME LoopInv, order # <<>> PROVE ReordersOnlyMatching
    BY DEF ReordersOnlyMatching
  <2>1. PICK i \in 1..(next - 1) :
          Orders(rules[i], snapshot) /\ order = ReorderWaiting(rules[i], snapshot)
    BY DEF LoopInv, FirstSoFar
  <2>2. i \in DOMAIN rules /\ IsSnapshot(snapshot)
    BY DEF LoopInv, FirstSoFar, ProgramFixed, IsProgram
  <2>3. rules[i].action.type = "reorder" /\ rules[i].action.preferHost \in BOOLEAN
    <3>1. rules[i].action.type = "reorder" /\ rules[i].action \in Actions
      BY <2>1, <2>2 DEF Orders, LoopInv, ProgramFixed, IsProgram, IsRule
    <3> QED BY <3>1 DEF Actions
  <2>4. /\ order \in [DOMAIN snapshot.order -> Range(snapshot.order)]
        /\ Range(order) = Range(snapshot.order)
        /\ \A k \in DOMAIN snapshot.order \ Positions(rules[i], snapshot) :
             order[k] = snapshot.order[k]
    BY <2>1, <2>2, <2>3, ReorderingPermutes
  <2> QED BY <2>2, <2>3, <2>4 DEF ReordersOnlyMatching, Positions
<1> QED
  BY <1>1, InitLoopInv, NextLoopInv, PTL DEF Spec
===============================================================================
