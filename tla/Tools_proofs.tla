----------------------------- MODULE Tools_proofs -----------------------------
(***************************************************************************)
(* Two of the tools.  The placement benchmark, on any files and for any    *)
(* runs of the program: that the tokenizer finds the lines that count,     *)
(* that the parser comes to its end where a line has no place, and returns *)
(* what the indentation of those before it means; that what main loads is  *)
(* what is written; what expand_workload and apply_placement_mode make of  *)
(* it, so that the ids of the copies stay apart and a stage that is moved  *)
(* is on one side as a whole; and the rows of the CSV file.  The terminal  *)
(* interface, for any menus and any number of sessions: what the session   *)
(* was made from is what is selected, and no saved report is lost.         *)
(***************************************************************************)
EXTENDS PlacementBenchmark, TuiSession, FiniteSetTheorems, WellFoundedInduction, TLAPS

\* The workloads: a task has stages of some kind, a DAG has nodes and entries.
WorkloadType(Stages, Node, Entries) ==
  [tasks : Seq([id : Nat, arrival : Int, stages : Stages]),
   dags : Seq([id : Nat, arrival : Int, nodes : Seq(Node), entries : Entries])]

------------------------------------------------------------------------------
(* Arithmetic *)

\* A quotient and a remainder are unique.
LEMMA Quotient ==
  ASSUME NEW d \in Nat \ {0}, NEW k \in Nat, NEW l \in Nat,
         NEW x \in 0..d - 1, NEW y \in 0..d - 1, x + k * d = y + l * d
  PROVE  k = l /\ x = y
PROOF
  <1>1. ~(k < l)
    <2>1. SUFFICES ASSUME k < l PROVE FALSE OBVIOUS
    <2>2. PICK e \in Nat : l = k + 1 + e
      <3>1. l - k - 1 \in Nat /\ l = k + 1 + (l - k - 1) BY <2>1
      <3> QED BY <3>1
    <2>3. l * d = k * d + d + e * d BY <2>2
    <2>4. e * d \in Nat /\ k * d \in Nat OBVIOUS
    <2> QED BY <2>3, <2>4
  <1>2. ~(l < k)
    <2>1. SUFFICES ASSUME l < k PROVE FALSE OBVIOUS
    <2>2. PICK e \in Nat : k = l + 1 + e
      <3>1. k - l - 1 \in Nat /\ k = l + 1 + (k - l - 1) BY <2>1
      <3> QED BY <3>1
    <2>3. k * d = l * d + d + e * d BY <2>2
    <2>4. e * d \in Nat /\ l * d \in Nat OBVIOUS
    <2> QED BY <2>3, <2>4
  <1>3. k = l BY <1>1, <1>2
  <1> QED BY <1>3

\* The position of an entry of a copy, taken apart
LEMMA PositionOfCopy ==
  ASSUME NEW n \in Nat, NEW size \in Nat, NEW p \in 1..n * size
  PROVE  LET k == (p - 1) \div size
             i == ((p - 1) % size) + 1
         IN k \in 0..n - 1 /\ i \in 1..size /\ p = k * size + i
PROOF
  <1>1. size # 0 OBVIOUS
  <1> DEFINE k == (p - 1) \div size
             r == (p - 1) % size
  <1>2. p - 1 \in Nat OBVIOUS
  <1>3. k \in Nat /\ r \in 0..size - 1 /\ p - 1 = k * size + r BY <1>1, <1>2
  <1>4. k < n
    <2>1. SUFFICES ASSUME k >= n PROVE FALSE BY <1>3
    <2>2. PICK e \in Nat : k = n + e
      <3>1. k - n \in Nat /\ k = n + (k - n) BY <2>1, <1>3
      <3> QED BY <3>1
    <2> HIDE DEF k, r
    <2>3. k * size = n * size + e * size BY <2>2
    <2>4. e * size \in Nat OBVIOUS
    <2> QED BY <2>3, <2>4, <1>3
  <1> QED BY <1>3, <1>4

\* A set of numbers that is not empty has a least element.
LEMMA LeastOf ==
  ASSUME NEW S \in SUBSET Nat, S # {}
  PROVE  \E i \in S : \A j \in S : i <= j
<1>1. PICK i \in S : \A j \in S : <<j, i>> \notin OpToRel(<, Nat)
  BY NatLessThanWellFounded, WFMin
<1>2. \A j \in S : <<j, i>> \in Nat \X Nat /\ <<j, i>>[1] = j /\ <<j, i>>[2] = i
  OBVIOUS
<1>3. \A j \in S : ~(j < i)
  BY <1>1, <1>2 DEF OpToRel
<1> QED BY <1>3

\* A set of numbers that is finite and not empty has a greatest.
LEMMA LatestOf ==
  ASSUME NEW n \in Nat, NEW S \in SUBSET (1..n), S # {}
  PROVE  Latest(S) \in S /\ \A j \in S : j <= Latest(S)
<1> DEFINE Above == {m \in Nat : \A i \in S : i <= m}
<1>1. n \in Above
  OBVIOUS
<1>2. PICK m \in Above : \A k \in Above : m <= k
  <2>1. Above \in SUBSET Nat /\ Above # {}
    BY <1>1
  <2> HIDE DEF Above
  <2> QED BY <2>1, LeastOf
<1>3. m \in S
  <2> SUFFICES ASSUME m \notin S PROVE FALSE
    OBVIOUS
  <2>1. m \in Nat /\ \A i \in S : i <= m /\ i # m /\ i \in 1..n
    OBVIOUS
  <2>2. m - 1 \in Nat /\ ~(m <= m - 1)
    <3>1. PICK i \in S : TRUE
      OBVIOUS
    <3>2. i \in 1..n /\ i <= m
      BY <2>1
    <3> QED BY <2>1, <3>2
  <2>3. m - 1 \in Above
    <3>1. ASSUME NEW i \in S PROVE i <= m - 1
      <4>1. i \in 1..n /\ i <= m /\ i # m
        BY <2>1
      <4> QED BY <2>1, <4>1
    <3> QED BY <2>2, <3>1
  <2> HIDE DEF Above
  <2> QED BY <1>2, <2>2, <2>3
<1>4. \E i \in S : \A j \in S : j <= i
  BY <1>3
<1> QED BY <1>4 DEF Latest

------------------------------------------------------------------------------
(* Loops *)

\* The states of a loop, from a base by a step that is a function
Loop(F, S, base, step, n) ==
  /\ F \in [0..n -> S] /\ F[0] = base
  /\ \A k \in 1..n : F[k] = step[<<F[k - 1], k>>]

LEMMA LoopExists ==
  ASSUME NEW S, NEW base \in S, NEW n \in Nat, NEW step \in [S \X (1..n) -> S]
  PROVE  \E F : Loop(F, S, base, step, n)
<1> DEFINE UpTo(F, m) == /\ F \in [0..n -> S] /\ F[0] = base
                         /\ \A k \in 1..m : F[k] = step[<<F[k - 1], k>>]
           Bad == {m \in 0..n : ~\E F : UpTo(F, m)}
<1>1. Bad = {}
  <2> SUFFICES ASSUME Bad # {} PROVE FALSE
    OBVIOUS
  <2>1. PICK m \in Bad : \A k \in Bad : m <= k
    <3>1. Bad \in SUBSET Nat
      OBVIOUS
    <3> HIDE DEF Bad
    <3> QED BY <3>1, LeastOf
  <2>2. m # 0
    <3>1. UpTo([k \in 0..n |-> base], 0)
      OBVIOUS
    <3>2. 0 \notin Bad
      BY <3>1
    <3> QED BY <3>2
  <2>3. m \in 1..n /\ m - 1 \in 0..n /\ m - 1 \notin Bad
    <3>1. m \in 1..n
      BY <2>2
    <3>2. m - 1 \in 0..n /\ ~(m <= m - 1)
      BY <3>1
    <3> HIDE DEF Bad
    <3> QED BY <2>1, <3>1, <3>2
  <2>4. PICK F : UpTo(F, m - 1)
    BY <2>3
  <2> DEFINE G == [F EXCEPT ![m] = step[<<F[m - 1], m>>]]
  <2>5. step[<<F[m - 1], m>>] \in S
    BY <2>3, <2>4
  <2>6. G \in [0..n -> S] /\ G[0] = base
    BY <2>3, <2>4, <2>5
  <2>7. \A k \in 1..m : G[k] = step[<<G[k - 1], k>>]
    <3> SUFFICES ASSUME NEW k \in 1..m PROVE G[k] = step[<<G[k - 1], k>>]
      OBVIOUS
    <3>1. k - 1 \in 0..n /\ k \in 0..n /\ k - 1 # m
      BY <2>3
    <3>2. G[k - 1] = F[k - 1]
      BY <2>4, <3>1
    <3>3. CASE k = m
      BY <2>3, <2>4, <3>2, <3>3
    <3>4. CASE k # m
      <4>1. k \in 1..(m - 1)
        BY <2>3, <3>4
      <4> QED BY <2>4, <3>1, <3>2, <3>4, <4>1
    <3> QED BY <3>3, <3>4
  <2> QED BY <2>1, <2>6, <2>7
<1>2. n \notin Bad
  BY <1>1
<1> HIDE DEF Bad
<1>3. n \in 0..n
  OBVIOUS
<1> QED BY <1>2, <1>3 DEF Bad, Loop

\* What does the same, from one of the states
Follows(G, S, base, step, n) ==
  G[0] = base /\ \A k \in 1..n : G[k - 1] \in S => G[k] = step[<<G[k - 1], k>>]

\* What follows the loop has its states.
LEMMA LoopUnique ==
  ASSUME NEW S, NEW base, NEW n \in Nat, NEW step, NEW F, Loop(F, S, base, step, n),
         NEW G, Follows(G, S, base, step, n)
  PROVE  \A k \in 0..n : G[k] = F[k] /\ G[k] \in S
<1> DEFINE Bad == {k \in 0..n : G[k] # F[k]}
<1>1. \A k \in 0..n : F[k] \in S
  BY DEF Loop
<1>2. Bad = {}
  <2> SUFFICES ASSUME Bad # {} PROVE FALSE
    OBVIOUS
  <2>1. PICK m \in Bad : \A k \in Bad : m <= k
    <3>1. Bad \in SUBSET Nat
      OBVIOUS
    <3> HIDE DEF Bad
    <3> QED BY <3>1, LeastOf
  <2>2. m \in 1..n
    BY DEF Loop, Follows
  <2>3. m - 1 \in 0..n /\ m - 1 \notin Bad
    <3>1. m - 1 \in 0..n /\ ~(m <= m - 1)
      BY <2>2
    <3> HIDE DEF Bad
    <3> QED BY <2>1, <3>1
  <2>4. G[m - 1] = F[m - 1]
    BY <2>3
  <2>5. G[m] = F[m]
    BY <1>1, <2>2, <2>3, <2>4 DEF Loop, Follows
  <2> QED BY <2>5
<1> QED BY <1>1, <1>2

------------------------------------------------------------------------------
(* tokenize *)

\* The lines that are tokens
Token == {line \in LineType : line.kind \in {"entry", "item"} /\ line.indent % 2 = 0}

\* The tokens are fit for the parser, unless tokenize throws.
ScanState ==
  {state \in [margin : Nat \cup {None}, tokens : Seq(LineType), readable : BOOLEAN] :
     state.readable => state.tokens \in Seq(Token)}

LEMMA Scanning ==
  ASSUME NEW state \in ScanState, NEW line \in LineType
  PROVE  Scan(state, line) \in ScanState
<1>1. /\ state.margin \in Nat \cup {None} /\ state.tokens \in Seq(LineType)
      /\ line.indent \in Nat
  BY DEF ScanState, LineType
<1>2. state.readable => state.tokens \in Seq(Token)
  BY DEF ScanState
<1>3. NextMargin(state.margin, line) \in Nat \cup {None}
  BY <1>1 DEF NextMargin
<1> DEFINE more == IF line.kind \in {"entry", "item"} /\ ~Absorbs(line, state.margin)
                   THEN Append(state.tokens, line) ELSE state.tokens
           readable == ~Unreadable(line, state.margin)
<1>4. more \in Seq(LineType)
  BY <1>1
<1>5. state.readable /\ readable => more \in Seq(Token)
  <2> SUFFICES ASSUME state.readable, readable PROVE more \in Seq(Token)
    OBVIOUS
  <2>1. CASE more = state.tokens
    BY <1>2, <2>1
  <2>2. CASE more # state.tokens
    <3>1. line.kind \in {"entry", "item"} /\ more = Append(state.tokens, line)
      BY <2>2
    <3>2. line.indent % 2 = 0
      BY <3>1 DEF Unreadable
    <3>3. line \in Token
      BY <3>1, <3>2 DEF Token
    <3> QED BY <1>2, <3>1, <3>3
  <2> QED BY <2>1, <2>2
<1>6. readable \in BOOLEAN
  OBVIOUS
<1>7. Scan(state, line) =
        IF ~state.readable THEN state
        ELSE [margin |-> NextMargin(state.margin, line), tokens |-> more, readable |-> readable]
  BY DEF Scan
<1> HIDE DEF more, readable
<1>8. CASE ~state.readable
  BY <1>7, <1>8
<1>9. CASE state.readable
  BY <1>3, <1>4, <1>5, <1>6, <1>7, <1>9 DEF ScanState
<1> QED BY <1>8, <1>9

\* The states of tokenize, one after each line
IsScan(lines, scan) ==
  /\ Scanned(lines) = scan[Len(lines)]
  /\ \A n \in 0..Len(lines) : scan[n] \in ScanState
  /\ scan[0] = [margin |-> None, tokens |-> <<>>, readable |-> TRUE]
  /\ \A n \in 1..Len(lines) : scan[n] = Scan(scan[n - 1], lines[n])

LEMMA ScanExists ==
  ASSUME NEW lines \in Seq(LineType)
  PROVE  \E scan : IsScan(lines, scan)
<1> DEFINE L == Len(lines)
           base == [margin |-> None, tokens |-> <<>>, readable |-> TRUE]
           step == [p \in ScanState \X (1..L) |-> Scan(p[1], lines[p[2]])]
           body(F) == [n \in 0..L |-> IF n = 0 THEN base ELSE Scan(F[n - 1], lines[n])]
           scan == CHOOSE F : F = body(F)
<1>1. L \in Nat /\ \A n \in 1..L : lines[n] \in LineType
  OBVIOUS
<1>2. base \in ScanState
  <2>1. <<>> \in Seq(LineType) /\ <<>> \in Seq(Token)
    OBVIOUS
  <2>2. /\ base.tokens = <<>>
        /\ base \in [margin : Nat \cup {None}, tokens : Seq(LineType), readable : BOOLEAN]
    BY <2>1
  <2> HIDE DEF base
  <2> QED BY <2>1, <2>2 DEF ScanState
<1>3. step \in [ScanState \X (1..L) -> ScanState]
  BY <1>1, Scanning
<1>4. \A s \in ScanState, n \in 1..L : step[<<s, n>>] = Scan(s, lines[n])
  OBVIOUS
<1> HIDE DEF base, step
<1>5. PICK F : Loop(F, ScanState, base, step, L)
  BY <1>1, <1>2, <1>3, LoopExists
<1>6. F = body(F)
  <2>1. F = [n \in 0..L |-> F[n]]
    BY <1>5 DEF Loop
  <2>2. ASSUME NEW n \in 0..L
        PROVE  F[n] = IF n = 0 THEN base ELSE Scan(F[n - 1], lines[n])
    <3>1. CASE n = 0
      BY <1>5, <3>1 DEF Loop
    <3>2. CASE n # 0
      <4>1. n \in 1..L /\ n - 1 \in 0..L
        BY <1>1, <3>2
      <4>2. F[n] = step[<<F[n - 1], n>>] /\ F[n - 1] \in ScanState
        BY <1>5, <4>1 DEF Loop
      <4> QED BY <1>4, <3>2, <4>1, <4>2
    <3> QED BY <3>1, <3>2
  <2> QED BY <2>1, <2>2
<1>7. scan = body(scan)
  <2> HIDE DEF body
  <2> QED BY <1>6
<1>8. Scanned(lines) = scan[L]
  BY DEF Scanned, base
<1>9. \A n \in 0..L : scan[n] = IF n = 0 THEN base ELSE Scan(scan[n - 1], lines[n])
  <2> HIDE DEF scan
  <2> QED BY <1>7
<1> HIDE DEF scan, L, body
<1>10. Follows(scan, ScanState, base, step, L)
  BY <1>1, <1>4, <1>9 DEF Follows
<1>11. \A n \in 0..L : scan[n] = F[n] /\ scan[n] \in ScanState
  BY <1>1, <1>5, <1>10, LoopUnique
<1>12. \A n \in 1..L : scan[n] = Scan(scan[n - 1], lines[n])
  BY <1>1, <1>9
<1>13. scan[0] = base
  BY <1>1, <1>9
<1>14. IsScan(lines, scan)
  BY <1>1, <1>8, <1>11, <1>12, <1>13 DEF IsScan, L, base
<1> QED BY <1>14

LEMMA ScannedTyped ==
  ASSUME NEW lines \in Seq(LineType)
  PROVE  Scanned(lines) \in ScanState
<1>1. PICK scan : IsScan(lines, scan)
  BY ScanExists
<1> QED BY <1>1 DEF IsScan

------------------------------------------------------------------------------
(* MiniYamlParser *)

\* The nodes of a set have their parts in the set.
NodeSet(S) ==
  \A v \in S :
    /\ v.kind = "map" => \A key \in DOMAIN v.fields : v.fields[key] \in S
    /\ v.kind = "sequence" => v.items \in Seq(S)

IsNode(v) == \E S : NodeSet(S) /\ v \in S

LEMMA ScalarIsNode ==
  ASSUME NEW text
  PROVE  IsNode(Scalar(text))
<1>1. NodeSet({Scalar(text)})
  BY DEF NodeSet, Scalar
<1> QED BY <1>1 DEF IsNode

LEMMA NoPartsIsNode == IsNode(MapNode(NoFields)) /\ IsNode(SequenceNode(<<>>))
<1>1. NodeSet({MapNode(NoFields)})
  <2>1. DOMAIN NoFields = {}
    BY DEF NoFields
  <2> QED BY <2>1 DEF NodeSet, MapNode
<1>2. NodeSet({SequenceNode(<<>>)})
  <2> DEFINE node == SequenceNode(<<>>)
  <2>1. node.kind = "sequence" /\ node.items = <<>>
    BY DEF SequenceNode
  <2> HIDE DEF node
  <2>2. \A v \in {node} : v.kind # "map" /\ v.items \in Seq({node})
    <3>1. \A S : <<>> \in Seq(S)
      OBVIOUS
    <3>2. node.items \in Seq({node})
      BY <2>1, <3>1, Zenon
    <3> QED BY <2>1, <3>2
  <2> QED BY <2>2 DEF NodeSet, node
<1> QED BY <1>1, <1>2 DEF IsNode

\* A set of nodes that has both
LEMMA CommonSet ==
  ASSUME NEW v, IsNode(v), NEW w, IsNode(w)
  PROVE  \E S : NodeSet(S) /\ v \in S /\ w \in S
<1>1. PICK S : NodeSet(S) /\ v \in S
  BY DEF IsNode
<1>2. PICK T : NodeSet(T) /\ w \in T
  BY DEF IsNode
<1>3. \A u \in S \cup T : u.kind = "sequence" => u.items \in Seq(S \cup T)
  <2>1. \A u : u \in Seq(S) \/ u \in Seq(T) => u \in Seq(S \cup T)
    OBVIOUS
  <2> QED BY <1>1, <1>2, <2>1 DEF NodeSet
<1>4. \A u \in S \cup T :
        u.kind = "map" => \A key \in DOMAIN u.fields : u.fields[key] \in S \cup T
  BY <1>1, <1>2 DEF NodeSet
<1>5. NodeSet(S \cup T)
  BY <1>3, <1>4 DEF NodeSet
<1> QED BY <1>1, <1>2, <1>5

LEMMA EmplacedIsNode ==
  ASSUME NEW v, IsNode(v), NEW m, IsNode(m), m.kind = "map", NEW key
  PROVE  IsNode(MapNode(Emplaced(key, v, m.fields)))
<1>1. PICK S : NodeSet(S) /\ v \in S /\ m \in S
  BY CommonSet
<1> DEFINE fields == Emplaced(key, v, m.fields)
           T == S \cup {MapNode(fields)}
<1>2. \A k \in DOMAIN fields : fields[k] \in S
  BY <1>1 DEF NodeSet, Emplaced
<1> HIDE DEF fields
<1>3. \A u \in T : u.kind = "map" => \A k \in DOMAIN u.fields : u.fields[k] \in T
  BY <1>1, <1>2 DEF NodeSet, MapNode
<1>4. \A u \in T : u.kind = "sequence" => u.items \in Seq(T)
  <2>1. \A u : u \in Seq(S) => u \in Seq(T)
    OBVIOUS
  <2> QED BY <1>1, <2>1 DEF NodeSet, MapNode
<1>5. NodeSet(T)
  BY <1>3, <1>4 DEF NodeSet
<1> QED BY <1>5 DEF IsNode, fields

LEMMA ItemsAreNode ==
  ASSUME NEW v, IsNode(v), NEW m, IsNode(m), m.kind = "sequence"
  PROVE  IsNode(SequenceNode(<<v>> \o m.items))
<1>1. PICK S : NodeSet(S) /\ v \in S /\ m \in S
  BY CommonSet
<1> DEFINE items == <<v>> \o m.items
           T == S \cup {SequenceNode(items)}
<1>2. items \in Seq(S)
  BY <1>1 DEF NodeSet
<1> HIDE DEF items
<1>3. \A u : u \in Seq(S) => u \in Seq(T)
  OBVIOUS
<1>4. \A u \in T : u.kind = "sequence" => u.items \in Seq(T)
  BY <1>1, <1>2, <1>3 DEF NodeSet, SequenceNode
<1>5. \A u \in T : u.kind = "map" => \A k \in DOMAIN u.fields : u.fields[k] \in T
  BY <1>1 DEF NodeSet, SequenceNode
<1>6. NodeSet(T)
  BY <1>4, <1>5 DEF NodeSet
<1> QED BY <1>6 DEF IsNode, items

\* What bounds the calls that a call leads to: the tokens that are left, and that
\* parse_value calls the others for the same token
Rank(tokens, kind, i) ==
  2 * (IF i > Len(tokens) THEN 0 ELSE Len(tokens) + 1 - i) + (IF kind = "value" THEN 1 ELSE 0)

Function == {"map", "sequence", "value"}
Index == Nat \ {0}

\* What a call of a function at an index is to return
IsRead(kind, i, result) ==
  /\ result.next \in Index /\ result.next >= i
  /\ IsNode(result.node)
  /\ kind \in {"map", "sequence"} => result.node.kind = kind

AreReadBelow(tokens, F, n) ==
  \A kind \in Function, i \in Index, d \in Nat :
    Rank(tokens, kind, i) < n => IsRead(kind, i, F[<<kind, i, d>>])

AgreeBelow(tokens, F, G, n) ==
  \A kind \in Function, i \in Index, d \in Nat :
    Rank(tokens, kind, i) < n => F[<<kind, i, d>>] = G[<<kind, i, d>>]

LEMMA RankType ==
  ASSUME NEW tokens \in Seq(LineType), NEW kind, NEW i \in Index
  PROVE  Rank(tokens, kind, i) \in 0..(2 * Len(tokens) + 1)
<1> DEFINE L == Len(tokens)
           left == IF i > L THEN 0 ELSE L + 1 - i
           last == IF kind = "value" THEN 1 ELSE 0
<1>1. L \in Nat
  OBVIOUS
<1> HIDE DEF L
<1>2. left \in 0..L
  BY <1>1 DEF Index
<1>3. last \in 0..1
  OBVIOUS
<1> HIDE DEF left, last
<1>4. 2 * left + last \in 0..(2 * L + 1)
  BY <1>1, <1>2, <1>3
<1> QED BY <1>4 DEF Rank, left, last, L

LEMMA TokenType ==
  ASSUME NEW tokens \in Seq(LineType), NEW i \in 1..Len(tokens)
  PROVE  tokens[i].indent \in Nat /\ i \in Index /\ i + 1 \in Index /\ i + 1 > i
<1>1. tokens[i] \in LineType
  OBVIOUS
<1>2. tokens[i].indent \in Nat
  BY <1>1 DEF LineType
<1>3. Len(tokens) \in Nat
  OBVIOUS
<1> QED BY <1>2, <1>3 DEF Index

LEMMA RankFalls ==
  ASSUME NEW tokens \in Seq(LineType), NEW i \in 1..Len(tokens),
         NEW kind, NEW j \in Index, j > i
  PROVE  Rank(tokens, kind, j) < 2 * (Len(tokens) + 1 - i)
<1> DEFINE L == Len(tokens)
           left == IF j > L THEN 0 ELSE L + 1 - j
           last == IF kind = "value" THEN 1 ELSE 0
<1>1. L \in Nat /\ i \in 1..L
  OBVIOUS
<1> HIDE DEF L
<1>2. left \in Nat /\ left < L + 1 - i
  BY <1>1 DEF Index
<1>3. last \in 0..1
  OBVIOUS
<1> HIDE DEF left, last
<1>4. 2 * left + last < 2 * (L + 1 - i)
  BY <1>1, <1>2, <1>3
<1> QED BY <1>4 DEF Rank, left, last, L

LEMMA KeyValueRead ==
  ASSUME NEW tokens \in Seq(LineType), NEW i \in 1..Len(tokens),
         NEW F, NEW G, AreReadBelow(tokens, F, 2 * (Len(tokens) + 1 - i)),
         AgreeBelow(tokens, F, G, 2 * (Len(tokens) + 1 - i))
  PROVE  /\ KeyValue(tokens, F, i) = KeyValue(tokens, G, i)
         /\ IsRead("value", i + 1, KeyValue(tokens, F, i))
<1>1. tokens[i].indent + 2 \in Nat /\ i + 1 \in Index /\ i + 1 > i
  BY TokenType
<1>2. Rank(tokens, "value", i + 1) < 2 * (Len(tokens) + 1 - i)
  BY <1>1, RankFalls
<1>3. CASE tokens[i].value # None
  <2>1. /\ KeyValue(tokens, F, i) = Result(Scalar(tokens[i].value), i + 1)
        /\ KeyValue(tokens, G, i) = Result(Scalar(tokens[i].value), i + 1)
    BY <1>3 DEF KeyValue
  <2> QED BY <1>1, <2>1, ScalarIsNode DEF Result, IsRead
<1>4. CASE tokens[i].value = None
  <2> DEFINE call == <<"value", i + 1, tokens[i].indent + 2>>
  <2>1. KeyValue(tokens, F, i) = F[call] /\ KeyValue(tokens, G, i) = G[call]
    BY <1>4 DEF KeyValue
  <2>2. F[call] = G[call] /\ IsRead("value", i + 1, F[call])
    BY <1>1, <1>2 DEF AreReadBelow, AgreeBelow, Function
  <2> QED BY <2>1, <2>2
<1> QED BY <1>3, <1>4

LEMMA EntriesRead ==
  ASSUME NEW tokens \in Seq(LineType), NEW i \in 1..Len(tokens), NEW d \in Nat,
         NEW F, NEW G, AreReadBelow(tokens, F, 2 * (Len(tokens) + 1 - i)),
         AgreeBelow(tokens, F, G, 2 * (Len(tokens) + 1 - i))
  PROVE  /\ ParseEntries(tokens, F, i, d) = ParseEntries(tokens, G, i, d)
         /\ IsRead("map", i + 1, ParseEntries(tokens, F, i, d))
<1> DEFINE first == KeyValue(tokens, F, i)
           call == <<"map", first.next, d>>
<1>1. first = KeyValue(tokens, G, i) /\ IsRead("value", i + 1, first)
  BY KeyValueRead
<1>2. first.next \in Index /\ first.next >= i + 1 /\ first.next > i /\ IsNode(first.node)
  BY <1>1 DEF IsRead, Index
<1>3. ParseEntries(tokens, F, i, d) =
        Result(MapNode(Emplaced(tokens[i].key, first.node, F[call].node.fields)), F[call].next)
  BY DEF ParseEntries
<1>4. ParseEntries(tokens, G, i, d) =
        Result(MapNode(Emplaced(tokens[i].key, first.node, G[call].node.fields)), G[call].next)
  BY <1>1 DEF ParseEntries
<1> HIDE DEF first
<1>5. Rank(tokens, "map", first.next) < 2 * (Len(tokens) + 1 - i)
  BY <1>2, RankFalls
<1>6. F[call] = G[call] /\ IsRead("map", first.next, F[call])
  BY <1>2, <1>5 DEF AreReadBelow, AgreeBelow, Function
<1> HIDE DEF call
<1>7. F[call].next \in Index /\ F[call].next >= i + 1
  BY <1>2, <1>6 DEF IsRead, Index
<1> DEFINE node == MapNode(Emplaced(tokens[i].key, first.node, F[call].node.fields))
<1>8. IsNode(node)
  BY <1>2, <1>6, EmplacedIsNode DEF IsRead
<1>9. node.kind = "map"
  BY DEF MapNode
<1>10. ParseEntries(tokens, F, i, d) = Result(node, F[call].next)
  BY <1>3
<1> HIDE DEF node
<1>11. IsRead("map", i + 1, ParseEntries(tokens, F, i, d))
  BY <1>7, <1>8, <1>9, <1>10 DEF IsRead, Result
<1> QED BY <1>3, <1>4, <1>6, <1>11

LEMMA ItemRead ==
  ASSUME NEW tokens \in Seq(LineType), NEW i \in 1..Len(tokens),
         NEW F, NEW G, AreReadBelow(tokens, F, 2 * (Len(tokens) + 1 - i)),
         AgreeBelow(tokens, F, G, 2 * (Len(tokens) + 1 - i))
  PROVE  /\ ParseItem(tokens, F, i) = ParseItem(tokens, G, i)
         /\ IsRead("value", i + 1, ParseItem(tokens, F, i))
<1>1. tokens[i].indent + 2 \in Nat /\ i + 1 \in Index
  BY TokenType
<1>2. CASE tokens[i].key = None
  <2>1. /\ ParseItem(tokens, F, i) = Result(Scalar(tokens[i].value), i + 1)
        /\ ParseItem(tokens, G, i) = Result(Scalar(tokens[i].value), i + 1)
    BY <1>2 DEF ParseItem
  <2> QED BY <1>1, <2>1, ScalarIsNode DEF Result, IsRead
<1>3. CASE tokens[i].key # None
  <2> DEFINE d == tokens[i].indent + 2
  <2>1. /\ ParseItem(tokens, F, i) = ParseEntries(tokens, F, i, d)
        /\ ParseItem(tokens, G, i) = ParseEntries(tokens, G, i, d)
    BY <1>3 DEF ParseItem
  <2>2. /\ ParseEntries(tokens, F, i, d) = ParseEntries(tokens, G, i, d)
        /\ IsRead("map", i + 1, ParseEntries(tokens, F, i, d))
    BY <1>1, EntriesRead
  <2> QED BY <2>1, <2>2 DEF IsRead
<1> QED BY <1>2, <1>3

LEMMA MapRead ==
  ASSUME NEW tokens \in Seq(LineType), NEW i \in Index, NEW d \in Nat,
         NEW F, NEW G, AreReadBelow(tokens, F, Rank(tokens, "map", i)),
         AgreeBelow(tokens, F, G, Rank(tokens, "map", i))
  PROVE  /\ ParseMap(tokens, F, i, d) = ParseMap(tokens, G, i, d)
         /\ IsRead("map", i, ParseMap(tokens, F, i, d))
<1>1. Len(tokens) \in Nat
  OBVIOUS
<1>2. CASE Continues(tokens, i, d, "entry")
  <2>1. i \in 1..Len(tokens) /\ i \in Nat
    BY <1>1, <1>2 DEF Continues, Index
  <2>2. Rank(tokens, "map", i) = 2 * (Len(tokens) + 1 - i)
    BY <1>1, <2>1 DEF Rank
  <2>3. /\ ParseEntries(tokens, F, i, d) = ParseEntries(tokens, G, i, d)
        /\ IsRead("map", i + 1, ParseEntries(tokens, F, i, d))
    BY <2>1, <2>2, EntriesRead
  <2>4. IsRead("map", i, ParseEntries(tokens, F, i, d))
    BY <2>1, <2>3 DEF IsRead, Index
  <2> QED BY <1>2, <2>3, <2>4 DEF ParseMap
<1>3. CASE ~Continues(tokens, i, d, "entry")
  <2>1. /\ ParseMap(tokens, F, i, d) = Result(MapNode(NoFields), i)
        /\ ParseMap(tokens, G, i, d) = Result(MapNode(NoFields), i)
    BY <1>3 DEF ParseMap
  <2>2. MapNode(NoFields).kind = "map"
    BY DEF MapNode
  <2> QED BY <2>1, <2>2, NoPartsIsNode DEF IsRead, Result, Index
<1> QED BY <1>2, <1>3

LEMMA SequenceRead ==
  ASSUME NEW tokens \in Seq(LineType), NEW i \in Index, NEW d \in Nat,
         NEW F, NEW G, AreReadBelow(tokens, F, Rank(tokens, "sequence", i)),
         AgreeBelow(tokens, F, G, Rank(tokens, "sequence", i))
  PROVE  /\ ParseSequence(tokens, F, i, d) = ParseSequence(tokens, G, i, d)
         /\ IsRead("sequence", i, ParseSequence(tokens, F, i, d))
<1>1. Len(tokens) \in Nat
  OBVIOUS
<1>2. CASE Continues(tokens, i, d, "item")
  <2>1. i \in 1..Len(tokens) /\ i \in Nat
    BY <1>1, <1>2 DEF Continues, Index
  <2>2. Rank(tokens, "sequence", i) = 2 * (Len(tokens) + 1 - i)
    BY <1>1, <2>1 DEF Rank
  <2> DEFINE item == ParseItem(tokens, F, i)
             call == <<"sequence", item.next, d>>
             node == SequenceNode(<<item.node>> \o F[call].node.items)
  <2>3. item = ParseItem(tokens, G, i) /\ IsRead("value", i + 1, item)
    BY <2>1, <2>2, ItemRead
  <2>4. ParseSequence(tokens, F, i, d) = Result(node, F[call].next)
    BY <1>2 DEF ParseSequence
  <2>5. ParseSequence(tokens, G, i, d) =
          Result(SequenceNode(<<item.node>> \o G[call].node.items), G[call].next)
    BY <1>2, <2>3 DEF ParseSequence
  <2>6. item.next \in Index /\ item.next > i /\ IsNode(item.node)
    BY <2>1, <2>3 DEF IsRead, Index
  <2> HIDE DEF item
  <2>7. Rank(tokens, "sequence", item.next) < 2 * (Len(tokens) + 1 - i)
    BY <2>1, <2>6, RankFalls
  <2>8. F[call] = G[call] /\ IsRead("sequence", item.next, F[call])
    BY <2>2, <2>6, <2>7 DEF AreReadBelow, AgreeBelow, Function
  <2> HIDE DEF call
  <2>9. F[call].next \in Index /\ F[call].next >= i
    BY <2>1, <2>6, <2>8 DEF IsRead, Index
  <2>10. IsNode(node)
    BY <2>6, <2>8, ItemsAreNode DEF IsRead
  <2>11. node.kind = "sequence"
    BY DEF SequenceNode
  <2>12. ParseSequence(tokens, F, i, d) = ParseSequence(tokens, G, i, d)
    BY <2>4, <2>5, <2>8
  <2> HIDE DEF node
  <2>13. IsRead("sequence", i, ParseSequence(tokens, F, i, d))
    BY <2>4, <2>9, <2>10, <2>11 DEF IsRead, Result
  <2> QED BY <2>12, <2>13
<1>3. CASE ~Continues(tokens, i, d, "item")
  <2>1. /\ ParseSequence(tokens, F, i, d) = Result(SequenceNode(<<>>), i)
        /\ ParseSequence(tokens, G, i, d) = Result(SequenceNode(<<>>), i)
    BY <1>3 DEF ParseSequence
  <2>2. SequenceNode(<<>>).kind = "sequence"
    BY DEF SequenceNode
  <2> QED BY <2>1, <2>2, NoPartsIsNode DEF IsRead, Result, Index
<1> QED BY <1>2, <1>3

LEMMA ValueRead ==
  ASSUME NEW tokens \in Seq(LineType), NEW i \in Index, NEW d \in Nat,
         NEW F, NEW G, AreReadBelow(tokens, F, Rank(tokens, "value", i)),
         AgreeBelow(tokens, F, G, Rank(tokens, "value", i))
  PROVE  /\ ParseValue(tokens, F, i, d) = ParseValue(tokens, G, i, d)
         /\ IsRead("value", i, ParseValue(tokens, F, i, d))
<1>1. Len(tokens) \in Nat
  OBVIOUS
<1>2. CASE i > Len(tokens) \/ tokens[i].indent < d
  <2>1. /\ ParseValue(tokens, F, i, d) = Result(Scalar(""), i)
        /\ ParseValue(tokens, G, i, d) = Result(Scalar(""), i)
    BY <1>2 DEF ParseValue
  <2>2. IsNode(Scalar("")) /\ i \in Index /\ i >= i
    <3>1. i >= i
      BY DEF Index
    <3> QED BY <3>1, ScalarIsNode
  <2>3. IsRead("value", i, Result(Scalar(""), i))
    BY <2>2 DEF IsRead, Result
  <2> QED BY <2>1, <2>3
<1>3. CASE ~(i > Len(tokens) \/ tokens[i].indent < d)
  <2> DEFINE kind == IF tokens[i].kind = "item" THEN "sequence" ELSE "map"
             call == <<kind, i, tokens[i].indent>>
  <2>1. i \in 1..Len(tokens) /\ i \in Nat
    BY <1>1, <1>3 DEF Index
  <2>2. tokens[i].indent \in Nat
    BY <2>1, TokenType
  <2>3. ParseValue(tokens, F, i, d) = F[call] /\ ParseValue(tokens, G, i, d) = G[call]
    BY <1>3 DEF ParseValue
  <2>4. kind \in Function /\ kind # "value"
    BY DEF Function
  <2> HIDE DEF kind
  <2>5. Rank(tokens, kind, i) < Rank(tokens, "value", i)
    BY <1>1, <2>1, <2>4 DEF Rank
  <2>6. F[call] = G[call] /\ IsRead(kind, i, F[call])
    BY <2>2, <2>4, <2>5 DEF AreReadBelow, AgreeBelow
  <2> QED BY <2>3, <2>6 DEF IsRead
<1> QED BY <1>2, <1>3

\* A call makes calls of a lower rank only: what it returns is what they determine.
LEMMA CallRead ==
  ASSUME NEW tokens \in Seq(LineType), NEW kind \in Function, NEW i \in Index, NEW d \in Nat,
         NEW F, NEW G, AreReadBelow(tokens, F, Rank(tokens, kind, i)),
         AgreeBelow(tokens, F, G, Rank(tokens, kind, i))
  PROVE  /\ Parsed(tokens, F, <<kind, i, d>>) = Parsed(tokens, G, <<kind, i, d>>)
         /\ IsRead(kind, i, Parsed(tokens, F, <<kind, i, d>>))
<1>1. /\ <<kind, i, d>>[1] = kind /\ <<kind, i, d>>[2] = i /\ <<kind, i, d>>[3] = d
  OBVIOUS
<1>2. CASE kind = "map"
  <2>1. \A H : Parsed(tokens, H, <<kind, i, d>>) = ParseMap(tokens, H, i, d)
    BY <1>1, <1>2 DEF Parsed
  <2> QED BY <1>2, <2>1, MapRead
<1>3. CASE kind = "sequence"
  <2>1. \A H : Parsed(tokens, H, <<kind, i, d>>) = ParseSequence(tokens, H, i, d)
    BY <1>1, <1>3 DEF Parsed
  <2> QED BY <1>3, <2>1, SequenceRead
<1>4. CASE kind = "value"
  <2>1. \A H : Parsed(tokens, H, <<kind, i, d>>) = ParseValue(tokens, H, i, d)
    BY <1>1, <1>4 DEF Parsed
  <2> QED BY <1>4, <2>1, ValueRead
<1> QED BY <1>2, <1>3, <1>4 DEF Function

\* There is a function that returns what the calls of a rank below n determine.
LEMMA CallsReadBelow ==
  ASSUME NEW tokens \in Seq(LineType)
  PROVE  \A n \in Nat : \E F :
           /\ AreReadBelow(tokens, F, n)
           /\ F = [call \in Call |-> F[call]]
           /\ \A kind \in Function, i \in Index, d \in Nat :
                Rank(tokens, kind, i) < n =>
                  F[<<kind, i, d>>] = Parsed(tokens, F, <<kind, i, d>>)
<1> DEFINE Is(F, n) ==
             /\ AreReadBelow(tokens, F, n)
             /\ F = [call \in Call |-> F[call]]
             /\ \A kind \in Function, i \in Index, d \in Nat :
                  Rank(tokens, kind, i) < n =>
                    F[<<kind, i, d>>] = Parsed(tokens, F, <<kind, i, d>>)
           Bad == {n \in Nat : ~\E F : Is(F, n)}
<1>1. \A kind \in Function, i \in Index : Rank(tokens, kind, i) \in Nat
  BY RankType
<1>2. 0 \notin Bad
  <2> DEFINE F == [call \in Call |-> call]
  <2>1. Is(F, 0)
    BY <1>1 DEF AreReadBelow
  <2> HIDE DEF F, Is
  <2> QED BY <2>1
<1>3. ASSUME NEW n \in Nat, NEW F, Is(F, n)
      PROVE  \E G : Is(G, n + 1)
  <2> DEFINE G == [call \in Call |-> Parsed(tokens, F, call)]
  <2>1. \A kind \in Function, i \in Index, d \in Nat :
          G[<<kind, i, d>>] = Parsed(tokens, F, <<kind, i, d>>)
    BY DEF Call, Function, Index
  <2>2. G = [call \in Call |-> G[call]]
    OBVIOUS
  <2> HIDE DEF G
  <2>3. AgreeBelow(tokens, F, G, n)
    BY <1>3, <2>1 DEF AgreeBelow
  <2>4. ASSUME NEW kind \in Function, NEW i \in Index, NEW d \in Nat,
               Rank(tokens, kind, i) < n + 1
        PROVE  /\ G[<<kind, i, d>>] = Parsed(tokens, G, <<kind, i, d>>)
               /\ IsRead(kind, i, G[<<kind, i, d>>])
    <3> DEFINE r == Rank(tokens, kind, i)
    <3>1. r \in Nat /\ r <= n
      BY <1>1, <2>4
    <3> HIDE DEF r
    <3>2. AgreeBelow(tokens, F, G, r)
      BY <1>1, <2>3, <3>1 DEF AgreeBelow
    <3>3. AreReadBelow(tokens, F, r)
      <4>1. AreReadBelow(tokens, F, n)
        BY <1>3
      <4> HIDE DEF Is, Bad
      <4> QED BY <1>1, <3>1, <4>1 DEF AreReadBelow
    <3>4. /\ Parsed(tokens, F, <<kind, i, d>>) = Parsed(tokens, G, <<kind, i, d>>)
          /\ IsRead(kind, i, Parsed(tokens, F, <<kind, i, d>>))
      BY <3>2, <3>3, CallRead DEF r
    <3> QED BY <2>1, <3>4
  <2>5. AreReadBelow(tokens, G, n + 1)
    BY <2>4 DEF AreReadBelow
  <2>6. Is(G, n + 1)
    BY <2>2, <2>4, <2>5
  <2> HIDE DEF Is
  <2> QED BY <2>6
<1>4. Bad = {}
  <2> SUFFICES ASSUME Bad # {} PROVE FALSE
    OBVIOUS
  <2>1. Bad \in SUBSET Nat
    OBVIOUS
  <2>2. \A n \in Nat : n \notin Bad => n + 1 \notin Bad
    BY <1>3
  <2> HIDE DEF Bad
  <2>3. PICK m \in Bad : \A k \in Bad : m <= k
    BY <2>1, LeastOf
  <2>4. m - 1 \in Nat /\ m - 1 \notin Bad /\ (m - 1) + 1 = m
    BY <1>2, <2>1, <2>3
  <2> QED BY <2>2, <2>3, <2>4
<1> HIDE DEF Is
<1> QED BY <1>4 DEF Is

\* The calls are determined, and return nodes.
IsParse(tokens, parse) ==
  \A kind \in Function, i \in Index, d \in Nat :
    /\ parse[<<kind, i, d>>] = Parsed(tokens, parse, <<kind, i, d>>)
    /\ IsRead(kind, i, parse[<<kind, i, d>>])

LEMMA DocumentCalls ==
  ASSUME NEW tokens \in Seq(LineType)
  PROVE  \E parse : IsParse(tokens, parse) /\ ParseDocument(tokens) = parse[<<"map", 1, 0>>]
<1> DEFINE body(F) == [call \in Call |-> Parsed(tokens, F, call)]
           parse == CHOOSE F : F = body(F)
           limit == 2 * Len(tokens) + 2
<1>1. limit \in Nat
  OBVIOUS
<1>2. \A kind \in Function, i \in Index :
        Rank(tokens, kind, i) \in Nat /\ Rank(tokens, kind, i) < limit
  <2> SUFFICES ASSUME NEW kind \in Function, NEW i \in Index
               PROVE  Rank(tokens, kind, i) \in Nat /\ Rank(tokens, kind, i) < limit
    OBVIOUS
  <2>1. Rank(tokens, kind, i) \in 0..(2 * Len(tokens) + 1)
    BY RankType
  <2> QED BY <2>1
<1>3. \A c \in Call : \E kind \in Function, i \in Index, d \in Nat : c = <<kind, i, d>>
  BY DEF Call, Function, Index
<1>4. \A kind \in Function, i \in Index, d \in Nat : <<kind, i, d>> \in Call
  BY DEF Call, Function, Index
<1> HIDE DEF limit
<1>5. PICK F : /\ F = [call \in Call |-> F[call]]
               /\ \A kind \in Function, i \in Index, d \in Nat :
                    Rank(tokens, kind, i) < limit =>
                      F[<<kind, i, d>>] = Parsed(tokens, F, <<kind, i, d>>)
  BY <1>1, CallsReadBelow
<1>6. F = body(F)
  <2>1. \A c \in Call : F[c] = Parsed(tokens, F, c)
    BY <1>2, <1>3, <1>5
  <2> QED BY <1>5, <2>1
<1>7. parse = body(parse)
  <2> HIDE DEF body
  <2> QED BY <1>6
<1>8. ParseDocument(tokens) = parse[<<"map", 1, 0>>]
  BY DEF ParseDocument
<1>9. \A c \in Call : parse[c] = Parsed(tokens, parse, c)
  <2> HIDE DEF parse
  <2> QED BY <1>7
<1> HIDE DEF parse, body
<1> DEFINE Bad == {n \in Nat : \E kind \in Function, i \in Index, d \in Nat :
                     Rank(tokens, kind, i) = n /\ ~IsRead(kind, i, parse[<<kind, i, d>>])}
<1>10. Bad = {}
  <2> SUFFICES ASSUME Bad # {} PROVE FALSE
    OBVIOUS
  <2>1. PICK n \in Bad : \A k \in Bad : n <= k
    <3>1. Bad \in SUBSET Nat
      OBVIOUS
    <3> HIDE DEF Bad
    <3> QED BY <3>1, LeastOf
  <2>2. PICK kind \in Function, i \in Index, d \in Nat :
          Rank(tokens, kind, i) = n /\ ~IsRead(kind, i, parse[<<kind, i, d>>])
    OBVIOUS
  <2>3. ASSUME NEW k \in Function, NEW j \in Index, NEW e \in Nat, Rank(tokens, k, j) < n
        PROVE  IsRead(k, j, parse[<<k, j, e>>])
    <3>1. Rank(tokens, k, j) \in Nat
      BY <1>2
    <3>2. CASE ~IsRead(k, j, parse[<<k, j, e>>])
      <4>1. Rank(tokens, k, j) \in Bad
        BY <3>1, <3>2
      <4>2. n <= Rank(tokens, k, j) /\ n \in Nat
        BY <2>1, <4>1
      <4> HIDE DEF Bad
      <4> QED BY <2>3, <3>1, <4>2
    <3> QED BY <3>2
  <2>4. AgreeBelow(tokens, parse, parse, n)
    BY DEF AgreeBelow
  <2>5. AreReadBelow(tokens, parse, n)
    BY <2>3 DEF AreReadBelow
  <2>6. IsRead(kind, i, Parsed(tokens, parse, <<kind, i, d>>))
    BY <2>2, <2>4, <2>5, CallRead
  <2> QED BY <1>4, <1>9, <2>2, <2>6
<1>11. \A kind \in Function, i \in Index, d \in Nat : IsRead(kind, i, parse[<<kind, i, d>>])
  BY <1>2, <1>10
<1>12. IsParse(tokens, parse)
  BY <1>4, <1>9, <1>11 DEF IsParse
<1> QED BY <1>8, <1>12

LEMMA DocumentRead ==
  ASSUME NEW tokens \in Seq(LineType)
  PROVE  IsRead("map", 1, ParseDocument(tokens))
<1>1. PICK parse : IsParse(tokens, parse) /\ ParseDocument(tokens) = parse[<<"map", 1, 0>>]
  BY DocumentCalls
<1>2. "map" \in Function /\ 1 \in Index /\ 0 \in Nat
  BY DEF Function, Index
<1> QED BY <1>1, <1>2 DEF IsParse

------------------------------------------------------------------------------
(* The place of a token *)

\* Token j is the latest indented by at most as much as token n, and token n goes on
\* with its block.
Precedes(tokens, j, n) ==
  /\ tokens[j].indent = tokens[n].indent /\ tokens[j].kind = tokens[n].kind
  /\ \A k \in (j + 1)..(n - 1) : tokens[k].indent > tokens[n].indent

\* Token j is a key without a value on its line, and token n is right after it.
TakesValue(tokens, j, n) ==
  j = n - 1 /\ tokens[j].indent < tokens[n].indent /\ tokens[j].value = None

\* Token j is an item with a key, and token n is another entry of its map.
TakesEntry(tokens, j, n) ==
  /\ tokens[j].kind = "item" /\ tokens[j].key # None
  /\ tokens[n].kind = "entry" /\ tokens[n].indent = tokens[j].indent + 2
  /\ \A k \in (j + 1)..(n - 1) : tokens[k].indent >= tokens[n].indent

\* Token n has its place by token j.
Places(tokens, j, n) ==
  Precedes(tokens, j, n) \/ TakesValue(tokens, j, n) \/ TakesEntry(tokens, j, n)

\* The latest index of a set is the one with none above.
LEMMA LatestIs ==
  ASSUME NEW n \in Nat, NEW S \in SUBSET (1..n), NEW j \in S, \A k \in S : k <= j
  PROVE  Latest(S) = j
<1>1. \A i \in S : (\A k \in S : k <= i) => i = j
  BY SMT
<1> QED BY <1>1 DEF Latest

LEMMA TokenFacts ==
  ASSUME NEW tokens \in Seq(Token), NEW i \in 1..Len(tokens)
  PROVE  /\ tokens[i].indent \in Nat /\ tokens[i].indent % 2 = 0
         /\ tokens[i].kind \in {"entry", "item"}
         /\ tokens[i].kind = "item" => tokens[i].key # None \/ tokens[i].value # None
<1>1. tokens[i] \in Token
  OBVIOUS
<1> QED BY <1>1 DEF Token, LineType

LEMMA EvenAbove ==
  ASSUME NEW a \in Nat, NEW b \in Nat, a % 2 = 0, b % 2 = 0, a < b
  PROVE  b >= a + 2
<1>1. b # a + 1
  BY SMT
<1> QED BY <1>1

LEMMA TokensAreLines ==
  ASSUME NEW tokens \in Seq(Token)
  PROVE  tokens \in Seq(LineType)
<1>1. Token \subseteq LineType
  BY DEF Token
<1> QED BY <1>1

LEMMA PlacedBy ==
  ASSUME NEW tokens \in Seq(Token), NEW n \in 1..Len(tokens)
  PROVE  HasPlace(tokens, n) <=>
           \/ n = 1 /\ tokens[n].kind = "entry" /\ tokens[n].indent = 0
           \/ \E j \in 1..(n - 1) : Places(tokens, j, n)
<1> DEFINE Peers == OuterOrPeer(tokens, n)
           Outers == Outer(tokens, n)
<1>1. n \in Nat /\ n - 1 \in Nat /\ Len(tokens) \in Nat
  OBVIOUS
<1>2. \A j \in 1..n : tokens[j].indent \in Nat
  BY <1>1, TokenFacts
<1>3. /\ Peers = {j \in 1..(n - 1) : tokens[j].indent <= tokens[n].indent}
      /\ Outers = {j \in 1..(n - 1) : tokens[j].indent < tokens[n].indent}
  BY DEF OuterOrPeer, Outer
<1>4. Outers \subseteq Peers /\ Peers \subseteq 1..(n - 1)
  BY <1>1, <1>2, <1>3
<1> HIDE DEF Peers, Outers
<1>5. Peers # {} =>
        (IsPeer(tokens, n) <=> \E j \in 1..(n - 1) : Precedes(tokens, j, n))
  <2> SUFFICES ASSUME Peers # {}
               PROVE  IsPeer(tokens, n) <=> \E j \in 1..(n - 1) : Precedes(tokens, j, n)
    OBVIOUS
  <2> DEFINE l == Latest(Peers)
  <2>1. l \in Peers /\ \A k \in Peers : k <= l
    BY <1>1, <1>4, LatestOf
  <2>2. IsPeer(tokens, n) <=>
          tokens[l].indent = tokens[n].indent /\ tokens[l].kind = tokens[n].kind
    BY DEF IsPeer, Peers
  <2>3. ASSUME NEW j \in 1..(n - 1), Precedes(tokens, j, n)
        PROVE  l = j
    <3>1. j \in Peers
      BY <1>1, <1>2, <1>3, <2>3 DEF Precedes
    <3>2. \A k \in Peers : k <= j
      BY <1>1, <1>2, <1>3, <2>3 DEF Precedes
    <3> QED BY <1>1, <1>4, <3>1, <3>2, LatestIs
  <2> HIDE DEF l
  <2>4. l \in 1..(n - 1)
    BY <1>4, <2>1
  <2>5. \A k \in (l + 1)..(n - 1) : tokens[k].indent > tokens[n].indent
    <3>1. ASSUME NEW k \in (l + 1)..(n - 1)
          PROVE  k \in 1..(n - 1) /\ ~(k <= l)
      BY <1>1, <2>4
    <3>2. ASSUME NEW k \in (l + 1)..(n - 1)
          PROVE  ~(tokens[k].indent <= tokens[n].indent)
      BY <1>3, <2>1, <3>1
    <3> QED BY <1>1, <1>2, <3>1, <3>2
  <2> QED BY <2>2, <2>3, <2>4, <2>5 DEF Precedes
<1>6. OpensValue(tokens, n) <=> \E j \in 1..(n - 1) : TakesValue(tokens, j, n)
  BY <1>1 DEF OpensValue, TakesValue
<1>7. ContinuesItem(tokens, n) <=> \E j \in 1..(n - 1) : TakesEntry(tokens, j, n)
  <2> DEFINE l == Latest(Outers)
  <2>1. Outers # {} => l \in Outers /\ \A k \in Outers : k <= l
    BY <1>1, <1>4, LatestOf
  <2>2. ContinuesItem(tokens, n) <=>
          /\ Outers # {}
          /\ tokens[l].kind = "item" /\ tokens[l].key # None
          /\ tokens[n].kind = "entry" /\ tokens[n].indent = tokens[l].indent + 2
    BY DEF ContinuesItem, Outers
  <2>3. ASSUME NEW j \in 1..(n - 1), TakesEntry(tokens, j, n)
        PROVE  Outers # {} /\ l = j
    <3>1. j \in Outers
      BY <1>1, <1>2, <1>3, <2>3 DEF TakesEntry
    <3>2. \A k \in Outers : k <= j
      BY <1>1, <1>2, <1>3, <2>3 DEF TakesEntry
    <3> QED BY <1>1, <1>4, <3>1, <3>2, LatestIs
  <2> HIDE DEF l
  <2>4. Outers # {} => l \in 1..(n - 1)
    BY <1>4, <2>1
  <2>5. Outers # {} => \A k \in (l + 1)..(n - 1) : tokens[k].indent >= tokens[n].indent
    <3> SUFFICES ASSUME Outers # {}, NEW k \in (l + 1)..(n - 1)
                 PROVE  tokens[k].indent >= tokens[n].indent
      OBVIOUS
    <3>1. k \in 1..(n - 1) /\ ~(k <= l)
      BY <1>1, <2>4
    <3>2. ~(tokens[k].indent < tokens[n].indent)
      BY <1>3, <2>1, <3>1
    <3> QED BY <1>1, <1>2, <3>1, <3>2
  <2> QED BY <2>2, <2>3, <2>4, <2>5 DEF TakesEntry
<1>8. CASE Peers = {}
  <2>1. \A j \in 1..(n - 1) : ~(tokens[j].indent <= tokens[n].indent)
    BY <1>3, <1>8
  <2>2. \A j \in 1..(n - 1) : ~Places(tokens, j, n)
    BY <1>1, <1>2, <2>1 DEF Places, Precedes, TakesValue, TakesEntry
  <2> QED BY <1>8, <2>2 DEF HasPlace, Peers
<1>9. CASE Peers # {}
  <2>1. n # 1
    <3>1. PICK j \in Peers : TRUE
      BY <1>9
    <3>2. j \in 1..(n - 1)
      BY <1>4
    <3> QED BY <1>1, <3>2
  <2> QED BY <1>5, <1>6, <1>7, <1>9, <2>1 DEF HasPlace, Places, Peers
<1> QED BY <1>8, <1>9

------------------------------------------------------------------------------
(* Where the parser stops *)

\* The tokens from i to the one before n are indented by d at least and have a place,
\* and none of them gives token n one.
EndsAtMisfit(tokens, i, n, d) ==
  /\ n \in Index /\ i <= n /\ (n = i \/ n <= Len(tokens) + 1)
  /\ \A k \in i..(n - 1) : HasPlace(tokens, k) /\ tokens[k].indent >= d
  /\ n <= Len(tokens) => \A j \in i..(n - 1) : ~Places(tokens, j, n)

\* A call takes token i.
Takes(tokens, kind, i, d) ==
  CASE kind = "map" -> Continues(tokens, i, d, "entry")
    [] kind = "sequence" -> Continues(tokens, i, d, "item")
    [] kind = "value" -> i <= Len(tokens) /\ tokens[i].indent >= d

LEMMA TakesWhat ==
  ASSUME NEW tokens, NEW i, NEW d
  PROVE  /\ Takes(tokens, "map", i, d) <=> Continues(tokens, i, d, "entry")
         /\ Takes(tokens, "sequence", i, d) <=> Continues(tokens, i, d, "item")
         /\ Takes(tokens, "value", i, d) <=> i <= Len(tokens) /\ tokens[i].indent >= d
BY DEF Takes

\* A call that takes a token only if it has a place ends at n, where it should.
EndsWell(tokens, kind, i, d, n) ==
  (Takes(tokens, kind, i, d) => HasPlace(tokens, i)) =>
    /\ EndsAtMisfit(tokens, i, n, d)
    /\ n = i <=> ~Takes(tokens, kind, i, d)
    /\ kind # "value" => ~Takes(tokens, kind, n, d)

EndWellBelow(tokens, parse, r) ==
  \A kind \in Function, i \in Index, d \in Nat :
    Rank(tokens, kind, i) < r => EndsWell(tokens, kind, i, d, parse[<<kind, i, d>>].next)

\* What is read after a token that is indented by d alone hides what came before.
LEMMA JoinedReads ==
  ASSUME NEW tokens \in Seq(Token), NEW a \in Index, NEW b \in Index, NEW n, NEW d \in Nat,
         a <= b, b = a \/ b <= Len(tokens) + 1,
         \A k \in a..(b - 1) : HasPlace(tokens, k) /\ tokens[k].indent >= d,
         EndsAtMisfit(tokens, b, n, d),
         b # n => tokens[b].indent = d,
         b = n /\ n <= Len(tokens) => \A j \in a..(n - 1) : ~Places(tokens, j, n)
  PROVE  EndsAtMisfit(tokens, a, n, d)
<1>1. /\ n \in Index /\ b <= n /\ (n = b \/ n <= Len(tokens) + 1)
      /\ a \in Nat /\ b \in Nat /\ n \in Nat /\ a >= 1 /\ Len(tokens) \in Nat
  BY DEF EndsAtMisfit, Index
<1>2. a <= n /\ (n = a \/ n <= Len(tokens) + 1)
  BY <1>1
<1>3. \A k \in a..(n - 1) : k \in a..(b - 1) \/ k \in b..(n - 1)
  BY <1>1
<1>4. \A k \in a..(n - 1) : HasPlace(tokens, k) /\ tokens[k].indent >= d
  BY <1>3 DEF EndsAtMisfit
<1>5. ASSUME n <= Len(tokens), NEW j \in a..(n - 1), b # n
      PROVE  ~Places(tokens, j, n)
  <2>1. CASE j \in b..(n - 1)
    BY <1>5, <2>1 DEF EndsAtMisfit
  <2>2. CASE j \in a..(b - 1)
    <3>1. b \in (j + 1)..(n - 1) /\ j # n - 1 /\ j \in 1..Len(tokens) /\ n \in 1..Len(tokens)
      BY <1>1, <1>5, <2>2
    <3>2. tokens[j].indent \in Nat /\ tokens[n].indent \in Nat /\ tokens[j].indent >= d
      BY <1>4, <3>1, TokenFacts
    <3>3. tokens[b].indent = d
      BY <1>5
    <3>4. ~Precedes(tokens, j, n)
      BY <3>1, <3>2, <3>3 DEF Precedes
    <3>5. ~TakesValue(tokens, j, n)
      BY <3>1 DEF TakesValue
    <3>6. ~TakesEntry(tokens, j, n)
      BY <3>1, <3>2, <3>3 DEF TakesEntry
    <3> QED BY <3>4, <3>5, <3>6 DEF Places
  <2> QED BY <1>3, <2>1, <2>2
<1>6. n <= Len(tokens) => \A j \in a..(n - 1) : ~Places(tokens, j, n)
  BY <1>5
<1> QED BY <1>1, <1>2, <1>4, <1>6 DEF EndsAtMisfit

\* The value of a key takes tokens that are indented deeper, the first by the key, and
\* the key gives no place to the one it ends at as its value.
LEMMA KeyValueEnds ==
  ASSUME NEW tokens \in Seq(Token), NEW parse, IsParse(tokens, parse),
         NEW i \in 1..Len(tokens),
         EndWellBelow(tokens, parse, 2 * (Len(tokens) + 1 - i))
  PROVE  LET n == KeyValue(tokens, parse, i).next IN
         /\ EndsAtMisfit(tokens, i + 1, n, tokens[i].indent + 2)
         /\ n <= Len(tokens) => ~TakesValue(tokens, i, n)
<1> DEFINE n == KeyValue(tokens, parse, i).next
           d == tokens[i].indent + 2
<1>1. /\ Len(tokens) \in Nat /\ i \in Nat /\ i + 1 \in Index /\ i + 1 > i
      /\ tokens[i].indent \in Nat /\ d \in Nat /\ tokens[i].indent % 2 = 0
  <2>1. Len(tokens) \in Nat /\ i \in Nat /\ i + 1 \in Index /\ i + 1 > i
    BY DEF Index
  <2>2. tokens[i].indent \in Nat /\ tokens[i].indent % 2 = 0
    BY TokenFacts
  <2> QED BY <2>1, <2>2
<1>2. CASE tokens[i].value # None
  <2>1. n = i + 1
    BY <1>2 DEF KeyValue, Result
  <2>2. EndsAtMisfit(tokens, i + 1, i + 1, d)
    BY <1>1 DEF EndsAtMisfit
  <2> QED BY <1>2, <2>1, <2>2 DEF TakesValue
<1>3. CASE tokens[i].value = None
  <2>1. n = parse[<<"value", i + 1, d>>].next
    BY <1>3 DEF KeyValue
  <2>2. Rank(tokens, "value", i + 1) < 2 * (Len(tokens) + 1 - i)
    BY <1>1, TokensAreLines, RankFalls
  <2>3. EndsWell(tokens, "value", i + 1, d, n)
    BY <1>1, <2>1, <2>2 DEF EndWellBelow, Function
  <2>4. Takes(tokens, "value", i + 1, d) <=> i + 1 <= Len(tokens) /\ tokens[i + 1].indent >= d
    BY DEF Takes
  <2> HIDE DEF n
  <2>5. Takes(tokens, "value", i + 1, d) => HasPlace(tokens, i + 1)
    <3> SUFFICES ASSUME Takes(tokens, "value", i + 1, d) PROVE HasPlace(tokens, i + 1)
      OBVIOUS
    <3>1. i + 1 \in 1..Len(tokens) /\ i \in 1..((i + 1) - 1) /\ i = (i + 1) - 1
      BY <1>1, <2>4
    <3>2. tokens[i].indent < tokens[i + 1].indent
      BY <1>1, <2>4, <3>1, TokenFacts
    <3>3. TakesValue(tokens, i, i + 1)
      BY <1>3, <3>1, <3>2 DEF TakesValue
    <3> QED BY <3>1, <3>3, PlacedBy DEF Places
  <2>6. /\ EndsAtMisfit(tokens, i + 1, n, d)
        /\ n = i + 1 <=> ~Takes(tokens, "value", i + 1, d)
    BY <2>3, <2>5 DEF EndsWell
  <2>7. ASSUME n <= Len(tokens), TakesValue(tokens, i, n) PROVE FALSE
    <3>1. n \in Nat /\ n >= i + 1 /\ i = n - 1 /\ tokens[i].indent < tokens[n].indent
      BY <2>6, <2>7 DEF TakesValue, EndsAtMisfit, Index
    <3>2. n = i + 1 /\ n \in 1..Len(tokens)
      BY <1>1, <2>7, <3>1
    <3>3. ~(tokens[n].indent >= d)
      BY <2>4, <2>6, <2>7, <3>2
    <3>4. tokens[n].indent \in Nat /\ tokens[n].indent % 2 = 0
      BY <3>2, TokenFacts
    <3>5. tokens[n].indent >= tokens[i].indent + 2
      BY <1>1, <3>1, <3>4, EvenAbove
    <3> QED BY <3>3, <3>5
  <2> QED BY <2>6, <2>7 DEF n
<1> QED BY <1>2, <1>3


\* The calls for what is left after token i
LEMMA LaterEndsWell ==
  ASSUME NEW tokens \in Seq(Token), NEW parse, NEW i \in 1..Len(tokens),
         EndWellBelow(tokens, parse, 2 * (Len(tokens) + 1 - i)),
         NEW kind \in Function, NEW d \in Nat, NEW e,
         NEW b, EndsAtMisfit(tokens, i + 1, b, e)
  PROVE  EndsWell(tokens, kind, b, d, parse[<<kind, b, d>>].next)
<1>1. b \in Index /\ b > i
  BY DEF EndsAtMisfit, Index
<1>2. Rank(tokens, kind, b) < 2 * (Len(tokens) + 1 - i)
  BY <1>1, TokensAreLines, RankFalls
<1> QED BY <1>1, <1>2 DEF EndWellBelow

\* So does an item, with the entries that belong to it.
LEMMA ItemEnds ==
  ASSUME NEW tokens \in Seq(Token), NEW parse, IsParse(tokens, parse),
         NEW i \in 1..Len(tokens), tokens[i].kind = "item",
         EndWellBelow(tokens, parse, 2 * (Len(tokens) + 1 - i))
  PROVE  LET n == ParseItem(tokens, parse, i).next IN
         /\ EndsAtMisfit(tokens, i + 1, n, tokens[i].indent + 2)
         /\ n <= Len(tokens) => ~TakesValue(tokens, i, n) /\ ~TakesEntry(tokens, i, n)
<1> DEFINE n == ParseItem(tokens, parse, i).next
           d == tokens[i].indent + 2
           b == KeyValue(tokens, parse, i).next
<1>1. /\ Len(tokens) \in Nat /\ i \in Nat /\ i + 1 \in Index /\ i + 1 > i
      /\ tokens[i].indent \in Nat /\ d \in Nat
      /\ tokens[i].key # None \/ tokens[i].value # None
  <2>1. Len(tokens) \in Nat /\ i \in Nat /\ i + 1 \in Index /\ i + 1 > i
    BY DEF Index
  <2>2. tokens[i].indent \in Nat /\ (tokens[i].key # None \/ tokens[i].value # None)
    BY TokenFacts
  <2> QED BY <2>1, <2>2
<1>2. CASE tokens[i].key = None
  <2>1. n = i + 1
    BY <1>2 DEF ParseItem, Result
  <2>2. EndsAtMisfit(tokens, i + 1, i + 1, d)
    BY <1>1 DEF EndsAtMisfit
  <2> QED BY <1>1, <1>2, <2>1, <2>2 DEF TakesValue, TakesEntry
<1>3. CASE tokens[i].key # None
  <2>1. n = parse[<<"map", b, d>>].next
    BY <1>3 DEF ParseItem, ParseEntries, Result
  <2>2. /\ EndsAtMisfit(tokens, i + 1, b, d)
        /\ b <= Len(tokens) => ~TakesValue(tokens, i, b)
    BY KeyValueEnds
  <2> HIDE DEF b, n
  <2>3. b \in Index /\ b \in Nat /\ b > i /\ i + 1 <= b /\ (b = i + 1 \/ b <= Len(tokens) + 1)
    BY <1>1, <2>2 DEF EndsAtMisfit, Index
  <2>4. "map" \in Function
    BY DEF Function
  <2>5. EndsWell(tokens, "map", b, d, n)
    BY <1>1, <2>1, <2>2, <2>4, LaterEndsWell
  <2>6. \A k \in (i + 1)..(b - 1) : HasPlace(tokens, k) /\ tokens[k].indent >= d
    BY <2>2 DEF EndsAtMisfit
  <2>7. \A m : Takes(tokens, "map", m, d) <=>
                 m <= Len(tokens) /\ tokens[m].indent = d /\ tokens[m].kind = "entry"
    BY DEF Takes, Continues
  <2>8. Takes(tokens, "map", b, d) => HasPlace(tokens, b)
    <3> SUFFICES ASSUME Takes(tokens, "map", b, d) PROVE HasPlace(tokens, b)
      OBVIOUS
    <3>1. b \in 1..Len(tokens) /\ i \in 1..(b - 1)
      BY <1>1, <2>3, <2>7
    <3>2. TakesEntry(tokens, i, b)
      BY <1>3, <2>6, <2>7 DEF TakesEntry
    <3> QED BY <3>1, <3>2, PlacedBy DEF Places
  <2>9. /\ EndsAtMisfit(tokens, b, n, d)
        /\ n = b <=> ~Takes(tokens, "map", b, d)
        /\ ~Takes(tokens, "map", n, d)
    BY <2>5, <2>8 DEF EndsWell
  <2>10. n \in Nat /\ b <= n
    BY <2>9 DEF EndsAtMisfit, Index
  <2>11. EndsAtMisfit(tokens, i + 1, n, d)
    <3>1. b # n => tokens[b].indent = d
      BY <2>7, <2>9
    <3>2. b = n /\ n <= Len(tokens) => \A j \in (i + 1)..(n - 1) : ~Places(tokens, j, n)
      BY <2>2 DEF EndsAtMisfit
    <3>3. b = i + 1 \/ b <= Len(tokens) + 1
      BY <2>3
    <3> QED BY <1>1, <2>3, <2>6, <2>9, <3>1, <3>2, <3>3, JoinedReads
  <2>12. n <= Len(tokens) => ~TakesValue(tokens, i, n)
    <3>1. CASE n = b
      BY <2>2, <3>1
    <3>2. CASE n # b
      BY <1>1, <2>3, <2>10, <3>2 DEF TakesValue
    <3> QED BY <3>1, <3>2
  <2>13. n <= Len(tokens) => ~TakesEntry(tokens, i, n)
    BY <2>7, <2>9 DEF TakesEntry
  <2> QED BY <2>11, <2>12, <2>13 DEF n
<1> QED BY <1>2, <1>3

\* A loop over a block goes on with a token that has its place by the one before it in
\* the block.
LEMMA BlockEnds ==
  ASSUME NEW tokens \in Seq(Token), NEW i \in 1..Len(tokens), HasPlace(tokens, i),
         NEW kind \in {"map", "sequence"}, NEW d \in Nat, Takes(tokens, kind, i, d),
         NEW b, EndsAtMisfit(tokens, i + 1, b, d + 2),
         b <= Len(tokens) => ~TakesValue(tokens, i, b) /\ ~TakesEntry(tokens, i, b),
         NEW n, EndsWell(tokens, kind, b, d, n)
  PROVE  EndsAtMisfit(tokens, i, n, d) /\ n # i /\ ~Takes(tokens, kind, n, d)
<1> DEFINE block == IF kind = "map" THEN "entry" ELSE "item"
<1>1. \A m : Takes(tokens, kind, m, d) <=>
               m <= Len(tokens) /\ tokens[m].indent = d /\ tokens[m].kind = block
  BY DEF Takes, Continues
<1> HIDE DEF block
<1>2. /\ Len(tokens) \in Nat /\ i \in Nat /\ i \in Index
      /\ tokens[i].indent = d /\ tokens[i].kind = block
  BY <1>1 DEF Index
<1>3. b \in Index /\ b \in Nat /\ b >= i + 1 /\ i <= b /\ b <= Len(tokens) + 1
  BY <1>2 DEF EndsAtMisfit, Index
<1>4. \A k \in (i + 1)..(b - 1) : HasPlace(tokens, k) /\ tokens[k].indent >= d + 2
  BY DEF EndsAtMisfit
<1>5. \A k \in (i + 1)..(b - 1) : tokens[k].indent \in Nat
  BY <1>2, <1>3, TokenFacts
<1>6. Takes(tokens, kind, b, d) => HasPlace(tokens, b)
  <2> SUFFICES ASSUME Takes(tokens, kind, b, d) PROVE HasPlace(tokens, b)
    OBVIOUS
  <2>1. b \in 1..Len(tokens) /\ i \in 1..(b - 1)
    BY <1>1, <1>2, <1>3
  <2>2. \A k \in (i + 1)..(b - 1) : tokens[k].indent > d
    BY <1>4, <1>5
  <2>3. Precedes(tokens, i, b)
    BY <1>1, <1>2, <2>2 DEF Precedes
  <2> QED BY <2>1, <2>3, PlacedBy DEF Places
<1>7. /\ EndsAtMisfit(tokens, b, n, d)
      /\ n = b <=> ~Takes(tokens, kind, b, d)
      /\ ~Takes(tokens, kind, n, d)
  BY <1>6 DEF EndsWell
<1>8. n \in Nat /\ n >= b
  BY <1>3, <1>7 DEF EndsAtMisfit, Index
<1>9. \A k \in i..(b - 1) : HasPlace(tokens, k) /\ tokens[k].indent >= d
  <2>1. \A k \in i..(b - 1) : k = i \/ k \in (i + 1)..(b - 1)
    BY <1>2, <1>3
  <2> QED BY <1>2, <1>4, <1>5, <2>1
<1>10. ASSUME b = n, n <= Len(tokens), NEW j \in i..(n - 1)
       PROVE  ~Places(tokens, j, n)
  <2>1. CASE j \in (i + 1)..(b - 1)
    BY <1>10, <2>1 DEF EndsAtMisfit
  <2>2. CASE j = i
    <3>1. ~Precedes(tokens, i, n)
      BY <1>1, <1>2, <1>7, <1>10 DEF Precedes
    <3>2. ~TakesValue(tokens, i, n) /\ ~TakesEntry(tokens, i, n)
      BY <1>10
    <3> QED BY <2>2, <3>1, <3>2 DEF Places
  <2> QED BY <1>2, <1>8, <1>10, <2>1, <2>2
<1>11. EndsAtMisfit(tokens, i, n, d)
  <2>1. b # n => tokens[b].indent = d
    BY <1>1, <1>7
  <2> QED BY <1>2, <1>3, <1>7, <1>9, <1>10, <2>1, JoinedReads
<1> QED BY <1>2, <1>3, <1>7, <1>8, <1>11

LEMMA CallEnds ==
  ASSUME NEW tokens \in Seq(Token), NEW parse, IsParse(tokens, parse),
         NEW kind \in Function, NEW i \in Index, NEW d \in Nat,
         EndWellBelow(tokens, parse, Rank(tokens, kind, i))
  PROVE  EndsWell(tokens, kind, i, d, parse[<<kind, i, d>>].next)
<1> DEFINE call == <<kind, i, d>>
           n == parse[call].next
<1>1. parse[call] = Parsed(tokens, parse, call)
  BY DEF IsParse
<1>2. call[1] = kind /\ call[2] = i /\ call[3] = d
  OBVIOUS
<1>3. Len(tokens) \in Nat /\ i \in Nat /\ i >= 1
  BY DEF Index
<1>4. EndsAtMisfit(tokens, i, i, d)
  BY <1>3 DEF EndsAtMisfit
<1> SUFFICES ASSUME Takes(tokens, kind, i, d) => HasPlace(tokens, i)
             PROVE  /\ EndsAtMisfit(tokens, i, n, d)
                    /\ n = i <=> ~Takes(tokens, kind, i, d)
                    /\ kind # "value" => ~Takes(tokens, kind, n, d)
  BY DEF EndsWell
<1> HIDE DEF call
<1>5. CASE ~Takes(tokens, kind, i, d)
  <2>1. n = i
    <3>1. CASE kind = "map"
      BY <1>1, <1>2, <1>5, <3>1 DEF Parsed, ParseMap, Takes, Result
    <3>2. CASE kind = "sequence"
      BY <1>1, <1>2, <1>5, <3>2 DEF Parsed, ParseSequence, Takes, Result
    <3>3. CASE kind = "value"
      <4>1. i > Len(tokens) \/ tokens[i].indent < d
        <5>1. i <= Len(tokens) => tokens[i].indent \in Nat
          BY <1>3, TokenFacts
        <5> QED BY <1>3, <1>5, <3>3, <5>1, TakesWhat
      <4>2. ParseValue(tokens, parse, i, d) = Result(Scalar(""), i)
        BY <4>1 DEF ParseValue
      <4>3. parse[call] = ParseValue(tokens, parse, i, d)
        BY <1>1, <1>2, <3>3 DEF Parsed
      <4>4. Result(Scalar(""), i).next = i
        BY DEF Result
      <4> QED BY <4>2, <4>3, <4>4, Zenon
    <3> QED BY <3>1, <3>2, <3>3 DEF Function
  <2> QED BY <1>4, <1>5, <2>1
<1>6. CASE Takes(tokens, kind, i, d)
  <2>1. i \in 1..Len(tokens) /\ HasPlace(tokens, i)
    <3>1. i <= Len(tokens)
      BY <1>6, TakesWhat DEF Continues, Function
    <3> QED BY <1>3, <1>6, <3>1
  <2>2. kind # "value" => Rank(tokens, kind, i) = 2 * (Len(tokens) + 1 - i)
    BY <1>3, <2>1 DEF Rank
  <2>3. CASE kind = "map"
    <3> DEFINE b == KeyValue(tokens, parse, i).next
    <3>1. tokens[i].indent = d /\ tokens[i].kind = "entry"
      BY <1>6, <2>3 DEF Takes, Continues
    <3>2. n = parse[<<kind, b, d>>].next
      BY <1>1, <1>2, <1>6, <2>3 DEF Parsed, ParseMap, ParseEntries, Takes, Result
    <3>3. /\ EndsAtMisfit(tokens, i + 1, b, d + 2)
          /\ b <= Len(tokens) => ~TakesValue(tokens, i, b)
      BY <2>1, <2>2, <2>3, <3>1, KeyValueEnds
    <3>4. ~TakesEntry(tokens, i, b)
      BY <3>1 DEF TakesEntry
    <3> HIDE DEF b
    <3>5. EndsWell(tokens, kind, b, d, n)
      BY <2>1, <2>2, <2>3, <3>2, <3>3, LaterEndsWell
    <3> QED BY <1>6, <2>1, <2>3, <3>3, <3>4, <3>5, BlockEnds
  <2>4. CASE kind = "sequence"
    <3> DEFINE b == ParseItem(tokens, parse, i).next
    <3>1. tokens[i].indent = d /\ tokens[i].kind = "item"
      BY <1>6, <2>4 DEF Takes, Continues
    <3>2. n = parse[<<kind, b, d>>].next
      BY <1>1, <1>2, <1>6, <2>4 DEF Parsed, ParseSequence, Takes, Result
    <3>3. /\ EndsAtMisfit(tokens, i + 1, b, d + 2)
          /\ b <= Len(tokens) => ~TakesValue(tokens, i, b) /\ ~TakesEntry(tokens, i, b)
      BY <2>1, <2>2, <2>4, <3>1, ItemEnds
    <3> HIDE DEF b
    <3>4. EndsWell(tokens, kind, b, d, n)
      BY <2>1, <2>2, <2>4, <3>2, <3>3, LaterEndsWell
    <3> QED BY <1>6, <2>1, <2>4, <3>3, <3>4, BlockEnds
  <2>5. CASE kind = "value"
    <3> DEFINE e == tokens[i].indent
               block == IF tokens[i].kind = "item" THEN "sequence" ELSE "map"
    <3>1. /\ e \in Nat /\ tokens[i].kind \in {"entry", "item"} /\ e >= d
          /\ ~(i > Len(tokens) \/ e < d)
      BY <1>3, <1>6, <2>1, <2>5, TokenFacts DEF Takes
    <3>2. n = parse[<<block, i, e>>].next
      BY <1>1, <1>2, <2>5, <3>1 DEF Parsed, ParseValue
    <3>3. block \in Function /\ block # "value"
      BY DEF Function
    <3>4. Takes(tokens, block, i, e)
      <4>1. i <= Len(tokens)
        BY <2>1
      <4>2. CASE tokens[i].kind = "item"
        BY <4>1, <4>2, TakesWhat DEF Continues
      <4>3. CASE tokens[i].kind # "item"
        BY <3>1, <4>1, <4>3, TakesWhat DEF Continues
      <4> QED BY <4>2, <4>3
    <3> HIDE DEF block, e
    <3>5. Rank(tokens, block, i) < Rank(tokens, kind, i)
      BY <1>3, <2>1, <2>5, <3>3 DEF Rank
    <3>6. EndsWell(tokens, block, i, e, n)
      BY <3>1, <3>2, <3>3, <3>5 DEF EndWellBelow
    <3>7. EndsAtMisfit(tokens, i, n, e) /\ n # i
      BY <2>1, <3>4, <3>6 DEF EndsWell
    <3>8. EndsAtMisfit(tokens, i, n, d)
      <4>1. \A k \in i..(n - 1) : tokens[k].indent \in Nat /\ tokens[k].indent >= e
        <5>1. \A k \in i..(n - 1) : k \in 1..Len(tokens)
          BY <1>3, <2>1, <3>7 DEF EndsAtMisfit, Index
        <5> QED BY <3>7, <5>1, TokenFacts DEF EndsAtMisfit
      <4>2. \A k \in i..(n - 1) : tokens[k].indent >= d
        BY <3>1, <4>1
      <4> QED BY <3>7, <4>2 DEF EndsAtMisfit
    <3> QED BY <1>6, <2>5, <3>7, <3>8
  <2> QED BY <2>3, <2>4, <2>5 DEF Function
<1> QED BY <1>5, <1>6

LEMMA CallsEnd ==
  ASSUME NEW tokens \in Seq(Token), NEW parse, IsParse(tokens, parse)
  PROVE  \A kind \in Function, i \in Index, d \in Nat :
           EndsWell(tokens, kind, i, d, parse[<<kind, i, d>>].next)
<1>2. \A kind \in Function, i \in Index : Rank(tokens, kind, i) \in Nat
  BY TokensAreLines, RankType
<1> DEFINE Bad == {r \in Nat : \E kind \in Function, i \in Index, d \in Nat :
                     /\ Rank(tokens, kind, i) = r
                     /\ ~EndsWell(tokens, kind, i, d, parse[<<kind, i, d>>].next)}
<1>3. Bad = {}
  <2> SUFFICES ASSUME Bad # {} PROVE FALSE
    OBVIOUS
  <2>1. PICK r \in Bad : \A k \in Bad : r <= k
    <3>1. Bad \in SUBSET Nat
      OBVIOUS
    <3> HIDE DEF Bad
    <3> QED BY <3>1, LeastOf
  <2>2. PICK kind \in Function, i \in Index, d \in Nat :
          /\ Rank(tokens, kind, i) = r
          /\ ~EndsWell(tokens, kind, i, d, parse[<<kind, i, d>>].next)
    OBVIOUS
  <2>3. ASSUME NEW k \in Function, NEW j \in Index, NEW e \in Nat, Rank(tokens, k, j) < r
        PROVE  EndsWell(tokens, k, j, e, parse[<<k, j, e>>].next)
    <3> SUFFICES ASSUME ~EndsWell(tokens, k, j, e, parse[<<k, j, e>>].next) PROVE FALSE
      OBVIOUS
    <3>1. Rank(tokens, k, j) \in Nat
      BY <1>2
    <3>2. Rank(tokens, k, j) \in Bad
      BY <3>1
    <3>3. r <= Rank(tokens, k, j) /\ r \in Nat
      BY <2>1, <3>2
    <3> HIDE DEF Bad
    <3> QED BY <2>3, <3>1, <3>3
  <2>4. EndWellBelow(tokens, parse, r)
    BY <2>3 DEF EndWellBelow
  <2> QED BY <2>2, <2>4, CallEnds
<1> QED BY <1>2, <1>3

\* The parser reads the tokens up to the first without a place, and no further.
LEMMA DocumentEnds ==
  ASSUME NEW tokens \in Seq(Token)
  PROVE  ParseDocument(tokens).next = FirstMisfit(tokens)
<1>1. PICK parse : IsParse(tokens, parse) /\ ParseDocument(tokens) = parse[<<"map", 1, 0>>]
  BY TokensAreLines, DocumentCalls
<1> DEFINE n == ParseDocument(tokens).next
<1>4. "map" \in Function /\ 1 \in Index /\ 0 \in Nat /\ Len(tokens) \in Nat
  BY DEF Function, Index
<1>5. EndsWell(tokens, "map", 1, 0, n)
  BY <1>1, <1>4, CallsEnd
<1> HIDE DEF n
<1>6. Takes(tokens, "map", 1, 0) <=>
        1 <= Len(tokens) /\ tokens[1].indent = 0 /\ tokens[1].kind = "entry"
  BY DEF Takes, Continues
<1>7. 1 <= Len(tokens) => (HasPlace(tokens, 1) <=> Takes(tokens, "map", 1, 0))
  <2> SUFFICES ASSUME 1 <= Len(tokens)
               PROVE  HasPlace(tokens, 1) <=> Takes(tokens, "map", 1, 0)
    OBVIOUS
  <2>1. 1 \in 1..Len(tokens) /\ 1..(1 - 1) = {}
    BY <1>4
  <2> QED BY <1>6, <2>1, PlacedBy
<1>8. /\ EndsAtMisfit(tokens, 1, n, 0)
      /\ n = 1 <=> ~Takes(tokens, "map", 1, 0)
  BY <1>5, <1>6, <1>7 DEF EndsWell
<1>9. n \in Nat /\ n \in 1..(Len(tokens) + 1)
  BY <1>4, <1>8 DEF EndsAtMisfit, Index
<1>10. \A j \in 1..(n - 1) : HasPlace(tokens, j)
  BY <1>8 DEF EndsAtMisfit
<1>11. n <= Len(tokens) => ~HasPlace(tokens, n)
  <2>1. CASE n = 1
    BY <1>7, <1>8, <2>1
  <2>2. CASE n # 1
    BY <1>4, <1>8, <1>9, <2>2, PlacedBy DEF EndsAtMisfit
  <2> QED BY <2>1, <2>2
<1>12. ASSUME NEW m \in 1..(Len(tokens) + 1), m <= Len(tokens) => ~HasPlace(tokens, m),
              \A j \in 1..(m - 1) : HasPlace(tokens, j)
       PROVE  m = n
  <2>1. ~(m < n)
    BY <1>4, <1>9, <1>10, <1>12
  <2>2. ~(n < m)
    BY <1>4, <1>9, <1>11, <1>12
  <2> QED BY <1>4, <1>9, <2>1, <2>2
<1>13. FirstMisfit(tokens) = n
  BY <1>9, <1>10, <1>11, <1>12 DEF FirstMisfit
<1> QED BY <1>13 DEF n

------------------------------------------------------------------------------
(* The n-th of a set of numbers *)

\* The numbers of S up to x
UpTo(S, x) == {j \in S : j <= x}

\* Nth is the number with as many up to it.
LEMMA NthIs ==
  ASSUME NEW S \in SUBSET Nat, IsFiniteSet(S), NEW x \in S
  PROVE  Nth(S, Cardinality(UpTo(S, x))) = x
<1> DEFINE n == Cardinality(UpTo(S, x))
<1>1. ASSUME NEW y \in S, NEW z \in S, y < z
      PROVE  Cardinality(UpTo(S, y)) # Cardinality(UpTo(S, z))
  <2>1. UpTo(S, y) \in SUBSET UpTo(S, z)
    <3>1. y \in Nat /\ z \in Nat /\ \A j \in S : j \in Nat
      OBVIOUS
    <3>2. \A j \in S : j <= y => j <= z
      BY <1>1, <3>1
    <3> QED BY <3>2 DEF UpTo
  <2>2. z \in UpTo(S, z) /\ z \notin UpTo(S, y)
    BY <1>1 DEF UpTo
  <2>3. IsFiniteSet(UpTo(S, z))
    BY FS_Subset DEF UpTo
  <2> QED BY <2>1, <2>2, <2>3, FS_Subset
<1>2. ASSUME NEW y \in S, Cardinality(UpTo(S, y)) = n
      PROVE  y = x
  <2>1. ~(y < x) /\ ~(x < y)
    BY <1>1, <1>2
  <2> QED BY <2>1
<1>3. \A y \in S : Cardinality({j \in S : j <= y}) = n => y = x
  BY <1>2 DEF UpTo
<1>4. Cardinality({j \in S : j <= x}) = n
  BY DEF UpTo
<1> HIDE DEF n
<1>5. Nth(S, n) = x
  BY <1>3, <1>4 DEF Nth
<1> QED BY <1>5 DEF n

\* There is one for each count.
LEMMA NthCounts ==
  ASSUME NEW m \in Nat, NEW S \in SUBSET (1..m), NEW n \in 1..Cardinality(S)
  PROVE  Nth(S, n) \in S /\ Cardinality(UpTo(S, Nth(S, n))) = n
<1> DEFINE Enough == {x \in Nat : Cardinality(UpTo(S, x)) >= n}
<1>1. IsFiniteSet(S) /\ \A x : IsFiniteSet(UpTo(S, x))
  <2>1. IsFiniteSet(1..m)
    BY FS_Interval
  <2>2. IsFiniteSet(S)
    BY <2>1, FS_Subset
  <2>3. \A x : UpTo(S, x) \in SUBSET S
    BY DEF UpTo
  <2> QED BY <2>2, <2>3, FS_Subset
<1>2. \A x : Cardinality(UpTo(S, x)) \in Nat
  BY <1>1, FS_CardinalityType
<1>3. Cardinality(S) \in Nat /\ n \in Nat /\ n >= 1 /\ n <= Cardinality(S)
  BY <1>1, FS_CardinalityType
<1>4. UpTo(S, m) = S /\ UpTo(S, 0) = {}
  <2>1. \A j \in S : j <= m /\ ~(j <= 0)
    OBVIOUS
  <2> QED BY <2>1 DEF UpTo
<1>5. m \in Enough
  BY <1>3, <1>4
<1>6. PICK x \in Enough : \A y \in Enough : x <= y
  <2>1. Enough \in SUBSET Nat /\ Enough # {}
    BY <1>5
  <2> HIDE DEF Enough
  <2> QED BY <2>1, LeastOf
<1>7. x \in Nat /\ Cardinality(UpTo(S, x)) >= n
  OBVIOUS
<1>8. x # 0
  BY <1>3, <1>4, <1>7, FS_EmptySet
<1>9. x - 1 \in Nat /\ x - 1 \notin Enough
  <2>1. x - 1 \in Nat /\ ~(x <= x - 1)
    BY <1>7, <1>8
  <2> HIDE DEF Enough
  <2> QED BY <1>6, <2>1
<1>10. Cardinality(UpTo(S, x - 1)) < n
  BY <1>2, <1>3, <1>9
<1>11. \A j \in S : j <= x <=> j <= x - 1 \/ j = x
  BY <1>7
<1>12. x \in S
  <2> SUFFICES ASSUME x \notin S PROVE FALSE
    OBVIOUS
  <2>1. UpTo(S, x) = UpTo(S, x - 1)
    BY <1>11 DEF UpTo
  <2> QED BY <1>2, <1>3, <1>7, <1>10, <2>1
<1>13. UpTo(S, x) = UpTo(S, x - 1) \cup {x}
  BY <1>11, <1>12 DEF UpTo
<1>14. Cardinality(UpTo(S, x)) <= Cardinality(UpTo(S, x - 1)) + 1
  <2>1. Cardinality(UpTo(S, x)) = IF x \in UpTo(S, x - 1) THEN Cardinality(UpTo(S, x - 1))
                                  ELSE Cardinality(UpTo(S, x - 1)) + 1
    BY <1>1, <1>13, FS_AddElement
  <2> QED BY <1>2, <2>1
<1>15. Cardinality(UpTo(S, x)) = n
  BY <1>2, <1>3, <1>7, <1>10, <1>14
<1> QED BY <1>1, <1>12, <1>15, NthIs

\* A number above all comes last.
LEMMA NthOfLonger ==
  ASSUME NEW m \in Nat, NEW S \in SUBSET (1..m)
  PROVE  /\ Cardinality(S \cup {m + 1}) = Cardinality(S) + 1
         /\ Nth(S \cup {m + 1}, Cardinality(S) + 1) = m + 1
         /\ \A n \in 1..Cardinality(S) : Nth(S \cup {m + 1}, n) = Nth(S, n)
<1> DEFINE T == S \cup {m + 1}
<1>1. IsFiniteSet(S) /\ IsFiniteSet(T)
  <2>1. IsFiniteSet(1..m)
    BY FS_Interval
  <2>2. IsFiniteSet(S)
    BY <2>1, FS_Subset
  <2> QED BY <2>2, FS_AddElement
<1>2. m + 1 \notin S /\ T \in SUBSET Nat
  OBVIOUS
<1>3. Cardinality(T) = Cardinality(S) + 1
  BY <1>1, <1>2, FS_AddElement
<1>4. UpTo(T, m + 1) = T
  <2>1. \A j \in T : j <= m + 1
    OBVIOUS
  <2> HIDE DEF T
  <2> QED BY <2>1 DEF UpTo
<1>5. \A x \in S : UpTo(T, x) = UpTo(S, x)
  <2>1. \A x \in S : ~(m + 1 <= x)
    OBVIOUS
  <2> QED BY <2>1 DEF UpTo
<1>6. Nth(T, Cardinality(T)) = m + 1
  <2>1. m + 1 \in T
    OBVIOUS
  <2> HIDE DEF T
  <2> QED BY <1>1, <1>2, <1>4, <2>1, NthIs
<1>7. ASSUME NEW n \in 1..Cardinality(S)
      PROVE  Nth(T, n) = Nth(S, n)
  <2> DEFINE x == Nth(S, n)
  <2>1. x \in S /\ Cardinality(UpTo(S, x)) = n
    BY NthCounts
  <2>2. x \in T /\ Cardinality(UpTo(T, x)) = n
    BY <1>5, <2>1
  <2> HIDE DEF T, x
  <2>3. Nth(T, n) = x
    BY <1>1, <1>2, <2>2, NthIs
  <2> QED BY <2>3 DEF x
<1> QED BY <1>3, <1>6, <1>7

\* A number below all comes first.
LEMMA NthOfEarlier ==
  ASSUME NEW m \in Nat, NEW i \in 1..m, NEW S \in SUBSET ((i + 1)..m)
  PROVE  /\ Cardinality({i} \cup S) = Cardinality(S) + 1
         /\ Nth({i} \cup S, 1) = i
         /\ \A n \in 1..Cardinality(S) : Nth({i} \cup S, n + 1) = Nth(S, n)
<1> DEFINE T == {i} \cup S
<1>1. S \in SUBSET (1..m) /\ T \in SUBSET Nat /\ i \notin S
  OBVIOUS
<1>2. T = S \cup {i}
  OBVIOUS
<1>3. IsFiniteSet(S) /\ IsFiniteSet(T)
  <2>1. IsFiniteSet(1..m)
    BY FS_Interval
  <2>2. IsFiniteSet(S)
    BY <1>1, <2>1, FS_Subset
  <2> HIDE DEF T
  <2> QED BY <1>2, <2>2, FS_AddElement
<1>4. Cardinality(T) = Cardinality(S) + 1
  BY <1>1, <1>2, <1>3, FS_AddElement
<1>5. Cardinality(UpTo(T, i)) = 1
  <2>1. \A j \in S : ~(j <= i)
    OBVIOUS
  <2>2. i <= i
    OBVIOUS
  <2>3. UpTo(T, i) = {i}
    BY <2>1, <2>2 DEF UpTo
  <2> QED BY <2>3, FS_Singleton
<1>6. \A x \in S : Cardinality(UpTo(T, x)) = Cardinality(UpTo(S, x)) + 1
  <2> SUFFICES ASSUME NEW x \in S
               PROVE  Cardinality(UpTo(T, x)) = Cardinality(UpTo(S, x)) + 1
    OBVIOUS
  <2>1. UpTo(T, x) = UpTo(S, x) \cup {i}
    BY DEF UpTo
  <2>2. i \notin UpTo(S, x) /\ UpTo(S, x) \in SUBSET S
    BY <1>1 DEF UpTo
  <2>3. IsFiniteSet(UpTo(S, x))
    BY <1>3, <2>2, FS_Subset
  <2> QED BY <2>1, <2>2, <2>3, FS_AddElement
<1>7. Nth(T, 1) = i
  <2>1. i \in T
    OBVIOUS
  <2> HIDE DEF T
  <2> QED BY <1>1, <1>3, <1>5, <2>1, NthIs
<1>8. ASSUME NEW n \in 1..Cardinality(S)
      PROVE  Nth(T, n + 1) = Nth(S, n)
  <2> DEFINE x == Nth(S, n)
  <2>1. x \in S /\ Cardinality(UpTo(S, x)) = n
    BY <1>1, NthCounts
  <2>2. x \in T /\ Cardinality(UpTo(T, x)) = n + 1
    BY <1>6, <2>1
  <2> HIDE DEF T, x
  <2>3. Nth(T, n + 1) = x
    BY <1>1, <1>3, <2>2, NthIs
  <2> QED BY <2>3 DEF x
<1> QED BY <1>4, <1>7, <1>8

------------------------------------------------------------------------------
(* The lines that count *)

\* Those among the first n lines
Counted(lines, n) ==
  {i \in 1..n : lines[i].kind \in {"entry", "item"} /\ ~IsText(lines, i)}

\* What tokenize has after n lines: its margin is that of the block scalar that is
\* indented least of those whose text goes on.
ScansContent(lines, state, n) ==
  IF state.readable
  THEN /\ \A i \in 1..n : ~IsFaulty(lines, i)
       /\ state.margin = None => \A j \in 1..n : ~IsTextOf(lines, j, n)
       /\ state.margin # None =>
            /\ \E j \in 1..n : IsTextOf(lines, j, n) /\ state.margin = lines[j].indent + 2
            /\ \A j \in 1..n : IsTextOf(lines, j, n) => state.margin <= lines[j].indent + 2
       /\ state.tokens = [k \in 1..Cardinality(Counted(lines, n)) |->
                            lines[Nth(Counted(lines, n), k)]]
  ELSE \E i \in 1..n : IsFaulty(lines, i)

LEMMA LineFacts ==
  ASSUME NEW lines \in Seq(LineType), NEW i \in 1..Len(lines)
  PROVE  lines[i].indent \in Nat /\ lines[i] \in LineType
<1>1. lines[i] \in LineType
  OBVIOUS
<1> QED BY <1>1 DEF LineType

LEMMA TextGoesOn ==
  ASSUME NEW lines \in Seq(LineType), NEW n \in 1..Len(lines), NEW j \in 1..(n - 1)
  PROVE  IsTextOf(lines, j, n) <=>
           /\ IsTextOf(lines, j, n - 1)
           /\ lines[n].kind = "blank" \/ lines[n].indent >= lines[j].indent + 2
<1>1. (j + 1)..n = ((j + 1)..(n - 1)) \cup {n}
  OBVIOUS
<1> QED BY <1>1 DEF IsTextOf

LEMMA CountedLonger ==
  ASSUME NEW lines \in Seq(LineType), NEW n \in 1..Len(lines)
  PROVE  Counted(lines, n) =
           IF lines[n].kind \in {"entry", "item"} /\ ~IsText(lines, n)
           THEN Counted(lines, n - 1) \cup {n} ELSE Counted(lines, n - 1)
<1>1. 1..n = (1..(n - 1)) \cup {n}
  OBVIOUS
<1>2. \A i : i \in Counted(lines, n) <=>
               (i \in Counted(lines, n - 1) \/ i = n) /\ lines[i].kind \in {"entry", "item"}
               /\ ~IsText(lines, i)
  BY <1>1 DEF Counted
<1>3. \A i : i \in Counted(lines, n - 1) => lines[i].kind \in {"entry", "item"} /\ ~IsText(lines, i)
  BY DEF Counted
<1> QED BY <1>2, <1>3

LEMMA AppendedIs ==
  ASSUME NEW S, NEW s \in Seq(S), NEW x \in S
  PROVE  Append(s, x) = [k \in 1..(Len(s) + 1) |-> IF k = Len(s) + 1 THEN x ELSE s[k]]
<1>1. Append(s, x) \in [1..(Len(s) + 1) -> S]
  <2>1. Append(s, x) \in Seq(S) /\ Len(Append(s, x)) = Len(s) + 1
    OBVIOUS
  <2>2. \A t \in Seq(S) : t \in [1..Len(t) -> S]
    OBVIOUS
  <2> QED BY <2>1, <2>2
<1>2. \A k \in 1..(Len(s) + 1) : Append(s, x)[k] = IF k = Len(s) + 1 THEN x ELSE s[k]
  OBVIOUS
<1> QED BY <1>1, <1>2

LEMMA LineScanned ==
  ASSUME NEW lines \in Seq(LineType), NEW n \in 1..Len(lines),
         NEW state \in ScanState, ScansContent(lines, state, n - 1)
  PROVE  ScansContent(lines, Scan(state, lines[n]), n)
<1> DEFINE line == lines[n]
           margin == state.margin
<1>1. /\ n \in Nat /\ n - 1 \in Nat /\ n >= 1 /\ line.indent \in Nat /\ line.kind \in LineKind
      /\ 1..n = (1..(n - 1)) \cup {n} /\ n \notin 1..(n - 1)
      /\ \A j \in 1..n : lines[j].indent \in Nat
  <2>1. \A j \in 1..n : lines[j].indent \in Nat
    BY LineFacts
  <2>2. line \in LineType
    BY LineFacts
  <2>3. line.indent \in Nat /\ line.kind \in LineKind
    BY <2>2 DEF LineType
  <2> QED BY <2>1, <2>3
<1>2. margin \in Nat \cup {None} /\ state.readable \in BOOLEAN
  BY DEF ScanState
<1>3. CASE ~state.readable
  <2>1. Scan(state, line) = state
    BY <1>3 DEF Scan
  <2> QED BY <1>1, <1>3, <2>1 DEF ScansContent
<1>4. CASE state.readable
  <2>1. /\ \A i \in 1..(n - 1) : ~IsFaulty(lines, i)
        /\ margin = None => \A j \in 1..(n - 1) : ~IsTextOf(lines, j, n - 1)
        /\ margin # None =>
             /\ \E j \in 1..(n - 1) : IsTextOf(lines, j, n - 1) /\ margin = lines[j].indent + 2
             /\ \A j \in 1..(n - 1) : IsTextOf(lines, j, n - 1) => margin <= lines[j].indent + 2
        /\ state.tokens = [k \in 1..Cardinality(Counted(lines, n - 1)) |->
                             lines[Nth(Counted(lines, n - 1), k)]]
    BY <1>4 DEF ScansContent
  <2> DEFINE absorbs == Absorbs(line, margin)
             more == line.kind \in {"entry", "item"} /\ ~absorbs
             after == Scan(state, line)
  <2>2. after = [margin |-> NextMargin(margin, line),
                 tokens |-> IF more THEN Append(state.tokens, line) ELSE state.tokens,
                 readable |-> ~Unreadable(line, margin)]
    BY <1>4 DEF Scan
  <2>3. /\ after.margin = NextMargin(margin, line)
        /\ after.tokens = IF more THEN Append(state.tokens, line) ELSE state.tokens
        /\ after.readable = ~Unreadable(line, margin)
    BY <2>2
  <2>4. IsText(lines, n) <=> absorbs
    <3>1. ASSUME absorbs PROVE IsText(lines, n)
      <4>1. margin # None /\ (line.kind = "blank" \/ line.indent >= margin)
        BY <3>1 DEF Absorbs
      <4>2. PICK j \in 1..(n - 1) : IsTextOf(lines, j, n - 1) /\ margin = lines[j].indent + 2
        BY <2>1, <4>1
      <4>3. IsTextOf(lines, j, n)
        BY <4>1, <4>2, TextGoesOn
      <4> QED BY <4>3 DEF IsText
    <3>2. ASSUME IsText(lines, n) PROVE absorbs
      <4>1. PICK j \in 1..(n - 1) : IsTextOf(lines, j, n)
        BY <3>2 DEF IsText
      <4>2. /\ IsTextOf(lines, j, n - 1)
            /\ line.kind = "blank" \/ line.indent >= lines[j].indent + 2
        BY <4>1, TextGoesOn
      <4>3. margin # None /\ margin \in Nat /\ margin <= lines[j].indent + 2
        BY <1>2, <2>1, <4>2
      <4>4. lines[j].indent \in Nat
        BY <1>1
      <4>5. line.kind = "blank" \/ line.indent >= margin
        BY <1>1, <4>2, <4>3, <4>4
      <4> QED BY <4>3, <4>5 DEF Absorbs
    <3> QED BY <3>1, <3>2
  <2>5. AfterText(lines, n) <=> margin # None
    BY <2>1 DEF AfterText
  <2>6. IsFaulty(lines, n) <=> Unreadable(line, margin)
    BY <2>4, <2>5 DEF IsFaulty, Unreadable
  <2>7. CASE Unreadable(line, margin)
    <3>1. n \in 1..n
      BY <1>1
    <3> QED BY <2>3, <2>6, <2>7, <3>1 DEF ScansContent
  <2>8. CASE ~Unreadable(line, margin)
    <3>1. \A i \in 1..n : ~IsFaulty(lines, i)
      BY <1>1, <2>1, <2>6, <2>8
    <3>2. IsTextOf(lines, n, n) <=> StartsBlock(line)
      <4>1. (n + 1)..n = {}
        BY <1>1
      <4> QED BY <4>1 DEF IsTextOf
    <3>3. StartsBlock(line) => line.kind # "blank"
      BY DEF StartsBlock
    <3>4. \A j \in 1..(n - 1) : IsTextOf(lines, j, n) => IsTextOf(lines, j, n - 1)
      BY TextGoesOn
    <3>5. /\ after.margin = None => \A j \in 1..n : ~IsTextOf(lines, j, n)
          /\ after.margin # None =>
               /\ \E j \in 1..n : IsTextOf(lines, j, n) /\ after.margin = lines[j].indent + 2
               /\ \A j \in 1..n : IsTextOf(lines, j, n) => after.margin <= lines[j].indent + 2
      <4>1. CASE absorbs
        <5>1. /\ after.margin = margin /\ margin # None /\ margin \in Nat
              /\ line.kind = "blank" \/ line.indent >= margin
          BY <1>2, <2>3, <4>1 DEF NextMargin, Absorbs
        <5>2. PICK j \in 1..(n - 1) : IsTextOf(lines, j, n - 1) /\ margin = lines[j].indent + 2
          BY <2>1, <5>1
        <5>3. j \in 1..n /\ IsTextOf(lines, j, n)
          BY <1>1, <5>1, <5>2, TextGoesOn
        <5>4. ASSUME NEW k \in 1..n, IsTextOf(lines, k, n)
              PROVE  margin <= lines[k].indent + 2
          <6>1. CASE k \in 1..(n - 1)
            BY <2>1, <3>4, <5>1, <5>4, <6>1
          <6>2. CASE k = n
            <7>1. line.indent >= margin
              BY <3>2, <3>3, <5>1, <5>4, <6>2
            <7> QED BY <1>1, <5>1, <6>2, <7>1
          <6> QED BY <1>1, <6>1, <6>2
        <5> QED BY <5>1, <5>2, <5>3, <5>4
      <4>2. CASE ~absorbs
        <5>1. after.margin = IF StartsBlock(line) THEN line.indent + 2 ELSE None
          BY <2>3, <4>2 DEF NextMargin
        <5>2. \A j \in 1..(n - 1) : ~IsTextOf(lines, j, n)
          BY <2>4, <4>2 DEF IsText
        <5>3. CASE StartsBlock(line)
          <6>1. after.margin = line.indent + 2 /\ line.indent + 2 \in Nat
            BY <1>1, <5>1, <5>3
          <6>2. after.margin # None /\ after.margin <= line.indent + 2
            BY <6>1, NoneAssumption
          <6>3. n \in 1..n
            BY <1>1
          <6> QED BY <1>1, <3>2, <5>2, <5>3, <6>1, <6>2, <6>3
        <5>4. CASE ~StartsBlock(line)
          BY <1>1, <3>2, <5>1, <5>2, <5>4
        <5> QED BY <5>3, <5>4
      <4> QED BY <4>1, <4>2
    <3>6. after.tokens = [k \in 1..Cardinality(Counted(lines, n)) |->
                            lines[Nth(Counted(lines, n), k)]]
      <4> DEFINE S == Counted(lines, n - 1)
                 T == Counted(lines, n)
      <4>1. T = IF more THEN S \cup {n} ELSE S
        BY <2>4, CountedLonger
      <4>2. S \in SUBSET (1..(n - 1))
        BY DEF Counted
      <4>3. Cardinality(S) \in Nat
        <5>1. IsFiniteSet(1..(n - 1))
          BY <1>1, FS_Interval
        <5> HIDE DEF S
        <5>2. IsFiniteSet(S)
          BY <4>2, <5>1, FS_Subset
        <5> QED BY <5>2, FS_CardinalityType
      <4>4. CASE ~more
        BY <2>1, <2>3, <4>1, <4>4
      <4>5. CASE more
        <5>1. /\ Cardinality(S \cup {(n - 1) + 1}) = Cardinality(S) + 1
              /\ Nth(S \cup {(n - 1) + 1}, Cardinality(S) + 1) = (n - 1) + 1
              /\ \A k \in 1..Cardinality(S) : Nth(S \cup {(n - 1) + 1}, k) = Nth(S, k)
          BY <1>1, <4>2, NthOfLonger
        <5>2. T = S \cup {(n - 1) + 1} /\ (n - 1) + 1 = n
          BY <1>1, <4>1, <4>5
        <5>3. /\ Cardinality(T) = Cardinality(S) + 1
              /\ Nth(T, Cardinality(S) + 1) = n
              /\ \A k \in 1..Cardinality(S) : Nth(T, k) = Nth(S, k)
          BY <5>1, <5>2
        <5>4. state.tokens = [k \in 1..Cardinality(S) |-> lines[Nth(S, k)]]
          BY <2>1
        <5>5. after.tokens = Append(state.tokens, line)
          BY <2>3, <4>5
        <5>6. \A k \in 1..Cardinality(S) : state.tokens[k] = lines[Nth(T, k)]
          BY <5>3, <5>4
        <5> DEFINE c == Cardinality(S)
                   tokens == state.tokens
        <5>7. tokens \in Seq(LineType) /\ Len(tokens) = c
          <6>1. tokens \in Seq(LineType)
            BY DEF ScanState
          <6>2. DOMAIN tokens = 1..c /\ c \in Nat
            BY <4>3, <5>4
          <6> HIDE DEF c, tokens
          <6> QED BY <6>1, <6>2
        <5>8. Append(tokens, line) = [k \in 1..(c + 1) |-> IF k = c + 1 THEN line ELSE tokens[k]]
          BY <1>1, <5>7, LineFacts, AppendedIs
        <5>9. \A k \in 1..(c + 1) : (IF k = c + 1 THEN line ELSE tokens[k]) = lines[Nth(T, k)]
          <6> SUFFICES ASSUME NEW k \in 1..(c + 1)
                       PROVE  (IF k = c + 1 THEN line ELSE tokens[k]) = lines[Nth(T, k)]
            OBVIOUS
          <6>1. k = c + 1 \/ k \in 1..c
            BY <4>3
          <6> QED BY <5>3, <5>6, <6>1
        <5>10. after.tokens = [k \in 1..(c + 1) |-> lines[Nth(T, k)]]
          <6> HIDE DEF c, tokens, line, T, S
          <6>1. [k \in 1..(c + 1) |-> IF k = c + 1 THEN line ELSE tokens[k]]
                  = [k \in 1..(c + 1) |-> lines[Nth(T, k)]]
            BY <5>9
          <6>2. after.tokens = Append(tokens, line)
            BY <5>5 DEF tokens
          <6> QED BY <5>8, <6>1, <6>2
        <5> HIDE DEF after
        <5> QED BY <5>3, <5>10
      <4> QED BY <4>4, <4>5
    <3>7. ScansContent(lines, after, n)
      <4> HIDE DEF after
      <4> QED BY <2>3, <2>8, <3>1, <3>5, <3>6 DEF ScansContent
    <3> QED BY <3>7
  <2> QED BY <2>7, <2>8
<1> QED BY <1>2, <1>3, <1>4

\* tokenize throws if and only if a line makes the document unreadable, and otherwise
\* makes a token of each line that counts, in their order.
THEOREM TokensAreTheContent ==
  ASSUME NEW lines \in Seq(LineType)
  PROVE  /\ Tokenizable(lines) <=> \A i \in DOMAIN lines : ~IsFaulty(lines, i)
         /\ Tokenizable(lines) => Tokenize(lines) = Content(lines)
<1> DEFINE L == Len(lines)
<1>1. PICK scan : IsScan(lines, scan)
  BY ScanExists
<1>2. L \in Nat /\ DOMAIN lines = 1..L
  OBVIOUS
<1> DEFINE Bad == {n \in 0..L : ~ScansContent(lines, scan[n], n)}
<1>3. Bad = {}
  <2> SUFFICES ASSUME Bad # {} PROVE FALSE
    OBVIOUS
  <2>1. PICK m \in Bad : \A k \in Bad : m <= k
    <3>1. Bad \in SUBSET Nat
      OBVIOUS
    <3> HIDE DEF Bad
    <3> QED BY <3>1, LeastOf
  <2>2. m # 0
    <3>1. scan[0] = [margin |-> None, tokens |-> <<>>, readable |-> TRUE]
      BY <1>1 DEF IsScan
    <3>2. 1..0 = {}
      OBVIOUS
    <3>3. Counted(lines, 0) = {} /\ Cardinality(Counted(lines, 0)) = 0
      BY <3>2, FS_EmptySet DEF Counted
    <3>4. [k \in 1..0 |-> lines[Nth(Counted(lines, 0), k)]] = <<>>
      OBVIOUS
    <3>5. ScansContent(lines, scan[0], 0)
      BY <3>1, <3>2, <3>3, <3>4 DEF ScansContent
    <3> QED BY <3>5
  <2>3. m \in 1..L /\ m - 1 \in 0..L /\ m - 1 \notin Bad
    <3>1. m \in 0..L /\ m \in 1..L /\ m - 1 \in 0..L /\ ~(m <= m - 1)
      BY <1>2, <2>2
    <3> HIDE DEF Bad
    <3> QED BY <2>1, <3>1
  <2>4. ScansContent(lines, scan[m - 1], m - 1) /\ scan[m - 1] \in ScanState
    BY <1>1, <2>3 DEF IsScan
  <2>5. scan[m] = Scan(scan[m - 1], lines[m])
    BY <1>1, <2>3 DEF IsScan
  <2>6. ScansContent(lines, scan[m], m)
    BY <2>3, <2>4, <2>5, LineScanned
  <2> QED BY <2>6
<1>4. ScansContent(lines, Scanned(lines), L)
  <2>1. L \in 0..L
    BY <1>2
  <2>2. Scanned(lines) = scan[L]
    BY <1>1 DEF IsScan
  <2> QED BY <1>3, <2>1, <2>2
<1>5. Content(lines) =
        [k \in 1..Cardinality(Counted(lines, L)) |-> lines[Nth(Counted(lines, L), k)]]
  BY <1>2 DEF Content, Counted
<1>6. Scanned(lines).readable \in BOOLEAN
  BY ScannedTyped DEF ScanState
<1> HIDE DEF L
<1> QED BY <1>2, <1>4, <1>5, <1>6 DEF ScansContent, Tokenizable, Tokenize

------------------------------------------------------------------------------
(* What is indented in a token *)

\* The tokens from i to the one before n are indented by d at least, and token n has its
\* place by an earlier one, if it has one.
EndsOutside(tokens, i, n, d) ==
  /\ n \in i..(Len(tokens) + 1)
  /\ \A k \in i..(n - 1) : tokens[k].indent >= d
  /\ n \in 2..Len(tokens) => \E p \in 1..(i - 1) : Places(tokens, p, n)

\* All tokens have a place.
Connected(tokens) ==
  \A n \in 2..Len(tokens) : \E p \in 1..(n - 1) : Places(tokens, p, n)

\* Those of a block
Span(tokens, i, n, d) == {k \in i..(n - 1) : tokens[k].indent = d}

\* A token that is indented by less separates.
LEMMA NoPlaceAcross ==
  ASSUME NEW tokens \in Seq(Token), NEW n \in 1..Len(tokens), NEW i \in 1..(n - 1),
         tokens[i].indent < tokens[n].indent, NEW p \in 1..(i - 1)
  PROVE  ~Places(tokens, p, n)
<1>1. i \in (p + 1)..(n - 1) /\ p # n - 1
  OBVIOUS
<1>2. i \in 1..Len(tokens) /\ p \in 1..Len(tokens)
  OBVIOUS
<1>3. tokens[i].indent \in Nat /\ tokens[n].indent \in Nat
  BY <1>2, TokenFacts
<1>4. ~(tokens[i].indent > tokens[n].indent) /\ ~(tokens[i].indent >= tokens[n].indent)
  BY <1>3
<1> QED BY <1>1, <1>4 DEF Places, Precedes, TakesValue, TakesEntry

\* What is indented in token i and has its place by one before the next has it by token i.
LEMMA NextIs ==
  ASSUME NEW tokens \in Seq(Token), NEW i \in 1..Len(tokens), NEW n \in 1..Len(tokens), NEW d,
         EndsOutside(tokens, i + 1, n, d), tokens[i].indent < tokens[n].indent
  PROVE  TakesValue(tokens, i, n) \/ TakesEntry(tokens, i, n)
<1>1. n \in 2..Len(tokens) /\ i \in 1..(n - 1)
  BY DEF EndsOutside
<1>2. PICK p \in 1..i : Places(tokens, p, n)
  BY <1>1 DEF EndsOutside
<1>3. p = i
  <2>1. p = i \/ p \in 1..(i - 1)
    OBVIOUS
  <2> QED BY <1>1, <1>2, <2>1, NoPlaceAcross
<1>4. ~Precedes(tokens, i, n)
  <2>1. tokens[i].indent \in Nat /\ tokens[n].indent \in Nat
    BY TokenFacts
  <2> QED BY <2>1 DEF Precedes
<1> QED BY <1>2, <1>3, <1>4 DEF Places

\* A token that is indented in token i has its place by it, or goes on with the block of
\* another such token.
LEMMA ChildPlaced ==
  ASSUME NEW tokens \in Seq(Token), Connected(tokens), NEW i \in 1..Len(tokens),
         NEW k \in Children(tokens, i)
  PROVE  \/ TakesValue(tokens, i, k)
         \/ TakesEntry(tokens, i, k)
         \/ \E q \in Children(tokens, i) : q < k /\ Precedes(tokens, q, k)
<1>1. /\ i \in Nat /\ Len(tokens) \in Nat /\ k \in (i + 1)..Len(tokens) /\ k \in 2..Len(tokens)
      /\ tokens[i].indent < tokens[k].indent
      /\ \A l \in (i + 1)..(k - 1) : tokens[l].indent >= tokens[k].indent
  BY DEF Children
<1>2. PICK q \in 1..(k - 1) : Places(tokens, q, k)
  BY <1>1 DEF Connected
<1>3. \A l \in 1..k : tokens[l].indent \in Nat
  BY <1>1, TokenFacts
<1>4. CASE q \in 1..(i - 1)
  <2>1. i \in 1..(k - 1) /\ k \in 1..Len(tokens)
    BY <1>1
  <2> QED BY <1>1, <1>2, <1>4, <2>1, NoPlaceAcross
<1>5. CASE q = i
  <2>1. ~Precedes(tokens, i, k)
    BY <1>1, <1>3 DEF Precedes
  <2> QED BY <1>2, <1>5, <2>1 DEF Places
<1>6. CASE q \in (i + 1)..(k - 1)
  <2>1. tokens[q].indent >= tokens[k].indent
    BY <1>1, <1>6
  <2>2. tokens[q].indent \in Nat /\ tokens[k].indent \in Nat /\ tokens[i].indent \in Nat
    BY <1>1, <1>3
  <2>3. ~TakesValue(tokens, q, k) /\ ~TakesEntry(tokens, q, k)
    BY <2>1, <2>2 DEF TakesValue, TakesEntry
  <2>4. Precedes(tokens, q, k) /\ tokens[q].indent = tokens[k].indent
    BY <1>2, <2>3 DEF Places, Precedes
  <2>5. \A l \in (i + 1)..(q - 1) : tokens[l].indent >= tokens[q].indent
    <3>1. \A l \in (i + 1)..(q - 1) : l \in (i + 1)..(k - 1)
      BY <1>1, <1>6
    <3> QED BY <1>1, <2>4, <3>1
  <2>6. q \in Children(tokens, i)
    BY <1>1, <1>6, <2>4, <2>5 DEF Children
  <2> QED BY <1>1, <1>6, <2>4, <2>6
<1> QED BY <1>1, <1>4, <1>5, <1>6

\* What is no part of the value of a key is a further entry of its item.
LEMMA FurtherAreEntries ==
  ASSUME NEW tokens \in Seq(Token), Connected(tokens), NEW i \in 1..Len(tokens),
         NEW k \in Children(tokens, i) \ ValueBlock(tokens, i)
  PROVE  TakesEntry(tokens, i, k)
<1> DEFINE Rest == Children(tokens, i) \ ValueBlock(tokens, i)
           Bad == {l \in Rest : ~TakesEntry(tokens, i, l)}
<1>1. Bad = {}
  <2> SUFFICES ASSUME Bad # {} PROVE FALSE
    OBVIOUS
  <2>1. PICK l \in Bad : \A q \in Bad : l <= q
    <3>1. Bad \in SUBSET Nat
      BY DEF Children
    <3> HIDE DEF Bad
    <3> QED BY <3>1, LeastOf
  <2>2. /\ l \in Children(tokens, i) /\ l \notin ValueBlock(tokens, i)
        /\ ~TakesEntry(tokens, i, l) /\ l \in Nat
    BY DEF Children
  <2>3. ~TakesValue(tokens, i, l)
    <3> SUFFICES ASSUME TakesValue(tokens, i, l) PROVE FALSE
      OBVIOUS
    <3>1. l = i + 1 /\ tokens[i].value = None
      BY <2>2 DEF TakesValue
    <3> QED BY <2>2, <3>1 DEF ValueBlock
  <2>4. PICK q \in Children(tokens, i) : q < l /\ Precedes(tokens, q, l)
    BY <2>2, <2>3, ChildPlaced
  <2>5. q \in Nat /\ ~(l <= q)
    BY <2>2, <2>4 DEF Children
  <2>6. q \notin ValueBlock(tokens, i)
    BY <2>2, <2>4 DEF ValueBlock, Precedes
  <2>7. TakesEntry(tokens, i, q)
    <3>1. q \notin Bad
      <4> HIDE DEF Bad
      <4> QED BY <2>1, <2>5
    <3> QED BY <2>4, <2>6, <3>1
  <2>8. TakesEntry(tokens, i, l)
    BY <2>2, <2>4, <2>7 DEF TakesEntry, Precedes, Children
  <2> QED BY <2>2, <2>8
<1> QED BY <1>1

\* The value of a key is the block that begins right after it, up to where the block ends.
LEMMA ValueBlockIs ==
  ASSUME NEW tokens \in Seq(Token), Connected(tokens), NEW i \in 1..(Len(tokens) - 1),
         tokens[i].value = None, tokens[i].indent < tokens[i + 1].indent,
         NEW n, n # i + 1, EndsOutside(tokens, i + 1, n, tokens[i + 1].indent),
         \A k \in Span(tokens, i + 1, n, tokens[i + 1].indent) :
           tokens[k].kind = tokens[i + 1].kind,
         n <= Len(tokens) => \/ tokens[n].indent # tokens[i + 1].indent
                             \/ tokens[n].kind # tokens[i + 1].kind
  PROVE  ValueBlock(tokens, i) = Span(tokens, i + 1, n, tokens[i + 1].indent)
<1> DEFINE e == tokens[i + 1].indent
           kind == tokens[i + 1].kind
           S == Span(tokens, i + 1, n, e)
<1>1. /\ i \in Nat /\ Len(tokens) \in Nat /\ i \in 1..Len(tokens) /\ i + 1 \in 1..Len(tokens)
      /\ n \in Nat /\ n > i + 1 /\ n <= Len(tokens) + 1
      /\ \A k \in (i + 1)..(n - 1) : tokens[k].indent >= e
  BY DEF EndsOutside
<1>2. \A k \in 1..Len(tokens) : tokens[k].indent \in Nat
  BY TokenFacts
<1>3. ASSUME NEW k \in S PROVE k \in ValueBlock(tokens, i)
  <2>1. /\ k \in (i + 1)..Len(tokens) /\ tokens[k].indent = e /\ tokens[k].kind = kind
        /\ \A l \in (i + 1)..(k - 1) : tokens[l].indent >= e
    BY <1>1, <1>3 DEF Span
  <2> QED BY <2>1 DEF ValueBlock, Children
<1>4. ASSUME NEW k \in ValueBlock(tokens, i)
      PROVE  /\ k \in (i + 1)..Len(tokens) /\ tokens[k].indent = e /\ tokens[k].kind = kind
             /\ \A l \in (i + 1)..(k - 1) : tokens[l].indent >= e
             /\ k \in Children(tokens, i)
  BY <1>4 DEF ValueBlock, Children
<1> DEFINE Bad == {k \in ValueBlock(tokens, i) : k >= n}
<1>5. Bad = {}
  <2> SUFFICES ASSUME Bad # {} PROVE FALSE
    OBVIOUS
  <2>1. PICK k \in Bad : \A q \in Bad : k <= q
    <3>1. Bad \in SUBSET Nat
      BY <1>4
    <3> HIDE DEF Bad
    <3> QED BY <3>1, LeastOf
  <2>2. /\ k >= n /\ k \in (i + 1)..Len(tokens) /\ k \in Nat
        /\ tokens[k].indent = e /\ tokens[k].kind = kind
        /\ \A l \in (i + 1)..(k - 1) : tokens[l].indent >= e
        /\ k \in Children(tokens, i)
    BY <1>1, <1>4
  <2>3. n \in 1..Len(tokens) /\ tokens[n].indent >= e
    <3>1. n = k \/ n \in (i + 1)..(k - 1)
      BY <1>1, <2>2
    <3>2. n \in 1..Len(tokens)
      BY <1>1, <2>2
    <3> QED BY <1>2, <2>2, <3>1, <3>2
  <2>4. tokens[i].indent < tokens[n].indent
    BY <1>1, <1>2, <2>3
  <2>5. TakesEntry(tokens, i, n)
    <3>1. TakesValue(tokens, i, n) \/ TakesEntry(tokens, i, n)
      BY <1>1, <2>3, <2>4, NextIs
    <3> QED BY <1>1, <3>1 DEF TakesValue
  <2>6. tokens[n].kind = "entry" /\ tokens[n].indent = e
    <3>1. tokens[n].kind = "entry" /\ tokens[n].indent = tokens[i].indent + 2
      BY <2>5 DEF TakesEntry
    <3>2. e >= tokens[i].indent + 2
      BY <1>1, <1>2, TokenFacts, EvenAbove
    <3> QED BY <1>1, <1>2, <2>3, <3>1, <3>2
  <2>7. kind # "entry" /\ k # n /\ n \in (i + 1)..(k - 1)
    BY <1>1, <2>2, <2>3, <2>6
  <2>8. PICK q \in Children(tokens, i) : q < k /\ Precedes(tokens, q, k)
    <3>1. ~TakesValue(tokens, i, k)
      BY <1>1, <2>2, <2>7 DEF TakesValue
    <3>2. ~TakesEntry(tokens, i, k)
      BY <2>2, <2>7 DEF TakesEntry
    <3> QED BY <1>1, <2>2, <3>1, <3>2, ChildPlaced
  <2>9. /\ q \in Nat /\ q \in (i + 1)..(k - 1) /\ tokens[q].indent = e /\ tokens[q].kind = kind
        /\ \A l \in (q + 1)..(k - 1) : tokens[l].indent > e
    BY <2>2, <2>8 DEF Children, Precedes
  <2>10. ~(q < n)
    <3> SUFFICES ASSUME q < n PROVE FALSE
      OBVIOUS
    <3>1. n \in (q + 1)..(k - 1)
      BY <2>7, <2>9
    <3>2. tokens[n].indent > e /\ e \in Nat
      BY <1>1, <1>2, <2>9, <3>1
    <3> QED BY <2>6, <3>2
  <2>11. q \in ValueBlock(tokens, i)
    BY <2>8, <2>9 DEF ValueBlock
  <2>12. q \in Bad /\ ~(k <= q)
    BY <1>1, <2>2, <2>9, <2>10, <2>11
  <2> HIDE DEF Bad
  <2> QED BY <2>1, <2>12
<1>6. ASSUME NEW k \in ValueBlock(tokens, i) PROVE k \in S
  <2>1. k \in (i + 1)..Len(tokens) /\ tokens[k].indent = e /\ ~(k >= n)
    BY <1>4, <1>5
  <2>2. k \in (i + 1)..(n - 1)
    BY <1>1, <2>1
  <2> QED BY <2>1, <2>2 DEF Span
<1> QED BY <1>3, <1>6

\* What a key took of the tokens after it, up to b, is its value.
HoldsValue(tokens, i, b) ==
  \/ b = i + 1 /\ ValueBlock(tokens, i) = {}
  \/ /\ i + 1 <= Len(tokens)
     /\ ValueBlock(tokens, i) = Span(tokens, i + 1, b, tokens[i + 1].indent)
     /\ \A k \in (i + 1)..(b - 1) : tokens[k].indent >= tokens[i + 1].indent

\* The further entries of an item are what follows the value of its key.
LEMMA FurtherBlockIs ==
  ASSUME NEW tokens \in Seq(Token), Connected(tokens), NEW i \in 1..Len(tokens),
         NEW b, NEW c, b \in (i + 1)..c, HoldsValue(tokens, i, b),
         EndsOutside(tokens, i + 1, c, tokens[i].indent + 2),
         c <= Len(tokens) => ~TakesValue(tokens, i, c) /\ ~TakesEntry(tokens, i, c)
  PROVE  Children(tokens, i) \ ValueBlock(tokens, i) = Span(tokens, b, c, tokens[i].indent + 2)
<1> DEFINE e == tokens[i].indent + 2
<1>1. /\ i \in Nat /\ Len(tokens) \in Nat /\ b \in Nat /\ c \in Nat
      /\ i + 1 <= b /\ b <= c /\ c <= Len(tokens) + 1
      /\ \A k \in (i + 1)..(c - 1) : tokens[k].indent >= e
  BY DEF EndsOutside
<1>2. \A k \in 1..Len(tokens) : tokens[k].indent \in Nat
  BY TokenFacts
<1>3. ASSUME NEW k \in Span(tokens, b, c, e)
      PROVE  k \in Children(tokens, i) \ ValueBlock(tokens, i)
  <2>1. k \in Nat /\ b <= k /\ k <= c - 1 /\ tokens[k].indent = e
    BY <1>1, <1>3 DEF Span
  <2>2. k \in (i + 1)..Len(tokens) /\ \A l \in (i + 1)..(k - 1) : tokens[l].indent >= e
    BY <1>1, <2>1
  <2>3. k \in Children(tokens, i)
    BY <1>1, <1>2, <2>1, <2>2 DEF Children
  <2>4. k \notin ValueBlock(tokens, i)
    BY <1>1, <2>1 DEF HoldsValue, Span
  <2> QED BY <2>3, <2>4
<1>4. ASSUME NEW k \in Children(tokens, i) \ ValueBlock(tokens, i)
      PROVE  k \in Span(tokens, b, c, e)
  <2>1. /\ k \in (i + 1)..Len(tokens) /\ k \in Nat /\ tokens[k].indent = e
        /\ \A l \in (i + 1)..(k - 1) : tokens[l].indent >= e
    <3>1. TakesEntry(tokens, i, k)
      BY FurtherAreEntries
    <3>2. /\ k \in (i + 1)..Len(tokens)
          /\ \A l \in (i + 1)..(k - 1) : tokens[l].indent >= tokens[k].indent
      BY DEF Children
    <3>3. tokens[k].indent = e
      BY <3>1 DEF TakesEntry
    <3> QED BY <1>1, <3>2, <3>3
  <2>2. b <= k
    <3> SUFFICES ASSUME k < b PROVE FALSE
      BY <1>1, <2>1
    <3> DEFINE first == tokens[i + 1].indent
    <3>1. /\ i + 1 <= Len(tokens)
          /\ ValueBlock(tokens, i) = Span(tokens, i + 1, b, first)
          /\ \A l \in (i + 1)..(b - 1) : tokens[l].indent >= first
      BY <1>1, <2>1 DEF HoldsValue
    <3>2. k \in (i + 1)..(b - 1) /\ (k = i + 1 \/ i + 1 \in (i + 1)..(k - 1))
      BY <1>1, <2>1
    <3>3. first \in Nat /\ e \in Nat
      BY <1>1, <1>2, <3>1
    <3>4. e >= first /\ (k = i + 1 \/ first >= e)
      BY <2>1, <3>1, <3>2
    <3>5. tokens[k].indent = first
      BY <2>1, <3>3, <3>4
    <3>6. k \in Span(tokens, i + 1, b, first)
      BY <3>2, <3>5 DEF Span
    <3> QED BY <1>4, <3>1, <3>6
  <2>3. k <= c - 1
    <3> SUFFICES ASSUME c <= k PROVE FALSE
      BY <1>1, <2>1
    <3>1. c \in 1..Len(tokens) /\ (c = k \/ c \in (i + 1)..(k - 1))
      BY <1>1, <2>1
    <3>2. tokens[c].indent >= e /\ tokens[c].indent \in Nat /\ tokens[i].indent \in Nat
      BY <1>2, <2>1, <3>1
    <3>3. tokens[i].indent < tokens[c].indent
      BY <3>2
    <3> QED BY <1>1, <3>1, <3>3, NextIs
  <2> QED BY <1>1, <2>1, <2>2, <2>3 DEF Span
<1> QED BY <1>3, <1>4

------------------------------------------------------------------------------
(* What a block means *)

LEMMA MinIs ==
  ASSUME NEW S \in SUBSET Nat, NEW i \in S, \A j \in S : i <= j
  PROVE  Min(S) = i
<1>1. \A j \in S : j \in Nat
  OBVIOUS
<1>2. \A j \in S : (\A k \in S : j <= k) => j = i
  BY <1>1
<1> QED BY <1>2 DEF Min

\* The tokens S come after token i.
Follow(i, S, m) == m \in Nat /\ i \in 1..m /\ S \in SUBSET ((i + 1)..m)

\* The first entry of a map counts.
LEMMA MapOfMore ==
  ASSUME NEW tokens, NEW F, NEW i, NEW m, NEW S, Follow(i, S, m)
  PROVE  MapNode(Emplaced(tokens[i].key, F[i], MapOf(tokens, F, S).fields))
           = MapOf(tokens, F, {i} \cup S)
<1> DEFINE fields(T) == [key \in {tokens[j].key : j \in T} |->
                           F[Min({j \in T : tokens[j].key = key})]]
           all == {i} \cup S
           key1 == tokens[i].key
<1>1. MapOf(tokens, F, S).fields = fields(S) /\ MapOf(tokens, F, all) = MapNode(fields(all))
  BY DEF MapOf, MapNode
<1>2. Emplaced(key1, F[i], fields(S)) =
        [k \in {key1} \cup {tokens[j].key : j \in S} |-> IF k = key1 THEN F[i] ELSE fields(S)[k]]
  BY DEF Emplaced
<1>3. {key1} \cup {tokens[j].key : j \in S} = {tokens[j].key : j \in all}
  OBVIOUS
<1>4. ASSUME NEW k \in {tokens[j].key : j \in all}
      PROVE  (IF k = key1 THEN F[i] ELSE fields(S)[k]) = fields(all)[k]
  <2>1. fields(all)[k] = F[Min({j \in all : tokens[j].key = k})]
    BY <1>4
  <2>2. CASE k = key1
    <3>1. Min({j \in all : tokens[j].key = k}) = i
      <4>1. /\ {j \in all : tokens[j].key = k} \in SUBSET Nat
            /\ i \in {j \in all : tokens[j].key = k}
            /\ \A l \in {j \in all : tokens[j].key = k} : i <= l
        <5>1. \A l \in all : l \in Nat /\ i <= l
          BY DEF Follow
        <5>2. i \in all
          OBVIOUS
        <5> HIDE DEF all
        <5> QED BY <2>2, <5>1, <5>2
      <4> QED BY <4>1, MinIs
    <3> QED BY <2>1, <2>2, <3>1
  <2>3. CASE k # key1
    <3>1. {j \in all : tokens[j].key = k} = {j \in S : tokens[j].key = k}
      BY <2>3
    <3>2. k \in {tokens[j].key : j \in S}
      BY <2>3
    <3>3. fields(S)[k] = F[Min({j \in S : tokens[j].key = k})]
      BY <3>2
    <3> QED BY <2>1, <2>3, <3>1, <3>3
  <2> QED BY <2>2, <2>3
<1>5. Emplaced(key1, F[i], fields(S)) = fields(all)
  <2> DEFINE A == {tokens[j].key : j \in all}
             f == fields(S)
             g == fields(all)
  <2>1. g = [k \in A |-> g[k]]
    OBVIOUS
  <2>2. Emplaced(key1, F[i], f) = [k \in A |-> IF k = key1 THEN F[i] ELSE f[k]]
    BY <1>2, <1>3
  <2>3. \A k \in A : (IF k = key1 THEN F[i] ELSE f[k]) = g[k]
    BY <1>4
  <2> HIDE DEF A, f, g
  <2>4. [k \in A |-> IF k = key1 THEN F[i] ELSE f[k]] = [k \in A |-> g[k]]
    BY <2>3
  <2>5. Emplaced(key1, F[i], f) = g
    BY <2>1, <2>2, <2>4
  <2> QED BY <2>5 DEF f, g
<1> HIDE DEF fields
<1> QED BY <1>1, <1>5

LEMMA PrependedIs ==
  ASSUME NEW S, NEW s \in Seq(S), NEW x \in S
  PROVE  <<x>> \o s = [k \in 1..(Len(s) + 1) |-> IF k = 1 THEN x ELSE s[k - 1]]
<1>1. <<x>> \in Seq(S) /\ <<x>> \o s \in Seq(S) /\ Len(<<x>> \o s) = Len(s) + 1
  OBVIOUS
<1>2. \A t \in Seq(S) : t \in [1..Len(t) -> S]
  OBVIOUS
<1>3. <<x>> \o s \in [1..(Len(s) + 1) -> S]
  BY <1>1, <1>2
<1>4. \A k \in 1..(Len(s) + 1) : (<<x>> \o s)[k] = IF k = 1 THEN x ELSE s[k - 1]
  OBVIOUS
<1> QED BY <1>3, <1>4

SequenceOf(tokens, F, S) ==
  SequenceNode([n \in 1..Cardinality(S) |-> ItemOf(tokens, F, Nth(S, n))])

LEMMA SequenceOfMore ==
  ASSUME NEW tokens, NEW F, NEW i, NEW m, NEW S, Follow(i, S, m)
  PROVE  SequenceNode(<<ItemOf(tokens, F, i)>> \o SequenceOf(tokens, F, S).items)
           = SequenceOf(tokens, F, {i} \cup S)
<1> DEFINE item(j) == ItemOf(tokens, F, j)
           c == Cardinality(S)
           all == {i} \cup S
           items == [n \in 1..c |-> item(Nth(S, n))]
           Item == {item(j) : j \in 1..m}
<1>1. /\ Cardinality(all) = c + 1 /\ Nth(all, 1) = i
      /\ \A n \in 1..c : Nth(all, n + 1) = Nth(S, n)
  BY NthOfEarlier DEF Follow
<1>2. c \in Nat
  <2>1. IsFiniteSet((i + 1)..m)
    BY FS_Interval DEF Follow
  <2>2. IsFiniteSet(S)
    BY <2>1, FS_Subset DEF Follow
  <2> QED BY <2>2, FS_CardinalityType
<1>3. \A n \in 1..c : Nth(S, n) \in S
  <2>1. m \in Nat /\ S \in SUBSET (1..m)
    BY DEF Follow
  <2> QED BY <2>1, NthCounts
<1>4. SequenceOf(tokens, F, S).items = items
  BY DEF SequenceOf, SequenceNode
<1>5. items \in Seq(Item) /\ Len(items) = c /\ item(i) \in Item
  <2>1. \A n \in 1..c : item(Nth(S, n)) \in Item
    BY <1>3 DEF Follow
  <2>2. item(i) \in Item
    BY DEF Follow
  <2> HIDE DEF item, c, Item
  <2> QED BY <1>2, <2>1, <2>2
<1>6. <<item(i)>> \o items = [k \in 1..(c + 1) |-> IF k = 1 THEN item(i) ELSE items[k - 1]]
  <2> HIDE DEF item, items, Item, c
  <2> QED BY <1>5, PrependedIs
<1>7. ASSUME NEW k \in 1..(c + 1)
      PROVE  (IF k = 1 THEN item(i) ELSE items[k - 1]) = item(Nth(all, k))
  <2>1. CASE k = 1
    BY <1>1, <2>1
  <2>2. CASE k # 1
    <3>1. k - 1 \in 1..c /\ (k - 1) + 1 = k
      BY <1>2, <2>2
    <3>2. Nth(all, k) = Nth(S, k - 1)
      BY <1>1, <3>1
    <3>3. items[k - 1] = item(Nth(S, k - 1))
      BY <3>1
    <3> QED BY <2>2, <3>2, <3>3
  <2> QED BY <2>1, <2>2
<1>8. <<item(i)>> \o items = [k \in 1..(c + 1) |-> item(Nth(all, k))]
  <2> HIDE DEF item, items, c, all
  <2> QED BY <1>6, <1>7
<1>9. SequenceOf(tokens, F, all) = SequenceNode([k \in 1..(c + 1) |-> item(Nth(all, k))])
  BY <1>1 DEF SequenceOf
<1> HIDE DEF items
<1> QED BY <1>4, <1>8, <1>9

------------------------------------------------------------------------------
(* What the parser returns *)

\* The tokens that have a place, up to the first without
IsCut(tokens, P) ==
  /\ tokens \in Seq(Token) /\ P \in Seq(Token) /\ Len(P) <= Len(tokens)
  /\ \A i \in 1..Len(P) : P[i] = tokens[i] /\ HasPlace(tokens, i)
  /\ Len(P) < Len(tokens) => ~HasPlace(tokens, Len(P) + 1)

LEMMA SamePlaces ==
  ASSUME NEW tokens, NEW P, IsCut(tokens, P), NEW n \in 1..Len(P), NEW p \in 1..(n - 1)
  PROVE  /\ Places(P, p, n) <=> Places(tokens, p, n)
         /\ TakesValue(P, p, n) <=> TakesValue(tokens, p, n)
         /\ TakesEntry(P, p, n) <=> TakesEntry(tokens, p, n)
<1>1. Len(P) \in Nat /\ \A k \in 1..n : P[k] = tokens[k]
  BY DEF IsCut
<1>2. p \in 1..n /\ n \in 1..n /\ \A k \in (p + 1)..(n - 1) : k \in 1..n
  OBVIOUS
<1> QED BY <1>1, <1>2 DEF Places, Precedes, TakesValue, TakesEntry

LEMMA CutIsConnected ==
  ASSUME NEW tokens, NEW P, IsCut(tokens, P)
  PROVE  Connected(P)
<1> SUFFICES ASSUME NEW n \in 2..Len(P) PROVE \E p \in 1..(n - 1) : Places(P, p, n)
  BY DEF Connected
<1>1. /\ n \in 1..Len(P) /\ n # 1 /\ n \in 1..Len(tokens) /\ HasPlace(tokens, n)
      /\ tokens \in Seq(Token)
  BY DEF IsCut
<1>2. PICK p \in 1..(n - 1) : Places(tokens, p, n)
  BY <1>1, PlacedBy
<1> QED BY <1>1, <1>2, SamePlaces

LEMMA EndsWithin ==
  ASSUME NEW tokens, NEW P, IsCut(tokens, P), NEW i \in 1..(Len(P) + 1), NEW d, NEW n,
         EndsAtMisfit(tokens, i, n, d)
  PROVE  EndsOutside(P, i, n, d)
<1>1. /\ Len(P) \in Nat /\ Len(tokens) \in Nat /\ Len(P) <= Len(tokens)
      /\ n \in Nat /\ i \in Nat /\ i <= n /\ (n = i \/ n <= Len(tokens) + 1)
      /\ tokens \in Seq(Token)
  BY DEF EndsAtMisfit, Index, IsCut
<1>2. n <= Len(P) + 1
  <2> SUFFICES ASSUME n > Len(P) + 1 PROVE FALSE
    BY <1>1
  <2>1. Len(P) + 1 \in i..(n - 1) /\ Len(P) < Len(tokens)
    BY <1>1
  <2> QED BY <2>1 DEF EndsAtMisfit, IsCut
<1>3. ASSUME NEW k \in i..(n - 1) PROVE P[k].indent >= d
  <2>1. k \in 1..Len(P)
    BY <1>1, <1>2
  <2> QED BY <2>1 DEF EndsAtMisfit, IsCut
<1>4. ASSUME n \in 2..Len(P) PROVE \E p \in 1..(i - 1) : Places(P, p, n)
  <2>1. n \in 1..Len(P) /\ n # 1 /\ n \in 1..Len(tokens) /\ HasPlace(tokens, n)
    BY <1>1, <1>4 DEF IsCut
  <2>2. PICK p \in 1..(n - 1) : Places(tokens, p, n)
    BY <1>1, <2>1, PlacedBy
  <2>3. p \notin i..(n - 1)
    BY <1>1, <2>1, <2>2 DEF EndsAtMisfit
  <2>4. p \in 1..(i - 1)
    BY <1>1, <2>3
  <2> QED BY <2>1, <2>2, <2>4, SamePlaces
<1> QED BY <1>1, <1>2, <1>3, <1>4 DEF EndsOutside

\* The values of the keys
KeyValues(P, tokens, parse) == [i \in 1..Len(P) |-> KeyValue(tokens, parse, i).node]

BlockKind(kind) == IF kind = "map" THEN "entry" ELSE "item"

\* What a call returns for a block that ends at next
BlockMeans(P, F, kind, i, d, result) ==
  LET S == Span(P, i, result.next, d) IN
  /\ \A k \in S : P[k].kind = BlockKind(kind)
  /\ result.node = IF kind = "map" THEN MapOf(P, F, S) ELSE SequenceOf(P, F, S)

CallMeans(tokens, P, F, kind, i, d, result) ==
  (Takes(tokens, kind, i, d) => HasPlace(tokens, i)) => BlockMeans(P, F, kind, i, d, result)

CallsMeanBelow(tokens, P, F, parse, r) ==
  \A kind \in {"map", "sequence"}, i \in 1..(Len(P) + 1), d \in Nat :
    Rank(tokens, kind, i) < r => CallMeans(tokens, P, F, kind, i, d, parse[<<kind, i, d>>])

LEMMA EndsBelow ==
  ASSUME NEW tokens \in Seq(Token), NEW parse, IsParse(tokens, parse), NEW r
  PROVE  EndWellBelow(tokens, parse, r)
BY CallsEnd DEF EndWellBelow

\* A key has the value that its block means.
LEMMA ValueMeans ==
  ASSUME NEW tokens, NEW P, IsCut(tokens, P), NEW parse, IsParse(tokens, parse),
         NEW F, NEW i \in 1..Len(P),
         CallsMeanBelow(tokens, P, F, parse, 2 * (Len(tokens) + 1 - i))
  PROVE  LET result == KeyValue(tokens, parse, i) IN
         result.node = ValueOf(P, F, i) /\ HoldsValue(P, i, result.next)
<1> DEFINE result == KeyValue(tokens, parse, i)
           d == tokens[i].indent + 2
<1>1. /\ tokens \in Seq(Token) /\ P \in Seq(Token)
      /\ Len(P) \in Nat /\ Len(tokens) \in Nat /\ Len(P) <= Len(tokens)
      /\ i \in Nat /\ i \in 1..Len(tokens) /\ P[i] = tokens[i]
      /\ tokens[i].indent \in Nat /\ d \in Nat
  <2>1. tokens \in Seq(Token) /\ P \in Seq(Token) /\ Len(P) <= Len(tokens) /\ P[i] = tokens[i]
    BY DEF IsCut
  <2>2. i \in 1..Len(tokens) /\ Len(tokens) \in Nat /\ Len(P) \in Nat /\ i \in Nat
    BY <2>1
  <2> QED BY <2>1, <2>2, TokenFacts
<1>2. /\ Len(P) \in Nat /\ Len(tokens) \in Nat /\ Len(P) <= Len(tokens)
      /\ i \in Nat /\ i \in 1..Len(P)
  BY <1>1
<1>3. CASE tokens[i].value # None
  <2>1. result = Result(Scalar(tokens[i].value), i + 1)
    BY <1>3 DEF KeyValue
  <2>2. ValueOf(P, F, i) = Scalar(tokens[i].value)
    BY <1>1, <1>3 DEF ValueOf
  <2>3. ValueBlock(P, i) = {}
    BY <1>1, <1>3 DEF ValueBlock
  <2> QED BY <2>1, <2>2, <2>3 DEF HoldsValue, Result
<1>4. CASE tokens[i].value = None
  <2> DEFINE call == <<"value", i + 1, d>>
  <2>1. result = parse[call]
    BY <1>4 DEF KeyValue
  <2>2. parse[call] = ParseValue(tokens, parse, i + 1, d)
    <3>1. "value" \in Function /\ i + 1 \in Index
      BY <1>2 DEF Function, Index
    <3>2. parse[call] = Parsed(tokens, parse, call)
      BY <1>1, <3>1 DEF IsParse
    <3>3. call[1] = "value" /\ call[2] = i + 1 /\ call[3] = d
      OBVIOUS
    <3> HIDE DEF call, d
    <3> QED BY <3>2, <3>3 DEF Parsed
  <2>3. ASSUME NEW k \in Children(P, i)
        PROVE  i + 1 \in 1..Len(P) /\ P[i].indent < P[i + 1].indent
    <3>1. /\ k \in (i + 1)..Len(P) /\ P[i].indent < P[k].indent
          /\ \A l \in (i + 1)..(k - 1) : P[l].indent >= P[k].indent
      BY DEF Children
    <3>2. i + 1 \in 1..Len(P) /\ (k = i + 1 \/ i + 1 \in (i + 1)..(k - 1))
      BY <1>2, <3>1
    <3>3. P[k].indent \in Nat /\ P[i + 1].indent \in Nat /\ P[i].indent \in Nat
      BY <1>1, <3>1, <3>2, TokenFacts
    <3>4. P[i + 1].indent >= P[k].indent
      <4>1. CASE k = i + 1
        BY <3>3, <4>1
      <4>2. CASE i + 1 \in (i + 1)..(k - 1)
        BY <3>1, <4>2
      <4> QED BY <3>2, <4>1, <4>2
    <3>5. P[i].indent < P[k].indent
      BY <3>1
    <3> QED BY <3>2, <3>3, <3>4, <3>5
  <2>4. CASE i + 1 > Len(tokens) \/ tokens[i + 1].indent < d
    <3>1. result = Result(Scalar(""), i + 1)
      BY <2>1, <2>2, <2>4 DEF ParseValue
    <3>2. Children(P, i) = {}
      <4> SUFFICES ASSUME NEW k \in Children(P, i) PROVE FALSE
        OBVIOUS
      <4>1. i + 1 \in 1..Len(P) /\ P[i].indent < P[i + 1].indent
        BY <2>3
      <4>2. P[i + 1] = tokens[i + 1] /\ i + 1 \in 1..Len(tokens)
        BY <1>1, <4>1 DEF IsCut
      <4>3. tokens[i + 1].indent >= tokens[i].indent + 2
        BY <1>1, <4>1, <4>2, TokenFacts, EvenAbove
      <4>4. tokens[i + 1].indent \in Nat
        BY <1>1, <4>2, TokenFacts
      <4> QED BY <1>1, <2>4, <4>2, <4>3, <4>4
    <3>3. ValueOf(P, F, i) = Scalar("") /\ ValueBlock(P, i) = {}
      BY <1>1, <1>4, <3>2 DEF ValueOf, ValueBlock
    <3>4. \A node, next : Result(node, next).node = node /\ Result(node, next).next = next
      BY DEF Result
    <3>5. result.node = Scalar("") /\ result.next = i + 1
      BY <3>1, <3>4, Zenon
    <3> HIDE DEF result
    <3>6. HoldsValue(P, i, result.next)
      BY <3>3, <3>5 DEF HoldsValue
    <3>7. result.node = ValueOf(P, F, i)
      BY <3>3, <3>5, Zenon
    <3> QED BY <3>6, <3>7 DEF result
  <2>5. CASE ~(i + 1 > Len(tokens) \/ tokens[i + 1].indent < d)
    <3> DEFINE e == tokens[i + 1].indent
               kind == IF tokens[i + 1].kind = "item" THEN "sequence" ELSE "map"
               n == result.next
    <3>1. result = parse[<<kind, i + 1, e>>]
      BY <2>1, <2>2, <2>5 DEF ParseValue
    <3>2. i + 1 \in 1..Len(tokens) /\ e \in Nat /\ tokens[i].indent < e
      <4>1. i + 1 \in 1..Len(tokens)
        <5>1. ~(i + 1 > Len(tokens))
          BY <2>5
        <5> QED BY <1>2, <5>1
      <4>2. e \in Nat
        BY <1>1, <4>1, TokenFacts
      <4>3. ~(e < d) /\ d = tokens[i].indent + 2 /\ tokens[i].indent \in Nat
        BY <1>1, <2>5
      <4> HIDE DEF e, d
      <4> QED BY <4>1, <4>2, <4>3
    <3>3. HasPlace(tokens, i + 1)
      <4>1. i \in 1..((i + 1) - 1) /\ i = (i + 1) - 1
        BY <1>2
      <4>2. TakesValue(tokens, i, i + 1)
        BY <1>4, <3>2, <4>1 DEF TakesValue
      <4> QED BY <1>1, <3>2, <4>1, <4>2, PlacedBy DEF Places
    <3>4. i + 1 \in 1..Len(P) /\ P[i + 1] = tokens[i + 1]
      <4>1. i + 1 # Len(P) + 1
        BY <1>1, <3>2, <3>3 DEF IsCut
      <4>2. i + 1 \in 1..Len(P)
        BY <1>2, <4>1
      <4> QED BY <4>2 DEF IsCut
    <3>5. kind \in {"map", "sequence"} /\ kind \in Function /\ kind # "value"
      BY DEF Function
    <3>6. BlockKind(kind) = tokens[i + 1].kind
      BY <1>1, <3>2, TokenFacts DEF BlockKind
    <3>7. \A m : Takes(tokens, kind, m, e) <=>
                   m <= Len(tokens) /\ tokens[m].indent = e /\ tokens[m].kind = tokens[i + 1].kind
      <4>1. \A m : Takes(tokens, kind, m, e) <=> Continues(tokens, m, e, BlockKind(kind))
        BY <3>5 DEF Takes, BlockKind
      <4> QED BY <3>6, <4>1 DEF Continues
    <3> HIDE DEF kind, e, n
    <3>8. Rank(tokens, kind, i + 1) < 2 * (Len(tokens) + 1 - i)
      <4>1. tokens \in Seq(LineType)
        BY <1>1, TokensAreLines
      <4>2. i + 1 \in Index /\ i + 1 > i
        BY <1>2 DEF Index
      <4> QED BY <1>1, <4>1, <4>2, RankFalls
    <3>9. BlockMeans(P, F, kind, i + 1, e, result)
      <4>1. i + 1 \in 1..(Len(P) + 1)
        BY <1>2
      <4> QED BY <3>1, <3>2, <3>3, <3>5, <3>8, <4>1 DEF CallsMeanBelow, CallMeans
    <3>10. /\ EndsAtMisfit(tokens, i + 1, n, e)
           /\ n = i + 1 <=> ~Takes(tokens, kind, i + 1, e)
           /\ ~Takes(tokens, kind, n, e)
      <4>1. i + 1 \in Index
        BY <1>2 DEF Index
      <4>2. EndsWell(tokens, kind, i + 1, e, n)
        BY <1>1, <3>1, <3>2, <3>5, <4>1, CallsEnd DEF n
      <4> QED BY <3>3, <3>5, <4>2 DEF EndsWell
    <3>11. EndsOutside(P, i + 1, n, e)
      <4>1. i + 1 \in 1..(Len(P) + 1)
        BY <1>2
      <4> QED BY <3>10, <4>1, EndsWithin
    <3>12. n # i + 1
      BY <3>2, <3>7, <3>10 DEF e
    <3> DEFINE S == Span(P, i + 1, n, e)
    <3>13. /\ \A k \in S : P[k].kind = tokens[i + 1].kind
           /\ result.node = IF kind = "map" THEN MapOf(P, F, S) ELSE SequenceOf(P, F, S)
      BY <3>6, <3>9 DEF BlockMeans, n
    <3>14. n <= Len(P) => P[n].indent # e \/ P[n].kind # tokens[i + 1].kind
      <4> SUFFICES ASSUME n <= Len(P) PROVE P[n].indent # e \/ P[n].kind # tokens[i + 1].kind
        OBVIOUS
      <4>1. n \in 1..Len(P) /\ n <= Len(tokens)
        BY <1>2, <3>11 DEF EndsOutside
      <4>2. P[n] = tokens[n]
        BY <4>1 DEF IsCut
      <4> QED BY <3>7, <3>10, <4>1, <4>2
    <3>15. ValueBlock(P, i) = S
      <4>1. i \in 1..(Len(P) - 1) /\ e = P[i + 1].indent
        BY <1>2, <3>4 DEF e
      <4>2. P[i].value = None /\ P[i].indent < P[i + 1].indent
        BY <1>1, <1>4, <3>2, <3>4, <4>1
      <4> QED BY <1>1, <3>4, <3>11, <3>12, <3>13, <3>14, <4>1, <4>2, CutIsConnected, ValueBlockIs
    <3>16. i + 1 \in S
      <4>1. i + 1 \in (i + 1)..(n - 1)
        BY <1>2, <3>11, <3>12 DEF EndsOutside
      <4> QED BY <3>4, <4>1 DEF Span, e
    <3>17. HoldsValue(P, i, n)
      <4>1. \A k \in (i + 1)..(n - 1) : P[k].indent >= P[i + 1].indent
        BY <3>4, <3>11 DEF EndsOutside, e
      <4>2. i + 1 <= Len(P) /\ e = P[i + 1].indent
        BY <3>4 DEF e
      <4> QED BY <3>15, <4>1, <4>2 DEF HoldsValue
    <3>18. ValueOf(P, F, i) = BlockOf(P, F, S)
      <4>1. Children(P, i) # {}
        BY <3>15, <3>16 DEF ValueBlock
      <4> QED BY <1>1, <1>4, <3>15, <4>1 DEF ValueOf
    <3>19. BlockOf(P, F, S) = result.node
      <4>1. CASE kind = "map"
        <5>1. ~\A k \in S : P[k].kind = "item"
          BY <3>4, <3>6, <3>16, <4>1 DEF BlockKind
        <5> QED BY <3>13, <4>1, <5>1 DEF BlockOf
      <4>2. CASE kind # "map"
        <5>1. \A k \in S : P[k].kind = "item"
          BY <3>6, <3>13, <4>2 DEF BlockKind
        <5> QED BY <3>13, <4>2, <5>1 DEF BlockOf, SequenceOf
      <4> QED BY <4>1, <4>2
    <3> QED BY <3>17, <3>18, <3>19 DEF n
  <2> QED BY <2>4, <2>5
<1> QED BY <1>3, <1>4

LEMMA CutFacts ==
  ASSUME NEW tokens, NEW P, IsCut(tokens, P), NEW i \in 1..Len(P)
  PROVE  /\ tokens \in Seq(Token) /\ P \in Seq(Token)
         /\ Len(P) \in Nat /\ Len(tokens) \in Nat /\ Len(P) <= Len(tokens)
         /\ i \in Nat /\ i \in 1..Len(tokens) /\ P[i] = tokens[i] /\ HasPlace(tokens, i)
         /\ i + 1 \in Index /\ i + 1 \in 1..(Len(P) + 1)
         /\ tokens[i].indent \in Nat
<1>1. tokens \in Seq(Token) /\ P \in Seq(Token) /\ Len(P) <= Len(tokens)
  BY DEF IsCut
<1>2. /\ i \in 1..Len(tokens) /\ Len(tokens) \in Nat /\ Len(P) \in Nat /\ i \in Nat
      /\ i + 1 \in Index /\ i + 1 \in 1..(Len(P) + 1)
  BY <1>1 DEF Index
<1> QED BY <1>1, <1>2, TokenFacts DEF IsCut

\* A call for what is left after token i means the block it returns.
LEMMA LaterMeans ==
  ASSUME NEW tokens, NEW P, IsCut(tokens, P), NEW parse, IsParse(tokens, parse),
         NEW F, NEW i \in 1..Len(P),
         CallsMeanBelow(tokens, P, F, parse, 2 * (Len(tokens) + 1 - i)),
         NEW kind \in {"map", "sequence"}, NEW d \in Nat, NEW b, NEW e,
         EndsAtMisfit(tokens, i + 1, b, e),
         Takes(tokens, kind, b, d) => HasPlace(tokens, b)
  PROVE  LET result == parse[<<kind, b, d>>] IN
         /\ b \in (i + 1)..(Len(P) + 1) /\ result.next \in b..(Len(P) + 1)
         /\ BlockMeans(P, F, kind, b, d, result)
<1> DEFINE result == parse[<<kind, b, d>>]
           n == result.next
<1>1. /\ tokens \in Seq(Token) /\ P \in Seq(Token) /\ Len(P) \in Nat /\ Len(tokens) \in Nat
      /\ i \in Nat /\ i \in 1..Len(tokens) /\ i + 1 \in 1..(Len(P) + 1)
  BY CutFacts
<1>2. b \in (i + 1)..(Len(P) + 1) /\ b \in 1..(Len(P) + 1) /\ b \in Index /\ b > i /\ i + 1 <= b
  <2>1. EndsOutside(P, i + 1, b, e)
    BY <1>1, EndsWithin
  <2> QED BY <1>1, <2>1 DEF EndsOutside, Index
<1>3. Rank(tokens, kind, b) < 2 * (Len(tokens) + 1 - i)
  BY <1>1, <1>2, TokensAreLines, RankFalls
<1>4. BlockMeans(P, F, kind, b, d, result)
  BY <1>2, <1>3 DEF CallsMeanBelow, CallMeans
<1>5. EndsWell(tokens, kind, b, d, n)
  BY <1>1, <1>2, CallsEnd DEF Function
<1>6. EndsAtMisfit(tokens, b, n, d)
  BY <1>5 DEF EndsWell
<1>7. n \in b..(Len(P) + 1)
  BY <1>2, <1>6, EndsWithin DEF EndsOutside
<1> QED BY <1>2, <1>4, <1>7

\* An item means what it is by itself, or the map of its key and its further entries.
LEMMA ItemMeans ==
  ASSUME NEW tokens, NEW P, IsCut(tokens, P), NEW parse, IsParse(tokens, parse),
         NEW F, F = KeyValues(P, tokens, parse), NEW i \in 1..Len(P), tokens[i].kind = "item",
         CallsMeanBelow(tokens, P, F, parse, 2 * (Len(tokens) + 1 - i))
  PROVE  ParseItem(tokens, parse, i).node = ItemOf(P, F, i)
<1> DEFINE e == tokens[i].indent + 2
           first == KeyValue(tokens, parse, i)
           b == first.next
           rest == parse[<<"map", b, e>>]
           c == rest.next
<1>1. /\ tokens \in Seq(Token) /\ P \in Seq(Token) /\ Len(P) \in Nat /\ Len(tokens) \in Nat
      /\ Len(P) <= Len(tokens)
      /\ i \in Nat /\ i \in 1..Len(tokens) /\ i + 1 \in 1..(Len(P) + 1) /\ P[i] = tokens[i]
      /\ e \in Nat
  BY CutFacts
<1>2. CASE tokens[i].key = None
  BY <1>1, <1>2 DEF ParseItem, ItemOf, Result
<1>3. CASE tokens[i].key # None
  <2>1. ParseItem(tokens, parse, i) =
          Result(MapNode(Emplaced(tokens[i].key, first.node, rest.node.fields)), c)
    BY <1>3 DEF ParseItem, ParseEntries
  <2>2. F[i] = first.node
    BY DEF KeyValues
  <2>3. HoldsValue(P, i, b)
    BY ValueMeans
  <2>4. EndWellBelow(tokens, parse, 2 * (Len(tokens) + 1 - i))
    BY <1>1, EndsBelow
  <2>5. EndsAtMisfit(tokens, i + 1, b, e)
    BY <1>1, <2>4, KeyValueEnds
  <2>6. /\ EndsAtMisfit(tokens, i + 1, c, e)
        /\ c <= Len(tokens) => ~TakesValue(tokens, i, c) /\ ~TakesEntry(tokens, i, c)
    <3>1. ParseItem(tokens, parse, i).next = c
      BY <2>1 DEF Result
    <3> HIDE DEF c
    <3> QED BY <1>1, <2>4, <3>1, ItemEnds
  <2>7. Takes(tokens, "map", b, e) => HasPlace(tokens, b)
    <3> SUFFICES ASSUME Takes(tokens, "map", b, e) PROVE HasPlace(tokens, b)
      OBVIOUS
    <3> HIDE DEF b
    <3>1. b <= Len(tokens) /\ tokens[b].indent = e /\ tokens[b].kind = "entry"
      BY DEF Takes, Continues
    <3>2. b \in 1..Len(tokens) /\ i \in 1..(b - 1)
      BY <1>1, <2>5, <3>1 DEF EndsAtMisfit, Index
    <3>3. TakesEntry(tokens, i, b)
      BY <1>3, <2>5, <3>1 DEF TakesEntry, EndsAtMisfit
    <3> QED BY <1>1, <3>2, <3>3, PlacedBy DEF Places
  <2> HIDE DEF first, b, c, rest, e
  <2>8. /\ b \in (i + 1)..(Len(P) + 1) /\ c \in b..(Len(P) + 1)
        /\ BlockMeans(P, F, "map", b, e, rest)
    BY <1>1, <2>5, <2>7, LaterMeans DEF c, rest
  <2>9. EndsOutside(P, i + 1, c, e)
    BY <1>1, <2>6, EndsWithin
  <2>10. c <= Len(P) => ~TakesValue(P, i, c) /\ ~TakesEntry(P, i, c)
    <3> SUFFICES ASSUME c <= Len(P) PROVE ~TakesValue(P, i, c) /\ ~TakesEntry(P, i, c)
      OBVIOUS
    <3>1. c \in 1..Len(P) /\ i \in 1..(c - 1) /\ c <= Len(tokens)
      <4>1. Len(P) \in Nat /\ Len(tokens) \in Nat /\ Len(P) <= Len(tokens) /\ i \in 1..Len(P)
        BY <1>1
      <4>2. b \in (i + 1)..(Len(P) + 1) /\ c \in b..(Len(P) + 1) /\ c <= Len(P)
        BY <2>8
      <4> QED BY <4>1, <4>2
    <3> QED BY <2>6, <3>1, SamePlaces
  <2> DEFINE S == Span(P, b, c, e)
  <2>11. Children(P, i) \ ValueBlock(P, i) = S
    <3>1. b \in (i + 1)..c
      BY <1>1, <2>8
    <3>2. EndsOutside(P, i + 1, c, P[i].indent + 2)
      BY <1>1, <2>9 DEF e
    <3> QED BY <1>1, <2>3, <2>10, <3>1, <3>2, CutIsConnected, FurtherBlockIs DEF e
  <2>12. rest.node = MapOf(P, F, S)
    BY <2>8 DEF BlockMeans, c
  <2>13. S \in SUBSET ((i + 1)..Len(P))
    BY <1>1, <2>8 DEF Span
  <2>14. MapNode(Emplaced(P[i].key, F[i], MapOf(P, F, S).fields)) = MapOf(P, F, {i} \cup S)
    <3> HIDE DEF S
    <3>1. Follow(i, S, Len(P))
      BY <1>1, <2>13 DEF Follow
    <3> QED BY <3>1, MapOfMore
  <2>15. ItemOf(P, F, i) = MapOf(P, F, {i} \cup S)
    BY <1>1, <1>3, <2>11 DEF ItemOf
  <2> HIDE DEF S
  <2>16. ParseItem(tokens, parse, i).node =
           MapNode(Emplaced(tokens[i].key, first.node, rest.node.fields))
    BY <2>1 DEF Result
  <2> QED BY <1>1, <2>2, <2>12, <2>14, <2>15, <2>16
<1> QED BY <1>2, <1>3

LEMMA NoBlock ==
  ASSUME NEW P, NEW F
  PROVE  /\ MapOf(P, F, {}) = MapNode(NoFields)
         /\ SequenceOf(P, F, {}) = SequenceNode(<<>>)
<1> DEFINE keys == {P[j].key : j \in {}}
           fields == [key \in keys |-> F[Min({j \in {} : P[j].key = key})]]
           items == [n \in 1..Cardinality({}) |-> ItemOf(P, F, Nth({}, n))]
<1>1. keys = {} /\ 1..Cardinality({}) = {}
  BY FS_EmptySet
<1>2. fields = <<>>
  <2> HIDE DEF keys
  <2>1. DOMAIN fields = {} /\ fields = [key \in {} |-> fields[key]]
    BY <1>1
  <2> QED BY <2>1
<1>3. items = <<>>
  <2>1. DOMAIN items = {} /\ items = [n \in {} |-> items[n]]
    BY <1>1
  <2> HIDE DEF items
  <2> QED BY <2>1
<1> QED BY <1>2, <1>3 DEF MapOf, SequenceOf, NoFields

\* The first token of a block and those after it
LEMMA SpanFrom ==
  ASSUME NEW P \in Seq(Token), NEW i \in 1..Len(P), NEW b \in (i + 1)..(Len(P) + 1),
         NEW n \in b..(Len(P) + 1), NEW d \in Nat, P[i].indent = d,
         \A k \in (i + 1)..(b - 1) : P[k].indent >= d + 2
  PROVE  /\ Span(P, i, n, d) = {i} \cup Span(P, b, n, d)
         /\ Span(P, b, n, d) \in SUBSET ((i + 1)..Len(P))
<1>1. \A k \in (i + 1)..(b - 1) : P[k].indent # d
  BY TokenFacts
<1>2. \A k : k \in i..(n - 1) <=> k = i \/ k \in (i + 1)..(b - 1) \/ k \in b..(n - 1)
  OBVIOUS
<1>3. \A k \in b..(n - 1) : k \in (i + 1)..Len(P)
  OBVIOUS
<1> QED BY <1>1, <1>2, <1>3 DEF Span

\* What a call returns is what its block means.
LEMMA CallMeansBlock ==
  ASSUME NEW tokens, NEW P, IsCut(tokens, P), NEW parse, IsParse(tokens, parse),
         NEW F, F = KeyValues(P, tokens, parse),
         NEW kind \in {"map", "sequence"}, NEW i \in 1..(Len(P) + 1), NEW d \in Nat,
         CallsMeanBelow(tokens, P, F, parse, Rank(tokens, kind, i))
  PROVE  CallMeans(tokens, P, F, kind, i, d, parse[<<kind, i, d>>])
<1> DEFINE call == <<kind, i, d>>
           result == parse[call]
           n == result.next
<1>1. /\ tokens \in Seq(Token) /\ P \in Seq(Token) /\ Len(P) \in Nat /\ Len(tokens) \in Nat
      /\ i \in Nat /\ i >= 1 /\ i \in Index
  BY DEF IsCut, Index
<1>2. result = IF kind = "map" THEN ParseMap(tokens, parse, i, d)
               ELSE ParseSequence(tokens, parse, i, d)
  <2>1. result = Parsed(tokens, parse, call)
    BY <1>1 DEF IsParse, Function
  <2>2. call[1] = kind /\ call[2] = i /\ call[3] = d
    OBVIOUS
  <2> HIDE DEF call
  <2> QED BY <2>1, <2>2 DEF Parsed
<1>3. \A m : Takes(tokens, kind, m, d) <=> Continues(tokens, m, d, BlockKind(kind))
  BY DEF Takes, BlockKind
<1> SUFFICES ASSUME Takes(tokens, kind, i, d) => HasPlace(tokens, i)
             PROVE  BlockMeans(P, F, kind, i, d, result)
  BY DEF CallMeans
<1> HIDE DEF result, call
<1>4. CASE ~Takes(tokens, kind, i, d)
  <2>1. result = Result(IF kind = "map" THEN MapNode(NoFields) ELSE SequenceNode(<<>>), i)
    BY <1>2, <1>3, <1>4 DEF BlockKind, ParseMap, ParseSequence
  <2>2. /\ result.node = IF kind = "map" THEN MapNode(NoFields) ELSE SequenceNode(<<>>)
        /\ n = i
    BY <2>1 DEF Result
  <2>3. Span(P, i, n, d) = {}
    BY <1>1, <2>2 DEF Span
  <2> QED BY <2>2, <2>3, NoBlock DEF BlockMeans
<1>5. CASE Takes(tokens, kind, i, d)
  <2>1. i \in 1..Len(P) /\ tokens[i].indent = d /\ tokens[i].kind = BlockKind(kind)
    <3>1. i <= Len(tokens) /\ HasPlace(tokens, i)
      BY <1>3, <1>5 DEF Continues
    <3>2. i # Len(P) + 1
      BY <1>1, <3>1 DEF IsCut
    <3>3. i \in 1..Len(P)
      BY <1>1, <3>2
    <3> QED BY <1>3, <1>5, <3>3 DEF Continues
  <2>2. /\ i \in 1..Len(tokens) /\ P[i] = tokens[i] /\ i + 1 \in 1..(Len(P) + 1)
        /\ Len(P) <= Len(tokens)
    BY <2>1, CutFacts
  <2>3. CallsMeanBelow(tokens, P, F, parse, 2 * (Len(tokens) + 1 - i))
    <3>1. kind # "value" /\ ~(i > Len(tokens))
      BY <1>1, <2>2
    <3>2. Rank(tokens, kind, i) = 2 * (Len(tokens) + 1 - i)
      BY <1>1, <3>1 DEF Rank
    <3> QED BY <3>2
  <2>4. EndWellBelow(tokens, parse, 2 * (Len(tokens) + 1 - i))
    BY <1>1, EndsBelow
  <2> DEFINE b == IF kind = "map" THEN KeyValue(tokens, parse, i).next
                  ELSE ParseItem(tokens, parse, i).next
             rest == parse[<<kind, b, d>>]
             S == Span(P, b, n, d)
  <2>5. EndsAtMisfit(tokens, i + 1, b, d + 2)
    BY <1>1, <2>1, <2>2, <2>4, KeyValueEnds, ItemEnds DEF BlockKind
  <2>6. n = rest.next
    <3>1. CASE kind = "map"
      BY <1>2, <1>3, <1>5, <3>1 DEF BlockKind, ParseMap, ParseEntries, Result
    <3>2. CASE kind = "sequence"
      BY <1>2, <1>3, <1>5, <3>2 DEF BlockKind, ParseSequence, Result
    <3> QED BY <3>1, <3>2
  <2>7. Takes(tokens, kind, b, d) => HasPlace(tokens, b)
    <3> SUFFICES ASSUME Takes(tokens, kind, b, d) PROVE HasPlace(tokens, b)
      OBVIOUS
    <3> HIDE DEF b
    <3>1. b <= Len(tokens) /\ tokens[b].indent = d /\ tokens[b].kind = BlockKind(kind)
      BY <1>3 DEF Continues
    <3>2. b \in 1..Len(tokens) /\ i \in 1..(b - 1)
      BY <1>1, <2>5, <3>1 DEF EndsAtMisfit, Index
    <3>3. \A k \in (i + 1)..(b - 1) : tokens[k].indent > d
      <4>1. \A k \in (i + 1)..(b - 1) : k \in 1..Len(tokens)
        BY <1>1, <3>2
      <4> QED BY <1>1, <2>5, <4>1, TokenFacts DEF EndsAtMisfit
    <3>4. Precedes(tokens, i, b)
      BY <2>1, <3>1, <3>3 DEF Precedes
    <3> QED BY <1>1, <3>2, <3>4, PlacedBy DEF Places
  <2>8. /\ b \in (i + 1)..(Len(P) + 1) /\ n \in b..(Len(P) + 1)
        /\ BlockMeans(P, F, kind, b, d, rest)
    <3>1. CallsMeanBelow(tokens, P, F, parse, 2 * (Len(tokens) + 1 - i))
      BY <2>3
    <3>2. d \in Nat /\ kind \in {"map", "sequence"} /\ i \in 1..Len(P)
      BY <2>1
    <3> HIDE DEF b
    <3> QED BY <2>5, <2>6, <2>7, <3>1, <3>2, LaterMeans
  <2>9. \A k \in (i + 1)..(b - 1) : P[k].indent >= d + 2
    <3>1. EndsOutside(P, i + 1, b, d + 2)
      BY <2>2, <2>5, EndsWithin
    <3> QED BY <3>1 DEF EndsOutside
  <2>10. Span(P, i, n, d) = {i} \cup S /\ S \in SUBSET ((i + 1)..Len(P))
    <3>1. P[i].indent = d /\ b \in (i + 1)..(Len(P) + 1) /\ n \in b..(Len(P) + 1)
      BY <2>1, <2>2, <2>8
    <3> HIDE DEF b, n
    <3> QED BY <1>1, <2>1, <2>9, <3>1, SpanFrom
  <2>11. /\ \A k \in S : P[k].kind = BlockKind(kind)
         /\ rest.node = IF kind = "map" THEN MapOf(P, F, S) ELSE SequenceOf(P, F, S)
    BY <2>6, <2>8 DEF BlockMeans
  <2> DEFINE all == {i} \cup S
  <2>12. result.node = IF kind = "map" THEN MapOf(P, F, all) ELSE SequenceOf(P, F, all)
    <3>1. CASE kind = "map"
      <4>1. result.node = MapNode(Emplaced(P[i].key, F[i], rest.node.fields))
        <5>1. F[i] = KeyValue(tokens, parse, i).node
          BY <2>1 DEF KeyValues
        <5>2. result = ParseEntries(tokens, parse, i, d)
          BY <1>2, <1>3, <1>5, <3>1 DEF BlockKind, ParseMap
        <5> QED BY <2>2, <3>1, <5>1, <5>2 DEF ParseEntries, Result
      <4> HIDE DEF S, rest, n
      <4>2. MapNode(Emplaced(P[i].key, F[i], MapOf(P, F, S).fields)) = MapOf(P, F, all)
        <5>1. Follow(i, S, Len(P))
          BY <1>1, <2>1, <2>10 DEF Follow
        <5> QED BY <5>1, MapOfMore
      <4> QED BY <2>11, <3>1, <4>1, <4>2
    <3>2. CASE kind = "sequence"
      <4>1. result.node = SequenceNode(<<ParseItem(tokens, parse, i).node>> \o rest.node.items)
        BY <1>2, <1>3, <1>5, <3>2 DEF BlockKind, ParseSequence, Result
      <4>2. ParseItem(tokens, parse, i).node = ItemOf(P, F, i)
        BY <2>1, <2>3, <3>2, ItemMeans DEF BlockKind
      <4> HIDE DEF S, rest, n
      <4>3. SequenceNode(<<ItemOf(P, F, i)>> \o SequenceOf(P, F, S).items) = SequenceOf(P, F, all)
        <5>1. Follow(i, S, Len(P))
          BY <1>1, <2>1, <2>10 DEF Follow
        <5> QED BY <5>1, SequenceOfMore
      <4> QED BY <2>11, <3>2, <4>1, <4>2, <4>3
    <3> QED BY <3>1, <3>2
  <2>13. \A k \in all : P[k].kind = BlockKind(kind)
    <3> HIDE DEF S
    <3> QED BY <2>1, <2>2, <2>11
  <2> QED BY <2>10, <2>12, <2>13 DEF BlockMeans
<1> QED BY <1>4, <1>5

LEMMA CallsMean ==
  ASSUME NEW tokens, NEW P, IsCut(tokens, P), NEW parse, IsParse(tokens, parse),
         NEW F, F = KeyValues(P, tokens, parse), NEW r
  PROVE  CallsMeanBelow(tokens, P, F, parse, r)
<1>1. tokens \in Seq(Token) /\ tokens \in Seq(LineType)
  BY TokensAreLines DEF IsCut
<1>2. \A kind, i : i \in 1..(Len(P) + 1) => Rank(tokens, kind, i) \in Nat
  BY <1>1, RankType DEF Index
<1> DEFINE Bad == {n \in Nat : \E kind \in {"map", "sequence"}, i \in 1..(Len(P) + 1), d \in Nat :
                     /\ Rank(tokens, kind, i) = n
                     /\ ~CallMeans(tokens, P, F, kind, i, d, parse[<<kind, i, d>>])}
<1>3. Bad = {}
  <2> SUFFICES ASSUME Bad # {} PROVE FALSE
    OBVIOUS
  <2>1. PICK n \in Bad : \A k \in Bad : n <= k
    <3>1. Bad \in SUBSET Nat
      OBVIOUS
    <3> HIDE DEF Bad
    <3> QED BY <3>1, LeastOf
  <2>2. PICK kind \in {"map", "sequence"}, i \in 1..(Len(P) + 1), d \in Nat :
          /\ Rank(tokens, kind, i) = n
          /\ ~CallMeans(tokens, P, F, kind, i, d, parse[<<kind, i, d>>])
    OBVIOUS
  <2>3. ASSUME NEW k \in {"map", "sequence"}, NEW j \in 1..(Len(P) + 1), NEW e \in Nat,
               Rank(tokens, k, j) < n
        PROVE  CallMeans(tokens, P, F, k, j, e, parse[<<k, j, e>>])
    <3> SUFFICES ASSUME ~CallMeans(tokens, P, F, k, j, e, parse[<<k, j, e>>]) PROVE FALSE
      OBVIOUS
    <3>1. Rank(tokens, k, j) \in Nat
      BY <1>2
    <3>2. Rank(tokens, k, j) \in Bad
      BY <3>1
    <3>3. n <= Rank(tokens, k, j) /\ n \in Nat
      BY <2>1, <3>2
    <3> HIDE DEF Bad
    <3> QED BY <2>3, <3>1, <3>3
  <2>4. CallsMeanBelow(tokens, P, F, parse, n)
    BY <2>3 DEF CallsMeanBelow
  <2> QED BY <2>2, <2>4, CallMeansBlock
<1> QED BY <1>2, <1>3 DEF CallsMeanBelow

AgreeAfter(P, F, G, i) == i \in 1..Len(P) /\ \A j \in (i + 1)..Len(P) : F[j] = G[j]

\* What a token stands for is determined by the tokens after it.
LEMMA LaterDetermine ==
  ASSUME NEW P \in Seq(Token), NEW F, NEW G, NEW i, AgreeAfter(P, F, G, i)
  PROVE  ValueOf(P, F, i) = ValueOf(P, G, i)
<1> DEFINE Later == (i + 1)..Len(P)
<1>1. /\ Len(P) \in Nat /\ i \in 1..Len(P) /\ \A j \in Later : j \in Nat
      /\ \A j \in Later : F[j] = G[j]
  BY DEF AgreeAfter
<1>2. ASSUME NEW S \in SUBSET Later
      PROVE  MapOf(P, F, S) = MapOf(P, G, S)
  <2> DEFINE keys == {P[j].key : j \in S}
             least(key) == Min({j \in S : P[j].key = key})
  <2>1. ASSUME NEW key \in keys PROVE F[least(key)] = G[least(key)]
    <3> DEFINE T == {j \in S : P[j].key = key}
    <3>1. T \in SUBSET Nat /\ T # {} /\ T \in SUBSET Later
      BY <1>1, <2>1
    <3> HIDE DEF T
    <3>2. PICK l \in T : \A j \in T : l <= j
      BY <3>1, LeastOf
    <3>3. Min(T) = l
      BY <3>1, <3>2, MinIs
    <3>4. l \in Later
      BY <3>1, <3>2
    <3> QED BY <1>1, <3>3, <3>4 DEF T
  <2>2. /\ MapOf(P, F, S) = MapNode([key \in keys |-> F[least(key)]])
        /\ MapOf(P, G, S) = MapNode([key \in keys |-> G[least(key)]])
    BY DEF MapOf
  <2> HIDE DEF keys, least
  <2> QED BY <2>1, <2>2
<1>3. Children(P, i) \in SUBSET Later /\ ValueBlock(P, i) \in SUBSET Later
  BY DEF Children, ValueBlock
<1>4. ASSUME NEW k \in Later
      PROVE  ItemOf(P, F, k) = ItemOf(P, G, k)
  <2>1. {k} \cup (Children(P, k) \ ValueBlock(P, k)) \in SUBSET Later
    BY <1>1 DEF Children
  <2> QED BY <1>2, <2>1 DEF ItemOf
<1>5. ASSUME NEW S \in SUBSET Later
      PROVE  BlockOf(P, F, S) = BlockOf(P, G, S)
  <2>1. \A n \in 1..Cardinality(S) : Nth(S, n) \in Later
    <3>1. S \in SUBSET (1..Len(P))
      BY <1>1
    <3> QED BY <1>1, <3>1, NthCounts
  <2>2. \A n \in 1..Cardinality(S) : ItemOf(P, F, Nth(S, n)) = ItemOf(P, G, Nth(S, n))
    BY <1>4, <2>1
  <2>3. SequenceNode([n \in 1..Cardinality(S) |-> ItemOf(P, F, Nth(S, n))])
          = SequenceNode([n \in 1..Cardinality(S) |-> ItemOf(P, G, Nth(S, n))])
    BY <2>2
  <2> QED BY <1>2, <2>3 DEF BlockOf
<1> HIDE DEF Later
<1> QED BY <1>3, <1>5 DEF ValueOf

\* So the values that the keys have are what Meaning is defined by.
LEMMA MeaningIs ==
  ASSUME NEW P \in Seq(Token), NEW F, F = [i \in 1..Len(P) |-> ValueOf(P, F, i)]
  PROVE  Meaning(P) = MapOf(P, F, {i \in 1..Len(P) : P[i].indent = 0})
<1> DEFINE Is(G) == G = [i \in DOMAIN P |-> ValueOf(P, G, i)]
           value == CHOOSE G : Is(G)
<1>1. DOMAIN P = 1..Len(P) /\ Len(P) \in Nat
  OBVIOUS
<1>2. Is(value)
  <2>1. Is(F)
    BY <1>1
  <2> HIDE DEF Is
  <2> QED BY <2>1
<1>3. Meaning(P) = MapOf(P, value, {i \in DOMAIN P : P[i].indent = 0})
  BY DEF Meaning
<1> HIDE DEF value
<1>4. /\ \A i \in 1..Len(P) : F[i] = ValueOf(P, F, i)
      /\ \A i \in 1..Len(P) : value[i] = ValueOf(P, value, i)
  BY <1>1, <1>2
<1> DEFINE Bad == {i \in 1..Len(P) : F[i] # value[i]}
<1>5. Bad = {}
  <2> SUFFICES ASSUME Bad # {} PROVE FALSE
    OBVIOUS
  <2>1. PICK i \in Bad : \A j \in Bad : j <= i
    <3>1. Bad \in SUBSET (1..Len(P))
      OBVIOUS
    <3> HIDE DEF Bad
    <3> QED BY <1>1, <3>1, LatestOf
  <2>2. i \in 1..Len(P) /\ F[i] # value[i]
    OBVIOUS
  <2>3. ASSUME NEW j \in (i + 1)..Len(P) PROVE F[j] = value[j]
    <3>1. j \in 1..Len(P) /\ ~(j <= i)
      BY <1>1, <2>2
    <3>2. j \notin Bad
      <4> HIDE DEF Bad
      <4> QED BY <2>1, <3>1
    <3> QED BY <3>1, <3>2
  <2>4. ValueOf(P, F, i) = ValueOf(P, value, i)
    <3>1. AgreeAfter(P, F, value, i)
      BY <2>2, <2>3 DEF AgreeAfter
    <3> HIDE DEF Is, Bad
    <3> QED BY <3>1, LaterDetermine
  <2> QED BY <1>4, <2>2, <2>4
<1>6. value = F
  <2>1. value = [i \in 1..Len(P) |-> value[i]] /\ F = [i \in 1..Len(P) |-> F[i]]
    BY <1>1, <1>2
  <2>2. \A i \in 1..Len(P) : F[i] = value[i]
    BY <1>5
  <2> HIDE DEF Is, Bad
  <2> QED BY <2>1, <2>2
<1> QED BY <1>1, <1>3, <1>6

LEMMA MisfitIs ==
  ASSUME NEW tokens \in Seq(Token)
  PROVE  LET m == FirstMisfit(tokens) IN
         /\ m \in 1..(Len(tokens) + 1)
         /\ m <= Len(tokens) => ~HasPlace(tokens, m)
         /\ \A j \in 1..(m - 1) : HasPlace(tokens, j)
<1> DEFINE Bad == {i \in 1..(Len(tokens) + 1) : i <= Len(tokens) => ~HasPlace(tokens, i)}
           Is(i) == /\ i <= Len(tokens) => ~HasPlace(tokens, i)
                    /\ \A j \in 1..(i - 1) : HasPlace(tokens, j)
<1>1. Len(tokens) \in Nat
  OBVIOUS
<1>2. PICK i \in Bad : \A j \in Bad : i <= j
  <2>1. Len(tokens) + 1 \in Bad
    BY <1>1
  <2>2. Bad \in SUBSET Nat
    OBVIOUS
  <2> HIDE DEF Bad
  <2> QED BY <2>1, <2>2, LeastOf
<1>3. i \in 1..(Len(tokens) + 1)
  OBVIOUS
<1>4. ASSUME NEW j \in 1..(i - 1) PROVE HasPlace(tokens, j)
  <2>1. j \in 1..(Len(tokens) + 1) /\ j <= Len(tokens) /\ ~(i <= j)
    BY <1>1, <1>3
  <2>2. j \notin Bad
    <3> HIDE DEF Bad
    <3> QED BY <1>2, <2>1
  <2> QED BY <2>1, <2>2
<1>5. Is(i)
  BY <1>4
<1>6. FirstMisfit(tokens) = CHOOSE k \in 1..(Len(tokens) + 1) : Is(k)
  BY DEF FirstMisfit
<1> DEFINE m == FirstMisfit(tokens)
<1>7. m \in 1..(Len(tokens) + 1) /\ Is(m)
  <2> HIDE DEF Is, Bad
  <2> QED BY <1>3, <1>5, <1>6
<1> HIDE DEF m
<1> QED BY <1>7 DEF m

\* The parser returns what the indentation of the tokens before the first without a place
\* makes of them.
THEOREM DocumentsMean ==
  ASSUME NEW tokens \in Seq(Token)
  PROVE  LET misfit == FirstMisfit(tokens)
         IN ParseDocument(tokens) = Result(Meaning(SubSeq(tokens, 1, misfit - 1)), misfit)
<1> DEFINE m == FirstMisfit(tokens)
           P == SubSeq(tokens, 1, m - 1)
<1>1. PICK parse : IsParse(tokens, parse) /\ ParseDocument(tokens) = parse[<<"map", 1, 0>>]
  BY TokensAreLines, DocumentCalls
<1>2. /\ m \in 1..(Len(tokens) + 1)
      /\ m <= Len(tokens) => ~HasPlace(tokens, m)
      /\ \A j \in 1..(m - 1) : HasPlace(tokens, j)
      /\ Len(tokens) \in Nat
  BY MisfitIs
<1> HIDE DEF m
<1>3. P \in Seq(Token) /\ Len(P) = m - 1 /\ \A i \in 1..(m - 1) : P[i] = tokens[i]
  <2>1. m - 1 \in Nat /\ m - 1 <= Len(tokens)
    BY <1>2
  <2>2. \A k \in Nat : k <= Len(tokens) =>
          /\ SubSeq(tokens, 1, k) \in Seq(Token) /\ Len(SubSeq(tokens, 1, k)) = k
          /\ \A i \in 1..k : SubSeq(tokens, 1, k)[i] = tokens[i]
    OBVIOUS
  <2> QED BY <2>1, <2>2
<1>4. IsCut(tokens, P)
  <2> HIDE DEF P
  <2>1. Len(P) = m - 1 /\ m \in Nat /\ m <= Len(tokens) + 1
    BY <1>2, <1>3
  <2>2. Len(P) <= Len(tokens) /\ Len(P) + 1 = m /\ 1..Len(P) = 1..(m - 1)
    BY <1>2, <2>1
  <2> QED BY <1>2, <1>3, <2>2 DEF IsCut
<1> DEFINE F == KeyValues(P, tokens, parse)
           result == ParseDocument(tokens)
           n == result.next
<1> HIDE DEF P, F
<1>5. \A r : CallsMeanBelow(tokens, P, F, parse, r)
  BY <1>1, <1>4, CallsMean DEF F
<1>6. F = [i \in 1..Len(P) |-> ValueOf(P, F, i)]
  <2>1. F = [i \in 1..Len(P) |-> KeyValue(tokens, parse, i).node]
    BY DEF F, KeyValues
  <2>2. \A i \in 1..Len(P) : KeyValue(tokens, parse, i).node = ValueOf(P, F, i)
    BY <1>1, <1>4, <1>5, ValueMeans
  <2> QED BY <2>1, <2>2
<1>7. Meaning(P) = MapOf(P, F, {i \in 1..Len(P) : P[i].indent = 0})
  BY <1>3, <1>6, MeaningIs
<1>8. /\ 1 \in 1..(Len(P) + 1) /\ 0 \in Nat /\ 1 \in Index /\ 1 <= Len(P) + 1
      /\ "map" \in {"map", "sequence"} /\ "map" \in Function
  BY <1>2, <1>3 DEF Index, Function
<1>9. n = m
  BY DocumentEnds DEF m
<1>10. Takes(tokens, "map", 1, 0) => HasPlace(tokens, 1)
  <2> SUFFICES ASSUME Takes(tokens, "map", 1, 0) PROVE HasPlace(tokens, 1)
    OBVIOUS
  <2>1. 1 <= Len(tokens) /\ tokens[1].indent = 0 /\ tokens[1].kind = "entry"
    BY DEF Takes, Continues
  <2>2. 1 \in 1..Len(tokens)
    BY <1>2, <2>1
  <2> QED BY <2>1, <2>2, PlacedBy
<1>11. BlockMeans(P, F, "map", 1, 0, result)
  <2>1. Rank(tokens, "map", 1) < Rank(tokens, "map", 1) + 1
    BY <1>8, TokensAreLines, RankType
  <2> QED BY <1>1, <1>5, <1>8, <1>10, <2>1 DEF CallsMeanBelow, CallMeans
<1>12. result.node = MapOf(P, F, Span(P, 1, n, 0))
  BY <1>11 DEF BlockMeans
<1>13. Span(P, 1, n, 0) = {i \in 1..Len(P) : P[i].indent = 0}
  BY <1>3, <1>9 DEF Span
<1>14. result = Result(result.node, n)
  <2>1. \E node, next : result = Result(node, next)
    <3>1. result = ParseMap(tokens, parse, 1, 0)
      <4> DEFINE call == <<"map", 1, 0>>
      <4>1. result = Parsed(tokens, parse, call)
        BY <1>1, <1>8 DEF IsParse
      <4>2. call[1] = "map" /\ call[2] = 1 /\ call[3] = 0
        OBVIOUS
      <4> HIDE DEF call, result
      <4> QED BY <4>1, <4>2 DEF Parsed
    <3> QED BY <3>1 DEF ParseMap, ParseEntries
  <2>2. \A node, next : Result(node, next).node = node /\ Result(node, next).next = next
    BY DEF Result
  <2> QED BY <2>1, <2>2
<1> HIDE DEF result, n
<1> QED BY <1>7, <1>9, <1>12, <1>13, <1>14 DEF result, P, m

------------------------------------------------------------------------------
(* expand_workload *)

\* An id below the stride does not overflow in any of the copies.
LEMMA IdOfCopy ==
  ASSUME IdStride \in Nat \ {0}, IdRange \in Nat,
         NEW n \in Nat, n * IdStride <= IdRange,
         NEW k \in 0..n - 1, NEW id \in 0..IdStride - 1
  PROVE  (id + k * IdStride) % IdRange = id + k * IdStride
PROOF
  <1>1. PICK e \in Nat : n = k + 1 + e
    <2>1. n - k - 1 \in Nat /\ n = k + 1 + (n - k - 1) OBVIOUS
    <2> QED BY <2>1
  <1>2. n * IdStride = k * IdStride + IdStride + e * IdStride BY <1>1
  <1>3. e * IdStride \in Nat /\ k * IdStride \in Nat OBVIOUS
  <1>4. id + k * IdStride \in Nat /\ id + k * IdStride < IdRange BY <1>2, <1>3
  <1> QED BY <1>4

\* What CopyOf changes and what it leaves
LEMMA FieldsOfCopy ==
  ASSUME NEW entry, "id" \in DOMAIN entry, NEW k, NEW offset
  PROVE  /\ CopyOf(entry, k, offset).id = (entry.id + k * IdStride) % IdRange
         /\ "nodes" \in DOMAIN entry => CopyOf(entry, k, offset).nodes = entry.nodes
         /\ "stages" \in DOMAIN entry => CopyOf(entry, k, offset).stages = entry.stages
         /\ DOMAIN CopyOf(entry, k, offset) = DOMAIN entry
PROOF
  <1> DEFINE id == (entry.id + k * IdStride) % IdRange
             first == [entry EXCEPT !.id = id]
  <1>1. CopyOf(entry, k, offset) = [first EXCEPT !.arrival = entry.arrival + offset]
    BY DEF CopyOf
  <1>2. DOMAIN first = DOMAIN entry OBVIOUS
  <1>3. first.id = id OBVIOUS
  <1>4. /\ "nodes" \in DOMAIN entry => first.nodes = entry.nodes
        /\ "stages" \in DOMAIN entry => first.stages = entry.stages
    OBVIOUS
  <1> HIDE DEF id, first
  <1> QED BY <1>1, <1>2, <1>3, <1>4 DEF id

LEMMA NodesOfCopy ==
  ASSUME NEW entry, "id" \in DOMAIN entry, "nodes" \in DOMAIN entry, NEW k, NEW offset
  PROVE  /\ CopyOf(entry, k, offset).id = (entry.id + k * IdStride) % IdRange
         /\ CopyOf(entry, k, offset).nodes = entry.nodes
BY FieldsOfCopy

\* Each of the copies is that of an entry for an arrival.
LEMMA EntryOfCopy ==
  ASSUME NEW Entry, NEW entries \in Seq(Entry), NEW Time, NEW times \in Seq(Time),
         NEW p \in DOMAIN Copies(entries, times)
  PROVE  \E k \in 0..Len(times) - 1, i \in DOMAIN entries :
           /\ p = k * Len(entries) + i
           /\ Copies(entries, times)[p] = CopyOf(entries[i], k, times[k + 1])
PROOF
  <1> DEFINE size == Len(entries)
             k == (p - 1) \div size
             i == ((p - 1) % size) + 1
  <1>1. size \in Nat /\ Len(times) \in Nat /\ DOMAIN entries = 1..size OBVIOUS
  <1>2. p \in 1..Len(times) * size BY DEF Copies
  <1>3. k \in 0..Len(times) - 1 /\ i \in 1..size /\ p = k * size + i
    BY <1>1, <1>2, PositionOfCopy
  <1>4. Copies(entries, times)[p] = CopyOf(entries[i], k, times[k + 1])
    BY <1>2 DEF Copies
  <1> HIDE DEF k, i
  <1> QED BY <1>1, <1>3, <1>4

LEMMA ElementOfSeq ==
  ASSUME NEW S, NEW seq \in Seq(S), NEW i \in DOMAIN seq
  PROVE  seq[i] \in S
PROOF OBVIOUS

\* An id of the copies is an id of the workload, of the same kind, in one copy.
LEMMA Origin ==
  ASSUME IdStride \in Nat \ {0}, IdRange \in Nat,
         NEW Stages, NEW Node, NEW Entries,
         NEW base \in WorkloadType(Stages, Node, Entries),
         NEW Time, NEW times \in Seq(Time),
         IdsBelowStride(base), Len(times) * IdStride <= IdRange,
         NEW x \in Ids(ExpandWorkload(base, times))
  PROVE  \E k \in Nat, o \in Ids(base) :
           x = <<o[1], k * Len(IF o[1] = "task" THEN base.tasks ELSE base.dags) + o[2],
                 o[3] + k * IdStride>>
PROOF
  <1> DEFINE Task == [id : Nat, arrival : Int, stages : Stages]
             Dag == [id : Nat, arrival : Int, nodes : Seq(Node), entries : Entries]
             n == Len(times)
  <1>1. PICK tasks \in Seq(Task), dags \in Seq(Dag) : tasks = base.tasks /\ dags = base.dags
    BY DEF WorkloadType
  <1>2. PICK copies : /\ copies = ExpandWorkload(base, times)
                      /\ copies.tasks = Copies(tasks, times)
                      /\ copies.dags = Copies(dags, times)
    <2>1. /\ ExpandWorkload(base, times).tasks = Copies(base.tasks, times)
          /\ ExpandWorkload(base, times).dags = Copies(base.dags, times)
      BY DEF ExpandWorkload
    <2> QED BY <1>1, <2>1
  <1>3. n \in Nat /\ n * IdStride <= IdRange OBVIOUS
  <1>4. CASE x \in TaskIds(copies)
    <2>1. PICK p \in DOMAIN copies.tasks : x = <<"task", p, copies.tasks[p].id>>
      BY <1>4 DEF TaskIds
    <2>2. PICK k \in 0..n - 1, i \in DOMAIN tasks :
            /\ p = k * Len(tasks) + i
            /\ copies.tasks[p] = CopyOf(tasks[i], k, times[k + 1])
      BY <1>2, EntryOfCopy
    <2>3. PICK id : id = tasks[i].id OBVIOUS
    <2>4. "id" \in DOMAIN tasks[i]
      <3>1. tasks[i] \in Task
        <4> HIDE DEF Task
        <4> QED BY ElementOfSeq
      <3> QED BY <3>1
    <2>5. copies.tasks[p].id = (id + k * IdStride) % IdRange
      BY <2>2, <2>3, <2>4, FieldsOfCopy
    <2>6. PICK o \in Ids(base) : o = <<"task", i, id>>
      BY <1>1, <2>3 DEF Ids, TaskIds
    <2>7. id \in 0..IdStride - 1 BY <2>6 DEF IdsBelowStride
    <2>8. copies.tasks[p].id = id + k * IdStride
      BY <1>3, <2>5, <2>7, IdOfCopy
    <2>9. k \in Nat BY <1>3
    <2> QED BY <1>1, <2>1, <2>2, <2>6, <2>8, <2>9
  <1>5. CASE x \in NodeIds(copies)
    <2>1. PICK p \in DOMAIN copies.dags :
            x \in {<<"node", p, copies.dags[p].id + j - 1>> :
                     j \in DOMAIN copies.dags[p].nodes}
      BY <1>5 DEF NodeIds
    <2>2. PICK j \in DOMAIN copies.dags[p].nodes :
            x = <<"node", p, copies.dags[p].id + j - 1>>
      BY <2>1
    <2>3. PICK k \in 0..n - 1, i \in DOMAIN dags :
            /\ p = k * Len(dags) + i
            /\ copies.dags[p] = CopyOf(dags[i], k, times[k + 1])
      BY <1>2, EntryOfCopy
    <2>4. PICK id, nodes : id = dags[i].id /\ nodes = dags[i].nodes OBVIOUS
    <2>5. dags[i] \in Dag
      <3> HIDE DEF Dag
      <3> QED BY ElementOfSeq
    <2>6. /\ "id" \in DOMAIN dags[i] /\ "nodes" \in DOMAIN dags[i]
          /\ id \in Nat /\ nodes \in Seq(Node)
      BY <2>4, <2>5
    <2>7. /\ copies.dags[p].id = (id + k * IdStride) % IdRange
          /\ copies.dags[p].nodes = nodes
      <3>1. PICK dag, offset : dag = dags[i] /\ offset = times[k + 1] OBVIOUS
      <3>2. "id" \in DOMAIN dag /\ "nodes" \in DOMAIN dag BY <2>6, <3>1
      <3>3. /\ CopyOf(dag, k, offset).id = (dag.id + k * IdStride) % IdRange
            /\ CopyOf(dag, k, offset).nodes = dag.nodes
        BY <3>2, NodesOfCopy, Zenon
      <3>4. copies.dags[p] = CopyOf(dag, k, offset) BY <2>3, <3>1
      <3>5. id = dag.id /\ nodes = dag.nodes BY <2>4, <3>1
      <3>6. copies.dags[p].id = CopyOf(dag, k, offset).id
        BY <3>4
      <3>7. copies.dags[p].nodes = CopyOf(dag, k, offset).nodes
        BY <3>4
      <3> HIDE DEF n, Task, Dag
      <3> QED BY <3>3, <3>5, <3>6, <3>7
    <2>8. j \in DOMAIN nodes /\ j \in Nat /\ 1 \in DOMAIN nodes
      <3>1. j \in DOMAIN nodes BY <2>2, <2>7
      <3>2. PICK length \in Nat : DOMAIN nodes = 1..length BY <2>6
      <3>3. j \in 1..length BY <3>1, <3>2
      <3>4. j \in Nat /\ 1 \in 1..length BY <3>3
      <3> QED BY <3>1, <3>2, <3>4
    <2>9. \A m \in DOMAIN nodes : <<"node", i, id + m - 1>> \in Ids(base)
      BY <1>1, <2>4 DEF Ids, NodeIds
    <2>10. PICK o \in Ids(base) : o = <<"node", i, id + 1 - 1>> BY <2>8, <2>9
    <2>11. o[3] \in 0..IdStride - 1 /\ o[3] = id BY <2>6, <2>10 DEF IdsBelowStride
    <2>12. copies.dags[p].id = id + k * IdStride
      BY <1>3, <2>7, <2>11, IdOfCopy
    <2>13. k \in Nat BY <1>3
    <2>14. PICK q \in Ids(base) : q = <<"node", i, id + j - 1>> BY <2>8, <2>9
    <2>15. id + k * IdStride + j - 1 = q[3] + k * IdStride
      <3>1. PICK m \in Nat : m = k * IdStride BY <2>13
      <3>2. id + m + j - 1 = id + j - 1 + m BY <2>6, <2>8
      <3> QED BY <2>14, <3>1, <3>2
    <2> QED BY <1>1, <2>2, <2>3, <2>12, <2>13, <2>14, <2>15
  <1> QED BY <1>2, <1>4, <1>5 DEF Ids

\* expand_workload: whatever the workload and however many arrivals, no two tasks
\* or nodes of the copies have the same id, if none of the workload do, its ids
\* are below the stride and none overflows.
THEOREM CopiesKeepIdsApart ==
  ASSUME IdStride \in Nat \ {0}, IdRange \in Nat,
         NEW Stages, NEW Node, NEW Entries,
         NEW base \in WorkloadType(Stages, Node, Entries),
         NEW Time, NEW times \in Seq(Time),
         IdsApart(base), IdsBelowStride(base), Len(times) * IdStride <= IdRange
  PROVE  IdsApart(ExpandWorkload(base, times))
PROOF
  <1> SUFFICES ASSUME NEW x \in Ids(ExpandWorkload(base, times)),
                      NEW y \in Ids(ExpandWorkload(base, times)), x[3] = y[3]
               PROVE  x = y
    BY DEF IdsApart
  <1> DEFINE size(o) == Len(IF o[1] = "task" THEN base.tasks ELSE base.dags)
  <1>1. PICK k \in Nat, o \in Ids(base) :
          x = <<o[1], k * size(o) + o[2], o[3] + k * IdStride>>
    BY Origin
  <1>2. PICK l \in Nat, q \in Ids(base) :
          y = <<q[1], l * size(q) + q[2], q[3] + l * IdStride>>
    BY Origin
  <1> HIDE DEF size
  <1>3. o[3] \in 0..IdStride - 1 /\ q[3] \in 0..IdStride - 1 BY DEF IdsBelowStride
  <1>4. o[3] + k * IdStride = q[3] + l * IdStride BY <1>1, <1>2
  <1>5. k = l /\ o[3] = q[3]
    <2>1. PICK a, b : a = o[3] /\ b = q[3] OBVIOUS
    <2>2. /\ a \in 0..IdStride - 1 /\ b \in 0..IdStride - 1
          /\ a + k * IdStride = b + l * IdStride
      BY <1>3, <1>4, <2>1
    <2>3. k = l /\ a = b BY <2>2, Quotient, Zenon
    <2> QED BY <2>1, <2>3
  <1>6. o = q BY <1>5 DEF IdsApart
  <1> QED BY <1>1, <1>2, <1>5, <1>6

------------------------------------------------------------------------------
(* apply_placement_mode *)

\* Every resource has a counterpart on each side.
LEMMA RemappedSide ==
  ASSUME NEW resource \in ResourceClass, NEW side \in {"host", "nic"}
  PROVE  SideOf(RemapResource(resource, side)) = side
PROOF
  <1>1. CASE side = "host" BY <1>1 DEF ResourceClass, RemapResource, SideOf
  <1>2. CASE side = "nic" BY <1>2 DEF ResourceClass, RemapResource, SideOf
  <1> QED BY <1>1, <1>2

\* A stage is moved, if it is, to the side that the mode asks for and its list
\* allows.
LEMMA ChosenSide ==
  ASSUME NEW stage, NEW mode \in Mode, ChooseStagePlacement(stage, mode) # Absent
  PROVE  /\ ChooseStagePlacement(stage, mode) = Wanted(stage, mode)
         /\ Wanted(stage, mode) \in {"host", "nic"}
         /\ AllowsPlacement(stage, Wanted(stage, mode))
PROOF
  <1>1. /\ ChooseStagePlacement(stage, mode) = Wanted(stage, mode)
        /\ Wanted(stage, mode) # Absent
        /\ AllowsPlacement(stage, Wanted(stage, mode))
    BY DEF ChooseStagePlacement
  <1>2. Wanted(stage, mode) \in {"host", "nic", Absent} BY DEF Mode, Wanted
  <1> QED BY <1>1, <1>2

\* apply_stage_placement: a stage that is moved keeps its demands, one by one, all
\* of them are on the side it is moved to, and its profile, if it has one, too.
THEOREM MovedStagesAreOnOneSide ==
  ASSUME NEW stage, {"profile", "demands"} \subseteq DOMAIN stage,
         NEW Units, stage.demands \in Seq([resource : ResourceClass, units : Units]),
         NEW mode \in Mode, ChooseStagePlacement(stage, mode) # Absent
  PROVE  LET side == Wanted(stage, mode)
             placed == PlacedStage(stage, mode)
         IN /\ AllowsPlacement(stage, side)
            /\ placed.profile = IF stage.profile = Absent THEN Absent ELSE side
            /\ DOMAIN placed.demands = DOMAIN stage.demands
            /\ \A i \in DOMAIN stage.demands :
                 /\ placed.demands[i].units = stage.demands[i].units
                 /\ SideOf(placed.demands[i].resource) = side
PROOF
  <1>1. PICK side \in {"host", "nic"} :
          /\ side = Wanted(stage, mode) /\ side = ChooseStagePlacement(stage, mode)
          /\ AllowsPlacement(stage, side) /\ side # Absent
    BY ChosenSide
  <1> DEFINE domain == IF stage.profile = Absent THEN stage.profile ELSE side
             demands == [i \in DOMAIN stage.demands |-> MovedDemand(stage.demands[i], side)]
             first == [stage EXCEPT !.profile = domain]
  <1>2. PlacedStage(stage, mode) = [first EXCEPT !.demands = demands]
    <2>1. PlacedStage(stage, mode) = ApplyStagePlacement(stage, side)
      BY <1>1 DEF PlacedStage
    <2>2. ApplyStagePlacement(stage, side) = [first EXCEPT !.demands = demands]
      BY <1>1, Zenon DEF ApplyStagePlacement
    <2> QED BY <2>1, <2>2
  <1>3. /\ first.profile = domain
        /\ "profile" \in DOMAIN first /\ "demands" \in DOMAIN first
    OBVIOUS
  <1>4. \A i \in DOMAIN stage.demands :
          /\ demands[i].units = stage.demands[i].units
          /\ SideOf(demands[i].resource) = side
    <2>1. TAKE i \in DOMAIN stage.demands
    <2>2. PICK d \in [resource : ResourceClass, units : Units] : d = stage.demands[i]
      <3> DEFINE DemandKind == [resource : ResourceClass, units : Units]
      <3>1. PICK s \in Seq(DemandKind) : s = stage.demands OBVIOUS
      <3> HIDE DEF DemandKind
      <3>2. s[i] \in DemandKind BY <3>1, ElementOfSeq
      <3> QED BY <3>1, <3>2 DEF DemandKind
    <2>3. demands[i] = MovedDemand(d, side) BY <2>2
    <2>4. demands[i].units = d.units /\ demands[i].resource = RemapResource(d.resource, side)
      BY <2>3 DEF MovedDemand
    <2>5. d.resource \in ResourceClass OBVIOUS
    <2> QED BY <2>2, <2>4, <2>5, RemappedSide
  <1>5. DOMAIN demands = DOMAIN stage.demands OBVIOUS
  <1> HIDE DEF first, demands
  <1>6. /\ PlacedStage(stage, mode).profile = domain
        /\ PlacedStage(stage, mode).demands = demands
    BY <1>2, <1>3
  <1> QED BY <1>1, <1>4, <1>5, <1>6

------------------------------------------------------------------------------
(* load_arrival_fixture *)

LEMMA FlattenedType ==
  ASSUME NEW T, NEW seqs \in Seq(Seq(T))
  PROVE  FlattenSeq(seqs) \in Seq(T)
<1> DEFINE L == Len(seqs)
           n == L - 1
           Ts == Seq(T)
           base == seqs[1]
           step == [p \in Ts \X (1..n) |-> p[1] \o seqs[p[2] + 1]]
           body(F) == [i \in 1..L |-> IF i = 1 THEN seqs[i] ELSE F[i - 1] \o seqs[i]]
           flatten == CHOOSE F : F = body(F)
<1>1. L \in Nat /\ \A i \in 1..L : seqs[i] \in Ts
  OBVIOUS
<1>2. CASE L = 0
  <2>1. FlattenSeq(seqs) = seqs /\ seqs = <<>>
    BY <1>2 DEF FlattenSeq
  <2> QED BY <2>1
<1>3. CASE L # 0
  <2>1. FlattenSeq(seqs) = flatten[L]
    BY <1>3 DEF FlattenSeq
  <2>2. n \in Nat /\ base \in Ts /\ 1 \in 1..L
    BY <1>1, <1>3
  <2>3. \A s, t \in Ts : s \o t \in Ts
    OBVIOUS
  <2> HIDE DEF Ts
  <2>4. \A k \in 1..n : seqs[k + 1] \in Ts
    BY <1>1
  <2>5. step \in [Ts \X (1..n) -> Ts] /\ \A s \in Ts, k \in 1..n : step[<<s, k>>] = s \o seqs[k + 1]
    BY <2>3, <2>4
  <2> HIDE DEF n, base, step
  <2>6. PICK F : Loop(F, Ts, base, step, n)
    BY <2>2, <2>5, LoopExists
  <2> DEFINE H == [i \in 1..L |-> F[i - 1]]
  <2>7. H = body(H)
    <3>1. \A i \in 1..L : H[i] = IF i = 1 THEN seqs[i] ELSE H[i - 1] \o seqs[i]
      <4> SUFFICES ASSUME NEW i \in 1..L
                   PROVE  H[i] = IF i = 1 THEN seqs[i] ELSE H[i - 1] \o seqs[i]
        OBVIOUS
      <4>1. CASE i = 1
        <5>1. H[i] = F[0]
          BY <4>1
        <5> QED BY <2>6, <4>1, <5>1 DEF Loop, base
      <4>2. CASE i # 1
        <5> DEFINE k == i - 1
        <5>1. k \in 1..n /\ k \in 1..L /\ k - 1 \in 0..n /\ k + 1 = i
          BY <1>1, <4>2 DEF n
        <5>2. H[i] = F[k] /\ H[k] = F[k - 1]
          BY <5>1
        <5>3. F[k] = step[<<F[k - 1], k>>] /\ F[k - 1] \in Ts
          BY <2>6, <5>1 DEF Loop
        <5>4. F[k] = F[k - 1] \o seqs[k + 1]
          BY <2>5, <5>1, <5>3
        <5> QED BY <4>2, <5>1, <5>2, <5>4
      <4> QED BY <4>1, <4>2
    <3> QED BY <3>1
  <2>8. flatten = body(flatten)
    <3> HIDE DEF body, H
    <3> QED BY <2>7
  <2>9. \A i \in 1..L : flatten[i] = IF i = 1 THEN seqs[i] ELSE flatten[i - 1] \o seqs[i]
    <3> HIDE DEF flatten
    <3> QED BY <2>8
  <2> HIDE DEF flatten, L
  <2> DEFINE G == [k \in 0..n |-> flatten[k + 1]]
  <2>10. Follows(G, Ts, base, step, n)
    <3>1. G[0] = base
      BY <2>2, <2>9 DEF base
    <3>2. ASSUME NEW k \in 1..n, G[k - 1] \in Ts
          PROVE  G[k] = step[<<G[k - 1], k>>]
      <4>1. k + 1 \in 1..L /\ k + 1 # 1 /\ k - 1 \in 0..n /\ k \in 0..n
        BY <1>1, <2>2 DEF n
      <4>2. (k + 1) - 1 = k /\ (k - 1) + 1 = k
        OBVIOUS
      <4>3. G[k] = flatten[k + 1] /\ G[k - 1] = flatten[k]
        BY <4>1, <4>2
      <4>4. flatten[k + 1] = flatten[k] \o seqs[k + 1]
        BY <2>9, <4>1, <4>2
      <4>5. step[<<G[k - 1], k>>] = G[k - 1] \o seqs[k + 1]
        BY <2>5, <3>2
      <4> QED BY <4>3, <4>4, <4>5
    <3> QED BY <3>1, <3>2 DEF Follows
  <2>11. G[n] \in Ts
    <3> HIDE DEF G
    <3>1. \A k \in 0..n : G[k] = F[k] /\ G[k] \in Ts
      BY <2>2, <2>6, <2>10, LoopUnique
    <3>2. n \in 0..n
      BY <2>2
    <3> QED BY <3>1, <3>2
  <2>12. G[n] = flatten[L]
    BY <1>1, <2>2 DEF n
  <2> QED BY <2>1, <2>11, <2>12 DEF Ts
<1> QED BY <1>2, <1>3

------------------------------------------------------------------------------
(* load_workload_from_file *)

DemandType == [resource : ResourceClass, units : Int]

\* The stages, nodes of DAGs and entry points that are made of the nodes of a set
StagesFrom(S) == {Stage(node) : node \in {n \in S : IsStage(n)}}
StageNodesFrom(S) == {StageNode(node) : node \in {n \in S : IsStageNode(n)}}
EntriesFrom(S) == {DagTask(node).entries : node \in S}

WorkloadsFrom(S) == WorkloadType(Seq(StagesFrom(S)), StageNodesFrom(S), EntriesFrom(S))

LEMMA FieldsInSet ==
  ASSUME NEW S, NodeSet(S), NEW node \in S, NEW key, Has(node, key)
  PROVE  Field(node, key) \in S
BY DEF NodeSet, Has, Field

LEMMA ItemsInSet ==
  ASSUME NEW S, NodeSet(S), NEW node \in S, NEW key, HasKind(node, key, "sequence")
  PROVE  Items(node, key) \in Seq(S)
<1>1. Has(node, key) /\ Field(node, key).kind = "sequence"
  BY DEF HasKind
<1>2. Field(node, key) \in S
  BY <1>1, FieldsInSet
<1> QED BY <1>1, <1>2 DEF NodeSet, Items

\* The elements made of the items of a node
LEMMA MadeOfItems ==
  ASSUME NEW S, NEW items \in Seq(S), NEW T, NEW made,
         DOMAIN made = DOMAIN items, made = [i \in DOMAIN made |-> made[i]],
         \A i \in DOMAIN items : made[i] \in T
  PROVE  made \in Seq(T)
<1>1. PICK n \in Nat : DOMAIN items = 1..n
  OBVIOUS
<1>2. made \in [1..n -> T]
  BY <1>1
<1> QED BY <1>1, <1>2

LEMMA NumberType ==
  ASSUME NEW node, NEW key, HasNumber(node, key)
  PROVE  Number(node, key) \in Int
BY LoaderAssumption DEF HasNumber, Number

LEMMA IdType ==
  ASSUME NEW node, NEW key, HasNumber(node, key)
  PROVE  Id(node, key) \in Nat
<1>1. Number(node, key) \in Int /\ MaxId + 1 \in Nat /\ MaxId + 1 > 0
  BY NumberType, LoaderAssumption
<1> QED BY <1>1 DEF Id

\* parse_stage: the demands are on resources there are.
LEMMA StageType ==
  ASSUME NEW S, NodeSet(S), NEW stage \in StagesFrom(S)
  PROVE  {"profile", "demands"} \subseteq DOMAIN stage /\ stage.demands \in Seq(DemandType)
<1>1. PICK node \in S : IsStage(node) /\ stage = Stage(node)
  BY DEF StagesFrom
<1> DEFINE items == Items(node, "demands")
           demands == [i \in DOMAIN items |-> Demand(items[i])]
<1>2. items \in Seq(S)
  BY <1>1, ItemsInSet DEF IsStage
<1>3. \A i \in DOMAIN items : demands[i] \in DemandType
  <2> SUFFICES ASSUME NEW i \in DOMAIN items PROVE Demand(items[i]) \in DemandType
    OBVIOUS
  <2>1. IsDemand(items[i])
    BY <1>1 DEF IsStage
  <2>2. Text(items[i], "resource") \in ResourceClass /\ Number(items[i], "units") \in Int
    BY <2>1, NumberType DEF IsDemand
  <2> QED BY <2>2 DEF Demand, DemandType
<1>4. {"profile", "demands"} \subseteq DOMAIN stage /\ stage.demands = demands
  BY <1>1 DEF Stage
<1>5. DOMAIN demands = DOMAIN items /\ demands = [i \in DOMAIN demands |-> demands[i]]
  OBVIOUS
<1> HIDE DEF demands, items
<1>6. demands \in Seq(DemandType)
  BY <1>2, <1>3, <1>5, MadeOfItems
<1> QED BY <1>4, <1>6

\* parse_linear_task
LEMMA LinearTaskType ==
  ASSUME NEW S, NodeSet(S), NEW node \in S, IsLinearTask(node)
  PROVE  LinearTask(node) \in [id : Nat, arrival : Int, stages : Seq(StagesFrom(S))]
<1> DEFINE items == Items(node, "stages")
           stages == [i \in DOMAIN items |-> Stage(items[i])]
<1>1. HasNumber(node, "id") /\ HasNumber(node, "arrival_time")
  BY DEF IsLinearTask, HasIdAndArrival
<1>2. items \in Seq(S) /\ \A i \in DOMAIN items : IsStage(items[i])
  BY ItemsInSet DEF IsLinearTask
<1>3. \A i \in DOMAIN items : items[i] \in S
  <2> HIDE DEF items
  <2> QED BY <1>2
<1>4. \A i \in DOMAIN items : stages[i] \in StagesFrom(S)
  BY <1>2, <1>3 DEF StagesFrom
<1>5. DOMAIN stages = DOMAIN items /\ stages = [i \in DOMAIN stages |-> stages[i]]
  OBVIOUS
<1>6. LinearTask(node) =
        [id |-> Id(node, "id"), arrival |-> Number(node, "arrival_time"), stages |-> stages]
  BY DEF LinearTask
<1> HIDE DEF stages, items
<1>7. stages \in Seq(StagesFrom(S))
  BY <1>2, <1>4, <1>5, MadeOfItems
<1>8. Id(node, "id") \in Nat /\ Number(node, "arrival_time") \in Int
  BY <1>1, NumberType, IdType
<1> QED BY <1>6, <1>7, <1>8

\* parse_task_dag
LEMMA DagTaskType ==
  ASSUME NEW S, NodeSet(S), NEW node \in S, IsDagTask(node)
  PROVE  DagTask(node) \in
           [id : Nat, arrival : Int, nodes : Seq(StageNodesFrom(S)), entries : EntriesFrom(S)]
<1> DEFINE dag == Field(node, "dag")
           items == Items(dag, "nodes")
           nodes == [i \in DOMAIN items |-> StageNode(items[i])]
           entries == DagTask(node).entries
<1>1. HasNumber(node, "id") /\ HasNumber(node, "arrival_time")
  BY DEF IsDagTask, HasIdAndArrival
<1>2. dag \in S
  BY FieldsInSet DEF IsDagTask, HasKind
<1>3. items \in Seq(S) /\ \A i \in DOMAIN items : IsStageNode(items[i])
  BY <1>2, ItemsInSet DEF IsDagTask
<1>4. DagTask(node) = [id |-> Id(node, "id"), arrival |-> Number(node, "arrival_time"),
                       nodes |-> nodes, entries |-> entries]
  BY DEF DagTask, DagNodes
<1>5. entries \in EntriesFrom(S)
  BY DEF EntriesFrom
<1>6. DOMAIN nodes = DOMAIN items /\ nodes = [i \in DOMAIN nodes |-> nodes[i]]
  OBVIOUS
<1> HIDE DEF items, entries
<1>7. \A i \in DOMAIN items : items[i] \in S
  BY <1>3
<1>8. \A i \in DOMAIN items : nodes[i] \in StageNodesFrom(S)
  BY <1>3, <1>7 DEF StageNodesFrom
<1> HIDE DEF nodes
<1>9. nodes \in Seq(StageNodesFrom(S))
  BY <1>3, <1>6, <1>8, MadeOfItems
<1>10. Id(node, "id") \in Nat /\ Number(node, "arrival_time") \in Int
  BY <1>1, NumberType, IdType
<1> QED BY <1>4, <1>5, <1>9, <1>10

LEMMA WithTaskType ==
  ASSUME NEW S, NodeSet(S), NEW spec \in WorkloadsFrom(S), NEW node \in S, IsTask(node)
  PROVE  WithTask(spec, node) \in WorkloadsFrom(S)
<1> DEFINE Task == [id : Nat, arrival : Int, stages : Seq(StagesFrom(S))]
           Dag == [id : Nat, arrival : Int, nodes : Seq(StageNodesFrom(S)),
                   entries : EntriesFrom(S)]
<1>1. WorkloadsFrom(S) = [tasks : Seq(Task), dags : Seq(Dag)]
  BY DEF WorkloadsFrom, WorkloadType
<1>2. CASE Has(node, "dag")
  <2>1. DagTask(node) \in Dag
    BY <1>2, DagTaskType DEF IsTask
  <2>2. WithTask(spec, node) = [spec EXCEPT !.dags = Append(spec.dags, DagTask(node))]
    BY <1>2 DEF WithTask
  <2> HIDE DEF Task, Dag
  <2>3. Append(spec.dags, DagTask(node)) \in Seq(Dag)
    BY <1>1, <2>1
  <2> QED BY <1>1, <2>2, <2>3
<1>3. CASE ~Has(node, "dag")
  <2>1. LinearTask(node) \in Task
    BY <1>3, LinearTaskType DEF IsTask
  <2>2. WithTask(spec, node) = [spec EXCEPT !.tasks = Append(spec.tasks, LinearTask(node))]
    BY <1>3 DEF WithTask
  <2> HIDE DEF Task, Dag
  <2>3. Append(spec.tasks, LinearTask(node)) \in Seq(Task)
    BY <1>1, <2>1
  <2> QED BY <1>1, <2>2, <2>3
<1> QED BY <1>2, <1>3

\* load_workload_from_file: what it returns has the parts that a workload has, and a
\* task at least.
LEMMA LoadedType ==
  ASSUME NEW S, NodeSet(S), NEW node \in S, IsWorkload(node)
  PROVE  /\ Workload(node) \in WorkloadsFrom(S)
         /\ Workload(node) # Empty
<1> DEFINE nodes == Items(node, "tasks")
           L == Len(nodes)
           W == WorkloadsFrom(S)
           step == [p \in W \X (1..L) |-> WithTask(p[1], nodes[p[2]])]
           body(F) == [n \in 0..L |-> IF n = 0 THEN Empty ELSE WithTask(F[n - 1], nodes[n])]
           spec == CHOOSE F : F = body(F)
<1>1. nodes \in Seq(S) /\ nodes # <<>>
  BY ItemsInSet DEF IsWorkload
<1>2. \A i \in DOMAIN nodes : IsTask(nodes[i])
  BY DEF IsWorkload
<1>3. Workload(node) = spec[L]
  BY DEF Workload
<1> HIDE DEF nodes
<1>4. L \in Nat /\ L # 0 /\ \A n \in 1..L : nodes[n] \in S /\ IsTask(nodes[n])
  BY <1>1, <1>2
<1>5. Empty \in W
  <2>1. \A T : <<>> \in Seq(T)
    OBVIOUS
  <2> QED BY <2>1 DEF Empty, WorkloadsFrom, WorkloadType
<1> HIDE DEF W
<1>6. /\ step \in [W \X (1..L) -> W]
      /\ \A w \in W, n \in 1..L : step[<<w, n>>] = WithTask(w, nodes[n])
  <2>1. \A w \in W, n \in 1..L : WithTask(w, nodes[n]) \in W
    BY <1>4, WithTaskType DEF W
  <2> QED BY <2>1
<1> HIDE DEF step
<1>7. PICK F : Loop(F, W, Empty, step, L)
  BY <1>4, <1>5, <1>6, LoopExists
<1>8. F = body(F)
  <2>1. F = [n \in 0..L |-> F[n]]
    BY <1>7 DEF Loop
  <2>2. \A n \in 0..L : F[n] = IF n = 0 THEN Empty ELSE WithTask(F[n - 1], nodes[n])
    <3> HIDE DEF L, body, spec
    <3>1. \A n \in 1..L : n - 1 \in 0..L /\ n # 0
      BY <1>4
    <3>2. \A n \in 1..L : F[n] = WithTask(F[n - 1], nodes[n])
      BY <1>6, <1>7, <3>1 DEF Loop
    <3>3. \A n \in 0..L : n = 0 \/ n \in 1..L
      BY <1>4
    <3> QED BY <1>7, <3>1, <3>2, <3>3 DEF Loop
  <2> QED BY <2>1, <2>2
<1>9. spec = body(spec)
  <2> HIDE DEF body
  <2> QED BY <1>8
<1>10. \A n \in 0..L : spec[n] = IF n = 0 THEN Empty ELSE WithTask(spec[n - 1], nodes[n])
  <2> HIDE DEF spec
  <2> QED BY <1>9
<1> HIDE DEF spec, L, body
<1>11. Follows(spec, W, Empty, step, L)
  BY <1>4, <1>6, <1>10 DEF Follows
<1>12. \A n \in 0..L : spec[n] = F[n] /\ spec[n] \in W
  BY <1>4, <1>7, <1>11, LoopUnique
<1>13. spec[L] # Empty
  <2>1. L - 1 \in 0..L /\ L \in 0..L
    BY <1>4
  <2> DEFINE w == spec[L - 1]
             last == nodes[L]
  <2>2. w \in W /\ spec[L] = WithTask(w, last)
    BY <1>4, <1>10, <1>12, <2>1
  <2> HIDE DEF w, last
  <2>3. DOMAIN w = {"tasks", "dags"} /\ \E T, D : w.tasks \in Seq(T) /\ w.dags \in Seq(D)
    BY <2>2 DEF W, WorkloadsFrom, WorkloadType
  <2>4. ASSUME NEW s, NEW x, \E T : s \in Seq(T) PROVE Append(s, x) # <<>>
    <3>1. PICK T : s \in Seq(T)
      BY <2>4
    <3> DEFINE U == T \cup {x}
    <3>2. s \in Seq(U) /\ x \in U
      BY <3>1
    <3> HIDE DEF U
    <3>3. Len(Append(s, x)) = Len(s) + 1 /\ Len(s) \in Nat /\ Len(<<>>) = 0
      BY <3>2
    <3> QED BY <3>3
  <2>5. WithTask(w, last).dags # <<>> \/ WithTask(w, last).tasks # <<>>
    BY <2>3, <2>4 DEF WithTask
  <2>6. Empty.dags = <<>> /\ Empty.tasks = <<>>
    BY DEF Empty
  <2> QED BY <2>2, <2>5, <2>6
<1> QED BY <1>3, <1>4, <1>12, <1>13 DEF W

------------------------------------------------------------------------------
(* load_arrival_fixture, continued *)

IsSeq(v) == \E T : v \in Seq(T)

LEMMA MadeIsSeq ==
  ASSUME NEW v, IsSeq(v), NEW made, DOMAIN made = DOMAIN v,
         made = [i \in DOMAIN made |-> made[i]]
  PROVE  IsSeq(made)
<1>1. PICK T : v \in Seq(T)
  BY DEF IsSeq
<1> DEFINE U == {made[i] : i \in DOMAIN v}
<1>2. \A i \in DOMAIN v : made[i] \in U
  OBVIOUS
<1> HIDE DEF U
<1>3. made \in Seq(U)
  BY <1>1, <1>2, MadeOfItems
<1> QED BY <1>3 DEF IsSeq

\* The times are a sequence, whichever a sample leads to.
LEMMA ArrivalsAreSeq ==
  ASSUME NEW fixture \in FixtureType, fixture.model \in {"poisson_bursty", "periodic"},
         NEW times \in Arrivals(fixture)
  PROVE  IsSeq(times)
<1> DEFINE windows == fixture.windows
           periods == fixture.periods
<1>1. IsSeq(windows) /\ IsSeq(periods)
  BY DEF FixtureType, IsSeq
<1>2. CASE fixture.model = "periodic"
  <2>1. Arrivals(fixture) = {PeriodicArrivals(periods)}
    BY <1>2 DEF Arrivals
  <2>2. times = [i \in DOMAIN periods |-> SumTo(periods, i)]
    BY <2>1 DEF PeriodicArrivals
  <2>3. DOMAIN times = DOMAIN periods /\ times = [i \in DOMAIN times |-> times[i]]
    BY <2>2
  <2> HIDE DEF periods
  <2> QED BY <1>1, <2>3, MadeIsSeq
<1>3. CASE fixture.model = "poisson_bursty"
  <2> DEFINE T == UNION {{WindowStart(windows, w) + t : t \in Instants} : w \in DOMAIN windows}
             All == UNION {Bursts(windows, w) : w \in DOMAIN windows}
  <2>1. Arrivals(fixture) = PoissonArrivals(windows)
    BY <1>3 DEF Arrivals
  <2>2. PICK bursts \in [DOMAIN windows -> All] :
          /\ times = FlattenSeq(bursts)
          /\ \A w \in DOMAIN windows : bursts[w] \in Bursts(windows, w)
    BY <2>1 DEF PoissonArrivals
  <2> HIDE DEF windows, All
  <2>3. ASSUME NEW w \in DOMAIN windows
        PROVE  bursts[w] \in Seq(T)
    <3> DEFINE within == {t \in Instants : t > 0 /\ t <= windows[w].duration}
               counts == IF windows[w].rate > 0 THEN 0..MaxArrivals ELSE {0}
               start == WindowStart(windows, w)
    <3>1. PICK f \in UNION {[1..n -> within] : n \in counts} :
            bursts[w] = [i \in DOMAIN f |-> start + f[i]]
      BY <2>2 DEF Bursts
    <3>2. counts \subseteq Nat
      BY BenchmarkAssumption
    <3> HIDE DEF counts
    <3>3. PICK n \in Nat : f \in [1..n -> within]
      BY <3>1, <3>2
    <3>4. \A t \in within : start + t \in T
      OBVIOUS
    <3> HIDE DEF T, within, start
    <3>5. bursts[w] \in [1..n -> T]
      BY <3>1, <3>3, <3>4
    <3> QED BY <3>5
  <2>4. DOMAIN bursts = DOMAIN windows /\ bursts = [w \in DOMAIN bursts |-> bursts[w]]
    BY <2>2
  <2> HIDE DEF T
  <2>5. PICK U : windows \in Seq(U)
    BY <1>1 DEF IsSeq
  <2>6. bursts \in Seq(Seq(T))
    BY <2>3, <2>4, <2>5, MadeOfItems
  <2> QED BY <2>2, <2>6, FlattenedType DEF IsSeq
<1> QED BY <1>2, <1>3

------------------------------------------------------------------------------
(* parse_args *)

\* The mode of a command that parse_args takes is one of the three.
LEMMA ModeOfCommand ==
  ASSUME NEW command, IsCommandLine(command), IsCommand(command)
  PROVE  Options(command).mode \in Mode
<1> DEFINE Argument == [flag : STRING, value : STRING \cup {None}]
           flag == "--placement-mode"
           default == "hint_respect"
<1>1. Options(command).mode = Lower(Option(command, flag, default))
  BY DEF Options
<1>2. CASE Named(command, flag) = {}
  <2>1. Option(command, flag, default) = default
    BY <1>2 DEF Option
  <2>2. Lower(default) = default /\ default \in Mode
    BY BenchmarkAssumption DEF Lower, Mode
  <2> QED BY <1>1, <2>1, <2>2
<1>3. CASE Named(command, flag) # {}
  <2>1. PICK n \in Nat : DOMAIN command = 1..n
    <3>1. PICK T : command \in Seq(T)
      BY DEF IsCommandLine
    <3> QED BY <3>1
  <2>2. Latest(Named(command, flag)) \in Named(command, flag)
    <3>1. Named(command, flag) \in SUBSET (1..n)
      BY <2>1 DEF Named
    <3> QED BY <1>3, <3>1, LatestOf
  <2>3. PICK i \in DOMAIN command :
          command[i].flag = flag /\ Option(command, flag, default) = command[i].value
    BY <1>3, <2>2 DEF Named, Option
  <2>4. IsArgument(command[i])
    BY DEF IsCommand
  <2>5. Lower(command[i].value) \in Mode
    BY <2>3, <2>4 DEF IsArgument, PathFlag, NumberFlag
  <2> QED BY <1>1, <2>3, <2>5
<1> QED BY <1>2, <1>3

------------------------------------------------------------------------------
(* The stages and ids of the copies, placed and not *)

\* The parts that placement looks at
HasParts(w, S) ==
  /\ \A p \in DOMAIN w.tasks :
       /\ {"id", "stages"} \subseteq DOMAIN w.tasks[p]
       /\ w.tasks[p].stages \in Seq(StagesFrom(S))
  /\ \A p \in DOMAIN w.dags :
       /\ {"id", "nodes"} \subseteq DOMAIN w.dags[p]
       /\ w.dags[p].nodes \in Seq(StageNodesFrom(S))

LEMMA CopiesHaveParts ==
  ASSUME NEW S, NEW base \in WorkloadsFrom(S), NEW times, IsSeq(times)
  PROVE  HasParts(ExpandWorkload(base, times), S)
<1> DEFINE Task == [id : Nat, arrival : Int, stages : Seq(StagesFrom(S))]
           Dag == [id : Nat, arrival : Int, nodes : Seq(StageNodesFrom(S)),
                   entries : EntriesFrom(S)]
<1>1. PICK tasks \in Seq(Task), dags \in Seq(Dag) : tasks = base.tasks /\ dags = base.dags
  BY DEF WorkloadsFrom, WorkloadType
<1>2. PICK Time : times \in Seq(Time)
  BY DEF IsSeq
<1>3. /\ ExpandWorkload(base, times).tasks = Copies(tasks, times)
      /\ ExpandWorkload(base, times).dags = Copies(dags, times)
  BY <1>1 DEF ExpandWorkload
<1>4. ASSUME NEW p \in DOMAIN Copies(tasks, times)
      PROVE  /\ {"id", "stages"} \subseteq DOMAIN Copies(tasks, times)[p]
             /\ Copies(tasks, times)[p].stages \in Seq(StagesFrom(S))
  <2>1. PICK k \in 0..Len(times) - 1, i \in DOMAIN tasks :
          Copies(tasks, times)[p] = CopyOf(tasks[i], k, times[k + 1])
    <3> HIDE DEF Task
    <3> QED BY <1>2, EntryOfCopy
  <2>2. PICK entry \in Task : entry = tasks[i]
    <3> HIDE DEF Task
    <3> QED BY ElementOfSeq
  <2>3. /\ "id" \in DOMAIN entry /\ "stages" \in DOMAIN entry
        /\ entry.stages \in Seq(StagesFrom(S))
    OBVIOUS
  <2> HIDE DEF Task
  <2> QED BY <2>1, <2>2, <2>3, FieldsOfCopy
<1>5. ASSUME NEW p \in DOMAIN Copies(dags, times)
      PROVE  /\ {"id", "nodes"} \subseteq DOMAIN Copies(dags, times)[p]
             /\ Copies(dags, times)[p].nodes \in Seq(StageNodesFrom(S))
  <2>1. PICK k \in 0..Len(times) - 1, i \in DOMAIN dags :
          Copies(dags, times)[p] = CopyOf(dags[i], k, times[k + 1])
    <3> HIDE DEF Dag
    <3> QED BY <1>2, EntryOfCopy
  <2>2. PICK entry \in Dag : entry = dags[i]
    <3> HIDE DEF Dag
    <3> QED BY ElementOfSeq
  <2>3. /\ "id" \in DOMAIN entry /\ "nodes" \in DOMAIN entry
        /\ entry.nodes \in Seq(StageNodesFrom(S))
    OBVIOUS
  <2> HIDE DEF Dag
  <2> QED BY <2>1, <2>2, <2>3, FieldsOfCopy
<1> HIDE DEF Task, Dag
<1> QED BY <1>3, <1>4, <1>5 DEF HasParts

\* The parts of v are those of w, placed.
PartsPlaced(v, w, mode) ==
  /\ DOMAIN v.tasks = DOMAIN w.tasks /\ DOMAIN v.dags = DOMAIN w.dags
  /\ \A p \in DOMAIN w.tasks :
       /\ v.tasks[p].id = w.tasks[p].id
       /\ v.tasks[p].stages =
            [k \in DOMAIN w.tasks[p].stages |-> PlacedStage(w.tasks[p].stages[k], mode)]
  /\ \A p \in DOMAIN w.dags :
       /\ v.dags[p].id = w.dags[p].id
       /\ v.dags[p].nodes =
            [k \in DOMAIN w.dags[p].nodes |-> PlacedNode(w.dags[p].nodes[k], mode)]

\* What apply_placement_mode changes
LEMMA PartsOfPlaced ==
  ASSUME NEW S, NEW w, HasParts(w, S), NEW mode
  PROVE  PartsPlaced(ApplyPlacementMode(w, mode), w, mode)
<1> DEFINE v == ApplyPlacementMode(w, mode)
<1>1. v.tasks = [p \in DOMAIN w.tasks |->
                   [w.tasks[p] EXCEPT
                      !.stages = [k \in DOMAIN w.tasks[p].stages |->
                                    PlacedStage(w.tasks[p].stages[k], mode)]]]
  BY DEF ApplyPlacementMode
<1>2. v.dags = [p \in DOMAIN w.dags |->
                  [w.dags[p] EXCEPT
                     !.nodes = [k \in DOMAIN w.dags[p].nodes |->
                                  PlacedNode(w.dags[p].nodes[k], mode)]]]
  BY DEF ApplyPlacementMode
<1> HIDE DEF v
<1>3. ASSUME NEW p \in DOMAIN w.tasks
      PROVE  /\ v.tasks[p].id = w.tasks[p].id
             /\ v.tasks[p].stages =
                  [k \in DOMAIN w.tasks[p].stages |-> PlacedStage(w.tasks[p].stages[k], mode)]
  <2> DEFINE stages == [k \in DOMAIN w.tasks[p].stages |->
                          PlacedStage(w.tasks[p].stages[k], mode)]
  <2>1. v.tasks[p] = [w.tasks[p] EXCEPT !.stages = stages]
    BY <1>1
  <2>2. {"id", "stages"} \subseteq DOMAIN w.tasks[p]
    BY DEF HasParts
  <2> HIDE DEF stages
  <2>3. v.tasks[p].id = w.tasks[p].id /\ v.tasks[p].stages = stages
    BY <2>1, <2>2
  <2> QED BY <2>3 DEF stages
<1>4. ASSUME NEW p \in DOMAIN w.dags
      PROVE  /\ v.dags[p].id = w.dags[p].id
             /\ v.dags[p].nodes =
                  [k \in DOMAIN w.dags[p].nodes |-> PlacedNode(w.dags[p].nodes[k], mode)]
  <2> DEFINE nodes == [k \in DOMAIN w.dags[p].nodes |->
                         PlacedNode(w.dags[p].nodes[k], mode)]
  <2>1. v.dags[p] = [w.dags[p] EXCEPT !.nodes = nodes]
    BY <1>2
  <2>2. {"id", "nodes"} \subseteq DOMAIN w.dags[p]
    BY DEF HasParts
  <2> HIDE DEF nodes
  <2>3. v.dags[p].id = w.dags[p].id /\ v.dags[p].nodes = nodes
    BY <2>1, <2>2
  <2> QED BY <2>3 DEF nodes
<1>5. DOMAIN v.tasks = DOMAIN w.tasks /\ DOMAIN v.dags = DOMAIN w.dags
  BY <1>1, <1>2
<1> QED BY <1>3, <1>4, <1>5 DEF PartsPlaced, v

\* apply_placement_mode: the ids stay as they are.
LEMMA PlacedKeepsIds ==
  ASSUME NEW S, NEW w, HasParts(w, S), NEW mode
  PROVE  Ids(ApplyPlacementMode(w, mode)) = Ids(w)
<1> DEFINE v == ApplyPlacementMode(w, mode)
<1>1. /\ DOMAIN v.tasks = DOMAIN w.tasks /\ DOMAIN v.dags = DOMAIN w.dags
      /\ \A p \in DOMAIN w.tasks : v.tasks[p].id = w.tasks[p].id
      /\ \A p \in DOMAIN w.dags :
           v.dags[p].id = w.dags[p].id /\ DOMAIN v.dags[p].nodes = DOMAIN w.dags[p].nodes
  <2>1. PartsPlaced(v, w, mode)
    BY PartsOfPlaced
  <2> HIDE DEF v
  <2> QED BY <2>1 DEF PartsPlaced
<1> HIDE DEF v
<1>2. TaskIds(v) = TaskIds(w)
  BY <1>1 DEF TaskIds
<1>3. NodeIds(v) = NodeIds(w)
  <2> DEFINE Of(u, p) == {<<"node", p, u.dags[p].id + k - 1>> : k \in DOMAIN u.dags[p].nodes}
  <2>1. \A p \in DOMAIN w.dags : Of(v, p) = Of(w, p)
    BY <1>1
  <2>2. NodeIds(v) = UNION {Of(v, p) : p \in DOMAIN v.dags}
    BY DEF NodeIds
  <2>3. NodeIds(w) = UNION {Of(w, p) : p \in DOMAIN w.dags}
    BY DEF NodeIds
  <2> HIDE DEF Of
  <2> QED BY <1>1, <2>1, <2>2, <2>3
<1> QED BY <1>2, <1>3 DEF Ids, v

\* A stage is placed as the mode asks for.
LEMMA StageIsPlaced ==
  ASSUME NEW S, NodeSet(S), NEW stage \in StagesFrom(S), options.mode \in Mode
  PROVE  IsPlaced(stage, PlacedStage(stage, options.mode))
<1> DEFINE mode == options.mode
           side == Wanted(stage, mode)
           placed == PlacedStage(stage, mode)
           moves == side # Absent /\ AllowsPlacement(stage, side)
<1>1. {"profile", "demands"} \subseteq DOMAIN stage /\ stage.demands \in Seq(DemandType)
  BY StageType
<1>2. ChooseStagePlacement(stage, mode) = IF moves THEN side ELSE Absent
  BY DEF ChooseStagePlacement
<1> HIDE DEF mode
<1>3. mode \in Mode
  BY DEF mode
<1>4. CASE moves
  <2>1. ChooseStagePlacement(stage, mode) # Absent
    BY <1>2, <1>4
  <2>2. /\ placed.profile = IF stage.profile = Absent THEN Absent ELSE side
        /\ DOMAIN placed.demands = DOMAIN stage.demands
        /\ \A i \in DOMAIN stage.demands :
             /\ placed.demands[i].units = stage.demands[i].units
             /\ SideOf(placed.demands[i].resource) = side
    <3> HIDE DEF placed, side
    <3>1. stage.demands \in Seq([resource : ResourceClass, units : Int])
      BY <1>1 DEF DemandType
    <3> QED BY <1>1, <1>3, <2>1, <3>1, MovedStagesAreOnOneSide DEF placed, side
  <2> HIDE DEF placed
  <2>3. placed.profile \in {side, Absent} /\ (placed.profile = Absent <=> stage.profile = Absent)
    BY <1>4, <2>2
  <2> QED BY <1>4, <2>2, <2>3 DEF IsPlaced, mode, placed
<1>5. CASE ~moves
  <2>1. placed = stage
    BY <1>2, <1>5 DEF PlacedStage, ApplyStagePlacement
  <2> HIDE DEF placed
  <2> QED BY <1>5, <2>1 DEF IsPlaced, mode, placed
<1> QED BY <1>4, <1>5

------------------------------------------------------------------------------
(* The placement benchmark *)

BeforeLoading == {"started", "configured", "profiled", "parsed"}
BeforeExpanding == BeforeLoading \cup {"loaded", "scheduled"}
AfterPlacing == {"placed", "ready", "running", "ended", "reported", "done"}

\* The document is made of nodes, and the arrivals are a sequence.
BenchmarkType ==
  /\ IsInput(input)
  /\ phase \in BeforeExpanding \cup {"expanded", "refused"} \cup AfterPlacing
  /\ IsNode(root.node)
  /\ IsSeq(arrivals)

placedCopies == ApplyPlacementMode(ExpandWorkload(loaded, arrivals), options.mode)

\* What main has made by then of the document, and of nothing else
WorkloadInv ==
  /\ phase \notin {"started", "refused"} \/ workload # Empty => IsCommand(input.command)
  /\ phase \in BeforeLoading => loaded = Empty
  /\ loaded = Empty \/ (IsWorkload(root.node) /\ loaded = Workload(root.node))
  /\ phase \in BeforeExpanding => workload = Empty
  /\ phase = "expanded" => workload = ExpandWorkload(loaded, arrivals)
  /\ phase \in AfterPlacing => workload = placedCopies
  /\ phase = "refused" => workload = Empty \/ workload = placedCopies

LEMMA BlankType == IsNode(Blank.root.node) /\ IsSeq(Blank.arrivals) /\ Blank.arrivals = <<>>
<1>1. Blank.root.node = MapNode(NoFields) /\ Blank.arrivals = <<>>
  BY DEF Blank, Result
<1>2. <<>> \in Seq({})
  OBVIOUS
<1> QED BY <1>1, <1>2, NoPartsIsNode DEF IsSeq

LEMMA InitBenchmark == Init => BenchmarkType /\ WorkloadInv
<1> SUFFICES ASSUME Init PROVE BenchmarkType /\ WorkloadInv
  OBVIOUS
<1>1. IsInput(input)
  BY BenchmarkAssumption DEF Init
<1>2. loaded = Empty /\ workload = Empty /\ phase = "started"
  BY DEF Init, Blank
<1>3. BenchmarkType
  BY <1>1, <1>2, BlankType DEF Init, BenchmarkType, BeforeExpanding, BeforeLoading
<1>4. WorkloadInv
  BY <1>2 DEF WorkloadInv, BeforeExpanding, BeforeLoading, AfterPlacing
<1> QED BY <1>3, <1>4

\* What parse_document returns is made of nodes.
LEMMA ReadIsNode ==
  ASSUME BenchmarkType, ReadDocument
  PROVE  IsNode(root'.node)
<1>1. CASE root' = root
  BY <1>1 DEF BenchmarkType
<1>2. CASE root' # root
  <2> DEFINE lines == input.files[options.workload].lines
  <2>1. /\ IsDocument(input.files[options.workload])
        /\ root' = ParseDocument(Tokenize(lines))
    BY <1>2 DEF ReadDocument
  <2>2. lines \in Seq(LineType)
    BY <2>1 DEF IsDocument
  <2> HIDE DEF lines
  <2>3. Tokenize(lines) \in Seq(LineType)
    BY <2>2, ScannedTyped DEF Tokenize, ScanState
  <2>4. IsRead("map", 1, root')
    BY <2>1, <2>3, DocumentRead
  <2> QED BY <2>4 DEF IsRead
<1> QED BY <1>1, <1>2

\* load_arrival_fixture and scale_arrivals return a sequence.
LEMMA LoadedIsSeq ==
  ASSUME BenchmarkType, LoadArrivals
  PROVE  IsSeq(arrivals')
<1> DEFINE path == options.arrival
           fixture == input.files[path]
<1>1. CASE UNCHANGED arrivals
  BY <1>1 DEF BenchmarkType
<1>2. CASE ~UNCHANGED arrivals
  <2>1. /\ path \in DOMAIN input.files /\ ~IsDocument(fixture)
        /\ fixture.model \in {"poisson_bursty", "periodic"}
        /\ \E times \in Arrivals(fixture) :
             arrivals' = [i \in DOMAIN times |-> times[i] \div Numeral[options.scale]]
    BY <1>2 DEF LoadArrivals
  <2> HIDE DEF path
  <2>2. fixture \in FixtureType
    BY <2>1 DEF BenchmarkType, IsInput
  <2>3. PICK times \in Arrivals(fixture) :
          arrivals' = [i \in DOMAIN times |-> times[i] \div Numeral[options.scale]]
    BY <2>1
  <2>4. IsSeq(times)
    BY <2>1, <2>2, ArrivalsAreSeq
  <2> HIDE DEF fixture
  <2>5. DOMAIN arrivals' = DOMAIN times /\ arrivals' = [i \in DOMAIN arrivals' |-> arrivals'[i]]
    BY <2>3
  <2> QED BY <2>4, <2>5, MadeIsSeq
<1> QED BY <1>1, <1>2

LEMMA CommandsAreInputs ==
  ASSUME IsInput(input), Again
  PROVE  IsInput(input')
<1>1. PICK command \in Commands : input' = [input EXCEPT !.command = command]
  BY DEF Again
<1>2. DOMAIN input = {"command", "files"}
  BY DEF IsInput
<1>3. DOMAIN input' = {"command", "files"} /\ input'.command = command /\ input'.files = input.files
  BY <1>1, <1>2
<1>4. IsCommandLine(command)
  BY BenchmarkAssumption
<1> QED BY <1>3, <1>4 DEF IsInput

LEMMA TypeStep == BenchmarkType /\ [Next]_vars => BenchmarkType'
<1> SUFFICES ASSUME BenchmarkType, [Next]_vars PROVE BenchmarkType'
  OBVIOUS
<1> DEFINE Phases == BeforeExpanding \cup {"expanded", "refused"} \cup AfterPlacing
<1> USE DEF BenchmarkType
<1>1. phase' \in Phases
  BY DEF Next, ParseArgs, LoadProfile, ReadDocument, LoadWorkload, LoadArrivals, Expand,
         Place, MakeTasks, Submit, RunEnds, RunThrows, WriteSummary, AppendCsv, Again, vars,
         Proceeds, BeforeExpanding, BeforeLoading, AfterPlacing
<1>2. CASE ReadDocument
  <2>1. UNCHANGED <<input, arrivals>>
    BY <1>2 DEF ReadDocument
  <2> QED BY <1>1, <1>2, <2>1, ReadIsNode
<1>3. CASE LoadArrivals
  <2>1. UNCHANGED <<input, root>>
    BY <1>3 DEF LoadArrivals
  <2> QED BY <1>1, <1>3, <2>1, LoadedIsSeq
<1>4. CASE Again
  <2>1. root' = Blank.root /\ arrivals' = Blank.arrivals
    BY <1>4 DEF Again
  <2>2. IsNode(root'.node) /\ IsSeq(arrivals')
    BY <2>1, BlankType
  <2> QED BY <1>1, <1>4, <2>2, CommandsAreInputs
<1>5. CASE UNCHANGED <<input, root, arrivals>>
  BY <1>1, <1>5
<1>6. ReadDocument \/ LoadArrivals \/ Again \/ UNCHANGED <<input, root, arrivals>>
  BY DEF Next, ParseArgs, LoadProfile, LoadWorkload, Expand,
         Place, MakeTasks, Submit, RunEnds, RunThrows, WriteSummary, AppendCsv, vars
<1> QED BY <1>2, <1>3, <1>4, <1>5, <1>6

\* The steps that leave the workload, and what it is made of, as it is
LEMMA WorkloadKept ==
  ASSUME WorkloadInv, UNCHANGED <<input, root, loaded, arrivals, workload>>,
         \/ /\ phase \in BeforeLoading /\ phase' \in BeforeExpanding \cup {"refused"}
            /\ phase' \in {"started", "refused"} \/ IsCommand(input.command)
         \/ phase \in {"loaded", "scheduled"} /\ phase' = "refused"
         \/ phase \in AfterPlacing /\ phase' \in AfterPlacing \cup {"refused"}
         \/ phase' = phase
  PROVE  WorkloadInv'
<1>1. placedCopies' = placedCopies /\ options' = options
  BY DEF placedCopies, options
<1> QED BY <1>1 DEF WorkloadInv, BeforeExpanding, BeforeLoading, AfterPlacing

LEMMA WorkloadStep == BenchmarkType /\ WorkloadInv /\ [Next]_vars => WorkloadInv'
<1> SUFFICES ASSUME BenchmarkType, WorkloadInv, [Next]_vars PROVE WorkloadInv'
  OBVIOUS
<1> DEFINE same == UNCHANGED <<input, root, loaded, arrivals, workload>>
<1>1. CASE ParseArgs
  <2>1. /\ same /\ phase = "started"
        /\ phase' = IF IsCommand(input.command) THEN "configured" ELSE "refused"
    BY <1>1 DEF ParseArgs, Proceeds
  <2> QED BY <2>1, WorkloadKept DEF BeforeExpanding, BeforeLoading
<1>2. CASE LoadProfile
  <2>1. same /\ phase = "configured" /\ phase' \in {"profiled", "refused"}
    BY <1>2 DEF LoadProfile, Proceeds
  <2>2. IsCommand(input.command)
    BY <2>1 DEF WorkloadInv
  <2> QED BY <2>1, <2>2, WorkloadKept DEF BeforeExpanding, BeforeLoading
<1>3. CASE ReadDocument
  <2>1. phase = "profiled" /\ phase' \in {"parsed", "refused"}
    BY <1>3 DEF ReadDocument, Proceeds
  <2>2. UNCHANGED <<input, loaded, workload>>
    BY <1>3 DEF ReadDocument
  <2> QED BY <2>1, <2>2 DEF WorkloadInv, BeforeExpanding, BeforeLoading, AfterPlacing
<1>4. CASE LoadWorkload
  <2>1. phase = "parsed" /\ phase' \in {"loaded", "refused"} /\ UNCHANGED <<input, root, workload>>
    BY <1>4 DEF LoadWorkload
  <2>2. loaded' = loaded \/ (IsWorkload(root.node) /\ loaded' = Workload(root.node))
    BY <1>4 DEF LoadWorkload
  <2>3. IsWorkload(root.node)' = IsWorkload(root.node) /\ Workload(root.node)' = Workload(root.node)
    BY <2>1
  <2> QED BY <2>1, <2>2, <2>3 DEF WorkloadInv, BeforeExpanding, BeforeLoading, AfterPlacing
<1>5. CASE LoadArrivals
  <2>1. phase = "loaded" /\ phase' \in {"scheduled", "refused"}
    BY <1>5 DEF LoadArrivals, Proceeds
  <2>2. UNCHANGED <<input, root, loaded, workload>>
    BY <1>5 DEF LoadArrivals
  <2> QED BY <2>1, <2>2 DEF WorkloadInv, BeforeExpanding, BeforeLoading, AfterPlacing
<1>6. CASE Expand
  <2>1. phase = "scheduled" /\ phase' = "expanded" /\ UNCHANGED <<input, root, loaded, arrivals>>
    BY <1>6 DEF Expand
  <2>2. workload' = ExpandWorkload(loaded, arrivals)'
    BY <1>6, <2>1 DEF Expand
  <2>3. /\ IsCommand(input.command)'
        /\ (loaded = Empty \/ (IsWorkload(root.node) /\ loaded = Workload(root.node)))'
    BY <2>1 DEF WorkloadInv
  <2> QED BY <2>1, <2>2, <2>3 DEF WorkloadInv, BeforeExpanding, BeforeLoading, AfterPlacing
<1>7. CASE Place
  <2>1. phase = "expanded" /\ phase' = "placed" /\ UNCHANGED <<input, root, loaded, arrivals>>
    BY <1>7 DEF Place
  <2>2. workload' = placedCopies
    BY <1>7, <2>1 DEF Place, WorkloadInv, placedCopies
  <2>3. placedCopies' = placedCopies
    BY <2>1 DEF placedCopies, options
  <2>4. /\ IsCommand(input.command)'
        /\ (loaded = Empty \/ (IsWorkload(root.node) /\ loaded = Workload(root.node)))'
    BY <2>1 DEF WorkloadInv
  <2> QED BY <2>1, <2>2, <2>3, <2>4 DEF WorkloadInv, BeforeExpanding, BeforeLoading, AfterPlacing
<1>8. CASE MakeTasks \/ Submit \/ RunEnds \/ RunThrows \/ WriteSummary \/ AppendCsv
  <2>1. same /\ phase \in AfterPlacing /\ phase' \in AfterPlacing \cup {"refused"}
    BY <1>8 DEF MakeTasks, Submit, RunEnds, RunThrows, WriteSummary, AppendCsv, Proceeds,
                AfterPlacing
  <2> QED BY <2>1, WorkloadKept
<1>9. CASE Again
  <2>1. phase' = "started" /\ loaded' = Empty /\ workload' = Empty
    BY <1>9 DEF Again, Blank
  <2> QED BY <2>1 DEF WorkloadInv, BeforeExpanding, BeforeLoading, AfterPlacing
<1>10. CASE UNCHANGED vars
  <2>1. same /\ phase' = phase
    BY <1>10 DEF vars
  <2> QED BY <2>1, WorkloadKept
<1> QED BY <1>1, <1>2, <1>3, <1>4, <1>5, <1>6, <1>7, <1>8, <1>9, <1>10 DEF Next

\* What main has made of the document has the parts that placement looks at.
LEMMA WorkloadHasParts ==
  ASSUME BenchmarkType, WorkloadInv
  PROVE  \E S : /\ NodeSet(S) /\ loaded \in WorkloadsFrom(S)
                /\ HasParts(ExpandWorkload(loaded, arrivals), S)
<1>1. PICK S : NodeSet(S) /\ root.node \in S
  BY DEF BenchmarkType, IsNode
<1>2. loaded \in WorkloadsFrom(S)
  <2>1. CASE loaded = Empty
    <3>1. \A T : <<>> \in Seq(T)
      OBVIOUS
    <3> QED BY <2>1, <3>1 DEF Empty, WorkloadsFrom, WorkloadType
  <2>2. CASE IsWorkload(root.node) /\ loaded = Workload(root.node)
    BY <1>1, <2>2, LoadedType
  <2> QED BY <2>1, <2>2 DEF WorkloadInv
<1>3. HasParts(ExpandWorkload(loaded, arrivals), S)
  BY <1>2, CopiesHaveParts DEF BenchmarkType
<1> QED BY <1>1, <1>2, <1>3

LEMMA IdsOfCopies ==
  ASSUME BenchmarkType, WorkloadInv
  PROVE  CopiesHaveTheirOwnIds
<1> DEFINE copies == ExpandWorkload(loaded, arrivals)
<1> SUFFICES ASSUME workload # Empty, IdsApart(loaded), IdsBelowStride(loaded),
                    Len(arrivals) * IdStride <= IdRange
             PROVE  IdsApart(workload)
  BY DEF CopiesHaveTheirOwnIds
<1>1. PICK S : loaded \in WorkloadsFrom(S) /\ HasParts(copies, S)
  BY WorkloadHasParts
<1>2. PICK Time : arrivals \in Seq(Time)
  BY DEF BenchmarkType, IsSeq
<1>3. IdStride \in Nat \ {0} /\ IdRange \in Nat
  BY BenchmarkAssumption, LoaderAssumption DEF IdRange
<1>4. IdsApart(copies)
  BY <1>1, <1>2, <1>3, CopiesKeepIdsApart DEF WorkloadsFrom
<1>5. Ids(placedCopies) = Ids(copies)
  BY <1>1, PlacedKeepsIds DEF placedCopies
<1>6. IdsApart(placedCopies)
  BY <1>4, <1>5 DEF IdsApart
<1>7. workload = copies \/ workload = placedCopies
  BY DEF BenchmarkType, WorkloadInv
<1> QED BY <1>4, <1>6, <1>7

LEMMA StagesOfCopies ==
  ASSUME BenchmarkType, WorkloadInv
  PROVE  PlacedAsAsked
<1> DEFINE w == ExpandWorkload(loaded, arrivals)
           v == workload
           mode == options.mode
<1> SUFFICES ASSUME phase \notin {"expanded", "refused"}, workload # Empty
             PROVE  LET before == StagesOf(w)
                        after == StagesOf(v)
                    IN /\ \A i \in DOMAIN before.tasks : \A k \in DOMAIN before.tasks[i] :
                            IsPlaced(before.tasks[i][k], after.tasks[i][k])
                       /\ \A i \in DOMAIN before.nodes : \A k \in DOMAIN before.nodes[i] :
                            IsPlaced(before.nodes[i][k], after.nodes[i][k])
  BY DEF PlacedAsAsked
<1>1. PICK S : NodeSet(S) /\ HasParts(w, S)
  BY WorkloadHasParts
<1>2. v = placedCopies
  BY DEF BenchmarkType, WorkloadInv
<1>3. mode \in Mode
  <2>1. IsCommand(input.command) /\ IsCommandLine(input.command)
    BY DEF WorkloadInv, BenchmarkType, IsInput
  <2> QED BY <2>1, ModeOfCommand DEF options
<1>4. PartsPlaced(v, w, mode)
  BY <1>1, <1>2, PartsOfPlaced DEF placedCopies
<1> HIDE DEF w, v, mode
<1>5. \A stage \in StagesFrom(S) : IsPlaced(stage, PlacedStage(stage, mode))
  BY <1>1, <1>3, StageIsPlaced DEF mode
<1>6. ASSUME NEW i \in DOMAIN w.tasks, NEW k \in DOMAIN w.tasks[i].stages
      PROVE  IsPlaced(w.tasks[i].stages[k], v.tasks[i].stages[k])
  <2>1. w.tasks[i].stages[k] \in StagesFrom(S)
    BY <1>1, ElementOfSeq DEF HasParts
  <2>2. v.tasks[i].stages =
          [q \in DOMAIN w.tasks[i].stages |-> PlacedStage(w.tasks[i].stages[q], mode)]
    BY <1>4 DEF PartsPlaced
  <2>3. IsPlaced(w.tasks[i].stages[k], PlacedStage(w.tasks[i].stages[k], mode))
    BY <1>5, <2>1, Zenon
  <2> QED BY <2>2, <2>3, Zenon
<1>7. ASSUME NEW i \in DOMAIN w.dags, NEW k \in DOMAIN w.dags[i].nodes
      PROVE  IsPlaced(w.dags[i].nodes[k].stage, v.dags[i].nodes[k].stage)
  <2>1. w.dags[i].nodes[k] \in StageNodesFrom(S)
    BY <1>1, ElementOfSeq DEF HasParts
  <2>2. PICK node \in S : IsStageNode(node) /\ w.dags[i].nodes[k] = StageNode(node)
    BY <2>1 DEF StageNodesFrom
  <2>3. "stage" \in DOMAIN StageNode(node) /\ StageNode(node).stage = Stage(Field(node, "stage"))
    BY DEF StageNode
  <2>4. Field(node, "stage") \in S /\ IsStage(Field(node, "stage"))
    BY <1>1, <2>2, FieldsInSet DEF IsStageNode
  <2>5. StageNode(node).stage \in StagesFrom(S)
    BY <2>3, <2>4 DEF StagesFrom
  <2>6. v.dags[i].nodes[k] = PlacedNode(StageNode(node), mode)
    <3>1. v.dags[i].nodes = [q \in DOMAIN w.dags[i].nodes |-> PlacedNode(w.dags[i].nodes[q], mode)]
      BY <1>4 DEF PartsPlaced
    <3> QED BY <2>2, <3>1, Zenon
  <2>7. v.dags[i].nodes[k].stage = PlacedStage(StageNode(node).stage, mode)
    <3>1. PICK stageNode : stageNode = StageNode(node)
      OBVIOUS
    <3>2. "stage" \in DOMAIN stageNode
      BY <2>3, <3>1
    <3>3. PlacedNode(stageNode, mode).stage = PlacedStage(stageNode.stage, mode)
      BY <3>2 DEF PlacedNode
    <3> QED BY <2>6, <3>1, <3>3
  <2> QED BY <1>5, <2>2, <2>5, <2>7
<1>8. /\ StagesOf(w).tasks = [i \in DOMAIN w.tasks |-> w.tasks[i].stages]
      /\ StagesOf(w).nodes =
           [i \in DOMAIN w.dags |-> [k \in DOMAIN w.dags[i].nodes |-> w.dags[i].nodes[k].stage]]
      /\ StagesOf(v).tasks = [i \in DOMAIN v.tasks |-> v.tasks[i].stages]
      /\ StagesOf(v).nodes =
           [i \in DOMAIN v.dags |-> [k \in DOMAIN v.dags[i].nodes |-> v.dags[i].nodes[k].stage]]
  BY DEF StagesOf
<1>9. /\ DOMAIN v.tasks = DOMAIN w.tasks /\ DOMAIN v.dags = DOMAIN w.dags
      /\ \A i \in DOMAIN w.dags : DOMAIN v.dags[i].nodes = DOMAIN w.dags[i].nodes
  BY <1>4 DEF PartsPlaced
<1> DEFINE before == StagesOf(w)
           after == StagesOf(v)
<1>10. ASSUME NEW i \in DOMAIN before.tasks, NEW k \in DOMAIN before.tasks[i]
       PROVE  IsPlaced(before.tasks[i][k], after.tasks[i][k])
  <2> HIDE DEF before, after
  <2>1. i \in DOMAIN w.tasks /\ k \in DOMAIN w.tasks[i].stages
    BY <1>8 DEF before
  <2>2. before.tasks[i][k] = w.tasks[i].stages[k] /\ after.tasks[i][k] = v.tasks[i].stages[k]
    BY <1>8, <1>9, <2>1 DEF before, after
  <2> QED BY <1>6, <2>1, <2>2
<1>11. ASSUME NEW i \in DOMAIN before.nodes, NEW k \in DOMAIN before.nodes[i]
       PROVE  IsPlaced(before.nodes[i][k], after.nodes[i][k])
  <2> HIDE DEF before, after
  <2>1. i \in DOMAIN w.dags /\ k \in DOMAIN w.dags[i].nodes
    BY <1>8 DEF before
  <2>2. /\ before.nodes[i][k] = w.dags[i].nodes[k].stage
        /\ after.nodes[i][k] = v.dags[i].nodes[k].stage
    BY <1>8, <1>9, <2>1 DEF before, after
  <2> QED BY <1>7, <2>1, <2>2
<1> QED BY <1>10, <1>11

------------------------------------------------------------------------------
(* write_summary and append_csv *)

\* The lines are a sequence, as are the runs, and a run that has yet to write its
\* line has written its summary.
RowsInv ==
  /\ IsSeq(csv) /\ IsSeq(ended)
  /\ RowsOfTheRuns
  /\ phase = "reported" => summary = Row(options, arrivals)

LEMMA AppendedSeq ==
  ASSUME NEW v, IsSeq(v), NEW x
  PROVE  /\ IsSeq(v \o <<x>>) /\ Len(v \o <<x>>) = Len(v) + 1 /\ Len(v) \in Nat
         /\ (v \o <<x>>)[Len(v) + 1] = x /\ \A i \in 1..Len(v) : (v \o <<x>>)[i] = v[i]
         /\ v \o <<x>> # <<>> /\ DOMAIN v = 1..Len(v)
         /\ Append(v, x) = v \o <<x>>
<1>1. PICK T : v \in Seq(T)
  BY DEF IsSeq
<1> DEFINE U == T \cup {x}
<1>2. v \in Seq(U) /\ x \in U
  BY <1>1
<1> HIDE DEF U
<1>3. v \o <<x>> \in Seq(U)
  BY <1>2
<1>4. IsSeq(v \o <<x>>)
  BY <1>3 DEF IsSeq
<1>5. /\ Len(v \o <<x>>) = Len(v) + 1 /\ Len(v) \in Nat /\ DOMAIN v = 1..Len(v)
      /\ (v \o <<x>>)[Len(v) + 1] = x /\ \A i \in 1..Len(v) : (v \o <<x>>)[i] = v[i]
      /\ v \o <<x>> # <<>>
  BY <1>2
<1>6. Append(v, x) = v \o <<x>>
  BY <1>2
<1> QED BY <1>4, <1>5, <1>6

LEMMA SingleSeq ==
  ASSUME NEW x
  PROVE  IsSeq(<<x>>) /\ Len(<<x>>) = 1 /\ <<x>>[1] = x
<1>1. <<x>> \in Seq({x})
  OBVIOUS
<1> QED BY <1>1 DEF IsSeq

LEMMA InitRows == Init => RowsInv
<1> SUFFICES ASSUME Init PROVE RowsInv
  OBVIOUS
<1>1. phase = "started" /\ csv = <<>> /\ ended = <<>>
  BY DEF Init
<1>2. IsSeq(<<>>)
  <2>1. <<>> \in Seq({})
    OBVIOUS
  <2> QED BY <2>1 DEF IsSeq
<1>3. RowsOfTheRuns
  BY <1>1 DEF RowsOfTheRuns
<1> QED BY <1>1, <1>2, <1>3 DEF RowsInv

\* The line of a run has its results, whatever columns the first run named.
LEMMA RowIsLineOf ==
  ASSUME NEW times, NEW run, run.options = options, run.count = Len(times),
         NEW cells, KeysOf(run) = cells
  PROVE  \A i \in DOMAIN cells :
           \E pair \in ToSet(run.options.metadata) :
             cells[i] = pair[1] /\ Row(options, times).cells[i] = pair[2]
<1> DEFINE metadata == options.metadata
<1> SUFFICES ASSUME NEW i \in DOMAIN cells
             PROVE  \E pair \in ToSet(metadata) :
                      cells[i] = pair[1] /\ Row(options, times).cells[i] = pair[2]
  OBVIOUS
<1>1. cells = [j \in DOMAIN metadata |-> metadata[j][1]]
  BY DEF KeysOf
<1>2. Row(options, times).cells = [j \in DOMAIN metadata |-> metadata[j][2]]
  BY DEF Row
<1> HIDE DEF metadata
<1>3. i \in DOMAIN metadata /\ metadata[i] \in ToSet(metadata)
  BY <1>1 DEF ToSet
<1> QED BY <1>1, <1>2, <1>3

\* append_csv adds the line of the run, and names the columns if it is the first.
LEMMA AppendRows ==
  ASSUME RowsInv, AppendCsv, phase' = "done"
  PROVE  RowsInv'
<1> DEFINE run == [options |-> options, count |-> Len(arrivals)]
           row == Row(options, arrivals)
           lines == IF csv = <<>> THEN <<Header(options)>> ELSE csv
<1>1. /\ phase = "reported" /\ UNCHANGED <<input, arrivals, summary>>
      /\ csv' = lines \o <<row>> /\ ended' = Append(ended, run)
  BY DEF AppendCsv, Appended
<1>2. run.options = options /\ run.count = Len(arrivals) /\ options' = options
  BY <1>1 DEF options
<1>3. row.kind = "row" /\ row.mode = options.mode /\ row.scale = options.scale
      /\ row.count = Len(arrivals) /\ summary = row
  BY <1>1 DEF Row, RowsInv
<1>4. Header(options).kind = "header" /\ Header(options).cells = KeysOf(run)
  BY DEF Header, KeysOf
<1> HIDE DEF run, row
<1>5. /\ IsSeq(lines) /\ Len(lines) = Len(ended) + 1 /\ lines[1].kind = "header"
      /\ ended # <<>> => lines = csv
      /\ ended = <<>> => lines[1].cells = KeysOf(run)
      /\ Len(lines) \in Nat /\ Len(ended) \in Nat
  <2>1. CASE csv = <<>>
    <3>1. lines = <<Header(options)>> /\ ended = <<>>
      BY <2>1 DEF RowsInv, RowsOfTheRuns
    <3>2. Len(ended) = 0
      BY <3>1
    <3> QED BY <1>4, <3>1, <3>2, SingleSeq
  <2>2. CASE csv # <<>>
    <3>1. lines = csv /\ ended # <<>> /\ Len(csv) = Len(ended) + 1 /\ csv[1].kind = "header"
      BY <2>2 DEF RowsInv, RowsOfTheRuns
    <3>2. Len(csv) \in Nat /\ Len(ended) \in Nat
      BY AppendedSeq DEF RowsInv
    <3> HIDE DEF lines
    <3> QED BY <3>1, <3>2 DEF RowsInv
  <2> QED BY <2>1, <2>2
<1> HIDE DEF lines
<1>6. /\ IsSeq(csv') /\ Len(csv') = Len(lines) + 1 /\ csv'[Len(lines) + 1] = row
      /\ \A i \in 1..Len(lines) : csv'[i] = lines[i]
      /\ csv' # <<>>
  <2>1. IsSeq(lines) /\ csv' = lines \o <<row>>
    BY <1>1, <1>5
  <2> QED BY <2>1, AppendedSeq
<1>7. /\ IsSeq(ended') /\ Len(ended') = Len(ended) + 1 /\ ended'[Len(ended) + 1] = run
      /\ \A i \in 1..Len(ended) : ended'[i] = ended[i]
      /\ ended' # <<>> /\ DOMAIN ended' = 1..(Len(ended) + 1) /\ DOMAIN ended = 1..Len(ended)
  <2>1. ended' = ended \o <<run>> /\ IsSeq(ended)
    BY <1>1, AppendedSeq DEF RowsInv
  <2>2. /\ IsSeq(ended') /\ Len(ended') = Len(ended) + 1 /\ ended'[Len(ended) + 1] = run
        /\ \A i \in 1..Len(ended) : ended'[i] = ended[i]
        /\ ended' # <<>> /\ DOMAIN ended = 1..Len(ended)
    BY <2>1, AppendedSeq
  <2>3. DOMAIN ended' = 1..Len(ended')
    BY <2>2, AppendedSeq
  <2> QED BY <2>2, <2>3
<1>8. csv'[1] = lines[1]
  BY <1>5, <1>6
<1>9. csv'[1].kind = "header" /\ csv'[1].cells = KeysOf(ended'[1])
  <2>1. CASE ended = <<>>
    <3>1. Len(ended) = 0
      BY <2>1
    <3> QED BY <1>5, <1>7, <1>8, <2>1, <3>1
  <2>2. CASE ended # <<>>
    <3>1. csv # <<>> /\ csv[1].cells = KeysOf(ended[1])
      BY <2>2 DEF RowsInv, RowsOfTheRuns
    <3>2. 1 \in 1..Len(ended)
      <4>1. Len(csv) = Len(ended) + 1 /\ Len(ended) # 0
        <5>1. PICK T : ended \in Seq(T)
          BY DEF RowsInv, IsSeq
        <5> QED BY <2>2, <3>1, <5>1 DEF RowsInv, RowsOfTheRuns
      <4> QED BY <1>5, <4>1
    <3>3. ended'[1] = ended[1] /\ lines = csv
      BY <1>5, <1>7, <2>2, <3>2
    <3> QED BY <1>5, <1>8, <3>1, <3>3
  <2> QED BY <2>1, <2>2
<1>10. ASSUME NEW i \in DOMAIN ended'
       PROVE  IsLineOf(csv[i + 1], ended[i])'
  <2>1. CASE i = Len(ended) + 1
    <3>1. csv'[i + 1] = row /\ ended'[i] = run
      BY <1>5, <1>6, <1>7, <2>1
    <3>2. KeysOf(run) = csv'[1].cells =>
            \A j \in DOMAIN csv'[1].cells :
              \E pair \in ToSet(run.options.metadata) :
                csv'[1].cells[j] = pair[1] /\ row.cells[j] = pair[2]
      BY <1>2, RowIsLineOf DEF row
    <3> QED BY <1>2, <1>3, <3>1, <3>2 DEF IsLineOf
  <2>2. CASE i # Len(ended) + 1
    <3>1. i \in 1..Len(ended) /\ i + 1 \in 1..Len(lines) /\ i \in DOMAIN ended
      BY <1>5, <1>7, <2>2
    <3>2. ended # <<>> /\ lines = csv /\ csv # <<>>
      BY <1>5, <3>1 DEF RowsInv, RowsOfTheRuns
    <3>3. csv'[i + 1] = csv[i + 1] /\ ended'[i] = ended[i] /\ csv'[1] = csv[1]
      BY <1>6, <1>7, <1>8, <3>1, <3>2
    <3>4. IsLineOf(csv[i + 1], ended[i])
      BY <3>1, <3>2 DEF RowsInv, RowsOfTheRuns
    <3> QED BY <3>3, <3>4 DEF IsLineOf
  <2> QED BY <2>1, <2>2
<1>11. summary' = Last(csv')
  BY <1>1, <1>3, <1>6 DEF Last
<1>12. RowsOfTheRuns'
  BY <1>5, <1>6, <1>7, <1>9, <1>10, <1>11 DEF RowsOfTheRuns
<1> QED BY <1>6, <1>7, <1>12 DEF RowsInv

LEMMA RowsStep == RowsInv /\ [Next]_vars => RowsInv'
<1> SUFFICES ASSUME RowsInv, [Next]_vars PROVE RowsInv'
  OBVIOUS
<1>1. CASE AppendCsv /\ phase' = "done"
  BY <1>1, AppendRows
<1>2. CASE /\ UNCHANGED <<csv, ended>>
           /\ phase' = "done" => options'.csv = None \/ UNCHANGED <<phase, summary, input>>
           /\ phase' = "reported" => summary' = Row(options, arrivals)'
  <2>1. phase' = "done" /\ options'.csv # None => summary' = Last(csv')
    <3>1. UNCHANGED <<phase, summary, input>> => options' = options
      BY DEF options
    <3> QED BY <1>2, <3>1 DEF RowsInv, RowsOfTheRuns
  <2>2. \A line, run : IsLineOf(line, run)' = IsLineOf(line, run)
    BY <1>2 DEF IsLineOf
  <2>3. RowsOfTheRuns'
    BY <1>2, <2>1, <2>2 DEF RowsInv, RowsOfTheRuns
  <2> QED BY <1>2, <2>3 DEF RowsInv
<1>3. CASE WriteSummary
  <2>1. UNCHANGED <<input, arrivals, csv, ended>> /\ options' = options
    BY <1>3 DEF WriteSummary, options
  <2>2. /\ phase' = "done" => options.csv = None
        /\ phase' = "reported" => summary' = Row(options, arrivals)
    BY <1>3 DEF WriteSummary
  <2> QED BY <1>2, <2>1, <2>2
<1>4. CASE ~(AppendCsv /\ phase' = "done") /\ ~WriteSummary
  <2>1. /\ UNCHANGED <<csv, ended>>
        /\ phase' = "done" => UNCHANGED <<phase, summary, input>>
        /\ phase' = "reported" => UNCHANGED <<phase, summary, input, arrivals>>
    BY <1>4 DEF Next, ParseArgs, LoadProfile, ReadDocument, LoadWorkload, LoadArrivals, Expand,
         Place, MakeTasks, Submit, RunEnds, RunThrows, AppendCsv, Again, vars, written, Proceeds
  <2>2. phase' = "reported" => summary' = Row(options, arrivals)'
    BY <2>1 DEF RowsInv, options
  <2> QED BY <1>2, <2>1, <2>2
<1> QED BY <1>1, <1>3, <1>4

------------------------------------------------------------------------------
(* What main reads and loads *)

\* What main reads from lines is what their indentation makes of those that count, up to
\* the first without a place.
LEMMA LinesMean ==
  ASSUME NEW lines \in Seq(LineType), Tokenizable(lines)
  PROVE  LET content == Content(lines)
             misfit == FirstMisfit(content)
         IN /\ content \in Seq(Token) /\ Tokenize(lines) = content
            /\ ParseDocument(content) = Result(Meaning(SubSeq(content, 1, misfit - 1)), misfit)
<1>1. Tokenize(lines) \in Seq(Token)
  BY ScannedTyped DEF Tokenizable, Tokenize, ScanState
<1>2. Tokenize(lines) = Content(lines)
  BY TokensAreTheContent
<1> DEFINE content == Content(lines)
<1>3. content \in Seq(Token)
  BY <1>1, <1>2
<1> HIDE DEF content
<1>4. ParseDocument(content) =
        Result(Meaning(SubSeq(content, 1, FirstMisfit(content) - 1)), FirstMisfit(content))
  BY <1>3, DocumentsMean
<1> QED BY <1>2, <1>3, <1>4 DEF content

\* The lines of a faithful document are read to the last, and mean its node.
LEMMA FaithfulIsRead ==
  ASSUME NEW d, d.lines \in Seq(LineType), IsFaithful(d)
  PROVE  LET content == Content(d.lines) IN
         /\ Tokenizable(d.lines) /\ Tokenize(d.lines) = content
         /\ content \in Seq(Token)
         /\ ParseDocument(content) = Result(d.node, Len(content) + 1)
<1> DEFINE lines == d.lines
           content == Content(lines)
           m == FirstMisfit(content)
<1>1. Tokenizable(lines)
  BY TokensAreTheContent DEF IsFaithful
<1>2. /\ content \in Seq(Token) /\ Tokenize(lines) = content
      /\ ParseDocument(content) = Result(Meaning(SubSeq(content, 1, m - 1)), m)
  BY <1>1, LinesMean
<1>3. \A i \in DOMAIN content : HasPlace(content, i)
  BY DEF IsFaithful
<1>4. d.node = Meaning(content)
  BY DEF IsFaithful
<1> HIDE DEF content, lines
<1>5. m = Len(content) + 1
  <2>1. m \in 1..(Len(content) + 1) /\ (m <= Len(content) => ~HasPlace(content, m))
    BY <1>2, MisfitIs
  <2>2. Len(content) \in Nat /\ DOMAIN content = 1..Len(content)
    BY <1>2
  <2> HIDE DEF m
  <2> QED BY <1>3, <2>1, <2>2
<1>6. SubSeq(content, 1, Len(content)) = content
  <2>1. \A T, s : s \in Seq(T) => SubSeq(s, 1, Len(s)) = s
    OBVIOUS
  <2> QED BY <1>2, <2>1
<1>7. m - 1 = Len(content)
  BY <1>2, <1>5
<1> QED BY <1>1, <1>2, <1>4, <1>5, <1>6, <1>7 DEF content, lines

LEMMA MisfitStep == ReadAsIndented /\ [Next]_vars => ReadAsIndented'
<1> DEFINE ReadOf(lines) ==
             LET content == Content(lines)
                 misfit == FirstMisfit(content)
             IN Result(Meaning(SubSeq(content, 1, misfit - 1)), misfit)
<1>1. ReadAsIndented <=> (phase = "parsed" => root = ReadOf(WorkloadFile.lines))
  BY DEF ReadAsIndented, IsParsedNow
<1>2. ReadAsIndented' <=> (phase' = "parsed" => root' = ReadOf((WorkloadFile.lines)'))
  BY DEF ReadAsIndented, IsParsedNow
<1> SUFFICES ASSUME ReadAsIndented, [Next]_vars, phase' = "parsed"
             PROVE  root' = ReadOf((WorkloadFile.lines)')
  BY <1>2
<1>3. CASE ReadDocument
  <2> DEFINE lines == input.files[options.workload].lines
  <2>1. /\ UNCHANGED input
        /\ IsDocument(input.files[options.workload]) /\ Tokenizable(lines)
        /\ root' = ParseDocument(Tokenize(lines))
    BY <1>3 DEF ReadDocument, Proceeds
  <2>2. (WorkloadFile.lines)' = lines
    BY <2>1 DEF WorkloadFile, options
  <2>3. lines \in Seq(LineType)
    BY <2>1 DEF IsDocument
  <2> HIDE DEF lines
  <2>4. Tokenize(lines) = Content(lines) /\ ParseDocument(Content(lines)) = ReadOf(lines)
    BY <2>1, <2>3, LinesMean
  <2> QED BY <2>1, <2>2, <2>4
<1>4. CASE UNCHANGED vars
  <2>1. (WorkloadFile.lines)' = WorkloadFile.lines /\ root' = root /\ phase' = phase
    BY <1>4 DEF vars, WorkloadFile, options
  <2> QED BY <1>1, <2>1
<1>5. CASE Next /\ ~ReadDocument
  BY <1>5 DEF Next, ParseArgs, LoadProfile, LoadWorkload, LoadArrivals, Expand, Place, MakeTasks,
       Submit, RunEnds, RunThrows, WriteSummary, AppendCsv, Again, Proceeds
<1> QED BY <1>3, <1>4, <1>5

------------------------------------------------------------------------------
(* The files that main was given *)

\* What load_profile_from_file returns for the file that is asked for, whether
\* load_workload_from_file finds tokens in the one that is asked for, and what its
\* parse_document makes of them
profileAsked == ProfileAt(options.profile)
workloadHasTokens ==
  LET path == options.workload IN
  /\ path \in DOMAIN input.files /\ IsDocument(input.files[path])
  /\ Tokenizable(input.files[path].lines) /\ Tokenize(input.files[path].lines) # <<>>
workloadRead == ParseDocument(Tokenize(WorkloadFile.lines))

FilesGiven == \E given \in Inputs : input.files = given.files

\* The profile is that of the file, and is missing only where it cannot be loaded.
ProfileInv ==
  /\ phase \in {"started", "configured"} => profile = None
  /\ phase \notin {"started", "configured", "refused"} => profile # None
  /\ profile # None => profile = profileAsked
  /\ phase = "refused" /\ profile = None /\ IsCommand(input.command) => profileAsked = None

\* So is the workload.
LoadedInv ==
  /\ phase = "parsed" => workloadHasTokens /\ root = workloadRead
  /\ phase \in BeforeLoading => loaded = Empty
  /\ phase \notin BeforeLoading \cup {"refused"} => loaded # Empty
  /\ loaded # Empty =>
       workloadHasTokens /\ IsWorkload(workloadRead.node) /\ loaded = Workload(workloadRead.node)
  /\ phase = "refused" /\ profile # None /\ loaded = Empty =>
       ~workloadHasTokens \/ ~IsWorkload(workloadRead.node)

FilesInv == FilesGiven /\ ProfileInv /\ LoadedInv

LEMMA InitFiles == Init => FilesInv
<1> SUFFICES ASSUME Init PROVE FilesInv
  OBVIOUS
<1>1. input \in Inputs /\ phase = "started" /\ profile = None /\ loaded = Empty
  BY DEF Init, Blank
<1> QED BY <1>1 DEF FilesInv, FilesGiven, ProfileInv, LoadedInv, BeforeLoading

LEMMA AskedKept ==
  ASSUME UNCHANGED input
  PROVE  /\ profileAsked' = profileAsked /\ workloadRead' = workloadRead
         /\ workloadHasTokens' = workloadHasTokens
         /\ IsCommand(input.command)' = IsCommand(input.command)
         /\ FilesGiven' = FilesGiven
<1>1. options' = options
  BY DEF options
<1> QED BY <1>1 DEF profileAsked, ProfileAt, workloadRead, workloadHasTokens, WorkloadFile,
                    FilesGiven

\* The steps after the workload is loaded, and those that change nothing of it
LEMMA FilesKept ==
  ASSUME FilesInv, UNCHANGED <<input, profile, loaded>>,
         \/ /\ phase \notin BeforeLoading \cup {"refused"}
            /\ phase' \notin BeforeLoading
         \/ phase' = phase /\ root' = root
  PROVE  FilesInv'
<1>1. /\ profileAsked' = profileAsked /\ workloadRead' = workloadRead
      /\ workloadHasTokens' = workloadHasTokens
      /\ IsCommand(input.command)' = IsCommand(input.command)
      /\ FilesGiven' = FilesGiven
  BY AskedKept
<1>2. ProfileInv'
  BY <1>1 DEF FilesInv, ProfileInv, BeforeLoading
<1>3. LoadedInv'
  BY <1>1 DEF FilesInv, LoadedInv, BeforeLoading
<1> QED BY <1>1, <1>2, <1>3 DEF FilesInv

LEMMA FilesAgain ==
  ASSUME IsInput(input), FilesGiven, Again
  PROVE  FilesInv'
<1>1. PICK command \in Commands : input' = [input EXCEPT !.command = command]
  BY DEF Again
<1>2. DOMAIN input = {"command", "files"}
  BY DEF IsInput
<1>3. input'.files = input.files
  BY <1>1, <1>2
<1>4. phase' = "started" /\ profile' = None /\ loaded' = Empty
  BY DEF Again, Blank
<1> QED BY <1>3, <1>4 DEF FilesInv, FilesGiven, ProfileInv, LoadedInv, BeforeLoading

LEMMA FilesOfRun ==
  ASSUME BenchmarkType, FilesInv, ParseArgs \/ LoadProfile \/ ReadDocument \/ LoadWorkload
  PROVE  FilesInv'
<1>1. UNCHANGED input
  BY DEF ParseArgs, LoadProfile, ReadDocument, LoadWorkload
<1>2. /\ profileAsked' = profileAsked /\ workloadRead' = workloadRead
      /\ workloadHasTokens' = workloadHasTokens
      /\ IsCommand(input.command)' = IsCommand(input.command)
      /\ FilesGiven' = FilesGiven
  BY <1>1, AskedKept
<1> USE DEF FilesInv
<1>3. CASE ParseArgs
  <2>1. /\ UNCHANGED <<profile, loaded>> /\ phase = "started"
        /\ phase' = IF IsCommand(input.command) THEN "configured" ELSE "refused"
    BY <1>3 DEF ParseArgs, Proceeds
  <2> QED BY <1>2, <2>1 DEF ProfileInv, LoadedInv, BeforeLoading
<1>4. CASE LoadProfile
  <2>1. /\ UNCHANGED loaded /\ phase = "configured" /\ profile' = profileAsked
        /\ phase' = IF profile' # None THEN "profiled" ELSE "refused"
    BY <1>4 DEF LoadProfile, Proceeds, profileAsked
  <2> QED BY <1>2, <2>1 DEF ProfileInv, LoadedInv, BeforeLoading
<1>5. CASE ReadDocument
  <2>1. /\ UNCHANGED <<profile, loaded>> /\ phase = "profiled"
        /\ phase' = IF workloadHasTokens THEN "parsed" ELSE "refused"
        /\ workloadHasTokens => root' = workloadRead
    BY <1>5 DEF ReadDocument, Proceeds, workloadHasTokens, workloadRead, WorkloadFile
  <2> QED BY <1>2, <2>1 DEF ProfileInv, LoadedInv, BeforeLoading
<1>6. CASE LoadWorkload
  <2>1. UNCHANGED profile /\ phase = "parsed"
    BY <1>6 DEF LoadWorkload
  <2>2. root = workloadRead /\ workloadHasTokens /\ loaded = Empty
    BY <2>1 DEF LoadedInv, BeforeLoading
  <2>3. \/ IsWorkload(root.node) /\ phase' = "loaded" /\ loaded' = Workload(root.node)
        \/ ~IsWorkload(root.node) /\ phase' = "refused" /\ UNCHANGED loaded
    BY <1>6 DEF LoadWorkload
  <2>4. IsWorkload(root.node) => Workload(root.node) # Empty
    BY LoadedType DEF BenchmarkType, IsNode
  <2>5. ProfileInv'
    BY <1>2, <2>1, <2>3 DEF ProfileInv
  <2>6. LoadedInv'
    BY <1>2, <2>1, <2>2, <2>3, <2>4 DEF LoadedInv, BeforeLoading
  <2> QED BY <1>2, <2>5, <2>6
<1> QED BY <1>3, <1>4, <1>5, <1>6

LEMMA FilesStepped == BenchmarkType /\ FilesInv /\ [Next]_vars => FilesInv'
<1> SUFFICES ASSUME BenchmarkType, FilesInv, [Next]_vars PROVE FilesInv'
  OBVIOUS
<1>1. CASE ParseArgs \/ LoadProfile \/ ReadDocument \/ LoadWorkload
  BY <1>1, FilesOfRun
<1>2. CASE Again
  BY <1>2, FilesAgain DEF BenchmarkType, FilesInv
<1>3. CASE UNCHANGED vars
  BY <1>3, FilesKept DEF vars
<1>4. CASE LoadArrivals \/ Expand \/ Place \/ MakeTasks \/ Submit \/ RunEnds \/ RunThrows
             \/ WriteSummary \/ AppendCsv
  <2>1. UNCHANGED <<input, profile, loaded>>
    BY <1>4 DEF LoadArrivals, Expand, Place, MakeTasks, Submit, RunEnds, RunThrows,
                WriteSummary, AppendCsv
  <2>2. phase \notin BeforeLoading \cup {"refused"} /\ phase' \notin BeforeLoading
    BY <1>4 DEF LoadArrivals, Expand, Place, MakeTasks, Submit, RunEnds, RunThrows,
                WriteSummary, AppendCsv, Proceeds, BeforeLoading
  <2> QED BY <2>1, <2>2, FilesKept
<1> QED BY <1>1, <1>2, <1>3, <1>4 DEF Next

------------------------------------------------------------------------------
(* What is written is what is loaded *)

\* A document that says nothing is no workload.
LEMMA NothingIsNoWorkload == ~IsWorkload(Meaning(<<>>))
<1>1. \A value : ~Has(MapOf(<<>>, value, {}), "tasks")
  BY DEF MapOf, MapNode, Has
<1>2. \E value : Meaning(<<>>) = MapOf(<<>>, value, {})
  <2>1. DOMAIN <<>> = {} /\ {i \in {} : <<>>[i].indent = 0} = {}
    OBVIOUS
  <2> QED BY <2>1 DEF Meaning
<1> QED BY <1>1, <1>2 DEF IsWorkload, HasKind

\* Its lines mean its node, and it is to be loaded as the loaders load that node; None
\* is no profile.
IsDescribed(d) ==
  LET IsTaken == \A i \in DOMAIN Content(d.lines) : ~IndentedTooFar(Content(d.lines), i) IN
  /\ IsFaithful(d)
  /\ d.workload = IF IsWorkload(d.node) THEN Workload(d.node) ELSE None
  /\ d.platform = IF IsTaken /\ IsProfileDocument(d.node)
                  THEN Platform(LoadedProfile(d.node)) ELSE None
  /\ IsProfileDocument(d.node) => LoadedProfile(d.node) # None

\* Every file that main is given and that was written from a node is described as its
\* lines and the loaders have it.
FilesDescribed ==
  \A given \in Inputs : \A path \in DOMAIN given.files :
    LET d == given.files[path] IN IsDocument(d) /\ d.node # None => IsDescribed(d)

LEMMA WrittenIsDescribed ==
  ASSUME FilesDescribed, FilesGiven, NEW path, IsWritten(path)
  PROVE  LET d == input.files[path]
             content == Content(d.lines)
         IN /\ path \in DOMAIN input.files /\ IsDocument(d) /\ IsDescribed(d)
            /\ Tokenizable(d.lines) /\ Tokenize(d.lines) = content /\ content \in Seq(Token)
            /\ ParseDocument(content) = Result(d.node, Len(content) + 1)
<1> DEFINE d == input.files[path]
<1>1. path \in DOMAIN input.files /\ IsDocument(d) /\ d.node # None
  BY DEF IsWritten
<1>2. PICK given \in Inputs : input.files = given.files
  BY DEF FilesGiven
<1>3. IsDescribed(d)
  BY <1>1, <1>2 DEF FilesDescribed
<1> HIDE DEF d
<1>4. d.lines \in Seq(LineType) /\ IsFaithful(d)
  BY <1>1, <1>3 DEF IsDocument, IsDescribed
<1> QED BY <1>1, <1>3, <1>4, FaithfulIsRead DEF d

LEMMA PlatformIsAsWritten ==
  ASSUME FilesDescribed, FilesInv
  PROVE  PlatformAsWritten
<1> SUFFICES ASSUME IsCommand(input.command), IsWritten(options.profile)
             PROVE  /\ profile # None => Platform(profile) = ProfileFile.platform
                    /\ phase = "refused" /\ profile = None => ProfileFile.platform = None
  BY DEF PlatformAsWritten, WasProfiled
<1> DEFINE path == options.profile
           d == ProfileFile
           content == Content(d.lines)
           IsTaken == \A i \in DOMAIN content : ~IndentedTooFar(content, i)
<1>1. /\ path \in DOMAIN input.files /\ IsDocument(d) /\ IsDescribed(d)
      /\ Tokenizable(d.lines) /\ Tokenize(d.lines) = content /\ content \in Seq(Token)
      /\ ParseDocument(content) = Result(d.node, Len(content) + 1)
  BY WrittenIsDescribed DEF FilesInv, ProfileFile
<1>2. d.platform = IF IsTaken /\ IsProfileDocument(d.node)
                   THEN Platform(LoadedProfile(d.node)) ELSE None
  BY <1>1 DEF IsDescribed
<1>3. IsParsed(content, Result(d.node, Len(content) + 1)) <=> IsTaken
  <2> HIDE DEF content
  <2>1. /\ DOMAIN content = 1..Len(content) /\ (Len(content) + 1) - 1 = Len(content)
        /\ Result(d.node, Len(content) + 1).next = Len(content) + 1
    BY <1>1 DEF Result
  <2> QED BY <2>1 DEF IsParsed
<1>4. Result(d.node, Len(content) + 1).node = d.node
  BY DEF Result
<1> HIDE DEF IsTaken, content
<1>5. profileAsked = IF IsTaken /\ IsProfileDocument(d.node) THEN LoadedProfile(d.node) ELSE None
  BY <1>1, <1>3, <1>4 DEF profileAsked, ProfileAt, ProfileFile
<1>6. IsProfileDocument(d.node) => LoadedProfile(d.node) # None
  BY <1>1 DEF IsDescribed
<1>7. profile # None => profile = profileAsked
  BY DEF FilesInv, ProfileInv
<1>8. phase = "refused" /\ profile = None => profileAsked = None
  BY DEF FilesInv, ProfileInv
<1> HIDE DEF d
<1> QED BY <1>2, <1>5, <1>6, <1>7, <1>8 DEF d

LEMMA WorkloadIsAsWritten ==
  ASSUME FilesDescribed, FilesInv
  PROVE  WorkloadAsWritten
<1> SUFFICES ASSUME profile # None, IsWritten(options.workload)
             PROVE  /\ phase = "parsed" => /\ root.node = WorkloadFile.node
                                           /\ root.next > Len(Content(WorkloadFile.lines))
                    /\ loaded # Empty => loaded = WorkloadFile.workload
                    /\ phase = "refused" /\ loaded = Empty => WorkloadFile.workload = None
  BY DEF WorkloadAsWritten, WasProfiled, IsParsedNow, WasLoaded
<1> DEFINE path == options.workload
           d == WorkloadFile
           content == Content(d.lines)
<1>1. /\ path \in DOMAIN input.files /\ IsDocument(d) /\ IsDescribed(d)
      /\ Tokenizable(d.lines) /\ Tokenize(d.lines) = content /\ content \in Seq(Token)
      /\ ParseDocument(content) = Result(d.node, Len(content) + 1)
  BY WrittenIsDescribed DEF FilesInv, WorkloadFile
<1>2. d.workload = IF IsWorkload(d.node) THEN Workload(d.node) ELSE None
  BY <1>1 DEF IsDescribed
<1>3. workloadRead.node = d.node /\ workloadRead.next = Len(content) + 1
  BY <1>1 DEF workloadRead, Result
<1>4. workloadHasTokens <=> content # <<>>
  BY <1>1 DEF workloadHasTokens, WorkloadFile
<1>5. content = <<>> => ~IsWorkload(d.node)
  BY <1>1, NothingIsNoWorkload DEF IsDescribed, IsFaithful
<1>6. Len(content) + 1 > Len(content)
  BY <1>1
<1> HIDE DEF content, d
<1>7. phase = "parsed" => root = workloadRead
  BY DEF FilesInv, LoadedInv
<1>8. loaded # Empty => IsWorkload(workloadRead.node) /\ loaded = Workload(workloadRead.node)
  BY DEF FilesInv, LoadedInv
<1>9. phase = "refused" /\ loaded = Empty => ~workloadHasTokens \/ ~IsWorkload(workloadRead.node)
  BY DEF FilesInv, LoadedInv
<1> QED BY <1>2, <1>3, <1>4, <1>5, <1>6, <1>7, <1>8, <1>9 DEF d, content

LEMMA BenchmarkInvariant == Spec => [](BenchmarkType /\ WorkloadInv)
<1>1. BenchmarkType /\ WorkloadInv /\ [Next]_vars => (BenchmarkType /\ WorkloadInv)'
  BY TypeStep, WorkloadStep
<1> QED BY InitBenchmark, <1>1, PTL DEF Spec

\* load_workload_from_file and load_arrival_fixture: whatever the files, what the
\* parser makes of a document is made of nodes, the parser comes to its end, and
\* the times of the arrivals are a sequence.
THEOREM BenchmarkAlwaysTyped == Spec => []BenchmarkType
<1> QED BY BenchmarkInvariant, PTL

\* tokenize and MiniYamlParser, run by load_workload_from_file on any file that
\* tokenize accepts: they read exactly the lines before the first whose indentation
\* gives it no place, and what they make of them is what the indentation means.
THEOREM ReadsAsIndented == Spec => []ReadAsIndented
<1>1. Init => ReadAsIndented
  BY DEF Init, ReadAsIndented, IsParsedNow
<1> QED BY <1>1, MisfitStep, PTL DEF Spec

\* load_profile_from_file and load_workload_from_file, run by main: whatever files a
\* run is given, however many runs there are and whichever way the lines are laid out,
\* what main goes on with is what the node that the lines mean is loaded as, and main
\* refuses a file only if that node is none that the loader takes.
THEOREM LoadsWhatIsWritten ==
  ASSUME FilesDescribed
  PROVE  Spec => []LoadedAsWritten
<1>1. Init => BenchmarkType /\ FilesInv
  BY InitBenchmark, InitFiles
<1>2. BenchmarkType /\ FilesInv /\ [Next]_vars => (BenchmarkType /\ FilesInv)'
  BY TypeStep, FilesStepped
<1>3. FilesInv => LoadedAsWritten
  BY PlatformIsAsWritten, WorkloadIsAsWritten DEF LoadedAsWritten
<1> QED BY <1>1, <1>2, <1>3, PTL DEF Spec

\* expand_workload and apply_placement_mode, run by main on whatever it has read:
\* no two tasks or nodes of the copies have the same id, if those of the workload
\* leave room for it.
THEOREM CopiesAlwaysHaveTheirOwnIds == Spec => []CopiesHaveTheirOwnIds
<1> QED BY BenchmarkInvariant, IdsOfCopies, PTL

\* apply_placement_mode, run by main with a mode of its arguments: every stage of
\* every copy is on the side that the mode asks for as a whole, or as it was read.
THEOREM StagesAlwaysPlaced == Spec => []PlacedAsAsked
<1> QED BY BenchmarkInvariant, StagesOfCopies, PTL

\* append_csv and write_summary: however many runs end well or are refused, with
\* whatever metadata, each line of the file is that of a run, in their order, under
\* the columns of the first.
THEOREM RowsAlwaysOfTheRuns == Spec => []RowsOfTheRuns
<1>1. Spec => []RowsInv
  BY InitRows, RowsStep, PTL DEF Spec
<1>2. RowsInv => RowsOfTheRuns
  BY DEF RowsInv
<1> QED BY <1>1, <1>2, PTL

------------------------------------------------------------------------------
(* The terminal interface *)

\* A session is a record; the reports are in a function with finitely many names.
SessionType ==
  session # NoSession =>
    session = [selection |-> session.selection, modes |-> session.modes,
               seed |-> session.seed, left |-> session.left,
               finished |-> session.finished]

FilesType == IsFiniteSet(DOMAIN files)

\* The session is that of the selection, and fit to be stepped.
SessionInv == SessionType /\ FilesType /\ SettingsApplied

LEMMA StepKeepsSelection ==
  ASSUME SessionType, StepOnce, session' # NoSession
  PROVE  /\ session # NoSession /\ SessionType'
         /\ session'.selection = session.selection /\ session'.modes = session.modes
<1>1. CASE session = NoSession
  BY <1>1 DEF StepOnce
<1>2. CASE session # NoSession
  <2>1. PICK a, b, c, d, e : session = [selection |-> a, modes |-> b, seed |-> c,
                                        left |-> d, finished |-> e]
    BY <1>2 DEF SessionType
  <2>2. CASE session.left = 0
    <3>1. PICK yes : yes = TRUE
      OBVIOUS
    <3>2. session' = [session EXCEPT !.finished = yes]
      BY <1>2, <2>2, <3>1 DEF StepOnce
    <3>3. session' = [selection |-> a, modes |-> b, seed |-> c, left |-> d, finished |-> yes]
      BY <2>1, <3>2
    <3> QED BY <1>2, <2>1, <3>3 DEF SessionType
  <2>3. CASE session.left # 0
    <3>1. session' = [session EXCEPT !.left = session.left - 1]
      BY <1>2, <2>3 DEF StepOnce
    <3>2. PICK l : session' = [selection |-> a, modes |-> b, seed |-> c, left |-> l,
                               finished |-> e]
      BY <2>1, <3>1
    <3> QED BY <1>2, <2>1, <3>2 DEF SessionType
  <2> QED BY <2>2, <2>3
<1> QED BY <1>1, <1>2

\* load_selection makes the session from what it leaves in the menus, or notes that
\* it did not.
LEMMA LoadApplies ==
  ASSUME SessionType, NEW selection, NEW mode, NEW preserve,
         LoadSelection(selection, mode, preserve)
  PROVE  SessionType' /\ SettingsApplied'
<1> DEFINE chosen == Selected(selection, preserve)
           seed == IF preserve /\ session # NoSession THEN session.seed ELSE nextSeed
<1>1. CASE session' = session /\ moved' = TRUE
  BY <1>1 DEF SessionType, SettingsApplied
<1>2. CASE session' = NoSession
  BY <1>2 DEF SessionType, SettingsApplied
<1>3. ASSUME menu' = chosen, modes' = mode, NEW n, session' = NewSession(chosen, mode, seed, n)
      PROVE  SessionType' /\ SettingsApplied'
  <2> HIDE DEF chosen, seed
  <2>1. session' = [selection |-> chosen, modes |-> mode, seed |-> seed, left |-> n,
                    finished |-> FALSE]
    BY <1>3 DEF NewSession
  <2>2. session'.selection = menu' /\ session'.modes = modes'
    BY <1>3, <2>1
  <2>3. SessionType'
    BY <2>1 DEF SessionType
  <2> QED BY <2>2, <2>3 DEF SettingsApplied
<1>4. \/ session' = session /\ moved' = TRUE
      \/ session' = NoSession
      \/ menu' = chosen /\ modes' = mode /\ \E n : session' = NewSession(chosen, mode, seed, n)
  BY DEF LoadSelection
<1> QED BY <1>1, <1>2, <1>3, <1>4

\* There are more suffixes than reports, so that one of them is free.
LEMMA PathIsFree ==
  ASSUME FilesType, Cardinality(DOMAIN files) < MaxFiles
  PROVE  MetricsPath \notin DOMAIN files
<1> DEFINE Free == {k \in 0..MaxFiles : ReportName(k) \notin DOMAIN files}
<1>1. MaxFiles \in Nat
  BY TuiAssumption
<1>2. Free # {}
  <2>1. SUFFICES ASSUME Free = {} PROVE FALSE
    OBVIOUS
  <2> DEFINE name == [k \in 0..MaxFiles |-> ReportName(k)]
  <2>2. name \in [0..MaxFiles -> DOMAIN files]
    BY <2>1
  <2>3. IsFiniteSet(0..MaxFiles) /\ Cardinality(0..MaxFiles) = MaxFiles + 1
    BY <1>1, FS_Interval
  <2>4. Cardinality(DOMAIN files) \in Nat
    BY FS_CardinalityType DEF FilesType
  <2>5. Cardinality(DOMAIN files) < Cardinality(0..MaxFiles)
    BY <1>1, <2>3, <2>4
  <2>6. PICK k, l \in 0..MaxFiles : k # l /\ name[k] = name[l]
    <3> HIDE DEF name
    <3> QED BY <2>2, <2>3, <2>5, FS_PigeonHole DEF FilesType
  <2>7. ReportName(k)[3] = k /\ ReportName(l)[3] = l
    BY DEF ReportName
  <2> QED BY <2>6, <2>7
<1>3. PICK k \in Free : \A j \in Free : k <= j
  <2>1. Free \in SUBSET Nat
    BY <1>1
  <2> HIDE DEF Free
  <2> QED BY <1>2, <2>1, LeastOf
<1>4. \A j \in 0..k - 1 : ReportName(j) \in DOMAIN files
  <2> SUFFICES ASSUME NEW j \in 0..k - 1 PROVE ReportName(j) \in DOMAIN files
    OBVIOUS
  <2>1. j \in 0..MaxFiles /\ ~(k <= j)
    BY <1>1
  <2> QED BY <1>3, <2>1
<1> DEFINE suffix == CHOOSE i \in 0..MaxFiles :
                       /\ ReportName(i) \notin DOMAIN files
                       /\ \A j \in 0..i - 1 : ReportName(j) \in DOMAIN files
<1>5. ReportName(suffix) \notin DOMAIN files
  <2>1. k \in 0..MaxFiles /\ ReportName(k) \notin DOMAIN files
    OBVIOUS
  <2> QED BY <1>4, <2>1
<1> QED BY <1>5 DEF MetricsPath

LEMMA InitSession == TuiInit => SessionInv
<1> SUFFICES ASSUME TuiInit PROVE SessionInv
  OBVIOUS
<1>1. session = NoSession /\ DOMAIN files = {}
  BY DEF TuiInit
<1> QED BY <1>1, FS_EmptySet DEF SessionInv, SessionType, FilesType, SettingsApplied

\* The reports after a step: none, or one at a path that was free
LEMMA FilesAfter ==
  ASSUME FilesType, [TuiNext]_tuiVars
  PROVE  \/ files' = files
         \/ \E path, report :
              /\ path \notin DOMAIN files
              /\ files' = [f \in DOMAIN files \cup {path} |->
                            IF f = path THEN report ELSE files[f]]
<1>1. CASE Save
  <2>1. files' = files \/ files' = [f \in DOMAIN files \cup {MetricsPath} |->
                                     IF f = MetricsPath THEN Report ELSE files[f]]
    BY <1>1 DEF Save
  <2>2. MetricsPath \notin DOMAIN files
    BY <1>1, PathIsFree DEF Save
  <2> QED BY <2>1, <2>2
<1>2. CASE ~Save
  <2>1. CASE FirstLoad \/ AutoStep \/ NoStep \/ UNCHANGED tuiVars
    BY <2>1 DEF FirstLoad, AutoStep, NoStep, tuiVars
  <2>2. CASE Key
    <3>1. \A by : Move(by) => files' = files
      BY DEF Move
    <3>2. \A domain : ToggleMode(domain) => files' = files
      BY DEF ToggleMode
    <3>3. SwitchMenu \/ Enter \/ Pause \/ StepKey => files' = files
      BY DEF SwitchMenu, Enter, Pause, StepKey
    <3>4. CycleLabel \/ CyclePolicy \/ Reset \/ Quit \/ NoKey => files' = files
      BY DEF CycleLabel, CyclePolicy, Reset, Quit, NoKey
    <3> QED BY <1>2, <2>2, <3>1, <3>2, <3>3, <3>4 DEF Key
  <2> QED BY <2>1, <2>2 DEF TuiNext
<1> QED BY <1>1, <1>2

LEMMA FilesStep == FilesType /\ [TuiNext]_tuiVars => FilesType'
<1> SUFFICES ASSUME FilesType, [TuiNext]_tuiVars PROVE FilesType'
  OBVIOUS
<1>1. CASE files' = files
  BY <1>1 DEF FilesType
<1>2. ASSUME NEW path, NEW report,
             files' = [f \in DOMAIN files \cup {path} |-> IF f = path THEN report ELSE files[f]]
      PROVE  FilesType'
  <2>1. DOMAIN files' = DOMAIN files \cup {path}
    BY <1>2
  <2>2. IsFiniteSet(DOMAIN files \cup {path})
    BY FS_AddElement DEF FilesType
  <2> QED BY <2>1, <2>2 DEF FilesType
<1> QED BY <1>1, <1>2, FilesAfter

\* A step that leaves the session, the modes and what was selected
LEMMA SessionKept ==
  ASSUME SessionInv, session' = session, modes' = modes,
         moved' = TRUE \/ (menu' = menu /\ moved' = moved)
  PROVE  SessionType' /\ SettingsApplied'
<1>1. SessionType'
  BY DEF SessionInv, SessionType
<1>2. SettingsApplied'
  BY DEF SessionInv, SettingsApplied
<1> QED BY <1>1, <1>2

LEMMA SessionStepped ==
  ASSUME SessionInv, StepOnce, UNCHANGED <<menu, modes, moved>>
  PROVE  SessionType' /\ SettingsApplied'
<1>1. CASE session' = NoSession
  BY <1>1 DEF SessionType, SettingsApplied
<1>2. CASE session' # NoSession
  <2>1. /\ session # NoSession /\ SessionType'
        /\ session'.selection = session.selection /\ session'.modes = session.modes
    BY <1>2, StepKeepsSelection DEF SessionInv
  <2> QED BY <2>1 DEF SessionInv, SettingsApplied
<1> QED BY <1>1, <1>2

LEMMA NextSession == SessionInv /\ [TuiNext]_tuiVars => SessionInv'
<1> SUFFICES ASSUME SessionInv, [TuiNext]_tuiVars PROVE SessionType' /\ SettingsApplied'
  BY FilesStep DEF SessionInv
<1>1. SessionType
  BY DEF SessionInv
<1>2. CASE FirstLoad \/ Enter \/ CycleLabel \/ CyclePolicy
  BY <1>1, <1>2, LoadApplies DEF FirstLoad, Enter, CycleLabel, CyclePolicy
<1>3. ASSUME NEW domain, ToggleMode(domain)
      PROVE  SessionType' /\ SettingsApplied'
  <2>1. CASE session = NoSession /\ session' = session
    BY <2>1 DEF SessionType, SettingsApplied
  <2>2. CASE LoadSelection(menu, [modes EXCEPT ![domain] = ~@], TRUE)
    BY <1>1, <2>2, LoadApplies
  <2> QED BY <1>3, <2>1, <2>2 DEF ToggleMode
<1>4. ASSUME NEW by, Move(by)
      PROVE  SessionType' /\ SettingsApplied'
  BY <1>4, SessionKept DEF Move
<1>5. CASE StepKey \/ AutoStep
  BY <1>5, SessionStepped DEF StepKey, AutoStep
<1>6. CASE Reset
  <2>1. PICK n : session' = NewSession(session.selection, session.modes, nextSeed, n)
    BY <1>6 DEF Reset
  <2>2. session # NoSession /\ menu' = menu /\ modes' = modes /\ moved' = moved
    BY <1>6 DEF Reset
  <2>3. PICK a, b : a = session.selection /\ b = session.modes
    OBVIOUS
  <2>4. session' = [selection |-> a, modes |-> b, seed |-> nextSeed, left |-> n,
                    finished |-> FALSE]
    BY <2>1, <2>3 DEF NewSession
  <2>5. SessionType' /\ session'.selection = a /\ session'.modes = b
    BY <2>4 DEF SessionType
  <2> QED BY <2>2, <2>3, <2>5 DEF SessionInv, SettingsApplied
<1>7. CASE SwitchMenu \/ Pause \/ Save \/ Quit \/ NoKey \/ NoStep \/ UNCHANGED tuiVars
  BY <1>7, SessionKept DEF SwitchMenu, Pause, Save, Quit, NoKey, NoStep, tuiVars
<1> QED BY <1>2, <1>3, <1>4, <1>5, <1>6, <1>7 DEF TuiNext, Key

\* The inductive invariant: a session has its fields, the saved reports are finitely
\* many, and the session is that of the selection (AppState, load_selection).
THEOREM SessionAlwaysTyped == TuiSpec => []SessionInv
<1> QED BY InitSession, NextSession, PTL DEF TuiSpec

\* Whatever keys are pressed, with any number of profiles, workloads, policies and
\* labels, and whatever loads or fails to: the session is that of the selection,
\* unless a menu was moved or a profile failed to load since (load_selection).
THEOREM SettingsAlwaysApplied == TuiSpec => []SettingsApplied
<1>1. SessionInv => SettingsApplied
  BY DEF SessionInv
<1> QED BY <1>1, SessionAlwaysTyped, PTL

\* However many reports are saved, none replaces another (make_metrics_path).
THEOREM ReportsAlwaysKept == TuiSpec => ReportsKept
<1>1. SessionInv /\ [TuiNext]_tuiVars =>
        [\A f \in DOMAIN files : f \in DOMAIN files' /\ files'[f] = files[f]]_tuiVars
  <2> SUFFICES ASSUME SessionInv, [TuiNext]_tuiVars, NEW f \in DOMAIN files
               PROVE  f \in DOMAIN files' /\ files'[f] = files[f]
    OBVIOUS
  <2> QED BY FilesAfter DEF SessionInv
<1> QED BY <1>1, SessionAlwaysTyped, PTL DEF TuiSpec, ReportsKept
===============================================================================
