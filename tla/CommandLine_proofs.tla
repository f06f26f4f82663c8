-------------------------- MODULE CommandLine_proofs --------------------------
(***************************************************************************)
(* The options that parse_arguments comes to, for command lines and        *)
(* manifests of any length: a flag overrides the manifest wherever         *)
(* --config stands, and what is refused has something wrong with it.       *)
(***************************************************************************)
EXTENDS CommandLine, FiniteSetTheorems, WellFoundedInduction, TLAPS

------------------------------------------------------------------------------
(* Constants and positions *)

\* A set of three has at most three elements.
LEMMA OneMore ==
  ASSUME NEW S, NEW x, NEW n \in Nat, IsFiniteSet(S), Cardinality(S) <= n
  PROVE  IsFiniteSet(S \cup {x}) /\ Cardinality(S \cup {x}) <= n + 1
<1>1. /\ IsFiniteSet(S \cup {x}) /\ Cardinality(S) \in Nat
      /\ Cardinality(S \cup {x}) = IF x \in S THEN Cardinality(S) ELSE Cardinality(S) + 1
  BY FS_AddElement, FS_CardinalityType
<1> QED BY <1>1

LEMMA AtMostThree ==
  ASSUME NEW x, NEW y, NEW z
  PROVE  Cardinality({x, y, z}) # 4
<1> DEFINE S == {x}
           T == {x, y}
<1>1. IsFiniteSet(S) /\ Cardinality(S) <= 1
  BY FS_Singleton
<1>2. IsFiniteSet(S \cup {y}) /\ Cardinality(S \cup {y}) <= 2
  <2> HIDE DEF S
  <2>1. IsFiniteSet(S \cup {y}) /\ Cardinality(S \cup {y}) <= 1 + 1
    BY <1>1, OneMore
  <2> QED BY <2>1
<1>3. T = S \cup {y} /\ {x, y, z} = T \cup {z}
  OBVIOUS
<1> HIDE DEF S, T
<1>4. IsFiniteSet(T) /\ Cardinality(T) <= 2
  BY <1>2, <1>3
<1>5. IsFiniteSet(T \cup {z}) /\ Cardinality(T \cup {z}) <= 2 + 1
  BY <1>4, OneMore
<1>6. Cardinality(T \cup {z}) \in Nat
  BY <1>5, FS_CardinalityType
<1> QED BY <1>3, <1>5, <1>6

LEMMA MarkersDiffer ==
  /\ Bad # Empty /\ Bad # Default /\ Bad # None
  /\ Empty # Default /\ Empty # None /\ Default # None
<1>1. Cardinality({Bad, Empty, Default, None}) = 4
  BY CommandLineAssumption
<1>2. \A x, y, z : {Bad, Empty, Default, None} # {x, y, z}
  BY <1>1, AtMostThree
<1>3. Bad \in {Empty, Default, None} => {Bad, Empty, Default, None} = {Empty, Default, None}
  OBVIOUS
<1>4. Empty \in {Default, None} => {Bad, Empty, Default, None} = {Bad, Default, None}
  OBVIOUS
<1>5. Default = None => {Bad, Empty, Default, None} = {Bad, Empty, None}
  OBVIOUS
<1> QED BY <1>2, <1>3, <1>4, <1>5

\* A set of numbers that is not empty has a least element.
LEMMA LeastOf ==
  ASSUME NEW S \in SUBSET Nat, S # {}
  PROVE  \E i \in S : \A j \in S : i <= j
<1>1. PICK i \in S : \A j \in S : <<j, i>> \notin OpToRel(<, Nat)
  BY NatLessThanWellFounded, WFMin
<1>2. \A j \in S : <<j, i>> \in Nat \X Nat /\ <<j, i>>[1] = j /\ <<j, i>>[2] = i
  OBVIOUS
<1>3. \A j \in S : ~(j < i)
  BY <1>1, <1>2 DEF OpToRel
<1> QED BY <1>3

\* A set of positions that is not empty has a last one.
LEMMA LastOf ==
  ASSUME NEW n \in Nat, NEW S \in SUBSET (1..n), S # {}
  PROVE  Last(S) \in S /\ \A j \in S : j <= Last(S)
<1> DEFINE Behind == {i \in Nat : \A j \in S : j <= i}
<1>1. n \in Behind /\ Behind \in SUBSET Nat
  OBVIOUS
<1>2. PICK i \in Behind : \A j \in Behind : i <= j
  <2> HIDE DEF Behind
  <2> QED BY <1>1, LeastOf
<1>3. i \in S
  <2>1. SUFFICES ASSUME i \notin S PROVE FALSE
    OBVIOUS
  <2>2. i \in Nat /\ \A j \in S : j <= i - 1
    BY <2>1, <1>2
  <2>3. i - 1 \in Nat
    <3>1. PICK j \in S : TRUE
      OBVIOUS
    <3> QED BY <2>2, <3>1
  <2>4. i - 1 \in Behind
    BY <2>2, <2>3
  <2> QED BY <1>2, <2>2, <2>4
<1>4. \A j \in S : j <= i
  BY <1>2
<1> QED BY <1>3, <1>4 DEF Last

\* A position after all the others is the last.
LEMMA LastIsNew ==
  ASSUME NEW n \in Nat, NEW S \in SUBSET (1..n)
  PROVE  Last(S \cup {n + 1}) = n + 1
<1> DEFINE T == S \cup {n + 1}
<1>1. T \in SUBSET (1..n + 1) /\ T # {} /\ n + 1 \in T /\ n + 1 \in Nat
  OBVIOUS
<1>2. Last(T) \in T /\ n + 1 <= Last(T)
  <2> HIDE DEF T
  <2> QED BY <1>1, LastOf
<1> HIDE DEF T
<1>3. \A i \in T : i \in 1..n + 1
  BY <1>1
<1>4. Last(T) \in 1..n + 1 /\ n + 1 <= Last(T)
  BY <1>2, <1>3
<1>5. Last(T) = n + 1
  BY <1>4
<1> QED BY <1>5 DEF T

------------------------------------------------------------------------------
(* The arguments *)

\* Where the arguments of a sequence have a flag
FlagAt(args, flag) == {i \in DOMAIN args : args[i].flag = flag}

\* The arguments that are read without an error
SoundArgument ==
  [flag : Fields \cup {"config", "batch"}, value : Values \cup {Empty, Default}]

\* The value of a field while only flags can give it one
ArgumentValue(args, f) ==
  IF FlagAt(args, f) # {} THEN args[Last(FlagAt(args, f))].value
  ELSE IF f \in Required THEN Empty ELSE Default

\* The arguments that are read are sound, a value that is checked is a good one,
\* and the value of an option is that of the last argument for it.
OptionsAreArguments ==
  /\ argv \in Seq(SoundArgument)
  /\ \A i \in DOMAIN argv :
       argv[i].flag \in Fields \ Paths => argv[i].value \in Values
  /\ \A i \in DOMAIN argv :
       argv[i].flag \in Paths => argv[i].value \in Values \cup {Empty}
  /\ given = {f \in Fields : FlagAt(argv, f) # {}}
  /\ options = [f \in Fields |-> ArgumentValue(argv, f)]

\* There is one manifest and one batch at most.
FilesAreArguments ==
  /\ config \in BOOLEAN
  /\ config <=> FlagAt(argv, "config") # {}
  /\ batch # None <=> FlagAt(argv, "batch") # {}
  /\ \A i \in FlagAt(argv, "batch") : argv[i].value = batch
  /\ \A flag \in {"config", "batch"} : \A i, j \in FlagAt(argv, flag) : i = j

Parsing == OptionsAreArguments /\ FilesAreArguments

\* What is known of the options while the arguments are read, and what is said of
\* them at the end
IInv ==
  /\ result = "parsing" => Parsing
  /\ FlagsOverrideManifest
  /\ RefusedIffFaulty

\* What appending an argument a changes
IsAppended(args, more, a) ==
  /\ more \in Seq(SoundArgument)
  /\ Len(args) \in Nat /\ DOMAIN args = 1..Len(args)
  /\ DOMAIN more = 1..Len(args) + 1
  /\ \A i \in 1..Len(args) : more[i] = args[i]
  /\ more[Len(args) + 1] = a
  /\ \A flag : FlagAt(args, flag) \in SUBSET (1..Len(args))
  /\ FlagAt(more, a.flag) = FlagAt(args, a.flag) \cup {Len(args) + 1}
  /\ \A flag : flag # a.flag => FlagAt(more, flag) = FlagAt(args, flag)

LEMMA AppendedAt ==
  ASSUME NEW args \in Seq(SoundArgument), NEW a \in SoundArgument,
         NEW more, more = Append(args, a)
  PROVE  IsAppended(args, more, a)
<1> DEFINE n == Len(args)
<1>1. /\ more \in Seq(SoundArgument) /\ n \in Nat
      /\ DOMAIN args = 1..n /\ DOMAIN more = 1..n + 1
      /\ \A i \in 1..n : more[i] = args[i]
      /\ more[n + 1] = a
  OBVIOUS
<1> HIDE DEF n
<1>2. \A flag : FlagAt(args, flag) \in SUBSET (1..n)
  BY <1>1 DEF FlagAt
<1>3. 1..n + 1 = (1..n) \cup {n + 1}
  BY <1>1
<1>4. FlagAt(more, a.flag) = FlagAt(args, a.flag) \cup {n + 1}
  BY <1>1, <1>3 DEF FlagAt
<1>5. ASSUME NEW flag, flag # a.flag
      PROVE  FlagAt(more, flag) = FlagAt(args, flag)
  BY <1>1, <1>3, <1>5 DEF FlagAt
<1> QED BY <1>1, <1>2, <1>4, <1>5 DEF n, IsAppended

\* An argument gives its own option its value, and leaves the others theirs.
LEMMA AppendedValue ==
  ASSUME NEW args, NEW a, NEW more, IsAppended(args, more, a)
  PROVE  /\ ArgumentValue(more, a.flag) = a.value
         /\ \A f : f # a.flag => ArgumentValue(more, f) = ArgumentValue(args, f)
<1> DEFINE n == Len(args)
<1>1. /\ n \in Nat
      /\ \A i \in 1..n : more[i] = args[i]
      /\ more[n + 1] = a
      /\ \A flag : FlagAt(args, flag) \in SUBSET (1..n)
      /\ FlagAt(more, a.flag) = FlagAt(args, a.flag) \cup {n + 1}
      /\ \A flag : flag # a.flag => FlagAt(more, flag) = FlagAt(args, flag)
  BY DEF IsAppended
<1> HIDE DEF n
<1>2. Last(FlagAt(more, a.flag)) = n + 1
  BY <1>1, LastIsNew
<1>3. ArgumentValue(more, a.flag) = a.value
  <2>1. FlagAt(more, a.flag) # {}
    BY <1>1
  <2> QED BY <1>1, <1>2, <2>1 DEF ArgumentValue
<1>4. ASSUME NEW f, f # a.flag
      PROVE  ArgumentValue(more, f) = ArgumentValue(args, f)
  <2>1. FlagAt(more, f) = FlagAt(args, f)
    BY <1>1, <1>4
  <2>2. FlagAt(args, f) # {} => Last(FlagAt(args, f)) \in 1..n
    BY <1>1, LastOf
  <2> QED BY <1>1, <2>1, <2>2 DEF ArgumentValue
<1> QED BY <1>3, <1>4

LEMMA InitParsing == Init => IInv
<1> SUFFICES ASSUME Init PROVE IInv
  OBVIOUS
<1>1. result = "parsing" /\ argv = <<>> /\ given = {} /\ config = FALSE /\ batch = None
  BY DEF Init
<1>2. \A flag : FlagAt(argv, flag) = {}
  BY <1>1 DEF FlagAt
<1>3. argv \in Seq(SoundArgument) /\ DOMAIN argv = {}
  BY <1>1
<1>4. options = [f \in Fields |-> ArgumentValue(argv, f)]
  BY <1>2 DEF Init, ArgumentValue
<1>5. Parsing
  BY <1>1, <1>2, <1>3, <1>4 DEF Parsing, OptionsAreArguments, FilesAreArguments
<1> QED BY <1>1, <1>5 DEF IInv, FlagsOverrideManifest, RefusedIffFaulty

\* The steps that read an argument without an error
LEMMA SetOptionParsing ==
  ASSUME Parsing, NEW f \in Fields, NEW v \in Values \cup {Empty, Bad},
         IF f \in Paths THEN v # Bad ELSE v # Empty,
         SetOption(f, v), result' = "parsing"
  PROVE  Parsing'
<1> DEFINE a == [flag |-> f, value |-> v]
<1>1. argv' = Append(argv, a) /\ result = "parsing" /\ config' = config /\ batch' = batch
  BY DEF SetOption, Argument
<1>2. /\ f \in Paths \/ v \in Values
      /\ options' = [options EXCEPT ![f] = v]
      /\ given' = given \cup {f}
  BY DEF SetOption
<1>3. v \in Values \cup {Empty}
  BY <1>2
<1>4. a \in SoundArgument /\ a.flag = f /\ a.value = v
  BY <1>3 DEF SoundArgument
<1>5. argv \in Seq(SoundArgument)
  BY DEF Parsing, OptionsAreArguments
<1> HIDE DEF a
<1>0. IsAppended(argv, argv', a)
  BY <1>1, <1>4, <1>5, AppendedAt
<1>6. /\ argv' \in Seq(SoundArgument)
      /\ Len(argv) \in Nat /\ DOMAIN argv = 1..Len(argv)
      /\ DOMAIN argv' = 1..Len(argv) + 1
      /\ \A i \in 1..Len(argv) : argv'[i] = argv[i]
      /\ argv'[Len(argv) + 1] = a
      /\ \A flag : FlagAt(argv, flag) \in SUBSET (1..Len(argv))
      /\ FlagAt(argv', f) = FlagAt(argv, f) \cup {Len(argv) + 1}
      /\ \A flag : flag # f => FlagAt(argv', flag) = FlagAt(argv, flag)
  BY <1>0, <1>4 DEF IsAppended
<1>7. /\ ArgumentValue(argv', f) = v
      /\ \A g : g # f => ArgumentValue(argv', g) = ArgumentValue(argv, g)
  BY <1>0, <1>4, AppendedValue
<1>8. \A i \in DOMAIN argv' : i \in DOMAIN argv \/ i = Len(argv) + 1
  BY <1>6
<1>9. \A i \in DOMAIN argv' :
        /\ argv'[i].flag \in Fields \ Paths => argv'[i].value \in Values
        /\ argv'[i].flag \in Paths => argv'[i].value \in Values \cup {Empty}
  BY <1>2, <1>3, <1>4, <1>6, <1>8 DEF Parsing, OptionsAreArguments
<1>10. given' = {g \in Fields : FlagAt(argv', g) # {}}
  BY <1>2, <1>6 DEF Parsing, OptionsAreArguments
<1>11. options' = [g \in Fields |-> ArgumentValue(argv', g)]
  <2>1. options' = [g \in Fields |-> IF g = f THEN v ELSE ArgumentValue(argv, g)]
    BY <1>2 DEF Parsing, OptionsAreArguments
  <2> QED BY <2>1, <1>7
<1>12. OptionsAreArguments'
  BY <1>6, <1>9, <1>10, <1>11 DEF OptionsAreArguments
<1>13. FilesAreArguments'
  <2>1. f \notin {"config", "batch"}
    BY DEF Fields, Paths, Required, Rolling, Modes
  <2>2. \A flag \in {"config", "batch"} : FlagAt(argv', flag) = FlagAt(argv, flag)
    BY <2>1, <1>6
  <2>3. \A i \in FlagAt(argv', "batch") : argv'[i].value = batch'
    BY <2>2, <1>1, <1>6 DEF Parsing, FilesAreArguments
  <2> QED BY <2>2, <2>3, <1>1 DEF Parsing, FilesAreArguments
<1> QED BY <1>12, <1>13 DEF Parsing

\* The steps that name a file: the argument is no option.
LEMMA NameParsing ==
  ASSUME Parsing, NEW flag \in {"config", "batch"}, NEW v \in Values \cup {Empty, Default},
         flag = "batch" => v # Default,
         Argument(flag, v), UNCHANGED <<options, given>>,
         FlagAt(argv, flag) = {},
         config' = (config \/ flag = "config"),
         batch' = IF flag = "batch" THEN v ELSE batch
  PROVE  Parsing'
<1> DEFINE a == [flag |-> flag, value |-> v]
<1>1. argv' = Append(argv, a)
  BY DEF Argument
<1>2. a \in SoundArgument /\ a.flag = flag /\ a.value = v
  BY DEF SoundArgument
<1>3. argv \in Seq(SoundArgument)
  BY DEF Parsing, OptionsAreArguments
<1> HIDE DEF a
<1>0. IsAppended(argv, argv', a)
  BY <1>1, <1>2, <1>3, AppendedAt
<1>4. /\ argv' \in Seq(SoundArgument)
      /\ Len(argv) \in Nat /\ DOMAIN argv = 1..Len(argv)
      /\ DOMAIN argv' = 1..Len(argv) + 1
      /\ \A i \in 1..Len(argv) : argv'[i] = argv[i]
      /\ argv'[Len(argv) + 1] = a
      /\ \A g : FlagAt(argv, g) \in SUBSET (1..Len(argv))
      /\ FlagAt(argv', flag) = FlagAt(argv, flag) \cup {Len(argv) + 1}
      /\ \A g : g # flag => FlagAt(argv', g) = FlagAt(argv, g)
  BY <1>0, <1>2 DEF IsAppended
<1>5. \A g : g # flag => ArgumentValue(argv', g) = ArgumentValue(argv, g)
  BY <1>0, <1>2, AppendedValue
<1>6. flag \notin Fields
  BY DEF Fields, Paths, Required, Rolling, Modes
<1>7. \A g \in Fields : /\ ArgumentValue(argv', g) = ArgumentValue(argv, g)
                       /\ FlagAt(argv', g) = FlagAt(argv, g)
  BY <1>4, <1>5, <1>6
<1>8. \A i \in DOMAIN argv' : i \in DOMAIN argv \/ i = Len(argv) + 1
  BY <1>4
<1>9. Paths \subseteq Fields
  BY DEF Fields
<1>10. \A i \in DOMAIN argv' :
        /\ argv'[i].flag \in Fields \ Paths => argv'[i].value \in Values
        /\ argv'[i].flag \in Paths => argv'[i].value \in Values \cup {Empty}
  BY <1>2, <1>4, <1>6, <1>8, <1>9 DEF Parsing, OptionsAreArguments
<1>11. OptionsAreArguments'
  BY <1>4, <1>7, <1>10 DEF Parsing, OptionsAreArguments
<1>12. Empty # None /\ None \notin Values /\ Default # None
  BY MarkersDiffer, CommandLineAssumption
<1>13. FilesAreArguments'
  <2>1. \A g \in {"config", "batch"} :
          /\ g # flag => FlagAt(argv', g) = FlagAt(argv, g)
          /\ g = flag => FlagAt(argv', g) = {Len(argv) + 1}
    BY <1>4
  <2>2. \A i \in FlagAt(argv', "batch") : argv'[i].value = batch'
    BY <2>1, <1>2, <1>4 DEF Parsing, FilesAreArguments
  <2>3. \A g \in {"config", "batch"} : \A i, j \in FlagAt(argv', g) : i = j
    BY <2>1 DEF Parsing, FilesAreArguments
  <2>4. /\ config' \in BOOLEAN
        /\ config' <=> FlagAt(argv', "config") # {}
        /\ batch' # None <=> FlagAt(argv', "batch") # {}
    BY <2>1, <1>12 DEF Parsing, FilesAreArguments
  <2> QED BY <2>2, <2>3, <2>4 DEF FilesAreArguments
<1> QED BY <1>11, <1>13 DEF Parsing

\* A value that is bad or missing is a fault, and so is a second file.
LEMMA BadValueIsFault ==
  ASSUME Parsing, NEW flag, NEW v \in {None, Bad}, Argument(flag, v)
  PROVE  FaultyArguments'
<1>1. argv \in Seq(SoundArgument) /\ argv' = Append(argv, [flag |-> flag, value |-> v])
  BY DEF Parsing, OptionsAreArguments, Argument
<1>2. Len(argv) + 1 \in DOMAIN argv' /\ argv'[Len(argv) + 1] = [flag |-> flag, value |-> v]
  BY <1>1
<1>3. argv'[Len(argv) + 1].value \in {None, Bad}
  BY <1>2
<1> QED BY <1>2, <1>3 DEF FaultyArguments

LEMMA SecondFileIsFault ==
  ASSUME Parsing, NEW flag \in {"config", "batch"}, NEW v, Argument(flag, v),
         FlagAt(argv, flag) # {}
  PROVE  FaultyArguments'
<1>1. argv \in Seq(SoundArgument) /\ argv' = Append(argv, [flag |-> flag, value |-> v])
  BY DEF Parsing, OptionsAreArguments, Argument
<1>2. /\ Len(argv) \in Nat
      /\ Len(argv) + 1 \in DOMAIN argv'
      /\ argv'[Len(argv) + 1] = [flag |-> flag, value |-> v]
      /\ \A i \in DOMAIN argv : i \in DOMAIN argv' /\ argv'[i] = argv[i] /\ i # Len(argv) + 1
  BY <1>1
<1>3. PICK i \in DOMAIN argv : argv[i].flag = flag
  BY DEF FlagAt
<1>4. i \in DOMAIN argv' /\ i # Len(argv) + 1 /\ argv'[i].flag = flag
  BY <1>2, <1>3
<1>5. PICK n \in DOMAIN argv' : n = Len(argv) + 1 /\ argv'[n].flag = flag
  BY <1>2
<1>6. Clash(i, n)'
  BY <1>4, <1>5 DEF Clash
<1> QED BY <1>4, <1>5, <1>6 DEF FaultyArguments

\* What is wrong with arguments that were all read is a batch with other options,
\* or without a name.
LEMMA FaultsLeft ==
  ASSUME Parsing
  PROVE  FaultyArguments <=>
           batch # None /\ (given \ Rolling # {} \/ config \/ batch = Empty)
<1>1. \A i \in DOMAIN argv :
        /\ argv[i].value \notin {None, Bad}
        /\ argv[i].flag \in Fields \cup {"config", "batch"}
  <2>1. \A i \in DOMAIN argv : argv[i] \in SoundArgument
    BY DEF Parsing, OptionsAreArguments
  <2>2. {None, Bad} \cap (Values \cup {Empty, Default}) = {}
    BY MarkersDiffer, CommandLineAssumption
  <2> QED BY <2>1, <2>2 DEF SoundArgument
<1>2. ASSUME FaultyArguments
      PROVE  batch # None /\ (given \ Rolling # {} \/ config \/ batch = Empty)
  <2>1. CASE \E i \in DOMAIN argv : argv[i].flag = "batch" /\ argv[i].value = Empty
    BY <2>1 DEF Parsing, FilesAreArguments, FlagAt
  <2>2. CASE \E i, j \in DOMAIN argv : i # j /\ Clash(i, j)
    <3>1. PICK i, j \in DOMAIN argv : i # j /\ Clash(i, j)
      BY <2>2
    <3>2. argv[i].flag = "batch" /\ argv[j].flag \notin Rolling \cup {"batch"}
      BY <3>1 DEF Clash, Parsing, FilesAreArguments, FlagAt
    <3>3. batch # None
      BY <3>2 DEF Parsing, FilesAreArguments, FlagAt
    <3>4. argv[j].flag = "config" => config
      BY DEF Parsing, FilesAreArguments, FlagAt
    <3>5. argv[j].flag # "config" => argv[j].flag \in given \ Rolling
      BY <1>1, <3>2 DEF Parsing, OptionsAreArguments, FlagAt
    <3> QED BY <3>3, <3>4, <3>5
  <2> QED BY <1>1, <1>2, <2>1, <2>2 DEF FaultyArguments
<1>3. ASSUME batch # None, given \ Rolling # {} \/ config \/ batch = Empty
      PROVE  FaultyArguments
  <2>1. PICK i \in DOMAIN argv : argv[i].flag = "batch" /\ argv[i].value = batch
    BY <1>3 DEF Parsing, FilesAreArguments, FlagAt
  <2>2. CASE batch = Empty
    BY <2>1, <2>2 DEF FaultyArguments
  <2>3. CASE config
    <3>1. PICK j \in DOMAIN argv : argv[j].flag = "config"
      BY <2>3 DEF Parsing, FilesAreArguments, FlagAt
    <3>2. i # j /\ Clash(i, j)
      BY <2>1, <3>1 DEF Clash, Rolling
    <3> QED BY <3>2 DEF FaultyArguments
  <2>4. CASE given \ Rolling # {}
    <3>1. PICK f \in Fields \ Rolling : FlagAt(argv, f) # {}
      BY <2>4 DEF Parsing, OptionsAreArguments
    <3>2. PICK j \in DOMAIN argv : argv[j].flag = f
      BY <3>1 DEF FlagAt
    <3>3. f # "batch"
      BY DEF Fields, Paths, Required, Rolling, Modes
    <3>4. i # j /\ Clash(i, j)
      BY <2>1, <3>1, <3>2, <3>3 DEF Clash
    <3> QED BY <3>4 DEF FaultyArguments
  <2> QED BY <1>3, <2>2, <2>3, <2>4
<1> QED BY <1>2, <1>3

------------------------------------------------------------------------------
(* The manifest *)

\* A section is open after line k: the lines since a header of it are indented.
Open(lines, section, k) ==
  \E j \in 1..k :
    /\ IsHeader(lines[j]) /\ lines[j].key = section
    /\ \A i \in j + 1..k : lines[i].indented

LEMMA SectionsOpen ==
  ASSUME NEW lines, NEW section, NEW k \in Nat \ {0}
  PROVE  /\ InSection(lines, section, k) <=> Open(lines, section, k - 1) /\ lines[k].indented
         /\ Open(lines, section, k) <=>
              \/ InSection(lines, section, k)
              \/ IsHeader(lines[k]) /\ lines[k].key = section
<1>1. \A j \in 1..k - 1 :
        (\A i \in j + 1..k : lines[i].indented) <=>
          (\A i \in j + 1..k - 1 : lines[i].indented) /\ lines[k].indented
  <2> TAKE j \in 1..k - 1
  <2>1. k \in j + 1..k /\ \A i \in j + 1..k : i = k \/ i \in j + 1..k - 1
    OBVIOUS
  <2>2. \A i \in j + 1..k - 1 : i \in j + 1..k
    OBVIOUS
  <2> QED BY <2>1, <2>2
<1>2. InSection(lines, section, k) <=> Open(lines, section, k - 1) /\ lines[k].indented
  BY <1>1 DEF InSection, Open
<1>3. /\ \A j \in 1..k : j \in 1..k - 1 \/ j = k
      /\ \A j \in 1..k - 1 : j \in 1..k
      /\ k \in 1..k
      /\ \A i \in k + 1..k : FALSE
  OBVIOUS
<1>4. Open(lines, section, k) <=>
        InSection(lines, section, k) \/ (IsHeader(lines[k]) /\ lines[k].key = section)
  BY <1>3 DEF InSection, Open
<1> QED BY <1>2, <1>4

\* What the lines up to k give f
ManifestValue(lines, f, k) ==
  IF LinesFor(lines, f) \cap (1..k) = {} THEN None
  ELSE lines[Last(LinesFor(lines, f) \cap (1..k))].value

LEMMA NextValue ==
  ASSUME NEW lines, IsManifest(lines), NEW k \in DOMAIN lines, NEW f
  PROVE  ManifestValue(lines, f, k) =
           IF k \in LinesFor(lines, f) THEN lines[k].value ELSE ManifestValue(lines, f, k - 1)
<1> DEFINE S == LinesFor(lines, f) \cap (1..k - 1)
           T == LinesFor(lines, f) \cap (1..k)
<1>1. k \in Nat /\ k - 1 \in Nat /\ (k - 1) + 1 = k /\ 1..k = (1..k - 1) \cup {k}
  BY DEF IsManifest
<1>2. CASE k \in LinesFor(lines, f)
  <2>1. T = S \cup {(k - 1) + 1} /\ S \in SUBSET (1..k - 1)
    BY <1>1, <1>2
  <2> HIDE DEF S, T
  <2>2. Last(T) = k /\ T # {}
    BY <1>1, <2>1, LastIsNew
  <2> QED BY <1>2, <2>2 DEF ManifestValue, T
<1>3. CASE k \notin LinesFor(lines, f)
  <2>1. T = S
    BY <1>1, <1>3
  <2> QED BY <1>3, <2>1 DEF ManifestValue
<1> QED BY <1>2, <1>3

\* The fields of what is gathered, one changed
Read(ok, service, metadata, values, names) ==
  [ok |-> ok, service |-> service, metadata |-> metadata,
   fields |-> values, labels |-> names]

\* What is gathered after k lines, unless one of them is faulty
Gathered(m, lines, k) ==
  /\ m.service <=> Open(lines, "service_modes", k)
  /\ m.metadata <=> Open(lines, "metadata", k)
  /\ m.fields = [f \in Fields |-> ManifestValue(lines, f, k)]

IsRead(m, lines, k) ==
  /\ m = Read(m.ok, m.service, m.metadata, m.fields, m.labels)
  /\ m.ok \in BOOLEAN /\ m.service \in BOOLEAN /\ m.metadata \in BOOLEAN
  /\ m.ok <=> \A j \in 1..k : ~FaultyLine(lines, j)
  /\ m.ok => Gathered(m, lines, k)

LEMMA UnreadIsRead ==
  ASSUME NEW lines, IsManifest(lines)
  PROVE  IsRead(Unread, lines, 0)
<1>1. \A f \in Fields : ManifestValue(lines, f, 0) = None
  BY DEF ManifestValue
<1>2. Unread.fields = [f \in Fields |-> ManifestValue(lines, f, 0)]
  BY <1>1 DEF Unread
<1>3. \A section : ~Open(lines, section, 0)
  BY DEF Open
<1>4. Unread = Read(Unread.ok, Unread.service, Unread.metadata, Unread.fields, Unread.labels)
  BY DEF Unread, Read
<1>5. Unread.ok = TRUE /\ Unread.service = FALSE /\ Unread.metadata = FALSE
  BY DEF Unread
<1>6. \A j \in 1..0 : FALSE
  OBVIOUS
<1> QED BY <1>2, <1>3, <1>4, <1>5, <1>6 DEF IsRead, Gathered

\* What the next line does to the sections, and to what was gathered
IsSectioned(in, m, lines, k) ==
  /\ in = Read(TRUE, in.service, in.metadata, m.fields, m.labels)
  /\ in.service \in BOOLEAN /\ in.metadata \in BOOLEAN
  /\ in.service <=> Open(lines, "service_modes", k)
  /\ in.metadata <=> Open(lines, "metadata", k)
  /\ ~IsHeader(lines[k]) =>
       /\ in.service <=> InSection(lines, "service_modes", k)
       /\ in.metadata <=> InSection(lines, "metadata", k)

LEMMA SectionsRead ==
  ASSUME NEW lines, IsManifest(lines), NEW k \in DOMAIN lines, NEW m,
         IsRead(m, lines, k - 1), m.ok
  PROVE  IsSectioned(InSections(m, lines[k]), m, lines, k)
<1> SUFFICES ASSUME NEW in, in = InSections(m, lines[k])
             PROVE  IsSectioned(in, m, lines, k)
  OBVIOUS
<1> DEFINE line == lines[k]
           outer == IF line.indented THEN m
                    ELSE [m EXCEPT !.service = FALSE, !.metadata = FALSE]
<1>1. k \in Nat \ {0} /\ line.indented \in BOOLEAN
  BY DEF IsManifest
<1>9. PICK yes : yes = TRUE
  OBVIOUS
<1>2. PICK b, c, values, names : m = Read(yes, b, c, values, names)
  <2>1. m.ok = yes /\ m = Read(m.ok, m.service, m.metadata, m.fields, m.labels)
    BY <1>9 DEF IsRead
  <2> QED BY <2>1
<1>3. /\ m.service = b /\ m.metadata = c /\ m.fields = values /\ m.labels = names
  BY <1>2 DEF Read
<1>4. /\ m.service \in BOOLEAN /\ m.metadata \in BOOLEAN
      /\ m.service <=> Open(lines, "service_modes", k - 1)
      /\ m.metadata <=> Open(lines, "metadata", k - 1)
  <2>1. m.service \in BOOLEAN /\ m.metadata \in BOOLEAN /\ Gathered(m, lines, k - 1)
    BY DEF IsRead
  <2> QED BY <2>1 DEF Gathered
<1>5. PICK s \in BOOLEAN, t \in BOOLEAN :
        /\ outer = Read(yes, s, t, values, names)
        /\ s = (line.indented /\ m.service) /\ t = (line.indented /\ m.metadata)
  <2>1. CASE line.indented
    <3>1. /\ outer = m /\ b = (line.indented /\ m.service)
          /\ c = (line.indented /\ m.metadata) /\ b \in BOOLEAN /\ c \in BOOLEAN
      BY <2>1, <1>3, <1>4, Zenon
    <3> HIDE DEF outer
    <3> QED BY <3>1, <1>2
  <2>2. CASE ~line.indented
    <3>1. PICK no : no = FALSE
      OBVIOUS
    <3>2. PICK r : r = m /\ outer = [[r EXCEPT !.service = no] EXCEPT !.metadata = no]
      BY <2>2, <3>1
    <3> HIDE DEF outer, line
    <3>7. r = Read(yes, b, c, values, names)
      BY <1>2, <3>2
    <3>3. [r EXCEPT !.service = no] = Read(yes, no, c, values, names)
      BY <3>7 DEF Read
    <3>4. [[r EXCEPT !.service = no] EXCEPT !.metadata = no]
            = [Read(yes, no, c, values, names) EXCEPT !.metadata = no]
      BY <3>3
    <3>5. [Read(yes, no, c, values, names) EXCEPT !.metadata = no]
            = Read(yes, no, no, values, names)
      BY DEF Read
    <3>6. /\ outer = Read(yes, no, no, values, names) /\ no \in BOOLEAN
          /\ no = (line.indented /\ m.service) /\ no = (line.indented /\ m.metadata)
      BY <2>2, <3>1, <3>2, <3>4, <3>5, Zenon
    <3> QED BY <3>6, Zenon
  <2> QED BY <2>1, <2>2
<1>6. /\ s <=> InSection(lines, "service_modes", k)
      /\ t <=> InSection(lines, "metadata", k)
  <2>1. \A section : InSection(lines, section, k) <=> Open(lines, section, k - 1) /\ line.indented
    BY <1>1, SectionsOpen
  <2> HIDE DEF line, outer
  <2> QED BY <1>4, <1>5, <2>1, Zenon
<1>7. \A section : Open(lines, section, k) <=>
        InSection(lines, section, k) \/ (IsHeader(line) /\ line.key = section)
  BY <1>1, SectionsOpen
<1>8. in = IF ~IsHeader(line) THEN outer
           ELSE IF line.key = "service_modes" THEN [outer EXCEPT !.service = TRUE]
           ELSE [outer EXCEPT !.metadata = TRUE]
  BY DEF InSections
<1> HIDE DEF outer, line
<1>10. CASE ~IsHeader(line)
  <2>1. in = Read(yes, s, t, values, names)
    BY <1>5, <1>8, <1>10
  <2>2. in.service = s /\ in.metadata = t
    BY <2>1 DEF Read
  <2> QED BY <2>1, <2>2, <1>3, <1>6, <1>7, <1>9, <1>10, Zenon DEF line, IsSectioned
<1>11. CASE IsHeader(line) /\ line.key = "service_modes"
  <2>1. [outer EXCEPT !.service = yes] = Read(yes, yes, t, values, names)
    BY <1>5 DEF Read
  <2>2. in = Read(yes, yes, t, values, names)
    BY <1>8, <1>9, <1>11, <2>1, Zenon
  <2>4. in.service = yes /\ in.metadata = t
    BY <2>2 DEF Read
  <2>3. line.key # "metadata"
    BY <1>11
  <2> QED BY <2>2, <2>3, <2>4, <1>3, <1>6, <1>7, <1>9, <1>11, Zenon DEF line, IsSectioned
<1>12. CASE IsHeader(line) /\ line.key = "metadata"
  <2>1. [outer EXCEPT !.metadata = yes] = Read(yes, s, yes, values, names)
    BY <1>5 DEF Read
  <2>2. in = Read(yes, s, yes, values, names)
    <3>1. line.key # "service_modes"
      BY <1>12
    <3> QED BY <1>8, <1>9, <1>12, <2>1, <3>1, Zenon
  <2>4. in.service = s /\ in.metadata = yes
    BY <2>2 DEF Read
  <2>3. line.key # "service_modes"
    BY <1>12
  <2> QED BY <2>2, <2>3, <2>4, <1>3, <1>6, <1>7, <1>9, <1>12, Zenon DEF line, IsSectioned
<1>13. IsHeader(line) => line.key \in {"service_modes", "metadata"}
  BY DEF IsHeader
<1> QED BY <1>10, <1>11, <1>12, <1>13 DEF line

\* What is gathered from a line: its field gets its value, if it is in order.
IsReadFrom(r, lines, k, service, metadata, values) ==
  \E ok \in BOOLEAN : \E more, names :
    /\ r = Read(ok, service, metadata, more, names)
    /\ ok <=> ~FaultyLine(lines, k)
    /\ ok => more = [f \in Fields |->
                      IF k \in LinesFor(lines, f) THEN lines[k].value ELSE values[f]]

LEMMA LabelRead ==
  ASSUME NEW a, NEW b, NEW c, NEW d, NEW e, NEW line, line.key # Empty
  PROVE  \E names : LabelLine(Read(a, b, c, d, e), line) = Read(a, b, c, d, names)
<1> SUFFICES ASSUME NEW r, r = Read(a, b, c, d, e)
             PROVE  \E names : LabelLine(r, line) = Read(a, b, c, d, names)
  OBVIOUS
<1> DEFINE names == [k \in DOMAIN r.labels \cup {line.key} |->
                       IF k = line.key THEN line.value ELSE r.labels[k]]
<1>1. LabelLine(r, line) = [r EXCEPT !.labels = names]
  BY DEF LabelLine
<1> HIDE DEF names
<1>2. [r EXCEPT !.labels = names] = Read(a, b, c, d, names)
  BY DEF Read
<1> QED BY <1>1, <1>2

\* A line that is not faulty and gives no field a value
LEMMA NoFieldRead ==
  ASSUME NEW lines, NEW k, NEW s, NEW t, NEW values, NEW names,
         DOMAIN values = Fields, values = [f \in Fields |-> values[f]],
         NEW r, r = Read(TRUE, s, t, values, names), ~FaultyLine(lines, k),
         \A f \in Fields : k \notin LinesFor(lines, f)
  PROVE  IsReadFrom(r, lines, k, s, t, values)
<1>1. values = [f \in Fields |->
                  IF k \in LinesFor(lines, f) THEN lines[k].value ELSE values[f]]
  OBVIOUS
<1> QED BY <1>1, Zenon DEF IsReadFrom

LEMMA FaultRead ==
  ASSUME NEW lines, NEW k, NEW s, NEW t, NEW values, NEW names,
         NEW r, r = Read(FALSE, s, t, values, names), FaultyLine(lines, k)
  PROVE  IsReadFrom(r, lines, k, s, t, values)
BY Zenon DEF IsReadFrom

LEMMA OneFieldRead ==
  ASSUME NEW lines, NEW k, NEW s, NEW t, NEW values, NEW names,
         DOMAIN values = Fields, values = [f \in Fields |-> values[f]],
         NEW in, in = Read(TRUE, s, t, values, names), ~FaultyLine(lines, k),
         lines[k].key \in Fields,
         \A f \in Fields : k \in LinesFor(lines, f) <=> f = lines[k].key
  PROVE  IsReadFrom([in EXCEPT !.fields[lines[k].key] = lines[k].value], lines, k, s, t, values)
<1> DEFINE more == [values EXCEPT ![lines[k].key] = lines[k].value]
<1>1. more = [f \in Fields |->
                IF k \in LinesFor(lines, f) THEN lines[k].value ELSE values[f]]
  OBVIOUS
<1>3. PICK yes, key, x : yes = TRUE /\ key = lines[k].key /\ x = lines[k].value
  OBVIOUS
<1> HIDE DEF more
<1>4. in = Read(yes, s, t, values, names)
  BY <1>3
<1>5. [in EXCEPT !.fields[key] = x] = Read(yes, s, t, [values EXCEPT ![key] = x], names)
  BY <1>4 DEF Read
<1>2. [in EXCEPT !.fields[lines[k].key] = lines[k].value] = Read(TRUE, s, t, more, names)
  BY <1>3, <1>5, Zenon DEF more
<1> QED BY <1>1, <1>2, Zenon DEF IsReadFrom

\* The keys of fields are those of none of the headers.
LEMMA FieldKeys ==
  /\ Fields \cap {"service_modes", "metadata"} = {}
  /\ Modes \subseteq Fields /\ Paths \subseteq Fields /\ Required \subseteq Paths
  /\ Fields \ Modes = Paths \cup {"policy"} \cup Rolling \cup {"seed"}
  /\ (Paths \cup {"policy"}) \cap (Rolling \cup {"seed"}) = {}
BY DEF Fields, Modes, Paths, Required, Rolling

\* A line of each place is refused if and only if it is faulty there.
LEMMA LineRead ==
  ASSUME NEW lines, IsManifest(lines), NEW k \in DOMAIN lines, NEW m,
         IsRead(m, lines, k - 1), m.ok
  PROVE  \E s, t \in BOOLEAN :
           /\ s <=> Open(lines, "service_modes", k)
           /\ t <=> Open(lines, "metadata", k)
           /\ IsReadFrom(ReadLine(m, lines[k]), lines, k, s, t, m.fields)
<1> DEFINE line == lines[k]
           in == InSections(m, line)
           r == ReadLine(m, line)
           service == InSection(lines, "service_modes", k)
           metadata == InSection(lines, "metadata", k)
<1>1. PICK s, t, names :
        /\ in = Read(TRUE, s, t, m.fields, names)
        /\ s \in BOOLEAN /\ t \in BOOLEAN /\ s = in.service /\ t = in.metadata
        /\ s <=> Open(lines, "service_modes", k)
        /\ t <=> Open(lines, "metadata", k)
        /\ ~IsHeader(line) => (s <=> service) /\ (t <=> metadata)
  <2>1. in = InSections(m, lines[k])
    OBVIOUS
  <2> HIDE DEF in
  <2>2. IsSectioned(in, m, lines, k)
    BY <2>1, SectionsRead, Zenon
  <2>3. /\ in = Read(TRUE, in.service, in.metadata, m.fields, m.labels)
        /\ in.service \in BOOLEAN /\ in.metadata \in BOOLEAN
        /\ in.service <=> Open(lines, "service_modes", k)
        /\ in.metadata <=> Open(lines, "metadata", k)
        /\ ~IsHeader(line) => (in.service <=> service) /\ (in.metadata <=> metadata)
    BY <2>2, Zenon DEF IsSectioned
  <2> HIDE DEF service, metadata, line
  <2> QED BY <2>3, Zenon
<1>2. DOMAIN m.fields = Fields /\ m.fields = [f \in Fields |-> m.fields[f]]
  BY DEF IsRead, Gathered
<1>3. r = IF IsHeader(line) THEN in
          ELSE IF line.key = None THEN Failed(in)
          ELSE IF s THEN ModeLine(in, line)
          ELSE IF t THEN LabelLine(in, line)
          ELSE FieldLine(in, line)
  BY <1>1 DEF ReadLine
<1>4. AtTop(lines, k) <=> ~service /\ ~metadata
  BY DEF AtTop
<1>5. FaultyLine(lines, k) <=>
        /\ ~IsHeader(line)
        /\ \/ line.key = None
           \/ service /\ (line.key \notin Modes \/ line.value \notin Values)
           \/ ~service /\ metadata /\ line.key = Empty
           \/ /\ ~service /\ ~metadata
              /\ \/ line.key \notin Fields \ Modes \/ line.value = Empty
                 \/ line.key \in Rolling \cup {"seed"} /\ line.value = Bad
  BY <1>4 DEF FaultyLine
<1>6. \A f : k \in LinesFor(lines, f) <=>
        line.key = f /\ IF f \in Modes THEN service ELSE ~service /\ ~metadata
  BY <1>4 DEF LinesFor
<1>7. Failed(in) = Read(FALSE, s, t, m.fields, names)
  <2> HIDE DEF in
  <2>1. PICK yes, no : yes = TRUE /\ no = FALSE
    OBVIOUS
  <2>2. in = Read(yes, s, t, m.fields, names)
    BY <1>1, <2>1, Zenon
  <2>3. PICK q, values : q = in /\ values = m.fields
    OBVIOUS
  <2>4. q = Read(yes, s, t, values, names)
    BY <2>2, <2>3, Zenon
  <2>5. [q EXCEPT !.ok = no] = Read(no, s, t, values, names)
    BY <2>4 DEF Read
  <2>6. Failed(q) = [q EXCEPT !.ok = no]
    BY <2>1 DEF Failed
  <2> QED BY <2>1, <2>3, <2>5, <2>6, Zenon
<1>8. IsReadFrom(r, lines, k, s, t, m.fields)
  <2> HIDE DEF in, r, line, service, metadata
  <2>1. CASE IsHeader(line)
    <3>1. \A f \in Fields : k \notin LinesFor(lines, f)
      BY <1>6, <2>1, FieldKeys DEF IsHeader
    <3>2. r = in /\ ~FaultyLine(lines, k)
      BY <1>3, <1>5, <2>1
    <3> QED BY <1>1, <1>2, <3>1, <3>2, NoFieldRead
  <2>2. CASE ~IsHeader(line) /\ line.key = None
    <3>1. r = Failed(in) /\ FaultyLine(lines, k)
      BY <1>3, <1>5, <2>2
    <3> QED BY <1>7, <3>1, FaultRead
  <2>3. CASE ~IsHeader(line) /\ line.key # None /\ s
    <3>1. service /\ r = ModeLine(in, line)
      BY <1>1, <1>3, <2>3
    <3>2. CASE line.key \in Modes /\ line.value \in Values
      <4>1. r = [in EXCEPT !.fields[line.key] = line.value] /\ ~FaultyLine(lines, k)
        BY <1>5, <2>3, <3>1, <3>2 DEF ModeLine
      <4>2. line.key \in Fields /\ \A f \in Fields : k \in LinesFor(lines, f) <=> f = line.key
        BY <1>6, <3>1, <3>2, FieldKeys
      <4> QED BY <1>1, <1>2, <4>1, <4>2, OneFieldRead DEF line
    <3>3. CASE ~(line.key \in Modes /\ line.value \in Values)
      <4>1. r = Failed(in) /\ FaultyLine(lines, k)
        BY <1>5, <2>3, <3>1, <3>3 DEF ModeLine
      <4> QED BY <1>7, <4>1, FaultRead
    <3> QED BY <3>2, <3>3
  <2>4. CASE ~IsHeader(line) /\ line.key # None /\ ~s /\ t
    <3>1. ~service /\ metadata /\ r = LabelLine(in, line)
      BY <1>1, <1>3, <2>4
    <3>2. CASE line.key = Empty
      <4>1. r = Failed(in) /\ FaultyLine(lines, k)
        BY <1>5, <2>4, <3>1, <3>2 DEF LabelLine
      <4> QED BY <1>7, <4>1, FaultRead
    <3>3. CASE line.key # Empty
      <4>1. PICK more : r = Read(TRUE, s, t, m.fields, more)
        <5>1. PICK yes : yes = TRUE
          OBVIOUS
        <5>2. in = Read(yes, s, t, m.fields, names)
          BY <1>1, <5>1, Zenon
        <5>3. PICK more : LabelLine(Read(yes, s, t, m.fields, names), line)
                            = Read(yes, s, t, m.fields, more)
          BY <3>3, LabelRead
        <5> QED BY <3>1, <5>1, <5>2, <5>3, Zenon
      <4>2. ~FaultyLine(lines, k) /\ \A f \in Fields : k \notin LinesFor(lines, f)
        BY <1>5, <1>6, <2>4, <3>1, <3>3
      <4> QED BY <1>2, <4>1, <4>2, NoFieldRead
    <3> QED BY <3>2, <3>3
  <2>5. CASE ~IsHeader(line) /\ line.key # None /\ ~s /\ ~t
    <3> DEFINE good == /\ line.key \in Fields \ Modes
                       /\ line.value # Empty
                       /\ line.key \in Paths \cup {"policy"} \/ line.value # Bad
    <3>1. ~service /\ ~metadata /\ r = FieldLine(in, line)
      BY <1>1, <1>3, <2>5
    <3>2. FaultyLine(lines, k) <=> ~good
      BY <1>5, <2>5, <3>1, FieldKeys
    <3>3. r = IF good THEN [in EXCEPT !.fields[line.key] = line.value] ELSE Failed(in)
      BY <3>1 DEF FieldLine
    <3>4. good => line.key \in Fields /\ line.key \notin Modes
      OBVIOUS
    <3> HIDE DEF good
    <3>5. CASE good
      <4>1. line.key \in Fields /\ \A f \in Fields : k \in LinesFor(lines, f) <=> f = line.key
        BY <1>6, <3>1, <3>4, <3>5
      <4> QED BY <1>1, <1>2, <3>2, <3>3, <3>5, <4>1, OneFieldRead DEF line
    <3>6. CASE ~good
      BY <1>7, <3>2, <3>3, <3>6, FaultRead
    <3> QED BY <3>5, <3>6
  <2> QED BY <2>1, <2>2, <2>3, <2>4, <2>5
<1> QED BY <1>1, <1>8, Zenon

LEMMA NextIsRead ==
  ASSUME NEW lines, IsManifest(lines), NEW k \in DOMAIN lines, NEW m, IsRead(m, lines, k - 1)
  PROVE  IsRead(ReadLine(m, lines[k]), lines, k)
<1>1. k \in Nat /\ 1..k = (1..k - 1) \cup {k}
  BY DEF IsManifest
<1>2. CASE ~m.ok
  <2>1. ReadLine(m, lines[k]) = m
    BY <1>2 DEF ReadLine
  <2>2. m.ok \in BOOLEAN /\ m.service \in BOOLEAN /\ m.metadata \in BOOLEAN
        /\ m = Read(m.ok, m.service, m.metadata, m.fields, m.labels)
    BY DEF IsRead
  <2>3. ~\A j \in 1..k : ~FaultyLine(lines, j)
    BY <1>1, <1>2 DEF IsRead
  <2> QED BY <1>2, <2>1, <2>2, <2>3, Zenon DEF IsRead
<1>3. CASE m.ok
  <2>1. PICK s, t \in BOOLEAN :
          /\ s <=> Open(lines, "service_modes", k)
          /\ t <=> Open(lines, "metadata", k)
          /\ IsReadFrom(ReadLine(m, lines[k]), lines, k, s, t, m.fields)
    BY <1>3, LineRead
  <2>13. PICK ok \in BOOLEAN : \E more, names :
          /\ ReadLine(m, lines[k]) = Read(ok, s, t, more, names)
          /\ ok <=> ~FaultyLine(lines, k)
          /\ ok => more = [f \in Fields |->
                            IF k \in LinesFor(lines, f) THEN lines[k].value ELSE m.fields[f]]
    BY <2>1, Zenon DEF IsReadFrom
  <2>2. PICK more, names :
          /\ ReadLine(m, lines[k]) = Read(ok, s, t, more, names)
          /\ ok <=> ~FaultyLine(lines, k)
          /\ ok => more = [f \in Fields |->
                            IF k \in LinesFor(lines, f) THEN lines[k].value ELSE m.fields[f]]
    BY <2>13
  <2>3. PICK r : r = ReadLine(m, lines[k])
    OBVIOUS
  <2>4. r = Read(ok, s, t, more, names)
    BY <2>2, <2>3, Zenon
  <2>5. r.ok = ok /\ r.service = s /\ r.metadata = t /\ r.fields = more /\ r.labels = names
    BY <2>4 DEF Read
  <2>6. \A j \in 1..k - 1 : ~FaultyLine(lines, j)
    BY <1>3 DEF IsRead
  <2>7. ok <=> \A j \in 1..k : ~FaultyLine(lines, j)
    BY <1>1, <2>2, <2>6
  <2>8. m.fields = [f \in Fields |-> ManifestValue(lines, f, k - 1)]
    BY <1>3 DEF IsRead, Gathered
  <2>9. \A f : ManifestValue(lines, f, k) =
                 IF k \in LinesFor(lines, f) THEN lines[k].value ELSE ManifestValue(lines, f, k - 1)
    BY NextValue
  <2>10. ok => more = [f \in Fields |-> ManifestValue(lines, f, k)]
    BY <2>2, <2>8, <2>9
  <2>11. ok => Gathered(r, lines, k)
    BY <2>1, <2>5, <2>10, Zenon DEF Gathered
  <2>12. IsRead(r, lines, k)
    BY <2>4, <2>5, <2>7, <2>11, Zenon DEF IsRead
  <2> QED BY <2>3, <2>12
<1>4. m.ok \in BOOLEAN
  BY DEF IsRead
<1> QED BY <1>2, <1>3, <1>4

\* The loop over the lines, as a function of the number of lines that were read
IsLoop(after, lines, n) ==
  after = [k \in 0..n |-> IF k = 0 THEN Unread ELSE ReadLine(after[k - 1], lines[k])]

LEMMA LoopExists ==
  ASSUME NEW lines, NEW n \in Nat
  PROVE  \E after : IsLoop(after, lines, n)
<1> DEFINE Without == {k \in Nat : ~\E after : IsLoop(after, lines, k)}
<1>1. SUFFICES ASSUME Without # {} PROVE FALSE
  OBVIOUS
<1>2. Without \in SUBSET Nat
  OBVIOUS
<1>3. PICK k \in Without : \A j \in Without : k <= j
  <2> HIDE DEF Without
  <2> QED BY <1>1, <1>2, LeastOf
<1>4. CASE k = 0
  <2> DEFINE after == [i \in 0..0 |-> Unread]
  <2>1. IsLoop(after, lines, 0)
    BY DEF IsLoop
  <2> HIDE DEF after
  <2> QED BY <1>3, <1>4, <2>1
<1>5. CASE k # 0
  <2>1. k \in Nat \ {0} /\ k - 1 \in Nat
    BY <1>5
  <2>2. k - 1 \notin Without
    <3>1. ~(k <= k - 1)
      BY <2>1
    <3> HIDE DEF Without
    <3> QED BY <1>3, <3>1
  <2>3. PICK before : IsLoop(before, lines, k - 1)
    BY <2>1, <2>2
  <2> DEFINE after == [i \in 0..k |-> IF i = k THEN ReadLine(before[k - 1], lines[k])
                                      ELSE before[i]]
  <2>4. \A i \in 0..k : after[i] = IF i = 0 THEN Unread ELSE ReadLine(after[i - 1], lines[i])
    <3> SUFFICES ASSUME NEW i \in 0..k
                 PROVE  after[i] = IF i = 0 THEN Unread ELSE ReadLine(after[i - 1], lines[i])
      OBVIOUS
    <3>1. CASE i = k
      BY <2>1, <3>1
    <3>2. CASE i # k
      <4>1. i \in 0..k - 1
        BY <2>1, <3>2
      <4>2. before[i] = IF i = 0 THEN Unread ELSE ReadLine(before[i - 1], lines[i])
        BY <2>3, <4>1 DEF IsLoop
      <4>3. i # 0 => after[i - 1] = before[i - 1]
        BY <2>1, <4>1
      <4> QED BY <3>2, <4>2, <4>3
    <3> QED BY <3>1, <3>2
  <2>5. IsLoop(after, lines, k)
    <3>1. after = [i \in 0..k |-> after[i]]
      OBVIOUS
    <3> HIDE DEF after
    <3> QED BY <2>4, <3>1 DEF IsLoop
  <2> HIDE DEF after
  <2> QED BY <1>3, <2>5
<1> QED BY <1>4, <1>5

\* A manifest is accepted if none of its lines is faulty, and it gives each field
\* the value of the last line for it.
LEMMA Parsed ==
  ASSUME NEW lines, lines # None, IsManifest(lines)
  PROVE  IsRead(ParsedManifest(lines), lines, Len(lines))
<1> DEFINE loop == CHOOSE after : after = [k \in 0..Len(lines) |->
                     IF k = 0 THEN Unread ELSE ReadLine(after[k - 1], lines[k])]
           Wrong == {k \in 0..Len(lines) : ~IsRead(loop[k], lines, k)}
<1>1. Len(lines) \in Nat /\ DOMAIN lines = 1..Len(lines)
  BY DEF IsManifest
<1>2. ParsedManifest(lines) = loop[Len(lines)]
  BY DEF ParsedManifest
<1>3. loop = [k \in 0..Len(lines) |-> IF k = 0 THEN Unread ELSE ReadLine(loop[k - 1], lines[k])]
  <2>1. PICK after : IsLoop(after, lines, Len(lines))
    BY <1>1, LoopExists
  <2>2. after = [k \in 0..Len(lines) |-> IF k = 0 THEN Unread ELSE ReadLine(after[k - 1], lines[k])]
    BY <2>1 DEF IsLoop
  <2> QED BY <2>2, Zenon
<1> HIDE DEF loop
<1>4. Wrong = {}
  <2>1. SUFFICES ASSUME Wrong # {} PROVE FALSE
    OBVIOUS
  <2>2. PICK k \in Wrong : \A j \in Wrong : k <= j
    <3>1. Wrong \in SUBSET Nat
      BY <1>1
    <3> HIDE DEF Wrong
    <3> QED BY <2>1, <3>1, LeastOf
  <2>3. k # 0
    <3>1. loop[0] = Unread
      BY <1>1, <1>3
    <3> QED BY <3>1, UnreadIsRead
  <2>4. k \in DOMAIN lines /\ k - 1 \in 0..Len(lines) /\ ~(k <= k - 1)
    BY <1>1, <2>3
  <2>5. IsRead(loop[k - 1], lines, k - 1)
    BY <2>2, <2>4
  <2>6. loop[k] = ReadLine(loop[k - 1], lines[k])
    BY <1>1, <1>3, <2>3
  <2> QED BY <2>4, <2>5, <2>6, NextIsRead
<1> QED BY <1>1, <1>2, <1>4

------------------------------------------------------------------------------
(* The end *)

LEMMA ArgumentsAt == \A f : ArgumentsFor(f) = FlagAt(argv, f)
BY DEF ArgumentsFor, FlagAt

\* The options that the command line alone gives
LEMMA OptionsGiven ==
  ASSUME Parsing, NEW f \in Fields
  PROVE  /\ f \in given <=> ArgumentsFor(f) # {}
         /\ ArgumentsFor(f) # {} => options[f] = argv[Last(ArgumentsFor(f))].value
         /\ ArgumentsFor(f) = {} => options[f] = IF f \in Required THEN Empty ELSE Default
<1>1. /\ given = {g \in Fields : FlagAt(argv, g) # {}}
      /\ options = [g \in Fields |-> ArgumentValue(argv, g)]
  BY DEF Parsing, OptionsAreArguments
<1>2. ArgumentsFor(f) = FlagAt(argv, f)
  BY ArgumentsAt
<1> QED BY <1>1, <1>2 DEF ArgumentValue

\* The command line has no option twice that may stand there only once.
LEMMA EndBatchIInv == IInv /\ EndBatch => IInv'
<1> SUFFICES ASSUME IInv, EndBatch PROVE IInv'
  OBVIOUS
<1>1. Parsing /\ batch # None /\ batch' = batch /\ argv' = argv /\ config' = config
      /\ result' = IF given \ Rolling # {} \/ config \/ batch = Empty THEN "error" ELSE "batch"
  BY DEF IInv, EndBatch
<1>2. FaultyArguments' <=> FaultyArguments
  BY <1>1 DEF FaultyArguments, Clash
<1>3. result' = "error" <=> FaultyArguments'
  BY <1>1, <1>2, FaultsLeft
<1>4. RefusedIffFaulty'
  BY <1>1, <1>3 DEF RefusedIffFaulty
<1>5. FlagsOverrideManifest' /\ result' # "parsing"
  BY <1>1 DEF FlagsOverrideManifest
<1> QED BY <1>4, <1>5 DEF IInv

LEMMA EndWithoutManifestIInv == IInv /\ EndWithoutManifest => IInv'
<1> SUFFICES ASSUME IInv, EndWithoutManifest PROVE IInv'
  OBVIOUS
<1>1. /\ Parsing /\ batch = None /\ ~config
      /\ batch' = batch /\ argv' = argv /\ config' = config /\ options' = options
      /\ result' = IF Complete(options) THEN "run" ELSE "error"
  BY DEF IInv, EndWithoutManifest
<1>2. ~FaultyArguments'
  <2>1. FaultyArguments' <=> FaultyArguments
    BY <1>1 DEF FaultyArguments, Clash
  <2> QED BY <1>1, <2>1, FaultsLeft
<1>3. \A f : ArgumentsFor(f)' = ArgumentsFor(f)
  BY <1>1 DEF ArgumentsFor
<1>4. Required \subseteq Fields
  BY FieldKeys
<1>5. Incomplete' <=> ~Complete(options)
  <2>1. \A f \in Required : options[f] = Empty <=>
          \/ ArgumentsFor(f) = {}
          \/ ArgumentsFor(f) # {} /\ argv[Last(ArgumentsFor(f))].value = Empty
    BY <1>1, <1>4, OptionsGiven
  <2>2. Incomplete' <=> \E f \in Required :
          \/ ArgumentsFor(f) = {}
          \/ ArgumentsFor(f) # {} /\ argv[Last(ArgumentsFor(f))].value = Empty
    BY <1>1, <1>3 DEF Incomplete, Misses
  <2> QED BY <2>1, <2>2 DEF Complete
<1>6. RefusedIffFaulty'
  BY <1>1, <1>2, <1>5 DEF RefusedIffFaulty
<1>7. FlagsOverrideManifest'
  <2> SUFFICES ASSUME result' = "run", NEW f \in Fields
               PROVE  options[f] = IF ArgumentsFor(f) # {}
                                   THEN argv[Last(ArgumentsFor(f))].value ELSE Default
    BY <1>1, <1>3 DEF FlagsOverrideManifest
  <2>1. f \in Required => options[f] # Empty
    BY <1>1 DEF Complete
  <2> QED BY <1>1, <2>1, OptionsGiven
<1>8. result' # "parsing"
  BY <1>1
<1> QED BY <1>6, <1>7, <1>8 DEF IInv

\* What the manifest gives, as far as it is in order
LEMMA ManifestGives ==
  ASSUME NEW lines \in Manifests
  PROVE  /\ ParsedManifest(lines).ok <=>
              lines # None /\ \A k \in DOMAIN lines : ~FaultyLine(lines, k)
         /\ ParsedManifest(lines).ok => \A f \in Fields :
              /\ LinesFor(lines, f) = {} <=> ParsedManifest(lines).fields[f] = None
              /\ LinesFor(lines, f) # {} =>
                   /\ ParsedManifest(lines).fields[f] = lines[Last(LinesFor(lines, f))].value
                   /\ f \in Required => ParsedManifest(lines).fields[f] # Empty
<1> DEFINE m == ParsedManifest(lines)
<1>1. CASE lines = None
  <2>1. m = Failed(Unread)
    BY <1>1 DEF ParsedManifest
  <2>2. m.ok = FALSE
    BY <2>1 DEF Failed, Unread
  <2> QED BY <1>1, <2>2
<1>2. CASE lines # None
  <2>1. IsManifest(lines)
    BY <1>2, CommandLineAssumption
  <2>2. IsRead(m, lines, Len(lines)) /\ Len(lines) \in Nat /\ DOMAIN lines = 1..Len(lines)
    BY <1>2, <2>1, Parsed DEF IsManifest
  <2> HIDE DEF m
  <2>3. m.ok <=> \A k \in DOMAIN lines : ~FaultyLine(lines, k)
    BY <2>2 DEF IsRead
  <2>4. ASSUME m.ok, NEW f \in Fields
        PROVE  /\ LinesFor(lines, f) = {} <=> m.fields[f] = None
               /\ LinesFor(lines, f) # {} =>
                    /\ m.fields[f] = lines[Last(LinesFor(lines, f))].value
                    /\ f \in Required => m.fields[f] # Empty
    <3>1. m.fields[f] = ManifestValue(lines, f, Len(lines))
      BY <2>2, <2>4 DEF IsRead, Gathered
    <3>2. LinesFor(lines, f) \cap (1..Len(lines)) = LinesFor(lines, f)
      BY <2>2 DEF LinesFor
    <3>3. LinesFor(lines, f) = {} => m.fields[f] = None
      BY <3>1, <3>2 DEF ManifestValue
    <3>4. ASSUME LinesFor(lines, f) # {}
          PROVE  /\ m.fields[f] = lines[Last(LinesFor(lines, f))].value
                 /\ m.fields[f] # None
                 /\ f \in Required => m.fields[f] # Empty
      <4>1. m.fields[f] = lines[Last(LinesFor(lines, f))].value
        BY <3>1, <3>2, <3>4 DEF ManifestValue
      <4>2. LinesFor(lines, f) \in SUBSET (1..Len(lines))
        BY <3>2
      <4>3. PICK k \in LinesFor(lines, f) : k = Last(LinesFor(lines, f))
        BY <2>2, <3>4, <4>2, LastOf
      <4>4. k \in DOMAIN lines /\ ~FaultyLine(lines, k) /\ lines[k].key = f
        BY <2>3, <2>4, <4>3 DEF LinesFor
      <4>5. ~IsHeader(lines[k])
        BY <4>4, FieldKeys DEF IsHeader
      <4>6. lines[k].key # None
        BY <4>4, <4>5 DEF FaultyLine
      <4>7. lines[k].value # None
        BY <2>1, <4>4, <4>6 DEF IsManifest
      <4>8. ASSUME f \in Required PROVE lines[k].value # Empty
        <5>1. f \notin Modes
          BY <4>8 DEF Required, Modes
        <5>2. AtTop(lines, k)
          BY <4>3, <5>1 DEF LinesFor
        <5> QED BY <4>4, <4>5, <5>2 DEF FaultyLine
      <4> QED BY <4>1, <4>3, <4>7, <4>8
    <3> QED BY <3>3, <3>4
  <2> QED BY <1>2, <2>3, <2>4 DEF m
<1> QED BY <1>1, <1>2

\* What the manifest fills in is given on the command line, or by the manifest.
LEMMA FilledIs ==
  ASSUME Parsing, NEW lines \in Manifests, ParsedManifest(lines).ok, NEW f \in Fields
  PROVE  Filled(ParsedManifest(lines))[f] =
           IF ArgumentsFor(f) # {} THEN argv[Last(ArgumentsFor(f))].value
           ELSE IF LinesFor(lines, f) # {} THEN lines[Last(LinesFor(lines, f))].value
           ELSE IF f \in Required THEN Empty ELSE Default
<1> DEFINE m == ParsedManifest(lines)
<1>1. Filled(m)[f] = IF f \in given \/ m.fields[f] = None THEN options[f] ELSE m.fields[f]
  BY DEF Filled
<1>2. /\ LinesFor(lines, f) = {} <=> m.fields[f] = None
      /\ LinesFor(lines, f) # {} => m.fields[f] = lines[Last(LinesFor(lines, f))].value
  BY ManifestGives
<1> HIDE DEF m
<1>3. /\ f \in given <=> ArgumentsFor(f) # {}
      /\ ArgumentsFor(f) # {} => options[f] = argv[Last(ArgumentsFor(f))].value
      /\ ArgumentsFor(f) = {} => options[f] = IF f \in Required THEN Empty ELSE Default
  BY OptionsGiven
<1> QED BY <1>1, <1>2, <1>3 DEF m

LEMMA EndWithManifestIInv ==
  ASSUME IInv, NEW lines \in Manifests, EndWithManifest(lines)
  PROVE  IInv'
<1> DEFINE m == ParsedManifest(lines)
<1>1. /\ Parsing /\ batch = None /\ config
      /\ batch' = batch /\ argv' = argv /\ config' = config /\ manifest' = lines
  BY DEF IInv, EndWithManifest
<1>2. \/ Usable(m) /\ options' = Filled(m)
           /\ result' = IF Complete(Filled(m)) THEN "run" ELSE "error"
      \/ ~Usable(m) /\ result' = "error"
  BY DEF EndWithManifest
<1>3. ~FaultyArguments'
  <2>1. FaultyArguments' <=> FaultyArguments
    BY <1>1 DEF FaultyArguments, Clash
  <2> QED BY <1>1, <2>1, FaultsLeft
<1>4. \A f : ArgumentsFor(f)' = ArgumentsFor(f)
  BY <1>1 DEF ArgumentsFor
<1>5. Required \subseteq Fields /\ "policy" \in Fields /\ "policy" \notin Required
  BY FieldKeys DEF Fields, Required
<1>6. m.ok => \A f \in Fields :
        /\ LinesFor(lines, f) = {} <=> m.fields[f] = None
        /\ LinesFor(lines, f) # {} =>
             /\ m.fields[f] = lines[Last(LinesFor(lines, f))].value
             /\ f \in Required => m.fields[f] # Empty
  BY ManifestGives
<1>7. m.ok <=> lines # None /\ \A k \in DOMAIN lines : ~FaultyLine(lines, k)
  BY ManifestGives
<1>8. m.ok => \A f \in Fields :
        Filled(m)[f] =
          IF ArgumentsFor(f) # {} THEN argv[Last(ArgumentsFor(f))].value
          ELSE IF LinesFor(lines, f) # {} THEN lines[Last(LinesFor(lines, f))].value
          ELSE IF f \in Required THEN Empty ELSE Default
  BY <1>1, FilledIs
<1>9. \A f \in Fields : f \in given <=> ArgumentsFor(f) # {}
  BY <1>1, OptionsGiven
<1> HIDE DEF m
<1> DEFINE NoPolicy == /\ ArgumentsFor("policy") = {} /\ LinesFor(lines, "policy") # {}
                       /\ lines[Last(LinesFor(lines, "policy"))].value = Bad
           Missed(f) == ArgumentsFor(f) = {} /\ LinesFor(lines, f) = {}
           Blank(f) == /\ ArgumentsFor(f) # {}
                       /\ argv[Last(ArgumentsFor(f))].value = Empty
<1>10. FaultyManifest(lines) <=> ~m.ok \/ NoPolicy
  BY <1>7 DEF FaultyManifest
<1>11. FaultyManifest(lines)' <=> FaultyManifest(lines)
  BY <1>4 DEF FaultyManifest, FaultyLine, InSection, AtTop, LinesFor
<1>12. Incomplete' <=> \E f \in Required : Missed(f) \/ Blank(f)
  BY <1>1, <1>4 DEF Incomplete, Misses
<1>13. m.ok => (NoPolicy <=> ~("policy" \in given \/ m.fields["policy"] # Bad))
  BY <1>5, <1>6, <1>9, MarkersDiffer
<1>14. m.ok => \A f \in Required : Missed(f) <=> ~(f \in given \/ m.fields[f] # None)
  BY <1>5, <1>6, <1>9
<1>15. m.ok => \A f \in Required : Filled(m)[f] = Empty <=> Missed(f) \/ Blank(f)
  BY <1>5, <1>6, <1>8
<1>16. Usable(m) <=> m.ok /\ ~NoPolicy /\ \A f \in Required : ~Missed(f)
  BY <1>13, <1>14 DEF Usable
<1> HIDE DEF NoPolicy, Missed, Blank
<1>17. m.ok => (Complete(Filled(m)) <=> \A f \in Required : ~Missed(f) /\ ~Blank(f))
  BY <1>15 DEF Complete
<1>18. result' = "error" <=> ~m.ok \/ NoPolicy \/ \E f \in Required : Missed(f) \/ Blank(f)
  BY <1>2, <1>16, <1>17
<1>19. RefusedIffFaulty'
  <2>1. FaultyManifest(manifest)' <=> FaultyManifest(lines)
    BY <1>1, <1>4 DEF FaultyManifest, FaultyLine, InSection, AtTop, LinesFor
  <2> QED BY <2>1, <1>1, <1>3, <1>10, <1>12, <1>18 DEF RefusedIffFaulty
<1>20. FlagsOverrideManifest'
  <2>1. SUFFICES ASSUME result' = "run", NEW f \in Fields
                 PROVE  options'[f] = IF ArgumentsFor(f) # {}
                          THEN argv[Last(ArgumentsFor(f))].value
                          ELSE IF LinesFor(lines, f) # {}
                          THEN lines[Last(LinesFor(lines, f))].value ELSE Default
    BY <1>1, <1>4 DEF FlagsOverrideManifest
  <2>2. options' = Filled(m) /\ m.ok /\ Complete(Filled(m))
    BY <1>2, <2>1 DEF Usable
  <2>3. f \in Required => ~Missed(f)
    BY <1>17, <2>2
  <2> QED BY <1>8, <2>2, <2>3 DEF Missed
<1>21. result' # "parsing"
  BY <1>2
<1> QED BY <1>19, <1>20, <1>21 DEF IInv

\* A step that ends in an error while the arguments are read
LEMMA ErrorIInv ==
  ASSUME result' = "error", FaultyArguments'
  PROVE  IInv'
BY DEF IInv, FlagsOverrideManifest, RefusedIffFaulty

LEMMA ParsingIInv ==
  ASSUME result' = "parsing", Parsing'
  PROVE  IInv'
BY DEF IInv, FlagsOverrideManifest, RefusedIffFaulty

LEMMA SetOptionIInv ==
  ASSUME IInv, NEW f \in Flags, NEW v \in Values \cup {Empty, Bad},
         IF f \in Paths THEN v # Bad ELSE v # Empty, SetOption(f, v)
  PROVE  IInv'
<1>1. result = "parsing" /\ Argument(f, v) /\ Parsing /\ f \in Fields
  BY CommandLineAssumption DEF IInv, SetOption, Argument
<1>2. CASE f \in Paths \/ v \in Values
  <2>1. result' = "parsing"
    BY <1>1, <1>2 DEF SetOption
  <2>2. Parsing'
    BY <1>1, <2>1, SetOptionParsing
  <2> QED BY <2>1, <2>2, ParsingIInv
<1>3. CASE f \notin Paths /\ v \notin Values
  <2>1. result' = "error" /\ v = Bad
    BY <1>3 DEF SetOption
  <2> QED BY <1>1, <2>1, BadValueIsFault, ErrorIInv
<1> QED BY <1>2, <1>3

LEMMA NameManifestIInv == IInv /\ NameManifest => IInv'
<1> SUFFICES ASSUME IInv, NameManifest PROVE IInv'
  OBVIOUS
<1>1. /\ result = "parsing" /\ Argument("config", Default) /\ Parsing
      /\ config' = TRUE /\ result' = (IF config THEN "error" ELSE result)
      /\ UNCHANGED <<options, given, batch>>
  BY DEF IInv, NameManifest, Argument
<1>2. config <=> FlagAt(argv, "config") # {}
  BY <1>1 DEF Parsing, FilesAreArguments
<1>3. CASE config
  BY <1>1, <1>2, <1>3, SecondFileIsFault, ErrorIInv
<1>4. CASE ~config
  <2>1. Parsing'
    BY <1>1, <1>2, <1>4, NameParsing
  <2> QED BY <1>1, <1>4, <2>1, ParsingIInv
<1> QED BY <1>3, <1>4

LEMMA NameBatchIInv ==
  ASSUME IInv, NEW path \in Values \cup {Empty}, NameBatch(path)
  PROVE  IInv'
<1>1. /\ result = "parsing" /\ Argument("batch", path) /\ Parsing
      /\ batch' = (IF batch = None THEN path ELSE batch)
      /\ result' = (IF batch = None THEN result ELSE "error")
      /\ UNCHANGED <<options, given, config>>
  BY DEF IInv, NameBatch, Argument
<1>2. batch # None <=> FlagAt(argv, "batch") # {}
  BY <1>1 DEF Parsing, FilesAreArguments
<1>3. CASE batch # None
  BY <1>1, <1>2, <1>3, SecondFileIsFault, ErrorIInv
<1>4. CASE batch = None
  <2>1. path # Default
    BY MarkersDiffer, CommandLineAssumption
  <2>2. Parsing'
    BY <1>1, <1>2, <1>4, <2>1, NameParsing DEF Parsing, FilesAreArguments
  <2> QED BY <1>1, <1>4, <2>2, ParsingIInv
<1> QED BY <1>3, <1>4

LEMMA NextIInv == IInv /\ [Next]_vars => IInv'
<1> SUFFICES ASSUME IInv, [Next]_vars PROVE IInv'
  OBVIOUS
<1>1. ASSUME NEW f \in Flags, NEW v \in Values \cup {Empty, Bad},
             IF f \in Paths THEN v # Bad ELSE v # Empty, SetOption(f, v)
      PROVE  IInv'
  BY <1>1, SetOptionIInv
<1>2. CASE NameManifest
  BY <1>2, NameManifestIInv
<1>3. ASSUME NEW path \in Values \cup {Empty}, NameBatch(path)
      PROVE  IInv'
  BY <1>3, NameBatchIInv
<1>4. ASSUME NEW flag, Unusable(flag)
      PROVE  IInv'
  <2>1. Argument(flag, None) /\ result' = "error" /\ Parsing
    BY <1>4 DEF Unusable, Argument, IInv
  <2> QED BY <2>1, BadValueIsFault, ErrorIInv
<1>5. CASE Help
  BY <1>5 DEF Help, IInv, FlagsOverrideManifest, RefusedIffFaulty
<1>6. CASE EndBatch
  BY <1>6, EndBatchIInv
<1>7. ASSUME NEW lines \in Manifests, EndWithManifest(lines)
      PROVE  IInv'
  BY <1>7, EndWithManifestIInv
<1>8. CASE EndWithoutManifest
  BY <1>8, EndWithoutManifestIInv
<1>9. CASE UNCHANGED vars
  <2>1. /\ argv' = argv /\ options' = options /\ given' = given /\ config' = config
        /\ batch' = batch /\ manifest' = manifest /\ result' = result
    BY <1>9 DEF vars
  <2>2. Parsing' <=> Parsing
    BY <2>1 DEF Parsing, OptionsAreArguments, FilesAreArguments
  <2>3. \A f : ArgumentsFor(f)' = ArgumentsFor(f)
    BY <2>1 DEF ArgumentsFor
  <2>4. FlagsOverrideManifest' <=> FlagsOverrideManifest
    BY <2>1, <2>3 DEF FlagsOverrideManifest
  <2>5. FaultyArguments' <=> FaultyArguments
    BY <2>1 DEF FaultyArguments, Clash
  <2>6. FaultyManifest(manifest)' <=> FaultyManifest(manifest)
    BY <2>1, <2>3 DEF FaultyManifest
  <2>7. Incomplete' <=> Incomplete
    BY <2>1, <2>3 DEF Incomplete, Misses
  <2>8. RefusedIffFaulty' <=> RefusedIffFaulty
    BY <2>1, <2>5, <2>6, <2>7 DEF RefusedIffFaulty
  <2> QED BY <2>1, <2>2, <2>4, <2>8 DEF IInv
<1> QED BY <1>1, <1>2, <1>3, <1>4, <1>5, <1>6, <1>7, <1>8, <1>9 DEF Next

\* While the arguments are read, the options, the manifest and the batch are those
\* of the last arguments for them; at the end the two properties below hold.
THEOREM ArgumentsAreTracked == Spec => []IInv
<1>1. Init => IInv
  BY InitParsing
<1>2. IInv /\ [Next]_vars => IInv'
  BY NextIInv
<1> QED BY <1>1, <1>2, PTL DEF Spec

\* Command lines and manifests of any length: each option has its last value of the
\* command line, else its last value of the manifest, else its default
\* (parse_arguments).
THEOREM FlagsAlwaysOverride == Spec => []FlagsOverrideManifest
<1>1. IInv => FlagsOverrideManifest
  BY DEF IInv
<1> QED BY <1>1, ArgumentsAreTracked, PTL

\* Command lines and manifests of any length: parse_arguments refuses them if and
\* only if they have one of the faults listed, wherever it stands.
THEOREM FaultsAreRefused == Spec => []RefusedIffFaulty
<1>1. IInv => RefusedIffFaulty
  BY DEF IInv
<1> QED BY <1>1, ArgumentsAreTracked, PTL
===============================================================================
