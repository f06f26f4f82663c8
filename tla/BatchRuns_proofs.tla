--------------------------- MODULE BatchRuns_proofs ---------------------------
(***************************************************************************)
(* For any manifests and any number of batches that append to one file:    *)
(* the file begins with its only header, its rows are those of the first   *)
(* runs of each batch, in order and with their metadata, and the reports   *)
(* that the rows of the last batch name are the ones it wrote.             *)
(***************************************************************************)
EXTENDS BatchRuns, TLAPS

Line ==
  {Header(m) : m \in Manifests} \cup
    {Row(m, i, p) : m \in Manifests, i \in Nat, p \in Nat}
Report == {None, Partial} \cup [process : Nat, run : Nat]

\* There is a file, which the batch may just have made.
HasFile == csv # None \/ stream # "closed"

------------------------------------------------------------------------------
(* The inductive invariant *)

TypeOK ==
  /\ HasFile => csv \in Seq(Line)
  /\ reports \in [Outputs -> Report]
  /\ phase \in {"idle", "load", "report", "row"}
  /\ phase # "idle" \/ outcome = "done" => manifest \in Manifests
  /\ next \in Nat /\ process \in Nat
  /\ stream \in {"closed", "header", "good", "bad"}

\* Where the loop is, and what the stream is like there
LoopInv ==
  /\ phase # "idle" => /\ next \in 1..Len(manifest.runs)
                       /\ stream # "closed" <=> manifest.csv
  /\ phase = "idle" => stream = "closed"
  /\ phase = "idle" /\ outcome = "done" => next = Len(manifest.runs) /\ next >= 1
  /\ stream = "header" => csv = <<>> /\ next = 1
  /\ stream = "bad" => "csv" \in damaged

\* The first line is the header, unless lines were lost.
HeaderInv ==
  HasFile /\ "csv" \notin damaged =>
    /\ stream # "header" => csv # <<>>
    /\ \A i \in DOMAIN csv : IsRow(i) <=> i > 1

\* A row of the last batch is that of a run before the next one.
RecentInv ==
  HasFile =>
    \A i \in DOMAIN csv : IsRow(i) =>
      /\ csv[i].process <= process /\ csv[i].run >= 1
      /\ IsRecent(i) =>
           /\ csv[i] = Row(manifest, csv[i].run, process)
           /\ manifest \in Manifests
           /\ csv[i].run \in 1..Len(manifest.runs) /\ csv[i].run <= next
           /\ phase # "idle" => csv[i].run < next

Follows(i) ==
  \/ ContinuesBatch(i)
  \/ csv[i].run = 1 /\ \A j \in 1..(i - 1) : IsRow(j) => csv[j].process < csv[i].process

OrderInv ==
  HasFile =>
    /\ \A i \in DOMAIN csv : IsRow(i) => Follows(i)
    /\ stream \in {"header", "good"} /\ phase # "idle" /\ next > 1 => EndsWith(next - 1)
    /\ phase = "idle" /\ outcome = "done" /\ manifest.csv /\ "csv" \notin damaged =>
         EndsWith(Len(manifest.runs))

\* The runs before the next one have their reports, but for one at the path that
\* the next one writes.
BackedInv ==
  "report" \notin damaged =>
    /\ phase = "load" => \A i \in 1..(next - 1) : IsBacked(OutputPath(manifest, i), i)
    /\ phase = "report" =>
         /\ reports[OutputPath(manifest, next)] = Partial
         /\ \A i \in 1..(next - 1) : \/ IsBacked(OutputPath(manifest, i), i)
                                     \/ OutputPath(manifest, i) = OutputPath(manifest, next)
    /\ phase = "row" => \A i \in 1..next : IsBacked(OutputPath(manifest, i), i)
    /\ phase = "idle" /\ outcome = "done" =>
         \A i \in DOMAIN manifest.runs : IsBacked(OutputPath(manifest, i), i)
    /\ HasFile => \A i \in DOMAIN csv : IsRecent(i) =>
         \/ IsBacked(csv[i].output, csv[i].run)
         \/ /\ reports[csv[i].output] = Partial /\ next > csv[i].run
            /\ csv[i].output = OutputPath(manifest, next)

------------------------------------------------------------------------------
(* Lines and sequences of them *)

LEMMA LineFields ==
  ASSUME NEW m, NEW i, NEW p
  PROVE  /\ Header(m).kind = "header"
         /\ Row(m, i, p).kind = "row" /\ Row(m, i, p).process = p /\ Row(m, i, p).run = i
         /\ Row(m, i, p).output = OutputPath(m, i) /\ Row(m, i, p).keys = MetadataKeys(m)
         /\ Row(m, i, p).cells =
              [k \in MetadataKeys(m) |->
                 IF k \in DOMAIN Metadata(m, i) THEN Metadata(m, i)[k] ELSE None]
BY DEF Header, Row

LEMMA RowIsLine ==
  ASSUME NEW m \in Manifests, NEW i \in Nat, NEW p \in Nat
  PROVE  Row(m, i, p) \in Line /\ Header(m) \in Line
BY DEF Line

LEMMA OneMore ==
  ASSUME NEW S, NEW s \in Seq(S), NEW a \in S
  PROVE  LET t == s \o <<a>> IN
         /\ t \in Seq(S) /\ t # <<>> /\ Len(t) = Len(s) + 1 /\ DOMAIN t = 1..(Len(s) + 1)
         /\ t[Len(s) + 1] = a /\ \A i \in 1..Len(s) : t[i] = s[i]
OBVIOUS

LEMMA RunsAreSequences ==
  ASSUME NEW m \in Manifests
  PROVE  Len(m.runs) \in Nat /\ DOMAIN m.runs = 1..Len(m.runs)
BY BatchAssumption

LEMMA PathIsOutput ==
  ASSUME NEW m \in Manifests, NEW i \in 1..Len(m.runs)
  PROVE  OutputPath(m, i) \in Outputs
<1>1. i \in DOMAIN m.runs BY RunsAreSequences
<1> QED BY <1>1 DEF Outputs

LEMMA LineIsRow ==
  ASSUME NEW l \in Line, l.kind = "row"
  PROVE  l.process \in Nat /\ l.run \in Nat
<1>1. CASE \E m \in Manifests : l = Header(m)
  BY <1>1, LineFields
<1>2. CASE \E m \in Manifests, i \in Nat, p \in Nat : l = Row(m, i, p)
  <2>1. PICK m \in Manifests, i \in Nat, p \in Nat : l = Row(m, i, p) BY <1>2
  <2>2. l.process = p /\ l.run = i BY <2>1 DEF Row
  <2> QED BY <2>2
<1> QED BY <1>1, <1>2 DEF Line

LEMMA PartialIsNoReport ==
  ASSUME NEW p \in Nat, NEW i \in Nat
  PROVE  [process |-> p, run |-> i] \in Report /\ [process |-> p, run |-> i] # Partial
BY BatchAssumption DEF Report

------------------------------------------------------------------------------
(* The inductive invariant is one *)

IInv == TypeOK /\ LoopInv /\ HeaderInv /\ RecentInv /\ OrderInv /\ BackedInv

LEMMA InitIInv == Init => IInv
<1> SUFFICES ASSUME Init PROVE IInv OBVIOUS
<1>1. reports \in [Outputs -> Report] /\ ~HasFile /\ outcome # "done"
  BY BatchAssumption DEF Init, Report, HasFile
<1>2. TypeOK /\ LoopInv BY <1>1 DEF Init, TypeOK, LoopInv, HasFile
<1>3. HeaderInv /\ RecentInv /\ OrderInv BY <1>1 DEF Init, HeaderInv, RecentInv, OrderInv
<1>4. BackedInv BY <1>1 DEF Init, BackedInv
<1> QED BY <1>2, <1>3, <1>4 DEF IInv

\* The file has a line more, which is no row, or two, or nothing is written.
LEMMA NewRow ==
  ASSUME IInv, phase = "row", stream # "closed", Flushed(<<Row(manifest, next, process)>>)
  PROVE  /\ csv' \in Seq(Line) /\ Len(csv') \in Nat /\ DOMAIN csv' = 1..Len(csv')
         /\ csv' # <<>>
         /\ csv'[Len(csv')] = Row(manifest, next, process)
         /\ csv'[Len(csv')].kind = "row" /\ csv'[Len(csv')].run = next
         /\ csv'[Len(csv')].process = process
         /\ csv'[Len(csv')].output = OutputPath(manifest, next)
         /\ \/ /\ stream = "header" /\ csv = <<>> /\ next = 1
               /\ Len(csv') = 2 /\ csv'[1].kind # "row"
            \/ /\ stream = "good" /\ csv \in Seq(Line) /\ Len(csv') = Len(csv) + 1
               /\ \A i \in 1..Len(csv) : csv'[i] = csv[i]
<1> DEFINE R == Row(manifest, next, process)
<1>1. csv \in Seq(Line) /\ manifest \in Manifests /\ next \in Nat /\ process \in Nat
  BY DEF IInv, TypeOK, HasFile
<1>2. R \in Line /\ Header(manifest) \in Line BY <1>1, RowIsLine
<1>5. R.kind = "row" /\ R.run = next /\ R.process = process /\ R.output = OutputPath(manifest, next)
  BY DEF Row
<1>6. Header(manifest).kind # "row" BY DEF Header
<1> HIDE DEF R
<1>3. CASE stream = "header"
  <2>1. csv = <<>> /\ next = 1 BY <1>3 DEF IInv, LoopInv
  <2>2. csv' = <<Header(manifest)>> \o <<R>> BY <1>3, <2>1, <1>2 DEF Flushed, R
  <2>3. /\ <<Header(manifest)>> \in Seq(Line) /\ Len(<<Header(manifest)>>) = 1
        /\ <<Header(manifest)>>[1] = Header(manifest)
    BY <1>2
  <2> DEFINE t == <<Header(manifest)>> \o <<R>>
  <2>4. t \in Seq(Line) /\ Len(t) = 2 /\ DOMAIN t = 1..2 /\ t[2] = R /\ t[1] = Header(manifest)
    BY <2>3, <1>2, OneMore
  <2> HIDE DEF t
  <2> QED BY <2>1, <2>2, <2>4, <1>3, <1>5, <1>6 DEF R, t
<1>4. CASE stream = "good"
  <2>1. csv' = csv \o <<R>> BY <1>4, <1>1, <1>2 DEF Flushed, R
  <2> QED BY <2>1, <1>1, <1>2, <1>4, <1>5, OneMore DEF R
<1> QED BY <1>3, <1>4 DEF IInv, TypeOK, Flushed

LEMMA NewHeader ==
  ASSUME IInv, stream = "header", Flushed(<<>>), phase # "idle"
  PROVE  /\ csv' = <<Header(manifest)>> /\ csv' \in Seq(Line) /\ DOMAIN csv' = {1}
         /\ \A i \in DOMAIN csv' : csv'[i].kind # "row"
<1>1. Header(manifest) \in Line BY RowIsLine DEF IInv, TypeOK
<1>2. csv = <<>> BY DEF IInv, LoopInv
<1>3. csv' = <<Header(manifest)>> BY <1>1, <1>2 DEF Flushed
<1>4. Header(manifest).kind # "row" BY DEF Header
<1> HIDE DEF Header
<1>5. /\ <<Header(manifest)>> \in Seq(Line) /\ DOMAIN <<Header(manifest)>> = {1}
      /\ <<Header(manifest)>>[1] = Header(manifest)
  BY <1>1
<1> QED BY <1>3, <1>4, <1>5

\* A row of the last batch
LEMMA RecentRow ==
  ASSUME IInv, HasFile, NEW i \in DOMAIN csv, IsRecent(i)
  PROVE  /\ manifest \in Manifests /\ csv[i] = Row(manifest, csv[i].run, process)
         /\ csv[i].run \in 1..Len(manifest.runs) /\ csv[i].run <= next
         /\ phase # "idle" => csv[i].run < next
         /\ csv[i].output = OutputPath(manifest, csv[i].run)
         /\ csv[i].output \in Outputs
<1>1. /\ manifest \in Manifests /\ csv[i] = Row(manifest, csv[i].run, process)
      /\ csv[i].run \in 1..Len(manifest.runs) /\ csv[i].run <= next
      /\ phase # "idle" => csv[i].run < next
  BY DEF IInv, RecentInv, IsRecent
<1>2. csv[i].output = OutputPath(manifest, csv[i].run) BY <1>1 DEF Row
<1> QED BY <1>1, <1>2, PathIsOutput

LEMMA TypeStep == IInv /\ [Next]_vars => TypeOK'
<1> SUFFICES ASSUME IInv, [Next]_vars PROVE TypeOK' OBVIOUS
<1>1. ASSUME NEW m \in Manifests, Refuse(m) \/ RefuseCsv(m) PROVE TypeOK'
  BY <1>1 DEF IInv, TypeOK, HasFile, Refuse, RefuseCsv
<1>2. ASSUME NEW m \in Manifests, Start(m) PROVE TypeOK'
  <2>1. HasFile' => csv' \in Seq(Line)
    BY <1>2 DEF IInv, TypeOK, HasFile, Start, OpenedStream
  <2> QED BY <1>2, <2>1 DEF IInv, TypeOK, Start, OpenedStream
<1>3. ASSUME NEW r \in Report PROVE Written(r) \in [Outputs -> Report]
  BY DEF IInv, TypeOK, Written
<1>4. CASE Simulate
  BY <1>3, <1>4 DEF IInv, TypeOK, HasFile, Simulate, Report
<1>5. CASE WriteReport
  <2>1. [process |-> process, run |-> next] \in Report
    BY PartialIsNoReport DEF IInv, TypeOK
  <2>2. reports' \in [Outputs -> Report]
    BY <1>3, <1>5, <2>1 DEF IInv, TypeOK, WriteReport
  <2> QED BY <1>5, <2>2 DEF IInv, TypeOK, HasFile, WriteReport
<1>6. CASE AppendRow
  <2>1. HasFile' => csv' \in Seq(Line)
    <3>1. CASE UNCHANGED csv
      BY <1>6, <3>1 DEF IInv, TypeOK, HasFile, AppendRow, Continue
    <3>2. CASE stream # "closed" /\ Flushed(<<Row(manifest, next, process)>>)
      BY <1>6, <3>2, NewRow DEF AppendRow
    <3> QED BY <1>6, <3>1, <3>2 DEF AppendRow, Lost
  <2>2. next' \in Nat /\ phase' \in {"load", "idle"} /\ stream' \in {"closed", "good", "bad"}
    BY <1>6 DEF IInv, TypeOK, AppendRow, Continue
  <2> QED BY <1>6, <2>1, <2>2 DEF IInv, TypeOK, AppendRow
<1>7. CASE Fail
  <2>1. HasFile' => csv' \in Seq(Line)
    <3>1. CASE UNCHANGED csv BY <1>7, <3>1 DEF IInv, TypeOK, HasFile, Fail
    <3>2. CASE stream = "header" /\ Flushed(<<>>) BY <1>7, <3>2, NewHeader DEF Fail
    <3> QED BY <1>7, <3>1, <3>2 DEF Fail, Lost
  <2> QED BY <1>7, <2>1 DEF IInv, TypeOK, Fail
<1>8. CASE Kill
  BY <1>8 DEF IInv, TypeOK, HasFile, Kill
<1>9. CASE UNCHANGED vars
  BY <1>9 DEF IInv, TypeOK, HasFile, vars
<1> QED BY <1>1, <1>2, <1>4, <1>5, <1>6, <1>7, <1>8, <1>9 DEF Next

LEMMA LoopStep == IInv /\ [Next]_vars => LoopInv'
<1> SUFFICES ASSUME IInv, [Next]_vars PROVE LoopInv' OBVIOUS
<1>1. ASSUME NEW m \in Manifests, Refuse(m) \/ RefuseCsv(m) PROVE LoopInv'
  BY <1>1 DEF IInv, LoopInv, Refuse, RefuseCsv
<1>2. ASSUME NEW m \in Manifests, Start(m) PROVE LoopInv'
  <2>1. 1 \in 1..Len(m.runs) BY <1>2, RunsAreSequences DEF Start, Accepted
  <2>2. m.csv \in BOOLEAN BY BatchAssumption
  <2> QED BY <1>2, <2>1, <2>2 DEF Start, OpenedStream, LoopInv
<1>3. CASE Simulate
  BY <1>3 DEF IInv, LoopInv, Simulate
<1>4. CASE WriteReport
  BY <1>4 DEF IInv, LoopInv, WriteReport
<1>5. CASE AppendRow
  <2>1. /\ manifest \in Manifests /\ next \in 1..Len(manifest.runs) /\ phase = "row"
        /\ manifest' = manifest
    BY <1>5 DEF IInv, TypeOK, LoopInv, AppendRow
  <2>2. /\ Len(manifest.runs) \in Nat
        /\ stream # "closed" <=> manifest.csv
    BY <2>1, RunsAreSequences DEF IInv, LoopInv
  <2>3. ASSUME NEW st \in {"closed", "good", "bad"}, Continue(st),
               st # "closed" <=> manifest.csv, st = "bad" => "csv" \in damaged'
        PROVE  LoopInv'
    BY <2>1, <2>2, <2>3 DEF Continue, LoopInv
  <2>4. CASE stream = "closed" /\ Continue("closed") BY <2>2, <2>3, <2>4
  <2>5. CASE stream # "closed" /\ Continue("good") BY <2>2, <2>3, <2>5
  <2>6. CASE stream # "closed" /\ Lost /\ Continue("bad") BY <2>2, <2>3, <2>6 DEF Lost
  <2> QED BY <1>5, <2>4, <2>5, <2>6 DEF AppendRow
<1>6. CASE Fail
  BY <1>6 DEF LoopInv, Fail
<1>7. CASE Kill
  BY <1>7 DEF LoopInv, Kill
<1>8. CASE UNCHANGED vars
  BY <1>8 DEF IInv, LoopInv, vars
<1> QED BY <1>1, <1>2, <1>3, <1>4, <1>5, <1>6, <1>7, <1>8 DEF Next

LEMMA HeaderStep == IInv /\ [Next]_vars => HeaderInv'
<1> SUFFICES ASSUME IInv, [Next]_vars PROVE HeaderInv' OBVIOUS
<1>1. ASSUME UNCHANGED <<csv, damaged>>, HasFile' => HasFile, stream = "header" => stream' = "header"
      PROVE  HeaderInv'
  BY <1>1 DEF IInv, HeaderInv, IsRow
<1>2. ASSUME "csv" \in damaged' PROVE HeaderInv'
  BY <1>2 DEF HeaderInv
<1>3. ASSUME NEW m \in Manifests, Refuse(m) \/ RefuseCsv(m) PROVE HeaderInv'
  BY <1>1, <1>3 DEF Refuse, RefuseCsv, HasFile
<1>4. ASSUME NEW m \in Manifests, Start(m) PROVE HeaderInv'
  <2>1. CASE m.csv /\ csv = None
    BY <1>4, <2>1 DEF Start, OpenedStream, HeaderInv
  <2>2. CASE ~(m.csv /\ csv = None)
    <3>1. stream # "header" BY <1>4 DEF IInv, LoopInv, Start
    <3>2. HasFile' => HasFile
      BY <1>4, <2>2 DEF Start, OpenedStream, HasFile
    <3> QED BY <1>1, <1>4, <2>2, <3>1, <3>2 DEF Start
  <2> QED BY <2>1, <2>2
<1>5. CASE Simulate BY <1>1, <1>5 DEF Simulate, HasFile
<1>6. CASE WriteReport
  BY <1>6 DEF WriteReport, HasFile, IInv, HeaderInv, IsRow
<1>7. CASE AppendRow
  <2>1. CASE stream = "closed" BY <1>1, <1>7, <2>1 DEF AppendRow, Continue, HasFile
  <2>2. CASE Lost BY <1>2, <2>2 DEF Lost
  <2>3. CASE stream # "closed" /\ Flushed(<<Row(manifest, next, process)>>)
    <3> DEFINE n == Len(csv')
    <3>1. /\ n \in Nat /\ DOMAIN csv' = 1..n /\ csv'[n].kind = "row"
          /\ \/ n = 2 /\ csv'[1].kind # "row"
             \/ /\ stream = "good" /\ csv \in Seq(Line) /\ n = Len(csv) + 1
                /\ \A i \in 1..Len(csv) : csv'[i] = csv[i]
      BY <1>7, <2>3, NewRow DEF AppendRow
    <3>2. CASE n = 2 /\ csv'[1].kind # "row"
      <4>1. csv' # <<>> BY <3>1, <3>2
      <4> QED BY <3>1, <3>2, <4>1 DEF HeaderInv, IsRow
    <3>3. CASE /\ stream = "good" /\ csv \in Seq(Line) /\ n = Len(csv) + 1
               /\ \A i \in 1..Len(csv) : csv'[i] = csv[i]
      <4>1. SUFFICES ASSUME "csv" \notin damaged PROVE HeaderInv'
        BY <2>3 DEF Flushed, HeaderInv
      <4>2. csv # <<>> /\ \A i \in DOMAIN csv : csv[i].kind = "row" <=> i > 1
        BY <3>3, <4>1 DEF IInv, HeaderInv, HasFile, IsRow
      <4>3. Len(csv) >= 1 /\ DOMAIN csv = 1..Len(csv) BY <3>3, <4>2
      <4>4. \A i \in 1..n : csv'[i].kind = "row" <=> i > 1
        BY <3>1, <3>3, <4>2, <4>3
      <4>5. csv' # <<>> BY <3>1, <3>3, <4>3
      <4> HIDE DEF n
      <4> QED BY <3>1, <4>4, <4>5 DEF HeaderInv, IsRow
    <3> QED BY <3>1, <3>2, <3>3
  <2> QED BY <1>7, <2>1, <2>2, <2>3 DEF AppendRow
<1>8. CASE Fail
  <2>1. CASE stream # "header" BY <1>1, <1>8, <2>1 DEF Fail, HasFile
  <2>2. CASE Lost BY <1>2, <2>2 DEF Lost
  <2>3. CASE stream = "header" /\ Flushed(<<>>)
    <3>1. csv' # <<>> /\ DOMAIN csv' = {1} /\ \A i \in DOMAIN csv' : csv'[i].kind # "row"
      BY <1>8, <2>3, NewHeader DEF Fail
    <3> QED BY <3>1 DEF HeaderInv, IsRow
  <2> QED BY <1>8, <2>1, <2>2, <2>3 DEF Fail
<1>9. CASE Kill
  <2>1. CASE stream # "header" BY <1>1, <1>9, <2>1 DEF Kill, HasFile
  <2>2. CASE stream = "header" BY <1>2, <1>9, <2>2 DEF Kill
  <2> QED BY <2>1, <2>2
<1>10. CASE UNCHANGED vars BY <1>1, <1>10 DEF vars, HasFile
<1> QED BY <1>3, <1>4, <1>5, <1>6, <1>7, <1>8, <1>9, <1>10 DEF Next

LEMMA RecentStep == IInv /\ [Next]_vars => RecentInv'
<1> SUFFICES ASSUME IInv, [Next]_vars PROVE RecentInv' OBVIOUS
<1>1. ASSUME UNCHANGED <<csv, process, manifest>>, HasFile' => HasFile,
             next' = next, phase' # "idle" => phase # "idle"
      PROVE  RecentInv'
  BY <1>1 DEF IInv, RecentInv, IsRow, IsRecent
<1>2. ASSUME UNCHANGED csv, HasFile, process' = process + 1
      PROVE  RecentInv'
  <2>1. SUFFICES ASSUME NEW i \in DOMAIN csv, csv[i].kind = "row"
                 PROVE  csv[i].process <= process' /\ csv[i].run >= 1 /\ csv[i].process # process'
    BY <1>2 DEF RecentInv, IsRow, IsRecent
  <2>2. csv \in Seq(Line) /\ process \in Nat BY <1>2 DEF IInv, TypeOK
  <2>3. csv[i].process \in Nat BY <2>1, <2>2, LineIsRow
  <2>4. csv[i].process <= process /\ csv[i].run >= 1
    BY <1>2, <2>1 DEF IInv, RecentInv, IsRow
  <2> QED BY <1>2, <2>2, <2>3, <2>4
<1>3. ASSUME NEW m \in Manifests, Refuse(m) \/ RefuseCsv(m) PROVE RecentInv'
  <2>1. CASE HasFile BY <1>2, <1>3, <2>1 DEF Refuse, RefuseCsv
  <2>2. CASE ~HasFile BY <1>3, <2>2 DEF Refuse, RefuseCsv, HasFile, RecentInv
  <2> QED BY <2>1, <2>2
<1>4. ASSUME NEW m \in Manifests, Start(m) PROVE RecentInv'
  <2>1. CASE m.csv /\ csv = None
    <3>1. csv' = <<>> BY <1>4, <2>1 DEF Start
    <3> QED BY <3>1 DEF RecentInv
  <2>2. CASE HasFile /\ ~(m.csv /\ csv = None)
    BY <1>2, <1>4, <2>2 DEF Start
  <2>3. CASE ~HasFile /\ ~(m.csv /\ csv = None)
    BY <1>4, <2>3 DEF Start, OpenedStream, HasFile, RecentInv
  <2> QED BY <2>1, <2>2, <2>3
<1>5. CASE Simulate BY <1>1, <1>5 DEF Simulate, HasFile
<1>6. CASE WriteReport BY <1>1, <1>6 DEF WriteReport, HasFile
<1>7. CASE AppendRow
  <2>1. /\ manifest \in Manifests /\ next \in 1..Len(manifest.runs) /\ phase = "row"
        /\ Len(manifest.runs) \in Nat /\ process \in Nat
        /\ UNCHANGED <<manifest, process>>
        /\ next \in Nat /\ (next' = next \/ next' = next + 1)
        /\ phase' # "idle" => next' = next + 1
    BY <1>7, RunsAreSequences DEF IInv, TypeOK, LoopInv, AppendRow, Continue
  <2>2. CASE UNCHANGED csv
    <3>1. HasFile' => HasFile BY <1>7, <2>2 DEF AppendRow, Continue, HasFile
    <3>2. SUFFICES ASSUME HasFile, NEW i \in DOMAIN csv, csv[i].kind = "row"
                   PROVE  /\ csv[i].process <= process /\ csv[i].run >= 1
                          /\ csv[i].process = process =>
                               /\ csv[i] = Row(manifest, csv[i].run, process)
                               /\ csv[i].run \in 1..Len(manifest.runs) /\ csv[i].run <= next'
                               /\ phase' # "idle" => csv[i].run < next'
      BY <2>1, <2>2, <3>1 DEF RecentInv, IsRow, IsRecent
    <3>3. csv[i].process <= process /\ csv[i].run >= 1
      BY <3>2 DEF IInv, RecentInv, IsRow
    <3>4. CASE csv[i].process = process
      <4>1. csv[i] = Row(manifest, csv[i].run, process)
        BY <2>1, <3>2, <3>4, RecentRow DEF IsRow, IsRecent
      <4>2. csv[i].run \in 1..Len(manifest.runs) /\ csv[i].run < next
        BY <2>1, <3>2, <3>4, RecentRow DEF IsRow, IsRecent
      <4>3. csv[i].run \in Nat BY <2>1, <4>2
      <4>4. csv[i].run <= next' /\ (phase' # "idle" => csv[i].run < next')
        BY <2>1, <4>2, <4>3
      <4> QED BY <3>3, <4>1, <4>2, <4>4
    <3> QED BY <3>3, <3>4
  <2>3. CASE stream # "closed" /\ Flushed(<<Row(manifest, next, process)>>)
    <3> DEFINE n == Len(csv')
    <3>1. /\ n \in Nat /\ DOMAIN csv' = 1..n /\ csv'[n] = Row(manifest, next, process)
          /\ csv'[n].process = process /\ csv'[n].run = next
          /\ \/ n = 2 /\ csv'[1].kind # "row"
             \/ /\ stream = "good" /\ csv \in Seq(Line) /\ n = Len(csv) + 1
                /\ \A i \in 1..Len(csv) : csv'[i] = csv[i]
      BY <2>1, <2>3, NewRow
    <3> HIDE DEF n
    <3>2. SUFFICES ASSUME NEW i \in 1..n, csv'[i].kind = "row"
                   PROVE  /\ csv'[i].process <= process /\ csv'[i].run >= 1
                          /\ csv'[i].process = process =>
                               /\ csv'[i] = Row(manifest, csv'[i].run, process)
                               /\ csv'[i].run \in 1..Len(manifest.runs)
                               /\ csv'[i].run <= next'
                               /\ phase' # "idle" => csv'[i].run < next'
      BY <2>1, <3>1 DEF RecentInv, IsRow, IsRecent
    <3>3. CASE i = n
      <4>1. csv'[i].process <= process /\ csv'[i].run >= 1 BY <2>1, <3>1, <3>3
      <4>2. csv'[i] = Row(manifest, csv'[i].run, process) BY <3>1, <3>3
      <4>3. csv'[i].run <= next' /\ (phase' # "idle" => csv'[i].run < next')
        BY <2>1, <3>1, <3>3
      <4>4. csv'[i].run \in 1..Len(manifest.runs) BY <2>1, <3>1, <3>3
      <4> QED BY <4>1, <4>2, <4>3, <4>4
    <3>4. CASE i # n
      <4>1. HasFile /\ i \in DOMAIN csv /\ csv'[i] = csv[i] /\ csv[i].kind = "row"
        BY <2>3, <3>1, <3>2, <3>4 DEF HasFile
      <4>2. csv[i].process <= process /\ csv[i].run >= 1
        BY <4>1 DEF IInv, RecentInv, IsRow
      <4>3. CASE csv[i].process = process
        <5>1. csv[i] = Row(manifest, csv[i].run, process)
          BY <2>1, <4>1, <4>3, RecentRow DEF IsRow, IsRecent
        <5>2. csv[i].run \in 1..Len(manifest.runs) /\ csv[i].run < next
          BY <2>1, <4>1, <4>3, RecentRow DEF IsRow, IsRecent
        <5>3. csv[i].run \in Nat BY <2>1, <5>2
        <5>4. csv[i].run <= next' /\ (phase' # "idle" => csv[i].run < next')
          BY <2>1, <5>2, <5>3
        <5> QED BY <4>1, <4>2, <5>1, <5>2, <5>4
      <4> QED BY <4>1, <4>2, <4>3
    <3> QED BY <3>3, <3>4
  <2> QED BY <1>7, <2>2, <2>3 DEF AppendRow, Lost
<1>8. CASE Fail
  <2>1. CASE UNCHANGED csv BY <1>1, <1>8, <2>1 DEF Fail, HasFile
  <2>2. CASE stream = "header" /\ Flushed(<<>>)
    <3>1. \A i \in DOMAIN csv' : csv'[i].kind # "row"
      BY <1>8, <2>2, NewHeader DEF Fail
    <3> QED BY <3>1 DEF RecentInv, IsRow
  <2> QED BY <1>8, <2>1, <2>2 DEF Fail, Lost
<1>9. CASE Kill BY <1>1, <1>9 DEF Kill, HasFile
<1>10. CASE UNCHANGED vars BY <1>1, <1>10 DEF vars, HasFile
<1> QED BY <1>3, <1>4, <1>5, <1>6, <1>7, <1>8, <1>9, <1>10 DEF Next

LEMMA OrderStep == IInv /\ [Next]_vars => OrderInv'
<1> SUFFICES ASSUME IInv, [Next]_vars PROVE OrderInv' OBVIOUS
<1> DEFINE InOrder == HasFile => \A i \in DOMAIN csv : IsRow(i) => Follows(i)
           MidBatch == stream \in {"header", "good"} /\ phase # "idle" /\ next > 1
           Complete == /\ phase = "idle" /\ outcome = "done"
                       /\ manifest.csv /\ "csv" \notin damaged
<1>1. ASSUME UNCHANGED csv, HasFile' => HasFile PROVE InOrder'
  BY <1>1 DEF IInv, OrderInv, IsRow, Follows, ContinuesBatch
<1>2. ASSUME InOrder', ~MidBatch', ~Complete' PROVE OrderInv'
  BY <1>2 DEF OrderInv
<1>3. ASSUME NEW m \in Manifests, Refuse(m) \/ RefuseCsv(m) PROVE OrderInv'
  <2>1. InOrder' BY <1>1, <1>3 DEF Refuse, RefuseCsv, HasFile
  <2> QED BY <1>2, <1>3, <2>1 DEF Refuse, RefuseCsv
<1>4. ASSUME NEW m \in Manifests, Start(m) PROVE OrderInv'
  <2>1. InOrder'
    <3>1. CASE m.csv /\ csv = None
      <4>1. csv' = <<>> BY <1>4, <3>1 DEF Start
      <4> QED BY <4>1
    <3>2. CASE ~(m.csv /\ csv = None)
      <4>1. HasFile' => HasFile BY <1>4, <3>2 DEF Start, OpenedStream, HasFile
      <4> QED BY <1>1, <1>4, <3>2, <4>1 DEF Start
    <3> QED BY <3>1, <3>2
  <2> QED BY <1>2, <1>4, <2>1 DEF Start
<1>5. ASSUME UNCHANGED <<csv, manifest, next, stream, process>>, phase # "idle", phase' # "idle"
      PROVE  OrderInv'
  <2>1. InOrder' BY <1>1, <1>5 DEF HasFile
  <2>2. HasFile' /\ MidBatch' => EndsWith(next - 1)'
    BY <1>5 DEF IInv, OrderInv, HasFile, EndsWith, IsRecent, IsRow
  <2> QED BY <1>5, <2>1, <2>2 DEF OrderInv
<1>6. CASE Simulate BY <1>5, <1>6 DEF Simulate
<1>7. CASE WriteReport BY <1>5, <1>7 DEF WriteReport
<1>8. CASE AppendRow
  <2>1. CASE stream = "closed"
    <3>1. ~manifest.csv BY <1>8, <2>1 DEF IInv, LoopInv, AppendRow
    <3>2. InOrder' BY <1>1, <1>8, <2>1 DEF AppendRow, Continue, HasFile
    <3> QED BY <1>2, <1>8, <2>1, <3>1, <3>2 DEF AppendRow, Continue
  <2>2. CASE stream # "closed" /\ Lost /\ Continue("bad")
    <3>1. InOrder' BY <1>1, <2>2 DEF Lost, HasFile
    <3> QED BY <1>2, <2>2, <3>1 DEF Lost, Continue
  <2>3. CASE /\ stream # "closed" /\ Flushed(<<Row(manifest, next, process)>>)
             /\ Continue("good")
    <3> PICK n \in Nat : n = Len(csv')
      BY <1>8, <2>3, NewRow DEF AppendRow
    <3>1. /\ n = Len(csv') /\ DOMAIN csv' = 1..n
          /\ csv'[n].kind = "row" /\ csv'[n].process = process /\ csv'[n].run = next
          /\ \/ stream = "header" /\ next = 1 /\ n = 2 /\ csv'[1].kind # "row"
             \/ /\ stream = "good" /\ csv \in Seq(Line) /\ n = Len(csv) + 1
                /\ \A i \in 1..Len(csv) : csv'[i] = csv[i]
          /\ csv' # <<>>
      BY <1>8, <2>3, NewRow DEF AppendRow
    <3>2. /\ UNCHANGED <<manifest, process>> /\ next \in Nat /\ next >= 1 /\ process \in Nat
          /\ HasFile /\ phase = "row"
      BY <1>8, <2>3 DEF AppendRow, IInv, TypeOK, LoopInv, HasFile
    <3>6. MidBatch' => EndsWith(next - 1)'
      <4>1. CASE phase' = "idle" BY <4>1
      <4>2. CASE phase' # "idle"
        <5>1. next' - 1 = next BY <2>3, <3>2, <4>2 DEF Continue
        <5> QED BY <3>1, <3>2, <5>1 DEF EndsWith, IsRecent, IsRow
      <4> QED BY <4>1, <4>2
    <3>7. Complete' => EndsWith(Len(manifest.runs))'
      <4>1. CASE phase' # "idle" BY <4>1
      <4>2. CASE phase' = "idle"
        <5>1. Len(manifest'.runs) = next BY <2>3, <3>2, <4>2 DEF Continue
        <5> QED BY <3>1, <3>2, <5>1 DEF EndsWith, IsRecent, IsRow
      <4> QED BY <4>1, <4>2
    <3>8. ASSUME NEW i \in 1..n, csv'[i].kind = "row", i # n PROVE Follows(i)'
      <4>1. /\ csv \in Seq(Line) /\ n = Len(csv) + 1 /\ i \in DOMAIN csv
            /\ \A j \in 1..i : csv'[j] = csv[j]
        BY <3>1, <3>8
      <4>2. Follows(i) BY <3>2, <3>8, <4>1 DEF IInv, OrderInv, IsRow
      <4> QED BY <4>1, <4>2 DEF Follows, ContinuesBatch, IsRow
    <3>9. Follows(n)'
      <4>1. CASE next = 1
        <5> SUFFICES \A j \in 1..(n - 1) : csv'[j].kind = "row" => csv'[j].process < csv'[n].process
          BY <3>1, <4>1 DEF Follows, IsRow
        <5>1. SUFFICES ASSUME NEW j \in 1..(n - 1), csv'[j].kind = "row"
                       PROVE  csv'[j].process < process
          BY <3>1
        <5>2. csv \in Seq(Line) /\ j \in DOMAIN csv /\ csv'[j] = csv[j] BY <3>1, <5>1
        <5>3. csv[j].process \in Nat BY <5>1, <5>2, LineIsRow
        <5>4. csv[j].process <= process /\ csv[j].run >= 1
          BY <3>2, <5>1, <5>2 DEF IInv, RecentInv, IsRow
        <5>5. csv[j].process # process
          BY <3>2, <4>1, <5>1, <5>2, <5>4, RecentRow DEF IsRow, IsRecent
        <5> QED BY <3>2, <5>2, <5>3, <5>4, <5>5
      <4>2. CASE next # 1
        <5>1. stream = "good" /\ next > 1 BY <3>1, <3>2, <4>2
        <5>2. EndsWith(next - 1) BY <3>2, <5>1 DEF IInv, OrderInv
        <5>3. /\ csv \in Seq(Line) /\ n = Len(csv) + 1 /\ Len(csv) \in DOMAIN csv
              /\ csv[Len(csv)].kind = "row" /\ csv[Len(csv)].process = process
              /\ csv[Len(csv)].run = next - 1
          BY <3>1, <5>1, <5>2 DEF EndsWith, IsRecent, IsRow
        <5>4. csv'[n - 1] = csv[Len(csv)] /\ n > 1 BY <3>1, <5>1, <5>3
        <5>5. /\ csv'[n].run = csv'[n - 1].run + 1 /\ csv'[n - 1].kind = "row"
              /\ csv'[n - 1].process = csv'[n].process
          BY <3>1, <3>2, <5>3, <5>4
        <5>6. n > 1 /\ csv'[n - 1].kind = "row" BY <5>4, <5>5
        <5>7. ContinuesBatch(n)' BY <5>5, <5>6 DEF ContinuesBatch, IsRow
        <5> QED BY <5>7 DEF Follows
      <4> QED BY <4>1, <4>2
    <3>10. ASSUME NEW i \in 1..n, csv'[i].kind = "row" PROVE Follows(i)'
      <4>1. CASE i = n BY <3>9, <4>1
      <4>2. CASE i # n BY <3>8, <3>10, <4>2
      <4> QED BY <4>1, <4>2
    <3>11. InOrder' BY <3>1, <3>10 DEF IsRow, Follows, ContinuesBatch
    <3> QED BY <3>6, <3>7, <3>11 DEF OrderInv
  <2> QED BY <1>8, <2>1, <2>2, <2>3 DEF AppendRow
<1>9. CASE Fail
  <2>1. ~MidBatch' /\ ~Complete' BY <1>9 DEF Fail
  <2>2. CASE UNCHANGED csv
    <3>1. InOrder' BY <1>1, <1>9, <2>2 DEF Fail, HasFile
    <3> QED BY <1>2, <2>1, <3>1
  <2>3. CASE stream = "header" /\ Flushed(<<>>)
    <3>1. \A i \in DOMAIN csv' : csv'[i].kind # "row" BY <1>9, <2>3, NewHeader DEF Fail
    <3>2. InOrder' BY <3>1 DEF IsRow
    <3> QED BY <1>2, <2>1, <3>2
  <2> QED BY <1>9, <2>2, <2>3 DEF Fail, Lost
<1>10. CASE Kill
  <2>1. InOrder' BY <1>1, <1>10 DEF Kill, HasFile
  <2> QED BY <1>2, <1>10, <2>1 DEF Kill
<1>11. CASE UNCHANGED vars
  BY <1>11 DEF vars, IInv, OrderInv, HasFile, EndsWith, IsRecent, IsRow, Follows, ContinuesBatch
<1> QED BY <1>3, <1>4, <1>6, <1>7, <1>8, <1>9, <1>10, <1>11 DEF Next

\* The report that row i names is there, or being replaced.
RowBacked(i) ==
  \/ IsBacked(csv[i].output, csv[i].run)
  \/ /\ reports[csv[i].output] = Partial /\ next > csv[i].run
     /\ csv[i].output = OutputPath(manifest, next)

LEMMA BackedStep == IInv /\ [Next]_vars => BackedInv'
<1> SUFFICES ASSUME IInv, [Next]_vars, "report" \notin damaged' PROVE BackedInv'
  BY DEF BackedInv
<1>1. "report" \notin damaged
  BY DEF Next, vars, Refuse, RefuseCsv, Start, Simulate, WriteReport, AppendRow, Fail, Kill,
         Flushed, Lost
<1>2. ASSUME UNCHANGED <<csv, reports, manifest, next, process>>, HasFile' => HasFile,
             phase' = "idle", outcome' # "done"
      PROVE  BackedInv'
  BY <1>1, <1>2 DEF IInv, BackedInv, IsBacked, IsRecent, IsRow, OutputPath
<1>3. ASSUME process' = process + 1, UNCHANGED csv, HasFile,
             (phase' = "load" /\ next' = 1) \/ (phase' = "idle" /\ outcome' # "done")
      PROVE  BackedInv'
  <2>1. ASSUME NEW i \in DOMAIN csv, csv[i].kind = "row" PROVE csv[i].process # process'
    <3>1. csv \in Seq(Line) /\ process \in Nat BY <1>3 DEF IInv, TypeOK
    <3>2. csv[i].process \in Nat BY <2>1, <3>1, LineIsRow
    <3>3. csv[i].process <= process BY <1>3, <2>1 DEF IInv, RecentInv, IsRow
    <3> QED BY <1>3, <3>1, <3>2, <3>3
  <2> QED BY <1>3, <2>1 DEF BackedInv, IsRecent, IsRow
<1>4. ASSUME HasFile' => csv' = <<>>,
             (phase' = "load" /\ next' = 1) \/ (phase' = "idle" /\ outcome' # "done")
      PROVE  BackedInv'
  BY <1>4 DEF BackedInv
<1>5. ASSUME NEW m \in Manifests, Refuse(m) \/ RefuseCsv(m) PROVE BackedInv'
  <2>1. CASE HasFile BY <1>3, <1>5, <2>1 DEF Refuse, RefuseCsv
  <2>2. CASE ~HasFile BY <1>4, <1>5, <2>2 DEF Refuse, RefuseCsv, HasFile
  <2> QED BY <2>1, <2>2
<1>6. ASSUME NEW m \in Manifests, Start(m) PROVE BackedInv'
  <2>1. CASE m.csv /\ csv = None BY <1>4, <1>6, <2>1 DEF Start
  <2>2. CASE HasFile /\ ~(m.csv /\ csv = None) BY <1>3, <1>6, <2>2 DEF Start
  <2>3. CASE ~HasFile /\ ~(m.csv /\ csv = None)
    BY <1>4, <1>6, <2>3 DEF Start, OpenedStream, HasFile
  <2> QED BY <2>1, <2>2, <2>3

\* A report is written at path, that of the next run.
<1> DEFINE path == OutputPath(manifest, next)
<1>7. ASSUME NEW r, phase \in {"load", "report"}, reports' = Written(r),
             UNCHANGED <<csv, manifest, next, process>>
      PROVE  /\ path \in Outputs /\ reports'[path] = r
             /\ \A q \in Outputs \ {path} : reports'[q] = reports[q]
             /\ next \in Nat /\ Len(manifest.runs) \in Nat /\ next \in 1..Len(manifest.runs)
             /\ \A i \in 1..(next - 1) : OutputPath(manifest, i) \in Outputs
             /\ \A i \in 1..(next - 1) : OutputPath(manifest, i) # path =>
                   IsBacked(OutputPath(manifest, i), i)
  <2>1. manifest \in Manifests /\ next \in 1..Len(manifest.runs) /\ Len(manifest.runs) \in Nat
    BY <1>7, RunsAreSequences DEF IInv, TypeOK, LoopInv
  <2>2. path \in Outputs /\ \A i \in 1..(next - 1) : OutputPath(manifest, i) \in Outputs
    BY <2>1, PathIsOutput
  <2>3. \A i \in 1..(next - 1) : OutputPath(manifest, i) # path =>
          IsBacked(OutputPath(manifest, i), i)
    BY <1>1, <1>7 DEF IInv, BackedInv
  <2> HIDE DEF path
  <2>4. DOMAIN reports = Outputs BY DEF IInv, TypeOK
  <2>5. reports' = [reports EXCEPT ![path] = r] BY <1>7 DEF Written, path
  <2> QED BY <2>1, <2>2, <2>3, <2>4, <2>5 DEF path
<1>8. ASSUME HasFile, phase \in {"load", "report", "row"}, NEW i \in DOMAIN csv, IsRecent(i)
      PROVE  /\ csv[i].output = OutputPath(manifest, csv[i].run)
             /\ csv[i].run \in 1..(next - 1)
             /\ csv[i].output \in Outputs
  <2>1. manifest \in Manifests /\ next \in Nat BY <1>8 DEF IInv, TypeOK
  <2>2. /\ csv[i].output = OutputPath(manifest, csv[i].run) /\ csv[i].output \in Outputs
        /\ csv[i].run \in 1..Len(manifest.runs) /\ csv[i].run < next
    BY <1>8, RecentRow
  <2>3. Len(manifest.runs) \in Nat BY <2>1, RunsAreSequences
  <2>4. csv[i].run \in 1..(next - 1) BY <2>1, <2>2, <2>3
  <2> QED BY <2>2, <2>4

<1>9. CASE Simulate
  <2>1. /\ phase = "load" /\ phase' = "report" /\ reports' = Written(Partial)
        /\ UNCHANGED <<csv, manifest, next, process, stream>>
    BY <1>9 DEF Simulate
  <2>2. path' = path BY <2>1 DEF OutputPath, Setting, RunName
  <2>3. /\ path \in Outputs /\ reports'[path] = Partial
        /\ \A q \in Outputs \ {path} : reports'[q] = reports[q]
        /\ \A i \in 1..(next - 1) : OutputPath(manifest, i) \in Outputs
        /\ \A i \in 1..(next - 1) : OutputPath(manifest, i) # path =>
              IsBacked(OutputPath(manifest, i), i)
    BY <1>7, <2>1
  <2> HIDE DEF path
  <2>4. \A i \in 1..(next - 1) : OutputPath(manifest, i) # path =>
          IsBacked(OutputPath(manifest, i), i)'
    BY <2>1, <2>3 DEF IsBacked
  <2>5. ASSUME HasFile', NEW i \in DOMAIN csv, IsRecent(i)
        PROVE  \/ IsBacked(csv[i].output, csv[i].run)'
               \/ reports'[csv[i].output] = Partial /\ next > csv[i].run /\ csv[i].output = path
    <3>1. /\ csv[i].output = OutputPath(manifest, csv[i].run)
          /\ csv[i].run \in 1..(next - 1) /\ next \in Nat
      BY <1>7, <1>8, <2>1, <2>5 DEF HasFile
    <3>2. CASE csv[i].output = path BY <2>3, <3>1, <3>2
    <3>3. CASE csv[i].output # path BY <2>1, <2>4, <3>1, <3>3 DEF IsBacked
    <3> QED BY <3>2, <3>3
  <2>6. HasFile' => \A i \in DOMAIN csv' : IsRecent(i)' => RowBacked(i)'
    BY <2>1, <2>2, <2>5 DEF RowBacked, IsRecent, IsRow, IsBacked, path
  <2> QED
    BY <2>1, <2>2, <2>3, <2>4, <2>6 DEF BackedInv, RowBacked, IsBacked, IsRecent, IsRow, path
<1>10. CASE WriteReport
  <2> DEFINE new == [process |-> process, run |-> next]
  <2>1. /\ phase = "report" /\ phase' = "row" /\ reports' = Written(new)
        /\ UNCHANGED <<csv, manifest, next, process, stream>>
    BY <1>10 DEF WriteReport
  <2>2. new # Partial /\ new.process = process /\ new.run = next
    BY PartialIsNoReport DEF IInv, TypeOK
  <2>3. /\ path \in Outputs /\ reports'[path] = new
        /\ \A q \in Outputs \ {path} : reports'[q] = reports[q]
        /\ \A i \in 1..(next - 1) : OutputPath(manifest, i) \in Outputs
        /\ \A i \in 1..(next - 1) : OutputPath(manifest, i) # path =>
              IsBacked(OutputPath(manifest, i), i)
        /\ next \in Nat
    BY <1>7, <2>1
  <2> HIDE DEF path, new
  <2>4. ASSUME NEW i \in 1..next PROVE IsBacked(OutputPath(manifest, i), i)'
    <3>1. CASE OutputPath(manifest, i) = path
      BY <2>1, <2>2, <2>3, <3>1 DEF IsBacked
    <3>2. CASE OutputPath(manifest, i) # path
      <4>1. i \in 1..(next - 1) BY <2>3, <3>2 DEF path
      <4> QED BY <2>1, <2>3, <3>2, <4>1 DEF IsBacked
    <3> QED BY <3>1, <3>2
  <2>5. ASSUME HasFile', NEW i \in DOMAIN csv, IsRecent(i)
        PROVE  IsBacked(csv[i].output, csv[i].run)'
    <3>1. /\ csv[i].output = OutputPath(manifest, csv[i].run)
          /\ csv[i].run \in 1..next
      BY <1>8, <2>1, <2>3, <2>5 DEF HasFile
    <3> QED BY <2>1, <2>4, <3>1 DEF IsBacked
  <2>6. HasFile' => \A i \in DOMAIN csv' : IsRecent(i)' => IsBacked(csv[i].output, csv[i].run)'
    BY <2>1, <2>5 DEF IsRecent, IsRow, IsBacked
  <2> QED BY <2>1, <2>4, <2>6 DEF BackedInv, IsBacked, IsRecent, IsRow
<1>11. CASE AppendRow
  <2>1. /\ phase = "row" /\ UNCHANGED <<reports, manifest, process>>
        /\ manifest \in Manifests /\ next \in Nat /\ next >= 1 /\ Len(manifest.runs) \in Nat
        /\ DOMAIN manifest.runs = 1..Len(manifest.runs)
    BY <1>11, RunsAreSequences DEF IInv, TypeOK, LoopInv, AppendRow
  <2>2. \/ phase' = "load" /\ next' = next + 1
        \/ phase' = "idle" /\ next' = next /\ next = Len(manifest.runs)
    BY <1>11 DEF AppendRow, Continue
  <2>3. \A i \in 1..next : IsBacked(OutputPath(manifest, i), i)
    BY <1>1, <2>1 DEF IInv, BackedInv
  <2>4. \A i \in 1..next : IsBacked(OutputPath(manifest, i), i)'
    BY <2>1, <2>3 DEF IsBacked
  <2>5. ASSUME HasFile, NEW i \in DOMAIN csv, IsRecent(i)
        PROVE  IsBacked(csv[i].output, csv[i].run)
    <3>1. csv[i].output = OutputPath(manifest, csv[i].run) /\ csv[i].run \in 1..next
      BY <1>8, <2>1, <2>5
    <3> QED BY <2>3, <3>1
  <2>6. HasFile' => \A i \in DOMAIN csv' : IsRecent(i)' => IsBacked(csv[i].output, csv[i].run)'
    <3>1. CASE UNCHANGED csv
      <4>1. HasFile' => HasFile BY <1>11, <3>1 DEF AppendRow, Continue, HasFile
      <4> QED BY <2>1, <2>5, <3>1, <4>1 DEF IsRecent, IsRow, IsBacked
    <3>2. CASE stream # "closed" /\ Flushed(<<Row(manifest, next, process)>>)
      <4> PICK n \in Nat : n = Len(csv') BY <2>1, <3>2, NewRow
      <4>1. /\ DOMAIN csv' = 1..n /\ csv'[n].output = OutputPath(manifest, next)
            /\ csv'[n].run = next
            /\ \/ n = 2 /\ csv'[1].kind # "row"
               \/ /\ csv \in Seq(Line) /\ n = Len(csv) + 1
                  /\ \A i \in 1..Len(csv) : csv'[i] = csv[i]
        BY <2>1, <3>2, NewRow
      <4>2. SUFFICES ASSUME NEW i \in 1..n, csv'[i].kind = "row", csv'[i].process = process
                     PROVE  IsBacked(csv[i].output, csv[i].run)'
        BY <2>1, <4>1 DEF IsRecent, IsRow, IsBacked
      <4>3. CASE i = n BY <2>1, <2>4, <4>1, <4>3 DEF IsBacked
      <4>4. CASE i # n
        <5>1. HasFile /\ i \in DOMAIN csv /\ csv'[i] = csv[i] BY <3>2, <4>1, <4>2, <4>4 DEF HasFile
        <5>2. IsBacked(csv[i].output, csv[i].run) BY <2>5, <4>2, <5>1 DEF IsRecent, IsRow
        <5> QED BY <2>1, <5>1, <5>2 DEF IsBacked
      <4> QED BY <4>3, <4>4
    <3> QED BY <1>11, <3>1, <3>2 DEF AppendRow, Lost
  <2> QED BY <2>1, <2>2, <2>4, <2>6 DEF BackedInv, IsBacked, IsRecent, IsRow
<1>12. CASE Fail
  <2>1. CASE UNCHANGED csv BY <1>2, <1>12, <2>1 DEF Fail, HasFile
  <2>2. CASE stream = "header" /\ Flushed(<<>>)
    <3>1. \A i \in DOMAIN csv' : csv'[i].kind # "row" BY <1>12, <2>2, NewHeader DEF Fail
    <3> QED BY <1>12, <3>1 DEF Fail, BackedInv, IsRecent, IsRow
  <2> QED BY <1>12, <2>1, <2>2 DEF Fail, Lost
<1>13. CASE Kill BY <1>2, <1>13 DEF Kill, HasFile
<1>14. CASE UNCHANGED vars
  BY <1>1, <1>14 DEF vars, IInv, BackedInv, HasFile, IsBacked, IsRecent, IsRow
<1> QED BY <1>5, <1>6, <1>9, <1>10, <1>11, <1>12, <1>13, <1>14 DEF Next

LEMMA Invariance == Spec => []IInv
<1>1. IInv /\ [Next]_vars => IInv'
  BY TypeStep, LoopStep, HeaderStep, RecentStep, OrderStep, BackedStep DEF IInv
<1> QED BY InitIInv, <1>1, PTL DEF Spec

------------------------------------------------------------------------------
(* Theorems *)

\* The CSV has one header, its first line, over all batches that append to it,
\* unless a header or a row was lost (run_batch_manifest's needs_header).
THEOREM HeaderComesFirst == Spec => []OneHeaderFirst
<1>1. IInv => OneHeaderFirst
  BY DEF IInv, HeaderInv, HasFile, OneHeaderFirst
<1> QED BY Invariance, <1>1, PTL

\* What parse_batch_manifest_data merges for a run is what its row holds.
LEMMA CellsOfARun ==
  ASSUME NEW m \in Manifests, NEW i \in 1..Len(m.runs), NEW p
  PROVE  LET row == Row(m, i, p)
             own == m.runs[i].metadata
             shared == m.defaults.metadata
         IN /\ \A k \in DOMAIN own : k \in row.keys /\ row.cells[k] = own[k]
            /\ \A k \in DOMAIN shared \ DOMAIN own :
                 k \in row.keys /\ row.cells[k] = shared[k]
            /\ row.keys = MetadataKeys(m)
<1> DEFINE own == m.runs[i].metadata
           shared == m.defaults.metadata
           row == Row(m, i, p)
<1>1. i \in DOMAIN m.runs BY RunsAreSequences
<1>2. /\ DOMAIN Metadata(m, i) = DOMAIN own \cup DOMAIN shared
      /\ \A k \in DOMAIN own : Metadata(m, i)[k] = own[k]
      /\ \A k \in DOMAIN shared \ DOMAIN own : Metadata(m, i)[k] = shared[k]
  BY DEF Metadata
<1>3. DOMAIN own \cup DOMAIN shared \subseteq MetadataKeys(m)
  BY <1>1, <1>2 DEF MetadataKeys
<1>4. /\ row.keys = MetadataKeys(m)
      /\ \A k \in MetadataKeys(m) :
           row.cells[k] = IF k \in DOMAIN Metadata(m, i) THEN Metadata(m, i)[k] ELSE None
  BY DEF Row
<1> HIDE DEF own, shared, row
<1>5. /\ \A k \in DOMAIN own : k \in row.keys /\ row.cells[k] = own[k]
      /\ \A k \in DOMAIN shared \ DOMAIN own : k \in row.keys /\ row.cells[k] = shared[k]
  BY <1>2, <1>3, <1>4
<1> QED BY <1>4, <1>5 DEF own, shared, row

\* The rows of every batch are those of its first runs, in the order of the
\* manifest and with their metadata, however the batch ended; only a CSV that cannot
\* be written makes one of them missing.
THEOREM RowsAreTheRuns == Spec => []RowsFollowTheManifest
<1>1. IInv => RowsFollowTheManifest
  <2> SUFFICES ASSUME IInv, csv # None PROVE RowsFollowTheManifest
    BY DEF RowsFollowTheManifest
  <2>1. HasFile BY DEF HasFile
  <2>2. MetadataInRows
    <3>1. SUFFICES ASSUME NEW i \in DOMAIN csv, IsRecent(i)
                   PROVE  LET row == csv[i]
                              own == manifest.runs[row.run].metadata
                              shared == manifest.defaults.metadata
                          IN /\ \A k \in DOMAIN own : k \in row.keys /\ row.cells[k] = own[k]
                             /\ \A k \in DOMAIN shared \ DOMAIN own :
                                  k \in row.keys /\ row.cells[k] = shared[k]
                             /\ \A j \in DOMAIN csv : IsRecent(j) => csv[j].keys = row.keys
      BY DEF MetadataInRows
    <3>2. ASSUME NEW j \in DOMAIN csv, IsRecent(j)
          PROVE  /\ manifest \in Manifests /\ csv[j].run \in 1..Len(manifest.runs)
                 /\ csv[j] = Row(manifest, csv[j].run, process)
                 /\ csv[j].keys = MetadataKeys(manifest)
      BY <2>1, <3>2, RecentRow, CellsOfARun
    <3>3. \A j \in DOMAIN csv : IsRecent(j) => csv[j].keys = csv[i].keys
      BY <3>1, <3>2
    <3>4. PICK run \in 1..Len(manifest.runs) : run = csv[i].run /\ csv[i] = Row(manifest, run, process)
      BY <3>1, <3>2
    <3>5. manifest \in Manifests BY <3>1, <3>2
    <3> QED BY <3>3, <3>4, <3>5, CellsOfARun
  <2>3. \A i \in DOMAIN csv : IsRow(i) => Follows(i)
    BY <2>1 DEF IInv, OrderInv
  <2>4. stream \in {"header", "good"} /\ phase # "idle" =>
          IF next = 1 THEN \A i \in DOMAIN csv : ~IsRecent(i) ELSE EndsWith(next - 1)
    <3> SUFFICES ASSUME stream \in {"header", "good"}, phase # "idle"
                 PROVE  IF next = 1 THEN \A i \in DOMAIN csv : ~IsRecent(i) ELSE EndsWith(next - 1)
      OBVIOUS
    <3>1. CASE next = 1
      <4>1. ASSUME NEW i \in DOMAIN csv, IsRecent(i) PROVE FALSE
        <5>1. csv[i].run \in 1..Len(manifest.runs) /\ csv[i].run < 1 /\ manifest \in Manifests
          BY <2>1, <3>1, <4>1, RecentRow
        <5> QED BY <5>1, RunsAreSequences
      <4> QED BY <3>1, <4>1
    <3>2. CASE next # 1
      <4>1. next \in Nat /\ manifest \in Manifests /\ next \in 1..Len(manifest.runs)
        BY DEF IInv, TypeOK, LoopInv
      <4>2. next > 1 BY <3>2, <4>1, RunsAreSequences
      <4> QED BY <2>1, <3>2, <4>2 DEF IInv, OrderInv
    <3> QED BY <3>1, <3>2
  <2>5. phase = "idle" /\ outcome = "done" /\ manifest.csv /\ "csv" \notin damaged =>
          EndsWith(Len(manifest.runs))
    BY <2>1 DEF IInv, OrderInv
  <2> QED BY <2>2, <2>3, <2>4, <2>5 DEF RowsFollowTheManifest, Follows
<1> QED BY Invariance, <1>1, PTL

\* A row of the last batch names the report of its run or of a later run with the
\* same path, complete unless such a run is writing it or failed to (write_report
\* before append_batch_csv_row).
THEOREM RowsHaveReports == Spec => []ReportsBackRows
<1>1. IInv => ReportsBackRows
  BY DEF IInv, BackedInv, ReportsBackRows, HasFile
<1> QED BY Invariance, <1>1, PTL
===============================================================================
