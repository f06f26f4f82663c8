-------------------------- MODULE PlacementBenchmark --------------------------
(***************************************************************************)
(* The placement benchmark (tools/placement/placement_benchmark.cc): main  *)
(* parses its arguments, reads a profile, a workload and a fixture of      *)
(* arrivals, makes a copy of the workload for each arrival, places its     *)
(* stages, makes tasks of it, runs them and writes a summary and a row of  *)
(* a CSV file, which other runs of the program append to.                  *)
(*                                                                         *)
(* An exception, or the usage message, ends the program: the phase         *)
(* "refused".  A sample of the exponential distribution leads to any of    *)
(* Instants.  The run is the loop of DagRun; here it is one action, which  *)
(* says whether it comes to its end.  Of the results, the files have what  *)
(* tells one run from another: the options, and how many arrivals it had.  *)
(***************************************************************************)
EXTENDS WorkloadLoader, ProfileLoader

CONSTANTS
  IdStride,     \* id_stride: 1'000'000
  Inputs,       \* the arguments and the files they name, see IsInput
  Commands,     \* the arguments of later runs of the program
  MetadataPair, \* MetadataPair[text] = <<key, value>> of the texts with a "="
  Instants,     \* the times at which an arrival may fall, multiples of every scale
  MaxArrivals,  \* bounds the arrivals of a window
  MaxRows       \* bounds the rows of the CSV file

\* A file of lines, with the node it was written from, if it was, and what it is to be
\* loaded as, None if it is to be refused: as a workload, and as a profile
IsDocument(d) ==
  DOMAIN d = {"lines", "node", "workload", "platform"} /\ d.lines \in Seq(LineType)

\* Its lines can be read, all have a place, and mean that node.
IsFaithful(d) ==
  LET content == Content(d.lines) IN
  /\ \A i \in DOMAIN d.lines : ~IsFaulty(d.lines, i)
  /\ \A i \in DOMAIN content : HasPlace(content, i)
  /\ d.node = Meaning(content)

\* The windows are of a fixture "poisson_bursty", the periods of one "periodic".
FixtureType ==
  [model : STRING, windows : Seq([duration : Nat, rate : Nat]), periods : Seq(Nat)]

\* The arguments are pairs of a flag and its value, which the last may lack; files
\* has those that can be opened, by their paths.
IsCommandLine(command) ==
  /\ command \in Seq([flag : STRING, value : STRING \cup {None}])
  /\ \A i \in DOMAIN command : command[i].value = None => i = Len(command)

IsInput(input) ==
  /\ DOMAIN input = {"command", "files"} /\ IsCommandLine(input.command)
  /\ \A path \in DOMAIN input.files :
       IsDocument(input.files[path]) \/ input.files[path] \in FixtureType

IdRange == MaxId + 1

INSTANCE Placement WITH NoSide <- Absent

ASSUME BenchmarkAssumption ==
  /\ IdStride \in Nat \ {0} /\ {MaxArrivals, MaxRows} \subseteq Nat
  /\ Mode \cap DOMAIN LowerCase = {} \* a mode has no capitals
  /\ \A input \in Inputs : IsInput(input)
  /\ \A command \in Commands : IsCommandLine(command)

VARIABLES
  input,    \* the arguments and the files
  phase,    \* how far main is
  profile,  \* profile
  root,     \* what parse_document returned for the workload, and where
  loaded,   \* loaded.spec
  arrivals, \* fixture.arrivals
  workload, \* expanded
  summary,  \* the file at output_path
  csv,      \* the lines of the one file that is a csv_path, none if it does not exist
  ended     \* history: the options and arrivals of the runs that wrote to it

\* What a run of the program leaves behind
written == <<summary, csv, ended>>
vars == <<input, phase, profile, root, loaded, arrivals, workload, written>>

------------------------------------------------------------------------------
(* parse_args *)

PathFlag == {"--profile", "--workload", "--arrival", "--output", "--csv", "--policy"}
NumberFlag == {"--seed", "--arrival-scale"}

\* The argument is one that parse_args takes.
IsArgument(argument) ==
  /\ argument.value # None
  /\ \/ argument.flag \in PathFlag
     \/ argument.flag \in NumberFlag /\ argument.value \in DOMAIN Numeral
     \/ argument.flag = "--placement-mode" /\ Lower(argument.value) \in Mode
     \/ argument.flag = "--metadata" /\ argument.value \in DOMAIN MetadataPair

Named(command, flag) == {i \in DOMAIN command : command[i].flag = flag}

\* The last of several is what counts.
Option(command, flag, default) ==
  IF Named(command, flag) = {} THEN default ELSE command[Latest(Named(command, flag))].value

\* options.metadata, to which every --metadata adds
Metadata(command) ==
  LET IsPair(argument) == argument.flag = "--metadata"
      pairs == SelectSeq(command, IsPair)
  IN [i \in DOMAIN pairs |-> MetadataPair[pairs[i].value]]

Options(command) ==
  [profile |-> Option(command, "--profile", ""),
   workload |-> Option(command, "--workload", ""),
   arrival |-> Option(command, "--arrival", ""),
   csv |-> Option(command, "--csv", None),
   mode |-> Lower(Option(command, "--placement-mode", "hint_respect")),
   scale |-> Option(command, "--arrival-scale", "1"),
   metadata |-> Metadata(command)]

options == Options(input.command)

\* parse_args returns true.
IsCommand(command) ==
  /\ \A i \in DOMAIN command : IsArgument(command[i])
  /\ "" \notin {Options(command).profile, Options(command).workload, Options(command).arrival}
  /\ Numeral[Options(command).scale] > 0

------------------------------------------------------------------------------
(* main, up to the run *)

\* The variables of a run of the program
Blank ==
  [profile |-> None, root |-> Result(MapNode(NoFields), 1), loaded |-> Empty,
   arrivals |-> <<>>, workload |-> Empty]

Init ==
  /\ input \in Inputs
  /\ phase = "started"
  /\ profile = Blank.profile
  /\ root = Blank.root
  /\ loaded = Blank.loaded
  /\ arrivals = Blank.arrivals
  /\ workload = Blank.workload
  /\ summary = None
  /\ csv = <<>>
  /\ ended = <<>>

\* The phase that a step of main leads to if what it asks for holds
Proceeds(condition, next) == phase' = IF condition THEN next ELSE "refused"

ParseArgs ==
  /\ phase = "started"
  /\ Proceeds(IsCommand(input.command), "configured")
  /\ UNCHANGED <<input, profile, root, loaded, arrivals, workload, written>>

\* What load_profile_from_file returns, None if it throws
ProfileAt(path) ==
  LET tokens == Tokenize(input.files[path].lines)
      parsed == ParseDocument(tokens)
      IsLoaded == /\ path \in DOMAIN input.files /\ IsDocument(input.files[path])
                  /\ Tokenizable(input.files[path].lines)
                  /\ IsParsed(tokens, parsed)
                  /\ IsProfileDocument(parsed.node)
  IN IF IsLoaded THEN LoadedProfile(parsed.node) ELSE None

LoadProfile ==
  /\ phase = "configured"
  /\ profile' = ProfileAt(options.profile)
  /\ Proceeds(profile' # None, "profiled")
  /\ UNCHANGED <<input, root, loaded, arrivals, workload, written>>

\* load_workload_from_file, the document
ReadDocument ==
  LET path == options.workload
      IsReadable == /\ path \in DOMAIN input.files /\ IsDocument(input.files[path])
                    /\ Tokenizable(input.files[path].lines)
                    /\ Tokenize(input.files[path].lines) # <<>>
  IN
  /\ phase = "profiled"
  /\ Proceeds(IsReadable, "parsed")
  /\ root' = IF IsReadable THEN ParseDocument(Tokenize(input.files[path].lines)) ELSE root
  /\ UNCHANGED <<input, profile, loaded, arrivals, workload, written>>

\* load_workload_from_file, the workload
LoadWorkload ==
  /\ phase = "parsed"
  /\ \/ /\ IsWorkload(root.node)
        /\ phase' = "loaded"
        /\ loaded' = Workload(root.node)
     \/ /\ ~IsWorkload(root.node)
        /\ phase' = "refused"
        /\ UNCHANGED loaded
  /\ UNCHANGED <<input, profile, root, arrivals, workload, written>>

SumTo(durations, n) == FoldLeft(+, 0, SubSeq(durations, 1, n))

\* generate_poisson: a window without a rate takes no time.
WindowStart(windows, w) ==
  SumTo([i \in DOMAIN windows |-> IF windows[i].rate > 0 THEN windows[i].duration ELSE 0],
        w - 1)

\* The times at which window w may let tasks arrive
Bursts(windows, w) ==
  LET within == {t \in Instants : t > 0 /\ t <= windows[w].duration}
      Increasing(times) == \A i, j \in DOMAIN times : i < j => times[i] < times[j]
      counts == IF windows[w].rate > 0 THEN 0..MaxArrivals ELSE {0}
  IN {[i \in DOMAIN times |-> WindowStart(windows, w) + times[i]] :
        times \in {f \in UNION {[1..n -> within] : n \in counts} : Increasing(f)}}

\* generate_poisson
PoissonArrivals(windows) ==
  {FlattenSeq(bursts) :
     bursts \in {f \in [DOMAIN windows -> UNION {Bursts(windows, w) : w \in DOMAIN windows}] :
                   \A w \in DOMAIN windows : f[w] \in Bursts(windows, w)}}

\* generate_periodic
PeriodicArrivals(periods) == [i \in DOMAIN periods |-> SumTo(periods, i)]

\* What load_arrival_fixture may return
Arrivals(fixture) ==
  CASE fixture.model = "poisson_bursty" -> PoissonArrivals(fixture.windows)
    [] fixture.model = "periodic" -> {PeriodicArrivals(fixture.periods)}

\* load_arrival_fixture and scale_arrivals, whose throw is for scales that
\* parse_args refuses
LoadArrivals ==
  LET path == options.arrival
      IsFixture == /\ path \in DOMAIN input.files /\ ~IsDocument(input.files[path])
                   /\ input.files[path].model \in {"poisson_bursty", "periodic"}
  IN
  /\ phase = "loaded"
  /\ Proceeds(IsFixture, "scheduled")
  /\ IF IsFixture
     THEN \E times \in Arrivals(input.files[path]) :
            arrivals' = [i \in DOMAIN times |-> times[i] \div Numeral[options.scale]]
     ELSE UNCHANGED arrivals
  /\ UNCHANGED <<input, profile, root, loaded, workload, written>>

\* expand_workload; its throw is for workloads that the loader refuses.
Expand ==
  /\ phase = "scheduled"
  /\ phase' = "expanded"
  /\ workload' = ExpandWorkload(loaded, arrivals)
  /\ UNCHANGED <<input, profile, root, loaded, arrivals, written>>

\* apply_placement_mode
Place ==
  /\ phase = "expanded"
  /\ phase' = "placed"
  /\ workload' = ApplyPlacementMode(workload, options.mode)
  /\ UNCHANGED <<input, profile, root, loaded, arrivals, written>>

\* from_spec and make_tasks_from_spec
MakeTasks ==
  /\ phase = "placed"
  /\ Proceeds(IsRunnable(workload), "ready")
  /\ UNCHANGED <<input, profile, root, loaded, arrivals, workload, written>>

------------------------------------------------------------------------------
(* main, the run *)

\* validate_task, of a stage
Fits(stage) ==
  /\ stage.profile # Absent => HasMean(profile, stage.key, stage.profile)
  /\ \A i \in DOMAIN stage.demands :
       stage.demands[i].units <= Inventory(profile)[stage.demands[i].resource]

NodeStages(dag) == {dag.nodes[k].stage : k \in DOMAIN dag.nodes}
EntryNodes(dag) == {k \in DOMAIN dag.nodes : dag.nodes[k].name \in ToSet(dag.entries)}
EntryIds(w) ==
  UNION {{<<"node", i, w.dags[i].id + k - 1>> : k \in EntryNodes(w.dags[i])} :
           i \in DOMAIN w.dags}
Apart(ids) == \A x, y \in ids : x # y => x[3] # y[3]

\* submit_task of every task, and submit_initial
Submit ==
  /\ phase = "ready"
  /\ Proceeds(/\ \A i \in DOMAIN workload.tasks :
                    \A k \in DOMAIN workload.tasks[i].stages : Fits(workload.tasks[i].stages[k])
              /\ \A i \in DOMAIN workload.dags :
                    \A k \in EntryNodes(workload.dags[i]) : Fits(workload.dags[i].nodes[k].stage)
              /\ Apart(TaskIds(workload) \cup EntryIds(workload)),
              "running")
  /\ UNCHANGED <<input, profile, root, loaded, arrivals, workload, written>>

AllStages(w) ==
  UNION {ToSet(w.tasks[i].stages) : i \in DOMAIN w.tasks}
    \cup UNION {NodeStages(w.dags[i]) : i \in DOMAIN w.dags}

OnResource(stage, resource) ==
  {i \in DOMAIN stage.demands : stage.demands[i].resource = resource}

\* A stage may ask for a resource twice: placed, it asks one side for what it asked
\* of both.  The second allocation throws if what the first leaves is too little.
AsksTwice(stage) == \E r \in ResourceClass : Cardinality(OnResource(stage, r)) > 1
Overloads(stage) ==
  \E r \in ResourceClass :
    LET Units(i) == stage.demands[i].units
    IN MapThenSumSet(Units, OnResource(stage, r)) > Inventory(profile)[r]

\* The loop comes to its end: every node is released and accepted, every stage starts.
RunEnds ==
  /\ phase = "running"
  /\ \A stage \in AllStages(workload) : Fits(stage) /\ ~Overloads(stage)
  /\ IdsApart(workload)
  /\ phase' = "ended"
  /\ UNCHANGED <<input, profile, root, loaded, arrivals, workload, written>>

\* An exception leaves the loop, which releases nodes and allocates when others use
\* the resources as well.
RunThrows ==
  /\ phase = "running"
  /\ \/ \E stage \in AllStages(workload) : ~Fits(stage) \/ AsksTwice(stage)
     \/ ~IdsApart(workload)
  /\ phase' = "refused"
  /\ UNCHANGED <<input, profile, root, loaded, arrivals, workload, written>>

------------------------------------------------------------------------------
(* main, the results *)

\* The line that names the columns, and the line of a run: after those that are
\* always there, a column for each key of the metadata, and its value
Header(opts) ==
  [kind |-> "header", cells |-> [i \in DOMAIN opts.metadata |-> opts.metadata[i][1]]]
Row(opts, times) ==
  [kind |-> "row", mode |-> opts.mode, scale |-> opts.scale, count |-> Len(times),
   cells |-> [i \in DOMAIN opts.metadata |-> opts.metadata[i][2]]]

\* write_summary
WriteSummary ==
  /\ phase = "ended"
  /\ \/ /\ phase' = IF options.csv = None THEN "done" ELSE "reported"
        /\ summary' = Row(options, arrivals)
     \/ /\ phase' = "refused" \* the file cannot be opened
        /\ UNCHANGED summary
  /\ UNCHANGED <<input, profile, root, loaded, arrivals, workload, csv, ended>>

\* Mutant: the file is looked for after it was opened, which creates it.
Appended_opened(lines, opts, times) ==
  lines \o <<Row(opts, times)>>

\* append_csv: the columns are named if the file does not exist.
Appended(lines, opts, times) ==
  (IF lines = <<>> THEN <<Header(opts)>> ELSE lines) \o <<Row(opts, times)>>

AppendCsv ==
  /\ phase = "reported"
  /\ \/ /\ phase' = "done"
        /\ csv' = Appended(csv, options, arrivals)
        /\ ended' = Append(ended, [options |-> options, count |-> Len(arrivals)])
     \/ /\ phase' = "refused" \* the file cannot be opened
        /\ UNCHANGED <<csv, ended>>
  /\ UNCHANGED <<input, profile, root, loaded, arrivals, workload, summary>>

\* The program is started again, with the same files and other arguments.
Again ==
  /\ phase \in {"done", "refused"}
  /\ csv # <<>> /\ Len(csv) <= MaxRows
  /\ \E command \in Commands : input' = [input EXCEPT !.command = command]
  /\ phase' = "started"
  /\ profile' = Blank.profile
  /\ root' = Blank.root
  /\ loaded' = Blank.loaded
  /\ arrivals' = Blank.arrivals
  /\ workload' = Blank.workload
  /\ UNCHANGED written

Next ==
  \/ ParseArgs
  \/ LoadProfile
  \/ ReadDocument
  \/ LoadWorkload
  \/ LoadArrivals
  \/ Expand
  \/ Place
  \/ MakeTasks
  \/ Submit
  \/ RunEnds
  \/ RunThrows
  \/ WriteSummary
  \/ AppendCsv
  \/ Again

Spec == Init /\ [][Next]_vars

------------------------------------------------------------------------------
(* Properties *)

WasProfiled == profile # None
IsParsedNow == phase = "parsed"
WasLoaded == loaded # Empty

ProfileFile == input.files[options.profile]
WorkloadFile == input.files[options.workload]

\* A document is read up to the first line whose indentation gives it no place
\* among the lines before it, and no further, without an error; and what is read is
\* what the indentation of these lines makes of them.  Comments, blank lines and the
\* text of block scalars do not count.
ReadAsIndented ==
  IsParsedNow =>
    LET content == Content(WorkloadFile.lines)
        misfit == FirstMisfit(content)
    IN root = Result(Meaning(SubSeq(content, 1, misfit - 1)), misfit)

IsWritten(path) ==
  path \in DOMAIN input.files /\ IsDocument(input.files[path]) /\ input.files[path].node # None

PlatformAsWritten ==
  IsCommand(input.command) /\ IsWritten(options.profile) =>
    /\ WasProfiled => Platform(profile) = ProfileFile.platform
    /\ phase = "refused" /\ ~WasProfiled => ProfileFile.platform = None

WorkloadAsWritten ==
  WasProfiled /\ IsWritten(options.workload) =>
    /\ IsParsedNow => /\ root.node = WorkloadFile.node
                      /\ root.next > Len(Content(WorkloadFile.lines))
    /\ WasLoaded => loaded = WorkloadFile.workload
    /\ phase = "refused" /\ ~WasLoaded => WorkloadFile.workload = None

\* A profile written as the example is gives the resources what it says, a
\* capacity of its own where it says 0, and the service times their means; it is
\* refused only if a field is missing, is no number of its type, or is indented by
\* a width that the workload loader would take.  A workload written as the examples
\* are, whichever width its blocks are indented by, is read to its last line and
\* loaded as it was written, and is refused only if it breaks a rule of the loader.
LoadedAsWritten == PlatformAsWritten /\ WorkloadAsWritten

\* SCHEMA.md: ids are unique within a workload.  The copies keep them so, nodes
\* included, if the ids of one copy are below the stride and no id overflows.
CopiesHaveTheirOwnIds ==
  /\ workload # Empty
  /\ IdsApart(loaded) /\ IdsBelowStride(loaded)
  /\ Len(arrivals) * IdStride <= IdRange
  => IdsApart(workload)

\* before and after are a stage and the same stage placed: no demand is lost, and
\* the stage is on one side as a whole, its profile included, if it may be there.
IsPlaced(before, after) ==
  LET side == Wanted(before, options.mode)
      moves == side # Absent /\ AllowsPlacement(before, side)
  IN
  /\ moves \/ after = before
  /\ DOMAIN after.demands = DOMAIN before.demands
  /\ \A i \in DOMAIN after.demands :
       /\ after.demands[i].units = before.demands[i].units
       /\ moves => SideOf(after.demands[i].resource) = side
  /\ moves => after.profile \in {side, Absent}
  /\ after.profile = Absent <=> before.profile = Absent

\* The stages of a workload, by the task or node that they belong to
StagesOf(w) ==
  [tasks |-> [i \in DOMAIN w.tasks |-> w.tasks[i].stages],
   nodes |-> [i \in DOMAIN w.dags |->
                [k \in DOMAIN w.dags[i].nodes |-> w.dags[i].nodes[k].stage]]]

\* Every stage of every copy is placed as the mode asks for and its list allows,
\* and otherwise left as the workload has it.
PlacedAsAsked ==
  phase \notin {"expanded", "refused"} /\ workload # Empty =>
    LET before == StagesOf(ExpandWorkload(loaded, arrivals))
        after == StagesOf(workload)
    IN
    /\ \A i \in DOMAIN before.tasks : \A k \in DOMAIN before.tasks[i] :
         IsPlaced(before.tasks[i][k], after.tasks[i][k])
    /\ \A i \in DOMAIN before.nodes : \A k \in DOMAIN before.nodes[i] :
         IsPlaced(before.nodes[i][k], after.nodes[i][k])

KeysOf(run) == [i \in DOMAIN run.options.metadata |-> run.options.metadata[i][1]]

\* A line has the results of a run, and what the run gave for a column under it, if
\* the run has the columns' keys in their order: the code takes no other care.
IsLineOf(line, run) ==
  /\ line.kind = "row" /\ line.mode = run.options.mode
  /\ line.scale = run.options.scale /\ line.count = run.count
  /\ KeysOf(run) = csv[1].cells =>
       \A i \in DOMAIN csv[1].cells :
         \E pair \in ToSet(run.options.metadata) :
           csv[1].cells[i] = pair[1] /\ line.cells[i] = pair[2]

\* The CSV file names its columns once, before the first line, and has a line for
\* each run that ended well, in their order, whatever runs were refused in between,
\* one that could write its summary only included; and the summary is of a run that
\* is as new as the last line.
RowsOfTheRuns ==
  /\ csv = <<>> <=> ended = <<>>
  /\ csv # <<>> =>
       /\ Len(csv) = Len(ended) + 1
       /\ csv[1].kind = "header" /\ csv[1].cells = KeysOf(ended[1])
       /\ \A i \in DOMAIN ended : IsLineOf(csv[i + 1], ended[i])
  /\ phase = "done" /\ options.csv # None => summary = Last(csv)
===============================================================================
