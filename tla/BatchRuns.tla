------------------------------ MODULE BatchRuns ------------------------------
(***************************************************************************)
(* Batches of the command line tool: parse_batch_manifest_data and         *)
(* run_batch_manifest of tools/cli/runner.cc, one process after another on *)
(* the same file system.  A process reads its whole manifest, opens the    *)
(* CSV, and then for each run simulates, writes a report and appends a     *)
(* row.  An exception ends it, anything may kill it, and the files stay.   *)
(*                                                                         *)
(* A manifest is [csv, keys, defaults, runs], with one CSV file that all   *)
(* manifests may name.  The settings of defaults and of a run give each of *)
(* Fields a value or None, and metadata: a function from keys to values.   *)
(* A run has a name as well, which is its index, from 0, if none is given: *)
(* "run_" and the index.  The simulation itself is the subject of DagRun.  *)
(***************************************************************************)
EXTENDS Integers, Sequences, FiniteSets

CONSTANTS
  Manifests,      \* the manifests that batches are started with
  Bad,            \* a value that the parser refuses
  Missing,        \* a file that does not load
  BaseDir,        \* the directory of the manifests
  Partial,        \* a report that is not complete
  None,           \* not given, no file, no manifest
  MaxProcesses    \* bound: the number of batches that are started

Fields ==
  {"profile", "workload", "output", "output_dir", "seed", "policy", "policy_config",
   "host", "nic", "queue_us", "util_us", "sojourn_tasks"}

ASSUME BatchAssumption ==
  /\ Cardinality({Bad, Missing, Partial, None}) = 4
  /\ Partial \notin [process : Nat, run : Nat]
  /\ None \notin {"refused", "failed", "done", "killed"}
  /\ MaxProcesses \in Nat
  /\ \A m \in Manifests :
       /\ Len(m.runs) \in Nat /\ DOMAIN m.runs = 1..Len(m.runs)
       /\ DOMAIN m = {"csv", "keys", "defaults", "runs"} /\ m.csv \in BOOLEAN
       /\ \A i \in DOMAIN m.runs : DOMAIN m.runs[i].fields = Fields
       /\ DOMAIN m.defaults.fields = Fields

VARIABLES
  csv,        \* the lines of the CSV file, None if it does not exist
  reports,    \* the report at each path: None, Partial or [process, run]
  phase,      \* "idle", "load", "report" or "row"
  manifest,   \* the manifest of the batch that runs, or ran last
  next,       \* the index of the run of the loop
  stream,     \* csv_stream: "closed", "header" to be flushed, "good" or "bad"
  process,    \* the number of batches started
  outcome,    \* how the last batch ended, None before: "refused", "failed", "done", "killed"
  damaged     \* history: "csv" if a header or row was lost, "report" if a report's end was

vars == <<csv, reports, phase, manifest, next, stream, process, outcome, damaged>>

------------------------------------------------------------------------------
(* The manifest *)

\* What a run has for f: its own setting, that of the defaults, or None, which
\* stands for the default of CliOptions.
Setting(m, i, f) ==
  IF m.runs[i].fields[f] # None THEN m.runs[i].fields[f] ELSE m.defaults.fields[f]

RunName(m, i) == IF m.runs[i].name = None THEN i - 1 ELSE m.runs[i].name

\* compute_output_path
OutputPath(m, i) ==
  LET dir == Setting(m, i, "output_dir") IN
  IF Setting(m, i, "output") # None THEN Setting(m, i, "output")
  ELSE <<IF dir = None THEN BaseDir ELSE dir, RunName(m, i)>>

\* The metadata of a run, with that of the defaults
Metadata(m, i) ==
  LET own == m.runs[i].metadata
      shared == m.defaults.metadata
  IN [k \in DOMAIN own \cup DOMAIN shared |-> IF k \in DOMAIN own THEN own[k] ELSE shared[k]]

\* metadata_keys: the columns that follow those every CSV has
MetadataKeys(m) ==
  m.keys \cup DOMAIN m.defaults.metadata \cup
    UNION {DOMAIN Metadata(m, i) : i \in DOMAIN m.runs}

\* parse_batch_manifest_data does not throw.
Accepted(m) ==
  /\ m.runs # <<>>
  /\ \A f \in Fields : m.defaults.fields[f] # Bad
  /\ \A i \in DOMAIN m.runs :
       /\ \A f \in Fields : m.runs[i].fields[f] # Bad
       /\ Setting(m, i, "profile") # None
       /\ Setting(m, i, "workload") # None

Outputs == UNION {{OutputPath(m, i) : i \in DOMAIN m.runs} : m \in Manifests}

------------------------------------------------------------------------------
(* The files *)

Header(m) == [kind |-> "header", keys |-> MetadataKeys(m)]

\* append_batch_csv_row, for run i of batch p; a key that the run has no value for
\* gets an empty cell.
Row(m, i, p) ==
  [kind |-> "row", keys |-> MetadataKeys(m), process |-> p, run |-> i,
   output |-> OutputPath(m, i),
   cells |-> [k \in MetadataKeys(m) |->
                IF k \in DOMAIN Metadata(m, i) THEN Metadata(m, i)[k] ELSE None]]

Init ==
  /\ csv = None
  /\ reports = [p \in Outputs |-> None]
  /\ phase = "idle"
  /\ manifest = None
  /\ next = 1
  /\ stream = "closed"
  /\ process = 0
  /\ outcome = None
  /\ damaged = {}

------------------------------------------------------------------------------
(* A batch *)

\* The manifest is refused before anything is written.
Refuse(m) ==
  /\ phase = "idle" /\ process < MaxProcesses
  /\ ~Accepted(m)
  /\ manifest' = m /\ process' = process + 1 /\ outcome' = "refused"
  /\ UNCHANGED <<csv, reports, phase, next, stream, damaged>>

\* The CSV cannot be opened.
RefuseCsv(m) ==
  /\ phase = "idle" /\ process < MaxProcesses
  /\ Accepted(m) /\ m.csv
  /\ manifest' = m /\ process' = process + 1 /\ outcome' = "refused"
  /\ UNCHANGED <<csv, reports, phase, next, stream, damaged>>

\* Mutant: every batch writes a header.
OpenedStream_always(m) == IF m.csv THEN "header" ELSE "closed"

\* The header goes into the buffer of the stream if the file did not exist.
OpenedStream(m) == IF ~m.csv THEN "closed" ELSE IF csv = None THEN "header" ELSE "good"

Start(m) ==
  /\ phase = "idle" /\ process < MaxProcesses
  /\ Accepted(m)
  /\ manifest' = m
  /\ csv' = IF m.csv /\ csv = None THEN <<>> ELSE csv
  /\ stream' = OpenedStream(m)
  /\ next' = 1
  /\ phase' = "load"
  /\ process' = process + 1
  /\ UNCHANGED <<reports, outcome, damaged>>

\* run_simulation up to write_report does not throw.
Loads(m, i) ==
  /\ Setting(m, i, "profile") # Missing
  /\ Setting(m, i, "workload") # Missing
  /\ Setting(m, i, "policy") = "dsl" =>
       Setting(m, i, "policy_config") \notin {None, Missing}

\* Mutant: a report that exists is kept.
Written_once(report) ==
  [reports EXCEPT ![OutputPath(manifest, next)] =
     IF @ \in {None, Partial} THEN report ELSE @]

Written(report) == [reports EXCEPT ![OutputPath(manifest, next)] = report]

\* The simulation is run and the report opened, which empties it.
Simulate ==
  /\ phase = "load"
  /\ Loads(manifest, next)
  /\ reports' = Written(Partial)
  /\ phase' = "report"
  /\ UNCHANGED <<csv, manifest, next, stream, process, outcome, damaged>>

\* The rest of write_report.  It looks at the state of the stream before the
\* stream is closed, which writes what is still buffered: if that fails, nobody
\* notices.
WriteReport ==
  /\ phase = "report"
  /\ \/ /\ reports' = Written([process |-> process, run |-> next])
        /\ UNCHANGED damaged
     \/ /\ damaged' = damaged \cup {"report"}
        /\ UNCHANGED reports
  /\ phase' = "row"
  /\ UNCHANGED <<csv, manifest, next, stream, process, outcome>>

\* What the stream holds is written, with lines after it.
Flushed(lines) ==
  /\ stream # "bad"
  /\ csv' = csv \o (IF stream = "header" THEN <<Header(manifest)>> ELSE <<>>) \o lines
  /\ UNCHANGED damaged

\* The stream cannot write: this and all that follows is lost, and nobody looks.
\* A line that is written in part counts as lost.
Lost ==
  /\ damaged' = damaged \cup {"csv"}
  /\ UNCHANGED csv

\* The loop goes on with the next run or ends.
Continue(streamAfter) ==
  \/ /\ next < Len(manifest.runs)
     /\ next' = next + 1 /\ phase' = "load" /\ stream' = streamAfter
     /\ UNCHANGED outcome
  \/ /\ next = Len(manifest.runs)
     /\ phase' = "idle" /\ outcome' = "done" /\ stream' = "closed"
     /\ UNCHANGED next

\* The row is appended and flushed, with the header if that is still buffered.
AppendRow ==
  /\ phase = "row"
  /\ \/ /\ stream = "closed"
        /\ UNCHANGED <<csv, damaged>>
        /\ Continue("closed")
     \/ /\ stream # "closed"
        /\ \/ Flushed(<<Row(manifest, next, process)>>) /\ Continue("good")
           \/ Lost /\ Continue("bad")
  /\ UNCHANGED <<reports, manifest, process>>

\* Mutant: after an exception the batch goes on with the next run.
Fail_goesOn ==
  /\ phase \in {"load", "report"}
  /\ Continue(stream)
  /\ UNCHANGED <<csv, reports, manifest, process, damaged>>

\* The run cannot be loaded, or its report not be opened or written.  The
\* exception ends the batch; the stream is closed, which flushes the header.
Fail ==
  /\ phase \in {"load", "report"}
  /\ \/ stream = "header" /\ Flushed(<<>>)
     \/ stream = "header" /\ Lost
     \/ stream # "header" /\ UNCHANGED <<csv, damaged>>
  /\ phase' = "idle" /\ outcome' = "failed" /\ stream' = "closed"
  /\ UNCHANGED <<reports, manifest, next, process>>

\* The process is killed: what is buffered is lost.
Kill ==
  /\ phase # "idle"
  /\ phase' = "idle" /\ outcome' = "killed" /\ stream' = "closed"
  /\ damaged' = IF stream = "header" THEN damaged \cup {"csv"} ELSE damaged
  /\ UNCHANGED <<csv, reports, manifest, next, process>>

Next ==
  \/ \E m \in Manifests : Refuse(m) \/ RefuseCsv(m) \/ Start(m)
  \/ Simulate
  \/ WriteReport
  \/ AppendRow
  \/ Fail
  \/ Kill

Spec == Init /\ [][Next]_vars

------------------------------------------------------------------------------
(* Properties *)

\* Line i of the CSV is a row, or one of the last batch.
IsRow(i) == csv[i].kind = "row"
IsRecent(i) == IsRow(i) /\ csv[i].process = process

\* A row has all metadata of its run and what the defaults add to it; the rows
\* of a batch have the same columns (policy_baseline/README.md, "Metadata fields
\* declared under defaults.metadata (or overridden per run) are copied into the
\* CSV").
MetadataInRows ==
  \A i \in DOMAIN csv :
    IsRecent(i) =>
      LET row == csv[i]
          own == manifest.runs[row.run].metadata
          shared == manifest.defaults.metadata
      IN /\ \A k \in DOMAIN own : k \in row.keys /\ row.cells[k] = own[k]
         /\ \A k \in DOMAIN shared \ DOMAIN own :
              k \in row.keys /\ row.cells[k] = shared[k]
         /\ \A j \in DOMAIN csv : IsRecent(j) => csv[j].keys = row.keys

\* A row right after the row of the run before it, in the same batch
ContinuesBatch(i) ==
  /\ i > 1 /\ IsRow(i - 1)
  /\ csv[i - 1].process = csv[i].process /\ csv[i].run = csv[i - 1].run + 1

\* The last row of the file is that of run i of the last batch.
EndsWith(i) == csv # <<>> /\ IsRecent(Len(csv)) /\ csv[Len(csv)].run = i

\* The rows of every batch are those of its first runs, each once and in the
\* order of the manifest, however the batch ended: a row is that of a first run, and
\* its batch is new, or it follows the row of the run before it.  While a batch runs,
\* and when it is done, none of them is missing unless the CSV could not be written.
\* The rows of the last batch have the metadata of their run.
RowsFollowTheManifest ==
  csv # None =>
    /\ MetadataInRows
    /\ \A i \in DOMAIN csv :
         IsRow(i) =>
           \/ ContinuesBatch(i)
           \/ csv[i].run = 1 /\ \A j \in 1..(i - 1) : IsRow(j) => csv[j].process < csv[i].process
    /\ stream \in {"header", "good"} /\ phase # "idle" =>
         IF next = 1 THEN \A i \in DOMAIN csv : ~IsRecent(i) ELSE EndsWith(next - 1)
    /\ phase = "idle" /\ outcome = "done" /\ manifest.csv /\ "csv" \notin damaged =>
         EndsWith(Len(manifest.runs))

\* The CSV begins with its only header, over all the batches that append to it,
\* unless a header or a row was lost.
OneHeaderFirst ==
  csv # None /\ "csv" \notin damaged =>
    \A i \in DOMAIN csv : IsRow(i) <=> i > 1

\* The last batch wrote the report at this path, for run i or a later one.
IsBacked(path, i) ==
  /\ reports[path] # Partial
  /\ reports[path].process = process /\ reports[path].run >= i

\* The report that a row of the last batch names is that of its run or of a later
\* run with the same path; it is incomplete only while such a run writes it, or
\* after one failed to.  When the batch is done all its reports are complete.
\* Holds unless the end of a report was lost.
ReportsBackRows ==
  "report" \notin damaged =>
    /\ csv # None =>
         \A i \in DOMAIN csv :
           IsRecent(i) =>
             \/ IsBacked(csv[i].output, csv[i].run)
             \/ /\ reports[csv[i].output] = Partial /\ next > csv[i].run
                /\ csv[i].output = OutputPath(manifest, next)
    /\ phase = "idle" /\ outcome = "done" =>
         \A i \in DOMAIN manifest.runs : IsBacked(OutputPath(manifest, i), i)
===============================================================================
