----------------------------- MODULE CommandLine -----------------------------
(***************************************************************************)
(* How the command line tool comes to its options: parse_arguments and     *)
(* parse_manifest_file of tools/cli/runner.cc.  The arguments are read one *)
(* by one; only when all are read the manifest that --config names fills   *)
(* the options which the command line left open.                           *)
(*                                                                         *)
(* A value is a member of Values or one of the markers below, whatever its *)
(* type.  A line of a manifest is [indented, key, value], where key is     *)
(* None in a line without a colon; blank lines and comments are skipped,   *)
(* paths are not resolved.                                                 *)
(***************************************************************************)
EXTENDS Naturals, Sequences, Functions, FiniteSets

CONSTANTS
  Flags,         \* the options that are given on the command line
  Values,        \* the values that any option takes
  Bad,           \* a value that an option which is checked does not take
  Empty,         \* an empty string
  Default,       \* the built-in value of an option
  None,          \* nothing: no value, no colon, no manifest
  Manifests,     \* what the file named by --config may hold: lines, or None
  MaxArguments   \* bound: the length of the command line

Required == {"profile", "workload"}
Paths == Required \cup {"output", "policy_config"}
Rolling == {"rolling_queue", "rolling_util", "rolling_sojourn"}
Modes == {"host", "nic"}
Fields == Paths \cup Rolling \cup Modes \cup {"seed", "policy"}

\* The lines of a file; a line with a colon has a value, an empty one perhaps.
IsManifest(lines) ==
  /\ Len(lines) \in Nat /\ DOMAIN lines = 1..Len(lines)
  /\ \A k \in DOMAIN lines :
       /\ lines[k].indented \in BOOLEAN
       /\ lines[k].key # None => lines[k].value # None

ASSUME CommandLineAssumption ==
  /\ Flags \subseteq Fields
  /\ Cardinality({Bad, Empty, Default, None}) = 4
  /\ {Bad, Empty, Default, None} \cap Values = {}
  /\ \A lines \in Manifests \ {None} : IsManifest(lines)
  /\ MaxArguments \in Nat

VARIABLES
  argv,      \* the arguments read so far, each with its value
  options,   \* CliOptions: the value of each field
  given,     \* the fields whose _cli flag is set
  config,    \* manifest_cli
  batch,     \* batch_manifest_path, None without batch_mode
  labels,    \* options.metadata
  manifest,  \* history: what the manifest held, None before it is read
  result     \* "parsing", "help", "error", "run" or "batch"

vars == <<argv, options, given, config, batch, labels, manifest, result>>

NoLabels == [k \in {} |-> None]

Init ==
  /\ argv = <<>>
  /\ options = [f \in Fields |-> IF f \in Required THEN Empty ELSE Default]
  /\ given = {}
  /\ config = FALSE
  /\ batch = None
  /\ labels = NoLabels
  /\ manifest = None
  /\ result = "parsing"

------------------------------------------------------------------------------
(* The manifest *)

\* What parse_manifest_file has gathered after some lines
Unread ==
  [ok |-> TRUE, service |-> FALSE, metadata |-> FALSE,
   fields |-> [f \in Fields |-> None], labels |-> NoLabels]

IsHeader(line) == line.key \in {"service_modes", "metadata"} /\ line.value = Empty

Failed(m) == [m EXCEPT !.ok = FALSE]

\* A line that is not indented ends both sections; a header opens one.
InSections(m, line) ==
  LET outer == IF line.indented THEN m
               ELSE [m EXCEPT !.service = FALSE, !.metadata = FALSE]
  IN IF ~IsHeader(line) THEN outer
     ELSE IF line.key = "service_modes" THEN [outer EXCEPT !.service = TRUE]
     ELSE [outer EXCEPT !.metadata = TRUE]

\* A line of the section service_modes
ModeLine(m, line) ==
  IF line.key \in Modes /\ line.value \in Values
  THEN [m EXCEPT !.fields[line.key] = line.value] ELSE Failed(m)

\* A line of the section metadata
LabelLine(m, line) ==
  IF line.key = Empty THEN Failed(m)
  ELSE [m EXCEPT !.labels =
          [k \in DOMAIN @ \cup {line.key} |-> IF k = line.key THEN line.value ELSE @[k]]]

\* Any other line.  The policy is not checked before it is used.
FieldLine(m, line) ==
  IF /\ line.key \in Fields \ Modes
     /\ line.value # Empty
     /\ line.key \in Paths \cup {"policy"} \/ line.value # Bad
  THEN [m EXCEPT !.fields[line.key] = line.value] ELSE Failed(m)

\* Mutant: a line that is not indented does not end the sections.
ReadLine_sectionSticks(m, line) ==
  LET in == IF IsHeader(line) THEN InSections(m, line) ELSE m IN
  IF ~m.ok \/ IsHeader(line) THEN in
  ELSE IF line.key = None THEN Failed(in)
  ELSE IF in.service THEN ModeLine(in, line)
  ELSE IF in.metadata THEN LabelLine(in, line)
  ELSE FieldLine(in, line)

\* An iteration of the loop over the lines; after an error it has returned.
ReadLine(m, line) ==
  LET in == InSections(m, line) IN
  IF ~m.ok THEN m
  ELSE IF IsHeader(line) THEN in
  ELSE IF line.key = None THEN Failed(in)
  ELSE IF in.service THEN ModeLine(in, line)
  ELSE IF in.metadata THEN LabelLine(in, line)
  ELSE FieldLine(in, line)

\* parse_manifest_file
ParsedManifest(lines) ==
  LET after[k \in 0..Len(lines)] ==
        IF k = 0 THEN Unread ELSE ReadLine(after[k - 1], lines[k])
  IN IF lines = None THEN Failed(Unread) ELSE after[Len(lines)]

------------------------------------------------------------------------------
(* The arguments *)

Argument(flag, value) ==
  /\ result = "parsing"
  /\ Len(argv) < MaxArguments
  /\ argv' = Append(argv, [flag |-> flag, value |-> value])

\* An option with its value.  Paths are not checked here.
SetOption(f, v) ==
  /\ Argument(f, v)
  /\ \/ /\ f \in Paths \/ v \in Values
        /\ options' = [options EXCEPT ![f] = v]
        /\ given' = given \cup {f}
        /\ UNCHANGED result
     \/ /\ f \notin Paths /\ v \notin Values
        /\ result' = "error"
        /\ UNCHANGED <<options, given>>
  /\ UNCHANGED <<config, batch, labels, manifest>>

\* --config or --manifest
NameManifest ==
  /\ Argument("config", Default)
  /\ config' = TRUE
  /\ result' = IF config THEN "error" ELSE result
  /\ UNCHANGED <<options, given, batch, labels, manifest>>

\* --batch
NameBatch(path) ==
  /\ Argument("batch", path)
  /\ batch' = IF batch = None THEN path ELSE batch
  /\ result' = IF batch = None THEN result ELSE "error"
  /\ UNCHANGED <<options, given, config, labels, manifest>>

\* An argument that is not known, or one without its value
Unusable(flag) ==
  /\ Argument(flag, None)
  /\ result' = "error"
  /\ UNCHANGED <<options, given, config, batch, labels, manifest>>

Help ==
  /\ Argument("help", Default)
  /\ result' = "help"
  /\ UNCHANGED <<options, given, config, batch, labels, manifest>>

------------------------------------------------------------------------------
(* All arguments are read *)

\* The rolling windows have flags of their own, which this check leaves out.
EndBatch ==
  /\ result = "parsing" /\ batch # None
  /\ result' = IF given \ Rolling # {} \/ config \/ batch = Empty
               THEN "error" ELSE "batch"
  /\ UNCHANGED <<argv, options, given, config, batch, labels, manifest>>

\* Mutant: the manifest overrides the command line.
Filled_manifestWins(m) ==
  [f \in Fields |-> IF m.fields[f] = None THEN options[f] ELSE m.fields[f]]

\* The options that the command line left open, from the manifest
Filled(m) ==
  [f \in Fields |->
     IF f \in given \/ m.fields[f] = None THEN options[f] ELSE m.fields[f]]

\* The manifest can be used.
Usable(m) ==
  /\ m.ok
  /\ \A f \in Required \ given : m.fields[f] # None
  /\ "policy" \in given \/ m.fields["policy"] # Bad

Complete(opts) == \A f \in Required : opts[f] # Empty

EndWithManifest(lines) ==
  /\ result = "parsing" /\ batch = None /\ config
  /\ manifest' = lines
  /\ LET m == ParsedManifest(lines) IN
     \/ /\ Usable(m)
        /\ options' = Filled(m)
        /\ labels' = m.labels
        /\ result' = IF Complete(Filled(m)) THEN "run" ELSE "error"
     \/ /\ ~Usable(m)
        /\ result' = "error"
        /\ UNCHANGED <<options, labels>>
  /\ UNCHANGED <<argv, given, config, batch>>

EndWithoutManifest ==
  /\ result = "parsing" /\ batch = None /\ ~config
  /\ result' = IF Complete(options) THEN "run" ELSE "error"
  /\ UNCHANGED <<argv, options, given, config, batch, labels, manifest>>

Next ==
  \/ \E f \in Flags, v \in Values \cup {Empty, Bad} :
       /\ IF f \in Paths THEN v # Bad ELSE v # Empty
       /\ SetOption(f, v)
  \/ NameManifest
  \/ \E path \in Values \cup {Empty} : NameBatch(path)
  \/ \E flag \in Flags \cup {"config", "batch", "unknown"} : Unusable(flag)
  \/ Help
  \/ EndBatch
  \/ \E lines \in Manifests : EndWithManifest(lines)
  \/ EndWithoutManifest

Spec == Init /\ [][Next]_vars

------------------------------------------------------------------------------
(* Properties *)

Last(S) == CHOOSE i \in S : \A j \in S : j <= i

\* Line k is in the section: the lines since a header of it are indented.
InSection(lines, section, k) ==
  \E j \in 1..k - 1 :
    /\ IsHeader(lines[j]) /\ lines[j].key = section
    /\ \A i \in j + 1..k : lines[i].indented

AtTop(lines, k) ==
  \A section \in {"service_modes", "metadata"} : ~InSection(lines, section, k)

\* The lines that give f a value
LinesFor(lines, f) ==
  {k \in DOMAIN lines :
     /\ lines[k].key = f
     /\ IF f \in Modes THEN InSection(lines, "service_modes", k) ELSE AtTop(lines, k)}

ArgumentsFor(f) == {i \in DOMAIN argv : argv[i].flag = f}

\* Each option has the value it was last given on the command line, wherever
\* --config stands, else the value that the manifest gives it last at a place
\* where the field belongs, else its default (README.md, "Command-line flags still
\* override manifest settings").
FlagsOverrideManifest ==
  result = "run" =>
    \A f \in Fields :
      options[f] =
        IF ArgumentsFor(f) # {} THEN argv[Last(ArgumentsFor(f))].value
        ELSE IF config /\ LinesFor(manifest, f) # {}
        THEN manifest[Last(LinesFor(manifest, f))].value
        ELSE Default

FaultyLine(lines, k) ==
  LET key == lines[k].key
      value == lines[k].value
  IN /\ ~IsHeader(lines[k])
     /\ \/ key = None
        \/ /\ InSection(lines, "service_modes", k)
           /\ key \notin Modes \/ value \notin Values
        \/ /\ ~InSection(lines, "service_modes", k)
           /\ InSection(lines, "metadata", k)
           /\ key = Empty
        \/ /\ AtTop(lines, k)
           /\ \/ key \notin Fields \ Modes \/ value = Empty
              \/ key \in Rolling \cup {"seed"} /\ value = Bad

\* Two arguments of which one is too many
Clash(i, j) ==
  \/ argv[i].flag = argv[j].flag /\ argv[i].flag \in {"config", "batch"}
  \/ argv[i].flag = "batch" /\ argv[j].flag \notin Rolling \cup {"batch"}

FaultyArguments ==
  \/ \E i \in DOMAIN argv :
       \/ argv[i].value \in {None, Bad}
       \/ argv[i].flag = "batch" /\ argv[i].value = Empty
  \/ \E i, j \in DOMAIN argv : i # j /\ Clash(i, j)

\* Neither the command line nor the manifest gives f.
Misses(lines, f) == ArgumentsFor(f) = {} /\ (~config \/ LinesFor(lines, f) = {})

FaultyManifest(lines) ==
  \/ lines = None
  \/ \E k \in DOMAIN lines : FaultyLine(lines, k)
  \/ /\ ArgumentsFor("policy") = {} /\ LinesFor(lines, "policy") # {}
     /\ lines[Last(LinesFor(lines, "policy"))].value = Bad

Incomplete ==
  \E f \in Required :
    \/ Misses(manifest, f)
    \/ ArgumentsFor(f) # {} /\ argv[Last(ArgumentsFor(f))].value = Empty

\* A command line is refused if and only if there is something wrong with it or
\* with the manifest it names: no error is swallowed by a later argument, and no
\* section of a manifest makes a legal line illegal or the other way round.
RefusedIffFaulty ==
  result \in {"error", "run", "batch"} =>
    (result = "error" <=>
       \/ FaultyArguments
       \/ batch = None /\ config /\ FaultyManifest(manifest)
       \/ batch = None /\ Incomplete)
==============================================================================
