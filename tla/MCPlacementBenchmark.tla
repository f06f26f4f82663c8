------------------------- MODULE MCPlacementBenchmark -------------------------
(***************************************************************************)
(* An instance of PlacementBenchmark for TLC.                              *)
(***************************************************************************)
EXTENDS PlacementBenchmark, Outlines, TLC

MCNumeral ==
  "0" :> 0 @@ "1" :> 1 @@ "2" :> 2 @@ "3" :> 3 @@ "8" :> 8 @@ "-1" :> -1
MCLowerCase == "NIC" :> "nic" @@ "NIC_pinned" :> "nic_pinned"
MCMetadataPair == "a=1" :> <<"a", "1">> @@ "a=2" :> <<"a", "2">> @@ "b=1" :> <<"b", "1">>
MCInstants == {0, 2, 4}

------------------------------------------------------------------------------
(* Short files of any lines *)

Keys == <<"a", "b", "c", "d">>
LinesAt(i) ==
  {Line(indent, "entry", Keys[i], value) : indent \in {0, 2, 4}, value \in {"v", None, BlockMark}}
    \cup {Line(indent, "item", Keys[i], value) : indent \in {0, 2, 4}, value \in {"v", None, BlockMark}}
    \cup {Line(indent, "item", None, "v") : indent \in {0, 2, 4}}
    \cup {Line(0, "entry", "a", "w"), Line(1, "entry", "a", "v"), Line(2, "other", None, None),
          Line(3, "comment", None, None), Line(0, "blank", None, None)}

AnyFile(lines) == [lines |-> lines, node |-> None, workload |-> None, platform |-> None]
FirstLines ==
  {Line(0, "entry", "a", None), Line(0, "entry", "a", BlockMark), Line(0, "entry", "a", "v"),
   Line(0, "item", "a", None), Line(2, "entry", "a", "v"), Line(0, "blank", None, None)}

LastLines ==
  {Line(indent, "entry", "d", "v") : indent \in {0, 2, 4}}
    \cup {Line(indent, "item", "d", "v") : indent \in {0, 2, 4}}
    \cup {Line(3, "comment", None, None)}

ShortFiles ==
  {AnyFile(lines) : lines \in FirstLines \X LinesAt(2) \X LinesAt(3) \X LastLines}

------------------------------------------------------------------------------
(* Parts of a workload, each with its outline and what it is loaded as *)

Part(outline, loads) == [outline |-> outline, loads |-> loads]
Entry(key, node) == [key |-> key, node |-> node]
TextEntry(key, text) == Entry(key, Scalar(text))
ScalarItems(texts) == [kind |-> "sequence", items |-> [i \in DOMAIN texts |-> Scalar(texts[i])]]
ItemsOf(parts) == [kind |-> "sequence", items |-> [i \in DOMAIN parts |-> parts[i].outline]]

AllLoad(parts) == \A i \in DOMAIN parts : parts[i].loads # None
LoadsOf(parts) == [i \in DOMAIN parts |-> parts[i].loads]

DemandPart(resource, units) ==
  Part(Mapping(<<TextEntry("resource", resource), TextEntry("units", units)>>),
       IF resource \in ResourceClass /\ units \in DOMAIN MCNumeral
       THEN [resource |-> resource, units |-> MCNumeral[units]] ELSE None)

TimeEntry(text) == TextEntry("deterministic_service_time", text)
ProfileEntry(domain) ==
  Entry("service_profile", Mapping(<<TextEntry("key", "k"), TextEntry("domain", domain)>>))

StagePart(entries, demands, time, domain, hint, eligible) ==
  Part(Mapping(entries \o <<Entry("demands", ItemsOf(demands))>>),
       IF AllLoad(demands)
       THEN [time |-> time, profile |-> domain,
             key |-> IF domain = Absent THEN Absent ELSE "k",
             demands |-> LoadsOf(demands), hint |-> hint, eligible |-> eligible]
       ELSE None)

FaultyStage(entries, demands) ==
  [StagePart(entries, demands, Absent, Absent, Absent, <<>>) EXCEPT !.loads = None]

\* A stage on both sides, one that asks for the NIC and may only be there, one
\* with a profile, which may only be on the host, and one with a negative demand
BothSides == StagePart(<<TimeEntry("2")>>,
  <<DemandPart("host_cpu", "1"), DemandPart("nic_cpu", "2")>>, 2, Absent, Absent, <<>>)
OnlyNic == StagePart(
  <<TimeEntry("1"), TextEntry("placement_default", "NIC"),
    Entry("placement_eligible", ScalarItems(<<"NIC">>))>>,
  <<DemandPart("host_link", "1")>>, 1, Absent, "nic", <<"nic">>)
Profiled == StagePart(
  <<ProfileEntry("nic"), TextEntry("placement_default", "either"),
    Entry("placement_eligible", ScalarItems(<<"host">>))>>,
  <<DemandPart("nic_dram", "0")>>, Absent, "nic", "either", <<"host">>)
Negative == StagePart(<<TimeEntry("1")>>, <<DemandPart("host_cpu", "-1")>>,
                      1, Absent, Absent, <<>>)

FaultyStages ==
  {FaultyStage(<<>>, <<DemandPart("host_cpu", "1")>>),
   FaultyStage(<<TimeEntry("soon")>>, <<DemandPart("nic_link", "1")>>),
   FaultyStage(<<ProfileEntry("disk")>>, <<DemandPart("nic_link", "1")>>),
   FaultyStage(<<Entry("service_profile", Scalar("k")), TimeEntry("1")>>,
               <<DemandPart("host_dram", "1")>>),
   FaultyStage(<<TimeEntry("1")>>, <<DemandPart("gpu", "1")>>),
   FaultyStage(<<TimeEntry("1"), TextEntry("bytes_in", "many")>>, <<DemandPart("nic_cpu", "1")>>),
   Part(Mapping(<<TimeEntry("1")>>), None)}

IdAndArrival(id, arrival) == <<TextEntry("id", id), TextEntry("arrival_time", arrival)>>

TaskPart(id, arrival, stages) ==
  Part(Mapping(IdAndArrival(id, arrival) \o <<Entry("stages", ItemsOf(stages))>>),
       IF AllLoad(stages)
       THEN [id |-> MCNumeral[id] % 2 ^ IdBits, arrival |-> MCNumeral[arrival],
             stages |-> LoadsOf(stages)]
       ELSE None)

NodePart(name, stage, successors) ==
  Part(Mapping(<<TextEntry("name", name), Entry("stage", stage.outline)>>
                 \o (IF successors = <<>> THEN <<>>
                     ELSE <<Entry("successors", ScalarItems(successors))>>)),
       IF stage.loads = None THEN None
       ELSE [name |-> name, stage |-> stage.loads, successors |-> successors])

\* A DAG whose entry points, if it is valid, are entries
DagPart(id, nodes, given, valid, entries) ==
  LET dag == <<Entry("nodes", ItemsOf(nodes))>>
               \o (IF given = <<>> THEN <<>> ELSE <<Entry("entry", ScalarItems(given))>>)
  IN Part(Mapping(IdAndArrival(id, "1") \o <<Entry("dag", Mapping(dag))>>),
          IF valid /\ AllLoad(nodes)
          THEN [id |-> MCNumeral[id], arrival |-> 1, nodes |-> LoadsOf(nodes),
                entries |-> entries]
          ELSE None)

Pair(x, y) == <<NodePart("x", BothSides, x), NodePart("y", OnlyNic, y)>>

Dags ==
  {DagPart("1", Pair(<<"y">>, <<>>), <<>>, TRUE, <<"x">>),
   DagPart("2", Pair(<<>>, <<"x">>), <<"y">>, TRUE, <<"y">>)}
FaultyDags ==
  {DagPart("1", Pair(<<"y">>, <<"x">>), <<>>, FALSE, <<>>),
   DagPart("1", Pair(<<"y">>, <<>>), <<"z">>, FALSE, <<>>),
   DagPart("1", Pair(<<>>, <<>>), <<"x">>, FALSE, <<>>),
   DagPart("1", Pair(<<"z">>, <<>>), <<>>, FALSE, <<>>),
   DagPart("1", <<NodePart("x", Negative, <<>>)>>, <<>>, FALSE, <<>>)}

Tasks ==
  {TaskPart(id, "0", <<BothSides>>) : id \in {"0", "3", "-1"}}
    \cup {TaskPart("0", "1", <<Profiled, OnlyNic>>), TaskPart("0", "0", <<Negative>>),
          TaskPart("3", "-1", <<Profiled>>)}
FaultyTasks ==
  {TaskPart("0", "0", <<stage>>) : stage \in FaultyStages}
    \cup {Part(Mapping(IdAndArrival("0", "0")), None),
          Part(Mapping(IdAndArrival("0", "0")
                 \o <<Entry("stages", ItemsOf(<<BothSides>>)),
                      Entry("dag", Mapping(<<Entry("nodes", ItemsOf(Pair(<<>>, <<>>)))>>))>>), None),
          Part(Mapping(<<TextEntry("id", "x"), TextEntry("arrival_time", "0"),
                         Entry("stages", ItemsOf(<<OnlyNic>>))>>), None)}

------------------------------------------------------------------------------
(* Files with a workload *)

Headings == <<TextEntry("schema_version", "0.1"), TextEntry("workload_name", "w"),
              TextEntry("description", BlockMark)>>

\* The linear tasks of a workload come before its DAGs, wherever they are written.
IsLinear(part) == "stages" \in {part.outline.entries[i].key : i \in DOMAIN part.outline.entries}
IsGraph(part) == ~IsLinear(part)

WorkloadDocument(headings, parts, step, valid) ==
  LET outline == Mapping(headings \o <<Entry("tasks", ItemsOf(parts))>>) IN
  [lines |-> Written(outline, step),
   node |-> NodeOf(outline),
   platform |-> None,
   workload |-> IF valid /\ AllLoad(parts)
                THEN [tasks |-> LoadsOf(SelectSeq(parts, IsLinear)),
                      dags |-> LoadsOf(SelectSeq(parts, IsGraph))]
                ELSE None]

WorkloadFiles ==
  {WorkloadDocument(Headings, <<part>>, step, TRUE) :
     part \in Tasks \cup FaultyTasks \cup Dags \cup FaultyDags, step \in {2, 4}}
    \cup {WorkloadDocument(Headings, <<first, second>>, 2, TRUE) :
            first \in Dags \cup Tasks, second \in Tasks \cup Dags \cup FaultyDags}
    \cup {WorkloadDocument(SubSeq(Headings, 1, 2), <<part>>, 2, FALSE) : part \in Tasks}

\* A task with stages of both sides, one with a profile, and a DAG
OneTask(part) == WorkloadDocument(Headings, <<part>>, 2, TRUE)
Single == OneTask(TaskPart("0", "0", <<BothSides>>))
SingleTasks ==
  {Single, OneTask(TaskPart("0", "1", <<Profiled, OnlyNic>>)),
   OneTask(DagPart("1", Pair(<<"y">>, <<>>), <<>>, TRUE, <<"x">>))}

------------------------------------------------------------------------------
(* Files with a profile *)

TextEntries(keys, texts) == [i \in DOMAIN keys |-> TextEntry(keys[i], texts[i])]

CpuOutline(cores) ==
  Mapping(TextEntries(
    <<"model", "sockets", "cores_per_socket", "cores_total", "clock_ghz", "base_service_scale">>,
    <<"m", "1", "1", cores, "-1", "1">>))
DramOutline(gb, more) ==
  Mapping(TextEntries(<<"type", "capacity_gb", "bandwidth_gbps", "latency_ns">>,
                      <<"t", gb, "1", "1">>) \o more)
LinkOutline(mtu) ==
  Mapping(TextEntries(
    <<"type", "peak_bandwidth_gbps", "effective_bandwidth_gbps", "latency_us">>,
    <<"t", "1", "1", "1">>) \o <<Entry("mtu_bytes", Mapping(mtu))>>)
QueueOutline == Mapping(TextEntries(<<"cpu_capacity", "dram_capacity_gb">>, <<"1", "1">>))
BytesOutline(bytes) == Mapping(<<TextEntry("max_inflight_bytes", bytes)>>)
MeansOutline(host, nic) ==
  Mapping(TextEntries(<<"host_mean_us", "nic_mean_us">>, <<host, nic>>))

\* The numbers of a profile: cores, gigabytes and bytes of the host, those of the
\* NIC, and the two means of the key "k"
Numbers(host, nic, means) == [host |-> host, nic |-> nic, means |-> means]

ProfileSections(numbers, mtu) ==
  <<Entry("host", Mapping(<<Entry("cpu", CpuOutline(numbers.host[1])),
                            Entry("dram", DramOutline(numbers.host[2], <<>>))>>)),
    Entry("nic", Mapping(<<Entry("cpu", CpuOutline(numbers.nic[1])),
                           Entry("dram", DramOutline(numbers.nic[2],
                             <<TextEntry("contention_variance_pct", "1")>>))>>)),
    Entry("links", Mapping(<<Entry("host_nic", LinkOutline(mtu)),
                             Entry("nic_network", LinkOutline(mtu))>>)),
    Entry("queues", Mapping(<<Entry("host", QueueOutline), Entry("nic", QueueOutline),
                              Entry("host_nic_link", BytesOutline(numbers.host[3])),
                              Entry("nic_network_link", BytesOutline(numbers.nic[3]))>>)),
    Entry("service_time_overrides",
          Mapping(<<Entry("k", MeansOutline(numbers.means[1], numbers.means[2]))>>))>>

Mtu == TextEntries(<<"default", "jumbo">>, <<"1", "2">>)
ProfileHeadings ==
  TextEntries(<<"schema_version", "profile_name", "description", "last_verified">>,
              <<"0.1", "p", BlockMark, "today">>)
References(entries) == Entry("references", [kind |-> "sequence", items |-> <<Mapping(entries)>>])
Cited == References(TextEntries(<<"title", "year">>, <<"t", "1">>))
Notes == Entry("notes", ScalarItems(<<"n">>))

OrElse(text, fallback) == IF text = "0" THEN fallback ELSE MCNumeral[text]

ProfileDocument(entries, step, platform) ==
  [lines |-> Written(Mapping(entries), step), node |-> NodeOf(Mapping(entries)),
   workload |-> None, platform |-> platform]

WholeProfile(numbers, last) ==
  ProfileDocument(ProfileHeadings \o <<Cited>> \o ProfileSections(numbers, Mtu) \o last, 2,
    [inventory |->
       [host_cpu |-> OrElse(numbers.host[1], 1), host_dram |-> OrElse(numbers.host[2], 1),
        host_link |-> OrElse(numbers.host[3], LinkFallback),
        nic_cpu |-> OrElse(numbers.nic[1], 1), nic_dram |-> OrElse(numbers.nic[2], 1),
        nic_link |-> OrElse(numbers.nic[3], LinkFallback)],
     means |-> "k" :> [host |-> MCNumeral[numbers.means[1]], nic |-> MCNumeral[numbers.means[2]]]])

\* Room for every stage, for a stage that is moved to one side, and for no stage
\* but the smallest; a mean of no use
Roomy == Numbers(<<"3", "2", "8">>, <<"3", "2", "2">>, <<"1", "2">>)
Narrow == Numbers(<<"2", "1", "1">>, <<"2", "3", "0">>, <<"1", "2">>)
Zeros == Numbers(<<"0", "0", "0">>, <<"0", "0", "8">>, <<"0", "-1">>)

Profiles == {WholeProfile(numbers, last) : numbers \in {Roomy, Narrow, Zeros},
                                           last \in {<<>>, <<Notes>>}}

\* Every part left out, values of the wrong kind or outside their type, an entry
\* without a title, and blocks that are indented by four
FaultyProfiles ==
  LET whole == ProfileHeadings \o <<Cited>> \o ProfileSections(Roomy, Mtu)
      With(i, entry) == ProfileDocument([whole EXCEPT ![i] = entry], 2, None)
      SectionsOf(numbers, mtu) ==
        ProfileDocument(ProfileHeadings \o <<Cited>> \o ProfileSections(numbers, mtu), 2, None)
  IN {ProfileDocument(RemoveAt(whole, i), 2, None) : i \in DOMAIN whole}
     \cup {With(i, TextEntry(whole[i].key, "v")) : i \in 5..Len(whole)}
     \cup {SectionsOf([Roomy EXCEPT !.host[i] = text], Mtu) : i \in 1..3, text \in {"-1", "many"}}
     \cup {SectionsOf([Roomy EXCEPT !.nic[i] = "8"], Mtu) : i \in 1..2}
     \cup {SectionsOf([Roomy EXCEPT !.means[2] = "many"], Mtu),
           SectionsOf(Roomy, <<TextEntry("jumbo", "2")>>),
           SectionsOf(Roomy, TextEntries(<<"default", "jumbo">>, <<"1", "8">>)),
           With(5, References(<<TextEntry("url", "u")>>)),
           With(5, References(TextEntries(<<"title", "year">>, <<"t", "soon">>))),
           ProfileDocument(Append(whole, TextEntry("notes", "n")), 2, None),
           ProfileDocument(whole, 4, None)}

------------------------------------------------------------------------------
(* Arrivals and arguments *)

Window(duration, rate) == [duration |-> duration, rate |-> rate]
Bursty == [model |-> "poisson_bursty", periods |-> <<>>,
           windows |-> <<Window(4, 1), Window(2, 0), Window(4, 2)>>]
Periodic == [model |-> "periodic", windows |-> <<>>, periods |-> <<2, 4>>]
Trace == [model |-> "trace", windows |-> <<>>, periods |-> <<>>]

Argument(flag, value) == [flag |-> flag, value |-> value]
Plain == <<Argument("--profile", "p"), Argument("--workload", "w"), Argument("--arrival", "t")>>
Setting(mode, scale) ==
  Plain \o <<Argument("--placement-mode", mode), Argument("--arrival-scale", scale)>>
WithCsv(more) == Plain \o <<Argument("--csv", "c")>> \o more

Settings == {Setting(mode, "1") : mode \in Mode} \cup {Setting("NIC_pinned", "2")}

\* Runs that write a line: without metadata, with it, and with other keys
MCCommands ==
  {WithCsv(<<>>), WithCsv(<<Argument("--metadata", "a=1"), Argument("--metadata", "b=1")>>),
   WithCsv(<<Argument("--metadata", "b=1"), Argument("--placement-mode", "nic_pinned"),
             Argument("--metadata", "a=2")>>),
   WithCsv(<<Argument("--workload", "missing")>>)}

FaultyCommands ==
  {SubSeq(Plain, 1, 2), Append(Plain, Argument("--csv", None)),
   Append(Plain, Argument("--verbose", "1")), Setting("gpu", "1"), Setting("nic_pinned", "0"),
   Setting("nic_pinned", "fast"), Append(Plain, Argument("--metadata", "a")),
   Append(Plain, Argument("--seed", "x")), Append(Plain, Argument("--profile", ""))}

Files(profileFile, workloadFile, fixture) ==
  "p" :> profileFile @@ "w" :> workloadFile @@ "t" :> fixture

Input(command, files) == [command |-> command, files |-> files]

\* Every workload in every mode, every line, every profile with tasks of every kind,
\* and the runs that append to a file
MCInputs ==
  LET roomy == WholeProfile(Roomy, <<>>) IN
     {Input(command, Files(roomy, file, fixture)) :
        command \in Settings, file \in WorkloadFiles, fixture \in {Bursty, Periodic}}
     \cup {Input(Plain, Files(roomy, file, Periodic)) : file \in ShortFiles}
     \cup {Input(command, Files(file, task, Periodic)) :
             command \in {Plain, Setting("host_pinned", "1"), Setting("nic_pinned", "1")},
             file \in Profiles \cup FaultyProfiles, task \in SingleTasks}
     \cup {Input(command, Files(roomy, Single, fixture)) :
             command \in MCCommands \cup FaultyCommands, fixture \in {Periodic, Trace}}

\* What is written from a node means it.
ASSUME OutlinesAssumption ==
  \A d \in WorkloadFiles \cup SingleTasks \cup Profiles \cup FaultyProfiles : IsFaithful(d)
===============================================================================
