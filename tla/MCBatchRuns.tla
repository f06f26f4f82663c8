----------------------------- MODULE MCBatchRuns -----------------------------
(***************************************************************************)
(* Instances of BatchRuns for TLC.                                         *)
(***************************************************************************)
EXTENDS BatchRuns, TLC

NoMetadata == [k \in {} |-> None]

\* The settings that are given; the rest is left out.
Given(fields, metadata) ==
  [fields |-> fields @@ [f \in Fields |-> None], metadata |-> metadata]
Run(name, fields, metadata) ==
  Given(fields, metadata) @@ [name |-> name]
Manifest(hasCsv, keys, defaults, runs) ==
  [csv |-> hasCsv, keys |-> keys, defaults |-> defaults, runs |-> runs]

Nothing == [f \in {} |-> None]
Documents == "profile" :> "p" @@ "workload" :> "w"
Label(value) == "load" :> value

\* Three runs with reports of their own, the second with metadata of its own
Sweep ==
  Manifest(TRUE, {"zipf"},
    Given(Documents @@ "output_dir" :> "out", Label("low")),
    <<Run(None, Nothing, NoMetadata),
      Run(7, "policy" :> "dsl" @@ "policy_config" :> "rules", Label("high") @@ "note" :> "n"),
      Run(None, "output_dir" :> "other", NoMetadata)>>)

\* The sweep again, with other columns
Wider ==
  Manifest(TRUE, {}, Given(Documents, "burst" :> "yes"),
    <<Run(None, "output" :> <<"out", 0>>, Label("low")), Run(None, Nothing, NoMetadata)>>)

\* Three runs that write one report: by defaults.output, and by their names
Shared ==
  Manifest(FALSE, {}, Given(Documents @@ "output" :> <<"out", 9>>, NoMetadata),
    <<Run(None, Nothing, NoMetadata), Run(None, Nothing, NoMetadata)>>)
SameName ==
  Manifest(TRUE, {}, Given(Documents, NoMetadata),
    <<Run(None, Nothing, NoMetadata), Run(0, Nothing, NoMetadata),
      Run(None, Nothing, NoMetadata)>>)

\* A policy that lacks its rules, and a workload that does not load
Faulty ==
  Manifest(TRUE, {}, Given(Documents, NoMetadata),
    <<Run(None, Nothing, Label("low")), Run(None, "policy" :> "dsl", NoMetadata),
      Run(None, "workload" :> Missing, NoMetadata)>>)

\* Manifests that the parser refuses
Refused ==
  {Manifest(TRUE, {}, Given(Documents, NoMetadata), <<>>),
   Manifest(TRUE, {}, Given("profile" :> "p", NoMetadata), <<Run(None, Nothing, NoMetadata)>>),
   Manifest(TRUE, {}, Given(Documents @@ "policy" :> Bad, NoMetadata),
            <<Run(None, Nothing, NoMetadata)>>)}

MCManifests == {Sweep, Wider, Shared, SameName, Faulty} \cup Refused
==============================================================================
