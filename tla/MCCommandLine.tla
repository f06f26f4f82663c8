---------------------------- MODULE MCCommandLine ----------------------------
(***************************************************************************)
(* Instances of CommandLine for TLC.                                       *)
(***************************************************************************)
EXTENDS CommandLine

At(indented, key, value) == [indented |-> indented, key |-> key, value |-> value]

\* Lines of each kind: headers that stand at the margin or in a section, a
\* mode, a label that looks like a field, fields with good and bad values, a key
\* nobody knows and a line without a colon
Lines ==
  {At(FALSE, "service_modes", Empty), At(TRUE, "service_modes", Empty),
   At(FALSE, "metadata", Empty), At(TRUE, "host", 2), At(FALSE, "host", 2),
   At(TRUE, "host", Bad), At(TRUE, "policy", 1), At(FALSE, "policy", 2),
   At(FALSE, "policy", Bad), At(FALSE, "rolling_queue", 2),
   At(FALSE, "rolling_queue", Bad), At(TRUE, Empty, 1),
   At(FALSE, "unknown", 1), At(TRUE, None, None)}

Names == <<At(FALSE, "profile", 1), At(FALSE, "workload", 1)>>

\* Lines that may follow a header and one other line
Enders ==
  {At(TRUE, "host", 1), At(FALSE, "host", 1), At(TRUE, "policy", 2),
   At(FALSE, "policy", 1), At(TRUE, "service_modes", Empty)}

MCManifests ==
  {None, <<>>, SubSeq(Names, 1, 1), SubSeq(Names, 2, 2), Names} \cup
  {Names \o <<x>> : x \in Lines} \cup
  {Names \o <<x, y>> : x, y \in Lines} \cup
  {Names \o <<At(FALSE, header, Empty), y, z>> :
     header \in {"service_modes", "metadata"}, y \in Lines, z \in Enders}
==============================================================================
