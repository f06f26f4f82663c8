---------------------------- MODULE MCTuiSession ----------------------------
(***************************************************************************)
(* Instances of TuiSession for TLC.                                        *)
(***************************************************************************)
EXTENDS TuiSession

\* The second profile and the second policy do not load.
MCProfiles == <<TRUE, FALSE>>
MCPolicies == <<TRUE, FALSE>>

Workload(tag, label, events, loads, completes) ==
  [tag |-> tag, label |-> label, events |-> events, loads |-> loads,
   completes |-> completes]

\* The second workload has a file name like the first's, no session can be made
\* from it.
MCWorkloads ==
  <<Workload("host", 2, {1}, TRUE, TRUE), Workload("host", 1, {0}, FALSE, FALSE)>>
==============================================================================
