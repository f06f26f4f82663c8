------------------------------ MODULE TuiSession ------------------------------
(***************************************************************************)
(* The terminal interface, tools/tui/main.cc: AppState with the selection  *)
(* in its menus, SimulationSession and the loop of main.  An iteration of  *)
(* the loop handles at most one key, then steps the simulation if it runs  *)
(* by itself and the interval since its last step is over.                 *)
(*                                                                         *)
(* A session is a record of what it was made from, its seed, the events    *)
(* that are left, and whether it is finished; how many events a run has is *)
(* any number that its workload allows, the simulation itself is the       *)
(* subject of DagRun, and no step of it throws here.  Messages, the event  *)
(* log and the drawing are left out, and so are lists that are empty: the  *)
(* presets never are, and without profiles there is a built-in one, like a *)
(* profile that loads.                                                     *)
(***************************************************************************)
EXTENDS Integers, Sequences, FiniteSets

CONSTANTS
  ProfileLoads,  \* for each profile whether its file loads
  PolicyLoads,   \* for each policy whether it loads
  Workloads,     \* for each workload [tag, label, events, loads, completes]
  Labels,        \* the number of arrival labels
  Domains,       \* the domains with a service mode, "host" and "nic"
  NoSession,     \* no session
  MaxSeed,       \* bound: the highest seed a session is given
  MaxFiles       \* bound: the number of reports that are saved

ASSUME TuiAssumption ==
  /\ ProfileLoads \in Seq(BOOLEAN) \ {<<>>}
  /\ PolicyLoads \in Seq(BOOLEAN) \ {<<>>}
  /\ Workloads # <<>>
  /\ \A w \in DOMAIN Workloads :
       /\ Workloads[w].label \in 1..Labels
       /\ Workloads[w].events \subseteq Nat /\ Workloads[w].events # {}
       /\ Workloads[w].loads \in BOOLEAN /\ Workloads[w].completes \in BOOLEAN
  /\ {Labels, MaxSeed, MaxFiles} \subseteq Nat

VARIABLES
  menu,      \* profile_index, workload_index, policy_index, arrival_label_index
  modes,     \* of each domain whether it is stochastic
  session,   \* the session, or NoSession
  autoRun,   \* auto_run
  nextSeed,  \* next_seed
  focus,     \* the menu that the arrows move in
  files,     \* the saved reports: a function from names
  turn,      \* "start"; "key", then "auto" unless the key restarted the interval
  running,   \* the loop goes on
  moved      \* history: a menu moved, or a load failed, since the session was made

tuiVars == <<menu, modes, session, autoRun, nextSeed, focus, files, turn, running, moved>>

------------------------------------------------------------------------------
(* Sessions *)

NewSession(selection, mode, seed, events) ==
  [selection |-> selection, modes |-> mode, seed |-> seed, left |-> events,
   finished |-> FALSE]

\* The arrival label that load_selection infers, unless it keeps the seed
Selected(selection, preserve) ==
  IF preserve THEN selection
  ELSE [selection EXCEPT !.label = Workloads[selection.workload].label]

\* Mutant: a policy that does not load leaves the old session in place.
LoadSelection_keepsSession(selection, mode, preserve) ==
  LET chosen == Selected(selection, preserve)
      seed == IF preserve /\ session # NoSession THEN session.seed ELSE nextSeed
      workload == Workloads[selection.workload]
  IN /\ seed <= MaxSeed
     /\ modes' = mode
     /\ \/ /\ ~(ProfileLoads[selection.profile] /\ PolicyLoads[selection.policy])
           /\ menu' = selection
           /\ UNCHANGED <<session, autoRun, nextSeed, moved>>
        \/ /\ ProfileLoads[selection.profile] /\ PolicyLoads[selection.policy]
           /\ workload.loads
           /\ menu' = chosen
           /\ \E n \in workload.events : session' = NewSession(chosen, mode, seed, n)
           /\ autoRun' = FALSE
           /\ nextSeed' = IF preserve THEN nextSeed ELSE nextSeed + 1
           /\ moved' = FALSE

\* load_selection with the menus and modes as the key has left them.  A profile
\* that does not load keeps the session; a policy that does not load, or a
\* workload that the constructor of the session throws on, removes it.
LoadSelection(selection, mode, preserve) ==
  LET chosen == Selected(selection, preserve)
      seed == IF preserve /\ session # NoSession THEN session.seed ELSE nextSeed
      workload == Workloads[selection.workload]
  IN /\ seed <= MaxSeed
     /\ modes' = mode
     /\ \/ /\ ~ProfileLoads[selection.profile]
           /\ menu' = selection
           /\ moved' = TRUE
           /\ UNCHANGED <<session, autoRun, nextSeed>>
        \/ /\ ProfileLoads[selection.profile]
           /\ ~(PolicyLoads[selection.policy] /\ workload.loads)
           /\ menu' = chosen
           /\ session' = NoSession
           /\ UNCHANGED <<autoRun, nextSeed, moved>>
        \/ /\ ProfileLoads[selection.profile]
           /\ PolicyLoads[selection.policy] /\ workload.loads
           /\ menu' = chosen
           /\ \E n \in workload.events : session' = NewSession(chosen, mode, seed, n)
           /\ autoRun' = FALSE
           /\ nextSeed' = IF preserve THEN nextSeed ELSE nextSeed + 1
           /\ moved' = FALSE

\* Mutant: the end of the run is not passed on, and auto_run stays set.
StepOnce_runsOn ==
  IF session = NoSession THEN UNCHANGED <<session, autoRun>>
  ELSE /\ session' = IF session.left = 0 THEN [session EXCEPT !.finished = TRUE]
                     ELSE [session EXCEPT !.left = @ - 1]
       /\ UNCHANGED autoRun

\* step_once, with step: the end is noticed by a step that finds no event.
StepOnce ==
  IF session = NoSession THEN UNCHANGED <<session, autoRun>>
  ELSE IF session.left = 0
  THEN session' = [session EXCEPT !.finished = TRUE] /\ autoRun' = FALSE
  ELSE session' = [session EXCEPT !.left = @ - 1] /\ UNCHANGED autoRun

\* The loop is at the keys; after is where it goes on.
AtKeys(after) ==
  /\ running /\ turn = "key"
  /\ turn' = after

TuiInit ==
  /\ menu = [profile |-> 1, workload |-> 1, policy |-> 1, label |-> 1]
  /\ modes = [d \in Domains |-> FALSE]
  /\ session = NoSession
  /\ autoRun = FALSE
  /\ nextSeed = 1
  /\ focus = "profile"
  /\ files = [f \in {} |-> NoSession]
  /\ turn = "start"
  /\ running = TRUE
  /\ moved = FALSE

\* main loads the first profile and workload before the loop.
FirstLoad ==
  /\ turn = "start" /\ turn' = "key"
  /\ LoadSelection(menu, modes, FALSE)
  /\ UNCHANGED <<focus, files, running>>

------------------------------------------------------------------------------
(* The keys *)

Count == [profile |-> Len(ProfileLoads), workload |-> Len(Workloads)]

\* KEY_UP and KEY_DOWN
Move(by) ==
  /\ AtKeys("auto")
  /\ menu[focus] + by \in 1..Count[focus]
  /\ menu' = [menu EXCEPT ![focus] = @ + by]
  /\ moved' = TRUE
  /\ UNCHANGED <<modes, session, autoRun, nextSeed, focus, files, running>>

\* KEY_LEFT, KEY_RIGHT and Tab
SwitchMenu ==
  /\ AtKeys("auto")
  /\ focus' = IF focus = "profile" THEN "workload" ELSE "profile"
  /\ UNCHANGED <<menu, modes, session, autoRun, nextSeed, files, running, moved>>

Enter ==
  /\ AtKeys("auto")
  /\ LoadSelection(menu, modes, FALSE)
  /\ UNCHANGED <<focus, files, running>>

\* Space
Pause ==
  /\ AtKeys("auto")
  /\ session # NoSession
  /\ autoRun' = ~autoRun
  /\ UNCHANGED <<menu, modes, session, nextSeed, focus, files, running, moved>>

\* n, which restarts the interval
StepKey ==
  /\ AtKeys("key")
  /\ StepOnce
  /\ UNCHANGED <<menu, modes, nextSeed, focus, files, running, moved>>

\* H and N
ToggleMode(domain) ==
  /\ AtKeys("auto")
  /\ LET mode == [modes EXCEPT ![domain] = ~@] IN
     \/ /\ session # NoSession
        /\ LoadSelection(menu, mode, TRUE)
     \/ /\ session = NoSession
        /\ modes' = mode
        /\ UNCHANGED <<menu, session, autoRun, nextSeed, moved>>
  /\ UNCHANGED <<focus, files, running>>

\* m
CycleLabel ==
  /\ AtKeys("auto")
  /\ LoadSelection([menu EXCEPT !.label = (@ % Labels) + 1], modes, TRUE)
  /\ UNCHANGED <<focus, files, running>>

\* p
CyclePolicy ==
  /\ AtKeys("auto")
  /\ LoadSelection([menu EXCEPT !.policy = (@ % Len(PolicyLoads)) + 1], modes, TRUE)
  /\ UNCHANGED <<focus, files, running>>

\* r: the session is reset with the next seed, and the interval restarted.
Reset ==
  /\ AtKeys("key")
  /\ session # NoSession /\ nextSeed <= MaxSeed
  /\ \E n \in Workloads[session.selection.workload].events :
       session' = NewSession(session.selection, session.modes, nextSeed, n)
  /\ nextSeed' = nextSeed + 1
  /\ autoRun' = FALSE
  /\ UNCHANGED <<menu, modes, focus, files, running, moved>>

ReportName(suffix) == <<session.seed, Workloads[menu.workload].tag, suffix>>

\* Mutant: the name has no suffix.
MetricsPath_noSuffix == ReportName(0)

\* make_metrics_path: the first suffix that is free, none being 0
MetricsPath ==
  ReportName(CHOOSE k \in 0..MaxFiles :
    /\ ReportName(k) \notin DOMAIN files
    /\ \A j \in 0..k - 1 : ReportName(j) \in DOMAIN files)

\* What a report says of its run
Report == [workload |-> menu.workload, modes |-> modes, seed |-> session.seed]

\* s; the file may not open.
Save ==
  /\ AtKeys("auto")
  /\ session # NoSession /\ Cardinality(DOMAIN files) < MaxFiles
  /\ session.finished
  /\ Workloads[session.selection.workload].completes
  /\ \/ files' = [f \in DOMAIN files \cup {MetricsPath} |->
                    IF f = MetricsPath THEN Report ELSE files[f]]
     \/ UNCHANGED files
  /\ UNCHANGED <<menu, modes, session, autoRun, nextSeed, focus, running, moved>>

\* q
Quit ==
  /\ AtKeys("auto")
  /\ running' = FALSE
  /\ UNCHANGED <<menu, modes, session, autoRun, nextSeed, focus, files, moved>>

\* getch times out, or the key does nothing.
NoKey ==
  /\ AtKeys("auto")
  /\ UNCHANGED <<menu, modes, session, autoRun, nextSeed, focus, files, running, moved>>

------------------------------------------------------------------------------
(* The end of an iteration *)

\* The interval is over.
AutoStep ==
  /\ turn = "auto" /\ turn' = "key"
  /\ autoRun /\ session # NoSession
  /\ StepOnce
  /\ UNCHANGED <<menu, modes, nextSeed, focus, files, running, moved>>

\* It is not, or the simulation does not run by itself.
NoStep ==
  /\ turn = "auto" /\ turn' = "key"
  /\ UNCHANGED <<menu, modes, session, autoRun, nextSeed, focus, files, running, moved>>

Key ==
  \/ \E by \in {-1, 1} : Move(by)
  \/ SwitchMenu
  \/ Enter
  \/ Pause
  \/ StepKey
  \/ \E domain \in Domains : ToggleMode(domain)
  \/ CycleLabel
  \/ CyclePolicy
  \/ Reset
  \/ Save
  \/ Quit
  \/ NoKey

TuiNext == FirstLoad \/ Key \/ AutoStep \/ NoStep

TuiSpec == TuiInit /\ [][TuiNext]_tuiVars

\* The loop goes on because getch waits for 50 ms at most.  While no key restarts
\* the interval of 150 ms, one of a few iterations finds it over.
Fairness == WF_tuiVars(TuiNext) /\ SF_tuiVars(AutoStep)
FairTuiSpec == TuiSpec /\ Fairness

------------------------------------------------------------------------------
(* Properties *)

\* The session is that of the selected profile, workload, policy, label and
\* modes, so that the panel and a saved report describe the run they belong to:
\* it can differ only after the selection was moved without loading, or a profile
\* failed to load.
SettingsApplied ==
  session # NoSession /\ ~moved => session.selection = menu /\ session.modes = modes

\* A saved report is never overwritten, by a later run with the same seed and
\* workload neither.
ReportsKept ==
  [][\A f \in DOMAIN files : f \in DOMAIN files' /\ files'[f] = files[f]]_tuiVars

\* A simulation that runs by itself comes to its end and stops, whatever keys are
\* pressed, unless its session is removed or the program ends.
AutoRunEnds ==
  autoRun /\ session # NoSession ~> ~autoRun \/ session = NoSession \/ ~running
===============================================================================
