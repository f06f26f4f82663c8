---------------------------- MODULE PolicyProgram ----------------------------
(***************************************************************************)
(* Program::evaluate (sim/src/policy_dsl.cc): one call of the hook of a    *)
(* DSL program, a loop over its rules.  A rule that applies fills the      *)
(* field of the decision its action is about, unless an earlier rule did.  *)
(***************************************************************************)
EXTENDS Policies

CONSTANTS
  Programs,  \* the programs, sequences of rules
  Snapshots  \* the snapshots a call may get

IsProgram(program) ==
  /\ program \in Seq(Range(program))
  /\ \A i \in DOMAIN program : IsRule(program[i])

\* The queue lists each task once, as WaitingConsistent of Scheduler has it.
IsSnapshot(s) ==
  /\ s.order \in Seq(Int) /\ IsInjective(s.order)
  /\ \A x \in Range(s.order) : s.score[x] \in Int

ASSUME PolicyProgramAssumption ==
  /\ \A program \in Programs : IsProgram(program)
  /\ \A s \in Snapshots : IsSnapshot(s)
  /\ Keep \notin Nat

VARIABLES
  rules,     \* rules_
  snapshot,  \* the argument of the call
  next,      \* the rule the loop is at
  order,     \* decision.waiting_order, or <<>>
  admission  \* the limit of decision.admission, or Keep

vars == <<rules, snapshot, next, order, admission>>

Init ==
  /\ rules \in Programs
  /\ snapshot \in Snapshots
  /\ next = 1
  /\ order = <<>>
  /\ admission = Keep

Rule == rules[next]
Continue == next' = next + 1 /\ UNCHANGED <<rules, snapshot>>

Skip ==
  /\ next <= Len(rules)
  /\ ~Applies(Rule, snapshot)
  /\ Continue
  /\ UNCHANGED <<order, admission>>

\* Mutant: a later rule overwrites the order of an earlier one.
KeepsFirst_last(old, none, new) == new

\* An empty field takes the new directive.
KeepsFirst(old, none, new) == IF old = none THEN new ELSE old

\* kReorder; an empty order is no directive.
Reorder ==
  /\ next <= Len(rules)
  /\ Applies(Rule, snapshot)
  /\ Rule.action.type = "reorder"
  /\ order' = KeepsFirst(order, <<>>, ReorderWaiting(Rule, snapshot))
  /\ Continue
  /\ UNCHANGED admission

\* kAdmission
Admission ==
  /\ next <= Len(rules)
  /\ Applies(Rule, snapshot)
  /\ Rule.action.type = "admission"
  /\ admission' = KeepsFirst(admission, Keep, Rule.action.limit)
  /\ Continue
  /\ UNCHANGED order

Next == Skip \/ Reorder \/ Admission

Spec == Init /\ [][Next]_vars

------------------------------------------------------------------------------
(* Properties *)

Returned == next > Len(rules)

\* README.md:142: the first rule that produces a waiting-order directive wins
\* that field, the first that produces an admission directive wins that one,
\* and later rules are fallbacks for what is still unset.
FirstRuleWins == Returned => Decision(order, admission) = Decide(rules, snapshot)

\* What the fields hold while the loop is at a rule: what the first of the rules
\* before it decides that has a directive for the field, if there is one.
FirstSoFar ==
  /\ next \in 1..(Len(rules) + 1)
  /\ IF order = <<>> THEN \A i \in 1..(next - 1) : ~Orders(rules[i], snapshot)
     ELSE \E i \in 1..(next - 1) :
            /\ Orders(rules[i], snapshot)
            /\ \A j \in 1..(i - 1) : ~Orders(rules[j], snapshot)
            /\ order = ReorderWaiting(rules[i], snapshot)
  /\ IF admission = Keep THEN \A i \in 1..(next - 1) : ~Limits(rules[i], snapshot)
     ELSE \E i \in 1..(next - 1) :
            /\ Limits(rules[i], snapshot)
            /\ \A j \in 1..(i - 1) : ~Limits(rules[j], snapshot)
            /\ admission = rules[i].action.limit

\* README.md:142: only waiting tasks that satisfy a rule's stage predicate are
\* reordered, while other tasks keep their place; so an order is a permutation of
\* the waiting queue, and in a program whose rules all name the same stage every
\* other task stays where it was.  The code computes the positions of a rule's
\* tasks and their sorted ids apart from each other.
ReordersOnlyMatching ==
  order # <<>> =>
    /\ DOMAIN order = DOMAIN snapshot.order
    /\ Range(order) = Range(snapshot.order)
    /\ \A i \in DOMAIN snapshot.order :
         (\A j \in DOMAIN rules : rules[j].action.type = "reorder" =>
            ~MatchesTask(rules[j].task, snapshot.stage[snapshot.order[i]]))
         => order[i] = snapshot.order[i]
==============================================================================
