------------------------------- MODULE Policies -------------------------------
(***************************************************************************)
(* The policies the simulator ships: the built-in hooks of                 *)
(* basic_policy_hooks.hh and the programs of the policy DSL.  Each maps a  *)
(* snapshot of the scheduler to a decision [order, admission].             *)
(*                                                                         *)
(* Of a snapshot a policy uses                                             *)
(*   order    the waiting tasks, as they are queued,                       *)
(*   score    of each task, its pending host less its pending NIC demand,  *)
(*   stage    of each task, the [label, index] of its stage,               *)
(*   average  of each metric, a fraction [num, den] with den > 0.          *)
(* Task ids are numbers.                                                   *)
(***************************************************************************)
EXTENDS Integers, Sequences, FiniteSets, Functions

CONSTANTS
  Keep,   \* a decision without an admission directive
  Always, \* a rule without a condition
  Absent  \* a stage label or index that is not given

Metrics == {"queue_avg", "host_util_avg", "nic_util_avg", "sojourn_mean_us"}
Comparisons == {">", ">=", "<", "<="}

Decision(order, admission) == [order |-> order, admission |-> admission]

\* compare, of a fraction and a fraction
Compare(x, op, y) ==
  LET l == x.num * y.den
      r == y.num * x.den
  IN CASE op = ">" -> l > r
       [] op = ">=" -> l >= r
       [] op = "<" -> l < r
       [] op = "<=" -> l <= r

------------------------------------------------------------------------------
(* Sorting *)

\* The order both sorts by demand compare with
Ranked(x, y, score, preferHost) ==
  \/ IF preferHost THEN score[x] > score[y] ELSE score[x] < score[y]
  \/ score[x] = score[y] /\ x < y

SortedByDemand(ids, score, preferHost) ==
  [i \in 1..Cardinality(ids) |->
     CHOOSE x \in ids :
       Cardinality({y \in ids : Ranked(y, x, score, preferHost)}) = i - 1]

\* reorder_waiting_by_demand
ByDemand(s, preferHost) == SortedByDemand(Range(s.order), s.score, preferHost)

Descending(ids) ==
  [i \in 1..Cardinality(ids) |->
     CHOOSE x \in ids : Cardinality({y \in ids : y > x}) = i - 1]

------------------------------------------------------------------------------
(* The built-in policies *)

\* RollingAdaptivePolicy, with the thresholds of make_policy_hook: 0.5 tasks
\* that wait, 0.15 of utilization.
FavorsNic(s) ==
  LET host == s.average["host_util_avg"]
      nic == s.average["nic_util_avg"]
  IN \/ Compare(s.average["queue_avg"], ">=", [num |-> 1, den |-> 2])
     \/ (host.num * nic.den - nic.num * host.den) * 100 >= 15 * host.den * nic.den

FavorsHost(s) ==
  LET host == s.average["host_util_avg"]
      nic == s.average["nic_util_avg"]
  IN /\ ~FavorsNic(s)
     /\ (nic.num * host.den - host.num * nic.den) * 100 >= 15 * host.den * nic.den

Adaptive(s) ==
  IF FavorsNic(s) \/ FavorsHost(s) THEN ByDemand(s, FavorsHost(s)) ELSE <<>>

BuiltIns == {"none", "descending-id", "limit-active-1", "prefer-host",
             "prefer-nic", "prefer-adaptive"}

\* make_policy_hook and the hook it makes
BuiltIn(id, s) ==
  CASE id = "none" -> Decision(<<>>, Keep)
    [] id = "descending-id" -> Decision(Descending(Range(s.order)), Keep)
    [] id = "limit-active-1" -> Decision(<<>>, 1)
    [] id = "prefer-host" -> Decision(ByDemand(s, TRUE), Keep)
    [] id = "prefer-nic" -> Decision(ByDemand(s, FALSE), Keep)
    [] id = "prefer-adaptive" -> Decision(Adaptive(s), Keep)

------------------------------------------------------------------------------
(* The DSL *)

\* A rule as parse_rules leaves it: when is a condition or Always; metadata says
\* whether its match.metadata, if any, agrees with the metadata of the scenario,
\* which does not change in a run; task is the predicate of match.stage and
\* match.stage_index; the action reorders or sets a limit above 0.
Conditions == [metric : Metrics, op : Comparisons, value : [num : Int, den : Nat \ {0}]]
Actions == [type : {"reorder"}, preferHost : BOOLEAN] \cup
           [type : {"admission"}, limit : Nat \ {0}]
IsRule(rule) ==
  /\ DOMAIN rule = {"when", "metadata", "task", "action"}
  /\ rule.when = Always \/ rule.when \in Conditions
  /\ rule.metadata \in BOOLEAN
  /\ DOMAIN rule.task = {"label", "index"}
  /\ rule.action \in Actions

\* TaskPredicate::matches
MatchesTask(predicate, stage) ==
  /\ predicate.label # Absent => stage.label = predicate.label
  /\ predicate.index # Absent => stage.index = predicate.index

HasPredicate(rule) == rule.task.label # Absent \/ rule.task.index # Absent

\* matches_waiting_tasks
MatchesWaiting(rule, s) ==
  HasPredicate(rule) =>
    \E i \in DOMAIN s.order : MatchesTask(rule.task, s.stage[s.order[i]])

\* Condition::evaluate
Holds(condition, s) ==
  condition # Always =>
    Compare(s.average[condition.metric], condition.op, condition.value)

\* The checks that evaluate makes before a rule's action
Applies(rule, s) ==
  /\ Holds(rule.when, s)
  /\ rule.metadata
  /\ MatchesWaiting(rule, s)

\* The positions of the waiting tasks that match
Positions(rule, s) ==
  {i \in DOMAIN s.order : MatchesTask(rule.task, s.stage[s.order[i]])}

\* The tasks that match, sorted
Filtered(rule, s) ==
  SortedByDemand({s.order[i] : i \in Positions(rule, s)}, s.score,
                 rule.action.preferHost)

\* Mutant: the matching tasks come first instead of keeping their positions.
ReorderWaiting_matchingFirst(rule, s) ==
  IF Positions(rule, s) = {} THEN <<>>
  ELSE Filtered(rule, s) \o
         SelectSeq(s.order, LAMBDA t : ~MatchesTask(rule.task, s.stage[t]))

\* reorder_waiting: the tasks that match are sorted among their positions.
ReorderWaiting(rule, s) ==
  IF Positions(rule, s) = {} THEN <<>>
  ELSE [i \in DOMAIN s.order |->
          IF i \in Positions(rule, s)
          THEN Filtered(rule, s)[Cardinality({j \in Positions(rule, s) : j <= i})]
          ELSE s.order[i]]

Orders(rule, s) ==
  rule.action.type = "reorder" /\ Applies(rule, s) /\ ReorderWaiting(rule, s) # <<>>
Limits(rule, s) == rule.action.type = "admission" /\ Applies(rule, s)

First(S) == CHOOSE i \in S : \A j \in S : i <= j

\* What a program decides: the first rule that orders the queue and the first
\* that limits admission, each for itself.  PolicyProgram has the loop.
Decide(rules, s) ==
  LET ordering == {i \in DOMAIN rules : Orders(rules[i], s)}
      limiting == {i \in DOMAIN rules : Limits(rules[i], s)}
  IN Decision(IF ordering = {} THEN <<>> ELSE ReorderWaiting(rules[First(ordering)], s),
              IF limiting = {} THEN Keep ELSE rules[First(limiting)].action.limit)
===============================================================================
