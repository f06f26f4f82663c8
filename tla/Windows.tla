------------------------------- MODULE Windows -------------------------------
(***************************************************************************)
(* Sliding windows over logs whose entries [at |-> n, ...] come in the     *)
(* order of time.  The scheduler and its metrics keep the entries of a     *)
(* window only and drop the older ones at the front, from time to time.    *)
(* For the samples of RollingRuntimeMetrics, n is simulated time; for the  *)
(* marks of reorders it is the number of tasks completed.                  *)
(***************************************************************************)
EXTENDS Integers, Sequences

\* How many entries the loop drops: all in front of the first that is not old.
OlderThan(s, threshold) ==
  CHOOSE k \in 0..Len(s) :
    /\ \A i \in 1..k : s[i].at < threshold
    /\ k < Len(s) => s[k + 1].at >= threshold

\* Mutant: if instead of while, only the first entry is looked at.
DropOlder_one(s, threshold) ==
  IF s # <<>> /\ s[1].at < threshold THEN Tail(s) ELSE s

\* while (!s.empty() && s.front().timestamp < threshold) s.pop_front(), which
\* for marks in order is the erasure up to lower_bound.
DropOlder(s, threshold) == SubSeq(s, OlderThan(s, threshold) + 1, Len(s))
==============================================================================
