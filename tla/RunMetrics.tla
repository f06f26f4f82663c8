------------------------------ MODULE RunMetrics ------------------------------
(***************************************************************************)
(* compute_run_metrics (sim/src/run_metrics.cc): what a report and the     *)
(* snapshot of a policy say of a run, computed from the tasks that the     *)
(* scheduler has completed and from its marks of reorders.                 *)
(*                                                                         *)
(* Percentiles are in hundredths of a time unit, as the quantiles are in   *)
(* hundredths: the interpolation is exact where the code's doubles round.  *)
(* Means and ratios are left as sums and counts; the split of the service  *)
(* times by domain is left out.                                            *)
(***************************************************************************)
EXTENDS SchedulerMetrics

\* The positions of the values that come before s[i], of equal ones in their order
Before(s, i) == {j \in DOMAIN s : s[j] < s[i] \/ (s[j] = s[i] /\ j < i)}

\* std::sort
SortedUp(s) == [k \in DOMAIN s |-> s[CHOOSE i \in DOMAIN s : Cardinality(Before(s, i)) = k - 1]]

\* compute_percentile of values that are sorted and not empty: between the two
\* whose positions enclose the rank
Percentile(sorted, quantile) ==
  LET rank == quantile * (Len(sorted) - 1)
      lower == sorted[rank \div 100 + 1]
  IN IF rank % 100 = 0 THEN 100 * lower
     ELSE 100 * lower + (sorted[rank \div 100 + 2] - lower) * (rank % 100)

\* make_task_timing
Timing(t) == [id |-> t, queue |-> queueTime[t], service |-> serviceTime[t]]
Latency(timing) == timing.queue + timing.service

LatencyStats(latencies) ==
  LET sorted == SortedUp(latencies) IN
  [count |-> Len(latencies), min |-> sorted[1], max |-> sorted[Len(sorted)],
   p50 |-> Percentile(sorted, 50), p95 |-> Percentile(sorted, 95),
   p99 |-> Percentile(sorted, 99)]

\* compute_run_metrics of the scheduler
ComputeRunMetrics ==
  LET timings == [i \in DOMAIN completedTasks |-> Timing(completedTasks[i])]
      latencies == [i \in DOMAIN timings |-> Latency(timings[i])]
      n == Len(timings)
  IN [tasks |-> timings,
      queue |-> SumOf(timings, "queue"), service |-> SumOf(timings, "service"),
      latency |-> SumFunction(latencies),
      stats |-> IF n = 0 THEN [count |-> 0] ELSE LatencyStats(latencies),
      peak |-> metrics.peakDepth,
      recent |-> RecentReorders(metrics, n, ReorderWindow),
      recentTasks |-> IF n < ReorderWindow THEN n ELSE ReorderWindow]

------------------------------------------------------------------------------
(* Properties *)

\* p, in hundredths, is a quantile of the latencies: a share of quantile of the
\* gaps between them lies below it, the rest above.
IsQuantile(p, latencies, quantile) ==
  LET gaps == quantile * (Len(latencies) - 1)
      below == {i \in DOMAIN latencies : 100 * latencies[i] <= p}
      above == {i \in DOMAIN latencies : 100 * latencies[i] >= p}
  IN /\ Cardinality(below) > gaps \div 100
     /\ Cardinality(above) >= Len(latencies) - (gaps + 99) \div 100

\* A report is true to its run, whenever it is made: each task that has completed
\* is in it once, with its time in the system, up to the current time; the
\* percentiles enclose the right number of tasks; no queue was ever deeper than the
\* peak; and the recent reorders are those since recentTasks tasks were still to
\* complete, of the tasks that completed.
ReportExact ==
  LET report == ComputeRunMetrics
      latencies == [i \in DOMAIN report.tasks |-> Latency(report.tasks[i])]
      n == Len(latencies)
  IN /\ {report.tasks[i].id : i \in 1..n} = {t \in tasks : Finished(t)}
     /\ n = Cardinality({t \in tasks : Finished(t)})
     /\ report.latency = report.queue + report.service
     /\ \A i \in 1..n : Latency(report.tasks[i]) <= currentTime - arrivalTime[report.tasks[i].id]
     /\ n > 0 =>
          /\ IsQuantile(report.stats.p50, latencies, 50)
          /\ IsQuantile(report.stats.p95, latencies, 95)
          /\ IsQuantile(report.stats.p99, latencies, 99)
          /\ report.stats.min <= report.stats.max
          /\ 100 * report.stats.min <= report.stats.p50 /\ report.stats.p50 <= report.stats.p95
          /\ report.stats.p95 <= report.stats.p99 /\ report.stats.p99 <= 100 * report.stats.max
          /\ report.recent =
               Cardinality({i \in 1..Len(metrics.reorderLog) :
                              metrics.reorderLog[i].at >= n - report.recentTasks})
     /\ report.peak >= Len(waitingQueue)
     /\ RecentReordersExact
===============================================================================
