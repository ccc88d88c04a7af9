---- MODULE ClusterMetrics ----
(***************************************************************************)
(* The cluster metrics collector (batch/cluster_metrics_collector.py) and   *)
(* the generators it calls (mesos/metrics_generators.py): one pass reloads  *)
(* every pool, then writes each kind of metric for each pool in turn, and   *)
(* reports to Sensu when no kind timed out.                                 *)
(***************************************************************************)
EXTENDS Integers, Sequences, FiniteSets

CONSTANTS Pools,       \* sequence of the configured pools, in loading order
          Scheduler,   \* pool -> "mesos" or "kubernetes"
          MaxPasses    \* bound: passes of the batch between restarts

Generators == <<"kubernetes", "system", "metadata">>
Kinds == 1..3

VARIABLES pc,          \* "load", "reload", "write", "report" or "dead"
          at,          \* index of the pool that is next
          kind,        \* index of the metric that is being written
          loaded,      \* pool_managers, in loading order
          groupless,   \* pools that lost all their resource groups
          successful,  \* write_all_metrics so far
          written,     \* <<pool, metric>> completely sent in this pass
          partly,      \* <<pool, metric>> of which the capacity metrics are left out
          passes

vars == <<pc, at, kind, loaded, groupless, successful, written, partly, passes>>

PoolSet == {Pools[i] : i \in DOMAIN Pools}

Init ==
    /\ pc = "load"
    /\ at = 1
    /\ kind = 1
    /\ loaded = <<>>
    /\ groupless = {}
    /\ successful = TRUE
    /\ written = {}
    /\ partly = {}
    /\ passes = 0

\* METRICS_TO_WRITE: unschedulable pods exist for Kubernetes only.
Writes(k, pool) == Generators[k] = "kubernetes" => Scheduler[pool] = "kubernetes"

\* A pool's resource groups appear and disappear.
GroupsChange ==
    /\ pc # "dead"
    /\ \E p \in PoolSet :
        groupless' = IF p \in groupless THEN groupless \ {p} ELSE groupless \cup {p}
    /\ UNCHANGED <<pc, at, kind, loaded, successful, written, partly, passes>>

\* load_pool_managers: a pool that cannot be loaded is skipped.
LoadPool ==
    /\ pc = "load"
    /\ at <= Len(Pools)
    /\ loaded' \in {loaded, Append(loaded, Pools[at])}
    /\ at' = at + 1
    /\ UNCHANGED <<pc, kind, groupless, successful, written, partly, passes>>

Loaded ==
    /\ pc = "load"
    /\ at > Len(Pools)
    /\ pc' = "reload"
    /\ at' = 1
    /\ UNCHANGED <<kind, loaded, groupless, successful, written, partly, passes>>

Dies ==
    /\ pc' = "dead"
    /\ UNCHANGED <<at, kind, loaded, groupless, successful, written, partly, passes>>

\* The loop of run: any exception while a pool is reloaded ends the batch; a
\* throttled call does too, because it is caught before it gets to
\* suppress_request_limit_exceeded.
ReloadPool ==
    /\ pc = "reload"
    /\ at <= Len(loaded)
    /\ \/ /\ at' = at + 1
          /\ UNCHANGED <<pc, kind, loaded, groupless, successful, written, partly, passes>>
       \/ Dies

Reloaded ==
    /\ pc = "reload"
    /\ at > Len(loaded)
    /\ passes < MaxPasses
    /\ pc' = "write"
    /\ at' = 1
    /\ kind' = 1
    /\ successful' = TRUE
    /\ written' = {}
    /\ partly' = {}
    /\ passes' = passes + 1
    /\ UNCHANGED <<loaded, groupless>>

\* write_metrics for one pool: generate_simple_metadata leaves out what needs
\* resource groups when there are none.
WritePool ==
    /\ pc = "write"
    /\ at <= Len(loaded)
    /\ LET p == loaded[at]
           applies == Writes(kind, p)
           missing == Generators[kind] = "metadata" /\ p \in groupless
       IN  /\ written' = IF applies /\ ~missing THEN written \cup {<<p, kind>>} ELSE written
           /\ partly' = IF applies /\ missing THEN partly \cup {<<p, kind>>} ELSE partly
    /\ at' = at + 1
    /\ UNCHANGED <<pc, kind, loaded, groupless, successful, passes>>

\* The last pool of this metric is done, or the rest of the pools is skipped.
NextMetric ==
    /\ at' = 1
    /\ IF kind < 3
       THEN kind' = kind + 1 /\ UNCHANGED pc
       ELSE kind' = kind /\ pc' = "report"

MetricWritten ==
    /\ pc = "write"
    /\ at > Len(loaded)
    /\ NextMetric
    /\ UNCHANGED <<loaded, groupless, successful, written, partly, passes>>

AfterTimeoutForgiven == successful

\* The outcome of the pass once a metric timed out.
AfterTimeout == FALSE

\* socket.timeout: the pool that timed out and all pools after it go without
\* this metric.
WriteTimesOut ==
    /\ pc = "write"
    /\ at <= Len(loaded)
    /\ Writes(kind, loaded[at])
    /\ NextMetric
    /\ successful' = AfterTimeout
    /\ UNCHANGED <<loaded, groupless, written, partly, passes>>

WriteFails ==
    /\ pc = "write"
    /\ at <= Len(loaded)
    /\ Dies

\* The pass is over; it was reported iff it was successful.
Report ==
    /\ pc = "report"
    /\ pc' = "reload"
    /\ at' = 1
    /\ UNCHANGED <<kind, loaded, groupless, successful, written, partly, passes>>

\* The batch is started again: after it died, or because a config changed.
Restart ==
    /\ pc \in {"dead", "report"}
    /\ pc' = "load"
    /\ at' = 1
    /\ kind' = 1
    /\ loaded' = <<>>
    /\ successful' = TRUE
    /\ written' = {}
    /\ partly' = {}
    /\ passes' = 0
    /\ UNCHANGED groupless

Next ==
    \/ GroupsChange
    \/ LoadPool
    \/ Loaded
    \/ ReloadPool
    \/ Reloaded
    \/ WritePool
    \/ MetricWritten
    \/ WriteTimesOut
    \/ WriteFails
    \/ Report
    \/ Restart

Spec == Init /\ [][Next]_vars

----
\* A pass that is reported to Sensu wrote in this pass, for every pool that was
\* loaded, every metric of its scheduler; only a pool without resource groups
\* goes without its capacities.
ReportedPassIsWhole ==
    pc = "report" /\ successful =>
        \A i \in DOMAIN loaded : \A k \in Kinds :
            Writes(k, loaded[i]) =>
                \/ <<loaded[i], k>> \in written
                \/ <<loaded[i], k>> \in partly /\ Generators[k] = "metadata"
====
