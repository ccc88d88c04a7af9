---- MODULE Services ----
(***************************************************************************)
(* The smaller services around the autoscaler, one per behaviour: unit says *)
(* which one runs, and the variables of the others keep their first value.  *)
(* The services share no state, so a run of each by itself is a run of any  *)
(* of them together as far as its own properties go.                        *)
(***************************************************************************)
EXTENDS Integers, Sequences, FiniteSets

CONSTANTS
  MaxStamp, AppSeries, Generated, SimulatedAt, PageSize, CacheDelay, Late, Smoothing,  \* Metrics
  MaxTime, Markets, DedupeInterval, MaxFaults,                \* SpotPrices
  Pools, Scheduler, MaxPasses,                                \* ClusterMetrics
  Agents, Pods, Modes, NodeCpus, NoNode,                      \* Connectors
  Hosts, Starts, MaxTries, MaxCalls,                          \* MesosMaintenance
  PoolNodes, Inputs, Selectors, Rates, MaxClock, MaxEvents               \* MigrationEvents

ASSUME ConstantsAssumption ==
  /\ MaxStamp \in Nat \ {0} /\ MaxTime \in Nat \ {0} /\ DedupeInterval \in Nat \ {0}
  \* A point is written before it is old enough to be kept in a cache.
  /\ CacheDelay \in Nat \ {0} /\ Late \in 0..CacheDelay /\ Smoothing \in Nat \ {0, 1}
  /\ IsFiniteSet(AppSeries) /\ SimulatedAt \in Nat /\ PageSize \in Nat
  /\ Generated \subseteq (1..MaxStamp) \X {0, 1}
  /\ \A p \in Generated, r \in Generated : p[1] = r[1] => p = r
  /\ Pools \in Seq(DOMAIN Scheduler)
  /\ IsFiniteSet(Pods) /\ NodeCpus \in Nat /\ NoNode \notin Agents
  /\ Starts \subseteq Nat /\ MaxTries \in Nat
  /\ PoolNodes \in Seq([kernel : {"plain", "odd"} \X Nat, lsbrelease : {"plain", "odd"} \X Nat,
                        instance_type : Nat, uptime : Nat, task_count : Nat, labels : SUBSET STRING])
  /\ Rates \subseteq [percent : BOOLEAN, value : Nat]
  /\ MaxClock \in Nat \ {0}

VARIABLE unit
VARIABLES me_now, me_reader, me_half, me_pending, me_store, me_cache, me_answer
VARIABLES sp_now, sp_changes, sp_pc, sp_start, sp_end, sp_left, sp_intervals,
          sp_buffer, sp_table, sp_begun, sp_checkins, sp_faults
VARIABLES cm_pc, cm_at, cm_kind, cm_loaded, cm_groupless, cm_successful,
          cm_written, cm_partly, cm_passes
VARIABLES cc_mode, cc_alive, cc_pods, cc_nodeCache, cc_podCache, cc_pc, cc_nodes,
          cc_used, cc_byIp, cc_pending, cc_excluded, cc_seen
VARIABLES mm_schedule, mm_downs, mm_call, mm_got, mm_wanted, mm_calls
VARIABLES ev_clock, ev_crds, ev_submitted, ev_listed, ev_work, ev_created

me_vars == <<me_now, me_reader, me_half, me_pending, me_store, me_cache, me_answer>>
sp_vars == <<sp_now, sp_changes, sp_pc, sp_start, sp_end, sp_left, sp_intervals,
             sp_buffer, sp_table, sp_begun, sp_checkins, sp_faults>>
cm_vars == <<cm_pc, cm_at, cm_kind, cm_loaded, cm_groupless, cm_successful,
             cm_written, cm_partly, cm_passes>>
cc_vars == <<cc_mode, cc_alive, cc_pods, cc_nodeCache, cc_podCache, cc_pc, cc_nodes,
             cc_used, cc_byIp, cc_pending, cc_excluded, cc_seen>>
mm_vars == <<mm_schedule, mm_downs, mm_call, mm_got, mm_wanted, mm_calls>>
ev_vars == <<ev_clock, ev_crds, ev_submitted, ev_listed, ev_work, ev_created>>

Me == INSTANCE Metrics WITH
    MaxTime <- MaxStamp, Capacity <- "capacity", Total <- "total", OldSeries <- "old", NewSeries <- "new",
    now <- me_now, reader <- me_reader, half <- me_half, pending <- me_pending,
    store <- me_store, cache <- me_cache, answer <- me_answer
Sp == INSTANCE SpotPrices WITH
    now <- sp_now, changes <- sp_changes, pc <- sp_pc, start <- sp_start,
    end <- sp_end, left <- sp_left, intervals <- sp_intervals, buffer <- sp_buffer,
    table <- sp_table, begun <- sp_begun, checkins <- sp_checkins,
    faults <- sp_faults
Cm == INSTANCE ClusterMetrics WITH
    pc <- cm_pc, at <- cm_at, kind <- cm_kind, loaded <- cm_loaded,
    groupless <- cm_groupless, successful <- cm_successful, written <- cm_written,
    partly <- cm_partly, passes <- cm_passes
Cc == INSTANCE Connectors WITH
    Nodes <- Agents, mode <- cc_mode, alive <- cc_alive, pods <- cc_pods,
    nodeCache <- cc_nodeCache, podCache <- cc_podCache, pc <- cc_pc,
    nodes <- cc_nodes, used <- cc_used, byIp <- cc_byIp, pending <- cc_pending,
    excluded <- cc_excluded, seen <- cc_seen

ASSUME ModesAssumption == Modes \subseteq Cc!ModeType

Mm == INSTANCE MesosMaintenance WITH
    schedule <- mm_schedule, downs <- mm_downs, call <- mm_call, got <- mm_got,
    wanted <- mm_wanted, calls <- mm_calls
Ev == INSTANCE MigrationEvents WITH
    Nodes <- PoolNodes, clock <- ev_clock, crds <- ev_crds, submitted <- ev_submitted,
    listed <- ev_listed, work <- ev_work, created <- ev_created

Units == {"metrics", "prices", "collector", "connector", "maintenance", "events"}

Init ==
    /\ unit \in Units
    /\ Me!Init
    /\ Sp!Init
    /\ Cm!Init
    /\ Cc!Init
    /\ Mm!Init
    /\ Ev!Init
    /\ unit = "metrics" \/ me_reader = "app"
    /\ unit = "connector" \/ (cc_alive = {} /\ cc_mode = CHOOSE m \in Modes : TRUE)

MetricsNext ==
    /\ unit = "metrics"
    /\ UNCHANGED <<unit, sp_vars, cm_vars, cc_vars, mm_vars, ev_vars>>
    /\ Me!Next

SpotPricesNext ==
    /\ unit = "prices"
    /\ UNCHANGED <<unit, me_vars, cm_vars, cc_vars, mm_vars, ev_vars>>
    /\ Sp!Next

ClusterMetricsNext ==
    /\ unit = "collector"
    /\ UNCHANGED <<unit, me_vars, sp_vars, cc_vars, mm_vars, ev_vars>>
    /\ Cm!Next

ConnectorsNext ==
    /\ unit = "connector"
    /\ UNCHANGED <<unit, me_vars, sp_vars, cm_vars, mm_vars, ev_vars>>
    /\ Cc!Next

MesosMaintenanceNext ==
    /\ unit = "maintenance"
    /\ UNCHANGED <<unit, me_vars, sp_vars, cm_vars, cc_vars, ev_vars>>
    /\ Mm!Next

MigrationEventsNext ==
    /\ unit = "events"
    /\ UNCHANGED <<unit, me_vars, sp_vars, cm_vars, cc_vars, mm_vars>>
    /\ Ev!Next

Next ==
    \/ MetricsNext
    \/ SpotPricesNext
    \/ ClusterMetricsNext
    \/ ConnectorsNext
    \/ MesosMaintenanceNext
    \/ MigrationEventsNext

vars == <<unit, me_vars, sp_vars, cm_vars, cc_vars, mm_vars, ev_vars>>

Spec == Init /\ [][Next]_vars

\* get_metric_values returns what the table holds, whatever its cache holds.
CachedReadsAreComplete == Me!CachedReadsAreComplete

\* The autoscaler of an empty pool finds what a unit of capacity used to hold
\* (_get_historical_weighted_resource_value), whatever the cache holds.
HistoryIsFound == Me!HistoryIsFound

\* The spot price collector loses no price it has seen, whatever is retried.
PricesAreRecorded == Sp!PricesAreRecorded

\* The metrics collector checks in as healthy only after a pass in which every
\* pool it has loaded got all of its metrics.
ReportedPassIsWhole == Cm!ReportedPassIsWhole

\* No connector calls a node safe to kill that it knows and that runs what must
\* not be killed.
KnownNodesAreSafe == Cc!KnownNodesAreSafe

\* A reload of the Kubernetes connector pays for every pod once, and does not
\* promise room that is not there.
AccountsAreRight == Cc!AccountsAreRight

\* Putting a Mesos host into maintenance leaves the windows of others alone.
WindowsAreKept == Mm!WindowsAreKept

\* A migration recycles what was asked for on the command line.
RequestIsCarriedOut == Ev!RequestIsCarriedOut
====
