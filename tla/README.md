# Verification of Clusterman

TLA+ models of Clusterman, the service that scales pools of EC2 instances and
drains, migrates and terminates their nodes. The models are translated from
the code in `clusterman/` and `examples/clusterman_metrics/`; `PROJECT.json` says
for every definition which lines it stands for.

## 1. The system

| component | state it keeps | operations | who it talks to |
|---|---|---|---|
| node drainer (`draining/queue.py`, `batch/drainer.py`) | three SQS queues (spot warnings, hosts to drain, hosts to terminate), a TTL cache of hosts being processed | clean the cache, process one message of each queue per iteration | Kubernetes/Mesos (cordon, evict, uncordon), EC2 (lookup, terminate), SQS |
| Mesos maintenance (`draining/mesos.py`) | the master's maintenance schedule, machines that are down | drain, down, up, each with retries | Mesos master |
| node migration batch (`batch/node_migration.py`) | table of worker processes, table of events in progress, one lock per pool | fetch events, spawn workers, monitor and restart them, mark events | Kubernetes custom resources, worker processes |
| migration workers (`migration/worker.py`) | one process per event or per pool with `max_uptime`; selection and current chunk | acquire lock, pause autoscaler, prescale, select, drain a chunk, await health, release | pool manager, drain queue, state table |
| migration events (`cli/migrate.py`, `migration/event*.py`, `settings.py`) | custom resources | create, list, select nodes, mark | Kubernetes |
| pool manager (`autoscaler/pool_manager.py`) | what the last reload saw of AWS and of the cluster | constrain and spread the target, modify groups, choose and remove nodes, recycle orphans | resource groups, cluster connector, drain queue |
| autoscaler (`autoscaler/autoscaler.py`) | signals, configuration | one run: pause check, reload, evaluate signal, compute target, recycle orphans, modify | pool manager, signals, state table |
| resource groups (`aws/*_resource_group.py`) | AWS's description of an ASG or a spot fleet | load, set target, terminate instances, mark stale | AWS, an S3 cache |
| signals (`signals/`, `batch/autoscaler_bootstrap.py`, supervisord) | signal processes, a socket to each | fetch, start, connect, evaluate, fall back | autoscaler, metrics |
| cluster connectors (`kubernetes/`, `mesos/`) | snapshot of nodes and pods | reload, account for resources, agent metadata | Kubernetes, Mesos |
| pause toggle (`autoscaler/toggle.py`) | an item of the state table with an expiration time | disable, enable | DynamoDB |
| metrics client (`examples/clusterman_metrics`) | batches of points to write, a cache of points read | write, query by key or regular expression | DynamoDB |
| metrics collector, spot price collector (`batch/`) | pools loaded; window of the next run, intervals written | one pass over all pools; one window of prices | metrics client, EC2, Sensu |
| simulator (`simulator/`, `math/piecewise.py`) | event queue, simulated cluster, functions of time | events, billing, reports | autoscaler, metrics client |
| reports' plots, CLI output, market tables, tools | - | - | - |

What is hard about it:

* **Crashes and redelivery.** The drainer is driven by at-least-once,
  unordered queues. Between acting on a node, sending a follow-up and deleting
  the message it may crash, and its cache is lost with it.
* **Caches and snapshots.** The drainer deletes requests unread because its
  cache says somebody works on the host. The pool manager decides by what it
  loaded minutes ago, from AWS or from an S3 snapshot of it. The metrics client
  fills one cache by queries with different windows. The connectors list nodes
  and pods at different moments.
* **Processes that die.** Migration workers are killed, time out, fail, and
  are restarted; the batch itself restarts; locks and pauses stay behind.
  Signal processes die in the middle of an exchange, or while they start.
* **Several actors on one pool.** The autoscaler, event and uptime workers and
  the drainer all take nodes away from one pool.
* **Time-outs of what was done.** A maintenance call, a batch of prices or a
  pass of metrics times out after a part of it took effect, and is repeated.
* **Long sequences.** Nodes an earlier run gave to the drainer are still
  counted by the next run; instances marked stale are counted into the target
  that is set and out of the target that is read.

`PROJECT.json` lists each of these hazards at its line, with the properties
that are about it.

## 2. Modules

| module | models | used by |
|---|---|---|
| `Draining` | the drainer | `MCDraining`, `DrainingProofs` |
| `NodeMigration` | the migration batch and its workers | `MCNodeMigration`, `NodeMigrationProofs` |
| `PoolManager` | a run of the autoscaler's pool manager | `MCPoolManager`, `PoolManagerProofs` |
| `Autoscaler` | the autoscaler's loop through signal, target and pool | `MCAutoscaler`, `AutoscalerProofs` |
| `ResourceGroups` | ASGs and spot fleets, their staleness and their caches | `MCResourceGroups` |
| `SignalContract` | what an evaluation of a signal promises (abstract) | `Signals` |
| `Signals` | signal processes, their bootstrap and the socket protocol | `MCSignals`, `SignalsProofs` |
| `Piecewise` | piecewise constant functions | `Simulator` |
| `Simulator` | the simulator | `MCSimulator`, `SimulatorProofs` |
| `Metrics` | the metrics client, its writers and its cache | `Services` |
| `SpotPrices` | the spot price collector | `Services` |
| `ClusterMetrics` | the cluster metrics collector | `Services` |
| `Connectors` | the Kubernetes and the Mesos connector | `Services` |
| `MesosMaintenance` | the maintenance schedule | `Services` |
| `MigrationEvents` | migration conditions, resources and settings | `Services` |
| `Services` | the six small services above, side by side | `MCServices`, `ServicesProofs` |
| `DrainingProofs`, `NodeMigrationProofs`, `PoolManagerProofs`, `AutoscalerProofs`, `SignalsProofs`, `ServicesProofs`, `SimulatorProofs` | the theorems about the module they are named after | |
| `SumTheorems` | lemmas about sums over finite sets, ranks in a total order, folds and rounding | `PoolManagerProofs`, `AutoscalerProofs`, `ServicesProofs`, `SimulatorProofs` |
| `MC*` | the instances that TLC checks | the `.cfg` files |

`Services` puts six small modules side by side, one of them per behaviour: they
share no state, so that one run is enough for all of them, and a theorem about
one of them alone holds in the composition (`ServicesStandAlone`).

The definitions that `PROJECT.json` lists as "as" under "mutants" are plausible wrong versions
of the definition that follows them. They are not part of any specification;
each shows that a property notices the mistake.

### Draining

`drainQ`, `termQ` and `warnQ` are the queues. `pc` is the handler the loop of
`NodeDrainerBatch.run` has reached, `stage` how far it is: *receive* (take a
message and act on the cluster), *send* (the follow-up), *delete*. `held` is the
message in flight, `outDrain`/`outTerm` the follow-up that is not sent yet,
`cached`/`ttl` the cache. `running`, `owned`, `closed`, `pods` are the hosts as
EC2, Kubernetes and Mesos see them.

One action per case of `process_drain_queue` (`SkipDrain`, `DrainMesos`,
`DrainOther`, `DrainOrphan` for case 0, `ForceTerminate` for 1, `GiveUp` for 2,
`DrainKubernetes` for 3), one for each of the other two handlers, and
`send_message`, `delete_message`, `EmptyReceive` and
`clean_processing_hosts_cache`. The environment submits and warns, loses and
detaches instances, schedules pods, lets time pass (`Tick`) and crashes the
drainer (`Crash`). Faults (crashes, API errors, copies of deleted messages,
lost instances) come out of one budget, `faults`.

`dropped` is a history variable: the hosts whose last message the drainer
deleted because of an error it ignores (a failed lookup, a failed uncordon, an
instance that has left its group). The invariants say that these are the only
hosts it loses.

A host built without a `PrivateDnsName` makes `host_from_instance_id` raise
`UnboundLocalError`; the model restarts the drainer and leaves the message.

### NodeMigration

`proc[label]` is where the process with that label is; a label is
`<<"event", pool>>` or `<<"uptime", pool>>`. `bpc` is the batch's own place in
its loop, `todo` the events fetched and not looked at. `events_in_progress` and
`args` are kept apart because the code keeps them apart: the table of the batch
and the arguments the process was created with. A node is `old`, `leaving` or
`new`, and has an agent or not (`joined`; `AgentJoins`, `AgentLost`): an event
worker selects among the instances with an agent, the uptime worker among all.
`hadAgent` is what a worker saw when it selected, because the health check
compares agents with those. `covered` is a history variable: the nodes that had an
agent ever since an event was created, which are those it is bound to see.
`AcquireTimesOut` is a lock acquisition whose result is ignored;
`Finally` releases the lock of the pool whoever holds it, and fails on a lock
that is not held.

Clocks are abstracted to `overruns`: a worker that takes longer than
`expected_duration` lets another one's acquisition time out or its own pause
expire. What a killed worker left behind times out without one.
`BatchRestart` ends the workers with the batch: they are daemon processes, which
end with a parent that exits. A batch killed outright, outside of a container
that ends with it, would leave them running; this is not modelled.

### PoolManager

`view` is what `reload_state` saw; `alive`, `target`, `agent`, `tasks` and
`drain` are AWS, the cluster and the drainer as they really are, and go on
changing. A run is a sequence of steps: `reload_state`,
`terminate_expired_orphan_instances`, `modify_target_capacity` (constrain and
spread), `ModifyGroup` for each group, `StartPruning`, `Skip`/`Mark` for each
node in the order of `_sort_key`, `submit_for_draining` or
`terminate_instances_by_id`, `EndRun`. The loop's accumulators are variables,
so that an invariant can say what they are sums of.

`Unit` capacities make a capacity of 1, so that requests are not always whole
(`math.ceil` matters), while the targets that AWS keeps are.
`_compute_new_resource_group_targets` is a recursive function over the number
of rounds of the code's `while` loop: a round moves one group by 1, so a
distance that is not whole takes one round more than fits into it, up as well
as down.

### Autoscaler

The control loop that `PoolManager` leaves out: a run reads the pause
(`Start`), loads the pool and evaluates a signal (`EvaluateSignal`, or
`EvaluateDefaultSignal` when there is no custom signal or it fails), computes
and constrains the target (`Decide`), recycles orphans and modifies the pool.
AWS then launches instances, which join late, or never (`stuck`), and leave
their Kubernetes node behind for a while when they are terminated
(`lingering`); pods are scheduled where there is room, and what is left waiting
is in the next run's request. Numbers of nodes and pods are small, but the
arithmetic is the code's: fractions are pairs, the setpoint and the margin
percentages. `late` is a history variable: the runs that modified the pool
since it was paused.

The pool is one group of equal nodes. Pruning counts capacity and tasks as of
the reload (`view`) and is one step: the sets of running nodes that the code's
limits and its order of orphans and tasks allow, of those that the reload saw. `PoolManager` has its steps.

### ResourceGroups

AWS keeps `state`, `instances`, `desired` and the tags (`tagged`); `joined` is
the cluster; `snapshot` is the API data in S3, written now and then
(`SnapshotWritten`). The configuration of a behaviour is a pool of one ASG, or
of one fleet that may be cancelled and replaced by another (`FleetReplaced`),
and how groups are found: by `tag`, through the `cache`, or from the list in `s3`.
A run is `reload_state` (with `load`, which passes over groups that cannot be
loaded and falls back from the cache to the tags), `modify_target_capacity` and
`terminate_instances_by_id`, which works in batches and may fail between two.
`mark_stale` is an operator's command at any time.

`get_aws_api_cache_data == snapshot`, whatever its age, is what the code does:
the age is computed with the wrong sign and never exceeds the limit.

### Signals and SignalContract

`boot` and `polled` are the bootstrap batch (`autoscaler_bootstrap.py`):
`StartSupervisord`, `PollFetch`, `startProcessGroup`, `PollSignals`,
`startProcess`, `shutdown` on every way out, and `BootstrapRestarted`. `fetch`,
`proc` and `auto` are supervisord's states. `at` is where a signal process is
(external, from how the client uses it: listen, load parameters, read a length, read data, answer);
`up` and `down` are the two directions of its socket. `pc` is the autoscaler:
`Connect`/`Refused`/`LoadInternal` while it starts or reconnects, then
`StartRun`, `GetMetrics`, `SendLength`, `RecvLengthAck`, `SendChunk`,
`RecvDataAck`, `RecvResponse`. A `recv` takes everything that has arrived, in as
many sends as it came. RUNNING says that a process has lived for `startsecs`,
not that it listens: `Connect` may find nobody, and `mishaps` remembers whether
a process has died or was too slow for the tries of a connection. `BrokenPipe` reconnects and starts over once; `Fail`
turns to the default signal, and from there ends the run.

`SignalContract` is the abstract specification: a run asks, and gets the answer
to its own metrics or a failure, and in the end gets one of the two. `Signals`
implements it with `asked` being "a signal is under evaluation"
(`KeepsContract`).

### Simulator and Piecewise

The event queue is a set of events taken in the order of time and priority.
`phase` is `populate` (events come from metrics, the autoscaler's period and
price data), `run`, the steps of a run of the autoscaler, or `done`. An instance
has start, join and end; `aws_cpus`, `mesos_cpus` and `cost_per_hour` are
functions of `Piecewise`, changed as the code changes them, in the past and in
the future. `Bill` is one breakpoint of `_compute_instance_cost`'s loop;
`NextMarket` is one market of `_get_new_market_counts`; `Shifted` is one `add_delta`
per instance. What the autoscaler asks for is any target. A fleet whose target
does not change is passed over, as `pool_manager.py:154` does; joining delays may be
negative. Capacities are counted in `Unit`s, of which equal shares are whole.
`Piecewise` is integers
and sorted breakpoints; `values` and `integrals` walk along them once, as the code
does: `NextValue` and `NextChunk` are one turn of their loops, which pass over the
breakpoints that the next point has reached (`Behind`), and `Piece` is one such
breakpoint of an integral.

### The services

* `Metrics`: `pending` are points handed to a writer, `store` the table, `cache`
  one entry per query with the series it holds. `_cache_lookup`, `_cache_store`
  and `get_metric_values` are the code's functions on such entries, negative
  indices included. Four readers: a signal that asks by key or by regular
  expression, the autoscaler looking for the history of an empty pool, and the
  simulation's client. A signal's window has any length and ends at the time of
  the run, as `get_metrics_for_signal` asks. `now` is that time and `wall` is
  `time.time()`: in a simulation they differ, and everything is old enough to be
  cached. `FirstPages` are the items that a query of the index may return, of
  which the code reads one page. `SendTotal` and `SendCapacity` are the two
  metrics of a pass, each with its own stamp.
* `SpotPrices`: one run is `Wake`, `WritePrice` for each price of the paginator,
  newest first, `FlushBatch` whenever the writer is full, `Finish`; or `TimedOut`,
  `RequestLimitExceeded` or `Die` in between.
* `ClusterMetrics`: `LoadPool`, `ReloadPool`, `WritePool` for each pool, kind by
  kind, and `Report`; `WriteTimesOut`, `WriteFails`, `Restart`.
* `Connectors`: `ReloadNodes` and `ReloadPods` are separate steps between which
  pods are created (without conditions until `PodRejected`), bound, start and end;
  each may be answered from a cache. `ReloadFails`
  leaves the connector half reloaded, with either scheduler. `mode` are the pool's options and its pods.
* `MesosMaintenance`: `get_maintenance_schedule` and `Update` are the two calls of
  `drain`; every call may be carried out and time out (`Retry`).
* `MigrationEvents`: `Migrate` parses what was typed and creates a resource,
  `List` reads the resources back, `Recycle` selects nodes and the first chunk of
  them, among the agents that have joined and have the event's labels, `Mark`
  changes the status. Texts have a form: loading one in any form and printing it
  gives the plain form, a kernel that is not a version ends the worker, and a release
  that is none is below all that are. `ForeignResource` is a resource that somebody
  else has written, malformed perhaps.

## 3. Runs

| run | expected | checks | states, seconds |
|---|---|---|---|
| `drain_faults` | pass | `TypeOK`, `CachedHostIsInPipeline`, `ClosedHostIsTracked`, `FollowUpIsHeld` | 722,584, 15 |
| `drain_prompt` | pass | `SingleChain`, `NoPodKilled` | 629,867, 11 |
| `drain_live` | pass | `QueuesRunEmpty`, `ClosedHostIsReleased` | 86,459, 31 |
| `migration_safe` | pass | `TablesAgree`, `CompletedWasMigrated`, `CompletedPoolIsRecycled`, `OneRecycler`, `RateRespected`, `PauseIsLifted` | 4,252,542, 80 |
| `migration_live` | pass | `EventIsMigrated` | 154,219, 25 |
| `pool_prune` | pass | `TargetsBalanced`, `PruneKeepsTargets`, `ServiceKeepsTarget` | 1,258,176, 31 |
| `autoscaler` | pass | `OneRunAfterPause`, `RequestIsCovered`, `RequestIsNotExceeded`, `PodsAreScheduled`, `TargetSettles` | 238,637, 35 |
| `group_roll` | pass | `ServiceKept`, `RolledOver` | 62,795, 68 |
| `group_cache` | violation | `RolledOverFromCache` | |
| `signal` | pass | `NoSilentFallback`, `KeepsContract`, `SignalAnswersAgain` | 423,315, 36 |
| `simulator` | pass | `CpusMatchInstances`, `BilledByPeriod`, `ReportsAreRight`, `FleetReachesTarget` | 217,206, 50 |
| `services` | pass | `CachedReadsAreComplete`, `HistoryIsFound`, `PricesAreRecorded`, `ReportedPassIsWhole`, `KnownNodesAreSafe`, `AccountsAreRight`, `WindowsAreKept`, `RequestIsCarriedOut` | 3,625,133, 180 |

Run one with `tlc -config MCDraining_faults.cfg MCDraining`. The modules with a
`TypeOK` that no run names keep it as documentation of their state; it holds
when it is added to the run's cfg.

**Bounds.** `drain_faults` has one host of each kind (Kubernetes with a name,
with an empty name, without one; Mesos; other), two requests and one fault:
enough for a request that meets the cache entry, or the crash, of another; a
fault between any two stages; and a copy of a message next to its successor.
Messages are told apart by at most `MaxMessages` ids, which the requests and
faults never exhaust. `drain_prompt` has four requests for one host, so that a
second chain could start, end and start again. Thresholds and the cache's
lifetime are 0 or 1 tick: below, at and above a threshold all occur, and ages
stop growing above the largest. `migration_safe` has two events for one pool
(one may overwrite the other's entries), one for a pool that does not accept
events, an uptime worker, two nodes at a rate of 1 (a first and a last chunk), one
of which may join late, and two faults (a failure and a second one during
recovery). `MaxOverruns` is 0 there, because `OneRecycler` and `RateRespected` are
claimed until the first overrun; `migration_live` has one, on a single node. `pool_prune` has
two groups, nodes of weight 1, 1 and 2, all initial combinations of running,
orphaned and busy nodes, requests below, between and above whole capacities
and above the maximum, and two runs, the second of which meets the nodes the
first gave to the drainer. `CHECK_DEADLOCK FALSE` is set there because the
number of runs is bounded. `autoscaler` has three nodes and zero to three
pods to begin with, and pods that need a little more than half of a node: three
pods need three nodes, although two have enough in total. One change (a pod
comes or goes, a pause, an answer of the custom signal, which may be any of
six) and one failure; the number of runs is not bounded.

`group_roll` wants a capacity of two in a group of at most four and has six
instances, so that a whole generation can be replaced and lose one; one
`mark_stale` and one fault, which may cut a batch of terminations or of tags.
The number of runs is not bounded. `signal` has two signals, external,
internal or absent, of one version or of two, two chunks of metrics (a first
and a last one) and two faults: a process that dies, and one that dies again
while everything recovers. Runs are numbered modulo 3, which tells this run's
answer from those of the two before. `simulator` has two markets of different
weight, four ticks, billing periods of two, two changes of size or a period of
the autoscaler of three, one change of price at any time, and joins before
or after the start: an instance may end before it joins, at the end of a period,
or with a price change. `services`: four ticks with a cache delay of one (a
window that moves on twice over what was cached), index pages of three items,
which the points written may exceed; two markets and intervals of
two ticks (two prices in one interval, and a window that cuts one); two pools,
one per scheduler, a pass and a restart; two nodes and two pods under five
combinations of options; three hosts, two times and four calls with two tries;
three nodes, one of which has an unreadable kernel and one an unreadable release,
with or without a label, one migration and a foreign resource, with rates that round to nothing, to a half and
to the whole pool. `simulator`, `group_roll` and `services` may stop where the
clock or the ids end: `CHECK_DEADLOCK FALSE`.

**`Prompt` and `Quiet`.** In `Draining`, `SingleChain` and `NoPodKilled` are claimed only if no
message waits for longer than a cache entry lives (`Prompt`) and nothing
fails: with a longer backlog the cache entry expires, a second request starts
a second chain, and one chain can uncordon what the other terminates. The
code's defence is the ratio of `DRAIN_CACHE_SECONDS` to the polling interval.
`ServiceKeepsTarget` is claimed if no agent joins and the drainer does nothing
during a run, and the drainer has tainted what it was given before the next
one (`Quiet`): the pool manager decides by a snapshot and its loop compares
capacities of the snapshot with nodes AWS lists later. It also needs the
draining nodes to be killable still: one that is spared, because its group's
target was raised or its weight does not fit, is counted as if it stayed.
In `Autoscaler`, `Prompt` says that no run looks at the pool between a node's
joining and the scheduler's placing a waiting pod on it: a waiting pod that has
room is not part of the request, so that such a run may remove the node again,
with the pod that has meanwhile been placed there. The scheduler takes seconds
and runs are minutes apart, but nothing in the code excludes it.
In `ResourceGroups`, `Prompt` says that AWS launches what a group lacks, and the
agents join, before the next run, and that no instance is lost during a run;
otherwise the pool manager prunes what it took for surplus. In `Signals`,
`prompt` is a variable: the contract and `NoSilentFallback` hold in any case,
`SignalAnswersAgain` if a running signal listens before the tries of a
connection are used up, reads its parameters before anything else arrives and,
when it is restarted between runs, survives `startsecs`.

**Fairness.** `Draining`: weak fairness of the loop's own steps (it is a `while`
loop, restarted by its supervisor) and of time; strong fairness of receiving a
host's message, because SQS delivers a message that stays in a queue sooner or
later although receives in between may return nothing. `NodeMigration`: weak
fairness of the batch, of every worker process and of the drainer's replacing
a node, which is what `Draining!QueuesRunEmpty` says; strong fairness of
acquiring the lock, because the uptime worker sleeps
between two acquisitions. `Autoscaler`: weak fairness of the batch's runs, of
the expiry of a pause, of launching, joining, scheduling and the removal of
dead nodes. `ResourceGroups`: weak fairness of the runs, of AWS (launching,
joining, ending a cancelled fleet, forgetting the dead) and of the batch that
writes the snapshot. `Signals`: weak fairness of the bootstrap, of the
autoscaler and of each signal process, all of which are loops under
supervisord. No environment fault is ever fair. All liveness
runs have boundedly many faults: a worker that always fails is restarted for
ever, and the code makes no attempt to stop it.

### What the runs show

* A drain request may be deleted unread for a cached host, and a cordoned
  host is never forgotten, whatever crashes and duplicates come between.
  Redelivery is enough because every handler sends before it deletes.
* Every chain of re-drains ends, because `draining_start_time` is carried
  along.
* An event is marked completed only when the nodes it could see have been
  recycled for this event, through overwritten table entries, failed status
  updates and restarts of the batch. Instances without an agent are left behind:
  the event is completed although they are as old as before.
* A pool whose autoscaler a worker has disabled has an event that is still to be
  finished, however the worker ended: somebody will enable it again.
* Targets and pruning respect their limits, and the sort key's first
  component (draining nodes first) is what keeps consecutive runs from taking
  more out of service than the target allows.
* The autoscaler's formulas aim neither too low nor too high in any of their
  cases, as long as all nodes are alike and Kubernetes and AWS agree on them.
* A pool that is paused is modified at most once more, by the run that was
  under way.
* All pods are scheduled in the end and the target comes to rest, even when
  the custom signal always fails. This is claimed for `max_tasks_to_kill` = 0.
  If pods may be killed, pods that leave much of a node unused make the loop
  oscillate: their sum asks for two nodes, pruning kills a pod, the waiting
  pod is counted twice and asks for three. The mutant of `TargetSettles`
  (`MayKillTasks`) shows this.
* Stale instances of an ASG and cancelled fleets are replaced in the end, and the
  target comes to rest at what is wanted, although stale instances are counted
  into one side and out of the other while they go one by one. Pruning keeps
  what is wanted in service even when groups are loaded from an old snapshot
  or not at all, because it asks for the instances that run.
* Whatever arrives together or apart on a signal's socket, and however signal
  processes die, no answer is taken for that of another run, and an evaluation
  ends unless the signal itself hangs. The default signal replaces an app's own only
  after a process has died or was slow to listen.
* The cache of the metrics client does not change what a signal's query returns,
  as long as points are written no later than `_CACHE_DELAY` after their time and a
  regular expression's index fits in a page; in a simulation it may miss the point
  at the end of the window. The autoscaler of an empty pool finds the latest
  non-zero capacities, and what they used to hold if there are two and no totals
  of adjacent seconds.
* Prices are neither lost nor overwritten by older ones when runs time out,
  are throttled or restarted with the time where they stopped.
* A healthy check-in of the metrics collector means that all loaded pools were
  written completely.
* The Kubernetes connector pays once for every pod that it looks at, although nodes
  and pods are listed at different moments. It offers no known node for
  termination that has an unsafe pod; a node that it missed is offered.
* Repeated maintenance calls leave the windows of other hosts alone.
* A migration selects, of the nodes that have joined with the labels asked for,
  those that do not meet the condition that was typed, after it was printed and
  parsed twice; and if there are any, the first chunk is not empty.
* The simulator's functions of time agree with its instances, and each billing
  period is charged once at its price; reports are right at every step width. A run
  that changes the simulated fleet leaves it at its target if there is a market.

### Disagreements found

`group_cache`: `get_aws_api_cache_data` promises to raise `AWSAPICacheStale`; the age
is computed as `last_modified - now` (`aws_resource_group.py:221`), so that it
never does, and a run works with a snapshot of any age: stale instances are
never rolled over while the snapshot is behind.

Met while modelling, with the properties that show them defined in the modules
and not claimed by a run:

* `NamelessHostIsTerminated` (`Draining`; add it to `drain_live` with `Instances = {x}`):
  an instance without `PrivateDnsName` ends the drainer at every delivery of
  its message, because `agent_id` is unbound (`queue.py:532`), although the log line (525)
  says "continuing to proceed anyway" and case 0b (369) that it is submitted for
  termination.
* Without their `OnTime`, `OneRecycler` and `RateRespected` do not hold with
  `MaxOverruns = 1`: the result of `pool_lock.acquire(timeout=...)` is ignored
  (`worker.py:198`); two workers of a pool then recycle nodes at the same time.
* `PausedWhileRecycling` (`NodeMigration`) with `MaxOverruns = 1`: the pause of the autoscaler starts
  to run before the health of the pool is awaited and may end before the
  recycling (`worker.py:206`; `docs/source/node_migration.rst:43`, "turn off
  autoscaler while recycling instances").
* `AtMostMaxWorkers` (`NodeMigration`) with `MaxWorkers = 1`: restarted workers are not counted against
  `max_worker_processes` (`node_migration.py:257`; `docs/source/configuration.rst`,
  "Maximum number of worker prcesses the batch can spawn").
* `NoKillAfterCapacityLoss` (`PoolManager`): a run that "will not kill any nodes"
  (`autoscaler.py:169`) still prunes when the pool is above its target
  (`pool_manager.py:172`).
* `OrphansAreIdle` (`Connectors`): a node that joined after the nodes were listed is
  an orphan to the connector, and orphans are safe to kill by default
  (`types.py:22`, `kubernetes_cluster_connector.py:412`) and pruned first, although
  the pods listed may run there and must not be evicted.

Observations without a property:

* *Resource groups.* An ASG at `MaxSize` whose instances are all stale cannot be
  rolled over. `mark_stale` of a fleet raises `NotImplementedError`, which is caught.
* *Signals.* With `startretries=0` a signal that dies within `startsecs` of its
  restart is FATAL for ever, although `docs/source/signals.rst:152` says
  supervisord restarts a signal that dies "for any reason". `SOCKET_TIMEOUT_SECONDS`
  is not used: a signal that hangs blocks the autoscaler. After a reconnection
  the parameters and the length may arrive in one piece, which the signal cannot parse. A fetch
  that fails is EXITED as one that succeeds. An app's signal that cannot be loaded when the
  autoscaler starts is replaced by the default for the autoscaler's life, also when
  it was only slow to bind its socket.
* *Node migration.* An instance that has no agent when nodes are selected, or that
  the event's label selectors hide, is not recycled, and the event is completed. A
  chunk of an uptime worker with an instance that has no agent waits until that
  joins, or times out.
* *Simulator.* A refunded last period can make costs negative; the interval in
  `_populate_autoscaling_events` is the splay, not the period, and a splay of 0
  never ends; a gaussian join delay can be negative, and the cpus of Mesos then rise
  before the instance starts; a fleet left short because no market was available stays
  short until its target changes (`pool_manager.py:154`); prices at a time change after the autoscaler has run at
  that time; outbid instances are not terminated.
* *Metrics.* The point at the very end of a window is missed when everything
  before it is cached, although the end is documented as inclusive: this cannot
  happen to a window that ends now, because nothing that recent is cached, but
  in a simulation, whose window ends in the past (`boto_client.py:459`), and to the
  total that the history of an empty pool reads. When a window ends before
  the first cached point that follows its start, `_cache_lookup`
  (`boto_client.py:407`) takes `max_time` from a point before the window, and a
  regular expression may return points from before it: with one series at 1
  and 5 and another at 2, the read [3, 4] after [1, 5] returns the point at 2.
  No caller reads such a window with a regular expression. A single
  non-zero capacity makes the history raise `ValueError` where 0 is documented.
  Results of the regular expression's index beyond the first page are ignored
  (`boto_client.py:345`), so that a series may be missing from the answer.
* *Collectors.* A restart of the price collector without `--start-time` leaves a
  gap; a throttled run counts as a success. A pool that fails to load is
  missing for the life of the metrics collector although its passes are
  reported; one pool's time-out skips the remaining pools of that kind, although the
  comment says it goes on.
* *Connectors.* The address of a bound pod is not known until it runs, and with
  `use_labels_for_pods` pods without the label do not count. A pending pod without
  conditions is counted nowhere, nor is an excluded daemonset pod on a node that
  is not listed. An exception in the middle of a reload leaves new nodes next to
  old pods. Mesos' `used_resources`
  and tasks are of different moments.
* *Maintenance.* The schedule is written back without a version: what an operator
  writes in between is lost. A retry of an `up` that was carried out fails.
* *Migration events.* Two migrations of one second have one name; the second is
  only logged. One malformed resource hides all of them. `bootstrap_timeout`
  defaults to three minutes where `docs/source/node_migration.rst` says ten.

## 4. Proofs

Each theorem below holds for every value of the constants that satisfies the
module's `ConstantsAssumption`: any number of hosts, pools, events, nodes, groups,
pods, resources, requests, runs and faults. "Property" is what the run in
section 3 checks on a small instance.

| module | theorem | property | holds when |
|---|---|---|---|
| `DrainingProofs` | `TypeCorrect` | `TypeOK` | always |
| | `CacheIsSound` | `CachedHostIsInPipeline` | always |
| | `NoHostForgotten` | `ClosedHostIsTracked` | always |
| | `SendBeforeDelete` | `FollowUpIsHeld` | always |
| | `OneChainPerHost` | `SingleChain` | `Prompt`, no `PrivateDnsName` missing, as long as nothing has failed |
| | `OnlyEmptyNodesAreTerminated` | `NoPodKilled` | the same, no faults, no `force_terminate`, Kubernetes nodes have names |
| `NodeMigrationProofs` | `TypeCorrect` | (`TypeOK`) | always |
| | `TablesAlwaysAgree` | `TablesAgree` | always |
| | `CompletedMeansMigrated` | `CompletedWasMigrated` | always |
| | `CompletedMeansRecycled` | `CompletedPoolIsRecycled` | always (of instances with an agent since the event was created) |
| | `WorkersExclude` | `OneRecycler` | as long as no worker has overrun |
| | `PausesAreLifted` | `PauseIsLifted` | always |
| | `RateIsRespected` | `RateRespected` | as long as no worker has overrun (the property itself says: and nothing has failed) |
| `PoolManagerProofs` | `TypeCorrect` | (`TypeOK`) | always |
| | `PruningKeepsTargets` | `PruneKeepsTargets` | always |
| | `PlansAreBalanced` | `TargetsBalanced` | `min_capacity <= max_capacity` |
| | `ServiceIsKeptAtTarget` | `ServiceKeepsTarget` | `Quiet` |
| `AutoscalerProofs` | `TypeCorrect` | (`TypeOK`) | always |
| | `PauseIsRespected` | `OneRunAfterPause` | always |
| | `RequestIsAlwaysCovered` | `RequestIsCovered` | always |
| | `RequestIsNeverExceeded` | `RequestIsNotExceeded` | `target_capacity_margin <= 100` |
| `SignalsProofs` | `NeverFallsBackSilently` | `NoSilentFallback` | until a process has died or was slow to listen |
| | `AnswersItsOwnRun` | the safety part of `KeepsContract` | always |
| `ServicesProofs` | `PricesAreAlwaysRecorded` | `PricesAreRecorded` | always |
| | `OnlyWholePassesAreReported` | `ReportedPassIsWhole` | always |
| | `KillableNodesAreSafe` | `KnownNodesAreSafe` | of the nodes that the last listing of nodes shows |
| | `AccountsAreAlwaysRight` | `AccountsAreRight` | of the pods that the connector looks at, without `use_labels_for_pods` |
| | `WindowsAreAlwaysKept` | `WindowsAreKept` | always |
| | `RequestsAreCarriedOut` | `RequestIsCarriedOut` | of the nodes with an agent and the event's labels |
| | `CachedReadsAreAlwaysComplete` | `CachedReadsAreComplete` | index of one page; in a simulation, but for the end of the window |
| | `HistoryIsAlwaysFound` | `HistoryIsFound` | the weighted value: two non-zero capacities, no write on its way, no totals of adjacent seconds |
| `SimulatorProofs` | `CpusMatchInstancesHolds` | `CpusMatchInstances` | always |
| | `FleetAlwaysReachesTarget` | `FleetReachesTarget` | a run changes the target or ends instances, and a market is available |
| | `BilledByPeriodHolds` | `BilledByPeriod` | no refunded last period, no instance that ends when it starts |
| | `ReportsAreAlwaysRight` | `ReportsAreRight` | always |

**Assumptions.** `ConstantsAssumption` gives the constants their types; TLC
evaluates it in every run. What it says beyond that: what is summed over is
finite (`Nodes`, `Groups`, `Resources`, `Pods`); `min_capacity <= max_capacity` in
`Autoscaler`, whose formulas have nowhere to go otherwise; at least three runs
can be told apart in `Signals`; a point is written at most `_CACHE_DELAY` after its
time, which is positive, two points at least are averaged, and a simulation
makes up one point per time, in `Metrics`; any number of markets in `Simulator` divides
the `Unit` that capacities are counted in; and `None` in `NodeMigration` and `NoNode` in
`Connectors` are not the name of anything real. `ModesAssumption` types the
options of a pool. "Nothing has failed" is `faults = MaxFaults`, no overrun
`overruns = MaxOverruns`: the budgets count down, so these are states of every
specification, whatever the budgets, up to the first failure. `Prompt` and
`Quiet` are explained in section 3. `OnlyEmptyNodesAreTerminated` leaves out the
cases in which the code terminates a node undrained on purpose
(`force_terminate`, and a node whose `PrivateDnsName` is empty, case 0b), and
failures, in which a crash or an expired cache entry starts a second chain.

**Draining.** `IInv` is the conjunction of the first four properties. None but
the first is inductive alone: a crash discards the follow-up, so
`CachedHostIsInPipeline` and `ClosedHostIsTracked` survive it only because the
message it came from is still held (`FollowUpIsHeld`); deleting the message of a
cached host unread keeps `ClosedHostIsTracked` only because the cache is sound
(`CachedHostIsInPipeline`); and deleting a held message keeps it because nothing
is left to be sent at that stage. The proof has one lemma per action for types
and one for the rest of the invariant, in terms of what the action does to
the set of messages that keep a host in the pipeline (`InPipeline`).
`Chains` says more of a drainer that has not failed: a host in the pipeline is
in the cache with time left, so that a first request for it is skipped and
only the message that stands for it already goes on. `Emptied` adds that a
termination message for a Kubernetes node says that it is cordoned and empty; it
needs `Chains`, because a second chain for the host might give up and uncordon it.

**NodeMigration.** `IInv` has four parts. `Tables`: the batch's tables, the arguments of
every process and the events migrated agree, dead processes included, since
it is a dead process's exit code that completes an event. `Recycled`: of the nodes
that an event covers, those its worker has neither selected nor in its chunk are
new already (`RestIsSelected`), and stay new; a covered node had an agent when it
was selected (`SelectedHadAgent`), so that a chunk without it is one that was
replaced. `PauseIsOwned`: a pool is paused only by an event worker that is yet to
enable it or for an event that is not finished. `Timely`: as long as nobody has
overrun, whoever works holds the lock, alone (`Exclusive`); if nothing has failed
either, no agent is lost (`AgentsStay`) and the nodes on their way out are those of
the chunk that is waited for (`LeavingIsChunk`). `ChunkIsSmall`: a chunk has at most `Rate` nodes.

**PoolManager.** `Tally` is the loop invariant of `_choose_nodes_to_prune`: the
accumulators are the sums over the nodes that are marked or left. `Limits` says what
every marked node has been checked against, `OnlyLoaded` that a node is
considered once, `WholeTargets` that targets are whole. `PlansAreBalanced` follows
the rounds of `_compute_new_resource_group_targets`: after each, the sum has moved
by one towards the target, or all groups are at their limits, and no group has
overtaken another by more than one. For
`ServiceIsKeptAtTarget`, `AsLoaded` says that during a run of a quiet pool what is
in service is what the run loaded, without the nodes that were draining and
those that the run has sent away, and `DrainingFirst` that no other node is
marked while a draining one waits to be considered. The capacity that is left
in service is then the accumulator that `PoolAtTarget` compares with the target.

**Autoscaler.** The state's invariant is small (`Pods`, `Aim`, `Pause`); the work is
in the arithmetic. Every case of `_compute_target_capacity` has a lemma that says
between which bounds its result lies, in fractions, and `Constrained` says
where `_constrain_target_capacity` takes it.

**Signals.** `Streams` says for every step of the autoscaler what may be on its
way in both directions of each socket: nothing but the parameters when it is not
talking to the signal (`Quiet`), and otherwise only what belongs to this step of
this run (`Exchange`). `Fresh` covers what a process that died has left behind.
`Ready` and `NoFallback` follow a process from the bootstrap's poll to the
autoscaler's first connection: as long as none has died or was slow, what the poll
saw running listens or is about to. `AnswersItsOwnRun` is step simulation: Init maps to
the contract's Init, and every step is a step of the contract or a stutter.

**Services.** Each service has an invariant and a theorem of its own (`Mm!...`, `Sp!...` etc.),
carried over to the composition. Prices: what a run has come past is in the table, or in the
writer with nothing newer to come, and a market's intervals only go down (`SpInv`).
Maintenance: what a drain has read is still the schedule when it writes, and
windows are disjoint. Connectors: after a reload, every
pod is filed under its own address once (`CcReloaded`), so sums over nodes are
sums over pods (`SumPartition`); pods of an address that is not a node's are among
those that are overlooked. Events: a resource that can be read, and an event
that is listed, have the labels and the condition that were submitted under their
name.
Metrics: the table has one point per time, no point will come late enough to fall
in front of what is cached, and a cache entry holds every point of the table
from its start to the last point it has of a series (`MeState`). A lookup cuts
that at the window's start, and what is read from the table begins where it ends,
so that the answer is the table's series in order. What may be cached ends
`_CACHE_DELAY` before `wall`; in a simulation nothing is written, so that only the
end of a window can be missed. For the history, a non-zero capacity follows a
non-zero total that no earlier capacity follows (`MePasses`), so that a window
between two non-zero capacities has a total, whatever the cache held.

**Simulator.** `CpuInv` says that at every integer time, past or future, the value
of `aws_cpus` and of `mesos_cpus` is the sum over the instances that run, or
have joined, then; it rests on what `add_delta` does to `call`. The fleet's
market counts are a walk over the markets: the capacity that the counts so far
exceed their shares by is at least what is taken off the remaining ones, so
the whole reaches the target. `CostInv` says that `cost_per_hour` is at every
time the sum of the bills of the instances that have ended. A bill is a walk
over the price changes with the invariant `BillStands`: the current period began
at most `Billing` ago on the instance's own grid, all periods up to its end are
charged at the price of their beginning, and the last price known stands for the
rest; `Knows` says that this price is the one at the position of the walk. Earlier
bills stay right because a price never changes in the past. For the reports, the
position of the walk of `values` and `integrals` is what `bisect` gives, an area splits at
the breakpoints, and a combination of two functions is right up to the
next of the merged breakpoints.

**Sums and rounds.** The library's induction theorems take an operator, which the
provers cannot instantiate. `SumTheorems` therefore proves what it needs of
`MapThenSumSet` (that it satisfies its recursion, that a sum splits, grows and
shrinks with its set) and of `FoldLeft` by taking a smallest counterexample, a
set or a number, with the well-foundedness of `<`; so do the rounds of
`_compute_new_resource_group_targets`, the largest of finitely many fractions, the
order of sorted breakpoints and the walks along them.

**Only model-checked.** All liveness properties (`QueuesRunEmpty`, `ClosedHostIsReleased`,
`EventIsMigrated`, `PodsAreScheduled`, `TargetSettles`, `RolledOver`, `SignalAnswersAgain`)
and the fairness in `KeepsContract`: the prover has no rules for fairness. Of the
safety properties, `ServiceKept` of `ResourceGroups`.

## 5. Plan

Done: all components of section 1 but the last are modelled; all safety
properties of the drainer, node migration, the pool manager, the autoscaler, the
signals, the services and the simulator are proved.

Next: `ServiceKept` of `ResourceGroups`, whose invariant has to follow the stale
instances of a group through a run's batches of terminations.

## 6. Not modelled

The command line's printing, plots, market tables, the reading of
configuration, and one-off tools: conversions and I/O without state of their
own. (`tools/dynamodb_rename` deletes and puts points in one batch request: a
crash after the delete was processed and the put was not loses a point.) The
simulator's comparison of two runs. `dry_run`, `force` and `prune=False` of the
pool manager: the first changes nothing, the others are used by the simulator
and by hand. Two pool managers working on one pool at the same time (the CLI
next to the batch). Lists of requests per pod, which leave the target unbound
in `Autoscaler.run`. The pause is written to the configured state table and read
from the default one (`util.py`); both sides are taken to use one table. Floating
point is replaced by integers with a unit, or by fractions. Heterogeneous
nodes in `Autoscaler`: weights that do not fit all resources may make its loop
oscillate, and the code does not guard against it. Pagination where it is
transparent, credentials and name resolution. The workers of a migration batch
that is killed without its container. Races of the maintenance schedule with
other writers.
