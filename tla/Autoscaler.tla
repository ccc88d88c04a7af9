------------------------------ MODULE Autoscaler ------------------------------
(***************************************************************************)
(* The control loop of clusterman/autoscaler/autoscaler.py on a Kubernetes *)
(* pool: pods wait for room, the autoscaler asks its signal how much is    *)
(* needed, computes a target capacity, and instances are launched, join    *)
(* the cluster and are pruned, which changes what the next run sees.       *)
(*                                                                         *)
(* Abstractions.  One resource group whose instances are alike, of weight  *)
(* 1; pods that are alike.  What modify_target_capacity does is kept to    *)
(* its effect on one group, without draining: module PoolManager has its   *)
(* steps, and no_scale_down.  The default signal is the PendingPodsSignal  *)
(* without per_pod_resource_requests; a custom signal answers anything of  *)
(* ClientRequests, or fails.  Floats are pairs <<p, q>> that stand for     *)
(* p / q, percentages are integers.  The time of a pause is reduced to     *)
(* whether it has expired.                                                 *)
(***************************************************************************)
EXTENDS Integers, FiniteSets, FiniteSetsExt

CONSTANTS
  Nodes,             \* instances that may run
  Resources,         \* cpus, mem, ...
  NodeRes,           \* resource -> what a node has of it
  Need,              \* resource -> what a pod needs of it
  ClientRequests,    \* what a custom signal may ask for
  MaxPods,
  setpoint, target_capacity_margin,   \* in percent
  excluded_resources,
  min_capacity, max_capacity,
  max_weight_to_add, max_weight_to_remove, max_tasks_to_kill,
  Prompt,            \* TRUE: a pod for which there is room is scheduled before
                     \* the autoscaler looks at the pool
  MaxChanges,        \* bound on what users change
  MaxFaults          \* bound on failures

None == -1

ASSUME ConstantsAssumption ==
  /\ Nodes \subseteq Nat /\ IsFiniteSet(Nodes) /\ IsFiniteSet(Resources)
  /\ NodeRes \in [Resources -> Nat] /\ Need \in [Resources -> Nat]
  /\ ClientRequests \subseteq [Resources -> Nat \cup {None}]
  /\ setpoint \in Nat \ {0} /\ target_capacity_margin \in Nat
  /\ excluded_resources \subseteq Resources
  /\ min_capacity \in Nat /\ max_capacity \in Nat
  /\ min_capacity =< max_capacity
  /\ max_weight_to_add \in Nat /\ max_weight_to_remove \in Nat
  /\ max_tasks_to_kill \in Nat /\ Prompt \in BOOLEAN
  /\ MaxPods \in Nat /\ MaxChanges \in Nat /\ MaxFaults \in Nat

VARIABLES
  node,     \* "off", "booting", "stuck" (an orphan beyond the uptime
            \* threshold), "up", or "lingering" (the instance is gone, its
            \* Kubernetes node is not)
  tasks,    \* pods of each node
  pending,  \* pods without a node
  target,   \* target capacity of the group
  history,  \* there are metrics of a time when the pool was not empty
  item,     \* AUTOSCALER_PAUSED in the state table: "none", "active", "expired"
  custom,   \* the pool has a signal of its own
  step, new_target_capacity,
  view,     \* the nodes and their tasks at the reload of a run
  late,     \* runs that modified the pool since the present pause began
  changes, faults

pool   == <<node, tasks, pending, target, history>>
run    == <<step, new_target_capacity, view>>
budget == <<changes, faults>>
vars   == <<pool, item, custom, run, late, budget>>

Running == {n \in Nodes : node[n] \in {"booting", "stuck", "up"}}
Joined  == {n \in Nodes : node[n] = "up"}
Agents  == {n \in Nodes : node[n] \in {"up", "lingering"}}

Tasks(S) == MapThenSumSet(LAMBDA n : tasks[n], S)

HasRoom(n) == \A r \in Resources : (tasks[n] + 1) * Need[r] <= NodeRes[r]

-----------------------------------------------------------------------------
(* What the cluster connector and the pool manager report.                  *)

get_resource_total(r) == NodeRes[r] * Cardinality(Agents)

non_orphan_fulfilled_capacity == Cardinality(Joined)

\* _get_pod_unschedulable_reason is InsufficientResources.  Nodes are looked
\* for in _pods_by_ip: those with pods, and those of running instances.
InsufficientResources ==
  \A n \in Agents : node[n] = "up" \/ tasks[n] > 0 => ~HasRoom(n)

\* PendingPodsSignal.evaluate
_get_resource_request ==
  LET pods == Tasks(Agents) + IF InsufficientResources THEN 2 * pending ELSE 0
  IN [r \in Resources |-> pods * Need[r]]

-----------------------------------------------------------------------------
(* The target that a request leads to.                                      *)

Greater(x, y) == x[1] * y[2] > y[1] * x[2]
Largest(S) == CHOOSE x \in S : \A y \in S : ~Greater(y, x)

\* Mutant of autoscaling_is_paused: the expiration is compared the wrong way.
_is_paused_inverted == item = "expired"

\* There is an item, and it has not expired.
autoscaling_is_paused == item = "active"

AllNone(request) == \A r \in Resources : request[r] = None
AllZero(request) == \A r \in Resources : request[r] \in {0, None}

\* What a node of average capacity 1 had of a resource, as far as is known.
_get_historical_weighted_resource_value(r) ==
  IF history THEN NodeRes[r] ELSE 0

\* Scaling up an empty pool.  The excluded resources count here.
FromHistory(request) ==
  LET known == {r \in Resources : _get_historical_weighted_resource_value(r) # 0}
      weighted == {<<IF request[r] = None THEN 0 ELSE request[r],
                     _get_historical_weighted_resource_value(r)>> : r \in known}
      max_weighted_capacity_request == Largest(weighted)
  IN IF known = {} THEN <<1, 1>>
     ELSE <<max_weighted_capacity_request[1] * 100,
            max_weighted_capacity_request[2] * setpoint>>

Requested(request) ==
  {r \in Resources \ excluded_resources : request[r] # None}

usage_pct(request, r) ==
  IF get_resource_total(r) = 0 THEN <<0, 1>>
  ELSE <<request[r], get_resource_total(r)>>

\* Mutant of _get_most_constrained_resource_for_request: the least constrained.
_get_least_constrained_resource_for_request(request) ==
  CHOOSE x \in {usage_pct(request, r) : r \in Requested(request)} :
    \A r \in Requested(request) : ~Greater(x, usage_pct(request, r))

_get_most_constrained_resource_for_request(request) ==
  Largest({usage_pct(request, r) : r \in Requested(request)})

\* Mutant of Rescaled: the present target is scaled.
RescaledTarget(request) ==
  LET usage == _get_most_constrained_resource_for_request(request)
  IN <<target * usage[1] * 100, usage[2] * setpoint>>

\* The joined capacity times the scale factor.
Rescaled(request) ==
  LET usage == _get_most_constrained_resource_for_request(request)
  IN <<non_orphan_fulfilled_capacity * usage[1] * 100, usage[2] * setpoint>>

\* The relative change of the target reaches the margin.
BeyondMargin(x) ==
  LET change == x[1] - target * x[2]
  IN (IF change < 0 THEN -change ELSE change) * 100
       >= target_capacity_margin * target * x[2]

\* The cases of an empty request, an empty pool and a pool nobody has joined.
Special(request) ==
  AllZero(request) \/ target = 0 \/ non_orphan_fulfilled_capacity = 0

\* ResourceRequestError, or the maximum of nothing.
Unanswerable(request) ==
  /\ ~Special(request)
  /\ \/ Requested(request) = {}
     \/ \E r \in Requested(request) :
          get_resource_total(r) = 0 /\ request[r] > 0

_compute_target_capacity(request) ==
  CASE AllNone(request) -> <<target, 1>>
    [] AllZero(request) /\ ~AllNone(request) -> <<0, 1>>
    [] ~AllZero(request) /\ target = 0 -> FromHistory(request)
    [] ~AllZero(request) /\ target > 0 /\ Special(request) -> <<target, 1>>
    [] ~Special(request) -> LET new == Rescaled(request)
                            IN IF BeyondMargin(new) THEN new ELSE <<target, 1>>

Least(a, b) == IF a < b THEN a ELSE b
Greatest(a, b) == IF a > b THEN a ELSE b

\* _constrain_target_capacity, in units of 1 / x[2]; the group's target is
\* then rounded up.
_constrain_target_capacity(x) ==
  LET q == x[2]
      delta == x[1] - target * q
      limited == CASE delta > 0 -> Least((max_capacity - target) * q, delta)
                   [] delta < 0 -> Greatest((min_capacity - target) * q, delta)
                   [] OTHER -> 0
      slowed == IF limited > 0 THEN Least(max_weight_to_add * q, limited)
                ELSE Greatest(-max_weight_to_remove * q, limited)
  IN target + (slowed + q - 1) \div q

\* Pruning counts nodes and tasks as they were at the reload.
SeenJoined == {n \in Nodes : view.node[n] = "up"}
SeenRunning == {n \in Nodes : view.node[n] \in {"booting", "stuck", "up"}}

_is_node_killable(n) ==
  view.tasks[n] = 0 \/ max_tasks_to_kill > view.tasks[n]

\* Orphans first, then nodes with fewer tasks; nodes do not differ in staleness,
\* in whether min_node_scalein_uptime is over, and in batch tasks.
_prioritize_killable_nodes(m, n) ==
  /\ n \in SeenJoined
  /\ m \notin SeenJoined \/ view.tasks[m] < view.tasks[n]

\* Mutant of MayKill: tasks are not counted.
MayKillTasks(K, t) ==
  /\ Cardinality(K) <= max_weight_to_remove
  /\ K # {} => Cardinality(SeenRunning) - Cardinality(K) >= t
  /\ K \cap SeenJoined # {} => Cardinality(SeenJoined \ K) >= t

\* The killable nodes and the limits of _choose_nodes_to_prune.
MayKill(K, t) ==
  /\ Cardinality(K) <= max_weight_to_remove
  /\ K # {} => Cardinality(SeenRunning) - Cardinality(K) >= t
  /\ \A n \in K : _is_node_killable(n)
  /\ MapThenSumSet(LAMBDA n : view.tasks[n], K) <= max_tasks_to_kill
  /\ K \cap SeenJoined # {} => Cardinality(SeenJoined \ K) >= t

\* The instances of the reload that are still running are marked one by one as
\* long as the limits allow: none could be added, and none gives way to one that
\* comes later.
_choose_nodes_to_prune(t) ==
  {K \in SUBSET (Running \cap SeenRunning) :
     /\ MayKill(K, t)
     /\ \A m \in (Running \cap SeenRunning) \ K :
          /\ ~MayKill(K \cup {m}, t)
          /\ \A n \in K : _prioritize_killable_nodes(m, n) =>
               ~MayKill((K \ {n}) \cup {m}, t)}

-----------------------------------------------------------------------------
NoView == [node |-> [n \in Nodes |-> "off"], tasks |-> [n \in Nodes |-> 0]]

Init ==
  /\ node = [n \in Nodes |-> "off"] /\ tasks = [n \in Nodes |-> 0]
  /\ pending \in 0..MaxPods /\ target = min_capacity /\ history \in BOOLEAN
  /\ item = "none" /\ custom \in BOOLEAN
  /\ step = "idle" /\ new_target_capacity = 0 /\ view = NoView
  /\ late = 0
  /\ changes = MaxChanges /\ faults = MaxFaults

Change == changes > 0 /\ changes' = changes - 1 /\ UNCHANGED faults
Fault == faults > 0 /\ faults' = faults - 1 /\ UNCHANGED changes

-----------------------------------------------------------------------------
(* Users, Kubernetes and AWS.                                               *)

PodCreated ==
  /\ pending + Tasks(Nodes) < MaxPods
  /\ Change
  /\ pending' = pending + 1
  /\ UNCHANGED <<node, tasks, target, history, item, custom, run, late>>

PodDeleted(n) ==
  /\ tasks[n] > 0
  /\ Change
  /\ tasks' = [tasks EXCEPT ![n] = @ - 1]
  /\ UNCHANGED <<node, pending, target, history, item, custom, run, late>>

PodScheduled(n) ==
  /\ pending > 0 /\ node[n] = "up" /\ HasRoom(n)
  /\ pending' = pending - 1
  /\ tasks' = [tasks EXCEPT ![n] = @ + 1]
  /\ UNCHANGED <<node, target, history, item, custom, run, late, budget>>

Free(n) == node[n] = "off" /\ view.node[n] = "off"

\* The names of instances are interchangeable: the lowest one is taken that is
\* free and that a run does not know.
InstanceLaunched ==
  /\ Cardinality(Running) < target
  /\ \E n \in Nodes :
       /\ Free(n) /\ \A m \in Nodes : m < n => ~Free(m)
       /\ node' = [node EXCEPT ![n] = "booting"]
  /\ UNCHANGED <<tasks, pending, target, history, item, custom, run, late,
                 budget>>

NodeJoins(n) ==
  /\ node[n] \in {"booting", "stuck"}
  /\ node' = [node EXCEPT ![n] = "up"]
  /\ UNCHANGED <<tasks, pending, target, history, item, custom, run, late,
                 budget>>

NodeStuck(n) ==
  /\ node[n] = "booting"
  /\ Fault
  /\ node' = [node EXCEPT ![n] = "stuck"]
  /\ UNCHANGED <<tasks, pending, target, history, item, custom, run, late>>

InstanceLost(n) ==
  /\ node[n] = "up"
  /\ Fault
  /\ node' = [node EXCEPT ![n] = "lingering"]
  /\ UNCHANGED <<tasks, pending, target, history, item, custom, run, late>>

\* Kubernetes removes the node; its pods are created anew.
NodeRemoved(n) ==
  /\ node[n] = "lingering"
  /\ node' = [node EXCEPT ![n] = "off"]
  /\ pending' = pending + tasks[n]
  /\ tasks' = [tasks EXCEPT ![n] = 0]
  /\ UNCHANGED <<target, history, item, custom, run, late, budget>>

MetricsCollected ==
  /\ ~history /\ Joined # {}
  /\ history' = TRUE
  /\ UNCHANGED <<node, tasks, pending, target, item, custom, run, late, budget>>

-----------------------------------------------------------------------------
(* The pause of the autoscaler.                                             *)

disable_autoscaling ==
  /\ Change
  /\ item' = "active"
  /\ late' = IF item = "active" THEN late ELSE 0
  /\ UNCHANGED <<pool, custom, run>>

enable_autoscaling ==
  /\ item # "none"
  /\ item' = "none" /\ late' = 0
  /\ UNCHANGED <<pool, custom, run, budget>>

PauseExpires ==
  /\ item = "active"
  /\ item' = "expired" /\ late' = 0
  /\ UNCHANGED <<pool, custom, run, budget>>

-----------------------------------------------------------------------------
(* A run.                                                                   *)

\* The end of a run: sensu_alert_triage swallows exceptions, and
\* AutoscalerBatch.run goes on.
Return ==
  /\ step' = "idle"
  /\ new_target_capacity' = 0
  /\ view' = NoView

\* A paused run returns at once.
Start ==
  /\ step = "idle"
  /\ ~autoscaling_is_paused
  /\ step' = "started"
  /\ UNCHANGED <<pool, item, custom, new_target_capacity, view, late,
                 budget>>

\* reload_state, and the target for the request unless computing it raises an
\* exception.
Decide(request) ==
  /\ Prompt /\ pending > 0 => \A n \in Joined : ~HasRoom(n)
  /\ IF Unanswerable(request)
     THEN Return
     ELSE /\ step' = "computed"
          /\ \E x \in {_compute_target_capacity(request)} :
               new_target_capacity' = _constrain_target_capacity(x)
          /\ view' = [node |-> node, tasks |-> tasks]

\* The custom signal answers.
EvaluateSignal ==
  /\ step = "started" /\ custom
  /\ Change
  /\ \E request \in ClientRequests : Decide(request)
  /\ UNCHANGED <<pool, item, custom, late>>

\* Mutant of EvaluateDefaultSignal: a failure of the custom signal ends the
\* run.
EvaluateOwnSignal ==
  /\ step = "started"
  /\ IF custom THEN Return ELSE Decide(_get_resource_request)
  /\ UNCHANGED <<pool, item, custom, late, budget>>

\* There is no custom signal, or it fails.  (Its exception is raised again
\* after the pool has been modified.)
EvaluateDefaultSignal ==
  /\ step = "started"
  /\ Decide(_get_resource_request)
  /\ UNCHANGED <<pool, item, custom, late, budget>>

\* The default signal fails too, or the pool cannot be loaded or modified.
RunFails ==
  /\ step # "idle"
  /\ Fault
  /\ Return
  /\ UNCHANGED <<pool, item, custom, late>>

\* An instance that is terminated leaves its Kubernetes node behind, if it has
\* one.
Terminated(K) ==
  [n \in Nodes |-> CASE n \notin K -> node[n]
                     [] n \in K \cap Agents -> "lingering"
                     [] n \in K \ Agents -> "off"]

\* An orphan that has joined since the reload is terminated all the same.  An
\* error does not end the run.
terminate_expired_orphan_instances ==
  /\ step = "computed"
  /\ step' = "recycled"
  /\ \/ /\ node' = Terminated({n \in Running : view.node[n] = "stuck"})
        /\ UNCHANGED budget
     \/ Fault /\ UNCHANGED node
  /\ UNCHANGED <<tasks, pending, target, history, item, custom,
                 new_target_capacity, view, late>>

\* The target is set, and nodes are pruned unless that fails.
modify_target_capacity ==
  /\ step = "recycled"
  /\ Return
  /\ target' = new_target_capacity
  /\ \/ /\ \E K \in _choose_nodes_to_prune(target') : node' = Terminated(K)
        /\ UNCHANGED budget
     \/ Fault /\ UNCHANGED node
  /\ late' = IF item = "active" THEN late + 1 ELSE late
  /\ UNCHANGED <<tasks, pending, history, item, custom>>

RunStep ==
  \/ Start \/ EvaluateDefaultSignal
  \/ terminate_expired_orphan_instances \/ modify_target_capacity

Next ==
  \/ RunStep
  \/ EvaluateSignal
  \/ RunFails
  \/ PodCreated \/ InstanceLaunched \/ MetricsCollected
  \/ \E n \in Nodes :
       \/ PodDeleted(n) \/ PodScheduled(n) \/ NodeJoins(n) \/ NodeStuck(n)
       \/ InstanceLost(n) \/ NodeRemoved(n)
  \/ disable_autoscaling \/ enable_autoscaling \/ PauseExpires

Spec == Init /\ [][Next]_vars

\* The batch runs for ever and a pause expires; AWS launches what it is asked
\* for, an instance joins unless it is stuck, and Kubernetes schedules pods and
\* removes nodes without an instance.
Fairness ==
  /\ WF_vars(RunStep)
  /\ WF_vars(PauseExpires)
  /\ WF_vars(InstanceLaunched)
  /\ WF_vars(\E n \in Nodes : node[n] = "booting" /\ NodeJoins(n))
  /\ WF_vars(\E n \in Nodes : NodeRemoved(n))
  /\ WF_vars(\E n \in Nodes : PodScheduled(n))

FairSpec == Spec /\ Fairness

-----------------------------------------------------------------------------
(* Properties.                                                              *)

TypeOK ==
  /\ node \in [Nodes -> {"off", "booting", "stuck", "up", "lingering"}]
  /\ tasks \in [Nodes -> 0..MaxPods] /\ pending \in 0..MaxPods
  /\ target \in min_capacity..max_capacity
  /\ history \in BOOLEAN /\ item \in {"none", "active", "expired"}
  /\ custom \in BOOLEAN
  /\ step \in {"idle", "started", "computed", "recycled"}
  /\ new_target_capacity \in 0..max_capacity
  /\ view \in [node : [Nodes -> {"off", "booting", "stuck", "up", "lingering"}],
               tasks : [Nodes -> 0..MaxPods]]
  /\ late \in Nat /\ changes \in 0..MaxChanges /\ faults \in 0..MaxFaults

\* The requests a run may be given now and can answer, and where it then aims.
Answerable ==
  {request \in IF step = "started" THEN ClientRequests \cup {_get_resource_request}
               ELSE {} : ~Unanswerable(request)}
Aims(request) ==
  {_constrain_target_capacity(x) : x \in {_compute_target_capacity(request)}}

\* The nodes that have joined are those Kubernetes knows.
InSync == Joined # {} /\ Agents = Joined

\* Autoscaler._compute_target_capacity never aims too low: unless a limit on
\* the size or the growth of the pool stops it, a pool of the capacity it aims
\* at has the requested amount of every resource that counts, at a usage that
\* exceeds the setpoint by at most the margin.  Claimed when the connector and
\* AWS agree, or when the pool is empty and there is history.
RequestIsCovered ==
  \A request \in Answerable : \A aim \in Aims(request) :
    (IF target = 0 THEN history ELSE InSync) =>
      \/ aim >= max_capacity
      \/ aim >= target + max_weight_to_add
      \/ \A r \in Requested(request) :
           \/ target = 0 /\ NodeRes[r] = 0
           \/ request[r] * 10000 <= aim * NodeRes[r] * setpoint
                                     * (100 + target_capacity_margin)

\* Nor does it aim too high: with one unit of capacity less, or the margin
\* less, some resource would be above the setpoint, unless a limit stops the
\* pool from shrinking or the request is to leave it alone.
RequestIsNotExceeded ==
  \A request \in Answerable : \A aim \in Aims(request) :
    ~AllNone(request) /\ (target = 0 \/ InSync) =>
      \/ aim <= min_capacity
      \/ aim <= target - max_weight_to_remove
      \/ target = 0 /\ ~history /\ aim = 1
      \/ \E r \in IF target = 0 THEN Resources ELSE Requested(request) :
           \/ request[r] * 100 > (aim - 1) * NodeRes[r] * setpoint
           \/ /\ aim = target
              /\ request[r] * 10000 > target * NodeRes[r] * setpoint
                                      * (100 - target_capacity_margin)

\* The pause is looked at once, at the start of Autoscaler.run: when it begins,
\* a run that is under way may still modify the pool, but no second one does.
OneRunAfterPause == late <= 1

\* When users leave the pool alone, every pod finds a node, even if the custom
\* signal fails in every run, instances were stuck or lost, runs failed, and
\* pods do not fill up the nodes.
PodsAreScheduled == <>[](pending = 0)

\* And the autoscaler comes to rest: the loop of target, joined capacity and
\* request does not oscillate.  (With max_tasks_to_kill = 0; see README.)
TargetSettles == <>[][target' = target]_vars
===============================================================================
