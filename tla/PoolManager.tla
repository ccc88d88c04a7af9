----------------------------- MODULE PoolManager -----------------------------
(***************************************************************************)
(* The pool manager (clusterman/autoscaler/pool_manager.py) as             *)
(* Autoscaler.run (clusterman/autoscaler/autoscaler.py) drives it.         *)
(*                                                                         *)
(* One run loads the state of the pool, may terminate expired orphans,     *)
(* constrains the requested capacity, spreads it over the resource groups, *)
(* modifies the groups one by one, chooses nodes to prune one by one, and  *)
(* submits them for draining (or terminates them, if the pool does not     *)
(* drain).  AWS, the cluster and the drainer go on meanwhile: what a run   *)
(* has loaded may be stale when it is used.                                *)
(*                                                                         *)
(* Abstractions.  Capacities are integers; Unit of them make a capacity of *)
(* 1, so that a request may fall between two whole capacities.  The parts  *)
(* of the sort key that do not change within a few runs (staleness and     *)
(* uptime of an instance) are one constant Rank.  The request is what the  *)
(* signal and _compute_target_capacity, the CLI or a migration worker came *)
(* up with.  dry_run changes nothing, and force and prune=False are only   *)
(* used by the simulator: they are left out.  ASGs have no stale instances *)
(* here.  The drainer is module Draining.                                  *)
(***************************************************************************)
EXTENDS Integers, FiniteSets, FiniteSetsExt

CONSTANTS
  Groups,          \* resource groups, numbered in the order of their ids
  FleetChoices,    \* which of them may be spot fleets, and not ASGs
  Nodes,           \* instances that are running or may be launched
  GroupOf,         \* node -> group
  Weight,          \* node -> weight of its market
  GroupMin,        \* group -> min_capacity
  GroupMax,        \* group -> max_capacity
  Cordoned,        \* instances with the EC2 tag is_cordoned
  Unsafe,          \* nodes that run a pod that is not safe to evict
  Rank,            \* node -> its is_stale and uptime as far as sorting goes
  BatchNodes,      \* nodes whose tasks are batch tasks
  Unit,
  min_capacity, max_capacity,
  max_tasks_to_kill, max_weight_to_add, max_weight_to_remove,
  recycle_orphan_instances,
  prevent_scale_down_after_capacity_loss, instance_loss_threshold,
  Requests,        \* the capacities that are asked for
  MaxTasks,        \* bound on the tasks of a node
  MaxRuns, MaxChanges, MaxFaults,
  Quiet            \* TRUE: no node joins and the drainer does nothing during
                   \* a run, and it taints what it was given before the next

ASSUME ConstantsAssumption ==
  /\ Groups \subseteq Nat /\ FleetChoices \subseteq SUBSET Groups
  /\ IsFiniteSet(Groups) /\ IsFiniteSet(Nodes)
  /\ GroupOf \in [Nodes -> Groups]
  /\ Weight \in [Nodes -> Nat] /\ Rank \in [Nodes -> Nat]
  /\ GroupMin \in [Groups -> Nat] /\ GroupMax \in [Groups -> Nat]
  /\ Cordoned \subseteq Nodes /\ Unsafe \subseteq Nodes
  /\ BatchNodes \subseteq Nodes
  /\ Unit \in Nat \ {0}
  /\ min_capacity \in Nat /\ max_capacity \in Nat
  /\ max_tasks_to_kill \in Nat
  /\ max_weight_to_add \in Nat /\ max_weight_to_remove \in Nat
  /\ recycle_orphan_instances \in BOOLEAN
  /\ prevent_scale_down_after_capacity_loss \in BOOLEAN
  /\ instance_loss_threshold \in Nat
  /\ Requests \subseteq Nat
  /\ MaxTasks \in Nat /\ MaxRuns \in Nat /\ MaxChanges \in Nat
  /\ MaxFaults \in Nat /\ Quiet \in BOOLEAN

VARIABLES
  alive,     \* AWS: the instances of the groups
  target,    \* AWS: the target capacity of each group
  cancelled, \* AWS: the fleets that have been cancelled
  agent,     \* cluster: "up", "orphaned" or "unknown" for each node
  tasks,     \* cluster: the number of tasks of each node
  drain,     \* drainer: "no", "submitted" or "draining" for each node
  draining_enabled, fleets,   \* configuration: it does not change
  step,      \* how far the run is
  view,      \* what reload_state has loaded
  known,     \* agents at the last reload
  no_scale_down,
  new_target_capacity,
  group_targets,
  todo,      \* groups still to be modified
  killable,  \* prioritized_killable_nodes that have not been considered
  marked,    \* marked_nodes
  unsent,    \* those that have not been submitted or terminated yet
  rem_group_capacities, remaining_non_orphan_capacity, curr_capacity,
  killed_task_count, removed_weight,
  runs, changes, faults

aws     == <<alive, target, cancelled>>
cluster == <<agent, tasks, drain>>
config  == <<draining_enabled, fleets>>
loaded  == <<view, known, no_scale_down>>
goal    == <<new_target_capacity, group_targets, todo>>
pruning == <<killable, marked, unsent, rem_group_capacities,
             remaining_non_orphan_capacity, curr_capacity, killed_task_count,
             removed_weight>>
budget  == <<runs, changes, faults>>
vars    == <<aws, cluster, config, step, loaded, goal, pruning, budget>>

Capacity(S) == MapThenSumSet(LAMBDA n : Weight[n], S)
Total(f, S) == MapThenSumSet(LAMBDA g : f[g], S)
InGroup(S, g) == {n \in S : GroupOf[n] = g}

-----------------------------------------------------------------------------
(* What a run knows: the state at its reload.                               *)

NonStale == Groups \ view.cancelled

\* The properties target_capacity, fulfilled_capacity and
\* non_orphan_fulfilled_capacity.
target_capacity == Total(view.target, NonStale)
fulfilled_capacity == Capacity(view.ids)
non_orphan_fulfilled_capacity ==
  Capacity({n \in view.ids : view.agent[n] = "up"})

-----------------------------------------------------------------------------
(* The arithmetic of a run.                                                 *)

Least(a, b) == IF a < b THEN a ELSE b
Greatest(a, b) == IF a > b THEN a ELSE b

_constrain_target_capacity(requested) ==
  LET requested_delta == requested - target_capacity
      limited == CASE requested_delta > 0 ->
                        Least(max_capacity - target_capacity, requested_delta)
                   [] requested_delta < 0 ->
                        Greatest(min_capacity - target_capacity, requested_delta)
                   [] OTHER -> 0
      slowed == IF limited > 0 THEN Least(max_weight_to_add, limited)
                ELSE Greatest(-max_weight_to_remove, limited)
  IN target_capacity + (IF no_scale_down THEN Greatest(slowed, 0) ELSE slowed)

\* int(), which as a mutant of Ceiling rounds the wrong way.
Floor(c) == (c \div Unit) * Unit

\* math.ceil
Ceiling(c) == ((c + Unit - 1) \div Unit) * Unit

\* One capacity at a time goes to (or is taken from) the group that has the
\* least (or the most), the first such by id, until the sum reaches the new
\* target, rounded up, or every group is constrained.  A stale group's target is 0.
_compute_new_resource_group_targets(new) ==
  LET coeff == IF new < target_capacity THEN -1 ELSE 1
      start == [g \in Groups |-> IF g \in NonStale THEN view.target[g] ELSE 0]
      is_constrained(t, g) ==
        IF coeff > 0 THEN t[g] + Unit > GroupMax[g]
        ELSE t[g] - Unit < GroupMin[g]
      Before(t, g, h) == \/ coeff * t[g] < coeff * t[h]
                         \/ t[g] = t[h] /\ g <= h
      gap == coeff * (Ceiling(new) - target_capacity)
      steps == Greatest((gap + Unit - 1) \div Unit, 0)
      targets[i \in 0..steps] ==
        IF i = 0 THEN start
        ELSE LET t == targets[i - 1]
                 free == {g \in NonStale : ~is_constrained(t, g)}
             IN IF free = {} THEN t
                ELSE LET first == CHOOSE g \in free :
                                    \A h \in free : Before(t, g, h)
                     IN [t EXCEPT ![first] = @ + coeff * Unit]
  IN targets[steps]

\* An orphan has no pods: it is always safe to kill.
_is_node_killable(n) ==
  /\ view.agent[n] # "unknown"
  /\ view.agent[n] = "up" => n \notin Unsafe
  /\ n \notin Cordoned
  /\ max_tasks_to_kill > view.tasks[n] \/ view.tasks[n] = 0

\* Mutant of _sort_key: draining nodes are nothing special.
_sort_key_undrained(n) ==
  <<IF view.agent[n] = "orphaned" THEN 0 ELSE 1,
    Rank[n],
    IF view.agent[n] = "up" /\ view.tasks[n] = 0 THEN 0 ELSE 1,
    IF n \in BatchNodes THEN view.tasks[n] ELSE 0,
    view.tasks[n]>>

_sort_key(n) ==
  <<IF n \in view.draining THEN 0 ELSE 1,
    IF view.agent[n] = "orphaned" THEN 0 ELSE 1,
    Rank[n],
    IF view.agent[n] = "up" /\ view.tasks[n] = 0 THEN 0 ELSE 1,
    IF n \in BatchNodes THEN view.tasks[n] ELSE 0,
    view.tasks[n]>>

\* a is considered before b; equals come in the order AWS lists them in.
MoreKillable(a, b) ==
  LET ka == _sort_key(a)
      kb == _sort_key(b)
  IN \E i \in DOMAIN ka : ka[i] < kb[i] /\ \A j \in 1..(i - 1) : ka[j] = kb[j]

-----------------------------------------------------------------------------
\* The memory of a run that has not begun or has ended.
NoView == [ids |-> {}, target |-> [g \in Groups |-> 0], cancelled |-> {},
           agent |-> [n \in Nodes |-> "unknown"],
           tasks |-> [n \in Nodes |-> 0], draining |-> {}]

NoTargets == [g \in Groups |-> 0]

Agents == {n \in alive : agent[n] = "up"}

\* The pool starts with some of its nodes up, busy or not, some of them
\* orphans, and every group at its target, which AWS keeps as a whole number.
Init ==
  /\ alive \in SUBSET Nodes
  /\ target = [g \in Groups |-> Floor(Capacity(InGroup(alive, g)))]
  /\ cancelled = {}
  /\ agent \in [Nodes -> {"up", "orphaned", "unknown"}]
  /\ \A n \in Nodes : agent[n] = "unknown" <=> n \notin alive
  /\ tasks \in [Nodes -> 0..MaxTasks]
  /\ \A n \in Nodes : tasks[n] > 0 => agent[n] = "up"
  /\ drain = [n \in Nodes |-> "no"]
  /\ draining_enabled \in BOOLEAN /\ fleets \in FleetChoices
  /\ step = "idle"
  /\ view = NoView /\ known = Cardinality(Agents) /\ no_scale_down = FALSE
  /\ new_target_capacity = 0 /\ group_targets = NoTargets /\ todo = {}
  /\ killable = {} /\ marked = {} /\ unsent = {}
  /\ rem_group_capacities = NoTargets
  /\ remaining_non_orphan_capacity = 0 /\ curr_capacity = 0
  /\ killed_task_count = 0 /\ removed_weight = 0
  /\ runs = MaxRuns /\ changes = MaxChanges /\ faults = MaxFaults

Change == changes > 0 /\ changes' = changes - 1
Fault == faults > 0 /\ faults' = faults - 1

-----------------------------------------------------------------------------
(* AWS, the cluster and the drainer.                                        *)

run == <<config, step, loaded, goal, pruning, runs>>

\* A group below its target launches an instance, which joins the cluster
\* some time later.
InstanceLaunched(n) ==
  /\ n \notin alive
  /\ GroupOf[n] \notin cancelled
  /\ Capacity(InGroup(alive, GroupOf[n])) < target[GroupOf[n]]
  /\ Change
  /\ alive' = alive \cup {n}
  /\ agent' = [agent EXCEPT ![n] = "orphaned"]
  /\ UNCHANGED <<target, cancelled, tasks, drain, run, faults>>

AgentJoins(n) ==
  /\ n \in alive /\ agent[n] = "orphaned"
  /\ Quiet => step = "idle"
  /\ Change
  /\ agent' = [agent EXCEPT ![n] = "up"]
  /\ UNCHANGED <<aws, tasks, drain, run, faults>>

\* No new task is scheduled to a node with the termination taint.
TasksChange(n, k) ==
  /\ n \in alive /\ agent[n] = "up" /\ k # tasks[n]
  /\ drain[n] = "draining" \/ (Quiet /\ drain[n] # "no") => k < tasks[n]
  /\ Change
  /\ tasks' = [tasks EXCEPT ![n] = k]
  /\ UNCHANGED <<aws, agent, drain, run, faults>>

Gone(S) ==
  /\ alive' = alive \ S
  /\ agent' = [n \in Nodes |-> IF n \in S THEN "unknown" ELSE agent[n]]
  /\ tasks' = [n \in Nodes |-> IF n \in S THEN 0 ELSE tasks[n]]
  /\ drain' = [n \in Nodes |-> IF n \in S THEN "no" ELSE drain[n]]

InstanceLost(n) ==
  /\ n \in alive
  /\ Fault
  /\ Gone({n})
  /\ UNCHANGED <<target, cancelled, run, changes>>

FleetsCancelled(S) ==
  /\ S \cap cancelled = {} /\ S # {}
  /\ Fault
  /\ cancelled' = cancelled \cup S
  /\ UNCHANGED <<alive, target, cluster, run, changes>>

DrainerTaints(n) ==
  /\ drain[n] = "submitted" /\ agent[n] = "up"
  /\ Quiet => step = "idle"
  /\ drain' = [drain EXCEPT ![n] = "draining"]
  /\ UNCHANGED <<aws, agent, tasks, run, changes, faults>>

DrainerTerminates(n) ==
  /\ drain[n] # "no"
  /\ Quiet => step = "idle"
  /\ Gone({n})
  /\ UNCHANGED <<target, cancelled, run, changes, faults>>

DrainerGivesUp(n) ==
  /\ drain[n] = "draining"
  /\ Quiet => step = "idle"
  /\ Change
  /\ drain' = [drain EXCEPT ![n] = "no"]
  /\ UNCHANGED <<aws, agent, tasks, run, faults>>

-----------------------------------------------------------------------------
(* A run.                                                                   *)

\* Autoscaler.run: reload_state, and whether capacity was lost since the last
\* reload.
reload_state ==
  /\ step = "idle" /\ runs > 0
  /\ Quiet => \A n \in Agents : drain[n] # "submitted"
  /\ runs' = runs - 1
  /\ step' = "loaded"
  /\ view' = [ids |-> alive,
              target |-> [g \in Groups |-> IF g \in cancelled THEN 0 ELSE target[g]],
              cancelled |-> cancelled, agent |-> agent, tasks |-> tasks,
              draining |-> {n \in alive : drain[n] = "draining"}]
  /\ known' = Cardinality(Agents)
  /\ no_scale_down' = /\ prevent_scale_down_after_capacity_loss
                      /\ known - Cardinality(Agents) > instance_loss_threshold
  /\ UNCHANGED <<aws, cluster, config, goal, pruning, changes, faults>>

\* An instance whose agent has not been seen is terminated once it is old
\* enough; whether it has joined the cluster since the reload is not looked at.
get_expired_orphan_instances ==
  {n \in view.ids \cap alive : view.agent[n] = "orphaned"} \ Cordoned

terminate_expired_orphan_instances ==
  /\ recycle_orphan_instances
  /\ step = "loaded"
  /\ step' = "recycled"
  /\ \E expired \in SUBSET get_expired_orphan_instances : Gone(expired)
  /\ UNCHANGED <<target, cancelled, config, loaded, goal, pruning,
                 budget>>

\* The end of a run, by its last statement or an exception.
Return ==
  /\ step' = "idle"
  /\ view' = NoView /\ no_scale_down' = FALSE
  /\ new_target_capacity' = 0 /\ group_targets' = NoTargets /\ todo' = {}
  /\ killable' = {} /\ marked' = {} /\ unsent' = {}
  /\ rem_group_capacities' = NoTargets
  /\ remaining_non_orphan_capacity' = 0 /\ curr_capacity' = 0
  /\ killed_task_count' = 0 /\ removed_weight' = 0
  /\ UNCHANGED <<known, config>>

Ready == step = IF recycle_orphan_instances THEN "recycled" ELSE "loaded"

\* target_capacity raises AllResourceGroupsAreStaleError.
AllStale ==
  /\ Ready
  /\ NonStale = {}
  /\ Return
  /\ UNCHANGED <<aws, cluster, budget>>

modify_target_capacity(requested) ==
  /\ Ready
  /\ NonStale # {}
  /\ step' = "modify"
  /\ new_target_capacity' = _constrain_target_capacity(requested)
  /\ group_targets' = _compute_new_resource_group_targets(new_target_capacity')
  /\ todo' = {g \in Groups : group_targets'[g] # view.target[g]}
  /\ UNCHANGED <<aws, cluster, config, loaded, pruning, budget>>

\* A fleet's error is a ResourceGroupError, and the loop goes on; that of an
\* ASG is not caught.
ModifyGroup(g) ==
  /\ step = "modify"
  /\ g \in todo
  /\ \/ /\ target' = [target EXCEPT ![g] = group_targets[g]]
        /\ todo' = todo \ {g}
        /\ UNCHANGED <<config, step, loaded, new_target_capacity,
                       group_targets, pruning, faults>>
     \/ /\ Fault
        /\ g \in fleets
        /\ todo' = todo \ {g}
        /\ UNCHANGED <<target, config, step, loaded,
                       new_target_capacity, group_targets, pruning>>
     \/ /\ Fault
        /\ g \notin fleets
        /\ Return
        /\ UNCHANGED target
  /\ UNCHANGED <<alive, cancelled, cluster, runs, changes>>

\* _choose_nodes_to_prune, up to its loop.  The capacities are those of the
\* reload, the nodes those that AWS still lists.
StartPruning ==
  /\ step = "modify" /\ todo = {}
  /\ fulfilled_capacity > new_target_capacity
  /\ step' = "prune"
  /\ killable' = {n \in view.ids \cap alive : _is_node_killable(n)}
  /\ curr_capacity' = fulfilled_capacity
  /\ remaining_non_orphan_capacity' = non_orphan_fulfilled_capacity
  /\ rem_group_capacities' = [g \in Groups |-> Capacity(InGroup(view.ids, g))]
  /\ UNCHANGED <<aws, cluster, config, loaded, goal, marked,
                 unsent, killed_task_count, removed_weight, budget>>

NothingToPrune ==
  /\ step = "modify" /\ todo = {}
  /\ fulfilled_capacity <= new_target_capacity
  /\ Return
  /\ UNCHANGED <<aws, cluster, budget>>

\* Mutant of PoolAtTarget: orphans count as capacity.
PoolAtTargetWithOrphans(n) ==
  /\ view.agent[n] # "orphaned"
  /\ curr_capacity - Weight[n] < new_target_capacity

\* The four cases in which a node is left alone.
OverMaxWeight(n) == Weight[n] + removed_weight > max_weight_to_remove
GroupAtTarget(n) ==
  rem_group_capacities[GroupOf[n]] - Weight[n] < group_targets[GroupOf[n]]
OverMaxTasks(n) == killed_task_count + view.tasks[n] > max_tasks_to_kill
PoolAtTarget(n) ==
  /\ view.agent[n] # "orphaned"
  /\ remaining_non_orphan_capacity - Weight[n] < new_target_capacity

Spared(n) ==
  OverMaxWeight(n) \/ GroupAtTarget(n) \/ OverMaxTasks(n) \/ PoolAtTarget(n)

Considered(n) ==
  /\ step = "prune"
  /\ curr_capacity > new_target_capacity
  /\ n \in killable
  /\ \A o \in killable : ~MoreKillable(o, n)
  /\ killable' = killable \ {n}
  /\ UNCHANGED <<aws, cluster, config, step, loaded, goal, unsent,
                 budget>>

Skip(n) ==
  /\ Considered(n)
  /\ Spared(n)
  /\ UNCHANGED <<marked, rem_group_capacities, remaining_non_orphan_capacity,
                 curr_capacity, killed_task_count, removed_weight>>

Mark(n) ==
  /\ Considered(n)
  /\ ~Spared(n)
  /\ marked' = marked \cup {n}
  /\ rem_group_capacities' =
       [rem_group_capacities EXCEPT ![GroupOf[n]] = @ - Weight[n]]
  /\ curr_capacity' = curr_capacity - Weight[n]
  /\ killed_task_count' = killed_task_count + view.tasks[n]
  /\ removed_weight' = removed_weight + Weight[n]
  /\ remaining_non_orphan_capacity' =
       remaining_non_orphan_capacity
         - (IF view.agent[n] = "orphaned" THEN 0 ELSE Weight[n])

\* The loop ends, by its break or because no node is left.
EnoughMarked ==
  /\ step = "prune"
  /\ curr_capacity <= new_target_capacity \/ killable = {}
  /\ step' = "submit"
  /\ unsent' = marked
  /\ UNCHANGED <<aws, cluster, config, loaded, goal, killable, marked,
                 rem_group_capacities, remaining_non_orphan_capacity,
                 curr_capacity, killed_task_count, removed_weight, budget>>

\* prune_excess_fulfilled_capacity: each marked node is submitted; a node that
\* is submitted again is told apart by the drainer.
submit_for_draining(n) ==
  /\ step = "submit" /\ draining_enabled
  /\ n \in unsent
  /\ unsent' = unsent \ {n}
  /\ drain' = [drain EXCEPT ![n] = IF n \in alive /\ @ = "no" THEN "submitted"
                                   ELSE @]
  /\ UNCHANGED <<aws, agent, tasks, config, step, loaded, goal, killable,
                 marked, rem_group_capacities, remaining_non_orphan_capacity,
                 curr_capacity, killed_task_count, removed_weight, budget>>

terminate_instances_by_id(g) ==
  /\ step = "submit" /\ ~draining_enabled
  /\ InGroup(unsent, g) # {}
  /\ unsent' = unsent \ InGroup(unsent, g)
  /\ Gone(InGroup(unsent, g))
  /\ UNCHANGED <<target, cancelled, config, step, loaded, goal, killable,
                 marked, rem_group_capacities, remaining_non_orphan_capacity,
                 curr_capacity, killed_task_count, removed_weight, budget>>

\* Everything has been submitted, or a request to SQS or AWS failed.
EndRun ==
  /\ step = "submit"
  /\ IF unsent = {} THEN UNCHANGED faults ELSE Fault
  /\ Return
  /\ UNCHANGED <<aws, cluster, runs, changes>>

-----------------------------------------------------------------------------
Environment ==
  \/ \E n \in Nodes : \/ InstanceLaunched(n)
                      \/ AgentJoins(n)
                      \/ \E k \in 0..MaxTasks : TasksChange(n, k)
                      \/ InstanceLost(n)
                      \/ DrainerTaints(n)
                      \/ DrainerTerminates(n)
                      \/ DrainerGivesUp(n)
  \/ \E S \in SUBSET fleets : FleetsCancelled(S)

Run ==
  \/ reload_state
  \/ terminate_expired_orphan_instances
  \/ AllStale
  \/ \E requested \in Requests : modify_target_capacity(requested)
  \/ \E g \in Groups : ModifyGroup(g)
  \/ StartPruning
  \/ NothingToPrune
  \/ \E n \in Nodes : Skip(n) \/ Mark(n)
  \/ EnoughMarked
  \/ \E n \in Nodes : submit_for_draining(n)
  \/ \E g \in Groups : terminate_instances_by_id(g)
  \/ EndRun

Next == Environment \/ Run

Spec == Init /\ [][Next]_vars

-----------------------------------------------------------------------------
(* Properties.                                                              *)

TypeOK ==
  /\ alive \subseteq Nodes /\ target \in [Groups -> Nat]
  /\ cancelled \subseteq fleets
  /\ agent \in [Nodes -> {"up", "orphaned", "unknown"}]
  /\ tasks \in [Nodes -> 0..MaxTasks]
  /\ drain \in [Nodes -> {"no", "submitted", "draining"}]
  /\ draining_enabled \in BOOLEAN /\ fleets \subseteq Groups
  /\ step \in {"idle", "loaded", "recycled", "modify", "prune", "submit"}
  /\ view.ids \subseteq Nodes /\ view.target \in [Groups -> Nat]
  /\ view.cancelled \subseteq fleets /\ view.draining \subseteq Nodes
  /\ view.agent \in [Nodes -> {"up", "orphaned", "unknown"}]
  /\ view.tasks \in [Nodes -> 0..MaxTasks]
  /\ known \in Nat /\ no_scale_down \in BOOLEAN
  /\ new_target_capacity \in Nat /\ group_targets \in [Groups -> Nat]
  /\ todo \subseteq Groups
  /\ killable \subseteq Nodes /\ marked \subseteq Nodes /\ unsent \subseteq marked
  /\ rem_group_capacities \in [Groups -> Nat]
  /\ remaining_non_orphan_capacity \in Nat /\ curr_capacity \in Int
  /\ killed_task_count \in Nat /\ removed_weight \in Nat
  /\ runs \in 0..MaxRuns /\ changes \in 0..MaxChanges /\ faults \in 0..MaxFaults

Planned == step \in {"modify", "prune", "submit"}

\* The plan of a run.  _constrain_target_capacity: whatever a signal asks for,
\* the target changes by no more than the weights allow and, if it is outside
\* its limits, does not move further away.
\* _compute_new_resource_group_targets, against what "balanced" means: the
\* groups' targets add up to the new target, or to less than one capacity
\* more, unless every group is at the limit in the way; and no group has
\* been raised above (lowered below) another by more than one capacity that
\* could have been raised (lowered) instead.
TargetsBalanced ==
  Planned =>
    LET sum == Total(group_targets, NonStale)
        change == new_target_capacity - target_capacity
        CanGrow(g) == group_targets[g] + Unit <= GroupMax[g]
        CanShrink(g) == group_targets[g] - Unit >= GroupMin[g]
    IN /\ change <= max_weight_to_add /\ -change <= max_weight_to_remove
       /\ new_target_capacity > max_capacity => change <= 0
       /\ new_target_capacity < min_capacity => change >= 0
       /\ sum < new_target_capacity => \A g \in NonStale : ~CanGrow(g)
       /\ sum - Unit >= new_target_capacity =>
            \A g \in NonStale : ~CanShrink(g)
       /\ \A g, h \in NonStale :
            /\ group_targets[g] > view.target[g] /\ CanGrow(h) =>
                 group_targets[g] <= group_targets[h] + Unit
            /\ group_targets[g] < view.target[g] /\ CanShrink(h) =>
                 group_targets[g] >= group_targets[h] - Unit

\* The nodes a run is about to remove leave every group and the part of the
\* pool that is in service at its new target, as of the reload: the
\* accumulators of the loop agree with the nodes it has marked.  Nor do these
\* weigh more, or have more tasks, than one run may take away.
PruneKeepsTargets ==
  step \in {"prune", "submit"} =>
    LET left == view.ids \ marked
    IN /\ Capacity(marked) <= max_weight_to_remove
       /\ Total(view.tasks, marked) <= max_tasks_to_kill
       /\ \A n \in marked :
            Capacity(InGroup(left, GroupOf[n])) >= group_targets[GroupOf[n]]
       /\ (\E n \in marked : view.agent[n] = "up") =>
            Capacity({n \in left : view.agent[n] = "up"}) >= new_target_capacity

InService == {n \in alive : agent[n] = "up" /\ drain[n] = "no"}

\* Over many runs: as long as nothing fails and the pool is quiet during a
\* run, no run takes a node out of service if what stays in service falls
\* below the target.  Nodes that earlier runs gave to the drainer are still
\* counted in every capacity, so this rests on the sort key, by which they are
\* chosen again before any other, and it needs them to be killable still: a
\* draining node that is spared is taken for one that stays.
ServiceKeepsTarget ==
  [][/\ step = "submit" /\ faults' = MaxFaults
     /\ view.draining \subseteq marked \cup killable
     /\ InService \ InService' # {}
     => Capacity(InService') >= new_target_capacity]_vars

\* Autoscaler.run, when nodes were lost: "Autoscaler will not kill any nodes
\* on this run."
NoKillAfterCapacityLoss == no_scale_down => marked = {}
=============================================================================
