---------------------------- MODULE ResourceGroups ----------------------------
(***************************************************************************)
(* The resource groups of a pool: auto scaling groups and spot fleets      *)
(* (clusterman/aws/*_resource_group.py), as the pool manager loads them,   *)
(* sets their targets and terminates their instances, run after run.       *)
(*                                                                         *)
(* An ASG whose instances have been marked stale, or a fleet that has been *)
(* cancelled and replaced by another, must be rolled over to fresh         *)
(* instances without the pool falling below what is wanted of it.  What    *)
(* a run loads comes from the AWS APIs, from a snapshot of them in S3 that *)
(* may be arbitrarily old, from tags that are cached, or from a list of    *)
(* fleets in S3.                                                           *)
(*                                                                         *)
(* Abstractions.  The pool has one group that is not stale at a time, so   *)
(* that the target of the pool is the target of that group; how targets    *)
(* are spread is in PoolManager.  The pool does not drain its nodes, they  *)
(* are idle, and no limit of the pool is in the way.  An instance has its  *)
(* weight; market, address and launch time are left out.                   *)
(***************************************************************************)
EXTENDS Integers, FiniteSets, FiniteSetsExt, Functions

CONSTANTS
  Ids,           \* instance ids, numbered: a launch takes the first unused
  Weight,        \* id -> WeightedCapacity
  Wanted,        \* the capacity the signal asks for
  MinSize, MaxSize,
  BatchSize,     \* ids per request (_BATCH_MODIFY_SIZE, batch_size)
  MaxMarks, MaxFaults,
  Prompt         \* TRUE: AWS launches what a group lacks and it joins before
                 \* the next run, and no instance is lost during a run

ASSUME ConstantsAssumption ==
  /\ Ids \subseteq Nat /\ Weight \in [Ids -> Nat \ {0}]
  /\ MinSize \in Nat /\ MaxSize \in Nat /\ Wanted \in MinSize..MaxSize
  /\ BatchSize \in Nat \ {0} /\ MaxMarks \in Nat /\ MaxFaults \in Nat
  /\ Prompt \in BOOLEAN

Groups == {1, 2}
GroupStates == {"absent", "active", "cancelled_running",
                "cancelled_terminating", "cancelled"}

VARIABLES
  asgs,       \* configuration: the groups that are ASGs; the others are fleets
  source,     \* configuration: how groups are found, "tag", "cache" or "s3"
  state,      \* AWS: SpotFleetRequestState of each group
  instances,  \* AWS: the instances of each group
  desired,    \* AWS: DesiredCapacity or TargetCapacity of each group
  tagged,     \* AWS: ids with the tag clusterman:is_stale, dead ones as well
  joined,     \* cluster: the instances with an agent
  snapshot,   \* S3: the cached API data
  step,       \* how far the run is
  view,       \* the groups as the run has loaded them
  marks, faults

config == <<asgs, source>>
aws    == <<state, instances, desired, tagged>>
vars   == <<config, aws, joined, snapshot, step, view, marks, faults>>

Alive == UNION {instances[g] : g \in Groups}
Capacity(S) == MapThenSumSet(LAMBDA i : Weight[i], S)
Least(a, b) == IF a < b THEN a ELSE b
Greatest(a, b) == IF a > b THEN a ELSE b

-----------------------------------------------------------------------------
(* A loaded group: view.groups says which have been loaded, and the rest of *)
(* the view what was read.  Its instance ids, its target and its staleness. *)

NoView == [groups |-> {}, instances |-> [g \in Groups |-> {}],
           desired |-> [g \in Groups |-> 0],
           state |-> [g \in Groups |-> "absent"],
           tagged |-> {}, joined |-> {}]

instance_ids(v, g) == v.instances[g]

\* A fleet is stale once it has been cancelled, an ASG never is.
is_stale(v, g) == g \notin asgs /\ v.state[g] # "active"

stale_instance_ids(v, g) ==
  IF is_stale(v, g) THEN instance_ids(v, g) ELSE v.tagged \cap instance_ids(v, g)

fulfilled_capacity(v, g) == Capacity(instance_ids(v, g))

_stale_capacity(v, g) == Capacity(stale_instance_ids(v, g))

\* _target_capacity of an ASG and of a fleet.
AsgTarget(v, g) == v.desired[g] - _stale_capacity(v, g)
FleetTarget(v, g) == v.desired[g]

target_capacity(v, g) ==
  CASE is_stale(v, g) -> 0
    [] g \in asgs -> AsgTarget(v, g)
    [] OTHER -> FleetTarget(v, g)

-----------------------------------------------------------------------------
Init ==
  /\ \/ asgs = {1} /\ source \in {"tag", "cache"}
     \/ asgs = {} /\ source \in {"tag", "cache", "s3"}
  /\ \E S \in SUBSET Ids :
       /\ Capacity(S) = Wanted
       /\ \A i \in S, j \in Ids : j < i => j \in S
       /\ instances = [g \in Groups |-> IF g = 1 THEN S ELSE {}]
       /\ joined = S
  /\ state = [g \in Groups |-> IF g = 1 THEN "active" ELSE "absent"]
  /\ desired = [g \in Groups |-> IF g = 1 THEN Wanted ELSE 0]
  /\ tagged = {}
  /\ snapshot = [groups |-> {1}, instances |-> instances, desired |-> desired]
  /\ step = "idle" /\ view = NoView
  /\ marks = MaxMarks /\ faults = MaxFaults

Fault == faults > 0 /\ faults' = faults - 1

-----------------------------------------------------------------------------
(* AWS and the cluster.                                                     *)

clusterman == <<config, step, view, marks>>

Known == Alive \cup tagged \cup joined \cup UNION Range(view.instances)
           \cup UNION {snapshot.instances[g] : g \in Groups}

Short(g) == state[g] = "active" /\ Capacity(instances[g]) < desired[g]

InstanceLaunched(g) ==
  /\ Short(g)
  /\ \E i \in Ids \ Known :
       /\ \A j \in Ids \ Known : i <= j
       /\ instances' = [instances EXCEPT ![g] = @ \cup {i}]
  /\ UNCHANGED <<state, desired, tagged, joined, snapshot, clusterman, faults>>

AgentJoins(i) ==
  /\ i \in Alive \ joined
  /\ joined' = joined \cup {i}
  /\ UNCHANGED <<aws, snapshot, clusterman, faults>>

Gone(S) ==
  /\ instances' = [g \in Groups |-> instances[g] \ S]
  /\ joined' = joined \ S

InstanceLost(i) ==
  /\ i \in Alive
  /\ Prompt => step = "idle"
  /\ Fault
  /\ Gone({i})
  /\ UNCHANGED <<state, desired, tagged, snapshot, clusterman>>

\* AWS forgets an instance, and its tags, some time after its end.
InstanceForgotten(i) ==
  /\ i \in tagged \ Alive
  /\ tagged' = tagged \ {i}
  /\ UNCHANGED <<state, instances, desired, joined, snapshot, clusterman,
                 faults>>

\* The fleet of the pool is cancelled, with or without its instances, and
\* another takes its place.
FleetReplaced(how) ==
  /\ asgs = {} /\ state[1] = "active"
  /\ how \in {"cancelled_running", "cancelled_terminating"}
  /\ marks > 0 /\ marks' = marks - 1
  /\ state' = [state EXCEPT ![1] = how, ![2] = "active"]
  /\ desired' = [desired EXCEPT ![2] = MinSize]
  /\ UNCHANGED <<config, instances, tagged, joined, snapshot, step, view, faults>>

\* AWS takes the instances of a fleet that is terminating, and then ends it.
FleetTerminating ==
  /\ state[1] = "cancelled_terminating" /\ instances[1] # {}
  /\ Prompt => 1 \notin view.groups
  /\ \E i \in instances[1] : Gone({i})
  /\ UNCHANGED <<state, desired, tagged, snapshot, clusterman, faults>>

FleetEnded ==
  /\ state[1] \in {"cancelled_running", "cancelled_terminating"}
  /\ instances[1] = {}
  /\ state' = [state EXCEPT ![1] = "cancelled"]
  /\ UNCHANGED <<instances, desired, tagged, joined, snapshot, clusterman,
                 faults>>

\* Another program writes the AWS data to S3 now and then.
SnapshotWritten ==
  /\ snapshot' = [groups |-> {g \in Groups : state[g] # "absent"},
                  instances |-> instances, desired |-> desired]
  /\ UNCHANGED <<aws, joined, clusterman, faults>>

-----------------------------------------------------------------------------
(* Loading the groups.                                                      *)

\* The groups with the tag of the pool (_get_resource_group_tags, cached for a
\* minute; runs are further apart), and the fleets that are listed in S3.
TaggedAsgs == asgs
TaggedFleets == {g \in Groups \ asgs : state[g] # "absent"}
load_spot_fleets_from_s3 == {g \in Groups \ asgs : state[g] # "absent"}

\* get_aws_api_cache_data: the age is last_modified - now, which is never
\* above AWS_API_CACHE_STALENESS_SECONDS, so the snapshot is always taken.
get_aws_api_cache_data == snapshot
load_from_api_cache == get_aws_api_cache_data.groups

\* _get_auto_scaling_group_config comes from the snapshot, if there is one; a
\* fleet is asked for its configuration and its instances.
AsgConfig(g, cached) ==
  IF cached THEN [instances |-> get_aws_api_cache_data.instances[g],
                  desired |-> get_aws_api_cache_data.desired[g]]
  ELSE [instances |-> instances[g], desired |-> desired[g]]

FleetConfig(g) == [instances |-> instances[g], desired |-> desired[g]]

\* The tags of instances are always asked for.
_get_stale_instance_ids == IF asgs = {} THEN {} ELSE tagged

\* _reload_resource_group of each group in S, and the agents of their instances.
_reload_resource_group(S, cached) ==
  LET read == [g \in S |-> IF g \in asgs THEN AsgConfig(g, cached)
                           ELSE FleetConfig(g)]
  IN [groups |-> S,
      instances |-> [g \in Groups |-> IF g \in S THEN read[g].instances ELSE {}],
      desired |-> [g \in Groups |-> IF g \in S THEN read[g].desired ELSE 0],
      state |-> state, tagged |-> _get_stale_instance_ids, joined |-> joined]

\* SpotFleetResourceGroup.load: fleets that are over, or whose instances AWS
\* terminates itself, are not managed.
_CANCELLED_STATES == {"cancelled", "cancelled_terminating"}
NotCancelled(S) == {g \in S : g \in asgs \/ state[g] \notin _CANCELLED_STATES}

\* AWSResourceGroup.load: through the cache, or if that fails by tags, where a
\* group that cannot be loaded is passed over.
load ==
  LET by_tag == TaggedAsgs \cup TaggedFleets
      found == CASE source = "cache" -> load_from_api_cache
                 [] source = "tag" -> by_tag
                 [] source = "s3" -> load_spot_fleets_from_s3
      Loads(S, cached) == view' = _reload_resource_group(NotCancelled(S), cached)
  IN \/ Loads(found, source = "cache") /\ UNCHANGED faults
     \/ Fault /\ source = "cache" /\ Loads(by_tag, FALSE)
     \/ Fault /\ source = "tag" /\ \E g \in by_tag : Loads(by_tag \ {g}, FALSE)

reload_state ==
  /\ step = "idle"
  /\ Prompt => /\ Alive \subseteq joined
               /\ \A g \in Groups : ~Short(g)
  /\ load
  /\ step' = "loaded"
  /\ UNCHANGED <<config, aws, joined, snapshot, marks>>

\* Nothing is caught while the list in S3 is gone through: the run ends.
load_spot_fleets_from_s3_fails ==
  /\ step = "idle" /\ source = "s3"
  /\ Fault
  /\ UNCHANGED <<config, aws, joined, snapshot, step, view, marks>>

NonStale == {g \in view.groups : ~is_stale(view, g)}

Return == step' = "idle" /\ view' = NoView

\* NoResourceGroupsFoundError or AllResourceGroupsAreStaleError.
NothingToModify ==
  /\ step = "loaded" /\ NonStale = {}
  /\ Return
  /\ UNCHANGED <<config, aws, joined, snapshot, marks, faults>>

-----------------------------------------------------------------------------
(* modify_target_capacity of a group.                                       *)

\* Mutant of AsgDesired: stale instances are not counted.
AsgDesiredPlain(g) == Greatest(MinSize, Least(MaxSize, Wanted))

\* An ASG has its stale instances on top of the target, as far as MaxSize goes.
AsgDesired(g) ==
  Greatest(MinSize, Least(MaxSize, Wanted + _stale_capacity(view, g)))

ModifyAsg(g) ==
  \/ /\ desired' = [desired EXCEPT ![g] = AsgDesired(g)]
     /\ step' = "prune"
     /\ UNCHANGED <<view, faults>>
  \/ /\ Fault
     /\ Return
     /\ UNCHANGED desired

\* A fleet that has been cancelled since it was loaded refuses, and any may: the
\* pool manager goes on.
ModifyFleet(g) ==
  /\ \/ /\ state[g] = "active"
        /\ desired' = [desired EXCEPT ![g] = Wanted]
        /\ UNCHANGED faults
     \/ /\ state[g] # "active"
        /\ UNCHANGED <<desired, faults>>
     \/ /\ Fault
        /\ UNCHANGED desired
  /\ step' = "prune"
  /\ UNCHANGED view

\* A group that has the target already is passed over.
modify_target_capacity(g) ==
  /\ step = "loaded" /\ g \in NonStale
  /\ CASE target_capacity(view, g) = Wanted ->
            step' = "prune" /\ UNCHANGED <<desired, view, faults>>
       [] g \in asgs -> ModifyAsg(g)
       [] OTHER -> ModifyFleet(g)
  /\ UNCHANGED <<config, state, instances, tagged, joined, snapshot, marks>>

-----------------------------------------------------------------------------
(* Pruning.                                                                 *)

\* get_instance_metadatas: the loaded instances that AWS still runs.
get_instance_metadatas == {i \in UNION Range(view.instances) : i \in Alive}

GroupOf(i) == CHOOSE g \in Groups : i \in view.instances[g]
Stale(i) == i \in stale_instance_ids(view, GroupOf(i))

\* Mutant: what the groups say they have, orphans and all.
non_orphan_of_groups == Capacity(UNION Range(view.instances))

\* _calculate_non_orphan_fulfilled_capacity: it asks for the instances, not for
\* what the groups say they have.
non_orphan_fulfilled_capacity == Capacity(get_instance_metadatas \cap view.joined)

\* The order of _prioritize_killable_nodes: orphans, then stale instances.
Before(i, j) ==
  LET Key(k) == (IF k \in view.joined THEN 2 ELSE 0) + (IF Stale(k) THEN 0 ELSE 1)
  IN Key(i) < Key(j) \/ (Key(i) = Key(j) /\ i < j)

\* _choose_nodes_to_prune: the nodes are considered in that order, and a node is
\* marked unless its group or the pool would miss its target.
_choose_nodes_to_prune ==
  LET fulfilled == Capacity(UNION Range(view.instances))
      nodes == get_instance_metadatas
      nth(k) == CHOOSE i \in nodes : Cardinality({j \in nodes : Before(j, i)}) = k - 1
      group_target(g) == IF is_stale(view, g) THEN 0 ELSE Wanted
      Spared(i, marked) ==
        \/ Capacity(view.instances[GroupOf(i)] \ (marked \cup {i}))
             < group_target(GroupOf(i))
        \/ /\ i \in view.joined
           /\ non_orphan_fulfilled_capacity
                - Capacity((marked \cap view.joined) \cup {i}) < Wanted
      marked[k \in 0..Cardinality(nodes)] ==
        IF k = 0 THEN {}
        ELSE LET m == marked[k - 1]
             IN IF fulfilled - Capacity(m) <= Wanted \/ Spared(nth(k), m) THEN m
                ELSE m \cup {nth(k)}
  IN marked[Cardinality(nodes)]

\* terminate_instances_by_id works in batches; a request that fails leaves the
\* rest, and ends the run.
terminate_instances_by_id ==
  /\ step = "prune"
  /\ \E marked \in {_choose_nodes_to_prune} :
       \/ Gone(marked) /\ UNCHANGED faults
       \/ /\ Fault
          /\ \E done \in SUBSET marked :
               /\ done # marked /\ Cardinality(done) % BatchSize = 0
               /\ Gone(done)
  /\ Return
  /\ UNCHANGED <<config, state, desired, tagged, snapshot, marks>>

-----------------------------------------------------------------------------
\* clusterman manage --mark-stale, on its own: it loads the groups, and the
\* instances of every ASG are tagged in batches.  A fleet raises
\* NotImplementedError, which is caught.
mark_stale(g) ==
  /\ marks > 0 /\ g \in asgs
  /\ marks' = marks - 1
  /\ \E ids \in {IF source = "cache" THEN snapshot.instances[g] ELSE instances[g]} :
       \/ tagged' = tagged \cup ids /\ UNCHANGED faults
       \/ /\ Fault
          /\ \E done \in SUBSET ids :
               /\ Cardinality(done) % BatchSize = 0
               /\ tagged' = tagged \cup done
  /\ UNCHANGED <<config, state, instances, desired, joined, snapshot, step, view>>

-----------------------------------------------------------------------------
Environment ==
  \/ \E g \in Groups : InstanceLaunched(g)
  \/ \E i \in Ids : AgentJoins(i) \/ InstanceLost(i) \/ InstanceForgotten(i)
  \/ \E how \in GroupStates : FleetReplaced(how)
  \/ FleetTerminating
  \/ FleetEnded
  \/ SnapshotWritten

Run ==
  \/ reload_state
  \/ load_spot_fleets_from_s3_fails
  \/ NothingToModify
  \/ \E g \in Groups : modify_target_capacity(g)
  \/ terminate_instances_by_id

Next == Environment \/ Run \/ \E g \in Groups : mark_stale(g)

Spec == Init /\ [][Next]_vars

\* The batch runs for ever; AWS launches, joins and forgets instances, and the
\* snapshot is written again and again.
FairSpec ==
  /\ Spec
  /\ WF_vars(Run)
  /\ \A g \in Groups : WF_vars(InstanceLaunched(g))
  /\ \A i \in Ids : WF_vars(AgentJoins(i)) /\ WF_vars(InstanceForgotten(i))
  /\ WF_vars(FleetTerminating) /\ WF_vars(FleetEnded) /\ WF_vars(SnapshotWritten)

-----------------------------------------------------------------------------
(* Properties.                                                              *)

TypeOK ==
  /\ asgs \subseteq Groups /\ source \in {"tag", "cache", "s3"}
  /\ state \in [Groups -> GroupStates]
  /\ instances \in [Groups -> SUBSET Ids]
  /\ desired \in [Groups -> 0..MaxSize]
  /\ tagged \subseteq Ids /\ joined \subseteq Alive
  /\ step \in {"idle", "loaded", "prune"}
  /\ view.groups \subseteq Groups /\ view.instances \in [Groups -> SUBSET Ids]
  /\ view.tagged \subseteq Ids /\ view.joined \subseteq Ids
  /\ marks \in 0..MaxMarks /\ faults \in 0..MaxFaults

\* Pruning leaves what is wanted in service, whatever the age of the data the
\* groups were loaded from and however many of them could be loaded: the
\* capacity of the groups may count instances that are long gone.
ServiceKept ==
  [][step = "prune" /\ step' = "idle" /\ joined' # joined 
     => Capacity(joined') >= Wanted]_vars

Settled ==
  /\ Alive \cap tagged = {}
  /\ state[1] # "active" => instances[1] = {}
  /\ Capacity(joined) >= Wanted
  /\ \A g \in Groups : state[g] = "active" => desired[g] = Wanted

\* Instances that have been marked stale, and those of a cancelled fleet, are
\* replaced in the end, and then the target is what is wanted: stale instances
\* are on top of the target that is set and taken off the target that is read,
\* while they go one by one.
RolledOver == source # "cache" => <>[]Settled

\* The same with the API cache, whose data get_aws_api_cache_data is said to
\* refuse when it is stale ("raise: AWSAPICacheStale if cached data is stale").
RolledOverFromCache == source = "cache" => <>[]Settled
=============================================================================
