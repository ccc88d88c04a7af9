---- MODULE Connectors ----
(***************************************************************************)
(* The cluster connectors: what the autoscaler, the metrics collector and   *)
(* the drainer believe about the nodes and the pods (or Mesos tasks) of a   *)
(* pool.  A reload lists the nodes first and the pods later; the cluster    *)
(* goes on between the two listings, and with KUBE_CACHE_ENABLED each of    *)
(* them may be up to a minute old.                                          *)
(*                                                                          *)
(* One resource stands for the four of ClustermanResources.  A pod is "new" *)
(* until the scheduler has looked at it, and has no conditions then.  It is *)
(* "bound" from the moment the scheduler picks its node until the kubelet   *)
(* reports it running; its host_ip is unknown until then.                   *)
(***************************************************************************)
EXTENDS Integers, FiniteSets, FiniteSetsExt

CONSTANTS Nodes,      \* the nodes the pool may have
          Pods,       \* the pods (or tasks) of the cluster
          Modes,      \* scheduler, options and pods of a behaviour: members of ModeType
          NodeCpus,   \* allocatable resources of a node
          NoNode      \* the host_ip of a pod that has none

VARIABLES mode,      \* constant in a behaviour
          alive,     \* cluster: the nodes that exist
          pods,      \* cluster: pod -> [phase, host]
          nodeCache, \* the last list of nodes, while the API cache keeps it
          podCache,  \* the last list of pods, while the API cache keeps it
          pc,        \* "idle"; "pods": the nodes are reloaded, the pods are not;
                     \* "failed": the last reload raised
          nodes,     \* _nodes_by_ip, _agents_by_ip
          used,      \* Mesos: used_resources of the agents, as listed
          byIp,      \* _pods_by_ip; its domain are the keys that exist
          pending,   \* _unschedulable_pods
          excluded,  \* _excluded_pods_by_ip
          seen       \* the pods as the last reload got them, {} if it did not

vars == <<mode, alive, pods, nodeCache, podCache, pc, nodes, used, byIp, pending, excluded, seen>>

Empty == [x \in {} |-> {}]
PodState == [phase : {"absent", "new", "unschedulable", "bound", "running"}, host : Nodes \cup {NoNode}]
Absent == [phase |-> "absent", host |-> NoNode]

ModeType == [kubernetes : BOOLEAN, use_labels_for_pods : BOOLEAN, exclude_daemonset_pods : BOOLEAN,
             cache : BOOLEAN,
             spec : [Pods -> [selector : {"pool", "other", "none"}, affinity : BOOLEAN, labelled : BOOLEAN,
                              daemonset : BOOLEAN, safe_to_evict : BOOLEAN, cpus : Nat]]]

Spec_(p) == mode.spec[p]
Cpus == [p \in Pods |-> Spec_(p).cpus]
Added(f, S) == MapThenSumSet(LAMBDA x : f[x], S)
Requested(S) == Added(Cpus, S)

Init ==
    /\ mode \in Modes
    /\ alive \in SUBSET Nodes
    /\ pods = [p \in Pods |-> Absent]
    /\ nodeCache = {}
    /\ podCache = {}
    /\ pc = "idle"
    /\ nodes = {}
    /\ used = Empty
    /\ byIp = Empty
    /\ pending = {}
    /\ excluded = Empty
    /\ seen = {}

----
(* The cluster *)

connector == <<nodeCache, podCache, pc, nodes, used, byIp, pending, excluded, seen>>

NodeJoins ==
    /\ \E n \in Nodes \ alive : alive' = alive \cup {n}
    /\ UNCHANGED <<mode, pods, connector>>

\* The node's pods go with it.
NodeLeaves ==
    /\ \E n \in alive :
        /\ alive' = alive \ {n}
        /\ pods' = [p \in Pods |-> IF pods[p].host = n THEN Absent ELSE pods[p]]
    /\ UNCHANGED <<mode, connector>>

Occupied(n) == {p \in Pods : pods[p].host = n}
Fits(p, n) == Requested(Occupied(n)) + Spec_(p).cpus <= NodeCpus

SetPod(p, phase, host) ==
    /\ pods' = [pods EXCEPT ![p] = [phase |-> phase, host |-> host]]
    /\ UNCHANGED <<mode, alive, connector>>

PodCreated ==
    \E p \in Pods : pods[p].phase = "absent" /\ SetPod(p, "new", NoNode)
PodRejected ==
    \E p \in Pods : pods[p].phase = "new" /\ SetPod(p, "unschedulable", NoNode)
PodBound ==
    \E p \in Pods, n \in alive :
        /\ pods[p].phase \in {"new", "unschedulable"}
        /\ Spec_(p).selector # "other"
        /\ Fits(p, n)
        /\ SetPod(p, "bound", n)
PodRuns ==
    \E p \in Pods : pods[p].phase = "bound" /\ SetPod(p, "running", pods[p].host)
PodEnds ==
    \E p \in Pods : pods[p].phase = "running" /\ SetPod(p, "absent", NoNode)

----
(* The API and its cache *)

\* CachedCoreV1Api: a list is kept for KUBERNETES_API_CACHE_TTL seconds.
Listed(cached, current) == IF mode.cache /\ cached # {} THEN cached ELSE {current}

CacheExpires ==
    /\ \/ nodeCache # {} /\ nodeCache' = {} /\ UNCHANGED podCache
       \/ podCache # {} /\ podCache' = {} /\ UNCHANGED nodeCache
    /\ UNCHANGED <<mode, alive, pods, pc, nodes, used, byIp, pending, excluded, seen>>

----
(* Reloading *)

host_ip(s) == IF s.phase = "running" THEN s.host ELSE NoNode

\* Mesos: the resources an agent reports as used.
allocated_agent_resources(n) == Requested({p \in Pods : host_ip(pods[p]) = n})

\* reload_state, first half: _get_nodes_by_ip, _get_agents_by_ip.
ReloadNodes ==
    /\ pc \in {"idle", "failed"}
    /\ \E list \in Listed(nodeCache, alive) :
        /\ nodes' = list
        /\ nodeCache' = IF mode.cache THEN {list} ELSE {}
        /\ used' = IF mode.kubernetes THEN Empty
                   ELSE [n \in list |-> allocated_agent_resources(n)]
    /\ pc' = "pods"
    /\ UNCHANGED <<mode, alive, pods, podCache, byIp, pending, excluded, seen>>

_pod_belongs_to_daemonset(p) == Spec_(p).daemonset
\* Both look at the conditions of a pending pod; a new pod has none.
_is_unschedulable(s) == s.phase = "unschedulable"
_is_recently_scheduled(s) == s.phase = "bound"

BelongsBySelector(p) == Spec_(p).selector = "pool" \/ (Spec_(p).selector = "none" /\ Spec_(p).affinity)

\* A node selector for the pool's label decides by itself; affinity comes last.
_pod_belongs_to_pool(p, s) ==
    \/ s.phase # "absent" /\ host_ip(s) \in nodes
    \/ BelongsBySelector(p)

\* _get_pods_info and _get_pods_info_with_label differ in which pods they look at.
Considered(list) ==
    {p \in Pods :
        /\ list[p].phase # "absent"
        /\ IF mode.use_labels_for_pods THEN Spec_(p).labelled ELSE _pod_belongs_to_pool(p, list[p])}

Excludes(p) == mode.exclude_daemonset_pods /\ _pod_belongs_to_daemonset(p)

\* A pod that runs, or that is about to, uses resources of the pool.
Counted(list) ==
    {p \in Considered(list) :
        ~Excludes(p) /\ (list[p].phase = "running" \/ _is_recently_scheduled(list[p]))}

ByIp(S, list) ==
    [n \in {host_ip(list[p]) : p \in S} |-> {p \in S : host_ip(list[p]) = n}]

\* Mesos: the running tasks of the frameworks, by agent.
_count_tasks_per_agent(list) ==
    ByIp({p \in Pods : list[p].phase = "running"}, list)

\* reload_state, second half.
ReloadPods ==
    /\ pc = "pods"
    /\ \E list \in Listed(podCache, pods) :
        /\ podCache' = IF mode.cache THEN {list} ELSE {}
        /\ seen' = {list}
        /\ IF mode.kubernetes
           THEN /\ byIp' = ByIp(Counted(list), list)
                /\ pending' = {p \in Considered(list) : ~Excludes(p) /\ _is_unschedulable(list[p])}
                /\ excluded' = ByIp({p \in Considered(list) : Excludes(p)}, list)
           ELSE /\ byIp' = _count_tasks_per_agent(list)
                /\ UNCHANGED <<pending, excluded>>
    /\ pc' = "idle"
    /\ UNCHANGED <<mode, alive, pods, nodeCache, nodes, used>>

\* The API cannot be reached after the nodes are listed: the run that reloads
\* ends with the exception, and the pods or tasks of the time before stay.
ReloadFails ==
    /\ pc = "pods"
    /\ pc' = "failed"
    /\ UNCHANGED <<mode, alive, pods, nodeCache, podCache, nodes, used, byIp, pending, excluded, seen>>

\* load_pods_info is False when only the nodes matter, as to the drainer.
SkipPods ==
    /\ pc = "pods"
    /\ mode.kubernetes
    /\ byIp' = [n \in nodes |-> {}]
    /\ pending' = {}
    /\ excluded' = Empty
    /\ seen' = {}
    /\ pc' = "idle"
    /\ UNCHANGED <<mode, alive, pods, nodeCache, podCache, nodes, used>>

----
(* What the connector answers *)

At(f, n) == IF n \in DOMAIN f THEN f[n] ELSE {}

whole_node_resources(n) == NodeCpus

\* What a node has left for pods once its daemonsets have theirs.
total_node_resources(n) == NodeCpus - Requested(At(excluded, n))

get_resource_allocation ==
    Added([n \in DOMAIN byIp |-> Requested(byIp[n])], DOMAIN byIp)

get_resource_pending == Requested(pending)

\* Daemonset pods that are on none of the nodes are not looked at.
get_resource_excluded == Requested(UNION {At(excluded, n) : n \in nodes})

\* Only nodes that have a key are looked at: a node without any pod has none,
\* unless its metadata was asked for since the reload.
HasRoom(p) ==
    \E n \in DOMAIN byIp \cap nodes :
        Spec_(p).cpus <= total_node_resources(n) - Requested(byIp[n])

has_enough_capacity_for_pods == \A p \in pending : HasRoom(p)

SomeSafe(S) == S = {} \/ \E p \in S : Spec_(p).safe_to_evict

\* is_safe_to_kill and batch_task_count: on Mesos every agent is safe and the
\* tasks of batch frameworks are counted.
_is_node_safe_to_kill(S) == \A p \in S : Spec_(p).safe_to_evict

\* An agent that is not among the nodes gets the defaults of AgentMetadata.
is_safe_to_kill(n) == n \notin nodes \/ _is_node_safe_to_kill(At(byIp, n))

\* _get_agent_metadata.
agent_state(n) ==
    CASE n \notin nodes -> "ORPHANED"
      [] n \in nodes /\ mode.kubernetes /\ At(byIp, n) # {} -> "RUNNING"
      [] n \in nodes /\ ~mode.kubernetes /\ used[n] > 0 -> "RUNNING"
      [] OTHER -> "IDLE"

\* Asking for the metadata of a known node makes its key in the defaultdict.
GetAgentMetadata ==
    /\ pc = "idle"
    /\ mode.kubernetes
    /\ \E n \in nodes \ DOMAIN byIp :
        byIp' = [m \in DOMAIN byIp \cup {n} |-> At(byIp, m)]
    /\ UNCHANGED <<mode, alive, pods, nodeCache, podCache, pc, nodes, used, pending, excluded, seen>>

Next ==
    \/ NodeJoins
    \/ NodeLeaves
    \/ PodCreated
    \/ PodRejected
    \/ PodBound
    \/ PodRuns
    \/ PodEnds
    \/ CacheExpires
    \/ ReloadNodes
    \/ ReloadPods
    \/ SkipPods
    \/ ReloadFails
    \/ GetAgentMetadata

Spec == Init /\ [][Next]_vars

----
(* Properties *)

\* The pods that a reader of the listings would say are the pool's: they run on
\* one of its nodes, or ask for the pool and have no node yet.
PoolPods(list) ==
    {p \in Pods :
        /\ list[p].phase # "absent"
        /\ \/ list[p].phase = "running" /\ list[p].host \in nodes
           \/ Spec_(p).selector = "pool"
           \/ Spec_(p).selector = "none" /\ Spec_(p).affinity}

\* What the connector does not look at: pods the scheduler has not looked at,
\* and excluded daemonset pods that run on none of the nodes.
Overlooked(p, s) == IF Excludes(p) THEN host_ip(s) \notin nodes ELSE s.phase = "new"

\* Every other pod of the pool is paid for exactly once: what is allocated, what
\* is pending and what is set aside for daemonsets add up to what they request.
PodsAreAccounted ==
    pc = "idle" /\ mode.kubernetes /\ ~mode.use_labels_for_pods =>
        \A list \in seen :
            get_resource_allocation + get_resource_pending + get_resource_excluded
            = Requested({p \in PoolPods(list) : ~Overlooked(p, list[p])})

\* The pods that a listing shows on a node, labelled ones only if labels are
\* what is asked for, and without excluded daemonset pods.
PodsOn(n, list) ==
    {p \in Pods : host_ip(list[p]) = n /\ (mode.use_labels_for_pods => Spec_(p).labelled) /\ ~Excludes(p)}

\* A node that is offered for termination while the listing of pods shows one
\* on it that must not be evicted (or a task of a batch framework) is a node
\* that the listing of nodes missed; and no known node with pods is called idle.
KnownNodesAreSafe ==
    pc = "idle" =>
        \A list \in seen : \A n \in Nodes : \A p \in PodsOn(n, list) :
            /\ is_safe_to_kill(n) /\ ~Spec_(p).safe_to_evict => agent_state(n) = "ORPHANED"
            /\ mode.kubernetes => agent_state(n) # "IDLE"

\* The orphaned nodes that are offered have nothing to lose.
OrphansAreIdle ==
    pc = "idle" =>
        \A list \in seen : \A n \in Nodes \ nodes : \A p \in PodsOn(n, list) : Spec_(p).safe_to_evict

\* When the pool is said to have room for its pending pods, each of them fits on
\* some node next to the pods that run there.
RoomIsReal ==
    pc = "idle" /\ mode.kubernetes /\ ~mode.use_labels_for_pods /\ has_enough_capacity_for_pods =>
        \A list \in seen : \A p \in pending : \E n \in nodes :
            Spec_(p).cpus + Requested({q \in Pods : host_ip(list[q]) = n}) <= NodeCpus

\* What a reload makes of the listings is consistent, however the cluster moved
\* between them: every pod of the pool that it looks at is paid for exactly
\* once, and pending pods are only said to have room where they have it.  The
\* signals and the health checks of migrations rest on these numbers.
AccountsAreRight == PodsAreAccounted /\ RoomIsReal
====
