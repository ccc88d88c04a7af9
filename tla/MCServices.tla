---- MODULE MCServices ----
\* Values for the constants of Services.
EXTENDS Services

\* Metrics: a simulation's points, one series found by name and two by regex.
GeneratedPoints == {<<1, 1>>, <<3, 1>>, <<4, 1>>}

\* ClusterMetrics: a Mesos pool and a Kubernetes pool.
PoolNames == <<"p", "q">>
PoolScheduler == [x \in {"p", "q"} |-> IF x = "p" THEN "mesos" ELSE "kubernetes"]

\* Connectors: a pod that must not be evicted and asks for the pool by selector
\* or by affinity, and a daemonset's pod or one of another pool.
Pod(selector, affinity, labelled, daemonset, safe, cpus) ==
    [selector |-> selector, affinity |-> affinity, labelled |-> labelled, daemonset |-> daemonset,
     safe_to_evict |-> safe, cpus |-> cpus]
Mode(k8s, labels, exclude, cache, batch, other) ==
    [kubernetes |-> k8s, use_labels_for_pods |-> labels, exclude_daemonset_pods |-> exclude,
     cache |-> cache, spec |-> [p \in {"batch", "other"} |-> IF p = "batch" THEN batch ELSE other]]
Batch == Pod("pool", FALSE, TRUE, FALSE, FALSE, 2)
Affine == Pod("none", TRUE, TRUE, FALSE, FALSE, 2)
Daemon(cpus) == Pod("none", FALSE, FALSE, TRUE, TRUE, cpus)
Foreign == Pod("other", TRUE, FALSE, FALSE, TRUE, 1)
PoolModes ==
    {Mode(TRUE, FALSE, FALSE, TRUE, Affine, Daemon(1)),
     Mode(TRUE, FALSE, TRUE, FALSE, Batch, Daemon(2)),
     Mode(TRUE, TRUE, TRUE, FALSE, Batch, Daemon(2)),
     Mode(TRUE, FALSE, FALSE, FALSE, Batch, Foreign),
     Mode(FALSE, FALSE, FALSE, FALSE, Batch, Daemon(1))}

\* MigrationEvents: three nodes, of which one has an odd kernel and one an odd
\* release, texts of every form, portions around a half.
Node(kernel, release, type, uptime, tasks, labels) ==
    [kernel |-> kernel, lsbrelease |-> release, instance_type |-> type, uptime |-> uptime,
     task_count |-> tasks, labels |-> labels]
MigratedNodes ==
    <<Node(<<"plain", 1>>, <<"plain", 1>>, 1, 180, 1, {"gpu"}),
      Node(<<"plain", 2>>, <<"odd", 2>>, 2, 60, 2, {"gpu"}),
      Node(<<"odd", 3>>, <<"plain", 3>>, 3, 120, 1, {})>>
Typed ==
    {<<<<"plain", 2>>>>, <<<<"human", 2>>>>, <<<<"padded", 3>>, <<"plain", 2>>>>,
     <<<<"plain", 3>>, <<"upper", 2>>>>, <<<<"odd", 0>>>>}
LabelSelectors == {{}, {"gpu"}}
Portion(percent, value) == [percent |-> percent, value |-> value]
Portions == {Portion(TRUE, 10), Portion(TRUE, 50), Portion(FALSE, 2), Portion(FALSE, 0)}
====
