---------------------------- MODULE NodeMigration ----------------------------
(***************************************************************************)
(* The node migration batch (clusterman/batch/node_migration.py) and its   *)
(* worker processes (clusterman/migration/worker.py).                      *)
(*                                                                         *)
(* The batch reads migration events from Kubernetes custom resources,      *)
(* spawns one worker process per event, and periodically restarts the      *)
(* workers that failed and marks the events of those that finished.        *)
(* Workers of one pool (the event worker and the uptime worker) share a    *)
(* multiprocessing lock.  Each recycles the nodes it selected in chunks:   *)
(* submit a chunk for draining, wait until it is gone and the pool is      *)
(* healthy, go on.                                                         *)
(*                                                                         *)
(* Abstractions.  A worker is named by its label, <<kind, pool>>.  A node  *)
(* is a number (its place in the precedence order) and is "old" until the  *)
(* drainer has replaced it; the drainer itself is module Draining.  An     *)
(* instance has an agent when the connector lists a Kubernetes node with   *)
(* its address: it may join late, and it may drop out (a fault).  An       *)
(* instance that has been up for too long joined long ago.  Health         *)
(* checks look at the cluster, whose capacity is not modelled: they may    *)
(* succeed when the drained agents are gone, and time out at any time (a   *)
(* fault).  Clocks are left out.  A worker that recycles nodes for longer  *)
(* than expected_duration (an overrun) lets the lock acquisition of        *)
(* another one time out, or the pause of its own autoscaler expire; a lock *)
(* or a pause that a killed worker left behind always times out.  Every    *)
(* uptime worker has a draining client, and a replaced node is never       *)
(* selected.                                                               *)
(***************************************************************************)
EXTENDS Integers, FiniteSets

CONSTANTS
  Pools,
  Events,
  PoolOf,             \* event -> pool
  Accepting,          \* pools_accepting_events, with a usable configuration
  UptimePools,        \* pools with a max_uptime trigger
  NumNodes,           \* nodes in a pool
  Aged,               \* the nodes whose uptime exceeds max_uptime
  Rate,               \* strategy.rate: nodes in a chunk
  MaxWorkers,         \* max_worker_processes
  disable_autoscaling,\* the setting
  MaxOverruns,        \* bound on the times a worker takes longer than that
  MaxFaults,          \* bound on crashes, API errors and failed health checks
  None

ASSUME ConstantsAssumption ==
  /\ PoolOf \in [Events -> Pools]
  /\ Accepting \subseteq Pools /\ UptimePools \subseteq Pools
  /\ NumNodes \in Nat /\ Rate \in Nat \ {0} /\ MaxWorkers \in Nat
  /\ Aged \subseteq 1..NumNodes
  /\ disable_autoscaling \in BOOLEAN /\ MaxOverruns \in Nat
  /\ MaxFaults \in Nat
  /\ None \notin Events \cup {"pending", "inprogress", "completed", "skipped"}

VARIABLES
  status,      \* the status label of each event's resource, None if not created
  bpc,         \* the batch: "init", "fetch", "spawn" or "monitor"
  todo,        \* events fetched in this iteration and not looked at yet
  proc,        \* where each worker process is; "absent" if not in the table
  args,        \* the event a worker process was created with
  events_in_progress,
  locked,      \* the lock of each pool
  node,        \* pool -> node -> "old", "leaving" or "new"
  joined,      \* pool -> nodes to be replaced that have an agent
  covered,     \* history: event -> nodes with an agent ever since its creation
  selected,    \* the nodes a worker still has to submit
  hadAgent,    \* the nodes that had an agent when a worker selected them
  chunk,       \* the nodes a worker has submitted last
  paused,      \* pools whose autoscaler is disabled
  overruns,    \* overruns of expected_duration still to come
  migrated,    \* history: events a worker has run to its end
  faults

batch   == <<status, bpc, todo, events_in_progress>>
worker  == <<proc, args, selected, hadAgent, chunk>>
agents  == <<joined, covered>>
shared  == <<locked, node, agents, paused, overruns>>
vars    == <<batch, worker, shared, migrated, faults>>

Nodes == 1..NumNodes
EventLabel(e) == <<"event", PoolOf[e]>>
EventLabels == {"event"} \X Pools
UptimeLabels == {"uptime"} \X UptimePools
Labels == EventLabels \cup UptimeLabels
Pool(l) == l[2]

\* The pools that get workers: the agents of the others are never looked at.
Watched == Accepting \cup UptimePools

\* is_alive: the process has been started and has not exited.
is_alive(l) == proc[l] \notin {"absent", "exit0", "exit1"}

Running == {l \in Labels : is_alive(l)}

\* A worker is recycling nodes between its selection and its last chunk.
Recycling(l) == proc[l] \in {"drain", "check"}

\* A worker is past its acquisition of the lock, and not at its end yet.
Working(l) ==
  proc[l] \in {"setup", "select", "drain", "check", "succeed", "fail"}

\* A step that happens only if a worker overruns, or that is a fault, uses up
\* one of these.
Overruns(isOverrun) ==
  IF isOverrun THEN overruns > 0 /\ overruns' = overruns - 1
  ELSE UNCHANGED overruns

Uses(isFault) ==
  IF isFault THEN faults > 0 /\ faults' = faults - 1 ELSE UNCHANGED faults

Goto(l, to) == proc' = [proc EXCEPT ![l] = to]

\* _drain_node_selection ends, and its variables with it.
Return(l) ==
  /\ selected' = [selected EXCEPT ![l] = {}]
  /\ hadAgent' = [hadAgent EXCEPT ![l] = {}]
  /\ chunk' = [chunk EXCEPT ![l] = {}]

-----------------------------------------------------------------------------
Init ==
  /\ status = [e \in Events |-> None]
  /\ bpc = "init"
  /\ todo = {}
  /\ proc = [l \in Labels |-> "absent"]
  /\ args = [l \in Labels |-> None]
  /\ events_in_progress = [l \in EventLabels |-> None]
  /\ locked = [p \in Pools |-> FALSE]
  /\ node = [p \in Pools |-> [n \in Nodes |-> "old"]]
  /\ joined \in {j \in [Pools -> SUBSET Nodes] :
                  \A p \in Pools : /\ Aged \subseteq j[p]
                                   /\ p \notin Watched => j[p] = Nodes}
  /\ covered = [e \in Events |-> {}]
  /\ selected = [l \in Labels |-> {}]
  /\ hadAgent = [l \in Labels |-> {}]
  /\ chunk = [l \in Labels |-> {}]
  /\ paused = {}
  /\ overruns = MaxOverruns
  /\ migrated = {}
  /\ faults = MaxFaults

-----------------------------------------------------------------------------
(* Outside the batch: whoever creates events, the drainer and the clock.    *)

create_node_migration_resource(e) ==
  /\ status[e] = None
  /\ status' = [status EXCEPT ![e] = "pending"]
  /\ covered' = [covered EXCEPT ![e] = joined[PoolOf[e]]]
  /\ UNCHANGED <<bpc, todo, events_in_progress, worker, locked, node, joined,
                 paused, overruns, migrated, faults>>

\* The kubelet of an instance registers its node.
AgentJoins(p, n) ==
  /\ p \in Watched
  /\ node[p][n] # "new" /\ n \notin joined[p]
  /\ joined' = [joined EXCEPT ![p] = @ \cup {n}]
  /\ UNCHANGED <<batch, worker, locked, node, covered, paused, overruns, migrated,
                 faults>>

\* The connector does not list the node any more, while the instance still runs.
AgentLost(p, n) ==
  /\ p \in Watched
  /\ n \in joined[p]
  /\ Uses(TRUE)
  /\ joined' = [joined EXCEPT ![p] = @ \ {n}]
  /\ covered' = [e \in Events |-> IF PoolOf[e] = p THEN covered[e] \ {n}
                                  ELSE covered[e]]
  /\ UNCHANGED <<batch, worker, locked, node, paused, overruns, migrated>>

\* The drainer terminates a node, and another one replaces it.
NodeReplaced(p, n) ==
  /\ node[p][n] = "leaving"
  /\ node' = [node EXCEPT ![p][n] = "new"]
  /\ joined' = [joined EXCEPT ![p] = @ \ {n}]
  /\ UNCHANGED <<batch, worker, locked, covered, paused, overruns, migrated, faults>>

\* The drainer gives up and uncordons the node.
NodeReleased(p, n) ==
  /\ node[p][n] = "leaving"
  /\ Uses(TRUE)
  /\ node' = [node EXCEPT ![p][n] = "old"]
  /\ UNCHANGED <<batch, worker, locked, agents, paused, overruns, migrated>>

\* The pause ends with its expiration_timestamp, which was computed before
\* the pool's health was awaited.
PauseExpires(p) ==
  /\ p \in paused
  /\ Overruns(Working(<<"event", p>>))
  /\ paused' = paused \ {p}
  /\ UNCHANGED <<batch, worker, locked, node, agents, migrated, faults>>

-----------------------------------------------------------------------------
(* The batch.                                                               *)

\* _spawn_worker: refused while the label's process is alive, or, for event
\* workers, while all slots are taken.
CanSpawn(l) ==
  /\ ~is_alive(l)
  /\ l \in EventLabels => Cardinality(Running) < MaxWorkers

\* run: the uptime workers come first and are not counted against the slots.
SpawnUptimeWorkers ==
  /\ bpc = "init"
  /\ bpc' = "fetch"
  /\ proc' = [l \in Labels |->
                IF l \in UptimeLabels /\ CanSpawn(l) THEN "start" ELSE proc[l]]
  /\ UNCHANGED <<status, todo, events_in_progress, args, selected, hadAgent, chunk,
                 shared, migrated, faults>>

\* Mutant of fetch_event_crd: only pending events are listed.
fetch_pending_event_crd ==
  /\ bpc = "fetch"
  /\ bpc' = "spawn"
  /\ \E listed \in BOOLEAN :
       /\ Uses(~listed)
       /\ todo' = {e \in Events : listed /\ status[e] = "pending"}
  /\ UNCHANGED <<status, events_in_progress, worker, shared, migrated>>

\* A failed listing is logged and returns no events.
fetch_event_crd ==
  /\ bpc = "fetch"
  /\ bpc' = "spawn"
  /\ \E listed \in BOOLEAN :
       /\ Uses(~listed)
       /\ todo' = {e \in Events :
                     /\ listed
                     /\ status[e] \in {"pending", "inprogress"}
                     /\ \A l \in EventLabels : events_in_progress[l] # e}
  /\ UNCHANGED <<status, events_in_progress, worker, shared, migrated>>

\* mark_event: a failed patch is logged and ignored.
mark_event(e, new) ==
  \E patched \in BOOLEAN :
    /\ Uses(~patched)
    /\ status' = IF patched THEN [status EXCEPT ![e] = new] ELSE status

\* Mutant of spawn_event_worker: the table keeps the entry it has.
spawn_event_worker_setdefault(e) ==
  /\ bpc = "spawn"
  /\ e \in todo
  /\ todo' = todo \ {e}
  /\ PoolOf[e] \in Accepting
  /\ CanSpawn(EventLabel(e))
  /\ Goto(EventLabel(e), "start")
  /\ args' = [args EXCEPT ![EventLabel(e)] = e]
  /\ mark_event(e, "inprogress")
  /\ events_in_progress' =
       [events_in_progress EXCEPT ![EventLabel(e)] = IF @ = None THEN e ELSE @]
  /\ UNCHANGED <<bpc, selected, hadAgent, chunk, shared, migrated>>

spawn_event_worker(e) ==
  /\ bpc = "spawn"
  /\ e \in todo
  /\ todo' = todo \ {e}
  /\ LET l == EventLabel(e)
     IN \/ /\ PoolOf[e] \notin Accepting
           /\ mark_event(e, "skipped")
           /\ UNCHANGED <<proc, args, events_in_progress>>
        \/ /\ PoolOf[e] \in Accepting
           /\ CanSpawn(l)
           /\ Goto(l, "start")
           /\ args' = [args EXCEPT ![l] = e]
           /\ mark_event(e, "inprogress")
           /\ events_in_progress' = [events_in_progress EXCEPT ![l] = e]
        \/ /\ PoolOf[e] \in Accepting
           /\ ~CanSpawn(l)
           /\ UNCHANGED <<proc, args, events_in_progress, status, faults>>
  /\ UNCHANGED <<bpc, selected, hadAgent, chunk, shared, migrated>>

AllLookedAt ==
  /\ bpc = "spawn" /\ todo = {}
  /\ bpc' = "monitor"
  /\ UNCHANGED <<status, todo, events_in_progress, worker, shared, migrated,
                 faults>>

\* Mutant of monitor_workers: whatever exited is completed.
monitor_exited_workers ==
  /\ bpc = "monitor"
  /\ bpc' = "fetch"
  /\ LET completed == {l \in Labels : proc[l] \in {"exit0", "exit1"}}
     IN /\ proc' = [l \in Labels |-> IF l \in completed THEN "absent"
                                     ELSE proc[l]]
        /\ status' = [e \in Events |->
                        IF \E l \in completed \cap EventLabels :
                             events_in_progress[l] = e
                        THEN "completed" ELSE status[e]]
        /\ events_in_progress' =
             [l \in EventLabels |-> IF l \in completed THEN None
                                    ELSE events_in_progress[l]]
  /\ UNCHANGED <<todo, args, selected, hadAgent, chunk, shared, migrated, faults>>

\* Whatever exited with 0 is completed and forgotten, whatever else exited is
\* restarted with the arguments it had; the slots are not looked at again.
monitor_workers ==
  /\ bpc = "monitor"
  /\ bpc' = "fetch"
  /\ LET completed == {l \in Labels : proc[l] = "exit0"}
         done == {events_in_progress[l] : l \in completed \cap EventLabels}
     IN /\ proc' = [l \in Labels |->
                      IF l \in completed THEN "absent"
                      ELSE IF proc[l] = "exit1" THEN "start" ELSE proc[l]]
        /\ \E lost \in SUBSET done :
             /\ Cardinality(lost) <= 1
             /\ Uses(lost # {})
             /\ status' = [e \in Events |-> IF e \in done \ lost
                                            THEN "completed" ELSE status[e]]
        /\ events_in_progress' =
             [l \in EventLabels |-> IF l \in completed THEN None
                                    ELSE events_in_progress[l]]
  /\ UNCHANGED <<todo, args, selected, hadAgent, chunk, shared, migrated>>

\* The batch ends and is started anew.  Its processes are daemons, which
\* multiprocessing terminates when their parent exits, and a container ends
\* with its first process: they end in the middle of whatever they do, and
\* locks and tables start afresh.
BatchRestart ==
  /\ Uses(TRUE)
  /\ bpc' = "init"
  /\ todo' = {}
  /\ proc' = [l \in Labels |-> "absent"]
  /\ events_in_progress' = [l \in EventLabels |-> None]
  /\ locked' = [p \in Pools |-> FALSE]
  /\ selected' = [l \in Labels |-> {}]
  /\ hadAgent' = [l \in Labels |-> {}]
  /\ chunk' = [l \in Labels |-> {}]
  /\ UNCHANGED <<status, args, node, agents, paused, overruns, migrated>>

-----------------------------------------------------------------------------
(* The workers.                                                             *)

\* PoolManager and its state are loaded before anything else.
Load(l) ==
  /\ proc[l] = "start"
  /\ \E loaded \in BOOLEAN :
       /\ Uses(~loaded)
       /\ Goto(l, IF loaded THEN "acquire" ELSE "exit1")
  /\ UNCHANGED <<batch, args, selected, hadAgent, chunk, shared, migrated>>

\* The event worker still has to set up; the uptime worker selects at once.
AfterAcquire(l) == IF l \in EventLabels THEN "setup" ELSE "select"

\* Mutant of acquire: the lock is not waited for.
acquire_at_once(l) ==
  /\ proc[l] = "acquire"
  /\ locked' = [locked EXCEPT ![Pool(l)] = TRUE]
  /\ Goto(l, AfterAcquire(l))
  /\ UNCHANGED <<batch, args, selected, hadAgent, chunk, node, agents, paused, overruns,
                 migrated, faults>>

acquire(l) ==
  /\ proc[l] = "acquire"
  /\ ~locked[Pool(l)]
  /\ locked' = [locked EXCEPT ![Pool(l)] = TRUE]
  /\ Goto(l, AfterAcquire(l))
  /\ UNCHANGED <<batch, args, selected, hadAgent, chunk, node, agents, paused, overruns,
                 migrated, faults>>

\* pool_lock.acquire(timeout=...) returns False, which nothing looks at: the
\* event worker goes on, and will release the lock as if it held it.
AcquireTimesOut(l) ==
  /\ l \in EventLabels
  /\ proc[l] = "acquire"
  /\ locked[Pool(l)]
  /\ Overruns(\E h \in Labels : Pool(h) = Pool(l) /\ Working(h))
  /\ Goto(l, AfterAcquire(l))
  /\ UNCHANGED <<batch, args, selected, hadAgent, chunk, locked, node, agents, paused, migrated,
                 faults>>

\* The autoscaler is disabled, the pool prescaled and its health awaited; any
\* of these may raise, and the finally clause follows.
Setup(l) ==
  /\ l \in EventLabels
  /\ proc[l] = "setup"
  /\ \/ /\ paused' = IF disable_autoscaling THEN paused \cup {Pool(l)} ELSE paused
        /\ \E healthy \in BOOLEAN :
             Uses(~healthy) /\ Goto(l, IF healthy THEN "select" ELSE "fail")
     \/ /\ Uses(TRUE)
        /\ Goto(l, "fail")
        /\ UNCHANGED paused
  /\ UNCHANGED <<batch, args, selected, hadAgent, chunk, locked, node, agents, overruns,
                 migrated>>

\* The node_selector of a worker: the nodes with an agent that do not match
\* the event's condition, or those that have been up for too long, agent or no.
NodeSelector(l) ==
  {n \in Nodes : /\ node[Pool(l)][n] # "new"
                 /\ n \in IF l \in UptimeLabels THEN Aged ELSE joined[Pool(l)]}

\* _drain_node_selection: the nodes are selected once, at its start.
Select(l) ==
  /\ proc[l] = "select"
  /\ selected' = [selected EXCEPT ![l] = NodeSelector(l)]
  /\ hadAgent' = [hadAgent EXCEPT ![l] = NodeSelector(l) \cap joined[Pool(l)]]
  /\ Goto(l, "drain")
  /\ UNCHANGED <<batch, args, chunk, shared, migrated, faults>>

\* Mutant of NextChunk: an inclusive upper bound.
NextChunkInclusive(l) ==
  {n \in selected[l] : Cardinality({o \in selected[l] : o < n}) <= Rate}

\* The next chunk, in precedence order.
NextChunk(l) ==
  {n \in selected[l] : Cardinality({o \in selected[l] : o < n}) < Rate}

SubmitChunk(l) ==
  /\ proc[l] = "drain"
  /\ selected[l] # {}
  /\ chunk' = [chunk EXCEPT ![l] = NextChunk(l)]
  /\ selected' = [selected EXCEPT ![l] = @ \ NextChunk(l)]
  /\ node' = [node EXCEPT ![Pool(l)] =
                [n \in Nodes |-> IF n \in NextChunk(l) /\ @[n] = "old"
                                 THEN "leaving" ELSE @[n]]]
  /\ Goto(l, "check")
  /\ UNCHANGED <<batch, args, hadAgent, locked, agents, paused, overruns, migrated,
                 faults>>

\* Mutant of ChunkGone: it is enough that the nodes are on their way.
ChunkGoing(l) == \A n \in chunk[l] : node[Pool(l)][n] # "old"

\* _monitor_pool_health: no instance of the chunk has the agent it had when it
\* was selected; one without an agent has the same one, none, until it joins.
ChunkGone(l) ==
  \A n \in chunk[l] : (n \in joined[Pool(l)]) # (n \in hadAgent[l])

Healthy(l) ==
  /\ proc[l] = "check"
  /\ ChunkGone(l)
  /\ Goto(l, "drain")
  /\ UNCHANGED <<batch, args, selected, hadAgent, chunk, shared, migrated, faults>>

AllRecycled(l) ==
  /\ proc[l] = "drain"
  /\ selected[l] = {}
  /\ Goto(l, "succeed")
  /\ Return(l)
  /\ UNCHANGED <<batch, args, shared, migrated, faults>>

\* A node of the chunk was given up by the drainer, or had no agent to begin
\* with: the check will time out.
Unreachable(l) ==
  /\ proc[l] = "check"
  /\ \E n \in chunk[l] : node[Pool(l)][n] = "old" \/ n \notin hadAgent[l]

\* The pool did not come back in time, an API call raised an exception, or
\* limit_function_runtime interrupted the event worker.  The uptime worker
\* ignores a chunk that did not come back, but not an exception.
Unhealthy(l) ==
  /\ proc[l] = "select" \/ Recycling(l)
  /\ Uses(~Unreachable(l))
  /\ \E to \in {"fail"} \cup (IF l \in UptimeLabels /\ proc[l] = "check"
                             THEN {"succeed"} ELSE {}) : Goto(l, to)
  /\ Return(l)
  /\ UNCHANGED <<batch, args, shared, migrated>>

\* release: of a lock that nobody holds it raises ValueError.
release(l) == locked' = [locked EXCEPT ![Pool(l)] = FALSE]

\* Mutant of Finally: the exit code does not tell that enabling failed.
FinallyQuietly(l) ==
  /\ l \in EventLabels
  /\ proc[l] \in {"succeed", "fail"}
  /\ release(l)
  /\ \E enabled \in BOOLEAN :
       LET released == locked[Pool(l)]
       IN /\ Uses(released /\ ~enabled)
          /\ paused' = IF released /\ enabled /\ disable_autoscaling
                       THEN paused \ {Pool(l)} ELSE paused
          /\ Goto(l, IF proc[l] = "succeed" /\ released THEN "exit0" ELSE "exit1")
          /\ migrated' = IF proc[l] = "succeed" THEN migrated \cup {args[l]}
                         ELSE migrated
  /\ UNCHANGED <<batch, args, selected, hadAgent, chunk, node, agents, overruns>>

\* The finally clause of event_migration_worker: release, then re-enable the
\* autoscaler; an exception in either makes the worker fail.
Finally(l) ==
  /\ l \in EventLabels
  /\ proc[l] \in {"succeed", "fail"}
  /\ release(l)
  /\ \E enabled \in BOOLEAN :
       LET released == locked[Pool(l)]
       IN /\ Uses(released /\ ~enabled)
          /\ paused' = IF released /\ enabled /\ disable_autoscaling
                       THEN paused \ {Pool(l)} ELSE paused
          /\ Goto(l, IF proc[l] = "succeed" /\ released /\ enabled
                     THEN "exit0" ELSE "exit1")
          /\ migrated' = IF proc[l] = "succeed" THEN migrated \cup {args[l]}
                         ELSE migrated
  /\ UNCHANGED <<batch, args, selected, hadAgent, chunk, node, agents, overruns>>

\* The end of the uptime worker's with block: it waits and starts over, unless
\* an exception, or a lock that has been released meanwhile, ends it.
UptimeIteration(l) ==
  /\ l \in UptimeLabels
  /\ proc[l] \in {"succeed", "fail"}
  /\ release(l)
  /\ Goto(l, IF proc[l] = "succeed" /\ locked[Pool(l)] THEN "acquire"
             ELSE "exit1")
  /\ UNCHANGED <<batch, args, selected, hadAgent, chunk, node, agents, paused, overruns,
                 migrated, faults>>

\* A worker process is killed: no finally clause, no release.
Killed(l) ==
  /\ is_alive(l)
  /\ Uses(TRUE)
  /\ Goto(l, "exit1")
  /\ Return(l)
  /\ UNCHANGED <<batch, args, shared, migrated>>

-----------------------------------------------------------------------------
BatchStep ==
  \/ SpawnUptimeWorkers
  \/ fetch_event_crd
  \/ \E e \in Events : spawn_event_worker(e)
  \/ AllLookedAt
  \/ monitor_workers

WorkerStep(l) ==
  \/ Load(l) \/ AcquireTimesOut(l) \/ Setup(l) \/ Select(l)
  \/ SubmitChunk(l) \/ Healthy(l) \/ AllRecycled(l) \/ Unhealthy(l)
  \/ Finally(l) \/ UptimeIteration(l)

Next ==
  \/ \E e \in Events : create_node_migration_resource(e)
  \/ \E p \in Pools, n \in Nodes : \/ NodeReplaced(p, n) \/ NodeReleased(p, n)
                                   \/ AgentJoins(p, n) \/ AgentLost(p, n)
  \/ \E p \in Pools : PauseExpires(p)
  \/ BatchStep
  \/ BatchRestart
  \/ \E l \in Labels : WorkerStep(l) \/ acquire(l) \/ Killed(l)

Spec == Init /\ [][Next]_vars

\* The batch loops, processes are scheduled, the drainer replaces the nodes it
\* was given (Draining!QueuesRunEmpty); a lock goes to every waiter in the end
\* because the uptime worker sleeps between two acquisitions.
Fairness ==
  /\ WF_vars(BatchStep)
  /\ \A l \in Labels : WF_vars(WorkerStep(l)) /\ SF_vars(acquire(l))
  /\ \A p \in Pools, n \in Nodes : WF_vars(NodeReplaced(p, n))

FairSpec == Spec /\ Fairness

-----------------------------------------------------------------------------
(* Properties.                                                              *)

WorkerStates == {"absent", "start", "acquire", "setup", "select", "drain",
                 "check", "succeed", "fail", "exit0", "exit1"}

TypeOK ==
  /\ status \in [Events -> {None, "pending", "inprogress", "completed",
                            "skipped"}]
  /\ bpc \in {"init", "fetch", "spawn", "monitor"}
  /\ todo \subseteq Events
  /\ proc \in [Labels -> WorkerStates]
  /\ args \in [Labels -> Events \cup {None}]
  /\ events_in_progress \in [EventLabels -> Events \cup {None}]
  /\ locked \in [Pools -> BOOLEAN]
  /\ node \in [Pools -> [Nodes -> {"old", "leaving", "new"}]]
  /\ joined \in [Pools -> SUBSET Nodes]
  /\ covered \in [Events -> SUBSET Nodes]
  /\ selected \in [Labels -> SUBSET Nodes]
  /\ hadAgent \in [Labels -> SUBSET Nodes]
  /\ chunk \in [Labels -> SUBSET Nodes]
  /\ paused \subseteq Pools
  /\ migrated \subseteq Events
  /\ faults \in 0..MaxFaults /\ overruns \in 0..MaxOverruns

\* events_in_progress says which event the process with a label works on, for
\* every event process in the table, dead or alive: monitor_workers pops the
\* entry of a finished process without looking whether it exists, and would
\* mark another event than the one that was migrated if the two differed.
TablesAgree ==
  \A l \in EventLabels :
    /\ proc[l] # "absent" => /\ events_in_progress[l] = args[l]
                             /\ args[l] # None
    /\ proc[l] = "absent" => events_in_progress[l] = None

\* An event is marked completed only after a worker has migrated its pool for
\* this very event, whatever restarts, overwritten table entries and failed
\* status updates come in between.
CompletedWasMigrated ==
  \A e \in Events : status[e] = "completed" => e \in migrated

\* A completed event has left none of the nodes behind that it could see: every
\* instance that had an agent ever since the event was created has been
\* replaced, through failed chunks, nodes the drainer gave up, agents that come
\* and go, and restarts.  (An instance without an agent is not selected: it
\* stays although the event is completed.)
CompletedPoolIsRecycled ==
  \A e \in Events :
    status[e] = "completed" =>
      \A n \in covered[e] : node[PoolOf[e]][n] = "new"

\* A pool's autoscaler is disabled only while some event of the pool is still to
\* be finished, and so a worker still to come that will enable it: whether the
\* worker that disabled it was killed, ended with the batch, found the lock
\* released or failed to enable it, its event is not completed.
PauseIsLifted ==
  \A p \in paused :
    \E e \in Events : PoolOf[e] = p /\ status[e] \in {"pending", "inprogress"}

\* No worker has recycled nodes for longer than expected_duration.
OnTime == overruns = MaxOverruns

\* Two workers of a pool never recycle its nodes at the same time: the event
\* worker and the uptime worker, restarted in whatever order, exclude each
\* other by the lock of the pool, as long as no one overruns the time for which
\* the others wait for it.
OneRecycler ==
  OnTime =>
    \A l1, l2 \in Labels :
      Pool(l1) = Pool(l2) /\ Recycling(l1) /\ Recycling(l2) => l1 = l2

\* As long as nothing has failed and no one overruns, the workers of a pool take
\* at most "rate" nodes away from it at a time (docs: "rate at which nodes are
\* selected for termination").
RateRespected ==
  OnTime /\ faults = MaxFaults =>
    \A p \in Pools : Cardinality({n \in Nodes : node[p][n] = "leaving"}) <= Rate

\* While an event worker recycles nodes the pool's autoscaler is off (docs: "turn
\* off autoscaler while recycling instances").  The code does not promise it: a
\* pause lasts expected_duration from before the pool's health is awaited, and
\* recycling may take expected_duration from then on.
PausedWhileRecycling ==
  \A l \in EventLabels :
    Recycling(l) /\ disable_autoscaling => Pool(l) \in paused

\* The batch never runs more worker processes than it may spawn.
AtMostMaxWorkers == Cardinality(Running) <= MaxWorkers

\* Every event for a pool that accepts events is migrated by some worker in
\* the end, across crashes of workers and of the batch.
EventIsMigrated ==
  \A e \in Events :
    status[e] = "pending" /\ PoolOf[e] \in Accepting ~> e \in migrated
=============================================================================
