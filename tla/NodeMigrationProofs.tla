------------------------- MODULE NodeMigrationProofs -------------------------
(***************************************************************************)
(* Proofs about the node migration batch and its workers, for any pools,   *)
(* events, nodes, rates and number of faults.                              *)
(***************************************************************************)
EXTENDS NodeMigration, FiniteSetTheorems, WellFoundedInduction, TLAPS

-----------------------------------------------------------------------------
(* The inductive invariant.                                                 *)

\* An event worker works on an event of its own pool.
WorksForItsPool ==
  \A l \in EventLabels : args[l] # None => PoolOf[args[l]] = Pool(l)

\* A worker that exited with 0 has migrated its event.
ExitedWasMigrated ==
  \A l \in EventLabels : proc[l] = "exit0" => args[l] \in migrated

\* Whoever is in the table works on an event that is not finished, of a pool
\* that accepts events, and so is whatever has been fetched.
Open(e) == status[e] \in {"pending", "inprogress"}

OnlyOpenWork ==
  /\ \A l \in EventLabels : proc[l] # "absent" => Open(args[l]) /\ Pool(l) \in Accepting
  /\ \A e \in todo : Open(e)
  /\ todo # {} => bpc = "spawn"
  /\ \A e \in migrated : status[e] # None

\* The nodes an event covers and its worker has not got to do yet are all that
\* is left.
RestIsSelected ==
  \A l \in EventLabels : proc[l] # "absent" =>
    \A n \in covered[args[l]] :
      \/ node[Pool(l)][n] = "new"
      \/ /\ proc[l] = "drain" => n \in selected[l]
         /\ proc[l] = "check" => n \in selected[l] \cup chunk[l]
         /\ proc[l] # "succeed"

\* The nodes that a migrated event covers are all new.
MigratedIsRecycled ==
  \A e \in migrated : \A n \in covered[e] : node[PoolOf[e]][n] = "new"

\* A node that an event covers has an agent until it is replaced.
CoveredHasAgent ==
  \A e \in Events : \A n \in covered[e] :
    node[PoolOf[e]][n] = "new" \/ n \in joined[PoolOf[e]]

\* An event worker has selected nodes with an agent only.
SelectedHadAgent ==
  \A l \in EventLabels : selected[l] \cup chunk[l] \subseteq hadAgent[l]

\* A worker that is not recycling nodes has no chunk.
IdleHasNoChunk == \A l \in Labels : ~Recycling(l) => chunk[l] = {}

\* Whoever disabled the autoscaler has not finished.
PauseIsOwned ==
  /\ PauseIsLifted
  /\ paused \subseteq Accepting
  /\ \A l \in EventLabels : proc[l] = "exit0" => Pool(l) \notin paused
  /\ ~disable_autoscaling => paused = {}

\* Chunks are no larger than the rate.
ChunkIsSmall ==
  \A l \in Labels : IsFiniteSet(chunk[l]) /\ Cardinality(chunk[l]) <= Rate

\* As long as no worker takes longer than expected: one worker of a pool is
\* past the lock, and the lock is locked;
Exclusive ==
  \A l \in Labels : Working(l) =>
    /\ locked[Pool(l)]
    /\ \A k \in Labels : Pool(k) = Pool(l) /\ Working(k) => k = l

\* and if nothing fails either, the nodes on their way are of one chunk that
\* is being waited for.
LeavingIsChunk ==
  /\ \A p \in Pools, n \in Nodes :
       node[p][n] = "leaving" =>
         \E l \in Labels : Pool(l) = p /\ proc[l] = "check" /\ n \in chunk[l]
  /\ \A l \in Labels, n \in Nodes :
       proc[l] = "check" /\ n \in chunk[l] => node[Pool(l)][n] # "old"

\* While nothing fails no agent drops out: a node that was up for too long, or
\* that a worker has selected, has its agent until it is replaced.
AgentsStay ==
  /\ \A p \in Pools, n \in Aged : node[p][n] = "new" \/ n \in joined[p]
  /\ \A l \in Labels :
       /\ selected[l] \cup chunk[l] \subseteq hadAgent[l]
       /\ \A n \in hadAgent[l] : node[Pool(l)][n] = "new" \/ n \in joined[Pool(l)]

NothingFailed == faults = MaxFaults

\* The parts about the tables of the batch, about the nodes, about pauses, and
\* about workers that are on time.
Tables ==
  /\ TablesAgree /\ WorksForItsPool /\ ExitedWasMigrated /\ CompletedWasMigrated
  /\ OnlyOpenWork
Recycled ==
  /\ MigratedIsRecycled /\ RestIsSelected /\ CoveredHasAgent /\ SelectedHadAgent
  /\ IdleHasNoChunk
Timely ==
  /\ OnTime => Exclusive
  /\ NothingFailed => AgentsStay
  /\ OnTime /\ NothingFailed => LeavingIsChunk

IInv == TypeOK /\ Tables /\ Recycled /\ PauseIsOwned /\ Timely /\ ChunkIsSmall

-----------------------------------------------------------------------------
(* Labels.                                                                  *)

\* A label belongs to a pool; event and uptime workers have different labels.
LEMMA LabelFacts ==
  /\ EventLabels \subseteq Labels /\ UptimeLabels \subseteq Labels
  /\ \A l \in Labels : Pool(l) \in Pools
  /\ \A l \in Labels : l \in EventLabels <=> l \notin UptimeLabels
  /\ \A k, l \in EventLabels : Pool(k) = Pool(l) => k = l
  /\ \A p \in Pools : <<"event", p>> \in EventLabels /\ Pool(<<"event", p>>) = p
  BY ConstantsAssumption DEF Labels, EventLabels, UptimeLabels, Pool

\* The worker of an event is the event worker of its pool.
LEMMA EventLabelFacts ==
  ASSUME NEW e \in Events
  PROVE  EventLabel(e) \in EventLabels /\ Pool(EventLabel(e)) = PoolOf[e]
  BY ConstantsAssumption DEF EventLabel, EventLabels, Pool

-----------------------------------------------------------------------------
(* Type correctness.                                                        *)

\* Using up a fault keeps their number within its bound, and leaves it at the
\* bound only if nothing has been used up.
LEMMA UsesFacts ==
  ASSUME TypeOK, NEW b, Uses(b)
  PROVE  /\ faults' \in 0..MaxFaults
         /\ faults' = MaxFaults => ~b /\ faults = MaxFaults
  BY ConstantsAssumption DEF TypeOK, Uses

\* The same for overruns.
LEMMA OverrunsFacts ==
  ASSUME TypeOK, NEW b, Overruns(b)
  PROVE  /\ overruns' \in 0..MaxOverruns
         /\ overruns' = MaxOverruns => ~b /\ overruns = MaxOverruns
  BY ConstantsAssumption DEF TypeOK, Overruns

\* A worker that goes on to another state keeps the types.
LEMMA GotoType ==
  ASSUME TypeOK, NEW l \in Labels, NEW to \in WorkerStates, Goto(l, to)
  PROVE  /\ proc' \in [Labels -> WorkerStates]
         /\ proc'[l] = to
         /\ \A k \in Labels : k # l => proc'[k] = proc[k]
  BY DEF TypeOK, Goto

\* The batch starts in a well-typed state.
LEMMA InitType == Init => TypeOK
  BY ConstantsAssumption DEF Init, TypeOK, WorkerStates, Nodes

\* What happens outside of the batch keeps the types.
LEMMA EnvironmentType ==
  ASSUME TypeOK
  PROVE  /\ \A e \in Events : create_node_migration_resource(e) => TypeOK'
         /\ \A p \in Pools, n \in Nodes :
              NodeReplaced(p, n) \/ NodeReleased(p, n) \/ AgentJoins(p, n) \/ AgentLost(p, n)
                => TypeOK'
         /\ \A p \in Pools : PauseExpires(p) => TypeOK'
  <1>1. ASSUME NEW e \in Events, create_node_migration_resource(e)
        PROVE  TypeOK'
    <2>1. joined[PoolOf[e]] \in SUBSET Nodes
      BY ConstantsAssumption DEF TypeOK
    <2>2. QED
      BY <1>1, <2>1 DEF TypeOK, create_node_migration_resource, worker
  <1>2. ASSUME NEW p \in Pools, NEW n \in Nodes, NodeReplaced(p, n)
        PROVE  TypeOK'
    BY <1>2 DEF TypeOK, NodeReplaced, batch, worker
  <1>3. ASSUME NEW p \in Pools, NEW n \in Nodes, NodeReleased(p, n)
        PROVE  TypeOK'
    BY <1>3, UsesFacts DEF TypeOK, NodeReleased, batch, worker, agents
  <1>4. ASSUME NEW p \in Pools, PauseExpires(p)
        PROVE  TypeOK'
    <2>1. overruns' \in 0..MaxOverruns
      BY <1>4, OverrunsFacts DEF PauseExpires
    <2>2. QED
      BY <1>4, <2>1 DEF TypeOK, PauseExpires, batch, worker, agents
  <1>5. ASSUME NEW p \in Pools, NEW n \in Nodes, AgentJoins(p, n)
        PROVE  TypeOK'
    BY <1>5 DEF TypeOK, AgentJoins, batch, worker
  <1>6. ASSUME NEW p \in Pools, NEW n \in Nodes, AgentLost(p, n)
        PROVE  TypeOK'
    BY <1>6, UsesFacts DEF TypeOK, AgentLost, batch, worker
  <1>7. QED
    BY <1>1, <1>2, <1>3, <1>4, <1>5, <1>6

\* Patching an event's status keeps the types.
LEMMA MarkType ==
  ASSUME TypeOK, NEW e \in Events, NEW new \in {"inprogress", "completed", "skipped"},
         mark_event(e, new)
  PROVE  /\ status' \in [Events -> {None, "pending", "inprogress", "completed", "skipped"}]
         /\ faults' \in 0..MaxFaults
         /\ \A x \in Events : status'[x] \in {status[x], new}
  BY UsesFacts DEF TypeOK, mark_event

\* The steps of the batch keep the types.
LEMMA BatchType ==
  ASSUME TypeOK, BatchStep \/ BatchRestart
  PROVE  TypeOK'
  <1>1. CASE SpawnUptimeWorkers
    BY <1>1 DEF TypeOK, SpawnUptimeWorkers, shared, agents, WorkerStates
  <1>2. CASE fetch_event_crd
    <2>1. faults' \in 0..MaxFaults
      BY <1>2, UsesFacts DEF fetch_event_crd
    <2>2. QED
      BY <1>2, <2>1 DEF TypeOK, fetch_event_crd, worker, shared, agents
  <1>3. ASSUME NEW e \in Events, spawn_event_worker(e)
        PROVE  TypeOK'
    <2>1. CASE mark_event(e, "skipped") /\ UNCHANGED <<proc, args, events_in_progress>>
      BY <1>3, <2>1, MarkType DEF TypeOK, spawn_event_worker, shared, agents
    <2>2. CASE /\ Goto(EventLabel(e), "start")
               /\ args' = [args EXCEPT ![EventLabel(e)] = e]
               /\ mark_event(e, "inprogress")
               /\ events_in_progress' = [events_in_progress EXCEPT ![EventLabel(e)] = e]
      <3>1. EventLabel(e) \in Labels /\ "start" \in WorkerStates
        BY EventLabelFacts, LabelFacts DEF WorkerStates
      <3>2. /\ proc' \in [Labels -> WorkerStates]
            /\ args' \in [Labels -> Events \cup {None}]
            /\ events_in_progress' \in [EventLabels -> Events \cup {None}]
        BY <2>2, <3>1, GotoType DEF TypeOK
      <3>3. QED
        BY <1>3, <2>2, <3>2, MarkType DEF TypeOK, spawn_event_worker, shared, agents
    <2>3. CASE UNCHANGED <<proc, args, events_in_progress, status, faults>>
      BY <1>3, <2>3 DEF TypeOK, spawn_event_worker, shared, agents
    <2>4. QED
      BY <1>3, <2>1, <2>2, <2>3 DEF spawn_event_worker
  <1>4. CASE AllLookedAt
    BY <1>4 DEF TypeOK, AllLookedAt, worker, shared, agents
  <1>5. CASE monitor_workers
    <2>1. faults' \in 0..MaxFaults
      BY <1>5, UsesFacts DEF monitor_workers
    <2>2. status' \in [Events -> {None, "pending", "inprogress", "completed", "skipped"}]
      BY <1>5 DEF TypeOK, monitor_workers
    <2>3. proc' \in [Labels -> WorkerStates]
      BY <1>5 DEF TypeOK, monitor_workers, WorkerStates
    <2>4. events_in_progress' \in [EventLabels -> Events \cup {None}]
      BY <1>5 DEF TypeOK, monitor_workers
    <2>5. QED
      BY <1>5, <2>1, <2>2, <2>3, <2>4 DEF TypeOK, monitor_workers, shared, agents
  <1>6. CASE BatchRestart
    BY <1>6, UsesFacts DEF TypeOK, BatchRestart, WorkerStates, agents
  <1>7. QED
    BY <1>1, <1>2, <1>3, <1>4, <1>5, <1>6 DEF BatchStep

\* The chunk to submit next is a part of the selection.
LEMMA ChunkType ==
  ASSUME TypeOK, NEW l \in Labels
  PROVE  NextChunk(l) \subseteq selected[l] /\ NextChunk(l) \subseteq Nodes
  BY DEF TypeOK, NextChunk

\* The steps of a worker, its acquisition of the lock and its death keep the
\* types: an event worker that is in the table has an event.
LEMMA WorkerType ==
  ASSUME TypeOK, TablesAgree, NEW l \in Labels, WorkerStep(l) \/ acquire(l) \/ Killed(l)
  PROVE  TypeOK'
  <1> USE DEF TypeOK, agents, Return
  <1>0. Pool(l) \in Pools
    BY LabelFacts
  <1>1. CASE Load(l)
    BY <1>1, GotoType, UsesFacts DEF Load, batch, shared, WorkerStates
  <1>2. CASE acquire(l)
    <2>1. AfterAcquire(l) \in WorkerStates
      BY DEF AfterAcquire, WorkerStates
    <2>2. QED
      BY <1>2, <2>1, GotoType DEF acquire, batch
  <1>3. CASE AcquireTimesOut(l)
    <2>1. AfterAcquire(l) \in WorkerStates
      BY DEF AfterAcquire, WorkerStates
    <2>2. overruns' \in 0..MaxOverruns
      BY <1>3, OverrunsFacts DEF AcquireTimesOut
    <2>3. QED
      BY <1>3, <2>1, <2>2, GotoType DEF AcquireTimesOut, batch
  <1>4. CASE Setup(l)
    <2>1. faults' \in 0..MaxFaults
      BY <1>4, UsesFacts DEF Setup
    <2>2. proc' \in [Labels -> WorkerStates]
      BY <1>4, GotoType DEF Setup, WorkerStates
    <2>3. QED
      BY <1>0, <1>4, <2>1, <2>2 DEF Setup, batch
  <1>5. CASE Select(l)
    <2>1. NodeSelector(l) \subseteq Nodes
      BY DEF NodeSelector
    <2>2. selected' \in [Labels -> SUBSET Nodes] /\ hadAgent' \in [Labels -> SUBSET Nodes]
      BY <1>5, <2>1 DEF Select
    <2>3. QED
      BY <1>5, <2>2, GotoType DEF Select, batch, shared, WorkerStates
  <1>6. CASE SubmitChunk(l)
    <2>1. selected' \in [Labels -> SUBSET Nodes] /\ chunk' \in [Labels -> SUBSET Nodes]
      BY <1>6, ChunkType DEF SubmitChunk
    <2>2. node' \in [Pools -> [Nodes -> {"old", "leaving", "new"}]]
      BY <1>0, <1>6 DEF SubmitChunk
    <2>3. QED
      BY <1>6, <2>1, <2>2, GotoType DEF SubmitChunk, batch, WorkerStates
  <1>7. CASE Healthy(l)
    BY <1>7, GotoType DEF Healthy, batch, shared, WorkerStates
  <1>8. CASE AllRecycled(l)
    BY <1>8, GotoType DEF AllRecycled, batch, shared, WorkerStates
  <1>9. CASE Unhealthy(l)
    <2>1. faults' \in 0..MaxFaults
      BY <1>9, UsesFacts DEF Unhealthy
    <2>2. proc' \in [Labels -> WorkerStates]
      BY <1>9, GotoType DEF Unhealthy, WorkerStates
    <2>3. QED
      BY <1>9, <2>1, <2>2 DEF Unhealthy, batch, shared
  <1>10. CASE Finally(l)
    <2>1. faults' \in 0..MaxFaults
      BY <1>10, UsesFacts DEF Finally
    <2>2. proc' \in [Labels -> WorkerStates]
      BY <1>10, GotoType DEF Finally, WorkerStates
    <2>3. locked' \in [Pools -> BOOLEAN] /\ paused' \subseteq Pools
      BY <1>0, <1>10 DEF Finally, release
    <2>4. migrated' \subseteq Events
      BY <1>10 DEF Finally, TablesAgree
    <2>5. QED
      BY <1>10, <2>1, <2>2, <2>3, <2>4 DEF Finally, batch
  <1>11. CASE UptimeIteration(l)
    <2>1. proc' \in [Labels -> WorkerStates]
      BY <1>11, GotoType DEF UptimeIteration, WorkerStates
    <2>2. QED
      BY <1>0, <1>11, <2>1 DEF UptimeIteration, batch, release
  <1>12. CASE Killed(l)
    BY <1>12, GotoType, UsesFacts DEF Killed, batch, shared, WorkerStates
  <1>13. QED
    BY <1>1, <1>2, <1>3, <1>4, <1>5, <1>6, <1>7, <1>8, <1>9, <1>10, <1>11, <1>12
    DEF WorkerStep

-----------------------------------------------------------------------------
(* The tables of the batch.                                                 *)

\* What a step of a worker means to the batch: the tables stay, the process
\* stays in its table, and it exits with 0 only when its event is migrated.
LEMMA WorkerEffect ==
  ASSUME TypeOK, NEW l \in Labels, WorkerStep(l) \/ acquire(l) \/ Killed(l)
  PROVE  /\ UNCHANGED <<status, bpc, todo, args, events_in_progress, joined, covered>>
         /\ proc[l] # "absent" /\ proc'[l] # "absent"
         /\ \A k \in Labels : k # l => proc'[k] = proc[k]
         /\ migrated \subseteq migrated'
         /\ migrated' # migrated =>
              l \in EventLabels /\ proc[l] = "succeed" /\ migrated' = migrated \cup {args[l]}
         /\ l \in EventLabels /\ proc'[l] = "exit0" => args[l] \in migrated'
  <1> USE DEF TypeOK, Goto, agents
  <1>1. CASE Load(l)
    BY <1>1 DEF Load, batch, shared
  <1>2. CASE acquire(l)
    BY <1>2 DEF acquire, AfterAcquire, batch
  <1>3. CASE AcquireTimesOut(l)
    BY <1>3 DEF AcquireTimesOut, AfterAcquire, batch
  <1>4. CASE Setup(l)
    BY <1>4 DEF Setup, batch
  <1>5. CASE Select(l)
    BY <1>5 DEF Select, batch, shared
  <1>6. CASE SubmitChunk(l)
    BY <1>6 DEF SubmitChunk, batch
  <1>7. CASE Healthy(l)
    BY <1>7 DEF Healthy, batch, shared
  <1>8. CASE AllRecycled(l)
    BY <1>8 DEF AllRecycled, batch, shared
  <1>9. CASE Unhealthy(l)
    BY <1>9 DEF Unhealthy, Recycling, batch, shared
  <1>10. CASE Finally(l)
    BY <1>10 DEF Finally, batch
  <1>11. CASE UptimeIteration(l)
    BY <1>11, LabelFacts DEF UptimeIteration, batch
  <1>12. CASE Killed(l)
    BY <1>12 DEF Killed, is_alive, batch, shared
  <1>13. QED
    BY <1>1, <1>2, <1>3, <1>4, <1>5, <1>6, <1>7, <1>8, <1>9, <1>10, <1>11, <1>12
    DEF WorkerStep

\* A worker's step keeps the tables in order.
LEMMA WorkerTables ==
  ASSUME TypeOK, Tables, NEW l \in Labels, WorkerStep(l) \/ acquire(l) \/ Killed(l)
  PROVE  Tables'
  <1>1. TablesAgree'
    BY WorkerEffect, LabelFacts DEF Tables, TablesAgree
  <1>2. WorksForItsPool'
    BY WorkerEffect DEF Tables, WorksForItsPool
  <1>3. ExitedWasMigrated'
    BY WorkerEffect, LabelFacts DEF Tables, ExitedWasMigrated
  <1>4. CompletedWasMigrated'
    BY WorkerEffect DEF Tables, CompletedWasMigrated
  <1>5. OnlyOpenWork'
    <2>1. \A k \in EventLabels : proc'[k] # "absent" => proc[k] # "absent"
      BY WorkerEffect, LabelFacts
    <2>2. \A e \in migrated' : e \in migrated \/ (l \in EventLabels /\ e = args[l])
      BY WorkerEffect
    <2>3. l \in EventLabels => status[args[l]] # None
      BY WorkerEffect, ConstantsAssumption DEF Tables, OnlyOpenWork, Open
    <2>4. QED
      BY <2>1, <2>2, <2>3, WorkerEffect DEF Tables, OnlyOpenWork, Open
  <1>6. QED
    BY <1>1, <1>2, <1>3, <1>4, <1>5 DEF Tables

\* The batch's own steps keep them in order: spawning overwrites both tables
\* together, and what monitor_workers completes has been migrated.
LEMMA BatchTables ==
  ASSUME TypeOK, Tables, BatchStep \/ BatchRestart
  PROVE  Tables'
  <1> USE DEF Tables, TypeOK
  <1>1. CASE SpawnUptimeWorkers
    <2>1. \A l \in EventLabels : proc'[l] = proc[l]
      BY <1>1, LabelFacts DEF SpawnUptimeWorkers
    <2>2. QED
      BY <1>1, <2>1 DEF SpawnUptimeWorkers, TablesAgree, WorksForItsPool,
         ExitedWasMigrated, CompletedWasMigrated, OnlyOpenWork, Open
  <1>2. CASE fetch_event_crd
    BY <1>2 DEF fetch_event_crd, worker, TablesAgree, WorksForItsPool,
       ExitedWasMigrated, CompletedWasMigrated, OnlyOpenWork, Open
  <1>3. ASSUME NEW e \in Events, spawn_event_worker(e)
        PROVE  Tables'
    <2>1. /\ migrated' = migrated /\ bpc = "spawn" /\ bpc' = bpc
          /\ e \in todo /\ todo' \subseteq todo /\ e \notin todo' /\ Open(e)
      BY <1>3 DEF spawn_event_worker, OnlyOpenWork
    <2>2. CASE /\ PoolOf[e] \notin Accepting
               /\ mark_event(e, "skipped")
               /\ UNCHANGED <<proc, args, events_in_progress>>
      <3>1. \A x \in Events : x # e => status'[x] = status[x]
        BY <2>2 DEF mark_event
      <3>2. \A l \in EventLabels : proc[l] # "absent" => args[l] \in Events /\ args[l] # e
        BY <2>2 DEF TablesAgree, WorksForItsPool, OnlyOpenWork
      <3>3. status'[e] # None
        BY <2>1, <2>2, MarkType, ConstantsAssumption DEF Open
      <3>4. OnlyOpenWork'
        BY <2>1, <2>2, <3>1, <3>2, <3>3 DEF OnlyOpenWork, Open
      <3>5. QED
        BY <2>1, <2>2, <3>4, MarkType DEF TablesAgree, WorksForItsPool,
           ExitedWasMigrated, CompletedWasMigrated
    <2>3. CASE /\ PoolOf[e] \in Accepting
               /\ Goto(EventLabel(e), "start")
               /\ args' = [args EXCEPT ![EventLabel(e)] = e]
               /\ mark_event(e, "inprogress")
               /\ events_in_progress' = [events_in_progress EXCEPT ![EventLabel(e)] = e]
      <3> DEFINE l == EventLabel(e)
      <3>1. l \in EventLabels /\ l \in Labels /\ Pool(l) = PoolOf[e] /\ e # None
        BY EventLabelFacts, LabelFacts, ConstantsAssumption
      <3>2. /\ proc'[l] = "start" /\ args'[l] = e /\ events_in_progress'[l] = e
            /\ \A k \in EventLabels : k # l =>
                 /\ proc'[k] = proc[k] /\ args'[k] = args[k]
                 /\ events_in_progress'[k] = events_in_progress[k]
        BY <2>3, <3>1, LabelFacts DEF Goto
      <3> HIDE DEF l
      <3>3. TablesAgree' /\ WorksForItsPool' /\ ExitedWasMigrated'
        BY <2>1, <3>1, <3>2 DEF TablesAgree, WorksForItsPool, ExitedWasMigrated
      <3>4. CompletedWasMigrated'
        BY <2>1, <2>3, MarkType DEF CompletedWasMigrated
      <3>5. \A x \in Events : status'[x] \in {status[x], "inprogress"}
        BY <2>3, MarkType
      <3>6. \A k \in EventLabels : proc[k] # "absent" => args[k] \in Events
        BY DEF TablesAgree
      <3>7. \A x \in Events : /\ Open(x) => Open(x)'
                              /\ status[x] # None => status'[x] # None
        BY <3>5, ConstantsAssumption DEF Open
      <3>8. OnlyOpenWork'
        <4>1. \A k \in EventLabels :
                proc'[k] # "absent" => Open(args[k])' /\ Pool(k) \in Accepting
          <5>1. Open(args[l])' /\ Pool(l) \in Accepting
            BY <2>1, <2>3, <3>1, <3>2, <3>7 DEF Open
          <5>2. ASSUME NEW k \in EventLabels, k # l, proc'[k] # "absent"
                PROVE  Open(args[k])' /\ Pool(k) \in Accepting
            <6>1. proc[k] # "absent" /\ args'[k] = args[k]
              BY <3>2, <5>2
            <6>2. Open(args[k]) /\ Pool(k) \in Accepting /\ args[k] \in Events
              BY <3>6, <6>1 DEF OnlyOpenWork
            <6>3. QED
              BY <3>7, <6>1, <6>2 DEF Open
          <5>3. QED
            BY <5>1, <5>2
        <4>2. \A x \in todo' : Open(x)'
          BY <2>1, <3>7 DEF OnlyOpenWork
        <4>3. \A x \in migrated' : status'[x] # None
          BY <2>1, <3>7 DEF OnlyOpenWork
        <4>4. QED
          BY <2>1, <4>1, <4>2, <4>3 DEF OnlyOpenWork
      <3>9. QED
        BY <3>3, <3>4, <3>8
    <2>4. CASE UNCHANGED <<proc, args, events_in_progress, status, faults>>
      BY <2>1, <2>4 DEF TablesAgree, WorksForItsPool, ExitedWasMigrated,
         CompletedWasMigrated, OnlyOpenWork, Open
    <2>5. QED
      BY <1>3, <2>2, <2>3, <2>4 DEF spawn_event_worker
  <1>4. CASE AllLookedAt
    BY <1>4 DEF AllLookedAt, worker, TablesAgree, WorksForItsPool,
       ExitedWasMigrated, CompletedWasMigrated, OnlyOpenWork, Open
  <1>5. CASE monitor_workers
    <2>1. UNCHANGED <<args, migrated, todo>> /\ todo = {}
      BY <1>5 DEF monitor_workers, OnlyOpenWork
    <2>2. \A l \in EventLabels :
            /\ proc[l] = "exit0" => proc'[l] = "absent" /\ events_in_progress'[l] = None
            /\ proc[l] # "exit0" => /\ events_in_progress'[l] = events_in_progress[l]
                                    /\ proc'[l] # "exit0"
                                    /\ proc'[l] = "absent" <=> proc[l] = "absent"
      BY <1>5, LabelFacts DEF monitor_workers
    <2>3. \A e \in Events :
            \/ status'[e] = status[e]
            \/ /\ status'[e] = "completed"
               /\ \E l \in EventLabels : proc[l] = "exit0" /\ events_in_progress[l] = e
      BY <1>5 DEF monitor_workers
    <2>4. TablesAgree' /\ WorksForItsPool' /\ ExitedWasMigrated'
      BY <2>1, <2>2 DEF TablesAgree, WorksForItsPool, ExitedWasMigrated
    <2>5. CompletedWasMigrated'
      BY <2>1, <2>3 DEF TablesAgree, ExitedWasMigrated, CompletedWasMigrated
    <2>6. ASSUME NEW k \in EventLabels, proc'[k] # "absent"
          PROVE  Open(args[k])' /\ Pool(k) \in Accepting
      <3>1. proc[k] # "absent" /\ proc[k] # "exit0" /\ args[k] \in Events
        BY <2>2, <2>6 DEF TablesAgree
      <3>2. Open(args[k]) /\ Pool(k) \in Accepting
        BY <3>1 DEF OnlyOpenWork
      <3>3. ~(\E l \in EventLabels : proc[l] = "exit0" /\ events_in_progress[l] = args[k])
        <4> SUFFICES ASSUME NEW l \in EventLabels, proc[l] = "exit0",
                            events_in_progress[l] = args[k]
                     PROVE  FALSE
          OBVIOUS
        <4>1. args[l] = args[k] /\ args[k] # None
          BY <3>1 DEF TablesAgree
        <4>2. Pool(l) = Pool(k)
          BY <4>1 DEF WorksForItsPool
        <4>3. QED
          BY <3>1, <4>2, LabelFacts
      <3>4. QED
        BY <2>1, <2>3, <3>1, <3>2, <3>3 DEF Open
    <2>7. \A e \in migrated' : status'[e] # None
      BY <2>1, <2>3, ConstantsAssumption DEF OnlyOpenWork
    <2>8. OnlyOpenWork'
      BY <2>1, <2>6, <2>7 DEF OnlyOpenWork
    <2>9. QED
      BY <2>4, <2>5, <2>8
  <1>6. CASE BatchRestart
    <2>1. \A l \in EventLabels : proc'[l] = "absent" /\ events_in_progress'[l] = None
      BY <1>6, LabelFacts DEF BatchRestart
    <2>2. QED
      BY <1>6, <2>1 DEF BatchRestart, TablesAgree, WorksForItsPool,
         ExitedWasMigrated, CompletedWasMigrated, OnlyOpenWork, Open
  <1>7. QED
    BY <1>1, <1>2, <1>3, <1>4, <1>5, <1>6 DEF BatchStep

-----------------------------------------------------------------------------
(* The nodes of a pool.                                                     *)

\* A worker leaves the work of others alone, and a new node stays new.
LEMMA WorkerFrame ==
  ASSUME TypeOK, NEW l \in Labels, WorkerStep(l) \/ acquire(l) \/ Killed(l)
  PROVE  /\ \A k \in Labels : k # l => /\ selected'[k] = selected[k]
                                       /\ hadAgent'[k] = hadAgent[k]
                                       /\ chunk'[k] = chunk[k]
         /\ UNCHANGED <<joined, covered>>
         /\ ~SubmitChunk(l) => UNCHANGED node /\ chunk'[l] \in {chunk[l], {}}
         /\ ~SubmitChunk(l) /\ ~Select(l) =>
              \/ UNCHANGED <<selected, hadAgent, chunk>>
              \/ selected'[l] = {} /\ hadAgent'[l] = {} /\ chunk'[l] = {}
         /\ \A p \in Pools, n \in Nodes : node[p][n] = "new" => node'[p][n] = "new"
  <1> USE DEF TypeOK, agents
  <1>1. CASE SubmitChunk(l)
    BY <1>1, LabelFacts DEF SubmitChunk
  <1>2. CASE Select(l)
    BY <1>2 DEF Select, SubmitChunk, Goto, shared
  <1>3. CASE ~SubmitChunk(l) /\ ~Select(l)
    <2>1. CASE AllRecycled(l) \/ Unhealthy(l) \/ Killed(l)
      BY <1>3, <2>1 DEF AllRecycled, Unhealthy, Killed, Return, shared
    <2>2. CASE ~AllRecycled(l) /\ ~Unhealthy(l) /\ ~Killed(l)
      <3>1. UNCHANGED <<node, joined, covered, selected, hadAgent, chunk>>
        BY <1>3, <2>2 DEF WorkerStep, Load, acquire, AcquireTimesOut, Setup, Healthy,
           Finally, UptimeIteration, shared
      <3>2. QED
        BY <1>3, <3>1
    <2>3. QED
      BY <2>1, <2>2
  <1>4. QED
    BY <1>1, <1>2, <1>3

\* What an event worker does to its own selection: what its event covers and is
\* not new is still to be done, until there is nothing left.
LEMMA OwnRest ==
  ASSUME TypeOK, Tables, Recycled, NEW l \in EventLabels,
         WorkerStep(l) \/ acquire(l) \/ Killed(l),
         NEW n \in covered[args[l]], node'[Pool(l)][n] # "new"
  PROVE  /\ proc'[l] = "drain" => n \in selected'[l]
         /\ proc'[l] = "check" => n \in selected'[l] \cup chunk'[l]
         /\ proc'[l] # "succeed"
  <1>0. l \in Labels /\ l \notin UptimeLabels /\ Pool(l) \in Pools /\ proc[l] # "absent"
    BY LabelFacts, WorkerEffect
  <1>00. args[l] \in Events /\ PoolOf[args[l]] = Pool(l) /\ n \in Nodes
    BY <1>0 DEF Tables, TablesAgree, WorksForItsPool, TypeOK
  <1>a. node[Pool(l)][n] # "new" /\ n \in joined[Pool(l)]
    BY <1>0, <1>00, WorkerFrame DEF Recycled, CoveredHasAgent
  <1>b. /\ proc[l] = "drain" => n \in selected[l]
        /\ proc[l] = "check" => n \in selected[l] \cup chunk[l]
        /\ proc[l] # "succeed"
    BY <1>0, <1>a DEF Recycled, RestIsSelected
  <1>c. chunk[l] \subseteq hadAgent[l]
    BY DEF Recycled, SelectedHadAgent
  <1> USE DEF TypeOK, Goto
  <1>1. CASE Load(l)
    BY <1>0, <1>1 DEF Load
  <1>2. CASE acquire(l)
    BY <1>0, <1>2 DEF acquire, AfterAcquire
  <1>3. CASE AcquireTimesOut(l)
    BY <1>0, <1>3 DEF AcquireTimesOut, AfterAcquire
  <1>4. CASE Setup(l)
    BY <1>0, <1>4 DEF Setup
  <1>5. CASE Select(l)
    BY <1>0, <1>00, <1>a, <1>5 DEF Select, NodeSelector
  <1>6. CASE SubmitChunk(l)
    BY <1>0, <1>b, <1>6 DEF SubmitChunk
  <1>7. CASE Healthy(l)
    BY <1>0, <1>a, <1>b, <1>c, <1>7 DEF Healthy, ChunkGone
  <1>8. CASE AllRecycled(l)
    BY <1>0, <1>b, <1>8 DEF AllRecycled
  <1>9. CASE Unhealthy(l)
    BY <1>0, <1>9 DEF Unhealthy
  <1>10. CASE Finally(l)
    BY <1>0, <1>10 DEF Finally
  <1>11. CASE UptimeIteration(l)
    BY <1>0, <1>11 DEF UptimeIteration
  <1>12. CASE Killed(l)
    BY <1>0, <1>12 DEF Killed
  <1>13. QED
    BY <1>1, <1>2, <1>3, <1>4, <1>5, <1>6, <1>7, <1>8, <1>9, <1>10, <1>11, <1>12
    DEF WorkerStep

\* An event worker selects nodes with an agent.
LEMMA OwnSelection ==
  ASSUME TypeOK, NEW l \in Labels, WorkerStep(l) \/ acquire(l) \/ Killed(l),
         selected[l] \cup chunk[l] \subseteq hadAgent[l],
         Select(l) => NodeSelector(l) \subseteq joined[Pool(l)] /\ chunk[l] = {}
  PROVE  selected'[l] \cup chunk'[l] \subseteq hadAgent'[l]
  <1>1. CASE SubmitChunk(l)
    BY <1>1, ChunkType DEF SubmitChunk, TypeOK
  <1>2. CASE Select(l)
    BY <1>2 DEF Select, TypeOK
  <1>3. CASE ~SubmitChunk(l) /\ ~Select(l)
    BY <1>3, WorkerFrame
  <1>4. QED
    BY <1>1, <1>2, <1>3

\* A worker's step keeps account of the nodes.
LEMMA WorkerRecycled ==
  ASSUME TypeOK, Tables, Recycled, NEW l \in Labels,
         WorkerStep(l) \/ acquire(l) \/ Killed(l)
  PROVE  Recycled'
  <1>1. \A e \in Events : PoolOf[e] \in Pools /\ covered[e] \subseteq Nodes
    BY ConstantsAssumption DEF TypeOK
  <1>a. migrated \subseteq Events
    BY DEF TypeOK
  <1>2. MigratedIsRecycled'
    <2>1. CASE migrated' = migrated
      BY <1>1, <1>a, <2>1, WorkerFrame DEF Recycled, MigratedIsRecycled
    <2>2. CASE migrated' # migrated
      <3>1. l \in EventLabels /\ proc[l] = "succeed" /\ migrated' = migrated \cup {args[l]}
        BY <2>2, WorkerEffect
      <3>2. args[l] \in Events /\ PoolOf[args[l]] = Pool(l)
        BY <3>1 DEF TypeOK, Tables, TablesAgree, WorksForItsPool
      <3>3. \A n \in covered[args[l]] : node[Pool(l)][n] = "new"
        BY <3>1 DEF Recycled, RestIsSelected
      <3>4. QED
        BY <1>1, <1>a, <3>1, <3>2, <3>3, WorkerFrame DEF Recycled, MigratedIsRecycled
    <2>3. QED
      BY <2>1, <2>2
  <1>3. RestIsSelected'
    <2> SUFFICES ASSUME NEW k \in EventLabels, proc'[k] # "absent",
                        NEW n \in covered'[args'[k]],
                        node'[Pool(k)][n] # "new"
                 PROVE  /\ proc'[k] = "drain" => n \in selected'[k]
                        /\ proc'[k] = "check" => n \in selected'[k] \cup chunk'[k]
                        /\ proc'[k] # "succeed"
      BY DEF RestIsSelected
    <2>0. n \in covered[args[k]]
      BY WorkerEffect
    <2>1. CASE k = l
      BY <2>0, <2>1, OwnRest
    <2>2. CASE k # l
      <3>1. k \in Labels /\ Pool(k) \in Pools
        BY LabelFacts
      <3>2. /\ proc'[k] = proc[k] /\ selected'[k] = selected[k] /\ chunk'[k] = chunk[k]
            /\ args'[k] = args[k]
        BY <2>2, <3>1, WorkerFrame, WorkerEffect
      <3>3. n \in Nodes
        BY <1>1, <2>0, <3>2 DEF Tables, TablesAgree, TypeOK
      <3>4. node[Pool(k)][n] # "new"
        BY <3>1, <3>3, WorkerFrame
      <3>5. QED
        BY <2>0, <3>2, <3>4 DEF Recycled, RestIsSelected
    <2>3. QED
      BY <2>1, <2>2
  <1>4. CoveredHasAgent'
    BY <1>1, WorkerFrame DEF Recycled, CoveredHasAgent
  <1>5. SelectedHadAgent'
    <2>1. l \in EventLabels => selected'[l] \cup chunk'[l] \subseteq hadAgent'[l]
      <3>1. SUFFICES ASSUME l \in EventLabels
                     PROVE  selected'[l] \cup chunk'[l] \subseteq hadAgent'[l]
        OBVIOUS
      <3>2. selected[l] \cup chunk[l] \subseteq hadAgent[l]
        BY <3>1 DEF Recycled, SelectedHadAgent
      <3>3. Select(l) => NodeSelector(l) \subseteq joined[Pool(l)] /\ chunk[l] = {}
        BY <3>1, LabelFacts DEF Select, NodeSelector, Recycled, IdleHasNoChunk, Recycling
      <3>4. QED
        BY <3>2, <3>3, OwnSelection
    <2>2. QED
      BY <2>1, WorkerFrame, LabelFacts DEF Recycled, SelectedHadAgent
  <1>6. IdleHasNoChunk'
    <2>1. Recycling(l)' \/ chunk'[l] = {}
      <3>1. CASE AllRecycled(l) \/ Unhealthy(l) \/ Killed(l)
        BY <3>1 DEF AllRecycled, Unhealthy, Killed, Return, TypeOK
      <3>2. CASE Select(l) \/ SubmitChunk(l) \/ Healthy(l)
        BY <3>2 DEF Select, SubmitChunk, Healthy, Goto, Recycling, TypeOK
      <3>3. CASE \/ Load(l) \/ AcquireTimesOut(l) \/ Setup(l) \/ Finally(l)
                 \/ UptimeIteration(l) \/ acquire(l)
        BY <3>3 DEF Load, AcquireTimesOut, Setup, Finally, UptimeIteration, acquire,
           Recycled, IdleHasNoChunk, Recycling
      <3>4. QED
        BY <3>1, <3>2, <3>3 DEF WorkerStep
    <2>2. \A k \in Labels : k # l => proc'[k] = proc[k] /\ chunk'[k] = chunk[k]
      BY WorkerFrame, WorkerEffect
    <2>3. QED
      BY <2>1, <2>2 DEF Recycled, IdleHasNoChunk, Recycling
  <1>7. QED
    BY <1>2, <1>3, <1>4, <1>5, <1>6 DEF Recycled

\* So does whatever leaves the workers alone and covers no more nodes.
LEMMA OtherRecycled ==
  ASSUME TypeOK, TypeOK', Tables, Recycled,
         UNCHANGED <<proc, args, selected, hadAgent, chunk, migrated>>,
         \A p \in Pools, n \in Nodes : node[p][n] = "new" => node'[p][n] = "new",
         \A e \in Events : e \in migrated \/ Open(e) => covered'[e] \subseteq covered[e],
         CoveredHasAgent'
  PROVE  Recycled'
  <1>1. \A e \in Events : /\ PoolOf[e] \in Pools
                          /\ covered[e] \subseteq Nodes /\ covered'[e] \subseteq Nodes
    BY ConstantsAssumption DEF TypeOK
  <1>2. MigratedIsRecycled'
    BY <1>1 DEF TypeOK, Recycled, MigratedIsRecycled
  <1>3. \A l \in EventLabels : Pool(l) \in Pools
    BY LabelFacts
  <1>4. RestIsSelected'
    <2> SUFFICES ASSUME NEW l \in EventLabels, proc[l] # "absent",
                        NEW n \in covered'[args[l]], node'[Pool(l)][n] # "new"
                 PROVE  /\ proc[l] = "drain" => n \in selected[l]
                        /\ proc[l] = "check" => n \in selected[l] \cup chunk[l]
                        /\ proc[l] # "succeed"
      BY DEF RestIsSelected
    <2>1. args[l] \in Events /\ Open(args[l])
      BY DEF Tables, TablesAgree, OnlyOpenWork, TypeOK
    <2>2. n \in covered[args[l]] /\ n \in Nodes
      BY <1>1, <2>1
    <2>3. node[Pool(l)][n] # "new"
      BY <1>3, <2>2
    <2>4. QED
      BY <2>2, <2>3 DEF Recycled, RestIsSelected
  <1>5. SelectedHadAgent' /\ IdleHasNoChunk'
    BY DEF Recycled, SelectedHadAgent, IdleHasNoChunk, Recycling
  <1>6. QED
    BY <1>2, <1>4, <1>5 DEF Recycled

-----------------------------------------------------------------------------
(* The size of a chunk.                                                     *)

\* A set of natural numbers has a smallest element.
LEMMA SmallestElement ==
  ASSUME NEW D \in SUBSET Nat, D # {}
  PROVE  \E m \in D : \A d \in D : m <= d
  <1> DEFINE R == OpToRel(<, Nat)
  <1>1. IsWellFoundedOn(R, Nat)
    BY NatLessThanWellFounded
  <1>2. \A x, y \in Nat : <<y, x>> \in R <=> y < x
    BY DEF OpToRel
  <1>3. \E m \in D : \A d \in D : ~(<<d, m>> \in R)
    <2> HIDE DEF R
    <2> QED BY <1>1, WFMin
  <1>4. PICK m \in D : \A d \in D : ~(<<d, m>> \in R)
    BY <1>3
  <1>5. \A d \in D : m \in Nat /\ d \in Nat /\ ~(d < m)
    <2> HIDE DEF R
    <2> QED BY <1>2, <1>4
  <1>6. \A d \in D : m <= d
    BY <1>5
  <1>7. QED
    BY <1>6

\* A set of numbers up to some bound has a largest element.
LEMMA LargestElement ==
  ASSUME NEW N \in Nat, NEW C \in SUBSET (1..N), C # {}
  PROVE  \E m \in C : \A c \in C : c <= m
  <1> DEFINE D == {N - c : c \in C}
  <1>1. D \in SUBSET Nat
    OBVIOUS
  <1>2. D # {}
    OBVIOUS
  <1> HIDE DEF D
  <1>3. PICK d \in D : \A x \in D : d <= x
    BY <1>1, <1>2, SmallestElement
  <1> USE DEF D
  <1>4. PICK m \in C : d = N - m
    BY <1>3
  <1>5. \A c \in C : N - c \in D
    OBVIOUS
  <1>6. \A c \in C : d <= N - c
    <2> HIDE DEF D
    <2> QED BY <1>3, <1>5
  <1> HIDE DEF D
  <1>7. \A c \in C : c <= m
    BY <1>4, <1>6
  <1>8. QED
    BY <1>7

\* Numbers that have fewer than Rate elements of a set before them are at most
\* Rate many.
LEMMA ChunkSize ==
  ASSUME NEW S \in SUBSET Nodes, NEW C \in SUBSET S,
         \A n \in C : Cardinality({o \in S : o < n}) < Rate
  PROVE  IsFiniteSet(C) /\ Cardinality(C) <= Rate
  <1>1. \A T \in SUBSET S : IsFiniteSet(T) /\ Cardinality(T) \in Nat
    <2>1. IsFiniteSet(Nodes)
      BY FS_Interval, ConstantsAssumption DEF Nodes
    <2>2. QED
      BY <2>1, FS_Subset, FS_CardinalityType
  <1>2. CASE C = {}
    BY <1>1, <1>2, FS_EmptySet, ConstantsAssumption
  <1>3. CASE C # {}
    <2>1. PICK m \in C : \A c \in C : c <= m
      BY <1>3, LargestElement, ConstantsAssumption DEF Nodes
    <2> DEFINE B == {o \in S : o < m}
    <2>2. IsFiniteSet(B) /\ Cardinality(B) \in Nat /\ Cardinality(B) < Rate
      BY <1>1
    <2>3. C \subseteq B \cup {m}
      BY <2>1, ConstantsAssumption DEF Nodes
    <2> HIDE DEF B
    <2>4. /\ IsFiniteSet(B \cup {m})
          /\ Cardinality(B \cup {m}) \in Nat
          /\ Cardinality(B \cup {m}) <= Cardinality(B) + 1
      <3>1. /\ IsFiniteSet(B \cup {m})
            /\ \/ Cardinality(B \cup {m}) = Cardinality(B)
               \/ Cardinality(B \cup {m}) = Cardinality(B) + 1
        BY <2>2, FS_AddElement
      <3>2. QED
        BY <2>2, <3>1
    <2>5. Cardinality(C) <= Cardinality(B \cup {m})
      BY <2>3, <2>4, FS_Subset
    <2>6. QED
      BY <1>1, <2>2, <2>4, <2>5, ConstantsAssumption
  <1>4. QED
    BY <1>2, <1>3

\* No step makes a chunk larger than the rate.
LEMMA WorkerChunk ==
  ASSUME TypeOK, ChunkIsSmall, NEW l \in Labels, WorkerStep(l) \/ acquire(l) \/ Killed(l)
  PROVE  ChunkIsSmall'
  <1>1. CASE SubmitChunk(l)
    <2>1. selected[l] \in SUBSET Nodes /\ NextChunk(l) \in SUBSET selected[l]
      BY ChunkType DEF TypeOK
    <2>2. \A n \in NextChunk(l) : Cardinality({o \in selected[l] : o < n}) < Rate
      BY DEF NextChunk
    <2>3. IsFiniteSet(NextChunk(l)) /\ Cardinality(NextChunk(l)) <= Rate
      BY <2>1, <2>2, ChunkSize
    <2>4. chunk'[l] = NextChunk(l) /\ \A k \in Labels : k # l => chunk'[k] = chunk[k]
      BY <1>1 DEF TypeOK, SubmitChunk
    <2>5. QED
      BY <2>3, <2>4 DEF ChunkIsSmall
  <1>2. CASE ~SubmitChunk(l)
    <2>1. IsFiniteSet({}) /\ Cardinality({}) <= Rate
      BY FS_EmptySet, ConstantsAssumption
    <2>2. QED
      BY <1>2, <2>1, WorkerFrame DEF ChunkIsSmall
  <1>3. QED
    BY <1>1, <1>2

-----------------------------------------------------------------------------
(* Workers that are on time.                                                *)

\* A worker gets past the lock when it is free, or when it times out without
\* anybody at work; it gives the lock back when it stops working, or is
\* killed and leaves it locked.
LEMMA WorkerLock ==
  ASSUME TypeOK, NEW l \in Labels, WorkerStep(l) \/ acquire(l) \/ Killed(l), OnTime'
  PROVE  /\ OnTime
         /\ Working(l)' =>
              \/ Working(l) /\ UNCHANGED locked
              \/ ~locked[Pool(l)] /\ locked' = [locked EXCEPT ![Pool(l)] = TRUE]
              \/ /\ locked[Pool(l)] /\ UNCHANGED locked
                 /\ \A h \in Labels : Pool(h) = Pool(l) => ~Working(h)
         /\ ~Working(l)' =>
              \/ UNCHANGED locked
              \/ Working(l) /\ locked' = [locked EXCEPT ![Pool(l)] = FALSE]
  <1> USE DEF TypeOK, Goto, Working, OnTime
  <1>1. CASE Load(l)
    BY <1>1 DEF Load, shared
  <1>2. CASE acquire(l)
    BY <1>2 DEF acquire, AfterAcquire
  <1>3. CASE AcquireTimesOut(l)
    <2>1. OnTime /\ ~(\E h \in Labels : Pool(h) = Pool(l) /\ Working(h))
      BY <1>3, OverrunsFacts DEF AcquireTimesOut
    <2>2. QED
      BY <1>3, <2>1 DEF AcquireTimesOut, AfterAcquire
  <1>4. CASE Setup(l)
    BY <1>4 DEF Setup
  <1>5. CASE Select(l)
    BY <1>5 DEF Select, shared
  <1>6. CASE SubmitChunk(l)
    BY <1>6 DEF SubmitChunk
  <1>7. CASE Healthy(l)
    BY <1>7 DEF Healthy, shared
  <1>8. CASE AllRecycled(l)
    BY <1>8 DEF AllRecycled, shared
  <1>9. CASE Unhealthy(l)
    BY <1>9 DEF Unhealthy, Recycling, shared
  <1>10. CASE Finally(l)
    BY <1>10 DEF Finally, release
  <1>11. CASE UptimeIteration(l)
    BY <1>11 DEF UptimeIteration, release
  <1>12. CASE Killed(l)
    BY <1>12 DEF Killed, shared
  <1>13. QED
    BY <1>1, <1>2, <1>3, <1>4, <1>5, <1>6, <1>7, <1>8, <1>9, <1>10, <1>11, <1>12
    DEF WorkerStep

\* Hence workers on time exclude each other.
LEMMA WorkerExclusive ==
  ASSUME TypeOK, Timely, NEW l \in Labels, WorkerStep(l) \/ acquire(l) \/ Killed(l), OnTime'
  PROVE  Exclusive'
  <1>1. Exclusive
    BY WorkerLock DEF Timely
  <1>2. \A k \in Labels : k # l => Working(k)' = Working(k)
    BY WorkerEffect DEF Working
  <1>3. \A k \in Labels : Pool(k) \in Pools
    BY LabelFacts
  <1>4. CASE Working(l)'
    <2>1. \A k \in Labels : Pool(k) = Pool(l) /\ k # l => ~Working(k)
      BY <1>1, <1>4, WorkerLock DEF Exclusive
    <2>2. locked'[Pool(l)]
      BY <1>1, <1>3, <1>4, WorkerLock DEF Exclusive, TypeOK
    <2>3. \A p \in Pools : p # Pool(l) => locked'[p] = locked[p]
      BY <1>4, WorkerLock DEF TypeOK
    <2>4. QED
      BY <1>1, <1>2, <1>3, <2>1, <2>2, <2>3 DEF Exclusive
  <1>5. CASE ~Working(l)'
    <2>1. \A p \in Pools : p # Pool(l) => locked'[p] = locked[p]
      BY <1>5, WorkerLock DEF TypeOK
    <2>2. \A k \in Labels : Pool(k) = Pool(l) /\ Working(k) /\ k # l => locked'[Pool(l)] = locked[Pool(l)]
      BY <1>1, <1>5, WorkerLock DEF Exclusive
    <2>3. QED
      BY <1>1, <1>2, <1>3, <1>5, <2>1, <2>2 DEF Exclusive
  <1>6. QED
    BY <1>4, <1>5

\* Only the setup disables an autoscaler, and only a worker that has enabled it
\* exits with 0.
LEMMA WorkerPauses ==
  ASSUME TypeOK, Tables, PauseIsOwned, NEW l \in Labels,
         WorkerStep(l) \/ acquire(l) \/ Killed(l)
  PROVE  PauseIsOwned'
  <1>1. /\ UNCHANGED status
        /\ \A k \in Labels : k # l => proc'[k] = proc[k]
    BY WorkerEffect
  <1>2. CASE Finally(l)
    <2>1. l \in EventLabels /\ paused' \subseteq paused
      BY <1>2 DEF Finally
    <2>2. proc'[l] = "exit0" => Pool(l) \notin paused'
      BY <1>2 DEF Finally, Goto, TypeOK, PauseIsOwned
    <2>3. \A k \in EventLabels : proc'[k] = "exit0" => Pool(k) \notin paused'
      BY <1>1, <2>1, <2>2, LabelFacts DEF PauseIsOwned
    <2>4. QED
      BY <1>1, <2>1, <2>3 DEF PauseIsOwned, PauseIsLifted
  <1>3. CASE Setup(l)
    <2>1. proc'[l] # "exit0" /\ proc[l] = "setup"
      BY <1>3 DEF Setup, Goto, TypeOK
    <2>2. CASE paused' = paused
      <3>1. \A k \in EventLabels : k # l => k \in Labels /\ Pool(k) \in Pools
        BY LabelFacts
      <3>2. QED
        BY <1>1, <2>1, <2>2, <3>1 DEF PauseIsOwned, PauseIsLifted
    <2>3. CASE l \in EventLabels /\ paused' = paused \cup {Pool(l)} /\ disable_autoscaling
      <3>1. /\ args[l] \in Events /\ PoolOf[args[l]] = Pool(l)
            /\ Open(args[l]) /\ Pool(l) \in Accepting
        BY <2>1, <2>3 DEF Tables, TablesAgree, WorksForItsPool, OnlyOpenWork, TypeOK
      <3>2. PauseIsLifted'
        BY <1>1, <2>3, <3>1 DEF PauseIsOwned, PauseIsLifted, Open
      <3>3. \A k \in EventLabels : proc'[k] = "exit0" => Pool(k) \notin paused'
        BY <1>1, <2>1, <2>3, LabelFacts DEF PauseIsOwned
      <3>4. QED
        BY <2>3, <3>1, <3>2, <3>3 DEF PauseIsOwned
    <2>4. QED
      BY <1>3, <2>2, <2>3 DEF Setup
  <1>4. CASE ~Finally(l) /\ ~Setup(l)
    <2>1. UNCHANGED paused
      BY <1>4 DEF WorkerStep, Load, acquire, AcquireTimesOut, Select, SubmitChunk, Healthy,
         AllRecycled, Unhealthy, UptimeIteration, Killed, shared
    <2>2. proc'[l] # "exit0"
      BY <1>4 DEF WorkerStep, Load, acquire, AcquireTimesOut, AfterAcquire, Select, SubmitChunk,
         Healthy, AllRecycled, Unhealthy, UptimeIteration, Killed, Goto, TypeOK
    <2>3. QED
      BY <1>1, <2>1, <2>2, LabelFacts DEF PauseIsOwned, PauseIsLifted
  <1>5. QED
    BY <1>2, <1>3, <1>4

\* The batch finishes an event only when its worker has enabled the autoscaler.
LEMMA BatchPauses ==
  ASSUME TypeOK, Tables, PauseIsOwned, BatchStep \/ BatchRestart
  PROVE  PauseIsOwned'
  <1>1. UNCHANGED paused
    BY DEF BatchStep, BatchRestart, SpawnUptimeWorkers, fetch_event_crd, spawn_event_worker,
       AllLookedAt, monitor_workers, shared
  <1>2. \A l \in EventLabels : proc'[l] = "exit0" => proc[l] = "exit0"
    <2>1. ASSUME NEW e \in Events, spawn_event_worker(e)
          PROVE  \A l \in EventLabels : proc'[l] = "exit0" => proc[l] = "exit0"
      BY <2>1, LabelFacts DEF spawn_event_worker, Goto, TypeOK
    <2>2. QED
      BY <2>1, LabelFacts DEF BatchStep, BatchRestart, SpawnUptimeWorkers, fetch_event_crd,
         AllLookedAt, monitor_workers, worker, TypeOK
  <1>3. ASSUME NEW p \in paused, NEW e \in Events, PoolOf[e] = p, Open(e)
        PROVE  Open(e)'
    <2>1. CASE monitor_workers
      <3>1. status'[e] = status[e] \/
            \E l \in EventLabels : proc[l] = "exit0" /\ events_in_progress[l] = e
        BY <2>1 DEF monitor_workers, TypeOK
      <3>2. ~(\E l \in EventLabels : proc[l] = "exit0" /\ events_in_progress[l] = e)
        BY <1>3, ConstantsAssumption
        DEF Tables, TablesAgree, WorksForItsPool, PauseIsOwned
      <3>3. QED
        BY <1>3, <3>1, <3>2 DEF Open
    <2>2. ASSUME NEW x \in Events, spawn_event_worker(x)
          PROVE  Open(e)'
      <3>1. CASE PoolOf[x] \notin Accepting
        <4>1. x # e
          BY <1>3, <3>1 DEF PauseIsOwned
        <4>2. QED
          BY <1>3, <2>2, <3>1, <4>1 DEF spawn_event_worker, mark_event, Open, TypeOK
      <3>2. CASE PoolOf[x] \in Accepting
        BY <1>3, <2>2, <3>2 DEF spawn_event_worker, mark_event, Open, TypeOK
      <3>3. QED
        BY <3>1, <3>2
    <2>3. CASE SpawnUptimeWorkers \/ fetch_event_crd \/ AllLookedAt \/ BatchRestart
      BY <1>3, <2>3 DEF SpawnUptimeWorkers, fetch_event_crd, AllLookedAt, BatchRestart, Open
    <2>4. QED
      BY <2>1, <2>2, <2>3 DEF BatchStep
  <1>4. PauseIsLifted'
    BY <1>1, <1>3 DEF PauseIsOwned, PauseIsLifted, Open
  <1>5. QED
    BY <1>1, <1>2, <1>4 DEF PauseIsOwned

\* While nothing fails, no worker is killed and no chunk is given up.
LEMMA WorkerFaultless ==
  ASSUME TypeOK, NEW l \in Labels, WorkerStep(l) \/ acquire(l) \/ Killed(l), NothingFailed'
  PROVE  NothingFailed /\ ~Killed(l) /\ (Unhealthy(l) => Unreachable(l))
  <1>1. CASE Killed(l)
    BY <1>1, UsesFacts DEF Killed, NothingFailed
  <1>2. CASE Unhealthy(l)
    <2>1. NothingFailed /\ Unreachable(l)
      BY <1>2, UsesFacts DEF Unhealthy, NothingFailed
    <2>2. ~Killed(l)
      BY <2>1, UsesFacts DEF Killed, NothingFailed
    <2>3. QED
      BY <2>1, <2>2
  <1>3. CASE ~Killed(l) /\ ~Unhealthy(l)
    <2>1. \/ Load(l) \/ AcquireTimesOut(l) \/ Setup(l) \/ Select(l) \/ SubmitChunk(l)
          \/ Healthy(l) \/ AllRecycled(l) \/ Finally(l) \/ UptimeIteration(l) \/ acquire(l)
      BY <1>3 DEF WorkerStep
    <2>2. CASE Load(l)
      BY <1>3, <2>2, UsesFacts DEF Load, NothingFailed
    <2>3. CASE Setup(l)
      BY <1>3, <2>3, UsesFacts DEF Setup, NothingFailed
    <2>4. CASE Finally(l)
      BY <1>3, <2>4, UsesFacts DEF Finally, NothingFailed
    <2>5. CASE ~Load(l) /\ ~Setup(l) /\ ~Finally(l)
      BY <1>3, <2>1, <2>5 DEF AcquireTimesOut, Select, SubmitChunk, Healthy, AllRecycled,
         UptimeIteration, acquire, NothingFailed
    <2>6. QED
      BY <2>2, <2>3, <2>4, <2>5
  <1>4. QED
    BY <1>1, <1>2, <1>3

\* While nothing fails, a worker selects nodes that have an agent.
LEMMA WorkerAgents ==
  ASSUME TypeOK, Recycled, Timely, NEW l \in Labels,
         WorkerStep(l) \/ acquire(l) \/ Killed(l), NothingFailed'
  PROVE  AgentsStay'
  <1>1. NothingFailed /\ AgentsStay
    BY WorkerFaultless DEF Timely
  <1>2. /\ UNCHANGED joined /\ Pool(l) \in Pools /\ Aged \subseteq Nodes
        /\ \A p \in Pools, n \in Nodes : node[p][n] = "new" => node'[p][n] = "new"
    BY WorkerFrame, LabelFacts, ConstantsAssumption DEF Nodes
  <1>3. selected'[l] \cup chunk'[l] \subseteq hadAgent'[l]
    <2>1. selected[l] \cup chunk[l] \subseteq hadAgent[l]
      BY <1>1 DEF AgentsStay
    <2>2. Select(l) => NodeSelector(l) \subseteq joined[Pool(l)] /\ chunk[l] = {}
      BY <1>1, <1>2
      DEF Select, NodeSelector, AgentsStay, Recycled, IdleHasNoChunk, Recycling
    <2>3. QED
      BY <2>1, <2>2, OwnSelection
  <1>4. hadAgent'[l] \subseteq Nodes /\ \A n \in hadAgent'[l] : n \in hadAgent[l] \/ n \in joined[Pool(l)]
    <2>1. CASE Select(l)
      BY <2>1 DEF Select, NodeSelector, TypeOK
    <2>2. CASE SubmitChunk(l)
      BY <2>2 DEF SubmitChunk, TypeOK
    <2>3. CASE ~Select(l) /\ ~SubmitChunk(l)
      BY <2>3, WorkerFrame DEF TypeOK
    <2>4. QED
      BY <2>1, <2>2, <2>3
  <1>5. ASSUME NEW k \in Labels
        PROVE  /\ selected'[k] \cup chunk'[k] \subseteq hadAgent'[k]
               /\ \A n \in hadAgent'[k] : node'[Pool(k)][n] = "new" \/ n \in joined'[Pool(k)]
    <2>1. CASE k = l
      BY <1>1, <1>2, <1>3, <1>4, <2>1 DEF AgentsStay
    <2>2. CASE k # l
      <3>1. /\ selected'[k] = selected[k] /\ hadAgent'[k] = hadAgent[k] /\ chunk'[k] = chunk[k]
            /\ Pool(k) \in Pools /\ hadAgent[k] \subseteq Nodes
        BY <2>2, WorkerFrame, LabelFacts DEF TypeOK
      <3>2. QED
        BY <1>1, <1>2, <3>1 DEF AgentsStay
    <2>3. QED
      BY <2>1, <2>2
  <1>6. \A p \in Pools, n \in Aged : node'[p][n] = "new" \/ n \in joined'[p]
    BY <1>1, <1>2 DEF AgentsStay
  <1>7. QED
    BY <1>5, <1>6 DEF AgentsStay

\* While nothing fails, a worker submits a chunk only when none is on its way,
\* and waits until it is gone.
LEMMA WorkerLeaving ==
  ASSUME TypeOK, Timely, NEW l \in Labels, WorkerStep(l) \/ acquire(l) \/ Killed(l),
         OnTime', NothingFailed'
  PROVE  LeavingIsChunk'
  <1>1. Exclusive /\ LeavingIsChunk /\ AgentsStay
    BY WorkerLock, WorkerFaultless DEF Timely
  <1>2. \A k \in Labels : k # l => proc'[k] = proc[k] /\ chunk'[k] = chunk[k]
    BY WorkerEffect, WorkerFrame
  <1>3. Pool(l) \in Pools /\ \A k \in Labels : Pool(k) \in Pools
    BY LabelFacts
  <1>4. \A k \in Labels : Pool(k) = Pool(l) /\ k # l /\ Working(l) => proc[k] # "check"
    BY <1>1 DEF Exclusive, Working
  <1>5. CASE SubmitChunk(l)
    <2>1. proc[l] = "drain" /\ Working(l) /\ proc'[l] = "check" /\ chunk'[l] = NextChunk(l)
      BY <1>5 DEF SubmitChunk, Goto, TypeOK, Working
    <2>2. \A n \in Nodes : node[Pool(l)][n] # "leaving"
      BY <1>1, <1>3, <1>4, <2>1 DEF LeavingIsChunk
    <2>3. \A n \in Nodes :
            node'[Pool(l)][n] = IF n \in NextChunk(l) /\ node[Pool(l)][n] = "old"
                                THEN "leaving" ELSE node[Pool(l)][n]
      BY <1>3, <1>5 DEF SubmitChunk, TypeOK
    <2>4. \A p \in Pools : p # Pool(l) => node'[p] = node[p]
      BY <1>5 DEF SubmitChunk, TypeOK
    <2>5. ASSUME NEW p \in Pools, NEW n \in Nodes, node'[p][n] = "leaving"
          PROVE  \E k \in Labels : Pool(k) = p /\ proc'[k] = "check" /\ n \in chunk'[k]
      <3>1. CASE p = Pool(l)
        BY <2>1, <2>2, <2>3, <2>5, <3>1
      <3>2. CASE p # Pool(l)
        <4>1. PICK k \in Labels : Pool(k) = p /\ proc[k] = "check" /\ n \in chunk[k]
          BY <1>1, <2>4, <2>5, <3>2 DEF LeavingIsChunk
        <4>2. QED
          BY <1>2, <3>2, <4>1
      <3>3. QED
        BY <3>1, <3>2
    <2>6. ASSUME NEW k \in Labels, NEW n \in Nodes, proc'[k] = "check", n \in chunk'[k]
          PROVE  node'[Pool(k)][n] # "old"
      <3>1. CASE k = l
        BY <2>1, <2>3, <2>6, <3>1
      <3>2. CASE k # l
        BY <1>1, <1>2, <1>3, <1>4, <2>1, <2>4, <2>6, <3>2 DEF LeavingIsChunk
      <3>3. QED
        BY <3>1, <3>2
    <2>7. QED
      BY <2>5, <2>6 DEF LeavingIsChunk
  <1>6. CASE ~SubmitChunk(l)
    <2>1. UNCHANGED node /\ proc'[l] # "check"
      <3>1. ~Killed(l)
        BY WorkerFaultless
      <3>2. QED
        BY <1>6, <3>1, WorkerFrame DEF WorkerStep, Load, acquire, AcquireTimesOut, AfterAcquire,
           Setup, Select, Healthy, AllRecycled, Unhealthy, Finally, UptimeIteration, Goto, TypeOK
    <2>2. proc[l] = "check" => \A n \in Nodes : node[Pool(l)][n] # "leaving"
      <3>1. SUFFICES ASSUME proc[l] = "check" PROVE \A n \in Nodes : node[Pool(l)][n] # "leaving"
        OBVIOUS
      <3>2. ~Unhealthy(l)
        BY <1>1, WorkerFaultless DEF LeavingIsChunk, Unreachable, AgentsStay, TypeOK
      <3>3. Healthy(l)
        <4>1. ~Killed(l)
          BY WorkerFaultless
        <4>2. QED
          BY <1>6, <3>1, <3>2, <4>1 DEF WorkerStep, Load, acquire, AcquireTimesOut, Setup, Select,
             AllRecycled, Finally, UptimeIteration
      <3>4. \A n \in chunk[l] : node[Pool(l)][n] = "new"
        BY <1>1, <3>3 DEF Healthy, ChunkGone, AgentsStay
      <3>5. Working(l)
        BY <3>1 DEF Working
      <3>6. QED
        BY <1>1, <1>3, <1>4, <3>4, <3>5 DEF LeavingIsChunk
    <2>3. ASSUME NEW p \in Pools, NEW n \in Nodes, node'[p][n] = "leaving"
          PROVE  \E k \in Labels : Pool(k) = p /\ proc'[k] = "check" /\ n \in chunk'[k]
      <3>1. PICK k \in Labels : Pool(k) = p /\ proc[k] = "check" /\ n \in chunk[k]
        BY <1>1, <2>1, <2>3 DEF LeavingIsChunk
      <3>2. k # l
        BY <2>1, <2>2, <2>3, <3>1
      <3>3. QED
        BY <1>2, <3>1, <3>2
    <2>4. ASSUME NEW k \in Labels, NEW n \in Nodes, proc'[k] = "check", n \in chunk'[k]
          PROVE  node'[Pool(k)][n] # "old"
      BY <1>1, <1>2, <2>1, <2>4 DEF LeavingIsChunk
    <2>5. QED
      BY <2>3, <2>4 DEF LeavingIsChunk
  <1>7. QED
    BY <1>5, <1>6

\* A worker's step keeps what holds of workers on time.
LEMMA WorkerTimely ==
  ASSUME TypeOK, Recycled, Timely, NEW l \in Labels, WorkerStep(l) \/ acquire(l) \/ Killed(l)
  PROVE  Timely'
  BY WorkerExclusive, WorkerAgents, WorkerLeaving DEF Timely

-----------------------------------------------------------------------------
(* The batch and its environment, and the invariant as a whole.             *)

\* The batch touches its workers only to start them or to forget them, and no
\* lock but all of them when no worker is left.
LEMMA BatchEffect ==
  ASSUME TypeOK, BatchStep \/ BatchRestart
  PROVE  /\ UNCHANGED <<node, joined, covered, overruns, migrated>>
         /\ \A l \in Labels : proc'[l] # proc[l] => proc'[l] \in {"start", "absent"}
         /\ \/ /\ UNCHANGED <<locked, selected, hadAgent, chunk>>
               /\ \A l \in Labels : proc'[l] # proc[l] => ~is_alive(l)
            \/ \A l \in Labels : /\ proc'[l] = "absent"
                                  /\ selected'[l] = {} /\ hadAgent'[l] = {} /\ chunk'[l] = {}
         /\ \A l \in EventLabels : args'[l] # args[l] => proc'[l] = "start"
         /\ NothingFailed' => NothingFailed /\ \A l \in Labels : proc[l] = "check" => proc'[l] = proc[l]
  <1> USE DEF TypeOK, NothingFailed, agents
  <1>1. CASE SpawnUptimeWorkers
    BY <1>1 DEF SpawnUptimeWorkers, CanSpawn, is_alive, shared
  <1>2. CASE fetch_event_crd
    BY <1>2, UsesFacts DEF fetch_event_crd, worker, shared
  <1>3. ASSUME NEW e \in Events, spawn_event_worker(e)
        PROVE  /\ UNCHANGED <<node, joined, covered, selected, hadAgent, chunk, overruns,
                              migrated, locked>>
               /\ \A l \in Labels : proc'[l] # proc[l] => proc'[l] = "start" /\ ~is_alive(l)
               /\ \A l \in EventLabels : args'[l] # args[l] => proc'[l] = "start"
               /\ NothingFailed' => NothingFailed
    <2>1. EventLabel(e) \in Labels
      BY EventLabelFacts, LabelFacts
    <2>2. UNCHANGED <<node, joined, covered, selected, hadAgent, chunk, overruns, migrated,
                      locked>>
      BY <1>3 DEF spawn_event_worker, shared
    <2>3. \A l \in Labels : proc'[l] # proc[l] => proc'[l] = "start" /\ ~is_alive(l)
      BY <1>3, <2>1 DEF spawn_event_worker, CanSpawn, Goto
    <2>4. NothingFailed' => NothingFailed
      BY <1>3, UsesFacts DEF spawn_event_worker, mark_event
    <2>5. \A l \in EventLabels : args'[l] # args[l] => proc'[l] = "start"
      <3>1. CASE UNCHANGED args
        BY <3>1
      <3>2. CASE /\ Goto(EventLabel(e), "start")
                 /\ args' = [args EXCEPT ![EventLabel(e)] = e]
        BY <2>1, <3>2 DEF Goto
      <3>3. QED
        BY <1>3, <3>1, <3>2 DEF spawn_event_worker
    <2>6. QED
      BY <2>2, <2>3, <2>4, <2>5
  <1>4. CASE AllLookedAt
    BY <1>4 DEF AllLookedAt, worker, shared
  <1>5. CASE monitor_workers
    <2>1. NothingFailed' => NothingFailed
      BY <1>5, UsesFacts DEF monitor_workers
    <2>2. QED
      BY <1>5, <2>1 DEF monitor_workers, shared, is_alive
  <1>6. CASE BatchRestart
    BY <1>6, UsesFacts DEF BatchRestart
  <1>7. QED
    BY <1>1, <1>2, <1>3, <1>4, <1>5, <1>6 DEF BatchStep, is_alive

\* The batch keeps account of the nodes.
LEMMA BatchRecycled ==
  ASSUME TypeOK, Tables, Tables', Recycled, BatchStep \/ BatchRestart
  PROVE  Recycled'
  <1>1. UNCHANGED <<node, joined, covered, migrated>>
    BY BatchEffect
  <1>2. MigratedIsRecycled' /\ CoveredHasAgent'
    BY <1>1 DEF Recycled, MigratedIsRecycled, CoveredHasAgent
  <1>3. CASE \A l \in Labels : /\ proc'[l] = "absent"
                               /\ selected'[l] = {} /\ hadAgent'[l] = {} /\ chunk'[l] = {}
    <2>1. RestIsSelected' /\ SelectedHadAgent' /\ IdleHasNoChunk'
      BY <1>3, LabelFacts DEF RestIsSelected, SelectedHadAgent, IdleHasNoChunk
    <2>2. QED
      BY <1>2, <2>1 DEF Recycled
  <1>4. CASE /\ UNCHANGED <<selected, hadAgent, chunk>>
             /\ \A l \in Labels : proc'[l] # proc[l] => ~is_alive(l)
    <2>1. \A l \in Labels : proc'[l] # proc[l] => proc'[l] \in {"start", "absent"}
      BY BatchEffect
    <2>2. \A l \in EventLabels : args'[l] # args[l] => proc'[l] = "start"
      BY BatchEffect
    <2>3. RestIsSelected'
      BY <1>1, <1>4, <2>1, <2>2, LabelFacts DEF Recycled, RestIsSelected
    <2>4. SelectedHadAgent'
      BY <1>4 DEF Recycled, SelectedHadAgent
    <2>5. IdleHasNoChunk'
      BY <1>4, <2>1 DEF Recycled, IdleHasNoChunk, Recycling, is_alive
    <2>6. QED
      BY <1>2, <2>3, <2>4, <2>5 DEF Recycled
  <1>5. QED
    BY <1>3, <1>4, BatchEffect

\* The batch starts in a state that satisfies the invariant.
LEMMA InitSafe == Init => IInv
  <1> SUFFICES ASSUME Init PROVE IInv
    OBVIOUS
  <1>1. TypeOK
    BY InitType
  <1>2. Tables
    BY LabelFacts, ConstantsAssumption DEF Init, Tables, TablesAgree, WorksForItsPool,
       ExitedWasMigrated, CompletedWasMigrated, OnlyOpenWork
  <1>3. Recycled
    BY LabelFacts DEF Init, Recycled, MigratedIsRecycled, RestIsSelected, CoveredHasAgent,
       SelectedHadAgent, IdleHasNoChunk
  <1>4. Timely
    BY LabelFacts DEF Init, Timely, Exclusive, LeavingIsChunk, AgentsStay, Working
  <1>7. PauseIsOwned
    BY LabelFacts DEF Init, PauseIsOwned, PauseIsLifted
  <1>5. ChunkIsSmall
    BY FS_EmptySet, ConstantsAssumption DEF Init, ChunkIsSmall
  <1>6. QED
    BY <1>1, <1>2, <1>3, <1>4, <1>5, <1>7 DEF IInv

\* The steps of the batch keep the invariant.
LEMMA BatchSafe ==
  ASSUME IInv, BatchStep \/ BatchRestart
  PROVE  IInv'
  <1> USE DEF IInv
  <1>1. TypeOK'
    BY BatchType
  <1>2. Tables'
    BY BatchTables
  <1>3. Recycled' /\ PauseIsOwned'
    BY <1>2, BatchRecycled, BatchPauses
  <1>4. ChunkIsSmall'
    <2>1. IsFiniteSet({}) /\ Cardinality({}) <= Rate
      BY FS_EmptySet, ConstantsAssumption
    <2>2. QED
      BY <2>1, BatchEffect DEF ChunkIsSmall
  <1>5. OnTime' => Exclusive'
    <2> SUFFICES ASSUME OnTime' PROVE Exclusive'
      OBVIOUS
    <2>1. Exclusive
      BY BatchEffect DEF Timely, OnTime
    <2>2. \A l \in Labels : proc'[l] # proc[l] => proc'[l] \in {"start", "absent"}
      BY BatchEffect
    <2>3. UNCHANGED locked \/ \A l \in Labels : proc'[l] = "absent"
      BY BatchEffect
    <2>4. QED
      BY <2>1, <2>2, <2>3 DEF Exclusive, Working
  <1>6. NothingFailed' => AgentsStay'
    BY BatchEffect DEF Timely, AgentsStay
  <1>7. OnTime' /\ NothingFailed' => LeavingIsChunk'
    <2> SUFFICES ASSUME OnTime', NothingFailed' PROVE LeavingIsChunk'
      OBVIOUS
    <2>1. LeavingIsChunk
      BY BatchEffect DEF Timely, OnTime
    <2>2. \A l \in Labels : proc[l] = "check" <=> proc'[l] = "check"
      BY BatchEffect
    <2>3. CASE UNCHANGED chunk
      BY <2>1, <2>2, <2>3, BatchEffect DEF LeavingIsChunk
    <2>4. CASE \A l \in Labels : proc'[l] = "absent"
      BY <2>1, <2>2, <2>4, BatchEffect DEF LeavingIsChunk
    <2>5. QED
      BY <2>3, <2>4, BatchEffect
  <1>8. QED
    BY <1>1, <1>2, <1>3, <1>4, <1>5, <1>6, <1>7 DEF Timely

\* The tables do not depend on nodes, agents and pauses.
LEMMA OtherTables ==
  ASSUME Tables, UNCHANGED <<batch, worker, migrated>>
  PROVE  Tables'
  BY DEF batch, worker, Tables, TablesAgree, WorksForItsPool, ExitedWasMigrated,
     CompletedWasMigrated, OnlyOpenWork, Open

\* A new event is not anybody's work yet.
LEMMA CreateSafe ==
  ASSUME IInv, NEW e \in Events, create_node_migration_resource(e)
  PROVE  IInv'
  <1> USE DEF IInv
  <1>1. TypeOK'
    BY EnvironmentType
  <1>2. /\ UNCHANGED <<bpc, todo, events_in_progress, proc, args, selected, hadAgent, chunk>>
        /\ UNCHANGED <<locked, node, joined, paused, overruns, migrated, faults>>
        /\ status[e] = None /\ status'[e] = "pending"
        /\ \A x \in Events : x # e => status'[x] = status[x] /\ covered'[x] = covered[x]
        /\ covered'[e] = joined[PoolOf[e]]
    BY DEF create_node_migration_resource, worker, TypeOK
  <1>3. e \notin migrated /\ ~Open(e)
    BY <1>2, ConstantsAssumption DEF Tables, OnlyOpenWork, Open
  <1>4. \A x \in Events : Open(x) => Open(x)'
    BY <1>2 DEF Open
  <1>5. Tables'
    <2>1. OnlyOpenWork'
      <3>1. ASSUME NEW l \in EventLabels, proc[l] # "absent"
            PROVE  Open(args[l])' /\ Pool(l) \in Accepting
        <4>1. args[l] \in Events /\ Open(args[l]) /\ Pool(l) \in Accepting
          BY <3>1 DEF Tables, TablesAgree, OnlyOpenWork, TypeOK
        <4>2. QED
          BY <1>2, <1>4, <4>1 DEF Open
      <3>2. \A x \in migrated : status'[x] # None
        BY <1>2, <1>3 DEF Tables, OnlyOpenWork, TypeOK
      <3>3. \A x \in todo : Open(x)'
        BY <1>4 DEF Tables, OnlyOpenWork, TypeOK
      <3>4. todo' # {} => bpc' = "spawn"
        BY <1>2 DEF Tables, OnlyOpenWork
      <3>5. QED
        BY <1>2, <3>1, <3>2, <3>3, <3>4 DEF OnlyOpenWork
    <2>2. TablesAgree' /\ WorksForItsPool' /\ ExitedWasMigrated'
      BY <1>2 DEF Tables, TablesAgree, WorksForItsPool, ExitedWasMigrated
    <2>3. CompletedWasMigrated'
      BY <1>2 DEF Tables, CompletedWasMigrated
    <2>4. QED
      BY <2>1, <2>2, <2>3 DEF Tables
  <1>6. CoveredHasAgent'
    BY <1>2 DEF Recycled, CoveredHasAgent
  <1>7. \A x \in Events : x \in migrated \/ Open(x) => covered'[x] \subseteq covered[x]
    BY <1>2, <1>3
  <1>8. Recycled'
    BY <1>1, <1>2, <1>6, <1>7, OtherRecycled
  <1>9. PauseIsOwned'
    BY <1>2 DEF PauseIsOwned, PauseIsLifted
  <1>10. Timely' /\ ChunkIsSmall'
    BY <1>2 DEF Timely, OnTime, NothingFailed, Exclusive, AgentsStay, LeavingIsChunk,
       Working, ChunkIsSmall
  <1>11. QED
    BY <1>1, <1>5, <1>8, <1>9, <1>10

\* Nodes that are replaced or released, and agents that come and go, leave the
\* work of the batch and its workers in order.
LEMMA NodesSafe ==
  ASSUME IInv, NEW p \in Pools, NEW n \in Nodes,
         NodeReplaced(p, n) \/ NodeReleased(p, n) \/ AgentJoins(p, n) \/ AgentLost(p, n)
  PROVE  IInv'
  <1> USE DEF IInv
  <1>1. TypeOK'
    BY EnvironmentType
  <1>2. UNCHANGED <<batch, worker, locked, paused, overruns, migrated>>
    BY DEF NodeReplaced, NodeReleased, AgentJoins, AgentLost
  <1>3. /\ node[p] \in [Nodes -> {"old", "leaving", "new"}]
        /\ joined[p] \subseteq Nodes
        /\ \A e \in Events : covered[e] \subseteq Nodes
    BY DEF TypeOK
  <1>4. /\ \A q \in Pools, m \in Nodes : ~(q = p /\ m = n) => node'[q][m] = node[q][m]
        /\ \/ node'[p][n] = node[p][n]
           \/ node[p][n] = "leaving" /\ node'[p][n] \in {"old", "new"}
        /\ NothingFailed' =>
             NothingFailed /\ (node'[p][n] = node[p][n] \/ node'[p][n] = "new")
    <2>1. CASE NodeReplaced(p, n)
      BY <1>3, <2>1 DEF NodeReplaced, NothingFailed, TypeOK
    <2>2. CASE NodeReleased(p, n)
      BY <1>3, <2>2, UsesFacts DEF NodeReleased, NothingFailed, TypeOK
    <2>3. CASE AgentJoins(p, n)
      BY <2>3 DEF AgentJoins, NothingFailed
    <2>4. CASE AgentLost(p, n)
      BY <2>4, UsesFacts DEF AgentLost, NothingFailed
    <2>5. QED
      BY <2>1, <2>2, <2>3, <2>4
  <1>5. /\ \A q \in Pools, m \in Nodes :
             m \in joined[q] => \/ m \in joined'[q]
                                \/ q = p /\ m = n /\ (node'[p][n] = "new" \/ AgentLost(p, n))
        /\ \A e \in Events : covered'[e] \subseteq covered[e]
        /\ AgentLost(p, n) => /\ ~NothingFailed'
                              /\ \A e \in Events : PoolOf[e] = p => n \notin covered'[e]
    <2>1. CASE NodeReplaced(p, n)
      <3>1. ~AgentLost(p, n) \/ ~NothingFailed'
        BY UsesFacts DEF AgentLost, NothingFailed
      <3>2. UNCHANGED covered /\ joined' = [joined EXCEPT ![p] = @ \ {n}] /\ node'[p][n] = "new"
        BY <1>3, <2>1 DEF NodeReplaced, TypeOK
      <3>3. AgentLost(p, n) => FALSE
        BY <1>3, <2>1, <3>2 DEF NodeReplaced, AgentLost
      <3>4. QED
        BY <3>2, <3>3 DEF TypeOK
    <2>2. CASE NodeReleased(p, n)
      <3>1. UNCHANGED <<joined, covered>>
        BY <2>2 DEF NodeReleased, agents
      <3>2. AgentLost(p, n) => FALSE
        BY <1>3, <3>1 DEF AgentLost, TypeOK
      <3>3. QED
        BY <3>1, <3>2
    <2>3. CASE AgentJoins(p, n)
      <3>1. AgentLost(p, n) => FALSE
        BY <2>3 DEF AgentLost, AgentJoins
      <3>2. QED
        BY <2>3, <3>1 DEF AgentJoins, TypeOK
    <2>4. CASE AgentLost(p, n)
      <3>1. ~NothingFailed'
        BY <2>4, UsesFacts DEF AgentLost, NothingFailed
      <3>2. QED
        BY <2>4, <3>1 DEF AgentLost, TypeOK
    <2>5. QED
      BY <2>1, <2>2, <2>3, <2>4
  <1>6. \A q \in Pools, m \in Nodes : node[q][m] = "new" => node'[q][m] = "new"
    BY <1>4
  <1>7. Tables'
    BY <1>2, OtherTables
  <1>8. CoveredHasAgent'
    <2> SUFFICES ASSUME NEW e \in Events, NEW m \in covered'[e], node'[PoolOf[e]][m] # "new"
                 PROVE  m \in joined'[PoolOf[e]]
      BY DEF CoveredHasAgent
    <2>1. m \in covered[e] /\ m \in Nodes /\ PoolOf[e] \in Pools
      BY <1>3, <1>5, ConstantsAssumption
    <2>2. m \in joined[PoolOf[e]]
      BY <1>6, <2>1 DEF Recycled, CoveredHasAgent
    <2>3. QED
      BY <1>5, <2>1, <2>2
  <1>9. Recycled'
    BY <1>1, <1>2, <1>5, <1>6, <1>8, OtherRecycled DEF worker
  <1>10. PauseIsOwned'
    BY <1>2 DEF batch, worker, PauseIsOwned, PauseIsLifted
  <1>11. NothingFailed' => AgentsStay'
    <2> SUFFICES ASSUME NothingFailed' PROVE AgentsStay'
      OBVIOUS
    <2>1. AgentsStay /\ ~AgentLost(p, n)
      BY <1>4, <1>5 DEF Timely
    <2>2. ASSUME NEW q \in Pools, NEW m \in Nodes, node[q][m] = "new" \/ m \in joined[q]
          PROVE  node'[q][m] = "new" \/ m \in joined'[q]
      BY <1>5, <1>6, <2>1, <2>2
    <2>3. \A l \in Labels : Pool(l) \in Pools /\ hadAgent[l] \subseteq Nodes
      BY LabelFacts DEF TypeOK
    <2>4. Aged \subseteq Nodes
      BY ConstantsAssumption DEF Nodes
    <2>5. UNCHANGED <<selected, hadAgent, chunk>>
      BY <1>2 DEF worker
    <2>6. QED
      BY <2>1, <2>2, <2>3, <2>4, <2>5 DEF AgentsStay
  <1>12. OnTime' => OnTime /\ Exclusive'
    BY <1>2 DEF worker, Timely, OnTime, Exclusive, Working
  <1>13. OnTime' /\ NothingFailed' => LeavingIsChunk'
    BY <1>2, <1>4, <1>12, LabelFacts DEF worker, Timely, LeavingIsChunk
  <1>14. ChunkIsSmall'
    BY <1>2 DEF worker, ChunkIsSmall
  <1>15. QED
    BY <1>1, <1>7, <1>9, <1>10, <1>11, <1>12, <1>13, <1>14 DEF Timely

\* A pause that expires leaves everything else as it is.
LEMMA PauseExpiresSafe ==
  ASSUME IInv, NEW p \in Pools, PauseExpires(p)
  PROVE  IInv'
  <1> USE DEF IInv
  <1>1. TypeOK'
    BY EnvironmentType
  <1>2. UNCHANGED <<batch, worker, locked, node, agents, migrated, faults>>
    BY DEF PauseExpires
  <1>3. Tables'
    BY <1>2, OtherTables
  <1>4. Recycled'
    BY <1>2 DEF worker, agents, Recycled, MigratedIsRecycled, RestIsSelected, CoveredHasAgent,
       SelectedHadAgent, IdleHasNoChunk, Recycling
  <1>5. PauseIsOwned'
    BY <1>2 DEF PauseExpires, batch, worker, PauseIsOwned, PauseIsLifted
  <1>6. OnTime' => OnTime
    BY OverrunsFacts DEF PauseExpires, OnTime
  <1>7. Timely' /\ ChunkIsSmall'
    BY <1>2, <1>6 DEF worker, agents, Timely, NothingFailed, Exclusive, AgentsStay,
       LeavingIsChunk, Working, ChunkIsSmall
  <1>8. QED
    BY <1>1, <1>3, <1>4, <1>5, <1>7

\* Every step keeps the invariant.
LEMMA NextSafe == IInv /\ [Next]_vars => IInv'
  <1> SUFFICES ASSUME IInv, [Next]_vars PROVE IInv'
    OBVIOUS
  <1>1. CASE BatchStep \/ BatchRestart
    BY <1>1, BatchSafe
  <1>2. ASSUME NEW l \in Labels, WorkerStep(l) \/ acquire(l) \/ Killed(l)
        PROVE  IInv'
    BY <1>2, WorkerType, WorkerTables, WorkerRecycled, WorkerPauses, WorkerChunk, WorkerTimely
    DEF IInv, Tables
  <1>3. CASE \/ \E e \in Events : create_node_migration_resource(e)
             \/ \E p \in Pools, n \in Nodes : \/ NodeReplaced(p, n) \/ NodeReleased(p, n)
                                              \/ AgentJoins(p, n) \/ AgentLost(p, n)
             \/ \E p \in Pools : PauseExpires(p)
    BY <1>3, CreateSafe, NodesSafe, PauseExpiresSafe
  <1>4. CASE UNCHANGED vars
    <2>1. UNCHANGED <<batch, worker, migrated>> /\ UNCHANGED <<shared, faults>>
      BY <1>4 DEF vars
    <2>2. TypeOK' /\ ChunkIsSmall' /\ PauseIsOwned'
      BY <2>1 DEF IInv, batch, worker, shared, agents, TypeOK, ChunkIsSmall, PauseIsOwned,
         PauseIsLifted
    <2>3. Tables'
      BY <2>1, OtherTables DEF IInv
    <2>4. Recycled'
      BY <2>1 DEF IInv, worker, shared, agents, Recycled, MigratedIsRecycled, RestIsSelected,
         CoveredHasAgent, SelectedHadAgent, IdleHasNoChunk, Recycling
    <2>5. Timely'
      BY <2>1 DEF IInv, worker, shared, agents, Timely, OnTime, NothingFailed, Exclusive,
         AgentsStay, LeavingIsChunk, Working
    <2>6. QED
      BY <2>2, <2>3, <2>4, <2>5 DEF IInv
  <1>5. QED
    BY <1>1, <1>2, <1>3, <1>4 DEF Next

\* The invariant holds in every reachable state.
LEMMA Safe == Spec => []IInv
  BY InitSafe, NextSafe, PTL DEF Spec

-----------------------------------------------------------------------------
(* The theorems.                                                            *)

\* Every state of the batch and its workers is well typed.
THEOREM TypeCorrect == Spec => []TypeOK
  <1>1. IInv => TypeOK
    BY DEF IInv
  <1>2. QED
    BY <1>1, Safe, PTL

\* The process table and events_in_progress agree, dead processes included, in
\* whatever order processes are spawned, restarted, killed and forgotten.
THEOREM TablesAlwaysAgree == Spec => []TablesAgree
  <1>1. IInv => TablesAgree
    BY DEF IInv, Tables
  <1>2. QED
    BY <1>1, Safe, PTL

\* monitor_workers marks only events that a worker has migrated.
THEOREM CompletedMeansMigrated == Spec => []CompletedWasMigrated
  <1>1. IInv => CompletedWasMigrated
    BY DEF IInv, Tables
  <1>2. QED
    BY <1>1, Safe, PTL

\* A completed event has left none of the nodes behind that had an agent ever
\* since it was created, whatever failed.
THEOREM CompletedMeansRecycled == Spec => []CompletedPoolIsRecycled
  <1>1. IInv => CompletedPoolIsRecycled
    BY DEF IInv, Tables, CompletedWasMigrated, Recycled, MigratedIsRecycled,
       CompletedPoolIsRecycled
  <1>2. QED
    BY <1>1, Safe, PTL

\* As long as no worker takes longer than expected_duration, the lock of a pool
\* keeps its event worker and its uptime worker from recycling together.
THEOREM WorkersExclude == Spec => []OneRecycler
  <1>1. IInv => OneRecycler
    BY DEF IInv, Timely, Exclusive, OneRecycler, Recycling, Working
  <1>2. QED
    BY <1>1, Safe, PTL

\* Whatever fails, an autoscaler stays disabled only while there is an event of
\* its pool whose worker is still to enable it.
THEOREM PausesAreLifted == Spec => []PauseIsLifted
  <1>1. IInv => PauseIsLifted
    BY DEF IInv, PauseIsOwned
  <1>2. QED
    BY <1>1, Safe, PTL

\* As long as no worker takes longer than expected_duration and nothing fails,
\* at most "rate" nodes of a pool are on their way out.
THEOREM RateIsRespected == Spec => []RateRespected
  <1>1. ASSUME IInv, OnTime, NothingFailed, NEW p \in Pools
        PROVE  Cardinality({n \in Nodes : node[p][n] = "leaving"}) <= Rate
    <2> DEFINE Leaving == {n \in Nodes : node[p][n] = "leaving"}
    <2>1. Exclusive /\ LeavingIsChunk /\ ChunkIsSmall
      BY <1>1 DEF IInv, Timely
    <2>2. CASE Leaving = {}
      <3> HIDE DEF Leaving
      <3>1. Cardinality(Leaving) = 0
        BY <2>2, FS_EmptySet
      <3>2. Cardinality(Leaving) <= Rate
        BY <3>1, ConstantsAssumption
      <3>3. QED
        BY <3>2 DEF Leaving
    <2>3. CASE Leaving # {}
      <3>1. PICK l \in Labels : Pool(l) = p /\ proc[l] = "check"
        BY <2>1, <2>3 DEF LeavingIsChunk
      <3>2. Leaving \subseteq chunk[l]
        BY <2>1, <3>1 DEF LeavingIsChunk, Exclusive, Working
      <3>3. IsFiniteSet(chunk[l]) /\ Cardinality(chunk[l]) <= Rate
        BY <2>1 DEF ChunkIsSmall
      <3> HIDE DEF Leaving
      <3>4. /\ Cardinality(Leaving) <= Cardinality(chunk[l])
            /\ Cardinality(Leaving) \in Nat /\ Cardinality(chunk[l]) \in Nat
        BY <3>2, <3>3, FS_Subset, FS_CardinalityType
      <3>5. Cardinality(Leaving) <= Rate
        BY <3>3, <3>4, ConstantsAssumption
      <3>6. QED
        BY <3>5 DEF Leaving
    <2>4. QED
      BY <2>2, <2>3
  <1>2. IInv => RateRespected
    <2>1. SUFFICES ASSUME IInv, OnTime, faults = MaxFaults
                   PROVE  \A p \in Pools :
                            Cardinality({n \in Nodes : node[p][n] = "leaving"}) <= Rate
      BY DEF RateRespected
    <2>2. NothingFailed
      BY <2>1 DEF NothingFailed
    <2>3. QED
      BY <1>1, <2>1, <2>2
  <1>3. QED
    BY <1>2, Safe, PTL
=============================================================================
