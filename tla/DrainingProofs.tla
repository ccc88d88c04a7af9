--------------------------- MODULE DrainingProofs ---------------------------
(***************************************************************************)
(* Proofs about the drainer, for any instances, schedulers, thresholds and *)
(* number of requests and faults.                                          *)
(***************************************************************************)
EXTENDS Draining, FiniteSetTheorems, TLAPS

-----------------------------------------------------------------------------
(* The messages the handlers build are Hosts.                               *)

\* The age at which a message stops growing older is a number.
LEMMA MaxAgeType == MaxAge \in Nat
  BY ConstantsAssumption DEF MaxAge

\* A Host made outside the drain queue is well typed.
LEMMA NewHostType ==
  ASSUME NEW i \in Instances, NEW agent \in BOOLEAN, NEW attempt \in {1, 2},
         NEW reason \in {Spot, Scaling}
  PROVE  NewHost(i, agent, attempt, reason) \in Host
  BY MaxAgeType, ConstantsAssumption DEF NewHost, Host

\* What host_from_instance_id builds is a Host of the instance asked for.
LEMMA FreshHostType ==
  ASSUME NEW i \in Instances, NEW attempt \in {1, 2},
         NEW reason \in {Spot, Scaling}
  PROVE  /\ FreshHost(i, reason, attempt) \in Host
         /\ FreshHost(i, reason, attempt).inst = i
         /\ FreshHost(i, reason, attempt).attempt = attempt
  <1>1. (DnsName[i] = "named") \in BOOLEAN
    OBVIOUS
  <1>2. FreshHost(i, reason, attempt) \in Host
    BY <1>1, NewHostType DEF FreshHost
  <1>3. QED
    BY <1>2 DEF FreshHost, NewHost

\* Re-submission, ageing and enqueueing keep the instance; the last two keep
\* the attempt.
LEMMA HostSteps ==
  ASSUME NEW m \in Host, NEW n \in 1..MaxMessages
  PROVE  /\ Redrain(m) \in Host
         /\ Redrain(m).inst = m.inst
         /\ Redrain(m).attempt = 2
         /\ Older(m) \in Host
         /\ Older(m).inst = m.inst
         /\ Older(m).attempt = m.attempt
         /\ [m EXCEPT !.id = n] \in Host
         /\ [m EXCEPT !.id = n].inst = m.inst
         /\ [m EXCEPT !.id = n].attempt = m.attempt
  <1>1. /\ Redrain(m) \in Host
        /\ Redrain(m).inst = m.inst
        /\ Redrain(m).attempt = 2
    BY MaxAgeType, ConstantsAssumption DEF Redrain, NewHost, Host
  <1>2. /\ Older(m) \in Host
        /\ Older(m).inst = m.inst
        /\ Older(m).attempt = m.attempt
    BY MaxAgeType DEF Older, Host
  <1>3. /\ [m EXCEPT !.id = n] \in Host
        /\ [m EXCEPT !.id = n].inst = m.inst
        /\ [m EXCEPT !.id = n].attempt = m.attempt
    BY ConstantsAssumption DEF Host
  <1>4. QED
    BY <1>1, <1>2, <1>3

-----------------------------------------------------------------------------
(* Type correctness.                                                        *)

\* Using up a fault keeps the number of faults within its bound.
LEMMA UsesType ==
  ASSUME TypeOK, NEW b, Uses(b)
  PROVE  faults' \in 0..MaxFaults
  BY ConstantsAssumption DEF TypeOK, Uses

\* The drainer starts in a well-typed state.
LEMMA InitType == Init => TypeOK
  BY ConstantsAssumption DEF Init, TypeOK

\* Requests, spot warnings and what AWS and the scheduler do to a host keep
\* the types.
LEMMA EnvironmentType ==
  ASSUME TypeOK, NEW i \in Instances, Environment(i)
  PROVE  TypeOK'
  <1> USE DEF TypeOK
  <1>1. ASSUME NEW agent \in BOOLEAN, submit_instance_for_draining(i, agent)
        PROVE  TypeOK'
    <2>1. PICK n \in 1..MaxMessages :
            drainQ' = drainQ \cup Enqueued({NewHost(i, agent, 1, Scaling)}, n)
      BY <1>1 DEF submit_instance_for_draining
    <2>2. NewHost(i, agent, 1, Scaling) \in Host
      BY NewHostType
    <2>3. drainQ' \subseteq Host
      BY <2>1, <2>2, HostSteps DEF Enqueued
    <2>4. requests' \in 0..MaxRequests
      BY <1>1, ConstantsAssumption DEF submit_instance_for_draining
    <2>5. QED
      BY <1>1, <2>3, <2>4
      DEF submit_instance_for_draining, handler, cache, hosts
  <1>2. CASE SpotWarning(i)
    BY <1>2, ConstantsAssumption DEF SpotWarning, handler, cache, hosts
  <1>3. CASE InstanceLost(i)
    BY <1>3, UsesType DEF InstanceLost, queues, handler, cache
  <1>4. CASE InstanceDetached(i)
    BY <1>4, UsesType DEF InstanceDetached, queues, handler, cache
  <1>5. CASE PodScheduled(i)
    BY <1>5 DEF PodScheduled, queues, handler, cache
  <1>6. QED
    BY <1>1, <1>2, <1>3, <1>4, <1>5 DEF Environment

\* The passing of time keeps the types: ages and cache times stay bounded.
LEMMA TickType ==
  ASSUME TypeOK, Tick
  PROVE  TypeOK'
  <1>1. \A m \in Host : Older(m) \in Host
    BY MaxAgeType DEF Older, Host
  <1>2. drainQ' \subseteq Host /\ held' \subseteq Host /\ outDrain' \subseteq Host
    BY <1>1 DEF TypeOK, Tick
  <1>3. ttl' \in [Instances -> -1..CacheTtl]
    BY ConstantsAssumption DEF TypeOK, Tick
  <1>4. QED
    BY <1>2, <1>3 DEF TypeOK, Tick, hosts

\* What a restart leaves behind is well typed.
LEMMA RestartedType ==
  ASSUME TypeOK, Restarted
  PROVE  /\ pc' \in {"clean", "warning", "drain", "termination"}
         /\ stage' \in {"receive", "send", "delete"}
         /\ held' \subseteq Host /\ outDrain' \subseteq Host
         /\ outTerm' \subseteq Instances
         /\ cached' \subseteq Instances /\ ttl' \in [Instances -> -1..CacheTtl]
  BY ConstantsAssumption DEF Restarted

\* The received message goes back to a queue of its own type.
LEMMA RequeueType ==
  ASSUME TypeOK, Requeue
  PROVE  /\ drainQ' \subseteq Host /\ termQ' \subseteq Instances
         /\ warnQ' \subseteq Instances
  BY DEF TypeOK, Requeue, Host

\* A handler that goes on with a message and its follow-ups keeps the types.
LEMMA FollowType ==
  ASSUME TypeOK, NEW m \in Host, NEW a \in SUBSET Host,
         NEW b \in SUBSET Instances, Follow(m, a, b)
  PROVE  /\ pc' \in {"clean", "warning", "drain", "termination"}
         /\ stage' \in {"receive", "send", "delete"}
         /\ held' \subseteq Host /\ outDrain' \subseteq Host
         /\ outTerm' \subseteq Instances
  BY DEF TypeOK, Follow

\* draining_host_ttl_cache keeps its type when a host is put in or taken out.
LEMMA CacheType ==
  ASSUME TypeOK, NEW i \in Instances, Remember(i) \/ Forget(i)
  PROVE  cached' \subseteq Instances /\ ttl' \in [Instances -> -1..CacheTtl]
  BY ConstantsAssumption DEF TypeOK, Remember, Forget

\* The steps of the loop of the drainer batch keep the types.
LEMMA LoopStepType ==
  ASSUME TypeOK, LoopStep
  PROVE  TypeOK'
  <1>0. NextHandler \in {"clean", "warning", "drain", "termination"}
    BY DEF NextHandler
  <1>1. CASE clean_processing_hosts_cache
    BY <1>1 DEF TypeOK, clean_processing_hosts_cache, queues, hosts
  <1>2. CASE EmptyReceive
    BY <1>0, <1>2 DEF TypeOK, EmptyReceive, queues, cache, hosts
  <1>3. CASE send_message
    <2>1. PICK n \in 1..MaxMessages : drainQ' = drainQ \cup Enqueued(outDrain, n)
      BY <1>3 DEF send_message
    <2>2. drainQ' \subseteq Host
      BY <2>1, HostSteps DEF TypeOK, Enqueued
    <2>3. QED
      BY <1>3, <2>2 DEF TypeOK, send_message, cache, hosts
  <1>4. CASE delete_message
    <2>1. /\ drainQ' \subseteq Host /\ termQ' \subseteq Instances
          /\ warnQ' \subseteq Instances
      BY <1>4, RequeueType DEF TypeOK, delete_message, queues
    <2>2. faults' \in 0..MaxFaults
      BY <1>4, UsesType DEF delete_message
    <2>3. QED
      BY <1>0, <1>4, <2>1, <2>2 DEF TypeOK, delete_message, cache, hosts
  <1>5. QED
    BY <1>1, <1>2, <1>3, <1>4 DEF LoopStep

\* A crash of the drainer keeps the types.
LEMMA CrashType ==
  ASSUME TypeOK, Crash
  PROVE  TypeOK'
  <1>1. faults' \in 0..MaxFaults
    BY UsesType DEF Crash
  <1>2. QED
    BY <1>1, RestartedType, RequeueType DEF TypeOK, Crash, hosts

\* process_warning_queue keeps the types.
LEMMA WarningType ==
  ASSUME TypeOK, NEW i \in Instances, process_warning_queue(i)
  PROVE  TypeOK'
  <1>1. PICK found \in host_from_instance_id(i) :
          /\ Uses(found = "gone" /\ running[i])
          /\ \/ Restarted /\ UNCHANGED warnQ
             \/ /\ warnQ' = warnQ \ {i}
                /\ Follow(Plain(i),
                          IF found # "gone" /\ i \in OurGroups
                          THEN {FreshHost(i, Spot, 1)} ELSE {},
                          {})
                /\ UNCHANGED cache
    BY DEF process_warning_queue
  <1>2. faults' \in 0..MaxFaults
    BY <1>1, UsesType
  <1>3. Plain(i) \in Host /\ FreshHost(i, Spot, 1) \in Host
    BY NewHostType, FreshHostType DEF Plain
  <1>4. UNCHANGED <<drainQ, termQ, hosts, requests, dropped>>
    BY DEF process_warning_queue
  <1>5. CASE Restarted /\ UNCHANGED warnQ
    BY <1>2, <1>4, <1>5, RestartedType DEF TypeOK, hosts
  <1>6. CASE /\ warnQ' = warnQ \ {i}
             /\ Follow(Plain(i),
                       IF found # "gone" /\ i \in OurGroups
                       THEN {FreshHost(i, Spot, 1)} ELSE {},
                       {})
             /\ UNCHANGED cache
    <2>1. (IF found # "gone" /\ i \in OurGroups
           THEN {FreshHost(i, Spot, 1)} ELSE {}) \in SUBSET Host
      BY <1>3
    <2>2. /\ pc' \in {"clean", "warning", "drain", "termination"}
          /\ stage' \in {"receive", "send", "delete"}
          /\ held' \subseteq Host /\ outDrain' \subseteq Host
          /\ outTerm' \subseteq Instances
      BY <1>3, <1>6, <2>1, FollowType
    <2>3. QED
      BY <1>2, <1>4, <1>6, <2>2 DEF TypeOK, cache, hosts
  <1>7. QED
    BY <1>1, <1>5, <1>6

\* process_termination_queue keeps the types.
LEMMA TerminationType ==
  ASSUME TypeOK, NEW i \in Instances, process_termination_queue(i)
  PROVE  TypeOK'
  <1>1. UNCHANGED <<drainQ, warnQ, owned, requests>>
    BY DEF process_termination_queue
  <1>2. CASE terminate_host(i)
    <2>1. Plain(i) \in Host
      BY NewHostType DEF Plain
    <2>2. /\ pc' \in {"clean", "warning", "drain", "termination"}
          /\ stage' \in {"receive", "send", "delete"}
          /\ held' \subseteq Host /\ outDrain' \subseteq Host
          /\ outTerm' \subseteq Instances
      BY <1>2, <2>1, FollowType DEF terminate_host
    <2>3. faults' \in 0..MaxFaults
      BY <1>2, UsesType DEF terminate_host
    <2>4. /\ running' \in [Instances -> BOOLEAN]
          /\ pods' \in [Instances -> BOOLEAN]
          /\ closed' \in [Instances -> BOOLEAN]
      BY <1>2 DEF TypeOK, terminate_host
    <2>5. QED
      BY <1>1, <1>2, <2>2, <2>3, <2>4 DEF TypeOK, terminate_host, cache
  <1>3. CASE TerminateRaises(i)
    <2>1. faults' \in 0..MaxFaults
      BY <1>3, UsesType DEF TerminateRaises
    <2>2. CASE Scheduler[i] = Kubernetes
      BY <1>1, <1>3, <2>1, <2>2
      DEF TypeOK, TerminateRaises, NextHandler, cache
    <2>3. CASE Scheduler[i] # Kubernetes
      BY <1>1, <1>3, <2>1, <2>3, RestartedType DEF TypeOK, TerminateRaises
    <2>4. QED
      BY <2>2, <2>3
  <1>4. QED
    BY <1>2, <1>3 DEF process_termination_queue

\* process_drain_queue keeps the types, in each of its cases.
LEMMA DrainType ==
  ASSUME TypeOK, NEW m \in drainQ, process_drain_queue(m)
  PROVE  TypeOK'
  <1>0. m \in Host /\ m.inst \in Instances
    BY DEF TypeOK, Host
  <1>1. \A a \in SUBSET Host, b \in SUBSET Instances : Follow(m, a, b) =>
          /\ pc' \in {"clean", "warning", "drain", "termination"}
          /\ stage' \in {"receive", "send", "delete"}
          /\ held' \subseteq Host /\ outDrain' \subseteq Host
          /\ outTerm' \subseteq Instances
    BY <1>0, FollowType
  <1>2. CASE SkipDrain(m)
    BY <1>1, <1>2 DEF TypeOK, SkipDrain, cache, hosts
  <1>3. CASE DrainMesos(m)
    <2>1. faults' \in 0..MaxFaults
      BY <1>3, UsesType DEF DrainMesos
    <2>2. closed' \in [Instances -> BOOLEAN]
      BY <1>3 DEF TypeOK, DrainMesos
    <2>3. {m.inst} \in SUBSET Instances
      BY <1>0
    <2>4. QED
      BY <1>0, <1>1, <1>3, <2>1, <2>2, <2>3, CacheType
      DEF TypeOK, DrainMesos, StartDraining
  <1>4. CASE DrainOther(m) \/ ForceTerminate(m)
    <2>1. {m.inst} \in SUBSET Instances
      BY <1>0
    <2>2. QED
      BY <1>0, <1>1, <1>4, <2>1, CacheType
      DEF TypeOK, DrainOther, ForceTerminate, StartDraining, hosts
  <1>5. CASE DrainOrphan(m)
    <2>1. PICK found \in host_from_instance_id(m.inst) :
            /\ Uses(found = "gone" /\ running[m.inst])
            /\ \/ /\ drainQ' = drainQ \ {m}
                  /\ Remember(m.inst)
                  /\ \/ Follow(m, {}, {})
                     \/ Follow(m, {}, {m.inst})
                     \/ Follow(m, {FreshHost(m.inst, m.reason, 2)}, {})
                  /\ \/ dropped' = dropped \cup {m.inst}
                     \/ dropped' = dropped \ {m.inst}
               \/ Restarted /\ UNCHANGED <<drainQ, dropped>>
      BY <1>5 DEF DrainOrphan
    <2>2. faults' \in 0..MaxFaults
      BY <2>1, UsesType
    <2>3. /\ {m.inst} \in SUBSET Instances
          /\ {FreshHost(m.inst, m.reason, 2)} \in SUBSET Host
      BY <1>0, FreshHostType DEF Host
    <2>4. UNCHANGED <<termQ, warnQ, hosts, requests>>
      BY <1>5 DEF DrainOrphan, StartDraining
    <2>5. CASE Restarted /\ UNCHANGED <<drainQ, dropped>>
      BY <2>2, <2>4, <2>5, RestartedType DEF TypeOK, hosts
    <2>6. CASE ~(Restarted /\ UNCHANGED <<drainQ, dropped>>)
      <3>1. /\ pc' \in {"clean", "warning", "drain", "termination"}
            /\ stage' \in {"receive", "send", "delete"}
            /\ held' \subseteq Host /\ outDrain' \subseteq Host
            /\ outTerm' \subseteq Instances
        BY <1>1, <2>1, <2>3, <2>6
      <3>2. cached' \subseteq Instances /\ ttl' \in [Instances -> -1..CacheTtl]
        BY <1>0, <2>1, <2>6, CacheType
      <3>3. dropped' \subseteq Instances /\ drainQ' \subseteq Host
        BY <1>0, <2>1, <2>6 DEF TypeOK
      <3>4. QED
        BY <2>2, <2>4, <3>1, <3>2, <3>3 DEF TypeOK, hosts
    <2>7. QED
      BY <2>5, <2>6
  <1>6. CASE GiveUp(m)
    <2>1. faults' \in 0..MaxFaults
      BY <1>6, UsesType DEF GiveUp, uncordon_node
    <2>2. closed' \in [Instances -> BOOLEAN] /\ dropped' \subseteq Instances
      BY <1>0, <1>6 DEF TypeOK, GiveUp, uncordon_node
    <2>3. QED
      BY <1>0, <1>1, <1>6, <2>1, <2>2, CacheType
      DEF TypeOK, GiveUp, uncordon_node, StartDraining
  <1>7. CASE DrainKubernetes(m)
    <2>1. PICK cordoned \in BOOLEAN, evicted \in BOOLEAN :
            /\ Uses(~cordoned \/ (~evicted /\ (m.reason = Spot \/ ~pods[m.inst])))
            /\ closed' = [closed EXCEPT ![m.inst] =
                            @ \/ (cordoned /\ running[m.inst])]
            /\ pods' = [pods EXCEPT ![m.inst] = @ /\ ~evicted]
            /\ Follow(m, IF evicted THEN {} ELSE {Redrain(m)},
                         IF evicted THEN {m.inst} ELSE {})
      BY <1>7 DEF DrainKubernetes, drain_node, _evict_or_delete_pods
    <2>2. faults' \in 0..MaxFaults
      BY <2>1, UsesType
    <2>3. /\ closed' \in [Instances -> BOOLEAN]
          /\ pods' \in [Instances -> BOOLEAN]
      BY <2>1 DEF TypeOK
    <2>4. Redrain(m) \in Host
      BY <1>0, MaxAgeType, ConstantsAssumption DEF Redrain, NewHost, Host
    <2>5. /\ (IF evicted THEN {} ELSE {Redrain(m)}) \in SUBSET Host
          /\ (IF evicted THEN {m.inst} ELSE {}) \in SUBSET Instances
      BY <1>0, <2>4
    <2>6. /\ pc' \in {"clean", "warning", "drain", "termination"}
          /\ stage' \in {"receive", "send", "delete"}
          /\ held' \subseteq Host /\ outDrain' \subseteq Host
          /\ outTerm' \subseteq Instances
      BY <1>1, <2>1, <2>5
    <2>7. QED
      BY <1>0, <1>7, <2>2, <2>3, <2>6, CacheType
      DEF TypeOK, DrainKubernetes, drain_node, _evict_or_delete_pods, StartDraining
  <1>8. QED
    BY <1>2, <1>3, <1>4, <1>5, <1>6, <1>7 DEF process_drain_queue

\* Every step keeps the types.
LEMMA NextType == TypeOK /\ [Next]_vars => TypeOK'
  <1> SUFFICES ASSUME TypeOK, [Next]_vars
               PROVE  TypeOK'
    OBVIOUS
  <1>1. ASSUME NEW i \in Instances, DrainOf(i)
        PROVE  TypeOK'
    BY <1>1, DrainType DEF DrainOf
  <1>2. CASE UNCHANGED vars
    BY <1>2 DEF TypeOK, vars, queues, handler, cache, hosts
  <1>3. QED
    BY <1>1, <1>2, EnvironmentType, TickType, LoopStepType, CrashType,
       WarningType, TerminationType
    DEF Next, WarningOf, TerminationOf

\* Every state the drainer and its environment reach is well typed: no
\* handler puts a malformed host into a queue, the cache or the EC2 state.
THEOREM TypeCorrect == Spec => []TypeOK
  BY InitType, NextType, PTL DEF Spec

-----------------------------------------------------------------------------
(* No host is forgotten.  The two safety properties are inductive together  *)
(* with FollowUpIsHeld, which says what a crash may lose.                   *)

IInv == /\ TypeOK
        /\ CachedHostIsInPipeline
        /\ ClosedHostIsTracked
        /\ FollowUpIsHeld

Tracked(i) == InPipeline(i) \/ \E m \in drainQ : m.inst = i /\ ToProcess(m)

\* What it takes for a host to be in the pipeline, spelled out.
LEMMA PipelineDef ==
  \A i : /\ InPipeline(i) <=> \/ \E m \in drainQ : m.inst = i /\ m.attempt > 1
                              \/ \E m \in outDrain : m.inst = i /\ m.attempt > 1
                              \/ i \in termQ
                              \/ i \in outTerm
         /\ InPipeline(i)' <=> \/ \E m \in drainQ' : m.inst = i /\ m.attempt > 1
                               \/ \E m \in outDrain' : m.inst = i /\ m.attempt > 1
                               \/ i \in termQ'
                               \/ i \in outTerm'
  BY DEF InPipeline, Heading

\* What has to be shown of a step: each host keeps what the properties demand.
LEMMA Goal ==
  ASSUME TypeOK', FollowUpIsHeld',
         \A i \in Instances : running'[i] /\ i \notin dropped' =>
            /\ i \in cached' => InPipeline(i)'
            /\ closed'[i] => Tracked(i)'
  PROVE  IInv'
  BY DEF IInv, TypeOK, CachedHostIsInPipeline, ClosedHostIsTracked, Tracked

\* ... and what may be used of the state before.
LEMMA Given ==
  ASSUME IInv, NEW i \in Instances, running[i], i \notin dropped
  PROVE  /\ i \in cached => InPipeline(i)
         /\ closed[i] => Tracked(i)
  BY DEF IInv, CachedHostIsInPipeline, ClosedHostIsTracked, Tracked

\* The inductive invariant holds at the start: no host is cached or closed.
LEMMA InitSafe == Init => IInv
  BY InitType
  DEF Init, IInv, CachedHostIsInPipeline, ClosedHostIsTracked, FollowUpIsHeld

\* A step that keeps the queues, the follow-ups and the cache.
LEMMA EnvironmentSafe ==
  ASSUME IInv, NEW j \in Instances, Environment(j)
  PROVE  IInv'
  <1>0. TypeOK /\ TypeOK'
    BY EnvironmentType DEF IInv
  <1>1. UNCHANGED <<termQ, handler, cache>> /\ drainQ \subseteq drainQ'
    BY DEF Environment, submit_instance_for_draining, SpotWarning,
           InstanceLost, InstanceDetached, PodScheduled, queues
  <1>2. FollowUpIsHeld'
    BY <1>1 DEF IInv, FollowUpIsHeld, handler
  <1>3. \A i \in Instances : /\ running'[i] => running[i]
                             /\ closed'[i] => closed[i]
    BY <1>0 DEF TypeOK, Environment, submit_instance_for_draining, SpotWarning,
           InstanceLost, InstanceDetached, PodScheduled, hosts
  <1>4. dropped' = dropped
    BY DEF Environment, submit_instance_for_draining, SpotWarning,
           InstanceLost, InstanceDetached, PodScheduled
  <1>5. \A i \in Instances : /\ InPipeline(i) => InPipeline(i)'
                             /\ Tracked(i) => Tracked(i)'
    BY <1>1, PipelineDef DEF Tracked, ToProcess, handler, cache
  <1>6. QED
    BY <1>0, <1>1, <1>2, <1>3, <1>4, <1>5, Given, Goal DEF cache

\* The passing of time keeps the invariant: an older message still stands for
\* its host, and the cache loses an entry only in the loop.
LEMMA TickSafe ==
  ASSUME IInv, Tick
  PROVE  IInv'
  <1>0. TypeOK /\ TypeOK'
    BY TickType DEF IInv
  <1>1. \A m \in Host : Older(m).inst = m.inst /\ Older(m).attempt = m.attempt
    BY DEF Older, Host
  <1>2. FollowUpIsHeld'
    <2>1. \A m \in outDrain' : \E n \in outDrain : m = Older(n)
      BY DEF Tick
    <2>2. \A h \in held : Older(h) \in held'
      BY DEF Tick
    <2>3. QED
      BY <1>0, <1>1, <2>1, <2>2 DEF IInv, TypeOK, FollowUpIsHeld, Tick
  <1>3. /\ \A m \in drainQ : Older(m) \in drainQ'
        /\ \A m \in outDrain : Older(m) \in outDrain'
    BY DEF Tick
  <1>4. \A i \in Instances : InPipeline(i) => InPipeline(i)'
    BY <1>0, <1>1, <1>3, PipelineDef DEF TypeOK, Tick
  <1>5. \A i \in Instances : Tracked(i) => Tracked(i)'
    BY <1>0, <1>1, <1>3, <1>4 DEF TypeOK, Tick, Tracked, ToProcess
  <1>6. QED
    BY <1>0, <1>2, <1>4, <1>5, Given, Goal DEF Tick, hosts

\* Cleaning the cache, an empty receive, sending and deleting keep the
\* invariant: a follow-up is in its queue before its message is deleted.
LEMMA LoopStepSafe ==
  ASSUME IInv, LoopStep
  PROVE  IInv'
  <1>0. TypeOK /\ TypeOK'
    BY LoopStepType DEF IInv
  <1>1. UNCHANGED <<running, closed, dropped>> /\ cached' \subseteq cached
    BY DEF LoopStep, clean_processing_hosts_cache, EmptyReceive, send_message,
           delete_message, hosts, cache
  <1>2. CASE clean_processing_hosts_cache
    <2>1. UNCHANGED <<queues, stage, held, outDrain, outTerm>> /\ pc = "clean"
      BY <1>2 DEF clean_processing_hosts_cache
    <2>2. FollowUpIsHeld'
      BY <2>1 DEF IInv, FollowUpIsHeld
    <2>3. \A i \in Instances : /\ InPipeline(i) => InPipeline(i)'
                               /\ Tracked(i) => Tracked(i)'
      BY <1>1, <2>1, PipelineDef DEF Tracked, ToProcess, queues
    <2>4. QED
      BY <1>0, <1>1, <2>2, <2>3, Given, Goal
  <1>3. CASE EmptyReceive
    <2>1. UNCHANGED <<queues, stage, held, outDrain, outTerm, cached>>
      BY <1>3 DEF EmptyReceive, cache
    <2>2. FollowUpIsHeld'
      BY <1>3, <2>1 DEF IInv, FollowUpIsHeld, EmptyReceive
    <2>3. \A i \in Instances : /\ InPipeline(i) => InPipeline(i)'
                               /\ Tracked(i) => Tracked(i)'
      BY <2>1, PipelineDef DEF Tracked, ToProcess, queues
    <2>4. QED
      BY <1>0, <1>1, <2>2, <2>3, Given, Goal
  <1>4. CASE send_message
    <2>1. PICK n \in 1..MaxMessages : drainQ' = drainQ \cup Enqueued(outDrain, n)
      BY <1>4 DEF send_message
    <2>2. FollowUpIsHeld'
      BY <1>4 DEF send_message, FollowUpIsHeld
    <2>3. \A m \in outDrain : /\ [m EXCEPT !.id = n] \in drainQ'
                              /\ [m EXCEPT !.id = n].inst = m.inst
                              /\ [m EXCEPT !.id = n].attempt = m.attempt
      BY <1>0, <2>1, HostSteps DEF TypeOK, Enqueued
    <2>4. \A i \in Instances : InPipeline(i) => InPipeline(i)'
      <3>1. TAKE i \in Instances
      <3>2. ASSUME NEW m \in outDrain, m.inst = i, m.attempt > 1
            PROVE  InPipeline(i)'
        BY <2>3, <3>2, PipelineDef
      <3>3. drainQ \subseteq drainQ' /\ termQ' = termQ \cup outTerm
        BY <1>4, <2>1 DEF send_message
      <3>4. QED
        BY <3>2, <3>3, PipelineDef
    <2>5. \A i \in Instances : Tracked(i) => Tracked(i)'
      BY <1>4, <2>1, <2>4 DEF Tracked, ToProcess, send_message, cache
    <2>6. QED
      BY <1>0, <1>1, <2>2, <2>4, <2>5, Given, Goal
  <1>5. CASE delete_message
    <2>1. /\ drainQ \subseteq drainQ' /\ termQ \subseteq termQ'
          /\ UNCHANGED <<outDrain, outTerm, cached>>
      BY <1>5 DEF delete_message, Requeue, queues, cache
    <2>2. outDrain = {} /\ outTerm = {}
      BY <1>5 DEF IInv, FollowUpIsHeld, delete_message
    <2>3. FollowUpIsHeld'
      BY <2>1, <2>2 DEF FollowUpIsHeld
    <2>4. \A i \in Instances : /\ InPipeline(i) => InPipeline(i)'
                               /\ Tracked(i) => Tracked(i)'
      BY <2>1, PipelineDef DEF Tracked, ToProcess
    <2>5. QED
      BY <1>0, <1>1, <2>3, <2>4, Given, Goal
  <1>6. QED
    BY <1>2, <1>3, <1>4, <1>5 DEF LoopStep

\* A restart empties the cache, so nothing of it needs the pipeline; a closed
\* host is tracked as long as its messages, or the held one, are in a queue.
LEMMA RestartSafe ==
  ASSUME IInv, TypeOK', Restarted, stage = "receive",
         drainQ' = drainQ, termQ' = termQ,
         UNCHANGED <<running, dropped>>,
         \A i \in Instances : closed'[i] => closed[i] \/ i \in termQ
  PROVE  IInv'
  <1>1. FollowUpIsHeld' /\ cached' = {}
    BY DEF FollowUpIsHeld, Restarted
  <1>2. outDrain = {} /\ outTerm = {}
    BY DEF IInv, FollowUpIsHeld
  <1>3. \A i \in Instances : Tracked(i) \/ i \in termQ => Tracked(i)'
    BY <1>1, <1>2, PipelineDef DEF Tracked, ToProcess
  <1>4. QED
    BY <1>1, <1>3, Given, Goal

\* A crash keeps the invariant: the held message is delivered again.
LEMMA CrashSafe ==
  ASSUME IInv, Crash
  PROVE  IInv'
  <1>0. TypeOK /\ TypeOK'
    BY CrashType DEF IInv
  <1>1. FollowUpIsHeld' /\ cached' = {}
    BY DEF FollowUpIsHeld, Restarted, Crash
  <1>2. drainQ \subseteq drainQ' /\ termQ \subseteq termQ'
    BY DEF Crash, Requeue
  <1>3. pc = "drain" => held \subseteq drainQ'
    BY DEF Crash, Requeue
  <1>4. \A i \in Instances : Tracked(i) => Tracked(i)'
    <2>1. TAKE i \in Instances
    <2>2. ASSUME NEW m \in outDrain, m.inst = i, m.attempt > 1
          PROVE  Tracked(i)'
      <3>1. PICK h \in held : h.inst = i /\ pc = "drain"
        BY <2>2 DEF IInv, FollowUpIsHeld
      <3>2. QED
        BY <1>1, <1>3, <3>1 DEF Tracked, ToProcess
    <2>3. ASSUME i \in outTerm
          PROVE  Tracked(i)'
      <3>1. PICK h \in held : h.inst = i /\ pc = "drain"
        BY <2>3 DEF IInv, FollowUpIsHeld
      <3>2. QED
        BY <1>1, <1>3, <3>1 DEF Tracked, ToProcess
    <2>4. QED
      BY <1>1, <1>2, <2>2, <2>3, PipelineDef DEF Tracked, ToProcess
  <1>5. QED
    BY <1>0, <1>1, <1>4, Given, Goal DEF Crash, hosts

\* process_warning_queue keeps the invariant.
LEMMA WarningSafe ==
  ASSUME IInv, NEW j \in Instances, process_warning_queue(j)
  PROVE  IInv'
  <1>0. TypeOK /\ TypeOK'
    BY WarningType DEF IInv
  <1>1. UNCHANGED <<drainQ, termQ, running, closed, dropped>>
        /\ pc = "warning" /\ stage = "receive"
    BY DEF process_warning_queue, hosts, Receives
  <1>2. CASE Restarted
    BY <1>0, <1>1, <1>2, RestartSafe
  <1>3. CASE ~Restarted
    <2>1. PICK found \in host_from_instance_id(j) :
            /\ Follow(Plain(j),
                      IF found # "gone" /\ j \in OurGroups
                      THEN {FreshHost(j, Spot, 1)} ELSE {},
                      {})
            /\ UNCHANGED cache
      BY <1>3 DEF process_warning_queue
    <2>2. FreshHost(j, Spot, 1).attempt = 1
      BY FreshHostType
    <2>3. FollowUpIsHeld'
      BY <1>1, <2>1, <2>2 DEF Follow, FollowUpIsHeld
    <2>4. outDrain = {} /\ outTerm = {}
      BY <1>1 DEF IInv, FollowUpIsHeld
    <2>5. \A i \in Instances : /\ InPipeline(i) => InPipeline(i)'
                               /\ Tracked(i) => Tracked(i)'
      BY <1>1, <2>1, <2>4, PipelineDef DEF Tracked, ToProcess, cache
    <2>6. QED
      BY <1>0, <1>1, <2>1, <2>3, <2>5, Given, Goal DEF cache
  <1>4. QED
    BY <1>2, <1>3

\* process_termination_queue keeps the invariant: a host leaves the pipeline
\* only when it is terminated, given up, or its message stays.
LEMMA TerminationSafe ==
  ASSUME IInv, NEW j \in Instances, process_termination_queue(j)
  PROVE  IInv'
  <1>0. TypeOK /\ TypeOK'
    BY TerminationType DEF IInv
  <1>1. /\ drainQ' = drainQ /\ j \in termQ /\ stage = "receive"
    BY DEF process_termination_queue, Receives
  <1>2. outDrain = {} /\ outTerm = {}
    BY <1>1 DEF IInv, FollowUpIsHeld
  <1>3. CASE terminate_host(j)
    <2>1. /\ termQ' = termQ \ {j} /\ outDrain' = {} /\ outTerm' = {}
          /\ cached' = cached
      BY <1>3 DEF terminate_host, Follow, cache
    <2>2. FollowUpIsHeld'
      BY <2>1 DEF FollowUpIsHeld
    <2>3. ~running'[j] \/ j \in dropped'
      BY <1>0, <1>3 DEF TypeOK, terminate_host
    <2>4. \A i \in Instances \ {j} : /\ InPipeline(i) => InPipeline(i)'
                                     /\ Tracked(i) => Tracked(i)'
      BY <1>1, <1>2, <2>1, PipelineDef DEF Tracked, ToProcess
    <2>5. \A i \in Instances \ {j} : /\ running'[i] => running[i]
                                     /\ i \in dropped => i \in dropped'
                                     /\ closed'[i] => closed[i]
      BY <1>0, <1>3 DEF TypeOK, terminate_host
    <2>6. QED
      BY <1>0, <2>1, <2>2, <2>3, <2>4, <2>5, Given, Goal
  <1>4. CASE TerminateRaises(j) /\ Scheduler[j] = Kubernetes
    <2>1. UNCHANGED <<termQ, outDrain, outTerm, cached, running, closed, dropped>>
      BY <1>4 DEF TerminateRaises, cache
    <2>2. FollowUpIsHeld'
      BY <1>2, <2>1 DEF FollowUpIsHeld
    <2>3. \A i \in Instances : /\ InPipeline(i) => InPipeline(i)'
                               /\ Tracked(i) => Tracked(i)'
      BY <1>1, <2>1, PipelineDef DEF Tracked, ToProcess
    <2>4. QED
      BY <1>0, <2>1, <2>2, <2>3, Given, Goal
  <1>5. CASE TerminateRaises(j) /\ Scheduler[j] # Kubernetes
    <2>1. Restarted /\ UNCHANGED <<termQ, running, dropped>>
      BY <1>5 DEF TerminateRaises
    <2>2. \A i \in Instances : closed'[i] => closed[i] \/ i \in termQ
      BY <1>0, <1>1, <1>5 DEF TypeOK, TerminateRaises
    <2>3. QED
      BY <1>0, <1>1, <2>1, <2>2, RestartSafe
  <1>6. QED
    BY <1>3, <1>4, <1>5 DEF process_termination_queue

\* A handled drain message concerns its own host only: the others keep their
\* messages, cache entries and state, and what is left to show is about the
\* host of the message.
LEMMA DrainStepSafe ==
  ASSUME IInv, TypeOK', NEW m \in drainQ, Receives("drain"),
         drainQ' = drainQ \ {m}, UNCHANGED termQ,
         NEW a, NEW b, Follow(m, a, b),
         \A x \in a : x.inst = m.inst,
         b \subseteq {m.inst},
         \A i \in Instances \ {m.inst} :
            /\ i \in cached' <=> i \in cached
            /\ running'[i] = running[i] /\ closed'[i] = closed[i]
            /\ i \in dropped' <=> i \in dropped,
         running'[m.inst] /\ m.inst \notin dropped' =>
            /\ m.inst \in cached' => InPipeline(m.inst)'
            /\ closed'[m.inst] => Tracked(m.inst)'
  PROVE  IInv'
  <1>1. /\ held' = {m} /\ outDrain' = a /\ outTerm' = b /\ pc' = "drain"
        /\ a # {} \/ b # {} => stage' = "send"
    BY DEF Follow, Receives
  <1>2. FollowUpIsHeld'
    BY <1>1 DEF FollowUpIsHeld
  <1>3. outDrain = {} /\ outTerm = {}
    BY DEF IInv, FollowUpIsHeld, Receives
  <1>4. \A i \in Instances \ {m.inst} : /\ InPipeline(i) => InPipeline(i)'
                                        /\ Tracked(i) => Tracked(i)'
    BY <1>3, PipelineDef DEF Tracked, ToProcess
  <1>5. QED
    BY <1>2, <1>4, Given, Goal

\* process_drain_queue keeps the invariant, in each of its cases.
LEMMA DrainSafe ==
  ASSUME IInv, NEW m \in drainQ, process_drain_queue(m)
  PROVE  IInv'
  <1>0. TypeOK /\ TypeOK' /\ m \in Host /\ m.inst \in Instances
    BY DrainType DEF IInv, TypeOK, Host
  <1>1. \A i \in Instances \ {m.inst} :
          Remember(m.inst) \/ Forget(m.inst) \/ UNCHANGED cached =>
            (i \in cached' <=> i \in cached)
    BY DEF Remember, Forget
  <1>2. ASSUME NEW a, Follow(m, a, {m.inst})
        PROVE  InPipeline(m.inst)'
    BY <1>2, PipelineDef DEF Follow
  <1>3. CASE SkipDrain(m)
    <2>1. /\ Receives("drain") /\ drainQ' = drainQ \ {m} /\ UNCHANGED termQ
          /\ Follow(m, {}, {})
          /\ UNCHANGED <<cached, running, closed, dropped>>
          /\ m.inst \in cached /\ ~(m.attempt > 1)
      BY <1>3 DEF SkipDrain, ToProcess, cache, hosts
    <2>2. outDrain = {} /\ outTerm = {}
      BY <2>1 DEF IInv, FollowUpIsHeld, Receives
    <2>3. InPipeline(m.inst) => InPipeline(m.inst)'
      BY <2>1, <2>2, PipelineDef
    <2>4. running[m.inst] /\ m.inst \notin dropped => InPipeline(m.inst)'
      BY <1>0, <2>1, <2>3, Given
    <2>5. QED
      BY <1>0, <1>1, <2>1, <2>4, DrainStepSafe DEF Tracked
  <1>4. CASE DrainMesos(m)
    <2>1. /\ Receives("drain") /\ drainQ' = drainQ \ {m} /\ UNCHANGED termQ
          /\ Follow(m, {}, {m.inst})
          /\ Remember(m.inst)
      BY <1>4 DEF DrainMesos, StartDraining
    <2>2. \A i \in Instances \ {m.inst} :
            /\ running'[i] = running[i] /\ closed'[i] = closed[i]
            /\ i \in dropped' <=> i \in dropped
      BY <1>0, <1>4 DEF DrainMesos, TypeOK
    <2>3. QED
      BY <1>0, <1>1, <1>2, <2>1, <2>2, DrainStepSafe DEF Tracked
  <1>5. CASE DrainOther(m) \/ ForceTerminate(m)
    <2>1. /\ Receives("drain") /\ drainQ' = drainQ \ {m} /\ UNCHANGED termQ
          /\ Follow(m, {}, {m.inst})
          /\ Remember(m.inst)
          /\ UNCHANGED <<running, closed>> /\ dropped' = dropped \ {m.inst}
      BY <1>5 DEF DrainOther, ForceTerminate, StartDraining, hosts
    <2>2. QED
      BY <1>0, <1>1, <1>2, <2>1, DrainStepSafe DEF Tracked
  <1>6. CASE DrainOrphan(m)
    <2>0. /\ Receives("drain") /\ UNCHANGED <<termQ, running, closed>>
      BY <1>6 DEF DrainOrphan, StartDraining, hosts
    <2>1. CASE Restarted /\ UNCHANGED <<drainQ, dropped>>
      BY <1>0, <2>0, <2>1, RestartSafe DEF Receives
    <2>2. CASE /\ drainQ' = drainQ \ {m}
               /\ Remember(m.inst)
               /\ Follow(m, {}, {})
               /\ dropped' = IF running[m.inst] THEN dropped \cup {m.inst}
                             ELSE dropped \ {m.inst}
      BY <1>0, <1>1, <2>0, <2>2, DrainStepSafe
    <2>3. CASE /\ drainQ' = drainQ \ {m}
               /\ Remember(m.inst)
               /\ Follow(m, {}, {m.inst})
               /\ dropped' = dropped \ {m.inst}
      BY <1>0, <1>1, <1>2, <2>0, <2>3, DrainStepSafe DEF Tracked
    <2>4. CASE /\ drainQ' = drainQ \ {m}
               /\ Remember(m.inst)
               /\ Follow(m, {FreshHost(m.inst, m.reason, 2)}, {})
               /\ dropped' = dropped \ {m.inst}
      <3>1. /\ FreshHost(m.inst, m.reason, 2).inst = m.inst
            /\ FreshHost(m.inst, m.reason, 2).attempt = 2
        BY <1>0, FreshHostType DEF Host
      <3>2. InPipeline(m.inst)'
        BY <2>4, <3>1, PipelineDef DEF Follow
      <3>3. \A x \in {FreshHost(m.inst, m.reason, 2)} : x.inst = m.inst
        BY <3>1
      <3>4. QED
        BY <1>0, <1>1, <2>0, <2>4, <3>2, <3>3, DrainStepSafe DEF Tracked
    <2>5. QED
      BY <1>6, <2>1, <2>2, <2>3, <2>4 DEF DrainOrphan
  <1>7. CASE GiveUp(m)
    <2>1. /\ Receives("drain") /\ drainQ' = drainQ \ {m} /\ UNCHANGED termQ
          /\ Follow(m, {}, {})
          /\ Forget(m.inst)
      BY <1>7 DEF GiveUp, uncordon_node, StartDraining
    <2>2. \A i \in Instances \ {m.inst} :
            /\ running'[i] = running[i] /\ closed'[i] = closed[i]
            /\ i \in dropped' <=> i \in dropped
      BY <1>0, <1>7 DEF GiveUp, uncordon_node, TypeOK
    <2>3. m.inst \notin dropped' => ~closed'[m.inst]
      BY <1>0, <1>7 DEF GiveUp, uncordon_node, TypeOK
    <2>4. m.inst \notin cached'
      BY <2>1 DEF Forget
    <2>5. QED
      BY <1>0, <1>1, <2>1, <2>2, <2>3, <2>4, DrainStepSafe
  <1>8. CASE DrainKubernetes(m)
    <2>1. /\ Receives("drain") /\ drainQ' = drainQ \ {m} /\ UNCHANGED termQ
          /\ Remember(m.inst)
          /\ running' = running /\ dropped' = dropped \ {m.inst}
      BY <1>8 DEF DrainKubernetes, drain_node, _evict_or_delete_pods, StartDraining
    <2>2. \A i \in Instances \ {m.inst} : closed'[i] = closed[i]
      BY <1>0, <1>8 DEF DrainKubernetes, drain_node, _evict_or_delete_pods, TypeOK
    <2>3. /\ Redrain(m).inst = m.inst
          /\ Redrain(m).attempt = 2
      BY DEF Redrain, NewHost
    <2>4. CASE Follow(m, {}, {m.inst})
      BY <1>0, <1>1, <1>2, <2>1, <2>2, <2>4, DrainStepSafe DEF Tracked
    <2>5. CASE Follow(m, {Redrain(m)}, {})
      <3>1. InPipeline(m.inst)'
        BY <2>3, <2>5, PipelineDef DEF Follow
      <3>2. \A x \in {Redrain(m)} : x.inst = m.inst
        BY <2>3
      <3>3. QED
        BY <1>0, <1>1, <2>1, <2>2, <2>5, <3>1, <3>2, DrainStepSafe DEF Tracked
    <2>6. QED
      BY <1>8, <2>4, <2>5 DEF DrainKubernetes, drain_node, _evict_or_delete_pods
  <1>9. QED
    BY <1>3, <1>4, <1>5, <1>6, <1>7, <1>8 DEF process_drain_queue

\* The invariant is inductive: every step of the drainer, of its environment
\* and of the clock keeps it.
LEMMA NextSafe == IInv /\ [Next]_vars => IInv'
  <1> SUFFICES ASSUME IInv, [Next]_vars
               PROVE  IInv'
    OBVIOUS
  <1>1. ASSUME NEW i \in Instances, DrainOf(i)
        PROVE  IInv'
    BY <1>1, DrainSafe DEF DrainOf
  <1>2. CASE UNCHANGED vars
    <2>1. TypeOK'
      BY NextType DEF IInv
    <2>2. UNCHANGED <<drainQ, termQ, outDrain, outTerm, held, pc, stage, cached,
                      running, closed, dropped>>
      BY <1>2 DEF vars, queues, handler, cache, hosts
    <2>3. FollowUpIsHeld'
      BY <2>2 DEF IInv, FollowUpIsHeld
    <2>4. \A i \in Instances : /\ InPipeline(i) => InPipeline(i)'
                               /\ Tracked(i) => Tracked(i)'
      BY <2>2, PipelineDef DEF Tracked, ToProcess
    <2>5. QED
      BY <2>1, <2>2, <2>3, <2>4, Given, Goal
  <1>3. QED
    BY <1>1, <1>2, EnvironmentSafe, TickSafe, LoopStepSafe, CrashSafe,
       WarningSafe, TerminationSafe
    DEF Next, WarningOf, TerminationOf

\* The cache only holds hosts that are still worked on, so a first request for
\* a cached host may be deleted unread.
THEOREM CacheIsSound == Spec => []CachedHostIsInPipeline
  BY InitSafe, NextSafe, PTL DEF Spec, IInv

\* Whatever crashes, duplicates and API errors happen, a host that was closed
\* to new work and not given up has a message that will be acted on.
THEOREM NoHostForgotten == Spec => []ClosedHostIsTracked
  BY InitSafe, NextSafe, PTL DEF Spec, IInv

\* A crash between acting and sending loses no host: the message is held.
THEOREM SendBeforeDelete == Spec => []FollowUpIsHeld
  BY InitSafe, NextSafe, PTL DEF Spec, IInv

-----------------------------------------------------------------------------
(* One chain of work per host.  As long as nothing has failed, every host   *)
(* with a PrivateDnsName and no message waits for longer than a cache entry *)
(* lives, a host in the pipeline is in the cache with time left; so a first *)
(* request for it is skipped, and only the message that already stands for  *)
(* it can go on.                                                            *)

NothingFailed == faults = MaxFaults

NoNameMissing == \A i \in Instances : DnsName[i] # "missing"

\* m is a re-drain of host i.
Again(m, i) == m.inst = i /\ m.attempt > 1

Chain(i) ==
  /\ \A m, n \in drainQ : Again(m, i) /\ Again(n, i) => m = n
  /\ \A m, n \in outDrain : Again(m, i) /\ Again(n, i) => m = n
  /\ \A m \in drainQ, n \in outDrain : ~(Again(m, i) /\ Again(n, i))
  /\ (\E m \in drainQ \cup outDrain : Again(m, i)) =>
       i \notin termQ \cup outTerm
  /\ InPipeline(i) => i \in cached /\ ttl[i] >= 0

Chains == NothingFailed => \A i \in Instances : Chain(i)

\* A step after which nothing has failed has used up no fault.
LEMMA UsesNothing ==
  ASSUME TypeOK, NEW b, Uses(b), NothingFailed'
  PROVE  ~b /\ NothingFailed
  BY ConstantsAssumption DEF TypeOK, Uses, NothingFailed

\* A step that adds no message for a host and leaves its cache entry alone
\* keeps its chain.
LEMMA ChainKept ==
  ASSUME NEW i, Chain(i),
         \A m \in drainQ' : Again(m, i) => m \in drainQ,
         \A m \in outDrain' : Again(m, i) => m \in outDrain,
         i \in termQ' \cup outTerm' => i \in termQ \cup outTerm,
         InPipeline(i) => /\ i \in cached => i \in cached'
                          /\ ttl[i] >= 0 => ttl'[i] >= 0
  PROVE  Chain(i)'
  <1>1. InPipeline(i)' => InPipeline(i)
    BY PipelineDef DEF Again
  <1>2. QED
    BY <1>1 DEF Chain, Again

\* Requests, warnings and what happens to hosts add first attempts only.
LEMMA EnvironmentChains ==
  ASSUME TypeOK, Chains, NothingFailed', NEW j \in Instances, Environment(j)
  PROVE  \A i \in Instances : Chain(i)'
  <1>1. NothingFailed
    BY UsesNothing DEF Environment, submit_instance_for_draining, SpotWarning,
       InstanceLost, InstanceDetached, PodScheduled, NothingFailed
  <1>2. UNCHANGED <<termQ, handler, cache>>
    BY DEF Environment, submit_instance_for_draining, SpotWarning,
           InstanceLost, InstanceDetached, PodScheduled, queues
  <1>3. \A m \in drainQ' : m.attempt > 1 => m \in drainQ
    <2>1. ASSUME NEW agent \in BOOLEAN, submit_instance_for_draining(j, agent)
          PROVE  \A m \in drainQ' : m.attempt > 1 => m \in drainQ
      <3>1. PICK n \in 1..MaxMessages :
              drainQ' = drainQ \cup Enqueued({NewHost(j, agent, 1, Scaling)}, n)
        BY <2>1 DEF submit_instance_for_draining
      <3>2. \A m \in Enqueued({NewHost(j, agent, 1, Scaling)}, n) : m.attempt = 1
        BY DEF Enqueued, NewHost
      <3>3. QED
        BY <3>1, <3>2
    <2>2. QED
      BY <2>1 DEF Environment, SpotWarning, InstanceLost, InstanceDetached,
                  PodScheduled, queues
  <1>4. QED
    BY <1>1, <1>2, <1>3, ChainKept DEF Chains, Again, handler, cache

\* No message waits for so long that the cache entry of its host expires.
LEMMA TickChains ==
  ASSUME TypeOK, Chains, NothingFailed', Prompt, Tick
  PROVE  \A i \in Instances : Chain(i)'
  <1>1. \A m \in Host : Older(m).inst = m.inst /\ Older(m).attempt = m.attempt
    BY DEF Older, Host
  <1>2. TAKE i \in Instances
  <1>3. Chain(i)
    BY DEF Chains, NothingFailed, Tick
  <1>4. /\ \A m \in drainQ' : \E n \in drainQ : m = Older(n)
        /\ \A m \in outDrain' : \E n \in outDrain : m = Older(n)
        /\ UNCHANGED <<termQ, outTerm, cached>>
    BY DEF Tick
  <1>5. \A m \in Host : Again(Older(m), i) <=> Again(m, i)
    BY <1>1 DEF Again
  <1>6. /\ \A m \in drainQ' : Again(m, i) =>
             \E n \in drainQ : m = Older(n) /\ Again(n, i)
        /\ \A m \in outDrain' : Again(m, i) =>
             \E n \in outDrain : m = Older(n) /\ Again(n, i)
    BY <1>4, <1>5 DEF TypeOK
  <1>7. InPipeline(i)' => InPipeline(i)
    BY <1>4, <1>6, PipelineDef DEF Again
  <1>8. InPipeline(i) => ttl'[i] >= 0
    BY <1>2 DEF Tick, TypeOK
  <1>9. QED
    BY <1>3, <1>4, <1>6, <1>7, <1>8 DEF Chain

\* Only expired entries leave the cache; a follow-up goes from the handler to
\* its queue; nothing is delivered twice.
LEMMA LoopStepChains ==
  ASSUME IInv, Chains, NothingFailed', LoopStep
  PROVE  \A i \in Instances : Chain(i)'
  <1>1. CASE clean_processing_hosts_cache
    <2>1. /\ UNCHANGED <<drainQ, outDrain, termQ, outTerm, ttl>>
          /\ NothingFailed
          /\ \A i \in cached : ttl[i] >= 0 => i \in cached'
      BY <1>1 DEF clean_processing_hosts_cache, queues, NothingFailed
    <2>2. QED
      BY <2>1, ChainKept DEF Chains, Chain
  <1>2. CASE EmptyReceive
    BY <1>2, ChainKept DEF Chains, EmptyReceive, NothingFailed, queues, cache
  <1>3. CASE send_message
    <2>1. PICK n \in 1..MaxMessages : drainQ' = drainQ \cup Enqueued(outDrain, n)
      BY <1>3 DEF send_message
    <2>2. /\ outDrain' = {} /\ outTerm' = {} /\ termQ' = termQ \cup outTerm
          /\ UNCHANGED <<cached, ttl>> /\ NothingFailed
      BY <1>3 DEF send_message, cache, NothingFailed
    <2>3. TAKE i \in Instances
    <2>4. Chain(i)
      BY <2>2 DEF Chains
    <2>5. \A m \in drainQ' : Again(m, i) =>
            \/ m \in drainQ
            \/ \E o \in outDrain : Again(o, i) /\ m = [o EXCEPT !.id = n]
      <3>1. \A o \in outDrain : Again([o EXCEPT !.id = n], i) <=> Again(o, i)
        BY HostSteps DEF IInv, TypeOK, Again
      <3>2. QED
        BY <2>1, <3>1 DEF Enqueued
    <2>6. InPipeline(i)' => InPipeline(i)
      BY <2>2, <2>5, PipelineDef DEF Again
    <2>7. QED
      BY <2>2, <2>4, <2>5, <2>6 DEF Chain
  <1>4. CASE delete_message
    <2>1. PICK copy \in BOOLEAN : Uses(copy) /\ (~copy => UNCHANGED queues)
      BY <1>4 DEF delete_message
    <2>2. ~copy /\ NothingFailed
      BY <2>1, UsesNothing DEF IInv
    <2>3. UNCHANGED <<drainQ, termQ, outDrain, outTerm, cached, ttl>>
      BY <1>4, <2>1, <2>2 DEF delete_message, queues, cache
    <2>4. QED
      BY <2>2, <2>3, ChainKept DEF Chains
  <1>5. QED
    BY <1>1, <1>2, <1>3, <1>4 DEF LoopStep

\* A spot warning is followed by a first attempt.
LEMMA WarningChains ==
  ASSUME IInv, Chains, NothingFailed', NoNameMissing,
         NEW j \in Instances, process_warning_queue(j)
  PROVE  \A i \in Instances : Chain(i)'
  <1>1. PICK found \in host_from_instance_id(j) :
          /\ Uses(found = "gone" /\ running[j])
          /\ \/ found = "missing"
             \/ /\ Follow(Plain(j),
                          IF found # "gone" /\ j \in OurGroups
                          THEN {FreshHost(j, Spot, 1)} ELSE {},
                          {})
                /\ UNCHANGED cache
    BY DEF process_warning_queue
  <1>2. found # "missing" /\ NothingFailed
    BY <1>1, UsesNothing DEF IInv, NoNameMissing, host_from_instance_id
  <1>3. FreshHost(j, Spot, 1).attempt = 1
    BY FreshHostType
  <1>4. UNCHANGED <<drainQ, termQ, cached, ttl>> /\ outTerm' = {}
        /\ \A m \in outDrain' : ~(m.attempt > 1)
    BY <1>1, <1>2, <1>3 DEF process_warning_queue, Follow, cache
  <1>5. QED
    BY <1>2, <1>4, ChainKept DEF Chains, Again

\* A termination takes its host out of the pipeline.
LEMMA TerminationChains ==
  ASSUME IInv, Chains, NothingFailed',
         NEW j \in Instances, process_termination_queue(j)
  PROVE  \A i \in Instances : Chain(i)'
  <1>1. terminate_host(j) /\ NothingFailed
    <2>1. ~TerminateRaises(j)
      BY UsesNothing DEF TerminateRaises, IInv
    <2>2. terminate_host(j)
      BY <2>1 DEF process_termination_queue
    <2>3. QED
      BY <2>2, UsesNothing DEF terminate_host, IInv
  <1>2. /\ UNCHANGED <<drainQ, cached, ttl>>
        /\ termQ' \subseteq termQ /\ outDrain' = {} /\ outTerm' = {}
    BY <1>1 DEF process_termination_queue, terminate_host, Follow, cache
  <1>3. QED
    BY <1>1, <1>2, ChainKept DEF Chains

\* The message that is worked on is the only one that stands for its host:
\* a first attempt is not, as its host is not in the cache.
LEMMA Alone ==
  ASSUME NEW m \in drainQ, Chain(m.inst), ToProcess(m)
  PROVE  /\ \A n \in drainQ \ {m} : ~Again(n, m.inst)
         /\ m.inst \notin termQ
  <1>1. CASE m.attempt > 1
    BY <1>1 DEF Chain, Again
  <1>2. CASE ~(m.attempt > 1)
    <2>1. ~InPipeline(m.inst)
      BY <1>2 DEF Chain, ToProcess
    <2>2. QED
      BY <2>1, PipelineDef DEF Again
  <1>3. QED
    BY <1>1, <1>2

\* A message that is worked on is replaced by one follow-up at most, and the
\* cache remembers the host of the follow-up.
LEMMA FollowChains ==
  ASSUME IInv, \A i \in Instances : Chain(i), NEW m \in drainQ,
         Receives("drain"), ToProcess(m),
         drainQ' = drainQ \ {m}, UNCHANGED termQ,
         NEW a, NEW b, Follow(m, a, b),
         \A x, y \in a : x = y,
         \A x \in a : x.inst = m.inst,
         a # {} => b = {},
         b \subseteq {m.inst},
         Remember(m.inst) \/ (Forget(m.inst) /\ a = {} /\ b = {})
  PROVE  \A i \in Instances : Chain(i)'
  <1>1. TypeOK /\ m.inst \in Instances
    BY DEF IInv, TypeOK, Host
  <1>2. outDrain' = a /\ outTerm' = b
    BY DEF Follow
  <1>3. outDrain = {} /\ outTerm = {}
    BY DEF IInv, FollowUpIsHeld, Receives
  <1>4. ASSUME NEW i \in Instances, i # m.inst
        PROVE  Chain(i)'
    <2>1. (i \in cached => i \in cached') /\ ttl'[i] = ttl[i]
      BY <1>1, <1>4 DEF Remember, Forget, TypeOK
    <2>2. QED
      BY <1>2, <1>4, <2>1, ChainKept DEF Again
  <1>5. Chain(m.inst)'
    <2>1. /\ \A n \in drainQ' : ~Again(n, m.inst)
          /\ m.inst \notin termQ'
      BY <1>1, Alone
    <2>2. InPipeline(m.inst)' => a # {} \/ b # {}
      BY <1>2, <2>1, PipelineDef DEF Again
    <2>3. Remember(m.inst) => m.inst \in cached' /\ ttl'[m.inst] >= 0
      BY <1>1, ConstantsAssumption DEF Remember, TypeOK
    <2>4. QED
      BY <1>2, <2>1, <2>2, <2>3 DEF Chain
  <1>6. QED
    BY <1>4, <1>5

\* process_drain_queue keeps one chain per host, in each of its cases.
LEMMA DrainChains ==
  ASSUME IInv, Chains, NothingFailed', NoNameMissing,
         NEW m \in drainQ, process_drain_queue(m)
  PROVE  \A i \in Instances : Chain(i)'
  <1>0. TypeOK /\ m \in Host /\ m.inst \in Instances
    BY DEF IInv, TypeOK, Host
  <1>1. CASE SkipDrain(m)
    <2>1. /\ drainQ' \subseteq drainQ /\ UNCHANGED <<termQ, cached, ttl>>
          /\ outDrain' = {} /\ outTerm' = {} /\ NothingFailed
      BY <1>1 DEF SkipDrain, Follow, cache, NothingFailed
    <2>2. QED
      BY <2>1, ChainKept DEF Chains
  <1>2. CASE DrainMesos(m)
    <2>1. NothingFailed
      BY <1>0, <1>2, UsesNothing DEF DrainMesos
    <2>2. QED
      BY <1>2, <2>1, FollowChains DEF Chains, DrainMesos, StartDraining
  <1>3. CASE DrainOther(m) \/ ForceTerminate(m)
    BY <1>3, FollowChains
    DEF Chains, DrainOther, ForceTerminate, StartDraining, NothingFailed
  <1>4. CASE DrainOrphan(m)
    <2>1. PICK found \in host_from_instance_id(m.inst) :
            /\ Uses(found = "gone" /\ running[m.inst])
            /\ \/ /\ drainQ' = drainQ \ {m}
                  /\ Remember(m.inst)
                  /\ \/ Follow(m, {}, {})
                     \/ Follow(m, {}, {m.inst})
                     \/ Follow(m, {FreshHost(m.inst, m.reason, 2)}, {})
               \/ found = "missing"
      BY <1>4 DEF DrainOrphan
    <2>2. found # "missing" /\ NothingFailed
      BY <1>0, <2>1, UsesNothing DEF NoNameMissing, host_from_instance_id
    <2>3. \A y \in {FreshHost(m.inst, m.reason, 2)} : y.inst = m.inst
      BY <1>0, FreshHostType DEF Host
    <2>4. Receives("drain") /\ ToProcess(m) /\ UNCHANGED termQ
      BY <1>4 DEF DrainOrphan, StartDraining
    <2>5. CASE Follow(m, {}, {}) \/ Follow(m, {}, {m.inst})
      BY <2>1, <2>2, <2>4, <2>5, FollowChains DEF Chains
    <2>6. CASE Follow(m, {FreshHost(m.inst, m.reason, 2)}, {})
      BY <2>1, <2>2, <2>3, <2>4, <2>6, FollowChains DEF Chains
    <2>7. QED
      BY <2>1, <2>2, <2>5, <2>6
  <1>5. CASE GiveUp(m)
    <2>1. NothingFailed
      BY <1>0, <1>5, UsesNothing DEF GiveUp, uncordon_node
    <2>2. QED
      BY <1>5, <2>1, FollowChains DEF Chains, GiveUp, uncordon_node, StartDraining
  <1>6. CASE DrainKubernetes(m)
    <2>1. NothingFailed
      BY <1>0, <1>6, UsesNothing
      DEF DrainKubernetes, drain_node, _evict_or_delete_pods
    <2>2. /\ Receives("drain") /\ ToProcess(m) /\ UNCHANGED termQ
          /\ drainQ' = drainQ \ {m} /\ Remember(m.inst)
      BY <1>6 DEF DrainKubernetes, drain_node, _evict_or_delete_pods, StartDraining
    <2>3. \A y \in {Redrain(m)} : y.inst = m.inst
      BY DEF Redrain, NewHost
    <2>4. CASE Follow(m, {}, {m.inst})
      BY <2>1, <2>2, <2>4, FollowChains DEF Chains
    <2>5. CASE Follow(m, {Redrain(m)}, {})
      BY <2>1, <2>2, <2>3, <2>5, FollowChains DEF Chains
    <2>6. QED
      BY <1>6, <2>4, <2>5 DEF DrainKubernetes, drain_node, _evict_or_delete_pods
  <1>7. QED
    BY <1>1, <1>2, <1>3, <1>4, <1>5, <1>6 DEF process_drain_queue

\* Every step keeps one chain per host.
LEMMA NextChains ==
  ASSUME IInv, Chains, Prompt, NoNameMissing, [Next]_vars
  PROVE  Chains'
  <1> SUFFICES ASSUME NothingFailed'
               PROVE  \A i \in Instances : Chain(i)'
    BY DEF Chains
  <1>0. TypeOK
    BY DEF IInv
  <1>1. ASSUME NEW i \in Instances, DrainOf(i)
        PROVE  \A j \in Instances : Chain(j)'
    BY <1>1, DrainChains DEF DrainOf
  <1>2. CASE UNCHANGED vars
    <2>1. UNCHANGED <<drainQ, outDrain, termQ, outTerm, cached, ttl, faults>>
      BY <1>2 DEF vars, queues, handler, cache
    <2>2. QED
      BY <2>1, ChainKept DEF Chains, NothingFailed
  <1>3. ~Crash
    BY <1>0, UsesNothing DEF Crash
  <1>4. QED
    BY <1>0, <1>1, <1>2, <1>3, EnvironmentChains, TickChains, LoopStepChains,
       WarningChains, TerminationChains
    DEF Next, WarningOf, TerminationOf

\* At most one message stands for a host, counted as the property counts.
LEMMA ChainIsSingle ==
  ASSUME NEW i, Chain(i)
  PROVE  Cardinality(Heading(i)) + Cardinality({i} \cap (termQ \cup outTerm)) <= 1
  <1>1. \A m, n \in Heading(i) : m = n
    BY DEF Chain, Heading, Again
  <1>2. Heading(i) # {} => i \notin termQ \cup outTerm
    BY DEF Chain, Heading, Again
  <1>3. Heading(i) = {} \/ \E m : Heading(i) = {m}
    BY <1>1
  <1>4. \/ {i} \cap (termQ \cup outTerm) = {}
        \/ {i} \cap (termQ \cup outTerm) = {i}
    OBVIOUS
  <1>5. Cardinality({}) = 0
    BY FS_EmptySet
  <1>6. \A m : Cardinality({m}) = 1
    BY FS_Singleton
  <1>7. CASE Heading(i) = {}
    BY <1>4, <1>5, <1>6, <1>7
  <1>8. CASE Heading(i) # {}
    <2>1. {i} \cap (termQ \cup outTerm) = {}
      BY <1>2, <1>8
    <2>2. Cardinality(Heading(i)) = 1
      BY <1>3, <1>6, <1>8
    <2>3. QED
      BY <1>5, <2>1, <2>2
  <1>9. QED
    BY <1>7, <1>8

\* As long as nothing fails and no backlog outlives a cache entry, a host is
\* never in the drainer's pipeline twice, however many requests and spot
\* warnings arrive for it: draining_host_ttl_cache does its job.  (A host
\* without a PrivateDnsName restarts the drainer, which empties the cache.)
THEOREM OneChainPerHost ==
  ASSUME Prompt, NoNameMissing
  PROVE  Spec => [](NothingFailed => SingleChain)
  <1>1. Init => IInv /\ Chains
    <2>1. Init => Chains
      BY DEF Init, Chains, Chain, InPipeline, Heading
    <2>2. QED
      BY <2>1, InitSafe
  <1>2. IInv /\ Chains /\ [Next]_vars => (IInv /\ Chains)'
    BY NextSafe, NextChains
  <1>3. IInv /\ Chains => (NothingFailed => SingleChain)
    BY ChainIsSingle DEF Chains, SingleChain
  <1>4. QED
    BY <1>1, <1>2, <1>3, PTL DEF Spec

-----------------------------------------------------------------------------
(* No pod is killed.  A termination message for a running Kubernetes node   *)
(* says that the node is cordoned and empty; by Chains nobody uncordons it  *)
(* while the message exists.                                                *)

KubernetesNamed ==
  \A i \in Instances : Scheduler[i] = Kubernetes => DnsName[i] = "named"

Ready(i) ==
  i \in termQ \cup outTerm /\ Scheduler[i] = Kubernetes /\ running[i] =>
    closed[i] /\ ~pods[i]

Emptied == NothingFailed => \A i \in Instances : Ready(i)

\* A step that adds no termination, and keeps a cordoned node as it is.
LEMMA ReadyKept ==
  ASSUME NEW i, Ready(i),
         i \in termQ' \cup outTerm' => i \in termQ \cup outTerm,
         running'[i] => running[i],
         closed[i] => closed'[i],
         pods'[i] => pods[i]
  PROVE  Ready(i)'
  BY DEF Ready

\* The handler of a drain message submits a Kubernetes node for termination
\* only when it has cordoned and emptied it.
LEMMA DrainEmptied ==
  ASSUME IInv, Chains, Emptied, NothingFailed', ~PoolForceTerminate,
         KubernetesNamed, NEW m \in drainQ, process_drain_queue(m)
  PROVE  \A i \in Instances : Ready(i)'
  <1>0. TypeOK /\ TypeOK' /\ m \in Host /\ m.inst \in Instances
    BY DrainType DEF IInv, TypeOK, Host
  <1>1. NothingFailed
    BY <1>0, UsesNothing
    DEF process_drain_queue, SkipDrain, DrainMesos, DrainOther, DrainOrphan,
        ForceTerminate, GiveUp, uncordon_node, DrainKubernetes, drain_node,
        _evict_or_delete_pods, NothingFailed
  <1>2. outTerm' \subseteq {m.inst} /\ termQ' = termQ
    BY DEF process_drain_queue, SkipDrain, DrainMesos, DrainOther, DrainOrphan,
           ForceTerminate, GiveUp, uncordon_node, DrainKubernetes, drain_node,
           _evict_or_delete_pods, StartDraining, Follow, Restarted
  <1>3. ASSUME NEW i \in Instances, i # m.inst
        PROVE  Ready(i)'
    <2>1. running'[i] = running[i] /\ closed'[i] = closed[i] /\ pods'[i] = pods[i]
      BY <1>0, <1>3
      DEF process_drain_queue, SkipDrain, DrainMesos, DrainOther, DrainOrphan,
          ForceTerminate, GiveUp, uncordon_node, DrainKubernetes, drain_node,
          _evict_or_delete_pods, hosts, TypeOK
    <2>2. QED
      BY <1>1, <1>2, <1>3, <2>1, ReadyKept DEF Emptied
  <1>4. Ready(m.inst)'
    <2>1. CASE SkipDrain(m)
      <3>1. UNCHANGED <<running, closed, pods>> /\ outTerm' = {}
        BY <2>1 DEF SkipDrain, Follow, hosts
      <3>2. QED
        BY <1>0, <1>1, <1>2, <3>1, ReadyKept DEF Emptied
    <2>2. CASE Scheduler[m.inst] # Kubernetes
      BY <2>2 DEF Ready
    <2>3. CASE ~SkipDrain(m) /\ Scheduler[m.inst] = Kubernetes
      <3>1. ~ForceTerminate(m)
        BY DEF ForceTerminate, force_terminate
      <3>2. m.inst \notin termQ
        BY <1>0, <1>1, <2>3, <3>1, Alone
        DEF Chains, process_drain_queue, DrainMesos, DrainOther, DrainOrphan,
            ForceTerminate, GiveUp, DrainKubernetes, StartDraining
      <3>3. CASE DrainOrphan(m)
        <4>1. outTerm' = {}
          <5>1. \A found \in host_from_instance_id(m.inst) : found # "empty"
            BY <1>0, <2>3 DEF host_from_instance_id, KubernetesNamed
          <5>2. QED
            BY <3>3, <5>1 DEF DrainOrphan, Follow, Restarted
        <4>2. QED
          BY <1>2, <3>2, <4>1 DEF Ready
      <3>4. CASE GiveUp(m)
        BY <1>2, <3>2, <3>4 DEF Ready, GiveUp, uncordon_node, Follow
      <3>5. CASE DrainKubernetes(m)
        <4>1. PICK cordoned \in BOOLEAN, evicted \in BOOLEAN :
                /\ Uses(~cordoned
                        \/ (~evicted /\ (m.reason = Spot \/ ~pods[m.inst])))
                /\ closed' = [closed EXCEPT ![m.inst] =
                                @ \/ (cordoned /\ running[m.inst])]
                /\ pods' = [pods EXCEPT ![m.inst] = @ /\ ~evicted]
                /\ outTerm' = IF evicted THEN {m.inst} ELSE {}
          BY <3>5 DEF DrainKubernetes, drain_node, _evict_or_delete_pods, Follow
        <4>2. cordoned
          BY <1>0, <4>1, UsesNothing
        <4>3. running' = running
          BY <3>5 DEF DrainKubernetes
        <4>4. CASE evicted
          BY <1>0, <4>1, <4>2, <4>3, <4>4 DEF Ready, TypeOK
        <4>5. CASE ~evicted
          BY <1>2, <3>2, <4>1, <4>5 DEF Ready
        <4>6. QED
          BY <4>4, <4>5
      <3>6. QED
        BY <2>3, <3>1, <3>3, <3>4, <3>5
        DEF process_drain_queue, DrainMesos, DrainOther, Mesos, Kubernetes
    <2>4. QED
      BY <2>1, <2>2, <2>3
  <1>5. QED
    BY <1>3, <1>4

\* Every step keeps the nodes that are to be terminated cordoned and empty.
LEMMA NextEmptied ==
  ASSUME IInv, Chains, Emptied, ~PoolForceTerminate, KubernetesNamed, [Next]_vars
  PROVE  Emptied'
  <1> SUFFICES ASSUME NothingFailed'
               PROVE  \A i \in Instances : Ready(i)'
    BY DEF Emptied
  <1>0. TypeOK /\ TypeOK'
    BY NextSafe DEF IInv
  <1>1. ASSUME NEW j \in Instances, Environment(j)
        PROVE  \A i \in Instances : Ready(i)'
    <2>1. ~InstanceLost(j) /\ ~InstanceDetached(j)
      BY <1>0, UsesNothing DEF InstanceLost, InstanceDetached
    <2>2. NothingFailed /\ UNCHANGED <<termQ, outTerm, running, closed>>
      BY <1>1, <2>1
      DEF Environment, submit_instance_for_draining, SpotWarning, PodScheduled,
          NothingFailed, queues, handler, hosts
    <2>3. \A i \in Instances : pods'[i] => pods[i] \/ ~closed[i]
      BY <1>0, <1>1, <2>1
      DEF Environment, submit_instance_for_draining, SpotWarning, PodScheduled,
          hosts, TypeOK
    <2>4. QED
      BY <2>2, <2>3 DEF Emptied, Ready
  <1>2. ASSUME NEW j \in Instances, DrainOf(j)
        PROVE  \A i \in Instances : Ready(i)'
    BY <1>2, DrainEmptied DEF DrainOf
  <1>3. ASSUME NEW j \in Instances, process_termination_queue(j)
        PROVE  \A i \in Instances : Ready(i)'
    <2>1. ~TerminateRaises(j)
      BY <1>0, UsesNothing DEF TerminateRaises
    <2>2. terminate_host(j)
      BY <1>3, <2>1 DEF process_termination_queue
    <2>3. NothingFailed
      BY <1>0, <2>2, UsesNothing DEF terminate_host
    <2>4. termQ' = termQ \ {j} /\ outTerm' = {}
      BY <2>2 DEF terminate_host, Follow
    <2>5. \A i \in Instances \ {j} :
            running'[i] = running[i] /\ closed'[i] = closed[i] /\ pods'[i] = pods[i]
      BY <1>0, <2>2 DEF terminate_host, TypeOK
    <2>6. QED
      BY <2>3, <2>4, <2>5 DEF Emptied, Ready
  <1>4. ASSUME \/ \E j \in Instances : process_warning_queue(j)
               \/ LoopStep \/ Tick \/ UNCHANGED vars
        PROVE  \A i \in Instances : Ready(i)'
    <2>1. UNCHANGED <<running, closed, pods>>
      BY <1>4
      DEF process_warning_queue, LoopStep, clean_processing_hosts_cache,
          EmptyReceive, send_message, delete_message, Tick, vars, hosts
    <2>2. NothingFailed
      BY <1>0, <1>4, UsesNothing
      DEF process_warning_queue, LoopStep, clean_processing_hosts_cache,
          EmptyReceive, send_message, delete_message, Tick, vars, NothingFailed
    <2>3. termQ' \cup outTerm' \subseteq termQ \cup outTerm
      <3>1. CASE \E j \in Instances : process_warning_queue(j)
        BY <3>1 DEF process_warning_queue, Restarted, Follow
      <3>2. CASE delete_message
        <4>1. PICK copy \in BOOLEAN : Uses(copy) /\ (~copy => UNCHANGED queues)
          BY <3>2 DEF delete_message
        <4>2. QED
          BY <1>0, <3>2, <4>1, UsesNothing DEF delete_message, queues
      <3>3. CASE send_message
        BY <3>3 DEF send_message
      <3>4. CASE clean_processing_hosts_cache \/ EmptyReceive \/ Tick
                 \/ UNCHANGED vars
        BY <3>4 DEF clean_processing_hosts_cache, EmptyReceive, Tick, vars,
                    queues, handler
      <3>5. QED
        BY <1>4, <3>1, <3>2, <3>3, <3>4 DEF LoopStep
    <2>4. QED
      BY <2>1, <2>2, <2>3, ReadyKept DEF Emptied
  <1>5. ~Crash
    BY <1>0, UsesNothing DEF Crash
  <1>6. QED
    BY <1>1, <1>2, <1>3, <1>4, <1>5 DEF Next, WarningOf, TerminationOf

\* A node stops running only by EC2's doing, a fault, or by terminate_host.
LEMMA KilledIsReady ==
  ASSUME IInv, Emptied, NothingFailed, NothingFailed', [Next]_vars,
         NEW i \in Instances, running[i], ~running'[i],
         Scheduler[i] = Kubernetes
  PROVE  ~pods[i]
  <1>0. TypeOK
    BY DEF IInv
  <1>1. ASSUME NEW j \in Instances, Environment(j)
        PROVE  FALSE
    <2>1. ~InstanceLost(j)
      BY <1>0, UsesNothing DEF InstanceLost
    <2>2. running' = running
      BY <1>1, <2>1
      DEF Environment, submit_instance_for_draining, SpotWarning,
          InstanceDetached, PodScheduled, hosts
    <2>3. QED
      BY <2>2
  <1>2. ASSUME NEW j \in Instances, process_termination_queue(j)
        PROVE  ~pods[i]
    <2>1. i = j
      BY <1>0, <1>2
      DEF process_termination_queue, terminate_host, TerminateRaises, TypeOK
    <2>2. i \in termQ
      BY <1>2, <2>1 DEF process_termination_queue
    <2>3. QED
      BY <2>2 DEF Emptied, Ready
  <1>3. ASSUME NEW m \in drainQ, process_drain_queue(m)
        PROVE  FALSE
    BY <1>3 DEF process_drain_queue, SkipDrain, DrainMesos, DrainOther,
       DrainOrphan, ForceTerminate, GiveUp, DrainKubernetes, hosts
  <1>4. ASSUME \/ \E j \in Instances : process_warning_queue(j)
               \/ LoopStep \/ Tick \/ Crash \/ UNCHANGED vars
        PROVE  FALSE
    BY <1>4
    DEF process_warning_queue, LoopStep, clean_processing_hosts_cache,
        EmptyReceive, send_message, delete_message, Tick, Crash, vars, hosts
  <1>5. QED
    BY <1>1, <1>2, <1>3, <1>4 DEF Next, WarningOf, DrainOf, TerminationOf

\* With no faults, no backlog and no force_terminate, the drainer terminates
\* a Kubernetes node only when every pod has been evicted from it, whatever
\* requests and spot warnings arrive and whatever the scheduler does meanwhile.
\* (A node with an empty PrivateDnsName is terminated undrained, case 0b.)
THEOREM OnlyEmptyNodesAreTerminated ==
  ASSUME Prompt, ~PoolForceTerminate, MaxFaults = 0,
         NoNameMissing, KubernetesNamed
  PROVE  Spec => NoPodKilled
  <1>1. Init => IInv /\ Chains /\ Emptied
    <2>1. Init => Chains
      BY DEF Init, Chains, Chain, InPipeline, Heading
    <2>2. Init => Emptied
      BY DEF Init, Emptied, Ready
    <2>3. QED
      BY <2>1, <2>2, InitSafe
  <1>2. IInv /\ Chains /\ Emptied /\ [Next]_vars => (IInv /\ Chains /\ Emptied)'
    BY NextSafe, NextChains, NextEmptied
  <1>3. IInv /\ Emptied /\ IInv' /\ [Next]_vars =>
          [\A i \in Instances :
             running[i] /\ ~running'[i] /\ Scheduler[i] = Kubernetes
               => ~pods[i]]_vars
    <2>1. SUFFICES ASSUME IInv, Emptied, IInv', [Next]_vars, NEW i \in Instances,
                          running[i], ~running'[i], Scheduler[i] = Kubernetes
                   PROVE  ~pods[i]
      OBVIOUS
    <2>2. NothingFailed /\ NothingFailed'
      BY <2>1 DEF IInv, TypeOK, NothingFailed
    <2>3. QED
      BY <2>1, <2>2, KilledIsReady
  <1>4. QED
    BY <1>1, <1>2, <1>3, PTL DEF Spec, NoPodKilled
=============================================================================
