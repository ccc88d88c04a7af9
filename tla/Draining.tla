------------------------------ MODULE Draining ------------------------------
(***************************************************************************)
(* The node drainer: clusterman/draining/queue.py (DrainingClient), the    *)
(* loop of clusterman/batch/drainer.py that drives it, and the parts of    *)
(* the Kubernetes and Mesos clients and of AWSResourceGroup it calls.      *)
(*                                                                         *)
(* The drainer is one process.  Each iteration of its loop cleans the      *)
(* cache of hosts being processed and then takes at most one message from  *)
(* each of three SQS queues, in a fixed order: spot warnings, hosts to     *)
(* drain, hosts to terminate.  A handler has three externally visible      *)
(* stages: it receives a message and acts on the cluster, it sends at most *)
(* one follow-up message, and only then it deletes the message it          *)
(* received.  The process may crash between any two stages; a restarted    *)
(* drainer has an empty cache and the queues still hold what was not       *)
(* deleted.                                                                *)
(*                                                                         *)
(* Abstractions.  SQS is at-least-once and unordered: a receive returns    *)
(* nothing or any visible message, a received message is invisible until   *)
(* it is deleted or the drainer fails to delete it, and a delete may leave *)
(* a copy behind (a fault).  Only what the handlers test is kept of a      *)
(* drain message: the instance, whether its agent_id is known, the attempt *)
(* (1, or 2 for "more than 1"), the time since draining_start_time, and    *)
(* whether the reason is a spot interruption ("scaling down" and "node     *)
(* migration" are treated alike); an id tells equal messages apart.        *)
(* Warnings and terminations are idempotent and only name an instance.     *)
(* Time is counted in ticks; the re-draining and termination delays (15 to *)
(* 90 seconds) are below one tick, so a delayed message may be received at *)
(* any time.  Ages stop growing once every threshold is exceeded.          *)
(***************************************************************************)
EXTENDS Integers, FiniteSets

CONSTANTS
  Instances,          \* EC2 instances of the cluster
  Scheduler,          \* instance -> "mesos", "kubernetes" or "other"
  DnsName,            \* instance -> "named", "empty" or "missing": PrivateDnsName
  OurGroups,          \* the instances whose group belongs to one of our pools
  PoolForceTerminate, \* draining.force_terminate of the pools
  PoolThreshold,      \* draining.draining_time_threshold_seconds of the pools
  DefaultThreshold,   \* DEFAULT_DRAINING_TIME_THRESHOLD_SECONDS
  CacheTtl,           \* DRAIN_CACHE_SECONDS
  MaxRequests,        \* bound on drain requests and spot warnings
  MaxFaults,          \* bound on crashes, API errors and duplicates
  MaxMessages,        \* bound on the drain messages that exist at a time
  Prompt              \* TRUE: no message waits for longer than CacheTtl

Mesos == "mesos"
Kubernetes == "kubernetes"
Spot == "spot interruption"
Scaling == "scaling down"

ASSUME ConstantsAssumption ==
  /\ Scheduler \in [Instances -> {Mesos, Kubernetes, "other"}]
  /\ DnsName \in [Instances -> {"named", "empty", "missing"}]
  /\ OurGroups \subseteq Instances
  /\ PoolForceTerminate \in BOOLEAN
  /\ PoolThreshold \in Nat
  /\ DefaultThreshold \in Nat
  /\ CacheTtl \in Nat
  /\ MaxRequests \in Nat
  /\ MaxFaults \in Nat
  /\ MaxMessages \in Nat
  /\ Prompt \in BOOLEAN

VARIABLES
  drainQ,    \* drain queue: a set of Host messages
  termQ,     \* termination queue: only the instance of a message is used
  warnQ,     \* spot warning queue: instances
  pc,        \* the handler the drainer's loop has reached
  stage,     \* how far that handler is: "receive", "send" or "delete"
  held,      \* the received, invisible message, as a set of at most one
  outDrain,  \* what the handler is about to send to the drain queue
  outTerm,   \* what the handler is about to send to the termination queue
  cached,    \* the keys of draining_host_ttl_cache
  ttl,       \* ticks until a cache entry expires, -1 when it has
  running,   \* EC2: the instance is running
  owned,     \* EC2: the instance is in the resource group of its messages
  closed,    \* k8s: termination taint; Mesos: maintenance window
  pods,      \* k8s: pods that are not part of a daemonset run on the node
  requests,  \* requests and warnings still to come
  faults,    \* faults still to come
  dropped    \* history: hosts whose message was given up on an error

queues   == <<drainQ, termQ, warnQ>>
handler  == <<pc, stage, held, outDrain, outTerm>>
cache    == <<cached, ttl>>
hosts    == <<running, owned, closed, pods>>
vars     == <<queues, handler, cache, hosts, requests, faults, dropped>>

MaxAge == (IF PoolThreshold > DefaultThreshold THEN PoolThreshold
           ELSE DefaultThreshold) + 1

\* The fields of Host that the handlers distinguish; a Host that is not in
\* the drain queue has id 0.
Host == [id: 0..MaxMessages, inst: Instances, agent: BOOLEAN, attempt: {1, 2}, age: 0..MaxAge,
         reason: {Spot, Scaling}]

\* A Host outside the drain queue.
NewHost(i, agent, attempt, reason) ==
  [id |-> 0, inst |-> i, agent |-> agent, attempt |-> attempt, age |-> 0,
   reason |-> reason]

-----------------------------------------------------------------------------
\* Mutant of force_terminate: a pool that says nothing allows killing.
force_terminate_by_default(m) == m.reason # Spot

\* The configuration a message is handled under.  A host built from a spot
\* warning has pool "" and so gets the defaults whatever its pool says.
force_terminate(m) == m.reason # Spot /\ PoolForceTerminate

draining_time_threshold(m) ==
  IF m.reason = Spot THEN DefaultThreshold ELSE PoolThreshold

Expired(m) == m.age > draining_time_threshold(m)

\* Mutants of Redrain: the attempt is not counted; the draining starts anew.
RedrainUncounted(m) ==
  [NewHost(m.inst, m.agent, m.attempt, m.reason) EXCEPT !.age = m.age]

RedrainAnew(m) == NewHost(m.inst, m.agent, 2, m.reason)

\* submit_host_for_draining(host, attempt = host.attempt + 1): the same
\* draining_start_time, whatever number of attempts.
Redrain(m) == [NewHost(m.inst, m.agent, 2, m.reason) EXCEPT !.age = m.age]

\* host_from_instance_id builds a Host anew, with the time of the call as its
\* draining_start_time; its agent_id is the PrivateDnsName.
FreshHost(i, reason, attempt) ==
  NewHost(i, DnsName[i] = "named", attempt, reason)

\* What host_from_instance_id finds: "gone" stands for every return of None
\* (no data, no group tag, no IP address, no reverse DNS, an API error).
host_from_instance_id(i) ==
  (IF running[i] THEN {DnsName[i]} ELSE {"gone"})
     \cup (IF faults > 0 THEN {"gone"} ELSE {})

\* Mutant of ToProcess: the cache is not looked at.
ToProcessAlways(m) == m.attempt > 0

\* A host is worked on unless an earlier attempt 1 is still in the cache.
ToProcess(m) == m.inst \notin cached \/ m.attempt > 1

\* A step that needs a fault uses one up.
Uses(isFault) ==
  IF isFault THEN faults > 0 /\ faults' = faults - 1 ELSE UNCHANGED faults

\* SQS gives a message sent to the drain queue the first free id.
Free(n) ==
  LET used == {m.id : m \in drainQ \cup held}
  IN n \notin used /\ \A j \in 1..(n - 1) : j \in used

Enqueued(ms, n) == {[m EXCEPT !.id = n] : m \in ms}

\* The drain messages that the drainer will not skip, and the terminations,
\* that keep a host in the pipeline: in a queue or about to be sent.
Heading(i) == {m \in drainQ \cup outDrain : m.inst = i /\ m.attempt > 1}

InPipeline(i) == Heading(i) # {} \/ i \in termQ \cup outTerm

-----------------------------------------------------------------------------
Init ==
  /\ drainQ = {} /\ termQ = {} /\ warnQ = {}
  /\ pc = "clean" /\ stage = "receive"
  /\ held = {} /\ outDrain = {} /\ outTerm = {}
  /\ cached = {} /\ ttl = [i \in Instances |-> -1]
  /\ running = [i \in Instances |-> TRUE]
  /\ owned = [i \in Instances |-> TRUE]
  /\ closed = [i \in Instances |-> FALSE]
  /\ pods = [i \in Instances |-> TRUE]
  /\ requests = MaxRequests
  /\ faults = MaxFaults
  /\ dropped = {}

-----------------------------------------------------------------------------
(* The environment: submitters, AWS, the Kubernetes scheduler, SQS, time.   *)

\* PoolManager, the migration workers and the CLI.  The agent_id is the name
\* of the agent at the instance's address; an orphan has none.
submit_instance_for_draining(i, agent) ==
  /\ requests > 0
  /\ agent => DnsName[i] = "named"
  /\ requests' = requests - 1
  /\ \E n \in 1..MaxMessages :
       /\ Free(n)
       /\ drainQ' = drainQ \cup Enqueued({NewHost(i, agent, 1, Scaling)}, n)
  /\ UNCHANGED <<termQ, warnQ, handler, cache, hosts, faults, dropped>>

SpotWarning(i) ==
  /\ requests > 0
  /\ running[i]
  /\ requests' = requests - 1
  /\ warnQ' = warnQ \cup {i}
  /\ UNCHANGED <<drainQ, termQ, handler, cache, hosts, faults, dropped>>

\* EC2 takes the instance away, with or without a warning.
InstanceLost(i) ==
  /\ running[i]
  /\ Uses(TRUE)
  /\ running' = [running EXCEPT ![i] = FALSE]
  /\ closed' = [closed EXCEPT ![i] = FALSE]
  /\ pods' = [pods EXCEPT ![i] = FALSE]
  /\ UNCHANGED <<queues, handler, cache, owned, requests, dropped>>

\* The instance leaves its resource group but goes on running.
InstanceDetached(i) ==
  /\ running[i] /\ owned[i]
  /\ Uses(TRUE)
  /\ owned' = [owned EXCEPT ![i] = FALSE]
  /\ UNCHANGED <<queues, handler, cache, running, closed, pods, requests,
                 dropped>>

PodScheduled(i) ==
  /\ running[i] /\ ~closed[i] /\ ~pods[i]
  /\ pods' = [pods EXCEPT ![i] = TRUE]
  /\ UNCHANGED <<queues, handler, cache, running, owned, closed, requests,
                 faults, dropped>>

Older(m) == [m EXCEPT !.age = IF @ < MaxAge THEN @ + 1 ELSE @]

\* Prompt: time does not run so far ahead of the drainer that the cache entry
\* of a host in the pipeline expires.
Tick ==
  /\ Prompt => \A i \in Instances : InPipeline(i) => ttl[i] > 0
  /\ drainQ' = {Older(m) : m \in drainQ}
  /\ held' = {Older(m) : m \in held}
  /\ outDrain' = {Older(m) : m \in outDrain}
  /\ ttl' = [i \in Instances |-> IF ttl[i] >= 0 THEN ttl[i] - 1 ELSE -1]
  /\ UNCHANGED <<termQ, warnQ, pc, stage, outTerm, cached, hosts, requests,
                 faults, dropped>>

\* The received message becomes visible again.
Requeue ==
  LET insts == {m.inst : m \in held}
  IN /\ warnQ' = IF pc = "warning" THEN warnQ \cup insts ELSE warnQ
     /\ drainQ' = IF pc = "drain" THEN drainQ \cup held ELSE drainQ
     /\ termQ' = IF pc = "termination" THEN termQ \cup insts ELSE termQ

\* A new DrainingClient; what was not deleted is delivered again.
Restarted ==
  /\ pc' = "clean" /\ stage' = "receive"
  /\ held' = {} /\ outDrain' = {} /\ outTerm' = {}
  /\ cached' = {} /\ ttl' = [i \in Instances |-> -1]

Crash ==
  /\ Uses(TRUE)
  /\ Restarted
  /\ Requeue
  /\ UNCHANGED <<hosts, requests, dropped>>

-----------------------------------------------------------------------------
(* The drainer.                                                             *)

\* An entry is removed only here, once its expiration time has passed.
clean_processing_hosts_cache ==
  /\ pc = "clean"
  /\ pc' = "warning"
  /\ cached' = {i \in cached : ttl[i] >= 0}
  /\ UNCHANGED <<queues, stage, held, outDrain, outTerm, ttl, hosts, requests,
                 faults, dropped>>

NextHandler ==
  CASE pc = "warning" -> "drain"
    [] pc = "drain" -> "termination"
    [] OTHER -> "clean"

\* The receive returned no message.
EmptyReceive ==
  /\ pc # "clean" /\ stage = "receive"
  /\ pc' = NextHandler
  /\ UNCHANGED <<queues, stage, held, outDrain, outTerm, cache, hosts,
                 requests, faults, dropped>>

\* Mutant of Follow: the message is deleted before its follow-up is sent.
FollowDeleted(m, toDrain, toTerm) ==
  /\ held' = IF toDrain = {} /\ toTerm = {} THEN {m} ELSE {}
  /\ outDrain' = toDrain
  /\ outTerm' = toTerm
  /\ stage' = IF toDrain = {} /\ toTerm = {} THEN "delete" ELSE "send"
  /\ UNCHANGED pc

\* The handler goes on with message m and the follow-ups it is to send.
Follow(m, toDrain, toTerm) ==
  /\ held' = {m}
  /\ outDrain' = toDrain
  /\ outTerm' = toTerm
  /\ stage' = IF toDrain = {} /\ toTerm = {} THEN "delete" ELSE "send"
  /\ UNCHANGED pc

Receives(h) == pc = h /\ stage = "receive"

\* A message of which only the instance matters.
Plain(i) == NewHost(i, FALSE, 1, Scaling)

\* get_warned_host and process_warning_queue.  Without a PrivateDnsName the
\* handler's agent_id is unbound, and the exception ends the drainer.
process_warning_queue(i) ==
  /\ Receives("warning")
  /\ i \in warnQ
  /\ \E found \in host_from_instance_id(i) :
       /\ Uses(found = "gone" /\ running[i])
       /\ \/ /\ found = "missing"
             /\ Restarted
             /\ UNCHANGED warnQ
          \/ /\ found # "missing"
             /\ warnQ' = warnQ \ {i}
             /\ Follow(Plain(i),
                       IF found # "gone" /\ i \in OurGroups
                       THEN {FreshHost(i, Spot, 1)} ELSE {},
                       {})
             /\ UNCHANGED cache
  /\ UNCHANGED <<drainQ, termQ, hosts, requests, dropped>>

\* process_drain_queue: the message is received and its host is put into (or
\* kept in) the cache.
StartDraining(m) ==
  /\ Receives("drain")
  /\ m \in drainQ
  /\ ToProcess(m)
  /\ UNCHANGED <<termQ, warnQ>>

\* Mutant of Remember: one tick too many.
RememberLonger(i) ==
  /\ cached' = cached \cup {i}
  /\ ttl' = [ttl EXCEPT ![i] = CacheTtl + 1]

Remember(i) ==
  /\ cached' = cached \cup {i}
  /\ ttl' = [ttl EXCEPT ![i] = CacheTtl]

\* Mutant of Forget: the entry stays in the cache.
ForgetNothing(i) == i \in Instances /\ UNCHANGED cache

Forget(i) ==
  /\ cached' = cached \ {i}
  /\ ttl' = [ttl EXCEPT ![i] = -1]

\* "already being processed, skipping": the message is just deleted.
SkipDrain(m) ==
  /\ Receives("drain")
  /\ m \in drainQ
  /\ ~ToProcess(m)
  /\ drainQ' = drainQ \ {m}
  /\ Follow(m, {}, {})
  /\ UNCHANGED <<termQ, warnQ, cache, hosts, requests, faults, dropped>>

\* The maintenance window may fail to be scheduled; the host is submitted for
\* termination all the same (finally).
DrainMesos(m) ==
  /\ StartDraining(m)
  /\ drainQ' = drainQ \ {m}
  /\ Scheduler[m.inst] = Mesos
  /\ Remember(m.inst)
  /\ \E ok \in BOOLEAN :
       /\ Uses(~ok)
       /\ closed' = [closed EXCEPT ![m.inst] = @ \/ (ok /\ running[m.inst])]
  /\ Follow(m, {}, {m.inst})
  /\ dropped' = dropped \ {m.inst}
  /\ UNCHANGED <<running, owned, pods, requests>>

DrainOther(m) ==
  /\ StartDraining(m)
  /\ drainQ' = drainQ \ {m}
  /\ Scheduler[m.inst] \notin {Mesos, Kubernetes}
  /\ Remember(m.inst)
  /\ Follow(m, {}, {m.inst})
  /\ dropped' = dropped \ {m.inst}
  /\ UNCHANGED <<hosts, requests, faults>>

\* Case 0: no agent_id, so the host is looked up: it does not exist (a), has
\* no name either (b), or starts again as a host with an agent_id (c).
DrainOrphan(m) ==
  /\ StartDraining(m)
  /\ Scheduler[m.inst] = Kubernetes
  /\ ~m.agent
  /\ \E found \in host_from_instance_id(m.inst) :
       /\ Uses(found = "gone" /\ running[m.inst])
       /\ \/ /\ found = "gone"
             /\ drainQ' = drainQ \ {m}
             /\ Remember(m.inst)
             /\ Follow(m, {}, {})
             /\ dropped' = IF running[m.inst] THEN dropped \cup {m.inst}
                           ELSE dropped \ {m.inst}
          \/ /\ found = "empty"
             /\ drainQ' = drainQ \ {m}
             /\ Remember(m.inst)
             /\ Follow(m, {}, {m.inst})
             /\ dropped' = dropped \ {m.inst}
          \/ /\ found = "named"
             /\ drainQ' = drainQ \ {m}
             /\ Remember(m.inst)
             /\ Follow(m, {FreshHost(m.inst, m.reason, 2)}, {})
             /\ dropped' = dropped \ {m.inst}
          \/ /\ found = "missing"
             /\ Restarted
             /\ UNCHANGED <<drainQ, dropped>>
  /\ UNCHANGED <<hosts, requests>>

\* Case 1: the threshold has passed and the pool allows killing what is left.
ForceTerminate(m) ==
  /\ StartDraining(m)
  /\ drainQ' = drainQ \ {m}
  /\ Scheduler[m.inst] = Kubernetes
  /\ m.agent /\ Expired(m) /\ force_terminate(m)
  /\ Remember(m.inst)
  /\ Follow(m, {}, {m.inst})
  /\ dropped' = dropped \ {m.inst}
  /\ UNCHANGED <<hosts, requests, faults>>

\* Mutant of GiveUp: the host is not uncordoned.
GiveUpCordoned(m) ==
  /\ StartDraining(m)
  /\ drainQ' = drainQ \ {m}
  /\ Scheduler[m.inst] = Kubernetes
  /\ m.agent /\ Expired(m) /\ ~force_terminate(m)
  /\ Forget(m.inst)
  /\ Follow(m, {}, {})
  /\ UNCHANGED <<hosts, requests, faults, dropped>>

\* The termination taint is removed, or the API fails.
uncordon_node(i, ok) == closed' = [closed EXCEPT ![i] = @ /\ ~ok]

\* Case 2: the host goes back to work.  The result of uncordon is ignored.
GiveUp(m) ==
  /\ StartDraining(m)
  /\ drainQ' = drainQ \ {m}
  /\ Scheduler[m.inst] = Kubernetes
  /\ m.agent /\ Expired(m) /\ ~force_terminate(m)
  /\ Forget(m.inst)
  /\ \E ok \in BOOLEAN :
       /\ Uses(~ok)
       /\ uncordon_node(m.inst, ok)
       /\ dropped' = IF ok THEN dropped \ {m.inst} ELSE dropped \cup {m.inst}
  /\ Follow(m, {}, {})
  /\ UNCHANGED <<running, owned, pods, requests>>

\* Each pod is evicted, or deleted for a spot interruption; the node counts as
\* drained when every call was accepted or the pod was gone already.
_evict_or_delete_pods(i, evicted) == pods' = [pods EXCEPT ![i] = @ /\ ~evicted]

\* The node is cordoned (a failure is ignored), then its pods are removed.
drain_node(i, cordoned, evicted) ==
  /\ closed' = [closed EXCEPT ![i] = @ \/ (cordoned /\ running[i])]
  /\ _evict_or_delete_pods(i, evicted)

\* Case 3: drain, then terminate or re-drain.  Evictions may be refused as long
\* as there are pods; deletions fail only with the API.
DrainKubernetes(m) ==
  /\ StartDraining(m)
  /\ drainQ' = drainQ \ {m}
  /\ Scheduler[m.inst] = Kubernetes
  /\ m.agent /\ ~Expired(m)
  /\ Remember(m.inst)
  /\ \E cordoned, evicted \in BOOLEAN :
       /\ Uses(~cordoned \/ (~evicted /\ (m.reason = Spot \/ ~pods[m.inst])))
       /\ drain_node(m.inst, cordoned, evicted)
       /\ Follow(m, IF evicted THEN {} ELSE {Redrain(m)},
                    IF evicted THEN {m.inst} ELSE {})
  /\ dropped' = dropped \ {m.inst}
  /\ UNCHANGED <<running, owned, requests>>

process_drain_queue(m) ==
  \/ SkipDrain(m)
  \/ DrainMesos(m)
  \/ DrainOther(m)
  \/ DrainOrphan(m)
  \/ ForceTerminate(m)
  \/ GiveUp(m)
  \/ DrainKubernetes(m)

\* terminate_host: an instance that is not in the resource group, or no longer
\* runs, is passed over in silence and its message is deleted.  A Mesos host
\* is taken down before and put up after.
terminate_host(i) ==
  /\ running' = [running EXCEPT ![i] = @ /\ ~owned[i]]
  /\ pods' = [pods EXCEPT ![i] = @ /\ ~owned[i]]
  /\ dropped' = IF running[i] /\ ~owned[i] THEN dropped \cup {i} ELSE dropped
  /\ \E up \in BOOLEAN :
       /\ Uses(~up)
       /\ up \/ Scheduler[i] = Mesos
       /\ closed' = [closed EXCEPT ![i] =
                       /\ running[i] /\ ~owned[i]
                       /\ IF Scheduler[i] = Mesos THEN ~up ELSE @]
  /\ termQ' = termQ \ {i}
  /\ Follow(Plain(i), {}, {})
  /\ UNCHANGED cache

\* terminate_host raises: a Kubernetes message stays for another time; any
\* other ends the drainer, and a Mesos host is left down.
TerminateRaises(i) ==
  /\ Uses(TRUE)
  /\ IF Scheduler[i] = Kubernetes
     THEN /\ pc' = NextHandler
          /\ UNCHANGED <<stage, held, outDrain, outTerm, cache, closed>>
     ELSE /\ Restarted
          /\ closed' = [closed EXCEPT ![i] =
                          @ \/ (Scheduler[i] = Mesos /\ running[i])]
  /\ UNCHANGED <<termQ, running, pods, dropped>>

process_termination_queue(i) ==
  /\ Receives("termination")
  /\ i \in termQ
  /\ terminate_host(i) \/ TerminateRaises(i)
  /\ UNCHANGED <<drainQ, warnQ, owned, requests>>

\* send_message: the follow-up reaches its queue.
send_message ==
  /\ stage = "send"
  /\ stage' = "delete"
  /\ \E n \in 1..MaxMessages :
       Free(n) /\ drainQ' = drainQ \cup Enqueued(outDrain, n)
  /\ termQ' = termQ \cup outTerm
  /\ outDrain' = {} /\ outTerm' = {}
  /\ UNCHANGED <<warnQ, pc, held, cache, hosts, requests, faults, dropped>>

\* delete_message, by receipt handle; SQS may still deliver a copy later.
delete_message ==
  /\ stage = "delete"
  /\ stage' = "receive"
  /\ pc' = NextHandler
  /\ held' = {}
  /\ \E copy \in BOOLEAN :
       /\ Uses(copy)
       /\ IF copy THEN Requeue ELSE UNCHANGED queues
  /\ UNCHANGED <<outDrain, outTerm, cache, hosts, requests, dropped>>

-----------------------------------------------------------------------------
WarningOf(i) == process_warning_queue(i)
DrainOf(i) == \E m \in drainQ : m.inst = i /\ process_drain_queue(m)
TerminationOf(i) == process_termination_queue(i)

\* The steps of the loop that do not depend on what SQS delivers.
LoopStep == clean_processing_hosts_cache \/ EmptyReceive
            \/ send_message \/ delete_message

Environment(i) ==
  \/ \E agent \in BOOLEAN : submit_instance_for_draining(i, agent)
  \/ SpotWarning(i)
  \/ InstanceLost(i)
  \/ InstanceDetached(i)
  \/ PodScheduled(i)

Next ==
  \/ \E i \in Instances : \/ Environment(i)
                          \/ WarningOf(i)
                          \/ DrainOf(i)
                          \/ TerminationOf(i)
  \/ LoopStep
  \/ Tick
  \/ Crash

Spec == Init /\ [][Next]_vars

\* The loop runs as long as the process does and a crashed drainer is
\* restarted; SQS delivers a message that stays in a queue sooner or later
\* (empty receives come in between, hence strong fairness); time passes.
Fairness ==
  /\ WF_vars(LoopStep)
  /\ WF_vars(Tick)
  /\ \A i \in Instances : /\ SF_vars(WarningOf(i))
                          /\ SF_vars(DrainOf(i))
                          /\ SF_vars(TerminationOf(i))

FairSpec == Spec /\ Fairness

-----------------------------------------------------------------------------
(* Properties.                                                              *)

TypeOK ==
  /\ drainQ \subseteq Host /\ termQ \subseteq Instances
  /\ warnQ \subseteq Instances
  /\ pc \in {"clean", "warning", "drain", "termination"}
  /\ stage \in {"receive", "send", "delete"}
  /\ held \subseteq Host /\ outDrain \subseteq Host
  /\ outTerm \subseteq Instances
  /\ cached \subseteq Instances /\ ttl \in [Instances -> -1..CacheTtl]
  /\ running \in [Instances -> BOOLEAN] /\ owned \in [Instances -> BOOLEAN]
  /\ closed \in [Instances -> BOOLEAN] /\ pods \in [Instances -> BOOLEAN]
  /\ requests \in 0..MaxRequests /\ faults \in 0..MaxFaults
  /\ dropped \subseteq Instances

\* A host in draining_host_ttl_cache is one the drainer still works on: a
\* re-drain or a termination message for it exists, unless it no longer runs
\* or an error made the drainer give it up.  It is what makes it safe to delete
\* a first drain request for a cached host unread ("already being processed,
\* skipping"), after crashes and duplicate deliveries too.
CachedHostIsInPipeline ==
  \A i \in cached : running[i] /\ i \notin dropped => InPipeline(i)

\* The drainer never forgets a host it has closed to new work: while a host
\* has the termination taint (or a Mesos maintenance window), some message
\* that the drainer will not skip stands for it, whatever crashes or
\* duplicates happened between cordoning, sending and deleting.
ClosedHostIsTracked ==
  \A i \in Instances :
    closed[i] /\ running[i] /\ i \notin dropped =>
      \/ InPipeline(i)
      \/ \E m \in drainQ : m.inst = i /\ ToProcess(m)

\* A follow-up that has not been sent yet is about the message the handler
\* still holds: a crash loses the follow-up, but SQS delivers the message
\* again.  (Deleting before sending would lose the host.)
FollowUpIsHeld ==
  /\ \A m \in outDrain :
       /\ stage = "send"
       /\ m.attempt > 1 => pc = "drain" /\ \E h \in held : h.inst = m.inst
  /\ \A i \in outTerm :
       stage = "send" /\ pc = "drain" /\ \E h \in held : h.inst = i

\* With no faults and no backlog longer than the cache entries live, the cache
\* does its job: a host is never in the pipeline twice, so that no chain of
\* re-drains can uncordon a host that another one is about to terminate.
SingleChain ==
  \A i \in Instances :
    Cardinality(Heading(i)) + Cardinality({i} \cap (termQ \cup outTerm)) <= 1

\* With no faults, no backlog and no force_terminate, the drainer terminates a
\* Kubernetes node only when every pod has been evicted from it.
NoPodKilled ==
  [][\A i \in Instances :
       running[i] /\ ~running'[i] /\ Scheduler[i] = Kubernetes => ~pods[i]]_vars

\* Whatever is sent to the drainer, its queues run empty: every re-drain chain
\* ends, because draining_start_time survives re-submission.
QueuesRunEmpty == <>[](drainQ = {} /\ termQ = {} /\ warnQ = {})

\* Every host closed to new work is terminated or put back to work, unless an
\* error made the drainer give it up.
ClosedHostIsReleased ==
  \A i \in Instances : closed[i] ~> (~closed[i] \/ i \in dropped)

\* The comments of host_from_instance_id ("continuing to proceed anyway") and
\* of process_drain_queue (case 0b: no PrivateDnsName, "submit it for
\* termination") say that a host without a DNS name ends up terminated.
NamelessHostIsTerminated ==
  \A i \in Instances :
    (\E m \in drainQ : m.inst = i /\ ~m.agent)
      ~> (i \in termQ \/ ~running[i] \/ i \in dropped)
=============================================================================
