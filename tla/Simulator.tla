------------------------------- MODULE Simulator -------------------------------
(***************************************************************************)
(* The simulator (clusterman/simulator, cli/simulate.py): a queue of       *)
(* events, an AWS cluster whose size comes from metrics or a simulated     *)
(* spot fleet that the autoscaler steers, and the functions of time that   *)
(* the reports are made from.                                              *)
(*                                                                         *)
(* Abstractions.  What the autoscaler does in a run is a new target for    *)
(* the fleet and the termination of instances above it (modules Autoscaler *)
(* and PoolManager); there is one fleet.  An instance has as many cpus as  *)
(* its weight.  Capacity is counted in units of 1 / Unit: its fractions    *)
(* are exact when Unit is a multiple of the factorial of the number of     *)
(* markets.                                                                *)
(***************************************************************************)
EXTENDS Piecewise

CONSTANTS
  Markets,     \* numbered, in the order of LaunchSpecifications
  Weight,      \* market -> WeightedCapacity and cpus
  Bid,         \* market -> bid price of an instance
  Prices,      \* spot prices that may occur
  Sizes,       \* sizes of a market that metrics may ask for
  Targets,     \* target capacities of the autoscaler
  Unit,        \* parts of a unit of capacity
  Delays,      \* join delays; gauss may draw one below 0
  EndTime,     \* the simulation runs from 0 to here
  MaxSizeEvents, MaxPriceEvents,
  Periods,     \* run_frequency of the autoscaler
  Billing      \* billing_frequency

Times == 0..(EndTime - 1)

ASSUME ConstantsAssumption ==
  /\ Markets \subseteq Nat /\ IsFiniteSet(Markets) /\ Weight \in [Markets -> Nat \ {0}]
  /\ Unit \in Nat \ {0} /\ \A k \in 1..Cardinality(Markets) : Unit % k = 0
  /\ Bid \in [Markets -> Nat] /\ Prices \subseteq Nat \ {0}
  /\ Sizes \subseteq Nat /\ Targets \subseteq Nat /\ Delays \subseteq Int
  /\ EndTime \in Nat \ {0} /\ Periods \subseteq Nat \ {0} /\ Billing \in Nat \ {0}

VARIABLES
  phase,           \* "populate", "run", where a run of the autoscaler is, or "done"
  fleet,           \* an autoscaler is configured
  refund_outbid,
  event_queue,     \* a set of events
  now,             \* current_time
  instances,       \* id -> instance, ended ones included (end >= 0)
  target,          \* __target_capacity of the fleet
  instance_prices, \* market -> function
  aws_cpus, mesos_cpus, cost_per_hour

settings == <<fleet, refund_outbid>>
functions == <<aws_cpus, mesos_cpus, cost_per_hour>>
vars == <<phase, settings, event_queue, now, instances, target, instance_prices, functions>>

Zero == PiecewiseConstantFunction(0)
Ids == DOMAIN instances
Live(insts) == {i \in DOMAIN insts : insts[i].end < 0}
In(insts, m) == {i \in Live(insts) : insts[i].market = m}
Cpus(insts, S) == SumFunctionOnSet([i \in S |-> Weight[insts[i].market]], S)
market_size(insts, m) == Cardinality(In(insts, m))
fulfilled_capacity(insts) == Cpus(insts, Live(insts))

Event(t) == [time |-> t, priority |-> 0, kind |-> "event"]
AutoscalingEvent(t) == [time |-> t, priority |-> 1, kind |-> "autoscaling"]
ModifyClusterSizeEvent(t, sizes, delay) ==
  [time |-> t, priority |-> 1, kind |-> "size", sizes |-> sizes, delay |-> delay]
InstancePriceChangeEvent(t, m, p) ==
  [time |-> t, priority |-> 2, kind |-> "price", market |-> m, price |-> p]

TypeOK ==
  /\ phase \in {"populate", "run", "orphans", "target", "prune", "done"} /\ fleet \in BOOLEAN
  /\ now \in 0..EndTime /\ \A e \in event_queue : e.time \in now..EndTime
  /\ \A i \in Ids : /\ instances[i].start \in 0..EndTime
                    /\ instances[i].end \in -1..EndTime
                    /\ instances[i].end >= 0 => instances[i].start <= instances[i].end
  /\ target \in Targets \cup {0}

-----------------------------------------------------------------------------
(* Instances start and end.  now' is the time of the event that is handled. *)

Instance(m, delay, bid) ==
  [market |-> m, start |-> now', join |-> now' + delay, end |-> -1, bid |-> bid,
   refunded |-> FALSE]

\* One add_delta for each element of S.
Shifted(f, S, at, by) == FoldSet(LAMBDA i, g : add_delta(g, at[i], by[i]), f, S)

\* add_instance for new instances, all with their own delay.
aws_added(f, new) == add_delta(f, now', Cpus(new, DOMAIN new))
mesos_added(f, new) ==
  Shifted(f, DOMAIN new, [i \in DOMAIN new |-> new[i].join],
          [i \in DOMAIN new |-> Weight[new[i].market]])

EndOnly(inst) == now'
\* remove_instance: an instance that has not joined is taken off when it would.
JoinOrEnd(inst) == IF inst.join > now' THEN inst.join ELSE now'
mesos_removed(f, insts, S) ==
  Shifted(f, S, [i \in S |-> JoinOrEnd(insts[i])], [i \in S |-> -Weight[insts[i].market]])

BillAlways(acc, bp, prices) ==
  LET new == IF bp \in DOMAIN prices.breakpoints THEN prices.breakpoints[bp] ELSE acc.last
  IN  [acc EXCEPT !.cost = add_delta(@, bp, new - acc.last), !.last = new]

\* _compute_instance_cost: one look at every price change of its life, and
\* at its end.
Bill(acc, bp, prices) ==
  LET due == bp >= acc.curr + Billing
      behind == bp - acc.curr
      jumps == IF behind % Billing = 0 THEN behind \div Billing - 1 ELSE behind \div Billing
      last == IF due THEN acc.last + acc.delta ELSE acc.last
  IN  [cost  |-> IF due THEN add_delta(acc.cost, acc.curr + Billing, acc.delta) ELSE acc.cost,
       curr  |-> IF due THEN acc.curr + jumps * Billing ELSE acc.curr,
       last  |-> last,
       delta |-> IF bp \in DOMAIN prices.breakpoints
                 THEN prices.breakpoints[bp] - last ELSE acc.delta]

\* Whether the last billing period is charged; without a bid (-1) it is.
Charged(inst, end) ==
  \/ inst.bid < 0 \/ ~refund_outbid
  \/ inst.bid > call(instance_prices[inst.market], end)

\* refunded is history: what Charged said when the instance ended.
EndAt(inst, t) == [inst EXCEPT !.end = t, !.refunded = ~Charged(inst, t)]

_compute_instance_cost(cost, inst, end) ==
  LET prices == instance_prices[inst.market]
      first == call(prices, inst.start)
      acc == FoldLeft(LAMBDA a, bp : Bill(a, bp, prices),
                      [cost |-> add_delta(cost, inst.start, first),
                       curr |-> inst.start, delta |-> 0, last |-> first],
                      piecewise_breakpoint_generator(prices, inst.start, end))
  IN  add_delta(acc.cost, IF Charged(inst, end) THEN acc.curr + Billing ELSE acc.curr,
                -acc.last)

Costs(f, insts, S, end) ==
  FoldSet(LAMBDA i, g : _compute_instance_cost(g, insts[i], end), f, S)

\* All of these at once: the instances in S end, and new ones start.
Replace(S, new) ==
  /\ instances' = [i \in Ids \cup DOMAIN new |->
                     IF i \in DOMAIN new THEN new[i]
                     ELSE IF i \in S THEN EndAt(instances[i], now')
                     ELSE instances[i]]
  /\ aws_cpus' = add_delta(aws_added(aws_cpus, new), now', -Cpus(instances, S))
  /\ mesos_cpus' = mesos_removed(mesos_added(mesos_cpus, new), instances, S)
  /\ cost_per_hour' = Costs(cost_per_hour, instances, S, now')

\* modify_size starts and ends instances, the first in the list first.
Oldest(insts, m, n) ==
  {i \in In(insts, m) : Cardinality({j \in In(insts, m) : j < i}) < n}
Excess(insts, sizes) ==
  UNION {Oldest(insts, m, market_size(insts, m) - sizes[m]) : m \in Markets}

\* Every way to number and delay the instances that sizes lack.
Lacking(insts, sizes) ==
  [m \in Markets |-> IF sizes[m] > market_size(insts, m)
                     THEN sizes[m] - market_size(insts, m) ELSE 0]
Started(insts, sizes, delays, bid) ==
  LET lack == Lacking(insts, sizes)
      Before(m) == SumFunctionOnSet(lack, {k \in Markets : k < m})
      new == (Cardinality(DOMAIN insts) + 1)..
               (Cardinality(DOMAIN insts) + SumFunctionOnSet(lack, Markets))
      MarketOf(i) == Max({m \in Markets :
                            lack[m] > 0 /\ Cardinality(DOMAIN insts) + Before(m) < i})
  IN  {[i \in new |-> Instance(MarketOf(i), d[i], bid[MarketOf(i)])] : d \in [new -> delays]}

-----------------------------------------------------------------------------
(* The simulated spot fleet. *)

_find_available_markets ==
  {m \in Markets : Bid[m] >= call(instance_prices[m], now')}

Residual(insts, wanted, m) ==
  (wanted * Unit) \div Cardinality(_find_available_markets)
    - market_size(insts, m) * Weight[m] * Unit

\* Smallest residual first, then the lowest price, then the order of the specification.
_compute_market_residuals(insts, wanted) ==
  LET Price(m) == call(instance_prices[m], now')
      R(m) == Residual(insts, wanted, m)
      Less(k, m) == \/ R(k) < R(m)
                    \/ R(k) = R(m) /\ Price(k) < Price(m)
                    \/ R(k) = R(m) /\ Price(k) = Price(m) /\ k < m
  IN  SortedBy(Less, _find_available_markets)

NextMarketUncorrected(acc, m, insts, wanted) ==
  LET w == Weight[m] * Unit
      residual == Residual(insts, wanted, m)
  IN  [acc EXCEPT !.counts = IF residual < 0 THEN @
                             ELSE [@ EXCEPT ![m] = @ + residual \div w]]

\* What a market gets, and what its overflow takes off the others.
NextMarket(acc, m, insts, wanted) ==
  LET residual == Residual(insts, wanted, m) - acc.correction
      w == Weight[m] * Unit
      number == (residual + w - 1) \div w
      over == IF residual < 0 THEN -residual ELSE number * w - residual
  IN  [left       |-> acc.left - 1,
       correction |-> IF acc.left > 1 THEN acc.correction + over \div (acc.left - 1)
                      ELSE acc.correction,
       counts     |-> IF residual < 0 THEN acc.counts
                      ELSE [acc.counts EXCEPT ![m] = @ + number]]

_get_new_market_counts(insts, wanted) ==
  FoldLeft(LAMBDA acc, m : NextMarket(acc, m, insts, wanted),
           [left |-> Cardinality(_find_available_markets), correction |-> 0,
            counts |-> [m \in Markets |-> market_size(insts, m)]],
           _compute_market_residuals(insts, wanted)).counts

\* _increase_capacity_to_target, when insts are the instances that are left.
Increase(insts, wanted, delays) ==
  IF fulfilled_capacity(insts) < wanted
  THEN Started(insts, _get_new_market_counts(insts, wanted), delays, Bid)
  ELSE {<<>>}

Ended(S) == [i \in Ids |-> IF i \in S THEN EndAt(instances[i], now') ELSE instances[i]]

\* The fleet restores its target after a termination.  The pool manager does not
\* call it for nothing.
terminate_instances_by_id(S) ==
  IF S = {} THEN UNCHANGED <<instances, functions>>
  ELSE \E new \in Increase(Ended(S), target, Delays) : Replace(S, new)

-----------------------------------------------------------------------------
(* Populating the queue. *)

\* Without an autoscaler there is a cluster of no size; with one the fleet
\* starts with the target the metrics say, and its instances join at once.
Init ==
  /\ phase = "populate" /\ fleet \in BOOLEAN /\ refund_outbid \in BOOLEAN
  /\ fleet => refund_outbid
  /\ event_queue = {Event(0), Event(EndTime)} /\ now = 0
  /\ instances = <<>> /\ target = 0
  /\ instance_prices = [m \in Markets |-> Zero]
  /\ aws_cpus = Zero /\ mesos_cpus = Zero /\ cost_per_hour = Zero

_make_autoscaler ==
  /\ phase = "populate" /\ fleet /\ instances = <<>> /\ UNCHANGED now
  /\ target' \in Targets /\ target' > 0
  /\ \E new \in Increase(instances, target', {0}) : Replace({}, new)
  /\ UNCHANGED <<phase, settings, event_queue, instance_prices>>

Count(kind) == Cardinality({e \in event_queue : e.kind = kind})

\* Events that are not within the simulation are ignored.
add_event(e) == event_queue' = IF e.time >= EndTime \/ e.time < now
                               THEN event_queue ELSE event_queue \cup {e}

Populate(e) ==
  /\ phase = "populate" /\ (fleet => instances # <<>>) /\ add_event(e)
  /\ UNCHANGED <<phase, settings, now, instances, target, instance_prices, functions>>

_populate_cluster_size_events ==
  /\ ~fleet /\ Count("size") < MaxSizeEvents
  /\ \E t \in Times, sizes \in [Markets -> Sizes] :
       /\ \A e \in event_queue : e.kind = "size" => e.time < t
       /\ Populate(ModifyClusterSizeEvent(t, sizes, Count("size") > 0))

\* Autoscaling events repeat after the time that splay_event_time gives for
\* the start of the simulation (util.py), whatever the time of the last one.
\* That may be no time at all, and then the loop does not end.
_populate_autoscaling_events ==
  /\ fleet /\ Count("autoscaling") = 0 /\ phase = "populate" /\ instances # <<>>
  /\ \E period \in Periods : \E splay \in 0..(period - 1) :
       /\ splay > 0
       /\ event_queue' = event_queue \cup
            {AutoscalingEvent(t) : t \in {x \in Times : x > 0 /\ x % splay = 0}}
  /\ UNCHANGED <<phase, settings, now, instances, target, instance_prices, functions>>

_populate_price_changes ==
  /\ Count("price") < MaxPriceEvents
  /\ \E t \in Times, m \in Markets, p \in Prices :
       Populate(InstancePriceChangeEvent(t, m, p))

StartRun ==
  /\ phase = "populate" /\ phase' = "run"
  /\ IF fleet THEN Count("autoscaling") > 0 ELSE Count("size") > 0
  /\ UNCHANGED <<settings, event_queue, now, instances, target, instance_prices, functions>>

-----------------------------------------------------------------------------
(* The run. *)

\* Event.__lt__: the time, then the priority.
Before(e, f) == e.time < f.time \/ (e.time = f.time /\ e.priority < f.priority)
First == {e \in event_queue : ~\E f \in event_queue : Before(f, e)}
Pop(e) == phase = "run" /\ event_queue' = event_queue \ {e} /\ now' = e.time

HandleEvent(e) ==
  /\ Pop(e) /\ e.kind = "event"
  /\ UNCHANGED <<phase, settings, instances, target, instance_prices, functions>>

HandlePriceChange(e) ==
  /\ Pop(e) /\ e.kind = "price"
  /\ instance_prices' = [instance_prices EXCEPT ![e.market] = add_breakpoint(@, e.time, e.price)]
  /\ UNCHANGED <<phase, settings, instances, target, functions>>

NoBid == [m \in Markets |-> -1]

HandleModifyClusterSize(e) ==
  /\ Pop(e) /\ e.kind = "size"
  /\ \E new \in Started(instances, e.sizes, IF e.delay THEN Delays ELSE {0}, NoBid) :
       Replace(Excess(instances, e.sizes), new)
  /\ UNCHANGED <<phase, settings, target, instance_prices>>

HandleAutoscaling(e) ==
  /\ Pop(e) /\ e.kind = "autoscaling" /\ phase' = "orphans"
  /\ UNCHANGED <<settings, instances, target, instance_prices, functions>>

Step(from, to) ==
  /\ phase = from /\ phase' = to
  /\ UNCHANGED <<settings, event_queue, now, instance_prices>>

\* Instances that have not joined are orphans, and may be recycled.
Orphans == {i \in Live(instances) : now < instances[i].join}
terminate_expired_orphan_instances ==
  /\ Step("orphans", "target") /\ UNCHANGED target
  /\ \E S \in SUBSET Orphans : terminate_instances_by_id(S)

\* The pool manager passes over a fleet that has this target already, even if it
\* is short of it.
modify_target_capacity ==
  /\ Step("target", "prune") /\ target' \in Targets
  /\ IF target' = target THEN UNCHANGED <<instances, functions>>
     ELSE \E new \in Increase(instances, target', Delays) : Replace({}, new)

\* Pruning never goes below the target (PoolManager).
Prune ==
  /\ Step("prune", "run") /\ UNCHANGED target
  /\ \E S \in SUBSET Live(instances) :
       /\ S # {} => fulfilled_capacity(instances) - Cpus(instances, S) >= target
       /\ terminate_instances_by_id(S)

\* Instances that are left are charged when the queue is empty.
EndRun ==
  /\ phase = "run" /\ event_queue = {} /\ phase' = "done"
  /\ instances' = [i \in Ids |-> IF i \in Live(instances)
                                 THEN EndAt(instances[i], now) ELSE instances[i]]
  /\ cost_per_hour' = Costs(cost_per_hour, instances, Live(instances), now)
  /\ UNCHANGED <<settings, event_queue, now, target, instance_prices, aws_cpus, mesos_cpus>>

Next ==
  \/ _make_autoscaler \/ _populate_cluster_size_events
  \/ _populate_autoscaling_events \/ _populate_price_changes \/ StartRun
  \/ \E e \in First : \/ HandleEvent(e) \/ HandlePriceChange(e)
                        \/ HandleModifyClusterSize(e) \/ HandleAutoscaling(e)
  \/ terminate_expired_orphan_instances \/ modify_target_capacity \/ Prune \/ EndRun

Spec == Init /\ [][Next]_vars

-----------------------------------------------------------------------------
Horizon == EndTime + Max(Delays \cup {0}) + Billing
ReportTimes == 0..Horizon

\* The functions the reports are made from agree with the instances: at any
\* time, past or to come, aws_cpus counts the instances that run and
\* mesos_cpus those that have joined and not ended, although remove_instance
\* must undo what add_instance has put into the future.
CpusMatchInstances ==
  phase # "done" => \A t \in ReportTimes :
    LET left == {i \in Ids : instances[i].end < 0 \/ t < instances[i].end}
    IN  /\ call(aws_cpus, t) = Cpus(instances, {i \in left : instances[i].start <= t})
        /\ call(mesos_cpus, t) = Cpus(instances, {i \in left : instances[i].join <= t})

\* What an instance costs at a time: for each billing period that has begun
\* the price at its beginning.
Price(inst, t) ==
  LET begin == inst.start + ((t - inst.start) \div Billing) * Billing
  IN  IF t < inst.start \/ (begin >= inst.end /\ begin > inst.start)
      THEN 0 ELSE call(instance_prices[inst.market], begin)

\* _compute_instance_cost bills every period of an instance at the price of
\* its beginning, in whatever way price changes, periods and the end of the
\* instance fall together, as long as no last period is refunded and no
\* instance ends at the time it starts (before prices change at that time).
BilledByPeriod ==
  (\A i \in Ids \ Live(instances) :
     ~instances[i].refunded /\ instances[i].start < instances[i].end) =>
  \A t \in ReportTimes :
    call(cost_per_hour, t) =
      SumFunction([i \in Ids \ Live(instances) |-> Price(instances[i], t)])

\* Whenever its target changes or an instance is terminated and a market is
\* available, the fleet reaches its target, with no market that grows more than
\* one instance above its share of it.  (A fleet that is short because there was
\* no market stays short until then, as modify_target_capacity passes it over.)
Refilled ==
  target' # target \/ \E i \in Live(instances) : i \notin Live(instances')

FleetReachesTarget ==
  [][(phase \in {"orphans", "target", "prune"} /\ Refilled /\ _find_available_markets # {}) =>
       /\ fulfilled_capacity(instances') >= target'
       /\ \A m \in Markets : market_size(instances', m) > market_size(instances, m) =>
            (market_size(instances', m) - 1) * Weight[m] * Cardinality(_find_available_markets)
               < target']_vars

\* Reports: values and integrals, which walk along the breakpoints once, give
\* the value at each point and the area of each chunk, and sums, differences,
\* products and maxima of functions, made from merged breakpoints, are those
\* of their values.
ReportsAreRight ==
  phase = "done" =>
    LET unused == __sub__(aws_cpus, mesos_cpus)
        total == __add__(unused, cost_per_hour)
        over == piecewise_max(__sub__(cost_per_hour, aws_cpus), Zero)
        weighed == __mul__(mesos_cpus, cost_per_hour)
        Area(f, from, to) ==
          SumFunction([t \in from..(Min({EndTime, to}) - 1) |-> call(f, t)])
    IN  /\ \A step \in 1..EndTime :
             LET chunks == 1..Points(0, EndTime, step)
             IN  /\ values(mesos_cpus, 0, EndTime, step) =
                      [k \in chunks |-> call(mesos_cpus, (k - 1) * step)]
                 /\ integrals(cost_per_hour, 0, EndTime, step) =
                      [k \in chunks |-> Area(cost_per_hour, (k - 1) * step, k * step)]
        /\ \A t \in ReportTimes :
             /\ call(unused, t) = call(aws_cpus, t) - call(mesos_cpus, t)
             /\ call(total, t) = call(unused, t) + call(cost_per_hour, t)
             /\ call(over, t) = Max({call(cost_per_hour, t) - call(aws_cpus, t), 0})
             /\ call(weighed, t) = call(mesos_cpus, t) * call(cost_per_hour, t)
=============================================================================
