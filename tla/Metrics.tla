---- MODULE Metrics ----
(***************************************************************************)
(* The metrics client (examples/clusterman_metrics): points are written in  *)
(* batches to a DynamoDB table and read back through a cache that is filled *)
(* incrementally, one entry per query.  Two readers use it: the signal,     *)
(* which asks for a window that ends now, and the autoscaler, which looks   *)
(* for the last non-zero capacity of an empty pool.  In a simulation now is *)
(* the simulated time, and the clock that the cache goes by is another one. *)
(*                                                                          *)
(* A point is <<time, value>>; a series never has two points of one time,   *)
(* because the time is part of the table's key.  Pagination of the query    *)
(* for one key is transparent and left out; that of the index is not.       *)
(***************************************************************************)
EXTENDS Integers, Sequences, FiniteSets, SequencesExt

CONSTANTS Capacity,    \* the metadata series non_orphan_fulfilled_capacity
          Total,       \* the metadata series <resource>_total
          AppSeries,   \* application series that one regular expression finds
          OldSeries,   \* a system series without the scheduler's dimension
          NewSeries,   \* the same series with it
          Generated,   \* points of NewSeries that a simulation makes up
          MaxTime,     \* bound: the clock stops here
          SimulatedAt, \* the real time at which a simulation runs
          PageSize,    \* how many keys a page of the index has at least
          CacheDelay,  \* _CACHE_DELAY
          Late,        \* how long after its time a point may be written
          Smoothing    \* the points that the history averages

VARIABLES now,      \* the clock of all processes, or the simulated one
          reader,   \* who reads in this behaviour
          half,     \* the total that a pass of the collector has sent, as a set
          pending,  \* points handed to a writer, not yet in the table
          store,    \* the table
          cache,    \* the client's cache: query -> CacheEntry
          answer    \* what the last read returned, until something else happens

vars == <<now, reader, half, pending, store, cache, answer>>

Series == AppSeries \cup {Capacity, Total, OldSeries, NewSeries}
Time == 1..MaxTime
Point == Time \X {0, 1}

\* A query names one series, or finds all application series by a regex.
Regex == "regex"
Queries == {Regex, Capacity, Total, OldSeries, NewSeries}

\* The table returns the points of a key in the order of their times.
InOrder(points) ==
    LET at(t) == CHOOSE p \in points : p[1] = t
    IN  [i \in 1..Cardinality(points) |->
            at(CHOOSE t \in {p[1] : p \in points} :
                Cardinality({p \in points : p[1] <= t}) = i)]
Between(points, s, e) == {p \in points : s <= p[1] /\ p[1] <= e}

----
(* The cache *)

CacheEntry(s, data) == [start |-> s, data |-> data]
NoData == [m \in {} |-> <<>>]

\* bisect: how many points of the sorted series are before t, or not after it.
BisectBefore(ts, t) == Cardinality({i \in DOMAIN ts : ts[i][1] < t})
BisectAfter(ts, t) == Cardinality({i \in DOMAIN ts : ts[i][1] <= t})

\* A Python list index: -1 is the last element.
PyAt(ts, i) == IF i = -1 THEN ts[Len(ts)] ELSE ts[i + 1]

MaxOr0(S) == IF S = {} THEN 0 ELSE CHOOSE x \in S : \A y \in S : y <= x

Miss(entry, s, e) == [cached |-> NoData, next |-> s, entry |-> entry]

Hit(entry, s, e) ==
    LET ts(m) == entry.data[m]
        from(m) == BisectBefore(ts(m), s)
        to(m) == BisectAfter(ts(m), e)
        found == {m \in DOMAIN entry.data : from(m) < Len(ts(m))}
        max_time == MaxOr0({PyAt(ts(m), to(m) - 1)[1] : m \in found})
    IN  [cached |-> [m \in found |-> SubSeq(ts(m), from(m) + 1, to(m))],
         next |-> IF found = {} THEN s ELSE max_time + 1,
         \* everything before the start is pruned, and series left empty with it
         entry |-> CacheEntry(s, [m \in found |-> SubSeq(ts(m), from(m) + 1, Len(ts(m)))])]

_cache_lookup(entry, s, e) ==
    IF DOMAIN entry.data = {} \/ s < entry.start THEN Miss(entry, s, e) ELSE Hit(entry, s, e)

SettledAtOnce(ts) == ts

\* time.time()
wall == IF reader = "simulation" THEN SimulatedAt ELSE now

\* What may be kept: nothing that a late write could still fall in front of.
Settled(ts) == SubSeq(ts, 1, BisectBefore(ts, wall - CacheDelay))

Overlaps(entry, new) ==
    \E m \in DOMAIN new \cap DOMAIN entry.data :
        /\ new[m] # <<>>
        /\ entry.data[m] # <<>>
        /\ new[m][1][1] <= Last(entry.data[m])[1]

_cache_store(entry, s, new) ==
    LET start == IF DOMAIN entry.data = {} THEN s ELSE entry.start
        stored == [m \in DOMAIN new |-> Settled(new[m])]
        had(m) == IF m \in DOMAIN entry.data THEN entry.data[m] ELSE <<>>
        get(m) == IF m \in DOMAIN stored THEN stored[m] ELSE <<>>
    IN  IF Overlaps(entry, new) THEN CacheEntry(s, stored)
        ELSE IF \E m \in DOMAIN new : new[m] # <<>>
        THEN CacheEntry(start, [m \in DOMAIN entry.data \cup DOMAIN new |-> had(m) \o get(m)])
        ELSE CacheEntry(start, entry.data)

----
(* Reading the table *)

\* The index of application keys.  Its items are spread at random over the
\* partitions, each in the order of their times, and only the first page of a
\* partition is read: what is not found has a page of items before it.
Index(s, e) == UNION {{m} \X Between(store[m], s, e) : m \in AppSeries}
FirstPages(items) ==
    {found \in SUBSET items :
        \A x \in items \ found : Cardinality({y \in found : y[2][1] <= x[2][1]}) >= PageSize}

\* A regular expression is answered from the index: the sets of keys it may give.
_get_keys_from_query(s, e) == {{x[1] : x \in found} : found \in FirstPages(Index(s, e))}

\* keys are those that a regular expression finds.
FromTable(q, keys, s, e) ==
    [m \in IF q = Regex THEN keys ELSE {q} |-> InOrder(Between(store[m], s, e))]

\* ClustermanMetricsSimulationClient: made-up points hide the stored ones.
FromSimulation(q, keys, s, e) ==
    IF q = NewSeries THEN [m \in {q} |-> InOrder(Between(Generated, s, e))]
    ELSE FromTable(q, keys, s, e)

_get_new_metric_values(q, keys, s, e) ==
    IF reader = "simulation" THEN FromSimulation(q, keys, s, e) ELSE FromTable(q, keys, s, e)

\* The table is not asked when the cache reaches the end of the window.
get_metric_values(entry, q, keys, s, e) ==
    LET hit == _cache_lookup(entry, s, e)
        new == IF hit.next < e THEN _get_new_metric_values(q, keys, hit.next, e) ELSE NoData
        of(f, m) == IF m \in DOMAIN f THEN f[m] ELSE <<>>
    IN  [data |-> [m \in DOMAIN hit.cached \cup DOMAIN new |-> of(hit.cached, m) \o of(new, m)],
         entry |-> IF DOMAIN new = {} THEN hit.entry
                   ELSE _cache_store(hit.entry, hit.next, new)]

----
(* The actions *)

Answer(queries, s, e, data, history) ==
    [queries |-> queries, s |-> s, e |-> e, data |-> data, history |-> history]
NoAnswer == Answer({}, 0, 0, <<>>, "none")

Init ==
    /\ now = 1
    /\ reader \in {"app", "system", "history", "simulation"}
    /\ half = {}
    /\ pending = {}
    /\ store = [m \in Series |-> {}]
    /\ cache = [q \in Queries |-> CacheEntry(0, NoData)]
    /\ answer = NoAnswer

Samples(m) == store[m] \cup {x[2] : x \in {y \in pending : y[1] = m}}
Sampled(m) == \E p \in Samples(m) : p[1] = now

\* writer.send: the point waits in the batch writer.
Send(points) ==
    /\ \A x \in points : ~Sampled(x[1])
    /\ pending' = pending \cup points
    /\ answer' = NoAnswer
    /\ UNCHANGED <<now, reader, store, cache>>

\* Applications and collectors write their series at any time.
SendSample ==
    /\ \/ reader = "app" /\ \E m \in AppSeries : Send({<<m, <<now, 1>>>>})
       \/ reader = "system" /\ \E m \in {OldSeries, NewSeries} : Send({<<m, <<now, 1>>>>})
    /\ UNCHANGED half

\* A pass of the collector writes the total of a pool and later its capacity,
\* each with a time of its own, unless the pass ends in between.
SendTotal ==
    /\ reader = "history"
    /\ \E v \in {0, 1} : Send({<<Total, <<now, v>>>>}) /\ half' = {v}

\* A pool without nodes has no capacity that is not orphaned.
SendCapacity ==
    /\ reader = "history"
    /\ \E total \in half, v \in {0, 1} : v <= total /\ Send({<<Capacity, <<now, v>>>>})
    /\ half' = {}

\* batch_writer puts a point into the table; points overtake each other.
PutItem ==
    \E x \in pending :
        /\ pending' = pending \ {x}
        /\ store' = [store EXCEPT ![x[1]] = @ \cup {x[2]}]
        /\ answer' = NoAnswer
        /\ UNCHANGED <<now, reader, half, cache>>

Tick ==
    /\ now < MaxTime
    /\ \A x \in pending : now + 1 <= x[2][1] + Late
    /\ now' = now + 1
    /\ answer' = NoAnswer
    /\ UNCHANGED <<reader, half, pending, store, cache>>

\* get_metrics_for_signal: a Mesos system metric is read under its old key and
\* its new one and the two are merged in time order.  Windows have any length
\* (minute_range) and end at the time of the run.
GetMetricsForSignal(queries, keys, s) ==
    /\ \E r \in {[q \in queries |-> get_metric_values(cache[q], q, keys, s, now)]} :
        /\ cache' = [q \in Queries |-> IF q \in queries THEN r[q].entry ELSE cache[q]]
        /\ answer' = Answer(queries, s, now, [q \in queries |-> r[q].data], "none")
    /\ UNCHANGED <<now, reader, half, pending, store>>

ReadAppMetrics ==
    /\ reader = "app"
    /\ \E s \in 1..(now - 1) :
       \E keys \in _get_keys_from_query(_cache_lookup(cache[Regex], s, now).next, now) :
            GetMetricsForSignal({Regex}, keys, s)
ReadSystemMetrics ==
    reader = "system" /\ \E s \in 1..(now - 1) : GetMetricsForSignal({OldSeries, NewSeries}, {}, s)
ReadSimulated ==
    reader = "simulation" /\ \E s \in 1..(now - 1) : GetMetricsForSignal({NewSeries}, {}, s)

\* The non-zero points of a series, which is in the order of its times.
NonZero(ts) == InOrder({p \in {ts[i] : i \in DOMAIN ts} : p[2] > 0})
Latest(ts) == SubSeq(ts, IF Len(ts) > Smoothing THEN Len(ts) - Smoothing + 1 ELSE 1, Len(ts))

NonZeroOfLatest(ts) == NonZero(Latest(ts))

\* _get_smoothed_non_zero_metadata: the window of the latest non-zero points.
LatestNonZero(ts) == Latest(NonZero(ts))

Of(data, m) == IF m \in DOMAIN data THEN data[m] ELSE <<>>

\* _get_historical_weighted_resource_value.  An empty window makes
\* _cache_lookup raise a ValueError.
HistoryAnswer(caps, r) ==
    CASE caps = <<>> -> "zero"
      [] Len(caps) = 1 -> "ValueError"
      [] Len(caps) > 1 /\ LatestNonZero(Of(r.data, Total)) = <<>> -> "zero"
      [] OTHER -> "weighted"

GetHistory ==
    /\ reader = "history"
    /\ now > 1
    /\ \E c \in {get_metric_values(cache[Capacity], Capacity, {}, 1, now)} :
       \E caps \in {LatestNonZero(Of(c.data, Capacity))} :
       \E r \in {IF Len(caps) > 1
                 THEN get_metric_values(cache[Total], Total, {}, caps[1][1], Last(caps)[1])
                 ELSE [data |-> NoData, entry |-> cache[Total]]} :
            /\ cache' = [cache EXCEPT ![Capacity] = c.entry, ![Total] = r.entry]
            /\ answer' = Answer({}, 1, now, caps, HistoryAnswer(caps, r))
    /\ UNCHANGED <<now, reader, half, pending, store>>

Next ==
    \/ SendSample
    \/ SendTotal
    \/ SendCapacity
    \/ PutItem
    \/ Tick
    \/ ReadAppMetrics
    \/ ReadSystemMetrics
    \/ ReadSimulated
    \/ GetHistory

Spec == Init /\ [][Next]_vars

----
(* Properties *)

TypeOK ==
    /\ now \in Time
    /\ half \subseteq {0, 1}
    /\ pending \subseteq Series \X Point
    /\ store \in [Series -> SUBSET Point]
    /\ \A q \in Queries :
        /\ cache[q].start \in 0..MaxTime
        /\ \A m \in DOMAIN cache[q].data : cache[q].data[m] \in Seq(Point)

\* What a read without a cache would return for a series.
Truth(m, s, e) ==
    InOrder(Between(IF reader = "simulation" /\ m = NewSeries THEN Generated ELSE store[m], s, e))

\* The index of all that was ever written fits in a page.
OnePage == Cardinality(Index(1, MaxTime)) <= PageSize

\* The cache of a simulation is not kept from the latest points, and a window
\* whose last second but one it has is taken to be complete.
EndIsLost(e) ==
    reader = "simulation" /\ \E p \in Generated, r \in Generated : p[1] = e - 1 /\ r[1] = e

\* A read through the cache returns what the table holds: every point of the
\* window, in order and once, whatever was cached by earlier reads of other
\* windows and whatever was still on its way then; for a regular expression as
\* long as the index fits in a page, and in a simulation but for the point at
\* the very end when there is one a second before it.
CachedReadsAreComplete ==
    \A q \in answer.queries : (q = Regex => OnePage) =>
        \A m \in IF q = Regex THEN AppSeries ELSE {q} :
            \/ Of(answer.data[q], m) = Truth(m, answer.s, answer.e)
            \/ EndIsLost(answer.e) /\ Of(answer.data[q], m) = Truth(m, answer.s, answer.e - 1)

\* An empty pool looks at the latest non-zero capacities there are, and finds
\* what a unit of them used to hold whenever there are two and no write is on
\* its way, whatever the earlier reads left in the cache, unless totals were
\* written within two seconds.
HistoryIsFound ==
    answer.history # "none" =>
        /\ answer.data = LatestNonZero(Truth(Capacity, 1, now))
        /\ /\ pending = {}
           /\ Cardinality({p \in store[Capacity] : p[2] > 0}) >= 2
           /\ ~\E p \in store[Total], r \in store[Total] : r[1] = p[1] + 1
           => answer.history = "weighted"
====
