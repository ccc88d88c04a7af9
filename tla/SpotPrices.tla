---- MODULE SpotPrices ----
(***************************************************************************)
(* The spot price collector (batch/spot_price_collector.py) and the         *)
(* generator it drives (aws/spot_prices.py).  Each run asks EC2 for the     *)
(* price changes since the last run that succeeded, newest first, and       *)
(* writes at most one price per market and interval.                        *)
(*                                                                          *)
(* A price is known by the time of its change.  The clock is finer than the *)
(* rate of changes: a market changes at most once per tick.                 *)
(***************************************************************************)
EXTENDS Integers, Sequences, FiniteSets

CONSTANTS Markets,         \* pairs of instance type and availability zone
          DedupeInterval,  \* batches.spot_prices.dedupe_interval_seconds
          MaxTime,         \* bound: the clock stops here
          MaxFaults        \* bound: time-outs, throttled calls and crashes

VARIABLES now,
          changes,   \* EC2's history: <<market, time>>
          pc,        \* "sleep", "run" or "dead"
          start,     \* last_time_called
          end,       \* the end of the window of this run
          left,      \* price changes still to come from the paginator
          intervals, \* last_interval_written_by_market, 0 where there is none
          buffer,    \* points in the batch writer: <<market, interval, time>>
          table,     \* the metrics table: market -> interval -> time, 0 where none
          begun,     \* the start_time this batch was given
          checkins,  \* the last run reported to Sensu
          faults

vars == <<now, changes, pc, start, end, left, intervals, buffer, table, begun, checkins, faults>>

Time == 1..MaxTime
Intervals == 0..(MaxTime + DedupeInterval)

Init ==
    /\ now = 1
    /\ changes = {}
    /\ pc = "sleep"
    /\ start = 1
    /\ end = 1
    /\ left = {}
    /\ intervals = [m \in Markets |-> 0]
    /\ buffer = {}
    /\ table = [m \in Markets |-> [i \in Intervals |-> 0]]
    /\ begun = 1
    /\ checkins = FALSE
    /\ faults = 0

Tick ==
    /\ now < MaxTime
    /\ now' = now + 1
    /\ UNCHANGED <<changes, pc, start, end, left, intervals, buffer, table, begun, checkins, faults>>

\* EC2 changes a price.
PriceChanges ==
    \E m \in Markets :
        /\ <<m, now>> \notin changes
        /\ pc # "run" \/ end < now
        /\ changes' = changes \cup {<<m, now>>}
        /\ UNCHANGED <<now, pc, start, end, left, intervals, buffer, table, begun, checkins, faults>>

\* spot_price_generator: EC2 also returns the price in effect at the start,
\* which an earlier run recorded.
spot_price_generator(s, e) == {c \in changes : s <= c[2] /\ c[2] <= e}

\* run: the batch wakes up and opens a writer.
Wake ==
    /\ pc = "sleep"
    /\ start < now
    /\ pc' = "run"
    /\ end' = now
    /\ left' = spot_price_generator(start, now)
    /\ checkins' = FALSE
    /\ UNCHANGED <<now, changes, start, intervals, buffer, table, begun, faults>>

\* The end of the interval that a time is in.
RoundUp(t) == t + ((DedupeInterval - t) % DedupeInterval)

UnwrittenOrSame(m, i) == intervals[m] = 0 \/ i <= intervals[m]

\* An interval of a market that has no newer price yet.
Unwritten(m, i) == intervals[m] = 0 \/ i < intervals[m]

\* write_prices_with_dedupe: one price of the history, newest first.
WritePrice ==
    /\ pc = "run"
    /\ \E c \in left :
        /\ \A d \in left : d[2] <= c[2]
        /\ left' = left \ {c}
        /\ LET m == c[1]
               i == RoundUp(c[2])
           IN  IF Unwritten(m, i)
               THEN /\ intervals' = [intervals EXCEPT ![m] = i]
                    /\ buffer' = {b \in buffer : b[1] # m \/ b[2] # i} \cup {<<m, i, c[2]>>}
               ELSE UNCHANGED <<intervals, buffer>>
    /\ UNCHANGED <<now, changes, pc, start, end, table, begun, checkins, faults>>

Flushed ==
    [m \in Markets |-> [i \in Intervals |->
        IF \E b \in buffer : b[1] = m /\ b[2] = i
        THEN (CHOOSE b \in buffer : b[1] = m /\ b[2] = i)[3]
        ELSE table[m][i]]]

\* batch_writer sends what it holds when it has enough of it.
FlushBatch ==
    /\ pc = "run"
    /\ buffer # {}
    /\ table' = Flushed
    /\ buffer' = {}
    /\ UNCHANGED <<now, changes, pc, start, end, left, intervals, begun, checkins, faults>>

\* Leaving the writer's context, by an exception too, sends the rest.
CloseWriter ==
    /\ table' = Flushed
    /\ buffer' = {}
    /\ left' = {}
    /\ intervals' = [m \in Markets |-> 0]
    /\ pc' = "sleep"

\* write_prices returns: last_time_called advances and the run is reported.
Finish ==
    /\ pc = "run"
    /\ left = {}
    /\ CloseWriter
    /\ start' = end
    /\ checkins' = TRUE
    /\ UNCHANGED <<now, changes, end, begun, faults>>

\* Where last_time_called is left when write_prices does not return.
KeptStart == start

Fault == pc = "run" /\ faults < MaxFaults /\ faults' = faults + 1

\* socket.timeout: the run is not reported and the next one asks again.
TimedOut ==
    /\ Fault
    /\ CloseWriter
    /\ start' = KeptStart
    /\ UNCHANGED <<now, changes, end, begun, checkins>>

\* suppress_request_limit_exceeded: swallowed, and reported as a success.
RequestLimitExceeded ==
    /\ Fault
    /\ CloseWriter
    /\ start' = KeptStart
    /\ checkins' = TRUE
    /\ UNCHANGED <<now, changes, end, begun>>

\* Any other exception ends the batch, after the writer was closed; a kill
\* loses what the writer holds.
Die ==
    /\ Fault
    /\ \/ table' = Flushed
       \/ buffer # {} /\ table' = table
    /\ buffer' = {}
    /\ left' = {}
    /\ intervals' = [m \in Markets |-> 0]
    /\ pc' = "dead"
    /\ UNCHANGED <<now, changes, start, end, begun, checkins>>

\* A new batch starts from now, or from the --start-time it is given.
Restart ==
    /\ pc = "dead"
    /\ pc' = "sleep"
    /\ start' \in 1..now
    /\ begun' = start'
    /\ UNCHANGED <<now, changes, end, left, intervals, buffer, table, checkins, faults>>

Next ==
    \/ Tick
    \/ PriceChanges
    \/ Wake
    \/ WritePrice
    \/ FlushBatch
    \/ Finish
    \/ TimedOut
    \/ RequestLimitExceeded
    \/ Die
    \/ Restart

Spec == Init /\ [][Next]_vars

----
\* Between runs, every market has in every interval the latest price that EC2
\* had by last_time_called, back to where the batch began, or one that is later
\* still in the same interval.  The windows of the runs leave no gap, and no
\* time-out, throttled call or later run loses a price or puts an older one over
\* it.
PricesAreRecorded ==
    pc = "sleep" =>
        \A c \in {d \in changes : begun <= d[2] /\ d[2] < start} :
            LET kept == table[c[1]][RoundUp(c[2])]
            IN  /\ c[2] <= kept
                /\ <<c[1], kept>> \in changes
                /\ RoundUp(kept) = RoundUp(c[2])
====
