-------------------------------- MODULE Signals --------------------------------
(***************************************************************************)
(* Signal processes: how the bootstrap batch fetches and starts them under *)
(* supervisord (batch/autoscaler_bootstrap.py), how the autoscaler         *)
(* connects to them (autoscaler.py, __init__ and _get_signal_for_app) and  *)
(* evaluates one over its Unix socket (signals/external_signal.py), with   *)
(* the default signal as the fallback.                                     *)
(*                                                                         *)
(* A socket is two streams: recv takes all that has arrived, however many  *)
(* sends it came from.  Metrics are the number of the run they were read   *)
(* for, in Chunks pieces; the answer carries the number of its metrics.    *)
(***************************************************************************)
EXTENDS Naturals, Sequences, FiniteSets

CONSTANTS
  Runs,       \* runs are numbered modulo this
  Chunks,     \* pieces of SOCKET_MESG_SIZE that the metrics take
  MaxFaults

ASSUME ConstantsAssumption ==
  /\ Runs \in Nat /\ Runs > 2 /\ Chunks \in Nat \ {0}
  /\ MaxFaults \in Nat

Signals == {"default", "app"}
Tries == 3

VARIABLES
  config,     \* kind of each signal: "external", "internal" or "none"; shared
  prompt,     \* timing: TRUE if a signal process that runs listens before the
              \* tries of a connection are used up and reads its parameters
              \* before it is sent anything else, and if the signal in use,
              \* when it is restarted between runs, survives startsecs
  boot,       \* the step of the bootstrap batch
  polled,     \* states of processes that wait_for_process has read
  fetch,      \* version -> state of its fetch_signals process
  fetched,    \* versions on disk
  proc,       \* signal -> state of its run_signals process
  at,         \* signal -> where the process is
  up, down,   \* signal -> the stream to and from the process
  conn,       \* signal -> the autoscaler's socket: "none", "open" or "broken"
  auto,       \* supervisord's state of the autoscaler
  pc,         \* the step of the autoscaler
  using,      \* self.signal
  cur,        \* the signal being connected or evaluated
  attempt,    \* 1: self.signal, 2: the fallback, 0: initialisation
  retry,      \* retry_on_broken_pipe
  count,      \* refused connections, or chunks sent
  run, result,
  mishaps,    \* since the bootstrap started: a signal process has "died", or the
              \* app's was "slow", alive but not yet listening at the last try
  faults

supervisor == <<boot, polled, fetch, fetched, proc, auto>>
process    == <<at, up, down, conn>>
client     == <<pc, using, cur, attempt, retry, count, run, result>>
vars == <<config, prompt, supervisor, process, client, mishaps, faults>>

NoResult == Runs
Version(s) == IF config.shared THEN "default" ELSE s

\* The processes of the group run_signals, and the versions they need.
signal_names == {s \in Signals : config[s] = "external"}
versions_to_fetch == {Version(s) : s \in signal_names}

Fault == faults < MaxFaults /\ faults' = faults + 1

AllSignals(v) == [s \in Signals |-> v]

TypeOK ==
  /\ boot \in {"supervisord", "fetching", "starting", "polling", "shutdown"}
  /\ DOMAIN polled \subseteq Signals
  /\ fetch \in [Signals -> {"STOPPED", "STARTING", "EXITED"}]
  /\ fetched \subseteq Signals
  /\ proc \in [Signals -> {"STOPPED", "STARTING", "RUNNING", "FATAL", "UNEXPECTED"}]
  /\ at \in [Signals -> {"down", "start", "listen", "load", "length", "data", "value"}]
  /\ \A s \in Signals :
       /\ Len(up[s]) <= Chunks + 2 /\ Len(down[s]) <= 2
       /\ at[s] \in {"load", "length", "data", "value"} => conn[s] # "broken"
  /\ conn \in [Signals -> {"none", "open", "broken"}]
  /\ auto \in {"STOPPED", "RUNNING", "EXITED"}
  /\ pc \in {"off", "connect", "idle", "metrics", "length", "length_ack",
             "chunks", "data_ack", "response"}
  /\ using \in Signals /\ cur \in Signals
  /\ attempt \in 0..2 /\ retry \in BOOLEAN
  /\ count \in 0..(Chunks + Tries)
  /\ run \in 0..(Runs - 1) /\ result \in 0..Runs
  /\ mishaps \subseteq {"died", "slow"} /\ faults \in 0..MaxFaults

Init ==
  /\ config \in {[default |-> d, app |-> a, shared |-> sh] :
                   d \in {"external", "internal"},
                   a \in {"external", "internal", "none"}, sh \in BOOLEAN}
  /\ config.shared => signal_names = Signals
  /\ prompt \in BOOLEAN
  /\ boot = "supervisord" /\ polled = <<>> /\ fetched = {}
  /\ fetch = AllSignals("STOPPED") /\ proc = AllSignals("STOPPED")
  /\ at = AllSignals("down") /\ conn = AllSignals("none")
  /\ up = AllSignals(<<>>) /\ down = AllSignals(<<>>)
  /\ auto = "STOPPED" /\ pc = "off" /\ using = "default" /\ cur = "default"
  /\ attempt = 0 /\ retry = TRUE /\ count = 0
  /\ run = 0 /\ result = NoResult /\ mishaps = {} /\ faults = 0

-----------------------------------------------------------------------------
(* The bootstrap batch. *)

StartSupervisord ==
  /\ boot = "supervisord" /\ boot' = "fetching" /\ polled' = <<>>
  /\ fetch' = [v \in Signals |-> IF v \in versions_to_fetch THEN "STARTING" ELSE "STOPPED"]
  /\ mishaps' = {}
  /\ UNCHANGED <<config, prompt, fetched, proc, auto, process, client, faults>>

\* wait_for_process reads the state of one process after the other, and
\* starts over when supervisord does not answer.
ReadState(procs, state) ==
  \E p \in procs \ DOMAIN polled :
    polled' = [q \in DOMAIN polled \cup {p} |-> IF q = p THEN state[p] ELSE polled[q]]

Waited(procs, terminal) ==
  DOMAIN polled = procs /\ \A p \in procs : polled[p] = terminal
Fatal(procs) == DOMAIN polled = procs /\ \E p \in procs : polled[p] = "FATAL"
StartOver(procs, terminal) ==
  /\ DOMAIN polled = procs /\ ~Fatal(procs) /\ ~Waited(procs, terminal)
  /\ polled' = <<>>

PollFetch ==
  /\ boot = "fetching"
  /\ ReadState(versions_to_fetch, fetch) \/ StartOver(versions_to_fetch, "EXITED")
  /\ UNCHANGED <<config, prompt, boot, fetch, fetched, proc, auto, process, client, mishaps, faults>>

startProcessGroup ==
  /\ boot = "fetching" /\ Waited(versions_to_fetch, "EXITED")
  /\ boot' = "starting" /\ polled' = <<>>
  /\ proc' = [s \in Signals |-> IF s \in signal_names THEN "STARTING" ELSE proc[s]]
  /\ at' = [s \in Signals |-> IF s \in signal_names THEN "start" ELSE at[s]]
  /\ UNCHANGED <<config, prompt, fetch, fetched, auto, up, down, conn, client, mishaps, faults>>

PollSignals ==
  /\ boot = "starting"
  /\ ReadState(signal_names, proc) \/ StartOver(signal_names, "RUNNING")
  /\ UNCHANGED <<config, prompt, boot, fetch, fetched, proc, auto, process, client, mishaps, faults>>

SomeSignalRunning == signal_names # {} => \E s \in DOMAIN polled : polled[s] = "RUNNING"
SignalsRunning == Waited(signal_names, "RUNNING")

\* The autoscaler connects to the default signal first.
startProcess ==
  /\ boot = "starting" /\ SignalsRunning
  /\ boot' = "polling" /\ polled' = <<>> /\ auto' = "RUNNING"
  /\ using' = "default" /\ cur' = "default" /\ attempt' = 0 /\ count' = 0
  /\ pc' = "connect"
  /\ UNCHANGED <<config, prompt, fetch, fetched, proc, process, retry, run, result, mishaps, faults>>

\* The finally clause, when a process could not start, the autoscaler has
\* ended, or the configuration has changed.  Versions stay on disk.
shutdown ==
  /\ boot' = "shutdown" /\ polled' = <<>>
  /\ fetch' = AllSignals("STOPPED") /\ proc' = AllSignals("STOPPED")
  /\ at' = AllSignals("down") /\ conn' = AllSignals("none")
  /\ up' = AllSignals(<<>>) /\ down' = AllSignals(<<>>)
  /\ auto' = "STOPPED" /\ pc' = "off"
  /\ UNCHANGED <<config, prompt, fetched, using, cur, attempt, retry, count, run, result, mishaps>>

Abort == /\ boot = "starting" /\ Fatal(signal_names)
         /\ shutdown /\ UNCHANGED faults
AutoscalerEnded == boot = "polling" /\ auto = "EXITED" /\ shutdown /\ UNCHANGED faults
ConfigChanged == boot = "polling" /\ auto = "RUNNING" /\ Fault /\ shutdown

\* The batch is run again, by whatever runs it (external).
BootstrapRestarted ==
  /\ boot = "shutdown" /\ boot' = "supervisord"
  /\ UNCHANGED <<config, prompt, polled, fetch, fetched, proc, auto, process, client, mishaps, faults>>

-----------------------------------------------------------------------------
(* supervisord and the signal process (external). *)

\* fetch_signals has startsecs=0: a process that failed is EXITED as well.
FetchEnds(v) ==
  /\ fetch[v] = "STARTING" /\ fetch' = [fetch EXCEPT ![v] = "EXITED"]
  /\ \/ fetched' = fetched \cup {v} /\ UNCHANGED faults
     \/ v \notin fetched /\ Fault /\ UNCHANGED fetched
  /\ UNCHANGED <<config, prompt, boot, polled, proc, auto, process, client, mishaps>>

\* RUNNING says that the process is alive after startsecs, not that it listens.
\* Without its version it does not live that long.
SurvivesStartsecs(s) ==
  /\ proc[s] = "STARTING" /\ (at[s] = "start" => Version(s) \in fetched)
  /\ proc' = [proc EXCEPT ![s] = "RUNNING"]
  /\ UNCHANGED <<config, prompt, boot, polled, fetch, fetched, auto, process, client, mishaps, faults>>

Listen(s) ==
  /\ at[s] = "start" /\ Version(s) \in fetched
  /\ at' = [at EXCEPT ![s] = "listen"]
  /\ UNCHANGED <<config, prompt, supervisor, up, down, conn, client, mishaps, faults>>

\* The process ends with an exit code other than 0, after it has sent msgs.
\* Within startsecs that is FATAL, as startretries is 0.
Ends(s, msgs) ==
  /\ at' = [at EXCEPT ![s] = "down"]
  /\ down' = [down EXCEPT ![s] = @ \o msgs]
  /\ up' = [up EXCEPT ![s] = <<>>]
  /\ conn' = [conn EXCEPT ![s] = IF @ = "open" /\ at[s] \notin {"start", "listen"}
                                 THEN "broken" ELSE @]
  /\ proc' = [proc EXCEPT ![s] = IF @ = "STARTING" THEN "FATAL" ELSE "UNEXPECTED"]
  /\ UNCHANGED <<config, prompt, boot, polled, fetch, fetched, auto, client>>

\* run_clusterman_signal ends at once when there is nothing to run.
NotFetched(s) ==
  /\ at[s] = "start" /\ Version(s) \notin fetched
  /\ Ends(s, <<>>) /\ UNCHANGED <<mishaps, faults>>

MayEnd(s) == (prompt /\ proc[s] = "STARTING" /\ s = using)
               => boot = "starting" \/ (pc = "connect" /\ attempt = 0)

Crash(s) ==
  /\ at[s] # "down" /\ Fault /\ mishaps' = mishaps \cup {"died"}
  /\ MayEnd(s)
  /\ Ends(s, <<>>)

\* autorestart is "unexpected" by default.
Restart(s) ==
  /\ proc[s] = "UNEXPECTED"
  /\ proc' = [proc EXCEPT ![s] = "STARTING"] /\ at' = [at EXCEPT ![s] = "start"]
  /\ UNCHANGED <<config, prompt, boot, polled, fetch, fetched, auto, up, down, conn, client, mishaps, faults>>

\* load_signal: the parameters, and nothing that came with them.
load_signal(s) ==
  /\ at[s] = "load" /\ up[s] # <<>>
  /\ \/ /\ Len(up[s]) = 1
        /\ at' = [at EXCEPT ![s] = "length"] /\ up' = [up EXCEPT ![s] = <<>>]
        /\ UNCHANGED <<config, prompt, supervisor, down, conn, client, mishaps>>
     \/ Len(up[s]) > 1 /\ mishaps' = mishaps \cup {"died"} /\ Ends(s, <<>>)
  /\ UNCHANGED faults

Sends(s, msg, next) ==
  /\ down' = [down EXCEPT ![s] = Append(@, msg)] /\ at' = [at EXCEPT ![s] = next]
  /\ UNCHANGED <<config, prompt, supervisor, conn, client, mishaps, faults>>

\* The length, the data, and the answer.  Metrics of another length than
\* announced would end the process; the autoscaler never sends any.
ReadLength(s) ==
  /\ at[s] = "length" /\ up[s] # <<>> /\ up' = [up EXCEPT ![s] = <<>>]
  /\ Sends(s, <<"ack", 0>>, "data")
ReadData(s) ==
  /\ at[s] = "data" /\ Len(up[s]) = Chunks /\ UNCHANGED up
  /\ Sends(s, <<"ack", 0>>, "value")
Value(s) ==
  /\ at[s] = "value" /\ up' = [up EXCEPT ![s] = <<>>]
  /\ Sends(s, <<"answer", Head(up[s])[2]>>, "length")

\* The signal raises, or waits for data for too long: it sends a traceback.
Raises(s) ==
  /\ at[s] \in {"data", "value"} /\ MayEnd(s) /\ Fault /\ mishaps' = mishaps \cup {"died"}
  /\ Ends(s, <<<<"traceback", 0>>>>)

-----------------------------------------------------------------------------
(* The autoscaler: connections. *)

\* The parameters are sent on a new socket.
_connect_to_signal_process ==
  /\ at' = [at EXCEPT ![cur] = "load"]
  /\ up' = [up EXCEPT ![cur] = <<<<"parameters", 0>>>>]
  /\ down' = [down EXCEPT ![cur] = <<>>]
  /\ conn' = [conn EXCEPT ![cur] = "open"]

\* After the default signal the signal of the app is loaded; the default
\* signal takes its place when it has none.
Load ==
  /\ count' = 0
  /\ IF cur = "default" /\ config["app"] = "external"
     THEN cur' = "app" /\ pc' = "connect" /\ UNCHANGED using
     ELSE /\ pc' = "idle" /\ UNCHANGED cur
          /\ using' = IF config["app"] = "none" THEN "default" ELSE "app"

\* An internal signal needs no connection.
LoadInternal ==
  /\ pc = "connect" /\ attempt = 0 /\ config[cur] = "internal" /\ Load
  /\ UNCHANGED <<config, prompt, supervisor, process, attempt, retry, run, result, mishaps, faults>>

Connect ==
  /\ pc = "connect" /\ config[cur] = "external" /\ at[cur] = "listen"
  /\ _connect_to_signal_process
  /\ \/ attempt = 0 /\ Load /\ UNCHANGED retry
     \/ attempt # 0 /\ pc' = "metrics" /\ retry' = FALSE /\ count' = 0
        /\ UNCHANGED <<cur, using>>
  /\ UNCHANGED <<config, prompt, supervisor, attempt, run, result, mishaps, faults>>

-----------------------------------------------------------------------------
(* The autoscaler: a run. *)

Step(next) == pc' = next /\ UNCHANGED <<using, cur, attempt, retry, run, result>>

FailWithLastAnswer ==
  /\ pc' = "idle" /\ result' = (run + Runs - 1) % Runs /\ count' = 0
  /\ UNCHANGED <<using, cur, attempt, retry, run>>

\* An evaluation that fails is followed by one of the default signal, even
\* if it was the default signal that failed; if that fails, so does the run.
Fail ==
  /\ count' = 0
  /\ IF attempt = 1
     THEN /\ cur' = "default" /\ attempt' = 2 /\ retry' = TRUE /\ pc' = "metrics"
          /\ UNCHANGED <<using, run, result>>
     ELSE pc' = "idle" /\ UNCHANGED <<using, cur, attempt, retry, run, result>>

Answer(r) ==
  /\ pc' = "idle" /\ result' = r /\ count' = 0
  /\ UNCHANGED <<using, cur, attempt, retry, run>>

\* Not one of three connections succeeds: the default signal takes the place
\* of the app's, but without it the autoscaler does not start.
Refused ==
  /\ pc = "connect" /\ config[cur] = "external" /\ at[cur] # "listen"
  /\ \/ /\ count < Tries - 1 /\ count' = count + 1
        /\ UNCHANGED <<auto, pc, using, cur, attempt, retry, run, result, mishaps>>
     \/ /\ count = Tries - 1 /\ (prompt => proc[cur] = "FATAL")
        /\ \/ attempt # 0 /\ Fail /\ UNCHANGED <<auto, mishaps>>
           \/ /\ attempt = 0 /\ cur = "app"
              /\ using' = "default" /\ pc' = "idle" /\ count' = 0
              /\ mishaps' = mishaps \cup {m \in {"slow"} : at[cur] = "start"}
              /\ UNCHANGED <<auto, cur, attempt, retry, run, result>>
           \/ /\ attempt = 0 /\ cur = "default"
              /\ auto' = "EXITED" /\ pc' = "off" /\ count' = 0
              /\ UNCHANGED <<using, cur, attempt, retry, run, result, mishaps>>
  /\ UNCHANGED <<config, prompt, boot, polled, fetch, fetched, proc, process, faults>>

StartRun ==
  /\ pc = "idle" /\ pc' = "metrics" /\ run' = (run + 1) % Runs
  /\ cur' = using /\ attempt' = 1 /\ retry' = TRUE /\ result' = NoResult /\ count' = 0
  /\ UNCHANGED <<config, prompt, supervisor, process, using, mishaps, faults>>

\* get_metrics_for_signal, or the query of pending pods, may raise.
GetMetrics ==
  /\ pc = "metrics"
  /\ \/ Fault /\ Fail
     \/ config[cur] = "external" /\ Step("length") /\ UNCHANGED <<count, faults>>
     \/ config[cur] = "internal" /\ Answer(run) /\ UNCHANGED faults
  /\ UNCHANGED <<config, prompt, supervisor, process, mishaps>>

BrokenPipeUnhandled == Fail
\* BrokenPipeError: one new connection per evaluation.
BrokenPipe == IF retry THEN Step("connect") /\ count' = 0 ELSE Fail

SendLength ==
  /\ pc = "length"
  /\ \/ /\ conn[cur] = "open" /\ (prompt => up[cur] = <<>>)
        /\ up' = [up EXCEPT ![cur] = Append(@, <<"length", run>>)]
        /\ Step("length_ack") /\ UNCHANGED count
     \/ conn[cur] = "broken" /\ BrokenPipe /\ UNCHANGED up
  /\ UNCHANGED <<config, prompt, supervisor, at, down, conn, mishaps, faults>>

\* recv blocks until there is something, or the process has ended.
Received == down[cur] # <<>> \/ conn[cur] = "broken"
Recv == down' = [down EXCEPT ![cur] = <<>>]

RecvLengthAck ==
  /\ pc = "length_ack" /\ Received /\ Recv
  /\ IF down[cur] = <<<<"ack", 0>>>> THEN Step("chunks") /\ count' = 0 ELSE Fail
  /\ UNCHANGED <<config, prompt, supervisor, at, up, conn, mishaps, faults>>

SendChunk ==
  /\ pc = "chunks"
  /\ \/ /\ conn[cur] = "open"
        /\ up' = [up EXCEPT ![cur] = Append(@, <<"data", run>>)]
        /\ count' = count + 1
        /\ Step(IF count' = Chunks THEN "data_ack" ELSE "chunks")
     \/ conn[cur] = "broken" /\ BrokenPipe /\ UNCHANGED up
  /\ UNCHANGED <<config, prompt, supervisor, at, down, conn, mishaps, faults>>

\* json.loads of what was received: an answer and nothing else.
Decode(response) ==
  IF Len(response) = 1 /\ response[1][1] = "answer" THEN Answer(response[1][2]) ELSE Fail

\* The answer may have come together with the acknowledgement.
AckAndResponse(response) ==
  IF response = <<>> \/ Head(response) # <<"ack", 0>> THEN Fail
  ELSE IF Tail(response) # <<>> THEN Decode(Tail(response))
  ELSE Step("response") /\ count' = 0

RecvDataAck ==
  /\ pc = "data_ack" /\ Received /\ Recv /\ AckAndResponse(down[cur])
  /\ UNCHANGED <<config, prompt, supervisor, at, up, conn, mishaps, faults>>

RecvResponse ==
  /\ pc = "response" /\ Received /\ Recv /\ Decode(down[cur])
  /\ UNCHANGED <<config, prompt, supervisor, at, up, conn, mishaps, faults>>

-----------------------------------------------------------------------------
Bootstrap == \/ StartSupervisord \/ PollFetch \/ startProcessGroup
             \/ PollSignals \/ startProcess \/ Abort \/ AutoscalerEnded
             \/ BootstrapRestarted
Process(s) == \/ FetchEnds(s) \/ SurvivesStartsecs(s) \/ Listen(s)
              \/ NotFetched(s) \/ Restart(s) \/ load_signal(s)
              \/ ReadLength(s) \/ ReadData(s) \/ Value(s)
Autoscaler == \/ LoadInternal \/ Connect \/ Refused \/ StartRun \/ GetMetrics
              \/ SendLength \/ RecvLengthAck \/ SendChunk \/ RecvDataAck
              \/ RecvResponse

Next == \/ Bootstrap \/ Autoscaler \/ ConfigChanged
        \/ \E s \in Signals : Process(s) \/ Crash(s) \/ Raises(s)

Spec == Init /\ [][Next]_vars

\* Every process goes on; faults are bounded, so that fairness does not force
\* them for ever.
FairSpec == /\ Spec /\ WF_vars(Bootstrap) /\ WF_vars(Autoscaler)
            /\ \A s \in Signals : WF_vars(Process(s))

-----------------------------------------------------------------------------
Asked == pc \notin {"off", "idle"} /\ attempt # 0
Contract == INSTANCE SignalContract WITH asked <- Asked

\* An evaluation ends, and its result is the answer to the metrics of this
\* run or a failure: whatever arrives together or apart on the socket, and
\* through restarts of the process, ExternalSignal.evaluate neither waits for
\* what it has already received nor takes an old answer for a new one.
KeepsContract == Contract!Spec

\* The signal an app has configured is replaced by the default signal for the
\* life of the autoscaler (_get_signal_for_app) only after a process has died
\* or because the app's, which is alive and has its version, did not listen in
\* time: as the bootstrap waits for all signals to run, the fallback never hides
\* a signal that could not be fetched or was not started.
NoSilentFallback ==
  using = "default" /\ config["app"] # "none" /\ pc \notin {"off", "connect"}
    => mishaps # {}

\* However processes died, the signal in use answers again at the first
\* attempt: evaluate reconnects, supervisord and the bootstrap restart.
SignalAnswersAgain == prompt => []<>(pc = "idle" /\ result = run /\ attempt = 1)
=============================================================================
