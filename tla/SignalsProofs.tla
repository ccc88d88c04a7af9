---------------------------- MODULE SignalsProofs ----------------------------
(***************************************************************************)
(* Proofs about the evaluation of signals, for any number of chunks, runs  *)
(* and faults: it keeps the safety part of SignalContract, and an app's    *)
(* signal is not replaced unless a process has died.                       *)
(***************************************************************************)
EXTENDS Signals, SequenceTheorems, TLAPS

-----------------------------------------------------------------------------
(* The inductive invariant.                                                 *)

\* The autoscaler waits for the signal, or is about to send it something.
Talk == {"length_ack", "chunks", "data_ack", "response"}

\* The signal process has accepted a connection.
Live == {"load", "length", "data", "value"}

Msg == {"parameters", "length", "data", "ack", "answer", "traceback"} \X (0..Runs)

ConfigType == [default : {"external", "internal"},
               app : {"external", "internal", "none"}, shared : BOOLEAN]
BootSteps == {"supervisord", "fetching", "starting", "polling", "shutdown"}
Steps == {"off", "connect", "idle", "metrics", "length"} \cup Talk

ServerTypes ==
  /\ config \in ConfigType
  /\ boot \in BootSteps
  /\ proc \in [Signals -> {"STOPPED", "STARTING", "RUNNING", "FATAL", "UNEXPECTED"}]
  /\ at \in [Signals -> {"down", "start", "listen"} \cup Live]
  /\ conn \in [Signals -> {"none", "open", "broken"}]
  /\ up \in [Signals -> Seq(Msg)] /\ down \in [Signals -> Seq(Msg)]
  /\ mishaps \subseteq {"died", "slow"}

ClientTypes ==
  /\ pc \in Steps
  /\ using \in Signals /\ cur \in Signals /\ attempt \in 0..2 /\ retry \in BOOLEAN
  /\ run \in 0..(Runs - 1) /\ result \in 0..Runs /\ count \in Nat

Types == ServerTypes /\ ClientTypes

\* A socket is open as long as the process lives that accepted it; there are
\* neither sockets nor processes before the bootstrap gets to them.
Sockets ==
  /\ \A s \in Signals : conn[s] = "open" <=> at[s] \in Live
  /\ boot # "polling" => pc = "off" /\ \A s \in Signals : conn[s] = "none"
  /\ boot \notin {"starting", "polling"} =>
       \A s \in Signals : at[s] = "down" /\ proc[s] = "STOPPED"

\* All that is on its way to the process is metrics of this run.
Metrics(s) == \A i \in 1..Len(up[s]) : up[s][i] = <<"data", run>>

\* The two ends of an open socket agree on where they are: when the autoscaler
\* is not talking to the signal nothing is on its way but the parameters,
Quiet(s) ==
  /\ down[s] = <<>>
  /\ \/ at[s] = "load" /\ up[s] = <<<<"parameters", 0>>>>
     \/ at[s] = "length" /\ up[s] = <<>>

\* and when it is, only what belongs to this step of this run.
Exchange(s) ==
  \/ /\ pc = "length_ack"
     /\ \/ at[s] = "load" /\ Len(up[s]) = 2 /\ down[s] = <<>>
        \/ at[s] = "length" /\ up[s] = <<<<"length", run>>>> /\ down[s] = <<>>
        \/ at[s] = "data" /\ up[s] = <<>> /\ down[s] = <<<<"ack", 0>>>>
  \/ /\ pc = "chunks" /\ at[s] = "data" /\ down[s] = <<>>
     /\ Metrics(s) /\ Len(up[s]) = count /\ count < Chunks
  \/ /\ pc = "data_ack"
     /\ \/ at[s] = "data" /\ Metrics(s) /\ Len(up[s]) = Chunks /\ down[s] = <<>>
        \/ at[s] = "value" /\ Metrics(s) /\ Len(up[s]) = Chunks /\ down[s] = <<<<"ack", 0>>>>
        \/ /\ at[s] = "length" /\ up[s] = <<>>
           /\ Len(down[s]) = 2 /\ down[s][1] = <<"ack", 0>> /\ down[s][2] = <<"answer", run>>
  \/ /\ pc = "response"
     /\ \/ at[s] = "value" /\ Metrics(s) /\ Len(up[s]) = Chunks /\ down[s] = <<>>
        \/ at[s] = "length" /\ up[s] = <<>> /\ down[s] = <<<<"answer", run>>>>

Talking(s) == cur = s /\ pc \in Talk

Agree(s) == conn[s] = "open" => IF Talking(s) THEN Exchange(s) ELSE Quiet(s)
Streams == \A s \in Signals : Agree(s)

\* What a dead process has left on the socket is of this run as well.
Fresh ==
  pc \in {"data_ack", "response"} =>
    \A i \in 1..Len(down[cur]) : down[cur][i][1] = "answer" => down[cur][i][2] = run

Attempts ==
  /\ pc \in {"metrics", "length"} \cup Talk => attempt # 0
  /\ Asked => result = NoResult

\* A process that waits for the autoscaler: it listens, or it is going to.
Waits(s) == at[s] = "listen" \/ (at[s] = "start" /\ Version(s) \in fetched)

\* A process that the bootstrap has seen running waits until the autoscaler
\* connects to it, unless it has died.
Ready ==
  /\ \A s \in Signals :
       /\ proc[s] = "STARTING" => at[s] # "down"
       /\ proc[s] = "UNEXPECTED" => at[s] = "down"
       /\ mishaps = {} /\ proc[s] = "RUNNING" => at[s] \in Live \/ Waits(s)
  /\ boot = "starting" /\ mishaps = {} =>
       \A s \in DOMAIN polled : s \in signal_names /\ polled[s] = "RUNNING" => Waits(s)
  /\ boot = "polling" /\ mishaps = {} /\ pc = "connect" /\ attempt = 0 =>
       \A s \in signal_names : s = cur \/ cur = "default" => Waits(s)
  /\ pc = "connect" /\ attempt = 0 /\ cur = "app" => config["app"] = "external"

\* NoSilentFallback, through later connections too.
NoFallback ==
  /\ using = "default" /\ config["app"] # "none" /\ pc # "off"
  /\ ~(pc = "connect" /\ attempt = 0)
  => mishaps # {}

IInv == Types /\ Sockets /\ Streams /\ Fresh /\ Attempts /\ Ready /\ NoFallback

-----------------------------------------------------------------------------
(* Type correctness.                                                        *)

\* The signals.
LEMMA SignalFacts ==
  /\ "default" \in Signals /\ "app" \in Signals
  /\ \A s \in Signals : s # "default" => s = "app"
  /\ signal_names \subseteq Signals
  BY DEF Signals, signal_names

\* The messages that are sent, and the streams they make.
LEMMA MsgFacts ==
  ASSUME Types
  PROVE  /\ <<"parameters", 0>> \in Msg /\ <<"ack", 0>> \in Msg /\ <<"traceback", 0>> \in Msg
         /\ <<"length", run>> \in Msg /\ <<"data", run>> \in Msg
         /\ \A m \in Msg : <<"answer", m[2]>> \in Msg /\ m[2] \in 0..Runs
         /\ run \in Nat /\ Runs \in Nat /\ 0 \in 0..Runs /\ run \in 0..Runs
  BY ConstantsAssumption DEF Types, ClientTypes, Msg

\* The constants of the types.
LEMMA StepFacts ==
  /\ {"off", "connect", "idle", "metrics", "length", "length_ack", "chunks", "data_ack",
      "response"} \subseteq Steps
  /\ {"load", "length", "data", "value"} = Live
  /\ {"supervisord", "fetching", "starting", "polling", "shutdown"} = BootSteps
  BY DEF Steps, Talk, Live, BootSteps

\* The initial states have the types.
LEMMA InitTypes == Init => Types
  <1> SUFFICES ASSUME Init PROVE Types
    OBVIOUS
  <1>1. config \in ConfigType
    BY DEF Init, ConfigType
  <1>2. up \in [Signals -> Seq(Msg)] /\ down \in [Signals -> Seq(Msg)]
    BY DEF Init, AllSignals
  <1>3. ServerTypes
    BY <1>1, <1>2, StepFacts DEF Init, ServerTypes, AllSignals
  <1>4. ClientTypes
    BY SignalFacts, StepFacts, ConstantsAssumption DEF Init, ClientTypes, NoResult
  <1>5. QED
    BY <1>3, <1>4 DEF Types

\* The bootstrap keeps the types.
LEMMA BootstrapTypes ==
  ASSUME Types, Bootstrap \/ ConfigChanged
  PROVE  Types'
  <1> USE StepFacts DEF Types, ServerTypes, ClientTypes
  <1>1. CASE StartSupervisord
    BY <1>1 DEF StartSupervisord, process, client
  <1>2. CASE PollFetch
    BY <1>2 DEF PollFetch, process, client
  <1>3. CASE startProcessGroup
    BY <1>3 DEF startProcessGroup, client
  <1>4. CASE PollSignals
    BY <1>4 DEF PollSignals, process, client
  <1>5. CASE startProcess
    BY <1>5, SignalFacts DEF startProcess, process
  <1>6. CASE shutdown
    BY <1>6 DEF shutdown, AllSignals
  <1>7. CASE BootstrapRestarted
    BY <1>7 DEF BootstrapRestarted, process, client
  <1>8. QED
    BY <1>1, <1>2, <1>3, <1>4, <1>5, <1>6, <1>7
    DEF Bootstrap, ConfigChanged, Abort, AutoscalerEnded

\* A process that ends keeps the types.
LEMMA EndsTypes ==
  ASSUME Types, NEW s \in Signals, NEW msgs \in Seq(Msg), Ends(s, msgs), mishaps' \subseteq {"died", "slow"}
  PROVE  Types'
  <1> USE DEF Types, ServerTypes, ClientTypes
  <1>1. down' \in [Signals -> Seq(Msg)]
    BY DEF Ends
  <1>2. up' \in [Signals -> Seq(Msg)]
    BY DEF Ends
  <1>3. QED
    BY <1>1, <1>2 DEF Ends, client

\* The steps of a signal process keep the types.
LEMMA ProcessTypes ==
  ASSUME Types, Sockets, Streams, NEW s \in Signals, Process(s) \/ Crash(s) \/ Raises(s)
  PROVE  Types'
  <1> USE StepFacts DEF Types, ServerTypes, ClientTypes
  <1>0. <<>> \in Seq(Msg) /\ <<<<"traceback", 0>>>> \in Seq(Msg)
    <2>1. <<"traceback", 0>> \in Msg
      BY MsgFacts
    <2>2. QED
      BY <2>1
  <1>1. CASE FetchEnds(s)
    BY <1>1 DEF FetchEnds, process, client
  <1>2. CASE SurvivesStartsecs(s)
    BY <1>2 DEF SurvivesStartsecs, process, client
  <1>3. CASE Listen(s)
    BY <1>3 DEF Listen, supervisor, client
  <1>4. CASE NotFetched(s)
    BY <1>0, <1>4, EndsTypes DEF NotFetched
  <1>5. CASE Crash(s)
    BY <1>0, <1>5, EndsTypes DEF Crash
  <1>6. CASE Raises(s)
    BY <1>0, <1>6, EndsTypes DEF Raises
  <1>7. CASE Restart(s)
    BY <1>7 DEF Restart, client
  <1>8. CASE load_signal(s)
    <2>1. CASE Ends(s, <<>>) /\ mishaps' = mishaps \cup {"died"}
      BY <1>0, <2>1, EndsTypes
    <2>2. CASE /\ at' = [at EXCEPT ![s] = "length"] /\ up' = [up EXCEPT ![s] = <<>>]
               /\ UNCHANGED <<config, prompt, supervisor, down, conn, client, mishaps>>
      BY <2>2 DEF supervisor, client
    <2>3. QED
      BY <1>8, <2>1, <2>2 DEF load_signal
  <1>9. ASSUME NEW msg \in Msg, NEW next \in Live, Sends(s, msg, next),
               up' \in [Signals -> Seq(Msg)]
        PROVE  Types'
    <2>1. /\ down' \in [Signals -> Seq(Msg)]
          /\ at' \in [Signals -> {"down", "start", "listen"} \cup Live]
      BY <1>9 DEF Sends
    <2>2. QED
      BY <1>9, <2>1 DEF Sends, supervisor, client
  <1>10. <<"ack", 0>> \in Msg /\ [up EXCEPT ![s] = <<>>] \in [Signals -> Seq(Msg)]
    BY MsgFacts
  <1>11. CASE ReadLength(s)
    BY <1>9, <1>10, <1>11 DEF ReadLength
  <1>12. CASE ReadData(s)
    <2>1. up' \in [Signals -> Seq(Msg)]
      BY <1>12 DEF ReadData
    <2>2. QED
      BY <1>9, <1>10, <1>12, <2>1 DEF ReadData
  <1>13. CASE Value(s)
    <2>1. conn[s] = "open"
      BY <1>13 DEF Sockets, Value
    <2>2. up[s] \in Seq(Msg) /\ up[s] # <<>>
      BY <1>13, <2>1, ConstantsAssumption DEF Streams, Agree, Exchange, Quiet, Value
    <2>3. <<"answer", Head(up[s])[2]>> \in Msg
      BY <2>2, MsgFacts
    <2>4. QED
      BY <1>9, <1>10, <1>13, <2>3 DEF Value
  <1>14. QED
    BY <1>1, <1>2, <1>3, <1>4, <1>5, <1>6, <1>7, <1>8, <1>11, <1>12, <1>13 DEF Process

\* The steps of an evaluation keep the types of the client.
LEMMA ClientStepTypes ==
  ASSUME ClientTypes
  PROVE  /\ \A next \in Steps : Step(next) /\ count' \in Nat => ClientTypes'
         /\ Fail => ClientTypes'
         /\ \A r \in 0..Runs : Answer(r) => ClientTypes'
         /\ Load /\ UNCHANGED <<attempt, retry, run, result>> => ClientTypes'
  <1> USE StepFacts, SignalFacts DEF ClientTypes
  <1>1. \A next \in Steps : Step(next) /\ count' \in Nat => ClientTypes'
    BY DEF Step
  <1>2. Fail => ClientTypes'
    <2>1. CASE attempt = 1
      BY <2>1 DEF Fail
    <2>2. CASE attempt # 1
      BY <2>2 DEF Fail
    <2>3. QED
      BY <2>1, <2>2
  <1>3. \A r \in 0..Runs : Answer(r) => ClientTypes'
    BY DEF Answer
  <1>4. Load /\ UNCHANGED <<attempt, retry, run, result>> => ClientTypes'
    BY DEF Load
  <1>5. QED
    BY <1>1, <1>2, <1>3, <1>4

\* The streams of the socket in use stay streams of messages.
LEMMA SocketTypes ==
  ASSUME Types
  PROVE  /\ \A m \in Msg :
              up' = [up EXCEPT ![cur] = Append(@, m)] => up' \in [Signals -> Seq(Msg)]
         /\ Recv => down' \in [Signals -> Seq(Msg)]
  <1> USE DEF Types, ServerTypes, ClientTypes
  <1>1. ASSUME NEW m \in Msg, up' = [up EXCEPT ![cur] = Append(@, m)]
        PROVE  up' \in [Signals -> Seq(Msg)]
    <2>1. Append(up[cur], m) \in Seq(Msg)
      OBVIOUS
    <2>2. QED
      BY <1>1, <2>1
  <1>2. Recv => down' \in [Signals -> Seq(Msg)]
    <2>1. <<>> \in Seq(Msg)
      OBVIOUS
    <2>2. QED
      BY <2>1 DEF Recv
  <1>3. QED
    BY <1>1, <1>2

\* The steps of the autoscaler keep the types.
LEMMA AutoscalerTypes ==
  ASSUME Types, Autoscaler
  PROVE  Types'
  <1>0. /\ ServerTypes /\ ClientTypes /\ cur \in Signals /\ run \in 0..Runs
        /\ down[cur] \in Seq(Msg)
    BY ConstantsAssumption DEF Types, ServerTypes, ClientTypes
  <1>a. ASSUME UNCHANGED <<config, boot, proc, at, conn>>, mishaps' \subseteq {"died", "slow"},
                up' \in [Signals -> Seq(Msg)], down' \in [Signals -> Seq(Msg)]
         PROVE  ServerTypes'
    BY <1>0, <1>a DEF ServerTypes
  <1>b. /\ up \in [Signals -> Seq(Msg)] /\ down \in [Signals -> Seq(Msg)]
        /\ mishaps \subseteq {"died", "slow"}
    BY <1>0 DEF ServerTypes
  <1>1. CASE LoadInternal
    BY <1>0, <1>a, <1>b, <1>1, ClientStepTypes DEF LoadInternal, supervisor, process, Types
  <1>2. CASE Connect
    <2>1. up' \in [Signals -> Seq(Msg)] /\ down' \in [Signals -> Seq(Msg)]
      <3>1. <<"parameters", 0>> \in Msg
        BY MsgFacts
      <3>2. <<<<"parameters", 0>>>> \in Seq(Msg) /\ <<>> \in Seq(Msg)
        BY <3>1
      <3>3. QED
        BY <1>b, <1>2, <3>2 DEF Connect, _connect_to_signal_process
    <2>2. ServerTypes'
      BY <1>0, <1>2, <2>1, StepFacts DEF Connect, _connect_to_signal_process, ServerTypes, supervisor
    <2>3. ClientTypes'
      <3>1. CASE Load /\ UNCHANGED retry
        BY <1>0, <1>2, <3>1, ClientStepTypes DEF Connect
      <3>2. CASE pc' = "metrics" /\ retry' = FALSE /\ count' = 0 /\ UNCHANGED <<cur, using>>
        BY <1>0, <1>2, <3>2, StepFacts DEF Connect, ClientTypes
      <3>3. QED
        BY <1>2, <3>1, <3>2 DEF Connect
    <2>4. QED
      BY <2>2, <2>3 DEF Types
  <1>3. CASE Refused
    <2>1. ServerTypes'
      BY <1>a, <1>b, <1>3 DEF Refused, process
    <2>2. ClientTypes'
      <3>1. CASE Fail
        BY <1>0, <3>1, ClientStepTypes
      <3>2. CASE ~Fail
        BY <1>0, <1>3, <3>2, SignalFacts, StepFacts DEF Refused, ClientTypes
      <3>3. QED
        BY <3>1, <3>2
    <2>3. QED
      BY <2>1, <2>2 DEF Types
  <1>4. CASE StartRun
    <2>1. run' \in 0..(Runs - 1)
      BY <1>0, <1>4, ConstantsAssumption DEF StartRun, ClientTypes
    <2>2. ClientTypes'
      BY <1>0, <1>4, <2>1, StepFacts, ConstantsAssumption DEF StartRun, ClientTypes, NoResult
    <2>3. QED
      BY <1>a, <1>b, <1>4, <2>2 DEF StartRun, supervisor, process, Types
  <1>5. CASE GetMetrics
    <2>1. ServerTypes'
      BY <1>a, <1>b, <1>5 DEF GetMetrics, supervisor, process
    <2>2. ClientTypes'
      BY <1>0, <1>5, ClientStepTypes, StepFacts DEF GetMetrics, ClientTypes
    <2>3. QED
      BY <2>1, <2>2 DEF Types
  <1>6. BrokenPipe => ClientTypes'
    BY <1>0, ClientStepTypes, StepFacts DEF BrokenPipe
  <1>7. CASE SendLength
    <2>1. <<"length", run>> \in Msg
      BY MsgFacts
    <2>2. up' \in [Signals -> Seq(Msg)]
      BY <1>b, <1>7, <2>1, SocketTypes DEF SendLength
    <2>3. ServerTypes'
      BY <1>a, <1>b, <1>7, <2>2 DEF SendLength, supervisor
    <2>4. ClientTypes'
      BY <1>0, <1>6, <1>7, ClientStepTypes, StepFacts DEF SendLength, ClientTypes
    <2>5. QED
      BY <2>3, <2>4 DEF Types
  <1>8. CASE RecvLengthAck
    <2>1. ServerTypes'
      BY <1>a, <1>b, <1>8, SocketTypes DEF RecvLengthAck, supervisor
    <2>2. ClientTypes'
      BY <1>0, <1>8, ClientStepTypes, StepFacts DEF RecvLengthAck
    <2>3. QED
      BY <2>1, <2>2 DEF Types
  <1>9. CASE SendChunk
    <2>1. <<"data", run>> \in Msg
      BY MsgFacts
    <2>2. up' \in [Signals -> Seq(Msg)]
      BY <1>b, <1>9, <2>1, SocketTypes DEF SendChunk
    <2>3. ServerTypes'
      BY <1>a, <1>b, <1>9, <2>2 DEF SendChunk, supervisor
    <2>4. count \in Nat
      BY <1>0 DEF ClientTypes
    <2>5. ClientTypes'
      BY <1>0, <1>6, <1>9, <2>4, ClientStepTypes, StepFacts DEF SendChunk
    <2>6. QED
      BY <2>3, <2>5 DEF Types
  <1>10. ASSUME NEW response \in Seq(Msg), Decode(response)
         PROVE  ClientTypes'
    <2>1. CASE Fail
      BY <1>0, <2>1, ClientStepTypes
    <2>2. CASE Len(response) = 1 /\ Answer(response[1][2])
      <3>1. response[1] \in Msg
        BY <1>10, <2>2
      <3>2. response[1][2] \in 0..Runs
        BY <3>1, MsgFacts
      <3>3. QED
        BY <1>0, <2>2, <3>2, ClientStepTypes
    <2>3. QED
      BY <1>10, <2>1, <2>2 DEF Decode
  <1>11. CASE RecvDataAck
    <2>1. ServerTypes'
      BY <1>a, <1>b, <1>11, SocketTypes DEF RecvDataAck, supervisor
    <2>2. down[cur] # <<>> => Tail(down[cur]) \in Seq(Msg)
      BY <1>0
    <2>3. ClientTypes'
      <3>1. CASE Fail
        BY <1>0, <3>1, ClientStepTypes
      <3>2. CASE Step("response") /\ count' = 0
        BY <1>0, <3>2, ClientStepTypes, StepFacts
      <3>3. CASE down[cur] # <<>> /\ Decode(Tail(down[cur]))
        BY <1>10, <2>2, <3>3
      <3>4. QED
        BY <1>11, <3>1, <3>2, <3>3 DEF RecvDataAck, AckAndResponse
    <2>4. QED
      BY <2>1, <2>3 DEF Types
  <1>12. CASE RecvResponse
    <2>1. ServerTypes'
      BY <1>a, <1>b, <1>12, SocketTypes DEF RecvResponse, supervisor
    <2>2. QED
      BY <1>0, <1>10, <1>12, <2>1 DEF RecvResponse, Types
  <1>13. QED
    BY <1>1, <1>2, <1>3, <1>4, <1>5, <1>7, <1>8, <1>9, <1>11, <1>12 DEF Autoscaler

-----------------------------------------------------------------------------
(* The bootstrap.                                                           *)

\* The invariant holds before the bootstrap has run.
LEMMA InitSafe == Init => IInv
  <1> SUFFICES ASSUME Init PROVE IInv
    OBVIOUS
  <1>1. Types
    BY InitTypes
  <1>2. /\ proc = AllSignals("STOPPED") /\ at = AllSignals("down") /\ conn = AllSignals("none")
        /\ boot = "supervisord" /\ pc = "off" /\ attempt = 0 /\ polled = <<>>
    BY DEF Init
  <1>3. Sockets /\ Streams /\ Fresh /\ Attempts /\ NoFallback
    BY <1>2 DEF Sockets, Streams, Agree, Fresh, Attempts, Asked, NoFallback, AllSignals, Live, Talk
  <1>4. Ready
    BY <1>2 DEF Ready, Waits, Version, AllSignals
  <1>5. QED
    BY <1>1, <1>3, <1>4 DEF IInv

\* When the autoscaler does not run and there are no sockets, most of the
\* invariant holds of itself.
LEMMA OffSafe ==
  ASSUME pc' = "off", \A s \in Signals : conn'[s] = "none" /\ at'[s] \notin Live
  PROVE  Streams' /\ Fresh' /\ Attempts' /\ NoFallback'
  BY DEF Streams, Agree, Fresh, Attempts, Asked, NoFallback, Talk

\* The bootstrap starts the autoscaler only when all signals listen or will.
LEMMA BootstrapSafe ==
  ASSUME IInv, Bootstrap \/ ConfigChanged
  PROVE  IInv'
  <1> USE DEF IInv
  <1>0. Types' /\ proc \in [Signals -> {"STOPPED", "STARTING", "RUNNING", "FATAL", "UNEXPECTED"}]
    BY BootstrapTypes DEF Types, ServerTypes
  <1>1. CASE shutdown
    <2>1. /\ pc' = "off" /\ boot' = "shutdown" /\ polled' = <<>>
          /\ \A s \in Signals : conn'[s] = "none" /\ at'[s] = "down" /\ proc'[s] = "STOPPED"
      BY <1>1 DEF shutdown, AllSignals
    <2>2. \A s \in Signals : at'[s] \notin Live
      BY <2>1 DEF Live
    <2>3. Streams' /\ Fresh' /\ Attempts' /\ NoFallback'
      BY <2>1, <2>2, OffSafe
    <2>4. Sockets' /\ Ready'
      BY <2>1, <2>2 DEF Sockets, Ready, Waits, Version
    <2>5. QED
      BY <1>0, <2>3, <2>4
  <1>2. ASSUME boot # "polling", boot' # "polling", pc' = pc, UNCHANGED conn,
               \A s \in Signals : at'[s] \notin Live,
               boot' \notin {"starting", "polling"} =>
                 \A s \in Signals : at'[s] = "down" /\ proc'[s] = "STOPPED",
               Ready'
        PROVE  IInv'
    <2>1. pc' = "off" /\ \A s \in Signals : conn'[s] = "none" /\ at'[s] \notin Live
      BY <1>2 DEF Sockets
    <2>2. Streams' /\ Fresh' /\ Attempts' /\ NoFallback'
      BY <2>1, OffSafe
    <2>3. Sockets'
      BY <1>2, <2>1 DEF Sockets
    <2>4. QED
      BY <1>0, <1>2, <2>2, <2>3
  <1>3. boot # "polling" => pc = "off" /\ \A s \in Signals : conn[s] = "none" /\ at[s] \notin Live
    BY DEF Sockets
  <1>4. CASE StartSupervisord
    <2>1. \A s \in Signals : at'[s] = "down" /\ proc'[s] = "STOPPED"
      BY <1>4 DEF StartSupervisord, process, Sockets
    <2>2. Ready'
      BY <1>3, <1>4, <2>1 DEF StartSupervisord, client, Ready, Waits, Version
    <2>3. QED
      BY <1>2, <1>4, <2>1, <2>2 DEF StartSupervisord, process, client, Live
  <1>5. CASE PollFetch
    <2>1. Ready'
      BY <1>5 DEF PollFetch, process, client, Ready, Waits, Version, signal_names
    <2>2. QED
      BY <1>2, <1>3, <1>5, <2>1 DEF PollFetch, process, client, Sockets
  <1>6. CASE startProcessGroup
    <2>1. \A s \in Signals : at[s] = "down" /\ proc[s] = "STOPPED"
      BY <1>6 DEF startProcessGroup, Sockets
    <2>2. \A s \in Signals : /\ at'[s] \in {"down", "start"}
                             /\ proc'[s] = "STARTING" => at'[s] = "start"
                             /\ proc'[s] \in {"STOPPED", "STARTING"}
      BY <1>6, <2>1 DEF startProcessGroup
    <2>3. Ready'
      BY <1>3, <1>6, <2>2 DEF startProcessGroup, client, Ready, Waits, Version
    <2>4. QED
      BY <1>2, <1>6, <2>2, <2>3 DEF startProcessGroup, client, Live
  <1>7. CASE PollSignals
    <2>1. UNCHANGED <<config, boot, fetched, proc, at, conn, pc, attempt, cur, mishaps>> /\ boot = "starting"
      BY <1>7 DEF PollSignals, process, client
    <2>2. \A s \in DOMAIN polled' :
            \/ s \in DOMAIN polled /\ polled'[s] = polled[s]
            \/ s \in signal_names /\ polled'[s] = proc[s]
      <3>1. CASE polled' = <<>>
        BY <3>1
      <3>2. CASE ReadState(signal_names, proc)
        BY <3>2 DEF ReadState
      <3>3. QED
        BY <1>7, <3>1, <3>2 DEF PollSignals, StartOver
    <2>3. \A s \in Signals : at[s] \in {"down", "start", "listen"}
      BY <1>3, <2>1 DEF Types, ServerTypes
    <2>4. mishaps = {} => \A s \in DOMAIN polled' :
            s \in signal_names /\ polled'[s] = "RUNNING" => Waits(s)
      BY <1>3, <2>1, <2>2, <2>3, SignalFacts DEF Ready
    <2>5. Ready'
      BY <1>3, <2>1, <2>4 DEF Ready, Waits, Version, signal_names
    <2>6. QED
      BY <1>2, <1>3, <2>1, <2>5 DEF Sockets
  <1>8. CASE startProcess
    <2>1. /\ boot = "starting" /\ boot' = "polling" /\ pc' = "connect" /\ attempt' = 0
          /\ cur' = "default" /\ using' = "default"
          /\ UNCHANGED <<config, fetched, proc, at, conn, up, down, mishaps>>
      BY <1>8 DEF startProcess, process
    <2>2. mishaps = {} => \A s \in signal_names : Waits(s)
      BY <1>8, <2>1 DEF startProcess, SignalsRunning, Waited, Ready, Waits, Version
    <2>3. Sockets'
      BY <1>3, <2>1 DEF Sockets
    <2>4. Streams' /\ Fresh' /\ Attempts' /\ NoFallback'
      <3>1. Streams'
        BY <1>3, <2>1 DEF Streams, Agree
      <3>2. Fresh' /\ NoFallback'
        BY <2>1 DEF Fresh, NoFallback
      <3>3. Attempts'
        BY <2>1 DEF Attempts, Asked, Talk
      <3>4. QED
        BY <3>1, <3>2, <3>3
    <2>5. Ready'
      BY <2>1, <2>2 DEF Ready, Waits, Version, signal_names
    <2>6. QED
      BY <1>0, <2>3, <2>4, <2>5
  <1>9. CASE BootstrapRestarted
    <2>1. Ready'
      BY <1>3, <1>9 DEF BootstrapRestarted, process, client, Ready, Waits, Version
    <2>2. QED
      BY <1>2, <1>3, <1>9, <2>1 DEF BootstrapRestarted, process, client, Sockets
  <1>10. QED
    BY <1>1, <1>4, <1>5, <1>6, <1>7, <1>8, <1>9
    DEF Bootstrap, ConfigChanged, Abort, AutoscalerEnded

-----------------------------------------------------------------------------
(* The signal process.                                                      *)

\* A process touches neither the autoscaler nor other processes and sockets.
LEMMA ProcessFrame ==
  ASSUME Types, NEW s \in Signals, Process(s) \/ Crash(s) \/ Raises(s)
  PROVE  /\ UNCHANGED <<config, boot, polled, pc, using, cur, attempt, retry, count, run, result>>
         /\ \A t \in Signals : t # s =>
              /\ at'[t] = at[t] /\ up'[t] = up[t] /\ down'[t] = down[t]
              /\ conn'[t] = conn[t] /\ proc'[t] = proc[t]
         /\ mishaps # {} => mishaps' # {}
         /\ fetched \subseteq fetched'
  <1> USE DEF Types, ServerTypes
  <1>1. CASE FetchEnds(s) \/ SurvivesStartsecs(s) \/ Listen(s) \/ Restart(s)
    BY <1>1 DEF FetchEnds, SurvivesStartsecs, Listen, Restart, process, client, supervisor
  <1>2. ASSUME NEW msgs, Ends(s, msgs), mishaps' = mishaps \cup {"died"} \/ UNCHANGED mishaps
        PROVE  /\ UNCHANGED <<config, boot, polled, pc, using, cur, attempt, retry, count, run, result>>
               /\ \A t \in Signals : t # s =>
                    /\ at'[t] = at[t] /\ up'[t] = up[t] /\ down'[t] = down[t]
                    /\ conn'[t] = conn[t] /\ proc'[t] = proc[t]
               /\ mishaps # {} => mishaps' # {}
               /\ fetched \subseteq fetched'
    <2>1. mishaps # {} => mishaps' # {}
      BY <1>2
    <2>2. UNCHANGED <<config, boot, polled, pc, using, cur, attempt, retry, count, run, result>>
      BY <1>2 DEF Ends, client
    <2>3. QED
      BY <1>2, <2>1, <2>2 DEF Ends
  <1>3. CASE NotFetched(s) \/ Crash(s) \/ Raises(s)
    BY <1>2, <1>3 DEF NotFetched, Crash, Raises
  <1>4. CASE load_signal(s)
    <2>1. CASE Ends(s, <<>>) /\ mishaps' = mishaps \cup {"died"}
      BY <1>2, <2>1
    <2>2. CASE /\ at' = [at EXCEPT ![s] = "length"] /\ up' = [up EXCEPT ![s] = <<>>]
               /\ UNCHANGED <<config, prompt, supervisor, down, conn, client, mishaps>>
      BY <2>2 DEF client, supervisor
    <2>3. QED
      BY <1>4, <2>1, <2>2 DEF load_signal
  <1>5. CASE ReadLength(s) \/ ReadData(s) \/ Value(s)
    BY <1>5 DEF ReadLength, ReadData, Value, Sends, client, supervisor
  <1>6. QED
    BY <1>1, <1>3, <1>4, <1>5 DEF Process

\* What a process does to its own socket and its own state: it may end, start
\* over or begin to listen without a socket, or take part in the exchange.
LEMMA ProcessCases ==
  ASSUME Types, NEW s \in Signals, Process(s) \/ Crash(s) \/ Raises(s)
  PROVE  \/ UNCHANGED <<at, up, down, conn, mishaps>> /\
            (UNCHANGED proc \/ (SurvivesStartsecs(s) /\ proc'[s] = "RUNNING"))
         \/ /\ at[s] = "start" /\ at'[s] = "listen"
            /\ UNCHANGED <<up, down, conn, mishaps, proc>>
         \/ /\ proc[s] = "UNEXPECTED" /\ proc'[s] = "STARTING" /\ at'[s] = "start"
            /\ UNCHANGED <<up, down, conn, mishaps>>
         \/ /\ Ends(s, <<>>) \/ Ends(s, <<<<"traceback", 0>>>>)
            /\ at[s] # "down"
            /\ mishaps' = mishaps \cup {"died"} \/ (at[s] = "start" /\ Version(s) \notin fetched /\ UNCHANGED mishaps)
         \/ /\ at[s] \in Live /\ UNCHANGED <<conn, mishaps, proc>>
            /\ \/ at[s] = "load" /\ Len(up[s]) = 1 /\ at'[s] = "length"
                    /\ up'[s] = <<>> /\ UNCHANGED down
               \/ ReadLength(s) \/ ReadData(s) \/ Value(s)
  <1> USE DEF Types, ServerTypes, Live
  <1>1. CASE FetchEnds(s)
    BY <1>1 DEF FetchEnds, process
  <1>2. CASE SurvivesStartsecs(s)
    BY <1>2 DEF SurvivesStartsecs, process
  <1>3. CASE Listen(s)
    BY <1>3 DEF Listen, supervisor
  <1>4. CASE NotFetched(s)
    BY <1>4 DEF NotFetched
  <1>5. CASE Crash(s)
    BY <1>5 DEF Crash
  <1>6. CASE Raises(s)
    BY <1>6 DEF Raises
  <1>7. CASE Restart(s)
    BY <1>7 DEF Restart
  <1>8. CASE load_signal(s)
    BY <1>8 DEF load_signal, supervisor
  <1>9. CASE ReadLength(s) \/ ReadData(s) \/ Value(s)
    BY <1>9 DEF ReadLength, ReadData, Value, Sends, supervisor
  <1>10. QED
    BY <1>1, <1>2, <1>3, <1>4, <1>5, <1>6, <1>7, <1>8, <1>9 DEF Process

\* What the process sends is what the autoscaler waits for.
LEMMA ProcessExchange ==
  ASSUME IInv, NEW s \in Signals, at[s] \in Live,
         UNCHANGED <<pc, cur, run, count>>,
         \/ at[s] = "load" /\ Len(up[s]) = 1 /\ at'[s] = "length" /\ up'[s] = <<>> /\ UNCHANGED down
         \/ ReadLength(s) \/ ReadData(s) \/ Value(s)
  PROVE  /\ at'[s] \in Live
         /\ IF Talking(s) THEN Exchange(s)' ELSE Quiet(s)'
         /\ pc \in {"data_ack", "response"} /\ cur = s =>
              \A i \in 1..Len(down'[s]) : down'[s][i][1] = "answer" => down'[s][i][2] = run
  <1> USE DEF IInv, Types, ServerTypes, Live
  <1>0. conn[s] = "open" /\ (IF Talking(s) THEN Exchange(s) ELSE Quiet(s))
    BY DEF Sockets, Streams, Agree
  <1>1. CASE /\ at[s] = "load" /\ Len(up[s]) = 1 /\ at'[s] = "length"
             /\ up'[s] = <<>> /\ UNCHANGED down
    BY <1>0, <1>1 DEF Quiet, Exchange, Talking, Talk
  <1>2. CASE ReadLength(s)
    <2>1. pc = "length_ack" /\ Talking(s) /\ down[s] = <<>>
      BY <1>0, <1>2 DEF ReadLength, Quiet, Exchange
    <2>2. up'[s] = <<>> /\ at'[s] = "data" /\ down'[s] = <<<<"ack", 0>>>>
      BY <1>2, <2>1 DEF ReadLength, Sends
    <2>3. QED
      BY <2>1, <2>2 DEF Exchange
  <1>3. CASE ReadData(s)
    <2>1. pc = "data_ack" /\ Talking(s) /\ down[s] = <<>> /\ Metrics(s) /\ Len(up[s]) = Chunks
      BY <1>0, <1>3, ConstantsAssumption DEF ReadData, Quiet, Exchange
    <2>2. up'[s] = up[s] /\ at'[s] = "value" /\ down'[s] = <<<<"ack", 0>>>>
      BY <1>3, <2>1 DEF ReadData, Sends
    <2>3. Metrics(s)'
      BY <2>1, <2>2 DEF Metrics
    <2>4. QED
      BY <2>1, <2>2, <2>3 DEF Exchange
  <1>4. CASE Value(s)
    <2>1. /\ pc \in {"data_ack", "response"} /\ Talking(s) /\ Metrics(s) /\ Len(up[s]) = Chunks
          /\ pc = "data_ack" => down[s] = <<<<"ack", 0>>>>
          /\ pc = "response" => down[s] = <<>>
      BY <1>0, <1>4 DEF Value, Quiet, Exchange
    <2>2. Head(up[s])[2] = run
      BY <2>1, ConstantsAssumption DEF Metrics
    <2>3. up'[s] = <<>> /\ at'[s] = "length" /\ down'[s] = Append(down[s], <<"answer", run>>)
      BY <1>4, <2>2 DEF Value, Sends
    <2>4. CASE pc = "data_ack"
      <3>1. /\ Len(down'[s]) = 2 /\ down'[s][1] = <<"ack", 0>>
            /\ down'[s][2] = <<"answer", run>>
        BY <2>1, <2>3, <2>4
      <3>2. QED
        BY <2>1, <2>3, <2>4, <3>1 DEF Exchange
    <2>5. CASE pc = "response"
      <3>1. down'[s] = <<<<"answer", run>>>>
        BY <2>1, <2>3, <2>5
      <3>2. QED
        BY <2>1, <2>3, <2>5, <3>1 DEF Exchange
    <2>6. QED
      BY <2>1, <2>4, <2>5
  <1>5. QED
    BY <1>1, <1>2, <1>3, <1>4

\* The steps of a signal process keep the invariant.
LEMMA ProcessSafe ==
  ASSUME IInv, NEW s \in Signals, Process(s) \/ Crash(s) \/ Raises(s)
  PROVE  IInv'
  <1>0. Types' /\ Types /\ Sockets /\ Streams /\ Fresh /\ Attempts /\ Ready /\ NoFallback
    BY ProcessTypes DEF IInv
  <1>1. /\ UNCHANGED <<config, boot, polled, pc, using, cur, attempt, retry, count, run, result>>
        /\ \A t \in Signals : t # s =>
             /\ at'[t] = at[t] /\ up'[t] = up[t] /\ down'[t] = down[t]
             /\ conn'[t] = conn[t] /\ proc'[t] = proc[t]
        /\ mishaps # {} => mishaps' # {}
        /\ fetched \subseteq fetched'
    BY <1>0, ProcessFrame
  <1>2. Attempts' /\ NoFallback'
    BY <1>0, <1>1 DEF Attempts, Asked, NoFallback
  <1>3. \A t \in Signals : t # s => Agree(t)'
    BY <1>0, <1>1 DEF Streams, Agree, Talking, Exchange, Quiet, Metrics
  <1>4. cur # s => Fresh'
    BY <1>0, <1>1 DEF Fresh, Types, ClientTypes
  <1>5. \A t \in Signals : at[t] \in {"down", "start", "listen"} \cup Live
    BY <1>0 DEF Types, ServerTypes
  <1>6. \A t \in Signals : conn[t] = "open" <=> at[t] \in Live
    BY <1>0 DEF Sockets
  <1>7. CASE /\ UNCHANGED <<at, up, down, conn, mishaps>>
             /\ UNCHANGED proc \/ (SurvivesStartsecs(s) /\ proc'[s] = "RUNNING")
    <2>1. Sockets'
      BY <1>0, <1>1, <1>7 DEF Sockets, SurvivesStartsecs
    <2>2. Streams' /\ Fresh'
      BY <1>0, <1>1, <1>7 DEF Streams, Agree, Talking, Exchange, Quiet, Metrics, Fresh
    <2>3. Ready'
      <3>1. \A t \in Signals : Waits(t) => Waits(t)'
        BY <1>1, <1>7 DEF Waits, Version
      <3>2. SurvivesStartsecs(s) => at[s] \in Live \/ Waits(s)
        BY <1>0, <1>5 DEF SurvivesStartsecs, Waits, Ready
      <3>3. QED
        BY <1>0, <1>1, <1>7, <3>1, <3>2, SignalFacts DEF Ready, signal_names
    <2>4. QED
      BY <1>0, <1>2, <2>1, <2>2, <2>3 DEF IInv
  <1>8. CASE \/ /\ at[s] = "start" /\ at'[s] = "listen"
                /\ UNCHANGED <<up, down, conn, mishaps, proc>>
             \/ /\ proc[s] = "UNEXPECTED" /\ proc'[s] = "STARTING" /\ at'[s] = "start"
                /\ UNCHANGED <<up, down, conn, mishaps>>
    <2>1. at[s] \notin Live /\ at'[s] \notin Live /\ at'[s] \in {"start", "listen"}
      BY <1>0, <1>8 DEF Ready, Waits, Version, Live
    <2>2. boot \in {"starting", "polling"}
      BY <1>0, <1>8 DEF Sockets, Types, ServerTypes, BootSteps
    <2>3. Sockets'
      BY <1>0, <1>1, <1>8, <2>1, <2>2 DEF Sockets
    <2>4. Agree(s)'
      BY <1>6, <1>8, <2>1 DEF Agree
    <2>5. Streams' /\ Fresh'
      BY <1>0, <1>1, <1>3, <1>8, <2>4 DEF Streams, Fresh
    <2>6. Ready'
      BY <1>0, <1>1, <1>8, <2>1 DEF Ready, Waits, Version, signal_names
    <2>7. QED
      BY <1>0, <1>2, <2>3, <2>5, <2>6 DEF IInv
  <1>9. CASE /\ Ends(s, <<>>) \/ Ends(s, <<<<"traceback", 0>>>>)
             /\ at[s] # "down"
             /\ mishaps' = mishaps \cup {"died"} \/ (at[s] = "start" /\ Version(s) \notin fetched /\ UNCHANGED mishaps)
    <2>1. /\ at'[s] = "down" /\ conn'[s] # "open"
          /\ conn[s] = "none" => conn'[s] = "none"
          /\ proc'[s] \in {"FATAL", "UNEXPECTED"}
          /\ \/ down'[s] = down[s] \o <<>>
             \/ down'[s] = down[s] \o <<<<"traceback", 0>>>>
      BY <1>0, <1>6, <1>9 DEF Ends, Types, ServerTypes, Live
    <2>2. Sockets'
      BY <1>0, <1>1, <2>1, <1>9 DEF Sockets, Live
    <2>3. Streams'
      BY <1>3, <2>1 DEF Streams, Agree
    <2>4. Fresh'
      <3>1. SUFFICES ASSUME cur = s, pc \in {"data_ack", "response"}, NEW i \in 1..Len(down'[s]),
                            down'[s][i][1] = "answer"
                     PROVE  down'[s][i][2] = run
        BY <1>1, <1>4 DEF Fresh
      <3>2. down[s] \in Seq(Msg)
        BY <1>0 DEF Types, ServerTypes
      <3>3. i \in 1..Len(down[s]) /\ down'[s][i] = down[s][i]
        <4>1. CASE down'[s] = down[s] \o <<>>
          BY <3>1, <3>2, <4>1
        <4>2. CASE down'[s] = down[s] \o <<<<"traceback", 0>>>>
          <5>1. Len(down'[s]) = Len(down[s]) + 1
            BY <3>2, <4>2
          <5>2. down'[s][Len(down[s]) + 1] = <<"traceback", 0>>
            BY <3>2, <4>2
          <5>3. i # Len(down[s]) + 1
            BY <3>1, <5>2
          <5>4. i \in 1..Len(down[s])
            BY <3>1, <3>2, <5>1, <5>3
          <5>5. QED
            BY <3>2, <4>2, <5>4
        <4>3. QED
          BY <2>1, <4>1, <4>2
      <3>4. QED
        BY <1>0, <3>1, <3>3 DEF Fresh
    <2>5. Ready'
      BY <1>0, <1>1, <1>9, <2>1, SignalFacts DEF Ready, Waits, Version, signal_names
    <2>6. QED
      BY <1>0, <1>2, <2>2, <2>3, <2>4, <2>5 DEF IInv
  <1>10. CASE /\ at[s] \in Live /\ UNCHANGED <<conn, mishaps, proc>>
              /\ \/ /\ at[s] = "load" /\ Len(up[s]) = 1 /\ at'[s] = "length"
                    /\ up'[s] = <<>> /\ UNCHANGED down
                 \/ ReadLength(s) \/ ReadData(s) \/ Value(s)
    <2>1. /\ at'[s] \in Live
          /\ IF Talking(s) THEN Exchange(s)' ELSE Quiet(s)'
          /\ pc \in {"data_ack", "response"} /\ cur = s =>
               \A i \in 1..Len(down'[s]) : down'[s][i][1] = "answer" => down'[s][i][2] = run
      BY <1>1, <1>10, ProcessExchange
    <2>2. Sockets'
      BY <1>0, <1>1, <1>6, <1>10, <2>1 DEF Sockets
    <2>3. Streams'
      BY <1>1, <1>3, <2>1 DEF Streams, Agree, Talking
    <2>4. Fresh'
      BY <1>1, <1>4, <2>1 DEF Fresh
    <2>5. Ready'
      BY <1>0, <1>1, <1>10, <2>1, SignalFacts DEF Ready, Waits, Version, signal_names, Live
    <2>6. QED
      BY <1>0, <1>2, <2>2, <2>3, <2>4, <2>5 DEF IInv
  <1>11. QED
    BY <1>0, <1>7, <1>8, <1>9, <1>10, ProcessCases

-----------------------------------------------------------------------------
(* The autoscaler.                                                          *)

\* A step of a run after which the autoscaler is not talking to a signal keeps
\* the invariant if it leaves the open sockets quiet.
LEMMA RunSafe ==
  ASSUME IInv, Types', pc \notin {"off", "idle"}, attempt # 0, attempt' # 0,
         pc' \in {"connect", "idle", "metrics", "length"},
         UNCHANGED <<config, boot, fetched, polled, proc, at, conn, mishaps, using, run>>,
         pc' # "idle" => result' = result,
         \A t \in Signals : conn[t] = "open" => Quiet(t)'
  PROVE  IInv'
  <1> USE DEF IInv
  <1>1. Sockets'
    BY DEF Sockets
  <1>2. Streams' /\ Fresh'
    BY DEF Streams, Agree, Talking, Talk, Fresh
  <1>3. Attempts'
    BY DEF Attempts, Asked, Talk
  <1>4. Ready' /\ NoFallback'
    BY DEF Ready, Waits, Version, NoFallback, signal_names
  <1>5. QED
    BY <1>1, <1>2, <1>3, <1>4

\* As long as the autoscaler is not talking, all open sockets are quiet, and
\* those it is not talking to are quiet anyway.
LEMMA QuietSockets ==
  ASSUME IInv
  PROVE  \A t \in Signals : conn[t] = "open" /\ ~Talking(t) => Quiet(t)
  BY DEF IInv, Streams, Agree

\* A step of the autoscaler while it talks to a signal keeps the invariant if
\* it keeps that signal's socket.
LEMMA TalkSafe ==
  ASSUME IInv, Types', pc \in {"length"} \cup Talk, pc' \in Talk,
         UNCHANGED <<config, boot, fetched, polled, proc, at, conn, mishaps, using, cur, attempt, run, result>>,
         \A t \in Signals : t # cur => up'[t] = up[t] /\ down'[t] = down[t],
         conn[cur] = "open" => Exchange(cur)',
         pc' \in {"data_ack", "response"} => down'[cur] = <<>>
  PROVE  IInv'
  <1>1. /\ Sockets /\ Streams /\ Fresh /\ Attempts /\ Ready /\ NoFallback
        /\ attempt # 0 /\ pc \notin {"off", "idle"} /\ pc' \notin {"off", "idle", "connect"}
    BY DEF IInv, Attempts, Talk
  <1>2. Sockets'
    BY <1>1 DEF Sockets
  <1>3. ASSUME NEW t \in Signals
        PROVE  Agree(t)'
    <2>1. CASE t = cur
      BY <2>1 DEF Agree, Talking
    <2>2. CASE t # cur
      BY <1>1, <2>2 DEF Streams, Agree, Talking, Quiet
    <2>3. QED
      BY <2>1, <2>2
  <1>4. Fresh'
    BY DEF Fresh
  <1>5. Attempts'
    BY <1>1 DEF Attempts, Asked
  <1>6. Ready' /\ NoFallback'
    BY <1>1 DEF Ready, Waits, Version, NoFallback, signal_names
  <1>7. QED
    BY <1>2, <1>3, <1>4, <1>5, <1>6 DEF IInv, Streams

\* Connections: the sockets of a new connection are quiet, and no signal that
\* has been seen running is found not to listen.
LEMMA ConnectSafe ==
  ASSUME IInv, LoadInternal \/ Connect \/ Refused
  PROVE  IInv'
  <1>0. /\ Types /\ Sockets /\ Streams /\ Fresh /\ Attempts /\ Ready /\ NoFallback /\ Types'
        /\ pc = "connect" /\ boot = "polling" /\ cur \in Signals
    BY AutoscalerTypes DEF IInv, Autoscaler, Sockets, LoadInternal, Connect, Refused, Types, ClientTypes
  <1>1. \A t \in Signals : conn[t] = "open" => Quiet(t)
    BY <1>0, QuietSockets DEF Talking, Talk
  <1>2. mishaps = {} /\ attempt = 0 => \A s \in signal_names : s = cur \/ cur = "default" => Waits(s)
    BY <1>0 DEF Ready, Waits, Version
  <1>3. Load => \/ /\ cur = "default" /\ config["app"] = "external"
                   /\ cur' = "app" /\ pc' = "connect" /\ UNCHANGED using
                \/ pc' = "idle" /\ using' = IF config["app"] = "none" THEN "default" ELSE "app"
    BY DEF Load
  <1>4. ASSUME Load, attempt = 0, UNCHANGED <<config, boot, fetched, polled, proc, mishaps, attempt>>,
               \A t \in Signals : t # cur => at'[t] = at[t],
               proc[cur] # "UNEXPECTED" \/ at'[cur] = at[cur],
               at'[cur] = at[cur] \/ at'[cur] = "load"
        PROVE  Ready' /\ NoFallback' /\ Attempts' /\ Fresh' /\ pc' \in {"connect", "idle"}
    <2>1. Ready'
      <3>1. \A t \in Signals : /\ proc'[t] = "STARTING" => at'[t] # "down"
                               /\ proc'[t] = "UNEXPECTED" => at'[t] = "down"
                               /\ mishaps' = {} /\ proc'[t] = "RUNNING" => at'[t] \in Live \/ Waits(t)'
        BY <1>0, <1>4 DEF Ready, Waits, Version, Live
      <3>2. pc' = "connect" => cur' = "app" /\ config["app"] = "external" /\ cur = "default"
        BY <1>3, <1>4
      <3>3. pc' = "connect" /\ mishaps = {} => Waits("app")'
        BY <1>2, <1>4, <3>2, SignalFacts DEF signal_names, Waits, Version
      <3>4. QED
        BY <1>0, <1>4, <3>1, <3>2, <3>3 DEF Ready, Waits, Version
    <2>2. NoFallback'
      BY <1>3, <1>4 DEF NoFallback
    <2>3. Attempts' /\ Fresh' /\ pc' \in {"connect", "idle"}
      BY <1>3, <1>4 DEF Attempts, Asked, Fresh, Talk
    <2>4. QED
      BY <2>1, <2>2, <2>3
  <1>5. CASE LoadInternal
    <2>1. UNCHANGED <<config, boot, fetched, polled, proc, at, up, down, conn, mishaps, attempt>> /\ Load /\ attempt = 0
      BY <1>5 DEF LoadInternal, supervisor, process
    <2>2. Ready' /\ NoFallback' /\ Attempts' /\ Fresh' /\ pc' \in {"connect", "idle"}
      BY <1>4, <2>1
    <2>3. Sockets'
      BY <1>0, <2>1 DEF Sockets
    <2>4. Streams'
      BY <1>1, <2>1, <2>2 DEF Streams, Agree, Talking, Talk, Quiet
    <2>5. QED
      BY <1>0, <2>2, <2>3, <2>4 DEF IInv
  <1>6. CASE Connect
    <2>1. /\ UNCHANGED <<config, boot, fetched, polled, proc, mishaps, attempt>> /\ at[cur] = "listen"
          /\ at'[cur] = "load" /\ conn'[cur] = "open" /\ down'[cur] = <<>>
          /\ up'[cur] = <<<<"parameters", 0>>>>
          /\ \A t \in Signals : t # cur =>
               at'[t] = at[t] /\ conn'[t] = conn[t] /\ up'[t] = up[t] /\ down'[t] = down[t]
      BY <1>0, <1>6 DEF Connect, _connect_to_signal_process, supervisor, Types, ServerTypes
    <2>2. Sockets'
      BY <1>0, <2>1 DEF Sockets, Live
    <2>3. proc[cur] # "UNEXPECTED"
      BY <1>0, <2>1 DEF Ready, Waits, Version
    <2>4. \A t \in Signals : conn'[t] = "open" => Quiet(t)'
      BY <1>1, <2>1 DEF Quiet
    <2>5. Ready' /\ NoFallback' /\ Attempts' /\ Fresh' /\ pc' \in {"connect", "idle", "metrics"}
      <3>1. CASE attempt = 0 /\ Load
        BY <1>4, <2>1, <2>3, <3>1
      <3>2. CASE attempt # 0 /\ pc' = "metrics"
        <4>1. UNCHANGED <<using, result>>
          BY <1>6, <3>2 DEF Connect
        <4>2. Attempts' /\ NoFallback'
          BY <1>0, <2>1, <3>2, <4>1 DEF Attempts, Asked, NoFallback
        <4>3. Ready' /\ Fresh'
          BY <1>0, <2>1, <2>3, <3>2 DEF Ready, Waits, Version, Fresh, Live
        <4>4. QED
          BY <3>2, <4>2, <4>3
      <3>3. QED
        BY <1>6, <3>1, <3>2 DEF Connect
    <2>6. Streams'
      BY <2>4, <2>5 DEF Streams, Agree, Talking, Talk
    <2>7. QED
      BY <1>0, <2>2, <2>5, <2>6 DEF IInv
  <1>7. CASE Refused
    <2>1. UNCHANGED <<config, boot, fetched, polled, proc, at, up, down, conn, run, result>> /\ at[cur] # "listen"
          /\ config[cur] = "external"
      BY <1>7 DEF Refused, process, Fail
    <2>2. CASE attempt # 0 /\ Fail /\ UNCHANGED mishaps
      <3>1. attempt' # 0 /\ pc' \in {"idle", "metrics"} /\ UNCHANGED using
        BY <2>2 DEF Fail
      <3>2. \A t \in Signals : conn[t] = "open" => Quiet(t)'
        BY <1>1, <2>1 DEF Quiet
      <3>3. QED
        BY <1>0, <2>1, <2>2, <3>1, <3>2, RunSafe
    <2>3. CASE UNCHANGED <<pc, using, cur, attempt, mishaps>>
      <3>1. Sockets' /\ Streams'
        BY <1>0, <2>1, <2>3 DEF Sockets, Streams, Agree, Talking, Quiet, Talk
      <3>2. Fresh' /\ Attempts' /\ Ready' /\ NoFallback'
        BY <1>0, <2>1, <2>3 DEF Fresh, Attempts, Asked, Ready, Waits, Version, NoFallback, signal_names
      <3>3. QED
        BY <1>0, <3>1, <3>2 DEF IInv
    <2>4. CASE /\ attempt = 0 /\ pc' \in {"idle", "off"} /\ UNCHANGED attempt
               /\ \/ pc' = "off" /\ UNCHANGED mishaps
                  \/ cur = "app" /\ mishaps' = mishaps \cup {m \in {"slow"} : at[cur] = "start"}
      <3>1. (pc' = "idle" => mishaps' # {}) /\ (mishaps' = {} => mishaps = {})
        BY <1>0, <1>2, <2>1, <2>4 DEF signal_names, Waits
      <3>2. Sockets' /\ Streams'
        BY <1>0, <1>1, <2>1, <2>4 DEF Sockets, Streams, Agree, Talking, Quiet, Talk
      <3>3. Fresh' /\ Attempts' /\ Ready' /\ NoFallback'
        BY <1>0, <2>1, <2>4, <3>1 DEF Fresh, Attempts, Asked, Ready, Waits, Version, NoFallback, signal_names, Talk
      <3>4. QED
        BY <1>0, <3>2, <3>3 DEF IInv
    <2>5. QED
      BY <1>7, <2>2, <2>3, <2>4 DEF Refused
  <1>8. QED
    BY <1>5, <1>6, <1>7

\* What a failed evaluation, an answer and a broken pipe do to the run.
LEMMA RunFacts ==
  ASSUME Types, attempt # 0
  PROVE  /\ Fail => /\ attempt' # 0 /\ pc' \in {"idle", "metrics"}
                    /\ UNCHANGED <<using, run, result>>
         /\ BrokenPipe => /\ attempt' # 0 /\ pc' \in {"idle", "metrics", "connect"}
                          /\ UNCHANGED <<using, run, result>>
         /\ \A r : Answer(r) => /\ attempt' # 0 /\ pc' = "idle" /\ result' = r
                                /\ UNCHANGED <<using, run>>
  BY DEF Fail, BrokenPipe, Step, Answer

\* What is left of a stream after its first message.
LEMMA TailFacts ==
  ASSUME NEW S, NEW q \in Seq(S), q # <<>>
  PROVE  /\ Len(q) \in Nat \ {0} /\ Head(q) = q[1]
         /\ Tail(q) = <<>> <=> Len(q) = 1
  <1>1. Tail(q) \in Seq(S) /\ Len(Tail(q)) = Len(q) - 1 /\ Head(q) = q[1]
    BY HeadTailProperties
  <1>2. Len(q) \in Nat \ {0}
    BY EmptySeq
  <1>3. Tail(q) = <<>> <=> Len(Tail(q)) = 0
    BY <1>1, EmptySeq
  <1>4. QED
    BY <1>1, <1>2, <1>3

\* The answer that is decoded is the one to the metrics of this run.
LEMMA AnswerFacts ==
  ASSUME IInv, attempt # 0
  PROVE  /\ RecvResponse => Fail \/ Answer(run)
         /\ RecvDataAck => Fail \/ Answer(run) \/ (Step("response") /\ count' = 0)
  <1>0. down[cur] \in Seq(Msg) /\ Fresh
    BY DEF IInv, Types, ServerTypes, ClientTypes
  <1>1. ASSUME RecvResponse
        PROVE  Fail \/ Answer(run)
    <2>1. CASE Len(down[cur]) = 1 /\ down[cur][1][1] = "answer" /\ Answer(down[cur][1][2])
      <3>1. down[cur][1][2] = run
        BY <1>0, <1>1, <2>1 DEF Fresh, RecvResponse
      <3>2. QED
        BY <2>1, <3>1
    <2>2. QED
      BY <1>1, <2>1 DEF RecvResponse, Decode
  <1>2. ASSUME RecvDataAck
        PROVE  Fail \/ Answer(run) \/ (Step("response") /\ count' = 0)
    <2>1. CASE down[cur] # <<>> /\ Tail(down[cur]) # <<>> /\ Decode(Tail(down[cur]))
      <3>1. CASE /\ Len(Tail(down[cur])) = 1 /\ Tail(down[cur])[1][1] = "answer"
                 /\ Answer(Tail(down[cur])[1][2])
        <4>1. Len(down[cur]) = 2 /\ Tail(down[cur])[1] = down[cur][2]
          BY <1>0, <2>1, <3>1
        <4>2. down[cur][2][2] = run
          BY <1>0, <1>2, <3>1, <4>1 DEF Fresh, RecvDataAck
        <4>3. QED
          BY <3>1, <4>1, <4>2
      <3>2. QED
        BY <2>1, <3>1 DEF Decode
    <2>2. QED
      BY <1>2, <2>1 DEF RecvDataAck, AckAndResponse
  <1>3. QED
    BY <1>1, <1>2

\* The steps of an evaluation keep the invariant.
LEMMA EvaluateSafe ==
  ASSUME IInv, \/ GetMetrics \/ SendLength \/ RecvLengthAck \/ SendChunk
               \/ RecvDataAck \/ RecvResponse
  PROVE  IInv'
  <1>0. /\ Types /\ Types' /\ cur \in Signals /\ attempt # 0 /\ pc \notin {"off", "idle"}
        /\ down \in [Signals -> Seq(Msg)] /\ up \in [Signals -> Seq(Msg)]
    BY AutoscalerTypes DEF IInv, Autoscaler, Attempts, Types, ServerTypes, ClientTypes, Talk,
       GetMetrics, SendLength, RecvLengthAck, SendChunk, RecvDataAck, RecvResponse
  <1>1. \A t \in Signals : conn[t] = "open" /\ ~Talking(t) => Quiet(t)
    BY QuietSockets
  <1>2. conn[cur] = "open" /\ pc \in Talk => Exchange(cur)
    BY <1>0 DEF IInv, Streams, Agree, Talking
  <1>3. CASE GetMetrics
    <2>1. UNCHANGED <<config, boot, fetched, polled, proc, at, up, down, conn, mishaps>> /\ pc = "metrics"
      BY <1>3 DEF GetMetrics, supervisor, process
    <2>2. /\ attempt' # 0 /\ pc' \in {"idle", "metrics", "length"}
          /\ UNCHANGED <<using, run>> /\ (pc' # "idle" => result' = result)
      <3>1. CASE Step("length")
        BY <1>0, <3>1 DEF Step
      <3>2. CASE Fail \/ Answer(run)
        BY <1>0, <3>2, RunFacts
      <3>3. QED
        BY <1>3, <3>1, <3>2 DEF GetMetrics
    <2>3. \A t \in Signals : conn[t] = "open" => Quiet(t)'
      BY <1>1, <2>1 DEF Quiet, Talking, Talk
    <2>4. QED
      BY <1>0, <2>1, <2>2, <2>3, RunSafe
  <1>4. ASSUME \A t \in Signals : t = cur => conn[t] # "open" \/ Quiet(t)', Fail \/ BrokenPipe \/ Answer(run),
               UNCHANGED <<config, boot, fetched, polled, proc, at, up, conn, mishaps>>,
               \A t \in Signals : t # cur => down'[t] = down[t]
        PROVE  IInv'
    <2>1. \A t \in Signals : conn[t] = "open" => Quiet(t)'
      BY <1>1, <1>4 DEF Quiet, Talking
    <2>2. /\ attempt' # 0 /\ pc' \in {"connect", "idle", "metrics"}
          /\ UNCHANGED <<using, run>> /\ (pc' # "idle" => result' = result)
      BY <1>0, <1>4, RunFacts
    <2>3. QED
      BY <1>0, <1>4, <2>1, <2>2, RunSafe
  <1>5. CASE SendLength
    <2>1. CASE conn[cur] = "broken" /\ BrokenPipe /\ UNCHANGED up
      BY <1>4, <1>5, <2>1 DEF SendLength, supervisor
    <2>2. CASE /\ conn[cur] = "open" /\ Step("length_ack")
               /\ up' = [up EXCEPT ![cur] = Append(@, <<"length", run>>)]
      <3>1. /\ up'[cur] = Append(up[cur], <<"length", run>>)
            /\ \A t \in Signals : t # cur => up'[t] = up[t]
        BY <1>0, <2>2
      <3>2. Quiet(cur)
        BY <1>0, <1>1, <1>5, <2>2 DEF Talking, Talk, SendLength
      <3>3. Exchange(cur)'
        <4>1. at' = at /\ down' = down /\ pc' = "length_ack" /\ run' = run /\ cur' = cur
          BY <1>5, <2>2 DEF SendLength, Step
        <4>2. CASE at[cur] = "load" /\ up[cur] = <<<<"parameters", 0>>>>
          <5>1. Len(up'[cur]) = 2
            BY <3>1, <4>2
          <5>2. QED
            BY <3>2, <4>1, <4>2, <5>1 DEF Exchange, Quiet
        <4>3. CASE at[cur] = "length" /\ up[cur] = <<>>
          <5>1. up'[cur] = <<<<"length", run>>>>
            BY <3>1, <4>3
          <5>2. QED
            BY <3>2, <4>1, <4>3, <5>1 DEF Exchange, Quiet
        <4>4. QED
          BY <3>2, <4>2, <4>3 DEF Quiet
      <3>4. QED
        BY <1>0, <1>5, <2>2, <3>1, <3>3, TalkSafe DEF SendLength, Step, supervisor, Talk
    <2>3. QED
      BY <1>5, <2>1, <2>2 DEF SendLength
  <1>6. Recv => down'[cur] = <<>> /\ \A t \in Signals : t # cur => down'[t] = down[t]
    BY <1>0 DEF Recv
  <1>7. CASE RecvLengthAck
    <2>1. CASE down[cur] = <<<<"ack", 0>>>> /\ Step("chunks") /\ count' = 0
      <3>1. conn[cur] = "open" => Exchange(cur)'
        <4>1. SUFFICES ASSUME conn[cur] = "open" PROVE Exchange(cur)'
          OBVIOUS
        <4>2. at[cur] = "data" /\ up[cur] = <<>>
          BY <1>2, <1>7, <2>1, <4>1 DEF Exchange, RecvLengthAck, Talk
        <4>3. /\ pc' = "chunks" /\ UNCHANGED <<at, up, run, cur>> /\ down'[cur] = <<>>
          BY <1>6, <1>7, <2>1 DEF RecvLengthAck, Step
        <4>4. Metrics(cur)'
          BY <4>2, <4>3 DEF Metrics
        <4>5. QED
          BY <2>1, <4>2, <4>3, <4>4, ConstantsAssumption DEF Exchange
      <3>2. QED
        BY <1>0, <1>6, <1>7, <2>1, <3>1, TalkSafe DEF RecvLengthAck, Step, supervisor, Talk
    <2>2. CASE down[cur] # <<<<"ack", 0>>>> /\ Fail
      <3>1. conn[cur] # "open"
        BY <1>2, <1>7, <2>2 DEF Exchange, RecvLengthAck, Received, Talk
      <3>2. QED
        BY <1>4, <1>6, <1>7, <2>2, <3>1 DEF RecvLengthAck, supervisor
    <2>3. QED
      BY <1>7, <2>1, <2>2 DEF RecvLengthAck
  <1>8. CASE SendChunk
    <2>1. CASE conn[cur] = "broken" /\ BrokenPipe /\ UNCHANGED up
      BY <1>4, <1>8, <2>1 DEF SendChunk, supervisor
    <2>2. CASE /\ conn[cur] = "open" /\ count' = count + 1
               /\ up' = [up EXCEPT ![cur] = Append(@, <<"data", run>>)]
               /\ Step(IF count' = Chunks THEN "data_ack" ELSE "chunks")
      <3>1. /\ up'[cur] = Append(up[cur], <<"data", run>>)
            /\ \A t \in Signals : t # cur => up'[t] = up[t]
        BY <1>0, <2>2
      <3>2. /\ at[cur] = "data" /\ down[cur] = <<>> /\ Metrics(cur)
            /\ Len(up[cur]) = count /\ count < Chunks
        BY <1>2, <1>8, <2>2 DEF Exchange, SendChunk, Talk
      <3>3. UNCHANGED <<at, down, run, cur>> /\ pc' = IF count' = Chunks THEN "data_ack" ELSE "chunks"
        BY <1>8, <2>2 DEF SendChunk, Step
      <3>4. Metrics(cur)' /\ Len(up'[cur]) = count'
        <4>1. up[cur] \in Seq(Msg) /\ Len(up'[cur]) = Len(up[cur]) + 1
          BY <1>0, <3>1
        <4>2. \A i \in 1..Len(up'[cur]) : up'[cur][i] = <<"data", run>>
          BY <3>1, <3>2, <4>1 DEF Metrics
        <4>3. QED
          BY <2>2, <3>2, <3>3, <4>1, <4>2 DEF Metrics
      <3>5. Exchange(cur)'
        <4>1. CASE count' = Chunks
          BY <3>2, <3>3, <3>4, <4>1 DEF Exchange
        <4>2. CASE count' # Chunks
          <5>1. count' < Chunks
            BY <1>0, <2>2, <3>2, <4>2, ConstantsAssumption DEF Types, ClientTypes
          <5>2. QED
            BY <3>2, <3>3, <3>4, <4>2, <5>1 DEF Exchange
        <4>3. QED
          BY <4>1, <4>2
      <3>6. QED
        BY <1>0, <1>8, <2>2, <3>1, <3>2, <3>3, <3>5, TalkSafe DEF SendChunk, Step, supervisor, Talk
    <2>3. QED
      BY <1>8, <2>1, <2>2 DEF SendChunk
  <1>9. ASSUME RecvDataAck, conn[cur] = "open"
         PROVE  \/ /\ at[cur] = "value" /\ Metrics(cur) /\ Len(up[cur]) = Chunks
                   /\ pc' = "response"
                \/ at[cur] = "length" /\ up[cur] = <<>> /\ pc' # "response"
    <2>1. down[cur] # <<>> /\ Exchange(cur) /\ pc = "data_ack" /\ AckAndResponse(down[cur])
      BY <1>2, <1>9 DEF RecvDataAck, Received, Talk
    <2>2. CASE /\ at[cur] = "value" /\ Metrics(cur) /\ Len(up[cur]) = Chunks
               /\ down[cur] = <<<<"ack", 0>>>>
      <3>1. Len(down[cur]) = 1 /\ Head(down[cur]) = <<"ack", 0>>
        BY <2>2
      <3>2. Tail(down[cur]) = <<>>
        BY <1>0, <2>1, <3>1, TailFacts
      <3>3. pc' = "response"
        BY <2>1, <3>1, <3>2 DEF AckAndResponse, Step
      <3>4. QED
        BY <2>2, <3>3
    <2>3. CASE /\ at[cur] = "length" /\ up[cur] = <<>>
               /\ Len(down[cur]) = 2 /\ down[cur][1] = <<"ack", 0>>
      <3>1. Head(down[cur]) = down[cur][1] /\ (Tail(down[cur]) = <<>> <=> Len(down[cur]) = 1)
        <4>1. down[cur] \in Seq(Msg) /\ down[cur] # <<>>
          BY <1>0, <2>1
        <4>2. QED
          BY <4>1, TailFacts
      <3>2. Head(down[cur]) = <<"ack", 0>>
        BY <2>3, <3>1
      <3>3. Tail(down[cur]) # <<>>
        BY <2>3, <3>1
      <3>4. Decode(Tail(down[cur]))
        BY <2>1, <3>2, <3>3 DEF AckAndResponse
      <3>5. pc' # "response"
        BY <3>4 DEF Decode, Answer, Fail
      <3>6. QED
        BY <2>3, <3>5
    <2>4. QED
      BY <2>1, <2>2, <2>3 DEF Exchange
  <1>10. CASE RecvDataAck
    <2>1. CASE Step("response") /\ count' = 0 /\ ~Fail /\ ~Answer(run)
      <3>1. conn[cur] = "open" => Exchange(cur)'
        <4>1. SUFFICES ASSUME conn[cur] = "open" PROVE Exchange(cur)'
          OBVIOUS
        <4>2. CASE at[cur] = "value" /\ Metrics(cur) /\ Len(up[cur]) = Chunks
          <5>1. pc' = "response" /\ UNCHANGED <<at, up, run, cur>> /\ down'[cur] = <<>>
            BY <1>6, <1>10, <2>1 DEF RecvDataAck, Step
          <5>2. Metrics(cur)'
            BY <4>2, <5>1 DEF Metrics
          <5>3. QED
            BY <4>2, <5>1, <5>2 DEF Exchange
        <4>3. QED
          BY <1>10, <1>9, <2>1, <4>1, <4>2 DEF Step, Fail, Answer
      <3>2. QED
        BY <1>0, <1>6, <1>10, <2>1, <3>1, TalkSafe DEF RecvDataAck, Step, supervisor, Talk
    <2>2. CASE Fail \/ Answer(run)
      <3>1. pc' # "response"
        BY <2>2 DEF Fail, Answer
      <3>2. \A t \in Signals : t = cur => conn[t] # "open" \/ Quiet(t)'
        <4>1. SUFFICES ASSUME conn[cur] = "open", NEW t \in Signals, t = cur PROVE Quiet(t)'
          OBVIOUS
        <4>2. at[cur] = "length" /\ up[cur] = <<>>
          BY <1>9, <1>10, <3>1, <4>1
        <4>3. UNCHANGED <<at, up>> /\ down'[cur] = <<>> /\ cur' \in Signals
          BY <1>0, <1>6, <1>10 DEF RecvDataAck, Types, ClientTypes
        <4>4. QED
          BY <4>1, <4>2, <4>3 DEF Quiet
      <3>3. QED
        BY <1>4, <1>6, <1>10, <2>2, <3>2 DEF RecvDataAck, supervisor
    <2>3. QED
      BY <1>0, <1>10, <2>1, <2>2, AnswerFacts
  <1>11. CASE RecvResponse
    <2>1. Fail \/ Answer(run)
      BY <1>0, <1>11, AnswerFacts
    <2>2. \A t \in Signals : t = cur => conn[t] # "open" \/ Quiet(t)'
      BY <1>2, <1>6, <1>11 DEF RecvResponse, Received, Exchange, Quiet, Talk
    <2>3. QED
      BY <1>4, <1>6, <1>11, <2>1, <2>2 DEF RecvResponse, supervisor
  <1>12. QED
    BY <1>3, <1>5, <1>7, <1>8, <1>10, <1>11

\* A new run starts when all open sockets are quiet.
LEMMA StartRunSafe ==
  ASSUME IInv, StartRun
  PROVE  IInv'
  <1>0. Types /\ Types' /\ Sockets /\ Streams /\ Ready /\ NoFallback
    BY AutoscalerTypes DEF IInv, Autoscaler
  <1>1. /\ UNCHANGED <<config, boot, fetched, polled, proc, at, up, down, conn, mishaps, using>>
        /\ pc = "idle" /\ pc' = "metrics" /\ attempt' = 1 /\ result' = NoResult
    BY DEF StartRun, supervisor, process
  <1>2. \A t \in Signals : conn[t] = "open" => Quiet(t)'
    BY <1>1, QuietSockets DEF Quiet, Talking, Talk
  <1>3. Sockets'
    BY <1>0, <1>1 DEF Sockets
  <1>4. Streams' /\ Fresh'
    BY <1>1, <1>2 DEF Streams, Agree, Talking, Talk, Fresh
  <1>5. Attempts' /\ Ready' /\ NoFallback'
    BY <1>0, <1>1 DEF Attempts, Asked, Ready, Waits, Version, NoFallback, signal_names, Talk, NoResult
  <1>6. QED
    BY <1>0, <1>3, <1>4, <1>5 DEF IInv

\* The invariant is inductive.
LEMMA NextSafe ==
  ASSUME IInv, [Next]_vars
  PROVE  IInv'
  <1>1. CASE Bootstrap \/ ConfigChanged
    BY <1>1, BootstrapSafe
  <1>2. CASE \E s \in Signals : Process(s) \/ Crash(s) \/ Raises(s)
    BY <1>2, ProcessSafe
  <1>3. CASE Autoscaler
    BY <1>3, ConnectSafe, StartRunSafe, EvaluateSafe DEF Autoscaler
  <1>4. CASE UNCHANGED vars
    <2>1. UNCHANGED <<config, boot, fetched, polled, proc, at, up, down, conn, mishaps>>
      BY <1>4 DEF vars, supervisor, process
    <2>2. UNCHANGED <<pc, using, cur, attempt, retry, count, run, result>>
      BY <1>4 DEF vars, client
    <2>3. Types' /\ Sockets' /\ Fresh' /\ Attempts'
      BY <2>1, <2>2 DEF IInv, Types, ServerTypes, ClientTypes, Sockets, Fresh, Attempts, Asked
    <2>4. Streams'
      BY <2>1, <2>2 DEF IInv, Streams, Agree, Talking, Exchange, Quiet, Metrics
    <2>5. Ready' /\ NoFallback'
      BY <2>1, <2>2 DEF IInv, Ready, Waits, Version, NoFallback, signal_names
    <2>6. QED
      BY <2>3, <2>4, <2>5 DEF IInv
  <1>5. QED
    BY <1>1, <1>2, <1>3, <1>4 DEF Next

\* Every reachable state satisfies it.
LEMMA Safe == Spec => []IInv
  <1>1. Init => IInv
    BY InitSafe
  <1>2. IInv /\ [Next]_vars => IInv'
    BY NextSafe
  <1>3. QED
    BY <1>1, <1>2, PTL DEF Spec

\* The signal that an app has configured is replaced by the default signal
\* (_get_signal_for_app) only after a signal process has died, or when the
\* app's is alive with its version and does not listen in time.
THEOREM NeverFallsBackSilently == Spec => []NoSilentFallback
  <1>1. IInv => NoSilentFallback
    BY DEF IInv, NoFallback, NoSilentFallback
  <1>2. QED
    BY <1>1, Safe, PTL

-----------------------------------------------------------------------------
(* The refinement of SignalContract.                                        *)

\* No evaluation has been asked for before the bootstrap has run.
LEMMA InitContract == Init => Contract!Init
  BY DEF Init, Contract!Init, Asked, NoResult, Contract!NoResult

\* Every step is the start of an evaluation, its end with the answer to the
\* metrics of this run or without one, or nothing that the run can see.
LEMMA StepKeepsContract ==
  ASSUME IInv, [Next]_vars
  PROVE  [Contract!Next]_<<Asked, run, result>>
  <1>0. Types /\ Attempts /\ (boot # "polling" => pc = "off")
    BY DEF IInv, Sockets
  <1>1. CASE Bootstrap \/ ConfigChanged
    <2>1. CASE shutdown
      <3>1. ~Asked' /\ UNCHANGED <<run, result>>
        BY <2>1 DEF shutdown, Asked
      <3>2. CASE Asked
        BY <1>0, <3>1, <3>2 DEF Asked, Attempts, Contract!Next, Contract!Reply, NoResult,
           Contract!NoResult
      <3>3. CASE ~Asked
        BY <3>1, <3>3 DEF Asked
      <3>4. QED
        BY <3>2, <3>3
    <2>2. CASE startProcess
      BY <1>0, <2>2 DEF startProcess, Asked
    <2>3. CASE UNCHANGED client
      BY <2>3 DEF client, Asked
    <2>4. QED
      BY <1>1, <2>1, <2>2, <2>3 DEF Bootstrap, StartSupervisord, PollFetch, startProcessGroup,
         PollSignals, Abort, AutoscalerEnded, BootstrapRestarted, ConfigChanged
  <1>2. CASE \E s \in Signals : Process(s) \/ Crash(s) \/ Raises(s)
    <2>1. UNCHANGED <<pc, attempt, run, result>>
      BY <1>0, <1>2, ProcessFrame DEF IInv
    <2>2. QED
      BY <2>1 DEF Asked
  <1>3. CASE LoadInternal \/ Connect
    <2>1. UNCHANGED <<attempt, run, result>> /\ pc = "connect"
      BY <1>3 DEF LoadInternal, Connect
    <2>2. attempt # 0 => pc' = "metrics"
      BY <1>3 DEF LoadInternal, Connect
    <2>3. QED
      BY <2>1, <2>2 DEF Asked
  <1>4. ASSUME Asked, UNCHANGED run, attempt' # 0,
               \/ pc' = "idle" /\ result' \in {run, NoResult}
               \/ pc' \notin {"off", "idle"} /\ UNCHANGED result
        PROVE  [Contract!Next]_<<Asked, run, result>>
    <2>1. CASE pc' = "idle" /\ result' \in {run, NoResult}
      BY <1>4, <2>1 DEF Asked, Contract!Next, Contract!Reply, NoResult, Contract!NoResult
    <2>2. CASE pc' \notin {"off", "idle"} /\ UNCHANGED result
      BY <1>4, <2>2 DEF Asked
    <2>3. QED
      BY <1>4, <2>1, <2>2
  <1>5. CASE Refused
    <2>1. CASE attempt = 0 /\ UNCHANGED <<attempt, run, result>>
      BY <2>1 DEF Asked
    <2>2. CASE attempt # 0 /\ UNCHANGED <<pc, attempt, run, result>>
      BY <2>2 DEF Asked
    <2>3. CASE attempt # 0 /\ Fail
      <3>1. Asked
        BY <1>5, <2>3 DEF Asked, Refused
      <3>2. QED
        BY <1>0, <1>4, <2>3, <3>1, RunFacts DEF Attempts
    <2>4. QED
      BY <1>5, <2>1, <2>2, <2>3 DEF Refused
  <1>6. CASE StartRun
    BY <1>6 DEF StartRun, Asked, Contract!Next, Contract!Ask, NoResult, Contract!NoResult
  <1>7. CASE GetMetrics \/ SendLength \/ RecvLengthAck \/ SendChunk \/ RecvDataAck \/ RecvResponse
    <2>1. pc \in {"metrics", "length"} \cup Talk
      BY <1>7 DEF GetMetrics, SendLength, RecvLengthAck, SendChunk, RecvDataAck, RecvResponse, Talk
    <2>2. Asked /\ attempt # 0 /\ result = NoResult
      BY <1>0, <2>1 DEF Attempts, Asked, Talk
    <2>3. CASE Fail \/ BrokenPipe \/ Answer(run)
      BY <1>0, <1>4, <2>2, <2>3, RunFacts
    <2>4. CASE \E next \in {"length"} \cup Talk : Step(next)
      BY <1>4, <2>2, <2>4 DEF Step, Talk
    <2>5. QED
      <3>1. CASE RecvDataAck \/ RecvResponse
        BY <2>2, <2>3, <2>4, <3>1, AnswerFacts DEF Talk
      <3>2. CASE GetMetrics \/ SendLength \/ RecvLengthAck \/ SendChunk
        BY <2>3, <2>4, <3>2 DEF GetMetrics, SendLength, RecvLengthAck, SendChunk, Talk
      <3>3. QED
        BY <1>7, <3>1, <3>2
  <1>8. CASE UNCHANGED vars
    BY <1>8 DEF vars, client, Asked
  <1>9. QED
    BY <1>1, <1>2, <1>3, <1>5, <1>6, <1>7, <1>8 DEF Next, Autoscaler

\* The safety part of KeepsContract: an evaluation ends with the answer to the
\* metrics of this very run or with a failure; no answer left over from an
\* earlier run, from before a restart or in the same recv is taken for it.
THEOREM AnswersItsOwnRun ==
  Spec => Contract!Init /\ [][Contract!Next]_<<Asked, run, result>>
  <1>1. Init => Contract!Init
    BY InitContract
  <1>2. IInv /\ [Next]_vars => [Contract!Next]_<<Asked, run, result>>
    BY StepKeepsContract
  <1>3. QED
    BY <1>1, <1>2, Safe, PTL DEF Spec
=============================================================================
