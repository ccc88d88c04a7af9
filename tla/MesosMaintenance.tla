---- MODULE MesosMaintenance ----
(***************************************************************************)
(* The Mesos maintenance schedule as the drainer changes it                 *)
(* (draining/mesos.py).  Draining a host is a read of the whole schedule    *)
(* followed by a write of the whole schedule; down and up are single calls. *)
(* Each of the three is tried again, from its start, when it times out,     *)
(* whether or not the master had carried it out.                            *)
(*                                                                          *)
(* The drainer passes one host per call and is the only writer of the       *)
(* schedule while one of its calls is under way.                            *)
(***************************************************************************)
EXTENDS Integers, FiniteSets

CONSTANTS Hosts,
          Starts,     \* times at which a window may start
          MaxTries,   \* tries of the retry decorator
          MaxCalls    \* bound: calls of the drainer and of operators

VARIABLES schedule,  \* the master's set of windows [hosts, start]
          downs,     \* hosts that the master has down for maintenance
          call,      \* the call under way: [op, host, start, tries]
          got,       \* the schedule the call has read, as a singleton, or {}
          wanted,    \* host -> starts its window may have, 0 for no window
          calls

vars == <<schedule, downs, call, got, wanted, calls>>

Window(hosts, start) == [hosts |-> hosts, start |-> start]
Call(op, host, start, tries) == [op |-> op, host |-> host, start |-> start, tries |-> tries]
NoCall == Call("none", "none", 0, 0)

Scheduled(h) == {w.start : w \in {x \in schedule : h \in x.hosts}}

Init ==
    /\ schedule = {}
    /\ downs = {}
    /\ call = NoCall
    /\ got = {}
    /\ wanted = [h \in Hosts |-> {0}]
    /\ calls = 0

\* Another user of the master schedules a window for several hosts.
OperatorSchedules ==
    /\ call = NoCall
    /\ calls < MaxCalls
    /\ \E H \in SUBSET Hosts, s \in Starts :
        /\ Cardinality(H) > 1
        /\ \A h \in H : Scheduled(h) = {}
        /\ schedule' = schedule \cup {Window(H, s)}
        /\ wanted' = [h \in Hosts |-> IF h \in H THEN {s} ELSE wanted[h]]
    /\ calls' = calls + 1
    /\ UNCHANGED <<downs, call, got>>

Begin(op) ==
    /\ call = NoCall
    /\ calls < MaxCalls
    /\ calls' = calls + 1
    /\ \E h \in Hosts, s \in Starts :
        /\ call' = Call(op, h, IF op = "drain" THEN s ELSE 0, MaxTries)
        /\ wanted' = [wanted EXCEPT ![h] =
                        CASE op = "drain" -> @ \cup {s}
                          [] op = "up" /\ h \in downs -> @ \cup {0}
                          [] OTHER -> @]
    /\ UNCHANGED <<schedule, downs, got>>

drain == Begin("drain")
down == Begin("down")
up == Begin("up")

\* The call returned or raised; what it was to achieve holds if it returned.
End(returned) ==
    /\ call' = NoCall
    /\ got' = {}
    /\ wanted' = [wanted EXCEPT ![call.host] =
                    CASE returned /\ call.op = "drain" -> {call.start}
                      [] returned /\ call.op = "up" -> {0}
                      [] OTHER -> @]

\* retry: a Timeout starts the call over, until no try is left.
Retry ==
    IF call.tries > 1
    THEN /\ call' = [call EXCEPT !.tries = @ - 1]
         /\ got' = {}
         /\ UNCHANGED wanted
    ELSE End(FALSE)

\* GET_MAINTENANCE_SCHEDULE
get_maintenance_schedule ==
    /\ call.op = "drain"
    /\ got = {}
    /\ \/ got' = {schedule} /\ UNCHANGED <<call, wanted>>
       \/ Retry
       \/ End(FALSE)
    /\ UNCHANGED <<schedule, downs, calls>>

Replaced(h, s, windows) == {Window({h}, s)}

Without(h, windows) ==
    {w \in {Window(x.hosts \ {h}, x.start) : x \in windows} : w.hosts # {}}

\* The host's old window is taken out, the rest is sent back as it was.
build_maintenance_schedule_payload(h, s, windows) == Without(h, windows) \cup {Window({h}, s)}

\* The master refuses a schedule that has a host in two windows, or that has
\* lost a host which is down.
Valid(windows) ==
    /\ \A v \in windows, w \in windows : v # w => v.hosts \cap w.hosts = {}
    /\ downs \subseteq UNION {w.hosts : w \in windows}

\* UPDATE_MAINTENANCE_SCHEDULE
Update ==
    /\ call.op = "drain"
    /\ \E old \in got :
       \E new \in {build_maintenance_schedule_payload(call.host, call.start, old)} :
        \/ Valid(new) /\ schedule' = new /\ (End(TRUE) \/ Retry)
        \/ schedule' = schedule /\ (Retry \/ End(FALSE))
    /\ UNCHANGED <<downs, calls>>

\* START_MAINTENANCE: only a host with a window can go down.
StartMaintenance ==
    /\ call.op = "down"
    /\ \/ /\ Scheduled(call.host) # {}
          /\ downs' = downs \cup {call.host}
          /\ End(TRUE) \/ Retry
       \/ downs' = downs /\ (Retry \/ End(FALSE))
    /\ UNCHANGED <<schedule, calls>>

\* STOP_MAINTENANCE: only a host that is down can come up; its window goes.
StopMaintenance ==
    /\ call.op = "up"
    /\ \/ /\ call.host \in downs
          /\ downs' = downs \ {call.host}
          /\ schedule' = Without(call.host, schedule)
          /\ End(TRUE) \/ Retry
       \/ UNCHANGED <<downs, schedule>> /\ (Retry \/ End(FALSE))
    /\ UNCHANGED calls

Next ==
    \/ OperatorSchedules
    \/ drain
    \/ down
    \/ up
    \/ get_maintenance_schedule
    \/ Update
    \/ StartMaintenance
    \/ StopMaintenance

Spec == Init /\ [][Next]_vars

----
\* However often a call times out after the master carried it out, a host is in
\* one window at most, the one it was last drained with, and draining it takes
\* no other host's window away.
WindowsAreKept ==
    \A h \in Hosts :
        /\ \A v \in schedule, w \in schedule : h \in v.hosts \cap w.hosts => v = w
        /\ Scheduled(h) = {} => 0 \in wanted[h]
        /\ Scheduled(h) \subseteq wanted[h]
====
