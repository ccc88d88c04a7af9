---------------------------- MODULE ServicesProofs ----------------------------
(***************************************************************************)
(* Proofs about the smaller services, for any number of hosts, windows,    *)
(* pools, markets, points, nodes, pods and faults.  Each part proves a     *)
(* component's own specification correct; the last one carries the results *)
(* over to the composition that TLC checks.                                *)
(***************************************************************************)
EXTENDS Services, SumTheorems, SequenceTheorems

-----------------------------------------------------------------------------
(* The Mesos maintenance schedule.                                          *)

MmOps == {"none", "drain", "down", "up"}

MmTypes ==
  /\ mm_schedule \subseteq [hosts : SUBSET Hosts, start : Starts]
  /\ mm_downs \subseteq Hosts
  /\ mm_call \in [op : MmOps, host : Hosts \cup {"none"}, start : Starts \cup {0}, tries : Nat]
  /\ mm_call.op # "none" => mm_call.host \in Hosts
  /\ mm_call.op = "drain" => mm_call.start \in Starts
  /\ mm_wanted \in [Hosts -> SUBSET (Starts \cup {0})]

\* A host is in one window at most.
MmDisjoint ==
  \A v \in mm_schedule, w \in mm_schedule : v # w => v.hosts \cap w.hosts = {}

\* What a drain has read is still the schedule when it writes.
MmRead == mm_got # {} => mm_got = {mm_schedule} /\ mm_call.op = "drain"

\* The windows are as wanted, also when a call that timed out has been, or is
\* going to be, carried out.
MmWanted ==
  /\ \A h \in Hosts : /\ Mm!Scheduled(h) = {} => 0 \in mm_wanted[h]
                      /\ Mm!Scheduled(h) \subseteq mm_wanted[h]
  /\ mm_call.op = "drain" => mm_call.start \in mm_wanted[mm_call.host]
  /\ mm_call.op = "up" /\ mm_call.host \in mm_downs => 0 \in mm_wanted[mm_call.host]

MmInv == MmTypes /\ MmDisjoint /\ MmRead /\ MmWanted

\* No window, no host down, nothing wanted.
LEMMA MmInit == Mm!Init => MmInv
  BY DEF Mm!Init, MmInv, MmTypes, MmDisjoint, MmRead, MmWanted, Mm!NoCall, Mm!Call, MmOps,
     Mm!Scheduled

\* Taking a host out of the windows takes no other host out.
LEMMA MmWithout ==
  ASSUME MmTypes, MmDisjoint, NEW h \in Hosts
  PROVE  /\ Mm!Without(h, mm_schedule) \subseteq [hosts : SUBSET Hosts, start : Starts]
         /\ \A v \in Mm!Without(h, mm_schedule), w \in Mm!Without(h, mm_schedule) :
              v # w => v.hosts \cap w.hosts = {}
         /\ \A w \in Mm!Without(h, mm_schedule) : h \notin w.hosts
         /\ \A k \in Hosts \ {h} : \A s :
              (\E w \in Mm!Without(h, mm_schedule) : k \in w.hosts /\ w.start = s)
                <=> (\E w \in mm_schedule : k \in w.hosts /\ w.start = s)
  <1> DEFINE W == Mm!Without(h, mm_schedule)
  <1>1. \A w \in W : \E x \in mm_schedule : w = [hosts |-> x.hosts \ {h}, start |-> x.start]
    BY DEF Mm!Without, Mm!Window
  <1>2. \A x \in mm_schedule : x.hosts \ {h} # {} => [hosts |-> x.hosts \ {h}, start |-> x.start] \in W
    BY DEF Mm!Without, Mm!Window
  <1>3. \A x \in mm_schedule : x.hosts \in SUBSET Hosts /\ x.start \in Starts
    BY DEF MmTypes
  <1> HIDE DEF W
  <1>4. W \subseteq [hosts : SUBSET Hosts, start : Starts]
    BY <1>1, <1>3
  <1>5. ASSUME NEW v \in W, NEW w \in W, v # w
        PROVE  v.hosts \cap w.hosts = {}
    <2>1. PICK x \in mm_schedule : v = [hosts |-> x.hosts \ {h}, start |-> x.start]
      BY <1>1
    <2>2. PICK y \in mm_schedule : w = [hosts |-> y.hosts \ {h}, start |-> y.start]
      BY <1>1
    <2>3. x # y
      BY <1>5, <2>1, <2>2
    <2>4. x.hosts \cap y.hosts = {}
      BY <2>3 DEF MmDisjoint
    <2>5. QED
      BY <2>1, <2>2, <2>4
  <1>6. \A w \in W : h \notin w.hosts
    BY <1>1
  <1>7. ASSUME NEW k \in Hosts \ {h}, NEW s
        PROVE  (\E w \in W : k \in w.hosts /\ w.start = s)
                 <=> (\E w \in mm_schedule : k \in w.hosts /\ w.start = s)
    <2>1. ASSUME NEW w \in W, k \in w.hosts, w.start = s
          PROVE  \E x \in mm_schedule : k \in x.hosts /\ x.start = s
      BY <1>1, <2>1
    <2>2. ASSUME NEW x \in mm_schedule, k \in x.hosts, x.start = s
          PROVE  \E w \in W : k \in w.hosts /\ w.start = s
      <3>1. [hosts |-> x.hosts \ {h}, start |-> x.start] \in W
        BY <1>2, <2>2
      <3>2. QED
        BY <2>2, <3>1
    <2>3. QED
      BY <2>1, <2>2
  <1>8. QED
    BY <1>4, <1>5, <1>6, <1>7 DEF W

\* What a try that is over leaves of the call.
LEMMA MmOver ==
  ASSUME MmTypes, mm_call.op # "none", NEW done, Mm!Retry \/ Mm!End(done)
  PROVE  /\ mm_got' = {}
         /\ \/ /\ mm_call'.op = "none" /\ mm_call' = Mm!NoCall
            \/ /\ mm_call'.op = mm_call.op /\ mm_call'.host = mm_call.host
               /\ mm_call'.start = mm_call.start /\ mm_wanted' = mm_wanted
         /\ mm_call' \in [op : MmOps, host : Hosts \cup {"none"}, start : Starts \cup {0}, tries : Nat]
         /\ \/ mm_wanted' = mm_wanted
            \/ /\ mm_call.op = "drain" /\ done
               /\ mm_wanted' = [mm_wanted EXCEPT ![mm_call.host] = {mm_call.start}]
            \/ /\ mm_call.op = "up" /\ done
               /\ mm_wanted' = [mm_wanted EXCEPT ![mm_call.host] = {0}]
  <1>1. CASE \E r : Mm!End(r) /\ (r = done \/ r = FALSE)
    <2>1. PICK r : Mm!End(r) /\ (r = done \/ r = FALSE)
      BY <1>1
    <2>2. mm_call' = Mm!NoCall /\ mm_got' = {}
      BY <2>1 DEF Mm!End
    <2>3. \/ mm_wanted' = [mm_wanted EXCEPT ![mm_call.host] = @]
          \/ /\ mm_call.op = "drain" /\ r
             /\ mm_wanted' = [mm_wanted EXCEPT ![mm_call.host] = {mm_call.start}]
          \/ /\ mm_call.op = "up" /\ r
             /\ mm_wanted' = [mm_wanted EXCEPT ![mm_call.host] = {0}]
      BY <2>1 DEF Mm!End
    <2>4. [mm_wanted EXCEPT ![mm_call.host] = @] = mm_wanted
      BY DEF MmTypes
    <2>5. QED
      BY <2>1, <2>2, <2>3, <2>4 DEF Mm!NoCall, Mm!Call, MmOps
  <1>2. CASE /\ mm_call.tries > 1 /\ mm_call' = [mm_call EXCEPT !.tries = @ - 1]
             /\ mm_got' = {} /\ UNCHANGED mm_wanted
    BY <1>2 DEF MmTypes, MmOps
  <1>3. QED
    BY <1>1, <1>2 DEF Mm!Retry

\* The end of a try keeps the invariant if the schedule is left alone.
LEMMA MmFails ==
  ASSUME MmInv, mm_call.op # "none", Mm!Retry \/ Mm!End(FALSE), UNCHANGED <<mm_schedule, mm_downs>>
  PROVE  MmInv'
  <1>1. MmTypes /\ MmDisjoint /\ MmRead /\ MmWanted
    BY DEF MmInv
  <1>2. /\ mm_got' = {} /\ mm_wanted' = mm_wanted
        /\ mm_call'.op = "none" \/ (/\ mm_call'.op = mm_call.op /\ mm_call'.host = mm_call.host
                                    /\ mm_call'.start = mm_call.start)
        /\ mm_call' \in [op : MmOps, host : Hosts \cup {"none"}, start : Starts \cup {0}, tries : Nat]
    BY <1>1, MmOver
  <1>3. MmTypes'
    BY <1>1, <1>2 DEF MmTypes
  <1>4. MmDisjoint' /\ MmRead'
    BY <1>1, <1>2 DEF MmDisjoint, MmRead
  <1>5. MmWanted'
    BY <1>1, <1>2 DEF MmWanted, Mm!Scheduled
  <1>6. QED
    BY <1>3, <1>4, <1>5 DEF MmInv

\* Every step of the drainer, the master and operators keeps the invariant.
LEMMA MmNext ==
  ASSUME MmInv, [Mm!Next]_mm_vars
  PROVE  MmInv'
  <1>0. MmTypes /\ MmDisjoint /\ MmRead /\ MmWanted
    BY DEF MmInv
  <1>1. CASE Mm!OperatorSchedules
    <2>1. PICK H \in SUBSET Hosts, s \in Starts :
            /\ \A h \in H : Mm!Scheduled(h) = {}
            /\ mm_schedule' = mm_schedule \cup {[hosts |-> H, start |-> s]}
            /\ mm_wanted' = [h \in Hosts |-> IF h \in H THEN {s} ELSE mm_wanted[h]]
      BY <1>1 DEF Mm!OperatorSchedules, Mm!Window
    <2>2. UNCHANGED <<mm_downs, mm_call, mm_got>> /\ mm_call.op = "none"
      BY <1>1 DEF Mm!OperatorSchedules, Mm!NoCall, Mm!Call
    <2>3. \A w \in mm_schedule : w.hosts \cap H = {}
      BY <2>1 DEF Mm!Scheduled
    <2>4. MmTypes' /\ MmDisjoint' /\ MmRead'
      BY <1>0, <2>1, <2>2, <2>3 DEF MmTypes, MmDisjoint, MmRead
    <2>5. ASSUME NEW h \in Hosts
          PROVE  /\ Mm!Scheduled(h)' = {} => 0 \in mm_wanted'[h]
                 /\ Mm!Scheduled(h)' \subseteq mm_wanted'[h]
      <3>1. CASE h \in H
        <4>1. \A x : x \in Mm!Scheduled(h)' <=> \E w \in mm_schedule' : h \in w.hosts /\ w.start = x
          BY DEF Mm!Scheduled
        <4>2. [hosts |-> H, start |-> s] \in mm_schedule'
          BY <2>1
        <4>3. s \in Mm!Scheduled(h)'
          BY <3>1, <4>1, <4>2
        <4>4. \A x \in Mm!Scheduled(h)' : x = s
          BY <2>1, <2>3, <3>1, <4>1
        <4>5. mm_wanted'[h] = {s}
          BY <2>1, <3>1
        <4>6. QED
          BY <4>3, <4>4, <4>5
      <3>2. CASE h \notin H
        <4>1. Mm!Scheduled(h)' = Mm!Scheduled(h) /\ mm_wanted'[h] = mm_wanted[h]
          BY <2>1, <3>2 DEF Mm!Scheduled
        <4>2. QED
          BY <1>0, <4>1 DEF MmWanted
      <3>3. QED
        BY <3>1, <3>2
    <2>6. QED
      BY <2>2, <2>4, <2>5 DEF MmInv, MmWanted
  <1>2. CASE Mm!drain \/ Mm!down \/ Mm!up
    <2>1. PICK op \in {"drain", "down", "up"} : Mm!Begin(op)
      BY <1>2 DEF Mm!drain, Mm!down, Mm!up
    <2>2. PICK h \in Hosts, s \in Starts :
            /\ mm_call' = [op |-> op, host |-> h, start |-> IF op = "drain" THEN s ELSE 0, tries |-> MaxTries]
            /\ mm_wanted' = [mm_wanted EXCEPT ![h] = CASE op = "drain" -> @ \cup {s}
                               [] op = "up" /\ h \in mm_downs -> @ \cup {0}
                               [] OTHER -> @]
      BY <2>1 DEF Mm!Begin, Mm!Call
    <2>3. UNCHANGED <<mm_schedule, mm_downs, mm_got>> /\ mm_call.op = "none"
      BY <2>1 DEF Mm!Begin, Mm!NoCall, Mm!Call
    <2>4. /\ mm_wanted' \in [Hosts -> SUBSET (Starts \cup {0})]
          /\ \A k \in Hosts : mm_wanted[k] \subseteq mm_wanted'[k]
          /\ op = "drain" => s \in mm_wanted'[h]
          /\ op = "up" /\ h \in mm_downs => 0 \in mm_wanted'[h]
      BY <1>0, <2>2 DEF MmTypes
    <2>5. MmTypes'
      BY <1>0, <2>2, <2>3, <2>4, ConstantsAssumption DEF MmTypes, MmOps
    <2>6. MmDisjoint' /\ MmRead'
      BY <1>0, <2>3 DEF MmDisjoint, MmRead
    <2>7. MmWanted'
      BY <1>0, <2>2, <2>3, <2>4 DEF MmWanted, Mm!Scheduled
    <2>8. QED
      BY <2>5, <2>6, <2>7 DEF MmInv
  <1>3. CASE Mm!get_maintenance_schedule
    <2>1. mm_call.op = "drain" /\ UNCHANGED <<mm_schedule, mm_downs>>
      BY <1>3 DEF Mm!get_maintenance_schedule
    <2>2. CASE mm_got' = {mm_schedule} /\ UNCHANGED <<mm_call, mm_wanted>>
      <3>1. MmTypes' /\ MmDisjoint' /\ MmRead'
        BY <1>0, <2>1, <2>2 DEF MmTypes, MmDisjoint, MmRead
      <3>2. MmWanted'
        BY <1>0, <2>1, <2>2 DEF MmWanted, Mm!Scheduled
      <3>3. QED
        BY <3>1, <3>2 DEF MmInv
    <2>3. QED
      BY <1>3, <2>1, <2>2, MmFails DEF Mm!get_maintenance_schedule
  <1>4. ASSUME NEW h \in Hosts, mm_call.op \in {"drain", "up"}, mm_call.host = h,
               mm_downs' \subseteq mm_downs, Mm!Retry \/ Mm!End(TRUE),
               \/ /\ mm_call.op = "drain"
                  /\ mm_schedule' = Mm!Without(h, mm_schedule)
                                      \cup {[hosts |-> {h}, start |-> mm_call.start]}
               \/ /\ mm_call.op = "up" /\ h \in mm_downs
                  /\ mm_schedule' = Mm!Without(h, mm_schedule) /\ mm_downs' = mm_downs \ {h}
        PROVE  MmInv'
    <2> DEFINE W == Mm!Without(h, mm_schedule)
               gone == IF mm_call.op = "drain" THEN mm_call.start ELSE 0
    <2>1. /\ W \subseteq [hosts : SUBSET Hosts, start : Starts]
          /\ \A v \in W, w \in W : v # w => v.hosts \cap w.hosts = {}
          /\ \A w \in W : h \notin w.hosts
          /\ \A k \in Hosts \ {h} : \A s :
               (\E w \in W : k \in w.hosts /\ w.start = s)
                 <=> (\E w \in mm_schedule : k \in w.hosts /\ w.start = s)
      BY <1>0, MmWithout
    <2>2. /\ mm_got' = {}
          /\ mm_call'.op = "none" \/ (/\ mm_call'.op = mm_call.op /\ mm_call'.host = h
                                      /\ mm_call'.start = mm_call.start /\ mm_wanted' = mm_wanted)
          /\ mm_call' \in [op : MmOps, host : Hosts \cup {"none"}, start : Starts \cup {0}, tries : Nat]
          /\ \/ mm_wanted' = mm_wanted
             \/ mm_wanted' = [mm_wanted EXCEPT ![h] = {gone}]
      BY <1>0, <1>4, MmOver
    <2>3. gone \in mm_wanted[h] /\ gone \in Starts \cup {0} /\ (mm_call.op = "drain" => gone \in Starts)
      BY <1>0, <1>4 DEF MmWanted, MmTypes
    <2>4. /\ mm_wanted' \in [Hosts -> SUBSET (Starts \cup {0})]
          /\ gone \in mm_wanted'[h] /\ \A k \in Hosts \ {h} : mm_wanted'[k] = mm_wanted[k]
      BY <1>0, <2>2, <2>3 DEF MmTypes
    <2>5. mm_schedule' = W \/ (gone \in Starts /\ mm_schedule' = W \cup {[hosts |-> {h}, start |-> gone]})
      BY <1>4, <2>3
    <2>6. IF mm_call.op = "drain" THEN mm_schedule' = W \cup {[hosts |-> {h}, start |-> gone]}
                                  ELSE mm_schedule' = W /\ gone = 0
      BY <1>4
    <2> HIDE DEF W, gone
    <2>7. MmTypes'
      <3>1. mm_schedule' \subseteq [hosts : SUBSET Hosts, start : Starts]
        BY <2>1, <2>5
      <3>2. mm_downs' \subseteq Hosts
        BY <1>0, <1>4 DEF MmTypes
      <3>3. /\ mm_call'.op # "none" => mm_call'.host \in Hosts
            /\ mm_call'.op = "drain" => mm_call'.start \in Starts
        BY <1>0, <2>2 DEF MmTypes
      <3>4. QED
        BY <2>2, <2>4, <3>1, <3>2, <3>3 DEF MmTypes
    <2>8. MmDisjoint' /\ MmRead'
      <3>1. ASSUME NEW v \in mm_schedule', NEW w \in mm_schedule', v # w
            PROVE  v.hosts \cap w.hosts = {}
        <4>1. v \in W \/ v = [hosts |-> {h}, start |-> gone]
          BY <2>5
        <4>2. w \in W \/ w = [hosts |-> {h}, start |-> gone]
          BY <2>5
        <4>3. CASE v \in W /\ w \in W
          BY <2>1, <3>1, <4>3
        <4>4. CASE v \in W /\ w = [hosts |-> {h}, start |-> gone]
          <5>1. h \notin v.hosts /\ w.hosts = {h}
            BY <2>1, <4>4
          <5>2. QED
            BY <5>1
        <4>5. CASE w \in W /\ v = [hosts |-> {h}, start |-> gone]
          <5>1. h \notin w.hosts /\ v.hosts = {h}
            BY <2>1, <4>5
          <5>2. QED
            BY <5>1
        <4>6. QED
          BY <3>1, <4>1, <4>2, <4>3, <4>4, <4>5
      <3>2. QED
        BY <2>2, <3>1 DEF MmDisjoint, MmRead
    <2>9. ASSUME NEW k \in Hosts
          PROVE  /\ Mm!Scheduled(k)' = {} => 0 \in mm_wanted'[k]
                 /\ Mm!Scheduled(k)' \subseteq mm_wanted'[k]
      <3>1. CASE k = h
        <4>1. \A x : x \in Mm!Scheduled(h)' <=> \E w \in mm_schedule' : h \in w.hosts /\ w.start = x
          BY DEF Mm!Scheduled
        <4>2. \A x \in Mm!Scheduled(h)' : x = gone
          BY <2>1, <2>5, <4>1
        <4>3. mm_call.op = "drain" => gone \in Mm!Scheduled(h)'
          <5>1. SUFFICES ASSUME mm_call.op = "drain" PROVE gone \in Mm!Scheduled(h)'
            OBVIOUS
          <5>2. [hosts |-> {h}, start |-> gone] \in mm_schedule'
            BY <2>6, <5>1
          <5>3. QED
            BY <4>1, <5>2
        <4>4. QED
          BY <2>4, <2>6, <3>1, <4>2, <4>3
      <3>2. CASE k # h
        <4>1. ASSUME NEW s
              PROVE  (\E w \in mm_schedule' : k \in w.hosts /\ w.start = s)
                       <=> (\E w \in mm_schedule : k \in w.hosts /\ w.start = s)
          BY <2>1, <2>5, <3>2
        <4>2. Mm!Scheduled(k)' = Mm!Scheduled(k)
          BY <4>1 DEF Mm!Scheduled
        <4>3. QED
          BY <1>0, <2>4, <3>2, <4>2 DEF MmWanted
      <3>3. QED
        BY <3>1, <3>2
    <2>10. MmWanted'
      BY <1>0, <1>4, <2>2, <2>9 DEF MmWanted
    <2>11. QED
      BY <2>7, <2>8, <2>10 DEF MmInv
  <1>5. CASE Mm!Update
    <2>1. mm_call.op = "drain" /\ mm_got = {mm_schedule} /\ UNCHANGED mm_downs /\ mm_call.host \in Hosts
      BY <1>0, <1>5 DEF Mm!Update, MmRead, MmTypes
    <2>2. CASE mm_schedule' = mm_schedule /\ (Mm!Retry \/ Mm!End(FALSE))
      BY <2>1, <2>2, MmFails
    <2>3. CASE /\ mm_schedule' = Mm!build_maintenance_schedule_payload(mm_call.host, mm_call.start, mm_schedule)
               /\ Mm!End(TRUE) \/ Mm!Retry
      BY <1>4, <2>1, <2>3 DEF Mm!build_maintenance_schedule_payload, Mm!Window
    <2>4. QED
      BY <1>5, <2>1, <2>2, <2>3 DEF Mm!Update
  <1>6. CASE Mm!StartMaintenance
    <2>1. mm_call.op = "down" /\ UNCHANGED mm_schedule /\ mm_call.host \in Hosts
      BY <1>0, <1>6 DEF Mm!StartMaintenance, MmTypes
    <2>2. CASE mm_downs' = mm_downs /\ (Mm!Retry \/ Mm!End(FALSE))
      BY <2>1, <2>2, MmFails
    <2>3. CASE mm_downs' = mm_downs \cup {mm_call.host} /\ (Mm!End(TRUE) \/ Mm!Retry)
      <3>1. /\ mm_got' = {} /\ mm_wanted' = mm_wanted
            /\ mm_call'.op \in {"none", "down"}
            /\ mm_call'.op = "none" \/ mm_call'.host = mm_call.host
            /\ mm_call' \in [op : MmOps, host : Hosts \cup {"none"}, start : Starts \cup {0}, tries : Nat]
        BY <1>0, <2>1, <2>3, MmOver
      <3>2. MmTypes'
        BY <1>0, <2>1, <2>3, <3>1 DEF MmTypes
      <3>3. MmDisjoint' /\ MmRead' /\ MmWanted'
        BY <1>0, <2>1, <3>1 DEF MmDisjoint, MmRead, MmWanted, Mm!Scheduled
      <3>4. QED
        BY <3>2, <3>3 DEF MmInv
    <2>4. QED
      BY <1>6, <2>2, <2>3 DEF Mm!StartMaintenance
  <1>7. CASE Mm!StopMaintenance
    <2>1. mm_call.op = "up" /\ mm_call.host \in Hosts
      BY <1>0, <1>7 DEF Mm!StopMaintenance, MmTypes
    <2>2. CASE UNCHANGED <<mm_downs, mm_schedule>> /\ (Mm!Retry \/ Mm!End(FALSE))
      BY <2>1, <2>2, MmFails
    <2>3. CASE /\ mm_call.host \in mm_downs /\ mm_downs' = mm_downs \ {mm_call.host}
               /\ mm_schedule' = Mm!Without(mm_call.host, mm_schedule) /\ (Mm!End(TRUE) \/ Mm!Retry)
      BY <1>4, <2>1, <2>3
    <2>4. QED
      BY <1>7, <2>2, <2>3 DEF Mm!StopMaintenance
  <1>8. CASE UNCHANGED mm_vars
    BY <1>0, <1>8 DEF mm_vars, MmInv, MmTypes, MmDisjoint, MmRead, MmWanted, Mm!Scheduled
  <1>9. QED
    BY <1>1, <1>2, <1>3, <1>5, <1>6, <1>7, <1>8 DEF Mm!Next

\* A host is in one window at most, the one it was last drained with, and
\* draining it takes no other host's window away, however often a call that
\* the master carried out is tried again.
THEOREM MaintenanceKeepsWindows == Mm!Init /\ [][Mm!Next]_mm_vars => []Mm!WindowsAreKept
  <1>1. MmInv => Mm!WindowsAreKept
    BY DEF Mm!WindowsAreKept, MmInv, MmDisjoint, MmWanted
  <1>2. QED
    BY <1>1, MmInit, MmNext, PTL

-----------------------------------------------------------------------------
(* The cluster metrics collector.                                           *)

CmDone(i, k) ==
  Cm!Writes(k, cm_loaded[i]) =>
    \/ <<cm_loaded[i], k>> \in cm_written
    \/ <<cm_loaded[i], k>> \in cm_partly /\ Cm!Generators[k] = "metadata"

\* As long as no metric has timed out, all metrics before this one, and this
\* one for all pools before this one, are written.
CmInv ==
  /\ cm_at \in Nat \ {0} /\ cm_kind \in Cm!Kinds /\ cm_loaded \in Seq(Cm!PoolSet)
  /\ cm_pc = "write" /\ cm_successful =>
       \A i \in DOMAIN cm_loaded : \A k \in Cm!Kinds :
         k < cm_kind \/ (k = cm_kind /\ i < cm_at) => CmDone(i, k)
  /\ cm_pc = "report" /\ cm_successful =>
       \A i \in DOMAIN cm_loaded : \A k \in Cm!Kinds : CmDone(i, k)

\* Nothing is loaded or written.
LEMMA CmInit == Cm!Init => CmInv
  BY DEF Cm!Init, CmInv, Cm!Kinds

\* The order in which a pass writes keeps the invariant.
LEMMA CmNext ==
  ASSUME CmInv, [Cm!Next]_cm_vars
  PROVE  CmInv'
  <1>0. cm_at \in Nat \ {0} /\ cm_kind \in Cm!Kinds /\ cm_loaded \in Seq(Cm!PoolSet)
        /\ DOMAIN cm_loaded = 1..Len(cm_loaded) /\ Len(cm_loaded) \in Nat
    BY DEF CmInv
  <1>1. CASE Cm!GroupsChange \/ Cm!Loaded \/ Cm!ReloadPool \/ Cm!WriteFails \/ Cm!Report
    <2>1. /\ UNCHANGED <<cm_kind, cm_loaded, cm_written, cm_partly, cm_successful>>
          /\ cm_at' \in Nat \ {0}
          /\ \/ UNCHANGED <<cm_pc, cm_at>>
             \/ cm_pc' \in {"reload", "dead"}
      BY <1>0, <1>1 DEF Cm!GroupsChange, Cm!Loaded, Cm!ReloadPool, Cm!WriteFails, Cm!Report, Cm!Dies
    <2>2. QED
      BY <2>1 DEF CmInv, CmDone, Cm!Writes
  <1>2. CASE Cm!LoadPool
    <2>1. Pools[cm_at] \in Cm!PoolSet
      BY <1>0, <1>2, ConstantsAssumption DEF Cm!LoadPool, Cm!PoolSet, CmInv
    <2>2. cm_loaded' \in Seq(Cm!PoolSet) /\ cm_at' \in Nat \ {0} /\ cm_kind' = cm_kind /\ cm_pc' = "load"
      BY <1>0, <1>2, <2>1 DEF Cm!LoadPool
    <2>3. QED
      BY <1>0, <2>2 DEF CmInv
  <1>3. CASE Cm!Reloaded
    BY <1>0, <1>3 DEF Cm!Reloaded, CmInv, Cm!Kinds
  <1>4. CASE Cm!WritePool
    <2>1. /\ cm_pc = "write" /\ cm_at' = cm_at + 1 /\ cm_at \in DOMAIN cm_loaded
          /\ UNCHANGED <<cm_pc, cm_kind, cm_loaded, cm_successful>>
          /\ cm_written \subseteq cm_written' /\ cm_partly \subseteq cm_partly'
      BY <1>0, <1>4 DEF Cm!WritePool
    <2>2. ASSUME NEW i, NEW k, i = cm_at, k = cm_kind
          PROVE  CmDone(i, k)'
      BY <1>4, <2>1, <2>2 DEF Cm!WritePool, CmDone, Cm!Writes
    <2>3. ASSUME cm_successful, NEW i \in DOMAIN cm_loaded, NEW k \in Cm!Kinds,
                 k < cm_kind \/ (k = cm_kind /\ i < cm_at + 1)
          PROVE  CmDone(i, k)'
      <3>1. CASE k = cm_kind /\ i = cm_at
        BY <2>2, <3>1
      <3>2. CASE k < cm_kind \/ (k = cm_kind /\ i < cm_at)
        BY <2>1, <2>3, <3>2 DEF CmInv, CmDone, Cm!Writes
      <3>3. QED
        BY <1>0, <2>3, <3>1, <3>2
    <2>4. QED
      BY <1>0, <2>1, <2>3 DEF CmInv
  <1>5. CASE Cm!MetricWritten
    <2>1. /\ cm_pc = "write" /\ cm_at > Len(cm_loaded) /\ cm_at' = 1
          /\ UNCHANGED <<cm_loaded, cm_successful, cm_written, cm_partly>>
          /\ \/ cm_kind < 3 /\ cm_kind' = cm_kind + 1 /\ cm_pc' = cm_pc
             \/ ~(cm_kind < 3) /\ cm_kind' = cm_kind /\ cm_pc' = "report"
      BY <1>5 DEF Cm!MetricWritten, Cm!NextMetric
    <2>2. ASSUME cm_successful, NEW i \in DOMAIN cm_loaded, NEW k \in Cm!Kinds, k <= cm_kind
          PROVE  CmDone(i, k)'
      <3>1. CmDone(i, k)
        BY <1>0, <2>1, <2>2 DEF CmInv, Cm!Kinds
      <3>2. QED
        BY <2>1, <3>1 DEF CmDone, Cm!Writes
    <2>3. QED
      BY <1>0, <2>1, <2>2 DEF CmInv, Cm!Kinds
  <1>6. CASE Cm!WriteTimesOut
    <2>1. cm_at' = 1 /\ cm_kind' \in Cm!Kinds /\ ~cm_successful' /\ UNCHANGED cm_loaded
      BY <1>0, <1>6 DEF Cm!WriteTimesOut, Cm!AfterTimeout, Cm!NextMetric, Cm!Kinds
    <2>2. QED
      BY <1>0, <2>1 DEF CmInv
  <1>7. CASE Cm!Restart
    BY <1>7 DEF Cm!Restart, CmInv, Cm!Kinds
  <1>8. CASE UNCHANGED cm_vars
    BY <1>8 DEF cm_vars, CmInv, CmDone, Cm!Writes
  <1>9. QED
    BY <1>1, <1>2, <1>3, <1>4, <1>5, <1>6, <1>7, <1>8 DEF Cm!Next

\* A pass that the collector reports to Sensu wrote every metric of every pool
\* that was loaded, whatever timed out or changed in passes before.
THEOREM CollectorReportsWholePasses == Cm!Init /\ [][Cm!Next]_cm_vars => []Cm!ReportedPassIsWhole
  <1>1. CmInv => Cm!ReportedPassIsWhole
    BY DEF CmInv, CmDone, Cm!ReportedPassIsWhole
  <1>2. QED
    BY <1>1, CmInit, CmNext, PTL

-----------------------------------------------------------------------------
(* The cluster connectors.                                                  *)

\* Every pod that counts and runs on a node of the pool is found under it.
CcInv ==
  cc_pc = "idle" =>
    \A list \in cc_seen : \A n \in cc_nodes \cap Agents : \A p \in Pods :
      /\ Cc!host_ip(list[p]) = n
      /\ cc_mode.use_labels_for_pods => Cc!Spec_(p).labelled
      /\ ~Cc!Excludes(p)
      => p \in Cc!At(cc_byIp, n)

\* Nothing has been reloaded.
LEMMA CcInit == Cc!Init => CcInv
  BY DEF Cc!Init, CcInv

\* Whatever happens between the listings, the second one is filed completely.
LEMMA CcNext ==
  ASSUME CcInv, [Cc!Next]_cc_vars
  PROVE  CcInv'
  <1>0. \A s : \A n \in Agents : Cc!host_ip(s) = n => s.phase = "running"
    BY ConstantsAssumption DEF Cc!host_ip
  <1>1. CASE \/ Cc!NodeJoins \/ Cc!NodeLeaves \/ Cc!PodCreated \/ Cc!PodRejected \/ Cc!PodBound
             \/ Cc!PodRuns \/ Cc!PodEnds \/ Cc!CacheExpires \/ UNCHANGED cc_vars
    <2>1. UNCHANGED <<cc_mode, cc_pc, cc_nodes, cc_byIp, cc_seen>>
      BY <1>1 DEF Cc!NodeJoins, Cc!NodeLeaves, Cc!PodCreated, Cc!PodRejected, Cc!PodBound, Cc!PodRuns,
         Cc!PodEnds, Cc!CacheExpires, Cc!SetPod, Cc!connector, cc_vars
    <2>2. QED
      BY <2>1 DEF CcInv, Cc!At, Cc!Spec_, Cc!Excludes, Cc!_pod_belongs_to_daemonset, Cc!host_ip
  <1>2. CASE Cc!ReloadNodes \/ Cc!ReloadFails
    BY <1>2 DEF Cc!ReloadNodes, Cc!ReloadFails, CcInv
  <1>3. CASE Cc!ReloadPods
    <2>1. PICK list :
            /\ cc_seen' = {list} /\ UNCHANGED <<cc_mode, cc_nodes>>
            /\ cc_byIp' = IF cc_mode.kubernetes THEN Cc!ByIp(Cc!Counted(list), list)
                          ELSE Cc!_count_tasks_per_agent(list)
      BY <1>3 DEF Cc!ReloadPods
    <2>2. ASSUME NEW n \in cc_nodes \cap Agents, NEW p \in Pods, Cc!host_ip(list[p]) = n,
                 cc_mode.use_labels_for_pods => Cc!Spec_(p).labelled, ~Cc!Excludes(p)
          PROVE  p \in Cc!At(cc_byIp', n)
      <3>1. list[p].phase = "running"
        BY <1>0, <2>2
      <3>2. \A S : p \in S => p \in Cc!At(Cc!ByIp(S, list), n)
        BY <2>2 DEF Cc!At, Cc!ByIp
      <3>3. CASE cc_mode.kubernetes
        <4>1. p \in Cc!Considered(list)
          BY <2>2, <3>1 DEF Cc!Considered, Cc!_pod_belongs_to_pool
        <4>2. p \in Cc!Counted(list)
          BY <2>2, <3>1, <4>1 DEF Cc!Counted
        <4>3. QED
          BY <2>1, <3>2, <3>3, <4>2
      <3>4. CASE ~cc_mode.kubernetes
        BY <2>1, <3>1, <3>2, <3>4 DEF Cc!_count_tasks_per_agent
      <3>5. QED
        BY <3>3, <3>4
    <2>3. ASSUME NEW n \in cc_nodes' \cap Agents, NEW p \in Pods, Cc!host_ip(list[p]) = n,
                 cc_mode'.use_labels_for_pods => Cc!Spec_(p)'.labelled, ~Cc!Excludes(p)'
          PROVE  p \in Cc!At(cc_byIp', n)
      BY <2>1, <2>2, <2>3 DEF Cc!Spec_, Cc!Excludes, Cc!_pod_belongs_to_daemonset
    <2>4. QED
      BY <2>1, <2>3 DEF CcInv, Cc!host_ip, Cc!At
  <1>4. CASE Cc!SkipPods
    BY <1>4 DEF Cc!SkipPods, CcInv
  <1>5. CASE Cc!GetAgentMetadata
    <2>1. UNCHANGED <<cc_mode, cc_pc, cc_nodes, cc_seen>>
      BY <1>5 DEF Cc!GetAgentMetadata
    <2>2. \A m : Cc!At(cc_byIp', m) = Cc!At(cc_byIp, m)
      BY <1>5 DEF Cc!GetAgentMetadata, Cc!At
    <2>3. QED
      BY <2>1, <2>2 DEF CcInv, Cc!At, Cc!Spec_, Cc!Excludes, Cc!_pod_belongs_to_daemonset, Cc!host_ip
  <1>6. QED
    BY <1>1, <1>2, <1>3, <1>4, <1>5 DEF Cc!Next

\* A node that is offered for termination although it runs a pod which must not
\* be evicted or, on Mesos, a batch task, is one that the connector does not
\* know.
THEOREM ConnectorKnowsUnsafeNodes == Cc!Init /\ [][Cc!Next]_cc_vars => []Cc!KnownNodesAreSafe
  <1>1. CcInv => Cc!KnownNodesAreSafe
    <2>1. SUFFICES ASSUME CcInv, cc_pc = "idle", NEW list \in cc_seen, NEW n \in Agents,
                          NEW p \in Cc!PodsOn(n, list)
                   PROVE  /\ Cc!is_safe_to_kill(n) /\ ~Cc!Spec_(p).safe_to_evict => Cc!agent_state(n) = "ORPHANED"
                          /\ cc_mode.kubernetes => Cc!agent_state(n) # "IDLE"
      BY DEF Cc!KnownNodesAreSafe
    <2>2. CASE n \notin cc_nodes
      BY <2>2 DEF Cc!agent_state
    <2>3. CASE n \in cc_nodes
      <3>1. p \in Cc!At(cc_byIp, n)
        BY <2>1, <2>3 DEF CcInv, Cc!PodsOn
      <3>2. QED
        BY <2>3, <3>1 DEF Cc!is_safe_to_kill, Cc!_is_node_safe_to_kill, Cc!agent_state
    <2>4. QED
      BY <2>2, <2>3
  <1>2. QED
    BY <1>1, CcInit, CcNext, PTL

-----------------------------------------------------------------------------
(* The accounts of the Kubernetes connector.                                *)

\* The cluster and its listings, cached or not, are what the API can return.
CcTypes ==
  /\ cc_mode \in Modes
  /\ cc_alive \subseteq Agents
  /\ cc_pods \in [Pods -> Cc!PodState]
  /\ \A list \in cc_nodeCache : list \subseteq Agents
  /\ cc_nodes \subseteq Agents
  /\ cc_podCache \subseteq [Pods -> Cc!PodState]
  /\ cc_seen \subseteq [Pods -> Cc!PodState]

CcWaiting(list) == {p \in Cc!Considered(list) : ~Cc!Excludes(p) /\ Cc!_is_unschedulable(list[p])}
CcSetAside(list) == {p \in Cc!Considered(list) : Cc!Excludes(p)}
CcOn(S, list, n) == {p \in S : Cc!host_ip(list[p]) = n}

\* A file of the pods S of a list by address: every pod is under its own one.
CcFiled(file, S, list) ==
  /\ IsFiniteSet(DOMAIN file)
  /\ \A p \in S : Cc!host_ip(list[p]) \in DOMAIN file
  /\ \A n \in DOMAIN file : file[n] = CcOn(S, list, n)

\* What a reload leaves is what the listings said.
CcReloaded ==
  cc_pc = "idle" /\ cc_mode.kubernetes =>
    \A list \in cc_seen :
      /\ CcFiled(cc_byIp, Cc!Counted(list), list)
      /\ cc_pending = CcWaiting(list)
      /\ CcFiled(cc_excluded, CcSetAside(list), list)

CcBooks == CcTypes /\ CcReloaded

\* The sums of the connector are those that SumTheorems is about.
LEMMA CcAdded ==
  ASSUME NEW f, NEW S
  PROVE  Cc!Added(f, S) = SumOf(f, S)
  BY DEF Cc!Added, SumOf, Cc!MapThenSumSet, Cc!MapThenFoldSet, MapThenSumSet, MapThenFoldSet

\* What a set of pods requests is a number, and so is that of a part of it.
LEMMA CcRequested ==
  ASSUME cc_mode \in Modes, NEW S \in SUBSET Pods
  PROVE  /\ IsFiniteSet(S) /\ Cc!Requested(S) = SumOf(Cc!Cpus, S) /\ Cc!Requested(S) \in Nat
         /\ \A p \in S : Cc!Cpus[p] \in Nat /\ Cc!Cpus[p] = Cc!Spec_(p).cpus
  <1>1. IsFiniteSet(S)
    BY ConstantsAssumption, FS_Subset
  <1>2. \A p \in Pods : Cc!Cpus[p] \in Nat /\ Cc!Cpus[p] = Cc!Spec_(p).cpus
    BY ModesAssumption DEF Cc!ModeType, Cc!Cpus, Cc!Spec_
  <1>3. Cc!Requested(S) = SumOf(Cc!Cpus, S)
    BY CcAdded DEF Cc!Requested
  <1>4. SumOf(Cc!Cpus, S) \in Nat
    BY <1>1, <1>2, SumNat
  <1>5. QED
    BY <1>1, <1>2, <1>3, <1>4

\* Two sets without a pod in common request what they request together.
LEMMA CcTogether ==
  ASSUME cc_mode \in Modes, NEW S \in SUBSET Pods, NEW T \in SUBSET S
  PROVE  Cc!Requested(S) = Cc!Requested(S \ T) + Cc!Requested(T)
  <1>1. \A p \in S : Cc!Cpus[p] \in Int
    BY CcRequested
  <1>2. S \ T \in SUBSET Pods /\ T \in SUBSET Pods /\ IsFiniteSet(S)
    BY CcRequested
  <1>3. SumOf(Cc!Cpus, S) = SumOf(Cc!Cpus, S \ T) + SumOf(Cc!Cpus, T)
    BY <1>1, <1>2, SumSplit
  <1>4. QED
    BY <1>2, <1>3, CcRequested

\* Filing by address, as the reload does it.
LEMMA CcByIp ==
  ASSUME NEW S \in SUBSET Pods, NEW list
  PROVE  CcFiled(Cc!ByIp(S, list), S, list)
  <1> DEFINE h == [p \in S |-> Cc!host_ip(list[p])]
  <1>1. IsFiniteSet(S)
    BY ConstantsAssumption, FS_Subset
  <1>2. IsFiniteSet({h[p] : p \in S})
    <2> HIDE DEF h
    <2> QED BY <1>1, FiniteImage
  <1>3. {h[p] : p \in S} = {Cc!host_ip(list[p]) : p \in S}
    OBVIOUS
  <1>4. DOMAIN Cc!ByIp(S, list) = {Cc!host_ip(list[p]) : p \in S}
    BY DEF Cc!ByIp
  <1>5. \A n \in DOMAIN Cc!ByIp(S, list) : Cc!ByIp(S, list)[n] = CcOn(S, list, n)
    BY DEF Cc!ByIp, CcOn
  <1>6. IsFiniteSet(DOMAIN Cc!ByIp(S, list))
    <2> HIDE DEF h
    <2> QED BY <1>2, <1>3, <1>4
  <1>7. QED
    BY <1>4, <1>5, <1>6 DEF CcFiled

\* Nothing has been reloaded.
LEMMA CcBooksInit == Cc!Init => CcBooks
  BY DEF Cc!Init, CcBooks, CcTypes, CcReloaded, Cc!PodState, Cc!Absent

\* Whatever the cluster does, listings stay listings.
LEMMA CcTypesNext ==
  ASSUME CcTypes, [Cc!Next]_cc_vars
  PROVE  CcTypes'
  <1> USE DEF CcTypes
  <1>0. Cc!Absent \in Cc!PodState
    BY DEF Cc!Absent, Cc!PodState
  <1>1. CASE Cc!NodeJoins
    BY <1>1 DEF Cc!NodeJoins, Cc!connector
  <1>2. CASE Cc!NodeLeaves
    BY <1>0, <1>2 DEF Cc!NodeLeaves, Cc!connector
  <1>3. CASE Cc!PodCreated \/ Cc!PodRejected \/ Cc!PodBound \/ Cc!PodRuns \/ Cc!PodEnds
    <2>1. PICK p \in Pods, phase \in {"absent", "new", "unschedulable", "bound", "running"},
               host \in Agents \cup {NoNode} : Cc!SetPod(p, phase, host)
      <3>1. \A p \in Pods : cc_pods[p].host \in Agents \cup {NoNode}
        BY DEF Cc!PodState
      <3>2. QED
        BY <1>3, <3>1 DEF Cc!PodCreated, Cc!PodRejected, Cc!PodBound, Cc!PodRuns, Cc!PodEnds
    <2>2. [phase |-> phase, host |-> host] \in Cc!PodState
      BY DEF Cc!PodState
    <2>3. QED
      BY <2>1, <2>2 DEF Cc!SetPod, Cc!connector
  <1>4. CASE Cc!CacheExpires
    BY <1>4 DEF Cc!CacheExpires
  <1>5. CASE Cc!ReloadNodes
    BY <1>5 DEF Cc!ReloadNodes, Cc!Listed
  <1>6. CASE Cc!ReloadPods
    <2>1. PICK list \in Cc!Listed(cc_podCache, cc_pods) :
            /\ cc_podCache' = IF cc_mode.cache THEN {list} ELSE {}
            /\ cc_seen' = {list}
      BY <1>6 DEF Cc!ReloadPods
    <2>2. list \in [Pods -> Cc!PodState]
      BY <2>1 DEF Cc!Listed
    <2>3. UNCHANGED <<cc_mode, cc_alive, cc_pods, cc_nodeCache, cc_nodes>>
      BY <1>6 DEF Cc!ReloadPods
    <2>4. QED
      BY <2>1, <2>2, <2>3
  <1>7. CASE Cc!SkipPods \/ Cc!ReloadFails \/ Cc!GetAgentMetadata
    BY <1>7 DEF Cc!SkipPods, Cc!ReloadFails, Cc!GetAgentMetadata
  <1>8. CASE UNCHANGED cc_vars
    BY <1>8 DEF cc_vars
  <1>9. QED
    BY <1>1, <1>2, <1>3, <1>4, <1>5, <1>6, <1>7, <1>8 DEF Cc!Next

\* What a reader makes of a listing depends on the mode and the nodes only.
LEMMA CcSameReading ==
  ASSUME UNCHANGED <<cc_mode, cc_nodes>>, NEW list
  PROVE  /\ Cc!Counted(list)' = Cc!Counted(list)
         /\ CcWaiting(list)' = CcWaiting(list)
         /\ CcSetAside(list)' = CcSetAside(list)
  BY DEF Cc!Counted, CcWaiting, CcSetAside, Cc!Considered, Cc!_pod_belongs_to_pool, Cc!BelongsBySelector,
     Cc!Excludes, Cc!_pod_belongs_to_daemonset, Cc!Spec_, Cc!host_ip, Cc!_is_recently_scheduled,
     Cc!_is_unschedulable

\* Between two reloads the books only get empty pages.
LEMMA CcBooksNext ==
  ASSUME CcBooks, [Cc!Next]_cc_vars
  PROVE  CcBooks'
  <1>0. CcTypes /\ CcTypes'
    BY CcTypesNext DEF CcBooks
  <1>1. CASE \/ Cc!NodeJoins \/ Cc!NodeLeaves \/ Cc!PodCreated \/ Cc!PodRejected \/ Cc!PodBound
             \/ Cc!PodRuns \/ Cc!PodEnds \/ Cc!CacheExpires \/ UNCHANGED cc_vars
    <2>1. UNCHANGED <<cc_mode, cc_pc, cc_nodes, cc_byIp, cc_pending, cc_excluded, cc_seen>>
      BY <1>1 DEF Cc!NodeJoins, Cc!NodeLeaves, Cc!PodCreated, Cc!PodRejected, Cc!PodBound, Cc!PodRuns,
         Cc!PodEnds, Cc!CacheExpires, Cc!SetPod, Cc!connector, cc_vars
    <2>2. CcReloaded'
      BY <2>1, CcSameReading DEF CcBooks, CcReloaded
    <2>3. QED
      BY <1>0, <2>2 DEF CcBooks
  <1>2. CASE Cc!ReloadNodes \/ Cc!ReloadFails
    BY <1>0, <1>2 DEF Cc!ReloadNodes, Cc!ReloadFails, CcBooks, CcReloaded
  <1>3. CASE Cc!ReloadPods
    <2>1. PICK list :
            /\ cc_seen' = {list} /\ UNCHANGED <<cc_mode, cc_nodes>>
            /\ cc_mode.kubernetes => /\ cc_byIp' = Cc!ByIp(Cc!Counted(list), list)
                                     /\ cc_pending' = CcWaiting(list)
                                     /\ cc_excluded' = Cc!ByIp(CcSetAside(list), list)
      BY <1>3 DEF Cc!ReloadPods, CcWaiting, CcSetAside
    <2>2. Cc!Counted(list) \in SUBSET Pods /\ CcSetAside(list) \in SUBSET Pods
      BY DEF Cc!Counted, CcSetAside, Cc!Considered
    <2>3. cc_mode.kubernetes => /\ CcFiled(cc_byIp', Cc!Counted(list), list)
                                /\ CcFiled(cc_excluded', CcSetAside(list), list)
      BY <2>1, <2>2, CcByIp
    <2>4. CcReloaded'
      BY <2>1, <2>3, CcSameReading DEF CcReloaded
    <2>5. QED
      BY <1>0, <2>4 DEF CcBooks
  <1>4. CASE Cc!SkipPods
    BY <1>0, <1>4 DEF Cc!SkipPods, CcBooks, CcReloaded
  <1>5. CASE Cc!GetAgentMetadata
    <2>1. PICK n \in cc_nodes \ DOMAIN cc_byIp :
            cc_byIp' = [m \in DOMAIN cc_byIp \cup {n} |-> Cc!At(cc_byIp, m)]
      BY <1>5 DEF Cc!GetAgentMetadata
    <2>2. UNCHANGED <<cc_mode, cc_pc, cc_nodes, cc_pending, cc_excluded, cc_seen>> /\ cc_pc = "idle"
      BY <1>5 DEF Cc!GetAgentMetadata
    <2>3. ASSUME NEW S, NEW list, CcFiled(cc_byIp, S, list)
          PROVE  CcFiled(cc_byIp', S, list)
      <3>1. DOMAIN cc_byIp' = DOMAIN cc_byIp \cup {n}
        BY <2>1
      <3>2. IsFiniteSet(DOMAIN cc_byIp \cup {n})
        BY <2>3, FS_AddElement DEF CcFiled
      <3>3. CcOn(S, list, n) = {}
        BY <2>1, <2>3 DEF CcFiled, CcOn
      <3>4. \A m \in DOMAIN cc_byIp' : cc_byIp'[m] = CcOn(S, list, m)
        BY <2>1, <2>3, <3>3 DEF CcFiled, Cc!At
      <3>5. QED
        BY <2>3, <3>1, <3>2, <3>4 DEF CcFiled
    <2>4. CcReloaded'
      BY <2>2, <2>3, CcSameReading DEF CcBooks, CcReloaded
    <2>5. QED
      BY <1>0, <2>4 DEF CcBooks
  <1>6. QED
    BY <1>1, <1>2, <1>3, <1>4, <1>5 DEF Cc!Next

\* The pods of the pool that the connector looks at, and the daemonset pods
\* that run on its nodes.
CcSeen(list) == {p \in Cc!PoolPods(list) : ~Cc!Overlooked(p, list[p])}
CcHere(list) == {p \in CcSetAside(list) : Cc!host_ip(list[p]) \in cc_nodes}

\* Such a pod is counted, waits or is set aside, and no two of these; on a node,
\* it is counted or set aside.
LEMMA CcThreeWays ==
  ASSUME CcTypes, ~cc_mode.use_labels_for_pods, NEW list \in cc_seen
  PROVE  /\ CcSeen(list) \in SUBSET Pods
         /\ Cc!Counted(list) \in SUBSET CcSeen(list)
         /\ CcWaiting(list) \in SUBSET (CcSeen(list) \ Cc!Counted(list))
         /\ CcHere(list) = (CcSeen(list) \ Cc!Counted(list)) \ CcWaiting(list)
         /\ \A n \in cc_nodes :
              /\ CcOn(Cc!Counted(list), list, n) \in SUBSET CcOn(Pods, list, n)
              /\ CcOn(CcSetAside(list), list, n)
                   = CcOn(Pods, list, n) \ CcOn(Cc!Counted(list), list, n)
  <1>1. \A p \in Pods : list[p].phase \in {"absent", "new", "unschedulable", "bound", "running"}
    BY DEF CcTypes, Cc!PodState
  <1>2. NoNode \notin cc_nodes
    BY ConstantsAssumption DEF CcTypes
  <1>3. \A p \in Pods : Cc!host_ip(list[p]) \in cc_nodes <=>
          list[p].phase = "running" /\ list[p].host \in cc_nodes
    BY <1>2 DEF Cc!host_ip
  <1>4. \A p \in Pods : p \in CcSeen(list) <=> p \in Cc!Considered(list) /\ ~Cc!Overlooked(p, list[p])
    BY <1>1, <1>3 DEF CcSeen, Cc!PoolPods, Cc!Considered, Cc!_pod_belongs_to_pool, Cc!BelongsBySelector
  <1>5. CcSeen(list) \in SUBSET Pods /\ Cc!Considered(list) \in SUBSET Pods
    BY DEF CcSeen, Cc!PoolPods, Cc!Considered
  <1>6. /\ Cc!Counted(list) \in SUBSET CcSeen(list)
        /\ CcWaiting(list) \in SUBSET (CcSeen(list) \ Cc!Counted(list))
    BY <1>4, <1>5
    DEF Cc!Counted, CcWaiting, Cc!_is_unschedulable, Cc!_is_recently_scheduled, Cc!Overlooked
  <1>7. CcHere(list) = (CcSeen(list) \ Cc!Counted(list)) \ CcWaiting(list)
    <2>1. SUFFICES ASSUME NEW p \in Pods
                   PROVE  p \in CcHere(list) <=>
                            p \in CcSeen(list) /\ p \notin Cc!Counted(list) /\ p \notin CcWaiting(list)
      BY <1>5 DEF CcHere, CcSetAside
    <2>2. p \in Cc!Considered(list) => list[p].phase # "absent"
      BY DEF Cc!Considered
    <2>3. QED
      BY <1>1, <1>4, <2>2
      DEF CcHere, Cc!Counted, CcWaiting, CcSetAside, Cc!_is_unschedulable, Cc!_is_recently_scheduled, Cc!Overlooked
  <1>8. CcSetAside(list) \in SUBSET Pods
    BY <1>5 DEF CcSetAside
  <1>9. \A p \in Pods : Cc!host_ip(list[p]) \in cc_nodes =>
          (p \in CcSetAside(list) <=> p \notin Cc!Counted(list))
    <2>1. SUFFICES ASSUME NEW p \in Pods, Cc!host_ip(list[p]) \in cc_nodes
                   PROVE  p \in CcSetAside(list) <=> p \notin Cc!Counted(list)
      OBVIOUS
    <2>2. list[p].phase = "running" /\ p \in Cc!Considered(list)
      BY <1>3, <2>1 DEF Cc!Considered, Cc!_pod_belongs_to_pool
    <2>3. QED
      BY <2>2 DEF CcSetAside, Cc!Counted
  <1>10. Cc!Counted(list) \in SUBSET Pods
    BY <1>5, <1>6
  <1>11. \A n \in cc_nodes :
           /\ CcOn(Cc!Counted(list), list, n) \in SUBSET CcOn(Pods, list, n)
           /\ CcOn(CcSetAside(list), list, n)
                = CcOn(Pods, list, n) \ CcOn(Cc!Counted(list), list, n)
    BY <1>8, <1>9, <1>10 DEF CcOn
  <1>12. QED
    BY <1>5, <1>6, <1>7, <1>8, <1>11

\* Adding up by node is adding up.
LEMMA CcAllocation ==
  ASSUME cc_mode \in Modes, NEW list, NEW S \in SUBSET Pods, CcFiled(cc_byIp, S, list)
  PROVE  Cc!get_resource_allocation = Cc!Requested(S)
  <1> DEFINE D == DOMAIN cc_byIp
             g == [n \in D |-> Cc!Requested(cc_byIp[n])]
             h == [p \in S |-> Cc!host_ip(list[p])]
             f == Cc!Cpus
  <1>1. Cc!get_resource_allocation = SumOf(g, D)
    BY CcAdded DEF Cc!get_resource_allocation
  <1>2. IsFiniteSet(S) /\ Cc!Requested(S) = SumOf(f, S) /\ \A p \in S : f[p] \in Int
    BY CcRequested
  <1>3. IsFiniteSet(D) /\ \A p \in S : h[p] \in D
    BY DEF CcFiled
  <1>4. ASSUME NEW n \in D
        PROVE  g[n] = SumOf(f, {p \in S : h[p] = n})
    <2>1. cc_byIp[n] = {p \in S : h[p] = n}
      BY <1>4 DEF CcFiled, CcOn
    <2>2. {p \in S : h[p] = n} \in SUBSET Pods
      OBVIOUS
    <2>3. Cc!Requested(cc_byIp[n]) = SumOf(f, {p \in S : h[p] = n})
      <3> HIDE DEF f, h
      <3> QED BY <2>1, <2>2, CcRequested DEF f
    <2>4. QED
      BY <2>3
  <1> HIDE DEF D, g, h, f
  <1>5. SumOf(g, D) = SumOf(f, S)
    <2>1. SummedBy(f, S, h, g, D)
      BY <1>4, Zenon DEF SummedBy
    <2>2. QED
      BY <1>2, <1>3, <2>1, SumPartition
  <1>6. QED
    BY <1>1, <1>2, <1>5

\* Every pod that is looked at is paid for exactly once.
LEMMA CcPaid ==
  ASSUME CcBooks
  PROVE  Cc!PodsAreAccounted
  <1>1. SUFFICES ASSUME cc_pc = "idle", cc_mode.kubernetes, ~cc_mode.use_labels_for_pods,
                        NEW list \in cc_seen
                 PROVE  Cc!get_resource_allocation + Cc!get_resource_pending + Cc!get_resource_excluded
                          = Cc!Requested(CcSeen(list))
    BY DEF Cc!PodsAreAccounted, CcSeen
  <1> DEFINE P == CcSeen(list)
             C == Cc!Counted(list)
             W == CcWaiting(list)
             X == CcHere(list)
  <1>2. CcTypes /\ cc_mode \in Modes
    BY DEF CcBooks, CcTypes
  <1>3. CcFiled(cc_byIp, C, list) /\ cc_pending = W /\ CcFiled(cc_excluded, CcSetAside(list), list)
    BY <1>1 DEF CcBooks, CcReloaded
  <1>4. P \in SUBSET Pods /\ C \in SUBSET P /\ W \in SUBSET (P \ C) /\ X = (P \ C) \ W
    BY <1>1, <1>2, CcThreeWays
  <1>5. UNION {Cc!At(cc_excluded, n) : n \in cc_nodes} = X
    <2>1. \A n : Cc!At(cc_excluded, n) = CcOn(CcSetAside(list), list, n)
      BY <1>3 DEF CcFiled, CcOn, Cc!At
    <2>2. QED
      BY <2>1 DEF CcOn, CcHere
  <1> HIDE DEF P, C, W, X
  <1>6. C \in SUBSET Pods /\ P \ C \in SUBSET Pods /\ W \in SUBSET Pods /\ X \in SUBSET Pods
    BY <1>4
  <1>7. /\ Cc!get_resource_allocation = Cc!Requested(C)
        /\ Cc!get_resource_pending = Cc!Requested(W)
        /\ Cc!get_resource_excluded = Cc!Requested(X)
    BY <1>2, <1>3, <1>5, <1>6, CcAllocation DEF Cc!get_resource_pending, Cc!get_resource_excluded
  <1>8. Cc!Requested(P) = Cc!Requested(P \ C) + Cc!Requested(C)
    BY <1>2, <1>4, CcTogether
  <1>9. Cc!Requested(P \ C) = Cc!Requested(X) + Cc!Requested(W)
    BY <1>2, <1>4, <1>6, CcTogether
  <1>10. Cc!Requested(C) \in Nat /\ Cc!Requested(W) \in Nat /\ Cc!Requested(X) \in Nat
    BY <1>2, <1>6, CcRequested
  <1>11. QED
    BY <1>7, <1>8, <1>9, <1>10 DEF P

\* Room that is promised is there.
LEMMA CcRoom ==
  ASSUME CcBooks
  PROVE  Cc!RoomIsReal
  <1>1. SUFFICES ASSUME cc_pc = "idle", cc_mode.kubernetes, ~cc_mode.use_labels_for_pods,
                        Cc!has_enough_capacity_for_pods, NEW list \in cc_seen, NEW p \in cc_pending
                 PROVE  \E n \in cc_nodes :
                          Cc!Spec_(p).cpus + Cc!Requested({q \in Pods : Cc!host_ip(list[q]) = n})
                            <= NodeCpus
    BY DEF Cc!RoomIsReal
  <1>2. CcTypes /\ cc_mode \in Modes
    BY DEF CcBooks, CcTypes
  <1>3. /\ CcFiled(cc_byIp, Cc!Counted(list), list) /\ cc_pending = CcWaiting(list)
        /\ CcFiled(cc_excluded, CcSetAside(list), list)
    BY <1>1 DEF CcBooks, CcReloaded
  <1>4. PICK n \in DOMAIN cc_byIp \cap cc_nodes :
          Cc!Spec_(p).cpus <= Cc!total_node_resources(n) - Cc!Requested(cc_byIp[n])
    BY <1>1 DEF Cc!has_enough_capacity_for_pods, Cc!HasRoom
  <1> DEFINE A == CcOn(Pods, list, n)
             C == CcOn(Cc!Counted(list), list, n)
             X == CcOn(CcSetAside(list), list, n)
  <1>5. cc_byIp[n] = C /\ Cc!At(cc_excluded, n) = X
    BY <1>3, <1>4 DEF CcFiled, CcOn, Cc!At
  <1>6. A \in SUBSET Pods /\ C \in SUBSET A /\ X = A \ C
    <2>1. A \in SUBSET Pods
      BY DEF CcOn
    <2>2. QED
      BY <1>1, <1>2, <1>4, <2>1, CcThreeWays
  <1>7. A = {q \in Pods : Cc!host_ip(list[q]) = n}
    BY DEF CcOn
  <1> HIDE DEF A, C, X
  <1>8. Cc!Requested(A) = Cc!Requested(X) + Cc!Requested(C)
    BY <1>2, <1>6, CcTogether
  <1>9. Cc!Requested(A) \in Nat /\ Cc!Requested(X) \in Nat /\ Cc!Requested(C) \in Nat
    <2>1. C \in SUBSET Pods /\ X \in SUBSET Pods
      BY <1>6
    <2>2. QED
      BY <1>2, <1>6, <2>1, CcRequested
  <1>10. Cc!Spec_(p).cpus \in Nat
    <2>1. p \in Pods
      BY <1>3 DEF CcWaiting, Cc!Considered
    <2>2. {p} \in SUBSET Pods
      BY <2>1
    <2>3. QED
      BY <1>2, <2>2, CcRequested
  <1>11. Cc!Spec_(p).cpus <= NodeCpus - Cc!Requested(X) - Cc!Requested(C)
    BY <1>4, <1>5 DEF Cc!total_node_resources
  <1>12. Cc!Spec_(p).cpus + Cc!Requested(A) <= NodeCpus
    BY <1>8, <1>9, <1>10, <1>11, ConstantsAssumption
  <1>13. QED
    BY <1>4, <1>7, <1>12

\* The accounts of a reload are right, however the cluster moved between the
\* two listings and whichever of them came from the cache.
THEOREM ConnectorAccountsAreRight == Cc!Init /\ [][Cc!Next]_cc_vars => []Cc!AccountsAreRight
  <1>1. CcBooks => Cc!AccountsAreRight
    BY CcPaid, CcRoom DEF Cc!AccountsAreRight
  <1>2. QED
    BY <1>1, CcBooksInit, CcBooksNext, PTL

-----------------------------------------------------------------------------
(* Migration events.                                                        *)

\* What a resource asks for.
EvRequest(r) == [labels |-> r.labels, condition |-> Ev!from_dict(r.condition)]

\* A resource that can be read asks for what was submitted under its name, and
\* so does an event that is listed; what is submitted stays, as the names of
\* resources are taken.
EvInv ==
  /\ ev_clock \in 1..MaxClock
  /\ ev_submitted = [t \in 1..MaxClock |-> ev_submitted[t]]
  /\ \A r \in ev_crds : /\ r.name \in 1..MaxClock
                        /\ Ev!Understood(r.condition) => EvRequest(r) \in ev_submitted[r.name]
  /\ \A e \in ev_listed :
       Ev!Taken(e.name) /\ [labels |-> e.labels, condition |-> e.condition] \in ev_submitted[e.name]
  /\ ev_work.name # 0 => Ev!Taken(ev_work.name)
  /\ Ev!RequestIsCarriedOut

\* Cardinality, as the instance knows it.
LEMMA EvCardinality == \A S : Ev!Cardinality(S) = Cardinality(S)
  BY DEF Ev!Cardinality, Cardinality

\* What is written into a resource is read back as it was submitted.
LEMMA EvRoundTrip ==
  ASSUME NEW trait, NEW op, NEW input
  PROVE  Ev!from_dict(Ev!to_dict(Ev!from_dict(Ev!Condition(trait, op, input))))
           = Ev!from_dict(Ev!Condition(trait, op, input))
  <1>1. \A v : Ev!Load(<<"plain", v>>) = v
    BY DEF Ev!Load
  <1> DEFINE c == Ev!from_dict(Ev!Condition(trait, op, input))
             d == Ev!to_dict(c)
  <1>2. c.trait = trait /\ c.op = op /\ c.target = [i \in DOMAIN input |-> Ev!Load(input[i])]
    BY DEF Ev!from_dict, Ev!Condition
  <1>3. /\ d.trait = c.trait /\ d.op = c.op
        /\ d.target = [i \in DOMAIN c.target |-> <<"plain", c.target[i]>>]
    BY DEF Ev!to_dict, Ev!Condition
  <1> HIDE DEF c, d
  <1>4. [i \in DOMAIN d.target |-> Ev!Load(d.target[i])] = c.target
    BY <1>1, <1>2, <1>3
  <1>5. Ev!from_dict(d) = Ev!Condition(trait, op, c.target)
    BY <1>2, <1>3, <1>4 DEF Ev!from_dict
  <1>6. c = Ev!Condition(trait, op, c.target)
    BY <1>2 DEF c, Ev!from_dict, Ev!Condition
  <1>7. QED
    BY <1>5, <1>6 DEF c, d

\* A portion that is not nothing is a node at least.
LEMMA EvPortion ==
  ASSUME NEW rate \in Rates, rate.value > 0, NEW size \in Nat
  PROVE  Ev!of(rate, size) \in Int /\ Ev!of(rate, size) >= 1
  <1>0. rate.value \in Nat
    BY ConstantsAssumption
  <1>1. CASE rate.percent
    <2> DEFINE x == Ev!RoundHalfEven(rate.value * size, 100)
    <2>1. rate.value * size \in Int
      BY <1>0
    <2>2. x \in Int
      BY <2>1 DEF Ev!RoundHalfEven
    <2> HIDE DEF x
    <2>3. Ev!of(rate, size) = CHOOSE y \in {1, x} : \A z \in {1, x} : y >= z
      BY <1>0, <1>1 DEF Ev!of, Ev!OfPercent, Ev!Max, x
    <2>4. \E y \in {1, x} : \A z \in {1, x} : y >= z
      BY <2>2
    <2>5. QED
      BY <2>2, <2>3, <2>4
  <1>2. CASE ~rate.percent
    BY <1>0, <1>2 DEF Ev!of
  <1>3. QED
    BY <1>1, <1>2

\* The pool has finitely many nodes, known by their place in PoolNodes.
LEMMA EvPool ==
  /\ DOMAIN PoolNodes \in SUBSET Nat /\ IsFiniteSet(DOMAIN PoolNodes)
  /\ \A n \in DOMAIN PoolNodes : PoolNodes[n].uptime \in Nat /\ PoolNodes[n].task_count \in Nat
  <1> DEFINE Node == [kernel : {"plain", "odd"} \X Nat, lsbrelease : {"plain", "odd"} \X Nat,
                      instance_type : Nat, uptime : Nat, task_count : Nat, labels : SUBSET STRING]
  <1>1. PoolNodes \in Seq(Node)
    BY ConstantsAssumption
  <1>3. \A x \in Node : x.uptime \in Nat /\ x.task_count \in Nat
    OBVIOUS
  <1> HIDE DEF Node
  <1>4. Len(PoolNodes) \in Nat /\ DOMAIN PoolNodes = 1..Len(PoolNodes)
        /\ \A n \in 1..Len(PoolNodes) : PoolNodes[n] \in Node
    BY <1>1
  <1>5. IsFiniteSet(1..Len(PoolNodes))
    BY <1>4, FS_Interval
  <1>6. QED
    BY <1>3, <1>4, <1>5

\* The nodes that _drain_node_selection takes before node n.
EvBefore(S, precedence, n) ==
  {m \in S : \/ Ev!SortKey(precedence, m) < Ev!SortKey(precedence, n)
             \/ Ev!SortKey(precedence, m) = Ev!SortKey(precedence, n) /\ m < n}

\* There is a first one: the one that the fewest nodes come before.
LEMMA EvFirst ==
  ASSUME NEW S \in SUBSET DOMAIN PoolNodes, S # {}, NEW precedence
  PROVE  \E n \in S : EvBefore(S, precedence, n) = {}
  <1> DEFINE key(n) == Ev!SortKey(precedence, n)
             before(n) == EvBefore(S, precedence, n)
             D == {Cardinality(before(n)) : n \in S}
  <1>1. \A n \in S : n \in Nat /\ key(n) \in Int
    <2>1. SUFFICES ASSUME NEW n \in S PROVE n \in Nat /\ key(n) \in Int
      OBVIOUS
    <2>2. n \in Nat /\ PoolNodes[n].uptime \in Nat /\ PoolNodes[n].task_count \in Nat
      BY EvPool
    <2>3. QED
      BY <2>2 DEF Ev!SortKey
  <1>2. IsFiniteSet(S)
    BY EvPool, FS_Subset
  <1>3. \A n \in S : before(n) \in SUBSET S /\ IsFiniteSet(before(n)) /\ Cardinality(before(n)) \in Nat
    <2>1. SUFFICES ASSUME NEW n \in S
                   PROVE  before(n) \in SUBSET S /\ IsFiniteSet(before(n)) /\ Cardinality(before(n)) \in Nat
      OBVIOUS
    <2>2. before(n) \in SUBSET S
      BY DEF EvBefore
    <2> HIDE DEF before
    <2>3. IsFiniteSet(before(n))
      BY <1>2, <2>2, FS_Subset
    <2>4. QED
      BY <2>2, <2>3, FS_CardinalityType
  <1>4. ASSUME NEW n \in S, NEW m \in before(n)
        PROVE  m \in S /\ before(m) \in SUBSET before(n) /\ m \notin before(m)
    BY <1>1, <1>4 DEF EvBefore
  <1> HIDE DEF before, key
  <1>5. PICK n \in S : \A m \in S : Cardinality(before(n)) <= Cardinality(before(m))
    <2>1. D \in SUBSET Nat /\ D # {}
      BY <1>3
    <2>2. PICK d \in D : \A e \in D : d <= e
      <3> HIDE DEF D
      <3> QED BY <2>1, SmallestNumber
    <2>3. QED
      BY <2>2
  <1>6. SUFFICES ASSUME NEW m \in before(n) PROVE FALSE
    BY <1>5 DEF before
  <1>7. m \in S /\ before(m) \in SUBSET before(n) /\ before(m) # before(n)
    BY <1>4, <1>5, <1>6
  <1>8. Cardinality(before(m)) <= Cardinality(before(n)) /\ Cardinality(before(m)) # Cardinality(before(n))
    <2>1. IsFiniteSet(before(n))
      BY <1>3
    <2>2. QED
      BY <1>7, <2>1, FS_Subset
  <1>9. Cardinality(before(m)) \in Nat /\ Cardinality(before(n)) \in Nat
    BY <1>3, <1>7
  <1>10. QED
    BY <1>5, <1>7, <1>8, <1>9

\* No resource, no event.
LEMMA EvInit == Ev!Init => EvInv
  BY ConstantsAssumption DEF Ev!Init, EvInv, Ev!NoWork, Ev!RequestIsCarriedOut

\* Every step of the command line, of others and of the batch keeps it.
LEMMA EvNext ==
  ASSUME EvInv, [Ev!Next]_ev_vars
  PROVE  EvInv'
  <1>0. /\ ev_clock \in 1..MaxClock /\ MaxClock \in Nat \ {0}
        /\ ev_submitted = [t \in 1..MaxClock |-> ev_submitted[t]]
    BY ConstantsAssumption DEF EvInv
  <1>1. CASE Ev!Tick
    <2>1. UNCHANGED <<ev_crds, ev_submitted, ev_listed, ev_work>> /\ ev_clock' \in 1..MaxClock
      BY <1>0, <1>1 DEF Ev!Tick
    <2>2. QED
      BY <2>1 DEF EvInv, Ev!Taken, Ev!RequestIsCarriedOut
  <1>2. ASSUME ~Ev!Taken(ev_clock), UNCHANGED <<ev_clock, ev_listed, ev_work>>,
               NEW r, ev_crds' = ev_crds \cup {r}, r.name = ev_clock,
               \A t \in 1..MaxClock : t # ev_clock => ev_submitted'[t] = ev_submitted[t],
               ev_submitted' = [t \in 1..MaxClock |-> ev_submitted'[t]],
               Ev!Understood(r.condition) => EvRequest(r) \in ev_submitted'[ev_clock]
        PROVE  EvInv'
    <2>1. \A q \in ev_crds : q.name # ev_clock
      BY <1>2 DEF Ev!Taken
    <2>2. \A q \in ev_crds' : /\ q.name \in 1..MaxClock
                              /\ Ev!Understood(q.condition) => EvRequest(q) \in ev_submitted'[q.name]
      BY <1>0, <1>2, <2>1 DEF EvInv
    <2>3. \A name : Ev!Taken(name) => name # ev_clock /\ name \in 1..MaxClock /\ Ev!Taken(name)'
      BY <1>2, <2>1 DEF EvInv, Ev!Taken
    <2>4. \A e \in ev_listed :
            /\ Ev!Taken(e.name)'
            /\ [labels |-> e.labels, condition |-> e.condition] \in ev_submitted'[e.name]
      BY <1>2, <2>3 DEF EvInv
    <2>5. ev_work.name # 0 => Ev!Taken(ev_work.name)' /\ ev_submitted'[ev_work.name] = ev_submitted[ev_work.name]
      BY <1>2, <2>3 DEF EvInv, Ev!Taken
    <2>6. Ev!RequestIsCarriedOut'
      BY <1>2, <2>5 DEF EvInv, Ev!RequestIsCarriedOut
    <2>7. QED
      BY <1>0, <1>2, <2>2, <2>4, <2>5, <2>6 DEF EvInv, Ev!Taken
  <1>3. CASE Ev!Migrate
    <2>1. PICK trait, op, input, labels :
            Ev!create_node_migration_resource(ev_clock, labels,
                                              Ev!from_dict(Ev!Condition(trait, op, input)))
      BY <1>3 DEF Ev!Migrate
    <2> DEFINE c == Ev!from_dict(Ev!Condition(trait, op, input))
               r == Ev!to_crd_body(ev_clock, "pending", labels, c)
               s == [labels |-> labels, condition |-> c]
    <2>2. /\ ~Ev!Taken(ev_clock) /\ ev_crds' = ev_crds \cup {r}
          /\ ev_submitted' = [ev_submitted EXCEPT ![ev_clock] = {s}]
      BY <2>1 DEF Ev!create_node_migration_resource
    <2>3. r.name = ev_clock /\ EvRequest(r) = s
      BY EvRoundTrip DEF Ev!to_crd_body, EvRequest
    <2> HIDE DEF r, c, s
    <2>4. /\ ev_submitted' = [t \in 1..MaxClock |-> ev_submitted'[t]] /\ ev_submitted'[ev_clock] = {s}
          /\ \A t \in 1..MaxClock : t # ev_clock => ev_submitted'[t] = ev_submitted[t]
      BY <1>0, <2>2
    <2>5. UNCHANGED <<ev_clock, ev_listed, ev_work>>
      BY <1>3 DEF Ev!Migrate
    <2>6. QED
      BY <1>2, <2>2, <2>3, <2>4, <2>5
  <1>4. CASE Ev!ForeignResource
    <2> DEFINE c == Ev!Condition("uptime", "eq", <<>>)
               r == [name |-> ev_clock, status |-> "pending", labels |-> {}, condition |-> c]
    <2>1. ~Ev!Understood(c)
      BY DEF Ev!Understood, Ev!Condition, Ev!SUPPORT_MATRIX
    <2>2. UNCHANGED <<ev_clock, ev_listed, ev_work, ev_submitted>> /\ ~Ev!Taken(ev_clock)
      BY <1>4 DEF Ev!ForeignResource
    <2>3. ev_crds' = ev_crds \cup {r} /\ r.name = ev_clock /\ ~Ev!Understood(r.condition)
      BY <1>4, <2>1 DEF Ev!ForeignResource
    <2> HIDE DEF r, c
    <2>4. /\ \A t \in 1..MaxClock : t # ev_clock => ev_submitted'[t] = ev_submitted[t]
          /\ ev_submitted' = [t \in 1..MaxClock |-> ev_submitted'[t]]
      BY <1>0, <2>2
    <2>5. QED
      BY <1>2, <2>2, <2>3, <2>4
  <1>5. CASE Ev!List
    <2>1. UNCHANGED <<ev_clock, ev_crds, ev_submitted, ev_work>>
      BY <1>5 DEF Ev!List
    <2>2. \A e \in ev_listed' : \E r \in ev_crds : Ev!Understood(r.condition) /\ e = Ev!from_crd(r)
      BY <1>5 DEF Ev!List
    <2>3. ASSUME NEW e \in ev_listed'
          PROVE  /\ Ev!Taken(e.name)
                 /\ [labels |-> e.labels, condition |-> e.condition] \in ev_submitted[e.name]
      <3>1. PICK r \in ev_crds : Ev!Understood(r.condition) /\ e = Ev!from_crd(r)
        BY <2>2
      <3>2. e.name = r.name /\ e.labels = r.labels /\ e.condition = Ev!from_dict(r.condition)
        BY <3>1 DEF Ev!from_crd
      <3>3. EvRequest(r) \in ev_submitted[r.name]
        BY <3>1 DEF EvInv
      <3>4. QED
        BY <3>2, <3>3 DEF EvRequest, Ev!Taken
    <2>4. QED
      BY <2>1, <2>3 DEF EvInv, Ev!Taken, Ev!RequestIsCarriedOut
  <1>6. CASE Ev!Recycle
    <2>1. UNCHANGED <<ev_clock, ev_crds, ev_submitted, ev_listed>>
      BY <1>6 DEF Ev!Recycle
    <2>2. CASE ev_work' = Ev!NoWork
      BY <2>1, <2>2 DEF EvInv, Ev!Taken, Ev!NoWork, Ev!RequestIsCarriedOut
    <2>3. CASE ev_work' # Ev!NoWork
      <3>1. PICK e \in ev_listed, agents \in SUBSET DOMAIN PoolNodes, rate \in Rates,
                 precedence \in {"highest_uptime", "lowest_task_count"} :
              /\ Ev!from_config(rate)
              /\ ev_work'.name = e.name /\ ev_work'.agents = agents
              /\ ev_work'.selected = Ev!Selection(e, agents)
              /\ ev_work'.chunk = {n \in ev_work'.selected :
                   Ev!Cardinality(EvBefore(ev_work'.selected, precedence, n))
                     < Ev!of(rate, Ev!Cardinality(DOMAIN PoolNodes))}
        BY <1>6, <2>3 DEF Ev!Recycle, EvBefore
      <3>2. ev_work'.selected \in SUBSET DOMAIN PoolNodes
        BY <3>1 DEF Ev!Selection, Ev!Listed
      <3>3. ev_work'.selected # {} => ev_work'.chunk # {}
        <4>1. SUFFICES ASSUME ev_work'.selected # {} PROVE ev_work'.chunk # {}
          OBVIOUS
        <4>2. PICK n \in ev_work'.selected : EvBefore(ev_work'.selected, precedence, n) = {}
          BY <3>2, <4>1, EvFirst
        <4>3. Ev!Cardinality(EvBefore(ev_work'.selected, precedence, n)) = 0
          BY <4>2, EvCardinality, FS_EmptySet
        <4>4. Ev!Cardinality(DOMAIN PoolNodes) \in Nat
          BY EvPool, EvCardinality, FS_CardinalityType
        <4>5. Ev!of(rate, Ev!Cardinality(DOMAIN PoolNodes)) \in Int
              /\ Ev!of(rate, Ev!Cardinality(DOMAIN PoolNodes)) >= 1
          BY <3>1, <4>4, EvPortion DEF Ev!from_config
        <4>6. n \in ev_work'.chunk
          BY <3>1, <4>3, <4>5
        <4>7. QED
          BY <4>6
      <3>4. /\ Ev!Taken(e.name)
            /\ [labels |-> e.labels, condition |-> e.condition] \in ev_submitted[e.name]
        BY DEF EvInv
      <3>5. Ev!RequestIsCarriedOut'
        <4> DEFINE s == [labels |-> e.labels, condition |-> e.condition]
        <4>1. ev_work'.selected = {n \in ev_work'.agents :
                  s.labels \subseteq PoolNodes[n].labels /\ ~Ev!matches(s.condition, n)}
          BY <3>1 DEF Ev!Selection, Ev!Listed
        <4>2. s \in ev_submitted'[ev_work'.name]
          BY <2>1, <3>1, <3>4
        <4> HIDE DEF s
        <4>3. QED
          BY <3>3, <4>1, <4>2 DEF Ev!RequestIsCarriedOut
      <3>6. QED
        BY <2>1, <3>1, <3>4, <3>5 DEF EvInv, Ev!Taken
    <2>4. QED
      BY <2>2, <2>3
  <1>7. CASE Ev!Mark
    <2>1. UNCHANGED <<ev_clock, ev_submitted, ev_listed, ev_work>>
      BY <1>7 DEF Ev!Mark
    <2>2. PICK r \in ev_crds, status \in {"inprogress", "completed", "skipped"} :
            ev_crds' = (ev_crds \ {r}) \cup {[r EXCEPT !.status = status]}
      BY <1>7 DEF Ev!Mark
    <2>3. /\ [r EXCEPT !.status = status].name = r.name
          /\ [r EXCEPT !.status = status].labels = r.labels
          /\ [r EXCEPT !.status = status].condition = r.condition
      OBVIOUS
    <2>4. \A q \in ev_crds' : \E p \in ev_crds :
            q.name = p.name /\ q.labels = p.labels /\ q.condition = p.condition
      BY <2>2, <2>3
    <2>5. \A p \in ev_crds : \E q \in ev_crds' : q.name = p.name
      BY <2>2, <2>3
    <2>6. \A name : Ev!Taken(name) => Ev!Taken(name)'
      BY <2>5 DEF Ev!Taken
    <2>7. \A q \in ev_crds' : /\ q.name \in 1..MaxClock
                              /\ Ev!Understood(q.condition) => EvRequest(q) \in ev_submitted[q.name]
      BY <2>4 DEF EvInv, EvRequest
    <2>8. Ev!RequestIsCarriedOut'
      BY <2>1 DEF EvInv, Ev!RequestIsCarriedOut
    <2>9. QED
      BY <2>1, <2>6, <2>7, <2>8 DEF EvInv, Ev!Taken
  <1>8. CASE UNCHANGED ev_vars
    BY <1>8 DEF ev_vars, EvInv, EvRequest, Ev!Taken, Ev!RequestIsCarriedOut
  <1>9. QED
    BY <1>1, <1>3, <1>4, <1>5, <1>6, <1>7, <1>8 DEF Ev!Next

\* What is recycled is what the user typed, after it went through the resource
\* and back, and a migration with nodes to recycle always recycles some.
THEOREM MigrationDoesWhatWasTyped == Ev!Init /\ [][Ev!Next]_ev_vars => []Ev!RequestIsCarriedOut
  <1>1. EvInv => Ev!RequestIsCarriedOut
    BY DEF EvInv
  <1>2. QED
    BY <1>1, EvInit, EvNext, PTL

-----------------------------------------------------------------------------
(* The spot price collector.                                                *)

SpTypes ==
  /\ sp_now \in Sp!Time /\ sp_start \in Sp!Time /\ sp_end \in Sp!Time /\ sp_begun \in Sp!Time
  /\ sp_changes \subseteq Markets \X Sp!Time /\ sp_left \subseteq sp_changes
  /\ sp_intervals \in [Markets -> Sp!Intervals]
  /\ sp_buffer \subseteq Markets \X Sp!Intervals \X Sp!Time
  /\ sp_table \in [Markets -> [Sp!Intervals -> Nat]]

\* The writer holds one price of a market and an interval.
SpUnique ==
  \A a \in sp_buffer, b \in sp_buffer : a[1] = b[1] /\ a[2] = b[2] => a = b

SpTimes ==
  /\ sp_begun <= sp_start /\ sp_start <= sp_now
  /\ \A c \in sp_changes : c[2] <= sp_now
  /\ sp_pc \in {"sleep", "run", "dead"}
  /\ sp_pc = "run" => /\ sp_start <= sp_end /\ sp_end <= sp_now
                      /\ \A c \in sp_left : sp_start <= c[2] /\ c[2] <= sp_end
  /\ sp_pc # "run" => sp_buffer = {} /\ sp_left = {} /\ \A m \in Markets : sp_intervals[m] = 0

\* t is the price that the table has, or will have when the writer is closed.
SpKept(m, i, t) ==
  \/ <<m, i, t>> \in sp_buffer
  \/ (\A b \in sp_buffer : b[1] # m \/ b[2] # i) /\ sp_table[m][i] = t

SpRecorded(c) ==
  \E t \in Sp!Time : /\ SpKept(c[1], Sp!RoundUp(c[2]), t) /\ c[2] <= t
                     /\ <<c[1], t>> \in sp_changes /\ Sp!RoundUp(t) = Sp!RoundUp(c[2])

\* A price of the window of this run that the run has come past.
SpPassed(c) == sp_pc = "run" /\ sp_start <= c[2] /\ c[2] <= sp_end /\ c \notin sp_left

SpWritten ==
  sp_pc # "dead" =>
    \A c \in sp_changes :
      (sp_begun <= c[2] /\ c[2] < sp_start) \/ SpPassed(c) => SpRecorded(c)

\* What a market's present interval has is no older than what is to come, and
\* the intervals passed are not written to any more.
SpNewest ==
  \A m \in Markets, i \in Sp!Intervals : i = sp_intervals[m] /\ i # 0 =>
    \E t \in Sp!Time : /\ SpKept(m, i, t) /\ <<m, t>> \in sp_changes
                       /\ Sp!RoundUp(t) = i /\ \A d \in sp_left : d[2] <= t
SpOrder ==
  \A c \in sp_changes : SpPassed(c) =>
    sp_intervals[c[1]] # 0 /\ sp_intervals[c[1]] <= Sp!RoundUp(c[2])

SpInv == SpTypes /\ SpUnique /\ SpTimes /\ SpWritten /\ SpNewest /\ SpOrder

\* The end of the interval of a time: the next multiple of the interval's length.
LEMMA SpRoundUp ==
  ASSUME NEW t \in Int
  PROVE  \E k \in Int : Sp!RoundUp(t) = k * DedupeInterval /\ t <= Sp!RoundUp(t) /\ Sp!RoundUp(t) < t + DedupeInterval
  <1> DEFINE D == DedupeInterval
             q == (D - t) \div D
             r == (D - t) % D
  <1>1. D \in Nat \ {0}
    BY ConstantsAssumption
  <1>2. q \in Int /\ r \in Int /\ D - t = D * q + r /\ 0 <= r /\ r < D
    BY <1>1
  <1>3. Sp!RoundUp(t) = t + r
    BY DEF Sp!RoundUp
  <1> HIDE DEF D, q, r
  <1>4. 1 - q \in Int /\ t + r = (1 - q) * D
    BY <1>1, <1>2
  <1>5. Sp!RoundUp(t) = (1 - q) * D /\ t <= Sp!RoundUp(t) /\ Sp!RoundUp(t) < t + D
    BY <1>1, <1>2, <1>3, <1>4
  <1>6. QED
    BY <1>4, <1>5 DEF D

\* A later time has no earlier interval, and an interval is never 0.
LEMMA SpRoundUpKeepsOrder ==
  /\ \A t \in Sp!Time : Sp!RoundUp(t) \in Sp!Intervals /\ Sp!RoundUp(t) > 0
  /\ \A t \in Sp!Time, u \in Sp!Time : t <= u => Sp!RoundUp(t) <= Sp!RoundUp(u)
  <1>0. DedupeInterval \in Nat \ {0} /\ MaxTime \in Nat \ {0}
    BY ConstantsAssumption
  <1>1. ASSUME NEW t \in Sp!Time
        PROVE  Sp!RoundUp(t) \in Sp!Intervals /\ Sp!RoundUp(t) > 0
    <2>1. t \in Int /\ 1 <= t /\ t <= MaxTime
      BY <1>0 DEF Sp!Time
    <2>2. PICK k \in Int : Sp!RoundUp(t) = k * DedupeInterval /\ t <= Sp!RoundUp(t) /\ Sp!RoundUp(t) < t + DedupeInterval
      BY <2>1, SpRoundUp
    <2>3. Sp!RoundUp(t) \in Int
      BY <1>0, <2>2
    <2>4. QED
      BY <1>0, <2>1, <2>2, <2>3 DEF Sp!Intervals
  <1>2. ASSUME NEW t \in Sp!Time, NEW u \in Sp!Time, t <= u
        PROVE  Sp!RoundUp(t) <= Sp!RoundUp(u)
    <2>1. t \in Int /\ u \in Int
      BY <1>0 DEF Sp!Time
    <2>2. PICK j \in Int : Sp!RoundUp(t) = j * DedupeInterval /\ t <= Sp!RoundUp(t) /\ Sp!RoundUp(t) < t + DedupeInterval
      BY <2>1, SpRoundUp
    <2>3. PICK k \in Int : Sp!RoundUp(u) = k * DedupeInterval /\ u <= Sp!RoundUp(u) /\ Sp!RoundUp(u) < u + DedupeInterval
      BY <2>1, SpRoundUp
    <2>4. CASE j <= k
      <3>1. j * DedupeInterval <= k * DedupeInterval
        BY <1>0, <2>4
      <3>2. QED
        BY <2>2, <2>3, <3>1
    <2>5. CASE k + 1 <= j
      <3>1. (k + 1) * DedupeInterval <= j * DedupeInterval
        BY <1>0, <2>5
      <3>2. (k + 1) * DedupeInterval = k * DedupeInterval + DedupeInterval
        BY <1>0
      <3>3. QED
        BY <1>0, <1>2, <2>1, <2>2, <2>3, <3>1, <3>2
    <2>6. QED
      BY <2>4, <2>5
  <1>3. QED
    BY <1>1, <1>2

\* Sending what the writer holds changes nothing about what the table will have.
LEMMA SpFlushed ==
  ASSUME SpTypes, SpUnique, sp_table' = Sp!Flushed, sp_buffer' = {}
  PROVE  /\ sp_table' \in [Markets -> [Sp!Intervals -> Nat]]
         /\ \A m \in Markets, i \in Sp!Intervals : \A t : SpKept(m, i, t) => SpKept(m, i, t)'
  <1>1. ASSUME NEW m \in Markets, NEW i \in Sp!Intervals
        PROVE  /\ sp_table'[m][i] \in Nat
               /\ \A t : SpKept(m, i, t) => sp_table'[m][i] = t
    <2>1. CASE \E b \in sp_buffer : b[1] = m /\ b[2] = i
      <3> DEFINE b == CHOOSE b \in sp_buffer : b[1] = m /\ b[2] = i
      <3>1. sp_table'[m][i] = b[3]
        BY <2>1 DEF Sp!Flushed
      <3>2. b \in sp_buffer /\ b[1] = m /\ b[2] = i
        BY <2>1
      <3> HIDE DEF b
      <3>3. b \in Markets \X Sp!Intervals \X Sp!Time
        BY <3>2 DEF SpTypes
      <3>4. b[3] \in Nat
        BY <3>3, ConstantsAssumption DEF Sp!Time
      <3>5. \A t : <<m, i, t>> \in sp_buffer => <<m, i, t>> = b
        BY <3>2 DEF SpUnique
      <3>6. \A t : SpKept(m, i, t) => b[3] = t
        BY <3>2, <3>5 DEF SpKept
      <3>7. QED
        BY <3>1, <3>4, <3>6
    <2>2. CASE ~\E b \in sp_buffer : b[1] = m /\ b[2] = i
      <3>1. sp_table'[m][i] = sp_table[m][i]
        BY <2>2 DEF Sp!Flushed
      <3>2. sp_table[m][i] \in Nat
        BY DEF SpTypes
      <3>3. QED
        BY <2>2, <3>1, <3>2 DEF SpKept
    <2>3. QED
      BY <2>1, <2>2
  <1>2. sp_table' \in [Markets -> [Sp!Intervals -> Nat]]
    <2>1. sp_table' = [m \in Markets |-> [i \in Sp!Intervals |-> sp_table'[m][i]]]
      BY DEF Sp!Flushed
    <2>2. QED
      BY <1>1, <2>1
  <1>3. QED
    BY <1>1, <1>2 DEF SpKept

\* Nothing has happened.
LEMMA SpInit == Sp!Init => SpInv
  <1> SUFFICES ASSUME Sp!Init PROVE SpInv
    OBVIOUS
  <1>0. MaxTime \in Nat \ {0} /\ DedupeInterval \in Nat \ {0}
    BY ConstantsAssumption
  <1>1. SpTypes
    BY <1>0 DEF Sp!Init, SpTypes, Sp!Time, Sp!Intervals
  <1>2. SpUnique /\ SpTimes
    BY DEF Sp!Init, SpUnique, SpTimes
  <1>3. SpWritten /\ SpNewest /\ SpOrder
    BY DEF Sp!Init, SpWritten, SpNewest, SpOrder, SpPassed
  <1>4. QED
    BY <1>1, <1>2, <1>3 DEF SpInv

\* A price that replaces no newer one of its market's interval.
LEMMA SpWritePrice ==
  ASSUME SpInv, Sp!WritePrice
  PROVE  SpInv'
  <1>0. /\ UNCHANGED <<sp_now, sp_changes, sp_pc, sp_start, sp_end, sp_table, sp_begun>>
        /\ sp_pc = "run"
    BY DEF Sp!WritePrice
  <1>1. PICK c \in sp_left :
          /\ \A d \in sp_left : d[2] <= c[2]
          /\ sp_left' = sp_left \ {c}
          /\ IF Sp!Unwritten(c[1], Sp!RoundUp(c[2]))
             THEN /\ sp_intervals' = [sp_intervals EXCEPT ![c[1]] = Sp!RoundUp(c[2])]
                  /\ sp_buffer' = {b \in sp_buffer : b[1] # c[1] \/ b[2] # Sp!RoundUp(c[2])}
                                    \cup {<<c[1], Sp!RoundUp(c[2]), c[2]>>}
             ELSE UNCHANGED <<sp_intervals, sp_buffer>>
    BY DEF Sp!WritePrice
  <1>2. /\ c \in sp_changes /\ c = <<c[1], c[2]>> /\ c[1] \in Markets /\ c[2] \in Sp!Time
        /\ sp_start <= c[2] /\ c[2] <= sp_end
    <2>1. c \in sp_changes /\ c \in Markets \X Sp!Time
      BY DEF SpInv, SpTypes
    <2>2. sp_start <= c[2] /\ c[2] <= sp_end
      BY <1>0 DEF SpInv, SpTimes
    <2>3. QED
      BY <2>1, <2>2
  <1>3. Sp!RoundUp(c[2]) \in Sp!Intervals /\ Sp!RoundUp(c[2]) > 0
    BY <1>2, SpRoundUpKeepsOrder
  <1>4. /\ \A m \in Markets : sp_intervals[m] \in Int
        /\ \A t \in Sp!Time : t \in Int /\ Sp!RoundUp(t) \in Int
        /\ Sp!RoundUp(c[2]) \in Int /\ c[2] \in Int
        /\ \A d \in sp_changes : d[1] \in Markets /\ d[2] \in Sp!Time
        /\ sp_start \in Int /\ sp_end \in Int
    <2>1. \A t \in Sp!Time : t \in Int /\ Sp!RoundUp(t) \in Sp!Intervals
      BY SpRoundUpKeepsOrder, ConstantsAssumption DEF Sp!Time
    <2>2. \A i \in Sp!Intervals : i \in Int
      BY ConstantsAssumption DEF Sp!Intervals
    <2>3. /\ sp_intervals \in [Markets -> Sp!Intervals] /\ sp_start \in Sp!Time /\ sp_end \in Sp!Time
          /\ sp_changes \subseteq Markets \X Sp!Time
      BY DEF SpInv, SpTypes
    <2>4. QED
      BY <1>2, <2>1, <2>2, <2>3
  <1>5. SpTimes'
    BY <1>0, <1>1 DEF SpInv, SpTimes
  <1>6. \A d \in sp_changes : SpPassed(d)' => d = c \/ SpPassed(d)
    BY <1>0, <1>1 DEF SpPassed
  <1>7. CASE Sp!Unwritten(c[1], Sp!RoundUp(c[2]))
    <2> DEFINE m == c[1]
               i == Sp!RoundUp(c[2])
    <2>1. /\ sp_intervals' = [sp_intervals EXCEPT ![m] = i]
          /\ sp_buffer' = {b \in sp_buffer : b[1] # m \/ b[2] # i} \cup {<<m, i, c[2]>>}
      BY <1>1, <1>7
    <2>2. sp_intervals[m] = 0 \/ i < sp_intervals[m]
      BY <1>7 DEF Sp!Unwritten
    <2>3. m \in Markets /\ i \in Sp!Intervals /\ i \in Int /\ i > 0 /\ i = Sp!RoundUp(c[2])
      BY <1>2, <1>3, <1>4
    <2> HIDE DEF m, i
    <2>4. SpTypes'
      <3>1. sp_intervals' \in [Markets -> Sp!Intervals]
        BY <2>1, <2>3 DEF SpInv, SpTypes
      <3>2. sp_buffer' \subseteq Markets \X Sp!Intervals \X Sp!Time
        BY <1>2, <2>1, <2>3 DEF SpInv, SpTypes
      <3>3. QED
        BY <1>0, <1>1, <3>1, <3>2 DEF SpInv, SpTypes
    <2>5. SpUnique'
      BY <2>1 DEF SpInv, SpUnique
    <2>6. SpKept(m, i, c[2])'
      BY <2>1 DEF SpKept
    <2>7. ASSUME NEW n, NEW j, NEW t, n # m \/ j # i, SpKept(n, j, t)
          PROVE  SpKept(n, j, t)'
      <3>1. \A b \in sp_buffer' : b \in sp_buffer \/ (b[1] = m /\ b[2] = i)
        BY <2>1
      <3>2. <<n, j, t>> \in sp_buffer => <<n, j, t>> \in sp_buffer'
        BY <2>1, <2>7
      <3>3. QED
        BY <1>0, <2>7, <3>1, <3>2 DEF SpKept
    <2>8. /\ sp_intervals'[m] = i
          /\ \A n \in Markets : n # m => sp_intervals'[n] = sp_intervals[n]
      BY <2>1, <2>3 DEF SpInv, SpTypes
    <2>9. SpWritten'
      <3>1. SUFFICES ASSUME NEW d \in sp_changes,
                            (sp_begun <= d[2] /\ d[2] < sp_start) \/ SpPassed(d)'
                     PROVE  SpRecorded(d)'
        BY <1>0 DEF SpWritten
      <3>2. CASE d[1] = m /\ Sp!RoundUp(d[2]) = i /\ d[2] <= c[2]
        BY <1>0, <1>2, <2>3, <2>6, <3>2 DEF SpRecorded, m
      <3>3. CASE d[1] # m \/ Sp!RoundUp(d[2]) # i
        <4>1. d # c
          BY <2>3, <3>3 DEF m
        <4>2. SpRecorded(d)
          BY <1>0, <1>6, <3>1, <4>1 DEF SpInv, SpWritten
        <4>3. PICK t \in Sp!Time : /\ SpKept(d[1], Sp!RoundUp(d[2]), t) /\ d[2] <= t
                                   /\ <<d[1], t>> \in sp_changes /\ Sp!RoundUp(t) = Sp!RoundUp(d[2])
          BY <4>2 DEF SpRecorded
        <4>4. SpKept(d[1], Sp!RoundUp(d[2]), t)'
          BY <2>7, <3>3, <4>3
        <4>5. QED
          BY <1>0, <4>3, <4>4 DEF SpRecorded
      <3>4. CASE d[1] = m /\ Sp!RoundUp(d[2]) = i /\ c[2] < d[2]
        <4>1. d[2] \in Int /\ ~(d[2] < sp_start) /\ d # c
          BY <1>2, <1>4, <3>4
        <4>2. SpPassed(d)
          BY <1>6, <3>1, <4>1
        <4>3. sp_intervals[m] # 0 /\ sp_intervals[m] <= i
          BY <3>4, <4>2 DEF SpInv, SpOrder
        <4>4. QED
          BY <1>4, <2>2, <2>3, <4>3
      <3>5. QED
        BY <1>4, <3>2, <3>3, <3>4
    <2>10. SpNewest'
      <3>1. SUFFICES ASSUME NEW n \in Markets, NEW j \in Sp!Intervals, j = sp_intervals'[n], j # 0
                     PROVE  \E t \in Sp!Time : /\ SpKept(n, j, t)' /\ <<n, t>> \in sp_changes
                                               /\ Sp!RoundUp(t) = j /\ \A d \in sp_left' : d[2] <= t
        BY <1>0 DEF SpNewest
      <3>2. CASE n = m
        <4>1. j = i
          BY <2>8, <3>1, <3>2
        <4>2. SpKept(n, j, c[2])'
          BY <2>6, <3>2, <4>1
        <4>3. <<n, c[2]>> \in sp_changes
          BY <1>2, <3>2 DEF m
        <4>4. QED
          BY <1>1, <1>2, <2>3, <4>1, <4>2, <4>3
      <3>3. CASE n # m
        <4>1. j = sp_intervals[n]
          BY <2>8, <3>1, <3>3
        <4>2. PICK t \in Sp!Time : /\ SpKept(n, j, t) /\ <<n, t>> \in sp_changes
                                   /\ Sp!RoundUp(t) = j /\ \A d \in sp_left : d[2] <= t
          BY <3>1, <4>1 DEF SpInv, SpNewest
        <4>3. SpKept(n, j, t)'
          BY <2>7, <3>3, <4>2
        <4>4. QED
          BY <1>1, <4>2, <4>3
      <3>4. QED
        BY <3>2, <3>3
    <2>11. SpOrder'
      <3>1. SUFFICES ASSUME NEW d \in sp_changes, SpPassed(d)'
                     PROVE  sp_intervals'[d[1]] # 0 /\ sp_intervals'[d[1]] <= Sp!RoundUp(d[2])
        BY <1>0 DEF SpOrder
      <3>2. CASE d = c
        BY <2>3, <2>8, <3>2 DEF m
      <3>3. CASE d # c
        <4>1. sp_intervals[d[1]] # 0 /\ sp_intervals[d[1]] <= Sp!RoundUp(d[2])
          BY <1>6, <3>1, <3>3 DEF SpInv, SpOrder
        <4>2. d[1] \in Markets /\ Sp!RoundUp(d[2]) \in Int /\ sp_intervals[d[1]] \in Int
          BY <1>4
        <4>3. QED
          BY <2>2, <2>3, <2>8, <4>1, <4>2
      <3>4. QED
        BY <3>2, <3>3
    <2>12. QED
      BY <1>5, <2>4, <2>5, <2>9, <2>10, <2>11 DEF SpInv
  <1>8. CASE ~Sp!Unwritten(c[1], Sp!RoundUp(c[2]))
    <2>1. UNCHANGED <<sp_intervals, sp_buffer>>
      BY <1>1, <1>8
    <2>2. sp_intervals[c[1]] # 0 /\ sp_intervals[c[1]] <= Sp!RoundUp(c[2])
      BY <1>2, <1>4, <1>8 DEF Sp!Unwritten
    <2>3. PICK t \in Sp!Time : /\ SpKept(c[1], sp_intervals[c[1]], t) /\ <<c[1], t>> \in sp_changes
                               /\ Sp!RoundUp(t) = sp_intervals[c[1]] /\ \A d \in sp_left : d[2] <= t
      <3>1. sp_intervals[c[1]] \in Sp!Intervals
        BY <1>2 DEF SpInv, SpTypes
      <3>2. QED
        BY <1>2, <2>2, <3>1 DEF SpInv, SpNewest
    <2>4. c[2] <= t /\ Sp!RoundUp(c[2]) = Sp!RoundUp(t)
      <3>1. c[2] <= t
        BY <2>3
      <3>2. Sp!RoundUp(c[2]) <= Sp!RoundUp(t)
        BY <1>2, <3>1, SpRoundUpKeepsOrder
      <3>3. QED
        BY <1>4, <2>2, <2>3, <3>1, <3>2
    <2>5. SpRecorded(c)
      BY <2>3, <2>4 DEF SpRecorded
    <2>6. \A n, j, u : SpKept(n, j, u)' <=> SpKept(n, j, u)
      BY <1>0, <2>1 DEF SpKept
    <2>7. \A d : SpRecorded(d)' <=> SpRecorded(d)
      BY <1>0, <2>6 DEF SpRecorded
    <2>8. SpTypes' /\ SpUnique'
      BY <1>0, <1>1, <2>1 DEF SpInv, SpTypes, SpUnique
    <2>9. SpWritten'
      <3>1. \A d \in sp_changes : (sp_begun <= d[2] /\ d[2] < sp_start) \/ SpPassed(d)' => SpRecorded(d)'
        BY <1>0, <1>6, <2>5, <2>7 DEF SpInv, SpWritten
      <3>2. QED
        BY <1>0, <3>1 DEF SpWritten
    <2>10. SpNewest'
      BY <1>0, <1>1, <2>1 DEF SpInv, SpNewest, SpKept
    <2>11. SpOrder'
      <3>1. \A d \in sp_changes : SpPassed(d)' => sp_intervals[d[1]] # 0 /\ sp_intervals[d[1]] <= Sp!RoundUp(d[2])
        BY <1>6, <2>2 DEF SpInv, SpOrder
      <3>2. QED
        BY <1>0, <2>1, <3>1 DEF SpOrder
    <2>12. QED
      BY <1>5, <2>8, <2>9, <2>10, <2>11 DEF SpInv
  <1>9. QED
    BY <1>7, <1>8

\* Every step of EC2, of the batch and of its failures keeps it.
LEMMA SpNext ==
  ASSUME SpInv, [Sp!Next]_sp_vars
  PROVE  SpInv'
  <1>0. /\ MaxTime \in Nat \ {0}
        /\ sp_now \in Nat /\ sp_start \in Nat /\ sp_end \in Nat /\ sp_begun \in Nat
        /\ \A d \in sp_changes : d = <<d[1], d[2]>> /\ d[1] \in Markets /\ d[2] \in Nat /\ Sp!RoundUp(d[2]) \in Sp!Intervals
    <2>1. \A t \in Sp!Time : t \in Nat /\ Sp!RoundUp(t) \in Sp!Intervals
      BY SpRoundUpKeepsOrder, ConstantsAssumption DEF Sp!Time
    <2>2. QED
      BY <2>1, ConstantsAssumption DEF SpInv, SpTypes
  <1>1. CASE Sp!Tick
    <2>1. /\ UNCHANGED <<sp_changes, sp_pc, sp_start, sp_end, sp_left, sp_intervals, sp_buffer, sp_table, sp_begun>>
          /\ sp_now' \in Sp!Time /\ sp_now <= sp_now' /\ sp_now' \in Nat
      BY <1>0, <1>1 DEF Sp!Tick, SpInv, SpTypes, Sp!Time
    <2>2. SpTypes' /\ SpUnique'
      BY <2>1 DEF SpInv, SpTypes, SpUnique
    <2>3. SpTimes'
      BY <1>0, <2>1 DEF SpInv, SpTimes
    <2>4. SpWritten' /\ SpNewest' /\ SpOrder'
      BY <2>1 DEF SpInv, SpWritten, SpNewest, SpOrder, SpRecorded, SpPassed, SpKept
    <2>5. QED
      BY <2>2, <2>3, <2>4 DEF SpInv
  <1>2. CASE Sp!PriceChanges
    <2>1. UNCHANGED <<sp_now, sp_pc, sp_start, sp_end, sp_left, sp_intervals, sp_buffer, sp_table, sp_begun>>
      BY <1>2 DEF Sp!PriceChanges
    <2>2. PICK m \in Markets : sp_changes' = sp_changes \cup {<<m, sp_now>>} /\ (sp_pc # "run" \/ sp_end < sp_now)
      BY <1>2 DEF Sp!PriceChanges
    <2>3. \A n, j, t : SpKept(n, j, t)' <=> SpKept(n, j, t)
      BY <2>1 DEF SpKept
    <2>4. \A d : SpRecorded(d) => SpRecorded(d)'
      BY <2>2, <2>3 DEF SpRecorded
    <2>5. \A d : SpPassed(d)' <=> SpPassed(d)
      BY <2>1 DEF SpPassed
    <2>6. \A d \in sp_changes' : d \in sp_changes \/ d[2] = sp_now
      BY <2>2
    <2>7. \A d : d[2] = sp_now => ~SpPassed(d) /\ ~(d[2] < sp_start)
      BY <1>0, <2>2 DEF SpPassed, SpInv, SpTimes
    <2>8. SpTypes' /\ SpUnique'
      BY <2>1, <2>2 DEF SpInv, SpTypes, SpUnique
    <2>9. SpTimes'
      BY <1>0, <2>1, <2>6 DEF SpInv, SpTimes
    <2>10. SpWritten'
      <3>1. SUFFICES ASSUME sp_pc # "dead", NEW d \in sp_changes',
                            (sp_begun <= d[2] /\ d[2] < sp_start) \/ SpPassed(d)
                     PROVE  SpRecorded(d)'
        BY <2>1, <2>5 DEF SpWritten
      <3>2. d \in sp_changes
        BY <2>6, <2>7, <3>1
      <3>3. QED
        BY <2>4, <3>1, <3>2 DEF SpInv, SpWritten
    <2>11. SpNewest'
      BY <2>1, <2>2, <2>3 DEF SpInv, SpNewest
    <2>12. SpOrder'
      BY <2>1, <2>5, <2>6, <2>7 DEF SpInv, SpOrder
    <2>13. QED
      BY <2>8, <2>9, <2>10, <2>11, <2>12 DEF SpInv
  <1>3. CASE Sp!Wake
    <2>1. /\ UNCHANGED <<sp_now, sp_changes, sp_start, sp_intervals, sp_buffer, sp_table, sp_begun>>
          /\ sp_pc = "sleep" /\ sp_pc' = "run" /\ sp_end' = sp_now /\ sp_start < sp_now
      BY <1>3 DEF Sp!Wake
    <2>2. \A c : c \in sp_left' <=> c \in sp_changes /\ sp_start <= c[2] /\ c[2] <= sp_now
      BY <1>3 DEF Sp!Wake, Sp!spot_price_generator
    <2>3. SpTypes' /\ SpUnique'
      BY <2>1, <2>2 DEF SpInv, SpTypes, SpUnique
    <2>4. SpTimes'
      BY <1>0, <2>1, <2>2 DEF SpInv, SpTimes
    <2>5. \A c \in sp_changes : ~SpPassed(c)'
      BY <2>1, <2>2 DEF SpPassed
    <2>6. \A c : SpRecorded(c)' <=> SpRecorded(c)
      BY <2>1 DEF SpRecorded, SpKept
    <2>7. SpWritten' /\ SpOrder'
      BY <2>1, <2>5, <2>6 DEF SpInv, SpWritten, SpOrder
    <2>8. SpNewest'
      BY <2>1 DEF SpInv, SpTimes, SpNewest
    <2>9. QED
      BY <2>3, <2>4, <2>7, <2>8 DEF SpInv
  <1>4. CASE Sp!WritePrice
    BY <1>4, SpWritePrice
  <1>5. CASE Sp!FlushBatch
    <2>1. /\ UNCHANGED <<sp_now, sp_changes, sp_pc, sp_start, sp_end, sp_left, sp_intervals, sp_begun>>
          /\ sp_table' = Sp!Flushed /\ sp_buffer' = {} /\ sp_pc = "run"
      BY <1>5 DEF Sp!FlushBatch
    <2>2. /\ sp_table' \in [Markets -> [Sp!Intervals -> Nat]]
          /\ \A m \in Markets, i \in Sp!Intervals : \A t : SpKept(m, i, t) => SpKept(m, i, t)'
      BY <2>1, SpFlushed DEF SpInv
    <2>3. SpTypes' /\ SpUnique'
      BY <2>1, <2>2 DEF SpInv, SpTypes, SpUnique
    <2>4. SpTimes'
      BY <2>1 DEF SpInv, SpTimes
    <2>5. \A c \in sp_changes : SpRecorded(c) => SpRecorded(c)'
      BY <1>0, <2>1, <2>2 DEF SpRecorded
    <2>6. \A c : SpPassed(c)' <=> SpPassed(c)
      BY <2>1 DEF SpPassed
    <2>7. SpWritten' /\ SpOrder'
      BY <2>1, <2>5, <2>6 DEF SpInv, SpWritten, SpOrder
    <2>8. SpNewest'
      BY <2>1, <2>2 DEF SpInv, SpNewest
    <2>9. QED
      BY <2>3, <2>4, <2>7, <2>8 DEF SpInv
  <1>6. ASSUME Sp!CloseWriter, sp_pc = "run", UNCHANGED <<sp_now, sp_changes, sp_end, sp_begun>>,
               sp_start' = sp_start \/ (sp_start' = sp_end /\ sp_left = {})
        PROVE  SpInv'
    <2>1. /\ sp_table' = Sp!Flushed /\ sp_buffer' = {} /\ sp_left' = {} /\ sp_pc' = "sleep"
          /\ sp_intervals' = [m \in Markets |-> 0]
      BY <1>6 DEF Sp!CloseWriter
    <2>2. /\ sp_table' \in [Markets -> [Sp!Intervals -> Nat]]
          /\ \A m \in Markets, i \in Sp!Intervals : \A t : SpKept(m, i, t) => SpKept(m, i, t)'
      BY <2>1, SpFlushed DEF SpInv
    <2>3. SpTypes' /\ SpUnique'
      <3>1. 0 \in Sp!Intervals
        BY ConstantsAssumption DEF Sp!Intervals
      <3>2. sp_start' \in Sp!Time
        BY <1>6 DEF SpInv, SpTypes
      <3>3. QED
        BY <1>6, <2>1, <2>2, <3>1, <3>2 DEF SpInv, SpTypes, SpUnique
    <2>4. SpTimes'
      BY <1>0, <1>6, <2>1 DEF SpInv, SpTimes
    <2>5. \A c \in sp_changes : SpRecorded(c) => SpRecorded(c)'
      BY <1>0, <1>6, <2>2 DEF SpRecorded
    <2>6. \A c \in sp_changes : sp_begun <= c[2] /\ c[2] < sp_start' => SpRecorded(c)
      <3>1. SUFFICES ASSUME NEW c \in sp_changes, sp_begun <= c[2], c[2] < sp_start'
                     PROVE  SpRecorded(c)
        OBVIOUS
      <3>2. CASE c[2] < sp_start
        BY <1>6, <3>1, <3>2 DEF SpInv, SpWritten
      <3>3. CASE sp_start <= c[2]
        <4>1. sp_start' = sp_end /\ sp_left = {}
          BY <1>0, <1>6, <3>1, <3>3
        <4>2. SpPassed(c)
          BY <1>0, <1>6, <3>1, <3>3, <4>1 DEF SpPassed
        <4>3. QED
          BY <1>6, <4>2 DEF SpInv, SpWritten
      <3>4. QED
        BY <1>0, <3>2, <3>3
    <2>7. \A c : ~SpPassed(c)'
      BY <2>1 DEF SpPassed
    <2>8. SpWritten' /\ SpOrder'
      BY <1>6, <2>1, <2>5, <2>6, <2>7 DEF SpWritten, SpOrder
    <2>9. SpNewest'
      BY <2>1 DEF SpNewest
    <2>10. QED
      BY <2>3, <2>4, <2>8, <2>9 DEF SpInv
  <1>7. CASE Sp!Finish
    BY <1>6, <1>7 DEF Sp!Finish
  <1>8. CASE Sp!TimedOut
    BY <1>6, <1>8 DEF Sp!TimedOut, Sp!Fault, Sp!KeptStart
  <1>9. CASE Sp!RequestLimitExceeded
    BY <1>6, <1>9 DEF Sp!RequestLimitExceeded, Sp!Fault, Sp!KeptStart
  <1>10. CASE Sp!Die
    <2>1. /\ UNCHANGED <<sp_now, sp_changes, sp_start, sp_end, sp_begun>>
          /\ sp_buffer' = {} /\ sp_left' = {} /\ sp_pc' = "dead"
          /\ sp_intervals' = [m \in Markets |-> 0]
      BY <1>10 DEF Sp!Die
    <2>2. sp_table' \in [Markets -> [Sp!Intervals -> Nat]]
      <3>1. CASE sp_table' = Sp!Flushed
        BY <2>1, <3>1, SpFlushed DEF SpInv
      <3>2. CASE sp_table' = sp_table
        BY <3>2 DEF SpInv, SpTypes
      <3>3. QED
        BY <1>10, <3>1, <3>2 DEF Sp!Die
    <2>3. SpTypes' /\ SpUnique'
      BY <2>1, <2>2, ConstantsAssumption DEF SpInv, SpTypes, SpUnique, Sp!Intervals
    <2>4. SpTimes'
      BY <2>1 DEF SpInv, SpTimes
    <2>5. SpWritten' /\ SpNewest' /\ SpOrder'
      BY <2>1 DEF SpWritten, SpNewest, SpOrder, SpPassed
    <2>6. QED
      BY <2>3, <2>4, <2>5 DEF SpInv
  <1>11. CASE Sp!Restart
    <2>1. /\ UNCHANGED <<sp_now, sp_changes, sp_end, sp_left, sp_intervals, sp_buffer, sp_table>>
          /\ sp_pc = "dead" /\ sp_pc' = "sleep" /\ sp_start' \in 1..sp_now /\ sp_begun' = sp_start'
      BY <1>11 DEF Sp!Restart
    <2>2. sp_start' \in Sp!Time /\ sp_start' \in Nat /\ sp_start' <= sp_now
      BY <1>0, <2>1 DEF SpInv, SpTypes, Sp!Time
    <2>3. SpTypes' /\ SpUnique'
      BY <2>1, <2>2 DEF SpInv, SpTypes, SpUnique
    <2>4. SpTimes'
      BY <2>1, <2>2 DEF SpInv, SpTimes
    <2>5. \A c \in sp_changes : ~(sp_begun' <= c[2] /\ c[2] < sp_start') /\ ~SpPassed(c)'
      BY <1>0, <2>1, <2>2 DEF SpPassed
    <2>6. SpWritten' /\ SpOrder'
      BY <2>1, <2>5 DEF SpWritten, SpOrder
    <2>7. SpNewest'
      BY <2>1 DEF SpInv, SpTimes, SpNewest
    <2>8. QED
      BY <2>3, <2>4, <2>6, <2>7 DEF SpInv
  <1>12. CASE UNCHANGED sp_vars
    <2>1. UNCHANGED <<sp_now, sp_changes, sp_pc, sp_start, sp_end, sp_left, sp_intervals, sp_buffer, sp_table, sp_begun>>
      BY <1>12 DEF sp_vars
    <2>2. SpTypes' /\ SpUnique' /\ SpTimes'
      BY <2>1 DEF SpInv, SpTypes, SpUnique, SpTimes
    <2>3. \A c : (SpRecorded(c)' <=> SpRecorded(c)) /\ (SpPassed(c)' <=> SpPassed(c))
      BY <2>1 DEF SpRecorded, SpPassed, SpKept
    <2>4. SpWritten' /\ SpOrder'
      BY <2>1, <2>3 DEF SpInv, SpWritten, SpOrder
    <2>5. SpNewest'
      BY <2>1 DEF SpInv, SpNewest, SpKept
    <2>6. QED
      BY <2>2, <2>4, <2>5 DEF SpInv
  <1>13. QED
    BY <1>1, <1>2, <1>3, <1>4, <1>5, <1>7, <1>8, <1>9, <1>10, <1>11, <1>12 DEF Sp!Next

\* Asleep, the writer holds nothing: what is recorded is in the table.
LEMMA SpAsleep == SpInv => Sp!PricesAreRecorded
  <1>1. SUFFICES ASSUME SpInv, sp_pc = "sleep", NEW c \in sp_changes, sp_begun <= c[2], c[2] < sp_start
                 PROVE  LET kept == sp_table[c[1]][Sp!RoundUp(c[2])]
                        IN  /\ c[2] <= kept
                            /\ <<c[1], kept>> \in sp_changes
                            /\ Sp!RoundUp(kept) = Sp!RoundUp(c[2])
    BY DEF Sp!PricesAreRecorded
  <1>2. PICK t \in Sp!Time : /\ SpKept(c[1], Sp!RoundUp(c[2]), t) /\ c[2] <= t
                             /\ <<c[1], t>> \in sp_changes /\ Sp!RoundUp(t) = Sp!RoundUp(c[2])
    BY <1>1 DEF SpInv, SpWritten, SpRecorded
  <1>3. sp_table[c[1]][Sp!RoundUp(c[2])] = t
    BY <1>1, <1>2 DEF SpInv, SpTimes, SpKept
  <1>4. QED
    BY <1>2, <1>3

\* The spot price collector alone.
THEOREM CollectorRecordsPrices == Sp!Init /\ [][Sp!Next]_sp_vars => []Sp!PricesAreRecorded
  BY SpInit, SpNext, SpAsleep, PTL

-----------------------------------------------------------------------------
(* The metrics client: series as sorted sequences, and as sets of points.   *)

\* Points of one series: at most one of each time.
MePoints(P) == P \in SUBSET Me!Point /\ \A p \in P, r \in P : p[1] = r[1] => p = r

\* A series in the order of its times.
MeSorted(ts) ==
  /\ ts \in Seq(Me!Point)
  /\ \A i \in 1..Len(ts), j \in 1..Len(ts) : i < j => ts[i][1] < ts[j][1]

\* The points of a series.
MePts(ts) == {ts[i] : i \in 1..Len(ts)}

\* Cardinality, as the instance knows it.
LEMMA MeCardinality == \A S : Me!Cardinality(S) = Cardinality(S)
  BY DEF Me!Cardinality, Cardinality

\* A point has a time and a value.
LEMMA MePoint ==
  \A p \in Me!Point : p = <<p[1], p[2]>> /\ p[1] \in Int /\ 1 <= p[1] /\ p[1] <= MaxStamp
                        /\ p[2] \in {0, 1}
  BY ConstantsAssumption DEF Me!Point, Me!Time

\* A set of points is finite.
LEMMA MeFinite ==
  ASSUME NEW P \in SUBSET Me!Point
  PROVE  IsFiniteSet(P)
  <1>1. IsFiniteSet(1..MaxStamp)
    <2>1. 1 \in Int /\ MaxStamp \in Int
      BY ConstantsAssumption
    <2>2. QED
      BY <2>1, FS_Interval
  <1>2. IsFiniteSet({0, 1})
    <2>1. IsFiniteSet({0}) /\ {0, 1} = {0} \cup {1}
      BY FS_Singleton
    <2>2. QED
      BY <2>1, FS_AddElement
  <1>3. IsFiniteSet(Me!Point)
    BY <1>1, <1>2, FS_Product DEF Me!Point, Me!Time
  <1>4. QED
    BY <1>3, FS_Subset

\* What is closed downwards among the first numbers is the first numbers.
LEMMA DownSet ==
  ASSUME NEW n \in Nat, NEW S \in SUBSET (1..n),
         \A i \in S, j \in 1..n : j <= i => j \in S
  PROVE  Cardinality(S) \in 0..n /\ \A i \in 1..n : i \in S <=> i <= Cardinality(S)
  <1>1. CASE S = {}
    BY <1>1, FS_EmptySet
  <1>2. CASE S # {}
    <2>1. IsFiniteSet(S)
      <3>1. 1 \in Int /\ n \in Int
        OBVIOUS
      <3> DEFINE I == 1..n
      <3>2. S \in SUBSET I
        OBVIOUS
      <3>3. IsFiniteSet(1..n)
        BY <3>1, FS_Interval
      <3>4. IsFiniteSet(I)
        BY <3>3
      <3> HIDE DEF I
      <3>5. QED
        BY <3>2, <3>4, FS_Subset
    <2>2. PICK x \in S : \A y \in S : y <= x
      <3>1. S \in SUBSET Int
        OBVIOUS
      <3>2. Max(S) \in S /\ \A y \in S : y <= Max(S)
        BY <1>2, <2>1, <3>1, LargestNumber
      <3>3. QED
        BY <3>2
    <2>3. x \in 1..n /\ S = 1..x
      <3>1. x \in 1..n /\ \A y \in S : y \in 1..x
        BY <2>2
      <3>2. \A y \in 1..x : y \in 1..n /\ y <= x
        BY <3>1
      <3>3. QED
        BY <3>1, <3>2
    <2>4. Cardinality(S) = x
      <3>1. 1 \in Int /\ x \in Int
        BY <2>3
      <3>2. Cardinality(1..x) = IF 1 > x THEN 0 ELSE x - 1 + 1
        BY <3>1, FS_Interval
      <3>3. QED
        BY <2>3, <3>2
    <2>5. QED
      BY <2>3, <2>4
  <1>3. QED
    BY <1>1, <1>2

\* bisect cuts a sorted series at a time.
LEMMA MeBisect ==
  ASSUME NEW ts, MeSorted(ts), NEW t \in Int
  PROVE  /\ Me!BisectBefore(ts, t) \in 0..Len(ts)
         /\ \A i \in 1..Len(ts) : ts[i][1] < t <=> i <= Me!BisectBefore(ts, t)
         /\ Me!BisectAfter(ts, t) \in 0..Len(ts)
         /\ \A i \in 1..Len(ts) : ts[i][1] <= t <=> i <= Me!BisectAfter(ts, t)
  <1>1. Len(ts) \in Nat /\ DOMAIN ts = 1..Len(ts)
    BY DEF MeSorted
  <1>2. \A i \in 1..Len(ts) : ts[i] \in Me!Point
    BY DEF MeSorted
  <1>3. \A i \in 1..Len(ts) : ts[i][1] \in Int
    BY <1>2, MePoint
  <1>4. \A i \in 1..Len(ts), j \in 1..Len(ts) : i < j => ts[i][1] < ts[j][1]
    BY DEF MeSorted
  <1> DEFINE B == {i \in DOMAIN ts : ts[i][1] < t}
             A == {i \in DOMAIN ts : ts[i][1] <= t}
  <1>5. B \in SUBSET (1..Len(ts)) /\ \A i \in B, j \in 1..Len(ts) : j <= i => j \in B
    BY <1>1, <1>3, <1>4
  <1>6. A \in SUBSET (1..Len(ts)) /\ \A i \in A, j \in 1..Len(ts) : j <= i => j \in A
    BY <1>1, <1>3, <1>4
  <1>7. Me!BisectBefore(ts, t) = Cardinality(B) /\ Me!BisectAfter(ts, t) = Cardinality(A)
    BY MeCardinality DEF Me!BisectBefore, Me!BisectAfter
  <1>8. \A i \in 1..Len(ts) : (i \in B <=> ts[i][1] < t) /\ (i \in A <=> ts[i][1] <= t)
    BY <1>1
  <1> HIDE DEF A, B
  <1>9. Cardinality(B) \in 0..Len(ts) /\ \A i \in 1..Len(ts) : i \in B <=> i <= Cardinality(B)
    BY <1>1, <1>5, DownSet
  <1>10. Cardinality(A) \in 0..Len(ts) /\ \A i \in 1..Len(ts) : i \in A <=> i <= Cardinality(A)
    BY <1>1, <1>6, DownSet
  <1>11. QED
    BY <1>7, <1>8, <1>9, <1>10

\* The table's answer has every point, in the order of the times.
LEMMA MeInOrder ==
  ASSUME NEW P, MePoints(P)
  PROVE  /\ MeSorted(Me!InOrder(P))
         /\ \A p : p \in MePts(Me!InOrder(P)) <=> p \in P
  <1> DEFINE n == Cardinality(P)
             R == {x \in P \X P : x[1][1] < x[2][1]}
             upto(t) == {p \in P : p[1] <= t}
             times == {p[1] : p \in P}
             at(t) == CHOOSE p \in P : p[1] = t
             q == Me!InOrder(P)
  <1>1. IsFiniteSet(P) /\ n \in Nat
    BY MeFinite, FS_CardinalityType DEF MePoints
  <1>2. \A p \in P : p \in Me!Point
    BY DEF MePoints
  <1>2a. \A p \in P : p[1] \in Int
    BY <1>2, MePoint
  <1>2b. \A p \in P, r \in P : p[1] = r[1] => p = r
    BY DEF MePoints
  <1>3. \A x \in P, y \in P : <<x, y>> \in R <=> x[1] < y[1]
    OBVIOUS
  <1> HIDE DEF R
  <1>4. Orders(R, P)
    BY <1>2a, <1>2b, <1>3 DEF Orders
  <1>5. ASSUME NEW x \in P
        PROVE  Cardinality(upto(x[1])) = Cardinality(Below(R, P, x)) + 1
    <2>1. Below(R, P, x) \in SUBSET P /\ x \notin Below(R, P, x)
      BY <1>2a, <1>3 DEF Below
    <2>2. IsFiniteSet(Below(R, P, x))
      BY <1>1, <2>1, FS_Subset
    <2>3. \A y : y \in upto(x[1]) <=> y \in Below(R, P, x) \cup {x}
      BY <1>2a, <1>2b, <1>3 DEF Below
    <2>4. upto(x[1]) = Below(R, P, x) \cup {x}
      BY <2>3
    <2>5. QED
      BY <2>1, <2>2, <2>4, FS_AddElement
  <1>6. \A x \in P : Cardinality(Below(R, P, x)) \in Nat
    <2>1. SUFFICES ASSUME NEW x \in P PROVE Cardinality(Below(R, P, x)) \in Nat
      OBVIOUS
    <2>2. Below(R, P, x) \in SUBSET P
      BY DEF Below
    <2>3. QED
      BY <1>1, <2>2, FS_Subset, FS_CardinalityType
  <1>7. q = [i \in 1..Me!Cardinality(P) |-> at(CHOOSE t \in times : Me!Cardinality(upto(t)) = i)]
    BY DEF Me!InOrder
  <1>7a. Me!Cardinality(P) = n
    BY MeCardinality
  <1>8. ASSUME NEW i \in 1..n
        PROVE  q[i] \in P /\ Cardinality(Below(R, P, q[i])) = i - 1
    <2>1. PICK x \in P : Cardinality(Below(R, P, x)) = i - 1
      BY <1>1, <1>4, RankIsTaken
    <2>2. x[1] \in times /\ Cardinality(upto(x[1])) = i
      <3>1. Cardinality(upto(x[1])) = (i - 1) + 1
        BY <1>5, <2>1
      <3>2. QED
        BY <1>1, <3>1
    <2> DEFINE t == CHOOSE t \in times : Me!Cardinality(upto(t)) = i
    <2>2a. Me!Cardinality(upto(x[1])) = i
      BY <2>2, MeCardinality
    <2>2b. t \in times /\ Me!Cardinality(upto(t)) = i
      BY <2>2, <2>2a
    <2>3. t \in times /\ Cardinality(upto(t)) = i
      BY <2>2b, MeCardinality
    <2> HIDE DEF t, upto
    <2>4. PICK y \in P : y[1] = t
      BY <2>3
    <2>5. at(t) \in P /\ at(t)[1] = t
      BY <2>4
    <2>6. at(t) = y
      BY <1>2b, <2>4, <2>5
    <2>7. q[i] = y
      BY <1>7, <1>7a, <2>6 DEF t
    <2>8. i = Cardinality(Below(R, P, y)) + 1
      BY <1>5, <2>3, <2>4
    <2>9. QED
      BY <1>1, <1>6, <2>7, <2>8
  <1>9. Ranked(R, P, q)
    BY <1>8 DEF Ranked
  <1>10. /\ \A i, j \in 1..n : i < j <=> <<q[i], q[j]>> \in R
         /\ \A x \in P : \E i \in 1..n : q[i] = x
    BY <1>1, <1>4, <1>9, RankedOrder
  <1>11. DOMAIN q = 1..n /\ q = [i \in 1..n |-> q[i]]
    BY <1>7, <1>7a
  <1> HIDE DEF q, n
  <1>12. q \in Seq(Me!Point) /\ Len(q) = n
    <2>1. \A i \in 1..n : q[i] \in Me!Point
      BY <1>2, <1>8
    <2>2. QED
      BY <1>1, <1>11, <2>1
  <1>13. MeSorted(q)
    BY <1>3, <1>8, <1>10, <1>12 DEF MeSorted
  <1>14. \A p : p \in MePts(q) <=> p \in P
    BY <1>8, <1>10, <1>12 DEF MePts
  <1>15. QED
    BY <1>13, <1>14 DEF q

\* Sorted series with the same points do not differ at any place of both.
LEMMA MeSamePlace ==
  ASSUME NEW ts, MeSorted(ts), NEW us, MeSorted(us), \A p : p \in MePts(ts) <=> p \in MePts(us),
         NEW k \in Nat, k <= Len(ts), k <= Len(us), k > 0
  PROVE  ts[k] = us[k]
  <1>1. Len(ts) \in Nat /\ Len(us) \in Nat
    BY DEF MeSorted
  <1>2. /\ \A i \in 1..Len(ts) : ts[i] \in Me!Point
        /\ \A i \in 1..Len(us) : us[i] \in Me!Point
    BY DEF MeSorted
  <1>3. /\ \A i \in 1..Len(ts) : ts[i][1] \in Int
        /\ \A i \in 1..Len(us) : us[i][1] \in Int
    BY <1>2, MePoint
  <1>4. /\ \A i \in 1..Len(ts), j \in 1..Len(ts) : i < j => ts[i][1] < ts[j][1]
        /\ \A i \in 1..Len(us), j \in 1..Len(us) : i < j => us[i][1] < us[j][1]
    BY DEF MeSorted
  <1> DEFINE D == {i \in 1..k : ts[i] # us[i]}
  <1>5. SUFFICES ASSUME D # {} PROVE FALSE
    OBVIOUS
  <1>6. D \in SUBSET Nat
    OBVIOUS
  <1>7. PICK i \in D : \A d \in D : i <= d
    <2> HIDE DEF D
    <2> QED BY <1>5, <1>6, SmallestNumber
  <1>8. i \in 1..Len(ts) /\ i \in 1..Len(us) /\ ts[i] # us[i] /\ i \in Int
    BY <1>1, <1>7
  <1>9. \A j \in 1..k : j < i => ts[j] = us[j]
    BY <1>7
  <1>10. PICK j \in 1..Len(us) : us[j] = ts[i]
    BY <1>8 DEF MePts
  <1>11. PICK h \in 1..Len(ts) : ts[h] = us[i]
    BY <1>8 DEF MePts
  <1>12. j > i
    <2>1. CASE j = i
      BY <1>8, <1>10, <2>1
    <2>2. CASE j < i
      <3>1. j \in 1..k /\ j \in 1..Len(ts)
        BY <1>1, <1>7, <2>2
      <3>2. ts[j] = ts[i]
        BY <1>9, <1>10, <2>2, <3>1
      <3>3. QED
        BY <1>3, <1>4, <1>8, <2>2, <3>1, <3>2
    <2>3. QED
      BY <1>1, <1>8, <2>1, <2>2
  <1>13. h > i
    <2>1. CASE h = i
      BY <1>8, <1>11, <2>1
    <2>2. CASE h < i
      <3>1. h \in 1..k /\ h \in 1..Len(us)
        BY <1>1, <1>7, <2>2
      <3>2. us[h] = us[i]
        BY <1>9, <1>11, <2>2, <3>1
      <3>3. QED
        BY <1>3, <1>4, <1>8, <2>2, <3>1, <3>2
    <2>3. QED
      BY <1>1, <1>8, <2>1, <2>2
  <1>14. us[i][1] < ts[i][1] /\ ts[i][1] < us[i][1]
    BY <1>4, <1>8, <1>10, <1>11, <1>12, <1>13
  <1>15. QED
    BY <1>3, <1>8, <1>14

\* Sorted series with the same points have the same length.
LEMMA MeNotLonger ==
  ASSUME NEW ts, MeSorted(ts), NEW us, MeSorted(us), \A p : p \in MePts(ts) <=> p \in MePts(us),
         \A k \in Nat : k <= Len(ts) /\ k <= Len(us) /\ k > 0 => ts[k] = us[k]
  PROVE  ~(Len(ts) < Len(us))
  <1>1. Len(ts) \in Nat /\ Len(us) \in Nat
    BY DEF MeSorted
  <1>2. SUFFICES ASSUME Len(ts) < Len(us) PROVE FALSE
    OBVIOUS
  <1> DEFINE i == Len(ts) + 1
  <1>3. i \in 1..Len(us)
    BY <1>1, <1>2
  <1>4. us[i] \in MePts(ts)
    BY <1>3 DEF MePts
  <1>5. PICK h \in 1..Len(ts) : ts[h] = us[i]
    BY <1>4 DEF MePts
  <1>6. h < i /\ h \in 1..Len(us) /\ us[h] = us[i]
    BY <1>1, <1>2, <1>5
  <1>7. us[h][1] < us[i][1]
    BY <1>3, <1>6 DEF MeSorted
  <1>8. us[i] \in Me!Point
    BY <1>3 DEF MeSorted
  <1>9. us[i][1] \in Int
    BY <1>8, MePoint
  <1>10. QED
    BY <1>6, <1>7, <1>9

\* Points determine their sorted series.
LEMMA MeOneOrder ==
  ASSUME NEW ts, MeSorted(ts), NEW us, MeSorted(us), \A p : p \in MePts(ts) <=> p \in MePts(us)
  PROVE  ts = us
  <1>1. Len(ts) \in Nat /\ Len(us) \in Nat /\ ts \in Seq(Me!Point) /\ us \in Seq(Me!Point)
    BY DEF MeSorted
  <1>2. \A k \in Nat : k <= Len(ts) /\ k <= Len(us) /\ k > 0 => ts[k] = us[k]
    BY MeSamePlace
  <1>3. ~(Len(ts) < Len(us)) /\ ~(Len(us) < Len(ts))
    BY <1>2, MeNotLonger
  <1>4. Len(ts) = Len(us)
    BY <1>1, <1>3
  <1>5. QED
    BY <1>1, <1>2, <1>4

\* A part of a sorted series.
LEMMA MePart ==
  ASSUME NEW ts, MeSorted(ts), NEW a \in Nat, NEW b \in Nat, b <= Len(ts)
  PROVE  /\ MeSorted(SubSeq(ts, a + 1, b))
         /\ Len(SubSeq(ts, a + 1, b)) = IF a < b THEN b - a ELSE 0
         /\ \A p : p \in MePts(SubSeq(ts, a + 1, b)) <=> \E i \in 1..Len(ts) : a < i /\ i <= b /\ p = ts[i]
  <1> DEFINE us == SubSeq(ts, a + 1, b)
             n == IF a < b THEN b - a ELSE 0
  <1>1. ts \in Seq(Me!Point) /\ Len(ts) \in Nat
    BY DEF MeSorted
  <1>2. \A i \in 1..Len(ts), j \in 1..Len(ts) : i < j => ts[i][1] < ts[j][1]
    BY DEF MeSorted
  <1>3. \A i \in (a + 1)..b : i \in 1..Len(ts) /\ ts[i] \in Me!Point
    BY <1>1
  <1>4. us \in Seq(Me!Point) /\ Len(us) = n /\ \A i \in 1..n : us[i] = ts[a + i]
    <2>1. us = [i \in 1..n |-> ts[a + i]]
      BY <1>1
    <2>2. \A i \in 1..n : a + i \in (a + 1)..b
      BY <1>1
    <2>3. n \in Nat
      BY <1>1
    <2> HIDE DEF n, us
    <2>4. QED
      BY <1>3, <2>1, <2>2, <2>3
  <1> HIDE DEF us
  <1>5. MeSorted(us)
    <2>1. ASSUME NEW i \in 1..n, NEW j \in 1..n, i < j
          PROVE  us[i][1] < us[j][1]
      <3>1. a + i \in 1..Len(ts) /\ a + j \in 1..Len(ts) /\ a + i < a + j
        BY <1>1, <2>1
      <3>2. QED
        BY <1>2, <1>4, <3>1
    <2> HIDE DEF n
    <2>2. QED
      BY <1>4, <2>1 DEF MeSorted
  <1>6. \A p : p \in MePts(us) <=> \E i \in 1..Len(ts) : a < i /\ i <= b /\ p = ts[i]
    <2>1. ASSUME NEW p \in MePts(us)
          PROVE  \E i \in 1..Len(ts) : a < i /\ i <= b /\ p = ts[i]
      <3>1. PICK i \in 1..n : p = us[i]
        BY <1>4, <2>1 DEF MePts
      <3>2. a + i \in 1..Len(ts) /\ a < a + i /\ a + i <= b /\ p = ts[a + i]
        BY <1>1, <1>4, <3>1
      <3>3. QED
        BY <3>2
    <2>2. ASSUME NEW i \in 1..Len(ts), a < i, i <= b
          PROVE  ts[i] \in MePts(us)
      <3>1. i - a \in 1..n /\ a + (i - a) = i
        BY <1>1, <2>2
      <3>2. us[i - a] = ts[i]
        BY <1>4, <3>1
      <3> HIDE DEF n
      <3>3. QED
        BY <1>4, <3>1, <3>2 DEF MePts
    <2>3. QED
      BY <2>1, <2>2
  <1>7. QED
    BY <1>4, <1>5, <1>6 DEF us

\* One sorted series after another.
LEMMA MeJoined ==
  ASSUME NEW ts, MeSorted(ts), NEW us, MeSorted(us),
         \A p \in MePts(ts), r \in MePts(us) : p[1] < r[1]
  PROVE  /\ MeSorted(ts \o us)
         /\ \A p : p \in MePts(ts \o us) <=> p \in MePts(ts) \/ p \in MePts(us)
  <1> DEFINE m == Len(ts)
             n == Len(us)
             vs == ts \o us
  <1>1. ts \in Seq(Me!Point) /\ us \in Seq(Me!Point) /\ m \in Nat /\ n \in Nat
    BY DEF MeSorted
  <1>2. vs \in Seq(Me!Point) /\ Len(vs) = m + n
    BY <1>1
  <1>3. \A i \in 1..(m + n) : vs[i] = IF i <= m THEN ts[i] ELSE us[i - m]
    BY <1>1
  <1>4. \A i \in 1..m, j \in 1..n : ts[i][1] < us[j][1]
    BY DEF MePts
  <1>5. /\ \A i \in 1..m, j \in 1..m : i < j => ts[i][1] < ts[j][1]
        /\ \A i \in 1..n, j \in 1..n : i < j => us[i][1] < us[j][1]
    BY DEF MeSorted
  <1> HIDE DEF vs, m, n
  <1>6. ASSUME NEW i \in 1..(m + n), NEW j \in 1..(m + n), i < j
        PROVE  vs[i][1] < vs[j][1]
    <2>1. CASE j <= m
      <3>1. i \in 1..m /\ j \in 1..m /\ vs[i] = ts[i] /\ vs[j] = ts[j]
        BY <1>1, <1>3, <1>6, <2>1
      <3>2. QED
        BY <1>5, <1>6, <3>1
    <2>2. CASE i > m
      <3>1. i - m \in 1..n /\ j - m \in 1..n /\ vs[i] = us[i - m] /\ vs[j] = us[j - m] /\ i - m < j - m
        BY <1>1, <1>3, <1>6, <2>2
      <3>2. QED
        BY <1>5, <3>1
    <2>3. CASE i <= m /\ j > m
      <3>1. i \in 1..m /\ j - m \in 1..n /\ vs[i] = ts[i] /\ vs[j] = us[j - m]
        BY <1>1, <1>3, <1>6, <2>3
      <3>2. QED
        BY <1>4, <3>1
    <2>4. QED
      BY <1>1, <2>1, <2>2, <2>3
  <1>7. MeSorted(vs)
    BY <1>2, <1>6 DEF MeSorted
  <1>8. \A p \in MePts(vs) : p \in MePts(ts) \/ p \in MePts(us)
    <2>1. SUFFICES ASSUME NEW i \in 1..(m + n) PROVE vs[i] \in MePts(ts) \/ vs[i] \in MePts(us)
      BY <1>2 DEF MePts
    <2>2. CASE i <= m
      BY <1>1, <1>3, <2>2 DEF MePts, m
    <2>3. CASE i > m
      <3>1. i - m \in 1..n /\ vs[i] = us[i - m]
        BY <1>1, <1>3, <2>3
      <3>2. QED
        BY <3>1 DEF MePts, n
    <2>4. QED
      BY <1>1, <2>2, <2>3
  <1>9. \A p \in MePts(ts) : p \in MePts(vs)
    <2>1. SUFFICES ASSUME NEW i \in 1..m PROVE ts[i] \in MePts(vs)
      BY DEF MePts, m
    <2>2. i \in 1..(m + n) /\ vs[i] = ts[i]
      BY <1>1, <1>3
    <2>3. QED
      BY <1>2, <2>2 DEF MePts
  <1>10. \A p \in MePts(us) : p \in MePts(vs)
    <2>1. SUFFICES ASSUME NEW i \in 1..n PROVE us[i] \in MePts(vs)
      BY DEF MePts, n
    <2>2. m + i \in 1..(m + n) /\ vs[m + i] = us[i]
      BY <1>1, <1>3
    <2>3. QED
      BY <1>2, <2>2 DEF MePts
  <1>11. QED
    BY <1>7, <1>8, <1>9, <1>10 DEF vs

\* A series without points.
LEMMA MeNothing ==
  MeSorted(<<>>) /\ \A p : p \notin MePts(<<>>)
  BY DEF MeSorted, MePts

-----------------------------------------------------------------------------
(* The cache of one query, about the series K with the points src.          *)

\* What a cache entry holds is sorted, in the table and older than limit; and
\* from the entry's start to any point it holds of any series, it holds all.
MeHolds(data, m, p) == m \in DOMAIN data /\ p \in MePts(data[m])
MeSeries(data, K) == DOMAIN data \in SUBSET K /\ \A m \in DOMAIN data : MeSorted(data[m])
MeEntry(en, K, src, limit) ==
  /\ en.start \in Int /\ MeSeries(en.data, K)
  /\ \A m, p : MeHolds(en.data, m, p) => p \in src[m] /\ p[1] < limit
  /\ \A m \in K : \A p \in src[m] : \A k, r :
       en.start <= p[1] /\ MeHolds(en.data, k, r) /\ p[1] <= r[1] => MeHolds(en.data, m, p)

\* The table's points of the series.
MeSource(K, src) == \A m \in K : MePoints(src[m])

\* new has all points of a window.
MeWindow(new, K, src, s, e) ==
  /\ MeSeries(new, K)
  /\ \A m \in K : \A p : MeHolds(new, m, p) <=> p \in src[m] /\ s <= p[1] /\ p[1] <= e

\* What a lookup finds: all points of the window that are before next, and
\* an entry that has all points from its start on that are before next.
MeFound(hit, K, src, s, e) ==
  /\ hit.next \in Int /\ s <= hit.next
  /\ MeSeries(hit.cached, K)
  /\ \A m \in K : \A p : MeHolds(hit.cached, m, p) <=> p \in src[m] /\ s <= p[1] /\ p[1] < hit.next
  /\ \A m, p : MeHolds(hit.cached, m, p) => p[1] <= e
  /\ DOMAIN hit.entry.data # {} =>
       \A m \in K : \A p \in src[m] :
         hit.entry.start <= p[1] /\ p[1] < hit.next => MeHolds(hit.entry.data, m, p)

\* What a miss finds: nothing.
LEMMA MeMiss ==
  ASSUME NEW K, NEW src, MeSource(K, src), NEW limit \in Int, NEW en, MeEntry(en, K, src, limit),
         NEW s \in Int, NEW e \in Int, DOMAIN en.data = {} \/ s < en.start
  PROVE  /\ MeFound(Me!Miss(en, s, e), K, src, s, e)
         /\ MeEntry(Me!Miss(en, s, e).entry, K, src, limit)
         /\ Me!Miss(en, s, e).next = s /\ Me!Miss(en, s, e).entry = en
  <1> DEFINE hit == Me!Miss(en, s, e)
  <1>1. hit.next = s /\ hit.entry = en /\ DOMAIN hit.cached = {}
    BY DEF Me!Miss, Me!NoData
  <1> HIDE DEF hit
  <1>2. \A m \in K : \A p \in src[m] : p[1] \in Int
    BY MePoint DEF MeSource, MePoints
  <1>3. \A m \in K : \A p : p \in src[m] => ~(s <= p[1] /\ p[1] < s)
    BY <1>2
  <1>4. DOMAIN en.data # {} => \A m \in K : \A p \in src[m] : ~(en.start <= p[1] /\ p[1] < s)
    BY <1>2 DEF MeEntry
  <1>5. MeFound(hit, K, src, s, e)
    BY <1>1, <1>3, <1>4 DEF MeFound, MeSeries, MeHolds
  <1>6. QED
    BY <1>1, <1>5 DEF hit

\* The largest of some times.
LEMMA MeLargest ==
  ASSUME NEW S, S # {}, \A t \in S : t \in Int /\ 1 <= t /\ t <= MaxStamp
  PROVE  Me!MaxOr0(S) \in S /\ \A t \in S : t <= Me!MaxOr0(S)
  <1> DEFINE I == 1..MaxStamp
  <1>1. MaxStamp \in Int /\ 1 \in Int
    BY ConstantsAssumption
  <1>2. IsFiniteSet(1..MaxStamp)
    BY <1>1, FS_Interval
  <1>3. IsFiniteSet(I) /\ S \in SUBSET I /\ S \in SUBSET Int
    BY <1>1, <1>2
  <1> HIDE DEF I
  <1>4. IsFiniteSet(S)
    BY <1>3, FS_Subset
  <1>5. Max(S) \in S /\ \A y \in S : y <= Max(S)
    BY <1>3, <1>4, LargestNumber
  <1>6. QED
    BY <1>5 DEF Me!MaxOr0

\* The part of a sorted series from a time on.
LEMMA MeFrom ==
  ASSUME NEW ts, MeSorted(ts), NEW s \in Int
  PROVE  LET from == Me!BisectBefore(ts, s)
             part == SubSeq(ts, from + 1, Len(ts))
         IN  /\ from \in 0..Len(ts) /\ Len(ts) \in Nat
             /\ MeSorted(part)
             /\ \A p : p \in MePts(part) <=> p \in MePts(ts) /\ s <= p[1]
             /\ from < Len(ts) <=> \E p \in MePts(ts) : s <= p[1]
             /\ from < Len(ts) => ts[Len(ts)] \in MePts(part) /\ \A p \in MePts(ts) : p[1] <= ts[Len(ts)][1]
  <1> DEFINE n == Len(ts)
             from == Me!BisectBefore(ts, s)
             part == SubSeq(ts, from + 1, n)
  <1>1. n \in Nat /\ from \in 0..n /\ \A i \in 1..n : ts[i][1] < s <=> i <= from
    BY MeBisect DEF MeSorted
  <1>2. \A i \in 1..n : ts[i] \in Me!Point
    BY DEF MeSorted
  <1>3. \A i \in 1..n : ts[i][1] \in Int
    BY <1>2, MePoint
  <1>4. from \in Nat
    BY <1>1
  <1>5. /\ MeSorted(part)
        /\ \A p : p \in MePts(part) <=> \E i \in 1..n : from < i /\ i <= n /\ p = ts[i]
    <2> HIDE DEF from
    <2> QED BY <1>1, <1>4, MePart
  <1> HIDE DEF from, part
  <1>6. \A i \in 1..n : s <= ts[i][1] <=> from < i
    BY <1>1, <1>3
  <1>7. \A p : p \in MePts(part) <=> p \in MePts(ts) /\ s <= p[1]
    <2>1. \A p : p \in MePts(ts) <=> \E i \in 1..n : p = ts[i]
      BY DEF MePts
    <2>2. \A i \in 1..n : i <= n
      BY <1>1
    <2> HIDE DEF n
    <2>3. QED
      BY <1>5, <1>6, <2>1, <2>2
  <1>8. from < n <=> \E p \in MePts(ts) : s <= p[1]
    <2>1. ASSUME from < n PROVE \E p \in MePts(ts) : s <= p[1]
      <3>1. n \in 1..n
        BY <1>1, <2>1
      <3>2. ts[n] \in MePts(ts) /\ s <= ts[n][1]
        BY <1>6, <2>1, <3>1 DEF MePts
      <3>3. QED
        BY <3>2
    <2>2. ASSUME NEW p \in MePts(ts), s <= p[1] PROVE from < n
      <3>1. PICK i \in 1..n : p = ts[i]
        BY DEF MePts
      <3>2. QED
        BY <1>1, <1>6, <2>2, <3>1
    <2>3. QED
      BY <2>1, <2>2
  <1>9. ASSUME from < n
        PROVE  ts[n] \in MePts(part) /\ \A p \in MePts(ts) : p[1] <= ts[n][1]
    <2>1. n \in 1..n
      BY <1>1, <1>9
    <2>2. ts[n] \in MePts(part)
      BY <1>5, <1>9, <2>1
    <2>3. \A i \in 1..n : ts[i][1] <= ts[n][1]
      <3>1. SUFFICES ASSUME NEW i \in 1..n PROVE ts[i][1] <= ts[n][1]
        OBVIOUS
      <3>2. CASE i = n
        BY <1>3, <2>1, <3>2
      <3>3. CASE i < n
        <4>1. ts[i][1] < ts[n][1]
          BY <2>1, <3>3 DEF MeSorted
        <4>2. QED
          BY <1>3, <2>1, <4>1
      <3>4. QED
        BY <1>1, <3>2, <3>3
    <2>4. QED
      BY <2>2, <2>3 DEF MePts
  <1>10. QED
    BY <1>1, <1>5, <1>7, <1>8, <1>9 DEF from, part

\* What a hit finds, and what it leaves in the cache, when the window does not
\* end before what is cached.
LEMMA MeHit ==
  ASSUME NEW K, NEW src, MeSource(K, src), NEW limit \in Int, NEW en, MeEntry(en, K, src, limit),
         NEW s \in Int, NEW e \in Int, en.start <= s,
         \A m, p : MeHolds(en.data, m, p) => p[1] <= e
  PROVE  /\ MeFound(Me!Hit(en, s, e), K, src, s, e)
         /\ MeEntry(Me!Hit(en, s, e).entry, K, src, limit)
         /\ Me!Hit(en, s, e).next <= IF s <= limit THEN limit ELSE s
         /\ Me!Hit(en, s, e).next = s \/ \E k \in K : \E r \in src[k] : Me!Hit(en, s, e).next = r[1] + 1
         /\ \A m, p : MeHolds(Me!Hit(en, s, e).entry.data, m, p) => MeHolds(en.data, m, p)
  <1> DEFINE ts(m) == en.data[m]
             from(m) == Me!BisectBefore(ts(m), s)
             to(m) == Me!BisectAfter(ts(m), e)
             found == {m \in DOMAIN en.data : from(m) < Len(ts(m))}
             lasts == {Me!PyAt(ts(m), to(m) - 1)[1] : m \in found}
             hit == Me!Hit(en, s, e)
  <1>1. /\ hit.cached = [m \in found |-> SubSeq(ts(m), from(m) + 1, to(m))]
        /\ hit.next = IF found = {} THEN s ELSE Me!MaxOr0(lasts) + 1
        /\ hit.entry.start = s
        /\ hit.entry.data = [m \in found |-> SubSeq(ts(m), from(m) + 1, Len(ts(m)))]
    BY DEF Me!Hit, Me!CacheEntry
  <1>2. \A m \in DOMAIN en.data : MeSorted(en.data[m]) /\ m \in K
    BY DEF MeEntry, MeSeries
  <1>3. \A m \in DOMAIN en.data :
          /\ from(m) \in 0..Len(ts(m)) /\ Len(ts(m)) \in Nat
          /\ MeSorted(SubSeq(ts(m), from(m) + 1, Len(ts(m))))
          /\ \A p : p \in MePts(SubSeq(ts(m), from(m) + 1, Len(ts(m)))) <=> p \in MePts(ts(m)) /\ s <= p[1]
          /\ from(m) < Len(ts(m)) <=> \E p \in MePts(ts(m)) : s <= p[1]
          /\ from(m) < Len(ts(m)) =>
               /\ ts(m)[Len(ts(m))] \in MePts(SubSeq(ts(m), from(m) + 1, Len(ts(m))))
               /\ \A p \in MePts(ts(m)) : p[1] <= ts(m)[Len(ts(m))][1]
    BY <1>2, MeFrom
  <1>4. \A m \in DOMAIN en.data : to(m) = Len(ts(m))
    <2>1. SUFFICES ASSUME NEW m \in DOMAIN en.data PROVE to(m) = Len(ts(m))
      OBVIOUS
    <2>2. to(m) \in 0..Len(ts(m)) /\ \A i \in 1..Len(ts(m)) : ts(m)[i][1] <= e <=> i <= to(m)
      BY <1>2, MeBisect
    <2>3. \A i \in 1..Len(ts(m)) : ts(m)[i][1] <= e
      BY DEF MeHolds, MePts
    <2>4. Len(ts(m)) \in Nat
      BY <1>3
    <2>5. \A i \in 1..Len(ts(m)) : i <= to(m)
      BY <2>2, <2>3
    <2> HIDE DEF ts, to
    <2>6. CASE Len(ts(m)) = 0
      BY <2>2, <2>6
    <2>7. CASE Len(ts(m)) \in 1..Len(ts(m))
      BY <2>2, <2>4, <2>5, <2>7
    <2>8. QED
      BY <2>4, <2>6, <2>7
  <1>5. \A m \in found : Me!PyAt(ts(m), to(m) - 1) = ts(m)[Len(ts(m))]
    <2>1. SUFFICES ASSUME NEW m \in found PROVE Me!PyAt(ts(m), to(m) - 1) = ts(m)[Len(ts(m))]
      OBVIOUS
    <2>2. from(m) \in 0..Len(ts(m)) /\ Len(ts(m)) \in Nat /\ from(m) < Len(ts(m)) /\ to(m) = Len(ts(m))
      BY <1>3, <1>4
    <2> HIDE DEF from, to, ts
    <2>3. to(m) - 1 # -1 /\ (to(m) - 1) + 1 = Len(ts(m))
      BY <2>2
    <2>4. QED
      BY <2>3 DEF Me!PyAt
  <1>6. found \in SUBSET DOMAIN en.data
    OBVIOUS
  <1>7. \A m \in DOMAIN en.data : m \in found <=> \E p \in MePts(en.data[m]) : s <= p[1]
    BY <1>3
  <1>8. \A m \in found : /\ MeHolds(en.data, m, en.data[m][Len(en.data[m])])
                         /\ s <= en.data[m][Len(en.data[m])][1]
                         /\ \A p \in MePts(en.data[m]) : p[1] <= en.data[m][Len(en.data[m])][1]
    BY <1>3 DEF MeHolds
  <1>9. \A t : t \in lasts <=> \E m \in found : t = en.data[m][Len(en.data[m])][1]
    BY <1>5
  <1>10. \A m \in found : hit.cached[m] = hit.entry.data[m]
    BY <1>1, <1>4
  <1>11. DOMAIN hit.cached = found /\ DOMAIN hit.entry.data = found
    BY <1>1
  <1>12. \A m \in found : /\ MeSorted(hit.entry.data[m])
                          /\ \A p : p \in MePts(hit.entry.data[m]) <=> p \in MePts(en.data[m]) /\ s <= p[1]
    BY <1>1, <1>3
  <1>13. found # {} => hit.next = Me!MaxOr0(lasts) + 1
    BY <1>1
  <1>14. found = {} => hit.next = s
    BY <1>1
  <1>15. hit.entry.start = s
    BY <1>1
  <1> HIDE DEF ts, from, to, found, lasts, hit
  <1>16. \A m, p : MeHolds(en.data, m, p) => p \in src[m] /\ m \in K /\ p \in Me!Point /\ p[1] < limit
    BY <1>2 DEF MeHolds, MeEntry, MeSource, MePoints
  <1>17. \A m, p : MeHolds(en.data, m, p) => p[1] \in Int /\ 1 <= p[1] /\ p[1] <= MaxStamp
    BY <1>16, MePoint
  <1>17a. \A m, p : MeHolds(en.data, m, p) => p[1] \in 1..MaxStamp
    BY <1>16 DEF Me!Point, Me!Time
  <1>18. \A m, p : MeHolds(hit.entry.data, m, p) <=> MeHolds(en.data, m, p) /\ s <= p[1]
    BY <1>6, <1>7, <1>11, <1>12 DEF MeHolds
  <1>19. \A m, p : MeHolds(hit.cached, m, p) <=> MeHolds(en.data, m, p) /\ s <= p[1]
    BY <1>10, <1>11, <1>18 DEF MeHolds
  <1>20. MeSeries(hit.cached, K) /\ MeSeries(hit.entry.data, K)
    BY <1>2, <1>6, <1>10, <1>11, <1>12 DEF MeSeries
  <1>21. \A m \in K : \A p \in src[m] : p[1] \in Int
    BY MePoint DEF MeSource, MePoints
  <1>22. MeEntry(hit.entry, K, src, limit)
    <2>1. \A m, p : MeHolds(hit.entry.data, m, p) => p \in src[m] /\ p[1] < limit
      BY <1>16, <1>18
    <2>2. ASSUME NEW m \in K, NEW p \in src[m], NEW k, NEW r,
                 s <= p[1], MeHolds(hit.entry.data, k, r), p[1] <= r[1]
          PROVE  MeHolds(hit.entry.data, m, p)
      <3>1. en.start <= p[1] /\ MeHolds(en.data, k, r)
        BY <1>18, <1>21, <2>2 DEF MeEntry
      <3>2. MeHolds(en.data, m, p)
        BY <2>2, <3>1 DEF MeEntry
      <3>3. QED
        BY <1>18, <2>2, <3>2
    <2>3. QED
      BY <1>15, <1>20, <2>1, <2>2 DEF MeEntry
  <1>23. CASE found = {}
    <2>1. DOMAIN hit.entry.data = {} /\ DOMAIN hit.cached = {} /\ hit.next = s
      BY <1>11, <1>14, <1>23
    <2>2. \A m \in K : \A p : p \in src[m] => ~(s <= p[1] /\ p[1] < s)
      BY <1>21
    <2>3. MeFound(hit, K, src, s, e)
      BY <1>20, <2>1, <2>2 DEF MeFound, MeHolds
    <2>4. hit.next <= IF s <= limit THEN limit ELSE s
      BY <2>1
    <2>5. QED
      BY <1>18, <1>22, <2>1, <2>3, <2>4 DEF hit
  <1>24. CASE found # {}
    <2> DEFINE top == Me!MaxOr0(lasts)
    <2>1. lasts # {} /\ \A t \in lasts : t \in Int /\ 1 <= t /\ t <= MaxStamp
      <3>1. lasts # {}
        BY <1>9, <1>24
      <3>2. ASSUME NEW m \in found
            PROVE  en.data[m][Len(en.data[m])][1] \in 1..MaxStamp
        <4> DEFINE z == en.data[m][Len(en.data[m])]
        <4>1. MeHolds(en.data, m, z)
          BY <1>8
        <4> HIDE DEF z
        <4>2. z[1] \in 1..MaxStamp
          BY <1>17a, <4>1
        <4>3. QED
          BY <4>2 DEF z
      <3>3. MaxStamp \in Int
        BY ConstantsAssumption
      <3>4. QED
        BY <1>9, <3>1, <3>2, <3>3
    <2>2. top \in lasts /\ \A t \in lasts : t <= top
      BY <2>1, MeLargest
    <2> HIDE DEF top
    <2>3. PICK k \in found : top = en.data[k][Len(en.data[k])][1]
      BY <1>9, <2>2
    <2> DEFINE r == en.data[k][Len(en.data[k])]
    <2>4. MeHolds(en.data, k, r) /\ s <= r[1] /\ top = r[1]
      BY <1>8, <2>3
    <2> HIDE DEF r
    <2>5. top \in Int /\ s <= top /\ top < limit /\ hit.next = top + 1
      BY <1>13, <1>16, <1>17, <1>24, <2>4 DEF top
    <2>6. \A m, p : MeHolds(en.data, m, p) /\ s <= p[1] => p[1] <= top
      <3>1. SUFFICES ASSUME NEW m, NEW p, MeHolds(en.data, m, p), s <= p[1] PROVE p[1] <= top
        OBVIOUS
      <3>2. m \in found /\ p \in MePts(en.data[m])
        BY <1>7, <3>1 DEF MeHolds
      <3> DEFINE z == en.data[m][Len(en.data[m])]
      <3>3. p[1] <= z[1] /\ MeHolds(en.data, m, z) /\ z[1] \in lasts
        BY <1>8, <1>9, <3>2
      <3> HIDE DEF z
      <3>4. QED
        BY <1>17, <2>2, <2>5, <3>1, <3>3
    <2>7. ASSUME NEW m \in K, NEW p \in src[m], s <= p[1], p[1] < hit.next
          PROVE  MeHolds(en.data, m, p)
      <3>1. en.start \in Int /\ en.start <= p[1] /\ p[1] <= r[1]
        BY <1>21, <2>4, <2>5, <2>7 DEF MeEntry
      <3>2. QED
        BY <2>4, <3>1 DEF MeEntry
    <2>8. \A m \in K : \A p : MeHolds(hit.cached, m, p) <=> p \in src[m] /\ s <= p[1] /\ p[1] < hit.next
      <3>1. ASSUME NEW m \in K, NEW p, MeHolds(hit.cached, m, p)
            PROVE  p \in src[m] /\ s <= p[1] /\ p[1] < hit.next
        BY <1>16, <1>17, <1>19, <2>5, <2>6, <3>1
      <3>2. QED
        BY <1>19, <2>7, <3>1
    <2>9. \A m, p : MeHolds(hit.cached, m, p) => p[1] <= e
      BY <1>19
    <2>10. \A m \in K : \A p \in src[m] :
             hit.entry.start <= p[1] /\ p[1] < hit.next => MeHolds(hit.entry.data, m, p)
      BY <1>15, <1>18, <2>7
    <2>11. hit.next \in Int /\ s <= hit.next /\ hit.next <= IF s <= limit THEN limit ELSE s
      BY <2>5
    <2>12. MeFound(hit, K, src, s, e)
      BY <1>20, <2>8, <2>9, <2>10, <2>11 DEF MeFound
    <2>12a. \E j \in K : \E x \in src[j] : hit.next = x[1] + 1
      <3>1. k \in K /\ r \in src[k]
        BY <2>4 DEF MeEntry, MeHolds, MeSeries
      <3>2. QED
        BY <2>4, <2>5, <3>1
    <2>13. QED
      BY <1>18, <1>22, <2>11, <2>12, <2>12a DEF hit
  <1>25. QED
    BY <1>23, <1>24

\* From when on nothing is kept.
MeLimit == Me!wall - CacheDelay

\* What is old enough to be kept.
LEMMA MeSettled ==
  ASSUME NEW ts, MeSorted(ts), MeLimit \in Int
  PROVE  /\ MeSorted(Me!Settled(ts))
         /\ \A p : p \in MePts(Me!Settled(ts)) <=> p \in MePts(ts) /\ p[1] < MeLimit
  <1> DEFINE limit == MeLimit
             b == Me!BisectBefore(ts, limit)
             us == SubSeq(ts, 1, b)
  <1>1. limit \in Int
    OBVIOUS
  <1>2. b \in 0..Len(ts) /\ \A i \in 1..Len(ts) : ts[i][1] < limit <=> i <= b
    <2> HIDE DEF limit
    <2> QED BY <1>1, MeBisect
  <1>3. Len(ts) \in Nat
    BY DEF MeSorted
  <1>4. Me!Settled(ts) = us
    BY DEF Me!Settled, MeLimit
  <1> HIDE DEF b, limit
  <1> DEFINE a == 0
  <1>5. b \in Nat /\ b <= Len(ts) /\ a \in Nat
    BY <1>2, <1>3
  <1>5a. a = 0 /\ us = SubSeq(ts, a + 1, b)
    OBVIOUS
  <1> HIDE DEF a
  <1>6. /\ MeSorted(SubSeq(ts, a + 1, b))
        /\ \A p : p \in MePts(SubSeq(ts, a + 1, b)) <=> \E i \in 1..Len(ts) : a < i /\ i <= b /\ p = ts[i]
    BY <1>5, MePart
  <1>7. MeSorted(us) /\ \A p : p \in MePts(us) <=> \E i \in 1..Len(ts) : 0 < i /\ i <= b /\ p = ts[i]
    <2> HIDE DEF us
    <2> QED BY <1>5a, <1>6
  <1> HIDE DEF us
  <1>8. \A p : p \in MePts(ts) <=> \E i \in 1..Len(ts) : p = ts[i]
    BY DEF MePts
  <1>9. \A i \in 1..Len(ts) : 0 < i
    BY <1>3
  <1>10. \A p : p \in MePts(us) <=> p \in MePts(ts) /\ p[1] < limit
    BY <1>2, <1>7, <1>8, <1>9
  <1>11. QED
    BY <1>4, <1>7, <1>10 DEF limit

\* What is stored for a window is its old points.
MeStored(new) == [m \in DOMAIN new |-> Me!Settled(new[m])]

\* Those are a good cache entry by themselves.
LEMMA MeStoredOK ==
  ASSUME NEW K, NEW src, MeSource(K, src), MeLimit \in Int,
         NEW n \in Int, NEW e \in Int, NEW new, MeWindow(new, K, src, n, e)
  PROVE  /\ MeSeries(MeStored(new), K)
         /\ \A m \in K : \A p : MeHolds(MeStored(new), m, p) <=>
              /\ p \in src[m] /\ n <= p[1] /\ p[1] <= e /\ p[1] < MeLimit
         /\ MeEntry(Me!CacheEntry(n, MeStored(new)), K, src, MeLimit)
  <1> DEFINE st == MeStored(new)
             limit == MeLimit
             en == Me!CacheEntry(n, st)
  <1>0. limit \in Int
    OBVIOUS
  <1>1. DOMAIN st = DOMAIN new /\ DOMAIN new \in SUBSET K /\ limit \in Int
    BY <1>0 DEF MeStored, MeWindow, MeSeries
  <1>2. \A m \in DOMAIN new : MeSorted(new[m]) /\ st[m] = Me!Settled(new[m])
    BY DEF MeWindow, MeSeries, MeStored
  <1> HIDE DEF st
  <1>3. \A m \in DOMAIN new : /\ MeSorted(st[m])
                              /\ \A p : p \in MePts(st[m]) <=> p \in MePts(new[m]) /\ p[1] < limit
    BY <1>2, MeSettled
  <1> HIDE DEF limit
  <1>4. MeSeries(st, K)
    BY <1>1, <1>3 DEF MeSeries
  <1>5. \A m, p : MeHolds(st, m, p) <=> MeHolds(new, m, p) /\ p[1] < limit
    BY <1>1, <1>3 DEF MeHolds
  <1>6. \A m \in K : \A p : MeHolds(st, m, p) <=> p \in src[m] /\ n <= p[1] /\ p[1] <= e /\ p[1] < limit
    BY <1>5 DEF MeWindow
  <1>7. en.start = n /\ en.data = st
    BY DEF Me!CacheEntry
  <1> HIDE DEF en
  <1>8. \A m, p : MeHolds(st, m, p) => m \in K
    BY <1>4 DEF MeHolds, MeSeries
  <1>9. \A m \in K : \A p \in src[m] : p[1] \in Int
    BY MePoint DEF MeSource, MePoints
  <1>10. ASSUME NEW m \in K, NEW p \in src[m], NEW k, NEW r,
                n <= p[1], MeHolds(st, k, r), p[1] <= r[1]
         PROVE  MeHolds(st, m, p)
    <2>1. k \in K /\ r \in src[k] /\ r[1] <= e /\ r[1] < limit /\ r[1] \in Int /\ p[1] \in Int
      BY <1>6, <1>8, <1>9, <1>10
    <2>2. p[1] <= e /\ p[1] < limit
      BY <1>1, <1>10, <2>1
    <2>3. QED
      BY <1>6, <1>10, <2>2
  <1>11. MeEntry(en, K, src, limit)
    BY <1>4, <1>6, <1>7, <1>8, <1>10 DEF MeEntry
  <1>12. QED
    BY <1>4, <1>6, <1>11 DEF st, en, limit

\* A sorted series that begins after another one ends is all after it.
LEMMA MeAfter ==
  ASSUME NEW ts, MeSorted(ts), NEW us, MeSorted(us),
         us # <<>> /\ ts # <<>> => ~(us[1][1] <= ts[Len(ts)][1])
  PROVE  \A p \in MePts(ts), r \in MePts(us) : p[1] < r[1]
  <1>1. SUFFICES ASSUME NEW i \in 1..Len(ts), NEW j \in 1..Len(us)
                 PROVE  ts[i][1] < us[j][1]
    BY DEF MePts
  <1>2. /\ Len(ts) \in Nat /\ Len(us) \in Nat
        /\ \A k \in 1..Len(ts) : ts[k] \in Me!Point
        /\ \A k \in 1..Len(us) : us[k] \in Me!Point
        /\ ts \in Seq(Me!Point) /\ us \in Seq(Me!Point)
    BY DEF MeSorted
  <1>3. /\ \A k \in 1..Len(ts) : ts[k][1] \in Int
        /\ \A k \in 1..Len(us) : us[k][1] \in Int
    BY <1>2, MePoint
  <1>4. 1 \in 1..Len(us) /\ Len(ts) \in 1..Len(ts) /\ us # <<>> /\ ts # <<>>
    BY <1>2
  <1>5. ts[i][1] <= ts[Len(ts)][1]
    <2>1. CASE i = Len(ts)
      BY <1>3, <1>4, <2>1
    <2>2. CASE i < Len(ts)
      <3>1. ts[i][1] < ts[Len(ts)][1]
        BY <1>4, <2>2 DEF MeSorted
      <3>2. QED
        BY <1>3, <1>4, <3>1
    <2>3. QED
      BY <1>2, <2>1, <2>2
  <1>6. us[1][1] <= us[j][1]
    <2>1. CASE j = 1
      BY <1>3, <1>4, <2>1
    <2>2. CASE 1 < j
      <3>1. us[1][1] < us[j][1]
        BY <1>4, <2>2 DEF MeSorted
      <3>2. QED
        BY <1>3, <1>4, <3>1
    <2>3. QED
      BY <1>2, <2>1, <2>2
  <1>7. QED
    BY <1>3, <1>4, <1>5, <1>6

\* What a series of a dictionary is, missing ones being empty.
MeGet(data, m) == IF m \in DOMAIN data THEN data[m] ELSE <<>>
MeBoth(data, new) == [m \in DOMAIN data \cup DOMAIN new |-> MeGet(data, m) \o MeGet(new, m)]

\* Two dictionaries, the second of later points, series by series.
LEMMA MeConcat ==
  ASSUME NEW K, NEW data, MeSeries(data, K), NEW new, MeSeries(new, K),
         \A m, p, r : MeHolds(data, m, p) /\ MeHolds(new, m, r) => p[1] < r[1]
  PROVE  /\ MeSeries(MeBoth(data, new), K)
         /\ \A m, p : MeHolds(MeBoth(data, new), m, p) <=> MeHolds(data, m, p) \/ MeHolds(new, m, p)
  <1> DEFINE D == DOMAIN data \cup DOMAIN new
             both == MeBoth(data, new)
  <1>1. DOMAIN both = D /\ \A m \in D : both[m] = MeGet(data, m) \o MeGet(new, m)
    BY DEF MeBoth
  <1>2. \A m : MeSorted(MeGet(data, m)) /\ \A p : p \in MePts(MeGet(data, m)) <=> MeHolds(data, m, p)
    BY MeNothing DEF MeGet, MeHolds, MeSeries
  <1>3. \A m : MeSorted(MeGet(new, m)) /\ \A p : p \in MePts(MeGet(new, m)) <=> MeHolds(new, m, p)
    BY MeNothing DEF MeGet, MeHolds, MeSeries
  <1>4. ASSUME NEW m
        PROVE  /\ MeSorted(MeGet(data, m) \o MeGet(new, m))
               /\ \A p : p \in MePts(MeGet(data, m) \o MeGet(new, m)) <=> MeHolds(data, m, p) \/ MeHolds(new, m, p)
    <2> DEFINE ts == MeGet(data, m)
               us == MeGet(new, m)
    <2>1. MeSorted(ts) /\ MeSorted(us) /\ \A p \in MePts(ts), r \in MePts(us) : p[1] < r[1]
      BY <1>2, <1>3
    <2>2. \A p : (p \in MePts(ts) <=> MeHolds(data, m, p)) /\ (p \in MePts(us) <=> MeHolds(new, m, p))
      BY <1>2, <1>3
    <2> HIDE DEF ts, us
    <2>3. MeSorted(ts \o us) /\ \A p : p \in MePts(ts \o us) <=> p \in MePts(ts) \/ p \in MePts(us)
      BY <2>1, MeJoined
    <2>4. QED
      BY <2>2, <2>3 DEF ts, us
  <1> HIDE DEF both
  <1>5. MeSeries(both, K)
    BY <1>1, <1>4 DEF MeSeries
  <1>6. \A m, p : MeHolds(both, m, p) <=> MeHolds(data, m, p) \/ MeHolds(new, m, p)
    <2>1. \A m \in D : \A p : MeHolds(both, m, p) <=> MeHolds(data, m, p) \/ MeHolds(new, m, p)
      BY <1>1, <1>4 DEF MeHolds
    <2>2. \A m, p : m \notin D => ~MeHolds(both, m, p) /\ ~MeHolds(data, m, p) /\ ~MeHolds(new, m, p)
      BY <1>1 DEF MeHolds
    <2>3. QED
      BY <2>1, <2>2
  <1>7. QED
    BY <1>5, <1>6 DEF both

\* A window that is complete makes a good cache entry, together with an entry
\* that has everything from its start up to the window.
LEMMA MeStore ==
  ASSUME NEW K, NEW src, MeSource(K, src), MeLimit \in Int,
         NEW en, MeEntry(en, K, src, MeLimit),
         NEW n \in Int, NEW e \in Int, NEW new, MeWindow(new, K, src, n, e),
         DOMAIN en.data # {} =>
           \A m \in K : \A p \in src[m] : en.start <= p[1] /\ p[1] < n => MeHolds(en.data, m, p)
  PROVE  /\ MeEntry(Me!_cache_store(en, n, new), K, src, MeLimit)
         /\ \A m, p : MeHolds(Me!_cache_store(en, n, new).data, m, p) =>
              MeHolds(en.data, m, p) \/ MeHolds(new, m, p)
  <1> DEFINE limit == MeLimit
             st == MeStored(new)
             start == IF DOMAIN en.data = {} THEN n ELSE en.start
             res == Me!_cache_store(en, n, new)
             both == MeBoth(en.data, st)
  <1>1. \/ Me!Overlaps(en, new) /\ res = Me!CacheEntry(n, st)
        \/ ~Me!Overlaps(en, new) /\ res = Me!CacheEntry(start, [m \in DOMAIN en.data \cup DOMAIN new |-> MeGet(en.data, m) \o MeGet(st, m)])
        \/ res = Me!CacheEntry(start, en.data)
    BY DEF Me!_cache_store, MeStored, MeGet
  <1>2. DOMAIN st = DOMAIN new
    BY DEF MeStored
  <1>3. \/ Me!Overlaps(en, new) /\ res.start = n /\ res.data = st
        \/ ~Me!Overlaps(en, new) /\ res.start = start /\ res.data = both
        \/ res.start = start /\ res.data = en.data
    <2>1. [m \in DOMAIN en.data \cup DOMAIN new |-> MeGet(en.data, m) \o MeGet(st, m)] = both
      BY <1>2 DEF MeBoth
    <2>2. \A x, y : Me!CacheEntry(x, y).start = x /\ Me!CacheEntry(x, y).data = y
      BY DEF Me!CacheEntry
    <2>3. \/ Me!Overlaps(en, new) /\ res = Me!CacheEntry(n, st)
          \/ ~Me!Overlaps(en, new) /\ res = Me!CacheEntry(start, both)
          \/ res = Me!CacheEntry(start, en.data)
      BY <1>1, <2>1
    <2> HIDE DEF res, both, st, start
    <2>4. QED
      BY <2>2, <2>3
  <1>4. /\ MeSeries(st, K)
        /\ \A m \in K : \A p : MeHolds(st, m, p) <=> p \in src[m] /\ n <= p[1] /\ p[1] <= e /\ p[1] < limit
        /\ MeEntry(Me!CacheEntry(n, st), K, src, limit)
    BY MeStoredOK
  <1>5. \A m, p : MeHolds(st, m, p) => m \in K /\ MeHolds(new, m, p)
    BY <1>4 DEF MeHolds, MeSeries, MeWindow
  <1>6. MeEntry(en, K, src, limit) /\ MeSeries(en.data, K) /\ en.start \in Int
    BY DEF MeEntry
  <1>7. \A m \in K : \A p \in src[m] : p[1] \in Int
    BY MePoint DEF MeSource, MePoints
  <1> HIDE DEF st, res, both, limit
  <1>8. CASE res.start = n /\ res.data = st
    <2>1. Me!CacheEntry(n, st).start = n /\ Me!CacheEntry(n, st).data = st
      BY DEF Me!CacheEntry
    <2>2. MeEntry(res, K, src, limit)
      BY <1>4, <1>8, <2>1 DEF MeEntry
    <2>3. QED
      BY <1>5, <1>8, <2>2 DEF res, limit
  <1>9. CASE res.start = start /\ res.data = en.data
    <2>1. MeEntry(res, K, src, limit)
      BY <1>6, <1>9 DEF MeEntry, MeHolds
    <2>2. QED
      BY <1>9, <2>1 DEF res, limit
  <1>10. CASE ~Me!Overlaps(en, new) /\ res.start = start /\ res.data = both
    <2>1. ASSUME NEW m, NEW p, NEW r, MeHolds(en.data, m, p), MeHolds(new, m, r)
          PROVE  p[1] < r[1]
      <3>1. m \in DOMAIN en.data /\ m \in DOMAIN new /\ MeSorted(en.data[m]) /\ MeSorted(new[m])
        BY <1>6, <2>1 DEF MeHolds, MeSeries, MeWindow
      <3>2. new[m] # <<>> /\ en.data[m] # <<>> => ~(new[m][1][1] <= en.data[m][Len(en.data[m])][1])
        BY <1>10, <3>1 DEF Me!Overlaps, Me!Last
      <3>3. p \in MePts(en.data[m]) /\ r \in MePts(new[m])
        BY <2>1 DEF MeHolds
      <3>4. QED
        BY <3>1, <3>2, <3>3, MeAfter
    <2>2. \A m, p, r : MeHolds(en.data, m, p) /\ MeHolds(st, m, r) => p[1] < r[1]
      BY <1>5, <2>1
    <2>3. /\ MeSeries(both, K)
          /\ \A m, p : MeHolds(both, m, p) <=> MeHolds(en.data, m, p) \/ MeHolds(st, m, p)
      BY <1>4, <1>6, <2>2, MeConcat DEF both
    <2>4. \A m, p : MeHolds(both, m, p) => p \in src[m] /\ p[1] < limit
      BY <1>4, <1>5, <1>6, <2>3 DEF MeEntry
    <2>5. ASSUME NEW m \in K, NEW p \in src[m], NEW k, NEW r,
                 start <= p[1], MeHolds(both, k, r), p[1] <= r[1]
          PROVE  MeHolds(both, m, p)
      <3>1. CASE MeHolds(en.data, k, r)
        <4>1. start = en.start
          BY <3>1 DEF MeHolds
        <4>2. MeHolds(en.data, m, p)
          BY <1>6, <2>5, <3>1, <4>1 DEF MeEntry
        <4>3. QED
          BY <2>3, <4>2
      <3>2. CASE MeHolds(st, k, r)
        <4>1. k \in K /\ r \in src[k] /\ r[1] <= e /\ r[1] < limit /\ r[1] \in Int /\ p[1] \in Int
          BY <1>4, <1>5, <1>7, <3>2
        <4>2. limit \in Int
          BY DEF limit
        <4>3. p[1] <= e /\ p[1] < limit
          BY <2>5, <4>1, <4>2
        <4>4. CASE n <= p[1]
          BY <1>4, <2>3, <4>3, <4>4
        <4>5. CASE p[1] < n
          <5>1. DOMAIN en.data # {} /\ start = en.start
            BY <2>5, <4>1, <4>5
          <5>2. MeHolds(en.data, m, p)
            BY <2>5, <4>5, <5>1
          <5>3. QED
            BY <2>3, <5>2
        <4>6. QED
          BY <4>1, <4>4, <4>5
      <3>3. QED
        BY <2>3, <2>5, <3>1, <3>2
    <2>6. start \in Int
      BY <1>6
    <2>7. MeEntry(res, K, src, limit)
      <3> HIDE DEF start
      <3> QED BY <1>10, <2>3, <2>4, <2>5, <2>6 DEF MeEntry
    <2>8. QED
      BY <1>5, <1>10, <2>3, <2>7 DEF res, limit
  <1>11. QED
    BY <1>3, <1>8, <1>9, <1>10

\* The series that a query is about, and their points.
MeKeys(q) == IF q = Me!Regex THEN AppSeries ELSE {q}
MeSrc(q) == [m \in MeKeys(q) |-> IF me_reader = "simulation" /\ m = "new" THEN Generated ELSE me_store[m]]

\* The points of a window of a series, in order.
LEMMA MeCut ==
  ASSUME NEW P, MePoints(P), NEW s \in Int, NEW e \in Int
  PROVE  /\ MeSorted(Me!InOrder(Me!Between(P, s, e)))
         /\ \A p : p \in MePts(Me!InOrder(Me!Between(P, s, e))) <=> p \in P /\ s <= p[1] /\ p[1] <= e
  <1> DEFINE B == Me!Between(P, s, e)
  <1>1. \A p : p \in B <=> p \in P /\ s <= p[1] /\ p[1] <= e
    BY DEF Me!Between
  <1> HIDE DEF B
  <1>2. MePoints(B)
    BY <1>1 DEF MePoints
  <1>3. MeSorted(Me!InOrder(B)) /\ \A p : p \in MePts(Me!InOrder(B)) <=> p \in B
    BY <1>2, MeInOrder
  <1>4. QED
    BY <1>1, <1>3 DEF B

\* The application series with points in a window.
MeFull(n, e) == {m \in AppSeries : Me!Between(me_store[m], n, e) # {}}

\* The table answers with all points of a window, if the index does.
LEMMA MeTable ==
  ASSUME NEW q \in Me!Queries, me_reader = "simulation" => q = "new", MeSource(MeKeys(q), MeSrc(q)),
         NEW n \in Int, NEW e \in Int, NEW keys, q = Me!Regex => keys = MeFull(n, e)
  PROVE  MeWindow(Me!_get_new_metric_values(q, keys, n, e), MeKeys(q), MeSrc(q), n, e)
  <1> DEFINE K == MeKeys(q)
             src == MeSrc(q)
             new == Me!_get_new_metric_values(q, keys, n, e)
             D == {m \in K : q # Me!Regex \/ Me!Between(src[m], n, e) # {}}
  <1>1. ASSUME me_reader = "simulation"
        PROVE  new = [m \in D |-> Me!InOrder(Me!Between(src[m], n, e))]
    <2>1. q = "new" /\ q # Me!Regex /\ K = {q} /\ src[q] = Generated
      BY <1>1 DEF MeKeys, MeSrc, Me!Regex
    <2>2. new = [m \in {q} |-> Me!InOrder(Me!Between(Generated, n, e))]
      BY <1>1, <2>1 DEF Me!_get_new_metric_values, Me!FromSimulation
    <2>3. D = {q}
      BY <2>1
    <2>4. QED
      BY <2>1, <2>2, <2>3
  <1>2. ASSUME me_reader # "simulation"
        PROVE  new = [m \in D |-> Me!InOrder(Me!Between(src[m], n, e))]
    <2>1. \A m \in K : src[m] = me_store[m]
      BY <1>2 DEF MeSrc
    <2>2. new = [m \in IF q = Me!Regex THEN {m \in AppSeries : Me!Between(me_store[m], n, e) # {}} ELSE {q}
                   |-> Me!InOrder(Me!Between(me_store[m], n, e))]
      BY <1>2 DEF Me!_get_new_metric_values, Me!FromTable, MeFull
    <2>3. D = IF q = Me!Regex THEN {m \in AppSeries : Me!Between(me_store[m], n, e) # {}} ELSE {q}
      BY <2>1 DEF MeKeys
    <2>4. D \in SUBSET K
      OBVIOUS
    <2> HIDE DEF D
    <2>5. QED
      BY <2>1, <2>2, <2>3, <2>4
  <1>3. new = [m \in D |-> Me!InOrder(Me!Between(src[m], n, e))]
    BY <1>1, <1>2
  <1>4. \A m \in K : /\ MeSorted(Me!InOrder(Me!Between(src[m], n, e)))
                     /\ \A p : p \in MePts(Me!InOrder(Me!Between(src[m], n, e))) <=> p \in src[m] /\ n <= p[1] /\ p[1] <= e
    BY MeCut DEF MeSource
  <1>5. D \in SUBSET K /\ DOMAIN new = D /\ \A m \in D : new[m] = Me!InOrder(Me!Between(src[m], n, e))
    BY <1>3
  <1>6. \A m \in K : m \notin D => \A p : ~(p \in src[m] /\ n <= p[1] /\ p[1] <= e)
    BY DEF Me!Between
  <1> HIDE DEF new, D, src, K
  <1>7. MeSeries(new, K)
    BY <1>4, <1>5 DEF MeSeries
  <1>8. \A m \in K : \A p : MeHolds(new, m, p) <=> p \in src[m] /\ n <= p[1] /\ p[1] <= e
    BY <1>4, <1>5, <1>6 DEF MeHolds
  <1>9. QED
    BY <1>7, <1>8 DEF MeWindow, new, K, src

\* A read returns the points of its window, but perhaps the one of its end, and
\* leaves a good cache entry; it returns all when the window ends after what
\* may be cached.
LEMMA MeRead ==
  ASSUME NEW q \in Me!Queries, me_reader = "simulation" => q = "new", MeSource(MeKeys(q), MeSrc(q)),
         MeLimit \in Int, NEW en, MeEntry(en, MeKeys(q), MeSrc(q), MeLimit),
         NEW s \in Int, NEW e \in Int, s < e, \A m, p : MeHolds(en.data, m, p) => p[1] <= e,
         NEW keys, q = Me!Regex => keys = MeFull(Me!_cache_lookup(en, s, e).next, e)
  PROVE  LET got == Me!get_metric_values(en, q, keys, s, e) IN
         /\ MeEntry(got.entry, MeKeys(q), MeSrc(q), MeLimit)
         /\ \A m, p : MeHolds(got.entry.data, m, p) => p[1] <= e
         /\ MeSeries(got.data, MeKeys(q))
         /\ \A m \in MeKeys(q) : \A p : MeHolds(got.data, m, p) => p \in MeSrc(q)[m] /\ s <= p[1] /\ p[1] <= e
         /\ \A m \in MeKeys(q) : \A p \in MeSrc(q)[m] :
              /\ s <= p[1]
              /\ \/ p[1] < e
                 \/ p[1] = e /\ (MeLimit < e \/ ~\E k \in MeKeys(q) : \E r \in MeSrc(q)[k] : r[1] = e - 1)
              => MeHolds(got.data, m, p)
  <1> DEFINE K == MeKeys(q)
             src == MeSrc(q)
             limit == MeLimit
             hit == Me!_cache_lookup(en, s, e)
             new == IF hit.next < e THEN Me!_get_new_metric_values(q, keys, hit.next, e) ELSE Me!NoData
             got == Me!get_metric_values(en, q, keys, s, e)
  <1>0. limit \in Int
    OBVIOUS
  <1>1. /\ MeFound(hit, K, src, s, e) /\ MeEntry(hit.entry, K, src, limit)
        /\ hit.next <= IF s <= limit THEN limit ELSE s
        /\ hit.next = s \/ \E k \in K : \E r \in src[k] : hit.next = r[1] + 1
        /\ \A m, p : MeHolds(hit.entry.data, m, p) => MeHolds(en.data, m, p)
    <2> HIDE DEF K, src, limit
    <2>1. MeSource(K, src) /\ MeEntry(en, K, src, limit)
      BY DEF K, src, limit
    <2>2. CASE DOMAIN en.data = {} \/ s < en.start
      <3>1. hit = Me!Miss(en, s, e)
        BY <2>2 DEF Me!_cache_lookup
      <3> HIDE DEF hit
      <3>2. MeFound(hit, K, src, s, e) /\ MeEntry(hit.entry, K, src, limit) /\ hit.next = s /\ hit.entry = en
        BY <1>0, <2>1, <2>2, <3>1, MeMiss
      <3>3. QED
        BY <1>0, <3>2
    <2>3. CASE ~(DOMAIN en.data = {} \/ s < en.start)
      <3>1. hit = Me!Hit(en, s, e)
        BY <2>3 DEF Me!_cache_lookup
      <3>2. en.start <= s
        BY <2>1, <2>3 DEF MeEntry
      <3> HIDE DEF hit
      <3>3. QED
        BY <1>0, <2>1, <3>1, <3>2, MeHit
    <2>4. QED
      BY <2>2, <2>3
  <1>2. got.data = [m \in DOMAIN hit.cached \cup DOMAIN new |->
                      (IF m \in DOMAIN hit.cached THEN hit.cached[m] ELSE <<>>) \o (IF m \in DOMAIN new THEN new[m] ELSE <<>>)]
    BY DEF Me!get_metric_values
  <1>3. got.data = MeBoth(hit.cached, new)
    BY <1>2 DEF MeBoth, MeGet
  <1>4. got.entry = IF DOMAIN new = {} THEN hit.entry ELSE Me!_cache_store(hit.entry, hit.next, new)
    BY DEF Me!get_metric_values
  <1>5. hit.next \in Int /\ s <= hit.next
    BY <1>1 DEF MeFound
  <1>6. hit.next < e => MeWindow(new, K, src, hit.next, e)
    <2>1. SUFFICES ASSUME hit.next < e PROVE MeWindow(new, K, src, hit.next, e)
      OBVIOUS
    <2>2. new = Me!_get_new_metric_values(q, keys, hit.next, e)
      BY <2>1
    <2>3. q = Me!Regex => keys = MeFull(hit.next, e)
      OBVIOUS
    <2> HIDE DEF hit, new
    <2>4. QED
      BY <1>5, <2>2, <2>3, MeTable
  <1>7. ~(hit.next < e) => DOMAIN new = {}
    BY DEF Me!NoData
  <1>8. \A m \in K : \A p \in src[m] : p[1] \in Int
    <2>1. \A m \in K : \A p \in src[m] : p \in Me!Point
      BY DEF MeSource, MePoints
    <2>2. QED
      BY <2>1, MePoint
  <1> HIDE DEF hit, new, got, K, src, limit
  <1>9. MeSeries(hit.cached, K) /\ MeSeries(new, K)
    BY <1>1, <1>6, <1>7 DEF MeFound, MeSeries, MeWindow
  <1>10. \A m, p : MeHolds(hit.cached, m, p) => m \in K /\ p \in src[m] /\ s <= p[1] /\ p[1] < hit.next /\ p[1] <= e
    BY <1>1, <1>9 DEF MeFound, MeHolds, MeSeries
  <1>11. \A m, p : MeHolds(new, m, p) => m \in K /\ p \in src[m] /\ hit.next <= p[1] /\ p[1] <= e
    BY <1>6, <1>7, <1>9 DEF MeWindow, MeHolds, MeSeries
  <1>12. \A m, p, r : MeHolds(hit.cached, m, p) /\ MeHolds(new, m, r) => p[1] < r[1]
    BY <1>5, <1>8, <1>10, <1>11
  <1>13. /\ MeSeries(got.data, K)
         /\ \A m, p : MeHolds(got.data, m, p) <=> MeHolds(hit.cached, m, p) \/ MeHolds(new, m, p)
    BY <1>3, <1>9, <1>12, MeConcat
  <1>14. \A m, p : MeHolds(got.data, m, p) => p \in src[m] /\ s <= p[1] /\ p[1] <= e
    <2>1. \A m, p : MeHolds(new, m, p) => s <= p[1]
      BY <1>5, <1>8, <1>11
    <2>2. QED
      BY <1>10, <1>11, <1>13, <2>1
  <1>15. ASSUME NEW m \in K, NEW p \in src[m], s <= p[1],
                p[1] < e \/ (p[1] = e /\ (limit < e \/ ~\E k \in K : \E r \in src[k] : r[1] = e - 1))
         PROVE  MeHolds(got.data, m, p)
    <2>0. p[1] \in Int
      BY <1>8
    <2>1. CASE p[1] < hit.next
      BY <1>1, <1>13, <1>15, <2>1 DEF MeFound
    <2>2. CASE hit.next <= p[1]
      <3>1. hit.next < e
        <4>1. CASE p[1] < e \/ limit < e
          BY <1>0, <1>1, <1>5, <1>15, <2>0, <2>2, <4>1
        <4>2. CASE p[1] = e /\ ~\E k \in K : \E r \in src[k] : r[1] = e - 1
          <5>1. hit.next <= e /\ hit.next \in Int
            BY <1>5, <2>2, <4>2
          <5>2. ASSUME NEW k \in K, NEW r \in src[k], hit.next = r[1] + 1
                PROVE  hit.next # e
            <6>1. r[1] \in Int /\ r[1] # e - 1
              BY <1>8, <4>2
            <6>2. QED
              BY <5>2, <6>1
          <5>3. hit.next # e
            BY <1>1, <5>2
          <5>4. QED
            BY <5>1, <5>3
        <4>3. QED
          BY <1>15, <4>1, <4>2
      <3>2. p[1] <= e
        BY <1>15, <2>0
      <3>3. QED
        BY <1>6, <1>13, <2>2, <3>1, <3>2 DEF MeWindow
    <2>3. QED
      BY <1>5, <2>0, <2>1, <2>2
  <1>16. \A m, p : MeHolds(hit.entry.data, m, p) => p[1] <= e
    BY <1>1
  <1>17. MeEntry(got.entry, K, src, limit) /\ \A m, p : MeHolds(got.entry.data, m, p) => p[1] <= e
    <2>1. CASE DOMAIN new = {}
      BY <1>1, <1>4, <1>16, <2>1
    <2>2. CASE DOMAIN new # {}
      <3>1. MeWindow(new, K, src, hit.next, e)
        BY <1>6, <1>7, <2>2
      <3>2. DOMAIN hit.entry.data # {} =>
              \A m \in K : \A p \in src[m] :
                hit.entry.start <= p[1] /\ p[1] < hit.next => MeHolds(hit.entry.data, m, p)
        BY <1>1 DEF MeFound
      <3>3. MeSource(K, src) /\ MeEntry(hit.entry, K, src, MeLimit)
        BY <1>1 DEF K, src, limit
      <3>4. /\ MeEntry(Me!_cache_store(hit.entry, hit.next, new), K, src, MeLimit)
            /\ \A m, p : MeHolds(Me!_cache_store(hit.entry, hit.next, new).data, m, p) =>
                 MeHolds(hit.entry.data, m, p) \/ MeHolds(new, m, p)
        BY <1>5, <3>1, <3>2, <3>3, MeStore
      <3>5. QED
        BY <1>4, <1>11, <1>16, <2>2, <3>4 DEF limit
    <2>3. QED
      BY <2>1, <2>2
  <1>18. QED
    BY <1>13, <1>14, <1>15, <1>17 DEF got, K, src, limit

-----------------------------------------------------------------------------
(* The invariant of the metrics client.                                     *)

MeTypes ==
  /\ me_now \in Me!Time
  /\ me_half \in SUBSET {0, 1}
  /\ me_pending \in SUBSET (Me!Series \X Me!Point)
  /\ me_store \in [Me!Series -> SUBSET Me!Point]
  /\ DOMAIN me_cache = Me!Queries

\* A series has one point of a time, written or on its way.
MeDistinct == \A m \in Me!Series : MePoints(Me!Samples(m))

\* No point is of a time to come.
MePast == \A m \in Me!Series : \A p \in Me!Samples(m) : p[1] <= me_now

\* What is on its way is not old enough to be cached.
MeFresh == \A x \in me_pending : me_now <= x[2][1] + Late

\* Nothing is written in a simulation.
MeReadOnly == me_reader = "simulation" => me_pending = {}

\* A read finds every series, unless the index has more than a page.
MeWhole(q) == q = Me!Regex => Me!OnePage

\* Every cache entry is good, and none is of a time to come.
MeGood(q, en) ==
  /\ MeEntry(en, MeKeys(q), MeSrc(q), MeLimit)
  /\ \A m, p : MeHolds(en.data, m, p) => p[1] <= me_now
MeCaches == \A q \in Me!Queries : MeWhole(q) => MeGood(q, me_cache[q])

\* The history's second window never ends before what is cached of it.
MeTotals ==
  \A m, p : MeHolds(me_cache["total"].data, m, p) =>
    \E c \in me_store["capacity"] : c[2] > 0 /\ p[1] <= c[1]

\* A capacity has a total of the same pass, sent after every capacity of the
\* passes before; and so will the capacity that the pass under way sends.
MePasses ==
  me_reader = "history" =>
    /\ \A c \in Me!Samples("capacity") : c[2] > 0 =>
         \E z \in Me!Samples("total") :
           z[2] > 0 /\ z[1] <= c[1] /\ \A d \in Me!Samples("capacity") : d[1] < c[1] => d[1] <= z[1]
    /\ \A v \in me_half : v > 0 =>
         \E z \in Me!Samples("total") : z[2] > 0 /\ \A d \in Me!Samples("capacity") : d[1] <= z[1]

\* All but what the writers of the history keep.
MeBase == MeTypes /\ MeDistinct /\ MePast /\ MeFresh /\ MeReadOnly /\ MeCaches /\ MeTotals
MeState == MeBase /\ MePasses
MeInv == MeState /\ Me!CachedReadsAreComplete /\ Me!HistoryIsFound

\* The clock and the limit of what may be cached.
LEMMA MeClock ==
  ASSUME MeTypes
  PROVE  /\ me_now \in Int /\ 1 <= me_now /\ CacheDelay \in Int /\ Late \in Int /\ Late <= CacheDelay
         /\ MeLimit \in Int
         /\ me_reader # "simulation" => MeLimit = me_now - CacheDelay /\ MeLimit < me_now
  <1>1. CacheDelay \in Nat \ {0} /\ Late \in 0..CacheDelay /\ MaxStamp \in Nat /\ SimulatedAt \in Nat
    BY ConstantsAssumption
  <1>2. me_now \in 1..MaxStamp
    BY DEF MeTypes, Me!Time
  <1>3. MeLimit = (IF me_reader = "simulation" THEN SimulatedAt ELSE me_now) - CacheDelay
    BY DEF MeLimit, Me!wall
  <1>4. QED
    BY <1>1, <1>2, <1>3

\* What is sampled is written or on its way.
LEMMA MeSample ==
  \A m, p : p \in Me!Samples(m) <=> p \in me_store[m] \/ \E x \in me_pending : x[1] = m /\ x[2] = p
  BY DEF Me!Samples

\* The points a query is about are points.
LEMMA MeSourceOK ==
  ASSUME MeTypes, MeDistinct, NEW q \in Me!Queries
  PROVE  MeSource(MeKeys(q), MeSrc(q)) /\ MeKeys(q) \in SUBSET Me!Series
  <1>1. MeKeys(q) \in SUBSET Me!Series
    BY DEF MeKeys, Me!Queries, Me!Series, Me!Regex
  <1>2. MePoints(Generated)
    <2>1. Generated \in SUBSET ((1..MaxStamp) \X {0, 1}) /\ \A p \in Generated, r \in Generated : p[1] = r[1] => p = r
      BY ConstantsAssumption
    <2>2. QED
      BY <2>1 DEF MePoints, Me!Point, Me!Time
  <1>3. \A m \in Me!Series : me_store[m] \in SUBSET Me!Samples(m)
    BY MeSample
  <1>4. \A m \in Me!Series : MePoints(me_store[m])
    BY <1>3 DEF MeDistinct, MePoints
  <1>5. QED
    BY <1>1, <1>2, <1>4 DEF MeSource, MeSrc

\* An entry stays good when points that are not old enough are written, and
\* when the limit moves on.
LEMMA MeEntryKept ==
  ASSUME NEW K, NEW src, NEW limit \in Int, NEW en, MeEntry(en, K, src, limit), MeSource(K, src),
         NEW more, MeSource(K, more), NEW later \in Int, limit <= later,
         \A m \in K : \A p \in src[m] : p \in more[m],
         \A m \in K : \A p \in more[m] : p \in src[m] \/ limit <= p[1]
  PROVE  MeEntry(en, K, more, later)
  <1>1. \A m, p : MeHolds(en.data, m, p) => m \in K /\ p \in src[m] /\ p[1] < limit
    BY DEF MeEntry, MeHolds, MeSeries
  <1>2. \A m \in K : \A p \in more[m] : p \in Me!Point
    BY DEF MeSource, MePoints
  <1>3. \A m \in K : \A p \in more[m] : p[1] \in Int
    BY <1>2, MePoint
  <1>4. \A m, p : MeHolds(en.data, m, p) => p \in more[m] /\ p[1] \in Int /\ p[1] < later
    BY <1>1, <1>3
  <1>5. ASSUME NEW m \in K, NEW p \in more[m], NEW k, NEW r,
               en.start <= p[1], MeHolds(en.data, k, r), p[1] <= r[1]
        PROVE  MeHolds(en.data, m, p)
    <2>1. r[1] < limit /\ r[1] \in Int /\ p[1] \in Int
      BY <1>1, <1>3, <1>4, <1>5
    <2>2. p \in src[m]
      BY <1>5, <2>1
    <2>3. QED
      BY <1>5, <2>2 DEF MeEntry
  <1>6. en.start \in Int /\ MeSeries(en.data, K)
    BY DEF MeEntry
  <1>7. QED
    BY <1>4, <1>5, <1>6 DEF MeEntry

\* There are finitely many points of application series.
LEMMA MeItemsFinite == IsFiniteSet(AppSeries \X Me!Point)
  <1>1. Me!Point \in SUBSET Me!Point /\ IsFiniteSet(AppSeries)
    BY ConstantsAssumption
  <1>2. IsFiniteSet(Me!Point)
    BY <1>1, MeFinite
  <1>3. QED
    BY <1>1, <1>2, FS_Product

\* A page is enough for all keys, as long as all that was written fits in one.
LEMMA MeOnePage ==
  ASSUME MeTypes, Me!OnePage, NEW n \in Int, NEW e \in Int, 1 <= n, e <= MaxStamp,
         NEW keys \in Me!_get_keys_from_query(n, e)
  PROVE  keys = MeFull(n, e)
  <1> DEFINE I == Me!Index(n, e)
             J == Me!Index(1, MaxStamp)
  <1>1. \A x : x \in I <=> \E m \in AppSeries : \E p \in me_store[m] : n <= p[1] /\ p[1] <= e /\ x = <<m, p>>
    BY DEF Me!Index, Me!Between
  <1>2. \A x : x \in J <=> \E m \in AppSeries : \E p \in me_store[m] : 1 <= p[1] /\ p[1] <= MaxStamp /\ x = <<m, p>>
    BY DEF Me!Index, Me!Between
  <1>3. IsFiniteSet(I) /\ IsFiniteSet(J)
    <2>1. I \in SUBSET (AppSeries \X Me!Point) /\ J \in SUBSET (AppSeries \X Me!Point)
      BY <1>1, <1>2 DEF MeTypes, Me!Series
    <2>2. QED
      BY <2>1, MeItemsFinite, FS_Subset
  <1>4. Cardinality(J) <= PageSize
    BY MeCardinality DEF Me!OnePage
  <1>5. PICK found \in SUBSET I :
          /\ keys = {x[1] : x \in found}
          /\ \A x \in I \ found : Cardinality({y \in found : y[2][1] <= x[2][1]}) >= PageSize
    BY MeCardinality DEF Me!_get_keys_from_query, Me!FirstPages
  <1>6. keys = {x[1] : x \in I} => keys = MeFull(n, e)
    <2> HIDE DEF I
    <2>1. \A m : m \in MeFull(n, e) <=> \E p : m \in AppSeries /\ p \in me_store[m] /\ n <= p[1] /\ p[1] <= e
      BY DEF MeFull, Me!Between
    <2>2. \A m \in MeFull(n, e) : \E p : <<m, p>> \in I
      BY <1>1, <2>1
    <2>3. \A m \in MeFull(n, e) : \E x \in I : x[1] = m
      BY <2>2
    <2>4. \A x \in I : x[1] \in MeFull(n, e)
      BY <1>1, <2>1
    <2>5. QED
      BY <2>3, <2>4
  <1>7. \A m \in AppSeries : \A p \in me_store[m] : p \in Me!Point
    BY DEF MeTypes, Me!Series
  <1>8. I \in SUBSET J
    BY <1>1, <1>2, <1>7, MePoint
  <1> HIDE DEF I, J
  <1>9. found = I
    <2>1. SUFFICES ASSUME NEW x \in I \ found PROVE FALSE
      OBVIOUS
    <2> DEFINE S == {y \in found : y[2][1] <= x[2][1]}
    <2>2. Cardinality(S) >= PageSize
      BY <1>5, <2>1
    <2>3. S \in SUBSET J /\ x \in J /\ x \notin S
      BY <1>5, <1>8, <2>1
    <2> HIDE DEF S
    <2>4. IsFiniteSet(S) /\ Cardinality(S) \in Nat
      BY <1>3, <2>3, FS_Subset, FS_CardinalityType
    <2>5. IsFiniteSet(S \cup {x}) /\ Cardinality(S \cup {x}) = Cardinality(S) + 1
      BY <2>3, <2>4, FS_AddElement
    <2>6. Cardinality(S \cup {x}) <= Cardinality(J) /\ Cardinality(J) \in Nat
      BY <1>3, <2>3, FS_Subset, FS_CardinalityType
    <2>7. PageSize \in Nat
      BY ConstantsAssumption
    <2>8. QED
      BY <1>4, <2>2, <2>4, <2>5, <2>6, <2>7
  <1>10. QED
    BY <1>5, <1>6, <1>9

\* Nothing is written, cached or read at first.
LEMMA MeInit == Me!Init => MeInv
  <1>1. SUFFICES ASSUME Me!Init PROVE MeInv
    OBVIOUS
  <1>2. MeTypes
    <2>1. 1 \in 1..MaxStamp
      BY ConstantsAssumption
    <2>2. QED
      BY <1>1, <2>1 DEF Me!Init, MeTypes, Me!Time
  <1>3. \A m \in Me!Series : \A p : p \notin Me!Samples(m)
    BY <1>1, MeSample DEF Me!Init
  <1>4. MeDistinct /\ MePast /\ MeFresh
    BY <1>1, <1>3 DEF MeDistinct, MePast, MePoints, MeFresh, Me!Init
  <1>5. \A q \in Me!Queries : me_cache[q].start = 0 /\ DOMAIN me_cache[q].data = {}
    BY <1>1 DEF Me!Init, Me!CacheEntry, Me!NoData
  <1>6. MeCaches /\ MeReadOnly
    BY <1>1, <1>5 DEF MeCaches, MeGood, MeEntry, MeSeries, MeHolds, MeReadOnly, Me!Init
  <1>7. MeTotals
    <2>1. "total" \in Me!Queries
      BY DEF Me!Queries
    <2>2. QED
      BY <1>5, <2>1 DEF MeTotals, MeHolds
  <1>8. MePasses
    <2>1. "total" \in Me!Series /\ "capacity" \in Me!Series
      BY DEF Me!Series
    <2>2. QED
      BY <1>1, <1>3, <2>1 DEF MePasses, Me!Init
  <1>9. Me!CachedReadsAreComplete /\ Me!HistoryIsFound
    BY <1>1 DEF Me!Init, Me!NoAnswer, Me!Answer, Me!CachedReadsAreComplete, Me!HistoryIsFound
  <1>10. QED
    BY <1>2, <1>4, <1>6, <1>7, <1>8, <1>9 DEF MeInv, MeState, MeBase

\* Without an answer there is nothing to be right about.
LEMMA MeSilent ==
  ASSUME me_answer' = Me!NoAnswer
  PROVE  Me!CachedReadsAreComplete' /\ Me!HistoryIsFound'
  <1>1. me_answer'.queries = {} /\ me_answer'.history = "none"
    BY DEF Me!NoAnswer, Me!Answer
  <1>2. QED
    BY <1>1 DEF Me!CachedReadsAreComplete, Me!HistoryIsFound

\* Points of now that were not sampled before are sent.
LEMMA MeSend ==
  ASSUME MeState, NEW points \in SUBSET (Me!Series \X Me!Point), Me!Send(points),
         \A x \in points : x[2][1] = me_now,
         \A x \in points, y \in points : x[1] = y[1] => x = y,
         me_reader # "simulation", me_half' \in SUBSET {0, 1}
  PROVE  /\ MeBase' /\ Me!CachedReadsAreComplete' /\ Me!HistoryIsFound'
         /\ UNCHANGED <<me_now, me_reader>>
         /\ \A m, p : p \in Me!Samples(m)' <=> p \in Me!Samples(m) \/ \E x \in points : x[1] = m /\ x[2] = p
  <1>1. /\ \A x \in points : ~Me!Sampled(x[1])
        /\ me_pending' = me_pending \cup points /\ me_answer' = Me!NoAnswer
        /\ UNCHANGED <<me_now, me_reader, me_store, me_cache>>
    BY DEF Me!Send
  <1>2. MeTypes /\ MeDistinct /\ MePast /\ MeFresh /\ MeReadOnly /\ MeCaches /\ MeTotals /\ MePasses
    BY DEF MeState, MeBase
  <1>3. MeTypes'
    BY <1>1, <1>2 DEF MeTypes
  <1>4. \A m, p : p \in Me!Samples(m)' <=> p \in Me!Samples(m) \/ \E x \in points : x[1] = m /\ x[2] = p
    BY <1>1 DEF Me!Samples
  <1>5. MeDistinct'
    <2>1. SUFFICES ASSUME NEW m \in Me!Series PROVE MePoints(Me!Samples(m)')
      BY DEF MeDistinct
    <2>2. MePoints(Me!Samples(m))
      BY <1>2 DEF MeDistinct
    <2>3. ASSUME NEW p \in Me!Samples(m)' PROVE p \in Me!Point
      BY <1>4, <2>2, <2>3 DEF MePoints
    <2>4. \A x \in points : \A p \in Me!Samples(x[1]) : p[1] # me_now
      BY <1>1 DEF Me!Sampled
    <2>5. ASSUME NEW p \in Me!Samples(m)', NEW r \in Me!Samples(m)', p[1] = r[1]
          PROVE  p = r
      <3>1. CASE p \in Me!Samples(m) /\ r \in Me!Samples(m)
        BY <2>2, <2>5, <3>1 DEF MePoints
      <3>2. CASE p \in Me!Samples(m) /\ \E x \in points : x[1] = m /\ x[2] = r
        BY <2>4, <2>5, <3>2
      <3>3. CASE r \in Me!Samples(m) /\ \E x \in points : x[1] = m /\ x[2] = p
        BY <2>4, <2>5, <3>3
      <3>4. CASE (\E x \in points : x[1] = m /\ x[2] = p) /\ (\E x \in points : x[1] = m /\ x[2] = r)
        BY <3>4
      <3>5. QED
        BY <1>4, <2>5, <3>1, <3>2, <3>3, <3>4
    <2>6. QED
      BY <2>3, <2>5 DEF MePoints
  <1>6. MeFresh'
    <2>1. me_now \in Int /\ Late \in Nat
      BY <1>2, MeClock, ConstantsAssumption
    <2>2. \A x \in points : me_now <= x[2][1] + Late
      BY <2>1
    <2>3. QED
      BY <1>1, <1>2, <2>2 DEF MeFresh
  <1>7. MeTotals' /\ MeReadOnly'
    BY <1>1, <1>2 DEF MeTotals, MeReadOnly
  <1>8. MeCaches'
    <2>1. MeLimit' = MeLimit /\ Me!OnePage' = Me!OnePage
      BY <1>1 DEF MeLimit, Me!wall, Me!OnePage, Me!Index
    <2>2. \A q : MeSrc(q)' = MeSrc(q) /\ (MeWhole(q)' <=> MeWhole(q))
      BY <1>1, <2>1 DEF MeSrc, MeWhole
    <2>3. QED
      BY <1>1, <1>2, <2>1, <2>2 DEF MeCaches, MeGood
  <1>8a. MePast'
    <2>1. me_now \in Int
      BY <1>2, MeClock
    <2>2. QED
      BY <1>1, <1>2, <1>4, <2>1 DEF MePast
  <1>9. Me!CachedReadsAreComplete' /\ Me!HistoryIsFound'
    BY <1>1, MeSilent
  <1>10. QED
    BY <1>1, <1>3, <1>4, <1>5, <1>6, <1>7, <1>8, <1>8a, <1>9 DEF MeBase

\* A point of now.
LEMMA MePointNow ==
  ASSUME MeTypes, NEW v \in {0, 1}
  PROVE  <<me_now, v>> \in Me!Point
  BY DEF MeTypes, Me!Point

\* The clock moves only as far as what is on its way lets it.
LEMMA MeTick ==
  ASSUME MeState, Me!Tick
  PROVE  MeInv'
  <1>1. /\ me_now < MaxStamp /\ \A x \in me_pending : me_now + 1 <= x[2][1] + Late
        /\ me_now' = me_now + 1 /\ me_answer' = Me!NoAnswer
        /\ UNCHANGED <<me_reader, me_half, me_pending, me_store, me_cache>>
    BY DEF Me!Tick
  <1>2. MeTypes /\ MeDistinct /\ MePast /\ MeFresh /\ MeReadOnly /\ MeCaches /\ MeTotals /\ MePasses
    BY DEF MeState, MeBase
  <1>3. me_now \in 1..MaxStamp /\ MaxStamp \in Nat
    BY <1>2, ConstantsAssumption DEF MeTypes, Me!Time
  <1>4. MeTypes'
    <2>1. me_now' \in 1..MaxStamp
      BY <1>1, <1>3
    <2>2. QED
      BY <1>1, <1>2, <2>1 DEF MeTypes, Me!Time
  <1>5. \A m : Me!Samples(m)' = Me!Samples(m)
    BY <1>1 DEF Me!Samples
  <1>6. MeDistinct' /\ MeFresh' /\ MeTotals' /\ MePasses' /\ MeReadOnly'
    BY <1>1, <1>2, <1>5 DEF MeDistinct, MeFresh, MeTotals, MePasses, MeReadOnly
  <1>7. MeCaches'
    <2>0. Me!OnePage' = Me!OnePage /\ \A q : MeSrc(q)' = MeSrc(q)
      BY <1>1 DEF Me!OnePage, Me!Index, MeSrc
    <2>1. SUFFICES ASSUME NEW q \in Me!Queries, MeGood(q, me_cache[q])
                   PROVE  MeEntry(me_cache[q], MeKeys(q), MeSrc(q), MeLimit')
      <3>1. ASSUME NEW q \in Me!Queries, MeWhole(q)'
            PROVE  MeGood(q, me_cache[q])'
        <4>1. MeGood(q, me_cache[q])
          BY <1>2, <2>0, <3>1 DEF MeCaches, MeWhole
        <4>2. MeEntry(me_cache[q], MeKeys(q), MeSrc(q), MeLimit')
          BY <2>1, <3>1, <4>1
        <4>3. \A m, p : MeHolds(me_cache[q].data, m, p) => p[1] <= me_now'
          <5>1. SUFFICES ASSUME NEW m, NEW p, MeHolds(me_cache[q].data, m, p) PROVE p[1] <= me_now'
            OBVIOUS
          <5>2. p[1] <= me_now /\ m \in MeKeys(q) /\ p \in MeSrc(q)[m]
            BY <4>1, <5>1 DEF MeGood, MeEntry, MeSeries, MeHolds
          <5>3. p \in Me!Point
            BY <1>2, <3>1, <5>2, MeSourceOK DEF MeSource, MePoints
          <5>4. p[1] \in Int
            BY <5>3, MePoint
          <5>5. QED
            BY <1>1, <1>3, <5>2, <5>4
        <4>4. QED
          BY <1>1, <2>0, <4>2, <4>3 DEF MeGood
      <3>2. QED
        BY <3>1 DEF MeCaches
    <2>2. MeEntry(me_cache[q], MeKeys(q), MeSrc(q), MeLimit) /\ MeSource(MeKeys(q), MeSrc(q))
      BY <1>2, <2>1, MeSourceOK DEF MeGood
    <2> DEFINE limit == MeLimit
               later == MeLimit'
               K == MeKeys(q)
               src == MeSrc(q)
               en == me_cache[q]
    <2>3. limit \in Int /\ later \in Int /\ limit <= later
      <3>1. MeLimit = (IF me_reader = "simulation" THEN SimulatedAt ELSE me_now) - CacheDelay
        BY DEF MeLimit, Me!wall
      <3>2. MeLimit' = (IF me_reader = "simulation" THEN SimulatedAt ELSE me_now') - CacheDelay
        BY <1>1 DEF MeLimit, Me!wall
      <3>3. SimulatedAt \in Nat /\ CacheDelay \in Nat
        BY ConstantsAssumption
      <3>4. QED
        BY <1>1, <1>3, <3>1, <3>2, <3>3
    <2>4. MeEntry(en, K, src, limit) /\ MeSource(K, src)
      BY <2>2
    <2> HIDE DEF limit, later, K, src, en
    <2>5. MeEntry(en, K, src, later)
      BY <2>3, <2>4, MeEntryKept
    <2>6. QED
      BY <2>5 DEF later, K, src, en
  <1>7a. MePast'
    <2>1. \A m \in Me!Series : \A p \in Me!Samples(m) : p \in Me!Point
      BY <1>2 DEF MeDistinct, MePoints
    <2>2. \A m \in Me!Series : \A p \in Me!Samples(m) : p[1] \in Int
      BY <2>1, MePoint
    <2>3. \A m \in Me!Series : \A p \in Me!Samples(m) : p[1] <= me_now'
      BY <1>1, <1>2, <1>3, <2>2 DEF MePast
    <2>4. QED
      BY <1>5, <2>3 DEF MePast
  <1>8. Me!CachedReadsAreComplete' /\ Me!HistoryIsFound'
    BY <1>1, MeSilent
  <1>9. QED
    BY <1>7a, <1>4, <1>6, <1>7, <1>8 DEF MeInv, MeState, MeBase

\* What is written late is not old enough to be cached.
LEMMA MePut ==
  ASSUME MeState, Me!PutItem
  PROVE  MeInv'
  <1>1. PICK x \in me_pending :
          /\ me_pending' = me_pending \ {x}
          /\ me_store' = [me_store EXCEPT ![x[1]] = @ \cup {x[2]}]
          /\ me_answer' = Me!NoAnswer
          /\ UNCHANGED <<me_now, me_reader, me_half, me_cache>>
    BY DEF Me!PutItem
  <1>2. MeTypes /\ MeDistinct /\ MePast /\ MeFresh /\ MeReadOnly /\ MeCaches /\ MeTotals /\ MePasses
    BY DEF MeState, MeBase
  <1>3. x[1] \in Me!Series /\ x[2] \in Me!Point
    BY <1>2 DEF MeTypes
  <1>4. MeTypes'
    BY <1>1, <1>2, <1>3 DEF MeTypes
  <1>5. \A m \in Me!Series : \A p : p \in me_store'[m] <=> p \in me_store[m] \/ (m = x[1] /\ p = x[2])
    BY <1>1, <1>2 DEF MeTypes
  <1>6. \A m \in Me!Series : \A p : p \in Me!Samples(m)' <=> p \in Me!Samples(m)
    <2>1. \A m, p : p \in Me!Samples(m)' <=> p \in me_store'[m] \/ \E y \in me_pending' : y[1] = m /\ y[2] = p
      BY DEF Me!Samples
    <2>2. \A y \in me_pending : y[1] = x[1] /\ y[2] = x[2] => y = x
      BY <1>2 DEF MeTypes
    <2>3. QED
      BY <1>1, <1>5, <2>1, <2>2, MeSample
  <1>7. MeDistinct'
    BY <1>2, <1>6 DEF MeDistinct, MePoints
  <1>8. MeFresh' /\ MePast' /\ MeReadOnly'
    BY <1>1, <1>2, <1>6 DEF MeFresh, MePast, MeReadOnly
  <1>9. MeTotals'
    <2>1. "capacity" \in Me!Series
      BY DEF Me!Series
    <2>2. \A c \in me_store["capacity"] : c \in me_store'["capacity"]
      BY <1>5, <2>1
    <2>3. QED
      BY <1>1, <1>2, <2>2 DEF MeTotals
  <1>10. MePasses'
    <2>1. "capacity" \in Me!Series /\ "total" \in Me!Series
      BY DEF Me!Series
    <2>2. QED
      BY <1>1, <1>2, <1>6, <2>1 DEF MePasses
  <1>11. MeCaches'
    <2>0. Me!OnePage' => Me!OnePage
      <3> DEFINE I == Me!Index(1, MaxStamp)
                 J == Me!Index(1, MaxStamp)'
      <3>1. \A m \in AppSeries : me_store[m] \in SUBSET me_store'[m]
        BY <1>5 DEF Me!Series
      <3>2. I \in SUBSET J
        <4>1. \A w : w \in I <=> \E m \in AppSeries : \E p \in me_store[m] : 1 <= p[1] /\ p[1] <= MaxStamp /\ w = <<m, p>>
          BY DEF Me!Index, Me!Between
        <4>2. \A w : w \in J <=> \E m \in AppSeries : \E p \in me_store'[m] : 1 <= p[1] /\ p[1] <= MaxStamp /\ w = <<m, p>>
          BY DEF Me!Index, Me!Between
        <4> HIDE DEF I, J
        <4>3. QED
          BY <3>1, <4>1, <4>2
      <3>3. IsFiniteSet(J)
        <4>1. J \in SUBSET (AppSeries \X Me!Point)
          BY <1>4 DEF Me!Index, Me!Between, MeTypes, Me!Series
        <4>2. QED
          BY <4>1, MeItemsFinite, FS_Subset
      <3> HIDE DEF I, J
      <3>4. Cardinality(I) <= Cardinality(J) /\ Cardinality(I) \in Nat /\ Cardinality(J) \in Nat
        BY <3>2, <3>3, FS_Subset, FS_CardinalityType
      <3>5. PageSize \in Nat
        BY ConstantsAssumption
      <3>6. Cardinality(J) <= PageSize => Cardinality(I) <= PageSize
        BY <3>4, <3>5
      <3>7. QED
        BY <3>6, MeCardinality DEF Me!OnePage, I, J
    <2>1. SUFFICES ASSUME NEW q \in Me!Queries, MeGood(q, me_cache[q])
                   PROVE  MeEntry(me_cache[q], MeKeys(q), MeSrc(q)', MeLimit)
      <3>1. MeLimit' = MeLimit
        BY <1>1 DEF MeLimit, Me!wall
      <3>2. \A q \in Me!Queries : MeWhole(q)' => MeGood(q, me_cache[q])
        BY <1>2, <2>0 DEF MeCaches, MeWhole
      <3>3. QED
        BY <1>1, <2>1, <3>1, <3>2 DEF MeCaches, MeGood
    <2> DEFINE limit == MeLimit
               K == MeKeys(q)
               src == MeSrc(q)
               more == MeSrc(q)'
               en == me_cache[q]
    <2>2. MeEntry(en, K, src, limit) /\ MeSource(K, src) /\ K \in SUBSET Me!Series
      BY <1>2, <2>1, MeSourceOK DEF MeGood
    <2>3. MePoints(Generated)
      <3>1. Generated \in SUBSET ((1..MaxStamp) \X {0, 1}) /\ \A p \in Generated, r \in Generated : p[1] = r[1] => p = r
        BY ConstantsAssumption
      <3>2. QED
        BY <3>1 DEF MePoints, Me!Point, Me!Time
    <2>4. \A m \in Me!Series : MePoints(me_store'[m])
      <3>1. \A m \in Me!Series : \A p \in me_store'[m] : p \in Me!Samples(m)'
        BY DEF Me!Samples
      <3>2. QED
        BY <1>7, <3>1 DEF MeDistinct, MePoints
    <2>5. \A m \in K : more[m] = IF me_reader = "simulation" /\ m = "new" THEN Generated ELSE me_store'[m]
      BY <1>1 DEF MeSrc
    <2>6. \A m \in K : src[m] = IF me_reader = "simulation" /\ m = "new" THEN Generated ELSE me_store[m]
      BY DEF MeSrc
    <2> HIDE DEF K, src, more, en, limit
    <2>7. MeSource(K, more)
      BY <2>2, <2>3, <2>4, <2>5 DEF MeSource
    <2>8. \A m \in K : \A p \in src[m] : p \in more[m]
      BY <1>5, <2>2, <2>5, <2>6
    <2>9. limit \in Int /\ limit <= limit /\ limit <= x[2][1]
      <3>1. x[2][1] \in Int /\ me_now <= x[2][1] + Late
        BY <1>2, <1>3, MePoint DEF MeFresh
      <3>2. me_reader # "simulation"
        BY <1>2 DEF MeReadOnly
      <3>3. QED
        BY <1>2, <3>1, <3>2, MeClock DEF limit
    <2>10. \A m \in K : \A p \in more[m] : p \in src[m] \/ limit <= p[1]
      BY <1>5, <2>2, <2>5, <2>6, <2>9
    <2>11. MeEntry(en, K, more, limit)
      BY <2>2, <2>7, <2>8, <2>9, <2>10, MeEntryKept
    <2>12. QED
      BY <2>11 DEF K, src, more, en, limit
  <1>12. Me!CachedReadsAreComplete' /\ Me!HistoryIsFound'
    BY <1>1, MeSilent
  <1>13. QED
    BY <1>4, <1>7, <1>8, <1>9, <1>10, <1>11, <1>12 DEF MeInv, MeState, MeBase

\* A read of a window that ends now returns what the table has; in a
\* simulation perhaps without the point of the end.
LEMMA MeReadNow ==
  ASSUME MeState, NEW q \in Me!Queries, me_reader = "simulation" => q = "new", MeWhole(q),
         NEW s \in 1..(me_now - 1), NEW keys,
         q = Me!Regex => keys \in Me!_get_keys_from_query(Me!_cache_lookup(me_cache[q], s, me_now).next, me_now)
  PROVE  LET got == Me!get_metric_values(me_cache[q], q, keys, s, me_now) IN
         /\ MeGood(q, got.entry)
         /\ \A m \in MeKeys(q) :
              \/ Me!Of(got.data, m) = Me!InOrder(Me!Between(MeSrc(q)[m], s, me_now))
              \/ Me!EndIsLost(me_now) /\ Me!Of(got.data, m) = Me!InOrder(Me!Between(MeSrc(q)[m], s, me_now - 1))
         /\ \A m \in MeKeys(q) : MeSorted(Me!Of(got.data, m))
         /\ me_reader # "simulation" =>
              \A m \in MeKeys(q) : \A p : p \in MePts(Me!Of(got.data, m)) <=> p \in MeSrc(q)[m] /\ s <= p[1] /\ p[1] <= me_now
  <1> DEFINE en == me_cache[q]
             got == Me!get_metric_values(en, q, keys, s, me_now)
             K == MeKeys(q)
             src == MeSrc(q)
             next == Me!_cache_lookup(en, s, me_now).next
  <1>1. MeTypes /\ MeDistinct /\ MeCaches
    BY DEF MeState, MeBase
  <1>2. me_now \in Int /\ MeLimit \in Int /\ (me_reader # "simulation" => MeLimit < me_now)
    BY <1>1, MeClock
  <1>3. s \in Int /\ 1 <= s /\ s < me_now
    BY <1>2
  <1>4. MeSource(K, src) /\ MeEntry(en, K, src, MeLimit)
    BY <1>1, MeSourceOK DEF MeCaches, MeGood
  <1>5. \A m \in K : \A p \in src[m] : p[1] \in Int
    <2>1. \A m \in K : \A p \in src[m] : p \in Me!Point
      BY <1>4 DEF MeSource, MePoints
    <2>2. QED
      BY <2>1, MePoint
  <1>6. \A m, p : MeHolds(en.data, m, p) => p[1] <= me_now
    BY <1>1 DEF MeCaches, MeGood
  <1>6a. q = Me!Regex => keys = MeFull(next, me_now)
    <2>1. SUFFICES ASSUME q = Me!Regex PROVE keys = MeFull(next, me_now)
      OBVIOUS
    <2>2. keys \in Me!_get_keys_from_query(next, me_now) /\ Me!OnePage
      BY <2>1 DEF MeWhole
    <2>3. me_now <= MaxStamp
      BY <1>1, ConstantsAssumption DEF MeTypes, Me!Time
    <2>4. next \in Int /\ s <= next
      <3> HIDE DEF K, src, en
      <3>1. CASE DOMAIN en.data = {} \/ s < en.start
        BY <1>2, <1>3, <1>4, <3>1, MeMiss DEF Me!_cache_lookup, MeFound
      <3>2. CASE ~(DOMAIN en.data = {} \/ s < en.start)
        <4>1. en.start <= s
          BY <1>3, <1>4, <3>2 DEF MeEntry
        <4>2. next = Me!Hit(en, s, me_now).next
          BY <3>2 DEF Me!_cache_lookup
        <4>3. MeFound(Me!Hit(en, s, me_now), K, src, s, me_now)
          BY <1>2, <1>3, <1>4, <1>6, <4>1, MeHit
        <4> HIDE DEF next
        <4>4. QED
          BY <4>2, <4>3 DEF MeFound
      <3>3. QED
        BY <3>1, <3>2
    <2> HIDE DEF next
    <2>5. QED
      BY <1>1, <1>2, <1>3, <2>2, <2>3, <2>4, MeOnePage
  <1> HIDE DEF en
  <1>7. /\ MeEntry(got.entry, K, src, MeLimit)
        /\ \A m, p : MeHolds(got.entry.data, m, p) => p[1] <= me_now
        /\ MeSeries(got.data, K)
        /\ \A m \in K : \A p : MeHolds(got.data, m, p) => p \in src[m] /\ s <= p[1] /\ p[1] <= me_now
        /\ \A m \in K : \A p \in src[m] :
             /\ s <= p[1]
             /\ \/ p[1] < me_now
                \/ p[1] = me_now /\ (MeLimit < me_now \/ ~\E k \in K : \E r \in src[k] : r[1] = me_now - 1)
             => MeHolds(got.data, m, p)
    BY <1>2, <1>3, <1>4, <1>6, <1>6a, MeRead
  <1>8. MeGood(q, got.entry)
    BY <1>7 DEF MeGood
  <1>9. me_reader = "simulation" => K = {"new"} /\ \A m \in K : src[m] = Generated
    BY DEF MeKeys, MeSrc, Me!Regex
  <1> HIDE DEF got, K, src
  <1>10. \A m : Me!Of(got.data, m) = MeGet(got.data, m)
    BY DEF Me!Of, MeGet
  <1>11. \A m : MeSorted(MeGet(got.data, m)) /\ \A p : p \in MePts(MeGet(got.data, m)) <=> MeHolds(got.data, m, p)
    BY <1>7, MeNothing DEF MeGet, MeHolds, MeSeries
  <1>12. ASSUME NEW m \in K, NEW e \in Int,
                \A p : MeHolds(got.data, m, p) <=> p \in src[m] /\ s <= p[1] /\ p[1] <= e
         PROVE  Me!Of(got.data, m) = Me!InOrder(Me!Between(src[m], s, e))
    <2> DEFINE ts == Me!Of(got.data, m)
               us == Me!InOrder(Me!Between(src[m], s, e))
    <2>1. MePoints(src[m])
      BY <1>4 DEF MeSource
    <2>2. MeSorted(us) /\ \A p : p \in MePts(us) <=> p \in src[m] /\ s <= p[1] /\ p[1] <= e
      BY <1>3, <2>1, MeCut
    <2>3. MeSorted(ts) /\ \A p : p \in MePts(ts) <=> p \in MePts(us)
      BY <1>10, <1>11, <1>12, <2>2
    <2> HIDE DEF ts, us
    <2>4. ts = us
      BY <2>2, <2>3, MeOneOrder
    <2>5. QED
      BY <2>4 DEF ts, us
  <1>13. me_reader # "simulation" =>
           \A m \in K : \A p : MeHolds(got.data, m, p) <=> p \in src[m] /\ s <= p[1] /\ p[1] <= me_now
    BY <1>2, <1>5, <1>7
  <1>14. ASSUME NEW m \in K
         PROVE  \/ Me!Of(got.data, m) = Me!InOrder(Me!Between(src[m], s, me_now))
                \/ Me!EndIsLost(me_now) /\ Me!Of(got.data, m) = Me!InOrder(Me!Between(src[m], s, me_now - 1))
    <2>1. CASE \A p \in src[m] : s <= p[1] /\ p[1] <= me_now => MeHolds(got.data, m, p)
      <3>1. \A p : MeHolds(got.data, m, p) <=> p \in src[m] /\ s <= p[1] /\ p[1] <= me_now
        BY <1>7, <2>1
      <3>2. QED
        BY <1>2, <1>12, <3>1
    <2>2. CASE \E p \in src[m] : s <= p[1] /\ p[1] <= me_now /\ ~MeHolds(got.data, m, p)
      <3>1. PICK p \in src[m] : s <= p[1] /\ p[1] <= me_now /\ ~MeHolds(got.data, m, p)
        BY <2>2
      <3>2. /\ p[1] = me_now /\ ~(MeLimit < me_now)
            /\ \E k \in K : \E r \in src[k] : r[1] = me_now - 1
        BY <1>2, <1>5, <1>7, <3>1
      <3>3. Me!EndIsLost(me_now)
        <4>1. me_reader = "simulation"
          BY <1>2, <3>2
        <4>2. p \in Generated /\ \E r \in Generated : r[1] = me_now - 1
          BY <1>9, <3>2, <4>1
        <4>3. QED
          BY <3>2, <4>1, <4>2 DEF Me!EndIsLost
      <3>4. \A r \in src[m] : r[1] = me_now => r = p
        BY <1>4, <3>2 DEF MeSource, MePoints
      <3>5. \A r : MeHolds(got.data, m, r) <=> r \in src[m] /\ s <= r[1] /\ r[1] <= me_now - 1
        <4>1. SUFFICES ASSUME NEW r \in src[m]
                       PROVE  MeHolds(got.data, m, r) <=> s <= r[1] /\ r[1] <= me_now - 1
          BY <1>7
        <4>2. r[1] \in Int
          BY <1>5
        <4>3. r[1] = me_now => ~MeHolds(got.data, m, r)
          BY <3>1, <3>4
        <4>4. QED
          BY <1>2, <1>7, <4>2, <4>3
      <3>6. me_now - 1 \in Int
        BY <1>2
      <3>7. QED
        BY <1>12, <3>3, <3>5, <3>6
    <2>3. QED
      BY <2>1, <2>2
  <1>15. QED
    BY <1>8, <1>10, <1>11, <1>13, <1>14 DEF got, en, K, src

\* A read for the signal.
LEMMA MeSignal ==
  ASSUME MeState, NEW queries \in SUBSET Me!Queries, NEW s \in 1..(me_now - 1), NEW keys,
         Me!GetMetricsForSignal(queries, keys, s),
         Me!Regex \in queries => keys \in Me!_get_keys_from_query(Me!_cache_lookup(me_cache[Me!Regex], s, me_now).next, me_now),
         \A q \in queries : (me_reader = "simulation" => q = "new") /\ q # "total"
  PROVE  MeInv'
  <1> DEFINE got(q) == Me!get_metric_values(me_cache[q], q, keys, s, me_now)
  <1>1. UNCHANGED <<me_now, me_reader, me_half, me_pending, me_store>>
    BY DEF Me!GetMetricsForSignal
  <1>2. /\ me_cache' = [q \in Me!Queries |-> IF q \in queries THEN got(q).entry ELSE me_cache[q]]
        /\ me_answer' = Me!Answer(queries, s, me_now, [q \in queries |-> got(q).data], "none")
    <2>1. PICK z \in {[q \in queries |-> got(q)]} :
              /\ me_cache' = [q \in Me!Queries |-> IF q \in queries THEN z[q].entry ELSE me_cache[q]]
              /\ me_answer' = Me!Answer(queries, s, me_now, [q \in queries |-> z[q].data], "none")
      BY DEF Me!GetMetricsForSignal
    <2> HIDE DEF got
    <2>2. \A q \in queries : z[q] = got(q)
      BY <2>1
    <2>3. QED
      BY <2>1, <2>2
  <1>3. ASSUME NEW q \in queries, MeWhole(q)
        PROVE  /\ MeGood(q, got(q).entry)
               /\ \A m \in MeKeys(q) :
                    \/ Me!Of(got(q).data, m) = Me!InOrder(Me!Between(MeSrc(q)[m], s, me_now))
                    \/ Me!EndIsLost(me_now) /\ Me!Of(got(q).data, m) = Me!InOrder(Me!Between(MeSrc(q)[m], s, me_now - 1))
    <2>1. q = Me!Regex => keys \in Me!_get_keys_from_query(Me!_cache_lookup(me_cache[q], s, me_now).next, me_now)
      OBVIOUS
    <2>2. q \in Me!Queries /\ (me_reader = "simulation" => q = "new")
      OBVIOUS
    <2>3. QED
      BY <1>3, <2>1, <2>2, MeReadNow
  <1> HIDE DEF got
  <1>4. MeTypes /\ MeDistinct /\ MePast /\ MeFresh /\ MeReadOnly /\ MeCaches /\ MeTotals /\ MePasses
    BY DEF MeState, MeBase
  <1>5. MeTypes'
    BY <1>1, <1>2, <1>4 DEF MeTypes
  <1>6. \A m : Me!Samples(m)' = Me!Samples(m)
    BY <1>1 DEF Me!Samples
  <1>7. MeDistinct' /\ MePast' /\ MeFresh' /\ MeReadOnly' /\ MePasses'
    BY <1>1, <1>4, <1>6 DEF MeDistinct, MePast, MeFresh, MeReadOnly, MePasses
  <1>8. MeTotals'
    <2>1. "total" \in Me!Queries
      BY DEF Me!Queries
    <2>2. me_cache'["total"] = me_cache["total"]
      BY <1>2, <2>1
    <2>3. QED
      BY <1>1, <1>4, <2>2 DEF MeTotals
  <1>8a. /\ MeLimit' = MeLimit /\ \A q : MeSrc(q)' = MeSrc(q) /\ (MeWhole(q)' <=> MeWhole(q))
         /\ Me!OnePage' = Me!OnePage
    BY <1>1 DEF MeLimit, Me!wall, MeSrc, MeWhole, Me!OnePage, Me!Index
  <1>9. MeCaches'
    <2>1. \A q \in Me!Queries : MeWhole(q) => MeGood(q, me_cache'[q])
      BY <1>2, <1>3, <1>4 DEF MeCaches
    <2>2. QED
      BY <1>1, <1>8a, <2>1 DEF MeCaches, MeGood
  <1>10. /\ me_answer'.queries = queries /\ me_answer'.s = s /\ me_answer'.e = me_now
         /\ me_answer'.data = [q \in queries |-> got(q).data] /\ me_answer'.history = "none"
    BY <1>2 DEF Me!Answer
  <1>11. Me!HistoryIsFound'
    BY <1>10 DEF Me!HistoryIsFound
  <1>12. Me!CachedReadsAreComplete'
    <2>1. ASSUME NEW q \in queries, NEW m \in MeKeys(q)
          PROVE  /\ Me!Truth(m, s, me_now)' = Me!InOrder(Me!Between(MeSrc(q)[m], s, me_now))
                 /\ Me!Truth(m, s, me_now - 1)' = Me!InOrder(Me!Between(MeSrc(q)[m], s, me_now - 1))
      BY <1>1 DEF Me!Truth, MeSrc
    <2>2. Me!EndIsLost(me_now)' = Me!EndIsLost(me_now)
      BY <1>1 DEF Me!EndIsLost
    <2>3. ASSUME NEW q \in queries, MeWhole(q), NEW m \in MeKeys(q)
          PROVE  \/ Me!Of(got(q).data, m) = Me!Truth(m, s, me_now)'
                 \/ Me!EndIsLost(me_now)' /\ Me!Of(got(q).data, m) = Me!Truth(m, s, me_now - 1)'
      BY <1>3, <2>1, <2>2, <2>3
    <2>4. \A q \in queries : me_answer'.data[q] = got(q).data
      BY <1>10
    <2>5. \A m : /\ Me!Truth(m, s, me_now)' = Me!Truth(m, me_answer.s, me_answer.e)'
                 /\ Me!Truth(m, s, me_now - 1)' = Me!Truth(m, me_answer.s, me_answer.e - 1)'
      BY <1>1, <1>10 DEF Me!Truth
    <2>6. Me!EndIsLost(me_now)' = Me!EndIsLost(me_answer.e)'
      BY <1>1, <1>10 DEF Me!EndIsLost
    <2>7. \A q \in me_answer'.queries : MeWhole(q)' => \A m \in MeKeys(q) :
            \/ Me!Of(me_answer'.data[q], m) = Me!Truth(m, me_answer.s, me_answer.e)'
            \/ Me!EndIsLost(me_answer.e)' /\ Me!Of(me_answer'.data[q], m) = Me!Truth(m, me_answer.s, me_answer.e - 1)'
      BY <1>8a, <1>10, <2>3, <2>4, <2>5, <2>6
    <2>8. QED
      BY <2>7 DEF Me!CachedReadsAreComplete, MeKeys, MeWhole
  <1>13. QED
    BY <1>5, <1>7, <1>8, <1>9, <1>11, <1>12 DEF MeInv, MeState, MeBase

\* A set of two has two elements.
LEMMA TwoElements ==
  ASSUME NEW S, IsFiniteSet(S), Cardinality(S) >= 2
  PROVE  \E x \in S, y \in S : x # y
  <1>1. Cardinality({}) = 0
    BY FS_EmptySet
  <1>2. PICK x \in S : TRUE
    BY <1>1
  <1>3. Cardinality({x}) = 1
    BY FS_Singleton
  <1>4. S # {x}
    BY <1>3
  <1>5. QED
    BY <1>2, <1>4

\* The latest non-zero points: some if there are any, two if there are two,
\* and always the last one.
LEMMA MeLatest ==
  ASSUME NEW ts, MeSorted(ts)
  PROVE  LET ls == Me!LatestNonZero(ts) IN
         /\ MeSorted(ls) /\ \A p \in MePts(ls) : p \in MePts(ts) /\ p[2] > 0
         /\ \A p \in MePts(ts) : p[2] > 0 => Len(ls) > 0 /\ p[1] <= ls[Len(ls)][1]
         /\ \A p \in MePts(ts), r \in MePts(ts) : p[2] > 0 /\ r[2] > 0 /\ p # r => Len(ls) > 1
  <1> DEFINE Z == {p \in {ts[i] : i \in DOMAIN ts} : p[2] > 0}
             nz == Me!InOrder(Z)
             n == Len(nz)
             a == IF n > Smoothing THEN n - Smoothing ELSE 0
             ls == SubSeq(nz, a + 1, n)
  <1>1. ts \in Seq(Me!Point) /\ Len(ts) \in Nat /\ DOMAIN ts = 1..Len(ts)
    BY DEF MeSorted
  <1>2. \A p : p \in Z <=> p \in MePts(ts) /\ p[2] > 0
    BY <1>1 DEF MePts
  <1>3. MePoints(Z)
    <2>1. \A i \in 1..Len(ts) : ts[i] \in Me!Point
      BY <1>1
    <2>2. \A i \in 1..Len(ts) : ts[i][1] \in Int
      BY <2>1, MePoint
    <2>3. \A i \in 1..Len(ts), j \in 1..Len(ts) : ts[i][1] = ts[j][1] => i = j
      <3>1. SUFFICES ASSUME NEW i \in 1..Len(ts), NEW j \in 1..Len(ts), i < j
                     PROVE  ts[i][1] # ts[j][1] /\ ts[j][1] # ts[i][1]
        BY <1>1
      <3>2. ts[i][1] < ts[j][1]
        BY <3>1 DEF MeSorted
      <3>3. QED
        BY <2>2, <3>2
    <2>4. \A p \in MePts(ts) : p \in Me!Point
      BY <2>1 DEF MePts
    <2>5. \A p \in MePts(ts), r \in MePts(ts) : p[1] = r[1] => p = r
      BY <2>3 DEF MePts
    <2> HIDE DEF Z
    <2>6. QED
      BY <1>2, <2>4, <2>5 DEF MePoints
  <1>4. Me!LatestNonZero(ts) = SubSeq(nz, IF n > Smoothing THEN n - Smoothing + 1 ELSE 1, n)
    BY DEF Me!LatestNonZero, Me!Latest, Me!NonZero
  <1> HIDE DEF Z
  <1>5. MeSorted(nz) /\ \A p : p \in MePts(nz) <=> p \in MePts(ts) /\ p[2] > 0
    BY <1>2, <1>3, MeInOrder
  <1> HIDE DEF nz
  <1>6. n \in Nat /\ Smoothing \in Nat /\ Smoothing >= 2
    <2>1. Smoothing \in Nat \ {0, 1}
      BY ConstantsAssumption
    <2>2. QED
      BY <1>5, <2>1 DEF MeSorted
  <1>7. a \in Nat /\ (IF n > Smoothing THEN n - Smoothing + 1 ELSE 1) = a + 1
    BY <1>6
  <1>8. Me!LatestNonZero(ts) = ls
    BY <1>4, <1>7
  <1>9. n <= n /\ (n > 0 => a < n) /\ (n > 1 => a + 1 < n)
    BY <1>6
  <1> HIDE DEF n
  <1>10. /\ MeSorted(ls) /\ Len(ls) = IF a < n THEN n - a ELSE 0
         /\ \A p : p \in MePts(ls) <=> \E i \in 1..Len(nz) : a < i /\ i <= n /\ p = nz[i]
    <2> HIDE DEF a
    <2> QED BY <1>5, <1>6, <1>7, <1>9, MePart DEF n
  <1>11. \A p \in MePts(ls) : p \in MePts(nz)
    <2>1. \A p : p \in MePts(nz) <=> \E i \in 1..Len(nz) : p = nz[i]
      BY DEF MePts
    <2> HIDE DEF ls
    <2>2. QED
      BY <1>10, <2>1
  <1>12. n > 0 => Len(ls) > 0 /\ ls[Len(ls)] = nz[n]
    <2>1. SUFFICES ASSUME n > 0 PROVE Len(ls) > 0 /\ ls[Len(ls)] = nz[n]
      OBVIOUS
    <2>2. a < n /\ Len(ls) = n - a /\ n \in Nat /\ a \in Nat
      BY <1>6, <1>7, <1>9, <1>10, <2>1
    <2>3. nz \in Seq(Me!Point) /\ Len(nz) = n
      BY <1>5 DEF MeSorted, n
    <2> HIDE DEF a
    <2>4. ls[n - a] = nz[n]
      BY <2>2, <2>3
    <2>5. QED
      BY <2>2, <2>4
  <1>13. n > 1 => Len(ls) > 1
    <2>1. Len(ls) = IF a < n THEN n - a ELSE 0
      BY <1>10
    <2>2. a \in Nat /\ n \in Nat /\ (n > 0 => a < n) /\ (n > 1 => a + 1 < n)
      BY <1>6, <1>7, <1>9
    <2> HIDE DEF ls, a
    <2>3. QED
      BY <2>1, <2>2
  <1>14. ASSUME NEW p \in MePts(ts), p[2] > 0
         PROVE  n > 0 /\ p[1] <= nz[n][1]
    <2>1. PICK i \in 1..n : p = nz[i]
      BY <1>5, <1>14 DEF MePts, n
    <2>2. n \in 1..n /\ n > 0
      BY <1>6, <2>1
    <2>3. \A k \in 1..n : nz[k] \in Me!Point
      BY <1>5 DEF MeSorted, n
    <2>4. nz[i][1] \in Int /\ nz[n][1] \in Int
      BY <2>1, <2>2, <2>3, MePoint
    <2>5. CASE i = n
      BY <2>1, <2>2, <2>4, <2>5
    <2>6. CASE i < n
      <3>1. nz[i][1] < nz[n][1]
        BY <1>5, <2>1, <2>2, <2>6 DEF MeSorted, n
      <3>2. QED
        BY <2>1, <2>2, <2>4, <3>1
    <2>7. QED
      BY <1>6, <2>1, <2>5, <2>6
  <1>15. ASSUME NEW p \in MePts(ts), NEW r \in MePts(ts), p[2] > 0, r[2] > 0, p # r
         PROVE  n > 1
    <2>1. PICK i \in 1..n : p = nz[i]
      BY <1>5, <1>15 DEF MePts, n
    <2>2. PICK j \in 1..n : r = nz[j]
      BY <1>5, <1>15 DEF MePts, n
    <2>3. i # j
      BY <1>15, <2>1, <2>2
    <2>4. QED
      BY <1>6, <2>1, <2>2, <2>3
  <1> HIDE DEF ls
  <1>16. \A p \in MePts(ts) : p[2] > 0 => Len(ls) > 0 /\ p[1] <= ls[Len(ls)][1]
    BY <1>12, <1>14
  <1>17. QED
    BY <1>5, <1>8, <1>10, <1>11, <1>13, <1>15, <1>16

\* The history of an empty pool: the first read is complete, and the second one
\* finds the total of the last pass that the first one found.
LEMMA MeHistory ==
  ASSUME MeState, Me!GetHistory
  PROVE  MeInv'
  <1> DEFINE en == me_cache["capacity"]
             c == Me!get_metric_values(en, "capacity", {}, 1, me_now)
             ts == Me!Of(c.data, "capacity")
             caps == Me!LatestNonZero(ts)
             tot == me_cache["total"]
             e == caps[Len(caps)][1]
             r == IF Len(caps) > 1 THEN Me!get_metric_values(tot, "total", {}, caps[1][1], e)
                  ELSE [data |-> Me!NoData, entry |-> tot]
  <1>1. /\ me_reader = "history" /\ me_now > 1
        /\ UNCHANGED <<me_now, me_reader, me_half, me_pending, me_store>>
        /\ me_cache' = [me_cache EXCEPT !["capacity"] = c.entry, !["total"] = r.entry]
        /\ me_answer' = Me!Answer({}, 1, me_now, caps, Me!HistoryAnswer(caps, r))
    BY DEF Me!GetHistory, Me!Last
  <1>2. MeTypes /\ MeDistinct /\ MePast /\ MeFresh /\ MeReadOnly /\ MeCaches /\ MeTotals /\ MePasses
    BY DEF MeState, MeBase
  <1>3. me_now \in Int /\ 1 \in 1..(me_now - 1) /\ me_reader # "simulation" /\ MeLimit \in Int
    BY <1>1, <1>2, MeClock
  <1>4. /\ "capacity" \in Me!Queries /\ "total" \in Me!Queries
        /\ "capacity" \in Me!Series /\ "total" \in Me!Series
    BY DEF Me!Queries, Me!Series
  <1>5. /\ MeKeys("capacity") = {"capacity"} /\ MeSrc("capacity")["capacity"] = me_store["capacity"]
        /\ MeKeys("total") = {"total"} /\ MeSrc("total")["total"] = me_store["total"]
        /\ "capacity" # Me!Regex /\ "total" # Me!Regex /\ MeWhole("capacity") /\ MeWhole("total")
    BY <1>1 DEF MeKeys, MeSrc, MeWhole, Me!Regex
  <1>6. /\ MeGood("capacity", c.entry)
        /\ MeSorted(ts) /\ ts = Me!InOrder(Me!Between(me_store["capacity"], 1, me_now))
        /\ \A p : p \in MePts(ts) <=> p \in me_store["capacity"] /\ 1 <= p[1] /\ p[1] <= me_now
    <2>1. ~Me!EndIsLost(me_now)
      BY <1>3 DEF Me!EndIsLost
    <2>2. "capacity" \in MeKeys("capacity")
      BY <1>5
    <2>3. /\ MeGood("capacity", c.entry)
          /\ \A m \in MeKeys("capacity") : MeSorted(Me!Of(c.data, m))
          /\ \A m \in MeKeys("capacity") : Me!Of(c.data, m) = Me!InOrder(Me!Between(MeSrc("capacity")[m], 1, me_now))
          /\ \A m \in MeKeys("capacity") : \A p : p \in MePts(Me!Of(c.data, m)) <=> p \in MeSrc("capacity")[m] /\ 1 <= p[1] /\ p[1] <= me_now
      BY <1>3, <1>4, <1>5, <2>1, MeReadNow
    <2>4. QED
      BY <1>5, <2>2, <2>3
  <1> HIDE DEF c, ts
  <1>7. \A p : p \in MePts(ts) <=> p \in me_store["capacity"]
    <2>1. \A p \in me_store["capacity"] : p \in Me!Samples("capacity")
      BY MeSample
    <2>2. \A p \in me_store["capacity"] : p[1] <= me_now
      BY <1>2, <1>4, <2>1 DEF MePast
    <2>3. \A p \in me_store["capacity"] : p \in Me!Point
      BY <1>2, <1>4 DEF MeTypes
    <2>4. \A p \in me_store["capacity"] : 1 <= p[1]
      BY <2>3, MePoint
    <2>5. QED
      BY <1>6, <2>2, <2>4
  <1>8. /\ MeSorted(caps) /\ \A p \in MePts(caps) : p \in MePts(ts) /\ p[2] > 0
        /\ \A p \in MePts(ts) : p[2] > 0 => Len(caps) > 0 /\ p[1] <= caps[Len(caps)][1]
        /\ \A p \in MePts(ts), x \in MePts(ts) : p[2] > 0 /\ x[2] > 0 /\ p # x => Len(caps) > 1
    BY <1>6, MeLatest
  <1> HIDE DEF caps
  <1>9. caps \in Seq(Me!Point) /\ Len(caps) \in Nat
    BY <1>8 DEF MeSorted
  <1>10. ASSUME Len(caps) > 1
         PROVE  /\ caps[1] \in me_store["capacity"] /\ caps[1][2] > 0 /\ caps[1][1] \in Int
                /\ caps[Len(caps)] \in me_store["capacity"] /\ caps[Len(caps)][2] > 0 /\ e \in Int
                /\ caps[1][1] < e
    <2>1. 1 \in 1..Len(caps) /\ Len(caps) \in 1..Len(caps) /\ 1 < Len(caps)
      BY <1>9, <1>10
    <2>2. caps[1] \in MePts(caps) /\ caps[Len(caps)] \in MePts(caps)
      BY <2>1 DEF MePts
    <2>3. caps[1] \in Me!Point /\ caps[Len(caps)] \in Me!Point
      BY <1>9, <2>1
    <2>4. caps[1][1] \in Int /\ e \in Int
      BY <2>3, MePoint
    <2>5. caps[1][1] < e
      BY <1>8, <2>1 DEF MeSorted
    <2>6. QED
      BY <1>7, <1>8, <2>2, <2>4, <2>5
  <1> HIDE DEF tot, e
  <1>11. MeGood("total", tot) /\ MeSource(MeKeys("total"), MeSrc("total"))
    BY <1>2, <1>4, <1>5, MeSourceOK DEF MeCaches, tot
  <1>12. ASSUME Len(caps) > 1
         PROVE  /\ MeEntry(r.entry, MeKeys("total"), MeSrc("total"), MeLimit)
                /\ \A m, p : MeHolds(r.entry.data, m, p) => p[1] <= e
                /\ MeSeries(r.data, MeKeys("total"))
                /\ \A p \in me_store["total"] :
                     caps[1][1] <= p[1] /\ (p[1] < e \/ (p[1] = e /\ ~\E x \in me_store["total"] : x[1] = e - 1))
                     => MeHolds(r.data, "total", p)
    <2> DEFINE s == caps[1][1]
               got == Me!get_metric_values(tot, "total", {}, s, e)
    <2>1. r = got
      BY <1>12
    <2>2. s \in Int /\ e \in Int /\ s < e
      BY <1>10, <1>12
    <2>3. \A m, p : MeHolds(tot.data, m, p) => p[1] <= e
      <3>1. SUFFICES ASSUME NEW m, NEW p, MeHolds(tot.data, m, p) PROVE p[1] <= e
        OBVIOUS
      <3>2. PICK x \in me_store["capacity"] : x[2] > 0 /\ p[1] <= x[1]
        BY <1>2, <3>1 DEF MeTotals, tot
      <3>3. x[1] <= e
        BY <1>7, <1>8, <3>2 DEF e
      <3>4. m = "total" /\ p \in me_store["total"]
        BY <1>5, <1>11, <3>1 DEF MeGood, MeEntry, MeHolds, MeSeries
      <3>5. p \in Me!Point /\ x \in Me!Point
        BY <1>2, <1>4, <3>2, <3>4 DEF MeTypes
      <3>6. p[1] \in Int /\ x[1] \in Int
        BY <3>5, MePoint
      <3>7. QED
        BY <2>2, <3>2, <3>3, <3>6
    <2>4. MeEntry(tot, MeKeys("total"), MeSrc("total"), MeLimit)
      BY <1>11 DEF MeGood
    <2> HIDE DEF s
    <2>5. /\ MeEntry(got.entry, MeKeys("total"), MeSrc("total"), MeLimit)
          /\ \A m, p : MeHolds(got.entry.data, m, p) => p[1] <= e
          /\ MeSeries(got.data, MeKeys("total"))
          /\ \A m \in MeKeys("total") : \A p \in MeSrc("total")[m] :
               /\ s <= p[1]
               /\ \/ p[1] < e
                  \/ p[1] = e /\ (MeLimit < e \/ ~\E k \in MeKeys("total") : \E x \in MeSrc("total")[k] : x[1] = e - 1)
               => MeHolds(got.data, m, p)
      BY <1>3, <1>4, <1>5, <1>11, <2>2, <2>3, <2>4, MeRead
    <2> HIDE DEF got
    <2>6. \A p \in me_store["total"] :
            s <= p[1] /\ (p[1] < e \/ (p[1] = e /\ ~\E x \in me_store["total"] : x[1] = e - 1))
            => MeHolds(got.data, "total", p)
      <3>1. /\ "total" \in MeKeys("total") /\ MeSrc("total")["total"] = me_store["total"]
            /\ \A k \in MeKeys("total") : k = "total"
        BY <1>5
      <3>2. QED
        BY <2>5, <3>1
    <2> HIDE DEF r
    <2>7. QED
      BY <2>1, <2>5, <2>6 DEF s
  <1>13. ~(Len(caps) > 1) => r.entry = tot
    OBVIOUS
  <1> HIDE DEF r
  <1>14. MeGood("total", r.entry)
    <2>1. CASE Len(caps) > 1
      <3>1. e <= me_now /\ e \in Int
        <4>1. caps[Len(caps)] \in Me!Samples("capacity")
          BY <1>10, <2>1, MeSample
        <4>2. QED
          BY <1>2, <1>4, <1>10, <2>1, <4>1 DEF MePast, e
      <3>2. ASSUME NEW m, NEW p, MeHolds(r.entry.data, m, p)
            PROVE  p[1] <= me_now
        <4>1. p[1] <= e /\ m \in MeKeys("total") /\ p \in MeSrc("total")[m]
          BY <1>12, <2>1, <3>2 DEF MeEntry, MeHolds, MeSeries
        <4>2. p \in Me!Point
          BY <1>11, <4>1 DEF MeSource, MePoints
        <4>3. p[1] \in Int
          BY <4>2, MePoint
        <4>4. QED
          BY <1>3, <3>1, <4>1, <4>3
      <3>3. QED
        BY <1>12, <2>1, <3>2 DEF MeGood
    <2>2. QED
      BY <1>11, <1>13, <2>1
  <1>15. /\ me_cache'["capacity"] = c.entry /\ me_cache'["total"] = r.entry /\ DOMAIN me_cache' = DOMAIN me_cache
         /\ \A q \in Me!Queries : q # "capacity" /\ q # "total" => me_cache'[q] = me_cache[q]
    BY <1>1, <1>2, <1>4 DEF MeTypes
  <1>16. MeTypes'
    BY <1>1, <1>2, <1>15 DEF MeTypes
  <1>17. \A m : Me!Samples(m)' = Me!Samples(m)
    BY <1>1 DEF Me!Samples
  <1>18. MeDistinct' /\ MePast' /\ MeFresh' /\ MeReadOnly' /\ MePasses'
    BY <1>1, <1>2, <1>17 DEF MeDistinct, MePast, MeFresh, MeReadOnly, MePasses
  <1>19. MeCaches'
    <2>1. \A q \in Me!Queries : MeWhole(q) => MeGood(q, me_cache'[q])
      BY <1>2, <1>6, <1>14, <1>15 DEF MeCaches
    <2>2. MeLimit' = MeLimit /\ \A q : MeSrc(q)' = MeSrc(q) /\ (MeWhole(q)' <=> MeWhole(q))
      BY <1>1 DEF MeLimit, Me!wall, MeSrc, MeWhole, Me!OnePage, Me!Index
    <2>3. QED
      BY <1>1, <2>1, <2>2 DEF MeCaches, MeGood
  <1>20. MeTotals'
    <2>1. CASE Len(caps) > 1
      BY <1>1, <1>10, <1>12, <1>15, <2>1 DEF MeTotals, e
    <2>2. CASE ~(Len(caps) > 1)
      BY <1>1, <1>2, <1>13, <1>15, <2>2 DEF MeTotals, tot
    <2>3. QED
      BY <2>1, <2>2
  <1>21. me_answer'.queries = {} /\ me_answer'.history = Me!HistoryAnswer(caps, r) /\ me_answer'.data = caps
    BY <1>1 DEF Me!Answer
  <1>22. Me!CachedReadsAreComplete'
    BY <1>21 DEF Me!CachedReadsAreComplete
  <1>23. Me!HistoryIsFound'
    <2> DEFINE S == {p \in me_store["capacity"] : p[2] > 0}
    <2>0. caps = Me!LatestNonZero(Me!Truth("capacity", 1, me_now))'
      <3>1. Me!Truth("capacity", 1, me_now)' = ts
        BY <1>1, <1>6 DEF Me!Truth
      <3>2. QED
        BY <3>1 DEF caps, Me!LatestNonZero, Me!Latest, Me!NonZero
    <2>1. SUFFICES ASSUME me_pending = {}, Me!Cardinality(S) >= 2,
                          ~\E p \in me_store["total"], x \in me_store["total"] : x[1] = p[1] + 1
                   PROVE  Me!HistoryAnswer(caps, r) = "weighted"
      BY <1>1, <1>21, <2>0 DEF Me!HistoryIsFound
    <2>2. S \in SUBSET Me!Point
      BY <1>2, <1>4 DEF MeTypes
    <2>3. \A p \in S : p \in MePts(ts) /\ p[2] > 0
      BY <1>7
    <2> HIDE DEF S
    <2>4. PICK x \in S, y \in S : x # y
      BY <2>1, <2>2, MeFinite, MeCardinality, TwoElements
    <2>5. Len(caps) > 1
      BY <1>8, <2>3, <2>4
    <2>6. PICK z \in me_store["total"] : z[2] > 0 /\ z[1] <= e /\ caps[1][1] <= z[1]
      <3>1. /\ caps[1] \in me_store["capacity"] /\ caps[Len(caps)] \in me_store["capacity"]
            /\ caps[Len(caps)][2] > 0 /\ caps[1][1] < caps[Len(caps)][1]
        BY <1>10, <2>5 DEF e
      <3>2. \A m, p : p \in Me!Samples(m) <=> p \in me_store[m]
        BY <2>1, MeSample
      <3>3. QED
        BY <1>1, <1>2, <3>1, <3>2 DEF MePasses, e
    <2>7. MeHolds(r.data, "total", z)
      <3>1. z \in Me!Point
        BY <1>2, <1>4 DEF MeTypes
      <3>2. z[1] \in Int /\ e \in Int
        BY <1>10, <2>5, <3>1, MePoint
      <3>3. z[1] = e => ~\E w \in me_store["total"] : w[1] = e - 1
        BY <2>1, <2>6, <3>2
      <3>4. QED
        BY <1>12, <2>5, <2>6, <3>2, <3>3
    <2> DEFINE us == Me!Of(r.data, "total")
    <2>8. MeSorted(us) /\ z \in MePts(us)
      BY <1>12, <2>5, <2>7 DEF MeHolds, MeSeries, Me!Of
    <2>9. Len(Me!LatestNonZero(us)) > 0
      <3> HIDE DEF us
      <3> QED BY <2>6, <2>8, MeLatest
    <2>10. Me!LatestNonZero(us) # <<>>
      <3> DEFINE ls == Me!LatestNonZero(us)
      <3>1. Len(ls) > 0
        BY <2>9
      <3> HIDE DEF ls
      <3>2. ls # <<>>
        BY <3>1
      <3>3. QED
        BY <3>2 DEF ls
    <2>11. caps # <<>> /\ Len(caps) # 1
      <3> DEFINE n == Len(caps)
      <3>1. n \in Nat /\ n > 1
        BY <1>9, <2>5
      <3> HIDE DEF n
      <3>2. n # 0 /\ n # 1
        BY <3>1
      <3>3. QED
        BY <3>2 DEF n
    <2>12. QED
      BY <2>5, <2>10, <2>11 DEF Me!HistoryAnswer
  <1>24. QED
    BY <1>16, <1>18, <1>19, <1>20, <1>22, <1>23 DEF MeInv, MeState, MeBase

\* Every step keeps the invariant.
LEMMA MeNext == MeInv /\ [Me!Next]_me_vars => MeInv'
  <1> SUFFICES ASSUME MeInv, [Me!Next]_me_vars PROVE MeInv'
    OBVIOUS
  <1>1. MeState /\ MeTypes /\ MePast /\ MePasses
    BY DEF MeInv, MeState, MeBase
  <1>2. /\ AppSeries \in SUBSET Me!Series /\ "old" \in Me!Series /\ "new" \in Me!Series
        /\ "total" \in Me!Series /\ "capacity" \in Me!Series
    BY DEF Me!Series
  <1>3. <<me_now, 0>> \in Me!Point /\ <<me_now, 1>> \in Me!Point
    BY <1>1, MePointNow
  <1>4. CASE Me!SendSample
    <2>1. PICK m \in Me!Series : Me!Send({<<m, <<me_now, 1>>>>}) /\ me_reader \in {"app", "system"} /\ UNCHANGED me_half
      BY <1>2, <1>4 DEF Me!SendSample
    <2> DEFINE points == {<<m, <<me_now, 1>>>>}
    <2>2. points \in SUBSET (Me!Series \X Me!Point) /\ \A x \in points : x[2][1] = me_now
      BY <1>3
    <2>3. \A x \in points, y \in points : x[1] = y[1] => x = y
      OBVIOUS
    <2>4. Me!Send(points) /\ me_half' \in SUBSET {0, 1} /\ me_reader # "simulation" /\ me_reader # "history"
      BY <1>1, <2>1 DEF MeTypes
    <2> HIDE DEF points
    <2>5. MeBase' /\ Me!CachedReadsAreComplete' /\ Me!HistoryIsFound' /\ UNCHANGED <<me_now, me_reader>>
      BY <1>1, <2>2, <2>3, <2>4, MeSend
    <2>6. MePasses'
      BY <2>4, <2>5 DEF MePasses
    <2>7. QED
      BY <2>5, <2>6 DEF MeInv, MeState
  <1>4a. me_now \in Int /\ (\A p \in Me!Samples("capacity") : p[1] <= me_now) /\ (\A p \in Me!Samples("total") : p[1] <= me_now)
    BY <1>1, <1>2, MeClock DEF MePast
  <1>5. CASE Me!SendTotal
    <2>1. PICK v \in {0, 1} : Me!Send({<<"total", <<me_now, v>>>>}) /\ me_half' = {v}
      BY <1>5 DEF Me!SendTotal
    <2> DEFINE points == {<<"total", <<me_now, v>>>>}
    <2>2. points \in SUBSET (Me!Series \X Me!Point) /\ \A x \in points : x[2][1] = me_now
      BY <1>2, <1>3
    <2>3. \A x \in points, y \in points : x[1] = y[1] => x = y
      OBVIOUS
    <2>4. Me!Send(points) /\ me_half' \in SUBSET {0, 1} /\ me_reader = "history" /\ me_reader # "simulation"
      BY <1>5, <2>1 DEF Me!SendTotal
    <2>5. \A m, p : (\E x \in points : x[1] = m /\ x[2] = p) <=> m = "total" /\ p = <<me_now, v>>
      OBVIOUS
    <2> HIDE DEF points
    <2>6. /\ MeBase' /\ Me!CachedReadsAreComplete' /\ Me!HistoryIsFound' /\ UNCHANGED <<me_now, me_reader>>
          /\ \A m, p : p \in Me!Samples(m)' <=> p \in Me!Samples(m) \/ \E x \in points : x[1] = m /\ x[2] = p
      BY <1>1, <2>2, <2>3, <2>4, MeSend
    <2>7. \A p : p \in Me!Samples("capacity")' <=> p \in Me!Samples("capacity")
      BY <2>5, <2>6
    <2>8. \A p : p \in Me!Samples("total")' <=> p \in Me!Samples("total") \/ p = <<me_now, v>>
      BY <2>5, <2>6
    <2>9. MePasses'
      <3>1. ASSUME NEW c \in Me!Samples("capacity"), c[2] > 0
            PROVE  \E z \in Me!Samples("total")' :
                     /\ z[2] > 0 /\ z[1] <= c[1]
                     /\ \A d \in Me!Samples("capacity") : d[1] < c[1] => d[1] <= z[1]
        BY <1>1, <2>4, <2>8, <3>1 DEF MePasses
      <3>2. ASSUME v > 0
            PROVE  \E z \in Me!Samples("total")' : z[2] > 0 /\ \A d \in Me!Samples("capacity") : d[1] <= z[1]
        <4> DEFINE z == <<me_now, v>>
        <4>1. z \in Me!Samples("total")' /\ z[1] = me_now /\ z[2] = v
          BY <2>8
        <4> HIDE DEF z
        <4>2. QED
          BY <1>4a, <3>2, <4>1
      <3>3. QED
        BY <2>1, <2>7, <3>1, <3>2 DEF MePasses
    <2>10. QED
      BY <2>6, <2>9 DEF MeInv, MeState
  <1>5a. CASE Me!SendCapacity
    <2>1. PICK total \in me_half, v \in {0, 1} :
            v <= total /\ Me!Send({<<"capacity", <<me_now, v>>>>}) /\ me_half' = {}
      BY <1>5a DEF Me!SendCapacity
    <2> DEFINE points == {<<"capacity", <<me_now, v>>>>}
    <2>2. points \in SUBSET (Me!Series \X Me!Point) /\ \A x \in points : x[2][1] = me_now
      BY <1>2, <1>3
    <2>3. \A x \in points, y \in points : x[1] = y[1] => x = y
      OBVIOUS
    <2>4. Me!Send(points) /\ me_half' \in SUBSET {0, 1} /\ me_reader = "history" /\ me_reader # "simulation"
      BY <1>5a, <2>1 DEF Me!SendCapacity
    <2>5. \A m, p : (\E x \in points : x[1] = m /\ x[2] = p) <=> m = "capacity" /\ p = <<me_now, v>>
      OBVIOUS
    <2> HIDE DEF points
    <2>6. /\ MeBase' /\ Me!CachedReadsAreComplete' /\ Me!HistoryIsFound' /\ UNCHANGED <<me_now, me_reader>>
          /\ \A m, p : p \in Me!Samples(m)' <=> p \in Me!Samples(m) \/ \E x \in points : x[1] = m /\ x[2] = p
      BY <1>1, <2>2, <2>3, <2>4, MeSend
    <2>7. \A p : p \in Me!Samples("capacity")' <=> p \in Me!Samples("capacity") \/ p = <<me_now, v>>
      BY <2>5, <2>6
    <2>8. \A p : p \in Me!Samples("total")' <=> p \in Me!Samples("total")
      BY <2>5, <2>6
    <2>9. total \in {0, 1} /\ (v > 0 => total > 0)
      BY <1>1, <2>1 DEF MeTypes
    <2>10. ASSUME NEW c \in Me!Samples("capacity")', c[2] > 0
           PROVE  \E z \in Me!Samples("total") :
                    /\ z[2] > 0 /\ z[1] <= c[1]
                    /\ \A d \in Me!Samples("capacity")' : d[1] < c[1] => d[1] <= z[1]
      <3>1. CASE c \in Me!Samples("capacity")
        <4>1. PICK z \in Me!Samples("total") :
                    /\ z[2] > 0 /\ z[1] <= c[1]
                    /\ \A d \in Me!Samples("capacity") : d[1] < c[1] => d[1] <= z[1]
          BY <1>1, <2>4, <2>10, <3>1 DEF MePasses
        <4>2. c \in Me!Point
          BY <1>1, <1>2, <3>1 DEF MeState, MeBase, MeDistinct, MePoints
        <4>3. ~(me_now < c[1])
          BY <1>4a, <3>1, <4>2, MePoint
        <4>4. QED
          BY <2>7, <4>1, <4>3
      <3>2. CASE c = <<me_now, v>>
        <4>1. PICK z \in Me!Samples("total") : z[2] > 0 /\ \A d \in Me!Samples("capacity") : d[1] <= z[1]
          BY <1>1, <2>1, <2>4, <2>9, <2>10, <3>2 DEF MePasses
        <4>2. z[1] <= c[1] /\ c[1] = me_now /\ ~(me_now < me_now)
          BY <1>4a, <3>2
        <4>3. QED
          BY <2>7, <4>1, <4>2
      <3>3. QED
        BY <2>7, <2>10, <3>1, <3>2
    <2>11. MePasses'
      BY <2>1, <2>8, <2>10 DEF MePasses
    <2>12. QED
      BY <2>6, <2>11 DEF MeInv, MeState
  <1>6. CASE Me!PutItem
    BY <1>1, <1>6, MePut
  <1>7. CASE Me!Tick
    BY <1>1, <1>7, MeTick
  <1>8. CASE Me!ReadAppMetrics
    <2>1. /\ me_reader = "app" /\ {Me!Regex} \in SUBSET Me!Queries
          /\ \E s \in 1..(me_now - 1) : \E keys \in Me!_get_keys_from_query(Me!_cache_lookup(me_cache[Me!Regex], s, me_now).next, me_now) :
               Me!GetMetricsForSignal({Me!Regex}, keys, s)
      BY <1>8 DEF Me!ReadAppMetrics, Me!Queries
    <2>2. \A q \in {Me!Regex} : (me_reader = "simulation" => q = "new") /\ q # "total"
      BY <2>1 DEF Me!Regex
    <2>3. QED
      BY <1>1, <2>1, <2>2, MeSignal
  <1>9. CASE Me!ReadSystemMetrics
    <2>1. /\ me_reader = "system" /\ {"old", "new"} \in SUBSET Me!Queries
          /\ \E s \in 1..(me_now - 1) : Me!GetMetricsForSignal({"old", "new"}, {}, s)
      BY <1>9 DEF Me!ReadSystemMetrics, Me!Queries
    <2>2. Me!Regex \notin {"old", "new"} /\ \A q \in {"old", "new"} : (me_reader = "simulation" => q = "new") /\ q # "total"
      BY <2>1 DEF Me!Regex
    <2>3. QED
      BY <1>1, <2>1, <2>2, MeSignal
  <1>10. CASE Me!ReadSimulated
    <2>1. /\ me_reader = "simulation" /\ {"new"} \in SUBSET Me!Queries
          /\ \E s \in 1..(me_now - 1) : Me!GetMetricsForSignal({"new"}, {}, s)
      BY <1>10 DEF Me!ReadSimulated, Me!Queries
    <2>2. Me!Regex \notin {"new"} /\ \A q \in {"new"} : (me_reader = "simulation" => q = "new") /\ q # "total"
      BY DEF Me!Regex
    <2>3. QED
      BY <1>1, <2>1, <2>2, MeSignal
  <1>11. CASE Me!GetHistory
    BY <1>1, <1>11, MeHistory
  <1>12. CASE UNCHANGED me_vars
    <2>1. UNCHANGED <<me_now, me_reader, me_half, me_pending, me_store, me_cache, me_answer>>
      BY <1>12 DEF me_vars
    <2>2. /\ MeLimit' = MeLimit /\ Me!OnePage' = Me!OnePage
          /\ \A m : Me!Samples(m)' = Me!Samples(m) /\ MeSrc(m)' = MeSrc(m) /\ (MeWhole(m)' <=> MeWhole(m))
      BY <2>1 DEF Me!Samples, MeLimit, Me!wall, MeSrc, MeWhole, Me!OnePage, Me!Index
    <2>3. MeState'
      BY <1>1, <2>1, <2>2 DEF MeState, MeBase, MeTypes, MeDistinct, MePast, MeFresh, MeReadOnly, MeCaches, MeGood, MeTotals, MePasses
    <2>4. Me!CachedReadsAreComplete'
      BY <2>1, <2>2 DEF MeInv, Me!CachedReadsAreComplete, Me!Truth, Me!EndIsLost
    <2>5. Me!HistoryIsFound'
      BY <2>1 DEF MeInv, Me!HistoryIsFound, Me!Truth
    <2>6. QED
      BY <2>3, <2>4, <2>5 DEF MeInv
  <1>13. QED
    BY <1>4, <1>5, <1>5a, <1>6, <1>7, <1>8, <1>9, <1>10, <1>11, <1>12 DEF Me!Next

\* The metrics client by itself.
THEOREM ReadsAreComplete ==
  Me!Init /\ [][Me!Next]_me_vars => [](Me!CachedReadsAreComplete /\ Me!HistoryIsFound)
  <1>1. MeInv => Me!CachedReadsAreComplete /\ Me!HistoryIsFound
    BY DEF MeInv
  <1>2. QED
    BY <1>1, MeInit, MeNext, PTL

-----------------------------------------------------------------------------
(* The composition: a step of one service leaves the others alone.          *)

\* Every behaviour of the composition is one of each service.
LEMMA ServicesStandAlone ==
  /\ Init => Me!Init /\ Sp!Init /\ Cm!Init /\ Cc!Init /\ Mm!Init /\ Ev!Init
  /\ [Next]_vars => /\ [Me!Next]_me_vars
                    /\ [Sp!Next]_sp_vars
                    /\ [Cm!Next]_cm_vars
                    /\ [Cc!Next]_cc_vars
                    /\ [Mm!Next]_mm_vars
                    /\ [Ev!Next]_ev_vars
  <1>1. Init => Me!Init /\ Sp!Init /\ Cm!Init /\ Cc!Init /\ Mm!Init /\ Ev!Init
    BY DEF Init
  <1>2. ASSUME [Next]_vars
        PROVE  /\ [Me!Next]_me_vars
               /\ [Sp!Next]_sp_vars
               /\ [Cm!Next]_cm_vars
               /\ [Cc!Next]_cc_vars
               /\ [Mm!Next]_mm_vars
               /\ [Ev!Next]_ev_vars
    <2>1. CASE MetricsNext
      BY <2>1 DEF MetricsNext
    <2>2. CASE SpotPricesNext
      BY <2>2 DEF SpotPricesNext
    <2>3. CASE ClusterMetricsNext
      BY <2>3 DEF ClusterMetricsNext
    <2>4. CASE ConnectorsNext
      BY <2>4 DEF ConnectorsNext
    <2>5. CASE MesosMaintenanceNext
      BY <2>5 DEF MesosMaintenanceNext
    <2>6. CASE MigrationEventsNext
      BY <2>6 DEF MigrationEventsNext
    <2>7. CASE UNCHANGED vars
      BY <2>7 DEF vars
    <2>8. QED
      BY <1>2, <2>1, <2>2, <2>3, <2>4, <2>5, <2>6, <2>7 DEF Next
  <1>3. QED
    BY <1>1, <1>2

\* What an autoscaler run reads through the cache is what the table holds of
\* the window at that moment, no more and no less, however late a point was
\* written and whichever windows were read before (boto_client.py), for any
\* delay of the cache and any number of points.  A regular expression is
\* answered in full as long as the index fits in a page; a simulated read lacks
\* at most the point of its last second, and only behind one a second before.
THEOREM CachedReadsAreAlwaysComplete == Spec => []CachedReadsAreComplete
  <1>1. CachedReadsAreComplete <=> Me!CachedReadsAreComplete
    BY DEF CachedReadsAreComplete
  <1>2. QED
    BY <1>1, ServicesStandAlone, ReadsAreComplete, PTL DEF Spec

\* An empty pool looks at the latest non-zero capacities of the table.  With two
\* of them, no write on its way and no totals of adjacent seconds, it finds how
\* much a unit of capacity held: the second query of
\* _get_historical_weighted_resource_value, over the window of the points that
\* the first one kept, has a non-zero total.
THEOREM HistoryIsAlwaysFound == Spec => []HistoryIsFound
  <1>1. HistoryIsFound <=> Me!HistoryIsFound
    BY DEF HistoryIsFound
  <1>2. QED
    BY <1>1, ServicesStandAlone, ReadsAreComplete, PTL DEF Spec

\* No price change that a run of the spot price collector was to record is lost
\* or covered by an older one: whatever times out, is throttled or is retried
\* (batch/spot_price_collector.py), and for any length of the interval.
THEOREM PricesAreAlwaysRecorded == Spec => []PricesAreRecorded
  <1>1. PricesAreRecorded <=> Sp!PricesAreRecorded
    BY DEF PricesAreRecorded
  <1>2. QED
    BY <1>1, ServicesStandAlone, CollectorRecordsPrices, PTL DEF Spec

\* The metrics collector reports a pass to Sensu only when it wrote every
\* metric of every pool it has loaded.
THEOREM OnlyWholePassesAreReported == Spec => []ReportedPassIsWhole
  <1>1. ReportedPassIsWhole <=> Cm!ReportedPassIsWhole
    BY DEF ReportedPassIsWhole
  <1>2. QED
    BY <1>1, ServicesStandAlone, CollectorReportsWholePasses, PTL DEF Spec

\* An agent that a connector calls safe to kill although, in the list of pods
\* it last read, it runs one that is not safe to evict, is orphaned: the list of
\* nodes, read before, did not have it.
THEOREM KillableNodesAreSafe == Spec => []KnownNodesAreSafe
  <1>1. KnownNodesAreSafe <=> Cc!KnownNodesAreSafe
    BY DEF KnownNodesAreSafe
  <1>2. QED
    BY <1>1, ServicesStandAlone, ConnectorKnowsUnsafeNodes, PTL DEF Spec

\* A reload of the Kubernetes connector pays for every pod of the pool that it
\* looks at (not those without conditions, nor excluded daemonset pods that run
\* on none of its nodes) exactly once, and says that there is room for the pending pods only when each of
\* them fits next to what runs on some node (get_resource_allocation,
\* get_resource_pending, has_enough_capacity_for_pods), for any number of nodes
\* and pods.
THEOREM AccountsAreAlwaysRight == Spec => []AccountsAreRight
  <1>1. AccountsAreRight <=> Cc!AccountsAreRight
    BY DEF AccountsAreRight
  <1>2. QED
    BY <1>1, ServicesStandAlone, ConnectorAccountsAreRight, PTL DEF Spec

\* However calls to the Mesos master fail and are repeated, a host is in one
\* maintenance window at most, and in one that was asked for.
THEOREM WindowsAreAlwaysKept == Spec => []WindowsAreKept
  <1>1. WindowsAreKept <=> Mm!WindowsAreKept
    BY DEF WindowsAreKept
  <1>2. QED
    BY <1>1, ServicesStandAlone, MaintenanceKeepsWindows, PTL DEF Spec

\* The nodes that a migration recycles are those that do not meet the condition
\* as it was typed, and there is always a first one to recycle.
THEOREM RequestsAreCarriedOut == Spec => []RequestIsCarriedOut
  <1>1. RequestIsCarriedOut <=> Ev!RequestIsCarriedOut
    BY DEF RequestIsCarriedOut
  <1>2. QED
    BY <1>1, ServicesStandAlone, MigrationDoesWhatWasTyped, PTL DEF Spec
=============================================================================
