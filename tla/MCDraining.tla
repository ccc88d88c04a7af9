----------------------------- MODULE MCDraining -----------------------------
(* Instances of Draining for TLC.                                           *)
EXTENDS Draining, TLC

\* A Kubernetes host, one with an empty and one without a PrivateDnsName, a
\* Mesos host and a host of neither kind.
CONSTANTS k, e, x, m, o

SchedulerOf ==
  (k :> Kubernetes @@ e :> Kubernetes @@ x :> Kubernetes @@ m :> Mesos
     @@ o :> "other")
DnsNameOf ==
  (k :> "named" @@ e :> "empty" @@ x :> "missing" @@ m :> "named"
     @@ o :> "named")

MCScheduler == [i \in Instances |-> SchedulerOf[i]]
MCDnsName == [i \in Instances |-> DnsNameOf[i]]
=============================================================================
