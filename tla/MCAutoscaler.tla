----------------------------- MODULE MCAutoscaler -----------------------------
(* An instance of Autoscaler for TLC.                                       *)
EXTENDS Autoscaler, TLC

MCResources == {"cpus", "mem", "gpus", "disk"}
MCNodeRes == "cpus" :> 5 @@ "mem" :> 4 @@ "gpus" :> 0 @@ "disk" :> 2
\* A node takes one pod, though two pods fill it by less than twice.
MCNeed == "cpus" :> 3 @@ "mem" :> 1 @@ "gpus" :> 0 @@ "disk" :> 1

Request(cpus, mem, gpus, disk) ==
  "cpus" :> cpus @@ "mem" :> mem @@ "gpus" :> gpus @@ "disk" :> disk

\* Nothing; nothing wanted; memory most constrained; a resource the pool does
\* not have; an excluded resource besides others, and alone.
MCClientRequests ==
  {Request(None, None, None, None), Request(0, None, None, None),
   Request(5, 9, None, None), Request(5, None, 1, None),
   Request(5, None, None, 9), Request(None, None, None, 1)}
===============================================================================
