---------------------------- MODULE AppsProgressMC ----------------------------
(***************************************************************************)
(* Instances of AppsWorker for TLC's liveness check: processes follow one  *)
(* another, as systemd starts them, and the last one is not stopped.       *)
(***************************************************************************)
EXTENDS AppsWorker

CONSTANT Last  \* the process that is started last

\* The periodic heartbeat is silent after its first write and no heartbeat
\* write is lost: progress does not depend on them.
Quiet ==
  \A w \in Workers :
    /\ ~PeriodicHeartbeat(w)
    /\ \A s \in HeartbeatStatus : ~LoseHeartbeat(w, s) \/ ApplyHeartbeat(w, s)

Successive ==
  /\ Quiet
  /\ proc'[Last] \in {"off", "boot", "started", "up"}
  /\ proc'[Last] # "off" => \A w \in Workers \ {Last} : proc'[w] = "exited"
=============================================================================
