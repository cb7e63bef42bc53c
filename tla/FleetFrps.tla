------------------------------ MODULE FleetFrps ------------------------------
(***************************************************************************)
(* The hub's supervisor of its tunnel server: FrpOrchestrator of           *)
(* src/lib/fleet/frpOrchestrator.ts, the frps processes it starts, and the *)
(* settings requests that save a configuration and may apply its revision. *)
(*                                                                         *)
(* Nothing keeps one reconcileOnce from running while another one waits    *)
(* for a download, a kill or the database: the interval, the exit of a     *)
(* child and a settings request each start a flow of their own, and all of *)
(* them share the handle, the hash and one configuration file.  A step of  *)
(* a flow is what runs between two awaits.                                 *)
(***************************************************************************)
EXTENDS Integers, FiniteSets

CONSTANTS
  Configs,     \* renderings of the settings, told apart by their hash
  Flows,       \* flows that may run at once: a bound
  Children,    \* frps processes that may exist at once: a bound
  MaxEdits,    \* settings requests: a bound
  MaxFaults,   \* failed calls, children that die and crashes of the hub: a bound
  None

ASSUME ConfigsAssumption == Configs # {} /\ None \notin Configs
ASSUME ChildrenAssumption == None \notin Children
ASSUME FrpsBounds == MaxEdits \in Nat /\ MaxFaults \in Nat

VARIABLES
  saved,    \* FrpServerState: enabled, and the configuration it renders to
  server,   \* the orchestrator's fields: handle and configHash
  file,     \* frps.toml
  flow,     \* the calls under way
  child,    \* the frps processes of the host
  edits, faults

vars == <<saved, server, file, flow, child, edits, faults>>

\* Where a flow waits: for the settings, the hub's token, the end of the old
\* child, the pkill of killHandle, the pkill of startChild, the binary, the
\* file; "apply" and "staged" are applyRevision before and after its write.
Waits == {"settings", "token", "kill", "sweep", "clear", "binary", "file",
          "start", "apply", "staged"}
Goals == {"run", "stop", "apply"}
States == {"free", "starting", "up", "gone"}

NoFlow == [at |-> "idle", goal |-> "run", config |-> None, victim |-> None]
NoChild == [st |-> "free", config |-> None, heard |-> FALSE]

TypeOK ==
  /\ saved \in [enabled : BOOLEAN, config : Configs]
  /\ server \in [handle : Children \cup {None}, hash : Configs \cup {None}]
  /\ file \in Configs \cup {None}
  /\ flow \in [Flows -> {NoFlow} \cup
       [at : Waits, goal : Goals, config : Configs \cup {None},
        victim : Children \cup {None}]]
  /\ \A f \in Flows : flow[f].at \notin {"idle", "settings"} => flow[f].config \in Configs
  /\ child \in [Children -> [st : States, config : Configs \cup {None}, heard : BOOLEAN]]
  /\ edits \in 0..MaxEdits /\ faults \in 0..MaxFaults

Init ==
  /\ \E c \in Configs : saved = [enabled |-> FALSE, config |-> c]
  /\ server = [handle |-> None, hash |-> None]
  /\ file = None
  /\ flow = [f \in Flows |-> NoFlow]
  /\ child = [p \in Children |-> NoChild]
  /\ edits = 0 /\ faults = 0

Busy(f) == flow[f].at # "idle"
Alive(p) == child[p].st \in {"starting", "up"}
Ends(f) == flow' = [flow EXCEPT ![f] = NoFlow]
Goes(f, at) == flow' = [flow EXCEPT ![f].at = at]
Fault == faults < MaxFaults /\ faults' = faults + 1

-----------------------------------------------------------------------------
(* reconcileOnce.                                                           *)

\* Each tick of the interval calls reconcileOnce, whatever runs already.
TimerFires(f) ==
  /\ ~Busy(f)
  /\ flow' = [flow EXCEPT ![f] = [NoFlow EXCEPT !.at = "settings"]]
  /\ UNCHANGED <<saved, server, file, child, edits, faults>>

\* killHandle takes the handle before it waits for the process to end.
TakesHandle(f, goal, c) ==
  /\ flow' = [flow EXCEPT ![f] = [at |-> "kill", goal |-> goal, config |-> c,
                                  victim |-> server.handle]]
  /\ server' = [server EXCEPT !.handle = None]

\* Mutant: an enabled server is started with the configuration it had.
ReadOwnHash(f) ==
  /\ flow[f].at = "settings"
  /\ IF saved.enabled
     THEN /\ flow' = [flow EXCEPT ![f].at = "token", ![f].config = server.hash]
          /\ UNCHANGED server
     ELSE IF server.handle # None
          THEN TakesHandle(f, "stop", saved.config)
          ELSE Ends(f) /\ UNCHANGED server
  /\ UNCHANGED <<saved, file, child, edits, faults>>

ReadSettings(f) ==
  /\ flow[f].at = "settings"
  /\ IF saved.enabled
     THEN /\ flow' = [flow EXCEPT ![f].at = "token", ![f].config = saved.config]
          /\ UNCHANGED server
     ELSE IF server.handle # None
          THEN TakesHandle(f, "stop", saved.config)
          ELSE Ends(f) /\ UNCHANGED server
  /\ UNCHANGED <<saved, file, child, edits, faults>>

\* With the token the configuration is rendered and compared.
Compare(f) ==
  /\ flow[f].at = "token"
  /\ \/ /\ server.handle = None
        /\ Goes(f, "clear")
        /\ UNCHANGED server
     \/ /\ server.handle # None
        /\ server.hash # flow[f].config
        /\ TakesHandle(f, "run", flow[f].config)
     \/ /\ server.handle # None
        /\ server.hash = flow[f].config
        /\ Ends(f)
        /\ UNCHANGED server
  /\ UNCHANGED <<saved, file, child, edits, faults>>

\* A process that ends is gone at once unless somebody listens to its exit.
Killed(c) == IF c.heard /\ c.st # "free" THEN [c EXCEPT !.st = "gone"] ELSE NoChild

\* handle.kill: SIGTERM, then SIGKILL, and wait for the exit.
KillVictim(f) ==
  /\ flow[f].at = "kill"
  /\ child' = [child EXCEPT ![flow[f].victim] = Killed(@)]
  /\ flow' = [flow EXCEPT ![f].at = "sweep", ![f].victim = None]
  /\ UNCHANGED <<saved, server, file, edits, faults>>

\* killZombies: pkill -9 frps, whoever started it.
KillAll == child' = [p \in Children |-> Killed(child[p])]

Sweep(f) ==
  /\ flow[f].at = "sweep"
  /\ KillAll
  /\ CASE flow[f].goal = "run" -> Goes(f, "clear")
       [] flow[f].goal = "apply" -> Goes(f, "binary")
       [] flow[f].goal = "stop" -> Ends(f)
  /\ UNCHANGED <<saved, server, file, edits, faults>>

\* Mutant: startChild trusts that nothing is left on the ports.
StartsWithoutClearing(f) ==
  /\ flow[f].at = "clear"
  /\ Goes(f, "binary")
  /\ UNCHANGED <<saved, server, file, child, edits, faults>>

Clear(f) ==
  /\ flow[f].at = "clear"
  /\ KillAll
  /\ Goes(f, "binary")
  /\ UNCHANGED <<saved, server, file, edits, faults>>

\* startChild writes the file after the binary is there, applyRevision before.
HaveBinary(f) ==
  /\ flow[f].at = "binary"
  /\ Goes(f, IF flow[f].goal = "apply" THEN "start" ELSE "file")
  /\ UNCHANGED <<saved, server, file, child, edits, faults>>

\* Mutant: a file that exists already is kept.
WriteFileOnce(f) ==
  /\ flow[f].at = "file"
  /\ file' = IF file = None THEN flow[f].config ELSE file
  /\ Goes(f, "start")
  /\ UNCHANGED <<saved, server, child, edits, faults>>

WriteFile(f) ==
  /\ flow[f].at = "file"
  /\ file' = flow[f].config
  /\ Goes(f, "start")
  /\ UNCHANGED <<saved, server, child, edits, faults>>

StartChild(f, p) ==
  /\ flow[f].at = "start"
  /\ child[p].st = "free"
  /\ child' = [child EXCEPT ![p] = [st |-> "starting", config |-> None, heard |-> TRUE]]
  /\ server' = [handle |-> p, hash |-> flow[f].config]
  /\ Ends(f)
  /\ UNCHANGED <<saved, file, edits, faults>>

\* A call of the database, the download or the disk throws: the flow ends.
FlowFails(f) ==
  /\ flow[f].at \in {"settings", "token", "binary", "file", "apply"}
  /\ Fault
  /\ Ends(f)
  /\ UNCHANGED <<saved, server, file, child, edits>>

-----------------------------------------------------------------------------
(* Settings: POST and PATCH of /api/fleet/server save, and apply the        *)
(* revision when the hub is configured to; so does a rollback.              *)

\* One administrator at a time.
NoRequest == \A f \in Flows : flow[f].goal # "apply"

Apply(f, c) == flow' = [flow EXCEPT ![f] = [at |-> "apply", goal |-> "apply",
                                            config |-> c, victim |-> None]]

SaveSettings(f, s) ==
  /\ edits < MaxEdits
  /\ NoRequest
  /\ s # saved
  /\ ~Busy(f)
  /\ saved' = s
  /\ edits' = edits + 1
  /\ Apply(f, s.config) \/ UNCHANGED flow
  /\ UNCHANGED <<server, file, child, faults>>

\* POST /api/fleet/revisions/[id]/apply takes any revision.
ApplyEarlier(f, c) ==
  /\ edits < MaxEdits
  /\ NoRequest
  /\ ~Busy(f)
  /\ edits' = edits + 1
  /\ Apply(f, c)
  /\ UNCHANGED <<saved, server, file, child, faults>>

WriteRevision(f) ==
  /\ flow[f].at = "apply"
  /\ file' = flow[f].config
  /\ Goes(f, "staged")
  /\ UNCHANGED <<saved, server, child, edits, faults>>

\* Running: restart with the file just written.  Stopped: stage only.
RestartOrStage(f) ==
  /\ flow[f].at = "staged"
  /\ IF server.handle # None
     THEN TakesHandle(f, "apply", flow[f].config)
     ELSE /\ server' = [server EXCEPT !.hash = flow[f].config]
          /\ Ends(f)
  /\ UNCHANGED <<saved, file, child, edits, faults>>

-----------------------------------------------------------------------------
(* The processes.                                                           *)

\* frps reads its file and binds its port, or exits when another one has it.
Listens(p) ==
  /\ child[p].st = "starting"
  /\ child' = [child EXCEPT ![p] =
       IF \E q \in Children : child[q].st = "up" THEN Killed(@)
       ELSE [@ EXCEPT !.st = "up", !.config = file]]
  /\ UNCHANGED <<saved, server, file, flow, edits, faults>>

Dies(p) ==
  /\ child[p].st = "up"
  /\ Fault
  /\ child' = [child EXCEPT ![p] = Killed(@)]
  /\ UNCHANGED <<saved, server, file, flow, edits>>

\* The exit of a child that is not the current one any more.
ExitIgnored(p) ==
  /\ child[p].st = "gone"
  /\ server.handle # p
  /\ child' = [child EXCEPT ![p] = NoChild]
  /\ UNCHANGED <<saved, server, file, flow, edits, faults>>

\* The current child ended: forget it and reconcile.
ExitHandled(p, f) ==
  /\ child[p].st = "gone"
  /\ server.handle = p
  /\ ~Busy(f)
  /\ child' = [child EXCEPT ![p] = NoChild]
  /\ server' = [server EXCEPT !.handle = None]
  /\ flow' = [flow EXCEPT ![f] = [NoFlow EXCEPT !.at = "settings"]]
  /\ UNCHANGED <<saved, file, edits, faults>>

\* The hub dies and is started again; its children live on unheard.
HubCrashes ==
  /\ Fault
  /\ server' = [handle |-> None, hash |-> None]
  /\ flow' = [f \in Flows |-> NoFlow]
  /\ child' = [p \in Children |-> IF Alive(p) THEN [child[p] EXCEPT !.heard = FALSE]
                                  ELSE NoChild]
  /\ UNCHANGED <<saved, file, edits>>

-----------------------------------------------------------------------------
FlowStep(f) ==
  \/ ReadSettings(f) \/ Compare(f) \/ KillVictim(f) \/ Sweep(f) \/ Clear(f)
  \/ HaveBinary(f) \/ WriteFile(f) \/ WriteRevision(f) \/ RestartOrStage(f)
  \/ \E p \in Children : StartChild(f, p)

ChildStep(p) == Listens(p) \/ ExitIgnored(p) \/ \E f \in Flows : ExitHandled(p, f)

Next ==
  \/ \E f \in Flows : FlowStep(f) \/ TimerFires(f) \/ FlowFails(f)
  \/ \E f \in Flows, s \in [enabled : BOOLEAN, config : Configs] : SaveSettings(f, s)
  \/ \E f \in Flows, c \in Configs : ApplyEarlier(f, c)
  \/ \E p \in Children : ChildStep(p) \/ Dies(p)
  \/ HubCrashes

Spec == Init /\ [][Next]_vars

\* Calls are answered, processes start or fail, and the interval goes on.
Fairness ==
  /\ \A f \in Flows : WF_vars(FlowStep(f))
  /\ \A p \in Children : WF_vars(ChildStep(p))
  /\ WF_vars(\E f \in Flows : TimerFires(f))

FairSpec == Spec /\ Fairness

\* A revision is applied while no reconcile runs, and a configuration is read
\* by the child it was written for before another flow writes the file.
\* Without this UnchangedIsServed and with it Converges fail.
FileInOrder ==
  \A f \in Flows :
    /\ flow'[f].goal = "apply" => \A g \in Flows \ {f} : flow'[g].at = "idle"
    /\ flow'[f].at = "start" /\ flow[f].at = "file" =>
         /\ \A g \in Flows \ {f} : flow[g].at # "start"
         /\ \A p \in Children : child[p].st # "starting"

InOrderSpec == Init /\ [][Next /\ FileInOrder]_vars

-----------------------------------------------------------------------------
\* When nothing is under way and reconcileOnce would find nothing to do, the
\* child it trusts is up, alone, and runs the saved configuration: however
\* flows overlapped, no mix of one flow's file with another's hash is taken
\* for the settings.
UnchangedIsServed ==
  /\ \A f \in Flows : ~Busy(f)
  /\ \A p \in Children : child[p].st \in {"free", "up"}
  /\ server.handle # None
  /\ server.hash = saved.config
  => {p \in Children : Alive(p)} = {server.handle}
     /\ child[server.handle].config = saved.config

Serving ==
  /\ server.handle # None
  /\ {p \in Children : Alive(p)} = {server.handle}
  /\ child[server.handle] = [st |-> "up", config |-> saved.config, heard |-> TRUE]

\* Overlapping flows kill each other's children, for as long as they overlap.
\* Once they do not, an enabled server comes to run its settings for good:
\* no crash, failed call or overlap leaves something that lasts.
Converges ==
  <>[](Cardinality({f \in Flows : Busy(f)}) <= 1) => <>[](saved.enabled => Serving)
=============================================================================
