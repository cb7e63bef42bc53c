---------------------------- MODULE FleetFrpsProofs ----------------------------
(***************************************************************************)
(* FleetFrps is type correct, and "unchanged" means served as long as the  *)
(* file is written and read in order: for any number of configurations,    *)
(* overlapping flows, children, requests and faults.                       *)
(***************************************************************************)
EXTENDS FleetFrps, TLAPS

FlowRecord ==
  {NoFlow} \cup [at : Waits, goal : Goals, config : Configs \cup {None},
                 victim : Children \cup {None}]
ChildRecord == [st : States, config : Configs \cup {None}, heard : BOOLEAN]
ServerRecord == [handle : Children \cup {None}, hash : Configs \cup {None}]

\* Which goal a flow has where it waits.
GoalsFit ==
  \A f \in Flows :
    /\ flow[f].at \in {"settings", "token", "clear", "file"} => flow[f].goal = "run"
    /\ flow[f].at \in {"apply", "staged"} => flow[f].goal = "apply"
    /\ flow[f].at = "binary" => flow[f].goal # "stop"

\* A revision is applied alone.
ApplyAlone ==
  \A f, g \in Flows : f # g /\ flow[f].goal = "apply" => flow[g].at = "idle"

\* The file of a flow that is about to start a child is the one it wrote.
FileWritten ==
  \A f \in Flows :
    flow[f].at = "start" \/ (flow[f].goal = "apply" /\ flow[f].at # "apply") =>
      file = flow[f].config

\* Two children never have the port.
OnePort == \A p, q \in Children : child[p].st = "up" /\ child[q].st = "up" => p = q

\* The child that is trusted was started by this hub and not found dead.
HandleHeard ==
  server.handle # None => child[server.handle].st # "free" /\ child[server.handle].heard

\* The trusted child runs, or will read, the configuration of the hash, but for
\* the moment between the write of a revision and the restart.
HashTrue ==
  server.handle # None /\ (\A f \in Flows : flow[f].at # "staged") =>
    /\ child[server.handle].st = "starting" => file = server.hash
    /\ child[server.handle].st = "up" => child[server.handle].config = server.hash

FInv ==
  /\ TypeOK /\ GoalsFit /\ ApplyAlone /\ FileWritten /\ OnePort /\ HandleHeard /\ HashTrue

-----------------------------------------------------------------------------
(* What a step makes of one flow, when it leaves the others alone.          *)

FlowTo(f, at, goal, config) ==
  /\ flow' \in [Flows -> FlowRecord]
  /\ \A g \in Flows \ {f} : flow'[g] = flow[g]
  /\ flow'[f].at = at /\ flow'[f].goal = goal /\ flow'[f].config = config

LEMMA FlowUpdate ==
  ASSUME flow \in [Flows -> FlowRecord], NEW f \in Flows, NEW r \in FlowRecord,
         flow' = [flow EXCEPT ![f] = r]
  PROVE  FlowTo(f, r.at, r.goal, r.config)
BY DEF FlowTo

LEMMA FlowEnds ==
  ASSUME flow \in [Flows -> FlowRecord], NEW f \in Flows, Ends(f)
  PROVE  FlowTo(f, "idle", "run", None)
<1>1. NoFlow \in FlowRecord /\ NoFlow.at = "idle" /\ NoFlow.goal = "run"
      /\ NoFlow.config = None
  BY DEF FlowRecord, NoFlow
<1> QED BY <1>1 DEF FlowTo, Ends

LEMMA FlowGoes ==
  ASSUME flow \in [Flows -> FlowRecord], NEW f \in Flows, flow[f].at # "idle",
         NEW at \in Waits, Goes(f, at)
  PROVE  FlowTo(f, at, flow[f].goal, flow[f].config)
<1> DEFINE r == [flow[f] EXCEPT !.at = at]
<1>1. flow[f] \in [at : Waits, goal : Goals, config : Configs \cup {None},
                   victim : Children \cup {None}]
  BY DEF FlowRecord, NoFlow
<1>2. r \in FlowRecord /\ r.at = at /\ r.goal = flow[f].goal /\ r.config = flow[f].config
  BY <1>1 DEF FlowRecord
<1>3. flow' = [flow EXCEPT ![f] = r]
  BY DEF Goes
<1> HIDE DEF r
<1>4. FlowTo(f, r.at, r.goal, r.config)
  BY <1>2, <1>3, FlowUpdate
<1> QED BY <1>2, <1>4

LEMMA FlowReconciles ==
  ASSUME flow \in [Flows -> FlowRecord], NEW f \in Flows,
         flow' = [flow EXCEPT ![f] = [NoFlow EXCEPT !.at = "settings"]]
  PROVE  FlowTo(f, "settings", "run", None)
<1> DEFINE r == [NoFlow EXCEPT !.at = "settings"]
<1>1. r \in FlowRecord /\ r.at = "settings" /\ r.goal = "run" /\ r.config = None
  BY DEF FlowRecord, NoFlow, Waits, Goals
<1>2. flow' = [flow EXCEPT ![f] = r]
  OBVIOUS
<1> HIDE DEF r
<1>3. FlowTo(f, r.at, r.goal, r.config)
  BY <1>1, <1>2, FlowUpdate
<1> QED BY <1>1, <1>3

LEMMA FlowReads ==
  ASSUME flow \in [Flows -> FlowRecord], NEW f \in Flows, flow[f].at = "settings",
         NEW c \in Configs, flow' = [flow EXCEPT ![f].at = "token", ![f].config = c]
  PROVE  FlowTo(f, "token", flow[f].goal, c)
<1> DEFINE r == [flow[f] EXCEPT !.at = "token", !.config = c]
<1>1. flow[f] \in [at : Waits, goal : Goals, config : Configs \cup {None},
                   victim : Children \cup {None}]
  BY DEF FlowRecord, NoFlow
<1>2. r \in FlowRecord /\ r.at = "token" /\ r.goal = flow[f].goal /\ r.config = c
  BY <1>1 DEF FlowRecord, Waits
<1>3. flow' = [flow EXCEPT ![f] = r]
  OBVIOUS
<1> HIDE DEF r
<1>4. FlowTo(f, r.at, r.goal, r.config)
  BY <1>2, <1>3, FlowUpdate
<1> QED BY <1>2, <1>4

LEMMA FlowTakes ==
  ASSUME flow \in [Flows -> FlowRecord], server \in ServerRecord, NEW f \in Flows,
         NEW goal \in Goals, NEW c \in Configs, TakesHandle(f, goal, c)
  PROVE  /\ FlowTo(f, "kill", goal, c)
         /\ server' \in ServerRecord /\ server'.handle = None
<1> DEFINE r == [at |-> "kill", goal |-> goal, config |-> c, victim |-> server.handle]
<1>1. r \in FlowRecord /\ r.at = "kill" /\ r.goal = goal /\ r.config = c
  BY DEF FlowRecord, Waits, ServerRecord
<1>2. flow' = [flow EXCEPT ![f] = r]
  BY DEF TakesHandle
<1> HIDE DEF r
<1>3. FlowTo(f, "kill", goal, c)
  BY <1>1, <1>2, FlowUpdate
<1>4. server' \in ServerRecord /\ server'.handle = None
  BY DEF TakesHandle, ServerRecord
<1> QED BY <1>3, <1>4

LEMMA FlowKills ==
  ASSUME flow \in [Flows -> FlowRecord], NEW f \in Flows, flow[f].at = "kill",
         flow' = [flow EXCEPT ![f].at = "sweep", ![f].victim = None]
  PROVE  FlowTo(f, "sweep", flow[f].goal, flow[f].config)
<1> DEFINE r == [flow[f] EXCEPT !.at = "sweep", !.victim = None]
<1>1. flow[f] \in [at : Waits, goal : Goals, config : Configs \cup {None},
                   victim : Children \cup {None}]
  BY DEF FlowRecord, NoFlow
<1>2. r \in FlowRecord /\ r.at = "sweep" /\ r.goal = flow[f].goal /\ r.config = flow[f].config
  BY <1>1 DEF FlowRecord, Waits
<1>3. flow' = [flow EXCEPT ![f] = r]
  OBVIOUS
<1> HIDE DEF r
<1>4. FlowTo(f, r.at, r.goal, r.config)
  BY <1>2, <1>3, FlowUpdate
<1> QED BY <1>2, <1>4

LEMMA FlowApplies ==
  ASSUME flow \in [Flows -> FlowRecord], NEW f \in Flows, NEW c \in Configs, Apply(f, c)
  PROVE  FlowTo(f, "apply", "apply", c)
<1> DEFINE r == [at |-> "apply", goal |-> "apply", config |-> c, victim |-> None]
<1>1. r \in FlowRecord /\ r.at = "apply" /\ r.goal = "apply" /\ r.config = c
  BY DEF FlowRecord, Waits, Goals
<1>2. flow' = [flow EXCEPT ![f] = r]
  BY DEF Apply
<1> HIDE DEF r
<1> QED BY <1>1, <1>2, FlowUpdate

-----------------------------------------------------------------------------
(* What the end of a process does to the children.                          *)

\* Some children end, the others stay; the trusted one is not forgotten.
SomeEnd ==
  /\ child' \in [Children -> ChildRecord]
  /\ \A p \in Children :
       \/ child'[p] = child[p]
       \/ /\ child'[p].st \in {"free", "gone"}
          /\ server'.handle = p /\ child[p].st # "free" /\ child[p].heard =>
               child'[p].st # "free" /\ child'[p].heard

LEMMA KilledTyped ==
  ASSUME NEW c \in ChildRecord
  PROVE  /\ Killed(c) \in ChildRecord /\ Killed(c).st \in {"free", "gone"}
         /\ c.st # "free" /\ c.heard => Killed(c).st # "free" /\ Killed(c).heard
<1>1. NoChild \in ChildRecord /\ NoChild.st = "free"
  BY DEF NoChild, ChildRecord, States
<1>2. CASE c.heard /\ c.st # "free"
  <2> DEFINE r == [c EXCEPT !.st = "gone"]
  <2>1. r \in ChildRecord /\ r.st = "gone" /\ r.heard = c.heard
    BY DEF ChildRecord, States
  <2>2. Killed(c) = r
    BY <1>2 DEF Killed
  <2> HIDE DEF r
  <2> QED BY <1>2, <2>1, <2>2
<1>3. CASE ~(c.heard /\ c.st # "free")
  BY <1>1, <1>3 DEF Killed
<1> QED BY <1>2, <1>3

LEMMA KillAllEnds ==
  ASSUME child \in [Children -> ChildRecord], KillAll
  PROVE  SomeEnd
<1>1. child' = [p \in Children |-> Killed(child[p])]
  BY DEF KillAll
<1>2. \A p \in Children :
        /\ Killed(child[p]) \in ChildRecord /\ Killed(child[p]).st \in {"free", "gone"}
        /\ child[p].st # "free" /\ child[p].heard =>
             Killed(child[p]).st # "free" /\ Killed(child[p]).heard
  BY KilledTyped
<1> QED BY <1>1, <1>2 DEF SomeEnd

LEMMA KillEnds ==
  ASSUME child \in [Children -> ChildRecord], NEW v,
         child' = [child EXCEPT ![v] = Killed(@)]
  PROVE  SomeEnd
<1>1. CASE v \in Children
  BY <1>1, KilledTyped DEF SomeEnd
<1>2. CASE v \notin Children
  <2>1. \A p \in Children : child'[p] = child[p]
    BY <1>2
  <2>2. child' = child
    BY <1>2
  <2> QED BY <2>1, <2>2 DEF SomeEnd
<1> QED BY <1>1, <1>2

-----------------------------------------------------------------------------
(* Each step keeps the types, and in order also the invariant.              *)

Keeps == TypeOK' /\ (FInv /\ FileInOrder => FInv')

Counts == edits' \in 0..MaxEdits /\ faults' \in 0..MaxFaults

LEMMA Typed ==
  ASSUME TypeOK
  PROVE  /\ saved \in [enabled : BOOLEAN, config : Configs] /\ server \in ServerRecord
         /\ file \in Configs \cup {None} /\ flow \in [Flows -> FlowRecord]
         /\ \A f \in Flows : flow[f].at \notin {"idle", "settings"} => flow[f].config \in Configs
         /\ child \in [Children -> ChildRecord]
         /\ saved.config \in Configs
         /\ \A f \in Flows : flow[f].goal \in Goals
BY DEF TypeOK, ServerRecord, FlowRecord, ChildRecord, NoFlow, Goals

LEMMA FaultCounted ==
  ASSUME TypeOK, Fault, edits' = edits
  PROVE  Counts
BY FrpsBounds DEF TypeOK, Fault, Counts

LEMMA StaysCounted ==
  ASSUME TypeOK, UNCHANGED <<edits, faults>>
  PROVE  Counts
BY DEF TypeOK, Counts

LEMMA FlowTyped ==
  ASSUME TypeOK, NEW f \in Flows, NEW at, NEW goal, NEW config,
         FlowTo(f, at, goal, config), at \notin {"idle", "settings"} => config \in Configs,
         saved' \in [enabled : BOOLEAN, config : Configs], server' \in ServerRecord,
         file' \in Configs \cup {None}, child' \in [Children -> ChildRecord], Counts
  PROVE  TypeOK'
<1>1. \A g \in Flows : flow'[g].at \notin {"idle", "settings"} => flow'[g].config \in Configs
  BY DEF TypeOK, FlowTo
<1> QED BY <1>1 DEF TypeOK, FlowTo, FlowRecord, ChildRecord, ServerRecord, Counts

\* A step that moves one flow, writes no file and starts no child; it may end
\* children and may give the handle up.
LEMMA QuietKeeps ==
  ASSUME TypeOK, NEW f \in Flows, NEW at, NEW goal, NEW config,
         FlowTo(f, at, goal, config), at \notin {"idle", "settings"} => config \in Configs,
         saved' \in [enabled : BOOLEAN, config : Configs], Counts, file' = file,
         child' = child \/ SomeEnd,
         \/ server' = server /\ flow[f].at # "staged"
         \/ server' \in ServerRecord /\ server'.handle = None,
         at # "staged",
         FInv /\ at \in {"settings", "token", "clear", "file"} => goal = "run",
         at = "apply" => goal = "apply", FInv /\ at = "binary" => goal # "stop",
         FInv /\ (at = "start" \/ (goal = "apply" /\ at # "apply")) => file = config
  PROVE  Keeps
<1>1. TypeOK'
  <2>1. child' \in [Children -> ChildRecord] /\ server' \in ServerRecord
        /\ file' \in Configs \cup {None}
    BY Typed DEF SomeEnd
  <2> QED BY <2>1, FlowTyped
<1>2. ASSUME FInv, FileInOrder PROVE FInv'
  <2>1. \A p \in Children :
          \/ child'[p] = child[p]
          \/ /\ child'[p].st \in {"free", "gone"}
             /\ server'.handle = p /\ child[p].st # "free" /\ child[p].heard =>
                  child'[p].st # "free" /\ child'[p].heard
    BY DEF SomeEnd
  <2>2. server \in ServerRecord /\ server.handle \in Children \cup {None}
    BY Typed DEF ServerRecord
  <2>3. GoalsFit'
    BY <1>2 DEF FInv, GoalsFit, FlowTo
  <2>4. ApplyAlone'
    BY <1>2 DEF FileInOrder, ApplyAlone
  <2>5. FileWritten'
    BY <1>2 DEF FInv, FileWritten, FlowTo
  <2>6. OnePort'
    BY <1>2, <2>1 DEF FInv, OnePort
  <2>7. HandleHeard'
    BY <1>2, <2>1, <2>2 DEF FInv, HandleHeard
  <2>8. HashTrue'
    <3>1. ASSUME server' = server, \A g \in Flows : flow'[g].at # "staged",
                 flow[f].at # "staged"
          PROVE  \A g \in Flows : flow[g].at # "staged"
      BY <3>1 DEF FlowTo
    <3> QED BY <3>1, <1>2, <2>1, <2>2 DEF FInv, HashTrue
  <2> QED BY <1>1, <2>3, <2>4, <2>5, <2>6, <2>7, <2>8 DEF FInv
<1> QED BY <1>1, <1>2 DEF Keeps

LEMMA ReadSettingsKeeps ==
  ASSUME TypeOK, NEW f \in Flows, ReadSettings(f)
  PROVE  Keeps
<1>1. /\ flow[f].at = "settings" /\ file' = file /\ child' = child /\ Counts
      /\ saved' \in [enabled : BOOLEAN, config : Configs]
  BY StaysCounted, Typed DEF ReadSettings
<1>2. CASE saved.enabled
  <2>1. FlowTo(f, "token", flow[f].goal, saved.config) /\ server' = server
    BY <1>1, <1>2, Typed, FlowReads DEF ReadSettings
  <2>2. FInv => flow[f].goal = "run"
    BY <1>1 DEF FInv, GoalsFit
  <2>3. FInv => flow[f].goal # "apply"
    BY <2>2
  <2> QED BY <1>1, <2>1, <2>2, <2>3, Typed, QuietKeeps
<1>3. CASE ~saved.enabled /\ server.handle # None
  <2>1. FlowTo(f, "kill", "stop", saved.config) /\ server' \in ServerRecord
        /\ server'.handle = None
    BY <1>3, Typed, FlowTakes DEF ReadSettings, Goals
  <2> QED BY <1>1, <2>1, Typed, QuietKeeps
<1>4. CASE ~saved.enabled /\ server.handle = None
  <2>1. FlowTo(f, "idle", "run", None) /\ server' = server
    BY <1>4, Typed, FlowEnds DEF ReadSettings
  <2> QED BY <1>1, <2>1, Typed, QuietKeeps
<1> QED BY <1>2, <1>3, <1>4

LEMMA CompareKeeps ==
  ASSUME TypeOK, NEW f \in Flows, Compare(f)
  PROVE  Keeps
<1>1. /\ flow[f].at = "token" /\ file' = file /\ child' = child /\ Counts
      /\ saved' \in [enabled : BOOLEAN, config : Configs] /\ flow[f].config \in Configs
  BY StaysCounted, Typed DEF Compare
<1>2. FInv => flow[f].goal = "run"
  BY <1>1 DEF FInv, GoalsFit
<1>3. FInv => flow[f].goal # "apply"
  BY <1>2
<1>4. CASE Goes(f, "clear") /\ server' = server
  <2>1. FlowTo(f, "clear", flow[f].goal, flow[f].config)
    BY <1>1, <1>4, Typed, FlowGoes DEF Waits
  <2> QED BY <1>1, <1>2, <1>3, <1>4, <2>1, QuietKeeps
<1>5. CASE TakesHandle(f, "run", flow[f].config)
  <2>1. FlowTo(f, "kill", "run", flow[f].config) /\ server' \in ServerRecord
        /\ server'.handle = None
    BY <1>1, <1>5, Typed, FlowTakes DEF Goals
  <2> QED BY <1>1, <2>1, QuietKeeps
<1>6. CASE Ends(f) /\ server' = server
  <2>1. FlowTo(f, "idle", "run", None)
    BY <1>6, Typed, FlowEnds
  <2> QED BY <1>1, <1>6, <2>1, QuietKeeps
<1> QED BY <1>4, <1>5, <1>6 DEF Compare

LEMMA KillVictimKeeps ==
  ASSUME TypeOK, NEW f \in Flows, KillVictim(f)
  PROVE  Keeps
<1>1. /\ flow[f].at = "kill" /\ file' = file /\ SomeEnd /\ Counts /\ server' = server
      /\ saved' \in [enabled : BOOLEAN, config : Configs] /\ flow[f].config \in Configs
  BY StaysCounted, Typed, KillEnds DEF KillVictim
<1>2. FlowTo(f, "sweep", flow[f].goal, flow[f].config)
  BY <1>1, Typed, FlowKills DEF KillVictim
<1>3. FInv /\ flow[f].goal = "apply" => file = flow[f].config
  BY <1>1 DEF FInv, FileWritten
<1> QED BY <1>1, <1>2, <1>3, QuietKeeps

LEMMA SweepKeeps ==
  ASSUME TypeOK, NEW f \in Flows, Sweep(f)
  PROVE  Keeps
<1>1. /\ flow[f].at = "sweep" /\ file' = file /\ SomeEnd /\ Counts /\ server' = server
      /\ saved' \in [enabled : BOOLEAN, config : Configs] /\ flow[f].config \in Configs
  BY StaysCounted, Typed, KillAllEnds DEF Sweep
<1>2. CASE flow[f].goal = "run" /\ Goes(f, "clear")
  <2>1. FlowTo(f, "clear", "run", flow[f].config)
    BY <1>1, <1>2, Typed, FlowGoes DEF Waits
  <2> QED BY <1>1, <2>1, QuietKeeps
<1>3. CASE flow[f].goal = "apply" /\ Goes(f, "binary")
  <2>1. FlowTo(f, "binary", "apply", flow[f].config)
    BY <1>1, <1>3, Typed, FlowGoes DEF Waits
  <2>2. FInv => file = flow[f].config
    BY <1>1, <1>3 DEF FInv, FileWritten
  <2> QED BY <1>1, <2>1, <2>2, QuietKeeps
<1>4. CASE Ends(f)
  <2>1. FlowTo(f, "idle", "run", None)
    BY <1>4, Typed, FlowEnds
  <2> QED BY <1>1, <2>1, QuietKeeps
<1>5. flow[f].goal \in {"run", "stop", "apply"}
  BY Typed DEF Goals
<1> QED BY <1>2, <1>3, <1>4, <1>5 DEF Sweep

LEMMA ClearKeeps ==
  ASSUME TypeOK, NEW f \in Flows, Clear(f)
  PROVE  Keeps
<1>1. /\ flow[f].at = "clear" /\ file' = file /\ SomeEnd /\ Counts /\ server' = server
      /\ saved' \in [enabled : BOOLEAN, config : Configs] /\ flow[f].config \in Configs
  BY StaysCounted, Typed, KillAllEnds DEF Clear
<1>2. FlowTo(f, "binary", flow[f].goal, flow[f].config)
  BY <1>1, Typed, FlowGoes DEF Clear, Waits
<1>3. FInv => flow[f].goal = "run"
  BY <1>1 DEF FInv, GoalsFit
<1>4. FInv => flow[f].goal # "apply" /\ flow[f].goal # "stop"
  BY <1>3
<1> QED BY <1>1, <1>2, <1>4, QuietKeeps

LEMMA HaveBinaryKeeps ==
  ASSUME TypeOK, NEW f \in Flows, HaveBinary(f)
  PROVE  Keeps
<1>1. /\ flow[f].at = "binary" /\ file' = file /\ child' = child /\ Counts
      /\ server' = server
      /\ saved' \in [enabled : BOOLEAN, config : Configs] /\ flow[f].config \in Configs
  BY StaysCounted, Typed DEF HaveBinary
<1>2. FInv /\ flow[f].goal = "apply" => file = flow[f].config
  BY <1>1 DEF FInv, FileWritten
<1>3. CASE flow[f].goal = "apply"
  <2>1. FlowTo(f, "start", "apply", flow[f].config)
    BY <1>1, <1>3, Typed, FlowGoes DEF HaveBinary, Waits
  <2> QED BY <1>1, <1>2, <1>3, <2>1, QuietKeeps
<1>4. CASE flow[f].goal # "apply"
  <2>1. FlowTo(f, "file", flow[f].goal, flow[f].config)
    BY <1>1, <1>4, Typed, FlowGoes DEF HaveBinary, Waits
  <2>2. FInv => flow[f].goal = "run"
    BY <1>1, <1>4, Typed DEF FInv, GoalsFit, Goals
  <2> QED BY <1>1, <1>4, <2>1, <2>2, QuietKeeps
<1> QED BY <1>3, <1>4

LEMMA TimerFiresKeeps ==
  ASSUME TypeOK, NEW f \in Flows, TimerFires(f)
  PROVE  Keeps
<1>1. /\ flow[f].at = "idle" /\ file' = file /\ child' = child /\ Counts
      /\ server' = server /\ saved' \in [enabled : BOOLEAN, config : Configs]
  BY StaysCounted, Typed DEF TimerFires, Busy
<1>2. FlowTo(f, "settings", "run", None)
  BY Typed, FlowReconciles DEF TimerFires
<1> QED BY <1>1, <1>2, QuietKeeps

LEMMA FlowFailsKeeps ==
  ASSUME TypeOK, NEW f \in Flows, FlowFails(f)
  PROVE  Keeps
<1>1. /\ flow[f].at # "staged" /\ file' = file /\ child' = child /\ Counts
      /\ server' = server /\ saved' \in [enabled : BOOLEAN, config : Configs]
  BY FaultCounted, Typed DEF FlowFails
<1>2. FlowTo(f, "idle", "run", None)
  BY Typed, FlowEnds DEF FlowFails
<1> QED BY <1>1, <1>2, QuietKeeps

LEMMA EditCounted ==
  ASSUME TypeOK, edits < MaxEdits, edits' = edits + 1, faults' = faults
  PROVE  Counts
BY FrpsBounds DEF TypeOK, Counts

LEMMA SaveSettingsKeeps ==
  ASSUME TypeOK, NEW f \in Flows, NEW s \in [enabled : BOOLEAN, config : Configs],
         SaveSettings(f, s)
  PROVE  Keeps
<1>1. /\ flow[f].at = "idle" /\ file' = file /\ child' = child /\ Counts
      /\ server' = server /\ saved' \in [enabled : BOOLEAN, config : Configs]
      /\ s.config \in Configs
  BY EditCounted DEF SaveSettings, Busy
<1>2. CASE Apply(f, s.config)
  <2>1. FlowTo(f, "apply", "apply", s.config)
    BY <1>1, <1>2, Typed, FlowApplies
  <2> QED BY <1>1, <2>1, QuietKeeps
<1>3. CASE flow' = flow
  <2>1. flow[f] = NoFlow
    BY <1>1, Typed DEF FlowRecord, Waits
  <2>2. FlowTo(f, "idle", "run", None)
    BY <1>3, <2>1, Typed DEF FlowTo, NoFlow
  <2> QED BY <1>1, <2>2, QuietKeeps
<1> QED BY <1>2, <1>3 DEF SaveSettings

LEMMA ApplyEarlierKeeps ==
  ASSUME TypeOK, NEW f \in Flows, NEW c \in Configs, ApplyEarlier(f, c)
  PROVE  Keeps
<1>1. /\ flow[f].at = "idle" /\ file' = file /\ child' = child /\ Counts
      /\ server' = server /\ saved' \in [enabled : BOOLEAN, config : Configs]
  BY EditCounted, Typed DEF ApplyEarlier, Busy
<1>2. FlowTo(f, "apply", "apply", c)
  BY Typed, FlowApplies DEF ApplyEarlier
<1> QED BY <1>1, <1>2, QuietKeeps

-----------------------------------------------------------------------------
(* The steps that write the file, set the hash or start a child.            *)

LEMMA WriteFileKeeps ==
  ASSUME TypeOK, NEW f \in Flows, WriteFile(f)
  PROVE  Keeps
<1>1. /\ flow[f].at = "file" /\ file' = flow[f].config /\ child' = child /\ Counts
      /\ server' = server /\ saved' \in [enabled : BOOLEAN, config : Configs]
      /\ flow[f].config \in Configs
  BY StaysCounted, Typed DEF WriteFile
<1>2. FlowTo(f, "start", flow[f].goal, flow[f].config)
  BY <1>1, Typed, FlowGoes DEF WriteFile, Waits
<1>3. TypeOK'
  BY <1>1, <1>2, Typed, FlowTyped
<1>4. ASSUME FInv, FileInOrder PROVE FInv'
  <2>1. flow[f].goal = "run"
    BY <1>1, <1>4 DEF FInv, GoalsFit
  <2>2. /\ \A g \in Flows \ {f} : flow[g].at # "start"
        /\ \A p \in Children : child[p].st # "starting"
    BY <1>1, <1>2, <1>4 DEF FileInOrder, FlowTo
  <2>3. \A g \in Flows \ {f} : flow[g].goal # "apply"
    BY <1>1, <1>4 DEF FInv, ApplyAlone
  <2>4. GoalsFit'
    BY <1>2, <1>4, <2>1 DEF FInv, GoalsFit, FlowTo
  <2>5. ApplyAlone'
    BY <1>4 DEF FileInOrder, ApplyAlone
  <2>6. FileWritten'
    BY <1>1, <1>2, <2>2, <2>3 DEF FileWritten, FlowTo
  <2>7. OnePort' /\ HandleHeard'
    BY <1>1, <1>4 DEF FInv, OnePort, HandleHeard
  <2>8. HashTrue'
    <3>1. ASSUME \A g \in Flows : flow'[g].at # "staged"
          PROVE  \A g \in Flows : flow[g].at # "staged"
      BY <1>1, <1>2, <3>1 DEF FlowTo
    <3>2. server.handle # None => server.handle \in Children
      BY Typed DEF ServerRecord
    <3> QED BY <1>1, <1>4, <2>2, <3>1, <3>2 DEF FInv, HashTrue
  <2> QED BY <1>3, <2>4, <2>5, <2>6, <2>7, <2>8 DEF FInv
<1> QED BY <1>3, <1>4 DEF Keeps

LEMMA WriteRevisionKeeps ==
  ASSUME TypeOK, NEW f \in Flows, WriteRevision(f)
  PROVE  Keeps
<1>1. /\ flow[f].at = "apply" /\ file' = flow[f].config /\ child' = child /\ Counts
      /\ server' = server /\ saved' \in [enabled : BOOLEAN, config : Configs]
      /\ flow[f].config \in Configs
  BY StaysCounted, Typed DEF WriteRevision
<1>2. FlowTo(f, "staged", flow[f].goal, flow[f].config)
  BY <1>1, Typed, FlowGoes DEF WriteRevision, Waits
<1>3. TypeOK'
  BY <1>1, <1>2, Typed, FlowTyped
<1>4. ASSUME FInv, FileInOrder PROVE FInv'
  <2>1. flow[f].goal = "apply"
    BY <1>1, <1>4 DEF FInv, GoalsFit
  <2>2. \A g \in Flows \ {f} : flow[g].at = "idle" /\ flow[g].goal = "run"
    <3>1. \A g \in Flows \ {f} : flow[g].at = "idle"
      BY <1>4, <2>1 DEF FInv, ApplyAlone
    <3> QED BY <3>1, Typed DEF FlowRecord, Waits, NoFlow
  <2>3. GoalsFit'
    BY <1>2, <1>4, <2>1 DEF FInv, GoalsFit, FlowTo
  <2>4. ApplyAlone'
    BY <1>4 DEF FileInOrder, ApplyAlone
  <2>5. FileWritten'
    BY <1>1, <1>2, <2>2 DEF FileWritten, FlowTo
  <2>6. OnePort' /\ HandleHeard'
    BY <1>1, <1>4 DEF FInv, OnePort, HandleHeard
  <2>7. HashTrue'
    BY <1>2 DEF HashTrue, FlowTo
  <2> QED BY <1>3, <2>3, <2>4, <2>5, <2>6, <2>7 DEF FInv
<1> QED BY <1>3, <1>4 DEF Keeps

LEMMA RestartOrStageKeeps ==
  ASSUME TypeOK, NEW f \in Flows, RestartOrStage(f)
  PROVE  Keeps
<1>1. /\ flow[f].at = "staged" /\ file' = file /\ child' = child /\ Counts
      /\ saved' \in [enabled : BOOLEAN, config : Configs] /\ flow[f].config \in Configs
  BY StaysCounted, Typed DEF RestartOrStage
<1>2. CASE TakesHandle(f, "apply", flow[f].config)
  <2>1. FlowTo(f, "kill", "apply", flow[f].config) /\ server' \in ServerRecord
        /\ server'.handle = None
    BY <1>1, <1>2, Typed, FlowTakes DEF Goals
  <2>2. FInv => file = flow[f].config
    BY <1>1 DEF FInv, FileWritten, GoalsFit
  <2> QED BY <1>1, <2>1, <2>2, QuietKeeps
<1>3. CASE /\ server.handle = None /\ Ends(f)
           /\ server' = [server EXCEPT !.hash = flow[f].config]
  <2>1. FlowTo(f, "idle", "run", None) /\ server' \in ServerRecord /\ server'.handle = None
    BY <1>1, <1>3, Typed, FlowEnds DEF ServerRecord
  <2> QED BY <1>1, <2>1, QuietKeeps
<1> QED BY <1>2, <1>3 DEF RestartOrStage

LEMMA StartChildKeeps ==
  ASSUME TypeOK, NEW f \in Flows, NEW p \in Children, StartChild(f, p)
  PROVE  Keeps
<1> DEFINE c == [st |-> "starting", config |-> None, heard |-> TRUE]
<1>1. /\ flow[f].at = "start" /\ file' = file /\ child[p].st = "free" /\ Counts
      /\ child' = [child EXCEPT ![p] = c]
      /\ server' = [handle |-> p, hash |-> flow[f].config]
      /\ saved' \in [enabled : BOOLEAN, config : Configs] /\ flow[f].config \in Configs
  BY StaysCounted, Typed DEF StartChild
<1>2. c \in ChildRecord /\ c.st = "starting" /\ c.heard
  BY DEF ChildRecord, States
<1> HIDE DEF c
<1>3. /\ child' \in [Children -> ChildRecord] /\ child'[p] = c
      /\ \A q \in Children \ {p} : child'[q] = child[q]
  BY <1>1, <1>2, Typed
<1>4. server' \in ServerRecord /\ server'.handle = p /\ server'.hash = flow[f].config
  BY <1>1 DEF ServerRecord
<1>5. FlowTo(f, "idle", "run", None)
  BY Typed, FlowEnds DEF StartChild
<1>6. TypeOK'
  BY <1>1, <1>3, <1>4, <1>5, Typed, FlowTyped
<1>7. ASSUME FInv, FileInOrder PROVE FInv'
  <2>1. GoalsFit'
    BY <1>5, <1>7 DEF FInv, GoalsFit, FlowTo
  <2>2. ApplyAlone'
    BY <1>7 DEF FileInOrder, ApplyAlone
  <2>3. FileWritten'
    BY <1>1, <1>5, <1>7 DEF FInv, FileWritten, FlowTo
  <2>4. OnePort'
    BY <1>2, <1>3, <1>7 DEF FInv, OnePort
  <2>5. HandleHeard'
    BY <1>2, <1>3, <1>4 DEF HandleHeard
  <2>6. file = flow[f].config
    BY <1>1, <1>7 DEF FInv, FileWritten
  <2>7. HashTrue'
    BY <1>1, <1>2, <1>3, <1>4, <2>6 DEF HashTrue
  <2> QED BY <1>6, <2>1, <2>2, <2>3, <2>4, <2>5, <2>7 DEF FInv
<1> QED BY <1>6, <1>7 DEF Keeps

-----------------------------------------------------------------------------
(* The steps of the children.                                               *)

\* Some children end, and no flow moves.
LEMMA StillKeeps ==
  ASSUME TypeOK, UNCHANGED <<saved, server, file, flow>>, Counts,
         child' = child \/ SomeEnd
  PROVE  Keeps
<1>1. child' \in [Children -> ChildRecord]
  BY Typed DEF SomeEnd
<1>2. TypeOK'
  BY <1>1 DEF TypeOK, ChildRecord, Counts
<1>3. ASSUME FInv PROVE FInv'
  <2>1. \A p \in Children :
          \/ child'[p] = child[p]
          \/ /\ child'[p].st \in {"free", "gone"}
             /\ server'.handle = p /\ child[p].st # "free" /\ child[p].heard =>
                  child'[p].st # "free" /\ child'[p].heard
    BY DEF SomeEnd
  <2>2. server.handle \in Children \cup {None}
    BY Typed DEF ServerRecord
  <2>3. GoalsFit' /\ ApplyAlone' /\ FileWritten'
    BY <1>3 DEF FInv, GoalsFit, ApplyAlone, FileWritten
  <2>4. OnePort'
    BY <1>3, <2>1 DEF FInv, OnePort
  <2>5. HandleHeard'
    BY <1>3, <2>1, <2>2 DEF FInv, HandleHeard
  <2>6. HashTrue'
    BY <1>3, <2>1, <2>2 DEF FInv, HashTrue
  <2> QED BY <1>2, <2>3, <2>4, <2>5, <2>6 DEF FInv
<1> QED BY <1>2, <1>3 DEF Keeps

LEMMA DiesKeeps ==
  ASSUME TypeOK, NEW p \in Children, Dies(p)
  PROVE  Keeps
<1>1. UNCHANGED <<saved, server, file, flow>> /\ Counts /\ SomeEnd
  BY FaultCounted, Typed, KillEnds DEF Dies
<1> QED BY <1>1, StillKeeps

LEMMA ChildForgotten ==
  ASSUME child \in [Children -> ChildRecord], NEW p \in Children, server'.handle # p,
         child' = [child EXCEPT ![p] = NoChild]
  PROVE  SomeEnd
<1>1. NoChild \in ChildRecord /\ NoChild.st = "free"
  BY DEF NoChild, ChildRecord, States
<1> QED BY <1>1 DEF SomeEnd

LEMMA ExitIgnoredKeeps ==
  ASSUME TypeOK, NEW p \in Children, ExitIgnored(p)
  PROVE  Keeps
<1>1. UNCHANGED <<saved, server, file, flow>> /\ Counts /\ SomeEnd
  BY StaysCounted, Typed, ChildForgotten DEF ExitIgnored
<1> QED BY <1>1, StillKeeps

LEMMA ExitHandledKeeps ==
  ASSUME TypeOK, NEW p \in Children, NEW f \in Flows, ExitHandled(p, f)
  PROVE  Keeps
<1>1. /\ file' = file /\ Counts /\ saved' \in [enabled : BOOLEAN, config : Configs]
  BY StaysCounted, Typed DEF ExitHandled
<1>2. server' \in ServerRecord /\ server'.handle = None
  BY Typed DEF ExitHandled, ServerRecord
<1>3. SomeEnd
  BY <1>2, ChildrenAssumption, Typed, ChildForgotten DEF ExitHandled
<1>4. FlowTo(f, "settings", "run", None)
  BY Typed, FlowReconciles DEF ExitHandled
<1> QED BY <1>1, <1>2, <1>3, <1>4, QuietKeeps

LEMMA ListensKeeps ==
  ASSUME TypeOK, NEW p \in Children, Listens(p)
  PROVE  Keeps
<1>1. UNCHANGED <<saved, server, file, flow>> /\ Counts /\ child[p].st = "starting"
  BY StaysCounted DEF Listens
<1>2. CASE \E q \in Children : child[q].st = "up"
  <2>1. child' = [child EXCEPT ![p] = Killed(@)]
    BY <1>2 DEF Listens
  <2> QED BY <1>1, <2>1, Typed, KillEnds, StillKeeps
<1>3. CASE \A q \in Children : child[q].st # "up"
  <2> DEFINE c == [child[p] EXCEPT !.st = "up", !.config = file]
  <2>1. c \in ChildRecord /\ c.st = "up" /\ c.config = file /\ c.heard = child[p].heard
    BY Typed DEF ChildRecord, States
  <2>2. child' = [child EXCEPT ![p] = c]
    BY <1>3 DEF Listens
  <2> HIDE DEF c
  <2>3. /\ child' \in [Children -> ChildRecord] /\ child'[p] = c
        /\ \A q \in Children \ {p} : child'[q] = child[q]
    BY <2>1, <2>2, Typed
  <2>4. TypeOK'
    BY <1>1, <2>3 DEF TypeOK, ChildRecord, Counts
  <2>5. ASSUME FInv PROVE FInv'
    <3>1. server.handle \in Children \cup {None}
      BY Typed DEF ServerRecord
    <3>2. GoalsFit' /\ ApplyAlone' /\ FileWritten'
      BY <1>1, <2>5 DEF FInv, GoalsFit, ApplyAlone, FileWritten
    <3>3. OnePort'
      BY <1>3, <2>3 DEF OnePort
    <3>4. HandleHeard'
      BY <1>1, <2>1, <2>3, <2>5, <3>1 DEF FInv, HandleHeard
    <3>5. HashTrue'
      BY <1>1, <2>1, <2>3, <2>5, <3>1 DEF FInv, HashTrue
    <3> QED BY <2>4, <3>2, <3>3, <3>4, <3>5 DEF FInv
  <2> QED BY <2>4, <2>5 DEF Keeps
<1> QED BY <1>2, <1>3

LEMMA HubCrashesKeeps ==
  ASSUME TypeOK, HubCrashes
  PROVE  Keeps
<1>1. /\ saved' = saved /\ file' = file /\ Counts
      /\ server' = [handle |-> None, hash |-> None]
      /\ flow' = [f \in Flows |-> NoFlow]
  BY FaultCounted DEF HubCrashes
<1>2. /\ child' \in [Children -> ChildRecord]
      /\ \A p \in Children : child'[p].st = "up" => child[p].st = "up"
  <2> DEFINE c(p) == IF Alive(p) THEN [child[p] EXCEPT !.heard = FALSE] ELSE NoChild
  <2>1. \A p \in Children : c(p) \in ChildRecord /\ (c(p).st = "up" => child[p].st = "up")
    BY Typed DEF NoChild, ChildRecord, States
  <2>2. child' = [p \in Children |-> c(p)]
    BY DEF HubCrashes
  <2> HIDE DEF c
  <2> QED BY <2>1, <2>2
<1>3. \A f \in Flows : /\ flow'[f].at = "idle" /\ flow'[f].goal = "run"
  BY <1>1 DEF NoFlow
<1>4. server'.handle = None
  BY <1>1
<1>5. TypeOK'
  BY <1>1, <1>2, <1>3 DEF TypeOK, ChildRecord, Counts
<1>6. ASSUME FInv PROVE FInv'
  <2>1. GoalsFit' /\ ApplyAlone' /\ FileWritten'
    BY <1>3 DEF GoalsFit, ApplyAlone, FileWritten
  <2>2. OnePort'
    BY <1>2, <1>6 DEF FInv, OnePort
  <2>3. HandleHeard' /\ HashTrue'
    BY <1>4 DEF HandleHeard, HashTrue
  <2> QED BY <1>5, <2>1, <2>2, <2>3 DEF FInv
<1> QED BY <1>5, <1>6 DEF Keeps

-----------------------------------------------------------------------------
LEMMA Initial ==
  ASSUME Init
  PROVE  FInv
<1>1. TypeOK
  BY FrpsBounds DEF Init, TypeOK, NoChild, NoFlow, States
<1>2. /\ server.handle = None
      /\ \A f \in Flows : flow[f].at = "idle" /\ flow[f].goal = "run"
      /\ \A p \in Children : child[p].st = "free"
  BY DEF Init, NoFlow, NoChild
<1>3. GoalsFit /\ ApplyAlone /\ FileWritten /\ OnePort /\ HandleHeard /\ HashTrue
  BY <1>2 DEF GoalsFit, ApplyAlone, FileWritten, OnePort, HandleHeard, HashTrue
<1> QED BY <1>1, <1>3 DEF FInv

LEMMA StepKeeps ==
  ASSUME TypeOK, [Next]_vars
  PROVE  Keeps
<1>1. ASSUME NEW f \in Flows, FlowStep(f) PROVE Keeps
  BY <1>1, ReadSettingsKeeps, CompareKeeps, KillVictimKeeps, SweepKeeps, ClearKeeps,
     HaveBinaryKeeps, WriteFileKeeps, WriteRevisionKeeps, RestartOrStageKeeps,
     StartChildKeeps DEF FlowStep
<1>2. ASSUME NEW p \in Children, ChildStep(p) PROVE Keeps
  BY <1>2, ListensKeeps, ExitIgnoredKeeps, ExitHandledKeeps DEF ChildStep
<1>3. CASE UNCHANGED vars
  BY <1>3, StaysCounted, StillKeeps DEF vars
<1> QED
  BY <1>1, <1>2, <1>3, TimerFiresKeeps, FlowFailsKeeps, SaveSettingsKeeps,
     ApplyEarlierKeeps, DiesKeeps, HubCrashesKeeps DEF Next

\* When no flow runs and no child starts or ends, the trusted child holds the
\* port, alone, with the configuration of the hash.
LEMMA ServedWhenQuiet ==
  ASSUME FInv
  PROVE  UnchangedIsServed
<1> SUFFICES ASSUME \A f \in Flows : ~Busy(f),
                    \A p \in Children : child[p].st \in {"free", "up"},
                    server.handle # None, server.hash = saved.config
             PROVE  /\ {p \in Children : Alive(p)} = {server.handle}
                    /\ child[server.handle].config = saved.config
  BY DEF UnchangedIsServed
<1>1. server.handle \in Children
  BY Typed DEF FInv, ServerRecord
<1>2. child[server.handle].st = "up"
  BY <1>1 DEF FInv, HandleHeard
<1>3. \A p \in Children : Alive(p) <=> p = server.handle
  BY <1>1, <1>2 DEF FInv, OnePort, Alive
<1>4. \A f \in Flows : flow[f].at # "staged"
  BY DEF Busy
<1>5. child[server.handle].config = saved.config
  BY <1>2, <1>4 DEF FInv, HashTrue
<1> QED BY <1>1, <1>3, <1>5

\* The fields, flows and processes stay within their types, however flows
\* overlap, processes die and the hub crashes.
THEOREM FrpsIsTyped == Spec => []TypeOK
<1>1. Init => TypeOK
  BY Initial DEF FInv
<1>2. TypeOK /\ [Next]_vars => TypeOK'
  BY StepKeeps DEF Keeps
<1> QED BY <1>1, <1>2, PTL DEF Spec

\* As long as the file is written and read in order, reconcileOnce's "unchanged"
\* means that the saved configuration is served, by one child.
THEOREM UnchangedServes == InOrderSpec => []UnchangedIsServed
<1>1. Init => FInv
  BY Initial
<1>2. FInv /\ [Next /\ FileInOrder]_vars => FInv'
  <2>1. CASE Next /\ FileInOrder
    BY <2>1, StepKeeps DEF FInv, Keeps
  <2>2. CASE UNCHANGED vars
    BY <2>2 DEF vars, FInv, TypeOK, GoalsFit, ApplyAlone, FileWritten, OnePort,
                HandleHeard, HashTrue
  <2> QED BY <2>1, <2>2
<1>3. FInv => UnchangedIsServed
  BY ServedWhenQuiet
<1> QED BY <1>1, <1>2, <1>3, PTL DEF InOrderSpec
=============================================================================
