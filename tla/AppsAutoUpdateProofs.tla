------------------------- MODULE AppsAutoUpdateProofs -------------------------
(***************************************************************************)
(* AppsAutoUpdate keeps its types.  As long as updates are only automatic  *)
(* and edited (no request by hand), no slot is dead, outcomes are projected *)
(* once and in order, and the failures are counted: for any number of      *)
(* schedulers, apps, operations, edits and failures of any step.           *)
(***************************************************************************)
EXTENDS AppsAutoUpdate, TLAPS

Exists(o) == op[o].status # "absent"
Done(o) == op[o].status \in Terminal /\ ~op[o].active

\* Where a scan has an app, and where it has a list.
AtApp == {"lookup", "load", "create", "record"}
AtList == {"reconcile", "project", "mark"}

\* Types, and what must be there where a step reads it.
OpKnown(o) ==
  /\ Exists(o) => op[o].app \in Apps
  /\ op[o].status \in Terminal => job[o].completed \in Nat
  /\ executor[o].pc # "none" => Exists(o)

ScanKnown(s) ==
  /\ scan[s].pc \in AtApp => scan[s].app \in Apps /\ scan[s].slot \in Nat
  /\ scan[s].pc = "record" => scan[s].op \in Ops
  /\ scan[s].pc \in AtList => \A o \in scan[s].list : op[o].status \in Terminal

TypeInv == TypeOK /\ (\A o \in Ops : OpKnown(o)) /\ (\A s \in Schedulers : ScanKnown(s))

-----------------------------------------------------------------------------
Generation(o) == schedule[op[o].app].generation
NextSlot(o) == schedule[op[o].app].next

\* An operation of the schedule as it is now.
Current(o) == Exists(o) /\ job[o].generation = Generation(o)

Applied(o) == Exists(o) /\ \E i \in DOMAIN applied[op[o].app] : applied[op[o].app][i] = o

\* Every operation belongs to an occurrence, which was due when it was created.
Born ==
  \A o \in Ops : Exists(o) =>
    /\ job[o].type = "update" /\ job[o].slot \in Nat
    /\ op[o].key = <<job[o].generation, job[o].slot>>
    /\ job[o].generation <= Generation(o)
    /\ job[o].slot <= now
    /\ job[o].completed # None => job[o].slot <= job[o].completed

OnePerOccurrence ==
  \A o, x \in Ops :
    Exists(o) /\ Exists(x) /\ op[o].app = op[x].app /\ op[o].key = op[x].key => o = x

CreatedOnce ==
  /\ \A o \in Ops : Exists(o) <=> \E i \in DOMAIN created : created[i] = o
  /\ \A i, j \in DOMAIN created : created[i] = created[j] => i = j

\* The indexes hold nothing of an id that was not handed out.
Indexed == \A o \in Ops : op[o].key # None \/ op[o].active => Exists(o)

EnabledHasNext == \A a \in Apps : schedule[a].enabled <=> schedule[a].next # None

\* The next slot never goes back, and moves past a slot only when its operation
\* is over and was projected.
SlotsUsed ==
  \A o \in Ops : Current(o) =>
    /\ NextSlot(o) # None /\ job[o].slot <= NextSlot(o)
    /\ job[o].slot < NextSlot(o) => Done(o) /\ (op[o].status = "cancelled" \/ Applied(o))
    /\ Applied(o) \/ job[o].reconciled => job[o].slot < NextSlot(o)

\* Operations of one schedule were created in the order of their slots.
SlotsInOrder ==
  \A o, x \in Ops :
    Current(o) /\ Current(x) /\ op[o].app = op[x].app /\ Position(o) < Position(x) =>
      job[o].slot < job[x].slot

AppliedDone ==
  \A a \in Apps :
    /\ \A i \in DOMAIN applied[a] : LET o == applied[a][i] IN
         op[o].app = a /\ Done(o) /\ op[o].status # "cancelled"
    /\ schedule[a].projected # None => \E i \in DOMAIN applied[a] : applied[a][i] = schedule[a].projected

\* An outcome of this schedule that was projected is not the last operation
\* again, unless it is the one shown as projected.
NotShownAgain ==
  \A o \in Ops : Current(o) /\ Applied(o) =>
    LET doc == schedule[op[o].app] IN
    doc.lastOp # None /\ (doc.lastOp = o => doc.projected = o)

\* What was projected of earlier schedules is older than what belongs to this one.
EarlierFirst ==
  \A o, x \in Ops :
    Applied(x) /\ ~Current(x) /\ Current(o) /\ op[o].app = op[x].app => Position(x) < Position(o)

\* A scan that still speaks of this schedule.
ScanOf(s) ==
  /\ scan[s].pc \in AtApp =>
       scan[s].generation <= schedule[scan[s].app].generation /\ scan[s].slot <= now
  /\ scan[s].pc \in AtApp /\ scan[s].pc # "record" /\ scan[s].generation = schedule[scan[s].app].generation =>
       /\ schedule[scan[s].app].enabled
       /\ scan[s].slot # schedule[scan[s].app].next =>
            \E o \in Ops : FoundByKey(o, scan[s].app, Key(s))
  /\ scan[s].pc = "record" => FoundByKey(scan[s].op, scan[s].app, Key(s))
  /\ scan[s].pc \in AtList => \A o \in scan[s].list : Done(o)
  /\ \A o \in Ops : NextListed(s, o) /\ Current(o) =>
       /\ scan[s].pc = "project" => scan[s].enabled
       /\ scan[s].pc = "project" /\ ~Applied(o) /\ op[o].status # "cancelled" =>
            scan[s].failures = schedule[op[o].app].failures
       /\ scan[s].pc = "mark" => job[o].slot < NextSlot(o)

ExecutorOf(o) ==
  executor[o].pc # "none" => op[o].active /\ op[o].status \in InFlight \cup {"failed"} /\ executor[o].pc # "confirmed"

\* An edit is the only one of its app, and nobody else changes what it loaded here.
EditOf(a) ==
  edit[a].pc = "loaded" =>
    /\ edit[a].generation = schedule[a].generation /\ edit[a].enabled = schedule[a].enabled
    /\ edit[a].enabled <=> edit[a].next # None

History ==
  /\ Born /\ OnePerOccurrence /\ CreatedOnce /\ Indexed /\ EnabledHasNext
  /\ SlotsUsed /\ SlotsInOrder
  /\ AppliedDone /\ NotShownAgain /\ EarlierFirst /\ ProjectedInOrder /\ FailuresCounted

AInv ==
  /\ TypeInv /\ History
  /\ \A s \in Schedulers : ScanOf(s)
  /\ \A o \in Ops : ExecutorOf(o)
  /\ \A a \in Apps : EditOf(a)

-----------------------------------------------------------------------------
(* Preservation of types.  First, what a step makes of one operation, one   *)
(* scan, one schedule, when it leaves the others alone.                     *)

OpIs(o, status, active) ==
  /\ op' \in [Ops -> OperationRecord] /\ created' = created
  /\ \A x \in Ops \ {o} : op'[x] = op[x]
  /\ op'[o].app = op[o].app /\ op'[o].key = op[o].key
  /\ op'[o].status = status /\ op'[o].active = active

JobIs(o, completed, reconciled) ==
  /\ job' \in [Ops -> JobRecord]
  /\ \A x \in Ops \ {o} : job'[x] = job[x]
  /\ job'[o].type = job[o].type /\ job'[o].slot = job[o].slot
  /\ job'[o].generation = job[o].generation
  /\ job'[o].completed = completed /\ job'[o].reconciled = reconciled

ExecutorIs(o, pc) ==
  /\ executor' \in [Ops -> ExecutorRecord]
  /\ \A x \in Ops \ {o} : executor'[x] = executor[x]
  /\ executor'[o].pc = pc

ScanIs(s, r) ==
  /\ r \in ScanRecord /\ scan' \in [Schedulers -> ScanRecord]
  /\ \A t \in Schedulers \ {s} : scan'[t] = scan[t]
  /\ scan'[s] = r

ScheduleIs(a, r) ==
  /\ r \in ScheduleRecord /\ schedule' \in [Apps -> ScheduleRecord]
  /\ \A b \in Apps \ {a} : schedule'[b] = schedule[b]
  /\ schedule'[a] = r

EditIs(a, r) ==
  /\ r \in EditRecord /\ edit' \in [Apps -> EditRecord]
  /\ \A b \in Apps \ {a} : edit'[b] = edit[b]
  /\ edit'[a] = r

LEMMA RecordWith ==
  ASSUME NEW x \in OperationRecord, NEW status \in {"absent", "queued"} \cup InFlight \cup Terminal,
         NEW w \in Workers \cup {None}, NEW g \in Nat, NEW left \in 0..Lease
  PROVE  [x EXCEPT !.status = status, !.worker = w, !.generation = g, !.left = left] \in OperationRecord
<1> DEFINE A == Apps \cup {None}
           K == Nat \X Nat \cup {None}
           S == {"absent", "queued"} \cup InFlight \cup Terminal
           W == Workers \cup {None}
           L == 0..Lease
<1>1. OperationRecord = [app : A, key : K, status : S, active : BOOLEAN, worker : W,
                         generation : Nat, left : L, code : Codes]
  BY DEF OperationRecord
<1>2. status \in S /\ w \in W /\ left \in L
  OBVIOUS
<1> HIDE DEF A, K, S, W, L
<1> QED BY <1>1, <1>2

LEMMA RecordEnds ==
  ASSUME NEW x \in OperationRecord, NEW status \in {"absent", "queued"} \cup InFlight \cup Terminal,
         NEW active \in BOOLEAN, NEW code \in Codes
  PROVE  /\ [x EXCEPT !.status = status, !.active = active, !.code = code] \in OperationRecord
         /\ x.code \in Codes /\ x.status \in {"absent", "queued"} \cup InFlight \cup Terminal
<1> DEFINE A == Apps \cup {None}
           K == Nat \X Nat \cup {None}
           S == {"absent", "queued"} \cup InFlight \cup Terminal
           W == Workers \cup {None}
           L == 0..Lease
<1>1. OperationRecord = [app : A, key : K, status : S, active : BOOLEAN, worker : W,
                         generation : Nat, left : L, code : Codes]
  BY DEF OperationRecord
<1>2. status \in S /\ (x.status \in S => x.status \in {"absent", "queued"} \cup InFlight \cup Terminal)
  OBVIOUS
<1> HIDE DEF A, K, S, W, L
<1> QED BY <1>1, <1>2

LEMMA OpUpdate ==
  ASSUME TypeOK, NEW o \in Ops, NEW r \in OperationRecord, op' = [op EXCEPT ![o] = r],
         created' = created, r.app = op[o].app, r.key = op[o].key
  PROVE  OpIs(o, r.status, r.active)
<1>1. op \in [Ops -> OperationRecord]
  BY DEF TypeOK, OperationsTypeOK
<1>2. op' \in [Ops -> OperationRecord]
  BY <1>1
<1>3. op'[o] = r /\ \A x \in Ops \ {o} : op'[x] = op[x]
  BY <1>1
<1> QED BY <1>2, <1>3 DEF OpIs

LEMMA JobUpdate ==
  ASSUME TypeOK, NEW o \in Ops, NEW completed \in Time, NEW reconciled \in BOOLEAN,
         job' = [job EXCEPT ![o] = [@ EXCEPT !.completed = completed, !.reconciled = reconciled]]
  PROVE  JobIs(o, completed, reconciled)
<1>1. job \in [Ops -> JobRecord]
  BY DEF TypeOK
<1> DEFINE r == [job[o] EXCEPT !.completed = completed, !.reconciled = reconciled]
<1>2. r \in JobRecord
  BY <1>1 DEF JobRecord
<1>3. /\ r.type = job[o].type /\ r.slot = job[o].slot /\ r.generation = job[o].generation
      /\ r.completed = completed /\ r.reconciled = reconciled
  BY <1>1 DEF JobRecord
<1>4. job' = [job EXCEPT ![o] = r]
  OBVIOUS
<1> HIDE DEF r
<1>5. job' \in [Ops -> JobRecord] /\ job'[o] = r /\ \A x \in Ops \ {o} : job'[x] = job[x]
  BY <1>1, <1>2, <1>4
<1> QED BY <1>3, <1>5 DEF JobIs

LEMMA ExecutorUpdate ==
  ASSUME TypeOK, NEW o \in Ops, NEW r \in ExecutorRecord, executor' = [executor EXCEPT ![o] = r]
  PROVE  ExecutorIs(o, r.pc)
BY DEF TypeOK, ExecutorIs

LEMMA ScanUpdate ==
  ASSUME TypeOK, NEW s \in Schedulers, NEW r \in ScanRecord, scan' = [scan EXCEPT ![s] = r]
  PROVE  ScanIs(s, r)
BY DEF TypeOK, ScanIs

LEMMA ScheduleUpdate ==
  ASSUME TypeOK, NEW a \in Apps, NEW r \in ScheduleRecord, schedule' = [schedule EXCEPT ![a] = r]
  PROVE  ScheduleIs(a, r)
BY DEF TypeOK, ScheduleIs

LEMMA EditUpdate ==
  ASSUME TypeOK, NEW a \in Apps, NEW r \in EditRecord, edit' = [edit EXCEPT ![a] = r]
  PROVE  EditIs(a, r)
BY DEF TypeOK, EditIs

-----------------------------------------------------------------------------
(* What each step does, as far as the invariants are about it.              *)

LEMMA ReconcileRecord ==
  ASSUME NEW list \in SUBSET Ops
  PROVE  /\ Reconcile(list) \in ScanRecord
         /\ Reconcile(list).pc \in {"scan", "reconcile"} /\ Reconcile(list).list = list
BY DEF Reconcile, IdleScan, ScanRecord, Time

LEMMA IdleRecord == IdleScan \in ScanRecord /\ IdleScan.pc = "idle" /\ IdleScan.list = {}
BY DEF IdleScan, ScanRecord, Time

LEMMA Types ==
  ASSUME TypeOK
  PROVE  /\ op \in [Ops -> OperationRecord] /\ created \in Seq(Ops) /\ now \in Nat
         /\ schedule \in [Apps -> ScheduleRecord] /\ job \in [Ops -> JobRecord]
         /\ scan \in [Schedulers -> ScanRecord] /\ executor \in [Ops -> ExecutorRecord]
         /\ edit \in [Apps -> EditRecord] /\ applied \in [Apps -> Seq(Ops)]
BY DEF TypeOK, OperationsTypeOK

LEMMA LoadAppEffect ==
  ASSUME TypeInv, NEW s \in Schedulers, LoadApp(s)
  PROVE  \E o \in Ops :
           /\ NextListed(s, o) /\ scan[s].pc = "reconcile" /\ op[o].app \in Apps
           /\ ScanIs(s, [scan[s] EXCEPT !.pc = "project",
                                        !.enabled = schedule[op[o].app].enabled,
                                        !.failures = schedule[op[o].app].failures])
           /\ UNCHANGED <<queue, now, schedule, job, executor, edit, manual, applied>>
<1>a. TypeOK
  BY DEF TypeInv
<1>1. PICK o \in Ops :
        /\ NextListed(s, o)
        /\ scan' = [scan EXCEPT ![s].pc = "project", ![s].enabled = schedule[op[o].app].enabled,
                                ![s].failures = schedule[op[o].app].failures]
  BY DEF LoadApp
<1>2. op[o].app \in Apps
  BY <1>1 DEF LoadApp, TypeInv, ScanKnown, OpKnown, NextListed, AtList, Exists, Terminal
<1> DEFINE r == [scan[s] EXCEPT !.pc = "project", !.enabled = schedule[op[o].app].enabled,
                                !.failures = schedule[op[o].app].failures]
<1>b. scan[s] \in ScanRecord /\ schedule[op[o].app] \in ScheduleRecord
  BY <1>2, <1>a, Types
<1>3. r \in ScanRecord
  BY <1>b DEF ScanRecord, ScheduleRecord
<1>4. scan' = [scan EXCEPT ![s] = r]
  BY <1>1
<1>5. ScanIs(s, r)
  BY <1>a, <1>3, <1>4, ScanUpdate
<1> QED BY <1>1, <1>2, <1>5 DEF LoadApp

LEMMA PickDueEffect ==
  ASSUME TypeInv, NEW s \in Schedulers, PickDue(s)
  PROVE  \E a \in Apps :
           /\ Due(a)
           /\ ScanIs(s, [scan[s] EXCEPT
                !.pc = "lookup", !.app = a, !.generation = schedule[a].generation,
                !.slot = IF schedule[a].next = None THEN now ELSE schedule[a].next])
           /\ UNCHANGED <<queue, now, schedule, job, executor, edit, manual, applied>>
<1>a. TypeOK
  BY DEF TypeInv
<1>1. PICK a \in Apps :
        /\ Due(a)
        /\ scan' = [scan EXCEPT
             ![s].pc = "lookup", ![s].app = a, ![s].generation = schedule[a].generation,
             ![s].slot = IF schedule[a].next = None THEN now ELSE schedule[a].next]
  BY DEF PickDue
<1> DEFINE r == [scan[s] EXCEPT
                   !.pc = "lookup", !.app = a, !.generation = schedule[a].generation,
                   !.slot = IF schedule[a].next = None THEN now ELSE schedule[a].next]
<1>b. scan[s] \in ScanRecord /\ schedule[a] \in ScheduleRecord /\ now \in Nat
  BY <1>a, Types
<1>3. r \in ScanRecord
  BY <1>b, <1>1 DEF ScanRecord, ScheduleRecord, Time, Due
<1>4. scan' = [scan EXCEPT ![s] = r]
  BY <1>1
<1>5. ScanIs(s, r)
  BY <1>a, <1>3, <1>4, ScanUpdate
<1> QED BY <1>1, <1>5 DEF PickDue

LEMMA LookupSlotEffect ==
  ASSUME TypeInv, NEW s \in Schedulers, LookupSlot(s)
  PROVE  /\ scan[s].pc = "lookup"
         /\ \/ \E o \in Ops : /\ FoundByKey(o, scan[s].app, Key(s))
                              /\ ScanIs(s, [scan[s] EXCEPT !.pc = "record", !.op = o])
            \/ ScanIs(s, [scan[s] EXCEPT !.pc = "load"])
         /\ UNCHANGED <<queue, now, schedule, job, executor, edit, manual, applied>>
<1>a. TypeOK /\ scan[s] \in ScanRecord
  BY Types DEF TypeInv
<1>1. ASSUME NEW o \in Ops, scan' = [scan EXCEPT ![s].pc = "record", ![s].op = o]
      PROVE  ScanIs(s, [scan[s] EXCEPT !.pc = "record", !.op = o])
  <2>1. [scan[s] EXCEPT !.pc = "record", !.op = o] \in ScanRecord
    BY <1>a DEF ScanRecord
  <2>2. scan' = [scan EXCEPT ![s] = [scan[s] EXCEPT !.pc = "record", !.op = o]]
    BY <1>1
  <2> QED BY <1>a, <2>1, <2>2, ScanUpdate
<1>2. ASSUME scan' = [scan EXCEPT ![s].pc = "load"]
      PROVE  ScanIs(s, [scan[s] EXCEPT !.pc = "load"])
  <2>1. [scan[s] EXCEPT !.pc = "load"] \in ScanRecord
    BY <1>a DEF ScanRecord
  <2>2. scan' = [scan EXCEPT ![s] = [scan[s] EXCEPT !.pc = "load"]]
    BY <1>2
  <2> QED BY <1>a, <2>1, <2>2, ScanUpdate
<1> QED BY <1>1, <1>2, Zenon DEF LookupSlot

LEMMA LoadConfigEffect ==
  ASSUME TypeInv, NEW s \in Schedulers, LoadConfig(s)
  PROVE  /\ scan[s].pc = "load"
         /\ ScanIs(s, [scan[s] EXCEPT !.pc = "create", !.config = schedule[scan[s].app].config])
         /\ UNCHANGED <<queue, now, schedule, job, executor, edit, manual, applied>>
<1>a. TypeOK /\ scan[s] \in ScanRecord /\ scan[s].app \in Apps
  BY Types DEF TypeInv, ScanKnown, AtApp, LoadConfig
<1> DEFINE r == [scan[s] EXCEPT !.pc = "create", !.config = schedule[scan[s].app].config]
<1>1. r \in ScanRecord
  BY <1>a, Types DEF ScanRecord, ScheduleRecord
<1>2. scan' = [scan EXCEPT ![s] = r]
  BY DEF LoadConfig
<1> QED BY <1>a, <1>1, <1>2, ScanUpdate DEF LoadConfig

OpBorn(o, a, k) ==
  /\ op[o].status = "absent" /\ ActiveIndexFree(a) /\ KeyIndexFree(a, k)
  /\ op' \in [Ops -> OperationRecord] /\ created' = Append(created, o)
  /\ \A x \in Ops \ {o} : op'[x] = op[x]
  /\ op'[o].app = a /\ op'[o].key = k /\ op'[o].status = "queued" /\ op'[o].active

JobBorn(o, type, slot, generation) ==
  /\ job' \in [Ops -> JobRecord]
  /\ \A x \in Ops \ {o} : job'[x] = job[x]
  /\ job'[o].type = type /\ job'[o].slot = slot /\ job'[o].generation = generation
  /\ job'[o].completed = None /\ ~job'[o].reconciled

LEMMA OperationBorn ==
  ASSUME TypeOK, NEW o \in Ops, NEW a \in Apps, NEW k \in (Nat \X Nat) \cup {None},
         CreateOperation(o, a, k)
  PROVE  OpBorn(o, a, k)
<1> DEFINE r == [Absent EXCEPT !.app = a, !.key = k, !.status = "queued", !.active = TRUE]
<1>1. r \in OperationRecord
  <2>1. /\ a \in Apps \cup {None} /\ "queued" \in {"absent", "queued"} \cup InFlight \cup Terminal
        /\ None \in Workers \cup {None} /\ 0 \in Nat /\ 0 \in 0..Lease /\ "none" \in Codes
    BY QueueAssumption DEF Codes
  <2> QED BY <2>1 DEF Absent, OperationRecord
<1>2. r.app = a /\ r.key = k /\ r.status = "queued" /\ r.active
  BY DEF Absent
<1>3. op' = [op EXCEPT ![o] = r] /\ created' = Append(created, o)
  BY DEF CreateOperation
<1> HIDE DEF r
<1>4. op' \in [Ops -> OperationRecord] /\ op'[o] = r /\ \A x \in Ops \ {o} : op'[x] = op[x]
  BY <1>1, <1>3, Types
<1> QED BY <1>2, <1>3, <1>4 DEF OpBorn, CreateOperation

LEMMA JobIsBorn ==
  ASSUME TypeOK, NEW o \in Ops, NEW type \in {"update", "rollback"}, NEW slot \in Time,
         NEW generation \in Nat, NEW config \in Nat, CreateJob(o, type, slot, generation, config)
  PROVE  JobBorn(o, type, slot, generation)
<1> DEFINE r == [NoJob EXCEPT !.type = type, !.slot = slot, !.generation = generation,
                              !.config = config]
<1>1. r \in JobRecord
  BY DEF NoJob, JobRecord, Time
<1>2. /\ r.type = type /\ r.slot = slot /\ r.generation = generation
      /\ r.completed = None /\ ~r.reconciled
  BY DEF NoJob
<1>3. job' = [job EXCEPT ![o] = r]
  BY DEF CreateJob
<1> HIDE DEF r
<1>4. job' \in [Ops -> JobRecord] /\ job'[o] = r /\ \A x \in Ops \ {o} : job'[x] = job[x]
  BY <1>1, <1>3, Types
<1> QED BY <1>2, <1>4 DEF JobBorn

LEMMA CreateAutoEffect ==
  ASSUME TypeInv, NEW s \in Schedulers, CreateAuto(s)
  PROVE  /\ scan[s].pc = "create"
         /\ \E o \in Ops :
              /\ OpBorn(o, scan[s].app, Key(s))
              /\ JobBorn(o, "update", scan[s].slot, scan[s].generation)
              /\ ScanIs(s, [scan[s] EXCEPT !.pc = "record", !.op = o])
         /\ UNCHANGED <<now, schedule, executor, edit, manual, applied>>
<1>a. TypeOK /\ scan[s] \in ScanRecord /\ scan[s].app \in Apps /\ scan[s].slot \in Nat
  BY Types DEF TypeInv, ScanKnown, AtApp, CreateAuto
<1>b. scan[s].generation \in Nat /\ scan[s].config \in Nat
  BY <1>a DEF ScanRecord
<1>1. PICK o \in Ops :
        /\ CreateOperation(o, scan[s].app, Key(s))
        /\ CreateJob(o, "update", scan[s].slot, scan[s].generation, scan[s].config)
        /\ scan' = [scan EXCEPT ![s].pc = "record", ![s].op = o]
  BY Zenon DEF CreateAuto
<1>2. OpBorn(o, scan[s].app, Key(s))
  BY <1>1, <1>a, <1>b, OperationBorn DEF Key
<1>3. JobBorn(o, "update", scan[s].slot, scan[s].generation)
  BY <1>1, <1>a, <1>b, JobIsBorn DEF Time
<1>4. [scan[s] EXCEPT !.pc = "record", !.op = o] \in ScanRecord
  BY <1>a DEF ScanRecord
<1>5. scan' = [scan EXCEPT ![s] = [scan[s] EXCEPT !.pc = "record", !.op = o]]
  BY <1>1
<1>6. ScanIs(s, [scan[s] EXCEPT !.pc = "record", !.op = o])
  BY <1>a, <1>4, <1>5, ScanUpdate
<1> QED BY <1>2, <1>3, <1>6 DEF CreateAuto

LEMMA CreateRefusedEffect ==
  ASSUME TypeInv, NEW s \in Schedulers, CreateRefused(s)
  PROVE  /\ scan[s].pc = "create"
         /\ \/ \E o \in Ops : /\ FoundByKey(o, scan[s].app, Key(s))
                              /\ ScanIs(s, [scan[s] EXCEPT !.pc = "record", !.op = o])
            \/ ScanIs(s, IdleScan)
         /\ UNCHANGED <<queue, now, schedule, job, executor, edit, manual, applied>>
<1>a. TypeOK /\ scan[s] \in ScanRecord
  BY Types DEF TypeInv
<1>1. ASSUME NEW o \in Ops, scan' = [scan EXCEPT ![s].pc = "record", ![s].op = o]
      PROVE  ScanIs(s, [scan[s] EXCEPT !.pc = "record", !.op = o])
  <2>1. [scan[s] EXCEPT !.pc = "record", !.op = o] \in ScanRecord
    BY <1>a DEF ScanRecord
  <2>2. scan' = [scan EXCEPT ![s] = [scan[s] EXCEPT !.pc = "record", !.op = o]]
    BY <1>1
  <2> QED BY <1>a, <2>1, <2>2, ScanUpdate
<1>2. scan' = [scan EXCEPT ![s] = IdleScan] => ScanIs(s, IdleScan)
  BY <1>a, ScanUpdate, IdleRecord
<1> QED BY <1>1, <1>2, Zenon DEF CreateRefused

LEMMA RecordOperationEffect ==
  ASSUME TypeInv, NEW s \in Schedulers, RecordOperation(s)
  PROVE  /\ scan[s].pc = "record" /\ scan[s].app \in Apps /\ scan[s].op \in Ops
         /\ ScanIs(s, IdleScan)
         /\ \/ schedule' = schedule
            \/ LET doc == schedule[scan[s].app] IN
               /\ doc.enabled /\ doc.generation = scan[s].generation /\ doc.next = scan[s].slot
               /\ ScheduleIs(scan[s].app, [doc EXCEPT !.lastOp = scan[s].op])
         /\ UNCHANGED <<queue, now, job, executor, edit, manual, applied>>
<1>a. /\ TypeOK /\ scan[s] \in ScanRecord /\ scan[s].pc = "record"
      /\ scan[s].app \in Apps /\ scan[s].op \in Ops
  BY Types DEF TypeInv, ScanKnown, AtApp, RecordOperation
<1> DEFINE a == scan[s].app
           r == [schedule[a] EXCEPT !.lastOp = scan[s].op]
<1>1. ScanIs(s, IdleScan)
  BY <1>a, ScanUpdate, IdleRecord DEF RecordOperation
<1>2. ASSUME schedule' = [schedule EXCEPT ![a].lastOp = scan[s].op] PROVE ScheduleIs(a, r)
  <2>1. schedule[a] \in ScheduleRecord
    BY <1>a, Types
  <2>2. r \in ScheduleRecord
    BY <1>a, <2>1 DEF ScheduleRecord
  <2>3. schedule' = [schedule EXCEPT ![a] = r]
    BY <1>2
  <2> QED BY <1>a, <2>2, <2>3, ScheduleUpdate
<1> QED BY <1>a, <1>1, <1>2, Zenon DEF RecordOperation

LEMMA MarkReconciledEffect ==
  ASSUME TypeInv, NEW s \in Schedulers, MarkReconciled(s)
  PROVE  \E o \in Ops :
           /\ scan[s].pc = "mark" /\ NextListed(s, o)
           /\ JobIs(o, job[o].completed, TRUE)
           /\ ScanIs(s, Reconcile(scan[s].list \ {o}))
           /\ UNCHANGED <<queue, now, schedule, executor, edit, manual, applied>>
<1>a. TypeOK /\ scan[s] \in ScanRecord
  BY Types DEF TypeInv
<1>1. PICK o \in Ops : /\ NextListed(s, o)
                       /\ job' = [job EXCEPT ![o].reconciled = TRUE]
                       /\ scan' = [scan EXCEPT ![s] = Reconcile(scan[s].list \ {o})]
  BY DEF MarkReconciled
<1>2. job[o] \in JobRecord
  BY <1>a, Types
<1>3. job' = [job EXCEPT ![o] = [@ EXCEPT !.completed = job[o].completed, !.reconciled = TRUE]]
  <2>1. [job[o] EXCEPT !.completed = job[o].completed, !.reconciled = TRUE]
          = [job[o] EXCEPT !.reconciled = TRUE]
    BY <1>2 DEF JobRecord
  <2> QED BY <1>1, <2>1
<1>4. JobIs(o, job[o].completed, TRUE)
  BY <1>a, <1>2, <1>3, JobUpdate DEF JobRecord
<1>5. ScanIs(s, Reconcile(scan[s].list \ {o}))
  BY <1>a, <1>1, ScanUpdate, ReconcileRecord DEF ScanRecord
<1> QED BY <1>1, <1>4, <1>5 DEF MarkReconciled

LEMMA RetryDelayPositive ==
  ASSUME NEW n \in Nat
  PROVE  RetryDelay(n) \in Nat \ {0}
BY BackoffAssumption, IntervalAssumption DEF RetryDelay, Sooner

\* The schedule after a projection.
Shown(s, o, failures, delay) ==
  LET doc == schedule[op[o].app] IN
  [doc EXCEPT !.projected = o, !.lastOp = o, !.failures = failures,
              !.checked = IF op[o].status = "failed" THEN @ ELSE job[o].completed,
              !.next = IF scan[s].enabled THEN job[o].completed + delay ELSE @]

FailuresAfter(s, o) == IF op[o].status = "failed" THEN scan[s].failures + 1 ELSE 0

LEMMA ProjectEffect ==
  ASSUME TypeInv, NEW s \in Schedulers, Project(s)
  PROVE  \E o \in Ops :
           /\ scan[s].pc = "project" /\ NextListed(s, o)
           /\ op[o].app \in Apps /\ job[o].completed \in Nat
           /\ ScanIs(s, [scan[s] EXCEPT !.pc = "mark"])
           /\ \/ /\ op[o].status # "cancelled" /\ Projectable(o, op[o].app)
                 /\ \E delay \in Nat \ {0} :
                      ScheduleIs(op[o].app, Shown(s, o, FailuresAfter(s, o), delay))
                 /\ applied' = [applied EXCEPT ![op[o].app] = Append(@, o)]
              \/ /\ op[o].status # "cancelled" /\ ~Projectable(o, op[o].app)
                 /\ UNCHANGED <<schedule, applied>>
              \/ /\ op[o].status = "cancelled" /\ SlotCancelled(o, op[o].app)
                 /\ job[o].slot \in Nat
                 /\ ScheduleIs(op[o].app, [schedule[op[o].app] EXCEPT
                      !.next = Later(now, job[o].slot + 1)])
                 /\ UNCHANGED applied
              \/ /\ op[o].status = "cancelled" /\ ~SlotCancelled(o, op[o].app)
                 /\ UNCHANGED <<schedule, applied>>
           /\ UNCHANGED <<queue, now, job, executor, edit, manual>>
<1>a. TypeOK /\ scan[s] \in ScanRecord
  BY Types DEF TypeInv
<1>1. PICK o \in Ops :
        /\ NextListed(s, o)
        /\ ProjectOutcome(s, o, op[o].app) \/ ProjectCancelled(o, op[o].app)
  BY DEF Project
<1> DEFINE a == op[o].app
<1>2. op[o].app \in Apps /\ job[o].completed \in Nat
  BY <1>1 DEF Project, TypeInv, ScanKnown, OpKnown, NextListed, AtList, Exists, Terminal
<1>b. schedule[a] \in ScheduleRecord /\ job[o] \in JobRecord
  BY <1>2, <1>a, Types
<1>3. ScanIs(s, [scan[s] EXCEPT !.pc = "mark"])
  <2>1. [scan[s] EXCEPT !.pc = "mark"] \in ScanRecord
    BY <1>a DEF ScanRecord
  <2>2. scan' = [scan EXCEPT ![s] = [scan[s] EXCEPT !.pc = "mark"]]
    BY DEF Project
  <2> QED BY <1>a, <2>1, <2>2, ScanUpdate
<1>4. CASE op[o].status # "cancelled" /\ Projectable(o, a)
  <2>0. ProjectOutcome(s, o, a)
    BY <1>1, <1>4 DEF ProjectCancelled
  <2> DEFINE failures == FailuresAfter(s, o)
  <2>1. failures \in Nat
    BY <1>a DEF FailuresAfter, ScanRecord
  <2>2. PICK delay \in {Interval} \cup (IF op[o].status = "failed" THEN {RetryDelay(failures)} ELSE {}) :
          /\ schedule' = [schedule EXCEPT
               ![a].projected = o, ![a].lastOp = o, ![a].failures = failures,
               ![a].checked = IF op[o].status = "failed" THEN @ ELSE job[o].completed,
               ![a].next = IF scan[s].enabled THEN job[o].completed + delay ELSE @]
          /\ applied' = [applied EXCEPT ![a] = Append(@, o)]
    BY <2>0, <1>4 DEF ProjectOutcome, FailuresAfter
  <2>3. delay \in Nat \ {0}
    BY <2>1, <2>2, RetryDelayPositive, IntervalAssumption
  <2> DEFINE r == Shown(s, o, failures, delay)
  <2>4. r \in ScheduleRecord
    <3>1. /\ (IF op[o].status = "failed" THEN schedule[a].checked ELSE job[o].completed) \in Time
          /\ (IF scan[s].enabled THEN job[o].completed + delay ELSE schedule[a].next) \in Time
      BY <1>2, <1>b, <2>3 DEF ScheduleRecord, Time
    <3> QED BY <1>b, <2>1, <3>1 DEF Shown, ScheduleRecord
  <2>5. schedule' = [schedule EXCEPT ![a] = r]
    BY <2>2 DEF Shown
  <2> HIDE DEF r
  <2>6. ScheduleIs(a, r)
    BY <1>a, <1>2, <2>4, <2>5, ScheduleUpdate
  <2> USE DEF r
  <2>7. \E d \in Nat \ {0} : ScheduleIs(a, Shown(s, o, FailuresAfter(s, o), d))
    BY <2>3, <2>6
  <2> QED BY <1>1, <1>2, <1>3, <1>4, <2>2, <2>7 DEF Project
<1>5. CASE op[o].status # "cancelled" /\ ~Projectable(o, a)
  <2>1. UNCHANGED <<schedule, applied>>
    BY <1>1, <1>5, Zenon DEF ProjectCancelled, ProjectOutcome
  <2> QED BY <1>1, <1>2, <1>3, <1>5, <2>1 DEF Project
<1>6. CASE op[o].status = "cancelled" /\ SlotCancelled(o, a)
  <2>1. schedule' = [schedule EXCEPT ![a].next = Later(now, job[o].slot + 1)] /\ UNCHANGED applied
    BY <1>1, <1>6, Zenon DEF ProjectCancelled, ProjectOutcome
  <2>0. job[o].slot \in Time
    BY <1>b DEF JobRecord
  <2>2. job[o].slot \in Nat
    <3>1. job[o].slot # None
      BY <1>6, Zenon DEF SlotCancelled, Automatic
    <3> QED BY <2>0, <3>1 DEF Time
  <2> DEFINE r == [schedule[a] EXCEPT !.next = Later(now, job[o].slot + 1)]
  <2>3. Later(now, job[o].slot + 1) \in Nat
    BY <2>2, <1>a, Types DEF Later
  <2>4. r \in ScheduleRecord
    BY <1>b, <2>3 DEF ScheduleRecord, Time
  <2>5. schedule' = [schedule EXCEPT ![a] = r]
    BY <2>1
  <2>6. ScheduleIs(a, r)
    BY <1>a, <1>2, <2>4, <2>5, ScheduleUpdate
  <2> QED BY <1>1, <1>2, <1>3, <1>6, <2>1, <2>2, <2>6 DEF Project
<1>7. CASE op[o].status = "cancelled" /\ ~SlotCancelled(o, a)
  <2>1. UNCHANGED <<schedule, applied>>
    BY <1>1, <1>7, Zenon DEF ProjectCancelled, ProjectOutcome
  <2> QED BY <1>1, <1>2, <1>3, <1>7, <2>1 DEF Project
<1> QED BY <1>4, <1>5, <1>6, <1>7

LEMMA ClaimJobEffect ==
  ASSUME TypeInv, NEW o \in Ops, ClaimJob(o)
  PROVE  /\ Queued(o) /\ OpIs(o, "running", TRUE) /\ ExecutorIs(o, "claimed")
         /\ UNCHANGED <<now, schedule, job, scan, edit, manual, applied>>
<1>a. TypeOK /\ op[o] \in OperationRecord /\ executor[o] \in ExecutorRecord
  BY Types DEF TypeInv
<1>1. PICK w \in Workers : ClaimOperation(o, w, 0)
  <2>1. (CHOOSE v \in Workers : TRUE) \in Workers
    BY QueueAssumption
  <2> QED BY <2>1, Zenon DEF ClaimJob
<1> DEFINE r == [op[o] EXCEPT !.status = "running", !.worker = w,
                              !.generation = @ + 1, !.left = 0]
<1>2. Queued(o)
  BY DEF ClaimJob, ClaimOperation, OldestQueued
<1>3. r \in OperationRecord
  <2>1. 0 \in 0..Lease /\ "running" \in {"absent", "queued"} \cup InFlight \cup Terminal
    BY QueueAssumption DEF InFlight
  <2>2. op[o].generation + 1 \in Nat
    BY <1>a DEF OperationRecord
  <2> QED BY <1>a, <2>1, <2>2, RecordWith
<1>4. /\ r.status = "running" /\ r.active = op[o].active
      /\ r.app = op[o].app /\ r.key = op[o].key
  BY <1>a DEF OperationRecord
<1>5. op' = [op EXCEPT ![o] = r] /\ created' = created
  BY <1>1 DEF ClaimOperation
<1> HIDE DEF r
<1>6. OpIs(o, r.status, r.active)
  BY <1>a, <1>3, <1>4, <1>5, OpUpdate
<1>7. r.active = TRUE
  BY <1>2, <1>4, <1>a DEF Queued, OperationRecord
<1>8. ExecutorIs(o, "claimed")
  <2>1. executor' = [executor EXCEPT ![o] = [executor[o] EXCEPT !.pc = "claimed"]]
    BY DEF ClaimJob
  <2>2. /\ [executor[o] EXCEPT !.pc = "claimed"] \in ExecutorRecord
        /\ [executor[o] EXCEPT !.pc = "claimed"].pc = "claimed"
    BY <1>a DEF ExecutorRecord
  <2> QED BY <1>a, <2>1, <2>2, ExecutorUpdate
<1> QED BY <1>2, <1>4, <1>6, <1>7, <1>8 DEF ClaimJob

\* A command that ends an operation, or says that it was interrupted.
LEMMA OpEnds ==
  ASSUME TypeOK, NEW o \in Ops, NEW active \in BOOLEAN, NEW code \in Codes,
         NEW status \in {"absent", "queued"} \cup InFlight \cup Terminal,
         op' = [op EXCEPT ![o] = [@ EXCEPT !.status = status, !.active = active, !.code = code]],
         created' = created
  PROVE  OpIs(o, status, active)
<1>1. op[o] \in OperationRecord
  BY Types
<1> DEFINE r == [op[o] EXCEPT !.status = status, !.active = active, !.code = code]
<1>2. r \in OperationRecord
  BY <1>1, RecordEnds
<1>3. r.status = status /\ r.active = active /\ r.app = op[o].app /\ r.key = op[o].key
  BY <1>1 DEF OperationRecord
<1>4. op' = [op EXCEPT ![o] = r]
  OBVIOUS
<1> HIDE DEF r
<1>5. OpIs(o, r.status, r.active)
  BY <1>2, <1>3, <1>4, OpUpdate
<1> QED BY <1>3, <1>5

LEMMA OpFields ==
  ASSUME TypeOK, NEW o \in Ops
  PROVE  /\ op[o] \in OperationRecord /\ op[o].code \in Codes /\ op[o].active \in BOOLEAN
         /\ op[o].status \in {"absent", "queued"} \cup InFlight \cup Terminal
         /\ [op[o] EXCEPT !.code = op[o].code] = op[o]
BY Types DEF OperationRecord

LEMMA FinishIs ==
  ASSUME TypeOK, NEW o \in Ops, NEW result \in Terminal, FinishOperation(o, result)
  PROVE  OpIs(o, result, FALSE)
<1>1. op' = [op EXCEPT ![o] = [@ EXCEPT !.status = result, !.active = FALSE, !.code = op[o].code]]
  <2>1. [op[o] EXCEPT !.status = result, !.active = FALSE, !.code = op[o].code]
          = [op[o] EXCEPT !.status = result, !.active = FALSE]
    BY OpFields DEF OperationRecord
  <2> QED BY <2>1 DEF FinishOperation
<1> QED BY <1>1, OpEnds, OpFields DEF FinishOperation

LEMMA JobCompleted ==
  ASSUME TypeOK, NEW o \in Ops, job' = [job EXCEPT ![o].completed = now]
  PROVE  JobIs(o, now, job[o].reconciled)
<1>1. job[o] \in JobRecord /\ now \in Time
  BY Types DEF Time
<1>2. job' = [job EXCEPT ![o] = [@ EXCEPT !.completed = now, !.reconciled = job[o].reconciled]]
  <2>1. [job[o] EXCEPT !.completed = now, !.reconciled = job[o].reconciled]
          = [job[o] EXCEPT !.completed = now]
    BY <1>1 DEF JobRecord
  <2> QED BY <2>1
<1>3. job[o].reconciled \in BOOLEAN
  BY <1>1 DEF JobRecord
<1> QED BY <1>1, <1>2, <1>3, JobUpdate

LEMMA FinishJobEffect ==
  ASSUME TypeInv, NEW o \in Ops, FinishJob(o)
  PROVE  /\ executor[o].pc # "none" /\ op[o].active /\ op[o].status \in InFlight
         /\ \E result \in Terminal : OpIs(o, result, FALSE)
         /\ JobIs(o, now, job[o].reconciled) /\ ExecutorIs(o, "none")
         /\ UNCHANGED <<now, schedule, scan, edit, manual, applied>>
<1>a. TypeOK
  BY DEF TypeInv
<1>1. PICK result \in Outcomes(o) : FinishOperation(o, result)
  BY DEF FinishJob
<1>2. result \in Terminal
  BY <1>1 DEF Outcomes, Terminal
<1>3. OpIs(o, result, FALSE)
  BY <1>a, <1>1, <1>2, FinishIs
<1>4. JobIs(o, now, job[o].reconciled)
  BY <1>a, JobCompleted DEF FinishJob
<1>5. ExecutorIs(o, "none")
  <2>1. NoExecutor \in ExecutorRecord /\ NoExecutor.pc = "none"
    BY DEF NoExecutor, ExecutorRecord, Time
  <2> QED BY <1>a, <2>1, ExecutorUpdate DEF FinishJob
<1> QED BY <1>2, <1>3, <1>4, <1>5 DEF FinishJob, Owned

LEMMA RecoverJobEffect ==
  ASSUME TypeInv, NEW o \in Ops, RecoverJob(o)
  PROVE  /\ op[o].active /\ op[o].status \in InFlight
         /\ OpIs(o, "failed", TRUE) /\ JobIs(o, now, job[o].reconciled)
         /\ UNCHANGED <<now, schedule, scan, executor, edit, manual, applied>>
<1>a. TypeOK
  BY DEF TypeInv
<1>1. "failed" \in {"absent", "queued"} \cup InFlight \cup Terminal /\ "RECOVERY_REQUIRED" \in Codes
  BY DEF Terminal, Codes
<1>2. OpIs(o, "failed", TRUE)
  BY <1>a, <1>1, OpEnds DEF RecoverJob, FailExpired
<1>3. JobIs(o, now, job[o].reconciled)
  BY <1>a, JobCompleted DEF RecoverJob
<1> QED BY <1>2, <1>3 DEF RecoverJob, Expired

LEMMA ReleaseJobEffect ==
  ASSUME TypeInv, NEW o \in Ops, ReleaseJob(o)
  PROVE  /\ executor[o].pc = "none" /\ op[o].active
         /\ OpIs(o, op[o].status, FALSE)
         /\ UNCHANGED <<now, schedule, job, scan, executor, edit, manual, applied>>
<1>a. TypeOK
  BY DEF TypeInv
<1>1. op' = [op EXCEPT ![o] = [@ EXCEPT !.status = op[o].status, !.active = FALSE, !.code = op[o].code]]
  <2>1. [op[o] EXCEPT !.status = op[o].status, !.active = FALSE, !.code = op[o].code]
          = [op[o] EXCEPT !.active = FALSE]
    BY <1>a, OpFields DEF OperationRecord
  <2> QED BY <2>1 DEF ReleaseJob, UnlockByHand
<1>2. OpIs(o, op[o].status, FALSE)
  BY <1>a, <1>1, OpEnds, OpFields DEF ReleaseJob, UnlockByHand
<1> QED BY <1>2 DEF ReleaseJob, UnlockByHand

LEMMA CheckJobEffect ==
  ASSUME TypeInv, NEW o \in Ops, CheckJob(o)
  PROVE  /\ executor[o].pc = "claimed"
         /\ ExecutorIs(o, "refused") \/ ExecutorIs(o, "checked")
         /\ UNCHANGED <<queue, now, schedule, job, scan, edit, manual, applied>>
<1>a. TypeOK /\ executor[o] \in ExecutorRecord /\ op[o].app \in Apps
  BY Types DEF TypeInv, OpKnown, CheckJob
<1> DEFINE pc == IF StaleJob(o, op[o].app) THEN "refused" ELSE "checked"
           r == [executor[o] EXCEPT !.pc = pc, !.generation = schedule[op[o].app].generation]
<1>1. pc \in {"refused", "checked"}
  OBVIOUS
<1>2. schedule[op[o].app].generation \in Nat
  BY <1>a, Types DEF ScheduleRecord
<1>3. executor' = [executor EXCEPT ![o] = r]
  BY DEF CheckJob
<1> HIDE DEF pc
<1>4. r \in ExecutorRecord /\ r.pc = pc
  BY <1>a, <1>1, <1>2 DEF ExecutorRecord
<1>5. ExecutorIs(o, r.pc)
  BY <1>a, <1>3, <1>4, ExecutorUpdate
<1> QED BY <1>1, <1>4, <1>5 DEF CheckJob

LEMMA ExecutorSet ==
  ASSUME TypeOK, NEW o \in Ops, NEW pc \in {"acting", "saved", "none"},
         executor' = [executor EXCEPT ![o] = [NoExecutor EXCEPT !.pc = pc]]
  PROVE  ExecutorIs(o, pc)
<1>1. [NoExecutor EXCEPT !.pc = pc] \in ExecutorRecord /\ [NoExecutor EXCEPT !.pc = pc].pc = pc
  BY DEF NoExecutor, ExecutorRecord, Time
<1> QED BY <1>1, ExecutorUpdate

LEMMA StartUpdateEffect ==
  ASSUME TypeInv, NEW o \in Ops, StartUpdate(o)
  PROVE  /\ executor[o].pc = "checked" /\ op[o].app \in Apps
         /\ ExecutorIs(o, "acting")
         /\ \/ schedule' = schedule
            \/ ScheduleIs(op[o].app, [schedule[op[o].app] EXCEPT !.lastOp = o])
         /\ UNCHANGED <<queue, now, job, scan, edit, manual, applied>>
<1>a. TypeOK /\ op[o].app \in Apps
  BY Types DEF TypeInv, OpKnown, StartUpdate
<1> DEFINE a == op[o].app
           r == [schedule[a] EXCEPT !.lastOp = o]
<1>1. ExecutorIs(o, "acting")
  BY <1>a, ExecutorSet DEF StartUpdate
<1>2. ASSUME schedule' = [schedule EXCEPT ![a].lastOp = o] PROVE ScheduleIs(a, r)
  <2>1. schedule[a] \in ScheduleRecord
    BY <1>a, Types
  <2>2. r \in ScheduleRecord
    BY <2>1 DEF ScheduleRecord
  <2>3. schedule' = [schedule EXCEPT ![a] = r]
    BY <1>2
  <2> QED BY <1>a, <2>2, <2>3, ScheduleUpdate
<1> QED BY <1>a, <1>1, <1>2, Zenon DEF StartUpdate

LEMMA StartRollbackEffect ==
  ASSUME TypeInv, NEW o \in Ops, StartRollback(o)
  PROVE  /\ executor[o].pc = "checked" /\ job[o].type = "rollback"
         /\ ExecutorIs(o, "acting")
         /\ UNCHANGED <<queue, now, schedule, job, scan, edit, manual, applied>>
<1>a. TypeOK /\ op[o].app \in Apps
  BY Types DEF TypeInv, OpKnown, StartRollback
<1> DEFINE doc == schedule[op[o].app]
           r == [pc |-> "acting", enabled |-> doc.enabled, generation |-> doc.generation,
                 next |-> doc.next]
<1>1. doc \in ScheduleRecord
  BY <1>a, Types
<1>2. r \in ExecutorRecord /\ r.pc = "acting"
  BY <1>1 DEF ScheduleRecord, ExecutorRecord
<1>3. executor' = [executor EXCEPT ![o] = r]
  BY DEF StartRollback
<1>4. ExecutorIs(o, r.pc)
  BY <1>a, <1>2, <1>3, ExecutorUpdate
<1> QED BY <1>2, <1>4 DEF StartRollback

LEMMA ConfirmRollbackEffect ==
  ASSUME TypeInv, NEW o \in Ops, ConfirmRollback(o)
  PROVE  /\ executor[o].pc = "acting" /\ job[o].type = "rollback"
         /\ ExecutorIs(o, "confirmed")
         /\ UNCHANGED <<queue, now, schedule, job, scan, edit, manual, applied>>
<1>a. TypeOK /\ executor[o] \in ExecutorRecord
  BY Types DEF TypeInv
<1> DEFINE r == [executor[o] EXCEPT !.pc = "confirmed"]
<1>1. r \in ExecutorRecord /\ r.pc = "confirmed"
  BY <1>a DEF ExecutorRecord
<1>2. executor' = [executor EXCEPT ![o] = r]
  BY DEF ConfirmRollback
<1>3. ExecutorIs(o, r.pc)
  BY <1>a, <1>1, <1>2, ExecutorUpdate
<1> QED BY <1>1, <1>3 DEF ConfirmRollback

\* The executor of a rollback holds a document from "acting" on.
LEMMA SaveRollbackEffect ==
  ASSUME TypeInv, NEW o \in Ops, SaveRollback(o)
  PROVE  /\ executor[o].pc = "confirmed" /\ op[o].app \in Apps
         /\ ExecutorIs(o, "saved")
         /\ \E r \in ScheduleRecord : ScheduleIs(op[o].app, r)
         /\ UNCHANGED <<queue, now, job, scan, edit, manual, applied>>
<1>a. TypeOK /\ op[o].app \in Apps /\ executor[o] \in ExecutorRecord
  BY Types DEF TypeInv, OpKnown, SaveRollback
<1> DEFINE a == op[o].app
           doc == executor[o]
           r == [schedule[a] EXCEPT !.enabled = IF doc.enabled THEN FALSE ELSE @,
                                    !.next = IF doc.next # None THEN None ELSE @,
                                    !.generation = doc.generation + 1]
<1>1. schedule[a] \in ScheduleRecord
  BY <1>a, Types
<1>2. r \in ScheduleRecord
  <2>1. /\ (IF doc.enabled THEN FALSE ELSE schedule[a].enabled) \in BOOLEAN
        /\ (IF doc.next # None THEN None ELSE schedule[a].next) \in Time
        /\ doc.generation + 1 \in Nat
    <3>1. schedule[a].enabled \in BOOLEAN /\ schedule[a].next \in Time
      BY <1>1 DEF ScheduleRecord
    <3>2. doc.generation \in Nat
      BY <1>a DEF ExecutorRecord
    <3>3. (IF doc.enabled THEN FALSE ELSE schedule[a].enabled) \in BOOLEAN
      <4>1. CASE doc.enabled
        BY <4>1
      <4> QED BY <3>1, <4>1
    <3>4. (IF doc.next # None THEN None ELSE schedule[a].next) \in Time
      BY <3>1 DEF Time
    <3>5. doc.generation + 1 \in Nat
      BY <3>2
    <3> QED BY <3>3, <3>4, <3>5, Zenon
  <2> QED BY <1>1, <2>1 DEF ScheduleRecord
<1>3. schedule' = [schedule EXCEPT ![a] = r]
  BY DEF SaveRollback
<1>4. ScheduleIs(a, r)
  BY <1>a, <1>2, <1>3, ScheduleUpdate
<1>5. ExecutorIs(o, "saved")
  BY <1>a, ExecutorSet DEF SaveRollback
<1> QED BY <1>a, <1>2, <1>4, <1>5 DEF SaveRollback

LEMMA ExecutorStopsEffect ==
  ASSUME TypeInv, NEW o \in Ops, ExecutorStops(o)
  PROVE  /\ executor[o].pc # "none" /\ ExecutorIs(o, "none")
         /\ UNCHANGED <<queue, now, schedule, job, scan, edit, manual, applied>>
<1>1. NoExecutor \in ExecutorRecord /\ NoExecutor.pc = "none"
  BY DEF NoExecutor, ExecutorRecord, Time
<1> QED BY <1>1, ExecutorUpdate DEF ExecutorStops, TypeInv

LEMMA EditLoadEffect ==
  ASSUME TypeInv, NEW a \in Apps, EditLoad(a)
  PROVE  /\ EditIs(a, [pc |-> "loaded", enabled |-> schedule[a].enabled,
                       generation |-> schedule[a].generation, next |-> schedule[a].next,
                       lastOp |-> schedule[a].lastOp, checked |-> schedule[a].checked])
         /\ UNCHANGED <<queue, now, schedule, job, scan, executor, manual, applied>>
<1>a. TypeOK /\ schedule[a] \in ScheduleRecord
  BY Types DEF TypeInv
<1> DEFINE r == [pc |-> "loaded", enabled |-> schedule[a].enabled,
                 generation |-> schedule[a].generation, next |-> schedule[a].next,
                 lastOp |-> schedule[a].lastOp, checked |-> schedule[a].checked]
<1>1. r \in EditRecord
  BY <1>a DEF ScheduleRecord, EditRecord
<1>2. edit' = [edit EXCEPT ![a] = r]
  BY DEF EditLoad
<1>3. EditIs(a, r)
  BY <1>a, <1>1, <1>2, EditUpdate
<1> QED BY <1>3 DEF EditLoad

\* A save changes nothing but the configuration's version, or makes a new
\* schedule: of the next generation, enabled exactly if it has a next slot.
ScheduleEdited(a, r) ==
  /\ r.generation = edit[a].generation + 1
  /\ r.projected = schedule[a].projected /\ r.failures = schedule[a].failures
  /\ edit[a].enabled = schedule[a].enabled /\ (schedule[a].enabled <=> schedule[a].next # None)
     /\ (edit[a].enabled <=> edit[a].next # None)
     => (r.enabled <=> r.next # None)

SameSchedule(a, r) ==
  /\ r.enabled = schedule[a].enabled /\ r.generation = schedule[a].generation
  /\ r.next = schedule[a].next /\ r.lastOp = schedule[a].lastOp
  /\ r.projected = schedule[a].projected /\ r.failures = schedule[a].failures

LEMMA EditSaveEffect ==
  ASSUME TypeInv, NEW a \in Apps, EditSave(a)
  PROVE  /\ edit[a].pc = "loaded"
         /\ \E r \in ScheduleRecord : /\ ScheduleIs(a, r)
                                      /\ SameSchedule(a, r) \/ ScheduleEdited(a, r)
         /\ \E e \in EditRecord : EditIs(a, e) /\ e.pc # "loaded"
         /\ UNCHANGED <<queue, now, job, scan, executor, manual, applied>>
<1>a. TypeOK /\ schedule[a] \in ScheduleRecord /\ edit[a] \in EditRecord /\ now \in Nat
  BY Types DEF TypeInv
<1> DEFINE doc == edit[a]
           DueThen(enable, source) == IF enable THEN EditedDue(doc, source) ELSE None
           Saved(enable, source) ==
             [schedule[a] EXCEPT
                !.enabled = IF enable = doc.enabled THEN @ ELSE enable,
                !.generation = doc.generation + 1,
                !.lastOp = IF None = doc.lastOp THEN @ ELSE None,
                !.next = IF DueThen(enable, source) = doc.next THEN @ ELSE DueThen(enable, source)]
           Change(enable, interval, source) == source \/ interval \/ enable # doc.enabled
<1>1. PICK enable \in BOOLEAN, interval \in BOOLEAN, source \in BOOLEAN :
        /\ schedule' = [schedule EXCEPT ![a] =
             [(IF Change(enable, interval, source) THEN Saved(enable, source) ELSE schedule[a])
                EXCEPT !.config = @ + 1]]
        /\ edit' = [edit EXCEPT ![a] =
             [NoEdit EXCEPT !.pc = IF Change(enable, interval, source) THEN "saved" ELSE "idle"]]
  BY DEF EditSave
<1>2. DueThen(enable, source) \in Time /\ (DueThen(enable, source) # None <=> enable)
  <2>1. EditedDue(doc, source) \in Nat
    BY <1>a, IntervalAssumption DEF EditedDue, Later, EditRecord, Time
  <2> QED BY <2>1, QueueAssumption DEF Time
<1> HIDE DEF DueThen
<1>3. CASE Change(enable, interval, source)
  <2> DEFINE x == Saved(enable, source)
             r == [x EXCEPT !.config = @ + 1]
  <2>1. r \in ScheduleRecord
    <3>1. /\ (IF enable = doc.enabled THEN schedule[a].enabled ELSE enable) \in BOOLEAN
          /\ doc.generation + 1 \in Nat
          /\ (IF None = doc.lastOp THEN schedule[a].lastOp ELSE None) \in Ops \cup {None}
          /\ (IF DueThen(enable, source) = doc.next THEN schedule[a].next ELSE DueThen(enable, source)) \in Time
      BY <1>a, <1>2 DEF ScheduleRecord, EditRecord
    <3>2. x \in ScheduleRecord
      BY <1>a, <3>1 DEF ScheduleRecord
    <3> HIDE DEF x
    <3> QED BY <3>2 DEF ScheduleRecord
  <2>2. ScheduleEdited(a, r)
    <3>1. /\ r.enabled = IF enable = doc.enabled THEN schedule[a].enabled ELSE enable
          /\ r.generation = doc.generation + 1
          /\ r.next = IF DueThen(enable, source) = doc.next THEN schedule[a].next
                                                         ELSE DueThen(enable, source)
          /\ r.projected = schedule[a].projected /\ r.failures = schedule[a].failures
      BY <1>a DEF ScheduleRecord
    <3> HIDE DEF r
    <3> QED BY <3>1, <1>2, <1>a DEF ScheduleEdited, EditRecord, ScheduleRecord
  <2>3. schedule' = [schedule EXCEPT ![a] = r]
    BY <1>1, <1>3
  <2>4. ScheduleIs(a, r)
    BY <1>a, <2>1, <2>3, ScheduleUpdate
  <2>5. [NoEdit EXCEPT !.pc = "saved"] \in EditRecord /\ [NoEdit EXCEPT !.pc = "saved"].pc = "saved"
    BY DEF NoEdit, EditRecord, Time
  <2>6. EditIs(a, [NoEdit EXCEPT !.pc = "saved"])
    BY <1>a, <1>1, <1>3, <2>5, EditUpdate
  <2> QED BY <2>1, <2>2, <2>4, <2>5, <2>6 DEF EditSave
<1>4. CASE ~Change(enable, interval, source)
  <2> DEFINE r == [schedule[a] EXCEPT !.config = @ + 1]
  <2>1. r \in ScheduleRecord /\ SameSchedule(a, r)
    BY <1>a DEF ScheduleRecord, SameSchedule
  <2>3. schedule' = [schedule EXCEPT ![a] = r]
    BY <1>1, <1>4
  <2>4. ScheduleIs(a, r)
    BY <1>a, <2>1, <2>3, ScheduleUpdate
  <2>5. [NoEdit EXCEPT !.pc = "idle"] \in EditRecord /\ [NoEdit EXCEPT !.pc = "idle"].pc = "idle"
    BY DEF NoEdit, EditRecord, Time
  <2>6. EditIs(a, [NoEdit EXCEPT !.pc = "idle"])
    BY <1>a, <1>1, <1>4, <2>5, EditUpdate
  <2> QED BY <2>1, <2>4, <2>5, <2>6 DEF EditSave
<1> QED BY <1>3, <1>4

LEMMA EditCancelQueuedEffect ==
  ASSUME TypeInv, NEW a \in Apps, EditCancelQueued(a)
  PROVE  /\ \E e \in EditRecord : EditIs(a, e) /\ e.pc # "loaded"
         /\ \/ UNCHANGED <<queue, job>>
            \/ \E o \in Ops : /\ Queued(o) /\ OpIs(o, "cancelled", FALSE)
                              /\ JobIs(o, now, job[o].reconciled)
         /\ UNCHANGED <<now, schedule, scan, executor, manual, applied>>
<1>a. TypeOK /\ edit[a] \in EditRecord
  BY Types DEF TypeInv
<1>1. ASSUME NEW o \in Ops, CancelQueued(o), job' = [job EXCEPT ![o].completed = now]
      PROVE  Queued(o) /\ OpIs(o, "cancelled", FALSE) /\ JobIs(o, now, job[o].reconciled)
  <2>1. FinishOperation(o, "cancelled") /\ Queued(o)
    BY <1>1 DEF CancelQueued, FinishOperation
  <2>2. "cancelled" \in Terminal
    BY DEF Terminal
  <2> QED BY <1>a, <1>1, <2>1, <2>2, FinishIs, JobCompleted
<1>2. \/ UNCHANGED <<queue, job>>
      \/ \E o \in Ops : CancelQueued(o) /\ job' = [job EXCEPT ![o].completed = now]
  BY Zenon DEF EditCancelQueued
<1> DEFINE e == [edit[a] EXCEPT !.pc = "idle"]
<1>3. e \in EditRecord /\ e.pc = "idle"
  BY <1>a DEF EditRecord
<1>4. edit' = [edit EXCEPT ![a] = e]
  BY DEF EditCancelQueued
<1> HIDE DEF e
<1>5. EditIs(a, e)
  BY <1>a, <1>3, <1>4, EditUpdate
<1>6. e.pc # "loaded"
  BY <1>3
<1> QED BY <1>1, <1>2, <1>3, <1>5, <1>6, Zenon DEF EditCancelQueued

LEMMA EditFailsEffect ==
  ASSUME TypeInv, NEW a \in Apps, EditFails(a)
  PROVE  /\ \E e \in EditRecord : EditIs(a, e) /\ e.pc # "loaded"
         /\ UNCHANGED <<queue, now, schedule, job, scan, executor, manual, applied>>
<1>1. NoEdit \in EditRecord /\ NoEdit.pc # "loaded"
  BY DEF NoEdit, EditRecord, Time
<1> QED BY <1>1, EditUpdate DEF EditFails, TypeInv

ManualRecord == [pc : {"idle", "loaded"}, generation : Nat, config : Nat]

LEMMA ManualEffect ==
  ASSUME TypeInv, NEW a \in Apps, ManualLoad(a) \/ ManualRefused(a)
  PROVE  /\ manual' \in [Apps -> ManualRecord]
         /\ UNCHANGED <<queue, now, schedule, job, scan, executor, edit, applied>>
<1>1. manual \in [Apps -> ManualRecord] /\ schedule[a] \in ScheduleRecord
  BY Types DEF TypeInv, TypeOK, ManualRecord
<1>2. schedule[a].generation \in Nat /\ schedule[a].config \in Nat
  BY <1>1 DEF ScheduleRecord
<1> QED BY <1>1, <1>2 DEF ManualLoad, ManualRefused, ManualRecord

LEMMA ManualCreateEffect ==
  ASSUME TypeInv, NEW a \in Apps, ManualCreate(a)
  PROVE  /\ manual' \in [Apps -> ManualRecord]
         /\ \E o \in Ops, type \in ManualTypes :
              /\ OpBorn(o, a, None) /\ JobBorn(o, type, None, manual[a].generation)
         /\ UNCHANGED <<now, schedule, scan, executor, edit, applied>>
<1>a. TypeOK
  BY DEF TypeInv
<1>1. manual \in [Apps -> ManualRecord]
  BY <1>a DEF TypeOK, ManualRecord
<1>2. manual[a].generation \in Nat /\ manual[a].config \in Nat
  BY <1>1 DEF ManualRecord
<1>3. PICK o \in Ops, type \in ManualTypes :
        /\ CreateOperation(o, a, None)
        /\ CreateJob(o, type, None, manual[a].generation, manual[a].config)
  BY Zenon DEF ManualCreate
<1>4. OpBorn(o, a, None)
  BY <1>a, <1>3, OperationBorn
<1>5. JobBorn(o, type, None, manual[a].generation)
  BY <1>a, <1>2, <1>3, ManualAssumption, JobIsBorn DEF Time
<1>6. manual' \in [Apps -> ManualRecord]
  BY <1>1 DEF ManualCreate, ManualRecord
<1> QED BY <1>4, <1>5, <1>6 DEF ManualCreate

-----------------------------------------------------------------------------
(* Types are preserved.                                                     *)

\* What scans know stays true while operations only move on.
MovesOn ==
  \A o \in Ops : /\ Exists(o) => Exists(o)' /\ op'[o].app = op[o].app
                 /\ op[o].status \in Terminal => op'[o].status \in Terminal

LEMMA ScansSpared ==
  ASSUME TypeInv, MovesOn, NEW s \in Schedulers, scan'[s] = scan[s]
  PROVE  ScanKnown(s)'
<1>1. scan[s] \in ScanRecord
  BY Types DEF TypeInv
<1>2. ScanKnown(s) /\ scan[s].list \subseteq Ops
  BY <1>1 DEF TypeInv, ScanRecord
<1> QED BY <1>2 DEF ScanKnown, MovesOn

LEMMA ScanMoved ==
  ASSUME TypeInv, NEW s \in Schedulers, NEW r, ScanIs(s, r), MovesOn,
         r.pc \in AtApp => r.app \in Apps /\ r.slot \in Nat,
         r.pc = "record" => r.op \in Ops,
         r.pc \in AtList => \A o \in r.list : op[o].status \in Terminal
  PROVE  \A t \in Schedulers : ScanKnown(t)'
<1>1. ASSUME NEW t \in Schedulers, t # s PROVE ScanKnown(t)'
  BY <1>1, ScansSpared DEF ScanIs
<1>2. ScanKnown(s)'
  BY DEF ScanIs, ScanKnown, MovesOn, ScanRecord
<1> QED BY <1>1, <1>2

LEMMA OpsSpared ==
  ASSUME TypeInv, UNCHANGED <<op, job, executor>>
  PROVE  MovesOn /\ \A o \in Ops : OpKnown(o)'
BY DEF MovesOn, OpKnown, TypeInv, Exists

LEMMA ScanStepTyped ==
  ASSUME TypeInv, NEW s \in Schedulers, ScanStep(s)
  PROVE  TypeInv'
<1>a. TypeOK /\ scan[s] \in ScanRecord /\ ScanKnown(s)
  BY Types DEF TypeInv
<1>b. scan[s].list \subseteq Ops
  BY <1>a DEF ScanRecord
<1>1. ASSUME NEW r, ScanIs(s, r), UNCHANGED <<queue, now, schedule, job, executor, edit, manual, applied>>,
             r.pc \in AtApp => r.app \in Apps /\ r.slot \in Nat,
             r.pc = "record" => r.op \in Ops,
             r.pc \in AtList => \A o \in r.list : op[o].status \in Terminal
      PROVE  TypeInv'
  <2>1. op' = op /\ created' = created
    BY <1>1 DEF queue
  <2>2. MovesOn /\ \A o \in Ops : OpKnown(o)'
    BY <1>1, <2>1, OpsSpared
  <2>3. \A t \in Schedulers : ScanKnown(t)'
    BY <1>1, <2>2, ScanMoved
  <2>4. TypeOK'
    BY <1>a, <1>1, <2>1 DEF TypeOK, OperationsTypeOK, ScanIs
  <2> QED BY <2>2, <2>3, <2>4 DEF TypeInv
<1>2. ASSUME ScanIs(s, IdleScan), UNCHANGED <<queue, now, schedule, job, executor, edit, manual, applied>>
      PROVE  TypeInv'
  BY <1>1, <1>2, IdleRecord DEF AtApp, AtList
<1>3. CASE ScanStart(s)
  <2> DEFINE list == {o \in Ops : Unreconciled(o)}
             r == Reconcile(list)
  <2>1. r \in ScanRecord /\ r.pc \in {"scan", "reconcile"} /\ r.list = list
    BY ReconcileRecord
  <2>2. ScanIs(s, r)
    BY <1>3, <1>a, <2>1, ScanUpdate DEF ScanStart
  <2>3. \A o \in list : op[o].status \in Terminal
    BY DEF Unreconciled
  <2> HIDE DEF r, list
  <2> QED BY <1>3, <1>1, <2>1, <2>2, <2>3 DEF ScanStart, AtApp, AtList
<1>4. CASE LoadApp(s)
  <2>1. PICK o \in Ops :
          /\ scan[s].pc = "reconcile"
          /\ ScanIs(s, [scan[s] EXCEPT !.pc = "project",
                                       !.enabled = schedule[op[o].app].enabled,
                                       !.failures = schedule[op[o].app].failures])
          /\ UNCHANGED <<queue, now, schedule, job, executor, edit, manual, applied>>
    BY <1>4, LoadAppEffect
  <2> DEFINE r == [scan[s] EXCEPT !.pc = "project", !.enabled = schedule[op[o].app].enabled,
                                  !.failures = schedule[op[o].app].failures]
  <2>2. r.pc = "project" /\ r.list = scan[s].list
    BY <1>a DEF ScanRecord
  <2>3. ScanIs(s, r)
    BY <2>1
  <2> HIDE DEF r
  <2> QED BY <1>1, <1>a, <2>1, <2>2, <2>3 DEF AtApp, AtList, ScanKnown
<1>5. CASE Project(s)
  <2>1. PICK o \in Ops :
          /\ scan[s].pc = "project" /\ op[o].app \in Apps
          /\ ScanIs(s, [scan[s] EXCEPT !.pc = "mark"])
          /\ \/ UNCHANGED <<schedule, applied>>
             \/ /\ \E r : ScheduleIs(op[o].app, r)
                /\ applied' = applied \/ applied' = [applied EXCEPT ![op[o].app] = Append(@, o)]
          /\ UNCHANGED <<queue, now, job, executor, edit, manual>>
    BY <1>5, ProjectEffect
  <2>2. op' = op /\ created' = created
    BY <2>1 DEF queue
  <2>3. applied' \in [Apps -> Seq(Ops)] /\ schedule' \in [Apps -> ScheduleRecord]
    <3>1. applied \in [Apps -> Seq(Ops)] /\ schedule \in [Apps -> ScheduleRecord]
      BY <1>a, Types
    <3>2. Append(applied[op[o].app], o) \in Seq(Ops)
      BY <2>1, <3>1
    <3> QED BY <2>1, <3>1, <3>2 DEF ScheduleIs
  <2>4. MovesOn /\ \A x \in Ops : OpKnown(x)'
    BY <2>1, <2>2, OpsSpared
  <2>5. \A t \in Schedulers : ScanKnown(t)'
    <3> DEFINE r == [scan[s] EXCEPT !.pc = "mark"]
    <3>1. r.pc = "mark" /\ r.list = scan[s].list /\ ScanIs(s, r)
      BY <1>a, <2>1 DEF ScanRecord
    <3> HIDE DEF r
    <3> QED BY <1>a, <2>1, <2>4, <3>1, ScanMoved DEF AtApp, AtList, ScanKnown
  <2>6. TypeOK'
    BY <1>a, <2>1, <2>2, <2>3 DEF TypeOK, OperationsTypeOK, ScanIs
  <2> QED BY <2>4, <2>5, <2>6 DEF TypeInv
<1>6. CASE MarkReconciled(s)
  <2>1. PICK o \in Ops :
          /\ scan[s].pc = "mark" /\ JobIs(o, job[o].completed, TRUE)
          /\ ScanIs(s, Reconcile(scan[s].list \ {o}))
          /\ UNCHANGED <<queue, now, schedule, executor, edit, manual, applied>>
    BY <1>6, MarkReconciledEffect
  <2>2. op' = op /\ created' = created
    BY <2>1 DEF queue
  <2>3. MovesOn /\ \A x \in Ops : OpKnown(x)'
    <3>1. \A x \in Ops : job'[x].completed = job[x].completed
      BY <2>1 DEF JobIs
    <3> QED BY <2>1, <2>2, <3>1 DEF MovesOn, OpKnown, TypeInv, Exists
  <2>4. \A t \in Schedulers : ScanKnown(t)'
    <3> DEFINE r == Reconcile(scan[s].list \ {o})
    <3>1. r.pc \in {"scan", "reconcile"} /\ r.list = scan[s].list \ {o}
      BY <1>b, ReconcileRecord
    <3>2. ScanIs(s, r)
      BY <2>1
    <3> HIDE DEF r
    <3> QED BY <1>a, <2>1, <2>3, <3>1, <3>2, ScanMoved DEF AtApp, AtList, ScanKnown
  <2>5. TypeOK'
    BY <1>a, <2>1, <2>2 DEF TypeOK, OperationsTypeOK, ScanIs, JobIs
  <2> QED BY <2>3, <2>4, <2>5 DEF TypeInv
<1>7. CASE PickDue(s)
  <2>1. PICK a \in Apps :
          /\ Due(a)
          /\ ScanIs(s, [scan[s] EXCEPT
               !.pc = "lookup", !.app = a, !.generation = schedule[a].generation,
               !.slot = IF schedule[a].next = None THEN now ELSE schedule[a].next])
          /\ UNCHANGED <<queue, now, schedule, job, executor, edit, manual, applied>>
    BY <1>7, PickDueEffect
  <2> DEFINE r == [scan[s] EXCEPT
                     !.pc = "lookup", !.app = a, !.generation = schedule[a].generation,
                     !.slot = IF schedule[a].next = None THEN now ELSE schedule[a].next]
  <2>2. /\ r.pc = "lookup" /\ r.app = a
        /\ r.slot = IF schedule[a].next = None THEN now ELSE schedule[a].next
    BY <1>a DEF ScanRecord
  <2>3. schedule[a].next \in Time /\ now \in Nat
    BY <1>a, Types DEF ScheduleRecord
  <2>4. r.slot \in Nat
    BY <2>2, <2>3 DEF Time
  <2>5. ScanIs(s, r)
    BY <2>1
  <2> HIDE DEF r
  <2> QED BY <1>1, <2>1, <2>2, <2>4, <2>5 DEF AtApp, AtList
<1>8. CASE NothingDue(s) \/ ScanFails(s)
  BY <1>8, <1>2, <1>a, ScanUpdate, IdleRecord DEF NothingDue, ScanFails
<1>9. ASSUME NEW o \in Ops, ScanIs(s, [scan[s] EXCEPT !.pc = "record", !.op = o]),
             scan[s].pc \in AtApp, UNCHANGED <<queue, now, schedule, job, executor, edit, manual, applied>>
      PROVE  TypeInv'
  <2> DEFINE r == [scan[s] EXCEPT !.pc = "record", !.op = o]
  <2>1. r.pc = "record" /\ r.op = o /\ r.app = scan[s].app /\ r.slot = scan[s].slot /\ ScanIs(s, r)
    BY <1>a, <1>9 DEF ScanRecord
  <2> HIDE DEF r
  <2> QED BY <1>1, <1>9, <1>a, <2>1 DEF AtApp, AtList, ScanKnown
<1>10. ASSUME NEW pc \in {"load", "create"}, NEW c, ScanIs(s, [scan[s] EXCEPT !.pc = pc, !.config = c]),
              scan[s].pc \in AtApp, UNCHANGED <<queue, now, schedule, job, executor, edit, manual, applied>>
       PROVE  TypeInv'
  <2> DEFINE r == [scan[s] EXCEPT !.pc = pc, !.config = c]
  <2>1. r.pc = pc /\ r.app = scan[s].app /\ r.slot = scan[s].slot /\ ScanIs(s, r)
    BY <1>a, <1>10 DEF ScanRecord
  <2> HIDE DEF r
  <2> QED BY <1>1, <1>10, <1>a, <2>1 DEF AtApp, AtList, ScanKnown
<1>11. CASE LookupSlot(s)
  <2>1. [scan[s] EXCEPT !.pc = "load"] = [scan[s] EXCEPT !.pc = "load", !.config = scan[s].config]
    BY <1>a DEF ScanRecord
  <2> QED BY <1>11, <2>1, LookupSlotEffect, <1>9, <1>10 DEF AtApp
<1>12. CASE LoadConfig(s)
  BY <1>12, LoadConfigEffect, <1>10 DEF AtApp
<1>13. CASE CreateRefused(s)
  BY <1>13, CreateRefusedEffect, <1>2, <1>9 DEF AtApp
<1>14. CASE RecordOperation(s)
  <2>1. /\ ScanIs(s, IdleScan)
        /\ schedule' = schedule \/ \E r : ScheduleIs(scan[s].app, r)
        /\ UNCHANGED <<queue, now, job, executor, edit, manual, applied>>
    BY <1>14, RecordOperationEffect
  <2>2. op' = op /\ created' = created /\ schedule' \in [Apps -> ScheduleRecord]
    BY <2>1, <1>a, Types DEF queue, ScheduleIs
  <2>3. MovesOn /\ \A x \in Ops : OpKnown(x)'
    BY <2>1, <2>2, OpsSpared
  <2>4. \A t \in Schedulers : ScanKnown(t)'
    BY <2>1, <2>3, ScanMoved, IdleRecord DEF AtApp, AtList
  <2>5. TypeOK'
    BY <1>a, <2>1, <2>2 DEF TypeOK, OperationsTypeOK, ScanIs
  <2> QED BY <2>3, <2>4, <2>5 DEF TypeInv
<1>15. CASE CreateAuto(s)
  <2>1. PICK o \in Ops :
          /\ OpBorn(o, scan[s].app, Key(s))
          /\ JobBorn(o, "update", scan[s].slot, scan[s].generation)
          /\ ScanIs(s, [scan[s] EXCEPT !.pc = "record", !.op = o])
          /\ UNCHANGED <<now, schedule, executor, edit, manual, applied>>
    BY <1>15, CreateAutoEffect
  <2>2. scan[s].pc \in AtApp /\ scan[s].app \in Apps /\ scan[s].slot \in Nat
    BY <1>15, <1>a DEF CreateAuto, ScanKnown, AtApp
  <2>3. MovesOn /\ \A x \in Ops : OpKnown(x)'
    BY <2>1, <2>2 DEF OpBorn, JobBorn, MovesOn, OpKnown, TypeInv, Exists, Terminal
  <2>4. \A t \in Schedulers : ScanKnown(t)'
    <3> DEFINE r == [scan[s] EXCEPT !.pc = "record", !.op = o]
    <3>1. r.pc = "record" /\ r.op = o /\ r.app = scan[s].app /\ r.slot = scan[s].slot /\ ScanIs(s, r)
      BY <1>a, <2>1 DEF ScanRecord
    <3> HIDE DEF r
    <3> QED BY <2>2, <2>3, <3>1, ScanMoved DEF AtList
  <2>5. created' \in Seq(Ops)
    BY <2>1, <1>a, Types DEF OpBorn
  <2>6. TypeOK'
    BY <1>a, <2>1, <2>5 DEF TypeOK, OperationsTypeOK, ScanIs, OpBorn, JobBorn
  <2> QED BY <2>3, <2>4, <2>6 DEF TypeInv
<1> QED BY <1>3, <1>4, <1>5, <1>6, <1>7, <1>8, <1>11, <1>12, <1>13, <1>14, <1>15, Zenon DEF ScanStep

\* The steps of an executor and of people leave the scans alone.
LEMMA OtherStepTyped ==
  ASSUME TypeInv, MovesOn, scan' = scan, TypeOK', \A o \in Ops : OpKnown(o)'
  PROVE  TypeInv'
BY ScansSpared DEF TypeInv

\* One operation moves on, not to an earlier state.
LEMMA OpMovesOn ==
  ASSUME TypeInv, NEW o \in Ops, NEW status, NEW active, OpIs(o, status, active),
         Exists(o), status # "absent", op[o].status \in Terminal => status \in Terminal,
         status \in Terminal => job'[o].completed \in Nat,
         \A x \in Ops \ {o} : job'[x] = job[x] /\ executor'[x] = executor[x]
  PROVE  MovesOn /\ \A x \in Ops : OpKnown(x)'
BY DEF OpIs, MovesOn, OpKnown, TypeInv, Exists

LEMMA ExecutorMovesOn ==
  ASSUME TypeInv, NEW o \in Ops, NEW pc, ExecutorIs(o, pc), executor[o].pc # "none",
         UNCHANGED <<queue, job>>
  PROVE  /\ MovesOn /\ (\A x \in Ops : OpKnown(x)') /\ op' = op /\ created' = created
BY DEF ExecutorIs, MovesOn, OpKnown, TypeInv, Exists, queue

LEMMA ExecutorStepTyped ==
  ASSUME TypeInv, NEW o \in Ops, ExecutorStep(o)
  PROVE  TypeInv'
<1>a. TypeOK /\ OpKnown(o)
  BY DEF TypeInv
<1>b. op[o] \in OperationRecord /\ job[o] \in JobRecord /\ now \in Nat
  BY <1>a, Types
<1>1. ASSUME NEW pc, ExecutorIs(o, pc), executor[o].pc # "none",
             UNCHANGED <<queue, now, job, scan, edit, manual, applied>>,
             schedule' = schedule \/ \E a, r : ScheduleIs(a, r)
      PROVE  TypeInv'
  <2>1. MovesOn /\ (\A x \in Ops : OpKnown(x)') /\ op' = op /\ created' = created
    BY <1>1, ExecutorMovesOn
  <2>2. schedule' \in [Apps -> ScheduleRecord]
    BY <1>1, <1>a, Types DEF ScheduleIs
  <2>3. TypeOK'
    BY <1>a, <1>1, <2>1, <2>2 DEF TypeOK, OperationsTypeOK, ExecutorIs
  <2> QED BY <1>1, <2>1, <2>3, OtherStepTyped
<1>2. CASE ClaimJob(o)
  <2>1. /\ Queued(o) /\ OpIs(o, "running", TRUE) /\ ExecutorIs(o, "claimed")
        /\ UNCHANGED <<now, schedule, job, scan, edit, manual, applied>>
    BY <1>2, ClaimJobEffect
  <2>2. MovesOn /\ \A x \in Ops : OpKnown(x)'
    BY <2>1, OpMovesOn DEF Queued, Exists, Terminal, ExecutorIs
  <2>3. TypeOK'
    BY <1>a, <2>1 DEF TypeOK, OperationsTypeOK, OpIs, ExecutorIs
  <2> QED BY <2>1, <2>2, <2>3, OtherStepTyped
<1>3. CASE CheckJob(o)
  BY <1>3, <1>1, CheckJobEffect
<1>4. CASE StartUpdate(o)
  BY <1>4, <1>1, StartUpdateEffect
<1>5. CASE StartRollback(o)
  BY <1>5, <1>1, StartRollbackEffect
<1>6. CASE ConfirmRollback(o)
  BY <1>6, <1>1, ConfirmRollbackEffect
<1>7. CASE SaveRollback(o)
  BY <1>7, <1>1, SaveRollbackEffect
<1>8. CASE FinishJob(o)
  <2>1. PICK result \in Terminal :
          /\ executor[o].pc # "none" /\ OpIs(o, result, FALSE)
          /\ JobIs(o, now, job[o].reconciled) /\ ExecutorIs(o, "none")
          /\ UNCHANGED <<now, schedule, scan, edit, manual, applied>>
    BY <1>8, FinishJobEffect
  <2>2. Exists(o) /\ result # "absent"
    BY <2>1, <1>a DEF OpKnown, Terminal
  <2>3. MovesOn /\ \A x \in Ops : OpKnown(x)'
    BY <2>1, <2>2, <1>b, OpMovesOn DEF JobIs, ExecutorIs
  <2>4. TypeOK'
    BY <1>a, <2>1 DEF TypeOK, OperationsTypeOK, OpIs, JobIs, ExecutorIs
  <2> QED BY <2>1, <2>3, <2>4, OtherStepTyped
<1>9. CASE ExecutorStops(o)
  BY <1>9, <1>1, ExecutorStopsEffect
<1>10. CASE RecoverJob(o)
  <2>1. /\ op[o].status \in InFlight /\ OpIs(o, "failed", TRUE) /\ JobIs(o, now, job[o].reconciled)
        /\ UNCHANGED <<now, schedule, scan, executor, edit, manual, applied>>
    BY <1>10, RecoverJobEffect
  <2>2. Exists(o) /\ "failed" \in Terminal
    BY <2>1 DEF InFlight, Exists, Terminal
  <2>3. MovesOn /\ \A x \in Ops : OpKnown(x)'
    BY <2>1, <2>2, <1>b, OpMovesOn DEF JobIs
  <2>4. TypeOK'
    BY <1>a, <2>1 DEF TypeOK, OperationsTypeOK, OpIs, JobIs
  <2> QED BY <2>1, <2>3, <2>4, OtherStepTyped
<1>11. CASE ReleaseJob(o)
  <2>1. /\ OpIs(o, op[o].status, FALSE)
        /\ UNCHANGED <<now, schedule, job, scan, executor, edit, manual, applied>>
    BY <1>11, ReleaseJobEffect
  <2>2. op[o].code # "none"
    BY <1>11 DEF ReleaseJob, UnlockByHand
  <2>3. MovesOn /\ \A x \in Ops : OpKnown(x)'
    BY <2>1, <1>a DEF OpIs, MovesOn, OpKnown, TypeInv, Exists
  <2>4. TypeOK'
    BY <1>a, <2>1 DEF TypeOK, OperationsTypeOK, OpIs
  <2> QED BY <2>1, <2>3, <2>4, OtherStepTyped
<1> QED BY <1>2, <1>3, <1>4, <1>5, <1>6, <1>7, <1>8, <1>9, <1>10, <1>11, Zenon DEF ExecutorStep

LEMMA AppStepTyped ==
  ASSUME TypeInv, NEW a \in Apps, AppStep(a)
  PROVE  TypeInv'
<1>a. TypeOK
  BY DEF TypeInv
<1>1. ASSUME NEW e, EditIs(a, e), UNCHANGED <<queue, now, job, scan, executor, manual, applied>>,
             schedule' = schedule \/ \E r : ScheduleIs(a, r)
      PROVE  TypeInv'
  <2>1. op' = op /\ created' = created /\ schedule' \in [Apps -> ScheduleRecord]
    BY <1>1, <1>a, Types DEF queue, ScheduleIs
  <2>2. MovesOn /\ \A x \in Ops : OpKnown(x)'
    BY <1>1, <2>1, OpsSpared
  <2>3. TypeOK'
    BY <1>a, <1>1, <2>1 DEF TypeOK, OperationsTypeOK, EditIs
  <2> QED BY <1>1, <2>2, <2>3, OtherStepTyped
<1>2. CASE EditLoad(a)
  BY <1>2, <1>1, EditLoadEffect
<1>3. CASE EditSave(a)
  BY <1>3, <1>1, EditSaveEffect
<1>4. CASE EditCancelQueued(a)
  <2>1. PICK e \in EditRecord : EditIs(a, e)
    BY <1>4, EditCancelQueuedEffect
  <2>2. UNCHANGED <<now, schedule, scan, executor, manual, applied>>
    BY <1>4, EditCancelQueuedEffect
  <2>3. CASE UNCHANGED <<queue, job>>
    BY <2>1, <2>2, <2>3, <1>1
  <2>4. ASSUME NEW o \in Ops, Queued(o), OpIs(o, "cancelled", FALSE), JobIs(o, now, job[o].reconciled)
        PROVE  TypeInv'
    <3>1. Exists(o) /\ "cancelled" \in Terminal /\ now \in Nat
      BY <2>4, <1>a, Types DEF Queued, Exists, Terminal
    <3>2. MovesOn /\ \A x \in Ops : OpKnown(x)'
      BY <2>2, <2>4, <3>1, OpMovesOn DEF JobIs
    <3>3. TypeOK'
      BY <1>a, <2>1, <2>2, <2>4 DEF TypeOK, OperationsTypeOK, OpIs, JobIs, EditIs
    <3> QED BY <2>2, <3>2, <3>3, OtherStepTyped
  <2> QED BY <1>4, <2>3, <2>4, EditCancelQueuedEffect
<1>5. CASE EditFails(a)
  BY <1>5, <1>1, EditFailsEffect
<1>6. CASE ManualLoad(a) \/ ManualRefused(a)
  <2>1. /\ manual' \in [Apps -> ManualRecord]
        /\ UNCHANGED <<queue, now, schedule, job, scan, executor, edit, applied>>
    BY <1>6, ManualEffect
  <2>2. op' = op /\ created' = created
    BY <2>1 DEF queue
  <2>3. MovesOn /\ \A x \in Ops : OpKnown(x)'
    BY <2>1, <2>2, OpsSpared
  <2>4. TypeOK'
    BY <1>a, <2>1, <2>2 DEF TypeOK, OperationsTypeOK, ManualRecord
  <2> QED BY <2>1, <2>3, <2>4, OtherStepTyped
<1>7. CASE ManualCreate(a)
  <2>1. PICK o \in Ops, type \in ManualTypes :
          OpBorn(o, a, None) /\ JobBorn(o, type, None, manual[a].generation)
    BY <1>7, ManualCreateEffect
  <2>2. /\ manual' \in [Apps -> ManualRecord]
        /\ UNCHANGED <<now, schedule, scan, executor, edit, applied>>
    BY <1>7, ManualCreateEffect
  <2>3. MovesOn /\ \A x \in Ops : OpKnown(x)'
    BY <2>1, <2>2 DEF OpBorn, JobBorn, MovesOn, OpKnown, TypeInv, Exists, Terminal
  <2>4. created' \in Seq(Ops)
    BY <2>1, <1>a, Types DEF OpBorn
  <2>5. TypeOK'
    BY <1>a, <2>1, <2>2, <2>4 DEF TypeOK, OperationsTypeOK, OpBorn, JobBorn, ManualRecord
  <2> QED BY <2>2, <2>3, <2>5, OtherStepTyped
<1> QED BY <1>2, <1>3, <1>4, <1>5, <1>6, <1>7, Zenon DEF AppStep

LEMMA InitTyped == Init => TypeInv
<1> SUFFICES ASSUME Init PROVE TypeInv
  OBVIOUS
<1>1. op \in [Ops -> OperationRecord] /\ created \in Seq(Ops) /\ \A o \in Ops : ~Exists(o)
  BY QueueAssumption DEF Init, OperationsInit, Absent, OperationRecord, Codes, Exists
<1>2. schedule \in [Apps -> ScheduleRecord]
  <2>1. NewSchedule \in ScheduleRecord
    BY DEF NewSchedule, ScheduleRecord, Time
  <2>2. [NewSchedule EXCEPT !.enabled = TRUE, !.next = 0] \in ScheduleRecord
    BY DEF NewSchedule, ScheduleRecord, Time
  <2> QED BY <2>1, <2>2 DEF Init
<1>3. job \in [Ops -> JobRecord] /\ executor \in [Ops -> ExecutorRecord]
  BY DEF Init, NoJob, JobRecord, NoExecutor, ExecutorRecord, Time
<1>4. scan \in [Schedulers -> ScanRecord] /\ \A s \in Schedulers : scan[s].pc = "idle"
  BY IdleRecord DEF Init
<1>5. edit \in [Apps -> EditRecord] /\ manual \in [Apps -> ManualRecord]
  BY DEF Init, NoEdit, EditRecord, ManualRecord, Time
<1>6. TypeOK
  BY <1>1, <1>2, <1>3, <1>4, <1>5 DEF Init, TypeOK, OperationsTypeOK, ManualRecord
<1>7. \A o \in Ops : OpKnown(o)
  BY <1>1 DEF OpKnown, Exists, Terminal, Init, NoExecutor
<1>8. \A s \in Schedulers : ScanKnown(s)
  BY <1>4 DEF ScanKnown, AtApp, AtList
<1> QED BY <1>6, <1>7, <1>8 DEF TypeInv

LEMMA NextTyped == TypeInv /\ [Next]_vars => TypeInv'
<1> SUFFICES ASSUME TypeInv, [Next]_vars PROVE TypeInv'
  OBVIOUS
<1>1. CASE ClockTicks
  <2>1. op' = op /\ created' = created /\ now' \in Nat
    BY <1>1, Types DEF ClockTicks, queue, TypeInv
  <2>2. MovesOn /\ \A x \in Ops : OpKnown(x)'
    BY <1>1, <2>1, OpsSpared DEF ClockTicks
  <2>3. TypeOK'
    BY <1>1, <2>1 DEF ClockTicks, TypeInv, TypeOK, OperationsTypeOK
  <2> QED BY <1>1, <2>2, <2>3, OtherStepTyped DEF ClockTicks
<1>2. CASE UNCHANGED vars
  <2>1. op' = op /\ created' = created
    BY <1>2 DEF vars, queue
  <2>2. MovesOn /\ \A x \in Ops : OpKnown(x)'
    BY <1>2, <2>1, OpsSpared DEF vars
  <2>3. TypeOK'
    BY <1>2, <2>1 DEF vars, TypeInv, TypeOK, OperationsTypeOK
  <2> QED BY <1>2, <2>2, <2>3, OtherStepTyped DEF vars
<1> QED BY <1>1, <1>2, ScanStepTyped, ExecutorStepTyped, AppStepTyped, Zenon DEF Next

\* Types of queue, schedules, scans and executors, whatever fails or overlaps and
\* whatever is asked for by hand (auto-update.ts, service.ts, runner.ts).
THEOREM AutoIsTyped == Spec => []TypeOK
<1>1. TypeInv => TypeOK
  BY DEF TypeInv
<1> QED BY <1>1, InitTyped, NextTyped, PTL DEF Spec

-----------------------------------------------------------------------------
(* Preservation of the history, one lemma for each way a step may change    *)
(* what it speaks of.                                                       *)

LEMMA CreatedSeq ==
  ASSUME TypeInv
  PROVE  /\ created \in Seq(Ops) /\ Len(created) \in Nat /\ DOMAIN created = 1..Len(created)
         /\ \A i \in DOMAIN created : created[i] \in Ops
BY Types DEF TypeInv

LEMMA PositionIs ==
  ASSUME CreatedOnce, NEW o \in Ops, Exists(o)
  PROVE  Position(o) \in DOMAIN created /\ created[Position(o)] = o
BY DEF CreatedOnce, Position

LEMMA PositionsDiffer ==
  ASSUME TypeInv, CreatedOnce, NEW o \in Ops, NEW x \in Ops, Exists(o), Exists(x), o # x
  PROVE  /\ Position(o) \in Nat /\ Position(x) \in Nat
         /\ Position(o) < Position(x) \/ Position(x) < Position(o)
<1>1. Position(o) \in DOMAIN created /\ Position(x) \in DOMAIN created
  BY PositionIs
<1>2. Position(o) # Position(x)
  BY PositionIs
<1>3. DOMAIN created \subseteq Nat
  BY CreatedSeq
<1> QED BY <1>1, <1>2, <1>3

LEMMA Fields ==
  ASSUME TypeInv, NEW o \in Ops
  PROVE  /\ job[o].generation \in Nat /\ job[o].slot \in Time /\ job[o].completed \in Time
         /\ job[o].reconciled \in BOOLEAN
         /\ Exists(o) => /\ op[o].app \in Apps /\ Generation(o) \in Nat /\ NextSlot(o) \in Time
                         /\ schedule[op[o].app] \in ScheduleRecord
<1>1. job[o] \in JobRecord /\ (Exists(o) => op[o].app \in Apps)
  BY Types DEF TypeInv, OpKnown
<1>2. Exists(o) => schedule[op[o].app] \in ScheduleRecord
  BY <1>1, Types DEF TypeInv
<1> QED BY <1>1, <1>2 DEF JobRecord, ScheduleRecord, Generation, NextSlot

\* What a step leaves to the scans that it does not move: a schedule that stays
\* the same one leaves a slot only for an operation that has its key, and an
\* outcome that waits for its projection is counted from the failures it found.
KeepsSchedule(a) ==
  /\ schedule[a].generation <= schedule'[a].generation
  /\ schedule[a].generation = schedule'[a].generation =>
       /\ schedule'[a].enabled = schedule[a].enabled
       /\ schedule'[a].next # schedule[a].next =>
            \E o \in Ops : FoundByKey(o, a, <<schedule[a].generation, schedule[a].next>>)

KeepsOp(o) ==
  /\ Exists(o)' /\ op'[o].app = op[o].app /\ op'[o].key = op[o].key
  /\ job'[o].slot = job[o].slot /\ Position(o)' = Position(o)
  /\ Done(o) => Done(o)' /\ op'[o].status = op[o].status
  /\ Applied(o) => Applied(o)'
  /\ Current(o)' => Current(o)
  /\ Current(o)' /\ job[o].slot < NextSlot(o) => job[o].slot < NextSlot(o)'
  /\ Current(o)' /\ Done(o) /\ op[o].status # "cancelled" /\ ~Applied(o)' =>
       schedule'[op[o].app].failures = schedule[op[o].app].failures

Keeps ==
  /\ now' \in Nat /\ now <= now'
  /\ \A a \in Apps : KeepsSchedule(a)
  /\ \A o \in Ops : Exists(o) => KeepsOp(o)

\* A schedule stays the same one for everybody but an edit.
Steady ==
  \A a \in Apps : /\ schedule'[a].generation = schedule[a].generation
                 /\ schedule'[a].enabled = schedule[a].enabled

LEMMA ScheduleTypes ==
  ASSUME TypeInv, NEW a \in Apps
  PROVE  /\ schedule[a] \in ScheduleRecord /\ schedule[a].generation \in Nat
         /\ schedule[a].failures \in Nat /\ schedule[a].next \in Time
         /\ schedule[a].enabled \in BOOLEAN /\ now \in Nat
BY Types DEF TypeInv, ScheduleRecord

\* Nothing changes but the clock and the versions of configurations.
SameData ==
  /\ op' = op /\ created' = created /\ job' = job /\ applied' = applied
  /\ now' \in Nat /\ now <= now'
  /\ \A a \in Apps : SameSchedule(a, schedule'[a])

LEMMA SameHistory ==
  ASSUME TypeInv, History, SameData
  PROVE  History' /\ Keeps /\ Steady
<1>1. ASSUME NEW o \in Ops
      PROVE  /\ Exists(o)' <=> Exists(o)
             /\ Done(o)' <=> Done(o)
             /\ Exists(o) => Generation(o)' = Generation(o) /\ NextSlot(o)' = NextSlot(o)
             /\ Current(o)' <=> Current(o)
             /\ Applied(o)' <=> Applied(o)
             /\ Position(o)' = Position(o)
  <2>1. Exists(o) => op[o].app \in Apps
    BY DEF TypeInv, OpKnown
  <2> QED BY <2>1 DEF SameData, SameSchedule, Exists, Done, Generation, NextSlot, Current, Applied, Position
<1>2. Born'
  <2>1. now \in Nat
    BY Types DEF TypeInv
  <2>2. \A o \in Ops : Exists(o) => job[o].slot \in Nat
    BY DEF History, Born
  <2> QED BY <1>1, <2>1, <2>2 DEF History, Born, SameData
<1>3. OnePerOccurrence'
  BY <1>1 DEF History, OnePerOccurrence, SameData
<1>4. CreatedOnce'
  BY <1>1 DEF History, CreatedOnce, SameData
<1>5. EnabledHasNext'
  BY DEF History, EnabledHasNext, SameData, SameSchedule
<1>6. SlotsUsed'
  BY <1>1 DEF History, SlotsUsed, SameData, Current
<1>7. SlotsInOrder'
  BY <1>1 DEF History, SlotsInOrder, SameData
<1>8. AppliedDone'
  <2>1. \A a \in Apps : schedule'[a].projected = schedule[a].projected
    BY DEF SameData, SameSchedule
  <2> QED BY <2>1 DEF History, AppliedDone, SameData, Done
<1>9. NotShownAgain'
  <2>1. \A o \in Ops : Current(o) => op[o].app \in Apps
    BY DEF Current, TypeInv, OpKnown
  <2> QED BY <1>1, <2>1 DEF History, NotShownAgain, SameData, SameSchedule
<1>10. EarlierFirst'
  BY <1>1 DEF History, EarlierFirst, SameData
<1>11. ProjectedInOrder'
  BY DEF History, ProjectedInOrder, SameData, Position
<1>12. FailuresCounted'
  BY DEF History, FailuresCounted, SameData, SameSchedule
<1>20. Indexed'
  BY <1>1 DEF History, Indexed, SameData
<1>21. Keeps
  <2>1. now \in Nat /\ now' \in Nat /\ now <= now'
    BY Types DEF SameData, TypeInv
  <2>2. ASSUME NEW b \in Apps PROVE KeepsSchedule(b)
    BY ScheduleTypes DEF KeepsSchedule, SameData, SameSchedule
  <2>3. ASSUME NEW x \in Ops, Exists(x) PROVE KeepsOp(x)
    <3>1. op[x].app \in Apps
      BY <2>3 DEF TypeInv, OpKnown
    <3>2. /\ op'[x].app = op[x].app /\ op'[x].key = op[x].key /\ op'[x].status = op[x].status
          /\ job'[x].slot = job[x].slot
          /\ schedule'[op[x].app].failures = schedule[op[x].app].failures
      BY <3>1 DEF SameData, SameSchedule
    <3> QED BY <1>1, <2>3, <3>2 DEF KeepsOp
  <2> QED BY <2>1, <2>2, <2>3 DEF Keeps
<1>22. Steady
  BY DEF Steady, SameData, SameSchedule
<1> QED BY <1>2, <1>3, <1>4, <1>5, <1>6, <1>7, <1>8, <1>9, <1>10, <1>11, <1>12, <1>20, <1>21, <1>22 DEF History

LEMMA AppliedSeq ==
  ASSUME TypeInv, NEW a \in Apps
  PROVE  /\ applied[a] \in Seq(Ops) /\ Len(applied[a]) \in Nat
         /\ DOMAIN applied[a] = 1..Len(applied[a]) /\ \A i \in DOMAIN applied[a] : applied[a][i] \in Ops
<1>1. applied[a] \in Seq(Ops)
  BY Types DEF TypeInv
<1> QED BY <1>1

\* The count looks at the outcomes projected, which do not change.
LEMMA FailuresFrom ==
  ASSUME TypeInv, FailuresCounted, applied' = applied, schedule' = schedule,
         \A a \in Apps : \A i \in DOMAIN applied[a] :
           op'[applied[a][i]].status = op[applied[a][i]].status
  PROVE  FailuresCounted'
<1> SUFFICES ASSUME NEW a \in Apps
             PROVE  LET n == Len(applied[a])
                        f == schedule[a].failures
                    IN /\ f <= n
                       /\ \A i \in (n - f + 1)..n : op'[applied[a][i]].status = "failed"
                       /\ f < n => op'[applied[a][n - f]].status # "failed"
  BY DEF FailuresCounted
<1> DEFINE n == Len(applied[a])
           f == schedule[a].failures
<1>1. schedule[a].failures \in Nat
  BY Types DEF TypeInv, ScheduleRecord
<1>2. /\ f <= n /\ f \in Nat /\ n \in Nat /\ DOMAIN applied[a] = 1..n
      /\ \A i \in (n - f + 1)..n : op[applied[a][i]].status = "failed"
      /\ f < n => op[applied[a][n - f]].status # "failed"
  BY <1>1, AppliedSeq DEF FailuresCounted
<1>3. /\ \A i \in (n - f + 1)..n : i \in DOMAIN applied[a]
      /\ f < n => n - f \in DOMAIN applied[a]
  BY <1>2
<1> HIDE DEF n, f
<1>4. /\ \A i \in (n - f + 1)..n : op'[applied[a][i]].status = "failed"
      /\ f < n => op'[applied[a][n - f]].status # "failed"
  BY <1>2, <1>3
<1> USE DEF n, f
<1> QED BY <1>2, <1>4

\* An operation that is not over moves on: it is claimed, ends or is unlocked.
Advances(o) ==
  /\ Exists(o) /\ ~Done(o) /\ op'[o].status # "absent"
  /\ op'[o].app = op[o].app /\ op'[o].key = op[o].key
  /\ created' = created /\ schedule' = schedule /\ applied' = applied /\ now' = now
  /\ \A x \in Ops \ {o} : op'[x] = op[x] /\ job'[x] = job[x]
  /\ job'[o].type = job[o].type /\ job'[o].slot = job[o].slot
  /\ job'[o].generation = job[o].generation /\ job'[o].reconciled = job[o].reconciled
  /\ job'[o].completed \in {job[o].completed, now}

LEMMA AdvanceHistory ==
  ASSUME TypeInv, History, NEW o \in Ops, Advances(o)
  PROVE  History' /\ Keeps /\ Steady
<1>1. ASSUME NEW x \in Ops
      PROVE  /\ Exists(x)' <=> Exists(x)
             /\ op'[x].app = op[x].app /\ op'[x].key = op[x].key
             /\ Done(x) => op'[x] = op[x] /\ Done(x)'
             /\ Exists(x) => Generation(x)' = Generation(x) /\ NextSlot(x)' = NextSlot(x)
             /\ job'[x].type = job[x].type /\ job'[x].slot = job[x].slot
             /\ job'[x].generation = job[x].generation /\ job'[x].reconciled = job[x].reconciled
             /\ Current(x)' <=> Current(x)
             /\ Applied(x)' <=> Applied(x)
             /\ Position(x)' = Position(x)
  BY DEF Advances, Exists, Done, Generation, NextSlot, Current, Applied, Position
<1>2. Born'
  <2>1. now \in Nat
    BY Types DEF TypeInv
  <2>2. ASSUME NEW x \in Ops, Exists(x), job'[x].completed # None PROVE job[x].slot <= job'[x].completed
    <3>1. job[x].slot \in Nat /\ job[x].slot <= now
          /\ (job[x].completed # None => job[x].slot <= job[x].completed)
      BY <2>2 DEF History, Born
    <3> QED BY <2>2, <3>1 DEF Advances
  <2>3. now' = now
    BY DEF Advances
  <2> QED BY <1>1, <2>2, <2>3 DEF History, Born
<1>3. OnePerOccurrence'
  BY <1>1 DEF History, OnePerOccurrence
<1>4. CreatedOnce'
  BY <1>1 DEF History, CreatedOnce, Advances
<1>5. EnabledHasNext'
  BY DEF History, EnabledHasNext, Advances
<1>6. SlotsUsed'
  BY <1>1 DEF History, SlotsUsed, Current
<1>7. SlotsInOrder'
  BY <1>1 DEF History, SlotsInOrder
<1>8. AppliedDone'
  <2>1. ASSUME NEW a \in Apps, NEW i \in DOMAIN applied[a]
        PROVE  applied[a][i] \in Ops
    BY AppliedSeq
  <2> QED BY <1>1, <2>1 DEF History, AppliedDone, Advances
<1>9. NotShownAgain'
  BY <1>1 DEF History, NotShownAgain, Advances
<1>10. EarlierFirst'
  BY <1>1 DEF History, EarlierFirst
<1>11. ProjectedInOrder'
  BY DEF History, ProjectedInOrder, Advances, Position
<1>12. FailuresCounted'
  <2>1. ASSUME NEW a \in Apps, NEW i \in DOMAIN applied[a]
        PROVE  op'[applied[a][i]].status = op[applied[a][i]].status
    BY <1>1, AppliedSeq DEF History, AppliedDone
  <2> QED BY <2>1, FailuresFrom DEF History, Advances
<1>20. Indexed'
  BY <1>1 DEF History, Indexed, Advances
<1>21. Keeps
  <2>1. now \in Nat /\ now' \in Nat /\ now <= now'
    BY Types DEF Advances, TypeInv
  <2>2. ASSUME NEW b \in Apps PROVE KeepsSchedule(b)
    BY ScheduleTypes DEF KeepsSchedule, Advances
  <2>3. ASSUME NEW x \in Ops, Exists(x) PROVE KeepsOp(x)
    <3>1. op[x].app \in Apps
      BY <2>3 DEF TypeInv, OpKnown
    <3> QED BY <1>1, <2>3, <3>1 DEF KeepsOp, Advances
  <2> QED BY <2>1, <2>2, <2>3 DEF Keeps
<1>22. Steady
  BY DEF Steady, Advances
<1> QED BY <1>2, <1>3, <1>4, <1>5, <1>6, <1>7, <1>8, <1>9, <1>10, <1>11, <1>12, <1>20, <1>21, <1>22 DEF History

\* A projected outcome is marked, once its slot was left behind.
Marks(o) ==
  /\ JobIs(o, job[o].completed, TRUE) /\ (Current(o) => job[o].slot < NextSlot(o))
  /\ op' = op /\ created' = created /\ schedule' = schedule /\ applied' = applied /\ now' = now

LEMMA MarkHistory ==
  ASSUME TypeInv, History, NEW o \in Ops, Marks(o)
  PROVE  History' /\ Keeps /\ Steady
<1>1. ASSUME NEW x \in Ops
      PROVE  /\ Exists(x)' <=> Exists(x)
             /\ Done(x)' <=> Done(x)
             /\ Exists(x) => Generation(x)' = Generation(x) /\ NextSlot(x)' = NextSlot(x)
             /\ job'[x].type = job[x].type /\ job'[x].slot = job[x].slot
             /\ job'[x].generation = job[x].generation /\ job'[x].completed = job[x].completed
             /\ x # o => job'[x].reconciled = job[x].reconciled
             /\ Current(x)' <=> Current(x)
             /\ Applied(x)' <=> Applied(x)
             /\ Position(x)' = Position(x)
  BY DEF Marks, JobIs, Exists, Done, Generation, NextSlot, Current, Applied, Position
<1>2. Born'
  BY <1>1 DEF History, Born, Marks
<1>3. OnePerOccurrence'
  BY <1>1 DEF History, OnePerOccurrence, Marks
<1>4. CreatedOnce'
  BY <1>1 DEF History, CreatedOnce, Marks
<1>5. EnabledHasNext'
  BY DEF History, EnabledHasNext, Marks
<1>6. SlotsUsed'
  BY <1>1 DEF History, SlotsUsed, Current, Marks
<1>7. SlotsInOrder'
  BY <1>1 DEF History, SlotsInOrder, Marks
<1>8. AppliedDone'
  BY DEF History, AppliedDone, Marks, Done
<1>9. NotShownAgain'
  BY <1>1 DEF History, NotShownAgain, Marks
<1>10. EarlierFirst'
  BY <1>1 DEF History, EarlierFirst, Marks
<1>11. ProjectedInOrder'
  BY DEF History, ProjectedInOrder, Marks, Position
<1>12. FailuresCounted'
  BY DEF History, FailuresCounted, Marks
<1>20. Indexed'
  BY <1>1 DEF History, Indexed, Marks
<1>21. Keeps
  <2>1. now \in Nat /\ now' \in Nat /\ now <= now'
    BY Types DEF Marks, TypeInv
  <2>2. ASSUME NEW b \in Apps PROVE KeepsSchedule(b)
    BY ScheduleTypes DEF KeepsSchedule, Marks
  <2>3. ASSUME NEW x \in Ops, Exists(x) PROVE KeepsOp(x)
    <3>1. op[x].app \in Apps
      BY <2>3 DEF TypeInv, OpKnown
    <3> QED BY <1>1, <2>3, <3>1 DEF KeepsOp, Marks
  <2> QED BY <2>1, <2>2, <2>3 DEF Keeps
<1>22. Steady
  BY DEF Steady, Marks
<1> QED BY <1>2, <1>3, <1>4, <1>5, <1>6, <1>7, <1>8, <1>9, <1>10, <1>11, <1>12, <1>20, <1>21, <1>22 DEF History

\* An operation is recorded as the last one, which is not one already projected.
Records(a, p) ==
  /\ ScheduleIs(a, [schedule[a] EXCEPT !.lastOp = p])
  /\ Current(p) => ~Applied(p)
  /\ op' = op /\ created' = created /\ job' = job /\ applied' = applied /\ now' = now

LEMMA RecordHistory ==
  ASSUME TypeInv, History, NEW a \in Apps, NEW p \in Ops, Records(a, p)
  PROVE  History' /\ Keeps /\ Steady
<1>0. ASSUME NEW b \in Apps
      PROVE  /\ schedule'[b].enabled = schedule[b].enabled
             /\ schedule'[b].generation = schedule[b].generation
             /\ schedule'[b].next = schedule[b].next
             /\ schedule'[b].projected = schedule[b].projected
             /\ schedule'[b].failures = schedule[b].failures
             /\ schedule'[b].lastOp = IF b = a THEN p ELSE schedule[b].lastOp
  <2>1. schedule[a] \in ScheduleRecord
    BY Types DEF TypeInv
  <2> QED BY <2>1 DEF Records, ScheduleIs, ScheduleRecord
<1>1. ASSUME NEW x \in Ops
      PROVE  /\ Exists(x)' <=> Exists(x)
             /\ Done(x)' <=> Done(x)
             /\ Exists(x) => Generation(x)' = Generation(x) /\ NextSlot(x)' = NextSlot(x)
             /\ Current(x)' <=> Current(x)
             /\ Applied(x)' <=> Applied(x)
             /\ Position(x)' = Position(x)
  <2>1. Exists(x) => op[x].app \in Apps
    BY DEF TypeInv, OpKnown
  <2> QED BY <1>0, <2>1 DEF Records, Exists, Done, Generation, NextSlot, Current, Applied, Position
<1>2. Born'
  BY <1>1 DEF History, Born, Records
<1>3. OnePerOccurrence'
  BY <1>1 DEF History, OnePerOccurrence, Records
<1>4. CreatedOnce'
  BY <1>1 DEF History, CreatedOnce, Records
<1>5. EnabledHasNext'
  BY <1>0 DEF History, EnabledHasNext
<1>6. SlotsUsed'
  BY <1>1 DEF History, SlotsUsed, Current, Records
<1>7. SlotsInOrder'
  BY <1>1 DEF History, SlotsInOrder, Records
<1>8. AppliedDone'
  BY <1>0 DEF History, AppliedDone, Records, Done
<1>9. NotShownAgain'
  <2>1. ASSUME NEW o \in Ops, Current(o), Applied(o)
        PROVE  /\ schedule'[op[o].app].lastOp # None
               /\ schedule'[op[o].app].lastOp = o => schedule'[op[o].app].projected = o
    <3>1. op[o].app \in Apps
      BY <2>1 DEF Current, TypeInv, OpKnown
    <3>2. p # None
      BY QueueAssumption
    <3> QED BY <2>1, <3>1, <3>2, <1>0 DEF History, NotShownAgain, Records
  <2> QED BY <1>1, <2>1 DEF NotShownAgain, Records
<1>10. EarlierFirst'
  BY <1>1 DEF History, EarlierFirst, Records
<1>11. ProjectedInOrder'
  BY DEF History, ProjectedInOrder, Records, Position
<1>12. FailuresCounted'
  BY <1>0 DEF History, FailuresCounted, Records
<1>20. Indexed'
  BY <1>1 DEF History, Indexed, Records
<1>21. Keeps
  <2>1. now \in Nat /\ now' \in Nat /\ now <= now'
    BY Types DEF Records, TypeInv
  <2>2. ASSUME NEW b \in Apps PROVE KeepsSchedule(b)
    BY <1>0, ScheduleTypes DEF KeepsSchedule
  <2>3. ASSUME NEW x \in Ops, Exists(x) PROVE KeepsOp(x)
    <3>1. op[x].app \in Apps
      BY <2>3 DEF TypeInv, OpKnown
    <3>2. /\ op'[x].app = op[x].app /\ op'[x].key = op[x].key /\ op'[x].status = op[x].status
          /\ job'[x].slot = job[x].slot
          /\ schedule'[op[x].app].failures = schedule[op[x].app].failures
      BY <1>0, <3>1 DEF Records
    <3> QED BY <1>1, <2>3, <3>2 DEF KeepsOp
  <2> QED BY <2>1, <2>2, <2>3 DEF Keeps
<1>22. Steady
  BY <1>0 DEF Steady
<1> QED BY <1>2, <1>3, <1>4, <1>5, <1>6, <1>7, <1>8, <1>9, <1>10, <1>11, <1>12, <1>20, <1>21, <1>22 DEF History

\* An edit makes a new schedule, to which nothing belongs yet.
Edits(a) ==
  /\ \E r : /\ ScheduleIs(a, r) /\ r.generation = schedule[a].generation + 1
            /\ r.projected = schedule[a].projected /\ r.failures = schedule[a].failures
            /\ r.enabled <=> r.next # None
  /\ op' = op /\ created' = created /\ job' = job /\ applied' = applied /\ now' = now

LEMMA EditHistory ==
  ASSUME TypeInv, History, NEW a \in Apps, Edits(a)
  PROVE  History' /\ Keeps
<1>0. PICK r : /\ ScheduleIs(a, r) /\ r.generation = schedule[a].generation + 1
               /\ r.projected = schedule[a].projected /\ r.failures = schedule[a].failures
               /\ r.enabled <=> r.next # None
  BY DEF Edits
<1>1. ASSUME NEW x \in Ops
      PROVE  /\ Exists(x)' <=> Exists(x)
             /\ Done(x)' <=> Done(x)
             /\ op[x].app # a /\ Exists(x) =>
                  Generation(x)' = Generation(x) /\ NextSlot(x)' = NextSlot(x)
             /\ op[x].app = a => Generation(x)' = Generation(x) + 1
             /\ Applied(x)' <=> Applied(x)
             /\ Position(x)' = Position(x)
  <2>1. Exists(x) => op[x].app \in Apps
    BY DEF TypeInv, OpKnown
  <2>2. /\ Exists(x)' <=> Exists(x)
        /\ Done(x)' <=> Done(x)
        /\ Applied(x)' <=> Applied(x)
        /\ Position(x)' = Position(x)
    BY DEF Edits, Exists, Done, Applied, Position
  <2>3. op' = op /\ schedule'[a] = r /\ \A b \in Apps \ {a} : schedule'[b] = schedule[b]
    BY <1>0 DEF Edits, ScheduleIs
  <2> QED BY <1>0, <2>1, <2>2, <2>3 DEF Generation, NextSlot
<1>2. ASSUME NEW x \in Ops
      PROVE  /\ Current(x)' => op[x].app # a
             /\ op[x].app # a => (Current(x)' <=> Current(x))
  <2>1. Exists(x) => job[x].generation <= Generation(x) /\ Generation(x) \in Nat
    BY Fields DEF History, Born
  <2>2. job[x].generation \in Nat /\ job' = job
    BY Fields DEF Edits
  <2> QED BY <1>1, <2>1, <2>2 DEF Current
<1>3. Born'
  <2>1. ASSUME NEW x \in Ops, Exists(x) PROVE job[x].generation <= Generation(x)'
    <3>1. job[x].generation <= Generation(x) /\ Generation(x) \in Nat /\ job[x].generation \in Nat
      BY <2>1, Fields DEF History, Born
    <3>2. Generation(x)' = Generation(x) \/ Generation(x)' = Generation(x) + 1
      BY <1>1, <2>1
    <3> QED BY <3>1, <3>2
  <2> QED BY <1>1, <2>1 DEF History, Born, Edits
<1>4. OnePerOccurrence'
  BY <1>1 DEF History, OnePerOccurrence, Edits
<1>5. CreatedOnce'
  BY <1>1 DEF History, CreatedOnce, Edits
<1>6. EnabledHasNext'
  BY <1>0 DEF History, EnabledHasNext, ScheduleIs
<1>7. SlotsUsed'
  BY <1>1, <1>2 DEF History, SlotsUsed, Current, Edits
<1>8. SlotsInOrder'
  BY <1>1, <1>2 DEF History, SlotsInOrder, Edits
<1>9. AppliedDone'
  <2>1. \A b \in Apps : schedule'[b].projected = schedule[b].projected
    BY <1>0 DEF ScheduleIs
  <2> QED BY <2>1 DEF History, AppliedDone, Edits, Done
<1>10. NotShownAgain'
  <2>1. ASSUME NEW x \in Ops, Current(x)' PROVE Current(x) /\ schedule'[op[x].app] = schedule[op[x].app]
    <3>1. Current(x) /\ op[x].app # a
      BY <1>2, <2>1
    <3>2. op[x].app \in Apps
      BY <3>1 DEF Current, TypeInv, OpKnown
    <3> QED BY <1>0, <3>1, <3>2 DEF ScheduleIs
  <2> QED BY <1>1, <2>1 DEF History, NotShownAgain, Edits
<1>11. EarlierFirst'
  <2>1. op' = op
    BY DEF Edits
  <2> QED BY <1>1, <1>2, <2>1 DEF History, EarlierFirst
<1>12. ProjectedInOrder'
  BY DEF History, ProjectedInOrder, Edits, Position
<1>13. FailuresCounted'
  <2>1. \A b \in Apps : schedule'[b].failures = schedule[b].failures
    BY <1>0 DEF ScheduleIs
  <2> QED BY <2>1 DEF History, FailuresCounted, Edits
<1>20. Indexed'
  BY <1>1 DEF History, Indexed, Edits
<1>21. Keeps
  <2>1. now \in Nat /\ now' \in Nat /\ now <= now'
    BY Types DEF Edits, TypeInv
  <2>2. ASSUME NEW b \in Apps PROVE KeepsSchedule(b)
    <3>1. CASE b = a
      <4>1. schedule'[b].generation = schedule[b].generation + 1
        BY <1>0, <3>1 DEF ScheduleIs
      <4> QED BY <4>1, ScheduleTypes DEF KeepsSchedule
    <3>2. CASE b # a
      <4>1. schedule'[b] = schedule[b]
        BY <1>0, <3>2 DEF ScheduleIs
      <4> QED BY <4>1, ScheduleTypes DEF KeepsSchedule
    <3> QED BY <3>1, <3>2
  <2>3. ASSUME NEW x \in Ops, Exists(x) PROVE KeepsOp(x)
    <3>1. op[x].app \in Apps
      BY <2>3 DEF TypeInv, OpKnown
    <3>2. /\ op'[x].app = op[x].app /\ op'[x].key = op[x].key /\ op'[x].status = op[x].status
          /\ job'[x].slot = job[x].slot
      BY DEF Edits
    <3>3. schedule'[op[x].app].failures = schedule[op[x].app].failures
      BY <1>0, <3>1 DEF ScheduleIs
    <3> QED BY <1>1, <1>2, <2>3, <3>2, <3>3 DEF KeepsOp
  <2> QED BY <2>1, <2>2, <2>3 DEF Keeps
<1> QED BY <1>3, <1>4, <1>5, <1>6, <1>7, <1>8, <1>9, <1>10, <1>11, <1>12, <1>13, <1>20, <1>21 DEF History

\* Of one schedule, a slot belongs to one operation.
LEMMA SlotIsOf ==
  ASSUME TypeInv, History, NEW o \in Ops, NEW x \in Ops, Current(o), Current(x),
         op[o].app = op[x].app, job[o].slot = job[x].slot
  PROVE  o = x
<1>1. op[o].key = op[x].key /\ Exists(o) /\ Exists(x)
  BY DEF History, Born, Current, Generation
<1> QED BY <1>1 DEF History, OnePerOccurrence

\* The slot of a cancelled operation is left behind.
Skips(o) ==
  /\ Current(o) /\ Done(o) /\ op[o].status = "cancelled" /\ job[o].slot = NextSlot(o)
  /\ ScheduleIs(op[o].app, [schedule[op[o].app] EXCEPT !.next = Later(now, job[o].slot + 1)])
  /\ op' = op /\ created' = created /\ job' = job /\ applied' = applied /\ now' = now

LEMMA SkipHistory ==
  ASSUME TypeInv, History, NEW o \in Ops, Skips(o)
  PROVE  History' /\ Keeps /\ Steady
<1> DEFINE a == op[o].app
           t == Later(now, job[o].slot + 1)
<1>a. /\ a \in Apps /\ job[o].slot \in Nat /\ NextSlot(o) = job[o].slot /\ now \in Nat
      /\ schedule[a] \in ScheduleRecord /\ schedule[a].next = job[o].slot
  BY Types, Fields DEF Skips, History, Born, Current, TypeInv, OpKnown, NextSlot
<1>b. t \in Nat /\ t > job[o].slot
  BY <1>a DEF Later
<1> HIDE DEF t
<1>0. ASSUME NEW b \in Apps
      PROVE  /\ schedule'[b].enabled = schedule[b].enabled
             /\ schedule'[b].generation = schedule[b].generation
             /\ schedule'[b].next = IF b = a THEN t ELSE schedule[b].next
             /\ schedule'[b].projected = schedule[b].projected
             /\ schedule'[b].failures = schedule[b].failures
             /\ schedule'[b].lastOp = schedule[b].lastOp
  BY <1>a DEF Skips, ScheduleIs, ScheduleRecord, t
<1>1. ASSUME NEW x \in Ops
      PROVE  /\ Exists(x)' <=> Exists(x)
             /\ Done(x)' <=> Done(x)
             /\ Exists(x) => Generation(x)' = Generation(x)
             /\ Exists(x) => NextSlot(x)' = IF op[x].app = a THEN t ELSE NextSlot(x)
             /\ Current(x)' <=> Current(x)
             /\ Applied(x)' <=> Applied(x)
             /\ Position(x)' = Position(x)
  <2>1. Exists(x) => op[x].app \in Apps
    BY DEF TypeInv, OpKnown
  <2> QED BY <1>0, <2>1 DEF Skips, Exists, Done, Generation, NextSlot, Current, Applied, Position
<1>2. Born'
  BY <1>1 DEF History, Born, Skips
<1>3. OnePerOccurrence'
  BY <1>1 DEF History, OnePerOccurrence, Skips
<1>4. CreatedOnce'
  BY <1>1 DEF History, CreatedOnce, Skips
<1>5. EnabledHasNext'
  <2>1. t # None
    BY <1>b, QueueAssumption
  <2>2. schedule[a].next # None
    BY <1>a, QueueAssumption
  <2> QED BY <1>0, <2>1, <2>2 DEF History, EnabledHasNext
<1>6. SlotsUsed'
  <2> SUFFICES ASSUME NEW x \in Ops, Current(x)
               PROVE  /\ NextSlot(x)' # None /\ job[x].slot <= NextSlot(x)'
                      /\ job[x].slot < NextSlot(x)' =>
                           Done(x) /\ (op[x].status = "cancelled" \/ Applied(x))
                      /\ Applied(x) \/ job[x].reconciled => job[x].slot < NextSlot(x)'
    BY <1>1 DEF SlotsUsed, Skips
  <2>1. /\ NextSlot(x) # None /\ job[x].slot <= NextSlot(x)
        /\ job[x].slot < NextSlot(x) => Done(x) /\ (op[x].status = "cancelled" \/ Applied(x))
        /\ Applied(x) \/ job[x].reconciled => job[x].slot < NextSlot(x)
        /\ job[x].slot \in Nat /\ Exists(x)
    BY DEF History, SlotsUsed, Born, Current
  <2>2. CASE op[x].app # a
    BY <1>1, <2>1, <2>2
  <2>3. CASE op[x].app = a
    <3>1. NextSlot(x)' = t /\ NextSlot(x) = job[o].slot
      BY <1>1, <1>a, <2>1, <2>3 DEF NextSlot
    <3>2. t # None /\ job[x].slot < t
      BY <1>a, <1>b, <2>1, <3>1, QueueAssumption
    <3>3. Done(x) /\ (op[x].status = "cancelled" \/ Applied(x))
      <4>1. CASE job[x].slot = job[o].slot
        <5>1. x = o
          BY <2>3, <4>1, SlotIsOf DEF Skips
        <5> QED BY <5>1 DEF Skips
      <4>2. CASE job[x].slot # job[o].slot
        BY <4>2, <1>a, <2>1, <3>1
      <4> QED BY <4>1, <4>2
    <3>4. job[x].slot <= t
      BY <3>2, <2>1, <1>b
    <3> QED BY <3>1, <3>2, <3>3, <3>4
  <2> QED BY <2>2, <2>3
<1>7. SlotsInOrder'
  BY <1>1 DEF History, SlotsInOrder, Skips
<1>8. AppliedDone'
  BY <1>0 DEF History, AppliedDone, Skips, Done
<1>9. NotShownAgain'
  <2>1. \A x \in Ops : Current(x) => op[x].app \in Apps
    BY DEF Current, TypeInv, OpKnown
  <2> QED BY <1>0, <1>1, <2>1 DEF History, NotShownAgain, Skips
<1>10. EarlierFirst'
  BY <1>1 DEF History, EarlierFirst, Skips
<1>11. ProjectedInOrder'
  BY DEF History, ProjectedInOrder, Skips, Position
<1>12. FailuresCounted'
  BY <1>0 DEF History, FailuresCounted, Skips
<1>20. Indexed'
  BY <1>1 DEF History, Indexed, Skips
<1>21. Keeps
  <2>1. now \in Nat /\ now' \in Nat /\ now <= now'
    BY Types DEF Skips, TypeInv
  <2>2. ASSUME NEW b \in Apps PROVE KeepsSchedule(b)
    <3>1. CASE b = a
      <4>1. FoundByKey(o, b, <<schedule[b].generation, schedule[b].next>>)
        <5>1. op[o].key = <<schedule[b].generation, schedule[b].next>> /\ op[o].app = b
          BY <1>a, <3>1 DEF History, Born, Skips, Current, Generation
        <5>2. op[o].key \in Nat \X Nat
          BY <1>a, <3>1, <5>1, ScheduleTypes
        <5> QED BY <5>1, <5>2, QueueAssumption DEF FoundByKey
      <4> QED BY <1>0, <4>1, ScheduleTypes DEF KeepsSchedule
    <3>2. CASE b # a
      BY <1>0, <3>2, ScheduleTypes DEF KeepsSchedule
    <3> QED BY <3>1, <3>2
  <2>3. ASSUME NEW x \in Ops, Exists(x) PROVE KeepsOp(x)
    <3>1. op[x].app \in Apps
      BY <2>3 DEF TypeInv, OpKnown
    <3>2. /\ op'[x].app = op[x].app /\ op'[x].key = op[x].key /\ op'[x].status = op[x].status
          /\ job'[x].slot = job[x].slot
      BY DEF Skips
    <3>3. schedule'[op[x].app].failures = schedule[op[x].app].failures
      BY <1>0, <3>1
    <3>4. ASSUME Current(x), job[x].slot < NextSlot(x) PROVE job[x].slot < NextSlot(x)'
      <4>1. CASE op[x].app = a
        <5>1. NextSlot(x)' = t /\ NextSlot(x) = job[o].slot /\ job[x].slot \in Nat
          BY <1>1, <1>a, <2>3, <4>1 DEF NextSlot, History, Born
        <5> QED BY <1>a, <1>b, <3>4, <5>1
      <4>2. CASE op[x].app # a
        BY <1>1, <2>3, <3>4, <4>2
      <4> QED BY <4>1, <4>2
    <3> QED BY <1>1, <2>3, <3>2, <3>3, <3>4 DEF KeepsOp
  <2> QED BY <2>1, <2>2, <2>3 DEF Keeps
<1>22. Steady
  BY <1>0 DEF Steady
<1> QED BY <1>2, <1>3, <1>4, <1>5, <1>6, <1>7, <1>8, <1>9, <1>10, <1>11, <1>12, <1>20, <1>21, <1>22 DEF History

\* An outcome is projected: of the operation of the slot that is next, which
\* moves on from when that operation ended.
Shows(o) ==
  /\ Current(o) /\ Done(o) /\ op[o].status # "cancelled" /\ job[o].slot = NextSlot(o)
  /\ \E r : /\ ScheduleIs(op[o].app, r) /\ r.next \in Nat /\ r.next > job[o].slot
            /\ r.enabled = schedule[op[o].app].enabled
            /\ r.generation = schedule[op[o].app].generation
            /\ r.projected = o /\ r.lastOp = o
            /\ r.failures = IF op[o].status = "failed" THEN schedule[op[o].app].failures + 1 ELSE 0
  /\ applied' = [applied EXCEPT ![op[o].app] = Append(@, o)]
  /\ op' = op /\ created' = created /\ job' = job /\ now' = now

LEMMA ShowHistory ==
  ASSUME TypeInv, History, NEW o \in Ops, Shows(o)
  PROVE  History' /\ Keeps /\ Steady
<1> DEFINE a == op[o].app
           n == Len(applied[a])
<1>a. /\ a \in Apps /\ job[o].slot \in Nat /\ NextSlot(o) = job[o].slot
      /\ schedule[a] \in ScheduleRecord /\ schedule[a].next = job[o].slot
  BY Types, Fields DEF Shows, History, Born, Current, TypeInv, OpKnown, NextSlot
<1>b. PICK r : /\ ScheduleIs(a, r) /\ r.next \in Nat /\ r.next > job[o].slot
               /\ r.enabled = schedule[a].enabled /\ r.generation = schedule[a].generation
               /\ r.projected = o /\ r.lastOp = o
               /\ r.failures = IF op[o].status = "failed" THEN schedule[a].failures + 1 ELSE 0
  BY DEF Shows
<1>c. /\ applied[a] \in Seq(Ops) /\ n \in Nat /\ DOMAIN applied[a] = 1..n
      /\ applied \in [Apps -> Seq(Ops)] /\ \A i \in 1..n : applied[a][i] \in Ops
  BY <1>a, AppliedSeq, Types DEF TypeInv
<1>d. /\ \A b \in Apps \ {a} : applied'[b] = applied[b] /\ schedule'[b] = schedule[b]
      /\ schedule'[a] = r
      /\ DOMAIN applied'[a] = 1..(n + 1) /\ Len(applied'[a]) = n + 1
      /\ applied'[a][n + 1] = o /\ \A i \in 1..n : applied'[a][i] = applied[a][i]
  <2>1. applied' = [applied EXCEPT ![a] = Append(applied[a], o)]
    BY DEF Shows
  <2>2. applied'[a] = Append(applied[a], o) /\ \A b \in Apps \ {a} : applied'[b] = applied[b]
    BY <1>a, <1>c, <2>1
  <2>3. /\ DOMAIN Append(applied[a], o) = 1..(n + 1) /\ Len(Append(applied[a], o)) = n + 1
        /\ Append(applied[a], o)[n + 1] = o
        /\ \A i \in 1..n : Append(applied[a], o)[i] = applied[a][i]
    BY <1>c
  <2> QED BY <1>b, <2>2, <2>3 DEF ScheduleIs
<1> HIDE DEF n
<1>1. ASSUME NEW x \in Ops
      PROVE  /\ Exists(x)' <=> Exists(x)
             /\ Done(x)' <=> Done(x)
             /\ Exists(x) => Generation(x)' = Generation(x)
             /\ Exists(x) => NextSlot(x)' = IF op[x].app = a THEN r.next ELSE NextSlot(x)
             /\ Current(x)' <=> Current(x)
             /\ Position(x)' = Position(x)
  <2>1. Exists(x) => op[x].app \in Apps
    BY DEF TypeInv, OpKnown
  <2>2. op' = op /\ created' = created /\ job' = job
    BY DEF Shows
  <2> QED BY <1>b, <1>d, <2>1, <2>2 DEF Exists, Done, Generation, NextSlot, Current, Position
<1>2. ASSUME NEW x \in Ops
      PROVE  Applied(x)' <=> (Applied(x) \/ x = o)
  <2>1. Exists(x) => op[x].app \in Apps
    BY DEF TypeInv, OpKnown
  <2>2. op' = op /\ Exists(o)
    BY DEF Shows, Current
  <2>3. CASE op[x].app = a
    <3>1. CASE x = o
      BY <3>1, <2>2, <1>c, <1>d DEF Applied, Exists
    <3>2. CASE x # o
      BY <3>2, <2>2, <2>3, <1>c, <1>d DEF Applied, Exists
    <3> QED BY <3>1, <3>2
  <2>4. CASE op[x].app # a
    BY <2>1, <2>2, <2>4, <1>d DEF Applied, Exists
  <2> QED BY <2>3, <2>4
<1>3. Born'
  BY <1>1 DEF History, Born, Shows
<1>4. OnePerOccurrence'
  BY <1>1 DEF History, OnePerOccurrence, Shows
<1>5. CreatedOnce'
  BY <1>1 DEF History, CreatedOnce, Shows
<1>6. EnabledHasNext'
  <2>1. r.next # None /\ schedule[a].next # None
    BY <1>a, <1>b, QueueAssumption
  <2> QED BY <1>b, <1>d, <2>1 DEF History, EnabledHasNext
<1>7. SlotsUsed'
  <2> SUFFICES ASSUME NEW x \in Ops, Current(x)
               PROVE  /\ NextSlot(x)' # None /\ job[x].slot <= NextSlot(x)'
                      /\ job[x].slot < NextSlot(x)' =>
                           Done(x) /\ (op[x].status = "cancelled" \/ Applied(x)')
                      /\ Applied(x)' \/ job[x].reconciled => job[x].slot < NextSlot(x)'
    BY <1>1 DEF SlotsUsed, Shows
  <2>1. /\ NextSlot(x) # None /\ job[x].slot <= NextSlot(x)
        /\ job[x].slot < NextSlot(x) => Done(x) /\ (op[x].status = "cancelled" \/ Applied(x))
        /\ Applied(x) \/ job[x].reconciled => job[x].slot < NextSlot(x)
        /\ job[x].slot \in Nat /\ Exists(x)
    BY DEF History, SlotsUsed, Born, Current
  <2>2. CASE op[x].app # a
    BY <1>1, <1>2, <2>1, <2>2
  <2>3. CASE op[x].app = a
    <3>1. NextSlot(x)' = r.next /\ NextSlot(x) = job[o].slot
      BY <1>1, <1>a, <2>1, <2>3 DEF NextSlot
    <3>2. r.next # None /\ job[x].slot < r.next /\ job[x].slot <= r.next
      BY <1>a, <1>b, <2>1, <3>1, QueueAssumption
    <3>3. Done(x) /\ (op[x].status = "cancelled" \/ Applied(x)')
      <4>1. CASE job[x].slot = job[o].slot
        <5>1. x = o
          BY <2>3, <4>1, SlotIsOf DEF Shows
        <5> QED BY <5>1, <1>2 DEF Shows
      <4>2. CASE job[x].slot # job[o].slot
        BY <4>2, <1>a, <1>2, <2>1, <3>1
      <4> QED BY <4>1, <4>2
    <3> QED BY <3>1, <3>2, <3>3
  <2> QED BY <2>2, <2>3
<1>8. SlotsInOrder'
  BY <1>1 DEF History, SlotsInOrder, Shows
<1>9. AppliedDone'
  <2> SUFFICES ASSUME NEW b \in Apps
               PROVE  /\ \A i \in DOMAIN applied'[b] :
                           /\ op[applied'[b][i]].app = b /\ Done(applied'[b][i])
                           /\ op[applied'[b][i]].status # "cancelled"
                      /\ schedule'[b].projected # None =>
                           \E i \in DOMAIN applied'[b] : applied'[b][i] = schedule'[b].projected
    BY DEF AppliedDone, Shows, Done
  <2>1. CASE b # a
    BY <2>1, <1>d DEF History, AppliedDone
  <2>2. CASE b = a
    <3>1. \A i \in 1..n : /\ op[applied[a][i]].app = a /\ Done(applied[a][i])
                          /\ op[applied[a][i]].status # "cancelled"
      BY <1>a, <1>c DEF History, AppliedDone
    <3>2. ASSUME NEW i \in 1..(n + 1)
          PROVE  /\ op[applied'[a][i]].app = a /\ Done(applied'[a][i])
                 /\ op[applied'[a][i]].status # "cancelled"
      <4>1. CASE i = n + 1
        BY <4>1, <1>d DEF Shows
      <4>2. CASE i # n + 1
        <5>1. i \in 1..n
          BY <4>2, <1>c
        <5> QED BY <5>1, <3>1, <1>d
      <4> QED BY <4>1, <4>2
    <3>3. n + 1 \in 1..(n + 1)
      BY <1>c
    <3> QED BY <2>2, <3>2, <3>3, <1>b, <1>d
  <2> QED BY <2>1, <2>2
<1>10. NotShownAgain'
  <2> SUFFICES ASSUME NEW x \in Ops, Current(x), Applied(x)'
               PROVE  /\ schedule'[op[x].app].lastOp # None
                      /\ schedule'[op[x].app].lastOp = x => schedule'[op[x].app].projected = x
    BY <1>1 DEF NotShownAgain, Shows
  <2>1. op[x].app \in Apps
    BY DEF Current, TypeInv, OpKnown
  <2>2. CASE op[x].app = a
    BY <2>2, <1>b, <1>d, QueueAssumption
  <2>3. CASE op[x].app # a
    BY <2>1, <2>3, <1>2, <1>d DEF History, NotShownAgain
  <2> QED BY <2>2, <2>3
<1>11. EarlierFirst'
  <2>1. op' = op /\ Current(o)
    BY DEF Shows
  <2> QED BY <1>1, <1>2, <2>1 DEF History, EarlierFirst
<1>12. ProjectedInOrder'
  <2>1. ASSUME NEW i \in 1..n PROVE Position(applied[a][i]) < Position(o)
    <3> DEFINE x == applied[a][i]
    <3>1. x \in Ops /\ op[x].app = a /\ Done(x)
      BY <1>a, <1>c DEF History, AppliedDone
    <3>2. Exists(x) /\ Exists(o) /\ Current(o)
      BY <3>1 DEF Done, Exists, Terminal, Shows, Current
    <3>3. Applied(x)
      BY <1>c, <3>1, <3>2 DEF Applied
    <3> HIDE DEF x
    <3>4. CASE Current(x)
      <4>1. job[x].slot < job[o].slot
        <5>1. NextSlot(x) = job[o].slot
          BY <1>a, <3>1 DEF NextSlot
        <5> QED BY <3>1, <3>3, <3>4, <5>1 DEF History, SlotsUsed
      <4>2. job[x].slot \in Nat
        BY <3>1, <3>2 DEF History, Born
      <4>3. ~(job[o].slot < job[x].slot) /\ x # o
        BY <1>a, <4>1, <4>2
      <4>4. ~(Position(o) < Position(x))
        BY <3>1, <3>2, <3>4, <4>3 DEF History, SlotsInOrder
      <4>5. Position(x) < Position(o)
        BY <3>1, <3>2, <4>3, <4>4, PositionsDiffer DEF History
      <4> QED BY <4>5 DEF x
    <3>5. CASE ~Current(x)
      <4>1. Position(x) < Position(o)
        BY <3>1, <3>2, <3>3, <3>5 DEF History, EarlierFirst
      <4> QED BY <4>1 DEF x
    <3> QED BY <3>4, <3>5
  <2> SUFFICES ASSUME NEW b \in Apps, NEW i \in DOMAIN applied'[b], NEW j \in DOMAIN applied'[b], i < j
               PROVE  Position(applied'[b][i]) < Position(applied'[b][j])
    BY DEF ProjectedInOrder, Shows, Position
  <2>2. CASE b # a
    BY <2>2, <1>d DEF History, ProjectedInOrder
  <2>3. CASE b = a
    <3>1. i \in 1..n
      BY <2>3, <1>c, <1>d
    <3>2. CASE j = n + 1
      BY <2>1, <2>3, <3>1, <3>2, <1>d
    <3>3. CASE j # n + 1
      <4>1. j \in 1..n
        BY <2>3, <3>3, <1>c, <1>d
      <4>2. Position(applied[a][i]) < Position(applied[a][j])
        BY <1>a, <1>c, <3>1, <4>1 DEF History, ProjectedInOrder
      <4> QED BY <2>3, <3>1, <4>1, <4>2, <1>d
    <3> QED BY <3>2, <3>3
  <2> QED BY <2>2, <2>3
<1>13. FailuresCounted'
  <2> SUFFICES ASSUME NEW b \in Apps
               PROVE  LET m == Len(applied'[b])
                          f == schedule'[b].failures
                      IN /\ f <= m
                         /\ \A i \in (m - f + 1)..m : op[applied'[b][i]].status = "failed"
                         /\ f < m => op[applied'[b][m - f]].status # "failed"
    BY DEF FailuresCounted, Shows
  <2>1. CASE b # a
    BY <2>1, <1>d DEF History, FailuresCounted
  <2>2. CASE b = a
    <3> DEFINE f == schedule[a].failures
    <3>1. /\ f <= n /\ f \in Nat
          /\ \A i \in (n - f + 1)..n : op[applied[a][i]].status = "failed"
          /\ f < n => op[applied[a][n - f]].status # "failed"
      BY <1>a DEF History, FailuresCounted, ScheduleRecord, n
    <3>2. Len(applied'[a]) = n + 1 /\ op[applied'[a][n + 1]].status = op[o].status
      BY <1>d
    <3>3. CASE op[o].status = "failed"
      <4>1. schedule'[a].failures = f + 1
        BY <1>b, <1>d, <3>3
      <4> HIDE DEF f
      <4>2. ASSUME NEW i \in ((n + 1) - (f + 1) + 1)..(n + 1) PROVE op[applied'[a][i]].status = "failed"
        <5>1. CASE i = n + 1
          BY <5>1, <3>2, <3>3
        <5>2. CASE i # n + 1
          <6>1. i \in (n - f + 1)..n /\ i \in 1..n
            BY <5>2, <1>c, <3>1
          <6> QED BY <6>1, <3>1, <1>d
        <5> QED BY <5>1, <5>2
      <4>3. ASSUME f + 1 < n + 1 PROVE op[applied'[a][(n + 1) - (f + 1)]].status # "failed"
        <5>1. (n + 1) - (f + 1) = n - f /\ n - f \in 1..n /\ f < n
          BY <4>3, <1>c, <3>1
        <5> QED BY <5>1, <3>1, <1>d
      <4>4. f + 1 <= n + 1
        BY <1>c, <3>1
      <4> QED BY <2>2, <3>2, <4>1, <4>2, <4>3, <4>4
    <3>4. CASE op[o].status # "failed"
      <4>1. schedule'[a].failures = 0
        BY <1>b, <1>d, <3>4
      <4>2. 0 <= n + 1 /\ (n + 1) - 0 = n + 1 /\ ((n + 1) - 0 + 1)..(n + 1) = {}
        BY <1>c
      <4> QED BY <2>2, <3>2, <3>4, <4>1, <4>2
    <3> QED BY <3>3, <3>4
  <2> QED BY <2>1, <2>2
<1>20. Indexed'
  BY <1>1 DEF History, Indexed, Shows
<1>21. Keeps
  <2>1. now \in Nat /\ now' \in Nat /\ now <= now'
    BY Types DEF Shows, TypeInv
  <2>2. ASSUME NEW b \in Apps PROVE KeepsSchedule(b)
    <3>1. CASE b = a
      <4>1. FoundByKey(o, b, <<schedule[b].generation, schedule[b].next>>)
        <5>1. op[o].key = <<schedule[b].generation, schedule[b].next>> /\ op[o].app = b
          BY <1>a, <3>1 DEF History, Born, Shows, Current, Generation
        <5>2. op[o].key \in Nat \X Nat
          BY <1>a, <3>1, <5>1, ScheduleTypes
        <5> QED BY <5>1, <5>2, QueueAssumption DEF FoundByKey
      <4>2. schedule'[b].generation = schedule[b].generation /\ schedule'[b].enabled = schedule[b].enabled
        BY <1>b, <1>d, <3>1
      <4> QED BY <4>1, <4>2, ScheduleTypes DEF KeepsSchedule
    <3>2. CASE b # a
      BY <1>d, <3>2, ScheduleTypes DEF KeepsSchedule
    <3> QED BY <3>1, <3>2
  <2>3. ASSUME NEW x \in Ops, Exists(x) PROVE KeepsOp(x)
    <3>1. op[x].app \in Apps
      BY <2>3 DEF TypeInv, OpKnown
    <3>2. /\ op'[x].app = op[x].app /\ op'[x].key = op[x].key /\ op'[x].status = op[x].status
          /\ job'[x].slot = job[x].slot
      BY DEF Shows
    <3>3. ASSUME Current(x), Done(x), op[x].status # "cancelled", ~Applied(x)'
          PROVE  schedule'[op[x].app].failures = schedule[op[x].app].failures
      <4>1. CASE op[x].app = a
        <5>1. ~Applied(x) /\ x # o
          BY <1>2, <3>3
        <5>2. NextSlot(x) = job[o].slot /\ job[x].slot <= NextSlot(x) /\ job[x].slot \in Nat
              /\ ~(job[x].slot < NextSlot(x))
          BY <1>a, <2>3, <3>3, <4>1, <5>1 DEF NextSlot, History, SlotsUsed, Born
        <5>3. job[x].slot = job[o].slot
          BY <1>a, <5>2
        <5>4. x = o
          BY <3>3, <4>1, <5>3, SlotIsOf DEF Shows
        <5> QED BY <5>1, <5>4
      <4>2. CASE op[x].app # a
        BY <1>d, <3>1, <4>2
      <4> QED BY <4>1, <4>2
    <3>4. ASSUME Current(x), job[x].slot < NextSlot(x) PROVE job[x].slot < NextSlot(x)'
      <4>1. CASE op[x].app = a
        <5>1. NextSlot(x)' = r.next /\ NextSlot(x) = job[o].slot /\ job[x].slot \in Nat
          BY <1>1, <1>a, <2>3, <4>1 DEF NextSlot, History, Born
        <5> QED BY <1>a, <1>b, <3>4, <5>1
      <4>2. CASE op[x].app # a
        BY <1>1, <2>3, <3>4, <4>2
      <4> QED BY <4>1, <4>2
    <3> QED BY <1>1, <1>2, <2>3, <3>2, <3>3, <3>4 DEF KeepsOp
  <2> QED BY <2>1, <2>2, <2>3 DEF Keeps
<1>22. Steady
  BY <1>b, <1>d DEF Steady
<1> QED BY <1>3, <1>4, <1>5, <1>6, <1>7, <1>8, <1>9, <1>10, <1>11, <1>12, <1>13, <1>20, <1>21, <1>22 DEF History

\* An operation is created for an occurrence: of an earlier schedule, or for the
\* next slot of this one.
Creates(o, a, g, t) ==
  /\ a \in Apps /\ g \in Nat /\ t \in Nat /\ g <= schedule[a].generation /\ t <= now
  /\ OpBorn(o, a, <<g, t>>) /\ JobBorn(o, "update", t, g)
  /\ g = schedule[a].generation => schedule[a].next = t
  /\ schedule' = schedule /\ applied' = applied /\ now' = now

LEMMA CreateHistory ==
  ASSUME TypeInv, History, NEW o \in Ops, NEW a, NEW g, NEW t, Creates(o, a, g, t)
  PROVE  History' /\ Keeps /\ Steady
<1> DEFINE n == Len(created)
<1>a. /\ n \in Nat /\ DOMAIN created = 1..n /\ created \in Seq(Ops)
      /\ \A i \in 1..n : created[i] \in Ops
  BY CreatedSeq
<1>b. /\ ~Exists(o) /\ KeyIndexFree(a, <<g, t>>)
      /\ op'[o].app = a /\ op'[o].key = <<g, t>> /\ op'[o].status = "queued" /\ op'[o].active
      /\ \A x \in Ops \ {o} : op'[x] = op[x] /\ job'[x] = job[x]
      /\ job'[o].type = "update" /\ job'[o].slot = t /\ job'[o].generation = g
      /\ job'[o].completed = None /\ ~job'[o].reconciled
      /\ schedule' = schedule /\ applied' = applied /\ now' = now
  BY DEF Creates, OpBorn, JobBorn, Exists
<1>c. /\ DOMAIN created' = 1..(n + 1) /\ created'[n + 1] = o
      /\ \A i \in 1..n : created'[i] = created[i]
  <2>1. created' = Append(created, o)
    BY DEF Creates, OpBorn
  <2> QED BY <1>a, <2>1
<1>d. /\ a \in Apps /\ g \in Nat /\ t \in Nat /\ now \in Nat
      /\ g <= schedule[a].generation /\ t <= now
      /\ g = schedule[a].generation => schedule[a].next = t
  BY Types DEF Creates, TypeInv
<1> HIDE DEF n
<1>1. ASSUME NEW x \in Ops
      PROVE  /\ Exists(x)' <=> (Exists(x) \/ x = o)
             /\ Done(x)' <=> Done(x)
             /\ Exists(x) => /\ op'[x] = op[x] /\ job'[x] = job[x] /\ x # o
                             /\ Generation(x)' = Generation(x) /\ NextSlot(x)' = NextSlot(x)
             /\ Current(x)' <=> (Current(x) \/ (x = o /\ g = schedule[a].generation))
             /\ Applied(x)' <=> Applied(x)
  <2>0. ~Done(o) /\ ~Done(o)'
    BY <1>b DEF Done, Exists, Terminal
  <2>1. CASE x = o
    <3>1. \A i \in DOMAIN applied[a] : applied[a][i] # o
      BY <1>d, <2>0 DEF History, AppliedDone
    <3> QED BY <2>0, <2>1, <3>1, <1>b DEF Exists, Current, Generation, Applied
  <2>2. CASE x # o
    <3>1. /\ op'[x] = op[x] /\ job'[x] = job[x] /\ schedule' = schedule /\ applied' = applied
      BY <2>2, <1>b
    <3>2. /\ Exists(x)' <=> Exists(x)
          /\ Done(x)' <=> Done(x)
          /\ Generation(x)' = Generation(x) /\ NextSlot(x)' = NextSlot(x)
      BY <3>1 DEF Exists, Done, Generation, NextSlot
    <3>3. Current(x)' <=> Current(x)
      BY <3>1, <3>2 DEF Current
    <3>4. Applied(x)' <=> Applied(x)
      BY <3>1, <3>2 DEF Applied
    <3> QED BY <2>2, <3>1, <3>2, <3>3, <3>4
  <2> QED BY <2>1, <2>2
<1>2. CreatedOnce'
  <2>1. /\ \A x \in Ops : Exists(x) <=> \E i \in 1..n : created[i] = x
        /\ \A i, j \in 1..n : created[i] = created[j] => i = j
    BY <1>a DEF History, CreatedOnce
  <2>2. ASSUME NEW x \in Ops
        PROVE  Exists(x)' <=> \E i \in 1..(n + 1) : created'[i] = x
    <3>1. n + 1 \in 1..(n + 1) /\ \A i \in 1..(n + 1) : i = n + 1 \/ i \in 1..n
      BY <1>a
    <3>2. 1..n \subseteq 1..(n + 1)
      BY <1>a
    <3> QED BY <1>1, <1>c, <2>1, <3>1, <3>2
  <2>3. ASSUME NEW i \in 1..(n + 1), NEW j \in 1..(n + 1), created'[i] = created'[j]
        PROVE  i = j
    <3>1. \A k \in 1..(n + 1) : k = n + 1 \/ k \in 1..n
      BY <1>a
    <3>2. \A k \in 1..n : created[k] # o
      BY <2>1, <1>b
    <3> QED BY <2>1, <2>3, <3>1, <3>2, <1>c
  <2> QED BY <1>c, <2>2, <2>3 DEF CreatedOnce
<1>3. ASSUME NEW x \in Ops, Exists(x)
      PROVE  Position(x)' = Position(x) /\ Position(x) \in 1..n
  <2>1. Position(x) \in 1..n /\ created[Position(x)] = x
    BY <1>3, <1>a, PositionIs DEF History
  <2>2. Position(x) \in DOMAIN created' /\ created'[Position(x)] = x
    BY <2>1, <1>a, <1>c
  <2>3. Position(x)' \in DOMAIN created' /\ created'[Position(x)'] = x
    BY <2>2 DEF Position
  <2> QED BY <1>2, <2>1, <2>2, <2>3 DEF CreatedOnce
<1>4. Position(o)' = n + 1
  <2>1. n + 1 \in DOMAIN created' /\ created'[n + 1] = o
    BY <1>a, <1>c
  <2>2. Position(o)' \in DOMAIN created' /\ created'[Position(o)'] = o
    BY <2>1 DEF Position
  <2> QED BY <1>2, <2>1, <2>2 DEF CreatedOnce
<1>5. Born'
  <2> SUFFICES ASSUME NEW x \in Ops, Exists(x)'
               PROVE  /\ job'[x].type = "update" /\ job'[x].slot \in Nat
                      /\ op'[x].key = <<job'[x].generation, job'[x].slot>>
                      /\ job'[x].generation <= Generation(x)'
                      /\ job'[x].slot <= now'
                      /\ job'[x].completed # None => job'[x].slot <= job'[x].completed
    BY DEF Born
  <2>1. CASE x = o
    BY <2>1, <1>b, <1>d DEF Generation
  <2>2. CASE x # o
    <3>1. Exists(x)
      BY <1>1, <2>2
    <3> QED BY <1>1, <1>b, <3>1 DEF History, Born
  <2> QED BY <2>1, <2>2
<1>6. OnePerOccurrence'
  <2>1. ASSUME NEW x \in Ops, Exists(x), op[x].app = a PROVE op[x].key # <<g, t>>
    <3>1. op[x].key = <<job[x].generation, job[x].slot>>
      BY <2>1 DEF History, Born
    <3>2. op[x].key # None
      <4>1. job[x].generation \in Nat /\ job[x].slot \in Nat
        BY <2>1, Fields DEF History, Born
      <4>2. op[x].key \in Nat \X Nat
        BY <3>1, <4>1
      <4> QED BY <4>2, QueueAssumption
    <3>3. <<op[x].app, op[x].key>> # <<a, <<g, t>>>>
      BY <1>b, <3>2 DEF KeyIndexFree
    <3> QED BY <2>1, <3>3
  <2> SUFFICES ASSUME NEW x \in Ops, NEW y \in Ops, Exists(x)', Exists(y)',
                      op'[x].app = op'[y].app, op'[x].key = op'[y].key
               PROVE  x = y
    BY DEF OnePerOccurrence
  <2>2. CASE x = o /\ y # o
    BY <2>2, <1>1, <1>b, <2>1
  <2>3. CASE y = o /\ x # o
    BY <2>3, <1>1, <1>b, <2>1
  <2>4. CASE x # o /\ y # o
    BY <2>4, <1>1 DEF History, OnePerOccurrence
  <2> QED BY <2>2, <2>3, <2>4
<1>7. EnabledHasNext'
  BY <1>b DEF History, EnabledHasNext
<1>8. SlotsUsed'
  <2> SUFFICES ASSUME NEW x \in Ops, Current(x)'
               PROVE  /\ NextSlot(x)' # None /\ job'[x].slot <= NextSlot(x)'
                      /\ job'[x].slot < NextSlot(x)' =>
                           Done(x)' /\ (op'[x].status = "cancelled" \/ Applied(x)')
                      /\ Applied(x)' \/ job'[x].reconciled => job'[x].slot < NextSlot(x)'
    BY DEF SlotsUsed
  <2>1. CASE x = o
    <3>1. NextSlot(x)' = t /\ job'[x].slot = t
      BY <1>1, <1>b, <1>d, <2>1 DEF NextSlot, Current
    <3>2. ~Applied(x)'
      BY <1>1, <1>b, <2>1 DEF Applied
    <3> QED BY <1>b, <1>d, <2>1, <3>1, <3>2, QueueAssumption
  <2>2. CASE x # o
    <3>1. Current(x) /\ Exists(x)
      BY <1>1, <2>2 DEF Current
    <3> QED BY <1>1, <3>1 DEF History, SlotsUsed
  <2> QED BY <2>1, <2>2
<1>9. SlotsInOrder'
  <2> SUFFICES ASSUME NEW x \in Ops, NEW y \in Ops, Current(x)', Current(y)',
                      op'[x].app = op'[y].app, Position(x)' < Position(y)'
               PROVE  job'[x].slot < job'[y].slot
    BY DEF SlotsInOrder
  <2>1. CASE x # o /\ y # o
    <3>1. Current(x) /\ Current(y) /\ Exists(x) /\ Exists(y)
      BY <1>1, <2>1 DEF Current
    <3> QED BY <1>1, <1>3, <3>1 DEF History, SlotsInOrder
  <2>2. CASE x # o /\ y = o
    <3>1. Current(x) /\ Exists(x) /\ g = schedule[a].generation /\ op[x].app = a
      BY <1>1, <1>b, <2>2 DEF Current
    <3>2. NextSlot(x) = t
      BY <1>d, <3>1 DEF NextSlot
    <3>3. job[x].slot <= t /\ job[x].slot \in Nat
      BY <3>1, <3>2 DEF History, SlotsUsed, Born
    <3>4. job[x].slot # t
      <4>1. ASSUME job[x].slot = t PROVE FALSE
        <5>1. op[x].key = <<g, t>>
          BY <3>1, <4>1 DEF History, Born, Current, Generation
        <5>2. op[x].key \in Nat \X Nat
          BY <1>d, <5>1
        <5>3. op[x].key # None
          BY <5>2, QueueAssumption
        <5> QED BY <1>b, <3>1, <5>1, <5>3 DEF KeyIndexFree
      <4> QED BY <4>1
    <3> QED BY <1>1, <1>b, <1>d, <2>2, <3>1, <3>3, <3>4
  <2>3. CASE x = o
    <3>1. y # o \/ y = o
      OBVIOUS
    <3>2. Position(x)' = n + 1
      BY <1>4, <2>3
    <3>3. Position(y)' \in 1..(n + 1)
      BY <1>a, <1>1, <1>3, <1>4 DEF Current
    <3> QED BY <1>a, <3>2, <3>3
  <2> QED BY <2>1, <2>2, <2>3
<1>10. AppliedDone'
  <2>1. ASSUME NEW b \in Apps, NEW i \in DOMAIN applied[b]
        PROVE  /\ op'[applied[b][i]] = op[applied[b][i]] /\ Done(applied[b][i])'
    <3>1. applied[b][i] \in Ops /\ Done(applied[b][i])
      BY AppliedSeq DEF History, AppliedDone
    <3>2. Exists(applied[b][i])
      BY <3>1 DEF Done, Exists, Terminal
    <3> QED BY <1>1, <1>b, <3>1, <3>2
  <2> QED BY <1>b, <2>1 DEF History, AppliedDone
<1>11. NotShownAgain'
  <2> SUFFICES ASSUME NEW x \in Ops, Current(x)', Applied(x)'
               PROVE  /\ schedule'[op'[x].app].lastOp # None
                      /\ schedule'[op'[x].app].lastOp = x => schedule'[op'[x].app].projected = x
    BY DEF NotShownAgain
  <2>1. Applied(x) /\ Exists(x) /\ Current(x)
    BY <1>1 DEF Applied
  <2> QED BY <1>1, <1>b, <2>1 DEF History, NotShownAgain
<1>12. EarlierFirst'
  <2> SUFFICES ASSUME NEW y \in Ops, NEW x \in Ops, Applied(x)', ~Current(x)', Current(y)',
                      op'[y].app = op'[x].app
               PROVE  Position(x)' < Position(y)'
    BY DEF EarlierFirst
  <2>1. Applied(x) /\ Exists(x) /\ ~Current(x)
    BY <1>1 DEF Applied
  <2>2. CASE y = o
    <3>1. Position(x)' \in 1..n /\ Position(y)' = n + 1
      BY <1>3, <1>4, <2>1, <2>2
    <3> QED BY <1>a, <3>1
  <2>3. CASE y # o
    <3>1. Current(y) /\ Exists(y)
      BY <1>1, <2>3 DEF Current
    <3> QED BY <1>1, <1>3, <2>1, <3>1 DEF History, EarlierFirst
  <2> QED BY <2>2, <2>3
<1>13. ProjectedInOrder'
  <2>1. ASSUME NEW b \in Apps, NEW i \in DOMAIN applied[b]
        PROVE  Position(applied[b][i])' = Position(applied[b][i])
    <3> DEFINE x == applied[b][i]
    <3>1. x \in Ops /\ Exists(x)
      BY AppliedSeq DEF History, AppliedDone, Done, Exists, Terminal
    <3>2. (CHOOSE k \in DOMAIN created' : created'[k] = x) = CHOOSE k \in DOMAIN created : created[k] = x
      <4> HIDE DEF x
      <4> QED BY <1>3, <3>1 DEF Position
    <3> QED BY <3>2, <1>b DEF Position
  <2> QED BY <1>b, <2>1 DEF History, ProjectedInOrder, Position
<1>14. FailuresCounted'
  <2>1. ASSUME NEW b \in Apps, NEW i \in DOMAIN applied[b]
        PROVE  op'[applied[b][i]].status = op[applied[b][i]].status
    <3>1. applied[b][i] \in Ops /\ Exists(applied[b][i])
      BY AppliedSeq DEF History, AppliedDone, Done, Exists, Terminal
    <3> QED BY <1>1, <3>1
  <2> QED BY <1>b, <2>1, FailuresFrom DEF History
<1>20. Indexed'
  <2> SUFFICES ASSUME NEW x \in Ops, op'[x].key # None \/ op'[x].active PROVE Exists(x)'
    BY DEF Indexed
  <2>1. CASE x = o
    BY <1>1, <2>1
  <2>2. CASE x # o
    <3>1. op'[x] = op[x]
      BY <1>b, <2>2
    <3> QED BY <1>1, <3>1 DEF History, Indexed
  <2> QED BY <2>1, <2>2
<1>21. Keeps
  <2>1. now \in Nat /\ now' \in Nat /\ now <= now'
    BY Types DEF Creates, TypeInv
  <2>2. ASSUME NEW b \in Apps PROVE KeepsSchedule(b)
    BY ScheduleTypes DEF KeepsSchedule, Creates
  <2>3. ASSUME NEW x \in Ops, Exists(x) PROVE KeepsOp(x)
    <3>1. op[x].app \in Apps
      BY <2>3 DEF TypeInv, OpKnown
    <3>2. /\ op'[x] = op[x] /\ job'[x] = job[x] /\ x # o
          /\ Exists(x)' /\ Position(x)' = Position(x) /\ NextSlot(x)' = NextSlot(x)
          /\ Done(x)' <=> Done(x)
          /\ Applied(x)' <=> Applied(x)
          /\ Current(x)' <=> Current(x)
          /\ schedule'[op[x].app].failures = schedule[op[x].app].failures
      BY <1>1, <1>3, <1>b, <2>3
    <3> QED BY <3>2 DEF KeepsOp
  <2> QED BY <2>1, <2>2, <2>3 DEF Keeps
<1>22. Steady
  BY DEF Steady, Creates
<1> QED BY <1>2, <1>5, <1>6, <1>7, <1>8, <1>9, <1>10, <1>11, <1>12, <1>13, <1>14, <1>20, <1>21, <1>22 DEF History

-----------------------------------------------------------------------------
(* Preservation of what scans, executors and edits know.                    *)

LEMMA ListedIsDone ==
  ASSUME TypeInv, NEW s \in Schedulers, ScanOf(s), scan[s].pc \in AtList, NEW o \in scan[s].list
  PROVE  o \in Ops /\ Exists(o) /\ Done(o)
<1>1. scan[s] \in ScanRecord
  BY Types DEF TypeInv
<1>2. o \in Ops /\ Done(o)
  BY <1>1 DEF ScanOf, ScanRecord
<1> QED BY <1>2 DEF Done, Exists, Terminal

\* The next of a list is one operation.
LEMMA OneIsNext ==
  ASSUME TypeInv, History, NEW s \in Schedulers, ScanOf(s), scan[s].pc \in AtList,
         NEW o \in Ops, NEW x \in Ops, NextListed(s, o), NextListed(s, x)
  PROVE  o = x
<1>1. Exists(o) /\ Exists(x)
  BY ListedIsDone DEF NextListed
<1>2. Position(o) <= Position(x) /\ Position(x) <= Position(o)
  BY DEF NextListed
<1> QED BY <1>1, <1>2, PositionsDiffer DEF History

LEMMA NextListedKept ==
  ASSUME TypeInv, NEW s \in Schedulers, ScanOf(s), scan[s].pc \in AtList, Keeps,
         scan'[s].list = scan[s].list, NEW o \in Ops
  PROVE  NextListed(s, o)' <=> NextListed(s, o)
<1>1. \A x \in scan[s].list : Position(x)' = Position(x)
  BY ListedIsDone DEF Keeps, KeepsOp
<1> QED BY <1>1 DEF NextListed

LEMMA FoundIsKept ==
  ASSUME TypeInv, History, Keeps, NEW o \in Ops, NEW a, NEW k, FoundByKey(o, a, k)
  PROVE  FoundByKey(o, a, k)'
<1>1. Exists(o)
  BY DEF History, Indexed, FoundByKey
<1> QED BY <1>1 DEF Keeps, KeepsOp, FoundByKey

LEMMA ScanSpared ==
  ASSUME TypeInv, TypeInv', History, Keeps, NEW s \in Schedulers, ScanOf(s), scan'[s] = scan[s]
  PROVE  ScanOf(s)'
<1> DEFINE a == scan[s].app
<1>a. /\ scan[s] \in ScanRecord /\ scan[s].list \subseteq Ops
      /\ scan[s].generation \in Nat /\ scan[s].slot \in Time
      /\ scan[s].pc \in AtApp => a \in Apps /\ scan[s].slot \in Nat
      /\ scan[s].pc = "record" => scan[s].op \in Ops
  BY Types DEF TypeInv, ScanRecord, ScanKnown
<1>b. now \in Nat /\ now' \in Nat /\ now <= now'
  BY Types DEF TypeInv, Keeps
<1>1. ASSUME scan[s].pc \in AtApp
      PROVE  scan[s].generation <= schedule'[a].generation /\ scan[s].slot <= now'
  <2>1. scan[s].generation <= schedule[a].generation /\ scan[s].slot <= now
    BY <1>1 DEF ScanOf
  <2>2. schedule[a].generation <= schedule'[a].generation
    BY <1>1, <1>a DEF Keeps, KeepsSchedule
  <2>3. schedule[a].generation \in Nat /\ schedule'[a].generation \in Nat
    BY <1>1, <1>a, ScheduleTypes, Types DEF TypeInv, ScheduleRecord, TypeOK
  <2> QED BY <1>1, <1>a, <1>b, <2>1, <2>2, <2>3
<1>2. ASSUME scan[s].pc \in AtApp, scan[s].pc # "record",
             scan[s].generation = schedule'[a].generation
      PROVE  /\ schedule'[a].enabled
             /\ scan[s].slot # schedule'[a].next => \E o \in Ops : FoundByKey(o, a, Key(s))'
  <2>1. schedule[a].generation = scan[s].generation
    <3>1. scan[s].generation <= schedule[a].generation
      BY <1>2 DEF ScanOf
    <3>2. schedule[a].generation <= schedule'[a].generation /\ schedule[a].generation \in Nat
      BY <1>2, <1>a, ScheduleTypes DEF Keeps, KeepsSchedule
    <3> QED BY <1>2, <1>a, <3>1, <3>2
  <2>2. /\ schedule[a].enabled
        /\ scan[s].slot # schedule[a].next => \E o \in Ops : FoundByKey(o, a, Key(s))
    BY <1>2, <2>1 DEF ScanOf
  <2>3. /\ schedule'[a].enabled = schedule[a].enabled
        /\ schedule'[a].next # schedule[a].next =>
             \E o \in Ops : FoundByKey(o, a, <<schedule[a].generation, schedule[a].next>>)
    BY <1>2, <1>a, <2>1 DEF Keeps, KeepsSchedule
  <2>4. ASSUME scan[s].slot # schedule'[a].next PROVE \E o \in Ops : FoundByKey(o, a, Key(s))
    <3>1. CASE scan[s].slot # schedule[a].next
      BY <2>2, <3>1
    <3>2. CASE scan[s].slot = schedule[a].next
      BY <2>1, <2>3, <2>4, <3>2 DEF Key
    <3> QED BY <3>1, <3>2
  <2>5. ASSUME NEW o \in Ops, FoundByKey(o, a, Key(s)) PROVE FoundByKey(o, a, Key(s))'
    <3>1. /\ op'[o].app = op[o].app /\ op'[o].key = op[o].key
      BY <2>5 DEF History, Indexed, FoundByKey, Keeps, KeepsOp
    <3> QED BY <2>5, <3>1 DEF FoundByKey, Key
  <2> QED BY <2>2, <2>3, <2>4, <2>5
<1>3. ASSUME scan[s].pc = "record"
      PROVE  FoundByKey(scan[s].op, a, Key(s))'
  <2>1. FoundByKey(scan[s].op, a, Key(s))
    BY <1>3 DEF ScanOf
  <2>2. /\ op'[scan[s].op].app = op[scan[s].op].app /\ op'[scan[s].op].key = op[scan[s].op].key
    BY <1>a, <1>3, <2>1 DEF History, Indexed, FoundByKey, Keeps, KeepsOp
  <2> QED BY <2>1, <2>2 DEF FoundByKey, Key
<1>4. ASSUME scan[s].pc \in AtList, NEW o \in scan[s].list
      PROVE  Done(o)'
  BY <1>4, ListedIsDone DEF Keeps, KeepsOp
<1>5. ASSUME NEW o \in Ops, NextListed(s, o)', Current(o)', scan[s].pc \in AtList
      PROVE  /\ scan[s].pc = "project" => scan[s].enabled
             /\ scan[s].pc = "project" /\ ~Applied(o)' /\ op'[o].status # "cancelled" =>
                  scan[s].failures = schedule'[op'[o].app].failures
             /\ scan[s].pc = "mark" => job'[o].slot < NextSlot(o)'
  <2>1. NextListed(s, o)
    BY <1>5, NextListedKept
  <2>2. Exists(o) /\ Done(o)
    BY <1>5, <2>1, ListedIsDone DEF NextListed
  <2>3. KeepsOp(o)
    BY <2>2 DEF Keeps
  <2>4. Current(o)
    BY <1>5, <2>3 DEF KeepsOp
  <2>5. /\ scan[s].pc = "project" => scan[s].enabled
        /\ scan[s].pc = "project" /\ ~Applied(o) /\ op[o].status # "cancelled" =>
             scan[s].failures = schedule[op[o].app].failures
        /\ scan[s].pc = "mark" => job[o].slot < NextSlot(o)
    BY <2>1, <2>4 DEF ScanOf
  <2> QED BY <1>5, <2>2, <2>3, <2>5 DEF KeepsOp
<1> QED BY <1>1, <1>2, <1>3, <1>4, <1>5 DEF ScanOf, AtList, Key

LEMMA SameIs ==
  ASSUME TypeInv, UNCHANGED <<queue, now, schedule, job, applied>>
  PROVE  SameData
<1>1. op' = op /\ created' = created
  BY DEF queue
<1> QED BY <1>1, Types DEF SameData, SameSchedule, TypeInv

\* A scan that starts, goes on with a shorter list, or ends.
LEMMA ListKept ==
  ASSUME TypeInv, Keeps, NEW s \in Schedulers, scan'[s].pc \in {"idle", "scan", "reconcile"},
         \A o \in scan'[s].list : o \in Ops /\ Done(o)
  PROVE  ScanOf(s)'
<1>1. \A o \in scan'[s].list : Done(o)'
  BY DEF Keeps, KeepsOp, Done, Exists, Terminal
<1> QED BY <1>1 DEF ScanOf, AtApp, AtList

LEMMA ScanStartKept ==
  ASSUME TypeInv, History, NEW s \in Schedulers, ScanStart(s)
  PROVE  SameData /\ ScanOf(s)'
<1> DEFINE list == {o \in Ops : Unreconciled(o)}
<1>1. SameData /\ Keeps
  BY SameIs, SameHistory DEF ScanStart
<1>2. ScanIs(s, Reconcile(list))
  BY ReconcileRecord, ScanUpdate DEF ScanStart, TypeInv
<1>3. scan'[s].pc \in {"scan", "reconcile"} /\ scan'[s].list = list
  BY <1>2, ReconcileRecord DEF ScanIs
<1>4. \A o \in list : o \in Ops /\ Done(o)
  BY DEF Unreconciled, Done
<1> QED BY <1>1, <1>3, <1>4, ListKept

\* What a scan loads of the schedule an operation belongs to.
LEMMA LoadAppKept ==
  ASSUME TypeInv, History, NEW s \in Schedulers, ScanOf(s), LoadApp(s)
  PROVE  SameData /\ ScanOf(s)'
<1>1. PICK o \in Ops :
        /\ NextListed(s, o) /\ scan[s].pc = "reconcile" /\ op[o].app \in Apps
        /\ ScanIs(s, [scan[s] EXCEPT !.pc = "project",
                                     !.enabled = schedule[op[o].app].enabled,
                                     !.failures = schedule[op[o].app].failures])
        /\ UNCHANGED <<queue, now, schedule, job, executor, edit, manual, applied>>
  BY LoadAppEffect
<1>2. SameData /\ Keeps
  BY <1>1, SameIs, SameHistory
<1>a. scan[s] \in ScanRecord /\ scan[s].pc \in AtList
  BY <1>1, Types DEF TypeInv, AtList
<1>3. /\ scan'[s].pc = "project" /\ scan'[s].list = scan[s].list
      /\ scan'[s].enabled = schedule[op[o].app].enabled
      /\ scan'[s].failures = schedule[op[o].app].failures
  BY <1>1, <1>a DEF ScanIs, ScanRecord
<1>4. ASSUME NEW x \in scan[s].list PROVE Done(x)'
  BY <1>a, ListedIsDone, <1>2 DEF Keeps, KeepsOp
<1>5. ASSUME NEW x \in Ops, NextListed(s, x)', Current(x)'
      PROVE  /\ scan'[s].enabled
             /\ scan'[s].failures = schedule'[op'[x].app].failures
  <2>1. NextListed(s, x)
    BY <1>2, <1>3, <1>5, <1>a, NextListedKept
  <2>2. x = o
    BY <1>1, <1>a, <2>1, OneIsNext
  <2>3. Exists(x) /\ Done(x)
    BY <1>a, <2>1, ListedIsDone DEF NextListed
  <2>4. Current(x)
    BY <1>2, <1>5, <2>3 DEF Keeps, KeepsOp
  <2>5. NextSlot(x) # None
    BY <2>4 DEF History, SlotsUsed
  <2>6. schedule[op[o].app].enabled
    BY <1>1, <2>2, <2>5 DEF History, EnabledHasNext, NextSlot
  <2>7. op' = op /\ schedule' = schedule
    BY <1>1 DEF queue
  <2> QED BY <1>3, <2>2, <2>6, <2>7
<1> QED BY <1>2, <1>3, <1>4, <1>5 DEF ScanOf, AtApp, AtList

\* An outcome that passes the filter is that of the slot that is next, and was
\* never projected before.
LEMMA ProjectableIsNext ==
  ASSUME TypeInv, History, NEW o \in Ops, Exists(o), Done(o), op[o].status # "cancelled",
         Projectable(o, op[o].app)
  PROVE  Current(o) /\ ~Applied(o) /\ job[o].slot = NextSlot(o)
<1>1. Current(o)
  BY DEF Projectable, Current, Generation
<1>2. /\ job[o].slot \in Nat /\ NextSlot(o) \in Time /\ NextSlot(o) # None
      /\ job[o].slot <= NextSlot(o)
      /\ job[o].slot < NextSlot(o) => Applied(o)
      /\ Applied(o) => job[o].slot < NextSlot(o)
  BY <1>1, Fields DEF History, SlotsUsed, Born
<1>3. ~Applied(o)
  <2>1. ASSUME Applied(o) PROVE FALSE
    <3>1. /\ schedule[op[o].app].lastOp # None
          /\ schedule[op[o].app].lastOp = o => schedule[op[o].app].projected = o
      BY <1>1, <2>1 DEF History, NotShownAgain
    <3>2. schedule[op[o].app].next = job[o].slot
      BY <3>1 DEF Projectable
    <3> QED BY <1>2, <2>1, <3>2 DEF NextSlot
  <2> QED BY <2>1
<1>4. NextSlot(o) \in Nat
  BY <1>2 DEF Time
<1> QED BY <1>1, <1>2, <1>3, <1>4

LEMMA ScanMarks ==
  ASSUME TypeInv, History, Keeps, NEW s \in Schedulers, ScanOf(s), scan[s].pc \in AtList,
         scan'[s].pc = "mark", scan'[s].list = scan[s].list, NEW o \in Ops, NextListed(s, o),
         Current(o)' => job'[o].slot < NextSlot(o)'
  PROVE  ScanOf(s)'
<1>1. \A x \in scan[s].list : Done(x)'
  BY ListedIsDone DEF Keeps, KeepsOp
<1>2. ASSUME NEW x \in Ops, NextListed(s, x)' PROVE x = o
  <2>1. NextListed(s, x)
    BY <1>2, NextListedKept
  <2> QED BY <2>1, OneIsNext
<1> QED BY <1>1, <1>2 DEF ScanOf, AtApp, AtList

LEMMA ProjectKept ==
  ASSUME TypeInv, History, NEW s \in Schedulers, ScanOf(s), Project(s)
  PROVE  /\ SameData \/ \E o \in Ops : Shows(o) \/ Skips(o)
         /\ ScanOf(s)'
<1>1. PICK o \in Ops :
        /\ scan[s].pc = "project" /\ NextListed(s, o)
        /\ op[o].app \in Apps /\ job[o].completed \in Nat
        /\ ScanIs(s, [scan[s] EXCEPT !.pc = "mark"])
        /\ \/ /\ op[o].status # "cancelled" /\ Projectable(o, op[o].app)
              /\ \E delay \in Nat \ {0} :
                   ScheduleIs(op[o].app, Shown(s, o, FailuresAfter(s, o), delay))
              /\ applied' = [applied EXCEPT ![op[o].app] = Append(@, o)]
           \/ /\ op[o].status # "cancelled" /\ ~Projectable(o, op[o].app)
              /\ UNCHANGED <<schedule, applied>>
           \/ /\ op[o].status = "cancelled" /\ SlotCancelled(o, op[o].app)
              /\ job[o].slot \in Nat
              /\ ScheduleIs(op[o].app, [schedule[op[o].app] EXCEPT
                   !.next = Later(now, job[o].slot + 1)])
              /\ UNCHANGED applied
           \/ /\ op[o].status = "cancelled" /\ ~SlotCancelled(o, op[o].app)
              /\ UNCHANGED <<schedule, applied>>
        /\ UNCHANGED <<queue, now, job, executor, edit, manual>>
  BY ProjectEffect
<1> DEFINE a == op[o].app
<1>a. /\ scan[s] \in ScanRecord /\ scan[s].pc \in AtList /\ scan[s].pc = "project"
      /\ NextListed(s, o) /\ op' = op /\ created' = created /\ job' = job /\ now' = now
      /\ schedule[a] \in ScheduleRecord /\ now \in Nat /\ a \in Apps
  BY <1>1, Types DEF TypeInv, AtList, queue
<1>b. Exists(o) /\ Done(o)
  BY <1>a, ListedIsDone DEF NextListed
<1>c. scan'[s].pc = "mark" /\ scan'[s].list = scan[s].list
  BY <1>1, <1>a DEF ScanIs, ScanRecord
<1>d. Current(o) => /\ job[o].slot \in Nat /\ NextSlot(o) \in Nat /\ job[o].slot <= NextSlot(o)
                    /\ schedule[a].enabled /\ schedule[a].generation = job[o].generation
  <2>1. ASSUME Current(o)
        PROVE  /\ job[o].slot \in Nat /\ NextSlot(o) \in Nat /\ job[o].slot <= NextSlot(o)
               /\ schedule[a].next # None
    BY <2>1, <1>b, Fields DEF History, SlotsUsed, Born, Time, NextSlot
  <2> QED BY <1>a, <2>1 DEF History, EnabledHasNext, Current, Generation
<1>2. CASE op[o].status # "cancelled" /\ Projectable(o, a)
  <2>0. PICK delay \in Nat \ {0} : ScheduleIs(a, Shown(s, o, FailuresAfter(s, o), delay))
    BY <1>1, <1>2
  <2>1. Current(o) /\ ~Applied(o) /\ job[o].slot = NextSlot(o)
    BY <1>2, <1>b, ProjectableIsNext
  <2>2. scan[s].enabled /\ scan[s].failures = schedule[a].failures
    BY <1>2, <1>a, <2>1 DEF ScanOf
  <2> DEFINE r == Shown(s, o, FailuresAfter(s, o), delay)
  <2>3. /\ r.next = job[o].completed + delay
        /\ r.enabled = schedule[a].enabled /\ r.generation = schedule[a].generation
        /\ r.projected = o /\ r.lastOp = o
        /\ r.failures = FailuresAfter(s, o)
    BY <1>a, <2>2 DEF Shown, ScheduleRecord
  <2>4. r.failures = IF op[o].status = "failed" THEN schedule[a].failures + 1 ELSE 0
    BY <2>2, <2>3 DEF FailuresAfter
  <2>5. job[o].slot <= job[o].completed /\ job[o].slot \in Nat
    BY <1>1, <1>b, <2>1, <1>d, QueueAssumption DEF History, Born
  <2> HIDE DEF r
  <2>6. r.next \in Nat /\ r.next > job[o].slot
    BY <1>1, <2>3, <2>5
  <2>7. ScheduleIs(a, r)
    BY <2>0 DEF r
  <2>8. Shows(o)
    BY <1>1, <1>2, <1>a, <1>b, <2>1, <2>3, <2>4, <2>6, <2>7 DEF Shows
  <2>9. NextSlot(o)' = r.next
    BY <1>a, <2>7 DEF NextSlot, ScheduleIs
  <2>10. Keeps
    BY <2>8, ShowHistory
  <2>11. Current(o)' => job'[o].slot < NextSlot(o)'
    BY <1>a, <2>5, <2>6, <2>9
  <2> QED BY <1>a, <1>c, <2>8, <2>10, <2>11, ScanMarks
<1>3. CASE op[o].status = "cancelled" /\ SlotCancelled(o, a)
  <2>1. Current(o) /\ job[o].slot = NextSlot(o)
    BY <1>3, <1>b DEF SlotCancelled, Current, Generation, NextSlot
  <2>2. Skips(o)
    BY <1>1, <1>3, <1>a, <1>b, <2>1 DEF Skips
  <2>3. Keeps
    BY <2>2, SkipHistory
  <2>4. NextSlot(o)' = Later(now, job[o].slot + 1)
    <3>1. schedule'[a].next = Later(now, job[o].slot + 1)
      BY <1>a, <2>2 DEF Skips, ScheduleIs, ScheduleRecord
    <3> QED BY <1>a, <3>1 DEF NextSlot
  <2>5. Current(o)' => job'[o].slot < NextSlot(o)'
    BY <1>a, <1>d, <2>1, <2>4 DEF Later
  <2> QED BY <1>a, <1>c, <2>2, <2>3, <2>5, ScanMarks
<1>4. CASE UNCHANGED <<schedule, applied>> /\ (Current(o) => job[o].slot < NextSlot(o))
  <2>1. SameData /\ Keeps
    BY <1>1, <1>4, SameIs, SameHistory
  <2>2. Current(o)' => job'[o].slot < NextSlot(o)'
    BY <1>4, <1>a DEF Current, Exists, Generation, NextSlot
  <2> QED BY <1>a, <1>c, <2>1, <2>2, ScanMarks
<1>5. ASSUME Current(o), op[o].status = "cancelled", ~SlotCancelled(o, a)
      PROVE  job[o].slot < NextSlot(o)
  <2>1. job[o].slot # None
    BY <1>5, <1>d, QueueAssumption
  <2>2. schedule[a].next # job[o].slot
    BY <1>5, <1>d, <2>1 DEF SlotCancelled, Automatic
  <2> QED BY <1>5, <1>d, <2>2 DEF NextSlot
<1>6. ASSUME Current(o), op[o].status # "cancelled", ~Projectable(o, a)
      PROVE  job[o].slot < NextSlot(o)
  <2>0. job[o].slot # None
    BY <1>6, <1>d, QueueAssumption
  <2>1. CASE schedule[a].projected = o
    <3>1. \E i \in DOMAIN applied[a] : applied[a][i] = o
      BY <1>a, <2>1, QueueAssumption DEF History, AppliedDone
    <3>2. Applied(o)
      BY <1>b, <3>1 DEF Applied
    <3> QED BY <1>6, <3>2 DEF History, SlotsUsed
  <2>2. CASE schedule[a].projected # o
    <3>1. schedule[a].next # job[o].slot
      BY <1>6, <1>d, <2>0, <2>2 DEF Projectable, Automatic
    <3> QED BY <1>6, <1>d, <3>1 DEF NextSlot
  <2> QED BY <2>1, <2>2
<1> QED BY <1>1, <1>2, <1>3, <1>4, <1>5, <1>6, Zenon

LEMMA MarkKept ==
  ASSUME TypeInv, History, NEW s \in Schedulers, ScanOf(s), MarkReconciled(s)
  PROVE  (\E o \in Ops : Marks(o)) /\ ScanOf(s)'
<1>1. PICK o \in Ops :
        /\ scan[s].pc = "mark" /\ NextListed(s, o)
        /\ JobIs(o, job[o].completed, TRUE)
        /\ ScanIs(s, Reconcile(scan[s].list \ {o}))
        /\ UNCHANGED <<queue, now, schedule, executor, edit, manual, applied>>
  BY MarkReconciledEffect
<1>a. scan[s] \in ScanRecord /\ scan[s].pc \in AtList /\ scan[s].list \in SUBSET Ops
  BY <1>1, Types DEF TypeInv, AtList, ScanRecord
<1>2. Marks(o)
  BY <1>1 DEF ScanOf, Marks, queue
<1>3. Keeps
  BY <1>2, MarkHistory
<1>4. scan'[s].pc \in {"scan", "reconcile"} /\ scan'[s].list = scan[s].list \ {o}
  BY <1>1, <1>a, ReconcileRecord DEF ScanIs
<1>5. \A x \in scan'[s].list : x \in Ops /\ Done(x)
  BY <1>a, <1>4, ListedIsDone
<1> QED BY <1>2, <1>3, <1>4, <1>5, ListKept

LEMMA PickDueKept ==
  ASSUME TypeInv, History, NEW s \in Schedulers, PickDue(s)
  PROVE  SameData /\ ScanOf(s)'
<1>1. PICK a \in Apps :
        /\ Due(a)
        /\ ScanIs(s, [scan[s] EXCEPT
             !.pc = "lookup", !.app = a, !.generation = schedule[a].generation,
             !.slot = IF schedule[a].next = None THEN now ELSE schedule[a].next])
        /\ UNCHANGED <<queue, now, schedule, job, executor, edit, manual, applied>>
  BY PickDueEffect
<1>2. SameData
  BY <1>1, SameIs
<1>3. scan[s] \in ScanRecord /\ schedule' = schedule /\ now' = now
  BY <1>1, Types DEF TypeInv
<1>4. schedule[a].enabled /\ schedule[a].next # None /\ schedule[a].next <= now
  BY <1>1 DEF Due, History, EnabledHasNext
<1>5. /\ scan'[s].pc = "lookup" /\ scan'[s].app = a
      /\ scan'[s].generation = schedule[a].generation /\ scan'[s].slot = schedule[a].next
  BY <1>1, <1>3, <1>4 DEF ScanIs, ScanRecord
<1>6. schedule[a].generation \in Nat
  BY ScheduleTypes
<1> QED BY <1>2, <1>3, <1>4, <1>5, <1>6 DEF ScanOf, AtApp, AtList

\* A scan with an app goes on: what it knows of the schedule is still so.
LEMMA AppKept ==
  ASSUME TypeInv, History, NEW s \in Schedulers, ScanOf(s), SameData, schedule' = schedule,
         scan[s].pc \in {"lookup", "load", "create"},
         scan'[s].pc \in {"load", "create", "record"}, scan'[s].app = scan[s].app,
         scan'[s].generation = scan[s].generation, scan'[s].slot = scan[s].slot,
         scan'[s].pc = "record" => FoundByKey(scan'[s].op, scan[s].app, Key(s))
  PROVE  ScanOf(s)'
<1> DEFINE a == scan[s].app
<1>a. scan[s].pc \in AtApp /\ scan[s].pc # "record" /\ scan'[s].pc \in AtApp /\ scan'[s].pc \notin AtList
  BY DEF AtApp, AtList
<1>b. scan[s].slot \in Nat /\ now \in Nat /\ now' \in Nat /\ now <= now'
  BY <1>a, Types DEF TypeInv, ScanKnown, SameData
<1>1. scan'[s].generation <= schedule'[a].generation /\ scan'[s].slot <= now'
  <2>1. scan[s].generation <= schedule[a].generation /\ scan[s].slot <= now
    BY <1>a DEF ScanOf
  <2> QED BY <1>b, <2>1
<1>2. ASSUME scan[s].generation = schedule[a].generation
      PROVE  /\ schedule[a].enabled
             /\ scan[s].slot # schedule[a].next => \E o \in Ops : FoundByKey(o, a, Key(s))'
  <2>1. /\ schedule[a].enabled
        /\ scan[s].slot # schedule[a].next => \E o \in Ops : FoundByKey(o, a, Key(s))
    BY <1>a, <1>2 DEF ScanOf
  <2>2. Key(s)' = Key(s) /\ op' = op
    BY DEF Key, SameData
  <2> QED BY <2>1, <2>2 DEF FoundByKey
<1>3. scan'[s].pc = "record" => FoundByKey(scan[s].op, scan[s].app, Key(s))'
  BY DEF FoundByKey, Key, SameData
<1> QED BY <1>a, <1>1, <1>2, <1>3 DEF ScanOf, AtList

LEMMA LookupKept ==
  ASSUME TypeInv, History, NEW s \in Schedulers, ScanOf(s), LookupSlot(s) \/ LoadConfig(s)
  PROVE  SameData /\ ScanOf(s)'
<1>a. scan[s] \in ScanRecord
  BY Types DEF TypeInv
<1>1. CASE LookupSlot(s)
  <2>1. /\ scan[s].pc = "lookup"
        /\ \/ \E o \in Ops : /\ FoundByKey(o, scan[s].app, Key(s))
                             /\ ScanIs(s, [scan[s] EXCEPT !.pc = "record", !.op = o])
           \/ ScanIs(s, [scan[s] EXCEPT !.pc = "load"])
        /\ UNCHANGED <<queue, now, schedule, job, executor, edit, manual, applied>>
    BY <1>1, LookupSlotEffect
  <2>2. SameData /\ schedule' = schedule
    BY <2>1, SameIs
  <2>3. ASSUME NEW o \in Ops, FoundByKey(o, scan[s].app, Key(s)),
               ScanIs(s, [scan[s] EXCEPT !.pc = "record", !.op = o])
        PROVE  ScanOf(s)'
    <3>1. /\ scan'[s].pc = "record" /\ scan'[s].op = o /\ scan'[s].app = scan[s].app
          /\ scan'[s].generation = scan[s].generation /\ scan'[s].slot = scan[s].slot
      BY <1>a, <2>3 DEF ScanIs, ScanRecord
    <3> QED BY <2>1, <2>2, <2>3, <3>1, AppKept
  <2>4. ASSUME ScanIs(s, [scan[s] EXCEPT !.pc = "load"])
        PROVE  ScanOf(s)'
    <3>1. /\ scan'[s].pc = "load" /\ scan'[s].app = scan[s].app
          /\ scan'[s].generation = scan[s].generation /\ scan'[s].slot = scan[s].slot
      BY <1>a, <2>4 DEF ScanIs, ScanRecord
    <3> QED BY <2>1, <2>2, <3>1, AppKept
  <2> QED BY <2>1, <2>2, <2>3, <2>4
<1>2. CASE LoadConfig(s)
  <2>1. /\ scan[s].pc = "load"
        /\ ScanIs(s, [scan[s] EXCEPT !.pc = "create", !.config = schedule[scan[s].app].config])
        /\ UNCHANGED <<queue, now, schedule, job, executor, edit, manual, applied>>
    BY <1>2, LoadConfigEffect
  <2>2. SameData /\ schedule' = schedule
    BY <2>1, SameIs
  <2>3. /\ scan'[s].pc = "create" /\ scan'[s].app = scan[s].app
        /\ scan'[s].generation = scan[s].generation /\ scan'[s].slot = scan[s].slot
    BY <1>a, <2>1 DEF ScanIs, ScanRecord
  <2> QED BY <2>1, <2>2, <2>3, AppKept
<1> QED BY <1>1, <1>2

LEMMA IdleKept ==
  ASSUME TypeInv, History, SameData, NEW s \in Schedulers, ScanIs(s, IdleScan)
  PROVE  ScanOf(s)'
<1>1. scan'[s].pc = "idle" /\ scan'[s].list = {}
  BY IdleRecord DEF ScanIs
<1>2. Keeps
  BY SameHistory
<1> QED BY <1>1, <1>2, ListKept

LEMMA ScanEndsKept ==
  ASSUME TypeInv, History, NEW s \in Schedulers, NothingDue(s) \/ ScanFails(s)
  PROVE  SameData /\ ScanOf(s)'
<1>1. SameData
  BY SameIs DEF NothingDue, ScanFails
<1>2. ScanIs(s, IdleScan)
  BY ScanUpdate, IdleRecord DEF NothingDue, ScanFails, TypeInv
<1> QED BY <1>1, <1>2, IdleKept

LEMMA CreateRefusedKept ==
  ASSUME TypeInv, History, NEW s \in Schedulers, ScanOf(s), CreateRefused(s)
  PROVE  SameData /\ ScanOf(s)'
<1>a. scan[s] \in ScanRecord
  BY Types DEF TypeInv
<1>1. /\ scan[s].pc = "create"
      /\ \/ \E o \in Ops : /\ FoundByKey(o, scan[s].app, Key(s))
                           /\ ScanIs(s, [scan[s] EXCEPT !.pc = "record", !.op = o])
         \/ ScanIs(s, IdleScan)
      /\ UNCHANGED <<queue, now, schedule, job, executor, edit, manual, applied>>
  BY CreateRefusedEffect
<1>2. SameData /\ schedule' = schedule
  BY <1>1, SameIs
<1>3. ASSUME NEW o \in Ops, FoundByKey(o, scan[s].app, Key(s)),
             ScanIs(s, [scan[s] EXCEPT !.pc = "record", !.op = o])
      PROVE  ScanOf(s)'
  <2>1. /\ scan'[s].pc = "record" /\ scan'[s].op = o /\ scan'[s].app = scan[s].app
        /\ scan'[s].generation = scan[s].generation /\ scan'[s].slot = scan[s].slot
    BY <1>a, <1>3 DEF ScanIs, ScanRecord
  <2> QED BY <1>1, <1>2, <1>3, <2>1, AppKept
<1> QED BY <1>1, <1>2, <1>3, IdleKept

\* The operation found or created for a slot that is still the next one.
LEMMA RecordKept ==
  ASSUME TypeInv, History, NEW s \in Schedulers, ScanOf(s), RecordOperation(s)
  PROVE  /\ SameData \/ \E a \in Apps, p \in Ops : Records(a, p)
         /\ ScanOf(s)'
<1> DEFINE a == scan[s].app
           p == scan[s].op
<1>1. /\ scan[s].pc = "record" /\ a \in Apps /\ p \in Ops
      /\ ScanIs(s, IdleScan)
      /\ \/ schedule' = schedule
         \/ LET doc == schedule[a] IN
            /\ doc.enabled /\ doc.generation = scan[s].generation /\ doc.next = scan[s].slot
            /\ ScheduleIs(a, [doc EXCEPT !.lastOp = p])
      /\ UNCHANGED <<queue, now, job, executor, edit, manual, applied>>
  BY RecordOperationEffect
<1>2. CASE schedule' = schedule
  <2>1. SameData
    BY <1>1, <1>2, SameIs
  <2> QED BY <1>1, <2>1, IdleKept
<1>3. CASE /\ schedule[a].generation = scan[s].generation /\ schedule[a].next = scan[s].slot
           /\ ScheduleIs(a, [schedule[a] EXCEPT !.lastOp = p])
  <2>1. op[p].app = a /\ op[p].key = Key(s)
    BY <1>1 DEF ScanOf, FoundByKey
  <2>2. ASSUME Current(p), Applied(p) PROVE FALSE
    <3>1. job[p].slot < NextSlot(p) /\ job[p].slot \in Nat
          /\ op[p].key = <<job[p].generation, job[p].slot>>
      BY <1>1, <2>2 DEF History, SlotsUsed, Born, Current
    <3>2. job[p].slot = scan[s].slot
      BY <2>1, <3>1 DEF Key
    <3> QED BY <1>3, <2>1, <3>1, <3>2 DEF NextSlot
  <2>3. Records(a, p)
    BY <1>1, <1>3, <2>2 DEF Records, queue
  <2>4. Keeps
    BY <1>1, <2>3, RecordHistory
  <2>5. scan'[s].pc = "idle" /\ scan'[s].list = {}
    BY <1>1, IdleRecord DEF ScanIs
  <2> QED BY <1>1, <2>3, <2>4, <2>5, ListKept
<1> QED BY <1>1, <1>2, <1>3

LEMMA CreateAutoKept ==
  ASSUME TypeInv, History, NEW s \in Schedulers, ScanOf(s), CreateAuto(s)
  PROVE  /\ \E o \in Ops, a \in Apps, g \in Nat, t \in Nat : Creates(o, a, g, t)
         /\ ScanOf(s)'
<1>1. PICK o \in Ops :
        /\ OpBorn(o, scan[s].app, Key(s))
        /\ JobBorn(o, "update", scan[s].slot, scan[s].generation)
        /\ ScanIs(s, [scan[s] EXCEPT !.pc = "record", !.op = o])
        /\ scan[s].pc = "create"
        /\ UNCHANGED <<now, schedule, executor, edit, manual, applied>>
  BY CreateAutoEffect
<1> DEFINE a == scan[s].app
           g == scan[s].generation
           t == scan[s].slot
<1>a. /\ scan[s] \in ScanRecord /\ a \in Apps /\ t \in Nat /\ g \in Nat
      /\ scan[s].pc \in AtApp /\ scan[s].pc # "record" /\ now \in Nat
  BY <1>1, Types DEF TypeInv, ScanKnown, ScanRecord, AtApp
<1>2. <<g, t>> # None
  <2>1. <<g, t>> \in Nat \X Nat
    BY <1>a
  <2> QED BY <2>1, QueueAssumption
<1>3. g <= schedule[a].generation /\ t <= now
  BY <1>a DEF ScanOf
<1>4. ASSUME g = schedule[a].generation PROVE schedule[a].next = t
  <2>1. ASSUME NEW x \in Ops, FoundByKey(x, a, Key(s)) PROVE FALSE
    <3>1. op[x].key # None /\ <<op[x].app, op[x].key>> = <<a, Key(s)>>
      BY <1>2, <2>1 DEF FoundByKey, Key
    <3> QED BY <1>1, <3>1 DEF OpBorn, KeyIndexFree
  <2> QED BY <1>a, <1>4, <2>1 DEF ScanOf
<1>5. Creates(o, a, g, t)
  BY <1>1, <1>a, <1>3, <1>4 DEF Creates, Key
<1>6. /\ scan'[s].pc = "record" /\ scan'[s].op = o /\ scan'[s].app = a
      /\ scan'[s].generation = g /\ scan'[s].slot = t
  BY <1>1, <1>a DEF ScanIs, ScanRecord
<1>7. op'[o].app = a /\ op'[o].key = <<g, t>>
  BY <1>1 DEF OpBorn, Key
<1>8. FoundByKey(scan[s].op, scan[s].app, Key(s))'
  BY <1>2, <1>6, <1>7 DEF FoundByKey, Key
<1>9. schedule' = schedule /\ now' = now
  BY <1>1
<1> HIDE DEF a, g, t
<1> QED BY <1>3, <1>5, <1>6, <1>8, <1>9, <1>a DEF ScanOf, AtApp, AtList, a, g, t

LEMMA OtherScans ==
  ASSUME TypeInv, NEW s \in Schedulers, NEW t \in Schedulers \ {s}, ScanStep(s)
  PROVE  scan'[t] = scan[t]
<1>a. scan \in [Schedulers -> ScanRecord]
  BY Types DEF TypeInv
<1>1. CASE ScanStart(s)
  BY <1>a, <1>1 DEF ScanStart
<1>2. CASE LoadApp(s)
  BY <1>a, <1>2 DEF LoadApp
<1>3. CASE Project(s)
  BY <1>a, <1>3 DEF Project
<1>4. CASE MarkReconciled(s)
  BY <1>a, <1>4 DEF MarkReconciled
<1>5. CASE PickDue(s)
  BY <1>a, <1>5 DEF PickDue
<1>6. CASE NothingDue(s)
  BY <1>a, <1>6 DEF NothingDue
<1>7. CASE LookupSlot(s)
  BY <1>a, <1>7 DEF LookupSlot
<1>8. CASE LoadConfig(s)
  BY <1>a, <1>8 DEF LoadConfig
<1>9. CASE CreateAuto(s)
  BY <1>a, <1>9 DEF CreateAuto
<1>10. CASE CreateRefused(s)
  BY <1>a, <1>10 DEF CreateRefused
<1>11. CASE RecordOperation(s)
  BY <1>a, <1>11 DEF RecordOperation
<1>12. CASE ScanFails(s)
  BY <1>a, <1>12 DEF ScanFails
<1> QED BY <1>1, <1>2, <1>3, <1>4, <1>5, <1>6, <1>7, <1>8, <1>9, <1>10, <1>11, <1>12, Zenon DEF ScanStep

\* What every step establishes of history and scans.
Kept == History' /\ Keeps /\ \A s \in Schedulers : ScanOf(s)'

LEMMA ScanStepKept ==
  ASSUME AInv, TypeInv', NEW s \in Schedulers, ScanStep(s)
  PROVE  Kept /\ Steady
<1>a. TypeInv /\ History /\ \A t \in Schedulers : ScanOf(t)
  BY DEF AInv
<1>1. /\ \/ SameData
         \/ \E o \in Ops : Shows(o) \/ Skips(o) \/ Marks(o)
         \/ \E a \in Apps, p \in Ops : Records(a, p)
         \/ \E o \in Ops, a \in Apps, g \in Nat, t \in Nat : Creates(o, a, g, t)
      /\ ScanOf(s)'
  <2>1. CASE ScanStart(s)
    BY <1>a, <2>1, ScanStartKept
  <2>2. CASE LoadApp(s)
    BY <1>a, <2>2, LoadAppKept
  <2>3. CASE Project(s)
    BY <1>a, <2>3, ProjectKept
  <2>4. CASE MarkReconciled(s)
    BY <1>a, <2>4, MarkKept
  <2>5. CASE PickDue(s)
    BY <1>a, <2>5, PickDueKept
  <2>6. CASE NothingDue(s) \/ ScanFails(s)
    BY <1>a, <2>6, ScanEndsKept
  <2>7. CASE LookupSlot(s) \/ LoadConfig(s)
    BY <1>a, <2>7, LookupKept
  <2>8. CASE CreateAuto(s)
    BY <1>a, <2>8, CreateAutoKept
  <2>9. CASE CreateRefused(s)
    BY <1>a, <2>9, CreateRefusedKept
  <2>10. CASE RecordOperation(s)
    BY <1>a, <2>10, RecordKept
  <2> QED BY <2>1, <2>2, <2>3, <2>4, <2>5, <2>6, <2>7, <2>8, <2>9, <2>10, Zenon DEF ScanStep
<1>2. History' /\ Keeps /\ Steady
  BY <1>1, <1>a, SameHistory, ShowHistory, SkipHistory, MarkHistory, RecordHistory, CreateHistory
<1>3. ASSUME NEW t \in Schedulers, t # s PROVE ScanOf(t)'
  <2>1. scan'[t] = scan[t]
    BY <1>3, <1>a, OtherScans
  <2> QED BY <1>2, <1>a, <2>1, ScanSpared
<1> QED BY <1>1, <1>2, <1>3 DEF Kept

LEMMA ScansStay ==
  ASSUME AInv, TypeInv', History', Keeps, scan' = scan
  PROVE  Kept
BY ScanSpared DEF Kept, AInv

\* An operation that is claimed, ends or is unlocked.
LEMMA OpAdvances ==
  ASSUME TypeInv, NEW o \in Ops, NEW status, NEW active, Exists(o), ~Done(o),
         status # "absent", OpIs(o, status, active),
         job' = job \/ JobIs(o, now, job[o].reconciled),
         UNCHANGED <<now, schedule, applied>>
  PROVE  Advances(o)
BY DEF Advances, OpIs, JobIs

LEMMA ExecutorStepKept ==
  ASSUME AInv, TypeInv', NEW o \in Ops, ExecutorStep(o)
  PROVE  Kept /\ Steady
<1>a. TypeInv /\ History /\ ExecutorOf(o)
  BY DEF AInv
<1>1. SameData \/ Advances(o) \/ \E a \in Apps : Records(a, o)
  <2>1. CASE ClaimJob(o)
    <3>1. Queued(o) /\ OpIs(o, "running", TRUE) /\ UNCHANGED <<now, schedule, job, applied>>
      BY <1>a, <2>1, ClaimJobEffect
    <3>2. Exists(o) /\ ~Done(o)
      BY <3>1 DEF Queued, Exists, Done, Terminal
    <3> QED BY <1>a, <3>1, <3>2, OpAdvances
  <2>2. CASE CheckJob(o) \/ ExecutorStops(o)
    BY <1>a, <2>2, SameIs DEF CheckJob, ExecutorStops
  <2>3. CASE StartUpdate(o)
    <3>1. /\ executor[o].pc = "checked" /\ op[o].app \in Apps
          /\ \/ schedule' = schedule
             \/ ScheduleIs(op[o].app, [schedule[op[o].app] EXCEPT !.lastOp = o])
          /\ UNCHANGED <<queue, now, job, applied>>
      BY <1>a, <2>3, StartUpdateEffect
    <3>2. ~Done(o)
      BY <1>a, <3>1 DEF ExecutorOf, Done
    <3>3. ~Applied(o)
      BY <1>a, <3>1, <3>2 DEF Applied, History, AppliedDone
    <3>4. ScheduleIs(op[o].app, [schedule[op[o].app] EXCEPT !.lastOp = o]) => Records(op[o].app, o)
      BY <3>1, <3>3 DEF Records, queue
    <3> QED BY <1>a, <3>1, <3>4, SameIs
  <2>4. CASE StartRollback(o) \/ ConfirmRollback(o)
    <3>1. executor[o].pc # "none" /\ job[o].type = "rollback"
      BY <2>4 DEF StartRollback, ConfirmRollback
    <3>2. Exists(o)
      BY <1>a, <3>1 DEF TypeInv, OpKnown
    <3> QED BY <1>a, <3>1, <3>2 DEF History, Born
  <2>5. CASE SaveRollback(o)
    BY <1>a, <2>5 DEF SaveRollback, ExecutorOf
  <2>6. CASE FinishJob(o)
    <3>1. /\ op[o].active /\ op[o].status \in InFlight
          /\ JobIs(o, now, job[o].reconciled) /\ UNCHANGED <<now, schedule, applied>>
      BY <1>a, <2>6, FinishJobEffect
    <3>2. PICK result \in Terminal : OpIs(o, result, FALSE)
      BY <1>a, <2>6, FinishJobEffect
    <3>3. Exists(o) /\ ~Done(o) /\ result # "absent"
      BY <3>1, <3>2 DEF Exists, Done, InFlight, Terminal
    <3> QED BY <1>a, <3>1, <3>2, <3>3, OpAdvances
  <2>7. CASE RecoverJob(o)
    <3>1. /\ op[o].active /\ op[o].status \in InFlight /\ OpIs(o, "failed", TRUE)
          /\ JobIs(o, now, job[o].reconciled) /\ UNCHANGED <<now, schedule, applied>>
      BY <1>a, <2>7, RecoverJobEffect
    <3>2. Exists(o) /\ ~Done(o)
      BY <3>1 DEF Exists, Done, InFlight
    <3> QED BY <1>a, <3>1, <3>2, OpAdvances
  <2>8. CASE ReleaseJob(o)
    <3>1. /\ op[o].active /\ OpIs(o, op[o].status, FALSE)
          /\ UNCHANGED <<now, schedule, job, applied>>
      BY <1>a, <2>8, ReleaseJobEffect
    <3>2. Exists(o) /\ ~Done(o) /\ op[o].status # "absent"
      BY <1>a, <3>1 DEF History, Indexed, Exists, Done
    <3> QED BY <1>a, <3>1, <3>2, OpAdvances
  <2> QED BY <2>1, <2>2, <2>3, <2>4, <2>5, <2>6, <2>7, <2>8, Zenon DEF ExecutorStep
<1>2. History' /\ Keeps /\ Steady
  BY <1>1, <1>a, SameHistory, AdvanceHistory, RecordHistory
<1>3. scan' = scan
  BY Zenon DEF ExecutorStep, ClaimJob, CheckJob, StartUpdate, StartRollback, ConfirmRollback,
       SaveRollback, FinishJob, ExecutorStops, RecoverJob, ReleaseJob
<1> QED BY <1>2, <1>3, ScansStay

\* With nothing asked for by hand.
LEMMA AppStepKept ==
  ASSUME AInv, TypeInv', ManualTypes = {}, NEW a \in Apps, AppStep(a)
  PROVE  Kept /\ (EditSave(a) \/ Steady)
<1>a. TypeInv /\ History /\ EditOf(a)
  BY DEF AInv
<1>1. SameData \/ (EditSave(a) /\ Edits(a)) \/ \E o \in Ops : Advances(o)
  <2>1. CASE EditLoad(a) \/ EditFails(a) \/ ManualLoad(a) \/ ManualRefused(a)
    BY <1>a, <2>1, SameIs DEF EditLoad, EditFails, ManualLoad, ManualRefused
  <2>2. CASE ManualCreate(a)
    BY <2>2 DEF ManualCreate
  <2>3. CASE EditCancelQueued(a)
    <3>1. /\ \/ UNCHANGED <<queue, job>>
             \/ \E o \in Ops : /\ Queued(o) /\ OpIs(o, "cancelled", FALSE)
                               /\ JobIs(o, now, job[o].reconciled)
          /\ UNCHANGED <<now, schedule, applied>>
      BY <1>a, <2>3, EditCancelQueuedEffect
    <3>2. ASSUME NEW o \in Ops, Queued(o), OpIs(o, "cancelled", FALSE),
                 JobIs(o, now, job[o].reconciled)
          PROVE  Advances(o)
      <4>1. Exists(o) /\ ~Done(o)
        BY <3>2 DEF Queued, Exists, Done
      <4> QED BY <1>a, <3>1, <3>2, <4>1, OpAdvances
    <3> QED BY <1>a, <3>1, <3>2, SameIs
  <2>4. CASE EditSave(a)
    <3>1. /\ edit[a].pc = "loaded"
          /\ UNCHANGED <<queue, now, job, scan, executor, manual, applied>>
      BY <1>a, <2>4, EditSaveEffect
    <3>2. PICK r \in ScheduleRecord : /\ ScheduleIs(a, r)
                                      /\ SameSchedule(a, r) \/ ScheduleEdited(a, r)
      BY <1>a, <2>4, EditSaveEffect
    <3>3. op' = op /\ created' = created /\ job' = job /\ applied' = applied /\ now' = now
      BY <3>1 DEF queue
    <3>4. CASE SameSchedule(a, r)
      <4>1. \A b \in Apps : SameSchedule(b, schedule'[b])
        BY <3>2, <3>4 DEF ScheduleIs, SameSchedule
      <4> QED BY <1>a, <3>3, <4>1, Types DEF SameData, TypeInv
    <3>5. CASE ScheduleEdited(a, r)
      <4>1. /\ r.generation = schedule[a].generation + 1
            /\ r.projected = schedule[a].projected /\ r.failures = schedule[a].failures
            /\ r.enabled <=> r.next # None
        BY <1>a, <3>1, <3>5 DEF ScheduleEdited, EditOf, History, EnabledHasNext
      <4> QED BY <2>4, <3>2, <3>3, <4>1 DEF Edits
    <3> QED BY <3>2, <3>4, <3>5
  <2> QED BY <2>1, <2>2, <2>3, <2>4, Zenon DEF AppStep
<1>2. History' /\ Keeps /\ (EditSave(a) \/ Steady)
  BY <1>1, <1>a, SameHistory, AdvanceHistory, EditHistory
<1>3. scan' = scan
  BY Zenon DEF AppStep, EditLoad, EditSave, EditCancelQueued, EditFails, ManualLoad, ManualCreate,
       ManualRefused
<1> QED BY <1>2, <1>3, ScansStay

\* Executors: each has claimed its operation, whose lock it does not leave.
LEMMA ExecutorSpared ==
  ASSUME NEW o \in Ops, ExecutorOf(o), op'[o] = op[o], executor'[o] = executor[o]
  PROVE  ExecutorOf(o)'
BY DEF ExecutorOf

LEMMA ExecutorsKept ==
  ASSUME AInv, TypeInv', ManualTypes = {}, [Next]_vars
  PROVE  \A o \in Ops : ExecutorOf(o)'
<1>a. TypeInv /\ \A o \in Ops : ExecutorOf(o)
  BY DEF AInv
<1>0. ASSUME op' = op, executor' = executor PROVE \A o \in Ops : ExecutorOf(o)'
  BY <1>0, <1>a, ExecutorSpared
<1>1. ASSUME NEW s \in Schedulers, ScanStep(s) PROVE \A o \in Ops : ExecutorOf(o)'
  <2>1. CASE CreateAuto(s)
    <3>1. PICK o \in Ops : OpBorn(o, scan[s].app, Key(s))
      BY <1>a, <2>1, CreateAutoEffect
    <3>2. executor' = executor
      BY <2>1 DEF CreateAuto
    <3>3. executor[o].pc = "none" /\ \A x \in Ops \ {o} : op'[x] = op[x]
      BY <1>a, <3>1 DEF OpBorn, TypeInv, OpKnown, Exists
    <3> QED BY <1>a, <3>2, <3>3, ExecutorSpared DEF ExecutorOf
  <2>2. CASE ~CreateAuto(s)
    <3>1. op' = op /\ executor' = executor
      BY <1>1, <2>2, Zenon DEF ScanStep, ScanStart, LoadApp, Project, MarkReconciled, PickDue,
           NothingDue, LookupSlot, LoadConfig, CreateRefused, RecordOperation, ScanFails, queue
    <3> QED BY <1>0, <3>1
  <2> QED BY <2>1, <2>2
<1>2. ASSUME NEW o \in Ops, ExecutorStep(o) PROVE \A x \in Ops : ExecutorOf(x)'
  <2>1. ASSUME NEW x \in Ops \ {o},
               op' = op \/ \E status, active : OpIs(o, status, active),
               executor' = executor \/ \E pc : ExecutorIs(o, pc)
        PROVE  ExecutorOf(x)'
    BY <1>a, <2>1, ExecutorSpared DEF OpIs, ExecutorIs
  <2>2. CASE ClaimJob(o)
    <3>1. OpIs(o, "running", TRUE) /\ ExecutorIs(o, "claimed")
      BY <1>a, <2>2, ClaimJobEffect
    <3>2. ExecutorOf(o)'
      BY <3>1 DEF OpIs, ExecutorIs, ExecutorOf, InFlight
    <3> QED BY <2>1, <3>1, <3>2
  <2>3. CASE CheckJob(o)
    <3>1. executor[o].pc = "claimed" /\ op' = op /\ (ExecutorIs(o, "refused") \/ ExecutorIs(o, "checked"))
      BY <1>a, <2>3, CheckJobEffect DEF queue
    <3>2. ExecutorOf(o)'
      BY <1>a, <3>1 DEF ExecutorIs, ExecutorOf
    <3> QED BY <2>1, <3>1, <3>2
  <2>4. CASE StartUpdate(o)
    <3>1. executor[o].pc = "checked" /\ op' = op /\ ExecutorIs(o, "acting")
      BY <1>a, <2>4, StartUpdateEffect DEF queue
    <3>2. ExecutorOf(o)'
      BY <1>a, <3>1 DEF ExecutorIs, ExecutorOf
    <3> QED BY <2>1, <3>1, <3>2
  <2>5. CASE StartRollback(o) \/ ConfirmRollback(o)
    <3>1. executor[o].pc # "none" /\ job[o].type = "rollback"
      BY <2>5 DEF StartRollback, ConfirmRollback
    <3> QED BY <1>a, <3>1 DEF AInv, TypeInv, OpKnown, History, Born
  <2>6. CASE SaveRollback(o)
    BY <1>a, <2>6 DEF SaveRollback, ExecutorOf
  <2>7. CASE FinishJob(o)
    <3>1. ExecutorIs(o, "none") /\ \E result \in Terminal : OpIs(o, result, FALSE)
      BY <1>a, <2>7, FinishJobEffect
    <3>2. ExecutorOf(o)'
      BY <3>1 DEF ExecutorIs, ExecutorOf
    <3> QED BY <2>1, <3>1, <3>2
  <2>8. CASE ExecutorStops(o)
    <3>1. ExecutorIs(o, "none") /\ op' = op
      BY <1>a, <2>8, ExecutorStopsEffect DEF queue
    <3>2. ExecutorOf(o)'
      BY <3>1 DEF ExecutorIs, ExecutorOf
    <3> QED BY <2>1, <3>1, <3>2
  <2>9. CASE RecoverJob(o)
    <3>1. OpIs(o, "failed", TRUE) /\ executor' = executor
      BY <1>a, <2>9, RecoverJobEffect
    <3>2. ExecutorOf(o)'
      BY <1>a, <3>1 DEF OpIs, ExecutorOf
    <3> QED BY <2>1, <3>1, <3>2
  <2>10. CASE ReleaseJob(o)
    <3>1. executor[o].pc = "none" /\ executor' = executor /\ OpIs(o, op[o].status, FALSE)
      BY <1>a, <2>10, ReleaseJobEffect
    <3>2. ExecutorOf(o)'
      BY <3>1 DEF ExecutorOf
    <3> QED BY <2>1, <3>1, <3>2
  <2> QED BY <1>2, <2>2, <2>3, <2>4, <2>5, <2>6, <2>7, <2>8, <2>9, <2>10, Zenon DEF ExecutorStep
<1>3. ASSUME NEW a \in Apps, AppStep(a) PROVE \A o \in Ops : ExecutorOf(o)'
  <2>1. executor' = executor
    BY <1>3, Zenon DEF AppStep, EditLoad, EditSave, EditCancelQueued, EditFails, ManualLoad,
         ManualCreate, ManualRefused
  <2>2. CASE EditCancelQueued(a)
    <3>1. op' = op \/ \E o \in Ops : Queued(o) /\ OpIs(o, "cancelled", FALSE)
      BY <1>a, <2>2, EditCancelQueuedEffect DEF queue
    <3>2. ASSUME NEW o \in Ops, Queued(o), OpIs(o, "cancelled", FALSE)
          PROVE  \A x \in Ops : ExecutorOf(x)'
      <4>1. executor[o].pc = "none"
        BY <1>a, <3>2 DEF ExecutorOf, Queued, InFlight
      <4>2. \A x \in Ops \ {o} : op'[x] = op[x]
        BY <3>2 DEF OpIs
      <4> QED BY <1>a, <2>1, <4>1, <4>2, ExecutorSpared DEF ExecutorOf
    <3> QED BY <1>0, <2>1, <3>1, <3>2
  <2>3. CASE ~EditCancelQueued(a)
    <3>1. ~ManualCreate(a)
      BY DEF ManualCreate
    <3>2. op' = op
      BY <1>3, <2>3, <3>1, Zenon DEF AppStep, EditLoad, EditSave, EditFails, ManualLoad,
           ManualRefused, queue
    <3> QED BY <1>0, <2>1, <3>2
  <2> QED BY <2>2, <2>3
<1>4. CASE ClockTicks \/ UNCHANGED vars
  <2>1. op' = op /\ executor' = executor
    BY <1>4, Zenon DEF ClockTicks, vars, queue
  <2> QED BY <1>0, <2>1
<1> QED BY <1>1, <1>2, <1>3, <1>4, Zenon DEF Next

LEMMA EditSpared ==
  ASSUME TypeInv, NEW a \in Apps, EditOf(a), Steady, edit'[a] = edit[a]
  PROVE  EditOf(a)'
BY DEF EditOf, Steady

LEMMA EditsKept ==
  ASSUME AInv, TypeInv', ManualTypes = {}, [Next]_vars,
         Steady \/ \E a \in Apps : EditSave(a)
  PROVE  \A a \in Apps : EditOf(a)'
<1>a. TypeInv /\ History /\ \A a \in Apps : EditOf(a)
  BY DEF AInv
<1>0. ASSUME edit' = edit, Steady PROVE \A a \in Apps : EditOf(a)'
  BY <1>0, <1>a, EditSpared
<1>1. ASSUME NEW a \in Apps, NEW e, EditIs(a, e), e.pc # "loaded", Steady
      PROVE  \A b \in Apps : EditOf(b)'
  <2>1. EditOf(a)'
    BY <1>1 DEF EditIs, EditOf
  <2> QED BY <1>1, <1>a, <2>1, EditSpared DEF EditIs
<1>2. ASSUME NEW a \in Apps, EditSave(a) PROVE \A b \in Apps : EditOf(b)'
  <2>1. PICK r : ScheduleIs(a, r)
    BY <1>2, <1>a, EditSaveEffect
  <2>2. PICK e : EditIs(a, e) /\ e.pc # "loaded"
    BY <1>2, <1>a, EditSaveEffect
  <2>3. EditOf(a)'
    BY <2>2 DEF EditIs, EditOf
  <2>4. ASSUME NEW b \in Apps, b # a PROVE EditOf(b)'
    <3>1. edit'[b] = edit[b] /\ schedule'[b] = schedule[b] /\ EditOf(b)
      BY <1>a, <2>1, <2>2, <2>4 DEF EditIs, ScheduleIs
    <3> QED BY <3>1 DEF EditOf
  <2> QED BY <2>3, <2>4
<1>3. ASSUME NEW a \in Apps, EditLoad(a), Steady PROVE \A b \in Apps : EditOf(b)'
  <2>1. PICK e : /\ EditIs(a, e)
                 /\ e = [pc |-> "loaded", enabled |-> schedule[a].enabled,
                         generation |-> schedule[a].generation, next |-> schedule[a].next,
                         lastOp |-> schedule[a].lastOp, checked |-> schedule[a].checked]
    BY <1>3, <1>a, EditLoadEffect
  <2>2. schedule[a].enabled <=> schedule[a].next # None
    BY <1>a DEF History, EnabledHasNext
  <2>3. /\ edit'[a].generation = schedule'[a].generation
        /\ edit'[a].enabled = schedule'[a].enabled
        /\ edit'[a].enabled <=> edit'[a].next # None
    BY <1>3, <2>1, <2>2 DEF EditIs, Steady
  <2>4. EditOf(a)'
    BY <2>3 DEF EditOf
  <2> QED BY <1>3, <1>a, <2>1, <2>4, EditSpared DEF EditIs
<1>4. ASSUME NEW a \in Apps, AppStep(a), Steady PROVE \A b \in Apps : EditOf(b)'
  <2>1. CASE EditCancelQueued(a)
    BY <1>1, <1>4, <1>a, <2>1, EditCancelQueuedEffect
  <2>2. CASE EditFails(a)
    BY <1>1, <1>4, <1>a, <2>2, EditFailsEffect
  <2>3. CASE ManualLoad(a) \/ ManualCreate(a) \/ ManualRefused(a)
    <3>1. edit' = edit
      BY <2>3 DEF ManualLoad, ManualCreate, ManualRefused
    <3> QED BY <1>0, <1>4, <3>1
  <2> QED BY <1>2, <1>3, <1>4, <2>1, <2>2, <2>3, Zenon DEF AppStep
<1>5. ASSUME NEW s \in Schedulers, ScanStep(s) PROVE edit' = edit
  BY <1>5, Zenon DEF ScanStep, ScanStart, LoadApp, Project, MarkReconciled, PickDue, NothingDue,
     LookupSlot, LoadConfig, CreateAuto, CreateRefused, RecordOperation, ScanFails
<1>6. ASSUME NEW o \in Ops, ExecutorStep(o) PROVE edit' = edit
  BY <1>6, Zenon DEF ExecutorStep, ClaimJob, CheckJob, StartUpdate, StartRollback, ConfirmRollback,
     SaveRollback, FinishJob, ExecutorStops, RecoverJob, ReleaseJob
<1>7. ASSUME ClockTicks \/ UNCHANGED vars PROVE edit' = edit
  BY <1>7, Zenon DEF ClockTicks, vars
<1>8. CASE \E a \in Apps : EditSave(a)
  BY <1>2, <1>8
<1>9. CASE Steady
  BY <1>0, <1>4, <1>5, <1>6, <1>7, <1>9, Zenon DEF Next
<1> QED BY <1>8, <1>9

LEMMA AutoInvNext == ManualTypes = {} /\ AInv /\ [Next]_vars => AInv'
<1> SUFFICES ASSUME ManualTypes = {}, AInv, [Next]_vars PROVE AInv'
  OBVIOUS
<1>a. TypeInv /\ History
  BY DEF AInv
<1>1. TypeInv'
  BY <1>a, NextTyped
<1>2. Kept /\ (Steady \/ \E a \in Apps : EditSave(a))
  <2>1. ASSUME NEW s \in Schedulers, ScanStep(s) PROVE Kept /\ Steady
    BY <1>1, <2>1, ScanStepKept
  <2>2. ASSUME NEW o \in Ops, ExecutorStep(o) PROVE Kept /\ Steady
    BY <1>1, <2>2, ExecutorStepKept
  <2>3. ASSUME NEW a \in Apps, AppStep(a) PROVE Kept /\ (EditSave(a) \/ Steady)
    BY <1>1, <2>3, AppStepKept
  <2>4. CASE ClockTicks \/ UNCHANGED vars
    <3>1. SameData /\ scan' = scan
      <4>1. CASE ClockTicks
        BY <1>a, <4>1, Types DEF ClockTicks, SameData, SameSchedule, queue, TypeInv
      <4>2. CASE UNCHANGED vars
        BY <1>a, <4>2, Types DEF vars, SameData, SameSchedule, queue, TypeInv
      <4> QED BY <2>4, <4>1, <4>2
    <3>2. History' /\ Keeps /\ Steady
      BY <1>a, <3>1, SameHistory
    <3> QED BY <1>1, <3>1, <3>2, ScansStay
  <2> QED BY <2>1, <2>2, <2>3, <2>4, Zenon DEF Next
<1>3. \A o \in Ops : ExecutorOf(o)'
  BY <1>1, ExecutorsKept
<1>4. \A a \in Apps : EditOf(a)'
  BY <1>1, <1>2, EditsKept
<1> QED BY <1>1, <1>2, <1>3, <1>4 DEF AInv, Kept

LEMMA AutoInvInit == Init => AInv
<1> SUFFICES ASSUME Init PROVE AInv
  OBVIOUS
<1>1. TypeInv
  BY InitTyped
<1>2. \A o \in Ops : ~Exists(o) /\ ~Current(o) /\ ~Applied(o) /\ op[o].key = None /\ ~op[o].active
  BY DEF Init, OperationsInit, Absent, Exists, Current, Applied
<1>3. \A a \in Apps : /\ applied[a] = <<>> /\ schedule[a].projected = None /\ schedule[a].failures = 0
                      /\ schedule[a].enabled <=> schedule[a].next # None
  <2>1. ASSUME NEW a \in Apps
        PROVE  schedule[a] \in {NewSchedule, [NewSchedule EXCEPT !.enabled = TRUE, !.next = 0]}
    BY DEF Init
  <2>2. 0 # None
    BY QueueAssumption
  <2>3. ASSUME NEW a \in Apps
        PROVE  /\ schedule[a].projected = None /\ schedule[a].failures = 0
               /\ schedule[a].enabled <=> schedule[a].next # None
    <3>1. CASE schedule[a] = NewSchedule
      BY <3>1 DEF NewSchedule
    <3>2. CASE schedule[a] = [NewSchedule EXCEPT !.enabled = TRUE, !.next = 0]
      BY <3>2, <2>2 DEF NewSchedule
    <3> QED BY <2>1, <3>1, <3>2
  <2> QED BY <2>3 DEF Init
<1>4. History
  <2>1. Born /\ OnePerOccurrence /\ Indexed /\ SlotsUsed /\ SlotsInOrder /\ NotShownAgain /\ EarlierFirst
    BY <1>2 DEF Born, OnePerOccurrence, Indexed, SlotsUsed, SlotsInOrder, NotShownAgain, EarlierFirst
  <2>2. CreatedOnce
    BY <1>2 DEF CreatedOnce, Init, OperationsInit
  <2>3. EnabledHasNext /\ AppliedDone /\ ProjectedInOrder
    BY <1>3 DEF EnabledHasNext, AppliedDone, ProjectedInOrder
  <2>4. FailuresCounted
    BY <1>3 DEF FailuresCounted
  <2> QED BY <2>1, <2>2, <2>3, <2>4 DEF History
<1>5. \A s \in Schedulers : ScanOf(s)
  BY IdleRecord DEF Init, ScanOf, AtApp, AtList
<1>6. \A o \in Ops : ExecutorOf(o)
  BY DEF Init, NoExecutor, ExecutorOf
<1>7. \A a \in Apps : EditOf(a)
  BY DEF Init, NoEdit, EditOf
<1> QED BY <1>1, <1>4, <1>5, <1>6, <1>7 DEF AInv

LEMMA SlotsAlive == AInv => NoDeadSlot
<1> SUFFICES ASSUME AInv, NEW a \in Apps, NEW o \in Ops,
                    FoundByKey(o, a, <<schedule[a].generation, schedule[a].next>>),
                    job[o].reconciled
             PROVE  FALSE
  BY DEF NoDeadSlot
<1>a. TypeInv /\ History
  BY DEF AInv
<1>1. Exists(o) /\ op[o].app = a /\ op[o].key = <<schedule[a].generation, schedule[a].next>>
  BY <1>a DEF FoundByKey, History, Indexed
<1>2. /\ job[o].generation = schedule[a].generation /\ job[o].slot = schedule[a].next
      /\ job[o].slot \in Nat
  BY <1>a, <1>1 DEF History, Born
<1>3. Current(o)
  BY <1>1, <1>2 DEF Current, Generation
<1>4. job[o].slot < NextSlot(o)
  BY <1>a, <1>3 DEF History, SlotsUsed
<1> QED BY <1>1, <1>2, <1>4 DEF NextSlot

\* As long as nothing is asked for by hand, the next slot of an app is never
\* one whose key was used up, so that every scan finds the operation of that
\* slot again and the app is never checked any more (reconcileAutoUpdateResults).
THEOREM NoSlotDies ==
  ASSUME ManualTypes = {}
  PROVE  Spec => []NoDeadSlot
BY AutoInvInit, AutoInvNext, SlotsAlive, PTL DEF Spec

\* Nor is an outcome projected twice, or after a newer one, however schedulers
\* overlap, fail between projection and mark, and start again.
THEOREM ProjectionsInOrder ==
  ASSUME ManualTypes = {}
  PROVE  Spec => []ProjectedInOrder
<1>1. AInv => ProjectedInOrder
  BY DEF AInv, History
<1> QED BY <1>1, AutoInvInit, AutoInvNext, PTL DEF Spec

\* Nor is a failure lost or counted twice, although the count is computed from
\* what was read before the update that stores it.
THEOREM FailuresAreCounted ==
  ASSUME ManualTypes = {}
  PROVE  Spec => []FailuresCounted
<1>1. AInv => FailuresCounted
  BY DEF AInv, History
<1> QED BY <1>1, AutoInvInit, AutoInvNext, PTL DEF Spec

=============================================================================
