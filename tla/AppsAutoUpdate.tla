---------------------------- MODULE AppsAutoUpdate ----------------------------
(***************************************************************************)
(* Automatic updates of git apps.  A scheduler (one in each Apps worker)   *)
(* first projects the outcomes of finished operations onto the schedules   *)
(* of their apps, then enqueues an operation for an app that is due; an    *)
(* executor runs what is queued; an administrator edits apps, asks for     *)
(* updates and rollbacks by hand.  They share nothing but two collections: *)
(* appoperations (AppsOperations, extended by `job' with the fields of a   *)
(* record that matter here) and managedapps (`schedule').  Every step is   *)
(* one read or one update of one of them, with what the code computes      *)
(* before the next await.                                                  *)
(*                                                                         *)
(* The workers of this module are coarser than those of AppsWorker: the    *)
(* lease may expire at any time after a claim.                             *)
(***************************************************************************)
EXTENDS Naturals, Sequences, FiniteSets

CONSTANTS
  Ops, Apps, Workers, Lease, None,     \* see AppsOperations
  Schedulers,
  Interval,     \* autoUpdate.intervalMinutes
  Backoff,      \* the minutes nextRetryAt waits, by consecutive failures
  MaxTime,      \* bound on the clock
  MaxConfig,    \* bound on configVersion
  ManualTypes,  \* what is asked for by hand: "update", "rollback"
  MaxManual     \* bound on the requests made by hand

\* Those of AppsOperations, whose keys are pairs here; the clock never reads None.
ASSUME QueueAssumption ==
  /\ Lease \in Nat \ {0} /\ Workers # {}
  /\ None \notin Ops \cup Apps \cup Workers /\ None \notin Nat /\ None \notin Nat \X Nat
ASSUME IntervalAssumption == Interval \in Nat \ {0}
ASSUME BackoffAssumption == Backoff \in Seq(Nat \ {0})
ASSUME ManualAssumption == ManualTypes \subseteq {"update", "rollback"}

VARIABLES op, created

\* The idempotency key of an automatic operation is its occurrence: the
\* generation of the schedule and the slot.
INSTANCE AppsOperations WITH Keys <- Nat \X Nat

VARIABLES
  now,
  schedule,     \* autoUpdate and configVersion of each app
  job,          \* type, occurrence and projection mark of each operation
  scan,         \* each scheduler: reconcileAutoUpdateResults, then one due app
  executor,     \* executeLegacyAppOperation, for each operation
  edit,         \* updateManagedApp, one at a time for an app
  manual,       \* a request by hand, one at a time for an app
  applied       \* history: the outcomes projected onto each app, in order

queue == <<op, created>>

vars == <<queue, now, schedule, job, scan, executor, edit, manual, applied>>

Time == Nat \cup {None}

ScheduleRecord ==
  [enabled : BOOLEAN, generation : Nat, next : Time, lastOp : Ops \cup {None},
   projected : Ops \cup {None}, failures : Nat, checked : Time,
   config : Nat]

JobRecord ==
  [type : {"update", "rollback"}, slot : Time, generation : Nat, config : Nat,
   completed : Time, reconciled : BOOLEAN]

ScanRecord ==
  [pc : {"idle", "reconcile", "project", "mark", "scan", "lookup", "load", "create", "record"},
   list : SUBSET Ops, enabled : BOOLEAN, failures : Nat,
   app : Apps \cup {None}, slot : Time, generation : Nat, config : Nat, op : Ops \cup {None}]

ExecutorRecord ==
  [pc : {"none", "claimed", "refused", "checked", "acting", "confirmed", "saved"},
   enabled : BOOLEAN, generation : Nat, next : Time]

\* Of the document an edit loaded, the paths it may write or compute from.
EditRecord ==
  [pc : {"idle", "loaded", "saved"}, enabled : BOOLEAN, generation : Nat, next : Time,
   lastOp : Ops \cup {None}, checked : Time]

TypeOK ==
  /\ OperationsTypeOK
  /\ now \in Nat
  /\ schedule \in [Apps -> ScheduleRecord]
  /\ job \in [Ops -> JobRecord]
  /\ scan \in [Schedulers -> ScanRecord]
  /\ executor \in [Ops -> ExecutorRecord]
  /\ edit \in [Apps -> EditRecord]
  /\ manual \in [Apps -> [pc : {"idle", "loaded"}, generation : Nat, config : Nat]]
  /\ applied \in [Apps -> Seq(Ops)]

NewSchedule ==
  [enabled |-> FALSE, generation |-> 0, next |-> None, lastOp |-> None, projected |-> None,
   failures |-> 0, checked |-> None, config |-> 1]

NoJob ==
  [type |-> "update", slot |-> None, generation |-> 0, config |-> 0,
   completed |-> None, reconciled |-> FALSE]

IdleScan ==
  [pc |-> "idle", list |-> {}, enabled |-> FALSE, failures |-> 0, app |-> None,
   slot |-> None, generation |-> 0, config |-> 0, op |-> None]

NoExecutor == [pc |-> "none", enabled |-> FALSE, generation |-> 0, next |-> None]

NoEdit ==
  [pc |-> "idle", enabled |-> FALSE, generation |-> 0, next |-> None, lastOp |-> None,
   checked |-> None]

\* An app is created with its automatic updates off, or on and due at once.
Init ==
  /\ OperationsInit
  /\ now = 0
  /\ schedule \in [Apps -> {NewSchedule, [NewSchedule EXCEPT !.enabled = TRUE, !.next = 0]}]
  /\ job = [o \in Ops |-> NoJob]
  /\ scan = [s \in Schedulers |-> IdleScan]
  /\ executor = [o \in Ops |-> NoExecutor]
  /\ edit = [a \in Apps |-> NoEdit]
  /\ manual = [a \in Apps |-> [pc |-> "idle", generation |-> 0, config |-> 0]]
  /\ applied = [a \in Apps |-> <<>>]

Later(m, n) == IF m > n THEN m ELSE n
Sooner(m, n) == IF m < n THEN m ELSE n

-----------------------------------------------------------------------------
(* reconcileAutoUpdateResults.  The list is one query, sorted by completion, *)
(* and dealt with in its order: operations of one app complete in the order *)
(* they were created, as each holds the lock of its app until then.         *)

Automatic(o) == job[o].slot # None

Unreconciled(o) ==
  /\ job[o].type = "update"
  /\ op[o].status \in Terminal
  /\ ~op[o].active
  /\ ~job[o].reconciled

Position(o) == CHOOSE i \in DOMAIN created : created[i] = o

NextListed(s, o) ==
  /\ o \in scan[s].list
  /\ \A p \in scan[s].list : Position(o) <= Position(p)

Reconcile(list) ==
  [IdleScan EXCEPT !.pc = IF list = {} THEN "scan" ELSE "reconcile", !.list = list]

ScanStart(s) ==
  /\ scan[s].pc = "idle"
  /\ scan' = [scan EXCEPT ![s] = Reconcile({o \in Ops : Unreconciled(o)})]
  /\ UNCHANGED <<queue, now, schedule, job, executor, edit, manual, applied>>

LoadApp(s) ==
  /\ scan[s].pc = "reconcile"
  /\ \E o \in Ops :
       /\ NextListed(s, o)
       /\ LET a == op[o].app IN
          scan' = [scan EXCEPT ![s].pc = "project", ![s].enabled = schedule[a].enabled,
                               ![s].failures = schedule[a].failures]
  /\ UNCHANGED <<queue, now, schedule, job, executor, edit, manual, applied>>

RetryDelay(failures) ==
  IF failures \in DOMAIN Backoff THEN Sooner(Backoff[failures], Interval) ELSE Interval

\* Mutant: any outcome of the current schedule that is not the last one shown.
ProjectableUnlessLast(o, a) ==
  /\ schedule[a].generation = job[o].generation
  /\ schedule[a].projected # o

\* Mutant: the application compare-and-set forgets what was projected.
ProjectableAgain(o, a) ==
  /\ schedule[a].generation = job[o].generation
  /\ \/ schedule[a].lastOp \in {o, None}
     \/ Automatic(o) /\ schedule[a].next = job[o].slot

\* The filter of the projection: the schedule the operation belongs to, and
\* the operation last recorded or the occurrence still planned.
Projectable(o, a) ==
  /\ schedule[a].generation = job[o].generation
  /\ schedule[a].projected # o
  /\ \/ schedule[a].lastOp \in {o, None}
     \/ Automatic(o) /\ schedule[a].next = job[o].slot

\* An error of the configuration waits for the whole interval.
ProjectOutcome(s, o, a) ==
  /\ op[o].status # "cancelled"
  /\ IF Projectable(o, a)
     THEN LET failed == op[o].status = "failed"
              failures == IF failed THEN scan[s].failures + 1 ELSE 0
          IN \E delay \in {Interval} \cup (IF failed THEN {RetryDelay(failures)} ELSE {}) :
               /\ schedule' = [schedule EXCEPT
                    ![a].projected = o, ![a].lastOp = o, ![a].failures = failures,
                    ![a].checked = IF failed THEN @ ELSE job[o].completed,
                    ![a].next = IF scan[s].enabled THEN job[o].completed + delay ELSE @]
               /\ applied' = [applied EXCEPT ![a] = Append(@, o)]
     ELSE UNCHANGED <<schedule, applied>>

SlotCancelled(o, a) ==
  /\ Automatic(o)
  /\ schedule[a].enabled
  /\ schedule[a].generation = job[o].generation
  /\ schedule[a].next = job[o].slot

\* Mutant: the slot of a cancelled operation may be taken again.
ProjectCancelledSameSlot(o, a) ==
  /\ op[o].status = "cancelled"
  /\ schedule' = IF SlotCancelled(o, a)
                 THEN [schedule EXCEPT ![a].next = Later(now, job[o].slot)]
                 ELSE schedule
  /\ UNCHANGED applied

\* Mutant: a cancelled operation leaves the schedule alone.
ProjectCancelledNothing(o, a) ==
  /\ op[o].status = "cancelled"
  /\ UNCHANGED <<schedule, applied>>

\* The key of the occurrence is used up: the next check gets another one.
ProjectCancelled(o, a) ==
  /\ op[o].status = "cancelled"
  /\ schedule' = IF SlotCancelled(o, a)
                 THEN [schedule EXCEPT ![a].next = Later(now, job[o].slot + 1)]
                 ELSE schedule
  /\ UNCHANGED applied

Project(s) ==
  /\ scan[s].pc = "project"
  /\ \E o \in Ops :
       /\ NextListed(s, o)
       /\ ProjectOutcome(s, o, op[o].app) \/ ProjectCancelled(o, op[o].app)
  /\ scan' = [scan EXCEPT ![s].pc = "mark"]
  /\ UNCHANGED <<queue, now, job, executor, edit, manual>>

MarkReconciled(s) ==
  /\ scan[s].pc = "mark"
  /\ \E o \in Ops :
       /\ NextListed(s, o)
       /\ job' = [job EXCEPT ![o].reconciled = TRUE]
       /\ scan' = [scan EXCEPT ![s] = Reconcile(scan[s].list \ {o})]
  /\ UNCHANGED <<queue, now, schedule, executor, edit, manual, applied>>

-----------------------------------------------------------------------------
(* runDueGitAppAutoUpdates, for one of the apps it found due, and           *)
(* enqueueAppOperation within it.                                           *)

Due(a) == schedule[a].enabled /\ (schedule[a].next # None => schedule[a].next <= now)

PickDue(s) ==
  /\ scan[s].pc = "scan"
  /\ \E a \in Apps :
       /\ Due(a)
       /\ scan' = [scan EXCEPT
            ![s].pc = "lookup", ![s].app = a, ![s].generation = schedule[a].generation,
            ![s].slot = IF schedule[a].next = None THEN now ELSE schedule[a].next]
  /\ UNCHANGED <<queue, now, schedule, job, executor, edit, manual, applied>>

NothingDue(s) ==
  /\ scan[s].pc = "scan"
  /\ \A a \in Apps : ~Due(a)
  /\ scan' = [scan EXCEPT ![s] = IdleScan]
  /\ UNCHANGED <<queue, now, schedule, job, executor, edit, manual, applied>>

Key(s) == <<scan[s].generation, scan[s].slot>>

LookupSlot(s) ==
  /\ scan[s].pc = "lookup"
  /\ \/ \E o \in Ops : /\ FoundByKey(o, scan[s].app, Key(s))
                       /\ scan' = [scan EXCEPT ![s].pc = "record", ![s].op = o]
     \/ /\ \A o \in Ops : ~FoundByKey(o, scan[s].app, Key(s))
        /\ scan' = [scan EXCEPT ![s].pc = "load"]
  /\ UNCHANGED <<queue, now, schedule, job, executor, edit, manual, applied>>

LoadConfig(s) ==
  /\ scan[s].pc = "load"
  /\ scan' = [scan EXCEPT ![s].pc = "create", ![s].config = schedule[scan[s].app].config]
  /\ UNCHANGED <<queue, now, schedule, job, executor, edit, manual, applied>>

\* Ids are random; which unused one an operation gets makes no difference.
Fresh(o) == op[o].status = "absent" /\ o = CHOOSE p \in Ops : op[p].status = "absent"

CreateJob(o, type, slot, generation, config) ==
  job' = [job EXCEPT ![o] = [NoJob EXCEPT !.type = type, !.slot = slot,
                                          !.generation = generation, !.config = config]]

\* The operation is queued; the append of its event may still fail the scan.
CreateAuto(s) ==
  /\ scan[s].pc = "create"
  /\ \E o \in Ops :
       /\ Fresh(o)
       /\ CreateOperation(o, scan[s].app, Key(s))
       /\ CreateJob(o, "update", scan[s].slot, scan[s].generation, scan[s].config)
       /\ scan' = [scan EXCEPT ![s].pc = "record", ![s].op = o]
  /\ UNCHANGED <<now, schedule, executor, edit, manual, applied>>

\* A duplicate key: the other scheduler's operation of this occurrence, or
\* ActiveAppOperationError, and the app stays due.
CreateRefused(s) ==
  /\ scan[s].pc = "create"
  /\ ~(ActiveIndexFree(scan[s].app) /\ KeyIndexFree(scan[s].app, Key(s)))
  /\ \/ \E o \in Ops : /\ FoundByKey(o, scan[s].app, Key(s))
                       /\ scan' = [scan EXCEPT ![s].pc = "record", ![s].op = o]
     \/ /\ \A o \in Ops : ~FoundByKey(o, scan[s].app, Key(s))
        /\ scan' = [scan EXCEPT ![s] = IdleScan]
  /\ UNCHANGED <<queue, now, schedule, job, executor, edit, manual, applied>>

RecordOperation(s) ==
  /\ scan[s].pc = "record"
  /\ LET a == scan[s].app
         current == /\ schedule[a].enabled
                    /\ schedule[a].generation = scan[s].generation
                    /\ schedule[a].next = scan[s].slot
     IN schedule' = IF current THEN [schedule EXCEPT ![a].lastOp = scan[s].op] ELSE schedule
  /\ scan' = [scan EXCEPT ![s] = IdleScan]
  /\ UNCHANGED <<queue, now, job, executor, edit, manual, applied>>

\* A database call fails, no worker is available, or the process dies.
ScanFails(s) ==
  /\ scan[s].pc # "idle"
  /\ scan' = [scan EXCEPT ![s] = IdleScan]
  /\ UNCHANGED <<queue, now, schedule, job, executor, edit, manual, applied>>

ScanStep(s) ==
  \/ ScanStart(s) \/ LoadApp(s) \/ Project(s) \/ MarkReconciled(s)
  \/ PickDue(s) \/ NothingDue(s) \/ LookupSlot(s) \/ LoadConfig(s)
  \/ CreateAuto(s) \/ CreateRefused(s) \/ RecordOperation(s) \/ ScanFails(s)

-----------------------------------------------------------------------------
(* executeLegacyAppOperation and rollbackManagedApp, as far as they touch   *)
(* the schedule.                                                            *)

\* One worker claims, any other may recover; the lease may be over at once.
ClaimJob(o) ==
  /\ ClaimOperation(o, CHOOSE w \in Workers : TRUE, 0)
  /\ executor' = [executor EXCEPT ![o].pc = "claimed"]
  /\ UNCHANGED <<now, schedule, job, scan, edit, manual, applied>>

StaleJob(o, a) ==
  \/ Automatic(o) /\ (~schedule[a].enabled \/ schedule[a].generation # job[o].generation)
  \/ schedule[a].config # job[o].config

CheckJob(o) ==
  /\ executor[o].pc = "claimed"
  /\ LET a == op[o].app IN
     executor' = [executor EXCEPT ![o].pc = IF StaleJob(o, a) THEN "refused" ELSE "checked",
                                  ![o].generation = schedule[a].generation]
  /\ UNCHANGED <<queue, now, schedule, job, scan, edit, manual, applied>>

StartUpdate(o) ==
  /\ executor[o].pc = "checked"
  /\ job[o].type = "update"
  /\ LET a == op[o].app IN
     schedule' = IF schedule[a].generation = executor[o].generation
                 THEN [schedule EXCEPT ![a].lastOp = o]
                 ELSE schedule
  /\ executor' = [executor EXCEPT ![o] = [NoExecutor EXCEPT !.pc = "acting"]]
  /\ UNCHANGED <<queue, now, job, scan, edit, manual, applied>>

\* The document is loaded here and saved when the old release is up again.
StartRollback(o) ==
  /\ executor[o].pc = "checked"
  /\ job[o].type = "rollback"
  /\ LET a == op[o].app IN
     executor' = [executor EXCEPT ![o] =
       [pc |-> "acting", enabled |-> schedule[a].enabled,
        generation |-> schedule[a].generation, next |-> schedule[a].next]]
  /\ UNCHANGED <<queue, now, schedule, job, scan, edit, manual, applied>>

ConfirmRollback(o) ==
  /\ executor[o].pc = "acting"
  /\ job[o].type = "rollback"
  /\ Owned(o, op[o].worker, op[o].generation)
  /\ executor' = [executor EXCEPT ![o].pc = "confirmed"]
  /\ UNCHANGED <<queue, now, schedule, job, scan, edit, manual, applied>>

\* A save writes the paths whose value differs from the one that was loaded.
SaveRollback(o) ==
  /\ executor[o].pc = "confirmed"
  /\ LET a == op[o].app
         doc == executor[o]
     IN schedule' = [schedule EXCEPT
          ![a].enabled = IF doc.enabled THEN FALSE ELSE @,
          ![a].next = IF doc.next # None THEN None ELSE @,
          ![a].generation = doc.generation + 1]
  /\ executor' = [executor EXCEPT ![o] = [NoExecutor EXCEPT !.pc = "saved"]]
  /\ UNCHANGED <<queue, now, job, scan, edit, manual, applied>>

\* Mutant: a refused operation ends in a status of its own.
OutcomesWithRefused(o) ==
  CASE executor[o].pc = "refused" -> {"refused"}
    [] executor[o].pc = "saved" -> {"succeeded", "failed"}
    [] executor[o].pc = "acting" /\ job[o].type = "update" -> {"succeeded", "failed"}
    [] OTHER -> {"failed"}

\* What the executor may return, by the point it has reached.  An update that
\* finds nothing new is projected like one that deployed.
Outcomes(o) ==
  CASE executor[o].pc = "refused" -> {"cancelled"}
    [] executor[o].pc = "saved" -> {"succeeded", "failed"}
    [] executor[o].pc = "acting" /\ job[o].type = "update" -> {"succeeded", "failed"}
    [] OTHER -> {"failed"}

FinishJob(o) ==
  /\ executor[o].pc # "none"
  /\ Owned(o, op[o].worker, op[o].generation)
  /\ \E result \in Outcomes(o) : FinishOperation(o, result)
  /\ job' = [job EXCEPT ![o].completed = now]
  /\ executor' = [executor EXCEPT ![o] = NoExecutor]
  /\ UNCHANGED <<now, schedule, scan, edit, manual, applied>>

\* The worker dies, is aborted or no longer owns the operation.
ExecutorStops(o) ==
  /\ executor[o].pc # "none"
  /\ executor' = [executor EXCEPT ![o] = NoExecutor]
  /\ UNCHANGED <<queue, now, schedule, job, scan, edit, manual, applied>>

RecoverJob(o) ==
  /\ \E w \in Workers : Expired(o, w)
  /\ FailExpired(o)
  /\ job' = [job EXCEPT ![o].completed = now]
  /\ UNCHANGED <<now, schedule, scan, executor, edit, manual, applied>>

\* By the recovering worker, or by hand, once the previous one is drained.
\* The two differ in the error code, which nothing here reads.
ReleaseJob(o) ==
  /\ executor[o].pc = "none"
  /\ UnlockByHand(o)
  /\ UNCHANGED <<now, schedule, job, scan, executor, edit, manual, applied>>

ExecutorStep(o) ==
  \/ ClaimJob(o) \/ CheckJob(o) \/ StartUpdate(o)
  \/ StartRollback(o) \/ ConfirmRollback(o) \/ SaveRollback(o)
  \/ FinishJob(o) \/ ExecutorStops(o) \/ RecoverJob(o) \/ ReleaseJob(o)

-----------------------------------------------------------------------------
(* updateManagedApp: load, save, cancel.                                    *)

EditLoad(a) ==
  /\ edit[a].pc = "idle"
  /\ schedule[a].config < MaxConfig
  /\ LET doc == schedule[a] IN
     edit' = [edit EXCEPT ![a] =
       [pc |-> "loaded", enabled |-> doc.enabled, generation |-> doc.generation,
        next |-> doc.next, lastOp |-> doc.lastOp, checked |-> doc.checked]]
  /\ UNCHANGED <<queue, now, schedule, job, scan, executor, manual, applied>>

\* When the next check is due after an edit of an enabled schedule.
EditedDue(doc, source) ==
  IF ~doc.enabled \/ source THEN now
  ELSE Later(now, (IF doc.checked = None THEN now ELSE doc.checked) + Interval)

EditSave(a) ==
  /\ edit[a].pc = "loaded"
  /\ \E enable, interval, source \in BOOLEAN :
       LET doc == edit[a]
           changed == source \/ interval \/ enable # doc.enabled
           due == IF enable THEN EditedDue(doc, source) ELSE None
           Write(path, value) == IF value = doc[path] THEN schedule[a][path] ELSE value
           saved == [schedule[a] EXCEPT
                       !.enabled = Write("enabled", enable),
                       !.generation = doc.generation + 1,
                       !.lastOp = Write("lastOp", None),
                       !.next = Write("next", due)]
       IN /\ schedule' = [schedule EXCEPT
               ![a] = [(IF changed THEN saved ELSE schedule[a]) EXCEPT !.config = @ + 1]]
          /\ edit' = [edit EXCEPT ![a] = [NoEdit EXCEPT !.pc = IF changed THEN "saved" ELSE "idle"]]
  /\ UNCHANGED <<queue, now, job, scan, executor, manual, applied>>

EditCancelQueued(a) ==
  /\ edit[a].pc = "saved"
  /\ \/ \E o \in Ops : /\ op[o].app = a /\ Automatic(o)
                       /\ CancelQueued(o)
                       /\ job' = [job EXCEPT ![o].completed = now]
     \/ /\ \A o \in Ops : ~(op[o].app = a /\ Automatic(o) /\ Queued(o))
        /\ UNCHANGED <<queue, job>>
  /\ edit' = [edit EXCEPT ![a].pc = "idle"]
  /\ UNCHANGED <<now, schedule, scan, executor, manual, applied>>

\* A database call fails or the web process dies.
EditFails(a) ==
  /\ edit[a].pc # "idle"
  /\ edit' = [edit EXCEPT ![a] = NoEdit]
  /\ UNCHANGED <<queue, now, schedule, job, scan, executor, manual, applied>>

-----------------------------------------------------------------------------
(* enqueueAppOperation for a request by hand, which carries no key here.    *)

ManualJobs == {o \in Ops : op[o].status # "absent" /\ ~Automatic(o)}

ManualLoad(a) ==
  /\ manual[a].pc = "idle"
  /\ Cardinality(ManualJobs) < MaxManual
  /\ manual' = [manual EXCEPT ![a] = [pc |-> "loaded", generation |-> schedule[a].generation,
                                      config |-> schedule[a].config]]
  /\ UNCHANGED <<queue, now, schedule, job, scan, executor, edit, applied>>

ManualCreate(a) ==
  /\ manual[a].pc = "loaded"
  /\ \E o \in Ops, type \in ManualTypes :
       /\ Fresh(o)
       /\ CreateOperation(o, a, None)
       /\ CreateJob(o, type, None, manual[a].generation, manual[a].config)
  /\ manual' = [manual EXCEPT ![a] = [pc |-> "idle", generation |-> 0, config |-> 0]]
  /\ UNCHANGED <<now, schedule, scan, executor, edit, applied>>

\* Refused: another operation is active, no worker, or a failed call.
ManualRefused(a) ==
  /\ manual[a].pc = "loaded"
  /\ manual' = [manual EXCEPT ![a] = [pc |-> "idle", generation |-> 0, config |-> 0]]
  /\ UNCHANGED <<queue, now, schedule, job, scan, executor, edit, applied>>

AppStep(a) ==
  \/ EditLoad(a) \/ EditSave(a) \/ EditCancelQueued(a) \/ EditFails(a)
  \/ ManualLoad(a) \/ ManualCreate(a) \/ ManualRefused(a)

-----------------------------------------------------------------------------
ClockTicks ==
  /\ now < MaxTime
  /\ now' = now + 1
  /\ UNCHANGED <<queue, schedule, job, scan, executor, edit, manual, applied>>

Next ==
  \/ \E s \in Schedulers : ScanStep(s)
  \/ \E o \in Ops : ExecutorStep(o)
  \/ \E a \in Apps : AppStep(a)
  \/ ClockTicks

Spec == Init /\ [][Next]_vars

-----------------------------------------------------------------------------
\* The key of an occurrence can be used once.  A slot whose operation is over
\* and projected must not be the next slot again: every scan would find the
\* old operation by its key, and the app would never be checked again.
NoDeadSlot ==
  \A a \in Apps, o \in Ops :
    /\ schedule[a].enabled
    /\ FoundByKey(o, a, <<schedule[a].generation, schedule[a].next>>)
    => ~job[o].reconciled

\* Schedulers that overlap, or that repeat a projection after a crash, never
\* project an outcome twice, nor an older one after a newer one.
ProjectedInOrder ==
  \A a \in Apps : \A i, j \in DOMAIN applied[a] :
    i < j => Position(applied[a][i]) < Position(applied[a][j])

\* The failure count is computed from an earlier read; it is nevertheless
\* the number of failed outcomes since the last other one.
FailuresCounted ==
  \A a \in Apps :
    LET n == Len(applied[a])
        f == schedule[a].failures
    IN /\ f <= n
       /\ \A i \in (n - f + 1)..n : op[applied[a][i]].status = "failed"
       /\ f < n => op[applied[a][n - f]].status # "failed"

-----------------------------------------------------------------------------
(* Liveness.  A scan starts at every interval, and a step of it that fails  *)
(* is tried again by the next scan, not failing for ever; what is queued is *)
(* claimed and its executor returns.  Nothing is assumed of edits and       *)
(* requests, nor that an executor does not die.                             *)
Fairness ==
  /\ \A s \in Schedulers :
       /\ WF_vars(ScanStart(s)) /\ SF_vars(LoadApp(s)) /\ SF_vars(Project(s))
       /\ SF_vars(MarkReconciled(s)) /\ SF_vars(PickDue(s)) /\ SF_vars(LookupSlot(s))
       /\ SF_vars(LoadConfig(s)) /\ SF_vars(CreateAuto(s) \/ CreateRefused(s))
       /\ WF_vars(RecordOperation(s))
  /\ \A o \in Ops : WF_vars(ClaimJob(o)) /\ WF_vars(FinishJob(o))

FairSpec == Spec /\ Fairness

\* The lock of the app is held by an operation that is, or should be, marked
\* for recovery.
Interrupted(a) ==
  \E o \in Ops : /\ op[o].app = a /\ op[o].active
                 /\ \/ op[o].status = "failed"
                    \/ op[o].status \in InFlight /\ executor[o].pc = "none"

\* An app that is due is dealt with: its next check moves on, unless it is
\* disabled or waits for the recovery of an interrupted operation.
DueIsHandled ==
  \A a \in Apps, t \in 0..MaxTime :
    (schedule[a].enabled /\ schedule[a].next = t /\ t <= now)
      ~> (~schedule[a].enabled \/ schedule[a].next # t \/ Interrupted(a))
=============================================================================
