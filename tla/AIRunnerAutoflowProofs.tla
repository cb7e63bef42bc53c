------------------------ MODULE AIRunnerAutoflowProofs ------------------------
(***************************************************************************)
(* AIRunnerAutoflow is type correct, starts the steps of a sequential flow *)
(* in order and ends a flow with the verdict of its items: for any number  *)
(* of items, jobs, workers, supervisors, attempts, crashes and kills.  The *)
(* queue under the flow keeps its invariant, by AIRunnerJobsProofs.        *)
(***************************************************************************)
EXTENDS AIRunnerAutoflow, AIRunnerJobsProofs

\* What an item knows of its run.
ItemFollows(x) ==
  /\ x.status = "pending" => x.job = None
  /\ x.status \in ItemActive => x.job # None
  /\ x.job # None =>
       /\ run[x.job] # "absent"
       /\ LeftAlone(x.job) /\ x.status \in ItemEnded =>
            run[x.job] \in RunEnded /\ x.status = StatusOfRun(x.job)

\* No item has left "pending" before those in front of it ended.
InOrder(items) ==
  \A i, k \in Items : i < k /\ items[k].status # "pending" => items[i].status \in ItemEnded

\* Nothing was started after an item that failed.
FailedLast(items) ==
  \A i, k \in Items : i < k /\ items[i].status = "failed" => items[k].status = "pending"

\* A supervisor has a copy only while it is between reconciliation and dispatch
\* of one tick, and an open copy is of a flow that is not over.
DraftHeld ==
  \A s \in Supervisors :
    /\ draft[s].st # "unread" => supervisor[s].pc = "reconcile" /\ supervisor[s].stale = {}
    /\ draft[s].st = "open" => flow.status = "running"

ItemsFollow ==
  /\ \A i \in Items : ItemFollows(flow.items[i])
  /\ \A s \in Supervisors, i \in Items : ItemFollows(draft[s].items[i])

ItemsInOrder ==
  flow.sequential => InOrder(flow.items) /\ \A s \in Supervisors : InOrder(draft[s].items)

FailureStops ==
  flow.sequential /\ ~flow.goesOn =>
    /\ flow.status = "running" => FailedLast(flow.items)
    /\ \A s \in Supervisors : FailedLast(draft[s].items)

\* What a copy is about to queue may be queued.
QueuedNext ==
  \A s \in Supervisors : \A i \in draft[s].queue :
    /\ draft[s].items[i].status = "pending"
    /\ flow.sequential => \A k \in Items : k < i => draft[s].items[k].status \in ItemEnded
    /\ ~flow.goesOn => \A k \in Items : draft[s].items[k].status # "failed"

FlowVerdict ==
  /\ flow.status = "completed" => With(flow.items, ItemEnded \ {"failed"}) = Items
  /\ flow.status = "failed" =>
       With(flow.items, {"failed"}) # {} /\ With(flow.items, {"pending"}) = {}

FlowRecord ==
  [status : {"running", "completed", "failed"}, sequential : BOOLEAN,
   goesOn : BOOLEAN, items : [Items -> ItemRecord]]
DraftRecord ==
  [st : {"unread", "open", "saved"}, queue : SUBSET Items, items : [Items -> ItemRecord]]
FlowTyped == flow \in FlowRecord /\ draft \in [Supervisors -> DraftRecord]

FlowInv ==
  /\ JInv /\ FlowTyped
  /\ DraftHeld /\ ItemsFollow /\ ItemsInOrder /\ FailureStops /\ QueuedNext /\ FlowVerdict

-----------------------------------------------------------------------------
(* What a step of the queue does to the runs that items follow.             *)

LEMMA RunStays ==
  ASSUME JInv, [Next]_vars, NEW j \in Jobs, run[j] # "absent"
  PROVE  run'[j] # "absent"
<1>a. Ranges /\ TypeOK
  BY InRange DEF JInv
<1>1. ASSUME NEW k, NEW x, run' = [run EXCEPT ![k] = x], x # "absent" PROVE run'[j] # "absent"
  BY <1>1, <1>a DEF TypeOK
<1>2. ASSUME NEW k \in Jobs, Enqueue(k) PROVE run'[j] # "absent"
  BY <1>2, <1>1 DEF Enqueue
<1>3. ASSUME KillWrites PROVE run'[j] # "absent"
  <2>1. run' = [run EXCEPT ![kill.job] = "killed"] \/ run' = run
    BY <1>3, Zenon DEF KillWrites
  <2> QED BY <2>1, <1>1
<1>4. ASSUME NEW w \in Workers, WorkerStep(w) PROVE run'[j] # "absent"
  <2>1. CASE SaveRun(w)
    BY <2>1, <1>1 DEF SaveRun
  <2>2. CASE LaunchFails(w)
    BY <2>2, <1>1 DEF LaunchFails, End
  <2>3. CASE FinalizeWrites(w)
    <3>1. worker[w].pc = "end" => worker[w].outcome # "absent"
      BY DEF JInv, WorkersOwn, RunEnded
    <3> QED BY <2>3, <3>1, <1>1 DEF FinalizeWrites, Retry, End
  <2> QED BY <1>4, <2>1, <2>2, <2>3, Zenon DEF WorkerStep, Claim, Launch, PersistExecutionRef,
             HeartbeatCancels, Heartbeat, HeartbeatFinds, TimerFires, ChildCloses,
             FinalizeReads, WorkerCrashes
<1>5. ASSUME NEW s \in Supervisors, SupervisorStep(s) \/ BeginDispatch(s)
      PROVE  run'[j] # "absent"
  <2>1. CASE SpawnFails(s)
    BY <2>1, <1>1 DEF SpawnFails, End
  <2>2. ASSUME NEW k \in Jobs, Reconcile(s, k) PROVE run'[j] # "absent"
    <3>1. \E x \in {"running", "retrying", "completed", "killed", "timeout", "failed"} :
            run' = [run EXCEPT ![k] = x]
      BY <2>2 DEF Reconcile, Retry, End
    <3> QED BY <3>1, <1>1
  <2> QED BY <1>5, <2>1, <2>2 DEF SupervisorStep, StartSupervisor, AcquireLease, BeginDispatch,
             PickJob, EndTick, Dispatch, SpawnWorker, SupervisorCrashes
<1> QED BY <1>2, <1>3, <1>4, <1>5, ZenonT(30) DEF Next, Step, JobStep, KillReads, Silence,
           RetryDue, TimeoutPasses, CommandStep, CommandStops, CommandExits, LeaseExpires, vars

\* Nobody takes back a request to end a job.
LEMMA LeftAloneBefore ==
  ASSUME JInv, [Next]_vars, NEW j \in Jobs, LeftAlone(j)'
  PROVE  LeftAlone(j)
<1>a. Ranges /\ TypeOK
  BY InRange DEF JInv
<1>0. job[j].cancel \in BOOLEAN /\ ~job'[j].cancel /\ kill'.job # j
  BY <1>a DEF TypeOK, JobRecord, LeftAlone
<1> DEFINE Keeps == kill'.job = kill.job /\ job'[j].cancel = job[j].cancel
<1>1. ASSUME UNCHANGED <<job, kill>> PROVE Keeps
  BY <1>1
<1>2. ASSUME NEW k \in Jobs, Enqueue(k) PROVE Keeps
  <2>1. JobIs(k, "queued", job[k].attempts, job[k].cancel, job[k].stale, job[k].timedOut)
        /\ kill' = kill
    BY <1>2, <1>a, JobEnqueued DEF TypeOK, Enqueue
  <2> QED BY <2>1 DEF JobIs
<1>3. ASSUME NEW k \in Jobs, JobStep(k) PROVE LeftAlone(j)
  <2>1. CASE KillReads(k)
    BY <2>1, <1>0, <1>a, JobsAssumption DEF KillReads, LeftAlone
  <2>2. CASE Silence(k)
    <3>1. JobIs(k, job[k].status, job[k].attempts, job[k].cancel, TRUE, job[k].timedOut)
          /\ kill' = kill
      BY <2>2, <1>a, JobStale DEF TypeOK, Silence
    <3> QED BY <3>1, <1>0 DEF JobIs, LeftAlone
  <2>3. CASE RetryDue(k)
    <3>1. JobIs(k, job[k].status, job[k].attempts, job[k].cancel, job[k].stale, job[k].timedOut)
          /\ kill' = kill
      BY <2>3, <1>a, JobDue DEF TypeOK, RetryDue
    <3> QED BY <3>1, <1>0 DEF JobIs, LeftAlone
  <2>4. CASE TimeoutPasses(k)
    <3>1. JobIs(k, job[k].status, job[k].attempts, job[k].cancel, job[k].stale, TRUE)
          /\ kill' = kill
      BY <2>4, <1>a, JobTimedOut DEF TypeOK, TimeoutPasses
    <3> QED BY <3>1, <1>0 DEF JobIs, LeftAlone
  <2> QED BY <1>3, <2>1, <2>2, <2>3, <2>4 DEF JobStep
<1>4. ASSUME KillWrites PROVE LeftAlone(j)
  <2> DEFINE k == kill.job
  <2>1. k \in Jobs /\ kill' = NoKill
    BY <1>4, <1>a DEF KillWrites, TypeOK
  <2>2. \E status : JobIs(k, status, job[k].attempts, TRUE, job[k].stale, job[k].timedOut)
    BY <1>4, <1>a, <2>1, JobKilled, JobAskedToEnd DEF TypeOK, KillWrites
  <2>3. k # j
    BY <2>2, <1>0 DEF JobIs
  <2> QED BY <2>2, <2>3, <1>0 DEF JobIs, LeftAlone
<1>5. ASSUME NEW w \in Workers, WorkerStep(w) PROVE Keeps
  <2> DEFINE k == worker[w].job
  <2>a. k \in Jobs \/ worker[w].pc = "gone"
    BY <1>a DEF Ranges
  <2>b. worker[w] \in WorkerRecord
    BY <1>a DEF TypeOK
  <2>0. kill' = kill
    BY <1>5, Zenon DEF WorkerStep, Claim, SaveRun, Launch, LaunchFails, PersistExecutionRef,
       HeartbeatCancels, Heartbeat, HeartbeatFinds, TimerFires, ChildCloses, FinalizeReads,
       FinalizeWrites, WorkerCrashes
  <2>1. CASE Claim(w)
    <3>1. job' = job \/ JobIs(k, "running", job[k].attempts + 1, job[k].cancel, FALSE, FALSE)
      BY <2>1, <2>a, <1>a, JobClaimed DEF Claim, TypeOK
    <3> QED BY <3>1, <2>0 DEF JobIs
  <2>2. CASE LaunchFails(w)
    <3>1. JobIs(k, "failed", job[k].attempts, job[k].cancel, FALSE, job[k].timedOut)
      BY <2>2, <2>a, <1>a, JobEnds DEF LaunchFails, End, StatusFor, JobEnded, TypeOK
    <3> QED BY <3>1, <2>0 DEF JobIs
  <2>3. CASE PersistExecutionRef(w)
    <3>1. job' = job \/ JobIs(k, job[k].status, job[k].attempts, job[k].cancel, job[k].stale,
                              job[k].timedOut)
      BY <2>3, <2>a, <1>a, JobRefersTo DEF PersistExecutionRef, TypeOK, Ranges
    <3> QED BY <3>1, <2>0 DEF JobIs
  <2>4. CASE Heartbeat(w) \/ FinalizeReads(w)
    <3>1. JobIs(k, job[k].status, job[k].attempts, job[k].cancel, FALSE, job[k].timedOut)
      BY <2>4, <2>a, <2>b, <1>a, JobFlushed DEF Heartbeat, FinalizeReads, TypeOK
    <3> QED BY <3>1, <2>0 DEF JobIs
  <2>5. CASE FinalizeWrites(w)
    <3>1. CASE worker[w].pc = "retry"
      <4>1. JobIs(k, "retrying", job[k].attempts, job[k].cancel, job[k].stale, job[k].timedOut)
        BY <2>5, <3>1, <2>a, <1>a, JobRetries DEF FinalizeWrites, Retry, TypeOK
      <4> QED BY <4>1, <2>0 DEF JobIs
    <3>2. CASE worker[w].pc = "end"
      <4> DEFINE status == StatusFor(worker[w].outcome)
      <4>1. status \in JobEnded /\ k \in Jobs
        BY <3>2, <2>a DEF StatusFor, JobEnded
      <4>2. job' = [job EXCEPT ![k].status = status, ![k].stale = FALSE]
        BY <2>5, <3>2 DEF FinalizeWrites, End
      <4> HIDE DEF status
      <4>3. JobIs(k, status, job[k].attempts, job[k].cancel, FALSE, job[k].timedOut)
        BY <4>1, <4>2, <1>a, JobEnds DEF TypeOK
      <4> QED BY <4>3, <2>0 DEF JobIs
    <3> QED BY <2>5, <3>1, <3>2 DEF FinalizeWrites
  <2> QED BY <1>5, <2>0, <2>1, <2>2, <2>3, <2>4, <2>5, Zenon DEF WorkerStep, SaveRun, Launch,
             HeartbeatCancels, HeartbeatFinds, TimerFires, ChildCloses, WorkerCrashes
<1>6. ASSUME NEW s \in Supervisors, SupervisorStep(s) \/ BeginDispatch(s) PROVE Keeps
  <2>0. kill' = kill
    BY <1>6, Zenon DEF SupervisorStep, StartSupervisor, AcquireLease, Reconcile, BeginDispatch,
       PickJob, EndTick, Dispatch, SpawnWorker, SpawnFails, SupervisorCrashes
  <2>1. ASSUME NEW k \in Jobs, NEW status \in JobEnded,
               job' = [job EXCEPT ![k].status = status, ![k].stale = FALSE]
        PROVE  Keeps
    <3>1. JobIs(k, status, job[k].attempts, job[k].cancel, FALSE, job[k].timedOut)
      BY <2>1, <1>a, JobEnds DEF TypeOK
    <3> QED BY <3>1, <2>0 DEF JobIs
  <2>2. ASSUME NEW k \in Jobs, NEW status \in Active,
               job' = [job EXCEPT ![k].status = status, ![k].stale = FALSE]
        PROVE  Keeps
    <3>1. JobIs(k, status, job[k].attempts, job[k].cancel, FALSE, job[k].timedOut)
      BY <2>2, <1>a, JobStarts DEF TypeOK
    <3> QED BY <3>1, <2>0 DEF JobIs
  <2>3. CASE SpawnFails(s)
    <3>1. supervisor[s].pick \in Jobs
      BY <2>3, <1>a DEF SpawnFails, Ranges
    <3> QED BY <3>1, <2>1, <2>3 DEF SpawnFails, End, StatusFor, JobEnded
  <2>4. CASE Dispatch(s)
    <3>1. supervisor[s].pick \in Jobs
      BY <2>4, <1>a DEF Dispatch, Ranges
    <3> QED BY <3>1, <2>0, <2>2, <2>4 DEF Dispatch, Active
  <2>5. ASSUME NEW k \in Jobs, Reconcile(s, k) PROVE Keeps
    <3>1. \/ job' = [job EXCEPT ![k].status = "running", ![k].stale = FALSE]
          \/ Retry(k)
          \/ \E outcome : End(k, outcome)
      BY <2>5, Zenon DEF Reconcile
    <3>2. CASE Retry(k)
      <4>1. JobIs(k, "retrying", job[k].attempts, job[k].cancel, job[k].stale, job[k].timedOut)
        BY <3>2, <1>a, JobRetries DEF Retry, TypeOK
      <4> QED BY <4>1, <2>0 DEF JobIs
    <3>3. ASSUME NEW outcome, End(k, outcome) PROVE Keeps
      <4>1. StatusFor(outcome) \in JobEnded
        BY DEF StatusFor, JobEnded
      <4> QED BY <3>3, <4>1, <2>1 DEF End
    <3> QED BY <3>1, <3>2, <3>3, <2>2 DEF Active
  <2> QED BY <1>6, <2>0, <2>3, <2>4, <2>5, Zenon DEF SupervisorStep, StartSupervisor,
             AcquireLease, BeginDispatch, PickJob, EndTick, SpawnWorker, SupervisorCrashes
<1>7. Keeps => LeftAlone(j)
  BY <1>0 DEF LeftAlone
<1> HIDE DEF Keeps
<1> QED BY <1>1, <1>2, <1>3, <1>4, <1>5, <1>6, <1>7, ZenonT(30) DEF Next, Step,
           CommandStep, CommandStops, CommandExits, LeaseExpires, vars

\* The ended run of a job left alone keeps its verdict, so what an item took
\* from it stays true.
LEMMA ItemKept ==
  ASSUME JInv, [Next]_vars, NEW x \in ItemRecord, ItemFollows(x)
  PROVE  ItemFollows(x)'
<1>1. ASSUME x.job # None
      PROVE  /\ run'[x.job] # "absent"
             /\ LeftAlone(x.job)' /\ x.status \in ItemEnded =>
                  run'[x.job] \in RunEnded /\ x.status = StatusOfRun(x.job)'
  <2>1. x.job \in Jobs /\ run[x.job] # "absent"
    BY <1>1 DEF ItemRecord, ItemFollows
  <2>2. ASSUME LeftAlone(x.job)', x.status \in ItemEnded
        PROVE  run'[x.job] \in RunEnded /\ x.status = StatusOfRun(x.job)'
    <3>1. LeftAlone(x.job)
      BY <2>1, <2>2, LeftAloneBefore
    <3>2. run[x.job] \in RunEnded /\ x.status = StatusOfRun(x.job)
      BY <1>1, <2>2, <3>1 DEF ItemFollows
    <3>3. run'[x.job] = run[x.job]
      BY <2>1, <3>1, <3>2, StepKeepsOutcome
    <3> QED BY <3>2, <3>3 DEF StatusOfRun
  <2> QED BY <2>1, <2>2, RunStays
<1> QED BY <1>1 DEF ItemFollows

LEMMA StatusTaken ==
  ASSUME TypeOK, NEW j \in Jobs, run[j] # "absent"
  PROVE  /\ StatusOfRun(j) \in ItemActive \cup {"completed", "failed", "canceled"}
         /\ StatusOfRun(j) \in ItemEnded <=> run[j] \in RunEnded
<1>1. run[j] \in {"queued", "retrying", "running", "completed", "killed", "failed", "timeout"}
  BY DEF TypeOK, RunEnded
<1>2. CASE run[j] \in {"queued", "retrying"}
  BY <1>2 DEF StatusOfRun, ItemActive, ItemEnded, RunEnded
<1>3. CASE run[j] \in {"running", "completed"}
  BY <1>3 DEF StatusOfRun, ItemActive, ItemEnded, RunEnded
<1>4. CASE run[j] \in {"killed", "failed", "timeout"}
  BY <1>4 DEF StatusOfRun, ItemActive, ItemEnded, RunEnded
<1> QED BY <1>1, <1>2, <1>3, <1>4

\* Following the runs changes the active items only, and leaves none pending.
LEMMA FollowedItems ==
  ASSUME TypeOK, None \notin Jobs, NEW items \in [Items -> ItemRecord],
         \A i \in Items : ItemFollows(items[i])
  PROVE  /\ Followed(items) \in [Items -> ItemRecord]
         /\ \A i \in Items :
              /\ ItemFollows(Followed(items)[i])
              /\ items[i].status \notin ItemActive => Followed(items)[i] = items[i]
              /\ items[i].status # "pending" => Followed(items)[i].status # "pending"
<1>1. ASSUME NEW i \in Items, items[i].status \in ItemActive
      PROVE  /\ Followed(items)[i] \in ItemRecord
             /\ ItemFollows(Followed(items)[i])
             /\ Followed(items)[i].status # "pending"
  <2> DEFINE j == items[i].job
             st == StatusOfRun(j)
             r == [items[i] EXCEPT !.status = st]
  <2>1. j \in Jobs /\ run[j] # "absent" /\ items[i] \in ItemRecord
    BY <1>1 DEF ItemFollows, ItemRecord
  <2>2. st \in ItemActive \cup {"completed", "failed", "canceled"}
        /\ (st \in ItemEnded <=> run[j] \in RunEnded)
    BY <2>1, StatusTaken
  <2>3. Followed(items)[i] = r
    BY <1>1 DEF Followed
  <2>5. st = StatusOfRun(j)
    OBVIOUS
  <2> HIDE DEF j, st
  <2>4. r \in ItemRecord /\ r.status = st /\ r.job = j
    BY <2>1, <2>2 DEF ItemRecord, ItemActive, ItemEnded, j
  <2> HIDE DEF r
  <2> QED BY <2>1, <2>2, <2>3, <2>4, <2>5 DEF ItemFollows, ItemActive, ItemEnded
<1>2. ASSUME NEW i \in Items, items[i].status \notin ItemActive
      PROVE  Followed(items)[i] = items[i]
  BY <1>2 DEF Followed
<1>3. Followed(items) \in [Items -> ItemRecord]
  <2>1. \A i \in Items : Followed(items)[i] \in ItemRecord
    BY <1>1, <1>2
  <2>2. Followed(items) = [i \in Items |-> Followed(items)[i]]
    BY DEF Followed
  <2> QED BY <2>1, <2>2
<1> QED BY <1>1, <1>2, <1>3 DEF ItemActive

LEMMA FollowedOrder ==
  ASSUME TypeOK, None \notin Jobs, NEW items \in [Items -> ItemRecord],
         \A i \in Items : ItemFollows(items[i]), InOrder(items)
  PROVE  /\ InOrder(Followed(items))
         /\ FailedLast(items) => FailedLast(Followed(items))
<1>1. \A i \in Items :
        /\ items[i].status \notin ItemActive => Followed(items)[i] = items[i]
        /\ items[i].status # "pending" => Followed(items)[i].status # "pending"
  BY FollowedItems
<1>2. \A i \in Items : items[i].status \in ItemEnded => items[i].status \notin ItemActive
  BY DEF ItemEnded, ItemActive
<1>3. \A i \in Items : items[i].status = "pending" => items[i].status \notin ItemActive
  BY DEF ItemActive
<1>4. ASSUME NEW i \in Items, NEW k \in Items, i < k, Followed(items)[k].status # "pending"
      PROVE  Followed(items)[i].status \in ItemEnded
  BY <1>1, <1>2, <1>3, <1>4 DEF InOrder
<1>5. ASSUME FailedLast(items), NEW i \in Items, NEW k \in Items, i < k,
             Followed(items)[i].status = "failed"
      PROVE  Followed(items)[k].status = "pending"
  <2>1. CASE items[i].status \in ItemActive
    BY <2>1, <1>1, <1>2, <1>3, <1>5 DEF InOrder
  <2>2. CASE items[i].status \notin ItemActive
    BY <2>2, <1>1, <1>3, <1>5 DEF FailedLast
  <2> QED BY <2>1, <2>2
<1> QED BY <1>4, <1>5 DEF InOrder, FailedLast

LEMMA UnreadFine ==
  /\ Unread \in DraftRecord /\ Unread.st = "unread" /\ Unread.queue = {}
  /\ \A i \in Items : Unread.items[i] = [status |-> "pending", job |-> None]
  /\ [Unread EXCEPT !.st = "saved"] \in DraftRecord
  /\ [Unread EXCEPT !.st = "saved"].st = "saved" /\ [Unread EXCEPT !.st = "saved"].queue = {}
  /\ [Unread EXCEPT !.st = "saved"].items = Unread.items
BY DEF Unread, Pending, DraftRecord, ItemRecord

LEMMA PendingFollows ==
  ItemFollows([status |-> "pending", job |-> None])
BY DEF ItemFollows, ItemActive, ItemEnded

\* Two supervisors never have a copy at a time: one has the lease.
LEMMA OneDraft ==
  ASSUME FlowInv, NEW s \in Supervisors, NEW r \in Supervisors,
         draft[s].st # "unread", supervisor[r].pc = "reconcile"
  PROVE  s = r
BY DEF FlowInv, JInv, DraftHeld, LeaseHeld

\* A step that saves these items in the flow; the copies keep theirs or are
\* dropped.
LEMMA SaveKeeps ==
  ASSUME FlowInv, [Next]_vars, flow' \in FlowRecord,
         flow'.sequential = flow.sequential, flow'.goesOn = flow.goesOn,
         NEW items \in [Items -> ItemRecord], flow'.items = items,
         \A i \in Items : ItemFollows(items[i]),
         flow.sequential => InOrder(items),
         flow.sequential /\ ~flow.goesOn /\ flow'.status = "running" => FailedLast(items),
         FlowVerdict', DraftHeld',
         draft' \in [Supervisors -> DraftRecord],
         \A s \in Supervisors :
           \/ draft'[s].items = draft[s].items /\ draft'[s].queue = draft[s].queue
           \/ draft'[s].items = Unread.items /\ draft'[s].queue = {}
  PROVE  FlowInv'
<1>1. JInv' /\ FlowTyped'
  BY JInvStep DEF FlowInv, FlowTyped
<1>2. ItemsFollow'
  <2>1. ASSUME NEW i \in Items PROVE ItemFollows(flow.items[i])'
    <3>1. PICK x \in ItemRecord : x = items[i]
      OBVIOUS
    <3>2. ItemFollows(x)'
      BY <3>1, ItemKept DEF FlowInv
    <3> QED BY <3>1, <3>2 DEF ItemFollows
  <2>2. ASSUME NEW s \in Supervisors, NEW i \in Items PROVE ItemFollows(draft[s].items[i])'
    <3>1. PICK x \in ItemRecord : x = draft'[s].items[i]
      BY DEF DraftRecord
    <3>2. x = draft[s].items[i] \/ x = [status |-> "pending", job |-> None]
      BY <3>1, UnreadFine
    <3>3. ItemFollows(x)
      BY <3>2, PendingFollows DEF FlowInv, ItemsFollow
    <3>4. ItemFollows(x)'
      BY <3>3, ItemKept DEF FlowInv
    <3> QED BY <3>1, <3>4 DEF ItemFollows
  <2> QED BY <2>1, <2>2 DEF ItemsFollow
<1>3. \A s \in Supervisors :
        \/ draft'[s].items = draft[s].items /\ draft'[s].queue = draft[s].queue
        \/ /\ draft'[s].queue = {}
           /\ \A i \in Items : draft'[s].items[i].status = "pending"
  BY UnreadFine
<1>4. ItemsInOrder'
  BY <1>3 DEF FlowInv, ItemsInOrder, InOrder
<1>5. FailureStops'
  BY <1>3 DEF FlowInv, FailureStops, FailedLast
<1>6. QueuedNext'
  BY <1>3 DEF FlowInv, QueuedNext
<1> QED BY <1>1, <1>2, <1>4, <1>5, <1>6 DEF FlowInv

LEMMA StayKeeps ==
  ASSUME FlowInv, [Next]_vars, flow' = flow, DraftHeld',
         draft' \in [Supervisors -> DraftRecord],
         \A s \in Supervisors :
           \/ draft'[s].items = draft[s].items /\ draft'[s].queue = draft[s].queue
           \/ draft'[s].items = Unread.items /\ draft'[s].queue = {}
  PROVE  FlowInv'
<1>1. flow \in FlowRecord /\ flow.items \in [Items -> ItemRecord]
  BY DEF FlowInv, FlowTyped, FlowRecord
<1>2. \A i \in Items : ItemFollows(flow.items[i])
  BY DEF FlowInv, ItemsFollow
<1>3. flow.sequential => InOrder(flow.items)
  BY DEF FlowInv, ItemsInOrder
<1>4. flow.sequential /\ ~flow.goesOn /\ flow.status = "running" => FailedLast(flow.items)
  BY DEF FlowInv, FailureStops
<1>5. FlowVerdict'
  BY DEF FlowInv, FlowVerdict, With
<1> QED BY <1>1, <1>2, <1>3, <1>4, <1>5, SaveKeeps

\* Between reconciliation and dispatch a supervisor can only die, the flow apart.
LEMMA TickWaits ==
  ASSUME JInv, Step, NEW s \in Supervisors, supervisor[s].pc = "reconcile",
         supervisor[s].stale = {}
  PROVE  supervisor'[s] = supervisor[s] \/ supervisor'[s].pc = "off"
<1>a. supervisor \in [Supervisors -> SupervisorRecord]
  BY DEF JInv, TypeOK
<1>1. ASSUME NEW r \in Supervisors, SupervisorStep(r)
      PROVE  supervisor'[s] = supervisor[s] \/ supervisor'[s].pc = "off"
  <2>1. CASE r = s
    <3>1. SupervisorCrashes(s)
      BY <1>1, <2>1, Zenon DEF SupervisorStep, StartSupervisor, AcquireLease, Reconcile, PickJob,
         EndTick, Dispatch, SpawnWorker, SpawnFails
    <3> QED BY <3>1, <1>a DEF SupervisorCrashes, Off
  <2>2. CASE r # s
    <3>1. \E x : supervisor' = [supervisor EXCEPT ![r] = x]
      BY <1>1, Zenon DEF SupervisorStep, StartSupervisor, AcquireLease, Reconcile, PickJob,
         EndTick, Dispatch, SpawnWorker, SpawnFails, SupervisorCrashes
    <3> QED BY <3>1, <2>2, <1>a
  <2> QED BY <2>1, <2>2
<1>2. ASSUME ~(\E r \in Supervisors : SupervisorStep(r)) PROVE supervisor' = supervisor
  BY <1>2, ZenonT(30) DEF Step, JobStep, KillReads, Silence, RetryDue, TimeoutPasses, KillWrites,
     CommandStep, CommandStops, CommandExits, WorkerStep, Claim, SaveRun, Launch, LaunchFails,
     PersistExecutionRef, HeartbeatCancels, Heartbeat, HeartbeatFinds, TimerFires, ChildCloses,
     FinalizeReads, FinalizeWrites, WorkerCrashes, LeaseExpires
<1> QED BY <1>1, <1>2

LEMMA ElsewhereKeeps ==
  ASSUME FlowInv, Elsewhere
  PROVE  FlowInv'
<1>1. [Next]_vars /\ Step /\ flow' = flow
  BY DEF Elsewhere, Next
<1>2. draft' = [s \in Supervisors |-> IF supervisor'[s].pc = "off" THEN Unread ELSE draft[s]]
  BY DEF Elsewhere
<1>3. draft' \in [Supervisors -> DraftRecord]
      /\ \A s \in Supervisors : draft'[s] = draft[s] \/ draft'[s] = Unread
  BY <1>2, UnreadFine DEF FlowInv, FlowTyped
<1>4. DraftHeld'
  <2>1. ASSUME NEW s \in Supervisors, draft'[s].st # "unread"
        PROVE  /\ supervisor'[s].pc = "reconcile" /\ supervisor'[s].stale = {}
               /\ draft'[s].st = "open" => flow'.status = "running"
    <3>1. supervisor'[s].pc # "off" /\ draft'[s] = draft[s]
      BY <1>2, <2>1, UnreadFine
    <3>2. supervisor[s].pc = "reconcile" /\ supervisor[s].stale = {}
      BY <2>1, <3>1 DEF FlowInv, DraftHeld
    <3>3. supervisor'[s] = supervisor[s]
      BY <1>1, <3>1, <3>2, TickWaits DEF FlowInv
    <3> QED BY <1>1, <2>1, <3>1, <3>2, <3>3 DEF FlowInv, DraftHeld
  <2> QED BY <2>1 DEF DraftHeld
<1> QED BY <1>1, <1>3, <1>4, StayKeeps, UnreadFine

LEMMA DispatchAfterFlowsKeeps ==
  ASSUME FlowInv, NEW s \in Supervisors, DispatchAfterFlows(s)
  PROVE  FlowInv'
<1>1. [Next]_vars /\ BeginDispatch(s) /\ flow' = flow /\ draft' = [draft EXCEPT ![s] = Unread]
  BY DEF DispatchAfterFlows, Next
<1>2. draft' \in [Supervisors -> DraftRecord] /\ draft'[s] = Unread
      /\ \A r \in Supervisors \ {s} : draft'[r] = draft[r]
  BY <1>1, UnreadFine DEF FlowInv, FlowTyped
<1>3. \A r \in Supervisors \ {s} : supervisor'[r] = supervisor[r]
  BY <1>1 DEF FlowInv, JInv, TypeOK, BeginDispatch
<1>4. DraftHeld'
  BY <1>1, <1>2, <1>3, UnreadFine DEF FlowInv, DraftHeld
<1> QED BY <1>1, <1>2, <1>4, StayKeeps, UnreadFine

LEMMA NothingToAdvanceKeeps ==
  ASSUME FlowInv, NEW s \in Supervisors, NothingToAdvance(s)
  PROVE  FlowInv'
<1> DEFINE d == [draft[s] EXCEPT !.st = "saved"]
<1>1. UNCHANGED vars /\ flow' = flow /\ draft' = [draft EXCEPT ![s] = d] /\ CanAdvance(s)
  BY DEF NothingToAdvance
<1>2. d \in DraftRecord /\ d.st = "saved" /\ d.items = draft[s].items
      /\ d.queue = draft[s].queue
  BY DEF FlowInv, FlowTyped, DraftRecord
<1>3. draft' \in [Supervisors -> DraftRecord] /\ draft'[s] = d
      /\ \A r \in Supervisors \ {s} : draft'[r] = draft[r]
  BY <1>1, <1>2 DEF FlowInv, FlowTyped
<1> HIDE DEF d
<1>4. DraftHeld'
  BY <1>1, <1>2, <1>3 DEF FlowInv, DraftHeld, CanAdvance, vars
<1>5. [Next]_vars
  BY <1>1
<1> QED BY <1>1, <1>2, <1>3, <1>4, <1>5, StayKeeps

\* What a supervisor finds when it follows the runs of the items.
LEMMA FollowedFine ==
  ASSUME FlowInv, NEW items, items = Followed(flow.items)
  PROVE  /\ items \in [Items -> ItemRecord]
         /\ \A i \in Items : ItemFollows(items[i])
         /\ flow.sequential => InOrder(items)
         /\ flow.sequential /\ ~flow.goesOn /\ flow.status = "running" => FailedLast(items)
<1>1. flow.items \in [Items -> ItemRecord] /\ TypeOK /\ None \notin Jobs
  BY JobsAssumption DEF FlowInv, FlowTyped, FlowRecord, JInv
<1>2. \A i \in Items : ItemFollows(flow.items[i])
  BY DEF FlowInv, ItemsFollow
<1>3. flow.sequential => InOrder(flow.items)
  BY DEF FlowInv, ItemsInOrder
<1>4. flow.sequential /\ ~flow.goesOn /\ flow.status = "running" => FailedLast(flow.items)
  BY DEF FlowInv, FailureStops
<1> QED BY <1>1, <1>2, <1>3, <1>4, FollowedItems, FollowedOrder

\* Skipping what is pending: all items in front of a failure have ended, and
\* none behind it was started.
LEMMA SkippedFine ==
  ASSUME NEW items \in [Items -> ItemRecord], \A i \in Items : ItemFollows(items[i]),
         None \notin Jobs
  PROVE  /\ Skipped(items) \in [Items -> ItemRecord]
         /\ \A i \in Items :
              /\ ItemFollows(Skipped(items)[i])
              /\ Skipped(items)[i].status # "pending"
              /\ items[i].status # "pending" => Skipped(items)[i] = items[i]
         /\ InOrder(items) /\ FailedLast(items) /\ With(items, {"failed"}) # {} =>
              InOrder(Skipped(items))
<1>1. ASSUME NEW i \in Items
      PROVE  /\ Skipped(items)[i] \in ItemRecord
             /\ ItemFollows(Skipped(items)[i])
             /\ Skipped(items)[i].status # "pending"
             /\ items[i].status # "pending" => Skipped(items)[i] = items[i]
             /\ items[i].status = "pending" => Skipped(items)[i].status = "skipped"
  <2>1. CASE items[i].status = "pending"
    <3> DEFINE r == [items[i] EXCEPT !.status = "skipped"]
    <3>1. Skipped(items)[i] = r
      BY <2>1 DEF Skipped
    <3>2. r \in ItemRecord /\ r.status = "skipped" /\ r.job = None
      BY <2>1 DEF ItemRecord, ItemEnded, ItemActive, ItemFollows
    <3> HIDE DEF r
    <3> QED BY <2>1, <3>1, <3>2 DEF ItemFollows, ItemActive
  <2>2. CASE items[i].status # "pending"
    BY <2>2 DEF Skipped
  <2> QED BY <2>1, <2>2
<1>2. Skipped(items) \in [Items -> ItemRecord]
  <2>1. Skipped(items) = [i \in Items |-> Skipped(items)[i]]
    BY DEF Skipped
  <2> QED BY <2>1, <1>1
<1>3. ASSUME InOrder(items), FailedLast(items), NEW m \in Items, items[m].status = "failed",
             NEW i \in Items
      PROVE  Skipped(items)[i].status \in ItemEnded
  <2>1. CASE items[i].status = "pending"
    BY <2>1, <1>1 DEF ItemEnded
  <2>2. CASE items[i].status # "pending"
    <3>1. i < m \/ i = m \/ m < i
      BY DEF Items
    <3>2. ~(m < i)
      BY <1>3, <2>2 DEF FailedLast
    <3>3. i = m => items[i].status \in ItemEnded
      BY <1>3 DEF ItemEnded
    <3>4. i < m => items[i].status \in ItemEnded
      BY <1>3 DEF InOrder
    <3> QED BY <3>1, <3>2, <3>3, <3>4, <2>2, <1>1
  <2> QED BY <2>1, <2>2
<1> QED BY <1>1, <1>2, <1>3 DEF InOrder, With

\* A step that opens a copy with these items and this queue.
LEMMA OpenKeeps ==
  ASSUME FlowInv, UNCHANGED vars, flow' = flow, flow.status = "running",
         NEW s \in Supervisors, CanAdvance(s),
         NEW open \in DraftRecord, draft' = [draft EXCEPT ![s] = open],
         NEW items \in [Items -> ItemRecord], open.items = items,
         \A i \in Items : ItemFollows(items[i]),
         flow.sequential => InOrder(items),
         flow.sequential /\ ~flow.goesOn => FailedLast(items),
         \A i \in open.queue :
           /\ items[i].status = "pending"
           /\ flow.sequential => \A k \in Items : k < i => items[k].status \in ItemEnded
           /\ ~flow.goesOn => \A k \in Items : items[k].status # "failed"
  PROVE  FlowInv'
<1>1. draft' \in [Supervisors -> DraftRecord] /\ draft'[s] = open
      /\ \A r \in Supervisors \ {s} : draft'[r] = draft[r]
  BY DEF FlowInv, FlowTyped
<1>2. JInv' /\ FlowTyped'
  BY <1>1, JInvStep DEF FlowInv, FlowTyped
<1>3. DraftHeld'
  BY <1>1 DEF FlowInv, DraftHeld, CanAdvance, vars
<1>4. ItemsFollow'
  <2>1. ASSUME NEW x, ItemFollows(x) PROVE ItemFollows(x)'
    BY <2>1 DEF ItemFollows, LeftAlone, StatusOfRun, vars
  <2>2. ASSUME NEW i \in Items PROVE ItemFollows(flow.items[i])'
    <3>1. PICK x : x = flow.items[i]
      OBVIOUS
    <3>2. ItemFollows(x)'
      BY <3>1, <2>1 DEF FlowInv, ItemsFollow
    <3> QED BY <3>1, <3>2 DEF ItemFollows
  <2>3. ASSUME NEW r \in Supervisors, NEW i \in Items PROVE ItemFollows(draft[r].items[i])'
    <3>1. PICK x : x = draft'[r].items[i]
      OBVIOUS
    <3>2. ItemFollows(x)
      BY <1>1, <3>1 DEF FlowInv, ItemsFollow
    <3>3. ItemFollows(x)'
      BY <3>2, <2>1
    <3> QED BY <3>1, <3>3 DEF ItemFollows
  <2> QED BY <2>2, <2>3 DEF ItemsFollow
<1>5. ItemsInOrder'
  BY <1>1 DEF FlowInv, ItemsInOrder, InOrder
<1>6. FailureStops'
  BY <1>1 DEF FlowInv, FailureStops, FailedLast
<1>7. QueuedNext'
  BY <1>1 DEF FlowInv, QueuedNext
<1>8. FlowVerdict'
  BY DEF FlowInv, FlowVerdict, With
<1> QED BY <1>2, <1>3, <1>4, <1>5, <1>6, <1>7, <1>8 DEF FlowInv

LEMMA AdvanceKeeps ==
  ASSUME FlowInv, NEW s \in Supervisors, Advance(s)
  PROVE  FlowInv'
<1> DEFINE items == Followed(flow.items)
           failed == With(items, {"failed"}) # {}
           pending == With(items, {"pending"})
           active == With(items, ItemActive)
           d == [draft[s] EXCEPT !.st = "saved"]
           saves(status, saved) ==
             /\ flow' = [flow EXCEPT !.status = status, !.items = saved]
             /\ draft' = [draft EXCEPT ![s] = d]
           open == [st |-> "open", items |-> items,
                    queue |-> IF flow.sequential THEN First(pending) ELSE pending]
<1>a. [Next]_vars /\ UNCHANGED vars /\ CanAdvance(s) /\ flow.status = "running"
  BY DEF Advance
<1>b. \/ failed /\ ~flow.goesOn /\ saves("failed", Skipped(items))
      \/ ~failed /\ pending \cup active = {} /\ saves("completed", items)
      \/ failed /\ pending \cup active = {} /\ saves("failed", items)
      \/ saves("running", items)
      \/ /\ ~(failed /\ ~flow.goesOn) /\ (active # {} => ~flow.sequential)
         /\ flow' = flow /\ draft' = [draft EXCEPT ![s] = open]
  BY DEF Advance
<1>c. items = Followed(flow.items)
  OBVIOUS
<1> HIDE DEF items
<1>d. /\ items \in [Items -> ItemRecord] /\ \A i \in Items : ItemFollows(items[i])
      /\ flow.sequential => InOrder(items)
      /\ flow.sequential /\ ~flow.goesOn => FailedLast(items)
  BY <1>a, <1>c, FollowedFine
<1>e. draft[s] \in DraftRecord /\ flow \in FlowRecord
      /\ draft \in [Supervisors -> DraftRecord] /\ None \notin Jobs
  BY JobsAssumption DEF FlowInv, FlowTyped
<1>1. ASSUME NEW status \in {"running", "completed", "failed"},
             NEW saved \in [Items -> ItemRecord], saves(status, saved),
             \A i \in Items : ItemFollows(saved[i]),
             flow.sequential => InOrder(saved),
             flow.sequential /\ ~flow.goesOn /\ status = "running" => FailedLast(saved),
             status = "completed" => With(saved, ItemEnded \ {"failed"}) = Items,
             status = "failed" =>
               With(saved, {"failed"}) # {} /\ With(saved, {"pending"}) = {}
      PROVE  FlowInv'
  <2>1. flow' \in FlowRecord /\ flow'.sequential = flow.sequential
        /\ flow'.goesOn = flow.goesOn /\ flow'.items = saved /\ flow'.status = status
    BY <1>1, <1>e DEF FlowRecord
  <2>2. d \in DraftRecord /\ d.st = "saved" /\ d.items = draft[s].items
        /\ d.queue = draft[s].queue
    BY <1>e DEF DraftRecord
  <2> HIDE DEF d
  <2>3. draft' \in [Supervisors -> DraftRecord] /\ draft'[s] = d
        /\ \A r \in Supervisors \ {s} : draft'[r] = draft[r]
    BY <1>1, <1>e, <2>2
  <2>4. \A r \in Supervisors \ {s} : draft[r].st = "unread"
    BY <1>a, OneDraft DEF CanAdvance
  <2>5. DraftHeld'
    BY <1>a, <2>2, <2>3, <2>4 DEF DraftHeld, CanAdvance, vars
  <2>6. FlowVerdict'
    BY <1>1, <2>1 DEF FlowVerdict, With
  <2> QED BY <1>1, <1>a, <2>1, <2>2, <2>3, <2>5, <2>6, SaveKeeps
<1> HIDE DEF saves, d
<1>2. CASE failed /\ ~flow.goesOn /\ saves("failed", Skipped(items))
  <2>1. /\ Skipped(items) \in [Items -> ItemRecord]
        /\ \A i \in Items : ItemFollows(Skipped(items)[i])
        /\ flow.sequential => InOrder(Skipped(items))
    BY <1>2, <1>d, <1>e, SkippedFine
  <2>2. With(Skipped(items), {"failed"}) # {} /\ With(Skipped(items), {"pending"}) = {}
    BY <1>2, <1>d, <1>e, SkippedFine DEF With
  <2> QED BY <1>2, <2>1, <2>2, <1>1
<1>3. ASSUME pending \cup active = {},
             \/ ~failed /\ saves("completed", items)
             \/ failed /\ saves("failed", items)
      PROVE  FlowInv'
  <2>1. \A i \in Items : items[i].status \in ItemEnded
    BY <1>3, <1>d DEF With, ItemRecord
  <2>2. ~failed => With(items, ItemEnded \ {"failed"}) = Items
    BY <2>1 DEF With
  <2>3. With(items, {"pending"}) = {}
    BY <1>3
  <2> QED BY <1>3, <2>2, <2>3, <1>d, <1>1
<1>4. CASE saves("running", items)
  BY <1>4, <1>d, <1>1
<1>5. CASE /\ ~(failed /\ ~flow.goesOn) /\ (active # {} => ~flow.sequential)
           /\ flow' = flow /\ draft' = [draft EXCEPT ![s] = open]
  <2>1. /\ open.queue \subseteq pending /\ open.st = "open" /\ open.items = items
        /\ flow.sequential => \A i \in open.queue, k \in pending : i <= k
    BY DEF First
  <2>2. /\ \A i \in Items : i \in pending <=> items[i].status = "pending"
        /\ \A i \in Items : i \in active <=> items[i].status \in ItemActive
        /\ pending \subseteq Items
    BY DEF With
  <2>3. ~flow.goesOn => \A k \in Items : items[k].status # "failed"
    BY <1>5 DEF With
  <2>4. flow.sequential => active = {}
    BY <1>5
  <2>5. open \in DraftRecord
    <3>1. open.queue \in SUBSET Items
      BY <2>1, <2>2
    <3> QED BY <3>1, <1>d DEF DraftRecord
  <2>6. flow' = flow /\ draft' = [draft EXCEPT ![s] = open]
    BY <1>5
  <2> HIDE DEF open, pending, active
  <2>7. ASSUME NEW i \in open.queue
        PROVE  /\ items[i].status = "pending"
               /\ flow.sequential => \A k \in Items : k < i => items[k].status \in ItemEnded
               /\ ~flow.goesOn => \A k \in Items : items[k].status # "failed"
    <3>1. items[i].status = "pending" /\ i \in Items
      BY <2>1, <2>2
    <3>2. ASSUME flow.sequential, NEW k \in Items, k < i PROVE items[k].status \in ItemEnded
      <4>1. k \notin pending
        BY <2>1, <3>1, <3>2 DEF Items
      <4>2. items[k].status \notin ItemActive /\ items[k].status # "pending"
        BY <2>2, <2>4, <3>2, <4>1
      <4> QED BY <4>2, <1>d DEF ItemRecord
    <3> QED BY <2>3, <3>1, <3>2
  <2> QED BY <1>a, <1>d, <2>1, <2>5, <2>6, <2>7, OpenKeeps
<1> HIDE DEF failed, pending, active, open
<1> QED BY <1>b, <1>2, <1>3, <1>4, <1>5

\* How an action leaves the copy it works on.
Settles(s, i, x, queue) ==
  /\ draft' \in [Supervisors -> DraftRecord]
  /\ \A v \in Supervisors \ {s} : draft'[v] = draft[v]
  /\ draft'[s].st = draft[s].st /\ draft'[s].queue = queue /\ draft'[s].items[i] = x
  /\ \A k \in Items \ {i} : draft'[s].items[k] = draft[s].items[k]

LEMMA CopySettled ==
  ASSUME draft \in [Supervisors -> DraftRecord], NEW s \in Supervisors, NEW i \in Items,
         NEW x \in ItemRecord, NEW queue \in SUBSET Items,
         draft' = [draft EXCEPT ![s].queue = queue, ![s].items[i] = x]
  PROVE  Settles(s, i, x, queue)
<1> DEFINE items == [draft[s].items EXCEPT ![i] = x]
           r == [draft[s] EXCEPT !.queue = queue, !.items = items]
<1>1. items \in [Items -> ItemRecord] /\ items[i] = x
      /\ \A k \in Items \ {i} : items[k] = draft[s].items[k]
  BY DEF DraftRecord
<1>2. draft' = [draft EXCEPT ![s] = r]
  OBVIOUS
<1> HIDE DEF items
<1>3. r \in DraftRecord /\ r.st = draft[s].st /\ r.queue = queue /\ r.items = items
  BY <1>1 DEF DraftRecord
<1> HIDE DEF r
<1> QED BY <1>1, <1>2, <1>3 DEF Settles

\* A step that settles one item of a copy's queue: it was the next one.
LEMMA SettleKeeps ==
  ASSUME FlowInv, [Next]_vars, flow' = flow, supervisor' = supervisor,
         NEW s \in Supervisors, NEW i \in draft[s].queue, NEW x \in ItemRecord,
         NEW queue, queue \subseteq draft[s].queue \ {i},
         Settles(s, i, x, queue),
         x.status # "pending", ItemFollows(x)',
         x.status = "failed" /\ ~flow.goesOn => queue = {}
  PROVE  FlowInv'
<1> DEFINE items == draft[s].items
           r == draft'[s]
<1>1. draft[s] \in DraftRecord /\ draft \in [Supervisors -> DraftRecord] /\ i \in Items
      /\ items \in [Items -> ItemRecord] /\ draft[s].queue \subseteq Items
  BY DEF FlowInv, FlowTyped, DraftRecord
<1>3. r.st = draft[s].st /\ r.queue = queue /\ r.items[i] = x
      /\ \A k \in Items \ {i} : r.items[k] = items[k]
  BY DEF Settles
<1>5. draft' \in [Supervisors -> DraftRecord] /\ draft'[s] = r
      /\ \A v \in Supervisors \ {s} : draft'[v] = draft[v]
  BY DEF Settles
<1> HIDE DEF r
<1>6. /\ \A m \in draft[s].queue : items[m].status = "pending"
      /\ flow.sequential =>
           \A m \in draft[s].queue, k \in Items : k < m => items[k].status \in ItemEnded
      /\ ~flow.goesOn => \A k \in Items : items[k].status # "failed"
  BY DEF FlowInv, QueuedNext
<1>7. "pending" \notin ItemEnded
  BY DEF ItemEnded
<1>8. flow.sequential => \A k \in Items : i < k => items[k].status = "pending"
  BY <1>1, <1>6, <1>7 DEF FlowInv, ItemsInOrder, InOrder
<1>9. flow.sequential => queue = {}
  <2>1. ASSUME flow.sequential, NEW m \in queue PROVE FALSE
    <3>1. m < i \/ i < m
      BY <1>1 DEF Items
    <3>2. CASE m < i
      BY <2>1, <3>2, <1>1, <1>6, <1>7
    <3>3. CASE i < m
      BY <2>1, <3>3, <1>1, <1>6, <1>7
    <3> QED BY <3>1, <3>2, <3>3
  <2> QED BY <2>1
<1> HIDE DEF items
<1>10. JInv' /\ FlowTyped'
  BY <1>5, JInvStep DEF FlowInv, FlowTyped
<1>11. DraftHeld'
  BY <1>3, <1>5 DEF FlowInv, DraftHeld
<1>12. ItemsFollow'
  <2>1. ASSUME NEW k \in Items PROVE ItemFollows(flow.items[k])'
    <3>1. PICK y \in ItemRecord : y = flow.items[k]
      BY DEF FlowInv, FlowTyped, FlowRecord
    <3>2. ItemFollows(y)'
      BY <3>1, ItemKept DEF FlowInv, ItemsFollow
    <3> QED BY <3>1, <3>2 DEF ItemFollows
  <2>2. ASSUME NEW v \in Supervisors, NEW k \in Items PROVE ItemFollows(draft[v].items[k])'
    <3>1. PICK y \in ItemRecord : y = draft'[v].items[k]
      BY <1>5 DEF DraftRecord
    <3>2. y = x \/ y = draft[v].items[k]
      BY <3>1, <1>3, <1>5 DEF items
    <3>3. ItemFollows(y)'
      <4>1. CASE y = x
        BY <4>1
      <4>2. CASE y = draft[v].items[k]
        BY <4>2, ItemKept DEF FlowInv, ItemsFollow
      <4> QED BY <3>2, <4>1, <4>2
    <3> QED BY <3>1, <3>3 DEF ItemFollows
  <2> QED BY <2>1, <2>2 DEF ItemsFollow
<1>13. ItemsInOrder'
  <2>1. ASSUME flow.sequential PROVE InOrder(r.items)
    <3>1. InOrder(items)
      BY <2>1 DEF FlowInv, ItemsInOrder, items
    <3>2. ASSUME NEW k \in Items, NEW m \in Items, k < m, r.items[m].status # "pending"
          PROVE  r.items[k].status \in ItemEnded
      <4>1. k # i
        BY <1>3, <1>8, <2>1, <3>2 DEF Items
      <4>2. items[k].status \in ItemEnded
        BY <1>3, <1>6, <2>1, <3>1, <3>2 DEF InOrder
      <4> QED BY <1>3, <4>1, <4>2
    <3> QED BY <3>2 DEF InOrder
  <2> QED BY <2>1, <1>5 DEF FlowInv, ItemsInOrder, InOrder
<1>14. FailureStops'
  <2>1. ASSUME flow.sequential, ~flow.goesOn PROVE FailedLast(r.items)
    <3>1. ASSUME NEW k \in Items, NEW m \in Items, k < m, r.items[k].status = "failed"
          PROVE  r.items[m].status = "pending"
      <4>1. k = i
        BY <1>3, <1>6, <2>1, <3>1
      <4> QED BY <4>1, <3>1, <2>1, <1>3, <1>8 DEF Items
    <3> QED BY <3>1 DEF FailedLast
  <2>2. ASSUME flow.sequential, ~flow.goesOn, NEW v \in Supervisors
        PROVE  FailedLast(draft'[v].items)
    <3>1. v # s => FailedLast(draft'[v].items)
      BY <2>2, <1>5 DEF FlowInv, FailureStops
    <3> QED BY <2>1, <2>2, <3>1, <1>5
  <2> QED BY <2>2 DEF FlowInv, FailureStops, FailedLast
<1>15. QueuedNext'
  <2>1. ASSUME NEW m \in queue
        PROVE  /\ r.items[m].status = "pending" /\ ~flow.sequential
               /\ ~flow.goesOn => \A k \in Items : r.items[k].status # "failed"
    BY <1>1, <1>3, <1>6, <1>9 DEF items
  <2> QED BY <2>1, <1>3, <1>5 DEF FlowInv, QueuedNext
<1>16. FlowVerdict'
  BY DEF FlowInv, FlowVerdict, With
<1> QED BY <1>10, <1>11, <1>12, <1>13, <1>14, <1>15, <1>16 DEF FlowInv

LEMMA DraftParts ==
  ASSUME FlowInv, NEW s \in Supervisors
  PROVE  /\ draft[s] \in DraftRecord
         /\ First(draft[s].queue) \subseteq draft[s].queue /\ draft[s].queue \subseteq Items
         /\ draft[s] = [st |-> draft[s].st, queue |-> draft[s].queue, items |-> draft[s].items]
BY DEF FlowInv, FlowTyped, DraftRecord, First

LEMMA QueueItemKeeps ==
  ASSUME FlowInv, NEW s \in Supervisors, QueueItem(s)
  PROVE  FlowInv'
<1>1. PICK i \in First(draft[s].queue), j \in NextJob :
        /\ Enqueue(j)
        /\ draft' = [draft EXCEPT ![s].queue = @ \ {i},
                                  ![s].items[i] = [status |-> "queued", job |-> j]]
  BY DEF QueueItem
<1>2. j \in Jobs /\ i \in draft[s].queue /\ draft[s] \in DraftRecord /\ i \in Items
      /\ draft \in [Supervisors -> DraftRecord] /\ TypeOK
  BY DraftParts DEF NextJob, First, FlowInv, FlowTyped, JInv
<1>3. [Next]_vars /\ flow' = flow /\ supervisor' = supervisor
  BY <1>1, <1>2 DEF QueueItem, Enqueue, Next
<1> DEFINE x == [status |-> "queued", job |-> j]
           queue == draft[s].queue \ {i}
<1>4. x \in ItemRecord /\ x.status = "queued" /\ x.job = j
  BY <1>2 DEF ItemRecord, ItemActive
<1>5. queue \in SUBSET Items
  BY <1>2 DEF DraftRecord
<1>6. draft' = [draft EXCEPT ![s].queue = queue, ![s].items[i] = x]
  BY <1>1
<1>7. queue \subseteq draft[s].queue \ {i}
  OBVIOUS
<1>8. run'[j] = "queued" /\ j # None
  BY <1>1, <1>2, JobsAssumption DEF Enqueue, TypeOK
<1> HIDE DEF x, queue
<1>9. ItemFollows(x)'
  BY <1>4, <1>8 DEF ItemFollows, ItemEnded
<1>10. Settles(s, i, x, queue)
  BY <1>2, <1>4, <1>5, <1>6, CopySettled
<1> QED BY <1>2, <1>3, <1>4, <1>7, <1>9, <1>10, SettleKeeps

LEMMA SkipItemKeeps ==
  ASSUME FlowInv, NEW s \in Supervisors, SkipItem(s)
  PROVE  FlowInv'
<1>1. PICK i \in First(draft[s].queue) :
        draft' = [draft EXCEPT ![s].queue = @ \ {i}, ![s].items[i].status = "skipped"]
  BY DEF SkipItem
<1>2. i \in draft[s].queue /\ draft[s] \in DraftRecord /\ i \in Items
      /\ draft \in [Supervisors -> DraftRecord] /\ draft[s].items[i] \in ItemRecord
      /\ draft[s].items[i].job = None
  BY <1>1, DraftParts DEF DraftRecord, FlowInv, FlowTyped, QueuedNext, ItemsFollow, ItemFollows
<1>3. [Next]_vars /\ flow' = flow /\ supervisor' = supervisor
  BY DEF SkipItem, vars
<1>4. PICK x : x = [draft[s].items[i] EXCEPT !.status = "skipped"]
  OBVIOUS
<1> DEFINE queue == draft[s].queue \ {i}
<1>5. draft' = [draft EXCEPT ![s].queue = queue, ![s].items[i] = x]
  BY <1>1, <1>4
<1>6. queue \in SUBSET Items
  BY <1>2 DEF DraftRecord
<1>7. x \in ItemRecord /\ x.status = "skipped" /\ x.job = None
  BY <1>2, <1>4 DEF ItemRecord, ItemEnded
<1>8. queue \subseteq draft[s].queue \ {i} /\ (x.status = "failed" /\ ~flow.goesOn => queue = {})
  BY <1>7
<1> HIDE DEF queue
<1>9. ItemFollows(x)'
  BY <1>7 DEF ItemFollows, ItemActive
<1>10. Settles(s, i, x, queue)
  BY <1>2, <1>5, <1>6, <1>7, CopySettled
<1> QED BY <1>2, <1>3, <1>7, <1>8, <1>9, <1>10, SettleKeeps

LEMMA QueueFailsKeeps ==
  ASSUME FlowInv, NEW s \in Supervisors, QueueFails(s)
  PROVE  FlowInv'
<1>1. PICK i \in First(draft[s].queue) :
        draft' = [draft EXCEPT ![s].queue = IF flow.goesOn THEN @ \ {i} ELSE {},
                               ![s].items[i].status = "failed"]
  BY DEF QueueFails
<1>2. i \in draft[s].queue /\ draft[s] \in DraftRecord /\ i \in Items
      /\ draft \in [Supervisors -> DraftRecord] /\ draft[s].items[i] \in ItemRecord
      /\ draft[s].items[i].job = None
  BY <1>1, DraftParts DEF DraftRecord, FlowInv, FlowTyped, QueuedNext, ItemsFollow, ItemFollows
<1>3. [Next]_vars /\ flow' = flow /\ supervisor' = supervisor
  BY DEF QueueFails, vars
<1>4. PICK x : x = [draft[s].items[i] EXCEPT !.status = "failed"]
  OBVIOUS
<1> DEFINE queue == IF flow.goesOn THEN draft[s].queue \ {i} ELSE {}
<1>5. draft' = [draft EXCEPT ![s].queue = queue, ![s].items[i] = x]
  BY <1>1, <1>4
<1>6. queue \in SUBSET Items
  BY <1>2 DEF DraftRecord
<1>7. x \in ItemRecord /\ x.status = "failed" /\ x.job = None
  BY <1>2, <1>4 DEF ItemRecord, ItemEnded
<1>8. queue \subseteq draft[s].queue \ {i} /\ (x.status = "failed" /\ ~flow.goesOn => queue = {})
  BY <1>7
<1> HIDE DEF queue
<1>9. ItemFollows(x)'
  BY <1>7 DEF ItemFollows, ItemActive
<1>10. Settles(s, i, x, queue)
  BY <1>2, <1>5, <1>6, <1>7, CopySettled
<1> QED BY <1>2, <1>3, <1>7, <1>8, <1>9, <1>10, SettleKeeps

LEMMA SaveFlowKeeps ==
  ASSUME FlowInv, NEW s \in Supervisors, SaveFlow(s)
  PROVE  FlowInv'
<1>1. /\ draft[s].st = "open" /\ flow' = [flow EXCEPT !.items = draft[s].items]
      /\ draft' = [draft EXCEPT ![s] = [Unread EXCEPT !.st = "saved"]]
      /\ UNCHANGED vars /\ [Next]_vars
  BY DEF SaveFlow
<1> DEFINE items == draft[s].items
<1>2. items \in [Items -> ItemRecord] /\ flow \in FlowRecord
      /\ draft \in [Supervisors -> DraftRecord]
  BY DEF FlowInv, FlowTyped, DraftRecord
<1>3. /\ flow.status = "running" /\ \A i \in Items : ItemFollows(items[i])
      /\ flow.sequential => InOrder(items)
      /\ flow.sequential /\ ~flow.goesOn => FailedLast(items)
  BY <1>1 DEF FlowInv, DraftHeld, ItemsFollow, ItemsInOrder, FailureStops
<1>4. flow' \in FlowRecord /\ flow'.items = items /\ flow'.sequential = flow.sequential
      /\ flow'.goesOn = flow.goesOn /\ flow'.status = "running"
  BY <1>1, <1>2, <1>3 DEF FlowRecord
<1>5. draft' \in [Supervisors -> DraftRecord] /\ draft'[s] = [Unread EXCEPT !.st = "saved"]
      /\ \A r \in Supervisors \ {s} : draft'[r] = draft[r]
  BY <1>1, <1>2, UnreadFine
<1>6. DraftHeld'
  BY <1>1, <1>4, <1>5, UnreadFine DEF FlowInv, DraftHeld, vars
<1>7. FlowVerdict'
  BY <1>4 DEF FlowVerdict
<1> HIDE DEF items
<1> QED BY <1>1, <1>2, <1>3, <1>4, <1>5, <1>6, <1>7, SaveKeeps, UnreadFine

-----------------------------------------------------------------------------
(* Every behaviour of a flow over the queue.                                *)

LEMMA FlowInvInit == FlowInit => FlowInv
<1> SUFFICES ASSUME FlowInit PROVE FlowInv
  OBVIOUS
<1>1. JInv
  BY JInvInit DEF FlowInit
<1>2. /\ flow \in FlowRecord /\ flow.status = "running"
      /\ \A i \in Items : flow.items[i] = [status |-> "pending", job |-> None]
  BY DEF FlowInit, FlowRecord, Pending, ItemRecord
<1>3. /\ draft \in [Supervisors -> DraftRecord]
      /\ \A s \in Supervisors :
           /\ draft[s].st = "unread" /\ draft[s].queue = {}
           /\ \A i \in Items : draft[s].items[i] = [status |-> "pending", job |-> None]
  BY UnreadFine DEF FlowInit
<1>4. FlowTyped
  BY <1>2, <1>3 DEF FlowTyped
<1>5. DraftHeld /\ QueuedNext
  BY <1>3 DEF DraftHeld, QueuedNext
<1>6. ItemsFollow
  BY <1>2, <1>3, PendingFollows DEF ItemsFollow
<1>7. ItemsInOrder
  BY <1>2, <1>3 DEF ItemsInOrder, InOrder
<1>8. FailureStops
  BY <1>2, <1>3 DEF FailureStops, FailedLast
<1>9. FlowVerdict
  BY <1>2 DEF FlowVerdict
<1> QED BY <1>1, <1>4, <1>5, <1>6, <1>7, <1>8, <1>9 DEF FlowInv

LEMMA FlowInvStep ==
  ASSUME FlowInv, [FlowNext]_flowVars
  PROVE  FlowInv'
<1>1. ASSUME NEW s \in Supervisors,
             \/ Advance(s) \/ NothingToAdvance(s)
             \/ QueueItem(s) \/ SkipItem(s) \/ QueueFails(s) \/ SaveFlow(s)
             \/ DispatchAfterFlows(s)
      PROVE  FlowInv'
  BY <1>1, AdvanceKeeps, NothingToAdvanceKeeps, QueueItemKeeps, SkipItemKeeps,
     QueueFailsKeeps, SaveFlowKeeps, DispatchAfterFlowsKeeps
<1>2. ASSUME UNCHANGED flowVars PROVE FlowInv'
  <2>1. [Next]_vars /\ flow' = flow /\ draft' = draft /\ supervisor' = supervisor
    BY <1>2 DEF flowVars, vars
  <2>2. DraftHeld'
    BY <2>1 DEF FlowInv, DraftHeld
  <2> QED BY <2>1, <2>2, StayKeeps DEF FlowInv, FlowTyped
<1> QED BY <1>1, <1>2, ElsewhereKeeps DEF FlowNext

\* The inductive invariant of flow and queue.
THEOREM FlowInvariant == FlowSpec => []FlowInv
<1> QED BY FlowInvInit, FlowInvStep, PTL DEF FlowSpec

\* A flow uses the queue as any request does: what AIRunnerJobs promises of its
\* jobs holds of the jobs of a flow, and every theorem on Spec is one on
\* FlowSpec.
THEOREM FlowUsesQueue == FlowSpec => Spec
<1>1. FlowInit => Init
  BY DEF FlowInit
<1>2. [FlowNext]_flowVars => [Next]_vars
  <2>1. ASSUME NEW s \in Supervisors, QueueItem(s) PROVE Next
    BY <2>1 DEF QueueItem, NextJob, First, Next
  <2>2. ASSUME NEW s \in Supervisors, DispatchAfterFlows(s) PROVE Next
    BY <2>2 DEF DispatchAfterFlows, Next
  <2>3. ASSUME NEW s \in Supervisors,
               \/ Advance(s) \/ NothingToAdvance(s) \/ SkipItem(s) \/ QueueFails(s)
               \/ SaveFlow(s)
        PROVE  UNCHANGED vars
    BY <2>3, Zenon DEF Advance, NothingToAdvance, SkipItem, QueueFails, SaveFlow, vars
  <2>4. Elsewhere => Next
    BY DEF Elsewhere, Next
  <2>5. UNCHANGED flowVars => UNCHANGED vars
    BY DEF flowVars
  <2> QED BY <2>1, <2>2, <2>3, <2>4, <2>5 DEF FlowNext
<1> QED BY <1>1, <1>2, PTL DEF FlowSpec, Spec

\* Every state of the module is well typed.
THEOREM FlowIsTyped == FlowSpec => []FlowTypeOK
<1>1. FlowInv => FlowTypeOK
  BY DEF FlowInv, JInv, FlowTyped, FlowTypeOK, FlowRecord, DraftRecord
<1> QED BY <1>1, FlowInvariant, PTL

\* A sequential flow starts a step only when the runs of the steps before it
\* are over for good, whichever supervisor of whichever tick starts it.
THEOREM StepsStartInOrder == FlowSpec => []StepsInOrder
<1>1. ASSUME FlowInv, flow.sequential, NEW i \in Items, NEW k \in Items,
             i < k, flow.items[k].status # "pending",
             flow.items[i].job # None, LeftAlone(flow.items[i].job)
      PROVE  run[flow.items[i].job] \in RunEnded
  <2>1. flow.items[i].status \in ItemEnded
    BY <1>1 DEF FlowInv, ItemsInOrder, InOrder
  <2>2. ItemFollows(flow.items[i])
    BY <1>1 DEF FlowInv, ItemsFollow
  <2> QED BY <1>1, <2>1, <2>2 DEF ItemFollows
<1>2. FlowInv => StepsInOrder
  BY <1>1 DEF StepsInOrder
<1> QED BY <1>2, FlowInvariant, PTL

\* A flow ends when its items have ended, with their verdict; an item ends as
\* its run did.
THEOREM VerdictIsTrue == FlowSpec => []VerdictOfItems
<1>1. ASSUME FlowInv, NEW i \in Items, flow.items[i].job # None,
             LeftAlone(flow.items[i].job), flow.items[i].status \in ItemEnded
      PROVE  flow.items[i].status = StatusOfRun(flow.items[i].job)
  BY <1>1 DEF FlowInv, ItemsFollow, ItemFollows
<1>2. FlowInv => VerdictOfItems
  BY <1>1 DEF VerdictOfItems, FlowInv, FlowVerdict
<1> QED BY <1>2, FlowInvariant, PTL
=============================================================================
