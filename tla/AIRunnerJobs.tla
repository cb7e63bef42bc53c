----------------------------- MODULE AIRunnerJobs -----------------------------
(***************************************************************************)
(* AI Runner jobs (src/lib/ai-runner): the supervisor that holds a lease   *)
(* and reconciles and dispatches jobs, the worker process of each attempt, *)
(* the detached command it launches, and killRun.  A job and its run are   *)
(* two documents; every pair of writes the code sends in one Promise.all   *)
(* is one step here.  Each other await is a point where anyone may move.   *)
(*                                                                         *)
(* Two assumptions on timing.  A heartbeat is late only when no worker of  *)
(* the job is left: it is sent twice in the time after which it is stale.  *)
(* A tick of the supervisor, which does not renew its lease, is shorter    *)
(* than the lease, so that two supervisors take turns.                     *)
(***************************************************************************)
EXTENDS Integers, FiniteSets

CONSTANTS
  Jobs, Workers, Supervisors,
  Blocking,       \* the jobs of the one workspace that blocks
  MaxAttempts,    \* maxAttempts of every job
  MaxConcurrent,  \* maxConcurrentRuns
  MaxCrashes,     \* bound: crashes of workers and supervisors
  MaxKills,       \* bound: calls of killRun
  None

ASSUME JobsAssumption ==
  /\ IsFiniteSet(Jobs) /\ Blocking \subseteq Jobs
  /\ None \notin Jobs \cup Supervisors /\ "dead" \notin Supervisors
ASSUME LimitsAssumption == {MaxAttempts, MaxConcurrent} \subseteq Nat \ {0}
ASSUME BoundsAssumption == {MaxCrashes, MaxKills} \subseteq Nat

VARIABLES
  job,         \* the AIRunnerJob of each request, as far as control reads it
  run,         \* status of its AIRunnerRun
  marker,      \* exit.json in the run's directory: one file for all attempts
  commands,    \* commands running on the host, and whether SIGTERM was sent
  worker,      \* worker processes
  supervisor,  \* supervisor processes
  lease,       \* owner of the supervisors' lease; None when free or expired
  kill,        \* a killRun between its read and its writes
  budget       \* crashes and kills left

vars == <<job, run, marker, commands, worker, supervisor, lease, kill, budget>>

Waiting == {"queued", "retrying"}
Active == {"dispatched", "running"}
JobEnded == {"completed", "failed", "canceled"}
RunEnded == {"completed", "failed", "timeout", "killed"}
Exits == {"ok", "bad"}

\* ref: the attempt whose command executionRef, childPid or executionUnit name.
\* paths: artifactDir and its files are known.  stale: the heartbeat is 20 s
\* old.  due: nextAttemptAt has come.  timedOut: startedAt plus the timeout has.
JobRecord ==
  [status : {"absent"} \cup Waiting \cup Active \cup JobEnded,
   attempts : Nat, ref : Nat, cancel : BOOLEAN, stale : BOOLEAN, due : BOOLEAN,
   timedOut : BOOLEAN, paths : BOOLEAN]

WorkerRecord ==
  [job : Jobs \cup {None}, attempt : Nat,
   pc : {"gone", "boot", "claimed", "launch", "spawned", "wait", "finalize", "retry", "end"},
   outcome : Exits \cup RunEnded, killedBy : {"nobody", "user", "timeout"}]

SupervisorRecord ==
  [pc : {"off", "loop", "reconcile", "dispatch", "picked", "spawn"},
   stale : SUBSET Jobs, seen : [Jobs -> JobRecord \cup {None}],
   active : Nat, pick : Jobs \cup {None}]

TypeOK ==
  /\ job \in [Jobs -> JobRecord]
  /\ run \in [Jobs -> {"absent", "queued", "running", "retrying"} \cup RunEnded]
  /\ marker \in [Jobs -> Exits \cup {None}]
  /\ commands \subseteq [job : Jobs, attempt : Nat, signalled : BOOLEAN]
  /\ worker \in [Workers -> WorkerRecord]
  /\ supervisor \in [Supervisors -> SupervisorRecord]
  /\ lease \in Supervisors \cup {None, "dead"}
  /\ kill \in [job : Jobs \cup {None}, waiting : BOOLEAN, ref : Nat]
  /\ budget \in [crashes : 0..MaxCrashes, kills : 0..MaxKills]

NoJob == [status |-> "absent", attempts |-> 0, ref |-> 0, cancel |-> FALSE,
          stale |-> FALSE, due |-> TRUE, timedOut |-> FALSE, paths |-> FALSE]
Gone == [job |-> None, attempt |-> 0, pc |-> "gone",
         outcome |-> "ok", killedBy |-> "nobody"]
Off == [pc |-> "off", stale |-> {}, seen |-> [j \in Jobs |-> None],
        active |-> 0, pick |-> None]
NoKill == [job |-> None, waiting |-> FALSE, ref |-> 0]

Init ==
  /\ job = [j \in Jobs |-> NoJob]
  /\ run = [j \in Jobs |-> "absent"]
  /\ marker = [j \in Jobs |-> None]
  /\ commands = {}
  /\ worker = [w \in Workers |-> Gone]
  /\ supervisor = [s \in Supervisors |-> Off]
  /\ lease = None
  /\ kill = NoKill
  /\ budget = [crashes |-> MaxCrashes, kills |-> MaxKills]

\* Mutant: one attempt too many.
CanRetryOnceMore(r) == r.attempts <= MaxAttempts

CanRetry(r) == r.attempts < MaxAttempts

\* The two documents, as the pairs of writes of worker and supervisor leave them.
Retry(j) ==
  /\ job' = [job EXCEPT ![j].status = "retrying", ![j].due = FALSE]
  /\ run' = [run EXCEPT ![j] = "retrying"]

\* Mutant: the job takes the status of the run.
SameStatus(outcome) == outcome

StatusFor(outcome) ==
  IF outcome = "completed" THEN "completed"
  ELSE IF outcome = "killed" THEN "canceled" ELSE "failed"

\* Mutant: the run is forgotten.
EndJob(j, outcome) ==
  /\ job' = [job EXCEPT ![j].status = StatusFor(outcome), ![j].stale = FALSE]
  /\ run' = run

End(j, outcome) ==
  /\ job' = [job EXCEPT ![j].status = StatusFor(outcome), ![j].stale = FALSE]
  /\ run' = [run EXCEPT ![j] = outcome]

Alive(j, n) == \E c \in commands : c.job = j /\ c.attempt = n

\* terminateAIRunnerExecution: SIGTERM to the process group or the unit.
Signalled(j, n) ==
  {IF c.job = j /\ c.attempt = n THEN [c EXCEPT !.signalled = TRUE] ELSE c : c \in commands}

-----------------------------------------------------------------------------
(* Requests: enqueueResolvedRun, and killRun.                              *)

Enqueue(j) ==
  /\ job[j].status = "absent"
  /\ job' = [job EXCEPT ![j].status = "queued"]
  /\ run' = [run EXCEPT ![j] = "queued"]
  /\ UNCHANGED <<marker, commands, worker, supervisor, lease, kill, budget>>

KillReads(j) ==
  /\ kill.job = None
  /\ budget.kills > 0
  /\ run[j] \notin RunEnded \cup {"absent"}
  /\ budget' = [budget EXCEPT !.kills = @ - 1]
  /\ kill' = [job |-> j, waiting |-> job[j].status \in Waiting, ref |-> job[j].ref]
  /\ UNCHANGED <<job, run, marker, commands, worker, supervisor, lease>>

KillWrites ==
  /\ kill.job # None
  /\ LET j == kill.job IN
       /\ IF kill.waiting
          THEN /\ job' = [job EXCEPT ![j].status = "canceled", ![j].cancel = TRUE]
               /\ run' = [run EXCEPT ![j] = "killed"]
          ELSE /\ job' = [job EXCEPT ![j].cancel = TRUE]
               /\ run' = run
       /\ commands' = Signalled(j, kill.ref)
  /\ kill' = NoKill
  /\ UNCHANGED <<marker, worker, supervisor, lease, budget>>

-----------------------------------------------------------------------------
(* The worker of one attempt.  Its launch ends before the first heartbeat  *)
(* is due; then heartbeats, the timeout and the close of the child race to *)
(* finalize, which runs once.                                              *)

Claim(w) ==
  LET j == worker[w].job IN
  /\ worker[w].pc = "boot"
  /\ IF job[j].status = "dispatched"
     THEN /\ job' = [job EXCEPT ![j].status = "running", ![j].attempts = @ + 1,
                                ![j].stale = FALSE, ![j].timedOut = FALSE]
          /\ worker' = [worker EXCEPT ![w].pc = "claimed",
                                      ![w].attempt = job[j].attempts + 1]
     ELSE /\ job' = job
          /\ worker' = [worker EXCEPT ![w] = Gone]
  /\ UNCHANGED <<run, marker, commands, supervisor, lease, kill, budget>>

SaveRun(w) ==
  /\ worker[w].pc = "claimed"
  /\ run' = [run EXCEPT ![worker[w].job] = "running"]
  /\ worker' = [worker EXCEPT ![w].pc = "launch"]
  /\ UNCHANGED <<job, marker, commands, supervisor, lease, kill, budget>>

Launch(w) ==
  /\ worker[w].pc = "launch"
  /\ commands' = commands \cup
       {[job |-> worker[w].job, attempt |-> worker[w].attempt, signalled |-> FALSE]}
  /\ worker' = [worker EXCEPT ![w].pc = "spawned"]
  /\ UNCHANGED <<job, run, marker, supervisor, lease, kill, budget>>

\* Mutant: the worker goes on waiting for a child.
LaunchFailsSilently(w) ==
  /\ worker[w].pc = "launch"
  /\ End(worker[w].job, "failed")
  /\ worker' = [worker EXCEPT ![w].pc = "wait"]
  /\ UNCHANGED <<marker, commands, supervisor, lease, kill, budget>>

\* The artifact directory, the worktree or the spawn failed: never retried.
LaunchFails(w) ==
  /\ worker[w].pc = "launch"
  /\ End(worker[w].job, "failed")
  /\ worker' = [worker EXCEPT ![w] = Gone]
  /\ UNCHANGED <<marker, commands, supervisor, lease, kill, budget>>

PersistExecutionRef(w) ==
  LET j == worker[w].job IN
  /\ worker[w].pc = "spawned"
  /\ job' = IF job[j].status = "running"
            THEN [job EXCEPT ![j].ref = worker[w].attempt, ![j].paths = TRUE] ELSE job
  /\ worker' = [worker EXCEPT ![w].pc = "wait"]
  /\ UNCHANGED <<run, marker, commands, supervisor, lease, kill, budget>>

\* flush(): the heartbeat, and where the command and its files are.
Flushed(w) ==
  [job EXCEPT ![worker[w].job] =
     [@ EXCEPT !.stale = FALSE, !.paths = TRUE, !.ref = worker[w].attempt]]

SeesCancel(w) == job[worker[w].job].cancel /\ worker[w].killedBy # "user"

HeartbeatCancels(w) ==
  /\ worker[w].pc = "wait"
  /\ SeesCancel(w)
  /\ worker' = [worker EXCEPT ![w].killedBy = "user"]
  /\ commands' = Signalled(worker[w].job, worker[w].attempt)
  /\ UNCHANGED <<job, run, marker, supervisor, lease, kill, budget>>

Heartbeat(w) ==
  /\ worker[w].pc = "wait"
  /\ ~SeesCancel(w)
  /\ marker[worker[w].job] = None
  /\ job' = Flushed(w)
  /\ UNCHANGED <<run, marker, commands, worker, supervisor, lease, kill, budget>>

HeartbeatFinds(w) ==
  /\ worker[w].pc = "wait"
  /\ ~SeesCancel(w)
  /\ marker[worker[w].job] # None
  /\ worker' = [worker EXCEPT ![w].pc = "finalize", ![w].outcome = marker[worker[w].job]]
  /\ UNCHANGED <<job, run, marker, commands, supervisor, lease, kill, budget>>

TimerFires(w) ==
  /\ worker[w].pc = "wait"
  /\ job[worker[w].job].timedOut
  /\ worker[w].killedBy # "timeout"
  /\ worker' = [worker EXCEPT ![w].killedBy = "timeout"]
  /\ commands' = Signalled(worker[w].job, worker[w].attempt)
  /\ UNCHANGED <<job, run, marker, supervisor, lease, kill, budget>>

ChildCloses(w) ==
  LET j == worker[w].job IN
  /\ worker[w].pc = "wait"
  /\ ~Alive(j, worker[w].attempt)
  /\ worker' = [worker EXCEPT ![w].pc = "finalize",
                  ![w].outcome = IF marker[j] = "ok" THEN "ok" ELSE "bad"]
  /\ UNCHANGED <<job, run, marker, commands, supervisor, lease, kill, budget>>

OutcomeOf(r) ==
  CASE r.killedBy = "timeout" -> "timeout"
    [] r.killedBy = "user" -> "killed"
    [] r.killedBy = "nobody" -> IF r.outcome = "ok" THEN "completed" ELSE "failed"

\* finalize up to its read of the job: the last flush, then retry or end.
FinalizeReads(w) ==
  LET j == worker[w].job
      outcome == OutcomeOf(worker[w])
      again == outcome \in {"failed", "timeout"} /\ CanRetry(job[j]) /\ ~job[j].cancel
  IN
  /\ worker[w].pc = "finalize"
  /\ job' = Flushed(w)
  /\ worker' = [worker EXCEPT ![w].pc = IF again THEN "retry" ELSE "end",
                              ![w].outcome = outcome]
  /\ UNCHANGED <<run, marker, commands, supervisor, lease, kill, budget>>

FinalizeWrites(w) ==
  LET j == worker[w].job IN
  /\ \/ worker[w].pc = "retry" /\ Retry(j)
     \/ worker[w].pc = "end" /\ End(j, worker[w].outcome)
  /\ worker' = [worker EXCEPT ![w] = Gone]
  /\ UNCHANGED <<marker, commands, supervisor, lease, kill, budget>>

WorkerCrashes(w) ==
  /\ worker[w].pc # "gone"
  /\ budget.crashes > 0
  /\ budget' = [budget EXCEPT !.crashes = @ - 1]
  /\ worker' = [worker EXCEPT ![w] = Gone]
  /\ UNCHANGED <<job, run, marker, commands, supervisor, lease, kill>>

-----------------------------------------------------------------------------
(* The command, in a wrapper that outlives the worker and writes exit.json *)
(* when the command exits; SIGTERM reaches the wrapper too, which then     *)
(* writes nothing.                                                         *)

CommandExits(j, n, exit) ==
  /\ Alive(j, n)
  /\ marker' = [marker EXCEPT ![j] = exit]
  /\ commands' = {c \in commands : <<c.job, c.attempt>> # <<j, n>>}
  /\ UNCHANGED <<job, run, worker, supervisor, lease, kill, budget>>

CommandStops(j, n) ==
  /\ [job |-> j, attempt |-> n, signalled |-> TRUE] \in commands
  /\ commands' = {c \in commands : <<c.job, c.attempt>> # <<j, n>>}
  /\ UNCHANGED <<job, run, marker, worker, supervisor, lease, kill, budget>>

-----------------------------------------------------------------------------
(* The supervisor: lease, reconcileStaleJobs, dispatchRunnableJobs.        *)

\* The watchdog or a request starts one; it stops when the lease is taken.
StartSupervisor(s) ==
  /\ supervisor[s].pc = "off"
  /\ supervisor' = [supervisor EXCEPT ![s].pc = "loop"]
  /\ UNCHANGED <<job, run, marker, commands, worker, lease, kill, budget>>

\* Mutant: every active job is reconciled, its heartbeat unread.
AllActive == {j \in Jobs : job[j].status \in Active}

Stale == {j \in Jobs : job[j].status \in Active /\ job[j].stale}

AcquireLease(s) ==
  /\ supervisor[s].pc = "loop"
  /\ IF lease \in {s, None}
     THEN /\ lease' = s
          /\ supervisor' = [supervisor EXCEPT ![s].pc = "reconcile", ![s].stale = Stale,
                 ![s].seen = [j \in Jobs |-> IF j \in Stale THEN job[j] ELSE None]]
     ELSE /\ lease' = lease
          /\ supervisor' = [supervisor EXCEPT ![s] = Off]
  /\ UNCHANGED <<job, run, marker, commands, worker, kill, budget>>

\* Mutant: a stale heartbeat alone ends the execution.
SilenceIsDeath(j, seen) == FALSE

\* isAIRunnerExecutionAlive: the recorded command, or else the worker.
ExecutionAlive(j, seen) ==
  IF seen.ref # 0 THEN Alive(j, seen.ref) ELSE \E w \in Workers : worker[w].job = j

\* Mutant: the timeout is left to a worker that may be gone.
PolicyOfCancel(seen) == seen.cancel

Policy(seen) == seen.cancel \/ seen.timedOut

Reconcile(s, j) ==
  LET seen == supervisor[s].seen[j]
      exit == IF seen.paths THEN marker[j] ELSE None
      observed == exit = None /\ ExecutionAlive(j, seen) /\ ~Policy(seen)
      again == /\ CanRetry(seen) /\ ~seen.cancel
               /\ exit = "bad" \/ (exit = None /\ ~seen.timedOut)
      outcome == IF exit # None THEN IF exit = "ok" THEN "completed" ELSE "failed"
                 ELSE IF seen.cancel THEN "killed"
                 ELSE IF seen.timedOut THEN "timeout" ELSE "failed"
  IN
  /\ supervisor[s].pc = "reconcile"
  /\ j \in supervisor[s].stale
  /\ \/ /\ observed
        /\ job' = [job EXCEPT ![j].status = "running", ![j].stale = FALSE]
        /\ run' = [run EXCEPT ![j] = "running"]
     \/ ~observed /\ again /\ Retry(j)
     \/ ~observed /\ ~again /\ End(j, outcome)
  /\ commands' = IF exit = None /\ ~observed THEN Signalled(j, seen.ref) ELSE commands
  /\ supervisor' = [supervisor EXCEPT ![s].stale = @ \ {j}, ![s].seen[j] = None]
  /\ UNCHANGED <<marker, worker, lease, kill, budget>>

BeginDispatch(s) ==
  /\ supervisor[s].pc = "reconcile"
  /\ supervisor[s].stale = {}
  /\ supervisor' = [supervisor EXCEPT ![s].pc = "dispatch",
                      ![s].active = Cardinality({j \in Jobs : job[j].status \in Active})]
  /\ UNCHANGED <<job, run, marker, commands, worker, lease, kill, budget>>

Runnable(j) == job[j].status \in Waiting /\ job[j].due /\ ~job[j].cancel

\* Mutant: the workspace of a candidate is not looked at.
NeverBlocked(j) == FALSE

WorkspaceBlocked(j) ==
  j \in Blocking /\ \E k \in Blocking \ {j} : job[k].status \in Active /\ ~job[k].cancel

Candidates(s) ==
  IF supervisor[s].active < MaxConcurrent
  THEN {j \in Jobs : Runnable(j) /\ ~WorkspaceBlocked(j)} ELSE {}

PickJob(s) ==
  /\ supervisor[s].pc = "dispatch"
  /\ \E j \in Candidates(s) :
       supervisor' = [supervisor EXCEPT ![s].pc = "picked", ![s].pick = j]
  /\ UNCHANGED <<job, run, marker, commands, worker, lease, kill, budget>>

EndTick(s) ==
  /\ supervisor[s].pc = "dispatch"
  /\ Candidates(s) = {}
  /\ supervisor' = [supervisor EXCEPT ![s] = [Off EXCEPT !.pc = "loop"]]
  /\ UNCHANGED <<job, run, marker, commands, worker, lease, kill, budget>>

Dispatch(s) ==
  LET j == supervisor[s].pick IN
  /\ supervisor[s].pc = "picked"
  /\ IF Runnable(j)
     THEN /\ job' = [job EXCEPT ![j].status = "dispatched", ![j].stale = FALSE]
          /\ supervisor' = [supervisor EXCEPT ![s].pc = "spawn"]
     ELSE /\ job' = job
          /\ supervisor' = [supervisor EXCEPT ![s] = [Off EXCEPT !.pc = "loop"]]
  /\ UNCHANGED <<run, marker, commands, worker, lease, kill, budget>>

SpawnWorker(s) ==
  /\ supervisor[s].pc = "spawn"
  /\ \E w \in Workers :
       /\ worker[w].pc = "gone"
       /\ worker' = [worker EXCEPT ![w] = [Gone EXCEPT !.pc = "boot",
                                                       !.job = supervisor[s].pick]]
  /\ supervisor' = [supervisor EXCEPT ![s].pc = "dispatch", ![s].pick = None,
                                      ![s].active = @ + 1]
  /\ UNCHANGED <<job, run, marker, commands, lease, kill, budget>>

SpawnFails(s) ==
  /\ supervisor[s].pc = "spawn"
  /\ End(supervisor[s].pick, "failed")
  /\ supervisor' = [supervisor EXCEPT ![s].pc = "dispatch", ![s].pick = None]
  /\ UNCHANGED <<marker, commands, worker, lease, kill, budget>>

\* A new process has a new instance id: the lease of the old one must expire.
SupervisorCrashes(s) ==
  /\ supervisor[s].pc # "off"
  /\ budget.crashes > 0
  /\ budget' = [budget EXCEPT !.crashes = @ - 1]
  /\ supervisor' = [supervisor EXCEPT ![s] = Off]
  /\ lease' = IF lease = s THEN "dead" ELSE lease
  /\ UNCHANGED <<job, run, marker, commands, worker, kill>>

-----------------------------------------------------------------------------
(* The clock.                                                              *)

LeaseExpires ==
  /\ lease = "dead"
  /\ lease' = None
  /\ UNCHANGED <<job, run, marker, commands, worker, supervisor, kill, budget>>

\* Twenty seconds without a heartbeat; a supervisor in "spawn" is about to
\* start the worker in the same turn.
Silence(j) ==
  /\ job[j].status \in Active
  /\ ~job[j].stale
  /\ \A w \in Workers : worker[w].job # j
  /\ \A s \in Supervisors : supervisor[s].pc = "spawn" => supervisor[s].pick # j
  /\ job' = [job EXCEPT ![j].stale = TRUE]
  /\ UNCHANGED <<run, marker, commands, worker, supervisor, lease, kill, budget>>

RetryDue(j) ==
  /\ job[j].status = "retrying"
  /\ ~job[j].due
  /\ job' = [job EXCEPT ![j].due = TRUE]
  /\ UNCHANGED <<run, marker, commands, worker, supervisor, lease, kill, budget>>

TimeoutPasses(j) ==
  /\ job[j].status \in Active
  /\ job[j].attempts > 0
  /\ ~job[j].timedOut
  /\ job' = [job EXCEPT ![j].timedOut = TRUE]
  /\ UNCHANGED <<run, marker, commands, worker, supervisor, lease, kill, budget>>

-----------------------------------------------------------------------------
JobStep(j) == KillReads(j) \/ Silence(j) \/ RetryDue(j) \/ TimeoutPasses(j)

CommandStep(j, n) == CommandStops(j, n) \/ \E exit \in Exits : CommandExits(j, n, exit)

WorkerStep(w) ==
  \/ Claim(w) \/ SaveRun(w) \/ Launch(w) \/ LaunchFails(w) \/ PersistExecutionRef(w)
  \/ HeartbeatCancels(w) \/ Heartbeat(w) \/ HeartbeatFinds(w)
  \/ TimerFires(w) \/ ChildCloses(w)
  \/ FinalizeReads(w) \/ FinalizeWrites(w)
  \/ WorkerCrashes(w)

SupervisorStep(s) ==
  \/ StartSupervisor(s) \/ AcquireLease(s)
  \/ \E j \in Jobs : Reconcile(s, j)
  \/ PickJob(s) \/ EndTick(s)
  \/ Dispatch(s) \/ SpawnWorker(s) \/ SpawnFails(s)
  \/ SupervisorCrashes(s)

\* All but the creation of jobs and what a supervisor does about it.
Step ==
  \/ \E j \in Jobs : JobStep(j)
  \/ KillWrites
  \/ \E j \in Jobs, n \in 1..MaxAttempts : CommandStep(j, n)
  \/ \E w \in Workers : WorkerStep(w)
  \/ \E s \in Supervisors : SupervisorStep(s)
  \/ LeaseExpires

Next ==
  \/ \E j \in Jobs : Enqueue(j)
  \/ \E s \in Supervisors : BeginDispatch(s)
  \/ Step

Spec == Init /\ [][Next]_vars

\* Processes and the database go on; the clock passes; the watchdog restarts
\* a supervisor; a signalled command stops.  No command need ever exit.
StepFairness ==
  /\ \A w \in Workers :
       /\ WF_vars(Claim(w) \/ SaveRun(w) \/ Launch(w) \/ PersistExecutionRef(w))
       /\ WF_vars(TimerFires(w)) /\ WF_vars(ChildCloses(w))
       /\ WF_vars(FinalizeReads(w) \/ FinalizeWrites(w))
  /\ \A s \in Supervisors :
       /\ WF_vars(StartSupervisor(s)) /\ WF_vars(AcquireLease(s))
       /\ WF_vars(PickJob(s) \/ EndTick(s) \/ Dispatch(s))
       /\ WF_vars(SpawnWorker(s))
       /\ \A j \in Jobs : WF_vars(Reconcile(s, j))
  /\ WF_vars(LeaseExpires) /\ WF_vars(KillWrites)
  /\ \A j \in Jobs :
       WF_vars(Silence(j)) /\ WF_vars(RetryDue(j)) /\ WF_vars(TimeoutPasses(j))
  /\ \A j \in Jobs, n \in 1..MaxAttempts : WF_vars(CommandStops(j, n))

Fairness == StepFairness /\ \A s \in Supervisors : WF_vars(BeginDispatch(s))

FairSpec == Spec /\ Fairness

-----------------------------------------------------------------------------
(* Properties.  A job is left to itself until somebody asks for its end.    *)

LeftAlone(j) == ~job[j].cancel /\ kill.job # j

\* Crashes, retries and reconciliation never start more attempts than a job
\* has (shouldRetryJob, read from snapshots by two kinds of process).
AttemptsBounded == \A j \in Jobs : job[j].attempts <= MaxAttempts

\* A job is never executed by two worker processes: it goes back to the queue
\* only after its worker is gone or has given it up.
OneWorkerPerJob ==
  \A j \in Jobs :
    Cardinality({w \in Workers : worker[w].job = j /\ worker[w].pc # "boot"}) <= 1

\* The job and its run, two documents written by several processes, are over
\* together.
JobAndRunAgree ==
  \A j \in Jobs : LeftAlone(j) => (job[j].status \in JobEnded <=> run[j] \in RunEnded)

\* At most one job of a blocking workspace is dispatched or running (one whose
\* cancellation was requested no longer counts).
OneActivePerWorkspace ==
  Cardinality({j \in Blocking : job[j].status \in Active /\ ~job[j].cancel}) <= 1

\* The outcome of a run is written once: worker and supervisor, whose writes
\* are unconditional, never overwrite each other's verdict.
OutcomeOnce ==
  [][\A j \in Jobs : run[j] \in RunEnded /\ LeftAlone(j) => run'[j] = run[j]]_vars

\* A command is terminated for a cancellation or its timeout, never because
\* the heartbeat of its worker went silent.
NeverKilledForSilence ==
  [][\A c \in commands :
       ~c.signalled /\ [c EXCEPT !.signalled = TRUE] \in commands' =>
         job'[c.job].cancel \/ job[c.job].timedOut]_vars

\* Every job comes to an end, past crashes of its worker and the supervisor
\* and though its command may hang.
EveryJobEnds ==
  \A j \in Jobs : job[j].status = "queued" ~> (run[j] \in RunEnded \/ ~LeftAlone(j))

\* What the recovery design says of exit.json: a run that completed or failed
\* by an exit marker has a command that exited.
FinishedMeansExited ==
  \A j \in Jobs : run[j] \in {"completed", "failed"} =>
    \A c \in commands : c.job = j => c.signalled
=============================================================================
