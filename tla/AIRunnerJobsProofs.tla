-------------------------- MODULE AIRunnerJobsProofs --------------------------
(***************************************************************************)
(* AIRunnerJobs is type correct; attempts are bounded; a job has one       *)
(* worker; a job and its run agree; an outcome is written once; silence    *)
(* kills no command: for any number of jobs, workers, supervisors,         *)
(* attempts, crashes and kills.                                            *)
(***************************************************************************)
EXTENDS AIRunnerJobs, FiniteSetTheorems, TLAPS

HasWorker(j) == \E w \in Workers : worker[w].job = j

\* Cancelled by a killRun that had found the job waiting.
Killed(j) == job[j].status = "canceled" /\ job[j].cancel

\* What a worker that is not gone knows of its job.
WorkersOwn ==
  \A w \in Workers :
    /\ worker[w].pc = "gone" <=> worker[w].job = None
    /\ worker[w].pc # "gone" =>
         /\ ~job[worker[w].job].stale
         /\ \/ Killed(worker[w].job)
            \/ worker[w].pc = "boot" /\ job[worker[w].job].status = "dispatched"
            \/ worker[w].pc # "boot" /\ job[worker[w].job].status = "running"
    /\ worker[w].pc \notin {"gone", "boot"} => worker[w].attempt # 0
    /\ worker[w].pc = "retry" => job[worker[w].job].attempts < MaxAttempts
    /\ worker[w].pc = "end" => worker[w].outcome \in RunEnded

WorkersApart ==
  \A v, w \in Workers : worker[v].job = worker[w].job /\ worker[v].job # None => v = w

\* Between "loop" and "off" a supervisor has the lease: there is one.
LeaseHeld ==
  \A s \in Supervisors : supervisor[s].pc \notin {"off", "loop"} => lease = s

\* A job about to get its worker has none, and is not reconciled.
SpawnFree ==
  \A s \in Supervisors :
    /\ supervisor[s].pc \in {"picked", "spawn"} => supervisor[s].pick # None
    /\ supervisor[s].pc = "spawn" =>
         /\ ~HasWorker(supervisor[s].pick)
         /\ ~job[supervisor[s].pick].stale
         /\ Killed(supervisor[s].pick) \/ job[supervisor[s].pick].status = "dispatched"

\* What is true of a job since it was found stale: nobody works on it.
SnapshotFresh ==
  \A s \in Supervisors :
    /\ supervisor[s].pc # "reconcile" => supervisor[s].stale = {}
    /\ \A j \in supervisor[s].stale :
         /\ supervisor[s].seen[j] \in JobRecord
         /\ ~HasWorker(j)
         /\ job[j].status \in Active \/ Killed(j)
         /\ supervisor[s].seen[j].attempts = job[j].attempts
         /\ supervisor[s].seen[j].cancel => job[j].cancel
         /\ supervisor[s].seen[j].timedOut => job[j].timedOut

\* A job that may be started again has an attempt left.
AttemptLeft ==
  \A j \in Jobs :
    /\ job[j].attempts <= MaxAttempts
    /\ job[j].status \in {"absent", "dispatched"} \cup Waiting => job[j].attempts < MaxAttempts

\* An attempt launches one command, under a number of its own.
CommandsNumbered ==
  /\ \A c \in commands : c.attempt # 0 /\ c.attempt <= job[c.job].attempts
  /\ \A c, d \in commands : c.job = d.job /\ c.attempt = d.attempt => c = d
  /\ \A w \in Workers :
       /\ worker[w].pc \notin {"gone", "boot"} =>
            worker[w].attempt = job[worker[w].job].attempts
       /\ worker[w].pc \in {"claimed", "launch"} =>
            \A c \in commands : c.job = worker[w].job => c.attempt # worker[w].attempt

\* A job that occupies its workspace.
Occupies(j) == job[j].status \in Active /\ ~job[j].cancel

\* One job occupies the blocking workspace, and the one picked will be it.
WorkspaceApart ==
  /\ \A j, k \in Blocking : Occupies(j) /\ Occupies(k) => j = k
  /\ \A s \in Supervisors :
       supervisor[s].pc = "picked" /\ supervisor[s].pick \in Blocking =>
         \A k \in Blocking \ {supervisor[s].pick} : ~Occupies(k)

JInv ==
  /\ TypeOK /\ WorkersOwn /\ WorkersApart /\ LeaseHeld /\ SpawnFree /\ SnapshotFresh
  /\ AttemptLeft /\ CommandsNumbered /\ WorkspaceApart
  /\ JobAndRunAgree

-----------------------------------------------------------------------------
(* What a step makes of one job, one worker, one supervisor, when it leaves *)
(* the others alone.                                                        *)

JobIs(j, status, attempts, cancel, stale, timedOut) ==
  /\ job' \in [Jobs -> JobRecord]
  /\ \A k \in Jobs \ {j} : job'[k] = job[k]
  /\ job'[j].status = status /\ job'[j].attempts = attempts /\ job'[j].cancel = cancel
  /\ job'[j].stale = stale /\ job'[j].timedOut = timedOut

WorkerIs(w, j, pc, attempt) ==
  /\ worker' \in [Workers -> WorkerRecord]
  /\ \A v \in Workers \ {w} : worker'[v] = worker[v]
  /\ worker'[w].job = j /\ worker'[w].pc = pc /\ worker'[w].attempt = attempt

SupervisorIs(s, pc, pick, stale) ==
  /\ supervisor' \in [Supervisors -> SupervisorRecord]
  /\ \A r \in Supervisors \ {s} : supervisor'[r] = supervisor[r]
  /\ supervisor'[s].pc = pc /\ supervisor'[s].pick = pick /\ supervisor'[s].stale = stale

LEMMA JobUpdate ==
  ASSUME job \in [Jobs -> JobRecord], NEW j \in Jobs, NEW r \in JobRecord,
         job' = [job EXCEPT ![j] = r]
  PROVE  JobIs(j, r.status, r.attempts, r.cancel, r.stale, r.timedOut)
BY DEF JobIs

LEMMA WorkerUpdate ==
  ASSUME worker \in [Workers -> WorkerRecord], NEW w \in Workers, NEW r \in WorkerRecord,
         worker' = [worker EXCEPT ![w] = r]
  PROVE  WorkerIs(w, r.job, r.pc, r.attempt) /\ worker'[w].outcome = r.outcome
BY DEF WorkerIs

LEMMA SupervisorUpdate ==
  ASSUME supervisor \in [Supervisors -> SupervisorRecord], NEW s \in Supervisors,
         NEW r \in SupervisorRecord, supervisor' = [supervisor EXCEPT ![s] = r]
  PROVE  SupervisorIs(s, r.pc, r.pick, r.stale) /\ supervisor'[s].seen = r.seen
BY DEF SupervisorIs

LEMMA JobEnqueued ==
  ASSUME job \in [Jobs -> JobRecord], NEW j \in Jobs,
         job' = [job EXCEPT ![j].status = "queued"]
  PROVE  JobIs(j, "queued", job[j].attempts, job[j].cancel, job[j].stale, job[j].timedOut)
<1> DEFINE r == [job[j] EXCEPT !.status = "queued"]
<1>1. r \in JobRecord
  BY ZenonT(30) DEF JobRecord, Waiting, Active, JobEnded
<1>2. /\ r.status = "queued" /\ r.attempts = job[j].attempts /\ r.cancel = job[j].cancel
      /\ r.stale = job[j].stale /\ r.timedOut = job[j].timedOut
  BY DEF JobRecord
<1>3. job' = [job EXCEPT ![j] = r]
  OBVIOUS
<1> HIDE DEF r
<1>4. JobIs(j, r.status, r.attempts, r.cancel, r.stale, r.timedOut)
  BY <1>1, <1>3, JobUpdate
<1> QED BY <1>2, <1>4

LEMMA JobStale ==
  ASSUME job \in [Jobs -> JobRecord], NEW j \in Jobs,
         job' = [job EXCEPT ![j].stale = TRUE]
  PROVE  JobIs(j, job[j].status, job[j].attempts, job[j].cancel, TRUE, job[j].timedOut)
<1> DEFINE r == [job[j] EXCEPT !.stale = TRUE]
<1>1. r \in JobRecord
  BY ZenonT(30) DEF JobRecord, Waiting, Active, JobEnded
<1>2. /\ r.status = job[j].status /\ r.attempts = job[j].attempts /\ r.cancel = job[j].cancel
      /\ r.stale = TRUE /\ r.timedOut = job[j].timedOut
  BY DEF JobRecord
<1>3. job' = [job EXCEPT ![j] = r]
  OBVIOUS
<1> HIDE DEF r
<1>4. JobIs(j, r.status, r.attempts, r.cancel, r.stale, r.timedOut)
  BY <1>1, <1>3, JobUpdate
<1> QED BY <1>2, <1>4

LEMMA JobDue ==
  ASSUME job \in [Jobs -> JobRecord], NEW j \in Jobs,
         job' = [job EXCEPT ![j].due = TRUE]
  PROVE  JobIs(j, job[j].status, job[j].attempts, job[j].cancel, job[j].stale, job[j].timedOut)
<1> DEFINE r == [job[j] EXCEPT !.due = TRUE]
<1>1. r \in JobRecord
  BY ZenonT(30) DEF JobRecord, Waiting, Active, JobEnded
<1>2. /\ r.status = job[j].status /\ r.attempts = job[j].attempts /\ r.cancel = job[j].cancel
      /\ r.stale = job[j].stale /\ r.timedOut = job[j].timedOut
  BY DEF JobRecord
<1>3. job' = [job EXCEPT ![j] = r]
  OBVIOUS
<1> HIDE DEF r
<1>4. JobIs(j, r.status, r.attempts, r.cancel, r.stale, r.timedOut)
  BY <1>1, <1>3, JobUpdate
<1> QED BY <1>2, <1>4

LEMMA JobTimedOut ==
  ASSUME job \in [Jobs -> JobRecord], NEW j \in Jobs,
         job' = [job EXCEPT ![j].timedOut = TRUE]
  PROVE  JobIs(j, job[j].status, job[j].attempts, job[j].cancel, job[j].stale, TRUE)
<1> DEFINE r == [job[j] EXCEPT !.timedOut = TRUE]
<1>1. r \in JobRecord
  BY ZenonT(30) DEF JobRecord, Waiting, Active, JobEnded
<1>2. /\ r.status = job[j].status /\ r.attempts = job[j].attempts /\ r.cancel = job[j].cancel
      /\ r.stale = job[j].stale /\ r.timedOut = TRUE
  BY DEF JobRecord
<1>3. job' = [job EXCEPT ![j] = r]
  OBVIOUS
<1> HIDE DEF r
<1>4. JobIs(j, r.status, r.attempts, r.cancel, r.stale, r.timedOut)
  BY <1>1, <1>3, JobUpdate
<1> QED BY <1>2, <1>4

LEMMA JobKilled ==
  ASSUME job \in [Jobs -> JobRecord], NEW j \in Jobs,
         job' = [job EXCEPT ![j].status = "canceled", ![j].cancel = TRUE]
  PROVE  JobIs(j, "canceled", job[j].attempts, TRUE, job[j].stale, job[j].timedOut)
<1> DEFINE r == [job[j] EXCEPT !.status = "canceled", !.cancel = TRUE]
<1>1. r \in JobRecord
  BY ZenonT(30) DEF JobRecord, Waiting, Active, JobEnded
<1>2. /\ r.status = "canceled" /\ r.attempts = job[j].attempts /\ r.cancel = TRUE
      /\ r.stale = job[j].stale /\ r.timedOut = job[j].timedOut
  BY DEF JobRecord
<1>3. job' = [job EXCEPT ![j] = r]
  OBVIOUS
<1> HIDE DEF r
<1>4. JobIs(j, r.status, r.attempts, r.cancel, r.stale, r.timedOut)
  BY <1>1, <1>3, JobUpdate
<1> QED BY <1>2, <1>4

LEMMA JobAskedToEnd ==
  ASSUME job \in [Jobs -> JobRecord], NEW j \in Jobs,
         job' = [job EXCEPT ![j].cancel = TRUE]
  PROVE  JobIs(j, job[j].status, job[j].attempts, TRUE, job[j].stale, job[j].timedOut)
<1> DEFINE r == [job[j] EXCEPT !.cancel = TRUE]
<1>1. r \in JobRecord
  BY ZenonT(30) DEF JobRecord, Waiting, Active, JobEnded
<1>2. /\ r.status = job[j].status /\ r.attempts = job[j].attempts /\ r.cancel = TRUE
      /\ r.stale = job[j].stale /\ r.timedOut = job[j].timedOut
  BY DEF JobRecord
<1>3. job' = [job EXCEPT ![j] = r]
  OBVIOUS
<1> HIDE DEF r
<1>4. JobIs(j, r.status, r.attempts, r.cancel, r.stale, r.timedOut)
  BY <1>1, <1>3, JobUpdate
<1> QED BY <1>2, <1>4

LEMMA JobClaimed ==
  ASSUME job \in [Jobs -> JobRecord], NEW j \in Jobs,
         job' = [job EXCEPT ![j].status = "running", ![j].attempts = @ + 1, ![j].stale = FALSE,
         ![j].timedOut = FALSE]
  PROVE  JobIs(j, "running", job[j].attempts + 1, job[j].cancel, FALSE, FALSE)
<1> DEFINE r == [job[j] EXCEPT !.status = "running", !.attempts = @ + 1, !.stale = FALSE,
    !.timedOut = FALSE]
<1>0. job[j].attempts + 1 \in Nat
  BY DEF JobRecord
<1>1. r \in JobRecord
  BY <1>0, ZenonT(30) DEF JobRecord, Waiting, Active, JobEnded
<1>2. /\ r.status = "running" /\ r.attempts = job[j].attempts + 1 /\ r.cancel = job[j].cancel
      /\ r.stale = FALSE /\ r.timedOut = FALSE
  BY DEF JobRecord
<1>3. job' = [job EXCEPT ![j] = r]
  OBVIOUS
<1> HIDE DEF r
<1>4. JobIs(j, r.status, r.attempts, r.cancel, r.stale, r.timedOut)
  BY <1>1, <1>3, JobUpdate
<1> QED BY <1>2, <1>4

LEMMA JobRetries ==
  ASSUME job \in [Jobs -> JobRecord], NEW j \in Jobs,
         job' = [job EXCEPT ![j].status = "retrying", ![j].due = FALSE]
  PROVE  JobIs(j, "retrying", job[j].attempts, job[j].cancel, job[j].stale, job[j].timedOut)
<1> DEFINE r == [job[j] EXCEPT !.status = "retrying", !.due = FALSE]
<1>1. r \in JobRecord
  BY ZenonT(30) DEF JobRecord, Waiting, Active, JobEnded
<1>2. /\ r.status = "retrying" /\ r.attempts = job[j].attempts /\ r.cancel = job[j].cancel
      /\ r.stale = job[j].stale /\ r.timedOut = job[j].timedOut
  BY DEF JobRecord
<1>3. job' = [job EXCEPT ![j] = r]
  OBVIOUS
<1> HIDE DEF r
<1>4. JobIs(j, r.status, r.attempts, r.cancel, r.stale, r.timedOut)
  BY <1>1, <1>3, JobUpdate
<1> QED BY <1>2, <1>4

LEMMA JobEnds ==
  ASSUME job \in [Jobs -> JobRecord], NEW j \in Jobs, NEW status \in JobEnded,
         job' = [job EXCEPT ![j].status = status, ![j].stale = FALSE]
  PROVE  JobIs(j, status, job[j].attempts, job[j].cancel, FALSE, job[j].timedOut)
<1> DEFINE r == [job[j] EXCEPT !.status = status, !.stale = FALSE]
<1>1. r \in JobRecord
  BY ZenonT(30) DEF JobRecord, Waiting, Active, JobEnded
<1>2. /\ r.status = status /\ r.attempts = job[j].attempts /\ r.cancel = job[j].cancel
      /\ r.stale = FALSE /\ r.timedOut = job[j].timedOut
  BY DEF JobRecord
<1>3. job' = [job EXCEPT ![j] = r]
  OBVIOUS
<1> HIDE DEF r
<1>4. JobIs(j, r.status, r.attempts, r.cancel, r.stale, r.timedOut)
  BY <1>1, <1>3, JobUpdate
<1> QED BY <1>2, <1>4

LEMMA JobStarts ==
  ASSUME job \in [Jobs -> JobRecord], NEW j \in Jobs, NEW status \in Active,
         job' = [job EXCEPT ![j].status = status, ![j].stale = FALSE]
  PROVE  JobIs(j, status, job[j].attempts, job[j].cancel, FALSE, job[j].timedOut)
<1> DEFINE r == [job[j] EXCEPT !.status = status, !.stale = FALSE]
<1>1. r \in JobRecord
  BY ZenonT(30) DEF JobRecord, Waiting, Active, JobEnded
<1>2. /\ r.status = status /\ r.attempts = job[j].attempts /\ r.cancel = job[j].cancel
      /\ r.stale = FALSE /\ r.timedOut = job[j].timedOut
  BY DEF JobRecord
<1>3. job' = [job EXCEPT ![j] = r]
  OBVIOUS
<1> HIDE DEF r
<1>4. JobIs(j, r.status, r.attempts, r.cancel, r.stale, r.timedOut)
  BY <1>1, <1>3, JobUpdate
<1> QED BY <1>2, <1>4

LEMMA JobRefersTo ==
  ASSUME job \in [Jobs -> JobRecord], NEW j \in Jobs, NEW n \in Nat,
         job' = [job EXCEPT ![j].ref = n, ![j].paths = TRUE]
  PROVE  JobIs(j, job[j].status, job[j].attempts, job[j].cancel, job[j].stale, job[j].timedOut)
<1> DEFINE r == [job[j] EXCEPT !.ref = n, !.paths = TRUE]
<1>1. r \in JobRecord
  BY ZenonT(30) DEF JobRecord, Waiting, Active, JobEnded
<1>2. /\ r.status = job[j].status /\ r.attempts = job[j].attempts /\ r.cancel = job[j].cancel
      /\ r.stale = job[j].stale /\ r.timedOut = job[j].timedOut
  BY DEF JobRecord
<1>3. job' = [job EXCEPT ![j] = r]
  OBVIOUS
<1> HIDE DEF r
<1>4. JobIs(j, r.status, r.attempts, r.cancel, r.stale, r.timedOut)
  BY <1>1, <1>3, JobUpdate
<1> QED BY <1>2, <1>4

LEMMA JobFlushed ==
  ASSUME job \in [Jobs -> JobRecord], NEW w \in Workers, worker[w] \in WorkerRecord,
         worker[w].job \in Jobs, job' = Flushed(w)
  PROVE  LET j == worker[w].job
         IN  JobIs(j, job[j].status, job[j].attempts, job[j].cancel, FALSE, job[j].timedOut)
<1> DEFINE j == worker[w].job
           r == [job[j] EXCEPT !.stale = FALSE, !.paths = TRUE, !.ref = worker[w].attempt]
<1>0. job[j] \in JobRecord /\ worker[w].attempt \in Nat
  BY DEF WorkerRecord
<1> HIDE DEF j
<1>1. r \in JobRecord
  BY <1>0, ZenonT(30) DEF JobRecord
<1>2. /\ r.status = job[j].status /\ r.attempts = job[j].attempts
      /\ r.cancel = job[j].cancel /\ r.stale = FALSE /\ r.timedOut = job[j].timedOut
  BY DEF JobRecord
<1>3. job' = [job EXCEPT ![j] = r] /\ j \in Jobs
  BY DEF Flushed, j
<1> HIDE DEF r
<1>4. JobIs(j, r.status, r.attempts, r.cancel, r.stale, r.timedOut)
  BY <1>1, <1>3, JobUpdate
<1> QED BY <1>2, <1>4 DEF j

LEMMA WorkerClaims ==
  ASSUME worker \in [Workers -> WorkerRecord], NEW w \in Workers, NEW n \in Nat,
         worker' = [worker EXCEPT ![w].pc = "claimed", ![w].attempt = n]
  PROVE  WorkerIs(w, worker[w].job, "claimed", n)
<1> DEFINE r == [worker[w] EXCEPT !.pc = "claimed", !.attempt = n]
<1>1. r \in WorkerRecord
  BY ZenonT(30) DEF WorkerRecord, Exits, RunEnded, Gone
<1>2. r.job = worker[w].job /\ r.pc = "claimed" /\ r.attempt = n
  BY DEF WorkerRecord, Gone
<1>3. worker' = [worker EXCEPT ![w] = r]
  OBVIOUS
<1> HIDE DEF r
<1>4. WorkerIs(w, r.job, r.pc, r.attempt) /\ worker'[w].outcome = r.outcome
  BY <1>1, <1>3, WorkerUpdate
<1> QED BY <1>2, <1>4

LEMMA WorkerMoves ==
  ASSUME worker \in [Workers -> WorkerRecord], NEW w \in Workers, NEW pc \in {"launch", "spawned",
         "wait"},
         worker' = [worker EXCEPT ![w].pc = pc]
  PROVE  WorkerIs(w, worker[w].job, pc, worker[w].attempt)
<1> DEFINE r == [worker[w] EXCEPT !.pc = pc]
<1>1. r \in WorkerRecord
  BY ZenonT(30) DEF WorkerRecord, Exits, RunEnded, Gone
<1>2. r.job = worker[w].job /\ r.pc = pc /\ r.attempt = worker[w].attempt
  BY DEF WorkerRecord, Gone
<1>3. worker' = [worker EXCEPT ![w] = r]
  OBVIOUS
<1> HIDE DEF r
<1>4. WorkerIs(w, r.job, r.pc, r.attempt) /\ worker'[w].outcome = r.outcome
  BY <1>1, <1>3, WorkerUpdate
<1> QED BY <1>2, <1>4

LEMMA WorkerKills ==
  ASSUME worker \in [Workers -> WorkerRecord], NEW w \in Workers, NEW who \in {"user", "timeout"},
         worker' = [worker EXCEPT ![w].killedBy = who]
  PROVE  WorkerIs(w, worker[w].job, worker[w].pc, worker[w].attempt)
<1> DEFINE r == [worker[w] EXCEPT !.killedBy = who]
<1>1. r \in WorkerRecord
  BY ZenonT(30) DEF WorkerRecord, Exits, RunEnded, Gone
<1>2. r.job = worker[w].job /\ r.pc = worker[w].pc /\ r.attempt = worker[w].attempt
  BY DEF WorkerRecord, Gone
<1>3. worker' = [worker EXCEPT ![w] = r]
  OBVIOUS
<1> HIDE DEF r
<1>4. WorkerIs(w, r.job, r.pc, r.attempt) /\ worker'[w].outcome = r.outcome
  BY <1>1, <1>3, WorkerUpdate
<1> QED BY <1>2, <1>4

LEMMA WorkerFinalizes ==
  ASSUME worker \in [Workers -> WorkerRecord], NEW w \in Workers, NEW pc \in {"finalize", "retry",
         "end"}, NEW x \in Exits \cup RunEnded,
         worker' = [worker EXCEPT ![w].pc = pc, ![w].outcome = x]
  PROVE  WorkerIs(w, worker[w].job, pc, worker[w].attempt) /\ worker'[w].outcome = x
<1> DEFINE r == [worker[w] EXCEPT !.pc = pc, !.outcome = x]
<1>1. r \in WorkerRecord
  BY ZenonT(30) DEF WorkerRecord, Exits, RunEnded, Gone
<1>2. r.job = worker[w].job /\ r.pc = pc /\ r.attempt = worker[w].attempt /\ r.outcome = x
  BY DEF WorkerRecord, Gone
<1>3. worker' = [worker EXCEPT ![w] = r]
  OBVIOUS
<1> HIDE DEF r
<1>4. WorkerIs(w, r.job, r.pc, r.attempt) /\ worker'[w].outcome = r.outcome
  BY <1>1, <1>3, WorkerUpdate
<1> QED BY <1>2, <1>4

LEMMA WorkerGoes ==
  ASSUME worker \in [Workers -> WorkerRecord], NEW w \in Workers,
         worker' = [worker EXCEPT ![w] = Gone]
  PROVE  WorkerIs(w, None, "gone", 0)
<1> DEFINE r == Gone
<1>1. r \in WorkerRecord
  BY ZenonT(30) DEF WorkerRecord, Exits, RunEnded, Gone
<1>2. r.job = None /\ r.pc = "gone" /\ r.attempt = 0
  BY DEF WorkerRecord, Gone
<1>3. worker' = [worker EXCEPT ![w] = r]
  OBVIOUS
<1> HIDE DEF r
<1>4. WorkerIs(w, r.job, r.pc, r.attempt) /\ worker'[w].outcome = r.outcome
  BY <1>1, <1>3, WorkerUpdate
<1> QED BY <1>2, <1>4

LEMMA WorkerBoots ==
  ASSUME worker \in [Workers -> WorkerRecord], NEW w \in Workers, NEW j \in Jobs,
         worker' = [worker EXCEPT ![w] = [Gone EXCEPT !.pc = "boot", !.job = j]]
  PROVE  WorkerIs(w, j, "boot", 0)
<1> DEFINE r == [Gone EXCEPT !.pc = "boot", !.job = j]
<1>1. r \in WorkerRecord
  BY ZenonT(30) DEF WorkerRecord, Exits, RunEnded, Gone
<1>2. r.job = j /\ r.pc = "boot" /\ r.attempt = 0
  BY DEF WorkerRecord, Gone
<1>3. worker' = [worker EXCEPT ![w] = r]
  OBVIOUS
<1> HIDE DEF r
<1>4. WorkerIs(w, r.job, r.pc, r.attempt) /\ worker'[w].outcome = r.outcome
  BY <1>1, <1>3, WorkerUpdate
<1> QED BY <1>2, <1>4

LEMMA SupervisorLoops ==
  ASSUME supervisor \in [Supervisors -> SupervisorRecord], NEW s \in Supervisors,
         supervisor' = [supervisor EXCEPT ![s].pc = "loop"]
  PROVE  SupervisorIs(s, "loop", supervisor[s].pick, supervisor[s].stale)
         /\ supervisor'[s].seen = supervisor[s].seen
<1> DEFINE r == [supervisor[s] EXCEPT !.pc = "loop"]
<1>1. r \in SupervisorRecord
  BY ZenonT(30) DEF SupervisorRecord, Off
<1>2. r.pc = "loop" /\ r.pick = supervisor[s].pick /\ r.stale = supervisor[s].stale
      /\ r.seen = supervisor[s].seen
  BY DEF SupervisorRecord, Off
<1>3. supervisor' = [supervisor EXCEPT ![s] = r]
  OBVIOUS
<1> HIDE DEF r
<1>4. SupervisorIs(s, r.pc, r.pick, r.stale) /\ supervisor'[s].seen = r.seen
  BY <1>1, <1>3, SupervisorUpdate
<1> QED BY <1>2, <1>4

LEMMA SupervisorIsOff ==
  ASSUME supervisor \in [Supervisors -> SupervisorRecord], NEW s \in Supervisors,
         supervisor' = [supervisor EXCEPT ![s] = Off]
  PROVE  SupervisorIs(s, "off", None, {}) /\ supervisor'[s].seen = [j \in Jobs |-> None]
<1> DEFINE r == Off
<1>1. r \in SupervisorRecord
  BY ZenonT(30) DEF SupervisorRecord, Off
<1>2. r.pc = "off" /\ r.pick = None /\ r.stale = {} /\ r.seen = [j \in Jobs |-> None]
  BY DEF SupervisorRecord, Off
<1>3. supervisor' = [supervisor EXCEPT ![s] = r]
  OBVIOUS
<1> HIDE DEF r
<1>4. SupervisorIs(s, r.pc, r.pick, r.stale) /\ supervisor'[s].seen = r.seen
  BY <1>1, <1>3, SupervisorUpdate
<1> QED BY <1>2, <1>4

LEMMA SupervisorRestarts ==
  ASSUME supervisor \in [Supervisors -> SupervisorRecord], NEW s \in Supervisors,
         supervisor' = [supervisor EXCEPT ![s] = [Off EXCEPT !.pc = "loop"]]
  PROVE  SupervisorIs(s, "loop", None, {}) /\ supervisor'[s].seen = [j \in Jobs |-> None]
<1> DEFINE r == [Off EXCEPT !.pc = "loop"]
<1>1. r \in SupervisorRecord
  BY ZenonT(30) DEF SupervisorRecord, Off
<1>2. r.pc = "loop" /\ r.pick = None /\ r.stale = {} /\ r.seen = [j \in Jobs |-> None]
  BY DEF SupervisorRecord, Off
<1>3. supervisor' = [supervisor EXCEPT ![s] = r]
  OBVIOUS
<1> HIDE DEF r
<1>4. SupervisorIs(s, r.pc, r.pick, r.stale) /\ supervisor'[s].seen = r.seen
  BY <1>1, <1>3, SupervisorUpdate
<1> QED BY <1>2, <1>4

LEMMA SupervisorLooks ==
  ASSUME supervisor \in [Supervisors -> SupervisorRecord], NEW s \in Supervisors,
         NEW found \in SUBSET Jobs, NEW seen \in [Jobs -> JobRecord \cup {None}],
         supervisor' = [supervisor EXCEPT ![s].pc = "reconcile", ![s].stale = found,
         ![s].seen = seen]
  PROVE  SupervisorIs(s, "reconcile", supervisor[s].pick, found) /\ supervisor'[s].seen = seen
<1> DEFINE r == [supervisor[s] EXCEPT !.pc = "reconcile", !.stale = found, !.seen = seen]
<1>1. r \in SupervisorRecord
  BY ZenonT(30) DEF SupervisorRecord, Off
<1>2. r.pc = "reconcile" /\ r.pick = supervisor[s].pick /\ r.stale = found /\ r.seen = seen
  BY DEF SupervisorRecord, Off
<1>3. supervisor' = [supervisor EXCEPT ![s] = r]
  OBVIOUS
<1> HIDE DEF r
<1>4. SupervisorIs(s, r.pc, r.pick, r.stale) /\ supervisor'[s].seen = r.seen
  BY <1>1, <1>3, SupervisorUpdate
<1> QED BY <1>2, <1>4

LEMMA SupervisorDispatches ==
  ASSUME supervisor \in [Supervisors -> SupervisorRecord], NEW s \in Supervisors, NEW n \in Nat,
         supervisor' = [supervisor EXCEPT ![s].pc = "dispatch", ![s].active = n]
  PROVE  SupervisorIs(s, "dispatch", supervisor[s].pick, supervisor[s].stale)
         /\ supervisor'[s].seen = supervisor[s].seen
<1> DEFINE r == [supervisor[s] EXCEPT !.pc = "dispatch", !.active = n]
<1>1. r \in SupervisorRecord
  BY ZenonT(30) DEF SupervisorRecord, Off
<1>2. r.pc = "dispatch" /\ r.pick = supervisor[s].pick /\ r.stale = supervisor[s].stale
      /\ r.seen = supervisor[s].seen
  BY DEF SupervisorRecord, Off
<1>3. supervisor' = [supervisor EXCEPT ![s] = r]
  OBVIOUS
<1> HIDE DEF r
<1>4. SupervisorIs(s, r.pc, r.pick, r.stale) /\ supervisor'[s].seen = r.seen
  BY <1>1, <1>3, SupervisorUpdate
<1> QED BY <1>2, <1>4

LEMMA SupervisorPicks ==
  ASSUME supervisor \in [Supervisors -> SupervisorRecord], NEW s \in Supervisors, NEW j \in Jobs,
         supervisor' = [supervisor EXCEPT ![s].pc = "picked", ![s].pick = j]
  PROVE  SupervisorIs(s, "picked", j, supervisor[s].stale)
         /\ supervisor'[s].seen = supervisor[s].seen
<1> DEFINE r == [supervisor[s] EXCEPT !.pc = "picked", !.pick = j]
<1>1. r \in SupervisorRecord
  BY ZenonT(30) DEF SupervisorRecord, Off
<1>2. r.pc = "picked" /\ r.pick = j /\ r.stale = supervisor[s].stale
      /\ r.seen = supervisor[s].seen
  BY DEF SupervisorRecord, Off
<1>3. supervisor' = [supervisor EXCEPT ![s] = r]
  OBVIOUS
<1> HIDE DEF r
<1>4. SupervisorIs(s, r.pc, r.pick, r.stale) /\ supervisor'[s].seen = r.seen
  BY <1>1, <1>3, SupervisorUpdate
<1> QED BY <1>2, <1>4

LEMMA SupervisorSpawns ==
  ASSUME supervisor \in [Supervisors -> SupervisorRecord], NEW s \in Supervisors,
         supervisor' = [supervisor EXCEPT ![s].pc = "spawn"]
  PROVE  SupervisorIs(s, "spawn", supervisor[s].pick, supervisor[s].stale)
         /\ supervisor'[s].seen = supervisor[s].seen
<1> DEFINE r == [supervisor[s] EXCEPT !.pc = "spawn"]
<1>1. r \in SupervisorRecord
  BY ZenonT(30) DEF SupervisorRecord, Off
<1>2. r.pc = "spawn" /\ r.pick = supervisor[s].pick /\ r.stale = supervisor[s].stale
      /\ r.seen = supervisor[s].seen
  BY DEF SupervisorRecord, Off
<1>3. supervisor' = [supervisor EXCEPT ![s] = r]
  OBVIOUS
<1> HIDE DEF r
<1>4. SupervisorIs(s, r.pc, r.pick, r.stale) /\ supervisor'[s].seen = r.seen
  BY <1>1, <1>3, SupervisorUpdate
<1> QED BY <1>2, <1>4

LEMMA SupervisorSpawned ==
  ASSUME supervisor \in [Supervisors -> SupervisorRecord], NEW s \in Supervisors,
         supervisor' = [supervisor EXCEPT ![s].pc = "dispatch", ![s].pick = None,
         ![s].active = @ + 1]
  PROVE  SupervisorIs(s, "dispatch", None, supervisor[s].stale)
         /\ supervisor'[s].seen = supervisor[s].seen
<1> DEFINE r == [supervisor[s] EXCEPT !.pc = "dispatch", !.pick = None, !.active = @ + 1]
<1>0. supervisor[s].active + 1 \in Nat
  BY DEF SupervisorRecord
<1>1. r \in SupervisorRecord
  BY <1>0, ZenonT(30) DEF SupervisorRecord, Off
<1>2. r.pc = "dispatch" /\ r.pick = None /\ r.stale = supervisor[s].stale
      /\ r.seen = supervisor[s].seen
  BY DEF SupervisorRecord, Off
<1>3. supervisor' = [supervisor EXCEPT ![s] = r]
  OBVIOUS
<1> HIDE DEF r
<1>4. SupervisorIs(s, r.pc, r.pick, r.stale) /\ supervisor'[s].seen = r.seen
  BY <1>1, <1>3, SupervisorUpdate
<1> QED BY <1>2, <1>4

LEMMA SupervisorGivesUp ==
  ASSUME supervisor \in [Supervisors -> SupervisorRecord], NEW s \in Supervisors,
         supervisor' = [supervisor EXCEPT ![s].pc = "dispatch", ![s].pick = None]
  PROVE  SupervisorIs(s, "dispatch", None, supervisor[s].stale)
         /\ supervisor'[s].seen = supervisor[s].seen
<1> DEFINE r == [supervisor[s] EXCEPT !.pc = "dispatch", !.pick = None]
<1>1. r \in SupervisorRecord
  BY ZenonT(30) DEF SupervisorRecord, Off
<1>2. r.pc = "dispatch" /\ r.pick = None /\ r.stale = supervisor[s].stale
      /\ r.seen = supervisor[s].seen
  BY DEF SupervisorRecord, Off
<1>3. supervisor' = [supervisor EXCEPT ![s] = r]
  OBVIOUS
<1> HIDE DEF r
<1>4. SupervisorIs(s, r.pc, r.pick, r.stale) /\ supervisor'[s].seen = r.seen
  BY <1>1, <1>3, SupervisorUpdate
<1> QED BY <1>2, <1>4

LEMMA SupervisorReconciles ==
  ASSUME supervisor \in [Supervisors -> SupervisorRecord], NEW s \in Supervisors, NEW j \in Jobs,
         supervisor' = [supervisor EXCEPT ![s].stale = @ \ {j}, ![s].seen[j] = None]
  PROVE  /\ SupervisorIs(s, supervisor[s].pc, supervisor[s].pick, supervisor[s].stale \ {j})
         /\ \A k \in Jobs \ {j} : supervisor'[s].seen[k] = supervisor[s].seen[k]
<1> DEFINE f == [supervisor[s].seen EXCEPT ![j] = None]
           r == [supervisor[s] EXCEPT !.stale = @ \ {j}, !.seen = f]
<1>1. f \in [Jobs -> JobRecord \cup {None}] /\ \A k \in Jobs \ {j} : f[k] = supervisor[s].seen[k]
  BY DEF SupervisorRecord
<1>2. supervisor' = [supervisor EXCEPT ![s] = r]
  OBVIOUS
<1> HIDE DEF f
<1>3. r \in SupervisorRecord
  BY <1>1 DEF SupervisorRecord
<1>4. r.pc = supervisor[s].pc /\ r.pick = supervisor[s].pick
      /\ r.stale = supervisor[s].stale \ {j} /\ r.seen = f
  BY DEF SupervisorRecord
<1> HIDE DEF r
<1>5. SupervisorIs(s, r.pc, r.pick, r.stale) /\ supervisor'[s].seen = r.seen
  BY <1>2, <1>3, SupervisorUpdate
<1> QED BY <1>1, <1>4, <1>5

RunIs(j, status) ==
  /\ run' \in [Jobs -> {"absent", "queued", "running", "retrying"} \cup RunEnded]
  /\ \A k \in Jobs \ {j} : run'[k] = run[k]
  /\ run'[j] = status

LEMMA RunUpdate ==
  ASSUME run \in [Jobs -> {"absent", "queued", "running", "retrying"} \cup RunEnded],
         NEW j \in Jobs,
         NEW status \in {"absent", "queued", "running", "retrying"} \cup RunEnded,
         run' = [run EXCEPT ![j] = status]
  PROVE  RunIs(j, status)
BY DEF RunIs

Command == [job : Jobs, attempt : Nat, signalled : BOOLEAN]

\* The commands after a step that launches none.
CommandsFrom ==
  /\ commands' \in SUBSET Command
  /\ \A c \in commands' : \E d \in commands : c.job = d.job /\ c.attempt = d.attempt
  /\ \A c, d \in commands' : c.job = d.job /\ c.attempt = d.attempt => c = d

\* SIGTERM leaves a command where it is, its job and its attempt.
LEMMA SignalledTyped ==
  ASSUME commands \subseteq Command, CommandsNumbered, NEW j, NEW n, commands' = Signalled(j, n)
  PROVE  CommandsFrom
<1> DEFINE F(c) == IF c.job = j /\ c.attempt = n THEN [c EXCEPT !.signalled = TRUE] ELSE c
<1>1. ASSUME NEW c \in commands
      PROVE  F(c) \in Command /\ F(c).job = c.job /\ F(c).attempt = c.attempt
  BY DEF Command
<1>2. commands' = {F(c) : c \in commands}
  BY DEF Signalled
<1> HIDE DEF F
<1>3. commands' \in SUBSET Command
  BY <1>1, <1>2
<1>4. \A c \in commands' : \E d \in commands : c = F(d) /\ c.job = d.job /\ c.attempt = d.attempt
  BY <1>1, <1>2
<1>5. ASSUME NEW c \in commands', NEW d \in commands', c.job = d.job, c.attempt = d.attempt
      PROVE  c = d
  <2>1. PICK a \in commands : c = F(a) /\ c.job = a.job /\ c.attempt = a.attempt
    BY <1>4
  <2>2. PICK b \in commands : d = F(b) /\ d.job = b.job /\ d.attempt = b.attempt
    BY <1>4
  <2>3. a = b
    BY <1>5, <2>1, <2>2 DEF CommandsNumbered
  <2> QED BY <2>1, <2>2, <2>3
<1> QED BY <1>3, <1>4, <1>5 DEF CommandsFrom

LEMMA FewerCommands ==
  ASSUME commands \subseteq Command, CommandsNumbered, commands' \subseteq commands
  PROVE  CommandsFrom
BY DEF CommandsFrom, CommandsNumbered

\* The ranges of the fields the invariant speaks of.
Ranges ==
  /\ None \notin Jobs /\ {None, "dead"} \cap Supervisors = {} /\ MaxAttempts \in Nat \ {0}
  /\ Blocking \subseteq Jobs
  /\ \A c \in commands : c.job \in Jobs /\ c.attempt \in Nat
  /\ \A k \in Jobs : job[k].attempts \in Nat
  /\ \A v \in Workers :
       /\ worker[v].job \in Jobs \cup {None} /\ worker[v].attempt \in Nat
       /\ worker[v].outcome \in Exits \cup RunEnded
       /\ worker[v].pc # "gone" => worker[v].job \in Jobs
  /\ \A r \in Supervisors :
       /\ supervisor[r].pick \in Jobs \cup {None} /\ supervisor[r].stale \subseteq Jobs
       /\ supervisor[r].pc \in {"picked", "spawn"} => supervisor[r].pick \in Jobs
\* The fields have their types.
LEMMA InRange == JInv => Ranges
<1> SUFFICES ASSUME JInv PROVE Ranges
  OBVIOUS
<1>1. None \notin Jobs /\ {None, "dead"} \cap Supervisors = {} /\ MaxAttempts \in Nat \ {0}
      /\ Blocking \subseteq Jobs
  BY JobsAssumption, LimitsAssumption
<1>2. ASSUME NEW k \in Jobs PROVE job[k].attempts \in Nat
  BY DEF JInv, TypeOK, JobRecord
<1>3. ASSUME NEW v \in Workers
      PROVE  /\ worker[v].job \in Jobs \cup {None} /\ worker[v].attempt \in Nat
             /\ worker[v].outcome \in Exits \cup RunEnded
             /\ worker[v].pc # "gone" => worker[v].job \in Jobs
  BY DEF JInv, TypeOK, WorkerRecord, WorkersOwn
<1>4. ASSUME NEW r \in Supervisors
      PROVE  /\ supervisor[r].pick \in Jobs \cup {None} /\ supervisor[r].stale \subseteq Jobs
             /\ supervisor[r].pc \in {"picked", "spawn"} => supervisor[r].pick \in Jobs
  BY DEF JInv, TypeOK, SupervisorRecord, SpawnFree
<1>5. \A c \in commands : c.job \in Jobs /\ c.attempt \in Nat
  BY DEF JInv, TypeOK
<1> QED BY <1>1, <1>2, <1>3, <1>4, <1>5 DEF Ranges

-----------------------------------------------------------------------------
(* Each action keeps the invariant: first what it changes, then each        *)
(* conjunct that speaks of it.                                              *)

LEMMA EnqueueKeeps ==
  ASSUME JInv, NEW j \in Jobs, Enqueue(j)
  PROVE  JInv'
<1>a. Ranges /\ TypeOK
  BY InRange DEF JInv
<1>1. UNCHANGED <<marker, commands, worker, supervisor, lease, kill, budget>>
  BY <1>a DEF Enqueue
<1>2. job[j].status = "absent" /\ JobIs(j, "queued", job[j].attempts, job[j].cancel, job[j].stale,
      job[j].timedOut)
  BY <1>a, JobEnqueued DEF TypeOK, Enqueue
<1>3. RunIs(j, "queued")
  BY <1>a, RunUpdate DEF TypeOK, Enqueue
<1>4. TypeOK'
  BY <1>a, <1>1, <1>2, <1>3 DEF TypeOK, Command, JobIs, RunIs
<1>5. WorkersOwn'
  BY <1>a, <1>1, <1>2 DEF JInv, Ranges, WorkersOwn, Killed, Waiting, Active, JobEnded, RunEnded,
     JobIs
<1>6. SpawnFree'
  BY <1>a, <1>1, <1>2 DEF JInv, Ranges, SpawnFree, HasWorker, Killed, Waiting, Active, JobEnded,
     RunEnded, JobIs
<1>7. SnapshotFresh'
  BY <1>a, <1>1, <1>2 DEF JInv, Ranges, SnapshotFresh, HasWorker, Killed, Waiting, Active,
     JobEnded, RunEnded, JobIs
<1>8. AttemptLeft'
  BY <1>a, <1>1, <1>2 DEF JInv, Ranges, AttemptLeft, Waiting, Active, JobEnded, RunEnded, JobIs
<1>9. CommandsNumbered'
  BY <1>a, <1>1, <1>2 DEF JInv, Ranges, CommandsNumbered, Waiting, Active, JobEnded, RunEnded,
     JobIs
<1>10. WorkspaceApart'
  BY <1>a, <1>1, <1>2 DEF JInv, Ranges, WorkspaceApart, Occupies, Waiting, Active, JobEnded,
     RunEnded, JobIs
<1>11. JobAndRunAgree'
  BY <1>a, <1>1, <1>2, <1>3 DEF JInv, Ranges, JobAndRunAgree, LeftAlone, Waiting, Active,
     JobEnded, RunEnded, JobIs, RunIs
<1>12. (WorkersApart /\ LeaseHeld)'
  BY <1>a, <1>1 DEF JInv, WorkersApart, LeaseHeld
<1> QED BY <1>4, <1>5, <1>6, <1>7, <1>8, <1>9, <1>10, <1>11, <1>12 DEF JInv

LEMMA KillReadsKeeps ==
  ASSUME JInv, NEW j \in Jobs, KillReads(j)
  PROVE  JInv'
<1>a. Ranges /\ TypeOK
  BY InRange DEF JInv
<1>1. UNCHANGED <<job, run, marker, commands, worker, supervisor, lease>>
  BY <1>a DEF KillReads
<1>2. kill.job = None /\ kill' \in [job : Jobs \cup {None}, waiting : BOOLEAN, ref : Nat]
      /\ kill'.job = j
  BY <1>a DEF TypeOK, KillReads, JobRecord
<1>3. budget' \in [crashes : 0..MaxCrashes, kills : 0..MaxKills]
  BY <1>a, BoundsAssumption DEF TypeOK, KillReads
<1>4. TypeOK'
  BY <1>a, <1>1, <1>2, <1>3 DEF TypeOK, Command
<1>5. JobAndRunAgree'
  BY <1>a, <1>1, <1>2 DEF JInv, Ranges, JobAndRunAgree, LeftAlone, Waiting, Active, JobEnded,
     RunEnded
<1>6. (WorkersOwn /\ WorkersApart /\ LeaseHeld /\ SpawnFree /\ SnapshotFresh /\ AttemptLeft
      /\ CommandsNumbered /\ WorkspaceApart)'
  BY <1>a, <1>1 DEF JInv, WorkersOwn, Killed, WorkersApart, LeaseHeld, SpawnFree, HasWorker,
     Killed, SnapshotFresh, HasWorker, Killed, AttemptLeft, CommandsNumbered, WorkspaceApart,
     Occupies
<1> QED BY <1>4, <1>5, <1>6 DEF JInv

LEMMA SilenceKeeps ==
  ASSUME JInv, NEW j \in Jobs, Silence(j)
  PROVE  JInv'
<1>a. Ranges /\ TypeOK
  BY InRange DEF JInv
<1>1. UNCHANGED <<run, marker, commands, worker, supervisor, lease, kill, budget>>
  BY <1>a DEF Silence
<1>2. job[j].status \in Active /\ ~HasWorker(j)
      /\ \A s \in Supervisors : supervisor[s].pc = "spawn" => supervisor[s].pick # j
  BY <1>a DEF Silence, HasWorker
<1>3. JobIs(j, job[j].status, job[j].attempts, job[j].cancel, TRUE, job[j].timedOut)
  BY <1>a, JobStale DEF TypeOK, Silence
<1>4. TypeOK'
  BY <1>a, <1>1, <1>2, <1>3 DEF TypeOK, Command, JobIs
<1>5. WorkersOwn'
  BY <1>a, <1>1, <1>2, <1>3 DEF JInv, Ranges, WorkersOwn, Killed, HasWorker, Waiting, Active,
     JobEnded, RunEnded, JobIs
<1>6. SpawnFree'
  BY <1>a, <1>1, <1>2, <1>3 DEF JInv, Ranges, SpawnFree, HasWorker, Killed, Waiting, Active,
     JobEnded, RunEnded, JobIs
<1>7. SnapshotFresh'
  BY <1>a, <1>1, <1>2, <1>3 DEF JInv, Ranges, SnapshotFresh, HasWorker, Killed, Waiting, Active,
     JobEnded, RunEnded, JobIs
<1>8. AttemptLeft'
  BY <1>a, <1>1, <1>2, <1>3 DEF JInv, Ranges, AttemptLeft, Waiting, Active, JobEnded, RunEnded,
     JobIs
<1>9. CommandsNumbered'
  BY <1>a, <1>1, <1>2, <1>3 DEF JInv, Ranges, CommandsNumbered, Waiting, Active, JobEnded,
     RunEnded, JobIs
<1>10. WorkspaceApart'
  BY <1>a, <1>1, <1>2, <1>3 DEF JInv, Ranges, WorkspaceApart, Occupies, Waiting, Active, JobEnded,
     RunEnded, JobIs
<1>11. JobAndRunAgree'
  BY <1>a, <1>1, <1>2, <1>3 DEF JInv, Ranges, JobAndRunAgree, LeftAlone, Waiting, Active,
     JobEnded, RunEnded, JobIs
<1>12. (WorkersApart /\ LeaseHeld)'
  BY <1>a, <1>1 DEF JInv, WorkersApart, LeaseHeld
<1> QED BY <1>4, <1>5, <1>6, <1>7, <1>8, <1>9, <1>10, <1>11, <1>12 DEF JInv

LEMMA RetryDueKeeps ==
  ASSUME JInv, NEW j \in Jobs, RetryDue(j)
  PROVE  JInv'
<1>a. Ranges /\ TypeOK
  BY InRange DEF JInv
<1>1. UNCHANGED <<run, marker, commands, worker, supervisor, lease, kill, budget>>
  BY <1>a DEF RetryDue
<1>2. JobIs(j, job[j].status, job[j].attempts, job[j].cancel, job[j].stale, job[j].timedOut)
  BY <1>a, JobDue DEF TypeOK, RetryDue
<1>3. TypeOK'
  BY <1>a, <1>1, <1>2 DEF TypeOK, Command, JobIs
<1>4. WorkersOwn'
  BY <1>a, <1>1, <1>2 DEF JInv, Ranges, WorkersOwn, Killed, Waiting, Active, JobEnded, RunEnded,
     JobIs
<1>5. SpawnFree'
  BY <1>a, <1>1, <1>2 DEF JInv, Ranges, SpawnFree, HasWorker, Killed, Waiting, Active, JobEnded,
     RunEnded, JobIs
<1>6. SnapshotFresh'
  BY <1>a, <1>1, <1>2 DEF JInv, Ranges, SnapshotFresh, HasWorker, Killed, Waiting, Active,
     JobEnded, RunEnded, JobIs
<1>7. AttemptLeft'
  BY <1>a, <1>1, <1>2 DEF JInv, Ranges, AttemptLeft, Waiting, Active, JobEnded, RunEnded, JobIs
<1>8. CommandsNumbered'
  BY <1>a, <1>1, <1>2 DEF JInv, Ranges, CommandsNumbered, Waiting, Active, JobEnded, RunEnded,
     JobIs
<1>9. WorkspaceApart'
  BY <1>a, <1>1, <1>2 DEF JInv, Ranges, WorkspaceApart, Occupies, Waiting, Active, JobEnded,
     RunEnded, JobIs
<1>10. JobAndRunAgree'
  BY <1>a, <1>1, <1>2 DEF JInv, Ranges, JobAndRunAgree, LeftAlone, Waiting, Active, JobEnded,
     RunEnded, JobIs
<1>11. (WorkersApart /\ LeaseHeld)'
  BY <1>a, <1>1 DEF JInv, WorkersApart, LeaseHeld
<1> QED BY <1>3, <1>4, <1>5, <1>6, <1>7, <1>8, <1>9, <1>10, <1>11 DEF JInv

LEMMA TimeoutPassesKeeps ==
  ASSUME JInv, NEW j \in Jobs, TimeoutPasses(j)
  PROVE  JInv'
<1>a. Ranges /\ TypeOK
  BY InRange DEF JInv
<1>1. UNCHANGED <<run, marker, commands, worker, supervisor, lease, kill, budget>>
  BY <1>a DEF TimeoutPasses
<1>2. JobIs(j, job[j].status, job[j].attempts, job[j].cancel, job[j].stale, TRUE)
  BY <1>a, JobTimedOut DEF TypeOK, TimeoutPasses
<1>3. TypeOK'
  BY <1>a, <1>1, <1>2 DEF TypeOK, Command, JobIs
<1>4. WorkersOwn'
  BY <1>a, <1>1, <1>2 DEF JInv, Ranges, WorkersOwn, Killed, Waiting, Active, JobEnded, RunEnded,
     JobIs
<1>5. SpawnFree'
  BY <1>a, <1>1, <1>2 DEF JInv, Ranges, SpawnFree, HasWorker, Killed, Waiting, Active, JobEnded,
     RunEnded, JobIs
<1>6. SnapshotFresh'
  BY <1>a, <1>1, <1>2 DEF JInv, Ranges, SnapshotFresh, HasWorker, Killed, Waiting, Active,
     JobEnded, RunEnded, JobIs
<1>7. AttemptLeft'
  BY <1>a, <1>1, <1>2 DEF JInv, Ranges, AttemptLeft, Waiting, Active, JobEnded, RunEnded, JobIs
<1>8. CommandsNumbered'
  BY <1>a, <1>1, <1>2 DEF JInv, Ranges, CommandsNumbered, Waiting, Active, JobEnded, RunEnded,
     JobIs
<1>9. WorkspaceApart'
  BY <1>a, <1>1, <1>2 DEF JInv, Ranges, WorkspaceApart, Occupies, Waiting, Active, JobEnded,
     RunEnded, JobIs
<1>10. JobAndRunAgree'
  BY <1>a, <1>1, <1>2 DEF JInv, Ranges, JobAndRunAgree, LeftAlone, Waiting, Active, JobEnded,
     RunEnded, JobIs
<1>11. (WorkersApart /\ LeaseHeld)'
  BY <1>a, <1>1 DEF JInv, WorkersApart, LeaseHeld
<1> QED BY <1>3, <1>4, <1>5, <1>6, <1>7, <1>8, <1>9, <1>10, <1>11 DEF JInv

LEMMA KillWritesKeeps ==
  ASSUME JInv, KillWrites
  PROVE  JInv'
<1> DEFINE j == kill.job
<1>a. Ranges /\ TypeOK
  BY InRange DEF JInv
<1>1. CASE kill.waiting
  <2>1. UNCHANGED <<marker, worker, supervisor, lease, budget>>
    BY <1>1, <1>a DEF KillWrites
  <2>2. j \in Jobs
    BY <1>1, <1>a DEF KillWrites, TypeOK
  <2>3. JobIs(j, "canceled", job[j].attempts, TRUE, job[j].stale, job[j].timedOut)
    BY <1>1, <1>a, <2>2, JobKilled DEF TypeOK, KillWrites
  <2>4. RunIs(j, "killed")
    BY <1>1, <1>a, <2>2, RunUpdate DEF TypeOK, KillWrites, RunEnded
  <2>5. kill' \in [job : Jobs \cup {None}, waiting : BOOLEAN, ref : Nat]
    BY <1>1, <1>a DEF KillWrites, NoKill, TypeOK
  <2>6. CommandsFrom
    BY <1>1, <1>a, SignalledTyped DEF JInv, TypeOK, Command, KillWrites
  <2>7. TypeOK'
    BY <1>1, <1>a, <2>1, <2>2, <2>3, <2>4, <2>5, <2>6 DEF TypeOK, Command, JobIs, RunIs,
       CommandsFrom
  <2>8. WorkersOwn'
    BY <1>1, <1>a, <2>1, <2>2, <2>3 DEF JInv, Ranges, WorkersOwn, Killed, Waiting, Active,
       JobEnded, RunEnded, JobIs
  <2>9. SpawnFree'
    BY <1>1, <1>a, <2>1, <2>2, <2>3 DEF JInv, Ranges, SpawnFree, HasWorker, Killed, Waiting,
       Active, JobEnded, RunEnded, JobIs
  <2>10. SnapshotFresh'
    BY <1>1, <1>a, <2>1, <2>2, <2>3 DEF JInv, Ranges, SnapshotFresh, HasWorker, Killed, Waiting,
       Active, JobEnded, RunEnded, JobIs
  <2>11. AttemptLeft'
    BY <1>1, <1>a, <2>1, <2>2, <2>3 DEF JInv, Ranges, AttemptLeft, Waiting, Active, JobEnded,
       RunEnded, JobIs
  <2>12. CommandsNumbered'
    BY <1>1, <1>a, <2>1, <2>2, <2>3, <2>6 DEF JInv, Ranges, CommandsNumbered, Waiting, Active,
       JobEnded, RunEnded, JobIs, CommandsFrom
  <2>13. WorkspaceApart'
    BY <1>1, <1>a, <2>1, <2>2, <2>3 DEF JInv, Ranges, WorkspaceApart, Occupies, Waiting, Active,
       JobEnded, RunEnded, JobIs
  <2>14. JobAndRunAgree'
    BY <1>1, <1>a, <2>1, <2>2, <2>3, <2>4 DEF JInv, Ranges, JobAndRunAgree, LeftAlone, Waiting,
       Active, JobEnded, RunEnded, JobIs, RunIs
  <2>15. (WorkersApart /\ LeaseHeld)'
    BY <1>1, <1>a, <2>1 DEF JInv, WorkersApart, LeaseHeld
  <2> QED BY <2>7, <2>8, <2>9, <2>10, <2>11, <2>12, <2>13, <2>14, <2>15 DEF JInv
<1>2. CASE ~kill.waiting
  <2>1. UNCHANGED <<marker, worker, supervisor, lease, budget>>
    BY <1>2, <1>a DEF KillWrites
  <2>2. j \in Jobs
    BY <1>2, <1>a DEF KillWrites, TypeOK
  <2>3. JobIs(j, job[j].status, job[j].attempts, TRUE, job[j].stale, job[j].timedOut)
    BY <1>2, <1>a, <2>2, JobAskedToEnd DEF TypeOK, KillWrites
  <2>4. run' = run
    BY <1>2, <1>a DEF KillWrites
  <2>5. kill' \in [job : Jobs \cup {None}, waiting : BOOLEAN, ref : Nat]
    BY <1>2, <1>a DEF KillWrites, NoKill, TypeOK
  <2>6. CommandsFrom
    BY <1>2, <1>a, SignalledTyped DEF JInv, TypeOK, Command, KillWrites
  <2>7. TypeOK'
    BY <1>2, <1>a, <2>1, <2>2, <2>3, <2>4, <2>5, <2>6 DEF TypeOK, Command, JobIs, RunIs,
       CommandsFrom
  <2>8. WorkersOwn'
    BY <1>2, <1>a, <2>1, <2>2, <2>3, <2>4 DEF JInv, Ranges, WorkersOwn, Killed, Waiting, Active,
       JobEnded, RunEnded, JobIs
  <2>9. SpawnFree'
    BY <1>2, <1>a, <2>1, <2>2, <2>3, <2>4 DEF JInv, Ranges, SpawnFree, HasWorker, Killed, Waiting,
       Active, JobEnded, RunEnded, JobIs
  <2>10. SnapshotFresh'
    BY <1>2, <1>a, <2>1, <2>2, <2>3, <2>4 DEF JInv, Ranges, SnapshotFresh, HasWorker, Killed,
       Waiting, Active, JobEnded, RunEnded, JobIs
  <2>11. AttemptLeft'
    BY <1>2, <1>a, <2>1, <2>2, <2>3, <2>4 DEF JInv, Ranges, AttemptLeft, Waiting, Active,
       JobEnded, RunEnded, JobIs
  <2>12. CommandsNumbered'
    BY <1>2, <1>a, <2>1, <2>2, <2>3, <2>4, <2>6 DEF JInv, Ranges, CommandsNumbered, Waiting,
       Active, JobEnded, RunEnded, JobIs, CommandsFrom
  <2>13. WorkspaceApart'
    BY <1>2, <1>a, <2>1, <2>2, <2>3, <2>4 DEF JInv, Ranges, WorkspaceApart, Occupies, Waiting,
       Active, JobEnded, RunEnded, JobIs
  <2>14. JobAndRunAgree'
    BY <1>2, <1>a, <2>1, <2>2, <2>3, <2>4 DEF JInv, Ranges, JobAndRunAgree, LeftAlone, Waiting,
       Active, JobEnded, RunEnded, JobIs
  <2>15. (WorkersApart /\ LeaseHeld)'
    BY <1>2, <1>a, <2>1 DEF JInv, WorkersApart, LeaseHeld
  <2> QED BY <2>7, <2>8, <2>9, <2>10, <2>11, <2>12, <2>13, <2>14, <2>15 DEF JInv
<1> QED BY <1>1, <1>2 DEF KillWrites

LEMMA CommandStopsKeeps ==
  ASSUME JInv, NEW j \in Jobs, NEW n \in 1..MaxAttempts, CommandStops(j, n)
  PROVE  JInv'
<1>a. Ranges /\ TypeOK
  BY InRange DEF JInv
<1>1. UNCHANGED <<job, run, marker, worker, supervisor, lease, kill, budget>>
  BY <1>a DEF CommandStops
<1>2. commands' \subseteq commands
  BY <1>a DEF CommandStops
<1>3. CommandsFrom
  BY <1>a, <1>2, FewerCommands DEF JInv, TypeOK, Command
<1>4. TypeOK'
  BY <1>a, <1>1, <1>2, <1>3 DEF TypeOK, Command, CommandsFrom
<1>5. CommandsNumbered'
  BY <1>a, <1>1, <1>2, <1>3 DEF JInv, Ranges, CommandsNumbered, Waiting, Active, JobEnded,
     RunEnded, CommandsFrom
<1>6. (WorkersOwn /\ WorkersApart /\ LeaseHeld /\ SpawnFree /\ SnapshotFresh /\ AttemptLeft
      /\ WorkspaceApart /\ JobAndRunAgree)'
  BY <1>a, <1>1 DEF JInv, WorkersOwn, Killed, WorkersApart, LeaseHeld, SpawnFree, HasWorker,
     Killed, SnapshotFresh, HasWorker, Killed, AttemptLeft, WorkspaceApart, Occupies,
     JobAndRunAgree, LeftAlone
<1> QED BY <1>4, <1>5, <1>6 DEF JInv

LEMMA CommandExitsKeeps ==
  ASSUME JInv, NEW j \in Jobs, NEW n \in 1..MaxAttempts, NEW exit \in Exits, CommandExits(j, n,
         exit)
  PROVE  JInv'
<1>a. Ranges /\ TypeOK
  BY InRange DEF JInv
<1>1. UNCHANGED <<job, run, worker, supervisor, lease, kill, budget>>
  BY <1>a DEF CommandExits
<1>2. commands' \subseteq commands
  BY <1>a DEF CommandExits
<1>3. CommandsFrom
  BY <1>a, <1>2, FewerCommands DEF JInv, TypeOK, Command
<1>4. marker' \in [Jobs -> Exits \cup {None}]
  BY <1>a DEF TypeOK, CommandExits
<1>5. TypeOK'
  BY <1>a, <1>1, <1>2, <1>3, <1>4 DEF TypeOK, Command, CommandsFrom
<1>6. CommandsNumbered'
  BY <1>a, <1>1, <1>2, <1>3 DEF JInv, Ranges, CommandsNumbered, Waiting, Active, JobEnded,
     RunEnded, CommandsFrom
<1>7. (WorkersOwn /\ WorkersApart /\ LeaseHeld /\ SpawnFree /\ SnapshotFresh /\ AttemptLeft
      /\ WorkspaceApart /\ JobAndRunAgree)'
  BY <1>a, <1>1 DEF JInv, WorkersOwn, Killed, WorkersApart, LeaseHeld, SpawnFree, HasWorker,
     Killed, SnapshotFresh, HasWorker, Killed, AttemptLeft, WorkspaceApart, Occupies,
     JobAndRunAgree, LeftAlone
<1> QED BY <1>5, <1>6, <1>7 DEF JInv

LEMMA ClaimKeeps ==
  ASSUME JInv, NEW w \in Workers, Claim(w)
  PROVE  JInv'
<1> DEFINE j == worker[w].job
<1>a. Ranges /\ TypeOK
  BY InRange DEF JInv
<1>1. CASE job[j].status = "dispatched"
  <2>1. UNCHANGED <<run, marker, commands, supervisor, lease, kill, budget>>
    BY <1>1, <1>a DEF Claim
  <2>2. worker[w].pc = "boot" /\ j \in Jobs
    <3>1. worker[w].pc = "boot"
      BY <1>1, Zenon DEF Claim
    <3> QED BY <3>1, <1>a DEF Ranges
  <2>3. JobIs(j, "running", job[j].attempts + 1, job[j].cancel, FALSE, FALSE)
    BY <1>1, <1>a, <2>2, JobClaimed, Zenon DEF TypeOK, Claim
  <2>4. job[j].attempts + 1 \in Nat
    BY <1>1, <1>a, <2>2 DEF Ranges
  <2>5. worker' = [worker EXCEPT ![w].pc = "claimed", ![w].attempt = job[j].attempts + 1]
    BY <1>1, <1>a DEF Claim
  <2>6. WorkerIs(w, j, "claimed", job[j].attempts + 1)
    BY <1>1, <1>a, <2>4, <2>5, WorkerClaims DEF TypeOK
  <2>7. TypeOK'
    BY <1>1, <1>a, <2>1, <2>2, <2>3, <2>4, <2>5, <2>6 DEF TypeOK, Command, JobIs, WorkerIs
  <2>8. WorkersOwn'
    BY <1>1, <1>a, <2>1, <2>2, <2>3, <2>4, <2>6 DEF JInv, Ranges, WorkersOwn, Killed,
       WorkersApart, Waiting, Active, JobEnded, RunEnded, JobIs, WorkerIs
  <2>9. WorkersApart'
    BY <1>1, <1>a, <2>1, <2>2, <2>4, <2>6 DEF JInv, Ranges, WorkersApart, WorkerIs
  <2>10. SpawnFree'
    BY <1>1, <1>a, <2>1, <2>2, <2>3, <2>4, <2>6 DEF JInv, Ranges, SpawnFree, HasWorker, Killed,
       Waiting, Active, JobEnded, RunEnded, JobIs, WorkerIs
  <2>11. SnapshotFresh'
    BY <1>1, <1>a, <2>1, <2>2, <2>3, <2>4, <2>6 DEF JInv, Ranges, SnapshotFresh, HasWorker,
       Killed, Waiting, Active, JobEnded, RunEnded, JobIs, WorkerIs
  <2>12. AttemptLeft'
    BY <1>1, <1>a, <2>1, <2>2, <2>3, <2>4 DEF JInv, Ranges, AttemptLeft, Waiting, Active,
       JobEnded, RunEnded, JobIs
  <2>13. CommandsNumbered'
    BY <1>1, <1>a, <2>1, <2>2, <2>3, <2>4, <2>6 DEF JInv, Ranges, CommandsNumbered, WorkersOwn,
       WorkersApart, Waiting, Active, JobEnded, RunEnded, JobIs, WorkerIs
  <2>14. WorkspaceApart'
    BY <1>1, <1>a, <2>1, <2>2, <2>3, <2>4 DEF JInv, Ranges, WorkspaceApart, Occupies, Waiting,
       Active, JobEnded, RunEnded, JobIs
  <2>15. JobAndRunAgree'
    BY <1>1, <1>a, <2>1, <2>2, <2>3, <2>4 DEF JInv, Ranges, JobAndRunAgree, LeftAlone, WorkersOwn,
       Killed, Waiting, Active, JobEnded, RunEnded, JobIs
  <2>16. (LeaseHeld)'
    BY <1>1, <1>a, <2>1 DEF JInv, LeaseHeld
  <2> QED BY <2>7, <2>8, <2>9, <2>10, <2>11, <2>12, <2>13, <2>14, <2>15, <2>16 DEF JInv
<1>2. CASE job[j].status # "dispatched"
  <2>1. UNCHANGED <<run, marker, commands, supervisor, lease, kill, budget>>
    BY <1>2, <1>a DEF Claim
  <2>2. worker[w].pc = "boot" /\ j \in Jobs
    <3>1. worker[w].pc = "boot"
      BY <1>2, Zenon DEF Claim
    <3> QED BY <3>1, <1>a DEF Ranges
  <2>3. job' = job
    BY <1>2, <1>a DEF Claim
  <2>4. WorkerIs(w, None, "gone", 0)
    BY <1>2, <1>a, WorkerGoes DEF TypeOK, Claim
  <2>5. TypeOK'
    BY <1>2, <1>a, <2>1, <2>2, <2>3, <2>4 DEF TypeOK, Command, JobIs, WorkerIs
  <2>6. WorkersOwn'
    BY <1>2, <1>a, <2>1, <2>2, <2>3, <2>4 DEF JInv, Ranges, WorkersOwn, Killed, WorkersApart,
       Waiting, Active, JobEnded, RunEnded, WorkerIs
  <2>7. WorkersApart'
    BY <1>2, <1>a, <2>1, <2>2, <2>3, <2>4 DEF JInv, Ranges, WorkersApart, WorkerIs
  <2>8. SpawnFree'
    BY <1>2, <1>a, <2>1, <2>2, <2>3, <2>4 DEF JInv, Ranges, SpawnFree, HasWorker, Killed, Waiting,
       Active, JobEnded, RunEnded, WorkerIs
  <2>9. SnapshotFresh'
    BY <1>2, <1>a, <2>1, <2>2, <2>3, <2>4 DEF JInv, Ranges, SnapshotFresh, HasWorker, Killed,
       Waiting, Active, JobEnded, RunEnded, WorkerIs
  <2>10. AttemptLeft'
    BY <1>2, <1>a, <2>1, <2>2, <2>3 DEF JInv, Ranges, AttemptLeft, Waiting, Active, JobEnded,
       RunEnded
  <2>11. CommandsNumbered'
    BY <1>2, <1>a, <2>1, <2>2, <2>3, <2>4 DEF JInv, Ranges, CommandsNumbered, WorkersOwn,
       WorkersApart, Waiting, Active, JobEnded, RunEnded, WorkerIs
  <2>12. WorkspaceApart'
    BY <1>2, <1>a, <2>1, <2>2, <2>3 DEF JInv, Ranges, WorkspaceApart, Occupies, Waiting, Active,
       JobEnded, RunEnded
  <2>13. JobAndRunAgree'
    BY <1>2, <1>a, <2>1, <2>2, <2>3 DEF JInv, Ranges, JobAndRunAgree, LeftAlone, WorkersOwn,
       Killed, Waiting, Active, JobEnded, RunEnded
  <2>14. (LeaseHeld)'
    BY <1>2, <1>a, <2>1 DEF JInv, LeaseHeld
  <2> QED BY <2>5, <2>6, <2>7, <2>8, <2>9, <2>10, <2>11, <2>12, <2>13, <2>14 DEF JInv
<1> QED BY <1>1, <1>2 DEF Claim

LEMMA SaveRunKeeps ==
  ASSUME JInv, NEW w \in Workers, SaveRun(w)
  PROVE  JInv'
<1> DEFINE j == worker[w].job
<1>a. Ranges /\ TypeOK
  BY InRange DEF JInv
<1>1. UNCHANGED <<job, marker, commands, supervisor, lease, kill, budget>>
  BY <1>a DEF SaveRun
<1>2. worker[w].pc = "claimed" /\ j \in Jobs
  <2>1. worker[w].pc = "claimed"
    BY Zenon DEF SaveRun
  <2> QED BY <2>1, <1>a DEF Ranges
<1>3. RunIs(j, "running")
  BY <1>a, <1>2, RunUpdate DEF TypeOK, SaveRun
<1>4. WorkerIs(w, j, "launch", worker[w].attempt)
  BY <1>a, WorkerMoves DEF TypeOK, SaveRun
<1>5. TypeOK'
  BY <1>a, <1>1, <1>2, <1>3, <1>4 DEF TypeOK, Command, RunIs, WorkerIs
<1>6. WorkersOwn'
  BY <1>a, <1>1, <1>2, <1>4 DEF JInv, Ranges, WorkersOwn, Killed, WorkersApart, Waiting, Active,
     JobEnded, RunEnded, WorkerIs
<1>7. WorkersApart'
  BY <1>a, <1>1, <1>2, <1>4 DEF JInv, Ranges, WorkersApart, WorkerIs
<1>8. SpawnFree'
  BY <1>a, <1>1, <1>2, <1>4 DEF JInv, Ranges, SpawnFree, HasWorker, Killed, Waiting, Active,
     JobEnded, RunEnded, WorkerIs
<1>9. SnapshotFresh'
  BY <1>a, <1>1, <1>2, <1>4 DEF JInv, Ranges, SnapshotFresh, HasWorker, Killed, Waiting, Active,
     JobEnded, RunEnded, WorkerIs
<1>10. CommandsNumbered'
  BY <1>a, <1>1, <1>2, <1>4 DEF JInv, Ranges, CommandsNumbered, WorkersOwn, WorkersApart, Waiting,
     Active, JobEnded, RunEnded, WorkerIs
<1>11. JobAndRunAgree'
  BY <1>a, <1>1, <1>2, <1>3 DEF JInv, Ranges, JobAndRunAgree, LeftAlone, WorkersOwn, Killed,
     Waiting, Active, JobEnded, RunEnded, RunIs
<1>12. (LeaseHeld /\ AttemptLeft /\ WorkspaceApart)'
  BY <1>a, <1>1 DEF JInv, LeaseHeld, AttemptLeft, WorkspaceApart, Occupies
<1> QED BY <1>5, <1>6, <1>7, <1>8, <1>9, <1>10, <1>11, <1>12 DEF JInv

LEMMA LaunchKeeps ==
  ASSUME JInv, NEW w \in Workers, Launch(w)
  PROVE  JInv'
<1> DEFINE j == worker[w].job
<1>a. Ranges /\ TypeOK
  BY InRange DEF JInv
<1>1. UNCHANGED <<job, run, marker, supervisor, lease, kill, budget>>
  BY <1>a DEF Launch
<1>2. worker[w].pc = "launch" /\ j \in Jobs /\ worker[w].attempt \in Nat \ {0}
  <2>1. worker[w].pc = "launch"
    BY Zenon DEF Launch
  <2> QED BY <2>1, <1>a DEF Ranges, JInv, WorkersOwn
<1>3. WorkerIs(w, j, "spawned", worker[w].attempt)
  BY <1>a, WorkerMoves DEF TypeOK, Launch
<1>4. [job |-> j, attempt |-> worker[w].attempt, signalled |-> FALSE] \in Command
  BY <1>a, <1>2 DEF Command
<1>5. commands' = commands \cup {[job |-> j, attempt |-> worker[w].attempt, signalled |-> FALSE]}
  BY <1>a DEF Launch
<1>6. commands' \in SUBSET Command
  BY <1>a, <1>4, <1>5 DEF TypeOK, Command
<1>7. worker[w].attempt = job[j].attempts
  BY <1>a, <1>2 DEF JInv, CommandsNumbered
<1>8. TypeOK'
  BY <1>a, <1>1, <1>2, <1>3, <1>4, <1>5, <1>6, <1>7 DEF TypeOK, Command, WorkerIs
<1>9. WorkersOwn'
  BY <1>a, <1>1, <1>2, <1>3, <1>5, <1>6, <1>7 DEF JInv, Ranges, WorkersOwn, Killed, WorkersApart,
     Waiting, Active, JobEnded, RunEnded, WorkerIs
<1>10. WorkersApart'
  BY <1>a, <1>1, <1>2, <1>3, <1>5, <1>6, <1>7 DEF JInv, Ranges, WorkersApart, WorkerIs
<1>11. SpawnFree'
  BY <1>a, <1>1, <1>2, <1>3, <1>5, <1>6, <1>7 DEF JInv, Ranges, SpawnFree, HasWorker, Killed,
     Waiting, Active, JobEnded, RunEnded, WorkerIs
<1>12. SnapshotFresh'
  BY <1>a, <1>1, <1>2, <1>3, <1>5, <1>6, <1>7 DEF JInv, Ranges, SnapshotFresh, HasWorker, Killed,
     Waiting, Active, JobEnded, RunEnded, WorkerIs
<1>13. CommandsNumbered'
  <2> DEFINE new == [job |-> j, attempt |-> worker[w].attempt, signalled |-> FALSE]
  <2>1. new.job = j /\ new.attempt = worker[w].attempt
    OBVIOUS
  <2>2. \A c \in commands : c.job = j => c.attempt # worker[w].attempt
    BY <1>2 DEF JInv, CommandsNumbered
  <2> HIDE DEF new
  <2>3. \A c \in commands' : c \in commands \/ c = new
    BY <1>5 DEF new
  <2>4. \A c \in commands' : c.attempt # 0 /\ c.attempt <= job'[c.job].attempts
    BY <1>a, <1>1, <1>2, <1>7, <2>1, <2>3 DEF JInv, CommandsNumbered, Ranges
  <2>5. \A c, d \in commands' : c.job = d.job /\ c.attempt = d.attempt => c = d
    BY <2>1, <2>2, <2>3 DEF JInv, CommandsNumbered
  <2>6. ASSUME NEW v \in Workers
        PROVE  /\ worker'[v].pc \notin {"gone", "boot"} =>
                    worker'[v].attempt = job'[worker'[v].job].attempts
               /\ worker'[v].pc \in {"claimed", "launch"} =>
                    \A c \in commands' : c.job = worker'[v].job => c.attempt # worker'[v].attempt
    <3>1. CASE v = w
      BY <3>1, <1>1, <1>3, <1>7 DEF WorkerIs
    <3>2. CASE v # w
      <4>1. worker'[v] = worker[v]
        BY <3>2, <1>3 DEF WorkerIs
      <4>2. worker[v].pc # "gone" => worker[v].job # j
        BY <3>2, <1>a, <1>2 DEF JInv, WorkersApart, WorkersOwn, Ranges
      <4> QED BY <4>1, <4>2, <1>1, <2>1, <2>3 DEF JInv, CommandsNumbered
    <3> QED BY <3>1, <3>2
  <2> QED BY <2>4, <2>5, <2>6 DEF CommandsNumbered
<1>14. (LeaseHeld /\ AttemptLeft /\ WorkspaceApart /\ JobAndRunAgree)'
  BY <1>a, <1>1 DEF JInv, LeaseHeld, AttemptLeft, WorkspaceApart, Occupies, JobAndRunAgree,
     LeftAlone
<1> QED BY <1>8, <1>9, <1>10, <1>11, <1>12, <1>13, <1>14 DEF JInv

LEMMA LaunchFailsKeeps ==
  ASSUME JInv, NEW w \in Workers, LaunchFails(w)
  PROVE  JInv'
<1> DEFINE j == worker[w].job
<1>a. Ranges /\ TypeOK
  BY InRange DEF JInv
<1>1. UNCHANGED <<marker, commands, supervisor, lease, kill, budget>>
  BY <1>a DEF LaunchFails
<1>2. worker[w].pc = "launch" /\ j \in Jobs
  <2>1. worker[w].pc = "launch"
    BY Zenon DEF LaunchFails
  <2> QED BY <2>1, <1>a DEF Ranges
<1>3. JobIs(j, "failed", job[j].attempts, job[j].cancel, FALSE, job[j].timedOut)
  BY <1>a, <1>2, JobEnds DEF TypeOK, LaunchFails, End, StatusFor, JobEnded
<1>4. RunIs(j, "failed")
  BY <1>a, <1>2, RunUpdate DEF TypeOK, LaunchFails, End, RunEnded
<1>5. WorkerIs(w, None, "gone", 0)
  BY <1>a, WorkerGoes DEF TypeOK, LaunchFails
<1>6. TypeOK'
  BY <1>a, <1>1, <1>2, <1>3, <1>4, <1>5 DEF TypeOK, Command, JobIs, RunIs, WorkerIs
<1>7. WorkersOwn'
  BY <1>a, <1>1, <1>2, <1>3, <1>5 DEF JInv, Ranges, WorkersOwn, Killed, WorkersApart, Waiting,
     Active, JobEnded, RunEnded, JobIs, WorkerIs
<1>8. WorkersApart'
  BY <1>a, <1>1, <1>2, <1>5 DEF JInv, Ranges, WorkersApart, WorkerIs
<1>9. SpawnFree'
  BY <1>a, <1>1, <1>2, <1>3, <1>5 DEF JInv, Ranges, SpawnFree, HasWorker, Killed, Waiting, Active,
     JobEnded, RunEnded, JobIs, WorkerIs
<1>10. SnapshotFresh'
  BY <1>a, <1>1, <1>2, <1>3, <1>5 DEF JInv, Ranges, SnapshotFresh, HasWorker, Killed, Waiting,
     Active, JobEnded, RunEnded, JobIs, WorkerIs
<1>11. AttemptLeft'
  BY <1>a, <1>1, <1>2, <1>3 DEF JInv, Ranges, AttemptLeft, Waiting, Active, JobEnded, RunEnded,
     JobIs
<1>12. CommandsNumbered'
  BY <1>a, <1>1, <1>2, <1>3, <1>5 DEF JInv, Ranges, CommandsNumbered, WorkersOwn, WorkersApart,
     Waiting, Active, JobEnded, RunEnded, JobIs, WorkerIs
<1>13. WorkspaceApart'
  BY <1>a, <1>1, <1>2, <1>3 DEF JInv, Ranges, WorkspaceApart, Occupies, Waiting, Active, JobEnded,
     RunEnded, JobIs
<1>14. JobAndRunAgree'
  BY <1>a, <1>1, <1>2, <1>3, <1>4 DEF JInv, Ranges, JobAndRunAgree, LeftAlone, WorkersOwn, Killed,
     Waiting, Active, JobEnded, RunEnded, JobIs, RunIs
<1>15. (LeaseHeld)'
  BY <1>a, <1>1 DEF JInv, LeaseHeld
<1> QED BY <1>6, <1>7, <1>8, <1>9, <1>10, <1>11, <1>12, <1>13, <1>14, <1>15 DEF JInv

LEMMA PersistExecutionRefKeeps ==
  ASSUME JInv, NEW w \in Workers, PersistExecutionRef(w)
  PROVE  JInv'
<1> DEFINE j == worker[w].job
<1>a. Ranges /\ TypeOK
  BY InRange DEF JInv
<1>1. UNCHANGED <<run, marker, commands, supervisor, lease, kill, budget>>
  BY <1>a DEF PersistExecutionRef
<1>2. worker[w].pc = "spawned" /\ j \in Jobs
  <2>1. worker[w].pc = "spawned"
    BY Zenon DEF PersistExecutionRef
  <2> QED BY <2>1, <1>a DEF Ranges
<1>3. JobIs(j, job[j].status, job[j].attempts, job[j].cancel, job[j].stale,
      job[j].timedOut) \/ job' = job
  BY <1>a, <1>2, JobRefersTo DEF TypeOK, Ranges, PersistExecutionRef
<1>4. WorkerIs(w, j, "wait", worker[w].attempt)
  BY <1>a, WorkerMoves DEF TypeOK, PersistExecutionRef
<1>5. TypeOK'
  BY <1>a, <1>1, <1>2, <1>3, <1>4 DEF TypeOK, Command, JobIs, WorkerIs
<1>6. WorkersOwn'
  BY <1>a, <1>1, <1>2, <1>3, <1>4 DEF JInv, Ranges, WorkersOwn, Killed, WorkersApart, Waiting,
     Active, JobEnded, RunEnded, JobIs, WorkerIs
<1>7. WorkersApart'
  BY <1>a, <1>1, <1>2, <1>4 DEF JInv, Ranges, WorkersApart, WorkerIs
<1>8. SpawnFree'
  BY <1>a, <1>1, <1>2, <1>3, <1>4 DEF JInv, Ranges, SpawnFree, HasWorker, Killed, Waiting, Active,
     JobEnded, RunEnded, JobIs, WorkerIs
<1>9. SnapshotFresh'
  BY <1>a, <1>1, <1>2, <1>3, <1>4 DEF JInv, Ranges, SnapshotFresh, HasWorker, Killed, Waiting,
     Active, JobEnded, RunEnded, JobIs, WorkerIs
<1>10. AttemptLeft'
  BY <1>a, <1>1, <1>2, <1>3 DEF JInv, Ranges, AttemptLeft, Waiting, Active, JobEnded, RunEnded,
     JobIs
<1>11. CommandsNumbered'
  BY <1>a, <1>1, <1>2, <1>3, <1>4 DEF JInv, Ranges, CommandsNumbered, WorkersOwn, WorkersApart,
     Waiting, Active, JobEnded, RunEnded, JobIs, WorkerIs
<1>12. WorkspaceApart'
  BY <1>a, <1>1, <1>2, <1>3 DEF JInv, Ranges, WorkspaceApart, Occupies, Waiting, Active, JobEnded,
     RunEnded, JobIs
<1>13. JobAndRunAgree'
  BY <1>a, <1>1, <1>2, <1>3 DEF JInv, Ranges, JobAndRunAgree, LeftAlone, WorkersOwn, Killed,
     Waiting, Active, JobEnded, RunEnded, JobIs
<1>14. (LeaseHeld)'
  BY <1>a, <1>1 DEF JInv, LeaseHeld
<1> QED BY <1>5, <1>6, <1>7, <1>8, <1>9, <1>10, <1>11, <1>12, <1>13, <1>14 DEF JInv

LEMMA HeartbeatCancelsKeeps ==
  ASSUME JInv, NEW w \in Workers, HeartbeatCancels(w)
  PROVE  JInv'
<1> DEFINE j == worker[w].job
<1>a. Ranges /\ TypeOK
  BY InRange DEF JInv
<1>1. UNCHANGED <<job, run, marker, supervisor, lease, kill, budget>>
  BY <1>a DEF HeartbeatCancels
<1>2. worker[w].pc = "wait" /\ j \in Jobs
  <2>1. worker[w].pc = "wait"
    BY Zenon DEF HeartbeatCancels
  <2> QED BY <2>1, <1>a DEF Ranges
<1>3. WorkerIs(w, j, worker[w].pc, worker[w].attempt)
  BY <1>a, WorkerKills DEF TypeOK, HeartbeatCancels
<1>4. CommandsFrom
  BY <1>a, SignalledTyped DEF JInv, TypeOK, Command, HeartbeatCancels
<1>5. TypeOK'
  BY <1>a, <1>1, <1>2, <1>3, <1>4 DEF TypeOK, Command, WorkerIs, CommandsFrom
<1>6. WorkersOwn'
  BY <1>a, <1>1, <1>2, <1>3 DEF JInv, Ranges, WorkersOwn, Killed, WorkersApart, Waiting, Active,
     JobEnded, RunEnded, WorkerIs
<1>7. WorkersApart'
  BY <1>a, <1>1, <1>2, <1>3 DEF JInv, Ranges, WorkersApart, WorkerIs
<1>8. SpawnFree'
  BY <1>a, <1>1, <1>2, <1>3 DEF JInv, Ranges, SpawnFree, HasWorker, Killed, Waiting, Active,
     JobEnded, RunEnded, WorkerIs
<1>9. SnapshotFresh'
  BY <1>a, <1>1, <1>2, <1>3 DEF JInv, Ranges, SnapshotFresh, HasWorker, Killed, Waiting, Active,
     JobEnded, RunEnded, WorkerIs
<1>10. CommandsNumbered'
  BY <1>a, <1>1, <1>2, <1>3, <1>4 DEF JInv, Ranges, CommandsNumbered, WorkersOwn, WorkersApart,
     Waiting, Active, JobEnded, RunEnded, WorkerIs, CommandsFrom
<1>11. (LeaseHeld /\ AttemptLeft /\ WorkspaceApart /\ JobAndRunAgree)'
  BY <1>a, <1>1 DEF JInv, LeaseHeld, AttemptLeft, WorkspaceApart, Occupies, JobAndRunAgree,
     LeftAlone
<1> QED BY <1>5, <1>6, <1>7, <1>8, <1>9, <1>10, <1>11 DEF JInv

LEMMA TimerFiresKeeps ==
  ASSUME JInv, NEW w \in Workers, TimerFires(w)
  PROVE  JInv'
<1> DEFINE j == worker[w].job
<1>a. Ranges /\ TypeOK
  BY InRange DEF JInv
<1>1. UNCHANGED <<job, run, marker, supervisor, lease, kill, budget>>
  BY <1>a DEF TimerFires
<1>2. worker[w].pc = "wait" /\ j \in Jobs
  <2>1. worker[w].pc = "wait"
    BY Zenon DEF TimerFires
  <2> QED BY <2>1, <1>a DEF Ranges
<1>3. WorkerIs(w, j, worker[w].pc, worker[w].attempt)
  BY <1>a, WorkerKills DEF TypeOK, TimerFires
<1>4. CommandsFrom
  BY <1>a, SignalledTyped DEF JInv, TypeOK, Command, TimerFires
<1>5. TypeOK'
  BY <1>a, <1>1, <1>2, <1>3, <1>4 DEF TypeOK, Command, WorkerIs, CommandsFrom
<1>6. WorkersOwn'
  BY <1>a, <1>1, <1>2, <1>3 DEF JInv, Ranges, WorkersOwn, Killed, WorkersApart, Waiting, Active,
     JobEnded, RunEnded, WorkerIs
<1>7. WorkersApart'
  BY <1>a, <1>1, <1>2, <1>3 DEF JInv, Ranges, WorkersApart, WorkerIs
<1>8. SpawnFree'
  BY <1>a, <1>1, <1>2, <1>3 DEF JInv, Ranges, SpawnFree, HasWorker, Killed, Waiting, Active,
     JobEnded, RunEnded, WorkerIs
<1>9. SnapshotFresh'
  BY <1>a, <1>1, <1>2, <1>3 DEF JInv, Ranges, SnapshotFresh, HasWorker, Killed, Waiting, Active,
     JobEnded, RunEnded, WorkerIs
<1>10. CommandsNumbered'
  BY <1>a, <1>1, <1>2, <1>3, <1>4 DEF JInv, Ranges, CommandsNumbered, WorkersOwn, WorkersApart,
     Waiting, Active, JobEnded, RunEnded, WorkerIs, CommandsFrom
<1>11. (LeaseHeld /\ AttemptLeft /\ WorkspaceApart /\ JobAndRunAgree)'
  BY <1>a, <1>1 DEF JInv, LeaseHeld, AttemptLeft, WorkspaceApart, Occupies, JobAndRunAgree,
     LeftAlone
<1> QED BY <1>5, <1>6, <1>7, <1>8, <1>9, <1>10, <1>11 DEF JInv

LEMMA HeartbeatKeeps ==
  ASSUME JInv, NEW w \in Workers, Heartbeat(w)
  PROVE  JInv'
<1> DEFINE j == worker[w].job
<1>a. Ranges /\ TypeOK
  BY InRange DEF JInv
<1>1. UNCHANGED <<run, marker, commands, worker, supervisor, lease, kill, budget>>
  BY <1>a DEF Heartbeat
<1>2. worker[w].pc = "wait" /\ j \in Jobs
  <2>1. worker[w].pc = "wait"
    BY Zenon DEF Heartbeat
  <2> QED BY <2>1, <1>a DEF Ranges
<1>3. JobIs(j, job[j].status, job[j].attempts, job[j].cancel, FALSE, job[j].timedOut)
  BY <1>a, <1>2, JobFlushed DEF TypeOK, Ranges, Heartbeat
<1>4. TypeOK'
  BY <1>a, <1>1, <1>2, <1>3 DEF TypeOK, Command, JobIs
<1>5. WorkersOwn'
  BY <1>a, <1>1, <1>2, <1>3 DEF JInv, Ranges, WorkersOwn, Killed, WorkersApart, Waiting, Active,
     JobEnded, RunEnded, JobIs
<1>6. SpawnFree'
  BY <1>a, <1>1, <1>2, <1>3 DEF JInv, Ranges, SpawnFree, HasWorker, Killed, Waiting, Active,
     JobEnded, RunEnded, JobIs
<1>7. SnapshotFresh'
  BY <1>a, <1>1, <1>2, <1>3 DEF JInv, Ranges, SnapshotFresh, HasWorker, Killed, Waiting, Active,
     JobEnded, RunEnded, JobIs
<1>8. AttemptLeft'
  BY <1>a, <1>1, <1>2, <1>3 DEF JInv, Ranges, AttemptLeft, Waiting, Active, JobEnded, RunEnded,
     JobIs
<1>9. CommandsNumbered'
  BY <1>a, <1>1, <1>2, <1>3 DEF JInv, Ranges, CommandsNumbered, WorkersOwn, WorkersApart, Waiting,
     Active, JobEnded, RunEnded, JobIs
<1>10. WorkspaceApart'
  BY <1>a, <1>1, <1>2, <1>3 DEF JInv, Ranges, WorkspaceApart, Occupies, Waiting, Active, JobEnded,
     RunEnded, JobIs
<1>11. JobAndRunAgree'
  BY <1>a, <1>1, <1>2, <1>3 DEF JInv, Ranges, JobAndRunAgree, LeftAlone, WorkersOwn, Killed,
     Waiting, Active, JobEnded, RunEnded, JobIs
<1>12. (WorkersApart /\ LeaseHeld)'
  BY <1>a, <1>1 DEF JInv, WorkersApart, LeaseHeld
<1> QED BY <1>4, <1>5, <1>6, <1>7, <1>8, <1>9, <1>10, <1>11, <1>12 DEF JInv

LEMMA HeartbeatFindsKeeps ==
  ASSUME JInv, NEW w \in Workers, HeartbeatFinds(w)
  PROVE  JInv'
<1> DEFINE j == worker[w].job
<1>a. Ranges /\ TypeOK
  BY InRange DEF JInv
<1>1. UNCHANGED <<job, run, marker, commands, supervisor, lease, kill, budget>>
  BY <1>a DEF HeartbeatFinds
<1>2. worker[w].pc = "wait" /\ j \in Jobs
  <2>1. worker[w].pc = "wait"
    BY Zenon DEF HeartbeatFinds
  <2> QED BY <2>1, <1>a DEF Ranges
<1>3. marker[j] \in Exits
  BY <1>a, <1>2 DEF TypeOK, HeartbeatFinds
<1>4. WorkerIs(w, j, "finalize", worker[w].attempt)
  BY <1>a, <1>3, WorkerFinalizes DEF TypeOK, HeartbeatFinds
<1>5. TypeOK'
  BY <1>a, <1>1, <1>2, <1>3, <1>4 DEF TypeOK, Command, WorkerIs
<1>6. WorkersOwn'
  BY <1>a, <1>1, <1>2, <1>4 DEF JInv, Ranges, WorkersOwn, Killed, WorkersApart, Waiting, Active,
     JobEnded, RunEnded, WorkerIs
<1>7. WorkersApart'
  BY <1>a, <1>1, <1>2, <1>4 DEF JInv, Ranges, WorkersApart, WorkerIs
<1>8. SpawnFree'
  BY <1>a, <1>1, <1>2, <1>4 DEF JInv, Ranges, SpawnFree, HasWorker, Killed, Waiting, Active,
     JobEnded, RunEnded, WorkerIs
<1>9. SnapshotFresh'
  BY <1>a, <1>1, <1>2, <1>4 DEF JInv, Ranges, SnapshotFresh, HasWorker, Killed, Waiting, Active,
     JobEnded, RunEnded, WorkerIs
<1>10. CommandsNumbered'
  BY <1>a, <1>1, <1>2, <1>4 DEF JInv, Ranges, CommandsNumbered, WorkersOwn, WorkersApart, Waiting,
     Active, JobEnded, RunEnded, WorkerIs
<1>11. (LeaseHeld /\ AttemptLeft /\ WorkspaceApart /\ JobAndRunAgree)'
  BY <1>a, <1>1 DEF JInv, LeaseHeld, AttemptLeft, WorkspaceApart, Occupies, JobAndRunAgree,
     LeftAlone
<1> QED BY <1>5, <1>6, <1>7, <1>8, <1>9, <1>10, <1>11 DEF JInv

LEMMA ChildClosesKeeps ==
  ASSUME JInv, NEW w \in Workers, ChildCloses(w)
  PROVE  JInv'
<1> DEFINE j == worker[w].job
           x == IF marker[j] = "ok" THEN "ok" ELSE "bad"
<1>a. Ranges /\ TypeOK
  BY InRange DEF JInv
<1>1. UNCHANGED <<job, run, marker, commands, supervisor, lease, kill, budget>>
  BY <1>a DEF ChildCloses
<1>2. worker[w].pc = "wait" /\ j \in Jobs
  <2>1. worker[w].pc = "wait"
    BY Zenon DEF ChildCloses
  <2> QED BY <2>1, <1>a DEF Ranges
<1>3. x \in Exits /\ worker' = [worker EXCEPT ![w].pc = "finalize", ![w].outcome = x]
  BY <1>a DEF ChildCloses, Exits
<1>4. WorkerIs(w, j, "finalize", worker[w].attempt)
  BY <1>a, <1>3, WorkerFinalizes DEF TypeOK
<1>5. TypeOK'
  BY <1>a, <1>1, <1>2, <1>3, <1>4 DEF TypeOK, Command, WorkerIs
<1>6. WorkersOwn'
  BY <1>a, <1>1, <1>2, <1>4 DEF JInv, Ranges, WorkersOwn, Killed, WorkersApart, Waiting, Active,
     JobEnded, RunEnded, WorkerIs
<1>7. WorkersApart'
  BY <1>a, <1>1, <1>2, <1>4 DEF JInv, Ranges, WorkersApart, WorkerIs
<1>8. SpawnFree'
  BY <1>a, <1>1, <1>2, <1>4 DEF JInv, Ranges, SpawnFree, HasWorker, Killed, Waiting, Active,
     JobEnded, RunEnded, WorkerIs
<1>9. SnapshotFresh'
  BY <1>a, <1>1, <1>2, <1>4 DEF JInv, Ranges, SnapshotFresh, HasWorker, Killed, Waiting, Active,
     JobEnded, RunEnded, WorkerIs
<1>10. CommandsNumbered'
  BY <1>a, <1>1, <1>2, <1>4 DEF JInv, Ranges, CommandsNumbered, WorkersOwn, WorkersApart, Waiting,
     Active, JobEnded, RunEnded, WorkerIs
<1>11. (LeaseHeld /\ AttemptLeft /\ WorkspaceApart /\ JobAndRunAgree)'
  BY <1>a, <1>1 DEF JInv, LeaseHeld, AttemptLeft, WorkspaceApart, Occupies, JobAndRunAgree,
     LeftAlone
<1> QED BY <1>5, <1>6, <1>7, <1>8, <1>9, <1>10, <1>11 DEF JInv

LEMMA FinalizeReadsKeeps ==
  ASSUME JInv, NEW w \in Workers, FinalizeReads(w)
  PROVE  JInv'
<1> DEFINE j == worker[w].job
           x == OutcomeOf(worker[w])
           pc == IF x \in {"failed", "timeout"} /\ CanRetry(job[j]) /\ ~job[j].cancel
                 THEN "retry" ELSE "end"
<1>a. Ranges /\ TypeOK
  BY InRange DEF JInv
<1>1. UNCHANGED <<run, marker, commands, supervisor, lease, kill, budget>>
  BY <1>a DEF FinalizeReads
<1>2. worker[w].pc = "finalize" /\ j \in Jobs
  <2>1. worker[w].pc = "finalize"
    BY Zenon DEF FinalizeReads
  <2> QED BY <2>1, <1>a DEF Ranges
<1>3. JobIs(j, job[j].status, job[j].attempts, job[j].cancel, FALSE, job[j].timedOut)
  BY <1>a, <1>2, JobFlushed DEF TypeOK, Ranges, FinalizeReads
<1>4. x \in RunEnded
  BY <1>a DEF TypeOK, WorkerRecord, OutcomeOf, RunEnded
<1>5. worker' = [worker EXCEPT ![w].pc = pc, ![w].outcome = x]
  BY <1>a DEF FinalizeReads
<1>6. WorkerIs(w, j, pc, worker[w].attempt) /\ worker'[w].outcome = x
  BY <1>a, <1>4, <1>5, WorkerFinalizes DEF TypeOK
<1>7. pc \in {"retry", "end"} /\ (pc = "retry" => job[j].attempts < MaxAttempts)
  BY <1>a DEF CanRetry
<1> HIDE DEF x, pc
<1>8. TypeOK'
  BY <1>a, <1>1, <1>2, <1>3, <1>4, <1>5, <1>6, <1>7 DEF TypeOK, Command, JobIs, WorkerIs
<1>9. WorkersOwn'
  BY <1>a, <1>1, <1>2, <1>3, <1>4, <1>6, <1>7 DEF JInv, Ranges, WorkersOwn, Killed, WorkersApart,
     Waiting, Active, JobEnded, RunEnded, JobIs, WorkerIs
<1>10. WorkersApart'
  BY <1>a, <1>1, <1>2, <1>4, <1>6, <1>7 DEF JInv, Ranges, WorkersApart, WorkerIs
<1>11. SpawnFree'
  BY <1>a, <1>1, <1>2, <1>3, <1>4, <1>6, <1>7 DEF JInv, Ranges, SpawnFree, HasWorker, Killed,
     Waiting, Active, JobEnded, RunEnded, JobIs, WorkerIs
<1>12. SnapshotFresh'
  BY <1>a, <1>1, <1>2, <1>3, <1>4, <1>6, <1>7 DEF JInv, Ranges, SnapshotFresh, HasWorker, Killed,
     Waiting, Active, JobEnded, RunEnded, JobIs, WorkerIs
<1>13. AttemptLeft'
  BY <1>a, <1>1, <1>2, <1>3, <1>4, <1>7 DEF JInv, Ranges, AttemptLeft, WorkersOwn, Waiting,
     Active, JobEnded, RunEnded, JobIs
<1>14. CommandsNumbered'
  BY <1>a, <1>1, <1>2, <1>3, <1>4, <1>6, <1>7 DEF JInv, Ranges, CommandsNumbered, WorkersOwn,
     WorkersApart, Waiting, Active, JobEnded, RunEnded, JobIs, WorkerIs
<1>15. WorkspaceApart'
  BY <1>a, <1>1, <1>2, <1>3, <1>4, <1>7 DEF JInv, Ranges, WorkspaceApart, Occupies, Waiting,
     Active, JobEnded, RunEnded, JobIs
<1>16. JobAndRunAgree'
  BY <1>a, <1>1, <1>2, <1>3, <1>4, <1>7 DEF JInv, Ranges, JobAndRunAgree, LeftAlone, WorkersOwn,
     Killed, Waiting, Active, JobEnded, RunEnded, JobIs
<1>17. (LeaseHeld)'
  BY <1>a, <1>1 DEF JInv, LeaseHeld
<1> QED BY <1>8, <1>9, <1>10, <1>11, <1>12, <1>13, <1>14, <1>15, <1>16, <1>17 DEF JInv

LEMMA FinalizeWritesKeeps ==
  ASSUME JInv, NEW w \in Workers, FinalizeWrites(w)
  PROVE  JInv'
<1> DEFINE j == worker[w].job
<1>a. Ranges /\ TypeOK
  BY InRange DEF JInv
<1>1. CASE worker[w].pc = "retry"
  <2>1. UNCHANGED <<marker, commands, supervisor, lease, kill, budget>>
    BY <1>1, <1>a DEF FinalizeWrites
  <2>2. worker[w].pc = "retry" /\ j \in Jobs
    <3>1. worker[w].pc = "retry"
      BY <1>1, Zenon DEF FinalizeWrites
    <3> QED BY <3>1, <1>a DEF Ranges
  <2>3. JobIs(j, "retrying", job[j].attempts, job[j].cancel, job[j].stale, job[j].timedOut)
    BY <1>1, <1>a, <2>2, JobRetries DEF TypeOK, FinalizeWrites, Retry
  <2>4. RunIs(j, "retrying")
    BY <1>1, <1>a, <2>2, RunUpdate DEF TypeOK, FinalizeWrites, Retry
  <2>5. WorkerIs(w, None, "gone", 0)
    BY <1>1, <1>a, WorkerGoes DEF TypeOK, FinalizeWrites
  <2>6. TypeOK'
    BY <1>1, <1>a, <2>1, <2>2, <2>3, <2>4, <2>5 DEF TypeOK, Command, JobIs, RunIs, WorkerIs
  <2>7. WorkersOwn'
    BY <1>1, <1>a, <2>1, <2>2, <2>3, <2>5 DEF JInv, Ranges, WorkersOwn, Killed, WorkersApart,
       Waiting, Active, JobEnded, RunEnded, JobIs, WorkerIs
  <2>8. WorkersApart'
    BY <1>1, <1>a, <2>1, <2>2, <2>5 DEF JInv, Ranges, WorkersApart, WorkerIs
  <2>9. SpawnFree'
    BY <1>1, <1>a, <2>1, <2>2, <2>3, <2>5 DEF JInv, Ranges, SpawnFree, HasWorker, Killed, Waiting,
       Active, JobEnded, RunEnded, JobIs, WorkerIs
  <2>10. SnapshotFresh'
    BY <1>1, <1>a, <2>1, <2>2, <2>3, <2>5 DEF JInv, Ranges, SnapshotFresh, HasWorker, Killed,
       Waiting, Active, JobEnded, RunEnded, JobIs, WorkerIs
  <2>11. AttemptLeft'
    BY <1>1, <1>a, <2>1, <2>2, <2>3 DEF JInv, Ranges, AttemptLeft, WorkersOwn, Waiting, Active,
       JobEnded, RunEnded, JobIs
  <2>12. CommandsNumbered'
    BY <1>1, <1>a, <2>1, <2>2, <2>3, <2>5 DEF JInv, Ranges, CommandsNumbered, WorkersOwn,
       WorkersApart, Waiting, Active, JobEnded, RunEnded, JobIs, WorkerIs
  <2>13. WorkspaceApart'
    BY <1>1, <1>a, <2>1, <2>2, <2>3 DEF JInv, Ranges, WorkspaceApart, Occupies, Waiting, Active,
       JobEnded, RunEnded, JobIs
  <2>14. JobAndRunAgree'
    BY <1>1, <1>a, <2>1, <2>2, <2>3, <2>4 DEF JInv, Ranges, JobAndRunAgree, LeftAlone, WorkersOwn,
       Killed, Waiting, Active, JobEnded, RunEnded, JobIs, RunIs
  <2>15. (LeaseHeld)'
    BY <1>1, <1>a, <2>1 DEF JInv, LeaseHeld
  <2> QED BY <2>6, <2>7, <2>8, <2>9, <2>10, <2>11, <2>12, <2>13, <2>14, <2>15 DEF JInv
<1>2. CASE worker[w].pc = "end"
  <2>1. UNCHANGED <<marker, commands, supervisor, lease, kill, budget>>
    BY <1>2, <1>a DEF FinalizeWrites
  <2>2. j \in Jobs /\ worker[w].outcome \in RunEnded
    BY <1>2, <1>a DEF JInv, WorkersOwn, Ranges
  <2>3. StatusFor(worker[w].outcome) \in JobEnded
    BY <1>2, <1>a DEF StatusFor, JobEnded
  <2>4. JobIs(j, StatusFor(worker[w].outcome), job[j].attempts, job[j].cancel, FALSE,
        job[j].timedOut)
    BY <1>2, <1>a, <2>2, <2>3, JobEnds DEF TypeOK, FinalizeWrites, End
  <2>5. RunIs(j, worker[w].outcome)
    BY <1>2, <1>a, <2>2, RunUpdate DEF TypeOK, FinalizeWrites, End
  <2>6. WorkerIs(w, None, "gone", 0)
    BY <1>2, <1>a, WorkerGoes DEF TypeOK, FinalizeWrites
  <2>7. TypeOK'
    BY <1>2, <1>a, <2>1, <2>2, <2>3, <2>4, <2>5, <2>6 DEF TypeOK, Command, JobIs, RunIs, WorkerIs
  <2>8. WorkersOwn'
    BY <1>2, <1>a, <2>1, <2>2, <2>3, <2>4, <2>6 DEF JInv, Ranges, WorkersOwn, Killed,
       WorkersApart, Waiting, Active, JobEnded, RunEnded, JobIs, WorkerIs
  <2>9. WorkersApart'
    BY <1>2, <1>a, <2>1, <2>2, <2>3, <2>6 DEF JInv, Ranges, WorkersApart, WorkerIs
  <2>10. SpawnFree'
    BY <1>2, <1>a, <2>1, <2>2, <2>3, <2>4, <2>6 DEF JInv, Ranges, SpawnFree, HasWorker, Killed,
       Waiting, Active, JobEnded, RunEnded, JobIs, WorkerIs
  <2>11. SnapshotFresh'
    BY <1>2, <1>a, <2>1, <2>2, <2>3, <2>4, <2>6 DEF JInv, Ranges, SnapshotFresh, HasWorker,
       Killed, Waiting, Active, JobEnded, RunEnded, JobIs, WorkerIs
  <2>12. AttemptLeft'
    BY <1>2, <1>a, <2>1, <2>2, <2>3, <2>4 DEF JInv, Ranges, AttemptLeft, WorkersOwn, Waiting,
       Active, JobEnded, RunEnded, JobIs
  <2>13. CommandsNumbered'
    BY <1>2, <1>a, <2>1, <2>2, <2>3, <2>4, <2>6 DEF JInv, Ranges, CommandsNumbered, WorkersOwn,
       WorkersApart, Waiting, Active, JobEnded, RunEnded, JobIs, WorkerIs
  <2>14. WorkspaceApart'
    BY <1>2, <1>a, <2>1, <2>2, <2>3, <2>4 DEF JInv, Ranges, WorkspaceApart, Occupies, Waiting,
       Active, JobEnded, RunEnded, JobIs
  <2>15. JobAndRunAgree'
    BY <1>2, <1>a, <2>1, <2>2, <2>3, <2>4, <2>5 DEF JInv, Ranges, JobAndRunAgree, LeftAlone,
       WorkersOwn, Killed, Waiting, Active, JobEnded, RunEnded, JobIs, RunIs
  <2>16. (LeaseHeld)'
    BY <1>2, <1>a, <2>1 DEF JInv, LeaseHeld
  <2> QED BY <2>7, <2>8, <2>9, <2>10, <2>11, <2>12, <2>13, <2>14, <2>15, <2>16 DEF JInv
<1> QED BY <1>1, <1>2 DEF FinalizeWrites

LEMMA WorkerCrashesKeeps ==
  ASSUME JInv, NEW w \in Workers, WorkerCrashes(w)
  PROVE  JInv'
<1>a. Ranges /\ TypeOK
  BY InRange DEF JInv
<1>1. UNCHANGED <<job, run, marker, commands, supervisor, lease, kill>>
  BY <1>a DEF WorkerCrashes
<1>2. budget' \in [crashes : 0..MaxCrashes, kills : 0..MaxKills]
  BY <1>a, BoundsAssumption DEF TypeOK, WorkerCrashes
<1>3. WorkerIs(w, None, "gone", 0)
  BY <1>a, WorkerGoes DEF TypeOK, WorkerCrashes
<1>4. TypeOK'
  BY <1>a, <1>1, <1>2, <1>3 DEF TypeOK, Command, WorkerIs
<1>5. WorkersOwn'
  BY <1>a, <1>1, <1>3 DEF JInv, Ranges, WorkersOwn, Killed, WorkersApart, Waiting, Active,
     JobEnded, RunEnded, WorkerIs
<1>6. WorkersApart'
  BY <1>a, <1>1, <1>3 DEF JInv, Ranges, WorkersApart, WorkerIs
<1>7. SpawnFree'
  BY <1>a, <1>1, <1>3 DEF JInv, Ranges, SpawnFree, HasWorker, Killed, Waiting, Active, JobEnded,
     RunEnded, WorkerIs
<1>8. SnapshotFresh'
  BY <1>a, <1>1, <1>3 DEF JInv, Ranges, SnapshotFresh, HasWorker, Killed, Waiting, Active,
     JobEnded, RunEnded, WorkerIs
<1>9. CommandsNumbered'
  BY <1>a, <1>1, <1>3 DEF JInv, Ranges, CommandsNumbered, WorkersOwn, WorkersApart, Waiting,
     Active, JobEnded, RunEnded, WorkerIs
<1>10. (LeaseHeld /\ AttemptLeft /\ WorkspaceApart /\ JobAndRunAgree)'
  BY <1>a, <1>1 DEF JInv, LeaseHeld, AttemptLeft, WorkspaceApart, Occupies, JobAndRunAgree,
     LeftAlone
<1> QED BY <1>4, <1>5, <1>6, <1>7, <1>8, <1>9, <1>10 DEF JInv

LEMMA StartSupervisorKeeps ==
  ASSUME JInv, NEW s \in Supervisors, StartSupervisor(s)
  PROVE  JInv'
<1>a. Ranges /\ TypeOK
  BY InRange DEF JInv
<1>1. UNCHANGED <<job, run, marker, commands, worker, lease, kill, budget>>
  BY <1>a DEF StartSupervisor
<1>2. supervisor[s].pc = "off"
  BY <1>a DEF StartSupervisor
<1>3. SupervisorIs(s, "loop", supervisor[s].pick, supervisor[s].stale)
      /\ supervisor'[s].seen = supervisor[s].seen
  BY <1>a, SupervisorLoops DEF TypeOK, StartSupervisor
<1>4. TypeOK'
  BY <1>a, <1>1, <1>2, <1>3 DEF TypeOK, Command, SupervisorIs
<1>5. LeaseHeld'
  BY <1>a, <1>1, <1>2, <1>3 DEF JInv, Ranges, LeaseHeld, SupervisorIs
<1>6. SpawnFree'
  BY <1>a, <1>1, <1>2, <1>3 DEF JInv, Ranges, SpawnFree, HasWorker, Killed, Waiting, Active,
     JobEnded, RunEnded, SupervisorIs
<1>7. SnapshotFresh'
  BY <1>a, <1>1, <1>2, <1>3 DEF JInv, Ranges, SnapshotFresh, HasWorker, Killed, Waiting, Active,
     JobEnded, RunEnded, SupervisorIs
<1>8. WorkspaceApart'
  BY <1>a, <1>1, <1>2, <1>3 DEF JInv, Ranges, WorkspaceApart, Occupies, Waiting, Active, JobEnded,
     RunEnded, SupervisorIs
<1>9. (WorkersOwn /\ WorkersApart /\ AttemptLeft /\ CommandsNumbered /\ JobAndRunAgree)'
  BY <1>a, <1>1 DEF JInv, WorkersOwn, Killed, WorkersApart, AttemptLeft, CommandsNumbered,
     JobAndRunAgree, LeftAlone
<1> QED BY <1>4, <1>5, <1>6, <1>7, <1>8, <1>9 DEF JInv

LEMMA AcquireLeaseKeeps ==
  ASSUME JInv, NEW s \in Supervisors, AcquireLease(s)
  PROVE  JInv'
<1> DEFINE found == [j \in Jobs |-> IF j \in Stale THEN job[j] ELSE None]
<1>a. Ranges /\ TypeOK
  BY InRange DEF JInv
<1>1. CASE lease \in {s, None}
  <2>1. UNCHANGED <<job, run, marker, commands, worker, kill, budget>>
    BY <1>1, <1>a DEF AcquireLease
  <2>2. supervisor[s].pc = "loop" /\ lease' = s
    BY <1>1, <1>a DEF AcquireLease
  <2>3. Stale \in SUBSET Jobs /\ found \in [Jobs -> JobRecord \cup {None}]
    BY <1>1, <1>a DEF Stale, TypeOK
  <2>4. supervisor' = [supervisor EXCEPT ![s].pc = "reconcile", ![s].stale = Stale,
        ![s].seen = found]
    BY <1>1, <1>a DEF AcquireLease
  <2>5. SupervisorIs(s, "reconcile", supervisor[s].pick, Stale) /\ supervisor'[s].seen = found
    BY <1>1, <1>a, <2>3, <2>4, SupervisorLooks DEF TypeOK
  <2>6. \A j \in Stale : j \in Jobs /\ job[j].status \in Active /\ job[j].stale
        /\ found[j] = job[j] /\ found[j] \in JobRecord
    BY <1>1, <1>a DEF Stale, TypeOK
  <2> HIDE DEF found
  <2>7. TypeOK'
    BY <1>1, <1>a, <2>1, <2>2, <2>3, <2>4, <2>5, <2>6 DEF TypeOK, Command, SupervisorIs
  <2>8. LeaseHeld'
    BY <1>1, <1>a, <2>1, <2>2, <2>3, <2>5, <2>6 DEF JInv, Ranges, LeaseHeld, SupervisorIs
  <2>9. SpawnFree'
    BY <1>1, <1>a, <2>1, <2>2, <2>3, <2>5, <2>6 DEF JInv, Ranges, SpawnFree, HasWorker, Killed,
       Waiting, Active, JobEnded, RunEnded, SupervisorIs
  <2>10. SnapshotFresh'
    BY <1>1, <1>a, <2>1, <2>2, <2>3, <2>5, <2>6 DEF JInv, Ranges, SnapshotFresh, HasWorker,
       Killed, LeaseHeld, SpawnFree, WorkersOwn, Waiting, Active, JobEnded, RunEnded, SupervisorIs
  <2>11. WorkspaceApart'
    BY <1>1, <1>a, <2>1, <2>2, <2>3, <2>5, <2>6 DEF JInv, Ranges, WorkspaceApart, Occupies,
       Waiting, Active, JobEnded, RunEnded, SupervisorIs
  <2>12. (WorkersOwn /\ WorkersApart /\ AttemptLeft /\ CommandsNumbered /\ JobAndRunAgree)'
    BY <1>1, <1>a, <2>1 DEF JInv, WorkersOwn, Killed, WorkersApart, AttemptLeft, CommandsNumbered,
       JobAndRunAgree, LeftAlone
  <2> QED BY <2>7, <2>8, <2>9, <2>10, <2>11, <2>12 DEF JInv
<1>2. CASE lease \notin {s, None}
  <2>1. UNCHANGED <<job, run, marker, commands, worker, kill, budget>>
    BY <1>2, <1>a DEF AcquireLease
  <2>2. supervisor[s].pc = "loop" /\ lease' = lease
    BY <1>2, <1>a DEF AcquireLease
  <2>3. SupervisorIs(s, "off", None, {})
    BY <1>2, <1>a, SupervisorIsOff DEF TypeOK, AcquireLease
  <2>4. TypeOK'
    BY <1>2, <1>a, <2>1, <2>2, <2>3 DEF TypeOK, Command, SupervisorIs
  <2>5. LeaseHeld'
    BY <1>2, <1>a, <2>1, <2>2, <2>3 DEF JInv, Ranges, LeaseHeld, SupervisorIs
  <2>6. SpawnFree'
    BY <1>2, <1>a, <2>1, <2>2, <2>3 DEF JInv, Ranges, SpawnFree, HasWorker, Killed, Waiting,
       Active, JobEnded, RunEnded, SupervisorIs
  <2>7. SnapshotFresh'
    BY <1>2, <1>a, <2>1, <2>2, <2>3 DEF JInv, Ranges, SnapshotFresh, HasWorker, Killed, LeaseHeld,
       SpawnFree, WorkersOwn, Waiting, Active, JobEnded, RunEnded, SupervisorIs
  <2>8. WorkspaceApart'
    BY <1>2, <1>a, <2>1, <2>2, <2>3 DEF JInv, Ranges, WorkspaceApart, Occupies, Waiting, Active,
       JobEnded, RunEnded, SupervisorIs
  <2>9. (WorkersOwn /\ WorkersApart /\ AttemptLeft /\ CommandsNumbered /\ JobAndRunAgree)'
    BY <1>2, <1>a, <2>1 DEF JInv, WorkersOwn, Killed, WorkersApart, AttemptLeft, CommandsNumbered,
       JobAndRunAgree, LeftAlone
  <2> QED BY <2>4, <2>5, <2>6, <2>7, <2>8, <2>9 DEF JInv
<1> QED BY <1>1, <1>2 DEF AcquireLease

LEMMA BeginDispatchKeeps ==
  ASSUME JInv, NEW s \in Supervisors, BeginDispatch(s)
  PROVE  JInv'
<1> DEFINE n == Cardinality({j \in Jobs : job[j].status \in Active})
<1>a. Ranges /\ TypeOK
  BY InRange DEF JInv
<1>1. UNCHANGED <<job, run, marker, commands, worker, lease, kill, budget>>
  BY <1>a DEF BeginDispatch
<1>2. n \in Nat
  BY <1>a, JobsAssumption, FS_Subset, FS_CardinalityType
<1>3. supervisor[s].pc = "reconcile" /\ supervisor[s].stale = {}
  BY <1>a DEF BeginDispatch
<1>4. supervisor' = [supervisor EXCEPT ![s].pc = "dispatch", ![s].active = n]
  BY <1>a DEF BeginDispatch
<1>5. SupervisorIs(s, "dispatch", supervisor[s].pick, supervisor[s].stale)
  BY <1>a, <1>2, <1>4, SupervisorDispatches DEF TypeOK
<1>6. TypeOK'
  BY <1>a, <1>1, <1>2, <1>3, <1>4, <1>5 DEF TypeOK, Command, SupervisorIs
<1>7. LeaseHeld'
  BY <1>a, <1>1, <1>2, <1>3, <1>5 DEF JInv, Ranges, LeaseHeld, SupervisorIs
<1>8. SpawnFree'
  BY <1>a, <1>1, <1>2, <1>3, <1>5 DEF JInv, Ranges, SpawnFree, HasWorker, Killed, Waiting, Active,
     JobEnded, RunEnded, SupervisorIs
<1>9. SnapshotFresh'
  BY <1>a, <1>1, <1>2, <1>3, <1>5 DEF JInv, Ranges, SnapshotFresh, HasWorker, Killed, Waiting,
     Active, JobEnded, RunEnded, SupervisorIs
<1>10. WorkspaceApart'
  BY <1>a, <1>1, <1>2, <1>3, <1>5 DEF JInv, Ranges, WorkspaceApart, Occupies, Waiting, Active,
     JobEnded, RunEnded, SupervisorIs
<1>11. (WorkersOwn /\ WorkersApart /\ AttemptLeft /\ CommandsNumbered /\ JobAndRunAgree)'
  BY <1>a, <1>1 DEF JInv, WorkersOwn, Killed, WorkersApart, AttemptLeft, CommandsNumbered,
     JobAndRunAgree, LeftAlone
<1> QED BY <1>6, <1>7, <1>8, <1>9, <1>10, <1>11 DEF JInv

LEMMA PickJobKeeps ==
  ASSUME JInv, NEW s \in Supervisors, PickJob(s)
  PROVE  JInv'
<1>a. Ranges /\ TypeOK
  BY InRange DEF JInv
<1>1. UNCHANGED <<job, run, marker, commands, worker, lease, kill, budget>>
  BY <1>a DEF PickJob
<1>2. supervisor[s].pc = "dispatch"
  BY <1>a DEF PickJob
<1>3. \E j \in Jobs : SupervisorIs(s, "picked", j, supervisor[s].stale) /\ (j \in Blocking
      => \A k \in Blocking \ {j} : ~Occupies(k))
  BY <1>a, SupervisorPicks DEF TypeOK, PickJob, Candidates, WorkspaceBlocked, Occupies, Ranges
<1>4. TypeOK'
  BY <1>a, <1>1, <1>2, <1>3 DEF TypeOK, Command, SupervisorIs
<1>5. LeaseHeld'
  BY <1>a, <1>1, <1>2, <1>3 DEF JInv, Ranges, LeaseHeld, SupervisorIs
<1>6. SpawnFree'
  BY <1>a, <1>1, <1>2, <1>3 DEF JInv, Ranges, SpawnFree, HasWorker, Killed, Waiting, Active,
     JobEnded, RunEnded, SupervisorIs
<1>7. SnapshotFresh'
  BY <1>a, <1>1, <1>2, <1>3 DEF JInv, Ranges, SnapshotFresh, HasWorker, Killed, Waiting, Active,
     JobEnded, RunEnded, SupervisorIs
<1>8. WorkspaceApart'
  BY <1>a, <1>1, <1>2, <1>3 DEF JInv, Ranges, WorkspaceApart, Occupies, Waiting, Active, JobEnded,
     RunEnded, SupervisorIs
<1>9. (WorkersOwn /\ WorkersApart /\ AttemptLeft /\ CommandsNumbered /\ JobAndRunAgree)'
  BY <1>a, <1>1 DEF JInv, WorkersOwn, Killed, WorkersApart, AttemptLeft, CommandsNumbered,
     JobAndRunAgree, LeftAlone
<1> QED BY <1>4, <1>5, <1>6, <1>7, <1>8, <1>9 DEF JInv

LEMMA EndTickKeeps ==
  ASSUME JInv, NEW s \in Supervisors, EndTick(s)
  PROVE  JInv'
<1>a. Ranges /\ TypeOK
  BY InRange DEF JInv
<1>1. UNCHANGED <<job, run, marker, commands, worker, lease, kill, budget>>
  BY <1>a DEF EndTick
<1>2. SupervisorIs(s, "loop", None, {})
  BY <1>a, SupervisorRestarts DEF TypeOK, EndTick
<1>3. TypeOK'
  BY <1>a, <1>1, <1>2 DEF TypeOK, Command, SupervisorIs
<1>4. LeaseHeld'
  BY <1>a, <1>1, <1>2 DEF JInv, Ranges, LeaseHeld, SupervisorIs
<1>5. SpawnFree'
  BY <1>a, <1>1, <1>2 DEF JInv, Ranges, SpawnFree, HasWorker, Killed, Waiting, Active, JobEnded,
     RunEnded, SupervisorIs
<1>6. SnapshotFresh'
  BY <1>a, <1>1, <1>2 DEF JInv, Ranges, SnapshotFresh, HasWorker, Killed, Waiting, Active,
     JobEnded, RunEnded, SupervisorIs
<1>7. WorkspaceApart'
  BY <1>a, <1>1, <1>2 DEF JInv, Ranges, WorkspaceApart, Occupies, Waiting, Active, JobEnded,
     RunEnded, SupervisorIs
<1>8. (WorkersOwn /\ WorkersApart /\ AttemptLeft /\ CommandsNumbered /\ JobAndRunAgree)'
  BY <1>a, <1>1 DEF JInv, WorkersOwn, Killed, WorkersApart, AttemptLeft, CommandsNumbered,
     JobAndRunAgree, LeftAlone
<1> QED BY <1>3, <1>4, <1>5, <1>6, <1>7, <1>8 DEF JInv

LEMMA DispatchKeeps ==
  ASSUME JInv, NEW s \in Supervisors, Dispatch(s)
  PROVE  JInv'
<1> DEFINE j == supervisor[s].pick
<1>a. Ranges /\ TypeOK
  BY InRange DEF JInv
<1>1. CASE Runnable(j)
  <2>1. UNCHANGED <<run, marker, commands, worker, lease, kill, budget>>
    BY <1>1, <1>a DEF Dispatch
  <2>2. supervisor[s].pc = "picked" /\ j \in Jobs /\ job[j].status \in Waiting /\ ~job[j].cancel
    BY <1>1, <1>a DEF Ranges, Runnable, Dispatch
  <2>3. JobIs(j, "dispatched", job[j].attempts, job[j].cancel, FALSE, job[j].timedOut)
    BY <1>1, <1>a, <2>2, JobStarts DEF TypeOK, Dispatch, Active
  <2>4. SupervisorIs(s, "spawn", j, supervisor[s].stale)
    BY <1>1, <1>a, SupervisorSpawns DEF TypeOK, Dispatch
  <2>5. TypeOK'
    BY <1>1, <1>a, <2>1, <2>2, <2>3, <2>4 DEF TypeOK, Command, JobIs, SupervisorIs
  <2>6. WorkersOwn'
    BY <1>1, <1>a, <2>1, <2>2, <2>3 DEF JInv, Ranges, WorkersOwn, Killed, Waiting, Active,
       JobEnded, RunEnded, JobIs
  <2>7. LeaseHeld'
    BY <1>1, <1>a, <2>1, <2>2, <2>4 DEF JInv, Ranges, LeaseHeld, SupervisorIs
  <2>8. SpawnFree'
    BY <1>1, <1>a, <2>1, <2>2, <2>3, <2>4 DEF JInv, Ranges, SpawnFree, HasWorker, Killed,
       LeaseHeld, WorkersOwn, Waiting, Active, JobEnded, RunEnded, JobIs, SupervisorIs
  <2>9. SnapshotFresh'
    BY <1>1, <1>a, <2>1, <2>2, <2>3, <2>4 DEF JInv, Ranges, SnapshotFresh, HasWorker, Killed,
       LeaseHeld, SpawnFree, WorkersOwn, Waiting, Active, JobEnded, RunEnded, JobIs, SupervisorIs
  <2>10. AttemptLeft'
    BY <1>1, <1>a, <2>1, <2>2, <2>3 DEF JInv, Ranges, AttemptLeft, Waiting, Active, JobEnded,
       RunEnded, JobIs
  <2>11. CommandsNumbered'
    BY <1>1, <1>a, <2>1, <2>2, <2>3 DEF JInv, Ranges, CommandsNumbered, Waiting, Active, JobEnded,
       RunEnded, JobIs
  <2>12. WorkspaceApart'
    BY <1>1, <1>a, <2>1, <2>2, <2>3, <2>4 DEF JInv, Ranges, WorkspaceApart, Occupies, LeaseHeld,
       Waiting, Active, JobEnded, RunEnded, JobIs, SupervisorIs
  <2>13. JobAndRunAgree'
    BY <1>1, <1>a, <2>1, <2>2, <2>3 DEF JInv, Ranges, JobAndRunAgree, LeftAlone, Waiting, Active,
       JobEnded, RunEnded, JobIs
  <2>14. (WorkersApart)'
    BY <1>1, <1>a, <2>1 DEF JInv, WorkersApart
  <2> QED BY <2>5, <2>6, <2>7, <2>8, <2>9, <2>10, <2>11, <2>12, <2>13, <2>14 DEF JInv
<1>2. CASE ~Runnable(j)
  <2>1. UNCHANGED <<run, marker, commands, worker, lease, kill, budget>>
    BY <1>2, <1>a DEF Dispatch
  <2>2. job' = job
    BY <1>2, <1>a DEF Dispatch
  <2>3. SupervisorIs(s, "loop", None, {})
    BY <1>2, <1>a, SupervisorRestarts DEF TypeOK, Dispatch
  <2>4. TypeOK'
    BY <1>2, <1>a, <2>1, <2>2, <2>3 DEF TypeOK, Command, JobIs, SupervisorIs
  <2>5. WorkersOwn'
    BY <1>2, <1>a, <2>1, <2>2 DEF JInv, Ranges, WorkersOwn, Killed, Waiting, Active, JobEnded,
       RunEnded
  <2>6. LeaseHeld'
    BY <1>2, <1>a, <2>1, <2>2, <2>3 DEF JInv, Ranges, LeaseHeld, SupervisorIs
  <2>7. SpawnFree'
    BY <1>2, <1>a, <2>1, <2>2, <2>3 DEF JInv, Ranges, SpawnFree, HasWorker, Killed, LeaseHeld,
       WorkersOwn, Waiting, Active, JobEnded, RunEnded, SupervisorIs
  <2>8. SnapshotFresh'
    BY <1>2, <1>a, <2>1, <2>2, <2>3 DEF JInv, Ranges, SnapshotFresh, HasWorker, Killed, LeaseHeld,
       SpawnFree, WorkersOwn, Waiting, Active, JobEnded, RunEnded, SupervisorIs
  <2>9. AttemptLeft'
    BY <1>2, <1>a, <2>1, <2>2 DEF JInv, Ranges, AttemptLeft, Waiting, Active, JobEnded, RunEnded
  <2>10. CommandsNumbered'
    BY <1>2, <1>a, <2>1, <2>2 DEF JInv, Ranges, CommandsNumbered, Waiting, Active, JobEnded,
       RunEnded
  <2>11. WorkspaceApart'
    BY <1>2, <1>a, <2>1, <2>2, <2>3 DEF JInv, Ranges, WorkspaceApart, Occupies, LeaseHeld,
       Waiting, Active, JobEnded, RunEnded, SupervisorIs
  <2>12. JobAndRunAgree'
    BY <1>2, <1>a, <2>1, <2>2 DEF JInv, Ranges, JobAndRunAgree, LeftAlone, Waiting, Active,
       JobEnded, RunEnded
  <2>13. (WorkersApart)'
    BY <1>2, <1>a, <2>1 DEF JInv, WorkersApart
  <2> QED BY <2>4, <2>5, <2>6, <2>7, <2>8, <2>9, <2>10, <2>11, <2>12, <2>13 DEF JInv
<1> QED BY <1>1, <1>2 DEF Dispatch

LEMMA SpawnWorkerKeeps ==
  ASSUME JInv, NEW s \in Supervisors, SpawnWorker(s)
  PROVE  JInv'
<1> DEFINE j == supervisor[s].pick
<1>a. Ranges /\ TypeOK
  BY InRange DEF JInv
<1>1. UNCHANGED <<job, run, marker, commands, lease, kill, budget>>
  BY DEF SpawnWorker
<1>2. supervisor[s].pc = "spawn" /\ j \in Jobs
  BY <1>a DEF Ranges, SpawnWorker
<1>3. PICK w \in Workers :
         /\ worker[w].pc = "gone"
         /\ worker' = [worker EXCEPT ![w] = [Gone EXCEPT !.pc = "boot", !.job = j]]
  BY DEF SpawnWorker
<1>4. WorkerIs(w, j, "boot", 0)
  BY <1>a, <1>2, <1>3, WorkerBoots DEF TypeOK
<1>5. SupervisorIs(s, "dispatch", None, supervisor[s].stale)
  BY <1>a, SupervisorSpawned DEF TypeOK, SpawnWorker
<1>6. TypeOK'
  BY <1>a, <1>1, <1>4, <1>5 DEF TypeOK, Command, WorkerIs, SupervisorIs

<1>7. WorkersOwn'
  BY <1>a, <1>1, <1>2, <1>3, <1>4, <1>5 DEF JInv, Ranges, WorkersOwn, Killed, SpawnFree,
     HasWorker, Waiting, Active, JobEnded, RunEnded, WorkerIs, SupervisorIs
<1>8. WorkersApart'
  BY <1>a, <1>1, <1>2, <1>3, <1>4, <1>5 DEF JInv, Ranges, WorkersApart, SpawnFree, HasWorker,
     Waiting, Active, JobEnded, RunEnded, WorkerIs, SupervisorIs
<1>9. LeaseHeld'
  BY <1>a, <1>1, <1>2, <1>3, <1>4, <1>5 DEF JInv, Ranges, LeaseHeld, Waiting, Active, JobEnded,
     RunEnded, WorkerIs, SupervisorIs
<1>10. SpawnFree'
  BY <1>a, <1>1, <1>2, <1>3, <1>4, <1>5 DEF JInv, Ranges, SpawnFree, HasWorker, Killed, LeaseHeld,
     Waiting, Active, JobEnded, RunEnded, WorkerIs, SupervisorIs
<1>11. SnapshotFresh'
  BY <1>a, <1>1, <1>2, <1>3, <1>4, <1>5 DEF JInv, Ranges, SnapshotFresh, HasWorker, Killed,
     LeaseHeld, SpawnFree, WorkersOwn, Waiting, Active, JobEnded, RunEnded, WorkerIs, SupervisorIs
<1>12. CommandsNumbered'
  BY <1>a, <1>1, <1>2, <1>3, <1>4, <1>5 DEF JInv, Ranges, CommandsNumbered, Waiting, Active,
     JobEnded, RunEnded, WorkerIs, SupervisorIs
<1>13. WorkspaceApart'
  BY <1>a, <1>1, <1>2, <1>3, <1>4, <1>5 DEF JInv, Ranges, WorkspaceApart, Occupies, Waiting,
     Active, JobEnded, RunEnded, WorkerIs, SupervisorIs
<1>14. (AttemptLeft /\ JobAndRunAgree)'
  BY <1>a, <1>1 DEF JInv, AttemptLeft, JobAndRunAgree, LeftAlone
<1> QED BY <1>6, <1>7, <1>8, <1>9, <1>10, <1>11, <1>12, <1>13, <1>14 DEF JInv

LEMMA SpawnFailsKeeps ==
  ASSUME JInv, NEW s \in Supervisors, SpawnFails(s)
  PROVE  JInv'
<1> DEFINE j == supervisor[s].pick
<1>a. Ranges /\ TypeOK
  BY InRange DEF JInv
<1>1. UNCHANGED <<marker, commands, worker, lease, kill, budget>>
  BY <1>a DEF SpawnFails
<1>2. supervisor[s].pc = "spawn" /\ j \in Jobs
  BY <1>a DEF Ranges, SpawnFails
<1>3. JobIs(j, "failed", job[j].attempts, job[j].cancel, FALSE, job[j].timedOut)
  BY <1>a, <1>2, JobEnds DEF TypeOK, SpawnFails, End, StatusFor, JobEnded
<1>4. RunIs(j, "failed")
  BY <1>a, <1>2, RunUpdate DEF TypeOK, SpawnFails, End, RunEnded
<1>5. SupervisorIs(s, "dispatch", None, supervisor[s].stale)
  BY <1>a, SupervisorGivesUp DEF TypeOK, SpawnFails
<1>6. TypeOK'
  BY <1>a, <1>1, <1>2, <1>3, <1>4, <1>5 DEF TypeOK, Command, JobIs, RunIs, SupervisorIs
<1>7. WorkersOwn'
  BY <1>a, <1>1, <1>2, <1>3 DEF JInv, Ranges, WorkersOwn, Killed, SpawnFree, HasWorker, Waiting,
     Active, JobEnded, RunEnded, JobIs
<1>8. LeaseHeld'
  BY <1>a, <1>1, <1>2, <1>5 DEF JInv, Ranges, LeaseHeld, SupervisorIs
<1>9. SpawnFree'
  BY <1>a, <1>1, <1>2, <1>3, <1>5 DEF JInv, Ranges, SpawnFree, HasWorker, Killed, LeaseHeld,
     Waiting, Active, JobEnded, RunEnded, JobIs, SupervisorIs
<1>10. SnapshotFresh'
  BY <1>a, <1>1, <1>2, <1>3, <1>5 DEF JInv, Ranges, SnapshotFresh, HasWorker, Killed, LeaseHeld,
     SpawnFree, WorkersOwn, Waiting, Active, JobEnded, RunEnded, JobIs, SupervisorIs
<1>11. AttemptLeft'
  BY <1>a, <1>1, <1>2, <1>3 DEF JInv, Ranges, AttemptLeft, Waiting, Active, JobEnded, RunEnded,
     JobIs
<1>12. CommandsNumbered'
  BY <1>a, <1>1, <1>2, <1>3 DEF JInv, Ranges, CommandsNumbered, Waiting, Active, JobEnded,
     RunEnded, JobIs
<1>13. WorkspaceApart'
  BY <1>a, <1>1, <1>2, <1>3, <1>5 DEF JInv, Ranges, WorkspaceApart, Occupies, Waiting, Active,
     JobEnded, RunEnded, JobIs, SupervisorIs
<1>14. JobAndRunAgree'
  BY <1>a, <1>1, <1>2, <1>3, <1>4 DEF JInv, Ranges, JobAndRunAgree, LeftAlone, SpawnFree, Killed,
     Waiting, Active, JobEnded, RunEnded, JobIs, RunIs
<1>15. (WorkersApart)'
  BY <1>a, <1>1 DEF JInv, WorkersApart
<1> QED BY <1>6, <1>7, <1>8, <1>9, <1>10, <1>11, <1>12, <1>13, <1>14, <1>15 DEF JInv

LEMMA SupervisorCrashesKeeps ==
  ASSUME JInv, NEW s \in Supervisors, SupervisorCrashes(s)
  PROVE  JInv'
<1>a. Ranges /\ TypeOK
  BY InRange DEF JInv
<1>1. UNCHANGED <<job, run, marker, commands, worker, kill>>
  BY <1>a DEF SupervisorCrashes
<1>2. budget' \in [crashes : 0..MaxCrashes, kills : 0..MaxKills]
  BY <1>a, BoundsAssumption DEF TypeOK, SupervisorCrashes
<1>3. lease' = IF lease = s THEN "dead" ELSE lease
  BY <1>a DEF SupervisorCrashes
<1>4. SupervisorIs(s, "off", None, {})
  BY <1>a, SupervisorIsOff DEF TypeOK, SupervisorCrashes
<1>5. TypeOK'
  BY <1>a, <1>1, <1>2, <1>3, <1>4 DEF TypeOK, Command, SupervisorIs
<1>6. LeaseHeld'
  BY <1>a, <1>1, <1>3, <1>4 DEF JInv, Ranges, LeaseHeld, SupervisorIs
<1>7. SpawnFree'
  BY <1>a, <1>1, <1>3, <1>4 DEF JInv, Ranges, SpawnFree, HasWorker, Killed, Waiting, Active,
     JobEnded, RunEnded, SupervisorIs
<1>8. SnapshotFresh'
  BY <1>a, <1>1, <1>3, <1>4 DEF JInv, Ranges, SnapshotFresh, HasWorker, Killed, Waiting, Active,
     JobEnded, RunEnded, SupervisorIs
<1>9. WorkspaceApart'
  BY <1>a, <1>1, <1>3, <1>4 DEF JInv, Ranges, WorkspaceApart, Occupies, Waiting, Active, JobEnded,
     RunEnded, SupervisorIs
<1>10. (WorkersOwn /\ WorkersApart /\ AttemptLeft /\ CommandsNumbered /\ JobAndRunAgree)'
  BY <1>a, <1>1 DEF JInv, WorkersOwn, Killed, WorkersApart, AttemptLeft, CommandsNumbered,
     JobAndRunAgree, LeftAlone
<1> QED BY <1>5, <1>6, <1>7, <1>8, <1>9, <1>10 DEF JInv

LEMMA LeaseExpiresKeeps ==
  ASSUME JInv, LeaseExpires
  PROVE  JInv'
<1>a. Ranges /\ TypeOK
  BY InRange DEF JInv
<1>1. UNCHANGED <<job, run, marker, commands, worker, supervisor, kill, budget>>
  BY <1>a DEF LeaseExpires
<1>2. lease = "dead" /\ lease' = None
  BY <1>a, JobsAssumption DEF LeaseExpires
<1>3. TypeOK'
  BY <1>a, <1>1, <1>2 DEF TypeOK, Command
<1>4. LeaseHeld'
  BY <1>a, <1>1, <1>2 DEF JInv, Ranges, LeaseHeld
<1>5. (WorkersOwn /\ WorkersApart /\ SpawnFree /\ SnapshotFresh /\ AttemptLeft /\ CommandsNumbered
      /\ WorkspaceApart /\ JobAndRunAgree)'
  BY <1>a, <1>1 DEF JInv, WorkersOwn, Killed, WorkersApart, SpawnFree, HasWorker, Killed,
     SnapshotFresh, HasWorker, Killed, AttemptLeft, CommandsNumbered, WorkspaceApart, Occupies,
     JobAndRunAgree, LeftAlone
<1> QED BY <1>3, <1>4, <1>5 DEF JInv

LEMMA ReconcileKeeps ==
  ASSUME JInv, NEW s \in Supervisors, NEW j \in Jobs, Reconcile(s, j)
  PROVE  JInv'
<1> DEFINE seen == supervisor[s].seen[j]
           exit == IF seen.paths THEN marker[j] ELSE None
           observed == exit = None /\ ExecutionAlive(j, seen) /\ ~Policy(seen)
           again == /\ CanRetry(seen) /\ ~seen.cancel
                    /\ exit = "bad" \/ (exit = None /\ ~seen.timedOut)
           outcome == IF exit # None THEN IF exit = "ok" THEN "completed" ELSE "failed"
                      ELSE IF seen.cancel THEN "killed"
                      ELSE IF seen.timedOut THEN "timeout" ELSE "failed"
<1>a. Ranges /\ TypeOK
  BY InRange DEF JInv
<1>1. CASE observed
  <2>1. UNCHANGED <<marker, worker, lease, kill, budget>>
    BY <1>1, <1>a DEF Reconcile
  <2>2. supervisor[s].pc = "reconcile" /\ j \in supervisor[s].stale
    BY <1>1, <1>a DEF Reconcile
  <2>3. supervisor' = [supervisor EXCEPT ![s].stale = @ \ {j}, ![s].seen[j] = None]
    BY <1>1, <1>a DEF Reconcile
  <2>4. SupervisorIs(s, supervisor[s].pc, supervisor[s].pick, supervisor[s].stale \ {j})
        /\ \A k \in Jobs \ {j} : supervisor'[s].seen[k] = supervisor[s].seen[k]
    BY <1>1, <1>a, <2>3, SupervisorReconciles DEF TypeOK
  <2>5. CommandsFrom
    BY <1>1, <1>a, SignalledTyped, FewerCommands DEF JInv, TypeOK, Command, Reconcile
  <2>6. job' = [job EXCEPT ![j].status = "running", ![j].stale = FALSE]
        /\ run' = [run EXCEPT ![j] = "running"]
    BY <1>1, <1>a DEF Reconcile
  <2>7. JobIs(j, "running", job[j].attempts, job[j].cancel, FALSE, job[j].timedOut)
    BY <1>1, <1>a, <2>6, JobStarts DEF TypeOK, Active
  <2>8. RunIs(j, "running")
    BY <1>1, <1>a, <2>6, RunUpdate DEF TypeOK
  <2> HIDE DEF seen, exit, observed, again, outcome
  <2>9. TypeOK'
    BY <1>1, <1>a, <2>1, <2>2, <2>3, <2>4, <2>5, <2>6, <2>7, <2>8 DEF TypeOK, Command, JobIs,
       RunIs, SupervisorIs, CommandsFrom
  <2>10. WorkersOwn'
    BY <1>1, <1>a, <2>1, <2>2, <2>7 DEF JInv, Ranges, WorkersOwn, Killed, SnapshotFresh,
       HasWorker, Waiting, Active, JobEnded, RunEnded, JobIs
  <2>11. LeaseHeld'
    BY <1>1, <1>a, <2>1, <2>2, <2>4 DEF JInv, Ranges, LeaseHeld, SupervisorIs
  <2>12. SpawnFree'
    BY <1>1, <1>a, <2>1, <2>2, <2>4, <2>7 DEF JInv, Ranges, SpawnFree, HasWorker, Killed,
       LeaseHeld, Waiting, Active, JobEnded, RunEnded, JobIs, SupervisorIs
  <2>13. SnapshotFresh'
    BY <1>1, <1>a, <2>1, <2>2, <2>4, <2>7 DEF JInv, Ranges, SnapshotFresh, HasWorker, Killed,
       LeaseHeld, Waiting, Active, JobEnded, RunEnded, JobIs, SupervisorIs
  <2>14. AttemptLeft'
    BY <1>1, <1>a, <2>1, <2>2, <2>7 DEF JInv, Ranges, AttemptLeft, SnapshotFresh, Waiting, Active,
       JobEnded, RunEnded, JobIs
  <2>15. CommandsNumbered'
    BY <1>1, <1>a, <2>1, <2>2, <2>5, <2>7 DEF JInv, Ranges, CommandsNumbered, Waiting, Active,
       JobEnded, RunEnded, JobIs, CommandsFrom
  <2>16. WorkspaceApart'
    BY <1>1, <1>a, <2>1, <2>2, <2>4, <2>7 DEF JInv, Ranges, WorkspaceApart, Occupies,
       SnapshotFresh, Killed, LeaseHeld, Waiting, Active, JobEnded, RunEnded, JobIs, SupervisorIs
  <2>17. JobAndRunAgree'
    BY <1>1, <1>a, <2>1, <2>2, <2>7, <2>8 DEF JInv, Ranges, JobAndRunAgree, LeftAlone,
       SnapshotFresh, Killed, Waiting, Active, JobEnded, RunEnded, JobIs, RunIs
  <2>18. (WorkersApart)'
    BY <1>1, <1>a, <2>1 DEF JInv, WorkersApart
  <2> QED BY <2>9, <2>10, <2>11, <2>12, <2>13, <2>14, <2>15, <2>16, <2>17, <2>18 DEF JInv
<1>2. CASE ~observed /\ again
  <2>1. UNCHANGED <<marker, worker, lease, kill, budget>>
    BY <1>2, <1>a DEF Reconcile
  <2>2. supervisor[s].pc = "reconcile" /\ j \in supervisor[s].stale
    BY <1>2, <1>a DEF Reconcile
  <2>3. supervisor' = [supervisor EXCEPT ![s].stale = @ \ {j}, ![s].seen[j] = None]
    BY <1>2, <1>a DEF Reconcile
  <2>4. SupervisorIs(s, supervisor[s].pc, supervisor[s].pick, supervisor[s].stale \ {j})
        /\ \A k \in Jobs \ {j} : supervisor'[s].seen[k] = supervisor[s].seen[k]
    BY <1>2, <1>a, <2>3, SupervisorReconciles DEF TypeOK
  <2>5. CommandsFrom
    BY <1>2, <1>a, SignalledTyped, FewerCommands DEF JInv, TypeOK, Command, Reconcile
  <2>6. Retry(j) /\ seen.attempts < MaxAttempts
    BY <1>2, <1>a DEF Reconcile, CanRetry
  <2>7. JobIs(j, "retrying", job[j].attempts, job[j].cancel, job[j].stale, job[j].timedOut)
    BY <1>2, <1>a, <2>6, JobRetries DEF TypeOK, Retry
  <2>8. RunIs(j, "retrying")
    BY <1>2, <1>a, <2>6, RunUpdate DEF TypeOK, Retry
  <2>9. supervisor[s].seen[j].attempts < MaxAttempts
    BY <1>2, <1>a, <2>6
  <2> HIDE DEF seen, exit, observed, again, outcome
  <2>10. TypeOK'
    BY <1>2, <1>a, <2>1, <2>2, <2>3, <2>4, <2>5, <2>6, <2>7, <2>8, <2>9 DEF TypeOK, Command,
       JobIs, RunIs, SupervisorIs, CommandsFrom
  <2>11. WorkersOwn'
    BY <1>2, <1>a, <2>1, <2>2, <2>6, <2>7, <2>9 DEF JInv, Ranges, WorkersOwn, Killed,
       SnapshotFresh, HasWorker, Waiting, Active, JobEnded, RunEnded, JobIs
  <2>12. LeaseHeld'
    BY <1>2, <1>a, <2>1, <2>2, <2>4, <2>6, <2>9 DEF JInv, Ranges, LeaseHeld, SupervisorIs
  <2>13. SpawnFree'
    BY <1>2, <1>a, <2>1, <2>2, <2>4, <2>6, <2>7, <2>9 DEF JInv, Ranges, SpawnFree, HasWorker,
       Killed, LeaseHeld, Waiting, Active, JobEnded, RunEnded, JobIs, SupervisorIs
  <2>14. SnapshotFresh'
    BY <1>2, <1>a, <2>1, <2>2, <2>4, <2>6, <2>7, <2>9 DEF JInv, Ranges, SnapshotFresh, HasWorker,
       Killed, LeaseHeld, Waiting, Active, JobEnded, RunEnded, JobIs, SupervisorIs
  <2>15. AttemptLeft'
    BY <1>2, <1>a, <2>1, <2>2, <2>6, <2>7, <2>9 DEF JInv, Ranges, AttemptLeft, SnapshotFresh,
       Waiting, Active, JobEnded, RunEnded, JobIs
  <2>16. CommandsNumbered'
    BY <1>2, <1>a, <2>1, <2>2, <2>5, <2>6, <2>7, <2>9 DEF JInv, Ranges, CommandsNumbered, Waiting,
       Active, JobEnded, RunEnded, JobIs, CommandsFrom
  <2>17. WorkspaceApart'
    BY <1>2, <1>a, <2>1, <2>2, <2>4, <2>6, <2>7, <2>9 DEF JInv, Ranges, WorkspaceApart, Occupies,
       SnapshotFresh, Killed, LeaseHeld, Waiting, Active, JobEnded, RunEnded, JobIs, SupervisorIs
  <2>18. JobAndRunAgree'
    BY <1>2, <1>a, <2>1, <2>2, <2>6, <2>7, <2>8, <2>9 DEF JInv, Ranges, JobAndRunAgree, LeftAlone,
       SnapshotFresh, Killed, Waiting, Active, JobEnded, RunEnded, JobIs, RunIs
  <2>19. (WorkersApart)'
    BY <1>2, <1>a, <2>1 DEF JInv, WorkersApart
  <2> QED BY <2>10, <2>11, <2>12, <2>13, <2>14, <2>15, <2>16, <2>17, <2>18, <2>19 DEF JInv
<1>3. CASE ~observed /\ ~again
  <2>1. UNCHANGED <<marker, worker, lease, kill, budget>>
    BY <1>3, <1>a DEF Reconcile
  <2>2. supervisor[s].pc = "reconcile" /\ j \in supervisor[s].stale
    BY <1>3, <1>a DEF Reconcile
  <2>3. supervisor' = [supervisor EXCEPT ![s].stale = @ \ {j}, ![s].seen[j] = None]
    BY <1>3, <1>a DEF Reconcile
  <2>4. SupervisorIs(s, supervisor[s].pc, supervisor[s].pick, supervisor[s].stale \ {j})
        /\ \A k \in Jobs \ {j} : supervisor'[s].seen[k] = supervisor[s].seen[k]
    BY <1>3, <1>a, <2>3, SupervisorReconciles DEF TypeOK
  <2>5. CommandsFrom
    BY <1>3, <1>a, SignalledTyped, FewerCommands DEF JInv, TypeOK, Command, Reconcile
  <2>6. End(j, outcome) /\ outcome \in RunEnded
    BY <1>3, <1>a DEF Reconcile, RunEnded
  <2> HIDE DEF outcome
  <2>7. StatusFor(outcome) \in JobEnded
    BY <1>3, <1>a DEF StatusFor, JobEnded
  <2>8. JobIs(j, StatusFor(outcome), job[j].attempts, job[j].cancel, FALSE, job[j].timedOut)
    BY <1>3, <1>a, <2>6, <2>7, JobEnds DEF TypeOK, End
  <2>9. RunIs(j, outcome)
    BY <1>3, <1>a, <2>6, RunUpdate DEF TypeOK, End
  <2> HIDE DEF seen, exit, observed, again, outcome
  <2>10. TypeOK'
    BY <1>3, <1>a, <2>1, <2>2, <2>3, <2>4, <2>5, <2>6, <2>7, <2>8, <2>9 DEF TypeOK, Command,
       JobIs, RunIs, SupervisorIs, CommandsFrom
  <2>11. WorkersOwn'
    BY <1>3, <1>a, <2>1, <2>2, <2>6, <2>7, <2>8 DEF JInv, Ranges, WorkersOwn, Killed,
       SnapshotFresh, HasWorker, Waiting, Active, JobEnded, RunEnded, JobIs
  <2>12. LeaseHeld'
    BY <1>3, <1>a, <2>1, <2>2, <2>4, <2>6, <2>7 DEF JInv, Ranges, LeaseHeld, SupervisorIs
  <2>13. SpawnFree'
    BY <1>3, <1>a, <2>1, <2>2, <2>4, <2>6, <2>7, <2>8 DEF JInv, Ranges, SpawnFree, HasWorker,
       Killed, LeaseHeld, Waiting, Active, JobEnded, RunEnded, JobIs, SupervisorIs
  <2>14. SnapshotFresh'
    BY <1>3, <1>a, <2>1, <2>2, <2>4, <2>6, <2>7, <2>8 DEF JInv, Ranges, SnapshotFresh, HasWorker,
       Killed, LeaseHeld, Waiting, Active, JobEnded, RunEnded, JobIs, SupervisorIs
  <2>15. AttemptLeft'
    BY <1>3, <1>a, <2>1, <2>2, <2>6, <2>7, <2>8 DEF JInv, Ranges, AttemptLeft, SnapshotFresh,
       Waiting, Active, JobEnded, RunEnded, JobIs
  <2>16. CommandsNumbered'
    BY <1>3, <1>a, <2>1, <2>2, <2>5, <2>6, <2>7, <2>8 DEF JInv, Ranges, CommandsNumbered, Waiting,
       Active, JobEnded, RunEnded, JobIs, CommandsFrom
  <2>17. WorkspaceApart'
    BY <1>3, <1>a, <2>1, <2>2, <2>4, <2>6, <2>7, <2>8 DEF JInv, Ranges, WorkspaceApart, Occupies,
       SnapshotFresh, Killed, LeaseHeld, Waiting, Active, JobEnded, RunEnded, JobIs, SupervisorIs
  <2>18. JobAndRunAgree'
    BY <1>3, <1>a, <2>1, <2>2, <2>6, <2>7, <2>8, <2>9 DEF JInv, Ranges, JobAndRunAgree, LeftAlone,
       SnapshotFresh, Killed, Waiting, Active, JobEnded, RunEnded, JobIs, RunIs
  <2>19. (WorkersApart)'
    BY <1>3, <1>a, <2>1 DEF JInv, WorkersApart
  <2> QED BY <2>10, <2>11, <2>12, <2>13, <2>14, <2>15, <2>16, <2>17, <2>18, <2>19 DEF JInv
<1> QED BY <1>1, <1>2, <1>3 DEF observed, again

-----------------------------------------------------------------------------
(* The invariant holds of every behaviour.                                  *)

LEMMA JInvInit == Init => JInv
<1> SUFFICES ASSUME Init PROVE JInv
  OBVIOUS
<1>1. TypeOK
  <2>1. NoJob \in JobRecord
    BY DEF NoJob, JobRecord
  <2>2. Gone \in WorkerRecord
    BY DEF Gone, WorkerRecord, Exits
  <2>3. Off \in SupervisorRecord
    BY DEF Off, SupervisorRecord
  <2>4. job \in [Jobs -> JobRecord] /\ worker \in [Workers -> WorkerRecord]
        /\ supervisor \in [Supervisors -> SupervisorRecord]
    BY <2>1, <2>2, <2>3 DEF Init
  <2>5. NoKill \in [job : Jobs \cup {None}, waiting : BOOLEAN, ref : Nat]
    BY DEF NoKill
  <2>6. budget \in [crashes : 0..MaxCrashes, kills : 0..MaxKills]
    BY BoundsAssumption DEF Init
  <2> QED BY <2>4, <2>5, <2>6 DEF Init, TypeOK
<1>2. /\ \A j \in Jobs : job[j].status = "absent" /\ job[j].attempts = 0 /\ run[j] = "absent"
      /\ \A w \in Workers : worker[w].pc = "gone" /\ worker[w].job = None
      /\ \A s \in Supervisors : supervisor[s].pc = "off" /\ supervisor[s].stale = {}
  BY DEF Init, NoJob, Gone, Off
<1>3. WorkersOwn /\ WorkersApart
  BY <1>2 DEF WorkersOwn, WorkersApart
<1>4. LeaseHeld /\ SpawnFree /\ SnapshotFresh /\ WorkspaceApart
  BY <1>2, JobsAssumption DEF LeaseHeld, SpawnFree, SnapshotFresh, WorkspaceApart, Occupies,
     Active
<1>5. AttemptLeft
  BY <1>2, LimitsAssumption DEF AttemptLeft
<1>6. CommandsNumbered
  BY <1>2 DEF Init, CommandsNumbered
<1>7. JobAndRunAgree
  BY <1>2 DEF JobAndRunAgree, JobEnded, RunEnded
<1> QED BY <1>1, <1>3, <1>4, <1>5, <1>6, <1>7 DEF JInv

LEMMA JInvStep ==
  ASSUME JInv, [Next]_vars
  PROVE  JInv'
<1>1. ASSUME NEW j \in Jobs, Enqueue(j) \/ JobStep(j) PROVE JInv'
  BY <1>1, EnqueueKeeps, KillReadsKeeps, SilenceKeeps, RetryDueKeeps, TimeoutPassesKeeps
     DEF JobStep
<1>2. ASSUME NEW j \in Jobs, NEW n \in 1..MaxAttempts, CommandStep(j, n) PROVE JInv'
  BY <1>2, CommandStopsKeeps, CommandExitsKeeps DEF CommandStep
<1>3. ASSUME NEW w \in Workers, WorkerStep(w) PROVE JInv'
  BY <1>3, ClaimKeeps, SaveRunKeeps, LaunchKeeps, LaunchFailsKeeps, PersistExecutionRefKeeps,
     HeartbeatCancelsKeeps, HeartbeatKeeps, HeartbeatFindsKeeps, TimerFiresKeeps,
     ChildClosesKeeps, FinalizeReadsKeeps, FinalizeWritesKeeps, WorkerCrashesKeeps
     DEF WorkerStep
<1>4. ASSUME NEW s \in Supervisors, SupervisorStep(s) \/ BeginDispatch(s) PROVE JInv'
  BY <1>4, StartSupervisorKeeps, AcquireLeaseKeeps, ReconcileKeeps, BeginDispatchKeeps,
     PickJobKeeps, EndTickKeeps, DispatchKeeps, SpawnWorkerKeeps, SpawnFailsKeeps,
     SupervisorCrashesKeeps DEF SupervisorStep
<1>5. ASSUME UNCHANGED vars PROVE JInv'
  BY <1>5 DEF vars, JInv, TypeOK, WorkersOwn, Killed, WorkersApart, LeaseHeld, SpawnFree,
     SnapshotFresh, HasWorker, AttemptLeft, CommandsNumbered, JobAndRunAgree, LeftAlone,
     WorkspaceApart, Occupies
<1> QED BY <1>1, <1>2, <1>3, <1>4, <1>5, KillWritesKeeps, LeaseExpiresKeeps DEF Next, Step

\* The inductive invariant.
THEOREM JobsInvariant == Spec => []JInv
<1> QED BY JInvInit, JInvStep, PTL DEF Spec

\* Every state of the module is well typed.
THEOREM JobsTyped == Spec => []TypeOK
<1>1. JInv => TypeOK
  BY DEF JInv
<1> QED BY <1>1, JobsInvariant, PTL

\* However often a worker or the supervisor dies, a job is attempted at most
\* maxAttempts times.
THEOREM NoAttemptTooMany == Spec => []AttemptsBounded
<1>1. JInv => AttemptsBounded
  BY DEF JInv, AttemptLeft, AttemptsBounded
<1> QED BY <1>1, JobsInvariant, PTL

\* Two workers never execute one job.
THEOREM OneWorker == Spec => []OneWorkerPerJob
<1>1. ASSUME JInv, NEW j \in Jobs
      PROVE  Cardinality({w \in Workers : worker[w].job = j /\ worker[w].pc # "boot"}) <= 1
  <2> DEFINE S == {w \in Workers : worker[w].job = j /\ worker[w].pc # "boot"}
  <2>1. \A v, w \in S : v = w
    BY <1>1, JobsAssumption DEF JInv, WorkersApart
  <2>2. CASE S = {}
    BY <2>2, FS_EmptySet
  <2>3. CASE S # {}
    <3>1. PICK w \in S : TRUE
      BY <2>3
    <3>2. S = {w}
      BY <2>1, <3>1
    <3> HIDE DEF S
    <3>3. Cardinality(S) = 1
      BY <3>2, FS_Singleton
    <3> QED BY <3>3 DEF S
  <2> QED BY <2>2, <2>3
<1>2. JInv => OneWorkerPerJob
  BY <1>1 DEF OneWorkerPerJob
<1> QED BY <1>2, JobsInvariant, PTL

\* At most one job occupies the blocking workspace: the check at the dispatch
\* of a job is still true when the job is dispatched.
THEOREM OneInWorkspace == Spec => []OneActivePerWorkspace
<1>1. ASSUME JInv PROVE OneActivePerWorkspace
  <2> DEFINE S == {j \in Blocking : job[j].status \in Active /\ ~job[j].cancel}
  <2>1. \A j, k \in S : j = k
    BY <1>1 DEF JInv, WorkspaceApart, Occupies
  <2>2. CASE S = {}
    BY <2>2, FS_EmptySet DEF OneActivePerWorkspace
  <2>3. CASE S # {}
    <3>1. PICK j \in S : S = {j}
      BY <2>1, <2>3
    <3> HIDE DEF S
    <3>2. Cardinality(S) = 1
      BY <3>1, FS_Singleton
    <3> QED BY <3>2 DEF S, OneActivePerWorkspace
  <2> QED BY <2>2, <2>3
<1> QED BY <1>1, JobsInvariant, PTL

\* A job and its run end together, unless somebody asks for the job's end.
THEOREM BothEnd == Spec => []JobAndRunAgree
<1>1. JInv => JobAndRunAgree
  BY DEF JInv
<1> QED BY <1>1, JobsInvariant, PTL

\* Whoever writes a verdict works on, or found stale, a job that is not over.
LEMMA StepKeepsOutcome ==
  ASSUME JInv, [Next]_vars, NEW j \in Jobs, run[j] \in RunEnded, LeftAlone(j)
  PROVE  run'[j] = run[j]
<1>a. Ranges /\ TypeOK
  BY InRange DEF JInv
<1>b. job[j].status \in JobEnded /\ ~job[j].cancel /\ kill.job # j
  BY DEF JInv, JobAndRunAgree, LeftAlone
<1>1. ASSUME NEW k \in Jobs, Enqueue(k) PROVE run'[j] = run[j]
  BY <1>1, <1>a, <1>b DEF Enqueue, JobEnded, TypeOK
<1>2. ASSUME KillWrites PROVE run'[j] = run[j]
  <2>1. run' = [run EXCEPT ![kill.job] = "killed"] \/ run' = run
    BY <1>2, Zenon DEF KillWrites
  <2> QED BY <2>1, <1>a, <1>b DEF TypeOK
<1>3. ASSUME NEW w \in Workers, WorkerStep(w) PROVE run'[j] = run[j]
  <2>1. worker[w].pc \notin {"gone", "boot"} => worker[w].job # j
    BY <1>b DEF JInv, WorkersOwn, Killed, JobEnded
  <2>2. CASE SaveRun(w)
    BY <2>1, <2>2, <1>a DEF SaveRun, TypeOK
  <2>3. CASE LaunchFails(w)
    BY <2>1, <2>3, <1>a DEF LaunchFails, End, TypeOK
  <2>4. CASE FinalizeWrites(w)
    BY <2>1, <2>4, <1>a DEF FinalizeWrites, Retry, End, TypeOK
  <2> QED BY <1>3, <2>2, <2>3, <2>4, Zenon DEF WorkerStep, Claim, Launch, PersistExecutionRef,
             HeartbeatCancels, Heartbeat, HeartbeatFinds, TimerFires, ChildCloses,
             FinalizeReads, WorkerCrashes
<1>4. ASSUME NEW s \in Supervisors, SupervisorStep(s) \/ BeginDispatch(s) PROVE run'[j] = run[j]
  <2>1. CASE SpawnFails(s)
    <3>1. supervisor[s].pick # j
      BY <2>1, <1>b DEF SpawnFails, JInv, SpawnFree, Killed, JobEnded
    <3> QED BY <3>1, <2>1, <1>a DEF SpawnFails, End, TypeOK
  <2>2. ASSUME NEW k \in Jobs, Reconcile(s, k) PROVE run'[j] = run[j]
    <3>1. k # j
      BY <2>2, <1>b DEF Reconcile, JInv, SnapshotFresh, Killed, Active, JobEnded
    <3>2. \E x : run' = [run EXCEPT ![k] = x]
      BY <2>2 DEF Reconcile, Retry, End
    <3> QED BY <3>1, <3>2, <1>a DEF TypeOK
  <2> QED BY <1>4, <2>1, <2>2 DEF SupervisorStep, StartSupervisor, AcquireLease, BeginDispatch,
             PickJob, EndTick, Dispatch, SpawnWorker, SupervisorCrashes
<1> QED BY <1>1, <1>2, <1>3, <1>4, ZenonT(30) DEF Next, Step, JobStep, KillReads, Silence,
           RetryDue, TimeoutPasses,           CommandStep, CommandStops, CommandExits,
           LeaseExpires, vars

\* The outcome of a run is written once, by the worker or by the supervisor.
THEOREM OneVerdict == Spec => OutcomeOnce
<1>1. JInv /\ [Next]_vars =>
        \A j \in Jobs : run[j] \in RunEnded /\ LeftAlone(j) => run'[j] = run[j]
  BY StepKeepsOutcome
<1> QED BY <1>1, JobsInvariant, PTL DEF Spec, OutcomeOnce

\* A command newly signalled is one that SIGTERM was sent to.
LEMMA SignalReaches ==
  ASSUME commands \subseteq Command, CommandsNumbered, NEW j, NEW n,
         commands' \subseteq Signalled(j, n),
         NEW c \in commands, ~c.signalled, [c EXCEPT !.signalled = TRUE] \in commands'
  PROVE  c.job = j /\ c.attempt = n
<1>1. PICK d \in commands : [c EXCEPT !.signalled = TRUE] =
         IF d.job = j /\ d.attempt = n THEN [d EXCEPT !.signalled = TRUE] ELSE d
  BY DEF Signalled
<1>2. d \in Command /\ c \in Command
  OBVIOUS
<1>3. c.job = d.job /\ c.attempt = d.attempt
  BY <1>1, <1>2 DEF Command
<1>4. c = d
  BY <1>3 DEF CommandsNumbered
<1>5. CASE ~(d.job = j /\ d.attempt = n)
  BY <1>1, <1>2, <1>4, <1>5 DEF Command
<1> QED BY <1>3, <1>5

\* No step signals a command and leaves the others as they were.
LEMMA SignalComesAlone ==
  ASSUME commands \subseteq Command, CommandsNumbered, commands' \subseteq commands,
         NEW c \in commands, ~c.signalled
  PROVE  [c EXCEPT !.signalled = TRUE] \notin commands'
<1>1. c \in Command
  OBVIOUS
<1>2. /\ [c EXCEPT !.signalled = TRUE].job = c.job
      /\ [c EXCEPT !.signalled = TRUE].attempt = c.attempt
      /\ [c EXCEPT !.signalled = TRUE].signalled
  BY <1>1 DEF Command
<1> QED BY <1>2 DEF CommandsNumbered

\* SIGTERM is sent by a kill, a cancellation, the timer, or reconciliation of a
\* command that is not alive or is due to end.
LEMMA StepKillsForCause ==
  ASSUME JInv, [Next]_vars, NEW c \in commands, ~c.signalled,
         [c EXCEPT !.signalled = TRUE] \in commands'
  PROVE  job'[c.job].cancel \/ job[c.job].timedOut
<1>a. Ranges /\ TypeOK /\ CommandsNumbered /\ commands \subseteq Command /\ c.job \in Jobs
  BY InRange DEF JInv, TypeOK, Command, Ranges
<1>b. ~(commands' \subseteq commands)
  BY <1>a, SignalComesAlone
<1>1. CASE KillWrites
  <2>0. commands' = Signalled(kill.job, kill.ref)
    BY <1>1, Zenon DEF KillWrites
  <2>1. c.job = kill.job
    BY <2>0, <1>a, SignalReaches
  <2>2. job' = [job EXCEPT ![c.job].status = "canceled", ![c.job].cancel = TRUE]
        \/ job' = [job EXCEPT ![c.job].cancel = TRUE]
    BY <1>1, <2>1, Zenon DEF KillWrites
  <2> QED BY <2>2, <1>a, JobKilled, JobAskedToEnd, Zenon DEF TypeOK, JobIs
<1>2. ASSUME NEW w \in Workers, WorkerStep(w) PROVE job'[c.job].cancel \/ job[c.job].timedOut
  <2>1. CASE HeartbeatCancels(w)
    <3>1. c.job = worker[w].job
      BY <2>1, <1>a, SignalReaches DEF HeartbeatCancels
    <3> QED BY <3>1, <2>1 DEF HeartbeatCancels, SeesCancel
  <2>2. CASE TimerFires(w)
    <3>1. c.job = worker[w].job
      BY <2>2, <1>a, SignalReaches DEF TimerFires
    <3> QED BY <3>1, <2>2 DEF TimerFires
  <2>3. CASE Launch(w)
    <3> DEFINE new == [job |-> worker[w].job, attempt |-> worker[w].attempt, signalled |-> FALSE]
               d == [c EXCEPT !.signalled = TRUE]
    <3>1. d = new \/ d \in commands
      BY <2>3 DEF Launch
    <3>2. d.signalled
      BY <1>a DEF Command
    <3>3. d # new
      BY <3>2
    <3>4. d \notin commands
      BY <1>a, <3>2 DEF CommandsNumbered, Command
    <3> QED BY <3>1, <3>3, <3>4
  <2> QED BY <1>2, <1>b, <2>1, <2>2, <2>3, Zenon DEF WorkerStep, Claim, SaveRun, LaunchFails,
             PersistExecutionRef, Heartbeat, HeartbeatFinds, ChildCloses, FinalizeReads,
             FinalizeWrites, WorkerCrashes
<1>3. ASSUME NEW s \in Supervisors, SupervisorStep(s) \/ BeginDispatch(s)
      PROVE  job'[c.job].cancel \/ job[c.job].timedOut
  <2>1. ASSUME NEW j \in Jobs, Reconcile(s, j)
        PROVE  job'[c.job].cancel \/ job[c.job].timedOut
    <3> DEFINE seen == supervisor[s].seen[j]
               exit == IF seen.paths THEN marker[j] ELSE None
               observed == exit = None /\ ExecutionAlive(j, seen) /\ ~Policy(seen)
    <3>1. commands' = IF exit = None /\ ~observed THEN Signalled(j, seen.ref) ELSE commands
      BY <2>1 DEF Reconcile
    <3>2. exit = None /\ ~observed
      BY <3>1, <1>b
    <3>3. c.job = j /\ c.attempt = seen.ref
      BY <3>1, <3>2, <1>a, SignalReaches
    <3>4. ExecutionAlive(j, seen)
      BY <3>3, <1>a DEF ExecutionAlive, Alive, CommandsNumbered
    <3>5. Policy(seen)
      BY <3>2, <3>4
    <3>6. seen.cancel => job[j].cancel
      BY <2>1 DEF Reconcile, JInv, SnapshotFresh
    <3>7. seen.timedOut => job[j].timedOut
      BY <2>1 DEF Reconcile, JInv, SnapshotFresh
    <3>8. job'[j].cancel = job[j].cancel
      BY <2>1, <1>a DEF Reconcile, Retry, End, TypeOK, JobRecord
    <3> QED BY <3>3, <3>5, <3>6, <3>7, <3>8 DEF Policy
  <2> QED BY <1>3, <1>b, <2>1 DEF SupervisorStep, StartSupervisor, AcquireLease, BeginDispatch,
             PickJob, EndTick, Dispatch, SpawnWorker, SpawnFails, SupervisorCrashes
<1> QED BY <1>b, <1>1, <1>2, <1>3 DEF Next, Step, JobStep, Enqueue, KillReads, Silence, RetryDue,
           TimeoutPasses, CommandStep, CommandStops, CommandExits, LeaseExpires, vars

\* No command is terminated because the heartbeat of its worker went silent.
THEOREM SilenceSpares == Spec => NeverKilledForSilence
<1>1. JInv /\ [Next]_vars =>
        \A c \in commands :
          ~c.signalled /\ [c EXCEPT !.signalled = TRUE] \in commands' =>
            job'[c.job].cancel \/ job[c.job].timedOut
  BY StepKillsForCause
<1> QED BY <1>1, JobsInvariant, PTL DEF Spec, NeverKilledForSilence

==============================================================================
