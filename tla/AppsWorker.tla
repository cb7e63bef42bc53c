------------------------------ MODULE AppsWorker ------------------------------
(***************************************************************************)
(* The Apps worker: the process of src/workers/apps-worker.ts, the poll    *)
(* loop and the lease-guarded execution of src/lib/apps/worker/runner.ts,  *)
(* and the heartbeat document both publish.  A worker process has its own  *)
(* workerId and one life; a restart is another member of Workers.          *)
(*                                                                         *)
(* Every await is a point where other processes, timers and the clock may  *)
(* run.  A lease renewal is split into its three moments (sent with an     *)
(* expiry computed beforehand, applied by the database, answered), since   *)
(* two may be in flight at once and answers may be lost or late.           *)
(***************************************************************************)
EXTENDS AppsOperations

CONSTANTS
  Results,    \* outcomes an executor may return
  Callers,    \* which renewals are sent: a bound of the runs, all in proofs
  LateWrites  \* may a heartbeat write outlive the bounded wait for it, or
              \* its process: a bound of the runs, TRUE in the program

ASSUME ResultsAssumption == Results \subseteq Terminal
ASSUME LateWritesAssumption == LateWrites \in BOOLEAN

VARIABLES
  proc,       \* life of each process
  why,        \* the reason of its shutdown; the first one given wins
  heartbeat,  \* status field of its appsworkerheartbeats document
  writes,     \* heartbeat writes sent and not answered yet
  run,        \* the current runAppsWorkerOnce of each process
  renewal,    \* renewals in flight: the interval's, and assertOwnership's
  host        \* <<w, o>>: commands w started for o may be acting on the host

workerVars == <<proc, why, heartbeat, writes, run, renewal, host>>
wVars == <<opVars, workerVars>>

Lives == {"off", "boot", "started", "up", "stopping", "draining", "marking", "exited"}
HeartbeatStatus == {"starting", "running", "draining", "failed", "stopped"}
Slots == {"timer", "assert"}

RunRecord ==
  [pc : {"idle", "recover", "check", "release", "claim", "claimed",
         "exec", "settle", "finish", "dead"},
   op : Ops \cup {None}, generation : Nat, lost : BOOLEAN, aborted : BOOLEAN,
   confirmed : 0..Lease, result : Results \cup {None}]

RenewalRecord == [st : {"free", "sent", "ok", "refused"}, left : 0..Lease]

WorkerTypeOK ==
  /\ proc \in [Workers -> Lives]
  /\ why \in [Workers -> {"none", "signal", "fatal"}]
  /\ heartbeat \in [Workers -> HeartbeatStatus \cup {"missing"}]
  /\ writes \in [Workers -> SUBSET HeartbeatStatus]
  /\ run \in [Workers -> RunRecord]
  /\ renewal \in [Workers -> [Slots -> RenewalRecord]]
  /\ host \subseteq Workers \X Ops

Idle == [pc |-> "idle", op |-> None, generation |-> 0, lost |-> FALSE,
         aborted |-> FALSE, confirmed |-> 0, result |-> None]
Free == [st |-> "free", left |-> 0]

WorkerInit ==
  /\ proc = [w \in Workers |-> "off"]
  /\ why = [w \in Workers |-> "none"]
  /\ heartbeat = [w \in Workers |-> "missing"]
  /\ writes = [w \in Workers |-> {}]
  /\ run = [w \in Workers |-> Idle]
  /\ renewal = [w \in Workers |-> [s \in Slots |-> Free]]
  /\ host = {}

\* stopClaiming() runs in the same turn as the start of a shutdown.
AcceptingClaims(w) == proc[w] \in {"started", "up"}

-----------------------------------------------------------------------------
(* Process start: connect, migrate, publish 'starting', start the runner   *)
(* (its first tick is immediate), publish 'running'.                       *)

Boot(w) ==
  /\ proc[w] = "off"
  /\ proc' = [proc EXCEPT ![w] = "boot"]
  /\ UNCHANGED <<opVars, why, heartbeat, writes, run, renewal, host>>

StartRunner(w) ==
  /\ proc[w] = "boot"
  /\ proc' = [proc EXCEPT ![w] = "started"]
  /\ heartbeat' = [heartbeat EXCEPT ![w] = "starting"]
  /\ writes' = [writes EXCEPT ![w] = {"running"}]
  /\ UNCHANGED <<opVars, why, run, renewal, host>>

BecomeUp(w) ==
  /\ proc[w] = "started"
  /\ "running" \notin writes[w]
  /\ proc' = [proc EXCEPT ![w] = "up"]
  /\ UNCHANGED <<opVars, why, heartbeat, writes, run, renewal, host>>

\* The catch around the start sequence: a write or the connection failed.
StartFails(w) ==
  /\ \/ proc[w] = "boot"
     \/ proc[w] = "started" /\ "running" \notin writes[w]
  /\ proc' = [proc EXCEPT ![w] = "stopping"]
  /\ why' = [why EXCEPT ![w] = "fatal"]
  /\ UNCHANGED <<opVars, heartbeat, writes, run, renewal, host>>

-----------------------------------------------------------------------------
(* Heartbeat writes.  A write still in flight may be applied after later   *)
(* ones, and after the process is gone; the status filter of the upsert    *)
(* decides then.                                                           *)

\* Mutant: a periodic heartbeat replaces whatever it finds.
RunningReplacesAll ==
  [starting |-> {},
   running  |-> HeartbeatStatus,
   draining |-> {"starting", "running", "draining"},
   failed   |-> {"starting", "running", "draining", "failed"},
   stopped  |-> {"starting", "running", "draining", "stopped"}]

StatusesReplacedBy ==
  [starting |-> {},
   running  |-> {"starting", "running"},
   draining |-> {"starting", "running", "draining"},
   failed   |-> {"starting", "running", "draining", "failed"},
   stopped  |-> {"starting", "running", "draining", "stopped"}]

PeriodicHeartbeat(w) ==
  /\ proc[w] = "up"
  /\ "running" \notin writes[w]
  /\ writes' = [writes EXCEPT ![w] = @ \cup {"running"}]
  /\ UNCHANGED <<opVars, proc, why, heartbeat, run, renewal, host>>

ApplyHeartbeat(w, s) ==
  /\ s \in writes[w]
  /\ writes' = [writes EXCEPT ![w] = @ \ {s}]
  /\ heartbeat' = IF heartbeat[w] \in StatusesReplacedBy[s]
                  THEN [heartbeat EXCEPT ![w] = s] ELSE heartbeat
  /\ UNCHANGED <<opVars, proc, why, run, renewal, host>>

LoseHeartbeat(w, s) ==
  /\ s \in writes[w]
  /\ writes' = [writes EXCEPT ![w] = @ \ {s}]
  /\ UNCHANGED <<opVars, proc, why, heartbeat, run, renewal, host>>

-----------------------------------------------------------------------------
(* Shutdown.  Each wait for a heartbeat write is bounded by a timeout.      *)

WritesAwaited(w) == LateWrites \/ writes[w] = {}

Signal(w) ==
  /\ proc[w] = "up"
  /\ proc' = [proc EXCEPT ![w] = "stopping"]
  /\ why' = [why EXCEPT ![w] = "signal"]
  /\ UNCHANGED <<opVars, heartbeat, writes, run, renewal, host>>

PublishLastStatus(w) ==
  /\ proc[w] = "stopping"
  /\ WritesAwaited(w)
  /\ proc' = [proc EXCEPT ![w] = "draining"]
  /\ writes' = [writes EXCEPT ![w] = @ \cup {IF why[w] = "fatal" THEN "failed" ELSE "draining"}]
  /\ UNCHANGED <<opVars, why, heartbeat, run, renewal, host>>

\* Mutant: the drain does not wait for the run in progress.
MarkStoppedUndrained(w) ==
  /\ proc[w] = "draining"
  /\ why[w] = "signal"
  /\ WritesAwaited(w)
  /\ proc' = [proc EXCEPT ![w] = "marking"]
  /\ writes' = [writes EXCEPT ![w] = @ \cup {"stopped"}]
  /\ UNCHANGED <<opVars, why, heartbeat, run, renewal, host>>

MarkStopped(w) ==
  /\ proc[w] = "draining"
  /\ why[w] = "signal"
  /\ run[w].pc = "idle"
  /\ WritesAwaited(w)
  /\ proc' = [proc EXCEPT ![w] = "marking"]
  /\ writes' = [writes EXCEPT ![w] = @ \cup {"stopped"}]
  /\ UNCHANGED <<opVars, why, heartbeat, run, renewal, host>>

\* The commands are children in process groups of their own: they may die
\* with the worker (systemd's control-group kill) or outlive it.  A renewal
\* already sent may still be applied.
Die(w) ==
  /\ proc' = [proc EXCEPT ![w] = "exited"]
  /\ run' = [run EXCEPT ![w] = [Idle EXCEPT !.pc = "dead", !.op = run[w].op,
                                            !.generation = run[w].generation]]
  /\ renewal' = [renewal EXCEPT ![w] =
                   [s \in Slots |-> IF renewal[w][s].st = "sent" THEN renewal[w][s] ELSE Free]]
  /\ \/ UNCHANGED host
     \/ host' = {h \in host : h[1] # w}
  /\ writes' = IF LateWrites THEN writes ELSE [writes EXCEPT ![w] = {}]
  /\ UNCHANGED <<opVars, why, heartbeat>>

\* process.exit: after the stopped write (answered or not), after a fatal
\* shutdown drained, or with the executor still running on a drain timeout.
Exit(w) ==
  /\ \/ proc[w] = "marking"
     \/ proc[w] = "draining" /\ (why[w] = "fatal" \/ run[w].pc # "idle")
  /\ WritesAwaited(w)
  /\ Die(w)

Crash(w) ==
  /\ proc[w] \notin {"off", "exited"}
  /\ Die(w)

OrphanEnds(w, o) ==
  /\ <<w, o>> \in host
  /\ proc[w] = "exited"
  /\ host' = host \ {<<w, o>>}
  /\ UNCHANGED <<opVars, proc, why, heartbeat, writes, run, renewal>>

-----------------------------------------------------------------------------
(* One tick: recover expired operations of other workers, then claim.      *)

Goto(w, pc) == run' = [run EXCEPT ![w].pc = pc]

Tick(w) ==
  /\ AcceptingClaims(w)
  /\ run[w].pc = "idle"
  /\ Goto(w, "recover")
  /\ UNCHANGED <<opVars, proc, why, heartbeat, writes, renewal, host>>

Recover(w, o) ==
  /\ run[w].pc = "recover"
  /\ Expired(o, w)
  /\ FailExpired(o)
  /\ run' = [run EXCEPT ![w].pc = "check", ![w].op = o]
  /\ UNCHANGED <<proc, why, heartbeat, writes, renewal, host>>

\* Mutant: a worker that reported its failure counts as drained.
CheckStoppedOrFailed(w) ==
  /\ run[w].pc = "check"
  /\ run' = IF heartbeat[op[run[w].op].worker] \in {"stopped", "failed"}
            THEN [run EXCEPT ![w].pc = "release"]
            ELSE [run EXCEPT ![w].pc = "recover", ![w].op = None]
  /\ UNCHANGED <<opVars, proc, why, heartbeat, writes, renewal, host>>

CheckStopped(w) ==
  /\ run[w].pc = "check"
  /\ run' = IF heartbeat[op[run[w].op].worker] = "stopped"
            THEN [run EXCEPT ![w].pc = "release"]
            ELSE [run EXCEPT ![w].pc = "recover", ![w].op = None]
  /\ UNCHANGED <<opVars, proc, why, heartbeat, writes, renewal, host>>

Release(w) ==
  /\ run[w].pc = "release"
  /\ ReleaseInterrupted(run[w].op)
  /\ run' = [run EXCEPT ![w].pc = "recover", ![w].op = None]
  /\ UNCHANGED <<proc, why, heartbeat, writes, renewal, host>>

\* startedAt is sampled here; the claim may reach the database later.
NothingToRecover(w) ==
  /\ run[w].pc = "recover"
  /\ \A o \in Ops : ~Expired(o, w)
  /\ run' = [run EXCEPT ![w].pc = "claim", ![w].confirmed = Lease]
  /\ UNCHANGED <<opVars, proc, why, heartbeat, writes, renewal, host>>

Claim(w, o) ==
  /\ run[w].pc = "claim"
  /\ ClaimOperation(o, w, run[w].confirmed)
  /\ run' = [run EXCEPT ![w].pc = "claimed", ![w].op = o,
                        ![w].generation = op[o].generation + 1]
  /\ UNCHANGED <<proc, why, heartbeat, writes, renewal, host>>

NothingToClaim(w) ==
  /\ run[w].pc = "claim"
  /\ \A o \in Ops : ~Queued(o)
  /\ run' = [run EXCEPT ![w] = Idle]
  /\ UNCHANGED <<opVars, proc, why, heartbeat, writes, renewal, host>>

\* A database error ends the tick: before the update, or, once it was
\* applied, when only its answer is lost.  It is logged and nothing else.
TickFails(w) ==
  /\ run[w].pc \in {"recover", "check", "release", "claim", "claimed"}
  /\ run' = [run EXCEPT ![w] = Idle]
  /\ UNCHANGED <<opVars, proc, why, heartbeat, writes, renewal, host>>

StartExecutor(w) ==
  /\ run[w].pc = "claimed"
  /\ Goto(w, "exec")
  /\ host' = host \cup {<<w, run[w].op>>}
  /\ UNCHANGED <<opVars, proc, why, heartbeat, writes, renewal>>

-----------------------------------------------------------------------------
(* While the executor runs: renewals, ownership checks, timers.            *)

Watched(w) == run[w].pc \in {"exec", "settle", "finish"}

LoseLease(w) == run' = [run EXCEPT ![w].lost = TRUE, ![w].aborted = TRUE]

SendRenewal(w, s) == renewal' = [renewal EXCEPT ![w][s] = [st |-> "sent", left |-> Lease]]

RenewTimer(w) ==
  /\ run[w].pc = "exec"
  /\ ~run[w].lost
  /\ "timer" \in Callers
  /\ renewal[w]["timer"].st = "free"
  /\ SendRenewal(w, "timer")
  /\ UNCHANGED <<opVars, proc, why, heartbeat, writes, run, host>>

AssertOwnership(w) ==
  /\ run[w].pc = "exec"
  /\ ~run[w].aborted
  /\ run[w].confirmed > 0
  /\ "assert" \in Callers
  /\ renewal[w]["assert"].st = "free"
  /\ SendRenewal(w, "assert")
  /\ UNCHANGED <<opVars, proc, why, heartbeat, writes, run, host>>

ApplyRenewal(w, s) ==
  /\ renewal[w][s].st = "sent"
  /\ IF Owned(run[w].op, w, run[w].generation)
     THEN /\ RenewLease(run[w].op, renewal[w][s].left)
          /\ renewal' = [renewal EXCEPT ![w][s].st = "ok"]
     ELSE /\ UNCHANGED opVars
          /\ renewal' = [renewal EXCEPT ![w][s] = [st |-> "refused", left |-> 0]]
  /\ UNCHANGED <<proc, why, heartbeat, writes, run, host>>

\* Mutant: the confirmed expiry is computed when the answer arrives.
RenewalAnsweredLate(w, s) ==
  /\ Watched(w)
  /\ renewal[w][s].st \in {"ok", "refused"}
  /\ IF renewal[w][s].st = "ok"
     THEN run' = [run EXCEPT ![w].confirmed = Lease]
     ELSE LoseLease(w)
  /\ renewal' = [renewal EXCEPT ![w][s] = Free]
  /\ UNCHANGED <<opVars, proc, why, heartbeat, writes, host>>

RenewalAnswered(w, s) ==
  /\ Watched(w)
  /\ renewal[w][s].st \in {"ok", "refused"}
  /\ IF renewal[w][s].st = "ok"
     THEN run' = [run EXCEPT ![w].confirmed = renewal[w][s].left]
     ELSE LoseLease(w)
  /\ renewal' = [renewal EXCEPT ![w][s] = Free]
  /\ UNCHANGED <<opVars, proc, why, heartbeat, writes, host>>

\* The call throws, before or after the database applied it.  The interval
\* retries at its next turn; an ownership check makes the executor fail.
RenewalFails(w, s) ==
  /\ Watched(w)
  /\ renewal[w][s].st # "free"
  /\ renewal' = [renewal EXCEPT ![w][s] = Free]
  /\ UNCHANGED <<opVars, proc, why, heartbeat, writes, run, host>>

\* The expiry timer, and the same test at the head of assertOwnership.
ConfirmedExpiryPasses(w) ==
  /\ Watched(w)
  /\ run[w].confirmed = 0
  /\ ~run[w].lost
  /\ LoseLease(w)
  /\ UNCHANGED <<opVars, proc, why, heartbeat, writes, renewal, host>>

DeadlinePasses(w) ==
  /\ Watched(w)
  /\ run[w].confirmed > 0
  /\ ~run[w].aborted
  /\ run' = [run EXCEPT ![w].aborted = TRUE]
  /\ UNCHANGED <<opVars, proc, why, heartbeat, writes, renewal, host>>

\* A stage report whose fence matches only writes the phase, left out here.
StageRefused(w) ==
  /\ run[w].pc = "exec"
  /\ ~run[w].aborted
  /\ ~Owned(run[w].op, w, run[w].generation)
  /\ LoseLease(w)
  /\ UNCHANGED <<opVars, proc, why, heartbeat, writes, renewal, host>>

\* Mutant: an executor that throws leaves no result to finish with.
ExecutorReturnsNothing(w, r) ==
  /\ run[w].pc = "exec"
  /\ renewal[w]["assert"].st = "free"
  /\ run' = [run EXCEPT ![w].pc = "settle"]
  /\ host' = host \ {<<w, run[w].op>>}
  /\ UNCHANGED <<opVars, proc, why, heartbeat, writes, renewal>>

ExecutorReturns(w, r) ==
  /\ run[w].pc = "exec"
  /\ renewal[w]["assert"].st = "free"
  /\ run' = [run EXCEPT ![w].pc = "settle", ![w].result = r]
  /\ host' = host \ {<<w, run[w].op>>}
  /\ UNCHANGED <<opVars, proc, why, heartbeat, writes, renewal>>

-----------------------------------------------------------------------------
(* After the executor: wait for the pending renewal, then finish.          *)

\* AppOperationLeaseLostError reaches the runner: stopClaiming, onFatal.
Abandon(w) ==
  /\ run' = [run EXCEPT ![w] = Idle]
  /\ IF AcceptingClaims(w)
     THEN /\ proc' = [proc EXCEPT ![w] = "stopping"]
          /\ why' = [why EXCEPT ![w] = "fatal"]
     ELSE UNCHANGED <<proc, why>>

Settle(w) ==
  /\ run[w].pc = "settle"
  /\ renewal[w]["timer"].st = "free"
  /\ IF run[w].lost
     THEN Abandon(w)
     ELSE Goto(w, "finish") /\ UNCHANGED <<proc, why>>
  /\ UNCHANGED <<opVars, heartbeat, writes, renewal, host>>

Finish(w) ==
  /\ run[w].pc = "finish"
  /\ IF Owned(run[w].op, w, run[w].generation)
     THEN /\ FinishOperation(run[w].op, run[w].result)
          /\ run' = [run EXCEPT ![w] = Idle]
          /\ UNCHANGED <<proc, why>>
     ELSE Abandon(w) /\ UNCHANGED opVars
  /\ UNCHANGED <<heartbeat, writes, renewal, host>>

\* The terminal write throws without being applied: logged, nothing else.
FinishFails(w) ==
  /\ run[w].pc = "finish"
  /\ run' = [run EXCEPT ![w] = Idle]
  /\ UNCHANGED <<opVars, proc, why, heartbeat, writes, renewal, host>>

-----------------------------------------------------------------------------
\* One tick of the clock all deadlines are compared with.
TimePasses ==
  /\ LeasesElapse
  /\ run' = [w \in Workers |-> [run[w] EXCEPT !.confirmed = Elapse(@)]]
  /\ renewal' = [w \in Workers |->
                   [s \in Slots |-> [renewal[w][s] EXCEPT !.left = Elapse(@)]]]
  /\ UNCHANGED <<proc, why, heartbeat, writes, host>>

ProcessStep(w) ==
  \/ Boot(w) \/ StartRunner(w) \/ BecomeUp(w) \/ StartFails(w)
  \/ PeriodicHeartbeat(w)
  \/ \E s \in HeartbeatStatus : ApplyHeartbeat(w, s) \/ LoseHeartbeat(w, s)
  \/ Signal(w) \/ PublishLastStatus(w) \/ MarkStopped(w) \/ Exit(w) \/ Crash(w)
  \/ \E o \in Ops : OrphanEnds(w, o)

TickStep(w) ==
  \/ Tick(w) \/ CheckStopped(w) \/ Release(w) \/ NothingToRecover(w)
  \/ \E o \in Ops : Recover(w, o) \/ Claim(w, o)
  \/ NothingToClaim(w) \/ TickFails(w) \/ StartExecutor(w)

ExecutionStep(w) ==
  \/ RenewTimer(w) \/ AssertOwnership(w)
  \/ \E s \in Slots : ApplyRenewal(w, s) \/ RenewalAnswered(w, s) \/ RenewalFails(w, s)
  \/ ConfirmedExpiryPasses(w) \/ DeadlinePasses(w) \/ StageRefused(w)
  \/ \E r \in Results : ExecutorReturns(w, r)
  \/ Settle(w) \/ Finish(w) \/ FinishFails(w)

WorkerStep(w) == ProcessStep(w) \/ TickStep(w) \/ ExecutionStep(w)

-----------------------------------------------------------------------------
(***************************************************************************)
(* The workers by themselves: operations arrive without the client's side  *)
(* of the conversation, which AppsQueue adds.                              *)
(***************************************************************************)
Arrive(o) ==
  /\ \E a \in Apps, k \in Keys \cup {None} : CreateOperation(o, a, k)
  /\ UNCHANGED workerVars

EditCancels(o) ==
  /\ CancelQueued(o)
  /\ UNCHANGED workerVars

\* Only once the leased worker and every process it started are gone.
AdministratorUnlocks(o) ==
  /\ UnlockByHand(o)
  /\ \A w \in Workers : op[o].worker = w => proc[w] = "exited"
  /\ \A h \in host : h[2] # o
  /\ UNCHANGED workerVars

CommonStep ==
  \/ \E w \in Workers : WorkerStep(w)
  \/ TimePasses
  \/ \E o \in Ops : EditCancels(o) \/ AdministratorUnlocks(o)

WInit == OperationsInit /\ WorkerInit
WNext == CommonStep \/ \E o \in Ops : Arrive(o)
WSpec == WInit /\ [][WNext]_wVars
WTypeOK == OperationsTypeOK /\ WorkerTypeOK

-----------------------------------------------------------------------------
(***************************************************************************)
(* Safety.                                                                 *)
(***************************************************************************)

\* At most one executor, of whatever worker, living or orphaned by a crash,
\* may be changing an app on the host.  Leases do not give this: they expire
\* while commands run.  What gives it is that the active lock outlives the
\* lease until the worker is known to have drained.
HostExclusive ==
  \A h, i \in host : op[h[2]].app = op[i[2]].app => h = i

\* The heartbeat status that lets recovery release a lock, "stopped", is
\* only ever found when nothing of that worker can be acting on the host.
StoppedMeansDrained ==
  \A w \in Workers :
    heartbeat[w] = "stopped" => run[w].pc \in {"idle", "dead"} /\ \A h \in host : h[1] # w

\* No late heartbeat of the same process overwrites "stopped": recovery reads
\* it in one step and releases the lock in the next.
StoppedIsFinal ==
  [][\A w \in Workers : heartbeat[w] = "stopped" => heartbeat'[w] = "stopped"]_wVars

\* A recorded outcome never changes: not by a worker whose operation was
\* recovered in the meantime, not by a late edit, not by recovery.
TerminalIsImmutable ==
  [][\A o \in Ops : op[o].status \in Terminal => op'[o].status = op[o].status]_wVars

\* Work that may have touched the host is never replayed: no operation is
\* claimed twice, whatever crashed, expired or was unlocked.
NeverReplayed ==
  \A o \in Ops : op[o].generation <= 1 /\ (Queued(o) => op[o].generation = 0)

\* While a worker trusts its lease (confirmed and not expired by its own
\* clock), the record is still its own and no other worker may recover it.
\* This is why the expiry is computed before a renewal is sent.  It needs
\* renewals one at a time, as the interval sends them; an ownership check
\* that overtakes one breaks it.
ConfirmedLease ==
  \A w \in Workers :
    run[w].pc = "exec" /\ ~run[w].lost /\ run[w].confirmed > 0 =>
      /\ Owned(run[w].op, w, run[w].generation)
      /\ op[run[w].op].left >= run[w].confirmed

-----------------------------------------------------------------------------
(***************************************************************************)
(* Liveness.  Timers fire, sent commands are answered, and a database that *)
(* may fail any one call does not fail the same call for ever (SF).  An    *)
(* executor returns: every command is killed at the operation deadline.    *)
(* Nothing makes a process start, stop or crash.                           *)
(***************************************************************************)
Advance(w) ==
  \/ Tick(w) \/ CheckStopped(w) \/ Release(w) \/ NothingToRecover(w)
  \/ \E o \in Ops : Recover(w, o) \/ Claim(w, o)
  \/ NothingToClaim(w) \/ TickFails(w) \/ StartExecutor(w)
  \/ \E r \in Results : ExecutorReturns(w, r)
  \/ Settle(w) \/ Finish(w) \/ FinishFails(w)

LoopFairness(w) ==
  /\ SF_wVars(Advance(w))
  /\ \A s \in Callers : WF_wVars(ApplyRenewal(w, s)) /\ WF_wVars(RenewalAnswered(w, s))

RecoveryFairness(w) == SF_wVars(\E o \in Ops : Recover(w, o))

ClaimFairness(w) ==
  /\ SF_wVars(NothingToRecover(w))
  /\ SF_wVars(\E o \in Ops : Claim(w, o))

Fairness ==
  /\ WF_wVars(TimePasses)
  /\ \A w \in Workers : LoopFairness(w) /\ RecoveryFairness(w) /\ ClaimFairness(w)

WLiveSpec == WSpec /\ Fairness

SomeWorkerStaysUp == \E w \in Workers : <>[](proc[w] = "up")

\* An accepted operation does not wait for ever behind failures of others:
\* while some worker stays up it is claimed (or cancelled by an edit).
QueuedIsClaimed ==
  SomeWorkerStaysUp => \A o \in Ops : Queued(o) ~> ~Queued(o)

\* What a dead worker left in flight is marked failed, without anybody's help.
InterruptedIsFailed ==
  SomeWorkerStaysUp =>
    \A o \in Ops :
      (op[o].status \in InFlight /\ proc[op[o].worker] = "exited")
         ~> op[o].status \notin InFlight
=============================================================================
