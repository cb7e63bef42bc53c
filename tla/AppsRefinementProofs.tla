------------------------- MODULE AppsRefinementProofs -------------------------
(***************************************************************************)
(* The proof that the workers implement the per-app lock of AppsLock.      *)
(* Every command of the repository acquires the lock of one app, releases  *)
(* it while nobody is inside, or leaves all locks alone; and commands on   *)
(* the host start and end as Enter and Leave say.                          *)
(***************************************************************************)
EXTENDS AppsWorkerRefinement, AppsWorkerProofs

-----------------------------------------------------------------------------
(* Two more invariants: a held lock belongs to an app, and a worker runs   *)
(* commands for one operation.                                             *)

ActiveNamed ==
  \A o \in Ops : op[o].active => op[o].app \in Apps /\ op[o].status # "absent"
OneCommand == \A h, i \in host : h[1] = i[1] => h = i
RefinementInv == LockInv /\ ActiveNamed /\ OneCommand

LEMMA ActiveNamedStep ==
  ASSUME TypeInv, ActiveNamed, Commanded
  PROVE  ActiveNamed'
<1> USE Typed DEF ActiveNamed, OperationRecord
<1>1. CASE LeasesElapse
  BY <1>1 DEF LeasesElapse
<1>2. ASSUME NEW o \in Ops, NEW a \in Apps, NEW k \in Keys \cup {None}, CreateOperation(o, a, k)
      PROVE  ActiveNamed'
  BY <1>2 DEF CreateOperation, Absent
<1>3. ASSUME NEW o \in Ops, NEW w \in Workers, NEW n \in 0..Lease, ClaimOperation(o, w, n)
      PROVE  ActiveNamed'
  BY <1>3 DEF ClaimOperation, OldestQueued, Queued
<1>4. ASSUME NEW o \in Ops, NEW n \in 0..Lease, RenewLease(o, n) PROVE ActiveNamed'
  BY <1>4 DEF RenewLease
<1>5. ASSUME NEW o \in Ops, NEW r \in Results, FinishOperation(o, r) PROVE ActiveNamed'
  BY <1>5 DEF FinishOperation
<1>6. ASSUME NEW o \in Ops, NEW w \in Workers, Expired(o, w), FailExpired(o)
      PROVE  ActiveNamed'
  BY <1>6 DEF Expired, FailExpired
<1>7. ASSUME NEW o \in Ops, ReleaseInterrupted(o) PROVE ActiveNamed'
  BY <1>7 DEF ReleaseInterrupted
<1>8. ASSUME NEW o \in Ops, CancelQueued(o) PROVE ActiveNamed'
  BY <1>8 DEF CancelQueued
<1>9. ASSUME NEW o \in Ops, UnlockByHand(o) PROVE ActiveNamed'
  BY <1>9 DEF UnlockByHand
<1> QED BY <1>1, <1>2, <1>3, <1>4, <1>5, <1>6, <1>7, <1>8, <1>9 DEF Commanded, opVars

\* Commands start and end one at a time.
HostSteps ==
  \/ UNCHANGED host
  \/ \E w \in Workers :
       \/ StartExecutor(w)
       \/ \E r \in Results : ExecutorReturns(w, r)
       \/ \E o \in Ops : OrphanEnds(w, o)
       \/ Die(w) /\ host' = {h \in host : h[1] # w}

LEMMA StepHost ==
  ASSUME [WNext]_wVars
  PROVE  HostSteps
<1>1. ASSUME NEW w \in Workers, WorkerStep(w) PROVE HostSteps
  <2>1. CASE ProcessStep(w)
    BY <2>1 DEF ProcessStep, Boot, StartRunner, BecomeUp, StartFails, PeriodicHeartbeat,
                ApplyHeartbeat, LoseHeartbeat, Signal, PublishLastStatus, MarkStopped, Exit,
                Crash, Die, HostSteps
  <2>2. CASE TickStep(w)
    BY <2>2 DEF TickStep, Tick, CheckStopped, Release, NothingToRecover, Recover, Claim,
                NothingToClaim, TickFails, HostSteps
  <2>3. CASE ExecutionStep(w)
    BY <2>3 DEF ExecutionStep, RenewTimer, AssertOwnership, ApplyRenewal, RenewalAnswered,
                RenewalFails, ConfirmedExpiryPasses, DeadlinePasses, StageRefused, Settle,
                Finish, FinishFails, HostSteps
  <2> QED BY <1>1, <2>1, <2>2, <2>3 DEF WorkerStep
<1> QED BY <1>1 DEF WNext, CommonStep, TimePasses, EditCancels, AdministratorUnlocks, Arrive,
                    workerVars, wVars, HostSteps

LEMMA OneCommandStep ==
  ASSUME TypeInv, LockInv, OneCommand, HostSteps
  PROVE  OneCommand'
<1>1. ASSUME NEW w \in Workers, StartExecutor(w) PROVE OneCommand'
  <2>1. \A h \in host : h[1] # w
    BY <1>1 DEF StartExecutor, LockInv, HostRun, DeadExited
  <2> QED BY <1>1, <2>1 DEF StartExecutor, OneCommand
<1>2. ASSUME NEW w \in Workers, NEW r \in Results, ExecutorReturns(w, r) PROVE OneCommand'
  BY <1>2 DEF ExecutorReturns, OneCommand
<1>3. ASSUME NEW w \in Workers, NEW o \in Ops, OrphanEnds(w, o) PROVE OneCommand'
  BY <1>3 DEF OrphanEnds, OneCommand
<1> QED BY <1>1, <1>2, <1>3 DEF HostSteps, OneCommand

LEMMA RefinementInvariant == WSpec => [](TypeInv /\ RefinementInv)
<1>1. WInit => ActiveNamed /\ OneCommand
  BY DEF WInit, OperationsInit, WorkerInit, Absent, ActiveNamed, OneCommand
<1>2. TypeInv /\ RefinementInv /\ [WNext]_wVars => ActiveNamed' /\ OneCommand'
  BY ActiveNamedStep, StepCommands, OneCommandStep, StepHost DEF RefinementInv
<1> QED BY <1>1, <1>2, Invariants, PTL DEF WSpec, RefinementInv

-----------------------------------------------------------------------------
(* The mapping.                                                            *)

\* The one operation that holds the lock of an app is its holder.
LEMMA HolderIs ==
  ASSUME ActiveUnique, NEW a \in Apps
  PROVE  /\ \A o \in Ops : Holds(o, a) => Holder[a] = o
         /\ (\A o \in Ops : ~Holds(o, a)) => Holder[a] = None
  BY DEF Holder, Holds, ActiveUnique

LEMMA SameHolders ==
  ASSUME ActiveUnique, ActiveUnique', \A o \in Ops, a \in Apps : Holds(o, a)' <=> Holds(o, a)
  PROVE  Holder' = Holder
<1>1. ASSUME NEW a \in Apps PROVE Holder'[a] = Holder[a]
  <2>1. CASE \E o \in Ops : Holds(o, a)
    BY <2>1 DEF Holder, Holds, ActiveUnique
  <2>2. CASE \A o \in Ops : ~Holds(o, a)
    BY <2>2 DEF Holder
  <2> QED BY <2>1, <2>2
<1> QED BY <1>1 DEF Holder

LEMMA Acquires ==
  ASSUME TypeInv, ActiveUnique, ActiveUnique', ActiveNamed, NEW o \in Ops, NEW a \in Apps,
         NEW k \in Keys \cup {None}, CreateOperation(o, a, k), UNCHANGED host
  PROVE  Lock!Acquire(a, o)
<1>1. /\ op'[o].app = a /\ op'[o].active
      /\ \A p \in Ops : p # o => op'[p] = op[p]
      /\ \A p \in Ops : ~Holds(p, a)
      /\ ~op[o].active
  BY Typed DEF CreateOperation, ActiveIndexFree, Absent, Holds, ActiveNamed
<1>2. Holder[a] = None
  BY <1>1, HolderIs
<1>3. Holder'[a] = o
  BY <1>1 DEF Holder, Holds, ActiveUnique
<1>4. ASSUME NEW b \in Apps, b # a PROVE Holder'[b] = Holder[b]
  <2>1. \A p \in Ops : Holds(p, b)' <=> Holds(p, b)
    BY <1>1, <1>4 DEF Holds
  <2>2. CASE \E p \in Ops : Holds(p, b)
    BY <2>1, <2>2 DEF Holder, Holds, ActiveUnique
  <2>3. CASE \A p \in Ops : ~Holds(p, b)
    BY <2>1, <2>3 DEF Holder
  <2> QED BY <2>2, <2>3
<1>5. Holder' = [Holder EXCEPT ![a] = o]
  BY <1>3, <1>4 DEF Holder
<1> QED BY <1>2, <1>5 DEF Lock!Acquire

LEMMA Releases ==
  ASSUME TypeInv, LockInv, LockInv', ActiveNamed, NEW o \in Ops, op[o].active, ~op'[o].active,
         \A p \in Ops : p # o => op'[p] = op[p], op'[o].app = op[o].app, UNCHANGED host
  PROVE  Lock!Release(op[o].app)
<1>1. PICK a \in Apps : a = op[o].app
  BY DEF ActiveNamed
<1>2. Holder[a] = o
  BY <1>1, HolderIs DEF LockInv, Holds
<1>3. \A h \in host : h[2] # o
  BY DEF LockInv, HostHeld, Held
<1>4. \A p \in Ops : ~Holds(p, a)'
  BY <1>1 DEF LockInv, ActiveUnique, Holds
<1>5. Holder'[a] = None
  BY <1>1, <1>4 DEF Holder
<1>6. ASSUME NEW b \in Apps, b # a PROVE Holder'[b] = Holder[b]
  <2>1. \A p \in Ops : Holds(p, b)' <=> Holds(p, b)
    BY <1>1, <1>6 DEF Holds
  <2>2. CASE \E p \in Ops : Holds(p, b)
    BY <2>1, <2>2 DEF LockInv, Holder, Holds, ActiveUnique
  <2>3. CASE \A p \in Ops : ~Holds(p, b)
    BY <2>1, <2>3 DEF Holder
  <2> QED BY <2>2, <2>3
<1>7. Holder' = [Holder EXCEPT ![a] = None]
  BY <1>5, <1>6 DEF Holder
<1> QED BY <1>1, <1>2, <1>3, <1>7 DEF Lock!Release

\* What every command does to the locks, while nobody moves on the host.
LEMMA CommandLocks ==
  ASSUME TypeInv, LockInv, LockInv', ActiveNamed, Commanded, UNCHANGED host
  PROVE  [Lock!LockNext]_<<Holder, host>>
<1> USE Typed DEF OperationRecord
<1>0. ASSUME \A p \in Ops : op'[p].app = op[p].app /\ op'[p].active = op[p].active
      PROVE  UNCHANGED <<Holder, host>>
  BY <1>0, SameHolders DEF LockInv, Holds
<1>1. ASSUME NEW o \in Ops, op[o].active, ~op'[o].active, op'[o].app = op[o].app,
             \A p \in Ops : p # o => op'[p] = op[p]
      PROVE  Lock!LockNext
  BY <1>1, Releases DEF ActiveNamed, Lock!LockNext
<1>2. CASE LeasesElapse
  BY <1>0, <1>2 DEF LeasesElapse
<1>3. ASSUME NEW o \in Ops, NEW a \in Apps, NEW k \in Keys \cup {None}, CreateOperation(o, a, k)
      PROVE  Lock!LockNext
  BY <1>3, Acquires DEF LockInv, Lock!LockNext
<1>4. ASSUME NEW o \in Ops, NEW w \in Workers, NEW n \in 0..Lease, ClaimOperation(o, w, n)
      PROVE  UNCHANGED <<Holder, host>>
  BY <1>0, <1>4 DEF ClaimOperation
<1>5. ASSUME NEW o \in Ops, NEW n \in 0..Lease, RenewLease(o, n)
      PROVE  UNCHANGED <<Holder, host>>
  BY <1>0, <1>5 DEF RenewLease
<1>6. ASSUME NEW o \in Ops, NEW w \in Workers, NEW g \in Nat, NEW r \in Results,
             Owned(o, w, g), FinishOperation(o, r)
      PROVE  Lock!LockNext
  <2>1. /\ op[o].active /\ ~op'[o].active /\ op'[o].app = op[o].app
        /\ \A p \in Ops : p # o => op'[p] = op[p]
    BY <1>6 DEF Owned, FinishOperation
  <2> QED BY <1>1, <2>1
<1>7. ASSUME NEW o \in Ops, NEW w \in Workers, Expired(o, w), FailExpired(o)
      PROVE  UNCHANGED <<Holder, host>>
  BY <1>0, <1>7 DEF Expired, FailExpired
<1>8. ASSUME NEW o \in Ops, ReleaseInterrupted(o)
      PROVE  Lock!LockNext \/ UNCHANGED <<Holder, host>>
  <2>1. CASE op' = op
    BY <1>0, <2>1
  <2>2. CASE /\ op[o].active
             /\ op' = [op EXCEPT ![o].active = FALSE, ![o].code = "WORKER_INTERRUPTED"]
    <3>1. /\ ~op'[o].active /\ op'[o].app = op[o].app
          /\ \A p \in Ops : p # o => op'[p] = op[p]
      BY <2>2
    <3> QED BY <1>1, <2>2, <3>1
  <2> QED BY <1>8, <2>1, <2>2 DEF ReleaseInterrupted
<1>9. ASSUME NEW o \in Ops, CancelQueued(o) PROVE Lock!LockNext
  <2>1. /\ op[o].active /\ ~op'[o].active /\ op'[o].app = op[o].app
        /\ \A p \in Ops : p # o => op'[p] = op[p]
    BY <1>9 DEF CancelQueued, Queued
  <2> QED BY <1>1, <2>1
<1>10. ASSUME NEW o \in Ops, UnlockByHand(o) PROVE Lock!LockNext
  <2>1. /\ op[o].active /\ ~op'[o].active /\ op'[o].app = op[o].app
        /\ \A p \in Ops : p # o => op'[p] = op[p]
    BY <1>10 DEF UnlockByHand
  <2> QED BY <1>1, <2>1
<1>11. CASE UNCHANGED opVars
  BY <1>0, <1>11 DEF opVars
<1> QED BY <1>2, <1>3, <1>4, <1>5, <1>6, <1>7, <1>8, <1>9, <1>10, <1>11 DEF Commanded

\* What starting and ending commands does, while no record changes.
LEMMA HostLocks ==
  ASSUME TypeInv, RefinementInv, LockInv', NEW w \in Workers,
         \/ StartExecutor(w)
         \/ \E r \in Results : ExecutorReturns(w, r)
         \/ \E o \in Ops : OrphanEnds(w, o)
         \/ Die(w) /\ host' = {h \in host : h[1] # w}
  PROVE  Lock!LockNext
<1> USE Typed DEF RefinementInv
<1>1. UNCHANGED op
  BY DEF StartExecutor, ExecutorReturns, OrphanEnds, Die, opVars
<1>2. UNCHANGED Holder
  BY <1>1 DEF Holder, Holds
<1>3. CASE StartExecutor(w)
  <2> DEFINE o == run[w].op
  <2>1. o \in Ops /\ op[o].active /\ op[o].worker = w /\ op[o].app \in Apps
    BY <1>3 DEF StartExecutor, NeedsOp, LockInv, RunHolds, Held, ActiveNamed
  <2>2. Holder[op[o].app] = o
    BY <2>1, HolderIs DEF Holds, LockInv
  <2>3. \A h \in host : h[2] # o
    BY <1>3, <2>1 DEF StartExecutor, LockInv, HostHeld, HostRun, DeadExited, Held
  <2>4. host' = host \cup {<<w, o>>}
    BY <1>3 DEF StartExecutor
  <2> HIDE DEF o
  <2>5. Lock!Enter(w, op[o].app)
    BY <1>2, <2>1, <2>2, <2>3, <2>4 DEF Lock!Enter
  <2> QED BY <2>1, <2>5 DEF Lock!LockNext
<1>4. ASSUME NEW o \in Ops, host' = host \ {<<w, o>>}, <<w, o>> \in host PROVE Lock!LockNext
  <2>1. host' = {h \in host : h[1] # w}
    BY <1>4 DEF OneCommand
  <2> QED BY <1>2, <2>1 DEF Lock!Leave, Lock!LockNext
<1>5. ASSUME NEW r \in Results, ExecutorReturns(w, r) PROVE Lock!LockNext
  <2>1. run[w].op \in Ops
    BY <1>5 DEF ExecutorReturns, NeedsOp
  <2>2. \A h \in host : h[1] = w => h[2] = run[w].op
    <3>1. proc[w] # "exited"
      BY <1>5 DEF ExecutorReturns, LockInv, DeadExited
    <3> QED BY <3>1 DEF LockInv, HostRun
  <2>3. \A h \in host : h = <<w, run[w].op>> <=> h[1] = w
    BY <2>2
  <2>4. host' = host \ {<<w, run[w].op>>}
    BY <1>5 DEF ExecutorReturns
  <2>5. host' = {h \in host : h[1] # w}
    BY <2>3, <2>4
  <2> QED BY <1>2, <2>5 DEF Lock!Leave, Lock!LockNext
<1>6. ASSUME NEW o \in Ops, OrphanEnds(w, o) PROVE Lock!LockNext
  BY <1>4, <1>6 DEF OrphanEnds
<1>7. CASE host' = {h \in host : h[1] # w}
  BY <1>2, <1>7 DEF Lock!Leave, Lock!LockNext
<1> QED BY <1>3, <1>5, <1>6, <1>7

\* The workers implement the lock: an app's lock is released only while
\* nobody acts on the app, and nobody acts on it without its lock.
THEOREM WorkersImplementLock == WSpec => ImplementsLock
<1>1. WInit => Lock!LockInit
  BY DEF WInit, OperationsInit, WorkerInit, Absent, Lock!LockInit, Holder, Holds
<1>2. /\ TypeInv /\ RefinementInv /\ [WNext]_wVars /\ LockInv'
      => [Lock!LockNext]_(Lock!lockVars)
  <2> SUFFICES ASSUME TypeInv, RefinementInv, [WNext]_wVars, LockInv'
               PROVE  [Lock!LockNext]_<<Holder, host>>
    BY DEF Lock!lockVars
  <2>1. CASE UNCHANGED host
    BY <2>1, StepCommands, CommandLocks DEF RefinementInv
  <2>2. CASE ~UNCHANGED host
    BY <2>2, StepHost, HostLocks DEF HostSteps
  <2> QED BY <2>1, <2>2
<1> QED BY <1>1, <1>2, RefinementInvariant, PTL DEF WSpec, ImplementsLock, Lock!LockSpec,
           RefinementInv
=============================================================================
