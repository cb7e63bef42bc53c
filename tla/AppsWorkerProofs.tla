--------------------------- MODULE AppsWorkerProofs ---------------------------
(***************************************************************************)
(* Proofs about AppsWorker, for any number of workers, operations, apps    *)
(* and keys, any lease length and late writes; with both kinds of renewal, *)
(* but for the lease a worker trusts.                                      *)
(***************************************************************************)
EXTENDS AppsWorker, TLAPS

(* The commands of AppsOperations keep the records of their type.  Records *)
(* are given to Zenon, numbers to SMT.                                     *)

LEMMA CreateType ==
  ASSUME OperationsTypeOK, NEW o \in Ops, NEW a \in Apps, NEW k \in Keys \cup {None},
         CreateOperation(o, a, k)
  PROVE  OperationsTypeOK'
<1>1. 0 \in 0..Lease
  BY LeaseAssumption
<1>2. [Absent EXCEPT !.app = a, !.key = k, !.status = "queued", !.active = TRUE] \in OperationRecord
  BY <1>1, Zenon DEF Absent, OperationRecord, Codes
<1> QED BY <1>2 DEF OperationsTypeOK, CreateOperation

LEMMA ClaimType ==
  ASSUME OperationsTypeOK, NEW o \in Ops, NEW w \in Workers, NEW n \in 0..Lease,
         ClaimOperation(o, w, n)
  PROVE  OperationsTypeOK'
<1>1. op[o] \in OperationRecord
  BY DEF OperationsTypeOK
<1>2. op[o].generation + 1 \in Nat
  BY <1>1 DEF OperationRecord
<1>3. [op[o] EXCEPT !.status = "running", !.worker = w, !.generation = op[o].generation + 1,
                    !.left = n] \in OperationRecord
  BY <1>1, <1>2, Zenon DEF OperationRecord, InFlight
<1> QED BY <1>3 DEF OperationsTypeOK, ClaimOperation

LEMMA RenewType ==
  ASSUME OperationsTypeOK, NEW o \in Ops, NEW n \in 0..Lease, RenewLease(o, n)
  PROVE  OperationsTypeOK'
<1>1. [op[o] EXCEPT !.left = n] \in OperationRecord
  BY Zenon DEF OperationsTypeOK, OperationRecord
<1> QED BY <1>1 DEF OperationsTypeOK, RenewLease

LEMMA FinishType ==
  ASSUME OperationsTypeOK, NEW o \in Ops, NEW r \in Terminal, FinishOperation(o, r)
  PROVE  OperationsTypeOK'
<1>1. [op[o] EXCEPT !.status = r, !.active = FALSE] \in OperationRecord
  BY Zenon DEF OperationsTypeOK, OperationRecord
<1> QED BY <1>1 DEF OperationsTypeOK, FinishOperation

LEMMA FailType ==
  ASSUME OperationsTypeOK, NEW o \in Ops, FailExpired(o)
  PROVE  OperationsTypeOK'
<1>1. [op[o] EXCEPT !.status = "failed", !.active = TRUE, !.code = "RECOVERY_REQUIRED"] \in OperationRecord
  BY Zenon DEF OperationsTypeOK, OperationRecord, Terminal, Codes
<1> QED BY <1>1 DEF OperationsTypeOK, FailExpired

LEMMA ReleaseType ==
  ASSUME OperationsTypeOK, NEW o \in Ops, ReleaseInterrupted(o)
  PROVE  OperationsTypeOK'
<1>1. [op[o] EXCEPT !.active = FALSE, !.code = "WORKER_INTERRUPTED"] \in OperationRecord
  BY Zenon DEF OperationsTypeOK, OperationRecord, Codes
<1> QED BY <1>1 DEF OperationsTypeOK, ReleaseInterrupted

LEMMA CancelType ==
  ASSUME OperationsTypeOK, NEW o \in Ops, CancelQueued(o)
  PROVE  OperationsTypeOK'
<1>1. [op[o] EXCEPT !.status = "cancelled", !.active = FALSE] \in OperationRecord
  BY Zenon DEF OperationsTypeOK, OperationRecord, Terminal
<1> QED BY <1>1 DEF OperationsTypeOK, CancelQueued

LEMMA UnlockType ==
  ASSUME OperationsTypeOK, NEW o \in Ops, UnlockByHand(o)
  PROVE  OperationsTypeOK'
<1>1. [op[o] EXCEPT !.active = FALSE] \in OperationRecord
  BY Zenon DEF OperationsTypeOK, OperationRecord
<1> QED BY <1>1 DEF OperationsTypeOK, UnlockByHand

LEMMA ElapseType ==
  ASSUME NEW n \in 0..Lease
  PROVE  Elapse(n) \in 0..Lease
  BY LeaseAssumption DEF Elapse

LEMMA LeasesElapseType ==
  ASSUME OperationsTypeOK, LeasesElapse
  PROVE  OperationsTypeOK'
<1>1. ASSUME NEW o \in Ops PROVE op'[o] \in OperationRecord
  <2>1. op[o] \in OperationRecord BY DEF OperationsTypeOK
  <2>2. Elapse(op[o].left) \in 0..Lease BY <2>1, ElapseType DEF OperationRecord
  <2>3. op'[o] = [op[o] EXCEPT !.left = Elapse(op[o].left)] BY DEF LeasesElapse
  <2> QED BY <2>1, <2>2, <2>3, Zenon DEF OperationRecord
<1> QED BY <1>1 DEF OperationsTypeOK, LeasesElapse

-----------------------------------------------------------------------------
(***************************************************************************)
(* Types.  What the control of a run says about its other fields belongs   *)
(* to its type: an operation and an outcome are there when they are used.  *)
(***************************************************************************)
NeedsOp == {"check", "release", "claimed", "exec", "settle", "finish"}

RunFieldsOK(r) ==
  /\ r.pc \in NeedsOp => r.op \in Ops
  /\ r.pc \in {"settle", "finish"} => r.result \in Results

RunOK == \A w \in Workers : RunFieldsOK(run[w])

TypeInv == WTypeOK /\ RunOK

LEMMA InitTypeInv == WInit => TypeInv
<1> SUFFICES ASSUME WInit PROVE TypeInv
  OBVIOUS
<1>1. 0 \in 0..Lease
  BY LeaseAssumption
<1>2. Absent \in OperationRecord /\ Idle \in RunRecord /\ Free \in RenewalRecord
  BY <1>1, Zenon DEF Absent, OperationRecord, Codes, Idle, RunRecord, Free, RenewalRecord
<1>3. OperationsTypeOK
  BY <1>2 DEF WInit, OperationsInit, OperationsTypeOK
<1>4. WorkerTypeOK
  BY <1>2 DEF WInit, WorkerInit, WorkerTypeOK, Lives, HeartbeatStatus
<1>5. RunOK
  BY DEF WInit, WorkerInit, RunOK, RunFieldsOK, NeedsOp, Idle
<1> QED BY <1>3, <1>4, <1>5 DEF TypeInv, WTypeOK

RunTyped == run \in [Workers -> RunRecord] /\ RunOK

\* One run may be replaced by any other well-formed one.
LEMMA RunUpdate ==
  ASSUME RunTyped, NEW w \in Workers, NEW r \in RunRecord, RunFieldsOK(r),
         run' = [run EXCEPT ![w] = r]
  PROVE  RunTyped'
<1>1. run' \in [Workers -> RunRecord]
  BY DEF RunTyped
<1>2. ASSUME NEW v \in Workers PROVE RunFieldsOK(run'[v])
  <2>1. run'[v] = IF v = w THEN r ELSE run[v]
    BY DEF RunTyped
  <2> QED BY <2>1, Zenon DEF RunTyped, RunOK
<1> QED BY <1>1, <1>2 DEF RunTyped, RunOK, RunFieldsOK

\* The ways in which the actions change a run, one lemma for each.
LEMMA RunMoves ==
  ASSUME RunTyped, NEW w \in Workers,
         NEW pc \in {"recover", "release", "exec", "finish"},
         run' = [run EXCEPT ![w].pc = pc],
         pc # "recover" => run[w].op \in Ops,
         pc = "finish" => run[w].result \in Results
  PROVE  RunTyped'
<1> DEFINE r == [run[w] EXCEPT !.pc = pc]
<1>1. r \in RunRecord
  BY Zenon DEF RunTyped, RunRecord
<1>2. RunFieldsOK(r)
  BY DEF RunTyped, RunFieldsOK, NeedsOp, RunRecord
<1>3. run' = [run EXCEPT ![w] = r]
  BY DEF RunTyped
<1> HIDE DEF r
<1> QED BY <1>1, <1>2, <1>3, RunUpdate

LEMMA RunChecks ==
  ASSUME RunTyped, NEW w \in Workers, NEW o \in Ops,
         run' = [run EXCEPT ![w].pc = "check", ![w].op = o]
  PROVE  RunTyped'
<1> DEFINE r == [run[w] EXCEPT !.pc = "check", !.op = o]
<1>1. r \in RunRecord
  BY Zenon DEF RunTyped, RunRecord
<1>2. RunFieldsOK(r)
  BY DEF RunTyped, RunOK, RunFieldsOK, NeedsOp, RunRecord
<1>3. run' = [run EXCEPT ![w] = r]
  BY DEF RunTyped
<1> HIDE DEF r
<1> QED BY <1>1, <1>2, <1>3, RunUpdate

LEMMA RunLooksOn ==
  ASSUME RunTyped, NEW w \in Workers,
         run' = [run EXCEPT ![w].pc = "recover", ![w].op = None]
  PROVE  RunTyped'
<1> DEFINE r == [run[w] EXCEPT !.pc = "recover", !.op = None]
<1>1. r \in RunRecord
  BY Zenon DEF RunTyped, RunRecord
<1>2. RunFieldsOK(r)
  BY DEF RunTyped, RunOK, RunFieldsOK, NeedsOp, RunRecord
<1>3. run' = [run EXCEPT ![w] = r]
  BY DEF RunTyped
<1> HIDE DEF r
<1> QED BY <1>1, <1>2, <1>3, RunUpdate

LEMMA RunAsks ==
  ASSUME RunTyped, NEW w \in Workers,
         run' = [run EXCEPT ![w].pc = "claim", ![w].confirmed = Lease]
  PROVE  RunTyped'
<1> DEFINE r == [run[w] EXCEPT !.pc = "claim", !.confirmed = Lease]
<1>0. 0 \in 0..Lease /\ Lease \in 0..Lease
  BY LeaseAssumption
<1>1. r \in RunRecord
  BY <1>0, Zenon DEF RunTyped, RunRecord
<1>2. RunFieldsOK(r)
  BY DEF RunTyped, RunOK, RunFieldsOK, NeedsOp, RunRecord
<1>3. run' = [run EXCEPT ![w] = r]
  BY DEF RunTyped
<1> HIDE DEF r
<1> QED BY <1>1, <1>2, <1>3, RunUpdate

LEMMA RunClaims ==
  ASSUME RunTyped, NEW w \in Workers, NEW o \in Ops, NEW g \in Nat,
         run' = [run EXCEPT ![w].pc = "claimed", ![w].op = o, ![w].generation = g]
  PROVE  RunTyped'
<1> DEFINE r == [run[w] EXCEPT !.pc = "claimed", !.op = o, !.generation = g]
<1>1. r \in RunRecord
  BY Zenon DEF RunTyped, RunRecord
<1>2. RunFieldsOK(r)
  BY DEF RunTyped, RunOK, RunFieldsOK, NeedsOp, RunRecord
<1>3. run' = [run EXCEPT ![w] = r]
  BY DEF RunTyped
<1> HIDE DEF r
<1> QED BY <1>1, <1>2, <1>3, RunUpdate

LEMMA RunLosesLease ==
  ASSUME RunTyped, NEW w \in Workers,
         LoseLease(w)
  PROVE  RunTyped'
<1> DEFINE r == [run[w] EXCEPT !.lost = TRUE, !.aborted = TRUE]
<1>1. r \in RunRecord
  BY Zenon DEF RunTyped, RunRecord
<1>2. RunFieldsOK(r)
  BY DEF RunTyped, RunOK, RunFieldsOK, NeedsOp, RunRecord
<1>3. run' = [run EXCEPT ![w] = r]
  BY DEF RunTyped, LoseLease
<1> HIDE DEF r
<1> QED BY <1>1, <1>2, <1>3, RunUpdate

LEMMA RunAborts ==
  ASSUME RunTyped, NEW w \in Workers,
         run' = [run EXCEPT ![w].aborted = TRUE]
  PROVE  RunTyped'
<1> DEFINE r == [run[w] EXCEPT !.aborted = TRUE]
<1>1. r \in RunRecord
  BY Zenon DEF RunTyped, RunRecord
<1>2. RunFieldsOK(r)
  BY DEF RunTyped, RunOK, RunFieldsOK, NeedsOp, RunRecord
<1>3. run' = [run EXCEPT ![w] = r]
  BY DEF RunTyped
<1> HIDE DEF r
<1> QED BY <1>1, <1>2, <1>3, RunUpdate

LEMMA RunConfirms ==
  ASSUME RunTyped, NEW w \in Workers, NEW n \in 0..Lease,
         run' = [run EXCEPT ![w].confirmed = n]
  PROVE  RunTyped'
<1> DEFINE r == [run[w] EXCEPT !.confirmed = n]
<1>1. r \in RunRecord
  BY Zenon DEF RunTyped, RunRecord
<1>2. RunFieldsOK(r)
  BY DEF RunTyped, RunOK, RunFieldsOK, NeedsOp, RunRecord
<1>3. run' = [run EXCEPT ![w] = r]
  BY DEF RunTyped
<1> HIDE DEF r
<1> QED BY <1>1, <1>2, <1>3, RunUpdate

LEMMA RunReturns ==
  ASSUME RunTyped, NEW w \in Workers, run[w].op \in Ops, NEW res \in Results,
         run' = [run EXCEPT ![w].pc = "settle", ![w].result = res]
  PROVE  RunTyped'
<1> DEFINE r == [run[w] EXCEPT !.pc = "settle", !.result = res]
<1>1. r \in RunRecord
  BY Zenon DEF RunTyped, RunRecord
<1>2. RunFieldsOK(r)
  BY DEF RunTyped, RunOK, RunFieldsOK, NeedsOp, RunRecord
<1>3. run' = [run EXCEPT ![w] = r]
  BY DEF RunTyped
<1> HIDE DEF r
<1> QED BY <1>1, <1>2, <1>3, RunUpdate

LEMMA RunEnds ==
  ASSUME RunTyped, NEW w \in Workers,
         run' = [run EXCEPT ![w] = Idle]
  PROVE  RunTyped'
<1> DEFINE r == Idle
<1>0. 0 \in 0..Lease /\ Lease \in 0..Lease
  BY LeaseAssumption
<1>1. r \in RunRecord
  BY <1>0, Zenon DEF RunTyped, RunRecord, Idle
<1>2. RunFieldsOK(r)
  BY DEF RunTyped, RunOK, RunFieldsOK, NeedsOp, RunRecord, Idle
<1>3. run' = [run EXCEPT ![w] = r]
  BY DEF RunTyped
<1> HIDE DEF r
<1> QED BY <1>1, <1>2, <1>3, RunUpdate

LEMMA RunDies ==
  ASSUME RunTyped, NEW w \in Workers,
         run' = [run EXCEPT ![w] = [Idle EXCEPT !.pc = "dead", !.op = run[w].op,
                                                !.generation = run[w].generation]]
  PROVE  RunTyped'
<1> DEFINE r == [Idle EXCEPT !.pc = "dead", !.op = run[w].op, !.generation = run[w].generation]
<1>0. 0 \in 0..Lease /\ Lease \in 0..Lease
  BY LeaseAssumption
<1>1. r \in RunRecord
  BY <1>0, Zenon DEF RunTyped, RunRecord, Idle
<1>2. RunFieldsOK(r)
  BY DEF RunTyped, RunOK, RunFieldsOK, NeedsOp, RunRecord, Idle
<1>3. run' = [run EXCEPT ![w] = r]
  BY DEF RunTyped
<1> HIDE DEF r
<1> QED BY <1>1, <1>2, <1>3, RunUpdate

-----------------------------------------------------------------------------
(* Every step keeps the types, one lemma for each group of actions.        *)

LEMMA ProcessTypes ==
  ASSUME TypeInv, NEW w \in Workers,
         \/ Boot(w) \/ StartRunner(w) \/ BecomeUp(w) \/ StartFails(w)
         \/ PeriodicHeartbeat(w)
         \/ \E s \in HeartbeatStatus : ApplyHeartbeat(w, s) \/ LoseHeartbeat(w, s)
         \/ Signal(w) \/ PublishLastStatus(w) \/ MarkStopped(w)
         \/ \E o \in Ops : OrphanEnds(w, o)
  PROVE  TypeInv'
<1> USE DEF TypeInv, WTypeOK, WorkerTypeOK, Lives, HeartbeatStatus
<1>1. CASE Boot(w)
  BY <1>1 DEF Boot, opVars, OperationsTypeOK, RunOK
<1>2. CASE StartRunner(w)
  BY <1>2 DEF StartRunner, opVars, OperationsTypeOK, RunOK
<1>3. CASE BecomeUp(w)
  BY <1>3 DEF BecomeUp, opVars, OperationsTypeOK, RunOK
<1>4. CASE StartFails(w)
  BY <1>4 DEF StartFails, opVars, OperationsTypeOK, RunOK
<1>5. CASE PeriodicHeartbeat(w)
  BY <1>5 DEF PeriodicHeartbeat, opVars, OperationsTypeOK, RunOK
<1>6. ASSUME NEW s \in HeartbeatStatus, ApplyHeartbeat(w, s) PROVE TypeInv'
  BY <1>6 DEF ApplyHeartbeat, opVars, OperationsTypeOK, RunOK
<1>7. ASSUME NEW s \in HeartbeatStatus, LoseHeartbeat(w, s) PROVE TypeInv'
  BY <1>7 DEF LoseHeartbeat, opVars, OperationsTypeOK, RunOK
<1>8. CASE Signal(w)
  BY <1>8 DEF Signal, opVars, OperationsTypeOK, RunOK
<1>9. CASE PublishLastStatus(w)
  BY <1>9 DEF PublishLastStatus, opVars, OperationsTypeOK, RunOK
<1>10. CASE MarkStopped(w)
  BY <1>10 DEF MarkStopped, opVars, OperationsTypeOK, RunOK
<1>11. ASSUME NEW o \in Ops, OrphanEnds(w, o) PROVE TypeInv'
  BY <1>11 DEF OrphanEnds, opVars, OperationsTypeOK, RunOK
<1> QED BY <1>1, <1>2, <1>3, <1>4, <1>5, <1>6, <1>7, <1>8, <1>9, <1>10, <1>11

LEMMA DieTypes ==
  ASSUME TypeInv, NEW w \in Workers, Die(w)
  PROVE  TypeInv'
<1> USE DEF TypeInv, WTypeOK, WorkerTypeOK
<1>1. RunTyped'
  BY RunDies DEF Die, RunTyped
<1>2. renewal' \in [Workers -> [Slots -> RenewalRecord]]
  <2>1. Free \in RenewalRecord
    BY LeaseAssumption DEF Free, RenewalRecord
  <2> QED BY <2>1 DEF Die
<1>3. OperationsTypeOK'
  BY DEF Die, opVars, OperationsTypeOK
<1>4. writes' \in [Workers -> SUBSET HeartbeatStatus] /\ host' \subseteq Workers \X Ops
  BY DEF Die
<1>5. UNCHANGED <<why, heartbeat>> /\ proc' \in [Workers -> Lives]
  BY DEF Die, Lives
<1> QED BY <1>1, <1>2, <1>3, <1>4, <1>5 DEF RunTyped

LEMMA TickTypes ==
  ASSUME TypeInv, NEW w \in Workers, TickStep(w)
  PROVE  TypeInv'
<1> USE DEF TypeInv, WTypeOK, WorkerTypeOK
<1>0. RunTyped /\ RunFieldsOK(run[w]) /\ run[w].confirmed \in 0..Lease
  BY DEF RunTyped, RunOK, RunRecord
<1>1. CASE Tick(w)
  <2>1. RunTyped'
    BY <1>0, <1>1, RunMoves DEF Tick, Goto
  <2> QED BY <1>1, <2>1 DEF Tick, RunTyped, opVars, OperationsTypeOK
<1>2. CASE CheckStopped(w)
  <2>1. run[w].op \in Ops
    BY <1>0, <1>2 DEF CheckStopped, RunFieldsOK, NeedsOp
  <2>2. RunTyped'
    BY <1>0, <1>2, <2>1, RunMoves, RunLooksOn DEF CheckStopped
  <2> QED BY <1>2, <2>2 DEF CheckStopped, RunTyped, opVars, OperationsTypeOK
<1>3. CASE Release(w)
  <2>1. run[w].op \in Ops
    BY <1>0, <1>3 DEF Release, RunFieldsOK, NeedsOp
  <2>2. OperationsTypeOK'
    BY <1>3, <2>1, ReleaseType DEF Release
  <2>3. RunTyped'
    BY <1>0, <1>3, RunLooksOn DEF Release
  <2> QED BY <1>3, <2>2, <2>3 DEF Release, RunTyped
<1>4. CASE NothingToRecover(w)
  <2>1. RunTyped'
    BY <1>0, <1>4, RunAsks DEF NothingToRecover
  <2> QED BY <1>4, <2>1 DEF NothingToRecover, RunTyped, opVars, OperationsTypeOK
<1>5. ASSUME NEW o \in Ops, Recover(w, o) PROVE TypeInv'
  <2>1. OperationsTypeOK'
    BY <1>5, FailType DEF Recover
  <2>2. RunTyped'
    BY <1>0, <1>5, RunChecks DEF Recover
  <2> QED BY <1>5, <2>1, <2>2 DEF Recover, RunTyped
<1>6. ASSUME NEW o \in Ops, Claim(w, o) PROVE TypeInv'
  <2>1. OperationsTypeOK'
    BY <1>0, <1>6, ClaimType DEF Claim
  <2>2. op[o].generation + 1 \in Nat
    BY DEF OperationsTypeOK, OperationRecord
  <2>3. RunTyped'
    BY <1>0, <1>6, <2>2, RunClaims DEF Claim
  <2> QED BY <1>6, <2>1, <2>3 DEF Claim, RunTyped
<1>7. CASE NothingToClaim(w)
  <2>1. RunTyped'
    BY <1>0, <1>7, RunEnds DEF NothingToClaim
  <2> QED BY <1>7, <2>1 DEF NothingToClaim, RunTyped, opVars, OperationsTypeOK
<1>8. CASE TickFails(w)
  <2>1. RunTyped'
    BY <1>0, <1>8, RunEnds DEF TickFails
  <2> QED BY <1>8, <2>1 DEF TickFails, RunTyped, opVars, OperationsTypeOK
<1>9. CASE StartExecutor(w)
  <2>1. run[w].op \in Ops
    BY <1>0, <1>9 DEF StartExecutor, RunFieldsOK, NeedsOp
  <2>2. RunTyped'
    BY <1>0, <1>9, <2>1, RunMoves DEF StartExecutor, Goto
  <2> QED BY <1>9, <2>1, <2>2 DEF StartExecutor, RunTyped, opVars, OperationsTypeOK
<1> QED BY <1>1, <1>2, <1>3, <1>4, <1>5, <1>6, <1>7, <1>8, <1>9 DEF TickStep

LEMMA RenewalUpdate ==
  ASSUME renewal \in [Workers -> [Slots -> RenewalRecord]], NEW w \in Workers, NEW s \in Slots,
         NEW r \in RenewalRecord, renewal' = [renewal EXCEPT ![w][s] = r]
  PROVE  renewal' \in [Workers -> [Slots -> RenewalRecord]]
  OBVIOUS

LEMMA RenewalRecords ==
  /\ Free \in RenewalRecord
  /\ \A n \in 0..Lease, st \in {"sent", "ok", "refused"} :
       [st |-> st, left |-> n] \in RenewalRecord
  /\ \A r \in RenewalRecord : [r EXCEPT !.st = "ok"] \in RenewalRecord
<1>1. 0 \in 0..Lease
  BY LeaseAssumption
<1> QED BY <1>1, Zenon DEF Free, RenewalRecord

LEMMA RenewalTypes ==
  ASSUME TypeInv, NEW w \in Workers,
         \/ RenewTimer(w) \/ AssertOwnership(w)
         \/ \E s \in Slots : ApplyRenewal(w, s) \/ RenewalAnswered(w, s) \/ RenewalFails(w, s)
  PROVE  TypeInv'
<1> USE DEF TypeInv, WTypeOK, WorkerTypeOK
<1>0. "timer" \in Slots /\ "assert" \in Slots /\ 0 \in 0..Lease /\ Lease \in 0..Lease
  BY LeaseAssumption DEF Slots
<1>1. CASE RenewTimer(w)
  BY <1>0, <1>1, RenewalUpdate, RenewalRecords
     DEF RenewTimer, SendRenewal, opVars, OperationsTypeOK, RunOK
<1>2. CASE AssertOwnership(w)
  BY <1>0, <1>2, RenewalUpdate, RenewalRecords
     DEF AssertOwnership, SendRenewal, opVars, OperationsTypeOK, RunOK
<1>3. ASSUME NEW s \in Slots, ApplyRenewal(w, s) PROVE TypeInv'
  <2>0. renewal[w][s] \in RenewalRecord /\ renewal[w][s].left \in 0..Lease
    BY DEF RenewalRecord
  <2>1. CASE Owned(run[w].op, w, run[w].generation)
    <3>1. renewal' \in [Workers -> [Slots -> RenewalRecord]]
      BY <1>3, <2>0, <2>1, RenewalRecords, RenewalUpdate DEF ApplyRenewal
    <3>2. OperationsTypeOK'
      <4>1. CASE run[w].op \in Ops
        BY <1>3, <2>0, <2>1, <4>1, RenewType DEF ApplyRenewal
      <4>2. CASE run[w].op \notin Ops
        BY <1>3, <2>1, <4>2 DEF ApplyRenewal, RenewLease, OperationsTypeOK
      <4> QED BY <4>1, <4>2
    <3> QED BY <1>3, <3>1, <3>2 DEF ApplyRenewal, RunOK
  <2>2. CASE ~Owned(run[w].op, w, run[w].generation)
    BY <1>0, <1>3, <2>2, RenewalRecords, RenewalUpdate
       DEF ApplyRenewal, opVars, OperationsTypeOK, RunOK
  <2> QED BY <2>1, <2>2
<1>4. ASSUME NEW s \in Slots, RenewalAnswered(w, s) PROVE TypeInv'
  <2>1. renewal[w][s].left \in 0..Lease
    BY DEF RenewalRecord
  <2>2. renewal' \in [Workers -> [Slots -> RenewalRecord]]
    BY <1>4, RenewalRecords, RenewalUpdate DEF RenewalAnswered
  <2>3. RunTyped'
    BY <1>4, <2>1, RunConfirms, RunLosesLease DEF RenewalAnswered, RunTyped
  <2> QED BY <1>4, <2>2, <2>3 DEF RenewalAnswered, RunTyped, opVars, OperationsTypeOK
<1>5. ASSUME NEW s \in Slots, RenewalFails(w, s) PROVE TypeInv'
  BY <1>5, RenewalRecords, RenewalUpdate DEF RenewalFails, opVars, OperationsTypeOK, RunOK
<1> QED BY <1>1, <1>2, <1>3, <1>4, <1>5

LEMMA AbandonTypes ==
  ASSUME TypeInv, NEW w \in Workers, Abandon(w)
  PROVE  /\ RunTyped'
         /\ proc' \in [Workers -> Lives]
         /\ why' \in [Workers -> {"none", "signal", "fatal"}]
<1>1. RunTyped'
  BY RunEnds DEF Abandon, TypeInv, WTypeOK, WorkerTypeOK, RunTyped
<1>2. proc' \in [Workers -> Lives] /\ why' \in [Workers -> {"none", "signal", "fatal"}]
  BY DEF Abandon, TypeInv, WTypeOK, WorkerTypeOK, Lives
<1> QED BY <1>1, <1>2

LEMMA ExecutionTypes ==
  ASSUME TypeInv, NEW w \in Workers, ExecutionStep(w)
  PROVE  TypeInv'
<1> USE DEF TypeInv, WTypeOK, WorkerTypeOK
<1>0. RunTyped /\ RunFieldsOK(run[w])
  BY DEF RunTyped, RunOK
<1>1. CASE \/ RenewTimer(w) \/ AssertOwnership(w)
           \/ \E s \in Slots : ApplyRenewal(w, s) \/ RenewalAnswered(w, s) \/ RenewalFails(w, s)
  BY <1>1, RenewalTypes
<1>2. CASE ConfirmedExpiryPasses(w)
  <2>1. RunTyped'
    BY <1>0, <1>2, RunLosesLease DEF ConfirmedExpiryPasses
  <2> QED BY <1>2, <2>1 DEF ConfirmedExpiryPasses, RunTyped, opVars, OperationsTypeOK
<1>3. CASE DeadlinePasses(w)
  <2>1. RunTyped'
    BY <1>0, <1>3, RunAborts DEF DeadlinePasses
  <2> QED BY <1>3, <2>1 DEF DeadlinePasses, RunTyped, opVars, OperationsTypeOK
<1>4. CASE StageRefused(w)
  <2>1. RunTyped'
    BY <1>0, <1>4, RunLosesLease DEF StageRefused
  <2> QED BY <1>4, <2>1 DEF StageRefused, RunTyped, opVars, OperationsTypeOK
<1>5. ASSUME NEW r \in Results, ExecutorReturns(w, r) PROVE TypeInv'
  <2>1. run[w].op \in Ops
    BY <1>0, <1>5 DEF ExecutorReturns, RunFieldsOK, NeedsOp
  <2>2. RunTyped'
    BY <1>0, <1>5, <2>1, RunReturns DEF ExecutorReturns
  <2> QED BY <1>5, <2>2 DEF ExecutorReturns, RunTyped, opVars, OperationsTypeOK
<1>6. CASE Settle(w)
  <2>1. CASE run[w].lost
    BY <1>6, <2>1, AbandonTypes DEF Settle, RunTyped, opVars, OperationsTypeOK
  <2>2. CASE ~run[w].lost
    <3>1. run[w].op \in Ops /\ run[w].result \in Results
      BY <1>0, <1>6 DEF Settle, RunFieldsOK, NeedsOp
    <3>2. RunTyped'
      BY <1>0, <1>6, <2>2, <3>1, RunMoves DEF Settle, Goto
    <3> QED BY <1>6, <2>2, <3>2 DEF Settle, RunTyped, opVars, OperationsTypeOK
  <2> QED BY <2>1, <2>2
<1>7. CASE Finish(w)
  <2>1. CASE Owned(run[w].op, w, run[w].generation)
    <3>1. run[w].op \in Ops /\ run[w].result \in Terminal
      BY <1>0, <1>7, ResultsAssumption DEF Finish, RunFieldsOK, NeedsOp
    <3>2. OperationsTypeOK'
      BY <1>7, <2>1, <3>1, FinishType DEF Finish
    <3>3. RunTyped'
      BY <1>0, <1>7, <2>1, RunEnds DEF Finish
    <3> QED BY <1>7, <2>1, <3>2, <3>3 DEF Finish, RunTyped
  <2>2. CASE ~Owned(run[w].op, w, run[w].generation)
    BY <1>7, <2>2, AbandonTypes DEF Finish, RunTyped, opVars, OperationsTypeOK
  <2> QED BY <2>1, <2>2
<1>8. CASE FinishFails(w)
  <2>1. RunTyped'
    BY <1>0, <1>8, RunEnds DEF FinishFails
  <2> QED BY <1>8, <2>1 DEF FinishFails, RunTyped, opVars, OperationsTypeOK
<1> QED BY <1>1, <1>2, <1>3, <1>4, <1>5, <1>6, <1>7, <1>8 DEF ExecutionStep

LEMMA TimeTypes ==
  ASSUME TypeInv, TimePasses
  PROVE  TypeInv'
<1> USE DEF TypeInv, WTypeOK, WorkerTypeOK
<1>1. OperationsTypeOK'
  BY LeasesElapseType DEF TimePasses
<1>2. ASSUME NEW w \in Workers PROVE run'[w] \in RunRecord /\ RunFieldsOK(run'[w])
  <2>1. run[w] \in RunRecord /\ RunFieldsOK(run[w])
    BY DEF RunOK
  <2>2. Elapse(run[w].confirmed) \in 0..Lease
    BY <2>1, ElapseType DEF RunRecord
  <2>3. run'[w] = [run[w] EXCEPT !.confirmed = Elapse(run[w].confirmed)]
    BY DEF TimePasses
  <2>4. run'[w] \in RunRecord
    BY <2>1, <2>2, <2>3, Zenon DEF RunRecord
  <2> QED BY <2>1, <2>3, <2>4 DEF RunFieldsOK, RunRecord
<1>3. ASSUME NEW w \in Workers, NEW s \in Slots
      PROVE  [renewal[w][s] EXCEPT !.left = Elapse(renewal[w][s].left)] \in RenewalRecord
  <2>1. renewal[w][s] \in RenewalRecord /\ Elapse(renewal[w][s].left) \in 0..Lease
    BY ElapseType DEF RenewalRecord
  <2> QED BY <2>1, Zenon DEF RenewalRecord
<1>4. renewal' \in [Workers -> [Slots -> RenewalRecord]]
  BY <1>3 DEF TimePasses
<1>5. run' \in [Workers -> RunRecord]
  BY <1>2, Zenon DEF TimePasses
<1> QED BY <1>1, <1>2, <1>4, <1>5 DEF TimePasses, RunOK

\* Operations that arrive, and updates by edits and administrators.
LEMMA OtherTypes ==
  ASSUME TypeInv, NEW o \in Ops, Arrive(o) \/ EditCancels(o) \/ AdministratorUnlocks(o)
  PROVE  TypeInv'
<1>1. OperationsTypeOK'
  BY CreateType, CancelType, UnlockType
     DEF TypeInv, WTypeOK, Arrive, EditCancels, AdministratorUnlocks
<1>2. UNCHANGED workerVars
  BY DEF Arrive, EditCancels, AdministratorUnlocks
<1> QED BY <1>1, <1>2 DEF workerVars, TypeInv, WTypeOK, WorkerTypeOK, RunOK

LEMMA StepTypes ==
  ASSUME TypeInv, [WNext]_wVars
  PROVE  TypeInv'
<1>1. ASSUME NEW w \in Workers, WorkerStep(w) PROVE TypeInv'
  <2>1. CASE Exit(w) \/ Crash(w)
    BY <2>1, DieTypes DEF Exit, Crash
  <2>2. CASE TickStep(w)
    BY <2>2, TickTypes
  <2>3. CASE ExecutionStep(w)
    BY <2>3, ExecutionTypes
  <2> QED BY <1>1, <2>1, <2>2, <2>3, ProcessTypes DEF WorkerStep, ProcessStep
<1>2. CASE UNCHANGED wVars
  BY <1>2 DEF wVars, opVars, workerVars, TypeInv, WTypeOK, OperationsTypeOK, WorkerTypeOK, RunOK
<1> QED BY <1>1, <1>2, TimeTypes, OtherTypes DEF WNext, CommonStep

\* Every state the workers reach is well typed.
THEOREM TypeCorrect == WSpec => []WTypeOK
<1>1. WInit => TypeInv
  BY InitTypeInv
<1>2. TypeInv /\ [WNext]_wVars => TypeInv'
  BY StepTypes
<1>3. TypeInv => WTypeOK
  BY DEF TypeInv
<1> QED BY <1>1, <1>2, <1>3, PTL DEF WSpec

-----------------------------------------------------------------------------
(***************************************************************************)
(* The lock of an app and the commands on the host.  HostExclusive alone   *)
(* is not inductive.  What makes it so: a command runs for an operation    *)
(* that its worker still holds (HostHeld), held operations of one app are  *)
(* one (ActiveUnique), only a run in "exec" or a dead process has commands *)
(* (HostRun), and a lock is released by recovery only when the heartbeat   *)
(* of its worker says that it has none (ReleaseStopped, StoppedDrained).   *)
(***************************************************************************)
Held(o, w) == op[o].active /\ op[o].worker = w /\ op[o].status \notin {"absent", "queued"}

ActiveUnique ==
  \A o, p \in Ops : op[o].active /\ op[p].active /\ op[o].app = op[p].app => o = p

FlightOwned == \A o \in Ops : op[o].status \in InFlight => op[o].worker \in Workers

HostHeld == \A h \in host : Held(h[2], h[1])

HostRun ==
  \A h \in host :
    proc[h[1]] = "exited" \/ (run[h[1]].pc = "exec" /\ run[h[1]].op = h[2])

DeadExited == \A w \in Workers : run[w].pc = "dead" <=> proc[w] = "exited"

RunHolds == \A w \in Workers : run[w].pc \in {"claimed", "exec"} => Held(run[w].op, w)

RecoveredFailed ==
  \A w \in Workers : run[w].pc \in {"check", "release"} =>
    op[run[w].op].status = "failed" /\ op[run[w].op].worker \in Workers

ReleaseStopped ==
  \A w \in Workers : run[w].pc = "release" => heartbeat[op[run[w].op].worker] = "stopped"

StoppedDrained ==
  \A w \in Workers : heartbeat[w] = "stopped" \/ "stopped" \in writes[w] =>
    /\ proc[w] \in {"marking", "exited"}
    /\ run[w].pc \in {"idle", "dead"}
    /\ \A h \in host : h[1] # w

LockInv ==
  /\ ActiveUnique /\ FlightOwned
  /\ HostHeld /\ HostRun
  /\ DeadExited /\ RunHolds /\ RecoveredFailed
  /\ ReleaseStopped /\ StoppedDrained

LEMMA Typed ==
  ASSUME TypeInv
  PROVE  /\ op \in [Ops -> OperationRecord]
         /\ proc \in [Workers -> Lives]
         /\ heartbeat \in [Workers -> HeartbeatStatus \cup {"missing"}]
         /\ writes \in [Workers -> SUBSET HeartbeatStatus]
         /\ run \in [Workers -> RunRecord]
         /\ host \subseteq Workers \X Ops
         /\ \A w \in Workers : run[w].pc \in NeedsOp => run[w].op \in Ops
  BY DEF TypeInv, WTypeOK, WorkerTypeOK, OperationsTypeOK, RunOK, RunFieldsOK

LEMMA InitLockInv == WInit => LockInv
  BY DEF WInit, OperationsInit, WorkerInit, Absent, Idle, InFlight, LockInv, ActiveUnique,
         FlightOwned, HostHeld, HostRun, DeadExited, RunHolds, RecoveredFailed,
         ReleaseStopped, StoppedDrained

\* Steps of a process that start or end no run and no command: its life and
\* its heartbeat.  "stopped" is written only by a process that has drained,
\* and no other write replaces it.
LEMMA ProcessInv ==
  ASSUME TypeInv, LockInv, NEW w \in Workers,
         \/ Boot(w) \/ StartRunner(w) \/ BecomeUp(w) \/ StartFails(w)
         \/ PeriodicHeartbeat(w)
         \/ \E s \in HeartbeatStatus : ApplyHeartbeat(w, s) \/ LoseHeartbeat(w, s)
         \/ Signal(w) \/ PublishLastStatus(w) \/ MarkStopped(w)
  PROVE  LockInv'
<1>1. UNCHANGED <<op, run, host>>
  BY DEF Boot, StartRunner, BecomeUp, StartFails, PeriodicHeartbeat, ApplyHeartbeat,
         LoseHeartbeat, Signal, PublishLastStatus, MarkStopped, opVars
<1>2. ActiveUnique' /\ FlightOwned' /\ HostHeld' /\ RunHolds' /\ RecoveredFailed'
  BY <1>1 DEF LockInv, ActiveUnique, FlightOwned, HostHeld, RunHolds, RecoveredFailed, Held
<1>3. \A v \in Workers : proc'[v] = "exited" <=> proc[v] = "exited"
  BY Typed DEF Boot, StartRunner, BecomeUp, StartFails, PeriodicHeartbeat, ApplyHeartbeat,
               LoseHeartbeat, Signal, PublishLastStatus, MarkStopped
<1>4. HostRun' /\ DeadExited'
  BY <1>1, <1>3, Typed DEF LockInv, HostRun, DeadExited
<1>5. \A v \in Workers : heartbeat[v] = "stopped" => heartbeat'[v] = "stopped"
  <2>1. CASE StartRunner(w)
    BY <2>1, Typed DEF StartRunner, LockInv, StoppedDrained
  <2>2. ASSUME NEW s \in HeartbeatStatus, ApplyHeartbeat(w, s)
        PROVE  \A v \in Workers : heartbeat[v] = "stopped" => heartbeat'[v] = "stopped"
    <3>1. "stopped" \notin StatusesReplacedBy[s] \/ s = "stopped"
      BY DEF StatusesReplacedBy, HeartbeatStatus
    <3> QED BY <2>2, <3>1, Typed DEF ApplyHeartbeat
  <2> QED BY <2>1, <2>2 DEF Boot, BecomeUp, StartFails, PeriodicHeartbeat, LoseHeartbeat,
                            Signal, PublishLastStatus, MarkStopped
<1>6. ReleaseStopped'
  BY <1>1, <1>5 DEF LockInv, RecoveredFailed, ReleaseStopped
<1>7. StoppedDrained'
  <2> USE Typed DEF LockInv, StoppedDrained
  <2>1. CASE Boot(w) \/ StartRunner(w) \/ BecomeUp(w) \/ StartFails(w) \/ PeriodicHeartbeat(w)
    BY <1>1, <2>1 DEF Boot, StartRunner, BecomeUp, StartFails, PeriodicHeartbeat
  <2>2. ASSUME NEW s \in HeartbeatStatus, ApplyHeartbeat(w, s) \/ LoseHeartbeat(w, s)
        PROVE  StoppedDrained'
    BY <1>1, <2>2 DEF ApplyHeartbeat, LoseHeartbeat
  <2>3. CASE Signal(w) \/ PublishLastStatus(w)
    BY <1>1, <2>3 DEF Signal, PublishLastStatus
  <2>4. CASE MarkStopped(w)
    BY <1>1, <2>4 DEF MarkStopped, HostRun
  <2> QED BY <2>1, <2>2, <2>3, <2>4
<1> QED BY <1>2, <1>4, <1>6, <1>7 DEF LockInv

\* Steps that leave every lock and the control of every run as they are.
SameLock(o) ==
  /\ op'[o].app = op[o].app /\ op'[o].active = op[o].active
  /\ op'[o].worker = op[o].worker /\ op'[o].status = op[o].status
SameControl(w) == run'[w].pc = run[w].pc /\ run'[w].op = run[w].op

LEMMA QuietInv ==
  ASSUME TypeInv, LockInv, UNCHANGED <<proc, heartbeat, writes, host>>,
         \A o \in Ops : SameLock(o), \A w \in Workers : SameControl(w)
  PROVE  LockInv'
<1> USE Typed DEF LockInv, SameLock, SameControl
<1>1. ActiveUnique' /\ FlightOwned'
  BY DEF ActiveUnique, FlightOwned
<1>2. HostHeld' /\ HostRun'
  BY DEF HostHeld, HostRun, Held
<1>3. DeadExited' /\ RunHolds' /\ RecoveredFailed'
  BY DEF DeadExited, RunHolds, RecoveredFailed, Held, NeedsOp
<1>4. ReleaseStopped' /\ StoppedDrained'
  BY DEF ReleaseStopped, StoppedDrained, NeedsOp
<1> QED BY <1>1, <1>2, <1>3, <1>4

LEMMA WatchedControl ==
  ASSUME TypeInv, NEW w \in Workers, NEW v \in Workers,
         \/ LoseLease(w)
         \/ run' = [run EXCEPT ![w].aborted = TRUE]
         \/ \E n \in 0..Lease : run' = [run EXCEPT ![w].confirmed = n]
  PROVE  SameControl(v)
<1> USE Typed DEF SameControl, RunRecord
<1>1. CASE LoseLease(w)
  BY <1>1 DEF LoseLease
<1>2. CASE run' = [run EXCEPT ![w].aborted = TRUE]
  BY <1>2
<1>3. ASSUME NEW n \in 0..Lease, run' = [run EXCEPT ![w].confirmed = n]
      PROVE  SameControl(v)
  BY <1>3
<1> QED BY <1>1, <1>2, <1>3

LEMMA QuietSteps ==
  ASSUME TypeInv, LockInv,
         \/ TimePasses
         \/ \E w \in Workers :
              \/ RenewTimer(w) \/ AssertOwnership(w)
              \/ \E s \in Slots : ApplyRenewal(w, s) \/ RenewalAnswered(w, s) \/ RenewalFails(w, s)
              \/ ConfirmedExpiryPasses(w) \/ DeadlinePasses(w) \/ StageRefused(w)
  PROVE  LockInv'
<1> USE Typed DEF SameLock, SameControl
<1>1. CASE TimePasses
  <2>1. \A o \in Ops : SameLock(o)
    BY <1>1 DEF TimePasses, LeasesElapse, OperationRecord
  <2>2. \A w \in Workers : SameControl(w)
    BY <1>1 DEF TimePasses, RunRecord
  <2> QED BY <1>1, <2>1, <2>2, QuietInv DEF TimePasses
<1>2. ASSUME NEW w \in Workers,
             \/ RenewTimer(w) \/ AssertOwnership(w)
             \/ ConfirmedExpiryPasses(w) \/ DeadlinePasses(w) \/ StageRefused(w)
      PROVE  LockInv'
  <2>1. UNCHANGED <<op, proc, heartbeat, writes, host>>
    BY <1>2 DEF RenewTimer, AssertOwnership, ConfirmedExpiryPasses, DeadlinePasses,
                StageRefused, opVars
  <2>2. \A v \in Workers : SameControl(v)
    BY <1>2, WatchedControl DEF RenewTimer, AssertOwnership, ConfirmedExpiryPasses,
                                DeadlinePasses, StageRefused
  <2> QED BY <2>1, <2>2, QuietInv
<1>3. ASSUME NEW w \in Workers, NEW s \in Slots, ApplyRenewal(w, s)
      PROVE  LockInv'
  <2>1. \A o \in Ops : SameLock(o)
    <3>1. CASE Owned(run[w].op, w, run[w].generation)
      BY <1>3, <3>1 DEF ApplyRenewal, RenewLease, OperationRecord
    <3>2. CASE ~Owned(run[w].op, w, run[w].generation)
      BY <1>3, <3>2 DEF ApplyRenewal, opVars
    <3> QED BY <3>1, <3>2
  <2>2. UNCHANGED <<run, proc, heartbeat, writes, host>>
    BY <1>3 DEF ApplyRenewal
  <2> QED BY <2>1, <2>2, QuietInv
<1>4. ASSUME NEW w \in Workers, NEW s \in Slots, RenewalAnswered(w, s) \/ RenewalFails(w, s)
      PROVE  LockInv'
  <2>1. UNCHANGED <<op, proc, heartbeat, writes, host>>
    BY <1>4 DEF RenewalAnswered, RenewalFails, opVars
  <2>2. renewal[w][s].left \in 0..Lease
    BY DEF TypeInv, WTypeOK, WorkerTypeOK, RenewalRecord
  <2>3. \A v \in Workers : SameControl(v)
    BY <1>4, <2>2, WatchedControl DEF RenewalAnswered, RenewalFails
  <2> QED BY <2>1, <2>3, QuietInv
<1> QED BY <1>1, <1>2, <1>3, <1>4

\* The end of a process: its commands die with it or become orphans.
LEMMA DieInv ==
  ASSUME TypeInv, LockInv, NEW w \in Workers, Die(w)
  PROVE  LockInv'
<1> USE Typed DEF LockInv
<1>1. UNCHANGED op /\ host' \subseteq host
  BY DEF Die, opVars
<1>2. ActiveUnique' /\ FlightOwned' /\ HostHeld'
  BY <1>1 DEF ActiveUnique, FlightOwned, HostHeld, Held
<1>3. HostRun' /\ DeadExited'
  BY DEF Die, Idle, HostRun, DeadExited
<1>4. RunHolds' /\ RecoveredFailed' /\ ReleaseStopped'
  BY <1>1 DEF Die, Idle, RunHolds, RecoveredFailed, ReleaseStopped, Held, NeedsOp
<1>5. StoppedDrained'
  BY <1>1 DEF Die, Idle, StoppedDrained
<1> QED BY <1>2, <1>3, <1>4, <1>5

LEMMA OrphanInv ==
  ASSUME TypeInv, LockInv, NEW w \in Workers, NEW o \in Ops, OrphanEnds(w, o)
  PROVE  LockInv'
  BY Typed DEF OrphanEnds, opVars, LockInv, ActiveUnique, FlightOwned, HostHeld, HostRun,
               DeadExited, RunHolds, RecoveredFailed, ReleaseStopped, StoppedDrained, Held

\* One tick.  Recovery reads the worker of the operation that it failed, and
\* releases the lock only after it has seen that worker's "stopped".
LEMMA TickInv ==
  ASSUME TypeInv, TypeInv', LockInv, NEW w \in Workers, TickStep(w)
  PROVE  LockInv'
<1> USE Typed DEF LockInv
<1>1. CASE \/ Tick(w) \/ CheckStopped(w) \/ NothingToRecover(w)
           \/ NothingToClaim(w) \/ TickFails(w)
  <2>1. UNCHANGED <<op, proc, heartbeat, writes, host>>
    BY <1>1 DEF Tick, CheckStopped, NothingToRecover, NothingToClaim, TickFails, opVars
  <2>2. \A v \in Workers \ {w} : run'[v] = run[v]
    BY <1>1 DEF Tick, Goto, CheckStopped, NothingToRecover, NothingToClaim, TickFails
  <2>3. /\ run[w].pc \in {"idle", "recover", "check", "release", "claim", "claimed"}
        /\ run'[w].pc \in {"recover", "claim", "idle", "release"}
        /\ run'[w].pc = "release" =>
             /\ run[w].pc = "check" /\ run'[w].op = run[w].op
             /\ heartbeat[op[run[w].op].worker] = "stopped"
        /\ run'[w].pc # "idle" => AcceptingClaims(w) \/ run[w].pc # "idle"
    BY <1>1 DEF Tick, Goto, CheckStopped, NothingToRecover, NothingToClaim, TickFails, Idle,
                RunRecord
  <2>4. ActiveUnique' /\ FlightOwned' /\ HostHeld'
    BY <2>1 DEF ActiveUnique, FlightOwned, HostHeld, Held
  <2>5. HostRun' /\ DeadExited'
    BY <2>1, <2>2, <2>3 DEF HostRun, DeadExited
  <2>6. RunHolds' /\ RecoveredFailed' /\ ReleaseStopped'
    BY <2>1, <2>2, <2>3 DEF RunHolds, RecoveredFailed, ReleaseStopped, Held, NeedsOp
  <2>7. StoppedDrained'
    BY <2>1, <2>2, <2>3 DEF StoppedDrained, AcceptingClaims
  <2> QED BY <2>4, <2>5, <2>6, <2>7
<1>2. ASSUME NEW o \in Ops, Recover(w, o) PROVE LockInv'
  <2>1. /\ run[w].pc = "recover" /\ op[o].status \in InFlight
        /\ op' = [op EXCEPT ![o].status = "failed", ![o].active = TRUE,
                            ![o].code = "RECOVERY_REQUIRED"]
        /\ run' = [run EXCEPT ![w].pc = "check", ![w].op = o]
        /\ UNCHANGED <<proc, heartbeat, writes, host>>
        /\ op[o].active
    BY <1>2 DEF Recover, Expired, FailExpired
  <2>2. /\ \A p \in Ops : op'[p].app = op[p].app /\ op'[p].worker = op[p].worker
        /\ \A p \in Ops : op'[p].active = op[p].active
        /\ \A p \in Ops : p # o => op'[p].status = op[p].status
        /\ op'[o].status = "failed"
    <3>1. \A p \in Ops : p # o => op'[p] = op[p]
      BY <2>1
    <3>2. /\ op'[o].app = op[o].app /\ op'[o].worker = op[o].worker
          /\ op'[o].active /\ op'[o].status = "failed"
      BY <2>1 DEF OperationRecord
    <3> QED BY <2>1, <3>1, <3>2
  <2>3. /\ \A v \in Workers : v # w => run'[v] = run[v]
        /\ run'[w].pc = "check" /\ run'[w].op = o
    BY <2>1 DEF RunRecord
  <2>4. ActiveUnique' /\ FlightOwned'
    BY <2>2 DEF ActiveUnique, FlightOwned, InFlight
  <2>5. HostHeld' /\ HostRun' /\ DeadExited'
    BY <2>1, <2>2, <2>3 DEF HostHeld, HostRun, DeadExited, Held
  <2>6. RunHolds'
    BY <2>2, <2>3 DEF RunHolds, Held, NeedsOp
  <2>7. RecoveredFailed'
    BY <2>1, <2>2, <2>3 DEF RecoveredFailed, FlightOwned, NeedsOp
  <2>8. ReleaseStopped' /\ StoppedDrained'
    BY <2>1, <2>2, <2>3 DEF ReleaseStopped, StoppedDrained, NeedsOp
  <2> QED BY <2>4, <2>5, <2>6, <2>7, <2>8
<1>3. CASE Release(w)
  <2> DEFINE o == run[w].op
  <2>1. /\ run[w].pc = "release" /\ o \in Ops
        /\ run' = [run EXCEPT ![w].pc = "recover", ![w].op = None]
        /\ UNCHANGED <<proc, heartbeat, writes, host>>
    BY <1>3 DEF Release, NeedsOp
  <2>2. /\ \A p \in Ops : op'[p].app = op[p].app /\ op'[p].worker = op[p].worker
        /\ \A p \in Ops : op'[p].status = op[p].status
        /\ \A p \in Ops : p # o => op'[p].active = op[p].active
        /\ \A p \in Ops : op'[p].active => op[p].active
    <3>1. CASE op' = op
      BY <3>1
    <3>2. CASE /\ op[o].active
               /\ op' = [op EXCEPT ![o].active = FALSE, ![o].code = "WORKER_INTERRUPTED"]
      <4>1. \A p \in Ops : p # o => op'[p] = op[p]
        BY <3>2
      <4>2. /\ op'[o].app = op[o].app /\ op'[o].worker = op[o].worker
            /\ op'[o].status = op[o].status
        BY <2>1, <3>2 DEF OperationRecord
      <4> QED BY <3>2, <4>1, <4>2
    <3> QED BY <1>3, <3>1, <3>2 DEF Release, ReleaseInterrupted
  <2>3. \A v \in Workers : v # w => run'[v] = run[v]
    BY <2>1
  <2>4. run'[w].pc = "recover"
    BY <2>1 DEF RunRecord
  <2>5. /\ op[o].worker \in Workers /\ op[o].status = "failed"
        /\ heartbeat[op[o].worker] = "stopped"
    BY <2>1 DEF RecoveredFailed, ReleaseStopped
  <2>6. /\ \A h \in host : h[2] # o
        /\ \A v \in Workers : run[v].pc \in {"claimed", "exec"} => run[v].op # o
    BY <2>5 DEF HostHeld, RunHolds, StoppedDrained, Held
  <2> HIDE DEF o
  <2>7. ActiveUnique' /\ FlightOwned'
    BY <2>2 DEF ActiveUnique, FlightOwned
  <2>8. HostHeld' /\ HostRun' /\ DeadExited'
    BY <2>1, <2>2, <2>3, <2>4, <2>6 DEF HostHeld, HostRun, DeadExited, Held
  <2>9. RunHolds'
    BY <2>2, <2>3, <2>4, <2>6 DEF RunHolds, Held, NeedsOp
  <2>10. RecoveredFailed' /\ ReleaseStopped'
    BY <2>1, <2>2, <2>3, <2>4 DEF RecoveredFailed, ReleaseStopped, NeedsOp
  <2>11. StoppedDrained'
    BY <2>1, <2>3 DEF StoppedDrained
  <2> QED BY <2>7, <2>8, <2>9, <2>10, <2>11
<1>4. ASSUME NEW o \in Ops, Claim(w, o) PROVE LockInv'
  <2>1. /\ run[w].pc = "claim" /\ op[o].status = "queued" /\ op[o].active
        /\ run' = [run EXCEPT ![w].pc = "claimed", ![w].op = o,
                              ![w].generation = op[o].generation + 1]
        /\ UNCHANGED <<proc, heartbeat, writes, host>>
    BY <1>4 DEF Claim, ClaimOperation, OldestQueued, Queued
  <2>2. /\ \A p \in Ops : op'[p].app = op[p].app /\ op'[p].active = op[p].active
        /\ \A p \in Ops : p # o => op'[p] = op[p]
        /\ op'[o].status = "running" /\ op'[o].worker = w
    BY <1>4 DEF Claim, ClaimOperation, OperationRecord
  <2>3. /\ \A v \in Workers : v # w => run'[v] = run[v]
        /\ run'[w].pc = "claimed" /\ run'[w].op = o
    BY <2>1 DEF RunRecord
  <2>4. /\ \A h \in host : h[2] # o
        /\ \A v \in Workers : run[v].pc \in {"claimed", "exec", "check", "release"}
             => run[v].op # o
    BY <2>1 DEF HostHeld, RunHolds, RecoveredFailed, Held
  <2>5. ActiveUnique' /\ FlightOwned'
    BY <2>2 DEF ActiveUnique, FlightOwned
  <2>6. HostHeld' /\ HostRun' /\ DeadExited'
    BY <2>1, <2>2, <2>3, <2>4 DEF HostHeld, HostRun, DeadExited, Held
  <2>7. RunHolds'
    BY <2>1, <2>2, <2>3, <2>4 DEF RunHolds, Held, NeedsOp
  <2>8. RecoveredFailed'
    BY <2>2, <2>3, <2>4 DEF RecoveredFailed, NeedsOp
  <2>9. ReleaseStopped'
    BY <2>1, <2>2, <2>3, <2>4 DEF ReleaseStopped, NeedsOp
  <2>10. StoppedDrained'
    BY <2>1, <2>3 DEF StoppedDrained
  <2> QED BY <2>5, <2>6, <2>7, <2>8, <2>9, <2>10
<1>5. CASE StartExecutor(w)
  <2> USE <1>5 DEF StartExecutor, Goto
  <2>1. ActiveUnique' /\ FlightOwned'
    BY DEF opVars, ActiveUnique, FlightOwned
  <2>2. HostHeld' /\ HostRun' /\ DeadExited'
    BY DEF opVars, HostHeld, HostRun, DeadExited, RunHolds, Held, RunRecord
  <2>3. RunHolds' /\ RecoveredFailed' /\ ReleaseStopped'
    BY DEF opVars, RunHolds, RecoveredFailed, ReleaseStopped, Held, RunRecord
  <2>4. StoppedDrained'
    BY DEF StoppedDrained, RunRecord
  <2> QED BY <2>1, <2>2, <2>3, <2>4
<1> QED BY <1>1, <1>2, <1>3, <1>4, <1>5 DEF TickStep

\* The end of an execution.  The run leaves "exec" together with its command,
\* and the terminal write frees the lock only after that.
LEMMA ReturnInv ==
  ASSUME TypeInv, LockInv, NEW w \in Workers, NEW r \in Results, ExecutorReturns(w, r)
  PROVE  LockInv'
<1> USE Typed DEF LockInv, ExecutorReturns
<1>1. ActiveUnique' /\ FlightOwned' /\ HostHeld'
  BY DEF opVars, ActiveUnique, FlightOwned, HostHeld, Held
<1>2. HostRun' /\ DeadExited'
  BY DEF HostRun, DeadExited, RunRecord
<1>3. RunHolds' /\ RecoveredFailed'
  BY DEF opVars, RunHolds, RecoveredFailed, Held, RunRecord
<1>4. ReleaseStopped' /\ StoppedDrained'
  BY DEF opVars, ReleaseStopped, StoppedDrained, RunRecord
<1> QED BY <1>1, <1>2, <1>3, <1>4

LEMMA AbandonInv ==
  ASSUME TypeInv, LockInv, NEW w \in Workers, run[w].pc \in {"settle", "finish"},
         \/ Abandon(w)
         \/ run[w].pc = "settle" /\ Goto(w, "finish") /\ UNCHANGED proc
         \/ run' = [run EXCEPT ![w] = Idle] /\ UNCHANGED proc,
         UNCHANGED <<op, heartbeat, writes, host>>
  PROVE  LockInv'
<1> USE Typed DEF LockInv
<1>1. /\ \A v \in Workers \ {w} : run'[v] = run[v]
      /\ run'[w].pc \in {"idle", "finish"}
  BY DEF Abandon, Goto, Idle, RunRecord
<1>2. proc' = proc \/ (AcceptingClaims(w) /\ proc' = [proc EXCEPT ![w] = "stopping"])
  BY DEF Abandon
<1>3. ActiveUnique' /\ FlightOwned' /\ HostHeld'
  BY DEF ActiveUnique, FlightOwned, HostHeld, Held
<1>4. HostRun' /\ DeadExited'
  BY <1>1, <1>2 DEF HostRun, DeadExited, AcceptingClaims
<1>5. RunHolds' /\ RecoveredFailed' /\ ReleaseStopped'
  BY <1>1 DEF RunHolds, RecoveredFailed, ReleaseStopped, Held
<1>6. StoppedDrained'
  BY <1>1, <1>2 DEF StoppedDrained, AcceptingClaims
<1> QED BY <1>3, <1>4, <1>5, <1>6

LEMMA FinishInv ==
  ASSUME TypeInv, LockInv, NEW w \in Workers, Settle(w) \/ Finish(w) \/ FinishFails(w)
  PROVE  LockInv'
<1>1. CASE Settle(w)
  BY <1>1, AbandonInv DEF Settle, opVars
<1>2. CASE FinishFails(w)
  BY <1>2, AbandonInv DEF FinishFails, opVars
<1>3. CASE Finish(w) /\ ~Owned(run[w].op, w, run[w].generation)
  BY <1>3, AbandonInv DEF Finish, opVars
<1>4. CASE Finish(w) /\ Owned(run[w].op, w, run[w].generation)
  <2> DEFINE o == run[w].op
  <2>1. /\ run[w].pc = "finish" /\ o \in Ops
        /\ run' = [run EXCEPT ![w] = Idle]
        /\ op' = [op EXCEPT ![o].status = run[w].result, ![o].active = FALSE]
        /\ UNCHANGED <<proc, heartbeat, writes, host>>
    BY <1>4, Typed DEF Finish, FinishOperation, NeedsOp
  <2>2. run[w].result \in Terminal
    BY <2>1, ResultsAssumption DEF TypeInv, RunOK, RunFieldsOK
  <2>3. op[o].active /\ op[o].status \in InFlight /\ op[o].worker = w
    BY <1>4 DEF Owned
  <2>4. \A v \in Workers : run[v].pc \in {"check", "release"} => run[v].op # o
    BY <2>3 DEF LockInv, RecoveredFailed, InFlight
  <2>5. \A v \in Workers : run[v].pc \in {"claimed", "exec"} => run[v].op # o
    BY <2>1, <2>3 DEF LockInv, RunHolds, Held
  <2>6. \A h \in host : h[2] # o
    BY <2>1, <2>3 DEF LockInv, HostHeld, HostRun, DeadExited, Held
  <2> HIDE DEF o
  <2> USE Typed DEF LockInv
  <2>7. ActiveUnique' /\ FlightOwned'
    BY <2>1, <2>2 DEF ActiveUnique, FlightOwned, InFlight, Terminal, OperationRecord
  <2>8. HostHeld' /\ HostRun' /\ DeadExited'
    BY <2>1, <2>6 DEF HostHeld, HostRun, DeadExited, Held, Idle
  <2>9. RunHolds'
    BY <2>1, <2>5 DEF RunHolds, Held, Idle, NeedsOp
  <2>10. RecoveredFailed' /\ ReleaseStopped'
    BY <2>1, <2>4 DEF RecoveredFailed, ReleaseStopped, Idle, NeedsOp
  <2>11. StoppedDrained'
    BY <2>1 DEF StoppedDrained, Idle
  <2> QED BY <2>7, <2>8, <2>9, <2>10, <2>11
<1> QED BY <1>1, <1>2, <1>3, <1>4

\* Operations that arrive find the lock of their app free; an edit cancels
\* what no worker has; an administrator unlocks what no process works on.
LEMMA OtherInv ==
  ASSUME TypeInv, LockInv, NEW o \in Ops, Arrive(o) \/ EditCancels(o) \/ AdministratorUnlocks(o)
  PROVE  LockInv'
<1> USE Typed, NoneAssumption DEF LockInv, workerVars
<1>1. ASSUME NEW a \in Apps, NEW k \in Keys \cup {None}, CreateOperation(o, a, k),
             UNCHANGED workerVars
      PROVE  LockInv'
  <2> USE <1>1 DEF CreateOperation, Absent
  <2>1. ActiveUnique' /\ FlightOwned'
    BY DEF ActiveIndexFree, ActiveUnique, FlightOwned, InFlight
  <2>2. HostHeld' /\ HostRun' /\ DeadExited'
    BY DEF HostHeld, HostRun, DeadExited, Held
  <2>3. RunHolds' /\ RecoveredFailed' /\ ReleaseStopped' /\ StoppedDrained'
    BY DEF RunHolds, RecoveredFailed, ReleaseStopped, StoppedDrained, Held, NeedsOp
  <2> QED BY <2>1, <2>2, <2>3
<1>2. CASE EditCancels(o)
  <2> USE <1>2 DEF EditCancels, CancelQueued, Queued, OperationRecord
  <2>1. ActiveUnique' /\ FlightOwned'
    BY DEF ActiveUnique, FlightOwned, InFlight
  <2>2. HostHeld' /\ HostRun' /\ DeadExited'
    BY DEF HostHeld, HostRun, DeadExited, Held
  <2>3. RunHolds' /\ RecoveredFailed' /\ ReleaseStopped' /\ StoppedDrained'
    BY DEF RunHolds, RecoveredFailed, ReleaseStopped, StoppedDrained, Held, NeedsOp
  <2> QED BY <2>1, <2>2, <2>3
<1>3. CASE AdministratorUnlocks(o)
  <2> USE <1>3 DEF AdministratorUnlocks, UnlockByHand, OperationRecord
  <2>1. ActiveUnique' /\ FlightOwned'
    BY DEF ActiveUnique, FlightOwned
  <2>2. HostHeld' /\ HostRun' /\ DeadExited'
    BY DEF HostHeld, HostRun, DeadExited, Held
  <2>3. RunHolds' /\ RecoveredFailed' /\ ReleaseStopped' /\ StoppedDrained'
    BY DEF RunHolds, DeadExited, RecoveredFailed, ReleaseStopped, StoppedDrained, Held, NeedsOp
  <2> QED BY <2>1, <2>2, <2>3
<1> QED BY <1>1, <1>2, <1>3 DEF Arrive

LEMMA StepInv ==
  ASSUME TypeInv, LockInv, [WNext]_wVars
  PROVE  LockInv'
<1>0. TypeInv'
  BY StepTypes
<1>1. ASSUME NEW w \in Workers, WorkerStep(w) PROVE LockInv'
  <2>1. CASE ProcessStep(w)
    BY <2>1, ProcessInv, DieInv, OrphanInv DEF ProcessStep, Exit, Crash
  <2>2. CASE TickStep(w)
    BY <1>0, <2>2, TickInv
  <2>3. CASE ExecutionStep(w)
    BY <2>3, QuietSteps, ReturnInv, FinishInv DEF ExecutionStep
  <2> QED BY <1>1, <2>1, <2>2, <2>3 DEF WorkerStep
<1>2. CASE UNCHANGED wVars
  BY <1>2 DEF wVars, opVars, workerVars, LockInv, ActiveUnique, FlightOwned, HostHeld, HostRun,
              DeadExited, RunHolds, RecoveredFailed, ReleaseStopped, StoppedDrained, Held
<1> QED BY <1>1, <1>2, QuietSteps, OtherInv DEF WNext, CommonStep

LEMMA Invariants == WSpec => [](TypeInv /\ LockInv)
<1>1. WInit => TypeInv /\ LockInv
  BY InitTypeInv, InitLockInv
<1>2. TypeInv /\ LockInv /\ [WNext]_wVars => TypeInv' /\ LockInv'
  BY StepTypes, StepInv
<1> QED BY <1>1, <1>2, PTL DEF WSpec

-----------------------------------------------------------------------------
\* Two commands on one app are one command, whatever expired or crashed.
THEOREM HostIsExclusive == WSpec => []HostExclusive
<1>1. TypeInv /\ LockInv => HostExclusive
  <2> SUFFICES ASSUME TypeInv, LockInv, NEW h \in host, NEW i \in host,
                      op[h[2]].app = op[i[2]].app
               PROVE  h = i
    BY DEF HostExclusive
  <2>1. h \in Workers \X Ops /\ i \in Workers \X Ops
    BY Typed
  <2>2. Held(h[2], h[1]) /\ Held(i[2], i[1])
    BY DEF LockInv, HostHeld
  <2>3. h[2] = i[2]
    BY <2>1, <2>2 DEF LockInv, ActiveUnique, Held
  <2> QED BY <2>1, <2>2, <2>3 DEF Held
<1> QED BY <1>1, Invariants, PTL

\* A "stopped" heartbeat is true: the lock it releases protects nothing.
THEOREM StoppedIsDrained == WSpec => []StoppedMeansDrained
<1>1. LockInv => StoppedMeansDrained
  BY DEF LockInv, StoppedDrained, StoppedMeansDrained
<1> QED BY <1>1, Invariants, PTL

\* "stopped" is the last word of a process.
THEOREM StoppedStays == WSpec => StoppedIsFinal
<1>1. ASSUME TypeInv, LockInv, [WNext]_wVars,
             NEW w \in Workers, heartbeat[w] = "stopped"
      PROVE  heartbeat'[w] = "stopped"
  <2>1. ASSUME NEW v \in Workers, StartRunner(v) PROVE heartbeat'[w] = "stopped"
    BY <1>1, <2>1, Typed DEF StartRunner, LockInv, StoppedDrained
  <2>2. ASSUME NEW v \in Workers, NEW s \in HeartbeatStatus, ApplyHeartbeat(v, s)
        PROVE  heartbeat'[w] = "stopped"
    <3>1. "stopped" \notin StatusesReplacedBy[s] \/ s = "stopped"
      BY DEF StatusesReplacedBy, HeartbeatStatus
    <3> QED BY <1>1, <2>2, <3>1, Typed DEF ApplyHeartbeat
  <2>3. ASSUME NEW v \in Workers, ProcessStep(v) PROVE heartbeat'[w] = "stopped"
    BY <1>1, <2>1, <2>2, <2>3
       DEF ProcessStep, Boot, BecomeUp, StartFails, PeriodicHeartbeat, LoseHeartbeat, Signal,
           PublishLastStatus, MarkStopped, Exit, Crash, Die, OrphanEnds
  <2>4. ASSUME NEW v \in Workers, TickStep(v) PROVE heartbeat'[w] = "stopped"
    BY <1>1, <2>4
       DEF TickStep, Tick, CheckStopped, Release, NothingToRecover, Recover, Claim,
           NothingToClaim, TickFails, StartExecutor
  <2>5. ASSUME NEW v \in Workers, ExecutionStep(v) PROVE heartbeat'[w] = "stopped"
    BY <1>1, <2>5
       DEF ExecutionStep, RenewTimer, AssertOwnership, ApplyRenewal, RenewalAnswered,
           RenewalFails, ConfirmedExpiryPasses, DeadlinePasses, StageRefused,
           ExecutorReturns, Settle, Finish, FinishFails
  <2> QED BY <1>1, <2>3, <2>4, <2>5
          DEF WNext, CommonStep, WorkerStep, TimePasses, EditCancels, AdministratorUnlocks,
              Arrive, workerVars, wVars
<1>2. TypeInv /\ LockInv /\ [WNext]_wVars
        => [\A w \in Workers : heartbeat[w] = "stopped" => heartbeat'[w] = "stopped"]_wVars
  BY <1>1
<1> QED BY <1>2, Invariants, PTL DEF WSpec, StoppedIsFinal

-----------------------------------------------------------------------------
(***************************************************************************)
(* What a step may do to an operation record.  All later proofs about the  *)
(* records need only this list of the repository's commands.               *)
(***************************************************************************)
Commanded ==
  \/ \E o \in Ops :
       \/ \E a \in Apps, k \in Keys \cup {None} : CreateOperation(o, a, k)
       \/ \E w \in Workers, n \in 0..Lease : ClaimOperation(o, w, n)
       \/ \E n \in 0..Lease : RenewLease(o, n)
       \/ \E w \in Workers, g \in Nat, r \in Results : Owned(o, w, g) /\ FinishOperation(o, r)
       \/ \E w \in Workers : Expired(o, w) /\ FailExpired(o)
       \/ ReleaseInterrupted(o)
       \/ CancelQueued(o)
       \/ UnlockByHand(o)
  \/ LeasesElapse
  \/ UNCHANGED opVars

LEMMA StepCommands ==
  ASSUME TypeInv, [WNext]_wVars
  PROVE  Commanded
<1> USE DEF TypeInv, WTypeOK, WorkerTypeOK
<1>1. ASSUME NEW w \in Workers, WorkerStep(w) PROVE Commanded
  <2>0. RunFieldsOK(run[w]) /\ run[w].generation \in Nat /\ run[w].confirmed \in 0..Lease
    BY DEF RunOK, RunRecord
  <2>1. CASE ProcessStep(w)
    BY <2>1 DEF ProcessStep, Boot, StartRunner, BecomeUp, StartFails, PeriodicHeartbeat,
                ApplyHeartbeat, LoseHeartbeat, Signal, PublishLastStatus, MarkStopped, Exit,
                Crash, Die, OrphanEnds, Commanded
  <2>2. CASE TickStep(w)
    <3>1. CASE Release(w)
      BY <2>0, <3>1 DEF Release, RunFieldsOK, NeedsOp, Commanded
    <3>2. ASSUME NEW o \in Ops, Recover(w, o) PROVE Commanded
      BY <3>2 DEF Recover, Commanded
    <3>3. ASSUME NEW o \in Ops, Claim(w, o) PROVE Commanded
      BY <2>0, <3>3 DEF Claim, Commanded
    <3> QED BY <2>2, <3>1, <3>2, <3>3
            DEF TickStep, Tick, CheckStopped, NothingToRecover, NothingToClaim, TickFails,
                StartExecutor, Commanded
  <2>3. CASE ExecutionStep(w)
    <3>1. ASSUME NEW s \in Slots, ApplyRenewal(w, s) PROVE Commanded
      <4>1. renewal[w][s].left \in 0..Lease
        BY DEF RenewalRecord
      <4>2. CASE run[w].op \in Ops
        BY <3>1, <4>1, <4>2 DEF ApplyRenewal, Commanded
      <4>3. CASE run[w].op \notin Ops
        BY <3>1, <4>3 DEF ApplyRenewal, RenewLease, OperationsTypeOK, opVars, Commanded
      <4> QED BY <4>2, <4>3
    <3>2. CASE Finish(w)
      BY <2>0, <3>2 DEF Finish, RunFieldsOK, NeedsOp, Commanded
    <3> QED BY <2>3, <3>1, <3>2
            DEF ExecutionStep, RenewTimer, AssertOwnership, RenewalAnswered, RenewalFails,
                ConfirmedExpiryPasses, DeadlinePasses, StageRefused, ExecutorReturns, Settle,
                FinishFails, Commanded
  <2> QED BY <1>1, <2>1, <2>2, <2>3 DEF WorkerStep
<1> QED BY <1>1 DEF WNext, CommonStep, TimePasses, EditCancels, AdministratorUnlocks, Arrive,
                    wVars, Commanded

\* A recorded outcome stays.
THEOREM OutcomesStay == WSpec => TerminalIsImmutable
<1>1. ASSUME TypeInv, [WNext]_wVars, NEW o \in Ops, op[o].status \in Terminal
      PROVE  op'[o].status = op[o].status
  <2> USE <1>1, Typed DEF OperationRecord
  <2>1. CASE LeasesElapse
    BY <2>1 DEF LeasesElapse
  <2>2. ASSUME NEW p \in Ops,
               \/ \E a \in Apps, k \in Keys \cup {None} : CreateOperation(p, a, k)
               \/ \E w \in Workers, n \in 0..Lease : ClaimOperation(p, w, n)
               \/ CancelQueued(p)
        PROVE  op'[o].status = op[o].status
    BY <1>1, <2>2 DEF CreateOperation, ClaimOperation, OldestQueued, CancelQueued, Queued,
                      Terminal
  <2>3. ASSUME NEW p \in Ops, NEW n \in 0..Lease, RenewLease(p, n)
        PROVE  op'[o].status = op[o].status
    BY <2>3 DEF RenewLease
  <2>4. ASSUME NEW p \in Ops, NEW w \in Workers, NEW g \in Nat, NEW r \in Results,
               Owned(p, w, g), FinishOperation(p, r)
        PROVE  op'[o].status = op[o].status
    BY <1>1, <2>4 DEF Owned, FinishOperation, InFlight, Terminal
  <2>5. ASSUME NEW p \in Ops, NEW w \in Workers, Expired(p, w), FailExpired(p)
        PROVE  op'[o].status = op[o].status
    BY <1>1, <2>5 DEF Expired, FailExpired, InFlight, Terminal
  <2>6. ASSUME NEW p \in Ops, ReleaseInterrupted(p) \/ UnlockByHand(p)
        PROVE  op'[o].status = op[o].status
    BY <2>6 DEF ReleaseInterrupted, UnlockByHand
  <2> QED BY <1>1, <2>1, <2>2, <2>3, <2>4, <2>5, <2>6, StepCommands DEF Commanded, opVars
<1>2. TypeInv /\ [WNext]_wVars
        => [\A o \in Ops : op[o].status \in Terminal => op'[o].status = op[o].status]_wVars
  BY <1>1
<1> QED BY <1>2, Invariants, PTL DEF WSpec, TerminalIsImmutable

\* No operation is claimed a second time.
THEOREM ClaimedOnce == WSpec => []NeverReplayed
<1>1. WInit => NeverReplayed
  <2> SUFFICES ASSUME WInit, NEW o \in Ops
               PROVE  op[o].generation <= 1 /\ (Queued(o) => op[o].generation = 0)
    BY DEF NeverReplayed
  <2>1. op[o] = Absent
    BY DEF WInit, OperationsInit
  <2>2. op[o].generation = 0
    BY <2>1 DEF Absent
  <2> QED BY <2>2
<1>2. ASSUME TypeInv, NeverReplayed, [WNext]_wVars PROVE NeverReplayed'
  <2> USE <1>2, Typed DEF NeverReplayed, Queued, OperationRecord
  <2>1. CASE LeasesElapse
    BY <2>1 DEF LeasesElapse
  <2>2. ASSUME NEW o \in Ops, NEW a \in Apps, NEW k \in Keys \cup {None},
               CreateOperation(o, a, k)
        PROVE  NeverReplayed'
    BY <2>2 DEF CreateOperation, Absent
  <2>3. ASSUME NEW o \in Ops, NEW w \in Workers, NEW n \in 0..Lease, ClaimOperation(o, w, n)
        PROVE  NeverReplayed'
    BY <2>3 DEF ClaimOperation, OldestQueued
  <2>4. ASSUME NEW o \in Ops, NEW n \in 0..Lease, RenewLease(o, n) PROVE NeverReplayed'
    BY <2>4 DEF RenewLease
  <2>5. ASSUME NEW o \in Ops, NEW r \in Results, FinishOperation(o, r) PROVE NeverReplayed'
    BY <2>5 DEF FinishOperation
  <2>6. ASSUME NEW o \in Ops, FailExpired(o) PROVE NeverReplayed'
    BY <2>6 DEF FailExpired
  <2>7. ASSUME NEW o \in Ops, ReleaseInterrupted(o) \/ CancelQueued(o) \/ UnlockByHand(o)
        PROVE  NeverReplayed'
    BY <2>7 DEF ReleaseInterrupted, CancelQueued, UnlockByHand
  <2> QED BY <2>1, <2>2, <2>3, <2>4, <2>5, <2>6, <2>7, StepCommands DEF Commanded, opVars
<1> QED BY <1>1, <1>2, Invariants, PTL DEF WSpec

-----------------------------------------------------------------------------
(***************************************************************************)
(* The lease a worker trusts, when renewals are sent one at a time, as the *)
(* interval sends them.  What the worker's clock says is left never        *)
(* exceeds what the record says: so it may not exceed what a renewal on    *)
(* its way is going to write.                                              *)
(***************************************************************************)
Covers(w, n) ==
  n > 0 => Owned(run[w].op, w, run[w].generation) /\ op[run[w].op].left >= n

LeaseOf(w) ==
  /\ renewal[w]["assert"].st = "free"
  /\ run[w].pc \notin {"exec", "settle", "dead"} => renewal[w]["timer"].st = "free"
  /\ run[w].pc \in {"claimed", "exec"} /\ ~run[w].lost => Covers(w, run[w].confirmed)
  /\ run[w].pc = "exec" /\ renewal[w]["timer"].st = "ok" => Covers(w, renewal[w]["timer"].left)
  /\ run[w].pc = "exec" /\ renewal[w]["timer"].st \in {"sent", "ok"} =>
       run[w].confirmed <= renewal[w]["timer"].left

RecoveredIsFailed == \A o \in Ops : op[o].code = "RECOVERY_REQUIRED" => op[o].status = "failed"

LeaseInv == RecoveredIsFailed /\ \A w \in Workers : LeaseOf(w)

LEMMA RecoveredIsFailedStep ==
  ASSUME TypeInv, RecoveredIsFailed, Commanded
  PROVE  RecoveredIsFailed'
<1> USE Typed DEF RecoveredIsFailed, OperationRecord
<1>1. CASE LeasesElapse
  BY <1>1 DEF LeasesElapse
<1>2. ASSUME NEW o \in Ops, NEW a \in Apps, NEW k \in Keys \cup {None}, CreateOperation(o, a, k)
      PROVE  RecoveredIsFailed'
  BY <1>2 DEF CreateOperation, Absent
<1>3. ASSUME NEW o \in Ops, NEW w \in Workers, NEW n \in 0..Lease, ClaimOperation(o, w, n)
      PROVE  RecoveredIsFailed'
  BY <1>3 DEF ClaimOperation, OldestQueued, Queued
<1>4. ASSUME NEW o \in Ops, NEW n \in 0..Lease, RenewLease(o, n) PROVE RecoveredIsFailed'
  BY <1>4 DEF RenewLease
<1>5. ASSUME NEW o \in Ops, NEW w \in Workers, NEW g \in Nat, NEW r \in Results,
             Owned(o, w, g), FinishOperation(o, r)
      PROVE  RecoveredIsFailed'
  BY <1>5 DEF Owned, FinishOperation, InFlight
<1>6. ASSUME NEW o \in Ops, FailExpired(o) PROVE RecoveredIsFailed'
  BY <1>6 DEF FailExpired
<1>7. ASSUME NEW o \in Ops, ReleaseInterrupted(o) PROVE RecoveredIsFailed'
  BY <1>7 DEF ReleaseInterrupted
<1>8. ASSUME NEW o \in Ops, CancelQueued(o) PROVE RecoveredIsFailed'
  BY <1>8 DEF CancelQueued, Queued
<1>9. ASSUME NEW o \in Ops, UnlockByHand(o) PROVE RecoveredIsFailed'
  BY <1>9 DEF UnlockByHand
<1> QED BY <1>1, <1>2, <1>3, <1>4, <1>5, <1>6, <1>7, <1>8, <1>9 DEF Commanded, opVars

\* The step leaves alone what v owns with time left.
Spares(v) ==
  \A o \in Ops : Owned(o, v, op[o].generation) /\ op[o].left > 0 => op'[o] = op[o]

LEMMA SparedByCommand ==
  ASSUME TypeInv, RecoveredIsFailed, NEW o \in Ops, NEW v \in Workers,
         \/ \E a \in Apps, k \in Keys \cup {None} : CreateOperation(o, a, k)
         \/ \E w \in Workers, n \in 0..Lease : ClaimOperation(o, w, n)
         \/ \E w \in Workers : Expired(o, w) /\ FailExpired(o)
         \/ ReleaseInterrupted(o) \/ CancelQueued(o) \/ UnlockByHand(o)
  PROVE  Spares(v)
<1> USE Typed DEF Spares, Owned, InFlight
<1>1. ASSUME NEW a \in Apps, NEW k \in Keys \cup {None}, CreateOperation(o, a, k)
      PROVE  Spares(v)
  BY <1>1 DEF CreateOperation
<1>2. ASSUME NEW w \in Workers, NEW n \in 0..Lease, ClaimOperation(o, w, n)
      PROVE  Spares(v)
  BY <1>2 DEF ClaimOperation, OldestQueued, Queued
<1>3. ASSUME NEW w \in Workers, Expired(o, w), FailExpired(o) PROVE Spares(v)
  BY <1>3 DEF Expired, FailExpired
<1>4. CASE ReleaseInterrupted(o)
  BY <1>4 DEF ReleaseInterrupted, RecoveredIsFailed
<1>5. CASE CancelQueued(o)
  BY <1>5 DEF CancelQueued, Queued
<1>6. CASE UnlockByHand(o)
  BY <1>6 DEF UnlockByHand, RecoveredIsFailed
<1> QED BY <1>1, <1>2, <1>3, <1>4, <1>5, <1>6

LEMMA SparedByOwner ==
  ASSUME TypeInv, NEW o, NEW w \in Workers, NEW v \in Workers, v # w, NEW g,
         Owned(o, w, g), (\E n : RenewLease(o, n)) \/ (\E r : FinishOperation(o, r))
  PROVE  Spares(v)
BY Typed DEF Spares, Owned, RenewLease, FinishOperation

\* Nothing of v moves.
Undisturbed(v) == run'[v] = run[v] /\ renewal'[v] = renewal[v] /\ Spares(v)

LEMMA UndisturbedLease ==
  ASSUME TypeInv, NEW v \in Workers, LeaseOf(v), Undisturbed(v)
  PROVE  LeaseOf(v)'
<1>1. ASSUME NEW n \in 0..Lease, Covers(v, n), run[v].op \in Ops
      PROVE  Covers(v, n)'
  <2>1. SUFFICES ASSUME n > 0 PROVE Covers(v, n)'
    BY DEF Covers
  <2>2. op'[run[v].op] = op[run[v].op]
    BY <1>1, <2>1, Typed DEF Covers, Undisturbed, Spares, Owned, OperationRecord
  <2> QED BY <1>1, <2>1, <2>2 DEF Covers, Undisturbed, Owned
<1>2. run[v].confirmed \in 0..Lease /\ renewal[v]["timer"].left \in 0..Lease
  BY Typed DEF TypeInv, WTypeOK, WorkerTypeOK, RunRecord, RenewalRecord, Slots
<1>3. run[v].pc \in {"claimed", "exec"} => run[v].op \in Ops
  BY Typed DEF NeedsOp
<1> QED BY <1>1, <1>2, <1>3 DEF LeaseOf, Undisturbed

\* A run that watches no lease, and has no renewal under way.
LEMMA UnwatchedLease ==
  ASSUME NEW w \in Workers, run'[w].pc \notin {"claimed", "exec", "settle", "dead"},
         renewal'[w]["assert"].st = "free", renewal'[w]["timer"].st = "free"
  PROVE  LeaseOf(w)'
BY DEF LeaseOf

LEMMA TickLease ==
  ASSUME TypeInv, RecoveredIsFailed, NEW w \in Workers, TickStep(w),
         \A v \in Workers : LeaseOf(v), NEW v \in Workers
  PROVE  LeaseOf(v)'
<1>1. renewal' = renewal /\ \A u \in Workers : u # w => run'[u] = run[u]
  BY Typed DEF TickStep, Tick, CheckStopped, Release, NothingToRecover, Recover, Claim,
               NothingToClaim, TickFails, StartExecutor, Goto
<1>2. Spares(v)
  <2>1. CASE op' = op
    BY <2>1 DEF Spares
  <2>2. CASE Release(w)
    BY <2>2, Typed, SparedByCommand DEF Release, NeedsOp
  <2>3. ASSUME NEW o \in Ops, Recover(w, o) PROVE Spares(v)
    BY <2>3, SparedByCommand DEF Recover
  <2>4. ASSUME NEW o \in Ops, Claim(w, o) PROVE Spares(v)
    BY <2>4, Typed, SparedByCommand DEF Claim, RunRecord
  <2> QED BY <2>1, <2>2, <2>3, <2>4
          DEF TickStep, Tick, CheckStopped, NothingToRecover, NothingToClaim, TickFails,
              StartExecutor, opVars
<1>3. CASE v # w
  BY <1>1, <1>2, <1>3, UndisturbedLease DEF Undisturbed
<1>4. CASE v = w
  <2> USE Typed
  <2>0. run[w].pc \in {"idle", "recover", "check", "release", "claim", "claimed"}
    BY DEF TickStep, Tick, CheckStopped, Release, NothingToRecover, Recover, Claim,
           NothingToClaim, TickFails, StartExecutor
  <2>1. renewal'[w]["assert"].st = "free" /\ renewal'[w]["timer"].st = "free"
    BY <1>1, <2>0 DEF LeaseOf
  <2>2. ASSUME NEW o \in Ops, Claim(w, o) PROVE LeaseOf(w)'
    <3>1. run'[w].op = o /\ run'[w].confirmed = run[w].confirmed
          /\ run'[w].generation = op[o].generation + 1 /\ run'[w].pc = "claimed"
      BY <2>2 DEF Claim, RunRecord
    <3>2. op'[o].status = "running" /\ op'[o].worker = w /\ op'[o].active
          /\ op'[o].generation = op[o].generation + 1 /\ op'[o].left = run[w].confirmed
      BY <2>2 DEF Claim, ClaimOperation, OldestQueued, Queued, OperationRecord
    <3>3. run[w].confirmed \in 0..Lease
      BY DEF RunRecord
    <3>4. Covers(w, run[w].confirmed)'
      BY <3>1, <3>2, <3>3 DEF Covers, Owned, InFlight
    <3> QED BY <2>1, <3>1, <3>4 DEF LeaseOf
  <2>3. CASE StartExecutor(w)
    <3>1. run'[w] = [run[w] EXCEPT !.pc = "exec"] /\ op' = op /\ run[w].pc = "claimed"
      BY <2>3 DEF StartExecutor, Goto, opVars
    <3>2. /\ run'[w].op = run[w].op /\ run'[w].generation = run[w].generation
          /\ run'[w].lost = run[w].lost /\ run'[w].confirmed = run[w].confirmed
          /\ run'[w].pc = "exec"
      BY <3>1 DEF RunRecord
    <3>3. ~run[w].lost => Covers(w, run[w].confirmed)
      BY <3>1 DEF LeaseOf
    <3>4. ~run[w].lost => Covers(w, run[w].confirmed)'
      BY <3>1, <3>2, <3>3 DEF Covers, Owned
    <3> QED BY <1>4, <2>1, <3>2, <3>4 DEF LeaseOf
  <2>4. CASE \/ Tick(w) \/ CheckStopped(w) \/ Release(w) \/ NothingToRecover(w)
             \/ (\E o \in Ops : Recover(w, o)) \/ NothingToClaim(w) \/ TickFails(w)
    <3>1. run'[w].pc \notin {"claimed", "exec", "settle", "dead"}
      BY <2>4 DEF Tick, CheckStopped, Release, NothingToRecover, Recover, NothingToClaim,
                  TickFails, Goto, Idle, RunRecord
    <3> QED BY <1>4, <2>1, <3>1, UnwatchedLease
  <2> QED BY <1>4, <2>2, <2>3, <2>4 DEF TickStep
<1> QED BY <1>3, <1>4

LEMMA DieLease ==
  ASSUME TypeInv, NEW w \in Workers, Die(w), \A v \in Workers : LeaseOf(v), NEW v \in Workers
  PROVE  LeaseOf(v)'
<1> USE Typed
<1>1. renewal \in [Workers -> [Slots -> RenewalRecord]] /\ "assert" \in Slots
  BY DEF TypeInv, WTypeOK, WorkerTypeOK, Slots
<1>2. CASE v # w
  <2>1. Undisturbed(v)
    BY <1>1, <1>2 DEF Die, Undisturbed, Spares, opVars
  <2> QED BY <2>1, UndisturbedLease
<1>3. CASE v = w
  <2>1. run'[w].pc = "dead"
    BY DEF Die, Idle
  <2>2. renewal'[w]["assert"] = Free
    BY <1>1 DEF Die, LeaseOf
  <2> QED BY <1>3, <2>1, <2>2 DEF LeaseOf, Free
<1> QED BY <1>2, <1>3

LEMMA ProcessLease ==
  ASSUME TypeInv, NEW w \in Workers, ProcessStep(w), \A v \in Workers : LeaseOf(v),
         NEW v \in Workers
  PROVE  LeaseOf(v)'
<1>1. CASE UNCHANGED <<opVars, run, renewal>>
  <2>1. Undisturbed(v)
    BY <1>1 DEF Undisturbed, Spares, opVars
  <2> QED BY <2>1, UndisturbedLease
<1>2. CASE Die(w)
  BY <1>2, DieLease
<1> QED BY <1>1, <1>2
        DEF ProcessStep, Boot, StartRunner, BecomeUp, StartFails, PeriodicHeartbeat,
            ApplyHeartbeat, LoseHeartbeat, Signal, PublishLastStatus, MarkStopped, Exit,
            Crash, OrphanEnds

LEMMA RenewalTyped ==
  ASSUME TypeInv
  PROVE  /\ renewal \in [Workers -> [Slots -> RenewalRecord]]
         /\ "timer" \in Slots /\ "assert" \in Slots
         /\ \A w \in Workers, s \in Slots : renewal[w][s].left \in 0..Lease
         /\ \A w \in Workers : run[w].confirmed \in 0..Lease
BY Typed DEF TypeInv, WTypeOK, WorkerTypeOK, Slots, RenewalRecord, RunRecord

LEMMA RenewalSentLease ==
  ASSUME TypeInv, NEW w \in Workers, RenewTimer(w), LeaseOf(w)
  PROVE  LeaseOf(w)'
<1> USE Typed, RenewalTyped
<1>1. /\ renewal'[w]["timer"].st = "sent" /\ renewal'[w]["timer"].left = Lease
      /\ renewal'[w]["assert"] = renewal[w]["assert"]
  BY DEF RenewTimer, SendRenewal
<1>2. run' = run /\ op' = op /\ run[w].pc = "exec"
  BY DEF RenewTimer, opVars
<1>3. \A n : Covers(w, n) => Covers(w, n)'
  BY <1>2 DEF Covers, Owned
<1>4. run[w].confirmed <= Lease
  BY LeaseAssumption
<1> QED BY <1>1, <1>2, <1>3, <1>4 DEF LeaseOf

LEMMA RenewalAppliedLease ==
  ASSUME TypeInv, NEW w \in Workers, NEW s \in Slots, ApplyRenewal(w, s), LeaseOf(w)
  PROVE  LeaseOf(w)'
<1> USE Typed, RenewalTyped
<1>1. s = "timer" /\ renewal[w]["timer"].st = "sent" /\ run' = run
  BY DEF ApplyRenewal, LeaseOf, Slots
<1>2. CASE Owned(run[w].op, w, run[w].generation)
  <2> DEFINE n == renewal[w]["timer"].left
             r == [renewal[w]["timer"] EXCEPT !.st = "ok"]
  <2>0. r.st = "ok" /\ r.left = n /\ n \in 0..Lease
    BY DEF RenewalRecord
  <2>1. /\ renewal'[w]["timer"].st = "ok" /\ renewal'[w]["timer"].left = n
        /\ renewal'[w]["assert"] = renewal[w]["assert"]
    <3>1. renewal' = [renewal EXCEPT ![w]["timer"] = r]
      BY <1>1, <1>2 DEF ApplyRenewal
    <3> HIDE DEF r, n
    <3> QED BY <2>0, <3>1
  <2>2. CASE run[w].pc = "exec"
    <3>1. run[w].op \in Ops
      BY <2>2 DEF NeedsOp
    <3>0. PICK o \in Ops : o = run[w].op
      BY <3>1
    <3>2. op'[run[w].op].left = n /\ Owned(run[w].op, w, run[w].generation)'
      <4>1. op' = [op EXCEPT ![o] = [op[o] EXCEPT !.left = n]]
        BY <1>1, <1>2, <3>0 DEF ApplyRenewal, RenewLease
      <4>2. Owned(o, w, run[w].generation)
        BY <1>2, <3>0
      <4> HIDE DEF n
      <4>3. /\ op'[o].left = n /\ op'[o].active = op[o].active
            /\ op'[o].status = op[o].status /\ op'[o].worker = op[o].worker
            /\ op'[o].generation = op[o].generation
        BY <4>1 DEF OperationRecord
      <4> QED BY <1>1, <3>0, <4>2, <4>3 DEF Owned
    <3>3. run[w].confirmed <= n
      BY <1>1, <2>2 DEF LeaseOf
    <3> HIDE DEF n
    <3>4. Covers(w, run[w].confirmed)' /\ Covers(w, renewal[w]["timer"].left)'
      BY <1>1, <2>0, <2>1, <3>2, <3>3 DEF Covers
    <3> QED BY <1>1, <2>1, <2>2, <3>3, <3>4 DEF LeaseOf
  <2>3. CASE run[w].pc # "exec"
    BY <1>1, <2>1, <2>3 DEF LeaseOf
  <2> QED BY <2>2, <2>3
<1>3. CASE ~Owned(run[w].op, w, run[w].generation)
  <2>1. /\ renewal'[w]["timer"].st = "refused"
        /\ renewal'[w]["assert"] = renewal[w]["assert"] /\ op' = op
    BY <1>1, <1>3 DEF ApplyRenewal, opVars
  <2>2. \A n : Covers(w, n) => Covers(w, n)'
    BY <1>1, <2>1 DEF Covers, Owned
  <2> QED BY <1>1, <2>1, <2>2 DEF LeaseOf
<1> QED BY <1>2, <1>3

LEMMA RenewalEndsLease ==
  ASSUME TypeInv, NEW w \in Workers, NEW s \in Slots, LeaseOf(w),
         RenewalAnswered(w, s) \/ RenewalFails(w, s)
  PROVE  LeaseOf(w)'
<1> USE Typed, RenewalTyped
<1>1. /\ s = "timer" /\ op' = op /\ Watched(w)
      /\ renewal'[w]["timer"].st = "free" /\ renewal'[w]["assert"] = renewal[w]["assert"]
  BY DEF RenewalAnswered, RenewalFails, LeaseOf, Slots, Free, opVars
<1>2. ASSUME run' = [run EXCEPT ![w].confirmed = renewal[w]["timer"].left],
             renewal[w]["timer"].st = "ok"
      PROVE  LeaseOf(w)'
  <2>1. /\ run'[w].op = run[w].op /\ run'[w].generation = run[w].generation
        /\ run'[w].pc = run[w].pc /\ run'[w].lost = run[w].lost
        /\ run'[w].confirmed = renewal[w]["timer"].left
    BY <1>2 DEF RunRecord
  <2>2. run[w].pc = "exec" => Covers(w, run[w].confirmed)'
    BY <1>1, <1>2, <2>1 DEF LeaseOf, Covers, Owned
  <2> QED BY <1>1, <2>1, <2>2 DEF LeaseOf, Watched
<1>3. CASE LoseLease(w)
  <2>1. run'[w].pc = run[w].pc /\ run'[w].lost
    BY <1>3 DEF LoseLease, RunRecord
  <2> QED BY <1>1, <2>1 DEF LeaseOf
<1>4. CASE run' = run
  <2>1. \A n : Covers(w, n) => Covers(w, n)'
    BY <1>1, <1>4 DEF Covers, Owned
  <2> QED BY <1>1, <1>4, <2>1 DEF LeaseOf
<1> QED BY <1>1, <1>2, <1>3, <1>4 DEF RenewalAnswered, RenewalFails

LEMMA TimersLease ==
  ASSUME TypeInv, NEW w \in Workers, LeaseOf(w),
         ConfirmedExpiryPasses(w) \/ DeadlinePasses(w) \/ StageRefused(w)
  PROVE  LeaseOf(w)'
<1> USE Typed, RenewalTyped
<1>1. renewal' = renewal /\ op' = op
  BY DEF ConfirmedExpiryPasses, DeadlinePasses, StageRefused, opVars
<1>2. /\ run'[w].op = run[w].op /\ run'[w].generation = run[w].generation
      /\ run'[w].pc = run[w].pc /\ (run'[w].lost \/ run'[w].lost = run[w].lost)
      /\ run'[w].confirmed = run[w].confirmed
  BY DEF ConfirmedExpiryPasses, DeadlinePasses, StageRefused, LoseLease, RunRecord
<1>3. \A n : Covers(w, n) => Covers(w, n)'
  BY <1>1, <1>2 DEF Covers, Owned
<1> QED BY <1>1, <1>2, <1>3 DEF LeaseOf

LEMMA EndsLease ==
  ASSUME TypeInv, NEW w \in Workers, LeaseOf(w),
         \/ \E r \in Results : ExecutorReturns(w, r)
         \/ Settle(w) \/ Finish(w) \/ FinishFails(w)
  PROVE  LeaseOf(w)'
<1> USE Typed, RenewalTyped
<1>1. renewal' = renewal
  BY DEF ExecutorReturns, Settle, Finish, FinishFails
<1>2. ASSUME NEW r \in Results, ExecutorReturns(w, r) PROVE LeaseOf(w)'
  <2>1. run'[w].pc = "settle"
    BY <1>2 DEF ExecutorReturns, RunRecord
  <2> QED BY <1>1, <2>1 DEF LeaseOf
<1>3. CASE Settle(w) \/ Finish(w) \/ FinishFails(w)
  <2>1. renewal[w]["timer"].st = "free"
    BY <1>3 DEF Settle, Finish, FinishFails, LeaseOf
  <2>2. run'[w].pc \in {"idle", "finish"}
    BY <1>3 DEF Settle, Finish, FinishFails, Abandon, Goto, Idle, RunRecord
  <2> QED BY <1>1, <2>1, <2>2, UnwatchedLease DEF LeaseOf
<1> QED BY <1>2, <1>3

LEMMA ExecutionLease ==
  ASSUME TypeInv, Callers \subseteq {"timer"}, NEW w \in Workers, ExecutionStep(w),
         \A v \in Workers : LeaseOf(v), NEW v \in Workers
  PROVE  LeaseOf(v)'
<1>1. CASE v # w
  <2>1. run'[v] = run[v] /\ renewal'[v] = renewal[v]
    BY <1>1, Typed, RenewalTyped
       DEF ExecutionStep, RenewTimer, AssertOwnership, SendRenewal, ApplyRenewal,
           RenewalAnswered, RenewalFails, ConfirmedExpiryPasses, DeadlinePasses, StageRefused,
           LoseLease, ExecutorReturns, Settle, Finish, FinishFails, Abandon, Goto
  <2>2. Spares(v)
    <3>1. CASE op' = op
      BY <3>1 DEF Spares
    <3>2. ASSUME NEW s \in Slots, ApplyRenewal(w, s) PROVE Spares(v)
      BY <1>1, <3>1, <3>2, SparedByOwner DEF ApplyRenewal, opVars
    <3>3. CASE Finish(w)
      BY <1>1, <3>1, <3>3, SparedByOwner DEF Finish, opVars
    <3> QED BY <3>1, <3>2, <3>3
            DEF ExecutionStep, RenewTimer, AssertOwnership, RenewalAnswered, RenewalFails,
                ConfirmedExpiryPasses, DeadlinePasses, StageRefused, ExecutorReturns, Settle,
                FinishFails, opVars
  <2> QED BY <2>1, <2>2, UndisturbedLease DEF Undisturbed
<1>2. CASE v = w
  <2>1. ~AssertOwnership(w)
    BY DEF AssertOwnership
  <2> QED BY <1>2, <2>1, RenewalSentLease, RenewalAppliedLease, RenewalEndsLease, TimersLease,
             EndsLease DEF ExecutionStep
<1> QED BY <1>1, <1>2

LEMMA ElapsedLess ==
  ASSUME NEW m \in Nat, NEW n \in Nat, m <= n
  PROVE  Elapse(m) \in Nat /\ Elapse(m) <= Elapse(n) /\ (Elapse(m) > 0 => m > 0)
BY DEF Elapse

LEMMA TimeLease ==
  ASSUME TypeInv, TimePasses, NEW v \in Workers, LeaseOf(v)
  PROVE  LeaseOf(v)'
<1> USE Typed, RenewalTyped
<1>1. /\ run'[v].op = run[v].op /\ run'[v].generation = run[v].generation
      /\ run'[v].pc = run[v].pc /\ run'[v].lost = run[v].lost
      /\ run'[v].confirmed = Elapse(run[v].confirmed)
  BY DEF TimePasses, RunRecord
<1>2. \A s \in Slots : /\ renewal'[v][s].st = renewal[v][s].st
                       /\ renewal'[v][s].left = Elapse(renewal[v][s].left)
  <2> SUFFICES ASSUME NEW s \in Slots
               PROVE  /\ renewal'[v][s].st = renewal[v][s].st
                      /\ renewal'[v][s].left = Elapse(renewal[v][s].left)
    OBVIOUS
  <2>1. renewal'[v][s] = [renewal[v][s] EXCEPT !.left = Elapse(@)]
    BY DEF TimePasses
  <2> QED BY <2>1 DEF RenewalRecord
<1>3. ASSUME NEW n \in 0..Lease, Covers(v, n), run[v].op \in Ops,
             NEW m, m = Elapse(n), m > 0
      PROVE  Owned(run[v].op, v, run[v].generation)' /\ op'[run[v].op].left >= m
  <2>0. PICK o \in Ops : o = run[v].op
    BY <1>3
  <2>1. n > 0 /\ op[o].left \in Nat /\ op[o].left >= n
    BY <1>3, <2>0, ElapsedLess DEF Covers, OperationRecord
  <2>2. /\ op'[o].left = Elapse(op[o].left) /\ op'[o].active = op[o].active
        /\ op'[o].status = op[o].status /\ op'[o].worker = op[o].worker
        /\ op'[o].generation = op[o].generation
    BY DEF TimePasses, LeasesElapse, OperationRecord
  <2>3. Owned(o, v, run[v].generation)'
    BY <1>1, <1>3, <2>0, <2>1, <2>2 DEF Covers, Owned
  <2>4. op'[o].left >= m
    BY <1>3, <2>1, <2>2, ElapsedLess
  <2> QED BY <1>1, <2>0, <2>3, <2>4
<1>4. run[v].pc \in {"claimed", "exec"} => run[v].op \in Ops
  BY DEF NeedsOp
<1>5. run[v].pc \in {"claimed", "exec"} /\ ~run[v].lost => Covers(v, run[v].confirmed)'
  BY <1>1, <1>3, <1>4 DEF LeaseOf, Covers
<1>6. run[v].pc = "exec" /\ renewal[v]["timer"].st = "ok"
        => Covers(v, renewal[v]["timer"].left)'
  BY <1>1, <1>2, <1>3, <1>4 DEF LeaseOf, Covers
<1>7. run[v].confirmed <= renewal[v]["timer"].left
        => run'[v].confirmed <= renewal'[v]["timer"].left
  BY <1>1, <1>2, ElapsedLess
<1> QED BY <1>1, <1>2, <1>5, <1>6, <1>7 DEF LeaseOf

LEMMA LeaseStep ==
  ASSUME TypeInv, LeaseInv, Callers \subseteq {"timer"}, [WNext]_wVars
  PROVE  LeaseInv'
<1>1. RecoveredIsFailed'
  BY StepCommands, RecoveredIsFailedStep DEF LeaseInv
<1>2. ASSUME NEW v \in Workers PROVE LeaseOf(v)'
  <2>1. ASSUME NEW w \in Workers, WorkerStep(w) PROVE LeaseOf(v)'
    BY <2>1, TickLease, ProcessLease, ExecutionLease DEF LeaseInv, WorkerStep
  <2>2. ASSUME UNCHANGED workerVars, Spares(v) PROVE LeaseOf(v)'
    BY <2>2, UndisturbedLease DEF LeaseInv, Undisturbed, workerVars
  <2>3. ASSUME NEW o \in Ops, EditCancels(o) \/ AdministratorUnlocks(o) \/ Arrive(o)
        PROVE  LeaseOf(v)'
    <3>1. Spares(v)
      BY <2>3, SparedByCommand DEF LeaseInv, EditCancels, AdministratorUnlocks, Arrive
    <3> QED BY <2>2, <2>3, <3>1 DEF EditCancels, AdministratorUnlocks, Arrive
  <2>4. CASE UNCHANGED wVars
    BY <2>2, <2>4 DEF wVars, opVars, Spares
  <2> QED BY <2>1, <2>3, <2>4, TimeLease DEF LeaseInv, WNext, CommonStep
<1> QED BY <1>1, <1>2 DEF LeaseInv

\* As long as renewals are sent one at a time, a worker that trusts its lease
\* still owns the record, and nobody may recover it.
THEOREM LeaseIsConfirmed ==
  ASSUME Callers \subseteq {"timer"}
  PROVE  WSpec => []ConfirmedLease
<1>1. WInit => LeaseInv
  BY DEF WInit, OperationsInit, WorkerInit, Absent, Idle, Free, Slots, LeaseInv, LeaseOf,
         RecoveredIsFailed
<1>2. TypeInv /\ LeaseInv /\ [WNext]_wVars => LeaseInv'
  BY LeaseStep
<1>3. LeaseInv => ConfirmedLease
  BY DEF LeaseInv, LeaseOf, Covers, ConfirmedLease
<1> QED BY <1>1, <1>2, <1>3, Invariants, PTL DEF WSpec
=============================================================================
