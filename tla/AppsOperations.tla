---------------------------- MODULE AppsOperations ----------------------------
(***************************************************************************)
(* The durable operation queue of the Apps module: the appoperations       *)
(* collection and the commands its repository sends to MongoDB.  Each      *)
(* command is one atomic document update, so each is one operator here     *)
(* that constrains op' (and created').  Who sends which command, and what  *)
(* happens between two of them, is in AppsWorker and AppsQueue.            *)
(*                                                                         *)
(* Time.  A lease is stored as an absolute instant, lease.expiresAt, and   *)
(* compared with now().  What any guard tells apart is only how long is    *)
(* left, expiresAt - now, and "nothing left" is final until a renewal, so  *)
(* `left' holds that remainder, counts down to 0 and stays there.  It      *)
(* keeps the model finite without a bound on the length of a run.          *)
(***************************************************************************)
EXTENDS Naturals, Sequences

CONSTANTS
  Ops,        \* operation ids; one never handed out yet is "absent"
  Apps,       \* managed apps
  Keys,       \* idempotency keys clients send
  Workers,    \* worker process instances, each with its own workerId
  Lease,      \* APPS_OPERATION_LEASE_MS, in ticks of the model's clock
  None        \* no key, no worker, no operation

ASSUME LeaseAssumption == Lease \in Nat \ {0}
ASSUME NoneAssumption == None \notin Ops \cup Apps \cup Keys \cup Workers

VARIABLES
  op,         \* the operation records, by operationId
  created     \* operation ids in the order of (createdAt, _id)

opVars == <<op, created>>

InFlight == {"running", "cancel_requested"}
Terminal == {"succeeded", "failed", "cancelled", "unchanged"}
Codes == {"none", "RECOVERY_REQUIRED", "WORKER_INTERRUPTED"}

OperationRecord ==
  [app : Apps \cup {None}, key : Keys \cup {None},
   status : {"absent", "queued"} \cup InFlight \cup Terminal,
   active : BOOLEAN, worker : Workers \cup {None}, generation : Nat,
   left : 0..Lease, code : Codes]

Absent ==
  [app |-> None, key |-> None, status |-> "absent", active |-> FALSE,
   worker |-> None, generation |-> 0, left |-> 0, code |-> "none"]

OperationsTypeOK ==
  /\ op \in [Ops -> OperationRecord]
  /\ created \in Seq(Ops)

OperationsInit ==
  /\ op = [o \in Ops |-> Absent]
  /\ created = <<>>

-----------------------------------------------------------------------------
(* createAppOperationRecord and its two unique partial indexes.            *)

\* { appId, active } is unique among the records with active: true.
ActiveIndexFree(a) == \A p \in Ops : op[p].active => op[p].app # a

\* Mutant: the idempotency index is not unique.
KeyIndexNotUnique(a, k) == TRUE

\* { appId, idempotencyKey } is unique among the records that have a key.
KeyIndexFree(a, k) == \A p \in Ops : op[p].key # None => <<op[p].app, op[p].key>> # <<a, k>>

FoundByKey(o, a, k) == k # None /\ op[o].app = a /\ op[o].key = k

CreateOperation(o, a, k) ==
  /\ op[o].status = "absent"
  /\ ActiveIndexFree(a)
  /\ KeyIndexFree(a, k)
  /\ op' = [op EXCEPT ![o] = [Absent EXCEPT !.app = a, !.key = k,
                                            !.status = "queued", !.active = TRUE]]
  /\ created' = Append(created, o)

-----------------------------------------------------------------------------
(* Claim, renew, finish.                                                   *)

Queued(o) == op[o].status = "queued" /\ op[o].active

\* Mutant: only the head of the creation order is ever looked at.
HeadOfQueue(o) == created # <<>> /\ created[1] = o /\ Queued(o)

OldestQueued(o) ==
  \E i \in DOMAIN created :
    /\ created[i] = o
    /\ Queued(o)
    /\ \A j \in 1..(i - 1) : ~Queued(created[j])

ClaimOperation(o, w, remaining) ==
  /\ OldestQueued(o)
  /\ op' = [op EXCEPT ![o].status = "running", ![o].worker = w,
                      ![o].generation = @ + 1, ![o].left = remaining]
  /\ UNCHANGED created

\* Mutant: the fence forgets the status.
OwnedWhateverStatus(o, w, g) ==
  op[o].active /\ op[o].worker = w /\ op[o].generation = g

\* The fence shared by renewal, stage reports and the terminal write.
Owned(o, w, g) ==
  /\ op[o].active
  /\ op[o].status \in InFlight
  /\ op[o].worker = w
  /\ op[o].generation = g

RenewLease(o, remaining) ==
  /\ op' = [op EXCEPT ![o].left = remaining]
  /\ UNCHANGED created

FinishOperation(o, result) ==
  /\ op' = [op EXCEPT ![o].status = result, ![o].active = FALSE]
  /\ UNCHANGED created

-----------------------------------------------------------------------------
(* recoverExpiredAppOperationRecord: two separate document updates.        *)

\* Mutant: the filter on the worker is inverted.
ExpiredOfMine(o, w) ==
  /\ op[o].active
  /\ op[o].status \in InFlight
  /\ op[o].worker = w
  /\ op[o].code # "RECOVERY_REQUIRED"
  /\ op[o].left = 0

Expired(o, w) ==
  /\ op[o].active
  /\ op[o].status \in InFlight
  /\ op[o].worker # w
  /\ op[o].code # "RECOVERY_REQUIRED"
  /\ op[o].left = 0

\* Mutant: the lock is released at once, as for any other failure.
FailAndRelease(o) ==
  /\ op' = [op EXCEPT ![o].status = "failed", ![o].active = FALSE,
                      ![o].code = "WORKER_INTERRUPTED"]
  /\ UNCHANGED created

\* Mutant: an interrupted operation goes back to the queue.
RequeueExpired(o) ==
  /\ op' = [op EXCEPT ![o].status = "queued", ![o].worker = None]
  /\ UNCHANGED created

FailExpired(o) ==
  /\ op' = [op EXCEPT ![o].status = "failed", ![o].active = TRUE,
                      ![o].code = "RECOVERY_REQUIRED"]
  /\ UNCHANGED created

ReleaseInterrupted(o) ==
  /\ op' = IF op[o].active /\ op[o].code = "RECOVERY_REQUIRED"
           THEN [op EXCEPT ![o].active = FALSE, ![o].code = "WORKER_INTERRUPTED"]
           ELSE op
  /\ UNCHANGED created

-----------------------------------------------------------------------------
(* Updates sent by other parts of the program, and by people.              *)

\* updateManagedApp, after a save that changed the schedule.  It cancels the
\* operations whose trigger is 'auto'; the trigger is left out of the record,
\* so any queued operation may be one of them.
CancelQueued(o) ==
  /\ Queued(o)
  /\ op' = [op EXCEPT ![o].status = "cancelled", ![o].active = FALSE]
  /\ UNCHANGED created

\* The mongosh command of docs/apps-auto-update.md.
UnlockByHand(o) ==
  /\ op[o].active
  /\ op[o].code = "RECOVERY_REQUIRED"
  /\ op' = [op EXCEPT ![o].active = FALSE]
  /\ UNCHANGED created

-----------------------------------------------------------------------------
Elapse(n) == IF n = 0 THEN 0 ELSE n - 1

LeasesElapse ==
  /\ op' = [o \in Ops |-> [op[o] EXCEPT !.left = Elapse(@)]]
  /\ UNCHANGED created
=============================================================================
