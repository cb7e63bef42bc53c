---------------------------- MODULE AppsQueueProofs ----------------------------
(***************************************************************************)
(* Proofs about the Apps module as a whole.  AppsQueue is AppsWorker with  *)
(* the clients' side of the arrival of operations added (QueueImplements-  *)
(* Workers), so everything proved of the workers holds of it; what clients *)
(* see is proved here.                                                     *)
(***************************************************************************)
EXTENDS AppsQueue, AppsWorkerProofs

\* A request names an app once it has been submitted, and an operation of
\* Ops once it has been accepted.
RequestInv ==
  \A c \in Clients :
    /\ request[c].pc # "new" => request[c].app \in Apps
    /\ request[c].pc = "accepted" => request[c].op \in Ops

ClientInv == request \in [Clients -> RequestRecord] /\ RequestInv

LEMMA InitClients == Init => ClientInv
<1> SUFFICES ASSUME Init PROVE ClientInv
  OBVIOUS
<1> DEFINE r == [pc |-> "new", app |-> None, key |-> None, op |-> None]
<1>1. r \in RequestRecord
  BY Zenon DEF RequestRecord
<1>2. request = [c \in Clients |-> r]
  BY DEF Init
<1>3. r.pc = "new"
  OBVIOUS
<1> HIDE DEF r
<1> QED BY <1>1, <1>2, <1>3 DEF ClientInv, RequestInv

LEMMA AnswerTypes ==
  ASSUME ClientInv, NEW c \in Clients, NEW o \in Ops \cup {None},
         NEW pc \in {"lookup", "ready", "create", "accepted", "refused"},
         request[c].pc # "new", pc = "accepted" => o \in Ops, Answer(c, pc, o)
  PROVE  ClientInv'
<1> DEFINE r == [request[c] EXCEPT !.pc = pc, !.op = o]
<1>1. r \in RequestRecord
  BY Zenon DEF ClientInv, RequestRecord
<1>2. /\ request' = [request EXCEPT ![c] = r]
      /\ r.app \in Apps
      /\ r.pc = "accepted" => r.op \in Ops
  BY DEF Answer, ClientInv, RequestInv, RequestRecord
<1> HIDE DEF r
<1> QED BY <1>1, <1>2 DEF ClientInv, RequestInv

LEMMA SubmitTypes ==
  ASSUME ClientInv, NEW c \in Clients, NEW a \in Apps, NEW k \in Keys \cup {None},
         request' = [request EXCEPT ![c].pc = "lookup", ![c].app = a, ![c].key = k]
  PROVE  ClientInv'
<1> DEFINE r == [request[c] EXCEPT !.pc = "lookup", !.app = a, !.key = k]
<1>1. r \in RequestRecord
  BY Zenon DEF ClientInv, RequestRecord
<1>2. request' = [request EXCEPT ![c] = r] /\ r.app \in Apps /\ r.pc = "lookup"
  BY DEF ClientInv, RequestRecord
<1> HIDE DEF r
<1> QED BY <1>1, <1>2 DEF ClientInv, RequestInv

LEMMA ClientStepTypes ==
  ASSUME ClientInv, [Next]_vars
  PROVE  ClientInv'
<1>1. CASE UNCHANGED request
  BY <1>1 DEF ClientInv, RequestInv
<1>2. ASSUME NEW c \in Clients, Submit(c) PROVE ClientInv'
  BY <1>2, SubmitTypes DEF Submit
<1>3. ASSUME NEW c \in Clients, LookupKey(c) \/ CheckWorker(c) \/ Resend(c) PROVE ClientInv'
  BY <1>3, AnswerTypes DEF LookupKey, CheckWorker, Resend
<1>4. ASSUME NEW c \in Clients,
             CreateDuplicate(c) \/ \E o \in Ops : CreateQueued(c, o)
      PROVE  ClientInv'
  BY <1>4, AnswerTypes DEF CreateDuplicate, CreateQueued
<1> QED BY <1>1, <1>2, <1>3, <1>4 DEF Next, ClientStep, vars

LEMMA ClientsTyped == Spec => []ClientInv
<1> QED BY InitClients, ClientStepTypes, PTL DEF Spec

-----------------------------------------------------------------------------
(* Seen from the workers, a client's step is the arrival of an operation   *)
(* or nothing.                                                             *)

LEMMA QueueSteps ==
  ASSUME ClientInv, [Next]_vars
  PROVE  [WNext]_wVars
<1>1. ASSUME NEW c \in Clients, NEW o \in Ops, CreateQueued(c, o) PROVE WNext
  <2>1. request[c].app \in Apps /\ request[c].key \in Keys \cup {None}
    BY <1>1 DEF CreateQueued, ClientInv, RequestInv, RequestRecord
  <2> QED BY <1>1, <2>1 DEF CreateQueued, Arrive, WNext
<1>2. ASSUME NEW c \in Clients,
             Submit(c) \/ LookupKey(c) \/ CheckWorker(c) \/ CreateDuplicate(c) \/ Resend(c)
      PROVE  UNCHANGED wVars
  BY <1>2 DEF Submit, LookupKey, CheckWorker, CreateDuplicate, Resend
<1>3. CASE CommonStep
  BY <1>3 DEF WNext
<1>4. CASE UNCHANGED vars
  BY <1>4 DEF vars
<1> QED BY <1>1, <1>2, <1>3, <1>4 DEF Next, ClientStep

\* The whole module implements its workers.
THEOREM QueueImplementsWorkers == Spec => WSpec
<1>1. Init => WInit
  BY DEF Init, WInit
<1> QED BY <1>1, ClientsTyped, QueueSteps, PTL DEF Spec, WSpec

\* Every state of the module is well typed.
THEOREM QueueTypeCorrect == Spec => []TypeOK
<1>1. WTypeOK /\ ClientInv => TypeOK
  BY DEF WTypeOK, ClientInv, TypeOK
<1> QED BY <1>1, ClientsTyped, QueueImplementsWorkers, TypeCorrect, PTL

\* Commands on the host exclude each other with clients present, too.
THEOREM QueueHostIsExclusive == Spec => []HostExclusive
  BY QueueImplementsWorkers, HostIsExclusive, PTL

-----------------------------------------------------------------------------
(* One operation for each idempotency key.                                 *)

KeyUnique ==
  \A o, p \in Ops : op[o].key # None /\ op[o].key = op[p].key /\ op[o].app = op[p].app
                    => o = p

AbsentBlank ==
  \A o \in Ops : op[o].status = "absent" => op[o].app = None /\ op[o].key = None

AcceptedNamed ==
  \A c \in Clients : request[c].pc = "accepted" =>
    op[request[c].op].app = request[c].app /\ op[request[c].op].key = request[c].key

KeyInv == KeyUnique /\ AbsentBlank

\* What a command does to the identity of the operations.
KeepsNames ==
  \A o \in Ops : /\ op'[o].app = op[o].app /\ op'[o].key = op[o].key
                 /\ op'[o].status = "absent" => op[o].status = "absent"

LEMMA CommandNames ==
  ASSUME TypeInv, Commanded
  PROVE  \/ KeepsNames
         \/ \E o \in Ops, a \in Apps, k \in Keys \cup {None} : CreateOperation(o, a, k)
<1> USE Typed DEF KeepsNames, OperationRecord
<1>1. CASE LeasesElapse
  BY <1>1 DEF LeasesElapse
<1>2. ASSUME NEW o \in Ops, NEW w \in Workers, NEW n \in 0..Lease, ClaimOperation(o, w, n)
      PROVE  KeepsNames
  BY <1>2 DEF ClaimOperation
<1>3. ASSUME NEW o \in Ops, NEW n \in 0..Lease, RenewLease(o, n) PROVE KeepsNames
  BY <1>3 DEF RenewLease
<1>4. ASSUME NEW o \in Ops, NEW r \in Results, FinishOperation(o, r) PROVE KeepsNames
  <2>1. r # "absent"
    BY ResultsAssumption DEF Terminal
  <2> QED BY <1>4, <2>1 DEF FinishOperation
<1>5. ASSUME NEW o \in Ops, FailExpired(o) PROVE KeepsNames
  BY <1>5 DEF FailExpired
<1>6. ASSUME NEW o \in Ops, ReleaseInterrupted(o) PROVE KeepsNames
  BY <1>6 DEF ReleaseInterrupted
<1>7. ASSUME NEW o \in Ops, CancelQueued(o) \/ UnlockByHand(o) PROVE KeepsNames
  BY <1>7 DEF CancelQueued, UnlockByHand
<1> QED BY <1>1, <1>2, <1>3, <1>4, <1>5, <1>6, <1>7 DEF Commanded, opVars

LEMMA CreateNames ==
  ASSUME TypeInv, NEW o \in Ops, NEW a \in Apps, NEW k \in Keys \cup {None},
         CreateOperation(o, a, k)
  PROVE  /\ op'[o].app = a /\ op'[o].key = k /\ op'[o].status = "queued"
         /\ \A p \in Ops : p # o => op'[p] = op[p]
         /\ op[o].status = "absent" /\ KeyIndexFree(a, k)
  BY Typed DEF CreateOperation, Absent

LEMMA KeyInvStep ==
  ASSUME TypeInv, KeyInv, [WNext]_wVars
  PROVE  KeyInv'
<1>1. CASE KeepsNames
  BY <1>1 DEF KeepsNames, KeyInv, KeyUnique, AbsentBlank
<1>2. ASSUME NEW o \in Ops, NEW a \in Apps, NEW k \in Keys \cup {None}, CreateOperation(o, a, k)
      PROVE  KeyInv'
  BY <1>2, CreateNames DEF KeyInv, KeyUnique, AbsentBlank, KeyIndexFree
<1> QED BY <1>1, <1>2, StepCommands, CommandNames

LEMMA KeyInvInit == WInit => KeyInv
<1> SUFFICES ASSUME WInit PROVE KeyInv
  OBVIOUS
<1>1. \A o \in Ops : op[o].app = None /\ op[o].key = None
  BY DEF WInit, OperationsInit, Absent
<1> QED BY <1>1 DEF KeyInv, KeyUnique, AbsentBlank

\* An accepted request keeps the operation it was answered with, and that
\* operation keeps its name.
LEMMA AcceptedStep ==
  ASSUME TypeInv, KeyInv, ClientInv, AcceptedNamed, [Next]_vars
  PROVE  AcceptedNamed'
<1> USE NoneAssumption
<1>0. \/ KeepsNames
      \/ \E o \in Ops, a \in Apps, k \in Keys \cup {None} : CreateOperation(o, a, k)
  BY QueueSteps, StepCommands, CommandNames
<1>1. \A o \in Ops : op[o].app \in Apps => op'[o].app = op[o].app /\ op'[o].key = op[o].key
  BY <1>0, CreateNames DEF KeepsNames, KeyInv, AbsentBlank
<1>2. ASSUME NEW c \in Clients, request'[c].pc = "accepted", request'[c] = request[c]
      PROVE  /\ op'[request'[c].op].app = request'[c].app
             /\ op'[request'[c].op].key = request'[c].key
  BY <1>1, <1>2 DEF AcceptedNamed, ClientInv, RequestInv
<1>3. ASSUME NEW c \in Clients, request'[c].pc = "accepted", request'[c] # request[c]
      PROVE  /\ op'[request'[c].op].app = request'[c].app
             /\ op'[request'[c].op].key = request'[c].key
  <2>1. ASSUME NEW o \in Ops, FoundByKey(o, request[c].app, request[c].key),
               Answer(c, "accepted", o), UNCHANGED wVars
        PROVE  /\ op'[request'[c].op].app = request'[c].app
               /\ op'[request'[c].op].key = request'[c].key
    BY <2>1 DEF FoundByKey, Answer, wVars, opVars, ClientInv, RequestRecord
  <2>2. ASSUME NEW o \in Ops, CreateQueued(c, o)
        PROVE  /\ op'[request'[c].op].app = request'[c].app
               /\ op'[request'[c].op].key = request'[c].key
    <3>1. /\ request'[c].app = request[c].app /\ request'[c].key = request[c].key
          /\ request'[c].op = o
          /\ request[c].app \in Apps /\ request[c].key \in Keys \cup {None}
      BY <1>3, <2>2 DEF CreateQueued, Answer, ClientInv, RequestInv, RequestRecord
    <3> QED BY <2>2, <3>1, CreateNames DEF CreateQueued
  <2>3. CASE LookupKey(c) \/ CreateDuplicate(c)
    BY <1>3, <2>1, <2>3 DEF LookupKey, CreateDuplicate, Answer, ClientInv, RequestRecord
  <2>4. ~(Submit(c) \/ CheckWorker(c) \/ Resend(c))
    <3>1. ASSUME NEW pc, NEW o, Answer(c, pc, o) PROVE request'[c].pc = pc
      BY <3>1 DEF Answer, ClientInv, RequestRecord
    <3>2. ~CheckWorker(c) /\ ~Resend(c)
      BY <1>3, <3>1 DEF CheckWorker, Resend
    <3>3. ASSUME NEW a, NEW k,
                 request' = [request EXCEPT ![c].pc = "lookup", ![c].app = a, ![c].key = k]
          PROVE  request'[c].pc = "lookup"
      BY <3>3 DEF ClientInv, RequestRecord
    <3>4. ~Submit(c)
      BY <1>3, <3>3 DEF Submit
    <3> QED BY <3>2, <3>4
  <2>5. ASSUME NEW d \in Clients, d # c, ClientStep(d)
        PROVE  request'[c] = request[c]
    BY <2>5 DEF ClientStep, Submit, LookupKey, CheckWorker, CreateQueued, CreateDuplicate,
                Resend, Answer, ClientInv
  <2> QED BY <1>3, <2>2, <2>3, <2>4, <2>5 DEF Next, ClientStep, vars
<1> QED BY <1>2, <1>3 DEF AcceptedNamed

\* Resending a request never yields a second operation.
THEOREM OnePerKey == Spec => []OneOperationPerKey
<1>1. Init => AcceptedNamed
  <2> SUFFICES ASSUME Init, NEW c \in Clients PROVE request[c].pc = "new"
    BY DEF AcceptedNamed
  <2> QED BY DEF Init
<1>2. WSpec => []KeyInv
  BY KeyInvInit, KeyInvStep, Invariants, PTL DEF WSpec
<1>3. KeyInv /\ AcceptedNamed => OneOperationPerKey
  BY DEF KeyInv, KeyUnique, AcceptedNamed, OneOperationPerKey
<1> QED BY <1>1, <1>2, <1>3, AcceptedStep, ClientsTyped, QueueImplementsWorkers, Invariants,
           PTL DEF Spec
=============================================================================
