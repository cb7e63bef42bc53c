------------------------------ MODULE AppsQueue ------------------------------
(***************************************************************************)
(* The Apps module as a whole: clients enqueue operations (the mutation    *)
(* routes and the auto-update scheduler, both through enqueueAppOperation),*)
(* worker processes execute them, an edit of an app may cancel what is     *)
(* queued, and an administrator may unlock an operation by hand.           *)
(***************************************************************************)
EXTENDS AppsWorker

CONSTANT Clients      \* requests; each may be sent again by its client

VARIABLE request

vars == <<wVars, request>>

RequestRecord ==
  [pc : {"new", "lookup", "ready", "create", "accepted", "refused"},
   app : Apps \cup {None}, key : Keys \cup {None}, op : Ops \cup {None}]

TypeOK ==
  /\ OperationsTypeOK
  /\ WorkerTypeOK
  /\ request \in [Clients -> RequestRecord]

Init ==
  /\ OperationsInit
  /\ WorkerInit
  /\ request = [c \in Clients |-> [pc |-> "new", app |-> None, key |-> None, op |-> None]]

-----------------------------------------------------------------------------
Submit(c) ==
  /\ request[c].pc = "new"
  /\ \E a \in Apps, k \in Keys \cup {None} :
       request' = [request EXCEPT ![c].pc = "lookup", ![c].app = a, ![c].key = k]
  /\ UNCHANGED wVars

Answer(c, pc, o) == request' = [request EXCEPT ![c].pc = pc, ![c].op = o]

LookupKey(c) ==
  /\ request[c].pc = "lookup"
  /\ \/ \E o \in Ops : /\ FoundByKey(o, request[c].app, request[c].key)
                       /\ Answer(c, "accepted", o)
     \/ /\ \A o \in Ops : ~FoundByKey(o, request[c].app, request[c].key)
        /\ Answer(c, "ready", None)
  /\ UNCHANGED wVars

\* getAppsWorkerAvailability looks at the newest heartbeat only, and wants
\* it fresh; any running heartbeat may be that one, or none.
CheckWorker(c) ==
  /\ request[c].pc = "ready"
  /\ \/ \E w \in Workers : heartbeat[w] = "running" /\ Answer(c, "create", None)
     \/ Answer(c, "refused", None)
  /\ UNCHANGED wVars

\* The record is inserted; its event append may fail then, and the client
\* sees an error although the operation is queued.
CreateQueued(c, o) ==
  /\ request[c].pc = "create"
  /\ CreateOperation(o, request[c].app, request[c].key)
  /\ \/ Answer(c, "accepted", o)
     \/ Answer(c, "refused", None)
  /\ UNCHANGED <<workerVars>>

\* A duplicate key error: the operation of the same key if there is one,
\* otherwise ActiveAppOperationError.
CreateDuplicate(c) ==
  /\ request[c].pc = "create"
  /\ ~(ActiveIndexFree(request[c].app) /\ KeyIndexFree(request[c].app, request[c].key))
  /\ \/ \E o \in Ops : /\ FoundByKey(o, request[c].app, request[c].key)
                       /\ Answer(c, "accepted", o)
     \/ /\ \A o \in Ops : ~FoundByKey(o, request[c].app, request[c].key)
        /\ Answer(c, "refused", None)
  /\ UNCHANGED wVars

Resend(c) ==
  /\ request[c].pc = "refused"
  /\ Answer(c, "lookup", None)
  /\ UNCHANGED wVars

ClientStep(c) ==
  \/ Submit(c) \/ LookupKey(c) \/ CheckWorker(c)
  \/ (\E o \in Ops : CreateQueued(c, o)) \/ CreateDuplicate(c) \/ Resend(c)

-----------------------------------------------------------------------------
Next ==
  \/ CommonStep /\ UNCHANGED request
  \/ \E c \in Clients : ClientStep(c)

Spec == Init /\ [][Next]_vars

-----------------------------------------------------------------------------
\* Resending a request with its key, after an error or concurrently, never
\* yields a second operation, and each answer names the operation of its key.
OneOperationPerKey ==
  /\ \A o, p \in Ops : op[o].key # None /\ op[o].key = op[p].key
                       /\ op[o].app = op[p].app => o = p
  /\ \A c \in Clients : request[c].pc = "accepted" =>
       /\ op[request[c].op].app = request[c].app
       /\ op[request[c].op].key = request[c].key
=============================================================================
