--------------------------- MODULE AIRunnerAutoflow ---------------------------
(***************************************************************************)
(* An AutoFlow over the queue of AIRunnerJobs: advanceAutoflows, which the *)
(* supervisor runs in every tick between reconciliation and dispatch.  It  *)
(* reads the flow, follows the runs of its items, queues the next ones     *)
(* (each a run and a job of its own) and saves the flow at the end.        *)
(***************************************************************************)
EXTENDS AIRunnerJobs

CONSTANT Length  \* number of items

ASSUME LengthAssumption == Length \in Nat \ {0}

VARIABLES
  flow,  \* the AIRunnerAutoflow document
  draft  \* the copy each supervisor works on: unread, in memory, or saved

flowVars == <<vars, flow, draft>>

Items == 1..Length
ItemActive == {"queued", "running"}
ItemEnded == {"completed", "failed", "skipped", "canceled"}

ItemRecord == [status : {"pending"} \cup ItemActive \cup ItemEnded, job : Jobs \cup {None}]

FlowTypeOK ==
  /\ TypeOK
  /\ flow \in [status : {"running", "completed", "failed"}, sequential : BOOLEAN,
               goesOn : BOOLEAN, items : [Items -> ItemRecord]]
  /\ draft \in [Supervisors -> [st : {"unread", "open", "saved"}, queue : SUBSET Items,
                                items : [Items -> ItemRecord]]]

Pending == [i \in Items |-> [status |-> "pending", job |-> None]]
Unread == [st |-> "unread", queue |-> {}, items |-> Pending]

FlowInit ==
  /\ Init
  /\ \E sequential, goesOn \in BOOLEAN :
       flow = [status |-> "running", sequential |-> sequential, goesOn |-> goesOn,
               items |-> Pending]
  /\ draft = [s \in Supervisors |-> Unread]

-----------------------------------------------------------------------------
\* Mutant: taken as it is.
RawStatus(j) == run[j]

\* An item takes the status of its run.
StatusOfRun(j) ==
  CASE run[j] \in {"queued", "retrying"} -> "queued"
    [] run[j] \in {"running", "completed"} -> run[j]
    [] run[j] = "killed" -> "canceled"
    [] run[j] \in {"failed", "timeout"} -> "failed"

\* Mutant: a run that waits for its next attempt counts as failed.
RetryIsFailure(items) ==
  [i \in Items |->
     IF items[i].status \in ItemActive
     THEN [items[i] EXCEPT !.status = IF run[items[i].job] = "retrying" THEN "failed"
                                      ELSE StatusOfRun(items[i].job)]
     ELSE items[i]]

\* Mutant: an item whose run is still queued is not looked at.
FollowsRunning(items) ==
  [i \in Items |->
     IF items[i].status = "running"
     THEN [items[i] EXCEPT !.status = StatusOfRun(items[i].job)] ELSE items[i]]

Followed(items) ==
  [i \in Items |->
     IF items[i].status \in ItemActive
     THEN [items[i] EXCEPT !.status = StatusOfRun(items[i].job)] ELSE items[i]]

With(items, st) == {i \in Items : items[i].status \in st}

First(S) == {i \in S : \A k \in S : i <= k}

\* Mutant: what a failed flow has not started stays pending.
LeavesPending(items) == items

Skipped(items) ==
  [i \in Items |-> IF items[i].status = "pending"
                   THEN [items[i] EXCEPT !.status = "skipped"] ELSE items[i]]

CanAdvance(s) ==
  /\ supervisor[s].pc = "reconcile"
  /\ supervisor[s].stale = {}
  /\ draft[s].st = "unread"

\* One pass over the flow, up to what it queues: the flow ends, or its items
\* wait for their runs, or some are to be queued.
Advance(s) ==
  LET items == Followed(flow.items)
      failed == With(items, {"failed"}) # {}
      pending == With(items, {"pending"})
      active == With(items, ItemActive)
      save(status, saved) ==
        /\ flow' = [flow EXCEPT !.status = status, !.items = saved]
        /\ draft' = [draft EXCEPT ![s].st = "saved"]
  IN
  /\ CanAdvance(s)
  /\ flow.status = "running"
  /\ CASE failed /\ ~flow.goesOn -> save("failed", Skipped(items))
       [] ~(failed /\ ~flow.goesOn) /\ pending \cup active = {} ->
            save(IF failed THEN "failed" ELSE "completed", items)
       [] ~(failed /\ ~flow.goesOn) /\ active # {} /\ (flow.sequential \/ pending = {}) ->
            save("running", items)
       [] OTHER ->
            /\ flow' = flow
            /\ draft' = [draft EXCEPT ![s] =
                 [st |-> "open", items |-> items,
                  queue |-> IF flow.sequential THEN First(pending) ELSE pending]]
  /\ UNCHANGED vars

NothingToAdvance(s) ==
  /\ CanAdvance(s)
  /\ flow.status # "running"
  /\ draft' = [draft EXCEPT ![s].st = "saved"]
  /\ UNCHANGED <<vars, flow>>

\* The jobs are numbered: a new document is the next one.
NextJob == First({j \in Jobs : job[j].status = "absent"})

QueueItem(s) ==
  /\ \E i \in First(draft[s].queue), j \in NextJob :
       /\ Enqueue(j)
       /\ draft' = [draft EXCEPT ![s].queue = @ \ {i},
                                 ![s].items[i] = [status |-> "queued", job |-> j]]
  /\ UNCHANGED flow

\* The profile is locked: the run is born skipped and has no job.
SkipItem(s) ==
  /\ \E i \in First(draft[s].queue) :
       draft' = [draft EXCEPT ![s].queue = @ \ {i}, ![s].items[i].status = "skipped"]
  /\ UNCHANGED <<vars, flow>>

QueueFails(s) ==
  /\ \E i \in First(draft[s].queue) :
       draft' = [draft EXCEPT ![s].queue = IF flow.goesOn THEN @ \ {i} ELSE {},
                              ![s].items[i].status = "failed"]
  /\ UNCHANGED <<vars, flow>>

SaveFlow(s) ==
  /\ draft[s].st = "open"
  /\ draft[s].queue = {}
  /\ flow' = [flow EXCEPT !.items = draft[s].items]
  /\ draft' = [draft EXCEPT ![s] = [Unread EXCEPT !.st = "saved"]]
  /\ UNCHANGED vars

\* The rest of the tick, and everybody else.  A crash loses the copy.
DispatchAfterFlows(s) ==
  /\ draft[s].st = "saved"
  /\ BeginDispatch(s)
  /\ draft' = [draft EXCEPT ![s] = Unread]
  /\ UNCHANGED flow

Elsewhere ==
  /\ Step
  /\ draft' = [s \in Supervisors |-> IF supervisor'[s].pc = "off" THEN Unread ELSE draft[s]]
  /\ UNCHANGED flow

FlowNext ==
  \/ \E s \in Supervisors :
       \/ Advance(s) \/ NothingToAdvance(s)
       \/ QueueItem(s) \/ SkipItem(s) \/ QueueFails(s) \/ SaveFlow(s)
       \/ DispatchAfterFlows(s)
  \/ Elsewhere

FlowSpec == FlowInit /\ [][FlowNext]_flowVars

FlowFairness ==
  /\ StepFairness
  /\ \A s \in Supervisors :
       /\ WF_flowVars(Advance(s) \/ NothingToAdvance(s) \/ SaveFlow(s))
       /\ WF_flowVars(QueueItem(s)) /\ WF_flowVars(DispatchAfterFlows(s))

FlowFairSpec == FlowSpec /\ FlowFairness

-----------------------------------------------------------------------------
\* Sequential mode: a step is started only when the runs of the steps before it
\* are over, and over for good.
StepsInOrder ==
  flow.sequential =>
    \A i, k \in Items :
      i < k /\ flow.items[k].status # "pending" =>
        LET j == flow.items[i].job IN j # None /\ LeftAlone(j) => run[j] \in RunEnded

\* A flow ends with every item ended, completed only if none failed; an item
\* ends as its run did, whose outcome does not change afterwards.
VerdictOfItems ==
  /\ flow.status = "completed" => With(flow.items, ItemEnded \ {"failed"}) = Items
  /\ flow.status = "failed" =>
       With(flow.items, {"failed"}) # {} /\ With(flow.items, {"pending"}) = {}
  /\ \A i \in Items :
       LET j == flow.items[i].job IN
       j # None /\ LeftAlone(j) /\ flow.items[i].status \in ItemEnded =>
         flow.items[i].status = StatusOfRun(j)

\* Every flow ends, whatever becomes of its steps.
FlowEnds == <>(flow.status # "running")
=============================================================================
