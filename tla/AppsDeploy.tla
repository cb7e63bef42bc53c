------------------------------ MODULE AppsDeploy ------------------------------
(***************************************************************************)
(* What the Apps worker does on the host for one git app: deployments,     *)
(* updates, rollbacks and the deletion of the app, one operation at a time *)
(* (the queue's lock, module AppsWorker).  A step ends where the code can  *)
(* be interrupted: by a crash of the worker, by the loss of its lease, by  *)
(* the timeout of an update, or by a command that fails.                   *)
(*                                                                         *)
(* The unit file and the nginx site are written from the app's             *)
(* configuration and are the same for every release: what differs is the   *)
(* link `current`, the release directories and what the service runs.      *)
(***************************************************************************)
EXTENDS Integers, FiniteSets

CONSTANTS
  MaxReleases,  \* bound: release directories the operations create
  MaxCommits,   \* bound: commits pushed to the app's branch
  MaxFaults,    \* bound: crashes, lost leases, timeouts and respawns
  None

ASSUME DeployBounds ==
  /\ MaxReleases \in Nat /\ MaxCommits \in Nat \ {0} /\ MaxFaults \in Nat
  /\ None \notin 1 .. MaxReleases /\ None \notin 1 .. MaxCommits

VARIABLES
  remote,   \* the commit at the head of the branch
  host,     \* the app on the host: its link, its releases, its service
  app,      \* the ManagedApp document
  exec,     \* the operation the worker executes
  faults,   \* faults so far
  passed    \* history: releases that passed a health check

dVars == <<remote, host, app, exec, faults, passed>>

Releases == 1 .. MaxReleases
Commits == 1 .. MaxCommits
Statuses == {"none", "active", "superseded", "failed"}

\* Where the operation looks at its abort signal before, or right after, what
\* it does there; elsewhere nothing looks at it.
Checked == {"source", "build", "activate", "restart", "health", "route", "finalize", "record"}
Places == Checked \cup {"idle", "refused", "unchanged", "link", "undo", "relink", "restore",
                        "save", "stop", "remove", "unlist"}

Idle ==
  [at |-> "idle", type |-> None, release |-> None, sha |-> None, prev |-> None,
   ran |-> None, restarted |-> FALSE, failed |-> FALSE, steady |-> TRUE, kept |-> FALSE,
   aborted |-> "no"]

\* host.from is the commit a release directory was made from, host.manifest
\* the releases with a success.json, app.updating that
\* the embedded record of an update has not been completed.
\* exec.prev is what the link named when the operation began, exec.ran what
\* the service ran; exec.steady falls when a restart fails or systemd
\* restarts the service by itself; exec.kept says that the document in memory
\* names the release of a rollback that failed to save it.
Hosts ==
  [current : Releases \cup {None}, serving : Releases \cup {None},
   from : [Releases -> Commits \cup {None}], manifest : SUBSET Releases]

Documents ==
  [exists : BOOLEAN, current : Releases \cup {None}, sha : Commits \cup {None},
   status : [Releases -> Statuses], commit : [Releases -> Commits \cup {None}],
   updating : BOOLEAN]

Operations ==
  [at : Places, type : {"deploy", "update", "rollback", "delete", None},
   release : Releases \cup {None}, sha : Commits \cup {None}, prev : Releases \cup {None},
   ran : Releases \cup {None}, restarted : BOOLEAN, failed : BOOLEAN, steady : BOOLEAN,
   kept : BOOLEAN, aborted : {"no", "lease", "timeout"}]

DTypeOK ==
  /\ remote \in Commits
  /\ host \in Hosts
  /\ app \in Documents
  /\ exec \in Operations
  /\ faults \in 0 .. MaxFaults
  /\ passed \subseteq Releases

DInit ==
  /\ remote = 1
  /\ host = [current |-> None, serving |-> None,
             from |-> [r \in Releases |-> None], manifest |-> {}]
  /\ app = [exists |-> TRUE, current |-> None, sha |-> None,
            status |-> [r \in Releases |-> "none"],
            commit |-> [r \in Releases |-> None], updating |-> FALSE]
  /\ exec = Idle
  /\ faults = 0
  /\ passed = {}

-----------------------------------------------------------------------------
(* The operations begin.                                                   *)

\* Release r becomes the app's release and s the commit it deployed.
Recorded(a, r, s, status) ==
  [a EXCEPT !.current = r, !.sha = s, !.status = status]

\* Mutant: the release that was active stays so.
KeepsActive(status, r) == [status EXCEPT ![r] = "active"]

\* The active release is superseded by r; the others keep their status.
Promoted(status, r) ==
  [x \in Releases |-> IF x = r THEN "active"
                      ELSE IF status[x] = "active" THEN "superseded" ELSE status[x]]

\* A rollback marks every release but the selected one, the failed ones too.
RolledBackTo(status, r) ==
  [x \in Releases |-> IF x = r THEN "active"
                      ELSE IF status[x] = "none" THEN "none" ELSE "superseded"]

\* Mutant: any release the link names counts as finished.
AnyLink(r) == r # None

\* The release `current` names, when it carries the manifest of a success.
Finished(r) == r # None /\ r \in host.manifest

\* Mutant: nothing is reconciled.
NotReconciled == app

\* reconcileActiveAppRelease: the document catches up with the link.
Reconciled ==
  LET r == host.current
  IN IF Finished(r) /\ <<app.current, app.sha>> # <<r, host.from[r]>>
     THEN [Recorded(app, r, host.from[r], Promoted(app.status, r))
             EXCEPT !.commit[r] = IF app.status[r] = "none" THEN host.from[r] ELSE @]
     ELSE app

Begins(type, at) ==
  exec' = [Idle EXCEPT !.type = type, !.at = at, !.prev = host.current, !.ran = host.serving]

\* An update takes the embedded record for itself, or is refused.  The queue's
\* operation calls no cleaning of stale records first.
BeginUpdate ==
  /\ exec.at = "idle" /\ app.exists
  /\ IF ~app.updating
     THEN Begins("update", "source") /\ app' = [Reconciled EXCEPT !.updating = TRUE]
     ELSE Begins("update", "refused") /\ app' = Reconciled
  /\ UNCHANGED <<remote, host, faults, passed>>

BeginDeploy ==
  /\ exec.at = "idle" /\ app.exists
  /\ Begins("deploy", "source")
  /\ UNCHANGED <<remote, host, app, faults, passed>>

\* A rollback to a release the document does not call failed and whose files
\* are there.
BeginRollback(r) ==
  /\ exec.at = "idle" /\ app.exists
  /\ app.status[r] \in {"active", "superseded"} /\ host.from[r] # None
  /\ exec' = [Idle EXCEPT !.type = "rollback", !.at = "activate", !.release = r,
                          !.prev = host.current, !.ran = host.serving]
  /\ UNCHANGED <<remote, host, app, faults, passed>>

\* The source is at the head of the branch: an update of a deployed commit
\* has nothing to do, any other operation makes a release directory.
Source(r) ==
  /\ exec.at = "source" /\ exec.aborted = "no"
  /\ IF exec.type = "update" /\ app.sha = remote /\ app.current # None
     THEN exec' = [exec EXCEPT !.at = "unchanged", !.sha = remote] /\ UNCHANGED host
     ELSE /\ host.from[r] = None /\ app.status[r] = "none"
          /\ \A x \in 1 .. r - 1 : host.from[x] # None \/ app.status[x] # "none"
          /\ exec' = [exec EXCEPT !.at = "build", !.sha = remote, !.release = r,
                                  !.prev = host.current]
          /\ host' = [host EXCEPT !.from[r] = remote]
  /\ UNCHANGED <<remote, app, faults, passed>>

\* Git fails: the record of an update is completed as failed.
SourceFails ==
  /\ exec.at = "source" /\ exec.aborted = "no"
  /\ exec' = Idle
  /\ app' = IF exec.type = "update" THEN [app EXCEPT !.updating = FALSE] ELSE app
  /\ UNCHANGED <<remote, host, faults, passed>>

\* The operation answers that it was refused, or that nothing changed.
Answer ==
  /\ exec.at \in {"refused", "unchanged"}
  /\ exec' = Idle
  /\ app' = IF exec.at = "unchanged" THEN [app EXCEPT !.updating = FALSE] ELSE app
  /\ UNCHANGED <<remote, host, faults, passed>>

-----------------------------------------------------------------------------
(* A release is built, activated, checked and recorded.                    *)

Fault == faults < MaxFaults /\ faults' = faults + 1

Goes(place) == exec' = [exec EXCEPT !.at = place]

Proceeds(place, next) ==
  /\ exec.at = place /\ exec.aborted = "no"
  /\ Goes(next)
  /\ UNCHANGED <<remote, app, faults>>

Build == Proceeds("build", "activate") /\ UNCHANGED <<host, passed>>

\* replaceSymlink removes the link, then renames the new one into its place.
Unlink ==
  /\ Proceeds("activate", "link")
  /\ host' = [host EXCEPT !.current = None]
  /\ UNCHANGED passed

Link ==
  /\ exec.at = "link"
  /\ host' = [host EXCEPT !.current = exec.release]
  /\ Goes("restart")
  /\ UNCHANGED <<remote, app, faults, passed>>

Restart ==
  /\ exec.at = "restart" /\ exec.aborted = "no"
  /\ host' = [host EXCEPT !.serving = host.current]
  /\ exec' = [exec EXCEPT !.at = "health", !.restarted = TRUE]
  /\ UNCHANGED <<remote, app, faults, passed>>

Health ==
  /\ Proceeds("health", IF exec.type = "rollback" THEN "record" ELSE "route")
  /\ passed' = passed \cup {exec.release}
  /\ UNCHANGED host

Route == Proceeds("route", "finalize") /\ UNCHANGED <<host, passed>>

Finalize ==
  /\ Proceeds("finalize", "record")
  /\ host' = [host EXCEPT !.manifest = @ \cup {exec.release}]
  /\ UNCHANGED passed

\* What the caller does next when the operation failed and was not aborted:
\* the link goes back to the release it named before.  A rollback that found
\* no link leaves the new one.
Undoing ==
  [exec EXCEPT !.failed = TRUE,
               !.at = IF exec.type = "rollback" /\ exec.prev = None THEN "record" ELSE "undo"]

\* A command, a write or the record of a stage fails.
StepFails ==
  /\ exec.aborted = "no"
  /\ \/ exec.at \in {"build", "activate", "restart", "health", "route", "finalize"}
     \/ exec.at = "record" /\ exec.type = "rollback" /\ ~exec.failed
  /\ exec' = Undoing
  /\ UNCHANGED <<remote, host, app, faults, passed>>

\* systemctl restart reports a failure: the old process may be gone.
RestartFails ==
  /\ exec.at = "restart" /\ exec.aborted = "no"
  /\ \E s \in {None, host.serving} : host' = [host EXCEPT !.serving = s]
  /\ exec' = [Undoing EXCEPT !.steady = FALSE]
  /\ UNCHANGED <<remote, app, faults, passed>>

\* The manifest is written and the stage that reports it fails.
FinalizeFails ==
  /\ exec.at = "finalize" /\ exec.aborted = "no"
  /\ host' = [host EXCEPT !.manifest = @ \cup {exec.release}]
  /\ exec' = Undoing
  /\ UNCHANGED <<remote, app, faults, passed>>

\* The save of a rollback fails: the next one, after the link went back,
\* writes what this one held.
RollbackSaveFails ==
  /\ Fault
  /\ exec.at = "record" /\ exec.type = "rollback" /\ ~exec.failed /\ exec.aborted = "no"
  /\ exec' = [Undoing EXCEPT !.kept = TRUE]
  /\ UNCHANGED <<remote, host, app, passed>>

Undo ==
  /\ exec.at = "undo"
  /\ host' = [host EXCEPT !.current = None]
  /\ Goes(IF exec.prev = None THEN "record" ELSE "relink")
  /\ UNCHANGED <<remote, app, faults, passed>>

\* Mutant: the link is restored and the service is left as it is.
RelinkOnly ==
  /\ exec.at = "relink"
  /\ host' = [host EXCEPT !.current = exec.prev]
  /\ Goes("record")
  /\ UNCHANGED <<remote, app, faults, passed>>

\* A deployment restarts the service only when it had restarted it before, a
\* rollback always.
Relink ==
  /\ exec.at = "relink"
  /\ host' = [host EXCEPT !.current = exec.prev]
  /\ Goes(IF exec.restarted \/ exec.type = "rollback" THEN "restore" ELSE "record")
  /\ UNCHANGED <<remote, app, faults, passed>>

\* The result of this restart is not looked at.
Restore ==
  /\ exec.at = "restore"
  /\ \/ /\ host' = [host EXCEPT !.serving = host.current]
        /\ Goes("record")
     \/ /\ host' = [host EXCEPT !.serving = None]
        /\ exec' = [exec EXCEPT !.at = "record", !.steady = FALSE]
  /\ UNCHANGED <<remote, app, faults, passed>>

\* Who may still write the outcome: deployments look at the signal of the
\* lease again, a failed rollback does not.
MayRecord ==
  /\ exec.at = "record"
  /\ exec.aborted # "lease" \/ (exec.type = "rollback" /\ exec.failed)

\* Mutant: a failed release keeps the status it was built under.
StaysBuilding ==
  IF exec.failed THEN [app EXCEPT !.status[exec.release] = "building"]
  ELSE Recorded(app, exec.release, exec.sha, Promoted(app.status, exec.release))

Outcome ==
  LET r == exec.release
  IN IF exec.type = "rollback"
     THEN IF exec.failed /\ ~exec.kept THEN app
          ELSE Recorded(app, r, app.commit[r], RolledBackTo(app.status, r))
     ELSE IF exec.failed THEN [app EXCEPT !.status[r] = "failed"]
     ELSE [Recorded(app, r, exec.sha, Promoted(app.status, r)) EXCEPT !.commit[r] = exec.sha]

\* An update completes its record in one write and saves the app in another.
CompleteRecord ==
  /\ MayRecord /\ exec.type = "update"
  /\ app' = [app EXCEPT !.updating = FALSE]
  /\ Goes("save")
  /\ UNCHANGED <<remote, host, faults, passed>>

Save ==
  /\ exec.at = "save" \/ (MayRecord /\ exec.type # "update")
  /\ app' = Outcome
  /\ exec' = Idle
  /\ UNCHANGED <<remote, host, faults, passed>>

-----------------------------------------------------------------------------
(* Deletion looks at no signal and carries on past commands that fail.     *)

BeginDelete ==
  /\ exec.at = "idle" /\ app.exists
  /\ Begins("delete", "stop")
  /\ UNCHANGED <<remote, host, app, faults, passed>>

StopService ==
  /\ exec.at = "stop"
  /\ \E s \in {None, host.serving} : host' = [host EXCEPT !.serving = s]
  /\ Goes("remove")
  /\ UNCHANGED <<remote, app, faults, passed>>

RemoveFiles ==
  /\ exec.at = "remove"
  /\ host' = [current |-> None, serving |-> host.serving,
              from |-> [r \in Releases |-> None], manifest |-> {}]
  /\ Goes("unlist")
  /\ UNCHANGED <<remote, app, faults, passed>>

DeleteRecord ==
  /\ exec.at = "unlist"
  /\ app' = [app EXCEPT !.exists = FALSE]
  /\ exec' = Idle
  /\ UNCHANGED <<remote, host, faults, passed>>

-----------------------------------------------------------------------------
(* Interruptions and the outside.                                          *)

\* The lease is lost, or an update reaches its deadline before its deployment
\* returns.
Abort(kind) ==
  /\ Fault
  /\ exec.at \in Checked \cup {"link", "undo", "relink", "restore"} /\ exec.aborted = "no"
  /\ kind = "timeout" => exec.type = "update" /\ exec.at # "record"
  /\ exec' = [exec EXCEPT !.aborted = kind]
  /\ UNCHANGED <<remote, host, app, passed>>

\* An aborted operation throws at its next check and undoes nothing.  A
\* restart under way may be stopped at any point.  Only an update that timed
\* out while it fetched completes its record.
Quit ==
  /\ exec.at \in Checked /\ exec.aborted # "no" /\ ~MayRecord
  /\ exec' = Idle
  /\ \E s \in IF exec.at = "restart" THEN {host.serving, host.current, None}
                                     ELSE {host.serving} :
       host' = [host EXCEPT !.serving = s]
  /\ app' = IF exec.at = "source" /\ exec.aborted = "timeout"
            THEN [app EXCEPT !.updating = FALSE] ELSE app
  /\ UNCHANGED <<remote, faults, passed>>

\* The worker dies, or the database fails it outside the deployment's try.
\* The operation's lock is released once its commands are known to be over.
Crash ==
  /\ Fault
  /\ exec.at # "idle"
  /\ exec' = Idle
  /\ UNCHANGED <<remote, host, app, passed>>

\* Restart=always: systemd starts the service again, wherever the link points.
Respawn ==
  /\ Fault
  /\ host.current # None /\ host.serving # host.current
  /\ host' = [host EXCEPT !.serving = host.current]
  /\ exec' = [exec EXCEPT !.steady = exec.at = "idle"]
  /\ UNCHANGED <<remote, app, passed>>

Push ==
  /\ remote < MaxCommits
  /\ remote' = remote + 1
  /\ UNCHANGED <<host, app, exec, faults, passed>>

DNext ==
  \/ BeginUpdate \/ BeginDeploy \/ BeginDelete \/ \E r \in Releases : BeginRollback(r) \/ Source(r)
  \/ SourceFails \/ Answer
  \/ Build \/ Unlink \/ Link \/ Restart \/ Health \/ Route \/ Finalize
  \/ StepFails \/ RestartFails \/ FinalizeFails \/ RollbackSaveFails \/ Undo \/ Relink \/ Restore
  \/ CompleteRecord \/ Save
  \/ StopService \/ RemoveFiles \/ DeleteRecord
  \/ \E kind \in {"lease", "timeout"} : Abort(kind)
  \/ Quit \/ Crash \/ Respawn \/ Push

DSpec == DInit /\ [][DNext]_dVars

-----------------------------------------------------------------------------
(* What the host and the document promise.                                 *)

\* An operation that failed by itself, whatever step failed, gives back the
\* link it found; and if no restart failed and systemd did not interfere, the
\* service runs the release it ran before.
FailureKeepsRelease ==
  exec.at \in {"record", "save"} /\ exec.failed /\ exec.prev # None =>
    /\ host.current = exec.prev
    /\ exec.steady /\ exec.ran = exec.prev => host.serving = exec.prev

\* The document never names a release that has not passed a health check,
\* even when it is rebuilt from the link after a crash.
RecordedPassed == app.current # None => app.current \in passed

\* The document calls exactly the app's current release active.
OneActive == {r \in Releases : app.status[r] = "active"} = {app.current} \ {None}

\* An update answers "unchanged" only when the finished release the link names
\* was built from that commit, whatever interrupted the operations before it.
UnchangedIsTrue ==
  exec.at = "unchanged" /\ Finished(host.current) => host.from[host.current] = exec.sha
-----------------------------------------------------------------------------
(* Liveness.  A started operation goes on, whatever fails, and an update    *)
(* keeps being asked for: the schedule of an app comes round again.         *)
OperationStep ==
  \/ \E r \in Releases : Source(r)
  \/ SourceFails \/ Answer
  \/ Build \/ Unlink \/ Link \/ Restart \/ Health \/ Route \/ Finalize
  \/ StepFails \/ RestartFails \/ FinalizeFails \/ Undo \/ Relink \/ Restore
  \/ CompleteRecord \/ Save \/ Quit
  \/ StopService \/ RemoveFiles \/ DeleteRecord

DFairSpec == DSpec /\ WF_dVars(OperationStep) /\ SF_dVars(BeginUpdate)

\* From some time on only updates run.  A document keeps its latest records:
\* enough deployments by hand push the record of an update out of it, which
\* is not modelled.
OnlyUpdates == <>[](exec.type \in {None, "update"})

\* An update that was interrupted does not keep later ones out for ever: its
\* embedded record is closed once its deadline is over, at the latest by the
\* next update that is asked for.  Deadlines are not modelled: every one of
\* them is over eventually.  This is what the recovery design says; no update
\* taken from the queue does it.
InterruptedUpdateIsClosed ==
  OnlyUpdates => (app.updating /\ exec.at = "idle") ~> (~app.updating \/ ~app.exists)
=============================================================================
