--------------------------- MODULE AppsDeployProofs ---------------------------
(***************************************************************************)
(* The promises of AppsDeploy, for any number of releases, commits and     *)
(* faults.                                                                 *)
(***************************************************************************)
EXTENDS AppsDeploy, TLAPS

\* From the moment an operation has a release of its own to the end.
AtWork == {"build", "activate", "link", "restart", "health", "route", "finalize",
           "undo", "relink", "restore", "record", "save"}

Working == exec.at \in AtWork => exec.release \in Releases

\* What makes the promises inductive: what has a manifest passed its check
\* first; a new release has no status before its outcome is saved; while
\* nothing was restarted the service runs what it ran; and an update decides
\* with a document that has caught up with the link.
Progress ==
  /\ host.manifest \subseteq passed
  /\ exec.at \in {"route", "finalize"} => exec.release \in passed
  /\ exec.at \in {"record", "save"} /\ ~exec.failed => exec.release \in passed
  /\ exec.kept => exec.failed /\ exec.release \in passed
  /\ exec.failed => exec.at \in {"undo", "relink", "restore", "record", "save"}
  /\ exec.at \in {"undo", "relink", "restore"} => exec.failed
  /\ exec.at \in {"relink", "restore"} => exec.prev # None
  /\ exec.at = "restore" => host.current = exec.prev

Fresh ==
  exec.at \in AtWork /\ exec.type # "rollback" => app.status[exec.release] = "none"

Undisturbed ==
  /\ exec.at \in (AtWork \ {"restore"}) \cup {"source"}
  /\ ~(exec.failed /\ exec.at \in {"record", "save"})
  /\ exec.steady /\ ~exec.restarted
  => host.serving = exec.ran

CaughtUp ==
  exec.type = "update" /\ exec.at = "source" /\ Finished(host.current) =>
    host.from[host.current] = app.sha

Promises ==
  /\ Progress /\ Fresh /\ Undisturbed /\ CaughtUp
  /\ FailureKeepsRelease /\ RecordedPassed /\ OneActive /\ UnchangedIsTrue

DInv == DTypeOK /\ Working /\ Promises

LEMMA PlacesNamed ==
  /\ "idle" \in Places /\ "refused" \in Places /\ "unchanged" \in Places
  /\ "source" \in Places /\ "build" \in Places /\ "activate" \in Places
  /\ "link" \in Places /\ "restart" \in Places /\ "health" \in Places
  /\ "route" \in Places /\ "finalize" \in Places /\ "record" \in Places
  /\ "undo" \in Places /\ "relink" \in Places /\ "restore" \in Places
  /\ "save" \in Places /\ "stop" \in Places /\ "remove" \in Places
  /\ "unlist" \in Places
BY DEF Places, Checked

LEMMA BoundsTyped == 1 \in Commits /\ MaxFaults \in Nat /\ 0 \in 0 .. MaxFaults
BY DeployBounds DEF Commits

LEMMA IdleTyped == Idle \in Operations
BY PlacesNamed DEF Idle, Operations

\* The updates the actions make of the records.
LEMMA HostSteps ==
  ASSUME NEW h \in Hosts
  PROVE  /\ \A r \in Releases \cup {None} : [h EXCEPT !.current = r] \in Hosts
         /\ \A r \in Releases \cup {None} : [h EXCEPT !.serving = r] \in Hosts
         /\ \A r \in Releases : [h EXCEPT !.manifest = @ \cup {r}] \in Hosts
         /\ \A r \in Releases, c \in Commits : [h EXCEPT !.from[r] = c] \in Hosts
BY DEF Hosts

LEMMA DocumentSteps ==
  ASSUME NEW a \in Documents
  PROVE  /\ \A u \in BOOLEAN : [a EXCEPT !.updating = u] \in Documents
         /\ [a EXCEPT !.exists = FALSE] \in Documents
         /\ \A r \in Releases : [a EXCEPT !.status[r] = "failed"] \in Documents
         /\ \A r \in Releases, c \in Commits \cup {None} :
              [a EXCEPT !.commit[r] = c] \in Documents
         /\ \A r \in Releases, c \in Commits \cup {None}, f \in [Releases -> Statuses] :
              Recorded(a, r, c, f) \in Documents
BY DEF Documents, Statuses, Recorded

LEMMA StatusSteps ==
  ASSUME NEW f \in [Releases -> Statuses], NEW r \in Releases
  PROVE  Promoted(f, r) \in [Releases -> Statuses] /\ RolledBackTo(f, r) \in [Releases -> Statuses]
BY DEF Promoted, RolledBackTo, Statuses

LEMMA FieldsTyped ==
  ASSUME DTypeOK
  PROVE  /\ host.current \in Releases \cup {None} /\ host.serving \in Releases \cup {None}
         /\ host.from \in [Releases -> Commits \cup {None}] /\ host.manifest \subseteq Releases
         /\ app.status \in [Releases -> Statuses] /\ app.sha \in Commits \cup {None}
         /\ app.commit \in [Releases -> Commits \cup {None}]
         /\ exec.at \in Places /\ exec.release \in Releases \cup {None}
         /\ exec.sha \in Commits \cup {None} /\ exec.prev \in Releases \cup {None}
         /\ exec.ran \in Releases \cup {None}
BY DEF DTypeOK, Hosts, Documents, Operations

LEMMA InitTyped == DInit => DTypeOK /\ Working
BY BoundsTyped, PlacesNamed DEF DInit, DTypeOK, Idle, Statuses, Hosts, Documents, Operations, Working, AtWork

LEMMA UndoingTyped ==
  ASSUME exec \in Operations
  PROVE  /\ Undoing \in Operations
         /\ Undoing.at \in {"record", "undo"} /\ Undoing.release = exec.release
         /\ Undoing.failed /\ Undoing.prev = exec.prev
BY PlacesNamed DEF Undoing, Operations

LEMMA ReconciledTyped ==
  ASSUME DTypeOK
  PROVE  Reconciled \in Documents
<1>1. CASE ~(Finished(host.current)
             /\ <<app.current, app.sha>> # <<host.current, host.from[host.current]>>)
  BY <1>1 DEF Reconciled, DTypeOK
<1>2. CASE /\ Finished(host.current)
           /\ <<app.current, app.sha>> # <<host.current, host.from[host.current]>>
  <2> DEFINE r == host.current
             a == Recorded(app, r, host.from[r], Promoted(app.status, r))
             c == IF app.status[r] = "none" THEN host.from[r] ELSE a.commit[r]
  <2>1. r \in Releases /\ host.from[r] \in Commits \cup {None}
    BY <1>2, FieldsTyped DEF Finished
  <2>2. a \in Documents
    BY <2>1, FieldsTyped, StatusSteps, DocumentSteps DEF DTypeOK
  <2>3. a.commit[r] \in Commits \cup {None}
    BY <2>1, <2>2 DEF Documents
  <2>4. c \in Commits \cup {None}
    BY <2>1, <2>3
  <2>5. Reconciled = [a EXCEPT !.commit[r] = c]
    BY <1>2 DEF Reconciled
  <2>6. QED
    BY <2>1, <2>2, <2>4, <2>5, DocumentSteps
<1>3. QED
  BY <1>1, <1>2 DEF Finished

LEMMA OutcomeTyped ==
  ASSUME DTypeOK, exec.release \in Releases
  PROVE  Outcome \in Documents
<1> DEFINE r == exec.release
<1>1. /\ Recorded(app, r, app.commit[r], RolledBackTo(app.status, r)) \in Documents
      /\ Recorded(app, r, exec.sha, Promoted(app.status, r)) \in Documents
  BY FieldsTyped, StatusSteps, DocumentSteps DEF DTypeOK
<1>2. [Recorded(app, r, exec.sha, Promoted(app.status, r)) EXCEPT !.commit[r] = exec.sha]
        \in Documents
  BY <1>1, FieldsTyped, DocumentSteps
<1>3. [app EXCEPT !.status[r] = "failed"] \in Documents
  BY DocumentSteps DEF DTypeOK
<1>4. app \in Documents
  BY DEF DTypeOK
<1>5. QED
  BY <1>1, <1>2, <1>3, <1>4 DEF Outcome

\* Every record keeps its type, and an operation at work keeps its release.
LEMMA NextTyped == DTypeOK /\ Working /\ [DNext]_dVars => DTypeOK' /\ Working'
<1> SUFFICES ASSUME DTypeOK, Working, [DNext]_dVars PROVE DTypeOK' /\ Working'
  OBVIOUS
<1> USE PlacesNamed, BoundsTyped, FieldsTyped DEF DTypeOK, Working, AtWork, Operations
<1>1. CASE BeginUpdate
  <2>1. app' \in {Reconciled, [Reconciled EXCEPT !.updating = TRUE]}
    BY <1>1 DEF BeginUpdate
  <2> Reconciled \in Documents
    BY ReconciledTyped
  <2>2. app' \in Documents
    BY <2>1, DocumentSteps
  <2>3. PICK p \in {"source", "refused"} : Begins("update", p)
    BY <1>1 DEF BeginUpdate
  <2>4. exec' \in Operations /\ exec'.at = p
    BY <2>3 DEF Begins, Idle
  <2>5. QED
    BY <1>1, <2>2, <2>4 DEF BeginUpdate
<1>2. CASE BeginDeploy
  BY <1>2 DEF BeginDeploy, Begins, Idle
<1>3. CASE BeginDelete
  BY <1>3 DEF BeginDelete, Begins, Idle
<1>4. ASSUME NEW r \in Releases, BeginRollback(r) PROVE DTypeOK' /\ Working'
  BY <1>4 DEF BeginRollback, Idle
<1>5. ASSUME NEW r \in Releases, Source(r) PROVE DTypeOK' /\ Working'
  <2>1. \/ exec' = [exec EXCEPT !.at = "unchanged", !.sha = remote]
        \/ exec' = [exec EXCEPT !.at = "build", !.sha = remote, !.release = r,
                                !.prev = host.current]
    BY <1>5 DEF Source
  <2>2. exec' \in Operations /\ (exec'.at = "unchanged" \/ exec'.release = r)
    BY <2>1
  <2>3. host' \in Hosts
    BY <1>5, HostSteps DEF Source
  <2>4. QED
    BY <1>5, <2>2, <2>3 DEF Source
<1>6. CASE SourceFails
  BY <1>6, IdleTyped, DocumentSteps DEF SourceFails, Idle
<1>7. CASE Answer
  BY <1>7, IdleTyped, DocumentSteps DEF Answer, Idle
<1>8. CASE Build
  BY <1>8 DEF Build, Proceeds, Goes
<1>9. CASE Unlink
  BY <1>9, HostSteps DEF Unlink, Proceeds, Goes
<1>10. CASE Link
  BY <1>10, HostSteps DEF Link, Goes
<1>11. CASE Restart
  BY <1>11, HostSteps DEF Restart
<1>12. CASE Health
  BY <1>12 DEF Health, Proceeds, Goes
<1>13. CASE Route
  BY <1>13 DEF Route, Proceeds, Goes
<1>14. CASE Finalize
  BY <1>14, HostSteps DEF Finalize, Proceeds, Goes
<1>15. CASE StepFails
  BY <1>15, UndoingTyped DEF StepFails
<1>16. CASE RestartFails
  <2>1. host' \in Hosts
    BY <1>16, HostSteps DEF RestartFails
  <2>2. exec' \in Operations /\ exec'.release = exec.release
    BY <1>16, UndoingTyped DEF RestartFails
  <2>3. QED
    BY <1>16, <2>1, <2>2 DEF RestartFails
<1>17. CASE FinalizeFails
  BY <1>17, UndoingTyped, HostSteps DEF FinalizeFails
<1>18. CASE Undo
  BY <1>18, HostSteps DEF Undo, Goes
<1>19. CASE Relink
  BY <1>19, HostSteps DEF Relink, Goes
<1>20. CASE Restore
  <2>1. host' \in Hosts
    BY <1>20, HostSteps DEF Restore
  <2>2. exec' \in Operations /\ exec'.release = exec.release
    BY <1>20 DEF Restore, Goes
  <2>3. QED
    BY <1>20, <2>1, <2>2 DEF Restore
<1>21. CASE CompleteRecord
  BY <1>21, DocumentSteps DEF CompleteRecord, MayRecord, Goes
<1>22. CASE Save
  BY <1>22, IdleTyped, OutcomeTyped DEF Save, MayRecord, Idle
<1>23. CASE StopService
  BY <1>23, HostSteps DEF StopService, Goes
<1>24. CASE RemoveFiles
  BY <1>24 DEF RemoveFiles, Goes, Hosts
<1>25. CASE DeleteRecord
  BY <1>25, IdleTyped, DocumentSteps DEF DeleteRecord, Idle
<1>26. ASSUME NEW kind \in {"lease", "timeout"}, Abort(kind) PROVE DTypeOK' /\ Working'
  <2>1. app' \in Documents
    BY <1>26, DocumentSteps DEF Abort
  <2>2. exec' \in Operations /\ exec'.release = exec.release /\ exec'.at = exec.at
    BY <1>26 DEF Abort
  <2>3. faults' \in 0 .. MaxFaults
    BY <1>26 DEF Abort, Fault
  <2>4. QED
    BY <1>26, <2>1, <2>2, <2>3 DEF Abort
<1>27. CASE Quit
  <2>1. app' \in Documents
    BY <1>27, DocumentSteps DEF Quit
  <2>2. host' \in Hosts
    BY <1>27, HostSteps DEF Quit
  <2>3. exec' \in Operations /\ exec'.at = "idle"
    BY <1>27, IdleTyped DEF Quit, Idle
  <2>4. QED
    BY <1>27, <2>1, <2>2, <2>3 DEF Quit
<1>28. CASE Crash
  BY <1>28, IdleTyped DEF Crash, Fault, Idle
<1>29. CASE Respawn
  <2>1. host' \in Hosts
    BY <1>29, HostSteps DEF Respawn
  <2>2. PICK b \in BOOLEAN : exec' = [exec EXCEPT !.steady = b]
    BY <1>29 DEF Respawn
  <2>3. exec' \in Operations /\ exec'.release = exec.release /\ exec'.at = exec.at
    BY <2>2
  <2>4. QED
    BY <1>29, <2>1, <2>3 DEF Respawn, Fault
<1>30. CASE Push
  BY <1>30, DeployBounds DEF Push, Commits
<1>31. CASE RollbackSaveFails
  <2>1. exec' \in Operations /\ exec'.release = exec.release
    BY <1>31, UndoingTyped DEF RollbackSaveFails
  <2>2. faults' \in 0 .. MaxFaults
    BY <1>31 DEF RollbackSaveFails, Fault
  <2>3. QED
    BY <1>31, <2>1, <2>2 DEF RollbackSaveFails
<1>32. CASE UNCHANGED dVars
  BY <1>32 DEF dVars
<1>33. QED
  BY <1>1, <1>2, <1>3, <1>4, <1>5, <1>6, <1>7, <1>8, <1>9, <1>10, <1>11,
     <1>12, <1>13, <1>14, <1>15, <1>16, <1>17, <1>18, <1>19, <1>20, <1>21,
     <1>22, <1>23, <1>24, <1>25, <1>26, <1>27, <1>28, <1>29, <1>30, <1>31,
     <1>32
  DEF DNext
\* The document that has caught up with the link keeps the promises.
LEMMA ReconciledKeeps ==
  ASSUME DInv
  PROVE  /\ Reconciled.current # None => Reconciled.current \in passed
         /\ {r \in Releases : Reconciled.status[r] = "active"} = {Reconciled.current} \ {None}
         /\ Finished(host.current) => host.from[host.current] = Reconciled.sha
<1> USE FieldsTyped DEF DInv, Promises, Progress, RecordedPassed, OneActive
<1>1. CASE ~(Finished(host.current)
             /\ <<app.current, app.sha>> # <<host.current, host.from[host.current]>>)
  BY <1>1 DEF Reconciled
<1>2. CASE /\ Finished(host.current)
           /\ <<app.current, app.sha>> # <<host.current, host.from[host.current]>>
  <2> DEFINE r == host.current
  <2>1. r \in Releases /\ r \in passed /\ r # None
    BY <1>2 DEF Finished
  <2>2. /\ Reconciled.current = r /\ Reconciled.sha = host.from[r]
        /\ Reconciled.status = Promoted(app.status, r)
    BY <1>2, <2>1 DEF Reconciled, Recorded, DTypeOK, Documents
  <2>3. \A x \in Releases : Promoted(app.status, r)[x] = "active" <=> x = r
    BY <2>1 DEF Promoted
  <2>4. QED
    BY <2>1, <2>2, <2>3
<1>3. QED
  BY <1>1, <1>2

\* The outcome an operation saves keeps the promises.
LEMMA OutcomeKeeps ==
  ASSUME DInv, exec.at = "save" \/ (MayRecord /\ exec.type # "update")
  PROVE  /\ Outcome.current # None => Outcome.current \in passed
         /\ {r \in Releases : Outcome.status[r] = "active"} = {Outcome.current} \ {None}
<1> DEFINE r == exec.release
<1> USE FieldsTyped DEF DInv, Promises, Progress, RecordedPassed, OneActive
<1>1. exec.at \in {"record", "save"} /\ r \in Releases
  BY DEF MayRecord, Working, AtWork
<1>2. r # None
  BY <1>1, DeployBounds DEF Releases
<1>3. CASE exec.failed /\ exec.type = "rollback" /\ ~exec.kept
  BY <1>3 DEF Outcome
<1>4. CASE exec.failed /\ exec.type # "rollback"
  <2>1. app.status[r] = "none"
    BY <1>1, <1>4 DEF Fresh, AtWork
  <2>2. Outcome.current = app.current /\ Outcome.status = [app.status EXCEPT ![r] = "failed"]
    BY <1>4 DEF Outcome, DTypeOK, Documents
  <2>3. \A x \in Releases : Outcome.status[x] = "active" <=> app.status[x] = "active"
    BY <1>1, <2>1, <2>2
  <2>4. QED
    BY <2>2, <2>3
<1>5. CASE ~exec.failed \/ (exec.type = "rollback" /\ exec.kept)
  <2>1. r \in passed
    BY <1>1, <1>5
  <2>2. PICK f \in {RolledBackTo(app.status, r), Promoted(app.status, r)} :
          Outcome.current = r /\ Outcome.status = f
    BY <1>1, <1>5 DEF Outcome, Recorded, DTypeOK, Documents
  <2>3. \A x \in Releases : f[x] = "active" <=> x = r
    BY <1>1, <2>2 DEF RolledBackTo, Promoted
  <2>4. QED
    BY <1>1, <1>2, <2>1, <2>2, <2>3
<1>6. QED
  BY <1>3, <1>4, <1>5

\* Every step keeps the promises and what they rest on.
LEMMA NextKeeps == DInv /\ [DNext]_dVars => Promises'
<1> SUFFICES ASSUME DInv, [DNext]_dVars PROVE Promises'
  OBVIOUS
<1> USE FieldsTyped DEF DInv, DTypeOK, Working, AtWork, Promises, Progress, Fresh, Undisturbed,
       CaughtUp, FailureKeepsRelease, RecordedPassed, OneActive, UnchangedIsTrue, Finished,
       Operations, Hosts, Documents
<1>1. CASE BeginUpdate
  <2>1. app' \in {Reconciled, [Reconciled EXCEPT !.updating = TRUE]}
    BY <1>1 DEF BeginUpdate
  <2> Reconciled \in Documents
    BY ReconciledTyped
  <2>2. /\ app'.current = Reconciled.current /\ app'.sha = Reconciled.sha
        /\ app'.status = Reconciled.status
    BY <2>1
  <2>3. RecordedPassed' /\ OneActive' /\ CaughtUp'
    BY <1>1, <2>2, ReconciledKeeps DEF BeginUpdate
  <2>4. PICK p \in {"source", "refused"} : Begins("update", p)
    BY <1>1 DEF BeginUpdate
  <2>5. QED
    BY <1>1, <2>3, <2>4 DEF BeginUpdate, Begins, Idle
<1>2. CASE BeginDeploy
  BY <1>2 DEF BeginDeploy, Begins, Idle
<1>3. CASE BeginDelete
  BY <1>3 DEF BeginDelete, Begins, Idle
<1>4. ASSUME NEW r \in Releases, BeginRollback(r) PROVE Promises'
  BY <1>4 DEF BeginRollback, Idle
<1>5. ASSUME NEW r \in Releases, Source(r) PROVE Promises'
  <2> UNCHANGED <<app, passed>> /\ exec.at = "source"
    BY <1>5 DEF Source
  <2>1. CASE /\ exec.type = "update" /\ app.sha = remote /\ app.current # None
             /\ exec' = [exec EXCEPT !.at = "unchanged", !.sha = remote] /\ UNCHANGED host
    BY <2>1
  <2>2. CASE /\ app.status[r] = "none" /\ host' = [host EXCEPT !.from[r] = remote]
             /\ exec' = [exec EXCEPT !.at = "build", !.sha = remote, !.release = r,
                                     !.prev = host.current]
    <3>1. /\ exec'.at = "build" /\ exec'.release = r /\ exec'.type = exec.type
          /\ exec'.ran = exec.ran /\ exec'.failed = exec.failed /\ exec'.kept = exec.kept
          /\ exec'.steady = exec.steady /\ exec'.restarted = exec.restarted
      BY <2>2
    <3>2. ~exec.failed /\ ~exec.kept
      OBVIOUS
    <3>3. /\ host'.serving = host.serving /\ host'.current = host.current
          /\ host'.manifest = host.manifest
      BY <2>2
    <3>4. QED
      BY <2>2, <3>1, <3>2, <3>3
  <2>3. QED
    BY <1>5, <2>1, <2>2 DEF Source
<1>6. CASE SourceFails
  BY <1>6 DEF SourceFails, Idle
<1>7. CASE Answer
  BY <1>7 DEF Answer, Idle
<1>8. CASE Build
  BY <1>8 DEF Build, Proceeds, Goes
<1>9. CASE Unlink
  BY <1>9 DEF Unlink, Proceeds, Goes
<1>10. CASE Link
  BY <1>10 DEF Link, Goes
<1>11. CASE Restart
  BY <1>11 DEF Restart
<1>12. CASE Health
  BY <1>12 DEF Health, Proceeds, Goes
<1>13. CASE Route
  BY <1>13 DEF Route, Proceeds, Goes
<1>14. CASE Finalize
  BY <1>14 DEF Finalize, Proceeds, Goes
<1>15. CASE StepFails
  BY <1>15 DEF StepFails, Undoing
<1>16. CASE RestartFails
  BY <1>16 DEF RestartFails, Undoing
<1>17. CASE FinalizeFails
  BY <1>17 DEF FinalizeFails, Undoing
<1>18. CASE Undo
  BY <1>18 DEF Undo, Goes
<1>19. CASE Relink
  BY <1>19 DEF Relink, Goes
<1>20. CASE Restore
  <2> UNCHANGED <<app, passed>> /\ exec.at = "restore"
    BY <1>20 DEF Restore
  <2>1. CASE host' = [host EXCEPT !.serving = host.current] /\ exec' = [exec EXCEPT !.at = "record"]
    BY <2>1
  <2>2. CASE /\ host' = [host EXCEPT !.serving = None]
             /\ exec' = [exec EXCEPT !.at = "record", !.steady = FALSE]
    BY <2>2
  <2>3. QED
    BY <1>20, <2>1, <2>2 DEF Restore, Goes
<1>21. CASE CompleteRecord
  BY <1>21 DEF CompleteRecord, MayRecord, Goes
<1>22. CASE Save
  <2>1. RecordedPassed' /\ OneActive'
    BY <1>22, OutcomeKeeps DEF Save
  <2>2. QED
    BY <1>22, <2>1 DEF Save, Idle
<1>23. CASE StopService
  BY <1>23 DEF StopService, Goes
<1>24. CASE RemoveFiles
  BY <1>24 DEF RemoveFiles, Goes
<1>25. CASE DeleteRecord
  BY <1>25 DEF DeleteRecord, Idle
<1>26. ASSUME NEW kind \in {"lease", "timeout"}, Abort(kind) PROVE Promises'
  BY <1>26 DEF Abort, Fault
<1>27. CASE Quit
  BY <1>27 DEF Quit, Idle
<1>28. CASE Crash
  BY <1>28 DEF Crash, Fault, Idle
<1>29. CASE Respawn
  BY <1>29 DEF Respawn, Fault
<1>30. CASE Push
  BY <1>30 DEF Push, Commits
<1>31. CASE RollbackSaveFails
  BY <1>31 DEF RollbackSaveFails, Undoing, Fault
<1>32. CASE UNCHANGED dVars
  BY <1>32 DEF dVars, Finished
<1>33. QED
  BY <1>1, <1>2, <1>3, <1>4, <1>5, <1>6, <1>7, <1>8, <1>9, <1>10, <1>11,
     <1>12, <1>13, <1>14, <1>15, <1>16, <1>17, <1>18, <1>19, <1>20, <1>21,
     <1>22, <1>23, <1>24, <1>25, <1>26, <1>27, <1>28, <1>29, <1>30, <1>31,
     <1>32
  DEF DNext
\* The host and the document are records of the types their code gives them.
THEOREM DeployTyped == DSpec => []DTypeOK
<1>1. DInit => DTypeOK /\ Working
  BY InitTyped
<1>2. DTypeOK /\ Working /\ [DNext]_dVars => DTypeOK' /\ Working'
  BY NextTyped
<1>3. QED
  BY <1>1, <1>2, PTL DEF DSpec

LEMMA Inductive == DSpec => []DInv
<1>1. DInit => DInv
  <2>1. DInit => Promises
    BY BoundsTyped, DeployBounds
       DEF DInit, Idle, AtWork, Promises, Progress, Fresh, Undisturbed, CaughtUp, Finished,
           FailureKeepsRelease, RecordedPassed, OneActive, UnchangedIsTrue
  <2>2. QED
    BY <2>1, InitTyped DEF DInv
<1>2. DInv /\ [DNext]_dVars => DInv'
  BY NextTyped, NextKeeps DEF DInv
<1>3. QED
  BY <1>1, <1>2, PTL DEF DSpec

\* A deployment or rollback that fails by itself gives back the release it
\* found, to the link and to the service.
THEOREM FailureKeepsTheRelease == DSpec => []FailureKeepsRelease
<1>1. DInv => FailureKeepsRelease
  BY DEF DInv, Promises
<1>2. QED
  BY <1>1, Inductive, PTL

\* The document names only a release that passed a health check, whatever was
\* interrupted and reconciled before.
THEOREM DocumentIsTrue == DSpec => []RecordedPassed
<1>1. DInv => RecordedPassed
  BY DEF DInv, Promises
<1>2. QED
  BY <1>1, Inductive, PTL

\* Exactly the release the document names is called active: a compensation, a
\* rollback or a crash between two saves leaves no second one.
THEOREM OneIsActive == DSpec => []OneActive
<1>1. DInv => OneActive
  BY DEF DInv, Promises
<1>2. QED
  BY <1>1, Inductive, PTL

\* "Unchanged" is said of the commit the finished release was built from.
THEOREM UnchangedIsTrueAlways == DSpec => []UnchangedIsTrue
<1>1. DInv => UnchangedIsTrue
  BY DEF DInv, Promises
<1>2. QED
  BY <1>1, Inductive, PTL
=============================================================================
