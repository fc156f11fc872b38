---------------------------- MODULE UpdaterAgent ----------------------------
(***************************************************************************)
(* The stand-alone update agent (backend/updater): one durable job record, *)
(* a worker goroutine per accepted job, and a deployment that the agent,   *)
(* the operator and the service manager all change.  The agent may crash   *)
(* between any two steps and recovers from the record alone.               *)
(*                                                                         *)
(* Artifacts are the versions themselves.  installed is what the next      *)
(* restart would run (the binary, or the Compose image selection), running *)
(* what the service runs now.                                              *)
(***************************************************************************)
EXTENDS Integers, FiniteSets

CONSTANTS
  Versions,     \* artifacts of the release catalog
  Broken,       \* those whose service never reports healthy
  First,        \* the version installed at the beginning
  Modes,        \* the modes looked at: docker (TRUE), systemd (FALSE)
  NeedHealthy,  \* consecutive good probes wanted by waitHealthy
  Kept,         \* older job directories that cleanup keeps
  MaxJobs,      \* bound: jobs ever accepted
  MaxCrashes,   \* bound: agent crashes
  MaxFaults,    \* bound: failed writes of the record
  MaxMeddling   \* bound: changes the operator makes behind the agent's back

None == "none"

ASSUME CatalogSound ==
  Broken \subseteq Versions /\ First \in Versions \ Broken /\ None \notin Versions
ASSUME BoundsSound ==
  /\ Modes \subseteq BOOLEAN
  /\ NeedHealthy \in Nat \ {0} /\ Kept \in Nat \ {0}
  /\ MaxJobs \in Nat /\ MaxCrashes \in Nat /\ MaxFaults \in Nat /\ MaxMeddling \in Nat

VARIABLES
  docker,       \* cfg.Mode = "docker" rather than "systemd"
  up,           \* the agent process is running
  disk,         \* status.json
  mem,          \* Agent.job
  work,         \* per job: its goroutine's program counter and local Job
  good,         \* consecutive good probes of the goroutine that is probing
  dirs,         \* job directories or rollback tags; a later job is a newer one
  installed,    \* the version of the executable on the host (systemd)
  running,      \* the version whose process or container runs
  jobs, crashes, faults, meddling   \* how often each has happened, for the bounds

recordVars == <<disk, mem, faults>>
hostVars == <<installed, running>>
moving == <<up, disk, mem, work, good, dirs, installed, running,
            jobs, crashes, faults, meddling>>
vars == <<docker, moving>>

Ids == 1..MaxJobs

Active == {"queued", "preparing", "applying", "validating", "rolling_back"}
Recoverable == {"applying", "validating", "rolling_back", "rollback_failed"}
Phases == Active \cup {"", "succeeded", "failed", "rolled_back", "rollback_failed"}

Jobs == [id : 0..MaxJobs, phase : Phases,
         prev : Versions \cup {None}, target : Versions \cup {None}]
NoJob == [id |-> 0, phase |-> "", prev |-> None, target |-> None]

PCs == {"gone", "savePreparing", "prepare", "saveApplying", "preflight", "copy",
        "restart", "saveValidating", "probe", "saveSucceeded", "fail",
        "rollback", "restartBack", "probeBack", "saveOutcome", "cleanup"}
Idle == [pc |-> "gone", job |-> NoJob]

\* The goroutine of job i goes on at pc with local job j.
At(i, pc, j) == work' = [work EXCEPT ![i] = [pc |-> pc, job |-> j]]

Phase(j, p) == [j EXCEPT !.phase = p]

\* What Prepare backs up and preflight compares: the executable, or the image
\* of the running container.
Artifact == IF docker THEN running ELSE installed

\* Healthy: the service runs exactly the wanted artifact and reports ok.
Healthy(want) == running = want /\ running \notin Broken

-----------------------------------------------------------------------------
\* saveLocked succeeds: the record is replaced atomically, then the memory.
Saved(j) == disk' = j /\ mem' = j /\ UNCHANGED faults

\* It fails: memory keeps the old job; the disk has the new one if only the
\* directory sync after the rename failed.
SaveFails(j) ==
  /\ faults < MaxFaults
  /\ faults' = faults + 1
  /\ mem' = mem
  /\ disk' \in {disk, j}

\* The goroutine of job i saves j and goes on at ok, or fails with job k.
SaveOrFail(i, j, ok, k) ==
  /\ \/ Saved(j) /\ At(i, ok, j)
     \/ SaveFails(j) /\ At(i, "fail", k)
  /\ UNCHANGED <<up, good, dirs, hostVars, jobs, crashes, meddling>>

\* It goes on at pc with job j and saves nothing.
Goto(i, pc, j) ==
  /\ At(i, pc, j)
  /\ UNCHANGED <<up, recordVars, jobs, crashes, meddling>>

-----------------------------------------------------------------------------
Init ==
  /\ docker \in Modes
  /\ up = TRUE
  /\ disk = NoJob /\ mem = NoJob
  /\ work = [i \in Ids |-> Idle]
  /\ good = 0
  /\ dirs = {}
  /\ installed = First /\ running = First
  /\ jobs = 0 /\ crashes = 0 /\ faults = 0 /\ meddling = 0

Accept(v) ==
  /\ jobs < MaxJobs
  /\ jobs' = jobs + 1
  /\ LET j == [id |-> jobs', phase |-> "queued", prev |-> None, target |-> v]
     IN  \/ Saved(j) /\ At(jobs', "savePreparing", j)
         \/ SaveFails(j) /\ UNCHANGED work
  /\ UNCHANGED <<up, good, dirs, hostVars, crashes, meddling>>

\* POST /start: refused while a job is active or its recovery failed.
Start(v) == up /\ mem.phase \notin Active /\ mem.phase # "rollback_failed" /\ Accept(v)

\* run: record the preparing phase.
SavePreparing(i) ==
  /\ work[i].pc = "savePreparing"
  /\ LET j == Phase(work[i].job, "preparing") IN SaveOrFail(i, j, "prepare", j)

\* Prepare: back up the old artifact if the service runs it and is healthy,
\* and fetch the target.  Any part of it may fail, before or after the old
\* artifact is noted in the job.
Prepare(i) ==
  LET j == [work[i].job EXCEPT !.prev = Artifact]
  IN  /\ work[i].pc = "prepare"
      /\ \/ Healthy(Artifact) /\ Goto(i, "saveApplying", j) /\ dirs' = dirs \cup {i}
         \/ /\ Goto(i, "fail", j) \/ Goto(i, "fail", work[i].job)
            /\ dirs' \in {dirs, dirs \cup {i}}
      /\ UNCHANGED <<good, hostVars>>

\* The recovery point is durable before the first change of the application.
SaveApplying(i) ==
  /\ work[i].pc = "saveApplying"
  /\ LET j == Phase(work[i].job, "applying")
     IN  SaveOrFail(i, j, "preflight", Phase(j, "preparing"))

\* Apply, its checks: they fail (errNotApplied) when the artifact is no longer
\* the one backed up, and may fail for other reasons.
Preflight(i) ==
  LET j == work[i].job
  IN  /\ work[i].pc = "preflight"
      /\ \/ Artifact = j.prev /\ Goto(i, "copy", j)
         \/ Goto(i, "fail", Phase(j, "preparing"))
      /\ UNCHANGED <<good, dirs, hostVars>>

\* Apply, the replacement of the executable or of the Compose selection.
Copy(i) ==
  LET j == work[i].job
  IN  /\ work[i].pc = "copy"
      /\ \/ Goto(i, "restart", j) /\ installed' = j.target
         \/ Goto(i, "fail", j) /\ installed' \in {installed, j.target}
      /\ UNCHANGED <<good, dirs, running>>

\* Apply, systemctl restart or docker compose up.
RestartService(i) ==
  LET j == work[i].job
  IN  /\ work[i].pc = "restart"
      /\ \/ Goto(i, "saveValidating", j) /\ running' = installed
         \/ Goto(i, "fail", j) /\ running' \in {running, installed}
      /\ UNCHANGED <<good, dirs, installed>>

SaveValidating(i) ==
  /\ work[i].pc = "saveValidating"
  /\ LET j == Phase(work[i].job, "validating") IN SaveOrFail(i, j, "probe", j)

-----------------------------------------------------------------------------

Enough(n) == n >= NeedHealthy

\* One turn of waitHealthy for job i at pc, wanting artifact want.
ProbeTurn(i, pc, want, then, j) ==
  /\ work[i].pc = pc
  /\ \/ /\ Healthy(want)
        /\ IF Enough(good + 1)
             THEN Goto(i, then, j) /\ good' = 0
             ELSE Goto(i, pc, work[i].job) /\ good' = good + 1
     \/ Goto(i, pc, work[i].job) /\ good' = 0
  /\ UNCHANGED <<dirs, hostVars>>

\* The deadline of waitHealthy passes.
Deadline(i, pc, then, j) ==
  /\ work[i].pc = pc
  /\ Goto(i, then, j)
  /\ good' = 0
  /\ UNCHANGED <<dirs, hostVars>>

Probe(i) == ProbeTurn(i, "probe", work[i].job.target, "saveSucceeded", work[i].job)
ProbeTimeout(i) == Deadline(i, "probe", "fail", work[i].job)

\* Success is claimed; if it cannot be recorded the update is undone.
SaveSucceeded(i) ==
  /\ work[i].pc = "saveSucceeded"
  /\ SaveOrFail(i, Phase(work[i].job, "succeeded"), "cleanup", Phase(work[i].job, "validating"))

\* Mutated form: the rollback is not recorded before it starts.
Fail_RollbackUnrecorded(i) ==
  LET j == work[i].job
  IN  /\ work[i].pc = "fail"
      /\ IF j.phase \in {"queued", "preparing"}
           THEN Goto(i, "saveOutcome", Phase(j, "failed"))
           ELSE Goto(i, "rollback", Phase(j, "rolling_back"))
      /\ UNCHANGED <<good, dirs, hostVars>>

\* fail: nothing was switched, or roll back (a failed save is only logged).
Fail(i) ==
  LET j == work[i].job
      r == Phase(j, "rolling_back")
  IN  /\ work[i].pc = "fail"
      /\ IF j.phase \in {"queued", "preparing"}
           THEN Goto(i, "saveOutcome", Phase(j, "failed"))
           ELSE /\ Saved(r) \/ SaveFails(r)
                /\ At(i, "rollback", r)
                /\ UNCHANGED <<up, jobs, crashes, meddling>>
      /\ UNCHANGED <<good, dirs, hostVars>>

\* Rollback, the restored artifact; without a record or backup it fails.
Rollback(i) ==
  LET j == work[i].job
      possible == j.prev # None /\ (docker \/ i \in dirs)
  IN  /\ work[i].pc = "rollback"
      /\ \/ possible /\ Goto(i, "restartBack", j) /\ installed' = j.prev
         \/ /\ Goto(i, "saveOutcome", Phase(j, "rollback_failed"))
            /\ installed' \in {installed} \cup (IF possible THEN {j.prev} ELSE {})
      /\ UNCHANGED <<good, dirs, running>>

RestartBack(i) ==
  LET j == work[i].job
  IN  /\ work[i].pc = "restartBack"
      /\ \/ Goto(i, "probeBack", j) /\ running' = installed
         \/ Goto(i, "saveOutcome", Phase(j, "rollback_failed")) /\ running' \in {running, installed}
      /\ UNCHANGED <<good, dirs, installed>>

ProbeBack(i) ==
  ProbeTurn(i, "probeBack", work[i].job.prev, "saveOutcome", Phase(work[i].job, "rolled_back"))
ProbeBackTimeout(i) ==
  Deadline(i, "probeBack", "saveOutcome", Phase(work[i].job, "rollback_failed"))

\* The outcome is saved; a failed save is only logged.
SaveOutcome(i) ==
  LET j == work[i].job
  IN  /\ work[i].pc = "saveOutcome"
      /\ Saved(j) \/ SaveFails(j)
      /\ At(i, "cleanup", j)
      /\ UNCHANGED <<up, good, dirs, hostVars, jobs, crashes, meddling>>

\* Mutated form: one directory fewer is kept.
Expendable_OneMore(i) == {d \in dirs \ {i} : Cardinality({e \in dirs \ {i} : e > d}) >= Kept - 1}

\* The directories older than the newest Kept ones, job i's own left out.
Expendable(i) == {d \in dirs \ {i} : Cardinality({e \in dirs \ {i} : e > d}) >= Kept}

\* cleanup, with any of its removals failing; the goroutine ends.
Cleanup(i) ==
  /\ work[i].pc = "cleanup"
  /\ Goto(i, "gone", NoJob)
  /\ IF work[i].job.phase = "rollback_failed"
       THEN UNCHANGED dirs
       ELSE \E gone \in SUBSET Expendable(i) : dirs' = dirs \ gone
  /\ UNCHANGED <<good, hostVars>>

Work(i) ==
  \/ SavePreparing(i) \/ Prepare(i) \/ SaveApplying(i) \/ Preflight(i) \/ Copy(i)
  \/ RestartService(i) \/ SaveValidating(i) \/ Probe(i) \/ SaveSucceeded(i)
  \/ Fail(i) \/ Rollback(i) \/ RestartBack(i) \/ ProbeBack(i)
  \/ SaveOutcome(i) \/ Cleanup(i)
Timeout(i) == ProbeTimeout(i) \/ ProbeBackTimeout(i)

-----------------------------------------------------------------------------
\* The agent process ends at any point, its goroutines with it.
Crash ==
  /\ up /\ crashes < MaxCrashes
  /\ up' = FALSE
  /\ mem' = NoJob
  /\ work' = [i \in Ids |-> Idle]
  /\ good' = 0
  /\ crashes' = crashes + 1
  /\ UNCHANGED <<disk, dirs, hostVars, jobs, faults, meddling>>

Recover(j) == up' = TRUE /\ At(j.id, "fail", j)

\* Mutated form: a job that had not begun to validate is not recovered.
Boot_ForgetsApplying ==
  /\ ~up
  /\ IF disk.phase \in Active \ {"applying"}
       THEN Recover(disk) /\ mem' = disk /\ UNCHANGED <<disk, faults>>
       ELSE up' = TRUE /\ mem' = disk /\ UNCHANGED <<work, disk, faults>>
  /\ UNCHANGED <<good, dirs, hostVars, jobs, crashes, meddling>>

\* RunAgent: read the record and recover an unfinished job.
Boot ==
  LET r == Phase(disk, "rolling_back")
  IN  /\ ~up
      /\ \/ /\ disk.phase \in Active
            /\ Recover(disk) /\ mem' = disk /\ UNCHANGED <<disk, faults>>
         \/ /\ disk.phase = "rollback_failed"
            /\ \/ Saved(r) /\ Recover(r)
               \/ SaveFails(r) /\ UNCHANGED <<up, work>>
         \/ /\ disk.phase \notin Active \cup {"rollback_failed"}
            /\ up' = TRUE /\ mem' = disk /\ UNCHANGED <<work, disk, faults>>
      /\ UNCHANGED <<good, dirs, hostVars, jobs, crashes, meddling>>

\* Another operator replaces the artifact, with or without a restart.
OperatorChange(v) ==
  /\ meddling < MaxMeddling /\ v # installed
  /\ meddling' = meddling + 1
  /\ installed' = v
  /\ running' \in {running, v}
  /\ UNCHANGED <<up, recordVars, work, good, dirs, jobs, crashes>>

\* The service manager, or the operator, restarts the service.
ServiceRestarts ==
  /\ running # installed
  /\ running' = installed
  /\ UNCHANGED <<up, recordVars, work, good, dirs, installed, jobs, crashes, meddling>>

Next ==
  /\ \/ \E v \in Versions : Start(v) \/ OperatorChange(v)
     \/ \E i \in Ids : Work(i) \/ Timeout(i)
     \/ Crash \/ Boot \/ ServiceRestarts
  /\ UNCHANGED docker

Spec == Init /\ [][Next]_vars

\* The goroutines run, deadlines pass, and systemd or Docker restarts the agent.
FairSpec ==
  /\ Spec
  /\ \A i \in Ids : WF_moving(Work(i)) /\ WF_moving(Timeout(i))
  /\ WF_moving(Boot)

-----------------------------------------------------------------------------
TypeOK ==
  /\ docker \in BOOLEAN /\ up \in BOOLEAN
  /\ disk \in Jobs /\ mem \in Jobs
  /\ work \in [Ids -> [pc : PCs, job : Jobs]]
  /\ good \in 0..(NeedHealthy - 1)
  /\ dirs \subseteq Ids
  /\ installed \in Versions /\ running \in Versions
  /\ jobs \in 0..MaxJobs /\ crashes \in 0..MaxCrashes
  /\ faults \in 0..MaxFaults /\ meddling \in 0..MaxMeddling

Working(i) == work[i].pc \notin {"gone", "cleanup"}

\* "Repeated clicks do not start a second upgrade": a goroutine that may still
\* touch the deployment belongs to the job in memory, which is active; so
\* there is never a second one, whatever saves failed and however often the
\* agent crashed (agent.go: start, run, fail, RunAgent).
OneWorker == \A i \in Ids : Working(i) => up /\ mem.id = i /\ mem.phase \in Active

\* "Persist rollback information BEFORE the first mutation of the app": when a
\* goroutine changes what is installed or running, the record on disk names
\* its job and the artifact to restore, in a phase that a restarted agent rolls
\* back.  (Two failed writes in a row can leave "succeeded" on disk while the
\* rollback runs, hence the bound on faults.)
RecoveryPointFirst ==
  [][\A i \in Ids : work'[i] # work[i] /\ hostVars' # hostVars =>
        /\ disk.id = i /\ disk.prev \in Versions
        /\ faults < 2 => disk.phase \in Recoverable]_vars

\* While the record may still lead to a rollback, the backup it needs exists:
\* the cleanup of an earlier job, running beside it, never takes it away.
BackupKept == disk.phase \in Recoverable => disk.id \in dirs

\* What the record claims after a restart is true of the deployment unless the
\* operator interfered: success means that the target is installed and runs,
\* a completed rollback that the old artifact does.
RecordHonest ==
  faults < 2 /\ meddling = 0 =>
    /\ disk.phase = "succeeded" => installed = disk.target /\ running = disk.target
    /\ disk.phase = "rolled_back" => installed = disk.prev /\ running = disk.prev

\* An accepted update ends with an outcome on disk, over crashes, broken
\* versions and operators (but not over failed writes of the record, after
\* which the agent can stay busy until it is restarted).
UpdateEnds ==
  [](faults = 0) => \A i \in Ids : (disk.id = i /\ disk.phase \in Active) ~> (disk.id = i => disk.phase \notin Active)
=============================================================================
