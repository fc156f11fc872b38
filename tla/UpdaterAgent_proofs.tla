------------------------- MODULE UpdaterAgent_proofs -------------------------
(***************************************************************************)
(* The update agent for any catalog and any bounds: one goroutine at a     *)
(* time touches the deployment, the record names the way back before it is *)
(* needed, the backup is kept as long as it may be, and what the record    *)
(* claims is true.                                                         *)
(*                                                                         *)
(* None of these is inductive.  The invariant adds, for the goroutine that *)
(* is at work, what its job, the record and the host have to do with each  *)
(* other at each of its steps (WorkerSound), and that the record belongs   *)
(* to the newest job that ever got a directory (DiskSound), which is why   *)
(* the cleanup of an older job spares its backup.                          *)
(***************************************************************************)
EXTENDS UpdaterAgent, FiniteSetTheorems, TLAPS

\* Phases of a job that has switched nothing, and of one that may have.
Early == {"queued", "preparing", "failed"}
Late == Recoverable \cup {"rolled_back"}

\* The phase that the local job has at each step.
PhaseFits(i) ==
  LET pc == work[i].pc  p == work[i].job.phase
  IN  /\ pc = "savePreparing" => p = "queued"
      /\ pc \in {"prepare", "saveApplying"} => p = "preparing"
      /\ pc \in {"preflight", "copy", "restart", "saveValidating"} => p = "applying"
      /\ pc \in {"probe", "saveSucceeded"} => p = "validating"
      /\ pc = "fail" => p \in Active
      /\ pc \in {"rollback", "restartBack", "probeBack"} => p = "rolling_back"
      /\ pc = "saveOutcome" => p \in {"failed", "rolled_back", "rollback_failed"}

\* What the record says while the job is at work.  Only two failed writes in a
\* row leave a success on disk beside a rollback.
RecordFits(i) ==
  LET pc == work[i].pc  j == work[i].job
  IN  /\ disk.id = i /\ disk.target = j.target
      /\ j.phase \in Early => disk.phase \in {"queued", "preparing", "applying"}
      /\ j.phase \in Late => disk.prev = j.prev
      /\ j.phase \in {"applying", "validating"} /\ pc # "fail" => disk.phase = j.phase
      /\ pc = "fail" /\ j.phase \in Recoverable =>
           disk.phase \in Recoverable \/ (faults >= 1 /\ disk.phase = "succeeded")
      /\ j.phase \in {"rolling_back", "rolled_back", "rollback_failed"} /\ pc # "fail" /\ faults < 2 =>
           disk.phase \in Recoverable

\* The way back: its backup and the artifact in it.
WayBack(i) ==
  work[i].pc = "saveApplying" \/ work[i].job.phase \in Late =>
    i \in dirs /\ work[i].job.prev \in Versions

\* The host, as long as nobody else changes it.
HostFits(i) ==
  LET pc == work[i].pc  j == work[i].job
  IN  meddling = 0 =>
        /\ pc = "restart" => installed = j.target
        /\ pc \in {"saveValidating", "probe", "saveSucceeded"} => installed = j.target /\ running = j.target
        /\ pc = "restartBack" => installed = j.prev
        /\ pc = "probeBack" \/ (pc = "saveOutcome" /\ j.phase = "rolled_back") =>
             installed = j.prev /\ running = j.prev

WorkerSound(i) ==
  /\ work[i].pc # "gone" => up
  /\ Working(i) =>
       /\ mem.id = i /\ mem.phase \in Active /\ work[i].job.id = i
       /\ work[i].job.target \in Versions
       /\ PhaseFits(i) /\ RecordFits(i) /\ WayBack(i) /\ HostFits(i)

WorkersSound == \A i \in Ids : WorkerSound(i)

DiskSound ==
  /\ disk.id <= jobs
  /\ disk.phase # "" => disk.id # 0 /\ disk.target \in Versions
  /\ disk.phase \in Recoverable => disk.prev \in Versions
  /\ \A d \in dirs : d <= disk.id

Sound == WorkersSound /\ DiskSound /\ BackupKept /\ RecordHonest

IInv == TypeOK /\ Sound

USE CatalogSound, BoundsSound DEF Ids

-----------------------------------------------------------------------------
(* Types. *)

\* A job keeps its shape under a new phase, and so does the goroutines' table.
LEMMA PhaseTyped ==
  ASSUME NEW j \in Jobs, NEW p \in Phases
  PROVE  Phase(j, p) \in Jobs
BY DEF Phase, Jobs

\* A place of the worker is one there is.
LEMMA AtTyped ==
  ASSUME NEW i \in Ids, NEW pc \in PCs, NEW j \in Jobs,
         work \in [Ids -> [pc : PCs, job : Jobs]], At(i, pc, j)
  PROVE  work' \in [Ids -> [pc : PCs, job : Jobs]]
BY DEF At

\* A write of the record, done or failed, keeps its type.
LEMMA WriteTyped ==
  ASSUME TypeOK, NEW j \in Jobs, Saved(j) \/ SaveFails(j)
  PROVE  disk' \in Jobs /\ mem' \in Jobs /\ faults' \in 0..MaxFaults
BY DEF TypeOK, Saved, SaveFails

\* One that is followed by a step of the goroutine.
LEMMA SaveOrFailTyped ==
  ASSUME TypeOK, NEW i \in Ids, NEW j \in Jobs, NEW k \in Jobs, NEW ok \in PCs,
         SaveOrFail(i, j, ok, k), docker' = docker
  PROVE  TypeOK'
<1>1. "fail" \in PCs
      BY DEF PCs
<1>2. disk' \in Jobs /\ mem' \in Jobs /\ faults' \in 0..MaxFaults
      BY WriteTyped DEF SaveOrFail
<1>3. work' \in [Ids -> [pc : PCs, job : Jobs]]
      BY <1>1, AtTyped DEF SaveOrFail, TypeOK
<1> QED
    BY <1>2, <1>3 DEF SaveOrFail, TypeOK, hostVars

\* A worker that goes on stays well typed.
LEMMA GotoTyped ==
  ASSUME TypeOK, NEW i \in Ids, NEW pc \in PCs, NEW j \in Jobs, Goto(i, pc, j)
  PROVE  /\ work' \in [Ids -> [pc : PCs, job : Jobs]]
         /\ up' = up /\ disk' = disk /\ mem' = mem /\ faults' = faults
         /\ jobs' = jobs /\ crashes' = crashes /\ meddling' = meddling
<1>1. At(i, pc, j) /\ work \in [Ids -> [pc : PCs, job : Jobs]]
      BY DEF Goto, TypeOK
<1> QED
    BY <1>1, AtTyped DEF Goto, recordVars

\* The initial state is well typed.
LEMMA InitTyped == Init => TypeOK
<1> SUFFICES ASSUME Init PROVE TypeOK
    OBVIOUS
<1>1. NoJob \in Jobs
      BY DEF NoJob, Jobs, Phases
<1>2. Idle \in [pc : PCs, job : Jobs]
      BY <1>1 DEF Idle, PCs
<1>3. docker \in BOOLEAN /\ First \in Versions /\ 0 \in 0..(NeedHealthy - 1)
      BY DEF Init
<1> QED
    BY <1>1, <1>2, <1>3 DEF Init, TypeOK

\* Every step of a goroutine keeps the types.
LEMMA WorkTyped ==
  ASSUME TypeOK, NEW i \in Ids, Working(i) => work[i].job.target \in Versions,
         Work(i) \/ Timeout(i), docker' = docker
  PROVE  TypeOK'
<1> DEFINE j == work[i].job
<1>1. j \in Jobs /\ j.prev \in Versions \cup {None} /\ j.target \in Versions \cup {None}
      BY DEF TypeOK, Jobs
<1>2. \A p \in Phases : Phase(j, p) \in Jobs
      BY <1>1, PhaseTyped
<1>3. \A p \in Phases : Phase(Phase(j, "applying"), p) \in Jobs
      BY <1>2, PhaseTyped DEF Phases, Active
<1>4. [j EXCEPT !.prev = Artifact] \in Jobs
      BY <1>1 DEF Jobs, Artifact, TypeOK
<1>5. \A pc \in PCs, g \in Jobs : Goto(i, pc, g) =>
         /\ work' \in [Ids -> [pc : PCs, job : Jobs]]
         /\ up' = up /\ disk' = disk /\ mem' = mem /\ faults' = faults
         /\ jobs' = jobs /\ crashes' = crashes /\ meddling' = meddling
      BY GotoTyped
<1>6. CASE SavePreparing(i)
      BY <1>1, <1>2, <1>6, SaveOrFailTyped DEF SavePreparing, PCs, Phases, Active
<1>7. CASE SaveApplying(i)
      BY <1>1, <1>2, <1>3, <1>7, SaveOrFailTyped DEF SaveApplying, PCs, Phases, Active
<1>8. CASE SaveValidating(i)
      BY <1>1, <1>2, <1>8, SaveOrFailTyped DEF SaveValidating, PCs, Phases, Active
<1>9. CASE SaveSucceeded(i)
      BY <1>1, <1>2, <1>9, SaveOrFailTyped DEF SaveSucceeded, PCs, Phases, Active
<1>10. CASE Prepare(i)
  <2>1. work' \in [Ids -> [pc : PCs, job : Jobs]] /\ UNCHANGED <<up, disk, mem, faults, jobs, crashes, meddling>>
        BY <1>1, <1>4, <1>5, <1>10 DEF Prepare, PCs
  <2> QED
      BY <1>10, <2>1 DEF Prepare, TypeOK, hostVars
<1>11. CASE Preflight(i)
  <2>1. work' \in [Ids -> [pc : PCs, job : Jobs]] /\ UNCHANGED <<up, disk, mem, faults, jobs, crashes, meddling>>
        BY <1>1, <1>2, <1>5, <1>11 DEF Preflight, PCs, Phases, Active
  <2> QED
      BY <1>11, <2>1 DEF Preflight, TypeOK, hostVars
<1>12. CASE Copy(i)
  <2>1. work' \in [Ids -> [pc : PCs, job : Jobs]] /\ UNCHANGED <<up, disk, mem, faults, jobs, crashes, meddling>>
        BY <1>1, <1>2, <1>5, <1>12 DEF Copy, PCs, Phases, Active
  <2>2. j.target \in Versions
        BY <1>12 DEF Copy, Working
  <2> QED
      BY <1>1, <1>12, <2>1, <2>2 DEF Copy, TypeOK, hostVars
<1>13. CASE RestartService(i)
  <2>1. work' \in [Ids -> [pc : PCs, job : Jobs]] /\ UNCHANGED <<up, disk, mem, faults, jobs, crashes, meddling>>
        BY <1>1, <1>2, <1>5, <1>13 DEF RestartService, PCs, Phases, Active
  <2>2. j.target \in Versions
        BY <1>13 DEF RestartService, Working
  <2> QED
      BY <1>1, <1>13, <2>1, <2>2 DEF RestartService, TypeOK, hostVars
<1>14. CASE Probe(i)
  <2>1. work' \in [Ids -> [pc : PCs, job : Jobs]] /\ UNCHANGED <<up, disk, mem, faults, jobs, crashes, meddling>>
        BY <1>1, <1>2, <1>5, <1>14 DEF Probe, PCs, Phases, Active, ProbeTurn, Enough
  <2> QED
      BY <1>1, <1>14, <2>1 DEF Probe, TypeOK, hostVars, ProbeTurn, Enough
<1>15. CASE ProbeTimeout(i)
  <2>1. work' \in [Ids -> [pc : PCs, job : Jobs]] /\ UNCHANGED <<up, disk, mem, faults, jobs, crashes, meddling>>
        BY <1>1, <1>2, <1>5, <1>15 DEF ProbeTimeout, PCs, Phases, Active, Deadline
  <2> QED
      BY <1>1, <1>15, <2>1 DEF ProbeTimeout, TypeOK, hostVars, Deadline
<1>16. CASE ProbeBack(i)
  <2>1. work' \in [Ids -> [pc : PCs, job : Jobs]] /\ UNCHANGED <<up, disk, mem, faults, jobs, crashes, meddling>>
        BY <1>1, <1>2, <1>5, <1>16 DEF ProbeBack, PCs, Phases, Active, ProbeTurn, Enough
  <2> QED
      BY <1>1, <1>16, <2>1 DEF ProbeBack, TypeOK, hostVars, ProbeTurn, Enough
<1>17. CASE ProbeBackTimeout(i)
  <2>1. work' \in [Ids -> [pc : PCs, job : Jobs]] /\ UNCHANGED <<up, disk, mem, faults, jobs, crashes, meddling>>
        BY <1>1, <1>2, <1>5, <1>17 DEF ProbeBackTimeout, PCs, Phases, Active, Deadline
  <2> QED
      BY <1>1, <1>17, <2>1 DEF ProbeBackTimeout, TypeOK, hostVars, Deadline
<1>18. CASE Fail(i)
  <2>1. CASE j.phase \in {"queued", "preparing"}
    <3>1. work' \in [Ids -> [pc : PCs, job : Jobs]] /\ UNCHANGED <<up, disk, mem, faults, jobs, crashes, meddling>>
          BY <1>2, <1>5, <1>18, <2>1 DEF Fail, PCs, Phases
    <3> QED
        BY <1>18, <3>1 DEF Fail, TypeOK, hostVars
  <2>2. CASE j.phase \notin {"queued", "preparing"}
    <3>1. Phase(j, "rolling_back") \in Jobs
          BY <1>2 DEF Phases, Active
    <3>2. disk' \in Jobs /\ mem' \in Jobs /\ faults' \in 0..MaxFaults
          BY <1>18, <2>2, <3>1, WriteTyped DEF Fail
    <3>3. "rollback" \in PCs
          BY DEF PCs
    <3>4. work' \in [Ids -> [pc : PCs, job : Jobs]]
          BY <1>18, <2>2, <3>1, <3>3, AtTyped DEF Fail, TypeOK
    <3> QED
        BY <1>18, <2>2, <3>2, <3>4 DEF Fail, TypeOK, hostVars
  <2> QED
      BY <2>1, <2>2
<1>19. CASE Rollback(i)
  <2>1. work' \in [Ids -> [pc : PCs, job : Jobs]] /\ UNCHANGED <<up, disk, mem, faults, jobs, crashes, meddling>>
        BY <1>1, <1>2, <1>5, <1>19 DEF Rollback, PCs, Phases, Active
  <2> QED
      BY <1>1, <1>19, <2>1 DEF Rollback, TypeOK, hostVars
<1>20. CASE RestartBack(i)
  <2>1. work' \in [Ids -> [pc : PCs, job : Jobs]] /\ UNCHANGED <<up, disk, mem, faults, jobs, crashes, meddling>>
        BY <1>1, <1>2, <1>5, <1>20 DEF RestartBack, PCs, Phases, Active
  <2> QED
      BY <1>1, <1>20, <2>1 DEF RestartBack, TypeOK, hostVars
<1>21. CASE SaveOutcome(i)
  <2>1. disk' \in Jobs /\ mem' \in Jobs /\ faults' \in 0..MaxFaults
        BY <1>1, <1>21, WriteTyped DEF SaveOutcome
  <2>2. "cleanup" \in PCs
        BY DEF PCs
  <2>3. work' \in [Ids -> [pc : PCs, job : Jobs]]
        BY <1>1, <1>21, <2>2, AtTyped DEF SaveOutcome, TypeOK
  <2> QED
      BY <1>21, <2>1, <2>3 DEF SaveOutcome, TypeOK, hostVars
<1>22. CASE Cleanup(i)
  <2>1. NoJob \in Jobs
        BY DEF NoJob, Jobs, Phases
  <2>2. work' \in [Ids -> [pc : PCs, job : Jobs]] /\ UNCHANGED <<up, disk, mem, faults, jobs, crashes, meddling>>
        BY <1>5, <1>22, <2>1 DEF Cleanup, PCs
  <2> QED
      BY <1>22, <2>2 DEF Cleanup, TypeOK, hostVars
<1> QED
    BY <1>6, <1>7, <1>8, <1>9, <1>10, <1>11, <1>12, <1>13, <1>14, <1>15, <1>16, <1>17, <1>18,
       <1>19, <1>20, <1>21, <1>22 DEF Work, Timeout

\* So does everything else, and nothing.
LEMMA StepTyped == TypeOK /\ WorkersSound /\ DiskSound /\ [Next]_vars => TypeOK'
<1> SUFFICES ASSUME TypeOK, WorkersSound, DiskSound, [Next]_vars PROVE TypeOK'
    OBVIOUS
<1>1. ASSUME NEW v \in Versions, Start(v), docker' = docker PROVE TypeOK'
  <2> DEFINE j == [id |-> jobs + 1, phase |-> "queued", prev |-> None, target |-> v]
  <2> USE DEF hostVars
  <2>1. jobs + 1 \in 1..MaxJobs
        BY <1>1 DEF Start, Accept, TypeOK
  <2>1a. j \in Jobs
        BY <2>1 DEF Jobs, Phases, Active
  <2>2. Saved(j) \/ SaveFails(j)
        BY <1>1 DEF Start, Accept
  <2>3. disk' \in Jobs /\ mem' \in Jobs /\ faults' \in 0..MaxFaults
        BY <2>1a, <2>2, WriteTyped
  <2>4. "savePreparing" \in PCs
        BY DEF PCs
  <2>5. work' \in [Ids -> [pc : PCs, job : Jobs]]
        BY <1>1, <2>1, <2>1a, <2>4, AtTyped DEF Start, Accept, TypeOK
  <2> QED
      BY <1>1, <2>1, <2>3, <2>5 DEF Start, Accept, TypeOK, hostVars
<1>2. ASSUME NEW v \in Versions, OperatorChange(v), docker' = docker PROVE TypeOK'
      BY <1>2 DEF OperatorChange, TypeOK, recordVars
<1>3. ASSUME NEW i \in Ids, Work(i) \/ Timeout(i), docker' = docker PROVE TypeOK'
      BY <1>3, WorkTyped DEF WorkersSound, WorkerSound
<1>4. CASE Crash /\ docker' = docker
  <2>1. NoJob \in Jobs
        BY DEF NoJob, Jobs, Phases
  <2>2. Idle \in [pc : PCs, job : Jobs]
        BY <2>1 DEF Idle, PCs
  <2>3. 0 \in 0..(NeedHealthy - 1) /\ crashes' \in 0..MaxCrashes
        BY <1>4 DEF Crash, TypeOK
  <2>4. work' \in [Ids -> [pc : PCs, job : Jobs]]
        BY <1>4, <2>2 DEF Crash
  <2> QED
      BY <1>4, <2>1, <2>3, <2>4 DEF Crash, TypeOK, hostVars
<1>5. CASE Boot /\ docker' = docker
  <2> DEFINE r == Phase(disk, "rolling_back")
  <2>1. r \in Jobs /\ disk \in Jobs /\ disk.id \in 0..MaxJobs /\ r.id = disk.id
        BY PhaseTyped DEF TypeOK, Phases, Active, Jobs, Phase
  <2>2. work' \in [Ids -> [pc : PCs, job : Jobs]]
    <3>1. CASE UNCHANGED work
          BY <3>1 DEF TypeOK
    <3>2. ASSUME NEW g \in {disk, r}, Recover(g), disk.phase # ""
          PROVE  work' \in [Ids -> [pc : PCs, job : Jobs]]
      <4>1. disk.id # 0
            BY <3>2 DEF DiskSound
      <4>1a. g \in Jobs /\ g.id \in Ids
            BY <2>1, <4>1
      <4>2. "fail" \in PCs
            BY DEF PCs
      <4> QED
          BY <3>2, <4>1a, <4>2, AtTyped DEF Recover, TypeOK
    <3> QED
        BY <1>5, <3>1, <3>2 DEF Boot, Active
  <2>3. disk' \in Jobs /\ mem' \in Jobs /\ faults' \in 0..MaxFaults
        BY <1>5, <2>1, WriteTyped DEF Boot, TypeOK
  <2>4. up' \in BOOLEAN
        BY <1>5 DEF Boot, Recover, TypeOK
  <2> QED
      BY <1>5, <2>2, <2>3, <2>4 DEF Boot, TypeOK, hostVars
<1>6. CASE ServiceRestarts /\ docker' = docker
      BY <1>6 DEF ServiceRestarts, TypeOK, recordVars
<1>7. CASE UNCHANGED vars
      BY <1>7 DEF vars, moving, TypeOK
<1> QED
    BY <1>1, <1>2, <1>3, <1>4, <1>5, <1>6, <1>7 DEF Next

-----------------------------------------------------------------------------
(* Soundness. *)

\* The goroutine that works is the only one, so its own soundness is enough.
LEMMA OneMoves ==
  ASSUME WorkersSound, NEW i \in Ids, Working(i), up' = up,
         \A k \in Ids \ {i} : work'[k] = work[k], WorkerSound(i)'
  PROVE  WorkersSound'
<1> SUFFICES ASSUME NEW k \in Ids \ {i} PROVE WorkerSound(k)'
    BY DEF WorkersSound
<1>1. mem.id = i /\ WorkerSound(k)
      BY DEF WorkersSound, WorkerSound
<1>2. ~Working(k)
      BY <1>1 DEF WorkerSound
<1> QED
    BY <1>1, <1>2 DEF WorkerSound, Working

\* What a goroutine at work may rely on.
LEMMA AtWork ==
  ASSUME TypeOK, Sound, NEW i \in Ids, Working(i)
  PROVE  /\ up /\ mem.id = i /\ mem.phase \in Active
         /\ work[i].job \in Jobs /\ work[i].job.id = i /\ work[i].job.target \in Versions
         /\ PhaseFits(i) /\ RecordFits(i) /\ WayBack(i) /\ HostFits(i)
BY DEF TypeOK, Sound, WorkersSound, WorkerSound, Working

\* The goroutine's entry after a step.
LEMMA AfterAt ==
  ASSUME TypeOK, NEW i \in Ids, NEW pc, NEW j, At(i, pc, j)
  PROVE  work'[i].pc = pc /\ work'[i].job = j /\ \A k \in Ids \ {i} : work'[k] = work[k]
BY DEF TypeOK, At

\* The cleanup of a job never takes the directory of the job on record: no
\* directory is newer.
LEMMA NewestStays ==
  ASSUME TypeOK, DiskSound, NEW i \in Ids, Cleanup(i), disk.id \in dirs
  PROVE  disk.id \in dirs'
<1>0. dirs \subseteq 1..MaxJobs /\ disk.id \in 0..MaxJobs /\ \A d \in dirs : d <= disk.id
      BY DEF DiskSound, TypeOK, Jobs
<1>1. \A e \in dirs \ {i} : ~(e > disk.id)
      BY <1>0
<1>1a. {e \in dirs \ {i} : e > disk.id} = {}
      BY <1>1
<1>2. Cardinality({e \in dirs \ {i} : e > disk.id}) = 0
      BY <1>1a, FS_EmptySet
<1>3. disk.id \notin Expendable(i)
      BY <1>2 DEF Expendable
<1> QED
    BY <1>3 DEF Cleanup

\* A job under a new phase is otherwise the same.
LEMMA PhaseOnly ==
  ASSUME NEW j \in Jobs, NEW p
  PROVE  LET g == Phase(j, p) IN g.phase = p /\ g.id = j.id /\ g.prev = j.prev /\ g.target = j.target
BY DEF Phase, Jobs

\* A step of the goroutine at work keeps everything sound.
LEMMA WorkSound ==
  ASSUME TypeOK, Sound, NEW i \in Ids, Work(i) \/ Timeout(i), ~Cleanup(i)
  PROVE  Sound'
<1> DEFINE j == work[i].job
           w == work'[i]
<1>0. /\ work \in [Ids -> [pc : PCs, job : Jobs]] /\ j \in Jobs /\ disk \in Jobs
      /\ i \in Nat /\ i # 0 /\ jobs \in Nat /\ faults \in Nat /\ dirs \subseteq Nat
      /\ installed \in Versions /\ running \in Versions
      BY DEF TypeOK
<1>q. \A g \in Jobs : \A p : /\ Phase(g, p).phase = p /\ Phase(g, p).id = g.id
                             /\ Phase(g, p).prev = g.prev /\ Phase(g, p).target = g.target
      BY PhaseOnly
<1>r. Phase(j, "applying") \in Jobs /\ [j EXCEPT !.prev = Artifact] \in Jobs
      /\ [j EXCEPT !.prev = Artifact].id = j.id /\ [j EXCEPT !.prev = Artifact].target = j.target
      /\ [j EXCEPT !.prev = Artifact].phase = j.phase /\ [j EXCEPT !.prev = Artifact].prev \in Versions
      BY <1>0 DEF Jobs, Phase, Phases, Active, Artifact
<1>p. (\A p : /\ Phase(j, p).phase = p /\ Phase(j, p).id = j.id
              /\ Phase(j, p).prev = j.prev /\ Phase(j, p).target = j.target)
      /\ LET a == Phase(j, "applying")
         IN  \A p : /\ Phase(a, p).phase = p /\ Phase(a, p).id = j.id
                    /\ Phase(a, p).prev = j.prev /\ Phase(a, p).target = j.target
      BY <1>0, <1>q, <1>r
<1>g. \A pc : \A g : Goto(i, pc, g) =>
        w.pc = pc /\ w.job = g /\ disk' = disk /\ mem' = mem /\ faults' = faults
      BY <1>0 DEF Goto, At, recordVars
<1>1. CASE SavePreparing(i)
  <2>1. Working(i) /\ up' = up /\ jobs' = jobs /\ meddling' = meddling
        BY <1>1 DEF SavePreparing, SaveOrFail, Saved, SaveFails, hostVars, Working
  <2>2. /\ up /\ mem.id = i /\ mem.phase \in Active /\ j.id = i /\ j.target \in Versions
        /\ disk.id = i /\ disk.target = j.target
        /\ j.phase = "queued" /\ disk.phase \in {"queued", "preparing", "applying"}
        BY <2>1, <1>1, AtWork DEF SavePreparing, PhaseFits, RecordFits, WayBack, HostFits, Active,
           Early, Late, Recoverable
  <2>3. \A k \in Ids \ {i} : work'[k] = work[k]
        BY <1>0, <1>1 DEF SavePreparing, SaveOrFail, Saved, SaveFails, hostVars, At
  <2>4. /\ w.job.id = i /\ w.job.target = j.target /\ w.job.prev = j.prev
        /\ w.job.phase = "preparing"
        /\ \/ w.pc = "prepare" /\ disk' = w.job /\ mem' = w.job /\ faults' = faults
           \/ w.pc = "fail" /\ mem' = mem /\ faults' = faults + 1 /\ disk' \in {disk, w.job}
        /\ dirs' = dirs
        /\ installed' = installed /\ running' = running
        BY <1>0, <1>g, <1>p, <1>1, <2>2 DEF SavePreparing, SaveOrFail, Saved, SaveFails, hostVars,
           At
  <2>5. WorkerSound(i)'
        BY <1>0, <2>1, <2>2, <2>4 DEF WorkerSound, Working, PhaseFits, RecordFits, WayBack,
           HostFits, Active, Early, Late, Recoverable
  <2>6. DiskSound'
        BY <1>0, <2>1, <2>2, <2>4 DEF Sound, DiskSound, Active, Early, Late, Recoverable
  <2>7. BackupKept'
        BY <1>0, <2>1, <2>2, <2>4 DEF Sound, BackupKept, Active, Early, Late, Recoverable
  <2>8. RecordHonest'
        BY <1>0, <2>1, <2>2, <2>4 DEF Sound, RecordHonest, Active, Early, Late, Recoverable
  <2> QED
      BY <2>1, <2>3, <2>5, <2>6, <2>7, <2>8, OneMoves DEF Sound
<1>2. CASE Prepare(i)
  <2>1. Working(i) /\ up' = up /\ jobs' = jobs /\ meddling' = meddling
        BY <1>2 DEF Prepare, Goto, recordVars, hostVars, Working
  <2>2. /\ up /\ mem.id = i /\ mem.phase \in Active /\ j.id = i /\ j.target \in Versions
        /\ disk.id = i /\ disk.target = j.target
        /\ j.phase = "preparing" /\ disk.phase \in {"queued", "preparing", "applying"}
        BY <2>1, <1>2, AtWork DEF Prepare, PhaseFits, RecordFits, WayBack, HostFits, Active,
           Early, Late, Recoverable
  <2>3. \A k \in Ids \ {i} : work'[k] = work[k]
        BY <1>0, <1>2 DEF Prepare, Goto, recordVars, hostVars, At
  <2>4. /\ w.job.id = i /\ w.job.target = j.target /\ w.job.phase = "preparing"
        /\ \/ w.pc = "saveApplying" /\ w.job.prev \in Versions /\ i \in dirs'
           \/ w.pc = "fail"
        /\ disk' = disk /\ mem' = mem /\ faults' = faults
        /\ i \in Nat /\ dirs \subseteq dirs' /\ \A d \in dirs' : d \in dirs \/ d = i
        /\ installed' = installed /\ running' = running
    <3>1. \/ w.pc = "saveApplying" /\ w.job = [j EXCEPT !.prev = Artifact]
          \/ w.pc = "fail" /\ w.job \in {j, [j EXCEPT !.prev = Artifact]}
          BY <1>g, <1>2 DEF Prepare
    <3>2. disk' = disk /\ mem' = mem /\ faults' = faults
          BY <1>g, <1>2 DEF Prepare
    <3>3. dirs' \in {dirs, dirs \cup {i}} /\ (w.pc = "saveApplying" => i \in dirs') /\ installed' = installed /\ running' = running
          BY <1>g, <1>2 DEF Prepare, hostVars
    <3> QED
        BY <1>0, <1>r, <2>2, <3>1, <3>2, <3>3
  <2>5. WorkerSound(i)'
        BY <1>0, <2>1, <2>2, <2>4 DEF WorkerSound, Working, PhaseFits, RecordFits, WayBack,
           HostFits, Active, Early, Late, Recoverable
  <2>6. DiskSound'
    <3>1. \A d \in dirs' : d <= disk.id
      <4>1. \A d \in dirs : d <= disk.id
            BY DEF Sound, DiskSound
      <4>2. disk.id <= disk.id
            BY <1>0, <2>2
      <4> QED
          BY <2>2, <2>4, <4>1, <4>2
    <3> QED
        BY <2>1, <2>4, <3>1 DEF Sound, DiskSound
  <2>7. BackupKept'
        BY <1>0, <2>1, <2>2, <2>4 DEF Sound, BackupKept, Active, Early, Late, Recoverable
  <2>8. RecordHonest'
        BY <1>0, <2>1, <2>2, <2>4 DEF Sound, RecordHonest, Active, Early, Late, Recoverable
  <2> QED
      BY <2>1, <2>3, <2>5, <2>6, <2>7, <2>8, OneMoves DEF Sound
<1>3. CASE SaveApplying(i)
  <2>1. Working(i) /\ up' = up /\ jobs' = jobs /\ meddling' = meddling
        BY <1>3 DEF SaveApplying, SaveOrFail, Saved, SaveFails, hostVars, Working
  <2>2. /\ up /\ mem.id = i /\ mem.phase \in Active /\ j.id = i /\ j.target \in Versions
        /\ disk.id = i /\ disk.target = j.target
        /\ j.phase = "preparing" /\ disk.phase \in {"queued", "preparing", "applying"}
        /\ i \in dirs /\ j.prev \in Versions
        BY <2>1, <1>3, AtWork DEF SaveApplying, PhaseFits, RecordFits, WayBack, HostFits, Active,
           Early, Late, Recoverable
  <2>3. \A k \in Ids \ {i} : work'[k] = work[k]
        BY <1>0, <1>3 DEF SaveApplying, SaveOrFail, Saved, SaveFails, hostVars, At
  <2>4. /\ w.job.id = i /\ w.job.target = j.target /\ w.job.prev = j.prev
        /\ \/ w.pc = "preflight" /\ w.job.phase = "applying" /\ disk' = w.job /\ mem' = w.job /\ faults' = faults
           \/ /\ w.pc = "fail" /\ w.job.phase = "preparing" /\ mem' = mem /\ faults' = faults + 1
              /\ disk' = disk \/ (disk'.phase = "applying" /\ disk'.id = i /\ disk'.prev = j.prev /\ disk'.target = j.target)
        /\ dirs' = dirs
        /\ installed' = installed /\ running' = running
        BY <1>0, <1>g, <1>p, <1>3, <2>2 DEF SaveApplying, SaveOrFail, Saved, SaveFails, hostVars, At
  <2>5. WorkerSound(i)'
        BY <1>0, <2>1, <2>2, <2>4 DEF WorkerSound, Working, PhaseFits, RecordFits, WayBack,
           HostFits, Active, Early, Late, Recoverable
  <2>6. DiskSound'
        BY <1>0, <2>1, <2>2, <2>4 DEF Sound, DiskSound, Active, Early, Late, Recoverable
  <2>7. BackupKept'
        BY <1>0, <2>1, <2>2, <2>4 DEF Sound, BackupKept, Active, Early, Late, Recoverable
  <2>8. RecordHonest'
        BY <1>0, <2>1, <2>2, <2>4 DEF Sound, RecordHonest, Active, Early, Late, Recoverable
  <2> QED
      BY <2>1, <2>3, <2>5, <2>6, <2>7, <2>8, OneMoves DEF Sound
<1>4. CASE Preflight(i)
  <2>1. Working(i) /\ up' = up /\ jobs' = jobs /\ meddling' = meddling
        BY <1>4 DEF Preflight, Goto, recordVars, hostVars, Working
  <2>2. /\ up /\ mem.id = i /\ mem.phase \in Active /\ j.id = i /\ j.target \in Versions
        /\ disk.id = i /\ disk.target = j.target
        /\ j.phase = "applying" /\ disk.phase = "applying"
        /\ disk.prev = j.prev /\ i \in dirs /\ j.prev \in Versions
        BY <2>1, <1>4, AtWork DEF Preflight, PhaseFits, RecordFits, WayBack, HostFits, Active,
           Early, Late, Recoverable
  <2>3. \A k \in Ids \ {i} : work'[k] = work[k]
        BY <1>0, <1>4 DEF Preflight, Goto, recordVars, hostVars, At
  <2>4. /\ w.job.id = i /\ w.job.target = j.target /\ w.job.prev = j.prev
        /\ \/ w.pc = "copy" /\ w.job.phase = "applying"
           \/ w.pc = "fail" /\ w.job.phase = "preparing"
        /\ disk' = disk /\ mem' = mem /\ faults' = faults
        /\ dirs' = dirs
        /\ installed' = installed /\ running' = running
        BY <1>g, <1>p, <1>r, <1>4, <2>2 DEF Preflight, hostVars
  <2>5. WorkerSound(i)'
        BY <1>0, <2>1, <2>2, <2>4 DEF WorkerSound, Working, PhaseFits, RecordFits, WayBack,
           HostFits, Active, Early, Late, Recoverable
  <2>6. DiskSound'
        BY <1>0, <2>1, <2>2, <2>4 DEF Sound, DiskSound, Active, Early, Late, Recoverable
  <2>7. BackupKept'
        BY <1>0, <2>1, <2>2, <2>4 DEF Sound, BackupKept, Active, Early, Late, Recoverable
  <2>8. RecordHonest'
        BY <1>0, <2>1, <2>2, <2>4 DEF Sound, RecordHonest, Active, Early, Late, Recoverable
  <2> QED
      BY <2>1, <2>3, <2>5, <2>6, <2>7, <2>8, OneMoves DEF Sound
<1>5. CASE Copy(i)
  <2>1. Working(i) /\ up' = up /\ jobs' = jobs /\ meddling' = meddling
        BY <1>5 DEF Copy, Goto, recordVars, hostVars, Working
  <2>2. /\ up /\ mem.id = i /\ mem.phase \in Active /\ j.id = i /\ j.target \in Versions
        /\ disk.id = i /\ disk.target = j.target
        /\ j.phase = "applying" /\ disk.phase = "applying"
        /\ disk.prev = j.prev /\ i \in dirs /\ j.prev \in Versions
        BY <2>1, <1>5, AtWork DEF Copy, PhaseFits, RecordFits, WayBack, HostFits, Active, Early,
           Late, Recoverable
  <2>3. \A k \in Ids \ {i} : work'[k] = work[k]
        BY <1>0, <1>5 DEF Copy, Goto, recordVars, hostVars, At
  <2>4. /\ w.job = j
        /\ \/ w.pc = "restart" /\ installed' = j.target
           \/ w.pc = "fail"
        /\ disk' = disk /\ mem' = mem /\ faults' = faults
        /\ dirs' = dirs
        /\ running' = running
        BY <1>g, <1>p, <1>r, <1>5, <2>2 DEF Copy, hostVars
  <2>5. WorkerSound(i)'
        BY <1>0, <2>1, <2>2, <2>4 DEF WorkerSound, Working, PhaseFits, RecordFits, WayBack,
           HostFits, Active, Early, Late, Recoverable
  <2>6. DiskSound'
        BY <1>0, <2>1, <2>2, <2>4 DEF Sound, DiskSound, Active, Early, Late, Recoverable
  <2>7. BackupKept'
        BY <1>0, <2>1, <2>2, <2>4 DEF Sound, BackupKept, Active, Early, Late, Recoverable
  <2>8. RecordHonest'
        BY <1>0, <2>1, <2>2, <2>4 DEF Sound, RecordHonest, Active, Early, Late, Recoverable
  <2> QED
      BY <2>1, <2>3, <2>5, <2>6, <2>7, <2>8, OneMoves DEF Sound
<1>6. CASE RestartService(i)
  <2>1. Working(i) /\ up' = up /\ jobs' = jobs /\ meddling' = meddling
        BY <1>6 DEF RestartService, Goto, recordVars, hostVars, Working
  <2>2. /\ up /\ mem.id = i /\ mem.phase \in Active /\ j.id = i /\ j.target \in Versions
        /\ disk.id = i /\ disk.target = j.target
        /\ j.phase = "applying" /\ disk.phase = "applying"
        /\ disk.prev = j.prev /\ i \in dirs /\ j.prev \in Versions
        /\ meddling = 0 => installed = j.target
        BY <2>1, <1>6, AtWork DEF RestartService, PhaseFits, RecordFits, WayBack, HostFits,
           Active, Early, Late, Recoverable
  <2>3. \A k \in Ids \ {i} : work'[k] = work[k]
        BY <1>0, <1>6 DEF RestartService, Goto, recordVars, hostVars, At
  <2>4. /\ w.job = j
        /\ \/ w.pc = "saveValidating" /\ running' = installed
           \/ w.pc = "fail"
        /\ disk' = disk /\ mem' = mem /\ faults' = faults
        /\ dirs' = dirs
        /\ installed' = installed
        BY <1>g, <1>p, <1>r, <1>6, <2>2 DEF RestartService, hostVars
  <2>5. WorkerSound(i)'
        BY <1>0, <2>1, <2>2, <2>4 DEF WorkerSound, Working, PhaseFits, RecordFits, WayBack,
           HostFits, Active, Early, Late, Recoverable
  <2>6. DiskSound'
        BY <1>0, <2>1, <2>2, <2>4 DEF Sound, DiskSound, Active, Early, Late, Recoverable
  <2>7. BackupKept'
        BY <1>0, <2>1, <2>2, <2>4 DEF Sound, BackupKept, Active, Early, Late, Recoverable
  <2>8. RecordHonest'
        BY <1>0, <2>1, <2>2, <2>4 DEF Sound, RecordHonest, Active, Early, Late, Recoverable
  <2> QED
      BY <2>1, <2>3, <2>5, <2>6, <2>7, <2>8, OneMoves DEF Sound
<1>7. CASE SaveValidating(i)
  <2>1. Working(i) /\ up' = up /\ jobs' = jobs /\ meddling' = meddling
        BY <1>7 DEF SaveValidating, SaveOrFail, Saved, SaveFails, hostVars, Working
  <2>2. /\ up /\ mem.id = i /\ mem.phase \in Active /\ j.id = i /\ j.target \in Versions
        /\ disk.id = i /\ disk.target = j.target
        /\ j.phase = "applying" /\ disk.phase = "applying"
        /\ disk.prev = j.prev /\ i \in dirs /\ j.prev \in Versions
        /\ meddling = 0 => installed = j.target /\ running = j.target
        BY <2>1, <1>7, AtWork DEF SaveValidating, PhaseFits, RecordFits, WayBack, HostFits,
           Active, Early, Late, Recoverable
  <2>3. \A k \in Ids \ {i} : work'[k] = work[k]
        BY <1>0, <1>7 DEF SaveValidating, SaveOrFail, Saved, SaveFails, hostVars, At
  <2>4. /\ w.job.id = i /\ w.job.target = j.target /\ w.job.prev = j.prev
        /\ w.job.phase = "validating"
        /\ \/ w.pc = "probe" /\ disk' = w.job /\ mem' = w.job /\ faults' = faults
           \/ w.pc = "fail" /\ mem' = mem /\ faults' = faults + 1 /\ disk' \in {disk, w.job}
        /\ dirs' = dirs
        /\ installed' = installed /\ running' = running
        BY <1>0, <1>g, <1>p, <1>7, <2>2 DEF SaveValidating, SaveOrFail, Saved, SaveFails,
           hostVars, At
  <2>5. WorkerSound(i)'
        BY <1>0, <2>1, <2>2, <2>4 DEF WorkerSound, Working, PhaseFits, RecordFits, WayBack,
           HostFits, Active, Early, Late, Recoverable
  <2>6. DiskSound'
        BY <1>0, <2>1, <2>2, <2>4 DEF Sound, DiskSound, Active, Early, Late, Recoverable
  <2>7. BackupKept'
        BY <1>0, <2>1, <2>2, <2>4 DEF Sound, BackupKept, Active, Early, Late, Recoverable
  <2>8. RecordHonest'
        BY <1>0, <2>1, <2>2, <2>4 DEF Sound, RecordHonest, Active, Early, Late, Recoverable
  <2> QED
      BY <2>1, <2>3, <2>5, <2>6, <2>7, <2>8, OneMoves DEF Sound
<1>8. CASE Probe(i)
  <2>1. Working(i) /\ up' = up /\ jobs' = jobs /\ meddling' = meddling
        BY <1>8 DEF Probe, Goto, recordVars, hostVars, ProbeTurn, Enough, Working
  <2>2. /\ up /\ mem.id = i /\ mem.phase \in Active /\ j.id = i /\ j.target \in Versions
        /\ disk.id = i /\ disk.target = j.target
        /\ j.phase = "validating" /\ disk.phase = "validating"
        /\ disk.prev = j.prev /\ i \in dirs /\ j.prev \in Versions
        /\ meddling = 0 => installed = j.target /\ running = j.target
        BY <2>1, <1>8, AtWork DEF Probe, ProbeTurn, PhaseFits, RecordFits, WayBack, HostFits,
           Active, Early, Late, Recoverable
  <2>3. \A k \in Ids \ {i} : work'[k] = work[k]
        BY <1>0, <1>8 DEF Probe, Goto, recordVars, hostVars, ProbeTurn, Enough, At
  <2>4. /\ w.job = j
        /\ w.pc \in {"probe", "saveSucceeded"}
        /\ disk' = disk /\ mem' = mem /\ faults' = faults
        /\ dirs' = dirs
        /\ installed' = installed /\ running' = running
        BY <1>g, <1>p, <1>r, <1>8, <2>2 DEF Probe, hostVars, ProbeTurn, Enough
  <2>5. WorkerSound(i)'
        BY <1>0, <2>1, <2>2, <2>4 DEF WorkerSound, Working, PhaseFits, RecordFits, WayBack,
           HostFits, Active, Early, Late, Recoverable
  <2>6. DiskSound'
        BY <1>0, <2>1, <2>2, <2>4 DEF Sound, DiskSound, Active, Early, Late, Recoverable
  <2>7. BackupKept'
        BY <1>0, <2>1, <2>2, <2>4 DEF Sound, BackupKept, Active, Early, Late, Recoverable
  <2>8. RecordHonest'
        BY <1>0, <2>1, <2>2, <2>4 DEF Sound, RecordHonest, Active, Early, Late, Recoverable
  <2> QED
      BY <2>1, <2>3, <2>5, <2>6, <2>7, <2>8, OneMoves DEF Sound
<1>9. CASE ProbeTimeout(i)
  <2>1. Working(i) /\ up' = up /\ jobs' = jobs /\ meddling' = meddling
        BY <1>9 DEF ProbeTimeout, Goto, recordVars, hostVars, Deadline, Working
  <2>2. /\ up /\ mem.id = i /\ mem.phase \in Active /\ j.id = i /\ j.target \in Versions
        /\ disk.id = i /\ disk.target = j.target
        /\ j.phase = "validating" /\ disk.phase = "validating"
        /\ disk.prev = j.prev /\ i \in dirs /\ j.prev \in Versions
        BY <2>1, <1>9, AtWork DEF ProbeTimeout, Deadline, PhaseFits, RecordFits, WayBack,
           HostFits, Active, Early, Late, Recoverable
  <2>3. \A k \in Ids \ {i} : work'[k] = work[k]
        BY <1>0, <1>9 DEF ProbeTimeout, Goto, recordVars, hostVars, Deadline, At
  <2>4. /\ w.job = j
        /\ w.pc = "fail"
        /\ disk' = disk /\ mem' = mem /\ faults' = faults
        /\ dirs' = dirs
        /\ installed' = installed /\ running' = running
        BY <1>g, <1>p, <1>r, <1>9, <2>2 DEF ProbeTimeout, hostVars, Deadline
  <2>5. WorkerSound(i)'
        BY <1>0, <2>1, <2>2, <2>4 DEF WorkerSound, Working, PhaseFits, RecordFits, WayBack,
           HostFits, Active, Early, Late, Recoverable
  <2>6. DiskSound'
        BY <1>0, <2>1, <2>2, <2>4 DEF Sound, DiskSound, Active, Early, Late, Recoverable
  <2>7. BackupKept'
        BY <1>0, <2>1, <2>2, <2>4 DEF Sound, BackupKept, Active, Early, Late, Recoverable
  <2>8. RecordHonest'
        BY <1>0, <2>1, <2>2, <2>4 DEF Sound, RecordHonest, Active, Early, Late, Recoverable
  <2> QED
      BY <2>1, <2>3, <2>5, <2>6, <2>7, <2>8, OneMoves DEF Sound
<1>10. CASE SaveSucceeded(i)
  <2>1. Working(i) /\ up' = up /\ jobs' = jobs /\ meddling' = meddling
        BY <1>10 DEF SaveSucceeded, SaveOrFail, Saved, SaveFails, hostVars, Working
  <2>2. /\ up /\ mem.id = i /\ mem.phase \in Active /\ j.id = i /\ j.target \in Versions
        /\ disk.id = i /\ disk.target = j.target
        /\ j.phase = "validating" /\ disk.phase = "validating"
        /\ disk.prev = j.prev /\ i \in dirs /\ j.prev \in Versions
        /\ meddling = 0 => installed = j.target /\ running = j.target
        BY <2>1, <1>10, AtWork DEF SaveSucceeded, PhaseFits, RecordFits, WayBack, HostFits,
           Active, Early, Late, Recoverable
  <2>3. \A k \in Ids \ {i} : work'[k] = work[k]
        BY <1>0, <1>10 DEF SaveSucceeded, SaveOrFail, Saved, SaveFails, hostVars, At
  <2>4. /\ w.job.id = i /\ w.job.target = j.target /\ w.job.prev = j.prev
        /\ \/ w.pc = "cleanup" /\ w.job.phase = "succeeded" /\ disk' = w.job /\ mem' = w.job /\ faults' = faults
           \/ /\ w.pc = "fail" /\ w.job.phase = "validating" /\ mem' = mem /\ faults' = faults + 1
              /\ disk' = disk \/ (disk'.phase = "succeeded" /\ disk'.id = i /\ disk'.prev = j.prev /\ disk'.target = j.target)
        /\ dirs' = dirs
        /\ installed' = installed /\ running' = running
        BY <1>0, <1>g, <1>p, <1>10, <2>2 DEF SaveSucceeded, SaveOrFail, Saved, SaveFails,
           hostVars, At
  <2>5. WorkerSound(i)'
        BY <1>0, <2>1, <2>2, <2>4 DEF WorkerSound, Working, PhaseFits, RecordFits, WayBack,
           HostFits, Active, Early, Late, Recoverable
  <2>6. DiskSound'
        BY <1>0, <2>1, <2>2, <2>4 DEF Sound, DiskSound, Active, Early, Late, Recoverable
  <2>7. BackupKept'
        BY <1>0, <2>1, <2>2, <2>4 DEF Sound, BackupKept, Active, Early, Late, Recoverable
  <2>8. RecordHonest'
        BY <1>0, <2>1, <2>2, <2>4 DEF Sound, RecordHonest, Active, Early, Late, Recoverable
  <2> QED
      BY <2>1, <2>3, <2>5, <2>6, <2>7, <2>8, OneMoves DEF Sound
<1>11. CASE Fail(i)
  <2>1. Working(i) /\ up' = up /\ jobs' = jobs /\ meddling' = meddling
        BY <1>11 DEF Fail, Goto, recordVars, hostVars, Saved, SaveFails, Working
  <2>2. /\ up /\ mem.id = i /\ mem.phase \in Active /\ j.id = i /\ j.target \in Versions
        /\ disk.id = i /\ disk.target = j.target
        /\ j.phase \in Active
        /\ j.phase \in {"queued", "preparing"} => disk.phase \in {"queued", "preparing", "applying"}
        /\ j.phase \notin {"queued", "preparing"} => disk.prev = j.prev /\ i \in dirs /\ j.prev \in Versions
        /\ j.phase \notin {"queued", "preparing"} => disk.phase \in Recoverable \/ (faults >= 1 /\ disk.phase = "succeeded")
        BY <2>1, <1>11, AtWork DEF Fail, PhaseFits, RecordFits, WayBack, HostFits, Active, Early,
           Late, Recoverable
  <2>3. \A k \in Ids \ {i} : work'[k] = work[k]
        BY <1>0, <1>11 DEF Fail, Goto, recordVars, hostVars, Saved, SaveFails, At
  <2>4. /\ w.job.id = i /\ w.job.target = j.target /\ w.job.prev = j.prev
        /\ \/ /\ j.phase \in {"queued", "preparing"} /\ w.pc = "saveOutcome" /\ w.job.phase = "failed"
              /\ disk' = disk /\ mem' = mem /\ faults' = faults
           \/ /\ j.phase \notin {"queued", "preparing"} /\ w.pc = "rollback" /\ w.job.phase = "rolling_back"
              /\ (disk' = w.job /\ mem' = w.job /\ faults' = faults) \/ (mem' = mem /\ faults' = faults + 1 /\ disk' \in {disk, w.job})
        /\ dirs' = dirs
        /\ installed' = installed /\ running' = running
    <3>1. CASE j.phase \in {"queued", "preparing"}
          BY <1>g, <1>p, <1>11, <2>2, <3>1 DEF Fail, hostVars
    <3>2. CASE j.phase \notin {"queued", "preparing"}
      <4>1. w.pc = "rollback" /\ w.job = Phase(j, "rolling_back")
            BY <1>0, <1>11, <3>2 DEF Fail, At
      <4>2. (disk' = w.job /\ mem' = w.job /\ faults' = faults) \/ (mem' = mem /\ faults' = faults + 1 /\ disk' \in {disk, w.job})
            BY <1>11, <3>2, <4>1 DEF Fail, Saved, SaveFails
      <4> QED
          BY <1>p, <1>11, <2>2, <3>2, <4>1, <4>2 DEF Fail, hostVars
    <3> QED
        BY <3>1, <3>2
  <2>5. WorkerSound(i)'
        BY <1>0, <2>1, <2>2, <2>4 DEF WorkerSound, Working, PhaseFits, RecordFits, WayBack,
           HostFits, Active, Early, Late, Recoverable
  <2>6. DiskSound'
        BY <1>0, <2>1, <2>2, <2>4 DEF Sound, DiskSound, Active, Early, Late, Recoverable
  <2>7. BackupKept'
        BY <1>0, <2>1, <2>2, <2>4 DEF Sound, BackupKept, Active, Early, Late, Recoverable
  <2>8. RecordHonest'
        BY <1>0, <2>1, <2>2, <2>4 DEF Sound, RecordHonest, Active, Early, Late, Recoverable
  <2> QED
      BY <2>1, <2>3, <2>5, <2>6, <2>7, <2>8, OneMoves DEF Sound
<1>12. CASE Rollback(i)
  <2>1. Working(i) /\ up' = up /\ jobs' = jobs /\ meddling' = meddling
        BY <1>12 DEF Rollback, Goto, recordVars, hostVars, Working
  <2>2. /\ up /\ mem.id = i /\ mem.phase \in Active /\ j.id = i /\ j.target \in Versions
        /\ disk.id = i /\ disk.target = j.target
        /\ j.phase = "rolling_back" /\ (faults < 2 => disk.phase \in Recoverable)
        /\ disk.prev = j.prev /\ i \in dirs /\ j.prev \in Versions
        BY <2>1, <1>12, AtWork DEF Rollback, PhaseFits, RecordFits, WayBack, HostFits, Active,
           Early, Late, Recoverable
  <2>3. \A k \in Ids \ {i} : work'[k] = work[k]
        BY <1>0, <1>12 DEF Rollback, Goto, recordVars, hostVars, At
  <2>4. /\ w.job.id = i /\ w.job.target = j.target /\ w.job.prev = j.prev
        /\ \/ w.pc = "restartBack" /\ w.job.phase = "rolling_back" /\ installed' = j.prev
           \/ w.pc = "saveOutcome" /\ w.job.phase = "rollback_failed"
        /\ disk' = disk /\ mem' = mem /\ faults' = faults
        /\ dirs' = dirs
        /\ running' = running
        BY <1>g, <1>p, <1>r, <1>12, <2>2 DEF Rollback, hostVars
  <2>5. WorkerSound(i)'
        BY <1>0, <2>1, <2>2, <2>4 DEF WorkerSound, Working, PhaseFits, RecordFits, WayBack,
           HostFits, Active, Early, Late, Recoverable
  <2>6. DiskSound'
        BY <1>0, <2>1, <2>2, <2>4 DEF Sound, DiskSound, Active, Early, Late, Recoverable
  <2>7. BackupKept'
        BY <1>0, <2>1, <2>2, <2>4 DEF Sound, BackupKept, Active, Early, Late, Recoverable
  <2>8. RecordHonest'
        BY <1>0, <2>1, <2>2, <2>4 DEF Sound, RecordHonest, Active, Early, Late, Recoverable
  <2> QED
      BY <2>1, <2>3, <2>5, <2>6, <2>7, <2>8, OneMoves DEF Sound
<1>13. CASE RestartBack(i)
  <2>1. Working(i) /\ up' = up /\ jobs' = jobs /\ meddling' = meddling
        BY <1>13 DEF RestartBack, Goto, recordVars, hostVars, Working
  <2>2. /\ up /\ mem.id = i /\ mem.phase \in Active /\ j.id = i /\ j.target \in Versions
        /\ disk.id = i /\ disk.target = j.target
        /\ j.phase = "rolling_back" /\ (faults < 2 => disk.phase \in Recoverable)
        /\ disk.prev = j.prev /\ i \in dirs /\ j.prev \in Versions
        /\ meddling = 0 => installed = j.prev
        BY <2>1, <1>13, AtWork DEF RestartBack, PhaseFits, RecordFits, WayBack, HostFits, Active,
           Early, Late, Recoverable
  <2>3. \A k \in Ids \ {i} : work'[k] = work[k]
        BY <1>0, <1>13 DEF RestartBack, Goto, recordVars, hostVars, At
  <2>4. /\ w.job.id = i /\ w.job.target = j.target /\ w.job.prev = j.prev
        /\ \/ w.pc = "probeBack" /\ w.job.phase = "rolling_back" /\ running' = installed
           \/ w.pc = "saveOutcome" /\ w.job.phase = "rollback_failed"
        /\ disk' = disk /\ mem' = mem /\ faults' = faults
        /\ dirs' = dirs
        /\ installed' = installed
        BY <1>g, <1>p, <1>r, <1>13, <2>2 DEF RestartBack, hostVars
  <2>5. WorkerSound(i)'
        BY <1>0, <2>1, <2>2, <2>4 DEF WorkerSound, Working, PhaseFits, RecordFits, WayBack,
           HostFits, Active, Early, Late, Recoverable
  <2>6. DiskSound'
        BY <1>0, <2>1, <2>2, <2>4 DEF Sound, DiskSound, Active, Early, Late, Recoverable
  <2>7. BackupKept'
        BY <1>0, <2>1, <2>2, <2>4 DEF Sound, BackupKept, Active, Early, Late, Recoverable
  <2>8. RecordHonest'
        BY <1>0, <2>1, <2>2, <2>4 DEF Sound, RecordHonest, Active, Early, Late, Recoverable
  <2> QED
      BY <2>1, <2>3, <2>5, <2>6, <2>7, <2>8, OneMoves DEF Sound
<1>14. CASE ProbeBack(i)
  <2>1. Working(i) /\ up' = up /\ jobs' = jobs /\ meddling' = meddling
        BY <1>14 DEF ProbeBack, Goto, recordVars, hostVars, ProbeTurn, Enough, Working
  <2>2. /\ up /\ mem.id = i /\ mem.phase \in Active /\ j.id = i /\ j.target \in Versions
        /\ disk.id = i /\ disk.target = j.target
        /\ j.phase = "rolling_back" /\ (faults < 2 => disk.phase \in Recoverable)
        /\ disk.prev = j.prev /\ i \in dirs /\ j.prev \in Versions
        /\ meddling = 0 => installed = j.prev /\ running = j.prev
        BY <2>1, <1>14, AtWork DEF ProbeBack, ProbeTurn, PhaseFits, RecordFits, WayBack, HostFits,
           Active, Early, Late, Recoverable
  <2>3. \A k \in Ids \ {i} : work'[k] = work[k]
        BY <1>0, <1>14 DEF ProbeBack, Goto, recordVars, hostVars, ProbeTurn, Enough, At
  <2>4. /\ w.job.id = i /\ w.job.target = j.target /\ w.job.prev = j.prev
        /\ \/ w.pc = "probeBack" /\ w.job.phase = "rolling_back"
           \/ w.pc = "saveOutcome" /\ w.job.phase = "rolled_back"
        /\ disk' = disk /\ mem' = mem /\ faults' = faults
        /\ dirs' = dirs
        /\ installed' = installed /\ running' = running
        BY <1>g, <1>p, <1>r, <1>14, <2>2 DEF ProbeBack, hostVars, ProbeTurn, Enough
  <2>5. WorkerSound(i)'
        BY <1>0, <2>1, <2>2, <2>4 DEF WorkerSound, Working, PhaseFits, RecordFits, WayBack,
           HostFits, Active, Early, Late, Recoverable
  <2>6. DiskSound'
        BY <1>0, <2>1, <2>2, <2>4 DEF Sound, DiskSound, Active, Early, Late, Recoverable
  <2>7. BackupKept'
        BY <1>0, <2>1, <2>2, <2>4 DEF Sound, BackupKept, Active, Early, Late, Recoverable
  <2>8. RecordHonest'
        BY <1>0, <2>1, <2>2, <2>4 DEF Sound, RecordHonest, Active, Early, Late, Recoverable
  <2> QED
      BY <2>1, <2>3, <2>5, <2>6, <2>7, <2>8, OneMoves DEF Sound
<1>15. CASE ProbeBackTimeout(i)
  <2>1. Working(i) /\ up' = up /\ jobs' = jobs /\ meddling' = meddling
        BY <1>15 DEF ProbeBackTimeout, Goto, recordVars, hostVars, Deadline, Working
  <2>2. /\ up /\ mem.id = i /\ mem.phase \in Active /\ j.id = i /\ j.target \in Versions
        /\ disk.id = i /\ disk.target = j.target
        /\ j.phase = "rolling_back" /\ (faults < 2 => disk.phase \in Recoverable)
        /\ disk.prev = j.prev /\ i \in dirs /\ j.prev \in Versions
        BY <2>1, <1>15, AtWork DEF ProbeBackTimeout, Deadline, PhaseFits, RecordFits, WayBack,
           HostFits, Active, Early, Late, Recoverable
  <2>3. \A k \in Ids \ {i} : work'[k] = work[k]
        BY <1>0, <1>15 DEF ProbeBackTimeout, Goto, recordVars, hostVars, Deadline, At
  <2>4. /\ w.job.id = i /\ w.job.target = j.target /\ w.job.prev = j.prev
        /\ w.pc = "saveOutcome" /\ w.job.phase = "rollback_failed"
        /\ disk' = disk /\ mem' = mem /\ faults' = faults
        /\ dirs' = dirs
        /\ installed' = installed /\ running' = running
        BY <1>g, <1>p, <1>r, <1>15, <2>2 DEF ProbeBackTimeout, hostVars, Deadline
  <2>5. WorkerSound(i)'
        BY <1>0, <2>1, <2>2, <2>4 DEF WorkerSound, Working, PhaseFits, RecordFits, WayBack,
           HostFits, Active, Early, Late, Recoverable
  <2>6. DiskSound'
        BY <1>0, <2>1, <2>2, <2>4 DEF Sound, DiskSound, Active, Early, Late, Recoverable
  <2>7. BackupKept'
        BY <1>0, <2>1, <2>2, <2>4 DEF Sound, BackupKept, Active, Early, Late, Recoverable
  <2>8. RecordHonest'
        BY <1>0, <2>1, <2>2, <2>4 DEF Sound, RecordHonest, Active, Early, Late, Recoverable
  <2> QED
      BY <2>1, <2>3, <2>5, <2>6, <2>7, <2>8, OneMoves DEF Sound
<1>16. CASE SaveOutcome(i)
  <2>1. Working(i) /\ up' = up /\ jobs' = jobs /\ meddling' = meddling
        BY <1>16 DEF SaveOutcome, Saved, SaveFails, hostVars, Working
  <2>2. /\ up /\ mem.id = i /\ mem.phase \in Active /\ j.id = i /\ j.target \in Versions
        /\ disk.id = i /\ disk.target = j.target
        /\ j.phase \in {"failed", "rolled_back", "rollback_failed"}
        /\ j.phase = "failed" => disk.phase \in {"queued", "preparing", "applying"}
        /\ j.phase # "failed" => disk.prev = j.prev /\ i \in dirs /\ j.prev \in Versions
        /\ j.phase # "failed" /\ faults < 2 => disk.phase \in Recoverable
        /\ j.phase = "rolled_back" /\ meddling = 0 => installed = j.prev /\ running = j.prev
        BY <2>1, <1>16, AtWork DEF SaveOutcome, PhaseFits, RecordFits, WayBack, HostFits, Active,
           Early, Late, Recoverable
  <2>3. \A k \in Ids \ {i} : work'[k] = work[k]
        BY <1>0, <1>16 DEF SaveOutcome, Saved, SaveFails, hostVars, At
  <2>4. /\ w.job = j /\ w.pc = "cleanup"
        /\ \/ disk' = j /\ faults' = faults
           \/ disk' \in {disk, j} /\ faults' = faults + 1
        /\ dirs' = dirs
        /\ installed' = installed /\ running' = running
        BY <1>0, <1>g, <1>p, <1>16, <2>2 DEF SaveOutcome, Saved, SaveFails, hostVars, At
  <2>5. WorkerSound(i)'
        BY <1>0, <2>1, <2>2, <2>4 DEF WorkerSound, Working, PhaseFits, RecordFits, WayBack,
           HostFits, Active, Early, Late, Recoverable
  <2>6. DiskSound'
        BY <1>0, <2>1, <2>2, <2>4 DEF Sound, DiskSound, Active, Early, Late, Recoverable
  <2>7. BackupKept'
        BY <1>0, <2>1, <2>2, <2>4 DEF Sound, BackupKept, Active, Early, Late, Recoverable
  <2>8. RecordHonest'
        BY <1>0, <2>1, <2>2, <2>4 DEF Sound, RecordHonest, Active, Early, Late, Recoverable
  <2> QED
      BY <2>1, <2>3, <2>5, <2>6, <2>7, <2>8, OneMoves DEF Sound
<1> QED
    BY <1>1, <1>2, <1>3, <1>4, <1>5, <1>6, <1>7, <1>8, <1>9, <1>10, <1>11, <1>12, <1>13, <1>14,
       <1>15, <1>16 DEF Work, Timeout

\* The goroutine that cleans up is done with the deployment.  It may run beside
\* the goroutine of the next job, whose directory it spares.
LEMMA CleanupSound ==
  ASSUME TypeOK, Sound, NEW i \in Ids, Cleanup(i)
  PROVE  Sound'
<1>0. /\ work \in [Ids -> [pc : PCs, job : Jobs]]
      /\ dirs' \subseteq dirs
      /\ disk' = disk /\ mem' = mem /\ up' = up /\ faults' = faults /\ jobs' = jobs /\ meddling' = meddling
      /\ installed' = installed /\ running' = running
      BY DEF Cleanup, Goto, recordVars, hostVars, TypeOK
<1>1. work'[i].pc = "gone" /\ \A k \in Ids \ {i} : work'[k] = work[k]
      BY <1>0 DEF Cleanup, Goto, At
<1>2. disk.id \in dirs => disk.id \in dirs'
      BY NewestStays DEF Sound
<1>3. ASSUME NEW k \in Ids PROVE WorkerSound(k)'
  <2>1. CASE k = i
        BY <1>1, <2>1 DEF WorkerSound, Working
  <2>2. CASE k # i
    <3>1. WorkerSound(k) /\ work'[k] = work[k]
          BY <1>1, <2>2 DEF Sound, WorkersSound
    <3>2. Working(k) => disk.id = k
          BY <3>1 DEF WorkerSound, RecordFits
    <3> QED
        BY <1>0, <1>2, <3>1, <3>2 DEF WorkerSound, Working, PhaseFits, RecordFits, WayBack, HostFits
  <2> QED
      BY <2>1, <2>2
<1>4. DiskSound' /\ BackupKept' /\ RecordHonest'
      BY <1>0, <1>2 DEF Sound, DiskSound, BackupKept, RecordHonest
<1> QED
    BY <1>3, <1>4 DEF Sound, WorkersSound

\* A new job is accepted only when no goroutine is at work.
LEMMA StartSound ==
  ASSUME TypeOK, Sound, NEW v \in Versions, Start(v)
  PROVE  Sound'
<1> DEFINE n == jobs + 1
           j == [id |-> n, phase |-> "queued", prev |-> None, target |-> v]
<1>0. /\ work \in [Ids -> [pc : PCs, job : Jobs]] /\ disk \in Jobs
      /\ jobs \in Nat /\ n \in Ids /\ n \in Nat /\ faults \in Nat /\ dirs \subseteq Nat /\ disk.id \in Nat
      BY DEF TypeOK, Start, Accept, Jobs
<1>1. /\ up /\ up' = up /\ dirs' = dirs /\ jobs' = n /\ meddling' = meddling
      /\ installed' = installed /\ running' = running
      BY DEF Start, Accept, hostVars
<1>2. \/ disk' = j /\ mem' = j /\ faults' = faults /\ At(n, "savePreparing", j)
      \/ faults' = faults + 1 /\ disk' \in {disk, j} /\ work' = work
      BY DEF Start, Accept, Saved, SaveFails
<1>3. \A k \in Ids : ~Working(k)
      BY DEF Start, Sound, WorkersSound, WorkerSound
<1>4. ASSUME NEW k \in Ids PROVE WorkerSound(k)'
  <2>1. CASE work'[k] = work[k]
        BY <1>1, <1>3, <2>1 DEF WorkerSound, Working
  <2>2. CASE work'[k] # work[k]
    <3>1. k = n /\ disk' = j /\ mem' = j /\ work'[k] = [pc |-> "savePreparing", job |-> j]
          BY <1>0, <1>2, <2>2 DEF At
    <3> QED
        BY <1>1, <3>1 DEF WorkerSound, Working, PhaseFits, RecordFits, WayBack, HostFits,
           Active, Early, Late, Recoverable
  <2> QED
      BY <2>1, <2>2
<1>5. disk.id <= jobs /\ disk.id <= n /\ \A d \in dirs : d <= n /\ d <= disk.id
  <2>1. disk.id <= jobs /\ \A d \in dirs : d <= disk.id
        BY DEF Sound, DiskSound
  <2>2. \A d \in Nat : d <= disk.id => d <= n
        BY <1>0, <2>1
  <2> QED
      BY <1>0, <2>1, <2>2
<1>6. DiskSound'
  <2>1. CASE disk' = disk
        BY <1>1, <1>5, <2>1 DEF Sound, DiskSound
  <2>2. CASE disk' = j
    <3>1. n # 0 /\ n <= n
          BY <1>0
    <3> QED
        BY <1>1, <1>5, <2>2, <3>1 DEF DiskSound, Recoverable
  <2> QED
      BY <1>2, <2>1, <2>2
<1>7. BackupKept'
      BY <1>1, <1>2 DEF Sound, BackupKept, Recoverable
<1>8. RecordHonest'
      BY <1>0, <1>1, <1>2 DEF Sound, RecordHonest
<1> QED
    BY <1>4, <1>6, <1>7, <1>8 DEF Sound, WorkersSound

\* A restarted agent takes up the job on record, whose way back is there.
LEMMA BootSound ==
  ASSUME TypeOK, Sound, Boot
  PROVE  Sound'
<1> DEFINE r == Phase(disk, "rolling_back")
           i == disk.id
<1>0. /\ work \in [Ids -> [pc : PCs, job : Jobs]] /\ disk \in Jobs
      /\ jobs \in Nat /\ faults \in Nat /\ disk.id \in 0..MaxJobs
      BY DEF TypeOK, Jobs
<1>r. r.phase = "rolling_back" /\ r.id = i /\ r.prev = disk.prev /\ r.target = disk.target
      BY <1>0, PhaseOnly
<1>1. /\ dirs' = dirs /\ jobs' = jobs /\ meddling' = meddling
      /\ installed' = installed /\ running' = running /\ ~up
      BY DEF Boot, hostVars
<1>2. \A k \in Ids : work[k].pc = "gone"
      BY <1>1 DEF Sound, WorkersSound, WorkerSound
<1>3. CASE work' = work
  <2>1. faults' >= faults /\ faults' \in Nat /\ disk' \in {disk, r} /\ (disk' = disk \/ disk.phase = "rollback_failed")
        BY <1>0, <1>3 DEF Boot, Saved, SaveFails
  <2>2. WorkersSound'
        BY <1>2, <1>3 DEF WorkersSound, WorkerSound, Working
  <2>3. DiskSound'
        BY <1>r, <1>1, <2>1 DEF Sound, DiskSound, Recoverable
  <2>4. BackupKept'
        BY <1>r, <1>1, <2>1 DEF Sound, BackupKept, Recoverable
  <2>5. RecordHonest'
        BY <1>0, <1>r, <1>1, <2>1 DEF Sound, RecordHonest
  <2> QED
      BY <2>2, <2>3, <2>4, <2>5 DEF Sound
<1>4. CASE work' # work
  <2>1. /\ disk.phase \in Active \/ disk.phase = "rollback_failed"
        /\ disk' = (IF disk.phase \in Active THEN disk ELSE r)
        /\ mem' = disk' /\ faults' = faults /\ up' = TRUE /\ At(disk'.id, "fail", disk')
        BY <1>4 DEF Boot, Recover, Saved, SaveFails, Active
  <2>2. i \in Ids
    <3>1. disk.phase # "" /\ DiskSound
          BY <2>1 DEF Sound, Active
    <3>2. i # 0
          BY <3>1 DEF DiskSound
    <3> QED
        BY <1>0, <3>2
  <2>3. disk'.id = i /\ disk'.target = disk.target /\ disk'.prev = disk.prev /\ disk'.phase \in Active
        BY <1>r, <2>1 DEF Active
  <2>4. disk'.target \in Versions /\ (disk.phase \in Recoverable => disk.prev \in Versions /\ i \in dirs)
        BY <2>1, <2>3 DEF Sound, DiskSound, BackupKept, Active
  <2>5. disk'.phase \in Recoverable => disk.phase \in Recoverable
        BY <2>1 DEF Recoverable
  <2>6. ASSUME NEW k \in Ids PROVE WorkerSound(k)'
    <3>1. CASE k = i
      <4>1. work'[k].pc = "fail" /\ work'[k].job = disk'
            BY <1>0, <2>1, <2>2, <2>3, <3>1 DEF At
      <4>2. PhaseFits(k)'
            BY <2>3, <3>1, <4>1 DEF PhaseFits
      <4>3. RecordFits(k)'
            BY <2>3, <3>1, <4>1 DEF RecordFits, Active, Early, Late, Recoverable
      <4>4. WayBack(k)'
            BY <1>1, <2>3, <2>4, <2>5, <3>1, <4>1 DEF WayBack, Active, Late, Recoverable
      <4>5. HostFits(k)'
            BY <4>1 DEF HostFits
      <4> QED
          BY <2>1, <2>3, <2>4, <3>1, <4>1, <4>2, <4>3, <4>4, <4>5 DEF WorkerSound
    <3>2. CASE k # i
          BY <1>0, <1>2, <2>1, <2>3, <3>2 DEF At, WorkerSound, Working
    <3> QED
        BY <3>1, <3>2
  <2>7. DiskSound'
    <3>1. disk.id <= jobs /\ disk.id # 0 /\ \A d \in dirs : d <= disk.id
      <4>1. disk.id <= jobs /\ \A d \in dirs : d <= disk.id
            BY DEF Sound, DiskSound
      <4>2. disk.id # 0
            BY <2>2
      <4> QED
          BY <4>1, <4>2
    <3> QED
        BY <1>1, <2>3, <2>4, <2>5, <3>1 DEF DiskSound
  <2>8. BackupKept'
        BY <1>1, <2>3, <2>4, <2>5 DEF BackupKept
  <2>9. RecordHonest'
        BY <2>3 DEF RecordHonest, Active
  <2> QED
      BY <2>6, <2>7, <2>8, <2>9 DEF Sound, WorkersSound
<1> QED
    BY <1>3, <1>4

\* Every step keeps everything sound.
LEMMA StepSound == IInv /\ [Next]_vars => IInv'
<1> SUFFICES ASSUME TypeOK, Sound, [Next]_vars PROVE IInv'
    BY DEF IInv
<1>1. TypeOK'
      BY StepTyped DEF Sound
<1>2. Sound'
  <2>1. ASSUME NEW v \in Versions, OperatorChange(v) PROVE Sound'
    <3>1. meddling \in Nat
          BY DEF TypeOK
    <3>2. /\ up' = up /\ disk' = disk /\ mem' = mem /\ faults' = faults /\ work' = work
          /\ dirs' = dirs /\ jobs' = jobs /\ meddling' # 0
          BY <2>1, <3>1 DEF OperatorChange, recordVars
    <3>3. WorkersSound'
          BY <3>2 DEF Sound, WorkersSound, WorkerSound, Working, PhaseFits, RecordFits, WayBack,
             HostFits
    <3> QED
        BY <3>2, <3>3 DEF Sound, DiskSound, BackupKept, RecordHonest
  <2>2. CASE Crash
    <3>1. /\ up' = FALSE /\ disk' = disk /\ faults' = faults /\ dirs' = dirs /\ jobs' = jobs
          /\ meddling' = meddling /\ installed' = installed /\ running' = running
          /\ work' = [k \in Ids |-> Idle]
          BY <2>2 DEF Crash, hostVars
    <3>2. WorkersSound'
          BY <3>1 DEF WorkersSound, WorkerSound, Working, Idle
    <3> QED
        BY <3>1, <3>2 DEF Sound, DiskSound, BackupKept, RecordHonest
  <2>3. CASE ServiceRestarts
    <3>1. /\ up' = up /\ disk' = disk /\ mem' = mem /\ faults' = faults /\ work' = work
          /\ dirs' = dirs /\ jobs' = jobs /\ meddling' = meddling
          /\ installed' = installed /\ running' = installed
          BY <2>3 DEF ServiceRestarts, recordVars
    <3>2. ASSUME NEW k \in Ids PROVE WorkerSound(k)'
      <4>1. WorkerSound(k)
            BY DEF Sound, WorkersSound
      <4>2. Working(k) => HostFits(k)'
            BY <3>1, <4>1 DEF WorkerSound, HostFits
      <4> QED
          BY <3>1, <4>1, <4>2 DEF WorkerSound, Working, PhaseFits, RecordFits, WayBack
    <3>3. RecordHonest'
          BY <3>1 DEF Sound, RecordHonest
    <3> QED
        BY <3>1, <3>2, <3>3 DEF Sound, WorkersSound, DiskSound, BackupKept
  <2>4. CASE UNCHANGED vars
    <3>1. /\ up' = up /\ disk' = disk /\ mem' = mem /\ faults' = faults /\ work' = work
          /\ dirs' = dirs /\ jobs' = jobs /\ meddling' = meddling
          /\ installed' = installed /\ running' = running
          BY <2>4 DEF vars, moving
    <3>2. WorkersSound'
          BY <3>1 DEF Sound, WorkersSound, WorkerSound, Working, PhaseFits, RecordFits, WayBack,
             HostFits
    <3> QED
        BY <3>1, <3>2 DEF Sound, DiskSound, BackupKept, RecordHonest
  <2> QED
      BY <2>1, <2>2, <2>3, <2>4, WorkSound, CleanupSound, StartSound, BootSound DEF Next
<1> QED
    BY <1>1, <1>2 DEF IInv

\* The invariant holds initially.
LEMMA InitSound == Init => IInv
<1> SUFFICES ASSUME Init PROVE Sound
    BY InitTyped DEF IInv
<1>1. WorkersSound
      BY DEF Init, WorkersSound, WorkerSound, Working, Idle
<1>2. disk.phase = "" /\ disk.id = 0 /\ dirs = {} /\ jobs = 0
      BY DEF Init, NoJob
<1>3. DiskSound
  <2>1. disk.id <= jobs
    <3>1. 0 <= 0
          OBVIOUS
    <3> QED
        BY <1>2, <3>1
  <2>2. disk.phase \notin Recoverable
        BY <1>2 DEF Recoverable
  <2> QED
      BY <1>2, <2>1, <2>2 DEF DiskSound
<1>4. BackupKept /\ RecordHonest
      BY <1>2 DEF BackupKept, RecordHonest, Recoverable
<1> QED
    BY <1>1, <1>3, <1>4 DEF Sound

-----------------------------------------------------------------------------
(* Results. *)

\* The invariant holds of every behaviour (agent.go, deployment.go).
THEOREM AgentInvariant == Spec => []IInv
BY InitSound, StepSound, PTL DEF Spec

\* Every variable keeps its type, through every failed write and crash.
THEOREM TypeCorrect == Spec => []TypeOK
<1>1. IInv => TypeOK
      BY DEF IInv
<1> QED
    BY <1>1, AgentInvariant, PTL

\* At most one goroutine touches the deployment, and it is the one of the
\* active job in memory, whatever failed before.
THEOREM OneAtWork == Spec => []OneWorker
<1>1. IInv => OneWorker
  <2> SUFFICES ASSUME IInv, NEW i \in Ids, Working(i) PROVE up /\ mem.id = i /\ mem.phase \in Active
      BY DEF OneWorker
  <2> QED
      BY AtWork DEF IInv
<1> QED
    BY <1>1, AgentInvariant, PTL

\* The backup that a rollback may still need is never cleaned up.
THEOREM BackupIsThere == Spec => []BackupKept
<1>1. IInv => BackupKept
      BY DEF IInv, Sound
<1> QED
    BY <1>1, AgentInvariant, PTL

\* What the record claims after a restart is true of the deployment.
THEOREM RecordIsTrue == Spec => []RecordHonest
<1>1. IInv => RecordHonest
      BY DEF IInv, Sound
<1> QED
    BY <1>1, AgentInvariant, PTL

\* The way back is on record before a goroutine changes the deployment.
THEOREM RecoveryPointIsFirst == Spec => RecoveryPointFirst
<1>1. ASSUME IInv, [Next]_vars, NEW i \in Ids, work'[i] # work[i], hostVars' # hostVars
      PROVE  disk.id = i /\ disk.prev \in Versions /\ (faults < 2 => disk.phase \in Recoverable)
  <2>0. TypeOK /\ Sound /\ work \in [Ids -> [pc : PCs, job : Jobs]]
        BY <1>1 DEF IInv, TypeOK
  <2>1. PICK k \in Ids : Copy(k) \/ RestartService(k) \/ Rollback(k) \/ RestartBack(k)
    <3>1. ~UNCHANGED vars
          BY <1>1 DEF vars, moving, hostVars
    <3>2. ~(\E v \in Versions : Start(v) \/ OperatorChange(v))
          BY <1>1 DEF Start, Accept, OperatorChange
    <3>3. ~Crash /\ ~Boot /\ ~ServiceRestarts
          BY <1>1 DEF Crash, Boot, ServiceRestarts
    <3>4. PICK k \in Ids : Work(k) \/ Timeout(k)
          BY <1>1, <3>1, <3>2, <3>3 DEF Next
    <3>5. ~SavePreparing(k) /\ ~SaveApplying(k) /\ ~SaveValidating(k) /\ ~SaveSucceeded(k) /\ ~SaveOutcome(k)
          BY <1>1 DEF SavePreparing, SaveApplying, SaveValidating, SaveSucceeded, SaveOutcome,
             SaveOrFail
    <3>6. ~Prepare(k) /\ ~Preflight(k) /\ ~Fail(k) /\ ~Cleanup(k)
          BY <1>1 DEF Prepare, Preflight, Fail, Cleanup
    <3>7. ~Probe(k) /\ ~ProbeBack(k) /\ ~Timeout(k)
          BY <1>1 DEF Probe, ProbeBack, Timeout, ProbeTimeout, ProbeBackTimeout, ProbeTurn, Deadline
    <3> QED
        BY <3>4, <3>5, <3>6, <3>7 DEF Work
  <2>2. \A h \in Ids \ {k} : work'[h] = work[h]
        BY <2>0, <2>1 DEF Copy, RestartService, Rollback, RestartBack, Goto, At
  <2>3. k = i
        BY <1>1, <2>2
  <2>4. work[i].pc \in {"copy", "restart", "rollback", "restartBack"}
        BY <2>1, <2>3 DEF Copy, RestartService, Rollback, RestartBack
  <2>5. PhaseFits(i) /\ RecordFits(i) /\ WayBack(i)
        BY <2>0, <2>4, AtWork DEF Working
  <2> QED
      BY <2>4, <2>5 DEF PhaseFits, RecordFits, WayBack, Late, Early, Recoverable
<1>2. IInv /\ [Next]_vars =>
        [\A i \in Ids : work'[i] # work[i] /\ hostVars' # hostVars =>
            /\ disk.id = i /\ disk.prev \in Versions
            /\ faults < 2 => disk.phase \in Recoverable]_vars
      BY <1>1
<1> QED
    BY <1>2, AgentInvariant, PTL DEF Spec, RecoveryPointFirst

=============================================================================
