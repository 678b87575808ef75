---------------------------- MODULE LockProofs ----------------------------
(***************************************************************************)
(* Theorems about the two locks: the lock row of a task (TaskLocks), for   *)
(* any task runs of any jobs, and the lock file of a workspace             *)
(* (WorkspaceLock), for any processes on any hosts.                        *)
(***************************************************************************)
EXTENDS TaskLocks, WorkspaceLock, TLAPS

-----------------------------------------------------------------------------
(* The lock row of a task. *)

(* Every variable keeps its type. *)
LEMMA TypeInit == Init => TypeOK
<1> SUFFICES ASSUME Init PROVE TypeOK
  OBVIOUS
<1>1. stage \in [Runs -> Stages] /\ status \in [Runs -> Statuses]
  BY DEF Init, Stages, Statuses
<1>2. vcsFinalized \in [Runs -> BOOLEAN]
  BY DEF Init
<1>3. cancelling \in [Jobs -> {"no", "runs", "locks", "done"}]
  BY DEF Init
<1> QED BY <1>1, <1>2, <1>3 DEF Init, TypeOK

LEMMA TypeStep == TypeOK /\ [Next]_vars => TypeOK'
<1> SUFFICES ASSUME TypeOK, [Next]_vars PROVE TypeOK'
  OBVIOUS
<1> USE DEF TypeOK, Stages, Statuses, Goes, Sets
<1>1. ASSUME NEW r \in Runs, Step(r) PROVE TypeOK'
  <2>1. CASE CreatesTaskRun(r) \/ SelectionFails(r) \/ FindsLocked(r)
    BY <2>1 DEF CreatesTaskRun, SelectionFails, FindsLocked
  <2>2. CASE TakesLock(r)
    BY <2>2 DEF TakesLock, LosesEarly, Editing, Engaged
  <2>3. CASE RefreshesLock(r) \/ LosesLock(r) \/ Fails(r)
    BY <2>3, RunsAssumption DEF RefreshesLock, LosesLock, Fails, Refreshes, LeavesAgent
  <2>4. CASE StartsVcs(r) \/ Succeeds(r) \/ SkipsVcs(r)
    BY <2>4 DEF StartsVcs, Succeeds, SkipsVcs, Refreshes
  <2>5. CASE StartsDeferredVcs(r)
    BY <2>5 DEF StartsDeferredVcs, Refreshes
  <2>6. CASE VcsFails(r) \/ VcsOver(r)
    BY <2>6 DEF VcsFails, VcsOver
  <2>7. CASE ReleasesLock(r) \/ Dies(r) \/ AgentStops(r)
    BY <2>7, RunsAssumption DEF ReleasesLock, Dies, AgentStops, LeavesAgent
  <2> QED BY <1>1, <2>1, <2>2, <2>3, <2>4, <2>5, <2>6, <2>7 DEF Step
<1>2. CASE Expires \/ CleansUp
  BY <1>2 DEF Expires, CleansUp, LosesEarly, Editing, Engaged
<1>3. ASSUME NEW j \in Jobs, CancelsJob(j) \/ SignalDropsRows(j) \/ CancelDropsRows(j)
      PROVE  TypeOK'
  BY <1>3 DEF CancelsJob, SignalDropsRows, CancelDropsRows, DropsRows, Editing, Engaged
<1>4. ASSUME NEW j \in Jobs, CancelsRuns(j) PROVE TypeOK'
  BY <1>4 DEF CancelsRuns
<1>5. CASE UNCHANGED vars
  BY <1>5 DEF vars
<1> QED BY <1>1, <1>2, <1>3, <1>4, <1>5 DEF Next, Over

(* Whatever the runs do, the variables keep their types. *)
THEOREM TypeCorrect == Spec => []TypeOK
BY TypeInit, TypeStep, PTL DEF Spec

-----------------------------------------------------------------------------
(* No row is left behind. *)

(* The row names a run only between its take-over and its release. *)
Unnamed == \A r \in Runs : stage[r] \in {"new", "created", "over"} => holder # r

LEMMA UnnamedStep == TypeOK /\ Unnamed /\ [Next]_vars => Unnamed'
<1> SUFFICES ASSUME TypeOK, Unnamed, [Next]_vars, NEW q \in Runs,
                    stage'[q] \in {"new", "created", "over"}
             PROVE  holder' # q
  BY DEF Unnamed
<1> USE RunsAssumption DEF TypeOK, Stages, Unnamed, Goes
<1>1. ASSUME NEW r \in Runs, Step(r) PROVE holder' # q
  <2>1. CASE CreatesTaskRun(r) \/ SelectionFails(r) \/ FindsLocked(r)
    BY <2>1 DEF CreatesTaskRun, SelectionFails, FindsLocked
  <2>2. CASE TakesLock(r)
    BY <2>2 DEF TakesLock
  <2>3. CASE RefreshesLock(r) \/ LosesLock(r) \/ Fails(r)
    BY <2>3 DEF RefreshesLock, LosesLock, Fails, Refreshes
  <2>4. CASE StartsVcs(r) \/ Succeeds(r) \/ SkipsVcs(r) \/ StartsDeferredVcs(r)
    BY <2>4 DEF StartsVcs, Succeeds, SkipsVcs, StartsDeferredVcs, Refreshes
  <2>5. CASE VcsFails(r) \/ VcsOver(r)
    BY <2>5 DEF VcsFails, VcsOver
  <2>6. CASE ReleasesLock(r) \/ Dies(r) \/ AgentStops(r)
    BY <2>6 DEF ReleasesLock, DeletesRow, Dies, AgentStops
  <2> QED BY <1>1, <2>1, <2>2, <2>3, <2>4, <2>5, <2>6 DEF Step
<1>2. CASE Expires \/ CleansUp
  BY <1>2 DEF Expires, CleansUp
<1>3. ASSUME NEW j \in Jobs,
             CancelsJob(j) \/ SignalDropsRows(j) \/ CancelsRuns(j) \/ CancelDropsRows(j)
      PROVE  holder' # q
  BY <1>3 DEF CancelsJob, SignalDropsRows, CancelsRuns, CancelDropsRows, DropsRows
<1>4. CASE UNCHANGED vars
  BY <1>4 DEF vars
<1> QED BY <1>1, <1>2, <1>3, <1>4 DEF Next, Over

(* A run that is over, by whichever way, leaves no row of its own behind. *)
THEOREM NoneLeft == Spec => []NoRowLeftBehind
<1>1. Init => Unnamed
  BY RunsAssumption DEF Init, Unnamed
<1>2. Unnamed => NoRowLeftBehind
  BY DEF Unnamed, NoRowLeftBehind
<1> QED BY <1>1, <1>2, UnnamedStep, TypeCorrect, PTL DEF Spec

-----------------------------------------------------------------------------
(* Exclusion, with its excuses. *)

(* Whatever edits, a run or an agent it left behind, the row names the run or an excuse. *)
EditorsHold == \A r \in Editing : holder = r \/ r \in excused

LEMMA EditorsHoldStep == TypeOK /\ EditorsHold /\ [Next]_vars => EditorsHold'
<1>1. TypeOK' => Editing' \subseteq Runs
  BY DEF TypeOK, Editing, Engaged
<1> SUFFICES ASSUME TypeOK, EditorsHold, [Next]_vars, NEW q \in Runs, q \in Editing'
             PROVE  holder' = q \/ q \in excused'
  BY <1>1, TypeStep DEF EditorsHold
<1> USE RunsAssumption DEF TypeOK, Stages, EditorsHold, Editing, Engaged, Goes
<1>2. ASSUME NEW r \in Runs, Step(r) PROVE holder' = q \/ q \in excused'
  <2>1. CASE CreatesTaskRun(r) \/ SelectionFails(r) \/ FindsLocked(r) \/ AgentStops(r)
    BY <2>1 DEF CreatesTaskRun, SelectionFails, FindsLocked, AgentStops
  <2>2. CASE TakesLock(r)
    <3>1. CASE q = r
      BY <2>2, <3>1 DEF TakesLock
    <3>2. CASE q # r
      <4>1. q \in Editing
        BY <2>2, <3>2 DEF TakesLock
      <4>2. q \in excused \/ q \in LosesEarly
        BY <2>2, <4>1 DEF TakesLock, MayTakeRow, LosesEarly
      <4> QED BY <2>2, <4>2 DEF TakesLock
    <3> QED BY <3>1, <3>2
  <2>3. CASE RefreshesLock(r) \/ LosesLock(r) \/ Fails(r) \/ Dies(r)
    BY <2>3 DEF RefreshesLock, LosesLock, Fails, Dies, Refreshes, LeavesAgent
  <2>4. CASE StartsVcs(r) \/ Succeeds(r) \/ SkipsVcs(r) \/ StartsDeferredVcs(r)
    BY <2>4 DEF StartsVcs, Succeeds, SkipsVcs, StartsDeferredVcs, Refreshes
  <2>5. CASE VcsFails(r) \/ VcsOver(r)
    BY <2>5 DEF VcsFails, VcsOver
  <2>6. CASE ReleasesLock(r)
    BY <2>6 DEF ReleasesLock, DeletesRow
  <2> QED BY <1>2, <2>1, <2>2, <2>3, <2>4, <2>5, <2>6 DEF Step
<1>3. CASE Expires \/ CleansUp
  BY <1>3 DEF Expires, CleansUp, LosesEarly
<1>4. ASSUME NEW j \in Jobs,
             CancelsJob(j) \/ SignalDropsRows(j) \/ CancelsRuns(j) \/ CancelDropsRows(j)
      PROVE  holder' = q \/ q \in excused'
  BY <1>4 DEF CancelsJob, SignalDropsRows, CancelsRuns, CancelDropsRows, DropsRows
<1>5. CASE UNCHANGED vars
  BY <1>5 DEF vars
<1> QED BY <1>2, <1>3, <1>4, <1>5 DEF Next, Over

(* Of two that edit one task, run or agent left behind, one has lost its row, or given *)
(* it back over its agent, for a named reason.                                         *)
THEOREM Exclusive == Spec => []ExclusiveUnlessExcused
<1>1. Init => EditorsHold
  BY DEF Init, EditorsHold, Editing, Engaged
<1>2. EditorsHold => ExclusiveUnlessExcused
  BY DEF EditorsHold, ExclusiveUnlessExcused
<1> QED BY <1>1, <1>2, EditorsHoldStep, TypeCorrect, PTL DEF Spec

(* No step of another run takes the fresh row of a run at work. *)
THEOREM KeepsRow == Spec => WorkerKeepsRow
<1>1. TypeOK /\ [Next]_vars =>
        [\A r \in Runs :
           (holder = r /\ r \in Engaged /\ r \in Engaged' /\ status[r] = "running" /\ ~ expired
              /\ cancelling[JobOf[r]] = "no")
           => holder' = r]_vars
  <2> SUFFICES ASSUME TypeOK, Next, NEW q \in Runs, holder = q, q \in Engaged, q \in Engaged',
                      status[q] = "running", ~ expired, cancelling[JobOf[q]] = "no"
               PROVE  holder' = q
    OBVIOUS
  <2> USE RunsAssumption DEF TypeOK, Stages, Engaged, Goes
  <2>1. ASSUME NEW r \in Runs, Step(r) PROVE holder' = q
    <3>1. CASE TakesLock(r)
      BY <2>1, <3>1 DEF TakesLock, MayTakeRow
    <3>2. CASE ReleasesLock(r)
      BY <3>2 DEF ReleasesLock, DeletesRow
    <3>3. CASE ~ TakesLock(r) /\ ~ ReleasesLock(r)
      BY <2>1, <3>3 DEF Step, CreatesTaskRun, SelectionFails, FindsLocked, RefreshesLock,
         LosesLock, Fails, StartsVcs, SkipsVcs, Succeeds, StartsDeferredVcs, VcsFails,
         VcsOver, Dies, AgentStops, Refreshes
    <3> QED BY <3>1, <3>2, <3>3
  <2>2. CASE Expires \/ CleansUp
    BY <2>2 DEF Expires, CleansUp
  <2>3. ASSUME NEW j \in Jobs,
               CancelsJob(j) \/ SignalDropsRows(j) \/ CancelsRuns(j) \/ CancelDropsRows(j)
        PROVE  holder' = q
    BY <2>3 DEF CancelsJob, SignalDropsRows, CancelsRuns, CancelDropsRows, DropsRows
  <2> QED BY <2>1, <2>2, <2>3 DEF Next, Over, vars
<1> QED BY <1>1, TypeCorrect, PTL DEF Spec, WorkerKeepsRow

-----------------------------------------------------------------------------
(* The lock file of a workspace. *)

(* Every variable keeps its type. *)
LEMMA LockTypeInit == LockInit => LockTypeOK
BY DEF LockInit, LockTypeOK, LockStages, Unfinished, Acquiring

LEMMA LockTypeStep == LockTypeOK /\ [LockNext]_lockVars => LockTypeOK'
<1> SUFFICES ASSUME LockTypeOK, [LockNext]_lockVars PROVE LockTypeOK'
  OBVIOUS
<1> USE DEF LockTypeOK, LockStages, Unfinished, Acquiring, Moves
<1>1. ASSUME NEW r \in Processes, ProcessStep(r) PROVE LockTypeOK'
  <2>1. CASE ReadsNoLock(r)
    BY <2>1 DEF ReadsNoLock, OthersAcquire
  <2>2. CASE ReadsLock(r)
    <3>1. Judge(r, lockFile) \in {"clearing", "refused", "asking"}
      BY DEF Judge
    <3> QED BY <2>2, <3>1 DEF ReadsLock, OthersAcquire, Alive
  <2>3. CASE ReadsLog(r)
    BY <2>3 DEF ReadsLog
  <2>4. CASE ClearsLock(r) \/ ReleaseUnlinks(r)
    BY <2>4 DEF ClearsLock, ReleaseUnlinks, Unlink
  <2>5. CASE OpensFile(r)
    BY <2>5 DEF OpensFile
  <2>6. CASE WritesFile(r)
    BY <2>6 DEF WritesFile
  <2>7. CASE ReleaseReads(r)
    BY <2>7 DEF ReleaseReads
  <2>8. CASE LogsEnd(r)
    BY <2>8 DEF LogsEnd
  <2>9. CASE ProcessDies(r)
    BY <2>9 DEF ProcessDies
  <2> QED BY <1>1, <2>1, <2>2, <2>3, <2>4, <2>5, <2>6, <2>7, <2>8, <2>9 DEF ProcessStep
<1>2. CASE Ages
  BY <1>2 DEF Ages
<1>3. CASE UNCHANGED lockVars
  BY <1>3 DEF lockVars
<1> QED BY <1>1, <1>2, <1>3 DEF LockNext, AllOver

(* Whatever the runs do, the variables keep their types. *)
THEOREM LockTypeCorrect == LockSpec => []LockTypeOK
BY LockTypeInit, LockTypeStep, PTL DEF LockSpec

-----------------------------------------------------------------------------
(* No file is left behind. *)

(* The file names a run only from its own write until its own release has read *)
(* or unlinked it, so a run that has not written, or has released, is not named. *)
FileUnnamed == \A r \in Processes : lockStage[r] \notin {"held", "unlinking", "dead"} => lockFile # r

LEMMA FileUnnamedStep ==
  ASSUME LockTypeOK, FileUnnamed, [LockNext]_lockVars PROVE FileUnnamed'
<1> SUFFICES ASSUME NEW q \in Processes, lockStage'[q] \notin {"held", "unlinking", "dead"}
             PROVE  lockFile' # q
  BY DEF FileUnnamed
<1> USE ProcessesAssumption DEF LockTypeOK, FileUnnamed, Moves
<1>1. ASSUME NEW r \in Processes, ProcessStep(r) PROVE lockFile' # q
  <2>1. CASE ReadsNoLock(r) \/ ReadsLock(r)
    BY <2>1 DEF ReadsNoLock, ReadsLock
  <2>2. CASE ReadsLog(r) \/ LogsEnd(r) \/ ProcessDies(r)
    BY <2>2 DEF ReadsLog, LogsEnd, ProcessDies
  <2>3. CASE ClearsLock(r) \/ ReleaseUnlinks(r)
    BY <2>3 DEF ClearsLock, ReleaseUnlinks, Unlink
  <2>4. CASE OpensFile(r)
    BY <2>4 DEF OpensFile
  <2>5. CASE WritesFile(r)
    BY <2>5 DEF WritesFile
  <2>6. CASE ReleaseReads(r)
    BY <2>6 DEF ReleaseReads, KeepsLock
  <2> QED BY <1>1, <2>1, <2>2, <2>3, <2>4, <2>5, <2>6 DEF ProcessStep
<1>2. CASE Ages \/ UNCHANGED lockVars
  BY <1>2 DEF Ages, lockVars
<1> QED BY <1>1, <1>2 DEF LockNext, AllOver

(* A run whose release is over, or that was refused, is not named by the file. *)
THEOREM FileNoneLeft == LockSpec => []NoLockLeftBehind
<1>1. LockInit => FileUnnamed
  BY ProcessesAssumption DEF LockInit, FileUnnamed
<1>2. FileUnnamed => NoLockLeftBehind
  BY DEF FileUnnamed, NoLockLeftBehind
<1>3. LockTypeOK /\ FileUnnamed /\ [LockNext]_lockVars => FileUnnamed'
  BY FileUnnamedStep
<1> QED BY <1>1, <1>2, <1>3, LockTypeCorrect, PTL DEF LockSpec

-----------------------------------------------------------------------------
(* Exclusion, as long as nothing has disturbed it. *)

Taking == {"clearing", "opening", "writing"}

(* The file names the run at work; a run that takes the lock has found nobody  *)
(* at work, and one that still asks has found the run at work, if any; one     *)
(* acquires at a time; the file being written is not replaced under its writer. *)
FileInv ==
  ~ disturbed =>
    /\ \A q \in Working : lockFile = q
    /\ \A r \in Processes : lockStage[r] \in Taking => Working = {}
    /\ \A r \in Processes : lockStage[r] = "asking" => \A q \in Working : existing[r] = q
    /\ \A q, r \in Processes :
          lockStage[q] \in Acquiring /\ lockStage[r] \in Acquiring => q = r
    /\ \A r \in Processes : lockStage[r] = "writing" => r \in openOn /\ lockFile = "garbled"

LEMMA FileInvStep ==
  ASSUME LockTypeOK, LockTypeOK', FileInv, [LockNext]_lockVars
  PROVE  FileInv'
<1> SUFFICES ASSUME ~ disturbed' PROVE FileInv'
  BY DEF FileInv
<1> USE ProcessesAssumption DEF LockTypeOK, Moves, Acquiring, Working, FileInv, Taking
<1>1. ASSUME NEW r \in Processes, ProcessStep(r) PROVE FileInv'
  <2>1. CASE ReadsNoLock(r)
    <3>1. /\ ~ disturbed /\ lockFile \notin Processes
          /\ \A q \in Processes \ {r} : lockStage[q] \notin Acquiring
      BY <2>1 DEF ReadsNoLock, OthersAcquire
    <3>2. Working = {}
      BY <3>1
    <3>3. Working' = {}
      BY <2>1, <3>2 DEF ReadsNoLock
    <3> QED BY <2>1, <3>1, <3>3 DEF ReadsNoLock
  <2>2. CASE ReadsLock(r)
    <3>1. ~ disturbed /\ ~ OthersAcquire(r) /\ (stale => ~ Alive(lockFile))
      BY <2>2 DEF ReadsLock
    <3>2. Judge(r, lockFile) = "clearing" => Working = {}
      <4>1. \A q \in Working : Alive(q)
        BY DEF Alive, Unfinished
      <4> QED BY <3>1, <4>1 DEF Judge, KnownDead
    <3>3. Judge(r, lockFile) \in {"clearing", "refused", "asking"}
      BY DEF Judge
    <3> QED BY <2>2, <3>1, <3>2, <3>3 DEF ReadsLock, OthersAcquire
  <2>3. CASE ReadsLog(r)
    BY <2>3 DEF ReadsLog
  <2>4. CASE ClearsLock(r)
    BY <2>4 DEF ClearsLock, Unlink
  <2>5. CASE OpensFile(r)
    BY <2>5 DEF OpensFile
  <2>6. CASE WritesFile(r)
    BY <2>6 DEF WritesFile
  <2>7. CASE ReleaseReads(r)
    BY <2>7 DEF ReleaseReads
  <2>8. CASE ReleaseUnlinks(r)
    <3>1. ~ disturbed /\ lockFile \in {r, Nobody} /\ lockStage[r] = "unlinking"
      BY <2>8 DEF ReleaseUnlinks, Unlink
    <3>2. Working = {}
      BY <3>1
    <3>3. Working' = {}
      BY <2>8, <3>2 DEF ReleaseUnlinks
    <3>4. \A q \in Processes : lockStage[q] # "writing"
      BY <3>1
    <3> QED BY <2>8, <3>1, <3>3, <3>4 DEF ReleaseUnlinks
  <2>9. CASE LogsEnd(r)
    BY <2>9 DEF LogsEnd
  <2>10. CASE ProcessDies(r)
    BY <2>10 DEF ProcessDies
  <2> QED BY <1>1, <2>1, <2>2, <2>3, <2>4, <2>5, <2>6, <2>7, <2>8, <2>9, <2>10 DEF ProcessStep
<1>2. CASE Ages
  BY <1>2 DEF Ages
<1>3. CASE UNCHANGED lockVars
  BY <1>3 DEF lockVars
<1> QED BY <1>1, <1>2, <1>3 DEF LockNext, AllOver

(* For any number of processes on any hosts: the lock is exclusive unless two   *)
(* acquires overlap, a live run's lock ages or a file is unlinked unread.       *)
THEOREM FileExclusive == LockSpec => []ExclusiveUnlessDisturbed
<1>1. LockInit => FileInv
  BY DEF LockInit, FileInv, Working, Taking, Acquiring
<1>2. FileInv => ExclusiveUnlessDisturbed
  BY DEF FileInv, ExclusiveUnlessDisturbed, MutualExclusion
<1>3. LockTypeOK /\ LockTypeOK' /\ FileInv /\ [LockNext]_lockVars => FileInv'
  BY FileInvStep
<1> QED BY <1>1, <1>2, <1>3, LockTypeCorrect, PTL DEF LockSpec

=============================================================================
