--------------------------- MODULE WorkspaceLock ---------------------------
(***************************************************************************)
(* The lock file of a codali workspace (class WorkspaceLock), taken and    *)
(* released once by every `codali run` process.  The file is read, judged, *)
(* unlinked and written by separate awaits, so the steps of two processes  *)
(* interleave.  writeFile truncates and then writes: in between the file   *)
(* cannot be parsed, which readLock takes for "no lock".                   *)
(***************************************************************************)
EXTENDS FiniteSets

CONSTANTS
  Processes,  \* of `codali run`; each has its own runId and pid
  Host,       \* the host a process is on
  Nobody      \* not a process

ASSUME ProcessesAssumption ==
  Nobody \notin Processes \cup {"garbled"} /\ "garbled" \notin Processes

VARIABLES
  lockStage,  \* where a run is in acquire, its work, and release
  lockFile,   \* the runId in the file, "garbled" when truncated, Nobody when absent
  stale,      \* the content of the file is older than maxAgeMs
  openOn,     \* runs with an open descriptor of the file that lockPath names
  existing,   \* what the run's readLock returned
  logged,     \* runs whose log holds a terminal event
  disturbed   \* history: acquires overlapped, a live run's lock aged, a file was unlinked unread

lockVars == <<lockStage, lockFile, stale, openOn, existing, logged, disturbed>>

Acquiring == {"asking", "clearing", "opening", "writing"}
Unfinished == Acquiring \cup {"held", "unlinking"}
LockStages == Unfinished \cup {"new", "refused", "done", "dead"}

LockTypeOK ==
  /\ lockStage \in [Processes -> LockStages]
  /\ lockFile \in Processes \cup {Nobody, "garbled"}
  /\ stale \in BOOLEAN /\ openOn \subseteq Processes
  /\ existing \in [Processes -> Processes \cup {Nobody}]
  /\ logged \subseteq Processes /\ disturbed \in BOOLEAN

LockInit ==
  /\ lockStage = [r \in Processes |-> "new"]
  /\ lockFile = Nobody /\ stale = FALSE /\ openOn = {}
  /\ existing = [r \in Processes |-> Nobody]
  /\ logged = {} /\ disturbed = FALSE

Moves(r, next) == lockStage' = [lockStage EXCEPT ![r] = next]
OthersAcquire(r) == \E q \in Processes \ {r} : lockStage[q] \in Acquiring

(* isSameHost and isProcessAlive: a pid says nothing on another host. *)
Alive(owner) == lockStage[owner] \in Unfinished
KnownDead(r, owner) == Host[owner] = Host[r] /\ ~ Alive(owner)
KnownAlive(r, owner) == Host[owner] = Host[r] /\ Alive(owner)

(* Mutant: a lock from another host is cleared without a look at the log. *)
ClearsUnknown(r, owner) ==
  IF stale \/ ~ KnownAlive(r, owner) THEN "clearing" ELSE "refused"

(* shouldClearExisting, up to the reading of the owner's log. *)
Judge(r, owner) ==
  IF stale \/ KnownDead(r, owner) THEN "clearing"
  ELSE IF KnownAlive(r, owner) THEN "refused"
  ELSE "asking"

-----------------------------------------------------------------------------
(* acquire *)

(* readLock returns undefined: no file, or one that cannot be parsed. *)
ReadsNoLock(r) ==
  /\ lockStage[r] = "new" /\ lockFile \in {Nobody, "garbled"}
  /\ Moves(r, "opening")
  /\ disturbed' = (disturbed \/ OthersAcquire(r))
  /\ UNCHANGED <<lockFile, stale, openOn, existing, logged>>

ReadsLock(r) ==
  /\ lockStage[r] = "new" /\ lockFile \in Processes
  /\ Moves(r, Judge(r, lockFile))
  /\ existing' = [existing EXCEPT ![r] = lockFile]
  /\ disturbed' = (disturbed \/ OthersAcquire(r) \/ (stale /\ Alive(lockFile)))
  /\ UNCHANGED <<lockFile, stale, openOn, logged>>

(* hasTerminalRunLog; a log that cannot be read is no terminal log. *)
ReadsLog(r) ==
  /\ lockStage[r] = "asking"
  /\ \/ existing[r] \in logged /\ Moves(r, "clearing")
     \/ Moves(r, "refused")
  /\ UNCHANGED <<lockFile, stale, openOn, existing, logged, disturbed>>

(* unlink takes whatever file is there now, meant or not, and its errors are ignored. *)
Unlink(meant) ==
  /\ lockFile' = Nobody /\ stale' = FALSE /\ openOn' = {}
  /\ disturbed' = (disturbed \/ lockFile \notin {meant, Nobody})

ClearsLock(r) ==
  /\ lockStage[r] = "clearing" /\ Moves(r, "opening")
  /\ Unlink(existing[r])
  /\ UNCHANGED <<existing, logged>>

OpensFile(r) ==
  /\ lockStage[r] = "opening" /\ Moves(r, "writing")
  /\ lockFile' = "garbled" /\ openOn' = openOn \cup {r}
  /\ UNCHANGED <<stale, existing, logged, disturbed>>

(* What is written through a descriptor of an unlinked file is lost; acquire succeeds anyway. *)
WritesFile(r) ==
  /\ lockStage[r] = "writing" /\ Moves(r, "held")
  /\ openOn' = openOn \ {r}
  /\ IF r \in openOn THEN lockFile' = r /\ stale' = FALSE ELSE UNCHANGED <<lockFile, stale>>
  /\ UNCHANGED <<existing, logged, disturbed>>

-----------------------------------------------------------------------------
(* release, called by the finally of the run or by a signal handler. *)

(* Mutant: a file that names this run is left alone like another run's. *)
KeepsAnyLock(r) == lockFile \in Processes

KeepsLock(r) == lockFile \in Processes \ {r}

ReleaseReads(r) ==
  /\ lockStage[r] = "held"
  /\ Moves(r, IF KeepsLock(r) THEN "done" ELSE "unlinking")
  /\ UNCHANGED <<lockFile, stale, openOn, existing, logged, disturbed>>

ReleaseUnlinks(r) ==
  /\ lockStage[r] = "unlinking" /\ Moves(r, "done")
  /\ Unlink(r)
  /\ UNCHANGED <<existing, logged>>

(* run_summary or run_failed before the release, run_cancelled beside it. *)
LogsEnd(r) ==
  /\ lockStage[r] \in {"held", "unlinking"} /\ r \notin logged
  /\ logged' = logged \cup {r}
  /\ UNCHANGED <<lockStage, lockFile, stale, openOn, existing, disturbed>>

-----------------------------------------------------------------------------
(* The environment. *)

ProcessDies(r) ==
  /\ lockStage[r] \in Unfinished /\ Moves(r, "dead")
  /\ openOn' = openOn \ {r}
  /\ UNCHANGED <<lockFile, stale, existing, logged, disturbed>>

Ages ==
  /\ lockFile \in Processes /\ ~ stale /\ stale' = TRUE
  /\ UNCHANGED <<lockStage, lockFile, openOn, existing, logged, disturbed>>

AllOver == (\A r \in Processes : lockStage[r] \in {"refused", "done", "dead"}) /\ UNCHANGED lockVars

ProcessStep(r) ==
  \/ ReadsNoLock(r) \/ ReadsLock(r) \/ ReadsLog(r) \/ ClearsLock(r) \/ OpensFile(r)
  \/ WritesFile(r) \/ ReleaseReads(r) \/ ReleaseUnlinks(r) \/ LogsEnd(r) \/ ProcessDies(r)

LockNext == Ages \/ AllOver \/ \E r \in Processes : ProcessStep(r)

LockSpec == LockInit /\ [][LockNext]_lockVars

-----------------------------------------------------------------------------
(* Properties *)

(* The runs at work: the lock is held and the end is not logged. *)
Working == {r \in Processes : lockStage[r] = "held" /\ r \notin logged}

(* What the tests promise: a second run is refused while one is at work.  The  *)
(* code keeps it only as far as ExclusiveUnlessDisturbed says: two runs that   *)
(* both find no lock both write one.                                           *)
MutualExclusion == \A q, r \in Working : q = r

(* The lock is exclusive as long as no two acquires overlap, no lock outlives  *)
(* maxAgeMs under a live run and no release unlinks what it did not write.     *)
ExclusiveUnlessDisturbed == ~ disturbed => MutualExclusion

(* A run that ended its release never leaves a file in its name behind, also   *)
(* when other runs stole, truncated or replaced the file.                      *)
NoLockLeftBehind == \A r \in Processes : lockStage[r] \in {"done", "refused"} => lockFile # r
=============================================================================
