----------------------------- MODULE TaskLocks -----------------------------
(***************************************************************************)
(* The lock row of one backlog task in the workspace database and the runs *)
(* of work-on-tasks that compete for the task, each in a process of its    *)
(* own.  A row may be taken over when it expired or when the task run it   *)
(* names is no longer 'running'.  Every statement or transaction of the    *)
(* database is one action; everything between two of them interleaves.     *)
(***************************************************************************)
CONSTANTS
  Runs,        \* task runs: one pass of taskLoop over the task
  Jobs,
  JobOf,       \* the job of a run
  MayExpire,   \* a row can reach its TTL
  MayCancel,   \* the jobs that can be cancelled
  MayAbandon,  \* the runs whose agent may go on when they give it up
  NoRun        \* not a run: there is no row

ASSUME RunsAssumption ==
  /\ NoRun \notin Runs /\ JobOf \in [Runs -> Jobs]
  /\ MayExpire \in BOOLEAN /\ MayCancel \subseteq Jobs /\ MayAbandon \subseteq Runs

VARIABLES
  holder,      \* task_run_id of the row in task_locks, or NoRun
  expired,     \* expires_at of the row has passed
  status,      \* task_runs.status
  stage,       \* where the run is in taskLoop
  vcsFinalized,
  cancelling,  \* what is left to do of a job's cancellation
  abandoned,   \* the runs that have given their agent up while it goes on editing
  excused      \* history: the runs that lost their row, for a named reason, while they edited

vars == <<holder, expired, status, stage, vcsFinalized, cancelling, abandoned, excused>>

Stages == {"new", "created", "working", "vcs", "ended", "over", "dead"}
Statuses == {"none", "running", "succeeded", "failed", "cancelled"}

TypeOK ==
  /\ holder \in Runs \cup {NoRun} /\ expired \in BOOLEAN
  /\ status \in [Runs -> Statuses] /\ stage \in [Runs -> Stages]
  /\ vcsFinalized \in [Runs -> BOOLEAN]
  /\ cancelling \in [Jobs -> {"no", "runs", "locks", "done"}]
  /\ abandoned \subseteq Runs /\ excused \subseteq Runs

Init ==
  /\ holder = NoRun /\ expired = FALSE
  /\ status = [r \in Runs |-> "none"] /\ stage = [r \in Runs |-> "new"]
  /\ vcsFinalized = [r \in Runs |-> FALSE]
  /\ cancelling = [j \in Jobs |-> "no"]
  /\ abandoned = {} /\ excused = {}

Goes(r, next) == stage' = [stage EXCEPT ![r] = next]
Sets(r, s) == status' = [status EXCEPT ![r] = s]

(* The run is past the lock and not yet done with the task. *)
Engaged == {r \in Runs : stage[r] \in {"working", "vcs"}}

(* The workspace may be edited for the run, by itself or by an agent it has left behind. *)
Editing == Engaged \cup abandoned

-----------------------------------------------------------------------------
(* The statements on task_locks. *)

(* Mutant: the run that a row names is not looked at. *)
TakesAnyRow == TRUE

(* ON CONFLICT ... DO UPDATE ... WHERE. *)
MayTakeRow == IF holder = NoRun THEN TRUE ELSE expired \/ status[holder] # "running"

(* The holder, if it is still edited for and its row has expired or it has an end status. *)
LosesEarly == {r \in Editing : r = holder /\ (expired \/ status[r] # "running")}

(* Mutant: the row is deleted whoever holds it. *)
DeletesAnyRow(r) == TRUE

(* Mutant: only a run that succeeded gives its row back. *)
DeletesAfterSuccess(r) == holder = r /\ status[r] = "succeeded"

(* DELETE ... WHERE task_id = ? AND task_run_id = ?, the row being this task's. *)
DeletesRow(r) == holder = r

(* UPDATE ... SET expires_at: also an expired row is refreshed; FALSE when it is not r's. *)
Refreshes(r) == holder = r /\ expired' = FALSE /\ UNCHANGED holder

-----------------------------------------------------------------------------
(* taskLoop. *)

(* An abort or a lost lock rejects the promise that waits for the agent: the agent, *)
(* which is given no signal, goes on.                                               *)
LeavesAgent(r) ==
  \/ UNCHANGED abandoned
  \/ stage[r] = "working" /\ r \in MayAbandon /\ abandoned' = abandoned \cup {r}

AgentStops(r) ==
  /\ r \in abandoned /\ abandoned' = abandoned \ {r}
  /\ UNCHANGED <<holder, expired, status, stage, vcsFinalized, cancelling, excused>>

CreatesTaskRun(r) ==
  /\ stage[r] = "new" /\ Goes(r, "created") /\ Sets(r, "running")
  /\ UNCHANGED <<holder, expired, vcsFinalized, cancelling, abandoned, excused>>

(* The selection phase fails before there is a lock, or the lock's transaction throws. *)
SelectionFails(r) ==
  /\ stage[r] = "created" /\ Goes(r, "over")
  /\ Sets(r, "failed") \/ UNCHANGED status
  /\ UNCHANGED <<holder, expired, vcsFinalized, cancelling, abandoned, excused>>

TakesLock(r) ==
  /\ stage[r] = "created" /\ MayTakeRow
  /\ excused' = excused \cup LosesEarly
  /\ holder' = r /\ expired' = FALSE
  /\ Goes(r, "working")
  /\ UNCHANGED <<status, vcsFinalized, cancelling, abandoned>>

(* tryAcquireTaskLock is refused: the task is skipped. *)
FindsLocked(r) ==
  /\ stage[r] = "created" /\ ~ MayTakeRow
  /\ Goes(r, "over") /\ Sets(r, "cancelled")
  /\ UNCHANGED <<holder, expired, vcsFinalized, cancelling, abandoned, excused>>

(* refreshLock, by the timer of the agent phase or between two phases. *)
RefreshesLock(r) ==
  /\ stage[r] \in {"working", "vcs"}
  /\ Refreshes(r)
  /\ UNCHANGED <<status, stage, vcsFinalized, cancelling, abandoned, excused>>

(* A refresh that finds another row, or throws: the run fails and goes to its finally. *)
LosesLock(r) ==
  /\ stage[r] \in {"working", "vcs"}
  /\ Goes(r, "ended") /\ Sets(r, "failed") /\ LeavesAgent(r)
  /\ UNCHANGED <<holder, expired, vcsFinalized, cancelling, excused>>

(* A failed or aborted phase; an error that is not recognised is thrown on without an *)
(* end status.                                                                        *)
Fails(r) ==
  /\ stage[r] = "working" /\ Goes(r, "ended")
  /\ Sets(r, "failed") \/ UNCHANGED status
  /\ LeavesAgent(r)
  /\ UNCHANGED <<holder, expired, vcsFinalized, cancelling, excused>>

(* runVcsPhase at its usual place: a forced refresh, then stage, commit, merge, push. *)
StartsVcs(r) ==
  /\ stage[r] = "working" /\ Goes(r, "vcs") /\ Refreshes(r)
  /\ vcsFinalized' = [vcsFinalized EXCEPT ![r] = TRUE]
  /\ UNCHANGED <<status, cancelling, abandoned, excused>>

(* runVcsPhase with nothing to do, in a dry run, with noCommit or without a branch. *)
SkipsVcs(r) ==
  /\ stage[r] = "working" /\ ~ vcsFinalized[r]
  /\ vcsFinalized' = [vcsFinalized EXCEPT ![r] = TRUE]
  /\ UNCHANGED <<holder, expired, status, stage, cancelling, abandoned, excused>>

(* The run has succeeded; if no changes were needed its branch is merged afterwards. *)
Succeeds(r) ==
  /\ stage[r] = "working" /\ Goes(r, "ended") /\ Sets(r, "succeeded")
  /\ UNCHANGED <<holder, expired, vcsFinalized, cancelling, abandoned, excused>>

(* runVcsPhase in the finally of a run that succeeded without it: at work, its lock *)
(* lost, or nothing to do.                                                          *)
StartsDeferredVcs(r) ==
  /\ stage[r] = "ended" /\ status[r] = "succeeded" /\ ~ vcsFinalized[r]
  /\ vcsFinalized' = [vcsFinalized EXCEPT ![r] = TRUE]
  /\ \/ Goes(r, "vcs") /\ Refreshes(r) /\ UNCHANGED status
     \/ Sets(r, "failed") /\ UNCHANGED <<stage, holder, expired>>
     \/ UNCHANGED <<stage, holder, expired, status>>
  /\ UNCHANGED <<cancelling, abandoned, excused>>

(* Commit or merge fails: the run has failed, and what there is is pushed all the same. *)
VcsFails(r) ==
  /\ stage[r] = "vcs" /\ status[r] # "failed" /\ Sets(r, "failed")
  /\ UNCHANGED <<holder, expired, stage, vcsFinalized, cancelling, abandoned, excused>>

(* The end of runVcsPhase; a run that succeeds is marked so, one that throws is not. *)
VcsOver(r) ==
  /\ stage[r] = "vcs" /\ Goes(r, "ended")
  /\ \/ UNCHANGED status
     \/ status[r] # "failed" /\ Sets(r, "succeeded")
  /\ UNCHANGED <<holder, expired, vcsFinalized, cancelling, abandoned, excused>>

(* releaseTaskLock in the finally; the agent may still be at work. *)
ReleasesLock(r) ==
  /\ stage[r] = "ended" /\ (status[r] = "succeeded" => vcsFinalized[r])
  /\ Goes(r, "over")
  /\ IF DeletesRow(r) THEN holder' = NoRun /\ expired' = FALSE
     ELSE UNCHANGED <<holder, expired>>
  /\ excused' = excused \cup {p \in abandoned : p = r /\ p = holder}
  /\ UNCHANGED <<status, vcsFinalized, cancelling, abandoned>>

(* The process ends, or the finally throws before the release; the agent, a process of *)
(* its own or another host's, may survive both.                                        *)
Dies(r) ==
  /\ stage[r] \notin {"new", "over", "dead"} /\ Goes(r, "dead") /\ LeavesAgent(r)
  /\ UNCHANGED <<holder, expired, status, vcsFinalized, cancelling, excused>>

-----------------------------------------------------------------------------
(* Other processes. *)

Expires ==
  /\ MayExpire /\ holder # NoRun /\ ~ expired /\ expired' = TRUE
  /\ UNCHANGED <<holder, status, stage, vcsFinalized, cancelling, abandoned, excused>>

(* cleanupExpiredTaskLocks, by gateway-trio when it starts. *)
CleansUp ==
  /\ expired
  /\ excused' = excused \cup LosesEarly
  /\ holder' = NoRun /\ expired' = FALSE
  /\ UNCHANGED <<status, stage, vcsFinalized, cancelling, abandoned>>

(* A cancelled job: its running task runs, then its rows; a signal drops the rows first. *)
CancelsJob(j) ==
  /\ j \in MayCancel /\ cancelling[j] = "no"
  /\ cancelling' = [cancelling EXCEPT ![j] = "runs"]
  /\ UNCHANGED <<holder, expired, status, stage, vcsFinalized, abandoned, excused>>

DropsRows(j) ==
  IF holder # NoRun /\ JobOf[holder] = j
  THEN /\ excused' = excused \cup {p \in Editing : p = holder}
       /\ holder' = NoRun /\ expired' = FALSE
  ELSE UNCHANGED <<holder, expired, excused>>

SignalDropsRows(j) ==
  /\ cancelling[j] = "runs" /\ DropsRows(j)
  /\ UNCHANGED <<status, stage, vcsFinalized, cancelling, abandoned>>

CancelsRuns(j) ==
  /\ cancelling[j] = "runs"
  /\ cancelling' = [cancelling EXCEPT ![j] = "locks"]
  /\ status' = [r \in Runs |-> IF JobOf[r] = j /\ status[r] = "running" THEN "cancelled" ELSE status[r]]
  /\ UNCHANGED <<holder, expired, stage, vcsFinalized, abandoned, excused>>

CancelDropsRows(j) ==
  /\ cancelling[j] = "locks" /\ DropsRows(j)
  /\ cancelling' = [cancelling EXCEPT ![j] = "done"]
  /\ UNCHANGED <<status, stage, vcsFinalized, abandoned>>

Over == (\A r \in Runs : stage[r] \in {"over", "dead"}) /\ UNCHANGED vars

Step(r) ==
  \/ CreatesTaskRun(r) \/ SelectionFails(r) \/ TakesLock(r) \/ FindsLocked(r)
  \/ RefreshesLock(r) \/ LosesLock(r) \/ Fails(r) \/ StartsVcs(r) \/ SkipsVcs(r)
  \/ Succeeds(r) \/ StartsDeferredVcs(r) \/ VcsFails(r) \/ VcsOver(r)
  \/ ReleasesLock(r) \/ Dies(r) \/ AgentStops(r)

Next ==
  \/ Expires \/ CleansUp \/ Over
  \/ \E r \in Runs : Step(r)
  \/ \E j \in Jobs : CancelsJob(j) \/ SignalDropsRows(j) \/ CancelsRuns(j) \/ CancelDropsRows(j)

Spec == Init /\ [][Next]_vars

-----------------------------------------------------------------------------
(* Properties *)

(* Task locks prevent concurrent edits, even without expiry and cancellation.  *)
(* The code breaks it: a run that has an end status still merges and pushes,   *)
(* and its row can be taken meanwhile.                                         *)
EditsExclusive == \A q, r \in Editing : q = r

(* Of two that edit the same task, run or agent left behind, one has lost its  *)
(* row before it stopped: the row expired, a cancellation dropped it, it was   *)
(* taken by an end status set early or by a cancellation, or the run gave it   *)
(* back while its agent went on.  There is no other way to two that edit.      *)
ExclusiveUnlessExcused ==
  \A q, r \in Editing : q = r \/ q \in excused \/ r \in excused

(* A run that is working keeps its row while the row is fresh and its job is   *)
(* not cancelled: no other run's take-over, failure or release removes it.     *)
WorkerKeepsRow ==
  [][\A r \in Runs :
       (holder = r /\ r \in Engaged /\ r \in Engaged' /\ status[r] = "running" /\ ~ expired
          /\ cancelling[JobOf[r]] = "no")
       => holder' = r]_vars

(* A run that is over, by whichever way but a death or a throw of its finally, *)
(* leaves no row of its own behind.                                            *)
NoRowLeftBehind == \A r \in Runs : stage[r] = "over" => holder # r
=============================================================================
