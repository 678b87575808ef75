---------------------------- MODULE GatewayTrio ----------------------------
(***************************************************************************)
(* The gateway-trio loop: one process takes backlog tasks through work,    *)
(* review and QA, keeps its progress in state.json, and tells the          *)
(* workspace database what became of the job and of each task.             *)
(*                                                                         *)
(* Three copies of the truth have to agree: the task rows of the database, *)
(* which the steps themselves write; the progress in memory; and the       *)
(* progress on disk, from which a later --resume starts.  The process may  *)
(* die, fail or be cancelled between any two of its writes, a step that    *)
(* timed out may still write after the loop has gone on, and an operator   *)
(* may cancel the job or a task at any time.                               *)
(*                                                                         *)
(* Steps are agents: their results are chosen from the ones the services   *)
(* can return.  Setbacks bounds how often a step may do anything but       *)
(* advance its task or, where EndlessRetries is set, come back to be done  *)
(* again; Faults bounds how often something outside the loop happens.      *)
(* A resume is called with the options of the job.                         *)
(***************************************************************************)
EXTENDS Naturals, FiniteSets

CONSTANTS Tasks,          \* task keys of the backlog
          Deps,           \* pairs <<t, d>>: t depends on d
          RunLists,       \* what --task may name; {} is "whatever is selected"
          Limits,         \* what --max-iterations may be; 0 is "not given"
          MaxCycles,      \* --max-cycles; 0 is "not given"
          EndlessRetries, \* retries are not bounded by Setbacks
          Setbacks,       \* bound: results other than success
          Faults          \* bound: exceptions, signals, kills, time-outs, cancels

ASSUME TrioAssumption ==
  /\ IsFiniteSet(Tasks) /\ "none" \notin Tasks /\ Deps \subseteq Tasks \X Tasks
  /\ RunLists \subseteq SUBSET Tasks /\ Limits \subseteq Nat
  /\ MaxCycles \in Nat /\ Setbacks \in Nat /\ Faults \in Nat
  /\ EndlessRetries \in BOOLEAN

VARIABLES row,        \* the task rows: status and metadata.failed_reason
          job,        \* the job row's state
          progress,   \* state.tasks in memory
          disk,       \* state.json: the tasks and the cycle
          run,        \* the locals of run()
          late,       \* steps that timed out and have not stopped yet
          dying,      \* a signal handler has cancelled the job and will exit
          opts,       \* run list and limit of the job
          workRuns,   \* history: work steps started per task, over all processes
          overwritten,\* history: tasks whose row an abandoned step changed
          budget      \* setbacks and faults left

vars == <<row, job, progress, disk, run, late, dying, opts, workRuns, overwritten, budget>>

None    == "none"
Steps   == {"work", "review", "qa"}
(* "to_work" is not_started, in_progress or changes_requested, which the   *)
(* loop never tells apart.                                                 *)
Open     == {"to_work", "ready_to_code_review", "ready_to_qa"}
Terminal == {"completed", "cancelled", "failed"}
ReadyDependency == {"ready_to_code_review", "ready_to_qa", "completed", "cancelled"}
(* metadata.failed_reason and lastError, as far as the loop tells them apart: *)
(* "fatal" is one of NON_RETRYABLE_FAILURE_REASONS, "soft" is any other.      *)
Reasons == {None, "soft", "fatal", "zero"}

ToWork     == [status |-> "to_work", reason |-> None]
NoProgress == [status |-> "absent", attempts |-> 0, error |-> None,
               guard |-> "unset", zero |-> [s \in Steps |-> 0], tests |-> 0]
Nothing    == [t \in Tasks |-> NoProgress]
Pending    == [NoProgress EXCEPT !.status = "pending"]

Continuous       == opts.limit = 0
Exhausted(p)     == ~Continuous /\ p.attempts >= opts.limit
NoOutcome        == [kind |-> None, step |-> None, error |-> None, guard |-> "unset"]
Idle == [pc |-> "idle", task |-> None, todo |-> {}, active |-> None, cycle |-> 0,
         abort |-> FALSE, tried |-> FALSE, any |-> FALSE, outcome |-> NoOutcome, end |-> None]

At(l)   == run.pc = l
Going   == ~At("idle")
T       == run.task

(* writeState: the file gets what memory has. *)
Written(p, c) == disk' = [tasks |-> p, cycle |-> c]
Saved(p)      == progress' = p /\ Written(p, disk.cycle)
Ended         == run' = Idle /\ progress' = Nothing   \* memory dies with the process
Goto(l)       == run' = [run EXCEPT !.pc = l]

Setback == budget.setbacks > 0 /\ budget' = [budget EXCEPT !.setbacks = @ - 1]
Fault   == budget.faults > 0 /\ budget' = [budget EXCEPT !.faults = @ - 1]

----------------------------------------------------------------------------
(* Starting and resuming.  The job row says running from its first write; *)
(* what happens before the loop's try block is not covered by its catch.  *)

Init ==
  /\ row = [t \in Tasks |-> ToWork]
  /\ job = None /\ late = {} /\ dying = FALSE
  /\ progress = Nothing
  /\ disk = [tasks |-> Nothing, cycle |-> 0]
  /\ run = Idle
  /\ opts \in [list : RunLists, limit : Limits]
  /\ workRuns = [t \in Tasks |-> 0] /\ overwritten = {}
  /\ budget = [setbacks |-> Setbacks, faults |-> Faults]

Begin(p, c) ==
  /\ job' = "running"
  /\ Saved(p)
  /\ run' = [Idle EXCEPT !.pc = "start", !.cycle = c]

(* A new job: the row, then an empty state.json. *)
StartJob ==
  /\ At("idle") /\ job = None /\ ~dying
  /\ Begin(Nothing, 0)
  /\ UNCHANGED <<row, late, dying, opts, workRuns, overwritten, budget>>

(* assertResumeAllowed, loadState and the switch back to running. *)
Resume ==
  /\ At("idle") /\ job \in {"failed", "partial"}
  /\ Begin(disk.tasks, disk.cycle)
  /\ UNCHANGED <<row, late, dying, opts, workRuns, overwritten, budget>>

(* Preflight, lock clean-up and seedExplicitTasks. *)
Seed ==
  /\ At("start")
  /\ Saved([t \in Tasks |-> IF t \in opts.list /\ progress[t].status = "absent"
                            THEN Pending ELSE progress[t]])
  /\ Goto("head")
  /\ UNCHANGED <<row, job, late, dying, opts, workRuns, overwritten, budget>>

----------------------------------------------------------------------------
(* The head of a cycle: cancellation check, reopening, selection. *)

CapReached == MaxCycles > 0 /\ run.cycle >= MaxCycles

Stop(aborted) == run' = [run EXCEPT !.pc = "finish", !.abort = aborted]

(* Mutant: only the guardrail's verdict is remembered, not the reason. *)
RetryableByVerdict(p) == p.guard # "no" /\ p.error # "zero"

(* shouldReopenFailedTask.  The retry cap per reason and the cooldown      *)
(* answer no for a while: "warm" says that neither does.                   *)
Retryable(p) == p.guard # "no" /\ p.error \notin {"fatal", "zero"}

ShouldReopen(p, warm) == Continuous \/ (Retryable(p) /\ warm)

(* Mutant: a task completed earlier is looked at again. *)
UntouchedUnlessOpen(p) == p.status = "absent"

(* reopenRetryableFailedTasks, for one task. *)
Untouched(p) == p.status \in {"absent", "completed"}

(* The rule for "dependency_not_ready" is left out: nothing writes it. *)
Barred(t) == ~Continuous /\ (progress[t].guard = "no" \/ row[t].reason = "fatal")

Reopens(t, warm) ==
  /\ ~Untouched(progress[t]) /\ ~Exhausted(progress[t])
  /\ \/ row[t].status = "failed" /\ ~Barred(t)
     \/ row[t].status \in Open /\ progress[t].status = "failed"
  /\ ShouldReopen(progress[t], warm)

Reopened(t, warm) ==
  LET p == progress[t] IN
  IF Untouched(p) THEN p
  ELSE IF row[t].status = "completed" THEN [p EXCEPT !.status = "completed"]
  ELSE IF row[t].status = "cancelled" THEN [p EXCEPT !.status = "skipped", !.error = "soft"]
  ELSE IF Exhausted(p) THEN [p EXCEPT !.status = "failed", !.error = IF @ = None THEN "soft" ELSE @]
  ELSE IF Reopens(t, warm) THEN [p EXCEPT !.status = "pending", !.error = None]
  ELSE p

Head ==
  /\ At("head")
  /\ \/ (CapReached \/ job = "cancelled") /\ Stop(job = "cancelled" /\ ~CapReached)
        /\ UNCHANGED <<row, progress, disk>>
     \/ /\ ~CapReached /\ job # "cancelled"
        /\ \E warm \in SUBSET {t \in Tasks : Reopens(t, TRUE)} :
             /\ row' = [t \in Tasks |-> IF row[t].status = "failed" /\ Reopens(t, t \in warm)
                                        THEN ToWork ELSE row[t]]
             /\ Saved([t \in Tasks |-> Reopened(t, t \in warm)])
        /\ Goto("select")
  /\ UNCHANGED <<job, late, dying, opts, workRuns, overwritten, budget>>

DependenciesReady(t) == \A d \in Tasks : <<t, d>> \in Deps => row[d].status \in ReadyDependency
Listed(t)    == opts.list = {} \/ t \in opts.list
Selected     == {t \in Tasks : Listed(t) /\ row[t].status \in Open /\ DependenciesReady(t)}

(* Select: the active task is put in front whatever its status, unless its *)
(* dependencies hold it back; completed ones are dropped.  A terminal      *)
(* entry is only ever the active one, and the loop passes over it.         *)
Select ==
  /\ At("select")
  /\ LET a    == run.active
         kept == a # None /\ (a \in Selected \/ DependenciesReady(a))
         gone == a # None /\ (progress[a].status = "completed" \/ row[a].status = "cancelled")
         todo == {t \in Selected : progress[t].status # "completed"}
     IN /\ run' = [run EXCEPT !.pc = "next", !.todo = todo, !.any = FALSE,
                              !.active = IF kept /\ ~gone THEN a ELSE None]
        /\ Saved(IF kept /\ row[a].status = "cancelled"
                 THEN [progress EXCEPT ![a].status = "skipped", ![a].error = "soft"] ELSE progress)
  /\ job' = "running"
  /\ UNCHANGED <<row, late, dying, opts, workRuns, overwritten, budget>>

----------------------------------------------------------------------------
(* The task loop. *)

(* The next entry, the active task first.  An active task that is not      *)
(* completed ends the cycle for the others.                                *)
NextEntry ==
  IF run.active \in run.todo THEN {run.active} ELSE run.todo

Blocked == run.active # None /\ progress[run.active].status \notin {"absent", "completed"}

EntryProgress(p) ==
  IF p.status = "absent" THEN Pending
  ELSE IF p.status = "skipped" THEN [p EXCEPT !.status = "pending", !.error = None]
  ELSE p

Enter(t) ==
  /\ At("next") /\ job # "cancelled" /\ t \in NextEntry
  /\ t = run.active \/ ~Blocked
  /\ LET p == EntryProgress(progress[t])
         a == IF t = run.active THEN t ELSE None
         go(q) == /\ progress' = [progress EXCEPT ![t] = q]
                  /\ run' = [run EXCEPT !.pc = "inner", !.task = t, !.todo = @ \ {t},
                                        !.active = a, !.tried = FALSE]
         pass  == /\ progress' = [progress EXCEPT ![t] = p]
                  /\ run' = [run EXCEPT !.todo = @ \ {t}, !.active = a]
     IN \/ p.status = "pending" /\ go(p)
        \/ p.status = "completed" /\ pass
        \/ p.status = "failed" /\ (~Continuous \/ Exhausted(p)) /\ pass
        \/ /\ p.status = "failed" /\ ShouldReopen(p, TRUE) /\ ~Exhausted(p)
           /\ go([p EXCEPT !.status = "pending", !.error = None, !.guard = "unset"])
  /\ UNCHANGED <<row, job, disk, late, dying, opts, workRuns, overwritten, budget>>

(* No entry left, or only entries that the active task holds back. *)
LeaveEntries ==
  /\ At("next")
  /\ \/ run.todo # {} /\ job = "cancelled" /\ Stop(TRUE)
     \/ run.todo = {} /\ Goto("cycle_end")
     \/ /\ run.todo # {} /\ job # "cancelled"
        /\ run.active \notin run.todo /\ Blocked /\ Goto("cycle_end")
  /\ UNCHANGED <<row, job, progress, disk, late, dying, opts, workRuns, overwritten, budget>>

(* The end of a step or of an entry as the loop decides it: what becomes of *)
(* the task's progress, written to disk before anything else follows.  The  *)
(* result is a local of the iteration that ends.                            *)
Leaves(l) == run' = [run EXCEPT !.pc = l, !.outcome = NoOutcome]
Settle(t, p, l) ==
  /\ Saved([progress EXCEPT ![t] = p])
  /\ Leaves(l)

(* Mutant: the step starts before state.json is written. *)
StartStepUnsaved(s, p) ==
  /\ progress' = [progress EXCEPT ![T] = p] /\ UNCHANGED disk
  /\ run' = [run EXCEPT !.pc = s, !.tried = TRUE, !.any = TRUE]
  /\ job' = "running"

(* The top of the inner loop: the status is read again.  The start of a    *)
(* step is itself a heartbeat, which sets the job to running.              *)
InnerTerminal ==
  /\ At("inner") /\ row[T].status \in Terminal
  /\ Settle(T, [progress[T] EXCEPT
                  !.status = IF row[T].status = "completed" THEN "completed" ELSE "skipped",
                  !.error = "soft"], "leave")
  /\ UNCHANGED <<row, job, late, dying, opts, workRuns, overwritten, budget>>

StartStep(s, p) ==
  /\ Saved([progress EXCEPT ![T] = p])
  /\ run' = [run EXCEPT !.pc = s, !.tried = TRUE, !.any = TRUE]
  /\ job' = "running"

StartReview ==
  /\ At("inner") /\ row[T].status = "ready_to_code_review"
  /\ StartStep("review", progress[T])
  /\ UNCHANGED <<row, late, dying, opts, workRuns, overwritten, budget>>

StartQa ==
  /\ At("inner") /\ row[T].status = "ready_to_qa"
  /\ StartStep("qa", progress[T])
  /\ UNCHANGED <<row, late, dying, opts, workRuns, overwritten, budget>>

IterationsSpent ==
  /\ At("inner") /\ row[T].status = "to_work" /\ Exhausted(progress[T])
  /\ Saved([progress EXCEPT ![T].status = "failed", ![T].error = "soft"])
  /\ run' = [run EXCEPT !.pc = "leave", !.tried = TRUE, !.any = TRUE]
  /\ UNCHANGED <<row, job, late, dying, opts, workRuns, overwritten, budget>>

(* The attempt is counted on disk before the step begins. *)
StartWork ==
  /\ At("inner") /\ row[T].status = "to_work" /\ ~Exhausted(progress[T])
  /\ StartStep("work", [progress[T] EXCEPT !.attempts = @ + 1, !.error = None, !.guard = "unset"])
  /\ workRuns' = [workRuns EXCEPT ![T] = @ + 1]
  /\ UNCHANGED <<row, late, dying, opts, overwritten, budget>>

----------------------------------------------------------------------------
(* What a step can come back with: a result the loop tells apart, the      *)
(* failure class it records, the guardrail verdict if any, and the task    *)
(* row the step left behind.                                               *)

As(st)      == [status |-> st, reason |-> None]
FailedAs(r) == [status |-> "failed", reason |-> r]

Result(k, e, g, rows) ==
  {[kind |-> k, error |-> e, guard |-> g, row |-> r] : r \in rows}

Here(t) == {row[t]}

(* Results of every step: an agent refused by its provider, a thrown error, *)
(* a run of no tokens, a gateway that failed, a guardrail verdict, which    *)
(* decides over the retry whatever reason it comes with.                    *)
CommonResults(t, ahead) ==
  Result("auth", "fatal", "unset", Here(t))
    \cup Result("retry", "soft", "unset", Here(t))
    \cup Result("retry", "soft", "yes", Here(t))
    \cup Result("retry", "fatal", "yes", Here(t))
    \cup Result("zero", "zero", "unset", Here(t) \cup ahead)
    \cup Result("fatal", "fatal", "unset", Here(t))
    \cup Result("fatal", "fatal", "no", Here(t) \cup {FailedAs("fatal")})
    \cup Result("fatal", "soft", "no", Here(t) \cup {FailedAs("soft")})

WorkSuccess   == {As("ready_to_code_review")}
ReviewSuccess == {As("ready_to_qa"), As("completed")}
QaSuccess     == {As("completed")}

Advances(s) == CASE s = "work" -> WorkSuccess [] s = "review" -> ReviewSuccess [] s = "qa" -> QaSuccess

(* Work may also fail its tests, bounce, be skipped for a lock, or fail the *)
(* task; review may send the task back, block it or give no usable answer;  *)
(* QA may ask for a fix or report its own infrastructure.                   *)
Skipped(t) == Result("skipped", "soft", "unset", Here(t))
OwnResults(t, s) ==
  CASE s = "work" ->
         Skipped(t)
           \cup Result("tests", "soft", "unset", {FailedAs("soft")})
           \cup Result("retry", "soft", "unset", {ToWork, FailedAs("soft")})
           \cup Result("read", "fatal", "unset", {FailedAs("fatal")})
    [] s = "review" ->
         Result("read", None, "unset", {ToWork})
           \cup Result("read", "soft", "unset", {FailedAs("soft")})
           \cup Result("read", "fatal", "unset", Here(t))
    [] s = "qa" ->
         Result("retry", "soft", "unset", {ToWork})
           \cup Result("read", "soft", "unset", {ToWork})

(* While an abandoned run still holds the task's lock, work is skipped. *)
LockedOut(t, s)   == s = "work" /\ <<t, s>> \in late
BadResults(t, s)  == IF LockedOut(t, s) THEN {}
                     ELSE CommonResults(t, Advances(s)) \cup OwnResults(t, s)
GoodResults(t, s) == IF LockedOut(t, s) THEN Skipped(t)
                     ELSE Result("read", None, "unset", Advances(s))

(* recordFailure: the verdict and the counts the retry rules look at. *)
UpTo2(n) == IF n < 2 THEN n + 1 ELSE n
Recorded(p, s, r) ==
  [p EXCEPT !.error = r.error,
            !.guard = IF r.guard = "unset" THEN @ ELSE r.guard,
            !.zero[s] = IF r.kind = "zero" THEN UpTo2(@) ELSE @,
            !.tests = IF r.kind = "tests" THEN UpTo2(@) ELSE @]

(* A step comes back; its own services have written the task row. *)
Return(s, r) ==
  /\ row' = [row EXCEPT ![T] = r.row]
  /\ run' = [run EXCEPT !.pc = "record",
       !.outcome = [kind |-> r.kind, step |-> s, error |-> r.error, guard |-> r.guard]]

StepAdvances(s) ==
  /\ At(s) /\ \E r \in GoodResults(T, s) : Return(s, r)
  /\ UNCHANGED <<job, progress, disk, late, dying, opts, workRuns, overwritten, budget>>

StepFails(s) ==
  /\ At(s) /\ Setback /\ \E r \in BadResults(T, s) : Return(s, r)
  /\ UNCHANGED <<job, progress, disk, late, dying, opts, workRuns, overwritten>>

(* Nothing in the loop bounds how often review or QA comes back with its   *)
(* task unchanged.  Work counts attempts, which a limit bounds and which    *)
(* without one would grow for ever: there Setbacks stays the bound.         *)
StepRetries(s) ==
  /\ At(s) /\ s # "work" /\ EndlessRetries
  /\ \E r \in Result("retry", "soft", "unset", Here(T)) : Return(s, r)
  /\ UNCHANGED <<job, progress, disk, late, dying, opts, workRuns, overwritten, budget>>

(* runStepWithTimeout gives up; the step itself goes on until it notices. *)
StepTimesOut(s) ==
  /\ At(s) /\ Fault
  /\ \E r \in Result("retry", "soft", "unset", Here(T)) : Return(s, r)
  /\ late' = late \cup {<<T, s>>}
  /\ UNCHANGED <<job, progress, disk, dying, opts, workRuns, overwritten>>

(* The abandoned step's own last write, if it makes one: it looks at       *)
(* nothing that happened since.                                            *)
LateWrite(t, s) ==
  /\ <<t, s>> \in late
  /\ late' = late \ {<<t, s>>}
  /\ \E r \in Here(t) \cup Advances(s) \cup {FailedAs("soft")}
             \cup (IF s = "work" THEN {} ELSE {ToWork}) :
       /\ row' = [row EXCEPT ![t] = r]
       /\ overwritten' = IF r = row[t] THEN overwritten ELSE overwritten \cup {t}
  /\ UNCHANGED <<job, progress, disk, run, dying, opts, workRuns, budget>>

(* The interval timer of a running step. *)
Heartbeat ==
  /\ run.pc \in Steps /\ job' = "running"
  /\ UNCHANGED <<row, progress, disk, run, late, dying, opts, workRuns, overwritten, budget>>

----------------------------------------------------------------------------
(* What the loop makes of a result. *)

Outcome(k) == At("decide") /\ run.outcome.kind = k
P          == progress[T]
Failed(e)  == [P EXCEPT !.status = "failed", !.error = e]

(* The failure is recorded and saved; that of a refused agent is final. *)
Record ==
  /\ At("record")
  /\ LET o == run.outcome
         p == Recorded(P, o.step, o)
     IN IF o.kind = "auth" THEN Settle(T, [p EXCEPT !.status = "failed"], "mark")
                           ELSE Saved([progress EXCEPT ![T] = p]) /\ Goto("decide")
  /\ UNCHANGED <<row, job, late, dying, opts, workRuns, overwritten, budget>>

(* A run of no tokens: the row goes back to where the step found it, then  *)
(* the second one in this step fails the task.                             *)
PutBack ==
  /\ Outcome("zero")
  /\ row' = [row EXCEPT ![T] = As(CASE run.outcome.step = "work" -> "to_work"
                                     [] run.outcome.step = "review" -> "ready_to_code_review"
                                     [] run.outcome.step = "qa" -> "ready_to_qa")]
  /\ Goto("zero")
  /\ UNCHANGED <<job, progress, disk, late, dying, opts, workRuns, overwritten, budget>>

ZeroTokens ==
  /\ At("zero")
  /\ IF P.zero[run.outcome.step] >= 2 THEN Settle(T, Failed("zero"), "leave")
                                      ELSE Settle(T, P, "inner")
  /\ UNCHANGED <<row, job, late, dying, opts, workRuns, overwritten, budget>>

Retry ==
  /\ Outcome("retry") \/ (Outcome("tests") /\ P.tests < 2)
  /\ Settle(T, P, "inner")
  /\ UNCHANGED <<row, job, late, dying, opts, workRuns, overwritten, budget>>

(* Failed for good: on disk first, then in the task row. *)
GiveUp ==
  /\ \/ Outcome("fatal") /\ Settle(T, Failed(P.error), "mark")
     \/ Outcome("tests") /\ P.tests >= 2 /\ Settle(T, Failed("soft"), "mark")
  /\ UNCHANGED <<row, job, late, dying, opts, workRuns, overwritten, budget>>

Mark ==
  /\ At("mark")
  /\ row' = [row EXCEPT ![T] = FailedAs(P.error)]
  /\ Goto("leave")
  /\ UNCHANGED <<job, progress, disk, late, dying, opts, workRuns, overwritten, budget>>

SkipWork ==
  /\ Outcome("skipped")
  /\ Settle(T, [P EXCEPT !.status = "skipped", !.error = "soft"], "leave")
  /\ UNCHANGED <<row, job, late, dying, opts, workRuns, overwritten, budget>>

(* Otherwise the task row decides. *)
ReadBack ==
  /\ Outcome("read")
  /\ LET st == row[T].status  s == run.outcome.step IN
       CASE st = "completed" /\ s # "work" -> Settle(T, [P EXCEPT !.status = "completed"], "leave")
         [] st = "failed" -> Settle(T, Failed(IF s # "work" /\ P.error # None THEN P.error ELSE "soft"), "leave")
         [] s = "work" /\ st \in {"to_work", "cancelled"} -> Settle(T, [P EXCEPT !.error = "soft"], "inner")
         [] OTHER -> Leaves("inner") /\ UNCHANGED <<progress, disk>>
  /\ UNCHANGED <<row, job, late, dying, opts, workRuns, overwritten, budget>>

(* Mutant: an attempted task does not stay active. *)
LeaveEntryAlways ==
  /\ At("leave") /\ Goto("next") /\ job' = IF run.tried THEN "running" ELSE job
  /\ UNCHANGED <<row, progress, disk, late, dying, opts, workRuns, overwritten, budget>>

(* After the entry: an attempted task that is not completed stays active    *)
(* and ends the cycle; the job's counters are updated, as running.          *)
LeaveEntry ==
  /\ At("leave")
  /\ IF ~run.tried THEN Goto("next") /\ UNCHANGED job
     ELSE /\ job' = "running"
          /\ run' = [run EXCEPT !.pc = IF P.status = "completed" THEN "next" ELSE "cycle_end",
                                !.active = IF P.status = "completed" THEN None ELSE T]
  /\ UNCHANGED <<row, progress, disk, late, dying, opts, workRuns, overwritten, budget>>

HasRemaining == \E t \in Tasks : /\ progress[t].status \notin {"absent", "completed", "skipped"}
                                 /\ ~Exhausted(progress[t])

(* Mutant: a cycle that attempted nothing is not counted. *)
CycleEndUncounted ==
  /\ At("cycle_end")
  /\ LET c == IF run.any THEN run.cycle + 1 ELSE run.cycle IN
     /\ run' = [run EXCEPT !.pc = IF run.any \/ HasRemaining THEN "head" ELSE "finish", !.cycle = c,
                           !.todo = {}, !.task = None, !.tried = FALSE]
     /\ Written(progress, c)
  /\ UNCHANGED <<row, job, progress, late, dying, opts, workRuns, overwritten, budget>>

(* The cycle counter is only kept where something reads it. *)
CycleEnd ==
  /\ At("cycle_end")
  /\ LET c == IF MaxCycles = 0 THEN 0 ELSE run.cycle + 1 IN
     /\ run' = [run EXCEPT !.pc = IF run.any \/ HasRemaining THEN "head" ELSE "finish", !.cycle = c,
                           !.todo = {}, !.task = None, !.tried = FALSE]
     /\ Written(progress, c)
  /\ UNCHANGED <<row, job, progress, late, dying, opts, workRuns, overwritten, budget>>

(* Mutant: skipped tasks are left out of the failure count. *)
FinishUnlessFailed ==
  /\ At("finish")
  /\ run' = [run EXCEPT !.pc = "final",
       !.end = IF job = "cancelled" \/ run.abort THEN "cancelled"
               ELSE IF \A t \in Tasks : progress[t].status \notin {"failed", "pending"}
               THEN "completed" ELSE "partial"]
  /\ UNCHANGED <<row, job, progress, disk, late, dying, opts, workRuns, overwritten, budget>>

(* The end of the run: the row is read for a cancellation, then written. *)
Finish ==
  /\ At("finish")
  /\ run' = [run EXCEPT !.pc = "final",
       !.end = IF job = "cancelled" \/ run.abort THEN "cancelled"
               ELSE IF \A t \in Tasks : progress[t].status \in {"absent", "completed"}
               THEN "completed" ELSE "partial"]
  /\ UNCHANGED <<row, job, progress, disk, late, dying, opts, workRuns, overwritten, budget>>

Finalize ==
  /\ At("final")
  /\ job' = run.end /\ Ended
  /\ UNCHANGED <<row, disk, late, dying, opts, workRuns, overwritten, budget>>

----------------------------------------------------------------------------
(* What happens to the run from outside. *)

(* An exception: caught in the loop, not caught before it.  Of a step only  *)
(* the checkpoint before it can throw, not what it runs.                    *)
Throw ==
  /\ Going /\ Fault
  /\ job' = IF At("start") THEN job ELSE "failed"
  /\ Ended
  /\ UNCHANGED <<row, disk, late, dying, opts, workRuns, overwritten>>

(* SIGINT or SIGTERM: the handler cancels the job while the loop goes on,   *)
(* and exits when it is through.                                            *)
Signal ==
  /\ Going /\ ~dying /\ Fault
  /\ job' = "cancelled" /\ dying' = TRUE
  /\ UNCHANGED <<row, progress, disk, run, late, opts, workRuns, overwritten>>

Gone == Ended /\ late' = {} /\ dying' = FALSE

Exit ==
  /\ dying /\ Gone
  /\ UNCHANGED <<row, job, disk, opts, workRuns, overwritten, budget>>

Kill ==
  /\ Going /\ Fault /\ Gone
  /\ UNCHANGED <<row, job, disk, opts, workRuns, overwritten>>

(* The operator, through the jobs API and the backlog. *)
CancelJob ==
  /\ job = "running" /\ Fault
  /\ job' = "cancelled"
  /\ UNCHANGED <<row, progress, disk, run, late, dying, opts, workRuns, overwritten>>

CancelTask(t) ==
  /\ row[t].status \in Open /\ Fault
  /\ row' = [row EXCEPT ![t] = As("cancelled")]
  /\ UNCHANGED <<job, progress, disk, run, late, dying, opts, workRuns, overwritten>>

----------------------------------------------------------------------------

Loop ==
  \/ Seed \/ Head \/ Select \/ (\E t \in Tasks : Enter(t)) \/ LeaveEntries
  \/ InnerTerminal \/ StartReview \/ StartQa \/ IterationsSpent \/ StartWork
  \/ Record \/ PutBack \/ ZeroTokens \/ Retry \/ GiveUp \/ Mark \/ SkipWork
  \/ ReadBack \/ LeaveEntry \/ CycleEnd \/ Finish \/ Finalize
Agents ==
  \E s \in Steps : StepAdvances(s) \/ StepFails(s) \/ StepRetries(s)
World ==
  \/ StartJob \/ Resume \/ Heartbeat \/ Throw \/ Signal \/ Kill \/ CancelJob
  \/ (\E t \in Tasks : CancelTask(t))
  \/ (\E s \in Steps : StepTimesOut(s))
  \/ (\E t \in Tasks, s \in Steps : LateWrite(t, s))

Next == Loop \/ Agents \/ Exit \/ World

Spec == Init /\ [][Next]_vars

(* The loop never waits for anything but a step, and a step comes back. *)
FairSpec == Spec /\ WF_vars(Loop) /\ WF_vars(Agents) /\ WF_vars(Exit)

----------------------------------------------------------------------------
(* Properties *)

Progress == [status : {"absent", "pending", "completed", "failed", "skipped"},
             attempts : Nat, error : Reasons, guard : {"unset", "yes", "no"},
             zero : [Steps -> 0 .. 2], tests : 0 .. 2]

(* Types of the rows, the copies of the progress, the locals and the bounds. *)
TypeOK ==
  /\ row \in [Tasks -> [status : Open \cup Terminal, reason : Reasons]]
  /\ job \in {None, "running", "completed", "partial", "failed", "cancelled"}
  /\ progress \in [Tasks -> Progress] /\ disk \in [tasks : [Tasks -> Progress], cycle : Nat]
  /\ run.pc \in {"idle", "start", "head", "select", "next", "inner", "record", "decide",
                "zero", "mark", "leave", "cycle_end", "finish", "final"} \cup Steps
  /\ run.task \in Tasks \cup {None} /\ run.active \in Tasks \cup {None} /\ run.todo \subseteq Tasks
  /\ late \subseteq Tasks \X Steps /\ overwritten \subseteq Tasks
  /\ workRuns \in [Tasks -> Nat]
  /\ budget \in [setbacks : 0 .. Setbacks, faults : 0 .. Faults]

(* --max-iterations bounds the work steps of a task over every process that *)
(* works for the job: an exception, a time-out or a resume after state.json *)
(* was read back never grants a task another attempt, and nothing the       *)
(* processes share leaves its range meanwhile (TypeOK).                     *)
WorkIsCounted ==
  /\ TypeOK
  /\ \A t \in Tasks : /\ workRuns[t] <= disk.tasks[t].attempts
                      /\ ~Continuous => workRuns[t] <= opts.limit

Starts(t) == run.pc = "inner" /\ run'.pc \in Steps /\ run.task = t

GivenUp(p) == ~Continuous /\ p.status = "failed" /\ (p.guard = "no" \/ p.error = "fatal")

(* A task whose non-retryable failure is on disk is never run again by the  *)
(* job, in this process or after a resume, even when its row was left open, *)
(* reopened by an abandoned step or is marked late.                         *)
GivenUpForGood ==
  [][\A t \in Tasks : GivenUp(disk.tasks[t]) =>
       /\ ~Starts(t)
       /\ GivenUp(disk'.tasks[t]) \/ row[t].status \in {"completed", "cancelled"}]_vars

(* A step of a task only starts while each other task it depends on is      *)
(* ready, in spite of the selection being as old as the cycle: a dependency *)
(* that falls back to work ends the cycle for the others.  Rows changed     *)
(* behind the loop's back are excused.                                      *)
DependencyGate ==
  [][\A t \in Tasks : \A d \in Tasks \ {t} : Starts(t) /\ <<t, d>> \in Deps =>
       row[d].status \in ReadyDependency \/ d \in overwritten]_vars

(* A task the job has recorded as completed is not run again and stays so,  *)
(* whatever an abandoned step makes of its row later and over any resume;   *)
(* only when such a step has opened the row and an operator cancelled it    *)
(* then, between the two halves of a cycle's head, it is recorded skipped.  *)
DoneStaysDone ==
  [][\A t \in Tasks : disk.tasks[t].status = "completed" =>
       /\ ~Starts(t)
       /\ \/ disk'.tasks[t].status = "completed"
          \/ t \in overwritten /\ row[t].status = "cancelled"]_vars

(* A job that says completed has every task it named, or took up, completed *)
(* on disk and in its row, unless an abandoned step rewrote that row.       *)
CompletedMeansDone ==
  job = "completed" =>
    \A t \in Tasks :
      /\ t \in opts.list => disk.tasks[t].status = "completed"
      /\ disk.tasks[t].status \in {"absent", "completed"}
      /\ disk.tasks[t].status = "completed" => row[t].status = "completed" \/ t \in overwritten

(* The steps that may come back to be done again without end: with         *)
(* --max-iterations only those that count no attempt.                      *)
Again == IF Continuous THEN Steps ELSE {"review", "qa"}

(* A bound on the cycles ends a run, whichever results and faults it meets, *)
(* with one exception: inside a cycle nothing bounds how often the inner    *)
(* loop takes one task round, and while a step of it keeps asking to be     *)
(* done again the run stays with it.                                        *)
RunEnds ==
  \/ []<>At("idle")
  \/ <>[](run.pc \in {"inner", "record", "decide"} \cup Again)

(* What the loop says when a task has failed for good: "continuing run".   *)
(* A task that is named and ready is worked on before the run is over.      *)
OthersGetTheirTurn ==
  \A t \in Tasks :
    (Going /\ t \in opts.list /\ row[t] = ToWork /\ DependenciesReady(t))
      ~> (workRuns[t] > 0 \/ ~Going \/ row[t].status \in Terminal)

=============================================================================
