------------------------ MODULE GatewayStateMachine ------------------------
(***************************************************************************)
(* CodaliGatewayStateMachine.execute: one gateway run.  The planner's      *)
(* worker tasks are run in waves of at most maxParallelWorkers, under      *)
(* budgets of tool calls, model calls, evidence items and time.  A         *)
(* verifier may then pass the run or ask for follow-up tasks, which are    *)
(* run the same way.                                                       *)
(*                                                                         *)
(* The program is one JavaScript thread; what interleaves is the members   *)
(* of a wave, each a chain of awaits (worker, read of the trace, append to *)
(* the trace), and the passing of time.                                    *)
(*                                                                         *)
(* A task is known by its place in the list of prepared tasks.  Of a       *)
(* worker's answer the model keeps how many tool calls and model calls it  *)
(* reports; how many evidence items it holds and whether the worker's own  *)
(* status, the approved-tools check, the required calls and the image      *)
(* budget let it succeed is chosen where the code first looks at it.       *)
(***************************************************************************)
EXTENDS Naturals, Sequences, FiniteSets, FiniteSetsExt

CONSTANTS
    MaxParallelWorkers, \* size of a wave
    MaxToolCalls,       \* budget of tool calls of the run
    MaxModelCalls,      \* budget of model calls of the run
    MaxEvidenceItems,   \* budget of evidence items of the run
    MaxIterations,      \* verifier rounds
    HasVerifier,        \* is a verifierRunner configured
    ExtraCalls,         \* calls a runner may report above what it was given
    MinPlanned,         \* bound: fewest tasks of a plan
    MaxPlanned,         \* bound: most tasks of a plan
    MaxFollowUps,       \* bound: tasks a verifier asks for at once
    MaxEvidence         \* bound: evidence items of a worker's answer

ASSUME BudgetAssumption ==
    /\ MaxParallelWorkers \in Nat \ {0}
    /\ {MaxToolCalls, MaxModelCalls, MaxEvidenceItems, MaxIterations} \subseteq Nat
    /\ {ExtraCalls, MinPlanned, MaxPlanned, MaxFollowUps, MaxEvidence} \subseteq Nat
    /\ HasVerifier \in BOOLEAN

VARIABLES
    tasks,          \* preparedTasks
    cursor,         \* tasks taken from the list so far
    stage,          \* where execute() stands
    wave,           \* the tasks of the current wave
    status,         \* of each task, in the store
    report,         \* the calls each task of the wave reported
    room,           \* remainingEvidenceItems, as each task read it
    evidence,       \* evidence items in the run's trace
    toolCallCount,
    modelCallCount,
    requiredFailure,
    errors,         \* the tasks named in errors; 0 names the verifier
    iterations,     \* verificationIterations.length
    stopReason,     \* verificationStopReason
    timeIsUp,       \* maxRuntimeMs has passed
    finalStatus

loopVars == <<tasks, cursor, stage, wave>>
workVars == <<status, report, room, evidence>>
countVars == <<toolCallCount, modelCallCount, requiredFailure, errors>>
verifyVars == <<iterations, stopReason>>
vars == <<loopVars, workVars, countVars, verifyVars, timeIsUp, finalStatus>>

Task == [tools : BOOLEAN, required : BOOLEAN]
Nothing == [tools |-> 0, models |-> 0]
Settled == {"succeeded", "failed", "skipped"}
Indices == 1..Len(tasks)

(***************************************************************************)
(* What is left for a worker.  toolCallCount and modelCallCount change     *)
(* only between waves, so every member of a wave is given the same.        *)
(***************************************************************************)
Left(max, count) == IF count < max THEN max - count ELSE 0

RemainingToolCalls == IF stage = "toolDrain" THEN 0 ELSE Left(MaxToolCalls, toolCallCount)
RemainingModelCalls == Left(MaxModelCalls, modelCallCount)

\* A worker that reports no model call is counted as one.
Reports ==
    [tools : 0..(RemainingToolCalls + ExtraCalls),
     models : 1..(Max({1, RemainingModelCalls}) + ExtraCalls)]

Init ==
    /\ tasks \in UNION {[1..n -> Task] : n \in MinPlanned..MaxPlanned}
    /\ cursor = 0
    /\ stage = "fill"
    /\ wave = {}
    /\ status = [i \in Indices |-> "pending"]
    /\ report = [i \in Indices |-> Nothing]
    /\ room = [i \in Indices |-> 0]
    /\ evidence = 0
    /\ toolCallCount = 0
    /\ modelCallCount \in {0, 1}    \* 1: the planner's call is in the trace
    /\ requiredFailure = FALSE
    /\ errors = {}
    /\ iterations = 0
    /\ stopReason = IF HasVerifier THEN "not_started" ELSE "not_configured"
    /\ timeIsUp = FALSE
    /\ finalStatus = "running"

----------------------------------------------------------------------------
(* Taking the tasks *)

ToolTasks(set) == {i \in set : tasks[i].tools}

(* Mutant: the reservations are never reset, every task taken so far counts. *)
ReservedForever(i) ==
    \/ timeIsUp
    \/ modelCallCount + cursor >= MaxModelCalls
    \/ tasks[i].tools /\ toolCallCount + cursor >= MaxToolCalls

\* The reservations count one call for each task already in the wave.
OverBudget(i) ==
    \/ timeIsUp
    \/ modelCallCount + Cardinality(wave) >= MaxModelCalls
    \/ tasks[i].tools /\ toolCallCount + Cardinality(ToolTasks(wave)) >= MaxToolCalls

WaveHasPlace == Cardinality(wave) < MaxParallelWorkers

\* The loops that skip: filling a wave, the two drains, a failed run's rest.
SkipsNow(i) ==
    \/ stage = "fill" /\ WaveHasPlace /\ ~requiredFailure /\ OverBudget(i)
    \/ stage = "toolDrain" /\ wave = {} /\ tasks[i].tools
    \/ stage = "modelDrain"
    \/ stage = "ending" /\ requiredFailure

SkipTask ==
    /\ cursor < Len(tasks)
    /\ SkipsNow(cursor + 1)
    /\ status' = [status EXCEPT ![cursor + 1] = "skipped"]
    /\ cursor' = cursor + 1
    /\ UNCHANGED <<tasks, stage, wave, report, room, evidence, countVars, verifyVars,
                   timeIsUp, finalStatus>>

JoinWave ==
    /\ stage = "fill" /\ WaveHasPlace /\ ~requiredFailure
    /\ cursor < Len(tasks)
    /\ ~OverBudget(cursor + 1)
    /\ wave' = wave \union {cursor + 1}
    /\ cursor' = cursor + 1
    /\ UNCHANGED <<tasks, stage, workVars, countVars, verifyVars, timeIsUp, finalStatus>>

StartWave ==
    /\ stage = "fill" /\ wave # {}
    /\ cursor = Len(tasks) \/ ~WaveHasPlace
    /\ stage' = "run"
    /\ status' = [i \in Indices |-> IF i \in wave THEN "running" ELSE status[i]]
    /\ UNCHANGED <<tasks, cursor, wave, report, room, evidence, countVars, verifyVars,
                   timeIsUp, finalStatus>>

----------------------------------------------------------------------------
(* One worker: runTask and persistWorkerResult *)

WorkerAnswers(i) ==
    /\ status[i] = "running"
    /\ report' \in {[report EXCEPT ![i] = r] : r \in Reports}
    /\ status' = [status EXCEPT ![i] = "answered"]
    /\ UNCHANGED <<loopVars, room, evidence, countVars, verifyVars, timeIsUp, finalStatus>>

(* Mutant: there is no timer, a worker that never answers is awaited for ever. *)
NeverThrows(i) == i \in {} /\ UNCHANGED vars

\* The worker throws or its timer fires.  With app-tool calls prefetched for
\* the task the run carries on with their evidence; otherwise it has failed,
\* and none of the worker's own calls is counted.
WorkerThrows(i) ==
    /\ status[i] = "running"
    /\ \E prefetched \in 0..RemainingToolCalls :
          IF prefetched > 0
          THEN /\ report' = [report EXCEPT ![i] = [tools |-> prefetched, models |-> 1]]
               /\ status' = [status EXCEPT ![i] = "answered"]
          ELSE /\ status' = [status EXCEPT ![i] = "failed"]
               /\ UNCHANGED report
    /\ UNCHANGED <<loopVars, room, evidence, countVars, verifyVars, timeIsUp, finalStatus>>

(* Mutant: what is stored already is not deducted. *)
WholeEvidenceBudget == MaxEvidenceItems

EvidenceLeft == Left(MaxEvidenceItems, evidence)

ReadTrace(i) ==
    /\ status[i] = "answered"
    /\ room' = [room EXCEPT ![i] = EvidenceLeft]
    /\ status' = [status EXCEPT ![i] = "persisting"]
    /\ UNCHANGED <<loopVars, report, evidence, countVars, verifyVars, timeIsUp, finalStatus>>

WithinBudget(i) ==
    /\ report[i].tools <= RemainingToolCalls
    /\ report[i].models <= RemainingModelCalls

PersistResult(i) ==
    /\ status[i] = "persisting"
    /\ \E items \in 0..MaxEvidence : evidence' = evidence + Min({items, room[i]})
    /\ room' = [room EXCEPT ![i] = 0]
    /\ \E verdict \in {"succeeded", "failed"} :
          /\ verdict = "succeeded" => WithinBudget(i)
          /\ status' = [status EXCEPT ![i] = verdict]
    /\ UNCHANGED <<loopVars, report, countVars, verifyVars, timeIsUp, finalStatus>>

----------------------------------------------------------------------------
(* After a wave *)

\* The results of a wave are read once, then forgotten.
ForgetReports == report' = [i \in Indices |-> IF i \in wave THEN Nothing ELSE report[i]]

\* A sum, as the number of the calls it counts: a call is a task and a number.
Total(counts, set) == Cardinality(UNION {{i} \X (1..counts[i]) : i \in set})

ToolsSpent == Total([i \in wave |-> report[i].tools], wave)
ModelsSpent == Total([i \in wave |-> report[i].models], wave)
Failures == {i \in wave : status[i] = "failed"}

WaveIsOver == \A i \in wave : status[i] \in Settled

AccountWave ==
    /\ stage = "run" /\ WaveIsOver
    /\ toolCallCount' = toolCallCount + ToolsSpent
    /\ modelCallCount' = modelCallCount + ModelsSpent
    /\ errors' = errors \union Failures
    /\ requiredFailure' = (requiredFailure \/ \E i \in Failures : tasks[i].required)
    /\ wave' = {}
    /\ stage' = CASE toolCallCount' >= MaxToolCalls -> "toolDrain"
                  [] toolCallCount' < MaxToolCalls /\ modelCallCount' >= MaxModelCalls
                       -> "modelDrain"
                  [] OTHER -> "fill"
    /\ ForgetReports
    /\ UNCHANGED <<tasks, cursor, status, room, evidence, verifyVars, timeIsUp, finalStatus>>

\* With the tool budget used up, the remaining tasks without tools run one by one.
DrainTask ==
    /\ stage = "toolDrain" /\ wave = {}
    /\ cursor < Len(tasks)
    /\ ~tasks[cursor + 1].tools
    /\ wave' = {cursor + 1}
    /\ cursor' = cursor + 1
    /\ status' = [status EXCEPT ![cursor + 1] = "running"]
    /\ UNCHANGED <<tasks, stage, report, room, evidence, countVars, verifyVars, timeIsUp,
                   finalStatus>>

\* Its result is pushed to taskResults; no count, error or flag is updated.
DrainedTaskEnds ==
    /\ stage = "toolDrain" /\ wave # {} /\ WaveIsOver
    /\ wave' = {}
    /\ ForgetReports
    /\ UNCHANGED <<tasks, cursor, stage, status, room, evidence, countVars, verifyVars,
                   timeIsUp, finalStatus>>

DrainEnds ==
    /\ stage \in {"toolDrain", "modelDrain"}
    /\ wave = {} /\ cursor = Len(tasks)
    /\ stage' = "fill"
    /\ UNCHANGED <<tasks, cursor, wave, workVars, countVars, verifyVars, timeIsUp, finalStatus>>

----------------------------------------------------------------------------
(* The verifier *)

TasksAreOver == stage = "fill" /\ wave = {} /\ (requiredFailure \/ cursor = Len(tasks))

EndsUnverified ==
    \/ requiredFailure
    \/ ~HasVerifier
    \/ iterations >= MaxIterations
    \/ modelCallCount >= MaxModelCalls

StopVerifying ==
    /\ TasksAreOver /\ EndsUnverified
    /\ stage' = "ending"
    /\ stopReason' = CASE ~HasVerifier -> stopReason
                       [] HasVerifier /\ requiredFailure
                            -> IF stopReason = "not_started" THEN "required_worker_failed"
                                                             ELSE stopReason
                       [] HasVerifier /\ ~requiredFailure
                            -> IF iterations >= MaxIterations THEN "max_iterations_reached"
                                                              ELSE "model_budget_exhausted"
    /\ UNCHANGED <<tasks, cursor, wave, workVars, countVars, iterations, timeIsUp, finalStatus>>

CallVerifier ==
    /\ TasksAreOver /\ ~EndsUnverified
    /\ stage' = "verifying"
    /\ UNCHANGED <<tasks, cursor, wave, workVars, countVars, verifyVars, timeIsUp, finalStatus>>

VerifierFails ==
    /\ stage = "verifying"
    /\ stage' = "ending"
    /\ modelCallCount' = modelCallCount + 1
    /\ errors' = errors \union {0}
    /\ stopReason' = "verifier_failed"
    /\ UNCHANGED <<tasks, cursor, wave, workVars, toolCallCount, requiredFailure, iterations,
                   timeIsUp, finalStatus>>

VerifierPasses ==
    /\ stage = "verifying"
    /\ stage' = "ending"
    /\ modelCallCount' = modelCallCount + 1
    /\ iterations' = iterations + 1
    /\ stopReason' = "verifier_passed"
    /\ UNCHANGED <<tasks, cursor, wave, workVars, toolCallCount, requiredFailure, errors,
                   timeIsUp, finalStatus>>

\* filterVerifierFollowUpTasks: no task with tools once the tool budget is used.
\* Of the verifier's request the model keeps the tasks that are accepted, in
\* order, and why the others are refused (a tool the policy withholds; a repeated
\* id or an image task leave no reason to stop).
Acceptable(t) == t.tools => toolCallCount < MaxToolCalls
Accepted ==
    {request \in UNION {[1..n -> Task] : n \in 0..MaxFollowUps} :
        \A i \in DOMAIN request : Acceptable(request[i])}
Refusals ==
    SUBSET (IF toolCallCount < MaxToolCalls
            THEN {"required_tool_unavailable"}
            ELSE {"required_tool_unavailable", "tool_budget_exhausted"})

\* resolveVerificationStopReason
StopReasonOf(refused) ==
    IF "tool_budget_exhausted" \in refused THEN "tool_budget_exhausted"
    ELSE IF "required_tool_unavailable" \in refused THEN "required_tool_unavailable"
    ELSE "no_useful_followups"

VerifierAsksForMore ==
    /\ stage = "verifying"
    /\ modelCallCount' = modelCallCount + 1
    /\ iterations' = iterations + 1
    /\ \E accepted \in Accepted, refused \in Refusals :
          /\ tasks' = tasks \o accepted
          /\ status' = status \o [i \in DOMAIN accepted |-> "pending"]
          /\ report' = report \o [i \in DOMAIN accepted |-> Nothing]
          /\ room' = room \o [i \in DOMAIN accepted |-> 0]
          /\ IF accepted # <<>>
             THEN stage' = "fill" /\ UNCHANGED stopReason
             ELSE stage' = "ending" /\ stopReason' = StopReasonOf(refused)
    /\ UNCHANGED <<cursor, wave, evidence, toolCallCount, requiredFailure, errors, timeIsUp,
                   finalStatus>>

----------------------------------------------------------------------------
(* The end *)

(* Mutant: the status comes from the loop's flag, which the drain does not set. *)
StatusFromFlag ==
    IF requiredFailure
    THEN "failed"
    ELSE IF \/ HasVerifier /\ stopReason # "verifier_passed"
            \/ \E i \in Indices : status[i] \in {"failed", "skipped"}
         THEN "partial" ELSE "succeeded"

ResolveStatus ==
    IF \E i \in Indices : status[i] = "failed" /\ tasks[i].required
    THEN "failed"
    ELSE IF \/ HasVerifier /\ stopReason # "verifier_passed"
            \/ \E i \in Indices : status[i] \in {"failed", "skipped"}
         THEN "partial" ELSE "succeeded"

(* Mutant: a failed run ends at once and leaves its last tasks pending. *)
RestIsDropped == TRUE

\* A failed run skips what is left before it ends.
RestIsSkipped == requiredFailure => cursor = Len(tasks)

Finish ==
    /\ stage = "ending" /\ RestIsSkipped
    /\ stage' = "done"
    /\ finalStatus' = ResolveStatus
    /\ UNCHANGED <<tasks, cursor, wave, workVars, countVars, verifyVars, timeIsUp>>

TimePasses ==
    /\ ~timeIsUp /\ stage # "done"
    /\ timeIsUp' = TRUE
    /\ UNCHANGED <<loopVars, workVars, countVars, verifyVars, finalStatus>>

Worker(i) == WorkerAnswers(i) \/ WorkerThrows(i) \/ ReadTrace(i) \/ PersistResult(i)

Verifier == VerifierFails \/ VerifierPasses \/ VerifierAsksForMore

Executor ==
    \/ SkipTask \/ JoinWave \/ StartWave \/ AccountWave
    \/ DrainTask \/ DrainedTaskEnds \/ DrainEnds
    \/ StopVerifying \/ CallVerifier \/ Finish

Next ==
    \/ Executor
    \/ \E i \in Indices : Worker(i)
    \/ Verifier
    \/ TimePasses

Spec == Init /\ [][Next]_vars

\* Awaited store calls return, a worker's timer fires, and the verifier (which
\* has no time limit in the code) answers.  A worker need not answer.
Fairness ==
    /\ WF_vars(Executor)
    /\ WF_vars(Verifier)
    /\ WF_vars(\E i \in Indices : WorkerThrows(i) \/ ReadTrace(i) \/ PersistResult(i))

FairSpec == Spec /\ Fairness

----------------------------------------------------------------------------
(* Properties *)

\* Types, and rooms and counts that are never negative.
TypeOK ==
    /\ tasks \in Seq(Task)
    /\ cursor \in 0..Len(tasks)
    /\ stage \in {"fill", "run", "toolDrain", "modelDrain", "verifying", "ending", "done"}
    /\ wave \subseteq Indices
    /\ status \in [Indices -> {"pending", "running", "answered", "persisting"} \union Settled]
    /\ report \in [Indices -> [tools : Nat, models : Nat]]
    /\ room \in [Indices -> Nat]
    /\ {evidence, toolCallCount, modelCallCount, iterations} \subseteq Nat
    /\ {requiredFailure, timeIsUp} \subseteq BOOLEAN
    /\ errors \subseteq 0..Len(tasks)
    /\ finalStatus \in {"running", "succeeded", "partial", "failed"}

\* No task is lost, and the verifier judges a finished picture: when the run has
\* ended, and while the verifier is asked, each task of the plan and each accepted
\* follow-up has succeeded, failed or been skipped, whatever mixture of budgets,
\* deadline and failures stopped the loops early; none is still between its
\* answer and its persisted result.
EveryTaskSettled == stage \in {"verifying", "done"} => \A i \in Indices : status[i] \in Settled

\* The members of a wave are each given the whole remainder of the tool budget, and
\* may each read the trace before another appends to it: both budgets can be
\* overrun, but by no more than one wave's worth (and what runners report above
\* what they were given, for each task taken); and no remainder or count that is
\* worked out from them is ever negative (TypeOK).
BudgetOverrunBounded ==
    /\ TypeOK
    /\ toolCallCount <= MaxParallelWorkers * MaxToolCalls + ExtraCalls * cursor
    /\ evidence <= MaxParallelWorkers * MaxEvidenceItems

\* A required task that failed fails the run, in whichever loop it was run.
RequiredFailureFailsRun ==
    stage = "done" =>
        (finalStatus = "failed" <=> \E i \in Indices : status[i] = "failed" /\ tasks[i].required)

\* A task is skipped only for cause: the run's time is up, a required task
\* failed, or a budget is within the reservations of one wave of being used up.
SkipsAreExplained ==
    (\E i \in Indices : status[i] = "skipped") =>
        \/ timeIsUp \/ requiredFailure
        \/ toolCallCount + MaxParallelWorkers > MaxToolCalls
        \/ modelCallCount + MaxParallelWorkers > MaxModelCalls

\* A run ends: a worker that never answers is ended by its timer, the budgets
\* and rounds are finite, and no loop waits for another.
RunEnds == <>(stage = "done")

=============================================================================
