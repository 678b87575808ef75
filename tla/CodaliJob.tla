----------------------------- MODULE CodaliJob -----------------------------
(***************************************************************************)
(* runCodaliJob: one multi-stage job.  The stages of a request form a      *)
(* graph; waves of stages whose dependencies have results run in parallel  *)
(* under one budget of tool calls and one deadline, a verifier's verdict   *)
(* may be followed by one repair, and the results decide the status.       *)
(*                                                                         *)
(* A stage is known by its place in the request, so the check for repeated *)
(* ids is left out.  A run of a stage is runCodaliTask with a Runner: it   *)
(* answers within the calls it was given, or it throws and reports none of *)
(* the calls it made.  A stage's calls to subagents are not modelled.  Of  *)
(* an answer the model keeps what parseJsonLikeObject finds in it; a reply *)
(* that both asks for clarification and judges counts as the former, which *)
(* stops the job before a verdict is read.  allocatedToolCalls is never    *)
(* negative, so the early return for that case is left out as well.        *)
(***************************************************************************)
EXTENDS Integers, Sequences, FiniteSets, SequencesExt

CONSTANTS
    StageCount,        \* stages of the request
    MaxParallelStages, \* budgets.maxParallelStages
    PolicyToolCalls,   \* runtime.policy.maxToolCalls
    Budgets,           \* values of budgets.maxToolCalls
    Asks,              \* values of a stage's maxToolCalls, Unset among them
    Followups          \* values of budgets.maxFollowups

Unset == -1
Repair == 0            \* the stage "repair-1"
Stages == 1..StageCount
Runs == Stages \union {Repair}

ASSUME JobAssumption ==
    /\ StageCount \in Nat \ {0} /\ MaxParallelStages \in Nat \ {0}
    /\ PolicyToolCalls \in Nat /\ Budgets \subseteq Nat
    /\ Asks \subseteq Nat \union {Unset} /\ Followups \subseteq Nat

VARIABLES
    request,           \* dependsOn, optional, maxToolCalls, budget, followups
    phase,             \* where runCodaliJob stands
    pending,           \* stages without a result
    active,            \* the stages of the current wave, in order
    lane,              \* what each of them is doing
    allocations,
    found,             \* the result of a run that has ended
    results,           \* the results merged so far, in order
    remainingToolCalls,
    status,
    stopped,
    expired,           \* the deadline has passed
    spent              \* calls really made (no variable of the code)

vars == <<request, phase, pending, active, lane, allocations, found, results,
          remainingToolCalls, status, stopped, expired, spent>>
waveVars == <<pending, active, allocations, results, remainingToolCalls, status, stopped>>

Answers == {"plain", "clarify", "passed", "doubted"}
Statuses == {"succeeded", "partial", "failed", "needs_clarification"}
Completed(answer, calls) == [ok |-> TRUE, answer |-> answer, calls |-> calls]
Failed == [ok |-> FALSE, answer |-> "plain", calls |-> 0]

\* The sum of the counts of a set: as many pairs <<i, n>> as there are.
Total(counts, set) == Cardinality(UNION {{i} \X (1..counts[i]) : i \in set})

----------------------------------------------------------------------------
(* The request *)

(* Mutant: a cycle is only seen when it is of two stages. *)
CyclicPair(dependsOn) ==
    \E s \in Stages : \E t \in dependsOn[s] \intersect Stages : s \in dependsOn[t]

\* A set of stages that each depend on another of the set holds a cycle, and the
\* descent of visit() meets a stage it is visiting in just that case.
Cyclic(dependsOn) ==
    \E cycle \in (SUBSET Stages) \ {{}} : \A s \in cycle : dependsOn[s] \intersect cycle # {}

validateStageDag(dependsOn) ==
    /\ \A s \in Stages : dependsOn[s] \subseteq Stages \ {s}
    /\ ~ Cyclic(dependsOn)

\* The dependencies of a stage may name any stage, itself, or an unknown one (0).
Requests ==
    [dependsOn : [Stages -> SUBSET (0..StageCount)], optional : SUBSET Stages,
     maxToolCalls : [Stages -> Asks], budget : Budgets, followups : Followups]

TypeOK ==
    /\ request \in Requests
    /\ phase \in {"validate", "refused", "schedule", "wave", "stalled", "repair", "close", "done"}
    /\ pending \subseteq Stages /\ active \in Seq(Stages)
    /\ lane \in [Runs -> {"idle", "starting", "running", "unbounded", "ended"}]
    /\ allocations \in [Runs -> Nat]
    /\ found \in [Runs -> [ok : BOOLEAN, answer : Answers, calls : Nat]]
    /\ results \in Seq([stage : Runs, ok : BOOLEAN, answer : Answers])
    /\ remainingToolCalls \in 0..request.budget /\ spent \in Nat
    /\ status \in Statuses /\ {stopped, expired} \subseteq BOOLEAN

\* Of the requests that are refused for their graph, the plainest stands for all.
Bare(r) ==
    /\ r.optional = {} /\ \A s \in Stages : r.maxToolCalls[s] = Unset

Init ==
    /\ request \in Requests
    /\ validateStageDag(request.dependsOn) \/ Bare(request)
    /\ phase = "validate" /\ pending = {} /\ active = <<>> /\ results = <<>>
    /\ lane = [r \in Runs |-> "idle"] /\ found = [r \in Runs |-> Failed]
    /\ allocations = [r \in Runs |-> 0]
    /\ remainingToolCalls = request.budget /\ spent = 0
    /\ status = "succeeded" /\ stopped = FALSE /\ expired = FALSE

Validate ==
    /\ phase = "validate"
    /\ IF validateStageDag(request.dependsOn)
       THEN phase' = "schedule" /\ pending' = Stages
       ELSE phase' = "refused" /\ UNCHANGED pending
    /\ UNCHANGED <<request, active, lane, allocations, found, results,
                   remainingToolCalls, status, stopped, expired, spent>>

----------------------------------------------------------------------------
(* Waves *)

ResultOf(s) == \E i \in DOMAIN results : results[i].stage = s
ReadyStages == {s \in pending : \A d \in request.dependsOn[s] : ResultOf(d)}

\* ready.slice: the first of the ready stages, in their order.
Waves ==
    {wave \in UNION {[1..n -> ReadyStages] : n \in 0..MaxParallelStages} :
        /\ \A i, j \in DOMAIN wave : i < j => wave[i] < wave[j]
        /\ Len(wave) = MaxParallelStages \/ ToSet(wave) = ReadyStages
        /\ \A s \in ToSet(wave), t \in ReadyStages \ ToSet(wave) : s < t}

Requested(s) ==
    IF request.maxToolCalls[s] = Unset THEN remainingToolCalls ELSE request.maxToolCalls[s]

RequestedTotal(wave) == Total([s \in ToSet(wave) |-> Requested(s)], ToSet(wave))

\* The i-th stage's equal share of what the ones before it have left over.
FairShare(wave, to, i) ==
    (remainingToolCalls - Total(to, {wave[j] : j \in 1..(i - 1)})) \div (Len(wave) - i + 1)

(* Mutant: every stage of a wave is given what it asks for. *)
AllRequested(wave, to) ==
    \A r \in Runs : to[r] = IF r \in ToSet(wave) THEN Requested(r) ELSE 0

\* When the wave asks for more than is left, each stage gets its fair share at most.
Allocated(wave, to) ==
    /\ \A r \in Runs \ ToSet(wave) : to[r] = 0
    /\ IF RequestedTotal(wave) <= remainingToolCalls
       THEN \A s \in ToSet(wave) : to[s] = Requested(s)
       ELSE \A i \in DOMAIN wave :
               LET share == FairShare(wave, to, i)
               IN  to[wave[i]] = IF Requested(wave[i]) < share THEN Requested(wave[i]) ELSE share

\* The next wave, or the error "scheduler stalled" when no stage is ready.
StartWave ==
    /\ phase = "schedule" /\ pending # {} /\ ~ stopped
    /\ phase' = IF ReadyStages = {} THEN "stalled" ELSE "wave"
    /\ active' \in Waves
    /\ allocations' \in [Runs -> 0..remainingToolCalls] /\ Allocated(active', allocations')
    /\ lane' = [r \in Runs |-> IF r \in ToSet(active') THEN "starting" ELSE lane[r]]
    /\ UNCHANGED <<request, pending, found, results, remainingToolCalls, status, stopped,
                   expired, spent>>

\* A stage that may call tools is not started with no call left in the budget.
BudgetExhausted(r) ==
    /\ r \in Stages /\ remainingToolCalls <= 0
    /\ (IF request.maxToolCalls[r] = Unset THEN PolicyToolCalls ELSE request.maxToolCalls[r]) > 0

\* A stage that is not started has failed; its result goes with the wave's.
Refuse(r) ==
    /\ lane[r] = "starting" /\ (BudgetExhausted(r) \/ expired)
    /\ lane' = [lane EXCEPT ![r] = "ended"]
    /\ found' = [found EXCEPT ![r] = Failed]
    /\ UNCHANGED <<request, phase, waveVars, expired, spent>>

\* runStage up to runTask.  timeoutMs is 0, which Runner takes for no deadline at
\* all, when the deadline passes after it was checked or the stage's own is 0.
Start(r) ==
    /\ lane[r] = "starting" /\ ~ BudgetExhausted(r) /\ ~ expired
    /\ \E state \in {"running", "unbounded"} : lane' = [lane EXCEPT ![r] = state]
    /\ UNCHANGED <<request, phase, waveVars, found, expired, spent>>

Running(r) == lane[r] \in {"running", "unbounded"}

\* Runner refuses the call after the last one it was given, and throws.
Calls(r) == 0..allocations[r]

\* The run answers: the calls it reports are those it made.
Answer(r) ==
    /\ Running(r)
    /\ \E answer \in Answers, calls \in Calls(r) :
          /\ found' = [found EXCEPT ![r] = Completed(answer, calls)]
          /\ spent' = spent + calls
    /\ lane' = [lane EXCEPT ![r] = "ended"]
    /\ UNCHANGED <<request, phase, waveVars, expired>>

\* The run throws, of its timeout or its budget of calls or steps, or of an error
\* of the provider; errorStageResult reports no call whatever it made.
Throw(r) ==
    /\ Running(r)
    /\ \E calls \in Calls(r) : spent' = spent + calls
    /\ found' = [found EXCEPT ![r] = Failed]
    /\ lane' = [lane EXCEPT ![r] = "ended"]
    /\ UNCHANGED <<request, phase, waveVars, expired>>

----------------------------------------------------------------------------
(* Results *)

Record(r) == [stage |-> r, ok |-> found[r].ok, answer |-> found[r].answer]

(* Mutant: a failed stage is noted in the status, and the next wave runs all the same. *)
StopsToAsk(r) == found[r].answer = "clarify"

\* A failed stage stops the job when it is required, an answer when it asks.
Stops(r) == IF found[r].ok THEN found[r].answer = "clarify" ELSE r \notin request.optional

\* Results are taken in turn: the last of those that stop the job decides.
Decides(wave, i) == Stops(wave[i]) /\ \A j \in DOMAIN wave : j > i => ~ Stops(wave[j])
Decision(r) == IF found[r].ok THEN "needs_clarification" ELSE "failed"

(* Mutant: the failure of an optional stage makes any status partial. *)
JudgedByOptional(wave, verdict) ==
    IF \E r \in ToSet(wave) \intersect request.optional : ~ found[r].ok THEN verdict = "partial"
    ELSE \/ verdict = status /\ \A r \in ToSet(wave) : ~ Stops(r)
         \/ \E i \in DOMAIN wave : Decides(wave, i) /\ verdict = Decision(wave[i])

\* What a wave makes of the status: when no result stops the job, one that is a
\* failure leaves a success partial.
Judged(wave, verdict) ==
    \/ \E i \in DOMAIN wave : Decides(wave, i) /\ verdict = Decision(wave[i])
    \/ /\ \A r \in ToSet(wave) : ~ Stops(r)
       /\ verdict = IF status = "succeeded" /\ \E r \in ToSet(wave) : ~ found[r].ok
                    THEN "partial" ELSE status

\* Promise.all has all results: they are merged in the order of the wave.
MergeWave ==
    /\ phase = "wave" /\ \A r \in ToSet(active) : lane[r] = "ended"
    /\ pending' = pending \ ToSet(active)
    /\ results' = results \o [i \in DOMAIN active |-> Record(active[i])]
    /\ remainingToolCalls' =
          remainingToolCalls - Total([r \in Runs |-> found[r].calls], ToSet(active))
    /\ status' \in Statuses /\ Judged(active, status')
    /\ stopped' = (stopped \/ \E r \in ToSet(active) : Stops(r))
    /\ lane' = [r \in Runs |-> "idle"] /\ found' = [r \in Runs |-> Failed]
    /\ active' = <<>> /\ allocations' = [r \in Runs |-> 0]
    /\ phase' = "schedule"
    /\ UNCHANGED <<request, expired, spent>>

\* The first result with a verdict is the verifier's, and it is a doubt.
Doubted ==
    \E i \in DOMAIN results :
        results[i].answer = "doubted" /\ \A j \in 1..(i - 1) : results[j].answer # "passed"

\* After the last wave: a doubted success is partial, and repaired when it may be.
ReadVerdict ==
    /\ phase = "schedule" /\ (pending = {} \/ stopped)
    /\ LET doubted == status = "succeeded" /\ Doubted
           repair == doubted /\ request.followups > 0 /\ remainingToolCalls > 0
       IN  /\ status' = IF doubted THEN "partial" ELSE status
           /\ phase' = IF repair THEN "repair" ELSE "close"
           /\ lane' = IF repair THEN [lane EXCEPT ![Repair] = "starting"] ELSE lane
           /\ allocations' = IF repair THEN [allocations EXCEPT ![Repair] = remainingToolCalls]
                             ELSE allocations
    /\ UNCHANGED <<request, pending, active, found, results, remainingToolCalls, stopped,
                   expired, spent>>

MergeRepair ==
    /\ phase = "repair" /\ lane[Repair] = "ended"
    /\ results' = Append(results, Record(Repair))
    /\ remainingToolCalls' = remainingToolCalls - found[Repair].calls
    /\ lane' = [lane EXCEPT ![Repair] = "idle"]
    /\ phase' = "close"
    /\ UNCHANGED <<request, pending, active, allocations, found, status, stopped,
                   expired, spent>>

Finish ==
    /\ phase = "close" /\ phase' = "done"
    /\ status' = IF status # "failed" /\ remainingToolCalls < 0 THEN "failed" ELSE status
    /\ UNCHANGED <<request, pending, active, lane, allocations, found, results,
                   remainingToolCalls, stopped, expired, spent>>

\* It makes no difference when no run is about to start.
DeadlinePasses ==
    /\ ~ expired /\ expired' = TRUE
    /\ phase = "schedule" \/ \E r \in Runs : lane[r] = "starting"
    /\ UNCHANGED <<request, phase, waveVars, lane, found, spent>>

----------------------------------------------------------------------------

Main == Validate \/ StartWave \/ MergeWave \/ ReadVerdict \/ MergeRepair \/ Finish
Stage(r) == Refuse(r) \/ Start(r) \/ Answer(r) \/ Throw(r)
Next == Main \/ DeadlinePasses \/ \E r \in Runs : Stage(r)

\* The main function never waits but for stages, and runs are ended by
\* their timeoutMs, unless one was given none.
Fairness ==
    /\ WF_vars(Main)
    /\ WF_vars(\E r \in Runs : Refuse(r) \/ Start(r))
    /\ \A r \in Runs : WF_vars(lane[r] = "running" /\ Throw(r))

Spec == Init /\ [][Next]_vars /\ Fairness

----------------------------------------------------------------------------
(* Properties *)

\* Nothing is built on a failure: whatever else ran beside it, a stage only runs
\* when each of its dependencies has answered or was an optional one that failed,
\* no answer so far has asked for clarification, and no required stage has failed;
\* and a repair only follows a job whose every stage has answered.
NothingBuiltOnFailure ==
    \A r \in Runs : Running(r) =>
        /\ \A i \in DOMAIN results :
              /\ results[i].answer # "clarify"
              /\ results[i].ok \/ (results[i].stage \in request.optional /\ r # Repair)
        /\ r \in Stages => \A d \in request.dependsOn[r] : ResultOf(d)
        /\ r = Repair => pending = {}

Failures == {r \in Runs : lane[r] = "ended" /\ ~ found[r].ok}
FailedResults == {i \in DOMAIN results : ~ results[i].ok}

\* The stages of a wave share the budget fairly and each is held to its share, so
\* the calls that are charged never exceed it; but a stage that fails is charged
\* nothing, so that the calls really made may exceed it once for each failure.
OverrunBounded ==
    /\ remainingToolCalls >= 0
    /\ spent <= request.budget * (1 + Cardinality(Failures) + Cardinality(FailedResults))

SameWave(s, t) == s \notin request.dependsOn[t] /\ t \notin request.dependsOn[s]

\* The status tells the truth: success means that every stage answered, none asked
\* for clarification and the first verdict is not a doubt; a failed required stage
\* fails the job unless a later one of its wave asked for clarification, and a
\* job that asks for clarification has been asked for it.
StatusTrue ==
    phase = "done" =>
        /\ status = "succeeded" =>
              /\ pending = {} /\ ~ Doubted
              /\ \A i \in DOMAIN results : results[i].ok /\ results[i].answer # "clarify"
        /\ \A i \in FailedResults : results[i].stage \in Stages \ request.optional =>
              \/ status = "failed"
              \/ /\ status = "needs_clarification"
                 /\ \E j \in DOMAIN results :
                       /\ j > i /\ results[j].answer = "clarify"
                       /\ SameWave(results[i].stage, results[j].stage)
        /\ status = "needs_clarification" =>
              \E i \in DOMAIN results : results[i].answer = "clarify"
        /\ status = "partial" => Doubted \/ FailedResults # {}

\* A request that is accepted comes to its end with a status: an accepted graph
\* never stalls the scheduler, and no wave waits for ever but for a run that was
\* left without a deadline.
JobEnds == <>(phase \in {"refused", "done"} \/ \E r \in Runs : lane[r] = "unbounded")

=============================================================================
