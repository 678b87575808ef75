# A TLA+ model of mcoda, mswarm and codali

This directory holds TLA+ specifications of the concurrent core of the mcoda
repository, TLC configurations that model-check them, and theorems about them
that TLAPS checks. Paths below are relative to the repository.

## 1. The system

mcoda is a TypeScript monorepo of tools that let language-model agents plan and
carry out software work. Three groups of packages hold its own core logic.

**mswarm** (`packages/mswarm`) makes a machine a *self-hosted node*: the node
enrols with a gateway service, sends heartbeats, long-polls for jobs, executes
them with local agents and posts back a start, stream events and a result. It
also runs *generic jobs* for its owner, behind a scheduler kept in memory.

**codali** (`packages/codali`) runs agents: a runtime of model and tool calls, a
*gateway* that plans a request, runs worker tasks in parallel waves under
budgets, verifies and finalises the answer, and a command line that locks its
workspace with a file.

**mcoda core** (`packages/core`, `packages/db`) keeps a backlog in a workspace
database: jobs, task runs, tasks and the locks that keep two runs off one task.
*gateway-trio* is its outer loop: it takes tasks through work, review and QA.

### Inventory

| component | state | operations | what is hard | what makes it correct |
|---|---|---|---|---|
| Relay daemon (`mswarm/src/runtime.ts`, `startDaemon`, `runOnce`, `pollRelayJob`) | flags, two timers, counters per lane, busy agents, failure streaks | heartbeat, poll, claim, job settles, revocation, stop | four callers re-arm one timer; the lane is chosen before a long poll; 410 and 404 arrive late | one claim on the wire; slots exact; cooldown kept; the wake-up never lost |
| Relay job (`executeRelayJobClaim`, `executeJob`) | pending chunks, forwarded count, result | start, chunk, flush, last flush, result with retries | lost answers; posts in flight when the result is built | every chunk delivered; a true verdict; same payload on retry |
| Node state (`ensureEnrolled`, `markLifecycleProtocolDegraded`, `setup`, client commands) | state file, token file, one flag in memory | enrol, report, mark degraded, setup, add or remove a client | read-modify-write by several chains and processes; a rewrite truncates first; a one-time token | identity and verdict survive; polling stops; the gateway hears of it |
| Generic jobs (`mswarm/src/server.ts`, `OwnerLocalGenericJobLifecycleScheduler`) | records, queue, reservations, controllers | create, cancel, retry, dispatch, end of an execution | requests land in the dispatcher's await and under a running execution | places and tenants kept; records agree with executions; the queue drains |
| Codali workspace lock (`codali/src/runtime/WorkspaceLock.ts`) | the lock file | acquire, release, signal | read, unlink and write are separate | one run at a time; no file left |
| Gateway state machine (`codali/src/gateway/GatewayStateMachine.ts`) | tasks, budgets, trace, verdicts | fill and run a wave, drains, verifier round | members of a wave interleave; several loops stop early | budgets kept, no task lost, failures reported, the run ends |
| Task locks (`WorkspaceRepository.ts`, `WorkOnTasksService.ts`) | a lock row, task-run status | take, refresh, release, clean up, cancel | several processes, expiry, early end status | one run edits a task |
| Gateway trio (`GatewayTrioService.ts`, with selection, review and QA) | task rows, job row, progress in memory and in `state.json` | cycle, step, retry, give up, reopen, resume | crash between writes; abandoned steps write late; cancels; stale selection | attempts counted; done and given-up tasks stay so; "completed" is true; the run ends |
| Job service (`JobService.ts`) | `jobs.json`, manifests, rows | create, update, checkpoint, resume, cancel | read-modify-write, no terminal state | an ended job stays ended |
| Codali job runtime (`CodaliJobRuntime.ts`, over `Runner.ts`) | stages pending, results, calls left, status | check the graph, run a wave, merge it, verdict, repair | shares are fixed before the wave; failed stages report no calls; several results judge one status | nothing is built on a failure; the overrun is bounded; the status is true; the job ends |
| Codali runtime, pipeline, sessions, subagents, datasets | logs, session files, queues | model and tool calls | detached callbacks | events in order |
| Workspace database (`withTransaction`) | one connection | transaction with retry | `serialize` does not wait | transactions do not mix |
| Backlog ordering | dependency graph | order | cycles | topological order |
| Planning, documents, agents, adapters, integrations, CLI, generators, setup packages | - | text generation, input and output | - | - |

The components meet as follows. The relay daemon starts a relay job for each
claim and learns only how its promise settled; the relay job calls the codali
executor, which calls the codali runtime (whose event sink is not awaited) or the
gateway. A 404 on a lifecycle route marks the node degraded, in memory and in the
state file that heartbeats, enrolment and the owner's commands share. `codali run`
takes the workspace lock. gateway-trio calls work-on-tasks, which takes a task
lock per task, then review and QA; all of them report to the job service, whose
cancellation drops lock rows.

`PROJECT.json` lists every component with its status, and under `hazards` what is
hard to test, line by line.

## 2. The plan

| order | module | about | state |
|---|---|---|---|
| 1 | `RelaySlots`, `RelayDaemon`, `RelayDaemonProofs` | the abstract pool of slots, the daemon that implements it, theorems | done |
| 2 | `RelayJobExecution`, `RelayJobExecutionProofs` | delivery of one job, theorems | done |
| 3 | `WorkspaceLock` | the lock file | done |
| 4 | `TaskLocks`, `LockProofs` | the lock row and task runs, theorems about both locks | done |
| 5 | `GatewayStateMachine`, `GatewayStateMachineProofs` | one gateway run, theorems | done |
| 6 | `NodeState`, `NodeStateProofs` | enrolment, token and state file with their concurrent writers, the degraded verdict; theorems | done |
| 7 | `GatewayTrio`, `GatewayTrioProofs` | task status across work, review and QA, job row, progress and resume; theorems | done |
| 8 | `GenericJobLifecycle`, `GenericJobLifecycleProofs` | the owner's scheduler, theorems | done |
| 9 | `CodaliJob`, `CodaliJobProofs` | the stages of one job: graph, waves, budget, deadline, verdict and repair; theorems | done |
| 10 | `JobStore` | `jobs.json`, checkpoints and the resume of the other commands; the abstract life of a job and where the code leaves it | open |
| 11 | `WorkspaceTransactions` | `serialize` and `withTransaction` on one connection | open |
| 12 | `TaskOrdering` | the ordering algorithm against a reference definition | open |

Every safety property that a passing run checks, as an invariant, an action property or a
refinement, is also a theorem. What is left to prove goes with the modules that are open.

## 3. The modules

### RelayDaemon

The closure of `startDaemon`. Variables carry the source's names (`polling`,
`revoked`, `activeRelayExecutions`, ...). One action ends at each await: a
heartbeat fires, reads the state, and is accepted, refused with 410, or fails; a
poll begins (the lane and the busy agents are fixed there), checks the state
file, and ends in a claim, nothing, an error, 410, or a 404 that marks the node
degraded; a job succeeds, fails, or ends in 410 or 404. The callbacks of one
settled promise run in one action, as they do in one microtask checkpoint. Time
is discrete: timers hold ticks left, `Tick` never passes a due timer.

`Crash` and `StartDaemon` model a restart, in which only the degraded mark of the
state file survives. `owedPoll` and `owedExec` are history: the cooldown that
failures have imposed and that no success has lifted.

`RelaySlots` promises less: a lane is booked, a job fills the booking, a job gives
its slot back, a crash empties both. `ImplementsSlots` shows that the daemon keeps to it.

### RelayJobExecution

One claim until its promise settles. Each request can be answered, lost before or
after the gateway processed it, or meet 404. A run is `detached` when its event
sink is not awaited, as with the codali runtime, and not when the executor awaits
`onOpenAIChunk`; both are in the one run. `gwStarted`, `gwEvents` and
`gwResults` are what the gateway has. A job ends with its result posted or given up, or
`dropped`, when the last flush meets 404 and the mark it asks for cannot be written: the
promise is then rejected and nothing is posted.

### NodeState

The state file is absent, emptied (a rewrite has opened it), garbled (a rewrite
was interrupted) or whole; whole, it is reduced to two facts: it names the node,
and it holds the verdict `self_hosted_protocol_mismatch`. Each chain of awaits has
its place: the daemon's heartbeat, its poll, its jobs, and one command of the
owner (`setup`, or a change of the client list with its own heartbeat). A rewrite
is read, open, write, in separate actions; the two reads of a heartbeat that
nothing separates but its own awaits (state and token) are one. A command can be
interrupted and the daemon can crash at any action; `Start` reads the
configuration as `readSelfHostedNodeConfig` does. An enrolment may be refused, or its
answer lost after the token was spent. Errors of a write are not
modelled, and neither is more than one command at a time.

### GenericJobLifecycle

The records, the queue in the order of `queued_at`, the reservations, and the
calls of `executeGenericJob` that have not returned, each with what its signal was
told: `aborted` by a cancel, `timedOut` by its own timer (`TimesOut`), which leaves a signal
alone that a cancel has reached, so that the first reason decides the verdict
(`runtime.ts:7674`). `probing` is the job whose capabilities the dispatcher awaits. What runs
without an await is one action: `Start` is `schedule` and the first part of
`runScheduled`, `Return` is the rest with the `dispatchQueued` that follows. An illegal
transition throws in a promise that nobody handles, which ends the process
(`Dies`). Records live in memory, so a restart is a new beginning and is not an
action. Left out: notes of backpressure, events, audit, two jobs with one
idempotency key or one `queued_at`, and the direct stream of `server.ts`, which the
scheduler neither counts nor sees.

### WorkspaceLock

Processes that acquire (read, ask the log of a run on another host, unlink, open,
write), work, log their end and release (read, unlink). A file being written is
garbled, and what is written to an unlinked file is lost. Left out: the reuse of
a process id, and the moment between the signal handler's unlink and
`process.exit`, in which the run is counted as done.

### TaskLocks

The row of one task and the task runs that want it. Every statement or transaction on
the database is one action, which is what SQLite gives to several processes;
what happens inside one process is planned as a module of its own. Phases between lock
statements are single stages: `working`, and `vcs` for commit, merge and push; a VCS phase
with nothing to do is `SkipsVcs`.

An abort, a time-out or a lost lock only rejects the promise that waits for the agent
(`withAbort`, `WorkOnTasksService.ts:4148`); the agent gets no signal (`:5768`) and goes on
while the run reaches its `finally` and gives the row back (`:7285`). `abandoned` is the set
of runs whose agent does so, until it stops (`AgentStops`), and `Editing` counts them: the
workspace is edited for a run that is past the lock or has left its agent behind.
`MayAbandon` says which runs may, a bound.

### GatewayTrio

One job and the process that works for it, over the task rows, the job row,
`progress` (memory) and `disk` (`state.json`). `run.pc` follows the code: `start`
(preflight and seeding, not covered by the loop's catch), `head` (cancel check,
reopening), `select`, `next` (the entries of a cycle), `inner` (one round of a
task), a step, `record` (its answer goes into the progress and to `state.json`), `decide`
(what to make of it), `zero` and `mark` (a row written for a run without tokens or
for a failure, before the progress that says so), `leave`, `cycle_end`,
`finish`, `final`. `writeState` is part of the action that it ends. A step returns
a kind of result, a failure class, a guardrail verdict and the row it left; the
sets of these are read off the three services. Each class of failure may come with either
verdict of the guardrail.

The code writes a row first and `state.json` after it, and a kill may fall between: these are
two actions after a step. At the head of a cycle they are one (`Head`: the rows
at `GatewayTrioService.ts:809`, `state.json` at `:1986`): between them nothing reads
either but the head itself, and after a kill there the next process finds an open row with a
failed entry, which it reopens as it does a failed row (`Reopens`).

From outside come exceptions, a signal whose handler sets the job cancelled while
the loop goes on until the exit, a kill, a step that times out and may write its row
later (`LateWrite`), the heartbeat that sets the job running, and an operator who
cancels the job or a task. `Resume` follows a failed or partial end as often as it likes.

Abstractions: `not_started`, `in_progress` and `changes_requested` are one status,
`to_work`; failure reasons are classes (`soft`, `fatal`, `zero`); the retry cap per
reason and the cooldown answer freely; a resume is called with the options of the job
(the code takes others, `:868`); the failure reason `dependency_not_ready`, which `:784`
looks for and nothing in the repository writes, does not occur; agents, tiers, escalation, ratings, docdex,
golden examples, pseudo tasks, `--limit` and dry runs are left out; a heartbeat ends
with its step. `workRuns` and `overwritten` are history.

### GatewayStateMachine

`execute` as a loop with stages (`fill`, `run`, two drains, `verifying`,
`ending`), and each worker as a chain `running`, `answered`, `persisting`,
settled: the trace is read between `answered` and `persisting` and appended to
afterwards. Numbers are kept (calls, evidence items, budgets), contents are not.
Whether a worker's result is accepted beyond the budgets is chosen freely.
Calls are summed by counting them (`Total`, the number of pairs of a task and a call).
Of what a verifier asks for the model keeps the follow-ups that are accepted and the
reasons why others are refused, from which `StopReasonOf` takes the stop reason as
`resolveVerificationStopReason` does.
Image artifacts, which follow-up was refused, and errors of the store are left out.

### CodaliJob

`runCodaliJob` with a loop (`schedule`, `wave`, `repair`, `close`) and a lane for
each stage of a wave, which is refused, started, and answers or throws. The request
is any graph over the stages, also one with a cycle or an unknown stage, with any
stages optional. The descent of `validateStageDag` is stated as what it
finds, a set of stages that each depend on another of the set; a graph that is
accepted and yet stalls the scheduler would end in `stalled`, which `JobEnds` rules
out. Allocations follow the code's two cases (`Allocated`), stated as what each stage of a
wave is given, and the status as what the results of a wave make of it (`Judged`): the last
of them that stops the job decides. A run of a stage is `runCodaliTask`
over a `Runner`, which refuses the call after its last and throws; `unbounded`
is a run that was given a `timeoutMs` of 0. `spent` counts the calls really made. Two
branches of the code are kept out or never taken, because the budget never falls
below 0, as `TypeCorrect` of section 5 proves: an allocation below 0, and `tool_budget_exceeded` at the end. Texts, the
choice of the output, agents, subagents, and an event callback that throws
(the callback mswarm passes never does) are left out.

## 4. The runs

| run | question | bounds | distinct states |
|---|---|---|---|
| relay_lanes | one poll, agents, lanes, wake-up, no poll inside a cooldown; refinement of `RelaySlots`; the node keeps polling | 1+1 slots, 2 jobs, 2 polls, 1 agent, cooldowns of 1 and 2 ticks | 144,532 |
| job_delivery | delivery with awaited and with detached event posts | 5 chunks, batches of 2, 4 attempts | 17,963 |
| workspace_lock | exclusion unless disturbed, no file left | 3 processes, 2 hosts | 61,423 |
| task_locks | exclusion unless excused, rows kept and given back | 3 task runs of 2 jobs, of which one may be cancelled; one run may leave its agent at work | 1,972,132 |
| task_locks_exclusion | exclusion without expiry or cancel: violated | | |
| gateway | tasks settled, overruns, status, skips, the run ends | plans of 1 to 3 tasks, waves of 2, 1 round, 1 follow-up | 1,450,396 |
| gateway_trio | attempts, verdicts, dependencies, completion, the run ends | 2 tasks, one dependency, `--max-iterations` absent or 2, 2 cycles, 2 setbacks, retries of review and QA without bound, 1 fault | 882,580 |
| trio_stall | a failed task does not hold up the others: violated | 2 tasks, no limit of cycles | |
| node_state | identity, verdict, polling, report | 1 job, 1 command, 1 crash | 470,676 |
| codali_job | nothing built on a failure, overrun, status, the job ends | every graph of 3 stages, waves of 2, a budget of 1 call, stages that ask for all or none, 1 repair | 2,764,062 |
| generic_jobs | places, records, cancels, the queue drains | 4 jobs, 2 tenants, 2 places, 3 requests | 793,339 |
| generic_cancel | the node survives a cancel: violated | | |

Why the bounds are enough. In the daemon the interesting cases need a full
regular lane and a job in the reserved lane, claimed while the other ends: two
jobs, which may want the same agent, and a name is free again when its job has
settled; two names for polls let a second poll begin, which
`OnePollOutstanding` rules out. In a job, five chunks with batches of two give two
full batches and a rest, so a batch can fail before, between and after others. Three lock processes are an
owner, one that takes over, and one that interferes with the take-over; the same holds of the
task runs, of which one leaves its agent behind beside two that take and pass on the row, one of
its own job and one of a job that is not cancelled. Three tasks
of a gateway give a wave and a task after it, which is where skips and drains act, and a
follow-up gives a second round. Budgets of two leave one of each combination of
within, at and over the limit. In gateway-trio two tasks are the active one and
the one it holds back, or a dependency and its dependent; two setbacks let a task
fail, be reopened and fail again; one fault puts an exception, a kill, a signal, a
cancel or an abandoned step at each point of that. `Setbacks` bounds the work steps that fail,
since each counts an attempt and attempts have no bound without `--max-iterations`; a
review or QA step that wants to be done again counts nothing, and `EndlessRetries` lets it do so
for ever, so that the bound does not stand in for an end the code does not have. Three stages of a job give
a wave of two and a stage that comes after one, after both or beside them, and the
shortest cycle that is more than a pair; with one call to give, the shares of a wave differ
and a single uncharged failure shows. The node's state is at risk when
two of the daemon's chains and a command meet in a rewrite. In the scheduler four jobs
fill both places, leave one waiting behind a tenant's reservation and one behind the
limit; three requests can cancel, cancel again and retry one job.

Deadlock is checked in the runs of the relay daemon, of a relay job and of both
locks. A gateway run that has ended, a gateway-trio job that has ended for good, a
node without configuration or with its bounds used up, a codali job that is over, and a
scheduler whose process has ended really stop.

No run uses symmetry.

### Fairness

* `relay_lanes`: time passes, a heartbeat in progress goes on, a due timer fires
  and a poll settles because every request has a timeout (weak fairness). Strong fairness is asked of
  reading the state and of the accepted heartbeat, that is, a gateway that is
  asked for ever accepts some day, and of jobs, each of which has a timeout.
  Nothing is assumed of crashes, stops, 404 or 410.
* `job_delivery`: weak fairness of the whole next-state relation; requests, the
  agent's run and `sleep` all end.
* `gateway`: the loop of `execute` goes on, a worker's timer fires and
  store calls return. A worker's own answer is not assumed. The verifier is
  assumed to answer; the code sets it no limit, see the hazards.
* `gateway_trio`, `trio_stall`: the loop waits for nothing but a step, and a step
  returns or times out; a signal's handler exits. Nothing is assumed of resumes.
* `node_state`: the service manager starts the daemon again, its heartbeat timer
  fires, files are written to the end, and the gateway accepts some heartbeat of
  those it is sent for ever (strong fairness of being heard).
* `codali_job`: the main function waits for its stages only, and a run is ended by its
  `timeoutMs`; nothing is assumed of a run that was given 0.
* `generic_jobs`: a probe and an execution return; both have a timeout. Clients
  need do nothing.

### What the violated runs show

* **task_locks_exclusion**. A task run gets its end status before its branch is
  merged and pushed; a row is taken over by status, so another run may edit the
  task at the same time.
* **trio_stall**. A task that has failed for good stays the active task. Every
  later cycle stops before the next entry (`GatewayTrioService.ts:2092`), finds that
  tasks remain (`:2919`) and goes round again. The warning at `:2716` says
  "continuing run". With `--max-cycles` the run ends, without having tried the others.
* **generic_cancel**. A queued job is cancelled while the dispatcher awaits its
  capability probe. The record is then `cancelled`, and scheduling it throws in a
  promise that nothing handles, which ends the Node process. The other way there is
  to cancel an executing job twice: the second cancel moves the record, and the
  execution's own end is an illegal transition. `DiesOnlyByCancel` says that
  these are the only ways.

### What the code does not promise

Some properties name the circumstances in which the code gives up what they say.
These are history variables of the models and worth knowing on their own:

* *Workspace lock* (`disturbed`). Two processes that find no lock file both write one
  (`WorkspaceLock.ts:93`); a live lock older than its limit is cleared; a release may unlink the
  file of a run that took over. Outside of these the lock is exclusive.
* *Task lock* (`excused`). A row is lost to its TTL, to a cancelled job, or to an early end
  status; or the run gives it back itself while the agent it gave up on is still editing
  (`WorkOnTasksService.ts:4148`, `:5768`, `:7285`), and another run takes it without any
  expiry or cancellation. `excused` holds the runs this happened to, and
  `ExclusiveUnlessExcused` asks one of them in every pair that edits.
* *Relay job* (`overlapped`, `ackLost`). A chunk of a detached run is lost when the
  result is built while a post that then fails is in flight
  (`CodaliRuntime.ts:2040`); a lost answer makes the gateway see a chunk twice.
* *Node state* (`crossed`). Two rewrites overlap, or a crash or a reader meets a file
  that is open and empty: the identity or the verdict may be lost. A command of
  the owner that rewrites the file while a poll checks it hides the verdict from that check, so
  each command can let one poll through to a daemon that was started with the verdict on disk
  (`PollsStop`). A daemon
  keeps its flag after a `setup` beside it until it is restarted, and goes on sending
  the client list it started with (`runtime.ts:8269`).
* *Generic jobs* (`overridden`, `preempted`). A second cancel of an executing job frees
  its place while the execution goes on. A timeout that precedes a cancel lets the scheduler
  retry a job that was cancelled; one that comes after it does not (`CancelHonoured`). A cancel wakes nobody, so what it makes
  room for waits for the next end of an execution or the next request. A manual retry sets
  states without consulting the transition table.
* *Gateway*. Members of a wave do not see each other: each is given the whole remainder of
  the tool budget and reads the evidence before the others append, so with
  waves of two or more both budgets can be overrun; `BudgetOverrunBounded` says how far: each
  to as many times the budget as a wave has places. What runners report above what they were
  given (`ExtraCalls`) comes on top for every task taken, since tasks without tools, drained
  tasks and follow-ups report as well. The
  drain after an exhausted tool budget runs tasks without tools although a
  required task has failed, and records none of their failures
  (`GatewayStateMachine.ts:625`, `:630`); the run's status is still right.
* *Codali job*. A stage that throws is charged no call, although `Runner` may have made
  all it was given, so that an optional stage that fails lets the rest spend the same
  budget again (`CodaliJobRuntime.ts:568`, `:833`); `OverrunBounded` says how far. In one wave a later
  request for clarification covers the failure of a required stage (`:846`). A
  second verdict is never looked at (`:852`), and once an optional stage has failed no
  verdict is. A `timeoutMs` of 0, asked for or left by the clamp at `:692`, is no time-out:
  such a run may never end, and `JobEnds` says nothing of a job that has one.
* *Gateway trio*. Without `--max-cycles` a run need not end, see above. With it, it ends but for
  one case, which `RunEnds` names: within a cycle nothing bounds how often the inner loop
  (`GatewayTrioService.ts:2185`) takes one task round. A review or QA step that times out or
  throws (`:2346`, `:2536`) counts no attempt, so `--max-iterations` does not end it either,
  and without `--max-iterations` a failed work step or a review that asks for changes is no end
  (`:2803`, `:2871`). The run then stays with that task for ever. The model has the
  first of these without bound and the second up to `Setbacks`. A cancelled job is not final: the heartbeat and the start of
  a step set it running again (`GatewayTrioService.ts:1332`), unless the loop looks in
  between. A step that timed out may still rewrite a row (`overwritten`). When it opens the
  row of a task that is done, and an operator cancels that task between the reopening of
  failed tasks and the selection, the selection records it as skipped
  (`GatewayTrioService.ts:2047`): the one way a completed task loses its status (`DoneStaysDone`). A
  task that depends on itself is selected only while its own row counts as ready, and its later
  steps do not look again, so that `DependencyGate` speaks of other tasks.

## 5. What is proved

`RelayDaemonProofs` proves, for any finite set of executions and agents, any
set of polls and any limits:

* `TypeCorrect`: `Spec => []TypeOK`;
* `OnePoll`: `Spec => []OnePollOutstanding`;
* `Capacity`: `Spec => []LaneCapacity`;
* `Counters`: `Spec => []CountersExact`;
* `Cleared`: `Spec => []TimersCleared`;
* `Wakeup`: `Spec => []NoLostWakeup`;
* `ReservedForUrgent`: `Spec => []ReservedLaneIsUrgent`;
* `AgentsOnce`: `Spec => []AgentsExclusive`;
* `Cooldown`: `Spec => CooldownRespected`;
* `Implementation`: `Spec => ImplementsSlots`, the refinement of `RelaySlots`.

`TypeOK`, `LaneCapacity`, `CountersExact` and `TimersCleared` are proved and no
longer in a run: they are parts of the argument for the others.

The assumptions are the named ones of `RelayDaemon`: limits and times are
naturals, the regular limit is at least one, the set of executions is finite, and
the back-off of each streak is a natural (TLC evaluates all of them on each relay run).

`TypeOK` is inductive alone. The others rest on it. `OnePollOutstanding` is
inductive with it: `PollBegins` needs `~polling`, every end of a poll lowers the
flag and empties the chain. `LaneCapacity` is not inductive: when a claim arrives
one must know that its slot is still free, though jobs end and other jobs are
counted meanwhile. The strengthening says that the poll outstanding has its slot
booked: for a regular poll fewer than `RegularLimit` regular jobs run, for a
reserved one fewer than `ReservedLimit` reserved ones. That holds because only
the one outstanding poll can start a job. It needs the counters to be exact,
since the guard that books the slot reads counters, and the counters need finite
cardinalities: adding an idle execution raises them by one, removing a running
one lowers them by one.

`TimersCleared` is inductive alone, because `schedulePoll` leaves the timer as it
is whenever the node is stopped or revoked. `NoLostWakeup` is inductive with
`TypeOK`: an action that may unblock the next poll ends with a call of
`schedulePoll`, which then arms the timer.

`AgentsExclusive` needs to know, while a poll is outstanding, that every busy
agent is on its list (`AliasesExcluded`). The list is complete when the poll
begins, since the aliases in use are at most all agents, and afterwards jobs only end.

`CooldownRespected` speaks of the step that starts a poll. Its invariant
`CoolInv` says that the streaks remember at least what is still owed, so the
delay `schedulePoll` is asked for is enough; that no timer is armed beside an
outstanding poll; that an armed timer is never earlier than what is owed, unless
the node is degraded or direct and will not poll again; and that before the first
`schedulePoll` nothing runs or has failed. The subtle case is a job that fails
while `schedulePoll` returns early, so that the old timer stays: exact counters
exclude a full node, `TimersCleared` a stopped or revoked one, and the second part
a poll in flight, which leaves the nodes that will not poll again.

`Implementation` maps the start of a poll to the booking of a slot, and uses the
strengthened lane invariant to show that the booked slot is free.

`LockProofs` proves about the lock row, for any set of task runs and any assignment to
jobs:

* `TypeCorrect`: `Spec => []TypeOK`;
* `NoneLeft`: `Spec => []NoRowLeftBehind`, from a statement of all the stages in which
  a run cannot hold the row;
* `Exclusive`: `Spec => []ExclusiveUnlessExcused`, from `EditorsHold`: whoever is edited for,
  by itself or by an agent it left behind, holds the row or is excused, and there is
  one row. Any of the runs may leave its agent behind (`MayAbandon` is any set of runs);
* `KeepsRow`: `Spec => WorkerKeepsRow`, action by action from `TypeOK`: each
  statement that could remove another run's row tests its holder, status or expiry.

and about the lock file, for any set of processes and any placing of them on hosts, of which
it only assumes that `Nobody` and `"garbled"` are no processes (one module extends both
specifications, so `WorkspaceLock` calls its own `LockInit`, `LockNext` and `LockSpec`):

* `LockTypeCorrect`: `LockSpec => []LockTypeOK`;
* `FileNoneLeft`: `LockSpec => []NoLockLeftBehind`, from `FileUnnamed`: the runs that
  have not written yet, or have unlinked, are not in the file either;
* `FileExclusive`: `LockSpec => []ExclusiveUnlessDisturbed`, from `FileInv`. Exclusion
  is not inductive: one must know that a run about to unlink or write does so
  while nobody works. As long as nothing is disturbed, `FileInv` says that the file names
  whoever works; that a run which has judged the file garbage finds nobody working; that
  a run which asks a log asks about the lock of whoever works; and that at most one run
  acquires at a time, whose open file is the one that is there.

`RelayJobExecutionProofs` proves, for any number of chunks, any batch size and any
number of attempts, the last two at least one:

* `VerdictHolds`: `Spec => []VerdictIsTrue`;
* `TypeCorrect`: `Spec => []TypeOK`;
* `ResolvedHolds`: `Spec => []ResolvedMeansDelivered`;
* `DeliveryHolds`: `Spec => []EventsDelivered`.

The verdict needs only `Told`: which result each stage can hold, and that the gateway
has nothing but the one payload. The bound on the forwarded chunks needs to know
where each chunk is (`ChunksOK`): chunks are numbered in the order of the stream, the
pending ones are the last, a post holds a run of consecutive chunks, two posts share none,
and the forwarded count is the size of a set of chunks that are in no post, since a
count alone does not say that no chunk is counted twice. Delivery adds, as long as no post has
overtaken another, that there is at most one post, that it starts where the count ends, and
that the gateway's events are complete up to the count (`InOrder`); the count is then exact
when the last flush is over, and slicing the stream there loses nothing (`Drained`).

`NodeStateProofs` proves, for any finite set of jobs, any number of commands and of
crashes:

* `Restartable`: `Spec => []CanRestart`, which holds `TypeOK`;
* `VerdictOutlives`: `Spec => []VerdictStands`;
* `PollsBounded`: `Spec => []PollsStop`.

Both of the first need the rewrites in progress: until two meet, the file is empty
exactly while one of them is between its halves, and every draft names the node
(`Clean`); a verdict that stands is in the file and in the draft of every edit, and
no enrolment is under way (`Stands`). `PollsStop` is a matter of accounting: each late poll is
charged to the verdict (the poll under way when it was taken) or to a command, and a
command that has not finished its rewrite has its charge still to give (`Charged`). The
two do not add up: the command that ends a standing verdict, by withdrawing it or by leaving
a crossed file, has hidden it from none of the polls sent, so its charge pays for the poll
under way when the daemon takes the verdict again.

`GenericJobLifecycleProofs` proves, for any finite set of jobs and any tenants,
priorities, retry limits, places and requests:

* `Invariant`: `Spec => []Inv`, the six parts below;
* `RecordsHold`: `Spec => []RecordsAgree`, which holds `TypeOK`;
* `PlacesHold`: `Spec => []ReservationsHold`;
* `DeathsExplained`: `Spec => []DiesOnlyByCancel`;
* `CancelsHonoured`: `Spec => CancelHonoured`.

The line holds each queued job once and no other (`Lined`). Unless a client has cancelled a
job under its own execution, reservations are the active records and a running
record has just its own execution (`Agreed`). Places are not safe alone, because a place is
judged before an await: the invariant says that the job being probed still has its place and
still shares the tenant of the active ones when the probe returns (`Roomy`), since
meanwhile jobs only leave. The process dies only of an illegal transition, so one must know
that the job being probed is queued still (`Alive`). A job that waits is not wanted
cancelled, an execution whose record has moved on is aborted, and what still executes of a
job that is wanted cancelled was aborted before its timer, so that no verdict of it is a
timeout to be retried (`Obeyed`).

`GatewayTrioProofs` proves, for any finite set of tasks, any dependencies, lists and limits,
and any number of cycles, setbacks and faults, with or without a bound on retries:

* `TypeCorrect`: `Spec => []Types`, `TypeOK` and the shape of the loop's locals;
* `Invariant`: `Spec => []Inv`, with the six parts below;
* `AttemptsBounded`: `Spec => []WorkIsCounted`;
* `CompletedIsTrue`: `Spec => []CompletedMeansDone`;
* `GivenUpStays`: `Spec => GivenUpForGood`;
* `CompletedStays`: `Spec => DoneStaysDone`;
* `DependenciesGate`: `Spec => DependencyGate`.

The argument is about two copies of the progress, in memory and on disk. They agree on
the attempts wherever a process works, and the file's attempts are at least the work steps
(`Counted`), so a kill at any point grants nothing. A task that is closed on disk is closed in
memory in the same words, and the task in hand is not closed (`Remembered`), so no path
through the loop starts one. Memory is on disk wherever the end of the run is
judged (`Finished`), and a completed task is completed in its row or was rewritten
by an abandoned step (`DoneInRow`). The dependencies of what the cycle has still to
do were ready at the selection, and the only row the loop has changed since is
that of the task in hand (`Gated`). The proof of each part follows the loop in groups of
actions: those within an entry change one task, those between entries follow one of
few patterns (`Between`), and those from outside change rows only (`Outside`).

`GatewayStateMachineProofs` proves, for any sizes of plans, follow-ups, waves (at least one
place), rounds and budgets, with or without a verifier:

* `Invariant`: `Spec => []Inv`, the parts below with `TypeOK`;
* `TasksSettled`: `Spec => []EveryTaskSettled`;
* `OverrunHolds`: `Spec => []BudgetOverrunBounded`;
* `FailuresTold`: `Spec => []RequiredFailureFailsRun`;
* `SkipsTold`: `Spec => []SkipsAreExplained`.

`Placed` says where each task is: those not taken are pending, those taken are settled or in
the wave, and the wave is empty outside of the stages that take and run tasks. The
bound on tool calls comes from the reports of a wave, each at most what was left
when it started (`Noted`), and from arithmetic on one wave (`OneWave`): if `c` is at most
`W * b` then so is `c` with `W` times what `c` leaves of `b`. The bound on the evidence
is harder, since members read and append in any order; `Stored` adds up what is
stored, what the members that have read believe is left, and what each member still
to read would believe, and shows that this sum never passes the bound: an
append lowers what the later readers see by at least what it adds for each of them. Sums
are numbers of pairs (`Total`), and the lemmas `TotalBound`, `TotalTerm` and `TotalChange` take the
place of an induction over the set.

`CodaliJobProofs` proves, for any number of stages and size of waves (both at least one), any
graphs, budgets, demands and follow-ups:

* `Invariant`: `Spec => []Inv`, the parts below with `TypeOK`;
* `TypeCorrect`: `Spec => []TypeOK`, the calls left never below 0 among it;
* `NeverStalls`: the error "scheduler stalled" is never thrown;
* `NothingBuilt`: `Spec => []NothingBuiltOnFailure`;
* `OverrunHolds`: `Spec => []OverrunBounded`;
* `StatusHolds`: `Spec => []StatusTrue`;
* `ResultsOnce`: each stage, and the repair, has one result at most;
* `WavesProgress`: no wave is empty, and fewer stages are pending at its end (`WavesShrink`).

`Scheduled` says that the pending stages are those without a result and that a wave is made
of pending stages whose dependencies have results; then, of an accepted graph, pending stages
of which none is ready would each depend on another of them and make up a cycle (`SomeReady`),
and no stage of a wave depends on another of it. `Judgement` says which results are to
blame for a stop: there are none while the job goes on; when it has stopped the last of them has
decided the status, and none of them depends on that one nor it on them. `StatusTrue` alone is not inductive, since it speaks of the
end and says nothing of a wave that goes on, and it needs to know that a run
which failed answers nothing (`Honest`). `Charged` is the account of the calls: those made
and those left are together the budget, with what ended runs of the wave have reported and
are yet to be charged, and with one budget for every run that failed. A failed run cannot have
spent more than that, since the shares of a wave are together at most what is left
(`AllocationFits`: the last stage is given at most what the ones before it leave over, so
that no induction along the wave is needed), and what a failed run spent is
carried over to a failed result when the wave is merged (`ChargedMerges`). This also keeps the
calls left from falling below 0, so the types rest on `Charged`.

Model-checked only: *liveness*, that is `KeepsPolling`, `JobSettles`, `VerdictIsReported`,
`QueueDrains`, `JobEnds` and both `RunEnds`. Fairness and `ENABLED` are out of the prover's
reach. Of `JobEnds` what is safety is proved: the scheduler never stalls and each wave that ends
leaves fewer stages pending; that waves end is what fairness adds.
The three expected violations are TLC's as well.

Proving changed some statements. Trying to prove `DoneStaysDone` led to the
cancelled row of section 4, which TLC confirms with three faults; trying
`PollsStop` led to the bound by commands, which one command cannot tell from a bound of one
(TLC exceeds one with two commands and a crash); and the bound on tool calls was true only without `ExtraCalls`. `WithoutJob`,
the sums of the gateway, and the shares and the status of a codali job were restated without
`SelectSeq`, folds and recursive sums, to be reasoned about; they denote the same values, and the
runs reach the same states.

## 6. What is not modelled

See the notes in `PROJECT.json`. In short: text generation, parsing and
formatting; HTTP, git, agents and tools beyond their outcome; and the modules
marked open in the plan. What each module leaves out is said in section 3.
Three limits matter for reading the results. A
process that receives a signal is modelled as ending at once after its handler, except
in gateway-trio, where the loop goes on meanwhile;
several processes on one database are taken to see each statement or
transaction as atomic; and one process works for a gateway-trio job at a time,
although the code does not keep a second one from resuming it.
