---------------------------- MODULE RelayDaemon ----------------------------
(***************************************************************************)
(* The relay loop of a self-hosted mswarm node: the closure state that     *)
(* SelfHostedNodeRuntime.startDaemon keeps, with the two runtime methods   *)
(* it drives, runOnce (one heartbeat) and pollRelayJob (one claim poll).   *)
(* One poll at a time asks the gateway for a job; every job it returns is  *)
(* executed by a detached promise in the regular lane or, when the regular *)
(* lane was full as the poll began, in the lane reserved for urgent work.  *)
(*                                                                         *)
(* The callbacks of one settled promise (.then / .catch, then .finally)    *)
(* run in one microtask checkpoint, before any timer or socket: they are   *)
(* one action here.  Every await on the gateway or on the state file ends  *)
(* an action.  Time is discrete and timers hold the ticks left.            *)
(***************************************************************************)
EXTENDS Integers, FiniteSets

CONSTANTS
  ExecIds,            \* relayExecutionSequence: only the distinctness of the ids is used
  PollIds,            \* names for the promise chains started by poll()
  Agents,             \* normalised agent aliases
  RegularLimit,       \* regularRelayExecutionLimit
  ReservedLimit,      \* reservedRelayExecutionLimit
  MaxExcluded,        \* MAX_POLL_EXCLUDED_AGENT_SLUGS
  RelayDirect,        \* config.relayMode = "direct"
  RetryMax,           \* JOB_POLL_RETRY_MAX_MS, in ticks of JOB_POLL_RETRY_BASE_MS
  MaxStreak,          \* bound: a streak above it has the delay RetryMax anyway
  HeartbeatInterval,  \* config.heartbeatIntervalSeconds, in ticks
  RevokedRecheck      \* REVOKED_RECHECK_INTERVAL_MS, in ticks

ASSUME LimitsAssumption == RegularLimit \in Nat \ {0} /\ ReservedLimit \in Nat
ASSUME IdsAssumption == IsFiniteSet(ExecIds) /\ IsFiniteSet(Agents)
ASSUME FlagsAssumption == RelayDirect \in BOOLEAN /\ MaxExcluded \in Nat
ASSUME TimesAssumption ==
  /\ RetryMax \in Nat /\ MaxStreak \in Nat \ {0}
  /\ RetryMax <= 2 ^ (MaxStreak - 1)
  /\ HeartbeatInterval \in Nat /\ RevokedRecheck \in Nat

VARIABLES
  up,                           \* the process is running
  stopped,                      \* halt() was called
  revoked,
  lifecyclePollingDisabled,
  persistedDegraded,            \* lifecycle_health_reason in the state file on disk
  startup,                      \* the runOnce before the first schedule() is not over
  heartbeat,                    \* where the heartbeat loop is
  timer,                        \* ticks left of the heartbeat timer, or Off
  pollTimer,                    \* ticks left of the poll timer (pollTimerDueAt), or Off
  polling,
  polls,                        \* the promise chains poll() has started
  execs,                        \* the detached executions
  activeRelayExecutions,
  activeRegularRelayExecutions,
  relayPollFailureStreak,
  relayExecutionFailureStreak,
  owedPoll, owedExec            \* history: ticks left of the cooldown a failure imposed

processVars == <<up, stopped, startup>>
lifecycleVars == <<lifecyclePollingDisabled, persistedDegraded>>
laneVars == <<execs, activeRelayExecutions, activeRegularRelayExecutions>>
streakVars == <<relayPollFailureStreak, relayExecutionFailureStreak, owedPoll, owedExec>>
vars == <<processVars, revoked, lifecycleVars, heartbeat, timer, pollTimer, polling, polls,
          laneVars, streakVars>>

-----------------------------------------------------------------------------
Off == -1
relayExecutionLimit == RegularLimit + ReservedLimit
Larger(a, b) == IF a >= b THEN a ELSE b
Smaller(a, b) == IF a <= b THEN a ELSE b

HeartbeatPhases == {"off", "timer", "reading", "sending"}
PollStages == {"idle", "checking", "requesting", "marking"}
ExecStages == {"idle", "running", "marking", "closing"}

Polls == [stage : PollStages, reservedOnly : BOOLEAN, excluded : SUBSET Agents]
Execs == [stage : ExecStages, regular : BOOLEAN, urgent : BOOLEAN, aliases : SUBSET Agents]

IdlePoll == [stage |-> "idle", reservedOnly |-> FALSE, excluded |-> {}]
IdleExec == [stage |-> "idle", regular |-> FALSE, urgent |-> FALSE, aliases |-> {}]

Outstanding == {p \in PollIds : polls[p].stage # "idle"}
Running == {e \in ExecIds : execs[e].stage # "idle"}
RegularRunning == {e \in Running : execs[e].regular}
ReservedRunning == {e \in Running : ~ execs[e].regular}

TypeOK ==
  /\ up \in BOOLEAN /\ stopped \in BOOLEAN /\ revoked \in BOOLEAN /\ startup \in BOOLEAN
  /\ lifecyclePollingDisabled \in BOOLEAN /\ persistedDegraded \in BOOLEAN
  /\ heartbeat \in HeartbeatPhases
  /\ timer \in Nat \cup {Off} /\ pollTimer \in Nat \cup {Off}
  /\ polling \in BOOLEAN
  /\ polls \in [PollIds -> Polls]
  /\ execs \in [ExecIds -> Execs]
  /\ activeRelayExecutions \in Nat /\ activeRegularRelayExecutions \in Nat
  /\ relayPollFailureStreak \in 0..MaxStreak /\ relayExecutionFailureStreak \in 0..MaxStreak
  /\ owedPoll \in Nat /\ owedExec \in Nat

-----------------------------------------------------------------------------
pollRetryDelay(streak) == IF streak <= 0 THEN 0 ELSE Smaller(2 ^ (streak - 1), RetryMax)

ASSUME BackoffAssumption == \A s \in 0..MaxStreak : pollRetryDelay(s) \in Nat

(* Mutant: a delivery failure does not hold the next claim back. *)
PollDelayOnly == pollRetryDelay(relayPollFailureStreak)

currentRelayRetryDelay ==
  Larger(pollRetryDelay(relayPollFailureStreak), pollRetryDelay(relayExecutionFailureStreak))

NextStreak(streak) == Smaller(streak + 1, MaxStreak)

(* Mutant of the guard below: the polling flag is not looked at. *)
BlockedButPolling ==
  \/ stopped \/ revoked \/ lifecyclePollingDisabled \/ RelayDirect
  \/ activeRelayExecutions >= relayExecutionLimit

(* The early return that schedulePoll and poll share. *)
PollBlocked ==
  \/ stopped \/ polling \/ revoked \/ lifecyclePollingDisabled \/ RelayDirect
  \/ activeRelayExecutions >= relayExecutionLimit

(* What schedulePoll leaves in the timer: a cooldown that ends later stays. *)
LaterTimer(delay, armed) == IF armed # Off /\ armed >= delay THEN armed ELSE delay

(* schedulePoll(delay) as the last call of an action: it reads the flags the action left. *)
SchedulePoll(delay, armed) ==
  pollTimer' = IF PollBlocked' THEN armed ELSE LaterTimer(delay, armed)

(* Mutant: the reserved lane is used whenever it has room. *)
ReservedFirst ==
  activeRelayExecutions - activeRegularRelayExecutions < ReservedLimit

reservedOnly ==
  /\ ReservedLimit > 0
  /\ activeRegularRelayExecutions >= RegularLimit
  /\ activeRelayExecutions < relayExecutionLimit

(* Mutant: only the regular lane's aliases are excluded. *)
RegularExclusions ==
  IF ReservedLimit = 0 THEN {{}} ELSE {UNION {execs[e].aliases : e \in RegularRunning}}

(* boundedRelayAgentAliases: all aliases of the running jobs, or MaxExcluded of them. *)
ExclusionLists ==
  LET active == UNION {execs[e].aliases : e \in Running}
  IN  IF ReservedLimit = 0 THEN {{}}
      ELSE IF Cardinality(active) <= MaxExcluded THEN {active}
      ELSE {X \in SUBSET active : Cardinality(X) = MaxExcluded}

-----------------------------------------------------------------------------
Init ==
  /\ up = FALSE /\ stopped = FALSE /\ startup = FALSE
  /\ revoked = FALSE /\ lifecyclePollingDisabled = FALSE /\ persistedDegraded = FALSE
  /\ heartbeat = "off" /\ timer = Off /\ pollTimer = Off
  /\ polling = FALSE /\ polls = [p \in PollIds |-> IdlePoll]
  /\ execs = [e \in ExecIds |-> IdleExec]
  /\ activeRelayExecutions = 0 /\ activeRegularRelayExecutions = 0
  /\ relayPollFailureStreak = 0 /\ relayExecutionFailureStreak = 0
  /\ owedPoll = 0 /\ owedExec = 0

(* startDaemon(): a runOnce first; its finally arms both timers. *)
StartDaemon ==
  /\ ~ up
  /\ up' = TRUE /\ startup' = TRUE /\ heartbeat' = "reading"
  /\ UNCHANGED <<stopped, revoked, lifecycleVars, timer, pollTimer, polling, polls, laneVars,
                 streakVars>>

(* The process dies: only the state file survives. *)
Crash ==
  /\ up /\ up' = FALSE /\ stopped' = FALSE /\ startup' = FALSE
  /\ revoked' = FALSE /\ lifecyclePollingDisabled' = FALSE /\ UNCHANGED persistedDegraded
  /\ heartbeat' = "off" /\ timer' = Off /\ pollTimer' = Off
  /\ polling' = FALSE /\ polls' = [p \in PollIds |-> IdlePoll]
  /\ execs' = [e \in ExecIds |-> IdleExec]
  /\ activeRelayExecutions' = 0 /\ activeRegularRelayExecutions' = 0
  /\ relayPollFailureStreak' = 0 /\ relayExecutionFailureStreak' = 0
  /\ owedPoll' = 0 /\ owedExec' = 0

(* halt(): the handle's stop().  What is in flight settles by itself. *)
Halt ==
  /\ up /\ ~ stopped
  /\ stopped' = TRUE
  /\ timer' = Off /\ pollTimer' = Off
  /\ heartbeat' = IF heartbeat = "timer" THEN "off" ELSE heartbeat
  /\ UNCHANGED <<up, startup, revoked, lifecycleVars, polling, polls, laneVars, streakVars>>

-----------------------------------------------------------------------------
(* The heartbeat: runOnce, then noteAlive or noteRevoked, then schedule(). *)

HeartbeatFires ==
  /\ timer = 0
  /\ timer' = Off /\ heartbeat' = "reading"
  /\ UNCHANGED <<processVars, revoked, lifecycleVars, pollTimer, polling, polls, laneVars,
                 streakVars>>

(* runOnce reads the lifecycle state; a read that fails counts as an empty state. *)
HeartbeatReadsState ==
  /\ heartbeat = "reading"
  /\ heartbeat' = "sending"
  /\ \E readable \in BOOLEAN :
       lifecyclePollingDisabled' = (lifecyclePollingDisabled \/ (readable /\ persistedDegraded))
  /\ UNCHANGED <<processVars, revoked, persistedDegraded, timer, pollTimer, polling, polls,
                 laneVars, streakVars>>

relayPollingIsBackedOff ==
  (relayPollFailureStreak > 0 \/ relayExecutionFailureStreak > 0) /\ ~ polling

(* Mutant: a node that is accepted again is not told to poll. *)
NotBackedOff == ~ relayPollingIsBackedOff

(* noteAlive's early return. *)
NothingToResume == ~ revoked /\ ~ relayPollingIsBackedOff

(* What noteRevoked leaves of the poll timer. *)
RevokedPollTimer == Off

(* Mutant: a revoked node has no heartbeat. *)
ScheduleUnlessRevoked ==
  /\ heartbeat' = IF stopped \/ revoked' THEN "off" ELSE "timer"
  /\ timer' = IF stopped \/ revoked' THEN Off ELSE HeartbeatInterval
  /\ startup' = FALSE

(* schedule(): the finally of every heartbeat; slower while the node is revoked. *)
ScheduleHeartbeat ==
  /\ heartbeat' = IF stopped THEN "off" ELSE "timer"
  /\ timer' = IF stopped THEN Off ELSE IF revoked' THEN RevokedRecheck ELSE HeartbeatInterval
  /\ startup' = FALSE

(* The extra schedulePoll(0) in the finally of the first runOnce. *)
StartupPoll(armed) == IF startup THEN SchedulePoll(0, armed) ELSE pollTimer' = armed

(* The gateway accepts the heartbeat: noteAlive. *)
HeartbeatAccepted ==
  /\ heartbeat = "sending"
  /\ revoked' = FALSE
  /\ UNCHANGED <<up, stopped, lifecycleVars, polling, polls, laneVars>>
  /\ IF NothingToResume
     THEN StartupPoll(pollTimer) /\ UNCHANGED streakVars
     ELSE /\ relayPollFailureStreak' = 0 /\ relayExecutionFailureStreak' = 0
          /\ owedPoll' = 0 /\ owedExec' = 0
          /\ SchedulePoll(0, Off)
  /\ ScheduleHeartbeat

(* 410: noteRevoked. *)
HeartbeatGone ==
  /\ heartbeat \in {"reading", "sending"}
  /\ revoked' = TRUE
  /\ pollTimer' = RevokedPollTimer
  /\ UNCHANGED <<up, stopped, lifecycleVars, polling, polls, laneVars, streakVars>>
  /\ ScheduleHeartbeat

(* Any other failure of runOnce is swallowed. *)
HeartbeatFails ==
  /\ heartbeat \in {"reading", "sending"}
  /\ UNCHANGED <<up, stopped, revoked, lifecycleVars, polling, polls, laneVars, streakVars>>
  /\ StartupPoll(pollTimer)
  /\ ScheduleHeartbeat

-----------------------------------------------------------------------------
(* One claim poll. *)

PollTimerFiresBlocked ==
  /\ pollTimer = 0 /\ PollBlocked
  /\ pollTimer' = Off
  /\ UNCHANGED <<processVars, revoked, lifecycleVars, heartbeat, timer, polling, polls, laneVars,
                 streakVars>>

(* poll(): lane and exclusions are fixed before anything is awaited. *)
PollBegins(p) ==
  /\ pollTimer = 0 /\ ~ PollBlocked
  /\ polls[p].stage = "idle"
  /\ pollTimer' = Off
  /\ polling' = TRUE
  /\ \E X \in ExclusionLists :
       polls' = [polls EXCEPT ![p] = [stage |-> "checking", reservedOnly |-> reservedOnly,
                                      excluded |-> X]]
  /\ UNCHANGED <<processVars, revoked, lifecycleVars, heartbeat, timer, laneVars, streakVars>>

(* The finally of poll(): the lock is free and the next poll is scheduled. *)
PollOver(p) ==
  /\ polls' = [polls EXCEPT ![p] = IdlePoll]
  /\ polling' = FALSE
  /\ UNCHANGED <<processVars, heartbeat, timer>>

(* A poll that succeeds, with a claim or without one. *)
PollSucceeds(p) ==
  /\ relayPollFailureStreak' = 0 /\ owedPoll' = 0
  /\ UNCHANGED <<relayExecutionFailureStreak, owedExec, revoked>>
  /\ PollOver(p)
  /\ SchedulePoll(currentRelayRetryDelay', pollTimer)

(* A poll that throws anything but 410. *)
PollThrows(p) ==
  /\ relayPollFailureStreak' = NextStreak(relayPollFailureStreak)
  /\ owedPoll' = pollRetryDelay(relayPollFailureStreak')
  /\ UNCHANGED <<relayExecutionFailureStreak, owedExec, revoked, laneVars>>
  /\ PollOver(p)
  /\ SchedulePoll(currentRelayRetryDelay', pollTimer)

(* pollRelayJob reads the state file and then goes to the gateway, or gives up. *)
PollChecksState(p) ==
  /\ polls[p].stage = "checking"
  /\ \E readable \in BOOLEAN :
       IF lifecyclePollingDisabled \/ (readable /\ persistedDegraded)
       THEN /\ lifecyclePollingDisabled' = TRUE
            /\ UNCHANGED <<persistedDegraded, laneVars>>
            /\ PollSucceeds(p)
       ELSE /\ polls' = [polls EXCEPT ![p].stage = "requesting"]
            /\ UNCHANGED <<processVars, revoked, lifecycleVars, heartbeat, timer, pollTimer,
                           polling, laneVars, streakVars>>

PollFails(p) ==
  /\ polls[p].stage \in {"checking", "requesting"}
  /\ UNCHANGED lifecycleVars
  /\ PollThrows(p)

PollFindsNothing(p) ==
  /\ polls[p].stage = "requesting"
  /\ UNCHANGED <<lifecycleVars, laneVars>>
  /\ PollSucceeds(p)

(* 410: noteRevoked; the finally returns early because of it. *)
PollGone(p) ==
  /\ polls[p].stage \in {"checking", "requesting"}
  /\ revoked' = TRUE
  /\ pollTimer' = RevokedPollTimer
  /\ UNCHANGED <<lifecycleVars, laneVars, streakVars>>
  /\ PollOver(p)

(* 404: markLifecycleProtocolDegraded sets the flag, then writes the file. *)
PollMismatch(p) ==
  /\ polls[p].stage = "requesting"
  /\ polls' = [polls EXCEPT ![p].stage = "marking"]
  /\ lifecyclePollingDisabled' = TRUE
  /\ UNCHANGED <<processVars, revoked, persistedDegraded, heartbeat, timer, pollTimer, polling,
                 laneVars, streakVars>>

PollMarked(p) ==
  /\ polls[p].stage = "marking"
  /\ UNCHANGED lifecyclePollingDisabled
  /\ \/ persistedDegraded' = TRUE /\ UNCHANGED laneVars /\ PollSucceeds(p)
     \/ UNCHANGED persistedDegraded /\ PollThrows(p)

(* External: the jobs the gateway may return, given the capacity that was sent. *)
GatewayMayReturn(p, urgent, aliases) ==
  /\ polls[p].reservedOnly => urgent
  /\ aliases \cap polls[p].excluded = {}

(* Mutant: the lane is chosen when the claim arrives, from all running jobs. *)
LaneAtClaim(p) == activeRelayExecutions < RegularLimit

(* The lane of a claim is the one the poll asked for. *)
ClaimLane(p) == ~ polls[p].reservedOnly

PollClaims(p, e) ==
  /\ polls[p].stage = "requesting"
  /\ execs[e].stage = "idle"
  /\ \E urgent \in BOOLEAN, aliases \in SUBSET Agents :
       /\ GatewayMayReturn(p, urgent, aliases)
       /\ execs' = [execs EXCEPT ![e] = [stage |-> "running", regular |-> ClaimLane(p),
                                         urgent |-> urgent, aliases |-> aliases]]
  /\ activeRelayExecutions' = activeRelayExecutions + 1
  /\ activeRegularRelayExecutions' = activeRegularRelayExecutions + IF ClaimLane(p) THEN 1 ELSE 0
  /\ UNCHANGED lifecycleVars
  /\ PollSucceeds(p)

-----------------------------------------------------------------------------
(* One detached execution: executeRelayJobClaim and the handlers behind it.  Its own  *)
(* steps are the module RelayJobExecution; here it runs, may meet a 404 and settles.  *)

Decremented(count) == Larger(0, count - 1)

(* start or events answers 404: the flag, then the file, then the job goes on. *)
ExecMismatch(e) ==
  /\ execs[e].stage = "running"
  /\ execs' = [execs EXCEPT ![e].stage = "marking"]
  /\ lifecyclePollingDisabled' = TRUE
  /\ UNCHANGED <<processVars, revoked, persistedDegraded, heartbeat, timer, pollTimer, polling,
                 polls, activeRelayExecutions, activeRegularRelayExecutions, streakVars>>

ExecMarked(e) ==
  /\ execs[e].stage = "marking"
  /\ execs' = [execs EXCEPT ![e].stage = "running"]
  /\ persistedDegraded' \in {persistedDegraded, TRUE}
  /\ UNCHANGED <<processVars, revoked, lifecyclePollingDisabled, heartbeat, timer, pollTimer,
                 polling, polls, activeRelayExecutions, activeRegularRelayExecutions, streakVars>>

(* The last result post answers 404: same flag, and the file before it settles. *)
ExecResultMismatch(e) ==
  /\ execs[e].stage = "running"
  /\ execs' = [execs EXCEPT ![e].stage = "closing"]
  /\ lifecyclePollingDisabled' = TRUE
  /\ UNCHANGED <<processVars, revoked, persistedDegraded, heartbeat, timer, pollTimer, polling,
                 polls, activeRelayExecutions, activeRegularRelayExecutions, streakVars>>

(* The finally of an execution: its slot is free and a poll is scheduled. *)
ExecOver(e) ==
  /\ execs' = [execs EXCEPT ![e] = IdleExec]
  /\ activeRelayExecutions' = Decremented(activeRelayExecutions)
  /\ activeRegularRelayExecutions' =
       IF execs[e].regular THEN Decremented(activeRegularRelayExecutions)
       ELSE activeRegularRelayExecutions
  /\ UNCHANGED <<processVars, lifecyclePollingDisabled, heartbeat, timer, polling, polls>>

ExecSucceeds(e) ==
  /\ \/ execs[e].stage = "running" /\ UNCHANGED persistedDegraded
     \/ execs[e].stage = "closing" /\ persistedDegraded' = TRUE
  /\ relayExecutionFailureStreak' = 0 /\ owedExec' = 0
  /\ UNCHANGED <<relayPollFailureStreak, owedPoll, revoked>>
  /\ ExecOver(e)
  /\ SchedulePoll(currentRelayRetryDelay', pollTimer)

ExecFails(e) ==
  /\ execs[e].stage \in {"running", "closing"}
  /\ relayExecutionFailureStreak' = NextStreak(relayExecutionFailureStreak)
  /\ owedExec' = pollRetryDelay(relayExecutionFailureStreak')
  /\ UNCHANGED <<relayPollFailureStreak, owedPoll, revoked, persistedDegraded>>
  /\ ExecOver(e)
  /\ SchedulePoll(currentRelayRetryDelay', pollTimer)

ExecGone(e) ==
  /\ execs[e].stage = "running"
  /\ revoked' = TRUE
  /\ UNCHANGED <<streakVars, persistedDegraded>>
  /\ ExecOver(e)
  /\ SchedulePoll(currentRelayRetryDelay', RevokedPollTimer)

-----------------------------------------------------------------------------
Elapsed(left) == IF left > 0 THEN left - 1 ELSE left

(* Time passes, but not past a timer that is due: the event loop fires it first. *)
Tick ==
  /\ timer # 0 /\ pollTimer # 0
  /\ \E left \in {timer, pollTimer, owedPoll, owedExec} : left > 0
  /\ timer' = Elapsed(timer) /\ pollTimer' = Elapsed(pollTimer)
  /\ owedPoll' = Elapsed(owedPoll) /\ owedExec' = Elapsed(owedExec)
  /\ UNCHANGED <<processVars, revoked, lifecycleVars, heartbeat, polling, polls, laneVars,
                 relayPollFailureStreak, relayExecutionFailureStreak>>

Heartbeat ==
  HeartbeatFires \/ HeartbeatReadsState \/ HeartbeatAccepted \/ HeartbeatGone \/ HeartbeatFails

PollStep(p) ==
  \/ PollBegins(p) \/ PollChecksState(p) \/ PollFails(p) \/ PollFindsNothing(p) \/ PollGone(p)
  \/ PollMismatch(p) \/ PollMarked(p) \/ \E e \in ExecIds : PollClaims(p, e)

ExecStep(e) ==
  \/ ExecMismatch(e) \/ ExecMarked(e) \/ ExecResultMismatch(e)
  \/ ExecSucceeds(e) \/ ExecFails(e) \/ ExecGone(e)

Next ==
  \/ StartDaemon \/ Crash \/ Halt \/ Tick \/ Heartbeat \/ PollTimerFiresBlocked
  \/ \E p \in PollIds : PollStep(p)
  \/ \E e \in ExecIds : ExecStep(e)

Spec == Init /\ [][Next]_vars

(* Every await settles: requests have timeouts, jobs too.  A heartbeat that is sent  *)
(* again and again is accepted some day; crashes and stop() are never owed.          *)
ExecSettles(e) == ExecSucceeds(e) \/ ExecFails(e) \/ ExecGone(e)
Fairness ==
  /\ WF_vars(Tick) /\ WF_vars(Heartbeat)
  /\ SF_vars(HeartbeatReadsState) /\ SF_vars(HeartbeatAccepted)
  /\ WF_vars(PollTimerFiresBlocked)
  /\ \A p \in PollIds : WF_vars(PollStep(p))
  /\ \A e \in ExecIds : SF_vars(ExecSettles(e))

FairSpec == Spec /\ Fairness

-----------------------------------------------------------------------------
(* Properties *)

(* The gateway cannot claim atomically, so the node never has two claim polls  *)
(* outstanding: poll, schedulePoll and the finally of poll, together.          *)
OnePollOutstanding ==
  /\ polling <=> Outstanding # {}
  /\ \A p, q \in Outstanding : p = q

(* Neither lane ever runs more jobs than it declares, although the slot is     *)
(* taken only when the claim arrives and slots are freed in the meantime.      *)
LaneCapacity ==
  /\ Cardinality(RegularRunning) <= RegularLimit
  /\ Cardinality(ReservedRunning) <= ReservedLimit

(* The two counters agree with the executions that really run, so no slot      *)
(* leaks, and the Math.max(0, ...) of the finally never hides an error.        *)
CountersExact ==
  /\ activeRelayExecutions = Cardinality(Running)
  /\ activeRegularRelayExecutions = Cardinality(RegularRunning)

(* With a reserved lane, two running jobs never share an agent: the aliases    *)
(* excluded when the poll began are still enough when its claim arrives.       *)
AgentsExclusive ==
  (ReservedLimit > 0 /\ Cardinality(Agents) <= MaxExcluded) =>
    \A d, e \in Running : d # e => execs[d].aliases \cap execs[e].aliases = {}

(* Ordinary jobs never occupy the lane held back for urgent ones.              *)
ReservedLaneIsUrgent == \A e \in ReservedRunning : execs[e].urgent

(* A node that may poll has a poll outstanding or a timer that will start one: *)
(* no order of heartbeats, claims, failures and revocations loses the wake-up. *)
NoLostWakeup ==
  (up /\ ~ startup /\ ~ PollBlocked) => pollTimer # Off

(* The relay loop implements the pool of slots: a poll books the slot of the   *)
(* job it may return, and claims, failures and crashes keep to the pool.       *)
Slots == INSTANCE RelaySlots WITH
  booked <- IF Outstanding = {} THEN "none"
            ELSE IF \E p \in Outstanding : polls[p].reservedOnly THEN "reserved" ELSE "regular",
  busy <- [lane \in {"regular", "reserved"} |->
             IF lane = "regular" THEN RegularRunning ELSE ReservedRunning]
ImplementsSlots == Slots!SlotsSpec

(* After stop() no timer is left that would keep the process or start a poll;  *)
(* a revoked node has no poll timer.                                           *)
TimersCleared ==
  /\ stopped => timer = Off /\ pollTimer = Off /\ heartbeat # "timer"
  /\ revoked => pollTimer = Off

(* A poll never starts inside the cooldown that a failed poll or a failed      *)
(* delivery imposed, unless a later success or heartbeat cancelled it: a       *)
(* successful poll in flight cannot erase a delivery failure.                  *)
CooldownRespected ==
  [][polling' /\ ~ polling => owedPoll = 0 /\ owedExec = 0]_vars

(* A node that is up, not stopped and not degraded polls again and again, also *)
(* after failures, at capacity and after a revocation that was undone.         *)
KeepsPolling ==
  []<>(polling \/ ~ up \/ stopped \/ lifecyclePollingDisabled)
=============================================================================
