------------------------- MODULE RelayDaemonProofs -------------------------
(* Theorems about RelayDaemon, for every value of its constants. *)
EXTENDS RelayDaemon, FiniteSetTheorems, TLAPS

(* Every delay is a number of ticks. *)
LEMMA DelayType ==
  \A s \in 0..MaxStreak : pollRetryDelay(s) \in Nat
BY BackoffAssumption

LEMMA LaterTimerType ==
  ASSUME NEW d \in Nat, NEW t \in Nat \cup {Off}
  PROVE  LaterTimer(d, t) \in Nat \cup {Off}
BY DEF LaterTimer, Off

(* schedulePoll leaves a timer. *)
LEMMA SchedulePollType ==
  ASSUME NEW d \in Nat, NEW t \in Nat \cup {Off}, SchedulePoll(d, t)
  PROVE  pollTimer' \in Nat \cup {Off}
BY LaterTimerType DEF SchedulePoll

LEMMA StreakType ==
  ASSUME NEW s \in 0..MaxStreak
  PROVE  NextStreak(s) \in 0..MaxStreak
BY TimesAssumption DEF NextStreak, Smaller

LEMMA RetryDelayType ==
  ASSUME NEW a \in 0..MaxStreak, NEW b \in 0..MaxStreak
  PROVE  Larger(pollRetryDelay(a), pollRetryDelay(b)) \in Nat
BY BackoffAssumption DEF Larger

-----------------------------------------------------------------------------
(* Every variable keeps its type. *)

LEMMA IdlePollType == IdlePoll \in Polls
BY DEF IdlePoll, Polls, PollStages

LEMMA IdleExecType == IdleExec \in Execs
BY DEF IdleExec, Execs, ExecStages

LEMMA ZeroStreak == 0 \in 0..MaxStreak
BY TimesAssumption

LEMMA TypeInit == Init => TypeOK
<1> SUFFICES ASSUME Init PROVE TypeOK
  OBVIOUS
<1>1. polls \in [PollIds -> Polls] /\ execs \in [ExecIds -> Execs]
  BY IdlePollType, IdleExecType DEF Init
<1> QED BY <1>1, ZeroStreak DEF Init, TypeOK, HeartbeatPhases

(* What a heartbeat leaves keeps its type. *)
LEMMA TypeHeartbeat == TypeOK /\ Heartbeat => TypeOK'
<1> SUFFICES ASSUME TypeOK, Heartbeat PROVE TypeOK'
  OBVIOUS
<1> USE TimesAssumption DEF TypeOK, vars, processVars, lifecycleVars, laneVars, streakVars, HeartbeatPhases, Off
<1>1. CASE HeartbeatFires
  BY <1>1 DEF HeartbeatFires
<1>2. CASE HeartbeatReadsState
  BY <1>2 DEF HeartbeatReadsState
<1>3. ASSUME ScheduleHeartbeat, revoked' \in BOOLEAN
      PROVE  heartbeat' \in HeartbeatPhases /\ timer' \in Nat \cup {Off} /\ startup' \in BOOLEAN
  BY <1>3 DEF ScheduleHeartbeat
<1>4. CASE HeartbeatAccepted
  <2>1. heartbeat' \in HeartbeatPhases /\ timer' \in Nat \cup {Off} /\ startup' \in BOOLEAN
    BY <1>3, <1>4 DEF HeartbeatAccepted
  <2>2. pollTimer' \in Nat \cup {Off}
    BY <1>4, SchedulePollType DEF HeartbeatAccepted, StartupPoll
  <2>3. /\ relayPollFailureStreak' \in 0..MaxStreak
        /\ relayExecutionFailureStreak' \in 0..MaxStreak
        /\ owedPoll' \in Nat /\ owedExec' \in Nat
    BY <1>4, ZeroStreak DEF HeartbeatAccepted
  <2> QED BY <1>4, <2>1, <2>2, <2>3 DEF HeartbeatAccepted
<1>5. CASE HeartbeatGone
  <2>1. heartbeat' \in HeartbeatPhases /\ timer' \in Nat \cup {Off} /\ startup' \in BOOLEAN
    BY <1>3, <1>5 DEF HeartbeatGone
  <2> QED BY <1>5, <2>1 DEF HeartbeatGone, RevokedPollTimer
<1>6. CASE HeartbeatFails
  <2>1. heartbeat' \in HeartbeatPhases /\ timer' \in Nat \cup {Off} /\ startup' \in BOOLEAN
    BY <1>3, <1>6 DEF HeartbeatFails
  <2>2. pollTimer' \in Nat \cup {Off}
    BY <1>6, SchedulePollType DEF HeartbeatFails, StartupPoll
  <2> QED BY <1>6, <2>1, <2>2 DEF HeartbeatFails
<1> QED BY <1>1, <1>2, <1>4, <1>5, <1>6 DEF Heartbeat

(* What ends a poll leaves a timer, streaks and cooldowns of their types. *)
LEMMA TypePollSucceeds ==
  ASSUME TypeOK, NEW p \in PollIds, PollSucceeds(p)
  PROVE  /\ pollTimer' \in Nat \cup {Off} /\ owedPoll' \in Nat /\ owedExec' \in Nat
         /\ relayPollFailureStreak' \in 0..MaxStreak
         /\ relayExecutionFailureStreak' \in 0..MaxStreak
         /\ polls' \in [PollIds -> Polls] /\ polling' \in BOOLEAN
<1>1. /\ relayPollFailureStreak' \in 0..MaxStreak
      /\ relayExecutionFailureStreak' \in 0..MaxStreak
  BY TimesAssumption DEF PollSucceeds, TypeOK
<1>2. currentRelayRetryDelay' \in Nat
  BY <1>1, RetryDelayType DEF currentRelayRetryDelay
<1>3. pollTimer' \in Nat \cup {Off}
  BY <1>2, SchedulePollType DEF PollSucceeds, TypeOK
<1> QED BY <1>1, <1>3, IdlePollType DEF PollSucceeds, PollOver, TypeOK

LEMMA TypePollThrows ==
  ASSUME TypeOK, NEW p \in PollIds, PollThrows(p)
  PROVE  /\ pollTimer' \in Nat \cup {Off} /\ owedPoll' \in Nat /\ owedExec' \in Nat
         /\ relayPollFailureStreak' \in 0..MaxStreak
         /\ relayExecutionFailureStreak' \in 0..MaxStreak
         /\ polls' \in [PollIds -> Polls] /\ polling' \in BOOLEAN
<1>1. /\ relayPollFailureStreak' \in 0..MaxStreak
      /\ relayExecutionFailureStreak' \in 0..MaxStreak
  BY StreakType DEF PollThrows, TypeOK
<1>2. currentRelayRetryDelay' \in Nat
  BY <1>1, RetryDelayType DEF currentRelayRetryDelay
<1>3. pollTimer' \in Nat \cup {Off}
  BY <1>2, SchedulePollType DEF PollThrows, TypeOK
<1>4. owedPoll' \in Nat
  BY <1>1, DelayType DEF PollThrows
<1> QED BY <1>1, <1>3, <1>4, IdlePollType DEF PollThrows, PollOver, TypeOK

(* A poll's stage changes within the type of a poll. *)
LEMMA StageType ==
  ASSUME NEW q \in Polls, NEW s \in PollStages
  PROVE  [q EXCEPT !.stage = s] \in Polls
BY DEF Polls

LEMMA ExecStageType ==
  ASSUME NEW x \in Execs, NEW s \in ExecStages
  PROVE  [x EXCEPT !.stage = s] \in Execs
BY DEF Execs

(* The lists of aliases a poll may exclude are lists of agents. *)
LEMMA ExclusionType ==
  ASSUME TypeOK, NEW X \in ExclusionLists
  PROVE  X \in SUBSET Agents
<1>1. UNION {execs[e].aliases : e \in Running} \in SUBSET Agents
  BY DEF TypeOK, Execs, Running
<1> QED BY <1>1 DEF ExclusionLists

LEMMA TypePoll == \A p \in PollIds : TypeOK /\ PollStep(p) => TypeOK'
<1> SUFFICES ASSUME NEW p \in PollIds, TypeOK, PollStep(p) PROVE TypeOK'
  OBVIOUS
<1> USE DEF vars, processVars, lifecycleVars, laneVars, streakVars
<1>1. CASE PollBegins(p)
  <2>1. PICK X \in ExclusionLists :
          polls' = [polls EXCEPT ![p] = [stage |-> "checking", reservedOnly |-> reservedOnly,
                                         excluded |-> X]]
    BY <1>1 DEF PollBegins
  <2>2. reservedOnly \in BOOLEAN
    BY DEF reservedOnly
  <2>3. polls' \in [PollIds -> Polls]
    BY <2>1, <2>2, ExclusionType DEF TypeOK, Polls, PollStages
  <2> QED BY <1>1, <2>3 DEF PollBegins, TypeOK, Off
<1>2. CASE PollChecksState(p)
  <2>1. CASE PollSucceeds(p) /\ lifecyclePollingDisabled' = TRUE
             /\ UNCHANGED <<persistedDegraded, laneVars>>
    BY <2>1, TypePollSucceeds DEF TypeOK, PollSucceeds, PollOver
  <2>2. CASE /\ polls' = [polls EXCEPT ![p].stage = "requesting"]
             /\ UNCHANGED <<processVars, revoked, lifecycleVars, heartbeat, timer, pollTimer,
                            polling, laneVars, streakVars>>
    <3>1. polls' \in [PollIds -> Polls]
      BY <2>2, StageType DEF TypeOK, PollStages
    <3> QED BY <2>2, <3>1 DEF TypeOK
  <2> QED BY <1>2, <2>1, <2>2 DEF PollChecksState
<1>3. CASE PollFails(p)
  BY <1>3, TypePollThrows DEF TypeOK, PollFails, PollThrows, PollOver
<1>4. CASE PollFindsNothing(p)
  BY <1>4, TypePollSucceeds DEF TypeOK, PollFindsNothing, PollSucceeds, PollOver
<1>5. CASE PollGone(p)
  BY <1>5, IdlePollType DEF TypeOK, PollGone, PollOver, RevokedPollTimer, Off
<1>6. CASE PollMismatch(p)
  <2>1. polls' \in [PollIds -> Polls]
    BY <1>6, StageType DEF PollMismatch, TypeOK, PollStages
  <2> QED BY <1>6, <2>1 DEF PollMismatch, TypeOK
<1>7. CASE PollMarked(p)
  BY <1>7, TypePollSucceeds, TypePollThrows DEF TypeOK, PollMarked, PollSucceeds, PollThrows, PollOver
<1>8. ASSUME NEW e \in ExecIds, PollClaims(p, e) PROVE TypeOK'
  <2>1. PICK urgent \in BOOLEAN, aliases \in SUBSET Agents :
          execs' = [execs EXCEPT ![e] = [stage |-> "running", regular |-> ClaimLane(p),
                                         urgent |-> urgent, aliases |-> aliases]]
    BY <1>8 DEF PollClaims
  <2>2. execs' \in [ExecIds -> Execs]
    BY <2>1 DEF TypeOK, Execs, ExecStages, ClaimLane
  <2>3. activeRelayExecutions' \in Nat /\ activeRegularRelayExecutions' \in Nat
    BY <1>8 DEF PollClaims, TypeOK
  <2> QED BY <1>8, <2>2, <2>3, TypePollSucceeds DEF TypeOK, PollClaims, PollSucceeds, PollOver
<1> QED BY <1>1, <1>2, <1>3, <1>4, <1>5, <1>6, <1>7, <1>8 DEF PollStep

LEMMA TypeExec == \A e \in ExecIds : TypeOK /\ ExecStep(e) => TypeOK'
<1> SUFFICES ASSUME NEW e \in ExecIds, TypeOK, ExecStep(e) PROVE TypeOK'
  OBVIOUS
<1> USE DEF vars, processVars, lifecycleVars, laneVars, streakVars
<1>1. CASE ExecMismatch(e)
  <2>1. execs' \in [ExecIds -> Execs]
    BY <1>1, ExecStageType DEF ExecMismatch, TypeOK, ExecStages
  <2> QED BY <1>1, <2>1 DEF ExecMismatch, TypeOK
<1>2. CASE ExecMarked(e)
  <2>1. execs' \in [ExecIds -> Execs]
    BY <1>2, ExecStageType DEF ExecMarked, TypeOK, ExecStages
  <2> QED BY <1>2, <2>1 DEF ExecMarked, TypeOK
<1>3. CASE ExecResultMismatch(e)
  <2>1. execs' \in [ExecIds -> Execs]
    BY <1>3, ExecStageType DEF ExecResultMismatch, TypeOK, ExecStages
  <2> QED BY <1>3, <2>1 DEF ExecResultMismatch, TypeOK
<1>4. ASSUME ExecOver(e)
      PROVE  /\ execs' \in [ExecIds -> Execs]
             /\ activeRelayExecutions' \in Nat /\ activeRegularRelayExecutions' \in Nat
  BY <1>4, IdleExecType DEF ExecOver, TypeOK, Decremented, Larger
<1>5. ASSUME relayPollFailureStreak' \in 0..MaxStreak,
             relayExecutionFailureStreak' \in 0..MaxStreak,
             NEW t \in Nat \cup {Off}, SchedulePoll(currentRelayRetryDelay', t)
      PROVE  pollTimer' \in Nat \cup {Off}
  <2>1. currentRelayRetryDelay' \in Nat
    BY <1>5, RetryDelayType DEF currentRelayRetryDelay
  <2> QED BY <1>5, <2>1, SchedulePollType
<1>6. CASE ExecSucceeds(e)
  <2>1. relayPollFailureStreak' \in 0..MaxStreak /\ relayExecutionFailureStreak' \in 0..MaxStreak
    BY <1>6, TimesAssumption DEF ExecSucceeds, TypeOK
  <2>2. pollTimer' \in Nat \cup {Off}
    BY <1>5, <1>6, <2>1 DEF ExecSucceeds, TypeOK
  <2> QED BY <1>4, <1>6, <2>1, <2>2 DEF ExecSucceeds, ExecOver, TypeOK
<1>7. CASE ExecFails(e)
  <2>1. relayPollFailureStreak' \in 0..MaxStreak /\ relayExecutionFailureStreak' \in 0..MaxStreak
    BY <1>7, StreakType DEF ExecFails, TypeOK
  <2>2. pollTimer' \in Nat \cup {Off}
    BY <1>5, <1>7, <2>1 DEF ExecFails, TypeOK
  <2>3. owedExec' \in Nat
    BY <1>7, <2>1, DelayType DEF ExecFails
  <2> QED BY <1>4, <1>7, <2>1, <2>2, <2>3 DEF ExecFails, ExecOver, TypeOK
<1>8. CASE ExecGone(e)
  <2>1. relayPollFailureStreak' \in 0..MaxStreak /\ relayExecutionFailureStreak' \in 0..MaxStreak
    BY <1>8 DEF ExecGone, TypeOK
  <2>2. pollTimer' \in Nat \cup {Off}
    BY <1>5, <1>8, <2>1 DEF ExecGone, RevokedPollTimer
  <2> QED BY <1>4, <1>8, <2>1, <2>2 DEF ExecGone, ExecOver, TypeOK
<1> QED BY <1>1, <1>2, <1>3, <1>6, <1>7, <1>8 DEF ExecStep

LEMMA TypeNext == TypeOK /\ [Next]_vars => TypeOK'
<1> SUFFICES ASSUME TypeOK, [Next]_vars PROVE TypeOK'
  OBVIOUS
<1> USE DEF vars, processVars, lifecycleVars, laneVars, streakVars
<1>1. CASE StartDaemon
  BY <1>1 DEF StartDaemon, TypeOK, HeartbeatPhases
<1>2. CASE Crash
  <2>1. polls' \in [PollIds -> Polls] /\ execs' \in [ExecIds -> Execs]
    BY <1>2, IdlePollType, IdleExecType DEF Crash
  <2> QED BY <1>2, <2>1, ZeroStreak DEF Crash, TypeOK, HeartbeatPhases
<1>3. CASE Halt
  BY <1>3 DEF Halt, TypeOK, HeartbeatPhases, Off
<1>4. CASE Tick
  <2>1. \A left \in Nat \cup {Off} : Elapsed(left) \in Nat \cup {Off}
    BY DEF Elapsed, Off
  <2>2. \A left \in Nat : Elapsed(left) \in Nat
    BY DEF Elapsed
  <2> QED BY <1>4, <2>1, <2>2 DEF Tick, TypeOK
<1>5. CASE PollTimerFiresBlocked
  BY <1>5 DEF PollTimerFiresBlocked, TypeOK, Off
<1>6. CASE UNCHANGED vars
  BY <1>6 DEF TypeOK
<1> QED BY <1>1, <1>2, <1>3, <1>4, <1>5, <1>6, TypeHeartbeat, TypePoll, TypeExec DEF Next

(* TypeOK holds in every state of every behaviour. *)
THEOREM TypeCorrect == Spec => []TypeOK
<1>1. Init => TypeOK
  BY TypeInit
<1>2. TypeOK /\ [Next]_vars => TypeOK'
  BY TypeNext
<1> QED BY <1>1, <1>2, PTL DEF Spec

-----------------------------------------------------------------------------
(* One poll at a time.                                                     *)

(* A chain that moves to another stage is still the only one outstanding. *)
LEMMA StageMove ==
  ASSUME TypeOK, NEW p \in PollIds, polls[p].stage # "idle",
         NEW s \in PollStages, s # "idle", polls' = [polls EXCEPT ![p].stage = s]
  PROVE  /\ Outstanding' = Outstanding
         /\ \A q \in PollIds : polls'[q].reservedOnly = polls[q].reservedOnly
         /\ \A q \in PollIds : polls'[q].excluded = polls[q].excluded
BY DEF Outstanding, TypeOK, Polls

(* The finally of the only chain leaves none. *)
LEMMA NoneLeft ==
  ASSUME TypeOK, OnePollOutstanding, NEW p \in PollIds, polls[p].stage # "idle", PollOver(p)
  PROVE  Outstanding' = {} /\ ~ polling'
BY DEF OnePollOutstanding, Outstanding, PollOver, TypeOK, IdlePoll

(* Each step of a chain that is outstanding either keeps it outstanding, with its lane *)
(* and exclusions, or is the last one.                                                  *)
LEMMA ChainStep ==
  ASSUME TypeOK, OnePollOutstanding, NEW p \in PollIds, PollStep(p), ~ PollBegins(p)
  PROVE  \/ /\ Outstanding' = Outstanding /\ polling' = polling
            /\ \A q \in PollIds : /\ polls'[q].reservedOnly = polls[q].reservedOnly
                                  /\ polls'[q].excluded = polls[q].excluded
            /\ UNCHANGED laneVars
         \/ Outstanding' = {} /\ ~ polling'
<1>1. ASSUME PollSucceeds(p) \/ PollThrows(p), polls[p].stage # "idle"
      PROVE  Outstanding' = {} /\ ~ polling'
  BY <1>1, NoneLeft DEF PollSucceeds, PollThrows
<1>2. CASE PollChecksState(p)
  <2>1. CASE PollSucceeds(p)
    BY <1>1, <1>2, <2>1 DEF PollChecksState
  <2>2. CASE /\ polls' = [polls EXCEPT ![p].stage = "requesting"]
             /\ UNCHANGED <<processVars, revoked, lifecycleVars, heartbeat, timer, pollTimer,
                            polling, laneVars, streakVars>>
    BY <1>2, <2>2, StageMove DEF PollChecksState, PollStages
  <2> QED BY <1>2, <2>1, <2>2 DEF PollChecksState
<1>3. CASE PollFails(p)
  BY <1>1, <1>3 DEF PollFails
<1>4. CASE PollFindsNothing(p)
  BY <1>1, <1>4 DEF PollFindsNothing
<1>5. CASE PollGone(p)
  BY <1>5, NoneLeft DEF PollGone
<1>6. CASE PollMismatch(p)
  BY <1>6, StageMove DEF PollMismatch, PollStages
<1>7. CASE PollMarked(p)
  BY <1>1, <1>7 DEF PollMarked
<1>8. CASE \E e \in ExecIds : PollClaims(p, e)
  BY <1>1, <1>8 DEF PollClaims
<1> QED BY <1>2, <1>3, <1>4, <1>5, <1>6, <1>7, <1>8 DEF PollStep

(* The steps that are not steps of a chain leave the chains alone, or forget them all. *)
LEMMA OtherStep ==
  ASSUME TypeOK, [Next]_vars, ~ \E p \in PollIds : PollStep(p)
  PROVE  UNCHANGED <<polls, polling>> \/ Crash
<1> USE DEF vars, processVars, lifecycleVars, laneVars, streakVars
<1>1. CASE Heartbeat
  BY <1>1 DEF Heartbeat, HeartbeatFires, HeartbeatReadsState, HeartbeatAccepted, HeartbeatGone,
              HeartbeatFails
<1>2. CASE \E e \in ExecIds : ExecStep(e)
  BY <1>2 DEF ExecStep, ExecMismatch, ExecMarked, ExecResultMismatch, ExecSucceeds, ExecFails,
              ExecGone, ExecOver
<1>3. CASE StartDaemon \/ Halt \/ Tick \/ PollTimerFiresBlocked \/ UNCHANGED vars
  BY <1>3 DEF StartDaemon, Halt, Tick, PollTimerFiresBlocked
<1> QED BY <1>1, <1>2, <1>3 DEF Next

LEMMA OnePollNext == TypeOK /\ OnePollOutstanding /\ [Next]_vars => OnePollOutstanding'
<1> SUFFICES ASSUME TypeOK, OnePollOutstanding, [Next]_vars PROVE OnePollOutstanding'
  OBVIOUS
<1>1. ASSUME NEW p \in PollIds, PollBegins(p) PROVE OnePollOutstanding'
  <2>1. Outstanding = {}
    BY <1>1 DEF PollBegins, PollBlocked, OnePollOutstanding
  <2>2. Outstanding' = {p} /\ polling'
    BY <1>1, <2>1 DEF PollBegins, Outstanding, TypeOK
  <2> QED BY <2>2 DEF OnePollOutstanding
<1>2. ASSUME NEW p \in PollIds, PollStep(p), ~ PollBegins(p) PROVE OnePollOutstanding'
  BY <1>2, ChainStep DEF OnePollOutstanding
<1>3. CASE Crash
  BY <1>3 DEF Crash, OnePollOutstanding, Outstanding, IdlePoll
<1>4. CASE UNCHANGED <<polls, polling>>
  BY <1>4 DEF OnePollOutstanding, Outstanding
<1> QED BY <1>1, <1>2, <1>3, <1>4, OtherStep

(* The gateway never sees two claim polls of one node at a time. *)
THEOREM OnePoll == Spec => []OnePollOutstanding
<1>1. Init => OnePollOutstanding
  BY DEF Init, OnePollOutstanding, Outstanding, IdlePoll
<1>2. TypeOK /\ OnePollOutstanding /\ [Next]_vars => OnePollOutstanding'
  BY OnePollNext
<1> QED BY <1>1, <1>2, TypeCorrect, PTL DEF Spec

-----------------------------------------------------------------------------
(* The lanes.  A claim takes its slot only when it arrives, so LaneCapacity alone is  *)
(* not inductive: while a poll is outstanding, the lane it asked for keeps a free     *)
(* slot, because nothing else can take one and running jobs only give slots back.     *)

SlotBooked ==
  \A p \in Outstanding :
    IF polls[p].reservedOnly THEN Cardinality(ReservedRunning) < ReservedLimit
    ELSE Cardinality(RegularRunning) < RegularLimit

LaneInv == CountersExact /\ LaneCapacity /\ SlotBooked

(* The two lanes split the executions that run. *)
LEMMA LaneSets ==
  /\ IsFiniteSet(Running) /\ IsFiniteSet(RegularRunning) /\ IsFiniteSet(ReservedRunning)
  /\ Cardinality(Running) \in Nat
  /\ Cardinality(RegularRunning) \in Nat /\ Cardinality(ReservedRunning) \in Nat
  /\ Cardinality(Running) = Cardinality(RegularRunning) + Cardinality(ReservedRunning)
<1>1. IsFiniteSet(Running)
  BY IdsAssumption, FS_Subset DEF Running
<1>2. IsFiniteSet(RegularRunning) /\ IsFiniteSet(ReservedRunning)
  BY <1>1, FS_Subset DEF RegularRunning, ReservedRunning
<1>3. Running = RegularRunning \cup ReservedRunning /\ RegularRunning \cap ReservedRunning = {}
  BY DEF RegularRunning, ReservedRunning
<1>4. /\ Cardinality(Running) \in Nat /\ Cardinality(RegularRunning) \in Nat
      /\ Cardinality(ReservedRunning) \in Nat
  BY <1>1, <1>2, FS_CardinalityType
<1>5. Cardinality(RegularRunning \cup ReservedRunning) =
        Cardinality(RegularRunning) + Cardinality(ReservedRunning)
        - Cardinality(RegularRunning \cap ReservedRunning)
  BY <1>2, FS_Union
<1>6. Cardinality(RegularRunning \cap ReservedRunning) = 0
  BY <1>3, FS_EmptySet
<1> QED BY <1>1, <1>2, <1>3, <1>4, <1>5, <1>6

(* An execution that moves to another stage stays in its lane. *)
LEMMA ExecStageMove ==
  ASSUME TypeOK, NEW e \in ExecIds, execs[e].stage # "idle",
         NEW s \in ExecStages, s # "idle", execs' = [execs EXCEPT ![e].stage = s]
  PROVE  /\ Running' = Running /\ RegularRunning' = RegularRunning
         /\ ReservedRunning' = ReservedRunning
         /\ \A d \in ExecIds : /\ execs'[d].aliases = execs[d].aliases
                               /\ execs'[d].urgent = execs[d].urgent
<1>1. /\ \A d \in ExecIds : /\ execs'[d].regular = execs[d].regular
                            /\ execs'[d].aliases = execs[d].aliases
                            /\ execs'[d].urgent = execs[d].urgent
                            /\ (execs'[d].stage = "idle" <=> execs[d].stage = "idle")
  BY DEF TypeOK, Execs
<1> QED BY <1>1 DEF Running, RegularRunning, ReservedRunning

(* The finally of an execution takes it, and only it, out of its lane. *)
LEMMA ExecOverSets ==
  ASSUME TypeOK, NEW e \in ExecIds, execs[e].stage # "idle", ExecOver(e)
  PROVE  /\ Running' = Running \ {e} /\ RegularRunning' = RegularRunning \ {e}
         /\ ReservedRunning' = ReservedRunning \ {e}
         /\ \A d \in ExecIds \ {e} : execs'[d] = execs[d]
<1>1. execs'[e].stage = "idle" /\ \A d \in ExecIds \ {e} : execs'[d] = execs[d]
  BY DEF ExecOver, TypeOK, IdleExec
<1> QED BY <1>1 DEF Running, RegularRunning, ReservedRunning

(* A claim adds one execution to the lane its poll asked for. *)
LEMMA ClaimSets ==
  ASSUME TypeOK, NEW p \in PollIds, NEW e \in ExecIds, PollClaims(p, e)
  PROVE  /\ e \notin Running /\ Running' = Running \cup {e}
         /\ RegularRunning' = IF ClaimLane(p) THEN RegularRunning \cup {e} ELSE RegularRunning
         /\ ReservedRunning' = IF ClaimLane(p) THEN ReservedRunning ELSE ReservedRunning \cup {e}
<1>1. PICK urgent \in BOOLEAN, aliases \in SUBSET Agents :
        execs' = [execs EXCEPT ![e] = [stage |-> "running", regular |-> ClaimLane(p),
                                       urgent |-> urgent, aliases |-> aliases]]
  BY DEF PollClaims
<1>2. /\ execs'[e].stage = "running" /\ execs'[e].regular = ClaimLane(p)
      /\ \A d \in ExecIds \ {e} : execs'[d] = execs[d]
  BY <1>1 DEF TypeOK
<1>3. execs[e].stage = "idle"
  BY DEF PollClaims
<1> QED BY <1>2, <1>3 DEF Running, RegularRunning, ReservedRunning

(* Fewer chains and the same executions keep the invariant. *)
LEMMA LaneKept ==
  ASSUME LaneInv, UNCHANGED laneVars, Outstanding' \subseteq Outstanding,
         \A q \in Outstanding' : polls'[q].reservedOnly = polls[q].reservedOnly
  PROVE  LaneInv'
<1>1. Running' = Running /\ RegularRunning' = RegularRunning /\ ReservedRunning' = ReservedRunning
  BY DEF laneVars, Running, RegularRunning, ReservedRunning
<1> QED BY <1>1 DEF LaneInv, CountersExact, LaneCapacity, SlotBooked, laneVars

(* An execution that gives its slot back. *)
LEMMA LaneReleased ==
  ASSUME TypeOK, LaneInv, NEW e \in ExecIds, execs[e].stage # "idle", ExecOver(e)
  PROVE  LaneInv'
<1>1. /\ Running' = Running \ {e} /\ RegularRunning' = RegularRunning \ {e}
      /\ ReservedRunning' = ReservedRunning \ {e}
  BY ExecOverSets
<1>2. /\ e \in Running /\ (e \in RegularRunning <=> execs[e].regular)
      /\ (e \in ReservedRunning <=> ~ execs[e].regular)
  BY DEF Running, RegularRunning, ReservedRunning
<1>3. /\ Cardinality(Running') = Cardinality(Running) - 1
      /\ Cardinality(RegularRunning') =
           IF execs[e].regular THEN Cardinality(RegularRunning) - 1 ELSE Cardinality(RegularRunning)
      /\ Cardinality(ReservedRunning') =
           IF execs[e].regular THEN Cardinality(ReservedRunning)
           ELSE Cardinality(ReservedRunning) - 1
  BY <1>1, <1>2, LaneSets, FS_RemoveElement
<1>4. Cardinality(Running) > 0 /\ (execs[e].regular => Cardinality(RegularRunning) > 0)
  BY <1>2, LaneSets, FS_EmptySet
<1>5. CountersExact'
  BY <1>3, <1>4, LaneSets DEF LaneInv, CountersExact, ExecOver, Decremented, Larger
<1>6. LaneCapacity'
  BY <1>3, LaneSets, LimitsAssumption DEF LaneInv, LaneCapacity
<1>7. Outstanding' = Outstanding /\ polls' = polls
  BY DEF ExecOver, Outstanding
<1>8. SlotBooked'
  BY <1>3, <1>7, LaneSets, LimitsAssumption DEF LaneInv, SlotBooked
<1> QED BY <1>5, <1>6, <1>8 DEF LaneInv

(* A claim takes the slot that was kept for it. *)
LEMMA LaneTaken ==
  ASSUME TypeOK, OnePollOutstanding, LaneInv, NEW p \in PollIds, NEW e \in ExecIds,
         PollClaims(p, e)
  PROVE  LaneInv'
<1>1. /\ e \notin Running /\ Running' = Running \cup {e}
      /\ RegularRunning' = IF ClaimLane(p) THEN RegularRunning \cup {e} ELSE RegularRunning
      /\ ReservedRunning' = IF ClaimLane(p) THEN ReservedRunning ELSE ReservedRunning \cup {e}
  BY ClaimSets
<1>2. e \notin RegularRunning /\ e \notin ReservedRunning
  BY <1>1 DEF RegularRunning, ReservedRunning
<1>3. /\ Cardinality(Running') = Cardinality(Running) + 1
      /\ Cardinality(RegularRunning') =
           IF ClaimLane(p) THEN Cardinality(RegularRunning) + 1 ELSE Cardinality(RegularRunning)
      /\ Cardinality(ReservedRunning') =
           IF ClaimLane(p) THEN Cardinality(ReservedRunning) ELSE Cardinality(ReservedRunning) + 1
  BY <1>1, <1>2, LaneSets, FS_AddElement
<1>4. CountersExact'
  BY <1>3, LaneSets DEF LaneInv, CountersExact, PollClaims
<1>5. p \in Outstanding
  BY DEF PollClaims, Outstanding
<1>6. LaneCapacity'
  BY <1>3, <1>5, LaneSets, LimitsAssumption DEF LaneInv, LaneCapacity, SlotBooked, ClaimLane
<1>7. Outstanding' = {}
  BY <1>5, NoneLeft DEF PollClaims, PollSucceeds, Outstanding
<1>8. SlotBooked'
  BY <1>7 DEF SlotBooked
<1> QED BY <1>4, <1>6, <1>8 DEF LaneInv

(* A poll starts only when the lane it asks for has a free slot. *)
LEMMA LaneBooked ==
  ASSUME TypeOK, OnePollOutstanding, LaneInv, NEW p \in PollIds, PollBegins(p)
  PROVE  LaneInv'
<1>1. Outstanding' = {p} /\ polls'[p].reservedOnly = reservedOnly
  BY DEF PollBegins, PollBlocked, OnePollOutstanding, Outstanding, TypeOK
<1>2. UNCHANGED laneVars
  BY DEF PollBegins
<1>3. Running' = Running /\ RegularRunning' = RegularRunning /\ ReservedRunning' = ReservedRunning
  BY <1>2 DEF laneVars, Running, RegularRunning, ReservedRunning
<1>4. activeRelayExecutions < RegularLimit + ReservedLimit
  BY LimitsAssumption DEF PollBegins, PollBlocked, relayExecutionLimit, TypeOK
<1>5. IF reservedOnly THEN Cardinality(ReservedRunning) < ReservedLimit
      ELSE Cardinality(RegularRunning) < RegularLimit
  BY <1>4, LaneSets, LimitsAssumption
  DEF reservedOnly, relayExecutionLimit, LaneInv, LaneCapacity, CountersExact
<1>6. SlotBooked'
  BY <1>1, <1>3, <1>5 DEF SlotBooked
<1> QED BY <1>2, <1>3, <1>6 DEF LaneInv, CountersExact, LaneCapacity, laneVars

LEMMA LaneInit == Init => LaneInv
<1> SUFFICES ASSUME Init PROVE LaneInv
  OBVIOUS
<1>1. Running = {} /\ RegularRunning = {} /\ ReservedRunning = {} /\ Outstanding = {}
  BY DEF Init, Running, RegularRunning, ReservedRunning, Outstanding, IdlePoll, IdleExec
<1> QED BY <1>1, FS_EmptySet, LimitsAssumption
        DEF Init, LaneInv, CountersExact, LaneCapacity, SlotBooked

LEMMA LaneNext == TypeOK /\ OnePollOutstanding /\ LaneInv /\ [Next]_vars => LaneInv'
<1> SUFFICES ASSUME TypeOK, OnePollOutstanding, LaneInv, [Next]_vars PROVE LaneInv'
  OBVIOUS
<1>1. ASSUME NEW p \in PollIds, PollStep(p) PROVE LaneInv'
  <2>1. CASE PollBegins(p)
    BY <2>1, LaneBooked
  <2>2. CASE \E e \in ExecIds : PollClaims(p, e)
    BY <2>2, LaneTaken
  <2>3. CASE ~ PollBegins(p) /\ ~ \E e \in ExecIds : PollClaims(p, e)
    <3>1. UNCHANGED laneVars
      BY <1>1, <2>3 DEF PollStep, PollChecksState, PollFails, PollThrows, PollFindsNothing,
                        PollGone, PollMismatch, PollMarked
    <3>2. /\ Outstanding' \subseteq Outstanding
          /\ \A q \in Outstanding' : polls'[q].reservedOnly = polls[q].reservedOnly
      BY <1>1, <2>3, ChainStep DEF Outstanding
    <3> QED BY <3>1, <3>2, LaneKept
  <2> QED BY <2>1, <2>2, <2>3
<1>2. ASSUME NEW e \in ExecIds, ExecStep(e) PROVE LaneInv'
  <2>1. ASSUME NEW s \in ExecStages, s # "idle", execs[e].stage # "idle",
               execs' = [execs EXCEPT ![e].stage = s],
               UNCHANGED <<polls, activeRelayExecutions, activeRegularRelayExecutions>>
        PROVE  LaneInv'
    <3>1. /\ Running' = Running /\ RegularRunning' = RegularRunning
          /\ ReservedRunning' = ReservedRunning /\ Outstanding' = Outstanding
      BY <2>1, ExecStageMove DEF Outstanding
    <3> QED BY <2>1, <3>1 DEF LaneInv, CountersExact, LaneCapacity, SlotBooked
  <2>2. CASE ExecMismatch(e)
    BY <2>1, <2>2 DEF ExecMismatch, ExecStages
  <2>3. CASE ExecMarked(e)
    BY <2>1, <2>3 DEF ExecMarked, ExecStages
  <2>4. CASE ExecResultMismatch(e)
    BY <2>1, <2>4 DEF ExecResultMismatch, ExecStages
  <2>5. CASE ExecSucceeds(e) \/ ExecFails(e) \/ ExecGone(e)
    BY <2>5, LaneReleased DEF ExecSucceeds, ExecFails, ExecGone
  <2> QED BY <1>2, <2>2, <2>3, <2>4, <2>5 DEF ExecStep
<1>3. CASE Crash
  <2>1. Running' = {} /\ RegularRunning' = {} /\ ReservedRunning' = {} /\ Outstanding' = {}
    BY <1>3 DEF Crash, Running, RegularRunning, ReservedRunning, Outstanding, IdlePoll, IdleExec
  <2> QED BY <1>3, <2>1, FS_EmptySet, LimitsAssumption
          DEF Crash, LaneInv, CountersExact, LaneCapacity, SlotBooked
<1>4. CASE ~ (\E p \in PollIds : PollStep(p)) /\ ~ (\E e \in ExecIds : ExecStep(e)) /\ ~ Crash
  <2>1. UNCHANGED <<polls, polling>>
    BY <1>4, OtherStep
  <2>2. UNCHANGED laneVars
    BY <1>4 DEF Next, vars, Heartbeat, HeartbeatFires, HeartbeatReadsState, HeartbeatAccepted,
                HeartbeatGone, HeartbeatFails, StartDaemon, Halt, Tick, PollTimerFiresBlocked
  <2> QED BY <2>1, <2>2, LaneKept DEF Outstanding
<1> QED BY <1>1, <1>2, <1>3, <1>4

LEMMA LaneAlways == Spec => []LaneInv
<1>1. Init => LaneInv
  BY LaneInit
<1>2. TypeOK /\ OnePollOutstanding /\ LaneInv /\ [Next]_vars => LaneInv'
  BY LaneNext
<1> QED BY <1>1, <1>2, TypeCorrect, OnePoll, PTL DEF Spec

(* Neither lane ever runs more jobs than its limit. *)
THEOREM Capacity == Spec => []LaneCapacity
<1>1. LaneInv => LaneCapacity
  BY DEF LaneInv
<1> QED BY <1>1, LaneAlways, PTL

(* The counters always agree with the executions that run. *)
THEOREM Counters == Spec => []CountersExact
<1>1. LaneInv => CountersExact
  BY DEF LaneInv
<1> QED BY <1>1, LaneAlways, PTL

-----------------------------------------------------------------------------
(* Timers and the wake-up. *)

(* schedulePoll arms nothing while the node is stopped or revoked. *)
LEMMA ClearedStays ==
  ASSUME NEW d, NEW t, SchedulePoll(d, t), stopped' \/ revoked'
  PROVE  pollTimer' = t
BY DEF SchedulePoll, PollBlocked

LEMMA ClearedHeartbeat == TimersCleared /\ Heartbeat => TimersCleared'
<1> SUFFICES ASSUME TimersCleared, Heartbeat PROVE TimersCleared'
  OBVIOUS
<1> USE DEF TimersCleared, processVars, lifecycleVars, laneVars, streakVars
<1>1. CASE HeartbeatFires
  BY <1>1 DEF HeartbeatFires, Off
<1>2. CASE HeartbeatReadsState
  BY <1>2 DEF HeartbeatReadsState
<1>3. ASSUME ScheduleHeartbeat, UNCHANGED stopped, stopped \/ revoked' => pollTimer' = Off
      PROVE  TimersCleared'
  BY <1>3 DEF ScheduleHeartbeat
<1>4. CASE HeartbeatAccepted
  <2>1. stopped => pollTimer' = Off
    BY <1>4, ClearedStays DEF HeartbeatAccepted, StartupPoll
  <2> QED BY <1>3, <1>4, <2>1 DEF HeartbeatAccepted
<1>5. CASE HeartbeatGone
  BY <1>3, <1>5 DEF HeartbeatGone, RevokedPollTimer
<1>6. CASE HeartbeatFails
  <2>1. stopped \/ revoked' => pollTimer' = Off
    BY <1>6, ClearedStays DEF HeartbeatFails, StartupPoll
  <2> QED BY <1>3, <1>6, <2>1 DEF HeartbeatFails
<1> QED BY <1>1, <1>2, <1>4, <1>5, <1>6 DEF Heartbeat

LEMMA ClearedNext == TimersCleared /\ [Next]_vars => TimersCleared'
<1> SUFFICES ASSUME TimersCleared, [Next]_vars PROVE TimersCleared'
  OBVIOUS
<1> USE DEF TimersCleared, vars, processVars, lifecycleVars, laneVars, streakVars
<1>1. CASE StartDaemon
  BY <1>1 DEF StartDaemon
<1>2. CASE Crash
  BY <1>2 DEF Crash
<1>3. CASE Halt
  BY <1>3 DEF Halt
<1>4. CASE Tick
  BY <1>4 DEF Tick, Elapsed, Off
<1>5. CASE PollTimerFiresBlocked
  BY <1>5 DEF PollTimerFiresBlocked
<1>6. ASSUME NEW p \in PollIds, PollStep(p) PROVE TimersCleared'
  <2>1. ASSUME PollSucceeds(p) \/ PollThrows(p) PROVE TimersCleared'
    BY <2>1, ClearedStays DEF PollSucceeds, PollThrows, PollOver
  <2>2. CASE PollBegins(p)
    BY <2>2 DEF PollBegins
  <2>3. CASE PollChecksState(p)
    BY <2>1, <2>3 DEF PollChecksState
  <2>4. CASE PollGone(p)
    BY <2>4 DEF PollGone, PollOver, RevokedPollTimer
  <2>5. CASE PollMismatch(p)
    BY <2>5 DEF PollMismatch
  <2> QED BY <1>6, <2>1, <2>2, <2>3, <2>4, <2>5
          DEF PollStep, PollFails, PollFindsNothing, PollMarked, PollClaims
<1>7. ASSUME NEW e \in ExecIds, ExecStep(e) PROVE TimersCleared'
  <2>1. CASE ExecMismatch(e) \/ ExecMarked(e) \/ ExecResultMismatch(e)
    <3>1. UNCHANGED <<stopped, revoked, timer, pollTimer, heartbeat>>
      BY <2>1 DEF ExecMismatch, ExecMarked, ExecResultMismatch
    <3> QED BY <3>1
  <2>2. CASE ExecSucceeds(e) \/ ExecFails(e)
    BY <2>2, ClearedStays DEF ExecSucceeds, ExecFails, ExecOver
  <2>3. CASE ExecGone(e)
    BY <2>3, ClearedStays DEF ExecGone, ExecOver, RevokedPollTimer
  <2> QED BY <1>7, <2>1, <2>2, <2>3 DEF ExecStep
<1> QED BY <1>1, <1>2, <1>3, <1>4, <1>5, <1>6, <1>7, ClearedHeartbeat DEF Next

(* After stop() no timer is left, and a revoked node has no poll timer. *)
THEOREM Cleared == Spec => []TimersCleared
<1>1. Init => TimersCleared
  BY DEF Init, TimersCleared
<1> QED BY <1>1, ClearedNext, PTL DEF Spec

(* The delay schedulePoll is asked for after a step is a number of ticks. *)
LEMMA DelayNext ==
  ASSUME TypeOK'
  PROVE  currentRelayRetryDelay' \in Nat
BY RetryDelayType DEF TypeOK, currentRelayRetryDelay

(* schedulePoll arms the timer unless something blocks the next poll. *)
LEMMA Armed ==
  ASSUME NEW d \in Nat, NEW t \in Nat \cup {Off}, SchedulePoll(d, t)
  PROVE  PollBlocked' \/ pollTimer' # Off
BY DEF SchedulePoll, LaterTimer, Off

LEMMA WakeupNext == TypeOK /\ NoLostWakeup /\ [Next]_vars => NoLostWakeup'
<1> SUFFICES ASSUME TypeOK, NoLostWakeup, [Next]_vars PROVE NoLostWakeup'
  OBVIOUS
<1> USE DEF NoLostWakeup, vars, processVars, lifecycleVars, laneVars, streakVars
<1>1. /\ pollTimer \in Nat \cup {Off} /\ Off \in Nat \cup {Off} /\ 0 \in Nat
      /\ currentRelayRetryDelay' \in Nat
  BY TypeNext, DelayNext DEF TypeOK
<1>2. CASE StartDaemon
  BY <1>2 DEF StartDaemon
<1>3. CASE Crash
  BY <1>3 DEF Crash
<1>4. CASE Halt
  BY <1>4 DEF Halt, PollBlocked
<1>5. CASE Tick
  BY <1>1, <1>5 DEF Tick, Elapsed, PollBlocked, Off
<1>6. CASE PollTimerFiresBlocked
  BY <1>6 DEF PollTimerFiresBlocked, PollBlocked
<1>7. CASE Heartbeat
  <2>1. CASE HeartbeatFires \/ HeartbeatReadsState
    BY <2>1 DEF HeartbeatFires, HeartbeatReadsState, PollBlocked
  <2>2. CASE HeartbeatGone
    BY <2>2 DEF HeartbeatGone, PollBlocked
  <2>3. CASE HeartbeatFails
    <3>1. CASE startup
      BY <1>1, <2>3, <3>1, Armed DEF HeartbeatFails, StartupPoll
    <3>2. CASE ~ startup
      BY <2>3, <3>2 DEF HeartbeatFails, StartupPoll, PollBlocked
    <3> QED BY <3>1, <3>2
  <2>4. CASE HeartbeatAccepted
    <3>1. CASE ~ NothingToResume \/ startup
      BY <1>1, <2>4, <3>1, Armed DEF HeartbeatAccepted, StartupPoll
    <3>2. CASE NothingToResume /\ ~ startup
      BY <2>4, <3>2 DEF HeartbeatAccepted, StartupPoll, NothingToResume, PollBlocked
    <3> QED BY <3>1, <3>2
  <2> QED BY <1>7, <2>1, <2>2, <2>3, <2>4 DEF Heartbeat
<1>8. ASSUME NEW p \in PollIds, PollStep(p) PROVE NoLostWakeup'
  <2>1. ASSUME PollSucceeds(p) \/ PollThrows(p) PROVE NoLostWakeup'
    BY <1>1, <2>1, Armed DEF PollSucceeds, PollThrows
  <2>2. CASE PollBegins(p) \/ PollGone(p) \/ PollMismatch(p)
    BY <2>2 DEF PollBegins, PollGone, PollMismatch, PollBlocked
  <2>3. CASE PollChecksState(p)
    BY <2>1, <2>3 DEF PollChecksState, PollBlocked
  <2> QED BY <1>8, <2>1, <2>2, <2>3
          DEF PollStep, PollFails, PollFindsNothing, PollMarked, PollClaims
<1>9. ASSUME NEW e \in ExecIds, ExecStep(e) PROVE NoLostWakeup'
  <2>1. CASE ExecMismatch(e) \/ ExecMarked(e) \/ ExecResultMismatch(e)
    BY <2>1 DEF ExecMismatch, ExecMarked, ExecResultMismatch, PollBlocked
  <2>2. CASE ExecSucceeds(e) \/ ExecFails(e) \/ ExecGone(e)
    BY <1>1, <2>2, Armed DEF ExecSucceeds, ExecFails, ExecGone, RevokedPollTimer
  <2> QED BY <1>9, <2>1, <2>2 DEF ExecStep
<1>10. CASE UNCHANGED vars
  BY <1>10 DEF PollBlocked
<1> QED BY <1>2, <1>3, <1>4, <1>5, <1>6, <1>7, <1>8, <1>9, <1>10 DEF Next

(* A node that may poll has a poll outstanding or a timer that will start one. *)
THEOREM Wakeup == Spec => []NoLostWakeup
<1>1. Init => NoLostWakeup
  BY DEF Init, NoLostWakeup
<1> QED BY <1>1, WakeupNext, TypeCorrect, PTL DEF Spec

-----------------------------------------------------------------------------
(* What runs in the lanes. *)

(* Only a claim of a reserved poll puts a job into the reserved lane. *)
LEMMA UrgentClaim ==
  ASSUME TypeOK, ReservedLaneIsUrgent, NEW p \in PollIds, NEW e \in ExecIds, PollClaims(p, e)
  PROVE  ReservedLaneIsUrgent'
<1>1. PICK urgent \in BOOLEAN, aliases \in SUBSET Agents :
        /\ GatewayMayReturn(p, urgent, aliases)
        /\ execs' = [execs EXCEPT ![e] = [stage |-> "running", regular |-> ClaimLane(p),
                                          urgent |-> urgent, aliases |-> aliases]]
  BY DEF PollClaims
<1>2. /\ execs'[e].regular = ClaimLane(p) /\ execs'[e].urgent = urgent
      /\ \A d \in ExecIds \ {e} : execs'[d] = execs[d]
  BY <1>1 DEF TypeOK
<1>3. ~ ClaimLane(p) => urgent
  BY <1>1 DEF GatewayMayReturn, ClaimLane
<1> QED BY <1>2, <1>3 DEF ReservedLaneIsUrgent, ReservedRunning, Running

(* No alias of a running job may be claimed while a poll is outstanding. *)
Exclusive == ReservedLimit > 0 /\ Cardinality(Agents) <= MaxExcluded
AliasesExcluded ==
  Exclusive => \A p \in Outstanding, e \in Running : execs[e].aliases \subseteq polls[p].excluded

JobInv == ReservedLaneIsUrgent /\ AgentsExclusive /\ AliasesExcluded

(* A poll that begins excludes every agent that is busy. *)
LEMMA ExcludesAll ==
  ASSUME TypeOK, Exclusive, NEW X \in ExclusionLists
  PROVE  \A e \in Running : execs[e].aliases \subseteq X
<1> DEFINE active == UNION {execs[e].aliases : e \in Running}
<1>1. active \subseteq Agents
  BY DEF TypeOK, Execs, Running
<1>2. Cardinality(active) <= Cardinality(Agents) /\ Cardinality(active) \in Nat
  BY <1>1, IdsAssumption, FS_Subset, FS_CardinalityType
<1>3. Cardinality(active) <= MaxExcluded
  BY <1>2, FlagsAssumption, IdsAssumption, FS_CardinalityType DEF Exclusive
<1>4. X = active
  BY <1>3, LimitsAssumption DEF ExclusionLists, Exclusive
<1> QED BY <1>4

(* Fewer chains and fewer executions, otherwise unchanged, keep the invariant. *)
LEMMA JobsKept ==
  ASSUME JobInv, Outstanding' \subseteq Outstanding, Running' \subseteq Running,
         \A q \in Outstanding' : polls'[q].excluded = polls[q].excluded,
         \A d \in Running' : /\ execs'[d].regular = execs[d].regular
                             /\ execs'[d].aliases = execs[d].aliases
                             /\ execs'[d].urgent = execs[d].urgent
  PROVE  JobInv'
<1>1. ReservedLaneIsUrgent'
  BY DEF JobInv, ReservedLaneIsUrgent, ReservedRunning
<1>2. AgentsExclusive'
  BY DEF JobInv, AgentsExclusive
<1>3. AliasesExcluded'
  BY DEF JobInv, AliasesExcluded, Exclusive
<1> QED BY <1>1, <1>2, <1>3 DEF JobInv

(* A claimed job shares no agent with a job that runs. *)
LEMMA JobClaimed ==
  ASSUME TypeOK, OnePollOutstanding, JobInv, NEW p \in PollIds, NEW e \in ExecIds,
         PollClaims(p, e)
  PROVE  JobInv'
<1>1. ReservedLaneIsUrgent'
  BY UrgentClaim DEF JobInv
<1>2. PICK urgent \in BOOLEAN, aliases \in SUBSET Agents :
        /\ GatewayMayReturn(p, urgent, aliases)
        /\ execs' = [execs EXCEPT ![e] = [stage |-> "running", regular |-> ClaimLane(p),
                                          urgent |-> urgent, aliases |-> aliases]]
  BY DEF PollClaims
<1>3. /\ execs'[e].aliases = aliases /\ \A d \in ExecIds \ {e} : execs'[d] = execs[d]
  BY <1>2 DEF TypeOK
<1>4. e \notin Running /\ Running' = Running \cup {e}
  BY ClaimSets
<1>5. p \in Outstanding
  BY DEF PollClaims, Outstanding
<1>6. AgentsExclusive'
  <2>1. SUFFICES ASSUME Exclusive
                 PROVE  \A d, c \in Running' :
                          d # c => execs'[d].aliases \cap execs'[c].aliases = {}
    BY DEF AgentsExclusive, Exclusive
  <2>2. \A d \in Running : execs[d].aliases \cap aliases = {}
    BY <1>2, <1>5, <2>1 DEF JobInv, AliasesExcluded, GatewayMayReturn
  <2>3. \A d, c \in Running : d # c => execs[d].aliases \cap execs[c].aliases = {}
    BY <2>1 DEF JobInv, AgentsExclusive, Exclusive
  <2>4. \A d \in Running : d \in ExecIds \ {e}
    BY <1>4 DEF Running
  <2> QED BY <1>3, <1>4, <2>2, <2>3, <2>4
<1>7. Outstanding' = {}
  BY <1>5, NoneLeft DEF PollClaims, PollSucceeds, Outstanding
<1>8. AliasesExcluded'
  BY <1>7 DEF AliasesExcluded
<1> QED BY <1>1, <1>6, <1>8 DEF JobInv

(* A poll that begins has the busy agents on its list. *)
LEMMA JobPolled ==
  ASSUME TypeOK, OnePollOutstanding, JobInv, NEW p \in PollIds, PollBegins(p)
  PROVE  JobInv'
<1>1. PICK X \in ExclusionLists :
        polls' = [polls EXCEPT ![p] = [stage |-> "checking", reservedOnly |-> reservedOnly,
                                       excluded |-> X]]
  BY DEF PollBegins
<1>2. Outstanding' = {p} /\ polls'[p].excluded = X
  BY <1>1 DEF PollBegins, PollBlocked, OnePollOutstanding, Outstanding, TypeOK
<1>3. UNCHANGED execs
  BY DEF PollBegins, laneVars
<1>4. Running' = Running /\ ReservedRunning' = ReservedRunning
  BY <1>3 DEF Running, ReservedRunning
<1>5. AliasesExcluded'
  BY <1>2, <1>3, <1>4, ExcludesAll DEF AliasesExcluded, Exclusive
<1> QED BY <1>3, <1>4, <1>5 DEF JobInv, ReservedLaneIsUrgent, AgentsExclusive

LEMMA JobNext == TypeOK /\ OnePollOutstanding /\ JobInv /\ [Next]_vars => JobInv'
<1> SUFFICES ASSUME TypeOK, OnePollOutstanding, JobInv, [Next]_vars PROVE JobInv'
  OBVIOUS
<1>1. ASSUME NEW p \in PollIds, PollStep(p) PROVE JobInv'
  <2>1. CASE PollBegins(p)
    BY <2>1, JobPolled
  <2>2. CASE \E e \in ExecIds : PollClaims(p, e)
    BY <2>2, JobClaimed
  <2>3. CASE ~ PollBegins(p) /\ ~ \E e \in ExecIds : PollClaims(p, e)
    <3>1. UNCHANGED execs
      BY <1>1, <2>3 DEF PollStep, PollChecksState, PollFails, PollThrows, PollFindsNothing,
                        PollGone, PollMismatch, PollMarked, laneVars
    <3>2. /\ Outstanding' \subseteq Outstanding
          /\ \A q \in Outstanding' : polls'[q].excluded = polls[q].excluded
      BY <1>1, <2>3, ChainStep DEF Outstanding
    <3> QED BY <3>1, <3>2, JobsKept DEF Running
  <2> QED BY <2>1, <2>2, <2>3
<1>2. ASSUME NEW e \in ExecIds, ExecStep(e) PROVE JobInv'
  <2>1. ASSUME NEW s \in ExecStages, s # "idle", execs[e].stage # "idle",
               execs' = [execs EXCEPT ![e].stage = s], UNCHANGED polls
        PROVE  JobInv'
    <3>1. Running' = Running /\ Outstanding' = Outstanding
      BY <2>1, ExecStageMove DEF Outstanding
    <3>2. \A d \in Running' : /\ execs'[d].regular = execs[d].regular
                              /\ execs'[d].aliases = execs[d].aliases
                              /\ execs'[d].urgent = execs[d].urgent
      BY <2>1 DEF TypeOK, Execs, Running
    <3> QED BY <2>1, <3>1, <3>2, JobsKept
  <2>2. CASE ExecMismatch(e)
    BY <2>1, <2>2 DEF ExecMismatch, ExecStages
  <2>3. CASE ExecMarked(e)
    BY <2>1, <2>3 DEF ExecMarked, ExecStages
  <2>4. CASE ExecResultMismatch(e)
    BY <2>1, <2>4 DEF ExecResultMismatch, ExecStages
  <2>5. CASE ExecSucceeds(e) \/ ExecFails(e) \/ ExecGone(e)
    <3>1. ExecOver(e) /\ execs[e].stage # "idle"
      BY <2>5 DEF ExecSucceeds, ExecFails, ExecGone
    <3>2. Running' = Running \ {e} /\ \A d \in ExecIds \ {e} : execs'[d] = execs[d]
      BY <3>1, ExecOverSets
    <3>3. UNCHANGED polls /\ Outstanding' = Outstanding
      BY <3>1 DEF ExecOver, Outstanding
    <3> QED BY <3>2, <3>3, JobsKept DEF Running
  <2> QED BY <1>2, <2>2, <2>3, <2>4, <2>5 DEF ExecStep
<1>3. CASE Crash
  <2>1. Running' = {} /\ ReservedRunning' = {} /\ Outstanding' = {}
    BY <1>3 DEF Crash, Running, ReservedRunning, Outstanding, IdlePoll, IdleExec
  <2> QED BY <2>1 DEF JobInv, ReservedLaneIsUrgent, AgentsExclusive, AliasesExcluded
<1>4. CASE ~ (\E p \in PollIds : PollStep(p)) /\ ~ (\E e \in ExecIds : ExecStep(e)) /\ ~ Crash
  <2>1. UNCHANGED <<polls, polling>>
    BY <1>4, OtherStep
  <2>2. UNCHANGED execs
    BY <1>4 DEF Next, vars, Heartbeat, HeartbeatFires, HeartbeatReadsState, HeartbeatAccepted,
                HeartbeatGone, HeartbeatFails, StartDaemon, Halt, Tick, PollTimerFiresBlocked,
                laneVars
  <2> QED BY <2>1, <2>2, JobsKept DEF Outstanding, Running
<1> QED BY <1>1, <1>2, <1>3, <1>4

LEMMA JobAlways == Spec => []JobInv
<1>1. Init => JobInv
  <2> SUFFICES ASSUME Init PROVE JobInv
    OBVIOUS
  <2>1. Running = {} /\ ReservedRunning = {} /\ Outstanding = {}
    BY DEF Init, Running, ReservedRunning, Outstanding, IdlePoll, IdleExec
  <2> QED BY <2>1 DEF JobInv, ReservedLaneIsUrgent, AgentsExclusive, AliasesExcluded
<1>2. TypeOK /\ OnePollOutstanding /\ JobInv /\ [Next]_vars => JobInv'
  BY JobNext
<1> QED BY <1>1, <1>2, TypeCorrect, OnePoll, PTL DEF Spec

(* Only urgent jobs run in the lane held back for them. *)
THEOREM ReservedForUrgent == Spec => []ReservedLaneIsUrgent
<1>1. JobInv => ReservedLaneIsUrgent
  BY DEF JobInv
<1> QED BY <1>1, JobAlways, PTL

(* With a reserved lane and a list that is not cut, no agent runs two jobs at a time. *)
THEOREM AgentsOnce == Spec => []AgentsExclusive
<1>1. JobInv => AgentsExclusive
  BY DEF JobInv
<1> QED BY <1>1, JobAlways, PTL

-----------------------------------------------------------------------------
(* The cooldown.  The property speaks of the moment a poll starts; what makes it hold *)
(* is that an armed timer is never earlier than what either failure still imposes.    *)

(* The streaks remember at least what is still owed: schedulePoll is asked for enough. *)
DelayCovers ==
  /\ owedPoll <= pollRetryDelay(relayPollFailureStreak)
  /\ owedExec <= pollRetryDelay(relayExecutionFailureStreak)

(* No timer is armed beside a poll that is outstanding. *)
PollingUnarmed == polling => pollTimer = Off

(* The timer covers what is owed, except on a node that will not poll again. *)
TimerCovers ==
  (pollTimer # Off /\ ~ lifecyclePollingDisabled /\ ~ RelayDirect) =>
    owedPoll <= pollTimer /\ owedExec <= pollTimer

(* Before the first schedulePoll nothing polls, runs or has failed. *)
Quiet ==
  /\ (~ up \/ startup) => /\ Outstanding = {} /\ Running = {} /\ pollTimer = Off
                          /\ relayPollFailureStreak = 0 /\ relayExecutionFailureStreak = 0
  /\ ~ up => heartbeat = "off" /\ timer = Off

CoolInv == DelayCovers /\ PollingUnarmed /\ TimerCovers /\ Quiet

(* What the other theorems say of a state. *)
Known == TypeOK /\ OnePollOutstanding /\ LaneInv /\ TimersCleared

(* The delay asked for after a step is enough for both cooldowns. *)
LEMMA DelayEnough ==
  ASSUME TypeOK', DelayCovers'
  PROVE  /\ currentRelayRetryDelay' \in Nat
         /\ owedPoll' <= currentRelayRetryDelay' /\ owedExec' <= currentRelayRetryDelay'
<1>1. /\ pollRetryDelay(relayPollFailureStreak)' \in Nat
      /\ pollRetryDelay(relayExecutionFailureStreak)' \in Nat
  BY DelayType DEF TypeOK
<1> QED BY <1>1 DEF DelayCovers, TypeOK, currentRelayRetryDelay, Larger

(* schedulePoll with enough delay covers what is owed, or leaves the timer as it is. *)
LEMMA Covered ==
  ASSUME TypeOK', NEW d \in Nat, NEW t \in Nat \cup {Off}, SchedulePoll(d, t),
         owedPoll' <= d, owedExec' <= d
  PROVE  \/ PollBlocked' /\ pollTimer' = t
         \/ ~ PollBlocked' /\ owedPoll' <= pollTimer' /\ owedExec' <= pollTimer'
BY DEF SchedulePoll, LaterTimer, TypeOK, Off

LEMMA NothingOwed ==
  ASSUME TypeOK, DelayCovers, relayPollFailureStreak = 0, relayExecutionFailureStreak = 0
  PROVE  owedPoll = 0 /\ owedExec = 0
BY DEF TypeOK, DelayCovers, pollRetryDelay

LEMMA CoolHeartbeat == Known /\ TypeOK' /\ CoolInv /\ Heartbeat => CoolInv'
<1> SUFFICES ASSUME Known, TypeOK', CoolInv, Heartbeat PROVE CoolInv'
  OBVIOUS
<1> USE DEF processVars, lifecycleVars, laneVars, streakVars
<1>1. up /\ timer \in Nat \cup {Off}
  BY DEF Heartbeat, HeartbeatFires, HeartbeatReadsState, HeartbeatAccepted, HeartbeatGone,
         HeartbeatFails, CoolInv, Quiet, Off, Known, TypeOK
<1>2. CASE HeartbeatFires \/ HeartbeatReadsState
  <2>1. UNCHANGED <<up, startup, polling, polls, execs, pollTimer, streakVars>>
    BY <1>2 DEF HeartbeatFires, HeartbeatReadsState
  <2>2. lifecyclePollingDisabled => lifecyclePollingDisabled'
    BY <1>2 DEF HeartbeatFires, HeartbeatReadsState
  <2> QED BY <1>1, <2>1, <2>2 DEF CoolInv, DelayCovers, PollingUnarmed, TimerCovers, Quiet,
                                  Outstanding, Running
<1>3. ASSUME ScheduleHeartbeat, UNCHANGED <<up, polling, lifecyclePollingDisabled>>, DelayCovers',
             \/ pollTimer' = Off
             \/ pollTimer' = pollTimer /\ UNCHANGED <<owedPoll, owedExec>>
             \/ ~ PollBlocked' /\ owedPoll' <= pollTimer' /\ owedExec' <= pollTimer'
      PROVE  CoolInv'
  <2>1. Quiet'
    BY <1>1, <1>3 DEF ScheduleHeartbeat, Quiet
  <2>2. PollingUnarmed' /\ TimerCovers'
    BY <1>3 DEF CoolInv, PollingUnarmed, TimerCovers, PollBlocked
  <2> QED BY <1>3, <2>1, <2>2 DEF CoolInv
<1>4. CASE HeartbeatGone
  <2>1. DelayCovers'
    BY <1>4 DEF HeartbeatGone, CoolInv, DelayCovers
  <2> QED BY <1>3, <1>4, <2>1 DEF HeartbeatGone, RevokedPollTimer
<1>5. ASSUME StartupPoll(pollTimer), UNCHANGED streakVars
      PROVE  \/ pollTimer' = Off
             \/ pollTimer' = pollTimer /\ UNCHANGED <<owedPoll, owedExec>>
             \/ ~ PollBlocked' /\ owedPoll' <= pollTimer' /\ owedExec' <= pollTimer'
  <2>1. CASE startup
    <3>1. pollTimer = Off /\ owedPoll' = 0 /\ owedExec' = 0
      BY <1>5, <2>1, NothingOwed DEF CoolInv, Quiet, Known
    <3>2. /\ Off \in Nat \cup {Off} /\ 0 \in Nat /\ SchedulePoll(0, Off)
          /\ owedPoll' <= 0 /\ owedExec' <= 0
      BY <1>5, <2>1, <3>1 DEF StartupPoll
    <3> QED BY <3>1, <3>2, Covered
  <2>2. CASE ~ startup
    BY <1>5, <2>2 DEF StartupPoll
  <2> QED BY <2>1, <2>2
<1>6. CASE HeartbeatFails
  <2>1. DelayCovers'
    BY <1>6 DEF HeartbeatFails, CoolInv, DelayCovers
  <2> QED BY <1>3, <1>5, <1>6, <2>1 DEF HeartbeatFails
<1>7. CASE HeartbeatAccepted
  <2>1. CASE NothingToResume
    <3>1. DelayCovers'
      BY <1>7, <2>1 DEF HeartbeatAccepted, CoolInv, DelayCovers
    <3> QED BY <1>3, <1>5, <1>7, <2>1, <3>1 DEF HeartbeatAccepted
  <2>2. CASE ~ NothingToResume
    <3>1. /\ owedPoll' = 0 /\ owedExec' = 0 /\ SchedulePoll(0, Off)
          /\ relayPollFailureStreak' = 0 /\ relayExecutionFailureStreak' = 0
      BY <1>7, <2>2 DEF HeartbeatAccepted
    <3>2. DelayCovers'
      BY <3>1, DelayType, ZeroStreak DEF DelayCovers
    <3>3. Off \in Nat \cup {Off} /\ 0 \in Nat /\ owedPoll' <= 0 /\ owedExec' <= 0
      BY <3>1
    <3>4. \/ pollTimer' = Off
          \/ ~ PollBlocked' /\ owedPoll' <= pollTimer' /\ owedExec' <= pollTimer'
      BY <3>1, <3>3, Covered
    <3> QED BY <1>3, <1>7, <3>2, <3>4 DEF HeartbeatAccepted
  <2> QED BY <2>1, <2>2
<1> QED BY <1>2, <1>4, <1>6, <1>7 DEF Heartbeat

(* A chain runs only on a node that is up and over its startup. *)
LEMMA CoolPoll ==
  ASSUME Known, TypeOK', CoolInv, NEW p \in PollIds, PollStep(p)
  PROVE  CoolInv'
<1> USE DEF processVars, lifecycleVars, laneVars, streakVars
<1>1. polls[p].stage = "idle" <=> PollBegins(p)
  BY DEF PollStep, PollBegins, PollChecksState, PollFails, PollFindsNothing, PollGone,
         PollMismatch, PollMarked, PollClaims
<1>2. UNCHANGED processVars
  BY DEF PollStep, PollBegins, PollChecksState, PollFails, PollFindsNothing, PollGone,
         PollMismatch, PollMarked, PollClaims, PollSucceeds, PollThrows, PollOver
<1>3. Outstanding # {} \/ pollTimer # Off
  BY <1>1 DEF Outstanding, PollBegins, Off
<1>4. Quiet'
  BY <1>2, <1>3 DEF CoolInv, Quiet
<1>5. CASE PollBegins(p)
  <2>1. /\ pollTimer' = Off /\ UNCHANGED streakVars
    BY <1>5 DEF PollBegins
  <2> QED BY <1>4, <2>1 DEF CoolInv, DelayCovers, PollingUnarmed, TimerCovers
<1>6. CASE ~ PollBegins(p)
  <2>1. pollTimer = Off
    BY <1>1, <1>6 DEF Known, OnePollOutstanding, Outstanding, CoolInv, PollingUnarmed
  <2>2. ASSUME PollSucceeds(p) \/ PollThrows(p) PROVE CoolInv'
    <3>1. DelayCovers'
      <4>1. CASE PollSucceeds(p)
        <5>1. pollRetryDelay(relayPollFailureStreak)' \in Nat
          BY DelayType DEF TypeOK
        <5> QED BY <4>1, <5>1 DEF PollSucceeds, CoolInv, DelayCovers
      <4>2. CASE PollThrows(p)
        <5>1. owedPoll' = pollRetryDelay(relayPollFailureStreak)' /\ owedPoll' \in Nat
          BY <4>2 DEF PollThrows, TypeOK
        <5> QED BY <4>2, <5>1 DEF PollThrows, CoolInv, DelayCovers
      <4> QED BY <2>2, <4>1, <4>2
    <3>2. SchedulePoll(currentRelayRetryDelay', Off) /\ Off \in Nat \cup {Off} /\ ~ polling'
      BY <2>1, <2>2 DEF PollSucceeds, PollThrows, PollOver
    <3>3. \/ pollTimer' = Off
          \/ owedPoll' <= pollTimer' /\ owedExec' <= pollTimer'
      BY <3>1, <3>2, DelayEnough, Covered
    <3> QED BY <1>4, <3>1, <3>2, <3>3 DEF CoolInv, PollingUnarmed, TimerCovers
  <2>3. ASSUME UNCHANGED streakVars, pollTimer' = Off PROVE CoolInv'
    BY <1>4, <2>3 DEF CoolInv, DelayCovers, PollingUnarmed, TimerCovers
  <2>4. CASE PollGone(p)
    BY <2>3, <2>4 DEF PollGone, RevokedPollTimer
  <2>5. CASE PollMismatch(p)
    BY <2>1, <2>3, <2>5 DEF PollMismatch
  <2>6. CASE PollChecksState(p)
    BY <2>1, <2>2, <2>3, <2>6 DEF PollChecksState
  <2> QED BY <1>6, <2>2, <2>4, <2>5, <2>6
          DEF PollStep, PollFails, PollFindsNothing, PollMarked, PollClaims
<1> QED BY <1>5, <1>6

LEMMA CoolExec ==
  ASSUME Known, TypeOK', CoolInv, NEW e \in ExecIds, ExecStep(e)
  PROVE  CoolInv'
<1> USE DEF processVars, lifecycleVars, laneVars, streakVars
<1>1. execs[e].stage # "idle"
  BY DEF ExecStep, ExecMismatch, ExecMarked, ExecResultMismatch, ExecSucceeds, ExecFails, ExecGone
<1>2. UNCHANGED processVars
  BY DEF ExecStep, ExecMismatch, ExecMarked, ExecResultMismatch, ExecSucceeds, ExecFails, ExecGone,
         ExecOver
<1>3. Quiet'
  BY <1>1, <1>2 DEF CoolInv, Quiet, Running
<1>4. CASE ExecMismatch(e) \/ ExecMarked(e) \/ ExecResultMismatch(e)
  <2>1. UNCHANGED <<polling, pollTimer, streakVars>>
    BY <1>4 DEF ExecMismatch, ExecMarked, ExecResultMismatch
  <2>2. lifecyclePollingDisabled => lifecyclePollingDisabled'
    BY <1>4 DEF ExecMismatch, ExecMarked, ExecResultMismatch
  <2> QED BY <1>3, <2>1, <2>2 DEF CoolInv, DelayCovers, PollingUnarmed, TimerCovers
<1>5. ASSUME ExecOver(e), DelayCovers', NEW t \in Nat \cup {Off},
             SchedulePoll(currentRelayRetryDelay', t),
             t = Off \/ (t = pollTimer /\ UNCHANGED revoked)
      PROVE  CoolInv'
  <2>1. activeRelayExecutions' < relayExecutionLimit
    <3>1. e \in Running
      BY <1>1 DEF Running
    <3>2. Cardinality(Running) # 0
      BY <3>1, LaneSets, FS_EmptySet
    <3> QED BY <1>5, <3>2, LaneSets, LimitsAssumption
            DEF Known, LaneInv, CountersExact, LaneCapacity, ExecOver, Decremented, Larger,
                relayExecutionLimit
  <2>2. activeRelayExecutions' \in Nat /\ relayExecutionLimit \in Nat
    BY LimitsAssumption DEF TypeOK, relayExecutionLimit
  <2>3. UNCHANGED <<stopped, polling, lifecyclePollingDisabled>>
    BY <1>5 DEF ExecOver
  <2>4. \/ PollBlocked' /\ pollTimer' = t
        \/ ~ PollBlocked' /\ owedPoll' <= pollTimer' /\ owedExec' <= pollTimer'
    BY <1>5, DelayEnough, Covered
  <2>5. PollingUnarmed'
    BY <1>5, <2>3, <2>4 DEF CoolInv, PollingUnarmed, PollBlocked
  <2>6. PollBlocked' => t = Off \/ lifecyclePollingDisabled' \/ RelayDirect
    BY <1>5, <2>1, <2>2, <2>3 DEF PollBlocked, Known, TimersCleared, CoolInv, PollingUnarmed
  <2>7. TimerCovers'
    BY <2>4, <2>6 DEF TimerCovers
  <2> QED BY <1>3, <1>5, <2>5, <2>7 DEF CoolInv
<1>6. Off \in Nat \cup {Off} /\ pollTimer \in Nat \cup {Off}
  BY DEF Known, TypeOK
<1>7. CASE ExecSucceeds(e)
  <2>1. pollRetryDelay(relayExecutionFailureStreak)' \in Nat
    BY DelayType DEF TypeOK
  <2>2. DelayCovers'
    BY <1>7, <2>1 DEF ExecSucceeds, CoolInv, DelayCovers
  <2> QED BY <1>5, <1>6, <1>7, <2>2 DEF ExecSucceeds
<1>8. CASE ExecFails(e)
  <2>1. owedExec' = pollRetryDelay(relayExecutionFailureStreak)' /\ owedExec' \in Nat
    BY <1>8 DEF ExecFails, TypeOK
  <2>2. DelayCovers'
    BY <1>8, <2>1 DEF ExecFails, CoolInv, DelayCovers
  <2> QED BY <1>5, <1>6, <1>8, <2>2 DEF ExecFails
<1>9. CASE ExecGone(e)
  <2>1. DelayCovers'
    BY <1>9 DEF ExecGone, CoolInv, DelayCovers
  <2> QED BY <1>5, <1>6, <1>9, <2>1 DEF ExecGone, RevokedPollTimer
<1> QED BY <1>4, <1>7, <1>8, <1>9 DEF ExecStep

LEMMA CoolNext == Known /\ CoolInv /\ [Next]_vars => CoolInv'
<1> SUFFICES ASSUME Known, CoolInv, [Next]_vars PROVE CoolInv'
  OBVIOUS
<1> USE DEF vars, processVars, lifecycleVars, laneVars, streakVars
<1>1. TypeOK'
  BY TypeNext DEF Known
<1>2. CASE StartDaemon
  <2>1. UNCHANGED <<polling, polls, execs, pollTimer, lifecyclePollingDisabled, streakVars>>
    BY <1>2 DEF StartDaemon
  <2>2. up' /\ ~ up
    BY <1>2 DEF StartDaemon
  <2> QED BY <2>1, <2>2 DEF CoolInv, DelayCovers, PollingUnarmed, TimerCovers, Quiet, Outstanding,
                            Running
<1>3. CASE Crash
  <2>1. Outstanding' = {} /\ Running' = {}
    BY <1>3 DEF Crash, Outstanding, Running, IdlePoll, IdleExec
  <2>2. DelayCovers'
    BY <1>3, DelayType, ZeroStreak DEF Crash, DelayCovers
  <2> QED BY <1>3, <2>1, <2>2 DEF Crash, CoolInv, PollingUnarmed, TimerCovers, Quiet
<1>4. CASE Halt
  <2>1. UNCHANGED <<up, startup, polling, polls, execs, streakVars>> /\ up /\ pollTimer' = Off
    BY <1>4 DEF Halt
  <2> QED BY <2>1 DEF CoolInv, DelayCovers, PollingUnarmed, TimerCovers, Quiet, Outstanding, Running
<1>5. CASE PollTimerFiresBlocked
  <2>1. UNCHANGED <<up, startup, heartbeat, timer, polling, polls, execs, streakVars>>
        /\ pollTimer' = Off
    BY <1>5 DEF PollTimerFiresBlocked
  <2> QED BY <2>1 DEF CoolInv, DelayCovers, PollingUnarmed, TimerCovers, Quiet, Outstanding, Running
<1>6. CASE Tick
  <2>1. /\ UNCHANGED <<up, startup, heartbeat, polling, polls, execs, lifecyclePollingDisabled>>
        /\ UNCHANGED <<relayPollFailureStreak, relayExecutionFailureStreak>>
    BY <1>6 DEF Tick
  <2>2. /\ timer = Off => timer' = Off
        /\ pollTimer = Off => pollTimer' = Off
        /\ pollTimer # Off => pollTimer > 0 /\ pollTimer' = pollTimer - 1
        /\ owedPoll' = Elapsed(owedPoll) /\ owedExec' = Elapsed(owedExec)
        /\ owedPoll \in Nat /\ owedExec \in Nat /\ pollTimer \in Nat \cup {Off}
    BY <1>6 DEF Tick, Elapsed, Known, TypeOK, Off
  <2>3. /\ pollRetryDelay(relayPollFailureStreak) \in Nat
        /\ pollRetryDelay(relayExecutionFailureStreak) \in Nat
    BY DelayType DEF Known, TypeOK
  <2>4. DelayCovers'
    BY <2>1, <2>2, <2>3 DEF CoolInv, DelayCovers, Elapsed
  <2>5. TimerCovers'
    BY <2>1, <2>2 DEF CoolInv, TimerCovers, Elapsed
  <2>6. PollingUnarmed' /\ Quiet'
    BY <2>1, <2>2 DEF CoolInv, PollingUnarmed, Quiet, Outstanding, Running
  <2> QED BY <2>4, <2>5, <2>6 DEF CoolInv
<1>7. CASE UNCHANGED vars
  BY <1>7 DEF CoolInv, DelayCovers, PollingUnarmed, TimerCovers, Quiet, Outstanding, Running
<1> QED BY <1>1, <1>2, <1>3, <1>4, <1>5, <1>6, <1>7, CoolHeartbeat, CoolPoll, CoolExec DEF Next

(* A step that starts a poll finds nothing owed. *)
LEMMA CoolStep ==
  ASSUME Known, CoolInv, [Next]_vars, polling', ~ polling
  PROVE  owedPoll = 0 /\ owedExec = 0
<1>1. PICK p \in PollIds : PollStep(p)
  BY OtherStep DEF Known, Crash
<1>2. PollBegins(p)
  BY <1>1, ChainStep DEF Known
<1> QED BY <1>2 DEF PollBegins, PollBlocked, CoolInv, TimerCovers, Known, TypeOK, Off

(* No poll starts inside the cooldown that a failed poll or a failed delivery imposed. *)
THEOREM Cooldown == Spec => CooldownRespected
<1>1. Init => CoolInv
  <2> SUFFICES ASSUME Init PROVE CoolInv
    OBVIOUS
  <2>1. Outstanding = {} /\ Running = {}
    BY DEF Init, Outstanding, Running, IdlePoll, IdleExec
  <2>2. DelayCovers
    BY DelayType, ZeroStreak DEF Init, DelayCovers
  <2> QED BY <2>1, <2>2 DEF Init, CoolInv, PollingUnarmed, TimerCovers, Quiet
<1>2. Spec => []Known
  BY TypeCorrect, OnePoll, LaneAlways, Cleared, PTL DEF Known
<1>3. Spec => []CoolInv
  BY <1>1, <1>2, CoolNext, PTL DEF Spec
<1>4. Known /\ CoolInv /\ [Next]_vars => [polling' /\ ~ polling => owedPoll = 0 /\ owedExec = 0]_vars
  BY CoolStep
<1> QED BY <1>2, <1>3, <1>4, PTL DEF Spec, CooldownRespected

-----------------------------------------------------------------------------
(* The daemon implements the pool of slots.  A booking is the outstanding poll, and   *)
(* what is busy are the lanes; that a booking finds a free slot rests on LaneInv.     *)

(* A step that changes neither the chains' lanes nor the executions that run. *)
LEMMA SlotsStutter ==
  ASSUME Outstanding' = Outstanding, RegularRunning' = RegularRunning,
         ReservedRunning' = ReservedRunning,
         \A q \in Outstanding : polls'[q].reservedOnly = polls[q].reservedOnly
  PROVE  UNCHANGED Slots!slotVars
<1>1. (\E q \in Outstanding : polls[q].reservedOnly)' <=> \E q \in Outstanding : polls[q].reservedOnly
  OBVIOUS
<1> QED BY <1>1 DEF Slots!slotVars

(* The abstract module counts with its own instance of Cardinality. *)
LEMMA SameCardinality ==
  ASSUME NEW S
  PROVE  Slots!Cardinality(S) = Cardinality(S)
BY DEF Slots!Cardinality, Cardinality, Slots!IsFiniteSet, IsFiniteSet

LEMMA SlotsBooked ==
  ASSUME TypeOK, OnePollOutstanding, LaneInv, NEW p \in PollIds, PollBegins(p)
  PROVE  \E lane \in Slots!Lanes : Slots!Book(lane)
<1>1. Outstanding = {} /\ Outstanding' = {p} /\ polls'[p].reservedOnly = reservedOnly
  BY DEF PollBegins, PollBlocked, OnePollOutstanding, Outstanding, TypeOK
<1>2. UNCHANGED execs
  BY DEF PollBegins, laneVars
<1>3. RegularRunning' = RegularRunning /\ ReservedRunning' = ReservedRunning
  BY <1>2 DEF Running, RegularRunning, ReservedRunning
<1>4. activeRelayExecutions < RegularLimit + ReservedLimit
  BY LimitsAssumption DEF PollBegins, PollBlocked, relayExecutionLimit, TypeOK
<1>5. IF reservedOnly
      THEN Cardinality(ReservedRunning) < ReservedLimit
           /\ ~ (Cardinality(RegularRunning) < RegularLimit)
      ELSE Cardinality(RegularRunning) < RegularLimit
  BY <1>4, LaneSets, LimitsAssumption
  DEF reservedOnly, relayExecutionLimit, LaneInv, LaneCapacity, CountersExact
<1>6. CASE reservedOnly
  <2>1. Slots!Free("reserved") /\ ~ Slots!Free("regular")
    BY <1>5, <1>6, SameCardinality DEF Slots!Free, Slots!Limit
  <2>2. Slots!Book("reserved")
    BY <1>1, <1>3, <1>6, <2>1 DEF Slots!Book
  <2> QED BY <2>2 DEF Slots!Lanes
<1>7. CASE ~ reservedOnly
  <2>1. Slots!Free("regular")
    BY <1>5, <1>7, SameCardinality DEF Slots!Free, Slots!Limit
  <2>2. Slots!Book("regular")
    BY <1>1, <1>3, <1>7, <2>1 DEF Slots!Book
  <2> QED BY <2>2 DEF Slots!Lanes
<1> QED BY <1>6, <1>7

LEMMA SlotsFilled ==
  ASSUME TypeOK, OnePollOutstanding, NEW p \in PollIds, NEW e \in ExecIds, PollClaims(p, e)
  PROVE  Slots!Fill(e)
<1>1. /\ e \notin Running /\ Running' = Running \cup {e}
      /\ RegularRunning' = IF ClaimLane(p) THEN RegularRunning \cup {e} ELSE RegularRunning
      /\ ReservedRunning' = IF ClaimLane(p) THEN ReservedRunning ELSE ReservedRunning \cup {e}
  BY ClaimSets
<1>2. e \notin RegularRunning /\ e \notin ReservedRunning
  BY <1>1 DEF RegularRunning, ReservedRunning
<1>3. p \in Outstanding /\ \A q \in Outstanding : q = p
  BY DEF PollClaims, Outstanding, OnePollOutstanding
<1>4. Outstanding' = {}
  BY <1>3, NoneLeft DEF PollClaims, PollSucceeds, Outstanding
<1>5. (\E q \in Outstanding : polls[q].reservedOnly) <=> ~ ClaimLane(p)
  BY <1>3 DEF ClaimLane
<1> QED BY <1>1, <1>2, <1>3, <1>4, <1>5 DEF Slots!Fill, Slots!Lanes

LEMMA SlotsReleased ==
  ASSUME TypeOK, NEW e \in ExecIds, execs[e].stage # "idle", ExecOver(e)
  PROVE  \E lane \in Slots!Lanes : Slots!Release(e, lane)
<1>1. /\ RegularRunning' = RegularRunning \ {e} /\ ReservedRunning' = ReservedRunning \ {e}
  BY ExecOverSets
<1>2. /\ (e \in RegularRunning <=> execs[e].regular)
      /\ (e \in ReservedRunning <=> ~ execs[e].regular)
  BY DEF Running, RegularRunning, ReservedRunning
<1>3. Outstanding' = Outstanding /\ polls' = polls
  BY DEF ExecOver, Outstanding
<1>4. CASE execs[e].regular
  BY <1>1, <1>2, <1>3, <1>4 DEF Slots!Release, Slots!Lanes
<1>5. CASE ~ execs[e].regular
  BY <1>1, <1>2, <1>3, <1>5 DEF Slots!Release, Slots!Lanes
<1> QED BY <1>4, <1>5

LEMMA SlotsStep ==
  TypeOK /\ OnePollOutstanding /\ LaneInv /\ [Next]_vars => [Slots!SlotsNext]_(Slots!slotVars)
<1> SUFFICES ASSUME TypeOK, OnePollOutstanding, LaneInv, [Next]_vars
             PROVE  [Slots!SlotsNext]_(Slots!slotVars)
  OBVIOUS
<1>1. ASSUME NEW p \in PollIds, PollStep(p) PROVE [Slots!SlotsNext]_(Slots!slotVars)
  <2>1. CASE PollBegins(p)
    BY <2>1, SlotsBooked DEF Slots!SlotsNext
  <2>2. CASE \E e \in ExecIds : PollClaims(p, e)
    BY <2>2, SlotsFilled DEF Slots!SlotsNext
  <2>3. CASE ~ PollBegins(p) /\ ~ \E e \in ExecIds : PollClaims(p, e)
    <3>1. UNCHANGED execs
      BY <1>1, <2>3 DEF PollStep, PollChecksState, PollFails, PollThrows, PollFindsNothing,
                        PollGone, PollMismatch, PollMarked, laneVars
    <3>2. RegularRunning' = RegularRunning /\ ReservedRunning' = ReservedRunning
      BY <3>1 DEF Running, RegularRunning, ReservedRunning
    <3>3. p \in Outstanding
      BY <1>1, <2>3 DEF Outstanding, PollStep, PollChecksState, PollFails, PollFindsNothing,
                        PollGone, PollMismatch, PollMarked
    <3>4. CASE Outstanding' = {}
      BY <3>2, <3>3, <3>4 DEF Slots!SlotsNext, Slots!Cancel
    <3>5. CASE /\ Outstanding' = Outstanding
               /\ \A q \in PollIds : polls'[q].reservedOnly = polls[q].reservedOnly
      BY <3>2, <3>5, SlotsStutter DEF Outstanding
    <3> QED BY <1>1, <2>3, <3>4, <3>5, ChainStep
  <2> QED BY <2>1, <2>2, <2>3
<1>2. ASSUME NEW e \in ExecIds, ExecStep(e) PROVE [Slots!SlotsNext]_(Slots!slotVars)
  <2>1. ASSUME NEW s \in ExecStages, s # "idle", execs[e].stage # "idle",
               execs' = [execs EXCEPT ![e].stage = s], UNCHANGED polls
        PROVE  UNCHANGED Slots!slotVars
    BY <2>1, ExecStageMove, SlotsStutter DEF Outstanding
  <2>2. CASE ExecMismatch(e)
    BY <2>1, <2>2 DEF ExecMismatch, ExecStages
  <2>3. CASE ExecMarked(e)
    BY <2>1, <2>3 DEF ExecMarked, ExecStages
  <2>4. CASE ExecResultMismatch(e)
    BY <2>1, <2>4 DEF ExecResultMismatch, ExecStages
  <2>5. CASE ExecSucceeds(e) \/ ExecFails(e) \/ ExecGone(e)
    BY <2>5, SlotsReleased DEF ExecSucceeds, ExecFails, ExecGone, Slots!SlotsNext
  <2> QED BY <1>2, <2>2, <2>3, <2>4, <2>5 DEF ExecStep
<1>3. CASE Crash
  <2>1. RegularRunning' = {} /\ ReservedRunning' = {} /\ Outstanding' = {}
    BY <1>3 DEF Crash, Running, RegularRunning, ReservedRunning, Outstanding, IdlePoll, IdleExec
  <2> QED BY <2>1 DEF Slots!SlotsNext, Slots!Vanish, Slots!Lanes
<1>4. CASE ~ (\E p \in PollIds : PollStep(p)) /\ ~ (\E e \in ExecIds : ExecStep(e)) /\ ~ Crash
  <2>1. UNCHANGED <<polls, polling>>
    BY <1>4, OtherStep
  <2>2. UNCHANGED execs
    BY <1>4 DEF Next, vars, Heartbeat, HeartbeatFires, HeartbeatReadsState, HeartbeatAccepted,
                HeartbeatGone, HeartbeatFails, StartDaemon, Halt, Tick, PollTimerFiresBlocked,
                laneVars
  <2> QED BY <2>1, <2>2, SlotsStutter DEF Outstanding, Running, RegularRunning, ReservedRunning
<1> QED BY <1>1, <1>2, <1>3, <1>4

(* Every behaviour of the relay loop is one of the pool of slots. *)
THEOREM Implementation == Spec => ImplementsSlots
<1>1. Init => Slots!SlotsInit
  <2> SUFFICES ASSUME Init PROVE Slots!SlotsInit
    OBVIOUS
  <2>1. RegularRunning = {} /\ ReservedRunning = {} /\ Outstanding = {}
    BY DEF Init, Running, RegularRunning, ReservedRunning, Outstanding, IdlePoll, IdleExec
  <2> QED BY <2>1 DEF Slots!SlotsInit, Slots!Lanes
<1>2. TypeOK /\ OnePollOutstanding /\ LaneInv /\ [Next]_vars => [Slots!SlotsNext]_(Slots!slotVars)
  BY SlotsStep
<1> QED BY <1>1, <1>2, TypeCorrect, OnePoll, LaneAlways, PTL
        DEF Spec, ImplementsSlots, Slots!SlotsSpec

=============================================================================
