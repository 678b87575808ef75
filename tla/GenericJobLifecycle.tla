------------------------ MODULE GenericJobLifecycle ------------------------
(***************************************************************************)
(* The scheduler of generic jobs that an owner-local node keeps in memory: *)
(* class OwnerLocalGenericJobLifecycleScheduler.                           *)
(*                                                                         *)
(* A client creates, cancels and retries jobs over HTTP; a dispatcher      *)
(* starts queued jobs while fewer than MaxConcurrent records are active    *)
(* and all of them belong to one tenant; each execution reports back to    *)
(* its record when it ends.  The dispatcher awaits a capability probe      *)
(* between choosing a job and starting it, and an execution is one long    *)
(* await, so requests of the client land in both.                          *)
(*                                                                         *)
(* dispatchQueued, schedule and the first part of runScheduled run without *)
(* an await between them: the states "scheduled" and "retrying" of a       *)
(* record begin and end inside one step and are no states here.            *)
(***************************************************************************)
EXTENDS Naturals, Sequences, FiniteSets

CONSTANTS Jobs,           \* the jobs a client may create, with distinct idempotency keys
          Tenant,         \* the tenant of each, from its metadata
          Priority,       \* the priority of each; the lowest number goes first
          MaxConcurrent,  \* genericJobMaxConcurrency
          MaxRetries,     \* max_retries of each job's retry policy
          None,           \* no job
          Requests        \* bound: cancel and retry requests

ASSUME LifecycleAssumption ==
  /\ IsFiniteSet(Jobs) /\ None \notin Jobs
  /\ Priority \in [Jobs -> Nat] /\ MaxRetries \in [Jobs -> 0..3]
  /\ MaxConcurrent \in Nat \ {0} /\ Requests \in Nat

VARIABLES up,          \* the node's process
          state,       \* the state of each record
          line,        \* the queued records, by queued_at
          held,        \* the records whose reservation is not released
          retries,     \* retry_count
          probing,     \* the job whose capabilities the dispatcher awaits: it is dispatching
          executions,  \* calls of executeGenericJob that have not returned
          controller,  \* which execution entry.controller aborts, if any
          requests,
          overridden,  \* history: a record was cancelled under its own execution
          preempted,   \* history: the job being probed was cancelled
          wanted       \* history: jobs whose cancel reached all there was of them, until a retry

vars == <<up, state, line, held, retries, probing, executions, controller,
          requests, overridden, preempted, wanted>>
records == <<state, line, held, retries, executions, controller>>
history == <<overridden, preempted, wanted>>

Terminal == {"succeeded", "failed", "cancelled", "expired", "blocked"}

(* An execution is known by the retry_count it was started at: every way   *)
(* back into the queue raises it.                                          *)
Attempts == 0..(3 + Requests)
NoAttempt == 4 + Requests
Executions == [job : Jobs, attempt : Attempts, aborted : BOOLEAN, timedOut : BOOLEAN]

TypeOK ==
  /\ up \in BOOLEAN
  /\ state \in [Jobs -> {"none", "queued", "running"} \cup Terminal]
  /\ line \in Seq(Jobs)
  /\ \A j \in Jobs : Cardinality({i \in DOMAIN line : line[i] = j}) = IF state[j] = "queued" THEN 1 ELSE 0
  /\ held \subseteq Jobs
  /\ retries \in [Jobs -> Attempts] /\ \A j \in Jobs : retries[j] <= MaxRetries[j] + requests
  /\ probing \in Jobs \cup {None}
  /\ executions \subseteq Executions
  /\ controller \in [Jobs -> Attempts \cup {NoAttempt}]
  /\ requests \in 0..Requests
  /\ overridden \in BOOLEAN /\ preempted \in BOOLEAN /\ wanted \subseteq Jobs

Init ==
  /\ up = TRUE /\ state = [j \in Jobs |-> "none"] /\ line = <<>> /\ held = {}
  /\ retries = [j \in Jobs |-> 0] /\ probing = None
  /\ executions = {} /\ controller = [j \in Jobs |-> NoAttempt]
  /\ requests = 0 /\ overridden = FALSE /\ preempted = FALSE /\ wanted = {}

----------------------------------------------------------------------------
(* Helpers. *)

(* Mutant of Allowed: the table lacks one pair. *)
AllowedNoRetrying(from, to) ==
  \/ from = to
  \/ from = "queued"  /\ to \in {"scheduled", "cancelled", "expired", "blocked"}
  \/ from = "running" /\ to \in {"succeeded", "failed", "cancelled", "expired"}

(* isMswarmLifecycleStateTransitionAllowed; any other change is an exception. *)
Allowed(from, to) ==
  \/ from = to
  \/ from = "queued"  /\ to \in {"scheduled", "cancelled", "expired", "blocked"}
  \/ from = "running" /\ to \in {"succeeded", "failed", "cancelled", "retrying", "expired"}

(* An exception in the dispatcher or after an execution is a rejection that *)
(* nobody handles: it ends the process, and its records with it.           *)
Dies == up' = FALSE /\ UNCHANGED <<records, probing>>

(* A record that is not queued has no place in the line; one that is has one. *)
WithoutJob(q, j) ==
  IF \E i \in DOMAIN q : q[i] = j
  THEN LET place == CHOOSE i \in DOMAIN q : q[i] = j
       IN  SubSeq(q, 1, place - 1) \o SubSeq(q, place + 1, Len(q))
  ELSE q

(* activeEntries, in the step's new state. *)
Active(st) == {j \in Jobs : st[j] = "running"}

(* nextDispatchableEntry: the lowest priority number, then the longest queued. *)
Before(q, i, k) == \/ Priority[q[i]] < Priority[q[k]]
                   \/ Priority[q[i]] = Priority[q[k]] /\ i <= k

Foremost(q) == {q[i] : i \in {n \in DOMAIN q : \A k \in DOMAIN q : Before(q, n, k)}}

HasRoom(st) == Cardinality(Active(st)) < MaxConcurrent

(* Mutant of SameTenant: every head is taken for the active tenant's. *)
AnyTenant(j, st, h) == TRUE

(* activeTenantId: the reservations of the active records are of one tenant. *)
SameTenant(j, st, h) == \A k \in Active(st) \cap h : Tenant[k] = Tenant[j]

(* One turn of the dispatcher's loop, up to its await: it chooses a job and *)
(* probes for it, or returns.  A head of another tenant stops it.          *)
Turn(st, q, h) ==
  IF HasRoom(st) /\ \E j \in Foremost(q) : SameTenant(j, st, h)
  THEN CHOOSE j \in Foremost(q) : TRUE
  ELSE None

(* dispatchQueued does nothing while the dispatcher awaits a probe. *)
DispatchQueued == probing' = IF probing # None THEN probing ELSE Turn(state', line', held')

----------------------------------------------------------------------------
(* The client's requests. *)

(* create of a new job; its microtask follows the handler at once. *)
Create(j) ==
  /\ up /\ state[j] = "none"
  /\ state' = [state EXCEPT ![j] = "queued"]
  /\ line' = Append(line, j)
  /\ UNCHANGED <<up, held, retries, executions, controller, requests, history>>
  /\ DispatchQueued

Running(j) == {e \in executions : e.job = j}

(* The first cancel of a job that entry.controller still belongs to aborts *)
(* the execution, which may end otherwise all the same.                    *)
Abort(j) ==
  \E e \in Running(j) :
    /\ e.attempt = controller[j] /\ ~e.aborted
    /\ executions' = (executions \ {e}) \cup {[e EXCEPT !.aborted = TRUE]}
    /\ UNCHANGED <<state, line, held, overridden, preempted>>

(* Otherwise the record is cancelled on the spot, an execution or not, and *)
(* whether or not the dispatcher is about to start it.  Nothing is         *)
(* dispatched.                                                             *)
Override(j) ==
  /\ \A e \in Running(j) : e.attempt = controller[j] => e.aborted
  /\ state' = [state EXCEPT ![j] = "cancelled"]
  /\ line' = WithoutJob(line, j)
  /\ held' = held \ {j}
  /\ overridden' = (overridden \/ Running(j) # {})
  /\ preempted' = (preempted \/ probing = j)
  /\ UNCHANGED executions

Cancel(j) ==
  /\ up /\ state[j] \notin Terminal \cup {"none"}
  /\ requests < Requests /\ requests' = requests + 1
  /\ Abort(j) \/ Override(j)
  /\ wanted' = IF \A e \in executions' : e.job = j => e.aborted /\ ~e.timedOut
               THEN wanted \cup {j} ELSE wanted
  /\ UNCHANGED <<up, retries, probing, controller>>

(* retry: past the table of transitions, back into the queue. *)
Retry(j) ==
  /\ up /\ state[j] \in Terminal \ {"succeeded"}
  /\ requests < Requests /\ requests' = requests + 1
  /\ state' = [state EXCEPT ![j] = "queued"]
  /\ line' = Append(line, j)
  /\ held' = held \ {j}
  /\ retries' = [retries EXCEPT ![j] = @ + 1]
  /\ wanted' = wanted \ {j}
  /\ UNCHANGED <<up, executions, controller, overridden, preempted>>
  /\ DispatchQueued

----------------------------------------------------------------------------
(* The dispatcher after its await. *)

(* schedule and runScheduled, and the dispatcher's next turn. *)
Scheduled(j) ==
  /\ state' = [state EXCEPT ![j] = "running"]
  /\ line' = WithoutJob(line, j)
  /\ held' = held \cup {j}
  /\ executions' = executions \cup {[job |-> j, attempt |-> retries[j], aborted |-> FALSE, timedOut |-> FALSE]}
  /\ controller' = [controller EXCEPT ![j] = retries[j]]
  /\ probing' = Turn(state', line', held')
  /\ UNCHANGED <<up, retries>>

Start(j) ==
  /\ up /\ probing = j
  /\ IF Allowed(state[j], "scheduled") THEN Scheduled(j) ELSE Dies
  /\ UNCHANGED <<requests, history>>

(* The probe finds that the node cannot run the job. *)
Blocked(j) ==
  /\ state' = [state EXCEPT ![j] = "blocked"]
  /\ line' = WithoutJob(line, j)
  /\ probing' = Turn(state', line', held)
  /\ UNCHANGED <<up, held, retries, executions, controller>>

Mismatch(j) ==
  /\ up /\ probing = j
  /\ IF Allowed(state[j], "blocked") THEN Blocked(j) ELSE Dies
  /\ UNCHANGED <<requests, history>>

----------------------------------------------------------------------------
(* An execution returns. *)

(* Mutant of TimesOut: the timer does not ask whether a cancel came first. *)
TimesOutAlways(e) ==
  /\ up /\ ~e.timedOut
  /\ executions' = (executions \ {e}) \cup {[e EXCEPT !.timedOut = TRUE]}
  /\ UNCHANGED <<up, state, line, held, retries, probing, controller, requests, history>>

(* The timer of executeGenericJob: its signal keeps the first reason.      *)
TimesOut(e) ==
  /\ up /\ ~e.timedOut /\ ~e.aborted
  /\ executions' = (executions \ {e}) \cup {[e EXCEPT !.timedOut = TRUE]}
  /\ UNCHANGED <<up, state, line, held, retries, probing, controller, requests, history>>

(* A runner that is aborted may still succeed or fail; otherwise the first *)
(* reason is the verdict.                                                  *)
Verdicts(e) ==
  {"succeeded", "failed"} \cup (IF e.timedOut THEN {"timeout"}
                                ELSE IF e.aborted THEN {"cancelled"} ELSE {})

(* shouldRetry *)
ShouldRetry(j, verdict) == verdict = "timeout" /\ retries[j] < MaxRetries[j]

(* scheduleRetry *)
Requeued(j) ==
  /\ state' = [state EXCEPT ![j] = "queued"]
  /\ line' = Append(WithoutJob(line, j), j)
  /\ held' = held \ {j}
  /\ retries' = [retries EXCEPT ![j] = @ + 1]

(* Mutant of Settled: the reservation is not released. *)
SettledUnreleased(j, to) ==
  /\ state' = [state EXCEPT ![j] = to]
  /\ line' = WithoutJob(line, j)
  /\ UNCHANGED <<held, retries>>

Settled(j, to) ==
  /\ state' = [state EXCEPT ![j] = to]
  /\ line' = WithoutJob(line, j)
  /\ held' = held \ {j}
  /\ UNCHANGED retries

(* Mutant of Return: no dispatchQueued at its end. *)
ReturnUndispatched(e, verdict) ==
  LET j  == e.job
      to == IF verdict = "timeout" THEN "failed" ELSE verdict
      Retries == ShouldRetry(j, verdict)
  IN /\ up
     /\ IF Allowed(state[j], IF Retries THEN "retrying" ELSE to)
        THEN /\ IF Retries THEN Requeued(j) ELSE Settled(j, to)
             /\ executions' = executions \ {e}
             /\ controller' = [controller EXCEPT ![j] = NoAttempt]
             /\ UNCHANGED <<up, probing>>
        ELSE Dies
     /\ UNCHANGED <<requests, history>>

(* The rest of runScheduled: it writes the record, whoever that is about now. *)
Return(e, verdict) ==
  LET j  == e.job
      to == IF verdict = "timeout" THEN "failed" ELSE verdict
      Retries == ShouldRetry(j, verdict)
  IN /\ up
     /\ IF Allowed(state[j], IF Retries THEN "retrying" ELSE to)
        THEN /\ IF Retries THEN Requeued(j) ELSE Settled(j, to)
             /\ executions' = executions \ {e}
             /\ controller' = [controller EXCEPT ![j] = NoAttempt]
             /\ UNCHANGED up
             /\ DispatchQueued
        ELSE Dies
     /\ UNCHANGED <<requests, history>>

----------------------------------------------------------------------------
ProbeReturns == \E j \in Jobs : Start(j) \/ Mismatch(j)
ExecutionReturns == \E e \in executions : \E v \in Verdicts(e) : Return(e, v)
TimersFire == \E e \in executions : TimesOut(e)
Client == \E j \in Jobs : Create(j) \/ Cancel(j) \/ Retry(j)

Next == Client \/ ProbeReturns \/ TimersFire \/ ExecutionReturns

Spec == Init /\ [][Next]_vars

(* A probe has a timeout, and so has an execution, whose runner heeds it.   *)
FairSpec == Spec /\ WF_vars(ProbeReturns) /\ WF_vars(ExecutionReturns)

----------------------------------------------------------------------------
(* Properties. *)

(* The node never executes more jobs than its limit, nor jobs of two       *)
(* tenants, although both are judged by the records and before an await;   *)
(* only a second cancel of a job that still executes (README, section 4)   *)
(* frees a place that is not free.                                         *)
ReservationsHold ==
  overridden \/ /\ Cardinality(executions) <= MaxConcurrent
                /\ \A d, e \in executions : Tenant[d.job] = Tenant[e.job]

(* The record, the queue, the reservation, the controller and the          *)
(* execution agree: a job said to be running is executing once, is         *)
(* reserved and can be aborted; no other job executes or holds the node.   *)
RecordsAgree ==
  /\ TypeOK
  /\ \/ overridden
     \/ /\ held = Active(state)
        /\ \A j \in Jobs : /\ state[j] = "running" <=> Running(j) # {}
                           /\ \A d, e \in Running(j) : d = e /\ e.attempt = controller[j]

(* The process ends on an illegal transition only after a cancel reached a *)
(* job that was being probed, or a job that was still executing.           *)
DiesOnlyByCancel == up \/ overridden \/ preempted

(* A job whose cancel was accepted is not started again until a client     *)
(* retries it, whatever its execution makes of the cancel: a timeout that  *)
(* comes after it is no reason to queue the job again.  Not "wanted" is    *)
(* only a cancel that comes after a timeout, which the retry policy may    *)
(* follow, or that misses an execution left over from a second cancel.     *)
CancelHonoured ==
  [][\A j \in wanted \cap wanted' :
       \A e \in executions' \ executions : e.job = j => e.aborted]_vars

(* Every queued job is started, refused or cancelled once the clients      *)
(* pause: no wake-up of the dispatcher is lost while it awaits a probe, or *)
(* after a cancel, which wakes nobody.                                     *)
QueueDrains == []<>(line = <<>> \/ ~up)

(* The node's process survives its jobs. *)
NodeStaysUp == up
=============================================================================
