------------------------- MODULE RelayJobExecution -------------------------
(***************************************************************************)
(* One claimed job from claim to settled promise: executeRelayJobClaim     *)
(* with the parts of executeJob that talk back to it (onStarted,           *)
(* onOpenAIChunk, the failed result of its catch).  The node posts a       *)
(* start, batches of stream events and, up to MaxAttempts times, a result; *)
(* the gateway may process a request whose answer is lost, and a 404 means *)
(* it does not speak this protocol.  Module RelayDaemon sees the outcome.  *)
(***************************************************************************)
EXTENDS Integers, Sequences, FiniteSets

CONSTANTS
  MaxChunks,    \* bound: the chunks one stream has at most
  BatchSize,    \* DEFAULT_STREAM_EVENT_BATCH_SIZE
  MaxAttempts   \* 1 + Len(RELAY_RESULT_POST_RETRY_DELAYS_MS)

ASSUME SizesAssumption ==
  MaxChunks \in Nat /\ BatchSize \in Nat \ {0} /\ MaxAttempts \in Nat \ {0}

VARIABLES
  stage,
  chatStreaming,
  detached,              \* the run's event sink is not awaited (emitRuntimeEvent)
  streamEvents,          \* every chunk the run produced (chunk numbers)
  pendingStreamEvents,
  flights,               \* the event posts in flight
  streamEventForwardingFailed,
  forwardedStreamEventCount,
  result,                \* what executeJob returned, as flushing has altered it
  posted,                \* the payload of the result posts
  attempt,               \* result posts made so far
  outcome,               \* how the promise settled
  gwStarted, gwEvents, gwResults,  \* external: what the gateway has processed
  ran, ackLost, mismatch,          \* history: model invoked, answer lost, 404 on start or events
  overlapped                       \* history: a flush, or the result, began while a post was in flight

streamVars == <<chatStreaming, detached, streamEvents, pendingStreamEvents, flights,
                streamEventForwardingFailed, forwardedStreamEventCount, overlapped>>
gatewayVars == <<gwStarted, gwEvents, gwResults>>
historyVars == <<ran, ackLost, mismatch>>
vars == <<stage, streamVars, result, posted, attempt, outcome, gatewayVars, historyVars>>

Stages == {"accepted", "starting", "running", "lastFlush", "flushing", "flushed", "posting", "waiting",
           "settled", "dropped"}
Outcomes == {"none", "resolved", "mismatch", "threw"}

NoResult == [status |-> "none", preStart |-> FALSE]
Succeeded == [status |-> "success", preStart |-> FALSE]
FailedBeforeStart == [status |-> "failed", preStart |-> TRUE]
FailedAfterStart == [status |-> "failed", preStart |-> FALSE]
Results == [status : {"none", "success", "failed"}, preStart : BOOLEAN]

Chunks == 1..MaxChunks
Payloads == [result : Results, events : Seq(Chunks)]

TypeOK ==
  /\ stage \in Stages /\ {chatStreaming, detached, overlapped} \subseteq BOOLEAN
  /\ streamEvents \in Seq(Chunks) /\ pendingStreamEvents \in Seq(Chunks)
  /\ flights \in SUBSET [events : Seq(Chunks), last : BOOLEAN]
  /\ streamEventForwardingFailed \in BOOLEAN
  /\ forwardedStreamEventCount \in 0..MaxChunks
  /\ result \in Results /\ posted \in Payloads /\ attempt \in 0..MaxAttempts /\ outcome \in Outcomes
  /\ gwStarted \in BOOLEAN /\ gwEvents \in Seq(Chunks) /\ gwResults \in SUBSET Payloads
  /\ ran \in BOOLEAN /\ ackLost \in BOOLEAN /\ mismatch \in BOOLEAN

Init ==
  /\ stage = "accepted" /\ chatStreaming \in BOOLEAN /\ detached \in BOOLEAN
  /\ streamEvents = <<>> /\ pendingStreamEvents = <<>> /\ flights = {}
  /\ streamEventForwardingFailed = FALSE /\ forwardedStreamEventCount = 0
  /\ result = NoResult /\ posted = [result |-> NoResult, events |-> <<>>] /\ attempt = 0 /\ outcome = "none"
  /\ gwStarted = FALSE /\ gwEvents = <<>> /\ gwResults = {}
  /\ ran = FALSE /\ ackLost = FALSE /\ mismatch = FALSE /\ overlapped = FALSE

(* How a request ends: answered, or thrown with the gateway having processed it or not, *)
(* or 404.                                                                               *)
Answers == {"ok", "lostAnswer", "lostRequest", "missing"}
Processed(answer) == answer \in {"ok", "lostAnswer"}
NoteAnswer(answer) ==
  /\ ackLost' = (ackLost \/ answer = "lostAnswer")
  /\ mismatch' = (mismatch \/ answer = "missing")

-----------------------------------------------------------------------------
(* executeJob up to acknowledgeStarted. *)

(* The result of executeJob is there; executeRelayJobClaim goes on to the last flush. *)
Finish(r) == result' = r /\ stage' = "lastFlush"

FailsBeforeStart ==
  /\ stage = "accepted"
  /\ Finish(FailedBeforeStart)
  /\ UNCHANGED <<streamVars, posted, attempt, outcome, gatewayVars, historyVars>>

PostsStart ==
  /\ stage = "accepted" /\ stage' = "starting"
  /\ UNCHANGED <<streamVars, result, posted, attempt, outcome, gatewayVars, historyVars>>

(* onStarted throws on every error, so jobStarted stays false and the job fails unstarted. *)
AfterStart(answer) ==
  IF answer = "ok" THEN stage' = "running" /\ ran' = TRUE /\ UNCHANGED result
  ELSE Finish(FailedBeforeStart) /\ UNCHANGED ran

StartAnswered(answer) ==
  /\ stage = "starting"
  /\ gwStarted' = (gwStarted \/ Processed(answer))
  /\ NoteAnswer(answer)
  /\ AfterStart(answer)
  /\ UNCHANGED <<streamVars, posted, attempt, outcome, gwEvents, gwResults>>

-----------------------------------------------------------------------------
(* What is posted. *)

(* postedResult: events go with the result only if forwarding failed, from the first one    *)
(* that is not known to be forwarded.                                                        *)
PostedEvents ==
  IF chatStreaming /\ streamEventForwardingFailed
  THEN SubSeq(streamEvents, forwardedStreamEventCount + 1, Len(streamEvents))
  ELSE <<>>

(* The payload of every attempt is built once. *)
PostsResult == posted' = [result |-> result, events |-> PostedEvents]

-----------------------------------------------------------------------------
(* The run and its stream. *)

(* A flush splices all pending events into a post of their own. *)
Flight(events, last) == [events |-> events, last |-> last]

(* onOpenAIChunk; only a streaming chat job produces chunks.  The event sink of the Codali  *)
(* runtime is not awaited: a detached run goes on while earlier flushes are in flight.      *)
EmitsChunk ==
  /\ stage = "running" /\ chatStreaming /\ Len(streamEvents) < MaxChunks
  /\ detached \/ flights = {}
  /\ LET chunk == Len(streamEvents) + 1
         pending == Append(pendingStreamEvents, chunk)
     IN  /\ streamEvents' = Append(streamEvents, chunk)
         /\ IF streamEventForwardingFailed THEN UNCHANGED <<pendingStreamEvents, flights, overlapped>>
            ELSE IF Len(pending) >= BatchSize
            THEN /\ pendingStreamEvents' = <<>>
                 /\ flights' = flights \cup {Flight(pending, FALSE)}
                 /\ overlapped' = (overlapped \/ flights # {})
            ELSE pendingStreamEvents' = pending /\ UNCHANGED <<flights, overlapped>>
  /\ UNCHANGED <<stage, chatStreaming, detached, streamEventForwardingFailed, forwardedStreamEventCount,
                 result, posted, attempt, outcome, gatewayVars, historyVars>>

RunEnds(r) ==
  /\ stage = "running" /\ r \in {Succeeded, FailedAfterStart}
  /\ detached \/ flights = {}
  /\ Finish(r)
  /\ UNCHANGED <<streamVars, posted, attempt, outcome, gatewayVars, historyVars>>

NothingToFlush == pendingStreamEvents = <<>> \/ streamEventForwardingFailed

(* The flush after executeJob; what other flushes have in flight is not waited for. *)
LastFlush ==
  /\ stage = "lastFlush"
  /\ IF NothingToFlush
     THEN /\ stage' = "posting" /\ attempt' = 1 /\ PostsResult
          /\ UNCHANGED <<flights, pendingStreamEvents>>
     ELSE /\ flights' = flights \cup {Flight(pendingStreamEvents, TRUE)}
          /\ pendingStreamEvents' = <<>>
          /\ stage' = "flushing"
          /\ UNCHANGED <<attempt, posted>>
  /\ overlapped' = (overlapped \/ flights # {})
  /\ UNCHANGED <<chatStreaming, detached, streamEvents, streamEventForwardingFailed,
                 forwardedStreamEventCount, result, outcome, gatewayVars, historyVars>>

(* Mutant: the batch is counted whatever the post answers. *)
CountSent(flight, answer) ==
  forwardedStreamEventCount' = forwardedStreamEventCount + Len(flight.events)

(* What a flush counts as forwarded; a batch whose post threw is not. *)
CountForwarded(flight, answer) ==
  forwardedStreamEventCount' =
    forwardedStreamEventCount + IF answer = "ok" THEN Len(flight.events) ELSE 0

(* Mutant: the failure of the last flush is swallowed like the others. *)
ResultKept(answer) == result

(* A 404 on the last flush turns whatever the run returned into a failed result. *)
AfterLastFlush(answer) == IF answer = "missing" THEN FailedAfterStart ELSE result

(* After a flush: the last one lets the result be posted; a 404 during an awaited run is   *)
(* rethrown through the chunk handler and fails the run; a detached run never hears of it. *)
(* When the 404 cannot be noted on disk either, the last flush throws that error: the      *)
(* promise is rejected and no result is posted.                                            *)
AfterFlush(flight, answer) ==
  IF flight.last
  THEN /\ result' = AfterLastFlush(answer)
       /\ \/ stage' = "flushed" /\ UNCHANGED outcome
          \/ answer = "missing" /\ stage' = "dropped" /\ outcome' = "threw"
  ELSE /\ UNCHANGED outcome
       /\ IF answer = "missing" /\ ~ detached THEN Finish(FailedAfterStart)
          ELSE UNCHANGED <<stage, result>>

FlushAnswered(flight, answer) ==
  /\ flight \in flights
  /\ flights' = flights \ {flight}
  /\ gwEvents' = IF Processed(answer) THEN gwEvents \o flight.events ELSE gwEvents
  /\ CountForwarded(flight, answer)
  /\ streamEventForwardingFailed' = (streamEventForwardingFailed \/ answer # "ok")
  /\ NoteAnswer(answer)
  /\ AfterFlush(flight, answer)
  /\ UNCHANGED <<chatStreaming, detached, overlapped, streamEvents, pendingStreamEvents, attempt, posted,
                 gwStarted, gwResults, ran>>

-----------------------------------------------------------------------------
(* The result. *)

FirstPost ==
  /\ stage = "flushed"
  /\ stage' = "posting" /\ attempt' = 1 /\ PostsResult
  /\ UNCHANGED <<streamVars, result, outcome, gatewayVars, historyVars>>

(* Mutant: the promise resolves when the attempts are used up. *)
ResultGivenUp(answer) ==
  /\ stage = "posting"
  /\ gwResults' = IF Processed(answer) THEN gwResults \cup {posted} ELSE gwResults
  /\ ackLost' = (ackLost \/ answer = "lostAnswer")
  /\ IF answer = "ok" \/ attempt = MaxAttempts THEN stage' = "settled" /\ outcome' = "resolved"
     ELSE stage' = "waiting" /\ UNCHANGED outcome
  /\ UNCHANGED <<streamVars, result, posted, attempt, gwStarted, gwEvents, ran, mismatch>>

(* The answer decides what follows an attempt; every error is retried, 404 and 410 too. *)
ResultAnswered(answer) ==
  /\ stage = "posting"
  /\ gwResults' = IF Processed(answer) THEN gwResults \cup {posted} ELSE gwResults
  /\ ackLost' = (ackLost \/ answer = "lostAnswer")
  /\ IF answer = "ok" THEN stage' = "settled" /\ outcome' = "resolved"
     ELSE IF attempt < MaxAttempts THEN stage' = "waiting" /\ UNCHANGED outcome
     ELSE /\ stage' = "settled"
          /\ outcome' = IF answer = "missing" THEN "mismatch" ELSE "threw"
  /\ UNCHANGED <<streamVars, result, posted, attempt, gwStarted, gwEvents, ran, mismatch>>

(* Mutant: a retry that starts counting again. *)
PostsForever ==
  /\ stage = "waiting" /\ stage' = "posting" /\ attempt' = 1
  /\ UNCHANGED <<streamVars, result, posted, outcome, gatewayVars, historyVars>>

(* sleep(retryDelayMs), then the next attempt. *)
PostsAgain ==
  /\ stage = "waiting" /\ stage' = "posting" /\ attempt' = attempt + 1
  /\ UNCHANGED <<streamVars, result, posted, outcome, gatewayVars, historyVars>>

Settled == stage \in {"settled", "dropped"} /\ UNCHANGED vars

Next ==
  \/ FailsBeforeStart \/ PostsStart \/ EmitsChunk \/ LastFlush \/ FirstPost
  \/ PostsAgain \/ Settled
  \/ \E r \in {Succeeded, FailedAfterStart} : RunEnds(r)
  \/ \E answer \in Answers :
       \/ StartAnswered(answer) \/ ResultAnswered(answer)
       \/ \E flight \in flights : FlushAnswered(flight, answer)

(* Requests, runs and sleeps all end: each has a timeout. *)
Spec == Init /\ [][Next]_vars /\ WF_vars(Next)

-----------------------------------------------------------------------------
(* Properties *)

Held(events) == {events[i] : i \in 1..Len(events)}

(* When nothing of the job is in flight any more, a result the gateway has and    *)
(* the events it was sent hold every chunk the run produced, whichever posts      *)
(* failed on the way; when no answer was lost either, each chunk once and in      *)
(* order.  A detached run keeps this only as long as no flush and no result       *)
(* overtakes a post in flight: the count of forwarded chunks assumes it.          *)
EventsDelivered ==
  ~ overlapped =>
    \A payload \in gwResults :
      /\ flights = {} => 1..Len(streamEvents) \subseteq Held(gwEvents \o payload.events)
      /\ ~ ackLost => gwEvents \o payload.events = streamEvents

(* The verdict is true.  A result that says the job failed before it started is   *)
(* never posted for a job whose model was invoked, so the gateway may give such a *)
(* job to another node; and a node that met a 404 on start or events never        *)
(* reports success, unless the run is detached and never hears of it.             *)
VerdictIsTrue ==
  \A payload \in gwResults :
    /\ payload.result.preStart => ~ ran
    /\ mismatch /\ ~ detached => payload.result.status = "failed"

(* The promise resolves only if the gateway has the result, and every attempt of  *)
(* one job carries the same payload; there are never more attempts or counted     *)
(* chunks than there may be (TypeOK).                                             *)
ResolvedMeansDelivered ==
  /\ TypeOK
  /\ outcome = "resolved" => gwResults # {}
  /\ \A a, b \in gwResults : a = b

(* Every claimed job settles, so its slot in the lane is always given back.       *)
JobSettles == <>(stage \in {"settled", "dropped"})
=============================================================================
