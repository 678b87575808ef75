----------------------- MODULE RelayJobExecutionProofs -----------------------
(* Theorems about RelayJobExecution, for any number of chunks, any batch    *)
(* size and any number of attempts.                                         *)
EXTENDS RelayJobExecution, SequenceTheorems, FiniteSetTheorems, TLAPS

-----------------------------------------------------------------------------
(* Sequences of chunks.                                                     *)

LEMMA ChunkSeq ==
  \A s \in Seq(Chunks) : /\ Len(s) \in Nat /\ s \in [1..Len(s) -> Chunks]
                         /\ s = <<>> <=> Len(s) = 0
BY EmptySeq, LenProperties

LEMMA Appended ==
  \A s \in Seq(Chunks), e \in Chunks :
    /\ Append(s, e) \in Seq(Chunks) /\ Len(Append(s, e)) = Len(s) + 1
    /\ \A i \in 1..Len(s) : Append(s, e)[i] = s[i]
    /\ Append(s, e)[Len(s) + 1] = e
BY ChunkSeq, AppendProperties

LEMMA Joined ==
  \A s, t \in Seq(Chunks) :
    /\ s \o t \in Seq(Chunks) /\ Len(s \o t) = Len(s) + Len(t)
    /\ \A i \in 1..Len(s) : (s \o t)[i] = s[i]
    /\ \A i \in 1..Len(t) : (s \o t)[Len(s) + i] = t[i]
    /\ s \o <<>> = s
<1> SUFFICES ASSUME NEW s \in Seq(Chunks), NEW t \in Seq(Chunks)
             PROVE  /\ s \o t \in Seq(Chunks) /\ Len(s \o t) = Len(s) + Len(t)
                    /\ \A i \in 1..Len(s) : (s \o t)[i] = s[i]
                    /\ \A i \in 1..Len(t) : (s \o t)[Len(s) + i] = t[i]
                    /\ s \o <<>> = s
  OBVIOUS
<1>1. Len(s) \in Nat /\ Len(t) \in Nat
  BY ChunkSeq
<1>2. /\ s \o t \in Seq(Chunks) /\ Len(s \o t) = Len(s) + Len(t)
      /\ \A i \in 1..(Len(s) + Len(t)) : (s \o t)[i] = IF i <= Len(s) THEN s[i] ELSE t[i - Len(s)]
  BY ConcatProperties
<1>3. s \o <<>> = s
  BY ConcatEmptySeq
<1>4. ASSUME NEW i \in 1..Len(t) PROVE (s \o t)[Len(s) + i] = t[i]
  <2>1. Len(s) + i \in 1..(Len(s) + Len(t)) /\ ~(Len(s) + i <= Len(s)) /\ (Len(s) + i) - Len(s) = i
    BY <1>1
  <2> QED BY <1>2, <2>1
<1> QED BY <1>1, <1>2, <1>3, <1>4

(* What is left of a sequence of which the first k are known to be gone.    *)
LEMMA Left ==
  \A s \in Seq(Chunks), k \in Nat :
    /\ SubSeq(s, k + 1, Len(s)) \in Seq(Chunks)
    /\ k <= Len(s) => /\ Len(SubSeq(s, k + 1, Len(s))) = Len(s) - k
                      /\ \A i \in 1..(Len(s) - k) : SubSeq(s, k + 1, Len(s))[i] = s[k + i]
<1> SUFFICES ASSUME NEW s \in Seq(Chunks), NEW k \in Nat
             PROVE  /\ SubSeq(s, k + 1, Len(s)) \in Seq(Chunks)
                    /\ k <= Len(s) =>
                         /\ Len(SubSeq(s, k + 1, Len(s))) = Len(s) - k
                         /\ \A i \in 1..(Len(s) - k) : SubSeq(s, k + 1, Len(s))[i] = s[k + i]
  OBVIOUS
<1> DEFINE n == Len(s)
<1>1. n \in Nat /\ k + 1 \in Int /\ n \in Int /\ \A i \in (k + 1)..n : s[i] \in Chunks
  BY ChunkSeq
<1>2. /\ SubSeq(s, k + 1, n) \in Seq(Chunks)
      /\ Len(SubSeq(s, k + 1, n)) = IF k + 1 <= n THEN n - (k + 1) + 1 ELSE 0
      /\ \A i \in 1..(n - (k + 1) + 1) : SubSeq(s, k + 1, n)[i] = s[(k + 1) + i - 1]
  BY <1>1, SubSeqProperties
<1> HIDE DEF n
<1>3. n - (k + 1) + 1 = n - k
  BY <1>1
<1>4. k <= n => Len(SubSeq(s, k + 1, n)) = n - k
  BY <1>1, <1>2
<1>5. ASSUME NEW i \in 1..(n - k) PROVE SubSeq(s, k + 1, n)[i] = s[k + i]
  <2>1. (k + 1) + i - 1 = k + i
    BY <1>1
  <2> QED BY <1>2, <1>3, <2>1
<1>6. SubSeq(s, k + 1, n) \in Seq(Chunks)
  BY <1>2
<1> QED BY <1>4, <1>5, <1>6 DEF n

-----------------------------------------------------------------------------
(* The verdict, stage by stage.                                             *)

Unended == {"accepted", "starting", "running"}
Late    == {"posting", "waiting", "settled"}

Flights == [events : Seq(Chunks), last : BOOLEAN]

(* TypeOK but for the bound of what is counted as forwarded.                *)
Shapes ==
  /\ stage \in Stages /\ {chatStreaming, detached, overlapped} \subseteq BOOLEAN
  /\ streamEvents \in Seq(Chunks) /\ pendingStreamEvents \in Seq(Chunks)
  /\ flights \in SUBSET Flights
  /\ streamEventForwardingFailed \in BOOLEAN
  /\ forwardedStreamEventCount \in Nat
  /\ result \in Results /\ posted \in Payloads /\ attempt \in 0..MaxAttempts /\ outcome \in Outcomes
  /\ gwStarted \in BOOLEAN /\ gwEvents \in Seq(Chunks) /\ gwResults \in SUBSET Payloads
  /\ ran \in BOOLEAN /\ ackLost \in BOOLEAN /\ mismatch \in BOOLEAN
  /\ stage = "waiting" => attempt < MaxAttempts

Verdicts ==
  /\ stage \in Unended => result = NoResult
  /\ stage \in {"accepted", "starting"} => ~ran
  /\ result.preStart => ~ran
  /\ mismatch /\ ~detached => result.status = "failed"
  /\ IF stage \in Late THEN posted.result = result /\ gwResults \subseteq {posted}
     ELSE gwResults = {} /\ outcome # "resolved"
  /\ outcome = "resolved" => gwResults # {}

(* An awaited run has at most one post in flight, and waits for it; only    *)
(* the last flush is answered afterwards.                                   *)
InFlight ==
  /\ \A f \in flights : IF f.last THEN stage = "flushing" ELSE detached \/ stage = "running"
  /\ \A f, g \in flights : (f.last /\ g.last) \/ ~detached => f = g

Told == Shapes /\ Verdicts /\ InFlight

LEMMA ResultTypes ==
  /\ {NoResult, Succeeded, FailedBeforeStart, FailedAfterStart} \subseteq Results
  /\ ~NoResult.preStart /\ ~Succeeded.preStart /\ FailedBeforeStart.preStart /\ ~FailedAfterStart.preStart
  /\ NoResult.status = "none" /\ Succeeded.status = "success"
  /\ FailedBeforeStart.status = "failed" /\ FailedAfterStart.status = "failed"
BY DEF NoResult, Succeeded, FailedBeforeStart, FailedAfterStart, Results

LEMMA ToldInit == Init => Told
<1> SUFFICES ASSUME Init PROVE Told
  OBVIOUS
<1>1. <<>> \in Seq(Chunks)
  OBVIOUS
<1>2. [result |-> NoResult, events |-> <<>>] \in Payloads
  BY <1>1, ResultTypes DEF Payloads
<1>3. Shapes
  <2>1. 0 \in 0..MaxAttempts /\ "accepted" \in Stages /\ "none" \in Outcomes /\ 0 \in Nat
    BY SizesAssumption DEF Stages, Outcomes
  <2>2. result = NoResult /\ posted = [result |-> NoResult, events |-> <<>>]
    BY DEF Init
  <2>3. result \in Results /\ posted \in Payloads
    BY <1>2, <2>2, ResultTypes
  <2> QED BY <1>1, <2>1, <2>3 DEF Init, Shapes
<1>4. Verdicts
  BY ResultTypes DEF Init, Verdicts, Unended, Late
<1>5. InFlight
  BY DEF Init, InFlight
<1> QED BY <1>3, <1>4, <1>5 DEF Told

(* A chunk is collected, and the batch it fills is posted.                  *)
LEMMA Emitted ==
  ASSUME Shapes, EmitsChunk
  PROVE  /\ stage = "running" /\ chatStreaming /\ (detached \/ flights = {})
         /\ Len(streamEvents) + 1 \in Chunks
         /\ streamEvents' = Append(streamEvents, Len(streamEvents) + 1)
         /\ Append(pendingStreamEvents, Len(streamEvents) + 1) \in Seq(Chunks)
         /\ UNCHANGED <<stage, chatStreaming, detached, streamEventForwardingFailed,
                        forwardedStreamEventCount, result, posted, attempt, outcome, gatewayVars,
                        historyVars>>
         /\ overlapped' \in BOOLEAN /\ (overlapped => overlapped')
         /\ \/ /\ streamEventForwardingFailed
               /\ UNCHANGED <<pendingStreamEvents, flights>>
            \/ /\ ~streamEventForwardingFailed /\ UNCHANGED flights
               /\ pendingStreamEvents' = Append(pendingStreamEvents, Len(streamEvents) + 1)
            \/ /\ ~streamEventForwardingFailed /\ pendingStreamEvents' = <<>>
               /\ flights' = flights \cup
                    {Flight(Append(pendingStreamEvents, Len(streamEvents) + 1), FALSE)}
               /\ flights # {} => overlapped'
<1>1. Len(streamEvents) \in Nat /\ Len(streamEvents) < MaxChunks
  BY ChunkSeq DEF Shapes, EmitsChunk
<1>2. Len(streamEvents) + 1 \in Chunks
  BY <1>1, SizesAssumption DEF Chunks
<1>3. Append(pendingStreamEvents, Len(streamEvents) + 1) \in Seq(Chunks)
  BY <1>2, Appended DEF Shapes
<1> DEFINE chunk == Len(streamEvents) + 1
           pending == Append(pendingStreamEvents, chunk)
           busy == flights # {}
<1>4. /\ stage = "running" /\ chatStreaming /\ (detached \/ flights = {})
      /\ streamEvents' = Append(streamEvents, chunk)
      /\ IF streamEventForwardingFailed THEN UNCHANGED <<pendingStreamEvents, flights, overlapped>>
         ELSE IF Len(pending) >= BatchSize
         THEN /\ pendingStreamEvents' = <<>>
              /\ flights' = flights \cup {Flight(pending, FALSE)}
              /\ overlapped' = (overlapped \/ busy)
         ELSE pendingStreamEvents' = pending /\ UNCHANGED <<flights, overlapped>>
      /\ UNCHANGED <<stage, chatStreaming, detached, streamEventForwardingFailed,
                     forwardedStreamEventCount, result, posted, attempt, outcome, gatewayVars,
                     historyVars>>
  BY DEF EmitsChunk
<1>5. overlapped \in BOOLEAN
  BY DEF Shapes
<1>6. pending \in Seq(Chunks) /\ chunk \in Chunks
  BY <1>2, <1>3
<1> HIDE DEF chunk, pending, busy
<1>7. overlapped' \in BOOLEAN /\ (overlapped => overlapped')
  BY <1>4, <1>5
<1>8. \/ streamEventForwardingFailed /\ UNCHANGED <<pendingStreamEvents, flights>>
      \/ ~streamEventForwardingFailed /\ UNCHANGED flights /\ pendingStreamEvents' = pending
      \/ /\ ~streamEventForwardingFailed /\ pendingStreamEvents' = <<>>
         /\ flights' = flights \cup {Flight(pending, FALSE)} /\ (busy => overlapped')
  BY <1>4, <1>5
<1> QED BY <1>4, <1>6, <1>7, <1>8 DEF chunk, pending, busy

(* The last flush is skipped, or posted.                                    *)
LEMMA LastFlushed ==
  ASSUME Shapes, LastFlush
  PROVE  /\ stage = "lastFlush"
         /\ UNCHANGED <<chatStreaming, detached, streamEvents, streamEventForwardingFailed,
                        forwardedStreamEventCount, result, outcome, gatewayVars, historyVars>>
         /\ overlapped' \in BOOLEAN /\ (overlapped => overlapped') /\ (flights # {} => overlapped')
         /\ \/ /\ pendingStreamEvents = <<>> \/ streamEventForwardingFailed
               /\ stage' = "posting" /\ attempt' = 1 /\ PostsResult
               /\ UNCHANGED <<flights, pendingStreamEvents>>
            \/ /\ ~(pendingStreamEvents = <<>> \/ streamEventForwardingFailed)
               /\ flights' = flights \cup {Flight(pendingStreamEvents, TRUE)}
               /\ pendingStreamEvents' = <<>> /\ stage' = "flushing"
               /\ UNCHANGED <<attempt, posted>>
<1> DEFINE busy == flights # {}
<1>1. overlapped' = (overlapped \/ busy) /\ overlapped \in BOOLEAN
  BY DEF LastFlush, Shapes
<1> HIDE DEF busy
<1>2. overlapped' \in BOOLEAN /\ (overlapped => overlapped') /\ (busy => overlapped')
  BY <1>1
<1> QED BY <1>2 DEF LastFlush, NothingToFlush, busy

LEMMA FlightTypes ==
  \A events \in Seq(Chunks), last \in BOOLEAN :
    /\ Flight(events, last) \in Flights
    /\ Flight(events, last).events = events /\ Flight(events, last).last = last
BY DEF Flight, Flights

LEMMA Noted ==
  ASSUME Shapes, NEW answer \in Answers, NoteAnswer(answer)
  PROVE  /\ ackLost' \in BOOLEAN /\ (ackLost => ackLost') /\ (answer = "lostAnswer" => ackLost')
         /\ mismatch' \in BOOLEAN /\ (mismatch' => mismatch \/ answer = "missing")
         /\ answer # "lostAnswer" /\ ackLost' => ackLost
BY DEF Shapes, NoteAnswer

LEMMA PostedTypes ==
  ASSUME Shapes, PostsResult
  PROVE  posted' \in Payloads /\ posted'.result = result /\ posted'.events = PostedEvents
<1>1. <<>> \in Seq(Chunks)
  OBVIOUS
<1>2. SubSeq(streamEvents, forwardedStreamEventCount + 1, Len(streamEvents)) \in Seq(Chunks)
  BY Left DEF Shapes
<1>3. PostedEvents \in Seq(Chunks)
  BY <1>1, <1>2 DEF PostedEvents
<1> QED BY <1>3 DEF PostsResult, Payloads, Shapes

LEMMA ShapesStep == Shapes /\ [Next]_vars => Shapes'
<1> SUFFICES ASSUME Shapes, [Next]_vars PROVE Shapes'
  OBVIOUS
<1> USE ResultTypes, SizesAssumption
<1>1. CASE FailsBeforeStart \/ PostsStart
  BY <1>1 DEF FailsBeforeStart, PostsStart, Finish, Shapes, Stages, streamVars, gatewayVars, historyVars
<1>2. CASE EmitsChunk
  <2>1. Append(streamEvents, Len(streamEvents) + 1) \in Seq(Chunks)
    BY <1>2, Emitted, Appended DEF Shapes
  <2> DEFINE pending == Append(pendingStreamEvents, Len(streamEvents) + 1)
  <2>6. /\ pending \in Seq(Chunks) /\ pendingStreamEvents' \in {pendingStreamEvents, pending, <<>>}
        /\ flights' = flights \/ flights' = flights \cup {Flight(pending, FALSE)}
    BY <1>2, Emitted
  <2> HIDE DEF pending
  <2>7. <<>> \in Seq(Chunks) /\ pendingStreamEvents \in Seq(Chunks)
        /\ flights \in SUBSET Flights
    BY DEF Shapes
  <2>2. pendingStreamEvents' \in Seq(Chunks)
    BY <2>6, <2>7
  <2>3. flights' \in SUBSET Flights
    BY <2>6, <2>7, FlightTypes
  <2>4. streamEvents' \in Seq(Chunks) /\ overlapped' \in BOOLEAN
    BY <1>2, <2>1, Emitted
  <2>5. UNCHANGED <<stage, chatStreaming, detached, streamEventForwardingFailed,
                    forwardedStreamEventCount, result, posted, attempt, outcome, gatewayVars,
                    historyVars>>
    BY <1>2, Emitted
  <2> QED BY <2>2, <2>3, <2>4, <2>5 DEF Shapes, gatewayVars, historyVars
<1>3. CASE LastFlush
  <2>1. /\ UNCHANGED <<chatStreaming, detached, streamEvents, streamEventForwardingFailed,
                       forwardedStreamEventCount, result, outcome, gatewayVars, historyVars>>
        /\ overlapped' \in BOOLEAN /\ stage' \in {"posting", "flushing"}
        /\ pendingStreamEvents' \in {pendingStreamEvents, <<>>}
        /\ attempt' = 1 \/ attempt' = attempt
        /\ posted' = posted \/ PostsResult
        /\ flights' = flights \/ flights' = flights \cup {Flight(pendingStreamEvents, TRUE)}
    BY <1>3, LastFlushed
  <2>2. posted' \in Payloads
    BY <2>1, PostedTypes DEF Shapes
  <2>3. <<>> \in Seq(Chunks) /\ pendingStreamEvents \in Seq(Chunks)
        /\ flights \in SUBSET Flights /\ attempt \in 0..MaxAttempts
    BY DEF Shapes
  <2>4. flights' \in SUBSET Flights
    BY <2>1, <2>3, FlightTypes
  <2>5. pendingStreamEvents' \in Seq(Chunks)
    BY <2>1, <2>3
  <2>6. attempt' \in 0..MaxAttempts
    <3>1. 1 \in 0..MaxAttempts
      BY SizesAssumption
    <3> QED BY <2>1, <2>3, <3>1
  <2> QED BY <2>1, <2>2, <2>4, <2>5, <2>6 DEF Shapes, Stages, gatewayVars, historyVars
<1>4. CASE FirstPost
  <2>1. posted' \in Payloads
    BY <1>4, PostedTypes DEF FirstPost
  <2> QED BY <1>4, <2>1 DEF FirstPost, Shapes, Stages, streamVars, gatewayVars, historyVars
<1>5. CASE PostsAgain
  BY <1>5 DEF PostsAgain, Shapes, Stages, streamVars, gatewayVars, historyVars
<1>6. CASE Settled \/ UNCHANGED vars
  BY <1>6 DEF Settled, vars, Shapes, streamVars, gatewayVars, historyVars
<1>7. ASSUME NEW r \in {Succeeded, FailedAfterStart}, RunEnds(r) PROVE Shapes'
  BY <1>7 DEF RunEnds, Finish, Shapes, Stages, streamVars, gatewayVars, historyVars
<1>8. ASSUME NEW answer \in Answers, StartAnswered(answer) PROVE Shapes'
  <2>1. ackLost' \in BOOLEAN /\ mismatch' \in BOOLEAN
    BY <1>8, Noted DEF StartAnswered
  <2>2. gwStarted' \in BOOLEAN
    BY <1>8 DEF StartAnswered, Processed, Shapes
  <2>3. stage' \in Stages \ {"waiting"} /\ ran' \in BOOLEAN /\ result' \in Results
    BY <1>8 DEF StartAnswered, AfterStart, Finish, Shapes, Stages
  <2> QED BY <1>8, <2>1, <2>2, <2>3 DEF StartAnswered, Shapes, streamVars
<1>9. ASSUME NEW answer \in Answers, ResultAnswered(answer) PROVE Shapes'
  <2>1. gwResults' \in SUBSET Payloads
    BY <1>9 DEF ResultAnswered, Shapes
  <2>2. stage' \in Stages /\ outcome' \in Outcomes /\ (stage' = "waiting" => attempt < MaxAttempts)
    BY <1>9 DEF ResultAnswered, Shapes, Stages, Outcomes
  <2>3. ackLost' \in BOOLEAN
    BY <1>9 DEF ResultAnswered, Shapes
  <2> QED BY <1>9, <2>1, <2>2, <2>3 DEF ResultAnswered, Shapes, streamVars
<1>10. ASSUME NEW answer \in Answers, NEW flight \in flights, FlushAnswered(flight, answer) PROVE Shapes'
  <2>1. flight.events \in Seq(Chunks)
    BY DEF Shapes, Flights
  <2>2. gwEvents' \in Seq(Chunks)
    BY <1>10, <2>1, Joined DEF FlushAnswered, Shapes
  <2>3. forwardedStreamEventCount' \in Nat
    BY <1>10, <2>1, ChunkSeq DEF FlushAnswered, CountForwarded, Shapes
  <2>4. ackLost' \in BOOLEAN /\ mismatch' \in BOOLEAN
    BY <1>10, Noted DEF FlushAnswered
  <2>5. stage' \in Stages /\ (stage' = "waiting" => stage = "waiting") /\ result' \in Results
    BY <1>10 DEF FlushAnswered, AfterFlush, AfterLastFlush, Finish, Shapes, Stages
  <2>7. outcome' \in Outcomes
    BY <1>10 DEF FlushAnswered, AfterFlush, Shapes, Outcomes
  <2>6. streamEventForwardingFailed' \in BOOLEAN /\ flights' \in SUBSET Flights
    BY <1>10 DEF FlushAnswered, Shapes
  <2> QED BY <1>10, <2>2, <2>3, <2>4, <2>5, <2>6, <2>7 DEF FlushAnswered, Shapes
<1> QED BY <1>1, <1>2, <1>3, <1>4, <1>5, <1>6, <1>7, <1>8, <1>9, <1>10 DEF Next

LEMMA InFlightStep == Told /\ [Next]_vars => InFlight'
<1> SUFFICES ASSUME Told, [Next]_vars PROVE InFlight'
  OBVIOUS
<1> USE DEF Told
<1>a. /\ \A f \in flights : IF f.last THEN stage = "flushing" ELSE detached \/ stage = "running"
      /\ \A f, g \in flights : (f.last /\ g.last) \/ ~detached => f = g
      /\ \A f \in flights : f.last \in BOOLEAN
  BY DEF InFlight, Shapes, Flights
<1>1. ASSUME UNCHANGED <<flights, detached>>, stage' = stage \/ stage \notin {"running", "flushing"}
      PROVE  InFlight'
  BY <1>a, <1>1 DEF InFlight
<1>2. CASE FailsBeforeStart \/ PostsStart \/ FirstPost \/ PostsAgain \/ Settled \/ UNCHANGED vars
           \/ (\E answer \in Answers : StartAnswered(answer) \/ ResultAnswered(answer))
  BY <1>1, <1>2 DEF FailsBeforeStart, PostsStart, FirstPost, PostsAgain, Settled, StartAnswered,
     ResultAnswered, vars, streamVars
<1>3. CASE EmitsChunk
  <2> DEFINE new == Flight(Append(pendingStreamEvents, Len(streamEvents) + 1), FALSE)
  <2>1. /\ stage = "running" /\ stage' = stage /\ detached' = detached /\ (detached \/ flights = {})
        /\ flights' = flights \/ flights' = flights \cup {new}
    BY <1>3, Emitted
  <2>2. new.last = FALSE
    BY DEF Flight
  <2> HIDE DEF new
  <2> QED BY <1>a, <2>1, <2>2 DEF InFlight
<1>4. CASE LastFlush
  <2> DEFINE new == Flight(pendingStreamEvents, TRUE)
  <2>1. /\ stage = "lastFlush" /\ detached' = detached
        /\ \/ flights' = flights
           \/ stage' = "flushing" /\ flights' = flights \cup {new}
    BY <1>4, LastFlushed
  <2>2. new.last = TRUE
    BY DEF Flight
  <2> HIDE DEF new
  <2> QED BY <1>a, <2>1, <2>2 DEF InFlight
<1>5. ASSUME NEW r \in {Succeeded, FailedAfterStart}, RunEnds(r) PROVE InFlight'
  BY <1>a, <1>5 DEF RunEnds, streamVars, InFlight
<1>6. ASSUME NEW answer \in Answers, NEW flight \in flights, FlushAnswered(flight, answer) PROVE InFlight'
  <2>1. /\ flights' = flights \ {flight} /\ detached' = detached
        /\ \/ flight.last /\ stage' \in {"flushed", "dropped"}
           \/ ~flight.last /\ ~detached
           \/ ~flight.last /\ stage' = stage
    BY <1>6, <1>a DEF FlushAnswered, AfterFlush
  <2> QED BY <1>a, <2>1 DEF InFlight
<1> QED BY <1>2, <1>3, <1>4, <1>5, <1>6 DEF Next

LEMMA VerdictsStep == Told /\ [Next]_vars => Verdicts'
<1> SUFFICES ASSUME Told, [Next]_vars PROVE Verdicts'
  OBVIOUS
<1> USE ResultTypes DEF Told
<1>a. /\ stage \in Unended => result = NoResult
      /\ stage \in {"accepted", "starting"} => ~ran
      /\ result.preStart => ~ran
      /\ mismatch /\ ~detached => result.status = "failed"
      /\ stage \in Late => posted.result = result /\ gwResults \subseteq {posted}
      /\ stage \notin Late => gwResults = {} /\ outcome # "resolved"
      /\ outcome = "resolved" => gwResults # {}
  BY DEF Verdicts
<1>b. Unended \cap Late = {} /\ {"lastFlush", "flushing", "flushed", "dropped"} \cap (Unended \cup Late) = {}
      /\ Unended = {"accepted", "starting", "running"} /\ Late = {"posting", "waiting", "settled"}
  BY DEF Unended, Late
<1>1. CASE FailsBeforeStart \/ PostsStart
  BY <1>1, <1>a, <1>b DEF FailsBeforeStart, PostsStart, Finish, streamVars, gatewayVars, historyVars, Verdicts
<1>2. ASSUME NEW answer \in Answers, StartAnswered(answer) PROVE Verdicts'
  <2>1. mismatch' => mismatch \/ answer = "missing"
    BY <1>2, Noted DEF StartAnswered
  <2> QED BY <1>2, <1>a, <1>b, <2>1 DEF StartAnswered, AfterStart, Finish, streamVars, Verdicts
<1>3. CASE EmitsChunk
  <2>1. UNCHANGED <<stage, detached, result, posted, outcome, gatewayVars, historyVars>>
    BY <1>3, Emitted
  <2> QED BY <1>a, <2>1 DEF Verdicts, gatewayVars, historyVars
<1>4. ASSUME NEW r \in {Succeeded, FailedAfterStart}, RunEnds(r) PROVE Verdicts'
  BY <1>4, <1>a, <1>b DEF RunEnds, Finish, streamVars, gatewayVars, historyVars, Verdicts
<1>5. ASSUME stage \in {"lastFlush", "flushed"}, PostsResult, stage' = "posting",
             UNCHANGED <<detached, result, outcome, gatewayVars, historyVars>>
      PROVE  Verdicts'
  <2>1. posted'.result = result
    BY <1>5, PostedTypes
  <2> QED BY <1>5, <1>a, <1>b, <2>1 DEF gatewayVars, historyVars, Verdicts
<1>6. CASE LastFlush
  <2>1. /\ stage = "lastFlush" /\ UNCHANGED <<detached, result, outcome, gatewayVars, historyVars>>
        /\ (stage' = "posting" /\ PostsResult) \/ (stage' = "flushing" /\ posted' = posted)
    BY <1>6, LastFlushed
  <2>2. CASE stage' = "posting" /\ PostsResult
    BY <1>5, <2>1, <2>2
  <2>3. CASE stage' = "flushing" /\ posted' = posted
    BY <1>a, <1>b, <2>1, <2>3 DEF gatewayVars, historyVars, Verdicts
  <2> QED BY <2>1, <2>2, <2>3
<1>7. CASE FirstPost
  BY <1>5, <1>7 DEF FirstPost, streamVars
<1>8. CASE PostsAgain
  BY <1>8, <1>a, <1>b DEF PostsAgain, streamVars, gatewayVars, historyVars, Verdicts
<1>9. ASSUME NEW answer \in Answers, ResultAnswered(answer) PROVE Verdicts'
  <2>1. /\ stage = "posting" /\ stage' \in {"settled", "waiting"}
        /\ UNCHANGED <<detached, result, posted, ran, mismatch>>
    BY <1>9 DEF ResultAnswered, streamVars
  <2>2. gwResults' \subseteq {posted}
    BY <1>9, <1>a, <1>b DEF ResultAnswered
  <2>3. outcome' = "resolved" => gwResults' # {}
    BY <1>9, <1>a DEF ResultAnswered, Processed
  <2> QED BY <1>a, <1>b, <2>1, <2>2, <2>3 DEF Verdicts
<1>10. ASSUME NEW answer \in Answers, NEW flight \in flights, FlushAnswered(flight, answer) PROVE Verdicts'
  <2>1. /\ UNCHANGED <<detached, posted, gwResults, ran>>
        /\ outcome' = outcome \/ outcome' = "threw"
        /\ mismatch' => mismatch \/ answer = "missing"
    BY <1>10, Noted DEF FlushAnswered, AfterFlush
  <2>2. CASE flight.last
    <3>1. stage = "flushing" /\ stage' \in {"flushed", "dropped"}
          /\ result' = IF answer = "missing" THEN FailedAfterStart ELSE result
      BY <1>10, <2>2 DEF FlushAnswered, AfterFlush, AfterLastFlush, InFlight
    <3> QED BY <1>a, <1>b, <2>1, <3>1 DEF Verdicts
  <2>3. CASE ~flight.last /\ answer = "missing" /\ ~detached
    <3>1. stage = "running" /\ stage' = "lastFlush" /\ result' = FailedAfterStart
      BY <1>10, <2>3 DEF FlushAnswered, AfterFlush, Finish, InFlight
    <3> QED BY <1>a, <1>b, <2>1, <3>1 DEF Verdicts
  <2>4. CASE ~flight.last /\ ~(answer = "missing" /\ ~detached)
    <3>1. stage' = stage /\ result' = result
      BY <1>10, <2>4 DEF FlushAnswered, AfterFlush
    <3> QED BY <1>a, <2>1, <2>4, <3>1 DEF Verdicts
  <2> QED BY <2>2, <2>3, <2>4
<1>11. CASE Settled \/ UNCHANGED vars
  BY <1>11, <1>a DEF Settled, vars, streamVars, gatewayVars, historyVars, Verdicts
<1> QED BY <1>1, <1>2, <1>3, <1>4, <1>6, <1>7, <1>8, <1>9, <1>10, <1>11 DEF Next

LEMMA ToldStep == Told /\ [Next]_vars => Told'
BY ShapesStep, VerdictsStep, InFlightStep DEF Told

(* What the gateway is told of a job is true: a job that is said to have    *)
(* failed before its start never ran, and a node that met a 404 on the way  *)
(* never reports success, unless the run is detached and never hears of it. *)
THEOREM VerdictHolds == Spec => []VerdictIsTrue
<1>1. Told => VerdictIsTrue
  BY DEF Told, Verdicts, VerdictIsTrue
<1> QED BY <1>1, ToldInit, ToldStep, PTL DEF Spec

-----------------------------------------------------------------------------
(* The chunks and where they are: pending, in flight, or forwarded.         *)

Produced == Len(streamEvents)
Taken    == Produced - Len(pendingStreamEvents)

Span(events, base) ==
  Len(events) > 0 /\ \A i \in 1..Len(events) : events[i] = base + i

Ordered ==
  /\ \A i \in 1..Produced : streamEvents[i] = i
  /\ Produced <= MaxChunks
  /\ ~chatStreaming => Produced = 0
  /\ ~streamEventForwardingFailed =>
       /\ Len(pendingStreamEvents) <= Produced
       /\ \A i \in 1..Len(pendingStreamEvents) : pendingStreamEvents[i] = Taken + i
       /\ \A f \in flights : Held(f.events) \subseteq 1..Taken

Apart ==
  /\ \A f \in flights : Held(f.events) \subseteq 1..Produced
  /\ \A f \in flights : \E base \in Nat : Span(f.events, base)
  /\ \A f, g \in flights : f # g => Held(f.events) \cap Held(g.events) = {}

(* What is counted as forwarded are chunks that are in flight no longer.    *)
Counted ==
  \E gone \in SUBSET (1..Produced) :
    /\ forwardedStreamEventCount = Cardinality(gone)
    /\ \A f \in flights : Held(f.events) \cap gone = {}
    /\ ~streamEventForwardingFailed => gone \subseteq 1..Taken

ChunksOK == Shapes /\ Ordered /\ Apart /\ Counted

LEMMA SpanHeld ==
  ASSUME NEW events \in Seq(Chunks), NEW base \in Nat, Span(events, base)
  PROVE  /\ Held(events) = (base + 1)..(base + Len(events))
         /\ IsFiniteSet(Held(events)) /\ Cardinality(Held(events)) = Len(events)
<1>1. Len(events) \in Nat /\ Len(events) > 0 /\ \A i \in 1..Len(events) : events[i] = base + i
  BY ChunkSeq DEF Span
<1>2. Held(events) = (base + 1)..(base + Len(events))
  <2>1. ASSUME NEW x \in Held(events) PROVE x \in (base + 1)..(base + Len(events))
    BY <1>1, <2>1 DEF Held
  <2>2. ASSUME NEW x \in (base + 1)..(base + Len(events)) PROVE x \in Held(events)
    <3>1. x - base \in 1..Len(events) /\ base + (x - base) = x
      BY <1>1
    <3>2. events[x - base] = x
      BY <1>1, <3>1
    <3> QED BY <3>1, <3>2 DEF Held
  <2> QED BY <2>1, <2>2
<1>3. base + 1 \in Int /\ base + Len(events) \in Int /\ ~(base + 1 > base + Len(events))
      /\ (base + Len(events)) - (base + 1) + 1 = Len(events)
  BY <1>1
<1> QED BY <1>2, <1>3, FS_Interval

LEMMA Lengths ==
  Shapes => /\ Produced \in Nat /\ Len(pendingStreamEvents) \in Nat /\ Taken \in Int
            /\ forwardedStreamEventCount \in Nat
            /\ \A f \in flights : f.events \in Seq(Chunks) /\ f.last \in BOOLEAN
BY ChunkSeq DEF Shapes, Flights, Produced, Taken

LEMMA ChunksInit == Init => ChunksOK
<1> SUFFICES ASSUME Init PROVE ChunksOK
  OBVIOUS
<1>1. Shapes
  BY ToldInit DEF Told
<1>2. /\ streamEvents = <<>> /\ pendingStreamEvents = <<>> /\ flights = {}
      /\ forwardedStreamEventCount = 0
  BY DEF Init
<1>3. Produced = 0 /\ Len(pendingStreamEvents) = 0 /\ Taken = 0
  BY <1>1, <1>2, ChunkSeq DEF Shapes, Produced, Taken
<1>4. Ordered /\ Apart
  BY <1>2, <1>3, SizesAssumption DEF Ordered, Apart
<1>5. Counted
  BY <1>2, <1>3, FS_EmptySet DEF Counted
<1> QED BY <1>1, <1>4, <1>5 DEF ChunksOK

(* A batch leaves the pending chunks.                                       *)
LEMMA Leaves ==
  ASSUME ChunksOK, Shapes', NEW batch \in Seq(Chunks), NEW last \in BOOLEAN,
         ~streamEventForwardingFailed, ~streamEventForwardingFailed',
         Span(batch, Taken), Taken + Len(batch) = Produced', Produced' \in {Produced, Produced + 1},
         Taken' = Produced', forwardedStreamEventCount' = forwardedStreamEventCount,
         flights' = flights \cup {Flight(batch, last)}
  PROVE  /\ Apart' /\ Counted'
         /\ \A f \in flights' : Held(f.events) \subseteq 1..Produced'
<1> USE DEF ChunksOK
<1>1. /\ Produced \in Nat /\ Taken \in Nat /\ Produced' \in Nat /\ Taken <= Produced
      /\ Len(batch) \in Nat /\ Len(batch) > 0
  <2>1. /\ Produced \in Nat /\ Len(pendingStreamEvents) \in Nat
        /\ Len(pendingStreamEvents) <= Produced /\ Len(batch) \in Nat /\ Len(batch) > 0
    BY Lengths, ChunkSeq DEF Ordered, Span
  <2>2. Taken \in Nat /\ Taken <= Produced
    BY <2>1 DEF Taken
  <2>3. Produced' \in Nat
    BY <2>1
  <2> QED BY <2>1, <2>2, <2>3
<1> DEFINE new == Flight(batch, last)
<1>2. new.events = batch
  BY FlightTypes
<1>3. Held(batch) = (Taken + 1)..Produced'
  BY <1>1, SpanHeld
<1>4. \A f \in flights : Held(f.events) \subseteq 1..Taken
  BY DEF Ordered
<1> HIDE DEF new
<1>5. 1..Taken \subseteq 1..Produced' /\ 1..Produced \subseteq 1..Produced'
      /\ (1..Taken) \cap ((Taken + 1)..Produced') = {} /\ (Taken + 1)..Produced' \subseteq 1..Produced'
  BY <1>1
<1>6. flights' = flights \cup {new}
  BY DEF new
<1>7. \A f \in flights' : Held(f.events) \subseteq 1..Produced'
  BY <1>2, <1>3, <1>4, <1>5, <1>6
<1>8. \A f, g \in flights' : f # g => Held(f.events) \cap Held(g.events) = {}
  BY <1>2, <1>3, <1>4, <1>5, <1>6 DEF Apart
<1>9. \A f \in flights' : \E base \in Nat : Span(f.events, base)
  BY <1>1, <1>2, <1>6 DEF Apart
<1>10. Counted'
  <2>1. PICK gone \in SUBSET (1..Produced) :
          /\ forwardedStreamEventCount = Cardinality(gone)
          /\ \A f \in flights : Held(f.events) \cap gone = {}
          /\ gone \subseteq 1..Taken
    BY DEF Counted
  <2>2. \A f \in flights' : Held(f.events) \cap gone = {}
    BY <1>2, <1>3, <1>5, <1>6, <2>1
  <2>3. gone \in SUBSET (1..Produced') /\ gone \subseteq 1..Produced'
    BY <1>5, <2>1
  <2> QED BY <2>1, <2>2, <2>3 DEF Counted
<1> QED BY <1>7, <1>8, <1>9, <1>10 DEF Apart

(* Chunks that are counted were in flight, and are counted once.            *)
LEMMA Acknowledged ==
  ASSUME ChunksOK, Shapes', NEW flight \in flights, NEW answer \in Answers,
         FlushAnswered(flight, answer)
  PROVE  Ordered' /\ Apart' /\ Counted'
<1> USE DEF ChunksOK
<1>1. /\ flights' = flights \ {flight}
      /\ UNCHANGED <<chatStreaming, streamEvents, pendingStreamEvents>>
      /\ answer = "ok" => forwardedStreamEventCount' = forwardedStreamEventCount + Len(flight.events)
      /\ answer # "ok" => forwardedStreamEventCount' = forwardedStreamEventCount
      /\ streamEventForwardingFailed' = (streamEventForwardingFailed \/ answer # "ok")
  <2>1. answer # "ok" => forwardedStreamEventCount' = forwardedStreamEventCount + 0
    BY DEF FlushAnswered, CountForwarded
  <2> QED BY <2>1, Lengths DEF FlushAnswered, CountForwarded
<1>2. Produced' = Produced /\ Taken' = Taken
  BY <1>1 DEF Produced, Taken
<1>3. ~streamEventForwardingFailed' => ~streamEventForwardingFailed /\ answer = "ok"
  BY <1>1 DEF Shapes
<1>4. Ordered'
  BY <1>1, <1>2, <1>3 DEF Ordered
<1>5. Apart'
  BY <1>1, <1>2 DEF Apart
<1>6. Counted'
  <2>1. PICK gone \in SUBSET (1..Produced) :
          /\ forwardedStreamEventCount = Cardinality(gone)
          /\ \A f \in flights : Held(f.events) \cap gone = {}
          /\ ~streamEventForwardingFailed => gone \subseteq 1..Taken
    BY DEF Counted
  <2>2. CASE answer # "ok"
    BY <1>1, <1>2, <1>3, <2>1, <2>2 DEF Counted
  <2>3. CASE answer = "ok"
    <3> DEFINE new == Held(flight.events)
    <3>1. PICK base \in Nat : Span(flight.events, base)
      BY DEF Apart
    <3>2. IsFiniteSet(new) /\ Cardinality(new) = Len(flight.events)
      BY <3>1, Lengths, SpanHeld
    <3>3. IsFiniteSet(gone)
      <4>1. IsFiniteSet(1..Produced)
        BY Lengths, FS_Interval
      <4> QED BY <4>1, FS_Subset
    <3>4. new \cap gone = {} /\ new \subseteq 1..Produced
          /\ (~streamEventForwardingFailed => new \subseteq 1..Taken)
          /\ \A f \in flights' : Held(f.events) \cap new = {}
      BY <1>1, <2>1 DEF Ordered, Apart
    <3> HIDE DEF new
    <3>5. Cardinality(gone \cup new) = Cardinality(gone) + Cardinality(new)
      <4>1. Cardinality(gone \cup new)
              = Cardinality(gone) + Cardinality(new) - Cardinality(gone \cap new)
        BY <3>2, <3>3, FS_Union
      <4>2. gone \cap new = {}
        BY <3>4
      <4>3. Cardinality(gone \cap new) = 0
        BY <4>2, FS_EmptySet
      <4>4. Cardinality(gone) \in Nat /\ Cardinality(new) \in Nat
        BY <3>2, <3>3, FS_CardinalityType
      <4>5. \A c, n \in Nat : c + n - 0 = c + n
        OBVIOUS
      <4> QED BY <4>1, <4>3, <4>4, <4>5
    <3>6. forwardedStreamEventCount' = Cardinality(gone \cup new)
      BY <1>1, <2>1, <2>3, <3>2, <3>5
    <3>7. \A f \in flights' : Held(f.events) \cap (gone \cup new) = {}
      BY <1>1, <2>1, <3>4
    <3>8. gone \cup new \in SUBSET (1..Produced')
          /\ (~streamEventForwardingFailed' => gone \cup new \subseteq 1..Taken')
      BY <1>2, <1>3, <2>1, <3>4
    <3> QED BY <3>6, <3>7, <3>8 DEF Counted
  <2> QED BY <2>2, <2>3
<1> QED BY <1>4, <1>5, <1>6

LEMMA ChunksStep == ChunksOK /\ [Next]_vars => ChunksOK'
<1> SUFFICES ASSUME ChunksOK, [Next]_vars PROVE ChunksOK'
  OBVIOUS
<1>1. Shapes'
  BY ShapesStep DEF ChunksOK
<1>2. /\ Produced \in Nat /\ Len(pendingStreamEvents) \in Nat /\ Taken \in Int
      /\ ~streamEventForwardingFailed => Len(pendingStreamEvents) <= Produced
  BY Lengths DEF ChunksOK, Ordered
<1>3. CASE UNCHANGED streamVars
  <2>1. Produced' = Produced /\ Taken' = Taken
    BY <1>3 DEF streamVars, Produced, Taken
  <2> QED BY <1>1, <1>3, <2>1 DEF streamVars, ChunksOK, Ordered, Apart, Counted
<1>4. CASE EmitsChunk
  <2> DEFINE chunk == Produced + 1
             full == Append(pendingStreamEvents, chunk)
  <2>1. /\ chatStreaming' = chatStreaming /\ chatStreaming
        /\ streamEventForwardingFailed' = streamEventForwardingFailed
        /\ forwardedStreamEventCount' = forwardedStreamEventCount
        /\ streamEvents' = Append(streamEvents, chunk) /\ chunk \in Chunks
        /\ full \in Seq(Chunks)
        /\ \/ streamEventForwardingFailed /\ UNCHANGED <<pendingStreamEvents, flights>>
           \/ ~streamEventForwardingFailed /\ UNCHANGED flights /\ pendingStreamEvents' = full
           \/ /\ ~streamEventForwardingFailed /\ pendingStreamEvents' = <<>>
              /\ flights' = flights \cup {Flight(full, FALSE)}
    BY <1>4, Emitted DEF ChunksOK, Produced
  <2>2. /\ Produced' = Produced + 1 /\ \A i \in 1..Produced : streamEvents'[i] = streamEvents[i]
        /\ streamEvents'[Produced + 1] = chunk
    BY <2>1, Appended DEF ChunksOK, Shapes, Produced
  <2>3. \A i \in 1..Produced' : streamEvents'[i] = i
    BY <1>2, <2>2 DEF ChunksOK, Ordered
  <2>4. Produced' <= MaxChunks
    BY <2>1, <2>2, SizesAssumption DEF Chunks
  <2>5. /\ Len(full) = Len(pendingStreamEvents) + 1
        /\ \A i \in 1..Len(pendingStreamEvents) : full[i] = pendingStreamEvents[i]
        /\ full[Len(pendingStreamEvents) + 1] = chunk
    BY <2>1, Appended DEF ChunksOK, Shapes
  <2>6. ~streamEventForwardingFailed => \A i \in 1..Len(full) : full[i] = Taken + i
    <3> SUFFICES ASSUME ~streamEventForwardingFailed, NEW i \in 1..Len(full) PROVE full[i] = Taken + i
      OBVIOUS
    <3>1. CASE i \in 1..Len(pendingStreamEvents)
      BY <2>5, <3>1 DEF ChunksOK, Ordered
    <3>2. CASE i = Len(pendingStreamEvents) + 1
      <4>1. Taken + i = chunk
        BY <1>2, <3>2 DEF Taken
      <4> QED BY <2>5, <3>2, <4>1
    <3> QED BY <1>2, <2>5, <3>1, <3>2
  <2> HIDE DEF full, chunk
  <2>7. CASE streamEventForwardingFailed /\ UNCHANGED <<pendingStreamEvents, flights>>
    <3>1. 1..Produced \subseteq 1..Produced'
      BY <1>2, <2>2
    <3>2. Ordered'
      BY <2>1, <2>3, <2>4, <2>7 DEF Ordered
    <3>3. Apart'
      BY <2>7, <3>1 DEF ChunksOK, Apart
    <3>4. Counted'
      BY <2>1, <2>7, <3>1 DEF ChunksOK, Counted
    <3> QED BY <1>1, <3>2, <3>3, <3>4 DEF ChunksOK
  <2>8. CASE ~streamEventForwardingFailed /\ UNCHANGED flights /\ pendingStreamEvents' = full
    <3>1. 1..Produced \subseteq 1..Produced'
      BY <1>2, <2>2
    <3>2. Taken' = Taken /\ Len(pendingStreamEvents') <= Produced'
      BY <1>2, <2>2, <2>5, <2>8 DEF Taken
    <3>3. Ordered'
      BY <2>1, <2>3, <2>4, <2>6, <2>8, <3>2 DEF ChunksOK, Ordered
    <3>4. Apart'
      BY <2>8, <3>1 DEF ChunksOK, Apart
    <3>5. Counted'
      BY <2>1, <2>8, <3>1, <3>2 DEF ChunksOK, Counted
    <3> QED BY <1>1, <3>3, <3>4, <3>5 DEF ChunksOK
  <2>9. CASE /\ ~streamEventForwardingFailed /\ pendingStreamEvents' = <<>>
             /\ flights' = flights \cup {Flight(full, FALSE)}
    <3>1. Len(pendingStreamEvents') = 0 /\ Taken' = Produced'
      <4>1. Len(pendingStreamEvents') = 0
        BY <2>9
      <4> QED BY <1>2, <2>2, <4>1 DEF Taken
    <3>2. Span(full, Taken) /\ Taken + Len(full) = Produced'
      <4>1. Len(full) > 0
        BY <1>2, <2>5
      <4>2. Taken + Len(full) = Produced + 1
        BY <1>2, <2>5 DEF Taken
      <4> QED BY <2>2, <2>6, <2>9, <4>1, <4>2 DEF Span
    <3>3. Apart' /\ Counted' /\ \A f \in flights' : Held(f.events) \subseteq 1..Produced'
      BY <1>1, <2>1, <2>2, <2>9, <3>1, <3>2, Leaves
    <3>4. Ordered'
      <4>1. 0 <= Produced' /\ 1..0 = {}
        BY <1>2, <2>2
      <4> QED BY <2>1, <2>3, <2>4, <3>1, <3>3, <4>1 DEF Ordered
    <3> QED BY <1>1, <3>3, <3>4 DEF ChunksOK
  <2> QED BY <2>1, <2>7, <2>8, <2>9
<1>5. CASE LastFlush
  <2>1. /\ UNCHANGED <<chatStreaming, streamEvents, streamEventForwardingFailed,
                       forwardedStreamEventCount>>
        /\ \/ UNCHANGED <<flights, pendingStreamEvents>>
           \/ /\ ~(pendingStreamEvents = <<>> \/ streamEventForwardingFailed)
              /\ flights' = flights \cup {Flight(pendingStreamEvents, TRUE)}
              /\ pendingStreamEvents' = <<>>
    BY <1>5, LastFlushed DEF ChunksOK
  <2>2. Produced' = Produced
    BY <2>1 DEF Produced
  <2>3. CASE UNCHANGED <<flights, pendingStreamEvents>>
    <3>1. Taken' = Taken
      BY <2>2, <2>3 DEF Taken
    <3> QED BY <1>1, <2>1, <2>2, <2>3, <3>1 DEF ChunksOK, Ordered, Apart, Counted
  <2>4. CASE /\ ~(pendingStreamEvents = <<>> \/ streamEventForwardingFailed)
             /\ flights' = flights \cup {Flight(pendingStreamEvents, TRUE)}
             /\ pendingStreamEvents' = <<>>
    <3>1. Len(pendingStreamEvents') = 0 /\ Taken' = Produced'
      <4>1. Len(pendingStreamEvents') = 0
        BY <2>4
      <4> QED BY <1>2, <2>2, <4>1 DEF Taken
    <3>2. pendingStreamEvents \in Seq(Chunks) /\ Len(pendingStreamEvents) > 0
      BY <1>2, <2>4, ChunkSeq DEF ChunksOK, Shapes
    <3>3. Taken + Len(pendingStreamEvents) = Produced'
      BY <1>2, <2>2 DEF Taken
    <3>4. Span(pendingStreamEvents, Taken)
      BY <2>4, <3>2 DEF ChunksOK, Ordered, Span
    <3>5. Apart' /\ Counted' /\ \A f \in flights' : Held(f.events) \subseteq 1..Produced'
      BY <1>1, <2>1, <2>2, <2>4, <3>1, <3>2, <3>3, <3>4, Leaves
    <3>6. Ordered'
      BY <1>2, <2>1, <2>2, <3>1, <3>5 DEF ChunksOK, Ordered
    <3> QED BY <1>1, <3>5, <3>6 DEF ChunksOK
  <2> QED BY <2>1, <2>3, <2>4
<1>6. ASSUME NEW answer \in Answers, NEW flight \in flights, FlushAnswered(flight, answer) PROVE ChunksOK'
  BY <1>1, <1>6, Acknowledged DEF ChunksOK
<1>7. CASE FailsBeforeStart \/ PostsStart \/ FirstPost \/ PostsAgain \/ Settled \/ UNCHANGED vars
           \/ (\E answer \in Answers : StartAnswered(answer) \/ ResultAnswered(answer))
           \/ (\E r \in {Succeeded, FailedAfterStart} : RunEnds(r))
  BY <1>3, <1>7 DEF FailsBeforeStart, PostsStart, FirstPost, PostsAgain, Settled, StartAnswered,
     ResultAnswered, RunEnds, vars
<1> QED BY <1>4, <1>5, <1>6, <1>7 DEF Next

(* The count of forwarded chunks never exceeds the chunks there are.        *)
LEMMA Bounded == ChunksOK => forwardedStreamEventCount \in 0..MaxChunks
<1> SUFFICES ASSUME ChunksOK PROVE forwardedStreamEventCount \in 0..MaxChunks
  OBVIOUS
<1>1. Produced \in Nat /\ Produced <= MaxChunks /\ forwardedStreamEventCount \in Nat
  BY Lengths DEF ChunksOK, Ordered
<1>2. PICK gone \in SUBSET (1..Produced) : forwardedStreamEventCount = Cardinality(gone)
  BY DEF ChunksOK, Counted
<1>3. IsFiniteSet(1..Produced) /\ Cardinality(1..Produced) = Produced
  BY <1>1, FS_Interval
<1>4. Cardinality(gone) <= Produced
  BY <1>3, FS_Subset
<1> QED BY <1>1, <1>2, <1>4, SizesAssumption

(* Every variable keeps its type; for the count of forwarded chunks that    *)
(* rests on the bookkeeping above: it counts posted chunks, each once.      *)
THEOREM TypeCorrect == Spec => []TypeOK
<1>1. Shapes /\ forwardedStreamEventCount \in 0..MaxChunks => TypeOK
  BY DEF Shapes, TypeOK, Flights
<1> QED BY <1>1, Bounded, ChunksInit, ChunksStep, PTL DEF Spec, ChunksOK

(* A job is settled as done only if the gateway has a result, and whatever  *)
(* results it has are one and the same.                                     *)
THEOREM ResolvedHolds == Spec => []ResolvedMeansDelivered
<1>1. Told /\ TypeOK => ResolvedMeansDelivered
  BY DEF Told, Verdicts, ResolvedMeansDelivered
<1> QED BY <1>1, ToldInit, ToldStep, TypeCorrect, PTL DEF Spec

-----------------------------------------------------------------------------
(* Delivery.  As long as no post overtakes another there is one at a time,  *)
(* the count of forwarded chunks is where the next one starts, and the      *)
(* events of the result are what is missing from there.                     *)

Complete(events) ==
  /\ 1..Produced \subseteq Held(gwEvents \o events)
  /\ ~ackLost => gwEvents \o events = streamEvents

InOrder ==
  /\ \A f, g \in flights : f = g
  /\ streamEventForwardingFailed => flights = {}
  /\ ~streamEventForwardingFailed /\ flights = {} => forwardedStreamEventCount = Taken
  /\ \A f \in flights : /\ forwardedStreamEventCount + Len(f.events) = Taken
                        /\ Span(f.events, forwardedStreamEventCount)
  /\ forwardedStreamEventCount <= Produced
  /\ 1..forwardedStreamEventCount \subseteq Held(gwEvents)
  /\ ~ackLost => /\ Len(gwEvents) = forwardedStreamEventCount
                 /\ \A i \in 1..forwardedStreamEventCount : gwEvents[i] = i

Drained ==
  /\ stage \in {"flushed"} \cup Late => flights = {}
  /\ stage \in {"flushing", "flushed"} \cup Late =>
       streamEventForwardingFailed \/ pendingStreamEvents = <<>>
  /\ stage \in Late => Complete(posted.events)

DeliveryOK == Told /\ ChunksOK /\ (~overlapped => InOrder /\ Drained)

(* The chunks after the counted ones complete what the gateway has.         *)
LEMMA Completed ==
  ASSUME ChunksOK, InOrder, NEW rest \in Seq(Chunks),
         forwardedStreamEventCount + Len(rest) = Produced,
         \A i \in 1..Len(rest) : rest[i] = forwardedStreamEventCount + i
  PROVE  Complete(rest)
<1> DEFINE k == forwardedStreamEventCount
           all == gwEvents \o rest
<1>1. /\ gwEvents \in Seq(Chunks) /\ Len(gwEvents) \in Nat /\ Len(rest) \in Nat /\ k \in Nat
      /\ Produced \in Nat /\ k + Len(rest) = Produced
  BY ChunkSeq, Lengths DEF ChunksOK, Shapes
<1>2. /\ all \in Seq(Chunks) /\ Len(all) = Len(gwEvents) + Len(rest)
      /\ \A i \in 1..Len(gwEvents) : all[i] = gwEvents[i]
      /\ \A i \in 1..Len(rest) : all[Len(gwEvents) + i] = rest[i]
  BY <1>1, Joined
<1>3. \A i \in 1..Len(rest) : rest[i] = k + i
  OBVIOUS
<1>4. 1..k \subseteq Held(gwEvents) /\ (~ackLost => Len(gwEvents) = k /\ \A i \in 1..k : gwEvents[i] = i)
  BY DEF InOrder
<1> HIDE DEF k, all
<1>5. ASSUME NEW x \in 1..Produced PROVE x \in Held(all)
  <2>1. CASE x \in 1..k
    <3>1. PICK i \in 1..Len(gwEvents) : gwEvents[i] = x
      BY <1>4, <2>1 DEF Held
    <3>2. i \in 1..Len(all) /\ all[i] = x
      BY <1>1, <1>2, <3>1
    <3> QED BY <3>2 DEF Held
  <2>2. CASE x > k
    <3>1. x - k \in 1..Len(rest) /\ k + (x - k) = x
      BY <1>1, <2>2
    <3>2. all[Len(gwEvents) + (x - k)] = x
      BY <1>2, <1>3, <3>1
    <3>3. Len(gwEvents) + (x - k) \in 1..Len(all)
      BY <1>1, <1>2, <3>1
    <3> QED BY <3>2, <3>3 DEF Held
  <2> QED BY <1>1, <2>1, <2>2
<1>6. ASSUME ~ackLost PROVE all = streamEvents
  <2>1. Len(gwEvents) = k /\ \A i \in 1..k : gwEvents[i] = i
    BY <1>4, <1>6
  <2>2. Len(all) = Produced
    BY <1>1, <1>2, <2>1
  <2>3. ASSUME NEW i \in 1..Produced PROVE all[i] = i
    <3>1. CASE i \in 1..k
      BY <1>2, <2>1, <3>1
    <3>2. CASE i > k
      <4>1. i - k \in 1..Len(rest) /\ k + (i - k) = i
        BY <1>1, <3>2
      <4> QED BY <1>2, <1>3, <2>1, <4>1
    <3> QED BY <1>1, <3>1, <3>2
  <2>4. streamEvents \in Seq(Chunks) /\ Len(streamEvents) = Produced
        /\ \A i \in 1..Produced : streamEvents[i] = i
    BY DEF ChunksOK, Shapes, Ordered, Produced
  <2> QED BY <1>2, <2>2, <2>3, <2>4, SeqEqual
<1> QED BY <1>5, <1>6 DEF Complete, all

LEMMA Posts ==
  ASSUME ChunksOK, InOrder, PostsResult, flights = {},
         streamEventForwardingFailed \/ pendingStreamEvents = <<>>
  PROVE  Complete(posted'.events)
<1>1. posted'.events = PostedEvents
  BY PostedTypes DEF ChunksOK
<1>2. /\ Produced \in Nat /\ forwardedStreamEventCount \in Nat /\ forwardedStreamEventCount <= Produced
      /\ streamEvents \in Seq(Chunks)
  BY Lengths DEF ChunksOK, InOrder, Shapes
<1>3. CASE chatStreaming /\ streamEventForwardingFailed
  <2> DEFINE rest == SubSeq(streamEvents, forwardedStreamEventCount + 1, Len(streamEvents))
  <2>1. /\ rest \in Seq(Chunks) /\ Len(rest) = Produced - forwardedStreamEventCount
        /\ \A i \in 1..(Produced - forwardedStreamEventCount) :
             rest[i] = streamEvents[forwardedStreamEventCount + i]
    BY <1>2, Left DEF Produced
  <2>2. posted'.events = rest
    BY <1>1, <1>3 DEF PostedEvents
  <2> HIDE DEF rest
  <2>3. forwardedStreamEventCount + Len(rest) = Produced
    BY <1>2, <2>1
  <2>4. ASSUME NEW i \in 1..Len(rest) PROVE rest[i] = forwardedStreamEventCount + i
    <3>1. forwardedStreamEventCount + i \in 1..Produced
      BY <1>2, <2>1
    <3> QED BY <2>1, <3>1 DEF ChunksOK, Ordered
  <2> QED BY <2>1, <2>2, <2>3, <2>4, Completed
<1>4. CASE ~(chatStreaming /\ streamEventForwardingFailed)
  <2>1. posted'.events = <<>>
    BY <1>1, <1>4 DEF PostedEvents
  <2>2. <<>> \in Seq(Chunks) /\ Len(<<>>) = 0
    OBVIOUS
  <2>3. forwardedStreamEventCount = Produced
    <3>1. CASE streamEventForwardingFailed
      <4>1. Produced = 0
        BY <1>4, <3>1 DEF ChunksOK, Ordered, Shapes
      <4> QED BY <1>2, <4>1
    <3>2. CASE ~streamEventForwardingFailed
      <4>1. forwardedStreamEventCount = Taken /\ Len(pendingStreamEvents) = 0
        BY <3>2 DEF InOrder
      <4> QED BY <1>2, <4>1 DEF Taken
    <3> QED BY <3>1, <3>2
  <2> DEFINE rest == posted'.events
  <2>4. rest \in Seq(Chunks) /\ Len(rest) = 0
    BY <2>1, <2>2
  <2> HIDE DEF rest
  <2>5. forwardedStreamEventCount + Len(rest) = Produced
        /\ \A i \in 1..Len(rest) : rest[i] = forwardedStreamEventCount + i
    BY <1>2, <2>3, <2>4
  <2>6. Complete(rest)
    BY <2>4, <2>5, Completed
  <2> QED BY <2>6 DEF rest
<1> QED BY <1>3, <1>4

(* One post is answered while no other is in flight.                        *)
LEMMA AnsweredInOrder ==
  ASSUME Told, ChunksOK, ChunksOK', InOrder, NEW flight \in flights, NEW answer \in Answers,
         FlushAnswered(flight, answer)
  PROVE  InOrder' /\ flights' = {}
<1> USE DEF ChunksOK
<1> DEFINE k == forwardedStreamEventCount
           len == Len(flight.events)
<1>1. /\ flight.events \in Seq(Chunks) /\ len \in Nat /\ k \in Nat /\ Produced \in Nat /\ Taken \in Int
      /\ Taken <= Produced /\ gwEvents \in Seq(Chunks) /\ Len(gwEvents) \in Nat
  <2>1. ~streamEventForwardingFailed
    BY DEF InOrder
  <2>2. Len(pendingStreamEvents) \in Nat /\ Produced \in Nat
    BY Lengths
  <2>3. Taken <= Produced
    BY <2>2 DEF Taken
  <2> QED BY <2>3, Lengths, ChunkSeq DEF Shapes
<1>2. /\ k + len = Taken /\ \A i \in 1..len : flight.events[i] = k + i
      /\ 1..k \subseteq Held(gwEvents)
      /\ ~ackLost => Len(gwEvents) = k /\ \A i \in 1..k : gwEvents[i] = i
      /\ k <= Produced
  BY DEF InOrder, Span
<1>3. /\ flights' = {} /\ UNCHANGED <<streamEvents, pendingStreamEvents>>
      /\ gwEvents' = IF Processed(answer) THEN gwEvents \o flight.events ELSE gwEvents
      /\ answer = "ok" => k' = k + len
      /\ answer # "ok" => k' = k
      /\ streamEventForwardingFailed' = (streamEventForwardingFailed \/ answer # "ok")
  <2>1. answer # "ok" => k' = k + 0
    BY DEF FlushAnswered, CountForwarded
  <2>2. flights' = {}
    BY DEF FlushAnswered, InOrder
  <2> QED BY <1>1, <2>1, <2>2 DEF FlushAnswered, CountForwarded
<1>4. Produced' = Produced /\ Taken' = Taken
  BY <1>3 DEF Produced, Taken
<1>5. /\ Len(gwEvents \o flight.events) = Len(gwEvents) + len
      /\ \A i \in 1..Len(gwEvents) : (gwEvents \o flight.events)[i] = gwEvents[i]
      /\ \A i \in 1..len : (gwEvents \o flight.events)[Len(gwEvents) + i] = flight.events[i]
  BY <1>1, Joined
<1>6. (ackLost => ackLost') /\ (answer = "lostAnswer" => ackLost')
  BY Noted DEF FlushAnswered
<1>7. ~streamEventForwardingFailed' => answer = "ok"
  BY <1>3 DEF Shapes
<1> HIDE DEF k, len
<1>8. CASE answer = "ok"
  <2>1. gwEvents' = gwEvents \o flight.events /\ k' = k + len
    BY <1>3, <1>8 DEF Processed
  <2>2. k' = Taken /\ k' <= Produced
    BY <1>1, <1>2, <2>1
  <2>3. 1..k' \subseteq Held(gwEvents')
    <3> SUFFICES ASSUME NEW x \in 1..(k + len) PROVE x \in Held(gwEvents \o flight.events)
      BY <2>1
    <3>1. CASE x \in 1..k
      <4>1. PICK i \in 1..Len(gwEvents) : gwEvents[i] = x
        BY <1>2, <3>1 DEF Held
      <4>2. i \in 1..Len(gwEvents \o flight.events) /\ (gwEvents \o flight.events)[i] = x
        BY <1>1, <1>5, <4>1
      <4> QED BY <4>2 DEF Held
    <3>2. CASE x > k
      <4>1. x - k \in 1..len /\ k + (x - k) = x
        BY <1>1, <3>2
      <4>2. (gwEvents \o flight.events)[Len(gwEvents) + (x - k)] = x
        BY <1>2, <1>5, <4>1
      <4>3. Len(gwEvents) + (x - k) \in 1..Len(gwEvents \o flight.events)
        BY <1>1, <1>5, <4>1
      <4> QED BY <4>2, <4>3 DEF Held
    <3> QED BY <1>1, <3>1, <3>2
  <2>4. ASSUME ~ackLost' PROVE Len(gwEvents') = k' /\ \A i \in 1..k' : gwEvents'[i] = i
    <3>1. Len(gwEvents) = k /\ \A i \in 1..k : gwEvents[i] = i
      BY <1>2, <1>6, <2>4
    <3>2. Len(gwEvents \o flight.events) = k + len
      BY <1>5, <3>1
    <3>3. ASSUME NEW i \in 1..(k + len) PROVE (gwEvents \o flight.events)[i] = i
      <4>1. CASE i \in 1..k
        BY <1>5, <3>1, <4>1
      <4>2. CASE i > k
        <5>1. i - k \in 1..len /\ k + (i - k) = i
          BY <1>1, <4>2
        <5> QED BY <1>2, <1>5, <3>1, <5>1
      <4>3. i \in 1..k \/ i > k
        BY <1>1
      <4> QED BY <4>1, <4>2, <4>3
    <3> QED BY <2>1, <3>2, <3>3
  <2>5. InOrder'
    BY <1>3, <1>4, <1>8, <2>2, <2>3, <2>4 DEF InOrder, k
  <2> QED BY <1>3, <2>5
<1>9. CASE answer # "ok"
  <2>1. k' = k /\ streamEventForwardingFailed'
    BY <1>3, <1>9 DEF Shapes
  <2>2. 1..k \subseteq Held(gwEvents')
    <3>1. CASE gwEvents' = gwEvents
      BY <1>2, <3>1
    <3>2. CASE gwEvents' = gwEvents \o flight.events
      <4>1. \A x \in Held(gwEvents) : x \in Held(gwEvents \o flight.events)
        <5> SUFFICES ASSUME NEW i \in 1..Len(gwEvents)
                     PROVE  gwEvents[i] \in Held(gwEvents \o flight.events)
          BY DEF Held
        <5>1. i \in 1..Len(gwEvents \o flight.events) /\ (gwEvents \o flight.events)[i] = gwEvents[i]
          BY <1>1, <1>5
        <5> QED BY <5>1 DEF Held
      <4> QED BY <1>2, <3>2, <4>1
    <3> QED BY <1>3, <3>1, <3>2
  <2>3. ~ackLost' => gwEvents' = gwEvents /\ ~ackLost
    BY <1>3, <1>6, <1>9 DEF Processed
  <2>4. InOrder'
    BY <1>2, <1>3, <1>4, <2>1, <2>2, <2>3 DEF InOrder, k
  <2> QED BY <1>3, <2>4
<1> QED BY <1>8, <1>9

LEMMA DeliveryStep == DeliveryOK /\ [Next]_vars => DeliveryOK'
<1> SUFFICES ASSUME DeliveryOK, [Next]_vars PROVE DeliveryOK'
  OBVIOUS
<1>1. Told /\ Told' /\ ChunksOK /\ ChunksOK'
  BY ToldStep, ChunksStep DEF DeliveryOK
<1>s. Shapes /\ overlapped \in BOOLEAN /\ (~overlapped => InOrder /\ Drained)
  BY DEF DeliveryOK, Told, Shapes
<1> SUFFICES ASSUME ~overlapped' PROVE InOrder' /\ Drained'
  BY <1>1 DEF DeliveryOK
<1> DEFINE After(events) == /\ 1..Produced' \subseteq Held(gwEvents' \o events)
                            /\ ~ackLost' => gwEvents' \o events = streamEvents'
<1>a. After(posted'.events) => Complete(posted.events)'
  BY DEF Complete
<1>2. ASSUME UNCHANGED <<streamVars, gwEvents>>, ackLost => ackLost'
      PROVE  /\ Produced' = Produced /\ Taken' = Taken /\ InOrder'
             /\ \A events : Complete(events) => After(events)
  BY <1>2, <1>s DEF streamVars, Produced, Taken, InOrder, Complete
<1>l. {"lastFlush", "running", "starting", "accepted", "dropped"} \cap ({"flushing", "flushed"} \cup Late) = {}
      /\ Late = {"posting", "waiting", "settled"}
  BY DEF Late
<1> HIDE DEF After
<1>3. ASSUME UNCHANGED <<streamVars, gwEvents, posted>>, ackLost => ackLost',
             \/ stage' = stage \/ (stage \in Late /\ stage' \in Late)
             \/ stage' \in {"lastFlush", "running", "starting", "accepted"}
      PROVE  InOrder' /\ Drained'
  <2>1. Complete(posted.events) => Complete(posted.events)'
    <3>1. Complete(posted.events) => After(posted'.events)
      BY <1>2, <1>3
    <3> QED BY <1>a, <3>1
  <2> QED BY <1>2, <1>3, <1>l, <1>s, <2>1 DEF streamVars, Drained
<1>4. CASE FailsBeforeStart \/ PostsStart \/ PostsAgain \/ Settled \/ UNCHANGED vars
  BY <1>3, <1>4, <1>l DEF FailsBeforeStart, PostsStart, PostsAgain, Settled, Finish, vars, gatewayVars,
     historyVars
<1>5. ASSUME NEW r \in {Succeeded, FailedAfterStart}, RunEnds(r) PROVE InOrder' /\ Drained'
  BY <1>3, <1>5 DEF RunEnds, Finish, gatewayVars, historyVars
<1>6. ASSUME NEW answer \in Answers, StartAnswered(answer) PROVE InOrder' /\ Drained'
  <2>1. ackLost => ackLost'
    BY <1>6, <1>s, Noted DEF StartAnswered
  <2> QED BY <1>3, <1>6, <2>1 DEF StartAnswered, AfterStart, Finish
<1>7. ASSUME NEW answer \in Answers, ResultAnswered(answer) PROVE InOrder' /\ Drained'
  <2>1. ackLost => ackLost'
    BY <1>7 DEF ResultAnswered
  <2> QED BY <1>3, <1>7, <1>l, <2>1 DEF ResultAnswered
<1>8. CASE FirstPost
  <2>1. UNCHANGED <<streamVars, gwEvents, ackLost>> /\ PostsResult /\ stage = "flushed"
        /\ stage' = "posting"
    BY <1>8 DEF FirstPost, gatewayVars, historyVars
  <2>2. ~overlapped
    BY <2>1 DEF streamVars
  <2>3. flights = {} /\ (streamEventForwardingFailed \/ pendingStreamEvents = <<>>)
    BY <1>s, <2>1, <2>2 DEF Drained
  <2>4. Complete(posted'.events)
    BY <1>1, <1>s, <2>1, <2>2, <2>3, Posts
  <2>5. InOrder' /\ Complete(posted.events)'
    BY <1>2, <1>a, <2>1, <2>4
  <2>6. flights' = {} /\ (streamEventForwardingFailed' \/ pendingStreamEvents' = <<>>)
    BY <2>1, <2>3 DEF streamVars
  <2> QED BY <2>5, <2>6 DEF Drained
<1>9. CASE EmitsChunk
  <2> DEFINE full == Append(pendingStreamEvents, Len(streamEvents) + 1)
  <2>1. /\ stage = "running" /\ stage' = stage /\ ~overlapped
        /\ UNCHANGED <<streamEventForwardingFailed, forwardedStreamEventCount, posted, gwEvents, ackLost>>
        /\ streamEvents' = Append(streamEvents, Len(streamEvents) + 1)
        /\ full \in Seq(Chunks)
        /\ \/ streamEventForwardingFailed /\ UNCHANGED <<pendingStreamEvents, flights>>
           \/ ~streamEventForwardingFailed /\ UNCHANGED flights /\ pendingStreamEvents' = full
           \/ /\ ~streamEventForwardingFailed /\ pendingStreamEvents' = <<>> /\ flights = {}
              /\ flights' = flights \cup {Flight(full, FALSE)}
    BY <1>9, <1>s, Emitted DEF gatewayVars, historyVars
  <2>2. InOrder /\ Drained
    BY <1>s, <2>1
  <2>3. /\ Produced \in Nat /\ Len(pendingStreamEvents) \in Nat /\ forwardedStreamEventCount \in Nat
    BY <1>s, Lengths
  <2>4. /\ Produced' = Produced + 1 /\ Len(full) = Len(pendingStreamEvents) + 1
        /\ \A i \in 1..Len(pendingStreamEvents) : full[i] = pendingStreamEvents[i]
        /\ full[Len(pendingStreamEvents) + 1] = Produced + 1
    BY <1>9, <1>s, <2>1, Emitted, Appended DEF Shapes, Produced
  <2> HIDE DEF full
  <2>5. Drained'
    BY <1>l, <2>1 DEF Drained
  <2>6. forwardedStreamEventCount' <= Produced'
    BY <2>1, <2>2, <2>3, <2>4 DEF InOrder
  <2>7. CASE streamEventForwardingFailed /\ UNCHANGED <<pendingStreamEvents, flights>>
    <3>1. flights' = {}
      BY <2>2, <2>7 DEF InOrder
    <3> QED BY <2>1, <2>2, <2>5, <2>6, <2>7, <3>1 DEF InOrder
  <2>8. CASE ~streamEventForwardingFailed /\ UNCHANGED flights /\ pendingStreamEvents' = full
    <3>1. Taken' = Taken
      BY <2>3, <2>4, <2>8 DEF Taken
    <3> QED BY <2>1, <2>2, <2>5, <2>6, <2>8, <3>1 DEF InOrder
  <2>9. CASE /\ ~streamEventForwardingFailed /\ pendingStreamEvents' = <<>> /\ flights = {}
             /\ flights' = flights \cup {Flight(full, FALSE)}
    <3>1. Taken' = Produced + 1
      <4>1. Len(pendingStreamEvents') = 0
        BY <2>9
      <4> QED BY <2>3, <2>4, <4>1 DEF Taken
    <3>2. forwardedStreamEventCount = Taken
      BY <2>2, <2>9 DEF InOrder
    <3>3. Span(full, Taken) /\ Taken + Len(full) = Produced + 1
      <4>1. ASSUME NEW i \in 1..Len(full) PROVE full[i] = Taken + i
        <5>1. CASE i \in 1..Len(pendingStreamEvents)
          BY <1>1, <2>4, <2>9, <5>1 DEF ChunksOK, Ordered
        <5>2. CASE i = Len(pendingStreamEvents) + 1
          <6>1. Taken + i = Produced + 1
            BY <2>3, <5>2 DEF Taken
          <6> QED BY <2>4, <5>2, <6>1
        <5> QED BY <2>3, <2>4, <5>1, <5>2
      <4>2. Len(full) > 0 /\ Taken + Len(full) = Produced + 1
        BY <2>3, <2>4 DEF Taken
      <4> QED BY <4>1, <4>2 DEF Span
    <3>4. \A f \in flights' : f.events = full
      BY <2>1, <2>9, FlightTypes
    <3>5. flights' # {} /\ \A f, g \in flights' : f = g
      BY <2>9
    <3> QED BY <2>1, <2>2, <2>5, <2>6, <2>9, <3>1, <3>2, <3>3, <3>4, <3>5 DEF InOrder
  <2> QED BY <2>1, <2>7, <2>8, <2>9
<1>10. CASE LastFlush
  <2>1. /\ stage = "lastFlush" /\ ~overlapped /\ flights = {}
        /\ UNCHANGED <<chatStreaming, streamEvents, streamEventForwardingFailed,
                       forwardedStreamEventCount, gwEvents, ackLost>>
        /\ \/ /\ pendingStreamEvents = <<>> \/ streamEventForwardingFailed
              /\ stage' = "posting" /\ PostsResult /\ UNCHANGED <<flights, pendingStreamEvents>>
           \/ /\ ~(pendingStreamEvents = <<>> \/ streamEventForwardingFailed)
              /\ flights' = flights \cup {Flight(pendingStreamEvents, TRUE)}
              /\ pendingStreamEvents' = <<>> /\ stage' = "flushing"
    BY <1>10, <1>s, LastFlushed DEF gatewayVars, historyVars
  <2>2. InOrder /\ Drained
    BY <1>s, <2>1
  <2>3. Produced' = Produced /\ Produced \in Nat /\ Len(pendingStreamEvents) \in Nat
    BY <1>s, <2>1, Lengths DEF Produced
  <2>4. CASE /\ pendingStreamEvents = <<>> \/ streamEventForwardingFailed
             /\ stage' = "posting" /\ PostsResult /\ UNCHANGED <<flights, pendingStreamEvents>>
    <3>1. Complete(posted'.events)
      BY <1>1, <2>1, <2>2, <2>4, Posts
    <3>2. Complete(posted.events)'
      <4>1. After(posted'.events)
        BY <2>1, <2>3, <3>1 DEF Complete, After
      <4> QED BY <1>a, <4>1
    <3>3. Taken' = Taken
      BY <2>3, <2>4 DEF Taken
    <3>4. InOrder'
      BY <2>1, <2>2, <2>3, <2>4, <3>3 DEF InOrder
    <3> QED BY <2>1, <2>4, <3>2, <3>4 DEF Drained
  <2>5. CASE /\ ~(pendingStreamEvents = <<>> \/ streamEventForwardingFailed)
             /\ flights' = flights \cup {Flight(pendingStreamEvents, TRUE)}
             /\ pendingStreamEvents' = <<>> /\ stage' = "flushing"
    <3>1. Taken' = Produced
      <4>1. Len(pendingStreamEvents') = 0
        BY <2>5
      <4> QED BY <2>3, <4>1 DEF Taken
    <3>2. forwardedStreamEventCount = Taken
      BY <2>1, <2>2, <2>5 DEF InOrder
    <3>3. pendingStreamEvents \in Seq(Chunks) /\ Len(pendingStreamEvents) > 0
      BY <1>s, <2>3, <2>5, ChunkSeq DEF Shapes
    <3>4. Span(pendingStreamEvents, Taken) /\ Taken + Len(pendingStreamEvents) = Produced
      <4>1. Taken + Len(pendingStreamEvents) = Produced
        BY <2>3 DEF Taken
      <4> QED BY <1>1, <2>5, <3>3, <4>1 DEF ChunksOK, Ordered, Span
    <3>5. flights' # {} /\ (\A f, g \in flights' : f = g)
          /\ \A f \in flights' : f.events = pendingStreamEvents
      BY <2>1, <2>5, <3>3, FlightTypes
    <3>6. InOrder'
      BY <2>1, <2>2, <2>3, <2>5, <3>1, <3>2, <3>4, <3>5 DEF InOrder
    <3>7. Drained'
      BY <2>5 DEF Drained, Late
    <3> QED BY <3>6, <3>7
  <2> QED BY <2>1, <2>4, <2>5
<1>11. ASSUME NEW answer \in Answers, NEW flight \in flights, FlushAnswered(flight, answer)
       PROVE  InOrder' /\ Drained'
  <2>1. ~overlapped
    BY <1>11 DEF FlushAnswered
  <2>2. InOrder' /\ flights' = {}
    BY <1>1, <1>11, <1>s, <2>1, AnsweredInOrder
  <2>3. stage \notin {"flushed"} \cup Late
    BY <1>s, <2>1 DEF Drained
  <2>4. /\ pendingStreamEvents' = pendingStreamEvents
        /\ \/ stage' \in {"flushed", "dropped"} /\ stage = "flushing"
           \/ stage' = "lastFlush"
           \/ stage' = stage
    BY <1>1, <1>11 DEF FlushAnswered, AfterFlush, Finish, Told, InFlight
  <2>5. streamEventForwardingFailed => streamEventForwardingFailed'
    BY <1>11 DEF FlushAnswered
  <2> QED BY <1>l, <1>s, <2>1, <2>2, <2>3, <2>4, <2>5 DEF Drained
<1> QED BY <1>4, <1>5, <1>6, <1>7, <1>8, <1>9, <1>10, <1>11 DEF Next

(* Whatever posts failed on the way, a result that the gateway has and the  *)
(* events it was sent hold every chunk of the run; each once and in order   *)
(* when no answer was lost.  A detached run keeps this as long as no post   *)
(* overtakes another.                                                       *)
THEOREM DeliveryHolds == Spec => []EventsDelivered
<1>1. Init => DeliveryOK
  <2> SUFFICES ASSUME Init PROVE DeliveryOK
    OBVIOUS
  <2>1. /\ flights = {} /\ forwardedStreamEventCount = 0 /\ gwEvents = <<>> /\ stage = "accepted"
        /\ streamEvents = <<>> /\ pendingStreamEvents = <<>> /\ Len(<<>>) = 0
    BY DEF Init
  <2>2. Produced = 0 /\ Taken = 0 /\ 1..0 = {} /\ Len(gwEvents) = 0
    BY <2>1 DEF Produced, Taken
  <2>3. InOrder
    BY <2>1, <2>2 DEF InOrder
  <2>4. Drained
    BY <2>1 DEF Drained, Late
  <2> QED BY <2>3, <2>4, ToldInit, ChunksInit DEF DeliveryOK
<1>2. DeliveryOK => EventsDelivered
  <2> SUFFICES ASSUME DeliveryOK, ~overlapped, NEW payload \in gwResults
               PROVE  /\ 1..Len(streamEvents) \subseteq Held(gwEvents \o payload.events)
                      /\ ~ackLost => gwEvents \o payload.events = streamEvents
    BY DEF EventsDelivered
  <2>1. stage \in Late /\ payload = posted
    BY DEF DeliveryOK, Told, Verdicts
  <2> QED BY <2>1 DEF DeliveryOK, Drained, Complete, Produced
<1> QED BY <1>1, <1>2, DeliveryStep, PTL DEF Spec

=============================================================================
