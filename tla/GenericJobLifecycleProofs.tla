---------------------- MODULE GenericJobLifecycleProofs ----------------------
(* Theorems about GenericJobLifecycle, for any finite set of jobs, tenants, *)
(* priorities, retry policies and number of places.                         *)
EXTENDS GenericJobLifecycle, SequenceTheorems, FiniteSetTheorems, TLAPS

-----------------------------------------------------------------------------
(* The line: every queued job has one place in it.                          *)

Members(q)  == {q[i] : i \in DOMAIN q}
Distinct(q) == \A i, k \in DOMAIN q : q[i] = q[k] => i = k

LEMMA Empty == <<>> \in Seq(Jobs) /\ Members(<<>>) = {} /\ Distinct(<<>>)
<1>1. DOMAIN <<>> = {} /\ <<>> \in Seq(Jobs)
  BY LenProperties, EmptySeq
<1> QED BY <1>1 DEF Members, Distinct

LEMMA Joins ==
  ASSUME NEW q \in Seq(Jobs), NEW j \in Jobs
  PROVE  /\ Append(q, j) \in Seq(Jobs) /\ Members(Append(q, j)) = Members(q) \cup {j}
         /\ Distinct(q) /\ j \notin Members(q) => Distinct(Append(q, j))
<1> DEFINE r == Append(q, j)
           n == Len(q)
<1>1. /\ r \in Seq(Jobs) /\ Len(r) = n + 1 /\ n \in Nat
      /\ \A i \in 1..n : r[i] = q[i]
      /\ r[n + 1] = j
  BY AppendProperties, LenProperties
<1>2. DOMAIN q = 1..n /\ DOMAIN r = 1..(n + 1)
  BY <1>1, LenProperties
<1> HIDE DEF r, n
<1>3. 1..(n + 1) = (1..n) \cup {n + 1} /\ n + 1 \notin 1..n
  BY <1>1
<1>4. Members(r) = Members(q) \cup {j}
  BY <1>1, <1>2, <1>3 DEF Members
<1>5. Distinct(q) /\ j \notin Members(q) => Distinct(r)
  BY <1>1, <1>2, <1>3 DEF Members, Distinct
<1> QED BY <1>1, <1>4, <1>5 DEF r

LEMMA Leaves ==
  ASSUME NEW q \in Seq(Jobs), Distinct(q), NEW j \in Jobs
  PROVE  /\ WithoutJob(q, j) \in Seq(Jobs) /\ Distinct(WithoutJob(q, j))
         /\ Members(WithoutJob(q, j)) = Members(q) \ {j}
<1> DEFINE n == Len(q)
<1>1. n \in Nat /\ DOMAIN q = 1..n /\ \A i \in 1..n : q[i] \in Jobs
  BY LenProperties
<1>2. CASE j \notin Members(q)
  BY <1>2 DEF WithoutJob, Members
<1>3. CASE j \in Members(q)
  <2> DEFINE place == CHOOSE i \in DOMAIN q : q[i] = j
             a == SubSeq(q, 1, place - 1)
             b == SubSeq(q, place + 1, n)
             r == WithoutJob(q, j)
  <2>1. \E i \in DOMAIN q : q[i] = j
    BY <1>3 DEF Members
  <2>2. place \in 1..n /\ q[place] = j
    BY <1>1, <2>1
  <2>3. r = a \o b
    BY <2>1 DEF WithoutJob
  <2> HIDE DEF place, r
  <2>4. /\ a \in Seq(Jobs) /\ Len(a) = place - 1
        /\ \A i \in 1..(place - 1) : a[i] = q[i]
    <3>1. 1 \in Int /\ place - 1 \in Int /\ \A i \in 1..(place - 1) : q[i] \in Jobs
      BY <1>1, <2>2
    <3>2. /\ a \in Seq(Jobs)
          /\ Len(a) = IF 1 <= place - 1 THEN (place - 1) - 1 + 1 ELSE 0
          /\ \A i \in 1..((place - 1) - 1 + 1) : a[i] = q[1 + i - 1]
      BY <3>1, SubSeqProperties
    <3> HIDE DEF a
    <3>3. Len(a) = place - 1
      BY <2>2, <3>2
    <3>4. ASSUME NEW i \in 1..(place - 1) PROVE a[i] = q[i]
      <4>1. i \in 1..((place - 1) - 1 + 1) /\ 1 + i - 1 = i
        BY <2>2
      <4> QED BY <3>2, <4>1
    <3> QED BY <3>2, <3>3, <3>4
  <2>5. /\ b \in Seq(Jobs) /\ Len(b) = n - place
        /\ \A i \in 1..(n - place) : b[i] = q[place + i]
    <3>1. place + 1 \in Int /\ n \in Int /\ \A i \in (place + 1)..n : q[i] \in Jobs
      BY <1>1, <2>2
    <3>2. /\ b \in Seq(Jobs)
          /\ Len(b) = IF place + 1 <= n THEN n - (place + 1) + 1 ELSE 0
          /\ \A i \in 1..(n - (place + 1) + 1) : b[i] = q[(place + 1) + i - 1]
      BY <3>1, SubSeqProperties
    <3> HIDE DEF b, n
    <3>3. Len(b) = n - place
      BY <1>1, <2>2, <3>2
    <3>4. ASSUME NEW i \in 1..(n - place) PROVE b[i] = q[place + i]
      <4>1. i \in 1..(n - (place + 1) + 1) /\ (place + 1) + i - 1 = place + i
        BY <1>1, <2>2
      <4> QED BY <3>2, <4>1
    <3> QED BY <3>2, <3>3, <3>4
  <2> HIDE DEF a, b, n
  <2>6. /\ r \in Seq(Jobs) /\ Len(r) = n - 1
        /\ \A i \in 1..(n - 1) : r[i] = IF i <= place - 1 THEN a[i] ELSE b[i - (place - 1)]
    <3>1. /\ a \o b \in Seq(Jobs) /\ Len(a \o b) = Len(a) + Len(b)
          /\ \A i \in 1..(Len(a) + Len(b)) : (a \o b)[i] = IF i <= Len(a) THEN a[i] ELSE b[i - Len(a)]
      BY <2>4, <2>5, ConcatProperties
    <3>2. Len(a) + Len(b) = n - 1
      BY <1>1, <2>2, <2>4, <2>5
    <3> QED BY <2>3, <2>4, <3>1, <3>2
  <2>7. ASSUME NEW i \in 1..(n - 1) PROVE r[i] = q[IF i < place THEN i ELSE i + 1]
    <3>1. CASE i < place
      <4>1. i \in 1..(place - 1) /\ i <= place - 1
        BY <2>2, <3>1
      <4> QED BY <2>4, <2>6, <3>1, <4>1
    <3>2. CASE ~(i < place)
      <4>1. i - (place - 1) \in 1..(n - place) /\ place + (i - (place - 1)) = i + 1
            /\ ~(i <= place - 1)
        BY <1>1, <2>2, <3>2
      <4> QED BY <2>5, <2>6, <3>2, <4>1
    <3> QED BY <3>1, <3>2
  <2>8. DOMAIN r = 1..(n - 1)
    BY <1>1, <2>2, <2>6, LenProperties
  <2>9. Distinct(r)
    <3> SUFFICES ASSUME NEW i \in 1..(n - 1), NEW k \in 1..(n - 1), r[i] = r[k] PROVE i = k
      BY <2>8 DEF Distinct
    <3> DEFINE at(m) == IF m < place THEN m ELSE m + 1
    <3>1. at(i) \in 1..n /\ at(k) \in 1..n
      BY <1>1, <2>2
    <3>2. at(i) = at(k)
      BY <1>1, <2>7, <3>1 DEF Distinct, n
    <3> QED BY <1>1, <2>2, <3>2
  <2>10. Members(r) = Members(q) \ {j}
    <3>1. ASSUME NEW i \in 1..(n - 1) PROVE r[i] \in Members(q) \ {j}
      <4> DEFINE m == IF i < place THEN i ELSE i + 1
      <4>1. m \in 1..n /\ m # place
        BY <1>1, <2>2
      <4>2. q[m] # j
        BY <1>1, <2>2, <4>1 DEF Distinct, n
      <4>3. q[m] \in Members(q)
        BY <1>1, <4>1 DEF Members, n
      <4> QED BY <2>7, <4>2, <4>3
    <3>2. ASSUME NEW m \in 1..n, q[m] # j PROVE q[m] \in Members(r)
      <4>1. CASE m < place
        <5>1. m \in 1..(n - 1)
          BY <1>1, <2>2, <4>1
        <5> QED BY <2>7, <2>8, <4>1, <5>1 DEF Members
      <4>2. CASE m > place
        <5>1. m - 1 \in 1..(n - 1) /\ ~(m - 1 < place) /\ (m - 1) + 1 = m
          BY <1>1, <2>2, <4>2
        <5>2. r[m - 1] = q[m]
          BY <2>7, <5>1
        <5> QED BY <2>8, <5>1, <5>2 DEF Members
      <4> QED BY <1>1, <2>2, <3>2, <4>1, <4>2
    <3> QED BY <1>1, <2>8, <3>1, <3>2 DEF Members, n
  <2> QED BY <2>6, <2>9, <2>10 DEF r
<1> QED BY <1>2, <1>3

(* The dispatcher's choice is determined, and comes from the line.          *)
LEMMA Heads ==
  ASSUME NEW q \in Seq(Jobs)
  PROVE  /\ Foremost(q) \subseteq Members(q) /\ Foremost(q) \subseteq Jobs
         /\ \A j, k \in Foremost(q) : j = k
<1>1. DOMAIN q \subseteq Nat /\ \A i \in DOMAIN q : q[i] \in Jobs
  BY LenProperties
<1>2. ASSUME NEW i \in DOMAIN q, NEW k \in DOMAIN q, Before(q, i, k), Before(q, k, i) PROVE i = k
  <2>1. Priority[q[i]] \in Nat /\ Priority[q[k]] \in Nat /\ i \in Nat /\ k \in Nat
    BY <1>1, LifecycleAssumption
  <2> QED BY <1>2, <2>1 DEF Before
<1> QED BY <1>1, <1>2 DEF Foremost, Members

(* A turn of the dispatcher ends with a probe only for a queued job, when   *)
(* there is room and the active reservations are of its tenant.             *)
LEMMA Turns ==
  ASSUME NEW st, NEW q \in Seq(Jobs), NEW h
  PROVE  LET j == Turn(st, q, h)
         IN  \/ j = None
             \/ j \in Members(q) /\ j \in Jobs /\ HasRoom(st) /\ SameTenant(j, st, h)
<1>1. CASE HasRoom(st) /\ \E j \in Foremost(q) : SameTenant(j, st, h)
  <2>1. PICK j \in Foremost(q) : SameTenant(j, st, h)
    BY <1>1
  <2>2. Turn(st, q, h) \in Foremost(q)
    BY <1>1, <2>1 DEF Turn
  <2>3. Turn(st, q, h) = j
    BY <2>1, <2>2, Heads
  <2> QED BY <1>1, <2>1, <2>3, Heads
<1>2. CASE ~(HasRoom(st) /\ \E j \in Foremost(q) : SameTenant(j, st, h))
  BY <1>2 DEF Turn
<1> QED BY <1>1, <1>2

-----------------------------------------------------------------------------
(* The invariant, conjunct by conjunct.                                     *)

(* TypeOK but for the places of the jobs in the line. *)
Types ==
  /\ up \in BOOLEAN
  /\ state \in [Jobs -> {"none", "queued", "running"} \cup Terminal]
  /\ line \in Seq(Jobs)
  /\ held \subseteq Jobs
  /\ retries \in [Jobs -> Attempts]
  /\ \A j \in Jobs : retries[j] <= MaxRetries[j] + requests
  /\ probing \in Jobs \cup {None}
  /\ executions \subseteq Executions
  /\ controller \in [Jobs -> Attempts \cup {NoAttempt}]
  /\ requests \in 0..Requests
  /\ overridden \in BOOLEAN /\ preempted \in BOOLEAN /\ wanted \subseteq Jobs

(* The line holds each queued job once, and no other. *)
Lined == Distinct(line) /\ Members(line) = {j \in Jobs : state[j] = "queued"}

(* A job that waits is not one a client has cancelled, and the cancel of    *)
(* one that executes came before its timer; the execution of a job that no  *)
(* longer runs, if the record still controls it, is aborted.                *)
Obeys(j) ==
  /\ state[j] \in {"none", "queued"} => j \notin wanted
  /\ state[j] # "running" => \A e \in Running(j) : e.attempt = controller[j] => e.aborted
  /\ j \in wanted => \A e \in Running(j) : e.aborted /\ ~e.timedOut

Obeyed == \A j \in Jobs : Obeys(j)

(* The record, the reservation and the execution of each job agree. *)
Agreed ==
  ~overridden =>
    /\ held = Active(state)
    /\ \A j \in Jobs : state[j] = "running" <=> Running(j) # {}
    /\ \A j \in Jobs : \A d, e \in Running(j) : d = e /\ e.attempt = controller[j]

(* The active jobs have their places and one tenant, and the job being      *)
(* probed will have a place and that tenant still.                          *)
Roomy ==
  ~overridden =>
    /\ Cardinality(Active(state)) <= MaxConcurrent
    /\ \A j, k \in Active(state) : Tenant[j] = Tenant[k]
    /\ probing # None => /\ HasRoom(state)
                         /\ \A k \in Active(state) : Tenant[k] = Tenant[probing]

(* The process lives, and the job being probed is queued still, but for the *)
(* two cancels the history records.                                         *)
Alive ==
  /\ up \/ overridden \/ preempted
  /\ ~overridden /\ ~preempted /\ probing # None => state[probing] = "queued"

Inv == Types /\ Lined /\ Obeyed /\ Agreed /\ Roomy /\ Alive

(* Every state has its shape, and each queued job its one place.            *)
LEMMA ShapesOK ==
  ASSUME Types, Lined PROVE TypeOK
<1>1. ASSUME NEW j \in Jobs
      PROVE Cardinality({i \in DOMAIN line : line[i] = j}) = IF state[j] = "queued" THEN 1 ELSE 0
  <2> DEFINE places == {i \in DOMAIN line : line[i] = j}
  <2>1. CASE state[j] = "queued"
    <3>1. PICK i \in DOMAIN line : line[i] = j
      BY <2>1 DEF Lined, Members
    <3>2. places = {i}
      BY <3>1 DEF Lined, Distinct
    <3>3. Cardinality({i}) = 1
      BY FS_Singleton
    <3> QED BY <2>1, <3>2, <3>3
  <2>2. CASE state[j] # "queued"
    <3>1. places = {}
      BY <2>2 DEF Lined, Members
    <3> QED BY <2>2, <3>1, FS_EmptySet
  <2> QED BY <2>1, <2>2
<1> QED BY <1>1 DEF Types, TypeOK

-----------------------------------------------------------------------------
(* What the steps do, in the words the proofs below use.                    *)

LEMMA Numbers ==
  /\ NoAttempt \notin Attempts /\ Requests \in Nat
  /\ \A a \in Attempts : a \in Nat
BY LifecycleAssumption DEF NoAttempt, Attempts

LEMMA Shaped ==
  ASSUME Types, NEW e \in executions
  PROVE  /\ e.job \in Jobs /\ e.attempt \in Attempts
         /\ e.aborted \in BOOLEAN /\ e.timedOut \in BOOLEAN
BY DEF Types, Executions

(* A cancel or a timer marks an execution, which stays the one it was. *)
LEMMA Marked ==
  ASSUME Types, NEW e \in executions,
         NEW n \in {[e EXCEPT !.aborted = TRUE], [e EXCEPT !.timedOut = TRUE]},
         executions' = (executions \ {e}) \cup {n}
  PROVE  /\ n.job = e.job /\ n.attempt = e.attempt /\ e.job \in Jobs
         /\ e.aborted => n.aborted
         /\ executions' \subseteq Executions
         /\ \A i \in Jobs : i # e.job => Running(i)' = Running(i)
         /\ \A d \in Running(e.job)' : d = n \/ d \in Running(e.job)
<1>1. e \in Executions
  BY DEF Types
<1>2. /\ n \in Executions /\ n.job = e.job /\ n.attempt = e.attempt /\ e.job \in Jobs
      /\ e.aborted => n.aborted
  BY <1>1 DEF Executions
<1>3. executions' \subseteq Executions
  BY <1>2 DEF Types
<1> QED BY <1>2, <1>3 DEF Running

(* An execution that returns requeues its job, settles it, or ends the      *)
(* process.                                                                 *)
Settles(e, to) ==
  /\ to \in {"succeeded", "failed", "cancelled"} /\ Settled(e.job, to)
  /\ executions' = executions \ {e}
  /\ controller' = [controller EXCEPT ![e.job] = NoAttempt]
  /\ DispatchQueued
  /\ UNCHANGED <<up, requests, overridden, preempted, wanted>>

Requeues(e) ==
  /\ state[e.job] = "running" /\ retries[e.job] < MaxRetries[e.job] /\ Requeued(e.job)
  /\ executions' = executions \ {e}
  /\ controller' = [controller EXCEPT ![e.job] = NoAttempt]
  /\ DispatchQueued
  /\ e.timedOut
  /\ UNCHANGED <<up, requests, overridden, preempted, wanted>>

Kills(e) ==
  /\ state[e.job] # "running" /\ Dies
  /\ UNCHANGED <<requests, overridden, preempted, wanted>>

LEMMA Returns ==
  ASSUME Types, NEW e \in executions, NEW v \in Verdicts(e), Return(e, v)
  PROVE  Requeues(e) \/ (\E to : Settles(e, to)) \/ Kills(e)
<1> DEFINE j == e.job
           to == IF v = "timeout" THEN "failed" ELSE v
<1>1. j \in Jobs /\ state[j] \in {"none", "queued", "running"} \cup Terminal
  BY Shaped DEF Types
<1>2. to \in {"succeeded", "failed", "cancelled"}
  BY DEF Verdicts
<1>3. CASE ShouldRetry(j, v)
  <2>1. CASE Allowed(state[j], "retrying")
    <3>1. state[j] = "running"
      BY <1>1, <2>1 DEF Allowed, Terminal
    <3>2. e.timedOut
      BY <1>3 DEF ShouldRetry, Verdicts
    <3> QED BY <1>3, <2>1, <3>1, <3>2 DEF Return, Requeues, ShouldRetry, history
  <2>2. CASE ~Allowed(state[j], "retrying")
    <3>1. state[j] # "running"
      BY <2>2 DEF Allowed
    <3> QED BY <1>3, <2>2, <3>1 DEF Return, Kills, history
  <2> QED BY <2>1, <2>2
<1>4. CASE ~ShouldRetry(j, v)
  <2>1. CASE Allowed(state[j], to)
    <3>1. Settles(e, to)
      BY <1>2, <1>4, <2>1 DEF Return, Settles, history
    <3> QED BY <3>1
  <2>2. CASE ~Allowed(state[j], to)
    <3>1. state[j] # "running"
      BY <1>2, <2>2 DEF Allowed
    <3> QED BY <1>4, <2>2, <3>1 DEF Return, Kills, history
  <2> QED BY <2>1, <2>2
<1> QED BY <1>3, <1>4

(* The line follows the states. *)
LEMMA LineMoves ==
  ASSUME Types, Lined, NEW j \in Jobs, NEW s, state' = [state EXCEPT ![j] = s],
         \/ s = "queued" /\ state[j] # "queued" /\ line' = Append(line, j)
         \/ s # "queued" /\ line' = WithoutJob(line, j)
         \/ s = "queued" /\ line' = Append(WithoutJob(line, j), j)
  PROVE  line' \in Seq(Jobs) /\ Lined'
<1>1. /\ line \in Seq(Jobs) /\ Distinct(line)
      /\ Members(line) = {i \in Jobs : state[i] = "queued"}
      /\ state \in [Jobs -> {"none", "queued", "running"} \cup Terminal]
  BY DEF Types, Lined
<1>2. {i \in Jobs : state'[i] = "queued"} = IF s = "queued" THEN {i \in Jobs : state[i] = "queued"} \cup {j}
                                           ELSE {i \in Jobs : state[i] = "queued"} \ {j}
  BY <1>1
<1> DEFINE r == WithoutJob(line, j)
<1>3. r \in Seq(Jobs) /\ Distinct(r) /\ Members(r) = Members(line) \ {j}
  BY <1>1, Leaves
<1> HIDE DEF r
<1>4. line' \in Seq(Jobs) /\ Distinct(line') /\ Members(line') = {i \in Jobs : state'[i] = "queued"}
  <2>1. CASE s = "queued" /\ state[j] # "queued" /\ line' = Append(line, j)
    <3>1. j \notin Members(line)
      BY <1>1, <2>1
    <3>2. line' \in Seq(Jobs) /\ Distinct(line') /\ Members(line') = Members(line) \cup {j}
      BY <1>1, <2>1, <3>1, Joins
    <3> QED BY <1>1, <1>2, <2>1, <3>2
  <2>2. CASE s # "queued" /\ line' = r
    BY <1>1, <1>2, <1>3, <2>2
  <2>3. CASE s = "queued" /\ line' = Append(r, j)
    <3>1. j \notin Members(r)
      BY <1>3
    <3>2. line' \in Seq(Jobs) /\ Distinct(line') /\ Members(line') = Members(r) \cup {j}
      BY <1>3, <2>3, <3>1, Joins
    <3> QED BY <1>1, <1>2, <1>3, <2>3, <3>2
  <2> QED BY <2>1, <2>2, <2>3 DEF r
<1> QED BY <1>4 DEF Lined, Members, Distinct

-----------------------------------------------------------------------------
(* Types and the line.                                                      *)

LEMMA TypesInit ==
  ASSUME Init PROVE Types /\ Lined
<1>1. 0 \in 0..Requests /\ 0 \in Attempts /\ \A j \in Jobs : MaxRetries[j] \in 0..3
  BY LifecycleAssumption DEF Attempts
<1>2. Types
  <2>1. \A j \in Jobs : retries[j] = 0 /\ requests = 0 /\ MaxRetries[j] \in Nat
    BY <1>1 DEF Init
  <2>2. \A j \in Jobs : retries[j] <= MaxRetries[j] + requests
    BY <2>1
  <2>3. retries \in [Jobs -> Attempts] /\ controller \in [Jobs -> Attempts \cup {NoAttempt}]
    BY <1>1 DEF Init
  <2>4. state \in [Jobs -> {"none", "queued", "running"} \cup Terminal]
    BY DEF Init
  <2> QED BY <1>1, <2>2, <2>3, <2>4, Empty DEF Init, Types
<1>3. Lined
  BY Empty DEF Init, Lined
<1> QED BY <1>2, <1>3

(* The dispatcher's choice is a job. *)
LEMMA DispatchType ==
  ASSUME Types, line' \in Seq(Jobs), DispatchQueued \/ probing' = Turn(state', line', held')
  PROVE  probing' \in Jobs \cup {None}
<1>1. Turn(state', line', held') \in Jobs \cup {None}
  BY Turns
<1> QED BY <1>1 DEF DispatchQueued, Types

LEMMA Sums ==
  ASSUME Types
  PROVE  \A i \in Jobs : /\ MaxRetries[i] \in Nat /\ retries[i] \in Nat
                         /\ retries[i] <= MaxRetries[i] + requests
<1>1. \A i \in Jobs : MaxRetries[i] \in Nat
  BY LifecycleAssumption
<1>2. \A i \in Jobs : retries[i] \in Nat /\ retries[i] <= MaxRetries[i] + requests
  BY Numbers DEF Types
<1> QED BY <1>1, <1>2

LEMMA RetryCounts ==
  ASSUME Types, NEW j \in Jobs, retries' = [retries EXCEPT ![j] = @ + 1],
         \/ requests < Requests /\ requests' = requests + 1
         \/ retries[j] < MaxRetries[j] /\ requests' = requests
  PROVE  /\ retries' \in [Jobs -> Attempts] /\ requests' \in 0..Requests
         /\ \A i \in Jobs : retries'[i] <= MaxRetries[i] + requests'
<1>1. /\ \A i \in Jobs : MaxRetries[i] \in 0..3 /\ retries[i] \in Nat /\ retries[i] <= MaxRetries[i] + requests
      /\ requests \in 0..Requests /\ Requests \in Nat
      /\ retries \in [Jobs -> Attempts]
  BY LifecycleAssumption, Numbers DEF Types
<1>2. requests' \in 0..Requests
  BY <1>1
<1>3. ASSUME NEW i \in Jobs
      PROVE  retries'[i] \in Nat /\ retries'[i] <= MaxRetries[i] + requests'
  <2>1. retries'[i] = IF i = j THEN retries[i] + 1 ELSE retries[i]
    BY <1>1
  <2> QED BY <1>1, <2>1
<1>4. ASSUME NEW i \in Jobs PROVE retries'[i] \in Attempts
  BY <1>1, <1>2, <1>3 DEF Attempts
<1> QED BY <1>1, <1>2, <1>3, <1>4

LEMMA TypesNext ==
  ASSUME Types, Lined, [Next]_vars PROVE Types' /\ Lined'
<1>0. /\ {"queued", "running", "blocked", "cancelled", "failed", "succeeded"}
                \subseteq {"none", "queued", "running"} \cup Terminal
      /\ NoAttempt \in Attempts \cup {NoAttempt}
  BY DEF Terminal
<1>1. ASSUME NEW j \in Jobs, Create(j) PROVE Types' /\ Lined'
  <2>1. line' \in Seq(Jobs) /\ Lined'
    BY <1>1, LineMoves DEF Create
  <2>2. probing' \in Jobs \cup {None}
    BY <1>1, <2>1, DispatchType DEF Create
  <2> QED BY <1>0, <1>1, <2>1, <2>2 DEF Types, Create, history
<1>2. ASSUME NEW j \in Jobs, Cancel(j) PROVE Types' /\ Lined'
  <2>0. requests' \in 0..Requests /\ \A i \in Jobs : retries'[i] <= MaxRetries[i] + requests'
    <3>1. requests \in 0..Requests /\ requests < Requests /\ requests' = requests + 1 /\ retries' = retries
      BY <1>2 DEF Types, Cancel
    <3> QED BY <3>1, Sums, Numbers
  <2>1. CASE Abort(j)
    <3>1. PICK e \in Running(j) : executions' = (executions \ {e}) \cup {[e EXCEPT !.aborted = TRUE]}
      BY <2>1 DEF Abort
    <3>2. e \in executions
      BY DEF Running
    <3>3. executions' \subseteq Executions
      BY <3>1, <3>2, Marked
    <3>4. UNCHANGED <<state, line, held, overridden, preempted, up, retries, probing, controller>>
      BY <1>2, <2>1 DEF Cancel, Abort
    <3>5. wanted' \subseteq Jobs
      BY <1>2 DEF Cancel, Types
    <3> QED BY <2>0, <3>3, <3>4, <3>5 DEF Types, Lined, Members, Distinct
  <2>2. CASE Override(j)
    <3>1. line' \in Seq(Jobs) /\ Lined'
      BY <2>2, LineMoves DEF Override
    <3>2. overridden' \in BOOLEAN /\ preempted' \in BOOLEAN
      <4> DEFINE P == Running(j) # {}
                 Q == probing = j
      <4>1. overridden' = (overridden \/ P) /\ preempted' = (preempted \/ Q)
        BY <2>2 DEF Override
      <4>2. overridden \in BOOLEAN /\ preempted \in BOOLEAN /\ P \in BOOLEAN /\ Q \in BOOLEAN
        BY DEF Types
      <4> HIDE DEF P, Q
      <4> QED BY <4>1, <4>2
    <3>3. state' \in [Jobs -> {"none", "queued", "running"} \cup Terminal] /\ held' \subseteq Jobs
      BY <1>0, <2>2 DEF Override, Types
    <3>4. wanted' \subseteq Jobs /\ UNCHANGED <<up, retries, probing, controller, executions>>
      BY <1>2, <2>2 DEF Cancel, Override, Types
    <3> QED BY <2>0, <3>1, <3>2, <3>3, <3>4 DEF Types
  <2> QED BY <1>2, <2>1, <2>2 DEF Cancel
<1>3. ASSUME NEW j \in Jobs, Retry(j) PROVE Types' /\ Lined'
  <2>1. line' \in Seq(Jobs) /\ Lined'
    BY <1>3, LineMoves DEF Retry, Terminal
  <2>2. probing' \in Jobs \cup {None}
    BY <1>3, <2>1, DispatchType DEF Retry
  <2>3. /\ retries' \in [Jobs -> Attempts] /\ requests' \in 0..Requests
        /\ \A i \in Jobs : retries'[i] <= MaxRetries[i] + requests'
    BY <1>3, RetryCounts DEF Retry
  <2> QED BY <1>0, <1>3, <2>1, <2>2, <2>3 DEF Types, Retry
<1>4. ASSUME Dies, UNCHANGED <<requests, overridden, preempted, wanted>>
      PROVE  Types' /\ Lined'
  <2>1. up' = FALSE /\ UNCHANGED <<state, line, held, retries, executions, controller, probing>>
    BY <1>4 DEF Dies, records
  <2>2. Lined'
    BY <2>1 DEF Lined, Members, Distinct
  <2>3. wanted' \subseteq Jobs
    BY <1>4 DEF Types
  <2> QED BY <1>4, <2>1, <2>2, <2>3 DEF Types
<1>5. ASSUME NEW j \in Jobs, Start(j) PROVE Types' /\ Lined'
  <2>1. CASE Dies
    BY <1>4, <1>5, <2>1 DEF Start, history, Types
  <2>2. CASE Scheduled(j)
    <3>1. line' \in Seq(Jobs) /\ Lined'
      BY <2>2, LineMoves DEF Scheduled
    <3>2. probing' \in Jobs \cup {None}
      BY <2>2, <3>1, DispatchType DEF Scheduled
    <3>3. [job |-> j, attempt |-> retries[j], aborted |-> FALSE, timedOut |-> FALSE] \in Executions
      BY DEF Types, Executions
    <3>4. executions' \subseteq Executions
      BY <2>2, <3>3 DEF Scheduled, Types
    <3>5. /\ state' \in [Jobs -> {"none", "queued", "running"} \cup Terminal] /\ held' \subseteq Jobs
          /\ controller' \in [Jobs -> Attempts \cup {NoAttempt}]
      BY <1>0, <2>2 DEF Scheduled, Types
    <3>6. UNCHANGED <<up, retries, requests, overridden, preempted, wanted>>
      BY <1>5, <2>2 DEF Start, Scheduled, history
    <3> QED BY <3>1, <3>2, <3>4, <3>5, <3>6 DEF Types
  <2> QED BY <1>5, <2>1, <2>2 DEF Start
<1>6. ASSUME NEW j \in Jobs, Mismatch(j) PROVE Types' /\ Lined'
  <2>1. CASE Dies
    BY <1>4, <1>6, <2>1 DEF Mismatch, history, Types
  <2>2. CASE Blocked(j)
    <3>1. line' \in Seq(Jobs) /\ Lined'
      BY <2>2, LineMoves DEF Blocked
    <3>2. probing' \in Jobs \cup {None}
      BY <2>2, <3>1, DispatchType DEF Blocked
    <3> QED BY <1>0, <1>6, <2>2, <3>1, <3>2 DEF Types, Blocked, Mismatch, history
  <2> QED BY <1>6, <2>1, <2>2 DEF Mismatch
<1>7. ASSUME NEW e \in executions, NEW v \in Verdicts(e), Return(e, v) PROVE Types' /\ Lined'
  <2>0. e.job \in Jobs
    BY Shaped
  <2>1. CASE Kills(e)
    BY <1>4, <2>1 DEF Kills
  <2>2. CASE Requeues(e)
    <3>1. line' \in Seq(Jobs) /\ Lined'
      BY <2>0, <2>2, LineMoves DEF Requeues, Requeued
    <3>2. probing' \in Jobs \cup {None}
      BY <2>2, <3>1, DispatchType DEF Requeues
    <3>3. /\ retries' \in [Jobs -> Attempts] /\ requests' \in 0..Requests
          /\ \A i \in Jobs : retries'[i] <= MaxRetries[i] + requests'
      BY <2>0, <2>2, RetryCounts DEF Requeues, Requeued
    <3> QED BY <1>0, <2>0, <2>2, <3>1, <3>2, <3>3 DEF Types, Requeues, Requeued
  <2>3. ASSUME NEW to, Settles(e, to) PROVE Types' /\ Lined'
    <3>1. line' \in Seq(Jobs) /\ Lined'
      BY <2>0, <2>3, LineMoves DEF Settles, Settled
    <3>2. probing' \in Jobs \cup {None}
      BY <2>3, <3>1, DispatchType DEF Settles
    <3> QED BY <1>0, <2>0, <2>3, <3>1, <3>2 DEF Types, Settles, Settled
  <2> QED BY <1>7, <2>1, <2>2, <2>3, Returns
<1>9. ASSUME NEW e \in executions, TimesOut(e) PROVE Types' /\ Lined'
  <2>1. executions' \subseteq Executions
    BY <1>9, Marked DEF TimesOut
  <2> QED BY <1>9, <2>1 DEF TimesOut, history, Types, Lined, Members, Distinct
<1>8. CASE UNCHANGED vars
  BY <1>8 DEF vars, Types, Lined, Members, Distinct
<1> QED BY <1>1, <1>2, <1>3, <1>5, <1>6, <1>7, <1>8, <1>9
       DEF Next, Client, ProbeReturns, TimersFire, ExecutionReturns

-----------------------------------------------------------------------------
(* A cancelled job waits nowhere.                                           *)

LEMMA ObeyedInit ==
  ASSUME Init PROVE Obeyed
BY DEF Init, Obeyed, Obeys, Running

(* The first cancel of a job finds it running. *)
LEMMA AbortsRunning ==
  ASSUME Types, Obeyed, NEW j \in Jobs, Cancel(j), Abort(j) PROVE state[j] = "running"
BY DEF Abort, Obeyed, Obeys

(* A record that is not running, whose controller is unchanged or gone. *)
LEMMA ObeyedOf ==
  ASSUME Types, Obeyed, NEW j \in Jobs, NEW s, state' = [state EXCEPT ![j] = s],
         s \in {"none", "queued"} => j \notin wanted',
         executions' \subseteq executions,
         wanted' \subseteq wanted \cup {j},
         j \in wanted' \ wanted => \A e \in executions' : e.job = j => e.aborted /\ ~e.timedOut,
         \A i \in Jobs \ {j} : controller'[i] = controller[i],
         \/ controller'[j] = NoAttempt
         \/ controller'[j] = controller[j] /\ \A e \in Running(j) : e.attempt = controller[j] => e.aborted
  PROVE  Obeyed'
<1>0. \A i \in Jobs : Running(i)' \subseteq Running(i)
  BY DEF Running
<1>1. ASSUME NEW i \in Jobs, i # j PROVE Obeys(i)'
  <2>1. state'[i] = state[i] /\ controller'[i] = controller[i] /\ (i \in wanted' => i \in wanted)
    BY <1>1 DEF Types
  <2> QED BY <1>0, <2>1 DEF Obeyed, Obeys
<1>2. Obeys(j)'
  <2>1. state'[j] = s
    BY DEF Types
  <2>2. \A e \in Running(j) : e.attempt # NoAttempt
    BY Shaped, Numbers DEF Running
  <2>3. \A e \in Running(j)' : e.attempt = controller'[j] => e.aborted
    BY <1>0, <2>2
  <2>4. j \in wanted' => \A e \in Running(j)' : e.aborted /\ ~e.timedOut
    BY <1>0 DEF Obeyed, Obeys, Running
  <2> QED BY <2>1, <2>3, <2>4 DEF Obeys
<1> QED BY <1>1, <1>2 DEF Obeyed

(* A mark set on an execution of a running job, which the clients want      *)
(* cancelled only if nothing of it is left to run or to time out.           *)
LEMMA ObeyedMark ==
  ASSUME Types, Obeyed, NEW e \in executions,
         NEW n \in {[e EXCEPT !.aborted = TRUE], [e EXCEPT !.timedOut = TRUE]},
         executions' = (executions \ {e}) \cup {n}, UNCHANGED <<state, controller>>,
         wanted' \subseteq wanted \cup {e.job},
         e.job \in wanted' => \A d \in executions' : d.job = e.job => d.aborted /\ ~d.timedOut,
         state[e.job] \in {"none", "queued"} => e.job \notin wanted'
  PROVE  Obeyed'
<1>1. /\ n.job = e.job /\ n.attempt = e.attempt /\ e.job \in Jobs
      /\ e.aborted => n.aborted
      /\ \A i \in Jobs : i # e.job => Running(i)' = Running(i)
      /\ \A d \in Running(e.job)' : d = n \/ d \in Running(e.job)
  BY Marked
<1>2. ASSUME NEW i \in Jobs, i # e.job PROVE Obeys(i)'
  BY <1>1, <1>2 DEF Obeyed, Obeys
<1>3. Obeys(e.job)'
  <2>1. state[e.job] # "running" => \A d \in Running(e.job)' : d.attempt = controller'[e.job] => d.aborted
    <3>1. e \in Running(e.job)
      BY DEF Running
    <3> QED BY <1>1, <3>1 DEF Obeyed, Obeys
  <2>2. e.job \in wanted' => \A d \in Running(e.job)' : d.aborted /\ ~d.timedOut
    BY DEF Running
  <2> QED BY <2>1, <2>2 DEF Obeys
<1> QED BY <1>2, <1>3 DEF Obeyed

LEMMA ObeyedNext ==
  ASSUME Types, Obeyed, [Next]_vars PROVE Obeyed'
<1>1. ASSUME NEW j \in Jobs, Create(j) PROVE Obeyed'
  BY <1>1, ObeyedOf DEF Create, history, Obeyed, Obeys
<1>2. ASSUME NEW j \in Jobs, Cancel(j) PROVE Obeyed'
  <2>0. /\ wanted' \subseteq wanted \cup {j}
        /\ j \in wanted' \ wanted => \A e \in executions' : e.job = j => e.aborted /\ ~e.timedOut
    BY <1>2 DEF Cancel
  <2>1. CASE Abort(j)
    <3>1. state[j] = "running"
      BY <1>2, <2>1, AbortsRunning
    <3>2. PICK e \in Running(j) :
            ~e.aborted /\ executions' = (executions \ {e}) \cup {[e EXCEPT !.aborted = TRUE]}
      BY <2>1 DEF Abort
    <3>3. e \in executions /\ e.job = j /\ j \notin wanted
      BY <3>2 DEF Running, Obeyed, Obeys
    <3>4. UNCHANGED <<state, controller>>
      BY <1>2, <2>1 DEF Cancel, Abort
    <3> QED BY <2>0, <3>1, <3>2, <3>3, <3>4, ObeyedMark
  <2>2. CASE Override(j)
    BY <1>2, <2>0, <2>2, ObeyedOf DEF Cancel, Override
  <2> QED BY <1>2, <2>1, <2>2 DEF Cancel
<1>3. ASSUME NEW j \in Jobs, Retry(j) PROVE Obeyed'
  <2>1. \A e \in Running(j) : e.attempt = controller[j] => e.aborted
    BY <1>3 DEF Retry, Terminal, Obeyed, Obeys
  <2> QED BY <1>3, <2>1, ObeyedOf DEF Retry
<1>4. ASSUME Dies, wanted' = wanted PROVE Obeyed'
  <2>1. UNCHANGED <<state, executions, controller>>
    BY <1>4 DEF Dies, records
  <2>2. \A i \in Jobs : Running(i)' = Running(i)
    BY <2>1 DEF Running
  <2> QED BY <1>4, <2>1, <2>2 DEF Obeyed, Obeys
<1>5. ASSUME NEW j \in Jobs, Start(j) PROVE Obeyed'
  <2>1. CASE Dies
    BY <1>4, <1>5, <2>1 DEF Start, history
  <2>2. CASE Scheduled(j) /\ Allowed(state[j], "scheduled")
    <3> DEFINE n == [job |-> j, attempt |-> retries[j], aborted |-> FALSE, timedOut |-> FALSE]
    <3>1. n.job = j /\ executions' = executions \cup {n}
      BY <2>2 DEF Scheduled
    <3> HIDE DEF n
    <3>2. \A i \in Jobs \ {j} : Running(i)' = Running(i)
      BY <3>1 DEF Running
    <3>3. \A i \in Jobs \ {j} : state'[i] = state[i] /\ controller'[i] = controller[i]
      BY <2>2 DEF Scheduled, Types
    <3>4. state[j] = "queued" /\ state'[j] = "running" /\ wanted' = wanted
      BY <1>5, <2>2 DEF Allowed, Scheduled, Start, history, Types, Terminal
    <3>5. j \notin wanted'
      BY <3>4 DEF Obeyed, Obeys
    <3> QED BY <3>2, <3>3, <3>4, <3>5 DEF Obeyed, Obeys
  <2> QED BY <1>5, <2>1, <2>2 DEF Start
<1>6. ASSUME NEW j \in Jobs, Mismatch(j) PROVE Obeyed'
  <2>1. CASE Dies
    BY <1>4, <1>6, <2>1 DEF Mismatch, history
  <2>2. CASE Blocked(j) /\ Allowed(state[j], "blocked")
    <3>1. state[j] # "running"
      BY <2>2 DEF Allowed
    <3>2. \A e \in Running(j) : e.attempt = controller[j] => e.aborted
      BY <3>1 DEF Obeyed, Obeys
    <3> QED BY <1>6, <2>2, <3>2, ObeyedOf DEF Mismatch, Blocked, history
  <2> QED BY <1>6, <2>1, <2>2 DEF Mismatch
<1>7. ASSUME NEW e \in executions, NEW v \in Verdicts(e), Return(e, v) PROVE Obeyed'
  <2>0. e.job \in Jobs /\ e \in Running(e.job)
    BY Shaped DEF Running
  <2>1. CASE Kills(e)
    BY <1>4, <2>1 DEF Kills
  <2>2. CASE Requeues(e) \/ \E to : Settles(e, to)
    <3>1. Requeues(e) => e.job \notin wanted
      BY <2>0 DEF Requeues, Obeyed, Obeys
    <3>2. PICK s : /\ state' = [state EXCEPT ![e.job] = s]
                   /\ s \in {"none", "queued"} => e.job \notin wanted'
                   /\ executions' \subseteq executions /\ wanted' = wanted
                   /\ controller' = [controller EXCEPT ![e.job] = NoAttempt]
      BY <2>2, <3>1 DEF Requeues, Requeued, Settles, Settled
    <3>3. /\ controller'[e.job] = NoAttempt
          /\ \A i \in Jobs \ {e.job} : controller'[i] = controller[i]
      BY <2>0, <3>2 DEF Types
    <3> QED BY <2>0, <3>2, <3>3, ObeyedOf
  <2> QED BY <1>7, <2>1, <2>2, Returns
<1>9. ASSUME NEW e \in executions, TimesOut(e) PROVE Obeyed'
  <2>1. e.job \notin wanted /\ ~e.aborted
    BY <1>9, Shaped DEF TimesOut, Obeyed, Obeys, Running
  <2>2. /\ executions' = (executions \ {e}) \cup {[e EXCEPT !.timedOut = TRUE]}
        /\ UNCHANGED <<state, controller, wanted>>
    BY <1>9 DEF TimesOut, history
  <2> QED BY <2>1, <2>2, ObeyedMark
<1>8. CASE UNCHANGED vars
  BY <1>8 DEF vars, Obeyed, Obeys, Running
<1> QED BY <1>1, <1>2, <1>3, <1>5, <1>6, <1>7, <1>8, <1>9
       DEF Next, Client, ProbeReturns, TimersFire, ExecutionReturns

-----------------------------------------------------------------------------
(* Record, reservation and execution.                                       *)

(* Agreed, for a history without an override. *)
Apiece ==
  /\ held = Active(state)
  /\ \A j \in Jobs : state[j] = "running" <=> Running(j) # {}
  /\ \A j \in Jobs : \A d, e \in Running(j) : d = e /\ e.attempt = controller[j]

LEMMA AgreedInit ==
  ASSUME Init PROVE Agreed
BY DEF Init, Agreed, Active, Running

(* A step that changes the record of a job that is not running. *)
LEMMA IdleMoves ==
  ASSUME Types, Apiece, NEW j \in Jobs, NEW s, state' = [state EXCEPT ![j] = s],
         state[j] # "running", s # "running",
         held' = held \/ held' = held \ {j}, UNCHANGED <<executions, controller>>
  PROVE  Apiece' /\ Active(state') = Active(state)
<1>1. \A i \in Jobs : state'[i] = "running" <=> state[i] = "running"
  BY DEF Types
<1>2. Active(state') = Active(state) /\ j \notin Active(state)
  BY <1>1 DEF Active
<1>3. held' = Active(state')
  BY <1>2 DEF Apiece
<1>4. \A i \in Jobs : Running(i)' = Running(i)
  BY DEF Running
<1> QED BY <1>1, <1>2, <1>3, <1>4 DEF Apiece

(* A step that ends the execution of a job. *)
LEMMA EndMoves ==
  ASSUME Types, Apiece, NEW e \in executions, NEW s, state' = [state EXCEPT ![e.job] = s],
         s # "running", held' = held \ {e.job}, executions' = executions \ {e},
         controller' = [controller EXCEPT ![e.job] = NoAttempt]
  PROVE  Apiece' /\ Active(state') = Active(state) \ {e.job}
<1> DEFINE j == e.job
<1>1. j \in Jobs /\ Running(j) = {e}
  BY Shaped DEF Running, Apiece
<1>2. \A i \in Jobs : /\ i # j => state'[i] = state[i] /\ controller'[i] = controller[i]
                      /\ Running(i)' = IF i = j THEN {} ELSE Running(i)
  BY <1>1 DEF Running, Types
<1>3. state'[j] # "running"
  BY <1>1 DEF Types
<1>4. Active(state') = Active(state) \ {j}
  BY <1>1, <1>2, <1>3 DEF Active
<1>5. held' = Active(state')
  BY <1>4 DEF Apiece
<1>6. \A i \in Jobs : state'[i] = "running" <=> Running(i)' # {}
  BY <1>2, <1>3 DEF Apiece
<1>7. \A i \in Jobs : \A d, f \in Running(i)' : d = f /\ f.attempt = controller'[i]
  BY <1>2 DEF Apiece
<1> QED BY <1>4, <1>5, <1>6, <1>7 DEF Apiece

LEMMA AgreedNext ==
  ASSUME Types, Obeyed, Agreed, [Next]_vars PROVE Agreed'
<1>0. ASSUME overridden' = overridden, Apiece => Apiece' PROVE Agreed'
  BY <1>0 DEF Agreed, Apiece
<1>1. ASSUME NEW j \in Jobs, Create(j) PROVE Agreed'
  BY <1>0, <1>1, IdleMoves DEF Create, history
<1>2. ASSUME NEW j \in Jobs, Cancel(j) PROVE Agreed'
  <2>1. CASE Abort(j)
    <3>1. PICK e \in Running(j) :
            e.attempt = controller[j] /\ executions' = (executions \ {e}) \cup {[e EXCEPT !.aborted = TRUE]}
      BY <2>1 DEF Abort
    <3> DEFINE n == [e EXCEPT !.aborted = TRUE]
    <3>2. n.job = j /\ n.attempt = controller[j] /\ e.job = j
      BY <3>1 DEF Running, Types, Executions
    <3>3. UNCHANGED <<state, controller, held, overridden>> /\ executions' = (executions \ {e}) \cup {n}
      BY <1>2, <2>1, <3>1 DEF Cancel, Abort
    <3> HIDE DEF n
    <3>4. ASSUME Apiece PROVE Apiece'
      <4>1. Running(j) = {e}
        BY <3>1, <3>4 DEF Apiece
      <4>2. \A i \in Jobs : Running(i)' = IF i = j THEN {n} ELSE Running(i)
        BY <3>2, <3>3, <4>1 DEF Running
      <4> QED BY <3>2, <3>3, <3>4, <4>1, <4>2 DEF Apiece, Active
    <3> QED BY <1>0, <3>3, <3>4
  <2>2. CASE Override(j) /\ Running(j) # {}
    BY <2>2 DEF Override, Agreed
  <2>3. CASE Override(j) /\ Running(j) = {}
    <3>1. overridden' = overridden
      BY <2>3 DEF Override, Types
    <3>2. Apiece => state[j] # "running"
      BY <2>3 DEF Apiece
    <3> QED BY <1>0, <1>2, <2>3, <3>1, <3>2, IdleMoves DEF Override, Cancel
  <2> QED BY <1>2, <2>1, <2>2, <2>3 DEF Cancel
<1>3. ASSUME NEW j \in Jobs, Retry(j) PROVE Agreed'
  BY <1>0, <1>3, IdleMoves DEF Retry, Terminal
<1>4. ASSUME Dies, UNCHANGED overridden PROVE Agreed'
  <2>1. UNCHANGED <<state, held, executions, controller>>
    BY <1>4 DEF Dies, records
  <2> QED BY <1>0, <1>4, <2>1 DEF Apiece, Active, Running
<1>5. ASSUME NEW j \in Jobs, Start(j) PROVE Agreed'
  <2>1. CASE Dies
    BY <1>4, <1>5, <2>1 DEF Start, history
  <2>2. CASE Scheduled(j) /\ Allowed(state[j], "scheduled")
    <3> DEFINE n == [job |-> j, attempt |-> retries[j], aborted |-> FALSE, timedOut |-> FALSE]
    <3>1. n.job = j /\ n.attempt = retries[j] /\ executions' = executions \cup {n}
      BY <2>2 DEF Scheduled
    <3> HIDE DEF n
    <3>2. state[j] = "queued"
      BY <2>2 DEF Allowed, Types, Terminal
    <3>3. /\ state'[j] = "running" /\ controller'[j] = retries[j]
          /\ \A i \in Jobs \ {j} : state'[i] = state[i] /\ controller'[i] = controller[i]
      BY <2>2 DEF Scheduled, Types
    <3>4. ASSUME Apiece PROVE Apiece'
      <4>1. Running(j) = {}
        BY <3>2, <3>4 DEF Apiece
      <4>2. \A i \in Jobs : Running(i)' = IF i = j THEN {n} ELSE Running(i)
        BY <3>1, <4>1 DEF Running
      <4>3. held' = Active(state')
        BY <2>2, <3>3, <3>4 DEF Apiece, Active, Scheduled
      <4> QED BY <3>1, <3>3, <3>4, <4>2, <4>3 DEF Apiece
    <3> QED BY <1>0, <1>5, <3>4 DEF Start, history
  <2> QED BY <1>5, <2>1, <2>2 DEF Start
<1>6. ASSUME NEW j \in Jobs, Mismatch(j) PROVE Agreed'
  <2>1. CASE Dies
    BY <1>4, <1>6, <2>1 DEF Mismatch, history
  <2>2. CASE Blocked(j) /\ Allowed(state[j], "blocked")
    <3>1. state[j] # "running"
      BY <2>2 DEF Allowed
    <3> QED BY <1>0, <1>6, <2>2, <3>1, IdleMoves DEF Mismatch, Blocked, history
  <2> QED BY <1>6, <2>1, <2>2 DEF Mismatch
<1>7. ASSUME NEW e \in executions, NEW v \in Verdicts(e), Return(e, v) PROVE Agreed'
  <2>1. CASE Kills(e)
    BY <1>4, <2>1 DEF Kills
  <2>2. CASE Requeues(e) \/ \E to : Settles(e, to)
    <3>1. PICK s : /\ state' = [state EXCEPT ![e.job] = s] /\ s # "running"
                   /\ held' = held \ {e.job} /\ executions' = executions \ {e}
                   /\ controller' = [controller EXCEPT ![e.job] = NoAttempt]
                   /\ overridden' = overridden
      BY <2>2 DEF Requeues, Requeued, Settles, Settled
    <3> QED BY <1>0, <3>1, EndMoves
  <2> QED BY <1>7, <2>1, <2>2, Returns
<1>9. ASSUME NEW e \in executions, TimesOut(e) PROVE Agreed'
  <2> DEFINE n == [e EXCEPT !.timedOut = TRUE]
  <2>1. /\ n.job = e.job /\ n.attempt = e.attempt /\ e.job \in Jobs
        /\ \A i \in Jobs : i # e.job => Running(i)' = Running(i)
    BY <1>9, Marked DEF TimesOut
  <2>2. /\ UNCHANGED <<state, controller, held, overridden>>
        /\ executions' = (executions \ {e}) \cup {n}
    BY <1>9 DEF TimesOut, history
  <2> HIDE DEF n
  <2>3. ASSUME Apiece PROVE Apiece'
    <3>1. Running(e.job) = {e}
      BY <2>1, <2>3 DEF Apiece, Running
    <3>2. \A i \in Jobs : Running(i)' = IF i = e.job THEN {n} ELSE Running(i)
      BY <2>1, <2>2, <3>1 DEF Running
    <3> QED BY <2>1, <2>2, <2>3, <3>1, <3>2 DEF Apiece, Active
  <2> QED BY <1>0, <2>2, <2>3
<1>8. CASE UNCHANGED vars
  BY <1>0, <1>8 DEF vars, Apiece, Active, Running
<1> QED BY <1>1, <1>2, <1>3, <1>5, <1>6, <1>7, <1>8, <1>9
       DEF Next, Client, ProbeReturns, TimersFire, ExecutionReturns

-----------------------------------------------------------------------------
(* Places and tenants.                                                      *)

LEMMA RoomyInit ==
  ASSUME Init PROVE Roomy
<1>1. Active(state) = {} /\ probing = None
  BY DEF Init, Active
<1> QED BY <1>1, FS_EmptySet, LifecycleAssumption DEF Roomy

(* A dispatcher that turns leaves the job it probes for room and tenant. *)
LEMMA TurnsRoomy ==
  ASSUME line' \in Seq(Jobs), held' = Active(state'), probing' = Turn(state', line', held'),
         Cardinality(Active(state')) <= MaxConcurrent,
         \A j, k \in Active(state') : Tenant[j] = Tenant[k]
  PROVE  Roomy'
<1>1. \/ probing' = None
      \/ HasRoom(state') /\ SameTenant(probing', state', held')
  BY Turns
<1> QED BY <1>1 DEF Roomy, SameTenant, HasRoom, Active

(* A step after which no more jobs are active than before. *)
LEMMA Shrinks ==
  ASSUME Roomy, overridden' = overridden, line' \in Seq(Jobs), Agreed',
         ~overridden => Active(state') \subseteq Active(state),
         DispatchQueued \/ probing' = Turn(state', line', held') \/ probing' = probing
  PROVE  Roomy'
<1> SUFFICES ASSUME ~overridden PROVE Roomy'
  BY DEF Roomy
<1> DEFINE old == Active(state)
           new == Active(state')
<1>1. new \subseteq old /\ held' = new
  BY DEF Agreed
<1>2. IsFiniteSet(old)
  BY LifecycleAssumption, FS_Subset DEF Active
<1>3. Cardinality(new) <= Cardinality(old) /\ Cardinality(new) \in Nat /\ Cardinality(old) \in Nat
  BY <1>1, <1>2, FS_Subset, FS_CardinalityType
<1>4. /\ Cardinality(old) <= MaxConcurrent /\ MaxConcurrent \in Nat
      /\ \A j, k \in old : Tenant[j] = Tenant[k]
  BY LifecycleAssumption DEF Roomy
<1>5. Cardinality(new) <= MaxConcurrent /\ \A j, k \in new : Tenant[j] = Tenant[k]
  BY <1>1, <1>3, <1>4
<1>6. CASE probing' = Turn(state', line', held')
  BY <1>1, <1>5, <1>6, TurnsRoomy
<1>7. CASE probing' = probing
  <2>1. probing # None => Cardinality(new) < MaxConcurrent /\ \A k \in new : Tenant[k] = Tenant[probing]
    <3>1. probing # None => Cardinality(old) < MaxConcurrent /\ \A k \in old : Tenant[k] = Tenant[probing]
      BY DEF Roomy, HasRoom
    <3> QED BY <1>1, <1>3, <1>4, <3>1
  <2> QED BY <1>5, <1>7, <2>1 DEF Roomy, HasRoom
<1> QED BY <1>6, <1>7 DEF DispatchQueued

LEMMA RoomyNext ==
  ASSUME Types, Lined, Obeyed, Agreed, Roomy, [Next]_vars PROVE Roomy'
<1>0. Types' /\ Agreed' /\ line' \in Seq(Jobs)
  BY TypesNext, AgreedNext DEF Types
<1>a. ASSUME NEW j \in Jobs, NEW s, state' = [state EXCEPT ![j] = s], s # "running"
      PROVE  Active(state') \subseteq Active(state)
  BY <1>a DEF Active, Types
<1>1. ASSUME NEW j \in Jobs, Create(j) PROVE Roomy'
  BY <1>0, <1>a, <1>1, Shrinks DEF Create, history
<1>2. ASSUME NEW j \in Jobs, Cancel(j) PROVE Roomy'
  <2>1. CASE Abort(j)
    BY <1>0, <1>2, <2>1, Shrinks DEF Abort, Cancel
  <2>2. CASE Override(j) /\ Running(j) # {}
    BY <2>2 DEF Override, Roomy
  <2>3. CASE Override(j) /\ Running(j) = {}
    <3>1. overridden' = overridden
      BY <2>3 DEF Override, Types
    <3> QED BY <1>0, <1>a, <1>2, <2>3, <3>1, Shrinks DEF Override, Cancel
  <2> QED BY <1>2, <2>1, <2>2, <2>3 DEF Cancel
<1>3. ASSUME NEW j \in Jobs, Retry(j) PROVE Roomy'
  BY <1>0, <1>a, <1>3, Shrinks DEF Retry
<1>4. ASSUME Dies, UNCHANGED overridden PROVE Roomy'
  BY <1>0, <1>4, Shrinks DEF Dies, records
<1>5. ASSUME NEW j \in Jobs, Start(j) PROVE Roomy'
  <2>1. CASE Dies
    BY <1>4, <1>5, <2>1 DEF Start, history
  <2>2. CASE Scheduled(j)
    <3> SUFFICES ASSUME ~overridden PROVE Roomy'
      BY <1>5 DEF Start, history, Roomy
    <3>1. probing = j /\ j # None /\ overridden' = overridden
      BY <1>5, LifecycleAssumption DEF Start, history
    <3>2. Active(state') = Active(state) \cup {j}
      BY <2>2 DEF Scheduled, Active, Types
    <3>3. /\ Cardinality(Active(state)) < MaxConcurrent
          /\ \A k \in Active(state) : Tenant[k] = Tenant[j]
          /\ \A i, k \in Active(state) : Tenant[i] = Tenant[k]
      BY <3>1 DEF Roomy, HasRoom
    <3>4. Cardinality(Active(state')) <= MaxConcurrent
      <4>1. IsFiniteSet(Active(state))
        BY LifecycleAssumption, FS_Subset DEF Active
      <4>2. /\ Cardinality(Active(state)) \in Nat
            /\ \/ Cardinality(Active(state')) = Cardinality(Active(state))
               \/ Cardinality(Active(state')) = Cardinality(Active(state)) + 1
        BY <3>2, <4>1, FS_AddElement, FS_CardinalityType
      <4>3. MaxConcurrent \in Nat
        BY LifecycleAssumption
      <4> QED BY <3>3, <4>2, <4>3
    <3>5. \A i, k \in Active(state') : Tenant[i] = Tenant[k]
      BY <3>2, <3>3
    <3>6. held' = Active(state')
      BY <1>0, <3>1 DEF Agreed
    <3> QED BY <1>0, <2>2, <3>4, <3>5, <3>6, TurnsRoomy DEF Scheduled
  <2> QED BY <1>5, <2>1, <2>2 DEF Start
<1>6. ASSUME NEW j \in Jobs, Mismatch(j) PROVE Roomy'
  <2>1. CASE Dies
    BY <1>4, <1>6, <2>1 DEF Mismatch, history
  <2>2. CASE Blocked(j)
    BY <1>0, <1>a, <1>6, <2>2, Shrinks DEF Mismatch, Blocked, history
  <2> QED BY <1>6, <2>1, <2>2 DEF Mismatch
<1>7. ASSUME NEW e \in executions, NEW v \in Verdicts(e), Return(e, v) PROVE Roomy'
  <2>1. CASE Kills(e)
    BY <1>4, <2>1 DEF Kills
  <2>2. CASE Requeues(e) \/ \E to : Settles(e, to)
    <3>1. PICK s : /\ state' = [state EXCEPT ![e.job] = s] /\ s # "running"
                   /\ DispatchQueued /\ overridden' = overridden
      BY <2>2 DEF Requeues, Requeued, Settles, Settled
    <3> QED BY <1>0, <1>a, <3>1, Shaped, Shrinks
  <2> QED BY <1>7, <2>1, <2>2, Returns
<1>9. ASSUME NEW e \in executions, TimesOut(e) PROVE Roomy'
  BY <1>0, <1>9, Shrinks DEF TimesOut, history
<1>8. CASE UNCHANGED vars
  BY <1>0, <1>8, Shrinks DEF vars
<1> QED BY <1>1, <1>2, <1>3, <1>5, <1>6, <1>7, <1>8, <1>9
       DEF Next, Client, ProbeReturns, TimersFire, ExecutionReturns

-----------------------------------------------------------------------------
(* The process.                                                             *)

LEMMA AliveInit ==
  ASSUME Init PROVE Alive
BY DEF Init, Alive

(* A step that ends neither the process nor the wait of a probed job. *)
LEMMA Survives ==
  ASSUME Types, Lined', Alive, line' \in Seq(Jobs), up' = up,
         overridden => overridden', preempted => preempted',
         \/ DispatchQueued \/ probing' = Turn(state', line', held') \/ probing' = probing,
         \/ probing' = Turn(state', line', held')
         \/ ~overridden' /\ ~preempted' /\ probing # None => state'[probing] = state[probing]
  PROVE  Alive'
<1>1. up' \/ overridden' \/ preempted'
  BY DEF Alive
<1>2. CASE probing' = Turn(state', line', held')
  <2>1. probing' = None \/ probing' \in Members(line')
    BY <1>2, Turns
  <2>2. Members(line') = {j \in Jobs : state'[j] = "queued"}
    BY DEF Lined, Members
  <2> QED BY <1>1, <2>1, <2>2 DEF Alive
<1>3. CASE probing' = probing /\ ~(probing' = Turn(state', line', held'))
  BY <1>1, <1>3 DEF Alive
<1> QED BY <1>2, <1>3 DEF DispatchQueued

LEMMA AliveNext ==
  ASSUME Types, Lined, Obeyed, Agreed, Alive, [Next]_vars PROVE Alive'
<1>0. Lined' /\ line' \in Seq(Jobs)
  BY TypesNext DEF Types
<1>a. ASSUME NEW j \in Jobs, NEW s, state' = [state EXCEPT ![j] = s], probing # j
      PROVE  probing # None => state'[probing] = state[probing]
  BY <1>a DEF Types
<1>b. ~overridden /\ ~preempted /\ probing # None => state[probing] = "queued"
  BY DEF Alive
<1>1. ASSUME NEW j \in Jobs, Create(j) PROVE Alive'
  <2>1. UNCHANGED <<up, overridden, preempted>> /\ DispatchQueued /\ state[j] = "none"
        /\ state' = [state EXCEPT ![j] = "queued"]
    BY <1>1 DEF Create, history
  <2>2. ~overridden' /\ ~preempted' /\ probing # None => state'[probing] = state[probing]
    BY <1>a, <1>b, <2>1
  <2> QED BY <1>0, <2>1, <2>2, Survives
<1>2. ASSUME NEW j \in Jobs, Cancel(j) PROVE Alive'
  <2>1. CASE Abort(j)
    BY <1>0, <1>2, <2>1, Survives DEF Abort, Cancel
  <2>2. CASE Override(j)
    <3> DEFINE P == Running(j) # {}
               Q == probing = j
    <3>1. overridden' = (overridden \/ P) /\ preempted' = (preempted \/ Q)
      BY <2>2 DEF Override
    <3>2. ~preempted' => probing # j
      BY <3>1
    <3>3. (overridden => overridden') /\ (preempted => preempted')
      <4> HIDE DEF P, Q
      <4> QED BY <3>1
    <3>4. ~overridden' /\ ~preempted' /\ probing # None => state'[probing] = state[probing]
      BY <1>a, <2>2, <3>2 DEF Override
    <3>5. UNCHANGED <<up, probing>>
      BY <1>2 DEF Cancel
    <3> QED BY <1>0, <3>3, <3>4, <3>5, Survives
  <2> QED BY <1>2, <2>1, <2>2 DEF Cancel
<1>3. ASSUME NEW j \in Jobs, Retry(j) PROVE Alive'
  <2>1. UNCHANGED <<up, overridden, preempted>> /\ DispatchQueued /\ state[j] # "queued"
        /\ state' = [state EXCEPT ![j] = "queued"]
    BY <1>3 DEF Retry, Terminal
  <2>2. ~overridden' /\ ~preempted' /\ probing # None => state'[probing] = state[probing]
    BY <1>a, <1>b, <2>1
  <2> QED BY <1>0, <2>1, <2>2, Survives
<1>4. ASSUME Dies, UNCHANGED <<overridden, preempted>>, overridden \/ preempted PROVE Alive'
  <2>1. UNCHANGED <<state, probing>>
    BY <1>4 DEF Dies, records
  <2> QED BY <1>4, <2>1 DEF Alive
<1>5. ASSUME NEW j \in Jobs, Start(j) PROVE Alive'
  <2>1. CASE Dies /\ ~Allowed(state[j], "scheduled")
    <3>1. probing = j /\ j # None
      BY <1>5, LifecycleAssumption DEF Start
    <3>2. overridden \/ preempted
      BY <1>b, <2>1, <3>1 DEF Allowed
    <3> QED BY <1>4, <1>5, <2>1, <3>2 DEF Start, history
  <2>2. CASE Scheduled(j)
    <3>1. UNCHANGED <<up, overridden, preempted>> /\ probing' = Turn(state', line', held')
      BY <1>5, <2>2 DEF Start, Scheduled, history
    <3> QED BY <1>0, <3>1, Survives
  <2> QED BY <1>5, <2>1, <2>2 DEF Start
<1>6. ASSUME NEW j \in Jobs, Mismatch(j) PROVE Alive'
  <2>1. CASE Dies /\ ~Allowed(state[j], "blocked")
    <3>1. probing = j /\ j # None
      BY <1>6, LifecycleAssumption DEF Mismatch
    <3>2. overridden \/ preempted
      BY <1>b, <2>1, <3>1 DEF Allowed
    <3> QED BY <1>4, <1>6, <2>1, <3>2 DEF Mismatch, history
  <2>2. CASE Blocked(j)
    <3>1. UNCHANGED <<up, overridden, preempted>> /\ probing' = Turn(state', line', held')
      BY <1>6, <2>2 DEF Mismatch, Blocked, history
    <3> QED BY <1>0, <3>1, Survives
  <2> QED BY <1>6, <2>1, <2>2 DEF Mismatch
<1>7. ASSUME NEW e \in executions, NEW v \in Verdicts(e), Return(e, v) PROVE Alive'
  <2>0. e.job \in Jobs /\ (~overridden => state[e.job] = "running")
    BY Shaped DEF Agreed, Running
  <2>1. CASE Kills(e)
    BY <1>4, <2>0, <2>1 DEF Kills
  <2>2. CASE Requeues(e) \/ \E to : Settles(e, to)
    <3>1. PICK s : /\ state' = [state EXCEPT ![e.job] = s]
                   /\ DispatchQueued /\ UNCHANGED <<up, overridden, preempted>>
      BY <2>2 DEF Requeues, Requeued, Settles, Settled
    <3>2. ~overridden' /\ ~preempted' /\ probing # None => state'[probing] = state[probing]
      BY <1>a, <1>b, <2>0, <3>1
    <3> QED BY <1>0, <3>1, <3>2, Survives
  <2> QED BY <1>7, <2>1, <2>2, Returns
<1>9. ASSUME NEW e \in executions, TimesOut(e) PROVE Alive'
  BY <1>0, <1>9, Survives DEF TimesOut, history
<1>8. CASE UNCHANGED vars
  BY <1>0, <1>8, Survives DEF vars
<1> QED BY <1>1, <1>2, <1>3, <1>5, <1>6, <1>7, <1>8, <1>9
       DEF Next, Client, ProbeReturns, TimersFire, ExecutionReturns

-----------------------------------------------------------------------------
(* The theorems.                                                            *)

(* The six conjuncts are inductive together. *)
THEOREM Invariant == Spec => []Inv
<1>1. Init => Inv
  BY TypesInit, ObeyedInit, AgreedInit, RoomyInit, AliveInit DEF Inv
<1>2. Inv /\ [Next]_vars => Inv'
  BY TypesNext, ObeyedNext, AgreedNext, RoomyNext, AliveNext DEF Inv
<1> QED BY <1>1, <1>2, PTL DEF Spec

(* Whatever the clients, the probes and the runners do, the record, the     *)
(* queue, the reservation, the controller and the execution of every job    *)
(* agree, unless a client cancelled a job under its own execution.          *)
THEOREM RecordsHold == Spec => []RecordsAgree
<1>1. Inv => RecordsAgree
  BY ShapesOK DEF Inv, Agreed, RecordsAgree
<1> QED BY <1>1, Invariant, PTL

(* No more executions than places, and one tenant's: each execution is that *)
(* of an active record of its own.                                          *)
THEOREM PlacesHold == Spec => []ReservationsHold
<1>1. ASSUME Inv, ~overridden
      PROVE  /\ Cardinality(executions) <= MaxConcurrent
             /\ \A d, e \in executions : Tenant[d.job] = Tenant[e.job]
  <2>1. \A e \in executions : e.job \in Active(state) /\ e \in Running(e.job)
    BY <1>1, Shaped DEF Inv, Agreed, Active, Running
  <2> DEFINE f == [e \in executions |-> e.job]
  <2>2. f \in Injection(executions, Active(state))
    <3>1. f \in [executions -> Active(state)]
      BY <2>1
    <3>2. ASSUME NEW d \in executions, NEW e \in executions, f[d] = f[e] PROVE d = e
      <4>1. e.job \in Jobs /\ d \in Running(e.job) /\ e \in Running(e.job)
        BY <1>1, <2>1, <3>2, Shaped DEF Inv
      <4> QED BY <1>1, <4>1 DEF Inv, Agreed
    <3> HIDE DEF f
    <3> QED BY <3>1, <3>2 DEF Injection, IsInjective
  <2>3. IsFiniteSet(Active(state))
    BY LifecycleAssumption, FS_Subset DEF Active
  <2> HIDE DEF f
  <2>4. /\ Cardinality(executions) <= Cardinality(Active(state))
        /\ Cardinality(executions) \in Nat /\ Cardinality(Active(state)) \in Nat
    BY <2>2, <2>3, FS_Injection, FS_CardinalityType
  <2>5. /\ Cardinality(Active(state)) <= MaxConcurrent /\ MaxConcurrent \in Nat
        /\ \A j, k \in Active(state) : Tenant[j] = Tenant[k]
    BY <1>1, LifecycleAssumption DEF Inv, Roomy
  <2> QED BY <2>1, <2>4, <2>5
<1>2. Inv => ReservationsHold
  BY <1>1 DEF ReservationsHold
<1> QED BY <1>2, Invariant, PTL

(* The node's process ends only after one of the two cancels the history    *)
(* records.                                                                 *)
THEOREM DeathsExplained == Spec => []DiesOnlyByCancel
<1>1. Inv => DiesOnlyByCancel
  BY DEF Inv, Alive, DiesOnlyByCancel
<1> QED BY <1>1, Invariant, PTL

LEMMA HonouredByStep ==
  ASSUME Inv, [Next]_vars, NEW j \in wanted \cap wanted',
         NEW e \in executions' \ executions, e.job = j
  PROVE  e.aborted
<1>0. Types /\ Obeyed /\ j \in Jobs
  BY DEF Inv, Types
<1>1. ASSUME NEW k \in Jobs, Create(k) PROVE e.aborted
  BY <1>1 DEF Create
<1>2. ASSUME NEW k \in Jobs, Cancel(k) PROVE e.aborted
  <2>1. PICK d \in Running(k) : executions' = (executions \ {d}) \cup {[d EXCEPT !.aborted = TRUE]}
    BY <1>2 DEF Cancel, Abort, Override
  <2>2. e = [d EXCEPT !.aborted = TRUE] /\ d \in Executions
    BY <1>0, <2>1 DEF Running, Types
  <2> QED BY <2>2 DEF Executions
<1>3. ASSUME NEW k \in Jobs, Retry(k) PROVE e.aborted
  BY <1>3 DEF Retry
<1>4. CASE Dies
  BY <1>4 DEF Dies, records
<1>5. ASSUME NEW k \in Jobs, Start(k) PROVE e.aborted
  <2>1. CASE Scheduled(k) /\ Allowed(state[k], "scheduled")
    <3>1. state[k] = "queued"
      BY <1>0, <2>1 DEF Allowed, Types, Terminal
    <3>2. e = [job |-> k, attempt |-> retries[k], aborted |-> FALSE, timedOut |-> FALSE]
      BY <2>1 DEF Scheduled
    <3>3. j = k
      BY <3>2
    <3> QED BY <1>0, <3>1, <3>3 DEF Obeyed, Obeys
  <2> QED BY <1>4, <1>5, <2>1 DEF Start
<1>6. ASSUME NEW k \in Jobs, Mismatch(k) PROVE e.aborted
  BY <1>4, <1>6 DEF Mismatch, Blocked
<1>7. ASSUME NEW d \in executions, NEW v \in Verdicts(d), Return(d, v) PROVE e.aborted
  BY <1>0, <1>4, <1>7, Returns DEF Requeues, Settles, Kills
<1>9. ASSUME NEW d \in executions, TimesOut(d) PROVE e.aborted
  <2>1. e = [d EXCEPT !.timedOut = TRUE] /\ ~d.aborted
    BY <1>9 DEF TimesOut
  <2>2. d \in Running(d.job) /\ d.job = j
    BY <1>0, <2>1, Shaped DEF Running, Types, Executions
  <2> QED BY <1>0, <2>1, <2>2 DEF Obeyed, Obeys
<1>8. CASE UNCHANGED vars
  BY <1>8 DEF vars
<1> QED BY <1>1, <1>2, <1>3, <1>5, <1>6, <1>7, <1>8, <1>9
       DEF Next, Client, ProbeReturns, TimersFire, ExecutionReturns

(* A cancelled job is not started: only a queued job is, and a job that is  *)
(* queued is one no client has cancelled since.                             *)
THEOREM CancelsHonoured == Spec => CancelHonoured
<1>1. Inv /\ [Next]_vars =>
        [\A j \in wanted \cap wanted' :
           \A e \in executions' \ executions : e.job = j => e.aborted]_vars
  BY HonouredByStep
<1> QED BY <1>1, Invariant, PTL DEF Spec, CancelHonoured

=============================================================================
