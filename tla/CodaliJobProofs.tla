-------------------------- MODULE CodaliJobProofs --------------------------
(* Theorems about CodaliJob, for any requests, budgets and answers.         *)
EXTENDS CodaliJob, SequenceTheorems, FiniteSetTheorems, TLAPS

-----------------------------------------------------------------------------
(* Sums.  Total counts pairs, so that what holds of finite sets holds of it. *)

Pairs(counts, set) == UNION {{i} \X (1..counts[i]) : i \in set}

LEMMA PairsMembers ==
  ASSUME NEW counts, NEW set
  PROVE  \A p : p \in Pairs(counts, set) <=> \E i \in set : \E n \in 1..counts[i] : p = <<i, n>>
BY DEF Pairs

LEMMA PairsFinite ==
  ASSUME NEW set, IsFiniteSet(set), NEW counts, \A i \in set : counts[i] \in Nat
  PROVE  IsFiniteSet(Pairs(counts, set))
<1> DEFINE column(i) == {i} \X (1..counts[i])
           columns == {column(i) : i \in set}
           f == [i \in set |-> column(i)]
<1>1. ASSUME NEW i \in set PROVE IsFiniteSet(column(i))
  <2>1. IsFiniteSet({i})
    BY FS_Singleton
  <2>2. counts[i] \in Int
    BY <1>1
  <2>3. IsFiniteSet(1..counts[i])
    BY <2>2, FS_Interval
  <2> QED BY <2>1, <2>3, FS_Product
<1>2. f \in Surjection(set, columns)
  BY DEF Surjection
<1>3. IsFiniteSet(columns)
  <2> HIDE DEF f, columns
  <2> QED BY <1>2, FS_Surjection
<1>4. \A T \in columns : IsFiniteSet(T)
  BY <1>1
<1>5. IsFiniteSet(UNION columns)
  <2> HIDE DEF columns
  <2> QED BY <1>3, <1>4, FS_UNION
<1> QED BY <1>5 DEF Pairs

LEMMA TotalNat ==
  ASSUME NEW set, IsFiniteSet(set), NEW counts, \A i \in set : counts[i] \in Nat
  PROVE  Total(counts, set) \in Nat
BY PairsFinite, FS_CardinalityType DEF Total, Pairs

(* Equal counts have equal sums, and only noughts none. *)
LEMMA TotalSame ==
  ASSUME NEW set, NEW counts, NEW others, \A i \in set : counts[i] = others[i]
  PROVE  Total(counts, set) = Total(others, set)
<1>1. {{i} \X (1..counts[i]) : i \in set} = {{i} \X (1..others[i]) : i \in set}
  OBVIOUS
<1> QED BY <1>1 DEF Total

LEMMA TotalNought ==
  ASSUME NEW set, NEW counts, \A i \in set : counts[i] = 0
  PROVE  Total(counts, set) = 0
<1>1. Pairs(counts, set) = {}
  BY PairsMembers
<1> QED BY <1>1, FS_EmptySet DEF Total, Pairs

(* One term taken out of a sum. *)
LEMMA TotalTerm ==
  ASSUME NEW set, IsFiniteSet(set), NEW counts, \A k \in set : counts[k] \in Nat, NEW i \in set
  PROVE  /\ Total(counts, set \ {i}) \in Nat
         /\ Total(counts, set) = counts[i] + Total(counts, set \ {i})
<1> DEFINE rest == set \ {i}
           column == {i} \X (1..counts[i])
<1>1. IsFiniteSet(rest) /\ \A k \in rest : counts[k] \in Nat
  BY FS_Subset
<1>2. IsFiniteSet(Pairs(counts, rest)) /\ Total(counts, rest) \in Nat
  BY <1>1, PairsFinite, TotalNat
<1>3. IsFiniteSet(column) /\ Cardinality(column) = counts[i]
  <2>1. IsFiniteSet({i}) /\ Cardinality({i}) = 1
    BY FS_Singleton
  <2>2. IsFiniteSet(1..counts[i]) /\ Cardinality(1..counts[i]) = counts[i]
    BY FS_Interval
  <2>3. IsFiniteSet(column) /\ Cardinality(column) = 1 * counts[i]
    BY <2>1, <2>2, FS_Product
  <2> QED BY <2>3
<1>4. Pairs(counts, set) = column \cup Pairs(counts, rest) /\ column \cap Pairs(counts, rest) = {}
  BY PairsMembers
<1>5. Cardinality(Pairs(counts, set)) = counts[i] + Cardinality(Pairs(counts, rest))
  <2> HIDE DEF column, rest
  <2>1. /\ Cardinality(Pairs(counts, set)) =
             Cardinality(column) + Cardinality(Pairs(counts, rest)) - Cardinality({})
        /\ Cardinality({}) = 0
    BY <1>2, <1>3, <1>4, FS_Union, FS_EmptySet
  <2>2. Cardinality(Pairs(counts, rest)) \in Nat
    BY <1>2, FS_CardinalityType
  <2> QED BY <1>3, <2>1, <2>2
<1> QED BY <1>2, <1>5 DEF Total, Pairs

(* A sum of smaller counts, over fewer of them, is smaller. *)
LEMMA TotalLess ==
  ASSUME NEW set, IsFiniteSet(set), NEW counts, \A i \in set : counts[i] \in Nat,
         NEW part \in SUBSET set, NEW others,
         \A i \in part : others[i] \in Nat /\ others[i] <= counts[i]
  PROVE  Total(others, part) <= Total(counts, set)
<1>1. IsFiniteSet(Pairs(counts, set))
  BY PairsFinite
<1>2. Pairs(others, part) \subseteq Pairs(counts, set)
  <2> SUFFICES ASSUME NEW i \in part, NEW n \in 1..others[i] PROVE i \in set /\ n \in 1..counts[i]
    BY PairsMembers
  <2> QED OBVIOUS
<1>3. Cardinality(Pairs(others, part)) <= Cardinality(Pairs(counts, set))
  BY <1>1, <1>2, FS_Subset
<1> QED BY <1>3 DEF Total, Pairs

-----------------------------------------------------------------------------
(* Sequences and finite sets. *)

LEMMA SeqShape ==
  ASSUME NEW S, NEW s \in Seq(S)
  PROVE  Len(s) \in Nat /\ DOMAIN s = 1..Len(s) /\ \A i \in DOMAIN s : s[i] \in S
BY LenProperties

(* A sequence with another one behind it. *)
LEMMA Joined ==
  ASSUME NEW S, NEW s \in Seq(S), NEW t \in Seq(S)
  PROVE  /\ s \o t \in Seq(S)
         /\ \A i \in DOMAIN s : i \in DOMAIN (s \o t) /\ (s \o t)[i] = s[i]
         /\ \A k \in DOMAIN t : Len(s) + k \in DOMAIN (s \o t) /\ (s \o t)[Len(s) + k] = t[k]
         /\ \A i \in DOMAIN (s \o t) :
               i \in DOMAIN s \/ (i > Len(s) /\ i - Len(s) \in DOMAIN t)
<1> DEFINE n == Len(s)
           m == Len(t)
<1>1. n \in Nat /\ DOMAIN s = 1..n /\ m \in Nat /\ DOMAIN t = 1..m
  BY SeqShape
<1>2. /\ s \o t \in Seq(S) /\ Len(s \o t) = n + m
      /\ \A i \in 1..(n + m) : (s \o t)[i] = IF i <= n THEN s[i] ELSE t[i - n]
  BY ConcatProperties
<1>3. DOMAIN (s \o t) = 1..(n + m)
  BY <1>2, SeqShape
<1> HIDE DEF n, m
<1>4. \A k \in 1..m : n + k \in 1..(n + m) /\ ~ (n + k <= n) /\ (n + k) - n = k
  BY <1>1
<1>5. \A i \in 1..n : i \in 1..(n + m) /\ i <= n
  BY <1>1
<1>6. \A i \in 1..(n + m) : i \in 1..n \/ (i > n /\ i - n \in 1..m)
  BY <1>1
<1> QED BY <1>1, <1>2, <1>3, <1>4, <1>5, <1>6 DEF n, m

LEMMA RunsFinite == IsFiniteSet(Runs) /\ \A S \in SUBSET Runs : IsFiniteSet(S) /\ Cardinality(S) \in Nat
<1>1. IsFiniteSet(Stages)
  BY JobAssumption, FS_Interval DEF Stages
<1>2. IsFiniteSet(Runs)
  BY <1>1, FS_AddElement DEF Runs
<1> QED BY <1>2, FS_Subset, FS_CardinalityType

(* What a request and the assumption on the constants say of it. *)
LEMMA RequestIs ==
  ASSUME request \in Requests
  PROVE  /\ request.budget \in Nat /\ request.followups \in Nat /\ request.optional \subseteq Stages
         /\ \A s \in Stages : request.maxToolCalls[s] \in Nat \union {Unset}
BY JobAssumption DEF Requests

LEMMA RunsAre == 0 \notin Stages /\ Repair = 0 /\ Runs = Stages \union {0} /\ Stages \subseteq Nat
BY JobAssumption DEF Stages, Runs, Repair

-----------------------------------------------------------------------------
(* The inductive invariant. *)

Entered == phase \notin {"validate", "refused"}

(* A run that failed answers nothing and reports no call. *)
Honest ==
  /\ \A r \in Runs : found[r].ok \/ found[r] = Failed
  /\ \A i \in DOMAIN results : results[i].ok \/ results[i].answer = "plain"

(* The stages without a result are the pending ones, and a wave is made of pending *)
(* stages whose dependencies have results, each of them once.                      *)
Scheduled ==
  /\ phase # "stalled"
  /\ ~ Entered => pending = {} /\ results = <<>>
  /\ Entered => validateStageDag(request.dependsOn)
  /\ Entered => \A s \in Stages : s \in pending <=> ~ ResultOf(s)
  /\ phase # "wave" => active = <<>>
  /\ phase = "wave" => ~ stopped /\ ToSet(active) \subseteq ReadyStages
  /\ \A i, j \in DOMAIN active : active[i] = active[j] => i = j
  /\ \A r \in Runs : lane[r] # "idle" =>
        (phase = "wave" /\ r \in ToSet(active)) \/ (phase = "repair" /\ r = Repair)
  /\ \A i \in DOMAIN results :
        results[i].stage \in Stages \/ (phase \in {"close", "done"} /\ status # "succeeded")

(* The results for which the job is stopped. *)
Blamed(i) ==
  /\ results[i].stage \in Stages
  /\ IF results[i].ok THEN results[i].answer = "clarify" ELSE results[i].stage \notin request.optional

Answered == \A i \in DOMAIN results : results[i].ok

(* The job goes on as long as no result is to blame; all that are, are of the last *)
(* wave, and the last of them has decided.                                         *)
Judgement ==
  /\ ~ stopped => status \in {"succeeded", "partial"} /\ \A i \in DOMAIN results : ~ Blamed(i)
  /\ stopped => \E d \in DOMAIN results :
        /\ Blamed(d) /\ status = IF results[d].ok THEN "needs_clarification" ELSE "failed"
        /\ \A i \in DOMAIN results :
              Blamed(i) => i <= d /\ SameWave(results[i].stage, results[d].stage)
  /\ status = "succeeded" => Answered
  /\ status = "partial" => Doubted \/ FailedResults # {}
  /\ phase \in {"close", "done"} /\ status = "succeeded" => pending = {} /\ ~ Doubted
  /\ phase = "repair" => pending = {} /\ ~ stopped /\ status = "partial" /\ Answered

Ended == {r \in Runs : lane[r] = "ended"}
Live == {r \in Runs : lane[r] # "idle"}
Reported == [r \in Runs |-> found[r].calls]

(* The runs of a wave have no more to spend than is left; what was spent is charged, *)
(* reported and yet to be charged, or was spent by a run that failed.                *)
Charged ==
  /\ Total(allocations, Live) <= remainingToolCalls
  /\ \A r \in Ended : found[r].calls <= allocations[r]
  /\ spent + remainingToolCalls <=
        request.budget + Total(Reported, Ended)
           + request.budget * (Cardinality(Failures) + Cardinality(FailedResults))

Inv == TypeOK /\ Honest /\ Scheduled /\ Judgement /\ Charged

-----------------------------------------------------------------------------
(* The graph and the shares. *)

(* An accepted graph never stalls: of stages that all wait for one another some would *)
(* make up a cycle.                                                                   *)
LEMMA SomeReady ==
  ASSUME request \in Requests, pending \subseteq Stages, pending # {},
         validateStageDag(request.dependsOn),
         \A s \in Stages : s \in pending <=> ~ ResultOf(s)
  PROVE  ReadyStages # {}
<1> SUFFICES ASSUME ReadyStages = {} PROVE FALSE
  OBVIOUS
<1>1. \A s \in pending : request.dependsOn[s] \intersect pending # {}
  <2> SUFFICES ASSUME NEW s \in pending PROVE request.dependsOn[s] \intersect pending # {}
    OBVIOUS
  <2>1. PICK d \in request.dependsOn[s] : ~ ResultOf(d)
    BY DEF ReadyStages
  <2>2. d \in Stages
    BY DEF validateStageDag
  <2> QED BY <2>1, <2>2
<1>2. pending \in (SUBSET Stages) \ {{}}
  OBVIOUS
<1>3. Cyclic(request.dependsOn)
  BY <1>1, <1>2 DEF Cyclic
<1> QED BY <1>3 DEF validateStageDag

(* What a wave is. *)
LEMMA WaveIs ==
  ASSUME TypeOK, NEW wave \in Waves
  PROVE  /\ wave \in Seq(Stages) /\ ToSet(wave) \subseteq ReadyStages
         /\ \A i, j \in DOMAIN wave : wave[i] = wave[j] => i = j
         /\ ReadyStages = {} => wave = <<>>
<1>1. PICK n \in 0..MaxParallelStages : wave \in [1..n -> ReadyStages]
  BY DEF Waves
<1>2. n \in Nat /\ ReadyStages \subseteq Stages
  BY JobAssumption, <1>1 DEF TypeOK, ReadyStages
<1>3. wave \in Seq(ReadyStages) /\ wave \in Seq(Stages)
  BY <1>1, <1>2, SeqDef
<1>4. ToSet(wave) \subseteq ReadyStages
  BY <1>1 DEF ToSet
<1>5. ASSUME NEW i \in DOMAIN wave, NEW j \in DOMAIN wave, wave[i] = wave[j] PROVE i = j
  <2>1. DOMAIN wave = 1..n /\ \A k \in 1..n : k \in Nat /\ wave[k] \in Stages
    BY <1>1, <1>2
  <2>4. i \in Nat /\ j \in Nat /\ wave[i] \in Nat
    BY <2>1, RunsAre
  <2>2. i < j => wave[i] < wave[j]
    BY DEF Waves
  <2>3. j < i => wave[j] < wave[i]
    BY DEF Waves
  <2> QED BY <1>5, <2>2, <2>3, <2>4
<1>6. ASSUME ReadyStages = {} PROVE wave = <<>>
  <2>1. DOMAIN wave = {} /\ Len(wave) \in Nat /\ DOMAIN wave = 1..Len(wave)
    BY <1>1, <1>3, <1>6, SeqShape
  <2>2. Len(wave) = 0
    BY <2>1
  <2> QED BY <1>3, <2>2, EmptySeq
<1> QED BY <1>3, <1>4, <1>5, <1>6

(* The stages of a wave are together given no more than is left: the last one is *)
(* given at most what the ones before it have left over.                         *)
LEMMA AllocationFits ==
  ASSUME TypeOK, NEW wave \in Seq(Stages), NEW to \in [Runs -> Nat], Allocated(wave, to),
         \A i, j \in DOMAIN wave : wave[i] = wave[j] => i = j
  PROVE  Total(to, ToSet(wave)) <= remainingToolCalls
<1> DEFINE set == ToSet(wave)
           n == Len(wave)
<1>1. n \in Nat /\ DOMAIN wave = 1..n /\ \A i \in 1..n : wave[i] \in Stages
  BY SeqShape
<1>2. set \subseteq Runs /\ IsFiniteSet(set) /\ remainingToolCalls \in Nat
  <2>1. set \subseteq Runs
    BY <1>1 DEF ToSet, Runs
  <2>2. request.budget \in Nat
    BY RequestIs DEF TypeOK
  <2> QED BY <2>1, <2>2, RunsFinite DEF TypeOK
<1>3. CASE RequestedTotal(wave) <= remainingToolCalls
  <2>1. \A s \in set : to[s] = [t \in set |-> Requested(t)][s]
    BY <1>3 DEF Allocated
  <2>2. Total(to, set) = RequestedTotal(wave)
    BY <2>1, TotalSame DEF RequestedTotal
  <2> QED BY <1>3, <2>2
<1>4. CASE ~ (RequestedTotal(wave) <= remainingToolCalls) /\ n = 0
  <2>1. set = {}
    BY <1>1, <1>4 DEF ToSet
  <2>2. Total(to, set) = 0
    BY <2>1, TotalNought
  <2> QED BY <1>2, <2>2
<1>5. CASE ~ (RequestedTotal(wave) <= remainingToolCalls) /\ n # 0
  <2> DEFINE last == wave[n]
             before == {wave[j] : j \in 1..(n - 1)}
             rest == remainingToolCalls - Total(to, before)
  <2>1. n \in 1..n /\ \A j \in 1..n : j \in 1..(n - 1) <=> j # n
    <3> HIDE DEF n
    <3> QED BY <1>1, <1>5
  <2>2. last \in set /\ before = set \ {last}
    <3>1. \A j \in 1..(n - 1) : j \in 1..n /\ j # n
      <4> HIDE DEF n
      <4> QED BY <1>1
    <3>2. \A j \in 1..(n - 1) : wave[j] # last
      BY <1>1, <2>1, <3>1
    <3> QED BY <1>1, <2>1, <3>1, <3>2 DEF ToSet
  <2>3. Total(to, before) \in Nat /\ Total(to, set) = to[last] + Total(to, before)
    BY <1>2, <2>2, TotalTerm
  <2>4. FairShare(wave, to, n) = rest
    <3>1. n - n + 1 = 1
      BY <1>1
    <3>2. rest \in Int
      BY <1>2, <2>3
    <3> HIDE DEF rest
    <3>3. rest \div 1 = rest
      BY <3>2
    <3> QED BY <3>1, <3>3 DEF FairShare, rest
  <2>5. to[last] <= rest
    <3>1. to[last] = IF Requested(last) < FairShare(wave, to, n) THEN Requested(last)
                     ELSE FairShare(wave, to, n)
      BY <1>1, <1>5, <2>1 DEF Allocated
    <3>2. Requested(last) \in Nat /\ to[last] \in Nat
      <4>1. last \in Stages /\ last \in Runs
        BY <1>1, <2>1 DEF Runs
      <4>2. request.maxToolCalls[last] \in Nat \union {Unset}
        BY <4>1, RequestIs DEF TypeOK
      <4> QED BY <1>2, <4>1, <4>2 DEF Requested
    <3>3. rest \in Int
      BY <1>2, <2>3
    <3> HIDE DEF rest, last
    <3> QED BY <2>4, <3>1, <3>2, <3>3
  <2>6. to[last] \in Nat
    BY <1>2, <2>2
  <2> QED BY <1>2, <2>3, <2>5, <2>6
<1> QED BY <1>3, <1>4, <1>5

-----------------------------------------------------------------------------
(* What the steps do. *)

Outcome == [ok : BOOLEAN, answer : Answers, calls : Nat]
Result == [stage : Runs, ok : BOOLEAN, answer : Answers]

(* A run that ends has a result, and has made no more calls than it was given. *)
LEMMA RunEnds ==
  ASSUME TypeOK, NEW r \in Runs, Refuse(r) \/ Answer(r) \/ Throw(r)
  PROVE  /\ lane[r] \notin {"idle", "ended"} /\ lane' = [lane EXCEPT ![r] = "ended"]
         /\ UNCHANGED <<request, phase, waveVars, expired>>
         /\ \E f \in Outcome, c \in Nat :
               /\ found' = [found EXCEPT ![r] = f] /\ spent' = spent + c
               /\ f.ok \/ f = Failed
               /\ f.calls <= allocations[r] /\ c <= allocations[r]
               /\ f.ok => c = f.calls
<1>1. allocations[r] \in Nat /\ spent \in Nat
  BY DEF TypeOK
<1>2. Failed \in Outcome /\ Failed.calls = 0 /\ Failed.calls <= allocations[r] /\ ~ Failed.ok
  BY <1>1 DEF Failed, Outcome, Answers
<1>3. CASE Refuse(r)
  <2>1. spent' = spent + 0 /\ found' = [found EXCEPT ![r] = Failed]
    BY <1>1, <1>3 DEF Refuse
  <2>2. 0 \in Nat /\ 0 <= allocations[r]
    BY <1>1
  <2> QED BY <1>2, <1>3, <2>1, <2>2 DEF Refuse
<1>4. CASE Answer(r)
  <2>1. PICK answer \in Answers, calls \in 0..allocations[r] :
           found' = [found EXCEPT ![r] = Completed(answer, calls)] /\ spent' = spent + calls
    BY <1>4 DEF Answer, Calls
  <2>2. calls \in Nat /\ calls <= allocations[r]
    BY <1>1
  <2>3. Completed(answer, calls) \in Outcome /\ Completed(answer, calls).ok
         /\ Completed(answer, calls).calls = calls
    BY <2>2 DEF Completed, Outcome
  <2> QED BY <1>4, <2>1, <2>2, <2>3 DEF Answer, Running
<1>5. CASE Throw(r)
  <2>1. PICK calls \in 0..allocations[r] : spent' = spent + calls
    BY <1>5 DEF Throw, Calls
  <2>2. calls \in Nat /\ calls <= allocations[r]
    BY <1>1
  <2> QED BY <1>2, <1>5, <2>1, <2>2 DEF Throw, Running
<1> QED BY <1>3, <1>4, <1>5

(* The results of a wave go behind those there are. *)
LEMMA ResultsGrow ==
  ASSUME TypeOK, NEW wave \in Seq(Runs),
         results' = results \o [i \in DOMAIN wave |-> Record(wave[i])]
  PROVE  /\ Len(results) \in Nat /\ DOMAIN results = 1..Len(results)
         /\ DOMAIN wave = 1..Len(wave) /\ Len(wave) \in Nat
         /\ results' \in Seq(Result)
         /\ \A i \in DOMAIN results : i \in DOMAIN results' /\ results'[i] = results[i]
         /\ \A k \in DOMAIN wave :
               Len(results) + k \in DOMAIN results' /\ results'[Len(results) + k] = Record(wave[k])
         /\ \A i \in DOMAIN results' :
               i \in DOMAIN results \/ (i > Len(results) /\ i - Len(results) \in DOMAIN wave)
<1> DEFINE new == [i \in DOMAIN wave |-> Record(wave[i])]
<1>1. results \in Seq(Result)
  BY DEF TypeOK, Result
<1>2. Len(wave) \in Nat /\ DOMAIN wave = 1..Len(wave) /\ \A i \in DOMAIN wave : wave[i] \in Runs
  BY SeqShape
<1>3. \A r \in Runs : Record(r) \in Result
  BY DEF Record, Result, TypeOK
<1>4. new \in [1..Len(wave) -> Result]
  BY <1>2, <1>3
<1>5. new \in Seq(Result)
  BY <1>2, <1>4, SeqDef
<1>6. DOMAIN new = DOMAIN wave /\ \A k \in DOMAIN wave : new[k] = Record(wave[k])
  OBVIOUS
<1>7. results' = results \o new
  OBVIOUS
<1> HIDE DEF new
<1>8. /\ results \o new \in Seq(Result)
      /\ \A i \in DOMAIN results : i \in DOMAIN (results \o new) /\ (results \o new)[i] = results[i]
      /\ \A k \in DOMAIN new : /\ Len(results) + k \in DOMAIN (results \o new)
                                /\ (results \o new)[Len(results) + k] = new[k]
      /\ \A i \in DOMAIN (results \o new) :
            i \in DOMAIN results \/ (i > Len(results) /\ i - Len(results) \in DOMAIN new)
  BY <1>1, <1>5, Joined
<1>9. Len(results) \in Nat /\ DOMAIN results = 1..Len(results)
  BY <1>1, SeqShape
<1> QED BY <1>2, <1>6, <1>7, <1>8, <1>9

-----------------------------------------------------------------------------
(* The budget. *)

LEMMA Counts ==
  ASSUME TypeOK
  PROVE  /\ request.budget \in Nat /\ remainingToolCalls \in Nat
         /\ remainingToolCalls <= request.budget
         /\ IsFiniteSet(Failures) /\ Cardinality(Failures) \in Nat
         /\ IsFiniteSet(FailedResults) /\ Cardinality(FailedResults) \in Nat
<1>1. request.budget \in Nat
  BY RequestIs DEF TypeOK
<1>2. IsFiniteSet(Failures) /\ Cardinality(Failures) \in Nat
  BY RunsFinite DEF Failures
<1>3. Len(results) \in Nat /\ DOMAIN results = 1..Len(results)
  BY SeqShape DEF TypeOK
<1>4. IsFiniteSet(DOMAIN results)
  BY <1>3, FS_Interval
<1>5. IsFiniteSet(FailedResults)
  BY <1>4, FS_Subset DEF FailedResults
<1> QED BY <1>1, <1>2, <1>5, FS_CardinalityType DEF TypeOK

(* What the ended runs of a wave report is no more than is left. *)
LEMMA Uncharged ==
  ASSUME TypeOK, Charged
  PROVE  /\ Total(Reported, Ended) \in Nat /\ Total(allocations, Live) \in Nat
         /\ Total(Reported, Ended) <= Total(allocations, Live)
         /\ Total(Reported, Ended) <= remainingToolCalls
<1>1. Ended \subseteq Live /\ Live \subseteq Runs
  BY DEF Ended, Live
<1>2. IsFiniteSet(Ended) /\ IsFiniteSet(Live)
  BY <1>1, RunsFinite
<1>3. \A r \in Runs : allocations[r] \in Nat /\ found[r].calls \in Nat
  BY DEF TypeOK
<1>4. \A r \in Ended : Reported[r] \in Nat /\ Reported[r] <= allocations[r]
  BY <1>1, <1>3 DEF Reported, Charged
<1>5. Total(Reported, Ended) \in Nat /\ Total(allocations, Live) \in Nat
  BY <1>1, <1>2, <1>3, <1>4, TotalNat
<1>6. Total(Reported, Ended) <= Total(allocations, Live)
  BY <1>1, <1>2, <1>3, <1>4, TotalLess
<1>7. Total(allocations, Live) <= remainingToolCalls /\ remainingToolCalls \in Nat
  BY Counts DEF Charged
<1> QED BY <1>5, <1>6, <1>7

LEMMA Times ==
  ASSUME NEW b \in Nat, NEW x \in Nat, NEW y \in Nat
  PROVE  /\ b * x \in Nat /\ b * y \in Nat
         /\ x <= y => b * x <= b * y
         /\ b * (x + 1) = b * x + b
OBVIOUS

(* A run that ends: it has reported its calls, or it has failed. *)
LEMMA ChargedEnds ==
  ASSUME TypeOK, Charged, NEW r \in Runs, Refuse(r) \/ Answer(r) \/ Throw(r)
  PROVE  Charged'
<1> DEFINE b == request.budget
           U == Total(Reported, Ended)
           F == Cardinality(Failures)
           R == Cardinality(FailedResults)
<1>1. PICK f \in Outcome, c \in Nat :
         /\ found' = [found EXCEPT ![r] = f] /\ spent' = spent + c
         /\ f.ok \/ f = Failed
         /\ f.calls <= allocations[r] /\ c <= allocations[r]
         /\ f.ok => c = f.calls
  BY RunEnds
<1>2. /\ lane[r] \notin {"idle", "ended"} /\ lane' = [lane EXCEPT ![r] = "ended"]
      /\ UNCHANGED <<request, allocations, results, remainingToolCalls>>
  BY RunEnds DEF waveVars
<1>3. f.calls \in Nat /\ f.ok \in BOOLEAN /\ (f = Failed => f.calls = 0 /\ ~ f.ok)
  BY DEF Outcome, Failed
<1>4. Ended' = Ended \union {r} /\ r \notin Ended /\ Live' = Live /\ r \in Live
  BY <1>2 DEF TypeOK, Ended, Live
<1>5. found'[r] = f /\ \A q \in Runs \ {r} : found'[q] = found[q]
  BY <1>1 DEF TypeOK
<1>6. Total(Reported', Ended') = f.calls + U
  <2>1. Ended' \subseteq Runs /\ IsFiniteSet(Ended')
    BY <1>4, RunsFinite DEF Ended
  <2>2. \A q \in Ended' : Reported'[q] = IF q = r THEN f.calls ELSE Reported[q]
    BY <1>5, <2>1 DEF Reported
  <2>3. \A q \in Ended' : Reported'[q] \in Nat
    BY <1>3, <2>1, <2>2 DEF Reported, TypeOK
  <2>4. r \in Ended' /\ Ended' \ {r} = Ended
    BY <1>4
  <2>5. Total(Reported', Ended') = Reported'[r] + Total(Reported', Ended' \ {r})
    BY <2>1, <2>3, <2>4, TotalTerm
  <2>6. Total(Reported', Ended) = Total(Reported, Ended)
    BY <1>4, <2>2, TotalSame
  <2> QED BY <2>2, <2>4, <2>5, <2>6
<1>7. Cardinality(Failures') = IF f.ok THEN F ELSE F + 1
  <2>1. Failures' = IF f.ok THEN Failures ELSE Failures \union {r}
    BY <1>2, <1>5 DEF TypeOK, Failures
  <2>2. r \notin Failures /\ IsFiniteSet(Failures)
    BY <1>2, Counts DEF Failures
  <2> QED BY <2>1, <2>2, FS_AddElement
<1>8. FailedResults' = FailedResults
  BY <1>2 DEF FailedResults
<1>9. allocations[r] \in Nat /\ allocations[r] <= b /\ remainingToolCalls \in Nat /\ b \in Nat
  <2>1. Live \subseteq Runs /\ IsFiniteSet(Live) /\ \A q \in Live : allocations[q] \in Nat
    BY RunsFinite DEF Live, TypeOK
  <2>2. /\ Total(allocations, Live \ {r}) \in Nat
        /\ Total(allocations, Live) = allocations[r] + Total(allocations, Live \ {r})
    BY <1>4, <2>1, TotalTerm
  <2>3. Total(allocations, Live) <= remainingToolCalls /\ remainingToolCalls \in Nat
           /\ remainingToolCalls <= b /\ b \in Nat
    BY Counts DEF Charged
  <2>4. allocations[r] \in Nat
    BY <1>4, <2>1
  <2> HIDE DEF b
  <2> QED BY <2>2, <2>3, <2>4
<1>10. \A q \in Ended' : found'[q].calls <= allocations'[q]
  <2>1. \A q \in Ended : found[q].calls <= allocations[q]
    BY DEF Charged
  <2> QED BY <1>1, <1>2, <1>4, <1>5, <2>1 DEF Ended
<1>11. spent' + remainingToolCalls <= b + (f.calls + U) + b * (Cardinality(Failures') + R)
  <2>1. U \in Nat /\ F \in Nat /\ R \in Nat /\ spent \in Nat
    BY Uncharged, Counts DEF TypeOK
  <2>2. spent + remainingToolCalls <= b + U + b * (F + R)
    BY DEF Charged
  <2> HIDE DEF b, U, F, R
  <2>3. b * (F + R) \in Nat /\ b * ((F + R) + 1) = b * (F + R) + b
    BY <1>9, <2>1, Times
  <2>4. CASE f.ok
    BY <1>1, <1>3, <1>7, <1>9, <2>1, <2>2, <2>3, <2>4
  <2>5. CASE ~ f.ok
    <3>1. Cardinality(Failures') + R = (F + R) + 1
      BY <1>7, <2>1, <2>5
    <3>2. spent' + remainingToolCalls <= (spent + remainingToolCalls) + b
      BY <1>1, <1>9, <2>1
    <3> QED BY <1>1, <1>3, <1>9, <2>1, <2>2, <2>3, <2>5, <3>1, <3>2
  <2> QED BY <1>3, <2>4, <2>5
<1>12. Total(allocations', Live') <= remainingToolCalls'
  BY <1>2, <1>4 DEF Charged
<1> QED BY <1>2, <1>6, <1>8, <1>10, <1>11, <1>12 DEF Charged

(* The runs of a wave, or the repair, are merged: what they reported is charged, and *)
(* who failed is a failed result from now on.                                        *)
LEMMA ChargedMerges ==
  ASSUME TypeOK, Charged, NEW wave \in Seq(Runs), ToSet(wave) = Ended, Live = Ended,
         results' = results \o [i \in DOMAIN wave |-> Record(wave[i])],
         \A r \in Runs : lane'[r] = "idle",
         remainingToolCalls' = remainingToolCalls - Total(Reported, Ended),
         UNCHANGED <<request, spent>>
  PROVE  Charged' /\ remainingToolCalls' \in 0..request.budget
<1> DEFINE b == request.budget
           n == Len(results)
           U == Total(Reported, Ended)
           F == Cardinality(Failures)
           R == Cardinality(FailedResults)
           new == {i \in DOMAIN results' : i > n /\ ~ results'[i].ok}
<1>1. /\ n \in Nat /\ DOMAIN results = 1..n /\ DOMAIN wave = 1..Len(wave) /\ Len(wave) \in Nat
      /\ results' \in Seq(Result)
      /\ \A i \in DOMAIN results : i \in DOMAIN results' /\ results'[i] = results[i]
      /\ \A k \in DOMAIN wave : n + k \in DOMAIN results' /\ results'[n + k] = Record(wave[k])
      /\ \A i \in DOMAIN results' :
            i \in DOMAIN results \/ (i > n /\ i - n \in DOMAIN wave)
  BY ResultsGrow
<1>2. /\ b \in Nat /\ remainingToolCalls \in Nat /\ remainingToolCalls <= b /\ U \in Nat
      /\ U <= remainingToolCalls /\ F \in Nat /\ R \in Nat /\ IsFiniteSet(FailedResults)
      /\ spent \in Nat
  BY Counts, Uncharged DEF TypeOK
<1>3. Live' = {} /\ Ended' = {} /\ Failures' = {}
  BY DEF Live, Ended, Failures
<1>4. /\ Total(allocations', Live') = 0 /\ Total(Reported', Ended') = 0
      /\ Cardinality(Failures') = 0
  <2>1. Total(allocations', {}) = 0 /\ Total(Reported', {}) = 0
    BY TotalNought
  <2> QED BY <1>3, <2>1, FS_EmptySet
<1>5. IsFiniteSet(new) /\ FailedResults' = FailedResults \union new /\ FailedResults \intersect new = {}
  <2>1. Len(results') \in Nat /\ DOMAIN results' = 1..Len(results')
    BY <1>1, SeqShape
  <2>2. IsFiniteSet(DOMAIN results')
    BY <2>1, FS_Interval
  <2>3. IsFiniteSet(new)
    BY <2>2, FS_Subset
  <2>4. FailedResults \intersect new = {}
    BY <1>1 DEF FailedResults
  <2>5. FailedResults' = FailedResults \union new
    BY <1>1 DEF FailedResults
  <2> QED BY <2>3, <2>4, <2>5
<1>6. F <= Cardinality(new) /\ Cardinality(new) \in Nat
  <2> DEFINE f == [i \in new |-> results'[i].stage]
  <2>1. ASSUME NEW i \in new PROVE f[i] \in Failures
    <3>1. PICK k \in DOMAIN wave : results'[i] = Record(wave[k])
      <4>1. i \in DOMAIN results' /\ i > n /\ ~ (i \in DOMAIN results)
        BY <1>1
      <4>2. i - n \in DOMAIN wave /\ n + (i - n) = i
        <5>1. i \in Nat
          BY <1>1, <4>1, SeqShape
        <5> HIDE DEF n
        <5> QED BY <1>1, <4>1, <5>1
      <4> QED BY <1>1, <4>2
    <3>2. wave[k] \in Ended
      BY DEF ToSet
    <3>3. f[i] = wave[k] /\ ~ found[wave[k]].ok
      BY <3>1 DEF Record
    <3> QED BY <3>2, <3>3 DEF Failures, Ended
  <2>2. ASSUME NEW r \in Failures PROVE \E i \in new : f[i] = r
    <3>1. r \in Ended /\ ~ found[r].ok
      BY DEF Failures, Ended
    <3>2. PICK k \in DOMAIN wave : wave[k] = r
      BY <3>1 DEF ToSet
    <3>3. n + k > n
      <4> HIDE DEF n
      <4> QED BY <1>1
    <3>4. n + k \in new /\ f[n + k] = r
      BY <1>1, <3>1, <3>2, <3>3 DEF Record
    <3> QED BY <3>4
  <2>3. f \in Surjection(new, Failures)
    BY <2>1, <2>2 DEF Surjection
  <2> HIDE DEF f, new
  <2> QED BY <1>5, <2>3, FS_Surjection, FS_CardinalityType
<1>7. Cardinality(FailedResults') = R + Cardinality(new)
  <2> HIDE DEF new
  <2>1. Cardinality(FailedResults \union new) = R + Cardinality(new) - Cardinality({})
    BY <1>2, <1>5, FS_Union
  <2> QED BY <1>2, <1>5, <1>6, <2>1, FS_EmptySet
<1>8. spent + remainingToolCalls <= b + U + b * (F + R)
  BY DEF Charged
<1>9. b * (F + R) <= b * (0 + (R + Cardinality(new)))
  <2> DEFINE N == Cardinality(new)
  <2>1. N \in Nat /\ F <= N
    BY <1>6
  <2> HIDE DEF b, F, R, N
  <2>2. F + R \in Nat /\ 0 + (R + N) \in Nat /\ F + R <= 0 + (R + N)
    BY <1>2, <2>1
  <2>3. b * (F + R) <= b * (0 + (R + N))
    BY <1>2, <2>2, Times
  <2> QED BY <2>3 DEF N
<1>10. remainingToolCalls' = remainingToolCalls - U /\ remainingToolCalls' \in 0..b
  <2> HIDE DEF b
  <2> QED BY <1>2
<1>11. spent' + remainingToolCalls' <=
          b + Total(Reported', Ended') + b * (Cardinality(Failures') + Cardinality(FailedResults'))
  <2> DEFINE N == Cardinality(new)
             W == b * (F + R)
             V == b * (0 + (R + N))
  <2>1. W \in Nat /\ V \in Nat
    <3>1. N \in Nat
      BY <1>6
    <3> HIDE DEF b, F, R, N
    <3>2. F + R \in Nat /\ 0 + (R + N) \in Nat
      BY <1>2, <3>1
    <3> QED BY <1>2, <3>2, Times
  <2>2. spent + remainingToolCalls <= b + U + W /\ W <= V
    BY <1>8, <1>9
  <2>3. spent + (remainingToolCalls - U) <= b + 0 + V
    <3> HIDE DEF b, U, W, V
    <3> QED BY <1>2, <2>1, <2>2
  <2> QED BY <1>4, <1>7, <1>10, <2>3
<1>12. Total(allocations', Live') <= remainingToolCalls'
  BY <1>2, <1>4, <1>10
<1> QED BY <1>3, <1>10, <1>11, <1>12 DEF Charged

LEMMA RunsOfStages == \A wave \in Seq(Stages) : wave \in Seq(Runs)
<1> SUFFICES ASSUME NEW wave \in Seq(Stages) PROVE wave \in Seq(Runs)
  OBVIOUS
<1>1. Len(wave) \in Nat /\ wave \in [1..Len(wave) -> Runs]
  BY LenProperties DEF Runs
<1> QED BY <1>1, SeqDef

(* What is merged: the runs that have ended, which are all there are. *)
LEMMA WaveMerges ==
  ASSUME TypeOK, Scheduled, MergeWave
  PROVE  /\ active \in Seq(Runs) /\ ToSet(active) = Ended /\ Live = Ended
         /\ results' = results \o [i \in DOMAIN active |-> Record(active[i])]
         /\ \A r \in Runs : lane'[r] = "idle"
         /\ remainingToolCalls' = remainingToolCalls - Total(Reported, Ended)
         /\ UNCHANGED <<request, spent>>
<1>1. active \in Seq(Stages) /\ active \in Seq(Runs)
  BY RunsOfStages DEF TypeOK
<1>2. ToSet(active) \subseteq Runs
  BY <1>1, SeqShape DEF ToSet
<1>3. \A r \in ToSet(active) : lane[r] = "ended"
  BY DEF MergeWave
<1>4. \A r \in Runs : lane[r] # "idle" => r \in ToSet(active)
  BY DEF Scheduled, MergeWave
<1>5. ToSet(active) = Ended /\ Live = Ended
  BY <1>2, <1>3, <1>4 DEF Ended, Live
<1> QED BY <1>1, <1>5 DEF MergeWave, Reported

LEMMA RepairMerges ==
  ASSUME TypeOK, Scheduled, MergeRepair
  PROVE  /\ <<Repair>> \in Seq(Runs) /\ ToSet(<<Repair>>) = Ended /\ Live = Ended
         /\ results' = results \o [i \in DOMAIN <<Repair>> |-> Record(<<Repair>>[i])]
         /\ \A r \in Runs : lane'[r] = "idle"
         /\ remainingToolCalls' = remainingToolCalls - Total(Reported, Ended)
         /\ UNCHANGED <<request, spent>>
<1>1. Repair \in Runs /\ <<Repair>> \in Seq(Runs) /\ DOMAIN <<Repair>> = {1} /\ <<Repair>>[1] = Repair
  BY DEF Runs
<1>2. ToSet(<<Repair>>) = {Repair}
  BY <1>1 DEF ToSet
<1>3. \A r \in Runs : lane[r] # "idle" => r = Repair
  BY DEF Scheduled, MergeRepair
<1>4. Ended = {Repair} /\ Live = {Repair}
  BY <1>1, <1>3 DEF Ended, Live, MergeRepair
<1>5. [i \in DOMAIN <<Repair>> |-> Record(<<Repair>>[i])] = <<Record(Repair)>>
  BY <1>1
<1>6. Append(results, Record(Repair)) = results \o <<Record(Repair)>>
  BY AppendIsConcat, <1>1 DEF TypeOK, Record
<1>7. Total(Reported, {Repair}) = found[Repair].calls
  <2>1. Reported[Repair] = found[Repair].calls /\ found[Repair].calls \in Nat
    BY <1>1 DEF Reported, TypeOK
  <2>2. IsFiniteSet({Repair}) /\ \A r \in {Repair} : Reported[r] \in Nat
    BY <2>1, FS_Singleton
  <2>3. Total(Reported, {Repair}) = Reported[Repair] + Total(Reported, {Repair} \ {Repair})
    BY <2>2, TotalTerm
  <2>4. Total(Reported, {Repair} \ {Repair}) = 0
    BY TotalNought
  <2> QED BY <2>1, <2>3, <2>4
<1>8. \A r \in Runs : lane'[r] = "idle"
  BY <1>3 DEF MergeRepair, TypeOK
<1> QED BY <1>1, <1>2, <1>4, <1>5, <1>6, <1>7, <1>8 DEF MergeRepair

(* No run is under way between two waves and at the end. *)
LEMMA NoneLive ==
  ASSUME Scheduled, phase \notin {"wave", "repair"}
  PROVE  Live = {} /\ Ended = {} /\ Failures = {}
BY DEF Scheduled, Live, Ended, Failures

LEMMA ChargedInit == ASSUME Init, TypeOK PROVE Charged
<1>1. Live = {} /\ Ended = {} /\ Failures = {} /\ FailedResults = {}
  BY DEF Init, Live, Ended, Failures, FailedResults
<1>2. Total(allocations, Live) = 0 /\ Total(Reported, Ended) = 0
  BY <1>1, TotalNought
<1>3. Cardinality(Failures) = 0 /\ Cardinality(FailedResults) = 0
  BY <1>1, FS_EmptySet
<1>4. request.budget \in Nat /\ remainingToolCalls = request.budget /\ spent = 0
  BY Counts DEF Init
<1>5. request.budget * (0 + 0) = 0
  BY <1>4, Times
<1> QED BY <1>1, <1>2, <1>3, <1>4, <1>5 DEF Charged

LEMMA ChargedStep == ASSUME Inv, [Next]_vars PROVE Charged'
<1> USE DEF Inv
<1>1. ASSUME UNCHANGED <<request, lane, allocations, found, results, remainingToolCalls, spent>>
      PROVE  Charged'
  BY <1>1 DEF Charged, Live, Ended, Reported, Failures, FailedResults
<1>2. CASE Validate \/ Finish \/ DeadlinePasses \/ UNCHANGED vars
  BY <1>1, <1>2 DEF Validate, Finish, DeadlinePasses, waveVars, vars
<1>3. ASSUME UNCHANGED <<request, found, results, remainingToolCalls, spent>>,
             phase \notin {"wave", "repair"}, Ended' = {}, Total(allocations', Live') <= remainingToolCalls
      PROVE  Charged'
  <2>1. Ended = {} /\ Failures = {} /\ Failures' = {}
    BY <1>3, NoneLive DEF Failures, Ended
  <2>2. Total(Reported', {}) = 0 /\ Total(Reported, {}) = 0
    BY TotalNought
  <2> QED BY <1>3, <2>1, <2>2 DEF Charged, FailedResults
<1>4. CASE StartWave
  <2>1. Live = {} /\ phase \notin {"wave", "repair"}
    BY <1>4, NoneLive DEF StartWave
  <2>2. active' \in Seq(Stages) /\ \A i, j \in DOMAIN active' : active'[i] = active'[j] => i = j
    BY <1>4, WaveIs DEF StartWave
  <2>3. allocations' \in [Runs -> Nat] /\ Allocated(active', allocations')
    <3>1. remainingToolCalls \in Nat
      BY Counts
    <3> QED BY <1>4, <3>1 DEF StartWave
  <2>4. Total(allocations', ToSet(active')) <= remainingToolCalls
    BY <2>2, <2>3, AllocationFits
  <2>5. Live' = ToSet(active') /\ Ended' = {}
    <3>1. ToSet(active') \subseteq Runs
      BY <2>2, SeqShape DEF ToSet, Runs
    <3> QED BY <1>4, <2>1, <3>1 DEF StartWave, Live, Ended
  <2> QED BY <1>3, <1>4, <2>1, <2>4, <2>5 DEF StartWave
<1>5. CASE ReadVerdict
  <2>1. Live = {} /\ Ended = {} /\ phase \notin {"wave", "repair"}
    BY <1>5, NoneLive DEF ReadVerdict
  <2>2. CASE lane' = lane /\ allocations' = allocations
    <3>1. Live' = {} /\ Ended' = {} /\ Total(allocations', Live') <= remainingToolCalls
      BY <2>1, <2>2 DEF Live, Ended, Charged
    <3> QED BY <1>3, <1>5, <2>1, <3>1 DEF ReadVerdict
  <2>3. CASE /\ lane' = [lane EXCEPT ![Repair] = "starting"]
             /\ allocations' = [allocations EXCEPT ![Repair] = remainingToolCalls]
    <3>1. Repair \in Runs /\ remainingToolCalls \in Nat
      BY Counts DEF Runs
    <3>2. Live' = {Repair} /\ Ended' = {}
      BY <2>1, <2>3, <3>1 DEF Live, Ended, TypeOK
    <3>3. allocations'[Repair] = remainingToolCalls
      BY <2>3, <3>1 DEF TypeOK
    <3>4. IsFiniteSet({Repair}) /\ \A r \in {Repair} : allocations'[r] \in Nat
      BY <3>1, <3>3, FS_Singleton
    <3>5. Total(allocations', {Repair}) = allocations'[Repair] + Total(allocations', {Repair} \ {Repair})
      BY <3>4, TotalTerm
    <3>6. Total(allocations', {Repair} \ {Repair}) = 0
      BY TotalNought
    <3>7. Total(allocations', Live') <= remainingToolCalls
      BY <3>1, <3>2, <3>3, <3>5, <3>6
    <3> QED BY <1>3, <1>5, <2>1, <3>2, <3>7 DEF ReadVerdict
  <2> QED BY <1>5, <2>2, <2>3 DEF ReadVerdict
<1>6. CASE MergeWave
  BY <1>6, WaveMerges, ChargedMerges
<1>7. CASE MergeRepair
  BY <1>7, RepairMerges, ChargedMerges
<1>8. ASSUME NEW r \in Runs, Stage(r) PROVE Charged'
  <2>1. CASE Start(r)
    <3>1. Ended' = Ended /\ Live' = Live
      BY <2>1 DEF Start, Ended, Live, TypeOK
    <3>2. Failures' = Failures
      BY <2>1, <3>1 DEF Failures, Ended, Start
    <3> QED BY <2>1, <3>1, <3>2 DEF Start, Charged, waveVars, Reported, FailedResults
  <2> QED BY <1>8, <2>1, ChargedEnds DEF Stage
<1> QED BY <1>2, <1>4, <1>5, <1>6, <1>7, <1>8 DEF Next, Main

-----------------------------------------------------------------------------
(* Types, and what a failure leaves. *)

(* A run's steps concern its lane, its result and the calls made. *)
LEMMA StageIs ==
  ASSUME TypeOK, NEW r \in Runs, Stage(r)
  PROVE  /\ UNCHANGED <<request, phase, waveVars, expired>> /\ lane[r] # "idle"
         /\ \E next \in {"running", "unbounded", "ended"} : lane' = [lane EXCEPT ![r] = next]
         /\ found' = found \/ \E f \in Outcome : found' = [found EXCEPT ![r] = f] /\ (f.ok \/ f = Failed)
         /\ spent' \in Nat
<1>1. CASE Start(r)
  BY <1>1 DEF Start, TypeOK
<1>2. CASE Refuse(r) \/ Answer(r) \/ Throw(r)
  <2>1. PICK f \in Outcome, c \in Nat :
           found' = [found EXCEPT ![r] = f] /\ spent' = spent + c /\ (f.ok \/ f = Failed)
    BY <1>2, RunEnds
  <2>2. spent' \in Nat
    BY <2>1 DEF TypeOK
  <2>3. /\ UNCHANGED <<request, phase, waveVars, expired>>
        /\ lane[r] # "idle" /\ lane' = [lane EXCEPT ![r] = "ended"]
    BY <1>2, RunEnds
  <2> QED BY <2>1, <2>2, <2>3
<1> QED BY <1>1, <1>2 DEF Stage

LEMMA TypesInit == ASSUME Init PROVE TypeOK
<1>1. request \in Requests /\ request.budget \in Nat
  BY RequestIs DEF Init
<1>2. Failed \in Outcome
  BY DEF Failed, Outcome, Answers
<1>3. remainingToolCalls \in 0..request.budget
  BY <1>1 DEF Init
<1>4. active \in Seq(Stages) /\ results \in Seq(Result) /\ pending \subseteq Stages
  BY EmptySeq DEF Init
<1>5. /\ lane \in [Runs -> {"idle", "starting", "running", "unbounded", "ended"}]
      /\ allocations \in [Runs -> Nat] /\ found \in [Runs -> Outcome]
  BY <1>2 DEF Init
<1>6. phase = "validate" /\ spent = 0 /\ status = "succeeded" /\ {stopped, expired} \subseteq BOOLEAN
  BY DEF Init
<1> QED BY <1>1, <1>3, <1>4, <1>5, <1>6 DEF TypeOK, Outcome, Result, Statuses

LEMMA TypesStep == ASSUME Inv, [Next]_vars PROVE TypeOK'
<1> USE DEF Inv
<1>1. CASE Validate
  BY <1>1 DEF Validate, TypeOK
<1>2. CASE StartWave
  <2>1. active' \in Seq(Stages) /\ remainingToolCalls \in Nat
    BY <1>2, WaveIs, Counts DEF StartWave
  <2>2. allocations' \in [Runs -> Nat]
    BY <1>2, <2>1 DEF StartWave
  <2>3. lane' \in [Runs -> {"idle", "starting", "running", "unbounded", "ended"}]
    BY <1>2 DEF StartWave, TypeOK
  <2> QED BY <1>2, <2>1, <2>2, <2>3 DEF StartWave, TypeOK
<1>3. CASE MergeWave
  <2>1. results' \in Seq(Result)
    BY <1>3, WaveMerges, ResultsGrow
  <2>2. remainingToolCalls' \in 0..request.budget
    BY <1>3, WaveMerges, ChargedMerges
  <2>3. Failed \in Outcome
    BY DEF Failed, Outcome, Answers
  <2>4. stopped' \in BOOLEAN
    <3> DEFINE P == \E r \in ToSet(active) : Stops(r)
    <3>1. stopped' = (stopped \/ P)
      BY <1>3 DEF MergeWave
    <3> HIDE DEF P
    <3> QED BY <3>1 DEF TypeOK
  <2>5. pending' \subseteq Stages /\ active' \in Seq(Stages)
    BY <1>3 DEF MergeWave, TypeOK
  <2> QED BY <1>3, <2>1, <2>2, <2>3, <2>4, <2>5 DEF MergeWave, TypeOK, Outcome, Result
<1>4. CASE ReadVerdict
  <2>1. Repair \in Runs /\ remainingToolCalls \in Nat
    BY Counts DEF Runs
  <2>2. /\ lane' \in [Runs -> {"idle", "starting", "running", "unbounded", "ended"}]
        /\ allocations' \in [Runs -> Nat]
    BY <1>4, <2>1 DEF ReadVerdict, TypeOK
  <2>3. status' \in Statuses /\ phase' \in {"repair", "close"}
    BY <1>4 DEF ReadVerdict, TypeOK, Statuses
  <2> QED BY <1>4, <2>2, <2>3 DEF ReadVerdict, TypeOK
<1>5. CASE MergeRepair
  <2>1. results' \in Seq(Result)
    BY <1>5, RepairMerges, ResultsGrow
  <2>2. remainingToolCalls' \in 0..request.budget
    BY <1>5, RepairMerges, ChargedMerges
  <2>3. lane' \in [Runs -> {"idle", "starting", "running", "unbounded", "ended"}]
    BY <1>5 DEF MergeRepair, TypeOK
  <2> QED BY <1>5, <2>1, <2>2, <2>3 DEF MergeRepair, TypeOK, Result
<1>6. CASE Finish
  BY <1>6 DEF Finish, TypeOK, Statuses
<1>7. CASE DeadlinePasses
  BY <1>7 DEF DeadlinePasses, TypeOK, waveVars
<1>8. ASSUME NEW r \in Runs, Stage(r) PROVE TypeOK'
  <2>1. found' \in [Runs -> Outcome]
    BY <1>8, StageIs DEF TypeOK, Outcome
  <2>2. lane' \in [Runs -> {"idle", "starting", "running", "unbounded", "ended"}]
    BY <1>8, StageIs DEF TypeOK
  <2>3. spent' \in Nat /\ UNCHANGED <<request, phase, waveVars, expired>>
    BY <1>8, StageIs
  <2> QED BY <2>1, <2>2, <2>3 DEF TypeOK, waveVars, Outcome
<1>9. CASE UNCHANGED vars
  BY <1>9 DEF vars, TypeOK
<1> QED BY <1>1, <1>2, <1>3, <1>4, <1>5, <1>6, <1>7, <1>8, <1>9 DEF Next, Main

LEMMA HonestMerges ==
  ASSUME TypeOK, Honest, NEW wave \in Seq(Runs),
         results' = results \o [i \in DOMAIN wave |-> Record(wave[i])]
  PROVE  \A i \in DOMAIN results' : results'[i].ok \/ results'[i].answer = "plain"
<1> SUFFICES ASSUME NEW i \in DOMAIN results', ~ results'[i].ok PROVE results'[i].answer = "plain"
  OBVIOUS
<1>1. i \in Nat /\ Len(results) \in Nat
  BY ResultsGrow, SeqShape
<1>2. CASE i \in DOMAIN results
  BY <1>2, ResultsGrow DEF Honest
<1>3. CASE i > Len(results) /\ i - Len(results) \in DOMAIN wave
  <2> DEFINE k == i - Len(results)
  <2>1. Len(results) + k = i
    BY <1>1
  <2>2. results'[i] = Record(wave[k])
    BY <1>3, <2>1, ResultsGrow
  <2>3. wave[k] \in Runs
    BY <1>3, SeqShape
  <2> HIDE DEF k
  <2>4. ~ found[wave[k]].ok
    BY <2>2 DEF Record
  <2>5. found[wave[k]].answer = "plain"
    BY <2>3, <2>4 DEF Honest, Failed
  <2> QED BY <2>2, <2>5 DEF Record
<1> QED BY <1>2, <1>3, ResultsGrow

LEMMA HonestStep == ASSUME Inv, [Next]_vars PROVE Honest'
<1> USE DEF Inv
<1>1. ASSUME UNCHANGED <<found, results>> PROVE Honest'
  BY <1>1 DEF Honest
<1>2. CASE Validate \/ StartWave \/ ReadVerdict \/ Finish \/ DeadlinePasses \/ UNCHANGED vars
  BY <1>1, <1>2 DEF Validate, StartWave, ReadVerdict, Finish, DeadlinePasses, waveVars, vars
<1>3. CASE MergeWave
  <2>1. \A i \in DOMAIN results' : results'[i].ok \/ results'[i].answer = "plain"
    BY <1>3, WaveMerges, HonestMerges
  <2> QED BY <1>3, <2>1 DEF MergeWave, Honest
<1>4. CASE MergeRepair
  <2>1. \A i \in DOMAIN results' : results'[i].ok \/ results'[i].answer = "plain"
    BY <1>4, RepairMerges, HonestMerges
  <2> QED BY <1>4, <2>1 DEF MergeRepair, Honest
<1>5. ASSUME NEW r \in Runs, Stage(r) PROVE Honest'
  <2>1. ASSUME NEW q \in Runs PROVE found'[q].ok \/ found'[q] = Failed
    <3>1. found[q].ok \/ found[q] = Failed
      BY DEF Honest
    <3>2. CASE found' = found
      BY <3>1, <3>2
    <3>3. ASSUME NEW f \in Outcome, found' = [found EXCEPT ![r] = f], f.ok \/ f = Failed
          PROVE  found'[q].ok \/ found'[q] = Failed
      <4>1. found'[q] = IF q = r THEN f ELSE found[q]
        BY <3>3 DEF TypeOK
      <4> QED BY <3>1, <3>3, <4>1
    <3> QED BY <1>5, StageIs, <3>2, <3>3
  <2>2. results' = results
    BY <1>5, StageIs DEF waveVars
  <2> QED BY <2>1, <2>2 DEF Honest
<1> QED BY <1>2, <1>3, <1>4, <1>5 DEF Next, Main

LEMMA HonestInit == ASSUME Init PROVE Honest
BY EmptySeq DEF Init, Honest

-----------------------------------------------------------------------------
(* The schedule. *)

LEMMA ScheduledInit == ASSUME Init PROVE Scheduled
BY DEF Init, Scheduled, Entered, validateStageDag, ToSet

(* A wave gives each of its stages a result, and no other. *)
LEMMA WaveResults ==
  ASSUME TypeOK, Scheduled, MergeWave
  PROVE  /\ \A s \in Stages : ResultOf(s)' <=> ResultOf(s) \/ s \in ToSet(active)
         /\ \A i \in DOMAIN results' : results'[i].stage \in Stages
<1>1. /\ active \in Seq(Stages) /\ active \in Seq(Runs)
      /\ results' = results \o [i \in DOMAIN active |-> Record(active[i])]
  BY WaveMerges DEF TypeOK
<1>2. \A k \in DOMAIN active : active[k] \in Stages /\ active[k] \in ToSet(active)
  BY <1>1, SeqShape DEF ToSet
<1>3. \A i \in DOMAIN results : results[i].stage \in Stages
  BY DEF Scheduled, MergeWave
<1>4. \A i \in DOMAIN results : i \in DOMAIN results' /\ results'[i] = results[i]
  BY <1>1, ResultsGrow
<1>5. \A k \in DOMAIN active :
         Len(results) + k \in DOMAIN results' /\ results'[Len(results) + k].stage = active[k]
  BY <1>1, ResultsGrow DEF Record
<1>6. \A i \in DOMAIN results' :
         i \in DOMAIN results \/ \E k \in DOMAIN active : results'[i].stage = active[k]
  <2> SUFFICES ASSUME NEW i \in DOMAIN results', i \notin DOMAIN results
               PROVE  \E k \in DOMAIN active : results'[i].stage = active[k]
    OBVIOUS
  <2>1. i - Len(results) \in DOMAIN active /\ Len(results) \in Nat /\ i \in Nat
    BY <1>1, ResultsGrow, SeqShape
  <2>2. Len(results) + (i - Len(results)) = i
    BY <2>1
  <2> QED BY <1>5, <2>1, <2>2
<1>7. ASSUME NEW s \in Stages PROVE ResultOf(s)' <=> ResultOf(s) \/ s \in ToSet(active)
  <2>1. ASSUME s \in ToSet(active) PROVE ResultOf(s)'
    BY <1>5, <2>1 DEF ToSet, ResultOf
  <2>2. ASSUME ResultOf(s) PROVE ResultOf(s)'
    BY <1>4, <2>2 DEF ResultOf
  <2>3. ASSUME ResultOf(s)' PROVE ResultOf(s) \/ s \in ToSet(active)
    BY <1>2, <1>4, <1>6, <2>3 DEF ResultOf
  <2> QED BY <2>1, <2>2, <2>3
<1> QED BY <1>2, <1>3, <1>4, <1>6, <1>7

(* The repair is no stage: its result is the last, and gives none of them one. *)
LEMMA RepairResult ==
  ASSUME TypeOK, MergeRepair
  PROVE  /\ Len(results) \in Nat /\ DOMAIN results = 1..Len(results)
         /\ DOMAIN results' = 1..(Len(results) + 1)
         /\ \A i \in DOMAIN results : results'[i] = results[i]
         /\ \A i \in DOMAIN results' \ DOMAIN results : results'[i].stage \notin Stages
         /\ \A s \in Stages : ResultOf(s)' <=> ResultOf(s)
<1>1. results \in Seq(Result) /\ Record(Repair) \in Result
  BY DEF TypeOK, Record, Result, Runs
<1>2. Len(results) \in Nat /\ DOMAIN results = 1..Len(results)
  BY <1>1, SeqShape
<1>3. /\ results' \in Seq(Result) /\ Len(results') = Len(results) + 1
      /\ \A i \in 1..Len(results) : results'[i] = results[i]
      /\ results'[Len(results) + 1] = Record(Repair)
  BY <1>1, AppendProperties DEF MergeRepair
<1>4. DOMAIN results' = 1..(Len(results) + 1)
  BY <1>3, SeqShape
<1>5. \A i \in DOMAIN results' : i \in DOMAIN results \/ i = Len(results) + 1
  BY <1>2, <1>4
<1>6. DOMAIN results \subseteq DOMAIN results'
  BY <1>2, <1>4
<1>7. Record(Repair).stage \notin Stages
  BY RunsAre DEF Record
<1>8. \A s \in Stages : ResultOf(s)' <=> ResultOf(s)
  BY <1>2, <1>3, <1>5, <1>6, <1>7 DEF ResultOf
<1> QED BY <1>2, <1>3, <1>4, <1>5, <1>7, <1>8

LEMMA ScheduledStep == ASSUME Inv, [Next]_vars PROVE Scheduled'
<1> USE DEF Inv
<1>1. ASSUME phase \notin {"wave", "repair"} PROVE \A r \in Runs : lane[r] = "idle"
  BY <1>1 DEF Scheduled
<1>2. CASE Validate
  <2>1. pending = {} /\ results = <<>> /\ active = <<>>
    BY <1>2 DEF Validate, Scheduled, Entered
  <2>2. \A s \in Stages : ~ ResultOf(s)'
    BY <1>2, <2>1 DEF Validate, ResultOf
  <2>3. \A r \in Runs : lane'[r] = "idle"
    BY <1>1, <1>2 DEF Validate
  <2> QED BY <1>2, <2>1, <2>2, <2>3 DEF Validate, Scheduled, Entered
<1>3. CASE StartWave
  <2>1. ReadyStages # {} /\ request' = request /\ pending' = pending /\ results' = results
    BY <1>3, SomeReady DEF StartWave, Scheduled, Entered, TypeOK
  <2>2. phase' = "wave" /\ ~ stopped'
    BY <1>3, <2>1 DEF StartWave
  <2>3. /\ ToSet(active') \subseteq ReadyStages
        /\ \A i, j \in DOMAIN active' : active'[i] = active'[j] => i = j
    BY <1>3, WaveIs DEF StartWave
  <2>4. ReadyStages' = ReadyStages /\ \A s \in Stages : ResultOf(s)' <=> ResultOf(s)
    BY <2>1 DEF ReadyStages, ResultOf
  <2>5. \A r \in Runs : lane'[r] # "idle" => r \in ToSet(active')
    BY <1>1, <1>3 DEF StartWave
  <2> QED BY <1>3, <2>1, <2>2, <2>3, <2>4, <2>5 DEF StartWave, Scheduled, Entered
<1>4. CASE MergeWave
  <2>1. /\ \A s \in Stages : ResultOf(s)' <=> ResultOf(s) \/ s \in ToSet(active)
        /\ \A i \in DOMAIN results' : results'[i].stage \in Stages
    BY <1>4, WaveResults
  <2>2. /\ phase' = "schedule" /\ active' = <<>> /\ request' = request
        /\ pending' = pending \ ToSet(active) /\ \A r \in Runs : lane'[r] = "idle"
    BY <1>4 DEF MergeWave
  <2>3. Entered /\ Entered'
    BY <1>4, <2>2 DEF Entered, MergeWave
  <2>4. \A s \in Stages : s \in pending' <=> ~ ResultOf(s)'
    BY <2>1, <2>2, <2>3 DEF Scheduled
  <2> QED BY <2>1, <2>2, <2>3, <2>4 DEF Scheduled
<1>5. CASE ReadVerdict
  <2>1. /\ phase = "schedule" /\ phase' \in {"repair", "close"}
        /\ UNCHANGED <<request, pending, active, results>>
        /\ lane' = IF phase' = "repair" THEN [lane EXCEPT ![Repair] = "starting"] ELSE lane
    BY <1>5 DEF ReadVerdict
  <2>2. \A r \in Runs : lane'[r] # "idle" => phase' = "repair" /\ r = Repair
    BY <1>1, <2>1 DEF TypeOK
  <2>3. \A s \in Stages : ResultOf(s)' <=> ResultOf(s)
    BY <2>1 DEF ResultOf
  <2>4. \A i \in DOMAIN results : results[i].stage \in Stages
    BY <2>1 DEF Scheduled
  <2> QED BY <2>1, <2>2, <2>3, <2>4 DEF Scheduled, Entered
<1>6. CASE MergeRepair
  <2>1. \A s \in Stages : ResultOf(s)' <=> ResultOf(s)
    BY <1>6, RepairResult
  <2>2. /\ phase = "repair" /\ phase' = "close" /\ UNCHANGED <<request, pending, active, status>>
        /\ lane' = [lane EXCEPT ![Repair] = "idle"]
    BY <1>6 DEF MergeRepair
  <2>3. \A r \in Runs : lane'[r] = "idle"
    BY <1>6, RepairMerges
  <2>4. status' # "succeeded"
    BY <2>2 DEF Judgement
  <2> QED BY <2>1, <2>2, <2>3, <2>4 DEF Scheduled, Entered
<1>7. CASE Finish
  <2>1. /\ phase = "close" /\ phase' = "done" /\ UNCHANGED <<request, pending, active, lane, results>>
        /\ status' = status
    <3>1. remainingToolCalls \in Nat
      BY Counts
    <3> QED BY <1>7, <3>1 DEF Finish
  <2>2. \A s \in Stages : ResultOf(s)' <=> ResultOf(s)
    BY <2>1 DEF ResultOf
  <2> QED BY <1>1, <2>1, <2>2 DEF Scheduled, Entered
<1>8. CASE DeadlinePasses \/ UNCHANGED vars
  <2>1. UNCHANGED <<request, phase, pending, active, lane, results, stopped, status>>
    BY <1>8 DEF DeadlinePasses, vars, waveVars
  <2> QED BY <2>1 DEF Scheduled, Entered, ResultOf, ReadyStages
<1>9. ASSUME NEW r \in Runs, Stage(r) PROVE Scheduled'
  <2>1. /\ UNCHANGED <<request, phase, pending, active, results, stopped, status>> /\ lane[r] # "idle"
    BY <1>9, StageIs DEF waveVars
  <2>2. \A q \in Runs : q # r => lane'[q] = lane[q]
    BY <1>9, StageIs DEF TypeOK
  <2>3. \A q \in Runs : lane'[q] # "idle" => lane[q] # "idle"
    BY <2>1, <2>2
  <2>4. (\A s \in Stages : ResultOf(s)' <=> ResultOf(s)) /\ ReadyStages' = ReadyStages
    BY <2>1 DEF ResultOf, ReadyStages
  <2> QED BY <2>1, <2>3, <2>4 DEF Scheduled, Entered
<1> QED BY <1>2, <1>3, <1>4, <1>5, <1>6, <1>7, <1>8, <1>9 DEF Next, Main

-----------------------------------------------------------------------------
(* The status. *)

LEMMA JudgementInit == ASSUME Init PROVE Judgement
BY DEF Init, Judgement, Answered

(* Results that come later take no failure and no doubt back. *)
LEMMA LaterResults ==
  ASSUME NEW n \in Nat, DOMAIN results = 1..n,
         \A i \in DOMAIN results : i \in DOMAIN results' /\ results'[i] = results[i]
  PROVE  /\ Doubted => Doubted'
         /\ FailedResults \subseteq FailedResults'
         /\ \A i \in DOMAIN results : request' = request => (Blamed(i)' <=> Blamed(i))
<1>1. ASSUME Doubted PROVE Doubted'
  <2>1. PICK i \in DOMAIN results :
           results[i].answer = "doubted" /\ \A j \in 1..(i - 1) : results[j].answer # "passed"
    BY <1>1 DEF Doubted
  <2>2. \A j \in 1..(i - 1) : j \in DOMAIN results
    BY <2>1
  <2> QED BY <2>1, <2>2 DEF Doubted
<1>2. FailedResults \subseteq FailedResults'
  BY DEF FailedResults
<1>3. \A i \in DOMAIN results : request' = request => (Blamed(i)' <=> Blamed(i))
  BY DEF Blamed
<1> QED BY <1>1, <1>2, <1>3

LEMMA RecordIs ==
  \A r : Record(r).stage = r /\ Record(r).ok = found[r].ok /\ Record(r).answer = found[r].answer
BY DEF Record

(* The results of a wave that are to blame are those that stop the job. *)
LEMMA WaveBlamed ==
  ASSUME TypeOK, Scheduled, Judgement, MergeWave, NEW n \in Nat, n = Len(results)
  PROVE  /\ DOMAIN results = 1..n
         /\ \A i \in DOMAIN results : ~ Blamed(i)' /\ i \in DOMAIN results' /\ results'[i] = results[i]
         /\ \A k \in DOMAIN active :
               /\ k \in Nat /\ active[k] \in ToSet(active)
               /\ n + k \in DOMAIN results' /\ results'[n + k] = Record(active[k])
               /\ Blamed(n + k)' <=> Stops(active[k])
         /\ \A i \in DOMAIN results' : i \in DOMAIN results \/ \E k \in DOMAIN active : i = n + k
<1>1. /\ active \in Seq(Stages) /\ active \in Seq(Runs)
      /\ results' = results \o [i \in DOMAIN active |-> Record(active[i])]
      /\ request' = request
  BY WaveMerges DEF TypeOK
<1>2. /\ DOMAIN results = 1..n
      /\ \A i \in DOMAIN results : i \in DOMAIN results' /\ results'[i] = results[i]
      /\ \A k \in DOMAIN active : n + k \in DOMAIN results' /\ results'[n + k] = Record(active[k])
      /\ \A i \in DOMAIN results' : i \in DOMAIN results \/ (i > n /\ i - n \in DOMAIN active)
      /\ results' \in Seq(Result)
  BY <1>1, ResultsGrow
<1>3. \A i \in DOMAIN results : ~ Blamed(i)
  BY DEF Scheduled, Judgement, MergeWave
<1>4. \A i \in DOMAIN results : ~ Blamed(i)'
  BY <1>1, <1>2, <1>3, LaterResults
<1>5. \A k \in DOMAIN active : k \in Nat /\ active[k] \in Stages /\ active[k] \in ToSet(active)
  BY <1>1, SeqShape DEF ToSet
<1>6. ASSUME NEW k \in DOMAIN active PROVE Blamed(n + k)' <=> Stops(active[k])
  <2>1. results'[n + k] = Record(active[k])
    BY <1>2
  <2>2. /\ results'[n + k].stage = active[k] /\ results'[n + k].ok = found[active[k]].ok
        /\ results'[n + k].answer = found[active[k]].answer
    BY <2>1, RecordIs
  <2> QED BY <1>1, <1>5, <2>2 DEF Blamed, Stops
<1>7. ASSUME NEW i \in DOMAIN results', i \notin DOMAIN results
      PROVE  \E k \in DOMAIN active : i = n + k
  <2>1. i - n \in DOMAIN active /\ i \in Nat
    BY <1>2, <1>7, SeqShape
  <2>2. i = n + (i - n)
    BY <2>1
  <2> QED BY <2>1, <2>2
<1> QED BY <1>2, <1>4, <1>5, <1>6, <1>7

(* No stage of a wave depends on another of it. *)
LEMMA WaveApart ==
  ASSUME TypeOK, Scheduled, phase = "wave", NEW s \in ToSet(active), NEW t \in ToSet(active)
  PROVE  SameWave(s, t)
<1>1. \A u \in ToSet(active) : u \in Stages /\ ~ ResultOf(u) /\ \A d \in request.dependsOn[u] : ResultOf(d)
  BY DEF Scheduled, Entered, ReadyStages, TypeOK
<1> QED BY <1>1 DEF SameWave

LEMMA JudgementMerge == ASSUME Inv, MergeWave PROVE Judgement'
<1> USE DEF Inv
<1>0. PICK n \in Nat : n = Len(results)
  BY SeqShape DEF TypeOK
<1>1. /\ DOMAIN results = 1..n
      /\ \A i \in DOMAIN results : ~ Blamed(i)' /\ i \in DOMAIN results' /\ results'[i] = results[i]
      /\ \A k \in DOMAIN active :
            /\ n + k \in DOMAIN results' /\ results'[n + k] = Record(active[k])
            /\ Blamed(n + k)' <=> Stops(active[k])
            /\ k \in Nat /\ active[k] \in ToSet(active)
      /\ \A i \in DOMAIN results' : i \in DOMAIN results \/ \E k \in DOMAIN active : i = n + k
  BY <1>0, WaveBlamed
<1>2. /\ phase = "wave" /\ ~ stopped /\ phase' = "schedule" /\ request' = request
      /\ status \in {"succeeded", "partial"}
      /\ stopped' = (stopped \/ \E r \in ToSet(active) : Stops(r))
  BY DEF Scheduled, Judgement, MergeWave
<1>3. ASSUME NEW k \in DOMAIN active, Decides(active, k), status' = Decision(active[k])
      PROVE  Judgement'
  <2>1. Stops(active[k]) /\ \A j \in DOMAIN active : j > k => ~ Stops(active[j])
    BY <1>3 DEF Decides
  <2>2. stopped'
    BY <1>1, <1>2, <2>1
  <2>3. /\ n + k \in DOMAIN results' /\ Blamed(n + k)'
        /\ results'[n + k].stage = active[k] /\ results'[n + k].ok = found[active[k]].ok
    BY <1>1, <2>1, RecordIs
  <2>4. status' = IF results'[n + k].ok THEN "needs_clarification" ELSE "failed"
    BY <1>3, <2>3 DEF Decision
  <2>5. ASSUME NEW i \in DOMAIN results', Blamed(i)'
        PROVE  i <= n + k /\ SameWave(results[i].stage, results[n + k].stage)'
    <3>1. PICK j \in DOMAIN active : i = n + j
      BY <1>1, <2>5
    <3>2. Stops(active[j])
      BY <1>1, <2>5, <3>1
    <3>3. ~ (j > k) /\ j \in Nat /\ k \in Nat
      BY <1>1, <2>1, <3>2
    <3>4. results'[i].stage = active[j]
      BY <1>1, <3>1, RecordIs
    <3>5. SameWave(active[j], active[k])
      BY <1>1, <1>2, WaveApart
    <3>6. i <= n + k
      BY <1>1, <3>1, <3>3
    <3> QED BY <1>2, <2>3, <3>4, <3>5, <3>6 DEF SameWave
  <2>6. status' \in {"needs_clarification", "failed"}
    BY <2>4
  <2> QED BY <1>2, <2>2, <2>3, <2>4, <2>5, <2>6 DEF Judgement
<1>4. ASSUME \A r \in ToSet(active) : ~ Stops(r),
             status' = IF status = "succeeded" /\ \E r \in ToSet(active) : ~ found[r].ok
                       THEN "partial" ELSE status
      PROVE  Judgement'
  <2>1. ~ stopped' /\ status' \in {"succeeded", "partial"}
    BY <1>2, <1>4
  <2>2. \A i \in DOMAIN results' : ~ Blamed(i)'
    BY <1>1, <1>4
  <2>3. ASSUME status' = "succeeded" PROVE Answered'
    <3>1. status = "succeeded" /\ \A r \in ToSet(active) : found[r].ok
      BY <1>4, <2>3
    <3>2. \A i \in DOMAIN results : results[i].ok
      BY <3>1 DEF Judgement, Answered
    <3>3. \A k \in DOMAIN active : results'[n + k].ok
      BY <1>1, <3>1, RecordIs
    <3> QED BY <1>1, <3>2, <3>3 DEF Answered
  <2>4. ASSUME status' = "partial" PROVE Doubted' \/ FailedResults' # {}
    <3>1. CASE status = "partial"
      <4>1. (Doubted => Doubted') /\ FailedResults \subseteq FailedResults'
        BY <1>1, LaterResults
      <4> QED BY <3>1, <4>1 DEF Judgement
    <3>2. CASE status # "partial"
      <4>1. PICK r \in ToSet(active) : ~ found[r].ok
        BY <1>4, <2>4, <3>2
      <4>2. PICK k \in DOMAIN active : active[k] = r
        BY DEF ToSet
      <4>3. n + k \in FailedResults'
        BY <1>1, <4>1, <4>2, RecordIs DEF FailedResults
      <4> QED BY <4>3
    <3> QED BY <3>1, <3>2
  <2> QED BY <1>2, <2>1, <2>2, <2>3, <2>4 DEF Judgement
<1> QED BY <1>3, <1>4 DEF MergeWave, Judged

LEMMA JudgementStep == ASSUME Inv, [Next]_vars PROVE Judgement'
<1> USE DEF Inv
<1>1. ASSUME UNCHANGED <<request, phase, pending, results, status, stopped>> PROVE Judgement'
  BY <1>1 DEF Judgement, Blamed, SameWave, Answered, Doubted, FailedResults
<1>2. ASSUME UNCHANGED <<request, results, status, stopped>>,
             phase' \notin {"close", "done", "repair"}
      PROVE  Judgement'
  BY <1>2 DEF Judgement, Blamed, SameWave, Answered, Doubted, FailedResults
<1>3. CASE Validate \/ StartWave
  BY <1>2, <1>3 DEF Validate, StartWave
<1>4. CASE ReadVerdict
  <2>1. /\ UNCHANGED <<request, pending, results, stopped>> /\ phase' \in {"repair", "close"}
        /\ pending = {} \/ stopped
        /\ status' = IF status = "succeeded" /\ Doubted THEN "partial" ELSE status
        /\ phase' = "repair" => status = "succeeded" /\ Doubted
    BY <1>4 DEF ReadVerdict
  <2>2. (Answered' <=> Answered) /\ (Doubted' <=> Doubted) /\ FailedResults' = FailedResults
    BY <2>1 DEF Answered, Doubted, FailedResults
  <2>3. \A i \in DOMAIN results : Blamed(i)' <=> Blamed(i)
    BY <2>1 DEF Blamed
  <2>4. stopped => status \in {"needs_clarification", "failed"}
    BY DEF Judgement
  <2>5. stopped' => \E d \in DOMAIN results' :
           /\ Blamed(d)' /\ status' = IF results'[d].ok THEN "needs_clarification" ELSE "failed"
           /\ \A i \in DOMAIN results' :
                 Blamed(i)' => i <= d /\ SameWave(results[i].stage, results[d].stage)'
    BY <2>1, <2>3, <2>4 DEF Judgement, SameWave
  <2> QED BY <2>1, <2>2, <2>3, <2>4, <2>5 DEF Judgement
<1>5. CASE MergeRepair
  <2>1. /\ phase' = "close" /\ UNCHANGED <<request, pending, status, stopped>>
        /\ ~ stopped /\ status = "partial"
    BY <1>5 DEF MergeRepair, Judgement
  <2>2. /\ Len(results) \in Nat /\ DOMAIN results = 1..Len(results)
        /\ \A i \in DOMAIN results : i \in DOMAIN results' /\ results'[i] = results[i]
        /\ \A i \in DOMAIN results' \ DOMAIN results : results'[i].stage \notin Stages
    BY <1>5, RepairResult
  <2>3. /\ Doubted => Doubted'
        /\ FailedResults \subseteq FailedResults'
        /\ \A i \in DOMAIN results : Blamed(i)' <=> Blamed(i)
    <3>1. PICK n \in Nat : n = Len(results)
      BY <2>2
    <3> QED BY <2>1, <2>2, <3>1, LaterResults
  <2>4. \A i \in DOMAIN results' : ~ Blamed(i)'
    BY <2>1, <2>2, <2>3 DEF Judgement, Blamed
  <2> QED BY <2>1, <2>3, <2>4 DEF Judgement
<1>6. CASE Finish
  <2>1. remainingToolCalls \in Nat
    BY Counts
  <2>2. /\ UNCHANGED <<request, pending, results, status, stopped>>
        /\ phase = "close" /\ phase' = "done"
    BY <1>6, <2>1 DEF Finish
  <2> QED BY <2>2 DEF Judgement, Blamed, SameWave, Answered, Doubted, FailedResults
<1>7. CASE DeadlinePasses \/ UNCHANGED vars
  BY <1>1, <1>7 DEF DeadlinePasses, waveVars, vars
<1>8. ASSUME NEW r \in Runs, Stage(r) PROVE Judgement'
  BY <1>1, <1>8, StageIs DEF waveVars
<1> QED BY <1>3, <1>4, <1>5, <1>6, <1>7, <1>8, JudgementMerge DEF Next, Main

-----------------------------------------------------------------------------
(* The theorems. *)

(* All five parts hold in every state: what is said of one rests on the others. *)
THEOREM Invariant == Spec => []Inv
<1>1. ASSUME Init PROVE Inv
  BY <1>1, TypesInit, HonestInit, ScheduledInit, JudgementInit, ChargedInit DEF Inv
<1>2. ASSUME Inv, [Next]_vars PROVE Inv'
  BY <1>2, TypesStep, HonestStep, ScheduledStep, JudgementStep, ChargedStep DEF Inv
<1> QED BY <1>1, <1>2, PTL DEF Spec

(* Every variable of a job keeps its type, the calls left of the budget never less *)
(* than none among them.                                                           *)
THEOREM TypeCorrect == Spec => []TypeOK
BY Invariant, PTL DEF Inv

(* runCodaliJob never throws "scheduler stalled": of an accepted graph, with stages *)
(* pending, some stage has the results it waits for.                                *)
THEOREM NeverStalls == Spec => [](phase # "stalled")
<1>1. Inv => phase # "stalled"
  BY DEF Inv, Scheduled
<1> QED BY <1>1, Invariant, PTL

(* No stage runs on a failure: its dependencies have results, no required stage has *)
(* failed and no answer has asked for clarification before it started; and a repair *)
(* follows only when every stage has answered.                                      *)
THEOREM NothingBuilt == Spec => []NothingBuiltOnFailure
<1>1. ASSUME Inv PROVE NothingBuiltOnFailure
  <2> USE <1>1 DEF Inv
  <2> SUFFICES ASSUME NEW r \in Runs, Running(r)
               PROVE  /\ \A i \in DOMAIN results :
                            /\ results[i].answer # "clarify"
                            /\ results[i].ok \/ (results[i].stage \in request.optional /\ r # Repair)
                      /\ r \in Stages => \A d \in request.dependsOn[r] : ResultOf(d)
                      /\ r = Repair => pending = {}
    BY DEF NothingBuiltOnFailure
  <2>1. lane[r] # "idle"
    BY DEF Running
  <2>2. ASSUME phase \in {"wave", "repair"}, NEW i \in DOMAIN results
        PROVE  /\ results[i].answer # "clarify"
               /\ results[i].ok \/ results[i].stage \in request.optional
    <3>1. results[i].stage \in Stages /\ ~ stopped
      BY <2>2 DEF Scheduled, Judgement
    <3>2. ~ Blamed(i)
      BY <3>1 DEF Judgement
    <3>3. results[i].ok \/ results[i].answer = "plain"
      BY DEF Honest
    <3> QED BY <3>1, <3>2, <3>3 DEF Blamed
  <2>3. CASE phase = "wave" /\ r \in ToSet(active)
    <3>1. r \in ReadyStages /\ r \in Stages /\ r # Repair
      BY <2>3, RunsAre DEF Scheduled, ReadyStages, TypeOK
    <3> QED BY <2>2, <2>3, <3>1 DEF ReadyStages
  <2>4. CASE phase = "repair" /\ r = Repair
    <3>1. pending = {} /\ \A i \in DOMAIN results : results[i].ok
      BY <2>4 DEF Judgement, Answered
    <3> QED BY <2>2, <2>4, <3>1, RunsAre
  <2> QED BY <2>1, <2>3, <2>4 DEF Scheduled
<1> QED BY <1>1, Invariant, PTL

(* What is charged never exceeds the budget, and the calls really made exceed it at *)
(* most once for each stage that has failed, whose calls runCodaliJob never charges. *)
THEOREM OverrunHolds == Spec => []OverrunBounded
<1>1. ASSUME Inv PROVE OverrunBounded
  <2> USE <1>1 DEF Inv
  <2> DEFINE b == request.budget
             U == Total(Reported, Ended)
             F == Cardinality(Failures)
             R == Cardinality(FailedResults)
  <2>1. /\ b \in Nat /\ remainingToolCalls \in Nat /\ F \in Nat /\ R \in Nat
        /\ U \in Nat /\ U <= remainingToolCalls /\ spent \in Nat
    BY Counts, Uncharged DEF TypeOK
  <2>2. spent + remainingToolCalls <= b + U + b * (F + R)
    BY DEF Charged
  <2> HIDE DEF b, U, F, R
  <2>3. (F + R) + 1 = 1 + F + R /\ F + R \in Nat
    BY <2>1
  <2>4. b * (1 + F + R) = b * (F + R) + b /\ b * (F + R) \in Nat
    BY <2>1, <2>3, Times
  <2>5. spent <= b * (1 + F + R)
    BY <2>1, <2>2, <2>4
  <2> QED BY <2>1, <2>5 DEF OverrunBounded, b, F, R
<1> QED BY <1>1, Invariant, PTL

(* The status a job ends with tells the truth of its results: of success, of the *)
(* failure of a required stage, of a request for clarification and of a part.    *)
THEOREM StatusHolds == Spec => []StatusTrue
<1>1. ASSUME Inv PROVE StatusTrue
  <2> USE <1>1 DEF Inv
  <2> SUFFICES ASSUME phase = "done" PROVE StatusTrue
    BY DEF StatusTrue
  <2>1. stopped => status \in {"needs_clarification", "failed"}
    BY DEF Judgement
  <2>2. status = "succeeded" =>
           /\ pending = {} /\ ~ Doubted
           /\ \A i \in DOMAIN results : results[i].ok /\ results[i].answer # "clarify"
    <3> SUFFICES ASSUME status = "succeeded"
                 PROVE  /\ pending = {} /\ ~ Doubted
                        /\ \A i \in DOMAIN results : results[i].ok /\ results[i].answer # "clarify"
      OBVIOUS
    <3>1. pending = {} /\ ~ Doubted /\ ~ stopped /\ \A i \in DOMAIN results : results[i].ok
      BY <2>1 DEF Judgement, Answered
    <3>2. \A i \in DOMAIN results : results[i].stage \in Stages /\ ~ Blamed(i)
      BY <3>1 DEF Scheduled, Judgement
    <3> QED BY <3>1, <3>2 DEF Blamed
  <2>3. ASSUME NEW i \in FailedResults, results[i].stage \in Stages \ request.optional
        PROVE  \/ status = "failed"
               \/ /\ status = "needs_clarification"
                  /\ \E j \in DOMAIN results :
                        /\ j > i /\ results[j].answer = "clarify"
                        /\ SameWave(results[i].stage, results[j].stage)
    <3>1. i \in DOMAIN results /\ ~ results[i].ok /\ Blamed(i)
      BY <2>3 DEF FailedResults, Blamed
    <3>2. stopped
      BY <3>1 DEF Judgement
    <3>3. PICK d \in DOMAIN results :
             /\ Blamed(d) /\ status = IF results[d].ok THEN "needs_clarification" ELSE "failed"
             /\ i <= d /\ SameWave(results[i].stage, results[d].stage)
      BY <3>1, <3>2 DEF Judgement
    <3>4. CASE results[d].ok
      <4>1. i # d /\ results[d].answer = "clarify"
        BY <3>1, <3>3, <3>4 DEF Blamed
      <4>2. i \in Nat /\ d \in Nat
        BY <3>1, SeqShape DEF TypeOK
      <4>3. d > i
        BY <3>3, <4>1, <4>2
      <4> QED BY <3>3, <3>4, <4>1, <4>3
    <3> QED BY <3>3, <3>4
  <2>4. status = "needs_clarification" => \E i \in DOMAIN results : results[i].answer = "clarify"
    BY DEF Judgement, Blamed
  <2>5. status = "partial" => Doubted \/ FailedResults # {}
    BY DEF Judgement
  <2> QED BY <2>2, <2>3, <2>4, <2>5 DEF StatusTrue
<1> QED BY <1>1, Invariant, PTL

(* No stage is run for a second result, and none is counted twice in the status: *)
(* whatever runs, stops and repairs, the results are of runs that all differ.    *)
EachOnce == \A i, j \in DOMAIN results : results[i].stage = results[j].stage => i = j

LEMMA OnceMerge == ASSUME Inv, EachOnce, MergeWave PROVE EachOnce'
<1> USE DEF Inv
<1>1. PICK n \in Nat : n = Len(results)
  BY SeqShape DEF TypeOK
<1>2. /\ \A i \in DOMAIN results : results'[i] = results[i]
      /\ \A k \in DOMAIN active :
            active[k] \in ToSet(active) /\ results'[n + k] = Record(active[k])
      /\ \A i \in DOMAIN results' : i \in DOMAIN results \/ \E k \in DOMAIN active : i = n + k
  BY <1>1, WaveBlamed
<1>3. \A s \in ToSet(active) : ~ ResultOf(s)
  BY DEF MergeWave, Scheduled, Entered, ReadyStages, TypeOK
<1>4. \A i \in DOMAIN results, k \in DOMAIN active : results[i].stage # results'[n + k].stage
  BY <1>2, <1>3, RecordIs DEF ResultOf
<1>5. \A k, l \in DOMAIN active : results'[n + k].stage = results'[n + l].stage => k = l
  BY <1>2, RecordIs DEF Scheduled
<1> SUFFICES ASSUME NEW i \in DOMAIN results', NEW j \in DOMAIN results',
                    results'[i].stage = results'[j].stage
             PROVE  i = j
  BY DEF EachOnce
<1>6. CASE i \in DOMAIN results /\ j \in DOMAIN results
  BY <1>2, <1>6 DEF EachOnce
<1>7. CASE i \in DOMAIN results /\ j \notin DOMAIN results
  BY <1>2, <1>4, <1>7
<1>8. CASE i \notin DOMAIN results /\ j \in DOMAIN results
  BY <1>2, <1>4, <1>8
<1>9. CASE i \notin DOMAIN results /\ j \notin DOMAIN results
  <2>1. PICK k \in DOMAIN active, l \in DOMAIN active : i = n + k /\ j = n + l
    BY <1>2, <1>9
  <2> QED BY <1>5, <2>1
<1> QED BY <1>6, <1>7, <1>8, <1>9

LEMMA OnceStep == ASSUME Inv, EachOnce, [Next]_vars PROVE EachOnce'
<1> USE DEF Inv
<1>1. ASSUME results' = results PROVE EachOnce'
  BY <1>1 DEF EachOnce
<1>2. CASE Validate \/ StartWave \/ ReadVerdict \/ Finish \/ DeadlinePasses \/ UNCHANGED vars
  BY <1>1, <1>2 DEF Validate, StartWave, ReadVerdict, Finish, DeadlinePasses, waveVars, vars
<1>3. CASE MergeRepair
  <2>1. /\ Len(results) \in Nat /\ DOMAIN results = 1..Len(results)
        /\ DOMAIN results' = 1..(Len(results) + 1)
        /\ \A i \in DOMAIN results : results'[i] = results[i]
        /\ \A i \in DOMAIN results' \ DOMAIN results : results'[i].stage \notin Stages
    BY <1>3, RepairResult
  <2>2. \A i \in DOMAIN results : results[i].stage \in Stages
    BY <1>3 DEF Scheduled, MergeRepair
  <2>3. \A i, j \in DOMAIN results' \ DOMAIN results : i = j
    BY <2>1
  <2> QED BY <2>1, <2>2, <2>3 DEF EachOnce
<1>4. ASSUME NEW r \in Runs, Stage(r) PROVE EachOnce'
  BY <1>1, <1>4, StageIs DEF waveVars
<1> QED BY <1>2, <1>3, <1>4, OnceMerge DEF Next, Main

(* Each stage, and the repair, has one result at most: MergeWave adds results of *)
(* stages that had none, each of them once.                                      *)
THEOREM ResultsOnce == Spec => []EachOnce
<1>1. Init => EachOnce
  BY DEF Init, EachOnce
<1>2. Inv /\ EachOnce /\ [Next]_vars => EachOnce'
  BY OnceStep
<1> QED BY <1>1, <1>2, Invariant, PTL DEF Spec

(* No wave is empty, and it ends with fewer stages pending than it began with: the  *)
(* loop over the waves makes progress, whatever its stages answer.                  *)
Manned == phase = "wave" => ToSet(active) # {}
WavesShrink ==
  [][phase = "wave" /\ phase' # "wave" => pending' \subseteq pending /\ pending' # pending]_vars

LEMMA MannedStep == ASSUME Inv, Manned, [Next]_vars PROVE Manned'
<1> USE DEF Inv
<1>1. CASE StartWave
  <2>1. ReadyStages # {}
    BY <1>1, SomeReady DEF StartWave, Scheduled, Entered, TypeOK
  <2>2. active' \in Seq(Stages) /\ (Len(active') = MaxParallelStages \/ ToSet(active') = ReadyStages)
    BY <1>1, WaveIs DEF StartWave, Waves
  <2>3. CASE Len(active') = MaxParallelStages
    <3>1. DOMAIN active' = 1..MaxParallelStages /\ 1 \in 1..MaxParallelStages
      BY <2>2, <2>3, SeqShape, JobAssumption
    <3>2. active'[1] \in ToSet(active')
      BY <3>1 DEF ToSet
    <3> QED BY <3>2 DEF Manned
  <2> QED BY <2>1, <2>2, <2>3 DEF Manned
<1>2. CASE Validate \/ MergeWave \/ ReadVerdict \/ MergeRepair \/ Finish
  BY <1>2 DEF Validate, MergeWave, ReadVerdict, MergeRepair, Finish, Manned
<1>3. CASE DeadlinePasses \/ UNCHANGED vars
  BY <1>3 DEF DeadlinePasses, vars, waveVars, Manned
<1>4. ASSUME NEW r \in Runs, Stage(r) PROVE Manned'
  BY <1>4, StageIs DEF waveVars, Manned
<1> QED BY <1>1, <1>2, <1>3, <1>4 DEF Next, Main

(* With NeverStalls this is why runCodaliJob's loop ends after at most as many waves *)
(* as there are stages.                                                              *)
THEOREM WavesProgress == Spec => WavesShrink
<1>1. Init => Manned
  BY DEF Init, Manned
<1>2. Inv /\ Manned /\ [Next]_vars => Manned'
  BY MannedStep
<1>3. ASSUME Inv, Manned, [Next]_vars
      PROVE  [phase = "wave" /\ phase' # "wave" => pending' \subseteq pending /\ pending' # pending]_vars
  <2> SUFFICES ASSUME phase = "wave", phase' # "wave"
               PROVE  pending' \subseteq pending /\ pending' # pending
    OBVIOUS
  <2>1. CASE MergeWave
    <3>1. ToSet(active) # {} /\ ToSet(active) \subseteq pending
      BY <1>3 DEF Inv, Scheduled, ReadyStages, Manned
    <3> QED BY <2>1, <3>1 DEF MergeWave
  <2>2. CASE Validate \/ StartWave \/ ReadVerdict \/ MergeRepair \/ Finish
    BY <2>2 DEF Validate, StartWave, ReadVerdict, MergeRepair, Finish
  <2>3. CASE DeadlinePasses \/ UNCHANGED vars
    BY <2>3 DEF DeadlinePasses, vars
  <2>4. ASSUME NEW r \in Runs, Stage(r) PROVE FALSE
    BY <1>3, <2>4, StageIs DEF Inv
  <2> QED BY <1>3, <2>1, <2>2, <2>3, <2>4 DEF Next, Main
<1> QED BY <1>1, <1>2, <1>3, Invariant, PTL DEF Spec, WavesShrink

=============================================================================
