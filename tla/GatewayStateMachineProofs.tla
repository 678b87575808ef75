---------------------- MODULE GatewayStateMachineProofs ----------------------
(* Theorems about GatewayStateMachine, for any budgets, plans, follow-ups   *)
(* and answers of the workers.                                              *)
EXTENDS GatewayStateMachine, SequenceTheorems, FiniteSetTheorems, TLAPS

-----------------------------------------------------------------------------
(* Sums.  Total counts pairs, so that what holds of finite sets holds of it. *)

Pairs(counts, set) == UNION {{i} \X (1..counts[i]) : i \in set}

LEMMA PairsMembers ==
  ASSUME NEW counts, NEW set
  PROVE  \A p : p \in Pairs(counts, set) <=> \E i \in set : \E n \in 1..counts[i] : p = <<i, n>>
BY DEF Pairs

LEMMA PairsFinite ==
  ASSUME NEW set, IsFiniteSet(set), NEW counts, \A i \in set : counts[i] \in Nat
  PROVE  IsFiniteSet(Pairs(counts, set))
<1> DEFINE column(i) == {i} \X (1..counts[i])
           columns == {column(i) : i \in set}
           f == [i \in set |-> column(i)]
<1>1. ASSUME NEW i \in set PROVE IsFiniteSet(column(i))
  <2>1. IsFiniteSet({i})
    BY FS_Singleton
  <2>2. counts[i] \in Int
    BY <1>1
  <2>3. IsFiniteSet(1..counts[i])
    BY <2>2, FS_Interval
  <2> QED BY <2>1, <2>3, FS_Product
<1>2. f \in Surjection(set, columns)
  BY DEF Surjection
<1>3. IsFiniteSet(columns)
  <2> HIDE DEF f, columns
  <2> QED BY <1>2, FS_Surjection
<1>4. \A T \in columns : IsFiniteSet(T)
  BY <1>1
<1>5. IsFiniteSet(UNION columns)
  <2> HIDE DEF columns
  <2> QED BY <1>3, <1>4, FS_UNION
<1> QED BY <1>5 DEF Pairs

LEMMA TotalNat ==
  ASSUME NEW set, IsFiniteSet(set), NEW counts, \A i \in set : counts[i] \in Nat
  PROVE  Total(counts, set) \in Nat
BY PairsFinite, FS_CardinalityType DEF Total, Pairs

(* Equal counts have equal sums, and only noughts none. *)
LEMMA TotalSame ==
  ASSUME NEW set, NEW counts, NEW others, \A i \in set : counts[i] = others[i]
  PROVE  Total(counts, set) = Total(others, set)
<1>1. {{i} \X (1..counts[i]) : i \in set} = {{i} \X (1..others[i]) : i \in set}
  OBVIOUS
<1> QED BY <1>1 DEF Total

LEMMA TotalNought ==
  ASSUME NEW set, NEW counts, \A i \in set : counts[i] = 0
  PROVE  Total(counts, set) = 0
<1>1. Pairs(counts, set) = {}
  BY PairsMembers
<1> QED BY <1>1, FS_EmptySet DEF Total, Pairs

(* A sum of bounded counts. *)
LEMMA TotalBound ==
  ASSUME NEW set, IsFiniteSet(set), NEW bound \in Nat, NEW counts,
         \A i \in set : counts[i] \in Nat /\ counts[i] <= bound
  PROVE  Total(counts, set) <= Cardinality(set) * bound
<1>1. IsFiniteSet(1..bound) /\ Cardinality(1..bound) = bound
  BY FS_Interval
<1>2. IsFiniteSet(set \X (1..bound)) /\ Cardinality(set \X (1..bound)) = Cardinality(set) * bound
  BY <1>1, FS_Product
<1>3. Pairs(counts, set) \subseteq set \X (1..bound)
  BY PairsMembers
<1>4. Cardinality(Pairs(counts, set)) <= Cardinality(set \X (1..bound))
  BY <1>2, <1>3, FS_Subset
<1> QED BY <1>2, <1>4 DEF Total, Pairs

(* One term of a sum changes. *)
LEMMA TotalTerm ==
  ASSUME NEW set, IsFiniteSet(set), NEW counts, \A k \in set : counts[k] \in Nat, NEW i \in set
  PROVE  /\ Total(counts, set \ {i}) \in Nat
         /\ Total(counts, set) = counts[i] + Total(counts, set \ {i})
<1> DEFINE rest == set \ {i}
           column == {i} \X (1..counts[i])
<1>1. IsFiniteSet(rest) /\ \A k \in rest : counts[k] \in Nat
  BY FS_Subset
<1>2. IsFiniteSet(Pairs(counts, rest)) /\ Total(counts, rest) \in Nat
  BY <1>1, PairsFinite, TotalNat
<1>3. IsFiniteSet(column) /\ Cardinality(column) = counts[i]
  <2>1. IsFiniteSet({i}) /\ Cardinality({i}) = 1
    BY FS_Singleton
  <2>2. IsFiniteSet(1..counts[i]) /\ Cardinality(1..counts[i]) = counts[i]
    BY FS_Interval
  <2>3. IsFiniteSet(column) /\ Cardinality(column) = 1 * counts[i]
    BY <2>1, <2>2, FS_Product
  <2> QED BY <2>3
<1>4. Pairs(counts, set) = column \cup Pairs(counts, rest) /\ column \cap Pairs(counts, rest) = {}
  BY PairsMembers
<1>5. Cardinality(Pairs(counts, set)) = counts[i] + Cardinality(Pairs(counts, rest))
  <2> HIDE DEF column, rest
  <2>1. /\ Cardinality(Pairs(counts, set)) =
             Cardinality(column) + Cardinality(Pairs(counts, rest)) - Cardinality({})
        /\ Cardinality({}) = 0
    BY <1>2, <1>3, <1>4, FS_Union, FS_EmptySet
  <2>2. Cardinality(Pairs(counts, rest)) \in Nat
    BY <1>2, FS_CardinalityType
  <2> QED BY <1>3, <2>1, <2>2
<1> QED BY <1>2, <1>5 DEF Total, Pairs

LEMMA TotalChange ==
  ASSUME NEW set, IsFiniteSet(set), NEW i \in set, NEW counts, NEW others,
         \A k \in set : counts[k] \in Nat /\ others[k] \in Nat,
         \A k \in set \ {i} : others[k] = counts[k]
  PROVE  Total(others, set) + counts[i] = Total(counts, set) + others[i]
<1>1. Total(counts, set \ {i}) = Total(others, set \ {i})
  BY TotalSame
<1>2. /\ Total(counts, set \ {i}) \in Nat
      /\ Total(counts, set) = counts[i] + Total(counts, set \ {i})
      /\ Total(others, set) = others[i] + Total(others, set \ {i})
  BY TotalTerm
<1> QED BY <1>1, <1>2

LEMMA MinIs ==
  ASSUME NEW a \in Nat, NEW b \in Nat
  PROVE  Min({a, b}) \in Nat /\ Min({a, b}) <= a /\ Min({a, b}) <= b
BY DEF Min

LEMMA MaxIs ==
  ASSUME NEW a \in Nat, NEW b \in Nat
  PROVE  Max({a, b}) \in Nat
BY DEF Max

LEMMA SameLength ==
  ASSUME NEW a \in Nat, NEW b \in Nat, 1..a = 1..b PROVE a = b
<1>1. a = 0 \/ a \in 1..a
  OBVIOUS
<1>2. b = 0 \/ b \in 1..b
  OBVIOUS
<1> QED BY <1>1, <1>2

(* A list of n entries that m more are added to. *)
LEMMA Lengthens ==
  ASSUME NEW S, NEW n \in Nat, NEW m \in Nat, NEW f \in [1..n -> S], NEW g \in [1..m -> S]
  PROVE  /\ f \o g \in [1..(n + m) -> S]
         /\ \A i \in 1..n : (f \o g)[i] = f[i]
         /\ \A i \in 1..(n + m) : i > n => (f \o g)[i] = g[i - n] /\ i - n \in 1..m
<1>1. f \in Seq(S) /\ g \in Seq(S)
  BY SeqDef
<1>2. Len(f) = n /\ Len(g) = m
  <2>1. DOMAIN f = 1..n /\ DOMAIN g = 1..m
    OBVIOUS
  <2>2. Len(f) \in Nat /\ DOMAIN f = 1..Len(f) /\ Len(g) \in Nat /\ DOMAIN g = 1..Len(g)
    BY <1>1, LenProperties
  <2> QED BY <2>1, <2>2, SameLength
<1>3. /\ f \o g \in Seq(S) /\ Len(f \o g) = n + m
      /\ \A i \in 1..(n + m) : (f \o g)[i] = IF i <= n THEN f[i] ELSE g[i - n]
  BY <1>1, <1>2, ConcatProperties
<1>4. DOMAIN (f \o g) = 1..(n + m) /\ \A i \in 1..(n + m) : (f \o g)[i] \in S
  BY <1>3, LenProperties
<1>5. \A i \in 1..(n + m) : i > n => i - n \in 1..m /\ ~(i <= n)
  OBVIOUS
<1>6. \A i \in 1..n : i \in 1..(n + m) /\ i <= n
  OBVIOUS
<1>7. f \o g \in [1..(n + m) -> S]
  BY <1>3, <1>4, LenProperties
<1> QED BY <1>3, <1>5, <1>6, <1>7

LEMMA SeqShape ==
  ASSUME NEW S, NEW s
  PROVE  s \in Seq(S) => Len(s) \in Nat /\ s \in [1..Len(s) -> S]
BY LenProperties

LEMMA Concatenates ==
  ASSUME NEW S, NEW s \in Seq(S), NEW r \in Seq(S)
  PROVE  s \o r \in Seq(S) /\ Len(s \o r) = Len(s) + Len(r)
BY ConcatProperties

-----------------------------------------------------------------------------
(* Types.                                                                   *)

LEMMA Finite ==
  ASSUME TypeOK
  PROVE  /\ Len(tasks) \in Nat /\ tasks \in [Indices -> Task]
         /\ IsFiniteSet(Indices) /\ IsFiniteSet(wave) /\ Cardinality(wave) \in Nat
         /\ \A i \in wave : report[i].tools \in Nat /\ report[i].models \in Nat
<1>1. Len(tasks) \in Nat /\ tasks \in [Indices -> Task]
  BY SeqShape DEF TypeOK, Indices
<1>2. IsFiniteSet(Indices)
  BY <1>1, FS_Interval DEF Indices
<1>3. wave \in SUBSET Indices /\ report \in [Indices -> [tools : Nat, models : Nat]]
  BY DEF TypeOK
<1>4. IsFiniteSet(wave)
  BY <1>2, <1>3, FS_Subset
<1> QED BY <1>1, <1>2, <1>3, <1>4, FS_CardinalityType

LEMMA LeftIs ==
  ASSUME NEW max \in Nat, NEW count \in Nat
  PROVE  /\ Left(max, count) \in Nat /\ Left(max, count) <= max
         /\ count < max => Left(max, count) = max - count
         /\ count >= max => Left(max, count) = 0
BY DEF Left

LEMMA Rest ==
  ASSUME TypeOK
  PROVE  /\ RemainingToolCalls \in Nat /\ RemainingModelCalls \in Nat /\ EvidenceLeft \in Nat
         /\ RemainingToolCalls <= Left(MaxToolCalls, toolCallCount)
<1>1. /\ MaxToolCalls \in Nat /\ MaxModelCalls \in Nat /\ MaxEvidenceItems \in Nat
      /\ toolCallCount \in Nat /\ modelCallCount \in Nat /\ evidence \in Nat
  BY BudgetAssumption DEF TypeOK
<1> DEFINE l == Left(MaxToolCalls, toolCallCount)
<1>2. l \in Nat /\ Left(MaxModelCalls, modelCallCount) \in Nat /\ Left(MaxEvidenceItems, evidence) \in Nat
  BY <1>1, LeftIs
<1>3. RemainingToolCalls = IF stage = "toolDrain" THEN 0 ELSE l
  BY DEF RemainingToolCalls
<1> HIDE DEF l
<1>4. RemainingToolCalls \in Nat /\ RemainingToolCalls <= l
  BY <1>2, <1>3
<1> QED BY <1>2, <1>4 DEF RemainingModelCalls, EvidenceLeft, l

(* What a worker reports is a pair of numbers, that of the tool calls at    *)
(* most what it was given and what runners report above that.               *)
LEMMA ReportIs ==
  ASSUME TypeOK, NEW r \in Reports
  PROVE  r \in [tools : Nat, models : Nat] /\ r.tools <= RemainingToolCalls + ExtraCalls
<1>1. RemainingToolCalls \in Nat /\ RemainingModelCalls \in Nat /\ ExtraCalls \in Nat
  BY Rest, BudgetAssumption
<1>2. Max({1, RemainingModelCalls}) \in Nat
  BY <1>1, MaxIs
<1> DEFINE m == Max({1, RemainingModelCalls})
           k == RemainingToolCalls
<1>3. r \in [tools : 0..(k + ExtraCalls), models : 1..(m + ExtraCalls)]
  BY DEF Reports
<1>4. k \in Nat /\ m \in Nat
  BY <1>1, <1>2
<1> HIDE DEF m, k
<1>5. r \in [tools : Nat, models : Nat] /\ r.tools <= k + ExtraCalls
  BY <1>1, <1>3, <1>4
<1> QED BY <1>5 DEF k

LEMMA TypesInit ==
  ASSUME Init PROVE TypeOK
<1>1. PICK n \in Nat : tasks \in [1..n -> Task]
  BY BudgetAssumption DEF Init
<1>2. tasks \in Seq(Task)
  BY <1>1, SeqDef
<1>3. Len(tasks) \in Nat
  BY <1>2, LenProperties
<1>4. Nothing \in [tools : Nat, models : Nat]
  BY DEF Nothing
<1>5. report \in [Indices -> [tools : Nat, models : Nat]]
  BY <1>4 DEF Init
<1>6. /\ status \in [Indices -> {"pending", "running", "answered", "persisting"} \union Settled]
      /\ room \in [Indices -> Nat]
  BY DEF Init
<1>7. modelCallCount \in Nat
  BY DEF Init
<1>8. /\ cursor = 0 /\ stage = "fill" /\ wave = {} /\ evidence = 0 /\ toolCallCount = 0 /\ iterations = 0
      /\ requiredFailure = FALSE /\ timeIsUp = FALSE /\ errors = {} /\ finalStatus = "running"
  BY DEF Init
<1>9. /\ cursor \in 0..Len(tasks) /\ wave \subseteq Indices /\ errors \subseteq 0..Len(tasks)
      /\ {evidence, toolCallCount, modelCallCount, iterations} \subseteq Nat
      /\ {requiredFailure, timeIsUp} \subseteq BOOLEAN
  <2>1. cursor \in 0..Len(tasks)
    BY <1>3, <1>8
  <2>2. wave \subseteq Indices /\ errors \subseteq 0..Len(tasks)
    BY <1>8
  <2>3. {evidence, toolCallCount, modelCallCount, iterations} \subseteq Nat
    BY <1>7, <1>8
  <2>4. {requiredFailure, timeIsUp} \subseteq BOOLEAN
    BY <1>8
  <2> QED BY <2>1, <2>2, <2>3, <2>4
<1> QED BY <1>2, <1>5, <1>6, <1>8, <1>9 DEF TypeOK

LEMMA TypesOfWorker ==
  ASSUME TypeOK, NEW i \in Indices, Worker(i) PROVE TypeOK'
<1>1. Indices' = Indices /\ UNCHANGED <<tasks, cursor, stage, wave, toolCallCount, modelCallCount,
                                      requiredFailure, errors, iterations, timeIsUp, finalStatus>>
  BY DEF Worker, WorkerAnswers, WorkerThrows, ReadTrace, PersistResult, Indices, loopVars,
         countVars, verifyVars
<1>2. status' \in [Indices -> {"pending", "running", "answered", "persisting"} \union Settled]
  <2>1. PICK s : status' = [status EXCEPT ![i] = s] /\ s \in {"answered", "persisting", "failed", "succeeded"}
    BY DEF Worker, WorkerAnswers, WorkerThrows, ReadTrace, PersistResult
  <2> QED BY <2>1 DEF TypeOK, Settled
<1>3. report' \in [Indices -> [tools : Nat, models : Nat]]
  <2>1. report' = report \/ \E r \in [tools : Nat, models : Nat] : report' = [report EXCEPT ![i] = r]
    <3>1. CASE WorkerAnswers(i)
      <4>1. PICK r \in Reports : report' = [report EXCEPT ![i] = r]
        BY <3>1 DEF WorkerAnswers
      <4> QED BY <4>1, ReportIs
    <3>2. CASE WorkerThrows(i)
      <4>1. PICK c \in 0..RemainingToolCalls :
               report' = report \/ report' = [report EXCEPT ![i] = [tools |-> c, models |-> 1]]
        BY <3>2 DEF WorkerThrows
      <4>2. c \in Nat
        BY Rest
      <4> QED BY <4>1, <4>2
    <3>3. CASE ReadTrace(i) \/ PersistResult(i)
      BY <3>3 DEF ReadTrace, PersistResult
    <3> QED BY <3>1, <3>2, <3>3 DEF Worker
  <2> QED BY <2>1 DEF TypeOK
<1>4. room' \in [Indices -> Nat] /\ evidence' \in Nat
  <2>1. CASE ReadTrace(i)
    BY <2>1, Rest DEF ReadTrace, TypeOK
  <2>2. CASE PersistResult(i)
    <3>1. PICK items \in 0..MaxEvidence : evidence' = evidence + Min({items, room[i]})
      BY <2>2 DEF PersistResult
    <3>2. items \in Nat /\ room[i] \in Nat /\ evidence \in Nat
      BY BudgetAssumption DEF TypeOK
    <3>3. evidence' \in Nat
      BY <3>1, <3>2, MinIs
    <3> QED BY <2>2, <3>3 DEF PersistResult, TypeOK
  <2>3. CASE WorkerAnswers(i) \/ WorkerThrows(i)
    BY <2>3 DEF WorkerAnswers, WorkerThrows, TypeOK
  <2> QED BY <2>1, <2>2, <2>3 DEF Worker
<1> QED BY <1>1, <1>2, <1>3, <1>4 DEF TypeOK

LEMMA TypesOfAccount ==
  ASSUME TypeOK, AccountWave PROVE TypeOK'
<1>1. Indices' = Indices /\ UNCHANGED <<tasks, cursor, status, room, evidence, iterations,
                                      timeIsUp, finalStatus>>
  BY DEF AccountWave, Indices, verifyVars
<1>2. ToolsSpent \in Nat /\ ModelsSpent \in Nat
  BY Finite, TotalNat DEF ToolsSpent, ModelsSpent
<1>3. toolCallCount' \in Nat /\ modelCallCount' \in Nat
  BY <1>2 DEF AccountWave, TypeOK
<1>4. errors' \subseteq 0..Len(tasks) /\ wave' = {}
  BY DEF AccountWave, TypeOK, Failures, Indices
<1>5. requiredFailure' \in BOOLEAN
  <2> DEFINE P == \E i \in Failures : tasks[i].required
  <2>1. requiredFailure' = (requiredFailure \/ P) /\ requiredFailure \in BOOLEAN /\ P \in BOOLEAN
    BY DEF AccountWave, TypeOK
  <2> HIDE DEF P
  <2> QED BY <2>1
<1>6. stage' \in {"toolDrain", "modelDrain", "fill"}
  BY <1>3 DEF AccountWave
<1>7. report' \in [Indices -> [tools : Nat, models : Nat]]
  BY DEF AccountWave, ForgetReports, Nothing, TypeOK
<1> QED BY <1>1, <1>3, <1>4, <1>5, <1>6, <1>7 DEF TypeOK

(* The verifier's follow-ups join every list. *)
LEMMA MoreTasks ==
  ASSUME TypeOK, VerifierAsksForMore
  PROVE  \E m \in Nat :
           /\ tasks' \in Seq(Task) /\ Len(tasks') = Len(tasks) + m
           /\ Indices' = 1..(Len(tasks) + m)
           /\ status' \in [Indices' -> {"pending", "running", "answered", "persisting"} \union Settled]
           /\ report' \in [Indices' -> [tools : Nat, models : Nat]]
           /\ room' \in [Indices' -> Nat]
           /\ \A i \in Indices : /\ i \in Indices' /\ tasks'[i] = tasks[i] /\ status'[i] = status[i]
                                /\ report'[i] = report[i] /\ room'[i] = room[i]
           /\ \A i \in Indices' \ Indices :
                 i > Len(tasks) /\ status'[i] = "pending" /\ report'[i] = Nothing /\ room'[i] = 0
           /\ stage' \in {"fill", "ending"} /\ (stage' = "ending" => m = 0)
<1>1. PICK accepted \in Accepted :
        /\ tasks' = tasks \o accepted
        /\ status' = status \o [i \in DOMAIN accepted |-> "pending"]
        /\ report' = report \o [i \in DOMAIN accepted |-> Nothing]
        /\ room' = room \o [i \in DOMAIN accepted |-> 0]
        /\ stage' = IF accepted # <<>> THEN "fill" ELSE "ending"
  BY DEF VerifierAsksForMore
<1>2. PICK m \in Nat : accepted \in [1..m -> Task]
  <2>1. PICK m \in 0..MaxFollowUps : accepted \in [1..m -> Task]
    BY <1>1 DEF Accepted
  <2> QED BY <2>1, BudgetAssumption
<1> DEFINE n == Len(tasks)
           Numbers == [tools : Nat, models : Nat]
           Statuses == {"pending", "running", "answered", "persisting"} \union Settled
           s == [i \in 1..m |-> "pending"]
           r == [i \in 1..m |-> Nothing]
           z == [i \in 1..m |-> 0]
<1>3. /\ n \in Nat /\ tasks \in [1..n -> Task] /\ Indices = 1..n
      /\ status \in [1..n -> Statuses] /\ report \in [1..n -> Numbers]
      /\ room \in [1..n -> Nat]
  BY Finite DEF TypeOK, Indices
<1>4. s \in [1..m -> Statuses] /\ r \in [1..m -> Numbers] /\ z \in [1..m -> Nat]
  BY DEF Nothing
<1>5. /\ tasks' = tasks \o accepted /\ status' = status \o s /\ report' = report \o r
      /\ room' = room \o z /\ \A i \in 1..m : s[i] = "pending" /\ r[i] = Nothing /\ z[i] = 0
  <2>1. DOMAIN accepted = 1..m
    BY <1>2
  <2> QED BY <1>1, <2>1
<1> HIDE DEF n, s, r, z, Statuses, Numbers
<1>n. n \in Nat /\ m \in Nat
  BY <1>3
<1>6. /\ tasks' \in [1..(n + m) -> Task] /\ \A i \in 1..n : tasks'[i] = tasks[i]
  <2>1. tasks \in [1..n -> Task] /\ accepted \in [1..m -> Task]
    BY <1>2, <1>3
  <2>2. /\ tasks \o accepted \in [1..(n + m) -> Task]
        /\ \A i \in 1..n : (tasks \o accepted)[i] = tasks[i]
        /\ \A i \in 1..(n + m) : i > n => (tasks \o accepted)[i] = accepted[i - n] /\ i - n \in 1..m
    BY <1>n, <2>1, Lengthens
  <2> QED BY <1>5, <2>2
<1>7. /\ status' \in [1..(n + m) -> Statuses] /\ \A i \in 1..n : status'[i] = status[i]
      /\ \A i \in 1..(n + m) : i > n => status'[i] = "pending"
  <2>1. status \in [1..n -> Statuses] /\ s \in [1..m -> Statuses]
    BY <1>3, <1>4
  <2>2. /\ status \o s \in [1..(n + m) -> Statuses]
        /\ \A i \in 1..n : (status \o s)[i] = status[i]
        /\ \A i \in 1..(n + m) : i > n => (status \o s)[i] = s[i - n] /\ i - n \in 1..m
    BY <1>n, <2>1, Lengthens
  <2> QED BY <1>5, <2>2
<1>8. /\ report' \in [1..(n + m) -> Numbers] /\ \A i \in 1..n : report'[i] = report[i]
      /\ \A i \in 1..(n + m) : i > n => report'[i] = Nothing
  <2>1. report \in [1..n -> Numbers] /\ r \in [1..m -> Numbers]
    BY <1>3, <1>4
  <2>2. /\ report \o r \in [1..(n + m) -> Numbers]
        /\ \A i \in 1..n : (report \o r)[i] = report[i]
        /\ \A i \in 1..(n + m) : i > n => (report \o r)[i] = r[i - n] /\ i - n \in 1..m
    BY <1>n, <2>1, Lengthens
  <2> QED BY <1>5, <2>2
<1>9. /\ room' \in [1..(n + m) -> Nat] /\ \A i \in 1..n : room'[i] = room[i]
      /\ \A i \in 1..(n + m) : i > n => room'[i] = 0
  <2>1. room \in [1..n -> Nat] /\ z \in [1..m -> Nat]
    BY <1>3, <1>4
  <2>2. /\ room \o z \in [1..(n + m) -> Nat]
        /\ \A i \in 1..n : (room \o z)[i] = room[i]
        /\ \A i \in 1..(n + m) : i > n => (room \o z)[i] = z[i - n] /\ i - n \in 1..m
    BY <1>n, <2>1, Lengthens
  <2> QED BY <1>5, <2>2
<1>10. tasks' \in Seq(Task) /\ Len(tasks') = n + m
  <2>1. tasks \in Seq(Task) /\ accepted \in Seq(Task)
    BY <1>2, SeqDef DEF TypeOK
  <2>2. Len(accepted) = m
    <3>1. DOMAIN accepted = 1..m /\ Len(accepted) \in Nat /\ DOMAIN accepted = 1..Len(accepted)
      BY <1>2, <2>1, LenProperties
    <3> QED BY <3>1, SameLength
  <2> QED BY <1>5, <2>1, <2>2, Concatenates DEF n
<1>11. Indices' = 1..(n + m)
  BY <1>10 DEF Indices
<1>12. stage' \in {"fill", "ending"} /\ (stage' = "ending" => m = 0)
  <2>1. stage' = "ending" => accepted = <<>>
    BY <1>1
  <2>2. accepted = <<>> => m = 0
    <3>1. DOMAIN accepted = 1..m
      BY <1>2
    <3>2. DOMAIN <<>> = 1..0
      OBVIOUS
    <3> QED BY <3>1, <3>2, SameLength
  <2> QED BY <1>1, <2>1, <2>2
<1>13. /\ \A i \in 1..n : i \in 1..(n + m)
       /\ \A i \in (1..(n + m)) \ (1..n) : i > n /\ i \in 1..(n + m)
  BY <1>3
<1> QED
  <2>1. Len(tasks) = n
    BY DEF n
  <2> QED BY <1>3, <1>6, <1>7, <1>8, <1>9, <1>10, <1>11, <1>12, <1>13, <2>1 DEF Statuses, Numbers

LEMMA TypesNext ==
  ASSUME TypeOK, [Next]_vars PROVE TypeOK'
<1>0. Len(tasks) \in Nat /\ cursor \in 0..Len(tasks)
  BY Finite DEF TypeOK
<1>1. CASE SkipTask
  <2>1. Indices' = Indices /\ UNCHANGED <<tasks, stage, wave, report, room, evidence, toolCallCount,
              modelCallCount, requiredFailure, errors, iterations, timeIsUp, finalStatus>>
    BY <1>1 DEF SkipTask, Indices, countVars, verifyVars
  <2>2. cursor' \in 0..Len(tasks)
    BY <1>0, <1>1 DEF SkipTask
  <2>3. status' \in [Indices -> {"pending", "running", "answered", "persisting"} \union Settled]
    BY <1>1 DEF SkipTask, TypeOK, Settled
  <2> QED BY <2>1, <2>2, <2>3 DEF TypeOK
<1>2. CASE JoinWave
  <2>1. Indices' = Indices /\ UNCHANGED <<tasks, stage, status, report, room, evidence, toolCallCount,
              modelCallCount, requiredFailure, errors, iterations, timeIsUp, finalStatus>>
    BY <1>2 DEF JoinWave, Indices, workVars, countVars, verifyVars
  <2>2. cursor' \in 0..Len(tasks) /\ wave' \subseteq Indices
    BY <1>0, <1>2 DEF JoinWave, TypeOK, Indices
  <2> QED BY <2>1, <2>2 DEF TypeOK
<1>3. CASE StartWave
  <2>1. Indices' = Indices /\ UNCHANGED <<tasks, cursor, wave, report, room, evidence, toolCallCount,
              modelCallCount, requiredFailure, errors, iterations, timeIsUp, finalStatus>>
    BY <1>3 DEF StartWave, Indices, countVars, verifyVars
  <2>2. status' \in [Indices -> {"pending", "running", "answered", "persisting"} \union Settled]
        /\ stage' = "run"
    BY <1>3 DEF StartWave, TypeOK
  <2> QED BY <2>1, <2>2 DEF TypeOK
<1>4. CASE AccountWave
  BY <1>4, TypesOfAccount
<1>5. CASE DrainTask
  <2>1. Indices' = Indices /\ UNCHANGED <<tasks, stage, report, room, evidence, toolCallCount,
              modelCallCount, requiredFailure, errors, iterations, timeIsUp, finalStatus>>
    BY <1>5 DEF DrainTask, Indices, countVars, verifyVars
  <2>2. cursor' \in 0..Len(tasks) /\ wave' \subseteq Indices
    BY <1>0, <1>5 DEF DrainTask, Indices
  <2>3. status' \in [Indices -> {"pending", "running", "answered", "persisting"} \union Settled]
    BY <1>5 DEF DrainTask, TypeOK
  <2> QED BY <2>1, <2>2, <2>3 DEF TypeOK
<1>6. CASE DrainedTaskEnds
  <2>1. Indices' = Indices /\ UNCHANGED <<tasks, cursor, stage, status, room, evidence, toolCallCount,
              modelCallCount, requiredFailure, errors, iterations, timeIsUp, finalStatus>>
    BY <1>6 DEF DrainedTaskEnds, Indices, countVars, verifyVars
  <2>2. report' \in [Indices -> [tools : Nat, models : Nat]] /\ wave' = {}
    BY <1>6 DEF DrainedTaskEnds, ForgetReports, Nothing, TypeOK
  <2> QED BY <2>1, <2>2 DEF TypeOK
<1>7. CASE DrainEnds
  BY <1>7 DEF DrainEnds, TypeOK, Indices, workVars, countVars, verifyVars
<1>8. CASE StopVerifying
  BY <1>8 DEF StopVerifying, TypeOK, Indices, workVars, countVars
<1>9. CASE CallVerifier
  BY <1>9 DEF CallVerifier, TypeOK, Indices, workVars, countVars, verifyVars
<1>10. CASE Finish
  <2>1. finalStatus' \in {"failed", "partial", "succeeded"}
    BY <1>10 DEF Finish, ResolveStatus
  <2> QED BY <1>10, <2>1 DEF Finish, TypeOK, Indices, workVars, countVars, verifyVars
<1>11. CASE VerifierFails
  <2>1. errors' \subseteq 0..Len(tasks) /\ modelCallCount' \in Nat
    BY <1>0, <1>11 DEF VerifierFails, TypeOK
  <2> QED BY <1>11, <2>1 DEF VerifierFails, TypeOK, Indices, workVars
<1>12. CASE VerifierPasses
  <2>1. iterations' \in Nat /\ modelCallCount' \in Nat
    BY <1>12 DEF VerifierPasses, TypeOK
  <2> QED BY <1>12, <2>1 DEF VerifierPasses, TypeOK, Indices, workVars
<1>13. CASE VerifierAsksForMore
  <2>1. PICK m \in Nat :
           /\ tasks' \in Seq(Task) /\ Len(tasks') = Len(tasks) + m
           /\ Indices' = 1..(Len(tasks) + m)
           /\ status' \in [Indices' -> {"pending", "running", "answered", "persisting"} \union Settled]
           /\ report' \in [Indices' -> [tools : Nat, models : Nat]]
           /\ room' \in [Indices' -> Nat]
           /\ stage' \in {"fill", "ending"}
    BY <1>13, MoreTasks
  <2>2. UNCHANGED <<cursor, wave, evidence, toolCallCount, requiredFailure, errors, timeIsUp, finalStatus>>
    BY <1>13 DEF VerifierAsksForMore
  <2>3. modelCallCount' \in Nat /\ iterations' \in Nat
    BY <1>13 DEF VerifierAsksForMore, TypeOK
  <2>4. /\ cursor \in 0..(Len(tasks) + m) /\ wave \subseteq 1..(Len(tasks) + m)
        /\ errors \subseteq 0..(Len(tasks) + m)
    BY <1>0 DEF TypeOK, Indices
  <2> QED BY <2>1, <2>2, <2>3, <2>4 DEF TypeOK
<1>14. CASE TimePasses
  BY <1>14 DEF TimePasses, TypeOK, Indices, loopVars, workVars, countVars, verifyVars
<1>15. CASE UNCHANGED vars
  BY <1>15 DEF vars, TypeOK, Indices, loopVars, workVars, countVars, verifyVars
<1> QED BY <1>1, <1>2, <1>3, <1>4, <1>5, <1>6, <1>7, <1>8, <1>9, <1>10, <1>11, <1>12, <1>13, <1>14,
           <1>15, TypesOfWorker DEF Next, Executor, Verifier

-----------------------------------------------------------------------------
(* Where each task is.                                                      *)

InWave == {"running", "answered", "persisting"} \union Settled

(* Tasks not taken yet are pending, those taken are settled or in the wave, *)
(* and the wave is empty but where tasks are taken and run.                 *)
Placed ==
  /\ wave \subseteq 1..cursor /\ Cardinality(wave) <= MaxParallelWorkers
  /\ \A i \in Indices : i > cursor => status[i] = "pending"
  /\ \A i \in (1..cursor) \ wave : status[i] \in Settled
  /\ \A i \in wave : IF stage = "fill" THEN status[i] = "pending" ELSE status[i] \in InWave
  /\ stage \notin {"fill", "run", "toolDrain"} => wave = {}
  /\ stage \in {"verifying", "done"} => cursor = Len(tasks)
  /\ stage = "ending" => requiredFailure \/ cursor = Len(tasks)

LEMMA Nobody ==
  Cardinality({}) = 0 /\ MaxParallelWorkers \in Nat /\ 1 <= MaxParallelWorkers
BY FS_EmptySet, BudgetAssumption

LEMMA PlacedInit ==
  ASSUME Init PROVE Placed
<1>1. Len(tasks) \in Nat
  BY TypesInit, Finite
<1>2. /\ cursor = 0 /\ wave = {} /\ stage = "fill" /\ \A i \in Indices : status[i] = "pending"
  BY DEF Init
<1>3. 1..cursor = {}
  BY <1>2
<1> QED BY <1>2, <1>3, Nobody DEF Placed

(* The next task of the list. *)
LEMMA NextTask ==
  ASSUME TypeOK, Placed, cursor < Len(tasks)
  PROVE  /\ cursor \in Nat /\ cursor + 1 \in Indices /\ cursor + 1 \notin 1..cursor
         /\ 1..(cursor + 1) = (1..cursor) \cup {cursor + 1}
         /\ 1..cursor \subseteq Indices
         /\ status[cursor + 1] = "pending" /\ cursor + 1 \notin wave
<1>1. Len(tasks) \in Nat /\ cursor \in 0..Len(tasks)
  BY Finite DEF TypeOK
<1>2. cursor + 1 \in Indices /\ cursor + 1 > cursor /\ cursor + 1 \notin 1..cursor
  BY <1>1 DEF Indices
<1>3. 1..(cursor + 1) = (1..cursor) \cup {cursor + 1} /\ 1..cursor \subseteq Indices
  BY <1>1 DEF Indices
<1> QED BY <1>1, <1>2, <1>3 DEF Placed

(* A worker at work is of the wave. *)
LEMMA WorkerOfWave ==
  ASSUME TypeOK, Placed, NEW i \in Indices, status[i] \in {"running", "answered", "persisting"}
  PROVE  i \in wave /\ i \in 1..cursor /\ stage \in {"run", "toolDrain"}
<1>1. i \in 1..cursor
  <2>1. Len(tasks) \in Nat /\ cursor \in 0..Len(tasks) /\ i \in 1..Len(tasks)
    BY Finite DEF TypeOK, Indices
  <2>2. ~(i > cursor)
    BY DEF Placed
  <2> QED BY <2>1, <2>2
<1>2. i \in wave
  BY <1>1 DEF Placed, Settled
<1>3. stage # "fill"
  BY <1>2 DEF Placed
<1> QED BY <1>1, <1>2, <1>3 DEF Placed

LEMMA PlacedNext ==
  ASSUME TypeOK, Placed, [Next]_vars PROVE Placed'
<1>0. Len(tasks) \in Nat /\ cursor \in 0..Len(tasks) /\ IsFiniteSet(wave) /\ Cardinality(wave) \in Nat
      /\ wave \subseteq Indices
  BY Finite DEF TypeOK
<1>a. ASSUME UNCHANGED <<tasks, cursor, wave, status, requiredFailure>>,
             wave # {} => stage' \in {"run", "toolDrain", "fill"} /\ (stage' = "fill" <=> stage = "fill"),
             stage' \in {"verifying", "done"} => cursor = Len(tasks),
             stage' = "ending" => requiredFailure \/ cursor = Len(tasks)
      PROVE  Placed'
  BY <1>a DEF Placed, Indices
<1>1. CASE SkipTask
  <2>1. UNCHANGED <<tasks, stage, wave, requiredFailure>> /\ Indices' = Indices
    BY <1>1 DEF SkipTask, countVars, Indices
  <2>2. /\ cursor < Len(tasks) /\ cursor' = cursor + 1
        /\ status' = [status EXCEPT ![cursor + 1] = "skipped"]
    BY <1>1 DEF SkipTask
  <2>3. /\ cursor + 1 \in Indices /\ cursor + 1 \notin wave /\ cursor + 1 \notin 1..cursor
        /\ 1..(cursor + 1) = (1..cursor) \cup {cursor + 1} /\ 1..cursor \subseteq Indices
    BY <2>2, NextTask
  <2>4. \A i \in Indices : status'[i] = IF i = cursor + 1 THEN "skipped" ELSE status[i]
    BY <2>2, <2>3 DEF TypeOK
  <2>5. \A i \in Indices : i > cursor' => status'[i] = "pending"
    <3>1. \A i \in Indices : i > cursor + 1 => i > cursor /\ i # cursor + 1
      BY <1>0 DEF Indices
    <3> QED BY <2>2, <2>4, <3>1 DEF Placed
  <2>6. \A i \in (1..cursor') \ wave' : status'[i] \in Settled
    BY <2>1, <2>2, <2>3, <2>4 DEF Placed, Settled
  <2>7. \A i \in wave' : status'[i] = status[i]
    BY <1>0, <2>1, <2>3, <2>4
  <2>8. stage \notin {"verifying", "done"} /\ (stage = "ending" => requiredFailure)
    BY <1>1 DEF SkipTask, SkipsNow
  <2>9. wave' \subseteq 1..cursor'
    BY <2>1, <2>2, <2>3 DEF Placed
  <2> QED BY <2>1, <2>5, <2>6, <2>7, <2>8, <2>9 DEF Placed
<1>2. CASE JoinWave
  <2>1. UNCHANGED <<tasks, stage, status, requiredFailure>> /\ Indices' = Indices /\ stage = "fill"
    BY <1>2 DEF JoinWave, countVars, workVars, Indices
  <2>2. cursor < Len(tasks) /\ cursor' = cursor + 1 /\ wave' = wave \cup {cursor + 1}
        /\ Cardinality(wave) < MaxParallelWorkers
    BY <1>2 DEF JoinWave, WaveHasPlace
  <2>3. /\ cursor + 1 \in Indices /\ cursor + 1 \notin wave /\ cursor + 1 \notin 1..cursor
        /\ 1..(cursor + 1) = (1..cursor) \cup {cursor + 1} /\ status[cursor + 1] = "pending"
    BY <2>2, NextTask
  <2>4. \A i \in Indices : i > cursor' => status'[i] = "pending"
    <3>1. \A i \in Indices : i > cursor + 1 => i > cursor
      BY <1>0 DEF Indices
    <3> QED BY <2>1, <2>2, <3>1 DEF Placed
  <2>5. Cardinality(wave') <= MaxParallelWorkers
    <3>1. Cardinality(wave') = Cardinality(wave) + 1
      BY <1>0, <2>2, <2>3, FS_AddElement
    <3> QED BY <1>0, <2>2, <3>1, Nobody
  <2> QED BY <2>1, <2>2, <2>3, <2>4, <2>5 DEF Placed
<1>3. CASE StartWave
  <2>1. UNCHANGED <<tasks, cursor, wave, requiredFailure>> /\ Indices' = Indices /\ stage' = "run"
        /\ stage = "fill"
    BY <1>3 DEF StartWave, countVars, Indices
  <2>2. \A i \in Indices : status'[i] = IF i \in wave THEN "running" ELSE status[i]
    BY <1>3 DEF StartWave
  <2>3. \A i \in Indices : i > cursor => i \notin wave
    BY <1>0 DEF Placed, Indices
  <2>4. 1..cursor \subseteq Indices
    BY <1>0 DEF Indices
  <2> QED BY <1>0, <2>1, <2>2, <2>3, <2>4 DEF Placed, InWave
<1>4. CASE AccountWave
  <2>1. UNCHANGED <<tasks, cursor, status>> /\ Indices' = Indices /\ wave' = {}
        /\ \A i \in wave : status[i] \in Settled
    BY <1>4 DEF AccountWave, WaveIsOver, Indices
  <2>2. stage' \in {"toolDrain", "modelDrain", "fill"}
    BY <1>4, TypesOfAccount DEF AccountWave, TypeOK
  <2> QED BY <2>1, <2>2, Nobody DEF Placed
<1>5. CASE DrainTask
  <2>1. UNCHANGED <<tasks, stage, requiredFailure>> /\ Indices' = Indices /\ stage = "toolDrain" /\ wave = {}
    BY <1>5 DEF DrainTask, countVars, Indices
  <2>2. cursor < Len(tasks) /\ cursor' = cursor + 1 /\ wave' = {cursor + 1}
        /\ status' = [status EXCEPT ![cursor + 1] = "running"]
    BY <1>5 DEF DrainTask
  <2>3. /\ cursor + 1 \in Indices /\ cursor + 1 \notin 1..cursor /\ 1..cursor \subseteq Indices
        /\ 1..(cursor + 1) = (1..cursor) \cup {cursor + 1}
    BY <2>2, NextTask
  <2>4. \A i \in Indices : status'[i] = IF i = cursor + 1 THEN "running" ELSE status[i]
    BY <2>2, <2>3 DEF TypeOK
  <2>5. \A i \in Indices : i > cursor' => status'[i] = "pending"
    <3>1. \A i \in Indices : i > cursor + 1 => i > cursor /\ i # cursor + 1
      BY <1>0 DEF Indices
    <3> QED BY <2>2, <2>4, <3>1 DEF Placed
  <2>6. Cardinality(wave') <= MaxParallelWorkers
    BY <2>2, FS_Singleton, Nobody
  <2>7. \A i \in (1..cursor') \ wave' : status'[i] \in Settled
    BY <2>1, <2>2, <2>3, <2>4 DEF Placed
  <2> QED BY <2>1, <2>2, <2>3, <2>4, <2>5, <2>6, <2>7 DEF Placed, InWave
<1>6. CASE DrainedTaskEnds
  <2>1. UNCHANGED <<tasks, cursor, status, stage, requiredFailure>> /\ Indices' = Indices /\ wave' = {}
        /\ \A i \in wave : status[i] \in Settled
    BY <1>6 DEF DrainedTaskEnds, WaveIsOver, Indices, countVars
  <2> QED BY <2>1, Nobody DEF Placed
<1>7. CASE DrainEnds
  BY <1>7, <1>a DEF DrainEnds, workVars, countVars
<1>8. CASE StopVerifying \/ CallVerifier
  <2>1. UNCHANGED <<tasks, cursor, wave, status, requiredFailure>> /\ wave = {}
        /\ (requiredFailure \/ cursor = Len(tasks))
    BY <1>8 DEF StopVerifying, CallVerifier, TasksAreOver, workVars, countVars
  <2>2. stage' = "ending" \/ (stage' = "verifying" /\ ~requiredFailure)
    BY <1>8 DEF StopVerifying, CallVerifier, EndsUnverified
  <2> QED BY <1>a, <2>1, <2>2
<1>9. CASE Finish
  <2>1. UNCHANGED <<tasks, cursor, wave, status, requiredFailure>> /\ wave = {} /\ cursor = Len(tasks)
    BY <1>9 DEF Finish, RestIsSkipped, workVars, countVars, Placed
  <2> QED BY <1>9, <1>a, <2>1 DEF Finish
<1>10. CASE VerifierFails \/ VerifierPasses
  <2>1. UNCHANGED <<tasks, cursor, wave, status, requiredFailure>> /\ wave = {} /\ cursor = Len(tasks)
        /\ stage' = "ending"
    BY <1>10 DEF VerifierFails, VerifierPasses, workVars, Placed
  <2> QED BY <1>a, <2>1
<1>11. CASE VerifierAsksForMore
  <2>1. PICK m \in Nat :
           /\ Len(tasks') = Len(tasks) + m /\ Indices' = 1..(Len(tasks) + m)
           /\ \A i \in Indices : status'[i] = status[i]
           /\ \A i \in Indices' \ Indices : status'[i] = "pending"
           /\ stage' \in {"fill", "ending"} /\ (stage' = "ending" => m = 0)
    BY <1>11, MoreTasks
  <2>2. UNCHANGED <<cursor, wave, requiredFailure>> /\ wave = {} /\ cursor = Len(tasks)
    BY <1>11 DEF VerifierAsksForMore, Placed
  <2>3. \A i \in Indices' : i > cursor => i \notin Indices
    BY <1>0, <2>1, <2>2 DEF Indices
  <2>4. \A i \in 1..cursor : i \in Indices
    BY <2>2 DEF Indices
  <2>5. stage' = "ending" => cursor' = Len(tasks')
    BY <1>0, <2>1, <2>2
  <2> QED BY <2>1, <2>2, <2>3, <2>4, <2>5, Nobody DEF Placed
<1>12. CASE TimePasses
  BY <1>12, <1>a DEF TimePasses, loopVars, workVars, countVars, Placed
<1>13. CASE UNCHANGED vars
  BY <1>13, <1>a DEF vars, loopVars, workVars, countVars, Placed
<1>14. ASSUME NEW i \in Indices, Worker(i) PROVE Placed'
  <2>1. UNCHANGED <<tasks, cursor, wave, stage, requiredFailure>> /\ Indices' = Indices
    BY <1>14 DEF Worker, WorkerAnswers, WorkerThrows, ReadTrace, PersistResult, Indices, loopVars, countVars
  <2>2. PICK s : status' = [status EXCEPT ![i] = s] /\ s \in {"answered", "persisting", "failed", "succeeded"}
    BY <1>14 DEF Worker, WorkerAnswers, WorkerThrows, ReadTrace, PersistResult
  <2>3. status[i] \in {"running", "answered", "persisting"}
    BY <1>14 DEF Worker, WorkerAnswers, WorkerThrows, ReadTrace, PersistResult
  <2>4. i \in wave /\ i \in 1..cursor /\ stage \in {"run", "toolDrain"}
    BY <2>3, WorkerOfWave
  <2>5. \A k \in Indices : status'[k] = IF k = i THEN s ELSE status[k]
    BY <2>2 DEF TypeOK
  <2>6. \A k \in Indices : k > cursor => k # i
    BY <1>0, <2>4 DEF Indices
  <2>7. 1..cursor \subseteq Indices
    BY <1>0 DEF Indices
  <2> QED BY <1>0, <2>1, <2>2, <2>4, <2>5, <2>6, <2>7 DEF Placed, InWave, Settled
<1> QED BY <1>1, <1>2, <1>3, <1>4, <1>5, <1>6, <1>7, <1>8, <1>9, <1>10, <1>11, <1>12, <1>13, <1>14
        DEF Next, Executor, Verifier

-----------------------------------------------------------------------------
(* The end, and the reasons to skip.                                        *)

(* A run that is done stays as Finish left it. *)
LEMMA DoneIsLast ==
  ASSUME TypeOK, Placed, [Next]_vars, stage' = "done"
  PROVE  Finish \/ (stage = "done" /\ UNCHANGED <<tasks, status, finalStatus>>)
<1>1. ASSUME NEW i \in Indices, Worker(i) PROVE FALSE
  <2>1. status[i] \in {"running", "answered", "persisting"} /\ stage' = stage
    BY <1>1 DEF Worker, WorkerAnswers, WorkerThrows, ReadTrace, PersistResult, loopVars
  <2> QED BY <2>1, WorkerOfWave
<1>2. CASE SkipTask \/ JoinWave \/ StartWave \/ DrainTask \/ DrainedTaskEnds \/ DrainEnds
           \/ StopVerifying \/ CallVerifier \/ VerifierFails \/ VerifierPasses
  BY <1>2 DEF SkipTask, SkipsNow, JoinWave, StartWave, DrainTask, DrainedTaskEnds, DrainEnds,
              StopVerifying, CallVerifier, VerifierFails, VerifierPasses
<1>3. CASE AccountWave
  <2>1. stage' \in {"toolDrain", "modelDrain", "fill"}
    BY <1>3, TypesOfAccount DEF AccountWave, TypeOK
  <2> QED BY <2>1
<1>4. CASE VerifierAsksForMore
  BY <1>4, MoreTasks
<1>5. CASE TimePasses \/ UNCHANGED vars
  BY <1>5 DEF TimePasses, vars, loopVars, workVars
<1> QED BY <1>1, <1>2, <1>3, <1>4, <1>5 DEF Next, Executor, Verifier

LEMMA EndedNext ==
  ASSUME TypeOK, Placed, RequiredFailureFailsRun, [Next]_vars PROVE RequiredFailureFailsRun'
<1> SUFFICES ASSUME stage' = "done" PROVE RequiredFailureFailsRun'
  BY DEF RequiredFailureFailsRun
<1>1. CASE Finish
  <2>1. UNCHANGED <<tasks, status>> /\ finalStatus' = ResolveStatus /\ Indices' = Indices
    BY <1>1 DEF Finish, workVars, Indices
  <2>2. ResolveStatus = "failed" <=> \E i \in Indices : status[i] = "failed" /\ tasks[i].required
    BY DEF ResolveStatus
  <2> QED BY <2>1, <2>2 DEF RequiredFailureFailsRun
<1>2. CASE stage = "done" /\ UNCHANGED <<tasks, status, finalStatus>>
  BY <1>2 DEF RequiredFailureFailsRun, Indices
<1> QED BY <1>1, <1>2, DoneIsLast

(* A drain is entered with its budget used up, and no budget grows back. *)
Drained ==
  /\ stage = "toolDrain" => toolCallCount >= MaxToolCalls
  /\ stage = "modelDrain" => modelCallCount >= MaxModelCalls

LEMMA CountsGrow ==
  ASSUME TypeOK, [Next]_vars
  PROVE  /\ toolCallCount' >= toolCallCount /\ modelCallCount' >= modelCallCount
         /\ timeIsUp => timeIsUp'
         /\ requiredFailure => requiredFailure'
<1>0. toolCallCount \in Nat /\ modelCallCount \in Nat
  BY DEF TypeOK
<1>1. CASE AccountWave
  <2>1. ToolsSpent \in Nat /\ ModelsSpent \in Nat
    BY Finite, TotalNat DEF ToolsSpent, ModelsSpent
  <2>2. toolCallCount' = toolCallCount + ToolsSpent /\ modelCallCount' = modelCallCount + ModelsSpent
        /\ timeIsUp' = timeIsUp
    BY <1>1 DEF AccountWave
  <2>3. requiredFailure => requiredFailure'
    BY <1>1 DEF AccountWave
  <2> QED BY <1>0, <2>1, <2>2, <2>3
<1>2. CASE VerifierFails \/ VerifierPasses \/ VerifierAsksForMore
  BY <1>0, <1>2 DEF VerifierFails, VerifierPasses, VerifierAsksForMore
<1>3. CASE TimePasses
  BY <1>0, <1>3 DEF TimePasses, countVars
<1>4. ASSUME NEW i \in Indices, Worker(i)
      PROVE  UNCHANGED <<toolCallCount, modelCallCount, timeIsUp, requiredFailure>>
  BY <1>4 DEF Worker, WorkerAnswers, WorkerThrows, ReadTrace, PersistResult, countVars
<1>5. CASE SkipTask \/ JoinWave \/ StartWave \/ DrainTask \/ DrainedTaskEnds \/ DrainEnds
           \/ StopVerifying \/ CallVerifier \/ Finish \/ UNCHANGED vars
  BY <1>0, <1>5 DEF SkipTask, JoinWave, StartWave, DrainTask, DrainedTaskEnds, DrainEnds,
              StopVerifying, CallVerifier, Finish, vars, countVars
<1> QED BY <1>0, <1>1, <1>2, <1>3, <1>4, <1>5 DEF Next, Executor, Verifier

LEMMA DrainedNext ==
  ASSUME TypeOK, Drained, [Next]_vars PROVE Drained'
<1>0. /\ toolCallCount \in Nat /\ modelCallCount \in Nat /\ toolCallCount' \in Nat /\ modelCallCount' \in Nat
      /\ MaxToolCalls \in Nat /\ MaxModelCalls \in Nat
  BY TypesNext, BudgetAssumption DEF TypeOK
<1>1. CASE stage' = stage
  BY <1>0, <1>1, CountsGrow DEF Drained
<1>2. CASE AccountWave
  BY <1>0, <1>2 DEF AccountWave, Drained
<1>3. CASE VerifierAsksForMore
  BY <1>3, MoreTasks DEF Drained
<1>4. CASE StartWave \/ DrainEnds \/ StopVerifying \/ CallVerifier \/ Finish \/ VerifierFails \/ VerifierPasses
  BY <1>4 DEF StartWave, DrainEnds, StopVerifying, CallVerifier, Finish, VerifierFails, VerifierPasses, Drained
<1>5. CASE SkipTask \/ JoinWave \/ DrainTask \/ DrainedTaskEnds \/ TimePasses \/ UNCHANGED vars
  BY <1>1, <1>5 DEF SkipTask, JoinWave, DrainTask, DrainedTaskEnds, TimePasses, vars, loopVars
<1>6. ASSUME NEW i \in Indices, Worker(i) PROVE stage' = stage
  BY <1>6 DEF Worker, WorkerAnswers, WorkerThrows, ReadTrace, PersistResult, loopVars
<1> QED BY <1>1, <1>2, <1>3, <1>4, <1>5, <1>6 DEF Next, Executor, Verifier

Short ==
  \/ toolCallCount + MaxParallelWorkers > MaxToolCalls
  \/ modelCallCount + MaxParallelWorkers > MaxModelCalls
Cause == timeIsUp \/ requiredFailure \/ Short

LEMMA SkipsNext ==
  ASSUME TypeOK, Placed, Drained, SkipsAreExplained, [Next]_vars PROVE SkipsAreExplained'
<1>0. /\ toolCallCount \in Nat /\ modelCallCount \in Nat /\ toolCallCount' \in Nat /\ modelCallCount' \in Nat
      /\ MaxToolCalls \in Nat /\ MaxModelCalls \in Nat /\ MaxParallelWorkers \in Nat
      /\ 1 <= MaxParallelWorkers
  BY TypesNext, BudgetAssumption, Nobody DEF TypeOK
<1>1. Cause => Cause'
  <2>1. Short => Short'
    <3>1. toolCallCount' >= toolCallCount /\ modelCallCount' >= modelCallCount
      BY CountsGrow
    <3>2. \A a, b, w, m \in Nat : b >= a /\ a + w > m => b + w > m
      OBVIOUS
    <3> QED BY <1>0, <3>1, <3>2 DEF Short
  <2>2. (timeIsUp => timeIsUp') /\ (requiredFailure => requiredFailure')
    BY CountsGrow
  <2> QED BY <2>1, <2>2 DEF Cause
<1>2. CASE SkipTask
  <2>1. Cause
    <3>1. CASE stage = "fill" /\ WaveHasPlace /\ OverBudget(cursor + 1)
      <4> DEFINE c == Cardinality(wave)
                 d == Cardinality(ToolTasks(wave))
      <4>1. c \in Nat /\ c < MaxParallelWorkers /\ d \in Nat /\ d <= c
        <5>1. ToolTasks(wave) \in SUBSET wave
          BY DEF ToolTasks
        <5> QED BY <3>1, <5>1, Finite, FS_Subset, FS_CardinalityType DEF WaveHasPlace
      <4>2. timeIsUp \/ (modelCallCount + c >= MaxModelCalls \/ toolCallCount + d >= MaxToolCalls)
        BY <3>1 DEF OverBudget
      <4> HIDE DEF c, d
      <4>3. modelCallCount + c >= MaxModelCalls \/ toolCallCount + d >= MaxToolCalls => Short
        BY <1>0, <4>1 DEF Short
      <4> QED BY <4>2, <4>3 DEF Cause
    <3>2. CASE stage = "toolDrain" \/ stage = "modelDrain"
      <4>1. Short
        BY <1>0, <3>2 DEF Drained, Short
      <4> QED BY <4>1 DEF Cause
    <3>3. CASE stage = "ending" /\ requiredFailure
      BY <3>3 DEF Cause
    <3> QED BY <1>2, <3>1, <3>2, <3>3 DEF SkipTask, SkipsNow
  <2> QED BY <1>1, <2>1 DEF SkipsAreExplained, Cause, Short
<1>3. ASSUME NEW i \in Indices', status'[i] = "skipped", ~SkipTask
      PROVE  i \in Indices /\ status[i] = "skipped"
  <2>1. CASE VerifierAsksForMore
    BY <1>3, <2>1, MoreTasks
  <2>2. ASSUME NEW k \in Indices, Worker(k) PROVE i \in Indices /\ status[i] = "skipped"
    <3>1. PICK s : status' = [status EXCEPT ![k] = s] /\ s \in {"answered", "persisting", "failed", "succeeded"}
      BY <2>2 DEF Worker, WorkerAnswers, WorkerThrows, ReadTrace, PersistResult
    <3>2. Indices' = Indices
      BY <2>2 DEF Worker, WorkerAnswers, WorkerThrows, ReadTrace, PersistResult, loopVars, Indices
    <3> QED BY <1>3, <3>1, <3>2 DEF TypeOK
  <2>3. CASE StartWave
    BY <1>3, <2>3 DEF StartWave, Indices
  <2>4. CASE DrainTask
    <3>1. status' = [status EXCEPT ![cursor + 1] = "running"] /\ Indices' = Indices
      BY <2>4 DEF DrainTask, Indices
    <3> QED BY <1>3, <3>1 DEF TypeOK
  <2>5. CASE UNCHANGED <<tasks, status>>
    BY <1>3, <2>5 DEF Indices
  <2>6. CASE JoinWave \/ AccountWave \/ DrainedTaskEnds \/ DrainEnds \/ StopVerifying \/ CallVerifier
             \/ Finish \/ VerifierFails \/ VerifierPasses \/ TimePasses \/ UNCHANGED vars
    BY <2>5, <2>6 DEF JoinWave, AccountWave, DrainedTaskEnds, DrainEnds, StopVerifying, CallVerifier,
           Finish, VerifierFails, VerifierPasses, TimePasses, vars, workVars, loopVars
  <2> QED BY <1>3, <2>1, <2>2, <2>3, <2>4, <2>6 DEF Next, Executor, Verifier
<1> QED BY <1>1, <1>2, <1>3 DEF SkipsAreExplained, Cause, Short

-----------------------------------------------------------------------------
(* The budgets.                                                             *)

(* Reports and rooms belong to the tasks of a wave that runs; a report      *)
(* is no more than what was left of the budget when the wave was started.   *)
Noted ==
  /\ \A i \in Indices : report[i] # Nothing => i \in wave /\ stage # "fill"
  /\ \A i \in Indices : room[i] # 0 => status[i] = "persisting"
  /\ stage = "run" => \A i \in wave : report[i].tools <= Left(MaxToolCalls, toolCallCount) + ExtraCalls

LEMMA NotedInit ==
  ASSUME Init PROVE Noted
BY DEF Init, Noted

(* Nobody has read the trace when no worker is at work. *)
LEMMA NoRoom ==
  ASSUME TypeOK, Placed, Noted, stage \notin {"run", "toolDrain"} \/ wave = {} \/ WaveIsOver
  PROVE  \A i \in Indices : room[i] = 0
<1>1. ASSUME NEW i \in Indices, room[i] # 0 PROVE FALSE
  <2>1. status[i] = "persisting"
    BY <1>1 DEF Noted
  <2>2. i \in wave /\ stage \in {"run", "toolDrain"}
    BY <2>1, WorkerOfWave
  <2> QED BY <2>1, <2>2 DEF WaveIsOver, Settled
<1> QED BY <1>1

LEMMA NotedNext ==
  ASSUME TypeOK, Placed, Noted, [Next]_vars PROVE Noted'
<1>0. Len(tasks) \in Nat /\ cursor \in 0..Len(tasks) /\ wave \subseteq Indices
  BY Finite DEF TypeOK
<1>a. ASSUME UNCHANGED <<tasks, wave, status, report, room, toolCallCount>>,
             stage' # "run" \/ stage = "run", wave # {} => stage' # "fill"
      PROVE  Noted'
  <2>1. Indices' = Indices /\ Left(MaxToolCalls, toolCallCount)' = Left(MaxToolCalls, toolCallCount)
    BY <1>a DEF Indices, Left
  <2> QED BY <1>a, <2>1 DEF Noted
<1>1. CASE SkipTask
  <2>1. UNCHANGED <<tasks, stage, wave, report, room, toolCallCount>> /\ Indices' = Indices
        /\ Left(MaxToolCalls, toolCallCount)' = Left(MaxToolCalls, toolCallCount)
    BY <1>1 DEF SkipTask, countVars, Indices, Left
  <2>2. \A i \in Indices : room[i] = 0
    BY <1>1, NoRoom DEF SkipTask, SkipsNow, Placed
  <2> QED BY <2>1, <2>2 DEF Noted
<1>2. CASE JoinWave
  <2>1. UNCHANGED <<tasks, stage, status, report, room>> /\ Indices' = Indices /\ stage = "fill"
    BY <1>2 DEF JoinWave, workVars, Indices
  <2> QED BY <2>1 DEF Noted
<1>3. CASE StartWave
  <2>1. UNCHANGED <<tasks, wave, report, room, toolCallCount>> /\ Indices' = Indices /\ stage = "fill"
        /\ stage' = "run"
    BY <1>3 DEF StartWave, countVars, Indices
  <2>2. \A i \in Indices : room[i] = 0
    BY <2>1, NoRoom
  <2>3. \A i \in Indices : report[i] = Nothing
    BY <2>1 DEF Noted
  <2>4. 0 <= Left(MaxToolCalls, toolCallCount)' + ExtraCalls
    <3>1. Left(MaxToolCalls, toolCallCount') \in Nat /\ ExtraCalls \in Nat
      BY <2>1, LeftIs, BudgetAssumption DEF TypeOK
    <3> QED BY <3>1
  <2>5. \A i \in wave : report'[i].tools = 0
    BY <1>0, <2>1, <2>3 DEF Nothing
  <2> QED BY <2>1, <2>2, <2>3, <2>4, <2>5 DEF Noted
<1>4. CASE AccountWave \/ DrainedTaskEnds
  <2>1. UNCHANGED <<tasks, status, room>> /\ Indices' = Indices /\ WaveIsOver /\ wave' = {}
        /\ report' = [i \in Indices |-> IF i \in wave THEN Nothing ELSE report[i]]
    BY <1>4 DEF AccountWave, DrainedTaskEnds, ForgetReports, Indices
  <2>2. \A i \in Indices : report'[i] = Nothing
    BY <2>1 DEF Noted
  <2> QED BY <2>1, <2>2 DEF Noted
<1>5. CASE DrainTask
  <2>1. UNCHANGED <<tasks, stage, report, room>> /\ Indices' = Indices /\ stage = "toolDrain" /\ wave = {}
    BY <1>5 DEF DrainTask, Indices
  <2>2. \A i \in Indices : room[i] = 0
    BY <2>1, NoRoom
  <2>3. \A i \in Indices : report[i] = Nothing
    BY <2>1 DEF Noted
  <2> QED BY <2>1, <2>2, <2>3 DEF Noted
<1>6. CASE DrainEnds \/ StopVerifying \/ CallVerifier \/ Finish
  BY <1>6, <1>a DEF DrainEnds, StopVerifying, CallVerifier, TasksAreOver, Finish, workVars, countVars, Placed
<1>7. CASE VerifierFails \/ VerifierPasses
  BY <1>7, <1>a DEF VerifierFails, VerifierPasses, workVars, Placed
<1>8. CASE VerifierAsksForMore
  <2>1. /\ \A i \in Indices : report'[i] = report[i] /\ room'[i] = room[i] /\ status'[i] = status[i]
        /\ \A i \in Indices' \ Indices : report'[i] = Nothing /\ room'[i] = 0
        /\ stage' \in {"fill", "ending"}
    BY <1>8, MoreTasks
  <2>2. wave = {}
    BY <1>8 DEF VerifierAsksForMore, Placed
  <2> QED BY <2>1, <2>2 DEF Noted
<1>9. CASE TimePasses \/ UNCHANGED vars
  <2>1. UNCHANGED <<tasks, wave, stage, status, report, room, toolCallCount>>
    BY <1>9 DEF TimePasses, vars, loopVars, workVars, countVars
  <2>2. wave # {} /\ stage = "fill" => Noted'
    BY <2>1 DEF Noted, Indices
  <2> QED BY <1>a, <2>1, <2>2
<1>10. ASSUME NEW i \in Indices, Worker(i) PROVE Noted'
  <2>1. UNCHANGED <<tasks, wave, stage, toolCallCount>> /\ Indices' = Indices
        /\ Left(MaxToolCalls, toolCallCount)' = Left(MaxToolCalls, toolCallCount)
    BY <1>10 DEF Worker, WorkerAnswers, WorkerThrows, ReadTrace, PersistResult, Indices, loopVars,
                 countVars, Left
  <2>2. PICK s : status' = [status EXCEPT ![i] = s]
    BY <1>10 DEF Worker, WorkerAnswers, WorkerThrows, ReadTrace, PersistResult
  <2>3. status[i] \in {"running", "answered", "persisting"}
    BY <1>10 DEF Worker, WorkerAnswers, WorkerThrows, ReadTrace, PersistResult
  <2>4. i \in wave /\ stage \in {"run", "toolDrain"}
    BY <2>3, WorkerOfWave
  <2>5. \A k \in Indices \ {i} : status'[k] = status[k]
    BY <2>2 DEF TypeOK
  <2>6. /\ \A k \in Indices \ {i} : report'[k] = report[k]
        /\ report'[i] = report[i] \/ report'[i].tools <= RemainingToolCalls + ExtraCalls
    <3>1. CASE WorkerAnswers(i)
      <4>1. PICK r \in Reports : report' = [report EXCEPT ![i] = r]
        BY <3>1 DEF WorkerAnswers
      <4>2. r.tools <= RemainingToolCalls + ExtraCalls
        BY <4>1, ReportIs
      <4> QED BY <4>1, <4>2 DEF TypeOK
    <3>2. CASE WorkerThrows(i)
      <4>1. PICK c \in 0..RemainingToolCalls :
               report' = report \/ report' = [report EXCEPT ![i] = [tools |-> c, models |-> 1]]
        BY <3>2 DEF WorkerThrows
      <4>2. c <= RemainingToolCalls + ExtraCalls
        BY <4>1, Rest, BudgetAssumption
      <4> QED BY <4>1, <4>2 DEF TypeOK
    <3>3. CASE ReadTrace(i) \/ PersistResult(i)
      BY <3>3 DEF ReadTrace, PersistResult
    <3> QED BY <1>10, <3>1, <3>2, <3>3 DEF Worker
  <2>7. stage = "run" => report'[i].tools <= Left(MaxToolCalls, toolCallCount) + ExtraCalls
    <3>1. stage = "run" => RemainingToolCalls = Left(MaxToolCalls, toolCallCount)
      BY DEF RemainingToolCalls
    <3> QED BY <2>4, <2>6, <3>1 DEF Noted
  <2>8. \A k \in Indices \ {i} : room'[k] = room[k]
    BY <1>10 DEF Worker, WorkerAnswers, WorkerThrows, ReadTrace, PersistResult, TypeOK
  <2>9. room'[i] # 0 => status'[i] = "persisting"
    <3>1. CASE ReadTrace(i)
      BY <3>1 DEF ReadTrace, TypeOK
    <3>2. CASE PersistResult(i)
      BY <3>2 DEF PersistResult, TypeOK
    <3>3. CASE WorkerAnswers(i) \/ WorkerThrows(i)
      BY <3>3 DEF WorkerAnswers, WorkerThrows, Noted
    <3> QED BY <1>10, <3>1, <3>2, <3>3 DEF Worker
  <2> QED BY <1>0, <2>1, <2>4, <2>5, <2>6, <2>7, <2>8, <2>9 DEF Noted
<1> QED BY <1>1, <1>2, <1>3, <1>4, <1>5, <1>6, <1>7, <1>8, <1>9, <1>10 DEF Next, Executor, Verifier

(* The calls counted, and those runners may report above their budget.      *)
Counted ==
  toolCallCount + ExtraCalls * Cardinality(wave) <= MaxParallelWorkers * MaxToolCalls + ExtraCalls * cursor

LEMMA WaveTaken ==
  ASSUME TypeOK, Placed
  PROVE  Cardinality(wave) <= cursor
<1>1. cursor \in Nat
  BY Finite DEF TypeOK
<1>2. IsFiniteSet(1..cursor) /\ Cardinality(1..cursor) = cursor
  BY <1>1, FS_Interval
<1>3. wave \in SUBSET (1..cursor)
  BY DEF Placed
<1> QED BY <1>2, <1>3, FS_Subset

(* One wave's worth: w places of W, each given what is left of a budget b.  *)
LEMMA OneWave ==
  ASSUME NEW w \in Nat, NEW W \in Nat, NEW b \in Nat, NEW c \in Nat, w <= W, 1 <= W, c <= W * b
  PROVE  c + w * Left(b, c) <= W * b
<1>1. CASE c < b
  <2>1. Left(b, c) = b - c
    BY <1>1 DEF Left
  <2>2. c + w * (b - c) <= W * b
    BY <1>1
  <2> QED BY <2>1, <2>2
<1>2. CASE ~(c < b)
  BY <1>2 DEF Left
<1> QED BY <1>1, <1>2

LEMMA CountedNext ==
  ASSUME TypeOK, Placed, Noted, Counted, [Next]_vars PROVE Counted'
<1>0. /\ ExtraCalls \in Nat /\ MaxParallelWorkers \in Nat /\ MaxToolCalls \in Nat
      /\ cursor \in Nat /\ toolCallCount \in Nat /\ Cardinality(wave) \in Nat
      /\ 1 <= MaxParallelWorkers /\ Cardinality(wave) <= MaxParallelWorkers
  <2>1. ExtraCalls \in Nat /\ MaxToolCalls \in Nat
    BY BudgetAssumption
  <2>2. cursor \in Nat /\ toolCallCount \in Nat /\ Cardinality(wave) \in Nat
    BY Finite DEF TypeOK
  <2>3. Cardinality(wave) <= MaxParallelWorkers
    BY DEF Placed
  <2> QED BY <2>1, <2>2, <2>3, Nobody
<1>a. ASSUME UNCHANGED <<wave, toolCallCount, cursor>> PROVE Counted'
  BY <1>a DEF Counted
<1>1. CASE SkipTask
  <2>1. \A x, n, w, c, k \in Nat : n + x * w <= c + x * k => n + x * w <= c + x * (k + 1)
    OBVIOUS
  <2>2. cursor' = cursor + 1 /\ UNCHANGED <<wave, toolCallCount>>
    BY <1>1 DEF SkipTask, countVars
  <2>3. MaxParallelWorkers * MaxToolCalls \in Nat
    BY <1>0
  <2> QED BY <1>0, <2>1, <2>2, <2>3 DEF Counted
<1>2. CASE JoinWave \/ DrainTask
  <2>1. \A x, n, w, c, k \in Nat : n + x * w <= c + x * k => n + x * (w + 1) <= c + x * (k + 1)
    OBVIOUS
  <2>2. cursor' = cursor + 1 /\ UNCHANGED toolCallCount /\ wave' = wave \cup {cursor + 1} /\ cursor < Len(tasks)
    BY <1>2 DEF JoinWave, DrainTask, countVars
  <2>3. Cardinality(wave') = Cardinality(wave) + 1
    BY <2>2, NextTask, Finite, FS_AddElement
  <2>4. MaxParallelWorkers * MaxToolCalls \in Nat
    BY <1>0
  <2> QED BY <1>0, <2>1, <2>2, <2>3, <2>4 DEF Counted
<1>3. CASE DrainedTaskEnds
  <2>1. \A x, n, w, c \in Nat : n + x * w <= c => n + x * 0 <= c
    OBVIOUS
  <2>2. wave' = {} /\ UNCHANGED <<cursor, toolCallCount>>
    BY <1>3 DEF DrainedTaskEnds, countVars
  <2>3. MaxParallelWorkers * MaxToolCalls + ExtraCalls * cursor \in Nat
    BY <1>0
  <2> QED BY <1>0, <2>1, <2>2, <2>3, Nobody DEF Counted
<1>4. CASE AccountWave
  <2> DEFINE w == Cardinality(wave)
             l == Left(MaxToolCalls, toolCallCount)
  <2>1. stage = "run" /\ toolCallCount' = toolCallCount + ToolsSpent /\ wave' = {} /\ cursor' = cursor
    BY <1>4 DEF AccountWave
  <2>2. l \in Nat /\ w \in Nat /\ w <= cursor /\ w <= MaxParallelWorkers
    BY <1>0, LeftIs, WaveTaken
  <2>3. ToolsSpent \in Nat /\ ToolsSpent <= w * (l + ExtraCalls)
    <3> DEFINE counts == [i \in wave |-> report[i].tools]
    <3>1. \A i \in wave : counts[i] \in Nat /\ counts[i] <= l + ExtraCalls
      BY <2>1, Finite DEF Noted
    <3>2. l + ExtraCalls \in Nat
      BY <1>0, <2>2
    <3>3. ToolsSpent = Total(counts, wave)
      BY DEF ToolsSpent
    <3> HIDE DEF counts, l
    <3>4. Total(counts, wave) \in Nat /\ Total(counts, wave) <= w * (l + ExtraCalls)
      BY <3>1, <3>2, Finite, TotalBound, TotalNat
    <3> QED BY <3>3, <3>4
  <2>4. toolCallCount + ToolsSpent <= MaxParallelWorkers * MaxToolCalls + ExtraCalls * cursor
    <3>1. w * (l + ExtraCalls) = w * l + ExtraCalls * w
      <4> HIDE DEF w, l
      <4> QED BY <1>0, <2>2
    <3>2. CASE toolCallCount < MaxToolCalls
      <4>1. toolCallCount <= MaxParallelWorkers * MaxToolCalls
        BY <1>0, <3>2
      <4>2. toolCallCount + w * l <= MaxParallelWorkers * MaxToolCalls
        <5> HIDE DEF w
        <5> QED BY <1>0, <2>2, <4>1, OneWave
      <4>3. ExtraCalls * w <= ExtraCalls * cursor
        <5> HIDE DEF w
        <5> QED BY <1>0, <2>2
      <4>4. /\ w * l \in Nat /\ ExtraCalls * w \in Nat /\ ExtraCalls * cursor \in Nat
            /\ MaxParallelWorkers * MaxToolCalls \in Nat
        <5> HIDE DEF w, l
        <5> QED BY <1>0, <2>2
      <4> HIDE DEF w, l
      <4>5. \A n, s, a, b, c, d \in Nat : s <= a + b /\ n + a <= c /\ b <= d => n + s <= c + d
        OBVIOUS
      <4> QED BY <1>0, <2>3, <3>1, <4>2, <4>3, <4>4, <4>5
    <3>3. CASE ~(toolCallCount < MaxToolCalls)
      <4>1. l = 0
        BY <1>0, <3>3 DEF Left
      <4>2. w * l = 0 /\ ExtraCalls * w \in Nat
        <5> HIDE DEF w, l
        <5> QED BY <1>0, <2>2, <4>1
      <4>3. MaxParallelWorkers * MaxToolCalls + ExtraCalls * cursor \in Nat
        BY <1>0
      <4>4. toolCallCount + ExtraCalls * w <= MaxParallelWorkers * MaxToolCalls + ExtraCalls * cursor
        BY DEF Counted
      <4> HIDE DEF w, l
      <4>5. ToolsSpent <= ExtraCalls * w
        BY <2>3, <3>1, <4>2
      <4>6. \A n, s, a, c \in Nat : s <= a /\ n + a <= c => n + s <= c
        OBVIOUS
      <4> QED BY <1>0, <2>3, <4>2, <4>3, <4>4, <4>5, <4>6
    <3> QED BY <3>2, <3>3
  <2>5. ExtraCalls * Cardinality({}) = 0
    BY <1>0, Nobody
  <2>6. toolCallCount + ToolsSpent \in Nat
    BY <1>0, <2>3
  <2> QED BY <2>1, <2>4, <2>5, <2>6 DEF Counted
<1>5. CASE StartWave \/ DrainEnds \/ StopVerifying \/ CallVerifier \/ Finish \/ VerifierFails \/ VerifierPasses
           \/ VerifierAsksForMore \/ TimePasses \/ UNCHANGED vars
  BY <1>5, <1>a DEF StartWave, DrainEnds, StopVerifying, CallVerifier, Finish, VerifierFails, VerifierPasses,
        VerifierAsksForMore, TimePasses, vars, loopVars, countVars
<1>6. ASSUME NEW i \in Indices, Worker(i) PROVE Counted'
  BY <1>6, <1>a DEF Worker, WorkerAnswers, WorkerThrows, ReadTrace, PersistResult, loopVars, countVars
<1> QED BY <1>1, <1>2, <1>3, <1>4, <1>5, <1>6 DEF Next, Executor, Verifier

(* The evidence stored, what the readers of the trace believe is left, and  *)
(* what those still to read it would.                                       *)
Waiting == {i \in wave : status[i] \in {"pending", "running", "answered"}}
Stored ==
  evidence + Total(room, Indices) + Cardinality(Waiting) * EvidenceLeft
    <= MaxParallelWorkers * MaxEvidenceItems

LEMMA StoredTypes ==
  ASSUME TypeOK, Placed
  PROVE  /\ Total(room, Indices) \in Nat /\ IsFiniteSet(Waiting) /\ Cardinality(Waiting) \in Nat
         /\ Cardinality(Waiting) <= MaxParallelWorkers
         /\ evidence \in Nat /\ EvidenceLeft \in Nat /\ MaxEvidenceItems \in Nat
         /\ MaxParallelWorkers \in Nat /\ 1 <= MaxParallelWorkers
<1>1. Total(room, Indices) \in Nat
  BY Finite, TotalNat DEF TypeOK
<1>2. Waiting \in SUBSET wave
  BY DEF Waiting
<1>3. IsFiniteSet(Waiting) /\ Cardinality(Waiting) \in Nat /\ Cardinality(Waiting) <= Cardinality(wave)
  BY <1>2, Finite, FS_Subset, FS_CardinalityType
<1>4. Cardinality(wave) <= MaxParallelWorkers /\ Cardinality(wave) \in Nat
  BY Finite DEF Placed
<1>5. evidence \in Nat /\ EvidenceLeft \in Nat /\ MaxEvidenceItems \in Nat
  BY Rest, BudgetAssumption DEF TypeOK
<1> QED BY <1>1, <1>3, <1>4, <1>5, Nobody

LEMMA EvidenceBounded ==
  ASSUME TypeOK, Placed, Stored
  PROVE  evidence <= MaxParallelWorkers * MaxEvidenceItems
<1> DEFINE r == Total(room, Indices)
           q == Cardinality(Waiting) * EvidenceLeft
           b == MaxParallelWorkers * MaxEvidenceItems
<1>1. r \in Nat /\ q \in Nat /\ b \in Nat /\ evidence \in Nat
  BY StoredTypes
<1>2. evidence + r + q <= b
  BY DEF Stored
<1> HIDE DEF r, q, b
<1>3. evidence <= b
  BY <1>1, <1>2
<1> QED BY <1>3 DEF b

(* Where nobody has read the trace a whole wave may yet. *)
LEMMA StoredAfresh ==
  ASSUME TypeOK', Placed', \A i \in Indices' : room'[i] = 0,
         evidence' <= MaxParallelWorkers * MaxEvidenceItems
  PROVE  Stored'
<1> DEFINE n == Cardinality(Waiting)'
           b == MaxParallelWorkers * MaxEvidenceItems
           e == evidence'
           l == EvidenceLeft'
<1>1. n \in Nat /\ n <= MaxParallelWorkers /\ e \in Nat
  <2>1. Len(tasks') \in Nat /\ Indices' = 1..Len(tasks')
    BY SeqShape DEF TypeOK, Indices
  <2>2. IsFiniteSet(Indices')
    BY <2>1, FS_Interval
  <2>3. wave' \in SUBSET Indices' /\ Waiting' \in SUBSET wave' /\ e \in Nat
    BY DEF TypeOK, Waiting
  <2>4. IsFiniteSet(wave')
    BY <2>2, <2>3, FS_Subset
  <2>5. Cardinality(wave') <= MaxParallelWorkers
    BY DEF Placed
  <2>6. IsFiniteSet(Waiting') /\ Cardinality(Waiting') <= Cardinality(wave')
        /\ Cardinality(Waiting') \in Nat /\ Cardinality(wave') \in Nat
    BY <2>3, <2>4, FS_Subset, FS_CardinalityType
  <2> QED BY <2>3, <2>5, <2>6, Nobody
<1>2. MaxParallelWorkers \in Nat /\ 1 <= MaxParallelWorkers /\ MaxEvidenceItems \in Nat
  BY Nobody, BudgetAssumption
<1>3. l = Left(MaxEvidenceItems, e)
  BY DEF EvidenceLeft
<1>4. Total(room', Indices') = 0
  BY TotalNought
<1> HIDE DEF n, e, l
<1>5. e + n * l <= b
  BY <1>1, <1>2, <1>3, OneWave DEF e
<1>6. e + 0 + n * l <= b
  <2>1. n * l \in Nat
    <3>1. l \in Nat
      BY <1>1, <1>2, <1>3, LeftIs
    <3> QED BY <1>1, <3>1
  <2> HIDE DEF b
  <2> QED BY <1>1, <1>5, <2>1
<1> QED BY <1>4, <1>6 DEF Stored, n, e, l, b

LEMMA StoredInit ==
  ASSUME Init PROVE Stored
<1>1. wave = {} /\ evidence = 0 /\ \A i \in Indices : room[i] = 0
  BY DEF Init
<1>2. Waiting = {}
  BY <1>1 DEF Waiting
<1>3. Total(room, Indices) = 0 /\ Cardinality(Waiting) = 0
  BY <1>1, <1>2, TotalNought, FS_EmptySet
<1>4. EvidenceLeft \in Nat /\ MaxParallelWorkers * MaxEvidenceItems \in Nat
  BY TypesInit, Rest, BudgetAssumption, Nobody
<1> DEFINE b == MaxParallelWorkers * MaxEvidenceItems
<1> HIDE DEF b
<1>5. 0 + 0 + 0 * EvidenceLeft <= b
  BY <1>4 DEF b
<1> QED BY <1>1, <1>3, <1>5 DEF Stored, b

LEMMA StoredNext ==
  ASSUME TypeOK, Placed, Noted, Stored, [Next]_vars PROVE Stored'
<1>0. TypeOK' /\ Placed' /\ evidence <= MaxParallelWorkers * MaxEvidenceItems
  BY TypesNext, PlacedNext, EvidenceBounded
<1>a. ASSUME UNCHANGED <<tasks, room, evidence>>, stage \notin {"run", "toolDrain"} \/ wave = {} \/ WaveIsOver
      PROVE  Stored'
  <2>1. \A i \in Indices' : room'[i] = 0
    BY <1>a, NoRoom DEF Indices
  <2> QED BY <1>0, <1>a, <2>1, StoredAfresh
<1>1. CASE SkipTask \/ JoinWave \/ StartWave \/ AccountWave \/ DrainTask \/ DrainedTaskEnds \/ DrainEnds
           \/ StopVerifying \/ CallVerifier \/ Finish \/ VerifierFails \/ VerifierPasses
  <2>1. UNCHANGED <<tasks, room, evidence>>
    BY <1>1 DEF SkipTask, JoinWave, StartWave, AccountWave, DrainTask, DrainedTaskEnds, DrainEnds,
          StopVerifying, CallVerifier, Finish, VerifierFails, VerifierPasses, workVars
  <2>2. stage \notin {"run", "toolDrain"} \/ wave = {} \/ WaveIsOver
    BY <1>1 DEF SkipTask, SkipsNow, JoinWave, StartWave, AccountWave, DrainTask, DrainedTaskEnds, DrainEnds,
          StopVerifying, CallVerifier, TasksAreOver, Finish, VerifierFails, VerifierPasses
  <2> QED BY <1>a, <2>1, <2>2
<1>2. CASE VerifierAsksForMore
  <2>1. /\ \A i \in Indices : room'[i] = room[i]
        /\ \A i \in Indices' \ Indices : room'[i] = 0
    BY <1>2, MoreTasks
  <2>2. evidence' = evidence /\ stage = "verifying"
    BY <1>2 DEF VerifierAsksForMore
  <2>3. \A i \in Indices' : room'[i] = 0
    BY <2>1, <2>2, NoRoom
  <2> QED BY <1>0, <2>2, <2>3, StoredAfresh
<1>3. CASE TimePasses \/ UNCHANGED vars
  BY <1>3 DEF TimePasses, vars, loopVars, workVars, Stored, Waiting, EvidenceLeft, Left, Indices
<1>4. ASSUME NEW i \in Indices, Worker(i) PROVE Stored'
  <2> DEFINE n == Cardinality(Waiting)
             r == Total(room, Indices)
             b == MaxParallelWorkers * MaxEvidenceItems
             l == EvidenceLeft
  <2>0. UNCHANGED <<tasks, wave>> /\ Indices' = Indices
    BY <1>4 DEF Worker, WorkerAnswers, WorkerThrows, ReadTrace, PersistResult, loopVars, Indices
  <2>1. /\ n \in Nat /\ r \in Nat /\ l \in Nat /\ b \in Nat /\ evidence \in Nat
        /\ evidence + r + n * l <= b /\ IsFiniteSet(Waiting)
    BY StoredTypes DEF Stored
  <2>2. status[i] \in {"running", "answered", "persisting"}
    BY <1>4 DEF Worker, WorkerAnswers, WorkerThrows, ReadTrace, PersistResult
  <2>3. i \in wave
    BY <2>2, WorkerOfWave
  <2>4. PICK s : status' = [status EXCEPT ![i] = s]
    BY <1>4 DEF Worker, WorkerAnswers, WorkerThrows, ReadTrace, PersistResult
  <2>5. /\ \A k \in Indices \ {i} : status'[k] = status[k]
        /\ status'[i] = s /\ wave \subseteq Indices
    BY <2>4 DEF TypeOK
  <2>6. Waiting' = IF s \in {"pending", "running", "answered"} THEN Waiting \cup {i} ELSE Waiting \ {i}
    BY <2>0, <2>3, <2>5 DEF Waiting
  <2>7. CASE WorkerAnswers(i) \/ WorkerThrows(i)
    <3>1. UNCHANGED <<room, evidence>> /\ i \in Waiting
      BY <2>3, <2>7 DEF WorkerAnswers, WorkerThrows, Waiting
    <3>2. Waiting' \in SUBSET Waiting
      BY <2>6, <3>1
    <3>3. Cardinality(Waiting') <= n /\ Cardinality(Waiting') \in Nat
      BY <2>1, <3>2, FS_Subset, FS_CardinalityType
    <3>4. Total(room', Indices') = r /\ EvidenceLeft' = l /\ evidence' = evidence
      BY <2>0, <3>1 DEF EvidenceLeft, Left
    <3> DEFINE m == Cardinality(Waiting')
    <3> HIDE DEF n, r, b, l, m
    <3>5. m * l <= n * l /\ m * l \in Nat /\ n * l \in Nat
      BY <2>1, <3>3 DEF m
    <3>6. evidence + r + m * l <= b
      BY <2>1, <3>5
    <3> QED BY <3>4, <3>6 DEF Stored, m, b
  <2>8. CASE ReadTrace(i)
    <3>1. evidence' = evidence /\ EvidenceLeft' = l /\ s = "persisting" /\ i \in Waiting
          /\ room' = [room EXCEPT ![i] = l] /\ room[i] = 0
      <4>1. status[i] = "answered" /\ status' = [status EXCEPT ![i] = "persisting"]
            /\ room' = [room EXCEPT ![i] = l] /\ evidence' = evidence
        BY <2>8 DEF ReadTrace
      <4>2. s = "persisting"
        BY <2>5, <4>1 DEF TypeOK
      <4> QED BY <2>3, <4>1, <4>2 DEF Waiting, Noted, EvidenceLeft, Left
    <3>2. Waiting' = Waiting \ {i}
      BY <2>6, <3>1
    <3>3. Cardinality(Waiting') = n - 1 /\ n - 1 \in Nat
      <4>1. Cardinality(Waiting') = n - 1
        BY <2>1, <3>1, <3>2, FS_RemoveElement
      <4>2. Cardinality(Waiting') \in Nat
        BY <2>1, <3>2, FS_RemoveElement, FS_CardinalityType
      <4> QED BY <4>1, <4>2
    <3>4. Total(room', Indices) = r + l
      <4>1. /\ \A k \in Indices : room[k] \in Nat /\ room'[k] \in Nat
            /\ \A k \in Indices \ {i} : room'[k] = room[k]
            /\ room'[i] = l
        BY <1>0, <2>0, <3>1 DEF TypeOK
      <4>2. Total(room', Indices) + room[i] = Total(room, Indices) + room'[i]
        <5>1. IsFiniteSet(Indices)
          BY Finite
        <5>2. \A k \in Indices : room[k] \in Nat /\ room'[k] \in Nat
          BY <4>1
        <5>3. \A k \in Indices \ {i} : room'[k] = room[k]
          BY <4>1
        <5> QED BY <5>1, <5>2, <5>3, TotalChange
      <4>3. Total(room', Indices) \in Nat
        BY <4>1, Finite, TotalNat
      <4> HIDE DEF r, l
      <4> QED BY <2>1, <3>1, <4>1, <4>2, <4>3 DEF r
    <3> HIDE DEF n, r, b, l
    <3>5. n * l = (n - 1) * l + l /\ (n - 1) * l \in Nat /\ n * l \in Nat
      BY <2>1, <3>3
    <3>6. evidence + (r + l) + (n - 1) * l <= b
      BY <2>1, <3>5
    <3> QED BY <2>0, <3>1, <3>3, <3>4, <3>6 DEF Stored, b
  <2>9. CASE PersistResult(i)
    <3>1. PICK items \in 0..MaxEvidence : evidence' = evidence + Min({items, room[i]})
      BY <2>9 DEF PersistResult
    <3> DEFINE x == Min({items, room[i]})
               z == room[i]
    <3>2. x \in Nat /\ x <= z /\ z \in Nat
      <4>1. items \in Nat /\ room[i] \in Nat
        BY BudgetAssumption DEF TypeOK
      <4> QED BY <4>1, MinIs
    <3>3. room' = [room EXCEPT ![i] = 0] /\ i \notin Waiting /\ s \in {"succeeded", "failed"}
      <4>1. PICK verdict \in {"succeeded", "failed"} : status' = [status EXCEPT ![i] = verdict]
        BY <2>9 DEF PersistResult
      <4>2. s = verdict
        BY <2>5, <4>1 DEF TypeOK
      <4> QED BY <2>9, <4>2 DEF PersistResult, Waiting
    <3>4. Waiting' = Waiting
      BY <2>6, <3>3
    <3>5. Total(room', Indices) + z = r /\ Total(room', Indices) \in Nat
      <4>1. /\ \A k \in Indices : room[k] \in Nat /\ room'[k] \in Nat
            /\ \A k \in Indices \ {i} : room'[k] = room[k]
            /\ room'[i] = 0
        BY <1>0, <2>0, <3>3 DEF TypeOK
      <4>2. Total(room', Indices) + room[i] = r + room'[i]
        BY <4>1, Finite, TotalChange
      <4>3. Total(room', Indices) \in Nat
        BY <4>1, Finite, TotalNat
      <4> HIDE DEF r
      <4> QED BY <2>1, <4>1, <4>2, <4>3
    <3>6. EvidenceLeft' \in Nat /\ EvidenceLeft' <= l
      <4>1. \A e, k, m \in Nat : Left(m, e + k) \in Nat /\ Left(m, e + k) <= Left(m, e)
        BY DEF Left
      <4>2. EvidenceLeft' = Left(MaxEvidenceItems, evidence + x)
        BY <3>1 DEF EvidenceLeft
      <4> HIDE DEF x
      <4> QED BY <2>1, <3>2, <4>1, <4>2, BudgetAssumption DEF EvidenceLeft
    <3> DEFINE h == EvidenceLeft'
               r2 == Total(room', Indices)
    <3> HIDE DEF n, r, b, l, x, z, h, r2
    <3>7. n * h <= n * l /\ n * h \in Nat /\ n * l \in Nat
      <4>1. \A a, c, d \in Nat : c <= d => a * c <= a * d /\ a * c \in Nat /\ a * d \in Nat
        OBVIOUS
      <4> QED BY <2>1, <3>6, <4>1 DEF h
    <3>8. evidence + x + r2 + n * h <= b
      BY <2>1, <3>2, <3>5, <3>7 DEF r2
    <3> QED BY <2>0, <3>1, <3>4, <3>8 DEF Stored, b, n, h, r2, x
  <2> QED BY <1>4, <2>7, <2>8, <2>9 DEF Worker
<1> QED BY <1>1, <1>2, <1>3, <1>4 DEF Next, Executor, Verifier

-----------------------------------------------------------------------------
(* The theorems.                                                            *)

Inv ==
  /\ TypeOK /\ Placed /\ Drained /\ Noted /\ Counted /\ Stored
  /\ RequiredFailureFailsRun /\ SkipsAreExplained

(* The parts are inductive together. *)
THEOREM Invariant == Spec => []Inv
<1>1. ASSUME Init PROVE Inv
  <2>1. Drained /\ RequiredFailureFailsRun /\ SkipsAreExplained
    BY <1>1 DEF Init, Drained, RequiredFailureFailsRun, SkipsAreExplained
  <2>2. Counted
    <3>1. wave = {} /\ toolCallCount = 0 /\ cursor = 0
      BY <1>1 DEF Init
    <3>2. \A x, y, w \in Nat : 0 + x * 0 <= w * y + x * 0
      OBVIOUS
    <3> QED BY <3>1, <3>2, Nobody, BudgetAssumption DEF Counted
  <2> QED BY <1>1, <2>1, <2>2, TypesInit, PlacedInit, NotedInit, StoredInit DEF Inv
<1>2. Inv /\ [Next]_vars => Inv'
  BY TypesNext, PlacedNext, DrainedNext, NotedNext, CountedNext, StoredNext, EndedNext, SkipsNext DEF Inv
<1> QED BY <1>1, <1>2, PTL DEF Spec

(* No task is lost: when the verifier is asked, and when the run is done,   *)
(* every task has succeeded, failed or been skipped.                        *)
THEOREM TasksSettled == Spec => []EveryTaskSettled
<1>1. ASSUME Inv PROVE EveryTaskSettled
  <2>1. SUFFICES ASSUME stage \in {"verifying", "done"}, NEW i \in Indices PROVE status[i] \in Settled
    BY DEF EveryTaskSettled
  <2>2. wave = {} /\ cursor = Len(tasks)
    BY <1>1, <2>1 DEF Inv, Placed
  <2> QED BY <1>1, <2>2 DEF Inv, Placed, Indices
<1> QED BY <1>1, Invariant, PTL

(* Whatever the members of a wave know of each other, both budgets are      *)
(* overrun by one wave's worth at most.                                     *)
THEOREM OverrunHolds == Spec => []BudgetOverrunBounded
<1>1. ASSUME Inv PROVE BudgetOverrunBounded
  <2>1. TypeOK /\ Placed /\ Stored /\ Counted
    BY <1>1 DEF Inv
  <2>2. evidence <= MaxParallelWorkers * MaxEvidenceItems
    BY <2>1, EvidenceBounded
  <2>3. toolCallCount <= MaxParallelWorkers * MaxToolCalls + ExtraCalls * cursor
    <3> DEFINE b == MaxParallelWorkers * MaxToolCalls + ExtraCalls * cursor
               x == ExtraCalls * Cardinality(wave)
    <3>1. x \in Nat /\ b \in Nat /\ toolCallCount \in Nat /\ toolCallCount + x <= b
      <4>1. ExtraCalls \in Nat /\ MaxToolCalls \in Nat /\ MaxParallelWorkers \in Nat
        BY BudgetAssumption
      <4>2. Cardinality(wave) \in Nat /\ cursor \in Nat /\ toolCallCount \in Nat
        BY <2>1, Finite DEF TypeOK
      <4> QED BY <2>1, <4>1, <4>2 DEF Counted
    <3> HIDE DEF b, x
    <3>2. toolCallCount <= b
      BY <3>1
    <3> QED BY <3>2 DEF b
  <2> QED BY <2>1, <2>2, <2>3 DEF BudgetOverrunBounded
<1> QED BY <1>1, Invariant, PTL

(* A required task that failed fails the run, and nothing else does.        *)
THEOREM FailuresTold == Spec => []RequiredFailureFailsRun
<1>1. Inv => RequiredFailureFailsRun
  BY DEF Inv
<1> QED BY <1>1, Invariant, PTL

(* No task is skipped without a cause. *)
THEOREM SkipsTold == Spec => []SkipsAreExplained
<1>1. Inv => SkipsAreExplained
  BY DEF Inv
<1> QED BY <1>1, Invariant, PTL

=============================================================================
