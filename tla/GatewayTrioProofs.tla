-------------------------- MODULE GatewayTrioProofs --------------------------
(* Theorems about GatewayTrio, for any backlog, run lists, limits and       *)
(* faults.                                                                  *)
EXTENDS GatewayTrio, TLAPS

InEntry == {"inner", "record", "decide", "zero", "mark", "leave"} \cup Steps
Judging == {"record", "decide", "zero"}
Kinds   == {"auth", "retry", "zero", "fatal", "skipped", "tests", "read"}
Rows    == [status : Open \cup Terminal, reason : Reasons]
Results == [kind : Kinds, error : Reasons, guard : {"unset", "yes", "no"}, row : Rows]
Labels  == {"idle", "start", "head", "select", "next", "cycle_end", "finish", "final"} \cup InEntry
Locals  ==
  [pc : Labels,
   task : Tasks \cup {None}, todo : SUBSET Tasks, active : Tasks \cup {None}, cycle : Nat,
   abort : BOOLEAN, tried : BOOLEAN, any : BOOLEAN,
   outcome : [kind : Kinds \cup {None}, step : Steps \cup {None},
              error : Reasons, guard : {"unset", "yes", "no"}],
   end : {None, "cancelled", "completed", "partial"}]

(* The locals of run(), and what holds of them from the label alone: inside *)
(* an entry there is a task, a result is judged after a step has returned   *)
(* it, and only an entry that has tried something is past its first look.   *)
LocalsOK ==
  /\ run \in Locals
  /\ run.pc \in InEntry => run.task \in Tasks
  /\ run.pc \in Judging => run.outcome.step \in Steps
  /\ run.pc = "final" => run.end # None
  /\ run.pc \in Steps \cup Judging \cup {"mark"} => run.tried
  /\ opts \in [list : SUBSET Tasks, limit : Nat]

Types == TypeOK /\ LocalsOK

-----------------------------------------------------------------------------
(* Types of what the operators return. *)

LEMMA ProgressTypes ==
  /\ NoProgress \in Progress /\ Pending \in Progress /\ Nothing \in [Tasks -> Progress]
  /\ \A p \in Progress : EntryProgress(p) \in Progress
<1>1. NoProgress \in Progress
  BY DEF NoProgress, Progress, Reasons, None
<1>2. Pending \in Progress
  BY <1>1 DEF Pending, Progress
<1>3. \A p \in Progress : [p EXCEPT !.status = "pending", !.error = None] \in Progress
  BY DEF Progress, Reasons, None
<1> QED BY <1>1, <1>2, <1>3 DEF Nothing, EntryProgress

(* Changing one field of a record at a time. *)
LEMMA ProgressUpdates ==
  ASSUME NEW p \in Progress
  PROVE  /\ \A x \in {"absent", "pending", "completed", "failed", "skipped"} :
              [p EXCEPT !.status = x] \in Progress
         /\ \A x \in Nat : [p EXCEPT !.attempts = x] \in Progress
         /\ \A x \in Reasons : [p EXCEPT !.error = x] \in Progress
         /\ \A x \in {"unset", "yes", "no"} : [p EXCEPT !.guard = x] \in Progress
         /\ p.attempts \in Nat /\ p.error \in Reasons
         /\ None \in Reasons /\ "soft" \in Reasons
BY DEF Progress, Reasons

LEMMA LocalsUpdates ==
  ASSUME NEW r \in Locals
  PROVE  /\ \A x \in Labels : [r EXCEPT !.pc = x] \in Locals
         /\ \A x \in Tasks \cup {None} : [r EXCEPT !.task = x] \in Locals
         /\ \A x \in SUBSET Tasks : [r EXCEPT !.todo = x] \in Locals
         /\ \A x \in Tasks \cup {None} : [r EXCEPT !.active = x] \in Locals
         /\ \A x \in Nat : [r EXCEPT !.cycle = x] \in Locals
         /\ \A x \in BOOLEAN : [r EXCEPT !.abort = x] \in Locals
         /\ \A x \in BOOLEAN : [r EXCEPT !.tried = x] \in Locals
         /\ \A x \in BOOLEAN : [r EXCEPT !.any = x] \in Locals
         /\ [r EXCEPT !.outcome = NoOutcome] \in Locals
         /\ r.todo \in SUBSET Tasks
<1>1. [r EXCEPT !.outcome = NoOutcome] \in Locals
  BY DEF Locals, NoOutcome, Reasons
<1> QED BY <1>1 DEF Locals

LEMMA LabelTypes ==
  /\ {"idle", "start", "head", "select", "next", "cycle_end", "finish", "final"} \subseteq Labels
  /\ {"inner", "record", "decide", "zero", "mark", "leave"} \cup Steps \subseteq Labels
  /\ Labels = {"idle", "start", "head", "select", "next", "inner", "record", "decide", "zero", "mark", "leave",
               "cycle_end", "finish", "final"} \cup Steps
  /\ Idle \in Locals /\ None \notin Steps /\ None \notin Tasks
<1>1. Idle \in Locals
  BY DEF Idle, Locals, NoOutcome, Labels, Reasons
<1> QED BY <1>1, TrioAssumption DEF Labels, InEntry, Steps, None

(* What is left to show of a step that keeps the types. *)
LEMMA TypesFrom ==
  ASSUME Types, opts' = opts,
         row' \in [Tasks -> Rows],
         job' \in {None, "running", "completed", "partial", "failed", "cancelled"},
         progress' \in [Tasks -> Progress],
         disk' \in [tasks : [Tasks -> Progress], cycle : Nat],
         late' \in SUBSET (Tasks \X Steps), overwritten' \in SUBSET Tasks,
         workRuns' \in [Tasks -> Nat],
         budget' \in [setbacks : 0 .. Setbacks, faults : 0 .. Faults],
         run' \in Locals,
         run'.pc \in InEntry => run'.task \in Tasks,
         run'.pc \in Judging => run'.outcome.step \in Steps,
         run'.pc = "final" => run'.end # None,
         run'.pc \in Steps \cup Judging \cup {"mark"} => run'.tried
  PROVE  Types'
<1>1. /\ run'.task \in Tasks \cup {None} /\ run'.active \in Tasks \cup {None}
      /\ run'.todo \subseteq Tasks /\ run'.pc \in Labels
  BY DEF Locals
<1> QED BY <1>1, LabelTypes DEF Types, TypeOK, LocalsOK, Rows

LEMMA ReopenedType ==
  ASSUME Types, NEW t \in Tasks, NEW warm
  PROVE  Reopened(t, warm) \in Progress
<1> DEFINE p == progress[t]
<1>1. p \in Progress
  BY DEF Types, TypeOK
<1> HIDE DEF p
<1>2. /\ [p EXCEPT !.status = "completed"] \in Progress
      /\ [p EXCEPT !.status = "skipped", !.error = "soft"] \in Progress
      /\ [p EXCEPT !.status = "failed", !.error = IF @ = None THEN "soft" ELSE @] \in Progress
      /\ [p EXCEPT !.status = "pending", !.error = None] \in Progress
  BY <1>1 DEF Progress, Reasons, None
<1> QED BY <1>1, <1>2 DEF Reopened, p

LEMMA ResultTypes ==
  ASSUME Types, NEW t \in Tasks, NEW s \in Steps
  PROVE  /\ BadResults(t, s) \subseteq Results /\ GoodResults(t, s) \subseteq Results
         /\ Result("retry", "soft", "unset", Here(t)) \subseteq Results
<1> DEFINE W == WorkSuccess \cup ReviewSuccess \cup QaSuccess \cup Here(t)
               \cup {ToWork, FailedAs("soft"), FailedAs("fatal")}
<1>1. W \subseteq Rows
  BY DEF W, Types, TypeOK, WorkSuccess, ReviewSuccess, QaSuccess, Here, ToWork, FailedAs, As,
         Rows, Open, Terminal, Reasons, None
<1>2. Advances(s) \subseteq W
  BY DEF Advances, Steps, W
<1> HIDE DEF W
<1>3. ASSUME NEW k \in Kinds, NEW e \in Reasons, NEW g \in {"unset", "yes", "no"},
             NEW R \in SUBSET W
      PROVE  Result(k, e, g, R) \subseteq Results
  BY <1>1, <1>3 DEF Result, Results
<1>4. /\ Here(t) \in SUBSET W /\ Here(t) \cup Advances(s) \in SUBSET W
      /\ Here(t) \cup {FailedAs("fatal")} \in SUBSET W /\ {FailedAs("soft")} \in SUBSET W
      /\ Here(t) \cup {FailedAs("soft")} \in SUBSET W
      /\ {ToWork, FailedAs("soft")} \in SUBSET W /\ {FailedAs("fatal")} \in SUBSET W
      /\ {ToWork} \in SUBSET W /\ Advances(s) \in SUBSET W
  BY <1>2 DEF W
<1>5. Kinds = {"auth", "retry", "zero", "fatal", "skipped", "tests", "read"}
      /\ {None, "soft", "fatal", "zero"} = Reasons
  BY DEF Kinds, Reasons
<1>6. CommonResults(t, Advances(s)) \subseteq Results
  BY <1>3, <1>4, <1>5 DEF CommonResults
<1>7. OwnResults(t, s) \subseteq Results /\ Skipped(t) \subseteq Results
  BY <1>3, <1>4, <1>5 DEF OwnResults, Skipped, Steps
<1> QED BY <1>3, <1>4, <1>5, <1>6, <1>7 DEF BadResults, GoodResults

LEMMA RecordedType ==
  ASSUME NEW p \in Progress, NEW s \in Steps, NEW r,
         r.error \in Reasons, r.guard \in {"unset", "yes", "no"}
  PROVE  Recorded(p, s, r) \in Progress
<1>1. p.zero \in [Steps -> 0..2] /\ p.tests \in 0..2
  BY DEF Progress
<1>2. \A n \in 0..2 : UpTo2(n) \in 0..2
  BY DEF UpTo2
<1>3. [p.zero EXCEPT ![s] = IF r.kind = "zero" THEN UpTo2(@) ELSE @] \in [Steps -> 0..2]
  BY <1>1, <1>2
<1>4. (IF r.kind = "tests" THEN UpTo2(p.tests) ELSE p.tests) \in 0..2
  BY <1>1, <1>2
<1>5. r.error \in Reasons /\ (IF r.guard = "unset" THEN p.guard ELSE r.guard) \in {"unset", "yes", "no"}
  BY DEF Progress
<1> QED BY <1>3, <1>4, <1>5 DEF Recorded, Progress

-----------------------------------------------------------------------------
(* Types over a step. *)

LEMMA SavedTypes ==
  ASSUME Types, NEW p \in [Tasks -> Progress], Saved(p)
  PROVE  progress' \in [Tasks -> Progress] /\ disk' \in [tasks : [Tasks -> Progress], cycle : Nat]
BY DEF Types, TypeOK, Saved, Written

LEMMA TypesInit == Init => Types
<1> SUFFICES ASSUME Init PROVE Types
  OBVIOUS
<1>1. TypeOK
  BY ProgressTypes, TrioAssumption
     DEF Init, TypeOK, Idle, NoOutcome, ToWork, Open, Terminal, Reasons, None, Steps
<1>2. LocalsOK
  <2>1. run \in Locals /\ run.pc = "idle"
    BY LabelTypes DEF Init, Idle
  <2>2. opts \in [list : SUBSET Tasks, limit : Nat]
    BY TrioAssumption DEF Init
  <2> QED BY <2>1, <2>2 DEF LocalsOK, InEntry, Steps, Judging
<1> QED BY <1>1, <1>2 DEF Types

LEMMA TypesLoop == Types /\ Loop => Types'
<1> SUFFICES ASSUME Types, Loop PROVE Types'
  OBVIOUS
<1>a. /\ row \in [Tasks -> Rows] /\ progress \in [Tasks -> Progress]
      /\ disk \in [tasks : [Tasks -> Progress], cycle : Nat] /\ run \in Locals
      /\ job \in {None, "running", "completed", "partial", "failed", "cancelled"}
      /\ late \in SUBSET (Tasks \X Steps) /\ overwritten \in SUBSET Tasks
      /\ workRuns \in [Tasks -> Nat]
      /\ budget \in [setbacks : 0 .. Setbacks, faults : 0 .. Faults]
  BY DEF Types, TypeOK, LocalsOK, Rows
<1>b. /\ run.pc \in InEntry => T \in Tasks
      /\ run.pc \in Judging => run.outcome.step \in Steps
      /\ run.pc \in Steps \cup Judging \cup {"mark"} => run.tried
  BY DEF Types, LocalsOK, T
<1>c. \A l \in Labels : Goto(l) => /\ run' \in Locals /\ run'.pc = l
                                  /\ run'.task = run.task /\ run'.tried = run.tried
                                  /\ run'.outcome = run.outcome
  BY <1>a, LocalsUpdates DEF Goto, Locals
<1>e. ASSUME NEW l \in Labels, Leaves(l)
      PROVE  /\ run' \in Locals /\ run'.pc = l
             /\ run'.task = run.task /\ run'.tried = run.tried
  <2>1. [[run EXCEPT !.pc = l] EXCEPT !.outcome = NoOutcome] \in Locals
    BY <1>a, LocalsUpdates
  <2> QED BY <1>a, <1>e, <2>1 DEF Leaves, Locals
<1>d. \A b \in BOOLEAN : Stop(b) => run' \in Locals /\ run'.pc = "finish"
  <2> SUFFICES ASSUME NEW b \in BOOLEAN, Stop(b) PROVE run' \in Locals /\ run'.pc = "finish"
    OBVIOUS
  <2>1. run' = [[run EXCEPT !.pc = "finish"] EXCEPT !.abort = b]
    BY DEF Stop
  <2>2. [run EXCEPT !.pc = "finish"] \in Locals
    BY <1>a, LabelTypes, LocalsUpdates
  <2>3. run' \in Locals
    BY <2>1, <2>2, LocalsUpdates
  <2> QED BY <1>a, <2>1, <2>3 DEF Locals
<1> USE <1>a, LabelTypes
<1>1. CASE Seed
  <2>1. [t \in Tasks |-> IF t \in opts.list /\ progress[t].status = "absent"
                         THEN Pending ELSE progress[t]] \in [Tasks -> Progress]
    BY ProgressTypes
  <2>2. progress' \in [Tasks -> Progress] /\ disk' \in [tasks : [Tasks -> Progress], cycle : Nat]
    BY <1>1, <2>1, SavedTypes DEF Seed
  <2>3. run' \in Locals /\ run'.pc = "head"
    BY <1>1, <1>c DEF Seed
  <2> QED BY <1>1, <2>2, <2>3, TypesFrom DEF Seed, InEntry, Steps, Judging
<1>2. CASE Head
  <2>1. ASSUME UNCHANGED <<row, progress, disk>>, NEW b \in BOOLEAN, Stop(b) PROVE Types'
    <3>1. run' \in Locals /\ run'.pc = "finish"
      BY <1>d, <2>1
    <3> QED BY <1>2, <2>1, <3>1, TypesFrom DEF Head, InEntry, Steps, Judging
  <2>2. ASSUME NEW warm \in SUBSET Tasks,
               row' = [t \in Tasks |-> IF row[t].status = "failed" /\ Reopens(t, t \in warm)
                                        THEN ToWork ELSE row[t]],
               Saved([t \in Tasks |-> Reopened(t, t \in warm)]), Goto("select")
        PROVE  Types'
    <3>1. progress' \in [Tasks -> Progress] /\ disk' \in [tasks : [Tasks -> Progress], cycle : Nat]
      BY <2>2, SavedTypes, ReopenedType
    <3>2. row' \in [Tasks -> Rows]
      BY <2>2 DEF ToWork, Rows, Open, Reasons
    <3>3. run' \in Locals /\ run'.pc = "select"
      BY <2>2, <1>c
    <3> QED BY <1>2, <3>1, <3>2, <3>3, TypesFrom DEF Head, InEntry, Steps, Judging
  <2> QED BY <1>2, <2>1, <2>2 DEF Head
<1>3. CASE Select
  <2>1. ASSUME NEW a \in Tasks
        PROVE  [progress EXCEPT ![a].status = "skipped", ![a].error = "soft"] \in [Tasks -> Progress]
    <3>1. [[progress[a] EXCEPT !.status = "skipped"] EXCEPT !.error = "soft"] \in Progress
      BY ProgressUpdates
    <3> QED BY <3>1
  <2>2. run.active = None \/ run.active \in Tasks
    BY DEF Locals
  <2>3. PICK p \in [Tasks -> Progress] : Saved(p)
    BY <1>3, <2>1, <2>2 DEF Select
  <2>4. progress' \in [Tasks -> Progress] /\ disk' \in [tasks : [Tasks -> Progress], cycle : Nat]
    BY <2>3, SavedTypes
  <2>5. PICK todo \in SUBSET Tasks, a \in Tasks \cup {None} :
          run' = [run EXCEPT !.pc = "next", !.todo = todo, !.any = FALSE, !.active = a]
    BY <1>3, <2>2 DEF Select, Selected
  <2>6. run' \in Locals /\ run'.pc = "next"
    <3>1. [run EXCEPT !.pc = "next"] \in Locals
      BY LocalsUpdates
    <3>2. [[run EXCEPT !.pc = "next"] EXCEPT !.todo = todo] \in Locals
      BY <3>1, LocalsUpdates
    <3>3. [[[run EXCEPT !.pc = "next"] EXCEPT !.todo = todo] EXCEPT !.any = FALSE] \in Locals
      BY <3>2, LocalsUpdates
    <3>4. [[[[run EXCEPT !.pc = "next"] EXCEPT !.todo = todo] EXCEPT !.any = FALSE]
              EXCEPT !.active = a] \in Locals
      BY <3>3, LocalsUpdates
    <3> QED BY <2>5, <3>4 DEF Locals
  <2> QED BY <1>3, <2>4, <2>6, TypesFrom DEF Select, InEntry, Steps, Judging
<1>4. ASSUME NEW t \in Tasks, Enter(t) PROVE Types'
  <2>1. EntryProgress(progress[t]) \in Progress
    BY ProgressTypes
  <2>2. progress' \in [Tasks -> Progress]
    <3> DEFINE p == EntryProgress(progress[t])
    <3>1. [[[p EXCEPT !.status = "pending"] EXCEPT !.error = None] EXCEPT !.guard = "unset"] \in Progress
      BY <2>1, ProgressUpdates
    <3>2. \E q \in Progress : progress' = [progress EXCEPT ![t] = q]
      BY <1>4, <2>1, <3>1 DEF Enter
    <3> QED BY <3>2
  <2>3. /\ run' \in Locals /\ run'.pc \in {"next", "inner"}
        /\ run'.pc = "inner" => run'.task = t
    <3>1. PICK a \in Tasks \cup {None} :
            \/ run' = [run EXCEPT !.pc = "inner", !.task = t, !.todo = run.todo \ {t},
                                 !.active = a, !.tried = FALSE]
            \/ run' = [run EXCEPT !.todo = run.todo \ {t}, !.active = a]
      BY <1>4 DEF Enter
    <3>2. run.pc = "next" /\ run.todo \ {t} \in SUBSET Tasks
      BY <1>4, LocalsUpdates DEF Enter, At
    <3>3. [[run EXCEPT !.pc = "inner"] EXCEPT !.task = t] \in Locals
      BY LocalsUpdates
    <3>4. /\ [[[run EXCEPT !.pc = "inner"] EXCEPT !.task = t] EXCEPT !.todo = run.todo \ {t}] \in Locals
          /\ [run EXCEPT !.todo = run.todo \ {t}] \in Locals
      BY <3>2, <3>3, LocalsUpdates
    <3>5. /\ [[[[run EXCEPT !.pc = "inner"] EXCEPT !.task = t] EXCEPT !.todo = run.todo \ {t}]
                  EXCEPT !.active = a] \in Locals
          /\ [[run EXCEPT !.todo = run.todo \ {t}] EXCEPT !.active = a] \in Locals
      BY <3>4, LocalsUpdates
    <3>6. [[[[[run EXCEPT !.pc = "inner"] EXCEPT !.task = t] EXCEPT !.todo = run.todo \ {t}]
                  EXCEPT !.active = a] EXCEPT !.tried = FALSE] \in Locals
      BY <3>5, LocalsUpdates
    <3>7. CASE run' = [run EXCEPT !.pc = "inner", !.task = t, !.todo = run.todo \ {t},
                                  !.active = a, !.tried = FALSE]
      BY <3>6, <3>7 DEF Locals
    <3>8. CASE run' = [run EXCEPT !.todo = run.todo \ {t}, !.active = a]
      BY <3>2, <3>5, <3>8 DEF Locals
    <3> QED BY <3>1, <3>7, <3>8
  <2> QED BY <1>4, <2>2, <2>3, TypesFrom DEF Enter, InEntry, Steps, Judging
<1>5. CASE LeaveEntries
  <2>1. run' \in Locals /\ run'.pc \in {"finish", "cycle_end"}
    BY <1>5, <1>c, <1>d DEF LeaveEntries
  <2> QED BY <1>5, <2>1, TypesFrom DEF LeaveEntries, InEntry, Steps, Judging
<1>6. CASE InnerTerminal \/ StartReview \/ StartQa \/ IterationsSpent \/ StartWork
  <2>1. T \in Tasks /\ progress[T] \in Progress
    BY <1>6, <1>b DEF InnerTerminal, StartReview, StartQa, IterationsSpent, StartWork, At, InEntry
  <2>2. PICK p \in Progress : Saved([progress EXCEPT ![T] = p])
    <3>1. CASE InnerTerminal
      <4>1. /\ [[progress[T] EXCEPT !.status = "completed"] EXCEPT !.error = "soft"] \in Progress
            /\ [[progress[T] EXCEPT !.status = "skipped"] EXCEPT !.error = "soft"] \in Progress
        <5>1. /\ [progress[T] EXCEPT !.status = "completed"] \in Progress
              /\ [progress[T] EXCEPT !.status = "skipped"] \in Progress
          BY <2>1, ProgressUpdates
        <5> QED BY <5>1, ProgressUpdates
      <4> QED BY <3>1, <4>1 DEF InnerTerminal, Settle
    <3>2. CASE StartReview \/ StartQa
      BY <3>2, <2>1 DEF StartReview, StartQa, StartStep
    <3>3. CASE IterationsSpent
      <4>1. [[progress[T] EXCEPT !.status = "failed"] EXCEPT !.error = "soft"] \in Progress
        BY <2>1, ProgressUpdates
      <4>2. [progress EXCEPT ![T].status = "failed", ![T].error = "soft"]
              = [progress EXCEPT ![T] = [[progress[T] EXCEPT !.status = "failed"] EXCEPT !.error = "soft"]]
        BY <2>1
      <4> QED BY <3>3, <4>1, <4>2 DEF IterationsSpent
    <3>4. CASE StartWork
      <4>0. progress[T].attempts \in Nat
        BY <2>1 DEF Progress
      <4>1. progress[T].attempts + 1 \in Nat
        BY <4>0
      <4>2. [[[progress[T] EXCEPT !.attempts = progress[T].attempts + 1] EXCEPT !.error = None]
               EXCEPT !.guard = "unset"] \in Progress
        BY <2>1, <4>1, ProgressUpdates
      <4> QED BY <3>4, <4>2 DEF StartWork, StartStep
    <3> QED BY <1>6, <3>1, <3>2, <3>3, <3>4
  <2>3. progress' \in [Tasks -> Progress] /\ disk' \in [tasks : [Tasks -> Progress], cycle : Nat]
    BY <2>2, SavedTypes
  <2>4. /\ run' \in Locals /\ run'.pc \in Steps \cup {"leave"} /\ run'.task = T
        /\ run'.pc \in Steps => run'.tried
    <3>1. \/ Leaves("leave")
          \/ \E l \in Steps \cup {"leave"} : run' = [run EXCEPT !.pc = l, !.tried = TRUE, !.any = TRUE]
      BY <1>6 DEF InnerTerminal, StartReview, StartQa, IterationsSpent, StartWork, StartStep,
                  Settle, Steps
    <3>2. ASSUME NEW l \in Steps \cup {"leave"},
                 run' = [run EXCEPT !.pc = l, !.tried = TRUE, !.any = TRUE]
          PROVE  run' \in Locals /\ run'.pc = l /\ run'.task = T /\ run'.tried
      <4>1. [run EXCEPT !.pc = l] \in Locals
        BY LocalsUpdates
      <4>2. [[run EXCEPT !.pc = l] EXCEPT !.tried = TRUE] \in Locals
        BY <4>1, LocalsUpdates
      <4>3. [[[run EXCEPT !.pc = l] EXCEPT !.tried = TRUE] EXCEPT !.any = TRUE] \in Locals
        BY <4>2, LocalsUpdates
      <4> QED BY <3>2, <4>3 DEF Locals, T
    <3>3. "leave" \notin Steps
      BY DEF Steps
    <3> QED BY <1>e, <3>1, <3>2, <3>3 DEF T
  <2>5. workRuns' \in [Tasks -> Nat] /\ job' \in {job, "running"}
    BY <1>6, <2>1 DEF InnerTerminal, StartReview, StartQa, IterationsSpent, StartWork, StartStep
  <2>6. UNCHANGED <<row, late, opts, overwritten, budget>>
    BY <1>6 DEF InnerTerminal, StartReview, StartQa, IterationsSpent, StartWork
  <2> QED BY <2>1, <2>3, <2>4, <2>5, <2>6, TypesFrom DEF Steps, Judging
<1>7. CASE ZeroTokens \/ Retry \/ GiveUp \/ SkipWork \/ ReadBack
  <2>1. T \in Tasks /\ P \in Progress /\ run.tried
    BY <1>7, <1>b DEF ZeroTokens, Retry, GiveUp, SkipWork, ReadBack, Outcome, At, InEntry, P, Judging
  <2>2. /\ \A e \in Reasons : Failed(e) \in Progress
        /\ [[P EXCEPT !.status = "skipped"] EXCEPT !.error = "soft"] \in Progress
        /\ [P EXCEPT !.status = "completed"] \in Progress
        /\ [P EXCEPT !.error = "soft"] \in Progress
    BY <2>1, ProgressUpdates DEF Failed
  <2>3. \/ UNCHANGED <<progress, disk>>
        \/ \E p \in Progress : Saved([progress EXCEPT ![T] = p])
    <3>1. {"zero", "fatal", "soft", P.error} \subseteq Reasons
      BY <2>1, ProgressUpdates DEF Reasons
    <3>2. CASE ZeroTokens \/ Retry \/ GiveUp \/ SkipWork
      BY <3>1, <3>2, <2>1, <2>2 DEF ZeroTokens, Retry, GiveUp, SkipWork, Settle
    <3>3. CASE ReadBack
      BY <3>1, <3>3, <2>1, <2>2 DEF ReadBack, Settle
    <3> QED BY <1>7, <3>2, <3>3
  <2>4. progress' \in [Tasks -> Progress] /\ disk' \in [tasks : [Tasks -> Progress], cycle : Nat]
    BY <2>3, SavedTypes
  <2>5. \E l \in {"leave", "inner", "mark"} : Leaves(l)
    BY <1>7 DEF ZeroTokens, Retry, GiveUp, SkipWork, ReadBack, Settle
  <2>6. row' = row
    BY <1>7 DEF ZeroTokens, Retry, GiveUp, SkipWork, ReadBack
  <2>7. UNCHANGED <<job, late, opts, workRuns, overwritten, budget>>
    BY <1>7 DEF ZeroTokens, Retry, GiveUp, SkipWork, ReadBack
  <2>8. /\ run' \in Locals /\ run'.pc \in {"leave", "inner", "mark"}
        /\ run'.task \in Tasks /\ run'.tried
    BY <1>e, <2>1, <2>5 DEF T
  <2> QED BY <2>4, <2>6, <2>7, <2>8, TypesFrom DEF Steps, Judging
<1>13. CASE Record
  <2>1. /\ T \in Tasks /\ P \in Progress /\ run.tried /\ run.outcome.step \in Steps
        /\ run.outcome.error \in Reasons /\ run.outcome.guard \in {"unset", "yes", "no"}
    BY <1>13, <1>b DEF Record, At, InEntry, P, Judging, Locals
  <2> DEFINE q == Recorded(P, run.outcome.step, run.outcome)
  <2>2. q \in Progress /\ [q EXCEPT !.status = "failed"] \in Progress
    <3>1. q \in Progress
      BY <2>1, RecordedType
    <3> QED BY <3>1, ProgressUpdates
  <2> HIDE DEF q
  <2>3. \/ Saved([progress EXCEPT ![T] = q]) /\ Goto("decide")
        \/ Saved([progress EXCEPT ![T] = [q EXCEPT !.status = "failed"]]) /\ Leaves("mark")
    BY <1>13 DEF Record, Settle, q
  <2>4. progress' \in [Tasks -> Progress] /\ disk' \in [tasks : [Tasks -> Progress], cycle : Nat]
    BY <2>2, <2>3, SavedTypes
  <2>5. /\ run' \in Locals /\ run'.pc \in {"decide", "mark"} /\ run'.task \in Tasks /\ run'.tried
        /\ run'.pc = "decide" => run'.outcome.step \in Steps
    BY <1>c, <1>e, <2>1, <2>3 DEF T
  <2> QED BY <1>13, <2>4, <2>5, TypesFrom DEF Record, Steps, Judging
<1>14. CASE PutBack
  <2>1. T \in Tasks /\ run.tried /\ run.outcome.step \in Steps
    BY <1>14, <1>b DEF PutBack, Outcome, At, InEntry, Judging
  <2>2. row' \in [Tasks -> Rows]
    BY <1>14, <2>1 DEF PutBack, As, Rows, Open, Reasons, Steps
  <2>3. /\ run' \in Locals /\ run'.pc = "zero" /\ run'.task \in Tasks /\ run'.tried
        /\ run'.outcome.step \in Steps
    BY <1>14, <1>c, <2>1 DEF PutBack, T
  <2> QED BY <1>14, <2>2, <2>3, TypesFrom DEF PutBack, Steps
<1>8. CASE Mark
  <2>1. T \in Tasks /\ P \in Progress
    BY <1>8, <1>b DEF Mark, At, InEntry, P
  <2>2. row' \in [Tasks -> Rows]
    BY <1>8, <2>1, ProgressUpdates DEF Mark, FailedAs, Rows, Terminal
  <2>3. run' \in Locals /\ run'.pc = "leave" /\ run'.task \in Tasks
    BY <1>8, <1>c, <2>1 DEF Mark, T
  <2> QED BY <1>8, <2>2, <2>3, TypesFrom DEF Mark, InEntry, Steps, Judging
<1>9. CASE LeaveEntry
  <2>1. T \in Tasks
    BY <1>9, <1>b DEF LeaveEntry, At, InEntry
  <2>2. run' \in Locals /\ run'.pc \in {"next", "cycle_end"}
    <3>1. ASSUME NEW l \in {"next", "cycle_end"}, NEW a \in Tasks \cup {None}
          PROVE  [[run EXCEPT !.pc = l] EXCEPT !.active = a] \in Locals
      <4>1. [run EXCEPT !.pc = l] \in Locals
        BY LocalsUpdates
      <4> QED BY <4>1, LocalsUpdates
    <3>2. \/ Goto("next")
          \/ \E l \in {"next", "cycle_end"}, a \in Tasks \cup {None} :
                run' = [run EXCEPT !.pc = l, !.active = a]
      BY <1>9, <2>1 DEF LeaveEntry
    <3>3. ASSUME NEW l \in {"next", "cycle_end"}, NEW a \in Tasks \cup {None},
                 run' = [run EXCEPT !.pc = l, !.active = a]
          PROVE  run' \in Locals /\ run'.pc = l
      <4>1. run' \in Locals
        BY <3>1, <3>3
      <4> QED BY <3>3, <4>1 DEF Locals
    <3> QED BY <1>c, <3>2, <3>3
  <2> QED BY <1>9, <2>2, TypesFrom DEF LeaveEntry, InEntry, Steps, Judging
<1>10. CASE CycleEnd
  <2>1. PICK c \in Nat, l \in {"head", "finish"} :
          /\ run' = [run EXCEPT !.pc = l, !.cycle = c, !.todo = {}, !.task = None,
                               !.tried = FALSE]
          /\ Written(progress, c)
    <3>1. (IF MaxCycles = 0 THEN 0 ELSE run.cycle + 1) \in Nat
      BY DEF Locals
    <3> QED BY <1>10, <3>1 DEF CycleEnd
  <2>2. [[[run EXCEPT !.pc = l] EXCEPT !.cycle = c] EXCEPT !.todo = {}] \in Locals
    BY LocalsUpdates
  <2>3. [[[[run EXCEPT !.pc = l] EXCEPT !.cycle = c] EXCEPT !.todo = {}] EXCEPT !.task = None] \in Locals
    BY <2>2, LocalsUpdates
  <2>4. run' \in Locals /\ run'.pc \in {"head", "finish"}
    <3>1. [[[[[run EXCEPT !.pc = l] EXCEPT !.cycle = c] EXCEPT !.todo = {}] EXCEPT !.task = None]
             EXCEPT !.tried = FALSE] \in Locals
      BY <2>3, LocalsUpdates
    <3> QED BY <2>1, <3>1 DEF Locals
  <2>5. disk' \in [tasks : [Tasks -> Progress], cycle : Nat]
    BY <2>1 DEF Written
  <2> QED BY <1>10, <2>4, <2>5, TypesFrom DEF CycleEnd, InEntry, Steps, Judging
<1>11. CASE Finish
  <2>1. PICK e \in {"cancelled", "completed", "partial"} : run' = [run EXCEPT !.pc = "final", !.end = e]
    BY <1>11 DEF Finish
  <2>2. run' \in Locals /\ run'.pc = "final" /\ run'.end # None
    BY <2>1 DEF Locals, None
  <2> QED BY <1>11, <2>2, TypesFrom DEF Finish, InEntry, Steps, Judging
<1>12. CASE Finalize
  <2>1. run'.pc = "idle" /\ run' \in Locals /\ progress' \in [Tasks -> Progress]
    BY <1>12, ProgressTypes DEF Finalize, Ended, Idle
  <2>2. job' \in {"cancelled", "completed", "partial"}
    BY <1>12 DEF Finalize, At, Types, LocalsOK, Locals
  <2> QED BY <1>12, <2>1, <2>2, TypesFrom DEF Finalize, InEntry, Steps, Judging
<1> QED BY <1>1, <1>2, <1>3, <1>4, <1>5, <1>6, <1>7, <1>8, <1>9, <1>10, <1>11, <1>12, <1>13, <1>14
        DEF Loop

LEMMA ReturnTypes ==
  ASSUME Types, NEW s \in Steps, At(s), NEW r \in Results, Return(s, r),
         UNCHANGED <<job, progress, disk, opts, workRuns, overwritten>>,
         late' \in SUBSET (Tasks \X Steps),
         budget' \in [setbacks : 0 .. Setbacks, faults : 0 .. Faults]
  PROVE  Types'
<1>1. T \in Tasks /\ run \in Locals /\ run.tried
  BY DEF Types, LocalsOK, At, InEntry, T
<1>2. row' \in [Tasks -> Rows]
  BY <1>1 DEF Return, Results, Types, TypeOK, Rows
<1>3. /\ run' \in Locals /\ run'.pc = "record" /\ run'.outcome.step \in Steps
      /\ run'.task = T /\ run'.tried
  <2>1. run' = [[run EXCEPT !.pc = "record"] EXCEPT !.outcome =
                  [kind |-> r.kind, step |-> s, error |-> r.error, guard |-> r.guard]]
    BY DEF Return
  <2>2. r.kind \in Kinds /\ r.error \in Reasons /\ r.guard \in {"unset", "yes", "no"}
    BY DEF Results
  <2>3. [run EXCEPT !.pc = "record"] \in Locals
    BY <1>1, LocalsUpdates, LabelTypes
  <2>4. run' \in Locals
    BY <2>1, <2>2, <2>3 DEF Locals
  <2> QED BY <1>1, <2>1, <2>4 DEF Locals, T
<1>4. /\ opts' = opts /\ job' = job /\ overwritten' = overwritten /\ workRuns' = workRuns
      /\ progress' = progress /\ disk' = disk
  OBVIOUS
<1> QED BY <1>1, <1>2, <1>3, <1>4, TypesFrom DEF Types, TypeOK, InEntry, Steps

LEMMA TypesStep == Types /\ [Next]_vars => Types'
<1> SUFFICES ASSUME Types, [Next]_vars PROVE Types'
  OBVIOUS
<1> USE TrioAssumption DEF Types
<1>1. CASE Loop
  BY <1>1, TypesLoop
<1>2. ASSUME NEW s \in Steps, StepAdvances(s) \/ StepFails(s) \/ StepRetries(s) \/ StepTimesOut(s) PROVE Types'
  <2>1. T \in Tasks
    BY <1>2 DEF StepAdvances, StepFails, StepRetries, StepTimesOut, LocalsOK, At, InEntry, T
  <2>2. PICK r \in Results : Return(s, r)
    BY <1>2, <2>1, ResultTypes DEF StepAdvances, StepFails, StepRetries, StepTimesOut
  <2>3. /\ At(s) /\ UNCHANGED <<job, progress, disk, opts, workRuns, overwritten>>
        /\ late' \in SUBSET (Tasks \X Steps)
        /\ budget' \in [setbacks : 0 .. Setbacks, faults : 0 .. Faults]
    BY <1>2, <2>1 DEF StepAdvances, StepFails, StepRetries, StepTimesOut, Setback, Fault, TypeOK
  <2> QED BY <2>2, <2>3, ReturnTypes
<1>3. CASE StartJob \/ Resume
  <2>1. /\ progress' \in [Tasks -> Progress]
        /\ disk' \in [tasks : [Tasks -> Progress], cycle : Nat]
    BY <1>3, ProgressTypes, SavedTypes DEF StartJob, Resume, Begin, TypeOK
  <2>2. run' \in Locals /\ run'.pc = "start"
    <3>1. PICK c \in Nat : run' = [Idle EXCEPT !.pc = "start", !.cycle = c]
      BY <1>3 DEF StartJob, Resume, Begin, TypeOK
    <3>2. [[Idle EXCEPT !.pc = "start"] EXCEPT !.cycle = c] \in Locals
      BY LabelTypes, LocalsUpdates
    <3> QED BY <3>1, <3>2 DEF Locals
  <2> QED BY <1>3, <2>1, <2>2, TypesFrom DEF StartJob, Resume, Begin, TypeOK, InEntry, Steps, Judging, Rows
<1>4. CASE Throw \/ Exit \/ Kill
  <2>1. run' = Idle /\ progress' = Nothing /\ run' \in Locals
    BY <1>4, LabelTypes DEF Throw, Exit, Kill, Gone, Ended
  <2>2. /\ job' \in {job, "failed"} /\ late' \in {late, {}}
        /\ budget' \in [setbacks : 0 .. Setbacks, faults : 0 .. Faults]
        /\ UNCHANGED <<row, disk, opts, workRuns, overwritten>>
    BY <1>4 DEF Throw, Exit, Kill, Gone, Fault, TypeOK
  <2> QED BY <2>1, <2>2, ProgressTypes DEF TypeOK, LocalsOK, Idle, InEntry, Steps, Judging, None, Locals
<1>5. CASE Heartbeat \/ Signal \/ CancelJob
  <2>1. /\ job' \in {"running", "cancelled"}
        /\ budget' \in [setbacks : 0 .. Setbacks, faults : 0 .. Faults]
        /\ UNCHANGED <<row, progress, disk, run, late, opts, workRuns, overwritten>>
    BY <1>5 DEF Heartbeat, Signal, CancelJob, Fault, TypeOK
  <2> QED BY <2>1 DEF TypeOK, LocalsOK
<1>6. ASSUME NEW t \in Tasks, CancelTask(t) PROVE Types'
  <2>1. /\ row' \in [Tasks -> Rows]
        /\ budget' \in [setbacks : 0 .. Setbacks, faults : 0 .. Faults]
        /\ UNCHANGED <<job, progress, disk, run, late, opts, workRuns, overwritten>>
    BY <1>6 DEF CancelTask, Fault, TypeOK, As, Rows, Terminal, Reasons
  <2> QED BY <2>1 DEF TypeOK, LocalsOK, Rows
<1>7. ASSUME NEW t \in Tasks, NEW s \in Steps, LateWrite(t, s) PROVE Types'
  <2>1. Here(t) \cup Advances(s) \cup {FailedAs("soft")} \cup {ToWork} \subseteq Rows
    BY DEF Here, Advances, Steps, WorkSuccess, ReviewSuccess, QaSuccess, FailedAs, ToWork, As, Rows,
           Open, Terminal, Reasons, None, TypeOK
  <2>2. row' \in [Tasks -> Rows]
    BY <1>7, <2>1 DEF LateWrite, TypeOK, Rows
  <2>3. /\ late' \subseteq Tasks \X Steps /\ overwritten' \subseteq Tasks
        /\ UNCHANGED <<job, progress, disk, run, opts, workRuns, budget>>
    BY <1>7 DEF LateWrite, TypeOK
  <2> QED BY <2>2, <2>3 DEF TypeOK, LocalsOK, Rows
<1>8. CASE UNCHANGED vars
  BY <1>8 DEF vars, TypeOK, LocalsOK
<1> QED BY <1>1, <1>2, <1>3, <1>4, <1>5, <1>6, <1>7, <1>8 DEF Next, Agents, World

(* Whatever the agents return and whatever fails, the rows, both copies of  *)
(* the progress and the locals of the loop keep their types.                *)
THEOREM TypeCorrect == Spec => []Types
BY TypesInit, TypesStep, PTL DEF Spec

-----------------------------------------------------------------------------
(* What a step may change, in four groups: the steps of the loop that deal  *)
(* with its current entry, the others, the end of a process, and the rest   *)
(* of the world.                                                            *)

EntrySteps ==
  \/ InnerTerminal \/ StartReview \/ StartQa \/ IterationsSpent \/ StartWork
  \/ Record \/ PutBack \/ ZeroTokens \/ Retry \/ GiveUp \/ Mark \/ SkipWork \/ ReadBack \/ LeaveEntry
  \/ \E s \in Steps : StepAdvances(s) \/ StepFails(s) \/ StepRetries(s) \/ StepTimesOut(s)
Ends    == Finalize \/ Throw \/ Exit \/ Kill
Outside ==
  \/ Heartbeat \/ Signal \/ CancelJob
  \/ \E t \in Tasks : CancelTask(t)
  \/ \E t \in Tasks, s \in Steps : LateWrite(t, s)

LEMMA Groups ==
  Next => \/ EntrySteps \/ Ends \/ Outside \/ StartJob \/ Resume \/ Seed \/ Head \/ Select
          \/ (\E t \in Tasks : Enter(t)) \/ LeaveEntries \/ CycleEnd \/ Finish
BY DEF Next, Loop, Agents, World, EntrySteps, Ends, Outside

Running == {"inner"} \cup Judging \cup Steps

(* An entry keeps its task pending until it settles it; its row only changes *)
(* once something was tried, and no step counts but the start of work.       *)
EntryEffect ==
  /\ T \in Tasks /\ run.pc \in InEntry
  /\ run'.todo = run.todo /\ run'.abort = run.abort /\ run'.pc \in InEntry \cup {"next", "cycle_end"}
  /\ run'.pc \in InEntry => run'.task = T /\ (run.tried => run'.tried)
  /\ run'.pc = "next" => ~run.tried \/ progress[T].status = "completed"
  /\ run'.pc \in {"next", "cycle_end"} => UNCHANGED <<row, progress, disk>>
  /\ job' \in {job, "running"} /\ UNCHANGED <<opts, overwritten>>
  /\ \A t \in Tasks \ {T} : progress'[t] = progress[t] /\ row'[t] = row[t]
  /\ UNCHANGED <<progress, disk>> \/ disk'.tasks = progress'
  /\ row' # row => run.tried /\ run.pc # "leave"
  /\ run'.pc \in Running => run.pc \in Running /\ progress'[T].status = progress[T].status
  /\ run'.pc = "mark" => progress'[T].status = "failed" /\ run.pc \in Running
  /\ run'.pc = "leave" => run.pc # "leave"
  /\ run.pc \in {"mark", "leave"} => UNCHANGED <<progress, disk>>
  /\ progress'[T].status = "completed" =>
       progress[T].status = "completed" \/ (row[T].status = "completed" /\ row' = row)
  /\ progress'[T].status = "absent" => progress'[T].status = progress[T].status
  /\ \/ workRuns' = workRuns /\ progress'[T].attempts = progress[T].attempts
     \/ /\ workRuns' = [workRuns EXCEPT ![T] = @ + 1] /\ ~Exhausted(progress[T])
        /\ progress'[T].attempts = progress[T].attempts + 1 /\ disk'.tasks = progress'

Moves(l) == run'.pc = l /\ run'.task = T /\ run'.todo = run.todo /\ run'.abort = run.abort

Puts(p) == /\ disk'.tasks = progress' /\ progress'[T] = p
           /\ \A t \in Tasks \ {T} : progress'[t] = progress[t]

LEMMA Effects ==
  ASSUME Types
  PROVE  /\ \A l \in Labels : Goto(l) => Moves(l) /\ run'.tried = run.tried
         /\ \A l \in Labels : \A p : T \in Tasks /\ Settle(T, p, l)
                                   => Moves(l) /\ run'.tried = run.tried /\ Puts(p)
         /\ \A l \in Labels : \A p : T \in Tasks /\ StartStep(l, p)
                                   => Moves(l) /\ run'.tried /\ Puts(p) /\ job' = "running"
         /\ \A s \in Steps : \A r :
              T \in Tasks /\ Return(s, r) =>
                /\ Moves("record") /\ run'.tried = run.tried
                /\ \A t \in Tasks \ {T} : row'[t] = row[t]
<1>1. /\ progress \in [Tasks -> Progress] /\ run \in Locals /\ row \in [Tasks -> Rows]
  BY DEF Types, TypeOK, LocalsOK, Rows
<1>2. ASSUME NEW p, T \in Tasks, Saved([progress EXCEPT ![T] = p]) PROVE Puts(p)
  BY <1>1, <1>2 DEF Saved, Written, Puts
<1>3. ASSUME NEW l \in Labels, Goto(l) PROVE Moves(l) /\ run'.tried = run.tried
  BY <1>1, <1>3 DEF Goto, Moves, Locals, T
<1>4. ASSUME NEW l \in Labels, NEW p, T \in Tasks, Settle(T, p, l)
      PROVE  Moves(l) /\ run'.tried = run.tried /\ Puts(p)
  <2>1. Moves(l) /\ run'.tried = run.tried
    BY <1>1, <1>4 DEF Settle, Leaves, Moves, Locals, T
  <2> QED BY <1>2, <1>4, <2>1 DEF Settle
<1>5. ASSUME NEW l \in Labels, NEW p, T \in Tasks, StartStep(l, p)
      PROVE  Moves(l) /\ run'.tried /\ Puts(p) /\ job' = "running"
  <2>1. Puts(p)
    BY <1>2, <1>5 DEF StartStep
  <2> QED BY <1>1, <1>5, <2>1 DEF StartStep, Moves, Locals, T
<1>6. ASSUME NEW s \in Steps, NEW r, T \in Tasks, Return(s, r)
      PROVE  /\ Moves("record") /\ run'.tried = run.tried
             /\ \A t \in Tasks \ {T} : row'[t] = row[t]
  BY <1>1, <1>6 DEF Return, Moves, Locals, T
<1> QED BY <1>3, <1>4, <1>5, <1>6

LEMMA EntryStep == Types /\ EntrySteps => EntryEffect
<1> SUFFICES ASSUME Types, EntrySteps PROVE EntryEffect
  OBVIOUS
<1>a. /\ run.pc \in InEntry => T \in Tasks
      /\ run.pc \in Steps \cup Judging \cup {"mark"} => run.tried
      /\ progress \in [Tasks -> Progress] /\ row \in [Tasks -> Rows]
  BY DEF Types, TypeOK, LocalsOK, T, Rows
<1>b. {"inner", "record", "decide", "zero", "mark", "leave", "next", "cycle_end"} \cup Steps \subseteq Labels
  BY LabelTypes
<1>c. run.pc \in InEntry
  BY DEF EntrySteps, InnerTerminal, StartReview, StartQa, IterationsSpent, StartWork, Record, PutBack,
         ZeroTokens, Retry, GiveUp, Mark, SkipWork, ReadBack, LeaveEntry, StepAdvances, StepFails, StepRetries, StepTimesOut, Outcome, At, InEntry
<1> DEFINE p0 == progress[T]
<1>d. T \in Tasks /\ p0 \in Progress
  BY <1>a, <1>c
<1> DEFINE Ending(x, e) == [[p0 EXCEPT !.status = x] EXCEPT !.error = e]
           Noted(e)     == [p0 EXCEPT !.error = e]
           Done         == [p0 EXCEPT !.status = "completed"]
<1>e. /\ \A x, e : Ending(x, e).status = x /\ Ending(x, e).attempts = p0.attempts
      /\ \A e : Noted(e).status = p0.status /\ Noted(e).attempts = p0.attempts
      /\ Done.status = "completed" /\ Done.attempts = p0.attempts
      /\ LET q == [p0 EXCEPT !.attempts = @ + 1, !.error = None, !.guard = "unset"]
         IN  q.status = p0.status /\ q.attempts = p0.attempts + 1
  BY <1>d DEF Progress
<1>f. \A e : Failed(e) = Ending("failed", e)
  BY DEF Failed, P
<1> HIDE DEF p0, Ending, Noted, Done
<1>1. CASE InnerTerminal
  <2>1. PICK x \in {"completed", "skipped"} :
          /\ Settle(T, Ending(x, "soft"), "leave")
          /\ x = "completed" => row[T].status = "completed"
    BY <1>1 DEF InnerTerminal, Ending, p0
  <2>2. Moves("leave") /\ run'.tried = run.tried /\ Puts(Ending(x, "soft"))
    BY <1>b, <1>d, <2>1, Effects
  <2> QED BY <1>1, <1>c, <1>d, <1>e, <2>1, <2>2
          DEF InnerTerminal, Moves, Puts, EntryEffect, InEntry, Running, Judging, Steps, At, p0
<1>2. CASE StartReview \/ StartQa
  <2>1. PICK l \in Steps : StartStep(l, p0)
    BY <1>2 DEF StartReview, StartQa, Steps, p0
  <2>2. Moves(l) /\ run'.tried /\ Puts(p0) /\ job' = "running"
    BY <1>b, <1>d, <2>1, Effects
  <2> QED BY <1>2, <1>c, <1>d, <2>2
          DEF StartReview, StartQa, Moves, Puts, EntryEffect, InEntry, Running, Judging, Steps, At, p0
<1>3. CASE IterationsSpent
  <2>1. Saved([progress EXCEPT ![T] = Ending("failed", "soft")])
    BY <1>3, <1>a, <1>d DEF IterationsSpent, Ending, p0
  <2>2. Puts(Ending("failed", "soft"))
    BY <1>a, <1>d, <2>1 DEF Saved, Written, Puts
  <2>3. Moves("leave") /\ run'.tried
    BY <1>3 DEF IterationsSpent, Moves, Types, LocalsOK, Locals, T
  <2> QED BY <1>3, <1>c, <1>d, <1>e, <2>2, <2>3
          DEF IterationsSpent, Moves, Puts, EntryEffect, InEntry, Running, Judging, Steps, At, p0
<1>4. CASE StartWork
  <2>1. PICK p : StartStep("work", p) /\ p.status = p0.status /\ p.attempts = p0.attempts + 1
    BY <1>4, <1>e DEF StartWork, p0
  <2>2. Moves("work") /\ run'.tried /\ Puts(p) /\ job' = "running"
    BY <1>b, <1>d, <2>1, Effects DEF Steps
  <2> QED BY <1>4, <1>c, <1>d, <2>1, <2>2
          DEF StartWork, Moves, Puts, EntryEffect, InEntry, Running, Judging, Steps, At, p0
<1>5. CASE ZeroTokens
  <2>1. ASSUME NEW p, NEW l \in {"leave", "inner"}, Settle(T, p, l), p.attempts = p0.attempts,
               p.status = IF l = "leave" THEN "failed" ELSE p0.status
        PROVE  EntryEffect
    <3>1. Moves(l) /\ run'.tried = run.tried /\ Puts(p)
      BY <1>b, <1>d, <2>1, Effects
    <3> QED BY <1>5, <1>a, <1>c, <1>d, <2>1, <3>1
            DEF ZeroTokens, Outcome, Moves, Puts, EntryEffect, InEntry, Running, Judging, Steps, At, p0
  <2>2. CASE Settle(T, Ending("failed", "zero"), "leave")
    BY <1>e, <2>1, <2>2, SMT
  <2>3. CASE Settle(T, p0, "inner")
    BY <2>1, <2>3, SMT
  <2> QED BY <1>5, <1>f, <2>2, <2>3 DEF ZeroTokens, P, p0
<1>6. CASE Retry \/ GiveUp \/ SkipWork
  <2>1. ASSUME NEW p, NEW l \in {"leave", "inner", "mark"}, Settle(T, p, l),
               p.attempts = p0.attempts,
               l = "inner" => p.status = p0.status,
               l = "mark" => p.status = "failed",
               l = "leave" => p.status = "skipped"
        PROVE  EntryEffect
    <3>1. Moves(l) /\ run'.tried = run.tried /\ Puts(p)
      BY <1>b, <1>d, <2>1, Effects
    <3> QED BY <1>6, <1>a, <1>c, <1>d, <2>1, <3>1
            DEF Retry, GiveUp, SkipWork, Outcome, Moves, Puts, EntryEffect, InEntry, Running,
                Judging, Steps, At, p0
  <2>2. CASE Settle(T, p0, "inner")
    BY <2>1, <2>2, SMT
  <2>3. CASE Settle(T, Ending("skipped", "soft"), "leave")
    BY <1>e, <2>1, <2>3, SMT
  <2>4. ASSUME NEW e, Settle(T, Ending("failed", e), "mark") PROVE EntryEffect
    BY <1>e, <2>1, <2>4, SMT
  <2> QED BY <1>6, <1>f, <2>2, <2>3, <2>4 DEF Retry, GiveUp, SkipWork, P, p0, Ending
<1>7. CASE ReadBack
  <2>1. CASE Leaves("inner") /\ UNCHANGED <<progress, disk>>
    <3>1. Moves("inner") /\ run'.tried = run.tried
      BY <2>1 DEF Leaves, Moves, Types, LocalsOK, Locals, T
    <3> QED BY <1>7, <1>a, <1>c, <1>d, <2>1, <3>1
            DEF ReadBack, Outcome, Moves, EntryEffect, InEntry, Running, Judging, Steps, At, p0
  <2>2. ASSUME NEW p, NEW l \in {"leave", "inner"}, Settle(T, p, l), p.attempts = p0.attempts,
               l = "inner" => p.status = p0.status,
               l = "leave" => \/ p.status = "failed"
                              \/ p.status = "completed" /\ row[T].status = "completed"
        PROVE  EntryEffect
    <3>1. Moves(l) /\ run'.tried = run.tried /\ Puts(p)
      BY <1>b, <1>d, <2>2, Effects
    <3> QED BY <1>7, <1>a, <1>c, <1>d, <2>2, <3>1
            DEF ReadBack, Outcome, Moves, Puts, EntryEffect, InEntry, Running, Judging, Steps, At, p0
  <2>3. CASE row[T].status = "completed" /\ Settle(T, Done, "leave")
    BY <1>e, <2>2, <2>3, SMT
  <2>4. ASSUME NEW e, Settle(T, Ending("failed", e), "leave") PROVE EntryEffect
    BY <1>e, <2>2, <2>4, SMT
  <2>5. CASE Settle(T, Noted("soft"), "inner")
    BY <1>e, <2>2, <2>5, SMT
  <2> QED BY <1>7, <1>f, <2>1, <2>3, <2>4, <2>5 DEF ReadBack, P, p0, Noted, Done
<1>8. CASE Mark
  <2>1. Moves("leave") /\ run'.tried = run.tried
    BY <1>8, <1>b, Effects DEF Mark
  <2> QED BY <1>8, <1>a, <1>c, <1>d, <2>1
          DEF Mark, Moves, EntryEffect, InEntry, Running, Judging, Steps, At, p0
<1>9. CASE LeaveEntry
  <2>1. /\ run'.pc \in {"next", "cycle_end"} /\ run'.todo = run.todo /\ run'.abort = run.abort
        /\ run'.pc = "next" => ~run.tried \/ progress[T].status = "completed"
        /\ job' \in {job, "running"}
    BY <1>9 DEF LeaveEntry, Goto, Types, LocalsOK, Locals, P
  <2> QED BY <1>9, <1>c, <1>d, <2>1
          DEF LeaveEntry, EntryEffect, InEntry, Running, Judging, Steps, At
<1>10. ASSUME NEW s \in Steps, StepAdvances(s) \/ StepFails(s) \/ StepRetries(s) \/ StepTimesOut(s)
       PROVE  EntryEffect
  <2>1. PICK r \in Results : Return(s, r)
    BY <1>10, <1>d, ResultTypes DEF StepAdvances, StepFails, StepRetries, StepTimesOut
  <2>2. /\ Moves("record") /\ run'.tried = run.tried
        /\ \A t \in Tasks \ {T} : row'[t] = row[t]
    BY <1>d, <2>1, Effects
  <2>3. run.pc = s /\ UNCHANGED <<job, progress, disk, opts, workRuns, overwritten>>
    BY <1>10 DEF StepAdvances, StepFails, StepRetries, StepTimesOut, At
  <2> QED BY <1>a, <1>c, <1>d, <2>2, <2>3
          DEF Moves, EntryEffect, InEntry, Running, Judging, Steps
<1>11. CASE Record
  <2> DEFINE q == Recorded(P, run.outcome.step, run.outcome)
  <2>1. /\ q.attempts = p0.attempts /\ q.status = p0.status
        /\ [q EXCEPT !.status = "failed"].attempts = p0.attempts
        /\ [q EXCEPT !.status = "failed"].status = "failed"
    <3>1. q \in Progress
      <4>1. run.outcome.step \in Steps /\ run.outcome.error \in Reasons
            /\ run.outcome.guard \in {"unset", "yes", "no"}
        BY <1>11 DEF Record, At, Types, LocalsOK, Locals, Judging
      <4> QED BY <1>d, <4>1, RecordedType DEF P, p0
    <3>2. q.attempts = p0.attempts /\ q.status = p0.status
      BY <1>d DEF Recorded, P, p0, Progress
    <3> QED BY <3>1, <3>2 DEF Progress
  <2> HIDE DEF q
  <2>2. ASSUME NEW p, NEW l \in {"decide", "mark"}, Moves(l), run'.tried = run.tried, Puts(p),
               p.attempts = p0.attempts,
               l = "decide" => p.status = p0.status,
               l = "mark" => p.status = "failed"
        PROVE  EntryEffect
    BY <1>11, <1>a, <1>c, <1>d, <2>2
       DEF Record, Moves, Puts, EntryEffect, InEntry, Running, Judging, Steps, At, p0
  <2>3. CASE Saved([progress EXCEPT ![T] = q]) /\ Goto("decide")
    <3>1. Moves("decide") /\ run'.tried = run.tried
      BY <1>b, <2>3, Effects
    <3>2. Puts(q)
      BY <1>a, <1>d, <2>3 DEF Saved, Written, Puts
    <3> QED BY <2>1, <2>2, <3>1, <3>2, SMT
  <2>4. CASE Settle(T, [q EXCEPT !.status = "failed"], "mark")
    <3>1. Moves("mark") /\ run'.tried = run.tried /\ Puts([q EXCEPT !.status = "failed"])
      BY <1>b, <1>d, <2>4, Effects
    <3> QED BY <2>1, <2>2, <3>1, Zenon
  <2> QED BY <1>11, <2>3, <2>4 DEF Record, q
<1>12. CASE PutBack
  <2>1. Moves("zero") /\ run'.tried = run.tried
    BY <1>12, <1>b, Effects DEF PutBack
  <2> QED BY <1>12, <1>a, <1>c, <1>d, <2>1
          DEF PutBack, Outcome, Moves, EntryEffect, InEntry, Running, Judging, Steps, At, p0
<1> QED BY <1>1, <1>2, <1>3, <1>4, <1>5, <1>6, <1>7, <1>8, <1>9, <1>10, <1>11, <1>12 DEF EntrySteps

-----------------------------------------------------------------------------
(* The steps between entries.  Follows(t) is what any of them may make of   *)
(* the progress of a task.                                                  *)

Closed(p) == p.status = "completed" \/ GivenUp(p)

Follows(t) ==
  /\ progress'[t].status = "absent" => progress'[t] = progress[t]
  /\ \/ progress'[t].attempts = progress[t].attempts
     \/ progress[t].status = "absent" /\ progress'[t] = Pending
  /\ GivenUp(progress[t]) => GivenUp(progress'[t]) \/ row[t].status \in {"completed", "cancelled"}
  /\ progress[t].status = "completed" =>
       progress'[t].status = "completed" \/ row[t].status = "cancelled"
  /\ progress'[t].status = "completed" =>
       progress[t].status = "completed" \/ row[t].status = "completed"

Between ==
  /\ Going /\ run'.pc # "idle" /\ job' \in {job, "running"}
  /\ UNCHANGED <<opts, workRuns, overwritten>>
  /\ \A t \in Tasks : Follows(t)
  /\ \A t \in Tasks : row'[t] = row[t] \/ row[t].status = "failed"

LEMMA FieldsOfProgress ==
  ASSUME NEW p \in Progress
  PROVE  /\ \A x : [p EXCEPT !.status = x].status = x
         /\ \A x : [p EXCEPT !.status = x].attempts = p.attempts
         /\ \A x, e : LET q == [p EXCEPT !.status = x, !.error = e]
                      IN  /\ q.status = x /\ q.attempts = p.attempts
                          /\ q.error = e /\ q.guard = p.guard
         /\ \A x, e, g : LET q == [p EXCEPT !.status = x, !.error = e, !.guard = g]
                         IN  q.status = x /\ q.attempts = p.attempts
BY DEF Progress

LEMMA SeedStep ==
  ASSUME Types, Seed
  PROVE  /\ Between /\ run.pc = "start" /\ run'.pc = "head" /\ row' = row
         /\ disk'.tasks = progress' /\ \A t \in opts.list : progress'[t].status # "absent"
<1>1. run'.pc = "head" /\ run.pc = "start"
  BY DEF Seed, Goto, At, Types, LocalsOK, Locals
<1>2. disk'.tasks = progress'
  BY DEF Seed, Saved, Written
<1>3. \A t \in Tasks : progress'[t] = IF t \in opts.list /\ progress[t].status = "absent"
                                      THEN Pending ELSE progress[t]
  BY DEF Seed, Saved
<1>4. Pending.status = "pending" /\ opts.list \subseteq Tasks
  BY DEF Pending, NoProgress, Types, LocalsOK
<1>5. \A t \in Tasks : Follows(t)
  BY <1>3, <1>4 DEF Follows, GivenUp
<1> QED BY <1>1, <1>2, <1>3, <1>4, <1>5 DEF Seed, Between, Going, At

LEMMA HeadStep ==
  ASSUME Types, Head
  PROVE  /\ Between /\ run.pc = "head"
         /\ \/ run'.pc = "finish" /\ UNCHANGED <<row, progress, disk>>
            \/ run'.pc = "select" /\ disk'.tasks = progress'
<1>1. run.pc = "head" /\ UNCHANGED <<job, opts, workRuns, overwritten>>
  BY DEF Head, At
<1>2. CASE UNCHANGED <<row, progress, disk>> /\ \E b \in BOOLEAN : Stop(b)
  <2>1. run'.pc = "finish"
    BY <1>2 DEF Stop, Types, LocalsOK, Locals
  <2>2. \A t \in Tasks : Follows(t)
    BY <1>2 DEF Follows
  <2> QED BY <1>1, <1>2, <2>1, <2>2 DEF Between, Going, At
<1>3. ASSUME NEW warm,
             row' = [t \in Tasks |-> IF row[t].status = "failed" /\ Reopens(t, t \in warm)
                                     THEN ToWork ELSE row[t]],
             Saved([t \in Tasks |-> Reopened(t, t \in warm)]), Goto("select")
      PROVE  /\ Between /\ run.pc = "head"
             /\ run'.pc = "select" /\ disk'.tasks = progress'
  <2>1. run'.pc = "select"
    BY <1>3 DEF Goto, Types, LocalsOK, Locals
  <2>2. disk'.tasks = progress' /\ \A t \in Tasks : progress'[t] = Reopened(t, t \in warm)
    BY <1>3 DEF Saved, Written
  <2>3. \A t \in Tasks : row'[t] = row[t] \/ row[t].status = "failed"
    BY <1>3
  <2>4. ASSUME NEW t \in Tasks PROVE Follows(t)
    <3>1. PICK w : progress'[t] = Reopened(t, w)
      BY <2>2
    <3>2. progress[t] \in Progress
      BY DEF Types, TypeOK
    <3>3. CASE Untouched(progress[t]) \/ progress'[t] = progress[t]
      BY <3>1, <3>3 DEF Reopened, Follows
    <3>4. CASE ~Untouched(progress[t]) /\ row[t].status = "completed"
      BY <3>1, <3>2, <3>4, FieldsOfProgress DEF Reopened, Follows, Untouched
    <3>5. CASE ~Untouched(progress[t]) /\ row[t].status = "cancelled"
      BY <3>1, <3>2, <3>5, FieldsOfProgress DEF Reopened, Follows, Untouched
    <3>6. CASE /\ ~Untouched(progress[t]) /\ row[t].status \notin {"completed", "cancelled"}
               /\ Exhausted(progress[t])
      <4>1. PICK e : /\ progress'[t] = [progress[t] EXCEPT !.status = "failed", !.error = e]
                     /\ progress[t].error # None => e = progress[t].error
        BY <3>1, <3>2, <3>6 DEF Reopened, Progress
      <4>2. /\ progress'[t].status = "failed" /\ progress'[t].attempts = progress[t].attempts
            /\ progress'[t].error = e /\ progress'[t].guard = progress[t].guard
        BY <3>2, <4>1, FieldsOfProgress
      <4> QED BY <3>6, <4>1, <4>2 DEF Follows, Untouched, GivenUp, None
    <3>7. CASE /\ ~Untouched(progress[t]) /\ row[t].status \notin {"completed", "cancelled"}
               /\ ~Exhausted(progress[t]) /\ Reopens(t, w)
      <4>1. progress'[t].status = "pending" /\ progress'[t].attempts = progress[t].attempts
        BY <3>1, <3>2, <3>7, FieldsOfProgress DEF Reopened
      <4>2. ~GivenUp(progress[t])
        BY <3>7 DEF Reopens, ShouldReopen, Retryable, GivenUp
      <4> QED BY <3>7, <4>1, <4>2 DEF Follows, Untouched
    <3> QED BY <3>1, <3>3, <3>4, <3>5, <3>6, <3>7 DEF Reopened
  <2> QED BY <1>1, <2>1, <2>2, <2>3, <2>4 DEF Between, Going, At
<1> QED BY <1>2, <1>3 DEF Head

LEMMA SelectStep ==
  ASSUME Types, Select
  PROVE  /\ Between /\ run.pc = "select" /\ run'.pc = "next" /\ row' = row
         /\ disk'.tasks = progress' /\ run'.todo \subseteq Selected
<1>1. run.pc = "select" /\ row' = row /\ job' = "running" /\ UNCHANGED <<opts, workRuns, overwritten>>
  BY DEF Select, At
<1>2. run'.pc = "next" /\ run'.todo \subseteq Selected
  BY DEF Select, Types, LocalsOK, Locals
<1>3. disk'.tasks = progress'
  BY DEF Select, Saved, Written
<1>4. ASSUME NEW t \in Tasks PROVE Follows(t)
  <2>1. progress \in [Tasks -> Progress] /\ run.active \in Tasks \cup {None}
    BY DEF Types, TypeOK
  <2>2. CASE progress' = progress
    BY <2>2 DEF Follows
  <2>3. ASSUME run.active \in Tasks, row[run.active].status = "cancelled",
               progress' = [progress EXCEPT ![run.active].status = "skipped",
                                            ![run.active].error = "soft"]
        PROVE  Follows(t)
    <3>1. CASE t = run.active
      <4>1. progress'[t] = [progress[t] EXCEPT !.status = "skipped", !.error = "soft"]
        BY <2>1, <2>3, <3>1
      <4>2. progress'[t].status = "skipped" /\ progress'[t].attempts = progress[t].attempts
        BY <2>1, <4>1, FieldsOfProgress
      <4> QED BY <2>3, <3>1, <4>2 DEF Follows
    <3>2. CASE t # run.active
      BY <2>1, <2>3, <3>2 DEF Follows
    <3> QED BY <3>1, <3>2
  <2> QED BY <2>1, <2>2, <2>3 DEF Select, Saved, None
<1> QED BY <1>1, <1>2, <1>3, <1>4 DEF Between, Going, At

LEMMA EnterStep ==
  ASSUME Types, NEW t \in Tasks, Enter(t)
  PROVE  /\ Between /\ run.pc = "next" /\ t \in run.todo /\ row' = row /\ disk' = disk
         /\ run'.todo = run.todo \ {t}
         /\ \/ run'.pc = "next"
            \/ run'.pc = "inner" /\ run'.task = t /\ ~run'.tried /\ progress'[t].status = "pending"
         /\ \A u \in Tasks : Closed(progress[u]) => progress'[u] = progress[u]
<1> DEFINE p == EntryProgress(progress[t])
           q == [p EXCEPT !.status = "pending", !.error = None, !.guard = "unset"]
<1>1. run.pc = "next" /\ t \in run.todo /\ UNCHANGED <<row, job, disk, opts, workRuns, overwritten>>
  BY DEF Enter, At, NextEntry
<1>2. progress \in [Tasks -> Progress] /\ p \in Progress /\ progress[t] \in Progress
  BY ProgressTypes DEF Types, TypeOK
<1>3. /\ p.attempts = progress[t].attempts \/ (progress[t].status = "absent" /\ p = Pending)
      /\ p.status = progress[t].status \/ (p.status = "pending" /\ ~Closed(progress[t]))
      /\ Closed(progress[t]) => p = progress[t]
      /\ p.status # "absent"
  <2>1. Pending.status = "pending"
    BY DEF Pending, NoProgress
  <2>2. CASE progress[t].status = "absent"
    BY <2>1, <2>2 DEF EntryProgress, Closed, GivenUp
  <2>3. CASE progress[t].status = "skipped"
    BY <1>2, <2>3, FieldsOfProgress DEF EntryProgress, Closed, GivenUp
  <2> QED BY <2>2, <2>3 DEF EntryProgress
<1>4. q.status = "pending" /\ q.attempts = p.attempts
  BY <1>2, FieldsOfProgress
<1> HIDE DEF p, q
<1>5. \/ /\ progress' = [progress EXCEPT ![t] = p] /\ p.status = "pending"
         /\ \E a : run' = [run EXCEPT !.pc = "inner", !.task = t, !.todo = @ \ {t},
                                      !.active = a, !.tried = FALSE]
      \/ /\ progress' = [progress EXCEPT ![t] = p]
         /\ \E a : run' = [run EXCEPT !.todo = @ \ {t}, !.active = a]
      \/ /\ progress' = [progress EXCEPT ![t] = q] /\ p.status = "failed" /\ ShouldReopen(p, TRUE)
         /\ \E a : run' = [run EXCEPT !.pc = "inner", !.task = t, !.todo = @ \ {t},
                                      !.active = a, !.tried = FALSE]
  BY DEF Enter, p, q
<1>6. run \in Locals
  BY DEF Types, LocalsOK
<1>7. /\ run'.todo = run.todo \ {t}
      /\ \/ run'.pc = "next"
         \/ run'.pc = "inner" /\ run'.task = t /\ ~run'.tried /\ progress'[t].status = "pending"
  BY <1>1, <1>2, <1>4, <1>5, <1>6 DEF Locals
<1>8. \A u \in Tasks : u # t => progress'[u] = progress[u]
  BY <1>2, <1>5
<1>9. CASE progress'[t] = p
  <2>1. Closed(progress[t]) => progress'[t] = progress[t]
    BY <1>3, <1>9
  <2>2. Follows(t)
    BY <1>3, <1>9 DEF Follows, Closed, Pending, NoProgress
  <2> QED BY <1>1, <1>7, <1>8, <2>1, <2>2 DEF Between, Going, At, Follows
<1>10. CASE progress'[t] = q /\ p.status = "failed" /\ ShouldReopen(p, TRUE)
  <2>1. ~GivenUp(p)
    BY <1>10 DEF ShouldReopen, Retryable, GivenUp
  <2>2. progress[t].status = "failed" /\ ~Closed(progress[t])
    BY <1>3, <1>10, <2>1 DEF Closed
  <2>3. p.attempts = progress[t].attempts
    BY <1>3, <2>2
  <2>4. Follows(t)
    BY <1>4, <1>10, <2>2, <2>3 DEF Follows, Closed
  <2> QED BY <1>1, <1>7, <1>8, <2>2, <2>4 DEF Between, Going, At, Follows
<1> QED BY <1>2, <1>5, <1>9, <1>10

LEMMA RestStep ==
  ASSUME Types, LeaveEntries \/ CycleEnd \/ Finish
  PROVE  /\ Between /\ UNCHANGED <<row, job, progress>>
         /\ \/ /\ run.pc = "next" /\ disk' = disk
               /\ run'.pc = "cycle_end" \/ (run'.pc = "finish" /\ run'.abort)
            \/ run.pc = "cycle_end" /\ disk'.tasks = progress /\ run'.pc \in {"head", "finish"}
            \/ /\ run.pc = "finish" /\ disk' = disk /\ run'.pc = "final"
               /\ run'.end = "completed" =>
                    ~run.abort /\ \A t \in Tasks : progress[t].status \in {"absent", "completed"}
<1>1. run \in Locals
  BY DEF Types, LocalsOK
<1>2. UNCHANGED <<row, job, progress, opts, workRuns, overwritten>>
  BY DEF LeaveEntries, CycleEnd, Finish
<1>3. \A t \in Tasks : Follows(t)
  BY <1>2 DEF Follows
<1>4. CASE LeaveEntries
  <2>1. /\ run.pc = "next" /\ disk' = disk
        /\ run'.pc = "cycle_end" \/ (run'.pc = "finish" /\ run'.abort)
    BY <1>1, <1>4 DEF LeaveEntries, Stop, Goto, At, Locals
  <2> QED BY <1>2, <1>3, <2>1 DEF Between, Going, At
<1>5. CASE CycleEnd
  <2>1. run.pc = "cycle_end" /\ disk'.tasks = progress /\ run'.pc \in {"head", "finish"}
    BY <1>1, <1>5 DEF CycleEnd, Written, At, Locals
  <2> QED BY <1>2, <1>3, <2>1 DEF Between, Going, At
<1>6. CASE Finish
  <2>1. run.pc = "finish" /\ disk' = disk /\ run'.pc = "final"
    BY <1>1, <1>6 DEF Finish, At, Locals
  <2>2. run'.end = "completed" =>
          ~run.abort /\ \A t \in Tasks : progress[t].status \in {"absent", "completed"}
    BY <1>1, <1>6 DEF Finish, Locals
  <2> QED BY <1>2, <1>3, <2>1, <2>2 DEF Between, Going, At
<1> QED BY <1>4, <1>5, <1>6

LEMMA BeginStep ==
  ASSUME Types, StartJob \/ Resume
  PROVE  /\ run.pc = "idle" /\ run'.pc = "start" /\ job' = "running" /\ disk'.tasks = progress'
         /\ disk'.tasks = disk.tasks \/ (job = None /\ disk'.tasks = Nothing)
         /\ UNCHANGED <<row, opts, workRuns, overwritten>>
<1>1. ASSUME NEW p, NEW c, Begin(p, c)
      PROVE  /\ run'.pc = "start" /\ job' = "running" /\ disk'.tasks = progress'
             /\ disk'.tasks = p
  BY <1>1 DEF Begin, Saved, Written, Idle
<1> QED BY <1>1 DEF StartJob, Resume, At

LEMMA EndStep ==
  ASSUME Types, Ends
  PROVE  /\ run'.pc = "idle" /\ progress' = Nothing
         /\ UNCHANGED <<row, disk, opts, workRuns, overwritten>>
         /\ \/ job' = job
            \/ Going /\ job' = "failed"
            \/ run.pc = "final" /\ job' = run.end /\ run.end # None
BY DEF Ends, Finalize, Throw, Exit, Kill, Gone, Ended, Idle, At, Types, LocalsOK

LEMMA OutsideStep ==
  ASSUME Types, Outside
  PROVE  /\ UNCHANGED <<progress, disk, run, opts, workRuns>> /\ overwritten \subseteq overwritten'
         /\ job' = job \/ (job' \in {"running", "cancelled"} /\ (Going \/ job = "running"))
         /\ \A t \in Tasks : \/ row'[t] = row[t] \/ t \in overwritten'
                             \/ row[t].status \in Open /\ row'[t].status = "cancelled"
<1>1. row \in [Tasks -> Rows]
  BY DEF Types, TypeOK, Rows
<1>2. CASE Heartbeat \/ Signal \/ CancelJob
  BY <1>2 DEF Heartbeat, Signal, CancelJob, Going, At, Steps
<1>3. ASSUME NEW t \in Tasks, CancelTask(t)
      PROVE  /\ UNCHANGED <<progress, disk, run, opts, workRuns, overwritten, job>>
             /\ \A u \in Tasks : \/ row'[u] = row[u]
                                 \/ row[u].status \in Open /\ row'[u].status = "cancelled"
  BY <1>1, <1>3 DEF CancelTask, As
<1>4. ASSUME NEW t \in Tasks, NEW s \in Steps, LateWrite(t, s)
      PROVE  /\ UNCHANGED <<progress, disk, run, opts, workRuns, job>>
             /\ overwritten \subseteq overwritten'
             /\ \A u \in Tasks : row'[u] = row[u] \/ u \in overwritten'
  BY <1>1, <1>4 DEF LateWrite
<1> QED BY <1>2, <1>3, <1>4 DEF Outside

-----------------------------------------------------------------------------
(* The invariant.                                                           *)

(* No process, no memory; no job, nothing on disk. *)
Untold ==
  /\ job = None => At("idle") /\ disk.tasks = Nothing /\ workRuns = [t \in Tasks |-> 0]
  /\ At("idle") => progress = Nothing

(* Memory and disk agree on the attempts, which count the work steps.       *)
Counted ==
  \A t \in Tasks :
    /\ Going => progress[t].attempts = disk.tasks[t].attempts
    /\ workRuns[t] <= disk.tasks[t].attempts
    /\ ~Continuous => disk.tasks[t].attempts <= opts.limit
    /\ disk.tasks[t].status = "absent" => disk.tasks[t] = NoProgress
    /\ progress[t].status = "absent" => progress[t] = NoProgress

(* A task that is closed on disk is closed in memory, in the same words;    *)
(* the task in hand is not.                                                 *)
Remembered ==
  /\ Going => \A t \in Tasks : Closed(disk.tasks[t]) => progress[t] = disk.tasks[t]
  /\ run.pc \in Running => progress[T].status = "pending"
  /\ At("mark") => progress[T].status = "failed"

DoneInRow ==
  \A t \in Tasks :
    progress[t].status = "completed" \/ disk.tasks[t].status = "completed"
      => row[t].status = "completed" \/ t \in overwritten

AllDone ==
  \A t \in Tasks : /\ disk.tasks[t].status \in {"absent", "completed"}
                   /\ t \in opts.list => disk.tasks[t].status = "completed"

(* Memory is on disk wherever the end of the run may be judged.             *)
Finished ==
  /\ run.pc \in {"start", "head", "select"} => progress = disk.tasks
  /\ At("finish") /\ ~run.abort => progress = disk.tasks
  /\ Going /\ ~At("start") => \A t \in opts.list : progress[t].status # "absent"
  /\ At("final") /\ run.end = "completed" => AllDone
  /\ job = "completed" => At("idle") /\ AllDone

(* The dependencies of what is still to do were ready at the selection, and *)
(* the only row the loop has changed since is that of the task in hand.     *)
Gate(d) == row[d].status \in ReadyDependency \/ d \in overwritten
Gated ==
  /\ At("next") => \A u \in run.todo : \A d \in Tasks \ {u} : <<u, d>> \in Deps => Gate(d)
  /\ run.pc \in InEntry =>
       \A u \in run.todo \cup {T} : \A d \in Tasks \ {u} :
         <<u, d>> \in Deps => Gate(d) \/ (run.tried /\ d = T)

Inv == Types /\ Untold /\ Counted /\ Remembered /\ DoneInRow /\ Finished /\ Gated

LEMMA InvInit == Init => Inv
<1> SUFFICES ASSUME Init PROVE Inv
  OBVIOUS
<1>1. Types
  BY TypesInit
<1>2. /\ run.pc = "idle" /\ job = None /\ disk.tasks = Nothing /\ progress = Nothing
      /\ workRuns = [t \in Tasks |-> 0] /\ opts.limit \in Nat
  BY <1>1 DEF Init, Idle, Types, LocalsOK
<1>3. \A t \in Tasks : Nothing[t] = NoProgress
  BY DEF Nothing
<1>4. NoProgress.attempts = 0 /\ NoProgress.status = "absent" /\ ~Closed(NoProgress)
  BY DEF NoProgress, Closed, GivenUp
<1>5. Untold /\ Counted
  BY <1>2, <1>3, <1>4 DEF Untold, Counted, At, Going
<1>6. Remembered /\ DoneInRow
  BY <1>2, <1>3, <1>4 DEF Remembered, DoneInRow, At, Going, Running, Judging, Steps
<1>7. Finished /\ Gated
  BY <1>2 DEF Finished, Gated, At, Going, InEntry, Steps, None
<1> QED BY <1>1, <1>5, <1>6, <1>7 DEF Inv

LEMMA NothingFacts ==
  /\ \A t \in Tasks : Nothing[t] = NoProgress
  /\ NoProgress.attempts = 0 /\ NoProgress.status = "absent" /\ ~Closed(NoProgress)
  /\ Pending.attempts = 0 /\ Pending.status = "pending" /\ ~Closed(Pending)
BY DEF Nothing, NoProgress, Pending, Closed, GivenUp

(* The steps between entries, as far as every part of the invariant asks.   *)
LEMMA BetweenStep ==
  ASSUME Types, Seed \/ Head \/ Select \/ (\E t \in Tasks : Enter(t)) \/ LeaveEntries
                \/ CycleEnd \/ Finish
  PROVE  /\ Between
         /\ \/ disk'.tasks = progress'
            \/ /\ disk' = disk
               /\ \A u \in Tasks : Closed(progress[u]) => progress'[u] = progress[u]
<1>1. CASE Seed
  BY <1>1, SeedStep
<1>2. CASE Head
  BY <1>2, HeadStep
<1>3. CASE Select
  BY <1>3, SelectStep
<1>4. ASSUME NEW t \in Tasks, Enter(t)
      PROVE  /\ Between /\ disk' = disk
             /\ \A u \in Tasks : Closed(progress[u]) => progress'[u] = progress[u]
  BY <1>4, EnterStep
<1>5. CASE LeaveEntries \/ CycleEnd \/ Finish
  BY <1>5, RestStep
<1> QED BY <1>1, <1>2, <1>3, <1>4, <1>5

LEMMA UntoldStep == Inv /\ [Next]_vars => Untold'
<1> SUFFICES ASSUME Inv, [Next]_vars PROVE Untold'
  OBVIOUS
<1> USE DEF Inv
<1>1. CASE EntrySteps
  <2>1. EntryEffect
    BY <1>1, EntryStep
  <2> QED BY <2>1 DEF EntryEffect, Untold, At, InEntry, Steps, None
<1>2. CASE Ends
  <2>1. CASE job' = None
    BY <1>2, <2>1, EndStep DEF Untold, At, Going, None
  <2> QED BY <1>2, <2>1, EndStep DEF Untold, At
<1>3. CASE Outside
  BY <1>3, OutsideStep DEF Untold, At, Going, None
<1>4. CASE StartJob \/ Resume
  BY <1>4, BeginStep DEF Untold, At, None
<1>5. CASE Seed \/ Head \/ Select \/ (\E t \in Tasks : Enter(t)) \/ LeaveEntries \/ CycleEnd \/ Finish
  BY <1>5, BetweenStep DEF Between, Untold, At, Going, None
<1>6. CASE UNCHANGED vars
  BY <1>6 DEF vars, Untold, At
<1> QED BY <1>1, <1>2, <1>3, <1>4, <1>5, <1>6, Groups

LEMMA CountedStep == Inv /\ [Next]_vars => Counted'
<1> SUFFICES ASSUME Inv, [Next]_vars, NEW t \in Tasks
             PROVE  /\ Going' => progress'[t].attempts = disk'.tasks[t].attempts
                    /\ workRuns'[t] <= disk'.tasks[t].attempts
                    /\ ~Continuous' => disk'.tasks[t].attempts <= opts'.limit
                    /\ disk'.tasks[t].status = "absent" => disk'.tasks[t] = NoProgress
                    /\ progress'[t].status = "absent" => progress'[t] = NoProgress
  BY DEF Counted
<1> USE DEF Inv
<1>a. /\ Going => progress[t].attempts = disk.tasks[t].attempts
      /\ workRuns[t] <= disk.tasks[t].attempts
      /\ ~Continuous => disk.tasks[t].attempts <= opts.limit
      /\ disk.tasks[t].status = "absent" => disk.tasks[t] = NoProgress
      /\ progress[t].status = "absent" => progress[t] = NoProgress
  BY DEF Counted
<1>b. /\ workRuns \in [Tasks -> Nat] /\ opts.limit \in Nat
      /\ disk.tasks[t].attempts \in Nat /\ progress[t].attempts \in Nat
  BY DEF Types, TypeOK, LocalsOK, Progress
<1>1. CASE EntrySteps
  <2>1. EntryEffect /\ Going
    BY <1>1, EntryStep DEF EntryEffect, Going, At, InEntry, Steps
  <2>2. CASE t # T
    BY <1>a, <1>b, <2>1, <2>2 DEF EntryEffect, Continuous
  <2>3. CASE t = T /\ workRuns' = workRuns
    <3>1. progress'[T].attempts = progress[T].attempts
      BY <1>b, <2>1, <2>3 DEF EntryEffect
    <3>2. progress'[T].status # "absent" \/ progress' = progress
      <4>1. CASE progress[T].status = "absent"
        <5>1. run.pc \in {"mark", "leave"}
          BY <2>1, <4>1 DEF EntryEffect, InEntry, Running, Judging, Remembered
        <5> QED BY <2>1, <5>1 DEF EntryEffect
      <4> QED BY <2>1, <4>1 DEF EntryEffect
    <3> QED BY <1>a, <2>1, <2>3, <3>1, <3>2 DEF EntryEffect, Continuous
  <2>4. CASE /\ t = T /\ workRuns' = [workRuns EXCEPT ![T] = @ + 1] /\ ~Exhausted(progress[T])
             /\ progress'[T].attempts = progress[T].attempts + 1 /\ disk'.tasks = progress'
    <3>1. progress'[T].status # "absent"
      <4>1. CASE progress[T].status = "absent"
        <5>1. run.pc \in {"mark", "leave"}
          BY <2>1, <4>1 DEF EntryEffect, InEntry, Running, Judging, Remembered
        <5> QED BY <1>b, <2>1, <2>4, <5>1 DEF EntryEffect
      <4> QED BY <2>1, <4>1 DEF EntryEffect
    <3>2. workRuns'[T] = workRuns[T] + 1
      BY <1>b, <2>4
    <3>3. ~Continuous => progress[T].attempts < opts.limit
      BY <1>b, <2>4 DEF Exhausted
    <3> QED BY <1>a, <1>b, <2>1, <2>4, <3>1, <3>2, <3>3 DEF EntryEffect, Continuous
  <2> QED BY <2>1, <2>2, <2>3, <2>4 DEF EntryEffect
<1>2. CASE Ends
  BY <1>2, <1>a, EndStep, NothingFacts DEF Going, At, Continuous
<1>3. CASE Outside
  BY <1>3, <1>a, OutsideStep DEF Going, At, Continuous
<1>4. CASE StartJob \/ Resume
  <2>1. disk'.tasks = Nothing => workRuns[t] = 0 \/ disk'.tasks = disk.tasks
    BY <1>4, BeginStep DEF Untold
  <2> QED BY <1>4, <1>a, <1>b, <2>1, BeginStep, NothingFacts DEF Continuous
<1>5. CASE Seed \/ Head \/ Select \/ (\E u \in Tasks : Enter(u)) \/ LeaveEntries \/ CycleEnd \/ Finish
  <2>1. Between /\ Follows(t) /\ (disk'.tasks = progress' \/ disk' = disk)
    BY <1>5, BetweenStep DEF Between
  <2>2. progress'[t].attempts = progress[t].attempts
    BY <1>a, <2>1, NothingFacts DEF Follows
  <2>3. progress'[t].status = "absent" => progress'[t] = NoProgress
    BY <1>a, <2>1 DEF Follows
  <2> QED BY <1>a, <2>1, <2>2, <2>3 DEF Between, Continuous
<1>6. CASE UNCHANGED vars
  BY <1>6, <1>a DEF vars, Going, At, Continuous
<1> QED BY <1>1, <1>2, <1>3, <1>4, <1>5, <1>6, Groups

LEMMA RememberedStep == Inv /\ [Next]_vars => Remembered'
<1> SUFFICES ASSUME Inv, [Next]_vars
             PROVE  /\ Going' => \A t \in Tasks : Closed(disk.tasks[t])'
                                                    => progress'[t] = disk'.tasks[t]
                    /\ run'.pc \in Running => progress'[run'.task].status = "pending"
                    /\ run'.pc = "mark" => progress'[run'.task].status = "failed"
  BY DEF Remembered, At, T
<1> USE DEF Inv
<1>1. CASE EntrySteps
  <2>1. EntryEffect
    BY <1>1, EntryStep
  <2>2. opts' = opts
    BY <2>1 DEF EntryEffect
  <2>3. /\ run'.pc \in Running => progress'[run'.task].status = "pending"
        /\ run'.pc = "mark" => progress'[run'.task].status = "failed"
    BY <2>1 DEF EntryEffect, Remembered, InEntry, Running, Judging
  <2>4. Going
    BY <2>1 DEF EntryEffect, Going, At, InEntry, Steps
  <2>5. disk' = disk => \A t \in Tasks : Closed(disk.tasks[t])' => progress'[t] = disk'.tasks[t]
    BY <2>1, <2>2, <2>4 DEF EntryEffect, Remembered, Closed, GivenUp, Continuous
  <2> QED BY <2>1, <2>3, <2>5 DEF EntryEffect
<1>2. CASE Ends
  BY <1>2, EndStep DEF Going, At, Running, Judging, Steps
<1>3. CASE Outside
  BY <1>3, OutsideStep DEF Remembered, Going, At, T, Closed, GivenUp, Continuous
<1>4. CASE StartJob \/ Resume
  BY <1>4, BeginStep DEF Running, Judging, Steps
<1>5. CASE Seed \/ Head \/ Select \/ (\E t \in Tasks : Enter(t)) \/ LeaveEntries \/ CycleEnd \/ Finish
  <2>1. /\ Between
        /\ \/ disk'.tasks = progress'
           \/ /\ disk' = disk
              /\ \A u \in Tasks : Closed(progress[u]) => progress'[u] = progress[u]
    BY <1>5, BetweenStep
  <2>2. \A t \in Tasks : Closed(disk.tasks[t])' => progress'[t] = disk'.tasks[t]
    BY <2>1 DEF Between, Remembered, Closed, GivenUp, Continuous
  <2>3. /\ run'.pc \in Running => progress'[run'.task].status = "pending"
        /\ run'.pc # "mark"
    BY <1>5, SeedStep, HeadStep, SelectStep, EnterStep, RestStep DEF Running, Judging, Steps
  <2> QED BY <2>2, <2>3
<1>6. CASE UNCHANGED vars
  BY <1>6 DEF vars, Remembered, Going, At, T, Closed, GivenUp, Continuous
<1> QED BY <1>1, <1>2, <1>3, <1>4, <1>5, <1>6, Groups

LEMMA DoneInRowStep == Inv /\ [Next]_vars => DoneInRow'
<1> SUFFICES ASSUME Inv, [Next]_vars, NEW t \in Tasks,
                    progress'[t].status = "completed" \/ disk'.tasks[t].status = "completed"
             PROVE  row'[t].status = "completed" \/ t \in overwritten'
  BY DEF DoneInRow
<1> USE DEF Inv
<1>a. progress[t].status = "completed" \/ disk.tasks[t].status = "completed"
        => row[t].status = "completed" \/ t \in overwritten
  BY DEF DoneInRow
<1>1. CASE EntrySteps
  <2>1. EntryEffect /\ Going
    BY <1>1, EntryStep DEF EntryEffect, Going, At, InEntry, Steps
  <2>2. CASE t # T
    BY <1>a, <2>1, <2>2 DEF EntryEffect
  <2>3. CASE t = T
    <3>1. disk.tasks[T].status = "completed" => progress[T].status = "completed"
      BY <2>1 DEF Remembered, Closed, EntryEffect
    <3>2. CASE row' = row
      BY <1>a, <2>1, <2>3, <3>1, <3>2 DEF EntryEffect
    <3>3. CASE row' # row
      <4>1. run.pc \in Running \cup {"mark"}
        BY <2>1, <3>3 DEF EntryEffect, InEntry, Running, Judging
      <4>2. progress[T].status # "completed"
        BY <4>1 DEF Remembered, At
      <4> QED BY <2>1, <2>3, <3>1, <3>3, <4>2 DEF EntryEffect
    <3> QED BY <3>2, <3>3
  <2> QED BY <2>2, <2>3
<1>2. CASE Ends
  BY <1>2, <1>a, EndStep, NothingFacts
<1>3. CASE Outside
  BY <1>3, <1>a, OutsideStep DEF Open
<1>4. CASE StartJob \/ Resume
  BY <1>4, <1>a, BeginStep, NothingFacts
<1>5. CASE Seed \/ Head \/ Select \/ (\E u \in Tasks : Enter(u)) \/ LeaveEntries \/ CycleEnd \/ Finish
  <2>1. Between /\ (disk'.tasks = progress' \/ disk' = disk)
    BY <1>5, BetweenStep
  <2> QED BY <1>a, <2>1 DEF Between, Follows
<1>6. CASE UNCHANGED vars
  BY <1>6, <1>a DEF vars
<1> QED BY <1>1, <1>2, <1>3, <1>4, <1>5, <1>6, Groups

LEMMA FinishedStep == Inv /\ [Next]_vars => Finished'
<1> SUFFICES ASSUME Inv, [Next]_vars PROVE Finished'
  OBVIOUS
<1> USE DEF Inv
<1>a. opts.list \subseteq Tasks
  BY DEF Types, LocalsOK
<1>b. job # "completed" \/ (At("idle") /\ AllDone)
  BY DEF Finished
<1>1. CASE EntrySteps
  <2>1. EntryEffect /\ Going /\ ~At("start") /\ job # "completed"
    BY <1>1, <1>b, EntryStep DEF EntryEffect, Going, At, InEntry, Steps
  <2>2. \A t \in opts.list : progress'[t].status # "absent"
    <3> SUFFICES ASSUME NEW t \in opts.list PROVE progress'[t].status # "absent"
      OBVIOUS
    <3>1. progress[t].status # "absent"
      BY <2>1 DEF Finished
    <3> QED BY <1>a, <2>1, <3>1 DEF EntryEffect
  <2> QED BY <2>1, <2>2 DEF EntryEffect, Finished, Going, At, InEntry, Steps
<1>2. CASE Ends
  <2>1. job' = "completed" => AllDone
    BY <1>b, <1>2, EndStep DEF Finished, At
  <2> QED BY <1>2, <2>1, EndStep DEF Finished, Going, At, AllDone
<1>3. CASE Outside
  BY <1>3, <1>b, OutsideStep DEF Finished, Going, At, AllDone
<1>4. CASE StartJob \/ Resume
  BY <1>4, BeginStep DEF Finished, Going, At
<1>5. CASE Seed \/ Head \/ Select \/ (\E t \in Tasks : Enter(t)) \/ LeaveEntries \/ CycleEnd \/ Finish
  <2>1. Between /\ job' # "completed"
    BY <1>5, <1>b, BetweenStep DEF Between, Going
  <2>2. \A t \in opts.list : progress'[t].status # "absent"
    <3> SUFFICES ASSUME NEW t \in opts.list PROVE progress'[t].status # "absent"
      OBVIOUS
    <3>1. CASE Seed
      BY <3>1, SeedStep
    <3>2. CASE ~Seed
      <4>1. ~At("start")
        BY <1>5, <3>2, HeadStep, SelectStep, EnterStep, RestStep DEF At
      <4>2. progress[t].status # "absent"
        BY <2>1, <4>1 DEF Finished, Between
      <4> QED BY <1>a, <2>1, <4>2 DEF Between, Follows
    <3> QED BY <3>1, <3>2
  <2>3. CASE Seed \/ Head \/ Select
    BY <2>1, <2>2, <2>3, SeedStep, HeadStep, SelectStep DEF Between, Finished, At
  <2>4. CASE \E t \in Tasks : Enter(t)
    BY <2>1, <2>2, <2>4, EnterStep DEF Between, Finished, At
  <2>5. CASE LeaveEntries \/ CycleEnd \/ Finish
    <3>1. run'.pc = "final" /\ run'.end = "completed" => AllDone'
      <4> SUFFICES ASSUME run'.pc = "final", run'.end = "completed" PROVE AllDone'
        OBVIOUS
      <4>1. /\ At("finish") /\ ~run.abort /\ disk' = disk
            /\ \A t \in Tasks : progress[t].status \in {"absent", "completed"}
        BY <2>5, RestStep DEF At
      <4>2. progress = disk'.tasks
        BY <4>1 DEF Finished
      <4> QED BY <1>a, <2>1, <2>2, <2>5, <4>1, <4>2, RestStep DEF AllDone, Between
    <3> QED BY <2>1, <2>2, <2>5, <3>1, RestStep DEF Between, Finished, At
  <2> QED BY <1>5, <2>3, <2>4, <2>5
<1>6. CASE UNCHANGED vars
  BY <1>6 DEF vars, Finished, Going, At, AllDone
<1> QED BY <1>1, <1>2, <1>3, <1>4, <1>5, <1>6, Groups

LEMMA GatedStep == Inv /\ [Next]_vars => Gated'
<1> SUFFICES ASSUME Inv, [Next]_vars PROVE Gated'
  OBVIOUS
<1> USE DEF Inv
<1>1. CASE EntrySteps
  <2>1. EntryEffect
    BY <1>1, EntryStep
  <2>2. \A d \in Tasks \ {T} : Gate(d) => Gate(d)'
    BY <2>1 DEF EntryEffect, Gate
  <2>3. \A u \in run.todo \cup {T} : \A d \in Tasks \ {u} :
          <<u, d>> \in Deps => Gate(d)' \/ (run.tried /\ d = T)
    <3> SUFFICES ASSUME NEW u \in run.todo \cup {T}, NEW d \in Tasks \ {u}, <<u, d>> \in Deps,
                        ~(run.tried /\ d = T)
                 PROVE  Gate(d)'
      OBVIOUS
    <3>1. Gate(d)
      BY <2>1 DEF EntryEffect, Gated
    <3>2. CASE d = T
      BY <2>1, <3>1, <3>2 DEF EntryEffect, Gate
    <3> QED BY <2>2, <3>1, <3>2
  <2>4. CASE run'.pc \in InEntry
    BY <2>1, <2>3, <2>4 DEF EntryEffect, Gated, At, T, InEntry, Steps
  <2>5. CASE run'.pc = "next"
    <3>1. \A d \in Tasks : d = T /\ progress[T].status = "completed" => Gate(d)'
      BY <2>1, <2>5 DEF EntryEffect, DoneInRow, Gate, ReadyDependency
    <3> QED BY <2>1, <2>3, <2>5, <3>1 DEF EntryEffect, Gated, At, InEntry, Steps
  <2> QED BY <2>1, <2>4, <2>5 DEF EntryEffect, Gated, At, InEntry, Steps
<1>2. CASE Ends
  BY <1>2, EndStep DEF Gated, At, InEntry, Steps
<1>3. CASE Outside
  <2>1. \A d \in Tasks : Gate(d) => Gate(d)'
    BY <1>3, OutsideStep DEF Gate, ReadyDependency
  <2>2. run' = run
    BY <1>3, OutsideStep
  <2>3. run.todo \subseteq Tasks
    BY DEF Types, TypeOK
  <2> QED BY <2>1, <2>2, <2>3 DEF Gated, At, T
<1>4. CASE StartJob \/ Resume
  BY <1>4, BeginStep DEF Gated, At, InEntry, Steps
<1>5. CASE Seed \/ Head \/ LeaveEntries \/ CycleEnd \/ Finish
  BY <1>5, SeedStep, HeadStep, RestStep DEF Gated, At, InEntry, Steps
<1>6. CASE Select
  <2>1. run'.pc = "next" /\ row' = row /\ run'.todo \subseteq Selected
    BY <1>6, SelectStep
  <2> QED BY <2>1 DEF Gated, At, InEntry, Steps, Selected, DependenciesReady, Gate
<1>7. ASSUME NEW t \in Tasks, Enter(t) PROVE Gated'
  <2>1. /\ Between /\ run.pc = "next" /\ t \in run.todo /\ row' = row
        /\ run'.todo = run.todo \ {t}
        /\ run'.pc = "next" \/ (run'.pc = "inner" /\ run'.task = t)
    BY <1>7, EnterStep
  <2>2. \A d \in Tasks : Gate(d)' = Gate(d)
    BY <2>1 DEF Between, Gate
  <2>3. \A u \in run.todo : \A d \in Tasks \ {u} : <<u, d>> \in Deps => Gate(d)'
    BY <2>1, <2>2 DEF Gated, At
  <2>4. CASE run'.pc = "next"
    BY <2>1, <2>3, <2>4 DEF Gated, At, InEntry, Steps
  <2>5. CASE run'.pc = "inner"
    BY <2>1, <2>3, <2>5 DEF Gated, At, T
  <2> QED BY <2>1, <2>4, <2>5
<1>8. CASE UNCHANGED vars
  BY <1>8 DEF vars, Gated, At, T, Gate
<1> QED BY <1>1, <1>2, <1>3, <1>4, <1>5, <1>6, <1>7, <1>8, Groups

(* The parts are inductive together. *)
THEOREM Invariant == Spec => []Inv
<1>1. Inv /\ [Next]_vars => Inv'
  BY TypesStep, UntoldStep, CountedStep, RememberedStep, DoneInRowStep, FinishedStep, GatedStep
     DEF Inv
<1> QED BY InvInit, <1>1, PTL DEF Spec

-----------------------------------------------------------------------------
(* The properties.                                                          *)

(* No exception, time-out, kill or resume grants a task another attempt:    *)
(* the limit of --max-iterations holds over all processes of the job.       *)
THEOREM AttemptsBounded == Spec => []WorkIsCounted
<1>1. Inv => WorkIsCounted
  <2> SUFFICES ASSUME Inv, NEW t \in Tasks, ~Continuous
               PROVE  workRuns[t] <= opts.limit
    BY DEF Inv, Types, Counted, WorkIsCounted
  <2>1. workRuns[t] <= disk.tasks[t].attempts /\ disk.tasks[t].attempts <= opts.limit
    BY DEF Inv, Counted
  <2>2. workRuns[t] \in Nat /\ disk.tasks[t].attempts \in Nat /\ opts.limit \in Nat
    BY DEF Inv, Types, TypeOK, LocalsOK, Progress
  <2> QED BY <2>1, <2>2
<1> QED BY Invariant, <1>1, PTL

(* A job is only marked completed when everything it named or took up is    *)
(* completed on disk, and in its row unless an abandoned step rewrote it.   *)
THEOREM CompletedIsTrue == Spec => []CompletedMeansDone
<1>1. Inv => CompletedMeansDone
  BY DEF Inv, Finished, AllDone, DoneInRow, CompletedMeansDone
<1> QED BY Invariant, <1>1, PTL

(* A closed task is not the one in hand, so no step of it starts.           *)
LEMMA ClosedNotStarted ==
  ASSUME Inv, NEW t \in Tasks, Closed(disk.tasks[t])
  PROVE  ~Starts(t)
<1> SUFFICES ASSUME Starts(t) PROVE FALSE
  OBVIOUS
<1>1. progress[t].status = "pending" /\ Going
  BY DEF Inv, Remembered, Running, Judging, Starts, T, Going, At
<1>2. progress[t] = disk.tasks[t]
  BY <1>1 DEF Inv, Remembered
<1> QED BY <1>1, <1>2 DEF Closed, GivenUp

(* What a step may make of a closed task's entry in state.json.             *)
LEMMA ClosedOnDisk ==
  ASSUME Inv, [Next]_vars, NEW t \in Tasks, Closed(disk.tasks[t])
  PROVE  /\ GivenUp(disk.tasks[t]) => GivenUp(disk'.tasks[t]) \/ row[t].status \in {"completed", "cancelled"}
         /\ disk.tasks[t].status = "completed" =>
              \/ disk'.tasks[t].status = "completed"
              \/ t \in overwritten /\ row[t].status = "cancelled"
<1> USE DEF Inv
<1>a. Going => progress[t] = disk.tasks[t]
  BY DEF Remembered
<1>1. CASE disk'.tasks = disk.tasks
  BY <1>1
<1>2. CASE EntrySteps /\ disk'.tasks = progress'
  <2>1. EntryEffect /\ Going
    BY <1>2, EntryStep DEF EntryEffect, Going, At, InEntry, Steps
  <2>2. CASE t # T
    BY <1>a, <1>2, <2>1, <2>2 DEF EntryEffect
  <2>3. CASE t = T
    <3>1. run.pc \notin Running
      BY <1>a, <2>1, <2>3 DEF Remembered, Closed, GivenUp
    <3> QED BY <1>1, <2>1, <3>1 DEF EntryEffect, InEntry, Running, Judging
  <2> QED BY <2>2, <2>3
<1>3. CASE StartJob \/ Resume
  BY <1>1, <1>3, BeginStep DEF Untold
<1>4. CASE /\ Seed \/ Head \/ Select \/ (\E u \in Tasks : Enter(u)) \/ LeaveEntries \/ CycleEnd \/ Finish
           /\ disk'.tasks = progress'
  <2>1. Between
    BY <1>4, BetweenStep
  <2>2. Follows(t) /\ progress[t] = disk.tasks[t]
    BY <1>a, <2>1 DEF Between
  <2> QED BY <1>4, <2>2 DEF Follows, DoneInRow
<1>5. CASE EntrySteps /\ disk' = disk
  BY <1>1, <1>5
<1>6. CASE Ends \/ Outside \/ UNCHANGED vars
  BY <1>1, <1>6, EndStep, OutsideStep DEF vars
<1> QED
  <2>1. EntrySteps => disk'.tasks = progress' \/ disk' = disk
    BY EntryStep DEF EntryEffect
  <2> QED BY <1>1, <1>2, <1>3, <1>4, <1>5, <1>6, <2>1, BetweenStep, Groups

(* A task given up on disk is never started again, by whichever process     *)
(* reads the file, and leaves that state only for its row's own end.        *)
THEOREM GivenUpStays == Spec => GivenUpForGood
<1>1. Inv /\ [Next]_vars =>
        [\A t \in Tasks : GivenUp(disk.tasks[t]) =>
           /\ ~Starts(t)
           /\ GivenUp(disk'.tasks[t]) \/ row[t].status \in {"completed", "cancelled"}]_vars
  BY ClosedNotStarted, ClosedOnDisk DEF Closed
<1> QED BY Invariant, <1>1, PTL DEF Spec, GivenUpForGood

(* A task recorded as completed is never started again and stays completed, *)
(* but for a row that an abandoned step opened and an operator cancelled.   *)
THEOREM CompletedStays == Spec => DoneStaysDone
<1>1. Inv /\ [Next]_vars =>
        [\A t \in Tasks : disk.tasks[t].status = "completed" =>
           /\ ~Starts(t)
           /\ \/ disk'.tasks[t].status = "completed"
              \/ t \in overwritten /\ row[t].status = "cancelled"]_vars
  BY ClosedNotStarted, ClosedOnDisk DEF Closed
<1> QED BY Invariant, <1>1, PTL DEF Spec, DoneStaysDone

(* However old the selection is, no step starts while another task it       *)
(* depends on has fallen back to work.                                      *)
THEOREM DependenciesGate == Spec => DependencyGate
<1>1. Inv /\ [Next]_vars =>
        [\A t \in Tasks : \A d \in Tasks \ {t} : Starts(t) /\ <<t, d>> \in Deps =>
           row[d].status \in ReadyDependency \/ d \in overwritten]_vars
  BY DEF Inv, Gated, Gate, Starts, InEntry, T
<1> QED BY Invariant, <1>1, PTL DEF Spec, DependencyGate

=============================================================================
