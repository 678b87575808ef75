--------------------------- MODULE NodeStateProofs ---------------------------
(* Theorems about NodeState, for any number of jobs, owner commands and     *)
(* crashes.                                                                 *)
EXTENDS NodeState, TLAPS

Labels ==
  {"off", "idle", "ensure", "enrol", "openEnrolled", "writeEnrolled", "token", "health", "say",
   "check", "send", "sent", "run", "mark", "openMark", "writeMark", "edit", "openEdit",
   "writeEdit", "openSetup", "writeSetup", "sync"}

LEMMA Names ==
  /\ "cli" \in Chains /\ "cli" \notin Daemon /\ Chains = Daemon \cup {"cli"}
  /\ "beat" \in Daemon /\ "poll" \in Daemon /\ Jobs \subseteq Daemon
  /\ {"beat", "poll", "cli"} \subseteq Chains /\ Jobs \cup {"poll"} \subseteq Chains
  /\ {"beat", "poll", "cli"} \cap Jobs = {}
BY NodeAssumption DEF Chains, Daemon

LEMMA StateTypes ==
  /\ Blank \in States /\ ~Blank.node /\ ~Blank.degraded
  /\ \A k, s : Holding(k, s).kind = k /\ Holding(k, s).state = s
  /\ \A s \in States : s.node \in BOOLEAN /\ s.degraded \in BOOLEAN
BY DEF Blank, States, Holding

(* What a chain's move leaves alone.                                        *)
LEMMA Moved ==
  ASSUME TypeOK, NEW c \in Chains, NEW l \in Labels
  PROVE  /\ Goes(c, l) => /\ pc' \in [Chains -> Labels] /\ pc'[c] = l
                          /\ \A d \in Chains \ {c} : pc'[d] = pc[d]
         /\ Ends(c) => /\ pc' \in [Chains -> Labels] /\ pc'[c] = "idle"
                       /\ \A d \in Chains \ {c} :
                            pc'[d] = pc[d] \/ (d = "poll" /\ pc[d] = "off" /\ pc'[d] = "idle"
                                               /\ c = "beat")
BY Names DEF TypeOK, Goes, Ends, Labels

-----------------------------------------------------------------------------
(* Types.                                                                   *)

LEMMA TypesInit == Init => TypeOK
<1> SUFFICES ASSUME Init PROVE TypeOK
  OBVIOUS
<1>1. /\ file \in [kind : {"absent", "emptied", "garbled", "whole"}, state : States]
      /\ file.kind # "whole" => file.state = Blank
  <2>1. [Blank EXCEPT !.node = TRUE] \in States
    BY DEF Blank, States
  <2>2. \/ file = Holding("absent", Blank)
        \/ file = Holding("whole", [Blank EXCEPT !.node = TRUE])
    BY DEF Init
  <2>3. ASSUME NEW k \in {"absent", "whole"}, NEW s \in States
        PROVE  Holding(k, s) \in [kind : {"absent", "emptied", "garbled", "whole"}, state : States]
    BY DEF Holding
  <2> QED BY <2>1, <2>2, <2>3, StateTypes
<1>2. pc \in [Chains -> Labels] /\ draft \in [Chains -> States] /\ report \in [Chains -> BOOLEAN]
      /\ routes \in [Jobs -> 0..2]
  BY StateTypes DEF Init, Labels
<1>3. Edits + 2 \in Nat /\ 0 \in 0..Edits /\ 0 \in 0..Crashes /\ 0 \in 0..(Edits + 2)
  BY NodeAssumption
<1> QED BY <1>1, <1>2, <1>3 DEF Init, TypeOK, Labels

(* Whichever step is taken, the file is left alone, emptied or written.     *)
FileStep ==
  \/ UNCHANGED <<file, draft>>
  \/ Opens /\ UNCHANGED draft
  \/ \E c \in Chains : Writes(c)
  \/ \E c \in Chains, s \in States : file' = file /\ draft' = [draft EXCEPT ![c] = s]
  \/ file' = file /\ draft' = [c \in Chains |-> IF c = "cli" THEN draft[c] ELSE Blank]

LEMMA Redrafted ==
  /\ UNCHANGED <<file, draft>> => FileStep
  /\ \A c \in Chains, s \in States : file' = file /\ draft' = [draft EXCEPT ![c] = s] => FileStep
BY DEF FileStep

LEMMA FileTypes ==
  ASSUME TypeOK, FileStep
  PROVE  /\ file' \in [kind : {"absent", "emptied", "garbled", "whole"}, state : States]
         /\ file'.kind # "whole" => file'.state = Blank
         /\ draft' \in [Chains -> States]
<1>1. CASE UNCHANGED <<file, draft>>
  BY <1>1 DEF TypeOK
<1>2. CASE Opens /\ UNCHANGED draft
  BY <1>2, StateTypes DEF TypeOK, Opens, Holding
<1>3. ASSUME NEW c \in Chains, Writes(c)
      PROVE  /\ file' \in [kind : {"absent", "emptied", "garbled", "whole"}, state : States]
             /\ file'.kind # "whole" => file'.state = Blank
             /\ draft' \in [Chains -> States]
  BY <1>3, StateTypes DEF TypeOK, Writes, Holding
<1>4. CASE \E c \in Chains, s \in States : file' = file /\ draft' = [draft EXCEPT ![c] = s]
  BY <1>4 DEF TypeOK
<1>5. CASE file' = file /\ draft' = [c \in Chains |-> IF c = "cli" THEN draft[c] ELSE Blank]
  BY <1>5, StateTypes DEF TypeOK
<1> QED BY <1>1, <1>2, <1>3, <1>4, <1>5 DEF FileStep

LEMMA TypesFrom ==
  ASSUME TypeOK, FileStep, pc' \in [Chains -> Labels], report' \in [Chains -> BOOLEAN],
         routes' \in [Jobs -> 0..2],
         token' \in BOOLEAN, up' \in BOOLEAN, disabled' \in BOOLEAN, gateway' \in BOOLEAN,
         invited' \in {"no", "yes", "used"}, edits' \in 0..Edits, crashes' \in 0..Crashes,
         late' \in 0..(Edits + 2),
         crossed' \in BOOLEAN, marked' \in BOOLEAN, standing' \in BOOLEAN
  PROVE  TypeOK'
BY FileTypes DEF TypeOK, Labels

LEMMA TypesStep == TypeOK /\ [Next]_vars => TypeOK'
<1> SUFFICES ASSUME TypeOK, [Next]_vars PROVE TypeOK'
  OBVIOUS
<1>a. /\ pc \in [Chains -> Labels] /\ report \in [Chains -> BOOLEAN]
      /\ routes \in [Jobs -> 0..2] /\ draft \in [Chains -> States] /\ file.state \in States
      /\ token \in BOOLEAN /\ up \in BOOLEAN /\ disabled \in BOOLEAN /\ gateway \in BOOLEAN
      /\ invited \in {"no", "yes", "used"} /\ edits \in 0..Edits /\ crashes \in 0..Crashes
      /\ late \in 0..(Edits + 2)
      /\ crossed \in BOOLEAN /\ marked \in BOOLEAN /\ standing \in BOOLEAN
      /\ Edits \in Nat /\ Crashes \in Nat
  BY NodeAssumption DEF TypeOK, Labels
<1>b. /\ crashes < Crashes => crashes + 1 \in 0..Crashes
      /\ edits < Edits => edits + 1 \in 0..Edits
      /\ late < Edits + 2 => late + 1 \in 0..(Edits + 2)
      /\ 0 \in 0..(Edits + 2)
  BY <1>a
<1> USE <1>a, Names, StateTypes
<1>1. CASE Start
  BY <1>1, TypesFrom DEF Start, history, FileStep, Labels
<1>2. CASE Crash
  <2>1. pc' \in [Chains -> Labels] /\ report' \in [Chains -> BOOLEAN] /\ routes' \in [Jobs -> 0..2]
    <3>1. pc' = [c \in Chains |-> IF c = "cli" THEN pc[c] ELSE "off"] /\ "off" \in Labels
      BY <1>2 DEF Crash, Labels
    <3>2. report' = [c \in Chains |-> IF c = "cli" THEN report[c] ELSE FALSE]
      BY <1>2 DEF Crash
    <3>3. routes' = [j \in Jobs |-> 0]
      BY <1>2 DEF Crash
    <3>4. pc' \in [Chains -> Labels]
      BY <3>1
    <3>5. report' \in [Chains -> BOOLEAN]
      BY <3>2
    <3> QED BY <3>3, <3>4, <3>5
  <2>2. FileStep
    BY <1>2 DEF Crash, FileStep
  <2>3. UNCHANGED <<token, invited, gateway, edits, standing>>
    BY <1>2 DEF Crash
  <2>4. /\ up' \in BOOLEAN /\ disabled' \in BOOLEAN /\ crossed' \in BOOLEAN /\ marked' \in BOOLEAN
        /\ crashes' \in 0..Crashes /\ late' \in 0..(Edits + 2)
    BY <1>2, <1>b DEF Crash
  <2> QED BY <2>1, <2>2, <2>3, <2>4, TypesFrom
<1>3. CASE Interrupt
  BY <1>3, <1>b, TypesFrom, Moved DEF Interrupt, FileStep, Labels
<1>4. CASE BeginBeat \/ BeginPoll
  BY <1>4, TypesFrom, Moved DEF BeginBeat, BeginPoll, history, FileStep, Labels
<1>5. CASE CheckPoll
  BY <1>5, TypesFrom, Moved DEF CheckPoll, history, FileStep, Labels
<1>6. CASE SendPoll
  BY <1>6, <1>b, TypesFrom, Moved DEF SendPoll, FileStep, Labels
<1>7. CASE Answer
  BY <1>7, TypesFrom, Moved DEF Answer, history, FileStep, Labels
<1>8. CASE Setup \/ BeginEdit
  <2>1. [node |-> TRUE, degraded |-> FALSE] \in States
    BY DEF States
  <2>2. pc' \in [Chains -> Labels] /\ edits' \in 0..Edits
    BY <1>8, <1>b, Moved DEF Setup, BeginEdit, Labels
  <2>4. FileStep
    <3>1. CASE Setup
      BY <2>1, <3>1, Redrafted DEF Setup
    <3>2. CASE BeginEdit
      BY <3>2, Redrafted DEF BeginEdit
    <3> QED BY <1>8, <3>1, <3>2
  <2>3. UNCHANGED <<token, invited, up, disabled, report, routes, gateway, crashes, history>>
    BY <1>8 DEF Setup, BeginEdit, history
  <2> QED BY <2>2, <2>3, <2>4, TypesFrom DEF history
<1>9. ASSUME NEW c \in Chains, NEW l, NEW m \in Labels, Open(c, l, m) PROVE TypeOK'
  BY <1>9, TypesFrom, Moved DEF Open, FileStep
<1>10. CASE OpenSetup \/ OpenEdit
  BY <1>9, <1>10 DEF OpenSetup, OpenEdit, Labels
<1>11. CASE WriteSetup \/ WriteEdit
  <2>1. pc' \in [Chains -> Labels] /\ Writes("cli")
    BY <1>11, Moved DEF WriteSetup, WriteEdit, Labels
  <2>2. FileStep /\ crossed' \in BOOLEAN
    BY <2>1 DEF FileStep, Writes
  <2>3. /\ UNCHANGED <<token, invited, up, disabled, report, routes, gateway, edits, crashes,
                       marked, late>>
        /\ standing' \in BOOLEAN
    BY <1>11 DEF WriteSetup, WriteEdit
  <2> QED BY <2>1, <2>2, <2>3, TypesFrom
<1>12. CASE Edit
  <2>1. pc' \in [Chains -> Labels]
    BY <1>12, Moved DEF Edit, Labels
  <2>2. FileStep
    BY <1>12, Redrafted DEF Edit
  <2> QED BY <1>12, <2>1, <2>2, TypesFrom DEF Edit
<1>13. CASE Sync
  BY <1>13, TypesFrom, Moved DEF Sync, history, FileStep, Labels
<1>14. ASSUME NEW c \in {"beat", "poll", "cli"}, Enrolling(c) PROVE TypeOK'
  <2>0. c \in Chains
    OBVIOUS
  <2>1. CASE Ensure(c)
    <3>1. [file.state EXCEPT !.node = TRUE, !.degraded = FALSE] \in States
      BY DEF States
    <3>2. /\ pc' \in [Chains -> Labels]
          /\ \/ draft' = draft
             \/ \E s \in States : draft' = [draft EXCEPT ![c] = s]
      BY <2>1, <3>1, Moved DEF Ensure, Labels, Enrolled
    <3> QED BY <2>1, <3>2, TypesFrom DEF Ensure, FileStep
  <2>2. CASE Enrol(c)
    <3>1. pc' \in [Chains -> Labels]
      BY <2>2, Moved DEF Enrol, Labels
    <3>2. FileStep
      BY <2>2, Redrafted DEF Enrol
    <3> QED BY <2>2, <3>1, <3>2, TypesFrom DEF Enrol, history
  <2>3. CASE OpenEnrolled(c)
    BY <2>3, <1>9 DEF OpenEnrolled, Labels
  <2>4. CASE WriteEnrolled(c)
    BY <2>4, TypesFrom, Moved DEF WriteEnrolled, Writes, FileStep, Labels
  <2> QED BY <1>14, <2>1, <2>2, <2>3, <2>4 DEF Enrolling
<1>15. ASSUME NEW c \in {"beat", "poll", "cli"}, Beating(c) PROVE TypeOK'
  <2>1. CASE Health(c)
    BY <2>1, TypesFrom, Moved DEF Health, Verdict, history, FileStep, Labels
  <2>2. CASE Heard(c) \/ NotHeard(c)
    <3>1. "idle" \in Labels /\ FileStep
      BY <2>2 DEF Heard, NotHeard, FileStep, Labels
    <3>2. pc' \in [Chains -> Labels]
      BY <2>2, <3>1, Moved DEF Heard, NotHeard
    <3> QED BY <2>2, <3>1, <3>2, TypesFrom DEF Heard, NotHeard, history
  <2>3. CASE WriteToken(c)
    BY <2>3, TypesFrom, Moved DEF WriteToken, Stored, Enrolled, history, FileStep, Labels
  <2> QED BY <1>15, <2>1, <2>2, <2>3 DEF Beating
<1>16. ASSUME NEW c \in Jobs \cup {"poll"}, MissingRoute(c) \/ Marking(c) PROVE TypeOK'
  <2>1. CASE MissingRoute(c)
    <3>1. routes' \in [Jobs -> 0..2]
      BY <2>1 DEF MissingRoute, MeetsNoRoute
    <3> QED BY <2>1, <3>1, TypesFrom, Moved DEF MissingRoute, FileStep, Labels
  <2>2. CASE Mark(c)
    <3>1. [file.state EXCEPT !.degraded = TRUE] \in States
      BY DEF States
    <3>2. pc' \in [Chains -> Labels]
      BY <2>2, Moved DEF Mark, Labels
    <3>3. FileStep
      BY <2>2, <3>1, Redrafted DEF Mark
    <3>4. crossed' \in BOOLEAN
      BY <2>2 DEF Mark
    <3> QED BY <2>2, <3>2, <3>3, <3>4, TypesFrom DEF Mark
  <2>3. CASE OpenMark(c)
    BY <2>3, <1>9 DEF OpenMark, Labels
  <2>4. CASE WriteMark(c)
    BY <2>4, TypesFrom, Moved DEF WriteMark, Writes, FileStep, Labels
  <2> QED BY <1>16, <2>1, <2>2, <2>3, <2>4 DEF Marking
<1>17. ASSUME NEW j \in Jobs, EndJob(j) PROVE TypeOK'
  <2>1. routes' \in [Jobs -> 0..2]
    BY <1>17 DEF EndJob
  <2> QED BY <1>17, <2>1, TypesFrom, Moved DEF EndJob, history, FileStep, Labels
<1>18. CASE UNCHANGED vars
  BY <1>18 DEF vars, TypeOK
<1> QED BY <1>1, <1>2, <1>3, <1>4, <1>5, <1>6, <1>7, <1>8, <1>10, <1>11, <1>12, <1>13, <1>14, <1>15,
           <1>16, <1>17, <1>18 DEF Next, Polling, Command

-----------------------------------------------------------------------------
(* Where each chain can be.                                                 *)

Enrolment == {"enrol", "openEnrolled", "writeEnrolled"}
Beat      == {"idle", "ensure", "token", "health", "say"}
Marks     == {"mark", "openMark", "writeMark"}
Places(c) ==
  CASE c = "beat" -> {"off"} \cup Beat \cup Enrolment
    [] c = "poll" -> {"off", "idle", "check", "ensure", "token", "send", "sent"} \cup Enrolment \cup Marks
    [] c = "cli"  -> Beat \cup {"edit", "openEdit", "writeEdit", "openSetup", "writeSetup", "sync"}
    [] OTHER      -> {"off", "idle", "run"} \cup Marks

Where ==
  /\ \A c \in Chains : pc[c] \in Places(c)
  /\ ~up => \A c \in Daemon : pc[c] = "off"

LEMMA PlacesOf ==
  /\ Places("beat") = {"off"} \cup Beat \cup Enrolment
  /\ Places("poll") = {"off", "idle", "check", "ensure", "token", "send", "sent"}
                        \cup Enrolment \cup Marks
  /\ Places("cli") = Beat \cup {"edit", "openEdit", "writeEdit", "openSetup", "writeSetup", "sync"}
  /\ \A j \in Jobs : Places(j) = {"off", "idle", "run"} \cup Marks
BY Names DEF Places

LEMMA WhereFrom ==
  ASSUME TypeOK, Where, NEW c \in Chains, NEW l \in Places(c), pc[c] # "off", up' = up,
         Goes(c, l) \/ Ends(c), "idle" \in Places(c)
  PROVE  Where'
<1>1. pc[c] \in Labels /\ l \in Labels
  BY Names, PlacesOf DEF TypeOK, Labels, Beat, Enrolment, Marks, Chains, Daemon
<1>2. CASE Goes(c, l)
  BY <1>1, <1>2, Moved, Names DEF Where
<1>3. CASE Ends(c)
  <2>1. "idle" \in Places("poll")
    BY PlacesOf
  <2> QED BY <1>1, <1>3, <2>1, Moved, Names DEF Where
<1> QED BY <1>2, <1>3

LEMMA WhereStep == TypeOK /\ Where /\ [Next]_vars => Where'
<1> SUFFICES ASSUME TypeOK, Where, [Next]_vars PROVE Where'
  OBVIOUS
<1>a. \A c \in Chains : "idle" \in Places(c)
  BY Names, PlacesOf DEF Beat, Chains, Daemon
<1> USE Names, PlacesOf
<1>1. CASE Start
  <2>1. /\ pc'["beat"] = "ensure" /\ up'
        /\ \A d \in Chains : d # "beat" => pc'[d] = pc[d]
    BY <1>1 DEF Start, TypeOK
  <2> QED BY <2>1 DEF Where, Beat
<1>2. CASE Crash
  <2>1. \A c \in Chains : pc'[c] = IF c = "cli" THEN pc[c] ELSE "off"
    BY <1>2 DEF Crash
  <2> QED BY <2>1 DEF Where, Chains, Daemon
<1>3. CASE Interrupt \/ Setup \/ OpenSetup \/ WriteSetup \/ BeginEdit \/ Edit \/ OpenEdit
           \/ WriteEdit \/ Sync
  <2>1. up' = up /\ pc["cli"] # "off"
    BY <1>3 DEF Interrupt, Setup, OpenSetup, WriteSetup, BeginEdit, Edit, OpenEdit, WriteEdit, Sync,
               Open, At, Where, Beat
  <2>2. \E l \in Places("cli") : Goes("cli", l)
    BY <1>3 DEF Interrupt, Setup, OpenSetup, WriteSetup, BeginEdit, Edit, OpenEdit, WriteEdit, Sync,
               Open, Beat
  <2> QED BY <2>1, <2>2, <1>a, WhereFrom
<1>4. CASE BeginBeat \/ BeginPoll \/ CheckPoll \/ SendPoll
  <2>1. \E c \in Chains : \E l \in Places(c) : Goes(c, l) /\ pc[c] # "off" /\ up' = up
    BY <1>4 DEF BeginBeat, BeginPoll, CheckPoll, SendPoll, At, Beat
  <2> QED BY <2>1, <1>a, WhereFrom
<1>5. CASE Answer
  <2>1. up' = up /\ pc["poll"] = "sent"
    BY <1>5 DEF Answer, At
  <2>2. CASE Goes("poll", "idle")
    BY <2>1, <2>2, <1>a, WhereFrom
  <2>3. ASSUME NEW j \in Jobs, pc' = [pc EXCEPT !["poll"] = "idle", ![j] = "run"] PROVE Where'
    <3>1. /\ pc'["poll"] = "idle" /\ pc'[j] = "run"
          /\ \A d \in Chains : d \notin {"poll", j} => pc'[d] = pc[d]
      BY <2>3 DEF TypeOK
    <3> QED BY <2>1, <3>1, <1>a DEF Where
  <2> QED BY <1>5, <2>2, <2>3 DEF Answer
<1>6. ASSUME NEW c \in {"beat", "poll", "cli"}, Enrolling(c) \/ Beating(c) PROVE Where'
  <2>1. up' = up /\ pc[c] # "off"
    BY <1>6 DEF Enrolling, Beating, Ensure, Enrol, OpenEnrolled, WriteEnrolled, Open, Health, Heard,
               NotHeard, WriteToken, At
  <2>2. Ends(c) \/ \E l \in Places(c) : Goes(c, l)
    <3>1. CASE c = "cli"
      <4>1. pc[c] \notin Enrolment
        BY <3>1 DEF Where, Beat, Enrolment
      <4> QED BY <1>6, <3>1, <4>1 DEF Enrolling, Beating, Ensure, Enrol, OpenEnrolled, WriteEnrolled,
                 Open, Health, Heard, NotHeard, WriteToken, At, Enrolled, Stored, Beat, Enrolment
    <3>2. CASE c = "beat"
      BY <1>6, <3>2 DEF Enrolling, Beating, Ensure, Enrol, OpenEnrolled, WriteEnrolled,
                 Open, Health, Heard, NotHeard, WriteToken, At, Enrolled, Stored, Beat, Enrolment
    <3>3. CASE c = "poll"
      <4>1. pc[c] \notin {"health", "say"}
        BY <3>3 DEF Where, Enrolment, Marks
      <4> QED BY <1>6, <3>3, <4>1 DEF Enrolling, Beating, Ensure, Enrol, OpenEnrolled, WriteEnrolled,
                 Open, Health, Heard, NotHeard, WriteToken, At, Enrolled, Stored, Enrolment
    <3> QED BY <3>1, <3>2, <3>3
  <2> QED BY <2>1, <2>2, <1>a, WhereFrom
<1>7. ASSUME NEW c \in Jobs \cup {"poll"}, MissingRoute(c) \/ Marking(c) PROVE Where'
  <2>1. up' = up /\ pc[c] # "off"
    BY <1>7 DEF MissingRoute, MeetsNoRoute, Marking, Mark, OpenMark, WriteMark, Open, At
  <2>2. \E l \in Places(c) : Goes(c, l)
    BY <1>7 DEF MissingRoute, Marking, Mark, OpenMark, WriteMark, Open, Marks
  <2> QED BY <2>1, <2>2, <1>a, WhereFrom
<1>8. ASSUME NEW j \in Jobs, EndJob(j) PROVE Where'
  BY <1>8, <1>a, WhereFrom DEF EndJob, At
<1>9. CASE UNCHANGED vars
  BY <1>9 DEF vars, Where
<1> QED BY <1>1, <1>2, <1>3, <1>4, <1>5, <1>6, <1>7, <1>8, <1>9 DEF Next, Polling, Command

-----------------------------------------------------------------------------
(* The invariant of the state file.                                         *)

Rewriting == {"openEnrolled", "writeEnrolled", "openMark", "writeMark", "openEdit", "writeEdit",
              "openSetup", "writeSetup"}
Held      == Rewriting \cup {"enrol"}
Holds(c)  == pc[c] \in Held

(* What a chain has learnt where it is.                                     *)
Known ==
  /\ token => file.kind # "absent"
  /\ \A c \in Chains : pc[c] \in {"token", "edit"} => file.kind # "absent"
  /\ \A c \in Chains : pc[c] \in {"run", "send", "sent"} \cup Marks => token

(* Until two rewrites meet, the file is empty exactly while one of them is  *)
(* between its two halves, and every draft names the node.                  *)
Clean ==
  ~crossed =>
    /\ \A c \in Chains : Holds(c) => draft[c].node
    /\ \A c \in Chains : Writing(c) => file.kind = "emptied"
    /\ file.kind = "emptied" => \E c \in Chains : Writing(c)
    /\ file.kind # "garbled"
    /\ file.kind = "whole" => file.state.node

(* A standing verdict is in the file and in every edit under way, and no    *)
(* enrolment is left that might withdraw it.                                *)
Stands ==
  /\ \A c \in Chains : pc[c] \in {"openMark", "writeMark"} => draft[c].degraded
  /\ standing => token
  /\ standing /\ ~crossed =>
       /\ file.kind = "whole" => file.state.degraded
       /\ pc["cli"] \in {"openEdit", "writeEdit"} => draft["cli"].degraded
       /\ \A c \in Chains : pc[c] \notin Enrolment

(* A step that touches no rewrite and no file.                              *)
Quiet ==
  /\ UNCHANGED <<file, draft, crossed, standing>> /\ (token => token')
  /\ \A d \in Chains : pc'[d] = pc[d] \/ (pc[d] \notin Held /\ pc'[d] \notin Held)

QuietSteps ==
  \/ Start \/ BeginBeat \/ Polling \/ BeginEdit \/ Sync \/ (Edit /\ ~Readable)
  \/ \E c \in {"beat", "poll", "cli"} : Beating(c) \/ (Ensure(c) /\ pc'[c] # "enrol")
  \/ \E c \in Jobs \cup {"poll"} : MissingRoute(c)
  \/ \E j \in Jobs : EndJob(j)
  \/ UNCHANGED vars

LEMMA QuietFrom ==
  ASSUME TypeOK, NEW c \in Chains, NEW l \in Labels \ Held, pc[c] \notin Held,
         Goes(c, l) \/ Ends(c)
  PROVE  \A d \in Chains : pc'[d] = pc[d] \/ (pc[d] \notin Held /\ pc'[d] \notin Held)
BY Moved DEF Held, Rewriting

LEMMA QuietStep == TypeOK /\ Where /\ QuietSteps => Quiet
<1> SUFFICES ASSUME TypeOK, Where, QuietSteps PROVE Quiet
  OBVIOUS
<1> DEFINE Still == \A d \in Chains : pc'[d] = pc[d] \/ (pc[d] \notin Held /\ pc'[d] \notin Held)
<1>a. {"off", "idle", "ensure", "token", "health", "say", "check", "send", "sent", "run", "mark",
       "edit", "sync"} \subseteq Labels \ Held
  BY DEF Labels, Held, Rewriting
<1> HIDE DEF Still
<1>q. ASSUME NEW c \in Chains, NEW l \in Labels \ Held, pc[c] \in Labels \ Held,
             Goes(c, l) \/ Ends(c)
      PROVE  Still
  BY <1>q, QuietFrom DEF Still
<1> USE Names
<1>1. CASE Start
  <2>1. pc["beat"] = "off"
    BY <1>1 DEF Start, Where
  <2>2. Still
    BY <1>1, <1>a, <1>q, <2>1 DEF Start, Goes
  <2> QED BY <1>1, <2>2 DEF Start, history, Quiet, Still
<1>2. CASE BeginBeat \/ BeginPoll \/ CheckPoll \/ SendPoll
  <2>1. Still
    BY <1>2, <1>a, <1>q DEF BeginBeat, BeginPoll, CheckPoll, SendPoll, At
  <2> QED BY <1>2, <2>1 DEF BeginBeat, BeginPoll, CheckPoll, SendPoll, history, Quiet, Still
<1>3. CASE Answer
  <2>1. CASE Goes("poll", "idle")
    BY <1>3, <1>a, <1>q, <2>1 DEF Answer, At, history, Quiet, Still
  <2>2. ASSUME NEW j \in Jobs, pc[j] \in {"off", "idle"},
               pc' = [pc EXCEPT !["poll"] = "idle", ![j] = "run"] PROVE Quiet
    <3>1. /\ pc'["poll"] = "idle" /\ pc'[j] = "run" /\ pc["poll"] = "sent"
          /\ \A d \in Chains : d \notin {"poll", j} => pc'[d] = pc[d]
      BY <1>3, <2>2 DEF TypeOK, Answer, At
    <3> QED BY <1>3, <2>2, <3>1 DEF Answer, history, Quiet, Held, Rewriting
  <2> QED BY <1>3, <2>1, <2>2 DEF Answer
<1>4. CASE BeginEdit \/ Sync \/ (Edit /\ ~Readable)
  <2>1. CASE BeginEdit \/ Sync
    <3>1. Still
      BY <1>a, <1>q, <2>1 DEF BeginEdit, Sync, At
    <3> QED BY <2>1, <3>1 DEF BeginEdit, Sync, history, Quiet, Still
  <2>2. CASE Edit /\ ~Readable
    BY <1>a, <1>q, <2>2 DEF Edit, At, Quiet, Still
  <2> QED BY <1>4, <2>1, <2>2 DEF Edit
<1>5. ASSUME NEW c \in {"beat", "poll", "cli"}, Beating(c) PROVE Quiet
  <2>1. Still
    BY <1>5, <1>a, <1>q DEF Beating, Health, Heard, NotHeard, WriteToken, At, Stored, Enrolled
  <2> QED BY <1>5, <2>1 DEF Beating, Health, Heard, NotHeard, WriteToken, history, Quiet, Still
<1>6. ASSUME NEW c \in {"beat", "poll", "cli"}, Ensure(c), pc'[c] # "enrol" PROVE Quiet
  <2>1. ~Goes(c, "enrol")
    BY <1>6 DEF Goes, TypeOK
  <2>2. Still
    BY <1>6, <1>a, <1>q, <2>1 DEF Ensure, At, Enrolled
  <2> QED BY <1>6, <2>1, <2>2 DEF Ensure, Quiet, Still
<1>7. ASSUME NEW c \in Jobs \cup {"poll"}, MissingRoute(c) PROVE Quiet
  <2>1. Still
    BY <1>7, <1>a, <1>q DEF MissingRoute, MeetsNoRoute, At
  <2> QED BY <1>7, <2>1 DEF MissingRoute, Quiet, Still
<1>8. ASSUME NEW j \in Jobs, EndJob(j) PROVE Quiet
  <2>1. Still
    BY <1>8, <1>a, <1>q DEF EndJob, At
  <2> QED BY <1>8, <2>1 DEF EndJob, history, Quiet, Still
<1>9. CASE UNCHANGED vars
  BY <1>9 DEF vars, Quiet
<1> QED BY <1>1, <1>2, <1>3, <1>4, <1>5, <1>6, <1>7, <1>8, <1>9 DEF QuietSteps, Polling

(* The other steps: a chain takes a draft, empties the file, writes it, or  *)
(* gives up what it held.                                                   *)
Takes(c) ==
  /\ pc[c] \notin Held /\ file' = file /\ (crossed => crossed')
  /\ UNCHANGED <<token, standing>>
  /\ \/ Ensure(c) /\ pc'[c] = "enrol"
     \/ Setup /\ c = "cli" /\ pc'[c] = "openSetup"
     \/ Edit /\ c = "cli" /\ pc'[c] = "openEdit"
     \/ Mark(c) /\ pc'[c] = "openMark"
  /\ \A d \in Chains \ {c} : pc'[d] = pc[d] /\ draft'[d] = draft[d]

Empties(c) ==
  /\ UNCHANGED <<draft, token, standing, crossed>> /\ Opens
  /\ \/ pc[c] = "openEnrolled" /\ pc'[c] = "writeEnrolled"
     \/ pc[c] = "openMark" /\ pc'[c] = "writeMark"
     \/ pc[c] = "openEdit" /\ pc'[c] = "writeEdit"
     \/ pc[c] = "openSetup" /\ pc'[c] = "writeSetup"
  /\ \A d \in Chains \ {c} : pc'[d] = pc[d]

Fills(c) ==
  /\ Writes(c) /\ token' = token
  /\ \/ pc[c] = "writeEnrolled" /\ pc'[c] = "token" /\ ~standing'
     \/ pc[c] = "writeMark" /\ pc'[c] \in {"idle", "run"} /\ standing'
     \/ pc[c] = "writeEdit" /\ pc'[c] = "sync" /\ standing' = standing
     \/ pc[c] = "writeSetup" /\ pc'[c] = "token" /\ ~standing'
  /\ \A d \in Chains \ {c} : pc'[d] = pc[d]

Drops ==
  /\ UNCHANGED <<file, token, standing>> /\ (crossed => crossed')
  /\ \A d \in Chains : \/ pc'[d] \in {"off", "idle"} /\ (Writing(d) => crossed')
                       \/ pc'[d] = pc[d] /\ draft'[d] = draft[d]

LEMMA StepKinds ==
  ASSUME TypeOK, Where, [Next]_vars
  PROVE  \/ QuietSteps
         \/ Drops /\ (Crash \/ Interrupt \/ \E c \in {"beat", "poll"} : Enrol(c))
         \/ \E c \in {"beat", "poll"} : /\ Enrol(c) /\ UNCHANGED <<file, draft, token, standing, crossed>>
                                        /\ pc[c] = "enrol" /\ pc'[c] = "openEnrolled"
                                        /\ \A d \in Chains \ {c} : pc'[d] = pc[d]
         \/ \E c \in Chains : Takes(c) \/ Empties(c) \/ Fills(c)
<1> USE Names
<1>a. {"enrol", "openEnrolled", "writeEnrolled", "token", "idle", "run", "sync",
        "openMark", "writeMark", "openEdit", "writeEdit", "openSetup", "writeSetup"} \subseteq Labels
  BY DEF Labels
<1>b. "enrol" \in Held /\ {"idle", "off", "ensure", "edit", "mark"} \cap Held = {}
  BY DEF Held, Rewriting
<1>1. CASE Crash
  <2>1. Drops
    <3>1. \A d \in Chains : pc'[d] = (IF d = "cli" THEN pc[d] ELSE "off")
                            /\ draft'[d] = (IF d = "cli" THEN draft[d] ELSE Blank)
      BY <1>1 DEF Crash
    <3>2. \A d \in Daemon : Writing(d) => crossed'
      BY <1>1 DEF Crash
    <3> QED BY <1>1, <1>b, <3>1, <3>2 DEF Crash, Drops
  <2> QED BY <1>1, <2>1
<1>2. CASE Interrupt
  <2>1. Drops
    <3>1. pc'["cli"] = "idle" /\ \A d \in Chains \ {"cli"} : pc'[d] = pc[d] /\ draft'[d] = draft[d]
      BY <1>2, <1>a, Moved DEF Interrupt, TypeOK
    <3> QED BY <1>2, <1>b, <3>1 DEF Interrupt, Drops
  <2> QED BY <1>2, <2>1
<1>3. ASSUME NEW c \in Chains, NEW l \in Labels, NEW m \in Labels, Open(c, l, m)
      PROVE  /\ UNCHANGED <<draft, token, standing, crossed>> /\ Opens /\ pc[c] = l /\ pc'[c] = m
             /\ \A d \in Chains \ {c} : pc'[d] = pc[d]
  BY <1>3, Moved DEF Open, At
<1>4. CASE OpenSetup \/ OpenEdit
  <2>1. Empties("cli")
    BY <1>3, <1>4, <1>a DEF OpenSetup, OpenEdit, Empties
  <2> QED BY <2>1
<1>5. CASE Setup
  <2>1. Takes("cli")
    BY <1>5, <1>a, <1>b, Moved DEF Setup, Takes, At, TypeOK
  <2> QED BY <2>1
<1>6. CASE WriteSetup \/ WriteEdit
  <2>1. Fills("cli")
    BY <1>6, <1>a, Moved DEF WriteSetup, WriteEdit, Fills, At
  <2> QED BY <2>1
<1>7. CASE Edit
  <2>1. CASE Readable
    <3>1. Takes("cli")
      BY <1>7, <1>a, <1>b, <2>1, Moved DEF Edit, Takes, At, TypeOK
    <3> QED BY <3>1
  <2> QED BY <1>7, <2>1 DEF QuietSteps
<1>8. ASSUME NEW c \in {"beat", "poll", "cli"}, Ensure(c), pc'[c] = "enrol" PROVE Takes(c)
  <2>1. Goes(c, "enrol")
    BY <1>8, <1>a, Moved DEF Ensure, Enrolled, Ends, TypeOK, Goes
  <2>2. \A d \in Chains \ {c} : pc'[d] = pc[d] /\ draft'[d] = draft[d]
    <3>1. ~Goes(c, Enrolled(c)) /\ ~Ends(c)
      BY <1>8 DEF Goes, Ends, Enrolled, TypeOK
    <3> QED BY <1>8, <1>a, <2>1, <3>1, Moved DEF Ensure, TypeOK
  <2> QED BY <1>8, <1>b, <2>2 DEF Ensure, Takes, At
<1>9. ASSUME NEW c \in {"beat", "poll", "cli"}, Enrol(c)
      PROVE  \/ Drops
             \/ /\ UNCHANGED <<file, draft, token, standing, crossed>>
                /\ pc[c] = "enrol" /\ pc'[c] = "openEnrolled"
                /\ \A d \in Chains \ {c} : pc'[d] = pc[d]
  <2>1. CASE Goes(c, "openEnrolled") /\ UNCHANGED draft
    BY <1>9, <1>a, <2>1, Moved DEF Enrol, history, At
  <2>2. CASE Ends(c) /\ draft' = [draft EXCEPT ![c] = Blank]
    <3>1. /\ pc'[c] = "idle" /\ pc[c] = "enrol"
          /\ \A d \in Chains \ {c} : draft'[d] = draft[d]
          /\ \A d \in Chains \ {c} : pc'[d] = pc[d] \/ (pc[d] = "off" /\ pc'[d] = "idle")
      BY <1>9, <1>a, <2>2, Moved DEF Enrol, At, TypeOK
    <3>2. UNCHANGED <<file, token, standing, crossed>>
      BY <1>9, <2>2 DEF Enrol, history
    <3> QED BY <1>b, <3>1, <3>2 DEF Drops, Writing
  <2> QED BY <1>9, <2>1, <2>2 DEF Enrol
<1>10. pc["cli"] \notin Enrolment
  BY PlacesOf DEF Where, Beat, Enrolment
<1>11. ASSUME NEW c \in {"beat", "poll", "cli"}, OpenEnrolled(c) PROVE Empties(c)
  BY <1>3, <1>11, <1>a DEF OpenEnrolled, Empties
<1>12. ASSUME NEW c \in {"beat", "poll", "cli"}, WriteEnrolled(c) PROVE Fills(c)
  BY <1>12, <1>a, Moved DEF WriteEnrolled, Fills, At
<1>13. ASSUME NEW c \in Jobs \cup {"poll"}, Marking(c) PROVE Takes(c) \/ Empties(c) \/ Fills(c)
  <2>1. CASE Mark(c)
    BY <1>a, <1>b, <2>1, Moved DEF Mark, Takes, At, TypeOK
  <2>2. CASE OpenMark(c)
    BY <1>3, <1>a, <2>2 DEF OpenMark, Empties
  <2>3. CASE WriteMark(c)
    BY <1>a, <2>3, Moved DEF WriteMark, Fills, At
  <2> QED BY <1>13, <2>1, <2>2, <2>3 DEF Marking
<1>14. ASSUME NEW c \in {"beat", "poll", "cli"}, Enrol(c) PROVE c \in {"beat", "poll"}
  BY <1>10, <1>14 DEF Enrol, At, Enrolment
<1>15. ASSUME NEW c \in {"beat", "poll", "cli"}, Enrolling(c)
       PROVE  \/ Ensure(c) /\ pc'[c] # "enrol"
              \/ Takes(c) \/ Empties(c) \/ Fills(c) \/ Enrol(c)
  BY <1>8, <1>11, <1>12, <1>15 DEF Enrolling
<1> QED
  <2>1. CASE \E c \in {"beat", "poll", "cli"} : Enrolling(c)
    <3>1. PICK c \in {"beat", "poll", "cli"} : Enrolling(c)
      BY <2>1
    <3>2. CASE Ensure(c) /\ pc'[c] # "enrol"
      BY <3>2 DEF QuietSteps
    <3>3. CASE Enrol(c)
      BY <1>9, <1>14, <3>3
    <3> QED BY <1>15, <3>1, <3>2, <3>3
  <2>2. CASE \/ Start \/ BeginBeat \/ Polling \/ BeginEdit \/ Sync
             \/ \E c \in {"beat", "poll", "cli"} : Beating(c)
             \/ \E c \in Jobs \cup {"poll"} : MissingRoute(c)
             \/ \E j \in Jobs : EndJob(j)
             \/ UNCHANGED vars
    BY <2>2 DEF QuietSteps
  <2> QED BY <1>1, <1>2, <1>4, <1>5, <1>6, <1>7, <1>13, <2>1, <2>2 DEF Next, Command

FileOK == TypeOK /\ Where /\ Known /\ Clean /\ Stands

LEMMA FileOKInit == Init => FileOK
<1> SUFFICES ASSUME Init PROVE FileOK
  OBVIOUS
<1>1. TypeOK
  BY TypesInit
<1>2. /\ \A c \in Chains : pc[c] = IF c = "cli" THEN "idle" ELSE "off"
      /\ ~up /\ ~crossed /\ ~standing
  BY DEF Init
<1>3. Where
  BY <1>2, Names, PlacesOf DEF Where, Beat, Chains, Daemon
<1>4. \/ file.kind = "absent" /\ ~token
      \/ file.kind = "whole" /\ file.state.node
  <2>1. [Blank EXCEPT !.node = TRUE].node
    BY DEF Blank
  <2>2. CASE file = Holding("absent", Blank) /\ token = FALSE
    BY <2>2 DEF Holding
  <2>3. CASE file = Holding("whole", [Blank EXCEPT !.node = TRUE])
    BY <2>1, <2>3 DEF Holding
  <2> QED BY <2>2, <2>3 DEF Init
<1>5. Known /\ Stands
  BY <1>2, <1>4 DEF Known, Stands, Marks
<1>6. Clean
  BY <1>2, <1>4 DEF Clean, Holds, Held, Rewriting, Writing
<1> QED BY <1>1, <1>3, <1>5, <1>6 DEF FileOK

(* The file, once there, does not go away.                                  *)
LEMMA FileStays ==
  ASSUME TypeOK, Where, [Next]_vars, file.kind # "absent"
  PROVE  file'.kind # "absent"
<1>1. Opens => file'.kind # "absent"
  BY StateTypes DEF Opens
<1>2. ASSUME NEW c \in Chains, Writes(c) PROVE file'.kind # "absent"
  BY <1>2, StateTypes DEF Writes
<1> QED BY <1>1, <1>2, StepKinds, QuietStep DEF Quiet, Drops, Takes, Empties, Fills

(* Wherever a file was read that a chain knows to be there, it was whole.   *)
LEMMA ReadsWhole ==
  ASSUME TypeOK, Clean, ~crossed, file.kind # "absent"
  PROVE  /\ Readable => file.kind = "whole" /\ file.state.node
         /\ (\A c \in Chains : ~Writing(c)) => file.kind = "whole" /\ file.state.node
BY DEF TypeOK, Clean, Readable

LEMMA KnownStep == FileOK /\ [Next]_vars => Known'
<1> SUFFICES ASSUME FileOK, [Next]_vars PROVE Known'
  OBVIOUS
<1> USE Names DEF FileOK
<1> DEFINE Tokened == {"run", "send", "sent"} \cup Marks
           Sited   == {"token", "edit"}
           Ready   == \A c \in Chains : /\ pc'[c] \in Sited => file'.kind # "absent"
                                        /\ pc'[c] \in Tokened => token'
<1>a. file.kind # "absent" => file'.kind # "absent"
  BY FileStays
<1>b. SUFFICES Ready /\ (token' => file'.kind # "absent")
  BY DEF Known
<1>c. /\ token => file.kind # "absent"
      /\ \A c \in Chains : pc[c] \in Sited => file.kind # "absent"
      /\ \A c \in Chains : pc[c] \in Tokened => token
  BY DEF Known
<1> HIDE DEF Ready
<1>r. ASSUME NEW c \in Chains, token => token',
             \A d \in Chains \ {c} : pc'[d] = pc[d] \/ pc'[d] \in {"off", "idle"},
             pc'[c] \in Sited => file'.kind # "absent",
             pc'[c] \in Tokened => token'
      PROVE  Ready
  BY <1>a, <1>c, <1>r DEF Ready, Marks
<1>g. ASSUME NEW c \in Chains, NEW l \in Labels, Goes(c, l) \/ (Ends(c) /\ l = "idle")
      PROVE  pc'[c] = l /\ \A d \in Chains \ {c} : pc'[d] = pc[d] \/ pc'[d] \in {"off", "idle"}
  BY <1>g, Moved
<1>l. {"off", "idle", "ensure", "token", "health", "say", "check", "send", "sent", "run", "mark",
       "edit", "sync"} \subseteq Labels
  BY DEF Labels
<1>1. CASE Start
  <2>1. UNCHANGED token /\ Goes("beat", "ensure")
    BY <1>1 DEF Start, Goes
  <2> QED BY <1>a, <1>c, <1>g, <1>l, <1>r, <2>1 DEF Marks
<1>2. CASE BeginBeat \/ BeginPoll \/ CheckPoll \/ SendPoll
  <2>1. UNCHANGED token
    BY <1>2 DEF BeginBeat, BeginPoll, CheckPoll, SendPoll
  <2>2. CASE BeginBeat
    BY <1>g, <1>l, <1>r, <1>a, <1>c, <2>1, <2>2 DEF BeginBeat, Marks
  <2>3. CASE BeginPoll \/ CheckPoll
    BY <1>g, <1>l, <1>r, <1>a, <1>c, <2>1, <2>3 DEF BeginPoll, CheckPoll, Marks
  <2>4. CASE SendPoll
    BY <1>g, <1>l, <1>r, <1>a, <1>c, <2>1, <2>4 DEF SendPoll, At, Marks
  <2> QED BY <1>2, <2>2, <2>3, <2>4
<1>3. CASE Answer
  <2>1. token /\ token' /\ pc["poll"] = "sent"
    BY <1>3, <1>c DEF Answer, At
  <2>2. \A d \in Chains : pc'[d] = pc[d] \/ pc'[d] \in {"idle", "run"}
    BY <1>3 DEF Answer, Goes, TypeOK
  <2> QED BY <1>a, <1>c, <2>1, <2>2 DEF Ready, Marks
<1>4. CASE BeginEdit
  <2>1. file.kind # "absent"
    BY <1>4, StateTypes DEF BeginEdit, Configured, TypeOK
  <2> QED BY <1>4, <1>a, <1>c, <1>g, <1>l, <1>r, <2>1 DEF BeginEdit, Marks
<1>5. CASE Sync \/ (Edit /\ ~Readable)
  BY <1>5, <1>a, <1>c, <1>g, <1>l, <1>r DEF Sync, Edit, Marks
<1>6. ASSUME NEW c \in {"beat", "poll", "cli"}, Health(c) \/ Heard(c) \/ NotHeard(c)
      PROVE  Ready /\ (token' => file'.kind # "absent")
  <2>1. token' = token
    BY <1>6 DEF Health, Heard, NotHeard
  <2>2. \E l \in {"say", "idle"} : Goes(c, l) \/ (Ends(c) /\ l = "idle")
    BY <1>6 DEF Health, Heard, NotHeard
  <2> QED BY <1>a, <1>c, <1>g, <1>l, <1>r, <2>1, <2>2 DEF Marks
<1>7. ASSUME NEW c \in {"beat", "poll", "cli"}, WriteToken(c)
      PROVE  Ready /\ (token' => file'.kind # "absent")
  <2>1. token' /\ pc[c] = "token" /\ \E l \in {"send", "health", "ensure"} : Goes(c, l)
    BY <1>7 DEF WriteToken, At, Stored, Enrolled
  <2> QED BY <1>a, <1>c, <1>g, <1>l, <1>r, <2>1 DEF Marks
<1>8. ASSUME NEW c \in {"beat", "poll", "cli"}, Ensure(c), pc'[c] # "enrol"
      PROVE  Ready /\ (token' => file'.kind # "absent")
  <2>1. token' = token
    BY <1>8 DEF Ensure
  <2>2. ~Goes(c, "enrol")
    BY <1>8 DEF Goes, TypeOK
  <2>3. \E l \in {"send", "health", "idle"} : /\ Goes(c, l) \/ (Ends(c) /\ l = "idle")
                                              /\ l = "send" => token
    BY <1>8, <2>2 DEF Ensure, Enrolled
  <2> QED BY <1>a, <1>c, <1>g, <1>l, <1>r, <2>1, <2>3 DEF Marks
<1>9. ASSUME NEW c \in Jobs \cup {"poll"}, MissingRoute(c)
      PROVE  Ready /\ (token' => file'.kind # "absent")
  <2>1. pc[c] \in {"sent", "run"} /\ token' = token
    BY <1>9 DEF MissingRoute, MeetsNoRoute, At
  <2> QED BY <1>9, <1>a, <1>c, <1>g, <1>l, <1>r, <2>1 DEF MissingRoute
<1>10. ASSUME NEW j \in Jobs, EndJob(j) PROVE Ready /\ (token' => file'.kind # "absent")
  BY <1>10, <1>a, <1>c, <1>g, <1>l, <1>r DEF EndJob, Marks
<1>11. CASE UNCHANGED vars
  BY <1>11, <1>c DEF vars, Ready
<1>12. CASE QuietSteps
  BY <1>1, <1>2, <1>3, <1>4, <1>5, <1>6, <1>7, <1>8, <1>9, <1>10, <1>11, <1>12
     DEF QuietSteps, Polling, Beating
<1>13. CASE Drops
  <2>1. token' = token /\ \A d \in Chains : pc'[d] = pc[d] \/ pc'[d] \in {"off", "idle"}
    BY <1>13 DEF Drops
  <2> QED BY <1>a, <1>c, <2>1 DEF Ready, Marks
<1>14. ASSUME NEW c \in Chains, Enrol(c), UNCHANGED <<file, draft, token, standing, crossed>>,
              pc'[c] = "openEnrolled", \A d \in Chains \ {c} : pc'[d] = pc[d]
       PROVE  Ready /\ (token' => file'.kind # "absent")
  BY <1>a, <1>c, <1>14 DEF Ready, Marks
<1>15. ASSUME NEW c \in Chains, Takes(c)
       PROVE  Ready /\ (token' => file'.kind # "absent")
  <2>1. /\ token' = token /\ \A d \in Chains \ {c} : pc'[d] = pc[d]
        /\ \/ pc'[c] \in {"enrol", "openSetup", "openEdit"}
           \/ pc'[c] = "openMark" /\ pc[c] = "mark"
    BY <1>15 DEF Takes, Mark, At
  <2> QED BY <1>a, <1>c, <1>r, <2>1 DEF Marks
<1>16. ASSUME NEW c \in Chains, Empties(c)
       PROVE  Ready /\ (token' => file'.kind # "absent")
  <2>1. /\ token' = token /\ \A d \in Chains \ {c} : pc'[d] = pc[d]
        /\ \/ pc'[c] \in {"writeEnrolled", "writeSetup", "writeEdit"}
           \/ pc'[c] = "writeMark" /\ pc[c] = "openMark"
    BY <1>16 DEF Empties
  <2> QED BY <1>a, <1>c, <1>r, <2>1 DEF Marks
<1>17. ASSUME NEW c \in Chains, Fills(c)
       PROVE  Ready /\ (token' => file'.kind # "absent")
  <2>1. file'.kind # "absent"
    BY <1>17, StateTypes DEF Fills, Writes
  <2>2. /\ token' = token /\ \A d \in Chains \ {c} : pc'[d] = pc[d]
        /\ \/ pc'[c] \in {"token", "sync"}
           \/ pc'[c] \in {"idle", "run"} /\ pc[c] = "writeMark"
    BY <1>17 DEF Fills
  <2> QED BY <1>c, <1>r, <2>1, <2>2 DEF Marks
<1> QED BY <1>12, <1>13, <1>14, <1>15, <1>16, <1>17, StepKinds

(* The draft a chain takes names the node, and a verdict is in it wherever  *)
(* it is one or has been read.                                              *)
LEMMA Drafted ==
  ASSUME FileOK, NEW c \in Chains, Takes(c)
  PROVE  /\ ~crossed' => draft'[c].node
         /\ pc'[c] = "openMark" => draft'[c].degraded
         /\ ~crossed /\ standing /\ pc'[c] = "openEdit" => draft'[c].degraded
         /\ standing => pc'[c] # "enrol"
<1> USE DEF FileOK
<1>a. draft \in [Chains -> States] /\ file.state \in States
  BY DEF TypeOK
<1>1. CASE Ensure(c) /\ pc'[c] = "enrol"
  <2>1. ~token /\ draft' = [draft EXCEPT ![c] = [file.state EXCEPT !.node = TRUE, !.degraded = FALSE]]
    BY <1>1 DEF Ensure, Goes, Ends, Enrolled, TypeOK
  <2>2. [file.state EXCEPT !.node = TRUE, !.degraded = FALSE].node
    BY <1>a DEF States
  <2>3. draft'[c].node
    BY <1>a, <2>1, <2>2
  <2> QED BY <1>1, <2>1, <2>3 DEF Stands
<1>2. CASE Setup /\ c = "cli" /\ pc'[c] = "openSetup"
  BY <1>2, <1>a DEF Setup
<1>3. CASE Edit /\ c = "cli" /\ pc'[c] = "openEdit"
  <2>1. Readable /\ draft'[c] = file.state
    BY <1>3, <1>a DEF Edit, Goes, TypeOK
  <2>2. file.kind # "absent"
    BY <1>3 DEF Edit, At, Known
  <2> QED BY <1>3, <2>1, <2>2, ReadsWhole DEF Takes, Stands
<1>4. CASE Mark(c) /\ pc'[c] = "openMark"
  <2>1. /\ draft' = [draft EXCEPT ![c] = [file.state EXCEPT !.degraded = TRUE]]
        /\ ~crossed' => ~crossed /\ \A d \in Chains : ~Writing(d)
        /\ pc[c] = "mark"
    BY <1>4 DEF Mark, At
  <2>2. /\ [file.state EXCEPT !.degraded = TRUE].degraded
        /\ [file.state EXCEPT !.degraded = TRUE].node = file.state.node
    BY <1>a DEF States
  <2>3. draft'[c].degraded /\ draft'[c].node = file.state.node
    BY <1>a, <2>1, <2>2
  <2>4. file.kind # "absent"
    BY <2>1 DEF Known, Marks
  <2> QED BY <1>4, <2>1, <2>3, <2>4, ReadsWhole
<1> QED BY <1>1, <1>2, <1>3, <1>4 DEF Takes

(* A chain that may write unhindered is the only one that holds a draft,    *)
(* and leaves the file whole.                                               *)
LEMMA Filled ==
  ASSUME FileOK, NEW c \in Chains, Fills(c), ~crossed'
  PROVE  /\ ~crossed /\ \A d \in Chains \ {c} : ~Holds(d)
         /\ file'.kind = "whole" /\ file'.state = draft[c] /\ draft[c].node
<1> USE DEF FileOK
<1>1. ~crossed /\ \A d \in Chains \ {c} : draft[d] = Blank
  BY DEF Fills, Writes
<1>2. \A d \in Chains \ {c} : ~Holds(d)
  BY <1>1, StateTypes DEF Clean
<1>3. Writing(c) /\ Holds(c)
  BY DEF Fills, Writing, Holds, Held, Rewriting
<1>4. file.kind = "emptied"
  BY <1>1, <1>3 DEF Clean
<1>5. file' = Holding("whole", draft[c])
  BY <1>4 DEF Fills, Writes
<1> QED BY <1>1, <1>2, <1>3, <1>5, StateTypes DEF Clean

LEMMA CleanStep == FileOK /\ [Next]_vars => Clean'
<1> SUFFICES ASSUME FileOK, [Next]_vars, ~crossed'
             PROVE  /\ \A c \in Chains : Holds(c)' => draft'[c].node
                    /\ \A c \in Chains : Writing(c)' => file'.kind = "emptied"
                    /\ file'.kind = "emptied" => \E c \in Chains : Writing(c)'
                    /\ file'.kind # "garbled"
                    /\ file'.kind = "whole" => file'.state.node
  BY DEF Clean
<1> USE Names DEF FileOK
<1>a. ~crossed =>
        /\ \A c \in Chains : Holds(c) => draft[c].node
        /\ \A c \in Chains : Writing(c) => file.kind = "emptied"
        /\ file.kind = "emptied" => \E c \in Chains : Writing(c)
        /\ file.kind # "garbled"
        /\ file.kind = "whole" => file.state.node
  BY DEF Clean
<1>b. \A c : Writing(c) => pc[c] \in Held
  BY DEF Writing, Held, Rewriting
<1>c. {"enrol", "openSetup", "openEdit", "openMark", "openEnrolled"}
        \cap {"writeEnrolled", "writeMark", "writeEdit", "writeSetup"} = {}
  OBVIOUS
<1>d. {"off", "idle", "token", "run", "sync"} \cap Held = {}
  BY DEF Held, Rewriting
<1>1. CASE QuietSteps
  <2>1. Quiet
    BY <1>1, QuietStep
  <2>2. \A d \in Chains : Holds(d)' = Holds(d) /\ Writing(d)' = Writing(d)
    BY <2>1 DEF Quiet, Holds, Writing, Held, Rewriting
  <2> QED BY <1>a, <2>1, <2>2 DEF Quiet
<1>2. CASE Drops
  <2>1. /\ ~crossed /\ file' = file
        /\ \A d \in Chains : pc'[d] \in {"off", "idle"} \/ (pc'[d] = pc[d] /\ draft'[d] = draft[d])
        /\ \A d \in Chains : Writing(d) => Writing(d)'
    BY <1>2 DEF Drops, Writing
  <2>2. \A d \in Chains : Holds(d)' => Holds(d) /\ draft'[d] = draft[d]
    BY <1>d, <2>1 DEF Holds
  <2>3. \A d \in Chains : Writing(d)' => Writing(d)
    BY <2>1 DEF Writing
  <2> QED BY <1>a, <2>1, <2>2, <2>3
<1>3. ASSUME NEW c \in Chains, pc[c] = "enrol", UNCHANGED <<file, draft, token, standing, crossed>>,
             pc'[c] = "openEnrolled", \A d \in Chains \ {c} : pc'[d] = pc[d]
      PROVE  Clean'
  BY <1>a, <1>3 DEF Clean, Holds, Writing, Held, Rewriting
<1>4. ASSUME NEW c \in Chains, Takes(c) PROVE Clean'
  <2>1. /\ ~crossed /\ file' = file /\ ~Holds(c) /\ ~Writing(c)
        /\ pc'[c] \in {"enrol", "openSetup", "openEdit", "openMark"}
        /\ \A d \in Chains \ {c} : pc'[d] = pc[d] /\ draft'[d] = draft[d]
    BY <1>4, <1>b DEF Takes, Holds
  <2>2. draft'[c].node
    BY <1>4, Drafted
  <2>3. \A d \in Chains : Writing(d)' = Writing(d)
    BY <2>1 DEF Writing
  <2> QED BY <1>a, <2>1, <2>2, <2>3 DEF Clean, Holds
<1>5. ASSUME NEW c \in Chains, Empties(c) PROVE Clean'
  <2>1. /\ ~crossed /\ file'.kind = "emptied" /\ draft' = draft /\ Holds(c) /\ Writing(c)'
        /\ \A d \in Chains \ {c} : pc'[d] = pc[d]
    BY <1>5, StateTypes DEF Empties, Opens, Holds, Writing, Held, Rewriting
  <2> QED BY <1>a, <2>1 DEF Clean, Holds
<1>6. ASSUME NEW c \in Chains, Fills(c) PROVE Clean'
  <2>1. /\ ~crossed /\ \A d \in Chains \ {c} : ~Holds(d)
        /\ file'.kind = "whole" /\ file'.state = draft[c] /\ draft[c].node
    BY <1>6, Filled
  <2>2. \A d \in Chains : ~Holds(d)'
    BY <1>6, <1>d, <2>1 DEF Fills, Holds
  <2>3. \A d \in Chains : ~Writing(d)'
    BY <2>2 DEF Writing, Holds, Held, Rewriting
  <2> QED BY <2>1, <2>2, <2>3 DEF Clean
<1> QED BY <1>1, <1>2, <1>3, <1>4, <1>5, <1>6, StepKinds DEF Clean

LEMMA StandsStep == FileOK /\ [Next]_vars => Stands'
<1> SUFFICES ASSUME FileOK, [Next]_vars PROVE Stands'
  OBVIOUS
<1> USE Names DEF FileOK
<1>a. /\ \A c \in Chains : pc[c] \in {"openMark", "writeMark"} => draft[c].degraded
      /\ standing => token
      /\ standing /\ ~crossed =>
           /\ file.kind = "whole" => file.state.degraded
           /\ pc["cli"] \in {"openEdit", "writeEdit"} => draft["cli"].degraded
           /\ \A c \in Chains : pc[c] \notin Enrolment
  BY DEF Stands
<1>b. {"openMark", "writeMark", "openEdit", "writeEdit"} \cup Enrolment \subseteq Held
  BY DEF Enrolment, Held, Rewriting
<1>d. {"off", "idle", "token", "run", "sync"} \cap Held = {}
  BY DEF Held, Rewriting
<1>1. CASE QuietSteps
  <2>1. Quiet
    BY <1>1, QuietStep
  <2> QED BY <1>a, <1>b, <2>1 DEF Quiet, Stands
<1>2. CASE Drops
  <2>1. \A d \in Chains : pc'[d] \in {"off", "idle"} \/ (pc'[d] = pc[d] /\ draft'[d] = draft[d])
    BY <1>2 DEF Drops
  <2> QED BY <1>2, <1>a, <2>1 DEF Drops, Stands, Enrolment
<1>3. ASSUME NEW c \in Chains, pc[c] = "enrol", UNCHANGED <<file, draft, token, standing, crossed>>,
             pc'[c] = "openEnrolled", \A d \in Chains \ {c} : pc'[d] = pc[d]
      PROVE  Stands'
  BY <1>a, <1>3 DEF Stands, Enrolment
<1>4. ASSUME NEW c \in Chains, Takes(c) PROVE Stands'
  <2>1. /\ crossed => crossed'
        /\ file' = file /\ token' = token /\ standing' = standing
        /\ pc'[c] \in {"enrol", "openSetup", "openEdit", "openMark"}
        /\ \A d \in Chains \ {c} : pc'[d] = pc[d] /\ draft'[d] = draft[d]
    BY <1>4 DEF Takes
  <2>2. /\ pc'[c] = "openMark" => draft'[c].degraded
        /\ ~crossed /\ standing /\ pc'[c] = "openEdit" => draft'[c].degraded
        /\ standing => pc'[c] # "enrol"
    BY <1>4, Drafted
  <2> QED BY <1>a, <2>1, <2>2 DEF Stands, Enrolment
<1>5. ASSUME NEW c \in Chains, Empties(c) PROVE Stands'
  <2>1. /\ UNCHANGED <<draft, token, standing, crossed>> /\ file'.kind = "emptied"
        /\ \/ pc[c] = "openEnrolled" /\ pc'[c] = "writeEnrolled"
           \/ pc[c] = "openMark" /\ pc'[c] = "writeMark"
           \/ pc[c] = "openEdit" /\ pc'[c] = "writeEdit"
           \/ pc[c] = "openSetup" /\ pc'[c] = "writeSetup"
        /\ \A d \in Chains \ {c} : pc'[d] = pc[d]
    BY <1>5, StateTypes DEF Empties, Opens
  <2> QED BY <1>a, <2>1 DEF Stands, Enrolment
<1>6. ASSUME NEW c \in Chains, Fills(c) PROVE Stands'
  <2>1. /\ token' = token /\ (crossed => crossed')
        /\ \A d \in Chains \ {c} : pc'[d] = pc[d] /\ draft'[d] = draft[d]
        /\ pc'[c] \in {"idle", "run", "token", "sync"}
    BY <1>6 DEF Fills, Writes, TypeOK
  <2>2. standing' => token'
    <3>1. CASE pc[c] = "writeMark"
      BY <2>1, <3>1 DEF Known, Marks
    <3>2. CASE standing' = standing
      BY <1>a, <2>1, <3>2
    <3> QED BY <1>6, <3>1, <3>2 DEF Fills
  <2>3. ASSUME standing', ~crossed'
        PROVE  /\ file'.kind = "whole" => file'.state.degraded
               /\ \A d \in Chains : pc'[d] \notin Held
    <3>1. /\ ~crossed /\ \A d \in Chains \ {c} : ~Holds(d)
          /\ file'.state = draft[c]
      BY <1>6, <2>3, Filled
    <3>2. draft[c].degraded
      <4>1. CASE pc[c] = "writeMark"
        BY <1>a, <4>1
      <4>2. CASE pc[c] = "writeEdit" /\ standing
        <5>1. c = "cli"
          BY <4>2, PlacesOf DEF Where, Beat, Enrolment, Marks, Chains, Daemon
        <5> QED BY <1>a, <3>1, <4>2, <5>1
      <4> QED BY <1>6, <2>3, <4>1, <4>2 DEF Fills
    <3> QED BY <1>d, <2>1, <3>1, <3>2 DEF Holds
  <2> QED BY <1>a, <1>b, <2>1, <2>2, <2>3 DEF Stands
<1> QED BY <1>1, <1>2, <1>3, <1>4, <1>5, <1>6, StepKinds

LEMMA FileOKStep == FileOK /\ [Next]_vars => FileOK'
BY TypesStep, WhereStep, KnownStep, CleanStep, StandsStep DEF FileOK

(* As long as the daemon has a token it can be started from what the file   *)
(* says, unless a rewrite was met half way.                                 *)
THEOREM Restartable == Spec => []CanRestart
<1>1. FileOK => CanRestart
  <2> SUFFICES ASSUME FileOK, token, ~crossed
               PROVE  \/ file.kind = "whole" /\ file.state.node
                      \/ \E c \in Chains : Writing(c)
    BY DEF FileOK, CanRestart
  <2>1. file.kind # "absent"
    BY DEF FileOK, Known
  <2> QED BY <2>1, ReadsWhole DEF FileOK
<1> QED BY <1>1, FileOKInit, FileOKStep, PTL DEF Spec

(* A verdict on disk outlives every edit; only a setup or an enrolment      *)
(* withdraws it.                                                            *)
THEOREM VerdictOutlives == Spec => []VerdictStands
<1>1. FileOK => VerdictStands
  BY DEF FileOK, Stands, VerdictStands
<1> QED BY <1>1, FileOKInit, FileOKStep, PTL DEF Spec

-----------------------------------------------------------------------------
(* The polls that a verdict does not stop.                                  *)

Before     == pc["cli"] \in {"edit", "openEdit", "openSetup"}
Window     == pc["cli"] \in {"writeEdit", "writeSetup"}
PastEnsure == pc["poll"] \in Enrolment \cup {"token", "send"}
Pending    == pc["poll"] = "ensure" \/ PastEnsure
Num(b)     == IF b THEN 1 ELSE 0

Flagged ==
  /\ marked => disabled
  /\ \A c \in Chains : pc[c] \in Marks => marked

(* A late poll is the one under way when this daemon took the verdict, or   *)
(* is charged to the command that hid the verdict from its check: one such  *)
(* command is to come yet, or is rewriting the file now.  The command that  *)
(* withdraws the verdict, or leaves a crossed file, has hidden it from none *)
(* of the polls sent.                                                       *)
Lasts == standing /\ ~crossed
Charged ==
  /\ Before \/ Window => edits > 0
  /\ marked => late + Num(Pending) <= 1 \/ late + Num(Pending) <= edits
  /\ ~marked => late <= edits
  /\ ~marked /\ ~Lasts => late = 0 \/ late + 1 <= edits
  /\ ~marked /\ Lasts =>
       /\ late + Num(Pending) + Num(Before) <= edits
       /\ Window => late + Num(PastEnsure) + 1 <= edits

PollOK == FileOK /\ Flagged /\ Charged

LEMMA PollOKInit == Init => PollOK
<1> SUFFICES ASSUME Init PROVE PollOK
  OBVIOUS
<1>1. FileOK
  BY FileOKInit
<1>2. /\ \A c \in Chains : pc[c] = IF c = "cli" THEN "idle" ELSE "off"
      /\ ~marked /\ ~standing /\ late = 0 /\ edits = 0
  BY DEF Init
<1>3. Flagged
  BY <1>2 DEF Flagged, Marks
<1>4. Charged
  BY <1>2, Names DEF Charged, Lasts, Before, Window
<1> QED BY <1>1, <1>3, <1>4 DEF PollOK

LEMMA FlaggedStep == PollOK /\ [Next]_vars => Flagged'
<1> SUFFICES ASSUME PollOK, [Next]_vars PROVE Flagged'
  OBVIOUS
<1> USE Names DEF PollOK, FileOK
<1>a. (marked => disabled) /\ \A c \in Chains : pc[c] \in Marks => marked
  BY DEF Flagged
<1>1. CASE Crash
  <2>1. pc'["cli"] \notin Marks
    BY <1>1, PlacesOf DEF Crash, Where, Beat, Marks
  <2>2. \A c \in Chains \ {"cli"} : pc'[c] = "off"
    BY <1>1 DEF Crash
  <2>3. ~marked'
    BY <1>1 DEF Crash
  <2> QED BY <2>1, <2>2, <2>3 DEF Flagged, Marks
<1>2. ASSUME NEW c \in Jobs \cup {"poll"}, MissingRoute(c) PROVE Flagged'
  BY <1>2 DEF MissingRoute, Flagged
<1>3. CASE ~Crash /\ ~(\E c \in Jobs \cup {"poll"} : MissingRoute(c))
  <2>1. marked' = marked /\ (disabled => disabled')
    <3>1. CASE Start \/ Interrupt \/ BeginBeat \/ Polling
      BY <3>1 DEF history, Start, Interrupt, BeginBeat, Polling, BeginPoll, CheckPoll, SendPoll, Answer
    <3>2. CASE Command
      BY <3>2 DEF history, Command, Setup, OpenSetup, WriteSetup, BeginEdit, Edit, OpenEdit,
                  WriteEdit, Sync, Open
    <3>3. ASSUME NEW c, Enrolling(c) PROVE marked' = marked /\ (disabled => disabled')
      BY <3>3 DEF history, Enrolling, Ensure, Enrol, OpenEnrolled, WriteEnrolled, Open
    <3>4. ASSUME NEW c, Beating(c) PROVE marked' = marked /\ (disabled => disabled')
      <4>1. CASE Health(c)
        <5> DEFINE sees == c = "beat" /\ Verdict
        <5>1. disabled' = (disabled \/ sees) /\ marked' = marked
          BY <4>1 DEF history, Health
        <5> HIDE DEF sees
        <5> QED BY <5>1
      <4>2. CASE Heard(c) \/ NotHeard(c) \/ WriteToken(c)
        BY <4>2 DEF history, Heard, NotHeard, WriteToken
      <4> QED BY <3>4, <4>1, <4>2 DEF Beating
    <3>5. ASSUME NEW c, Marking(c) \/ EndJob(c) PROVE marked' = marked /\ (disabled => disabled')
      BY <3>5 DEF history, Marking, Mark, OpenMark, WriteMark, Open, EndJob
    <3>6. CASE UNCHANGED vars
      BY <3>6 DEF vars
    <3> QED BY <1>3, <3>1, <3>2, <3>3, <3>4, <3>5, <3>6 DEF Next
  <2>2. \A c \in Chains : pc'[c] \in Marks => pc[c] \in Marks
    <3>1. CASE QuietSteps
      <4>1. CASE Start
        BY <4>1 DEF Start, TypeOK, Marks
      <4>2. CASE BeginBeat \/ BeginPoll \/ CheckPoll \/ SendPoll
        BY <4>2 DEF BeginBeat, BeginPoll, CheckPoll, SendPoll, Goes, TypeOK, Marks
      <4>3. CASE Answer
        BY <4>3 DEF Answer, Goes, TypeOK, Marks
      <4>4. CASE BeginEdit \/ Sync \/ (Edit /\ ~Readable)
        BY <4>4 DEF BeginEdit, Sync, Edit, Goes, TypeOK, Marks
      <4>5. ASSUME NEW c \in {"beat", "poll", "cli"}, Beating(c) \/ Ensure(c)
            PROVE  \A d \in Chains : pc'[d] \in Marks => pc[d] \in Marks
        <5>1. \/ Ends(c)
              \/ \E l \in {"say", "send", "health", "ensure", "enrol"} : Goes(c, l)
          BY <4>5 DEF Beating, Health, Heard, NotHeard, WriteToken, Ensure, Stored, Enrolled
        <5>2. \A d \in Chains : pc'[d] = pc[d]
                 \/ pc'[d] \in {"idle", "say", "send", "health", "ensure", "enrol"}
          BY <5>1 DEF Ends, Goes, TypeOK
        <5> QED BY <5>2 DEF Marks
      <4>6. ASSUME NEW j \in Jobs, EndJob(j) PROVE \A d \in Chains : pc'[d] \in Marks => pc[d] \in Marks
        BY <4>6 DEF EndJob, Goes, TypeOK, Marks
      <4>7. CASE UNCHANGED vars
        BY <4>7 DEF vars
      <4> QED BY <1>3, <3>1, <4>1, <4>2, <4>3, <4>4, <4>5, <4>6, <4>7 DEF QuietSteps, Polling
    <3>2. CASE Drops
      BY <3>2 DEF Drops, Marks
    <3>3. ASSUME NEW c \in Chains, pc'[c] = "openEnrolled", \A d \in Chains \ {c} : pc'[d] = pc[d]
          PROVE  \A d \in Chains : pc'[d] \in Marks => pc[d] \in Marks
      BY <3>3 DEF Marks
    <3>4. ASSUME NEW c \in Chains, Takes(c) \/ Empties(c) \/ Fills(c)
          PROVE  \A d \in Chains : pc'[d] \in Marks => pc[d] \in Marks
      BY <3>4 DEF Takes, Empties, Fills, Mark, At, Marks
    <3> QED BY <3>1, <3>2, <3>3, <3>4, StepKinds
  <2> QED BY <1>a, <2>1, <2>2 DEF Flagged
<1> QED BY <1>1, <1>2, <1>3

(* Only its check and ensureEnrolled bring a poll closer to being sent.     *)
LEMMA PollMoves ==
  ASSUME TypeOK, Where, [Next]_vars, ~CheckPoll, ~Ensure("poll")
  PROVE  (Pending' => Pending) /\ (PastEnsure' => PastEnsure)
<1> USE Names
<1>a. {"off", "idle", "ensure", "enrol", "openEnrolled", "writeEnrolled", "token", "health", "say",
        "check", "send", "sent", "run", "mark", "openMark", "writeMark", "edit", "openEdit",
        "writeEdit", "openSetup", "writeSetup", "sync"} = Labels
  BY DEF Labels
<1>b. pc'["poll"] = pc["poll"] \/ pc'["poll"] \in {"off", "idle", "check", "say", "sent", "mark",
                                                   "openMark", "writeMark", "run"}
      => (Pending' => Pending) /\ (PastEnsure' => PastEnsure)
  BY DEF Pending, PastEnsure, Enrolment
<1>c. ASSUME NEW c \in Chains, NEW l \in Labels, Goes(c, l) \/ Ends(c), c # "poll"
      PROVE  pc'["poll"] = pc["poll"] \/ pc'["poll"] = "idle"
  BY <1>c, Moved
<1>d. ASSUME NEW l \in Labels, Goes("poll", l) \/ Ends("poll")
      PROVE  pc'["poll"] = l \/ pc'["poll"] = "idle"
  BY <1>d, Moved
<1>1. CASE Start
  BY <1>1, <1>a, <1>b, <1>c DEF Start, Goes
<1>2. CASE Crash
  BY <1>2, <1>b DEF Crash
<1>3. CASE Interrupt \/ BeginBeat \/ Command
  BY <1>3, <1>a, <1>b, <1>c DEF Interrupt, BeginBeat, Command, Setup, OpenSetup, WriteSetup,
     BeginEdit, Edit, OpenEdit, WriteEdit, Sync, Open
<1>4. CASE BeginPoll
  BY <1>4, <1>a, <1>b, <1>d DEF BeginPoll
<1>5. CASE SendPoll
  BY <1>5, <1>a, <1>b, <1>d DEF SendPoll
<1>6. CASE Answer
  BY <1>6, <1>b DEF Answer, Goes, TypeOK
<1>7. ASSUME NEW c \in {"beat", "poll", "cli"}, Enrolling(c)
      PROVE  (Pending' => Pending) /\ (PastEnsure' => PastEnsure)
  <2>1. CASE c # "poll"
    BY <1>7, <1>a, <1>b, <1>c, <2>1 DEF Enrolling, Ensure, Enrol, OpenEnrolled, WriteEnrolled, Open, Enrolled
  <2>2. CASE c = "poll"
    <3>1. pc["poll"] \in Enrolment
      BY <1>7, <2>2 DEF Enrolling, Enrol, OpenEnrolled, WriteEnrolled, Open, At, Enrolment
    <3> QED BY <3>1 DEF Pending, PastEnsure
  <2> QED BY <2>1, <2>2
<1>8. ASSUME NEW c \in {"beat", "poll", "cli"}, Beating(c)
      PROVE  (Pending' => Pending) /\ (PastEnsure' => PastEnsure)
  <2>1. CASE c # "poll"
    BY <1>8, <1>a, <1>b, <1>c, <2>1 DEF Beating, Health, Heard, NotHeard, WriteToken, Stored, Enrolled
  <2>2. CASE c = "poll" /\ WriteToken(c)
    BY <2>2 DEF WriteToken, At, Pending, PastEnsure
  <2>3. CASE c = "poll" /\ ~WriteToken(c)
    BY <1>8, <1>a, <1>b, <1>d, <2>3 DEF Beating, Health, Heard, NotHeard
  <2> QED BY <2>1, <2>2, <2>3
<1>9. ASSUME NEW c \in Jobs \cup {"poll"}, MissingRoute(c) \/ Marking(c)
      PROVE  (Pending' => Pending) /\ (PastEnsure' => PastEnsure)
  <2>1. \E l \in {"mark", "openMark", "writeMark", "idle", "run"} : Goes(c, l)
    BY <1>9 DEF MissingRoute, Marking, Mark, OpenMark, WriteMark, Open
  <2> QED BY <1>a, <1>b, <1>c, <1>d, <2>1
<1>10. ASSUME NEW j \in Jobs, EndJob(j)
       PROVE  (Pending' => Pending) /\ (PastEnsure' => PastEnsure)
  BY <1>10, <1>a, <1>b, <1>c DEF EndJob
<1>11. CASE UNCHANGED vars
  BY <1>11, <1>b DEF vars
<1> QED BY <1>1, <1>2, <1>3, <1>4, <1>5, <1>6, <1>7, <1>8, <1>9, <1>10, <1>11 DEF Next, Polling

(* Only setup and add-client or remove-client begin to rewrite the file.    *)
LEMMA CommandMoves ==
  ASSUME TypeOK, Where, [Next]_vars, ~Setup, ~BeginEdit
  PROVE  (Before' => Before) /\ (Window' => Window \/ Before)
<1> USE Names
<1>a. {"off", "idle", "ensure", "enrol", "openEnrolled", "writeEnrolled", "token", "health", "say",
        "check", "send", "sent", "run", "mark", "openMark", "writeMark", "edit", "openEdit",
        "writeEdit", "openSetup", "writeSetup", "sync"} = Labels
  BY DEF Labels
<1>b. pc'["cli"] = pc["cli"] \/ pc'["cli"] \in Labels \ {"edit", "openEdit", "openSetup", "writeEdit", "writeSetup"}
      => (Before' => Before) /\ (Window' => Window)
  BY DEF Before, Window
<1>c. ASSUME NEW c \in Chains, NEW l \in Labels, Goes(c, l) \/ Ends(c), c # "cli"
      PROVE  pc'["cli"] = pc["cli"]
  BY <1>c, Moved
<1>d. ASSUME NEW l \in Labels, Goes("cli", l) \/ Ends("cli")
      PROVE  pc'["cli"] = l \/ pc'["cli"] = "idle"
  BY <1>d, Moved
<1>1. CASE Start
  BY <1>1, <1>a, <1>b, <1>c DEF Start, Goes
<1>2. CASE Crash
  BY <1>2, <1>b DEF Crash
<1>3. CASE Interrupt \/ WriteSetup \/ WriteEdit \/ Sync
  BY <1>3, <1>a, <1>b, <1>d DEF Interrupt, WriteSetup, WriteEdit, Sync
<1>4. CASE OpenSetup \/ OpenEdit \/ Edit
  <2>1. Before /\ (Goes("cli", "writeSetup") \/ Goes("cli", "writeEdit") \/ Goes("cli", "openEdit")
                   \/ Goes("cli", "idle"))
    BY <1>4 DEF OpenSetup, OpenEdit, Edit, Open, Before, At
  <2> QED BY <2>1
<1>5. CASE BeginBeat \/ Polling
  <2>1. CASE Answer
    BY <1>b, <2>1 DEF Answer, Goes, TypeOK
  <2>2. CASE ~Answer
    BY <1>5, <1>a, <1>b, <1>c, <2>2 DEF BeginBeat, Polling, BeginPoll, CheckPoll, SendPoll
  <2> QED BY <2>1, <2>2
<1>7. ASSUME NEW c \in {"beat", "poll", "cli"}, Enrolling(c) \/ Beating(c)
      PROVE  (Before' => Before) /\ (Window' => Window)
  <2>1. \/ Ends(c)
        \/ \E l \in {"say", "send", "health", "ensure", "enrol", "openEnrolled", "writeEnrolled", "token"} :
             Goes(c, l)
    BY <1>7 DEF Enrolling, Ensure, Enrol, OpenEnrolled, WriteEnrolled, Open,
                Beating, Health, Heard, NotHeard, WriteToken, Stored, Enrolled
  <2> QED BY <1>a, <1>b, <1>c, <1>d, <2>1
<1>9. ASSUME NEW c \in Jobs \cup {"poll"}, MissingRoute(c) \/ Marking(c)
      PROVE  (Before' => Before) /\ (Window' => Window)
  <2>1. \E l \in {"mark", "openMark", "writeMark", "idle", "run"} : Goes(c, l)
    BY <1>9 DEF MissingRoute, Marking, Mark, OpenMark, WriteMark, Open
  <2> QED BY <1>a, <1>b, <1>c, <1>d, <2>1
<1>10. ASSUME NEW j \in Jobs, EndJob(j)
       PROVE  (Before' => Before) /\ (Window' => Window)
  BY <1>10, <1>a, <1>b, <1>c DEF EndJob
<1>11. CASE UNCHANGED vars
  BY <1>11, <1>b DEF vars
<1> QED BY <1>1, <1>2, <1>3, <1>4, <1>5, <1>7, <1>9, <1>10, <1>11 DEF Next, Command

(* What the other steps leave of the verdict and of the count.              *)
LEMMA Uncounted ==
  ASSUME FileOK, Flagged, [Next]_vars,
         ~Setup, ~BeginEdit, ~Crash, ~SendPoll, ~(\E c \in Jobs \cup {"poll"} : MissingRoute(c))
  PROVE  /\ late' = late /\ edits' = edits /\ marked' = marked
         /\ ~marked /\ Lasts' => Lasts
         /\ ~marked /\ Lasts /\ ~Lasts' => Window
<1>a. ~marked => \A c \in Chains : pc[c] \notin Marks
  BY DEF Flagged
<1>b. Lasts => \A c \in Chains : pc[c] \notin Enrolment
  BY DEF FileOK, Stands, Lasts
<1>c. standing \in BOOLEAN /\ crossed \in BOOLEAN
  BY DEF FileOK, TypeOK
<1>1. CASE Start \/ BeginBeat \/ BeginPoll \/ CheckPoll \/ Answer \/ Sync \/ Edit
  BY <1>1 DEF Lasts, history, Start, BeginBeat, BeginPoll, CheckPoll, Answer, Sync, Edit
<1>2. CASE OpenSetup \/ OpenEdit
  BY <1>2 DEF Lasts, OpenSetup, OpenEdit, Open
<1>3. CASE WriteSetup
  BY <1>3 DEF Lasts, WriteSetup, At, Window
<1>4. CASE WriteEdit
  <2> DEFINE over == \E d \in Chains \ {"cli"} : draft[d] # Blank
  <2>1. UNCHANGED <<late, edits, marked, standing>> /\ crossed' = (crossed \/ over) /\ Window
    BY <1>4 DEF WriteEdit, Writes, At, Window
  <2> HIDE DEF over
  <2> QED BY <1>c, <2>1 DEF Lasts
<1>5. CASE Interrupt
  <2> DEFINE half == Writing("cli")
  <2>1. UNCHANGED <<late, edits, marked, standing>> /\ crossed' = (crossed \/ half)
    BY <1>5 DEF Interrupt
  <2>2. half /\ ~marked /\ Lasts => Window
    BY <1>a, <1>b, Names DEF Writing, Enrolment, Marks, Window
  <2> HIDE DEF half
  <2> QED BY <1>c, <2>1, <2>2 DEF Lasts
<1>6. ASSUME NEW c \in {"beat", "poll", "cli"}, Enrolling(c)
      PROVE  /\ late' = late /\ edits' = edits /\ marked' = marked
             /\ Lasts' <=> Lasts
  <2>1. CASE Ensure(c) \/ Enrol(c) \/ OpenEnrolled(c)
    BY <2>1 DEF Lasts, history, Ensure, Enrol, OpenEnrolled, Open
  <2>2. CASE WriteEnrolled(c)
    <3>1. ~Lasts
      BY <1>b, <2>2, Names DEF WriteEnrolled, At, Enrolment
    <3> QED BY <2>2, <3>1 DEF WriteEnrolled, Lasts
  <2> QED BY <1>6, <2>1, <2>2 DEF Enrolling
<1>7. ASSUME NEW c, Beating(c)
      PROVE  UNCHANGED <<late, edits, marked, standing, crossed>>
  <2>1. CASE Health(c)
    BY <2>1 DEF history, Health
  <2>2. CASE Heard(c) \/ NotHeard(c) \/ WriteToken(c)
    BY <2>2 DEF history, Heard, NotHeard, WriteToken
  <2> QED BY <1>7, <2>1, <2>2 DEF Beating
<1>8. ASSUME NEW c \in Jobs \cup {"poll"}, Marking(c)
      PROVE  late' = late /\ edits' = edits /\ marked' = marked /\ marked
  <2>1. pc[c] \in Marks
    BY <1>8 DEF Marking, Mark, OpenMark, WriteMark, Open, At, Marks
  <2>2. marked
    BY <2>1, Names DEF Flagged
  <2> QED BY <1>8, <2>2 DEF Marking, Mark, OpenMark, WriteMark, Open
<1>9. ASSUME NEW j \in Jobs, EndJob(j) PROVE UNCHANGED <<late, edits, marked, standing, crossed>>
  BY <1>9 DEF history, EndJob
<1>10. CASE UNCHANGED vars
  BY <1>10 DEF vars, Lasts
<1> QED BY <1>1, <1>2, <1>3, <1>4, <1>5, <1>6, <1>7, <1>8, <1>9, <1>10 DEF Next, Polling, Command, Lasts

LEMMA OneMore ==
  \A l, m, e \in Nat, b \in 0..1 : m <= l + 1 =>
    /\ l + 1 <= 1 \/ l + 1 <= e => m + 0 <= 1 \/ m + 0 <= e
    /\ l + 1 + b <= e => m + 0 + b <= e
    /\ l + 1 + 1 <= e => m + 0 + 1 <= e
OBVIOUS

LEMMA ChargedStep == PollOK /\ [Next]_vars => Charged'
<1> SUFFICES ASSUME PollOK, [Next]_vars PROVE Charged'
  OBVIOUS
<1> USE Names DEF PollOK, FileOK
<1>a. /\ late \in Nat /\ edits \in Nat /\ Edits \in Nat /\ late' \in Nat /\ edits' \in Nat
      /\ marked \in BOOLEAN /\ standing \in BOOLEAN /\ crossed \in BOOLEAN /\ disabled \in BOOLEAN
  BY NodeAssumption, TypesStep DEF TypeOK
<1>b. \A b : Num(b) \in {0, 1} /\ (b => Num(b) = 1) /\ (~b => Num(b) = 0)
  BY DEF Num
<1>c. /\ ~(Before /\ Window)
      /\ PastEnsure => Pending
  BY DEF Before, Window, Pending
<1>d. /\ Before \/ Window => edits > 0
      /\ marked => late + Num(Pending) <= 1 \/ late + Num(Pending) <= edits
      /\ ~marked => late <= edits
      /\ ~marked /\ ~Lasts => late = 0 \/ late + 1 <= edits
      /\ ~marked /\ Lasts =>
           /\ late + Num(Pending) + Num(Before) <= edits
           /\ Window => late + Num(PastEnsure) + 1 <= edits
  BY DEF Charged
<1>e. Window => Writing("cli")
  BY DEF Window, Writing
<1> DEFINE P == Pending  Q == PastEnsure  B == Before  W == Window
           P1 == Pending'  Q1 == PastEnsure'  B1 == Before'  W1 == Window'
<1>f. ASSUME /\ B1 \/ W1 => edits' > 0
             /\ marked' => late' + Num(P1) <= 1 \/ late' + Num(P1) <= edits'
             /\ ~marked' => late' <= edits'
             /\ ~marked' /\ ~Lasts' => late' = 0 \/ late' + 1 <= edits'
             /\ ~marked' /\ Lasts' =>
                  /\ late' + Num(P1) + Num(B1) <= edits'
                  /\ W1 => late' + Num(Q1) + 1 <= edits'
      PROVE  Charged'
  BY <1>f DEF Charged, Num
<1>g. /\ B \/ W => edits > 0
      /\ marked => late + Num(P) <= 1 \/ late + Num(P) <= edits
      /\ ~marked /\ Lasts =>
           /\ late + Num(P) + Num(B) <= edits
           /\ W => late + Num(Q) + 1 <= edits
  BY <1>d
<1>h. (Q => P) /\ ~(B /\ W)
  BY <1>c
<1> HIDE DEF P, Q, B, W, P1, Q1, B1, W1
<1>1. CASE Crash
  <2>1. /\ late' = 0 /\ marked' = FALSE /\ edits' = edits /\ pc'["cli"] = pc["cli"] /\ pc'["poll"] = "off"
    BY <1>1 DEF Crash
  <2>2. (B1 <=> B) /\ (W1 <=> W) /\ ~P1 /\ ~Q1
    BY <2>1 DEF B, B1, W, W1, P1, Q1, Before, Window, Pending, PastEnsure, Enrolment
  <2>3. Num(P1) = 0 /\ Num(Q1) = 0
    BY <2>2 DEF Num
  <2>4. Num(B1) = 0 \/ (Num(B1) = 1 /\ edits > 0)
    BY <1>g, <2>2 DEF Num
  <2>5. late' + Num(P1) + Num(B1) <= edits'
    BY <1>a, <2>1, <2>3, <2>4
  <2>6. W1 => late' + Num(Q1) + 1 <= edits'
    BY <1>a, <1>g, <2>1, <2>2, <2>3
  <2> QED BY <1>a, <1>f, <1>g, <2>1, <2>2, <2>5, <2>6
<1>2. CASE Setup \/ BeginEdit
  <2>1. /\ edits' = edits + 1 /\ UNCHANGED <<late, marked, standing, crossed>>
        /\ pc'["poll"] = pc["poll"]
        /\ pc["cli"] = "idle" /\ pc'["cli"] \in {"openSetup", "edit"}
    <3>1. \A l : Goes("cli", l) => pc'["poll"] = pc["poll"] /\ pc'["cli"] = l
      BY DEF Goes, TypeOK
    <3> QED BY <1>2, <3>1 DEF Setup, BeginEdit, history, At
  <2>2. B1 /\ ~W1 /\ ~B /\ ~W /\ (P1 <=> P)
    BY <2>1 DEF B, B1, W, W1, P, P1, Before, Window, Pending, PastEnsure
  <2>3. Num(B1) = 1 /\ Num(B) = 0 /\ Num(P1) = Num(P) /\ Num(P) \in 0..1
    BY <2>2 DEF Num
  <2>4. ~marked /\ Lasts => late' + Num(P1) + Num(B1) <= edits'
    BY <1>a, <1>g, <2>1, <2>3
  <2>5. marked => late' + Num(P1) <= 1 \/ late' + Num(P1) <= edits'
    BY <1>a, <1>g, <2>1, <2>3
  <2>8. ~marked /\ ~Lasts => late' = 0 \/ late' + 1 <= edits'
    BY <1>a, <1>d, <2>1
  <2>9. Lasts' <=> Lasts
    BY <2>1 DEF Lasts
  <2>6. ~marked => late' <= edits'
    BY <1>a, <1>d, <2>1
  <2>7. edits' > 0
    BY <1>a, <2>1
  <2> QED BY <1>f, <2>1, <2>2, <2>4, <2>5, <2>6, <2>7, <2>8, <2>9
<1>3. CASE SendPoll
  <2>1. /\ UNCHANGED <<edits, marked, standing, crossed>> /\ pc'["cli"] = pc["cli"]
        /\ pc["poll"] = "send" /\ pc'["poll"] = "sent"
        /\ late' = late \/ (late' = late + 1 /\ (marked \/ Lasts))
    BY <1>3, <1>a DEF Lasts, SendPoll, Goes, At, TypeOK
  <2>2. (B1 <=> B) /\ (W1 <=> W) /\ ~P1 /\ ~Q1 /\ P /\ Q
    BY <2>1 DEF B, B1, W, W1, P, Q, P1, Q1, Before, Window, Pending, PastEnsure, Enrolment
  <2>3. /\ Num(P) = 1 /\ Num(Q) = 1 /\ Num(P1) = 0 /\ Num(Q1) = 0
        /\ Num(B1) = Num(B) /\ Num(B) \in 0..1
    BY <2>2 DEF Num
  <2>4. edits' = edits /\ marked' = marked /\ (Lasts' <=> Lasts) /\ late' <= late + 1
    BY <1>a, <2>1 DEF Lasts
  <2>5. marked' => late' + Num(P1) <= 1 \/ late' + Num(P1) <= edits'
    <3>1. marked => late + 1 <= 1 \/ late + 1 <= edits
      BY <1>g, <2>3
    <3> QED BY <1>a, <2>3, <2>4, <3>1, OneMore
  <2>6. ~marked' /\ Lasts' =>
          late' + Num(P1) + Num(B1) <= edits' /\ (W1 => late' + Num(Q1) + 1 <= edits')
    <3>1. ~marked /\ Lasts =>
            late + 1 + Num(B) <= edits /\ (W => late + 1 + 1 <= edits)
      BY <1>g, <2>3
    <3> QED BY <1>a, <2>2, <2>3, <2>4, <3>1, OneMore
  <2>7. ~marked' => late' <= edits'
    <3>1. CASE late' = late
      BY <1>d, <2>4, <3>1
    <3>2. CASE marked \/ Lasts
      <4>1. late' + 0 + Num(B) <= edits => late' <= edits
        BY <1>a, <2>3
      <4> QED BY <2>3, <2>4, <2>6, <3>2, <4>1
    <3> QED BY <2>1, <3>1, <3>2
  <2>8. ~marked' /\ ~Lasts' => late' = 0 \/ late' + 1 <= edits'
    BY <1>d, <2>1, <2>4
  <2> QED BY <1>f, <1>g, <2>1, <2>2, <2>5, <2>6, <2>7, <2>8
<1>4. ASSUME NEW c \in Jobs \cup {"poll"}, MissingRoute(c) PROVE Charged'
  <2>1. UNCHANGED <<edits, late, standing, crossed>> /\ marked' = TRUE
    BY <1>4 DEF MissingRoute
  <2>2. ~Setup /\ ~BeginEdit
    <3>1. edits' # edits + 1
      BY <1>a, <2>1
    <3> QED BY <3>1 DEF Setup, BeginEdit
  <2>3. ~CheckPoll /\ ~Ensure("poll")
    <3>1. pc'[c] = "mark" /\ pc[c] # "mark"
      BY <1>4, Moved DEF MissingRoute, MeetsNoRoute, At, Labels
    <3>2. CASE CheckPoll
      BY <3>1, <3>2 DEF CheckPoll, Goes, TypeOK
    <3>3. CASE Ensure("poll")
      BY <3>1, <3>3 DEF Ensure, Enrolled, Goes, Ends, TypeOK
    <3> QED BY <3>2, <3>3
  <2>4. (P1 => P) /\ (B1 \/ W1 => B \/ W)
    BY <2>2, <2>3, PollMoves, CommandMoves DEF P, P1, B, B1, W, W1
  <2>5. Num(P) \in 0..1 /\ Num(B) \in 0..1 /\ Num(P1) \in 0..1 /\ Num(P1) <= Num(P)
    BY <2>4 DEF Num
  <2>6. late + Num(P1) <= 1 \/ late + Num(P1) <= edits
    <3>1. late + Num(P) <= 1 \/ late + Num(P) <= edits
      BY <1>a, <1>d, <1>g, <2>5
    <3> QED BY <1>a, <2>5, <3>1
  <2> QED BY <1>f, <1>g, <2>1, <2>4, <2>6
<1>5. CASE ~Crash /\ ~Setup /\ ~BeginEdit /\ ~SendPoll
           /\ ~(\E c \in Jobs \cup {"poll"} : MissingRoute(c))
  <2>1. /\ late' = late /\ edits' = edits /\ marked' = marked
        /\ ~marked /\ Lasts' => Lasts
        /\ ~marked /\ Lasts /\ ~Lasts' => W
    BY <1>5, Uncounted DEF W
  <2>2. (B1 => B) /\ (W1 => W \/ B)
    BY <1>5, CommandMoves DEF B, B1, W, W1
  <2>6. ~marked /\ ~Lasts' => late = 0 \/ late + 1 <= edits
    <3>1. ~marked /\ Lasts /\ ~Lasts' => late + Num(Q) + 1 <= edits
      BY <1>g, <2>1
    <3>2. Num(Q) \in 0..1
      BY DEF Num
    <3> QED BY <1>a, <1>d, <3>1, <3>2
  <2>3. CASE ~CheckPoll /\ ~Ensure("poll")
    <3>1. (P1 => P) /\ (Q1 => Q)
      BY <2>3, PollMoves DEF P, P1, Q, Q1
    <3> QED BY <1>a, <1>b, <1>d, <1>f, <1>g, <1>h, <2>1, <2>2, <2>6, <3>1
  <2>4. CASE CheckPoll
    <3>1. pc["poll"] = "check" /\ pc'["cli"] = pc["cli"]
          /\ \/ pc'["poll"] = "idle"
             \/ pc'["poll"] = "ensure" /\ ~disabled /\ ~Verdict
      BY <2>4 DEF CheckPoll, At, Goes, TypeOK
    <3>2. ~P /\ ~Q /\ ~Q1 /\ (B1 <=> B) /\ (W1 <=> W) /\ (pc'["poll"] = "idle" => ~P1)
      BY <3>1 DEF P, P1, Q, Q1, B, B1, W, W1, Pending, PastEnsure, Enrolment, Before, Window
    <3>3. CASE pc'["poll"] = "idle"
      BY <1>a, <1>b, <1>d, <1>f, <1>g, <1>h, <2>1, <2>6, <3>2, <3>3
    <3>4. CASE pc'["poll"] = "ensure" /\ ~disabled /\ ~Verdict
      <4>1. ~marked
        BY <3>4 DEF Flagged
      <4>2. Lasts => W
        <5> SUFFICES ASSUME standing, ~crossed PROVE Window
          BY DEF W, Lasts
        <5>1. file.kind = "emptied"
          BY <3>4 DEF Stands, Clean, Known, Verdict, TypeOK
        <5>2. PICK c \in Chains : Writing(c)
          BY <5>1 DEF Clean
        <5>3. pc[c] \notin Enrolment /\ pc[c] \notin Marks
          BY <4>1 DEF Stands, Flagged
        <5>4. pc[c] \in {"writeEdit", "writeSetup"}
          BY <5>2, <5>3 DEF Writing, Enrolment, Marks
        <5>5. c = "cli"
          BY <5>4, PlacesOf DEF Where, Beat, Enrolment, Marks, Chains, Daemon
        <5> QED BY <5>4, <5>5 DEF Window
      <4> QED BY <1>a, <1>b, <1>d, <1>f, <1>g, <1>h, <2>1, <2>6, <3>2, <4>1, <4>2
    <3> QED BY <3>1, <3>3, <3>4
  <2>5. CASE Ensure("poll")
    <3>1. pc["poll"] = "ensure" /\ pc'["cli"] = pc["cli"] /\ (Readable \/ pc'["poll"] = "idle")
      BY <2>5 DEF Ensure, At, Goes, Ends, TypeOK
    <3>2. P /\ (B1 <=> B) /\ (W1 <=> W)
      BY <3>1 DEF P, B, B1, W, W1, Pending, Before, Window
    <3>3. pc'["poll"] = "idle" => ~Q1
      BY DEF Q1, PastEnsure, Enrolment
    <3>4. Readable /\ ~crossed => ~W
      BY <1>e DEF W, Clean, Readable
    <3>5. ~marked /\ Lasts' => (W1 => ~Q1)
      BY <2>1, <3>1, <3>2, <3>3, <3>4 DEF Lasts
    <3>6. Num(P) = 1 /\ Num(P1) \in 0..1 /\ Num(B1) = Num(B) /\ Num(B) \in 0..1
          /\ (~Q1 => Num(Q1) = 0)
      BY <3>2 DEF Num
    <3>7. ~marked /\ Lasts =>
            /\ late' + Num(P1) + Num(B1) <= edits'
            /\ W1 => late' + 1 <= edits'
      <4>1. ~marked /\ Lasts => late + 1 + Num(B) <= edits
        BY <1>g, <3>6
      <4> QED BY <1>a, <2>1, <3>6, <4>1
    <3>8. marked => late' + Num(P1) <= 1 \/ late' + Num(P1) <= edits'
      BY <1>a, <1>g, <2>1, <3>6
    <3>9. ~marked /\ Lasts' => (W1 => late' + Num(Q1) + 1 <= edits')
      BY <1>a, <2>1, <3>5, <3>6, <3>7
    <3> QED BY <1>d, <1>f, <1>g, <2>1, <2>6, <3>2, <3>7, <3>8, <3>9
  <2> QED BY <2>3, <2>4, <2>5
<1> QED BY <1>1, <1>2, <1>3, <1>4, <1>5

(* A daemon that has called itself degraded, or was started so, sends at    *)
(* most one poll more, or one for every command of its owner.               *)
THEOREM PollsBounded == Spec => []PollsStop
<1>1. PollOK /\ [Next]_vars => PollOK'
  BY FileOKStep, FlaggedStep, ChargedStep DEF PollOK
<1>2. PollOK => PollsStop
  BY DEF PollOK, FileOK, TypeOK, Charged, Num, PollsStop
<1> QED BY <1>1, <1>2, PollOKInit, PTL DEF Spec

=============================================================================
