----------------------------- MODULE NodeState -----------------------------
(***************************************************************************)
(* The state file and the token file of a self-hosted node, and the node's *)
(* verdict on its own health: after a lifecycle route of the gateway       *)
(* answered 404, the node calls itself degraded and stops polling.         *)
(*                                                                         *)
(* The daemon's heartbeat, its poll and its jobs, and the commands an      *)
(* owner runs beside it, all read and rewrite the one state file, with     *)
(* awaits in between and without a lock.  A rewrite opens the file, which  *)
(* empties it, and then writes it; a reader in between finds no JSON.      *)
(***************************************************************************)
EXTENDS Naturals, FiniteSets

CONSTANTS Jobs,       \* the relay jobs the daemon may execute at a time
          Edits,      \* bound: owner commands
          Crashes     \* bound: ends of the daemon or of a command half way

ASSUME NodeAssumption ==
  /\ IsFiniteSet(Jobs) /\ Jobs \cap {"beat", "poll", "cli"} = {}
  /\ Edits \in Nat /\ Crashes \in Nat

VARIABLES file,       \* the state file
          token,      \* the token file holds a token
          invited,    \* the environment's node id and enrollment token: "no", "yes", "used"
          up,         \* the daemon runs
          disabled,   \* its lifecyclePollingDisabled
          pc,         \* where each chain of awaits is
          draft,      \* what a chain is about to write
          report,     \* the verdict a heartbeat is about to report
          routes,     \* calls of a job that may still meet a 404 and be marked
          gateway,    \* the last verdict the gateway heard
          edits, crashes,
          crossed,    \* history: two rewrites overlapped, or one was met half way
          marked,     \* history: this daemon has called itself degraded
          standing,   \* history: that verdict has been written and not withdrawn
          late        \* history: polls sent in spite of the verdict

vars == <<file, token, invited, up, disabled, pc, draft, report,
          routes, gateway, edits, crashes, crossed, marked, standing, late>>
history == <<crossed, marked, standing, late>>

Daemon == Jobs \cup {"beat", "poll"}
Chains == Daemon \cup {"cli"}

(* The fields by which states differ here: the node's identity and routes, *)
(* and the verdict.                                                        *)
Blank  == [node |-> FALSE, degraded |-> FALSE]
States == [node : BOOLEAN, degraded : BOOLEAN]
Holding(kind, s) == [kind |-> kind, state |-> s]

Goes(c, to) == pc' = [pc EXCEPT ![c] = to]
At(c, l)    == pc[c] = l

TypeOK ==
  /\ file \in [kind : {"absent", "emptied", "garbled", "whole"}, state : States]
  /\ file.kind # "whole" => file.state = Blank
  /\ pc \in [Chains -> {"off", "idle", "ensure", "enrol", "openEnrolled",
       "writeEnrolled", "token", "health", "say", "check", "send", "sent", "run", "mark",
       "openMark", "writeMark", "edit", "openEdit", "writeEdit", "openSetup", "writeSetup",
       "sync"}]
  /\ draft \in [Chains -> States]
  /\ report \in [Chains -> BOOLEAN]
  /\ routes \in [Jobs -> 0..2]
  /\ {token, up, disabled, gateway} \subseteq BOOLEAN /\ invited \in {"no", "yes", "used"}
  /\ edits \in 0..Edits /\ crashes \in 0..Crashes
  /\ late \in 0..(Edits + 2)
  /\ {crossed, marked, standing} \subseteq BOOLEAN

----------------------------------------------------------------------------
(* Reading and rewriting the file. *)

(* readSelfHostedNodeState: an absent file is {}; one that is no JSON throws. *)
Readable == file.kind \in {"absent", "whole"}

(* readSelfHostedNodeConfig in an owner's shell, which names no node. *)
Configured == Readable /\ file.state.node

Writing(c) == pc[c] \in {"writeEnrolled", "writeMark", "writeEdit", "writeSetup"}

(* writeFile opens the file and thereby empties it ... *)
Opens == file' = Holding("emptied", Blank)

(* ... and writes; over what another has written since, a tail may be left. *)
Writes(c) ==
  /\ \/ file' = Holding("whole", draft[c])
     \/ file.kind # "emptied" /\ file' = Holding("garbled", Blank)
  /\ draft' = [draft EXCEPT ![c] = Blank]
  /\ crossed' = (crossed \/ \E d \in Chains \ {c} : draft[d] # Blank)

(* A node that setup has registered, or one that nothing has yet. *)
Init ==
  /\ \/ /\ file = Holding("absent", Blank) /\ token = FALSE /\ invited \in {"no", "yes"}
     \/ file = Holding("whole", [Blank EXCEPT !.node = TRUE]) /\ token = TRUE /\ invited = "no"
  /\ up = FALSE /\ disabled = FALSE
  /\ pc = [c \in Chains |-> IF c = "cli" THEN "idle" ELSE "off"]
  /\ draft = [c \in Chains |-> Blank] /\ report = [c \in Chains |-> FALSE]
  /\ routes = [j \in Jobs |-> 0] /\ gateway = FALSE /\ edits = 0 /\ crashes = 0
  /\ crossed = FALSE
  /\ marked = FALSE /\ standing = FALSE /\ late = 0

----------------------------------------------------------------------------
(* The daemon's process.  The service manager starts it whenever it is down. *)

(* readSelfHostedNodeConfig; the node id is the environment's or the file's. *)
Start ==
  /\ ~up /\ Readable
  /\ file.state.node \/ invited # "no"
  /\ up' = TRUE
  /\ pc' = [pc EXCEPT !["beat"] = "ensure"]
  /\ UNCHANGED <<file, token, invited, disabled, draft, report, routes, gateway, edits, crashes, history>>

(* The end of the daemon, wherever its chains are; what it had emptied stays empty. *)
Crash ==
  /\ up /\ crashes < Crashes /\ crashes' = crashes + 1
  /\ up' = FALSE /\ disabled' = FALSE
  /\ pc' = [c \in Chains |-> IF c = "cli" THEN pc[c] ELSE "off"]
  /\ draft' = [c \in Chains |-> IF c = "cli" THEN draft[c] ELSE Blank]
  /\ report' = [c \in Chains |-> IF c = "cli" THEN report[c] ELSE FALSE]
  /\ routes' = [j \in Jobs |-> 0]
  /\ crossed' = (crossed \/ \E c \in Daemon : Writing(c))
  /\ marked' = FALSE /\ late' = 0
  /\ UNCHANGED <<file, token, invited, gateway, edits, standing>>

----------------------------------------------------------------------------
(* ensureEnrolled, called by the heartbeat and by the poll. *)

Enrolled(c) == IF c = "poll" THEN "send" ELSE "health"
Stored(c)   == IF c = "cli" THEN "ensure" ELSE Enrolled(c)   \* a command's token is setup's

(* The first poll is scheduled when the first heartbeat has ended, however it ended. *)
Ends(c) ==
  pc' = [pc EXCEPT ![c] = "idle",
                   !["poll"] = IF c = "beat" /\ @ = "off" THEN "idle"
                               ELSE IF c = "poll" THEN "idle" ELSE @]

(* A file that is no JSON, or no token and no way to get one, throws; a *)
(* command's shell holds no enrollment token.                            *)
Ensure(c) ==
  /\ At(c, "ensure")
  /\ \/ Readable /\ token /\ Goes(c, Enrolled(c)) /\ UNCHANGED draft
     \/ /\ Readable /\ ~token /\ c # "cli" /\ invited # "no"
        /\ Goes(c, "enrol")
        /\ draft' = [draft EXCEPT ![c] = [file.state EXCEPT !.node = TRUE, !.degraded = FALSE]]
     \/ /\ ~Readable \/ (~token /\ (c = "cli" \/ invited = "no"))
        /\ Ends(c) /\ UNCHANGED draft
  /\ UNCHANGED <<file, token, invited, up, disabled, report, routes, gateway, edits, crashes,
                 crossed, marked, standing, late>>

(* Mutant: the token is written before the state it belongs to. *)
EnrolTokenFirst(c) ==
  /\ At(c, "enrol")
  /\ \/ invited = "yes" /\ invited' = "used" /\ Goes(c, "openEnrolled") /\ token' = TRUE
        /\ UNCHANGED draft
     \/ invited = "used" /\ Ends(c) /\ draft' = [draft EXCEPT ![c] = Blank]
        /\ UNCHANGED <<invited, token>>
  /\ UNCHANGED <<file, up, disabled, report, routes, gateway, edits, crashes, history>>

(* The gateway takes an enrollment token once.  The call may fail before or *)
(* after it has, or be answered without a runtime token: it throws.          *)
Enrol(c) ==
  /\ At(c, "enrol")
  /\ \/ invited = "yes" /\ invited' = "used" /\ Goes(c, "openEnrolled") /\ UNCHANGED draft
     \/ /\ Ends(c) /\ draft' = [draft EXCEPT ![c] = Blank]
        /\ invited' \in {invited, "used"}
  /\ UNCHANGED <<file, token, up, disabled, report, routes, gateway, edits, crashes, history>>

Open(c, what, next) ==
  /\ At(c, what) /\ Goes(c, next) /\ Opens
  /\ UNCHANGED <<token, invited, up, disabled, draft, report, routes, gateway, edits, crashes,
                 crossed, marked, standing, late>>

OpenEnrolled(c) == Open(c, "openEnrolled", "writeEnrolled")

WriteEnrolled(c) ==
  /\ At(c, "writeEnrolled") /\ Goes(c, "token") /\ Writes(c)
  /\ standing' = FALSE
  /\ UNCHANGED <<token, invited, up, disabled, report, routes, gateway, edits, crashes,
                 marked, late>>

(* writeSelfHostedRuntimeToken *)
WriteToken(c) ==
  /\ At(c, "token") /\ Goes(c, Stored(c))
  /\ token' = TRUE
  /\ UNCHANGED <<file, invited, up, disabled, draft, report, routes, gateway, edits, crashes, history>>

----------------------------------------------------------------------------
(* runOnce: a heartbeat, of the daemon or of an owner's command. *)

BeginBeat ==
  /\ up /\ At("beat", "idle") /\ Goes("beat", "ensure")
  /\ UNCHANGED <<file, token, invited, up, disabled, draft, report, routes, gateway,
                 edits, crashes, history>>

(* readLifecycleState takes any error for {}; the verdict is self_hosted_protocol_mismatch. *)
Verdict == file.state.degraded

(* Mutant: the heartbeat reports what this process knows. *)
HealthOfProcess(c) ==
  /\ At(c, "health") /\ Goes(c, "say")
  /\ report' = [report EXCEPT ![c] = disabled]
  /\ UNCHANGED <<file, token, invited, up, disabled, draft, routes, gateway, edits, crashes, history>>

Health(c) ==
  /\ At(c, "health") /\ Goes(c, "say")
  /\ report' = [report EXCEPT ![c] = Verdict]
  /\ disabled' = (disabled \/ (c = "beat" /\ Verdict))
  /\ UNCHANGED <<file, token, invited, up, draft, routes, gateway, edits, crashes, history>>

Heard(c) ==
  /\ At(c, "say") /\ Ends(c)
  /\ gateway' = report[c]
  /\ report' = [report EXCEPT ![c] = FALSE]
  /\ UNCHANGED <<file, token, invited, up, disabled, draft, routes, edits, crashes, history>>

NotHeard(c) ==
  /\ At(c, "say") /\ Ends(c)
  /\ report' = [report EXCEPT ![c] = FALSE]
  /\ UNCHANGED <<file, token, invited, up, disabled, draft, routes, gateway, edits, crashes, history>>

----------------------------------------------------------------------------
(* pollRelayJob and the jobs it claims. *)

(* poll and schedulePoll of the daemon look at the flag. *)
BeginPoll ==
  /\ up /\ At("poll", "idle") /\ ~disabled /\ Goes("poll", "check")
  /\ UNCHANGED <<file, token, invited, up, disabled, draft, report, routes, gateway,
                 edits, crashes, history>>

CheckPoll ==
  /\ At("poll", "check")
  /\ IF disabled \/ Verdict
     THEN disabled' = TRUE /\ Goes("poll", "idle")
     ELSE Goes("poll", "ensure") /\ UNCHANGED disabled
  /\ UNCHANGED <<file, token, invited, up, draft, report, routes, gateway, edits, crashes, history>>

(* The flag may have been raised while ensureEnrolled was awaited. *)
SendPoll ==
  /\ At("poll", "send") /\ Goes("poll", "sent")
  /\ late' = IF (marked \/ (standing /\ ~crossed)) /\ late < Edits + 2 THEN late + 1 ELSE late
  /\ UNCHANGED <<file, token, invited, up, disabled, draft, report, routes, gateway, edits, crashes,
                 crossed, marked, standing>>

(* A job for a free chain, nothing, or an error other than a 404.  A job can  *)
(* be marked for its start or one of its events, and for its result.          *)
Answer ==
  /\ At("poll", "sent")
  /\ \/ Goes("poll", "idle") /\ UNCHANGED routes
     \/ \E j \in Jobs : /\ pc[j] \in {"off", "idle"}
                        /\ pc' = [pc EXCEPT !["poll"] = "idle", ![j] = "run"]
                        /\ routes' = [routes EXCEPT ![j] = 2]
  /\ UNCHANGED <<file, token, invited, up, disabled, draft, report, gateway,
                 edits, crashes, history>>

EndJob(j) ==
  /\ At(j, "run") /\ Goes(j, "idle")
  /\ routes' = [routes EXCEPT ![j] = 0]
  /\ UNCHANGED <<file, token, invited, up, disabled, draft, report, gateway,
                 edits, crashes, history>>

MeetsNoRoute(c) ==
  IF c = "poll" THEN At(c, "sent") /\ UNCHANGED routes
  ELSE At(c, "run") /\ routes[c] > 0 /\ routes' = [routes EXCEPT ![c] = @ - 1]

(* Mutant: the flag waits for the state file. *)
MissingRouteUnflagged(c) ==
  /\ MeetsNoRoute(c) /\ Goes(c, "mark")
  /\ marked' = TRUE
  /\ UNCHANGED <<file, token, invited, up, disabled, draft, report, gateway, edits, crashes,
                 crossed, standing, late>>

(* A 404 for a poll, or for a start, an event or a result of a job:          *)
(* markLifecycleProtocolDegraded, which sets the flag before its first await. *)
MissingRoute(c) ==
  /\ MeetsNoRoute(c) /\ Goes(c, "mark")
  /\ disabled' = TRUE /\ marked' = TRUE
  /\ UNCHANGED <<file, token, invited, up, draft, report, gateway, edits, crashes,
                 crossed, standing, late>>

(* What cannot be read is taken for {}, and all but the verdict is lost. *)
Mark(c) ==
  /\ At(c, "mark") /\ Goes(c, "openMark")
  /\ draft' = [draft EXCEPT ![c] = [file.state EXCEPT !.degraded = TRUE]]
  /\ crossed' = (crossed \/ \E d \in Chains : Writing(d))
  /\ UNCHANGED <<file, token, invited, up, disabled, report, routes, gateway, edits, crashes,
                 marked, standing, late>>

OpenMark(c) == Open(c, "openMark", "writeMark")

WriteMark(c) ==
  /\ At(c, "writeMark") /\ Goes(c, IF c = "poll" THEN "idle" ELSE "run") /\ Writes(c)
  /\ standing' = TRUE
  /\ UNCHANGED <<token, invited, up, disabled, report, routes, gateway, edits, crashes,
                 marked, late>>

----------------------------------------------------------------------------
(* An owner's commands, one at a time: setup, and add-client or remove-client, *)
(* which rewrite the file with all they have read and another list of clients. *)

Setup ==
  /\ At("cli", "idle") /\ edits < Edits /\ edits' = edits + 1
  /\ Goes("cli", "openSetup")
  /\ draft' = [draft EXCEPT !["cli"] = [node |-> TRUE, degraded |-> FALSE]]
  /\ UNCHANGED <<file, token, invited, up, disabled, report, routes, gateway, crashes,
                 crossed, marked, standing, late>>

OpenSetup == Open("cli", "openSetup", "writeSetup")

(* Setup depends on nothing it has read. *)
WriteSetup ==
  /\ At("cli", "writeSetup") /\ Goes("cli", "token") /\ Writes("cli")
  /\ standing' = FALSE
  /\ UNCHANGED <<token, invited, up, disabled, report, routes, gateway, edits, crashes,
                 marked, late>>

(* runNodeClientMutation stops where the configuration cannot be read. *)
BeginEdit ==
  /\ At("cli", "idle") /\ edits < Edits /\ Configured
  /\ edits' = edits + 1 /\ Goes("cli", "edit")
  /\ UNCHANGED <<file, token, invited, up, disabled, draft, report, routes, gateway, crashes, history>>

(* Mutant: the verdict is taken for withdrawn. *)
EditClearsVerdict ==
  /\ At("cli", "edit")
  /\ Goes("cli", "openEdit")
  /\ draft' = [draft EXCEPT !["cli"] = [node |-> TRUE, degraded |-> FALSE]]
  /\ UNCHANGED <<file, token, invited, up, disabled, report, routes, gateway, edits, crashes,
                 crossed, marked, standing, late>>

Edit ==
  /\ At("cli", "edit")
  /\ IF Readable
     THEN /\ Goes("cli", "openEdit")
          /\ draft' = [draft EXCEPT !["cli"] = file.state]
     ELSE Goes("cli", "idle") /\ UNCHANGED draft
  /\ UNCHANGED <<file, token, invited, up, disabled, report, routes, gateway, edits, crashes,
                 crossed, marked, standing, late>>

OpenEdit == Open("cli", "openEdit", "writeEdit")

WriteEdit ==
  /\ At("cli", "writeEdit") /\ Goes("cli", "sync") /\ Writes("cli")
  /\ UNCHANGED <<token, invited, up, disabled, report, routes, gateway, edits, crashes,
                 marked, standing, late>>

(* The configuration is read again for a heartbeat of the command's own; --no-sync omits it. *)
Sync ==
  /\ At("cli", "sync")
  /\ Goes("cli", "idle") \/ (Configured /\ Goes("cli", "ensure"))
  /\ UNCHANGED <<file, token, invited, up, disabled, draft, report, routes, gateway, edits, crashes, history>>

(* The owner stops a command half way. *)
Interrupt ==
  /\ pc["cli"] # "idle" /\ crashes < Crashes /\ crashes' = crashes + 1
  /\ Goes("cli", "idle")
  /\ crossed' = (crossed \/ Writing("cli"))
  /\ draft' = [draft EXCEPT !["cli"] = Blank] /\ report' = [report EXCEPT !["cli"] = FALSE]
  /\ UNCHANGED <<file, token, invited, up, disabled, routes, gateway, edits,
                 marked, standing, late>>

----------------------------------------------------------------------------
Beating(c) == Health(c) \/ Heard(c) \/ NotHeard(c) \/ WriteToken(c)
Enrolling(c) == Ensure(c) \/ Enrol(c) \/ OpenEnrolled(c) \/ WriteEnrolled(c)
Marking(c) == Mark(c) \/ OpenMark(c) \/ WriteMark(c)
Polling == BeginPoll \/ CheckPoll \/ SendPoll \/ Answer
Command == Setup \/ OpenSetup \/ WriteSetup \/ BeginEdit \/ Edit \/ OpenEdit \/ WriteEdit \/ Sync

Next ==
  \/ Start \/ Crash \/ Interrupt \/ BeginBeat \/ Polling \/ Command
  \/ \E c \in {"beat", "poll", "cli"} : Enrolling(c)
  \/ \E c \in {"beat", "poll", "cli"} : Beating(c)
  \/ \E c \in Jobs \cup {"poll"} : MissingRoute(c) \/ Marking(c)
  \/ \E j \in Jobs : EndJob(j)

Spec == Init /\ [][Next]_vars

(* The service manager restarts the daemon, its timer beats again and again, *)
(* the gateway does not refuse every heartbeat, and a write comes to its end. *)
FairSpec ==
  /\ Spec /\ WF_vars(Start) /\ WF_vars(BeginBeat)
  /\ WF_vars(Enrolling("beat")) /\ WF_vars(WriteToken("beat")) /\ WF_vars(Health("beat"))
  /\ SF_vars(Heard("beat"))
  /\ \A c \in Jobs \cup {"poll"} : WF_vars(WriteMark(c))
  /\ WF_vars(WriteEnrolled("poll")) /\ WF_vars(WriteSetup) /\ WF_vars(WriteEdit)

----------------------------------------------------------------------------
(* A node that holds its token can be started again: its state file names it, *)
(* or is being written.  Only a rewrite that was met half way loses the       *)
(* identity: a crash in it, a second one over it, or a verdict that read the  *)
(* emptied file and wrote back nothing but itself.  The file is always in one *)
(* of the states its readers expect (TypeOK).                                 *)
CanRestart ==
  /\ TypeOK
  /\ token /\ ~crossed =>
       \/ file.kind = "whole" /\ file.state.node
       \/ \E c \in Chains : Writing(c)

(* A verdict that has been written stands until a setup or an enrolment       *)
(* withdraws it, whatever else rewrites the file.                             *)
VerdictStands ==
  standing /\ ~crossed /\ file.kind = "whole" => file.state.degraded

(* A daemon that has called itself degraded, or was started so, sends at most *)
(* the one poll that had passed the check before.  Started with the verdict   *)
(* on disk it may send one for each command of the owner instead: while a     *)
(* command rewrites the file, the check reads no verdict in it.               *)
PollsStop == late <= 1 \/ late <= edits

(* The gateway hears of the verdict, and no heartbeat that was under way      *)
(* before it has the last word.                                               *)
VerdictIsReported ==
  <>[](up /\ standing /\ ~crossed) => <>[]gateway

=============================================================================
