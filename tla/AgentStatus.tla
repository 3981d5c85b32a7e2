---------------------------- MODULE AgentStatus ----------------------------
(***************************************************************************)
(* How an agent goes offline, comes back and restarts.  The state field of *)
(* the agent record on the server is written by the agent, which announces *)
(* the phase it runs, and by administrators, who ask for the agent to be   *)
(* taken offline or put online.  Nothing arbitrates: the last write wins,  *)
(* and the agent only notices what it happens to read between its own      *)
(* writes.  What it has read it remembers in its AgentStatusHandler until  *)
(* it is between two jobs.  A restart is asked for with a signal.          *)
(*                                                                         *)
(* Every HTTP call of the agent is one step, and what the agent computes   *)
(* from a response belongs to the step.                                    *)
(***************************************************************************)
EXTENDS Naturals, Sequences

CONSTANTS
    PhaseSeq,   \* the phases of a job, as the agent state that is posted
    Goals       \* what administrators ask for: "online", "offline", "maintenance"

Phases == {PhaseSeq[n] : n \in 1..Len(PhaseSeq)}
Off    == {"offline", "maintenance"}
States == Phases \cup Off \cup {"waiting", "restart"}

\* The points of the agent, each named for the call that is next.
Points == {"boot", "boot_set", "loop", "sleep", "pj_offline", "pj_restart",
           "ask", "ph_offline", "ph_restart", "ph_post", "run", "recovery_set",
           "after", "after_set", "offline_set", "restart_set"}

\* Here the agent reads the record before it writes it again.
Listening == {"loop", "sleep", "pj_offline", "ph_offline", "run", "after"}

ASSUME AgentStatusAssumption ==
    /\ PhaseSeq \in Seq(STRING) /\ PhaseSeq # <<>>
    /\ Phases \cap (Off \cup {"waiting", "restart", "unknown"}) = {}
    /\ Goals \subseteq {"online", "offline", "maintenance"}

VARIABLES
    srv,          \* the state in the agent record on the server
    pc,           \* the point of the agent
    phase,        \* number of the phase, when it is at a job
    needsOffline, \* the flags of AgentStatusHandler
    needsRestart,
    beat,         \* the state that a pending heartbeat posts, or "none"
    admin,        \* the goal of the command at work, or "none"
    wanted,       \* the goal of the last command that was executed
    broken,       \* a failed recovery was reported and nobody put the agent online
    mishap        \* what came between the last command and the agent last, if anything

agentVars == <<pc, phase, needsOffline, needsRestart, beat>>
vars == <<srv, agentVars, admin, wanted, broken, mishap>>

\* A call of the agent failed, the agent was killed, or the command itself was
\* executed when the agent had read the record and was about to write it.
Mishaps == {"none", "failed", "killed", "crossed"}

TypeOK ==
    /\ srv \in States
    /\ pc \in Points
    /\ phase \in 1..Len(PhaseSeq)
    /\ needsOffline \in BOOLEAN /\ needsRestart \in BOOLEAN
    /\ beat \in States \cup {"none"}
    /\ admin \in Goals \cup {"none"}
    /\ wanted \in {"online", "offline", "maintenance"}
    /\ broken \in BOOLEAN
    /\ mishap \in Mishaps

Init ==
    /\ srv = "waiting"
    /\ pc = "boot" /\ phase = 1
    /\ needsOffline = FALSE /\ needsRestart = FALSE /\ beat = "none"
    /\ admin = "none" /\ wanted = "online" /\ broken = FALSE /\ mishap = "none"

-----------------------------------------------------------------------------
(***************************************************************************)
(* Calls.  A read that fails leaves the agent with the state "unknown"; a  *)
(* post that fails is not noticed.  A read may make a heartbeat necessary, *)
(* which posts the state that was read.                                    *)
(***************************************************************************)
At(p) == pc = p /\ beat = "none"

Read(seen) ==
    /\ \/ seen = srv /\ beat' \in {"none", seen} /\ UNCHANGED mishap
       \/ seen = "unknown" /\ beat' = "none" /\ mishap' = "failed"
    /\ UNCHANGED <<srv, admin, wanted, broken>>

Write(state) ==
    /\ \/ srv' = state /\ UNCHANGED mishap
       \/ UNCHANGED srv /\ mishap' = "failed"
    /\ UNCHANGED <<admin, wanted>>

Post(state) == Write(state) /\ UNCHANGED beat

Beat ==
    /\ beat # "none"
    /\ Write(beat)
    /\ beat' = "none"
    /\ UNCHANGED <<pc, phase, needsOffline, needsRestart, broken>>

(***************************************************************************)
(* The agent between two jobs.                                             *)
(***************************************************************************)

\* check_offline
MustBeOff(seen) == seen \in Off \/ needsOffline

\* check_restart
MustRestart(seen) == seen = "restart" \/ (needsRestart /\ seen # "offline")

\* _set_startup_state
Boot ==
    /\ At("boot")
    /\ \E seen \in States \cup {"unknown"} :
          /\ Read(seen)
          /\ pc' = IF seen = "offline" THEN "loop" ELSE "boot_set"
    /\ UNCHANGED <<phase, needsOffline, needsRestart>>

BootSet ==
    /\ At("boot_set")
    /\ Post("waiting")
    /\ pc' = "loop"
    /\ UNCHANGED <<phase, needsOffline, needsRestart, broken>>

\* The main loop: no job is asked for as long as check_offline says so.
CheckInLoop ==
    /\ At("loop") \/ At("sleep")
    /\ \E seen \in States \cup {"unknown"} :
          /\ Read(seen)
          /\ pc' = IF MustBeOff(seen) THEN "sleep" ELSE "pj_offline"
    /\ UNCHANGED <<phase, needsOffline, needsRestart>>

\* process_jobs checks both flags again before it asks for a job.  What it reads
\* is in local variables until both have been read; nothing looks at the flags
\* in between.
CheckOffline ==
    /\ At("pj_offline")
    /\ \E seen \in States \cup {"unknown"} :
          /\ Read(seen)
          /\ needsOffline' = MustBeOff(seen)
    /\ pc' = "pj_restart"
    /\ UNCHANGED <<phase, needsRestart>>

CheckRestart ==
    /\ At("pj_restart")
    /\ \E seen \in States \cup {"unknown"} :
          /\ Read(seen)
          /\ needsRestart' = (needsRestart \/ (~needsOffline /\ MustRestart(seen)))
    /\ pc' = IF needsOffline THEN "offline_set"
             ELSE IF needsRestart' THEN "restart_set" ELSE "ask"
    /\ UNCHANGED <<phase, needsOffline>>

\* GET /job
NoJob ==
    /\ At("ask")
    /\ pc' = "loop"
    /\ UNCHANGED <<srv, phase, needsOffline, needsRestart, beat, admin, wanted, broken, mishap>>

TakeJob ==
    /\ At("ask")
    /\ pc' = "ph_offline" /\ phase' = 1
    /\ UNCHANGED <<srv, needsOffline, needsRestart, beat, admin, wanted, broken, mishap>>

(***************************************************************************)
(* The agent at a job.                                                     *)
(***************************************************************************)

\* The job is cancelled, or raised an exception, before its next phase.
LeaveJob ==
    /\ At("ph_offline")
    /\ pc' = "after"
    /\ UNCHANGED <<srv, phase, needsOffline, needsRestart, beat, admin, wanted, broken, mishap>>

\* Each flag is only looked up as long as it is not set.
LookForOffline ==
    /\ At("ph_offline")
    /\ IF needsOffline
       THEN UNCHANGED <<srv, needsOffline, beat, admin, wanted, broken, mishap>>
       ELSE \E seen \in States \cup {"unknown"} :
               Read(seen) /\ needsOffline' = MustBeOff(seen)
    /\ pc' = "ph_restart"
    /\ UNCHANGED <<phase, needsRestart>>

LookForRestart ==
    /\ At("ph_restart")
    /\ IF needsRestart
       THEN UNCHANGED <<srv, needsRestart, beat, admin, wanted, broken, mishap>>
       ELSE \E seen \in States \cup {"unknown"} :
               Read(seen) /\ needsRestart' = MustRestart(seen)
    /\ pc' = "ph_post"
    /\ UNCHANGED <<phase, needsOffline>>

AnnouncePhase ==
    /\ At("ph_post")
    /\ Post(PhaseSeq[phase])
    /\ pc' = "run"
    /\ UNCHANGED <<phase, needsOffline, needsRestart, broken>>

\* A phase ends well, or the test phase ends somehow, or the job is aborted.
EndPhase ==
    /\ At("run")
    /\ \/ phase < Len(PhaseSeq) /\ phase' = phase + 1 /\ pc' = "ph_offline"
       \/ pc' = "after" /\ UNCHANGED phase
    /\ UNCHANGED <<srv, needsOffline, needsRestart, beat, admin, wanted, broken, mishap>>

\* Exit code 46: the device could not be recovered.
RecoveryFails ==
    /\ At("run")
    /\ pc' = "recovery_set"
    /\ UNCHANGED <<srv, phase, needsOffline, needsRestart, beat, admin, wanted, broken, mishap>>

\* offline_agent; the job is aborted, unless it was the test phase.
OfflineAfterRecovery ==
    /\ At("recovery_set")
    /\ Post("offline")
    /\ needsOffline' = FALSE
    /\ broken' = TRUE
    /\ \/ /\ PhaseSeq[phase] = "test" /\ phase < Len(PhaseSeq)
          /\ phase' = phase + 1 /\ pc' = "ph_offline"
       \/ /\ PhaseSeq[phase] # "test" \/ phase = Len(PhaseSeq)
          /\ pc' = "after" /\ UNCHANGED phase
    /\ UNCHANGED needsRestart

\* Mutant: only the record is looked at, not what the agent remembers.
CheckRecordAfterJob ==
    /\ At("after")
    /\ \E seen \in States \cup {"unknown"} :
          /\ Read(seen)
          /\ pc' = IF seen \in Off THEN "offline_set"
                   ELSE IF needsRestart THEN "restart_set" ELSE "after_set"
    /\ UNCHANGED <<phase, needsOffline, needsRestart>>

CheckAfterJob ==
    /\ At("after")
    /\ \E seen \in States \cup {"unknown"} :
          /\ Read(seen)
          /\ pc' = IF MustBeOff(seen) THEN "offline_set"
                   ELSE IF needsRestart THEN "restart_set" ELSE "after_set"
    /\ UNCHANGED <<phase, needsOffline, needsRestart>>

WaitForNextJob ==
    /\ At("after_set")
    /\ Post("waiting")
    /\ pc' = "ask"
    /\ UNCHANGED <<phase, needsOffline, needsRestart, broken>>

\* offline_agent: the flag is cleared, the record keeps the agent offline.
GoOffline ==
    /\ At("offline_set")
    /\ Post("offline")
    /\ needsOffline' = FALSE
    /\ pc' = "loop"
    /\ UNCHANGED <<phase, needsRestart, broken>>

\* restart_agent: the process exits, and the supervisor starts a new one.
GoRestart ==
    /\ At("restart_set")
    /\ Post("restart")
    /\ pc' = "boot"
    /\ needsOffline' = FALSE /\ needsRestart' = FALSE
    /\ UNCHANGED <<phase, broken>>

-----------------------------------------------------------------------------
(***************************************************************************)
(* What happens to the agent: SIGUSR1, and crashes.                        *)
(***************************************************************************)

\* Mutant: the signal clears the other flag, the default of update().
RestartSignalOnly ==
    /\ needsRestart' = TRUE /\ needsOffline' = FALSE
    /\ UNCHANGED <<srv, pc, phase, beat, admin, wanted, broken, mishap>>

RestartSignal ==
    /\ needsRestart' = TRUE
    /\ UNCHANGED <<srv, pc, phase, needsOffline, beat, admin, wanted, broken, mishap>>

Crash ==
    /\ pc' = "boot" /\ beat' = "none"
    /\ needsOffline' = FALSE /\ needsRestart' = FALSE
    /\ mishap' = "killed"
    /\ UNCHANGED <<srv, phase, admin, wanted, broken>>

(***************************************************************************)
(* testflinger-cli admin set agent-status: it reads the state, refuses to  *)
(* put an agent online that is in one of the phases it knows, and writes.  *)
(***************************************************************************)
test_status == {"setup", "provision", "test", "allocate", "reserve"}
StatusFor(goal) == IF goal = "online" THEN "waiting" ELSE goal

CommandReads(goal) ==
    /\ admin = "none"
    /\ ~(srv \in test_status /\ goal = "online")
    /\ admin' = goal
    /\ UNCHANGED <<srv, agentVars, wanted, broken, mishap>>

CommandWrites ==
    /\ admin # "none"
    /\ srv' = StatusFor(admin)
    /\ wanted' = admin
    /\ broken' = (broken /\ admin # "online")
    /\ mishap' = IF pc \in Listening /\ beat = "none" THEN "none" ELSE "crossed"
    /\ admin' = "none"
    /\ UNCHANGED agentVars

\* It fails, or its user gives up.
CommandFails ==
    /\ admin # "none"
    /\ admin' = "none"
    /\ UNCHANGED <<srv, agentVars, wanted, broken, mishap>>

-----------------------------------------------------------------------------
Step ==
    \/ Beat \/ Boot \/ BootSet \/ CheckInLoop \/ CheckOffline \/ CheckRestart
    \/ NoJob \/ TakeJob \/ LeaveJob \/ LookForOffline \/ LookForRestart
    \/ AnnouncePhase \/ EndPhase \/ RecoveryFails \/ OfflineAfterRecovery
    \/ CheckAfterJob \/ WaitForNextJob \/ GoOffline \/ GoRestart

Next ==
    \/ Step
    \/ RestartSignal \/ Crash
    \/ \E goal \in Goals : CommandReads(goal)
    \/ CommandWrites \/ CommandFails

Spec == Init /\ [][Next]_vars

\* The agent is a loop that never stops, and its phases are bounded by timeouts.
FairSpec == Spec /\ WF_vars(Step)

-----------------------------------------------------------------------------
(***************************************************************************)
(* Properties.                                                             *)
(***************************************************************************)

\* The command of an administrator to take the agent offline is not forgotten:
\* the record says so, or the agent remembers it until the job is over, unless
\* a mishap came between.
OfflineIsKept ==
    wanted \in Off /\ mishap = "none" => srv \in Off \/ needsOffline

\* No job is taken once the agent shall be offline: it "will effectively stop
\* processing jobs immediately if not processing any job" (manage-agents.rst).
NoJobWhenOff == [][TakeJob /\ mishap = "none" => wanted \notin Off]_vars

\* The agent does not restart while it shall be offline: a restart is deferred
\* "until the agent is marked online" (manage-agents.rst, check_restart).
RestartIsDeferred == [][GoRestart /\ mishap = "none" => wanted \notin Off]_vars

\* A device that could not be recovered gets no job until an administrator puts
\* its agent online again (process_jobs, exit code 46).
NoJobWhenBroken == [][TakeJob /\ mishap = "none" => ~broken]_vars

\* An agent that was offline when it was started is still offline afterwards,
\* also when it was killed: "preserve that state rather than overriding it"
\* (_set_startup_state).
StartupKeepsOffline ==
    [][BootSet /\ mishap \in {"none", "killed"} => srv # "offline"]_vars

\* An agent that shall be offline gets there, whatever job it was at.
OffIsReached ==
    wanted \in Off ~>
        \/ wanted = "online" \/ mishap # "none"
        \/ srv \in Off /\ pc \in {"loop", "sleep"}

=============================================================================
