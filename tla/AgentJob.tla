------------------------------ MODULE AgentJob ------------------------------
(***************************************************************************)
(* How the agent runs a job: its phases in order, each a command that the  *)
(* agent starts and watches, then the cleanup and the outcome.  Meanwhile  *)
(* the user may cancel the job.  A cancellation is a value of the same     *)
(* field of the job document, job_state, in which the agent announces its  *)
(* phases, and the agent polls it: before each phase, and every 10 seconds *)
(* while a command runs.                                                   *)
(*                                                                         *)
(* A phase without a command, or without data, is announced and skipped.   *)
(* Every HTTP call is one step.  What the agent says about itself is in    *)
(* AgentStatus, and how its outcome is delivered in ResultTransmission.    *)
(***************************************************************************)
EXTENDS Naturals, Sequences

CONSTANTS
    PhaseSeq,   \* the phases but the cleanup, in their order
    Commands,   \* the phases the agent is configured to run
    Data,       \* the phases the job has data for
    MaxCancels  \* bound: the number of cancellations

Phases == {PhaseSeq[n] : n \in 1..Len(PhaseSeq)}
Last   == Len(PhaseSeq) + 1

NeedData == {"provision", "firmware_update", "test", "allocate", "reserve"}

\* The points of the agent, each named for what it does next.
Points == {"prepare", "check", "announce", "begin", "run", "report",
           "info", "allocate", "wait", "next", "outcome", "over"}

JobOver == {"cancelled", "complete"}
JobStates == Phases \cup JobOver \cup {"running", "allocated"}

\* What the results file says of a phase, why a command is stopped, how it ended.
Codes == {"none", "success", "failure"}
Stops == {"none", "global_timeout", "output_timeout", "cancelled"}
Ends  == Stops \cup {"exit"}

ASSUME AgentJobAssumption ==
    /\ PhaseSeq \in Seq(STRING) /\ PhaseSeq # <<>>
    /\ \A m, n \in 1..Len(PhaseSeq) : PhaseSeq[m] = PhaseSeq[n] => m = n
    /\ Phases \cap (JobOver \cup {"running", "allocated", "cleanup"}) = {}
    /\ Commands \subseteq Phases \cup {"cleanup"} /\ Data \subseteq Phases
    /\ MaxCancels \in Nat

VARIABLES
    jobState,   \* the state in the job document on the server
    reported,   \* the status there: phase -> code
    deviceInfo, \* is the device info there?
    pc,         \* the point of the agent
    at,         \* number of the phase, Last for the cleanup
    proc,       \* the command: "none", "running", "killed", or its code
    stop,       \* why the command was stopped
    code,       \* results file: phase -> code
    ended,      \* emitted events: phase -> how its command ended
    cancels,    \* number of cancellations that were accepted
    missed,     \* did the agent miss the last one, since a call failed or it was
                \* about to write the state that the cancellation had changed?
    parentOver  \* is the parent job over?  It never is, for a job that has none.

server == <<jobState, reported, deviceInfo>>
runner == <<proc, stop>>
file   == <<code, ended>>
others == <<cancels, missed, parentOver>>
vars   == <<server, pc, at, runner, file, others>>

AllPhases == Phases \cup {"cleanup"}
Phase == IF at = Last THEN "cleanup" ELSE PhaseSeq[at]

TypeOK ==
    /\ jobState \in JobStates
    /\ reported \in [AllPhases -> Codes] /\ deviceInfo \in BOOLEAN
    /\ pc \in Points /\ at \in 1..Last
    /\ proc \in Codes \cup {"running", "killed"} /\ stop \in Stops
    /\ code \in [AllPhases -> Codes] /\ ended \in [AllPhases -> Ends]
    /\ cancels \in 0..MaxCancels /\ missed \in BOOLEAN /\ parentOver \in BOOLEAN

Init ==
    /\ jobState = "running" /\ deviceInfo = FALSE
    /\ reported = [p \in AllPhases |-> "none"]
    /\ pc = "prepare" /\ at = 1
    /\ proc = "none" /\ stop = "none"
    /\ code = [p \in AllPhases |-> "none"]
    /\ ended = [p \in AllPhases |-> "none"]
    /\ cancels = 0 /\ missed = FALSE /\ parentOver = FALSE

-----------------------------------------------------------------------------
(***************************************************************************)
(* Calls.                                                                  *)
(***************************************************************************)

\* check_job_state answers None if the call fails.
Read(seen) ==
    \/ seen = jobState /\ UNCHANGED missed
    \/ seen = "unknown" /\ missed' = TRUE

\* post_job_state, whose failure is swallowed; the server replaces any state.
PostJobState(state) ==
    /\ \/ jobState' = state /\ UNCHANGED missed
       \/ UNCHANGED jobState /\ missed' = TRUE
    /\ UNCHANGED <<reported, deviceInfo, cancels, parentOver>>

-----------------------------------------------------------------------------
(***************************************************************************)
(* The phases.                                                             *)
(***************************************************************************)

\* The run directory is made and the attachments are unpacked, or not.
Prepare ==
    /\ pc = "prepare"
    /\ \/ pc' = "check" /\ UNCHANGED at
       \/ pc' = "begin" /\ at' = Last
    /\ UNCHANGED <<server, runner, file, others>>

\* Mutant: the state is not read before a phase.
CheckNothing ==
    /\ pc = "check"
    /\ pc' = "announce"
    /\ UNCHANGED <<server, at, runner, file, others>>

\* First make sure the job hasn't been cancelled.
Check ==
    /\ pc = "check"
    /\ \E seen \in JobStates \cup {"unknown"} :
          /\ Read(seen)
          /\ IF seen = "cancelled"
             THEN pc' = "begin" /\ at' = Last
             ELSE pc' = "announce" /\ UNCHANGED at
    /\ UNCHANGED <<server, runner, file, cancels, parentOver>>

Announce ==
    /\ pc = "announce"
    /\ PostJobState(Phase)
    /\ pc' = "begin"
    /\ UNCHANGED <<at, runner, file>>

IsRun(phase) == phase \in Commands /\ (phase \in NeedData => phase \in Data)

\* run_test_phase posts the device info first, which each command of the device
\* connectors writes when it starts.
Begin ==
    /\ pc = "begin"
    /\ IF IsRun(Phase)
       THEN /\ pc' = "run" /\ proc' = "running" /\ stop' = "none"
            /\ \/ deviceInfo' = (deviceInfo \/ \E p \in AllPhases : ended[p] # "none")
               \/ UNCHANGED deviceInfo
       ELSE /\ pc' = "next"
            /\ UNCHANGED <<deviceInfo, runner>>
    /\ UNCHANGED <<jobState, reported, at, file, others>>

-----------------------------------------------------------------------------
(***************************************************************************)
(* CommandRunner.                                                          *)
(***************************************************************************)

\* The command ends; what exit code 46 means to the agent is in AgentStatus.
CommandEnds ==
    /\ pc = "run" /\ proc = "running"
    /\ proc' \in {"success", "failure"}
    /\ UNCHANGED <<server, pc, at, stop, file, others>>

Kill(event) ==
    /\ stop' = event
    /\ proc' = IF proc = "running" THEN "killed" ELSE proc
    /\ pc' = "report"
    /\ UNCHANGED <<server, at, file, others>>

\* The reserve phase has a timeout of its own.
GlobalTimeout ==
    /\ pc = "run" /\ Phase # "reserve"
    /\ Kill("global_timeout")

\* Only checked in the test phase.
OutputTimeout ==
    /\ pc = "run" /\ Phase = "test"
    /\ Kill("output_timeout")

\* Mutant: a reservation, which has its own timeout, is not cancelled either.
SeeCancelledBeforeReserve ==
    /\ pc = "run" /\ Phase \notin {"provision", "reserve"} /\ jobState = "cancelled"
    /\ Kill("cancelled")

\* Do not allow cancellation during provision for safety reasons.
SeeCancelled ==
    /\ pc = "run" /\ Phase # "provision" /\ jobState = "cancelled"
    /\ Kill("cancelled")

SeeEnd ==
    /\ pc = "run" /\ proc # "running"
    /\ pc' = "report"
    /\ UNCHANGED <<server, at, runner, file, others>>

-----------------------------------------------------------------------------
(***************************************************************************)
(* After a command.                                                        *)
(***************************************************************************)
ExitCode   == IF proc = "killed" THEN "failure" ELSE proc
HowItEnded == IF stop = "none" THEN "exit" ELSE stop

\* Mutant: the results file is begun anew.
ReportOnly ==
    /\ pc = "report"
    /\ code' = [p \in AllPhases |-> IF p = Phase THEN ExitCode ELSE "none"]
    /\ ended' = [ended EXCEPT ![Phase] = HowItEnded]
    /\ \/ reported' = code'
       \/ UNCHANGED reported
    /\ pc' = IF Phase = "allocate" THEN "info" ELSE "next"
    /\ UNCHANGED <<jobState, deviceInfo, at, runner, others>>

\* _update_phase_results: the statuses accumulate in the results file.
Report ==
    /\ pc = "report"
    /\ code' = [code EXCEPT ![Phase] = ExitCode]
    /\ ended' = [ended EXCEPT ![Phase] = HowItEnded]
    /\ \/ reported' = code'
       \/ UNCHANGED reported
    /\ pc' = IF Phase = "allocate" THEN "info" ELSE "next"
    /\ UNCHANGED <<jobState, deviceInfo, at, runner, others>>

\* allocate_phase, whatever the allocation came to: the device info is posted
\* until the server takes it.
PostDeviceInfo ==
    /\ pc = "info"
    /\ \/ deviceInfo' = TRUE /\ pc' = "allocate"
       \/ UNCHANGED <<deviceInfo, pc>>
    /\ UNCHANGED <<jobState, reported, at, runner, file, others>>

PostAllocated ==
    /\ pc = "allocate"
    /\ PostJobState("allocated")
    /\ pc' = "wait"
    /\ UNCHANGED <<at, runner, file>>

\* wait_for_completion
StopWaiting ==
    /\ pc = "wait"
    /\ jobState \in JobOver \/ parentOver
    /\ pc' = "next"
    /\ UNCHANGED <<server, at, runner, file, others>>

\* It polls both jobs, for as long as it takes.
KeepWaiting == pc = "wait" /\ UNCHANGED vars

\* A phase that failed ends the job, unless it is the test phase.
NextPhase ==
    /\ pc = "next"
    /\ IF at = Last
       THEN pc' = "outcome" /\ UNCHANGED at
       ELSE IF code[Phase] \notin {"none", "success"} /\ Phase # "test"
            THEN pc' = "begin" /\ at' = Last
            ELSE at' = at + 1 /\ pc' = IF at' = Last THEN "begin" ELSE "check"
    /\ UNCHANGED <<server, runner, file, others>>

\* transmit_job_outcome, now or in a later try of retry_old_results
PostOutcome ==
    /\ pc = "outcome"
    /\ jobState' = "complete" /\ reported' = code
    /\ pc' = "over"
    /\ UNCHANGED <<deviceInfo, at, runner, file, others>>

-----------------------------------------------------------------------------
\* The agent reads the state before it writes it or starts a command: allocate
\* is followed by a post in any case.
Listening ==
    /\ pc \in {"prepare", "check", "run", "report", "wait", "next"}
    /\ pc \in {"run", "report"} => Phase # "allocate"

\* The user cancels the job; the server refuses when it is over.
Cancel ==
    /\ cancels < MaxCancels
    /\ jobState \notin JobOver
    /\ jobState' = "cancelled"
    /\ cancels' = cancels + 1
    /\ missed' = ~Listening
    /\ UNCHANGED <<reported, deviceInfo, pc, at, runner, file, parentOver>>

\* The parent job is completed or cancelled.
ParentEnds ==
    /\ ~parentOver
    /\ parentOver' = TRUE
    /\ UNCHANGED <<server, pc, at, runner, file, cancels, missed>>

AgentStep ==
    \/ Prepare \/ Check \/ Announce \/ Begin \/ SeeCancelled \/ SeeEnd
    \/ Report \/ PostDeviceInfo \/ PostAllocated \/ StopWaiting \/ NextPhase \/ PostOutcome

\* The agent is done with this job.
Done == pc = "over" /\ UNCHANGED vars

Next ==
    \/ AgentStep \/ CommandEnds \/ GlobalTimeout \/ OutputTimeout
    \/ KeepWaiting \/ Cancel \/ ParentEnds \/ Done

Spec == Init /\ [][Next]_vars

\* The agent goes on, and the clock: nothing is assumed of commands, which may
\* hang, and of the parent job.
FairSpec == Spec /\ WF_vars(AgentStep) /\ WF_vars(GlobalTimeout)

-----------------------------------------------------------------------------
(***************************************************************************)
(* Properties.                                                             *)
(***************************************************************************)

\* A job that was cancelled starts no command any more, the cleanup excepted,
\* unless the agent missed it.
NothingStartsAfterCancel ==
    [][Begin /\ proc' = "running" /\ Phase # "cleanup" => cancels = 0 \/ missed]_vars

\* A cancellation never ended the provisioning: "This prevents accidentally
\* leaving a system in a bad, partially provisioned state" (cancel-job.rst).
ProvisionIsFinished == ended["provision"] # "cancelled"

\* A phase is only run if all before it succeeded, apart from the test phase.
FailureEndsJob ==
    \A n \in 1..Len(PhaseSeq) : \A m \in 1..(n - 1) :
        code[PhaseSeq[n]] # "none" /\ PhaseSeq[m] # "test"
            => code[PhaseSeq[m]] \in {"none", "success"}

\* A job that shows as allocated has its device info on the server, where the
\* parent job reads it (allocate_phase, Multi.save_job_list_file).
InfoBeforeAllocated == jobState = "allocated" => deviceInfo

\* When the job is complete the server has the code of every phase that was run,
\* also when posts have failed in between.
OutcomeIsComplete ==
    jobState = "complete" => \A p \in AllPhases : ended[p] # "none" => reported[p] # "none"

\* What the state of the job promises has been posted before it, by other calls
\* that may fail: the device info and the results.
StateSaysTrue == InfoBeforeAllocated /\ OutcomeIsComplete

\* Once a job is cancelled the agent finishes with it, whatever its commands do,
\* unless it missed the cancellation:
\* "You can cancel a Testflinger job at any point" (cancel-job.rst).
CancelStopsJob == cancels > 0 ~> pc = "over" \/ missed

\* "Always run the cleanup, even if the job was cancelled" (process_jobs).
CleanupIsFinished == ended["cleanup"] # "cancelled"
=============================================================================
