------------------------ MODULE ResultTransmission -------------------------
(***************************************************************************)
(* How the outcome and the artifacts of a job get from the agent to the    *)
(* server.  A job is executed in a directory of its own under              *)
(* execution_basedir.  When it is over the agent uploads the artifacts,    *)
(* posts the outcome and removes the directory; when the server fails it   *)
(* moves the directory to results_basedir, whose directories are tried     *)
(* again before the agent asks for jobs anew.                              *)
(*                                                                         *)
(* A job here is a slot that other jobs take over when it is done with.    *)
(***************************************************************************)
EXTENDS FiniteSets

CONSTANTS
    Jobs,
    None

Files  == {"job", "outcome", "artifacts"}
Places == {"none", "exec", "results"}

\* The points of the agent.
Spots == {"start", "retry", "ask", "work", "read", "artifacts", "discard", "outcome",
           "unlink", "remove"}

ASSUME TransmissionAssumption == None \notin Jobs

VARIABLES
    spot,      \* the point of the agent
    cur,       \* the job it is at
    todo,      \* the old directories that it has yet to try
    place,     \* where the directory of each job is
    files,     \* what is in it
    state,     \* "new", "running" or "finished"
    made,      \* the jobs that made artifacts
    delivered, \* the jobs whose outcome the server has
    uploaded,  \* the jobs whose artifacts the server has
    cut,       \* the jobs whose artifacts met an OSError: a full disk, a dead connection
    orphans    \* the jobs the agent was at when it was killed, in execution_basedir

agent == <<spot, cur, todo>>
disk  == <<place, files>>
work  == <<state, made>>
there == <<delivered, uploaded, cut, orphans>>
transmission == <<agent, disk, work, there>>

TransmissionTypeOK ==
    /\ spot \in Spots
    /\ cur \in Jobs \cup {None} /\ todo \subseteq Jobs
    /\ place \in [Jobs -> Places] /\ files \in [Jobs -> SUBSET Files]
    /\ \A j \in Jobs : place[j] = "none" => files[j] = {}
    /\ state \in [Jobs -> {"new", "running", "finished"}]
    /\ made \subseteq Jobs /\ delivered \subseteq Jobs /\ uploaded \subseteq Jobs
    /\ cut \subseteq Jobs /\ orphans \subseteq Jobs

TransmissionInit ==
    /\ spot = "start" /\ cur = None /\ todo = {}
    /\ place = [j \in Jobs |-> "none"] /\ files = [j \in Jobs |-> {}]
    /\ state = [j \in Jobs |-> "new"]
    /\ made = {} /\ delivered = {} /\ uploaded = {} /\ cut = {} /\ orphans = {}

-----------------------------------------------------------------------------
(***************************************************************************)
(* process_jobs.                                                           *)
(***************************************************************************)

\* retry_old_results lists the directories once.
StartPass ==
    /\ spot = "start"
    /\ spot' = "retry"
    /\ todo' = {j \in Jobs : place[j] = "results"}
    /\ UNCHANGED <<cur, disk, work, there>>

RetryNext ==
    /\ spot = "retry"
    /\ \/ \E j \in todo : cur' = j /\ spot' = "read"
       \/ todo = {} /\ spot' = "ask" /\ UNCHANGED cur
    /\ UNCHANGED <<todo, disk, work, there>>

NothingToDo ==
    /\ spot = "ask"
    /\ spot' = "start"
    /\ UNCHANGED <<cur, todo, disk, work, there>>

ReceiveJob ==
    /\ spot = "ask"
    /\ \E j \in Jobs :
          /\ state[j] = "new"
          /\ state' = [state EXCEPT ![j] = "running"]
          /\ place' = [place EXCEPT ![j] = "exec"]
          /\ files' = [files EXCEPT ![j] = {"job", "outcome"}]
          /\ cur' = j
    /\ spot' = "work"
    /\ UNCHANGED <<todo, made, there>>

\* The phases are over, and they have left artifacts or not.
FinishJob ==
    /\ spot = "work"
    /\ state' = [state EXCEPT ![cur] = "finished"]
    /\ \/ made' = made \cup {cur} /\ files' = [files EXCEPT ![cur] = @ \cup {"artifacts"}]
       \/ UNCHANGED <<made, files>>
    /\ spot' = "read"
    /\ UNCHANGED <<cur, todo, place, there>>

-----------------------------------------------------------------------------
(***************************************************************************)
(* transmit_job_outcome of the job cur, for the first time or in a retry.  *)
(***************************************************************************)
Retrying == cur \in todo

\* It returns, and the agent goes on with the next directory or job.
Return ==
    /\ spot' = IF Retrying THEN "retry" ELSE "ask"
    /\ todo' = todo \ {cur}
    /\ cur' = None

\* Mutant: the directory stays where it is.
Abandon == Return /\ UNCHANGED <<disk, work, there>>

\* TFServerError: in a retry the directory stays, otherwise it is moved.
ServerError ==
    /\ Return
    /\ place' = [place EXCEPT ![cur] = "results"]
    /\ UNCHANGED <<files, work, there>>

\* A directory without testflinger.json is left alone.
ReadJob ==
    /\ spot = "read"
    /\ IF "job" \in files[cur]
       THEN spot' = "artifacts" /\ UNCHANGED <<cur, todo>>
       ELSE Return
    /\ UNCHANGED <<disk, work, there>>

Goto(point) == spot' = point /\ UNCHANGED <<cur, todo>>

\* save_artifacts
NoArtifacts ==
    /\ spot = "artifacts" /\ "artifacts" \notin files[cur]
    /\ Goto("outcome")
    /\ UNCHANGED <<disk, work, there>>

UploadArtifacts ==
    /\ spot = "artifacts" /\ "artifacts" \in files[cur]
    /\ uploaded' = uploaded \cup {cur}
    /\ Goto("discard")
    /\ UNCHANGED <<disk, work, delivered, cut, orphans>>

\* An error of the removal is caught with those of a full disk.
DiscardArtifacts ==
    /\ spot = "discard"
    /\ \/ files' = [files EXCEPT ![cur] = @ \ {"artifacts"}]
       \/ UNCHANGED files
    /\ Goto("outcome")
    /\ UNCHANGED <<place, work, there>>

\* Mutant: the error is only logged.
IgnoreRefusal ==
    /\ spot = "artifacts" /\ "artifacts" \in files[cur]
    /\ Goto("outcome")
    /\ UNCHANGED <<disk, work, there>>

UploadRefused ==
    /\ spot = "artifacts" /\ "artifacts" \in files[cur]
    /\ ServerError

\* The exceptions of requests are OSErrors, which transmit_job_outcome catches
\* for full disks, too; the upload may have been done, but the response is lost.
UploadInterrupted ==
    /\ spot = "artifacts" /\ "artifacts" \in files[cur]
    /\ uploaded' \in {uploaded, uploaded \cup {cur}}
    /\ cut' = cut \cup {cur}
    /\ Goto("outcome")
    /\ UNCHANGED <<disk, work, delivered, orphans>>

\* tempfile or make_archive raises an OSError for a full disk: nothing was sent.
PackingFails ==
    /\ spot = "artifacts" /\ "artifacts" \in files[cur]
    /\ cut' = cut \cup {cur}
    /\ Goto("outcome")
    /\ UNCHANGED <<disk, work, delivered, uploaded, orphans>>

\* The outcome, unless it was posted in an earlier try.
NoOutcome ==
    /\ spot = "outcome" /\ "outcome" \notin files[cur]
    /\ Goto("remove")
    /\ UNCHANGED <<disk, work, there>>

PostOutcome ==
    /\ spot = "outcome" /\ "outcome" \in files[cur]
    /\ delivered' = delivered \cup {cur}
    /\ Goto("unlink")
    /\ UNCHANGED <<disk, work, uploaded, cut, orphans>>

\* Mutant: the file is removed in any case.
PostFailsAnyway ==
    /\ spot = "outcome" /\ "outcome" \in files[cur]
    /\ Goto("unlink")
    /\ UNCHANGED <<disk, work, there>>

\* The server refuses it, or its response is lost.
PostFails ==
    /\ spot = "outcome" /\ "outcome" \in files[cur]
    /\ ServerError

PostUnanswered ==
    /\ spot = "outcome" /\ "outcome" \in files[cur]
    /\ delivered' = delivered \cup {cur}
    /\ Return
    /\ place' = [place EXCEPT ![cur] = "results"]
    /\ UNCHANGED <<files, work, uploaded, cut, orphans>>

Unlink ==
    /\ spot = "unlink"
    /\ files' = [files EXCEPT ![cur] = @ \ {"outcome"}]
    /\ Goto("remove")
    /\ UNCHANGED <<place, work, there>>

RemoveDirectory ==
    /\ spot = "remove"
    /\ place' = [place EXCEPT ![cur] = "none"]
    /\ files' = [files EXCEPT ![cur] = {}]
    /\ Return
    /\ UNCHANGED <<work, there>>

\* An OSError, which leaves some of the files: process_jobs moves the directory,
\* but in a retry nothing catches it, and the agent is started again.
RemoveFails ==
    /\ spot = "remove"
    /\ place' = [place EXCEPT ![cur] = "results"]
    /\ \E left \in SUBSET files[cur] : files' = [files EXCEPT ![cur] = left]
    /\ IF Retrying
       THEN spot' = "start" /\ cur' = None /\ todo' = {}
       ELSE Return
    /\ UNCHANGED <<work, there>>

-----------------------------------------------------------------------------
\* The agent is killed, and started again; a removal may have been at work.
KillAgent ==
    /\ spot' = "start" /\ cur' = None /\ todo' = {}
    /\ IF spot = "remove"
       THEN \E left \in SUBSET files[cur] : files' = [files EXCEPT ![cur] = left]
       ELSE UNCHANGED files
    /\ orphans' = orphans \cup {j \in Jobs : place[j] = "exec"}
    /\ UNCHANGED <<place, work, delivered, uploaded, cut>>

\* A new job takes the place of one that is done with.
Recycle ==
    /\ \E j \in Jobs :
          /\ state[j] = "finished" /\ place[j] = "none" /\ cur # j
          /\ state' = [state EXCEPT ![j] = "new"]
          /\ made' = made \ {j}
          /\ delivered' = delivered \ {j} /\ uploaded' = uploaded \ {j} /\ cut' = cut \ {j}
    /\ UNCHANGED <<agent, disk, orphans>>

AgentStep ==
    \/ StartPass \/ RetryNext \/ NothingToDo \/ ReceiveJob \/ FinishJob
    \/ ReadJob \/ NoArtifacts \/ UploadArtifacts \/ UploadRefused \/ UploadInterrupted
    \/ PackingFails \/ DiscardArtifacts
    \/ NoOutcome \/ PostOutcome \/ PostFails \/ PostUnanswered
    \/ Unlink \/ RemoveDirectory \/ RemoveFails

TransmissionNext == AgentStep \/ KillAgent \/ Recycle

TransmissionSpec == TransmissionInit /\ [][TransmissionNext]_transmission

\* The agent goes on, and is not killed for ever; what was to be removed can be
\* removed in the end.  Nothing is assumed of the server.
FairTransmission ==
    /\ TransmissionSpec /\ WF_transmission(AgentStep)
    /\ <>[][~KillAgent]_transmission
    /\ \A j \in Jobs : SF_transmission(RemoveDirectory /\ cur = j)

\* A server that is asked again and again answers in the end, and has no job for
\* the agent again and again.
Served ==
    /\ SF_transmission(NothingToDo)
    /\ \A j \in Jobs : /\ SF_transmission(PostOutcome /\ cur = j)
                      /\ SF_transmission(UploadArtifacts /\ cur = j)

-----------------------------------------------------------------------------
(***************************************************************************)
(* Properties.                                                             *)
(***************************************************************************)

\* The outcome of a job is on the server, or on the disk with what is needed to
\* send it, whatever fails and whenever the agent is killed.
OutcomeIsKept ==
    \A j \in Jobs : state[j] = "finished" =>
        j \in delivered \/ {"job", "outcome"} \subseteq files[j]

\* And so are the artifacts, unless an OSError came up while they were packed or
\* sent, from a full disk or a dead connection: that is swallowed, and the
\* directory is removed with the artifacts in it.  A server that refuses them, a
\* kill and the errors of removals lose none: "the agent uploads the results and
\* any artifacts" (explanation/agents.rst).
ArtifactsAreKept ==
    \A j \in made : j \in uploaded \/ "artifacts" \in files[j] \/ j \in cut

\* The outcome gets to the server (transmit_job_outcome, retry_old_results),
\* unless the agent was killed while it was in execution_basedir.
OutcomeArrives ==
    Served => \A j \in Jobs :
        state[j] = "finished" ~> j \in delivered \cup orphans

=============================================================================
