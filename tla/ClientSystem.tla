---------------------------- MODULE ClientSystem ----------------------------
(***************************************************************************)
(* Three parts of what the command line client does: "logs", where it polls*)
(* the output of a job; "submissions", where runs of it submit, poll,      *)
(* cancel and list jobs next to one another; and "status-line", where its  *)
(* two threads share the terminal.  A part has in itself what it needs to  *)
(* know of the job, so a behaviour is one of one part.                     *)
(***************************************************************************)
EXTENDS LiveLogs, Submissions, StatusLine

VARIABLE part
system == <<part, vars, submissions, statusLine>>

Parts == {"logs", "submissions", "status-line"}

SystemInit ==
    /\ part \in Parts
    /\ Init /\ SubmissionsInit /\ StatusLineInit
    /\ part # "logs" => asked = "all"
    /\ part # "status-line" => seen = "unknown"

\* A step of the logs
InLogs(A) == part = "logs" /\ A /\ UNCHANGED <<part, submissions, statusLine>>

LogsStep        == InLogs(Next)
SubmissionsPart == part = "submissions" /\ SubmissionsStep /\ UNCHANGED <<part, vars, statusLine>>
StatusLinePart  == part = "status-line" /\ StatusLineStep /\ UNCHANGED <<part, vars, submissions>>

\* All runs, or the poll and its timer, have ended.
Ended ==
    /\ \/ part = "submissions" /\ \A r \in Runs : At(r, "over")
       \/ part = "status-line" /\ point = "over"
    /\ UNCHANGED system

SystemNext == LogsStep \/ SubmissionsPart \/ StatusLinePart \/ Ended

\* The phases end (AgentJob), and the poll of the logs goes on.  A request ends,
\* and one that is repeated is answered in the end, also after the job was seen
\* to be over.
SystemFairness ==
    /\ WF_system(InLogs(Finish)) /\ WF_system(InLogs(Query)) /\ WF_system(InLogs(PrintLogs))
    /\ WF_system(InLogs(Continue)) /\ WF_system(InLogs(Respond \/ Retry))
    /\ SF_system(InLogs(ReadState)) /\ SF_system(InLogs(Respond /\ final # "no"))

SystemSpec == SystemInit /\ [][SystemNext]_system /\ SystemFairness

-----------------------------------------------------------------------------
\* A poll of the logs ends: "Continue until the job completes"
\* (retrieve-logs.rst).
PollEnds == part = "logs" => <>(pc = "over")
=============================================================================
