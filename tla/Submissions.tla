---------------------------- MODULE Submissions ----------------------------
(***************************************************************************)
(* Runs of the command line client that submit jobs, with or without       *)
(* attachments, poll them, cancel them and list them, next to one another: *)
(* two terminals of a user share the file of the history of jobs, and an   *)
(* upload that the client has given up on is still executed by the server. *)
(*                                                                         *)
(* Of the server there is what these runs see of a job: its state, the     *)
(* status of its attachments, and whether the record of an agent shows it. *)
(* JobStore has its handlers step by step.  Each job is named for the run  *)
(* that submits it: the server makes a new job_id for each.                *)
(***************************************************************************)
EXTENDS Naturals, Sequences

CONSTANTS
    Runs,         \* runs of the client
    Does,         \* [Runs -> SUBSET Commands]: the commands each may be
    MaxTries,     \* attachments_tries
    HistorySize,  \* how many jobs the history has at most
    Kills         \* may runs be killed anywhere?

Commands == {"submit", "submit_attachments", "poll", "cancel", "jobs"}

ASSUME SubmissionsAssumption ==
    /\ Does \in [Runs -> SUBSET Commands]
    /\ MaxTries \in Nat /\ HistorySize \in Nat \ {0} /\ Kills \in BOOLEAN

VARIABLES
    job,      \* [Runs -> Job]: the jobs at the server
    archives, \* the jobs whose archive is in GridFS
    uploads,  \* [Runs -> [1..MaxTries -> Upload]]: handlers of the uploads
    file,     \* the history file: the entries, oldest first
    run       \* [Runs -> Run]: the runs of the client

submissions == <<job, archives, uploads, file, run>>

FinalStates    == {"complete", "cancelled"}
JobStates == {"waiting", "running"} \cup FinalStates
Recorded  == {"unknown"} \cup JobStates

\* shown: some agent record has the job; held: the agent is at work on it;
\* revoked, which is auxiliary: the server has accepted a cancellation of it.
Job    == [state : {"absent"} \cup JobStates, att : {"none", "waiting", "complete"},
           shown : BOOLEAN, held : BOOLEAN, revoked : BOOLEAN]
Upload == {"none", "save", "mark", "done", "failed"}
Entry  == [job : Runs, state : Recorded]
Run    == [at : {"start", "agents", "post", "upload", "answer", "give_up",
                 "record", "truncate", "write", "poll", "cancel", "list", "over"},
           does : {"nothing"} \cup Commands, of : Runs, mem : Seq(Entry),
           tries : 0..MaxTries, row : Nat, next : {"poll", "list", "over"},
           says : {"nothing", "submitted", "cancelled", "refused", "failed"}]

SubmissionsTypeOK ==
    /\ job \in [Runs -> Job]
    /\ archives \subseteq Runs
    /\ uploads \in [Runs -> [1..MaxTries -> Upload]]
    /\ file \in Seq(Entry)
    /\ run \in [Runs -> Run]

SubmissionsInit ==
    /\ job = [r \in Runs |-> [state |-> "absent", att |-> "none",
                              shown |-> FALSE, held |-> FALSE, revoked |-> FALSE]]
    /\ archives = {}
    /\ uploads = [r \in Runs |-> [n \in 1..MaxTries |-> "none"]]
    /\ file = <<>>
    /\ run = [r \in Runs |-> [at |-> "start", does |-> "nothing", of |-> r,
                              mem |-> <<>>, tries |-> 0, row |-> 0,
                              next |-> "over", says |-> "nothing"]]

At(r, point)   == run[r].at = point
\* With the process its copy of the history is gone.
Resume(r, new) ==
    run' = [run EXCEPT ![r] =
        IF new.at # "over" THEN new
        ELSE [new EXCEPT !.of = r, !.mem = <<>>, !.tries = 0, !.row = 0, !.next = "over"]]

Goto(r, point) == Resume(r, [run[r] EXCEPT !.at = point])
Exit(r, what)  == Resume(r, [run[r] EXCEPT !.at = "over", !.says = what])

-----------------------------------------------------------------------------
(***************************************************************************)
(* The history, which a run reads once, when it starts, and writes as a    *)
(* whole.  open("w") empties the file before json.dump fills it; a run     *)
(* that reads it in between gets an error and starts with no history.      *)
(***************************************************************************)
Submits(r) == run[r].does \in {"submit", "submit_attachments"}

Names(entries) == {entries[n].job : n \in 1..Len(entries)}

\* A job that is there already keeps its place in the OrderedDict.
With(entries, j, state) ==
    [n \in 1..Len(entries) |->
        IF entries[n].job = j THEN [job |-> j, state |-> state] ELSE entries[n]]

Last(entries) ==
    IF Len(entries) > HistorySize THEN Tail(entries) ELSE entries

\* new: the job is added, the oldest one is dropped, and all is saved.  Then
\* the run polls the job if it was asked to.
NewEntry(r) ==
    /\ At(r, "record")
    /\ \E next \in {"poll", "over"} :
          run' = [run EXCEPT ![r].at = "truncate", ![r].next = next,
                             ![r].mem = Last(Append(@, [job |-> r, state |-> "unknown"]))]
    /\ UNCHANGED <<job, archives, uploads, file>>

Truncate(r) ==
    /\ At(r, "truncate")
    /\ file' = <<>>
    /\ Goto(r, "write")
    /\ UNCHANGED <<job, archives, uploads>>

Write(r) ==
    /\ At(r, "write")
    /\ file' = run[r].mem
    /\ Resume(r, [run[r] EXCEPT !.at = run[r].next,
                                  !.says = IF Submits(r) THEN "submitted" ELSE @])
    /\ UNCHANGED <<job, archives, uploads>>

\* update, and go on at next: a job that the history of this run does not have
\* is not recorded.
UpdateAndGo(r, j, state, row, next) ==
    Resume(r, [run[r] EXCEPT
        !.mem = With(@, j, state), !.row = row, !.next = next,
        !.at = IF j \in Names(run[r].mem) THEN "truncate" ELSE next])

(***************************************************************************)
(* submit.  It looks for agents that are online, creates the job, uploads  *)
(* the archive and adds the job to the history.                            *)
(***************************************************************************)
\* A run starts with the history as the file has it; a poll or a cancellation
\* is for a job that exists.
FirstPoint == [submit |-> "agents", submit_attachments |-> "agents",
               poll |-> "poll", cancel |-> "cancel", jobs |-> "list"]

Targets(r, c) ==
    IF c \in {"poll", "cancel"} THEN {j \in Runs : job[j].state # "absent"} ELSE {r}

Start(r) ==
    /\ At(r, "start")
    /\ \E c \in Does[r] : \E j \in Targets(r, c) :
          run' = [run EXCEPT ![r].at = FirstPoint[c], ![r].does = c, ![r].of = j,
                             ![r].mem = file, ![r].row = 1]
    /\ UNCHANGED <<job, archives, uploads, file>>

\* Nobody is online on the queue and the user does not want to wait, or the
\* server does not know the queue: nothing is submitted.
CheckAgents(r) ==
    /\ At(r, "agents")
    /\ Goto(r, "post") \/ Exit(r, "failed")
    /\ UNCHANGED <<job, archives, uploads, file>>

Created(r) ==
    job' = [job EXCEPT ![r].state = "waiting",
                       ![r].att = IF run[r].does = "submit" THEN "none" ELSE "waiting"]

PostJob(r) ==
    /\ At(r, "post")
    /\ Created(r)
    /\ Goto(r, IF run[r].does = "submit" THEN "record" ELSE "upload")
    /\ UNCHANGED <<archives, uploads, file>>

\* The job is refused, or the request or its answer is lost; it is not repeated.
PostJobFails(r) ==
    /\ At(r, "post")
    /\ Created(r) \/ UNCHANGED job
    /\ Exit(r, "failed")
    /\ UNCHANGED <<archives, uploads, file>>

-----------------------------------------------------------------------------
(***************************************************************************)
(* The archive.  Each try is a request; the client may stop to wait for    *)
(* one that the server still executes.                                     *)
(***************************************************************************)
Tries(r) == run[r].tries

\* submit_job_attachments, up to the request.
SendArchive(r) ==
    /\ At(r, "upload") /\ Tries(r) < MaxTries
    /\ run' = [run EXCEPT ![r].at = "answer", ![r].tries = @ + 1]
    /\ UNCHANGED <<job, archives, uploads, file>>

\* attachments_post finds the job and that it waits for its archive, has it
\* already (OK: "could be due to a retry"), or is not in the queue any more.
Awaited(r)    == job[r].state = "waiting" /\ job[r].att = "waiting"
Known(r)      == job[r].state = "waiting" /\ job[r].att = "complete"
NotAwaited(r) == ~Awaited(r) /\ ~Known(r)

NotYetReceived(r) == At(r, "answer") /\ uploads[r][Tries(r)] = "none"

ReceiveArchive(r) ==
    /\ NotYetReceived(r) /\ Awaited(r)
    /\ uploads' = [uploads EXCEPT ![r][Tries(r)] = "save"]
    /\ UNCHANGED <<job, archives, file, run>>

SaveArchive(r) == \E n \in 1..MaxTries :
    /\ uploads[r][n] = "save"
    /\ archives' = archives \cup {r}
    /\ uploads' = [uploads EXCEPT ![r][n] = "mark"]
    /\ UNCHANGED <<job, file, run>>

\* attachments_received asks for the status only, not for the state of the job.
MarkReceived(r) == \E n \in 1..MaxTries :
    /\ uploads[r][n] = "mark"
    /\ job' = [job EXCEPT ![r].att = "complete"]
    /\ uploads' = [uploads EXCEPT ![r][n] = "done"]
    /\ UNCHANGED <<archives, file, run>>

\* The database fails or the server is killed.
HandlerFails(r) == \E n \in 1..MaxTries :
    /\ uploads[r][n] \in {"save", "mark"}
    /\ uploads' = [uploads EXCEPT ![r][n] = "failed"]
    /\ UNCHANGED <<job, archives, file, run>>

\* The answer to the current try.
AnsweredOK(r) ==
    /\ At(r, "answer")
    /\ uploads[r][Tries(r)] = "done" \/ (NotYetReceived(r) /\ Known(r))
    /\ Goto(r, "record")
    /\ UNCHANGED <<job, archives, uploads, file>>

\* 422 or 500: sys.exit.  400 is for a malformed job_id only.
Refused(r) ==
    /\ \/ NotYetReceived(r) /\ NotAwaited(r) /\ Exit(r, "refused")
       \/ At(r, "answer") /\ uploads[r][Tries(r)] = "failed" /\ Exit(r, "failed")
    /\ UNCHANGED <<job, archives, uploads, file>>

\* A timeout or a connection that fails, before or after the server got the
\* request: the next try follows.
NoAnswer(r) ==
    /\ At(r, "answer")
    /\ Goto(r, "upload")
    /\ UNCHANGED <<job, archives, uploads, file>>

\* Mutant: when all tries have failed the job counts as submitted.
ForgetsFailure(r) ==
    /\ At(r, "upload") /\ Tries(r) = MaxTries
    /\ Goto(r, "record")
    /\ UNCHANGED <<job, archives, uploads, file>>

\* All tries have failed, or the user interrupts the upload: AttachmentError.
GiveUp(r) ==
    /\ (At(r, "upload") /\ Tries(r) = MaxTries) \/ At(r, "answer")
    /\ Goto(r, "give_up")
    /\ UNCHANGED <<job, archives, uploads, file>>

-----------------------------------------------------------------------------
(***************************************************************************)
(* cancel: as a command, from a poll, or for a job whose archive could not *)
(* be uploaded.  cancel_job modifies the job, the agent record, or nothing *)
(* (400).                                                                  *)
(***************************************************************************)
Cancels(r) == job[run[r].of].state \notin FinalStates
Accepts(r) == Cancels(r) \/ job[run[r].of].shown

Cancelled(r) ==
    job' = [job EXCEPT ![run[r].of].state = IF Cancels(r) THEN "cancelled" ELSE @,
                       ![run[r].of].shown = FALSE,
                       ![run[r].of].revoked = @ \/ Accepts(r)]

CancelJob(r) ==
    /\ At(r, "give_up") \/ At(r, "cancel")
    /\ Accepts(r)
    /\ Cancelled(r)
    /\ \/ At(r, "give_up") /\ Exit(r, "cancelled")
       \/ At(r, "cancel") /\ UpdateAndGo(r, run[r].of, "cancelled", 1, "over")
    /\ UNCHANGED <<archives, uploads, file>>

\* Mutants: that the job could not be cancelled is not noticed, and what the
\* history is told does not depend on the answer.
IgnoresFailure(r) ==
    /\ At(r, "give_up") \/ At(r, "cancel")
    /\ Cancelled(r) \/ UNCHANGED job
    /\ Exit(r, "cancelled")
    /\ UNCHANGED <<archives, uploads, file>>
RecordsAnyway(r) ==
    /\ At(r, "cancel")
    /\ Cancelled(r) \/ UNCHANGED job
    /\ UpdateAndGo(r, run[r].of, "cancelled", 1, "over")
    /\ UNCHANGED <<archives, uploads, file>>

\* It is over already (400), or the request or its answer is lost.
CancelFails(r) ==
    /\ At(r, "give_up") \/ At(r, "cancel")
    /\ Cancelled(r) \/ UNCHANGED job
    /\ Exit(r, "failed")
    /\ UNCHANGED <<archives, uploads, file>>

(***************************************************************************)
(* poll, and jobs with --status: the state is asked for and recorded.      *)
(***************************************************************************)
\* get_job_state: any error but 204 and 400 is the state "unknown".
Seen(j) == {job[j].state, "unknown"}

Poll(r) ==
    /\ At(r, "poll")
    /\ \E state \in Seen(run[r].of) :
          UpdateAndGo(r, run[r].of, state, 1,
                      IF state \in FinalStates THEN "over" ELSE "poll")
    /\ UNCHANGED <<job, archives, uploads, file>>

\* The user interrupts the poll: (y)es or (N)o.  (c)ontinue polls again.
Interrupt(r) ==
    /\ At(r, "poll")
    /\ Goto(r, "cancel") \/ Goto(r, "over")
    /\ UNCHANGED <<job, archives, uploads, file>>

\* One row of the table: a state that is not final is asked for again.
ListRow(r) ==
    LET mem == run[r].mem
        n   == run[r].row
    IN  /\ At(r, "list") /\ n <= Len(mem)
        /\ IF mem[n].state \in FinalStates
           THEN run' = [run EXCEPT ![r].row = n + 1]
           ELSE \/ \E state \in Seen(mem[n].job) :
                      UpdateAndGo(r, mem[n].job, state, n + 1, "list")
                \/ run' = [run EXCEPT ![r].row = n + 1]      \* it is gone
        /\ UNCHANGED <<job, archives, uploads, file>>

ListEnds(r) ==
    /\ At(r, "list") /\ run[r].row > Len(run[r].mem)
    /\ Goto(r, "over")
    /\ UNCHANGED <<job, archives, uploads, file>>

-----------------------------------------------------------------------------
(***************************************************************************)
(* What the others do: a run may be killed anywhere, agents take jobs and  *)
(* report them.                                                            *)
(***************************************************************************)
Killed(r) ==
    /\ Kills /\ ~At(r, "start") /\ ~At(r, "over")
    /\ Goto(r, "over")
    /\ UNCHANGED <<job, archives, uploads, file>>

TakeJob(j) ==
    /\ job[j].state = "waiting" /\ job[j].att \in {"none", "complete"}
    /\ job' = [job EXCEPT ![j].state = "running", ![j].shown = TRUE, ![j].held = TRUE]
    /\ UNCHANGED <<archives, uploads, file, run>>

\* The state of a phase replaces what the job has, "cancelled" included.
AnnouncePhase(j) ==
    /\ job[j].held /\ job[j].state = "cancelled"
    /\ job' = [job EXCEPT ![j].state = "running"]
    /\ UNCHANGED <<archives, uploads, file, run>>

CompleteJob(j) ==
    /\ job[j].held
    /\ job' = [job EXCEPT ![j].state = "complete", ![j].held = FALSE]
    /\ UNCHANGED <<archives, uploads, file, run>>

ClearAgentJob(j) ==
    /\ job[j].state = "complete" /\ job[j].shown
    /\ job' = [job EXCEPT ![j].shown = FALSE]
    /\ UNCHANGED <<archives, uploads, file, run>>

Client(r) ==
    \/ Start(r) \/ CheckAgents(r) \/ PostJob(r) \/ PostJobFails(r)
    \/ SendArchive(r) \/ AnsweredOK(r) \/ Refused(r) \/ NoAnswer(r) \/ GiveUp(r)
    \/ NewEntry(r) \/ Truncate(r) \/ Write(r)
    \/ CancelJob(r) \/ CancelFails(r) \/ Poll(r) \/ Interrupt(r)
    \/ ListRow(r) \/ ListEnds(r)

Others(r) ==
    \/ ReceiveArchive(r) \/ SaveArchive(r) \/ MarkReceived(r) \/ HandlerFails(r)
    \/ TakeJob(r) \/ AnnouncePhase(r) \/ CompleteJob(r) \/ ClearAgentJob(r)

SubmissionsStep == \E r \in Runs : Client(r) \/ Others(r) \/ Killed(r)

-----------------------------------------------------------------------------
(***************************************************************************)
(* Properties.                                                             *)
(***************************************************************************)

\* A job that was "submitted successfully" with attachments has its archive at
\* the server and does not wait for it any more, whichever of the tries the
\* server executed (submit_job_attachments, attachments_post).
SuccessMeansReady ==
    \A r \in Runs :
        run[r].says = "submitted" /\ run[r].does = "submit_attachments"
            => job[r].att = "complete" /\ r \in archives

\* "submitted and cancelled": no agent takes the job any more, even if an
\* upload the client has given up on is still executed (_submit).
GivenUpMeansGone ==
    \A r \in Runs : run[r].says = "cancelled" => job[r].state # "waiting"

Entries(entries) == {entries[n] : n \in 1..Len(entries)}

\* The state of a job that the history has as final is not asked for again
\* (jobs, do_poll, cancel), so what it says must be true, in the file and as
\* any run has it in memory: a job that is "complete" there is complete, and
\* of one that is "cancelled" the server has accepted a cancellation.  Such a
\* job may complete all the same, as its agent may overwrite the state, or may
\* have been complete when it was cancelled, as long as the record of an agent
\* showed it; it is never back in the queue.  That an entry is there, and the
\* newest, is not said: a run that saves its copy loses what others saved.
FinalsAreTrue ==
    \A e \in Entries(file) \cup UNION {Entries(run[r].mem) : r \in Runs} :
        /\ e.state = "complete" => job[e.job].state = "complete"
        /\ e.state = "cancelled" => job[e.job].revoked /\ job[e.job].state # "waiting"
=============================================================================
