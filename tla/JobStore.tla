------------------------------ MODULE JobStore ------------------------------
(***************************************************************************)
(* The Testflinger server's handling of jobs: the MongoDB collections      *)
(* jobs, agents and jobs_events, and the request handlers of api/v1.py     *)
(* that write them.  A handler is not a transaction.  Each call into       *)
(* database.py is one atomic step here, and any number of handlers         *)
(* (Workers) interleave between those steps.  A handler may also be killed *)
(* half-way, and a response may be lost on its way to the agent.           *)
(*                                                                         *)
(* The documents of the jobs collection are numbered in insertion order.   *)
(* job_id is NOT a key of that collection: its index is not unique, and a  *)
(* job that is resubmitted keeps its job_id.  An update_one by job_id hits *)
(* the first matching document.                                            *)
(***************************************************************************)
EXTENDS Naturals

CONSTANTS
    Docs,         \* numbers of the documents inserted in the jobs collection
    JobIds,       \* values of job_id
    Agents,       \* agent names
    Workers,      \* request handlers that may be active at the same time
    Phases,       \* test phases an agent announces as job_state
    Submissions,  \* what the users submit: records as in Submission below
    Queues,       \* queue names
    Serves,       \* the queues each agent asks for: [Agents -> SUBSET Queues]
    Timeouts,     \* may an agent give up on a request that is being executed?
    Expirable,    \* documents that may get older than 7 days
    Crashes,      \* may handlers and agent processes be killed?
    None          \* a null value

Submission == [id : JobIds, queue : Queues, exclude : SUBSET Agents,
               prio : Nat, att : {"none", "waiting"}]

ASSUME JobStoreAssumption ==
    /\ Docs \subseteq Nat
    /\ Submissions \subseteq Submission
    /\ Serves \in [Agents -> SUBSET Queues]
    /\ Timeouts \in BOOLEAN /\ Expirable \subseteq Docs /\ Crashes \in BOOLEAN
    /\ None \notin Docs /\ None \notin JobIds /\ None \notin Agents
    /\ None \notin Phases \cup {"allocated", "complete"} /\ None \notin Queues
    /\ Phases \cap {"absent", "expired", "waiting", "running", "allocated",
                    "complete", "cancelled"} = {}

(***************************************************************************)
(* Job states.  "absent" and "expired" are not values of job_state: they   *)
(* stand for a document that is not inserted yet, and one the TTL index    *)
(* has removed.                                                            *)
(***************************************************************************)
FinalStates  == {"complete", "cancelled"}
ResultStates == Phases \cup {"allocated", "complete"}
JobStates    == {"waiting", "running", "cancelled"} \cup ResultStates

VARIABLES
    jobs,      \* [Docs -> Doc]: the jobs collection.  The field back is not
               \* stored: it remembers which completions a late result took back
    files,     \* job ids whose attachment archive is in GridFS
    agentJob,  \* [Agents -> JobIds \cup {None}]: job_id in the agent record
    events,    \* [JobIds -> [Event -> Nat]]: the jobs_events collection, as
               \* how often each event was added to the log of the job
    req,       \* [Workers -> Request]: the handlers at work
    held       \* [Agents -> Held]: the job each agent process works on

vars == <<jobs, files, agentJob, events, req, held>>

Event == [name : {"submitted", "assigned", "phase_started",
                  "phase_completed", "completed", "cancelled"},
          arg  : Agents \cup Phases \cup {None}]

Doc == [id : JobIds \cup {None}, state : JobStates \cup {"absent", "expired"},
        queue : Queues \cup {None}, exclude : SUBSET Agents, prio : Nat,
        att : {"none", "waiting", "complete"}, agent : Agents \cup {None},
        started : BOOLEAN, done : SUBSET Phases,
        back : SUBSET Event]

\* The points of the handlers, each named for the database call that is next.
Points == {"idle", "log_submitted", "save_file", "attachments_received",
           "started_at", "log_assigned", "set_agent_job", "reply",
           "update_results", "clear_result", "log_result",
           "clear_cancel", "log_cancelled"}

Request == [at : Points, id : JobIds \cup {None}, doc : Docs \cup {None},
            agent : Agents \cup {None}, state : ResultStates \cup {None},
            done : SUBSET Phases, new : SUBSET Event, hit : BOOLEAN]

\* said: the states the agent announced for the job; done: the phases it has
\* a status for; over: it has sent the outcome.
Held == [doc : Docs \cup {None}, said : SUBSET ResultStates,
         done : SUBSET Phases, over : BOOLEAN]

AbsentDoc == [id |-> None, state |-> "absent", queue |-> None, exclude |-> {},
              prio |-> 0, att |-> "none", agent |-> None, started |-> FALSE,
              done |-> {}, back |-> {}]
Idle      == [at |-> "idle", id |-> None, doc |-> None, agent |-> None,
              state |-> None, done |-> {}, new |-> {}, hit |-> FALSE]
NoHeld    == [doc |-> None, said |-> {}, done |-> {}, over |-> FALSE]

TypeOK ==
    /\ jobs \in [Docs -> Doc]
    /\ files \in SUBSET JobIds
    /\ agentJob \in [Agents -> JobIds \cup {None}]
    /\ events \in [JobIds -> [Event -> Nat]]
    /\ req \in [Workers -> Request]
    /\ held \in [Agents -> Held]

Init ==
    /\ jobs = [d \in Docs |-> AbsentDoc]
    /\ files = {}
    /\ agentJob = [a \in Agents |-> None]
    /\ events = [j \in JobIds |-> [e \in Event |-> 0]]
    /\ req = [w \in Workers |-> Idle]
    /\ held = [a \in Agents |-> NoHeld]

-----------------------------------------------------------------------------
(***************************************************************************)
(* The database.                                                           *)
(***************************************************************************)
Stored(d) == jobs[d].state \in JobStates
WithId(j) == {d \in Docs : Stored(d) /\ jobs[d].id = j}

IsFirst(d, S) == d \in S /\ \A e \in S : d <= e

\* update_one: a field of the first document of S, if there is one, is set.
UpdateFirst(S, field, value) ==
    \/ \E d \in S : IsFirst(d, S) /\ jobs' = [jobs EXCEPT ![d][field] = value]
    \/ S = {} /\ UNCHANGED jobs

\* add_job_event pushes the event to the job's list.
AddEvent(j, e) == events' = [events EXCEPT ![j][e] = @ + 1]
Ev(name, arg)  == [name |-> name, arg |-> arg]

At(w, point)   == req[w].at = point
Goto(w, point) == req' = [req EXCEPT ![w].at = point]
Return(w)      == req' = [req EXCEPT ![w] = Idle]
Start(w, r)    == At(w, "idle") /\ req' = [req EXCEPT ![w] = r]

-----------------------------------------------------------------------------
(***************************************************************************)
(* POST /job.  A job that excludes every agent of its queue is refused.    *)
(***************************************************************************)
AgentsCanRun(s) == {a \in Agents : s.queue \in Serves[a] /\ a \notin s.exclude}

NewDoc(s) == [AbsentDoc EXCEPT !.id = s.id, !.state = "waiting",
                               !.queue = s.queue, !.exclude = s.exclude,
                               !.prio = s.prio, !.att = s.att]

Free == {d \in Docs : jobs[d].state = "absent"}   \* bound: Docs

AddJob(w, s) ==
    /\ s.exclude # {} => AgentsCanRun(s) # {}
    /\ Start(w, [Idle EXCEPT !.at = "log_submitted", !.id = s.id])
    /\ \E d \in Docs : IsFirst(d, Free) /\ jobs' = [jobs EXCEPT ![d] = NewDoc(s)]
    /\ UNCHANGED <<files, agentJob, events, held>>

LogSubmitted(w) ==
    /\ At(w, "log_submitted")
    /\ AddEvent(req[w].id, Ev("submitted", None))
    /\ Return(w)
    /\ UNCHANGED <<jobs, files, agentJob, held>>

(***************************************************************************)
(* POST /job/<id>/attachments.  A request for a job that waits for no      *)
(* archive, or has it already, changes nothing.                            *)
(***************************************************************************)
WaitingWithId(j) == {d \in WithId(j) : jobs[d].state = "waiting"}

\* Mutant: the job is released before its archive is saved.
ReleasedEarly(w, j) ==
    /\ \E d \in Docs :
          /\ IsFirst(d, WaitingWithId(j)) /\ jobs[d].att = "waiting"
          /\ Start(w, [Idle EXCEPT !.at = "attachments_received", !.id = j, !.doc = d])
    /\ UNCHANGED <<jobs, files, agentJob, events, held>>

GetAttachmentsStatus(w, j) ==
    /\ \E d \in Docs :
          /\ IsFirst(d, WaitingWithId(j)) /\ jobs[d].att = "waiting"
          /\ Start(w, [Idle EXCEPT !.at = "save_file", !.id = j, !.doc = d])
    /\ UNCHANGED <<jobs, files, agentJob, events, held>>

SaveFile(w) ==
    /\ At(w, "save_file")
    /\ files' = files \cup {req[w].id}
    /\ Goto(w, "attachments_received")
    /\ UNCHANGED <<jobs, agentJob, events, held>>

AttachmentsReceived(w) ==
    /\ At(w, "attachments_received")
    /\ UpdateFirst({d \in WithId(req[w].id) : jobs[d].att = "waiting"}, "att", "complete")
    /\ Return(w)
    /\ UNCHANGED <<files, agentJob, events, held>>

(***************************************************************************)
(* GET /job.  PopJob is the atomic find_one_and_update; what follows it is *)
(* not atomic with it.  An agent asks when it works on no job, and its     *)
(* HTTP client asks again when a request timed out: the handler of the     *)
(* first one does not stop then.                                           *)
(***************************************************************************)
NoRequestPending(a) == \A w \in Workers : req[w].agent # a

\* Mutant: the filter on job_state also lets running jobs through.
EligibleOrRunning(a) ==
    {d \in Docs : /\ jobs[d].state \in {"waiting", "running"}
                  /\ jobs[d].queue \in Serves[a]
                  /\ jobs[d].att \in {"none", "complete"}
                  /\ a \notin jobs[d].exclude}

Eligible(a) ==
    {d \in Docs : /\ jobs[d].state = "waiting"
                  /\ jobs[d].queue \in Serves[a]
                  /\ jobs[d].att \in {"none", "complete"}
                  /\ a \notin jobs[d].exclude}

\* Mutants: pop_job sorts in the other direction, or forgets to set agent_id.
PopInOrder(w, a, d, before(_, _), owner) ==
    /\ held[a].doc = None
    /\ Timeouts \/ NoRequestPending(a)
    /\ d \in Eligible(a)
    /\ \A e \in Eligible(a) : before(d, e)
    /\ Start(w, [Idle EXCEPT !.at = "started_at", !.id = jobs[d].id,
                             !.doc = d, !.agent = a])
    /\ jobs' = [jobs EXCEPT ![d].state = "running", ![d].agent = owner]
    /\ UNCHANGED <<files, agentJob, events, held>>

PopLeastUrgent(w, a, d) ==
    PopInOrder(w, a, d, LAMBDA x, y : jobs[x].prio <= jobs[y].prio, a)
PopAnonymously(w, a, d) ==
    PopInOrder(w, a, d, LAMBDA x, y : jobs[y].prio <= jobs[x].prio, None)

PopJob(w, a, d) ==
    /\ held[a].doc = None
    /\ Timeouts \/ NoRequestPending(a)
    /\ d \in Eligible(a)
    /\ \A e \in Eligible(a) : jobs[e].prio <= jobs[d].prio
    /\ Start(w, [Idle EXCEPT !.at = "started_at", !.id = jobs[d].id,
                             !.doc = d, !.agent = a])
    /\ jobs' = [jobs EXCEPT ![d].state = "running", ![d].agent = a]
    /\ UNCHANGED <<files, agentJob, events, held>>

MarkStarted(w) ==
    /\ At(w, "started_at")
    /\ UpdateFirst(WithId(req[w].id), "started", TRUE)
    /\ Goto(w, "log_assigned")
    /\ UNCHANGED <<files, agentJob, events, held>>

LogAssigned(w) ==
    /\ At(w, "log_assigned")
    /\ AddEvent(req[w].id, Ev("assigned", req[w].agent))
    /\ Goto(w, "set_agent_job")
    /\ UNCHANGED <<jobs, files, agentJob, held>>

SetAgentJob(w) ==
    /\ At(w, "set_agent_job")
    /\ agentJob' = [agentJob EXCEPT ![req[w].agent] = req[w].id]
    /\ Goto(w, "reply")
    /\ UNCHANGED <<jobs, files, events, held>>

\* The agent receives the job and starts to work on it.
ReplyJob(w) ==
    /\ At(w, "reply")
    /\ held[req[w].agent].doc = None
    /\ held' = [held EXCEPT ![req[w].agent] =
                    [NoHeld EXCEPT !.doc = req[w].doc]]
    /\ Return(w)
    /\ UNCHANGED <<jobs, files, agentJob, events>>

\* The agent does not wait for the response any more, and it is lost.
ReplyLost(w) ==
    /\ At(w, "reply") /\ Timeouts
    /\ Return(w)
    /\ UNCHANGED <<jobs, files, agentJob, events, held>>

(***************************************************************************)
(* POST /result/<id>, as the agent sends it: the phase it is about to run, *)
(* the exit statuses of all the phases it has run, and at the end the      *)
(* outcome with job_state "complete".                                      *)
(***************************************************************************)
PostResult(w, a, state, done) ==
    /\ Timeouts \/ NoRequestPending(a)
    /\ WithId(jobs[held[a].doc].id) # {}     \* job_exists, else 400
    /\ Start(w, [Idle EXCEPT !.at = "update_results", !.doc = held[a].doc,
                             !.id = jobs[held[a].doc].id, !.agent = a,
                             !.state = state, !.done = done])
    /\ UNCHANGED <<jobs, files, agentJob, events>>

Working(a) == held[a].doc # None /\ ~held[a].over

Announce(w, a, s) ==
    /\ Working(a) /\ s \in (Phases \cup {"allocated"}) \ (held[a].said \cup held[a].done)
    /\ PostResult(w, a, s, {})
    /\ held' = [held EXCEPT ![a].said = @ \cup {s}]

\* The cleanup phase is reported without having been announced.
ReportPhase(w, a, p) ==
    /\ Working(a) /\ p \notin held[a].done
    /\ PostResult(w, a, None, held[a].done \cup {p})
    /\ held' = [held EXCEPT ![a].done = @ \cup {p}]

ReportOutcome(w, a) ==
    /\ held[a].doc # None
    /\ PostResult(w, a, "complete", held[a].done)
    /\ held' = [held EXCEPT ![a].over = TRUE]

\* detect_new_result_events: one event for each phase that newly has a status,
\* and at most one for the job state.
\* Mutant: the statuses that were known before are not left out.
AllPhasesCompleted(doc, r) == {Ev("phase_completed", p) : p \in r.done}

PhaseCompletedEvents(doc, r) ==
    {Ev("phase_completed", p) : p \in r.done \ doc.done}

\* Mutant: a repeated "complete" is logged again.
AnyCompletion(doc, r) ==
    IF r.state = "complete"
    THEN {Ev("completed", None)}
    ELSE {Ev("phase_started", p) : p \in (Phases \cap {r.state}) \ {doc.state}}

LifecycleEvents(doc, r) ==
    IF r.state = "complete"
    THEN {Ev("completed", None) : x \in {doc.state} \ {"complete"}}
    ELSE {Ev("phase_started", p) : p \in (Phases \cap {r.state}) \ {doc.state}}

NewResultEvents(doc, r) == PhaseCompletedEvents(doc, r) \cup LifecycleEvents(doc, r)

\* The completions a document shows.
Shown(doc) == {Ev("phase_completed", p) : p \in doc.done} \cup
              {Ev("completed", None) : x \in {doc.state} \cap {"complete"}}

\* A key that is not in the posted data keeps its value; a posted status
\* replaces the old one.
Updated(doc, r) ==
    [doc EXCEPT !.state = IF r.state = None THEN @ ELSE r.state,
                !.done  = IF r.done = {} THEN @ ELSE r.done]

WithResult(doc, r) ==
    [Updated(doc, r) EXCEPT !.back = @ \cup (Shown(doc) \ Shown(Updated(doc, r)))]

\* The update and the reading of the previous result_data are one atomic
\* find_one_and_update.  When the document is gone the previous data is {}.
UpdateAndGo(w, point) ==
    LET r == req[w]
        Detect(previous) ==
            req' = [req EXCEPT ![w].at = point,
                               ![w].new = NewResultEvents(previous, r)]
    IN  /\ At(w, "update_results")
        /\ \/ \E d \in Docs : /\ IsFirst(d, WithId(r.id))
                              /\ jobs' = [jobs EXCEPT ![d] = WithResult(@, r)]
                              /\ Detect(jobs[d])
           \/ WithId(r.id) = {} /\ UNCHANGED jobs /\ Detect(AbsentDoc)
        /\ UNCHANGED <<files, agentJob, events, held>>

UpdateResults(w) ==
    UpdateAndGo(w, IF req[w].state \in FinalStates THEN "clear_result"
                                                   ELSE "log_result")

\* clear_agent_job: one agent record that shows the job, if there is one.
Showing(j) == {a \in Agents : agentJob[a] = j}

ClearAgentJob(j) ==
    \/ \E a \in Showing(j) : agentJob' = [agentJob EXCEPT ![a] = None]
    \/ Showing(j) = {} /\ UNCHANGED agentJob

ClearAfterResult(w) ==
    /\ At(w, "clear_result")
    /\ ClearAgentJob(req[w].id)
    /\ Goto(w, "log_result")
    /\ UNCHANGED <<jobs, files, events, held>>

LogResult(w) ==
    /\ At(w, "log_result")
    /\ \E e \in req[w].new :
          /\ e.name # "phase_completed" =>
                \A f \in req[w].new : f.name # "phase_completed"
          /\ AddEvent(req[w].id, e)
          /\ req' = [req EXCEPT ![w].new = @ \ {e}]
    /\ UNCHANGED <<jobs, files, agentJob, held>>

ReturnResult(w) ==
    /\ At(w, "log_result") /\ req[w].new = {}
    /\ Return(w)
    /\ UNCHANGED <<jobs, files, agentJob, events, held>>

(***************************************************************************)
(* POST /job/<id>/action "cancel".  hit records whether the first update   *)
(* modified the job; the handler itself adds up both modified_counts.      *)
(***************************************************************************)
Cancellable(j) == {d \in WithId(j) : jobs[d].state \notin FinalStates}

CancelJob(w, j) ==
    /\ \E d \in Docs : jobs[d].id = j          \* an id some user was given
    /\ Start(w, [Idle EXCEPT !.at = "clear_cancel", !.id = j,
                             !.hit = Cancellable(j) # {}])
    /\ UpdateFirst(Cancellable(j), "state", "cancelled")
    /\ UNCHANGED <<files, agentJob, events, held>>

ClearAfterCancel(w) ==
    /\ At(w, "clear_cancel")
    /\ ClearAgentJob(req[w].id)
    /\ IF req[w].hit \/ Showing(req[w].id) # {}
       THEN Goto(w, "log_cancelled")
       ELSE Return(w)                        \* 400: already over
    /\ UNCHANGED <<jobs, files, events, held>>

LogCancelled(w) ==
    /\ At(w, "log_cancelled")
    /\ AddEvent(req[w].id, Ev("cancelled", None))
    /\ Return(w)
    /\ UNCHANGED <<jobs, files, agentJob, held>>

-----------------------------------------------------------------------------
(***************************************************************************)
(* What may happen to a handler, an agent or a document at any time.       *)
(***************************************************************************)

\* The server process is killed or the database fails: the rest of the
\* handler is not executed.
HandlerDies(w) ==
    /\ Crashes /\ ~At(w, "idle")
    /\ Return(w)
    /\ UNCHANGED <<jobs, files, agentJob, events, held>>

\* The agent is done with its job, or its process died and forgot it.
AgentLetsGo(a) ==
    /\ held[a].doc # None
    /\ held[a].over \/ Crashes
    /\ held' = [held EXCEPT ![a] = NoHeld]
    /\ UNCHANGED <<jobs, files, agentJob, events, req>>

\* The TTL index on created_at removes a document, whatever its state.
Expire(d) ==
    /\ d \in Expirable /\ Stored(d)
    /\ jobs' = [jobs EXCEPT ![d].state = "expired"]
    /\ UNCHANGED <<files, agentJob, events, req, held>>

-----------------------------------------------------------------------------
UserRequest(w) ==
    \/ \E s \in Submissions : AddJob(w, s)
    \/ \E j \in JobIds : GetAttachmentsStatus(w, j) \/ CancelJob(w, j)

AgentRequest(w, a) ==
    \/ \E d \in Docs : PopJob(w, a, d)
    \/ \E s \in Phases \cup {"allocated"} : Announce(w, a, s)
    \/ \E p \in Phases : ReportPhase(w, a, p)
    \/ ReportOutcome(w, a)

Continue(w) ==
    \/ LogSubmitted(w) \/ SaveFile(w) \/ AttachmentsReceived(w)
    \/ MarkStarted(w) \/ LogAssigned(w) \/ SetAgentJob(w)
    \/ ReplyJob(w) \/ ReplyLost(w)
    \/ UpdateResults(w) \/ ClearAfterResult(w) \/ LogResult(w)
    \/ ReturnResult(w) \/ ClearAfterCancel(w) \/ LogCancelled(w)

Next ==
    \/ \E w \in Workers : \/ UserRequest(w)
                          \/ \E a \in Agents : AgentRequest(w, a)
                          \/ Continue(w)
                          \/ HandlerDies(w)
    \/ \E a \in Agents : AgentLetsGo(a)
    \/ \E d \in Docs : Expire(d)

Spec == Init /\ [][Next]_vars
-----------------------------------------------------------------------------
(***************************************************************************)
(* The promise of JobDispatch, read off the documents.  A job that an      *)
(* agent owns stays "taken" whatever becomes of its job_state.             *)
(***************************************************************************)
StatusOf(doc) ==
    IF doc.agent # None THEN "taken"
    ELSE IF doc.state = "absent" THEN "absent"
    ELSE IF doc.state # "waiting" THEN "withdrawn"
    ELSE IF doc.att = "waiting" THEN "incomplete" ELSE "offered"

Dispatch == INSTANCE JobDispatch WITH
    Jobs     <- Docs,
    NoAgent  <- None,
    status   <- [d \in Docs |-> StatusOf(jobs[d])],
    owner    <- [d \in Docs |-> jobs[d].agent],
    runnable <- [d \in Docs |-> {a \in Agents : /\ jobs[d].queue \in Serves[a]
                                               /\ a \notin jobs[d].exclude}],
    urgency  <- [d \in Docs |-> jobs[d].prio]

-----------------------------------------------------------------------------
(***************************************************************************)
(* Properties.                                                             *)
(***************************************************************************)
Dispatching(w) == req[w].at \in {"started_at", "log_assigned",
                                 "set_agent_job", "reply"}

\* A job is given to one agent, once: no two agents work on one document, no
\* two GET /job handlers are about to hand it out, and none is about to hand
\* out a document that an agent already works on (pop_job).
ExclusiveDispatch ==
    \A d \in Docs :
        /\ \A a, b \in Agents : held[a].doc = d /\ held[b].doc = d => a = b
        /\ \A v, w \in Workers :
              Dispatching(v) /\ Dispatching(w) /\ req[v].doc = d /\ req[w].doc = d
                  => v = w
        /\ \A w \in Workers, a \in Agents :
              Dispatching(w) /\ req[w].doc = d => held[a].doc # d

\* What an agent was given, it may run: the job is from a queue it serves, does
\* not exclude it, and the attachments it needs are stored (pop_job's filter,
\* attachments_post's order of save_file and attachments_received).
DispatchAllowed ==
    \A d \in Docs : jobs[d].agent # None =>
        /\ jobs[d].queue \in Serves[jobs[d].agent]
        /\ jobs[d].agent \notin jobs[d].exclude
        /\ jobs[d].att \in {"none", "complete"}
        /\ jobs[d].att = "complete" => jobs[d].id \in files

\* An agent record shows a job, and the event log says a job was assigned to an
\* agent, only if pop_job did give that agent a job with that id, whatever
\* the other handlers did since (set_agent_job, add_job_event in job_get).
AssignmentsAreReal ==
    \A a \in Agents, j \in JobIds :
        agentJob[a] = j \/ events[j][Ev("assigned", a)] > 0
            => \E d \in Docs : jobs[d].id = j /\ jobs[d].agent = a

\* The log of a job holds each completion once: "log a completion event once"
\* (events.py), and one phase-completed event per phase although the posted
\* statuses are cumulative, posts are repeated and users reuse job ids
\* (update_job_results and detect_new_result_events).  There are two exceptions.
\* Once a document has expired there is no previous data to compare with; and
\* a completion that a late result took back is new in the next one.
LoggedOnce ==
    \A j \in JobIds, e \in Event :
        /\ e.name \in {"completed", "phase_completed"}
        /\ \A d \in Docs :
              jobs[d].id = j => jobs[d].state # "expired" /\ e \notin jobs[d].back
        => events[j][e] <= 1

\* The handlers implement the queue's promise: the properties of pop_job that
\* JobDispatch states hold of every interleaving of the handlers.
ImplementsDispatch == Dispatch!DispatchSpec
=============================================================================
