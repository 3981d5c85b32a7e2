--------------------------- MODULE JobStoreProofs ---------------------------
(***************************************************************************)
(* Theorems about JobStore, for every number of documents, job ids, agents *)
(* and handlers, with and without crashes, timeouts and resubmission.      *)
(***************************************************************************)
EXTENDS JobStore, TLAPS

(***************************************************************************)
(* Types of the values the handlers build.                                 *)
(***************************************************************************)
LEMMA DocTypes ==
    /\ AbsentDoc \in Doc
    /\ \A s \in Submission : NewDoc(s) \in Doc
    /\ \A doc \in Doc :
          /\ [doc EXCEPT !.att = "complete"] \in Doc
          /\ [doc EXCEPT !.started = TRUE] \in Doc
          /\ [doc EXCEPT !.state = "cancelled"] \in Doc
          /\ [doc EXCEPT !.state = "expired"] \in Doc
          /\ \A a \in Agents : [doc EXCEPT !.state = "running", !.agent = a] \in Doc
  <1> USE DEF Doc, JobStates
  <1>1. AbsentDoc \in Doc
    BY DEF AbsentDoc
  <1>2. ASSUME NEW s \in Submission PROVE NewDoc(s) \in Doc
    BY DEF NewDoc, AbsentDoc, Submission
  <1>3. ASSUME NEW doc \in Doc
        PROVE  /\ [doc EXCEPT !.att = "complete"] \in Doc
               /\ [doc EXCEPT !.started = TRUE] \in Doc
               /\ [doc EXCEPT !.state = "cancelled"] \in Doc
               /\ [doc EXCEPT !.state = "expired"] \in Doc
               /\ [doc EXCEPT !.state = "running"] \in Doc
    OBVIOUS
  <1>4. ASSUME NEW doc \in Doc, NEW a \in Agents
        PROVE  [doc EXCEPT !.agent = a] \in Doc
    OBVIOUS
  <1> HIDE DEF Doc, JobStates
  <1> QED BY <1>1, <1>2, <1>3, <1>4

LEMMA RequestTypes ==
    /\ Idle \in Request
    /\ \A j \in JobIds :
          /\ [Idle EXCEPT !.at = "log_submitted", !.id = j] \in Request
          /\ \A d \in Docs :
                [Idle EXCEPT !.at = "save_file", !.id = j, !.doc = d] \in Request
          /\ \A b \in BOOLEAN :
                [Idle EXCEPT !.at = "clear_cancel", !.id = j, !.hit = b] \in Request
    /\ \A j \in JobIds \cup {None}, d \in Docs, a \in Agents :
          /\ [Idle EXCEPT !.at = "started_at", !.id = j, !.doc = d, !.agent = a]
                \in Request
          /\ \A s \in ResultStates \cup {None}, P \in SUBSET Phases :
                [Idle EXCEPT !.at = "update_results", !.doc = d, !.id = j,
                             !.agent = a, !.state = s, !.done = P] \in Request
    /\ \A r \in Request :
          /\ \A p \in Points : [r EXCEPT !.at = p] \in Request
          /\ \A E \in SUBSET Event : [r EXCEPT !.new = E] \in Request
          /\ \A p \in Points, E \in SUBSET Event :
                [r EXCEPT !.at = p, !.new = E] \in Request
  <1> USE DEF Request, Points
  <1>1. Idle \in Request
    BY DEF Idle
  <1>2. ASSUME NEW j \in JobIds
        PROVE  [Idle EXCEPT !.at = "log_submitted", !.id = j] \in Request
    BY DEF Idle
  <1>3. ASSUME NEW j \in JobIds, NEW d \in Docs
        PROVE  [Idle EXCEPT !.at = "save_file", !.id = j, !.doc = d] \in Request
    BY DEF Idle
  <1>4. ASSUME NEW j \in JobIds, NEW b \in BOOLEAN
        PROVE  [Idle EXCEPT !.at = "clear_cancel", !.id = j, !.hit = b] \in Request
    BY DEF Idle
  <1>5. ASSUME NEW j \in JobIds \cup {None}, NEW d \in Docs, NEW a \in Agents
        PROVE  [Idle EXCEPT !.at = "started_at", !.id = j, !.doc = d, !.agent = a]
                  \in Request
    BY DEF Idle
  <1>6. ASSUME NEW j \in JobIds \cup {None}, NEW d \in Docs, NEW a \in Agents,
               NEW s \in ResultStates \cup {None}, NEW P \in SUBSET Phases
        PROVE  [Idle EXCEPT !.at = "update_results", !.doc = d, !.id = j,
                            !.agent = a, !.state = s, !.done = P] \in Request
    BY DEF Idle
  <1>7. ASSUME NEW r \in Request, NEW p \in Points, NEW E \in SUBSET Event
        PROVE  /\ [r EXCEPT !.at = p] \in Request
               /\ [r EXCEPT !.new = E] \in Request
               /\ [r EXCEPT !.at = p, !.new = E] \in Request
    OBVIOUS
  <1>8. {} \in SUBSET Event /\ "idle" \in Points
    OBVIOUS
  <1> HIDE DEF Request, Points
  <1> QED BY <1>1, <1>2, <1>3, <1>4, <1>5, <1>6, <1>7, <1>8
LEMMA HeldTypes ==
    /\ NoHeld \in Held
    /\ \A d \in Docs : [NoHeld EXCEPT !.doc = d] \in Held
    /\ \A h \in Held :
          /\ \A s \in Phases \cup {"allocated"} : [h EXCEPT !.said = @ \cup {s}] \in Held
          /\ \A p \in Phases : [h EXCEPT !.done = @ \cup {p}] \in Held
          /\ [h EXCEPT !.over = TRUE] \in Held
  BY DEF Held, NoHeld, ResultStates

LEMMA EventTypes ==
    /\ Ev("submitted", None) \in Event
    /\ Ev("cancelled", None) \in Event
    /\ Ev("completed", None) \in Event
    /\ \A a \in Agents : Ev("assigned", a) \in Event
    /\ \A p \in Phases : Ev("phase_started", p) \in Event
    /\ \A p \in Phases : Ev("phase_completed", p) \in Event
  BY DEF Ev, Event

LEMMA NewResultEventTypes ==
    ASSUME NEW doc \in Doc, NEW r \in Request
    PROVE  NewResultEvents(doc, r) \in SUBSET Event
  <1>1. PhaseCompletedEvents(doc, r) \subseteq Event
    BY EventTypes DEF PhaseCompletedEvents, Request
  <1>2. LifecycleEvents(doc, r) \subseteq Event
    BY EventTypes DEF LifecycleEvents
  <1> QED BY <1>1, <1>2 DEF NewResultEvents

LEMMA WithResultType ==
    ASSUME NEW doc \in Doc, NEW r \in Request
    PROVE  WithResult(doc, r) \in Doc
  <1>1. Updated(doc, r) \in Doc
    BY DEF Updated, Doc, Request, JobStates
  <1>2. Shown(doc) \subseteq Event
    BY EventTypes DEF Shown, Doc
  <1> DEFINE B == Shown(doc) \ Shown(Updated(doc, r))
  <1>3. B \subseteq Event
    BY <1>2
  <1> HIDE DEF B
  <1>4. [Updated(doc, r) EXCEPT !.back = @ \cup B] \in Doc
    BY <1>1, <1>3 DEF Doc
  <1> QED BY <1>4 DEF WithResult, B

\* A result changes the state, the statuses and the completions taken back.
LEMMA WithResultFields ==
    ASSUME NEW doc \in Doc, NEW r \in Request
    PROVE  LET x == WithResult(doc, r) IN
           /\ x.id = doc.id /\ x.queue = doc.queue /\ x.att = doc.att
           /\ x.exclude = doc.exclude /\ x.agent = doc.agent /\ x.prio = doc.prio
           /\ x.state = IF r.state = None THEN doc.state ELSE r.state
           /\ x.done = IF r.done = {} THEN doc.done ELSE r.done
           /\ x.back = doc.back \cup (Shown(doc) \ Shown(x))
  <1> DEFINE u == Updated(doc, r)
             B == Shown(doc) \ Shown(u)
  <1>1. /\ u.id = doc.id /\ u.queue = doc.queue /\ u.att = doc.att
        /\ u.exclude = doc.exclude /\ u.agent = doc.agent /\ u.prio = doc.prio
        /\ u.state = (IF r.state = None THEN doc.state ELSE r.state)
        /\ u.done = (IF r.done = {} THEN doc.done ELSE r.done)
        /\ u.back = doc.back
    BY DEF Updated, Doc
  <1>2. u \in Doc
    BY DEF Updated, Doc, Request, JobStates
  <1> HIDE DEF u, B
  <1> DEFINE x == [u EXCEPT !.back = @ \cup B]
  <1>3. /\ x.id = u.id /\ x.queue = u.queue /\ x.att = u.att /\ x.exclude = u.exclude
        /\ x.agent = u.agent /\ x.prio = u.prio /\ x.state = u.state /\ x.done = u.done
        /\ x.back = u.back \cup B
    BY <1>2 DEF Doc
  <1>4. x = WithResult(doc, r)
    BY DEF WithResult, u, B
  <1> HIDE DEF x
  <1>5. Shown(x) = Shown(u)
    BY <1>3 DEF Shown
  <1> QED BY <1>1, <1>3, <1>4, <1>5 DEF B, u

LEMMA InitTypeOK == ASSUME Init PROVE TypeOK
  <1>1. [d \in Docs |-> AbsentDoc] \in [Docs -> Doc]
    BY DocTypes
  <1>2. [w \in Workers |-> Idle] \in [Workers -> Request]
    BY RequestTypes
  <1>3. [a \in Agents |-> NoHeld] \in [Agents -> Held]
    BY HeldTypes
  <1> QED BY <1>1, <1>2, <1>3 DEF Init, TypeOK

LEMMA GotoType ==
    ASSUME TypeOK, NEW w \in Workers, NEW p \in Points, Goto(w, p)
    PROVE  req' \in [Workers -> Request]
  BY RequestTypes DEF Goto, TypeOK

LEMMA ReturnType ==
    ASSUME TypeOK, NEW w \in Workers, Return(w)
    PROVE  req' \in [Workers -> Request]
  BY RequestTypes DEF Return, TypeOK

LEMMA AddEventType ==
    ASSUME TypeOK, NEW j, NEW e \in Event, AddEvent(j, e)
    PROVE  events' \in [JobIds -> [Event -> Nat]]
  <1>1. CASE j \in JobIds
    BY <1>1 DEF AddEvent, TypeOK
  <1>2. CASE j \notin JobIds
    BY <1>2 DEF AddEvent, TypeOK
  <1> QED BY <1>1, <1>2

LEMMA ClearAgentJobType ==
    ASSUME TypeOK, NEW j, ClearAgentJob(j)
    PROVE  agentJob' \in [Agents -> JobIds \cup {None}]
  BY DEF ClearAgentJob, TypeOK

(***************************************************************************)
(* The inductive invariant.                                                *)
(***************************************************************************)

\* Every request, every document in use and every job in hand has a job id.
Known ==
    /\ \A d \in Docs : jobs[d].state # "absent" => jobs[d].id \in JobIds
    /\ \A w \in Workers : ~At(w, "idle") => req[w].id \in JobIds
    /\ \A a \in Agents : held[a].doc # None => jobs[held[a].doc].id \in JobIds

\* agent_id in a document tells who was given it: nobody as long as it waits,
\* and the only handler or agent that has it in hand afterwards.
Owned ==
    /\ \A d \in Docs : jobs[d].state \in {"absent", "waiting"} => jobs[d].agent = None
    /\ \A w \in Workers : Dispatching(w) =>
          /\ req[w].doc \in Docs /\ req[w].agent \in Agents
          /\ jobs[req[w].doc].agent = req[w].agent
          /\ jobs[req[w].doc].id = req[w].id
    /\ \A a \in Agents : held[a].doc # None => jobs[held[a].doc].agent = a

\* An archive is stored before any document or handler says so.
ArchivesStored ==
    /\ \A d \in Docs : jobs[d].att = "complete" => jobs[d].id \in files
    /\ \A w \in Workers : At(w, "attachments_received") => req[w].id \in files

\* A result logs phases and completions, never an assignment.
ResultEvents ==
    \A w \in Workers : \A e \in req[w].new : e.name # "assigned"

IInv == /\ TypeOK /\ Known /\ Owned /\ ArchivesStored /\ ResultEvents
        /\ ExclusiveDispatch /\ DispatchAllowed /\ AssignmentsAreReal

LEMMA InitIInv == ASSUME Init PROVE IInv
  <1>1. TypeOK
    BY InitTypeOK
  <1>2. Known /\ Owned /\ ArchivesStored /\ ResultEvents
    BY
       DEF Init, Known, Owned, ArchivesStored, ResultEvents, At, Dispatching, AbsentDoc, Idle,
           NoHeld
  <1>3. ExclusiveDispatch /\ DispatchAllowed
    BY JobStoreAssumption
    DEF Init, ExclusiveDispatch, DispatchAllowed, Dispatching, AbsentDoc, Idle, NoHeld
  <1>4. ASSUME NEW a \in Agents, NEW j \in JobIds
        PROVE  agentJob[a] # j /\ events[j][Ev("assigned", a)] = 0
    <2>1. Ev("assigned", a) \in Event
      BY EventTypes
    <2> QED BY <2>1, JobStoreAssumption DEF Init
  <1> QED BY <1>1, <1>2, <1>3, <1>4 DEF IInv, AssignmentsAreReal

(***************************************************************************)
(* What the steps do.                                                      *)
(***************************************************************************)

\* The document stays the same job of the same agent, and once it has left the
\* queue it does not come back.
SameJob(x, y) ==
    /\ y.id = x.id /\ y.queue = x.queue /\ y.exclude = x.exclude /\ y.agent = x.agent
    /\ y.prio = x.prio
    /\ \/ y.state = x.state
       \/ x.state # "absent" /\ y.state \notin {"absent", "waiting"}

\* x is a milder version of document d: the same job, with the same attachments.
Mild(d, x) == x \in Doc /\ SameJob(jobs[d], x) /\ x.att = jobs[d].att

MildStep == \/ UNCHANGED jobs
            \/ \E d \in Docs : \E x \in Doc : Mild(d, x) /\ jobs' = [jobs EXCEPT ![d] = x]

LEMMA MildSteps ==
    ASSUME TypeOK, MildStep
    PROVE  /\ jobs' \in [Docs -> Doc]
           /\ \A d \in Docs : SameJob(jobs[d], jobs'[d]) /\ jobs'[d].att = jobs[d].att
  <1>t. jobs \in [Docs -> Doc]
    BY DEF TypeOK
  <1>0. \A d \in Docs : Mild(d, jobs[d])
    BY <1>t DEF SameJob, Mild
  <1>1. \A d \in Docs : Mild(d, jobs'[d])
    <2>1. CASE UNCHANGED jobs
      BY <1>0, <2>1
    <2>2. CASE \E d \in Docs : \E x \in Doc : Mild(d, x) /\ jobs' = [jobs EXCEPT ![d] = x]
      <3>1. PICK d \in Docs, x \in Doc : Mild(d, x) /\ jobs' = [jobs EXCEPT ![d] = x]
        BY <2>2
      <3>2. ASSUME NEW e \in Docs PROVE Mild(e, jobs'[e])
        <4>1. jobs'[e] = IF e = d THEN x ELSE jobs[e]
          BY <1>t, <3>1
        <4> QED BY <1>0, <3>1, <4>1
      <3> QED BY <3>2
    <2> QED BY <2>1, <2>2 DEF MildStep
  <1>2. jobs' \in [Docs -> Doc]
    <2>1. CASE UNCHANGED jobs
      BY <1>t, <2>1
    <2>2. CASE \E d \in Docs : \E x \in Doc : jobs' = [jobs EXCEPT ![d] = x]
      BY <1>t, <2>2
    <2> QED BY <2>1, <2>2 DEF MildStep
  <1> QED BY <1>1, <1>2 DEF Mild

LEMMA MarkStartedMild == ASSUME TypeOK, NEW w \in Workers, MarkStarted(w) PROVE MildStep
  <1>t. jobs \in [Docs -> Doc]
    BY DEF TypeOK
  <1>1. CASE UNCHANGED jobs
    BY <1>1 DEF MildStep
  <1>2. CASE ~ UNCHANGED jobs
    <2>1. PICK d \in WithId(req[w].id) :
              jobs' = [jobs EXCEPT ![d] = [jobs[d] EXCEPT !.started = TRUE]]
      BY <1>2, <1>t DEF MarkStarted, UpdateFirst, IsFirst, WithId
    <2>2. d \in Docs /\ jobs[d] \in Doc
      BY <1>t DEF WithId
    <2> DEFINE x == [jobs[d] EXCEPT !.started = TRUE]
    <2>3. x \in Doc
      BY <2>2, DocTypes
    <2>4. SameJob(jobs[d], x) /\ x.att = jobs[d].att
      BY <2>2 DEF SameJob, Doc
    <2>5. Mild(d, x) /\ jobs' = [jobs EXCEPT ![d] = x]
      BY <2>1, <2>3, <2>4 DEF Mild
    <2> QED BY <2>2, <2>3, <2>5 DEF MildStep
  <1> QED BY <1>1, <1>2

LEMMA UpdateResultsMild == ASSUME TypeOK, NEW w \in Workers, UpdateResults(w) PROVE MildStep
  <1>t. jobs \in [Docs -> Doc] /\ req[w] \in Request
    BY DEF TypeOK
  <1>1. CASE UNCHANGED jobs
    BY <1>1 DEF MildStep
  <1>2. CASE ~ UNCHANGED jobs
    <2>1. PICK d \in WithId(req[w].id) :
              jobs' = [jobs EXCEPT ![d] = WithResult(jobs[d], req[w])]
      BY <1>2, <1>t DEF UpdateResults, UpdateAndGo, IsFirst, WithId
    <2>2. d \in Docs /\ jobs[d] \in Doc /\ jobs[d].state \in JobStates
      BY <1>t DEF WithId, Stored
    <2> DEFINE x == WithResult(jobs[d], req[w])
    <2>3. x \in Doc
      BY <1>t, <2>2, WithResultType
    <2>4. req[w].state \in ResultStates \cup {None}
      BY <1>t DEF Request
    <2>5. /\ x.id = jobs[d].id /\ x.queue = jobs[d].queue /\ x.att = jobs[d].att
          /\ x.exclude = jobs[d].exclude /\ x.agent = jobs[d].agent /\ x.prio = jobs[d].prio
      BY <1>t, <2>2, WithResultFields
    <2>6. x.state = IF req[w].state = None THEN jobs[d].state ELSE req[w].state
      BY <1>t, <2>2, WithResultFields
    <2>7. SameJob(jobs[d], x)
      BY <2>2, <2>4, <2>5, <2>6, JobStoreAssumption DEF SameJob, ResultStates, JobStates
    <2>8. Mild(d, x) /\ jobs' = [jobs EXCEPT ![d] = x]
      BY <2>1, <2>3, <2>5, <2>7 DEF Mild
    <2> QED BY <2>2, <2>3, <2>8 DEF MildStep
  <1> QED BY <1>1, <1>2

LEMMA CancelJobMild ==
    ASSUME TypeOK, NEW w \in Workers, NEW j \in JobIds, CancelJob(w, j) PROVE MildStep
  <1>t. jobs \in [Docs -> Doc]
    BY DEF TypeOK
  <1>1. CASE UNCHANGED jobs
    BY <1>1 DEF MildStep
  <1>2. CASE ~ UNCHANGED jobs
    <2>1. PICK d \in Cancellable(j) :
              jobs' = [jobs EXCEPT ![d] = [jobs[d] EXCEPT !.state = "cancelled"]]
      BY <1>2, <1>t DEF CancelJob, UpdateFirst, IsFirst
    <2>2. d \in Docs /\ jobs[d] \in Doc /\ jobs[d].state \in JobStates
      BY <1>t DEF Cancellable, WithId, Stored
    <2> DEFINE x == [jobs[d] EXCEPT !.state = "cancelled"]
    <2>3. x \in Doc
      BY <2>2, DocTypes
    <2>4. SameJob(jobs[d], x) /\ x.att = jobs[d].att
      BY <2>2, JobStoreAssumption DEF SameJob, Doc, JobStates, ResultStates
    <2>5. Mild(d, x) /\ jobs' = [jobs EXCEPT ![d] = x]
      BY <2>1, <2>3, <2>4 DEF Mild
    <2> QED BY <2>2, <2>3, <2>5 DEF MildStep
  <1> QED BY <1>1, <1>2

LEMMA ExpireMild == ASSUME TypeOK, NEW d \in Docs, Expire(d) PROVE MildStep
  <1>t. jobs[d] \in Doc /\ jobs[d].state \in JobStates
    BY DEF TypeOK, Expire, Stored
  <1> DEFINE x == [jobs[d] EXCEPT !.state = "expired"]
  <1>1. x \in Doc
    BY <1>t, DocTypes
  <1>2. SameJob(jobs[d], x) /\ x.att = jobs[d].att
    BY <1>t, JobStoreAssumption DEF SameJob, Doc, JobStates, ResultStates
  <1>3. jobs' = [jobs EXCEPT ![d] = x]
    BY DEF Expire
  <1>4. Mild(d, x) /\ jobs' = [jobs EXCEPT ![d] = x]
    BY <1>1, <1>2, <1>3 DEF Mild
  <1> QED BY <1>1, <1>4 DEF MildStep

(***************************************************************************)
(* Calm steps: all but AddJob, PopJob and ReplyJob.  Nobody is given a job *)
(* by them, and the invariant is preserved for one reason.                 *)
(***************************************************************************)
DispatchPoints == {"started_at", "log_assigned", "set_agent_job", "reply"}

Real(a, j) == \E d \in Docs : jobs[d].id = j /\ jobs[d].agent = a

CalmJobs ==
    /\ jobs' \in [Docs -> Doc]
    /\ \A d \in Docs :
          /\ SameJob(jobs[d], jobs'[d])
          /\ \/ jobs'[d].att = jobs[d].att
             \/ jobs'[d].att = "complete" /\ jobs[d].id \in files

CalmFiles == files \subseteq files' /\ files' \subseteq JobIds

CalmRecords ==
    /\ agentJob' \in [Agents -> JobIds \cup {None}]
    /\ events' \in [JobIds -> [Event -> Nat]]
    /\ \A a \in Agents, j \in JobIds :
          agentJob'[a] = j \/ events'[j][Ev("assigned", a)] > 0 => Real(a, j)

CalmRequests ==
    /\ req' \in [Workers -> Request]
    /\ \A w \in Workers :
          /\ req'[w].at # "idle" => req'[w].id \in JobIds
          /\ req'[w].at = "attachments_received" => req'[w].id \in files'
          /\ \A e \in req'[w].new : e.name # "assigned"
          /\ req'[w].at \in DispatchPoints =>
                /\ req[w].at \in DispatchPoints /\ req'[w].doc = req[w].doc
                /\ req'[w].agent = req[w].agent /\ req'[w].id = req[w].id

CalmHeld ==
    /\ held' \in [Agents -> Held]
    /\ \A a \in Agents : held'[a].doc \in {held[a].doc, None}

Calm == CalmJobs /\ CalmFiles /\ CalmRecords /\ CalmRequests /\ CalmHeld

LEMMA CalmPreserves == ASSUME IInv, Calm PROVE IInv'
  <1> USE DEF IInv
  <1>1. TypeOK'
    BY DEF TypeOK, Calm, CalmJobs, CalmFiles, CalmRecords, CalmRequests, CalmHeld
  <1>d. ASSUME NEW d \in Docs
        PROVE  /\ SameJob(jobs[d], jobs'[d])
               /\ jobs'[d].id = jobs[d].id /\ jobs'[d].agent = jobs[d].agent
               /\ jobs'[d].queue = jobs[d].queue /\ jobs'[d].exclude = jobs[d].exclude
               /\ \/ jobs'[d].att = jobs[d].att
                  \/ jobs'[d].att = "complete" /\ jobs[d].id \in files
    BY DEF Calm, CalmJobs, SameJob
  <1>h. ASSUME NEW a \in Agents, held'[a].doc # None
        PROVE  held'[a].doc = held[a].doc /\ held[a].doc \in Docs
    BY <1>h DEF Calm, CalmHeld, TypeOK, Held
  <1>r. ASSUME NEW w \in Workers, Dispatching(w)'
        PROVE  /\ Dispatching(w) /\ req'[w].doc = req[w].doc
               /\ req'[w].agent = req[w].agent /\ req'[w].id = req[w].id
    BY <1>r DEF Calm, CalmRequests, Dispatching, DispatchPoints
  <1>2. Known'
    <2>1. ASSUME NEW d \in Docs, jobs'[d].state # "absent" PROVE jobs'[d].id \in JobIds
      BY <1>d, <2>1 DEF Known, SameJob
    <2>2. ASSUME NEW w \in Workers, ~At(w, "idle")' PROVE req'[w].id \in JobIds
      BY <2>2 DEF Calm, CalmRequests, At
    <2>3. ASSUME NEW a \in Agents, held'[a].doc # None PROVE jobs'[held'[a].doc].id \in JobIds
      BY <1>d, <1>h, <2>3 DEF Known
    <2> QED BY <2>1, <2>2, <2>3 DEF Known
  <1>3. Owned'
    <2>1. ASSUME NEW d \in Docs, jobs'[d].state \in {"absent", "waiting"}
          PROVE  jobs'[d].agent = None
      BY <1>d, <2>1 DEF Owned, SameJob
    <2>2. ASSUME NEW w \in Workers, Dispatching(w)'
          PROVE  /\ req'[w].doc \in Docs /\ req'[w].agent \in Agents
                 /\ jobs'[req'[w].doc].agent = req'[w].agent
                 /\ jobs'[req'[w].doc].id = req'[w].id
      BY <1>d, <1>r, <2>2 DEF Owned
    <2>3. ASSUME NEW a \in Agents, held'[a].doc # None PROVE jobs'[held'[a].doc].agent = a
      BY <1>d, <1>h, <2>3 DEF Owned
    <2> QED BY <2>1, <2>2, <2>3 DEF Owned
  <1>4. ArchivesStored'
    <2>1. ASSUME NEW d \in Docs, jobs'[d].att = "complete" PROVE jobs'[d].id \in files'
      BY <1>d, <2>1 DEF ArchivesStored, Calm, CalmFiles
    <2>2. ASSUME NEW w \in Workers, At(w, "attachments_received")' PROVE req'[w].id \in files'
      BY <2>2 DEF Calm, CalmRequests, At
    <2> QED BY <2>1, <2>2 DEF ArchivesStored
  <1>8. ResultEvents'
    BY DEF ResultEvents, Calm, CalmRequests
  <1>5. ExclusiveDispatch'
    <2>1. ASSUME NEW d \in Docs, NEW a \in Agents, NEW b \in Agents,
                 held'[a].doc = d, held'[b].doc = d
          PROVE  a = b
      BY <1>h, <2>1, JobStoreAssumption DEF ExclusiveDispatch
    <2>2. ASSUME NEW d \in Docs, NEW v \in Workers, NEW w \in Workers,
                 Dispatching(v)', Dispatching(w)', req'[v].doc = d, req'[w].doc = d
          PROVE  v = w
      BY <1>r, <2>2 DEF ExclusiveDispatch
    <2>3. ASSUME NEW d \in Docs, NEW w \in Workers, NEW a \in Agents,
                 Dispatching(w)', req'[w].doc = d
          PROVE  held'[a].doc # d
      BY <1>r, <1>h, <2>3, JobStoreAssumption DEF ExclusiveDispatch
    <2> QED BY <2>1, <2>2, <2>3 DEF ExclusiveDispatch
  <1>6. DispatchAllowed'
    <2> SUFFICES ASSUME NEW d \in Docs, jobs'[d].agent # None
                 PROVE  /\ jobs'[d].queue \in Serves[jobs'[d].agent]
                        /\ jobs'[d].agent \notin jobs'[d].exclude
                        /\ jobs'[d].att \in {"none", "complete"}
                        /\ jobs'[d].att = "complete" => jobs'[d].id \in files'
      BY DEF DispatchAllowed
    <2> QED BY <1>d DEF DispatchAllowed, Calm, CalmFiles
  <1>7. AssignmentsAreReal'
    <2> SUFFICES ASSUME NEW a \in Agents, NEW j \in JobIds,
                        agentJob'[a] = j \/ events'[j][Ev("assigned", a)] > 0
                 PROVE  \E d \in Docs : jobs'[d].id = j /\ jobs'[d].agent = a
      BY DEF AssignmentsAreReal, Ev
    <2>1. PICK d \in Docs : jobs[d].id = j /\ jobs[d].agent = a
      BY DEF Calm, CalmRecords, Real
    <2> QED BY <1>d, <2>1
  <1> QED BY <1>1, <1>2, <1>3, <1>4, <1>5, <1>6, <1>7, <1>8

(***************************************************************************)
(* The parts of the calm steps.                                            *)
(***************************************************************************)
LEMMA StillJobs == ASSUME TypeOK, UNCHANGED jobs PROVE CalmJobs
  BY DEF TypeOK, CalmJobs, SameJob

LEMMA MildJobs == ASSUME TypeOK, MildStep PROVE CalmJobs
  BY MildSteps DEF CalmJobs

LEMMA StillFiles == ASSUME TypeOK, UNCHANGED files PROVE CalmFiles
  BY DEF TypeOK, CalmFiles

LEMMA StillHeld == ASSUME TypeOK, UNCHANGED held PROVE CalmHeld
  BY DEF TypeOK, CalmHeld

LEMMA StillRecords == ASSUME IInv, UNCHANGED <<agentJob, events>> PROVE CalmRecords
  BY DEF IInv, TypeOK, CalmRecords, AssignmentsAreReal, Real

LEMMA ClearedRecords ==
    ASSUME IInv, NEW j \in JobIds, ClearAgentJob(j), UNCHANGED events PROVE CalmRecords
  <1>1. agentJob' \in [Agents -> JobIds \cup {None}]
    BY ClearAgentJobType DEF IInv
  <1>2. \A a \in Agents : agentJob'[a] \in {agentJob[a], None}
    BY DEF IInv, TypeOK, ClearAgentJob
  <1>3. None \notin JobIds
    BY JobStoreAssumption
  <1> QED BY <1>1, <1>2, <1>3 DEF IInv, TypeOK, CalmRecords, AssignmentsAreReal, Real

LEMMA LoggedRecords ==
    ASSUME IInv, NEW j \in JobIds, NEW e \in Event, e.name # "assigned",
           AddEvent(j, e), UNCHANGED agentJob
    PROVE  CalmRecords
  <1>1. events' \in [JobIds -> [Event -> Nat]]
    BY AddEventType DEF IInv
  <1>2. ASSUME NEW k \in JobIds, NEW a \in Agents
        PROVE  events'[k][Ev("assigned", a)] = events[k][Ev("assigned", a)]
    <2>1. Ev("assigned", a) \in Event /\ Ev("assigned", a) # e
      BY EventTypes DEF Ev
    <2> QED BY <2>1 DEF IInv, TypeOK, AddEvent
  <1> QED BY <1>1, <1>2 DEF IInv, TypeOK, CalmRecords, AssignmentsAreReal, Real

\* A handler goes on, starts or ends, and dispatches nothing new.
LEMMA CalmStepRequests ==
    ASSUME IInv, CalmFiles, NEW w \in Workers, NEW r \in Request,
           req' = [req EXCEPT ![w] = r],
           r.at # "idle" => r.id \in JobIds,
           r.at = "attachments_received" => r.id \in files',
           \A e \in r.new : e.name # "assigned",
           r.at \in DispatchPoints =>
                /\ req[w].at \in DispatchPoints /\ r.doc = req[w].doc
                /\ r.agent = req[w].agent /\ r.id = req[w].id
    PROVE  CalmRequests
  <1>1. req \in [Workers -> Request]
    BY DEF IInv, TypeOK
  <1>2. req' \in [Workers -> Request]
    BY <1>1
  <1>3. \A v \in Workers \ {w} : req'[v] = req[v]
    BY <1>1
  <1>4. req'[w] = r
    BY <1>1
  <1>5. \A v \in Workers :
           /\ req[v].at # "idle" => req[v].id \in JobIds
           /\ req[v].at = "attachments_received" => req[v].id \in files'
           /\ \A e \in req[v].new : e.name # "assigned"
    BY DEF IInv, Known, ArchivesStored, ResultEvents, At, CalmFiles
  <1> QED BY <1>2, <1>3, <1>4, <1>5 DEF CalmRequests

LEMMA StillRequests == ASSUME IInv, CalmFiles, UNCHANGED req PROVE CalmRequests
  BY DEF IInv, TypeOK, CalmRequests, CalmFiles, Known, ArchivesStored, ResultEvents, At

LEMMA GotoCalm ==
    ASSUME IInv, CalmFiles, NEW w \in Workers, NEW p \in Points, Goto(w, p),
           ~At(w, "idle"),
           p = "attachments_received" => req[w].id \in files',
           p \in DispatchPoints => req[w].at \in DispatchPoints
    PROVE  CalmRequests
  <1> DEFINE r == [req[w] EXCEPT !.at = p]
  <1>1. req[w] \in Request /\ req[w].id \in JobIds
    BY DEF IInv, TypeOK, Known
  <1>2. r \in Request
    BY <1>1, RequestTypes
  <1>3. /\ r.at = p /\ r.id = req[w].id /\ r.doc = req[w].doc /\ r.agent = req[w].agent
        /\ \A e \in r.new : e.name # "assigned"
    BY <1>1 DEF Request, IInv, ResultEvents
  <1>4. req' = [req EXCEPT ![w] = r]
    BY DEF Goto
  <1> HIDE DEF r
  <1> QED BY <1>1, <1>2, <1>3, <1>4, CalmStepRequests

LEMMA ReturnCalm ==
    ASSUME IInv, CalmFiles, NEW w \in Workers, Return(w) PROVE CalmRequests
  <1>1. Idle \in Request /\ Idle.at = "idle" /\ Idle.new = {}
    BY RequestTypes DEF Idle
  <1> QED BY <1>1, CalmStepRequests DEF Return, DispatchPoints

(***************************************************************************)
(* The calm actions.                                                       *)
(***************************************************************************)
LEMMA UserCalm ==
    ASSUME IInv, NEW w \in Workers, NEW j \in JobIds,
           GetAttachmentsStatus(w, j) \/ CancelJob(w, j)
    PROVE  Calm
  <1>1. CASE GetAttachmentsStatus(w, j)
    <2>1. PICK d \in Docs :
              Start(w, [Idle EXCEPT !.at = "save_file", !.id = j, !.doc = d])
      BY <1>1 DEF GetAttachmentsStatus
    <2> DEFINE r == [Idle EXCEPT !.at = "save_file", !.id = j, !.doc = d]
    <2>2. r \in Request /\ r.at = "save_file" /\ r.id = j /\ r.new = {}
      BY RequestTypes DEF Idle
    <2>3. req' = [req EXCEPT ![w] = r]
      BY <2>1 DEF Start
    <2>4. CalmJobs /\ CalmFiles /\ CalmRecords /\ CalmHeld
      BY <1>1, StillJobs, StillFiles, StillRecords, StillHeld DEF GetAttachmentsStatus, IInv
    <2> HIDE DEF r
    <2> QED BY <2>2, <2>3, <2>4, CalmStepRequests DEF Calm, DispatchPoints
  <1>2. CASE CancelJob(w, j)
    <2> DEFINE r == [Idle EXCEPT !.at = "clear_cancel", !.id = j,
                                 !.hit = Cancellable(j) # {}]
    <2>1. (Cancellable(j) # {}) \in BOOLEAN
      OBVIOUS
    <2>2. r \in Request /\ r.at = "clear_cancel" /\ r.id = j /\ r.new = {}
      BY <2>1, RequestTypes DEF Idle
    <2>3. req' = [req EXCEPT ![w] = r]
      BY <1>2 DEF CancelJob, Start
    <2>4. CalmJobs
      BY <1>2, CancelJobMild, MildJobs DEF IInv
    <2>5. CalmFiles /\ CalmRecords /\ CalmHeld
      BY <1>2, StillFiles, StillRecords, StillHeld DEF CancelJob, IInv
    <2> HIDE DEF r
    <2> QED BY <2>2, <2>3, <2>4, <2>5, CalmStepRequests DEF Calm, DispatchPoints
  <1> QED BY <1>1, <1>2

LEMMA PostResultCalm ==
    ASSUME IInv, NEW w \in Workers, NEW a \in Agents, held[a].doc # None,
           NEW s \in ResultStates \cup {None}, NEW P \in SUBSET Phases,
           PostResult(w, a, s, P)
    PROVE  CalmJobs /\ CalmFiles /\ CalmRecords /\ CalmRequests
  <1> DEFINE j == jobs[held[a].doc].id
             r == [Idle EXCEPT !.at = "update_results", !.doc = held[a].doc, !.id = j,
                               !.agent = a, !.state = s, !.done = P]
  <1>1. held[a].doc \in Docs /\ j \in JobIds
    BY DEF IInv, TypeOK, Held, Known
  <1>2. r \in Request
    BY <1>1, RequestTypes
  <1>3. r.at = "update_results" /\ r.id = j /\ r.new = {}
    BY DEF Idle
  <1>4. req' = [req EXCEPT ![w] = r]
    BY DEF PostResult, Start
  <1>5. CalmJobs /\ CalmFiles /\ CalmRecords
    BY StillJobs, StillFiles, StillRecords DEF PostResult, IInv
  <1> HIDE DEF r, j
  <1> QED BY <1>1, <1>2, <1>3, <1>4, <1>5, CalmStepRequests DEF DispatchPoints

LEMMA AgentCalm ==
    ASSUME IInv, NEW w \in Workers, NEW a \in Agents,
           \/ \E s \in Phases \cup {"allocated"} : Announce(w, a, s)
           \/ \E p \in Phases : ReportPhase(w, a, p)
           \/ ReportOutcome(w, a)
    PROVE  Calm
  <1>t. held[a] \in Held /\ held \in [Agents -> Held]
    BY DEF IInv, TypeOK
  <1>0. ASSUME NEW h \in Held, h.doc = held[a].doc, held' = [held EXCEPT ![a] = h]
        PROVE  CalmHeld
    <2>1. \A b \in Agents : held'[b] = IF b = a THEN h ELSE held[b]
      BY <1>t, <1>0
    <2> QED BY <1>t, <1>0, <2>1 DEF CalmHeld
  <1>1. ASSUME NEW s \in Phases \cup {"allocated"}, Announce(w, a, s) PROVE Calm
    <2> DEFINE h == [held[a] EXCEPT !.said = @ \cup {s}]
    <2>1. h \in Held /\ h.doc = held[a].doc
      BY <1>t, HeldTypes DEF Held
    <2>2. held' = [held EXCEPT ![a] = h]
      BY <1>1 DEF Announce
    <2>3. s \in ResultStates \cup {None} /\ {} \in SUBSET Phases
      BY DEF ResultStates
    <2>4. held[a].doc # None /\ PostResult(w, a, s, {})
      BY <1>1 DEF Announce, Working
    <2> HIDE DEF h
    <2>5. CalmHeld
      BY <1>0, <2>1, <2>2
    <2> QED BY <2>3, <2>4, <2>5, PostResultCalm DEF Calm
  <1>2. ASSUME NEW p \in Phases, ReportPhase(w, a, p) PROVE Calm
    <2> DEFINE h == [held[a] EXCEPT !.done = @ \cup {p}]
    <2>1. h \in Held /\ h.doc = held[a].doc
      BY <1>t, HeldTypes DEF Held
    <2>2. held' = [held EXCEPT ![a] = h]
      BY <1>2 DEF ReportPhase
    <2>3. None \in ResultStates \cup {None} /\ held[a].done \cup {p} \in SUBSET Phases
      BY <1>t DEF Held
    <2>4. held[a].doc # None /\ PostResult(w, a, None, held[a].done \cup {p})
      BY <1>2 DEF ReportPhase, Working
    <2> HIDE DEF h
    <2>5. CalmHeld
      BY <1>0, <2>1, <2>2
    <2> QED BY <2>3, <2>4, <2>5, PostResultCalm DEF Calm
  <1>3. CASE ReportOutcome(w, a)
    <2> DEFINE h == [held[a] EXCEPT !.over = TRUE]
    <2>1. h \in Held /\ h.doc = held[a].doc
      BY <1>t, HeldTypes DEF Held
    <2>2. held' = [held EXCEPT ![a] = h]
      BY <1>3 DEF ReportOutcome
    <2>3. "complete" \in ResultStates \cup {None} /\ held[a].done \in SUBSET Phases
      BY <1>t DEF Held, ResultStates
    <2>4. held[a].doc # None /\ PostResult(w, a, "complete", held[a].done)
      BY <1>3 DEF ReportOutcome
    <2> HIDE DEF h
    <2>5. CalmHeld
      BY <1>0, <2>1, <2>2
    <2> QED BY <2>3, <2>4, <2>5, PostResultCalm DEF Calm
  <1> QED BY <1>1, <1>2, <1>3

LEMMA DispatchCalm ==
    ASSUME IInv, NEW w \in Workers,
           MarkStarted(w) \/ LogAssigned(w) \/ SetAgentJob(w) \/ ReplyLost(w)
    PROVE  Calm
  <1>1. CASE MarkStarted(w)
    <2>1. CalmJobs
      BY <1>1, MarkStartedMild, MildJobs DEF IInv
    <2>2. CalmFiles /\ CalmRecords /\ CalmHeld
      BY <1>1, StillFiles, StillRecords, StillHeld DEF MarkStarted, IInv
    <2>3. CalmRequests
      BY <1>1, <2>2, GotoCalm DEF MarkStarted, At, Points, DispatchPoints
    <2> QED BY <2>1, <2>2, <2>3 DEF Calm
  <1>2. ASSUME At(w, "log_assigned") \/ At(w, "set_agent_job")
        PROVE  req[w].agent \in Agents /\ req[w].id \in JobIds /\ Real(req[w].agent, req[w].id)
    BY <1>2 DEF IInv, Known, Owned, Dispatching, At, Real
  <1>3. CASE LogAssigned(w)
    <2>1. CalmJobs /\ CalmFiles /\ CalmHeld
      BY <1>3, StillJobs, StillFiles, StillHeld DEF LogAssigned, IInv
    <2>2. CalmRequests
      BY <1>3, <2>1, GotoCalm DEF LogAssigned, At, Points, DispatchPoints
    <2> DEFINE j == req[w].id
               a == req[w].agent
               e == Ev("assigned", a)
    <2>3. a \in Agents /\ j \in JobIds /\ Real(a, j) /\ e \in Event
      BY <1>2, <1>3, EventTypes DEF LogAssigned
    <2>4. events' \in [JobIds -> [Event -> Nat]]
      BY <1>3, <2>3, AddEventType DEF LogAssigned, IInv
    <2>5. ASSUME NEW b \in Agents, NEW k \in JobIds, ~(b = a /\ k = j)
          PROVE  events'[k][Ev("assigned", b)] = events[k][Ev("assigned", b)]
      <3>1. Ev("assigned", b) \in Event /\ (b # a => Ev("assigned", b) # e)
        BY EventTypes DEF Ev
      <3>2. events \in [JobIds -> [Event -> Nat]]
        BY DEF IInv, TypeOK
      <3>3. events' = [events EXCEPT ![j][e] = @ + 1]
        BY <1>3 DEF LogAssigned, AddEvent
      <3> HIDE DEF e, j, a
      <3> QED BY <2>3, <2>5, <3>1, <3>2, <3>3
    <2>6. ASSUME NEW b \in Agents, NEW k \in JobIds,
                 agentJob[b] = k \/ events[k][Ev("assigned", b)] > 0
          PROVE  Real(b, k)
      BY <2>6 DEF IInv, AssignmentsAreReal, Real
    <2>7. UNCHANGED agentJob
      BY <1>3 DEF LogAssigned
    <2>8. agentJob' \in [Agents -> JobIds \cup {None}]
      BY <2>7 DEF IInv, TypeOK
    <2> HIDE DEF e, j, a
    <2>9. CalmRecords
      BY <2>3, <2>4, <2>5, <2>6, <2>7, <2>8 DEF CalmRecords
    <2> QED BY <2>1, <2>2, <2>9 DEF Calm
  <1>4. CASE SetAgentJob(w)
    <2>1. CalmJobs /\ CalmFiles /\ CalmHeld
      BY <1>4, StillJobs, StillFiles, StillHeld DEF SetAgentJob, IInv
    <2>2. CalmRequests
      BY <1>4, <2>1, GotoCalm DEF SetAgentJob, At, Points, DispatchPoints
    <2>3. req[w].agent \in Agents /\ req[w].id \in JobIds /\ Real(req[w].agent, req[w].id)
      BY <1>2, <1>4 DEF SetAgentJob
    <2>4. CalmRecords
      BY <1>4, <2>3 DEF SetAgentJob, IInv, TypeOK, CalmRecords, AssignmentsAreReal, Real
    <2> QED BY <2>1, <2>2, <2>4 DEF Calm
  <1>5. CASE ReplyLost(w)
    BY <1>5, StillJobs, StillFiles, StillRecords, StillHeld, ReturnCalm
    DEF ReplyLost, IInv, Calm
  <1> QED BY <1>1, <1>3, <1>4, <1>5

LEMMA AttachmentsCalm ==
    ASSUME IInv, NEW w \in Workers, SaveFile(w) \/ AttachmentsReceived(w) PROVE Calm
  <1>1. CASE SaveFile(w)
    <2>1. req[w].id \in JobIds
      BY <1>1 DEF SaveFile, IInv, Known, At
    <2>2. CalmJobs /\ CalmRecords /\ CalmHeld
      BY <1>1, StillJobs, StillRecords, StillHeld DEF SaveFile, IInv
    <2>3. CalmFiles /\ req[w].id \in files'
      BY <1>1, <2>1 DEF SaveFile, CalmFiles, IInv, TypeOK
    <2>4. CalmRequests
      BY <1>1, <2>3, GotoCalm DEF SaveFile, At, Points, DispatchPoints
    <2> QED BY <2>2, <2>3, <2>4 DEF Calm
  <1>2. CASE AttachmentsReceived(w)
    <2>1. CalmFiles /\ CalmRecords /\ CalmHeld
      BY <1>2, StillFiles, StillRecords, StillHeld DEF AttachmentsReceived, IInv
    <2>2. CalmRequests
      BY <1>2, <2>1, ReturnCalm DEF AttachmentsReceived
    <2>3. CalmJobs
      <3>1. CASE UNCHANGED jobs
        BY <3>1, StillJobs DEF IInv
      <3>2. CASE ~ UNCHANGED jobs
        <4>t. jobs \in [Docs -> Doc]
          BY DEF IInv, TypeOK
        <4> DEFINE S == {d \in WithId(req[w].id) : jobs[d].att = "waiting"}
        <4>0. \E d \in S : jobs' = [jobs EXCEPT ![d] = [jobs[d] EXCEPT !.att = "complete"]]
          BY <1>2, <3>2, <4>t DEF AttachmentsReceived, UpdateFirst, IsFirst, WithId
        <4>1. PICK d \in Docs : /\ d \in WithId(req[w].id) /\ jobs[d] \in Doc
                                /\ jobs' = [jobs EXCEPT ![d] = [jobs[d] EXCEPT !.att = "complete"]]
          BY <4>0, <4>t DEF WithId
        <4>2. jobs[d].id = req[w].id /\ req[w].id \in files
          BY <1>2, <4>1 DEF AttachmentsReceived, WithId, IInv, ArchivesStored
        <4> DEFINE x == [jobs[d] EXCEPT !.att = "complete"]
        <4>d. jobs[d] \in Doc
          BY <4>1
        <4>a. SameJob(jobs[d], x) /\ x.att = "complete"
          BY <4>d DEF SameJob, Doc
        <4>3. x \in Doc /\ SameJob(jobs[d], x) /\ x.att = "complete"
          BY <4>a, <4>d, DocTypes
        <4>4. jobs' = [jobs EXCEPT ![d] = x]
          BY <4>1
        <4> HIDE DEF x
        <4>5. \A e \in Docs : jobs'[e] = IF e = d THEN x ELSE jobs[e]
          BY <4>t, <4>4
        <4>6. jobs' \in [Docs -> Doc]
          BY <4>t, <4>3, <4>4
        <4> QED BY <4>2, <4>3, <4>5, <4>6 DEF CalmJobs, SameJob
      <3> QED BY <3>1, <3>2
    <2> QED BY <2>1, <2>2, <2>3 DEF Calm
  <1> QED BY <1>1, <1>2

LEMMA ResultCalm ==
    ASSUME IInv, NEW w \in Workers,
           \/ UpdateResults(w) \/ ClearAfterResult(w) \/ LogResult(w) \/ ReturnResult(w)
           \/ ClearAfterCancel(w) \/ LogCancelled(w) \/ LogSubmitted(w) \/ HandlerDies(w)
    PROVE  Calm
  <1>t. TypeOK /\ jobs \in [Docs -> Doc] /\ req[w] \in Request
    BY DEF IInv, TypeOK
  <1>k. ~At(w, "idle") => req[w].id \in JobIds
    BY DEF IInv, Known
  <1>1. CASE UpdateResults(w)
    <2>1. CalmJobs
      BY <1>1, <1>t, UpdateResultsMild, MildJobs
    <2>2. CalmFiles /\ CalmRecords /\ CalmHeld
      BY <1>1, <1>t, StillFiles, StillRecords, StillHeld DEF UpdateResults, UpdateAndGo
    <2>3. PICK p \in {"clear_result", "log_result"}, doc \in Doc :
              req' = [req EXCEPT ![w].at = p, ![w].new = NewResultEvents(doc, req[w])]
      BY <1>1, <1>t, DocTypes DEF UpdateResults, UpdateAndGo
    <2> DEFINE r == [req[w] EXCEPT !.at = p, !.new = NewResultEvents(doc, req[w])]
    <2>4. NewResultEvents(doc, req[w]) \in SUBSET Event /\ p \in Points
      BY <1>t, NewResultEventTypes DEF Points
    <2>5. r \in Request
      BY <1>t, <2>4, RequestTypes
    <2>6. /\ r.at = p /\ r.id = req[w].id
          /\ \A e \in r.new : e.name # "assigned"
      BY <1>t DEF Request, NewResultEvents, PhaseCompletedEvents, LifecycleEvents, Ev
    <2>7. req' = [req EXCEPT ![w] = r]
      BY <2>3
    <2>8. r.id \in JobIds
      BY <1>1, <1>k, <2>6 DEF UpdateResults, UpdateAndGo, At
    <2> HIDE DEF r
    <2>9. CalmRequests
      BY <2>2, <2>5, <2>6, <2>7, <2>8, CalmStepRequests DEF DispatchPoints
    <2> QED BY <2>1, <2>2, <2>9 DEF Calm
  <1>2. CASE ClearAfterResult(w)
    <2>1. CalmJobs /\ CalmFiles /\ CalmHeld
      BY <1>2, <1>t, StillJobs, StillFiles, StillHeld DEF ClearAfterResult
    <2>2. CalmRecords
      BY <1>2, <1>k, ClearedRecords DEF ClearAfterResult, At
    <2>3. CalmRequests
      BY <1>2, <2>1, GotoCalm DEF ClearAfterResult, At, Points, DispatchPoints
    <2> QED BY <2>1, <2>2, <2>3 DEF Calm
  <1>3. CASE LogResult(w)
    <2>1. CalmJobs /\ CalmFiles /\ CalmHeld
      BY <1>3, <1>t, StillJobs, StillFiles, StillHeld DEF LogResult
    <2>2. PICK e \in req[w].new : /\ AddEvent(req[w].id, e)
                                  /\ req' = [req EXCEPT ![w].new = @ \ {e}]
      BY <1>3 DEF LogResult
    <2> DEFINE r == [req[w] EXCEPT !.new = req[w].new \ {e}]
    <2>3. req[w].new \in SUBSET Event
      BY <1>t DEF Request
    <2>4. r \in Request
      BY <1>t, <2>3, RequestTypes
    <2>5. /\ r.at = "log_result" /\ r.id = req[w].id /\ r.id \in JobIds
          /\ \A f \in r.new : f.name # "assigned"
      BY <1>3, <1>k, <1>t DEF LogResult, At, Request, IInv, ResultEvents
    <2>6. req' = [req EXCEPT ![w] = r]
      BY <2>2
    <2> HIDE DEF r
    <2>7. CalmRequests
      BY <2>1, <2>4, <2>5, <2>6, CalmStepRequests DEF DispatchPoints
    <2>8. e.name # "assigned"
      BY DEF IInv, ResultEvents
    <2>9. CalmRecords
      BY <1>3, <2>2, <2>3, <2>5, <2>8, LoggedRecords DEF LogResult
    <2> QED BY <2>1, <2>7, <2>9 DEF Calm
  <1>4. CASE ReturnResult(w)
    BY <1>4, <1>t, StillJobs, StillFiles, StillRecords, StillHeld, ReturnCalm
    DEF ReturnResult, Calm
  <1>5. CASE ClearAfterCancel(w)
    <2>1. CalmJobs /\ CalmFiles /\ CalmHeld
      BY <1>5, <1>t, StillJobs, StillFiles, StillHeld DEF ClearAfterCancel
    <2>2. CalmRecords
      BY <1>5, <1>k, ClearedRecords DEF ClearAfterCancel, At
    <2>3. CASE Goto(w, "log_cancelled")
      BY <1>5, <2>1, <2>2, <2>3, GotoCalm DEF ClearAfterCancel, At, Points, DispatchPoints, Calm
    <2>4. CASE Return(w)
      BY <2>1, <2>2, <2>4, ReturnCalm DEF Calm
    <2> QED BY <1>5, <2>3, <2>4 DEF ClearAfterCancel
  <1>6. CASE LogCancelled(w)
    <2>1. CalmJobs /\ CalmFiles /\ CalmHeld
      BY <1>6, <1>t, StillJobs, StillFiles, StillHeld DEF LogCancelled
    <2>2. CalmRecords
      BY <1>6, <1>k, EventTypes, LoggedRecords DEF LogCancelled, At, Ev
    <2> QED BY <1>6, <2>1, <2>2, ReturnCalm DEF LogCancelled, Calm
  <1>7. CASE LogSubmitted(w)
    <2>1. CalmJobs /\ CalmFiles /\ CalmHeld
      BY <1>7, <1>t, StillJobs, StillFiles, StillHeld DEF LogSubmitted
    <2>2. CalmRecords
      BY <1>7, <1>k, EventTypes, LoggedRecords DEF LogSubmitted, At, Ev
    <2> QED BY <1>7, <2>1, <2>2, ReturnCalm DEF LogSubmitted, Calm
  <1>8. CASE HandlerDies(w)
    BY <1>8, <1>t, StillJobs, StillFiles, StillRecords, StillHeld, ReturnCalm
    DEF HandlerDies, Calm
  <1> QED BY <1>1, <1>2, <1>3, <1>4, <1>5, <1>6, <1>7, <1>8

LEMMA OtherCalm ==
    ASSUME IInv,
           \/ \E a \in Agents : AgentLetsGo(a)
           \/ \E d \in Docs : Expire(d)
           \/ UNCHANGED vars
    PROVE  Calm
  <1>t. TypeOK /\ held \in [Agents -> Held]
    BY DEF IInv, TypeOK
  <1>1. ASSUME NEW a \in Agents, AgentLetsGo(a) PROVE Calm
    <2>1. CalmJobs /\ CalmFiles /\ CalmRecords
      BY <1>1, <1>t, StillJobs, StillFiles, StillRecords DEF AgentLetsGo
    <2>2. CalmRequests
      BY <1>1, <2>1, StillRequests DEF AgentLetsGo
    <2>3. NoHeld \in Held /\ NoHeld.doc = None
      BY HeldTypes DEF NoHeld
    <2>4. CalmHeld
      BY <1>1, <1>t, <2>3 DEF AgentLetsGo, CalmHeld
    <2> QED BY <2>1, <2>2, <2>4 DEF Calm
  <1>2. ASSUME NEW d \in Docs, Expire(d) PROVE Calm
    <2>1. CalmJobs
      BY <1>2, <1>t, ExpireMild, MildJobs
    <2>2. CalmFiles /\ CalmRecords /\ CalmHeld
      BY <1>2, <1>t, StillFiles, StillRecords, StillHeld DEF Expire
    <2>3. CalmRequests
      BY <1>2, <2>2, StillRequests DEF Expire
    <2> QED BY <2>1, <2>2, <2>3 DEF Calm
  <1>3. CASE UNCHANGED vars
    BY <1>3, <1>t, StillJobs, StillFiles, StillRecords, StillHeld, StillRequests DEF vars, Calm
  <1> QED BY <1>1, <1>2, <1>3

(***************************************************************************)
(* The three other actions.                                                *)
(***************************************************************************)

LEMMA FirstFree == \A d \in Docs : IsFirst(d, Free) => jobs[d].state = "absent"
  BY DEF IsFirst, Free

LEMMA AddJobPreserves ==
    ASSUME IInv, NEW w \in Workers, NEW s \in Submissions, AddJob(w, s) PROVE IInv'
  <1>t. /\ TypeOK /\ jobs \in [Docs -> Doc] /\ req \in [Workers -> Request]
        /\ held \in [Agents -> Held] /\ agentJob \in [Agents -> JobIds \cup {None}]
    BY DEF IInv, TypeOK
  <1>s. s \in Submission
    BY JobStoreAssumption
  <1>1. PICK d \in Docs : jobs[d].state = "absent" /\ jobs' = [jobs EXCEPT ![d] = NewDoc(s)]
    BY FirstFree DEF AddJob
  <1> DEFINE new == NewDoc(s)
             r   == [Idle EXCEPT !.at = "log_submitted", !.id = s.id]
  <1>2. new \in Doc
    BY <1>s, DocTypes
  <1>3. /\ new.id \in JobIds /\ new.agent = None /\ new.state = "waiting"
        /\ new.att \in {"none", "waiting"}
    BY <1>s DEF NewDoc, AbsentDoc, Submission
  <1>4. r \in Request /\ r.at = "log_submitted" /\ r.id \in JobIds /\ r.new = {}
    BY <1>s, RequestTypes DEF Submission, Idle
  <1>5. req' = [req EXCEPT ![w] = r] /\ UNCHANGED <<files, agentJob, events, held>>
    BY DEF AddJob, Start
  <1>6. jobs' = [jobs EXCEPT ![d] = new]
    BY <1>1
  <1> HIDE DEF new, r
  <1>7. /\ jobs' \in [Docs -> Doc]
        /\ \A e \in Docs : jobs'[e] = IF e = d THEN new ELSE jobs[e]
    BY <1>t, <1>2, <1>6
  <1>8. CalmRequests
    BY <1>4, <1>5, <1>t, StillFiles, CalmStepRequests DEF DispatchPoints
  <1>9. jobs[d].agent = None
    BY <1>1 DEF IInv, Owned
  <1>10. ASSUME NEW a \in Agents, held[a].doc # None PROVE held[a].doc \in Docs \ {d}
    BY <1>t, <1>9, <1>10, JobStoreAssumption DEF IInv, Owned, Held
  <1>11. ASSUME NEW v \in Workers, Dispatching(v)'
         PROVE  /\ Dispatching(v) /\ req'[v].doc = req[v].doc
                /\ req'[v].agent = req[v].agent /\ req'[v].id = req[v].id
                /\ req[v].doc \in Docs \ {d}
    <2>1. Dispatching(v) /\ req'[v].doc = req[v].doc
          /\ req'[v].agent = req[v].agent /\ req'[v].id = req[v].id
      BY <1>8, <1>11 DEF CalmRequests, Dispatching, DispatchPoints
    <2> QED BY <2>1, <1>9, JobStoreAssumption DEF IInv, Owned
  <1>12. TypeOK'
    BY <1>t, <1>5, <1>7, <1>8 DEF TypeOK, CalmRequests
  <1>13. Known'
    BY <1>3, <1>5, <1>7, <1>8, <1>10 DEF IInv, Known, CalmRequests, At
  <1>14. Owned'
    <2>1. \A e \in Docs : jobs'[e].state \in {"absent", "waiting"} => jobs'[e].agent = None
      BY <1>3, <1>7 DEF IInv, Owned
    <2>2. ASSUME NEW v \in Workers, Dispatching(v)'
          PROVE  /\ req'[v].doc \in Docs /\ req'[v].agent \in Agents
                 /\ jobs'[req'[v].doc].agent = req'[v].agent
                 /\ jobs'[req'[v].doc].id = req'[v].id
      BY <1>7, <1>11, <2>2 DEF IInv, Owned
    <2>3. \A a \in Agents : held'[a].doc # None => jobs'[held'[a].doc].agent = a
      BY <1>5, <1>7, <1>10 DEF IInv, Owned
    <2> QED BY <2>1, <2>2, <2>3 DEF Owned
  <1>15. ArchivesStored'
    BY <1>3, <1>5, <1>7, <1>8 DEF IInv, ArchivesStored, CalmRequests, At
  <1>16. ResultEvents'
    BY <1>8 DEF CalmRequests, ResultEvents
  <1>17. ExclusiveDispatch'
    BY <1>5, <1>11 DEF IInv, ExclusiveDispatch
  <1>18. DispatchAllowed'
    BY <1>3, <1>5, <1>7 DEF IInv, DispatchAllowed
  <1>19. AssignmentsAreReal'
    <2> SUFFICES ASSUME NEW a \in Agents, NEW j \in JobIds,
                        agentJob[a] = j \/ events[j][Ev("assigned", a)] > 0
                 PROVE  \E e \in Docs : jobs'[e].id = j /\ jobs'[e].agent = a
      BY <1>5 DEF AssignmentsAreReal, Ev
    <2>1. PICK e \in Docs : jobs[e].id = j /\ jobs[e].agent = a
      BY DEF IInv, AssignmentsAreReal
    <2>2. e # d
      BY <1>9, <2>1, JobStoreAssumption
    <2> QED BY <1>7, <2>1, <2>2
  <1> QED BY <1>12, <1>13, <1>14, <1>15, <1>16, <1>17, <1>18, <1>19 DEF IInv

LEMMA PopJobPreserves ==
    ASSUME IInv, NEW w \in Workers, NEW a \in Agents, NEW d \in Docs, PopJob(w, a, d)
    PROVE  IInv'
  <1>t. /\ TypeOK /\ jobs \in [Docs -> Doc] /\ req \in [Workers -> Request]
        /\ held \in [Agents -> Held]
    BY DEF IInv, TypeOK
  <1>e. /\ jobs[d] \in Doc /\ jobs[d].state = "waiting" /\ jobs[d].queue \in Serves[a]
        /\ jobs[d].att \in {"none", "complete"} /\ a \notin jobs[d].exclude
    BY <1>t DEF PopJob, Eligible
  <1> DEFINE run == [jobs[d] EXCEPT !.state = "running", !.agent = a]
             r   == [Idle EXCEPT !.at = "started_at", !.id = jobs[d].id,
                                 !.doc = d, !.agent = a]
  <1>1. run \in Doc
    BY <1>e, DocTypes
  <1>2. /\ run.id = jobs[d].id /\ run.queue = jobs[d].queue /\ run.exclude = jobs[d].exclude
        /\ run.att = jobs[d].att /\ run.agent = a /\ run.state = "running"
    BY <1>e DEF Doc
  <1>3. jobs[d].id \in JobIds /\ jobs[d].agent = None
    BY <1>e DEF IInv, Known, Owned
  <1>4. r \in Request
    BY <1>3, RequestTypes
  <1>5. r.at = "started_at" /\ r.id = jobs[d].id /\ r.doc = d /\ r.agent = a /\ r.new = {}
    BY DEF Idle
  <1>6. /\ req' = [req EXCEPT ![w] = r] /\ UNCHANGED <<files, agentJob, events, held>>
        /\ req[w].at = "idle"
    BY DEF PopJob, Start, At
  <1>7. jobs' = [jobs EXCEPT ![d] = run]
    BY DEF PopJob
  <1> HIDE DEF run, r
  <1>8. /\ jobs' \in [Docs -> Doc]
        /\ \A e \in Docs : jobs'[e] = IF e = d THEN run ELSE jobs[e]
    BY <1>t, <1>1, <1>7
  <1>9. /\ req' \in [Workers -> Request]
        /\ \A v \in Workers : req'[v] = IF v = w THEN r ELSE req[v]
    BY <1>t, <1>4, <1>6
  <1>10. ASSUME NEW b \in Agents, held[b].doc # None PROVE held[b].doc \in Docs \ {d}
    BY <1>t, <1>3, <1>10, JobStoreAssumption DEF IInv, Owned, Held
  <1>11. ASSUME NEW v \in Workers, v # w, Dispatching(v)'
         PROVE  Dispatching(v) /\ req'[v] = req[v] /\ req[v].doc \in Docs \ {d}
    BY <1>3, <1>9, <1>11, JobStoreAssumption DEF IInv, Owned, Dispatching
  <1>12. TypeOK'
    BY <1>t, <1>6, <1>8, <1>9 DEF TypeOK
  <1>13. Known'
    <2>1. \A e \in Docs : jobs'[e].state # "absent" => jobs'[e].id \in JobIds
      BY <1>2, <1>3, <1>8 DEF IInv, Known
    <2>2. \A v \in Workers : req'[v].at # "idle" => req'[v].id \in JobIds
      BY <1>3, <1>5, <1>9 DEF IInv, Known, At
    <2>3. \A b \in Agents : held'[b].doc # None => jobs'[held'[b].doc].id \in JobIds
      BY <1>6, <1>8, <1>10 DEF IInv, Known
    <2> QED BY <2>1, <2>2, <2>3 DEF Known, At
  <1>14. Owned'
    <2>1. \A e \in Docs : jobs'[e].state \in {"absent", "waiting"} => jobs'[e].agent = None
      BY <1>2, <1>8 DEF IInv, Owned
    <2>2. ASSUME NEW v \in Workers, Dispatching(v)'
          PROVE  /\ req'[v].doc \in Docs /\ req'[v].agent \in Agents
                 /\ jobs'[req'[v].doc].agent = req'[v].agent
                 /\ jobs'[req'[v].doc].id = req'[v].id
      <3>1. CASE v = w
        BY <1>2, <1>5, <1>8, <1>9, <3>1
      <3>2. CASE v # w
        BY <1>8, <1>11, <2>2, <3>2 DEF IInv, Owned
      <3> QED BY <3>1, <3>2
    <2>3. \A b \in Agents : held'[b].doc # None => jobs'[held'[b].doc].agent = b
      BY <1>6, <1>8, <1>10 DEF IInv, Owned
    <2> QED BY <2>1, <2>2, <2>3 DEF Owned
  <1>15. ArchivesStored'
    BY <1>2, <1>5, <1>6, <1>8, <1>9 DEF IInv, ArchivesStored, At
  <1>16. ResultEvents'
    BY <1>5, <1>9 DEF IInv, ResultEvents
  <1>17. ExclusiveDispatch'
    <2> SUFFICES ASSUME NEW e \in Docs
        PROVE  /\ \A b, c \in Agents : held'[b].doc = e /\ held'[c].doc = e => b = c
               /\ \A u, v \in Workers :
                     Dispatching(u)' /\ Dispatching(v)' /\ req'[u].doc = e /\ req'[v].doc = e
                         => u = v
               /\ \A v \in Workers, b \in Agents :
                     Dispatching(v)' /\ req'[v].doc = e => held'[b].doc # e
      BY DEF ExclusiveDispatch, Dispatching
    <2>1. \A b, c \in Agents : held'[b].doc = e /\ held'[c].doc = e => b = c
      BY <1>6 DEF IInv, ExclusiveDispatch
    <2>2. ASSUME NEW u \in Workers, NEW v \in Workers, Dispatching(u)', Dispatching(v)',
                 req'[u].doc = e, req'[v].doc = e
          PROVE  u = v
      <3>1. CASE u = w \/ v = w
        BY <1>5, <1>9, <1>11, <2>2, <3>1
      <3>2. CASE u # w /\ v # w
        BY <1>11, <2>2, <3>2 DEF IInv, ExclusiveDispatch
      <3> QED BY <3>1, <3>2
    <2>3. ASSUME NEW v \in Workers, NEW b \in Agents, Dispatching(v)', req'[v].doc = e
          PROVE  held'[b].doc # e
      <3>1. CASE v = w
        BY <1>5, <1>6, <1>9, <1>10, <2>3, <3>1, JobStoreAssumption
      <3>2. CASE v # w
        BY <1>6, <1>11, <2>3, <3>2 DEF IInv, ExclusiveDispatch
      <3> QED BY <3>1, <3>2
    <2> QED BY <2>1, <2>2, <2>3
  <1>18. DispatchAllowed'
    <2> SUFFICES ASSUME NEW e \in Docs, jobs'[e].agent # None
                 PROVE  /\ jobs'[e].queue \in Serves[jobs'[e].agent]
                        /\ jobs'[e].agent \notin jobs'[e].exclude
                        /\ jobs'[e].att \in {"none", "complete"}
                        /\ jobs'[e].att = "complete" => jobs'[e].id \in files'
      BY DEF DispatchAllowed
    <2>1. CASE e = d
      BY <1>2, <1>e, <1>6, <1>8, <2>1 DEF IInv, ArchivesStored
    <2>2. CASE e # d
      BY <1>6, <1>8, <2>2 DEF IInv, DispatchAllowed
    <2> QED BY <2>1, <2>2
  <1>19. AssignmentsAreReal'
    <2> SUFFICES ASSUME NEW b \in Agents, NEW j \in JobIds,
                        agentJob[b] = j \/ events[j][Ev("assigned", b)] > 0
                 PROVE  \E e \in Docs : jobs'[e].id = j /\ jobs'[e].agent = b
      BY <1>6 DEF AssignmentsAreReal, Ev
    <2>1. PICK e \in Docs : jobs[e].id = j /\ jobs[e].agent = b
      BY DEF IInv, AssignmentsAreReal
    <2>2. e # d
      BY <1>3, <2>1, JobStoreAssumption
    <2> QED BY <1>8, <2>1, <2>2
  <1> QED BY <1>12, <1>13, <1>14, <1>15, <1>16, <1>17, <1>18, <1>19 DEF IInv

LEMMA ReplyJobPreserves ==
    ASSUME IInv, NEW w \in Workers, ReplyJob(w) PROVE IInv'
  <1> DEFINE a == req[w].agent
             d == req[w].doc
             h == [NoHeld EXCEPT !.doc = d]
  <1>t. /\ TypeOK /\ jobs \in [Docs -> Doc] /\ req \in [Workers -> Request]
        /\ held \in [Agents -> Held]
    BY DEF IInv, TypeOK
  <1>1. /\ req[w].at = "reply" /\ held[a].doc = None /\ Return(w)
        /\ UNCHANGED <<jobs, files, agentJob, events>>
        /\ held' = [held EXCEPT ![a] = h]
    BY DEF ReplyJob, At
  <1>2. Dispatching(w)
    BY <1>1 DEF Dispatching
  <1>3. d \in Docs /\ a \in Agents /\ jobs[d].agent = a /\ jobs[d].id \in JobIds
    BY <1>1, <1>2 DEF IInv, Owned, Known, At
  <1>4. h \in Held /\ h.doc = d
    BY <1>3, HeldTypes DEF NoHeld
  <1> HIDE DEF a, d, h
  <1>5. held' \in [Agents -> Held] /\ \A b \in Agents : held'[b] = IF b = a THEN h ELSE held[b]
    BY <1>t, <1>1, <1>3, <1>4
  <1>6. CalmRequests /\ req' = [req EXCEPT ![w] = Idle]
    BY <1>1, <1>t, StillFiles, ReturnCalm DEF Return
  <1>7. ASSUME NEW v \in Workers, Dispatching(v)'
        PROVE  v # w /\ Dispatching(v) /\ req'[v] = req[v]
    BY <1>t, <1>6, <1>7 DEF Dispatching, Idle
  <1>8. TypeOK'
    BY <1>t, <1>1, <1>5, <1>6 DEF TypeOK, CalmRequests
  <1>9. Known' /\ ArchivesStored' /\ ResultEvents' /\ DispatchAllowed' /\ AssignmentsAreReal'
    <2>1. \A e \in Docs : jobs'[e] = jobs[e]
      BY <1>1
    <2>2. Known'
      BY <1>1, <1>3, <1>4, <1>5, <1>6 DEF IInv, Known, CalmRequests, At
    <2>3. ArchivesStored' /\ ResultEvents'
      BY <1>1, <1>6 DEF IInv, ArchivesStored, ResultEvents, CalmRequests, At
    <2>4. DispatchAllowed' /\ AssignmentsAreReal'
      BY <1>1 DEF IInv, DispatchAllowed, AssignmentsAreReal, Ev
    <2> QED BY <2>2, <2>3, <2>4
  <1>10. Owned'
    <2>1. \A e \in Docs : jobs'[e].state \in {"absent", "waiting"} => jobs'[e].agent = None
      BY <1>1 DEF IInv, Owned
    <2>2. ASSUME NEW v \in Workers, Dispatching(v)'
          PROVE  /\ req'[v].doc \in Docs /\ req'[v].agent \in Agents
                 /\ jobs'[req'[v].doc].agent = req'[v].agent
                 /\ jobs'[req'[v].doc].id = req'[v].id
      BY <1>1, <1>7, <2>2 DEF IInv, Owned
    <2>3. \A b \in Agents : held'[b].doc # None => jobs'[held'[b].doc].agent = b
      BY <1>1, <1>3, <1>4, <1>5 DEF IInv, Owned
    <2> QED BY <2>1, <2>2, <2>3 DEF Owned
  <1>11. ExclusiveDispatch'
    <2>1. ASSUME NEW e \in Docs, NEW b \in Agents, NEW c \in Agents,
                 held'[b].doc = e, held'[c].doc = e
          PROVE  b = c
      BY <1>10, <2>1, JobStoreAssumption DEF Owned
    <2>2. ASSUME NEW e \in Docs, NEW u \in Workers, NEW v \in Workers,
                 Dispatching(u)', Dispatching(v)', req'[u].doc = e, req'[v].doc = e
          PROVE  u = v
      BY <1>7, <2>2 DEF IInv, ExclusiveDispatch
    <2>3. ASSUME NEW e \in Docs, NEW v \in Workers, NEW b \in Agents,
                 Dispatching(v)', req'[v].doc = e
          PROVE  held'[b].doc # e
      <3>1. CASE b = a
        <4>1. req[v].doc # d
          BY <1>2, <1>3, <1>7, <2>3 DEF IInv, ExclusiveDispatch, d
        <4> QED BY <1>4, <1>5, <1>7, <2>3, <3>1, <4>1
      <3>2. CASE b # a
        BY <1>5, <1>7, <2>3, <3>2 DEF IInv, ExclusiveDispatch
      <3> QED BY <3>1, <3>2
    <2> QED BY <2>1, <2>2, <2>3 DEF ExclusiveDispatch
  <1> QED BY <1>8, <1>9, <1>10, <1>11 DEF IInv

(***************************************************************************)
(* The theorems.                                                           *)
(***************************************************************************)
LEMMA StepIInv == ASSUME IInv, [Next]_vars PROVE IInv'
  <1>1. ASSUME NEW w \in Workers, UserRequest(w) PROVE IInv'
    BY <1>1, AddJobPreserves, UserCalm, CalmPreserves DEF UserRequest
  <1>2. ASSUME NEW w \in Workers, NEW a \in Agents, AgentRequest(w, a) PROVE IInv'
    BY <1>2, PopJobPreserves, AgentCalm, CalmPreserves DEF AgentRequest
  <1>3. ASSUME NEW w \in Workers, Continue(w) PROVE IInv'
    BY <1>3, ReplyJobPreserves, DispatchCalm, AttachmentsCalm, ResultCalm, CalmPreserves
    DEF Continue
  <1>4. ASSUME NEW w \in Workers, HandlerDies(w) PROVE IInv'
    BY <1>4, ResultCalm, CalmPreserves
  <1>5. CASE \/ \E a \in Agents : AgentLetsGo(a)
             \/ \E d \in Docs : Expire(d)
             \/ UNCHANGED vars
    BY <1>5, OtherCalm, CalmPreserves
  <1> QED BY <1>1, <1>2, <1>3, <1>4, <1>5 DEF Next

\* The inductive invariant holds of every behaviour of the handlers.
THEOREM Invariance == Spec => []IInv
  BY InitIInv, StepIInv, PTL DEF Spec

\* No handler ever writes a value of the wrong shape to a collection.
THEOREM TypeCorrect == Spec => []TypeOK
  <1>1. IInv => TypeOK
    BY DEF IInv
  <1> QED BY <1>1, Invariance, PTL

\* No job is given to two agents, or twice to one, however many handlers of
\* GET /job, results, cancellations, crashes and lost responses interleave.
THEOREM DispatchedOnce == Spec => []ExclusiveDispatch
  <1>1. IInv => ExclusiveDispatch
    BY DEF IInv
  <1> QED BY <1>1, Invariance, PTL

\* Whatever happened to a job since it was submitted, the agent that has it
\* serves its queue, is not excluded by it, and finds its attachments stored.
THEOREM DispatchedToAllowed == Spec => []DispatchAllowed
  <1>1. IInv => DispatchAllowed
    BY DEF IInv
  <1> QED BY <1>1, Invariance, PTL

\* Agent records and event logs only show assignments that pop_job made.
THEOREM RecordedAssignments == Spec => []AssignmentsAreReal
  <1>1. IInv => AssignmentsAreReal
    BY DEF IInv
  <1> QED BY <1>1, Invariance, PTL

-----------------------------------------------------------------------------
(***************************************************************************)
(* The handlers of JobStore implement the queue of JobDispatch: the        *)
(* initial states map to initial states, and every step of every handler   *)
(* is one step of the queue or changes nothing that it shows.              *)
(***************************************************************************)
\* What the queue shows of the documents: the mapping of Dispatch.
StatusNow   == [d \in Docs |-> StatusOf(jobs[d])]
OwnerNow    == [d \in Docs |-> jobs[d].agent]
RunnableNow == [d \in Docs |-> {a \in Agents : /\ jobs[d].queue \in Serves[a]
                                              /\ a \notin jobs[d].exclude}]
UrgencyNow  == [d \in Docs |-> jobs[d].prio]

LEMMA InitImplements == ASSUME Init PROVE Dispatch!DispatchInit
  <1>1. \A d \in Docs : jobs[d] = AbsentDoc
    BY DEF Init
  <1>2. StatusOf(AbsentDoc) = "absent" /\ AbsentDoc.agent = None /\ AbsentDoc.prio = 0
    BY DEF StatusOf, AbsentDoc
  <1>3. \A a \in Agents : None \notin Serves[a]
    BY JobStoreAssumption
  <1>4. AbsentDoc.queue = None
    BY DEF AbsentDoc
  <1> QED BY <1>1, <1>2, <1>3, <1>4 DEF Dispatch!DispatchInit

\* A step that writes one document, and not who may run it.
LEMMA OneDocument ==
    ASSUME TypeOK, NEW d \in Docs, NEW x \in Doc, jobs' = [jobs EXCEPT ![d] = x],
           x.queue = jobs[d].queue, x.exclude = jobs[d].exclude, x.prio = jobs[d].prio
    PROVE  /\ StatusNow' = [StatusNow EXCEPT ![d] = StatusOf(x)]
           /\ OwnerNow' = [OwnerNow EXCEPT ![d] = x.agent]
           /\ UNCHANGED <<RunnableNow, UrgencyNow>>
  <1>1. jobs \in [Docs -> Doc]
    BY DEF TypeOK
  <1>2. \A e \in Docs : jobs'[e] = IF e = d THEN x ELSE jobs[e]
    BY <1>1
  <1>3. StatusNow' = [StatusNow EXCEPT ![d] = StatusOf(x)]
    <2>1. \A e \in Docs : StatusOf(jobs'[e]) = IF e = d THEN StatusOf(x) ELSE StatusOf(jobs[e])
      BY <1>2
    <2> QED BY <2>1 DEF StatusNow, StatusOf
  <1>4. OwnerNow' = [OwnerNow EXCEPT ![d] = x.agent]
    <2>1. \A e \in Docs : jobs'[e].agent = IF e = d THEN x.agent ELSE jobs[e].agent
      BY <1>2
    <2> QED BY <2>1 DEF OwnerNow
  <1>5. UNCHANGED RunnableNow
    BY <1>2 DEF RunnableNow
  <1>6. UNCHANGED UrgencyNow
    BY <1>2 DEF UrgencyNow
  <1> QED BY <1>3, <1>4, <1>5, <1>6

\* It is a step of the queue when it offers or withdraws the job.
LEMMA SameOwner ==
    ASSUME IInv, NEW d \in Docs, NEW x \in Doc, jobs' = [jobs EXCEPT ![d] = x],
           x.queue = jobs[d].queue, x.exclude = jobs[d].exclude, x.prio = jobs[d].prio,
           x.agent = jobs[d].agent,
           \/ StatusOf(x) = StatusOf(jobs[d])
           \/ StatusOf(jobs[d]) = "incomplete" /\ StatusOf(x) = "offered"
           \/ StatusOf(jobs[d]) \in {"incomplete", "offered"} /\ StatusOf(x) = "withdrawn"
    PROVE  [Dispatch!DispatchNext]_(Dispatch!dvars)
  <1>1. /\ StatusNow' = [StatusNow EXCEPT ![d] = StatusOf(x)]
        /\ OwnerNow' = [OwnerNow EXCEPT ![d] = x.agent]
        /\ UNCHANGED <<RunnableNow, UrgencyNow>>
    BY OneDocument DEF IInv
  <1>2. UNCHANGED OwnerNow
    BY <1>1 DEF OwnerNow
  <1>3. StatusNow[d] = StatusOf(jobs[d])
    BY DEF StatusNow
  <1>4. CASE StatusOf(x) = StatusOf(jobs[d])
    <2>1. UNCHANGED StatusNow
      BY <1>1, <1>3, <1>4 DEF StatusNow
    <2> QED BY <1>1, <1>2, <2>1
            DEF Dispatch!dvars, StatusNow, OwnerNow, RunnableNow, UrgencyNow
  <1>5. CASE StatusOf(jobs[d]) = "incomplete" /\ StatusOf(x) = "offered"
    <2>1. Dispatch!Offer(d)
      BY <1>1, <1>2, <1>3, <1>5
      DEF Dispatch!Offer, StatusNow, OwnerNow, RunnableNow, UrgencyNow
    <2> QED BY <2>1 DEF Dispatch!DispatchNext
  <1>6. CASE StatusOf(jobs[d]) \in {"incomplete", "offered"} /\ StatusOf(x) = "withdrawn"
    <2>1. Dispatch!Withdraw(d)
      BY <1>1, <1>2, <1>3, <1>6
      DEF Dispatch!Withdraw, StatusNow, OwnerNow, RunnableNow, UrgencyNow
    <2> QED BY <2>1 DEF Dispatch!DispatchNext
  <1> QED BY <1>4, <1>5, <1>6

LEMMA StillQueue ==
    ASSUME UNCHANGED jobs PROVE [Dispatch!DispatchNext]_(Dispatch!dvars)
  BY DEF Dispatch!dvars, StatusOf

\* The documents that leave the queue without being given to an agent.
LEMMA MildImplements ==
    ASSUME IInv, MildStep PROVE [Dispatch!DispatchNext]_(Dispatch!dvars)
  <1>1. CASE UNCHANGED jobs
    BY <1>1, StillQueue
  <1>2. CASE ~ UNCHANGED jobs
    <2>1. PICK d \in Docs, x \in Doc : Mild(d, x) /\ jobs' = [jobs EXCEPT ![d] = x]
      BY <1>2 DEF MildStep
    <2>2. /\ x.queue = jobs[d].queue /\ x.exclude = jobs[d].exclude /\ x.prio = jobs[d].prio
          /\ x.agent = jobs[d].agent /\ x.att = jobs[d].att
          /\ \/ x.state = jobs[d].state
             \/ jobs[d].state # "absent" /\ x.state \notin {"absent", "waiting"}
      BY <2>1 DEF Mild, SameJob
    <2>3. \/ StatusOf(x) = StatusOf(jobs[d])
          \/ StatusOf(jobs[d]) \in {"incomplete", "offered"} /\ StatusOf(x) = "withdrawn"
      BY <2>2 DEF StatusOf
    <2> QED BY <2>1, <2>2, <2>3, SameOwner
  <1> QED BY <1>1, <1>2

LEMMA AttachmentsImplement ==
    ASSUME IInv, NEW w \in Workers, AttachmentsReceived(w)
    PROVE  [Dispatch!DispatchNext]_(Dispatch!dvars)
  <1>1. CASE UNCHANGED jobs
    BY <1>1, StillQueue
  <1>2. CASE ~ UNCHANGED jobs
    <2>t. jobs \in [Docs -> Doc]
      BY DEF IInv, TypeOK
    <2> DEFINE S == {d \in WithId(req[w].id) : jobs[d].att = "waiting"}
    <2>0. \E d \in S : jobs' = [jobs EXCEPT ![d] = [jobs[d] EXCEPT !.att = "complete"]]
      BY <1>2, <2>t DEF AttachmentsReceived, UpdateFirst, IsFirst, WithId
    <2>1. PICK d \in Docs : /\ jobs[d] \in Doc /\ jobs[d].att = "waiting"
                            /\ jobs[d].state # "absent"
                            /\ jobs' = [jobs EXCEPT ![d] = [jobs[d] EXCEPT !.att = "complete"]]
      BY <2>0, <2>t, JobStoreAssumption DEF WithId, Stored, JobStates, ResultStates
    <2> DEFINE x == [jobs[d] EXCEPT !.att = "complete"]
    <2>d. jobs[d] \in Doc
      BY <2>1
    <2>2. x \in Doc
      BY <2>d, DocTypes
    <2>3. /\ x.queue = jobs[d].queue /\ x.exclude = jobs[d].exclude /\ x.prio = jobs[d].prio
          /\ x.agent = jobs[d].agent /\ x.att = "complete" /\ x.state = jobs[d].state
      BY <2>d DEF Doc
    <2>4. jobs' = [jobs EXCEPT ![d] = x]
      BY <2>1
    <2> HIDE DEF x
    <2>5. \/ StatusOf(x) = StatusOf(jobs[d])
          \/ StatusOf(jobs[d]) = "incomplete" /\ StatusOf(x) = "offered"
      BY <2>1, <2>3 DEF StatusOf
    <2> QED BY <2>2, <2>3, <2>4, <2>5, SameOwner
  <1> QED BY <1>1, <1>2

LEMMA AddJobImplements ==
    ASSUME IInv, NEW w \in Workers, NEW s \in Submissions, AddJob(w, s)
    PROVE  [Dispatch!DispatchNext]_(Dispatch!dvars)
  <1>s. s \in Submission
    BY JobStoreAssumption
  <1>1. PICK d \in Docs : jobs[d].state = "absent" /\ jobs' = [jobs EXCEPT ![d] = NewDoc(s)]
    BY FirstFree DEF AddJob
  <1>2. jobs \in [Docs -> Doc] /\ jobs[d].agent = None
    BY <1>1 DEF IInv, TypeOK, Owned
  <1> DEFINE x == NewDoc(s)
  <1>3. x \in Doc /\ jobs' = [jobs EXCEPT ![d] = x]
    BY <1>1, <1>s, DocTypes
  <1>4. x.agent = None /\ x.state = "waiting" /\ x.prio \in Nat /\ x.att \in {"none", "waiting"}
    BY <1>s DEF NewDoc, AbsentDoc, Submission
  <1> HIDE DEF x
  <1>5. \A e \in Docs : jobs'[e] = IF e = d THEN x ELSE jobs[e]
    BY <1>2, <1>3
  <1>6. StatusOf(x) \in {"incomplete", "offered"} /\ StatusNow[d] = "absent"
    BY <1>1, <1>2, <1>4 DEF StatusOf, StatusNow
  <1>7. StatusNow' = [StatusNow EXCEPT ![d] = StatusOf(x)]
    <2>1. \A e \in Docs : StatusOf(jobs'[e]) = IF e = d THEN StatusOf(x) ELSE StatusOf(jobs[e])
      BY <1>5
    <2> QED BY <2>1 DEF StatusNow, StatusOf
  <1>8. UNCHANGED OwnerNow
    BY <1>2, <1>4, <1>5 DEF OwnerNow
  <1> DEFINE A == {a \in Agents : x.queue \in Serves[a] /\ a \notin x.exclude}
  <1>9. A \in SUBSET Agents /\ RunnableNow' = [RunnableNow EXCEPT ![d] = A]
    BY <1>5 DEF RunnableNow
  <1>10. /\ UrgencyNow' \in [Docs -> Nat]
         /\ \A k \in Docs \ {d} : UrgencyNow'[k] = UrgencyNow[k]
    <2>1. \A e \in Docs : jobs'[e].prio \in Nat
      BY <1>2, <1>4, <1>5 DEF Doc
    <2> QED BY <1>5, <2>1 DEF UrgencyNow
  <1> HIDE DEF A
  <1>11. Dispatch!Submit(d)
    <2>1. \E t \in {"incomplete", "offered"} : StatusNow' = [StatusNow EXCEPT ![d] = t]
      BY <1>6, <1>7
    <2>2. \E B \in SUBSET Agents : RunnableNow' = [RunnableNow EXCEPT ![d] = B]
      BY <1>9
    <2> QED BY <1>6, <1>8, <1>10, <2>1, <2>2
            DEF Dispatch!Submit, StatusNow, OwnerNow, RunnableNow, UrgencyNow
  <1> QED BY <1>11 DEF Dispatch!DispatchNext

LEMMA PopJobImplements ==
    ASSUME IInv, NEW w \in Workers, NEW a \in Agents, NEW d \in Docs, PopJob(w, a, d)
    PROVE  [Dispatch!DispatchNext]_(Dispatch!dvars)
  <1>t. jobs \in [Docs -> Doc] /\ jobs[d] \in Doc
    BY DEF IInv, TypeOK
  <1> DEFINE x == [jobs[d] EXCEPT !.state = "running", !.agent = a]
  <1>1. x \in Doc /\ jobs' = [jobs EXCEPT ![d] = x]
    BY <1>t, DocTypes DEF PopJob
  <1>2. /\ x.queue = jobs[d].queue /\ x.exclude = jobs[d].exclude /\ x.prio = jobs[d].prio
        /\ x.agent = a
    BY <1>t DEF Doc
  <1>3. StatusOf(x) = "taken"
    BY <1>2, JobStoreAssumption DEF StatusOf
  <1> HIDE DEF x
  <1>4. /\ StatusNow' = [StatusNow EXCEPT ![d] = "taken"]
        /\ OwnerNow' = [OwnerNow EXCEPT ![d] = a]
        /\ UNCHANGED <<RunnableNow, UrgencyNow>>
    BY <1>1, <1>2, <1>3, OneDocument DEF IInv
  <1>5. ASSUME NEW e \in Docs
        PROVE  e \in Eligible(a) <=> StatusNow[e] = "offered" /\ a \in RunnableNow[e]
    BY JobStoreAssumption DEF IInv, TypeOK, Doc, Owned, Eligible, StatusNow, StatusOf, RunnableNow
  <1>6. d \in Eligible(a) /\ \A e \in Eligible(a) : UrgencyNow[e] <= UrgencyNow[d]
    BY DEF PopJob, Eligible, UrgencyNow
  <1>7. Dispatch!Take(a, d)
    BY <1>4, <1>5, <1>6 DEF Dispatch!Take, StatusNow, OwnerNow, RunnableNow, UrgencyNow
  <1> QED BY <1>7 DEF Dispatch!DispatchNext

LEMMA StepImplements ==
    ASSUME IInv, [Next]_vars PROVE [Dispatch!DispatchNext]_(Dispatch!dvars)
  <1>t. TypeOK
    BY DEF IInv
  <1>1. ASSUME NEW w \in Workers, UserRequest(w) PROVE [Dispatch!DispatchNext]_(Dispatch!dvars)
    BY <1>t, <1>1, AddJobImplements, CancelJobMild, MildImplements, StillQueue
    DEF UserRequest, GetAttachmentsStatus
  <1>2. ASSUME NEW w \in Workers, NEW a \in Agents, AgentRequest(w, a)
        PROVE  [Dispatch!DispatchNext]_(Dispatch!dvars)
    BY <1>2, PopJobImplements, StillQueue
    DEF AgentRequest, Announce, ReportPhase, ReportOutcome, PostResult
  <1>3. ASSUME NEW w \in Workers, Continue(w) PROVE [Dispatch!DispatchNext]_(Dispatch!dvars)
    <2>1. CASE AttachmentsReceived(w)
      BY <2>1, AttachmentsImplement
    <2>2. CASE MarkStarted(w) \/ UpdateResults(w)
      BY <1>t, <2>2, MarkStartedMild, UpdateResultsMild, MildImplements
    <2>3. CASE UNCHANGED jobs
      BY <2>3, StillQueue
    <2> QED BY <1>3, <2>1, <2>2, <2>3
            DEF Continue, LogSubmitted, SaveFile, LogAssigned, SetAgentJob, ReplyJob, ReplyLost,
                ClearAfterResult, LogResult, ReturnResult, ClearAfterCancel, LogCancelled
  <1>4. ASSUME NEW d \in Docs, Expire(d) PROVE [Dispatch!DispatchNext]_(Dispatch!dvars)
    BY <1>t, <1>4, ExpireMild, MildImplements
  <1>5. CASE \/ \E w \in Workers : HandlerDies(w)
             \/ \E a \in Agents : AgentLetsGo(a)
             \/ UNCHANGED vars
    BY <1>5, StillQueue DEF HandlerDies, AgentLetsGo, vars
  <1> QED BY <1>1, <1>2, <1>3, <1>4, <1>5 DEF Next

\* The handlers keep the promise of the queue, for every number of documents,
\* agents and handlers at work, with crashes, lost responses, resubmissions
\* and expiring documents: pop_job, add_job, cancel_job and the others.
THEOREM HandlersImplementDispatch == Spec => ImplementsDispatch
  BY InitImplements, StepImplements, Invariance, PTL
  DEF Spec, ImplementsDispatch, Dispatch!DispatchSpec

-----------------------------------------------------------------------------
(***************************************************************************)
(* What a job's log holds, whatever requests are repeated, delayed or      *)
(* killed and however often a job_id is used.                              *)
(***************************************************************************)

\* The handlers of POST /result, and those of them that have stored the result.
Reporting(w) == req[w].at \in {"update_results", "clear_result", "log_result"}

\* A result is for a document the agent was given.
Reported ==
    \A w \in Workers : Reporting(w) =>
        /\ req[w].doc \in Docs /\ req[w].agent \in Agents
        /\ jobs[req[w].doc].agent = req[w].agent
        /\ jobs[req[w].doc].id = req[w].id

Completions == {e \in Event : e.name \in {"completed", "phase_completed"}}

\* A handler is about to log e.
Pending(w, e) == Reporting(w) /\ e \in req[w].new

\* No document of the job has expired, and no result took e back.
Fresh(j, e) ==
    \A d \in Docs : jobs[d].id = j => jobs[d].state # "expired" /\ e \notin jobs[d].back

\* The document that a result for j is stored in, as none has expired.
FirstOf(d, j) == jobs[d].id = j /\ \A e \in Docs : jobs[e].id = j => d <= e

\* Documents are inserted in order.
InOrder ==
    \A d \in Docs : jobs[d].state = "absent" =>
        /\ jobs[d].id = None
        /\ \A e \in Docs : d < e => jobs[e].state = "absent"

\* What is logged of a job, or is about to be, its first document shows.
LogIsTrue ==
    \A j \in JobIds, e \in Completions :
        /\ Fresh(j, e)
        /\ events[j][e] > 0 \/ \E w \in Workers : Pending(w, e) /\ req[w].id = j
        => \E d \in Docs : FirstOf(d, j) /\ e \in Shown(jobs[d])

\* One handler logs it, and it is not logged yet.
LoggedByOne ==
    \A w \in Workers, e \in Completions :
        Pending(w, e) /\ Fresh(req[w].id, e) =>
            /\ events[req[w].id][e] = 0
            /\ \A v \in Workers : Pending(v, e) /\ req[v].id = req[w].id => v = w

AtMostOnce ==
    \A j \in JobIds, e \in Completions : Fresh(j, e) => events[j][e] <= 1

LogFacts == InOrder /\ LogIsTrue /\ LoggedByOne /\ AtMostOnce

\* The owner of a document is its owner for good.
LEMMA OwnersStay ==
    ASSUME IInv, [Next]_vars, NEW d \in Docs, jobs[d].agent # None
    PROVE  jobs'[d].agent = jobs[d].agent /\ jobs'[d].id = jobs[d].id
  <1>t. jobs \in [Docs -> Doc]
    BY DEF IInv, TypeOK
  <1>0. Calm => jobs'[d].agent = jobs[d].agent /\ jobs'[d].id = jobs[d].id
    BY DEF Calm, CalmJobs, SameJob
  <1>1. ASSUME NEW w \in Workers, NEW s \in Submissions, AddJob(w, s) PROVE jobs'[d] = jobs[d]
    <2>1. PICK e \in Docs : jobs[e].state = "absent" /\ jobs' = [jobs EXCEPT ![e] = NewDoc(s)]
      BY <1>1, FirstFree DEF AddJob
    <2>2. e # d
      BY <2>1 DEF IInv, Owned
    <2> QED BY <1>t, <2>1, <2>2
  <1>2. ASSUME NEW w \in Workers, NEW a \in Agents, NEW e \in Docs, PopJob(w, a, e)
        PROVE  jobs'[d] = jobs[d]
    <2>1. jobs[e].agent = None
      BY <1>2 DEF PopJob, Eligible, IInv, Owned
    <2>2. jobs' = [jobs EXCEPT ![e] = [jobs[e] EXCEPT !.state = "running", !.agent = a]]
      BY <1>2 DEF PopJob
    <2> QED BY <1>t, <2>1, <2>2
  <1>3. ASSUME NEW w \in Workers, ReplyJob(w) PROVE jobs'[d] = jobs[d]
    BY <1>3 DEF ReplyJob
  <1> QED
    BY <1>0, <1>1, <1>2, <1>3, UserCalm, AgentCalm, DispatchCalm, AttachmentsCalm, ResultCalm,
       OtherCalm
    DEF Next, UserRequest, AgentRequest, Continue

\* What becomes of the handler w in a step: it stays as it is, it has nothing to
\* do with agents, it goes on, or it starts with a result or to dispatch a job.
GoesOn(w) ==
    /\ req'[w].doc = req[w].doc /\ req'[w].agent = req[w].agent /\ req'[w].id = req[w].id
    /\ Reporting(w)' => Reporting(w)
    /\ Dispatching(w)' => Dispatching(w)
    /\ req'[w].at # "update_results"

Posted(w, a) ==
    /\ req'[w].at = "update_results" /\ req'[w].agent = a /\ held[a].doc # None
    /\ req'[w].doc = held[a].doc /\ req'[w].id = jobs[held[a].doc].id

Popped(w, a) ==
    req'[w].at = "started_at" /\ req'[w].agent = a

HandlerStep(w) ==
    \/ req'[w] = req[w]
    \/ req'[w].agent = None /\ ~Reporting(w)' /\ ~Dispatching(w)'
    \/ GoesOn(w)
    \/ \E a \in Agents : /\ Posted(w, a) \/ Popped(w, a)
                         /\ Timeouts \/ NoRequestPending(a)
                         /\ \A v \in Workers \ {w} : req'[v] = req[v]

\* The handlers of users' requests name no agent.
LEMMA UserStarts ==
    ASSUME NEW w \in Workers, UserRequest(w)
    PROVE  \E r \in Request : /\ Start(w, r) /\ r.agent = None
                              /\ r.at \in {"log_submitted", "save_file", "clear_cancel"}
  <1>1. ASSUME NEW s \in Submissions, AddJob(w, s)
        PROVE  \E r \in Request : /\ Start(w, r) /\ r.agent = None
                                  /\ r.at \in {"log_submitted", "save_file", "clear_cancel"}
    <2> DEFINE r == [Idle EXCEPT !.at = "log_submitted", !.id = s.id]
    <2>0. s.id \in JobIds
      BY JobStoreAssumption DEF Submission
    <2>1. r \in Request
      BY <2>0, RequestTypes, Zenon
    <2>2. r.agent = None /\ r.at = "log_submitted"
      BY DEF Idle
    <2>3. Start(w, r)
      BY <1>1 DEF AddJob
    <2> QED BY <2>1, <2>2, <2>3
  <1>2. ASSUME NEW j \in JobIds, GetAttachmentsStatus(w, j)
        PROVE  \E r \in Request : /\ Start(w, r) /\ r.agent = None
                                  /\ r.at \in {"log_submitted", "save_file", "clear_cancel"}
    <2>1. PICK d \in Docs : Start(w, [Idle EXCEPT !.at = "save_file", !.id = j, !.doc = d])
      BY <1>2 DEF GetAttachmentsStatus
    <2> DEFINE r == [Idle EXCEPT !.at = "save_file", !.id = j, !.doc = d]
    <2>2. r \in Request
      BY RequestTypes, Zenon
    <2>3. r.agent = None /\ r.at = "save_file"
      BY DEF Idle
    <2> QED BY <2>1, <2>2, <2>3
  <1>3. ASSUME NEW j \in JobIds, CancelJob(w, j)
        PROVE  \E r \in Request : /\ Start(w, r) /\ r.agent = None
                                  /\ r.at \in {"log_submitted", "save_file", "clear_cancel"}
    <2> DEFINE b == Cancellable(j) # {}
               r == [Idle EXCEPT !.at = "clear_cancel", !.id = j, !.hit = b]
    <2>1. b \in BOOLEAN
      OBVIOUS
    <2>2. r \in Request
      BY <2>1, RequestTypes, Zenon
    <2>3. r.agent = None /\ r.at = "clear_cancel"
      BY DEF Idle
    <2>4. Start(w, r)
      BY <1>3 DEF CancelJob
    <2> QED BY <2>2, <2>3, <2>4
  <1> QED BY <1>1, <1>2, <1>3 DEF UserRequest

\* The two steps that have to do with the events of a result.
LEMMA ResultRequest ==
    ASSUME IInv, NEW w \in Workers, UpdateResults(w) \/ LogResult(w)
    PROVE  \E p \in {"clear_result", "log_result"} : \E E :
              req' = [req EXCEPT ![w] = [req[w] EXCEPT !.at = p, !.new = E]]
  <1>t. req[w] \in Request
    BY DEF IInv, TypeOK
  <1>1. CASE UpdateResults(w)
    <2>1. PICK p \in {"clear_result", "log_result"}, doc \in Doc :
              req' = [req EXCEPT ![w].at = p, ![w].new = NewResultEvents(doc, req[w])]
      BY <1>1, DocTypes DEF UpdateResults, UpdateAndGo, IInv, TypeOK
    <2> DEFINE E == NewResultEvents(doc, req[w])
    <2>2. req' = [req EXCEPT ![w] = [req[w] EXCEPT !.at = p, !.new = E]]
      BY <2>1 DEF IInv, TypeOK
    <2> QED BY <2>2
  <1>2. CASE LogResult(w)
    <2>1. PICK e \in req[w].new : req' = [req EXCEPT ![w].new = @ \ {e}]
      BY <1>2 DEF LogResult
    <2> DEFINE E == req[w].new \ {e}
    <2>2. req[w] = [req[w] EXCEPT !.at = "log_result"]
      BY <1>t, <1>2 DEF LogResult, At, Request
    <2>3. [req[w] EXCEPT !.new = E] = [req[w] EXCEPT !.at = "log_result", !.new = E]
      BY <1>t, <2>2 DEF Request
    <2>4. req' = [req EXCEPT ![w] = [req[w] EXCEPT !.new = E]]
      BY <2>1 DEF IInv, TypeOK
    <2> QED BY <2>3, <2>4
  <1> QED BY <1>1, <1>2

\* Most steps start no request of an agent, and log no result.
QuietRequest(w) ==
    \/ req'[w] = req[w]
    \/ req'[w].agent = None /\ ~Reporting(w)' /\ ~Dispatching(w)'
    \/ GoesOn(w) /\ req'[w].new = req[w].new

LEMMA QuietRequests ==
    ASSUME IInv, NEW v \in Workers, NEW w \in Workers,
           \/ UserRequest(w) \/ HandlerDies(w)
           \/ Continue(w) /\ ~UpdateResults(w) /\ ~LogResult(w)
    PROVE  QuietRequest(v)
  <1>t. req \in [Workers -> Request]
    BY DEF IInv, TypeOK
  <1>0. Idle.agent = None /\ Idle.at = "idle"
    BY DEF Idle
  <1>1. Return(w) => QuietRequest(v)
    BY <1>t, <1>0 DEF Return, QuietRequest, Reporting, Dispatching
  <1>2. ASSUME NEW r \in Request, Start(w, r), r.agent = None,
               r.at \in {"log_submitted", "save_file", "clear_cancel"}
        PROVE  QuietRequest(v)
    BY <1>t, <1>2 DEF Start, QuietRequest, Reporting, Dispatching
  <1>3. ASSUME NEW p \in Points, Goto(w, p), p # "update_results",
               p \in DispatchPoints => req[w].at \in DispatchPoints,
               p \in {"clear_result", "log_result"} => Reporting(w)
        PROVE  QuietRequest(v)
    <2>1. v # w => req'[v] = req[v]
      BY <1>t, <1>3 DEF Goto
    <2>2. req'[w] = [req[w] EXCEPT !.at = p]
      BY <1>t, <1>3 DEF Goto
    <2>3. /\ req'[w].at = p /\ req'[w].doc = req[w].doc /\ req'[w].agent = req[w].agent
          /\ req'[w].id = req[w].id /\ req'[w].new = req[w].new
      BY <1>t, <2>2 DEF Request
    <2>4. GoesOn(w)
      BY <1>3, <2>3 DEF GoesOn, Reporting, Dispatching, DispatchPoints
    <2> QED BY <2>1, <2>3, <2>4 DEF QuietRequest
  <1>4. CASE UserRequest(w)
    <2>1. PICK r \in Request : /\ Start(w, r) /\ r.agent = None
                               /\ r.at \in {"log_submitted", "save_file", "clear_cancel"}
      BY <1>4, UserStarts
    <2> QED BY <1>2, <2>1
  <1>5. CASE \/ LogSubmitted(w) \/ AttachmentsReceived(w) \/ ReplyJob(w) \/ ReplyLost(w)
             \/ ReturnResult(w) \/ LogCancelled(w) \/ HandlerDies(w)
    BY <1>1, <1>5
    DEF LogSubmitted, AttachmentsReceived, ReplyJob, ReplyLost, ReturnResult, LogCancelled,
        HandlerDies
  <1>6. CASE SaveFile(w) \/ MarkStarted(w) \/ LogAssigned(w) \/ SetAgentJob(w)
    BY <1>3, <1>6
    DEF SaveFile, MarkStarted, LogAssigned, SetAgentJob, At, Points, DispatchPoints
  <1>7. CASE ClearAfterResult(w)
    BY <1>3, <1>7 DEF ClearAfterResult, At, Points, DispatchPoints, Reporting
  <1>8. CASE ClearAfterCancel(w)
    BY <1>1, <1>3, <1>8 DEF ClearAfterCancel, At, Points, DispatchPoints
  <1> QED BY <1>4, <1>5, <1>6, <1>7, <1>8 DEF Continue

\* Every step of every handler is one of HandlerStep.
LEMMA HandlerSteps ==
    ASSUME IInv, [Next]_vars, NEW v \in Workers PROVE HandlerStep(v)
  <1>t. req \in [Workers -> Request]
    BY DEF IInv, TypeOK
  <1>1. QuietRequest(v) => HandlerStep(v)
    BY DEF QuietRequest, HandlerStep
  <1>2. ASSUME NEW w \in Workers, NEW a \in Agents, AgentRequest(w, a) PROVE HandlerStep(v)
    <2>1. ASSUME NEW d \in Docs, PopJob(w, a, d) PROVE HandlerStep(v)
      <3> DEFINE r == [Idle EXCEPT !.at = "started_at", !.id = jobs[d].id, !.doc = d,
                                   !.agent = a]
      <3>1. r.at = "started_at" /\ r.agent = a
        BY DEF Idle
      <3>2. req' = [req EXCEPT ![w] = r] /\ (Timeouts \/ NoRequestPending(a))
        BY <2>1 DEF PopJob, Start
      <3> HIDE DEF r
      <3>3. req'[w] = r /\ \A u \in Workers \ {w} : req'[u] = req[u]
        BY <1>t, <3>2
      <3> QED BY <3>1, <3>2, <3>3 DEF HandlerStep, Popped
    <2>2. ASSUME NEW s, NEW P, held[a].doc # None, PostResult(w, a, s, P) PROVE HandlerStep(v)
      <3> DEFINE r == [Idle EXCEPT !.at = "update_results", !.doc = held[a].doc,
                                   !.id = jobs[held[a].doc].id, !.agent = a, !.state = s,
                                   !.done = P]
      <3>1. r.at = "update_results" /\ r.agent = a /\ r.doc = held[a].doc
            /\ r.id = jobs[held[a].doc].id
        BY DEF Idle
      <3>2. req' = [req EXCEPT ![w] = r] /\ (Timeouts \/ NoRequestPending(a))
        BY <2>2 DEF PostResult, Start
      <3> HIDE DEF r
      <3>3. req'[w] = r /\ \A u \in Workers \ {w} : req'[u] = req[u]
        BY <1>t, <3>2
      <3> QED BY <2>2, <3>1, <3>2, <3>3 DEF HandlerStep, Posted
    <2> QED BY <1>2, <2>1, <2>2
            DEF AgentRequest, Announce, ReportPhase, ReportOutcome, Working
  <1>3. ASSUME NEW w \in Workers, UpdateResults(w) \/ LogResult(w) PROVE HandlerStep(v)
    <2>1. Reporting(w)
      BY <1>3 DEF UpdateResults, UpdateAndGo, LogResult, At, Reporting
    <2>p. PICK p \in {"clear_result", "log_result"} : \E E :
              req' = [req EXCEPT ![w] = [req[w] EXCEPT !.at = p, !.new = E]]
      BY <1>3, ResultRequest
    <2>2. PICK E : req' = [req EXCEPT ![w] = [req[w] EXCEPT !.at = p, !.new = E]]
      BY <2>p
    <2>3. req'[w] = [req[w] EXCEPT !.at = p, !.new = E] /\ (v # w => req'[v] = req[v])
      BY <1>t, <2>2
    <2>4. /\ req'[w].at = p /\ req'[w].doc = req[w].doc /\ req'[w].agent = req[w].agent
          /\ req'[w].id = req[w].id
      BY <1>t, <2>3 DEF Request
    <2>5. GoesOn(w)
      BY <2>p, <2>1, <2>4 DEF GoesOn, Reporting, Dispatching
    <2> QED BY <2>3, <2>5 DEF HandlerStep
  <1>4. ASSUME NEW w \in Workers, UserRequest(w) \/ Continue(w) \/ HandlerDies(w)
        PROVE  HandlerStep(v)
    BY <1>1, <1>3, <1>4, QuietRequests
  <1>5. CASE \/ \E a \in Agents : AgentLetsGo(a)
             \/ \E d \in Docs : Expire(d)
             \/ UNCHANGED vars
    BY <1>5 DEF AgentLetsGo, Expire, vars, HandlerStep
  <1> QED BY <1>2, <1>4, <1>5 DEF Next

\* A document that an agent got stays its document, so Reported is preserved.
LEMMA ReportedStep == ASSUME IInv, Reported, [Next]_vars PROVE Reported'
  <1> SUFFICES ASSUME NEW w \in Workers, Reporting(w)'
               PROVE  /\ req'[w].doc \in Docs /\ req'[w].agent \in Agents
                      /\ jobs'[req'[w].doc].agent = req'[w].agent
                      /\ jobs'[req'[w].doc].id = req'[w].id
    BY DEF Reported, Reporting
  <1>0. None \notin Agents
    BY JobStoreAssumption
  <1>1. CASE req'[w] = req[w] \/ GoesOn(w)
    <2>1. /\ req'[w].doc = req[w].doc /\ req'[w].agent = req[w].agent /\ req'[w].id = req[w].id
          /\ Reporting(w)
      BY <1>1 DEF GoesOn, Reporting
    <2> QED BY <1>0, <2>1, OwnersStay DEF Reported
  <1>2. ASSUME NEW a \in Agents, Posted(w, a) PROVE req'[w].doc \in Docs /\ req'[w].agent \in Agents
                      /\ jobs'[req'[w].doc].agent = req'[w].agent
                      /\ jobs'[req'[w].doc].id = req'[w].id
    <2>1. held[a].doc \in Docs /\ jobs[held[a].doc].agent = a
      BY <1>2 DEF Posted, IInv, TypeOK, Held, Owned
    <2> QED BY <1>0, <1>2, <2>1, OwnersStay DEF Posted
  <1>3. ~ \E a \in Agents : Popped(w, a)
    BY DEF Popped, Reporting
  <1> QED BY <1>1, <1>2, <1>3, HandlerSteps DEF HandlerStep

(***************************************************************************)
(* The quiet steps, which insert no document and neither store nor log a   *)
(* result, preserve LogFacts for one reason.                               *)
(***************************************************************************)
QuietDoc(d) ==
    /\ jobs'[d].id = jobs[d].id /\ jobs'[d].back = jobs[d].back
    /\ jobs'[d].state = "absent" <=> jobs[d].state = "absent"
    /\ jobs[d].state = "expired" => jobs'[d].state = "expired"
    /\ jobs'[d].state # "expired" => Shown(jobs[d]) \subseteq Shown(jobs'[d])

QuietPending(w) ==
    \A e \in Completions : Pending(w, e)' => Pending(w, e) /\ req'[w].id = req[w].id

QuietLog == \A j \in JobIds, e \in Completions : events'[j][e] = events[j][e]

LEMMA FreshBefore ==
    ASSUME \A d \in Docs : QuietDoc(d), NEW j, NEW e, Fresh(j, e)' PROVE Fresh(j, e)
  BY DEF Fresh, QuietDoc

LEMMA InOrderStays == ASSUME InOrder, \A d \in Docs : QuietDoc(d) PROVE InOrder'
  BY DEF InOrder, QuietDoc

\* The first document of a job is still the first, and shows what it showed.
LEMMA FirstShows ==
    ASSUME \A d \in Docs : QuietDoc(d), NEW j \in JobIds, NEW e \in Completions, Fresh(j, e)',
           \E d \in Docs : FirstOf(d, j) /\ e \in Shown(jobs[d])
    PROVE  \E d \in Docs : FirstOf(d, j)' /\ e \in Shown(jobs'[d])
  <1>1. PICK d \in Docs : FirstOf(d, j) /\ e \in Shown(jobs[d])
    OBVIOUS
  <1>2. FirstOf(d, j)'
    BY <1>1 DEF FirstOf, QuietDoc
  <1>3. jobs'[d].state # "expired"
    BY <1>2 DEF FirstOf, Fresh
  <1> QED BY <1>1, <1>2, <1>3 DEF QuietDoc

LEMMA QuietPreserves ==
    ASSUME IInv, Reported, LogFacts, \A d \in Docs : QuietDoc(d),
           \A w \in Workers : QuietPending(w), QuietLog
    PROVE  LogFacts'
  <1>1. InOrder'
    BY InOrderStays DEF LogFacts
  <1>2. LogIsTrue'
    <2> SUFFICES ASSUME NEW j \in JobIds, NEW e \in Completions, Fresh(j, e)',
                        \/ events'[j][e] > 0
                        \/ \E w \in Workers : Pending(w, e)' /\ req'[w].id = j
                 PROVE  \E d \in Docs : FirstOf(d, j)' /\ e \in Shown(jobs'[d])
      BY DEF LogIsTrue, Completions, Shown, FirstOf, Fresh, Pending, Reporting
    <2>1. Fresh(j, e)
      BY FreshBefore
    <2>2. \/ events[j][e] > 0
          \/ \E w \in Workers : Pending(w, e) /\ req[w].id = j
      BY DEF QuietLog, QuietPending
    <2>3. \E d \in Docs : FirstOf(d, j) /\ e \in Shown(jobs[d])
      BY <2>1, <2>2 DEF LogFacts, LogIsTrue
    <2> QED BY <2>3, FirstShows
  <1>3. LoggedByOne'
    <2> SUFFICES ASSUME NEW w \in Workers, NEW e \in Completions, Pending(w, e)',
                        Fresh(req[w].id, e)', req'[w].id = req[w].id
                 PROVE  /\ events'[req[w].id][e] = 0
                        /\ \A v \in Workers :
                              Pending(v, e)' /\ req'[v].id = req[w].id => v = w
      BY DEF LoggedByOne, Completions, Fresh, Pending, Reporting, QuietPending
    <2>1. Pending(w, e) /\ Fresh(req[w].id, e)
      BY FreshBefore DEF QuietPending
    <2>2. req[w].id \in JobIds
      BY <2>1 DEF IInv, Known, Pending, Reporting, At
    <2> QED BY <2>1, <2>2 DEF LogFacts, LoggedByOne, QuietLog, QuietPending
  <1>4. AtMostOnce'
    <2> SUFFICES ASSUME NEW j \in JobIds, NEW e \in Completions, Fresh(j, e)'
                 PROVE  events'[j][e] <= 1
      BY DEF AtMostOnce, Completions, Fresh
    <2> QED BY FreshBefore DEF LogFacts, AtMostOnce, QuietLog
  <1> QED BY <1>1, <1>2, <1>3, <1>4 DEF LogFacts

LEMMA StillQuietDocs == ASSUME UNCHANGED jobs, NEW d \in Docs PROVE QuietDoc(d)
  BY DEF QuietDoc

LEMMA MildlyQuiet ==
    ASSUME IInv, NEW e \in Docs, NEW x \in Doc, jobs' = [jobs EXCEPT ![e] = x],
           x.id = jobs[e].id, x.done = jobs[e].done, x.back = jobs[e].back,
           \/ x.state = jobs[e].state
           \/ x.state = "running" /\ jobs[e].state = "waiting"
           \/ x.state = "cancelled" /\ jobs[e].state \notin {"absent", "complete", "expired"}
           \/ x.state = "expired" /\ jobs[e].state # "absent",
           NEW d \in Docs
    PROVE  QuietDoc(d)
  <1>1. jobs'[d] = IF d = e THEN x ELSE jobs[d]
    BY DEF IInv, TypeOK
  <1> QED BY <1>1 DEF QuietDoc, Shown

LEMMA QuietDocs ==
    ASSUME IInv, NEW d \in Docs,
           \/ \E w \in Workers : MarkStarted(w) \/ AttachmentsReceived(w)
           \/ \E w \in Workers, j \in JobIds : CancelJob(w, j)
           \/ \E e \in Docs : Expire(e)
           \/ \E w \in Workers, a \in Agents, e \in Docs : PopJob(w, a, e)
    PROVE  QuietDoc(d)
  <1>t. jobs \in [Docs -> Doc]
    BY DEF IInv, TypeOK
  <1>1. ASSUME NEW w \in Workers, MarkStarted(w), ~ UNCHANGED jobs PROVE QuietDoc(d)
    <2>1. PICK e \in Docs : jobs' = [jobs EXCEPT ![e] = [jobs[e] EXCEPT !.started = TRUE]]
      BY <1>1, <1>t DEF MarkStarted, UpdateFirst, IsFirst, WithId
    <2> DEFINE x == [jobs[e] EXCEPT !.started = TRUE]
    <2>e. jobs[e] \in Doc
      BY <1>t
    <2>2. x \in Doc
      BY <2>e, DocTypes
    <2>3. x.id = jobs[e].id /\ x.done = jobs[e].done /\ x.back = jobs[e].back
          /\ x.state = jobs[e].state
      BY <2>e DEF Doc
    <2> HIDE DEF x
    <2> QED BY <2>1, <2>2, <2>3, MildlyQuiet DEF x
  <1>2. ASSUME NEW w \in Workers, AttachmentsReceived(w), ~ UNCHANGED jobs PROVE QuietDoc(d)
    <2>1. PICK e \in Docs : jobs' = [jobs EXCEPT ![e] = [jobs[e] EXCEPT !.att = "complete"]]
      BY <1>2, <1>t DEF AttachmentsReceived, UpdateFirst, IsFirst, WithId
    <2> DEFINE x == [jobs[e] EXCEPT !.att = "complete"]
    <2>e. jobs[e] \in Doc
      BY <1>t
    <2>2. x \in Doc
      BY <2>e, DocTypes
    <2>3. x.id = jobs[e].id /\ x.done = jobs[e].done /\ x.back = jobs[e].back
          /\ x.state = jobs[e].state
      BY <2>e DEF Doc
    <2> HIDE DEF x
    <2> QED BY <2>1, <2>2, <2>3, MildlyQuiet DEF x
  <1>3. ASSUME NEW w \in Workers, NEW j \in JobIds, CancelJob(w, j), ~ UNCHANGED jobs
        PROVE  QuietDoc(d)
    <2>1. PICK e \in Cancellable(j) :
              jobs' = [jobs EXCEPT ![e] = [jobs[e] EXCEPT !.state = "cancelled"]]
      BY <1>3, <1>t DEF CancelJob, UpdateFirst, IsFirst
    <2> DEFINE x == [jobs[e] EXCEPT !.state = "cancelled"]
    <2>e. /\ e \in Docs /\ jobs[e] \in Doc /\ jobs[e].state \notin {"absent", "complete", "expired"}
      BY <1>t, JobStoreAssumption
      DEF Cancellable, WithId, Stored, FinalStates, JobStates, ResultStates
    <2>2. x \in Doc
      BY <2>e, DocTypes
    <2>3. x.id = jobs[e].id /\ x.done = jobs[e].done /\ x.back = jobs[e].back
          /\ x.state = "cancelled"
      BY <2>e DEF Doc
    <2> HIDE DEF x
    <2> QED BY <2>e, <2>1, <2>2, <2>3, MildlyQuiet DEF x
  <1>4. ASSUME NEW e \in Docs, Expire(e) PROVE QuietDoc(d)
    <2> DEFINE x == [jobs[e] EXCEPT !.state = "expired"]
    <2>e. jobs[e] \in Doc /\ jobs[e].state # "absent"
      BY <1>t, <1>4, JobStoreAssumption DEF Expire, Stored, JobStates, ResultStates
    <2>1. jobs' = [jobs EXCEPT ![e] = x]
      BY <1>4 DEF Expire
    <2>2. x \in Doc
      BY <2>e, DocTypes
    <2>3. x.id = jobs[e].id /\ x.done = jobs[e].done /\ x.back = jobs[e].back
          /\ x.state = "expired"
      BY <2>e DEF Doc
    <2> HIDE DEF x
    <2> QED BY <2>e, <2>1, <2>2, <2>3, MildlyQuiet
  <1>5. ASSUME NEW w \in Workers, NEW a \in Agents, NEW e \in Docs, PopJob(w, a, e)
        PROVE  QuietDoc(d)
    <2> DEFINE y == [jobs[e] EXCEPT !.state = "running", !.agent = a]
    <2>e. jobs[e] \in Doc /\ jobs[e].state = "waiting"
      BY <1>t, <1>5 DEF PopJob, Eligible
    <2>1. jobs' = [jobs EXCEPT ![e] = y]
      BY <1>5 DEF PopJob
    <2>2. y \in Doc
      BY <2>e, DocTypes
    <2>3. y.id = jobs[e].id /\ y.done = jobs[e].done /\ y.back = jobs[e].back
          /\ y.state = "running"
      BY <2>e DEF Doc
    <2> HIDE DEF y
    <2> QED BY <2>e, <2>1, <2>2, <2>3, MildlyQuiet
  <1> QED BY <1>1, <1>2, <1>3, <1>4, <1>5, StillQuietDocs

\* Events of other names are added, or none.
LEMMA OtherEvents ==
    ASSUME IInv, NEW j, NEW e, AddEvent(j, e), e \notin Completions PROVE QuietLog
  <1>1. events \in [JobIds -> [Event -> Nat]]
    BY DEF IInv, TypeOK
  <1>2. ASSUME NEW k \in JobIds, NEW f \in Completions PROVE events'[k][f] = events[k][f]
    <2>1. f # e /\ f \in Event
      BY DEF Completions
    <2> QED BY <1>1, <2>1 DEF AddEvent
  <1> QED BY <1>2 DEF QuietLog

LEMMA QuietRequestPending == ASSUME NEW w \in Workers, QuietRequest(w) PROVE QuietPending(w)
  BY DEF QuietRequest, GoesOn, QuietPending, Pending, Reporting

\* The requests of agents start with nothing to log.
LEMMA AgentPending ==
    ASSUME IInv, NEW v \in Workers, NEW w \in Workers, NEW a \in Agents, AgentRequest(w, a)
    PROVE  QuietPending(v)
  <1>t. req \in [Workers -> Request]
    BY DEF IInv, TypeOK
  <1>0. \E r : req' = [req EXCEPT ![w] = r] /\ r.new = {}
    <2>1. ASSUME NEW d \in Docs, PopJob(w, a, d)
          PROVE  \E r : req' = [req EXCEPT ![w] = r] /\ r.new = {}
      <3> DEFINE x == [Idle EXCEPT !.at = "started_at", !.id = jobs[d].id, !.doc = d,
                                   !.agent = a]
      <3>1. x.new = {}
        BY DEF Idle
      <3>2. req' = [req EXCEPT ![w] = x]
        BY <2>1 DEF PopJob, Start
      <3> HIDE DEF x
      <3> QED BY <3>1, <3>2
    <2>2. ASSUME NEW s, NEW P, PostResult(w, a, s, P)
          PROVE  \E r : req' = [req EXCEPT ![w] = r] /\ r.new = {}
      <3> DEFINE x == [Idle EXCEPT !.at = "update_results", !.doc = held[a].doc,
                                   !.id = jobs[held[a].doc].id, !.agent = a, !.state = s,
                                   !.done = P]
      <3>1. x.new = {}
        BY DEF Idle
      <3>2. req' = [req EXCEPT ![w] = x]
        BY <2>2 DEF PostResult, Start
      <3> HIDE DEF x
      <3> QED BY <3>1, <3>2
    <2> QED BY <2>1, <2>2 DEF AgentRequest, Announce, ReportPhase, ReportOutcome
  <1>1. PICK r : req' = [req EXCEPT ![w] = r] /\ r.new = {}
    BY <1>0
  <1>2. req'[v] = IF v = w THEN r ELSE req[v]
    BY <1>t, <1>1
  <1> QED BY <1>1, <1>2 DEF QuietPending, Pending, Reporting

LEMMA QuietSteps ==
    ASSUME IInv, Reported, LogFacts,
           \/ \E w \in Workers :
                 \/ UserRequest(w) /\ ~(\E s \in Submissions : AddJob(w, s))
                 \/ \E a \in Agents : AgentRequest(w, a)
                 \/ Continue(w) /\ ~UpdateResults(w) /\ ~LogResult(w)
                 \/ HandlerDies(w)
           \/ \E a \in Agents : AgentLetsGo(a)
           \/ \E d \in Docs : Expire(d)
           \/ UNCHANGED vars
    PROVE  LogFacts'
  <1>0. UNCHANGED events => QuietLog
    BY DEF QuietLog
  <1>s. UNCHANGED req => \A v \in Workers : QuietPending(v)
    BY DEF QuietPending, Pending, Reporting
  <1>1. ASSUME NEW w \in Workers, UserRequest(w), ~(\E s \in Submissions : AddJob(w, s))
        PROVE  LogFacts'
    <2>1. \A v \in Workers : QuietPending(v)
      BY <1>1, QuietRequests, QuietRequestPending
    <2>2. PICK j \in JobIds : GetAttachmentsStatus(w, j) \/ CancelJob(w, j)
      BY <1>1 DEF UserRequest
    <2>3. \A d \in Docs : QuietDoc(d)
      BY <2>2, QuietDocs, StillQuietDocs DEF GetAttachmentsStatus
    <2>4. UNCHANGED events
      BY <2>2 DEF GetAttachmentsStatus, CancelJob
    <2> QED BY <1>0, <2>1, <2>3, <2>4, QuietPreserves
  <1>2. ASSUME NEW w \in Workers, NEW a \in Agents, AgentRequest(w, a) PROVE LogFacts'
    <2>1. \A v \in Workers : QuietPending(v)
      BY <1>2, AgentPending
    <2>2. \A d \in Docs : QuietDoc(d)
      BY <1>2, QuietDocs, StillQuietDocs
      DEF AgentRequest, Announce, ReportPhase, ReportOutcome, PostResult
    <2>3. UNCHANGED events
      BY <1>2 DEF AgentRequest, PopJob, Announce, ReportPhase, ReportOutcome, PostResult
    <2> QED BY <1>0, <2>1, <2>2, <2>3, QuietPreserves
  <1>3. ASSUME NEW w \in Workers, Continue(w), ~UpdateResults(w), ~LogResult(w) PROVE LogFacts'
    <2>1. \A v \in Workers : QuietPending(v)
      BY <1>3, QuietRequests, QuietRequestPending
    <2>2. \A d \in Docs : QuietDoc(d)
      BY <1>3, QuietDocs, StillQuietDocs
      DEF Continue, LogSubmitted, SaveFile, LogAssigned, SetAgentJob, ReplyJob, ReplyLost,
          ClearAfterResult, ReturnResult, ClearAfterCancel, LogCancelled
    <2>3. QuietLog
      <3>1. CASE LogSubmitted(w) \/ LogAssigned(w) \/ LogCancelled(w)
        BY <3>1, OtherEvents DEF LogSubmitted, LogAssigned, LogCancelled, Ev, Completions
      <3>2. CASE UNCHANGED events
        BY <1>0, <3>2
      <3> QED BY <1>3, <3>1, <3>2
              DEF Continue, SaveFile, AttachmentsReceived, MarkStarted, SetAgentJob, ReplyJob,
                  ReplyLost, ClearAfterResult, ReturnResult, ClearAfterCancel
    <2> QED BY <2>1, <2>2, <2>3, QuietPreserves
  <1>4. ASSUME NEW w \in Workers, HandlerDies(w) PROVE LogFacts'
    <2>1. \A v \in Workers : QuietPending(v)
      BY <1>4, QuietRequests, QuietRequestPending
    <2> QED BY <1>0, <1>4, <2>1, StillQuietDocs, QuietPreserves DEF HandlerDies
  <1>5. CASE \/ \E a \in Agents : AgentLetsGo(a)
             \/ UNCHANGED vars
    BY <1>0, <1>s, <1>5, StillQuietDocs, QuietPreserves DEF AgentLetsGo, vars
  <1>6. ASSUME NEW d \in Docs, Expire(d) PROVE LogFacts'
    BY <1>0, <1>s, <1>6, QuietDocs, QuietPreserves DEF Expire
  <1> QED BY <1>1, <1>2, <1>3, <1>4, <1>5, <1>6

(***************************************************************************)
(* The other steps.                                                        *)
(***************************************************************************)

\* A document is inserted behind all others, so no job has another first one.
LEMMA AddJobLog ==
    ASSUME IInv, Reported, LogFacts, NEW w \in Workers, NEW s \in Submissions, AddJob(w, s)
    PROVE  LogFacts'
  <1>t. jobs \in [Docs -> Doc] /\ s \in Submission
    BY JobStoreAssumption DEF IInv, TypeOK
  <1>1. PICK d \in Docs : IsFirst(d, Free) /\ jobs' = [jobs EXCEPT ![d] = NewDoc(s)]
    BY DEF AddJob
  <1>2. \A e \in Docs : jobs'[e] = IF e = d THEN NewDoc(s) ELSE jobs[e]
    BY <1>1, <1>t
  <1>3. /\ NewDoc(s).id = s.id /\ NewDoc(s).state = "waiting" /\ s.id \in JobIds
    BY <1>t DEF NewDoc, AbsentDoc, Submission
  <1>4. /\ jobs[d].state = "absent" /\ jobs[d].id = None
        /\ \A e \in Docs : d < e => jobs[e].state = "absent" /\ jobs[e].id = None
    BY <1>1, FirstFree DEF LogFacts, InOrder
  <1>5. UNCHANGED events
    BY DEF AddJob
  <1>6. \A v \in Workers : QuietPending(v)
    BY QuietRequests, QuietRequestPending DEF UserRequest
  <1>7. ASSUME NEW j \in JobIds, NEW e, Fresh(j, e)' PROVE Fresh(j, e)
    BY <1>2, <1>4, <1>7, JobStoreAssumption DEF Fresh
  <1>8. InOrder'
    <2> SUFFICES ASSUME NEW x \in Docs, jobs'[x].state = "absent"
                 PROVE  /\ jobs'[x].id = None
                        /\ \A e \in Docs : x < e => jobs'[e].state = "absent"
      BY DEF InOrder
    <2>1. x # d /\ jobs[x].state = "absent"
      BY <1>2, <1>3
    <2>2. d < x
      BY <1>1, <2>1, JobStoreAssumption DEF IsFirst, Free
    <2>3. \A e \in Docs : x < e => e # d
      BY <2>2, JobStoreAssumption
    <2> QED BY <1>2, <2>1, <2>3 DEF LogFacts, InOrder
  <1>9. ASSUME NEW j \in JobIds, NEW x \in Docs, FirstOf(x, j)
        PROVE  FirstOf(x, j)' /\ jobs'[x] = jobs[x]
    <2>1. x # d /\ jobs[x].id # None
      BY <1>4, <1>9, JobStoreAssumption DEF FirstOf
    <2>2. x <= d
      BY <1>4, <2>1, JobStoreAssumption
    <2>3. ASSUME NEW e \in Docs, jobs'[e].id = j PROVE x <= e
      BY <1>2, <1>9, <2>2, <2>3 DEF FirstOf
    <2>4. jobs'[x] = jobs[x]
      BY <1>2, <2>1
    <2> QED BY <1>9, <2>3, <2>4 DEF FirstOf
  <1>10. LogIsTrue'
    <2> SUFFICES ASSUME NEW j \in JobIds, NEW e \in Completions, Fresh(j, e)',
                        \/ events'[j][e] > 0
                        \/ \E v \in Workers : Pending(v, e)' /\ req'[v].id = j
                 PROVE  \E x \in Docs : FirstOf(x, j)' /\ e \in Shown(jobs'[x])
      BY DEF LogIsTrue, Completions, Shown, FirstOf, Fresh, Pending, Reporting
    <2>1. \/ events[j][e] > 0
          \/ \E v \in Workers : Pending(v, e) /\ req[v].id = j
      BY <1>5, <1>6 DEF QuietPending
    <2>2. PICK x \in Docs : FirstOf(x, j) /\ e \in Shown(jobs[x])
      BY <1>7, <2>1 DEF LogFacts, LogIsTrue
    <2> QED BY <1>9, <2>2
  <1>11. LoggedByOne'
    <2> SUFFICES ASSUME NEW v \in Workers, NEW e \in Completions, Pending(v, e)',
                        Fresh(req[v].id, e)', req'[v].id = req[v].id
                 PROVE  /\ events[req[v].id][e] = 0
                        /\ \A u \in Workers :
                              Pending(u, e)' /\ req'[u].id = req[v].id => u = v
      BY <1>5, <1>6 DEF LoggedByOne, Completions, Fresh, Pending, Reporting, QuietPending
    <2>1. Pending(v, e)
      BY <1>6 DEF QuietPending
    <2>2. req[v].id \in JobIds
      BY <2>1 DEF IInv, Known, Pending, Reporting, At
    <2> QED BY <1>6, <1>7, <2>1, <2>2 DEF LogFacts, LoggedByOne, QuietPending
  <1>12. AtMostOnce'
    <2> SUFFICES ASSUME NEW j \in JobIds, NEW e \in Completions, Fresh(j, e)'
                 PROVE  events[j][e] <= 1
      BY <1>5 DEF AtMostOnce, Completions, Fresh
    <2> QED BY <1>7 DEF LogFacts, AtMostOnce
  <1> QED BY <1>8, <1>10, <1>11, <1>12 DEF LogFacts

\* The completions among the events of a result are those that its document
\* shows then and did not show before.
LEMMA NewCompletions ==
    ASSUME NEW doc \in Doc, NEW r \in Request, NEW e \in NewResultEvents(doc, r),
           e \in Completions
    PROVE  e \notin Shown(doc) /\ e \in Shown(WithResult(doc, r))
  <1> DEFINE x == WithResult(doc, r)
  <1>n. None # "complete"
    BY JobStoreAssumption
  <1>0. /\ x.state = IF r.state = None THEN doc.state ELSE r.state
        /\ x.done = IF r.done = {} THEN doc.done ELSE r.done
    BY WithResultFields
  <1> HIDE DEF x
  <1>1. CASE e \in PhaseCompletedEvents(doc, r)
    <2>1. PICK p \in r.done \ doc.done : e = Ev("phase_completed", p)
      BY <1>1 DEF PhaseCompletedEvents
    <2>2. p \in x.done
      BY <1>0, <2>1
    <2>3. e \notin Shown(doc)
      BY <2>1 DEF Shown, Ev
    <2>4. e \in Shown(x)
      BY <2>1, <2>2 DEF Shown
    <2> QED BY <2>3, <2>4 DEF x
  <1>2. CASE e \in LifecycleEvents(doc, r)
    <2>1. e = Ev("completed", None) /\ r.state = "complete" /\ doc.state # "complete"
      BY <1>2 DEF LifecycleEvents, Ev, Completions
    <2>2. x.state = "complete"
      BY <1>0, <1>n, <2>1
    <2>3. e \notin Shown(doc)
      BY <2>1 DEF Shown, Ev
    <2>4. e \in Shown(x)
      BY <2>1, <2>2 DEF Shown
    <2> QED BY <2>3, <2>4 DEF x
  <1> QED BY <1>1, <1>2 DEF NewResultEvents

\* A result is stored in the first document of its job, if none has expired.
LEMMA ResultStored ==
    ASSUME IInv, Reported, LogFacts, NEW w \in Workers, UpdateResults(w)
    PROVE  LET r == req[w] IN
           \E p \in {"clear_result", "log_result"} : \E E :
              /\ req' = [req EXCEPT ![w] = [r EXCEPT !.at = p, !.new = E]]
              /\ \/ \E d \in Docs :
                       /\ FirstOf(d, r.id) \/ \E x \in Docs : jobs[x].id = r.id /\ jobs[x].state = "expired"
                       /\ jobs[d].id = r.id /\ jobs[d].state \in JobStates
                       /\ jobs' = [jobs EXCEPT ![d] = WithResult(jobs[d], r)]
                       /\ E = NewResultEvents(jobs[d], r)
                 \/ /\ \E x \in Docs : jobs[x].id = r.id /\ jobs[x].state = "expired"
                    /\ UNCHANGED jobs
  <1> DEFINE r == req[w]
             Gone == \E x \in Docs : jobs[x].id = r.id /\ jobs[x].state = "expired"
  <1>t. jobs \in [Docs -> Doc] /\ req \in [Workers -> Request] /\ r \in Request
    BY DEF IInv, TypeOK
  <1>1. /\ r.doc \in Docs /\ r.agent \in Agents /\ jobs[r.doc].agent = r.agent
        /\ jobs[r.doc].id = r.id /\ r.id \in JobIds
    BY DEF UpdateResults, UpdateAndGo, At, Reported, Reporting, IInv, Known
  <1>2. ASSUME NEW x \in Docs, jobs[x].id = r.id, ~Gone PROVE x \in WithId(r.id)
    <2>1. jobs[x].state # "absent"
      BY <1>1, <1>2, JobStoreAssumption DEF LogFacts, InOrder
    <2>2. jobs[x].state \in JobStates
      BY <1>2, <1>t, <2>1 DEF Doc
    <2> QED BY <1>2, <2>2 DEF WithId, Stored
  <1>3. PICK p \in {"clear_result", "log_result"} :
            \/ \E d \in Docs : /\ IsFirst(d, WithId(r.id))
                               /\ jobs' = [jobs EXCEPT ![d] = WithResult(jobs[d], r)]
                               /\ req' = [req EXCEPT ![w].at = p,
                                                     ![w].new = NewResultEvents(jobs[d], r)]
            \/ /\ WithId(r.id) = {} /\ UNCHANGED jobs
               /\ req' = [req EXCEPT ![w].at = p, ![w].new = NewResultEvents(AbsentDoc, r)]
    BY DEF UpdateResults, UpdateAndGo
  <1>4. ASSUME NEW d \in Docs, IsFirst(d, WithId(r.id)),
               jobs' = [jobs EXCEPT ![d] = WithResult(jobs[d], r)],
               req' = [req EXCEPT ![w].at = p, ![w].new = NewResultEvents(jobs[d], r)]
        PROVE  \E E :
                 /\ req' = [req EXCEPT ![w] = [r EXCEPT !.at = p, !.new = E]]
                 /\ \E e \in Docs :
                       /\ FirstOf(e, r.id) \/ Gone
                       /\ jobs[e].id = r.id /\ jobs[e].state \in JobStates
                       /\ jobs' = [jobs EXCEPT ![e] = WithResult(jobs[e], r)]
                       /\ E = NewResultEvents(jobs[e], r)
    <2> DEFINE E == NewResultEvents(jobs[d], r)
    <2>1. req' = [req EXCEPT ![w] = [r EXCEPT !.at = p, !.new = E]]
      BY <1>t, <1>4
    <2>2. jobs[d].id = r.id /\ jobs[d].state \in JobStates
      BY <1>4 DEF IsFirst, WithId, Stored
    <2>3. FirstOf(d, r.id) \/ Gone
      BY <1>2, <1>4, <2>2 DEF IsFirst, FirstOf
    <2> HIDE DEF r, Gone
    <2> QED BY <1>4, <2>1, <2>2, <2>3
  <1>5. ASSUME WithId(r.id) = {}, UNCHANGED jobs,
               req' = [req EXCEPT ![w].at = p, ![w].new = NewResultEvents(AbsentDoc, r)]
        PROVE  \E E : /\ req' = [req EXCEPT ![w] = [r EXCEPT !.at = p, !.new = E]]
                      /\ Gone /\ UNCHANGED jobs
    <2> DEFINE E == NewResultEvents(AbsentDoc, r)
    <2>1. req' = [req EXCEPT ![w] = [r EXCEPT !.at = p, !.new = E]]
      BY <1>t, <1>5
    <2>2. Gone
      BY <1>1, <1>2, <1>5
    <2> QED BY <1>5, <2>1, <2>2
  <1> QED BY <1>3, <1>4, <1>5, Zenon

\* A result that is stored brings the completions its document did not show.
LEMMA UpdateResultsLog ==
    ASSUME IInv, Reported, LogFacts, NEW w \in Workers, UpdateResults(w) PROVE LogFacts'
  <1> DEFINE r == req[w]
             Gone == \E x \in Docs : jobs[x].id = r.id /\ jobs[x].state = "expired"
  <1>t. /\ jobs \in [Docs -> Doc] /\ req \in [Workers -> Request] /\ r \in Request
        /\ events \in [JobIds -> [Event -> Nat]]
    BY DEF IInv, TypeOK
  <1>1. r.id \in JobIds /\ At(w, "update_results") /\ UNCHANGED events
    BY DEF UpdateResults, UpdateAndGo, At, IInv, Known
  <1>2. PICK p \in {"clear_result", "log_result"} : \E E :
            /\ req' = [req EXCEPT ![w] = [r EXCEPT !.at = p, !.new = E]]
            /\ \/ \E d \in Docs :
                     /\ FirstOf(d, r.id) \/ Gone
                     /\ jobs[d].id = r.id /\ jobs[d].state \in JobStates
                     /\ jobs' = [jobs EXCEPT ![d] = WithResult(jobs[d], r)]
                     /\ E = NewResultEvents(jobs[d], r)
               \/ Gone /\ UNCHANGED jobs
    BY ResultStored, Zenon
  <1>3. PICK E :
            /\ req' = [req EXCEPT ![w] = [r EXCEPT !.at = p, !.new = E]]
            /\ \/ \E d \in Docs :
                     /\ FirstOf(d, r.id) \/ Gone
                     /\ jobs[d].id = r.id /\ jobs[d].state \in JobStates
                     /\ jobs' = [jobs EXCEPT ![d] = WithResult(jobs[d], r)]
                     /\ E = NewResultEvents(jobs[d], r)
               \/ Gone /\ UNCHANGED jobs
    BY <1>2
  <1>4. /\ req'[w].id = r.id /\ req'[w].new = E
        /\ \A v \in Workers : v # w => req'[v] = req[v]
    BY <1>t, <1>3 DEF Request
  <1>5. \A v \in Workers : v # w => QuietPending(v)
    BY <1>4 DEF QuietPending, Pending, Reporting
  <1>x. "expired" \notin JobStates /\ "absent" \notin JobStates
        /\ "expired" \notin ResultStates /\ "absent" \notin ResultStates
    BY JobStoreAssumption DEF JobStates, ResultStates
  \* One document may change, and what it shows less is taken back.
  <1>6. ASSUME NEW d \in Docs
        PROVE  /\ jobs'[d].id = jobs[d].id /\ jobs[d].back \subseteq jobs'[d].back
               /\ jobs'[d].state = "absent" <=> jobs[d].state = "absent"
               /\ jobs'[d].state = "expired" <=> jobs[d].state = "expired"
               /\ Shown(jobs[d]) \subseteq Shown(jobs'[d]) \cup jobs'[d].back
    <2>1. CASE jobs'[d] = jobs[d]
      BY <2>1
    <2>2. CASE jobs'[d] # jobs[d]
      <3>1. jobs[d].state \in JobStates /\ jobs'[d] = WithResult(jobs[d], r)
        BY <1>t, <1>3, <2>2
      <3> DEFINE x == WithResult(jobs[d], r)
      <3>2. /\ x.id = jobs[d].id /\ x.back = jobs[d].back \cup (Shown(jobs[d]) \ Shown(x))
            /\ x.state = IF r.state = None THEN jobs[d].state ELSE r.state
        BY <1>t, WithResultFields
      <3>3. r.state = None \/ r.state \in ResultStates
        BY <1>t DEF Request
      <3> HIDE DEF x, r
      <3>4. x.state \notin {"absent", "expired"}
        BY <1>x, <3>1, <3>2, <3>3
      <3>5. jobs'[d] = x
        BY <3>1 DEF x, r
      <3> QED BY <1>x, <3>1, <3>2, <3>4, <3>5
    <2> QED BY <2>1, <2>2
  <1>7. ASSUME NEW j, NEW e, Fresh(j, e)' PROVE Fresh(j, e)
    BY <1>6, <1>7 DEF Fresh
  \* What a job's first document shows it shows still, as long as it is fresh.
  <1>8. ASSUME NEW j \in JobIds, NEW e, Fresh(j, e)', NEW d \in Docs, FirstOf(d, j),
               e \in Shown(jobs[d])
        PROVE  FirstOf(d, j)' /\ e \in Shown(jobs'[d])
    <2>1. FirstOf(d, j)'
      BY <1>6, <1>8 DEF FirstOf
    <2>2. e \notin jobs'[d].back
      BY <1>8, <2>1 DEF Fresh, FirstOf
    <2> QED BY <1>6, <1>8, <2>1, <2>2
  <1>9. ASSUME NEW j, j = r.id, NEW e \in Completions, e \in E, Fresh(j, e)'
        PROVE  /\ ~ \E d \in Docs : FirstOf(d, j) /\ e \in Shown(jobs[d])
               /\ \E d \in Docs : FirstOf(d, j)' /\ e \in Shown(jobs'[d])
    <2>1. ~Gone
      BY <1>7, <1>9 DEF Fresh
    <2>2. PICK d \in Docs : /\ FirstOf(d, j)
                            /\ jobs' = [jobs EXCEPT ![d] = WithResult(jobs[d], r)]
                            /\ E = NewResultEvents(jobs[d], r)
      BY <1>3, <1>9, <2>1
    <2>3. jobs'[d] = WithResult(jobs[d], r) /\ jobs[d] \in Doc
      BY <1>t, <2>2
    <2>4. e \notin Shown(jobs[d]) /\ e \in Shown(jobs'[d])
      BY <1>t, <1>9, <2>2, <2>3, NewCompletions
    <2>5. ASSUME NEW x \in Docs, FirstOf(x, j) PROVE x = d
      BY <2>2, <2>5, JobStoreAssumption DEF FirstOf
    <2>6. FirstOf(d, j)'
      BY <1>6, <2>2 DEF FirstOf
    <2> QED BY <2>4, <2>5, <2>6
  <1>10. ASSUME NEW j, j = r.id, NEW e \in Completions, e \in E, Fresh(j, e)'
         PROVE  /\ events[r.id][e] = 0
                /\ ~ \E v \in Workers : Pending(v, e) /\ req[v].id = r.id
    <2>1. ~(\/ events[r.id][e] > 0
            \/ \E v \in Workers : Pending(v, e) /\ req[v].id = r.id)
      BY <1>1, <1>7, <1>9, <1>10 DEF LogFacts, LogIsTrue
    <2>2. events[r.id][e] \in Nat
      BY <1>t, <1>1 DEF Completions
    <2> QED BY <2>1, <2>2
  <1>11. InOrder'
    <2> SUFFICES ASSUME NEW d \in Docs, jobs'[d].state = "absent"
                 PROVE  jobs'[d].id = None /\ \A e \in Docs : d < e => jobs'[e].state = "absent"
      BY DEF InOrder
    <2> QED BY <1>6 DEF LogFacts, InOrder
  <1>12. LogIsTrue'
    <2> SUFFICES ASSUME NEW j \in JobIds, NEW e \in Completions, Fresh(j, e)',
                        \/ events'[j][e] > 0
                        \/ \E v \in Workers : Pending(v, e)' /\ req'[v].id = j
                 PROVE  \E d \in Docs : FirstOf(d, j)' /\ e \in Shown(jobs'[d])
      BY DEF LogIsTrue, Completions, Shown, FirstOf, Fresh, Pending, Reporting
    <2>1. CASE \/ events[j][e] > 0
               \/ \E v \in Workers : Pending(v, e) /\ req[v].id = j
      <3>1. PICK d \in Docs : FirstOf(d, j) /\ e \in Shown(jobs[d])
        BY <1>7, <2>1 DEF LogFacts, LogIsTrue
      <3> QED BY <1>8, <3>1
    <2>2. CASE Pending(w, e)' /\ req'[w].id = j
      BY <1>4, <1>9, <2>2 DEF Pending
    <2>3. \A v \in Workers : v # w /\ Pending(v, e)' => Pending(v, e) /\ req'[v].id = req[v].id
      BY <1>5 DEF QuietPending
    <2> HIDE DEF r
    <2> QED BY <1>1, <2>1, <2>2, <2>3
  <1>13. LoggedByOne'
    <2> SUFFICES ASSUME NEW v \in Workers, NEW e \in Completions, Pending(v, e)',
                        Fresh(req[v].id, e)', req'[v].id = req[v].id
                 PROVE  /\ events[req[v].id][e] = 0
                        /\ \A u \in Workers :
                              Pending(u, e)' /\ req'[u].id = req[v].id => u = v
      BY <1>1, <1>4 DEF LoggedByOne, Completions, Fresh, Pending, Reporting
    <2>1. ASSUME NEW u \in Workers, Pending(u, e)', u # w
          PROVE  Pending(u, e) /\ req'[u].id = req[u].id
      BY <1>5, <2>1 DEF QuietPending
    <2>2. Pending(w, e)' /\ Fresh(req[w].id, e)' =>
             /\ events[r.id][e] = 0
             /\ ~ \E u \in Workers : Pending(u, e) /\ req[u].id = r.id
      BY <1>4, <1>10 DEF Pending
    <2>3. CASE v = w
      BY <1>4, <2>1, <2>2, <2>3
    <2>4. CASE v # w
      <3>1. Pending(v, e) /\ Fresh(req[v].id, e)
        BY <1>7, <2>1, <2>4
      <3>2. ~(Pending(w, e)' /\ req'[w].id = req[v].id)
        BY <1>4, <2>2, <3>1
      <3> QED BY <2>1, <3>1, <3>2 DEF LogFacts, LoggedByOne
    <2> QED BY <2>3, <2>4
  <1>14. AtMostOnce'
    <2> SUFFICES ASSUME NEW j \in JobIds, NEW e \in Completions, Fresh(j, e)'
                 PROVE  events[j][e] <= 1
      BY <1>1 DEF AtMostOnce, Completions, Fresh
    <2> QED BY <1>7 DEF LogFacts, AtMostOnce
  <1> QED BY <1>11, <1>12, <1>13, <1>14 DEF LogFacts

\* An event is logged that was not in the log and that no other handler has.
LEMMA LogResultLog ==
    ASSUME IInv, Reported, LogFacts, NEW w \in Workers, LogResult(w) PROVE LogFacts'
  <1> DEFINE r == req[w]
  <1>t. req \in [Workers -> Request] /\ events \in [JobIds -> [Event -> Nat]] /\ r \in Request
    BY DEF IInv, TypeOK
  <1>1. PICK e \in r.new : /\ AddEvent(r.id, e)
                           /\ req' = [req EXCEPT ![w].new = @ \ {e}]
    BY DEF LogResult
  <1>2. At(w, "log_result") /\ UNCHANGED jobs /\ r.id \in JobIds
    BY DEF LogResult, IInv, Known, At
  <1>4. /\ req'[w].at = "log_result" /\ req'[w].id = r.id /\ req'[w].new = r.new \ {e}
        /\ \A v \in Workers : v # w => req'[v] = req[v]
    BY <1>t, <1>1, <1>2 DEF Request, At
  <1>5. \A j \in JobIds, f \in Event :
            events'[j][f] = IF j = r.id /\ f = e THEN events[j][f] + 1 ELSE events[j][f]
    BY <1>t, <1>1, <1>2 DEF AddEvent
  <1>6. \A d \in Docs : QuietDoc(d)
    BY <1>2, StillQuietDocs
  <1>7. ASSUME NEW v \in Workers, NEW f \in Completions, Pending(v, f)'
        PROVE  /\ Pending(v, f) /\ req'[v].id = req[v].id
               /\ v = w => f # e
    BY <1>2, <1>4, <1>7 DEF Pending, Reporting, At
  <1>8. Pending(w, e)
    BY <1>1, <1>2 DEF Pending, Reporting, At
  <1>9. InOrder'
    BY <1>6, InOrderStays DEF LogFacts
  <1>10. LogIsTrue'
    <2> SUFFICES ASSUME NEW j \in JobIds, NEW f \in Completions, Fresh(j, f)',
                        \/ events'[j][f] > 0
                        \/ \E v \in Workers : Pending(v, f)' /\ req'[v].id = j
                 PROVE  \E d \in Docs : FirstOf(d, j)' /\ f \in Shown(jobs'[d])
      BY DEF LogIsTrue, Completions, Shown, FirstOf, Fresh, Pending, Reporting
    <2>1. \/ events[j][f] > 0
          \/ \E v \in Workers : Pending(v, f) /\ req[v].id = j
      <3>1. CASE j = r.id /\ f = e
        BY <1>8, <3>1
      <3>2. CASE ~(j = r.id /\ f = e)
        BY <1>5, <1>7, <3>2 DEF Completions
      <3> QED BY <3>1, <3>2
    <2>2. Fresh(j, f)
      BY <1>6, FreshBefore
    <2>3. \E d \in Docs : FirstOf(d, j) /\ f \in Shown(jobs[d])
      BY <2>1, <2>2 DEF LogFacts, LogIsTrue
    <2> QED BY <1>6, <2>3, FirstShows
  <1>11. LoggedByOne'
    <2> SUFFICES ASSUME NEW v \in Workers, NEW f \in Completions, Pending(v, f)',
                        Fresh(req[v].id, f)', req'[v].id = req[v].id
                 PROVE  /\ events'[req[v].id][f] = 0
                        /\ \A u \in Workers :
                              Pending(u, f)' /\ req'[u].id = req[v].id => u = v
      BY <1>7 DEF LoggedByOne, Completions, Fresh, Pending, Reporting
    <2>1. Pending(v, f) /\ Fresh(req[v].id, f) /\ (v = w => f # e)
      BY <1>6, <1>7, FreshBefore
    <2>2. req[v].id \in JobIds /\ f \in Event
      BY <2>1 DEF IInv, Known, Pending, Reporting, At, Completions
    <2>3. /\ events[req[v].id][f] = 0
          /\ \A u \in Workers : Pending(u, f) /\ req[u].id = req[v].id => u = v
      BY <2>1 DEF LogFacts, LoggedByOne
    <2>4. ~(req[v].id = r.id /\ f = e)
      BY <1>8, <2>1, <2>3
    <2> QED BY <1>5, <1>7, <2>2, <2>3, <2>4
  <1>12. AtMostOnce'
    <2> SUFFICES ASSUME NEW j \in JobIds, NEW f \in Completions, Fresh(j, f)'
                 PROVE  events'[j][f] <= 1
      BY DEF AtMostOnce, Completions, Fresh
    <2>1. Fresh(j, f) /\ f \in Event
      BY <1>6, FreshBefore DEF Completions
    <2>2. CASE j = r.id /\ f = e
      BY <1>2, <1>5, <1>8, <2>1, <2>2 DEF LogFacts, LoggedByOne
    <2>3. CASE ~(j = r.id /\ f = e)
      BY <1>5, <2>1, <2>3 DEF LogFacts, AtMostOnce
    <2> QED BY <2>2, <2>3
  <1> QED BY <1>9, <1>10, <1>11, <1>12 DEF LogFacts

LEMMA LogStep == ASSUME IInv, Reported, LogFacts, [Next]_vars PROVE LogFacts'
  <1>1. ASSUME NEW w \in Workers, UserRequest(w) PROVE LogFacts'
    BY <1>1, QuietSteps, AddJobLog
  <1>2. ASSUME NEW w \in Workers, Continue(w) PROVE LogFacts'
    BY <1>2, QuietSteps, UpdateResultsLog, LogResultLog
  <1>3. CASE \/ \E w \in Workers : HandlerDies(w) \/ \E a \in Agents : AgentRequest(w, a)
             \/ \E a \in Agents : AgentLetsGo(a)
             \/ \E d \in Docs : Expire(d)
             \/ UNCHANGED vars
    BY <1>3, QuietSteps
  <1> QED BY <1>1, <1>2, <1>3 DEF Next

\* The log of a job holds each completion once (LoggedOnce), with any number of
\* agents and handlers, repeated and delayed results, killed handlers and
\* job_ids that are used again.  What makes it so is that the update hands back
\* the data it replaced: of two results with the same completion one finds that
\* the document shows it already.
THEOREM CompletionsLoggedOnce == Spec => []LoggedOnce
  <1>1. Init => Reported /\ LogFacts
    <2> SUFFICES ASSUME Init PROVE Reported /\ LogFacts
      OBVIOUS
    <2>1. /\ \A d \in Docs : jobs[d] = AbsentDoc
          /\ \A w \in Workers : req[w] = Idle
          /\ \A j \in JobIds, e \in Event : events[j][e] = 0
      BY DEF Init
    <2> QED BY <2>1
            DEF Reported, LogFacts, InOrder, LogIsTrue, LoggedByOne, AtMostOnce, Reporting,
                Pending, Completions, AbsentDoc, Idle
  <1>2. IInv /\ Reported /\ LogFacts /\ [Next]_vars => Reported' /\ LogFacts'
    BY ReportedStep, LogStep
  <1>3. LogFacts => LoggedOnce
    BY DEF LogFacts, AtMostOnce, LoggedOnce, Completions, Fresh
  <1> QED BY <1>1, <1>2, <1>3, Invariance, PTL DEF Spec
=============================================================================
