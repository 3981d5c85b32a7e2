---------------------------- MODULE MultiDevice ----------------------------
(***************************************************************************)
(* Multi-device jobs.  A parent job is run by an agent without a device,   *)
(* whose connector submits a job for each device that it needs and waits   *)
(* until all of them are allocated.  Then its tests use the devices, and   *)
(* at the end its cleanup cancels the jobs.                                *)
(*                                                                         *)
(* A sub job waits in a queue until the agent of its device is free, is    *)
(* provisioned, and is then kept "allocated": its agent polls the state of *)
(* the sub job and that of the parent job.  Parents compete for devices.   *)
(*                                                                         *)
(* Of the job that an agent runs (AgentJob) only what the others see of it *)
(* is left here; the server is a table of job states.                      *)
(***************************************************************************)
EXTENDS FiniteSets, Naturals

CONSTANTS
    Parents,
    Subs,       \* numbers, in the order of the lists of their parents
    Devices,
    None,
    ParentOf,   \* the parent of each sub job
    DeviceOf,   \* the device that each sub job asks for
    Malformed,  \* the entries of the lists that are no dicts
    Mishaps,    \* what may happen: calls are "lost", the provisioning of a parent
                \* is "stopped" by its agent, the agent of a parent is "killed"
    MaxCancels  \* bound: the number of cancellations by users

Of(p)     == {s \in Subs : ParentOf[s] = p}
Wanted(p) == Of(p) \ Malformed
First(S)  == CHOOSE s \in S : \A t \in S : s <= t

\* The points of the connector and the agent of a parent.
Waiting   == {"look", "poll", "clock"}
Provision == {"create", "cancel", "list"} \cup Waiting
Points    == Provision \cup {"check", "announce", "test", "cleanup", "outcome", "over", "dead"}

Over      == {"cancelled", "complete"}
SubStates == {"none", "waiting", "running", "allocated"} \cup Over

ASSUME MultiAssumption ==
    /\ Subs \subseteq Nat /\ IsFiniteSet(Subs) /\ None \notin Subs /\ MaxCancels \in Nat
    /\ ParentOf \in [Subs -> Parents] /\ DeviceOf \in [Subs -> Devices]
    /\ Malformed \subseteq Subs
    /\ Mishaps \subseteq {"lost", "stopped", "killed"}
    /\ \A p \in Parents : Of(p) # {}

VARIABLES
    parentState, \* job_state of the parents: "active" or over
    subState,    \* job_state of the sub jobs
    pc,          \* the point of each parent
    jobs,        \* the sub jobs it knows the job_id of
    unallocated, \* those it has not seen allocated yet
    polled,      \* those it has polled in this pass
    toCancel,    \* those it has yet to cancel
    late,        \* is the allocation timeout over?
    listed,      \* the jobs in job_list.json
    mishap,      \* was a call that makes or cancels sub jobs lost, or its
                 \* provisioning stopped?
    run,         \* the sub job that the agent of each device runs
    kept,        \* is it past its phases, and waits for the parent?
    granted,     \* the sub jobs whose agents have posted "allocated"
    cancels      \* number of cancellations by users

server  == <<parentState, subState>>
parent  == <<pc, jobs, unallocated, polled, toCancel, late, listed, mishap>>
devices == <<run, kept, granted>>
vars    == <<server, parent, devices, cancels>>

TypeOK ==
    /\ parentState \in [Parents -> {"active"} \cup Over] /\ subState \in [Subs -> SubStates]
    /\ pc \in [Parents -> Points] /\ late \in [Parents -> BOOLEAN]
    /\ jobs \in [Parents -> SUBSET Subs] /\ unallocated \in [Parents -> SUBSET Subs]
    /\ polled \in [Parents -> SUBSET Subs] /\ toCancel \in [Parents -> SUBSET Subs]
    /\ listed \in [Parents -> SUBSET Subs] /\ mishap \in [Parents -> BOOLEAN]
    /\ \A p \in Parents :
          /\ jobs[p] \subseteq Wanted(p) /\ unallocated[p] \subseteq jobs[p]
          /\ polled[p] \subseteq jobs[p] /\ toCancel[p] \subseteq jobs[p]
          /\ listed[p] \subseteq jobs[p]
    /\ run \in [Devices -> Subs \cup {None}] /\ kept \in [Devices -> BOOLEAN]
    /\ \A d \in Devices : run[d] # None => DeviceOf[run[d]] = d
    /\ granted \subseteq Subs /\ cancels \in 0..MaxCancels

Init ==
    /\ parentState = [p \in Parents |-> "active"] /\ subState = [s \in Subs |-> "none"]
    /\ pc = [p \in Parents |-> "create"]
    /\ jobs = [p \in Parents |-> {}] /\ unallocated = jobs /\ polled = jobs
    /\ toCancel = jobs /\ listed = jobs
    /\ late = [p \in Parents |-> FALSE] /\ mishap = late
    /\ run = [d \in Devices |-> None] /\ kept = [d \in Devices |-> FALSE]
    /\ granted = {} /\ cancels = 0

-----------------------------------------------------------------------------
(***************************************************************************)
(* The connector of the parent p.                                          *)
(***************************************************************************)
Goto(p, point) == pc' = [pc EXCEPT ![p] = point]

\* Mutant: the jobs are left to themselves.
CancelNothing(p) == Goto(p, "cleanup") /\ UNCHANGED toCancel

\* cancel_jobs, of all jobs that are known, after which the provisioning fails
CancelAll(p) ==
    /\ Goto(p, "cancel")
    /\ toCancel' = [toCancel EXCEPT ![p] = jobs[p]]

\* create_jobs, one job at a time; entries that are no dicts are skipped
CreateJob(p) ==
    /\ pc[p] = "create" /\ jobs[p] # Wanted(p)
    /\ LET s == First(Wanted(p) \ jobs[p]) IN
          /\ subState' = [subState EXCEPT ![s] = "waiting"]
          /\ jobs' = [jobs EXCEPT ![p] = @ \cup {s}]
    /\ UNCHANGED <<parentState, pc, unallocated, polled, toCancel, late, listed, mishap, devices, cancels>>

\* There may be no job to wait for.
StartWaiting(p) ==
    /\ pc[p] = "create" /\ jobs[p] = Wanted(p)
    /\ unallocated' = [unallocated EXCEPT ![p] = jobs[p]]
    /\ Goto(p, IF jobs[p] = {} THEN "list" ELSE "look")
    /\ UNCHANGED <<server, jobs, polled, toCancel, late, listed, mishap, devices, cancels>>

\* The server refuses a job, or its answer does not arrive.
CreateFails(p) ==
    /\ pc[p] = "create" /\ jobs[p] # Wanted(p)
    /\ \/ UNCHANGED <<subState, mishap>>
       \/ /\ "lost" \in Mishaps /\ mishap' = [mishap EXCEPT ![p] = TRUE]
          /\ subState' = [subState EXCEPT ![First(Wanted(p) \ jobs[p])] = "waiting"]
    /\ CancelAll(p)
    /\ UNCHANGED <<parentState, jobs, unallocated, polled, late, listed, devices, cancels>>

\* get_status, which answers "unknown" if the call fails
Seen(state) == {state} \cup IF "lost" \in Mishaps THEN {"unknown"} ELSE {}

\* terminate_if_parent_completed
Look(p) ==
    /\ pc[p] = "look"
    /\ polled' = [polled EXCEPT ![p] = {}]
    /\ \/ "cancelled" \in Seen(parentState[p]) /\ CancelAll(p)
       \/ \E seen \in Seen(parentState[p]) : seen # "cancelled" /\ Goto(p, "poll") /\ UNCHANGED toCancel
    /\ UNCHANGED <<server, jobs, unallocated, late, listed, mishap, devices, cancels>>

\* Mutant: a job that is not over counts.
PollForEnd(p) ==
    /\ pc[p] = "poll"
    /\ LET s == First(unallocated[p] \ polled[p]) IN \E seen \in Seen(subState[s]) :
          \/ /\ seen \in Over
             /\ CancelAll(p)
             /\ UNCHANGED <<unallocated, polled>>
          \/ /\ seen \notin Over
             /\ unallocated' = [unallocated EXCEPT ![p] = @ \ {s}]
             /\ Goto(p, "clock")
             /\ UNCHANGED <<polled, toCancel>>
    /\ UNCHANGED <<server, jobs, late, listed, mishap, devices, cancels>>

\* A pass over the jobs ends with the first that is allocated.
Poll(p) ==
    /\ pc[p] = "poll"
    /\ LET s == First(unallocated[p] \ polled[p]) IN \E seen \in Seen(subState[s]) :
          \/ /\ seen = "allocated"
             /\ unallocated' = [unallocated EXCEPT ![p] = @ \ {s}]
             /\ Goto(p, "clock")
             /\ UNCHANGED <<polled, toCancel>>
          \/ /\ seen \in Over
             /\ CancelAll(p)
             /\ UNCHANGED <<unallocated, polled>>
          \/ /\ seen \notin Over \cup {"allocated"}
             /\ polled' = [polled EXCEPT ![p] = @ \cup {s}]
             /\ IF polled'[p] = unallocated[p] THEN Goto(p, "clock") ELSE UNCHANGED pc
             /\ UNCHANGED <<unallocated, toCancel>>
    /\ UNCHANGED <<server, jobs, late, listed, mishap, devices, cancels>>

\* Mutant: it waits for as long as it takes.
ClockWithoutTimeout(p) ==
    /\ pc[p] = "clock"
    /\ Goto(p, IF unallocated[p] = {} THEN "list" ELSE "look")
    /\ UNCHANGED <<server, jobs, unallocated, polled, toCancel, late, listed, mishap, devices, cancels>>

\* The timeout counts, even if this pass found the last job allocated.
Clock(p) ==
    /\ pc[p] = "clock"
    /\ IF late[p]
       THEN CancelAll(p)
       ELSE Goto(p, IF unallocated[p] = {} THEN "list" ELSE "look") /\ UNCHANGED toCancel
    /\ UNCHANGED <<server, jobs, unallocated, polled, late, listed, mishap, devices, cancels>>

TimePasses(p) ==
    /\ pc[p] \in Waiting /\ ~late[p]
    /\ late' = [late EXCEPT ![p] = TRUE]
    /\ UNCHANGED <<server, pc, jobs, unallocated, polled, toCancel, listed, mishap, devices, cancels>>

\* save_job_list_file, with the device info of the jobs or without it
List(p) ==
    /\ pc[p] = "list"
    /\ listed' = [listed EXCEPT ![p] = jobs[p]]
    /\ Goto(p, "check")
    /\ UNCHANGED <<server, jobs, unallocated, polled, toCancel, late, mishap, devices, cancels>>

\* One call; the server refuses if the job is over, which is ignored, and a call
\* that fails is logged.
CancelFirst(p) == LET s == First(toCancel[p]) IN
    /\ toCancel' = [toCancel EXCEPT ![p] = @ \ {s}]
    /\ \/ /\ subState' = [subState EXCEPT ![s] = IF @ \in Over THEN @ ELSE "cancelled"]
          /\ UNCHANGED mishap
       \/ /\ "lost" \in Mishaps /\ mishap' = [mishap EXCEPT ![p] = TRUE]
          /\ UNCHANGED subState

Cancel(p) ==
    /\ pc[p] = "cancel"
    /\ IF toCancel[p] = {}
       THEN Goto(p, "cleanup") /\ UNCHANGED <<subState, toCancel, mishap>>
       ELSE CancelFirst(p) /\ UNCHANGED pc
    /\ UNCHANGED <<parentState, jobs, unallocated, polled, late, listed, devices, cancels>>

-----------------------------------------------------------------------------
(***************************************************************************)
(* The agent of the parent p.                                              *)
(***************************************************************************)

\* The cleanup command begins with the jobs in job_list.json.
StartCleanup(p) ==
    /\ Goto(p, "cleanup")
    /\ toCancel' = [toCancel EXCEPT ![p] = listed[p]]

\* The global timeout of the provision phase.
StopProvision(p) ==
    /\ "stopped" \in Mishaps /\ pc[p] \in Provision
    /\ StartCleanup(p)
    /\ mishap' = [mishap EXCEPT ![p] = TRUE]
    /\ UNCHANGED <<server, jobs, unallocated, polled, late, listed, devices, cancels>>

\* The agent reads the state of the job before the test phase, and then posts it.
Check(p) ==
    /\ pc[p] = "check"
    /\ \/ "cancelled" \in Seen(parentState[p]) /\ StartCleanup(p)
       \/ \E seen \in Seen(parentState[p]) :
             seen # "cancelled" /\ Goto(p, "announce") /\ UNCHANGED toCancel
    /\ UNCHANGED <<server, jobs, unallocated, polled, late, listed, mishap, devices, cancels>>

Announce(p) ==
    /\ pc[p] = "announce"
    /\ parentState' \in {[parentState EXCEPT ![p] = "active"]}
                           \cup IF "lost" \in Mishaps THEN {parentState} ELSE {}
    /\ Goto(p, "test")
    /\ UNCHANGED <<subState, jobs, unallocated, polled, toCancel, late, listed, mishap, devices, cancels>>

\* The tests are over, fail, are cancelled or stopped by a timeout.
EndTest(p) ==
    /\ pc[p] = "test"
    /\ StartCleanup(p)
    /\ UNCHANGED <<server, jobs, unallocated, polled, late, listed, mishap, devices, cancels>>

\* The cleanup of a job that was cancelled may be stopped.
Cleanup(p) ==
    /\ pc[p] = "cleanup"
    /\ IF toCancel[p] = {}
       THEN Goto(p, "outcome") /\ UNCHANGED <<subState, toCancel, mishap>>
       ELSE \/ CancelFirst(p) /\ UNCHANGED pc
            \/ /\ parentState[p] = "cancelled" /\ Goto(p, "outcome")
               /\ UNCHANGED <<subState, toCancel, mishap>>
    /\ UNCHANGED <<parentState, jobs, unallocated, polled, late, listed, devices, cancels>>

Outcome(p) ==
    /\ pc[p] = "outcome"
    /\ parentState' = [parentState EXCEPT ![p] = "complete"]
    /\ Goto(p, "over")
    /\ UNCHANGED <<subState, jobs, unallocated, polled, toCancel, late, listed, mishap, devices, cancels>>

\* Nothing is done for the job of an agent that was killed.
Kill(p) ==
    /\ "killed" \in Mishaps /\ pc[p] \notin {"over", "dead"}
    /\ Goto(p, "dead")
    /\ UNCHANGED <<server, jobs, unallocated, polled, toCancel, late, listed, mishap, devices, cancels>>

-----------------------------------------------------------------------------
(***************************************************************************)
(* The agents of the devices.                                              *)
(***************************************************************************)

Take(s) ==
    /\ subState[s] = "waiting" /\ run[DeviceOf[s]] = None
    /\ subState' = [subState EXCEPT ![s] = "running"]
    /\ run' = [run EXCEPT ![DeviceOf[s]] = s]
    /\ UNCHANGED <<parentState, parent, kept, granted, cancels>>

\* The phases come to the allocation, whose post replaces any state, or fails.
Allocate(d) ==
    /\ run[d] # None /\ ~kept[d]
    /\ \/ /\ subState' = [subState EXCEPT ![run[d]] = "allocated"]
          /\ granted' = granted \cup {run[d]}
       \/ "lost" \in Mishaps /\ UNCHANGED <<subState, granted>>
    /\ kept' = [kept EXCEPT ![d] = TRUE]
    /\ UNCHANGED <<parentState, parent, run, cancels>>

EndSub(d) ==
    /\ subState' = [subState EXCEPT ![run[d]] = "complete"]
    /\ run' = [run EXCEPT ![d] = None]
    /\ kept' = [kept EXCEPT ![d] = FALSE]
    /\ UNCHANGED <<parentState, parent, granted, cancels>>

\* A phase fails, or the agent sees that the job was cancelled.
FailSub(d) ==
    /\ run[d] # None /\ ~kept[d]
    /\ EndSub(d)

\* Mutant: only the job itself is polled.
LeaveIfOver(d) ==
    /\ run[d] # None /\ kept[d]
    /\ subState[run[d]] \in Over
    /\ EndSub(d)

\* wait_for_completion
Leave(d) ==
    /\ run[d] # None /\ kept[d]
    /\ subState[run[d]] \in Over \/ parentState[ParentOf[run[d]]] \in Over
    /\ EndSub(d)

-----------------------------------------------------------------------------
\* Users cancel jobs; the server refuses if they are over.
CancelParent(p) ==
    /\ cancels < MaxCancels /\ parentState[p] = "active"
    /\ parentState' = [parentState EXCEPT ![p] = "cancelled"]
    /\ cancels' = cancels + 1
    /\ UNCHANGED <<subState, parent, devices>>

CancelSub(s) ==
    /\ cancels < MaxCancels /\ subState[s] \in {"waiting", "running", "allocated"}
    /\ subState' = [subState EXCEPT ![s] = "cancelled"]
    /\ cancels' = cancels + 1
    /\ UNCHANGED <<parentState, parent, devices>>

ParentStep(p) ==
    \/ CreateJob(p) \/ CreateFails(p) \/ StartWaiting(p) \/ Look(p) \/ Poll(p) \/ Clock(p)
    \/ List(p) \/ Cancel(p) \/ Check(p) \/ Announce(p) \/ EndTest(p) \/ Cleanup(p) \/ Outcome(p)

DeviceStep(d) ==
    \/ \E s \in Subs : DeviceOf[s] = d /\ Take(s)
    \/ Allocate(d) \/ FailSub(d) \/ Leave(d)

\* Nothing is left to do.
Rest ==
    /\ \A p \in Parents : pc[p] \in {"over", "dead"}
    /\ UNCHANGED vars

Next ==
    \/ \E p \in Parents :
          ParentStep(p) \/ TimePasses(p) \/ StopProvision(p) \/ Kill(p) \/ CancelParent(p)
    \/ \E s \in Subs : CancelSub(s)
    \/ \E d \in Devices : DeviceStep(d)
    \/ Rest

Spec == Init /\ [][Next]_vars

\* The agents go on, free agents take jobs, phases end, and time passes.
FairSpec ==
    /\ Spec
    /\ \A p \in Parents : WF_vars(ParentStep(p)) /\ WF_vars(TimePasses(p))
    /\ \A d \in Devices : WF_vars(DeviceStep(d))

-----------------------------------------------------------------------------
(***************************************************************************)
(* Properties.                                                             *)
(***************************************************************************)

\* The tests are run only after a job was made for each entry of the list that is a
\* dict and the agent of each of them has posted "allocated", whatever is cancelled
\* and whatever fails: no job that ended without its device counts (provision).
\* Since then it may have been cancelled or left, but nothing else.
TestsHaveDevices ==
    \A p \in Parents : pc[p] \in {"announce", "test"} =>
        /\ jobs[p] = Wanted(p) /\ Wanted(p) \subseteq granted
        /\ \A s \in Wanted(p) : subState[s] \in {"allocated"} \cup Over

\* A parent that gives up, is cancelled or fails leaves no job in a queue, where
\* it would be run for nothing: "Cancel all subordinates jobs before finishing a
\* multi-agent job" (cleanup).
NothingLeftQueued ==
    \A p \in Parents : pc[p] = "over" /\ ~mishap[p] =>
        \A s \in Of(p) : subState[s] # "waiting"

\* Parents that wait for each other's devices get over it (provision).
ParentsFinish == \A p \in Parents : <>(pc[p] \in {"over", "dead"})

\* A device that is kept for a parent is given back, although cancellations are
\* lost or overwritten, unless the agent of the parent was killed: "Maximum time
\* (in seconds) a job is allowed to run" (job-schema.rst).
DevicesAreReleased ==
    \A s \in Subs : run[DeviceOf[s]] = s ~>
        run[DeviceOf[s]] # s \/ pc[ParentOf[s]] = "dead"
=============================================================================
