------------------------- MODULE MultiDeviceProofs -------------------------
(***************************************************************************)
(* Proofs about MultiDevice, for any number of parents, jobs and devices,  *)
(* and whatever is lost, stopped, killed or cancelled.                     *)
(*                                                                         *)
(* The inductive invariant says what a connector knows at each point.  It  *)
(* has seen each job that it no longer waits for allocated, and a job that *)
(* was allocated is never anything but that or over.                       *)
(***************************************************************************)
EXTENDS MultiDevice, WellFoundedInduction, TLAPS

Granted == {"allocated"} \cup Over

\* The points after all jobs were created, and those after all were allocated.
Ready   == {"list", "check", "announce", "test"}
Created == Waiting \cup Ready

\* The parts of TypeOK: the fields, the lists of the parents, and the devices.
Fields ==
    /\ parentState \in [Parents -> {"active"} \cup Over] /\ subState \in [Subs -> SubStates]
    /\ pc \in [Parents -> Points] /\ late \in [Parents -> BOOLEAN]
    /\ jobs \in [Parents -> SUBSET Subs] /\ unallocated \in [Parents -> SUBSET Subs]
    /\ polled \in [Parents -> SUBSET Subs] /\ toCancel \in [Parents -> SUBSET Subs]
    /\ listed \in [Parents -> SUBSET Subs] /\ mishap \in [Parents -> BOOLEAN]
    /\ granted \subseteq Subs /\ cancels \in 0..MaxCancels
Lists ==
    \A p \in Parents :
        /\ jobs[p] \subseteq Wanted(p) /\ unallocated[p] \subseteq jobs[p]
        /\ polled[p] \subseteq jobs[p] /\ toCancel[p] \subseteq jobs[p]
        /\ listed[p] \subseteq jobs[p]
Runs ==
    /\ run \in [Devices -> Subs \cup {None}] /\ kept \in [Devices -> BOOLEAN]
    /\ \A d \in Devices : run[d] # None => DeviceOf[run[d]] = d

\* A connector has something left to wait for and to poll.
Left ==
    \A p \in Parents :
        /\ pc[p] \in {"look", "poll"} => unallocated[p] # {}
        /\ pc[p] = "poll" => polled[p] \subseteq unallocated[p] /\ polled[p] # unallocated[p]

\* Only the post of its agent makes a job allocated, and a connector knows of each
\* job that it does not wait for any more that it was.
Posted == \A s \in Subs : subState[s] = "allocated" => s \in granted
Known ==
    /\ Posted
    /\ \A p \in Parents :
          /\ pc[p] \in Created =>
                /\ jobs[p] = Wanted(p)
                /\ \A s \in Wanted(p) \ unallocated[p] : s \in granted /\ subState[s] \in Granted
          /\ pc[p] \in Ready => unallocated[p] = {}

IInv == Fields /\ Lists /\ Runs /\ Left /\ Known

-----------------------------------------------------------------------------
\* There is a first job in a list.
LEMMA FirstIsThere ==
    ASSUME NEW S \in SUBSET Subs, S # {}
    PROVE  First(S) \in S
<1> DEFINE Less == {pair \in Nat \X Nat : pair[1] < pair[2]}
<1>1. S \subseteq Nat
  BY MultiAssumption
<1>2. IsWellFoundedOn(Less, Nat)
  BY NatLessThanWellFounded, Zenon DEF OpToRel
<1>3. PICK s \in S : \A t \in S : <<t, s>> \notin Less
  <2> HIDE DEF Less
  <2> QED
    BY <1>1, <1>2, WFMin
<1>4. \A t \in S : s <= t
  <2> SUFFICES ASSUME NEW t \in S, t < s PROVE FALSE
    BY <1>1
  <2>1. <<t, s>> \in Less
    BY <1>1
  <2> QED
    BY <1>3, <2>1
<1> QED
  BY <1>4 DEF First

\* Each parent has jobs.
LEMMA JobsOfParents ==
    /\ \A p \in Parents : Wanted(p) \subseteq Of(p) /\ Of(p) \subseteq Subs
    /\ \A p, q \in Parents : p # q => Of(p) \cap Of(q) = {}
    /\ None \notin Subs /\ MaxCancels \in Nat
    /\ ParentOf \in [Subs -> Parents] /\ DeviceOf \in [Subs -> Devices]
BY MultiAssumption DEF Of, Wanted

LEMMA Initially == Init => IInv
BY JobsOfParents
   DEF Init, IInv, Fields, Lists, Runs, Left, Known, Posted, Points, Provision, Waiting, Created, Ready,
       SubStates

-----------------------------------------------------------------------------
(***************************************************************************)
(* The steps of the parents.                                               *)
(***************************************************************************)

\* There is a job left to create.
LEMMA FirstToCreate ==
    ASSUME IInv, NEW p \in Parents, jobs[p] # Wanted(p)
    PROVE  First(Wanted(p) \ jobs[p]) \in Wanted(p) \ jobs[p]
<1>1. jobs[p] \subseteq Wanted(p)
  BY DEF IInv, Lists
<1>2. Wanted(p) \ jobs[p] \in SUBSET Subs /\ Wanted(p) \ jobs[p] # {}
  BY <1>1, JobsOfParents
<1> QED
  BY <1>2, FirstIsThere

\* A job that is created is a new one of its parent.
LEMMA CreateJobKeeps == ASSUME IInv, NEW p \in Parents, CreateJob(p) PROVE IInv'
<1> DEFINE s == First(Wanted(p) \ jobs[p])
<1>1. s \in Wanted(p) \ jobs[p] /\ s \in Subs
  BY FirstToCreate, JobsOfParents DEF CreateJob
<1>2. /\ pc[p] = "create" /\ subState' = [subState EXCEPT ![s] = "waiting"]
      /\ jobs' = [jobs EXCEPT ![p] = @ \cup {s}]
      /\ UNCHANGED <<parentState, pc, unallocated, polled, toCancel, late, listed, mishap, devices,
                     cancels>>
  BY DEF CreateJob
<1> HIDE DEF s
<1>3. Fields'
  BY <1>1, <1>2 DEF IInv, Fields, SubStates, devices
<1>4. Lists'
  BY <1>1, <1>2 DEF IInv, Fields, Lists
<1>5. Runs'
  BY <1>2 DEF IInv, Runs, devices
<1>6. Left'
  BY <1>2 DEF IInv, Left
<1>7. Known'
  <2> SUFFICES ASSUME NEW q \in Parents, pc[q] \in Created
               PROVE  /\ jobs'[q] = Wanted(q)
                      /\ \A t \in Wanted(q) \ unallocated[q] : t \in granted /\ subState'[t] \in Granted
                      /\ pc[q] \in Ready => unallocated[q] = {}
    <3>1. Posted'
      BY <1>1, <1>2 DEF IInv, Fields, Known, Posted, devices
    <3> QED
      BY <3>1, <1>2 DEF Known, Created, Ready, devices
  <2>1. q # p
    BY <1>2 DEF Created, Ready, Waiting
  <2>2. s \notin Wanted(q)
    BY <2>1, <1>1, JobsOfParents
  <2> QED
    BY <2>1, <2>2, <1>2, JobsOfParents DEF IInv, Fields, Known
<1> QED
  BY <1>3, <1>4, <1>5, <1>6, <1>7 DEF IInv

\* All jobs that were made are waited for, if there are any.
LEMMA StartWaitingKeeps == ASSUME IInv, NEW p \in Parents, StartWaiting(p) PROVE IInv'
<1>1. Fields'
  BY DEF StartWaiting, IInv, Fields, Goto, server, devices, Points, Provision, Waiting
<1>2. Lists'
  BY DEF StartWaiting, IInv, Fields, Lists
<1>3. Runs'
  BY DEF StartWaiting, IInv, Runs, devices
<1>4. Left'
  BY DEF StartWaiting, IInv, Fields, Left, Goto
<1>5. Known'
  BY DEF StartWaiting, IInv, Fields, Known, Goto, server, devices, Created, Ready, Waiting, Posted
<1> QED
  BY <1>1, <1>2, <1>3, <1>4, <1>5 DEF IInv

\* CancelAll and StartCleanup are moves to points at which nothing is known of
\* the jobs.
LEMMA GiveUpKeeps ==
    ASSUME IInv, NEW p \in Parents, NEW point \in {"cancel", "cleanup", "outcome", "over", "dead"},
           Goto(p, point), Fields', Lists', UNCHANGED <<subState, jobs, unallocated, devices>>,
           \A q \in Parents : q # p => polled'[q] = polled[q]
    PROVE  IInv'
<1>1. Runs'
  BY DEF IInv, Runs, devices
<1>2. Left'
  BY DEF IInv, Fields, Left, Goto
<1>3. Known'
  BY DEF IInv, Fields, Known, Goto, Created, Ready, Waiting, devices, Posted
<1> QED
  BY <1>1, <1>2, <1>3 DEF IInv

LEMMA CancelAllKeeps ==
    ASSUME IInv, NEW p \in Parents, CancelAll(p), polled' \in {polled, [polled EXCEPT ![p] = {}]},
           UNCHANGED <<server, jobs, unallocated, late, listed, mishap, devices, cancels>>
    PROVE  IInv'
<1>1. Fields'
  BY DEF IInv, Fields, CancelAll, Goto, server, Points, Provision, devices
<1>2. Lists'
  BY DEF IInv, Fields, Lists, CancelAll
<1>3. \A q \in Parents : q # p => polled'[q] = polled[q]
  BY DEF IInv, Fields
<1> QED
  BY <1>1, <1>2, <1>3, GiveUpKeeps DEF CancelAll, server

LEMMA StartCleanupKeeps ==
    ASSUME IInv, NEW p \in Parents, StartCleanup(p), mishap' \in [Parents -> BOOLEAN],
           UNCHANGED <<server, jobs, unallocated, polled, late, listed, devices, cancels>>
    PROVE  IInv'
<1>1. Fields'
  BY DEF IInv, Fields, StartCleanup, Goto, server, Points, devices
<1>2. Lists'
  BY DEF IInv, Fields, Lists, StartCleanup
<1> QED
  BY <1>1, <1>2, GiveUpKeeps DEF StartCleanup, server

\* A job whose creation fails is not known, and may be in its queue.
LEMMA CreateFailsKeeps == ASSUME IInv, NEW p \in Parents, CreateFails(p) PROVE IInv'
<1> DEFINE s == First(Wanted(p) \ jobs[p])
<1>1. s \in Wanted(p) /\ s \in Subs
  BY FirstToCreate, JobsOfParents DEF CreateFails
<1>2. /\ pc[p] = "create" /\ subState' \in {subState, [subState EXCEPT ![s] = "waiting"]}
      /\ mishap' \in {mishap, [mishap EXCEPT ![p] = TRUE]} /\ CancelAll(p)
      /\ UNCHANGED <<parentState, jobs, unallocated, polled, late, listed, devices, cancels>>
  BY DEF CreateFails
<1> HIDE DEF s
<1>3. Fields'
  BY <1>1, <1>2 DEF IInv, Fields, CancelAll, Goto, Points, Provision, SubStates, devices
<1>4. Lists'
  BY <1>2 DEF IInv, Fields, Lists, CancelAll
<1>5. Runs'
  BY <1>2 DEF IInv, Runs, devices
<1>6. Left'
  BY <1>2 DEF IInv, Fields, Left, CancelAll, Goto
<1>7. Known'
  <2> SUFFICES ASSUME NEW q \in Parents, pc'[q] \in Created
               PROVE  /\ jobs'[q] = Wanted(q)
                      /\ \A t \in Wanted(q) \ unallocated'[q] :
                            t \in granted /\ subState'[t] \in Granted
                      /\ pc'[q] \in Ready => unallocated'[q] = {}
    <3>1. Posted'
      BY <1>1, <1>2 DEF IInv, Fields, Known, Posted, devices
    <3> QED
      BY <3>1, <1>2 DEF Known, Created, Ready, devices
  <2>1. q # p
    BY <1>2 DEF IInv, Fields, CancelAll, Goto, Created, Ready, Waiting
  <2>2. pc'[q] = pc[q] /\ s \notin Wanted(q)
    BY <2>1, <1>1, <1>2, JobsOfParents DEF IInv, Fields, CancelAll, Goto
  <2> QED
    BY <2>2, <1>2, JobsOfParents DEF IInv, Fields, Known
<1> QED
  BY <1>3, <1>4, <1>5, <1>6, <1>7 DEF IInv

LEMMA LookKeeps == ASSUME IInv, NEW p \in Parents, Look(p) PROVE IInv'
<1>1. CASE CancelAll(p)
  BY <1>1, CancelAllKeeps DEF Look
<1>2. CASE Goto(p, "poll") /\ UNCHANGED toCancel
  <2>1. /\ pc[p] = "look" /\ polled' = [polled EXCEPT ![p] = {}]
        /\ UNCHANGED <<server, jobs, unallocated, late, listed, mishap, devices, cancels>>
    BY DEF Look
  <2>2. Fields'
    BY <1>2, <2>1 DEF IInv, Fields, Goto, server, Points, Provision, Waiting, devices
  <2>3. Lists'
    BY <1>2, <2>1 DEF IInv, Fields, Lists
  <2>4. Runs'
    BY <2>1 DEF IInv, Runs, devices
  <2>5. Left'
    BY <1>2, <2>1 DEF IInv, Fields, Left, Goto
  <2>6. Known'
    BY <1>2, <2>1 DEF IInv, Fields, Known, Goto, server, Created, Ready, Waiting, devices, Posted
  <2> QED
    BY <2>2, <2>3, <2>4, <2>5, <2>6 DEF IInv
<1> QED
  BY <1>1, <1>2 DEF Look

\* A poll only takes a job from the list that was seen allocated, which it then
\* was on the server, and leaves something to poll if the pass goes on.
LEMMA PollKeeps == ASSUME IInv, NEW p \in Parents, Poll(p) PROVE IInv'
<1> DEFINE s == First(unallocated[p] \ polled[p])
<1>1. s \in unallocated[p] \ polled[p] /\ unallocated[p] \subseteq Wanted(p) /\ s \in Subs
  <2>1. pc[p] = "poll" /\ polled[p] \subseteq unallocated[p] /\ polled[p] # unallocated[p]
    BY DEF IInv, Left, Poll
  <2>2. unallocated[p] \subseteq Wanted(p)
    BY DEF IInv, Lists
  <2>3. unallocated[p] \ polled[p] \in SUBSET Subs /\ unallocated[p] \ polled[p] # {}
    BY <2>1, <2>2, JobsOfParents
  <2> QED
    BY <2>2, <2>3, FirstIsThere
<1>2. pc[p] = "poll" /\ UNCHANGED <<server, jobs, late, listed, mishap, devices, cancels>>
  BY DEF Poll
<1>3. PICK seen \in Seen(subState[s]) :
        \/ /\ seen = "allocated"
           /\ unallocated' = [unallocated EXCEPT ![p] = @ \ {s}]
           /\ Goto(p, "clock") /\ UNCHANGED <<polled, toCancel>>
        \/ CancelAll(p) /\ UNCHANGED <<unallocated, polled>>
        \/ /\ polled' = [polled EXCEPT ![p] = @ \cup {s}]
           /\ IF polled'[p] = unallocated[p] THEN Goto(p, "clock") ELSE UNCHANGED pc
           /\ UNCHANGED <<unallocated, toCancel>>
  BY DEF Poll
<1> HIDE DEF s
<1>4. CASE /\ seen = "allocated" /\ unallocated' = [unallocated EXCEPT ![p] = @ \ {s}]
           /\ Goto(p, "clock") /\ UNCHANGED <<polled, toCancel>>
  <2>1. s \in granted /\ subState[s] \in Granted
    BY <1>1, <1>4 DEF Seen, Granted, IInv, Known, Posted
  <2>2. Fields'
    BY <1>2, <1>4 DEF IInv, Fields, Goto, server, Points, Provision, Waiting, devices
  <2>3. Lists'
    BY <1>2, <1>4 DEF IInv, Fields, Lists
  <2>4. Runs'
    BY <1>2 DEF IInv, Runs, devices
  <2>5. Left'
    BY <1>2, <1>4 DEF IInv, Fields, Left, Goto
  <2>6. Known'
    BY <1>2, <1>4, <2>1 DEF IInv, Fields, Known, Goto, server, Created, Ready, Waiting, devices, Posted
  <2> QED
    BY <2>2, <2>3, <2>4, <2>5, <2>6 DEF IInv
<1>5. CASE CancelAll(p) /\ UNCHANGED <<unallocated, polled>>
  BY <1>2, <1>5, CancelAllKeeps
<1>6. CASE /\ polled' = [polled EXCEPT ![p] = @ \cup {s}]
           /\ IF polled'[p] = unallocated[p] THEN Goto(p, "clock") ELSE UNCHANGED pc
           /\ UNCHANGED <<unallocated, toCancel>>
  <2>1. Fields'
    BY <1>1, <1>2, <1>6 DEF IInv, Fields, Goto, server, Points, Provision, Waiting, devices
  <2>2. Lists'
    BY <1>1, <1>2, <1>6 DEF IInv, Fields, Lists
  <2>3. Runs'
    BY <1>2 DEF IInv, Runs, devices
  <2>4. Left'
    BY <1>1, <1>2, <1>6 DEF IInv, Fields, Left, Goto
  <2>5. Known'
    BY <1>2, <1>6 DEF IInv, Fields, Known, Goto, server, Created, Ready, Waiting, devices, Posted
  <2> QED
    BY <2>1, <2>2, <2>3, <2>4, <2>5 DEF IInv
<1> QED
  BY <1>3, <1>4, <1>5, <1>6

LEMMA ClockKeeps == ASSUME IInv, NEW p \in Parents, Clock(p) PROVE IInv'
<1>1. CASE CancelAll(p)
  BY <1>1, CancelAllKeeps DEF Clock
<1>2. CASE ~CancelAll(p)
  <2>1. /\ pc[p] = "clock" /\ Goto(p, IF unallocated[p] = {} THEN "list" ELSE "look")
        /\ UNCHANGED <<server, jobs, unallocated, polled, toCancel, late, listed, mishap, devices,
                       cancels>>
    BY <1>2 DEF Clock
  <2>2. Fields'
    BY <2>1 DEF IInv, Fields, Goto, server, Points, Provision, Waiting, devices
  <2>3. Lists'
    BY <2>1 DEF IInv, Lists
  <2>4. Runs'
    BY <2>1 DEF IInv, Runs, devices
  <2>5. Left'
    BY <2>1 DEF IInv, Fields, Left, Goto
  <2>6. Known'
    BY <2>1 DEF IInv, Fields, Known, Goto, server, Created, Ready, Waiting, devices, Posted
  <2> QED
    BY <2>2, <2>3, <2>4, <2>5, <2>6 DEF IInv
<1> QED
  BY <1>1, <1>2

LEMMA TimePassesKeeps == ASSUME IInv, NEW p \in Parents, TimePasses(p) PROVE IInv'
<1>1. Fields'
  BY DEF TimePasses, IInv, Fields, Goto, server, Points, Provision, Waiting, devices
<1>2. Lists'
  BY DEF TimePasses, IInv, Fields, Lists
<1>3. Runs'
  BY DEF TimePasses, IInv, Runs, devices
<1>4. Left'
  BY DEF TimePasses, IInv, Fields, Left, Goto
<1>5. Known'
  BY DEF TimePasses, IInv, Fields, Known, Goto, server, Created, Ready, Waiting, devices, Posted
<1> QED
  BY <1>1, <1>2, <1>3, <1>4, <1>5 DEF IInv

LEMMA ListKeeps == ASSUME IInv, NEW p \in Parents, List(p) PROVE IInv'
<1>1. Fields'
  BY DEF List, IInv, Fields, Goto, server, Points, Provision, Waiting, devices
<1>2. Lists'
  BY DEF List, IInv, Fields, Lists
<1>3. Runs'
  BY DEF List, IInv, Runs, devices
<1>4. Left'
  BY DEF List, IInv, Fields, Left, Goto
<1>5. Known'
  BY DEF List, IInv, Fields, Known, Goto, server, Created, Ready, Waiting, devices, Posted
<1> QED
  BY <1>1, <1>2, <1>3, <1>4, <1>5 DEF IInv

LEMMA StopProvisionKeeps == ASSUME IInv, NEW p \in Parents, StopProvision(p) PROVE IInv'
<1>1. mishap' \in [Parents -> BOOLEAN]
  BY DEF StopProvision, IInv, Fields
<1> QED
  BY <1>1, StartCleanupKeeps DEF StopProvision

LEMMA CheckKeeps == ASSUME IInv, NEW p \in Parents, Check(p) PROVE IInv'
<1>1. CASE StartCleanup(p)
  BY <1>1, StartCleanupKeeps DEF Check, IInv, Fields
<1>2. CASE Goto(p, "announce") /\ UNCHANGED toCancel
  <2>1. pc[p] = "check"
        /\ UNCHANGED <<server, jobs, unallocated, polled, late, listed, mishap, devices, cancels>>
    BY DEF Check
  <2>2. Fields'
    BY <1>2, <2>1 DEF IInv, Fields, Goto, server, Points, devices
  <2>3. Lists'
    BY <1>2, <2>1 DEF IInv, Lists
  <2>4. Runs'
    BY <2>1 DEF IInv, Runs, devices
  <2>5. Left'
    BY <1>2, <2>1 DEF IInv, Fields, Left, Goto
  <2>6. Known'
    BY <1>2, <2>1 DEF IInv, Fields, Known, Goto, server, Created, Ready, Waiting, devices, Posted
  <2> QED
    BY <2>2, <2>3, <2>4, <2>5, <2>6 DEF IInv
<1> QED
  BY <1>1, <1>2 DEF Check

LEMMA AnnounceKeeps == ASSUME IInv, NEW p \in Parents, Announce(p) PROVE IInv'
<1>1. Fields'
  BY DEF Announce, IInv, Fields, Goto, server, Points, Provision, Waiting, devices
<1>2. Lists'
  BY DEF Announce, IInv, Fields, Lists
<1>3. Runs'
  BY DEF Announce, IInv, Runs, devices
<1>4. Left'
  BY DEF Announce, IInv, Fields, Left, Goto
<1>5. Known'
  BY DEF Announce, IInv, Fields, Known, Goto, server, Created, Ready, Waiting, devices, Posted
<1> QED
  BY <1>1, <1>2, <1>3, <1>4, <1>5 DEF IInv

LEMMA EndTestKeeps == ASSUME IInv, NEW p \in Parents, EndTest(p) PROVE IInv'
BY StartCleanupKeeps DEF EndTest, IInv, Fields

\* One job less to cancel, which may be cancelled now.
LEMMA CancelFirstKeeps ==
    ASSUME IInv, NEW p \in Parents, toCancel[p] # {}, CancelFirst(p),
           UNCHANGED <<parentState, pc, jobs, unallocated, polled, late, listed, devices, cancels>>
    PROVE  IInv'
<1> DEFINE s == First(toCancel[p])
<1>1. s \in Subs
  <2>1. toCancel[p] \in SUBSET Subs
    BY DEF IInv, Fields
  <2> QED
    BY <2>1, FirstIsThere
<1>2. /\ toCancel' = [toCancel EXCEPT ![p] = @ \ {s}]
      /\ \/ subState' = [subState EXCEPT ![s] = IF @ \in Over THEN @ ELSE "cancelled"]
         \/ UNCHANGED subState
      /\ mishap' \in {mishap, [mishap EXCEPT ![p] = TRUE]}
  BY DEF CancelFirst
<1> HIDE DEF s
<1>3. Fields'
  BY <1>1, <1>2 DEF IInv, Fields, SubStates, Over, devices
<1>4. Lists'
  BY <1>2 DEF IInv, Fields, Lists
<1>5. Runs'
  BY DEF IInv, Runs, devices
<1>6. Left'
  BY DEF IInv, Left
<1>7. \A t \in Subs : subState[t] \in Granted => subState'[t] \in Granted
  BY <1>1, <1>2 DEF IInv, Fields, Granted, Over
<1>8. Known'
  BY <1>1, <1>2, <1>7, JobsOfParents DEF IInv, Fields, Known, Over, devices, Posted
<1> QED
  BY <1>3, <1>4, <1>5, <1>6, <1>8 DEF IInv

LEMMA CancelKeeps == ASSUME IInv, NEW p \in Parents, Cancel(p) PROVE IInv'
<1>1. CASE toCancel[p] = {}
  <2>1. Fields'
    BY <1>1 DEF Cancel, IInv, Fields, Goto, Points, devices
  <2>2. Lists'
    BY <1>1 DEF Cancel, IInv, Lists
  <2> QED
    BY <1>1, <2>1, <2>2, GiveUpKeeps DEF Cancel
<1>2. CASE toCancel[p] # {}
  BY <1>2, CancelFirstKeeps DEF Cancel
<1> QED
  BY <1>1, <1>2

LEMMA CleanupKeeps == ASSUME IInv, NEW p \in Parents, Cleanup(p) PROVE IInv'
<1>1. CASE Goto(p, "outcome") /\ UNCHANGED <<subState, toCancel, mishap>>
  <2>1. Fields'
    BY <1>1 DEF Cleanup, IInv, Fields, Goto, Points, devices
  <2>2. Lists'
    BY <1>1 DEF Cleanup, IInv, Lists
  <2> QED
    BY <1>1, <2>1, <2>2, GiveUpKeeps DEF Cleanup
<1>2. CASE toCancel[p] # {} /\ CancelFirst(p) /\ UNCHANGED pc
  BY <1>2, CancelFirstKeeps DEF Cleanup
<1> QED
  BY <1>1, <1>2 DEF Cleanup

LEMMA OutcomeKeeps == ASSUME IInv, NEW p \in Parents, Outcome(p) PROVE IInv'
<1>1. Fields'
  BY DEF Outcome, IInv, Fields, Goto, server, Points, Provision, Waiting, Over, devices
<1>2. Lists'
  BY DEF Outcome, IInv, Fields, Lists
<1>3. Runs'
  BY DEF Outcome, IInv, Runs, devices
<1>4. Left'
  BY DEF Outcome, IInv, Fields, Left, Goto
<1>5. Known'
  BY DEF Outcome, IInv, Fields, Known, Goto, server, Created, Ready, Waiting, devices, Posted
<1> QED
  BY <1>1, <1>2, <1>3, <1>4, <1>5 DEF IInv

LEMMA KillKeeps == ASSUME IInv, NEW p \in Parents, Kill(p) PROVE IInv'
<1>1. Fields'
  BY DEF Kill, IInv, Fields, Goto, server, Points, Provision, Waiting, devices
<1>2. Lists'
  BY DEF Kill, IInv, Fields, Lists
<1>3. Runs'
  BY DEF Kill, IInv, Runs, devices
<1>4. Left'
  BY DEF Kill, IInv, Fields, Left, Goto
<1>5. Known'
  BY DEF Kill, IInv, Fields, Known, Goto, server, Created, Ready, Waiting, devices, Posted
<1> QED
  BY <1>1, <1>2, <1>3, <1>4, <1>5 DEF IInv

-----------------------------------------------------------------------------
(***************************************************************************)
(* The steps of the devices and of the users.                              *)
(***************************************************************************)

\* A step leaves what the parents know true if no job that was allocated or over
\* becomes anything else, and none becomes allocated unnoticed.
LEMMA GrantsStay ==
    ASSUME IInv, UNCHANGED parent, granted \subseteq granted',
           \A t \in Subs : subState[t] \in Granted => subState'[t] \in Granted,
           \A t \in Subs : subState'[t] = "allocated" => subState[t] = "allocated" \/ t \in granted'
    PROVE  Lists' /\ Left' /\ Known'
<1>1. Lists' /\ Left'
  BY DEF IInv, Lists, Left, parent
<1>2. Known'
  BY JobsOfParents DEF IInv, Known, parent, devices, Posted
<1> QED
  BY <1>1, <1>2

\* An agent only takes a job that waits.
LEMMA TakeKeeps == ASSUME IInv, NEW s \in Subs, Take(s) PROVE IInv'
<1>1. Fields'
  BY DEF Take, IInv, Fields, parent, SubStates, devices
<1>2. Runs'
  <2>1. DeviceOf[s] \in Devices /\ run' = [run EXCEPT ![DeviceOf[s]] = s] /\ UNCHANGED kept
    BY JobsOfParents DEF Take
  <2> QED
    BY <2>1 DEF IInv, Runs
<1>3. \A t \in Subs : subState[t] \in Granted => subState'[t] \in Granted
  BY DEF Take, IInv, Fields, Granted, Over
<1>4. /\ granted \subseteq granted'
      /\ \A t \in Subs : subState'[t] = "allocated" => subState[t] = "allocated" \/ t \in granted'
  BY DEF Take, IInv, Fields
<1> QED
  BY <1>1, <1>2, <1>3, <1>4, GrantsStay DEF Take, IInv

LEMMA AllocateKeeps == ASSUME IInv, NEW d \in Devices, Allocate(d) PROVE IInv'
<1>1. run[d] \in Subs
  BY DEF Allocate, IInv, Runs
<1>2. Fields'
  BY <1>1 DEF Allocate, IInv, Fields, parent, SubStates, devices
<1>3. Runs'
  BY DEF Allocate, IInv, Runs
<1>4. \A t \in Subs : subState[t] \in Granted => subState'[t] \in Granted
  BY <1>1 DEF Allocate, IInv, Fields, Granted
<1>5. /\ granted \subseteq granted'
      /\ \A t \in Subs : subState'[t] = "allocated" => subState[t] = "allocated" \/ t \in granted'
  BY <1>1 DEF Allocate, IInv, Fields
<1> QED
  BY <1>2, <1>3, <1>4, <1>5, GrantsStay DEF Allocate, IInv

LEMMA EndSubKeeps == ASSUME IInv, NEW d \in Devices, run[d] # None, EndSub(d) PROVE IInv'
<1>1. run[d] \in Subs
  BY DEF IInv, Runs
<1>2. Fields'
  BY <1>1 DEF EndSub, IInv, Fields, parent, SubStates, Over, devices
<1>3. Runs'
  BY DEF EndSub, IInv, Runs
<1>4. \A t \in Subs : subState[t] \in Granted => subState'[t] \in Granted
  BY <1>1 DEF EndSub, IInv, Fields, Granted, Over
<1>5. /\ granted \subseteq granted'
      /\ \A t \in Subs : subState'[t] = "allocated" => subState[t] = "allocated" \/ t \in granted'
  BY <1>1 DEF EndSub, IInv, Fields, Over
<1> QED
  BY <1>2, <1>3, <1>4, <1>5, GrantsStay DEF EndSub, IInv

LEMMA CancelParentKeeps == ASSUME IInv, NEW p \in Parents, CancelParent(p) PROVE IInv'
<1>1. Fields'
  BY JobsOfParents DEF CancelParent, IInv, Fields, parent, Over, devices
<1>2. Runs'
  BY DEF CancelParent, IInv, Runs, devices
<1>3. /\ granted \subseteq granted'
      /\ \A t \in Subs : subState'[t] = "allocated" => subState[t] = "allocated" \/ t \in granted'
  BY DEF CancelParent, devices
<1> QED
  BY <1>1, <1>2, <1>3, GrantsStay DEF CancelParent, IInv

LEMMA CancelSubKeeps == ASSUME IInv, NEW s \in Subs, CancelSub(s) PROVE IInv'
<1>1. Fields'
  BY JobsOfParents DEF CancelSub, IInv, Fields, parent, SubStates, Over, devices
<1>2. Runs'
  BY DEF CancelSub, IInv, Runs, devices
<1>3. \A t \in Subs : subState[t] \in Granted => subState'[t] \in Granted
  BY DEF CancelSub, IInv, Fields, Granted, Over
<1>4. /\ granted \subseteq granted'
      /\ \A t \in Subs : subState'[t] = "allocated" => subState[t] = "allocated" \/ t \in granted'
  BY DEF CancelSub, IInv, Fields, devices
<1> QED
  BY <1>1, <1>2, <1>3, <1>4, GrantsStay DEF CancelSub, IInv

-----------------------------------------------------------------------------
LEMMA Inductive == IInv /\ [Next]_vars => IInv'
<1> SUFFICES ASSUME IInv, [Next]_vars PROVE IInv'
  OBVIOUS
<1>1. ASSUME NEW p \in Parents, ParentStep(p) PROVE IInv'
  BY <1>1, CreateJobKeeps, CreateFailsKeeps, StartWaitingKeeps, LookKeeps, PollKeeps, ClockKeeps, ListKeeps,
     CancelKeeps,
     CheckKeeps, AnnounceKeeps, EndTestKeeps, CleanupKeeps, OutcomeKeeps DEF ParentStep
<1>2. ASSUME NEW p \in Parents, TimePasses(p) \/ StopProvision(p) \/ Kill(p) \/ CancelParent(p)
      PROVE  IInv'
  BY <1>2, TimePassesKeeps, StopProvisionKeeps, KillKeeps, CancelParentKeeps
<1>3. ASSUME NEW s \in Subs, CancelSub(s) PROVE IInv'
  BY <1>3, CancelSubKeeps
<1>4. ASSUME NEW d \in Devices, DeviceStep(d) PROVE IInv'
  BY <1>4, TakeKeeps, AllocateKeeps, EndSubKeeps DEF DeviceStep, FailSub, Leave
<1>5. CASE UNCHANGED vars
  BY <1>5 DEF IInv, Fields, Lists, Runs, Left, Known, Posted, vars, server, parent, devices
<1> QED
  BY <1>1, <1>2, <1>3, <1>4, <1>5 DEF Next, Rest

LEMMA Invariance == Spec => []IInv
BY Initially, Inductive, PTL DEF Spec

\* The fields keep their types and the lists of a parent name its own jobs, and
\* the agent of a device runs only jobs that asked for this device.
THEOREM MultiTypeCorrect == Spec => []TypeOK
<1>1. IInv => TypeOK
  BY DEF IInv, Fields, Lists, Runs, TypeOK
<1> QED
  BY <1>1, Invariance, PTL

\* The tests of a parent are run only after a job was created for each entry of its
\* list that is a dict and the agent of each posted that it is allocated (provision),
\* whatever is lost or cancelled on the way: a job is taken from the list of those to
\* wait for only if it was seen allocated, and then it stays so until it is over.
THEOREM TestsAfterAllocation == Spec => []TestsHaveDevices
<1>1. IInv => TestsHaveDevices
  BY DEF IInv, Known, TestsHaveDevices, Created, Ready, Granted
<1> QED
  BY <1>1, Invariance, PTL

-----------------------------------------------------------------------------
(***************************************************************************)
(* Nothing is left in a queue.                                             *)
(***************************************************************************)
Leaving == {"cleanup", "outcome", "over"}

\* A parent knows all jobs that it made, unless a call was lost, and those that
\* it is done with do not wait any more.
Spared ==
    \A p \in Parents : ~mishap[p] =>
        /\ \A s \in Of(p) \ jobs[p] : subState[s] = "none"
        /\ pc[p] = "cancel" => \A s \in Of(p) \ toCancel[p] : subState[s] # "waiting"
        /\ pc[p] \in Leaving => \A s \in Of(p) : subState[s] # "waiting"

\* The agents of the devices run jobs that were made.
Made == \A d \in Devices : run[d] # None => subState[run[d]] # "none"

QInv == Spared /\ Made

LEMMA QInitially == Init => QInv
<1> SUFFICES ASSUME Init PROVE QInv
  OBVIOUS
<1>1. Spared
  BY JobsOfParents DEF Init, Spared, Leaving
<1>2. Made
  BY DEF Init, Made
<1> QED
  BY <1>1, <1>2 DEF QInv

\* A parent moves: it begins to cancel all it knows, has nothing that waits, or is
\* not done yet.
LEMMA MoveSpares ==
    ASSUME IInv, QInv, NEW p \in Parents, UNCHANGED <<subState, jobs, run>>,
           \A q \in Parents : q # p =>
               pc'[q] = pc[q] /\ toCancel'[q] = toCancel[q] /\ mishap'[q] = mishap[q],
           mishap'[p] \/ mishap'[p] = mishap[p],
           \/ mishap'[p]
           \/ pc'[p] \notin Leaving \cup {"cancel"}
           \/ pc'[p] = "cancel" /\ toCancel'[p] = jobs[p]
           \/ pc'[p] \in Leaving /\ \A s \in Of(p) : subState[s] # "waiting"
    PROVE  QInv'
<1>1. Made'
  BY DEF QInv, Made
<1>2. Spared'
  <2> SUFFICES ASSUME NEW q \in Parents, ~mishap'[q]
               PROVE  /\ \A s \in Of(q) \ jobs'[q] : subState'[s] = "none"
                      /\ pc'[q] = "cancel" =>
                            \A s \in Of(q) \ toCancel'[q] : subState'[s] # "waiting"
                      /\ pc'[q] \in Leaving => \A s \in Of(q) : subState'[s] # "waiting"
    BY DEF Spared
  <2>1. CASE q # p
    BY <2>1 DEF QInv, Spared
  <2>2. CASE q = p
    <3>1. \A s \in Of(p) \ jobs[p] : subState[s] = "none"
      BY <2>2 DEF QInv, Spared
    <3> QED
      BY <2>2, <3>1 DEF Leaving
  <2> QED
    BY <2>1, <2>2
<1> QED
  BY <1>1, <1>2 DEF QInv

\* CancelAll and StartCleanup, with jobs that are all known to be allocated or over.
LEMMA CancelAllSpares ==
    ASSUME IInv, QInv, NEW p \in Parents, CancelAll(p), UNCHANGED <<subState, jobs, run, mishap>>
    PROVE  QInv'
<1>1. pc'[p] = "cancel" /\ toCancel'[p] = jobs[p]
  BY DEF IInv, Fields, CancelAll, Goto
<1>2. \A q \in Parents : q # p =>
        pc'[q] = pc[q] /\ toCancel'[q] = toCancel[q] /\ mishap'[q] = mishap[q]
  BY DEF IInv, Fields, CancelAll, Goto
<1> QED
  BY <1>1, <1>2, MoveSpares

LEMMA StartCleanupSpares ==
    ASSUME IInv, QInv, NEW p \in Parents, pc[p] \in Ready, StartCleanup(p),
           UNCHANGED <<subState, jobs, run, mishap>>
    PROVE  QInv'
<1>1. mishap[p] \/ \A s \in Of(p) : subState[s] # "waiting"
  BY DEF IInv, Known, Created, Granted, Over, QInv, Spared
<1>2. pc'[p] \in Leaving
  BY DEF IInv, Fields, StartCleanup, Goto, Leaving
<1>3. \A q \in Parents : q # p =>
        pc'[q] = pc[q] /\ toCancel'[q] = toCancel[q] /\ mishap'[q] = mishap[q]
  BY DEF IInv, Fields, StartCleanup, Goto
<1> QED
  BY <1>1, <1>2, <1>3, MoveSpares

\* A parent goes on to a point at which it is not done.
LEMMA GoOnSpares ==
    ASSUME IInv, QInv, NEW p \in Parents, NEW point \in Points \ (Leaving \cup {"cancel"}),
           Goto(p, point), UNCHANGED <<subState, jobs, toCancel, run, mishap>>
    PROVE  QInv'
<1>1. pc'[p] = point /\ \A q \in Parents : q # p => pc'[q] = pc[q]
  BY DEF IInv, Fields, Goto
<1> QED
  BY <1>1, MoveSpares

\* The jobs that a parent is done with stay so if none comes to a queue.
LEMMA NoneQueuedSpares ==
    ASSUME IInv, QInv, UNCHANGED <<pc, jobs, mishap>>,
           \A p \in Parents : toCancel'[p] = toCancel[p],
           \A s \in Subs : /\ subState[s] # "waiting" => subState'[s] # "waiting"
                           /\ subState[s] = "none" <=> subState'[s] = "none",
           \A d \in Devices : run'[d] # None => run'[d] \in Subs /\ subState'[run'[d]] # "none"
    PROVE  QInv'
<1>1. Made'
  BY DEF Made
<1>2. Spared'
  BY JobsOfParents DEF QInv, Spared
<1> QED
  BY <1>1, <1>2 DEF QInv

\* A job that is created is known from then on.
LEMMA CreateJobSpares == ASSUME IInv, QInv, NEW p \in Parents, CreateJob(p) PROVE QInv'
<1> DEFINE s == First(Wanted(p) \ jobs[p])
<1>1. s \in Of(p) \ jobs[p] /\ s \in Subs
  BY FirstToCreate, JobsOfParents DEF CreateJob
<1>2. /\ pc[p] = "create" /\ subState' = [subState EXCEPT ![s] = "waiting"]
      /\ jobs' = [jobs EXCEPT ![p] = @ \cup {s}]
      /\ UNCHANGED <<pc, toCancel, mishap, run>>
  BY DEF CreateJob, devices
<1> HIDE DEF s
<1>3. Made'
  BY <1>1, <1>2 DEF IInv, Fields, Runs, QInv, Made
<1>4. Spared'
  <2> SUFFICES ASSUME NEW q \in Parents, ~mishap[q]
               PROVE  /\ \A t \in Of(q) \ jobs'[q] : subState'[t] = "none"
                      /\ pc'[q] = "cancel" =>
                            \A t \in Of(q) \ toCancel[q] : subState'[t] # "waiting"
                      /\ pc'[q] \in Leaving => \A t \in Of(q) : subState'[t] # "waiting"
    BY <1>2 DEF Spared
  <2>1. CASE q = p
    <3>1. pc'[p] = "create"
      BY <1>2
    <3>2. \A t \in Of(p) \ jobs'[p] : t # s /\ t \in Subs /\ t \in Of(p) \ jobs[p]
      BY <1>1, <1>2, JobsOfParents DEF IInv, Fields
    <3>3. \A t \in Of(p) \ jobs'[p] : subState'[t] = "none"
      BY <2>1, <3>2, <1>2 DEF IInv, Fields, QInv, Spared
    <3> QED
      BY <2>1, <3>1, <3>3 DEF Leaving
  <2>2. CASE q # p
    <3>1. pc'[q] = pc[q] /\ jobs'[q] = jobs[q]
      BY <2>2, <1>2 DEF IInv, Fields, Goto
    <3>2. \A t \in Of(q) : subState'[t] = subState[t]
      BY <2>2, <1>1, <1>2, JobsOfParents DEF IInv, Fields
    <3> QED
      BY <3>1, <3>2 DEF QInv, Spared
  <2> QED
    BY <2>1, <2>2
<1> QED
  BY <1>3, <1>4 DEF QInv

LEMMA StartWaitingSpares == ASSUME IInv, QInv, NEW p \in Parents, StartWaiting(p) PROVE QInv'
<1>1. /\ UNCHANGED <<subState, jobs, toCancel, run, mishap>>
      /\ {"look", "list"} \subseteq Points \ (Leaving \cup {"cancel"})
      /\ Goto(p, "look") \/ Goto(p, "list")
  BY DEF StartWaiting, server, devices, Points, Provision, Waiting, Leaving
<1> QED
  BY <1>1, GoOnSpares

\* A creation whose answer is lost is a mishap of the parent.
LEMMA CreateFailsSpares == ASSUME IInv, QInv, NEW p \in Parents, CreateFails(p) PROVE QInv'
<1> DEFINE s == First(Wanted(p) \ jobs[p])
<1>1. s \in Of(p) \ jobs[p] /\ s \in Subs
  BY FirstToCreate, JobsOfParents DEF CreateFails
<1>2. CancelAll(p) /\ UNCHANGED <<jobs, run>>
  BY DEF CreateFails, devices
<1>3. CASE UNCHANGED <<subState, mishap>>
  BY <1>2, <1>3, CancelAllSpares
<1>4. CASE /\ mishap' = [mishap EXCEPT ![p] = TRUE]
           /\ subState' = [subState EXCEPT ![s] = "waiting"]
  <2> HIDE DEF s
  <2>1. Made'
    BY <1>1, <1>2, <1>4 DEF IInv, Fields, Runs, QInv, Made
  <2>2. Spared'
    <3> SUFFICES ASSUME NEW q \in Parents, ~mishap'[q]
                 PROVE  /\ \A t \in Of(q) \ jobs[q] : subState'[t] = "none"
                        /\ pc'[q] = "cancel" =>
                              \A t \in Of(q) \ toCancel'[q] : subState'[t] # "waiting"
                        /\ pc'[q] \in Leaving => \A t \in Of(q) : subState'[t] # "waiting"
      BY <1>2 DEF Spared
    <3>1. q # p /\ ~mishap[q]
      BY <1>4 DEF IInv, Fields
    <3>2. pc'[q] = pc[q] /\ toCancel'[q] = toCancel[q]
      BY <3>1, <1>2 DEF IInv, Fields, CancelAll, Goto
    <3>3. \A t \in Of(q) : subState'[t] = subState[t]
      BY <3>1, <1>1, <1>4, JobsOfParents DEF IInv, Fields
    <3> QED
      BY <3>1, <3>2, <3>3 DEF QInv, Spared
  <2> QED
    BY <2>1, <2>2 DEF QInv
<1> QED
  BY <1>3, <1>4 DEF CreateFails

LEMMA LookSpares == ASSUME IInv, QInv, NEW p \in Parents, Look(p) PROVE QInv'
<1>1. UNCHANGED <<subState, jobs, run, mishap>> /\ "poll" \in Points \ (Leaving \cup {"cancel"})
  BY DEF Look, server, devices, Points, Provision, Waiting, Leaving
<1>2. CASE CancelAll(p)
  BY <1>1, <1>2, CancelAllSpares
<1>3. CASE Goto(p, "poll") /\ UNCHANGED toCancel
  BY <1>1, <1>3, GoOnSpares
<1> QED
  BY <1>2, <1>3 DEF Look

LEMMA PollSpares == ASSUME IInv, QInv, NEW p \in Parents, Poll(p) PROVE QInv'
<1>1. /\ UNCHANGED <<subState, jobs, run, mishap>> /\ pc[p] = "poll"
      /\ {"poll", "clock"} \subseteq Points \ (Leaving \cup {"cancel"})
  BY DEF Poll, server, devices, Points, Provision, Waiting, Leaving
<1>2. \/ CancelAll(p)
      \/ Goto(p, "clock") /\ UNCHANGED toCancel
      \/ UNCHANGED <<pc, toCancel>>
  BY DEF Poll
<1>3. UNCHANGED pc => Goto(p, "poll")
  BY <1>1 DEF IInv, Fields, Goto
<1> QED
  BY <1>1, <1>2, <1>3, CancelAllSpares, GoOnSpares

LEMMA ClockSpares == ASSUME IInv, QInv, NEW p \in Parents, Clock(p) PROVE QInv'
<1>1. /\ UNCHANGED <<subState, jobs, run, mishap>>
      /\ {"look", "list"} \subseteq Points \ (Leaving \cup {"cancel"})
  BY DEF Clock, server, devices, Points, Provision, Waiting, Leaving
<1>2. \/ CancelAll(p)
      \/ Goto(p, "list") /\ UNCHANGED toCancel
      \/ Goto(p, "look") /\ UNCHANGED toCancel
  BY DEF Clock
<1> QED
  BY <1>1, <1>2, CancelAllSpares, GoOnSpares

LEMMA ListSpares == ASSUME IInv, QInv, NEW p \in Parents, List(p) PROVE QInv'
<1>1. UNCHANGED <<subState, jobs, run, mishap>> /\ "check" \in Points \ (Leaving \cup {"cancel"})
  BY DEF List, server, devices, Points, Leaving
<1> QED
  BY <1>1, GoOnSpares DEF List

LEMMA CheckSpares == ASSUME IInv, QInv, NEW p \in Parents, Check(p) PROVE QInv'
<1>1. /\ UNCHANGED <<subState, jobs, run, mishap>> /\ pc[p] \in Ready
      /\ "announce" \in Points \ (Leaving \cup {"cancel"})
  BY DEF Check, server, devices, Points, Leaving, Ready
<1>2. CASE StartCleanup(p)
  BY <1>1, <1>2, StartCleanupSpares
<1>3. CASE Goto(p, "announce") /\ UNCHANGED toCancel
  BY <1>1, <1>3, GoOnSpares
<1> QED
  BY <1>2, <1>3 DEF Check

LEMMA AnnounceSpares == ASSUME IInv, QInv, NEW p \in Parents, Announce(p) PROVE QInv'
<1>1. UNCHANGED <<subState, jobs, run, mishap>> /\ "test" \in Points \ (Leaving \cup {"cancel"})
  BY DEF Announce, devices, Points, Leaving
<1> QED
  BY <1>1, GoOnSpares DEF Announce

LEMMA EndTestSpares == ASSUME IInv, QInv, NEW p \in Parents, EndTest(p) PROVE QInv'
BY StartCleanupSpares DEF EndTest, server, devices, Ready

\* One job less to cancel, which does not wait any more unless the call was lost.
LEMMA CancelFirstSpares ==
    ASSUME IInv, QInv, NEW p \in Parents, toCancel[p] # {}, CancelFirst(p),
           UNCHANGED <<pc, jobs, run>>
    PROVE  QInv'
<1> DEFINE s == First(toCancel[p])
<1>1. s \in Subs /\ s \in jobs[p]
  <2>1. toCancel[p] \in SUBSET Subs /\ toCancel[p] \subseteq jobs[p]
    BY DEF IInv, Fields, Lists
  <2> QED
    BY <2>1, FirstIsThere
<1>2. /\ toCancel' = [toCancel EXCEPT ![p] = @ \ {s}]
      /\ \/ /\ subState' = [subState EXCEPT ![s] = IF @ \in Over THEN @ ELSE "cancelled"]
            /\ UNCHANGED mishap
         \/ mishap' = [mishap EXCEPT ![p] = TRUE] /\ UNCHANGED subState
  BY DEF CancelFirst
<1> HIDE DEF s
<1>3. Made'
  BY <1>1, <1>2 DEF IInv, Fields, Runs, QInv, Made, Over
<1>4. Spared'
  <2> SUFFICES ASSUME NEW q \in Parents, ~mishap'[q]
               PROVE  /\ \A t \in Of(q) \ jobs[q] : subState'[t] = "none"
                      /\ pc[q] = "cancel" =>
                            \A t \in Of(q) \ toCancel'[q] : subState'[t] # "waiting"
                      /\ pc[q] \in Leaving => \A t \in Of(q) : subState'[t] # "waiting"
    BY DEF Spared
  <2>1. \A t \in Subs : subState[t] # "waiting" => subState'[t] # "waiting"
    BY <1>1, <1>2 DEF IInv, Fields, Over
  <2>2. ~mishap[q] /\ (q = p => subState'[s] # "waiting")
    BY <1>1, <1>2 DEF IInv, Fields, Over
  <2>3. \A t \in Of(q) \ jobs[q] : t # s /\ t \in Subs
    BY <1>1, JobsOfParents DEF IInv, Lists
  <2>4. \A t \in Of(q) \ jobs[q] : subState'[t] = "none"
    BY <2>2, <2>3, <1>2 DEF IInv, Fields, QInv, Spared
  <2>5. \A t \in Of(q) \ toCancel'[q] : t \in toCancel[q] => q = p /\ t = s
    BY <1>2 DEF IInv, Fields
  <2> QED
    BY <2>1, <2>2, <2>4, <2>5, JobsOfParents DEF QInv, Spared
<1> QED
  BY <1>3, <1>4 DEF QInv

LEMMA CancelSpares == ASSUME IInv, QInv, NEW p \in Parents, Cancel(p) PROVE QInv'
<1>1. CASE toCancel[p] = {}
  <2>1. /\ pc[p] = "cancel" /\ Goto(p, "cleanup")
        /\ UNCHANGED <<subState, jobs, toCancel, run, mishap>>
    BY <1>1 DEF Cancel, devices
  <2>2. ~mishap[p] => \A s \in Of(p) : subState[s] # "waiting"
    BY <1>1, <2>1 DEF QInv, Spared
  <2>3. pc'[p] \in Leaving /\ \A q \in Parents : q # p => pc'[q] = pc[q]
    BY <2>1 DEF IInv, Fields, Goto, Leaving
  <2> QED
    BY <2>1, <2>2, <2>3, MoveSpares
<1>2. CASE toCancel[p] # {}
  BY <1>2, CancelFirstSpares DEF Cancel, devices
<1> QED
  BY <1>1, <1>2

\* What is left at the end of a parent that was done.
LEMMA LeavingSpares ==
    ASSUME IInv, QInv, NEW p \in Parents, pc[p] \in Leaving, NEW point \in Leaving, Goto(p, point),
           UNCHANGED <<subState, jobs, toCancel, run, mishap>>
    PROVE  QInv'
<1>1. pc'[p] \in Leaving /\ \A q \in Parents : q # p => pc'[q] = pc[q]
  BY DEF IInv, Fields, Goto
<1>2. ~mishap[p] => \A s \in Of(p) : subState[s] # "waiting"
  BY DEF QInv, Spared
<1> QED
  BY <1>1, <1>2, MoveSpares

LEMMA CleanupSpares == ASSUME IInv, QInv, NEW p \in Parents, Cleanup(p) PROVE QInv'
<1>1. CASE Goto(p, "outcome") /\ UNCHANGED <<subState, toCancel, mishap>>
  BY <1>1, LeavingSpares DEF Cleanup, devices, Leaving
<1>2. CASE toCancel[p] # {} /\ CancelFirst(p) /\ UNCHANGED pc
  BY <1>2, CancelFirstSpares DEF Cleanup, devices
<1> QED
  BY <1>1, <1>2 DEF Cleanup

LEMMA OutcomeSpares == ASSUME IInv, QInv, NEW p \in Parents, Outcome(p) PROVE QInv'
BY LeavingSpares DEF Outcome, devices, Leaving

LEMMA StopProvisionSpares == ASSUME IInv, QInv, NEW p \in Parents, StopProvision(p) PROVE QInv'
<1>1. mishap'[p] /\ UNCHANGED <<subState, jobs, run>>
  BY DEF StopProvision, IInv, Fields, server, devices
<1>2. \A q \in Parents : q # p =>
        pc'[q] = pc[q] /\ toCancel'[q] = toCancel[q] /\ mishap'[q] = mishap[q]
  BY DEF IInv, Fields, StopProvision, StartCleanup, Goto
<1> QED
  BY <1>1, <1>2, MoveSpares

LEMMA KillSpares == ASSUME IInv, QInv, NEW p \in Parents, Kill(p) PROVE QInv'
<1>1. /\ UNCHANGED <<subState, jobs, toCancel, run, mishap>>
      /\ "dead" \in Points \ (Leaving \cup {"cancel"})
  BY DEF Kill, server, devices, Points, Leaving
<1> QED
  BY <1>1, GoOnSpares DEF Kill

\* The agents of the devices and the users put no job into a queue.
LEMMA DeviceSpares == ASSUME IInv, QInv, NEW d \in Devices, DeviceStep(d) PROVE QInv'
<1>0. UNCHANGED <<pc, jobs, mishap, toCancel>>
  BY DEF DeviceStep, Take, Allocate, FailSub, Leave, EndSub, parent
<1>1. ASSUME NEW s \in Subs, Take(s) PROVE QInv'
  <2>1. /\ subState[s] = "waiting" /\ subState' = [subState EXCEPT ![s] = "running"]
        /\ run' = [run EXCEPT ![DeviceOf[s]] = s]
    BY <1>1 DEF Take
  <2> QED
    BY <1>0, <2>1, NoneQueuedSpares DEF IInv, Fields, Runs, QInv, Made
<1>2. CASE Allocate(d)
  <2>1. /\ run[d] \in Subs /\ UNCHANGED run
        /\ subState' \in {subState, [subState EXCEPT ![run[d]] = "allocated"]}
    BY <1>2 DEF Allocate, IInv, Runs
  <2> QED
    BY <1>0, <2>1, <1>2, NoneQueuedSpares DEF Allocate, IInv, Fields, Runs, QInv, Made
<1>3. CASE run[d] # None /\ EndSub(d)
  <2>1. /\ run[d] \in Subs /\ subState' = [subState EXCEPT ![run[d]] = "complete"]
        /\ run' = [run EXCEPT ![d] = None]
    BY <1>3 DEF EndSub, IInv, Runs
  <2> QED
    BY <1>0, <2>1, <1>3, NoneQueuedSpares DEF IInv, Fields, Runs, QInv, Made
<1> QED
  BY <1>1, <1>2, <1>3 DEF DeviceStep, FailSub, Leave

LEMMA CancelParentSpares == ASSUME IInv, QInv, NEW p \in Parents, CancelParent(p) PROVE QInv'
BY NoneQueuedSpares DEF CancelParent, parent, devices, IInv, Runs, QInv, Made

LEMMA CancelSubSpares == ASSUME IInv, QInv, NEW s \in Subs, CancelSub(s) PROVE QInv'
<1>1. UNCHANGED <<pc, jobs, mishap, toCancel, run>>
  BY DEF CancelSub, parent, devices
<1>2. subState[s] # "none" /\ subState' = [subState EXCEPT ![s] = "cancelled"]
  BY DEF CancelSub
<1> QED
  BY <1>1, <1>2, NoneQueuedSpares DEF IInv, Fields, Runs, QInv, Made

LEMMA QInductive == IInv /\ QInv /\ [Next]_vars => QInv'
<1> SUFFICES ASSUME IInv, QInv, [Next]_vars PROVE QInv'
  OBVIOUS
<1>1. ASSUME NEW p \in Parents, ParentStep(p) PROVE QInv'
  BY <1>1, CreateJobSpares, CreateFailsSpares, StartWaitingSpares, LookSpares, PollSpares, ClockSpares, ListSpares,
     CancelSpares, CheckSpares, AnnounceSpares, EndTestSpares, CleanupSpares, OutcomeSpares
     DEF ParentStep
<1>2. ASSUME NEW p \in Parents, TimePasses(p) \/ StopProvision(p) \/ Kill(p) \/ CancelParent(p)
      PROVE  QInv'
  <2>1. TimePasses(p) => QInv'
    BY NoneQueuedSpares DEF TimePasses, server, devices, IInv, Runs, QInv, Made
  <2> QED
    BY <1>2, <2>1, StopProvisionSpares, KillSpares, CancelParentSpares
<1>3. ASSUME NEW s \in Subs, CancelSub(s) PROVE QInv'
  BY <1>3, CancelSubSpares
<1>4. ASSUME NEW d \in Devices, DeviceStep(d) PROVE QInv'
  BY <1>4, DeviceSpares
<1>5. CASE UNCHANGED vars
  BY <1>5 DEF QInv, Spared, Made, vars, server, parent, devices
<1> QED
  BY <1>1, <1>2, <1>3, <1>4, <1>5 DEF Next, Rest

\* A parent that gives up, is cancelled or fails leaves none of its jobs in a queue
\* (cancel_jobs, cleanup), unless one of its own calls was lost or its agent stopped
\* it: it knows all jobs that it made, and passes over none of them when it cancels.
THEOREM NoJobLeftQueued == Spec => []NothingLeftQueued
<1>1. QInv => NothingLeftQueued
  BY DEF QInv, Spared, NothingLeftQueued, Leaving
<1>2. Spec => []QInv
  BY QInitially, QInductive, Invariance, PTL DEF Spec
<1> QED
  BY <1>1, <1>2, PTL
=============================================================================
