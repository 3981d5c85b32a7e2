---------------------------- MODULE JobDispatch ----------------------------
(***************************************************************************)
(* What the job queue of a Testflinger server promises: a job is offered   *)
(* only when it is complete with its attachments, it is taken at most      *)
(* once, by an agent that may run it, before every job of lower priority   *)
(* that the agent may run, and a job that left the queue never comes back. *)
(* JobStore implements this with documents, handlers and events.           *)
(***************************************************************************)
EXTENDS Naturals

CONSTANTS Jobs, Agents, NoAgent

VARIABLES
    status,   \* [Jobs -> Status]
    owner,    \* [Jobs -> Agents \cup {NoAgent}]: the agent that took the job
    runnable, \* [Jobs -> SUBSET Agents]: the agents that may take it
    urgency   \* [Jobs -> Nat]

dvars == <<status, owner, runnable, urgency>>

Status == {"absent", "incomplete", "offered", "taken", "withdrawn"}

DispatchInit ==
    /\ status = [j \in Jobs |-> "absent"]
    /\ owner = [j \in Jobs |-> NoAgent]
    /\ runnable = [j \in Jobs |-> {}]
    /\ urgency = [j \in Jobs |-> 0]

\* A user submits a job; it is incomplete when it needs attachments.
Submit(j) ==
    /\ status[j] = "absent"
    /\ \E s \in {"incomplete", "offered"} : status' = [status EXCEPT ![j] = s]
    /\ \E A \in SUBSET Agents : runnable' = [runnable EXCEPT ![j] = A]
    /\ urgency' \in [Jobs -> Nat]
    /\ \A k \in Jobs \ {j} : urgency'[k] = urgency[k]
    /\ UNCHANGED owner

\* Its attachments are there.
Offer(j) ==
    /\ status[j] = "incomplete"
    /\ status' = [status EXCEPT ![j] = "offered"]
    /\ UNCHANGED <<owner, runnable, urgency>>

Take(a, j) ==
    /\ status[j] = "offered" /\ a \in runnable[j]
    /\ \A k \in Jobs : status[k] = "offered" /\ a \in runnable[k]
                          => urgency[k] <= urgency[j]
    /\ status' = [status EXCEPT ![j] = "taken"]
    /\ owner' = [owner EXCEPT ![j] = a]
    /\ UNCHANGED <<runnable, urgency>>

\* It is cancelled, or removed, before an agent took it.
Withdraw(j) ==
    /\ status[j] \in {"incomplete", "offered"}
    /\ status' = [status EXCEPT ![j] = "withdrawn"]
    /\ UNCHANGED <<owner, runnable, urgency>>

DispatchNext ==
    \E j \in Jobs : \/ Submit(j) \/ Offer(j) \/ Withdraw(j)
                    \/ \E a \in Agents : Take(a, j)

DispatchSpec == DispatchInit /\ [][DispatchNext]_dvars
=============================================================================
