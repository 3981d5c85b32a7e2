------------------------------ MODULE LiveLogs ------------------------------
(***************************************************************************)
(* How the output of a job gets to a user who polls it while it runs.  The *)
(* agent posts the output of each phase in fragments, which it numbers     *)
(* through all phases of the job, and does not repeat a fragment that it   *)
(* could not post.  The server inserts what it gets.  The command line     *)
(* client asks for the state of the job, then for the fragments from a     *)
(* number on, prints them and asks again from the number after the last.   *)
(* The server answers such a request with one query for each phase.        *)
(*                                                                         *)
(* Standard output and serial output have numbers of their own; this is    *)
(* one of the two.  How the phases are run is in AgentJob.                 *)
(***************************************************************************)
EXTENDS Naturals, Sequences

CONSTANTS
    PhaseSeq,     \* the phases, in the order of TestPhase
    MaxFragments  \* bound: the fragments of the job

Phases  == {PhaseSeq[n] : n \in 1..Len(PhaseSeq)}
Numbers == 0..(MaxFragments - 1)
Finals  == {"no", "phase", "cancelled", "complete"}

ASSUME LiveLogsAssumption ==
    /\ PhaseSeq \in Seq(STRING) /\ PhaseSeq # <<>>
    /\ \A m, n \in 1..Len(PhaseSeq) : PhaseSeq[m] = PhaseSeq[n] => m = n
    /\ "all" \notin Phases
    /\ MaxFragments \in Nat

VARIABLES
    at,       \* number of the agent's phase, one more when the phases are over
    next,     \* fragment_number of its handler
    codes,    \* the phases with an exit code in its results file
    jobState, \* the state in the job document: "active" or final
    status,   \* the phases with an exit code there
    phaseOf,  \* the number of the phase of each fragment that was made
    stored,   \* how often each fragment is in the logs collection
    late,     \* posts whose sender does not wait any more, still to be executed
    pc,       \* the point of the poll: "state", "query", "print", "stopped", "over"
    asked,    \* the phase the user asked for first, or "all"
    wanted,   \* the phase this poll is for, or "all"
    cur,      \* cur_fragment
    final,    \* why it ends after this round, or "no"
    cursor,   \* the request at the server: number of the phase to query
    got,      \* and the fragments it has, as often as they are stored
    printed,  \* how often each fragment was printed
    slow,     \* fragments that were first stored when nobody waited for it
    overtaken \* fragments that were stored between two queries of a request that
              \* then saw later ones

agent  == <<at, next, codes, phaseOf>>
server == <<jobState, status, stored, late>>
poller == <<pc, asked, wanted, cur, final, cursor, got, printed>>
vars   == <<agent, server, poller, slow, overtaken>>

TypeOK ==
    /\ at \in 1..(Len(PhaseSeq) + 2) /\ next \in 0..MaxFragments
    /\ codes \subseteq Phases /\ status \subseteq codes
    /\ jobState \in {"active", "cancelled", "complete"}
    /\ phaseOf \in [Numbers -> 0..Len(PhaseSeq)]
    /\ stored \in [Numbers -> Nat] /\ late \subseteq Numbers
    /\ pc \in {"state", "query", "print", "stopped", "over"}
    /\ asked \in Phases \cup {"all"} /\ wanted \in {asked, "all"}
    /\ cur \in 0..MaxFragments /\ final \in Finals
    /\ cursor \in 1..(Len(PhaseSeq) + 1)
    /\ got \in [Numbers -> Nat] /\ printed \in [Numbers -> Nat]
    /\ slow \subseteq Numbers /\ overtaken \subseteq Numbers

Nothing == [n \in Numbers |-> 0]

Init ==
    /\ at = 1 /\ next = 0 /\ codes = {} /\ phaseOf = Nothing
    /\ jobState = "active" /\ status = {} /\ stored = Nothing /\ late = {}
    /\ pc = "state" /\ asked \in Phases \cup {"all"} /\ wanted = asked
    /\ cur = 0 /\ final = "no" /\ cursor = 1 /\ got = Nothing /\ printed = Nothing
    /\ slow = {} /\ overtaken = {}

-----------------------------------------------------------------------------
(***************************************************************************)
(* The agent, and what becomes of its posts.                               *)
(***************************************************************************)
IsRunning == at <= Len(PhaseSeq)

\* EndpointLogHandler: the number is used up however the post ends.
NewFragment ==
    /\ IsRunning /\ next < MaxFragments
    /\ next' = next + 1
    /\ phaseOf' = [phaseOf EXCEPT ![next] = at]
    /\ UNCHANGED <<at, codes, jobState, status, poller, overtaken>>

\* The server stores it; the HTTP client may have sent it twice.
PostFragment ==
    /\ NewFragment
    /\ stored' = [stored EXCEPT ![next] = 1]
    /\ late' \in {late, late \cup {next}}
    /\ UNCHANGED slow

\* The agent gives up; the post may be executed nevertheless, after others.
PostFails ==
    /\ NewFragment
    /\ \/ late' = late \cup {next} /\ slow' = slow \cup {next}
       \/ UNCHANGED <<late, slow>>
    /\ UNCHANGED stored

Arrive ==
    /\ \E n \in late :
          /\ stored' = [stored EXCEPT ![n] = @ + 1]
          /\ late' = late \ {n}
    /\ UNCHANGED <<agent, jobState, status, poller, slow, overtaken>>

\* A phase is skipped, or its command has ended, its fragments are posted, and
\* then its exit code with those before, if the post succeeds.  The state of the
\* next phase may replace a cancellation.
EndPhase ==
    /\ IsRunning
    /\ at' = at + 1
    /\ \/ (\A n \in Numbers : phaseOf[n] # at) /\ UNCHANGED <<codes, status>>
       \/ codes' = codes \cup {PhaseSeq[at]} /\ status' \in {status, codes'}
    /\ \/ UNCHANGED jobState
       \/ at < Len(PhaseSeq) /\ jobState' = "active"
    /\ UNCHANGED <<next, phaseOf, stored, late, poller, slow, overtaken>>

PostOutcome ==
    /\ at = Len(PhaseSeq) + 1
    /\ at' = at + 1
    /\ jobState' = "complete" /\ status' = codes
    /\ UNCHANGED <<next, codes, phaseOf, stored, late, poller, slow, overtaken>>

Cancel ==
    /\ jobState = "active"
    /\ jobState' = "cancelled"
    /\ UNCHANGED <<agent, status, stored, late, poller, slow, overtaken>>

-----------------------------------------------------------------------------
(***************************************************************************)
(* do_poll.                                                                *)
(***************************************************************************)

\* Mutant: the poll of a phase is only ended by the phase.
FinalOfPhase ==
    IF wanted \in status THEN "phase"
    ELSE IF jobState = "active" \/ wanted # "all" THEN "no" ELSE jobState

\* What the status makes of this round.
Final ==
    IF wanted \in status THEN "phase"
    ELSE IF jobState = "active" THEN "no" ELSE jobState

StartRound(end) ==
    /\ pc = "state"
    /\ pc' = "query" /\ final' = end
    /\ UNCHANGED <<asked, wanted, cur, cursor, got, printed, agent, server, slow, overtaken>>

\* get_job_state, whose failure reads as "unknown"
ReadState == StartRound(Final)
ReadFails == StartRound("no")

\* One query of log_get
IsQueried(phase) == wanted \in {"all", PhaseSeq[phase]}

\* Mutant: the number is taken for that of the last fragment the caller has.
FoundAfter(phase) == {n \in Numbers : phaseOf[n] = phase /\ stored[n] > 0 /\ n > cur}

Found(phase) == {n \in Numbers : phaseOf[n] = phase /\ stored[n] > 0 /\ n >= cur}

\* The fragments of the phases before that are there by now.
Behind(phase) ==
    {n \in Numbers : phaseOf[n] \in 1..(phase - 1) /\ stored[n] > 0 /\ n >= cur /\ got[n] = 0}

Query ==
    /\ pc = "query" /\ cursor <= Len(PhaseSeq)
    /\ LET found == IF IsQueried(cursor) THEN Found(cursor) ELSE {} IN
          /\ got' = [n \in Numbers |-> IF n \in found THEN stored[n] ELSE got[n]]
          /\ overtaken' = IF found = {} \/ wanted # "all" THEN overtaken
                          ELSE overtaken \cup Behind(cursor)
    /\ cursor' = cursor + 1
    /\ UNCHANGED <<pc, asked, wanted, cur, final, printed, agent, server, slow>>

Respond ==
    /\ pc = "query" /\ cursor = Len(PhaseSeq) + 1
    /\ pc' = "print"
    /\ UNCHANGED <<asked, wanted, cur, final, cursor, got, printed, agent, server, slow, overtaken>>

EndRequest == cursor' = 1 /\ got' = Nothing

\* There is no response, or the user interrupts the poll and starts it again with
\* the number that is then printed.
Retry ==
    /\ pc = "query" /\ cursor = Len(PhaseSeq) + 1
    /\ pc' = "state" /\ final' = "no" /\ EndRequest
    /\ overtaken' = {n \in overtaken : n < cur}
    /\ UNCHANGED <<asked, wanted, cur, printed, agent, server, slow>>

Received == {n \in Numbers : got[n] > 0}

\* Mutant: the last number of the first phase that has any.
IsFirst(number) ==
    \A n \in Received : phaseOf[number] <= phaseOf[n] /\ (phaseOf[n] = phaseOf[number] => n <= number)

\* The last number of all phases.
IsLast(number) == \A n \in Received : n <= number

PrintLogs ==
    /\ pc = "print"
    /\ printed' = [n \in Numbers |-> printed[n] + got[n]]
    /\ \/ Received = {} /\ UNCHANGED cur
       \/ \E last \in Received : IsLast(last) /\ cur' = last + 1
    /\ pc' = CASE final = "no" -> "state" [] final = "phase" -> "stopped" [] OTHER -> "over"
    /\ EndRequest
    /\ UNCHANGED <<asked, wanted, final, agent, server, slow, overtaken>>

\* "Use 'testflinger poll <job_id> --start_fragment <cur>' to continue polling."
Continue ==
    /\ pc = "stopped"
    /\ pc' = "state" /\ wanted' = "all"
    /\ UNCHANGED <<asked, cur, final, cursor, got, printed, agent, server, slow, overtaken>>

-----------------------------------------------------------------------------
Finish == EndPhase \/ PostOutcome

Next ==
    \/ PostFragment \/ PostFails \/ Arrive \/ Finish \/ Cancel
    \/ ReadState \/ ReadFails \/ Query \/ Respond \/ Retry \/ PrintLogs \/ Continue
    \/ pc = "over" /\ UNCHANGED vars

Spec == Init /\ [][Next]_vars

-----------------------------------------------------------------------------
(***************************************************************************)
(* Properties.                                                             *)
(***************************************************************************)

\* What is printed in one round comes after all that was printed before, and
\* nothing is printed more often than it is stored: "The poll command
\* automatically tracks fragments for you" (retrieve-logs.rst).
PrintedInOrder ==
    [][\A n \in Numbers : printed'[n] > printed[n] =>
          /\ \A m \in Numbers : printed[m] > 0 => m < n
          /\ printed'[n] <= stored[n]]_vars

\* The fragments that the user has asked for: those of one phase, or those of
\* the first phase that was asked for and of the phases after it.
IsAskedFor(n) ==
    IF wanted = "all"
    THEN asked = "all" \/ \E phase \in 1..phaseOf[n] : PhaseSeq[phase] = asked
    ELSE \E phase \in 1..Len(PhaseSeq) : PhaseSeq[phase] = wanted /\ phaseOf[n] = phase

\* When the phase is over, or the job complete, and the poll has ended, all that
\* the server has was printed, but for what it stored out of turn.
NothingIsSkipped ==
    pc \in {"stopped", "over"} /\ final # "cancelled" =>
        \A n \in Numbers : stored[n] > 0 /\ IsAskedFor(n) =>
            printed[n] > 0 \/ n \in slow \cup overtaken
=============================================================================
