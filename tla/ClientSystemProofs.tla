------------------------- MODULE ClientSystemProofs -------------------------
(***************************************************************************)
(* Proofs about the command line client.  A poll prints the logs in order  *)
(* and nothing twice, and skips nothing but what the server stored out of  *)
(* turn.  What runs tell the user of the jobs is true, however many run    *)
(* next to one another and however often an upload is tried.  The timer of *)
(* the status line leaves the prompt and the shell alone.                  *)
(***************************************************************************)
EXTENDS ClientSystem, SequenceTheorems, TLAPS

-----------------------------------------------------------------------------
(***************************************************************************)
(* The logs.                                                               *)
(***************************************************************************)

Asking == pc \in {"query", "print"}

\* What was printed is behind the poll, and what it got is ahead of it.
Ahead == \A n \in Numbers : printed[n] > 0 => n < cur
Fresh == \A n \in Numbers : got[n] > 0 => n >= cur /\ got[n] <= stored[n]
Idle  == ~Asking => cursor = 1 /\ got = Nothing

\* The fragments are numbered through the phases, and what is still to be stored for
\* the first time is slow.
Numbered ==
    /\ \A n \in Numbers : n < next <=> phaseOf[n] # 0
    /\ \A n \in Numbers : phaseOf[n] <= at
    /\ \A m, n \in Numbers : m <= n /\ n < next => phaseOf[m] <= phaseOf[n]
    /\ \A n \in Numbers : n \in late => stored[n] > 0 \/ n \in slow
    /\ \A n \in Numbers : stored[n] > 0 \/ n \in late => n < next

\* A phase with an exit code is over, and so are all when the job is complete.
Past ==
    /\ \A n \in 1..Len(PhaseSeq) : PhaseSeq[n] \in codes => n < at
    /\ jobState = "complete" => at = Len(PhaseSeq) + 2

AgentInv == Numbered /\ Past

OrderInv == TypeOK /\ AgentInv /\ Ahead /\ Fresh /\ Idle

\* The number that the poll has come to was given out, by the phase it is for.
Reached ==
    /\ cur <= next
    /\ wanted # "all" =>
          \A n \in Numbers, phase \in 1..Len(PhaseSeq) :
             n < cur /\ PhaseSeq[phase] = wanted => phaseOf[n] <= phase
    /\ \A n \in Numbers :
          got[n] > 0 => n < next /\ (wanted # "all" => PhaseSeq[phaseOf[n]] = wanted)
    /\ pc = "print" => cursor = Len(PhaseSeq) + 1

Excused == slow \cup overtaken

\* What the poll has passed was printed, and what it will pass with the answer
\* it waits for is in that answer.
Passed == \A n \in Numbers : n < cur /\ stored[n] > 0 /\ IsAskedFor(n) => printed[n] > 0 \/ n \in Excused
Gaps ==
    \A m, n \in Numbers :
        n < m /\ n >= cur /\ got[m] > 0 /\ stored[n] > 0 /\ IsAskedFor(n) =>
            got[n] > 0 \/ n \in Excused

\* Why the poll ends holds of the agent.
Closed ==
    /\ Asking \/ pc = "stopped" =>
          (final = "phase" => \E phase \in 1..Len(PhaseSeq) : PhaseSeq[phase] = wanted /\ phase < at)
    /\ final = "complete" => at = Len(PhaseSeq) + 2
    /\ pc = "stopped" => final = "phase"
    /\ pc = "over" => final \in {"cancelled", "complete"}

\* Then there is nothing more to come: it is in the answer, and printed after it.
Caught ==
    Asking /\ final \in {"phase", "complete"} =>
        \A n \in Numbers : stored[n] > 0 /\ n >= cur /\ IsAskedFor(n) /\ phaseOf[n] < cursor =>
            got[n] > 0 \/ n \in slow
Finished ==
    pc \in {"stopped", "over"} /\ final \in {"phase", "complete"} =>
        \A n \in Numbers : stored[n] > 0 /\ IsAskedFor(n) => printed[n] > 0 \/ n \in Excused

SkipInv == Reached /\ Passed /\ Gaps /\ Closed /\ Caught /\ Finished

-----------------------------------------------------------------------------
\* No action writes a value of the wrong shape.
LEMMA TypeStep == TypeOK /\ [Next]_vars => TypeOK'
<1> SUFFICES ASSUME TypeOK, [Next]_vars PROVE TypeOK'
  OBVIOUS
<1>0. Len(PhaseSeq) \in Nat /\ MaxFragments \in Nat
  BY LiveLogsAssumption
<1> USE <1>0 DEF TypeOK, Finals, agent, server, poller
<1>1. CASE PostFragment
  <2>1. next' \in 0..MaxFragments
    BY <1>1 DEF PostFragment, NewFragment
  <2>2. next \in Numbers /\ at \in 0..Len(PhaseSeq) /\ phaseOf' = [phaseOf EXCEPT ![next] = at]
    BY <1>1 DEF PostFragment, NewFragment, IsRunning, Numbers
  <2>3. phaseOf' \in [Numbers -> 0..Len(PhaseSeq)]
    BY <2>2
  <2>4. stored' \in [Numbers -> Nat] /\ late' \subseteq Numbers /\ slow' \subseteq Numbers
    BY <1>1, <2>2 DEF PostFragment
  <2> QED
    BY <1>1, <2>1, <2>3, <2>4 DEF PostFragment, NewFragment
<1>2. CASE PostFails
  <2>1. next' \in 0..MaxFragments
    BY <1>2 DEF PostFails, NewFragment
  <2>2. next \in Numbers /\ at \in 0..Len(PhaseSeq) /\ phaseOf' = [phaseOf EXCEPT ![next] = at]
    BY <1>2 DEF PostFails, NewFragment, IsRunning, Numbers
  <2>3. phaseOf' \in [Numbers -> 0..Len(PhaseSeq)]
    BY <2>2
  <2>4. stored' \in [Numbers -> Nat] /\ late' \subseteq Numbers /\ slow' \subseteq Numbers
    BY <1>2, <2>2 DEF PostFails
  <2> QED
    BY <1>2, <2>1, <2>3, <2>4 DEF PostFails, NewFragment
<1>3. CASE Arrive
  BY <1>3 DEF Arrive
<1>4. CASE EndPhase
  BY <1>4 DEF EndPhase, IsRunning, Phases
<1>5. CASE PostOutcome
  BY <1>5 DEF PostOutcome
<1>6. CASE Cancel
  BY <1>6 DEF Cancel
<1>7. CASE ReadState
  BY <1>7 DEF ReadState, StartRound, Final
<1>8. CASE ReadFails
  BY <1>8 DEF ReadFails, StartRound
<1>9. CASE Query
  <2> DEFINE found == IF IsQueried(cursor) THEN Found(cursor) ELSE {}
  <2>1. got' = [n \in Numbers |-> IF n \in found THEN stored[n] ELSE got[n]]
    BY <1>9 DEF Query
  <2>2. got' \in [Numbers -> Nat]
    BY <2>1
  <2>3. overtaken' \subseteq Numbers
    BY <1>9 DEF Query, Behind
  <2>4. cursor' \in 1..(Len(PhaseSeq) + 1)
    BY <1>9 DEF Query
  <2> QED
    BY <1>9, <2>2, <2>3, <2>4 DEF Query
<1>10. CASE Respond
  BY <1>10 DEF Respond
<1>11. CASE Retry
  <2>1. got' \in [Numbers -> Nat] /\ cursor' \in 1..(Len(PhaseSeq) + 1)
    BY <1>11 DEF Retry, EndRequest, Nothing
  <2>2. overtaken' \subseteq Numbers
    BY <1>11 DEF Retry
  <2> QED
    BY <1>11, <2>1, <2>2 DEF Retry
<1>12. CASE PrintLogs
  <2>1. got' \in [Numbers -> Nat] /\ cursor' \in 1..(Len(PhaseSeq) + 1)
    BY <1>12 DEF PrintLogs, EndRequest, Nothing
  <2>2. printed' \in [Numbers -> Nat]
    BY <1>12 DEF PrintLogs
  <2>3. cur' \in 0..MaxFragments
    BY <1>12 DEF PrintLogs, Received, Numbers
  <2>4. pc' \in {"state", "query", "print", "stopped", "over"}
    BY <1>12 DEF PrintLogs
  <2> QED
    BY <1>12, <2>1, <2>2, <2>3, <2>4 DEF PrintLogs
<1>13. CASE Continue
  BY <1>13 DEF Continue
<1>14. CASE UNCHANGED vars
  BY <1>14 DEF vars
<1> QED
  BY <1>1, <1>2, <1>3, <1>4, <1>5, <1>6, <1>7, <1>8, <1>9, <1>10, <1>11, <1>12, <1>13, <1>14
     DEF Next, Finish, vars

\* Every variable keeps its type, for every list of phases and number of fragments.
LEMMA PollTypeCorrect == Spec => []TypeOK
<1>1. Init => TypeOK
  BY LiveLogsAssumption DEF Init, TypeOK, Numbers, Phases, Finals, Nothing
<1>2. TypeOK /\ [Next]_vars => TypeOK'
  BY TypeStep
<1> QED
  BY <1>1, <1>2, PTL DEF Spec

-----------------------------------------------------------------------------
\* What the agent, the server and the user do, and the steps of the poll.
AgentSide == PostFragment \/ PostFails \/ Arrive \/ EndPhase \/ PostOutcome \/ Cancel
PollSide  == ReadState \/ ReadFails \/ Query \/ Respond \/ Retry \/ PrintLogs \/ Continue

\* The two sides do not write each other's variables.
LEMMA Sides ==
    [Next]_vars =>
        \/ AgentSide /\ UNCHANGED <<poller, overtaken>>
        \/ PollSide /\ UNCHANGED <<agent, server, slow>>
        \/ UNCHANGED vars
<1> SUFFICES ASSUME [Next]_vars, ~UNCHANGED vars
             PROVE  \/ AgentSide /\ UNCHANGED <<poller, overtaken>>
                    \/ PollSide /\ UNCHANGED <<agent, server, slow>>
  OBVIOUS
<1>1. CASE AgentSide
  BY <1>1 DEF AgentSide, PostFragment, PostFails, NewFragment, Arrive, EndPhase,
              PostOutcome, Cancel
<1>2. CASE PollSide
  BY <1>2 DEF PollSide, ReadState, ReadFails, StartRound, Query, Respond, Retry, PrintLogs, Continue
<1> QED
  BY <1>1, <1>2 DEF Next, Finish, AgentSide, PollSide

\* What the proofs use of the types.
LEMMA Shapes ==
    TypeOK =>
        /\ Len(PhaseSeq) \in Nat /\ MaxFragments \in Nat
        /\ next \in Nat /\ at \in Nat \ {0}
        /\ phaseOf \in [Numbers -> Nat] /\ stored \in [Numbers -> Nat]
        /\ \A n \in Numbers : n \in Nat /\ phaseOf[n] \in Nat /\ stored[n] \in Nat
        /\ cur \in Nat /\ \A n \in Numbers : got[n] \in Nat /\ printed[n] \in Nat
        /\ \A m, n \in 1..Len(PhaseSeq) : PhaseSeq[m] = PhaseSeq[n] => m = n
<1> SUFFICES ASSUME TypeOK
             PROVE  /\ cur \in Nat /\ \A n \in Numbers : got[n] \in Nat /\ printed[n] \in Nat
                    /\ next \in Nat /\ at \in Nat \ {0}
                    /\ phaseOf \in [Numbers -> Nat] /\ stored \in [Numbers -> Nat]
                    /\ \A n \in Numbers : n \in Nat
  BY LiveLogsAssumption
<1>1. Len(PhaseSeq) \in Nat /\ MaxFragments \in Nat
  BY LiveLogsAssumption
<1>2. next \in Nat /\ at \in Nat \ {0} /\ stored \in [Numbers -> Nat]
  BY <1>1 DEF TypeOK
<1>3. phaseOf \in [Numbers -> Nat]
  BY <1>1 DEF TypeOK
<1>5. cur \in Nat /\ \A n \in Numbers : got[n] \in Nat /\ printed[n] \in Nat
  BY <1>1 DEF TypeOK
<1>4. \A n \in Numbers : n \in Nat
  BY <1>1 DEF Numbers
<1> QED
  BY <1>2, <1>3, <1>4, <1>5

LEMMA AgentStep == TypeOK /\ AgentInv /\ [Next]_vars => AgentInv'
<1> SUFFICES ASSUME TypeOK, Numbered, Past, [Next]_vars PROVE Numbered' /\ Past'
  BY DEF AgentInv
<1>0. /\ Len(PhaseSeq) \in Nat /\ MaxFragments \in Nat
      /\ next \in Nat /\ at \in Nat \ {0}
      /\ phaseOf \in [Numbers -> Nat] /\ stored \in [Numbers -> Nat]
      /\ \A n \in Numbers : n \in Nat /\ phaseOf[n] \in Nat /\ stored[n] \in Nat
      /\ \A m, n \in 1..Len(PhaseSeq) : PhaseSeq[m] = PhaseSeq[n] => m = n
  BY Shapes
<1>1. CASE AgentSide
  <2>1. CASE PostFragment \/ PostFails
    <3>0. NewFragment
      BY <2>1 DEF PostFragment, PostFails
    <3>1. /\ next \in Numbers /\ next' = next + 1 /\ UNCHANGED <<at, codes, jobState>>
          /\ phaseOf' = [phaseOf EXCEPT ![next] = at]
      <4>1. next \in Numbers
        BY <1>0, <3>0 DEF NewFragment, Numbers
      <4> QED
        BY <3>0, <4>1 DEF NewFragment
    <3>2. /\ \/ stored' = [stored EXCEPT ![next] = 1]
             \/ stored' = stored /\ (next \in late' => next \in late \/ next \in slow')
          /\ late' \subseteq late \cup {next} /\ slow \subseteq slow'
      <4>1. CASE PostFragment
        BY <4>1 DEF PostFragment
      <4>2. CASE PostFails
        BY <4>2 DEF PostFails
      <4> QED
        BY <2>1, <4>1, <4>2
    <3>3. \A n \in Numbers : n < next' <=> n < next \/ n = next
      BY <1>0, <3>1
    <3>4. \A n \in Numbers : phaseOf'[n] = IF n = next THEN at ELSE phaseOf[n]
      BY <1>0, <3>1
    <3>5. \A n \in Numbers : n # next => stored'[n] = stored[n] /\ (n \in late' => n \in late)
      BY <1>0, <3>1, <3>2
    <3>6. next \in late' => stored'[next] > 0 \/ next \in slow'
      BY <1>0, <3>1, <3>2 DEF Numbered
    <3>7. Numbered'
      <4>1. \A n \in Numbers : (n < next' <=> phaseOf'[n] # 0) /\ phaseOf'[n] <= at
        BY <1>0, <3>1, <3>3, <3>4 DEF Numbered
      <4>2. \A m, n \in Numbers : m <= n /\ n < next' => phaseOf'[m] <= phaseOf'[n]
        BY <1>0, <3>1, <3>3, <3>4 DEF Numbered
      <4>3. \A n \in Numbers : n \in late' => stored'[n] > 0 \/ n \in slow'
        BY <1>0, <3>1, <3>2, <3>5, <3>6 DEF Numbered
      <4>4. \A n \in Numbers : stored'[n] > 0 \/ n \in late' => n < next'
        BY <1>0, <3>1, <3>3, <3>5 DEF Numbered
      <4> QED
        BY <3>1, <4>1, <4>2, <4>3, <4>4 DEF Numbered
    <3> QED
      BY <3>1, <3>7 DEF Past
  <2>2. CASE Arrive
    <3> PICK n \in late : stored' = [stored EXCEPT ![n] = @ + 1] /\ late' = late \ {n}
      BY <2>2 DEF Arrive
    <3>1. n \in Numbers /\ \A m \in Numbers : stored'[m] = IF m = n THEN stored[n] + 1 ELSE stored[m]
      BY <1>0 DEF TypeOK
    <3> QED
      BY <1>0, <2>2, <3>1 DEF Arrive, Numbered, Past, agent
  <2>3. CASE EndPhase
    <3>1. /\ at' = at + 1 /\ at \in 1..Len(PhaseSeq) /\ codes' \subseteq codes \cup {PhaseSeq[at]}
          /\ jobState' = "complete" => jobState = "complete"
          /\ UNCHANGED <<next, phaseOf, stored, late, slow>>
      BY <1>0, <2>3 DEF EndPhase, IsRunning
    <3>2. Numbered'
      BY <1>0, <3>1 DEF Numbered
    <3>3. Past'
      BY <1>0, <3>1 DEF Past
    <3> QED
      BY <3>2, <3>3
  <2>4. CASE PostOutcome
    BY <1>0, <2>4 DEF PostOutcome, Numbered, Past
  <2>5. CASE Cancel
    BY <2>5 DEF Cancel, Numbered, Past, agent
  <2> QED
    BY <1>1, <2>1, <2>2, <2>3, <2>4, <2>5 DEF AgentSide
<1>2. CASE UNCHANGED <<agent, server, slow>>
  BY <1>2 DEF agent, server, Numbered, Past
<1> QED
  BY <1>1, <1>2, Sides DEF vars

\* What is stored stays stored.
LEMMA StoredGrows ==
    TypeOK /\ AgentInv /\ [Next]_vars => \A n \in Numbers : stored'[n] >= stored[n]
<1> SUFFICES ASSUME TypeOK, Numbered, [Next]_vars, NEW n \in Numbers
             PROVE  stored'[n] >= stored[n]
  BY DEF AgentInv
<1>0. stored \in [Numbers -> Nat] /\ stored[n] \in Nat /\ next \in Nat
  BY Shapes
<1>1. CASE UNCHANGED stored
  BY <1>0, <1>1
<1>2. CASE PostFragment
  <2>1. ~(stored[next] > 0) \/ next \notin Numbers
    BY <1>0 DEF Numbered
  <2>2. stored' = [stored EXCEPT ![next] = 1]
    BY <1>2 DEF PostFragment
  <2> QED
    BY <1>0, <2>1, <2>2
<1>3. CASE Arrive
  BY <1>0, <1>3 DEF Arrive
<1>4. CASE AgentSide
  BY <1>1, <1>2, <1>3, <1>4 DEF AgentSide, PostFails, EndPhase, PostOutcome, Cancel
<1> QED
  BY <1>1, <1>4, Sides DEF server, vars

LEMMA OrderStep == OrderInv /\ [Next]_vars => OrderInv'
<1> SUFFICES ASSUME TypeOK, AgentInv, Ahead, Fresh, Idle, [Next]_vars
             PROVE  (Ahead /\ Fresh /\ Idle)'
  BY TypeStep, AgentStep DEF OrderInv
<1>a. \A n \in Numbers : stored'[n] \in Nat
  BY TypeStep DEF TypeOK
<1>0. /\ cur \in Nat /\ \A n \in Numbers : n \in Nat
      /\ \A n \in Numbers : stored[n] \in Nat /\ stored'[n] \in Nat /\ stored'[n] >= stored[n]
  BY <1>a, Shapes, StoredGrows
<1>1. \A n \in Numbers : got[n] \in Nat /\ printed[n] \in Nat
  BY DEF TypeOK
<1>2. CASE UNCHANGED poller
  BY <1>0, <1>1, <1>2 DEF poller, Ahead, Fresh, Idle, Asking
<1>3. CASE PollSide /\ UNCHANGED <<agent, server, slow>>
  <2>0. UNCHANGED stored
    BY <1>3 DEF server
  <2>1. CASE ReadState \/ ReadFails
    BY <2>0, <2>1 DEF ReadState, ReadFails, StartRound, Ahead, Fresh, Idle, Asking
  <2>2. CASE Query
    <3>1. /\ pc = "query" /\ UNCHANGED <<pc, cur, printed>>
          /\ \A n \in Numbers : \/ got'[n] = got[n]
                                \/ got'[n] = stored[n] /\ n >= cur
      BY <2>2 DEF Query, Found
    <3> QED
      BY <1>0, <1>1, <2>0, <3>1 DEF Ahead, Fresh, Idle, Asking
  <2>3. CASE Respond
    BY <2>0, <2>3 DEF Respond, Ahead, Fresh, Idle, Asking
  <2>4. CASE Retry
    BY <1>0, <2>0, <2>4 DEF Retry, EndRequest, Nothing, Ahead, Fresh, Idle, Asking
  <2>5. CASE PrintLogs
    <3>1. \A n \in Numbers : printed'[n] > 0 => printed[n] > 0 \/ n \in Received
      BY <1>1, <2>5 DEF PrintLogs, Received
    <3>2. \A n \in Received : n \in Numbers /\ n >= cur
      BY DEF Received, Fresh
    <3>3. cur' >= cur /\ \A n \in Received : n < cur'
      BY <1>0, <2>5, <3>2 DEF PrintLogs, IsLast
    <3>4. cur' \in Nat
      BY <1>0, <2>5, <3>2 DEF PrintLogs
    <3>5. Ahead'
      BY <1>0, <3>1, <3>3, <3>4 DEF Ahead
    <3>6. Fresh' /\ Idle'
      BY <1>0, <2>5 DEF PrintLogs, EndRequest, Nothing, Fresh, Idle, Asking
    <3> QED
      BY <3>5, <3>6
  <2>6. CASE Continue
    BY <2>0, <2>6 DEF Continue, Ahead, Fresh, Idle, Asking
  <2> QED
    BY <1>3, <2>1, <2>2, <2>3, <2>4, <2>5, <2>6 DEF PollSide
<1> QED
  BY <1>2, <1>3, Sides DEF vars

LEMMA InitOrder == Init => OrderInv
<1> SUFFICES ASSUME Init PROVE OrderInv
  OBVIOUS
<1>1. TypeOK
  BY LiveLogsAssumption DEF Init, TypeOK, Numbers, Phases, Finals, Nothing
<1>2. Numbered /\ Past
  BY LiveLogsAssumption DEF Init, Nothing, Numbered, Past, Numbers
<1>3. Ahead /\ Fresh /\ Idle
  BY DEF Init, Nothing, Ahead, Fresh, Idle
<1> QED
  BY <1>1, <1>2, <1>3 DEF OrderInv, AgentInv

\* A poll prints fragments that come after all it has printed, and each as often
\* as it is stored.
LEMMA PollPrintsInOrder == Spec => PrintedInOrder
<1>1. OrderInv /\ [Next]_vars =>
        [\A n \in Numbers : printed'[n] > printed[n] =>
              /\ \A m \in Numbers : printed[m] > 0 => m < n
              /\ printed'[n] <= stored[n]]_vars
  <2> SUFFICES ASSUME OrderInv, [Next]_vars, NEW n \in Numbers, printed'[n] > printed[n]
               PROVE  (\A m \in Numbers : printed[m] > 0 => m < n) /\ printed'[n] <= stored[n]
    OBVIOUS
  <2>1. /\ cur \in Nat /\ \A m \in Numbers : m \in Nat
        /\ got[n] \in Nat /\ printed[n] \in Nat /\ stored[n] \in Nat
    BY Shapes DEF OrderInv
  <2>2. PrintLogs
    <3>1. ~UNCHANGED printed
      BY <2>1
    <3> QED
      BY <3>1, Sides DEF PollSide, ReadState, ReadFails, StartRound, Query, Respond, Retry,
                         Continue, poller, vars
  <2>3. printed'[n] = printed[n] + got[n] /\ got[n] > 0
    BY <2>1, <2>2 DEF PrintLogs
  <2>4. n >= cur /\ got[n] <= stored[n] /\ \A m \in Numbers : printed[m] > 0 => m < cur
    BY <2>3 DEF OrderInv, Fresh, Ahead
  <2>5. printed[n] = 0
    BY <2>1, <2>4
  <2> QED
    BY <2>1, <2>3, <2>4, <2>5
<1> QED
  BY <1>1, InitOrder, OrderStep, PTL DEF Spec, PrintedInOrder

-----------------------------------------------------------------------------
\* What the agent's side does to the fragments.
LEMMA AgentSideFacts ==
    TypeOK /\ AgentInv /\ AgentSide =>
        /\ at' >= at /\ next' >= next /\ slow \subseteq slow'
        /\ \A n \in Numbers : n < next => phaseOf'[n] = phaseOf[n]
        /\ \A n \in Numbers : stored'[n] > 0 =>
              \/ stored[n] > 0
              \/ n = next /\ at \in 1..Len(PhaseSeq) /\ phaseOf'[n] = at
              \/ n \in slow'
<1> SUFFICES ASSUME TypeOK, Numbered, AgentSide
             PROVE  /\ at' >= at /\ next' >= next /\ slow \subseteq slow'
                    /\ \A n \in Numbers : n < next => phaseOf'[n] = phaseOf[n]
                    /\ \A n \in Numbers : stored'[n] > 0 =>
                          \/ stored[n] > 0
                          \/ n = next /\ at \in 1..Len(PhaseSeq) /\ phaseOf'[n] = at
                          \/ n \in slow'
  BY DEF AgentInv
<1>0. /\ Len(PhaseSeq) \in Nat /\ next \in Nat /\ at \in Nat \ {0}
      /\ phaseOf \in [Numbers -> Nat] /\ stored \in [Numbers -> Nat]
      /\ \A n \in Numbers : n \in Nat
  BY Shapes
<1>1. CASE PostFragment
  BY <1>0, <1>1 DEF PostFragment, NewFragment, IsRunning
<1>2. CASE PostFails
  BY <1>0, <1>2 DEF PostFails, NewFragment
<1>3. CASE Arrive
  BY <1>0, <1>3 DEF Arrive, agent, Numbered
<1>4. CASE EndPhase
  BY <1>0, <1>4 DEF EndPhase
<1>5. CASE PostOutcome
  BY <1>0, <1>5 DEF PostOutcome
<1>6. CASE Cancel
  BY <1>0, <1>6 DEF Cancel, agent
<1> QED
  BY <1>1, <1>2, <1>3, <1>4, <1>5, <1>6 DEF AgentSide

\* What the agent's side stores for the first time the poll has not passed, and
\* does not need.
LEMMA SkipAgentSide ==
    OrderInv /\ OrderInv' /\ SkipInv /\ AgentSide /\ UNCHANGED <<poller, overtaken>> => SkipInv'
<1> SUFFICES ASSUME TypeOK, TypeOK', AgentInv, AgentInv', SkipInv, AgentSide,
                    UNCHANGED <<poller, overtaken>>
             PROVE  SkipInv'
  BY DEF OrderInv
<1>0. /\ Len(PhaseSeq) \in Nat /\ next \in Nat /\ next' \in Nat /\ at \in Nat /\ at' \in Nat
      /\ at' <= Len(PhaseSeq) + 2 /\ cur \in Nat
      /\ \A n \in Numbers : n \in Nat /\ got[n] \in Nat
      /\ \A m, n \in 1..Len(PhaseSeq) : PhaseSeq[m] = PhaseSeq[n] => m = n
  <2>1. at' \in 1..(Len(PhaseSeq) + 2) /\ next' \in 0..MaxFragments
    BY DEF TypeOK
  <2> QED
    BY <2>1, Shapes
<1>1. /\ at' >= at /\ next' >= next /\ slow \subseteq slow'
      /\ \A n \in Numbers : n < next => phaseOf'[n] = phaseOf[n]
  BY AgentSideFacts
<1>2. \A n \in Numbers : stored'[n] > 0 =>
          \/ stored[n] > 0
          \/ n = next /\ at \in 1..Len(PhaseSeq) /\ phaseOf'[n] = at
          \/ n \in slow'
  BY AgentSideFacts
<1>3. /\ UNCHANGED <<pc, asked, wanted, cur, final, cursor, got, printed, overtaken>>
      /\ Asking' = Asking
  BY DEF poller, Asking
<1>4. \A n \in Numbers : stored[n] > 0 => n < next
  BY DEF AgentInv, Numbered
<1>5. \A n \in Numbers : n < next => IsAskedFor(n)' = IsAskedFor(n)
  BY <1>1, <1>3 DEF IsAskedFor
<1>6. cur <= next /\ \A n \in Numbers : got[n] > 0 => n < next
  BY DEF SkipInv, Reached
<1>7. Excused \subseteq Excused'
  BY <1>1, <1>3 DEF Excused
<1>8. slow' \subseteq Excused'
  BY DEF Excused
<1>9. Closed'
  BY <1>0, <1>1, <1>3 DEF SkipInv, Closed
<1>10. \A n \in Numbers :
          /\ n = next /\ at \in 1..Len(PhaseSeq) /\ phaseOf'[n] = at
          /\ final \in {"phase", "complete"} /\ (Asking \/ pc \in {"stopped", "over"})
          => ~IsAskedFor(n)'
  <2> SUFFICES ASSUME NEW n \in Numbers, at \in 1..Len(PhaseSeq), phaseOf'[n] = at,
                      final \in {"phase", "complete"}, Asking \/ pc \in {"stopped", "over"}
               PROVE  ~IsAskedFor(n)'
    OBVIOUS
  <2>1. final = "phase" /\ (Asking \/ pc = "stopped")
    BY <1>0 DEF SkipInv, Closed
  <2>2. PICK phase \in 1..Len(PhaseSeq) : PhaseSeq[phase] = wanted /\ phase < at
    BY <2>1 DEF SkipInv, Closed
  <2>3. wanted # "all"
    BY <2>2, LiveLogsAssumption DEF Phases
  <2> QED
    BY <1>0, <1>3, <2>2, <2>3 DEF IsAskedFor
<1>11. Reached'
  BY <1>0, <1>1, <1>3, <1>6 DEF SkipInv, Reached
<1>12. Passed'
  BY <1>0, <1>2, <1>3, <1>4, <1>5, <1>6, <1>7, <1>8 DEF SkipInv, Passed
<1>13. Gaps'
  <2> SUFFICES ASSUME NEW m \in Numbers, NEW n \in Numbers, n < m, n >= cur, got[m] > 0,
                      stored'[n] > 0, IsAskedFor(n)'
               PROVE  got[n] > 0 \/ n \in Excused'
    BY <1>3 DEF Gaps
  <2>1. n < next
    BY <1>0, <1>6
  <2>2. IsAskedFor(n)
    BY <1>5, <2>1
  <2>3. stored[n] > 0 \/ n \in slow'
    BY <1>0, <1>2, <2>1
  <2> QED
    BY <1>7, <1>8, <2>2, <2>3 DEF SkipInv, Gaps
<1>14. Caught'
  <2> SUFFICES ASSUME Asking, final \in {"phase", "complete"}, NEW n \in Numbers,
                      stored'[n] > 0, n >= cur, IsAskedFor(n)', phaseOf'[n] < cursor
               PROVE  got[n] > 0 \/ n \in slow'
    BY <1>3 DEF Caught
  <2>1. stored[n] > 0 \/ n \in slow'
    BY <1>2, <1>10
  <2>2. CASE stored[n] > 0
    <3>1. IsAskedFor(n) /\ phaseOf[n] < cursor
      BY <1>1, <1>4, <1>5, <2>2
    <3> QED
      BY <1>1, <2>2, <3>1 DEF SkipInv, Caught
  <2> QED
    BY <2>1, <2>2
<1>15. Finished'
  <2> SUFFICES ASSUME pc \in {"stopped", "over"}, final \in {"phase", "complete"},
                      NEW n \in Numbers, stored'[n] > 0, IsAskedFor(n)'
               PROVE  printed[n] > 0 \/ n \in Excused'
    BY <1>3 DEF Finished
  <2>1. stored[n] > 0 \/ n \in slow'
    BY <1>2, <1>10
  <2>2. CASE stored[n] > 0
    BY <1>4, <1>5, <1>7, <2>2 DEF SkipInv, Finished
  <2> QED
    BY <1>8, <2>1, <2>2
<1> QED
  BY <1>9, <1>11, <1>12, <1>13, <1>14, <1>15 DEF SkipInv

\* The answer to a request has all that is stored and asked for, up to the phase
\* that is queried next, but for what was overtaken.
LEMMA SkipQuery ==
    OrderInv /\ SkipInv /\ Query /\ UNCHANGED <<agent, server, slow>> => SkipInv'
<1> SUFFICES ASSUME TypeOK, Numbered, SkipInv, Query, UNCHANGED <<agent, server, slow>>
             PROVE  SkipInv'
  BY DEF OrderInv, AgentInv
<1> DEFINE found == IF IsQueried(cursor) THEN Found(cursor) ELSE {}
<1>0. /\ Len(PhaseSeq) \in Nat /\ cursor \in 1..Len(PhaseSeq) /\ cur \in Nat /\ next \in Nat
      /\ \A n \in Numbers : n \in Nat /\ phaseOf[n] \in 0..Len(PhaseSeq)
      /\ \A n \in Numbers : stored[n] \in Nat /\ got[n] \in Nat
      /\ \A m, n \in 1..Len(PhaseSeq) : PhaseSeq[m] = PhaseSeq[n] => m = n
  <2>1. cursor \in 1..(Len(PhaseSeq) + 1) /\ \A n \in Numbers : phaseOf[n] \in 0..Len(PhaseSeq)
    BY DEF TypeOK
  <2> QED
    BY <2>1, Shapes DEF Query
<1>1. /\ UNCHANGED <<pc, asked, wanted, cur, final, printed, slow, next, at, stored, phaseOf>>
      /\ pc = "query" /\ cursor' = cursor + 1
      /\ Asking /\ Asking' /\ \A n \in Numbers : IsAskedFor(n)' = IsAskedFor(n)
  BY DEF Query, agent, server, Asking, IsAskedFor
<1>2. \A n \in Numbers :
          got'[n] = IF n \in found THEN stored[n] ELSE got[n]
  BY DEF Query
<1>3. \A n \in found :
          /\ n \in Numbers /\ phaseOf[n] = cursor /\ stored[n] > 0 /\ n >= cur
          /\ wanted = "all" \/ wanted = PhaseSeq[cursor]
  BY DEF Found, IsQueried
<1>4. \A n \in Numbers : stored[n] > 0 => n < next /\ phaseOf[n] \in 1..Len(PhaseSeq)
  BY <1>0 DEF Numbered
<1>5. \A n \in Numbers : got[n] > 0 => got'[n] > 0
  BY <1>2, <1>3
<1>6. Excused \subseteq Excused'
  BY <1>1 DEF Query, Excused
<1>7. \A n \in Numbers :
          stored[n] > 0 /\ n >= cur /\ phaseOf[n] = cursor /\ IsAskedFor(n) => n \in found
  <2> SUFFICES ASSUME NEW n \in Numbers, stored[n] > 0, n >= cur, phaseOf[n] = cursor,
                      IsAskedFor(n)
               PROVE  IsQueried(cursor)
    BY DEF Found
  <2> QED
    BY <1>0 DEF IsAskedFor, IsQueried
<1>8. Reached'
  <2>1. \A n \in Numbers :
            got'[n] > 0 => n < next /\ (wanted # "all" => PhaseSeq[phaseOf[n]] = wanted)
    BY <1>2, <1>3, <1>4 DEF SkipInv, Reached
  <2> QED
    BY <1>1, <2>1 DEF SkipInv, Reached
<1>9. Passed'
  BY <1>1, <1>6 DEF SkipInv, Passed
<1>10. Gaps'
  <2> SUFFICES ASSUME NEW m \in Numbers, NEW n \in Numbers, n < m, n >= cur, got'[m] > 0,
                      stored[n] > 0, IsAskedFor(n), ~(got'[n] > 0)
               PROVE  n \in Excused'
    BY <1>1 DEF Gaps
  <2>1. CASE got[m] > 0
    BY <1>5, <1>6, <2>1 DEF SkipInv, Gaps
  <2>2. CASE m \in found
    <3>1. phaseOf[n] <= phaseOf[m] /\ phaseOf[m] = cursor
      BY <1>0, <1>3, <1>4, <2>2 DEF Numbered
    <3>2. n \notin found
      BY <1>2, <1>3
    <3>3. phaseOf[n] \in 1..(cursor - 1)
      BY <1>0, <1>4, <1>7, <3>1, <3>2
    <3>4. wanted = "all"
      BY <1>0, <1>3, <2>2, <3>3 DEF IsAskedFor
    <3>5. n \in Behind(cursor)
      BY <1>0, <1>5, <3>3 DEF Behind
    <3>6. n \in overtaken'
      BY <2>2, <3>4, <3>5 DEF Query
    <3> QED
      BY <3>6 DEF Excused
  <2> QED
    BY <1>2, <2>1, <2>2
<1>11. Closed'
  BY <1>1 DEF SkipInv, Closed
<1>12. Caught'
  <2> SUFFICES ASSUME final \in {"phase", "complete"}, NEW n \in Numbers,
                      stored[n] > 0, n >= cur, IsAskedFor(n), phaseOf[n] < cursor + 1
               PROVE  got'[n] > 0 \/ n \in slow
    BY <1>1 DEF Caught
  <2>1. CASE phaseOf[n] = cursor
    BY <1>2, <1>7, <2>1
  <2>2. CASE phaseOf[n] < cursor
    BY <1>1, <1>5, <2>2 DEF SkipInv, Caught
  <2> QED
    BY <1>0, <2>1, <2>2
<1>13. Finished'
  BY <1>1 DEF Finished
<1> QED
  BY <1>8, <1>9, <1>10, <1>11, <1>12, <1>13 DEF SkipInv

\* What was in the answer is printed, and the poll passes no more than that.
LEMMA SkipPrint ==
    OrderInv /\ SkipInv /\ PrintLogs /\ UNCHANGED <<agent, server, slow>> => SkipInv'
<1> SUFFICES ASSUME TypeOK, Numbered, SkipInv, PrintLogs, UNCHANGED <<agent, server, slow>>
             PROVE  SkipInv'
  BY DEF OrderInv, AgentInv
<1>0. /\ Len(PhaseSeq) \in Nat /\ cur \in Nat /\ next \in Nat
      /\ \A n \in Numbers : n \in Nat /\ phaseOf[n] \in 0..Len(PhaseSeq)
      /\ \A n \in Numbers : stored[n] \in Nat /\ got[n] \in Nat /\ printed[n] \in Nat
  <2>1. \A n \in Numbers : phaseOf[n] \in 0..Len(PhaseSeq)
    BY DEF TypeOK
  <2> QED
    BY <2>1, Shapes
<1>1. /\ UNCHANGED <<asked, wanted, final, slow, overtaken, next, at, stored, phaseOf>>
      /\ pc = "print" /\ Asking /\ \A n \in Numbers : IsAskedFor(n)' = IsAskedFor(n)
      /\ Excused' = Excused
  BY DEF PrintLogs, agent, server, Asking, IsAskedFor, Excused
<1>2. \A n \in Numbers : printed'[n] = printed[n] + got[n] /\ ~(got'[n] > 0)
  BY DEF PrintLogs, EndRequest, Nothing
<1>3. /\ final = "no" => pc' = "state"
      /\ final = "phase" => pc' = "stopped"
      /\ final \in {"cancelled", "complete"} => pc' = "over"
  BY DEF PrintLogs
<1>4. final \in Finals
  BY DEF TypeOK
<1>5. \A n \in Numbers : stored[n] > 0 => n < next /\ phaseOf[n] \in 1..Len(PhaseSeq)
  BY <1>0 DEF Numbered
<1>6. \/ cur' = cur
      \/ \E last \in Numbers : got[last] > 0 /\ cur' = last + 1
  BY DEF PrintLogs, Received
<1>7. Passed'
  <2> SUFFICES ASSUME NEW n \in Numbers, n < cur', stored[n] > 0, IsAskedFor(n)
               PROVE  printed'[n] > 0 \/ n \in Excused
    BY <1>1 DEF Passed
  <2>1. CASE n < cur
    BY <1>0, <1>2, <2>1 DEF SkipInv, Passed
  <2>2. CASE ~(n < cur)
    <3> PICK last \in Numbers : got[last] > 0 /\ cur' = last + 1
      BY <1>6, <2>2
    <3>1. n = last \/ n < last
      BY <1>0
    <3>2. got[n] > 0 \/ n \in Excused
      BY <1>0, <2>2, <3>1 DEF SkipInv, Gaps
    <3> QED
      BY <1>0, <1>2, <3>2
  <2> QED
    BY <2>1, <2>2
<1>8. Reached'
  <2>1. cur' <= next
    BY <1>0, <1>6 DEF SkipInv, Reached
  <2>2. ASSUME wanted # "all", NEW n \in Numbers, NEW phase \in 1..Len(PhaseSeq),
               n < cur', PhaseSeq[phase] = wanted
        PROVE  phaseOf[n] <= phase
    <3>1. CASE n < cur
      BY <2>2, <3>1 DEF SkipInv, Reached
    <3>2. CASE ~(n < cur)
      <4> PICK last \in Numbers : got[last] > 0 /\ cur' = last + 1
        BY <1>6, <2>2, <3>2
      <4>1. last < next /\ PhaseSeq[phaseOf[last]] = wanted
        BY <2>2 DEF SkipInv, Reached
      <4>2. phaseOf[last] \in 1..Len(PhaseSeq) /\ phaseOf[n] <= phaseOf[last]
        BY <1>0, <2>2, <4>1 DEF Numbered
      <4>3. phaseOf[last] = phase
        BY <2>2, <4>1, <4>2, LiveLogsAssumption
      <4> QED
        BY <4>2, <4>3
    <3> QED
      BY <3>1, <3>2
  <2>3. pc' # "print"
    BY <1>3, <1>4 DEF Finals
  <2> QED
    BY <1>1, <1>2, <2>1, <2>2, <2>3 DEF Reached
<1>9. Gaps'
  BY <1>2 DEF Gaps
<1>10. Closed'
  BY <1>1, <1>3, <1>4 DEF SkipInv, Closed, Finals, Asking
<1>11. Caught'
  BY <1>3, <1>4 DEF Caught, Asking, Finals
<1>12. Finished'
  <2> SUFFICES ASSUME final \in {"phase", "complete"}, NEW n \in Numbers, stored[n] > 0,
                      IsAskedFor(n)
               PROVE  printed'[n] > 0 \/ n \in Excused
    BY <1>1 DEF Finished
  <2>1. CASE n < cur
    BY <1>0, <1>2, <2>1 DEF SkipInv, Passed
  <2>2. CASE ~(n < cur)
    <3>1. phaseOf[n] < cursor
      BY <1>0, <1>1, <1>5 DEF SkipInv, Reached
    <3>2. got[n] > 0 \/ n \in slow
      BY <1>0, <1>1, <2>2, <3>1 DEF SkipInv, Caught
    <3> QED
      BY <1>0, <1>2, <3>2 DEF Excused
  <2> QED
    BY <2>1, <2>2
<1> QED
  BY <1>7, <1>8, <1>9, <1>10, <1>11, <1>12 DEF SkipInv

\* A round starts with an empty answer, and a status that holds of the agent.
LEMMA SkipStart ==
    /\ OrderInv /\ SkipInv /\ (ReadState \/ ReadFails) /\ UNCHANGED <<agent, server, slow>>
    => SkipInv'
<1> SUFFICES ASSUME OrderInv, SkipInv, ReadState \/ ReadFails, UNCHANGED <<agent, server, slow>>
             PROVE  SkipInv'
  OBVIOUS
<1>0. /\ \A n \in Numbers : phaseOf[n] \in Nat /\ n \in Nat /\ ~(got[n] > 0)
      /\ next \in Nat /\ cursor = 1
  BY Shapes DEF ReadState, ReadFails, StartRound, OrderInv, Idle, Asking, Nothing
<1>1. /\ UNCHANGED <<asked, wanted, cur, cursor, got, printed, slow, overtaken, next, at, stored, phaseOf>>
      /\ pc' = "query" /\ final' \in {"no", Final}
  BY DEF ReadState, ReadFails, StartRound, agent, server
<1>2. \A n \in Numbers : IsAskedFor(n)' = IsAskedFor(n)
  BY <1>1 DEF IsAskedFor
<1>3. \A n \in Numbers : stored[n] > 0 => ~(phaseOf[n] < 1)
  BY <1>0 DEF OrderInv, AgentInv, Numbered
<1>4. wanted \in status => \E phase \in 1..Len(PhaseSeq) : PhaseSeq[phase] = wanted /\ phase < at
  BY DEF OrderInv, TypeOK, Phases, AgentInv, Past
<1>5. Closed'
  <2>1. final' = "phase" => wanted \in status
    BY <1>1 DEF Final, OrderInv, TypeOK
  <2>2. final' = "complete" => jobState = "complete"
    BY <1>1 DEF Final
  <2>3. jobState = "complete" => at = Len(PhaseSeq) + 2
    BY DEF OrderInv, AgentInv, Past
  <2> QED
    BY <1>1, <1>4, <2>1, <2>2, <2>3 DEF Closed
<1>6. Reached' /\ Gaps'
  BY <1>0, <1>1 DEF SkipInv, Reached, Gaps
<1>7. Passed'
  BY <1>1, <1>2 DEF SkipInv, Passed, Excused
<1>8. Caught' /\ Finished'
  BY <1>0, <1>1, <1>3 DEF Caught, Finished
<1> QED
  BY <1>5, <1>6, <1>7, <1>8 DEF SkipInv

\* A poll that is tried again has forgotten the answer; one that is continued has
\* passed no phase but the one it was for.
LEMMA SkipAgain ==
    /\ OrderInv /\ SkipInv /\ (Respond \/ Retry \/ Continue) /\ UNCHANGED <<agent, server, slow>>
    => SkipInv'
<1> SUFFICES ASSUME OrderInv, SkipInv, Respond \/ Retry \/ Continue,
                    UNCHANGED <<agent, server, slow>>
             PROVE  SkipInv'
  OBVIOUS
<1>0. /\ UNCHANGED <<asked, cur, printed, slow, next, at, stored, phaseOf>>
      /\ \A n \in Numbers : n \in Nat /\ phaseOf[n] \in Nat
      /\ cur \in Nat /\ next \in Nat
  BY Shapes DEF Respond, Retry, Continue, agent, server, OrderInv
<1>1. CASE Respond
  <2>1. /\ UNCHANGED <<wanted, final, cursor, got, overtaken>>
        /\ pc' = "print" /\ cursor = Len(PhaseSeq) + 1 /\ Asking
        /\ \A n \in Numbers : IsAskedFor(n)' = IsAskedFor(n)
    BY <1>0, <1>1 DEF Respond, Asking, IsAskedFor
  <2>2. Reached' /\ Closed' /\ Finished'
    BY <1>0, <2>1 DEF SkipInv, Reached, Closed, Finished
  <2>3. Passed' /\ Gaps' /\ Caught'
    BY <1>0, <2>1 DEF SkipInv, Passed, Gaps, Caught, Excused
  <2> QED
    BY <2>2, <2>3 DEF SkipInv
<1>2. CASE Retry
  <2>1. /\ UNCHANGED wanted /\ pc' = "state" /\ final' = "no"
        /\ \A n \in Numbers : ~(got'[n] > 0)
        /\ overtaken' = {n \in overtaken : n < cur}
        /\ \A n \in Numbers : IsAskedFor(n)' = IsAskedFor(n)
    BY <1>0, <1>2 DEF Retry, EndRequest, Nothing, IsAskedFor
  <2>2. Reached' /\ Closed' /\ Finished' /\ Gaps' /\ Caught'
    BY <1>0, <2>1 DEF SkipInv, Reached, Closed, Finished, Gaps, Caught, Asking
  <2>3. Passed'
    BY <1>0, <2>1 DEF SkipInv, Passed, Excused
  <2> QED
    BY <2>2, <2>3 DEF SkipInv
<1>3. CASE Continue
  <2>1. /\ pc = "stopped" /\ pc' = "state" /\ wanted' = "all" /\ UNCHANGED <<final, got, overtaken>>
        /\ \A n \in Numbers : ~(got'[n] > 0)
    BY <1>3 DEF Continue, OrderInv, Idle, Asking, Nothing
  <2>2. final = "phase" /\ \E phase \in 1..Len(PhaseSeq) : PhaseSeq[phase] = wanted
    BY <2>1 DEF SkipInv, Closed
  <2>3. wanted # "all" /\ wanted = asked
    BY <2>2, LiveLogsAssumption DEF Phases, OrderInv, TypeOK
  <2>4. Passed'
    <3> SUFFICES ASSUME NEW n \in Numbers, n < cur, stored[n] > 0, IsAskedFor(n)'
                 PROVE  printed[n] > 0 \/ n \in Excused
      BY <1>0, <2>1 DEF Passed, Excused
    <3>1. PICK phase \in 1..phaseOf[n] : PhaseSeq[phase] = wanted
      BY <1>0, <2>1, <2>3, LiveLogsAssumption DEF IsAskedFor, Phases
    <3>2. phaseOf[n] \in 0..Len(PhaseSeq) /\ Len(PhaseSeq) \in Nat
      BY Shapes DEF OrderInv, TypeOK
    <3>3. phaseOf[n] <= phase
      BY <2>3, <3>1, <3>2 DEF SkipInv, Reached
    <3>4. IsAskedFor(n)
      BY <2>3, <3>1, <3>2, <3>3 DEF IsAskedFor
    <3> QED
      BY <3>4 DEF SkipInv, Passed
  <2>5. Reached' /\ Closed' /\ Finished' /\ Gaps' /\ Caught'
    BY <1>0, <2>1, <2>2 DEF SkipInv, Reached, Closed, Finished, Gaps, Caught, Asking
  <2> QED
    BY <2>4, <2>5 DEF SkipInv
<1> QED
  BY <1>1, <1>2, <1>3

LEMMA SkipStep == OrderInv /\ SkipInv /\ [Next]_vars => SkipInv'
<1> SUFFICES ASSUME OrderInv, SkipInv, [Next]_vars PROVE SkipInv'
  OBVIOUS
<1>1. CASE AgentSide /\ UNCHANGED <<poller, overtaken>>
  BY <1>1, OrderStep, SkipAgentSide
<1>2. CASE PollSide /\ UNCHANGED <<agent, server, slow>>
  BY <1>2, SkipStart, SkipQuery, SkipAgain, SkipPrint DEF PollSide
<1>3. CASE UNCHANGED vars
  <2>1. UNCHANGED <<pc, asked, wanted, cur, final, cursor, got, printed, slow, overtaken,
                    next, at, stored, phaseOf>>
    BY <1>3 DEF vars, agent, server, poller
  <2> QED
    BY <2>1 DEF SkipInv, Reached, Passed, Gaps, Closed, Caught, Finished, Asking, Excused, IsAskedFor
<1> QED
  BY <1>1, <1>2, <1>3, Sides

\* When a poll has ended with its phase or with the job, all that is stored of what
\* was asked for was printed, but for what was stored out of turn.
LEMMA PollSkipsNothing == Spec => []NothingIsSkipped
<1>1. Init => OrderInv /\ SkipInv
  <2> SUFFICES ASSUME Init PROVE SkipInv
    BY InitOrder
  <2> QED
    BY DEF Init, Nothing, SkipInv, Reached, Passed, Gaps, Closed, Caught, Finished, Asking
<1>2. OrderInv /\ SkipInv /\ [Next]_vars => (OrderInv /\ SkipInv)'
  BY OrderStep, SkipStep
<1>3. OrderInv /\ SkipInv => NothingIsSkipped
  <2> SUFFICES ASSUME OrderInv, SkipInv, pc \in {"stopped", "over"}, final # "cancelled",
                      NEW n \in Numbers, stored[n] > 0, IsAskedFor(n)
               PROVE  printed[n] > 0 \/ n \in slow \cup overtaken
    BY DEF NothingIsSkipped
  <2>1. final \in {"phase", "complete"}
    BY DEF SkipInv, Closed
  <2> QED
    BY <2>1 DEF SkipInv, Finished, Excused
<1> QED
  BY <1>1, <1>2, <1>3, PTL DEF Spec

-----------------------------------------------------------------------------
(***************************************************************************)
(* The status line.                                                        *)
(***************************************************************************)
\* The answers to a question are awaited on the line of the prompt.
Asked == point = "prompt" /\ tty => line = <<"prompt">>

\* Once the client stops, the timer has at most one sleep to go, and that is over
\* before the client stops to wait.
Joined ==
    /\ point \in {"join", "over"} => ~running
    /\ point \notin {"join", "over"} => waited = 0
    /\ point = "join" /\ timer = "loop" => waited <= Period
    /\ point = "join" /\ timer = "sleep" => waited + left <= Period
    /\ point = "over" => timer \in {"none", "over"}

\* The mode changes with the state, which is only set to another one.
CountsDown ==
    /\ countdown = (state = "reserve")
    /\ point = "state" => seen # state

Clocks ==
    /\ left \in 0..Period /\ waited \in Nat
    /\ timer \in {"none", "loop", "sleep", "over"}

LineInv == Clocks /\ Asked /\ Joined /\ CountsDown

LEMMA LineInit == StatusLineInit => LineInv
<1> SUFFICES ASSUME StatusLineInit PROVE LineInv
  OBVIOUS
<1>0. Period \in Nat
  BY StatusLineAssumption
<1>1. Clocks
  <2>1. left = 0 /\ waited = 0 /\ timer = "none"
    BY DEF StatusLineInit
  <2> QED
    BY <1>0, <2>1 DEF Clocks
<1>2. Asked /\ Joined /\ CountsDown
  BY DEF StatusLineInit, Asked, Joined, CountsDown
<1> QED
  BY <1>1, <1>2 DEF LineInv

\* Nobody else writes while the prompt is shown.
LEMMA AskedStep == Asked /\ StatusLineStep => Asked'
<1> SUFFICES ASSUME Asked, StatusLineStep PROVE Asked'
  OBVIOUS
<1> USE DEF Asked, Go
<1>1. CASE Prompt
  BY <1>1 DEF Prompt, ClearAnd
<1>2. CASE Main /\ ~Prompt
  <2>1. point' # "prompt"
    BY <1>2 DEF Main, Begin, NewRound, NoLogs, PrintOutput, DeploymentLine, MessageOfDeployment,
                ChangeState, MessageOfState, EndRound, InterruptPoll, Answer, Yes, No, Stop,
                Restore, AfterLogs
  <2> QED
    BY <2>1
<1>3. CASE Timer
  BY <1>3 DEF Timer, Redraw, TimerEnds, TimerWakes, Second, Unlocked
<1> QED
  BY <1>1, <1>2, <1>3 DEF StatusLineStep

\* Before the client stops the clock of stop stands still, and what the main
\* thread does leaves the timer alone.
LEMMA JoinedStep == Clocks /\ Joined /\ StatusLineStep => Clocks' /\ Joined'
<1> SUFFICES ASSUME Clocks, Joined, StatusLineStep PROVE Clocks' /\ Joined'
  OBVIOUS
<1>0. Period \in Nat /\ JoinTimeout \in Nat /\ Period < JoinTimeout
  BY StatusLineAssumption
<1> USE <1>0 DEF Clocks, Joined, Go
<1>1. CASE Begin
  BY <1>1 DEF Begin, display
<1>2. CASE ChangeState
  BY <1>2 DEF ChangeState, clock
<1>3. CASE Stop
  BY <1>3 DEF Stop, clock, display
<1>4. CASE Restore
  BY <1>4 DEF Restore, clock, display
<1>5. CASE Main /\ ~Begin /\ ~ChangeState /\ ~Stop /\ ~Restore
  <2>1. UNCHANGED <<running, clock, countdown>> /\ {point, point'} \cap {"join", "over"} = {}
    BY <1>5 DEF Main, NewRound, NoLogs, PrintOutput, DeploymentLine, MessageOfDeployment,
                MessageOfState, EndRound, InterruptPoll, Prompt, Answer, Yes, No, AfterLogs,
                display
  <2> QED
    BY <2>1 DEF clock
<1>6. CASE Redraw
  BY <1>6 DEF Redraw, display
<1>7. CASE TimerEnds
  BY <1>7 DEF TimerEnds, display
<1>8. CASE TimerWakes
  BY <1>8 DEF TimerWakes, display
<1>9. CASE Second
  BY <1>9 DEF Second, display
<1> QED
  BY <1>1, <1>2, <1>3, <1>4, <1>5, <1>6, <1>7, <1>8, <1>9 DEF StatusLineStep, Main, Timer

LEMMA CountsDownStep == CountsDown /\ StatusLineStep => CountsDown'
<1> SUFFICES ASSUME CountsDown, StatusLineStep PROVE CountsDown'
  OBVIOUS
<1> USE DEF CountsDown, Go
<1>1. CASE ChangeState
  BY <1>1 DEF ChangeState
<1>2. CASE Main /\ ~ChangeState
  <2>1. UNCHANGED <<state, countdown>> /\ (point' = "state" => seen' # state)
    BY <1>2 DEF Main, Begin, NewRound, NoLogs, PrintOutput, DeploymentLine, MessageOfDeployment,
                MessageOfState, EndRound, InterruptPoll, Prompt, Answer, Yes, No, Stop,
                Restore, AfterLogs, display
  <2> QED
    BY <2>1
<1>3. CASE Timer
  BY <1>3 DEF Timer, Redraw, TimerEnds, TimerWakes, Second, display
<1> QED
  BY <1>1, <1>2, <1>3 DEF StatusLineStep

LEMMA LineStep == LineInv /\ [StatusLineStep]_statusLine => LineInv'
<1>1. LineInv /\ StatusLineStep => LineInv'
  BY AskedStep, JoinedStep, CountsDownStep DEF LineInv
<1>2. LineInv /\ UNCHANGED statusLine => LineInv'
  BY DEF LineInv, Clocks, Asked, Joined, CountsDown, statusLine, display, clock
<1> QED
  BY <1>1, <1>2

\* A step of the client is a step of a part, and leaves the others alone.
LEMMA PartsStep ==
    [SystemNext]_system =>
        [Next]_vars /\ [SubmissionsStep]_submissions /\ [StatusLineStep]_statusLine
  BY DEF SystemNext, LogsStep, InLogs, SubmissionsPart, StatusLinePart, Ended, system

\* The timer does not draw over a question to the user, nor after the client has
\* given the terminal back: its last sleep ends before stop gives up waiting.
THEOREM PromptLeftAlone == SystemSpec => []LeftAlone
<1>1. SystemInit => LineInv
  BY LineInit DEF SystemInit
<1>2. LineInv /\ [SystemNext]_system => LineInv'
  BY LineStep, PartsStep
<1>3. LineInv => LeftAlone
  BY DEF LineInv, Asked, Joined, LeftAlone
<1> QED
  BY <1>1, <1>2, <1>3, PTL DEF SystemSpec

\* The countdown is on while the state is "reserve" and at no other time, whichever
\* states are passed over.
THEOREM CountdownFollowsReserve == SystemSpec => []CountsDownReservations
<1>1. SystemInit => LineInv
  BY LineInit DEF SystemInit
<1>2. LineInv /\ [SystemNext]_system => LineInv'
  BY LineStep, PartsStep
<1>3. LineInv => CountsDownReservations
  BY DEF LineInv, CountsDown, CountsDownReservations
<1> QED
  BY <1>1, <1>2, <1>3, PTL DEF SystemSpec

-----------------------------------------------------------------------------
(***************************************************************************)
(* The runs that submit, poll, cancel and list jobs.                       *)
(***************************************************************************)
Early     == {"start", "agents", "post"}
Uploading == {"upload", "answer", "give_up"}

\* What an entry of the history says of its job was true, and stays so.
Told(e) ==
    /\ job[e.job].state # "absent"
    /\ e.state = "complete" => job[e.job].state = "complete"
    /\ e.state = "cancelled" => job[e.job].revoked /\ job[e.job].state # "waiting"

\* A run that has not yet posted its job has none; one that has got past the upload
\* has its archive at the server; one that has cancelled it knows that it is gone.
Begins(r) ==
    /\ At(r, "start") => run[r].next = "over"
    /\ run[r].at \in Early =>
          /\ job[r].state = "absent" /\ job[r].att = "none"
          /\ \A n \in 1..MaxTries : uploads[r][n] = "none"
    /\ run[r].at \in Early \cup Uploading => run[r].says = "nothing"
    /\ run[r].at \in {"agents", "post"} => Submits(r)

Uploads(r) ==
    /\ run[r].at \in Uploading => run[r].does = "submit_attachments"
    /\ run[r].at \in Uploading \cup {"record"} => job[r].state # "absent"
    /\ run[r].at \in Uploading \cup {"agents", "post", "record"} => run[r].of = r
    /\ At(r, "answer") => run[r].tries # 0

Follows(r) ==
    /\ run[r].at \in {"poll", "cancel"} \/ run[r].next = "poll" => job[run[r].of].state # "absent"
    /\ run[r].at \notin {"start", "over"} => run[r].row # 0

Succeeds(r) ==
    /\ run[r].does = "submit_attachments" =>
          (run[r].at \notin Early \cup Uploading \cup {"over"} \/ run[r].says = "submitted"
              => job[r].att = "complete")
    /\ run[r].says = "cancelled" => job[r].state \notin {"absent", "waiting"}

Remembers(r) == \A n \in 1..Len(run[r].mem) : Told(run[r].mem[n])

RunOK(r) == Begins(r) /\ Uploads(r) /\ Follows(r) /\ Succeeds(r) /\ Remembers(r)

\* What the handlers of the uploads have done, and who may have cancelled the job.
JobOK(j) ==
    /\ job[j].held => job[j].state # "absent"
    /\ job[j].state = "cancelled" => job[j].revoked
    /\ job[j].att = "complete" => j \in archives
    /\ \A n \in 1..MaxTries :
          /\ uploads[j][n] \in {"mark", "done"} => j \in archives
          /\ uploads[j][n] = "done" => job[j].att = "complete"

FileOK == \A n \in 1..Len(file) : Told(file[n])

SubmissionsInv ==
    /\ SubmissionsTypeOK /\ FileOK
    /\ \A r \in Runs : RunOK(r) /\ JobOK(r)

Spots == {"start", "agents", "post", "upload", "answer", "give_up",
          "record", "truncate", "write", "poll", "cancel", "list", "over"}

-----------------------------------------------------------------------------
\* Lemmas on the history.
LEMMA WithEntries ==
    ASSUME NEW s \in Seq(Entry), NEW j \in Runs, NEW st \in Recorded
    PROVE  /\ With(s, j, st) \in Seq(Entry)
           /\ Len(With(s, j, st)) = Len(s)
           /\ \A n \in 1..Len(s) : With(s, j, st)[n] \in {s[n], [job |-> j, state |-> st]}
<1> DEFINE w == With(s, j, st)
<1>1. Len(s) \in Nat /\ \A n \in 1..Len(s) : s[n] \in Entry
  OBVIOUS
<1>2. [job |-> j, state |-> st] \in Entry
  BY DEF Entry
<1>3. w \in [1..Len(s) -> Entry] /\ \A n \in 1..Len(s) : w[n] \in {s[n], [job |-> j, state |-> st]}
  BY <1>1, <1>2 DEF With
<1> HIDE DEF w
<1>4. w \in Seq(Entry)
  BY <1>1, <1>3, SeqDef
<1>5. Len(w) = Len(s)
  BY <1>1, <1>3, <1>4
<1> QED
  BY <1>3, <1>4, <1>5 DEF w

LEMMA LastEntries ==
    ASSUME NEW s \in Seq(Entry), NEW e \in Entry
    PROVE  /\ Last(Append(s, e)) \in Seq(Entry)
           /\ \A n \in 1..Len(Last(Append(s, e))) :
                 Last(Append(s, e))[n] = e \/ \E m \in 1..Len(s) : Last(Append(s, e))[n] = s[m]
<1> DEFINE a == Append(s, e)
<1>1. /\ a \in Seq(Entry) /\ Len(s) \in Nat /\ Len(a) = Len(s) + 1
      /\ \A n \in 1..Len(a) : a[n] = e \/ \E m \in 1..Len(s) : a[n] = s[m]
  OBVIOUS
<1> HIDE DEF a
<1>2. CASE Last(a) = a
  BY <1>1, <1>2 DEF a
<1>3. CASE Last(a) = Tail(a)
  <2>1. Tail(a) \in Seq(Entry) /\ \A n \in 1..Len(Tail(a)) : n + 1 \in 1..Len(a) /\ Tail(a)[n] = a[n + 1]
    BY <1>1
  <2> QED
    BY <1>1, <1>3, <2>1 DEF a
<1> QED
  BY <1>2, <1>3 DEF Last

\* Lemmas on what becomes of a run.
LEMMA ResumeRun ==
    ASSUME run \in [Runs -> Run], NEW r \in Runs, NEW new \in Run, Resume(r, new)
    PROVE  /\ run' \in [Runs -> Run]
           /\ \A q \in Runs : q # r => run'[q] = run[q]
           /\ run'[r].at = new.at /\ run'[r].does = new.does /\ run'[r].says = new.says
           /\ new.at # "over" => run'[r] = new
           /\ new.at = "over" => run'[r].of = r /\ run'[r].mem = <<>> /\ run'[r].next = "over"
<1> DEFINE gone == [new EXCEPT !.of = r, !.mem = <<>>, !.tries = 0, !.row = 0, !.next = "over"]
<1> DEFINE now == IF new.at # "over" THEN new ELSE gone
<1>1. gone \in Run /\ gone.at = new.at /\ gone.does = new.does /\ gone.says = new.says
      /\ gone.of = r /\ gone.mem = <<>> /\ gone.next = "over"
  <2>1. <<>> \in Seq(Entry) /\ 0 \in 0..MaxTries
    BY SubmissionsAssumption
  <2> QED
    BY <2>1 DEF Run
<1>2. run' = [run EXCEPT ![r] = now]
  BY DEF Resume
<1> HIDE DEF gone
<1>3. now \in Run /\ now.at = new.at /\ now.does = new.does /\ now.says = new.says
      /\ (new.at # "over" => now = new)
      /\ (new.at = "over" => now.of = r /\ now.mem = <<>> /\ now.next = "over")
  BY <1>1
<1> HIDE DEF now
<1>4. run' \in [Runs -> Run] /\ run'[r] = now /\ \A q \in Runs : q # r => run'[q] = run[q]
  BY <1>2, <1>3
<1> QED
  BY <1>3, <1>4

LEMMA GotoRun ==
    ASSUME run \in [Runs -> Run], NEW r \in Runs, NEW to \in Spots, Goto(r, to)
    PROVE  /\ run' \in [Runs -> Run]
           /\ \A q \in Runs : q # r => run'[q] = run[q]
           /\ run'[r].at = to /\ run'[r].does = run[r].does /\ run'[r].says = run[r].says
           /\ to # "over" => /\ run'[r].of = run[r].of /\ run'[r].mem = run[r].mem
                             /\ run'[r].next = run[r].next /\ run'[r].tries = run[r].tries
                             /\ run'[r].row = run[r].row
           /\ to = "over" => run'[r].of = r /\ run'[r].mem = <<>> /\ run'[r].next = "over"
<1> DEFINE new == [run[r] EXCEPT !.at = to]
<1>1. new \in Run /\ new.at = to /\ new.does = run[r].does /\ new.says = run[r].says
      /\ new.of = run[r].of /\ new.mem = run[r].mem /\ new.next = run[r].next
      /\ new.tries = run[r].tries /\ new.row = run[r].row
  BY DEF Run, Spots
<1>2. Resume(r, new)
  BY DEF Goto
<1> HIDE DEF new
<1> QED
  BY <1>1, <1>2, ResumeRun

LEMMA ExitRun ==
    ASSUME run \in [Runs -> Run], NEW r \in Runs, NEW what \in {"cancelled", "refused", "failed"},
           Exit(r, what)
    PROVE  /\ run' \in [Runs -> Run]
           /\ \A q \in Runs : q # r => run'[q] = run[q]
           /\ run'[r].at = "over" /\ run'[r].does = run[r].does /\ run'[r].says = what
           /\ run'[r].of = r /\ run'[r].mem = <<>> /\ run'[r].next = "over"
<1> DEFINE new == [run[r] EXCEPT !.at = "over", !.says = what]
<1>1. new \in Run /\ new.at = "over" /\ new.does = run[r].does /\ new.says = what
  <2>1. run[r] \in Run
    OBVIOUS
  <2>2. new.at = "over" /\ new.does = run[r].does /\ new.says = what
    BY <2>1 DEF Run
  <2>3. new \in Run
    BY <2>1 DEF Run
  <2> QED
    BY <2>2, <2>3
<1>2. Resume(r, new)
  BY DEF Exit
<1> HIDE DEF new
<1> QED
  BY <1>1, <1>2, ResumeRun

\* A job goes on as the entries of the histories expect it to.
Forward ==
    \A j \in Runs :
        /\ job[j].state # "absent" => job'[j].state # "absent"
        /\ job[j].state = "complete" => job'[j].state = "complete"
        /\ job[j].state \notin {"absent", "waiting"} => job'[j].state # "waiting"
        /\ job[j].att = "complete" => job'[j].att = "complete"
        /\ job[j].revoked => job'[j].revoked

LEMMA ToldStays ==
    ASSUME NEW e \in Entry, Forward, Told(e)
    PROVE  Told(e)'
  BY DEF Forward, Told, Entry

LEMMA FileStays ==
    ASSUME SubmissionsTypeOK, Forward, FileOK, UNCHANGED file
    PROVE  FileOK'
<1> SUFFICES ASSUME NEW n \in 1..Len(file) PROVE Told(file[n])'
  BY DEF FileOK
<1>1. file[n] \in Entry /\ Told(file[n])
  BY DEF SubmissionsTypeOK, FileOK
<1> DEFINE e == file[n]
<1>2. PICK k \in Entry : k = e
  BY <1>1
<1>3. Told(k)'
  BY <1>1, <1>2, ToldStays
<1> QED
  BY <1>2, <1>3 DEF Told

\* What a run remembers stays true while the jobs go on.
LEMMA MemoryStays ==
    ASSUME SubmissionsTypeOK, Forward, NEW q \in Runs, Remembers(q),
           run'[q].mem \in {<<>>, run[q].mem}
    PROVE  Remembers(q)'
<1> SUFFICES ASSUME NEW n \in 1..Len(run'[q].mem) PROVE Told(run[q].mem[n])'
                                                       /\ run'[q].mem[n] = run[q].mem[n]
  BY DEF Remembers, Told
<1>1. run'[q].mem = run[q].mem
  OBVIOUS
<1>2. run[q].mem \in Seq(Entry)
  BY DEF SubmissionsTypeOK, Run
<1>3. run[q].mem[n] \in Entry /\ Told(run[q].mem[n])
  BY <1>1, <1>2 DEF Remembers
<1>4. PICK k \in Entry : k = run[q].mem[n]
  BY <1>3
<1>5. Told(k)'
  BY <1>3, <1>4, ToldStays
<1> QED
  BY <1>1, <1>4, <1>5 DEF Told

\* A run is not disturbed by what others do, who leave its job alone until it is posted.
Quiet(q) == run[q].at \in Early => job'[q] = job[q] /\ uploads'[q] = uploads[q]

LEMMA RunStays ==
    ASSUME SubmissionsTypeOK, Forward, NEW q \in Runs, RunOK(q), Quiet(q), run'[q] = run[q]
    PROVE  RunOK(q)'
<1>1. run[q].of \in Runs
  BY DEF SubmissionsTypeOK, Run
<1>2. Begins(q)' /\ Uploads(q)'
  BY DEF RunOK, Begins, Uploads, Quiet, Forward, At, Submits, Uploading
<1>3. Follows(q)'
  BY <1>1 DEF RunOK, Follows, Forward
<1>4. Succeeds(q)'
  <2>1. run[q].says = "cancelled" => job'[q].state \notin {"absent", "waiting"}
    BY DEF RunOK, Succeeds, Forward
  <2> QED
    BY <2>1 DEF RunOK, Succeeds, Forward
<1>5. Remembers(q)'
  BY MemoryStays DEF RunOK
<1> QED
  BY <1>2, <1>3, <1>4, <1>5 DEF RunOK

-----------------------------------------------------------------------------
\* What a run does, by what it changes besides itself.
LEMMA AloneStep ==
    ASSUME SubmissionsInv, NEW r \in Runs, UNCHANGED <<job, archives, uploads, file>>,
           run' \in [Runs -> Run], \A q \in Runs : q # r => run'[q] = run[q],
           Begins(r)', Uploads(r)', Follows(r)', Succeeds(r)', Remembers(r)'
    PROVE  SubmissionsInv'
<1>1. Forward /\ \A q \in Runs : Quiet(q)
  BY DEF Forward, Quiet
<1>2. SubmissionsTypeOK' /\ FileOK'
  BY <1>1, FileStays DEF SubmissionsInv, SubmissionsTypeOK
<1>3. ASSUME NEW q \in Runs PROVE RunOK(q)' /\ JobOK(q)'
  <2>1. JobOK(q)'
    BY DEF SubmissionsInv, JobOK
  <2>2. CASE q = r
    BY <2>1, <2>2 DEF RunOK
  <2>3. CASE q # r
    BY <1>1, <2>1, <2>3, RunStays DEF SubmissionsInv
  <2> QED
    BY <2>2, <2>3
<1> QED
  BY <1>2, <1>3 DEF SubmissionsInv

\* A run that only goes on, with what it remembers.
LEMMA GoesOn ==
    ASSUME SubmissionsInv, NEW r \in Runs, UNCHANGED <<job, archives, uploads, file>>,
           NEW to \in Spots, Goto(r, to), run[r].at \notin {"start", "over"},
           to \in {"start", "agents", "answer"} => FALSE,
           to = "post" => At(r, "agents"),
           to \in Uploading \cup {"record"} => run[r].at \in Uploading,
           to = "record" => job[r].att = "complete",
           run[r].at \in Early \cup Uploading => to \in Early \cup Uploading \cup {"over", "record"},
           At(r, "agents") => to \in {"post", "over"},
           to = "cancel" => At(r, "poll"), to # "poll"
    PROVE  SubmissionsInv'
<1> USE GotoRun DEF SubmissionsInv, SubmissionsTypeOK
<1>1. /\ run' \in [Runs -> Run] /\ \A q \in Runs : q # r => run'[q] = run[q]
      /\ run'[r].at = to /\ run'[r].does = run[r].does /\ run'[r].says = run[r].says
      /\ to # "over" => /\ run'[r].of = run[r].of /\ run'[r].mem = run[r].mem
                        /\ run'[r].next = run[r].next /\ run'[r].tries = run[r].tries
                        /\ run'[r].row = run[r].row
      /\ to = "over" => run'[r].of = r /\ run'[r].mem = <<>> /\ run'[r].next = "over"
  OBVIOUS
<1>2. RunOK(r) /\ SubmissionsTypeOK
  OBVIOUS
<1> HIDE DEF SubmissionsInv, SubmissionsTypeOK
<1>3. Begins(r)'
  BY <1>1, <1>2 DEF RunOK, Begins, At, Early, Uploading, Submits
<1>4. Uploads(r)'
  BY <1>1, <1>2 DEF RunOK, Uploads, Begins, At, Early, Uploading, Submits
<1>5. Follows(r)'
  BY <1>1, <1>2 DEF RunOK, Follows, At
<1>6. Succeeds(r)'
  BY <1>1, <1>2 DEF RunOK, Begins, Succeeds, Early, Uploading
<1>7. Remembers(r)'
  <2>1. Forward
    BY DEF Forward
  <2> QED
    BY <1>1, <1>2, <2>1, MemoryStays DEF RunOK
<1> QED
  BY <1>1, <1>3, <1>4, <1>5, <1>6, <1>7, AloneStep

\* A run that ends with a message that is no success.
LEMMA Exits ==
    ASSUME SubmissionsInv, NEW r \in Runs, UNCHANGED <<job, archives, uploads, file>>,
           NEW what \in {"refused", "failed"}, Exit(r, what)
    PROVE  SubmissionsInv'
<1>1. run \in [Runs -> Run]
  BY DEF SubmissionsInv, SubmissionsTypeOK
<1>2. /\ run' \in [Runs -> Run] /\ \A q \in Runs : q # r => run'[q] = run[q]
      /\ run'[r].at = "over" /\ run'[r].does = run[r].does /\ run'[r].says = what
      /\ run'[r].of = r /\ run'[r].mem = <<>> /\ run'[r].next = "over"
  BY <1>1, ExitRun
<1>3. Begins(r)' /\ Uploads(r)' /\ Follows(r)' /\ Succeeds(r)'
  BY <1>2 DEF Begins, Uploads, Follows, Succeeds, At, Early, Uploading
<1>4. Remembers(r)'
  BY <1>2 DEF Remembers
<1> QED
  BY <1>2, <1>3, <1>4, AloneStep

-----------------------------------------------------------------------------
\* The steps of a run that only go on or exit.
LEMMA ChecksAgents == ASSUME SubmissionsInv, NEW r \in Runs, CheckAgents(r) PROVE SubmissionsInv'
<1>1. UNCHANGED <<job, archives, uploads, file>> /\ At(r, "agents")
  BY DEF CheckAgents
<1>2. CASE Goto(r, "post")
  BY <1>1, <1>2, GoesOn DEF At, Spots, Early, Uploading
<1>3. CASE Exit(r, "failed")
  BY <1>1, <1>3, Exits
<1> QED
  BY <1>2, <1>3 DEF CheckAgents

LEMMA GivesUp ==
    ASSUME SubmissionsInv, NEW r \in Runs, NoAnswer(r) \/ GiveUp(r) PROVE SubmissionsInv'
<1>1. UNCHANGED <<job, archives, uploads, file>> /\ run[r].at \in Uploading
  BY DEF NoAnswer, GiveUp, At, Uploading
<1>2. CASE Goto(r, "upload")
  BY <1>1, <1>2, GoesOn DEF At, Spots, Early, Uploading
<1>3. CASE Goto(r, "give_up")
  BY <1>1, <1>3, GoesOn DEF At, Spots, Early, Uploading
<1> QED
  BY <1>2, <1>3 DEF NoAnswer, GiveUp

\* The archive is there when any try was executed to its end, or the server says it
\* has it.
LEMMA Answered == ASSUME SubmissionsInv, NEW r \in Runs, AnsweredOK(r) PROVE SubmissionsInv'
<1>1. UNCHANGED <<job, archives, uploads, file>> /\ At(r, "answer") /\ Goto(r, "record")
  BY DEF AnsweredOK
<1>2. Tries(r) \in 1..MaxTries
  <2>1. run[r].tries \in 0..MaxTries /\ MaxTries \in Nat
    BY SubmissionsAssumption DEF SubmissionsInv, SubmissionsTypeOK, Run
  <2>2. run[r].tries # 0
    BY <1>1 DEF SubmissionsInv, RunOK, Uploads
  <2> QED
    BY <2>1, <2>2 DEF Tries
<1>3. job[r].att = "complete"
  BY <1>2 DEF AnsweredOK, Known, SubmissionsInv, JobOK
<1> QED
  BY <1>1, <1>3, GoesOn DEF At, Spots, Early, Uploading

LEMMA IsRefused == ASSUME SubmissionsInv, NEW r \in Runs, Refused(r) PROVE SubmissionsInv'
  BY Exits DEF Refused

LEMMA Leaves ==
    ASSUME SubmissionsInv, NEW r \in Runs, Interrupt(r) \/ ListEnds(r) \/ Killed(r)
    PROVE  SubmissionsInv'
<1>1. UNCHANGED <<job, archives, uploads, file>> /\ run[r].at \notin {"start", "over"}
  BY DEF Interrupt, ListEnds, Killed, At
<1>2. CASE Goto(r, "over")
  BY <1>1, <1>2, GoesOn DEF At, Spots, Early, Uploading
<1>3. CASE At(r, "poll") /\ Goto(r, "cancel")
  BY <1>1, <1>3, GoesOn DEF At, Spots, Early, Uploading
<1> QED
  BY <1>2, <1>3 DEF Interrupt, ListEnds, Killed

LEMMA Sends == ASSUME SubmissionsInv, NEW r \in Runs, SendArchive(r) PROVE SubmissionsInv'
<1> DEFINE new == [run[r] EXCEPT !.at = "answer", !.tries = @ + 1]
<1>1. RunOK(r) /\ SubmissionsTypeOK /\ run \in [Runs -> Run] /\ run[r] \in Run
  BY DEF SubmissionsInv, SubmissionsTypeOK
<1>2. run[r].tries + 1 \in 0..MaxTries /\ run[r].tries + 1 # 0
  BY <1>1, SubmissionsAssumption DEF SendArchive, Tries, Run
<1>3. /\ new.at = "answer" /\ new.tries = run[r].tries + 1 /\ new.does = run[r].does
      /\ new.says = run[r].says /\ new.of = run[r].of /\ new.mem = run[r].mem
      /\ new.next = run[r].next /\ new.row = run[r].row
  BY <1>1 DEF Run
<1>4. new \in Run
  BY <1>1, <1>2 DEF Run
<1>5. run' = [run EXCEPT ![r] = new] /\ At(r, "upload") /\ UNCHANGED <<job, archives, uploads, file>>
  BY DEF SendArchive
<1> HIDE DEF new
<1>6. run' \in [Runs -> Run] /\ run'[r] = new /\ \A q \in Runs : q # r => run'[q] = run[q]
  BY <1>1, <1>4, <1>5
<1>7. Begins(r)' /\ Uploads(r)' /\ Follows(r)' /\ Succeeds(r)'
  BY <1>1, <1>2, <1>3, <1>5, <1>6
     DEF RunOK, Begins, Uploads, Follows, Succeeds, At, Early, Uploading
<1>8. Remembers(r)'
  BY <1>1, <1>3, <1>5, <1>6, MemoryStays DEF RunOK, Forward
<1> QED
  BY <1>5, <1>6, <1>7, <1>8, AloneStep

-----------------------------------------------------------------------------
\* The steps that read and write the history.
LEMMA UpdateRun ==
    ASSUME run \in [Runs -> Run], NEW r \in Runs, NEW j \in Runs, NEW st \in Recorded,
           NEW row \in Nat \ {0}, NEW nxt \in {"poll", "list", "over"}, UpdateAndGo(r, j, st, row, nxt)
    PROVE  /\ run' \in [Runs -> Run]
           /\ \A q \in Runs : q # r => run'[q] = run[q]
           /\ run'[r].at \in {"truncate", nxt}
           /\ run'[r].does = run[r].does /\ run'[r].says = run[r].says
           /\ run'[r].at # "over" => /\ run'[r].of = run[r].of /\ run'[r].next = nxt
                                     /\ run'[r].mem = With(run[r].mem, j, st)
                                     /\ run'[r].row = row
           /\ run'[r].at = "over" => run'[r].of = r /\ run'[r].mem = <<>> /\ run'[r].next = "over"
<1> DEFINE to == IF j \in Names(run[r].mem) THEN "truncate" ELSE nxt
<1> DEFINE w == With(run[r].mem, j, st)
<1> DEFINE new == [run[r] EXCEPT !.mem = w, !.row = row, !.next = nxt, !.at = to]
<1>1. run[r] \in Run /\ to \in {"truncate", nxt} /\ w \in Seq(Entry)
  BY WithEntries DEF Run
<1>2. Resume(r, new)
  BY DEF UpdateAndGo
<1> HIDE DEF to, w
<1>3. /\ new.at = to /\ new.does = run[r].does /\ new.says = run[r].says /\ new.of = run[r].of
      /\ new.next = nxt /\ new.mem = w /\ new.row = row
  BY <1>1 DEF Run
<1>4. new \in Run
  BY <1>1 DEF Run
<1> HIDE DEF new
<1> QED
  BY <1>1, <1>2, <1>3, <1>4, ResumeRun DEF w

\* What a run is told of a job is remembered with the rest, if it is true.
LEMMA MemoryUpdated ==
    ASSUME SubmissionsTypeOK, Forward, NEW r \in Runs, Remembers(r), NEW j \in Runs,
           NEW st \in Recorded, run'[r].mem = With(run[r].mem, j, st),
           Told([job |-> j, state |-> st])'
    PROVE  Remembers(r)'
<1>1. run[r].mem \in Seq(Entry)
  BY DEF SubmissionsTypeOK, Run
<1>2. /\ Len(run'[r].mem) = Len(run[r].mem)
      /\ \A n \in 1..Len(run[r].mem) :
            run'[r].mem[n] \in {run[r].mem[n], [job |-> j, state |-> st]}
  BY <1>1, WithEntries
<1> SUFFICES ASSUME NEW n \in 1..Len(run[r].mem) PROVE Told(run[r].mem[n])'
  BY <1>2 DEF Remembers
<1>3. run[r].mem[n] \in Entry /\ Told(run[r].mem[n])
  BY <1>1 DEF Remembers
<1>4. PICK k \in Entry : k = run[r].mem[n]
  BY <1>3
<1>5. Told(k)'
  BY <1>3, <1>4, ToldStays
<1>6. CASE run'[r].mem[n] = run[r].mem[n]
  BY <1>4, <1>5, <1>6 DEF Told
<1>7. CASE run'[r].mem[n] = [job |-> j, state |-> st]
  BY <1>7 DEF Told
<1> QED
  BY <1>2, <1>6, <1>7

\* A run that knows its job, or that of another, records what it is told.
LEMMA Updates ==
    ASSUME SubmissionsInv, NEW r \in Runs, UNCHANGED <<job, archives, uploads, file>>,
           NEW j \in Runs, NEW st \in Recorded, NEW row \in Nat \ {0}, NEW nxt \in {"poll", "list", "over"},
           UpdateAndGo(r, j, st, row, nxt), run[r].at \in {"poll", "list"},
           nxt = "poll" => At(r, "poll"),
           j \in Names(run[r].mem) => Told([job |-> j, state |-> st])
    PROVE  SubmissionsInv'
<1>1. RunOK(r) /\ SubmissionsTypeOK /\ run \in [Runs -> Run] /\ Forward
  BY DEF SubmissionsInv, SubmissionsTypeOK, Forward
<1>2. /\ run' \in [Runs -> Run] /\ \A q \in Runs : q # r => run'[q] = run[q]
      /\ run'[r].at \in {"truncate", nxt}
      /\ run'[r].does = run[r].does /\ run'[r].says = run[r].says
      /\ run'[r].at # "over" => /\ run'[r].of = run[r].of /\ run'[r].next = nxt
                                /\ run'[r].mem = With(run[r].mem, j, st)
                                /\ run'[r].row = row
      /\ run'[r].at = "over" => run'[r].of = r /\ run'[r].mem = <<>> /\ run'[r].next = "over"
  BY <1>1, UpdateRun
<1>3. Begins(r)' /\ Uploads(r)' /\ Follows(r)' /\ Succeeds(r)'
  BY <1>1, <1>2 DEF RunOK, Begins, Uploads, Follows, Succeeds, At, Early, Uploading
<1>4. Remembers(r)'
  <2>1. CASE run'[r].at = "over"
    BY <1>2, <2>1 DEF Remembers
  <2>2. CASE run'[r].at # "over" /\ j \in Names(run[r].mem)
    <3>1. Told([job |-> j, state |-> st])'
      BY <2>2 DEF Told
    <3> QED
      BY <1>1, <1>2, <2>2, <3>1, MemoryUpdated DEF RunOK
  <2>3. CASE run'[r].at # "over" /\ j \notin Names(run[r].mem)
    <3>1. run[r].mem \in Seq(Entry)
      BY <1>1 DEF Run
    <3>2. \A n \in 1..Len(run[r].mem) : run[r].mem[n].job # j
      BY <2>3 DEF Names
    <3>3. With(run[r].mem, j, st) = [n \in 1..Len(run[r].mem) |-> run[r].mem[n]]
      BY <3>2 DEF With
    <3>4. [n \in 1..Len(run[r].mem) |-> run[r].mem[n]] = run[r].mem
      BY <3>1
    <3>5. run'[r].mem = run[r].mem
      BY <1>2, <2>3, <3>3, <3>4
    <3> QED
      BY <1>1, <3>5, MemoryStays DEF RunOK
  <2> QED
    BY <2>1, <2>2, <2>3
<1> QED
  BY <1>2, <1>3, <1>4, AloneStep

LEMMA Polls == ASSUME SubmissionsInv, NEW r \in Runs, Poll(r) PROVE SubmissionsInv'
<1>1. UNCHANGED <<job, archives, uploads, file>> /\ At(r, "poll")
  BY DEF Poll
<1>2. /\ run[r].of \in Runs /\ job[run[r].of].state \in JobStates
      /\ job[run[r].of].state = "cancelled" => job[run[r].of].revoked
  BY <1>1 DEF SubmissionsInv, SubmissionsTypeOK, Run, Job, RunOK, JobOK, Follows, At
<1>3. PICK st \in Seen(run[r].of) :
          UpdateAndGo(r, run[r].of, st, 1, IF st \in FinalStates THEN "over" ELSE "poll")
  BY DEF Poll
<1>4. st \in Recorded /\ Told([job |-> run[r].of, state |-> st])
  BY <1>2, <1>3 DEF Seen, Recorded, JobStates, FinalStates, Told
<1> DEFINE nxt == IF st \in FinalStates THEN "over" ELSE "poll"
<1>5. nxt \in {"poll", "list", "over"} /\ UpdateAndGo(r, run[r].of, st, 1, nxt)
  BY <1>3
<1> HIDE DEF nxt
<1> QED
  BY <1>1, <1>2, <1>4, <1>5, Updates DEF At

LEMMA Lists == ASSUME SubmissionsInv, NEW r \in Runs, ListRow(r) PROVE SubmissionsInv'
<1> DEFINE mem == run[r].mem
<1> DEFINE n == run[r].row
<1>1. UNCHANGED <<job, archives, uploads, file>> /\ At(r, "list") /\ n <= Len(mem)
  BY DEF ListRow
<1>2. /\ RunOK(r) /\ SubmissionsTypeOK /\ run \in [Runs -> Run] /\ run[r] \in Run
      /\ n \in Nat /\ mem \in Seq(Entry)
      /\ \A j \in Runs : job[j].state = "cancelled" => job[j].revoked
  BY DEF SubmissionsInv, SubmissionsTypeOK, Run, JobOK
<1>3. CASE run' = [run EXCEPT ![r].row = n + 1]
  <2> DEFINE new == [run[r] EXCEPT !.row = n + 1]
  <2>0. n + 1 \in Nat \ {0}
    BY <1>2
  <2>1. /\ new \in Run /\ new.at = run[r].at /\ new.does = run[r].does /\ new.says = run[r].says
        /\ new.of = run[r].of /\ new.next = run[r].next /\ new.mem = run[r].mem
        /\ new.tries = run[r].tries
        /\ new.row = n + 1
    BY <1>2, <2>0 DEF Run
  <2>2. run' = [run EXCEPT ![r] = new]
    BY <1>2, <1>3
  <2> HIDE DEF new
  <2>3. run' \in [Runs -> Run] /\ run'[r] = new /\ \A q \in Runs : q # r => run'[q] = run[q]
    BY <1>2, <2>1, <2>2
  <2>4. Begins(r)' /\ Uploads(r)' /\ Follows(r)' /\ Succeeds(r)'
    BY <1>1, <1>2, <2>0, <2>1, <2>3
       DEF RunOK, Begins, Uploads, Follows, Succeeds, At, Early, Uploading, Submits
  <2>5. Remembers(r)'
    BY <1>1, <1>2, <2>1, <2>3, MemoryStays DEF RunOK, Forward
  <2> QED
    BY <1>1, <2>3, <2>4, <2>5, AloneStep
<1>4. CASE n \in 1..Len(mem)
           /\ \E st \in Seen(mem[n].job) : UpdateAndGo(r, mem[n].job, st, n + 1, "list")
  <2>1. PICK st \in Seen(mem[n].job) : UpdateAndGo(r, mem[n].job, st, n + 1, "list")
    BY <1>4
  <2>2. mem[n] \in Entry /\ Told(mem[n])
    BY <1>2, <1>4 DEF RunOK, Remembers
  <2>3. mem[n].job \in Runs /\ job[mem[n].job].state \in JobStates
    BY <1>2, <2>2 DEF Entry, Told, SubmissionsTypeOK, Job
  <2>4. st \in Recorded /\ Told([job |-> mem[n].job, state |-> st])
    BY <1>2, <2>1, <2>3 DEF Seen, Recorded, JobStates, FinalStates, Told
  <2>5. n + 1 \in Nat \ {0}
    BY <1>2
  <2> QED
    BY <1>1, <2>1, <2>3, <2>4, <2>5, Updates DEF At
<1>5. n # 0
  BY <1>1, <1>2 DEF RunOK, Follows, At
<1> QED
  BY <1>1, <1>2, <1>3, <1>4, <1>5 DEF ListRow

\* The new job is there by then.
LEMMA Adds == ASSUME SubmissionsInv, NEW r \in Runs, NewEntry(r) PROVE SubmissionsInv'
<1>1. UNCHANGED <<job, archives, uploads, file>> /\ At(r, "record")
  BY DEF NewEntry
<1>2. RunOK(r) /\ SubmissionsTypeOK /\ run \in [Runs -> Run] /\ run[r] \in Run
      /\ run[r].mem \in Seq(Entry)
  BY DEF SubmissionsInv, SubmissionsTypeOK, Run
<1> DEFINE e == [job |-> r, state |-> "unknown"]
<1> DEFINE mem == Last(Append(run[r].mem, e))
<1>3. PICK nxt \in {"poll", "over"} :
          run' = [run EXCEPT ![r].at = "truncate", ![r].next = nxt, ![r].mem = Last(Append(@, e))]
  BY DEF NewEntry
<1>4. e \in Entry
  BY DEF Entry, Recorded
<1>5. /\ mem \in Seq(Entry)
      /\ \A n \in 1..Len(mem) : mem[n] = e \/ \E m \in 1..Len(run[r].mem) : mem[n] = run[r].mem[m]
  BY <1>2, <1>4, LastEntries
<1> DEFINE new == [run[r] EXCEPT !.at = "truncate", !.next = nxt, !.mem = mem]
<1>6. run' = [run EXCEPT ![r] = new]
  BY <1>2, <1>3
<1>7. Told(e)
  BY <1>1, <1>2 DEF Told, RunOK, Uploads, At
<1> HIDE DEF mem, e
<1>8. /\ new.at = "truncate" /\ new.next = nxt /\ new.mem = mem /\ new.does = run[r].does
      /\ new.says = run[r].says /\ new.of = run[r].of /\ new.tries = run[r].tries
      /\ new.row = run[r].row
  BY <1>2 DEF Run
<1>9. new \in Run
  BY <1>2, <1>5 DEF Run
<1> HIDE DEF new
<1>10. run' \in [Runs -> Run] /\ run'[r] = new /\ \A q \in Runs : q # r => run'[q] = run[q]
  BY <1>2, <1>6, <1>9
<1>11. Begins(r)' /\ Uploads(r)' /\ Follows(r)' /\ Succeeds(r)'
  BY <1>1, <1>2, <1>8, <1>10
     DEF RunOK, Begins, Uploads, Follows, Succeeds, At, Early, Uploading, Submits
<1>12. Remembers(r)'
  <2> SUFFICES ASSUME NEW n \in 1..Len(mem) PROVE Told(mem[n])
    BY <1>1, <1>8, <1>10 DEF Remembers, Told
  <2>1. \A m \in 1..Len(run[r].mem) : Told(run[r].mem[m])
    BY <1>2 DEF RunOK, Remembers
  <2>2. CASE mem[n] = e
    BY <1>7, <2>2 DEF Told
  <2>3. CASE \E m \in 1..Len(run[r].mem) : mem[n] = run[r].mem[m]
    BY <2>1, <2>3 DEF Told
  <2> QED
    BY <1>5, <2>2, <2>3
<1> QED
  BY <1>1, <1>10, <1>11, <1>12, AloneStep

LEMMA Starts == ASSUME SubmissionsInv, NEW r \in Runs, Start(r) PROVE SubmissionsInv'
<1>1. UNCHANGED <<job, archives, uploads, file>> /\ At(r, "start")
  BY DEF Start
<1>2. RunOK(r) /\ SubmissionsTypeOK /\ FileOK /\ run \in [Runs -> Run] /\ run[r] \in Run
      /\ file \in Seq(Entry)
  BY DEF SubmissionsInv, SubmissionsTypeOK
<1>0. PICK c \in Does[r] : \E j \in Targets(r, c) :
          run' = [run EXCEPT ![r].at = FirstPoint[c], ![r].does = c, ![r].of = j,
                             ![r].mem = file, ![r].row = 1]
  BY DEF Start
<1>3. PICK j \in Targets(r, c) :
          run' = [run EXCEPT ![r].at = FirstPoint[c], ![r].does = c, ![r].of = j,
                             ![r].mem = file, ![r].row = 1]
  BY <1>0
<1>4. c \in Commands
  BY SubmissionsAssumption
<1>5. /\ FirstPoint[c] \in {"agents", "poll", "cancel", "list"}
      /\ FirstPoint[c] = "agents" => c \in {"submit", "submit_attachments"}
      /\ FirstPoint[c] \in {"poll", "cancel"} => c \in {"poll", "cancel"}
  BY <1>4 DEF FirstPoint, Commands
<1>6. j \in Runs /\ (c \in {"poll", "cancel"} => job[j].state # "absent")
      /\ (c \notin {"poll", "cancel"} => j = r)
  BY <1>3 DEF Targets
<1> DEFINE to == FirstPoint[c]
<1> DEFINE new == [run[r] EXCEPT !.at = to, !.does = c, !.of = j, !.mem = file, !.row = 1]
<1>7. run' = [run EXCEPT ![r] = new]
  BY <1>2, <1>3
<1> HIDE DEF to
<1>8. /\ new.at = to /\ new.does = c /\ new.of = j /\ new.mem = file
      /\ new.says = run[r].says /\ new.next = run[r].next /\ new.row = 1
  BY <1>2 DEF Run
<1>9. new \in Run
  BY <1>2, <1>4, <1>5, <1>6 DEF Run, to
<1> HIDE DEF new
<1>10. run' \in [Runs -> Run] /\ run'[r] = new /\ \A q \in Runs : q # r => run'[q] = run[q]
  BY <1>2, <1>7, <1>9
<1> to \in {"agents", "poll", "cancel", "list"}
  BY <1>5 DEF to
<1>11. Begins(r)'
  BY <1>1, <1>2, <1>5, <1>8, <1>10 DEF RunOK, Begins, At, Early, Uploading, Submits, to
<1>12. Uploads(r)'
  BY <1>1, <1>2, <1>5, <1>6, <1>8, <1>10 DEF Uploads, At, Uploading, to
<1>13. Follows(r)'
  BY <1>1, <1>2, <1>5, <1>6, <1>8, <1>10 DEF RunOK, Begins, Follows, At, to
<1>14. Succeeds(r)'
  <2>1. run[r].says = "nothing"
    BY <1>1, <1>2 DEF RunOK, Begins, At, Early
  <2>2. c = "submit_attachments" => to = "agents"
    BY DEF FirstPoint, to
  <2> QED
    BY <1>1, <1>2, <1>8, <1>10, <2>1, <2>2 DEF Succeeds, Early, Uploading
<1>15. Remembers(r)'
  BY <1>1, <1>2, <1>8, <1>10 DEF FileOK, Remembers, Told
<1> QED
  BY <1>1, <1>10, <1>11, <1>12, <1>13, <1>14, <1>15, AloneStep

\* The file is emptied, or gets what a run remembers.
LEMMA SavesStep ==
    ASSUME SubmissionsInv, NEW r \in Runs, UNCHANGED <<job, archives, uploads>>,
           file' \in {<<>>, run[r].mem},
           run' \in [Runs -> Run], \A q \in Runs : q # r => run'[q] = run[q],
           Begins(r)', Uploads(r)', Follows(r)', Succeeds(r)', Remembers(r)'
    PROVE  SubmissionsInv'
<1>1. Forward /\ \A q \in Runs : Quiet(q)
  BY DEF Forward, Quiet
<1>2. file' \in Seq(Entry) /\ FileOK'
  <2>1. run[r].mem \in Seq(Entry) /\ <<>> \in Seq(Entry) /\ Remembers(r)
    BY DEF SubmissionsInv, SubmissionsTypeOK, Run, RunOK
  <2>2. CASE file' = <<>>
    BY <2>1, <2>2 DEF FileOK
  <2>3. CASE file' = run[r].mem
    BY <2>1, <2>3 DEF FileOK, Remembers, Told
  <2> QED
    BY <2>2, <2>3
<1>3. SubmissionsTypeOK'
  BY <1>2 DEF SubmissionsInv, SubmissionsTypeOK
<1>4. ASSUME NEW q \in Runs PROVE RunOK(q)' /\ JobOK(q)'
  <2>1. JobOK(q)'
    BY DEF SubmissionsInv, JobOK
  <2>2. CASE q = r
    BY <2>1, <2>2 DEF RunOK
  <2>3. CASE q # r
    BY <1>1, <2>1, <2>3, RunStays DEF SubmissionsInv
  <2> QED
    BY <2>2, <2>3
<1> QED
  BY <1>2, <1>3, <1>4 DEF SubmissionsInv

LEMMA Truncates == ASSUME SubmissionsInv, NEW r \in Runs, Truncate(r) PROVE SubmissionsInv'
<1>1. UNCHANGED <<job, archives, uploads>> /\ file' = <<>> /\ At(r, "truncate") /\ Goto(r, "write")
  BY DEF Truncate
<1>2. RunOK(r) /\ SubmissionsTypeOK /\ run \in [Runs -> Run]
  BY DEF SubmissionsInv, SubmissionsTypeOK
<1>3. /\ run' \in [Runs -> Run] /\ \A q \in Runs : q # r => run'[q] = run[q]
      /\ run'[r].at = "write" /\ run'[r].does = run[r].does /\ run'[r].says = run[r].says
      /\ run'[r].of = run[r].of /\ run'[r].mem = run[r].mem
      /\ run'[r].next = run[r].next /\ run'[r].row = run[r].row
  BY <1>1, <1>2, GotoRun DEF Spots
<1>4. Begins(r)' /\ Uploads(r)' /\ Follows(r)' /\ Succeeds(r)'
  BY <1>1, <1>2, <1>3 DEF RunOK, Begins, Uploads, Follows, Succeeds, At, Early, Uploading
<1>5. Remembers(r)'
  BY <1>1, <1>2, <1>3, MemoryStays DEF RunOK, Forward
<1> QED
  BY <1>1, <1>3, <1>4, <1>5, SavesStep

LEMMA Writes == ASSUME SubmissionsInv, NEW r \in Runs, Write(r) PROVE SubmissionsInv'
<1> DEFINE say == IF Submits(r) THEN "submitted" ELSE run[r].says
<1> DEFINE new == [run[r] EXCEPT !.at = run[r].next, !.says = say]
<1>1. UNCHANGED <<job, archives, uploads>> /\ file' = run[r].mem /\ At(r, "write") /\ Resume(r, new)
  BY DEF Write
<1>2. RunOK(r) /\ SubmissionsTypeOK /\ run \in [Runs -> Run] /\ run[r] \in Run
      /\ run[r].next \in {"poll", "list", "over"}
  BY DEF SubmissionsInv, SubmissionsTypeOK, Run
<1>3. say \in {"submitted", run[r].says}
  OBVIOUS
<1> HIDE DEF say
<1>4. /\ new.at = run[r].next /\ new.says = say /\ new.does = run[r].does /\ new.of = run[r].of
      /\ new.next = run[r].next /\ new.mem = run[r].mem /\ new.row = run[r].row
  BY <1>2 DEF Run
<1>5. new \in Run
  BY <1>2, <1>3 DEF Run
<1> HIDE DEF new
<1>6. /\ run' \in [Runs -> Run] /\ \A q \in Runs : q # r => run'[q] = run[q]
      /\ run'[r].at = new.at /\ run'[r].does = new.does /\ run'[r].says = new.says
      /\ new.at # "over" => run'[r] = new
      /\ new.at = "over" => run'[r].of = r /\ run'[r].mem = <<>> /\ run'[r].next = "over"
  BY <1>1, <1>2, <1>5, ResumeRun
<1>7. Begins(r)' /\ Uploads(r)' /\ Follows(r)' /\ Succeeds(r)'
  BY <1>1, <1>2, <1>3, <1>4, <1>6
     DEF RunOK, Begins, Uploads, Follows, Succeeds, At, Early, Uploading
<1>8. Remembers(r)'
  BY <1>1, <1>2, <1>4, <1>6, MemoryStays DEF RunOK, Forward
<1> QED
  BY <1>1, <1>6, <1>7, <1>8, SavesStep

-----------------------------------------------------------------------------
\* The steps of a run that change a job.
LEMMA ChangesStep ==
    ASSUME SubmissionsInv, NEW r \in Runs, UNCHANGED <<archives, uploads, file>>,
           job' \in [Runs -> Job], Forward, \A q \in Runs : q # r => Quiet(q),
           \A j \in Runs : /\ job'[j].held => job'[j].state # "absent"
                           /\ job'[j].state = "cancelled" => job'[j].revoked
                           /\ job'[j].att = "complete" => job[j].att = "complete",
           run' \in [Runs -> Run], \A q \in Runs : q # r => run'[q] = run[q],
           Begins(r)', Uploads(r)', Follows(r)', Succeeds(r)', Remembers(r)'
    PROVE  SubmissionsInv'
<1>1. SubmissionsTypeOK' /\ FileOK'
  BY FileStays DEF SubmissionsInv, SubmissionsTypeOK
<1>2. ASSUME NEW q \in Runs PROVE RunOK(q)' /\ JobOK(q)'
  <2>1. JobOK(q)'
    BY DEF SubmissionsInv, JobOK, Forward
  <2>2. CASE q = r
    BY <2>1, <2>2 DEF RunOK
  <2>3. CASE q # r
    BY <2>1, <2>3, RunStays DEF SubmissionsInv
  <2> QED
    BY <2>2, <2>3
<1> QED
  BY <1>1, <1>2 DEF SubmissionsInv

\* A job is made once: no run has been told of it, and no upload was.
LEMMA JobMade ==
    ASSUME SubmissionsInv, NEW r \in Runs, At(r, "post"), Created(r)
    PROVE  /\ job' \in [Runs -> Job] /\ job'[r].state = "waiting"
           /\ \A j \in Runs : /\ job'[j].held => job'[j].state # "absent"
                              /\ job'[j].state = "cancelled" => job'[j].revoked
                              /\ job'[j].att = "complete" => job[j].att = "complete"
           /\ Forward /\ \A q \in Runs : q # r => job'[q] = job[q]
<1>1. /\ job \in [Runs -> Job] /\ job[r] \in Job
      /\ job[r].state = "absent" /\ job[r].att = "none" /\ \A j \in Runs : JobOK(j)
  BY DEF SubmissionsInv, SubmissionsTypeOK, RunOK, Begins, At, Early
<1> DEFINE att == IF run[r].does = "submit" THEN "none" ELSE "waiting"
<1> DEFINE new == [job[r] EXCEPT !.state = "waiting", !.att = att]
<1>2. job' = [job EXCEPT ![r] = new] /\ att \in {"none", "waiting"}
  BY <1>1 DEF Created
<1> HIDE DEF att
<1>3. new.state = "waiting" /\ new.att = att /\ new.held = job[r].held
      /\ new.revoked = job[r].revoked
  BY <1>1 DEF Job
<1>4. new \in Job
  BY <1>1, <1>2 DEF Job, JobStates
<1> HIDE DEF new
<1>5. job' \in [Runs -> Job] /\ job'[r] = new /\ \A q \in Runs : q # r => job'[q] = job[q]
  BY <1>1, <1>2, <1>4
<1>6. Forward
  BY <1>1, <1>3, <1>5 DEF Forward
<1> QED
  BY <1>1, <1>2, <1>3, <1>5, <1>6 DEF JobOK

LEMMA Posts == ASSUME SubmissionsInv, NEW r \in Runs, PostJob(r) PROVE SubmissionsInv'
<1> DEFINE to == IF run[r].does = "submit" THEN "record" ELSE "upload"
<1>1. UNCHANGED <<archives, uploads, file>> /\ At(r, "post") /\ Created(r) /\ Goto(r, to)
  BY DEF PostJob
<1>2. RunOK(r) /\ SubmissionsTypeOK /\ run \in [Runs -> Run]
  BY DEF SubmissionsInv, SubmissionsTypeOK
<1>3. /\ job' \in [Runs -> Job] /\ job'[r].state = "waiting"
      /\ \A j \in Runs : /\ job'[j].held => job'[j].state # "absent"
                         /\ job'[j].state = "cancelled" => job'[j].revoked
                         /\ job'[j].att = "complete" => job[j].att = "complete"
      /\ Forward /\ \A q \in Runs : q # r => job'[q] = job[q]
  BY <1>1, JobMade
<1>4. to \in {"record", "upload"} /\ (to = "upload" => run[r].does = "submit_attachments")
      /\ (to = "record" => run[r].does = "submit")
  BY <1>1, <1>2 DEF RunOK, Begins, At, Submits
<1> HIDE DEF to
<1>5. /\ run' \in [Runs -> Run] /\ \A q \in Runs : q # r => run'[q] = run[q]
      /\ run'[r].at = to /\ run'[r].does = run[r].does /\ run'[r].says = run[r].says
      /\ run'[r].of = run[r].of /\ run'[r].mem = run[r].mem
      /\ run'[r].next = run[r].next /\ run'[r].row = run[r].row
  BY <1>1, <1>2, <1>4, GotoRun DEF Spots
<1>6. run[r].of = r /\ run[r].says = "nothing" /\ run[r].row # 0
  BY <1>1, <1>2 DEF RunOK, Uploads, Begins, Follows, At, Early
<1>7. Begins(r)' /\ Uploads(r)' /\ Follows(r)'
  BY <1>1, <1>2, <1>3, <1>4, <1>5, <1>6 DEF Begins, Uploads, Follows, At, Early, Uploading
<1>8. Succeeds(r)'
  BY <1>4, <1>5, <1>6 DEF Succeeds, Early, Uploading
<1>9. Remembers(r)'
  BY <1>2, <1>3, <1>5, MemoryStays DEF RunOK
<1>10. \A q \in Runs : q # r => Quiet(q)
  BY <1>1, <1>3 DEF Quiet
<1> QED
  BY <1>1, <1>3, <1>5, <1>7, <1>8, <1>9, <1>10, ChangesStep

\* A run that ends for a job that others may have changed meanwhile.
LEMMA ExitChanges ==
    ASSUME SubmissionsInv, NEW r \in Runs, UNCHANGED <<archives, uploads, file>>,
           job' \in [Runs -> Job], Forward, \A q \in Runs : q # r => Quiet(q),
           \A j \in Runs : /\ job'[j].held => job'[j].state # "absent"
                           /\ job'[j].state = "cancelled" => job'[j].revoked
                           /\ job'[j].att = "complete" => job[j].att = "complete",
           NEW what \in {"cancelled", "failed"}, Exit(r, what),
           what = "cancelled" => job'[r].state \notin {"absent", "waiting"}
    PROVE  SubmissionsInv'
<1>1. run \in [Runs -> Run]
  BY DEF SubmissionsInv, SubmissionsTypeOK
<1>2. /\ run' \in [Runs -> Run] /\ \A q \in Runs : q # r => run'[q] = run[q]
      /\ run'[r].at = "over" /\ run'[r].does = run[r].does /\ run'[r].says = what
      /\ run'[r].of = r /\ run'[r].mem = <<>> /\ run'[r].next = "over"
  BY <1>1, ExitRun
<1>3. Begins(r)' /\ Uploads(r)' /\ Follows(r)' /\ Succeeds(r)'
  BY <1>2 DEF Begins, Uploads, Follows, Succeeds, At, Early, Uploading
<1>4. Remembers(r)'
  BY <1>2 DEF Remembers
<1> QED
  BY <1>2, <1>3, <1>4, ChangesStep

LEMMA PostFailed == ASSUME SubmissionsInv, NEW r \in Runs, PostJobFails(r) PROVE SubmissionsInv'
<1>1. UNCHANGED <<archives, uploads, file>> /\ At(r, "post") /\ Exit(r, "failed")
  BY DEF PostJobFails
<1>2. CASE Created(r)
  <2>1. /\ job' \in [Runs -> Job]
        /\ \A j \in Runs : /\ job'[j].held => job'[j].state # "absent"
                           /\ job'[j].state = "cancelled" => job'[j].revoked
                           /\ job'[j].att = "complete" => job[j].att = "complete"
        /\ Forward /\ \A q \in Runs : q # r => job'[q] = job[q]
    BY <1>1, <1>2, JobMade
  <2>2. \A q \in Runs : q # r => Quiet(q)
    BY <1>1, <2>1 DEF Quiet
  <2> QED
    BY <1>1, <2>1, <2>2, ExitChanges
<1>3. CASE UNCHANGED job
  BY <1>1, <1>3, Exits
<1> QED
  BY <1>2, <1>3 DEF PostJobFails

\* A job that is cancelled exists, and is not one that has yet to be posted.
LEMMA JobCancelled ==
    ASSUME SubmissionsInv, NEW r \in Runs, At(r, "give_up") \/ At(r, "cancel"), Cancelled(r)
    PROVE  /\ job' \in [Runs -> Job] /\ run[r].of \in Runs
           /\ job'[run[r].of].state \in FinalStates
           /\ \A j \in Runs : /\ job'[j].held => job'[j].state # "absent"
                              /\ job'[j].state = "cancelled" => job'[j].revoked
                              /\ job'[j].att = "complete" => job[j].att = "complete"
           /\ Forward /\ \A q \in Runs : Quiet(q) \/ uploads' # uploads
           /\ At(r, "give_up") => run[r].of = r
           /\ Accepts(r) => job'[run[r].of].revoked
<1> DEFINE j == run[r].of
<1>1. /\ job \in [Runs -> Job] /\ j \in Runs /\ job[j] \in Job
      /\ RunOK(r) /\ \A q \in Runs : RunOK(q) /\ JobOK(q)
  BY DEF SubmissionsInv, SubmissionsTypeOK, Run
<1>2. job[j].state # "absent" /\ (At(r, "give_up") => j = r)
  BY <1>1 DEF RunOK, Uploads, Follows, At, Uploading
<1> DEFINE st == IF Cancels(r) THEN "cancelled" ELSE job[j].state
<1> DEFINE rv == job[j].revoked \/ Accepts(r)
<1> DEFINE new == [job[j] EXCEPT !.state = st, !.shown = FALSE, !.revoked = rv]
<1>3. job' = [job EXCEPT ![j] = new]
  BY <1>1 DEF Cancelled
<1>4. /\ st \in FinalStates /\ st \in JobStates /\ (job[j].state = "complete" => st = "complete")
      /\ rv \in BOOLEAN /\ (job[j].revoked => rv) /\ (Accepts(r) => rv)
      /\ st = "cancelled" => rv
  <2>1. st = "cancelled" => job[j].state = "cancelled" \/ Accepts(r)
    BY DEF Accepts
  <2> QED
    BY <1>1, <2>1 DEF Cancels, FinalStates, JobStates, JobOK
<1> HIDE DEF st, rv
<1>5. new.state = st /\ new.att = job[j].att /\ new.held = job[j].held /\ new.revoked = rv
  BY <1>1 DEF Job
<1>6. new \in Job
  BY <1>1, <1>4 DEF Job
<1> HIDE DEF new
<1>7. job' \in [Runs -> Job] /\ job'[j] = new /\ \A q \in Runs : q # j => job'[q] = job[q]
  BY <1>1, <1>3, <1>6
<1> HIDE DEF j
<1>8. Forward
  BY <1>1, <1>4, <1>5, <1>7 DEF Forward, FinalStates
<1>9. ASSUME NEW q \in Runs, uploads' = uploads PROVE Quiet(q)
  BY <1>1, <1>2, <1>7, <1>9 DEF Quiet, RunOK, Begins
<1>10. \A k \in Runs : /\ job'[k].held => job'[k].state # "absent"
                       /\ job'[k].state = "cancelled" => job'[k].revoked
                       /\ job'[k].att = "complete" => job[k].att = "complete"
  BY <1>1, <1>4, <1>5, <1>7 DEF JobOK, FinalStates
<1>11. job'[j].state \in FinalStates /\ (Accepts(r) => job'[j].revoked)
  BY <1>4, <1>5, <1>7
<1> QED
  BY <1>1, <1>2, <1>7, <1>8, <1>9, <1>10, <1>11 DEF j

LEMMA CancelFailed == ASSUME SubmissionsInv, NEW r \in Runs, CancelFails(r) PROVE SubmissionsInv'
<1>1. /\ UNCHANGED <<archives, uploads, file>> /\ Exit(r, "failed")
      /\ At(r, "give_up") \/ At(r, "cancel")
  BY DEF CancelFails
<1>2. CASE Cancelled(r)
  <2>1. /\ job' \in [Runs -> Job] /\ Forward /\ \A q \in Runs : Quiet(q)
        /\ \A j \in Runs : /\ job'[j].held => job'[j].state # "absent"
                           /\ job'[j].state = "cancelled" => job'[j].revoked
                           /\ job'[j].att = "complete" => job[j].att = "complete"
    BY <1>1, <1>2, JobCancelled
  <2> QED
    BY <1>1, <2>1, ExitChanges
<1>3. CASE UNCHANGED job
  BY <1>1, <1>3, Exits
<1> QED
  BY <1>2, <1>3 DEF CancelFails

\* After a cancellation the job is over, whatever it was before.
LEMMA CancelDone == ASSUME SubmissionsInv, NEW r \in Runs, CancelJob(r) PROVE SubmissionsInv'
<1>1. UNCHANGED <<archives, uploads, file>> /\ Cancelled(r) /\ (At(r, "give_up") \/ At(r, "cancel"))
      /\ Accepts(r)
  BY DEF CancelJob
<1>2. /\ job' \in [Runs -> Job] /\ run[r].of \in Runs
      /\ job'[run[r].of].state \in FinalStates
      /\ \A j \in Runs : /\ job'[j].held => job'[j].state # "absent"
                         /\ job'[j].state = "cancelled" => job'[j].revoked
                         /\ job'[j].att = "complete" => job[j].att = "complete"
      /\ Forward /\ \A q \in Runs : Quiet(q)
      /\ At(r, "give_up") => run[r].of = r
      /\ job'[run[r].of].revoked
  BY <1>1, JobCancelled
<1>3. CASE At(r, "give_up") /\ Exit(r, "cancelled")
  <2>1. job'[r].state \notin {"absent", "waiting"}
    BY <1>2, <1>3 DEF FinalStates
  <2> QED
    BY <1>1, <1>2, <1>3, <2>1, ExitChanges
<1>4. CASE At(r, "cancel") /\ UpdateAndGo(r, run[r].of, "cancelled", 1, "over")
  <2> PICK j : j = run[r].of
    OBVIOUS
  <2>1. RunOK(r) /\ SubmissionsTypeOK /\ run \in [Runs -> Run] /\ "cancelled" \in Recorded
    BY DEF SubmissionsInv, SubmissionsTypeOK, Recorded, JobStates, FinalStates
  <2>2. /\ run' \in [Runs -> Run] /\ \A q \in Runs : q # r => run'[q] = run[q]
        /\ run'[r].at \in {"truncate", "over"}
        /\ run'[r].does = run[r].does /\ run'[r].says = run[r].says
        /\ run'[r].at # "over" => /\ run'[r].of = run[r].of /\ run'[r].next = "over"
                                  /\ run'[r].mem = With(run[r].mem, j, "cancelled")
                                  /\ run'[r].row = 1
        /\ run'[r].at = "over" => run'[r].of = r /\ run'[r].mem = <<>> /\ run'[r].next = "over"
    BY <1>2, <1>4, <2>1, UpdateRun
  <2>3. Begins(r)' /\ Uploads(r)' /\ Follows(r)'
    BY <1>4, <2>1, <2>2 DEF RunOK, Begins, Uploads, Follows, At, Early, Uploading
  <2>4. Succeeds(r)'
    BY <1>2, <1>4, <2>1, <2>2 DEF RunOK, Succeeds, Forward, At, Early, Uploading
  <2>5. Told([job |-> j, state |-> "cancelled"])'
    <3>1. job'[j].state \notin {"absent", "waiting"} /\ job'[j].revoked
      BY <1>2 DEF FinalStates
    <3> QED
      BY <3>1 DEF Told
  <2>6. Remembers(r)'
    <3>1. CASE run'[r].at = "over"
      BY <2>2, <3>1 DEF Remembers
    <3>2. CASE run'[r].at # "over"
      BY <1>2, <2>1, <2>2, <2>5, <3>2, MemoryUpdated DEF RunOK
    <3> QED
      BY <3>1, <3>2
  <2> QED
    BY <1>1, <1>2, <2>2, <2>3, <2>4, <2>6, ChangesStep
<1> QED
  BY <1>3, <1>4 DEF CancelJob

-----------------------------------------------------------------------------
\* What the server and the agents do.
LEMMA OthersStep ==
    ASSUME SubmissionsInv, SubmissionsTypeOK', Forward, UNCHANGED <<file, run>>,
           \A q \in Runs : Quiet(q) /\ JobOK(q)'
    PROVE  SubmissionsInv'
<1>1. FileOK'
  BY FileStays DEF SubmissionsInv
<1>2. \A q \in Runs : RunOK(q)'
  BY RunStays DEF SubmissionsInv
<1> QED
  BY <1>1, <1>2 DEF SubmissionsInv

\* The archive is stored before the job is marked.
LEMMA UploadGoesOn ==
    ASSUME SubmissionsInv, NEW r \in Runs,
           ReceiveArchive(r) \/ SaveArchive(r) \/ MarkReceived(r) \/ HandlerFails(r)
    PROVE  SubmissionsInv'
<1>1. /\ SubmissionsTypeOK /\ job \in [Runs -> Job] /\ job[r] \in Job /\ archives \subseteq Runs
      /\ uploads \in [Runs -> [1..MaxTries -> Upload]]
      /\ \A q \in Runs : RunOK(q) /\ JobOK(q)
  BY DEF SubmissionsInv, SubmissionsTypeOK
<1>2. CASE ReceiveArchive(r)
  <2>1. Tries(r) \in 1..MaxTries
    <3>1. run[r].tries \in 0..MaxTries /\ MaxTries \in Nat
      BY <1>1, SubmissionsAssumption DEF SubmissionsTypeOK, Run
    <3>2. run[r].tries # 0
      BY <1>1, <1>2 DEF ReceiveArchive, NotYetReceived, RunOK, Uploads
    <3> QED
      BY <3>1, <3>2 DEF Tries
  <2>2. uploads' = [uploads EXCEPT ![r][Tries(r)] = "save"] /\ UNCHANGED <<job, archives, file, run>>
        /\ At(r, "answer")
    BY <1>2 DEF ReceiveArchive, NotYetReceived
  <2>3. uploads' \in [Runs -> [1..MaxTries -> Upload]]
    BY <1>1, <2>1, <2>2 DEF Upload
  <2>4. \A q \in Runs : Quiet(q) /\ JobOK(q)'
    BY <1>1, <2>1, <2>2 DEF Quiet, JobOK, At, Early
  <2> QED
    BY <1>1, <2>2, <2>3, <2>4, OthersStep DEF SubmissionsTypeOK, Forward
<1>3. CASE SaveArchive(r)
  <2> PICK n \in 1..MaxTries : /\ uploads[r][n] = "save" /\ archives' = archives \cup {r}
                               /\ uploads' = [uploads EXCEPT ![r][n] = "mark"]
                               /\ UNCHANGED <<job, file, run>>
    BY <1>3 DEF SaveArchive
  <2>1. uploads' \in [Runs -> [1..MaxTries -> Upload]] /\ archives' \subseteq Runs
    BY <1>1 DEF Upload
  <2>2. \A q \in Runs : Quiet(q) /\ JobOK(q)'
    BY <1>1 DEF Quiet, RunOK, Begins, JobOK
  <2> QED
    BY <1>1, <2>1, <2>2, OthersStep DEF SubmissionsTypeOK, Forward
<1>4. CASE MarkReceived(r)
  <2> PICK n \in 1..MaxTries : /\ uploads[r][n] = "mark" /\ job' = [job EXCEPT ![r].att = "complete"]
                               /\ uploads' = [uploads EXCEPT ![r][n] = "done"]
                               /\ UNCHANGED <<archives, file, run>>
    BY <1>4 DEF MarkReceived
  <2>1. uploads' \in [Runs -> [1..MaxTries -> Upload]] /\ job' \in [Runs -> Job]
    BY <1>1 DEF Upload, Job
  <2>2. /\ job'[r].att = "complete" /\ job'[r].state = job[r].state /\ job'[r].held = job[r].held
        /\ job'[r].revoked = job[r].revoked
        /\ \A q \in Runs : q # r => job'[q] = job[q]
    BY <1>1 DEF Job
  <2>3. Forward
    BY <1>1, <2>2 DEF Forward
  <2>4. \A q \in Runs : Quiet(q) /\ JobOK(q)'
    BY <1>1, <2>2 DEF Quiet, RunOK, Begins, JobOK
  <2> QED
    BY <1>1, <2>1, <2>3, <2>4, OthersStep DEF SubmissionsTypeOK
<1>5. CASE HandlerFails(r)
  <2> PICK n \in 1..MaxTries : /\ uploads[r][n] \in {"save", "mark"}
                               /\ uploads' = [uploads EXCEPT ![r][n] = "failed"]
                               /\ UNCHANGED <<job, archives, file, run>>
    BY <1>5 DEF HandlerFails
  <2>1. uploads' \in [Runs -> [1..MaxTries -> Upload]]
    BY <1>1 DEF Upload
  <2>2. \A q \in Runs : Quiet(q) /\ JobOK(q)'
    BY <1>1 DEF Quiet, RunOK, Begins, JobOK
  <2> QED
    BY <1>1, <2>1, <2>2, OthersStep DEF SubmissionsTypeOK, Forward
<1> QED
  BY <1>2, <1>3, <1>4, <1>5

LEMMA AgentGoesOn ==
    ASSUME SubmissionsInv, NEW j \in Runs,
           TakeJob(j) \/ AnnouncePhase(j) \/ CompleteJob(j) \/ ClearAgentJob(j)
    PROVE  SubmissionsInv'
<1>1. /\ SubmissionsTypeOK /\ job \in [Runs -> Job] /\ job[j] \in Job
      /\ \A q \in Runs : RunOK(q) /\ JobOK(q)
      /\ UNCHANGED <<archives, uploads, file, run>>
  BY DEF SubmissionsInv, SubmissionsTypeOK, TakeJob, AnnouncePhase, CompleteJob, ClearAgentJob
<1>2. /\ job' \in [Runs -> Job] /\ \A q \in Runs : q # j => job'[q] = job[q]
      /\ job'[j].att = job[j].att /\ job[j].state # "absent" /\ job'[j].state \notin {"absent", "waiting"}
      /\ job[j].state = "complete" => job'[j].state = "complete"
      /\ job'[j].revoked = job[j].revoked /\ (job'[j].state = "cancelled" => job[j].state = "cancelled")
  <2>0. job[j].held => job[j].state # "absent"
    BY <1>1 DEF JobOK
  <2>1. CASE TakeJob(j)
    BY <1>1, <2>1 DEF TakeJob, Job, JobStates
  <2>2. CASE AnnouncePhase(j)
    BY <1>1, <2>2 DEF AnnouncePhase, Job, JobStates
  <2>3. CASE CompleteJob(j)
    BY <1>1, <2>0, <2>3 DEF CompleteJob, Job, JobStates, FinalStates
  <2>4. CASE ClearAgentJob(j)
    BY <1>1, <2>4 DEF ClearAgentJob, Job, JobStates
  <2> QED
    BY <2>1, <2>2, <2>3, <2>4
<1>3. Forward
  BY <1>1, <1>2 DEF Forward
<1>4. \A q \in Runs : Quiet(q) /\ JobOK(q)'
  BY <1>1, <1>2 DEF Quiet, RunOK, Begins, JobOK
<1> QED
  BY <1>1, <1>2, <1>3, <1>4, OthersStep DEF SubmissionsTypeOK

LEMMA SubmissionsInvInit == SubmissionsInit => SubmissionsInv
<1> SUFFICES ASSUME SubmissionsInit PROVE SubmissionsInv
  OBVIOUS
<1> DEFINE idle(r) == [at |-> "start", does |-> "nothing", of |-> r, mem |-> <<>>, tries |-> 0,
                       row |-> 0, next |-> "over", says |-> "nothing"]
<1>1. /\ run = [r \in Runs |-> idle(r)] /\ file = <<>> /\ archives = {}
      /\ job = [r \in Runs |-> [state |-> "absent", att |-> "none", shown |-> FALSE, held |-> FALSE,
                             revoked |-> FALSE]]
      /\ uploads = [r \in Runs |-> [n \in 1..MaxTries |-> "none"]]
  BY DEF SubmissionsInit
<1>2. <<>> \in Seq(Entry) /\ 0 \in 0..MaxTries
  BY SubmissionsAssumption
<1>3. \A r \in Runs : idle(r) \in Run
  BY <1>2 DEF Run
<1>4. SubmissionsTypeOK
  BY <1>1, <1>2, <1>3 DEF SubmissionsTypeOK, Job, Upload
<1>5. ASSUME NEW r \in Runs PROVE RunOK(r) /\ JobOK(r)
  <2>1. run[r] = idle(r) /\ job[r].state = "absent" /\ job[r].att = "none" /\ ~job[r].held
        /\ \A n \in 1..MaxTries : uploads[r][n] = "none"
    BY <1>1
  <2> QED
    BY <2>1 DEF RunOK, Begins, Uploads, Follows, Succeeds, Remembers, JobOK, At, Early, Uploading
<1>6. FileOK
  BY <1>1 DEF FileOK
<1> QED
  BY <1>4, <1>5, <1>6 DEF SubmissionsInv

LEMMA SubmissionsInvStep == SubmissionsInv /\ [SubmissionsStep]_submissions => SubmissionsInv'
<1>1. ASSUME SubmissionsInv, NEW r \in Runs, Client(r) PROVE SubmissionsInv'
  BY <1>1, Starts, ChecksAgents, Posts, PostFailed, Sends, Answered, IsRefused, GivesUp, Adds,
     Truncates, Writes, CancelDone, CancelFailed, Polls, Leaves, Lists DEF Client
<1>2. ASSUME SubmissionsInv, NEW r \in Runs, Others(r) PROVE SubmissionsInv'
  BY <1>2, UploadGoesOn, AgentGoesOn DEF Others
<1>3. ASSUME SubmissionsInv, NEW r \in Runs, Killed(r) PROVE SubmissionsInv'
  BY <1>3, Leaves
<1>4. ASSUME SubmissionsInv, UNCHANGED submissions PROVE SubmissionsInv'
  <2>1. UNCHANGED <<job, archives, uploads, file, run>>
    BY <1>4 DEF submissions
  <2>2. Forward /\ \A q \in Runs : Quiet(q) /\ JobOK(q)'
    BY <1>4, <2>1 DEF Forward, Quiet, JobOK, SubmissionsInv
  <2>3. SubmissionsTypeOK'
    BY <1>4, <2>1 DEF SubmissionsTypeOK, SubmissionsInv
  <2> QED
    BY <1>4, <2>1, <2>2, <2>3, OthersStep
<1> QED
  BY <1>1, <1>2, <1>3, <1>4 DEF SubmissionsStep

LEMMA SubmissionsTrue == SystemSpec => []SubmissionsInv
<1>1. SystemInit => SubmissionsInv
  BY SubmissionsInvInit DEF SystemInit
<1>2. SubmissionsInv /\ [SystemNext]_system => SubmissionsInv'
  BY SubmissionsInvStep, PartsStep
<1> QED
  BY <1>1, <1>2, PTL DEF SystemSpec

\* Whatever becomes of the tries of an upload, "submitted" means that the archive is
\* stored and the job does not wait for it.
THEOREM SubmittedIsReady == SystemSpec => []SuccessMeansReady
<1>1. SubmissionsInv => SuccessMeansReady
  BY DEF SubmissionsInv, RunOK, JobOK, Succeeds, SuccessMeansReady
<1> QED
  BY <1>1, SubmissionsTrue, PTL

\* A job that is cancelled because its archive could not be sent is not taken any more,
\* whatever the server still does with the archive.
THEOREM CancelledIsGone == SystemSpec => []GivenUpMeansGone
<1>1. SubmissionsInv => GivenUpMeansGone
  BY DEF SubmissionsInv, RunOK, Succeeds, GivenUpMeansGone
<1> QED
  BY <1>1, SubmissionsTrue, PTL

\* No run saves, or goes on with, a final state that is not true of the job, however
\* the runs overwrite the history of each other: what it has as cancelled was cancelled
\* with the consent of the server, and what it has as complete is complete.
THEOREM HistoryIsTrue == SystemSpec => []FinalsAreTrue
<1>1. SubmissionsInv => FinalsAreTrue
  <2> SUFFICES ASSUME SubmissionsInv, NEW e,
                      e \in Entries(file) \/ \E r \in Runs : e \in Entries(run[r].mem)
               PROVE  Told(e)
    BY DEF FinalsAreTrue, Told
  <2>1. CASE e \in Entries(file)
    BY <2>1 DEF Entries, SubmissionsInv, FileOK
  <2>2. CASE \E r \in Runs : e \in Entries(run[r].mem)
    BY <2>2 DEF Entries, SubmissionsInv, RunOK, Remembers
  <2> QED
    BY <2>1, <2>2
<1> QED
  BY <1>1, SubmissionsTrue, PTL

-----------------------------------------------------------------------------
(***************************************************************************)
(* The logs, as a part of the client.                                      *)
(***************************************************************************)
LEMMA LogsPart == SystemSpec => Spec
<1>1. SystemInit => Init
  BY DEF SystemInit
<1> QED
  BY <1>1, PartsStep, PTL DEF SystemSpec, Spec

\* Every variable of a poll keeps its type, for every list of phases and number of
\* fragments.
THEOREM LogsTypeCorrect == SystemSpec => []TypeOK
  BY LogsPart, PollTypeCorrect, PTL

\* A poll prints what comes after all it has printed, and nothing more often than it is
\* stored, whichever posts are repeated, delayed or lost.
THEOREM LogsPrintedInOrder == SystemSpec => PrintedInOrder
  BY LogsPart, PollPrintsInOrder, PTL

\* When a poll has ended with its phase or with the job, all that is stored of what
\* was asked for was printed, but for what was stored out of turn.
THEOREM LogsNotSkipped == SystemSpec => []NothingIsSkipped
  BY LogsPart, PollSkipsNothing, PTL
=============================================================================
