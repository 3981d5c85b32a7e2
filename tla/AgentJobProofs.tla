--------------------------- MODULE AgentJobProofs ---------------------------
(***************************************************************************)
(* Proofs about AgentJob, for any sequence of phases, any configuration of *)
(* commands and data, and with cancellations, timeouts and failing calls   *)
(* at any time.                                                            *)
(*                                                                         *)
(* The inductive invariant says what is known of the command while it is   *)
(* watched, and which phases can have a code at each point of the agent.   *)
(***************************************************************************)
EXTENDS AgentJob, TLAPS

\* The command while it is watched, and after that.
Watched ==
    /\ pc = "run" => stop = "none" /\ proc \in {"running", "success", "failure"}
    /\ pc = "report" => proc \in {"killed", "success", "failure"}
    /\ pc = "report" /\ stop = "cancelled" => Phase # "provision"
    /\ pc \in {"prepare", "check", "announce"} => at # Last

\* A phase with a code is behind the agent, or its command is over.
Reached ==
    \A n \in 1..Len(PhaseSeq) : code[PhaseSeq[n]] # "none" =>
        \/ n < at
        \/ n = at /\ pc \in {"info", "allocate", "wait", "next"}

\* The agent goes on only past phases that did not fail.
Passed ==
    at # Last => \A m \in 1..(at - 1) :
        PhaseSeq[m] # "test" => code[PhaseSeq[m]] \in {"none", "success"}

\* The results file and what the server has of it.
Recorded ==
    /\ \A p \in AllPhases : ended[p] # "none" => code[p] # "none"
    /\ jobState = "complete" => pc = "over"
    /\ pc = "allocate" => deviceInfo
    /\ "provision" \in Phases => ProvisionIsFinished

IInv ==
    /\ TypeOK /\ Watched /\ Reached /\ Passed /\ Recorded
    /\ FailureEndsJob /\ InfoBeforeAllocated /\ OutcomeIsComplete

-----------------------------------------------------------------------------
\* The phases are known, and the cleanup is none of them.
LEMMA PhaseFacts ==
    /\ Len(PhaseSeq) \in Nat \ {0} /\ Last \in Nat /\ Last = Len(PhaseSeq) + 1
    /\ MaxCancels \in Nat
    /\ "cleanup" \in AllPhases /\ "cleanup" \notin Phases /\ Phases \subseteq AllPhases
    /\ Phases \subseteq JobStates /\ "allocated" \notin Phases /\ "complete" \notin Phases
    /\ \A n \in 1..Len(PhaseSeq) : PhaseSeq[n] \in Phases
    /\ \A m, n \in 1..Len(PhaseSeq) : PhaseSeq[m] = PhaseSeq[n] => m = n
<1>1. Len(PhaseSeq) \in Nat \ {0}
  BY AgentJobAssumption
<1>2. "cleanup" \notin Phases /\ "allocated" \notin Phases /\ "complete" \notin Phases
  BY AgentJobAssumption DEF JobOver
<1> QED
  BY <1>1, <1>2, AgentJobAssumption DEF Phases, AllPhases, JobStates, Last

\* The phase of the agent is one of them, or the cleanup.
LEMMA PhaseOf ==
    ASSUME at \in 1..Last
    PROVE  /\ Phase \in AllPhases
           /\ at = Last => Phase = "cleanup"
           /\ at # Last => at \in 1..Len(PhaseSeq) /\ Phase = PhaseSeq[at] /\ Phase \in Phases
<1>1. at # Last => at \in 1..Len(PhaseSeq)
  BY PhaseFacts DEF Last
<1> QED
  BY <1>1, PhaseFacts DEF Phase

\* The agent starts with an empty results file.
LEMMA InitIInv == Init => IInv
<1> SUFFICES ASSUME Init PROVE IInv
  OBVIOUS
<1>1. TypeOK
  <2>1. at \in 1..Last /\ cancels \in 0..MaxCancels
    BY PhaseFacts DEF Init
  <2>2. jobState \in JobStates /\ pc \in Points
    BY DEF Init, JobStates, Points
  <2>3. proc \in Codes /\ stop \in Stops /\ deviceInfo \in BOOLEAN /\ missed \in BOOLEAN /\ parentOver \in BOOLEAN
    BY DEF Init, Codes, Stops
  <2>4. reported \in [AllPhases -> Codes] /\ code \in [AllPhases -> Codes]
    BY DEF Init, Codes
  <2>5. ended \in [AllPhases -> Ends]
    BY DEF Init, Ends, Stops
  <2> QED
    BY <2>1, <2>2, <2>3, <2>4, <2>5 DEF TypeOK
<1>2. Watched /\ Reached /\ Passed
  BY PhaseFacts DEF Init, Watched, Reached, Passed, Last
<1>3. Recorded /\ FailureEndsJob /\ InfoBeforeAllocated /\ OutcomeIsComplete
  <2>1. \A p \in Phases : p \in AllPhases
    BY PhaseFacts
  <2>2. FailureEndsJob
    BY PhaseFacts DEF Init, FailureEndsJob
  <2> QED
    BY <2>1, <2>2
       DEF Init, Recorded, ProvisionIsFinished, InfoBeforeAllocated, OutcomeIsComplete, JobOver
<1> QED
  BY <1>1, <1>2, <1>3 DEF IInv

\* No action writes a value of the wrong shape.
LEMMA TypeStep == IInv /\ [Next]_vars => TypeOK'
<1> SUFFICES ASSUME IInv, [Next]_vars PROVE TypeOK'
  OBVIOUS
<1> USE PhaseFacts, PhaseOf
       DEF IInv, TypeOK, Watched, Codes, Stops, Ends, Points, JobStates, JobOver, server,
           runner, file, others
<1>1. CASE Prepare
  BY <1>1 DEF Prepare
<1>2. CASE Check
  <2>1. missed' \in BOOLEAN
    BY <1>2 DEF Check, Read
  <2>2. pc' \in Points /\ at' \in 1..Last
    BY <1>2 DEF Check
  <2>3. UNCHANGED <<server, runner, file, cancels, parentOver>>
    BY <1>2 DEF Check
  <2> QED
    BY <2>1, <2>2, <2>3
<1>3. CASE Announce
  BY <1>3 DEF Announce, PostJobState
<1>4. CASE Begin
  BY <1>4 DEF Begin
<1>5. CASE CommandEnds
  BY <1>5 DEF CommandEnds
<1>6. CASE GlobalTimeout
  BY <1>6 DEF GlobalTimeout, Kill
<1>7. CASE OutputTimeout
  BY <1>7 DEF OutputTimeout, Kill
<1>8. CASE SeeCancelled
  BY <1>8 DEF SeeCancelled, Kill
<1>9. CASE SeeEnd
  BY <1>9 DEF SeeEnd
<1>10. CASE Report
  BY <1>10 DEF Report, ExitCode, HowItEnded
<1>11. CASE PostDeviceInfo
  BY <1>11 DEF PostDeviceInfo
<1>12. CASE PostAllocated
  BY <1>12 DEF PostAllocated, PostJobState
<1>13. CASE StopWaiting
  BY <1>13 DEF StopWaiting
<1>14. CASE NextPhase
  BY <1>14 DEF NextPhase
<1>15. CASE PostOutcome
  BY <1>15 DEF PostOutcome
<1>16. CASE KeepWaiting
  BY <1>16 DEF KeepWaiting, vars
<1>17. CASE Cancel
  BY <1>17 DEF Cancel, Listening
<1>18. CASE ParentEnds
  BY <1>18 DEF ParentEnds
<1>19. CASE Done
  BY <1>19 DEF Done, vars
<1>20. CASE UNCHANGED vars
  BY <1>20 DEF vars
<1> QED
  BY <1>1, <1>2, <1>3, <1>4, <1>5, <1>6, <1>7, <1>8, <1>9, <1>10, <1>11, <1>12, <1>13, <1>14,
     <1>15, <1>16, <1>17, <1>18, <1>19, <1>20
     DEF Next, AgentStep

\* The command is watched until it has ended or was stopped.
LEMMA WatchStep == IInv /\ [Next]_vars => Watched'
<1> SUFFICES ASSUME IInv, [Next]_vars PROVE Watched'
  OBVIOUS
<1> USE PhaseFacts, PhaseOf DEF IInv, TypeOK, Watched, Phase, Stops, server, runner, file, others
<1>1. CASE Prepare
  BY <1>1 DEF Prepare
<1>2. CASE Check
  BY <1>2 DEF Check, Read
<1>3. CASE Announce
  BY <1>3 DEF Announce, PostJobState
<1>4. CASE Begin
  BY <1>4 DEF Begin
<1>5. CASE CommandEnds
  BY <1>5 DEF CommandEnds
<1>6. CASE GlobalTimeout
  BY <1>6 DEF GlobalTimeout, Kill
<1>7. CASE OutputTimeout
  BY <1>7 DEF OutputTimeout, Kill
<1>8. CASE SeeCancelled
  BY <1>8 DEF SeeCancelled, Kill
<1>9. CASE SeeEnd
  BY <1>9 DEF SeeEnd
<1>10. CASE Report
  BY <1>10 DEF Report, ExitCode, HowItEnded
<1>11. CASE PostDeviceInfo
  BY <1>11 DEF PostDeviceInfo
<1>12. CASE PostAllocated
  BY <1>12 DEF PostAllocated, PostJobState
<1>13. CASE StopWaiting
  BY <1>13 DEF StopWaiting
<1>14. CASE NextPhase
  BY <1>14 DEF NextPhase
<1>15. CASE PostOutcome
  BY <1>15 DEF PostOutcome
<1>16. CASE KeepWaiting
  BY <1>16 DEF KeepWaiting, vars
<1>17. CASE Cancel
  BY <1>17 DEF Cancel
<1>18. CASE ParentEnds
  BY <1>18 DEF ParentEnds
<1>19. CASE Done
  BY <1>19 DEF Done, vars
<1>20. CASE UNCHANGED vars
  BY <1>20 DEF vars
<1> QED
  BY <1>1, <1>2, <1>3, <1>4, <1>5, <1>6, <1>7, <1>8, <1>9, <1>10, <1>11, <1>12, <1>13, <1>14,
     <1>15, <1>16, <1>17, <1>18, <1>19, <1>20
     DEF Next, AgentStep

\* A code is written for the phase of the agent, after its command.
LEMMA ReachStep == IInv /\ [Next]_vars => Reached'
<1> SUFFICES ASSUME IInv, [Next]_vars PROVE Reached'
  OBVIOUS
<1> USE PhaseFacts, PhaseOf DEF IInv, TypeOK, Watched, Reached, server, runner, file, others
<1>1. CASE Prepare
  BY <1>1 DEF Prepare
<1>2. CASE Check
  BY <1>2 DEF Check, Read
<1>3. CASE Announce
  BY <1>3 DEF Announce, PostJobState
<1>4. CASE Begin
  BY <1>4 DEF Begin
<1>5. CASE CommandEnds
  BY <1>5 DEF CommandEnds
<1>6. CASE GlobalTimeout
  BY <1>6 DEF GlobalTimeout, Kill
<1>7. CASE OutputTimeout
  BY <1>7 DEF OutputTimeout, Kill
<1>8. CASE SeeCancelled
  BY <1>8 DEF SeeCancelled, Kill
<1>9. CASE SeeEnd
  BY <1>9 DEF SeeEnd
<1>10. CASE Report
  BY <1>10 DEF Report, ExitCode, HowItEnded
<1>11. CASE PostDeviceInfo
  BY <1>11 DEF PostDeviceInfo
<1>12. CASE PostAllocated
  BY <1>12 DEF PostAllocated, PostJobState
<1>13. CASE StopWaiting
  BY <1>13 DEF StopWaiting
<1>14. CASE NextPhase
  BY <1>14 DEF NextPhase
<1>15. CASE PostOutcome
  BY <1>15 DEF PostOutcome
<1>16. CASE KeepWaiting
  BY <1>16 DEF KeepWaiting, vars
<1>17. CASE Cancel
  BY <1>17 DEF Cancel
<1>18. CASE ParentEnds
  BY <1>18 DEF ParentEnds
<1>19. CASE Done
  BY <1>19 DEF Done, vars
<1>20. CASE UNCHANGED vars
  BY <1>20 DEF vars
<1> QED
  BY <1>1, <1>2, <1>3, <1>4, <1>5, <1>6, <1>7, <1>8, <1>9, <1>10, <1>11, <1>12, <1>13, <1>14,
     <1>15, <1>16, <1>17, <1>18, <1>19, <1>20
     DEF Next, AgentStep

\* The agent goes on past a phase only if it did not fail.
LEMMA PassStep == IInv /\ [Next]_vars => Passed'
<1> SUFFICES ASSUME IInv, [Next]_vars PROVE Passed'
  OBVIOUS
<1> USE PhaseFacts, PhaseOf DEF IInv, TypeOK, Passed, Reached, server, runner, file, others
<1>1. CASE Prepare
  BY <1>1 DEF Prepare
<1>2. CASE Check
  BY <1>2 DEF Check, Read
<1>3. CASE Announce
  BY <1>3 DEF Announce, PostJobState
<1>4. CASE Begin
  BY <1>4 DEF Begin
<1>5. CASE CommandEnds
  BY <1>5 DEF CommandEnds
<1>6. CASE GlobalTimeout
  BY <1>6 DEF GlobalTimeout, Kill
<1>7. CASE OutputTimeout
  BY <1>7 DEF OutputTimeout, Kill
<1>8. CASE SeeCancelled
  BY <1>8 DEF SeeCancelled, Kill
<1>9. CASE SeeEnd
  BY <1>9 DEF SeeEnd
<1>10. CASE Report
  BY <1>10 DEF Report, ExitCode, HowItEnded
<1>11. CASE PostDeviceInfo
  BY <1>11 DEF PostDeviceInfo
<1>12. CASE PostAllocated
  BY <1>12 DEF PostAllocated, PostJobState
<1>13. CASE StopWaiting
  BY <1>13 DEF StopWaiting
<1>14. CASE NextPhase
  BY <1>14 DEF NextPhase
<1>15. CASE PostOutcome
  BY <1>15 DEF PostOutcome
<1>16. CASE KeepWaiting
  BY <1>16 DEF KeepWaiting, vars
<1>17. CASE Cancel
  BY <1>17 DEF Cancel
<1>18. CASE ParentEnds
  BY <1>18 DEF ParentEnds
<1>19. CASE Done
  BY <1>19 DEF Done, vars
<1>20. CASE UNCHANGED vars
  BY <1>20 DEF vars
<1> QED
  BY <1>1, <1>2, <1>3, <1>4, <1>5, <1>6, <1>7, <1>8, <1>9, <1>10, <1>11, <1>12, <1>13, <1>14,
     <1>15, <1>16, <1>17, <1>18, <1>19, <1>20
     DEF Next, AgentStep

\* The results file has a code of every command that ended.
LEMMA RecordStep == IInv /\ [Next]_vars => Recorded'
<1> SUFFICES ASSUME IInv, [Next]_vars PROVE Recorded'
  OBVIOUS
<1> USE PhaseFacts, PhaseOf
       DEF IInv, TypeOK, Watched, Recorded, ProvisionIsFinished, JobOver, server, runner, file,
           others
<1>1. CASE Prepare
  BY <1>1 DEF Prepare
<1>2. CASE Check
  BY <1>2 DEF Check, Read
<1>3. CASE Announce
  BY <1>3 DEF Announce, PostJobState
<1>4. CASE Begin
  BY <1>4 DEF Begin
<1>5. CASE CommandEnds
  BY <1>5 DEF CommandEnds
<1>6. CASE GlobalTimeout
  BY <1>6 DEF GlobalTimeout, Kill
<1>7. CASE OutputTimeout
  BY <1>7 DEF OutputTimeout, Kill
<1>8. CASE SeeCancelled
  BY <1>8 DEF SeeCancelled, Kill
<1>9. CASE SeeEnd
  BY <1>9 DEF SeeEnd
<1>10. CASE Report
  BY <1>10 DEF Report, ExitCode, HowItEnded
<1>11. CASE PostDeviceInfo
  BY <1>11 DEF PostDeviceInfo
<1>12. CASE PostAllocated
  BY <1>12 DEF PostAllocated, PostJobState
<1>13. CASE StopWaiting
  BY <1>13 DEF StopWaiting
<1>14. CASE NextPhase
  BY <1>14 DEF NextPhase
<1>15. CASE PostOutcome
  BY <1>15 DEF PostOutcome
<1>16. CASE KeepWaiting
  BY <1>16 DEF KeepWaiting, vars
<1>17. CASE Cancel
  BY <1>17 DEF Cancel
<1>18. CASE ParentEnds
  BY <1>18 DEF ParentEnds
<1>19. CASE Done
  BY <1>19 DEF Done, vars
<1>20. CASE UNCHANGED vars
  BY <1>20 DEF vars
<1> QED
  BY <1>1, <1>2, <1>3, <1>4, <1>5, <1>6, <1>7, <1>8, <1>9, <1>10, <1>11, <1>12, <1>13, <1>14,
     <1>15, <1>16, <1>17, <1>18, <1>19, <1>20
     DEF Next, AgentStep

\* No code is written after a failure.
LEMMA FailureStep == IInv /\ [Next]_vars => FailureEndsJob'
<1> SUFFICES ASSUME IInv, [Next]_vars PROVE FailureEndsJob'
  OBVIOUS
<1> USE PhaseFacts, PhaseOf
       DEF IInv, TypeOK, Reached, Passed, FailureEndsJob, server, runner, file, others
<1>1. CASE Prepare
  BY <1>1 DEF Prepare
<1>2. CASE Check
  BY <1>2 DEF Check, Read
<1>3. CASE Announce
  BY <1>3 DEF Announce, PostJobState
<1>4. CASE Begin
  BY <1>4 DEF Begin
<1>5. CASE CommandEnds
  BY <1>5 DEF CommandEnds
<1>6. CASE GlobalTimeout
  BY <1>6 DEF GlobalTimeout, Kill
<1>7. CASE OutputTimeout
  BY <1>7 DEF OutputTimeout, Kill
<1>8. CASE SeeCancelled
  BY <1>8 DEF SeeCancelled, Kill
<1>9. CASE SeeEnd
  BY <1>9 DEF SeeEnd
<1>10. CASE Report
  BY <1>10 DEF Report, ExitCode, HowItEnded
<1>11. CASE PostDeviceInfo
  BY <1>11 DEF PostDeviceInfo
<1>12. CASE PostAllocated
  BY <1>12 DEF PostAllocated, PostJobState
<1>13. CASE StopWaiting
  BY <1>13 DEF StopWaiting
<1>14. CASE NextPhase
  BY <1>14 DEF NextPhase
<1>15. CASE PostOutcome
  BY <1>15 DEF PostOutcome
<1>16. CASE KeepWaiting
  BY <1>16 DEF KeepWaiting, vars
<1>17. CASE Cancel
  BY <1>17 DEF Cancel
<1>18. CASE ParentEnds
  BY <1>18 DEF ParentEnds
<1>19. CASE Done
  BY <1>19 DEF Done, vars
<1>20. CASE UNCHANGED vars
  BY <1>20 DEF vars
<1> QED
  BY <1>1, <1>2, <1>3, <1>4, <1>5, <1>6, <1>7, <1>8, <1>9, <1>10, <1>11, <1>12, <1>13, <1>14,
     <1>15, <1>16, <1>17, <1>18, <1>19, <1>20
     DEF Next, AgentStep

\* The device info stays.
LEMMA InfoStep == IInv /\ [Next]_vars => InfoBeforeAllocated'
<1> SUFFICES ASSUME IInv, [Next]_vars PROVE InfoBeforeAllocated'
  OBVIOUS
<1> USE PhaseFacts, PhaseOf
       DEF IInv, TypeOK, Watched, Recorded, InfoBeforeAllocated, server, runner, file, others
<1>1. CASE Prepare
  BY <1>1 DEF Prepare
<1>2. CASE Check
  BY <1>2 DEF Check, Read
<1>3. CASE Announce
  BY <1>3 DEF Announce, PostJobState
<1>4. CASE Begin
  BY <1>4 DEF Begin
<1>5. CASE CommandEnds
  BY <1>5 DEF CommandEnds
<1>6. CASE GlobalTimeout
  BY <1>6 DEF GlobalTimeout, Kill
<1>7. CASE OutputTimeout
  BY <1>7 DEF OutputTimeout, Kill
<1>8. CASE SeeCancelled
  BY <1>8 DEF SeeCancelled, Kill
<1>9. CASE SeeEnd
  BY <1>9 DEF SeeEnd
<1>10. CASE Report
  BY <1>10 DEF Report, ExitCode, HowItEnded
<1>11. CASE PostDeviceInfo
  BY <1>11 DEF PostDeviceInfo
<1>12. CASE PostAllocated
  BY <1>12 DEF PostAllocated, PostJobState
<1>13. CASE StopWaiting
  BY <1>13 DEF StopWaiting
<1>14. CASE NextPhase
  BY <1>14 DEF NextPhase
<1>15. CASE PostOutcome
  BY <1>15 DEF PostOutcome
<1>16. CASE KeepWaiting
  BY <1>16 DEF KeepWaiting, vars
<1>17. CASE Cancel
  BY <1>17 DEF Cancel
<1>18. CASE ParentEnds
  BY <1>18 DEF ParentEnds
<1>19. CASE Done
  BY <1>19 DEF Done, vars
<1>20. CASE UNCHANGED vars
  BY <1>20 DEF vars
<1> QED
  BY <1>1, <1>2, <1>3, <1>4, <1>5, <1>6, <1>7, <1>8, <1>9, <1>10, <1>11, <1>12, <1>13, <1>14,
     <1>15, <1>16, <1>17, <1>18, <1>19, <1>20
     DEF Next, AgentStep

\* The outcome has all codes.
LEMMA CompleteStep == IInv /\ [Next]_vars => OutcomeIsComplete'
<1> SUFFICES ASSUME IInv, [Next]_vars PROVE OutcomeIsComplete'
  OBVIOUS
<1> USE PhaseFacts, PhaseOf
       DEF IInv, TypeOK, Watched, Recorded, OutcomeIsComplete, JobOver, server, runner, file,
           others
<1>1. CASE Prepare
  BY <1>1 DEF Prepare
<1>2. CASE Check
  BY <1>2 DEF Check, Read
<1>3. CASE Announce
  BY <1>3 DEF Announce, PostJobState
<1>4. CASE Begin
  BY <1>4 DEF Begin
<1>5. CASE CommandEnds
  BY <1>5 DEF CommandEnds
<1>6. CASE GlobalTimeout
  BY <1>6 DEF GlobalTimeout, Kill
<1>7. CASE OutputTimeout
  BY <1>7 DEF OutputTimeout, Kill
<1>8. CASE SeeCancelled
  BY <1>8 DEF SeeCancelled, Kill
<1>9. CASE SeeEnd
  BY <1>9 DEF SeeEnd
<1>10. CASE Report
  BY <1>10 DEF Report, ExitCode, HowItEnded
<1>11. CASE PostDeviceInfo
  BY <1>11 DEF PostDeviceInfo
<1>12. CASE PostAllocated
  BY <1>12 DEF PostAllocated, PostJobState
<1>13. CASE StopWaiting
  BY <1>13 DEF StopWaiting
<1>14. CASE NextPhase
  BY <1>14 DEF NextPhase
<1>15. CASE PostOutcome
  BY <1>15 DEF PostOutcome
<1>16. CASE KeepWaiting
  BY <1>16 DEF KeepWaiting, vars
<1>17. CASE Cancel
  BY <1>17 DEF Cancel
<1>18. CASE ParentEnds
  BY <1>18 DEF ParentEnds
<1>19. CASE Done
  BY <1>19 DEF Done, vars
<1>20. CASE UNCHANGED vars
  BY <1>20 DEF vars
<1> QED
  BY <1>1, <1>2, <1>3, <1>4, <1>5, <1>6, <1>7, <1>8, <1>9, <1>10, <1>11, <1>12, <1>13, <1>14,
     <1>15, <1>16, <1>17, <1>18, <1>19, <1>20
     DEF Next, AgentStep

\* What becomes of a cancellation the agent has not missed: the job shows it
\* until the agent reads it, and then only the cleanup is left.
Heeded ==
    cancels > 0 /\ ~missed =>
        \/ at = Last
        \/ /\ jobState = "cancelled"
           /\ pc \in {"prepare", "check", "run", "report", "wait", "next"}
           /\ pc \in {"run", "report"} => Phase # "allocate"

\* No call of the agent overwrites a cancellation it has not read.
LEMMA HeedStep == ASSUME IInv, Heeded, [Next]_vars PROVE Heeded'
<1> USE PhaseFacts, PhaseOf
       DEF IInv, TypeOK, Watched, Heeded, Phase, JobOver, server, runner, file, others
<1>1. CASE Prepare
  BY <1>1 DEF Prepare
<1>2. CASE Check
  BY <1>2 DEF Check, Read
<1>3. CASE Announce
  BY <1>3 DEF Announce, PostJobState
<1>4. CASE Begin
  BY <1>4 DEF Begin
<1>5. CASE CommandEnds
  BY <1>5 DEF CommandEnds
<1>6. CASE GlobalTimeout
  BY <1>6 DEF GlobalTimeout, Kill
<1>7. CASE OutputTimeout
  BY <1>7 DEF OutputTimeout, Kill
<1>8. CASE SeeCancelled
  BY <1>8 DEF SeeCancelled, Kill
<1>9. CASE SeeEnd
  BY <1>9 DEF SeeEnd
<1>10. CASE Report
  BY <1>10 DEF Report
<1>11. CASE PostDeviceInfo
  BY <1>11 DEF PostDeviceInfo
<1>12. CASE PostAllocated
  BY <1>12 DEF PostAllocated, PostJobState
<1>13. CASE StopWaiting
  BY <1>13 DEF StopWaiting
<1>14. CASE NextPhase
  BY <1>14 DEF NextPhase
<1>15. CASE PostOutcome
  BY <1>15 DEF PostOutcome
<1>16. CASE KeepWaiting
  BY <1>16 DEF KeepWaiting, vars
<1>17. CASE Cancel
  BY <1>17 DEF Cancel, Listening
<1>18. CASE ParentEnds
  BY <1>18 DEF ParentEnds
<1>19. CASE Done
  BY <1>19 DEF Done, vars
<1>20. CASE UNCHANGED vars
  BY <1>20 DEF vars
<1> QED
  BY <1>1, <1>2, <1>3, <1>4, <1>5, <1>6, <1>7, <1>8, <1>9, <1>10, <1>11, <1>12, <1>13, <1>14,
     <1>15, <1>16, <1>17, <1>18, <1>19, <1>20
     DEF Next, AgentStep

-----------------------------------------------------------------------------
\* The strengthened invariant holds in every reachable state.
LEMMA InvariantHolds == Spec => []IInv
<1>1. IInv /\ [Next]_vars => IInv'
  BY TypeStep, WatchStep, ReachStep, PassStep, RecordStep, FailureStep, InfoStep, CompleteStep
     DEF IInv
<1> QED
  BY <1>1, InitIInv, PTL DEF Spec

\* Every variable keeps its type.
THEOREM JobTypeCorrect == Spec => []TypeOK
<1>1. IInv => TypeOK
  BY DEF IInv
<1> QED
  BY <1>1, InvariantHolds, PTL

\* process_jobs runs no phase after one that failed, the test phase excepted, for
\* any sequence of phases and however their commands end.
THEOREM FailuresEndJobs == Spec => []FailureEndsJob
<1>1. IInv => FailureEndsJob
  BY DEF IInv
<1> QED
  BY <1>1, InvariantHolds, PTL

\* A job is shown as allocated only when its device info is on the server, and as
\* complete only when the code of every command of it is: no failure of a post and
\* no kill of a command changes that (allocate_phase, transmit_job_outcome).
THEOREM StatesSayTrue == Spec => []StateSaysTrue
<1>1. IInv => StateSaysTrue
  BY DEF IInv, StateSaysTrue
<1> QED
  BY <1>1, InvariantHolds, PTL

\* A cancellation never ends the command of the provision phase, whenever it is
\* seen (JobCancelledChecker).
THEOREM ProvisioningIsFinished == "provision" \in Phases => (Spec => []ProvisionIsFinished)
<1> SUFFICES ASSUME "provision" \in Phases PROVE Spec => []ProvisionIsFinished
  OBVIOUS
<1>1. IInv => ProvisionIsFinished
  BY DEF IInv, Recorded
<1> QED
  BY <1>1, InvariantHolds, PTL

\* After a cancellation that the agent could see, it starts no command but the
\* cleanup, whatever was running then, whichever call failed before, and however
\* often the job is cancelled (check_job_state before each phase, and
\* JobCancelledChecker while a command runs).
THEOREM CancelledJobsStartNothing == Spec => NothingStartsAfterCancel
<1>1. Init => Heeded
  BY DEF Init, Heeded
<1>2. IInv /\ Heeded /\ [Next]_vars => Heeded'
  BY HeedStep
<1>3. IInv /\ Heeded =>
         [Begin /\ proc' = "running" /\ Phase # "cleanup" => cancels = 0 \/ missed]_vars
  BY PhaseOf DEF IInv, TypeOK, Heeded, Begin
<1> QED
  BY <1>1, <1>2, <1>3, InvariantHolds, PTL DEF Spec, NothingStartsAfterCancel
=============================================================================
