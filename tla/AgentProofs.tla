---------------------------- MODULE AgentProofs -----------------------------
(***************************************************************************)
(* Proofs about the loop of the agent: what it makes of the commands that  *)
(* administrators give it (AgentStatus), and how it sends what its jobs    *)
(* have left (ResultTransmission).                                         *)
(***************************************************************************)
EXTENDS AgentStatus, ResultTransmission, TLAPS

-----------------------------------------------------------------------------
(***************************************************************************)
(* The state of the agent.  Unless a mishap comes between, no command to   *)
(* go offline is forgotten: neither by the posts of the agent, nor by      *)
(* heartbeats, restarts and failed recoveries.                             *)
(*                                                                         *)
(* The inductive invariant says for each point of the agent where the      *)
(* command is remembered there.                                            *)
(***************************************************************************)
\* A heartbeat repeats what the record says.
BeatRepeats == mishap \in {"none", "killed"} /\ beat # "none" => beat = srv

\* The agent is about to announce itself only when its record was not offline.
BootLooked == pc = "boot_set" /\ mishap \in {"none", "killed"} => srv # "offline"

\* The agent is here only when it has seen that it need not be offline.
Cleared == {"boot", "boot_set", "ask", "after_set", "restart_set"}

\* The agent is here only when it remembers what it has seen, since it posts next.
Looked == {"pj_restart", "ph_restart", "ph_post"}

OffIsRemembered ==
    mishap = "none" /\ (wanted \in Off \/ broken) =>
        /\ pc \notin Cleared
        /\ pc \in Looked => needsOffline
        /\ srv \in Off \/ needsOffline

IInv == TypeOK /\ BeatRepeats /\ BootLooked /\ OffIsRemembered

-----------------------------------------------------------------------------
\* What the record says is a state the agent knows apart from "unknown".
LEMMA StatesKnown ==
    /\ "offline" \in States /\ "maintenance" \in States /\ "waiting" \in States
    /\ "restart" \in States /\ "none" # "waiting"
    /\ "offline" \in Off /\ "maintenance" \in Off /\ "waiting" \notin Off
    /\ "restart" \notin Off /\ "online" \notin Off /\ "unknown" \notin Off
BY DEF States, Off

\* The phase that is announced is a state.
LEMMA PhaseIsState ==
    ASSUME phase \in 1..Len(PhaseSeq)
    PROVE  PhaseSeq[phase] \in States
BY DEF States, Phases

\* There is a first phase.
LEMMA SomePhase == 1 \in 1..Len(PhaseSeq) /\ Len(PhaseSeq) \in Nat
BY AgentStatusAssumption

\* The agent starts with nothing asked of it.
LEMMA InitIInv == Init => IInv
<1> SUFFICES ASSUME Init PROVE IInv
  OBVIOUS
<1>2. phase \in 1..Len(PhaseSeq)
  BY SomePhase DEF Init
<1>3. TypeOK
  BY <1>2, StatesKnown DEF Init, TypeOK, Points, Mishaps
<1>4. BeatRepeats /\ BootLooked /\ OffIsRemembered
  BY StatesKnown DEF Init, BeatRepeats, BootLooked, OffIsRemembered
<1> QED
  BY <1>3, <1>4 DEF IInv
-----------------------------------------------------------------------------
\* A read leaves the record, and a heartbeat that is due posts what was read.
LEMMA ReadStep ==
    ASSUME NEW seen, Read(seen), TypeOK
    PROVE  /\ srv' = srv /\ srv' \in States /\ beat' \in States \cup {"none"}
           /\ admin' = admin /\ wanted' = wanted /\ broken' = broken
           /\ mishap' \in Mishaps
BY DEF Read, TypeOK, Mishaps

\* A post writes a state, if it is one.
LEMMA PostStep ==
    ASSUME NEW posted \in States, Post(posted), TypeOK
    PROVE  /\ srv' \in States /\ beat' = beat /\ admin' = admin /\ wanted' = wanted
           /\ mishap' \in Mishaps
BY DEF Post, Write, TypeOK, Mishaps

\* No action writes a value of the wrong shape.
LEMMA TypeStep == TypeOK /\ [Next]_vars => TypeOK'
<1> SUFFICES ASSUME TypeOK, [Next]_vars PROVE TypeOK'
  OBVIOUS
<1> USE StatesKnown
<1>1. CASE Beat
  BY <1>1 DEF Beat, Write, TypeOK, Mishaps
<1>2. CASE Boot
  BY <1>2, ReadStep DEF Boot, TypeOK, At, Points
<1>3. CASE BootSet
  BY <1>3, PostStep DEF BootSet, TypeOK, At, Points
<1>4. CASE CheckInLoop
  BY <1>4, ReadStep DEF CheckInLoop, TypeOK, At, Points
<1>5. CASE CheckOffline
  <2>1. needsOffline' \in BOOLEAN
    BY <1>5 DEF CheckOffline, MustBeOff, TypeOK
  <2> QED
    BY <1>5, <2>1, ReadStep DEF CheckOffline, TypeOK, At, Points
<1>6. CASE CheckRestart
  BY <1>6, ReadStep DEF CheckRestart, TypeOK, At, Points
<1>7. CASE NoJob
  BY <1>7 DEF NoJob, TypeOK, At, Points
<1>8. CASE TakeJob
  BY <1>8, SomePhase DEF TakeJob, TypeOK, At, Points
<1>9. CASE LeaveJob
  BY <1>9 DEF LeaveJob, TypeOK, At, Points
<1>10. CASE LookForOffline
  <2>1. \/ UNCHANGED needsOffline
        \/ \E seen \in States \cup {"unknown"} : needsOffline' = MustBeOff(seen)
    BY <1>10 DEF LookForOffline
  <2>2. needsOffline' \in BOOLEAN
    BY <2>1 DEF TypeOK, MustBeOff
  <2>3. /\ srv' \in States /\ beat' \in States \cup {"none"}
        /\ admin' = admin /\ wanted' = wanted /\ broken' = broken
        /\ mishap' \in Mishaps
    <3>1. CASE needsOffline
      BY <1>10, <3>1 DEF LookForOffline, TypeOK
    <3>2. CASE ~needsOffline
      BY <1>10, <3>2, ReadStep DEF LookForOffline
    <3> QED
      BY <3>1, <3>2
  <2> QED
    BY <1>10, <2>2, <2>3 DEF LookForOffline, TypeOK, At, Points
<1>11. CASE LookForRestart
  <2>1. \/ UNCHANGED needsRestart
        \/ \E seen \in States \cup {"unknown"} : needsRestart' = MustRestart(seen)
    BY <1>11 DEF LookForRestart
  <2>2. needsRestart' \in BOOLEAN
    BY <2>1 DEF TypeOK, MustRestart
  <2>3. /\ srv' \in States /\ beat' \in States \cup {"none"}
        /\ admin' = admin /\ wanted' = wanted /\ broken' = broken
        /\ mishap' \in Mishaps
    <3>1. CASE needsRestart
      BY <1>11, <3>1 DEF LookForRestart, TypeOK
    <3>2. CASE ~needsRestart
      BY <1>11, <3>2, ReadStep DEF LookForRestart
    <3> QED
      BY <3>1, <3>2
  <2> QED
    BY <1>11, <2>2, <2>3 DEF LookForRestart, TypeOK, At, Points
<1>12. CASE AnnouncePhase
  BY <1>12, PostStep, PhaseIsState DEF AnnouncePhase, TypeOK, At, Points
<1>13. CASE EndPhase
  BY <1>13, SomePhase DEF EndPhase, TypeOK, At, Points
<1>14. CASE RecoveryFails
  BY <1>14 DEF RecoveryFails, TypeOK, At, Points
<1>15. CASE OfflineAfterRecovery
  <2>1. phase' \in 1..Len(PhaseSeq) /\ pc' \in {"ph_offline", "after"}
    BY <1>15, SomePhase DEF OfflineAfterRecovery, TypeOK
  <2> QED
    BY <1>15, <2>1, PostStep DEF OfflineAfterRecovery, TypeOK, At, Points
<1>16. CASE CheckAfterJob
  BY <1>16, ReadStep DEF CheckAfterJob, TypeOK, At, Points
<1>17. CASE WaitForNextJob
  BY <1>17, PostStep DEF WaitForNextJob, TypeOK, At, Points
<1>18. CASE GoOffline
  BY <1>18, PostStep DEF GoOffline, TypeOK, At, Points
<1>19. CASE GoRestart
  BY <1>19, PostStep DEF GoRestart, TypeOK, At, Points
<1>20. CASE RestartSignal
  BY <1>20 DEF RestartSignal, TypeOK
<1>21. CASE Crash
  BY <1>21 DEF Crash, TypeOK, Points, Mishaps
<1>22. CASE CommandFails
  BY <1>22 DEF CommandFails, TypeOK, agentVars
<1>23. CASE CommandWrites
  <2>1. admin \in Goals /\ wanted' = admin
    BY <1>23 DEF CommandWrites, TypeOK
  <2>2. mishap' \in Mishaps
    BY <1>23 DEF CommandWrites, Mishaps
  <2> QED
    BY <1>23, <2>1, <2>2, AgentStatusAssumption DEF CommandWrites, TypeOK, StatusFor, agentVars
<1>24. CASE \E goal \in Goals : CommandReads(goal)
  BY <1>24 DEF CommandReads, TypeOK, agentVars
<1>25. CASE UNCHANGED vars
  BY <1>25 DEF vars, agentVars, TypeOK
<1> QED
  BY <1>1, <1>2, <1>3, <1>4, <1>5, <1>6, <1>7, <1>8, <1>9, <1>10, <1>11, <1>12, <1>13, <1>14,
     <1>15, <1>16, <1>17, <1>18, <1>19, <1>20, <1>21, <1>22, <1>23, <1>24, <1>25
     DEF Next, Step

-----------------------------------------------------------------------------
\* Without a mishap, a read sees the record and a heartbeat repeats it.
LEMMA CalmRead ==
    ASSUME NEW seen, Read(seen)
    PROVE  /\ srv' = srv /\ wanted' = wanted /\ broken' = broken
           /\ mishap' # "failed" =>
                 seen = srv /\ mishap' = mishap /\ (beat' # "none" => beat' = srv')
BY DEF Read

\* Without a mishap, a post is done.
LEMMA CalmPost ==
    ASSUME NEW posted, Post(posted)
    PROVE  /\ wanted' = wanted /\ beat' = beat
           /\ mishap' # "failed" => srv' = posted /\ mishap' = mishap
BY DEF Post, Write

\* A command is executed where the agent reads the record next, or crosses it.
LEMMA CalmCommand ==
    ASSUME CommandWrites, TypeOK
    PROVE  /\ mishap' \in {"none", "killed"} => beat' = "none" /\ pc' \in Listening
           /\ wanted' \in Off \/ broken' => srv' \in Off
<1>1. admin \in {"online", "offline", "maintenance"}
  BY AgentStatusAssumption DEF CommandWrites, TypeOK
<1>2. mishap' \in {"none", "killed"} => beat' = "none" /\ pc' \in Listening
  BY DEF CommandWrites, agentVars
<1>3. wanted' \in Off \/ broken' => srv' \in Off
  BY <1>1 DEF CommandWrites, StatusFor, Off
<1> QED
  BY <1>2, <1>3

\* No step makes the agent forget that it shall be offline.
LEMMA OffStep == IInv /\ [Next]_vars => (BeatRepeats /\ BootLooked /\ OffIsRemembered)'
<1> SUFFICES ASSUME IInv, [Next]_vars PROVE (BeatRepeats /\ BootLooked /\ OffIsRemembered)'
  OBVIOUS
<1> USE StatesKnown
<1>0. TypeOK
  BY DEF IInv
<1>1. CASE Beat
  BY <1>1 DEF Beat, Write, IInv, BeatRepeats, BootLooked, OffIsRemembered, Cleared, Looked
<1>2. CASE Boot
  BY <1>2, <1>0, CalmRead
     DEF Boot, At, IInv, BeatRepeats, BootLooked, OffIsRemembered, Cleared, Looked, TypeOK
<1>3. CASE BootSet
  BY <1>3, CalmPost DEF BootSet, At, IInv, BeatRepeats, BootLooked, OffIsRemembered, Cleared, Looked
<1>4. CASE CheckInLoop
  BY <1>4, <1>0, CalmRead
     DEF CheckInLoop, At, IInv, BeatRepeats, BootLooked, OffIsRemembered, Cleared, Looked,
         MustBeOff
<1>5. CASE CheckOffline
  BY <1>5, <1>0, CalmRead
     DEF CheckOffline, At, IInv, BeatRepeats, BootLooked, OffIsRemembered, Cleared, Looked,
         MustBeOff
<1>6. CASE CheckRestart
  BY <1>6, <1>0, CalmRead
     DEF CheckRestart, At, IInv, BeatRepeats, BootLooked, OffIsRemembered, Cleared, Looked,
         TypeOK
<1>7. CASE NoJob
  BY <1>7 DEF NoJob, At, IInv, BeatRepeats, BootLooked, OffIsRemembered, Cleared, Looked
<1>8. CASE TakeJob
  BY <1>8 DEF TakeJob, At, IInv, BeatRepeats, BootLooked, OffIsRemembered, Cleared, Looked
<1>9. CASE LeaveJob
  BY <1>9 DEF LeaveJob, At, IInv, BeatRepeats, BootLooked, OffIsRemembered, Cleared, Looked
<1>10. CASE LookForOffline
  BY <1>10, <1>0, CalmRead
     DEF LookForOffline, At, IInv, BeatRepeats, BootLooked, OffIsRemembered, Cleared, Looked,
         MustBeOff
<1>11. CASE LookForRestart
  BY <1>11, <1>0, CalmRead
     DEF LookForRestart, At, IInv, BeatRepeats, BootLooked, OffIsRemembered, Cleared, Looked
<1>12. CASE AnnouncePhase
  BY <1>12, CalmPost
     DEF AnnouncePhase, At, IInv, BeatRepeats, BootLooked, OffIsRemembered, Cleared, Looked
<1>13. CASE EndPhase
  BY <1>13 DEF EndPhase, At, IInv, BeatRepeats, BootLooked, OffIsRemembered, Cleared, Looked
<1>14. CASE RecoveryFails
  BY <1>14 DEF RecoveryFails, At, IInv, BeatRepeats, BootLooked, OffIsRemembered, Cleared, Looked
<1>15. CASE OfflineAfterRecovery
  BY <1>15, CalmPost
     DEF OfflineAfterRecovery, At, IInv, BeatRepeats, BootLooked, OffIsRemembered, Cleared,
         Looked
<1>16. CASE CheckAfterJob
  BY <1>16, <1>0, CalmRead
     DEF CheckAfterJob, At, IInv, BeatRepeats, BootLooked, OffIsRemembered, Cleared, Looked,
         MustBeOff
<1>17. CASE WaitForNextJob
  BY <1>17, CalmPost
     DEF WaitForNextJob, At, IInv, BeatRepeats, BootLooked, OffIsRemembered, Cleared, Looked
<1>18. CASE GoOffline
  BY <1>18, CalmPost
     DEF GoOffline, At, IInv, BeatRepeats, BootLooked, OffIsRemembered, Cleared, Looked
<1>19. CASE GoRestart
  BY <1>19, CalmPost
     DEF GoRestart, At, IInv, BeatRepeats, BootLooked, OffIsRemembered, Cleared, Looked
<1>20. CASE RestartSignal
  BY <1>20 DEF RestartSignal, IInv, BeatRepeats, BootLooked, OffIsRemembered, Cleared, Looked
<1>21. CASE Crash
  BY <1>21 DEF Crash, BeatRepeats, BootLooked, OffIsRemembered
<1>22. CASE \E goal \in Goals : CommandReads(goal)
  BY <1>22
     DEF CommandReads, agentVars, IInv, BeatRepeats, BootLooked, OffIsRemembered, Cleared,
         Looked
<1>23. CASE CommandWrites
  BY <1>23, <1>0, CalmCommand
     DEF BeatRepeats, BootLooked, OffIsRemembered, Cleared, Looked, Listening
<1>24. CASE CommandFails
  BY <1>24
     DEF CommandFails, agentVars, IInv, BeatRepeats, BootLooked, OffIsRemembered, Cleared,
         Looked
<1>25. CASE UNCHANGED vars
  BY <1>25 DEF vars, agentVars, IInv, BeatRepeats, BootLooked, OffIsRemembered, Cleared, Looked
<1> QED
  BY <1>1, <1>2, <1>3, <1>4, <1>5, <1>6, <1>7, <1>8, <1>9, <1>10, <1>11, <1>12, <1>13, <1>14,
     <1>15, <1>16, <1>17, <1>18, <1>19, <1>20, <1>21, <1>22, <1>23, <1>24, <1>25
     DEF Next, Step

-----------------------------------------------------------------------------
\* No interleaving of the agent, its administrators and crashes writes a value
\* of the wrong shape.
THEOREM StatusTypeCorrect == Spec => []TypeOK
<1>1. Init => TypeOK
  BY InitIInv DEF IInv
<1> QED
  BY <1>1, TypeStep, PTL DEF Spec

\* The invariant holds, for any phases and goals.
LEMMA RememberingInvariant == Spec => []IInv
<1>1. IInv /\ [Next]_vars => IInv'
  BY TypeStep, OffStep DEF IInv
<1> QED
  BY <1>1, InitIInv, PTL DEF Spec

\* The record says that the agent shall be offline, or the agent remembers it.
THEOREM OfflineRemembered == Spec => []OfflineIsKept
<1>1. IInv => OfflineIsKept
  BY DEF IInv, OffIsRemembered, OfflineIsKept
<1> QED
  BY <1>1, RememberingInvariant, PTL

\* No job is asked for, and taken, by an agent that shall be offline.
THEOREM NoJobTakenWhenOff == Spec => NoJobWhenOff
<1>1. IInv => [TakeJob /\ mishap = "none" => wanted \notin Off]_vars
  BY DEF IInv, OffIsRemembered, Cleared, TakeJob, At
<1> QED
  BY <1>1, RememberingInvariant, PTL DEF NoJobWhenOff

\* Nor by one whose device could not be recovered.
THEOREM NoJobTakenWhenBroken == Spec => NoJobWhenBroken
<1>1. IInv => [TakeJob /\ mishap = "none" => ~broken]_vars
  BY DEF IInv, OffIsRemembered, Cleared, TakeJob, At
<1> QED
  BY <1>1, RememberingInvariant, PTL DEF NoJobWhenBroken

\* A restart waits until the agent may be online.
THEOREM RestartDeferred == Spec => RestartIsDeferred
<1>1. IInv => [GoRestart /\ mishap = "none" => wanted \notin Off]_vars
  BY DEF IInv, OffIsRemembered, Cleared, GoRestart, At
<1> QED
  BY <1>1, RememberingInvariant, PTL DEF RestartIsDeferred

\* An agent that comes up, after a kill too, leaves "offline" in its record.
THEOREM OfflineAtStartup == Spec => StartupKeepsOffline
<1>1. IInv => [BootSet /\ mishap \in {"none", "killed"} => srv # "offline"]_vars
  BY DEF IInv, BootLooked, BootSet, At
<1> QED
  BY <1>1, RememberingInvariant, PTL DEF StartupKeepsOffline

-----------------------------------------------------------------------------
(***************************************************************************)
(* The outcome of a finished job is never lost, whatever fails, and        *)
(* neither are its artifacts unless the connection to the server fails     *)
(* while they are uploaded.                                                *)
(***************************************************************************)
\* The points at which the agent transmits the job cur.
Sending == {"read", "artifacts", "discard", "outcome", "unlink", "remove"}

\* What is tried is finished, and nothing that is tried is taken over.
Busy ==
    /\ spot \in Sending \cup {"work"} => cur \in Jobs
    /\ spot = "work" => state[cur] = "running" /\ {"job", "outcome"} \subseteq files[cur]
    /\ spot \in Sending => state[cur] = "finished"
    /\ \A j \in Jobs : j \in todo => place[j] = "results"
    /\ \A j \in Jobs : place[j] = "results" => state[j] = "finished"

\* The outcome is removed only when the server has it.
Posted == spot \in {"unlink", "remove"} => cur \in delivered

OutcomeInv == TransmissionTypeOK /\ Busy /\ Posted /\ OutcomeIsKept

\* The artifacts are past only when the server has them, or an OSError came up.
Uploaded ==
    /\ \A j \in made : state[j] = "finished"
    /\ spot \in {"discard", "outcome", "unlink", "remove"} /\ cur \in made =>
          cur \in uploaded \cup cut

ArtifactsInv == OutcomeInv /\ Uploaded /\ ArtifactsAreKept

-----------------------------------------------------------------------------
\* The agent starts with no job.
LEMMA InitInvs == TransmissionInit => ArtifactsInv
<1> SUFFICES ASSUME TransmissionInit PROVE ArtifactsInv
  OBVIOUS
<1>1. TransmissionTypeOK
  BY DEF TransmissionInit, TransmissionTypeOK, Spots, Places
<1>2. Busy /\ Posted /\ OutcomeIsKept /\ Uploaded /\ ArtifactsAreKept
  BY <1>1 DEF TransmissionInit, TransmissionTypeOK, Busy, Sending, Posted, OutcomeIsKept, Uploaded, ArtifactsAreKept
<1> QED
  BY <1>1, <1>2 DEF ArtifactsInv, OutcomeInv

\* No action writes a value of the wrong shape.
LEMMA TransmissionTypeStep == TransmissionTypeOK /\ Busy /\ [TransmissionNext]_transmission => TransmissionTypeOK'
<1> SUFFICES ASSUME TransmissionTypeOK, Busy, [TransmissionNext]_transmission PROVE TransmissionTypeOK'
  OBVIOUS
<1> USE DEF TransmissionTypeOK, Busy, Spots, Places, Files, Sending, agent, disk, work, there
<1>1. CASE StartPass
  BY <1>1 DEF StartPass
<1>2. CASE RetryNext
  BY <1>2 DEF RetryNext
<1>3. CASE NothingToDo
  BY <1>3 DEF NothingToDo
<1>4. CASE ReceiveJob
  BY <1>4 DEF ReceiveJob
<1>5. CASE FinishJob
  BY <1>5 DEF FinishJob
<1>6. CASE ReadJob
  BY <1>6 DEF ReadJob, Return, Retrying
<1>7. CASE NoArtifacts
  BY <1>7 DEF NoArtifacts, Goto
<1>8. CASE UploadArtifacts
  BY <1>8 DEF UploadArtifacts, Goto
<1>9. CASE UploadRefused
  BY <1>9 DEF UploadRefused, ServerError, Return, Retrying
<1>10. CASE UploadInterrupted
  BY <1>10 DEF UploadInterrupted, Goto
<1>10a. CASE PackingFails
  BY <1>10a DEF PackingFails, Goto
<1>11. CASE DiscardArtifacts
  BY <1>11 DEF DiscardArtifacts, Goto
<1>12. CASE NoOutcome
  BY <1>12 DEF NoOutcome, Goto
<1>13. CASE PostOutcome
  BY <1>13 DEF PostOutcome, Goto
<1>14. CASE PostFails
  BY <1>14 DEF PostFails, ServerError, Return, Retrying
<1>15. CASE PostUnanswered
  BY <1>15 DEF PostUnanswered, Return, Retrying
<1>16. CASE Unlink
  BY <1>16 DEF Unlink, Goto
<1>17. CASE RemoveDirectory
  BY <1>17 DEF RemoveDirectory, Return, Retrying
<1>18. CASE RemoveFails
  BY <1>18 DEF RemoveFails, Return, Retrying
<1>19. CASE KillAgent
  <2>1. CASE spot = "remove"
    <3>1. PICK left \in SUBSET files[cur] : files' = [files EXCEPT ![cur] = left]
      BY <1>19, <2>1 DEF KillAgent
    <3>2. cur \in Jobs
      BY <2>1
    <3>3. files' \in [Jobs -> SUBSET Files]
      BY <3>1, <3>2
    <3>4. \A j \in Jobs : place[j] = "none" => files'[j] = {}
      BY <3>1, <3>2
    <3> QED
      BY <1>19, <3>3, <3>4 DEF KillAgent
  <2>2. CASE spot # "remove"
    BY <1>19, <2>2 DEF KillAgent
  <2> QED
    BY <2>1, <2>2
<1>20. CASE Recycle
  BY <1>20 DEF Recycle
<1>21. CASE UNCHANGED transmission
  BY <1>21 DEF transmission
<1> HIDE DEF TransmissionTypeOK, Busy, Spots, Places, Files, Sending, agent, disk, work, there
<1> QED
  BY <1>1, <1>2, <1>3, <1>4, <1>5, <1>6, <1>7, <1>8, <1>9, <1>10, <1>10a, <1>11, <1>12, <1>13,
     <1>14, <1>15, <1>16, <1>17, <1>18, <1>19, <1>20, <1>21 DEF TransmissionNext, AgentStep

\* No action gives up a directory that is to be tried, or a file that is needed.
LEMMA OutcomeStep == OutcomeInv /\ [TransmissionNext]_transmission => Busy' /\ Posted' /\ OutcomeIsKept'
<1> SUFFICES ASSUME OutcomeInv, [TransmissionNext]_transmission PROVE Busy' /\ Posted' /\ OutcomeIsKept'
  OBVIOUS
<1> USE DEF OutcomeInv, TransmissionTypeOK, Busy, Posted, OutcomeIsKept, Sending, agent, disk, work, there
<1>1. CASE StartPass
  BY <1>1 DEF StartPass
<1>2. CASE RetryNext
  BY <1>2 DEF RetryNext
<1>3. CASE NothingToDo
  BY <1>3 DEF NothingToDo
<1>4. CASE ReceiveJob
  BY <1>4 DEF ReceiveJob
<1>5. CASE FinishJob
  BY <1>5 DEF FinishJob
<1>6. CASE ReadJob
  BY <1>6 DEF ReadJob, Return, Retrying
<1>7. CASE NoArtifacts
  BY <1>7 DEF NoArtifacts, Goto
<1>8. CASE UploadArtifacts
  BY <1>8 DEF UploadArtifacts, Goto
<1>9. CASE UploadRefused
  BY <1>9 DEF UploadRefused, ServerError, Return, Retrying
<1>10. CASE UploadInterrupted
  BY <1>10 DEF UploadInterrupted, Goto
<1>10a. CASE PackingFails
  BY <1>10a DEF PackingFails, Goto
<1>11. CASE DiscardArtifacts
  BY <1>11 DEF DiscardArtifacts, Goto
<1>12. CASE NoOutcome
  BY <1>12 DEF NoOutcome, Goto
<1>13. CASE PostOutcome
  BY <1>13 DEF PostOutcome, Goto
<1>14. CASE PostFails
  BY <1>14 DEF PostFails, ServerError, Return, Retrying
<1>15. CASE PostUnanswered
  BY <1>15 DEF PostUnanswered, Return, Retrying
<1>16. CASE Unlink
  BY <1>16 DEF Unlink, Goto
<1>17. CASE RemoveDirectory
  BY <1>17 DEF RemoveDirectory, Return, Retrying
<1>18. CASE RemoveFails
  BY <1>18 DEF RemoveFails, Return, Retrying
<1>19. CASE KillAgent
  BY <1>19 DEF KillAgent
<1>20. CASE Recycle
  BY <1>20 DEF Recycle
<1>21. CASE UNCHANGED transmission
  BY <1>21 DEF transmission
<1> QED
  BY <1>1, <1>2, <1>3, <1>4, <1>5, <1>6, <1>7, <1>8, <1>9, <1>10, <1>10a, <1>11, <1>12, <1>13,
     <1>14, <1>15, <1>16, <1>17, <1>18, <1>19, <1>20, <1>21 DEF TransmissionNext, AgentStep

\* No step leaves artifacts behind, but the one that is interrupted.
LEMMA ArtifactsStep == ArtifactsInv /\ [TransmissionNext]_transmission => Uploaded' /\ ArtifactsAreKept'
<1> SUFFICES ASSUME ArtifactsInv, [TransmissionNext]_transmission PROVE Uploaded' /\ ArtifactsAreKept'
  OBVIOUS
<1> USE DEF ArtifactsInv, OutcomeInv, TransmissionTypeOK, Busy, Sending, Uploaded, ArtifactsAreKept, agent, disk, work, there
<1>1. CASE StartPass
  BY <1>1 DEF StartPass
<1>2. CASE RetryNext
  BY <1>2 DEF RetryNext
<1>3. CASE NothingToDo
  BY <1>3 DEF NothingToDo
<1>4. CASE ReceiveJob
  BY <1>4 DEF ReceiveJob
<1>5. CASE FinishJob
  BY <1>5 DEF FinishJob
<1>6. CASE ReadJob
  BY <1>6 DEF ReadJob, Return, Retrying
<1>7. CASE NoArtifacts
  BY <1>7 DEF NoArtifacts, Goto
<1>8. CASE UploadArtifacts
  BY <1>8 DEF UploadArtifacts, Goto
<1>9. CASE UploadRefused
  BY <1>9 DEF UploadRefused, ServerError, Return, Retrying
<1>10. CASE UploadInterrupted
  BY <1>10 DEF UploadInterrupted, Goto
<1>10a. CASE PackingFails
  BY <1>10a DEF PackingFails, Goto
<1>11. CASE DiscardArtifacts
  BY <1>11 DEF DiscardArtifacts, Goto
<1>12. CASE NoOutcome
  BY <1>12 DEF NoOutcome, Goto
<1>13. CASE PostOutcome
  BY <1>13 DEF PostOutcome, Goto
<1>14. CASE PostFails
  BY <1>14 DEF PostFails, ServerError, Return, Retrying
<1>15. CASE PostUnanswered
  BY <1>15 DEF PostUnanswered, Return, Retrying
<1>16. CASE Unlink
  BY <1>16 DEF Unlink, Goto
<1>17. CASE RemoveDirectory
  BY <1>17 DEF RemoveDirectory, Return, Retrying
<1>18. CASE RemoveFails
  BY <1>18 DEF RemoveFails, Return, Retrying
<1>19. CASE KillAgent
  BY <1>19 DEF KillAgent
<1>20. CASE Recycle
  BY <1>20 DEF Recycle
<1>21. CASE UNCHANGED transmission
  BY <1>21 DEF transmission
<1> QED
  BY <1>1, <1>2, <1>3, <1>4, <1>5, <1>6, <1>7, <1>8, <1>9, <1>10, <1>10a, <1>11, <1>12, <1>13,
     <1>14, <1>15, <1>16, <1>17, <1>18, <1>19, <1>20, <1>21 DEF TransmissionNext, AgentStep

-----------------------------------------------------------------------------
\* The strengthened invariant holds in every reachable state.
LEMMA InvariantHolds == TransmissionSpec => []OutcomeInv
<1>1. TransmissionInit => OutcomeInv
  BY InitInvs DEF ArtifactsInv
<1>2. OutcomeInv /\ [TransmissionNext]_transmission => OutcomeInv'
  BY TransmissionTypeStep, OutcomeStep DEF OutcomeInv
<1> QED
  BY <1>1, <1>2, PTL DEF TransmissionSpec

\* Every variable keeps its type.
THEOREM TransmissionTypeCorrect == TransmissionSpec => []TransmissionTypeOK
<1>1. OutcomeInv => TransmissionTypeOK
  BY DEF OutcomeInv
<1> QED
  BY <1>1, InvariantHolds, PTL

\* For any number of jobs, and with refused requests, failing connections and
\* removals and kills of the agent in any order: transmit_job_outcome and
\* retry_old_results never lose the outcome of a finished job.
THEOREM OutcomesAreKept == TransmissionSpec => []OutcomeIsKept
<1>1. OutcomeInv => OutcomeIsKept
  BY DEF OutcomeInv
<1> QED
  BY <1>1, InvariantHolds, PTL

\* Nor do they lose the artifacts of a job whose upload met no dead connection.
THEOREM ArtifactsKept == TransmissionSpec => []ArtifactsAreKept
<1>1. TransmissionInit => ArtifactsInv
  BY InitInvs
<1>2. ArtifactsInv /\ [TransmissionNext]_transmission => ArtifactsInv'
  BY TransmissionTypeStep, OutcomeStep, ArtifactsStep DEF ArtifactsInv, OutcomeInv
<1>3. ArtifactsInv => ArtifactsAreKept
  BY DEF ArtifactsInv
<1> QED
  BY <1>1, <1>2, <1>3, PTL DEF TransmissionSpec
=============================================================================
