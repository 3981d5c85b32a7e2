----------------------------- MODULE MCAgentJob -----------------------------
(***************************************************************************)
(* Instances of AgentJob for TLC.                                          *)
(***************************************************************************)
EXTENDS AgentJob

\* The phases, as process_jobs lists them.
AllPhaseSeq == <<"setup", "provision", "firmware_update", "test", "allocate", "reserve">>

\* One phase of each kind: one that is not configured, one without cancellation,
\* one without abortion, one for a parent job, one without a timeout.
FivePhases == <<"setup", "provision", "test", "allocate", "reserve">>
=============================================================================
