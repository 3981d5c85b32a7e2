--------------------------- MODULE MCAgentStatus ---------------------------
(***************************************************************************)
(* Instances of AgentStatus for TLC.                                       *)
(***************************************************************************)
EXTENDS AgentStatus

\* A failed recovery in the test phase does not end the job.
ThreePhases == <<"provision", "test", "reserve">>
=============================================================================
