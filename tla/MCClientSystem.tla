--------------------------- MODULE MCClientSystem ---------------------------
(***************************************************************************)
(* Instances of ClientSystem for TLC.                                      *)
(***************************************************************************)
EXTENDS ClientSystem

CONSTANTS r1, r2

\* Two phases, either of which may be skipped.
TwoPhases == <<"provision", "test">>

\* One terminal submits a job with attachments; the other submits one without,
\* or does something with the first job.
MCDoes == [r \in Runs |-> IF r = r1 THEN {"submit_attachments"}
                                    ELSE Commands \ {"submit_attachments"}]
=============================================================================
