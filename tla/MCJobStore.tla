----------------------------- MODULE MCJobStore -----------------------------
(***************************************************************************)
(* Instances of JobStore for TLC.                                          *)
(***************************************************************************)
EXTENDS JobStore, TLC

CONSTANTS j1, j2, a1, a2, q

Job(id, exclude, prio, att) ==
    [id |-> id, queue |-> q, exclude |-> exclude, prio |-> prio, att |-> att]

MCServes == [a \in Agents |-> {q}]

\* Two jobs, the second one urgent and not for a1.
TwoJobs == {Job(j1, {}, 0, "none"), Job(j2, {a1}, 1, "none")}

\* One job that comes with attachments.
OneJobWithFiles == {Job(j1, {}, 0, "waiting")}

WorkerSymmetry == Permutations(Workers)
=============================================================================
