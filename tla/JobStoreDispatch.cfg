\* Two jobs of different priority, one of them not for a1, with one job_id or two;
\* two agents that repeat their requests, two handlers at a time.
SPECIFICATION Spec
CONSTANTS
    Docs = {1, 2}
    JobIds = {j1, j2}
    Agents = {a1, a2}
    Workers = {w1, w2}
    Phases = {}
    Submissions <- TwoJobs
    Queues = {q}
    Serves <- MCServes
    Expirable = {}
    Crashes = FALSE
    Timeouts = TRUE
    None = None
    j1 = j1  j2 = j2  a1 = a1  a2 = a2  q = q
    w1 = w1  w2 = w2
SYMMETRY WorkerSymmetry
INVARIANTS ExclusiveDispatch AssignmentsAreReal LoggedOnce
PROPERTIES ImplementsDispatch
