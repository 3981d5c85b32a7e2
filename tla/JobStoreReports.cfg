\* One job with attachments: posts are repeated and stored late, handlers and
\* the agent may be killed, and the document may expire.
SPECIFICATION Spec
CONSTANTS
    Docs = {1}
    JobIds = {j1}
    Agents = {a1}
    Workers = {w1, w2}
    Phases = {"test"}
    Submissions <- OneJobWithFiles
    Queues = {q}
    Serves <- MCServes
    Expirable = {1}
    Crashes = TRUE
    Timeouts = TRUE
    None = None
    j1 = j1  j2 = j2  a1 = a1  a2 = a2  q = q
    w1 = w1  w2 = w2
SYMMETRY WorkerSymmetry
INVARIANTS LoggedOnce DispatchAllowed
