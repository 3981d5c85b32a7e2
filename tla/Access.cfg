\* The four parts of AccessSystem, each on its own.
SPECIFICATION Spec
CONSTANTS
    Clients = {c1, c2}
    NoClient = NoClient
    OidcClients = {c2}
    Queues = {q}
    Commands = {1, 2}
    Managers = {m}
    Tokens = {0, 1, 2, 3, 4}
    NoToken = NoToken
    MaxChanges = 2
    MaxFailures = 1
    MaxCommands = 2
    Handlers = {h1, h2}
    MaxWrites = 2
    MaxJobs = 3
    MaxErrors = 1
    Agents = {a1, a2}
    Ports = {1, 2, 3, 4}
    Dirs = {d1, d2}
    MaxEdits = 1
    MaxCrashes = 1
INVARIANTS SingleUse
PROPERTIES WithdrawalsTakeEffect SignInEnds RunningJobsSurvive
CHECK_DEADLOCK FALSE
