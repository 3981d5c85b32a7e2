\* Two units and two keys: the key is set, changed, and changed again or the
\* leader moves; two steps fail
SPECIFICATION FairSpec
CONSTANTS
    Units = {u1, u2}
    Keys = {k1, k2}
    NoKey = NoKey
    MaxChanges = 3
    MaxFailures = 2
INVARIANTS NoKeyIsLost RetryWorks
PROPERTY ChangesSettle
CHECK_DEADLOCK FALSE
