CONSTANTS
    Connections = {c1}
    NoConnection = NoConnection
    Handlers = {h1}
    Workers = {w1}
    MaxJobs = 2
    MaxAttempts = 2
    MaxCrashes = 1
    c1 = c1
    h1 = h1
    w1 = w1
SPECIFICATION FairSpec
PROPERTY DueIsAttempted
