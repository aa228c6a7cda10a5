CONSTANTS
    Connections = {c1}
    NoConnection = NoConnection
    Handlers = {h1}
    Workers = {w1, w2}
    MaxJobs = 3
    MaxAttempts = 2
    MaxCrashes = 1
    c1 = c1
    h1 = h1
    w1 = w1
    w2 = w2
SPECIFICATION Spec
SYMMETRY ActorSymmetry
INVARIANTS SingleRunner AttemptDiscipline OrphansComeFromCrashes
PROPERTIES TerminalIsFinal ImplementsLease
