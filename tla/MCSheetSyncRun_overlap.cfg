SPECIFICATION Spec
CONSTANTS
    i1 = i1
    i2 = i2
    w1 = w1
    w2 = w2
    r1 = r1
    r2 = r2
    Rows = {w1,w2}
    Isins = {i1,i2}
    BadIsin = BadIsin
    Blank = Blank
    Runs = {r1,r2}
    StatusColumn = TRUE
    Retries = 2
    MaxQuotes = 1
    MaxStarts = 2
    MaxEdits = 1
    ConcurrentEdits = FALSE
    LateArrivals = FALSE
SYMMETRY Symmetry
INVARIANT SheetAgrees
PROPERTY InputsKept
CHECK_DEADLOCK FALSE
