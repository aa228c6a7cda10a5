SPECIFICATION FairSpec
CONSTANTS
    i1 = i1
    i2 = i2
    w1 = w1
    w2 = w2
    r1 = r1
    r2 = r2
    Rows = {w1}
    Isins = {i1,i2}
    BadIsin = BadIsin
    Blank = Blank
    Runs = {r1}
    StatusColumn = FALSE
    Retries = 2
    MaxQuotes = 2
    MaxStarts = 2
    MaxEdits = 2
    ConcurrentEdits = FALSE
    LateArrivals = TRUE
PROPERTY NeverOlder
PROPERTY RunEnds
CHECK_DEADLOCK FALSE
