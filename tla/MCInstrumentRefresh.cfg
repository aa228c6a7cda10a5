CONSTANTS
    i1 = i1
    i2 = i2
    r1 = r1
    r2 = r2
    NoQuote = NoQuote
    NoIsin = NoIsin
    NoCalendar = NoCalendar
    Isins = {i1, i2}
    Requests = {r1, r2}
    Quotes <- MCQuotes
    Calendars <- MCCalendars
    MaxClock = 6
SPECIFICATION RefreshSpec
SYMMETRY Symmetric
INVARIANTS TypeOK RowFollowsNewestSnapshot RefusalsAreExplained  FailureMarksItsOwn
PROPERTY ImplementsMarketData
CONSTRAINT Followed
