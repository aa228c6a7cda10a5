CONSTANTS
    i1 = i1
    other = other
    l1 = l1
    r1 = r1
    r2 = r2
    why = why
    NoReason = NoReason
    NoLot = NoLot
    NoYield = NoYield
    NoAmount = NoAmount
    NoDay = NoDay
    Isins = {i1}
    LotIds = {l1}
    Requests = {r1, r2}
    Answers <- MCAnswers
    Quotes <- MCQuotes
    Calendars <- MCCalendars
    Purchases <- MCPurchases
    Targets <- MCTargets
    Days <- MCDays
    Prices = {1010}
    Reasons = {why}
    Patches <- MCPatches
    MaxRequests = 2
    MaxClock = 3
SPECIFICATION LotSpec
SYMMETRY Symmetric
INVARIANTS TypeOK YieldIsPerBond OverrideIsExplained SheetFollowsCalendar PortfolioAgreesWithSheet PrincipalIsPaidOnce QuoteIsNotOlder
