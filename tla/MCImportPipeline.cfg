SPECIFICATION FairSpec
CONSTANTS
    o1 = o1
    o2 = o2
    xlsx = xlsx
    xls = xls
    bad = bad
    u1 = u1
    u2 = u2
    r1 = r1
    r2 = r2
    Owners = {o1,o2}
    Contents = {xlsx,xls,bad}
    Readable = {xlsx,xls}
    Files <- MCFiles
    Uploads = {u1,u2}
    Requests = {r1,r2}
    NoOwner = NoOwner
    NoContent = NoContent
    NoUpload = NoUpload
    NoAmount = NoAmount
INVARIANT ImportedOnce
INVARIANT BatchesAreOwned
INVARIANT StatusExplained
INVARIANT RowsHaveObjects
INVARIANT OrphansComeFromFaults
INVARIANT EveryRowIsAnswered
INVARIANT LotsAreTyped
INVARIANT MistypedDigitsAreRefused
PROPERTY RequestsEnd
PROPERTY ImplementsLedger
