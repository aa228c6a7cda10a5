---------------------------- MODULE SheetSyncRun ----------------------------
(***************************************************************************)
(* What one run of SheetSyncService.execute does to the worksheet of a     *)
(* connection: it reads the rows, refreshes each ISIN through MOEX, builds *)
(* a list of cell updates from what it read, and posts them in one         *)
(* values:batchUpdate that the client repeats when no answer comes.        *)
(*                                                                         *)
(* Runs of one connection overlap when several workers serve the queue,    *)
(* and the user goes on editing the worksheet.  Cells are abstracted to    *)
(* what they hold and who put it there, and the columns written together   *)
(* are one cell: the price, AD and the quotation time are `price', the     *)
(* paid coupons AE and AF are `coupons', and AG..AK, which only a finished *)
(* calculation fills, are `figures'.                                       *)
(***************************************************************************)
EXTENDS Integers, FiniteSets

CONSTANTS
    Rows,             \* data rows of the worksheet
    Isins,            \* texts normalize_isin accepts
    BadIsin,          \* a text it refuses
    Blank,            \* an empty cell
    Runs,             \* executions that may be open at one time
    StatusColumn,     \* the connection names a status column
    Retries,          \* google_sheets.retries
    MaxQuotes,        \* bound: versions of the market data of an ISIN
    MaxStarts,        \* bound: runs started
    MaxEdits,         \* bound: edits of the user
    ConcurrentEdits,  \* the user edits while a run is open
    LateArrivals      \* a post given up by the client may still be applied later

ASSUME CellsAssumption ==
    /\ BadIsin \notin Isins
    /\ Blank \notin Isins \union {BadIsin, "user", "unreadable", "default", "fixed"}
    /\ \A i \in Isins, v \in 1..MaxQuotes : Blank # <<i, v>>
ASSUME OptionsAssumption ==
    /\ StatusColumn \in BOOLEAN
    /\ ConcurrentEdits \in BOOLEAN
    /\ LateArrivals \in BOOLEAN
ASSUME LimitsAssumption ==
    /\ Retries \in Nat \ {0} /\ MaxQuotes \in Nat \ {0}
    /\ MaxStarts \in Nat /\ MaxEdits \in Nat

VARIABLES
    isin,        \* row -> content of the ISIN column
    commission,  \* row -> who filled column L
    accrued,     \* row -> who filled column J
    out,         \* row -> the columns the application writes
    market,      \* ISIN -> current version of its market data
    pc,          \* run -> where execute stands
    snap,        \* run -> the input cells it read
    pending,     \* run -> ISINs it has still to refresh
    quote,       \* run -> ISIN -> what the refresh returned
    batch,       \* run -> the cell updates it built
    tries,       \* run -> posts without an answer
    late,        \* batches given up by the client and still on their way
    starts,      \* runs started so far
    edits        \* edits made so far

inputVars  == <<isin, commission, accrued>>
sheetVars  == <<inputVars, out>>
runVars    == <<pc, snap, pending, quote, batch, tries>>
worldVars  == <<market, starts, edits>>
vars       == <<sheetVars, runVars, late, worldVars>>

Versions == 1..MaxQuotes
NoOffer  == 0    \* the market data holds no offer (or no bid, by price mode)
Failed   == -1   \* the refresh raised
Unknown  == -2   \* not refreshed yet
Quotes   == Versions \union {NoOffer, Failed, Unknown}
Shown    == {<<i, v>> : i \in Isins, v \in Versions} \union {Blank}
Results  == [price : Shown, coupons : Isins \union {Blank}, figures : Shown,
             verdict : {"none", "calculated", "reason", "error", "invalid"},
             mark : {"none", "ok", "error", "invalid"}]
Cells    == [isin : [Rows -> Isins \union {BadIsin, Blank}],
             commission : [Rows -> {Blank, "user", "unreadable", "default"}],
             accrued : [Rows -> {Blank, "user", "fixed"}]]
Batches  == [defaults : SUBSET Rows, fixes : SUBSET Rows,
             rewritten : SUBSET Rows, results : [Rows -> Results],
             invalid : SUBSET Rows]

Inputs ==
    [isin |-> isin, commission |-> commission, accrued |-> accrued]

Empty      == [price |-> Blank, coupons |-> Blank, figures |-> Blank,
               verdict |-> "none", mark |-> "none"]
NoCells    == [isin |-> [w \in Rows |-> Blank], commission |-> [w \in Rows |-> Blank],
               accrued |-> [w \in Rows |-> Blank]]
EmptyBatch == [defaults |-> {}, fixes |-> {}, rewritten |-> {},
               results |-> [w \in Rows |-> Empty], invalid |-> {}]

TypeOK ==
    /\ Inputs \in Cells
    /\ out \in [Rows -> Results]
    /\ market \in [Isins -> Versions]
    /\ pc \in [Runs -> {"idle", "read", "refresh", "post", "commit"}]
    /\ snap \in [Runs -> Cells]
    /\ pending \in [Runs -> SUBSET Isins]
    /\ quote \in [Runs -> [Isins -> Quotes]]
    /\ batch \in [Runs -> Batches]
    /\ tries \in [Runs -> 0..(Retries - 1)]
    /\ late \subseteq Batches
    /\ starts \in 0..MaxStarts
    /\ edits \in 0..MaxEdits

Init ==
    /\ isin \in [Rows -> Isins \union {BadIsin, Blank}]
    /\ commission = [w \in Rows |-> Blank]
    /\ accrued = [w \in Rows |-> Blank]
    /\ out = [w \in Rows |-> Empty]
    /\ market = [i \in Isins |-> 1]
    /\ pc = [r \in Runs |-> "idle"]
    /\ snap = [r \in Runs |-> NoCells]
    /\ pending = [r \in Runs |-> {}]
    /\ quote = [r \in Runs |-> [i \in Isins |-> Unknown]]
    /\ batch = [r \in Runs |-> EmptyBatch]
    /\ tries = [r \in Runs |-> 0]
    /\ late = {}
    /\ starts = 0
    /\ edits = 0

-----------------------------------------------------------------------------
(* The cell updates of a run, from the cells it read and its quotes. *)

ValidRows(cells)   == {w \in Rows : cells.isin[w] \in Isins}
InvalidRows(cells) == {w \in Rows : cells.isin[w] = BadIsin}

Refreshed(r) == {w \in ValidRows(snap[r]) : quote[r][snap[r].isin[w]] # Failed}

\* Mutant of DefaultsFor: a text that is no number counts as empty.
DefaultsForUnreadable(r) ==
    {w \in Refreshed(r) : snap[r].commission[w] \in {Blank, "unreadable"}}

\* L is empty: the default commission goes in.
DefaultsFor(r) == {w \in Refreshed(r) : snap[r].commission[w] = Blank}

\* J is empty: what MOEX History answered for the date in E goes in.  On which
\* rows E holds a date and MOEX answers is left open: answered.
FixesFor(r, answered) ==
    {w \in Refreshed(r) \intersect answered :
        /\ snap[r].commission[w] # "unreadable"
        /\ snap[r].accrued[w] = Blank}

\* J and L hold numbers when the row is read or after this run has filled them,
\* and parse_sheet_purchase accepts what E, H, I, J and L say; on which rows it
\* does is left open: parsed.
Purchased(r, w, answered, parsed) ==
    /\ snap[r].commission[w] # "unreadable"
    /\ snap[r].accrued[w] # Blank \/ w \in FixesFor(r, answered)
    /\ w \in parsed

\* Without a purchase the row gets a reason and nothing else.  With one it gets
\* its paid coupons before anything is asked of the market data; the figures
\* come only if there is an offer and the calculation succeeds, which depends on
\* the accrued interest, the cash flows and the dates: usable.
ResultFor(r, w, answered, parsed, usable) ==
    LET i == snap[r].isin[w]
        q == quote[r][i]
        shown == IF q \in Versions THEN <<i, q>> ELSE Blank
        purchased == Purchased(r, w, answered, parsed)
        calculated == purchased /\ q \in Versions /\ w \in usable
    IN  IF q = Failed
          THEN [price |-> Blank, coupons |-> Blank, figures |-> Blank,
                verdict |-> "error", mark |-> IF StatusColumn THEN "error" ELSE "none"]
          ELSE [price |-> shown,
                coupons |-> IF purchased THEN i ELSE Blank,
                figures |-> IF calculated THEN shown ELSE Blank,
                verdict |-> IF calculated THEN "calculated" ELSE "reason",
                mark |-> IF StatusColumn THEN "ok" ELSE "none"]

BatchFor(r, answered, parsed, usable) ==
    [defaults  |-> DefaultsFor(r),
     fixes     |-> FixesFor(r, answered),
     rewritten |-> ValidRows(snap[r]),
     results   |-> [w \in Rows |-> IF w \in ValidRows(snap[r])
                                     THEN ResultFor(r, w, answered, parsed, usable)
                                     ELSE Empty],
     invalid   |-> IF StatusColumn THEN InvalidRows(snap[r]) ELSE {}]

\* values:batchUpdate is applied as a whole, by row number.
Apply(b) ==
    /\ commission' = [w \in Rows |-> IF w \in b.defaults THEN "default" ELSE commission[w]]
    /\ accrued' = [w \in Rows |-> IF w \in b.fixes THEN "fixed" ELSE accrued[w]]
    /\ out' = [w \in Rows |->
                 IF w \in b.rewritten THEN b.results[w]
                 ELSE IF w \in b.invalid
                   THEN [out[w] EXCEPT !.verdict = "invalid", !.mark = "invalid"]
                   ELSE out[w]]
    /\ UNCHANGED isin

-----------------------------------------------------------------------------
(* SheetSyncService.execute *)

\* The connection is loaded, the worksheet looked up.
StartRun(r) ==
    /\ pc[r] = "idle"
    /\ starts < MaxStarts
    /\ starts' = starts + 1
    /\ pc' = [pc EXCEPT ![r] = "read"]
    /\ UNCHANGED <<sheetVars, snap, pending, quote, batch, tries, late,
                   market, edits>>

ReadRows(r) ==
    /\ pc[r] = "read"
    /\ snap' = [snap EXCEPT ![r] = Inputs]
    /\ pending' = [pending EXCEPT ![r] = {isin[w] : w \in ValidRows(Inputs)}]
    /\ pc' = [pc EXCEPT ![r] = "refresh"]
    /\ UNCHANGED <<sheetVars, quote, batch, tries, late, worldVars>>

\* Mutant of RefreshIsin: answers come from a cache every worker keeps.
RefreshIsinCached(r, i) ==
    /\ pc[r] = "refresh"
    /\ i \in pending[r]
    /\ \E q \in 1..market[i] \union {NoOffer, Failed} :
         quote' = [quote EXCEPT ![r][i] = q]
    /\ pending' = [pending EXCEPT ![r] = @ \ {i}]
    /\ UNCHANGED <<sheetVars, pc, snap, batch, tries, late, worldVars>>

\* One InstrumentService.refresh: MOEX answers with the current data, or with
\* data that has no offer; or MOEX or the database raises.  The error is kept
\* for the rows of this ISIN and the run goes on.
RefreshIsin(r, i) ==
    /\ pc[r] = "refresh"
    /\ i \in pending[r]
    /\ \E q \in {market[i], NoOffer, Failed} : quote' = [quote EXCEPT ![r][i] = q]
    /\ pending' = [pending EXCEPT ![r] = @ \ {i}]
    /\ UNCHANGED <<sheetVars, pc, snap, batch, tries, late, worldVars>>

BuildUpdates(r) ==
    /\ pc[r] = "refresh"
    /\ pending[r] = {}
    /\ \E answered, parsed \in SUBSET Rows : \E usable \in SUBSET parsed :
         batch' = [batch EXCEPT ![r] = BatchFor(r, answered, parsed, usable)]
    /\ pc' = [pc EXCEPT ![r] = "post"]
    /\ UNCHANGED <<sheetVars, snap, pending, quote, tries, late, worldVars>>

\* A run leaves execute, by return or by exception.
EndRun(r) ==
    /\ pc' = [pc EXCEPT ![r] = "idle"]
    /\ snap' = [snap EXCEPT ![r] = NoCells]
    /\ pending' = [pending EXCEPT ![r] = {}]
    /\ quote' = [quote EXCEPT ![r] = [i \in Isins |-> Unknown]]
    /\ batch' = [batch EXCEPT ![r] = EmptyBatch]
    /\ tries' = [tries EXCEPT ![r] = 0]

\* Google applies the post and its answer arrives.
PostAnswered(r) ==
    /\ pc[r] = "post"
    /\ Apply(batch[r])
    /\ pc' = [pc EXCEPT ![r] = "commit"]
    /\ UNCHANGED <<snap, pending, quote, batch, tries, late, worldVars>>

\* Mutant of RetryOrRaise: attempts are not counted.
RetryForEver(r) == UNCHANGED <<pc, snap, pending, quote, batch, tries>>

\* Mutant of RetryOrRaise: the last error is swallowed.
RetryOrReport(r) ==
    IF tries[r] + 1 < Retries
      THEN /\ tries' = [tries EXCEPT ![r] = @ + 1]
           /\ UNCHANGED <<pc, snap, pending, quote, batch>>
      ELSE /\ pc' = [pc EXCEPT ![r] = "commit"]
           /\ UNCHANGED <<snap, pending, quote, batch, tries>>

\* After a transport error, or an answer of refusal, the client repeats the
\* post; after Retries attempts it raises.
RetryOrRaise(r) ==
    IF tries[r] + 1 < Retries
      THEN /\ tries' = [tries EXCEPT ![r] = @ + 1]
           /\ UNCHANGED <<pc, snap, pending, quote, batch>>
      ELSE EndRun(r)

\* Google applies the post, the answer is lost.
AnswerLost(r) ==
    /\ pc[r] = "post"
    /\ Apply(batch[r])
    /\ RetryOrRaise(r)
    /\ UNCHANGED <<late, worldVars>>

\* The post is refused, lost, or still on its way when the client gives it up.
PostUnanswered(r) ==
    /\ pc[r] = "post"
    /\ RetryOrRaise(r)
    /\ \/ UNCHANGED late
       \/ /\ LateArrivals
          /\ late' = late \union {batch[r]}
    /\ UNCHANGED <<sheetVars, worldVars>>

LateArrival(b) ==
    /\ b \in late
    /\ Apply(b)
    /\ late' = late \ {b}
    /\ UNCHANGED <<runVars, worldVars>>

\* The job is committed as SUCCEEDED.
CommitRun(r) ==
    /\ pc[r] = "commit"
    /\ EndRun(r)
    /\ UNCHANGED <<sheetVars, late, worldVars>>

\* An exception, or the death of the worker, at any point of the run.
AbortRun(r) ==
    /\ pc[r] # "idle"
    /\ EndRun(r)
    /\ UNCHANGED <<sheetVars, late, worldVars>>

-----------------------------------------------------------------------------
(* The user and the market *)

MayEdit ==
    /\ edits < MaxEdits
    /\ ConcurrentEdits \/ \A r \in Runs : pc[r] = "idle"

\* The user types over one cell of a row ...
EditCell(w) ==
    /\ MayEdit
    /\ \/ /\ \E text \in Isins \union {BadIsin, Blank} : isin' = [isin EXCEPT ![w] = text]
          /\ UNCHANGED <<commission, accrued>>
       \/ /\ \E by \in {Blank, "user", "unreadable"} :
               commission' = [commission EXCEPT ![w] = by]
          /\ UNCHANGED <<isin, accrued>>
       \/ /\ \E by \in {Blank, "user"} : accrued' = [accrued EXCEPT ![w] = by]
          /\ UNCHANGED <<isin, commission>>
    /\ edits' = edits + 1
    /\ UNCHANGED <<out, runVars, late, market, starts>>

\* ... or sorts the worksheet, which moves whole rows.
SwapRows(v, w) ==
    LET swap == [u \in Rows |-> IF u = v THEN w ELSE IF u = w THEN v ELSE u] IN
    /\ MayEdit
    /\ v # w
    /\ isin' = [u \in Rows |-> isin[swap[u]]]
    /\ commission' = [u \in Rows |-> commission[swap[u]]]
    /\ accrued' = [u \in Rows |-> accrued[swap[u]]]
    /\ out' = [u \in Rows |-> out[swap[u]]]
    /\ edits' = edits + 1
    /\ UNCHANGED <<runVars, late, market, starts>>

MarketMoves(i) ==
    /\ market[i] < MaxQuotes
    /\ market' = [market EXCEPT ![i] = @ + 1]
    /\ UNCHANGED <<sheetVars, runVars, late, starts, edits>>

RunStep(r) ==
    \/ ReadRows(r) \/ BuildUpdates(r) \/ CommitRun(r)
    \/ \E i \in Isins : RefreshIsin(r, i)
    \/ PostAnswered(r) \/ AnswerLost(r) \/ PostUnanswered(r)

Next ==
    \/ \E r \in Runs : StartRun(r) \/ RunStep(r) \/ AbortRun(r)
    \/ \E b \in late : LateArrival(b)
    \/ \E w \in Rows : EditCell(w)
    \/ \E v, w \in Rows : SwapRows(v, w)
    \/ \E i \in Isins : MarketMoves(i)

Spec == Init /\ [][Next]_vars

\* Every call of a run has a timeout: it goes on, whatever the calls answer.
FairSpec == Spec /\ \A r \in Runs : WF_vars(RunStep(r))

-----------------------------------------------------------------------------
(* Safety *)

\* docs/google-sheets.md: values of J and L that are filled are never replaced
\* automatically.  Posts are built from cells read long before: overlapping
\* runs, repeated posts and aborted runs must not replace what is there.
InputsKept ==
    [][\A w \in Rows :
         (\/ \E r \in Runs : PostAnswered(r) \/ AnswerLost(r)
          \/ \E b \in late : LateArrival(b))
           => /\ (commission[w] # Blank) => (commission'[w] = commission[w])
              /\ (accrued[w] # Blank) => (accrued'[w] = accrued[w])]_vars

\* A row of a valid ISIN shows a verdict and data of the ISIN it holds: coupons
\* only beside a J and an L that are filled, figures only with the coupons and the
\* price they were calculated from and exactly on calculated rows, nothing if the
\* refresh failed.
RowAgrees(w) ==
    /\ out[w].verdict # "none"
    /\ (out[w].price # Blank) => (out[w].price[1] = isin[w])
    /\ (out[w].coupons # Blank) =>
           /\ out[w].coupons = isin[w]
           /\ commission[w] \in {"user", "default"} /\ accrued[w] # Blank
    /\ (out[w].figures # Blank) <=> (out[w].verdict = "calculated")
    /\ (out[w].figures # Blank) =>
           out[w].figures = out[w].price /\ out[w].coupons # Blank
    /\ (out[w].verdict = "error") =>
           out[w].price = Blank /\ out[w].coupons = Blank

\* A row of a refused ISIN shows the refusal, not the verdict of the ISIN before.
\* Without a status column AL is not written either (sheets.py:357).
RefusalShows(w) == StatusColumn => out[w].verdict = "invalid"

\* docs/google-sheets.md: AL is the status of the calculation or the reason why
\* there is no result.  When a run is about to report success, each of the rows it
\* read agrees with the ISIN it holds, or shows that it is refused, though other
\* runs write the same rows and posts are repeated.
SheetAgrees ==
    \A r \in Runs : (pc[r] = "commit") =>
        /\ \A w \in ValidRows(snap[r]) : RowAgrees(w)
        /\ \A w \in InvalidRows(snap[r]) : RefusalShows(w)

\* With one run at a time no run replaces the price of a row by older market
\* data, whatever posts are repeated or arrive late and whatever runs are aborted.
\* (Nothing is said of a late arrival itself: it may bring back an older price.)
NeverOlder ==
    [][\A w \in Rows :
         (/\ \E r \in Runs : PostAnswered(r) \/ AnswerLost(r)
          /\ out[w].price # Blank /\ out'[w].price # Blank
          /\ out[w].price[1] = isin[w] /\ out'[w].price[1] = isin[w])
           => (out'[w].price[2] >= out[w].price[2])]_vars

-----------------------------------------------------------------------------
(* Liveness, under FairSpec *)

\* A run ends, whatever Google and MOEX answer: a worker is never held for ever.
RunEnds == \A r \in Runs : (pc[r] # "idle") ~> (pc[r] = "idle")
=============================================================================
