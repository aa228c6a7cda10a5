-------------------------- MODULE InstrumentRefresh --------------------------
(***************************************************************************)
(* Instruments, corporate actions and market snapshots as refreshes from   *)
(* MOEX ISS write them: one refresh through the API, all instruments of    *)
(* the market page, the ISINs of a sheet run, and the bare instruments     *)
(* that lots and imports add.                                              *)
(*                                                                         *)
(* MOEX is external: a request that waits for it gets any quote and any    *)
(* calendar, some of whose rows it may list more than once, or an error.   *)
(* Then it flushes the instrument row (which it locks if it writes it),    *)
(* compares the calendar and commits, with other requests committing       *)
(* between any two of these steps.                                         *)
(***************************************************************************)
EXTENDS MarketData

CONSTANTS
    Requests,
    NoQuote, NoCalendar, NoIsin

ASSUME QuotesAssumption ==
    /\ \A quote \in Quotes : quote.face \in Nat /\ quote.day \in Nat
    /\ NoQuote \notin Quotes /\ NoCalendar \notin Calendars /\ NoIsin \notin Isins
ASSUME ClockAssumption == MaxClock \in Nat

VARIABLES
    request,        \* per request: its step, and what its session has read
    clock,          \* logical time of received_at and source_updated_at: one tick each
    torn,           \* history: ISINs whose last refresh was overtaken by another
    unsynced,       \* history: data was committed for which no event is queued
    excused         \* history: the process died, or a whole batch broke

refreshVars ==
    <<marketVars, request, clock, torn, unsynced, excused>>

Idle == [kind |-> "none", step |-> "idle", isin |-> NoIsin, todo |-> {},
         seen |-> [i \in Isins |-> Absent], quote |-> NoQuote, calendar |-> NoCalendar,
         repeated |-> {}, received |-> 0, new |-> {}, stamp |-> 0, poisoned |-> FALSE, overtaken |-> {}]

-----------------------------------------------------------------------------
(* Helpers *)

\* The columns that differ from what the session has read are written, no others.
Writes(r) ==
    LET row == request[r].seen[request[r].isin] IN
    row.known # "quoted" \/ row.face # request[r].quote.face \/ row.day # request[r].quote.day

\* Another transaction has flushed the instrument's row and not committed.
Blocked(r) ==
    \E q \in Requests \ {r} :
        /\ request[q].isin = request[r].isin
        /\ \/ request[q].step = "stubbed"
           \/ request[q].step \in {"flushed", "compared"} /\ Writes(q)

\* Request q has read the row of i and may write it later.
HasRead(q, i) ==
    \/ request[q].isin = i
       /\ request[q].step \in {"fetching", "answered", "flushed", "compared",
                               "stub", "stubbed", "raised", "marking"}
    \/ request[q].kind = "all" /\ i \in request[q].todo

\* The other requests that have read i are overtaken when r commits it.
Overtaking(r, i, own) ==
    [q \in Requests |->
        IF q = r THEN own
        ELSE IF HasRead(q, i)
             THEN [request[q] EXCEPT !.overtaken = request[q].overtaken \cup {i}]
             ELSE request[q]]

\* What a request does when it is done with an ISIN: a single refresh ends, a batch goes
\* on; each ISIN comes once, so what was read of it is of no use any more.
Proceed(r) ==
    IF request[r].kind \in {"all", "sheet"}
    THEN [Idle EXCEPT !.kind = request[r].kind, !.step = "next", !.todo = request[r].todo,
                      !.seen = [request[r].seen EXCEPT ![request[r].isin] = Absent],
                      !.poisoned = request[r].poisoned,
                      !.overtaken = request[r].overtaken \ {request[r].isin}]
    ELSE Idle

historyVars == <<torn, unsynced, excused>>

-----------------------------------------------------------------------------
(* Requests begin *)

\* POST /instruments/{isin}/refresh, and the refresh of the web page.
BeginRefresh(r, i) ==
    /\ request[r].step = "idle"
    /\ request' = [request EXCEPT ![r] =
         [Idle EXCEPT !.kind = "api", !.step = "fetching", !.isin = i,
                      !.seen = [Idle.seen EXCEPT ![i] = instrument[i]]]]
    /\ UNCHANGED <<marketVars, clock, historyVars>>

\* refresh_all lists the instruments: what it loads here stays in its session, a
\* later SELECT of the same row does not bring newer values.
BeginAll(r) ==
    /\ request[r].step = "idle"
    /\ request' = [request EXCEPT ![r] =
         [Idle EXCEPT !.kind = "all", !.step = "next", !.seen = instrument,
                      !.todo = {i \in Isins : instrument[i].known # "absent"}]]
    /\ UNCHANGED <<marketVars, clock, historyVars>>

\* A sheet run refreshes each valid ISIN of its rows once.
BeginSheet(r, isins) ==
    /\ request[r].step = "idle"
    /\ request' = [request EXCEPT ![r] =
         [Idle EXCEPT !.kind = "sheet", !.step = "next", !.todo = isins]]
    /\ UNCHANGED <<marketVars, clock, historyVars>>

\* A lot or an import finds no instrument for its ISIN.
BeginBare(r, i) ==
    /\ request[r].step = "idle"
    /\ instrument[i].known = "absent"
    /\ request' = [request EXCEPT ![r] = [Idle EXCEPT !.kind = "lot", !.step = "stub", !.isin = i]]
    /\ UNCHANGED <<marketVars, clock, historyVars>>

-----------------------------------------------------------------------------
(* A batch takes its ISINs one after the other *)

NextIsin(r, i) ==
    /\ request[r].step = "next" /\ i \in request[r].todo
    /\ ~request[r].poisoned
    /\ request' = [request EXCEPT ![r] =
         [@ EXCEPT !.step = "fetching", !.isin = i, !.todo = request[r].todo \ {i},
                   !.seen[i] = IF request[r].kind = "all"
                               THEN request[r].seen[i] ELSE instrument[i]]]
    /\ UNCHANGED <<marketVars, clock, historyVars>>

\* After a failed flush every statement of the session raises: the rest of the batch
\* is reported as errors, and so is the statement that ends it.
GiveUpBatch(r) ==
    /\ request[r].step = "next" /\ request[r].poisoned
    /\ request' = [request EXCEPT ![r] = Idle]
    /\ excused' = (excused \/ request[r].kind = "all")
    /\ UNCHANGED <<marketVars, clock, torn, unsynced>>

\* refresh_all queues one event for everything it committed.
EndBatch(r) ==
    /\ request[r].step = "next" /\ request[r].todo = {} /\ ~request[r].poisoned
    /\ request' = [request EXCEPT ![r] = Idle]
    /\ unsynced' = (unsynced /\ request[r].kind # "all")
    /\ UNCHANGED <<marketVars, clock, torn, excused>>

-----------------------------------------------------------------------------
(* The client *)

\* Mutant: the request goes on before its market answer has arrived.
ClientAnswersNothing(r, quote, calendar, repeated) ==
    /\ request[r].step = "fetching"
    /\ clock < MaxClock
    /\ clock' = clock + 1
    /\ request' = [request EXCEPT ![r].step = "answered", ![r].received = clock + 1,
                                  ![r].calendar = calendar, ![r].repeated = repeated]
    /\ UNCHANGED <<marketVars, historyVars>>

\* A search, the market answer and the calendar, each with its retries; they are
\* mapped together, with the time they were received.  The calendar is a tuple: the
\* rows it holds, and those it holds more than once.
ClientAnswers(r, quote, calendar, repeated) ==
    /\ request[r].step = "fetching"
    /\ clock < MaxClock
    /\ clock' = clock + 1
    /\ request' = [request EXCEPT ![r].step = "answered", ![r].received = clock + 1,
                                  ![r].quote = quote, ![r].calendar = calendar,
                                  ![r].repeated = repeated]
    /\ UNCHANGED <<marketVars, historyVars>>

\* Not found, malformed, or failing after the last retry.
ClientRaises(r) ==
    /\ request[r].step = "fetching"
    /\ request' = [request EXCEPT ![r].step = "raised"]
    /\ UNCHANGED <<marketVars, clock, historyVars>>

-----------------------------------------------------------------------------
(* The service: flush, compare, commit *)

\* A row that was not there at the SELECT is inserted, and the unique ISIN refuses it
\* if it is there by now.
Flush(r) ==
    LET i == request[r].isin IN
    /\ request[r].step \in {"answered", "stub"}
    /\ (request[r].step = "stub" \/ Writes(r)) => ~Blocked(r)
    /\ request' = [request EXCEPT ![r].step =
         IF request[r].seen[i].known = "absent" /\ instrument[i].known # "absent" THEN "broken"
         ELSE IF request[r].step = "stub" THEN "stubbed" ELSE "flushed"]
    /\ UNCHANGED <<marketVars, clock, historyVars>>

CommitBare(r) ==
    LET i == request[r].isin IN
    /\ request[r].step = "stubbed"
    /\ instrument' = [instrument EXCEPT ![i] = Bare]
    /\ request' = Overtaking(r, i, Idle)
    /\ UNCHANGED <<actions, snapshots, clock, historyVars>>

\* Mutant: actions are added without a look at the hashes that are stored.
CompareNothing(r) ==
    /\ request[r].step = "flushed"
    /\ clock < MaxClock
    /\ clock' = clock + 1
    /\ request' = [request EXCEPT ![r].step = "compared", ![r].stamp = clock + 1,
                                  ![r].new = request[r].calendar]
    /\ UNCHANGED <<marketVars, historyVars>>

\* The actions whose hash is not stored yet are new.  The stored hashes are read once,
\* so a row that the answer repeats is added as often as it comes.
Compare(r) ==
    /\ request[r].step = "flushed"
    /\ clock < MaxClock
    /\ clock' = clock + 1
    /\ request' = [request EXCEPT ![r].step = "compared", ![r].stamp = clock + 1,
                     ![r].new = request[r].calendar \ DOMAIN actions[request[r].isin]]
    /\ UNCHANGED <<marketVars, historyVars>>

\* A new action is stored already, by another refresh meanwhile, or is added twice.
Refused(r) == request[r].new \cap (DOMAIN actions[request[r].isin] \cup request[r].repeated) # {}

CommitRefused(r) ==
    /\ request[r].step = "compared"
    /\ Refused(r)
    /\ request' = [request EXCEPT ![r].step = "broken"]
    /\ UNCHANGED <<marketVars, clock, historyVars>>

\* Mutant: the face value of an instrument that is known stays as it is.
CommitKeepsFace(r) ==
    LET i    == request[r].isin
        seen == request[r].seen[i]
        row  == instrument[i] IN
    /\ request[r].step = "compared"
    /\ ~Refused(r)
    /\ instrument' = [instrument EXCEPT ![i] =
         [known |-> "quoted",
          face |-> IF seen.known = "quoted" THEN row.face ELSE request[r].quote.face,
          day  |-> request[r].quote.day]]
    /\ actions' = [actions EXCEPT ![i] = Extended(@, request[r].new, request[r].stamp)]
    /\ snapshots' = [snapshots EXCEPT ![i] = @ \cup
         {[received |-> request[r].received, quote |-> request[r].quote, error |-> FALSE]}]
    /\ torn' = IF i \in request[r].overtaken THEN torn \cup {i} ELSE torn \ {i}
    /\ unsynced' = (unsynced \/ request[r].kind # "sheet")
    /\ request' = Overtaking(r, i, IF request[r].kind = "api"
                                   THEN [Idle EXCEPT !.kind = "api", !.step = "event"]
                                   ELSE Proceed(r))
    /\ UNCHANGED <<clock, excused>>

Commit(r) ==
    LET i    == request[r].isin
        seen == request[r].seen[i]
        row  == instrument[i]
        quote == request[r].quote IN
    /\ request[r].step = "compared"
    /\ ~Refused(r)
    /\ instrument' = [instrument EXCEPT ![i] =
         [known |-> "quoted",
          face |-> IF seen.known = "quoted" /\ seen.face = quote.face THEN row.face ELSE quote.face,
          day  |-> IF seen.known = "quoted" /\ seen.day = quote.day THEN row.day ELSE quote.day]]
    /\ actions' = [actions EXCEPT ![i] = Extended(@, request[r].new, request[r].stamp)]
    /\ snapshots' = [snapshots EXCEPT ![i] = @ \cup
         {[received |-> request[r].received, quote |-> quote, error |-> FALSE]}]
    /\ torn' = IF i \in request[r].overtaken THEN torn \cup {i} ELSE torn \ {i}
    /\ unsynced' = (unsynced \/ request[r].kind # "sheet")
    /\ request' = Overtaking(r, i, IF request[r].kind = "api"
                                   THEN [Idle EXCEPT !.kind = "api", !.step = "event"]
                                   ELSE Proceed(r))
    /\ UNCHANGED <<clock, excused>>

\* A constraint refused the flush: a single request rolls back and ends, a batch
\* catches the error and goes on with a session that cannot be used any more.
Fail(r) ==
    /\ request[r].step = "broken"
    /\ request' = [request EXCEPT ![r] =
         IF Proceed(r).step = "next" THEN [Proceed(r) EXCEPT !.poisoned = TRUE] ELSE Idle]
    /\ UNCHANGED <<marketVars, clock, historyVars>>

\* Mutant: the handler returns without queueing the event.
NoEvent(r) ==
    /\ request[r].step = "event"
    /\ request' = [request EXCEPT ![r] = Idle]
    /\ UNCHANGED <<marketVars, clock, historyVars>>

\* The handler queues MOEX_REFRESHED in a transaction of its own.
QueueEvent(r) ==
    /\ request[r].step = "event"
    /\ request' = [request EXCEPT ![r] = Idle]
    /\ unsynced' = FALSE
    /\ UNCHANGED <<marketVars, clock, torn, excused>>

-----------------------------------------------------------------------------
(* The failed refresh is noted at the newest snapshot, if there is one *)

\* Mutant: the rows are ordered the wrong way round.
FindOldest(r) ==
    LET i == request[r].isin IN
    /\ request[r].step = "raised"
    /\ IF request[r].seen[i].known = "absent" \/ snapshots[i] = {}
       THEN request' = [request EXCEPT ![r] = Proceed(r)]
       ELSE \E s \in snapshots[i] :
              /\ \A t \in snapshots[i] : s.received <= t.received
              /\ request' = [request EXCEPT ![r].step = "marking", ![r].received = s.received]
    /\ UNCHANGED <<marketVars, clock, historyVars>>

FindSnapshot(r) ==
    LET i == request[r].isin IN
    /\ request[r].step = "raised"
    /\ IF request[r].seen[i].known = "absent" \/ snapshots[i] = {}
       THEN request' = [request EXCEPT ![r] = Proceed(r)]
       ELSE \E s \in Newest(i) :
              request' = [request EXCEPT ![r].step = "marking", ![r].received = s.received]
    /\ UNCHANGED <<marketVars, clock, historyVars>>

\* Mutant: the failed refresh also stamps the snapshot with its own time.
MarkSnapshotAnew(r) ==
    LET i == request[r].isin IN
    /\ request[r].step = "marking"
    /\ snapshots' = [snapshots EXCEPT ![i] =
         {IF s.received = request[r].received
          THEN [s EXCEPT !.error = TRUE, !.received = clock] ELSE s : s \in snapshots[i]}]
    /\ request' = [request EXCEPT ![r] = Proceed(r)]
    /\ UNCHANGED <<instrument, actions, clock, historyVars>>

MarkSnapshot(r) ==
    LET i == request[r].isin IN
    /\ request[r].step = "marking"
    /\ snapshots' = [snapshots EXCEPT ![i] =
         {IF s.received = request[r].received THEN [s EXCEPT !.error = TRUE] ELSE s :
            s \in snapshots[i]}]
    /\ request' = [request EXCEPT ![r] = Proceed(r)]
    /\ UNCHANGED <<instrument, actions, clock, historyVars>>

\* The process dies and starts again.
Restart ==
    /\ request' = [r \in Requests |-> Idle]
    /\ excused' = TRUE
    /\ UNCHANGED <<marketVars, clock, torn, unsynced>>

-----------------------------------------------------------------------------

RefreshInit ==
    /\ MarketInit
    /\ request = [r \in Requests |-> Idle]
    /\ clock = 0
    /\ torn = {}
    /\ unsynced = FALSE
    /\ excused = FALSE

Begin(r) ==
    \/ BeginAll(r)
    \/ \E i \in Isins : BeginRefresh(r, i) \/ BeginBare(r, i)
    \/ \E isins \in SUBSET Isins \ {{}} : BeginSheet(r, isins)

Step(r) ==
    \/ \E i \in Isins : NextIsin(r, i)
    \/ GiveUpBatch(r) \/ EndBatch(r)
    \/ \E quote \in Quotes, calendar \in Calendars : \E repeated \in SUBSET calendar :
         ClientAnswers(r, quote, calendar, repeated)
    \/ ClientRaises(r)
    \/ Flush(r) \/ CommitBare(r) \/ Compare(r) \/ CommitRefused(r) \/ Commit(r)
    \/ Fail(r) \/ QueueEvent(r)
    \/ FindSnapshot(r) \/ MarkSnapshot(r)

RefreshNext ==
    \/ \E r \in Requests : Begin(r) \/ Step(r)
    \/ Restart

RefreshSpec == RefreshInit /\ [][RefreshNext]_refreshVars

-----------------------------------------------------------------------------
(* Properties *)

Row == [known : {"absent", "bare", "quoted"}, face : Nat, day : Nat]

RequestType ==
    [kind : {"none", "api", "all", "sheet", "lot"},
     step : {"idle", "next", "fetching", "answered", "stub", "stubbed", "flushed",
             "compared", "broken", "event", "raised", "marking"},
     isin : Isins \cup {NoIsin}, todo : SUBSET Isins, seen : [Isins -> Row],
     quote : Quotes \cup {NoQuote}, calendar : Calendars \cup {NoCalendar},
     repeated : SUBSET UNION Calendars, received : Nat, new : SUBSET UNION Calendars, stamp : Nat,
     poisoned : BOOLEAN, overtaken : SUBSET Isins]

\* The type of the state; what has not been fetched is in no later step.
TypeOK ==
    /\ instrument \in [Isins -> Row]
    /\ DOMAIN actions = Isins
    /\ \A i \in Isins : /\ DOMAIN actions[i] \subseteq UNION Calendars
                        /\ \A a \in DOMAIN actions[i] : actions[i][a] \in 1..clock
    /\ snapshots \in [Isins -> SUBSET [received : 1..clock, quote : Quotes, error : BOOLEAN]]
    /\ request \in [Requests -> RequestType]
    /\ \A r \in Requests : request[r].step \in {"answered", "flushed", "compared"} =>
         request[r].quote # NoQuote /\ request[r].calendar # NoCalendar
    /\ clock \in 0..MaxClock
    /\ torn \subseteq Isins
    /\ unsynced \in BOOLEAN /\ excused \in BOOLEAN

\* The instrument's row and its newest snapshot are of one answer, so face value and
\* quote fit: columns are written against what was read and snapshots are ordered by
\* the time of the answer, so only a refresh that another one overtook breaks this,
\* and the next one that is not overtaken repairs it.
RowFollowsNewestSnapshot ==
    \A i \in Isins \ torn : \A s \in Newest(i) :
        /\ instrument[i].known = "quoted"
        /\ instrument[i].face = s.quote.face /\ instrument[i].day = s.quote.day

\* A constraint refuses a flush or a commit only where another request has committed
\* the same instrument since this one read it, or where the answer repeats a row that is
\* not stored: a calendar that MOEX lists cleanly fails by races alone.
RefusalsAreExplained ==
    \A r \in Requests : request[r].step = "broken" =>
        \/ request[r].isin \in request[r].overtaken
        \/ request[r].new \cap request[r].repeated # {}

\* A refresh that failed marks the snapshot its own row came from, and never a
\* newer one that succeeded, unless it was overtaken.
FailureMarksItsOwn ==
    \A r \in Requests : LET i == request[r].isin IN
        request[r].step = "marking" /\ i \notin request[r].overtaken \cup torn =>
            \A s \in snapshots[i] : s.received = request[r].received =>
                s.quote.face = request[r].seen[i].face /\ s.quote.day = request[r].seen[i].day

\* What a user's refresh committed is followed by an event for the sheets, unless the
\* process died between the two commits or a whole batch broke on a refused flush.
ChangesAreAnnounced ==
    unsynced => excused \/ \E r \in Requests : request[r].step # "idle"
                                               /\ request[r].kind \in {"api", "all"}

\* Whatever overlaps and fails, nothing that was stored is lost: actions and snapshots
\* are only added, and a failed refresh leaves quote and time of the snapshot it marks.
ImplementsMarketData == MarketSpec

=============================================================================
