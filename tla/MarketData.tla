----------------------------- MODULE MarketData -----------------------------
(***************************************************************************)
(* What refreshes promise about the stored market data, whoever runs them  *)
(* and however they overlap: nothing that was stored is lost.  An          *)
(* instrument stays, corporate actions and snapshots are only added, an    *)
(* action keeps the time of its first refresh, and a failed refresh leaves *)
(* a mark at a snapshot and changes neither its quote nor its time.        *)
(*                                                                         *)
(* InstrumentRefresh implements this; Lots reads what it stores.           *)
(***************************************************************************)
EXTENDS Naturals, TLC

CONSTANTS
    Isins,
    Quotes,         \* market answers: records with at least face and day
    Calendars,      \* bondization answers: sets of corporate actions
    MaxClock        \* bound on the times of answers and comparisons

VARIABLES
    instrument,     \* per ISIN: the row of bond_instruments
    actions,        \* per ISIN: stored corporate actions |-> source_updated_at
    snapshots       \* per ISIN: the rows of market_snapshots

marketVars == <<instrument, actions, snapshots>>

\* Rows of bond_instruments: absent; bare (added by a lot or an import); quoted.
\* day stands for source_updated_at: SYSTIME of the market answer, or the time of receipt
\* when it has none, so that a later refresh may bring an earlier one.
Absent == [known |-> "absent", face |-> 0, day |-> 0]
Bare   == [known |-> "bare", face |-> 0, day |-> 0]

\* Mutant: the rows are ordered the wrong way round.
Oldest(i) == {s \in snapshots[i] : \A t \in snapshots[i] : s.received <= t.received}

Newest(i) == {s \in snapshots[i] : \A t \in snapshots[i] : t.received <= s.received}

MarketInit ==
    /\ instrument = [i \in Isins |-> Absent]
    /\ actions = [i \in Isins |-> <<>>]
    /\ snapshots = [i \in Isins |-> {}]

\* A lot or an import names an ISIN that is not known.
AddBare(i) ==
    /\ instrument[i].known = "absent"
    /\ instrument' = [instrument EXCEPT ![i] = Bare]
    /\ UNCHANGED <<actions, snapshots>>

\* New actions get the time of the refresh that brought them.
Extended(stored, new, stamp) ==
    [a \in new \cup DOMAIN stored |-> IF a \in new THEN stamp ELSE stored[a]]

\* A refresh commits: the row, the actions that were not stored, a new snapshot.
\* Columns that did not change for the refresh may keep what another one wrote.
Publish(i, row, quote, new, stamp, received) ==
    /\ row.known = "quoted"
    /\ row.face \in {instrument[i].face, quote.face}
    /\ row.day \in {instrument[i].day, quote.day}
    /\ new \cap DOMAIN actions[i] = {}
    /\ \A s \in snapshots[i] : s.received # received
    /\ instrument' = [instrument EXCEPT ![i] = row]
    /\ actions' = [actions EXCEPT ![i] = Extended(@, new, stamp)]
    /\ snapshots' = [snapshots EXCEPT ![i] = @ \cup
         {[received |-> received, quote |-> quote, error |-> FALSE]}]

\* A refresh has failed: the snapshot it found newest is marked.
MarkFailed(i, received) ==
    /\ snapshots' = [snapshots EXCEPT ![i] =
         {IF s.received = received THEN [s EXCEPT !.error = TRUE] ELSE s : s \in snapshots[i]}]
    /\ UNCHANGED <<instrument, actions>>

\* Some refresh commits: what it commits is read off the next state.
Published(i) ==
    \E s \in snapshots'[i] \ snapshots[i] : \E stamp \in 1..MaxClock, calendar \in Calendars :
        LET new == DOMAIN actions'[i] \ DOMAIN actions[i] IN
        /\ s.quote \in Quotes /\ s.received \in 1..MaxClock
        /\ new \subseteq calendar
        /\ Publish(i, instrument'[i], s.quote, new, stamp, s.received)

MarketNext ==
    \E i \in Isins :
        \/ AddBare(i)
        \/ Published(i)
        \/ \E s \in snapshots[i] : MarkFailed(i, s.received)

MarketSpec == MarketInit /\ [][MarketNext]_marketVars
=============================================================================
