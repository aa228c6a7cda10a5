------------------------ MODULE MCInstrumentRefresh ------------------------
(* Instances of InstrumentRefresh for TLC. *)
EXTENDS InstrumentRefresh, FiniteSets

CONSTANTS i1, i2, r1, r2

\* Two answers that differ in face value and day, so a mix of them shows.
MCQuotes == {[face |-> 10, day |-> 1], [face |-> 8, day |-> 3]}

\* MOEX has published an action, or not yet.
MCCalendars == {{}, {1}}

\* The instruments that somebody stored or asks about.
Touched == {i \in Isins : \/ instrument[i] # Absent
                          \/ \E r \in Requests : request[r].isin = i \/ i \in request[r].todo}

Batches == {r \in Requests : request[r].kind \in {"all", "sheet"}}

\* Somebody has seen a bond before its action was published.
Unpublished ==
    \/ \E r \in Requests : request[r].calendar = {}
    \/ \E i \in Isins : snapshots[i] # {} /\ DOMAIN actions[i] = {}

\* Bounds: for four ticks two batches overlap on one instrument, or a single request and
\* any other on two.  Only the first answer may come before the action is published; then
\* one instrument is followed until the action is stored, for six ticks: a refresh, and
\* two that overlap and bring the action, all of them single and none failing at MOEX.
Followed ==
    /\ \A r \in Requests : request[r].calendar = {} => request[r].received = 1
    /\ Cardinality(Batches) > 1 => Cardinality(Touched) <= 1
    /\ clock > 4 \/ Unpublished =>
         /\ Cardinality(Touched) <= 1 /\ Batches = {}
         /\ \A r \in Requests : request[r].step # "raised"
    /\ clock > 4 => \A i \in Isins : \A a \in DOMAIN actions[i] : actions[i][a] > 4

\* No definition names or orders a request or an instrument.
Symmetric == Permutations(Requests) \cup Permutations(Isins)
=============================================================================
