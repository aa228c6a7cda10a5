----------------------------- MODULE LotsProofs -----------------------------
(* Proofs about Lots: what a sheet counts follows the newest calendar,       *)
(* manual prices stay explained, results are those of one bond and count     *)
(* principal once, and a result is never computed from a quote older than    *)
(* what was read before it.                                                  *)
EXTENDS Lots, Arithmetic

\* Rows are dated by refreshes that have committed.
Times ==
    \A i \in Isins :
      /\ instrument[i].day \in Nat
      /\ \A a \in DOMAIN actions[i] : actions[i][a] \in 1..clock
      /\ \A s \in snapshots[i] : s.received \in 1..clock /\ s.quote \in Quotes

\* The newest calendar is stored; a row of it that was not restored is newer than those of
\* its event that the calendar does not have.
CalendarIsStored ==
    \A i \in Isins :
      /\ calendar[i] \subseteq DOMAIN actions[i]
      /\ \A a \in calendar[i] \ returned[i] : \A b \in DOMAIN actions[i] \ calendar[i] :
           SameEvent(a, b) /\ b.amount # NoAmount => actions[i][b] < actions[i][a]

\* A refresh that stores an action stores a snapshot.
SnapshotsFollow ==
    \A i \in Isins : \A a \in DOMAIN actions[i] :
      \E s \in snapshots[i] : actions[i][a] <= s.received

\* Of the rows of an event that have an amount one is the newest.
NewestIsStored ==
    \A i \in Isins : \A a \in {c \in DOMAIN actions[i] : c.amount # NoAmount} :
      \E b \in {c \in DOMAIN actions[i] : c.amount # NoAmount} :
        /\ SameEvent(a, b)
        /\ \A c \in DOMAIN actions[i] :
             SameEvent(b, c) /\ c.amount # NoAmount => actions[i][c] <= actions[i][b]

\* What holds of the stored market data and its history.
MarketInv ==
    /\ clock \in 0..MaxClock
    /\ instrument = [i \in Isins |-> instrument[i]]
    /\ actions = [i \in Isins |-> actions[i]]
    /\ snapshots = [i \in Isins |-> snapshots[i]]
    /\ calendar = [i \in Isins |-> calendar[i]]
    /\ returned = [i \in Isins |-> returned[i]]
    /\ Times /\ CalendarIsStored /\ SnapshotsFollow /\ NewestIsStored

\* What a refresh does, with the new quote and calendar.
Refreshed(i, quote, known) ==
    LET new == known \ DOMAIN actions[i] IN
    /\ quote \in Quotes /\ known \in Calendars
    /\ clock < MaxClock /\ clock' = clock + 1
    /\ instrument'[i].known = "quoted" /\ instrument'[i].day = quote.day
    /\ DOMAIN actions'[i] = new \cup DOMAIN actions[i]
    /\ \A a \in DOMAIN actions'[i] :
         actions'[i][a] = IF a \in new THEN clock + 1 ELSE actions[i][a]
    /\ snapshots'[i] = snapshots[i] \cup
         {[received |-> clock + 1, quote |-> quote, error |-> FALSE]}
    /\ calendar'[i] = known
    /\ returned'[i] = returned[i] \cup ComeBack(i, known)
    /\ \A j \in Isins \ {i} :
         /\ instrument'[j] = instrument[j] /\ actions'[j] = actions[j]
         /\ snapshots'[j] = snapshots[j]
         /\ calendar'[j] = calendar[j] /\ returned'[j] = returned[j]

\* The functions stay functions, and one instrument changes.
LEMMA RefreshFacts ==
    ASSUME MarketInv, NEW i \in Isins, NEW answer \in Answers, Refresh(i, answer)
    PROVE  /\ Refreshed(i, Quoted(answer), Calendar(answer))
           /\ instrument' = [j \in Isins |-> instrument'[j]]
           /\ actions' = [j \in Isins |-> actions'[j]]
           /\ snapshots' = [j \in Isins |-> snapshots'[j]]
           /\ calendar' = [j \in Isins |-> calendar'[j]]
           /\ returned' = [j \in Isins |-> returned'[j]]
  <1> DEFINE quote == Quoted(answer)
             known == Calendar(answer)
             new == known \ DOMAIN actions[i]
             row == [known |-> "quoted", face |-> quote.face, day |-> quote.day]
  <1>1. quote \in Quotes /\ known \in Calendars
    BY AnswerAssumption
  <1>2. /\ clock < MaxClock /\ clock' = clock + 1
        /\ instrument' = [instrument EXCEPT ![i] = row]
        /\ actions' = [actions EXCEPT ![i] = Extended(@, new, clock + 1)]
        /\ snapshots' = [snapshots EXCEPT ![i] = @ \cup
             {[received |-> clock + 1, quote |-> quote, error |-> FALSE]}]
        /\ calendar' = [calendar EXCEPT ![i] = known]
        /\ returned' = [returned EXCEPT ![i] = @ \cup ComeBack(i, known)]
    BY DEF Refresh, Publish
  <1> HIDE DEF quote, known, new, row
  <1>3. /\ instrument'[i] = row /\ actions'[i] = Extended(actions[i], new, clock + 1)
        /\ snapshots'[i] = snapshots[i] \cup
             {[received |-> clock + 1, quote |-> quote, error |-> FALSE]}
        /\ calendar'[i] = known /\ returned'[i] = returned[i] \cup ComeBack(i, known)
    BY <1>2 DEF MarketInv
  <1>4. \A j \in Isins \ {i} :
          /\ instrument'[j] = instrument[j] /\ actions'[j] = actions[j]
          /\ snapshots'[j] = snapshots[j]
          /\ calendar'[j] = calendar[j] /\ returned'[j] = returned[j]
    BY <1>2 DEF MarketInv
  <1>5. row.known = "quoted" /\ row.day = quote.day
    BY DEF row
  <1>6. /\ DOMAIN actions'[i] = new \cup DOMAIN actions[i]
        /\ \A a \in DOMAIN actions'[i] :
             actions'[i][a] = IF a \in new THEN clock + 1 ELSE actions[i][a]
    BY <1>3 DEF Extended
  <1>7. Refreshed(i, quote, known)
    BY <1>1, <1>2, <1>3, <1>4, <1>5, <1>6 DEF Refreshed, new
  <1>8. /\ instrument' = [j \in Isins |-> instrument'[j]]
        /\ actions' = [j \in Isins |-> actions'[j]]
        /\ snapshots' = [j \in Isins |-> snapshots'[j]]
        /\ calendar' = [j \in Isins |-> calendar'[j]]
        /\ returned' = [j \in Isins |-> returned'[j]]
    BY <1>2 DEF MarketInv
  <1> QED
    BY <1>7, <1>8 DEF quote, known

\* A refresh keeps what holds of the market data.
LEMMA RefreshKeeps ==
    ASSUME MarketInv, NEW i \in Isins, NEW answer \in Answers, Refresh(i, answer)
    PROVE  MarketInv'
  <1> DEFINE quote == Quoted(answer)
             known == Calendar(answer)
             new == known \ DOMAIN actions[i]
             last == [received |-> clock + 1, quote |-> quote, error |-> FALSE]
  <1>1. Refreshed(i, quote, known)
    BY RefreshFacts
  <1>2. clock \in Nat /\ MaxClock \in Nat /\ clock' = clock + 1 /\ clock' \in 0..MaxClock
    BY <1>1, DaysAssumption DEF MarketInv, Refreshed
  <1>3. quote \in Quotes /\ quote.day \in Nat
    BY <1>1, DaysAssumption DEF Refreshed
  <1>4. \A j \in Isins : j # i =>
          /\ instrument'[j] = instrument[j] /\ actions'[j] = actions[j]
          /\ snapshots'[j] = snapshots[j]
          /\ calendar'[j] = calendar[j] /\ returned'[j] = returned[j]
    BY <1>1 DEF Refreshed
  <1>5. /\ instrument'[i].day = quote.day
        /\ DOMAIN actions'[i] = new \cup DOMAIN actions[i]
        /\ \A a \in DOMAIN actions'[i] :
             actions'[i][a] = IF a \in new THEN clock + 1 ELSE actions[i][a]
        /\ snapshots'[i] = snapshots[i] \cup {last}
        /\ calendar'[i] = known
        /\ returned'[i] = returned[i] \cup ComeBack(i, known)
    BY <1>1 DEF Refreshed
  <1>7. last.received = clock + 1 /\ last.quote = quote
    OBVIOUS
  <1>8. \A j \in Isins :
          /\ instrument[j].day \in Nat
          /\ \A a \in DOMAIN actions[j] : actions[j][a] \in 1..clock
          /\ \A s \in snapshots[j] : s.received \in 1..clock /\ s.quote \in Quotes
    BY DEF MarketInv, Times
  <1> HIDE DEF quote, known, new, last
  <1>9. Times'
    <2> SUFFICES ASSUME NEW j \in Isins
                 PROVE  /\ instrument'[j].day \in Nat
                        /\ \A a \in DOMAIN actions'[j] : actions'[j][a] \in 1..clock'
                        /\ \A s \in snapshots'[j] : s.received \in 1..clock' /\ s.quote \in Quotes
      BY DEF Times
    <2>1. CASE j # i
      BY <2>1, <1>2, <1>4, <1>8
    <2>2. CASE j = i
      <3>1. \A a \in DOMAIN actions'[i] : actions'[i][a] \in 1..clock'
        BY <1>2, <1>5, <1>8
      <3>2. \A s \in snapshots'[i] : s.received \in 1..clock' /\ s.quote \in Quotes
        BY <1>2, <1>3, <1>5, <1>7, <1>8
      <3> QED
        BY <2>2, <3>1, <3>2, <1>3, <1>5
    <2> QED
      BY <2>1, <2>2
  <1>11. CalendarIsStored'
    <2> SUFFICES ASSUME NEW j \in Isins
                 PROVE  /\ calendar'[j] \subseteq DOMAIN actions'[j]
                        /\ \A a \in calendar'[j] \ returned'[j] :
                             \A b \in DOMAIN actions'[j] \ calendar'[j] :
                               SameEvent(a, b) /\ b.amount # NoAmount =>
                                 actions'[j][b] < actions'[j][a]
      BY DEF CalendarIsStored, SameEvent
    <2>1. CASE j # i
      BY <2>1, <1>4 DEF MarketInv, CalendarIsStored
    <2>2. CASE j = i
      <3>1. known \subseteq DOMAIN actions'[i]
        BY <1>5 DEF new
      <3>2. ASSUME NEW a \in known \ returned'[i], NEW b \in DOMAIN actions'[i] \ known,
                   SameEvent(a, b), b.amount # NoAmount
            PROVE  actions'[i][b] < actions'[i][a]
        <4>1. b \in DOMAIN actions[i] /\ b \notin new /\ actions'[i][b] = actions[i][b]
          BY <1>5 DEF new
        <4>2. actions[i][b] \in 1..clock
          BY <4>1, <1>8
        <4>3. CASE a \in new
          BY <4>1, <4>2, <4>3, <3>1, <1>2, <1>5
        <4>4. CASE a \notin new
          <5>1. a \in DOMAIN actions[i] /\ actions'[i][a] = actions[i][a]
            BY <4>4, <3>1, <1>5
          <5>2. ~(actions[i][b] >= actions[i][a])
            BY <5>1, <4>1, <3>2, <1>5 DEF ComeBack
          <5>3. actions[i][a] \in 1..clock
            BY <5>1, <1>8
          <5> QED
            BY <5>1, <5>2, <5>3, <4>1, <4>2, <1>2
        <4> QED
          BY <4>3, <4>4
      <3> QED
        BY <2>2, <3>1, <3>2, <1>5
    <2> QED
      BY <2>1, <2>2
  <1>12. SnapshotsFollow'
    <2> SUFFICES ASSUME NEW j \in Isins
                 PROVE  \A a \in DOMAIN actions'[j] : \E s \in snapshots'[j] : actions'[j][a] <= s.received
      BY DEF SnapshotsFollow
    <2>1. CASE j # i
      BY <2>1, <1>4 DEF MarketInv, SnapshotsFollow
    <2>2. CASE j = i
      <3>1. last \in snapshots'[i]
        BY <1>5
      <3>2. \A a \in DOMAIN actions'[i] : actions'[i][a] <= last.received
        BY <1>2, <1>5, <1>7, <1>8
      <3> QED
        BY <2>2, <3>1, <3>2
    <2> QED
      BY <2>1, <2>2
  <1>13. NewestIsStored'
    <2> SUFFICES ASSUME NEW j \in Isins, NEW a \in DOMAIN actions'[j], a.amount # NoAmount
                 PROVE  \E b \in DOMAIN actions'[j] :
                          /\ b.amount # NoAmount /\ SameEvent(a, b)
                          /\ \A c \in DOMAIN actions'[j] :
                               SameEvent(b, c) /\ c.amount # NoAmount =>
                                 actions'[j][c] <= actions'[j][b]
      BY DEF NewestIsStored, SameEvent
    <2>1. CASE j # i
      BY <2>1, <1>4 DEF MarketInv, NewestIsStored
    <2>2. CASE j = i /\ \E b \in new : b.amount # NoAmount /\ SameEvent(a, b)
      <3>1. PICK b \in new : b.amount # NoAmount /\ SameEvent(a, b)
        BY <2>2
      <3>2. b \in DOMAIN actions'[i] /\ actions'[i][b] = clock + 1
        BY <3>1, <1>5
      <3>3. \A c \in DOMAIN actions'[i] : actions'[i][c] <= clock + 1
        BY <1>2, <1>5, <1>8
      <3> QED
        BY <2>2, <3>1, <3>2, <3>3
    <2>3. CASE j = i /\ \A b \in new : b.amount # NoAmount => ~SameEvent(a, b)
      <3>1. a \notin new
        BY <2>3 DEF SameEvent
      <3>2. a \in DOMAIN actions[i]
        BY <2>3, <3>1, <1>5
      <3>3. PICK b \in DOMAIN actions[i] :
              /\ b.amount # NoAmount /\ SameEvent(a, b)
              /\ \A c \in DOMAIN actions[i] :
                   SameEvent(b, c) /\ c.amount # NoAmount => actions[i][c] <= actions[i][b]
        BY <3>2 DEF MarketInv, NewestIsStored
      <3>4. b \notin new /\ \A c \in new : c.amount # NoAmount => ~SameEvent(b, c)
        BY <2>3, <3>3 DEF SameEvent
      <3>5. b \in DOMAIN actions'[i] /\ actions'[i][b] = actions[i][b]
        BY <3>3, <3>4, <1>5
      <3>6. \A c \in DOMAIN actions'[i] :
              SameEvent(b, c) /\ c.amount # NoAmount => actions'[i][c] <= actions'[i][b]
        BY <3>3, <3>4, <3>5, <1>5
      <3> QED
        BY <2>3, <3>3, <3>5, <3>6
    <2> QED
      BY <2>1, <2>2, <2>3
  <1> QED
    BY <1>2, <1>9, <1>11, <1>12, <1>13, RefreshFacts DEF MarketInv

-----------------------------------------------------------------------------
Columns == {"state", "isin", "purchase", "bought", "target", "price", "reason", "dated"}

Fields == {"step", "lot", "patch", "seen", "face", "day", "stamps", "rows", "plan"}

OpenRow(row) ==
    /\ DOMAIN row = Columns /\ row.state = "open"
    /\ row.isin \in Isins /\ row.purchase \in Purchases
    /\ row.bought \in Days /\ row.target \in Targets
    /\ row.price \in Prices \cup {NoAmount} /\ row.reason \in Reasons \cup {NoReason}
    /\ row.dated \in BOOLEAN

\* The row of a lot, and of its instrument.
RowOK(l) ==
    \/ lot[l] = NoRow
    \/ OpenRow(lot[l]) /\ instrument[lot[l].isin].known # "absent"

\* A manual price of a lot is explained.
PriceOK(l) ==
    lot[l].state = "open" /\ lot[l].price # NoAmount =>
        l \in unexplained \/ (lot[l].dated /\ lot[l].reason # NoReason)

\* A result is of an open lot, and its quote as new as what was read before.
YieldOK(l) ==
    yields[l] # NoYield =>
        /\ lot[l].state = "open" /\ yields[l].received \in 0..clock
        /\ \A t \in yields[l].plan.stamps : t <= yields[l].received

\* Stamps of what is stored of an instrument: some snapshot is as new.
Stored(stamps, isin) ==
    \A t \in stamps : t \in Nat /\ \E s \in snapshots[isin] : t <= s.received

\* The market goes on, so what a calculation has read is no newer than what is stored.
ReadsAreOld(r) ==
    LET isin == request[r].seen.isin IN
    /\ request[r].step = "reading" =>
         request[r].day \in Nat /\ Stored(request[r].stamps, isin)
    /\ request[r].step = "pricing" =>
         /\ request[r].rows \subseteq DOMAIN actions[isin]
         /\ Stored(request[r].plan.stamps, isin)

\* What a request has read of a lot, and what it knows of the lot that is there now.
Knows(r) ==
    /\ DOMAIN request[r] = Fields
    /\ request[r].step \in {"idle", "updating", "reading", "pricing"}
    /\ request[r].step # "idle" =>
         /\ request[r].lot \in LotIds /\ OpenRow(request[r].seen)
         /\ instrument[request[r].seen.isin].known # "absent"
         /\ lot[request[r].lot].state = "open" => lot[request[r].lot].isin = request[r].seen.isin
    /\ request[r].step = "updating" => request[r].patch \in Patches /\ ValidPatch(request[r].patch)
    /\ request[r].step = "pricing" => request[r].seen.target.date > request[r].seen.bought

LotInv ==
    /\ lot = [l \in LotIds |-> lot[l]]
    /\ yields = [l \in LotIds |-> yields[l]]
    /\ request = [r \in Requests |-> request[r]]
    /\ \A l \in LotIds : RowOK(l) /\ PriceOK(l) /\ YieldOK(l)
    /\ \A r \in Requests : Knows(r) /\ ReadsAreOld(r)

IInv == MarketInv /\ LotInv

-----------------------------------------------------------------------------
\* What a patch assigns: columns of a lot, of their types, and an override with all three.
LEMMA AssignedColumns ==
    ASSUME NEW patch \in Patches, ValidPatch(patch)
    PROVE  LET new == Assigned(patch) IN
           /\ DOMAIN new \subseteq {"bought", "target", "price", "reason", "dated"}
           /\ "bought" \in DOMAIN new => new["bought"] \in Days
           /\ "target" \in DOMAIN new => new["target"] \in Targets
           /\ "price" \in DOMAIN new => new["price"] \in Prices \cup {NoAmount}
           /\ "reason" \in DOMAIN new => new["reason"] \in Reasons \cup {NoReason}
           /\ "dated" \in DOMAIN new => new["dated"] \in BOOLEAN
           /\ "price" \in DOMAIN new /\ new["price"] # NoAmount =>
                /\ "reason" \in DOMAIN new /\ new["reason"] # NoReason
                /\ "dated" \in DOMAIN new /\ new["dated"]
           /\ "reason" \in DOMAIN new /\ "price" \notin DOMAIN new =>
                "dated" \in DOMAIN new /\ new["dated"]
           /\ "dated" \in DOMAIN new => "price" \in DOMAIN new \/ "reason" \in DOMAIN new
  <1> DEFINE new == Assigned(patch)
  <1>1. DOMAIN patch \subseteq {"bought", "target", "price", "reason"}
    BY DEF ValidPatch
  <1>2. /\ DOMAIN new = DOMAIN patch \cup (IF Removes(patch) THEN {"reason"} ELSE {})
                                     \cup (IF Touches(patch) THEN {"dated"} ELSE {})
        /\ \A c \in DOMAIN new : new[c] =
             IF c = "dated" THEN ~Removes(patch)
             ELSE IF c = "reason" /\ Removes(patch) THEN NoReason ELSE patch[c]
    BY DEF Assigned
  <1> HIDE DEF new
  <1>3. DOMAIN new \subseteq {"bought", "target", "price", "reason", "dated"}
    BY <1>1, <1>2
  <1>4. \A c \in {"bought", "target", "price"} :
          c \in DOMAIN new => c \in DOMAIN patch /\ new[c] = patch[c]
    BY <1>2
  <1>5. "reason" \in DOMAIN new =>
          \/ Removes(patch) /\ new["reason"] = NoReason
          \/ ~Removes(patch) /\ "reason" \in DOMAIN patch /\ new["reason"] = patch["reason"]
    BY <1>1, <1>2
  <1>6. "dated" \in DOMAIN new =>
          Touches(patch) /\ new["dated"] \in BOOLEAN /\ (new["dated"] <=> ~Removes(patch))
    BY <1>1, <1>2
  <1>7. Touches(patch) => "dated" \in DOMAIN new
    BY <1>2
  <1>8. "price" \in DOMAIN new /\ new["price"] # NoAmount =>
          /\ "reason" \in DOMAIN new /\ new["reason"] # NoReason
          /\ "dated" \in DOMAIN new /\ new["dated"]
    <2> SUFFICES ASSUME "price" \in DOMAIN new, new["price"] # NoAmount
                 PROVE  /\ "reason" \in DOMAIN new /\ new["reason"] # NoReason
                        /\ "dated" \in DOMAIN new /\ new["dated"]
      OBVIOUS
    <2>1. "price" \in DOMAIN patch /\ patch["price"] # NoAmount
      BY <1>4
    <2>2. "reason" \in DOMAIN patch /\ patch["reason"] # NoReason
      BY <2>1 DEF ValidPatch
    <2>3. ~Removes(patch) /\ Touches(patch)
      BY <2>1 DEF Removes, Touches
    <2> QED
      BY <2>2, <2>3, <1>2, <1>5, <1>6, <1>7
  <1>9. "reason" \in DOMAIN new /\ "price" \notin DOMAIN new =>
          "dated" \in DOMAIN new /\ new["dated"]
    <2> SUFFICES ASSUME "reason" \in DOMAIN new, "price" \notin DOMAIN new
                 PROVE  "dated" \in DOMAIN new /\ new["dated"]
      OBVIOUS
    <2>1. ~Removes(patch)
      BY <1>2 DEF Removes
    <2>2. Touches(patch)
      BY <2>1, <1>5 DEF Touches
    <2> QED
      BY <2>1, <2>2, <1>6, <1>7
  <1>10. "dated" \in DOMAIN new => "price" \in DOMAIN new \/ "reason" \in DOMAIN new
    BY <1>2, <1>6 DEF Touches
  <1>11. /\ "bought" \in DOMAIN new => new["bought"] \in Days
         /\ "target" \in DOMAIN new => new["target"] \in Targets
         /\ "price" \in DOMAIN new => new["price"] \in Prices \cup {NoAmount}
         /\ "reason" \in DOMAIN new => new["reason"] \in Reasons \cup {NoReason}
    BY <1>4, <1>5, PatchAssumption
  <1> QED
    BY <1>3, <1>6, <1>8, <1>9, <1>10, <1>11 DEF new

\* An update keeps the row of a lot well typed and its instrument.
LEMMA UpdatedRow ==
    ASSUME NEW row, OpenRow(row), NEW patch \in Patches, ValidPatch(patch),
           NEW written \in SUBSET DOMAIN Assigned(patch),
           NEW updated,
           updated = [c \in DOMAIN row |-> IF c \in written THEN Assigned(patch)[c] ELSE row[c]]
    PROVE  OpenRow(updated) /\ updated.isin = row.isin
  <1> DEFINE new == Assigned(patch)
  <1>1. /\ DOMAIN updated = Columns
        /\ \A c \in Columns : updated[c] = IF c \in written THEN new[c] ELSE row[c]
    BY DEF OpenRow
  <1>2. written \subseteq {"bought", "target", "price", "reason", "dated"}
    BY AssignedColumns
  <1>3. updated.state = row.state /\ updated.isin = row.isin /\ updated.purchase = row.purchase
    BY <1>1, <1>2 DEF Columns
  <1>4. updated.bought \in Days /\ updated.target \in Targets
    BY <1>1, AssignedColumns DEF Columns, OpenRow
  <1>5. updated.price \in Prices \cup {NoAmount} /\ updated.reason \in Reasons \cup {NoReason}
    BY <1>1, AssignedColumns DEF Columns, OpenRow
  <1>6. updated.dated \in BOOLEAN
    BY <1>1, AssignedColumns DEF Columns, OpenRow
  <1> QED
    BY <1>1, <1>3, <1>4, <1>5, <1>6 DEF OpenRow

-----------------------------------------------------------------------------
\* What only adds snapshots and instruments keeps what others have read and computed.
LEMMA OthersKeep ==
    ASSUME IInv, MarketInv',
           UNCHANGED <<lot, yields, request>>,
           clock \in Nat, clock' \in Nat, clock <= clock',
           \A i \in Isins : /\ instrument[i].known # "absent" => instrument'[i].known # "absent"
                            /\ DOMAIN actions[i] \subseteq DOMAIN actions'[i]
                            /\ snapshots[i] \subseteq snapshots'[i]
                            /\ \A s \in snapshots'[i] \ snapshots[i] : s.received > clock,
           unexplained' = unexplained
    PROVE  LotInv'
  <1>1. ASSUME NEW l \in LotIds PROVE RowOK(l)' /\ PriceOK(l)' /\ YieldOK(l)'
    <2>1. RowOK(l) /\ PriceOK(l) /\ YieldOK(l)
      BY DEF IInv, LotInv
    <2>2. RowOK(l)'
      BY <2>1 DEF RowOK, OpenRow
    <2>3. PriceOK(l)'
      BY <2>1 DEF PriceOK
    <2>4. yields[l] # NoYield =>
            /\ lot[l].state = "open" /\ yields[l].received \in 0..clock'
            /\ \A t \in yields[l].plan.stamps : t <= yields[l].received
      BY <2>1 DEF YieldOK
    <2>5. YieldOK(l)'
      BY <2>4 DEF YieldOK
    <2> QED
      BY <2>2, <2>3, <2>5
  <1>2. ASSUME NEW r \in Requests PROVE Knows(r)' /\ ReadsAreOld(r)'
    <2>1. Knows(r) /\ ReadsAreOld(r)
      BY DEF IInv, LotInv
    <2>2. request[r].step # "idle" => request[r].seen.isin \in Isins
      BY <2>1 DEF Knows, OpenRow
    <2>3. Knows(r)'
      BY <2>1, <2>2 DEF Knows, OpenRow, ValidPatch
    <2>4. ASSUME request[r].step \in {"reading", "pricing"}
          PROVE  /\ snapshots[request[r].seen.isin] \subseteq snapshots'[request[r].seen.isin]
                 /\ DOMAIN actions[request[r].seen.isin] \subseteq DOMAIN actions'[request[r].seen.isin]
      BY <2>2, <2>4
    <2>7. ReadsAreOld(r)'
      BY <2>1, <2>4 DEF ReadsAreOld, Stored
    <2> QED
      BY <2>3, <2>7
  <1> QED
    BY <1>1, <1>2 DEF LotInv, IInv

\* A refresh.
LEMMA KeepRefresh ==
    ASSUME IInv, NEW i \in Isins, NEW answer \in Answers, Refresh(i, answer)
    PROVE  IInv'
  <1>1. MarketInv /\ MarketInv'
    BY RefreshKeeps DEF IInv
  <1>2. UNCHANGED <<lot, yields, request, unexplained>>
    BY DEF Refresh
  <1>3. Refreshed(i, Quoted(answer), Calendar(answer))
    BY <1>1, RefreshFacts
  <1>4. clock \in Nat /\ clock' \in Nat /\ clock' = clock + 1
    BY <1>1, <1>3 DEF MarketInv, Refreshed
  <1>6. ASSUME NEW j \in Isins
        PROVE  /\ instrument[j].known # "absent" => instrument'[j].known # "absent"
               /\ DOMAIN actions[j] \subseteq DOMAIN actions'[j]
               /\ snapshots[j] \subseteq snapshots'[j]
               /\ \A s \in snapshots'[j] \ snapshots[j] : s.received > clock
    BY <1>3, <1>4 DEF Refreshed
  <1>7. LotInv'
    BY <1>1, <1>2, <1>4, <1>6, OthersKeep
  <1> QED
    BY <1>1, <1>7 DEF IInv

\* The market data and their history stay when the row of an instrument is added.
LEMMA BareKeeps ==
    ASSUME MarketInv, NEW i \in Isins,
           instrument' = [instrument EXCEPT ![i] = IF @.known = "absent" THEN Bare ELSE @],
           UNCHANGED <<actions, snapshots, clock, calendar, returned>>
    PROVE  /\ MarketInv'
           /\ instrument'[i].known # "absent"
           /\ \A j \in Isins : /\ instrument[j].known # "absent" => instrument'[j] = instrument[j]
                               /\ instrument'[j].known # instrument[j].known => j = i
  <1>1. \A j \in Isins : j # i => instrument'[j] = instrument[j]
    BY DEF MarketInv
  <1>2. instrument'[i] = IF instrument[i].known = "absent" THEN Bare ELSE instrument[i]
    BY DEF MarketInv
  <1>3. instrument' = [j \in Isins |-> instrument'[j]]
    BY DEF MarketInv
  <1>4. Bare.known # "absent" /\ Bare.day = 0
    BY DEF Bare
  <1>5. Times'
    BY <1>1, <1>2, <1>4 DEF MarketInv, Times
  <1>6. CalendarIsStored' /\ NewestIsStored' /\ SnapshotsFollow'
    BY DEF MarketInv, CalendarIsStored, NewestIsStored, SnapshotsFollow
  <1> QED
    BY <1>1, <1>2, <1>3, <1>4, <1>5, <1>6 DEF MarketInv

\* A new lot.
LEMMA KeepCreate ==
    ASSUME IInv, NEW l \in LotIds, NEW i \in Isins, NEW purchase \in Purchases, NEW bought \in Days,
           NEW target \in Targets, NEW price \in Prices \cup {NoAmount},
           NEW reason \in Reasons \cup {NoReason},
           Create(l, i, purchase, bought, target, price, reason)
    PROVE  IInv'
  <1> DEFINE row == [state |-> "open", isin |-> i, purchase |-> purchase, bought |-> bought,
                     target |-> target, price |-> price, reason |-> reason,
                     dated |-> price # NoAmount]
  <1>1. /\ lot[l].state = "none" /\ \A r \in Requests : request[r].lot # l
        /\ Explained(price, reason)
        /\ lot' = [lot EXCEPT ![l] = row]
        /\ UNCHANGED <<yields, request, clock, unexplained, actions, snapshots>>
    BY DEF Create, history
  <1>2. /\ MarketInv'
        /\ instrument'[i].known # "absent"
        /\ \A j \in Isins : instrument[j].known # "absent" => instrument'[j] = instrument[j]
    BY BareKeeps DEF IInv, Create, history
  <1>3. OpenRow(row) /\ row.isin = i /\ row.price = price /\ row.reason = reason
    BY DEF OpenRow, Columns
  <1>4. row.price # NoAmount => row.dated
    OBVIOUS
  <1> HIDE DEF row
  <1>5. lot'[l] = row /\ \A k \in LotIds : k # l => lot'[k] = lot[k]
    BY <1>1 DEF IInv, LotInv
  <1>6. ASSUME NEW k \in LotIds PROVE RowOK(k)' /\ PriceOK(k)' /\ YieldOK(k)'
    <2>1. RowOK(k) /\ PriceOK(k) /\ YieldOK(k)
      BY DEF IInv, LotInv
    <2>2. CASE k = l
      <3>1. RowOK(k)'
        BY <2>2, <1>2, <1>3, <1>5 DEF RowOK, OpenRow
      <3>2. PriceOK(k)'
        BY <2>2, <1>1, <1>3, <1>4, <1>5 DEF PriceOK, Explained
      <3>3. YieldOK(k)'
        BY <2>1, <2>2, <1>1 DEF YieldOK
      <3> QED
        BY <3>1, <3>2, <3>3
    <2>3. CASE k # l
      <3>1. RowOK(k)'
        BY <2>1, <2>3, <1>2, <1>5 DEF RowOK, OpenRow
      <3>2. PriceOK(k)'
        BY <2>1, <2>3, <1>1, <1>5 DEF PriceOK
      <3>3. YieldOK(k)'
        BY <2>1, <2>3, <1>1, <1>5 DEF YieldOK
      <3> QED
        BY <3>1, <3>2, <3>3
    <2> QED
      BY <2>2, <2>3
  <1>7. ASSUME NEW r \in Requests PROVE Knows(r)' /\ ReadsAreOld(r)'
    <2>1. Knows(r) /\ ReadsAreOld(r) /\ request'[r] = request[r] /\ request[r].lot # l
      BY <1>1 DEF IInv, LotInv
    <2>2. Knows(r)'
      BY <2>1, <1>2, <1>5 DEF Knows, OpenRow, ValidPatch
    <2>3. request[r].step # "idle" => instrument'[request[r].seen.isin] = instrument[request[r].seen.isin]
      BY <2>1, <1>2 DEF Knows, OpenRow
    <2>4. ReadsAreOld(r)'
      BY <2>1, <2>3, <1>1 DEF ReadsAreOld, Stored
    <2> QED
      BY <2>2, <2>4
  <1> QED
    BY <1>1, <1>2, <1>5, <1>6, <1>7 DEF IInv, LotInv

-----------------------------------------------------------------------------
\* A step of one request that leaves the tables alone.
LEMMA RequestSteps ==
    ASSUME IInv, NEW r \in Requests, UNCHANGED <<tables, clock, history>>,
           request' = [q \in Requests |-> request'[q]],
           \A q \in Requests : q # r => request'[q] = request[q],
           Knows(r)', ReadsAreOld(r)'
    PROVE  IInv'
  <1>1. UNCHANGED <<instrument, actions, snapshots, lot, yields, clock, calendar, returned, unexplained>>
    BY DEF tables, marketVars, history
  <1>2. MarketInv'
    BY <1>1 DEF IInv, MarketInv, Times, CalendarIsStored, SnapshotsFollow,
                    NewestIsStored, Newest
  <1>3. \A l \in LotIds : RowOK(l)' /\ PriceOK(l)' /\ YieldOK(l)'
    BY <1>1 DEF IInv, LotInv, RowOK, PriceOK, YieldOK, OpenRow
  <1>4. ASSUME NEW q \in Requests PROVE Knows(q)' /\ ReadsAreOld(q)'
    <2>1. CASE q = r
      BY <2>1
    <2>2. CASE q # r
      <3>1. Knows(q) /\ ReadsAreOld(q) /\ request'[q] = request[q]
        BY <2>2 DEF IInv, LotInv
      <3>2. Knows(q)'
        BY <1>1, <3>1 DEF Knows, OpenRow, ValidPatch
      <3>3. ReadsAreOld(q)'
        BY <1>1, <3>1 DEF ReadsAreOld, Stored
      <3> QED
        BY <3>2, <3>3
    <2> QED
      BY <2>1, <2>2
  <1> QED
    BY <1>1, <1>2, <1>3, <1>4 DEF IInv, LotInv

\* A lot that is read is open, so its row and its instrument are there.
LEMMA OpenIsKnown ==
    ASSUME IInv, NEW l \in LotIds, lot[l].state = "open"
    PROVE  OpenRow(lot[l]) /\ instrument[lot[l].isin].known # "absent"
  BY DEF IInv, LotInv, RowOK, NoRow

\* An update begins.
LEMMA KeepBeginUpdate ==
    ASSUME IInv, NEW r \in Requests, NEW l \in LotIds, NEW patch \in Patches,
           BeginUpdate(r, l, patch)
    PROVE  IInv'
  <1> DEFINE new == [Idle EXCEPT !.step = "updating", !.lot = l, !.patch = patch, !.seen = lot[l]]
  <1>1. /\ UNCHANGED <<tables, clock, history>> /\ ValidPatch(patch) /\ lot[l].state = "open"
        /\ request' = [request EXCEPT ![r] = new]
    BY DEF BeginUpdate
  <1>2. new.step = "updating" /\ new.lot = l /\ new.patch = patch /\ new.seen = lot[l]
        /\ DOMAIN new = Fields
    BY DEF Idle, Fields
  <1> HIDE DEF new
  <1>3. /\ request'[r] = new /\ request' = [q \in Requests |-> request'[q]]
        /\ \A q \in Requests : q # r => request'[q] = request[q]
    BY <1>1 DEF IInv, LotInv
  <1>4. OpenRow(lot[l]) /\ instrument[lot[l].isin].known # "absent"
    BY <1>1, OpenIsKnown
  <1>5. UNCHANGED <<instrument, lot>>
    BY <1>1 DEF tables, marketVars
  <1>6. Knows(r)'
    BY <1>1, <1>2, <1>3, <1>4, <1>5 DEF Knows, OpenRow, ValidPatch
  <1>7. ReadsAreOld(r)'
    BY <1>2, <1>3 DEF ReadsAreOld
  <1> QED
    BY <1>1, <1>3, <1>6, <1>7, RequestSteps

\* A calculation begins.
LEMMA KeepBeginCalculate ==
    ASSUME IInv, NEW r \in Requests, NEW l \in LotIds, BeginCalculate(r, l)
    PROVE  IInv'
  <1> DEFINE i == lot[l].isin
             new == [Idle EXCEPT !.step = "reading", !.lot = l, !.seen = lot[l],
                                 !.face = instrument[i].face, !.day = instrument[i].day,
                                 !.stamps = {s.received : s \in snapshots[i]}]
  <1>1. /\ UNCHANGED <<tables, clock, history>> /\ lot[l].state = "open"
        /\ request' = [request EXCEPT ![r] = new]
    BY DEF BeginCalculate
  <1>2. /\ new.step = "reading" /\ new.lot = l /\ new.seen = lot[l]
        /\ new.day = instrument[i].day /\ DOMAIN new = Fields
        /\ new.stamps = {s.received : s \in snapshots[i]}
    BY DEF Idle, Fields
  <1> HIDE DEF new
  <1>3. /\ request'[r] = new /\ request' = [q \in Requests |-> request'[q]]
        /\ \A q \in Requests : q # r => request'[q] = request[q]
    BY <1>1 DEF IInv, LotInv
  <1>4. OpenRow(lot[l]) /\ instrument[i].known # "absent"
    BY <1>1, OpenIsKnown
  <1>5. UNCHANGED <<instrument, snapshots, lot>>
    BY <1>1 DEF tables, marketVars
  <1>6. Knows(r)'
    BY <1>1, <1>2, <1>3, <1>4, <1>5 DEF Knows, OpenRow
  <1>7. /\ instrument[i].day \in Nat /\ clock \in Nat
        /\ \A s \in snapshots[i] : s.received \in 1..clock
    <2>1. i \in Isins /\ clock \in Nat
      BY <1>4 DEF OpenRow, IInv, MarketInv
    <2> QED
      BY <2>1 DEF IInv, MarketInv, Times
  <1>8. Stored(new.stamps, i)
    BY <1>2, <1>7 DEF Stored
  <1>9. ReadsAreOld(r)'
    BY <1>2, <1>3, <1>5, <1>7, <1>8 DEF ReadsAreOld, Stored
  <1> QED
    BY <1>1, <1>3, <1>6, <1>9, RequestSteps

\* A calculation reads the actions.
LEMMA KeepReadActions ==
    ASSUME IInv, NEW r \in Requests, ReadActions(r)
    PROVE  IInv'
  <1> DEFINE row == request[r].seen
             rows == DOMAIN actions[row.isin]
  <1>1. request[r].step = "reading" /\ UNCHANGED <<tables, clock, history>>
    BY DEF ReadActions
  <1>2. Knows(r) /\ ReadsAreOld(r)
    BY DEF IInv, LotInv
  <1>3. UNCHANGED <<instrument, actions, snapshots, lot>>
    BY <1>1 DEF tables, marketVars
  <1>4. CASE request' = [request EXCEPT ![r] = Idle]
    <2>1. /\ request'[r].step = "idle" /\ DOMAIN request'[r] = Fields
          /\ request' = [q \in Requests |-> request'[q]]
          /\ \A q \in Requests : q # r => request'[q] = request[q]
      BY <1>4 DEF IInv, LotInv, Idle, Fields
    <2>2. Knows(r)' /\ ReadsAreOld(r)'
      BY <2>1 DEF Knows, ReadsAreOld
    <2> QED
      BY <1>1, <2>1, <2>2, RequestSteps
  <1>5. ASSUME NEW redemption,
               ~Raises(Purchase(row), Flows(rows), row.target.date,
                       Redemptions(row, rows, request[r].face)),
               request' = [request EXCEPT ![r].step = "pricing", ![r].rows = rows, ![r].plan =
                 [source    |-> Source(row, rows, request[r].face),
                  principal |-> redemption
                                + PaidOf("amortization", Flows(rows), row.bought, row.target.date),
                  faceDay   |-> request[r].day,
                  stamps    |-> request[r].stamps \cup {actions[row.isin][a] : a \in rows}]]
        PROVE  IInv'
    <2>1. PICK plan : /\ plan.stamps = request[r].stamps \cup {actions[row.isin][a] : a \in rows}
                      /\ request' = [request EXCEPT ![r].step = "pricing", ![r].rows = rows,
                                                   ![r].plan = plan]
      BY <1>5
    <2> HIDE DEF row, rows
    <2>2. /\ request' = [q \in Requests |-> request'[q]]
          /\ \A q \in Requests : q # r => request'[q] = request[q]
          /\ request'[r].step = "pricing" /\ request'[r].rows = rows /\ request'[r].plan = plan
          /\ request'[r].seen = request[r].seen /\ request'[r].lot = request[r].lot
          /\ DOMAIN request'[r] = Fields
      BY <1>2, <2>1 DEF IInv, LotInv, Knows, Fields
    <2> USE DEF row, rows
    <2>3. OpenRow(row)
      BY <1>1, <1>2 DEF Knows
    <2>4. row.target.date > row.bought
      <3>1. Purchase(row).bought = row.bought
        BY DEF Purchase
      <3>2. ~(row.target.date <= row.bought)
        BY <1>5, <3>1 DEF Raises
      <3>3. row.target.date \in Nat /\ row.bought \in Nat
        BY <2>3, DaysAssumption DEF OpenRow
      <3> QED
        BY <3>2, <3>3
    <2>5. Knows(r)'
      BY <1>1, <1>2, <1>3, <2>2, <2>3, <2>4 DEF Knows, OpenRow
    <2>6. Stored(plan.stamps, row.isin)
      <3>1. row.isin \in Isins /\ clock \in Nat
        BY <2>3 DEF OpenRow, IInv, MarketInv
      <3>2. ASSUME NEW a \in rows
            PROVE  /\ actions[row.isin][a] \in Nat
                   /\ \E s \in snapshots[row.isin] : actions[row.isin][a] <= s.received
        <4>1. actions[row.isin][a] \in 1..clock
          BY <3>1 DEF IInv, MarketInv, Times
        <4>2. \E s \in snapshots[row.isin] : actions[row.isin][a] <= s.received
          BY <3>1 DEF IInv, MarketInv, SnapshotsFollow
        <4> QED
          BY <3>1, <4>1, <4>2
      <3> QED
        BY <1>1, <1>2, <2>1, <3>2 DEF ReadsAreOld, Stored
    <2>7. ReadsAreOld(r)'
      BY <1>1, <1>3, <2>2, <2>6 DEF ReadsAreOld, Stored
    <2> QED
      BY <1>1, <2>2, <2>5, <2>7, RequestSteps
  <1> QED
    BY <1>4, <1>5 DEF ReadActions

-----------------------------------------------------------------------------
\* A step that changes lots and yields and ends requests.
LEMMA LotSteps ==
    ASSUME IInv, UNCHANGED <<marketVars, clock, calendar, returned>>,
           lot' = [l \in LotIds |-> lot'[l]], yields' = [l \in LotIds |-> yields'[l]],
           request' = [q \in Requests |-> request'[q]],
           \A l \in LotIds : RowOK(l)' /\ PriceOK(l)' /\ YieldOK(l)',
           \A l \in LotIds : lot'[l].state = "open" =>
                                lot[l].state = "open" /\ lot'[l].isin = lot[l].isin,
           \A q \in Requests : request'[q] \in {request[q], Idle}
    PROVE  IInv'
  <1>1. UNCHANGED <<instrument, actions, snapshots, clock, calendar, returned>>
    BY DEF marketVars
  <1>2. MarketInv'
    BY <1>1 DEF IInv, MarketInv, Times, CalendarIsStored, SnapshotsFollow,
                    NewestIsStored, Newest
  <1>3. Idle.step = "idle" /\ DOMAIN Idle = Fields
    BY DEF Idle, Fields
  <1>4. ASSUME NEW q \in Requests PROVE Knows(q)' /\ ReadsAreOld(q)'
    <2>1. CASE request'[q] = Idle
      BY <2>1, <1>3 DEF Knows, ReadsAreOld
    <2>2. CASE request'[q] = request[q]
      <3>1. Knows(q) /\ ReadsAreOld(q)
        BY DEF IInv, LotInv
      <3>2. Knows(q)'
        BY <1>1, <2>2, <3>1 DEF Knows, OpenRow, ValidPatch
      <3>3. ReadsAreOld(q)'
        BY <1>1, <2>2, <3>1 DEF ReadsAreOld, Stored
      <3> QED
        BY <3>2, <3>3
    <2> QED
      BY <2>1, <2>2
  <1> QED
    BY <1>2, <1>4 DEF IInv, LotInv

\* An update is committed.
LEMMA KeepCommitUpdate ==
    ASSUME IInv, NEW r \in Requests, CommitUpdate(r)
    PROVE  IInv'
  <1>1. PICK l \in LotIds : l = request[r].lot
    BY DEF CommitUpdate, IInv, LotInv, Knows
  <1> DEFINE seen == request[r].seen
             new == Assigned(request[r].patch)
             written == Written(r)
             updated == [c \in DOMAIN lot[l] |-> IF c \in written THEN new[c] ELSE lot[l][c]]
  <1>2. /\ request[r].step = "updating"
        /\ request' = [request EXCEPT ![r] = Idle]
        /\ lot' = IF lot[l].state = "open" THEN [lot EXCEPT ![l] = updated] ELSE lot
        /\ unexplained' =
             IF lot[l] # seen \/ Robs(new) THEN unexplained \cup {l}
             ELSE IF "price" \in DOMAIN new THEN unexplained \ {l}
             ELSE unexplained
        /\ UNCHANGED <<marketVars, yields, clock, calendar, returned>>
    BY <1>1 DEF CommitUpdate
  <1>3. /\ OpenRow(seen)
        /\ request[r].patch \in Patches /\ ValidPatch(request[r].patch)
    BY <1>2 DEF IInv, LotInv, Knows
  <1>4. /\ written \subseteq DOMAIN new
        /\ \A c \in DOMAIN new \ written : new[c] = seen[c] /\ ~(c = "dated" /\ new[c])
    BY DEF Written
  <1> HIDE DEF new, written, updated, seen
  <1>5. UNCHANGED <<instrument, actions, snapshots, yields, clock>>
    BY <1>2 DEF marketVars
  <1>6. \A k \in LotIds : RowOK(k) /\ PriceOK(k) /\ YieldOK(k)
    BY DEF IInv, LotInv
  <1>7. lot[l].state = "open" => OpenRow(updated) /\ updated.isin = lot[l].isin
    <2> SUFFICES ASSUME lot[l].state = "open" PROVE OpenRow(updated) /\ updated.isin = lot[l].isin
      OBVIOUS
    <2>1. OpenRow(lot[l])
      BY <1>3, OpenIsKnown
    <2>2. written \in SUBSET DOMAIN Assigned(request[r].patch)
      BY <1>4 DEF new
    <2>3. updated = [c \in DOMAIN lot[l] |->
                       IF c \in written THEN Assigned(request[r].patch)[c] ELSE lot[l][c]]
      BY DEF updated, new
    <2> QED
      BY <1>3, <2>1, <2>2, <2>3, UpdatedRow
  <1>8. /\ lot' = [k \in LotIds |-> lot'[k]]
        /\ \A k \in LotIds : k # l => lot'[k] = lot[k]
        /\ lot'[l] = IF lot[l].state = "open" THEN updated ELSE lot[l]
    BY <1>2, <1>3 DEF IInv, LotInv
  <1>9. \A k \in LotIds : /\ lot'[k].state = lot[k].state
                          /\ lot'[k].state = "open" => lot'[k].isin = lot[k].isin
    BY <1>7, <1>8 DEF OpenRow
  <1>10. ASSUME NEW k \in LotIds PROVE RowOK(k)'
    <2>1. CASE k = l /\ lot[l].state = "open"
      <3>1. OpenRow(lot'[k]) /\ lot'[k].isin = lot[k].isin
        BY <2>1, <1>7, <1>8
      <3>2. instrument[lot[k].isin].known # "absent"
        BY <2>1, OpenIsKnown
      <3> QED
        BY <3>1, <3>2, <1>5 DEF RowOK, OpenRow
    <2>2. CASE ~(k = l /\ lot[l].state = "open")
      <3>1. lot'[k] = lot[k]
        BY <2>2, <1>8
      <3> QED
        BY <3>1, <1>5, <1>6 DEF RowOK, OpenRow
    <2> QED
      BY <2>1, <2>2
  <1>11. ASSUME lot[l].state = "open" PROVE PriceOK(l)'
    <2>1. lot'[l] = updated /\ OpenRow(lot[l])
      BY <1>3, <1>8, <1>11, OpenIsKnown
    <2>2. CASE lot[l] # seen \/ Robs(new)
      BY <1>2, <2>2 DEF PriceOK
    <2>3. CASE lot[l] = seen /\ ~Robs(new)
      <3>1. /\ DOMAIN new \subseteq {"bought", "target", "price", "reason", "dated"}
            /\ "price" \in DOMAIN new /\ new["price"] # NoAmount =>
                 /\ "reason" \in DOMAIN new /\ new["reason"] # NoReason
                 /\ "dated" \in DOMAIN new /\ new["dated"]
            /\ "reason" \in DOMAIN new /\ "price" \notin DOMAIN new =>
                 "dated" \in DOMAIN new /\ new["dated"]
            /\ "dated" \in DOMAIN new => "price" \in DOMAIN new \/ "reason" \in DOMAIN new
        BY <1>3, AssignedColumns DEF new
      <3>2. \A c \in Columns : updated[c] = IF c \in DOMAIN new THEN new[c] ELSE lot[l][c]
        BY <1>4, <2>1, <2>3 DEF updated, OpenRow
      <3>3. CASE "price" \in DOMAIN new
        <4>1. ASSUME updated.price # NoAmount
              PROVE  updated.reason # NoReason /\ updated.dated
          BY <3>1, <3>2, <3>3, <4>1 DEF Columns
        <4> QED
          BY <2>1, <4>1 DEF PriceOK
      <3>4. CASE "price" \notin DOMAIN new /\ "reason" \in DOMAIN new
        <4>1. updated.reason # NoReason /\ updated.dated
          BY <2>3, <3>1, <3>2, <3>4 DEF Columns, Robs
        <4> QED
          BY <2>1, <4>1 DEF PriceOK
      <3>5. CASE "price" \notin DOMAIN new /\ "reason" \notin DOMAIN new
        <4>1. /\ updated.price = lot[l].price /\ updated.reason = lot[l].reason
              /\ updated.dated = lot[l].dated
          BY <3>1, <3>2, <3>5 DEF Columns
        <4>2. unexplained' = unexplained
          BY <1>2, <2>3, <3>5
        <4> QED
          BY <1>3, <1>6, <1>11, <2>1, <4>1, <4>2 DEF PriceOK
      <3> QED
        BY <3>3, <3>4, <3>5
    <2> QED
      BY <2>2, <2>3
  <1>12. ASSUME NEW k \in LotIds PROVE PriceOK(k)'
    <2>1. CASE k = l /\ lot[l].state = "open"
      BY <1>11, <2>1
    <2>2. CASE k = l /\ lot[l].state # "open"
      BY <2>2, <1>8 DEF PriceOK
    <2>3. CASE k # l
      <3>1. k \in unexplained' <=> k \in unexplained
        BY <2>3, <1>2
      <3> QED
        BY <2>3, <3>1, <1>6, <1>8 DEF PriceOK
    <2> QED
      BY <2>1, <2>2, <2>3
  <1>13. ASSUME NEW k \in LotIds PROVE YieldOK(k)'
    BY <1>5, <1>6, <1>9 DEF YieldOK
  <1>14. /\ request' = [q \in Requests |-> request'[q]]
         /\ \A q \in Requests : request'[q] \in {request[q], Idle}
    BY <1>2 DEF IInv, LotInv
  <1>15. yields' = [k \in LotIds |-> yields'[k]]
    BY <1>5 DEF IInv, LotInv
  <1> QED
    BY <1>2, <1>8, <1>9, <1>10, <1>12, <1>13, <1>14, <1>15, LotSteps

\* A lot is deleted, with its yields.
LEMMA KeepDelete ==
    ASSUME IInv, NEW l \in LotIds, Delete(l)
    PROVE  IInv'
  <1>1. /\ lot' = [lot EXCEPT ![l] = NoRow] /\ yields' = [yields EXCEPT ![l] = NoYield]
        /\ unexplained' = unexplained \ {l}
        /\ UNCHANGED <<marketVars, request, clock, calendar, returned>>
    BY DEF Delete
  <1>2. UNCHANGED <<instrument, snapshots, request, clock>>
    BY <1>1 DEF marketVars
  <1>3. /\ lot'[l] = NoRow /\ yields'[l] = NoYield
        /\ \A k \in LotIds : k # l => lot'[k] = lot[k] /\ yields'[k] = yields[k]
        /\ lot' = [k \in LotIds |-> lot'[k]] /\ yields' = [k \in LotIds |-> yields'[k]]
    BY <1>1 DEF IInv, LotInv
  <1>4. NoRow.state = "none"
    BY DEF NoRow
  <1>5. ASSUME NEW k \in LotIds PROVE RowOK(k)' /\ PriceOK(k)' /\ YieldOK(k)'
    <2>1. CASE k = l
      BY <2>1, <1>3, <1>4 DEF RowOK, PriceOK, YieldOK
    <2>2. CASE k # l
      <3>1. RowOK(k) /\ PriceOK(k) /\ YieldOK(k)
        BY DEF IInv, LotInv
      <3>2. RowOK(k)'
        BY <2>2, <3>1, <1>2, <1>3 DEF RowOK, OpenRow
      <3>3. PriceOK(k)'
        BY <2>2, <3>1, <1>1, <1>3 DEF PriceOK
      <3>4. YieldOK(k)'
        BY <2>2, <3>1, <1>2, <1>3 DEF YieldOK
      <3> QED
        BY <3>2, <3>3, <3>4
    <2> QED
      BY <2>1, <2>2
  <1>6. request' = [q \in Requests |-> request'[q]]
    BY <1>2 DEF IInv, LotInv
  <1> QED
    BY <1>1, <1>2, <1>3, <1>4, <1>5, <1>6, LotSteps

\* A result is committed: its snapshot is the newest now, and market data only go on.
LEMMA KeepCommitYield ==
    ASSUME IInv, NEW r \in Requests, CommitYield(r)
    PROVE  IInv'
  <1> DEFINE l == request[r].lot
             row == request[r].seen
             i == row.isin
             plan == request[r].plan
             found == IF snapshots[i] = {} THEN {[received |-> 0, quote |-> NoQuote]} ELSE Newest(i)
  <1>1. /\ request[r].step = "pricing" /\ request' = [request EXCEPT ![r] = Idle]
        /\ UNCHANGED <<marketVars, lot, clock, calendar, returned, unexplained>>
    BY DEF CommitYield, history
  <1>2. PICK s \in found, current \in BOOLEAN :
          \/ yields' = yields
          \/ /\ lot[l].state = "open"
             /\ yields' = [yields EXCEPT ![l] =
                  [bought |-> row.bought, target |-> row.target, received |-> s.received,
                   plan |-> plan, current |-> current]]
    BY DEF CommitYield, HasPrice
  <1>3. Knows(r) /\ ReadsAreOld(r)
    BY DEF IInv, LotInv
  <1>4. /\ l \in LotIds /\ i \in Isins
        /\ lot[l].state = "open" => lot[l].isin = i
        /\ \A t \in plan.stamps : t \in Nat /\ \E q \in snapshots[i] : t <= q.received
    BY <1>1, <1>3 DEF Knows, ReadsAreOld, Stored, OpenRow
  <1>5. PICK received : /\ received = s.received
                        /\ \/ yields' = yields
                           \/ /\ lot[l].state = "open"
                              /\ \A k \in LotIds : k # l => yields'[k] = yields[k]
                              /\ yields'[l].received = received /\ yields'[l].plan = plan
                              /\ yields' = [k \in LotIds |-> yields'[k]]
    BY <1>2, <1>4 DEF IInv, LotInv
  <1> HIDE DEF l, row, i, plan
  <1>6. UNCHANGED <<instrument, snapshots, lot, clock, unexplained>>
    BY <1>1 DEF marketVars
  <1>7. clock \in Nat /\ \A q \in snapshots[i] : q.received \in 1..clock
    BY <1>4 DEF IInv, MarketInv, Times
  <1>8. /\ received \in 0..clock
        /\ \A t \in plan.stamps : t <= received
    <2>1. CASE snapshots[i] = {}
      <3>1. received = 0
        BY <2>1, <1>5
      <3> QED
        BY <2>1, <3>1, <1>4, <1>7
    <2>2. CASE snapshots[i] # {}
      <3>1. s \in Newest(i)
        BY <2>2
      <3>2. s \in snapshots[i] /\ \A q \in snapshots[i] : q.received <= received
        BY <3>1, <1>5 DEF Newest
      <3>3. \A t \in plan.stamps : t <= received
        BY <3>2, <1>4, <1>5, <1>7
      <3> QED
        BY <3>2, <3>3, <1>5, <1>7
    <2> QED
      BY <2>1, <2>2
  <1>9. ASSUME NEW k \in LotIds PROVE RowOK(k)' /\ PriceOK(k)' /\ YieldOK(k)'
    <2>1. RowOK(k) /\ PriceOK(k) /\ YieldOK(k)
      BY DEF IInv, LotInv
    <2>2. RowOK(k)' /\ PriceOK(k)'
      BY <2>1, <1>6 DEF RowOK, PriceOK, OpenRow
    <2>3. CASE yields'[k] = yields[k]
      BY <2>1, <2>2, <2>3, <1>6 DEF YieldOK
    <2>4. CASE k = l /\ lot[l].state = "open" /\ yields'[l].received = received
               /\ yields'[l].plan = plan
      <3>1. YieldOK(k)'
        BY <2>4, <1>4, <1>6, <1>8 DEF YieldOK
      <3> QED
        BY <2>2, <3>1
    <2> QED
      BY <2>3, <2>4, <1>5
  <1>10. /\ request' = [q \in Requests |-> request'[q]]
         /\ \A q \in Requests : request'[q] \in {request[q], Idle}
    BY <1>1 DEF IInv, LotInv
  <1>11. lot' = [k \in LotIds |-> lot'[k]] /\ yields' = [k \in LotIds |-> yields'[k]]
    BY <1>5, <1>6 DEF IInv, LotInv
  <1> QED
    BY <1>1, <1>6, <1>9, <1>10, <1>11, LotSteps

-----------------------------------------------------------------------------
\* Nothing is stored at the start.
LEMMA InitIInv == LotInit => IInv
  <1> SUFFICES ASSUME LotInit PROVE IInv
    OBVIOUS
  <1>1. /\ instrument = [i \in Isins |-> Absent] /\ actions = [i \in Isins |-> <<>>]
        /\ snapshots = [i \in Isins |-> {}] /\ calendar = [i \in Isins |-> {}]
        /\ returned = [i \in Isins |-> {}] /\ clock = 0
    BY DEF LotInit, MarketInit
  <1>2. \A i \in Isins : DOMAIN actions[i] = {} /\ snapshots[i] = {} /\ instrument[i].day = 0
    <2>1. DOMAIN <<>> = {}
      BY SMT
    <2>2. \A i \in Isins : actions[i] = <<>> /\ snapshots[i] = {} /\ instrument[i] = Absent
      BY <1>1, Zenon
    <2>3. Absent.day = 0
      BY DEF Absent
    <2> QED
      BY <2>1, <2>2, <2>3, Zenon
  <1>3. Times /\ CalendarIsStored /\ SnapshotsFollow /\ NewestIsStored
    BY <1>1, <1>2 DEF Times, CalendarIsStored, SnapshotsFollow, NewestIsStored,
                      Newest
  <1>4. MarketInv
    BY <1>1, <1>3, DaysAssumption DEF MarketInv
  <1>5. /\ lot = [l \in LotIds |-> NoRow] /\ yields = [l \in LotIds |-> NoYield]
        /\ request = [r \in Requests |-> Idle]
    BY DEF LotInit
  <1>6. NoRow.state = "none" /\ Idle.step = "idle" /\ DOMAIN Idle = Fields
    BY DEF NoRow, Idle, Fields
  <1>7. \A l \in LotIds : RowOK(l) /\ PriceOK(l) /\ YieldOK(l)
    BY <1>5, <1>6 DEF RowOK, PriceOK, YieldOK
  <1>8. \A r \in Requests : Knows(r) /\ ReadsAreOld(r)
    BY <1>5, <1>6 DEF Knows, ReadsAreOld
  <1> QED
    BY <1>4, <1>5, <1>7, <1>8 DEF IInv, LotInv

\* Every reachable state satisfies the inductive invariant.
THEOREM Invariance == LotSpec => []IInv
  <1>1. IInv /\ [LotNext]_lotVars => IInv'
    <2> SUFFICES ASSUME IInv, [LotNext]_lotVars PROVE IInv'
      OBVIOUS
    <2>1. CASE UNCHANGED lotVars
      <3>1. UNCHANGED <<instrument, actions, snapshots, lot, yields, request, clock, calendar,
                        returned, unexplained>>
        BY <2>1 DEF lotVars, marketVars
      <3>2. MarketInv'
        BY <3>1 DEF IInv, MarketInv, Times, CalendarIsStored, SnapshotsFollow,
                    NewestIsStored, Newest
      <3>3. LotInv'
        BY <3>1 DEF IInv, LotInv, RowOK, PriceOK, YieldOK, Knows, ReadsAreOld, Stored, OpenRow,
                    ValidPatch
      <3> QED
        BY <3>2, <3>3 DEF IInv
    <2>2. ASSUME NEW i \in Isins, NEW answer \in Answers, Refresh(i, answer) PROVE IInv'
      BY <2>2, KeepRefresh
    <2>3. ASSUME NEW l \in LotIds, Delete(l) PROVE IInv'
      BY <2>3, KeepDelete
    <2>4. ASSUME NEW l \in LotIds, NEW i \in Isins, NEW purchase \in Purchases,
                 NEW bought \in Days, NEW target \in Targets, NEW price \in Prices \cup {NoAmount},
                 NEW reason \in Reasons \cup {NoReason},
                 Create(l, i, purchase, bought, target, price, reason)
          PROVE  IInv'
      BY <2>4, KeepCreate
    <2>5. ASSUME NEW r \in Requests, Begin(r) PROVE IInv'
      BY <2>5, KeepBeginUpdate, KeepBeginCalculate DEF Begin
    <2>6. ASSUME NEW r \in Requests, CommitUpdate(r) \/ ReadActions(r) \/ CommitYield(r)
          PROVE  IInv'
      BY <2>6, KeepCommitUpdate, KeepReadActions, KeepCommitYield
    <2> QED
      BY <2>1, <2>2, <2>3, <2>4, <2>5, <2>6 DEF LotNext
  <1> QED
    BY <1>1, InitIInv, PTL DEF LotSpec

\* Rows are well typed, the yields of a lot go with it, and calculate never prices a lot
\* whose target is not after its purchase.
THEOREM TypeCorrectness == LotSpec => []TypeOK
  <1>1. IInv => TypeOK
    <2> SUFFICES ASSUME IInv PROVE TypeOK
      OBVIOUS
    <2>1. \A l \in LotIds :
            /\ lot[l].state \in {"none", "open"}
            /\ lot[l].state = "open" =>
                 /\ lot[l].isin \in Isins /\ lot[l].purchase \in Purchases
                 /\ lot[l].price \in Prices \cup {NoAmount}
                 /\ lot[l].reason \in Reasons \cup {NoReason} /\ lot[l].dated \in BOOLEAN
                 /\ instrument[lot[l].isin].known # "absent"
      BY DEF IInv, LotInv, RowOK, OpenRow, NoRow
    <2>2. \A l \in LotIds : yields[l] # NoYield => lot[l].state = "open"
      BY DEF IInv, LotInv, YieldOK
    <2>3. \A r \in Requests :
            /\ request[r].step \in {"idle", "updating", "reading", "pricing"}
            /\ request[r].step # "idle" => request[r].seen.state = "open"
            /\ request[r].step = "pricing" => request[r].seen.target.date > request[r].seen.bought
      BY DEF IInv, LotInv, Knows, OpenRow
    <2> QED
      BY <2>1, <2>2, <2>3 DEF TypeOK, IInv, MarketInv
  <1> QED
    BY <1>1, Invariance, PTL

\* A manual price has a reason and a time unless updates overlapped or a body cleared the
\* reason alone: update writes only the columns that differ from what it has read.
THEOREM OverridesAreExplained == LotSpec => []OverrideIsExplained
  <1>1. IInv => OverrideIsExplained
    BY DEF IInv, LotInv, PriceOK, OverrideIsExplained
  <1> QED
    BY <1>1, Invariance, PTL

\* Choosing one flow per event: every event keeps one, and nothing else comes in.
LEMMA ChosenFlows ==
    ASSUME NEW flows, NEW F \in OnePerEvent(flows)
    PROVE  /\ F \subseteq flows
           /\ \A f \in flows : \E g \in F : SameEvent(f, g)
  BY DEF OnePerEvent

\* For every event of the newest calendar a sheet counts an amount of that calendar, except
\* for rows that were restored.
THEOREM SheetsFollowCalendars == LotSpec => []SheetFollowsCalendar
  <1>1. IInv => SheetFollowsCalendar
    <2> SUFFICES ASSUME IInv, NEW i \in Isins,
                        NEW F \in SheetFlows(DOMAIN actions[i], actions[i]),
                        NEW a \in calendar[i] \ returned[i], a.amount # NoAmount
                 PROVE  /\ \E f \in F : SameEvent(a, f)
                        /\ \A f \in F : SameEvent(a, f) => \E b \in calendar[i] : f = Flow(b)
      BY DEF SheetFollowsCalendar
    <2> DEFINE rows == DOMAIN actions[i]
               newest == NewestFlows(rows, actions[i])
    <2>1. F \subseteq newest /\ \A f \in newest : \E g \in F : SameEvent(f, g)
      BY ChosenFlows DEF SheetFlows
    <2>2. a \in rows
      BY DEF IInv, MarketInv, CalendarIsStored
    <2>3. \E f \in F : SameEvent(a, f)
      <3>1. PICK b \in rows :
              /\ b.amount # NoAmount /\ SameEvent(a, b)
              /\ \A c \in rows : SameEvent(b, c) /\ c.amount # NoAmount => actions[i][c] <= actions[i][b]
        BY <2>2 DEF IInv, MarketInv, NewestIsStored
      <3>2. Flow(b) \in newest
        BY <3>1 DEF NewestFlows
      <3>3. PICK g \in F : SameEvent(Flow(b), g)
        BY <2>1, <3>2
      <3> QED
        BY <3>1, <3>3 DEF SameEvent, Flow
    <2>4. ASSUME NEW f \in F, SameEvent(a, f) PROVE \E b \in calendar[i] : f = Flow(b)
      <3>1. PICK b \in rows :
              /\ f = Flow(b) /\ b.amount # NoAmount
              /\ \A c \in rows : SameEvent(b, c) /\ c.amount # NoAmount => actions[i][c] <= actions[i][b]
        BY <2>1 DEF NewestFlows
      <3>2. SameEvent(a, b) /\ SameEvent(b, a)
        BY <2>4, <3>1 DEF SameEvent, Flow
      <3>3. actions[i][a] <= actions[i][b]
        BY <2>2, <3>1, <3>2
      <3>4. actions[i][a] \in Nat /\ actions[i][b] \in Nat
        BY <2>2 DEF IInv, MarketInv, Times
      <3>5. b \in calendar[i]
        BY <3>1, <3>2, <3>3, <3>4 DEF IInv, MarketInv, CalendarIsStored
      <3> QED
        BY <3>1, <3>5
    <2> QED
      BY <2>3, <2>4
  <1> QED
    BY <1>1, Invariance, PTL

\* The page of a lot and the row of a sheet count the same coupons, whatever repeated
\* refreshes have stored, unless the amount of one was revised.
THEOREM PortfoliosAgreeWithSheets == LotSpec => []PortfolioAgreesWithSheet
  <1>1. IInv => PortfolioAgreesWithSheet
    <2> SUFFICES ASSUME IInv, NEW i \in Isins, ~Revised(DOMAIN actions[i]),
                        NEW F \in SheetFlows(DOMAIN actions[i], actions[i])
                 PROVE  Flows(DOMAIN actions[i]) = F
      BY DEF PortfolioAgreesWithSheet
    <2> DEFINE rows == DOMAIN actions[i]
               newest == NewestFlows(rows, actions[i])
    <2>1. F \subseteq newest /\ \A f \in newest : \E g \in F : SameEvent(f, g)
      BY ChosenFlows DEF SheetFlows
    <2>2. newest \subseteq Flows(rows)
      BY DEF NewestFlows, Flows
    <2>3. ASSUME NEW a \in rows, NEW b \in rows, a.amount # NoAmount, b.amount # NoAmount,
                 SameEvent(a, b)
          PROVE  Flow(a) = Flow(b)
      <3>1. a.amount = b.amount
        BY <2>3 DEF Revised
      <3> QED
        BY <2>3, <3>1 DEF Flow, SameEvent
    <2>4. ASSUME NEW f \in Flows(rows) PROVE f \in F
      <3>1. PICK a \in rows : f = Flow(a) /\ a.amount # NoAmount
        BY DEF Flows
      <3>2. PICK b \in rows :
              /\ b.amount # NoAmount /\ SameEvent(a, b)
              /\ \A c \in rows : SameEvent(b, c) /\ c.amount # NoAmount => actions[i][c] <= actions[i][b]
        BY <3>1 DEF IInv, MarketInv, NewestIsStored
      <3>3. Flow(b) \in newest
        BY <3>2 DEF NewestFlows
      <3>4. PICK g \in F : SameEvent(Flow(b), g)
        BY <2>1, <3>3
      <3>5. PICK c \in rows : g = Flow(c) /\ c.amount # NoAmount
        BY <2>1, <3>4 DEF NewestFlows
      <3>6. SameEvent(a, c)
        BY <3>2, <3>4, <3>5 DEF SameEvent, Flow
      <3>7. Flow(a) = Flow(c)
        BY <2>3, <3>1, <3>5, <3>6
      <3> QED
        BY <3>1, <3>4, <3>5, <3>7
    <2> QED
      BY <2>1, <2>2, <2>4
  <1> QED
    BY <1>1, Invariance, PTL

\* The snapshot a result is priced with is at least as new as every refresh that wrote the
\* face value or the actions that were read before it.
THEOREM QuotesAreNotOlder == LotSpec => []QuoteIsNotOlder
  <1>1. IInv => QuoteIsNotOlder
    BY DEF IInv, LotInv, YieldOK, QuoteIsNotOlder
  <1> QED
    BY <1>1, Invariance, PTL

-----------------------------------------------------------------------------
\* h obeys Euclid's recursion for second arguments up to k.
Euclid(h, k) ==
    \A m, n \in Nat : n <= k => h[n][m] = IF n = 0 THEN m ELSE h[m % n][n]

\* Such an h exists for every k: one for k is extended to k + 1.
LEMMA EuclidExists == \A k \in Nat : \E h : Euclid(h, k)
  <1> DEFINE Bad == {k \in Nat : ~ \E h : Euclid(h, k)}
  <1>1. ASSUME Bad # {} PROVE FALSE
    <2>1. PICK k \in Bad : \A j \in Bad : k <= j
      BY <1>1, LeastNatural
    <2>2. CASE k = 0
      <3> DEFINE z == [n \in Nat |-> [m \in Nat |-> m]]
      <3>1. \A m, n \in Nat : n <= 0 => n = 0 /\ z[n][m] = m
        OBVIOUS
      <3> HIDE DEF z
      <3>2. Euclid(z, 0)
        BY <3>1 DEF Euclid
      <3> QED
        BY <2>1, <2>2, <3>2
    <2>3. CASE k # 0
      <3>1. k \in Nat /\ k - 1 \in Nat /\ k - 1 \notin Bad
        BY <2>1, <2>3
      <3>2. PICK g : Euclid(g, k - 1)
        BY <3>1
      <3> DEFINE h == [n \in Nat |-> [m \in Nat |-> IF n <= k - 1 THEN g[n][m] ELSE g[m % n][n]]]
      <3>3. \A m, n \in Nat : h[n][m] = IF n <= k - 1 THEN g[n][m] ELSE g[m % n][n]
        OBVIOUS
      <3> HIDE DEF h
      <3>4. ASSUME NEW m \in Nat, NEW n \in Nat, n <= k
            PROVE  h[n][m] = IF n = 0 THEN m ELSE h[m % n][n]
        <4>1. CASE n = 0
          BY <3>1, <3>2, <3>3, <4>1 DEF Euclid
        <4>2. CASE n # 0
          <5>1. m % n \in Nat /\ m % n <= k - 1
            BY <3>1, <3>4, <4>2, Division
          <5>2. h[m % n][n] = g[m % n][n]
            BY <3>3, <5>1
          <5>3. n <= k - 1 => g[n][m] = g[m % n][n]
            BY <3>2, <4>2 DEF Euclid
          <5> QED
            BY <3>3, <4>2, <5>2, <5>3
        <4> QED
          BY <4>1, <4>2
      <3>5. Euclid(h, k)
        BY <3>4 DEF Euclid
      <3> QED
        BY <2>1, <3>5
    <2> QED
      BY <2>2, <2>3
  <1> QED
    BY <1>1

\* And its values are determined.
LEMMA EuclidIsUnique ==
    ASSUME NEW k \in Nat, NEW g, NEW h, Euclid(g, k), Euclid(h, k)
    PROVE  \A m, n \in Nat : n <= k => g[n][m] = h[n][m]
  <1> DEFINE Bad == {n \in Nat : n <= k /\ \E m \in Nat : g[n][m] # h[n][m]}
  <1>1. ASSUME Bad # {} PROVE FALSE
    <2>1. PICK n \in Bad : \A j \in Bad : n <= j
      BY <1>1, LeastNatural
    <2>2. PICK m \in Nat : g[n][m] # h[n][m]
      BY <2>1
    <2>3. CASE n = 0
      BY <2>1, <2>2, <2>3 DEF Euclid
    <2>4. CASE n # 0
      <3>1. n \in Nat \ {0} /\ n <= k
        BY <2>1, <2>4
      <3>2. m % n \in Nat /\ m % n < n
        BY <3>1, Division
      <3>3. m % n \notin Bad
        BY <2>1, <3>1, <3>2
      <3>4. g[m % n][n] = h[m % n][n]
        BY <3>1, <3>2, <3>3
      <3> QED
        BY <2>2, <3>1, <3>4 DEF Euclid
    <2> QED
      BY <2>3, <2>4
  <1> QED
    BY <1>1

\* Euclid's recursion has a solution on all natural numbers.
LEMMA GcdUnfolds ==
    \A m, n \in Nat : Gcd[n][m] = IF n = 0 THEN m ELSE Gcd[m % n][n]
  <1> DEFINE H(k) == CHOOSE h : Euclid(h, k)
             Rec(g) == [n \in Nat |-> [m \in Nat |-> IF n = 0 THEN m ELSE g[m % n][n]]]
             G == [n \in Nat |-> [m \in Nat |-> H(n)[n][m]]]
  <1>1. \A k \in Nat : Euclid(H(k), k)
    BY EuclidExists
  <1>2. \A m, n \in Nat : G[n][m] = H(n)[n][m]
    OBVIOUS
  <1> HIDE DEF H
  <1>3. ASSUME NEW m \in Nat, NEW n \in Nat
        PROVE  G[n][m] = IF n = 0 THEN m ELSE G[m % n][n]
    <2> HIDE DEF G
    <2>1. H(n)[n][m] = IF n = 0 THEN m ELSE H(n)[m % n][n]
      <3> DEFINE f == H(n)
      <3>1. Euclid(f, n)
        BY <1>1
      <3> HIDE DEF f
      <3>2. f[n][m] = IF n = 0 THEN m ELSE f[m % n][n]
        BY <3>1 DEF Euclid
      <3> QED
        BY <3>2 DEF f
    <2>2. CASE n # 0
      <3>1. m % n \in Nat /\ m % n < n
        BY <2>2, Division
      <3>2. Euclid(H(n), m % n)
        <4>1. Euclid(H(n), n)
          BY <1>1
        <4> DEFINE f == H(n)
        <4>2. Euclid(f, n)
          BY <4>1
        <4> HIDE DEF f
        <4>3. \A a, b \in Nat : b <= m % n => b <= n
          BY <3>1
        <4>4. Euclid(f, m % n)
          BY <4>2, <4>3 DEF Euclid
        <4> QED
          BY <4>4 DEF f
      <3>3. Euclid(H(m % n), m % n)
        BY <1>1, <3>1
      <3>4. H(n)[m % n][n] = H(m % n)[m % n][n]
        BY <3>1, <3>2, <3>3, EuclidIsUnique
      <3> QED
        BY <1>2, <2>1, <2>2, <3>1, <3>4
    <2> QED
      BY <1>2, <2>1, <2>2
  <1>4. G = Rec(G)
    <2>1. ASSUME NEW n \in Nat
          PROVE  G[n] = [m \in Nat |-> IF n = 0 THEN m ELSE G[m % n][n]]
      <3>1. G[n] = [m \in Nat |-> H(n)[n][m]]
        OBVIOUS
      <3>2. G[n] = [m \in Nat |-> G[n][m]]
        BY <1>2, <3>1
      <3> HIDE DEF G
      <3>3. \A m \in Nat : G[n][m] = IF n = 0 THEN m ELSE G[m % n][n]
        BY <1>3
      <3> QED
        BY <3>2, <3>3
    <2>2. G = [n \in Nat |-> G[n]]
      OBVIOUS
    <2> HIDE DEF G
    <2>3. G = [n \in Nat |-> [m \in Nat |-> IF n = 0 THEN m ELSE G[m % n][n]]]
      BY <2>1, <2>2
    <2> QED
      BY <2>3 DEF Rec
  <1>5. Gcd = CHOOSE g : g = Rec(g)
    BY DEF Gcd
  <1> HIDE DEF G, Rec
  <1>6. Gcd = Rec(Gcd)
    BY <1>4, <1>5
  <1> QED
    BY <1>6 DEF Rec

\* The greatest common divisor of two numbers, one of them positive, is positive.
LEMMA GcdIsPositive ==
    \A n, m \in Nat : m + n > 0 => Gcd[n][m] \in Nat \ {0}
  <1> DEFINE Bad == {n \in Nat : \E m \in Nat : m + n > 0 /\ Gcd[n][m] \notin Nat \ {0}}
  <1>1. ASSUME Bad # {} PROVE FALSE
    <2>1. PICK n \in Bad : \A j \in Bad : n <= j
      BY <1>1, LeastNatural
    <2>2. PICK m \in Nat : m + n > 0 /\ Gcd[n][m] \notin Nat \ {0}
      BY <2>1
    <2>3. CASE n = 0
      BY <2>2, <2>3, GcdUnfolds
    <2>4. CASE n # 0
      <3>1. m % n \in Nat /\ m % n < n /\ n \in Nat \ {0}
        BY <2>4, Division
      <3>2. m % n \notin Bad
        BY <2>1, <3>1
      <3>3. Gcd[m % n][n] \in Nat \ {0}
        BY <3>1, <3>2
      <3> QED
        BY <2>2, <3>1, <3>3, GcdUnfolds
    <2> QED
      BY <2>3, <2>4
  <1> QED
    BY <1>1

\* It is multiplied by what both are multiplied by.
LEMMA GcdScales ==
    ASSUME NEW q \in Nat \ {0}
    PROVE  \A n, m \in Nat : Gcd[q * n][q * m] = q * Gcd[n][m]
  <1> DEFINE Bad == {n \in Nat : \E m \in Nat : Gcd[q * n][q * m] # q * Gcd[n][m]}
  <1>1. ASSUME Bad # {} PROVE FALSE
    <2>1. PICK n \in Bad : \A j \in Bad : n <= j
      BY <1>1, LeastNatural
    <2>2. PICK m \in Nat : Gcd[q * n][q * m] # q * Gcd[n][m]
      BY <2>1
    <2>3. q * m \in Nat /\ q * n \in Nat
      OBVIOUS
    <2>4. CASE n = 0
      <3>1. q * n = 0
        BY <2>4
      <3>2. Gcd[q * n][q * m] = q * m /\ Gcd[n][m] = m
        BY <2>3, <2>4, <3>1, GcdUnfolds
      <3> QED
        BY <2>2, <3>2
    <2>5. CASE n # 0
      <3>1. m % n \in Nat /\ m % n < n /\ n \in Nat \ {0}
        BY <2>5, Division
      <3>2. q * n \in Nat \ {0} /\ (q * m) % (q * n) = q * (m % n)
        <4>1. m \in Int /\ n \in Nat \ {0}
          BY <3>1
        <4> QED
          BY ONLY <4>1, DivisionScales, q \in Nat \ {0}
      <3>3. Gcd[q * n][q * m] = Gcd[(q * m) % (q * n)][q * n]
        BY <2>3, <3>2, GcdUnfolds
      <3>4. Gcd[n][m] = Gcd[m % n][n]
        BY <3>1, GcdUnfolds
      <3>5. m % n \notin Bad
        BY <2>1, <3>1
      <3>6. Gcd[q * (m % n)][q * n] = q * Gcd[m % n][n]
        BY <3>1, <3>5
      <3> QED
        BY <2>2, <3>2, <3>3, <3>4, <3>6
    <2> QED
      BY <2>4, <2>5
  <1> QED
    BY <1>1
\* A fraction in lowest terms does not change when both parts are multiplied.
LEMMA ReducedScales ==
    ASSUME NEW q \in Nat \ {0}, NEW a \in Int, NEW b \in Nat \ {0}
    PROVE  Reduced(<<q * a, q * b>>) = Reduced(<<a, b>>)
  <1> DEFINE abs == IF a < 0 THEN -a ELSE a
             d == Gcd[b][abs]
             qa == q * a
             qb == q * b
             qabs == IF qa < 0 THEN -qa ELSE qa
  <1>1. abs \in Nat /\ qa \in Int /\ qb \in Nat \ {0} /\ qabs = q * abs
    <2>1. CASE a < 0
      <3>1. qa < 0
        <4>1. q * (-a - 1) >= 0
          BY <2>1
        <4>2. q * (-a - 1) = -(q * a) - q
          OBVIOUS
        <4> QED BY <4>1, <4>2
      <3>2. -qa = q * (-a)
        OBVIOUS
      <3> QED BY <2>1, <3>1, <3>2
    <2>2. CASE a >= 0
      <3>1. qa >= 0
        BY <2>2
      <3> QED BY <2>2, <3>1
    <2> QED BY <2>1, <2>2
  <1>2. d \in Nat \ {0}
    <2> HIDE DEF abs
    <2>1. abs + b > 0
      BY <1>1
    <2> QED
      BY <1>1, <2>1, GcdIsPositive
  <1>3. Gcd[qb][qabs] = q * d
    <2> HIDE DEF abs, qabs
    <2>1. Gcd[q * b][q * abs] = q * Gcd[b][abs]
      BY <1>1, GcdScales
    <2> QED
      BY <1>1, <2>1
  <1>4. Reduced(<<a, b>>) = <<a \div d, b \div d>>
    BY DEF Reduced
  <1>5. Reduced(<<qa, qb>>) = <<qa \div (q * d), qb \div (q * d)>>
    <2>1. Reduced(<<qa, qb>>) = <<qa \div Gcd[qb][qabs], qb \div Gcd[qb][qabs]>>
      BY DEF Reduced
    <2> QED BY <2>1, <1>3
  <1> HIDE DEF d
  <1>6. (q * a) \div (q * d) = a \div d
    BY <1>2, DivisionScales
  <1>7. (q * b) \div (q * d) = b \div d
    <2>1. b \in Int
      OBVIOUS
    <2> QED
      BY <1>2, <2>1, DivisionScales
  <1> QED
    BY <1>4, <1>5, <1>6, <1>7

-----------------------------------------------------------------------------
\* Finite sets of rows with a date and whole amounts.
Typed(rows) ==
    IsFiniteSet(rows) /\ \A a \in rows : a.date \in Nat /\ a.amount \in Int \cup {NoAmount}

\* What is stored came with some answer.
RowsAreAnswered ==
    \A i \in Isins :
        /\ IsFiniteSet(DOMAIN actions[i])
        /\ \A a \in DOMAIN actions[i] : \E answer \in Answers : a \in Calendar(answer)

\* Only a refresh changes the stored actions.
LEMMA OnlyRefreshStores ==
    ASSUME [LotNext]_lotVars
    PROVE  \/ \E i \in Isins, answer \in Answers : Refresh(i, answer)
           \/ UNCHANGED actions
  <1>1. CASE UNCHANGED lotVars
    BY <1>1 DEF lotVars, marketVars
  <1>2. ASSUME NEW l \in LotIds, Delete(l) PROVE UNCHANGED actions
    BY <1>2 DEF Delete, marketVars
  <1>3. ASSUME NEW l \in LotIds, NEW i \in Isins, NEW purchase \in Purchases,
               NEW bought \in Days, NEW target \in Targets, NEW price \in Prices \cup {NoAmount},
               NEW reason \in Reasons \cup {NoReason},
               Create(l, i, purchase, bought, target, price, reason)
        PROVE  UNCHANGED actions
    BY <1>3 DEF Create
  <1>4. ASSUME NEW r \in Requests, Begin(r) PROVE UNCHANGED actions
    BY <1>4 DEF Begin, BeginCalculate, BeginUpdate, tables, marketVars
  <1>5. ASSUME NEW r \in Requests, CommitUpdate(r) \/ ReadActions(r) \/ CommitYield(r)
        PROVE  UNCHANGED actions
    <2>1. CASE CommitUpdate(r)
      BY <2>1 DEF CommitUpdate, marketVars
    <2>2. CASE ReadActions(r)
      BY <2>2 DEF ReadActions, tables, marketVars
    <2>3. CASE CommitYield(r)
      BY <2>3 DEF CommitYield, marketVars
    <2> QED
      BY <1>5, <2>1, <2>2, <2>3
  <1> QED
    BY <1>1, <1>2, <1>3, <1>4, <1>5 DEF LotNext

\* Stored rows stay, and new ones come with an answer.
LEMMA StoredRows ==
    ASSUME IInv, RowsAreAnswered, [LotNext]_lotVars
    PROVE  /\ RowsAreAnswered'
           /\ \A i \in Isins : DOMAIN actions[i] \subseteq DOMAIN actions'[i]
  <1>1. CASE UNCHANGED actions
    BY <1>1 DEF RowsAreAnswered
  <1>2. ASSUME NEW i \in Isins, NEW answer \in Answers, Refresh(i, answer)
        PROVE  /\ RowsAreAnswered'
               /\ \A j \in Isins : DOMAIN actions[j] \subseteq DOMAIN actions'[j]
    <2>1. Refreshed(i, Quoted(answer), Calendar(answer))
      BY <1>2, RefreshFacts DEF IInv
    <2>2. /\ DOMAIN actions'[i] = (Calendar(answer) \ DOMAIN actions[i]) \cup DOMAIN actions[i]
          /\ \A j \in Isins \ {i} : actions'[j] = actions[j]
      BY <2>1 DEF Refreshed
    <2>3. IsFiniteSet(Calendar(answer))
      BY AnswerAssumption, AmountsAssumption
    <2>4. DOMAIN actions'[i] = Calendar(answer) \cup DOMAIN actions[i]
      BY <2>2
    <2>5. IsFiniteSet(DOMAIN actions[i])
      BY DEF RowsAreAnswered
    <2>6. IsFiniteSet(DOMAIN actions'[i])
      BY <2>3, <2>4, <2>5, FS_Union
    <2>7. \A a \in DOMAIN actions'[i] : \E other \in Answers : a \in Calendar(other)
      BY <2>4 DEF RowsAreAnswered
    <2>8. RowsAreAnswered'
      BY <2>2, <2>6, <2>7 DEF RowsAreAnswered
    <2> QED
      BY <2>2, <2>4, <2>8
  <1> QED
    BY <1>1, <1>2, OnlyRefreshStores

\* Stored rows are of answers, whatever is refreshed or calculated meanwhile.
LEMMA RowsComeFromAnswers == LotSpec => []RowsAreAnswered
  <1>1. LotInit => RowsAreAnswered
    <2> SUFFICES ASSUME LotInit, NEW i \in Isins
                 PROVE  DOMAIN actions[i] = {}
      BY FS_EmptySet DEF RowsAreAnswered
    <2>1. DOMAIN <<>> = {}
      BY SMT
    <2>2. actions[i] = <<>>
      BY DEF LotInit, MarketInit
    <2> QED
      BY <2>1, <2>2, Zenon
  <1>2. IInv /\ RowsAreAnswered /\ [LotNext]_lotVars => RowsAreAnswered'
    BY StoredRows
  <1> QED
    BY <1>1, <1>2, Invariance, PTL DEF LotSpec

\* They have the types of a calendar.
LEMMA StoredRowsAreTyped ==
    ASSUME RowsAreAnswered, NEW i \in Isins
    PROVE  Typed(DOMAIN actions[i])
  <1>1. \A answer \in Answers : \A a \in Calendar(answer) :
           a.date \in Nat /\ a.amount \in Int \cup {NoAmount}
    BY AnswerAssumption, AmountsAssumption
  <1> QED
    BY <1>1 DEF RowsAreAnswered, Typed

-----------------------------------------------------------------------------
\* The cash flows of typed rows are finitely many, and their amounts integers.
LEMMA FlowsAreTyped ==
    ASSUME NEW rows, Typed(rows)
    PROVE  /\ IsFiniteSet(Flows(rows))
           /\ \A f \in Flows(rows) : f.date \in Nat /\ f.amount \in Int
  <1> DEFINE paid == {b \in rows : b.amount # NoAmount}
  <1>1. IsFiniteSet(paid)
    BY FS_Subset DEF Typed
  <1>2. IsFiniteSet(Flows(rows))
    <2> DEFINE h == [a \in paid |-> Flow(a)]
    <2>1. h \in Surjection(paid, Flows(rows))
      BY DEF Surjection, Flows
    <2> QED
      BY <1>1, <2>1, FS_Surjection
  <1>3. \A a \in paid : Flow(a).date \in Nat /\ Flow(a).amount \in Int
    BY DEF Typed, Flow
  <1> QED
    BY <1>2, <1>3 DEF Flows

\* A sum of amounts is the sum of any function that gives them.
LEMMA AmountsAreSums ==
    ASSUME NEW flows, IsFiniteSet(flows), NEW g, \A f \in flows : g[f] = f.amount
    PROVE  Amounts(flows) = Sum(g, flows)
  <1> DEFINE h == [f \in flows |-> f.amount]
  <1>1. Amounts(flows) = SumFunctionOnSet(h, DOMAIN h)
    BY DEF Amounts, SumFunction, SumFunctionOnSet, FoldFunction
  <1>2. DOMAIN h = flows /\ \A f \in flows : h[f] = g[f]
    OBVIOUS
  <1> HIDE DEF h
  <1>3. Sum(h, flows) = Sum(g, flows)
    BY <1>2, SumOfEquals
  <1> QED
    BY <1>1, <1>2, <1>3 DEF Sum

\* What cash flows bring together is an integer.
LEMMA AmountsAreIntegers ==
    ASSUME NEW flows, IsFiniteSet(flows), \A f \in flows : f.amount \in Int
    PROVE  Amounts(flows) \in Int
  <1> DEFINE h == [f \in flows |-> f.amount]
  <1>1. \A f \in flows : h[f] = f.amount /\ h[f] \in Int
    OBVIOUS
  <1> HIDE DEF h
  <1> QED
    BY <1>1, AmountsAreSums, SumIsInteger

\* What a bond pays is an integer.
LEMMA PaidIsInteger ==
    ASSUME NEW rows, Typed(rows), NEW type, NEW bought, NEW exit
    PROVE  PaidOf(type, Flows(rows), bought, exit) \in Int
  <1> DEFINE flows == {f \in Received(Flows(rows), bought, exit) : f.type = type}
  <1>1. flows \subseteq Flows(rows)
    BY DEF Received
  <1>2. IsFiniteSet(flows) /\ \A f \in flows : f.amount \in Int
    BY <1>1, FlowsAreTyped, FS_Subset
  <1> HIDE DEF flows
  <1>3. Amounts(flows) \in Int
    BY <1>2, AmountsAreIntegers
  <1> QED
    BY <1>3 DEF PaidOf, flows

\* The face value of an instrument, and what a calculation has read of it.
FacesAreNatural ==
    /\ \A i \in Isins : instrument[i].face \in Nat
    /\ \A r \in Requests : request[r].step = "reading" => request[r].face \in Nat

\* What a step does to instruments and to requests that read, when it is no refresh.
LEMMA OnlyRefreshQuotes ==
    ASSUME IInv, [LotNext]_lotVars, NEW i \in Isins
    PROVE  \/ \E answer \in Answers : Refresh(i, answer)
           \/ instrument[i].known = "absent" /\ instrument'[i] = Bare
           \/ instrument'[i] = instrument[i]
  <1>1. CASE UNCHANGED lotVars
    BY <1>1 DEF lotVars, marketVars
  <1>2. ASSUME NEW j \in Isins, NEW answer \in Answers, Refresh(j, answer), j # i
        PROVE  instrument'[i] = instrument[i]
    BY <1>2, RefreshFacts DEF IInv, Refreshed
  <1>3. ASSUME NEW l \in LotIds, Delete(l) PROVE UNCHANGED instrument
    BY <1>3 DEF Delete, marketVars
  <1>4. ASSUME NEW l \in LotIds, NEW j \in Isins, NEW purchase \in Purchases,
               NEW bought \in Days, NEW target \in Targets, NEW price \in Prices \cup {NoAmount},
               NEW reason \in Reasons \cup {NoReason},
               Create(l, j, purchase, bought, target, price, reason)
        PROVE  \/ instrument[i].known = "absent" /\ instrument'[i] = Bare
               \/ instrument'[i] = instrument[i]
    <2>1. instrument' = [instrument EXCEPT ![j] = IF @.known = "absent" THEN Bare ELSE @]
      BY <1>4 DEF Create
    <2>2. instrument = [k \in Isins |-> instrument[k]]
      BY DEF IInv, MarketInv
    <2> QED
      BY <2>1, <2>2
  <1>5. ASSUME NEW r \in Requests, Begin(r) PROVE UNCHANGED instrument
    BY <1>5 DEF Begin, BeginCalculate, BeginUpdate, tables, marketVars
  <1>6. ASSUME NEW r \in Requests, CommitUpdate(r) \/ ReadActions(r) \/ CommitYield(r)
        PROVE  UNCHANGED instrument
    <2>1. CASE CommitUpdate(r)
      BY <2>1 DEF CommitUpdate, marketVars
    <2>2. CASE ReadActions(r)
      BY <2>2 DEF ReadActions, tables, marketVars
    <2>3. CASE CommitYield(r)
      BY <2>3 DEF CommitYield, marketVars
    <2> QED
      BY <1>6, <2>1, <2>2, <2>3
  <1> QED
    BY <1>1, <1>2, <1>3, <1>4, <1>5, <1>6 DEF LotNext

\* A calculation that reads has just begun, or was reading before.
LEMMA ReadersBegan ==
    ASSUME IInv, [LotNext]_lotVars, NEW r \in Requests, request'[r].step = "reading"
    PROVE  \/ request'[r] = request[r]
           \/ /\ UNCHANGED tables
              /\ \E l \in LotIds :
                   /\ lot[l].state = "open" /\ request'[r].seen = lot[l]
                   /\ request'[r].face = instrument[lot[l].isin].face
                   /\ request'[r].day = instrument[lot[l].isin].day
  <1>0. request = [q \in Requests |-> request[q]] /\ \A q \in Requests : DOMAIN request[q] = Fields
    BY DEF IInv, LotInv, Knows
  <1>1. CASE UNCHANGED lotVars
    BY <1>1 DEF lotVars
  <1>2. ASSUME NEW i \in Isins, NEW answer \in Answers, Refresh(i, answer) PROVE UNCHANGED request
    BY <1>2 DEF Refresh
  <1>3. ASSUME NEW l \in LotIds, Delete(l) PROVE UNCHANGED request
    BY <1>3 DEF Delete
  <1>4. ASSUME NEW l \in LotIds, NEW j \in Isins, NEW purchase \in Purchases,
               NEW bought \in Days, NEW target \in Targets, NEW price \in Prices \cup {NoAmount},
               NEW reason \in Reasons \cup {NoReason},
               Create(l, j, purchase, bought, target, price, reason)
        PROVE  UNCHANGED request
    BY <1>4 DEF Create
  <1>5. ASSUME NEW q \in Requests, NEW l \in LotIds, BeginCalculate(q, l)
        PROVE  \/ request'[r] = request[r]
               \/ /\ UNCHANGED tables
                  /\ lot[l].state = "open" /\ request'[r].seen = lot[l]
                  /\ request'[r].face = instrument[lot[l].isin].face
                  /\ request'[r].day = instrument[lot[l].isin].day
    BY <1>0, <1>5 DEF BeginCalculate, Idle
  <1>6. ASSUME NEW q \in Requests, NEW l \in LotIds, NEW patch \in Patches, BeginUpdate(q, l, patch)
        PROVE  request'[r] = request[r]
    <2>1. request' = [request EXCEPT ![q] =
             [Idle EXCEPT !.step = "updating", !.lot = l, !.patch = patch, !.seen = lot[l]]]
      BY <1>6 DEF BeginUpdate
    <2> QED
      BY <1>0, <2>1 DEF Idle
  <1>7. ASSUME NEW q \in Requests, CommitUpdate(q) \/ ReadActions(q) \/ CommitYield(q)
        PROVE  request'[r] = request[r]
    <2>1. CASE request' = [request EXCEPT ![q] = Idle]
      BY <1>0, <2>1 DEF Idle
    <2>2. ASSUME NEW rows, NEW plan,
                 request' = [request EXCEPT ![q].step = "pricing", ![q].rows = rows, ![q].plan = plan]
          PROVE  request'[r] = request[r]
      BY <1>0, <2>2 DEF Fields
    <2>3. CASE CommitUpdate(q)
      BY <2>1, <2>3 DEF CommitUpdate
    <2>4. CASE CommitYield(q)
      BY <2>1, <2>4 DEF CommitYield
    <2>5. CASE ReadActions(q)
      <3>1. \/ request' = [request EXCEPT ![q] = Idle]
            \/ \E rows, plan :
                 request' = [request EXCEPT ![q].step = "pricing", ![q].rows = rows, ![q].plan = plan]
        BY <2>5 DEF ReadActions
      <3> QED
        BY <2>1, <2>2, <3>1
    <2> QED
      BY <1>7, <2>3, <2>4, <2>5
  <1> QED
    BY <1>1, <1>2, <1>3, <1>4, <1>5, <1>6, <1>7 DEF LotNext, Begin

\* Face values are natural numbers, stored or read.
LEMMA NaturalFaces ==
    ASSUME IInv, IInv', FacesAreNatural, [LotNext]_lotVars
    PROVE  FacesAreNatural'
  <1>1. ASSUME NEW i \in Isins PROVE instrument'[i].face \in Nat
    <2>1. ASSUME NEW answer \in Answers, Refresh(i, answer) PROVE instrument'[i].face \in Nat
      <3>1. Quoted(answer).face \in Nat
        BY AnswerAssumption, DaysAssumption
      <3>2. instrument'[i].face = Quoted(answer).face
        BY <2>1 DEF Refresh, Publish, IInv, MarketInv
      <3> QED
        BY <3>1, <3>2
    <2>2. CASE instrument'[i] = Bare
      BY <2>2 DEF Bare
    <2>3. CASE instrument'[i] = instrument[i]
      BY <2>3 DEF FacesAreNatural
    <2> QED
      BY <2>1, <2>2, <2>3, OnlyRefreshQuotes
  <1>2. ASSUME NEW r \in Requests, request'[r].step = "reading" PROVE request'[r].face \in Nat
    <2>1. CASE request'[r] = request[r]
      BY <1>2, <2>1 DEF FacesAreNatural
    <2>2. ASSUME NEW l \in LotIds, lot[l].state = "open",
                 request'[r].face = instrument[lot[l].isin].face
          PROVE  request'[r].face \in Nat
      BY <2>2, OpenIsKnown DEF FacesAreNatural, OpenRow
    <2> QED
      BY <1>2, <2>1, <2>2, ReadersBegan
  <1> QED
    BY <1>1, <1>2 DEF FacesAreNatural

\* Face values stay natural numbers, in rows and in the hands of a request.
LEMMA FacesStayNatural == LotSpec => []FacesAreNatural
  <1>1. LotInit => FacesAreNatural
    BY DEF LotInit, MarketInit, FacesAreNatural, Absent, Idle
  <1>2. IInv /\ IInv' /\ FacesAreNatural /\ [LotNext]_lotVars => FacesAreNatural'
    BY NaturalFaces
  <1> QED
    BY <1>1, <1>2, Invariance, PTL DEF LotSpec

-----------------------------------------------------------------------------
\* The annual yield of n times the amount at n times the cost.
LEMMA AnnualScales ==
    ASSUME NEW n \in Nat \ {0}, NEW a \in Int, NEW c \in Nat \ {0}, NEW total \in Nat \ {0},
           NEW bought \in Int, NEW exit \in Int, exit > bought
    PROVE  Reduced(Annual(<<n * a, c>>, n * total, bought, exit))
             = Reduced(Annual(<<a, c>>, total, bought, exit))
  <1> DEFINE A == a * 365
             B == c * total * (exit - bought)
  <1>1. A \in Int /\ B \in Nat \ {0}
    <2>1. c * total \in Nat \ {0} /\ exit - bought \in Nat \ {0}
      OBVIOUS
    <2> DEFINE x == c * total
               y == exit - bought
    <2>2. x * y \in Nat \ {0}
      <3>1. x \in Nat \ {0} /\ y \in Nat \ {0}
        BY <2>1
      <3> HIDE DEF x, y
      <3> QED
        BY <3>1
    <2> QED
      BY <2>2
  <1>2. (n * a) * 365 = n * A
    OBVIOUS
  <1>3. c * (n * total) * (exit - bought) = n * B
    <2> DEFINE y == exit - bought
    <2>1. y \in Int
      OBVIOUS
    <2> HIDE DEF y
    <2>2. c * (n * total) = n * (c * total)
      OBVIOUS
    <2>3. (n * (c * total)) * y = n * ((c * total) * y)
      <3> DEFINE x == c * total
      <3>1. x \in Int
        OBVIOUS
      <3> HIDE DEF x
      <3>2. (n * x) * y = n * (x * y)
        BY <2>1, <3>1
      <3> QED
        BY <3>2 DEF x
    <2> QED
      BY <2>2, <2>3 DEF y
  <1>4. Annual(<<n * a, c>>, n * total, bought, exit) = <<n * A, n * B>>
    BY <1>2, <1>3 DEF Annual
  <1>5. Annual(<<a, c>>, total, bought, exit) = <<A, B>>
    BY DEF Annual
  <1> HIDE DEF A, B
  <1> QED
    BY <1>1, <1>4, <1>5, ReducedScales

\* What is left after tax of n times a profit.
LEMMA AfterTaxScales ==
    ASSUME NEW n \in Nat \ {0}, NEW profit \in Int, NEW tax \in Policies
    PROVE  \E a \in Int, c \in Nat \ {0} :
             AfterTax(profit, tax) = <<a, c>> /\ AfterTax(n * profit, tax) = <<n * a, c>>
  <1>1. tax.rate = 13 /\ tax.mode \in {"none", "flat_rate", "legacy_divide_1_13"}
    BY DEF Policies
  <1>2. n * profit \in Int
    OBVIOUS
  <1>3. CASE profit <= 0
    <2>1. n * profit <= 0
      BY <1>3
    <2>2. AfterTax(profit, tax) = <<profit, 1>> /\ AfterTax(n * profit, tax) = <<n * profit, 1>>
      BY <1>3, <2>1 DEF AfterTax
    <2> QED
      BY <2>2
  <1>4. CASE profit > 0
    <2>1. n * profit > 0
      BY <1>4
    <2>2. ~(profit <= 0) /\ ~(n * profit <= 0)
      BY <1>2, <1>4, <2>1
    <2>3. CASE tax.mode = "none"
      <3>1. AfterTax(profit, tax) = <<profit, 1>> /\ AfterTax(n * profit, tax) = <<n * profit, 1>>
        BY <2>3 DEF AfterTax
      <3> QED
        BY <3>1
    <2>4. CASE tax.mode = "flat_rate"
      <3>1. /\ AfterTax(profit, tax) = <<profit * (100 - 13), 100>>
            /\ AfterTax(n * profit, tax) = <<(n * profit) * (100 - 13), 100>>
        BY <1>1, <1>4, <2>1, <2>2, <2>4 DEF AfterTax
      <3>2. (n * profit) * (100 - 13) = n * (profit * (100 - 13))
        OBVIOUS
      <3>3. profit * (100 - 13) \in Int
        OBVIOUS
      <3> QED
        BY <3>1, <3>2, <3>3
    <2>5. CASE tax.mode = "legacy_divide_1_13"
      <3>1. /\ AfterTax(profit, tax) = <<profit * 100, 113>>
            /\ AfterTax(n * profit, tax) = <<(n * profit) * 100, 113>>
        BY <1>4, <2>1, <2>2, <2>5 DEF AfterTax
      <3>2. (n * profit) * 100 = n * (profit * 100)
        OBVIOUS
      <3>3. profit * 100 \in Int
        OBVIOUS
      <3> QED
        BY <3>1, <3>2, <3>3
    <2> QED
      BY <1>1, <2>3, <2>4, <2>5
  <1> QED
    BY <1>3, <1>4

\* The annual yields of some bonds are those of one.
LEMMA YieldsScale ==
    ASSUME NEW p, NEW one, NEW flows, NEW exit \in Int, NEW price \in Int, NEW tax \in Policies,
           p.quantity \in Nat \ {0}, one.quantity = 1,
           p.clean \in Int, p.accrued \in Int, p.commission \in Int, p.sale \in Int, p.bought \in Int,
           one.clean = p.clean, one.accrued = p.accrued, one.commission = p.commission,
           one.sale = p.sale, one.bought = p.bought, exit > p.bought,
           PurchaseTotal(p) > 0,
           PaidOf("coupon", flows, p.bought, exit) \in Int,
           PaidOf("amortization", flows, p.bought, exit) \in Int
    PROVE  LET y == Yields(p, flows, exit, price, tax)
               z == Yields(one, flows, exit, price, tax)
           IN  Reduced(y.before) = Reduced(z.before) /\ Reduced(y.after) = Reduced(z.after)
  <1> DEFINE n == p.quantity
             coupons == PaidOf("coupon", flows, p.bought, exit)
             repaid == PaidOf("amortization", flows, p.bought, exit)
             e == coupons + repaid + price - p.sale
             u == p.clean + p.accrued + p.commission
             k == e - u
             b == p.bought
  <1>1. n \in Nat \ {0} /\ e \in Int /\ u \in Int /\ k \in Int /\ b \in Int
    OBVIOUS
  <1>2. /\ PurchaseTotal(p) = u * n /\ PurchaseTotal(one) = u * 1
        /\ ExitTotal(p, flows, exit, price) = e * n /\ ExitTotal(one, flows, exit, price) = e * 1
    BY DEF PurchaseTotal, ExitTotal
  <1> HIDE DEF n, e, u, b, coupons, repaid
  <1>3. /\ PurchaseTotal(p) = n * u /\ PurchaseTotal(one) = u /\ u \in Nat \ {0}
        /\ ExitTotal(p, flows, exit, price) - PurchaseTotal(p) = n * k
        /\ ExitTotal(one, flows, exit, price) - PurchaseTotal(one) = k
    <2>1. u > 0
      <3>1. CASE u <= 0
        <4>1. n * (-u) >= 0
          BY <1>1, <3>1
        <4>2. n * (-u) = -(u * n)
          BY <1>1
        <4>3. u * n > 0 /\ u * n \in Int
          BY <1>1, <1>2
        <4> QED
          BY <4>1, <4>2, <4>3
      <3> QED
        BY <1>1, <3>1
    <2>2. e * n - u * n = n * (e - u)
      BY <1>1
    <2> QED
      BY <1>1, <1>2, <2>1, <2>2
  <1> HIDE DEF k
  <1>4. PICK a \in Int, c \in Nat \ {0} :
          AfterTax(k, tax) = <<a, c>> /\ AfterTax(n * k, tax) = <<n * a, c>>
    BY <1>1, AfterTaxScales
  <1>5. /\ Yields(p, flows, exit, price, tax).before = Annual(<<n * k, 1>>, n * u, b, exit)
        /\ Yields(p, flows, exit, price, tax).after = Annual(<<n * a, c>>, n * u, b, exit)
        /\ Yields(one, flows, exit, price, tax).before = Annual(<<k, 1>>, u, b, exit)
        /\ Yields(one, flows, exit, price, tax).after = Annual(<<a, c>>, u, b, exit)
    BY <1>3, <1>4 DEF Yields, b
  <1>6. exit > b
    BY DEF b
  <1>9. /\ n \in Nat \ {0} /\ k \in Int /\ u \in Nat \ {0} /\ b \in Int
        /\ exit > b /\ 1 \in Nat \ {0}
    BY <1>1, <1>3, <1>6
  <1>7. Reduced(Annual(<<n * k, 1>>, n * u, b, exit)) = Reduced(Annual(<<k, 1>>, u, b, exit))
    BY ONLY <1>9, exit \in Int, AnnualScales
  <1>8. Reduced(Annual(<<n * a, c>>, n * u, b, exit)) = Reduced(Annual(<<a, c>>, u, b, exit))
    BY ONLY <1>9, exit \in Int, a \in Int, c \in Nat \ {0}, AnnualScales
  <1> QED
    BY <1>5, <1>7, <1>8

\* A result that does not raise is the same per bond, whatever day and prices it is for.
LEMMA ResultsArePerBond ==
    ASSUME NEW row, OpenRow(row), NEW rows, Typed(rows), NEW exit \in Nat, NEW prices,
           ~Raises(Purchase(row), Flows(rows), exit, prices), NEW price \in Int
    PROVE  SamePerBond(Purchase(row), Flows(rows), exit, price)
  <1> DEFINE flows == Flows(rows)
             p == Purchase(row)
             one == [p EXCEPT !.quantity = 1]
  <1>1. /\ row.bought \in Nat
        /\ row.purchase \in [quantity : Int, clean : Int, accrued : Int, commission : Int, sale : Int]
    BY DaysAssumption, AmountsAssumption DEF OpenRow
  <1>2. /\ DOMAIN p = {"quantity", "clean", "accrued", "commission", "sale", "bought"}
        /\ p.quantity \in Int /\ p.clean \in Int /\ p.accrued \in Int /\ p.commission \in Int
        /\ p.sale \in Int /\ p.bought = row.bought
    BY <1>1 DEF Purchase
  <1> HIDE DEF p
  <1>3. /\ one.quantity = 1 /\ one.clean = p.clean /\ one.accrued = p.accrued
        /\ one.commission = p.commission /\ one.sale = p.sale /\ one.bought = p.bought
    BY <1>2
  <1>4. p.quantity > 0 /\ PurchaseTotal(p) > 0 /\ exit > p.bought
    <2>1. ~(p.quantity <= 0) /\ ~(PurchaseTotal(p) <= 0) /\ ~(exit <= p.bought)
      BY DEF Raises, p
    <2>2. PurchaseTotal(p) \in Int
      BY <1>2 DEF PurchaseTotal
    <2> QED
      BY <1>1, <1>2, <2>1, <2>2
  <1>5. /\ PaidOf("coupon", flows, p.bought, exit) \in Int
        /\ PaidOf("amortization", flows, p.bought, exit) \in Int
    BY PaidIsInteger
  <1>6. p.quantity \in Nat \ {0} /\ p.bought \in Int /\ exit \in Int
    BY <1>1, <1>2, <1>4
  <1> HIDE DEF one, flows
  <1>7. ASSUME NEW tax \in Policies
        PROVE  LET y == Yields(p, flows, exit, price, tax)
                   z == Yields(one, flows, exit, price, tax)
               IN  Reduced(y.before) = Reduced(z.before) /\ Reduced(y.after) = Reduced(z.after)
    BY <1>2, <1>3, <1>4, <1>5, <1>6, YieldsScale
  <1> QED
    BY <1>7 DEF SamePerBond, one, flows, p

\* Whoever owns how many bonds, the annual yields are those of one, the planned and the
\* current one: what calculate takes per bond and what it takes as a total never mix, and
\* no tax policy mixes them.
THEOREM YieldsArePerBond == LotSpec => []YieldIsPerBond
  <1>1. IInv /\ RowsAreAnswered /\ FacesAreNatural => YieldIsPerBond
    <2> SUFFICES ASSUME IInv, RowsAreAnswered, FacesAreNatural, NEW r \in Requests
                 PROVE  /\ request[r].step = "reading" => PlannedIsPerBond(r)
                        /\ request[r].step = "pricing" => CurrentIsPerBond(r)
      BY DEF YieldIsPerBond
    <2> DEFINE row == request[r].seen
               stored == DOMAIN actions[row.isin]
    <2>1. Knows(r) /\ ReadsAreOld(r)
      BY DEF IInv, LotInv
    <2>2. request[r].step # "idle" =>
            /\ OpenRow(row) /\ row.isin \in Isins /\ row.target.date \in Nat
            /\ row.price \in Int \cup {NoAmount} /\ Typed(stored)
      <3>1. request[r].step # "idle" => OpenRow(row)
        BY <2>1 DEF Knows
      <3>2. OpenRow(row) => /\ row.isin \in Isins /\ row.target.date \in Nat
                            /\ row.price \in Int \cup {NoAmount}
        BY DaysAssumption, AmountsAssumption DEF OpenRow
      <3>3. row.isin \in Isins => Typed(stored)
        BY StoredRowsAreTyped
      <3> QED
        BY <3>1, <3>2, <3>3
    <2>3. ASSUME request[r].step = "reading" PROVE PlannedIsPerBond(r)
      <3> SUFFICES ASSUME NEW price \in Redemptions(row, stored, request[r].face),
                          ~Raises(Purchase(row), Flows(stored), row.target.date, {price})
                   PROVE  SamePerBond(Purchase(row), Flows(stored), row.target.date, price)
        BY DEF PlannedIsPerBond
      <3>1. /\ OpenRow(row) /\ row.target.date \in Nat
            /\ row.price \in Int \cup {NoAmount} /\ Typed(stored)
        BY <2>2, <2>3
      <3>2. price \in Int
        <4>1. request[r].face \in Int
          BY <2>3 DEF FacesAreNatural
        <4> QED
          BY <3>1, <4>1 DEF Redemptions, Source, Matches, Typed
      <3> QED
        BY <3>1, <3>2, ResultsArePerBond
    <2>4. ASSUME request[r].step = "pricing" PROVE CurrentIsPerBond(r)
      <3> DEFINE read == request[r].rows
      <3> SUFFICES ASSUME NEW s \in Newest(row.isin), NEW day \in {s.quote.day} \cup Days,
                          HasPrice(s.quote), ~CurrentRaises(row, read, s.quote, day)
                   PROVE  SamePerBond(Purchase(row), Flows(read), day, s.quote.bid + s.quote.accrued)
        BY DEF CurrentIsPerBond
      <3>1. OpenRow(row) /\ row.isin \in Isins /\ Typed(stored)
        BY <2>2, <2>4
      <3>2. read \subseteq stored
        BY <2>1, <2>4 DEF ReadsAreOld
      <3>3. Typed(read)
        BY <3>1, <3>2, FS_Subset DEF Typed
      <3>4. s.quote \in Quotes
        BY <3>1 DEF IInv, MarketInv, Times, Newest
      <3>5. s.quote.bid \in Int /\ s.quote.accrued \in Int
        BY <3>4, AmountsAssumption DEF HasPrice
      <3>6. day \in Nat
        BY <3>4, DaysAssumption
      <3>7. s.quote.bid + s.quote.accrued \in Int
        BY <3>5
      <3> QED
        BY <3>1, <3>3, <3>6, <3>7, ResultsArePerBond DEF CurrentRaises
    <2> QED
      BY <2>3, <2>4
  <1> QED
    BY <1>1, Invariance, RowsComeFromAnswers, FacesStayNatural, PTL

-----------------------------------------------------------------------------
(* Principal *)

\* What MOEX says fits together: no amount is negative, and a face value is no more than
\* what the calendar of the same answer repays after its day.
Consistent ==
    \A answer \in Answers :
        /\ \A a \in Calendar(answer) : a.amount \in Nat \cup {NoAmount}
        /\ Quoted(answer).face <= Repaid(Calendar(answer), Quoted(answer).day)

Natural(rows) == Typed(rows) /\ \A a \in rows : a.amount \in Nat \cup {NoAmount}

\* A part of the cash flows is no more than all of them.
LEMMA AmountsGrow ==
    ASSUME NEW flows, IsFiniteSet(flows), \A f \in flows : f.amount \in Nat,
           NEW part \in SUBSET flows
    PROVE  /\ Amounts(part) \in Nat /\ Amounts(flows) \in Nat
           /\ Amounts(part) <= Amounts(flows)
  <1> DEFINE h == [f \in flows |-> f.amount]
  <1>1. \A f \in flows : h[f] = f.amount /\ h[f] \in Nat
    OBVIOUS
  <1> HIDE DEF h
  <1>2. IsFiniteSet(part) /\ \A f \in part : h[f] = f.amount /\ h[f] \in Nat
    BY <1>1, FS_Subset
  <1>3. Amounts(part) = Sum(h, part) /\ Amounts(flows) = Sum(h, flows)
    BY <1>1, <1>2, AmountsAreSums
  <1>4. Sum(h, part) \in Nat /\ Sum(h, flows) \in Nat
    BY <1>1, <1>2, SumIsNatural
  <1>5. Sum(h, part) <= Sum(h, flows)
    BY <1>1, SumGrows
  <1> QED
    BY <1>3, <1>4, <1>5

\* Two parts without a common flow are together no more than all.
LEMMA AmountsOfParts ==
    ASSUME NEW flows, IsFiniteSet(flows), \A f \in flows : f.amount \in Nat,
           NEW one \in SUBSET flows, NEW two \in SUBSET flows, one \cap two = {}
    PROVE  Amounts(one) + Amounts(two) <= Amounts(flows)
  <1> DEFINE h == [f \in flows |-> f.amount]
             both == one \cup two
  <1>1. \A f \in flows : h[f] = f.amount /\ h[f] \in Nat
    OBVIOUS
  <1>2. both \in SUBSET flows
    OBVIOUS
  <1> HIDE DEF h
  <1>3. IsFiniteSet(one) /\ IsFiniteSet(two) /\ IsFiniteSet(both)
    BY <1>2, FS_Subset
  <1>4. \A f \in both : h[f] = f.amount /\ h[f] \in Int
    BY <1>1, <1>2
  <1>5. Amounts(one) = Sum(h, one)
    BY <1>1, <1>3, AmountsAreSums
  <1>6. Amounts(two) = Sum(h, two)
    BY <1>1, <1>3, AmountsAreSums
  <1>7. Amounts(both) = Sum(h, both)
    <2> HIDE DEF both
    <2> QED
      BY <1>3, <1>4, AmountsAreSums
  <1>8. Sum(h, both) = Sum(h, one) + Sum(h, two)
    BY <1>3, <1>4, SumOfUnion
  <1>9. Amounts(both) <= Amounts(flows)
    <2> HIDE DEF both
    <2> QED
      BY <1>2, AmountsGrow
  <1> QED
    BY <1>5, <1>6, <1>7, <1>8, <1>9

\* The amounts of one flow.
LEMMA AmountsOfOne ==
    ASSUME NEW f, f.amount \in Int
    PROVE  Amounts({f}) = f.amount
  <1> DEFINE h == [g \in {f} |-> g.amount]
  <1>1. h[f] = f.amount /\ IsFiniteSet({f}) /\ \A g \in {f} : h[g] = g.amount /\ h[g] \in Int
    BY FS_Singleton
  <1> HIDE DEF h
  <1>2. Amounts({f}) = Sum(h, {f})
    BY <1>1, AmountsAreSums
  <1>3. Sum(h, {f}) = h[f] + Sum(h, {f} \ {f})
    <2> DEFINE S == {f}
    <2>1. f \in S /\ IsFiniteSet(S) /\ \A g \in S : h[g] \in Int
      BY <1>1
    <2> HIDE DEF S
    <2>2. Sum(h, S) = h[f] + Sum(h, S \ {f})
      BY <2>1, SumTakesOut
    <2> QED
      BY <2>2 DEF S
  <1>4. {f} \ {f} = {}
    OBVIOUS
  <1>5. Sum(h, {f} \ {f}) = 0
    BY <1>4, SumOfNothing
  <1> QED
    BY <1>1, <1>2, <1>3, <1>5

\* The repayments after a day.
Repayments(rows, after) ==
    {f \in Flows(rows) : f.type \in {"amortization", "maturity"} /\ f.date > after}

\* Where MOEX answers no negative amount, no flow of stored rows has one.
LEMMA FlowsAreNatural ==
    ASSUME NEW rows, Natural(rows)
    PROVE  /\ IsFiniteSet(Flows(rows))
           /\ \A f \in Flows(rows) : f.date \in Nat /\ f.amount \in Nat
           /\ \A after : /\ IsFiniteSet(Repayments(rows, after))
                         /\ Repaid(rows, after) = Amounts(Repayments(rows, after))
                         /\ Repaid(rows, after) \in Nat
  <1>1. IsFiniteSet(Flows(rows)) /\ \A f \in Flows(rows) : f.date \in Nat
    BY FlowsAreTyped DEF Natural
  <1>2. \A f \in Flows(rows) : f.amount \in Nat
    BY DEF Natural, Flows, Flow
  <1>3. ASSUME NEW after
        PROVE  /\ IsFiniteSet(Repayments(rows, after))
               /\ Repaid(rows, after) = Amounts(Repayments(rows, after))
               /\ Repaid(rows, after) \in Nat
    <2>1. Repayments(rows, after) \in SUBSET Flows(rows)
      BY DEF Repayments
    <2>2. IsFiniteSet(Repayments(rows, after)) /\ Amounts(Repayments(rows, after)) \in Nat
      BY <1>1, <1>2, <2>1, FS_Subset, AmountsGrow
    <2> QED
      BY <2>2 DEF Repaid, Repayments
  <1> QED
    BY <1>1, <1>2, <1>3

\* More rows repay no less.
LEMMA RepaidGrows ==
    ASSUME NEW more, Natural(more), NEW rows \in SUBSET more, NEW after
    PROVE  Repaid(rows, after) \in Nat /\ Repaid(rows, after) <= Repaid(more, after)
  <1>1. Natural(rows)
    BY FS_Subset DEF Natural, Typed
  <1>2. Repayments(rows, after) \subseteq Repayments(more, after)
    BY DEF Repayments, Flows
  <1>3. /\ IsFiniteSet(Repayments(more, after))
        /\ \A f \in Repayments(more, after) : f.amount \in Nat
    BY FlowsAreNatural DEF Repayments
  <1>4. Amounts(Repayments(rows, after)) <= Amounts(Repayments(more, after))
    BY <1>2, <1>3, AmountsGrow
  <1> QED
    BY <1>1, <1>4, FlowsAreNatural

\* What a result, or what will be one, counts as principal.
Once(y, rows) ==
    y.plan.source # "override" /\ y.target.event = "maturity" =>
        \/ y.plan.source = "face" /\ FaceIsStale(rows, y)
        \/ y.plan.principal \in Int /\ y.plan.principal <= Repaid(rows, y.bought)

\* More rows do not take from what is counted once.
LEMMA OnceGrows ==
    ASSUME NEW more, Natural(more), NEW rows \in SUBSET more, NEW y, Once(y, rows)
    PROVE  Once(y, more)
  <1>1. Flows(rows) \subseteq Flows(more)
    BY DEF Flows
  <1>2. FaceIsStale(rows, y) => FaceIsStale(more, y)
    BY <1>1 DEF FaceIsStale
  <1>3. Repaid(rows, y.bought) \in Nat /\ Repaid(rows, y.bought) <= Repaid(more, y.bought)
    BY RepaidGrows
  <1>4. Repaid(more, y.bought) \in Nat
    BY FlowsAreNatural
  <1> QED
    BY <1>2, <1>3, <1>4 DEF Once

\* Whether a result counts principal once depends on these fields of it alone.
LEMMA OnceIsOfItsFields ==
    ASSUME NEW y, NEW z, NEW rows, Once(y, rows),
           z.plan = y.plan, z.target = y.target, z.bought = y.bought
    PROVE  Once(z, rows)
  BY DEF Once, FaceIsStale

\* A plan counts the principal once.
LEMMA PlansCountOnce ==
    ASSUME NEW rows, Natural(rows), NEW row, NEW face \in Nat, NEW day \in Nat,
           face <= Repaid(rows, day),
           row.bought \in Nat, row.target.date \in Nat, row.target.date > row.bought,
           NEW redemption \in Redemptions(row, rows, face), NEW y,
           y.bought = row.bought, y.target = row.target,
           y.plan.source = Source(row, rows, face),
           y.plan.principal = redemption
             + PaidOf("amortization", Flows(rows), row.bought, row.target.date),
           y.plan.faceDay = day
    PROVE  Once(y, rows)
  <1> DEFINE date == row.target.date
             paid == {f \in Received(Flows(rows), row.bought, date) : f.type = "amortization"}
             due == Repayments(rows, row.bought)
             left == Repayments(rows, day)
  <1> SUFFICES ASSUME row.target.event = "maturity", Source(row, rows, face) # "override",
                      ~(Source(row, rows, face) = "face" /\ FaceIsStale(rows, y))
               PROVE  y.plan.principal \in Int /\ y.plan.principal <= Repaid(rows, row.bought)
    BY DEF Once
  <1>1. /\ IsFiniteSet(due) /\ \A f \in due : f.date \in Nat /\ f.amount \in Nat
        /\ Repaid(rows, row.bought) = Amounts(due)
        /\ Repaid(rows, day) = Amounts(left)
        /\ Amounts(due) \in Nat
    BY FlowsAreNatural DEF Repayments
  <1>2. paid \subseteq due
    BY FlowsAreNatural DEF Received, Repayments
  <1>3. /\ Amounts(paid) \in Nat
        /\ y.plan.principal = redemption + Amounts(paid)
    <2>1. Amounts(paid) \in Nat
      <3> HIDE DEF paid, due
      <3> QED
        BY <1>1, <1>2, AmountsGrow
    <2>2. PaidOf("amortization", Flows(rows), row.bought, date) = Amounts(paid)
      BY DEF PaidOf
    <2> QED
      BY <2>1, <2>2
  <1>4. CASE Source(row, rows, face) = "event"
    <2>1. PICK a \in Matches(row.target, rows) : redemption = a.amount
      BY <1>4 DEF Redemptions
    <2>2. /\ a \in rows /\ a.amount # NoAmount /\ a.type = "maturity" /\ a.date = date
      BY <2>1 DEF Matches
    <2>3. Flow(a) \in Flows(rows) /\ Flow(a).type = "maturity" /\ Flow(a).date = date
          /\ Flow(a).amount = redemption
      BY <2>1, <2>2 DEF Flows, Flow
    <2>4. Flow(a) \in due /\ Flow(a) \notin paid
      BY <2>3 DEF Repayments
    <2> DEFINE g == Flow(a)
    <2>5. g \in due /\ g \notin paid /\ g.amount = redemption /\ g.amount \in Nat
      BY <1>1, <2>3, <2>4
    <2> HIDE DEF g, paid, due, left
    <2>6. Amounts({g}) = redemption
      BY <2>5, AmountsOfOne
    <2>7. {g} \in SUBSET due /\ paid \in SUBSET due /\ {g} \cap paid = {}
      BY <1>2, <2>5
    <2>8. Amounts({g}) + Amounts(paid) <= Amounts(due)
      BY <1>1, <2>7, AmountsOfParts
    <2> QED
      BY <1>1, <1>3, <2>5, <2>6, <2>8
  <1>5. CASE Source(row, rows, face) = "face"
    <2>1. redemption = face
      BY <1>5 DEF Redemptions
    <2>2. \A f \in left : f \in due /\ f \notin paid
      <3> SUFFICES ASSUME NEW f \in left PROVE f \in due /\ f \notin paid
        OBVIOUS
      <3>1. f \in Flows(rows) /\ f.type \in {"amortization", "maturity"} /\ f.date > day
        BY DEF Repayments
      <3>2. /\ ~(f.type = "amortization" /\ f.date <= date)
            /\ ~(f.type = "maturity" /\ f.date <= row.bought)
        BY <1>5, <3>1 DEF FaceIsStale
      <3>3. f.date \in Nat
        BY <3>1, FlowsAreNatural
      <3>4. f.date > row.bought
        BY <3>1, <3>2, <3>3
      <3> QED
        BY <3>1, <3>2, <3>4 DEF Repayments, Received
    <2> HIDE DEF paid, due, left
    <2>3. left \in SUBSET due /\ paid \in SUBSET due /\ left \cap paid = {}
      BY <1>2, <2>2
    <2>4. Amounts(left) + Amounts(paid) <= Amounts(due)
      BY <1>1, <2>3, AmountsOfParts
    <2>5. Amounts(left) \in Nat
      BY <1>1, <2>3, AmountsGrow
    <2> QED
      BY <1>1, <1>3, <2>1, <2>4, <2>5
  <1>6. CASE Source(row, rows, face) = "unavailable"
    BY <1>6 DEF Redemptions
  <1> QED
    BY <1>4, <1>5, <1>6 DEF Source

\* Faces are covered by what is stored, results and plans count the principal once.
PrincipalInv ==
    /\ \A i \in Isins : instrument[i].face <= Repaid(DOMAIN actions[i], instrument[i].day)
    /\ \A r \in Requests :
         LET row == request[r].seen IN
         /\ request[r].step = "reading" =>
              request[r].face <= Repaid(DOMAIN actions[row.isin], request[r].day)
         /\ request[r].step = "pricing" =>
              Once([plan |-> request[r].plan, bought |-> row.bought, target |-> row.target],
                   DOMAIN actions[row.isin])
    /\ \A l \in LotIds : yields[l] # NoYield => Once(yields[l], DOMAIN actions[lot[l].isin])

\* Stored rows have no negative amounts where the answers have none.
LEMMA StoredRowsAreNatural ==
    ASSUME RowsAreAnswered, Consistent, NEW i \in Isins
    PROVE  Natural(DOMAIN actions[i])
  BY StoredRowsAreTyped DEF RowsAreAnswered, Consistent, Natural

\* A request that prices has just read the actions, or was pricing before.
LEMMA PricersRead ==
    ASSUME IInv, [LotNext]_lotVars, NEW r \in Requests, request'[r].step = "pricing"
    PROVE  \/ request'[r] = request[r]
           \/ LET row  == request[r].seen
                  rows == DOMAIN actions[row.isin] IN
              /\ UNCHANGED tables
              /\ request[r].step = "reading" /\ request'[r].seen = row
              /\ ~Raises(Purchase(row), Flows(rows), row.target.date,
                         Redemptions(row, rows, request[r].face))
              /\ \E redemption \in Redemptions(row, rows, request[r].face) :
                   request'[r].plan =
                     [source    |-> Source(row, rows, request[r].face),
                      principal |-> redemption
                                    + PaidOf("amortization", Flows(rows), row.bought, row.target.date),
                      faceDay   |-> request[r].day,
                      stamps    |-> request[r].stamps \cup {actions[row.isin][a] : a \in rows}]
  <1>0. request = [q \in Requests |-> request[q]] /\ \A q \in Requests : DOMAIN request[q] = Fields
    BY DEF IInv, LotInv, Knows
  <1>1. CASE UNCHANGED lotVars
    BY <1>1 DEF lotVars
  <1>2. ASSUME NEW i \in Isins, NEW answer \in Answers, Refresh(i, answer) PROVE UNCHANGED request
    BY <1>2 DEF Refresh
  <1>3. ASSUME NEW l \in LotIds, Delete(l) PROVE UNCHANGED request
    BY <1>3 DEF Delete
  <1>4. ASSUME NEW l \in LotIds, NEW j \in Isins, NEW purchase \in Purchases,
               NEW bought \in Days, NEW target \in Targets, NEW price \in Prices \cup {NoAmount},
               NEW reason \in Reasons \cup {NoReason},
               Create(l, j, purchase, bought, target, price, reason)
        PROVE  UNCHANGED request
    BY <1>4 DEF Create
  <1>5. ASSUME NEW q \in Requests, Begin(q) PROVE request'[r] = request[r]
    <2>1. ASSUME NEW l \in LotIds, BeginCalculate(q, l) PROVE request'[r] = request[r]
      <3>1. PICK new : new.step = "reading" /\ request' = [request EXCEPT ![q] = new]
        BY <2>1 DEF BeginCalculate, Idle
      <3> QED
        BY <1>0, <3>1
    <2>2. ASSUME NEW l \in LotIds, NEW patch \in Patches, BeginUpdate(q, l, patch)
          PROVE  request'[r] = request[r]
      <3>1. PICK new : new.step = "updating" /\ request' = [request EXCEPT ![q] = new]
        BY <2>2 DEF BeginUpdate, Idle
      <3> QED
        BY <1>0, <3>1
    <2> QED
      BY <1>5, <2>1, <2>2 DEF Begin
  <1>6. ASSUME NEW q \in Requests, request' = [request EXCEPT ![q] = Idle]
        PROVE  request'[r] = request[r]
    BY <1>0, <1>6 DEF Idle
  <1>7. ASSUME NEW q \in Requests, CommitUpdate(q) \/ CommitYield(q) PROVE request'[r] = request[r]
    BY <1>6, <1>7 DEF CommitUpdate, CommitYield
  <1>8. ASSUME NEW q \in Requests, ReadActions(q), q # r PROVE request'[r] = request[r]
    <2>1. \/ request' = [request EXCEPT ![q] = Idle]
          \/ \E rows, plan :
               request' = [request EXCEPT ![q].step = "pricing", ![q].rows = rows, ![q].plan = plan]
      BY <1>8 DEF ReadActions
    <2> QED
      BY <1>0, <1>8, <2>1
  <1>9. ASSUME ReadActions(r), request'[r] # request[r]
        PROVE  LET row  == request[r].seen
                   rows == DOMAIN actions[row.isin] IN
               /\ UNCHANGED tables
               /\ request[r].step = "reading" /\ request'[r].seen = row
               /\ ~Raises(Purchase(row), Flows(rows), row.target.date,
                          Redemptions(row, rows, request[r].face))
               /\ \E redemption \in Redemptions(row, rows, request[r].face) :
                    request'[r].plan =
                      [source    |-> Source(row, rows, request[r].face),
                       principal |-> redemption
                                     + PaidOf("amortization", Flows(rows), row.bought, row.target.date),
                       faceDay   |-> request[r].day,
                       stamps    |-> request[r].stamps \cup {actions[row.isin][a] : a \in rows}]
    <2> DEFINE row  == request[r].seen
               rows == DOMAIN actions[row.isin]
               set  == Redemptions(row, rows, request[r].face)
               planOf(redemption) ==
                 [source    |-> Source(row, rows, request[r].face),
                  principal |-> redemption
                                + PaidOf("amortization", Flows(rows), row.bought, row.target.date),
                  faceDay   |-> request[r].day,
                  stamps    |-> request[r].stamps \cup {actions[row.isin][a] : a \in rows}]
    <2>1. request' # [request EXCEPT ![r] = Idle]
      BY <1>6, <1>9
    <2>2. /\ request[r].step = "reading" /\ UNCHANGED tables
          /\ ~Raises(Purchase(row), Flows(rows), row.target.date, set)
          /\ \E redemption \in set :
               request' = [request EXCEPT ![r].step = "pricing", ![r].plan = planOf(redemption)]
      BY <1>9, <2>1 DEF ReadActions
    <2>3. PICK redemption \in set :
            request' = [request EXCEPT ![r].step = "pricing", ![r].plan = planOf(redemption)]
      BY <2>2
    <2> DEFINE plan == planOf(redemption)
    <2>4. request' = [request EXCEPT ![r].step = "pricing", ![r].plan = plan]
      BY <2>3
    <2> HIDE DEF row, rows, set, plan, planOf
    <2>5. request'[r].plan = plan /\ request'[r].seen = request[r].seen
      BY <1>0, <2>4 DEF Fields
    <2>6. \E other \in set : request'[r].plan = planOf(other)
      BY <2>3, <2>5 DEF plan
    <2> QED
      BY <2>2, <2>5, <2>6 DEF row, rows, set, planOf
  <1> QED
    BY <1>1, <1>2, <1>3, <1>4, <1>5, <1>7, <1>8, <1>9 DEF LotNext

\* A result stays with its lot, or is what a request has priced.
LEMMA ResultsArePlans ==
    ASSUME IInv, IInv', [LotNext]_lotVars, NEW l \in LotIds, yields'[l] # NoYield
    PROVE  \/ /\ yields'[l] = yields[l] /\ lot[l].isin \in Isins
              /\ lot'[l].isin = lot[l].isin
           \/ \E r \in Requests :
                LET row == request[r].seen IN
                /\ request[r].step = "pricing" /\ UNCHANGED <<marketVars, lot>>
                /\ lot[l].isin = row.isin /\ row.isin \in Isins
                /\ yields'[l].plan = request[r].plan
                /\ yields'[l].bought = row.bought /\ yields'[l].target = row.target
  <1>0. /\ lot = [k \in LotIds |-> lot[k]] /\ yields = [k \in LotIds |-> yields[k]]
        /\ lot'[l].state = "open"
        /\ yields[l] # NoYield => lot[l].state = "open"
    BY DEF IInv, LotInv, YieldOK
  <1>1. ASSUME yields'[l] = yields[l], lot'[l].isin = lot[l].isin
        PROVE  lot[l].isin \in Isins
    BY <1>0, <1>1, OpenIsKnown DEF OpenRow
  <1>2. CASE UNCHANGED <<lot, yields>>
    BY <1>1, <1>2
  <1>3. CASE UNCHANGED lotVars
    BY <1>2, <1>3 DEF lotVars
  <1>4. ASSUME NEW i \in Isins, NEW answer \in Answers, Refresh(i, answer)
        PROVE  UNCHANGED <<lot, yields>>
    BY <1>4 DEF Refresh
  <1>5. ASSUME NEW k \in LotIds, Delete(k) PROVE yields'[l] = yields[l] /\ lot'[l].isin = lot[l].isin
    <2>1. k # l
      BY <1>0, <1>5 DEF Delete
    <2> QED
      BY <1>0, <1>5, <2>1 DEF Delete
  <1>6. ASSUME NEW k \in LotIds, NEW j \in Isins, NEW purchase \in Purchases,
               NEW bought \in Days, NEW target \in Targets, NEW price \in Prices \cup {NoAmount},
               NEW reason \in Reasons \cup {NoReason},
               Create(k, j, purchase, bought, target, price, reason)
        PROVE  yields'[l] = yields[l] /\ lot'[l].isin = lot[l].isin
    <2>1. yields'[l] = yields[l] /\ lot[k].state = "none"
      BY <1>6 DEF Create
    <2>2. k # l
      BY <1>0, <2>1
    <2>3. PICK new : lot' = [lot EXCEPT ![k] = new]
      BY <1>6 DEF Create
    <2> QED
      BY <1>0, <2>1, <2>2, <2>3
  <1>7. ASSUME NEW q \in Requests, Begin(q) PROVE UNCHANGED <<lot, yields>>
    BY <1>7 DEF Begin, BeginCalculate, BeginUpdate, tables
  <1>8. ASSUME NEW q \in Requests, ReadActions(q) PROVE UNCHANGED <<lot, yields>>
    BY <1>8 DEF ReadActions, tables
  <1>9. ASSUME NEW q \in Requests, CommitUpdate(q)
        PROVE  yields'[l] = yields[l] /\ lot'[l].isin = lot[l].isin
    <2>1. /\ yields' = yields /\ request[q].step = "updating"
          /\ lot' = IF lot[request[q].lot].state = "open"
                    THEN [lot EXCEPT ![request[q].lot] =
                           [c \in DOMAIN @ |-> IF c \in Written(q) THEN Assigned(request[q].patch)[c] ELSE @[c]]]
                    ELSE lot
      BY <1>9 DEF CommitUpdate
    <2>2. lot[l].state = "open"
      BY <1>0, <2>1
    <2>3. OpenRow(lot[l])
      BY <2>2, OpenIsKnown
    <2>4. request[q].patch \in Patches /\ ValidPatch(request[q].patch)
      BY <2>1 DEF IInv, LotInv, Knows
    <2>5. "isin" \notin Written(q)
      BY <2>4, AssignedColumns DEF Written
    <2>6. "isin" \in DOMAIN lot[l]
      BY <2>3 DEF OpenRow, Columns
    <2>7. lot'[l].isin = lot[l].isin
      BY <1>0, <2>1, <2>5, <2>6
    <2> QED
      BY <2>1, <2>7
  <1>10. ASSUME NEW q \in Requests, CommitYield(q)
         PROVE  \/ UNCHANGED <<lot, yields>>
                \/ yields'[l] = yields[l] /\ lot'[l].isin = lot[l].isin
                \/ LET row == request[q].seen IN
                   /\ request[q].step = "pricing" /\ UNCHANGED <<marketVars, lot>>
                   /\ lot[l].isin = row.isin /\ row.isin \in Isins
                   /\ yields'[l].plan = request[q].plan
                   /\ yields'[l].bought = row.bought /\ yields'[l].target = row.target
    <2>1. request[q].step = "pricing" /\ UNCHANGED <<marketVars, lot>>
      BY <1>10 DEF CommitYield
    <2>2. \/ yields' = yields
          \/ /\ lot[request[q].lot].state = "open"
             /\ \E new : /\ yields' = [yields EXCEPT ![request[q].lot] = new]
                         /\ new.plan = request[q].plan
                         /\ new.bought = request[q].seen.bought
                         /\ new.target = request[q].seen.target
      <3> DEFINE i == request[q].seen.isin
                 found == IF snapshots[i] = {} THEN {[received |-> 0, quote |-> NoQuote]} ELSE Newest(i)
      <3>1. PICK s \in found, current \in BOOLEAN :
              \/ yields' = yields
              \/ /\ lot[request[q].lot].state = "open"
                 /\ yields' = [yields EXCEPT ![request[q].lot] =
                      [bought |-> request[q].seen.bought, target |-> request[q].seen.target,
                       received |-> s.received, plan |-> request[q].plan, current |-> current]]
        BY <1>10 DEF CommitYield, HasPrice
      <3> DEFINE new == [bought |-> request[q].seen.bought, target |-> request[q].seen.target,
                         received |-> s.received, plan |-> request[q].plan, current |-> current]
      <3>2. /\ new.plan = request[q].plan /\ new.bought = request[q].seen.bought
            /\ new.target = request[q].seen.target
        OBVIOUS
      <3>3. \/ yields' = yields
            \/ lot[request[q].lot].state = "open" /\ yields' = [yields EXCEPT ![request[q].lot] = new]
        BY <3>1
      <3> HIDE DEF new
      <3> QED
        BY <3>2, <3>3
    <2>3. Knows(q)
      BY DEF IInv, LotInv
    <2>4. /\ request[q].seen.isin \in Isins
          /\ lot[request[q].lot].state = "open" => lot[request[q].lot].isin = request[q].seen.isin
      BY <2>1, <2>3 DEF Knows, OpenRow
    <2> QED
      BY <1>0, <2>1, <2>2, <2>4
  <1> QED
    BY <1>1, <1>2, <1>3, <1>4, <1>5, <1>6, <1>7, <1>8, <1>9, <1>10 DEF LotNext

\* No step counts principal twice.
LEMMA PrincipalStays ==
    ASSUME Consistent, IInv, IInv', RowsAreAnswered, FacesAreNatural, PrincipalInv,
           [LotNext]_lotVars
    PROVE  PrincipalInv'
  <1>1. /\ RowsAreAnswered'
        /\ \A i \in Isins : DOMAIN actions[i] \in SUBSET DOMAIN actions'[i]
    BY StoredRows
  <1>2. \A i \in Isins : Natural(DOMAIN actions[i])
    BY StoredRowsAreNatural
  <1>3. ASSUME NEW i \in Isins PROVE Natural(DOMAIN actions'[i])
    <2>1. \A a \in DOMAIN actions'[i] : \E answer \in Answers : a \in Calendar(answer)
      BY <1>1 DEF RowsAreAnswered
    <2>2. IsFiniteSet(DOMAIN actions'[i])
      BY <1>1 DEF RowsAreAnswered
    <2>3. \A answer \in Answers : \A a \in Calendar(answer) :
            a.date \in Nat /\ a.amount \in Int \cup {NoAmount}
      BY AnswerAssumption, AmountsAssumption
    <2> QED
      BY <2>1, <2>2, <2>3 DEF Natural, Typed, Consistent
  <1>4. ASSUME NEW i \in Isins, NEW face \in Nat, NEW day, face <= Repaid(DOMAIN actions[i], day)
        PROVE  face <= Repaid(DOMAIN actions'[i], day)
    <2>1. /\ Repaid(DOMAIN actions[i], day) \in Nat
          /\ Repaid(DOMAIN actions[i], day) <= Repaid(DOMAIN actions'[i], day)
      BY <1>1, <1>3, RepaidGrows
    <2>2. Repaid(DOMAIN actions'[i], day) \in Nat
      BY <1>3, FlowsAreNatural
    <2> QED
      BY <1>4, <2>1, <2>2
  <1>5. ASSUME NEW i \in Isins
        PROVE  instrument'[i].face <= Repaid(DOMAIN actions'[i], instrument'[i].day)
    <2>1. ASSUME NEW answer \in Answers, Refresh(i, answer)
          PROVE  instrument'[i].face <= Repaid(DOMAIN actions'[i], instrument'[i].day)
      <3>1. Refreshed(i, Quoted(answer), Calendar(answer))
        BY <2>1, RefreshFacts DEF IInv
      <3>2. /\ instrument'[i].day = Quoted(answer).day
            /\ Calendar(answer) \in SUBSET DOMAIN actions'[i]
        BY <3>1 DEF Refreshed
      <3>3. instrument'[i].face = Quoted(answer).face
        BY <2>1 DEF Refresh, Publish, IInv, MarketInv
      <3>4. Quoted(answer).face \in Nat
        BY AnswerAssumption, DaysAssumption
      <3>5. Quoted(answer).face <= Repaid(Calendar(answer), Quoted(answer).day)
        BY DEF Consistent
      <3>6. /\ Repaid(Calendar(answer), Quoted(answer).day) \in Nat
            /\ Repaid(Calendar(answer), Quoted(answer).day)
                 <= Repaid(DOMAIN actions'[i], Quoted(answer).day)
        BY <1>3, <3>2, RepaidGrows
      <3>7. Repaid(DOMAIN actions'[i], Quoted(answer).day) \in Nat
        BY <1>3, FlowsAreNatural
      <3> QED
        BY <3>2, <3>3, <3>4, <3>5, <3>6, <3>7
    <2>2. CASE instrument'[i] = Bare
      <3>1. Bare.face = 0
        BY DEF Bare
      <3>2. Repaid(DOMAIN actions'[i], instrument'[i].day) \in Nat
        BY <1>3, FlowsAreNatural
      <3> QED
        BY <2>2, <3>1, <3>2
    <2>3. CASE instrument'[i] = instrument[i]
      <3>1. /\ instrument[i].face \in Nat
            /\ instrument[i].face <= Repaid(DOMAIN actions[i], instrument[i].day)
        BY DEF FacesAreNatural, PrincipalInv
      <3>2. instrument[i].face <= Repaid(DOMAIN actions'[i], instrument[i].day)
        BY <1>4, <3>1
      <3> QED
        BY <2>3, <3>2
    <2> QED
      BY <2>1, <2>2, <2>3, OnlyRefreshQuotes
  <1>6. ASSUME NEW r \in Requests, request'[r].step = "reading"
        PROVE  request'[r].face <= Repaid(DOMAIN actions'[request'[r].seen.isin], request'[r].day)
    <2>1. CASE request'[r] = request[r]
      <3>1. /\ request[r].face \in Nat /\ request[r].seen.isin \in Isins
            /\ request[r].face <= Repaid(DOMAIN actions[request[r].seen.isin], request[r].day)
        BY <1>6, <2>1 DEF FacesAreNatural, PrincipalInv, IInv, LotInv, Knows, OpenRow
      <3> QED
        BY <1>4, <2>1, <3>1
    <2>2. ASSUME NEW l \in LotIds, UNCHANGED tables, lot[l].state = "open",
                 request'[r].seen = lot[l],
                 request'[r].face = instrument[lot[l].isin].face,
                 request'[r].day = instrument[lot[l].isin].day
          PROVE  request'[r].face <= Repaid(DOMAIN actions'[request'[r].seen.isin], request'[r].day)
      <3>1. lot[l].isin \in Isins
        BY <2>2, OpenIsKnown DEF OpenRow
      <3>2. instrument[lot[l].isin].face <= Repaid(DOMAIN actions[lot[l].isin], instrument[lot[l].isin].day)
        BY <3>1 DEF PrincipalInv
      <3> QED
        BY <2>2, <3>2 DEF tables, marketVars
    <2> QED
      BY <1>6, <2>1, <2>2, ReadersBegan
  <1>7. ASSUME NEW r \in Requests, request'[r].step = "pricing"
        PROVE  Once([plan |-> request'[r].plan, bought |-> request'[r].seen.bought,
                     target |-> request'[r].seen.target],
                    DOMAIN actions'[request'[r].seen.isin])
    <2>1. CASE request'[r] = request[r]
      <3> DEFINE y == [plan |-> request[r].plan, bought |-> request[r].seen.bought,
                       target |-> request[r].seen.target]
                 i == request[r].seen.isin
      <3>1. i \in Isins /\ Once(y, DOMAIN actions[i])
        BY <1>7, <2>1 DEF PrincipalInv, IInv, LotInv, Knows, OpenRow
      <3> HIDE DEF y, i
      <3>2. Once(y, DOMAIN actions'[i])
        BY <1>1, <1>3, <3>1, OnceGrows
      <3> QED
        BY <2>1, <3>2 DEF y, i
    <2>2. CASE request'[r] # request[r]
      <3> DEFINE row == request[r].seen
                 rows == DOMAIN actions[row.isin]
                 face == request[r].face
                 y == [plan |-> request'[r].plan, bought |-> row.bought, target |-> row.target]
      <3>1. /\ UNCHANGED tables /\ request[r].step = "reading" /\ request'[r].seen = row
            /\ ~Raises(Purchase(row), Flows(rows), row.target.date, Redemptions(row, rows, face))
            /\ \E redemption \in Redemptions(row, rows, face) :
                 request'[r].plan =
                   [source    |-> Source(row, rows, face),
                    principal |-> redemption
                                  + PaidOf("amortization", Flows(rows), row.bought, row.target.date),
                    faceDay   |-> request[r].day,
                    stamps    |-> request[r].stamps \cup {actions[row.isin][a] : a \in rows}]
        BY <1>7, <2>2, PricersRead
      <3>10. PICK redemption \in Redemptions(row, rows, face) :
               request'[r].plan =
                 [source    |-> Source(row, rows, face),
                  principal |-> redemption
                                + PaidOf("amortization", Flows(rows), row.bought, row.target.date),
                  faceDay   |-> request[r].day,
                  stamps    |-> request[r].stamps \cup {actions[row.isin][a] : a \in rows}]
        BY <3>1
      <3>2. /\ y.plan.source = Source(row, rows, face)
            /\ y.plan.principal = redemption
                 + PaidOf("amortization", Flows(rows), row.bought, row.target.date)
            /\ y.plan.faceDay = request[r].day
        BY <3>10
      <3>3. /\ y.bought = row.bought /\ y.target = row.target
        OBVIOUS
      <3>4. /\ row.isin \in Isins /\ row.bought \in Nat /\ row.target.date \in Nat
            /\ request[r].day \in Nat /\ face \in Nat
            /\ face <= Repaid(rows, request[r].day)
        BY <3>1, DaysAssumption
           DEF IInv, LotInv, Knows, ReadsAreOld, OpenRow, FacesAreNatural, PrincipalInv
      <3>5. row.target.date > row.bought
        <4>1. Purchase(row).bought = row.bought
          BY DEF Purchase
        <4>2. ~(row.target.date <= row.bought)
          BY <3>1, <4>1 DEF Raises
        <4> QED
          BY <3>4, <4>2
      <3>6. Natural(rows)
        BY <1>2, <3>4
      <3>7. actions' = actions
        BY <3>1 DEF tables, marketVars
      <3> DEFINE day == request[r].day
      <3>9. request'[r].seen = row
        BY <3>1
      <3> HIDE DEF row, rows, face, y, day
      <3>8. Once(y, rows)
        BY <3>2, <3>3, <3>4, <3>5, <3>6, PlansCountOnce DEF day
      <3> QED
        BY <3>7, <3>8, <3>9 DEF y, rows
    <2> QED
      BY <2>1, <2>2
  <1>8. ASSUME NEW l \in LotIds, yields'[l] # NoYield
        PROVE  Once(yields'[l], DOMAIN actions'[lot'[l].isin])
    <2>1. CASE yields'[l] = yields[l] /\ lot[l].isin \in Isins /\ lot'[l].isin = lot[l].isin
      <3>1. Once(yields[l], DOMAIN actions[lot[l].isin])
        BY <1>8, <2>1 DEF PrincipalInv
      <3>2. Once(yields[l], DOMAIN actions'[lot[l].isin])
        BY <1>1, <1>3, <2>1, <3>1, OnceGrows
      <3> QED
        BY <2>1, <3>2
    <2>2. ASSUME NEW r \in Requests, request[r].step = "pricing", UNCHANGED <<marketVars, lot>>,
                 lot[l].isin = request[r].seen.isin,
                 yields'[l].plan = request[r].plan,
                 yields'[l].bought = request[r].seen.bought,
                 yields'[l].target = request[r].seen.target
          PROVE  Once(yields'[l], DOMAIN actions'[lot'[l].isin])
      <3> DEFINE y == [plan |-> request[r].plan, bought |-> request[r].seen.bought,
                       target |-> request[r].seen.target]
                 rows == DOMAIN actions[request[r].seen.isin]
      <3>1. Once(y, rows)
        BY <2>2 DEF PrincipalInv
      <3>2. yields'[l].plan = y.plan /\ yields'[l].bought = y.bought /\ yields'[l].target = y.target
        BY <2>2
      <3>3. DOMAIN actions'[lot'[l].isin] = rows
        BY <2>2 DEF marketVars
      <3> HIDE DEF y, rows
      <3>4. Once(yields'[l], rows)
        BY <3>1, <3>2, OnceIsOfItsFields
      <3> QED
        BY <3>3, <3>4
    <2> QED
      BY <1>8, <2>1, <2>2, ResultsArePlans
  <1> QED
    BY <1>5, <1>6, <1>7, <1>8 DEF PrincipalInv

\* Where what MOEX says fits together, no plan to hold to maturity counts more principal
\* than the calendar repays after the purchase, whatever refreshes, updates and deletions
\* commit while it is computed, unless a face value stood in for a maturity after it had
\* gone stale.
THEOREM PrincipalsArePaidOnce ==
    ASSUME Consistent PROVE LotSpec => []PrincipalIsPaidOnce
  <1>1. LotInit => PrincipalInv
    <2> SUFFICES ASSUME LotInit PROVE PrincipalInv
      OBVIOUS
    <2>1. DOMAIN <<>> = {}
      BY SMT
    <2>2. \A i \in Isins : actions[i] = <<>> /\ instrument[i] = Absent
      BY DEF LotInit, MarketInit
    <2>3. Natural({})
      BY FS_EmptySet DEF Natural, Typed
    <2>4. Absent.face = 0 /\ Repaid({}, Absent.day) \in Nat
      BY <2>3, FlowsAreNatural DEF Absent
    <2>5. \A i \in Isins : instrument[i].face <= Repaid(DOMAIN actions[i], instrument[i].day)
      <3> SUFFICES ASSUME NEW i \in Isins
                   PROVE  instrument[i].face <= Repaid(DOMAIN actions[i], instrument[i].day)
        OBVIOUS
      <3>1. DOMAIN actions[i] = {} /\ instrument[i] = Absent
        BY <2>1, <2>2, Zenon
      <3> QED
        BY <2>4, <3>1
    <2>6. \A r \in Requests : request[r].step = "idle"
      BY DEF LotInit, Idle
    <2>7. \A l \in LotIds : yields[l] = NoYield
      BY DEF LotInit
    <2> QED
      BY <2>5, <2>6, <2>7 DEF PrincipalInv
  <1>2. IInv /\ IInv' /\ RowsAreAnswered /\ FacesAreNatural /\ PrincipalInv /\ [LotNext]_lotVars
          => PrincipalInv'
    BY PrincipalStays
  <1>3. PrincipalInv => PrincipalIsPaidOnce
    BY DEF PrincipalInv, PrincipalIsPaidOnce, Once
  <1> QED
    BY <1>1, <1>2, <1>3, Invariance, RowsComeFromAnswers, FacesStayNatural, PTL DEF LotSpec

\* Lots, updates and calculations do to the stored market data only what MarketData
\* promises: an unknown instrument is added bare, and refreshes commit as they should.
THEOREM LotsKeepMarketData == LotSpec => MarketSpec
  <1>1. LotInit => MarketInit
    BY DEF LotInit
  <1>2. IInv /\ [LotNext]_lotVars => [MarketNext]_marketVars
    <2> SUFFICES ASSUME IInv, [LotNext]_lotVars PROVE MarketNext \/ UNCHANGED marketVars
      OBVIOUS
    <2>1. CASE UNCHANGED lotVars
      BY <2>1 DEF lotVars
    <2>2. ASSUME NEW i \in Isins, NEW answer \in Answers, Refresh(i, answer) PROVE MarketNext
      <3> DEFINE quote == Quoted(answer)
                 known == Calendar(answer)
                 new == known \ DOMAIN actions[i]
                 added == DOMAIN actions'[i] \ DOMAIN actions[i]
                 row == [known |-> "quoted", face |-> quote.face, day |-> quote.day]
                 last == [received |-> clock + 1, quote |-> quote, error |-> FALSE]
      <3>1. Refreshed(i, quote, known)
        BY <2>2, RefreshFacts DEF IInv
      <3>2. Publish(i, row, quote, new, clock + 1, clock + 1)
        BY <2>2 DEF Refresh
      <3>3. instrument'[i] = row
        BY <3>2 DEF Publish, IInv, MarketInv
      <3>4. added = new
        BY <3>1 DEF Refreshed
      <3>5. /\ clock + 1 \in 1..MaxClock /\ quote \in Quotes /\ known \in Calendars
            /\ last \in snapshots'[i]
        BY <3>1, DaysAssumption DEF Refreshed, IInv, MarketInv
      <3>6. last \notin snapshots[i]
        BY <3>2 DEF Publish
      <3>7. last.quote = quote /\ last.received = clock + 1
        OBVIOUS
      <3> HIDE DEF quote, known, new, added, row, last
      <3>8. Publish(i, instrument'[i], last.quote, added, clock + 1, last.received)
        BY <3>2, <3>3, <3>4, <3>7
      <3>9. added \subseteq known
        BY <3>4 DEF new
      <3>10. Published(i)
        <4>1. last \in snapshots'[i] \ snapshots[i]
          BY <3>5, <3>6
        <4>2. last.quote \in Quotes /\ last.received \in 1..MaxClock
          BY <3>5, <3>7
        <4> QED
          BY <3>5, <3>8, <3>9, <4>1, <4>2 DEF Published, added
      <3> QED
        BY <3>10 DEF MarketNext
    <2>3. ASSUME NEW l \in LotIds, Delete(l) PROVE UNCHANGED marketVars
      BY <2>3 DEF Delete
    <2>4. ASSUME NEW l \in LotIds, NEW i \in Isins, NEW purchase \in Purchases,
                 NEW bought \in Days, NEW target \in Targets, NEW price \in Prices \cup {NoAmount},
                 NEW reason \in Reasons \cup {NoReason},
                 Create(l, i, purchase, bought, target, price, reason)
          PROVE  MarketNext \/ UNCHANGED marketVars
      <3>1. /\ instrument' = [instrument EXCEPT ![i] = IF @.known = "absent" THEN Bare ELSE @]
            /\ UNCHANGED <<actions, snapshots>>
        BY <2>4 DEF Create
      <3>2. CASE instrument[i].known = "absent"
        <4>1. AddBare(i)
          BY <3>1, <3>2 DEF AddBare
        <4> QED
          BY <4>1 DEF MarketNext
      <3>3. CASE instrument[i].known # "absent"
        <4>1. instrument' = instrument
          BY <3>1, <3>3 DEF IInv, MarketInv
        <4> QED
          BY <3>1, <4>1 DEF marketVars
      <3> QED
        BY <3>2, <3>3
    <2>5. ASSUME NEW r \in Requests, Begin(r) PROVE UNCHANGED marketVars
      BY <2>5 DEF Begin, BeginCalculate, BeginUpdate, tables
    <2>6. ASSUME NEW r \in Requests, CommitUpdate(r) \/ ReadActions(r) \/ CommitYield(r)
          PROVE  UNCHANGED marketVars
      BY <2>6 DEF CommitUpdate, ReadActions, CommitYield, tables
    <2> QED
      BY <2>1, <2>2, <2>3, <2>4, <2>5, <2>6 DEF LotNext
  <1> QED
    BY <1>1, <1>2, Invariance, PTL DEF LotSpec, MarketSpec
=============================================================================
