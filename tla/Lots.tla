-------------------------------- MODULE Lots --------------------------------
(***************************************************************************)
(* Purchase lots and their yields over the stored market data.             *)
(*                                                                         *)
(* Requests create, edit, delete and calculate lots while refreshes        *)
(* commit.  Every request reads first and commits later; a calculation     *)
(* reads the lot, the actions and the newest snapshot in that order, each  *)
(* as it is committed at that moment.                                      *)
(*                                                                         *)
(* Refreshes commit one after the other here; their overlaps are           *)
(* InstrumentRefresh's, and MarketData is what both have in common.  The   *)
(* number of a refresh stands for the times it gives to what it stores.    *)
(***************************************************************************)
EXTENDS MarketData, MoexMapper

CONSTANTS
    LotIds, Requests,
    Answers,        \* of MOEX; Quotes and Calendars are what they become
    Purchases,      \* records [quantity, clean, accrued, commission, sale]
    Targets,        \* records [event, date], event being maturity or offer
    Days,           \* days of purchase
    Prices, Reasons,    \* of manual redemption prices
    Patches,        \* request bodies: functions from some columns to values
    MaxRequests,    \* bound on the updates and calculations that begin
    NoReason, NoLot, NoYield

VARIABLES
    lot,            \* per lot: its row
    yields,         \* per lot: its newest row of yield_snapshots
    request,        \* per request: its step and what it has read
    clock,          \* number of refreshes, the time of their rows
    begun,          \* number of updates and calculations that have begun
    calendar,       \* history, per ISIN: the calendar of the last refresh
    returned,       \* history, per ISIN: actions that MOEX revised and then restored
    unexplained     \* history: lots whose override was edited over or robbed of its reason

lotVars == <<marketVars, lot, yields, request, clock, begun, calendar, returned, unexplained>>
tables  == <<marketVars, lot, yields>>
history == <<calendar, returned, unexplained>>

\* The types of a request body.
ASSUME PatchAssumption ==
    \A patch \in Patches :
        /\ "bought" \in DOMAIN patch => patch["bought"] \in Days
        /\ "target" \in DOMAIN patch => patch["target"] \in Targets
        /\ "price" \in DOMAIN patch => patch["price"] \in Prices \cup {NoAmount}
        /\ "reason" \in DOMAIN patch => patch["reason"] \in Reasons \cup {NoReason}

ASSUME DaysAssumption ==
    /\ MaxClock \in Nat /\ Days \subseteq Nat
    /\ \A target \in Targets : target.date \in Nat
    /\ \A quote \in Quotes : quote.face \in Nat /\ quote.day \in Nat

\* Calendars are finite, and amounts are whole numbers of some small unit.
ASSUME AmountsAssumption ==
    /\ \A c \in Calendars : IsFiniteSet(c) /\ \A a \in c : a.date \in Nat /\ a.amount \in Int \cup {NoAmount}
    /\ Purchases \subseteq [quantity : Int, clean : Int, accrued : Int, commission : Int, sale : Int]
    /\ Prices \subseteq Int
    /\ \A quote \in Quotes : {quote.bid, quote.accrued} \subseteq Int \cup {NoAmount}

ASSUME AnswerAssumption ==
    \A answer \in Answers : Quoted(answer) \in Quotes /\ Calendar(answer) \in Calendars

NoRow == [state |-> "none", isin |-> NoLot, purchase |-> NoLot, bought |-> 0, target |-> NoLot,
          price |-> NoAmount, reason |-> NoReason, dated |-> FALSE]

Idle == [step |-> "idle", lot |-> NoLot, patch |-> <<>>, seen |-> NoRow, face |-> 0, day |-> 0,
         stamps |-> {}, rows |-> {}, plan |-> NoYield]

-----------------------------------------------------------------------------
(* The market: a refresh commits *)

\* An action comes back when one of its type and day that MOEX no longer lists is as new.
ComeBack(i, known) ==
    {a \in known \cap DOMAIN actions[i] :
        \E b \in DOMAIN actions[i] \ known :
            SameEvent(a, b) /\ b.amount # NoAmount /\ actions[i][b] >= actions[i][a]}

\* A row that is new and comes twice is added twice, and the commit is refused: then
\* nothing changes.
Refresh(i, answer) ==
    LET quote == Quoted(answer)
        known == Calendar(answer) IN
    /\ clock < MaxClock
    /\ ~Refused(answer, i)
    /\ Repeated(answer) \subseteq DOMAIN actions[i]
    /\ Publish(i, [known |-> "quoted", face |-> quote.face, day |-> quote.day], quote,
               known \ DOMAIN actions[i], clock + 1, clock + 1)
    /\ clock' = clock + 1
    /\ calendar' = [calendar EXCEPT ![i] = known]
    /\ returned' = [returned EXCEPT ![i] = @ \cup ComeBack(i, known)]
    /\ UNCHANGED <<lot, yields, request, begun, unexplained>>

-----------------------------------------------------------------------------
(* Lots *)

\* A price needs a reason in the body that brings it.
Explained(price, reason) == price # NoAmount => reason # NoReason

\* create; an import writes the same rows with a reason of its own.  A name of LotIds is
\* used again when no request knows the row it stood for: ids are never used twice.
Create(l, i, purchase, bought, target, price, reason) ==
    /\ lot[l].state = "none" /\ \A r \in Requests : request[r].lot # l
    /\ Explained(price, reason)
    /\ lot' = [lot EXCEPT ![l] =
         [state |-> "open", isin |-> i, purchase |-> purchase, bought |-> bought,
          target |-> target, price |-> price, reason |-> reason, dated |-> price # NoAmount]]
    /\ instrument' = [instrument EXCEPT ![i] = IF @.known = "absent" THEN Bare ELSE @]
    /\ UNCHANGED <<actions, snapshots, yields, request, clock, begun, history>>

ValidPatch(patch) ==
    /\ DOMAIN patch \subseteq {"bought", "target", "price", "reason"}
    /\ "price" \in DOMAIN patch /\ patch["price"] # NoAmount =>
         "reason" \in DOMAIN patch /\ patch["reason"] # NoReason

BeginUpdate(r, l, patch) ==
    /\ request[r].step = "idle" /\ begun < MaxRequests
    /\ lot[l].state = "open"
    /\ begun' = begun + 1
    /\ ValidPatch(patch)
    /\ request' = [request EXCEPT ![r] =
         [Idle EXCEPT !.step = "updating", !.lot = l, !.patch = patch, !.seen = lot[l]]]
    /\ UNCHANGED <<tables, clock, history>>

Removes(patch) == "price" \in DOMAIN patch /\ patch["price"] = NoAmount
Touches(patch) == {"price", "reason"} \cap DOMAIN patch # {}

\* Mutant: the time of an override is not renewed.
AssignedUndated(patch) ==
    [c \in DOMAIN patch \cup (IF Removes(patch) THEN {"reason", "dated"} ELSE {}) |->
        IF c = "dated" THEN ~Removes(patch)
        ELSE IF c = "reason" /\ Removes(patch) THEN NoReason ELSE patch[c]]

\* Taking the override away takes its reason and time; touching one renews the time.
Assigned(patch) ==
    [c \in DOMAIN patch \cup (IF Removes(patch) THEN {"reason"} ELSE {})
                        \cup (IF Touches(patch) THEN {"dated"} ELSE {}) |->
        IF c = "dated" THEN ~Removes(patch)
        ELSE IF c = "reason" /\ Removes(patch) THEN NoReason ELSE patch[c]]

\* The columns that differ from what was read are written, no others; a new time differs.
Written(r) ==
    LET new == Assigned(request[r].patch) IN
    {c \in DOMAIN new : new[c] # request[r].seen[c] \/ (c = "dated" /\ new[c])}

\* The reason goes and the price stays.
Robs(new) ==
    /\ "reason" \in DOMAIN new /\ new["reason"] = NoReason
    /\ "price" \notin DOMAIN new

\* A row that is gone refuses the update.
CommitUpdate(r) ==
    LET l   == request[r].lot
        new == Assigned(request[r].patch) IN
    /\ request[r].step = "updating"
    /\ request' = [request EXCEPT ![r] = Idle]
    /\ lot' = IF lot[l].state = "open"
              THEN [lot EXCEPT ![l] = [c \in DOMAIN @ |-> IF c \in Written(r) THEN new[c] ELSE @[c]]]
              ELSE lot
    /\ unexplained' =
         IF lot[l] # request[r].seen \/ Robs(new) THEN unexplained \cup {l}
         ELSE IF "price" \in DOMAIN new THEN unexplained \ {l}
         ELSE unexplained
    /\ UNCHANGED <<marketVars, yields, clock, begun, calendar, returned>>

\* Mutant: the yields stay when their lot goes.
DeleteOnlyLot(l) ==
    /\ lot[l].state = "open"
    /\ lot' = [lot EXCEPT ![l] = NoRow]
    /\ unexplained' = unexplained \ {l}
    /\ UNCHANGED <<marketVars, yields, request, clock, begun, calendar, returned>>

\* The yields go with the lot.
Delete(l) ==
    /\ lot[l].state = "open"
    /\ lot' = [lot EXCEPT ![l] = NoRow]
    /\ yields' = [yields EXCEPT ![l] = NoYield]
    /\ unexplained' = unexplained \ {l}
    /\ UNCHANGED <<marketVars, request, clock, begun, calendar, returned>>

-----------------------------------------------------------------------------
(* calculate *)

\* The lot and its instrument come with one SELECT.  The stamps are of the refreshes that
\* have written what is read.
BeginCalculate(r, l) ==
    /\ request[r].step = "idle" /\ begun < MaxRequests
    /\ lot[l].state = "open"
    /\ begun' = begun + 1
    /\ request' = [request EXCEPT ![r] =
         [Idle EXCEPT !.step = "reading", !.lot = l, !.seen = lot[l],
                      !.face = instrument[lot[l].isin].face, !.day = instrument[lot[l].isin].day,
                      !.stamps = {s.received : s \in snapshots[lot[l].isin]}]]
    /\ UNCHANGED <<tables, clock, history>>

Matches(target, rows) ==
    {a \in rows : a.type = target.event /\ a.date = target.date /\ a.amount # NoAmount}

\* Where the redemption comes from: a manual price, an event of the day, the face value.
Source(row, rows, face) ==
    CASE row.price # NoAmount -> "override"
      [] row.price = NoAmount /\ Matches(row.target, rows) # {} -> "event"
      [] row.price = NoAmount /\ Matches(row.target, rows) = {} /\ row.target.event = "maturity"
           /\ face > 0 -> "face"
      [] OTHER -> "unavailable"

Redemptions(row, rows, face) ==
    CASE Source(row, rows, face) = "override" -> {row.price}
      [] Source(row, rows, face) = "event" -> {a.amount : a \in Matches(row.target, rows)}
      [] Source(row, rows, face) = "face" -> {face}
      [] OTHER -> {}

Purchase(row) ==
    [c \in DOMAIN row.purchase \cup {"bought"} |->
        IF c = "bought" THEN row.bought ELSE row.purchase[c]]

\* The actions, and the planned result.  One that cannot be had ends the request.
ReadActions(r) ==
    LET row  == request[r].seen
        face == request[r].face
        rows == DOMAIN actions[row.isin] IN
    /\ request[r].step = "reading"
    /\ IF \/ Source(row, rows, face) = "unavailable"
          \/ Raises(Purchase(row), Flows(rows), row.target.date, Redemptions(row, rows, face))
       THEN request' = [request EXCEPT ![r] = Idle]
       ELSE \E redemption \in Redemptions(row, rows, face) :
              request' = [request EXCEPT ![r].step = "pricing", ![r].rows = rows, ![r].plan =
                [source    |-> Source(row, rows, face),
                 principal |-> redemption
                               + PaidOf("amortization", Flows(rows), row.bought, row.target.date),
                 faceDay   |-> request[r].day,
                 stamps    |-> request[r].stamps \cup {actions[row.isin][a] : a \in rows}]]
    /\ UNCHANGED <<tables, clock, begun, history>>

\* No snapshot yet.
NoQuote == [face |-> 0, day |-> 0, bid |-> NoAmount, accrued |-> NoAmount]

\* Without a bid and accrued interest there is no current result.
HasPrice(quote) == quote.bid # NoAmount /\ quote.accrued # NoAmount

\* The current result's own preconditions: bid and accrued interest are looked at each.
CurrentRaises(row, rows, quote, day) ==
    Raises(Purchase(row), Flows(rows), day, {quote.bid, quote.accrued})

\* The newest snapshot, the current result, and the row.  The day is that of the quote, one
\* that the caller names, or today when the quote has no time.  A current result that
\* raises, or a lot that is gone, loses the planned one too.
CommitYield(r) ==
    LET l   == request[r].lot
        row == request[r].seen
        i   == row.isin IN
    /\ request[r].step = "pricing"
    /\ request' = [request EXCEPT ![r] = Idle]
    /\ \E s \in IF snapshots[i] = {} THEN {[received |-> 0, quote |-> NoQuote]} ELSE Newest(i) :
          \E day \in {s.quote.day} \cup Days :
            yields' = IF \/ lot[l].state # "open"
                         \/ /\ HasPrice(s.quote)
                            /\ CurrentRaises(row, request[r].rows, s.quote, day)
                      THEN yields
                      ELSE [yields EXCEPT ![l] =
                              [bought |-> row.bought, target |-> row.target,
                               received |-> s.received, plan |-> request[r].plan,
                               current |-> HasPrice(s.quote)]]
    /\ UNCHANGED <<marketVars, lot, clock, begun, history>>

-----------------------------------------------------------------------------

LotInit ==
    /\ MarketInit
    /\ lot = [l \in LotIds |-> NoRow]
    /\ yields = [l \in LotIds |-> NoYield]
    /\ request = [r \in Requests |-> Idle]
    /\ clock = 0
    /\ begun = 0
    /\ calendar = [i \in Isins |-> {}]
    /\ returned = [i \in Isins |-> {}]
    /\ unexplained = {}

Begin(r) ==
    \E l \in LotIds :
        \/ BeginCalculate(r, l)
        \/ \E patch \in Patches : BeginUpdate(r, l, patch)

LotNext ==
    \/ \E i \in Isins, answer \in Answers : Refresh(i, answer)
    \/ \E l \in LotIds :
         \/ Delete(l)
         \/ \E i \in Isins, purchase \in Purchases, bought \in Days, target \in Targets,
               price \in Prices \cup {NoAmount}, reason \in Reasons \cup {NoReason} :
               Create(l, i, purchase, bought, target, price, reason)
    \/ \E r \in Requests : Begin(r) \/ CommitUpdate(r) \/ ReadActions(r) \/ CommitYield(r)

LotSpec == LotInit /\ [][LotNext]_lotVars

-----------------------------------------------------------------------------
(* Properties *)

\* The type of the rows and of what requests carry.
TypeOK ==
    /\ \A l \in LotIds :
         /\ lot[l].state \in {"none", "open"}
         /\ lot[l].state = "open" =>
              /\ lot[l].isin \in Isins /\ lot[l].purchase \in Purchases
              /\ lot[l].price \in Prices \cup {NoAmount}
              /\ lot[l].reason \in Reasons \cup {NoReason} /\ lot[l].dated \in BOOLEAN
              /\ instrument[lot[l].isin].known # "absent"
         /\ yields[l] # NoYield => lot[l].state = "open"
    /\ \A r \in Requests :
         /\ request[r].step \in {"idle", "updating", "reading", "pricing"}
         /\ request[r].step # "idle" => request[r].seen.state = "open"
         /\ request[r].step = "pricing" => request[r].seen.target.date > request[r].seen.bought
    /\ clock \in 0..MaxClock

\* A manual price has a reason and the time it was set: columns are written one by one
\* against what was read, so only an update that overlapped another one, or a body that
\* clears the reason and keeps the price, breaks this; the next price repairs it.
OverrideIsExplained ==
    \A l \in LotIds : lot[l].state = "open" /\ lot[l].price # NoAmount =>
        l \in unexplained \/ (lot[l].dated /\ lot[l].reason # NoReason)

\* For every event that the newest calendar pays, a sheet counts an amount of that calendar
\* and none that MOEX has revised, though nothing is ever deleted; unless MOEX restores a
\* row it had revised: the row keeps its old time and stays hidden.
SheetFollowsCalendar ==
    \A i \in Isins : \A F \in SheetFlows(DOMAIN actions[i], actions[i]) :
        \A a \in calendar[i] \ returned[i] : a.amount # NoAmount =>
            /\ \E f \in F : SameEvent(a, f)
            /\ \A f \in F : SameEvent(a, f) => \E b \in calendar[i] : f = Flow(b)

\* Two rows of one type and day whose amounts differ.
Revised(rows) ==
    \E a, b \in {c \in rows : c.amount # NoAmount} : SameEvent(a, b) /\ a.amount # b.amount

\* What a calendar repays after a day, amortization and redemption.
Repaid(rows, after) ==
    Amounts({f \in Flows(rows) : f.type \in {"amortization", "maturity"} /\ f.date > after})

\* The page of a lot and the row of a sheet count the same coupons, whatever rows repeated
\* refreshes have stored, until the amount of one is revised.
PortfolioAgreesWithSheet ==
    \A i \in Isins : LET rows == DOMAIN actions[i] IN
        Revised(rows) \/ \A bought \in Days, q \in Quotes, F \in SheetFlows(rows, actions[i]) :
            PaidOf("coupon", Flows(rows), bought, q.day) = PaidOf("coupon", F, bought, q.day)

\* Principal is paid once: what a plan to hold to maturity counts as amortization and
\* redemption is no more than what the calendar still repays after the purchase.  Not so
\* for a manual price, nor where the target matches no maturity and the face value
\* stands in for it although some of it is repaid before the purchase or amortized
\* before the target.
FaceIsStale(rows, y) ==
    \E f \in Flows(rows) : /\ f.date > y.plan.faceDay
                           /\ \/ f.type = "amortization" /\ f.date <= y.target.date
                              \/ f.type = "maturity" /\ f.date <= y.bought

PrincipalIsPaidOnce ==
    \A l \in LotIds : LET y    == yields[l]
                          rows == DOMAIN actions[lot[l].isin] IN
        y # NoYield /\ y.plan.source # "override" /\ y.target.event = "maturity" =>
            \/ y.plan.source = "face" /\ FaceIsStale(rows, y)
            \/ y.plan.principal <= Repaid(rows, y.bought)

\* Euclid's: the greatest common divisor of m and n is Gcd[n][m].
Gcd[n \in Nat] == [m \in Nat |-> IF n = 0 THEN m ELSE Gcd[m % n][n]]

\* A fraction with a positive denominator in lowest terms.
Reduced(f) ==
    LET d == Gcd[f[2]][IF f[1] < 0 THEN -f[1] ELSE f[1]] IN <<f[1] \div d, f[2] \div d>>

Policies == [mode : {"none", "flat_rate", "legacy_divide_1_13"}, rate : {13}]

\* A result of one bond is that of as many as there are.
SamePerBond(p, flows, exit, price) ==
    \A tax \in Policies :
        LET y == Yields(p, flows, exit, price, tax)
            z == Yields([p EXCEPT !.quantity = 1], flows, exit, price, tax)
        IN  Reduced(y.before) = Reduced(z.before) /\ Reduced(y.after) = Reduced(z.after)

\* Annual yields, the planned one and the current one that request r is about to compute,
\* do not depend on how many bonds a lot has, whatever its calendar pays and whatever is
\* taxed: what calculate takes per bond and what it takes as a total never mix.
PlannedIsPerBond(r) ==
    LET row  == request[r].seen
        rows == DOMAIN actions[row.isin]
    IN  \A price \in Redemptions(row, rows, request[r].face) :
          \/ Raises(Purchase(row), Flows(rows), row.target.date, {price})
          \/ SamePerBond(Purchase(row), Flows(rows), row.target.date, price)

CurrentIsPerBond(r) ==
    LET row  == request[r].seen
        rows == request[r].rows
    IN  \A s \in Newest(row.isin) : \A day \in {s.quote.day} \cup Days :
          \/ ~HasPrice(s.quote)
          \/ CurrentRaises(row, rows, s.quote, day)
          \/ SamePerBond(Purchase(row), Flows(rows), day, s.quote.bid + s.quote.accrued)

YieldIsPerBond ==
    \A r \in Requests : /\ request[r].step = "reading" => PlannedIsPerBond(r)
                        /\ request[r].step = "pricing" => CurrentIsPerBond(r)

\* Whatever commits while a calculation reads, its quote is at least as new as the face
\* value and the actions it read before: no refresh that wrote one of them came later than
\* the snapshot the result is priced with.
QuoteIsNotOlder ==
    \A l \in LotIds : yields[l] # NoYield =>
        \A t \in yields[l].plan.stamps : t <= yields[l].received

=============================================================================
