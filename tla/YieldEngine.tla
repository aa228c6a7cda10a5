----------------------------- MODULE YieldEngine -----------------------------
(***************************************************************************)
(* The calculation core: purchase cost, cash flows of a holding period,    *)
(* tax and annual yield; and the two rules that decide which stored        *)
(* corporate actions are cash flows, one for lots and one for sheets.      *)
(*                                                                         *)
(* Money is an integer of some small unit and a Decimal that is divided    *)
(* stays a fraction <<numerator, denominator>>, so nothing is rounded, as  *)
(* in the code.  Days are numbers.                                         *)
(***************************************************************************)
EXTENDS Integers, FiniteSets, Functions

CONSTANT NoAmount       \* an action or a price that MOEX leaves empty

-----------------------------------------------------------------------------
(* Cash flows *)

Flow(a) == [type |-> a.type, date |-> a.date, amount |-> a.amount]

\* Mutant: rows that differ only in what is no cash flow are counted each.
FlowsPerRow(rows) == {b \in rows : b.amount # NoAmount}

\* For a lot: every stored action with an amount.  Rows that agree in type, date and
\* amount are counted once, so the cash flows are a set.
Flows(rows) == {Flow(a) : a \in {b \in rows : b.amount # NoAmount}}

SameEvent(a, b) == a.type = b.type /\ a.date = b.date

\* The newest of the rows of one type and date that have an amount.
NewestFlows(rows, stamp) ==
    {Flow(a) : a \in {b \in rows : /\ b.amount # NoAmount
                                   /\ \A c \in rows : SameEvent(b, c) /\ c.amount # NoAmount
                                                      => stamp[c] <= stamp[b]}}

\* One flow of every event that flows has; which one is open when several are.
OnePerEvent(flows) ==
    {F \in SUBSET flows : \A f \in flows : \E g \in F :
        SameEvent(f, g) /\ \A h \in F : SameEvent(f, h) => h = g}

\* Mutant: the rows are ordered by their time, not by the reverse of it.
SheetFlowsOldest(rows, stamp) == OnePerEvent(NewestFlows(rows, [a \in rows |-> -stamp[a]]))

\* For a sheet: one flow per type and date, of the newest rows; the order of rows that one
\* refresh stored is open, so this is the set of what may come of it.
SheetFlows(rows, stamp) == OnePerEvent(NewestFlows(rows, stamp))

\* A flow on the day of the purchase is the seller's, one on the day of the exit the holder's.
Received(flows, bought, exit) == {f \in flows : bought < f.date /\ f.date <= exit}

Amounts(flows) == SumFunction([f \in flows |-> f.amount])

\* Mutant: whatever is not a coupon is an amortization.
PaidOfOther(type, flows, bought, exit) ==
    Amounts({f \in Received(flows, bought, exit) : (f.type = "coupon") = (type = "coupon")})

\* What one bond pays of one type; offers and maturities are never among the flows.
PaidOf(type, flows, bought, exit) ==
    Amounts({f \in Received(flows, bought, exit) : f.type = type})

-----------------------------------------------------------------------------
(* A result: p is the purchase, exit the day, price what a bond brings that day *)

\* Mutant: the commission is taken for that of the whole lot.
PurchaseTotalOnce(p) == (p.clean + p.accrued) * p.quantity + p.commission

PurchaseTotal(p) == (p.clean + p.accrued + p.commission) * p.quantity

ExitTotal(p, flows, exit, price) ==
    (PaidOf("coupon", flows, p.bought, exit) + PaidOf("amortization", flows, p.bought, exit)
       + price - p.sale) * p.quantity

AfterTax(profit, tax) ==
    CASE profit <= 0 \/ tax.mode = "none" -> <<profit, 1>>
      [] profit > 0 /\ tax.mode = "flat_rate" -> <<profit * (100 - tax.rate), 100>>
      [] profit > 0 /\ tax.mode = "legacy_divide_1_13" -> <<profit * 100, 113>>

\* The share of the cost that an amount, a fraction, brings in a year; a hundredth of the
\* percentage that is stored.
Annual(amount, total, bought, exit) ==
    <<amount[1] * 365, amount[2] * total * (exit - bought)>>

\* The annual yields before and after tax; the sheet takes the legacy tax.
Yields(p, flows, exit, price, tax) ==
    LET profit == ExitTotal(p, flows, exit, price) - PurchaseTotal(p) IN
    [before |-> Annual(<<profit, 1>>, PurchaseTotal(p), p.bought, exit),
     after  |-> Annual(AfterTax(profit, tax), PurchaseTotal(p), p.bought, exit)]

\* A negative amount, a cost of zero or a day that is not after the purchase raises.
Raises(p, flows, exit, prices) ==
    \/ \E a \in prices \cup {p.clean, p.accrued, p.commission, p.sale} : a < 0
    \/ \E f \in flows : f.amount < 0
    \/ p.quantity <= 0 \/ PurchaseTotal(p) <= 0
    \/ exit <= p.bought

\* A bid is a percentage of the face value that is left; here both make whole amounts.
BidToRubles(bid, face) == (bid * face) \div 100
=============================================================================
