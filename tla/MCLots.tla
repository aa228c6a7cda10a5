------------------------------- MODULE MCLots -------------------------------
(* Instances of Lots for TLC. *)
EXTENDS Lots

CONSTANTS i1, other, l1, r1, r2, why

Row(day, source, value, rub, note) ==
    [day |-> day, source |-> source, value |-> value, rub |-> rub, note |-> note]

\* A bond of 1000 that repays 400 on day 4 and 600 on day 6, and one coupon on day 3 that
\* MOEX revises, restores, repeats in another row, or lists with two amounts and without
\* one.  The row that an answer has twice refuses it until that row is stored.
MCSchedule == {Row(4, "amortization", 400, NoAmount, 1), Row(6, "maturity", 7, 600, 1)}
Coupon(value, note) == Row(3, "coupon", value, value, note)
Lists(rows, twice) == [coupons |-> rows \cup {Row(NoDay, "coupon", 50, 50, 1)}, repeated |-> twice]
MCCoupons(day) ==
    IF day = 2 THEN {Lists({Coupon(50, 1)}, {})}
    ELSE {Lists({Coupon(60, 1)}, {}), Lists({Coupon(NoAmount, 1), Coupon(50, 1), Coupon(60, 1)}, {}),
          Lists({Coupon(50, 1), Coupon(50, 2)}, {Coupon(50, 1)})}

\* The face value of an answer is what is left to repay on its day.  All answers are
\* received on day 5, some with a SYSTIME of day 2 and some without one, in any order.
Markets == {[security |-> [face |-> 1000, accrued |-> 10],
             market |-> [bid |-> 90, day |-> 2], described |-> NoAmount],
            [security |-> [face |-> NoAmount, accrued |-> 10],
             market |-> [bid |-> NoAmount, day |-> NoDay], described |-> 600]}

\* A search that finds only a similar name is refused; a row may come twice.
MCAnswers == UNION {
    {[search |-> found, offers |-> {}, today |-> 5, amortizations |-> MCSchedule] @@ m @@ c :
        c \in MCCoupons(m.market.day),
        found \in {{[isin |-> i1], [isin |-> other]}, {[isin |-> other]}}} : m \in Markets}
MCQuotes == {Quoted(answer) : answer \in MCAnswers}
MCCalendars == {Calendar(answer) : answer \in MCAnswers}

\* The target is the maturity, or a later day that the calendar does not have; a lot is
\* bought before the schedule begins or after it has ended.
MCTargets == {[event |-> "maturity", date |-> 6], [event |-> "maturity", date |-> 8]}
MCPurchases == {[quantity |-> 2, clean |-> 950, accrued |-> 5, commission |-> 1, sale |-> 1]}
MCDays == {1, 7}
MCPatches == {("target" :> [event |-> "maturity", date |-> 8]),
              ("price" :> NoAmount),
              ("price" :> 1010) @@ ("reason" :> why),
              ("reason" :> NoReason)}
Symmetric == Permutations(Requests)
=============================================================================
