------------------------------ MODULE MoexMapper ------------------------------
(***************************************************************************)
(* What the four answers of MOEX ISS become: the rows of the security and  *)
(* its market, and the coupons, amortizations and offers of its calendar.  *)
(*                                                                         *)
(* An answer is a record: search (the rows found), security and market     *)
(* (first rows of their tables), described (face value of the              *)
(* specification), the three tables of the bondization with those of their *)
(* rows that are there more than once, and the day it was received.        *)
(* Names, boards and numbers that no calculation reads are left out.       *)
(***************************************************************************)
EXTENDS YieldEngine

CONSTANT NoDay          \* a date that is empty or 0000-00-00

\* Rows of the search that are of the ISIN itself; a search also finds similar ones.
Found(answer, isin) == {s \in answer.search : s.isin = isin}

\* The security's own face value, or the described one; 0 stands for none.
FaceOf(answer) ==
    CASE answer.security.face # NoAmount -> answer.security.face
      [] answer.security.face = NoAmount /\ answer.described # NoAmount -> answer.described
      [] OTHER -> 0

\* An answer is refused when it has no such security, or a negative bid or face value.
Refused(answer, isin) ==
    \/ Found(answer, isin) = {}
    \/ FaceOf(answer) < 0
    \/ answer.market.bid # NoAmount /\ answer.market.bid < 0

\* The day is that of SYSTIME, or of the receipt where the market table has none.
Quoted(answer) ==
    [face    |-> FaceOf(answer),
     day     |-> IF answer.market.day = NoDay THEN answer.today ELSE answer.market.day,
     bid     |-> IF answer.market.bid = NoAmount \/ FaceOf(answer) = 0 THEN NoAmount
                 ELSE BidToRubles(answer.market.bid, FaceOf(answer)),
     accrued |-> answer.security.accrued]

\* The last repayment comes in the table of the amortizations.
Repayment(row) == IF row.source = "maturity" THEN "maturity" ELSE "amortization"

\* The amount in rubles, or the one in the bond's own currency; the hash is of the whole row.
Action(type, row) ==
    [type   |-> type,
     date   |-> row.day,
     amount |-> IF row.rub # NoAmount THEN row.rub ELSE row.value,
     hash   |-> row]

Dated(rows) == {row \in rows : row.day # NoDay}

\* What the tables say, each row once.
Calendar(answer) ==
    {Action("coupon", row) : row \in Dated(answer.coupons)}
      \cup {Action(Repayment(row), row) : row \in Dated(answer.amortizations)}
      \cup {Action("offer", row) : row \in Dated(answer.offers)}

\* The actions that the answer lists more than once.
Repeated(answer) == {a \in Calendar(answer) : a.hash \in answer.repeated}
=============================================================================
