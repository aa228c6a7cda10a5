-------------------------- MODULE MCImportPipeline --------------------------
(* Instances of ImportPipeline and ImportedLots for TLC. *)
EXTENDS ImportedLots

CONSTANTS o1, o2, xlsx, xls, bad, u1, u2, r1, r2

Of(kind, value) == [kind |-> kind, value |-> value, formula |-> FALSE]
Number(n) == Of("number", n)
Formula(n) == [kind |-> "number", value |-> n, formula |-> TRUE]

\* RU0001031007, and the same with a wrong check digit.
Code  == <<27, 30, 0, 0, 0, 1, 0, 3, 1, 0, 0, 7>>
Wrong == <<27, 30, 0, 0, 0, 1, 0, 3, 1, 0, 0, 8>>

Bond == [c \in 1..22 |->
    CASE c = 2 -> Of("code", Code) [] c = 4 -> Of("maturity", 0)
      [] c = 5 -> Of("date", 1) [] c = 7 -> Of("date", 9)
      [] c \in {8, 9, 10, 12} -> Number(1)
      [] OTHER -> Empty]

\* A table below a title: rows of every kind, and one behind the end of the table.
Table ==
    << <<Of("text", 0)>>,
       <<Empty, Of("header", 0)>>,
       Bond,
       [Bond EXCEPT ![4] = Of("offer", 0), ![14] = Number(1010), ![18] = Number(2)],
       [Bond EXCEPT ![3] = Formula(7), ![6] = Formula(8), ![14] = Formula(1000), ![22] = Formula(12)],
       [Bond EXCEPT ![8] = Formula(5)],
       [Bond EXCEPT ![8] = Number(0)],
       [Bond EXCEPT ![10] = Number(-1)],
       [Bond EXCEPT ![2] = Of("code", Wrong)],
       SubSeq(Bond, 1, 6),
       [Bond EXCEPT ![18] = Of("blank", 0)],
       <<Empty, Of("blank", 0)>>,
       Bond >>

\* A sheet without a table, another table, and the one that is wanted.
Book(binary) ==
    [binary |-> binary,
     sheets |-> << [wanted |-> TRUE, rows |-> << <<Of("text", 0)>> >>],
                   [wanted |-> FALSE, rows |-> << <<Of("header", 0)>>, Bond >>],
                   [wanted |-> TRUE, rows |-> Table] >>]

MCFiles == [c \in {xlsx, xls, bad} |->
    CASE c = xlsx -> Book(FALSE)
      [] c = xls -> Book(TRUE)
      [] c = bad -> [binary |-> FALSE, sheets |-> <<Head(Book(FALSE).sheets)>>]]
=============================================================================
