----------------------------- MODULE ImportedLots -----------------------------
(***************************************************************************)
(* What the batches of ImportPipeline consist of: the files behind their   *)
(* contents, read by SpreadsheetReader, and the lots that are inserted.    *)
(***************************************************************************)
EXTENDS ImportPipeline, SpreadsheetReader

CONSTANT Files      \* content -> the file it is

ASSUME FilesAssumption ==
    /\ DOMAIN Files = Contents
    /\ \A c \in Contents : IsFile(Files[c])
    /\ Readable = {c \in Contents : IsReadable(Files[c])}

\* Every content is read once.
Previews == [c \in Readable |-> Preview(Files[c])]

\* A row becomes a lot, its period the note; a manual price gets the import as its reason
\* and its time.  The name is the instrument's.
LotOf(row) ==
    [field \in (DOMAIN row \ {"name"}) \cup {"explained"} |->
        IF field = "explained" THEN row.price # NoAmount ELSE row[field]]

LotsOf(c) == {LotOf(row) : row \in Previews[c].rows}

-----------------------------------------------------------------------------
(* Properties *)

\* The contents that have batches.
ImportedContents == {batches[b].content : b \in DOMAIN batches}

\* The table of a file, as its user sees it.
SheetOf(c) == SelectSheet(Files[c].sheets)

Answered ==
    {c \in Readable :
        LET errors == Previews[c].errors
            lots   == {lot.number : lot \in LotsOf(c)}
            last   == HeaderRow(SheetOf(c)) + Cardinality(lots) + Cardinality(errors)
        IN  /\ lots \cap errors = {}
            /\ lots \cup errors = HeaderRow(SheetOf(c)) + 1 .. last
            /\ last = Len(SheetOf(c)) \/ IsBlank(SheetOf(c)[last + 1])}

\* No row disappears: the lots of a batch and the errors of its preview are the rows from
\* the header to the next blank row or to the end, each of them once.
EveryRowIsAnswered == ImportedContents \subseteq Answered

TypedIn ==
    {c \in Readable : \A lot \in LotsOf(c) :
        LET Calculated(column) == Cell(SheetOf(c)[lot.number], column).formula
        IN  /\ ~Calculated(IsinColumn(SheetOf(c)))
            /\ \A column \in {4, 5, 7, 8, 9, 10, 12} : ~Calculated(column)
            /\ Calculated(14) => lot.price = NoAmount /\ ~lot.explained
            /\ Calculated(18) => lot.sale = 0
            /\ Calculated(22) => lot.reference = NoAmount}

\* What yields are computed from was typed in by the user: the bond, the dates, the event
\* and the numbers of a lot are not results of formulas, unless the file is of an old
\* binary format, which does not tell.  Only the note of a lot is copied unchecked.
LotsAreTyped == \A c \in ImportedContents : Files[c].binary \/ c \in TypedIn

\* Every digit of every ISIN, replaced by another, makes a text that is no ISIN.
Guarded ==
    {c \in Readable : \A isin \in {lot.isin : lot \in LotsOf(c)} :
        \A k \in {j \in DOMAIN isin : isin[j] < 10}, digit \in 0..9 :
            digit # isin[k] => ~IsIsin([isin EXCEPT ![k] = digit])}

\* The ISIN of a lot is not another one with a digit mistyped: that would be refused.
MistypedDigitsAreRefused == ImportedContents \subseteq Guarded
=============================================================================
