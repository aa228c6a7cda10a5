-------------------------- MODULE SpreadsheetReader --------------------------
(***************************************************************************)
(* The preview of a spreadsheet: which sheet is read, which of its rows,   *)
(* and which of these become lots.                                         *)
(*                                                                         *)
(* A file is [binary, sheets]; a sheet is [wanted, rows], wanted telling   *)
(* that its title is the one that is asked for; rows are sequences of      *)
(* cells [kind, value, formula].  The kind is what the text or the value   *)
(* of a cell can be taken for: "empty", "blank" (spaces), "header" (ISIN), *)
(* "code" (its characters, see Isin), "maturity", "offer", "date",         *)
(* "number", or "text" for everything else.  The libraries that open the   *)
(* files are external.                                                     *)
(***************************************************************************)
EXTENDS Isin

CONSTANT NoAmount       \* an optional number or a text that is not given

Empty == [kind |-> "empty", value |-> 0, formula |-> FALSE]

\* What the libraries make of a file.
IsCell(cell) ==
    /\ cell \in [kind : STRING, value : {cell.value}, formula : BOOLEAN]
    /\ cell.kind = "code" => cell.value \in Seq(0..35)

IsRow(row) == row \in Seq(Range(row)) /\ \A c \in DOMAIN row : IsCell(row[c])

IsSheet(sheet) ==
    /\ sheet \in [wanted : BOOLEAN, rows : Seq(Range(sheet.rows))]
    /\ \A r \in DOMAIN sheet.rows : IsRow(sheet.rows[r])

IsFile(file) ==
    /\ file \in [binary : BOOLEAN, sheets : Seq(Range(file.sheets))]
    /\ \A s \in DOMAIN file.sheets : IsSheet(file.sheets[s])

\* .xls and .xlsb come with results, and do not tell that a formula gave them.
Opened(binary, cell) == IF binary THEN [cell EXCEPT !.formula = FALSE] ELSE cell

Load(file) ==
    [s \in DOMAIN file.sheets |-> [file.sheets[s] EXCEPT !.rows =
        [r \in DOMAIN @ |-> [c \in DOMAIN @[r] |-> Opened(file.binary, @[r][c])]]]]

\* A row may be shorter than the table.
Cell(row, column) == IF column \in DOMAIN row THEN row[column] ELSE Empty

IsBlank(row) == \A c \in DOMAIN row : row[c].kind \in {"empty", "blank"}

-----------------------------------------------------------------------------
(* The table *)

HasHeader(rows, r) == \E c \in DOMAIN rows[r] : rows[r][c].kind = "header"

\* Any sheet with a header will do, the wanted one first.
Tables(sheets) == {s \in DOMAIN sheets : \E r \in DOMAIN sheets[s].rows : HasHeader(sheets[s].rows, r)}

SelectSheet(sheets) ==
    LET wanted == {s \in Tables(sheets) : sheets[s].wanted}
    IN  sheets[Min(IF wanted # {} THEN wanted ELSE Tables(sheets))].rows

HeaderRow(rows) == Min({r \in DOMAIN rows : HasHeader(rows, r)})

IsinColumn(rows) ==
    Min({c \in DOMAIN rows[HeaderRow(rows)] : rows[HeaderRow(rows)][c].kind = "header"})

\* Mutant: blank rows are skipped.
BlockWithGaps(rows) == {r \in HeaderRow(rows) + 1 .. Len(rows) : ~IsBlank(rows[r])}

\* The rows below the header, up to the first that is blank.
Block(rows) ==
    {r \in HeaderRow(rows) + 1 .. Len(rows) :
        \A q \in HeaderRow(rows) + 1 .. r : ~IsBlank(rows[q])}

-----------------------------------------------------------------------------
(* A row *)

\* What must be typed in by hand.
Typed(cell, kinds) == ~cell.formula /\ cell.kind \in kinds

\* An optional number: a formula stands for none, spaces are an error.
Optional(cell) == cell.formula \/ cell.kind \in {"empty", "number"}

\* Mutant: the result of a formula is taken for a number.
GivenOrCalculated(cell) == IF cell.kind = "empty" THEN NoAmount ELSE cell.value

Given(cell) == IF cell.formula \/ cell.kind = "empty" THEN NoAmount ELSE cell.value

\* A text is taken as it is, be it the result of a formula or not.
Text(cell) == IF cell.kind \in {"empty", "blank"} THEN NoAmount ELSE cell.value

\* The row passes every check; otherwise the first it fails becomes its error.
Accepts(row, isin) ==
    /\ Typed(Cell(row, isin), {"code"}) /\ IsIsin(Cell(row, isin).value)
    /\ Typed(Cell(row, 4), {"maturity", "offer"})
    /\ \A c \in {5, 7} : Typed(Cell(row, c), {"date"})
    /\ \A c \in {8, 9, 10, 12} : Typed(Cell(row, c), {"number"}) /\ Cell(row, c).value >= 0
    /\ Cell(row, 8).value > 0
    /\ \A c \in {14, 18, 22} : Optional(Cell(row, c))

ParsedRow(row, isin, number) ==
    [number     |-> number,
     isin       |-> Cell(row, isin).value,
     name       |-> Text(Cell(row, 3)),
     target     |-> [event |-> Cell(row, 4).kind, date |-> Cell(row, 7).value],
     bought     |-> Cell(row, 5).value,
     period     |-> Text(Cell(row, 6)),
     quantity   |-> Cell(row, 8).value,
     clean      |-> Cell(row, 9).value,
     accrued    |-> Cell(row, 10).value,
     commission |-> Cell(row, 12).value,
     price      |-> Given(Cell(row, 14)),
     sale       |-> IF Given(Cell(row, 18)) = NoAmount THEN 0 ELSE Given(Cell(row, 18)),
     reference  |-> Given(Cell(row, 22))]

IsReadable(file) == Tables(Load(file)) # {}

Preview(file) ==
    LET rows == SelectSheet(Load(file))
        isin == IsinColumn(rows)
        good == {r \in Block(rows) : Accepts(rows[r], isin)}
    IN  [rows   |-> {ParsedRow(rows[r], isin, r) : r \in good},
         errors |-> Block(rows) \ good]
=============================================================================
