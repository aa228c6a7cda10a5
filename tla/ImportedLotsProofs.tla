-------------------------- MODULE ImportedLotsProofs --------------------------
(***************************************************************************)
(* Proofs about ImportedLots: what the spreadsheet reader makes of every   *)
(* file, and so what the committed batches consist of.  That a content     *)
(* with a batch could be read is ImportPipelineProofs' EveryBatchIsOwned;  *)
(* the rest holds of every file.                                           *)
(***************************************************************************)
EXTENDS ImportedLots, ImportPipelineProofs, Arithmetic

-----------------------------------------------------------------------------
(* Files *)

\* The least of a set of numbers.
LEMMA MinFacts ==
    ASSUME NEW S \in SUBSET Nat, S # {}
    PROVE  /\ Min(S) \in S
           /\ \A n \in S : Min(S) <= n
  <1>1. \E n \in S : \A m \in S : n <= m
    BY LeastNatural
  <1> QED
    BY <1>1 DEF Min

\* A cell is opened as it is, but for the mark of a formula.
LEMMA OpenedCell ==
    ASSUME NEW cell, IsCell(cell), NEW binary \in BOOLEAN
    PROVE  /\ Opened(binary, cell).kind = cell.kind
           /\ Opened(binary, cell).value = cell.value
           /\ ~binary => Opened(binary, cell) = cell
  <1>1. cell \in [kind : STRING, value : {cell.value}, formula : BOOLEAN]
    BY DEF IsCell
  <1> QED
    BY <1>1 DEF Opened

\* The rows of a sheet as they are opened.
OpenedRows(binary, rows) ==
    [r \in DOMAIN rows |-> [c \in DOMAIN rows[r] |-> Opened(binary, rows[r][c])]]

\* Opening a file keeps its sheets and their titles.
LEMMA LoadedSheets ==
    ASSUME NEW file, IsFile(file)
    PROVE  /\ DOMAIN Load(file) = DOMAIN file.sheets
           /\ \A s \in DOMAIN file.sheets :
                /\ Load(file)[s].wanted = file.sheets[s].wanted
                /\ Load(file)[s].rows = OpenedRows(file.binary, file.sheets[s].rows)
  <1>1. \A s \in DOMAIN file.sheets :
          file.sheets[s] \in [wanted : BOOLEAN, rows : Seq(Range(file.sheets[s].rows))]
    BY DEF IsFile, IsSheet
  <1> QED
    BY <1>1 DEF Load, OpenedRows

\* Rows of cells.
LEMMA SheetCells ==
    ASSUME NEW file, IsFile(file), NEW s \in DOMAIN file.sheets
    PROVE  /\ file.binary \in BOOLEAN
           /\ file.sheets \in Seq(Range(file.sheets))
           /\ file.sheets[s].rows \in Seq(Range(file.sheets[s].rows))
           /\ \A r \in DOMAIN file.sheets[s].rows :
                /\ file.sheets[s].rows[r] \in Seq(Range(file.sheets[s].rows[r]))
                /\ \A c \in DOMAIN file.sheets[s].rows[r] : IsCell(file.sheets[s].rows[r][c])
  BY DEF IsFile, IsSheet, IsRow

\* Two sheets that differ in the marks of formulas only.
Alike(rows, others) ==
    /\ DOMAIN rows = DOMAIN others
    /\ \A r \in DOMAIN rows :
         /\ DOMAIN rows[r] = DOMAIN others[r]
         /\ \A c \in DOMAIN rows[r] :
              rows[r][c].kind = others[r][c].kind /\ rows[r][c].value = others[r][c].value

\* Such are the sheets of a file before and after it is opened.
LEMMA OpenedAlike ==
    ASSUME NEW file, IsFile(file), NEW s \in DOMAIN file.sheets
    PROVE  Alike(OpenedRows(file.binary, file.sheets[s].rows), file.sheets[s].rows)
  <1>1. \A r \in DOMAIN file.sheets[s].rows : \A c \in DOMAIN file.sheets[s].rows[r] :
          /\ Opened(file.binary, file.sheets[s].rows[r][c]).kind = file.sheets[s].rows[r][c].kind
          /\ Opened(file.binary, file.sheets[s].rows[r][c]).value = file.sheets[s].rows[r][c].value
    BY SheetCells, OpenedCell
  <1> QED
    BY <1>1 DEF Alike, OpenedRows

\* They have the same headers and blank rows.
LEMMA AlikeTables ==
    ASSUME NEW rows, NEW others, Alike(rows, others)
    PROVE  /\ HeaderRow(rows) = HeaderRow(others)
           /\ \A r \in DOMAIN rows : /\ HasHeader(rows, r) <=> HasHeader(others, r)
                                     /\ IsBlank(rows[r]) <=> IsBlank(others[r])
  <1>1. \A r \in DOMAIN rows : HasHeader(rows, r) <=> HasHeader(others, r)
    BY DEF Alike, HasHeader
  <1>2. \A r \in DOMAIN rows : IsBlank(rows[r]) <=> IsBlank(others[r])
    BY DEF Alike, IsBlank
  <1>3. {r \in DOMAIN rows : HasHeader(rows, r)} = {r \in DOMAIN others : HasHeader(others, r)}
    BY <1>1 DEF Alike
  <1> QED
    BY <1>1, <1>2, <1>3 DEF HeaderRow

\* The sheet that is read is a sheet of the file with a header, as it is opened.
LEMMA SelectedSheet ==
    ASSUME NEW file, IsFile(file), IsReadable(file)
    PROVE  \E s \in DOMAIN file.sheets :
             /\ SelectSheet(file.sheets) = file.sheets[s].rows
             /\ SelectSheet(Load(file)) = OpenedRows(file.binary, file.sheets[s].rows)
             /\ \E r \in DOMAIN file.sheets[s].rows : HasHeader(file.sheets[s].rows, r)
  <1> DEFINE tables == Tables(file.sheets)
             wanted == {s \in tables : file.sheets[s].wanted}
             s      == Min(IF wanted # {} THEN wanted ELSE tables)
  <1>1. \A t \in DOMAIN file.sheets :
          (\E r \in DOMAIN Load(file)[t].rows : HasHeader(Load(file)[t].rows, r))
            <=> (\E r \in DOMAIN file.sheets[t].rows : HasHeader(file.sheets[t].rows, r))
    <2> SUFFICES ASSUME NEW t \in DOMAIN file.sheets
                 PROVE  (\E r \in DOMAIN Load(file)[t].rows : HasHeader(Load(file)[t].rows, r))
                   <=> (\E r \in DOMAIN file.sheets[t].rows : HasHeader(file.sheets[t].rows, r))
      OBVIOUS
    <2>1. Alike(Load(file)[t].rows, file.sheets[t].rows)
      BY LoadedSheets, OpenedAlike
    <2>2. \A r \in DOMAIN Load(file)[t].rows :
            HasHeader(Load(file)[t].rows, r) <=> HasHeader(file.sheets[t].rows, r)
      BY <2>1, AlikeTables
    <2>3. DOMAIN Load(file)[t].rows = DOMAIN file.sheets[t].rows
      BY <2>1 DEF Alike
    <2> QED
      BY <2>2, <2>3
  <1>2. Tables(Load(file)) = tables
    BY <1>1, LoadedSheets DEF Tables
  <1>3. {t \in Tables(Load(file)) : Load(file)[t].wanted} = wanted
    BY <1>2, LoadedSheets DEF Tables
  <1>4. tables # {}
    BY <1>2 DEF IsReadable
  <1>5. PICK t \in DOMAIN file.sheets : TRUE
    BY <1>4 DEF Tables
  <1>6. DOMAIN file.sheets \subseteq Nat
    BY <1>5, SheetCells
  <1>7. s \in tables
    <2>1. (IF wanted # {} THEN wanted ELSE tables) \in SUBSET Nat
      BY <1>6 DEF Tables
    <2>2. (IF wanted # {} THEN wanted ELSE tables) # {}
      BY <1>4
    <2>3. s \in (IF wanted # {} THEN wanted ELSE tables)
      BY ONLY <2>1, <2>2, MinFacts
    <2> QED
      BY <2>3
  <1>8. s \in DOMAIN file.sheets /\ \E r \in DOMAIN file.sheets[s].rows : HasHeader(file.sheets[s].rows, r)
    BY <1>7 DEF Tables
  <1>9. SelectSheet(file.sheets) = file.sheets[s].rows
    BY DEF SelectSheet
  <1>10. SelectSheet(Load(file)) = Load(file)[s].rows
    BY <1>2, <1>3 DEF SelectSheet
  <1>11. Load(file)[s].rows = OpenedRows(file.binary, file.sheets[s].rows)
    BY <1>8, LoadedSheets
  <1> QED
    BY <1>8, <1>9, <1>10, <1>11

-----------------------------------------------------------------------------
(* Every row is answered *)

\* The header of a sheet is one of its rows.
LEMMA HeaderIsARow ==
    ASSUME NEW rows, rows \in Seq(Range(rows)), \E r \in DOMAIN rows : HasHeader(rows, r)
    PROVE  /\ HeaderRow(rows) \in 1..Len(rows)
           /\ HasHeader(rows, HeaderRow(rows))
  <1> DEFINE S == {r \in DOMAIN rows : HasHeader(rows, r)}
  <1>1. DOMAIN rows = 1..Len(rows) /\ Len(rows) \in Nat
    OBVIOUS
  <1>2. S \in SUBSET Nat /\ S # {}
    BY <1>1
  <1>3. Min(S) \in S
    BY ONLY <1>2, MinFacts
  <1> QED
    BY <1>1, <1>3 DEF HeaderRow

\* The same rows are read of a sheet, opened or not.
LEMMA OpenedBlock ==
    ASSUME NEW file, IsFile(file), NEW s \in DOMAIN file.sheets,
           NEW sheet, sheet = file.sheets[s].rows, \E r \in DOMAIN sheet : HasHeader(sheet, r),
           NEW rows, rows = OpenedRows(file.binary, sheet)
    PROVE  /\ HeaderRow(rows) = HeaderRow(sheet)
           /\ Block(rows) = Block(sheet)
           /\ Block(sheet) \subseteq DOMAIN sheet
  <1> DEFINE n == Len(sheet)
             h == HeaderRow(sheet)
  <1>1. sheet \in Seq(Range(sheet))
    BY SheetCells
  <1>2. Alike(rows, sheet)
    BY OpenedAlike
  <1>3. HeaderRow(rows) = h /\ \A r \in DOMAIN rows : IsBlank(rows[r]) <=> IsBlank(sheet[r])
    BY <1>2, AlikeTables
  <1>4. n \in Nat /\ DOMAIN sheet = 1..n /\ h \in 1..n
    BY <1>1, HeaderIsARow
  <1>5. Len(rows) = n /\ DOMAIN rows = 1..n
    <2>1. rows = [r \in 1..n |-> [q \in DOMAIN sheet[r] |-> Opened(file.binary, sheet[r][q])]]
      BY <1>4 DEF OpenedRows
    <2> HIDE DEF n
    <2> QED
      BY <1>4, <2>1
  <1> HIDE DEF n
  <1>6. \A r \in h + 1 .. n : IsBlank(rows[r]) <=> IsBlank(sheet[r])
    BY <1>3, <1>4, <1>5
  <1>7. Block(rows) = {r \in h + 1 .. n : \A q \in h + 1 .. r : ~IsBlank(rows[q])}
    BY <1>3, <1>5 DEF Block
  <1>8. Block(sheet) = {r \in h + 1 .. n : \A q \in h + 1 .. r : ~IsBlank(sheet[q])}
    BY DEF Block, n
  <1>9. \A r \in h + 1 .. n :
          (\A q \in h + 1 .. r : ~IsBlank(rows[q])) <=> (\A q \in h + 1 .. r : ~IsBlank(sheet[q]))
    BY <1>4, <1>6
  <1>10. Block(rows) = Block(sheet)
    BY <1>7, <1>8, <1>9
  <1>11. Block(sheet) \subseteq DOMAIN sheet
    BY <1>4, <1>8
  <1> QED
    BY <1>3, <1>10, <1>11

\* The rows that are read are those from the header to the next blank row or to
\* the end.
LEMMA BlockIsARange ==
    ASSUME NEW rows, rows \in Seq(Range(rows)), \E r \in DOMAIN rows : HasHeader(rows, r)
    PROVE  \E last \in HeaderRow(rows) .. Len(rows) :
             /\ Block(rows) = HeaderRow(rows) + 1 .. last
             /\ last = Len(rows) \/ IsBlank(rows[last + 1])
  <1> DEFINE n == Len(rows)
             h == HeaderRow(rows)
             S == {r \in h + 1 .. n : IsBlank(rows[r])}
  <1>1. n \in Nat /\ h \in 1..n
    BY HeaderIsARow
  <1> HIDE DEF n, h
  <1>2. Block(rows) = {r \in h + 1 .. n : \A q \in h + 1 .. r : ~IsBlank(rows[q])}
    BY DEF Block, h, n
  <1>3. CASE S = {}
    <2>1. \A r \in h + 1 .. n : ~IsBlank(rows[r])
      BY <1>3
    <2>2. \A r \in h + 1 .. n : \A q \in h + 1 .. r : ~IsBlank(rows[q])
      BY <1>1, <2>1
    <2>3. Block(rows) = h + 1 .. n
      BY <1>2, <2>2
    <2>4. n \in h .. n
      BY <1>1
    <2> QED
      BY <2>3, <2>4 DEF h, n
  <1>4. CASE S # {}
    <2>1. S \in SUBSET Nat
      BY <1>1
    <2>2. PICK b \in S : \A r \in S : b <= r
      BY <2>1, <1>4, LeastNatural
    <2>3. b \in h + 1 .. n /\ IsBlank(rows[b])
      BY <2>2
    <2>4. \A r \in h + 1 .. b - 1 : ~IsBlank(rows[r])
      BY <1>1, <2>2, <2>3
    <2>5. Block(rows) = h + 1 .. b - 1
      BY <1>1, <1>2, <2>3, <2>4
    <2>6. b - 1 \in h .. n /\ (b - 1) + 1 = b
      BY <1>1, <2>3
    <2> QED
      BY <2>3, <2>5, <2>6 DEF h, n
  <1> QED
    BY <1>3, <1>4

\* A lot has the number of its row.
LEMMA LotNumber ==
    ASSUME NEW row, NEW isin, NEW r
    PROVE  LotOf(ParsedRow(row, isin, r)).number = r
  BY DEF LotOf, ParsedRow

\* Every row of a file that can be read becomes a lot or an error.
LEMMA RowsAreLotsOrErrors == Answered = Readable
  <1> SUFFICES ASSUME NEW c \in Readable PROVE c \in Answered
    BY DEF Answered
  <1> DEFINE file   == Files[c]
             sheet  == SheetOf(c)
             rows   == SelectSheet(Load(file))
             isin   == IsinColumn(rows)
             good   == {r \in Block(rows) : Accepts(rows[r], isin)}
             errors == Previews[c].errors
             lots   == {lot.number : lot \in LotsOf(c)}
             h      == HeaderRow(sheet)
  <1>1. IsFile(file) /\ IsReadable(file)
    BY FilesAssumption
  <1>2. PICK s \in DOMAIN file.sheets :
          /\ sheet = file.sheets[s].rows
          /\ rows = OpenedRows(file.binary, file.sheets[s].rows)
          /\ \E r \in DOMAIN file.sheets[s].rows : HasHeader(file.sheets[s].rows, r)
    BY <1>1, SelectedSheet DEF SheetOf
  <1>3. sheet \in Seq(Range(sheet)) /\ \E r \in DOMAIN sheet : HasHeader(sheet, r)
    BY <1>1, <1>2, SheetCells
  <1>5. errors = Block(rows) \ good /\ lots = good
    <2>1. Previews[c] = Preview(file)
      BY DEF Previews
    <2>2. errors = Block(rows) \ good
      BY <2>1 DEF Preview
    <2>3. LotsOf(c) = {LotOf(row) : row \in {ParsedRow(rows[r], isin, r) : r \in good}}
      BY <2>1 DEF Preview, LotsOf
    <2> HIDE DEF rows, isin, good
    <2>4. lots = good
      BY <2>3, LotNumber
    <2> QED
      BY <2>2, <2>4 DEF rows, isin, good
  <1>6. HeaderRow(rows) = h /\ Block(rows) = Block(sheet)
    BY <1>1, <1>2, OpenedBlock
  <1>7. PICK last \in h .. Len(sheet) :
          /\ Block(sheet) = h + 1 .. last
          /\ last = Len(sheet) \/ IsBlank(sheet[last + 1])
    BY <1>3, BlockIsARange
  <1>8. h \in Nat /\ last \in Nat /\ h <= last
    BY <1>3, <1>7, HeaderIsARow
  <1>9. good \subseteq h + 1 .. last /\ errors = (h + 1 .. last) \ good
    BY <1>5, <1>6, <1>7
  <1>10. Cardinality(lots) + Cardinality(errors) = last - h
    <2> HIDE DEF good, errors, lots, h
    <2>1. IsFiniteSet(h + 1 .. last) /\ Cardinality(h + 1 .. last) = last - h
      <3> DEFINE k == h + 1
      <3>1. k \in Int /\ last \in Int /\ last - h = IF k > last THEN 0 ELSE last - k + 1
        BY <1>8
      <3> HIDE DEF k
      <3>2. IsFiniteSet(k .. last) /\ Cardinality(k .. last) = IF k > last THEN 0 ELSE last - k + 1
        BY <3>1, FS_Interval
      <3> QED
        BY <3>1, <3>2 DEF k
    <2>2. IsFiniteSet(good) /\ IsFiniteSet(errors)
      BY <1>9, <2>1, FS_Subset
    <2>3. good \cap errors = {} /\ good \cup errors = h + 1 .. last
      BY <1>9
    <2>4. Cardinality(good \cup errors)
            = Cardinality(good) + Cardinality(errors) - Cardinality(good \cap errors)
      BY <2>2, FS_Union
    <2>5. Cardinality(good \cap errors) = 0
      BY <2>3, FS_EmptySet
    <2>6. Cardinality(good) \in Nat /\ Cardinality(errors) \in Nat
      BY <2>2, FS_CardinalityType
    <2> DEFINE g == Cardinality(good)
               e == Cardinality(errors)
               all == Cardinality(good \cup errors)
    <2>7. g \in Nat /\ e \in Nat /\ all = g + e - 0
      BY <2>4, <2>5, <2>6
    <2>8. all = last - h
      BY <2>1, <2>3
    <2> HIDE DEF g, e, all
    <2>9. g + e = last - h
      BY <1>8, <2>7, <2>8
    <2> QED
      BY <1>5, <2>9 DEF g, e
  <1> DEFINE count == Cardinality(lots) + Cardinality(errors)
  <1>11. h + count = last
    BY <1>8, <1>10
  <1>12. /\ lots \cap errors = {}
         /\ lots \cup errors = h + 1 .. h + count
         /\ h + count = Len(sheet) \/ IsBlank(sheet[h + count + 1])
    BY <1>5, <1>7, <1>9, <1>11
  <1>13. h + Cardinality(lots) + Cardinality(errors) = h + count
    <2> HIDE DEF good, errors, lots, h
    <2>0. IsFiniteSet(h + 1 .. last)
      BY <1>8, FS_Interval
    <2>1. Cardinality(lots) \in Nat /\ Cardinality(errors) \in Nat
      BY <1>5, <1>9, <2>0, FS_Subset, FS_CardinalityType
    <2> QED
      BY <1>8, <2>1
  <1> QED
    BY <1>12, <1>13 DEF Answered

\* What has been imported could be read.
LEMMA ImportedIsReadable == TypeOK /\ BatchesAreOwned => ImportedContents \subseteq Readable
  <1> SUFFICES ASSUME TypeOK, BatchesAreOwned, NEW b \in DOMAIN batches
               PROVE  batches[b].content \in Readable
    BY DEF ImportedContents
  <1> QED
    BY DEF BatchesAreOwned

\* Every row of an imported sheet is a lot or an error of the preview, whichever
\* sheets are sent and however the requests of their users interleave.
THEOREM RowsAreAccountedFor == Spec => []EveryRowIsAnswered
  <1>1. TypeOK /\ BatchesAreOwned => EveryRowIsAnswered
    BY ImportedIsReadable, RowsAreLotsOrErrors DEF EveryRowIsAnswered
  <1> QED
    BY <1>1, TypeCorrectness, EveryBatchIsOwned, PTL

-----------------------------------------------------------------------------
(* Typed in *)

\* A lot is what an accepted row of sheet s says, which is the sheet that is read.
TakenFrom(c, s, isin, lot) ==
    LET rows == OpenedRows(Files[c].binary, Files[c].sheets[s].rows)
    IN  /\ SheetOf(c) = Files[c].sheets[s].rows
        /\ isin = IsinColumn(rows)
        /\ \E r \in DOMAIN SheetOf(c) : /\ Accepts(rows[r], isin)
                                       /\ lot = LotOf(ParsedRow(rows[r], isin, r))

\* The lots of a content come from accepted rows of the sheet that is read.
LEMMA LotsComeFromRows ==
    ASSUME NEW c \in Readable, NEW lot \in LotsOf(c)
    PROVE  \E s \in DOMAIN Files[c].sheets : \E isin : TakenFrom(c, s, isin, lot)
  <1> DEFINE rows == SelectSheet(Load(Files[c]))
             isin == IsinColumn(rows)
             good == {r \in Block(rows) : Accepts(rows[r], isin)}
  <1>1. IsFile(Files[c]) /\ IsReadable(Files[c])
    BY FilesAssumption
  <1>2. PICK s \in DOMAIN Files[c].sheets :
          /\ SheetOf(c) = Files[c].sheets[s].rows
          /\ rows = OpenedRows(Files[c].binary, Files[c].sheets[s].rows)
          /\ \E r \in DOMAIN Files[c].sheets[s].rows : HasHeader(Files[c].sheets[s].rows, r)
    BY <1>1, SelectedSheet DEF SheetOf
  <1>3. LotsOf(c) = {LotOf(row) : row \in {ParsedRow(rows[r], isin, r) : r \in good}}
    BY DEF Previews, Preview, LotsOf
  <1>4. PICK r \in good : lot = LotOf(ParsedRow(rows[r], isin, r))
    BY <1>3
  <1>5. r \in DOMAIN SheetOf(c)
    BY <1>1, <1>2, OpenedBlock
  <1> QED
    BY <1>2, <1>4, <1>5 DEF TakenFrom

\* What a lot of an accepted row took from its cells was typed in.
LEMMA TypedRow ==
    ASSUME NEW row, NEW isin, NEW r, Accepts(row, isin),
           NEW lot, lot = LotOf(ParsedRow(row, isin, r))
    PROVE  /\ lot.number = r
           /\ ~Cell(row, isin).formula
           /\ \A column \in {4, 5, 7, 8, 9, 10, 12} : ~Cell(row, column).formula
           /\ Cell(row, 14).formula => lot.price = NoAmount /\ ~lot.explained
           /\ Cell(row, 18).formula => lot.sale = 0
           /\ Cell(row, 22).formula => lot.reference = NoAmount
  <1>1. /\ ~Cell(row, isin).formula
        /\ \A column \in {4, 5, 7, 8, 9, 10, 12} : ~Cell(row, column).formula
    BY DEF Accepts, Typed
  <1>2. /\ lot.number = r
        /\ lot.price = Given(Cell(row, 14))
        /\ lot.explained = (lot.price # NoAmount)
        /\ lot.sale = IF Given(Cell(row, 18)) = NoAmount THEN 0 ELSE Given(Cell(row, 18))
        /\ lot.reference = Given(Cell(row, 22))
    <2> DEFINE p == Given(Cell(row, 14))
               e == Given(Cell(row, 18))
               f == Given(Cell(row, 22))
    <2> HIDE DEF p, e, f
    <2> QED
      BY DEF LotOf, ParsedRow, p, e, f
  <1> QED
    BY <1>1, <1>2 DEF Given

\* The results of formulas are told from what is typed in, in files that tell.
LEMMA LotsOfFilesAreTyped ==
    ASSUME NEW c \in Readable, ~Files[c].binary
    PROVE  c \in TypedIn
  <1> SUFFICES ASSUME NEW lot \in LotsOf(c)
               PROVE  LET Calculated(column) == Cell(SheetOf(c)[lot.number], column).formula
                      IN  /\ ~Calculated(IsinColumn(SheetOf(c)))
                          /\ \A column \in {4, 5, 7, 8, 9, 10, 12} : ~Calculated(column)
                          /\ Calculated(14) => lot.price = NoAmount /\ ~lot.explained
                          /\ Calculated(18) => lot.sale = 0
                          /\ Calculated(22) => lot.reference = NoAmount
    BY DEF TypedIn
  <1>0. PICK s \in DOMAIN Files[c].sheets : \E isin : TakenFrom(c, s, isin, lot)
    BY LotsComeFromRows
  <1>1. PICK isin : TakenFrom(c, s, isin, lot)
    BY <1>0
  <1>2. OpenedRows(Files[c].binary, SheetOf(c)) = SheetOf(c)
    <2> DEFINE sheet == Files[c].sheets[s].rows
    <2>1. IsFile(Files[c])
      BY FilesAssumption
    <2>2. sheet \in Seq(Range(sheet)) /\ \A r \in DOMAIN sheet : sheet[r] \in Seq(Range(sheet[r]))
      BY <2>1, SheetCells
    <2>3. \A r \in DOMAIN sheet : \A k \in DOMAIN sheet[r] :
            Opened(Files[c].binary, sheet[r][k]) = sheet[r][k]
      BY <2>1, SheetCells, OpenedCell
    <2> HIDE DEF sheet
    <2>4. \A r \in DOMAIN sheet :
            [k \in DOMAIN sheet[r] |-> Opened(Files[c].binary, sheet[r][k])] = sheet[r]
      BY <2>2, <2>3
    <2>5. OpenedRows(Files[c].binary, sheet) = sheet
      BY <2>2, <2>4 DEF OpenedRows
    <2> QED
      BY <1>1, <2>5 DEF TakenFrom, sheet
  <1>3. isin = IsinColumn(SheetOf(c))
    BY <1>1, <1>2 DEF TakenFrom
  <1>4. PICK r : Accepts(SheetOf(c)[r], isin) /\ lot = LotOf(ParsedRow(SheetOf(c)[r], isin, r))
    BY <1>1, <1>2 DEF TakenFrom
  <1> QED
    BY <1>3, <1>4, TypedRow

\* Every field of an imported lot but its note was typed in by its user, whichever sheets
\* are sent in formats that tell.
THEOREM FieldsAreTypedIn == Spec => []LotsAreTyped
  <1>1. TypeOK /\ BatchesAreOwned => LotsAreTyped
    BY ImportedIsReadable, LotsOfFilesAreTyped DEF LotsAreTyped
  <1> QED
    BY <1>1, TypeCorrectness, EveryBatchIsOwned, PTL

-----------------------------------------------------------------------------
(* ISINs *)

\* A sequence is a function.
LEMMA SeqIsFunction ==
    ASSUME NEW S, NEW s \in Seq(S)
    PROVE  Len(s) \in Nat /\ DOMAIN s = 1..Len(s) /\ s \in [1..Len(s) -> S]
  OBVIOUS

\* The numbers from 1 to n are finitely many, whichever are left out.
LEMMA Places ==
    ASSUME NEW n \in Nat, NEW S
    PROVE  IsFiniteSet((1..n) \ S) /\ IsFiniteSet(1..n)
  <1>1. IsFiniteSet(1..n)
    BY FS_Interval
  <1>2. (1..n) \ S \in SUBSET (1..n)
    OBVIOUS
  <1> QED
    BY <1>1, <1>2, FS_Subset

\* f joins the first m of the sequences one after the other.
Joins(f, seqs, m) ==
    \A i \in 1..m : f[i] = IF i = 1 THEN seqs[i] ELSE f[i - 1] \o seqs[i]

\* Any number of sequences can be joined: one more is put behind those before it.
LEMMA JoinExists == \A seqs : \A m \in Nat : \E f : Joins(f, seqs, m)
  <1> SUFFICES ASSUME NEW seqs PROVE \A m \in Nat : \E f : Joins(f, seqs, m)
    OBVIOUS
  <1> DEFINE Bad == {m \in Nat : ~ \E f : Joins(f, seqs, m)}
  <1>1. ASSUME Bad # {} PROVE FALSE
    <2>1. PICK m \in Bad : \A j \in Bad : m <= j
      BY <1>1, LeastNatural
    <2>2. CASE m = 0
      <3>1. \A f : Joins(f, seqs, 0)
        BY DEF Joins
      <3> QED
        BY <2>1, <2>2, <3>1
    <2>3. CASE m # 0
      <3>1. m \in Nat /\ m - 1 \in Nat /\ m - 1 \notin Bad
        BY <2>1, <2>3
      <3>2. PICK g : Joins(g, seqs, m - 1)
        BY <3>1
      <3> DEFINE h == [i \in 1..m |-> IF i # m THEN g[i]
                                      ELSE IF i = 1 THEN seqs[i] ELSE g[i - 1] \o seqs[i]]
      <3>3. \A i \in 1..m : h[i] = IF i # m THEN g[i]
                                   ELSE IF i = 1 THEN seqs[i] ELSE g[i - 1] \o seqs[i]
        OBVIOUS
      <3> HIDE DEF h
      <3>4. ASSUME NEW i \in 1..m
            PROVE  h[i] = IF i = 1 THEN seqs[i] ELSE h[i - 1] \o seqs[i]
        <4>1. CASE i = 1
          BY <3>1, <3>2, <3>3, <4>1 DEF Joins
        <4>2. CASE i # 1
          <5>1. i - 1 \in 1..m /\ i - 1 # m
            BY <3>1, <4>2
          <5>2. h[i - 1] = g[i - 1]
            BY <3>3, <5>1
          <5>3. i # m => i \in 1..m - 1
            BY <3>1
          <5>4. i # m => g[i] = g[i - 1] \o seqs[i]
            BY <3>2, <4>2, <5>3 DEF Joins
          <5> QED
            BY <3>3, <4>2, <5>2, <5>4
        <4> QED
          BY <4>1, <4>2
      <3>5. Joins(h, seqs, m)
        BY <3>4 DEF Joins
      <3> QED
        BY <2>1, <3>5
    <2> QED
      BY <2>2, <2>3
  <1> QED
    BY <1>1

\* FlattenSeq joins all of them.
LEMMA FlattenJoins ==
    ASSUME NEW seqs, NEW n \in Nat \ {0}, Len(seqs) = n
    PROVE  \E f : Joins(f, seqs, n) /\ FlattenSeq(seqs) = f[n]
  <1> DEFINE Flattens(f) == f = [i \in 1..n |-> IF i = 1 THEN seqs[i] ELSE f[i - 1] \o seqs[i]]
             flat == CHOOSE f : Flattens(f)
  <1>1. PICK g : Joins(g, seqs, n)
    BY JoinExists
  <1> DEFINE h == [i \in 1..n |-> g[i]]
  <1>2. Flattens(h)
    <2>1. \A i \in 1..n : h[i] = g[i]
      OBVIOUS
    <2>2. \A i \in 1..n : i # 1 => i - 1 \in 1..n
      OBVIOUS
    <2>3. DOMAIN h = 1..n /\ h = [i \in 1..n |-> h[i]]
      OBVIOUS
    <2> HIDE DEF h
    <2>4. \A i \in 1..n : h[i] = IF i = 1 THEN seqs[i] ELSE h[i - 1] \o seqs[i]
      BY <1>1, <2>1, <2>2 DEF Joins
    <2> QED
      BY <2>3, <2>4
  <1>3. Flattens(flat)
    BY <1>2
  <1>4. Joins(flat, seqs, n)
    BY <1>3 DEF Joins
  <1>5. FlattenSeq(seqs) = flat[n]
    BY DEF FlattenSeq
  <1> QED
    BY <1>4, <1>5

Digit == 0..9

\* The digits a character is written as.
Written(value) == IF value < 10 THEN <<value>> ELSE <<value \div 10, value % 10>>

\* They are digits.
LEMMA WrittenIsDigits ==
    ASSUME NEW value \in 0..35
    PROVE  Written(value) \in Seq(Digit)
  <1>1. value >= 10 => value \div 10 \in Digit /\ value % 10 \in Digit
    BY DEF Digit
  <1>2. value < 10 => value \in Digit
    BY DEF Digit
  <1>3. \A d, e \in Digit : <<d>> \in Seq(Digit) /\ <<d, e>> \in Seq(Digit)
    OBVIOUS
  <1>4. CASE value < 10
    BY <1>2, <1>3, <1>4 DEF Written
  <1>5. CASE ~(value < 10)
    BY <1>1, <1>3, <1>5 DEF Written
  <1> QED
    BY <1>4, <1>5

\* Two numbers that differ in one digit, a in x and b in y.
Differ(x, y, a, b) ==
    /\ Len(x) = Len(y)
    /\ \E p \in 1..Len(x) : /\ x[p] = a /\ y[p] = b
                            /\ \A q \in 1..Len(x) : q # p => x[q] = y[q]

\* The same digits behind both, or before both, leave them so.
LEMMA DifferGrows ==
    ASSUME NEW x \in Seq(Digit), NEW y \in Seq(Digit), NEW a, NEW b, NEW z \in Seq(Digit)
    PROVE  /\ Differ(x, y, a, b) => Differ(x \o z, y \o z, a, b)
           /\ Differ(z \o <<a>>, z \o <<b>>, a, b)
  <1>1. ASSUME Differ(x, y, a, b) PROVE Differ(x \o z, y \o z, a, b)
    <2>1. /\ Len(x \o z) = Len(x) + Len(z) /\ Len(y \o z) = Len(y) + Len(z)
          /\ \A i \in 1..Len(x) + Len(z) : (x \o z)[i] = IF i <= Len(x) THEN x[i] ELSE z[i - Len(x)]
          /\ \A i \in 1..Len(y) + Len(z) : (y \o z)[i] = IF i <= Len(y) THEN y[i] ELSE z[i - Len(y)]
      OBVIOUS
    <2>2. Len(x) \in Nat /\ Len(z) \in Nat /\ Len(x) = Len(y)
      BY <1>1 DEF Differ
    <2>3. PICK p \in 1..Len(x) : /\ x[p] = a /\ y[p] = b
                                 /\ \A q \in 1..Len(x) : q # p => x[q] = y[q]
      BY <1>1 DEF Differ
    <2>4. p \in 1..Len(x \o z) /\ (x \o z)[p] = a /\ (y \o z)[p] = b
      BY <2>1, <2>2, <2>3
    <2>5. \A q \in 1..Len(x \o z) : q # p => (x \o z)[q] = (y \o z)[q]
      BY <2>1, <2>2, <2>3
    <2> QED
      BY <2>1, <2>2, <2>4, <2>5 DEF Differ
  <1>2. Differ(z \o <<a>>, z \o <<b>>, a, b)
    <2>1. /\ Len(z \o <<a>>) = Len(z) + 1 /\ Len(z \o <<b>>) = Len(z) + 1
          /\ (z \o <<a>>)[Len(z) + 1] = a /\ (z \o <<b>>)[Len(z) + 1] = b
          /\ \A i \in 1..Len(z) : (z \o <<a>>)[i] = z[i] /\ (z \o <<b>>)[i] = z[i]
      OBVIOUS
    <2> DEFINE p == Len(z) + 1
    <2>2. p \in 1..p /\ \A q \in 1..p : q # p => q \in 1..Len(z)
      OBVIOUS
    <2>3. Len(z \o <<a>>) = p /\ Len(z \o <<b>>) = p
          /\ (z \o <<a>>)[p] = a /\ (z \o <<b>>)[p] = b
      BY <2>1
    <2> HIDE DEF p
    <2>4. \A q \in 1..p : q # p => (z \o <<a>>)[q] = (z \o <<b>>)[q]
      BY <2>1, <2>2
    <2> QED
      BY <2>2, <2>3, <2>4 DEF Differ
  <1> QED
    BY <1>1, <1>2

\* Of a text and the same with one digit replaced, what is added up differs in
\* one digit.
LEMMA MistypedDiffers ==
    ASSUME NEW text \in Seq(0..35), NEW k \in DOMAIN text, text[k] < 10, NEW digit \in Digit
    PROVE  LET mistyped == [text EXCEPT ![k] = digit]
           IN  /\ text[k] \in Digit
               /\ Expanded(text) \in Seq(Digit)
               /\ Expanded(mistyped) \in Seq(Digit)
               /\ Differ(Expanded(text), Expanded(mistyped), text[k], digit)
  <1> DEFINE mistyped == [text EXCEPT ![k] = digit]
             n  == Len(text)
             s1 == [j \in DOMAIN text |-> Written(text[j])]
             s2 == [j \in DOMAIN mistyped |-> Written(mistyped[j])]
  <1>1. n \in Nat \ {0} /\ DOMAIN text = 1..n /\ k \in 1..n /\ text \in [1..n -> 0..35]
    <2>1. n \in Nat /\ DOMAIN text = 1..n
      OBVIOUS
    <2>2. text \in [1..n -> 0..35]
      BY SeqIsFunction
    <2> QED
      BY <2>1, <2>2
  <1>2. /\ DOMAIN mistyped = 1..n /\ mistyped[k] = digit
        /\ \A j \in 1..n : j # k => mistyped[j] = text[j]
        /\ \A j \in 1..n : text[j] \in 0..35 /\ mistyped[j] \in 0..35
    BY <1>1 DEF Digit
  <1>3. text[k] \in Digit /\ digit \in Digit /\ digit < 10
    <2>1. text[k] \in 0..35 /\ text[k] < 10
      BY <1>1
    <2>2. text[k] \in Digit
      <3> DEFINE t == text[k]
      <3>1. t \in 0..35 /\ t < 10
        BY <2>1
      <3> HIDE DEF t
      <3>2. t \in Digit
        BY <3>1 DEF Digit
      <3> QED
        BY <3>2 DEF t
    <2>3. digit \in Digit
      OBVIOUS
    <2>4. digit < 10
      BY <2>3 DEF Digit
    <2> QED
      BY <2>2, <2>3, <2>4
  <1>4. Expanded(text) = FlattenSeq(s1) /\ Expanded(mistyped) = FlattenSeq(s2)
    BY DEF Expanded, Written
  <1>5. Len(s1) = n /\ Len(s2) = n
    BY <1>1, <1>2
  <1>6. /\ \A j \in 1..n : s1[j] = Written(text[j]) /\ s2[j] = Written(mistyped[j])
        /\ \A j \in 1..n : s1[j] \in Seq(Digit) /\ s2[j] \in Seq(Digit)
    <2>1. \A j \in 1..n : s1[j] = Written(text[j]) /\ s2[j] = Written(mistyped[j])
      BY <1>1, <1>2
    <2> HIDE DEF s1, s2, mistyped, n
    <2> QED
      BY <1>2, <2>1, WrittenIsDigits
  <1> HIDE DEF s1, s2, mistyped, n
  <1>7. PICK f1 : Joins(f1, s1, n) /\ Expanded(text) = f1[n]
    BY <1>1, <1>4, <1>5, FlattenJoins
  <1>8. PICK f2 : Joins(f2, s2, n) /\ Expanded(mistyped) = f2[n]
    BY <1>1, <1>4, <1>5, FlattenJoins
  <1>9. s1[k] = <<text[k]>> /\ s2[k] = <<digit>> /\ \A j \in 1..n : j # k => s1[j] = s2[j]
    <2>1. s1[k] = <<text[k]>>
      BY <1>1, <1>6 DEF Written
    <2>2. s2[k] = <<digit>>
      BY <1>1, <1>2, <1>3, <1>6 DEF Written
    <2> QED
      BY <1>2, <1>6, <2>1, <2>2
  <1> DEFINE Good(i) == /\ f1[i] \in Seq(Digit) /\ f2[i] \in Seq(Digit)
                        /\ i < k => f1[i] = f2[i]
                        /\ i >= k => Differ(f1[i], f2[i], text[k], digit)
             Bad == {i \in 1..n : ~Good(i)}
  <1>10. ASSUME Bad # {} PROVE FALSE
    <2>1. Bad \in SUBSET Nat
      BY <1>1
    <2>2. PICK i \in Bad : \A j \in Bad : i <= j
      BY <1>10, <2>1, LeastNatural
    <2>3. i \in 1..n /\ ~Good(i)
      BY <2>2
    <2>4. CASE i = 1
      <3>1. f1[1] = s1[1] /\ f2[1] = s2[1]
        BY <1>1, <1>7, <1>8 DEF Joins
      <3>2. CASE k = 1
        <4>1. Differ(<<text[k]>>, <<digit>>, text[k], digit)
          BY DEF Differ
        <4>2. f1[1] = <<text[k]>> /\ f2[1] = <<digit>>
          BY <1>9, <3>1, <3>2
        <4>3. f1[1] \in Seq(Digit) /\ f2[1] \in Seq(Digit)
          BY <1>1, <1>6, <3>1
        <4> QED
          BY <2>3, <2>4, <3>2, <4>1, <4>2, <4>3
      <3>3. CASE k # 1
        BY <1>1, <1>6, <1>9, <2>3, <2>4, <3>1, <3>3
      <3> QED
        BY <3>2, <3>3
    <2>5. CASE i # 1
      <3>1. i \in Nat /\ i - 1 \in 1..n /\ ~(i <= i - 1)
        BY <1>1, <2>3, <2>5
      <3>2. Good(i - 1)
        BY <2>2, <3>1
      <3> DEFINE x == f1[i - 1]
                 y == f2[i - 1]
      <3>3. f1[i] = x \o s1[i] /\ f2[i] = y \o s2[i]
        BY <1>7, <1>8, <2>3, <2>5 DEF Joins
      <3>4. /\ x \in Seq(Digit) /\ y \in Seq(Digit)
            /\ i - 1 < k => x = y
            /\ i - 1 >= k => Differ(x, y, text[k], digit)
        BY <3>2
      <3>5. s1[i] \in Seq(Digit) /\ s2[i] \in Seq(Digit)
        BY <1>6, <2>3
      <3> HIDE DEF x, y
      <3>6. f1[i] \in Seq(Digit) /\ f2[i] \in Seq(Digit)
        BY <3>3, <3>4, <3>5
      <3>7. i < k => f1[i] = f2[i]
        <4>1. ASSUME i < k PROVE x = y /\ s1[i] = s2[i]
          BY <1>1, <1>9, <2>3, <3>1, <3>4, <4>1
        <4> QED
          BY <3>3, <4>1
      <3>8. i = k => Differ(f1[i], f2[i], text[k], digit)
        <4>1. ASSUME i = k PROVE x = y /\ s1[i] = <<text[k]>> /\ s2[i] = <<digit>>
          BY <1>9, <3>1, <3>4, <4>1
        <4>2. Differ(x \o <<text[k]>>, x \o <<digit>>, text[k], digit)
          BY <3>4, DifferGrows
        <4> QED
          BY <3>3, <4>1, <4>2
      <3>9. i > k => Differ(f1[i], f2[i], text[k], digit)
        <4>1. ASSUME i > k PROVE Differ(x, y, text[k], digit) /\ s1[i] = s2[i]
          BY <1>1, <1>9, <2>3, <3>1, <3>4, <4>1
        <4>2. Differ(x, y, text[k], digit) => Differ(x \o s1[i], y \o s1[i], text[k], digit)
          BY <3>4, <3>5, DifferGrows
        <4> QED
          BY <3>3, <4>1, <4>2
      <3>10. i >= k => i = k \/ i > k
        BY <1>1, <3>1
      <3>11. k \in Nat
        BY <1>1
      <3> QED
        BY <2>3, <3>6, <3>7, <3>8, <3>9, <3>10
    <2> QED
      BY <2>4, <2>5
  <1>11. Good(n)
    BY <1>1, <1>10
  <1> QED
    BY <1>1, <1>3, <1>7, <1>8, <1>11 DEF mistyped

\* The digit at an even place from the last, and what is added up of it.
LEMMA DoubledDigits ==
    /\ \A d \in Digit : Doubled(d) \in Digit
    /\ \A d, e \in Digit : Doubled(d) = Doubled(e) => d = e
  <1>1. ASSUME NEW d \in Digit
        PROVE  Doubled(d) = IF d < 5 THEN 2 * d ELSE 2 * d - 9
    BY DEF Doubled, Digit
  <1> QED
    BY <1>1 DEF Digit

\* What is added up of a number, the digit at p apart.
LEMMA TotalTakesOut ==
    ASSUME NEW x \in Seq(Digit), NEW p \in 1..Len(x)
    PROVE  LET w == [k \in DOMAIN x |-> IF (Len(x) - k) % 2 = 1 THEN Doubled(x[k]) ELSE x[k]]
           IN  /\ Total(x) = w[p] + Sum(w, (1..Len(x)) \ {p})
               /\ Sum(w, (1..Len(x)) \ {p}) \in Int
  <1> DEFINE w == [k \in DOMAIN x |-> IF (Len(x) - k) % 2 = 1 THEN Doubled(x[k]) ELSE x[k]]
             n == Len(x)
             S == 1..n
  <1>1. n \in Nat /\ DOMAIN x = S /\ DOMAIN w = S /\ p \in S
    OBVIOUS
  <1>2. IsFiniteSet(S) /\ IsFiniteSet(S \ {p})
    BY <1>1, Places
  <1>3. \A k \in S : w[k] \in Int
    BY DoubledDigits DEF Digit
  <1>4. Total(x) = Sum(w, S)
    BY <1>1 DEF Total, SumFunction, Sum
  <1> HIDE DEF w, S
  <1>5. Sum(w, S) = w[p] + Sum(w, S \ {p})
    BY <1>1, <1>2, <1>3, SumTakesOut
  <1>6. Sum(w, S \ {p}) \in Int
    BY <1>2, <1>3, SumIsInteger
  <1> QED
    BY <1>4, <1>5, <1>6 DEF w, S

\* The totals of numbers that differ in one digit are not both divisible by ten.
LEMMA OneDigitIsNoticed ==
    ASSUME NEW x \in Seq(Digit), NEW y \in Seq(Digit), NEW a \in Digit, NEW b \in Digit,
           a # b, Differ(x, y, a, b), Total(x) % 10 = 0
    PROVE  Total(y) % 10 # 0
  <1> DEFINE n == Len(x)
             v == [k \in DOMAIN x |-> IF (Len(x) - k) % 2 = 1 THEN Doubled(x[k]) ELSE x[k]]
             w == [k \in DOMAIN y |-> IF (Len(y) - k) % 2 = 1 THEN Doubled(y[k]) ELSE y[k]]
  <1>1. n \in Nat /\ Len(y) = n /\ DOMAIN x = 1..n /\ DOMAIN y = 1..n
    BY DEF Differ
  <1>2. PICK p \in 1..n : /\ x[p] = a /\ y[p] = b
                          /\ \A q \in 1..n : q # p => x[q] = y[q]
    BY DEF Differ
  <1> DEFINE R == (1..n) \ {p}
  <1>3. \A q \in R : v[q] = w[q]
    BY <1>1, <1>2
  <1>4. IsFiniteSet(R)
    BY <1>1, Places
  <1>5. Total(x) = v[p] + Sum(v, R) /\ Sum(v, R) \in Int
    BY <1>2, TotalTakesOut
  <1>6. Total(y) = w[p] + Sum(w, R)
    BY <1>1, <1>2, TotalTakesOut
  <1>7. v[p] = (IF (n - p) % 2 = 1 THEN Doubled(a) ELSE a)
        /\ w[p] = (IF (n - p) % 2 = 1 THEN Doubled(b) ELSE b)
    BY <1>1, <1>2
  <1>8. v[p] \in Digit /\ w[p] \in Digit /\ v[p] # w[p]
    BY <1>7, DoubledDigits
  <1> HIDE DEF v, w, R
  <1>9. Sum(v, R) = Sum(w, R)
    BY <1>3, <1>4, SumOfEquals
  <1> DEFINE s == Sum(v, R)
             d == v[p]
             e == w[p]
  <1>10. Total(x) = d + s /\ Total(y) = e + s
    BY <1>5, <1>6, <1>9
  <1>11. s \in Int /\ d \in 0..9 /\ e \in 0..9 /\ d # e
    BY <1>5, <1>8 DEF Digit
  <1> HIDE DEF s, d, e
  <1>12. (d + s) % 10 = 0 => (e + s) % 10 # 0
    BY <1>11
  <1> QED
    BY <1>10, <1>12

\* Every digit of an ISIN is guarded by the others.
LEMMA DigitsAreGuarded ==
    ASSUME NEW text \in Seq(0..35), IsIsin(text), NEW k \in DOMAIN text, text[k] < 10,
           NEW digit \in 0..9, digit # text[k]
    PROVE  ~IsIsin([text EXCEPT ![k] = digit])
  <1>1. digit \in Digit
    BY DEF Digit
  <1> DEFINE mistyped == [text EXCEPT ![k] = digit]
             x == Expanded(text)
             y == Expanded(mistyped)
  <1>2. /\ text[k] \in Digit /\ x \in Seq(Digit) /\ y \in Seq(Digit)
        /\ Differ(x, y, text[k], digit)
    BY <1>1, MistypedDiffers
  <1>3. Total(x) % 10 = 0
    BY DEF IsIsin
  <1> HIDE DEF x, y
  <1>4. Total(y) % 10 # 0
    BY <1>1, <1>2, <1>3, OneDigitIsNoticed
  <1> QED
    BY <1>4 DEF IsIsin, y

\* The ISIN of a lot is a text of digits and letters, and an ISIN.
LEMMA LotsHaveIsins ==
    ASSUME NEW c \in Readable, NEW lot \in LotsOf(c)
    PROVE  lot.isin \in Seq(0..35) /\ IsIsin(lot.isin)
  <1>0. PICK s \in DOMAIN Files[c].sheets : \E isin : TakenFrom(c, s, isin, lot)
    BY LotsComeFromRows
  <1>1. PICK isin : TakenFrom(c, s, isin, lot)
    BY <1>0
  <1> DEFINE binary == Files[c].binary
             sheet  == Files[c].sheets[s].rows
             rows   == OpenedRows(binary, sheet)
  <1>2. IsFile(Files[c])
    BY FilesAssumption
  <1>3. PICK r \in DOMAIN sheet : Accepts(rows[r], isin) /\ lot = LotOf(ParsedRow(rows[r], isin, r))
    BY <1>1 DEF TakenFrom
  <1>4. lot.isin = Cell(rows[r], isin).value
    <2> DEFINE cell == Cell(rows[r], isin)
    <2>1. lot.isin = ParsedRow(rows[r], isin, r).isin
      BY <1>3 DEF LotOf, ParsedRow
    <2> QED
      BY <2>1 DEF ParsedRow
  <1>5. /\ Cell(rows[r], isin).kind = "code"
        /\ IsIsin(Cell(rows[r], isin).value)
    BY <1>3 DEF Accepts, Typed
  <1>6. r \in DOMAIN rows /\ DOMAIN rows = DOMAIN sheet
    BY <1>3 DEF OpenedRows
  <1>7. isin \in DOMAIN rows[r] /\ Cell(rows[r], isin) = rows[r][isin]
    BY <1>5 DEF Cell, Empty
  <1>8. isin \in DOMAIN sheet[r] /\ rows[r][isin] = Opened(binary, sheet[r][isin])
    BY <1>6, <1>7 DEF OpenedRows
  <1>9. IsCell(sheet[r][isin]) /\ binary \in BOOLEAN
    BY <1>2, <1>6, <1>8, SheetCells
  <1>10. sheet[r][isin].kind = "code" /\ sheet[r][isin].value = lot.isin
    <2>1. /\ Opened(binary, sheet[r][isin]).kind = sheet[r][isin].kind
          /\ Opened(binary, sheet[r][isin]).value = sheet[r][isin].value
      BY <1>9, OpenedCell
    <2> QED
      BY <1>4, <1>5, <1>7, <1>8, <2>1
  <1> QED
    BY <1>4, <1>5, <1>9, <1>10 DEF IsCell

\* A mistyped digit is noticed, in whichever sheets are imported.
THEOREM MistypedIsinsAreRefused == Spec => []MistypedDigitsAreRefused
  <1>1. ASSUME NEW c \in Readable, NEW lot \in LotsOf(c), NEW isin, isin = lot.isin,
               NEW k \in {j \in DOMAIN isin : isin[j] < 10}, NEW digit \in 0..9, digit # isin[k]
        PROVE  ~IsIsin([isin EXCEPT ![k] = digit])
    BY <1>1, LotsHaveIsins, DigitsAreGuarded
  <1>2. Readable \subseteq Guarded
    BY <1>1 DEF Guarded
  <1>3. TypeOK /\ BatchesAreOwned => MistypedDigitsAreRefused
    BY <1>2, ImportedIsReadable DEF MistypedDigitsAreRefused
  <1> QED
    BY <1>3, TypeCorrectness, EveryBatchIsOwned, PTL

=============================================================================
