------------------------- MODULE SheetSyncRunProofs -------------------------
(***************************************************************************)
(* Proofs about SheetSyncRun, for any numbers of rows, ISINs and runs.     *)
(***************************************************************************)
EXTENDS SheetSyncRun, TLAPS

\* The fields of a batch built from well-typed cells are well typed.
LEMMA BatchType ==
    ASSUME TypeOK, NEW r \in Runs, NEW answered \in SUBSET Rows,
           NEW parsed \in SUBSET Rows, NEW usable \in SUBSET Rows
    PROVE  BatchFor(r, answered, parsed, usable) \in Batches
<1> DEFINE S == snap[r]
<1>1. S \in Cells
  BY DEF TypeOK
<1>2. \A w \in Rows : w \in ValidRows(S) => ResultFor(r, w, answered, parsed, usable) \in Results
  <2> SUFFICES ASSUME NEW w \in Rows, w \in ValidRows(S)
               PROVE  ResultFor(r, w, answered, parsed, usable) \in Results
    OBVIOUS
  <2>1. S.isin[w] \in Isins
    BY DEF ValidRows
  <2>2. quote[r][S.isin[w]] \in Versions =>
            <<S.isin[w], quote[r][S.isin[w]]>> \in Shown
    BY <2>1 DEF Shown
  <2>3. Blank \in Shown
    BY DEF Shown
  <2> QED
    BY <2>1, <2>2, <2>3, OptionsAssumption DEF ResultFor, Results, Empty
<1>3. Empty \in Results
  BY DEF Empty, Results, Shown
<1>4. [w \in Rows |-> IF w \in ValidRows(S) THEN ResultFor(r, w, answered, parsed, usable)
                                            ELSE Empty] \in [Rows -> Results]
  BY <1>2, <1>3
<1>5. /\ DefaultsFor(r) \in SUBSET Rows
      /\ FixesFor(r, answered) \in SUBSET Rows
      /\ ValidRows(S) \in SUBSET Rows
      /\ InvalidRows(S) \in SUBSET Rows
  BY DEF DefaultsFor, FixesFor, Refreshed, ValidRows, InvalidRows
<1> QED
  BY <1>4, <1>5 DEF BatchFor, Batches

\* A well-typed batch leaves the worksheet well typed.
LEMMA ApplyType ==
    ASSUME TypeOK, NEW b \in Batches, Apply(b)
    PROVE  Inputs' \in Cells /\ out' \in [Rows -> Results]
<1>1. Inputs \in Cells /\ out \in [Rows -> Results]
  BY DEF TypeOK
<1>2. commission' \in [Rows -> {Blank, "user", "unreadable", "default"}]
  BY <1>1 DEF Apply, Inputs, Cells
<1>3. accrued' \in [Rows -> {Blank, "user", "fixed"}]
  BY <1>1 DEF Apply, Inputs, Cells
<1>4. \A w \in Rows : [out[w] EXCEPT !.verdict = "invalid", !.mark = "invalid"] \in Results
  BY <1>1 DEF Results
<1>5. b.results \in [Rows -> Results]
  BY DEF Batches
<1>6. out' \in [Rows -> Results]
  BY <1>1, <1>4, <1>5 DEF Apply
<1> QED
  BY <1>1, <1>2, <1>3, <1>6 DEF Apply, Inputs, Cells

\* The variables of a run stay well typed when it ends.
LEMMA EndRunType ==
    ASSUME TypeOK, NEW r \in Runs, EndRun(r)
    PROVE  /\ pc' \in [Runs -> {"idle", "read", "refresh", "post", "commit"}]
           /\ snap' \in [Runs -> Cells]
           /\ pending' \in [Runs -> SUBSET Isins]
           /\ quote' \in [Runs -> [Isins -> Quotes]]
           /\ batch' \in [Runs -> Batches]
           /\ tries' \in [Runs -> 0..(Retries - 1)]
<1>1. NoCells \in Cells
  BY DEF NoCells, Cells
<1>2. EmptyBatch \in Batches
  BY DEF EmptyBatch, Batches, Empty, Results, Shown
<1>3. [i \in Isins |-> Unknown] \in [Isins -> Quotes]
  BY DEF Quotes
<1>4. 0 \in 0..(Retries - 1)
  BY LimitsAssumption
<1> QED
  BY <1>1, <1>2, <1>3, <1>4 DEF EndRun, TypeOK

\* The same when a post goes without an answer.
LEMMA RetryType ==
    ASSUME TypeOK, NEW r \in Runs, RetryOrRaise(r)
    PROVE  /\ pc' \in [Runs -> {"idle", "read", "refresh", "post", "commit"}]
           /\ snap' \in [Runs -> Cells]
           /\ pending' \in [Runs -> SUBSET Isins]
           /\ quote' \in [Runs -> [Isins -> Quotes]]
           /\ batch' \in [Runs -> Batches]
           /\ tries' \in [Runs -> 0..(Retries - 1)]
<1>1. CASE tries[r] + 1 < Retries
  <2>1. tries[r] + 1 \in 0..(Retries - 1)
    BY <1>1, LimitsAssumption DEF TypeOK
  <2> QED
    BY <1>1, <2>1 DEF RetryOrRaise, TypeOK
<1>2. CASE ~(tries[r] + 1 < Retries)
  BY <1>2, EndRunType DEF RetryOrRaise
<1> QED
  BY <1>1, <1>2

\* The worksheet as found is well typed.
LEMMA InitType == Init => TypeOK
<1> SUFFICES ASSUME Init PROVE TypeOK
  OBVIOUS
<1>1. NoCells \in Cells
  BY DEF NoCells, Cells
<1>2. EmptyBatch \in Batches /\ Empty \in Results
  BY DEF EmptyBatch, Batches, Empty, Results, Shown
<1>3. Inputs \in Cells
  BY DEF Init, Inputs, Cells
<1>4. 1 \in Versions /\ 0 \in 0..(Retries - 1) /\ 0 \in 0..MaxStarts /\ 0 \in 0..MaxEdits
  BY LimitsAssumption DEF Versions
<1> QED
  BY <1>1, <1>2, <1>3, <1>4 DEF Init, TypeOK, Quotes

\* Every step keeps the types.
LEMMA NextType == TypeOK /\ [Next]_vars => TypeOK'
<1> SUFFICES ASSUME TypeOK, [Next]_vars PROVE TypeOK'
  OBVIOUS
<1> USE DEF worldVars
<1>1. ASSUME NEW r \in Runs, StartRun(r) PROVE TypeOK'
  BY <1>1, LimitsAssumption DEF StartRun, TypeOK, sheetVars, inputVars, Inputs
<1>2. ASSUME NEW r \in Runs, ReadRows(r) PROVE TypeOK'
  <2>1. {isin[w] : w \in ValidRows(Inputs)} \in SUBSET Isins
    BY DEF ValidRows, Inputs
  <2> QED
    BY <1>2, <2>1 DEF ReadRows, TypeOK, sheetVars, inputVars, Inputs
<1>3. ASSUME NEW r \in Runs, BuildUpdates(r) PROVE TypeOK'
  <2>1. PICK answered \in SUBSET Rows, parsed \in SUBSET Rows, usable \in SUBSET Rows :
          batch' = [batch EXCEPT ![r] = BatchFor(r, answered, parsed, usable)]
    BY <1>3 DEF BuildUpdates
  <2>2. BatchFor(r, answered, parsed, usable) \in Batches
    BY BatchType
  <2> QED
    BY <1>3, <2>1, <2>2 DEF BuildUpdates, TypeOK, sheetVars, inputVars, Inputs
<1>4. ASSUME NEW r \in Runs, CommitRun(r) PROVE TypeOK'
  BY <1>4, EndRunType DEF CommitRun, TypeOK, sheetVars, inputVars, Inputs
<1>5. ASSUME NEW r \in Runs, NEW i \in Isins, RefreshIsin(r, i) PROVE TypeOK'
  <2>1. PICK q \in {market[i], NoOffer, Failed} : quote' = [quote EXCEPT ![r][i] = q]
    BY <1>5 DEF RefreshIsin
  <2>2. q \in Quotes
    BY DEF TypeOK, Quotes
  <2> QED
    BY <1>5, <2>1, <2>2 DEF RefreshIsin, TypeOK, sheetVars, inputVars, Inputs
<1>6. ASSUME NEW r \in Runs, PostAnswered(r) PROVE TypeOK'
  <2>1. batch[r] \in Batches
    BY DEF TypeOK
  <2>2. Inputs' \in Cells /\ out' \in [Rows -> Results]
    BY <1>6, <2>1, ApplyType DEF PostAnswered
  <2> QED
    BY <1>6, <2>2 DEF PostAnswered, TypeOK
<1>7. ASSUME NEW r \in Runs, AnswerLost(r) PROVE TypeOK'
  <2>1. batch[r] \in Batches
    BY DEF TypeOK
  <2>2. Inputs' \in Cells /\ out' \in [Rows -> Results]
    BY <1>7, <2>1, ApplyType DEF AnswerLost
  <2> QED
    BY <1>7, <2>2, RetryType DEF AnswerLost, TypeOK
<1>8. ASSUME NEW r \in Runs, PostUnanswered(r) PROVE TypeOK'
  <2>1. late' \subseteq Batches
    BY <1>8 DEF PostUnanswered, TypeOK
  <2> QED
    BY <1>8, <2>1, RetryType DEF PostUnanswered, TypeOK, sheetVars, inputVars, Inputs
<1>9. ASSUME NEW r \in Runs, AbortRun(r) PROVE TypeOK'
  BY <1>9, EndRunType DEF AbortRun, TypeOK, sheetVars, inputVars, Inputs
<1>10. ASSUME NEW b \in late, LateArrival(b) PROVE TypeOK'
  <2>1. b \in Batches
    BY DEF TypeOK
  <2>2. Inputs' \in Cells /\ out' \in [Rows -> Results]
    BY <1>10, <2>1, ApplyType DEF LateArrival
  <2> QED
    BY <1>10, <2>2 DEF LateArrival, TypeOK, runVars
<1>11. ASSUME NEW w \in Rows, EditCell(w) PROVE TypeOK'
  <2>1. Inputs' \in Cells
    <3>1. /\ isin \in [Rows -> Isins \union {BadIsin, Blank}]
          /\ commission \in [Rows -> {Blank, "user", "unreadable", "default"}]
          /\ accrued \in [Rows -> {Blank, "user", "fixed"}]
      BY DEF TypeOK, Inputs, Cells
    <3>2. /\ isin' \in [Rows -> Isins \union {BadIsin, Blank}]
          /\ commission' \in [Rows -> {Blank, "user", "unreadable", "default"}]
          /\ accrued' \in [Rows -> {Blank, "user", "fixed"}]
      BY <1>11, <3>1 DEF EditCell
    <3> QED
      BY <3>2 DEF Inputs, Cells
  <2>2. edits' \in 0..MaxEdits
    BY <1>11, LimitsAssumption DEF EditCell, MayEdit, TypeOK
  <2> QED
    BY <1>11, <2>1, <2>2 DEF EditCell, TypeOK, runVars
<1>12. ASSUME NEW v \in Rows, NEW w \in Rows, SwapRows(v, w) PROVE TypeOK'
  <2> DEFINE swap == [u \in Rows |-> IF u = v THEN w ELSE IF u = w THEN v ELSE u]
  <2>1. swap \in [Rows -> Rows]
    OBVIOUS
  <2>2. Inputs' \in Cells
    BY <1>12, <2>1 DEF SwapRows, TypeOK, Inputs, Cells
  <2>3. edits' \in 0..MaxEdits
    BY <1>12, LimitsAssumption DEF SwapRows, MayEdit, TypeOK
  <2>4. out' \in [Rows -> Results]
    BY <1>12, <2>1 DEF SwapRows, TypeOK
  <2> QED
    BY <1>12, <2>2, <2>3, <2>4 DEF SwapRows, TypeOK, runVars
<1>13. ASSUME NEW i \in Isins, MarketMoves(i) PROVE TypeOK'
  <2>1. market[i] + 1 \in Versions
    BY <1>13, LimitsAssumption DEF MarketMoves, TypeOK, Versions
  <2> QED
    BY <1>13, <2>1 DEF MarketMoves, TypeOK, sheetVars, inputVars, runVars, Inputs
<1>14. CASE UNCHANGED vars
  BY <1>14 DEF vars, TypeOK, sheetVars, inputVars, runVars, Inputs
<1> QED
  BY <1>1, <1>2, <1>3, <1>4, <1>5, <1>6, <1>7, <1>8, <1>9, <1>10, <1>11, <1>12, <1>13,
     <1>14 DEF Next, RunStep

\* The worksheet, the market and every run are well typed in every state, and a
\* run never makes more posts than the client's retries allow.
THEOREM WellTyped == Spec => []TypeOK
  BY InitType, NextType, PTL DEF Spec
-----------------------------------------------------------------------------
(***************************************************************************)
(* The hypotheses of the two results below: the user leaves the worksheet  *)
(* alone while a run is open, and a post the client gave up is not applied *)
(* later.  Runs may still overlap, repeat their posts, lose answers, and   *)
(* abort anywhere.                                                         *)
(***************************************************************************)
Quiet == ~ConcurrentEdits /\ ~LateArrivals

\* What a run read still describes the worksheet: the ISINs are the same, and a
\* cell of J or L is as read, or was empty and has been filled by a run.
StillTrue(r) ==
    /\ snap[r].isin = isin
    /\ \A w \in Rows :
         /\ (snap[r].commission[w] # Blank) => (commission[w] = snap[r].commission[w])
         /\ (snap[r].commission[w] = Blank) => commission[w] \in {Blank, "default"}
         /\ (snap[r].accrued[w] # Blank) => (accrued[w] = snap[r].accrued[w])
         /\ (snap[r].accrued[w] = Blank) => accrued[w] \in {Blank, "fixed"}

\* A batch fills only cells that were read empty, rewrites exactly the rows with
\* a valid ISIN, and each result it writes is one of that ISIN.
SoundResult(r, w) ==
    LET o == batch[r].results[w] IN
    /\ o.verdict # "none"
    /\ (o.price # Blank) => (o.price[1] = snap[r].isin[w])
    /\ (o.figures # Blank) <=> (o.verdict = "calculated")
    /\ (o.figures # Blank) => (o.figures = o.price /\ o.coupons # Blank)
    /\ (o.verdict = "error") => (o.price = Blank /\ o.coupons = Blank)
    /\ (o.coupons # Blank) =>
           /\ o.coupons = snap[r].isin[w]
           /\ snap[r].commission[w] \in {"user", "default"} \/ w \in batch[r].defaults
           /\ snap[r].accrued[w] # Blank \/ w \in batch[r].fixes

SoundBatch(r) ==
    /\ \A w \in batch[r].defaults : snap[r].commission[w] = Blank
    /\ \A w \in batch[r].fixes : snap[r].accrued[w] = Blank
    /\ batch[r].rewritten = ValidRows(snap[r])
    /\ \A w \in ValidRows(snap[r]) : SoundResult(r, w)
    /\ StatusColumn => batch[r].invalid = InvalidRows(snap[r])

\* The inductive invariant.
IInv ==
    /\ TypeOK
    /\ late = {}
    /\ \A r \in Runs : pc[r] \in {"refresh", "post", "commit"} => StillTrue(r)
    /\ \A r \in Runs : pc[r] \in {"post", "commit"} => SoundBatch(r)
    /\ SheetAgrees

\* The invariant holds before the first run.
LEMMA InitIInv == Init => IInv
  BY InitType DEF Init, IInv, SheetAgrees

\* Whatever BuildUpdates chooses, the batch it builds is sound.
LEMMA BuiltIsSound ==
    ASSUME TypeOK, NEW r \in Runs, NEW answered \in SUBSET Rows,
           NEW parsed \in SUBSET Rows, NEW usable \in SUBSET Rows,
           batch' = [batch EXCEPT ![r] = BatchFor(r, answered, parsed, usable)],
           UNCHANGED <<snap, quote>>
    PROVE  SoundBatch(r)'
<1> DEFINE S == snap[r]
           B == BatchFor(r, answered, parsed, usable)
<1>1. batch'[r] = B /\ snap' = snap
  BY DEF TypeOK
<1>2. S \in Cells /\ quote[r] \in [Isins -> Quotes]
  BY DEF TypeOK
<1>3. \A w \in B.defaults : S.commission[w] = Blank
  BY DEF BatchFor, DefaultsFor
<1>4. \A w \in B.fixes : S.accrued[w] = Blank
  BY DEF BatchFor, FixesFor
<1>5. ASSUME NEW w \in ValidRows(S) PROVE SoundResult(r, w)'
  <2> DEFINE i == S.isin[w]
             q == quote[r][i]
  <2>1. w \in Rows /\ i \in Isins /\ q \in Quotes
    BY <1>2, <1>5 DEF ValidRows
  <2>2. B.results[w] = ResultFor(r, w, answered, parsed, usable)
    BY <1>5, <2>1 DEF BatchFor
  <2>3. /\ q \in Versions => (Blank # <<i, q>> /\ <<i, q>>[1] = i)
        /\ i # Blank
    BY <2>1, CellsAssumption DEF Versions
  <2>4. S.commission[w] \in {Blank, "user", "unreadable", "default"}
    BY <1>2, <2>1 DEF Cells
  <2>5. (S.commission[w] = Blank /\ q # Failed) => w \in B.defaults
    BY <1>5, <2>1 DEF BatchFor, DefaultsFor, Refreshed
  <2>6. CASE q = Failed
    BY <1>1, <2>2, <2>6 DEF SoundResult, ResultFor, Empty
  <2>7. CASE q # Failed
    <3>1. B.fixes = FixesFor(r, answered)
      BY DEF BatchFor
    <3>2. q \in Versions \/ q = NoOffer \/ q = Unknown
      BY <2>1, <2>7 DEF Quotes
    <3> QED
      BY <1>1, <2>2, <2>3, <2>4, <2>5, <2>7, <3>1, <3>2 DEF SoundResult, ResultFor, Purchased
  <2> QED
    BY <2>6, <2>7
<1>6. B.rewritten = ValidRows(S)
  BY DEF BatchFor
<1>7. StatusColumn => B.invalid = InvalidRows(S)
  BY DEF BatchFor
<1> QED
  BY <1>1, <1>3, <1>4, <1>5, <1>6, <1>7 DEF SoundBatch, InvalidRows

\* A post of run s replaces nothing in J and L, and what every open run read
\* stays true of the worksheet.
LEMMA ApplyKeeps ==
    ASSUME IInv, NEW s \in Runs, pc[s] = "post", Apply(batch[s])
    PROVE  /\ \A w \in Rows : /\ (commission[w] # Blank) => (commission'[w] = commission[w])
                              /\ (accrued[w] # Blank) => (accrued'[w] = accrued[w])
           /\ \A r \in Runs : (StillTrue(r) /\ snap'[r] = snap[r]) => StillTrue(r)'
<1>1. StillTrue(s) /\ SoundBatch(s)
  BY DEF IInv
<1>2. \A w \in Rows : /\ w \in batch[s].defaults => commission[w] \in {Blank, "default"}
                      /\ w \in batch[s].fixes => accrued[w] \in {Blank, "fixed"}
  BY <1>1 DEF StillTrue, SoundBatch
<1>3. \A w \in Rows : /\ commission'[w] = IF w \in batch[s].defaults THEN "default"
                                                                    ELSE commission[w]
                      /\ accrued'[w] = IF w \in batch[s].fixes THEN "fixed" ELSE accrued[w]
  BY DEF Apply
<1>4. \A w \in Rows : /\ (commission[w] # Blank) => (commission'[w] = commission[w])
                      /\ (accrued[w] # Blank) => (accrued'[w] = accrued[w])
  BY <1>2, <1>3
<1>5. ASSUME NEW r \in Runs, StillTrue(r), snap'[r] = snap[r] PROVE StillTrue(r)'
  <2>1. isin' = isin
    BY DEF Apply
  <2> QED
    BY <1>3, <1>4, <1>5, <2>1, CellsAssumption DEF StillTrue
<1> QED
  BY <1>4, <1>5

\* After a post of run s every row of a valid ISIN agrees with the worksheet.
LEMMA ApplyAgrees ==
    ASSUME IInv, NEW s \in Runs, pc[s] = "post", Apply(batch[s])
    PROVE  \A w \in Rows : isin[w] \in Isins => RowAgrees(w)'
<1> SUFFICES ASSUME NEW w \in Rows, isin[w] \in Isins PROVE RowAgrees(w)'
  OBVIOUS
<1>1. StillTrue(s) /\ SoundBatch(s)
  BY DEF IInv
<1>2. w \in ValidRows(snap[s]) /\ snap[s].isin[w] = isin[w]
  BY <1>1 DEF StillTrue, ValidRows
<1>3. SoundResult(s, w) /\ w \in batch[s].rewritten
  BY <1>1, <1>2 DEF SoundBatch
<1>4. out'[w] = batch[s].results[w]
  BY <1>3 DEF Apply
<1>5. isin' = isin
  BY DEF Apply
<1>6. /\ commission'[w] = IF w \in batch[s].defaults THEN "default" ELSE commission[w]
      /\ accrued'[w] = IF w \in batch[s].fixes THEN "fixed" ELSE accrued[w]
  BY DEF Apply
<1>7. (snap[s].commission[w] \in {"user", "default"} \/ w \in batch[s].defaults)
         => commission'[w] \in {"user", "default"}
  BY <1>1, <1>6, CellsAssumption DEF StillTrue
<1>8. (snap[s].accrued[w] # Blank \/ w \in batch[s].fixes) => accrued'[w] # Blank
  BY <1>1, <1>6, CellsAssumption DEF StillTrue
<1> QED
  BY <1>2, <1>3, <1>4, <1>5, <1>7, <1>8 DEF SoundResult, RowAgrees

\* ... and every row of a refused ISIN shows the refusal.
LEMMA ApplyRefuses ==
    ASSUME IInv, NEW s \in Runs, pc[s] = "post", Apply(batch[s]),
           NEW w \in Rows, isin[w] = BadIsin
    PROVE  RefusalShows(w)'
<1>1. StillTrue(s) /\ SoundBatch(s)
  BY DEF IInv
<1>2. snap[s].isin[w] = BadIsin
  BY <1>1 DEF StillTrue
<1>3. w \notin batch[s].rewritten
  BY <1>1, <1>2, CellsAssumption DEF SoundBatch, ValidRows
<1>4. StatusColumn => w \in batch[s].invalid
  BY <1>1, <1>2 DEF SoundBatch, InvalidRows
<1>5. out[w] \in Results
  BY DEF IInv, TypeOK
<1>6. StatusColumn => out'[w] = [out[w] EXCEPT !.verdict = "invalid", !.mark = "invalid"]
  BY <1>3, <1>4 DEF Apply
<1> QED
  BY <1>5, <1>6 DEF RefusalShows, Results

\* A step that leaves the worksheet alone and only ends runs, or leaves what
\* they read and built alone, keeps the invariant.
LEMMA QuietStep ==
    ASSUME IInv, TypeOK', late' = {}, UNCHANGED sheetVars,
           \A r \in Runs : \/ pc'[r] \notin {"refresh", "post", "commit"}
                           \/ /\ pc'[r] = pc[r]
                              /\ snap'[r] = snap[r]
                              /\ batch'[r] = batch[r]
    PROVE  IInv'
<1>1. ASSUME NEW r \in Runs, pc'[r] \in {"refresh", "post", "commit"}
      PROVE  /\ StillTrue(r)'
             /\ pc'[r] \in {"post", "commit"} => SoundBatch(r)'
             /\ pc'[r] = "commit" => \A w \in ValidRows(snap'[r]) : RowAgrees(w)'
             /\ pc'[r] = "commit" => \A w \in InvalidRows(snap'[r]) : RefusalShows(w)'
  <2>1. pc'[r] = pc[r] /\ snap'[r] = snap[r] /\ batch'[r] = batch[r]
    BY <1>1
  <2>2. StillTrue(r)'
    BY <1>1, <2>1 DEF IInv, StillTrue, sheetVars, inputVars
  <2>3. pc'[r] \in {"post", "commit"} => SoundBatch(r)'
    BY <2>1 DEF IInv, SoundBatch, SoundResult
  <2>4. pc'[r] = "commit" => \A w \in ValidRows(snap'[r]) : RowAgrees(w)'
    BY <2>1 DEF IInv, SheetAgrees, RowAgrees, sheetVars, inputVars
  <2>5. pc'[r] = "commit" => \A w \in InvalidRows(snap'[r]) : RefusalShows(w)'
    BY <2>1 DEF IInv, SheetAgrees, RefusalShows, sheetVars
  <2> QED
    BY <2>2, <2>3, <2>4, <2>5
<1> QED
  BY <1>1 DEF IInv, SheetAgrees

\* The same for a step in which Google applies the post of run s.
LEMMA PostStep ==
    ASSUME IInv, TypeOK', late' = {}, NEW s \in Runs, pc[s] = "post", Apply(batch[s]),
           \A r \in Runs : \/ pc'[r] = "idle"
                           \/ /\ pc'[r] = pc[r] \/ (r = s /\ pc'[r] = "commit")
                              /\ snap'[r] = snap[r]
                              /\ batch'[r] = batch[r]
    PROVE  IInv'
<1>1. ASSUME NEW r \in Runs, pc'[r] \in {"refresh", "post", "commit"}
      PROVE  /\ StillTrue(r)'
             /\ pc'[r] \in {"post", "commit"} => SoundBatch(r)'
             /\ pc'[r] = "commit" => \A w \in ValidRows(snap'[r]) : RowAgrees(w)'
             /\ pc'[r] = "commit" => \A w \in InvalidRows(snap'[r]) : RefusalShows(w)'
  <2>1. snap'[r] = snap[r] /\ batch'[r] = batch[r]
    BY <1>1
  <2>2. pc[r] \in {"refresh", "post", "commit"}
    BY <1>1
  <2>3. StillTrue(r)'
    BY <2>1, <2>2, ApplyKeeps DEF IInv
  <2>4. pc'[r] \in {"post", "commit"} => SoundBatch(r)'
    BY <1>1, <2>1 DEF IInv, SoundBatch, SoundResult
  <2>5. ASSUME NEW w \in ValidRows(snap'[r]) PROVE RowAgrees(w)'
    <3>1. w \in Rows /\ snap[r].isin[w] \in Isins
      BY <2>1, <2>5 DEF ValidRows
    <3>2. isin[w] \in Isins
      BY <2>2, <3>1 DEF IInv, StillTrue
    <3> QED
      BY <3>1, <3>2, ApplyAgrees
  <2>6. ASSUME NEW w \in InvalidRows(snap'[r]) PROVE RefusalShows(w)'
    <3>1. w \in Rows /\ snap[r].isin[w] = BadIsin
      BY <2>1, <2>6 DEF InvalidRows
    <3>2. isin[w] = BadIsin
      BY <2>2, <3>1 DEF IInv, StillTrue
    <3> QED
      BY <3>1, <3>2, ApplyRefuses
  <2> QED
    BY <2>3, <2>4, <2>5, <2>6
<1> QED
  BY <1>1 DEF IInv, SheetAgrees

\* Every step keeps the invariant, when the sheet is quiet.
LEMMA NextIInv ==
    ASSUME Quiet, IInv, [Next]_vars PROVE IInv'
<1>1. TypeOK'
  BY NextType DEF IInv
<1>2. ASSUME NEW r \in Runs, StartRun(r) PROVE IInv'
  BY <1>1, <1>2, QuietStep DEF StartRun, IInv, TypeOK
<1>3. ASSUME NEW r \in Runs, ReadRows(r) PROVE IInv'
  <2>1. snap'[r] = Inputs /\ pc'[r] = "refresh"
    BY <1>3 DEF ReadRows, IInv, TypeOK
  <2>2. StillTrue(r)'
    BY <1>3, <2>1 DEF ReadRows, StillTrue, Inputs, sheetVars, inputVars
  <2>3. ASSUME NEW q \in Runs, q # r
        PROVE  pc'[q] = pc[q] /\ snap'[q] = snap[q] /\ batch'[q] = batch[q]
    BY <1>3, <2>3 DEF ReadRows, IInv, TypeOK
  <2>4. \A q \in Runs : pc'[q] \in {"refresh", "post", "commit"} => StillTrue(q)'
    BY <1>3, <2>2, <2>3 DEF IInv, StillTrue, ReadRows, sheetVars, inputVars
  <2>5. \A q \in Runs : pc'[q] \in {"post", "commit"} => SoundBatch(q)'
    BY <2>1, <2>3 DEF IInv, SoundBatch, SoundResult
  <2>6. SheetAgrees'
    BY <1>3, <2>1, <2>3 DEF IInv, SheetAgrees, RowAgrees, RefusalShows, ReadRows, sheetVars, inputVars
  <2> QED
    BY <1>1, <1>3, <2>4, <2>5, <2>6 DEF IInv, ReadRows
<1>4. ASSUME NEW r \in Runs, BuildUpdates(r) PROVE IInv'
  <2>1. PICK answered \in SUBSET Rows, parsed \in SUBSET Rows, usable \in SUBSET Rows :
          batch' = [batch EXCEPT ![r] = BatchFor(r, answered, parsed, usable)]
    BY <1>4 DEF BuildUpdates
  <2>2. SoundBatch(r)'
    BY <1>4, <2>1, BuiltIsSound DEF BuildUpdates, IInv
  <2>3. pc[r] = "refresh" /\ pc'[r] = "post"
    BY <1>4 DEF BuildUpdates, IInv, TypeOK
  <2>4. ASSUME NEW q \in Runs, q # r
        PROVE  pc'[q] = pc[q] /\ batch'[q] = batch[q]
    BY <1>4, <2>1, <2>4 DEF BuildUpdates, IInv, TypeOK
  <2>5. \A q \in Runs : pc'[q] \in {"refresh", "post", "commit"} => StillTrue(q)'
    BY <1>4, <2>3, <2>4 DEF IInv, StillTrue, BuildUpdates, sheetVars, inputVars
  <2>6. \A q \in Runs : pc'[q] \in {"post", "commit"} => SoundBatch(q)'
    BY <1>4, <2>2, <2>4 DEF IInv, SoundBatch, SoundResult, BuildUpdates
  <2>7. SheetAgrees'
    BY <1>4, <2>3, <2>4 DEF IInv, SheetAgrees, RowAgrees, RefusalShows, BuildUpdates, sheetVars, inputVars
  <2> QED
    BY <1>1, <1>4, <2>5, <2>6, <2>7 DEF IInv, BuildUpdates
<1>5. ASSUME NEW r \in Runs, EndRun(r), UNCHANGED <<sheetVars, late>> PROVE IInv'
  BY <1>1, <1>5, QuietStep DEF EndRun, IInv, TypeOK
<1>6. ASSUME NEW r \in Runs, NEW i \in Isins, RefreshIsin(r, i) PROVE IInv'
  BY <1>1, <1>6, QuietStep DEF RefreshIsin, IInv
<1>7. ASSUME NEW r \in Runs, PostAnswered(r) PROVE IInv'
  BY <1>1, <1>7, PostStep DEF PostAnswered, IInv, TypeOK
<1>8. ASSUME NEW r \in Runs, AnswerLost(r) PROVE IInv'
  <2>1. \A q \in Runs : pc'[q] = "idle" \/ (/\ pc'[q] = pc[q]
                                             /\ snap'[q] = snap[q]
                                             /\ batch'[q] = batch[q])
    BY <1>8 DEF AnswerLost, RetryOrRaise, EndRun, IInv, TypeOK
  <2> QED
    BY <1>1, <1>8, <2>1, PostStep DEF AnswerLost, IInv
<1>9. ASSUME NEW r \in Runs, PostUnanswered(r) PROVE IInv'
  <2>1. \A q \in Runs : pc'[q] = "idle" \/ (/\ pc'[q] = pc[q]
                                             /\ snap'[q] = snap[q]
                                             /\ batch'[q] = batch[q])
    BY <1>9 DEF PostUnanswered, RetryOrRaise, EndRun, IInv, TypeOK
  <2>2. late' = {} /\ UNCHANGED sheetVars
    BY <1>9 DEF PostUnanswered, Quiet, IInv
  <2> QED
    BY <1>1, <2>1, <2>2, QuietStep
<1>10. ASSUME NEW b \in late, LateArrival(b) PROVE IInv'
  BY <1>10 DEF IInv
<1>11. ASSUME MayEdit, UNCHANGED <<runVars, late>> PROVE IInv'
  <2>1. \A r \in Runs : pc'[r] = "idle"
    BY <1>11 DEF MayEdit, Quiet, runVars
  <2> QED
    BY <1>1, <1>11, <2>1 DEF IInv, SheetAgrees
<1>12. ASSUME NEW i \in Isins, MarketMoves(i) PROVE IInv'
  BY <1>1, <1>12, QuietStep DEF MarketMoves, IInv, runVars
<1>13. CASE UNCHANGED vars
  BY <1>1, <1>13, QuietStep DEF vars, IInv, runVars
<1> QED
  BY <1>2, <1>3, <1>4, <1>5, <1>6, <1>7, <1>8, <1>9, <1>10, <1>11, <1>12, <1>13
     DEF Next, RunStep, CommitRun, AbortRun, EditCell, SwapRows

\* The posts of a step replace no value of J and L.
LEMMA NextKeepsInputs ==
    ASSUME IInv, [Next]_vars
    PROVE  [\A w \in Rows :
              (\/ \E r \in Runs : PostAnswered(r) \/ AnswerLost(r)
               \/ \E b \in late : LateArrival(b))
                => /\ (commission[w] # Blank) => (commission'[w] = commission[w])
                   /\ (accrued[w] # Blank) => (accrued'[w] = accrued[w])]_vars
<1>1. ASSUME NEW w \in Rows, NEW r \in Runs, PostAnswered(r) \/ AnswerLost(r)
      PROVE  /\ (commission[w] # Blank) => (commission'[w] = commission[w])
             /\ (accrued[w] # Blank) => (accrued'[w] = accrued[w])
  <2>1. pc[r] = "post" /\ Apply(batch[r])
    BY <1>1 DEF PostAnswered, AnswerLost
  <2> QED
    BY <2>1, ApplyKeeps
<1>2. late = {}
  BY DEF IInv
<1> QED
  BY <1>1, <1>2

\* Values of J and L that are filled are never replaced by a run, however many
\* runs overlap, repeat their posts or abort: docs/google-sheets.md promises it,
\* and it holds as long as the user does not edit while a run is open.
THEOREM InputsAreKept == ASSUME Quiet PROVE Spec => InputsKept
<1>1. Init => IInv
  BY InitIInv
<1>2. IInv /\ [Next]_vars => IInv'
  BY NextIInv
<1>3. Spec => []IInv
  BY <1>1, <1>2, PTL DEF Spec
<1> QED
  BY <1>3, NextKeepsInputs, PTL DEF Spec, InputsKept

\* A run that is about to report success left every row of a valid ISIN with data
\* of that ISIN, every calculated row with its J, its L and its figures, and every
\* row of a refused ISIN with the refusal, if there is a column for statuses.
THEOREM RowsAgreeAtSuccess == ASSUME Quiet PROVE Spec => []SheetAgrees
<1>1. Init => IInv
  BY InitIInv
<1>2. IInv /\ [Next]_vars => IInv'
  BY NextIInv
<1>3. IInv => SheetAgrees
  BY DEF IInv
<1> QED
  BY <1>1, <1>2, <1>3, PTL DEF Spec

-----------------------------------------------------------------------------
(***************************************************************************)
(* The order of the prices, when runs of the connection follow each other. *)
(* The user may edit and sort while a run is open, and a post the client   *)
(* gave up may still be applied, before, between and after later runs.     *)
(***************************************************************************)
Serial == \A r, s \in Runs : r = s

\* A cell shows no version of ISIN i above n.
AtMost(price, i, n) == \A v \in Versions : (price = <<i, v>>) => (v <= n)

\* Neither the worksheet cells nor one of the posts shows a version above n.
NoneAbove(cells, posts, i, n) ==
    /\ \A w \in Rows : AtMost(cells[w].price, i, n)
    /\ \A b \in posts : \A w \in b.rewritten : AtMost(b.results[w].price, i, n)

\* What is shown or on its way is not ahead of the market, nor of what an open
\* run was quoted: every cell a run writes, it writes forward.
QuotesLead(cells, posts) ==
    /\ \A i \in Isins : NoneAbove(cells, posts, i, market[i])
    /\ \A r \in Runs, i \in Isins :
         quote[r][i] \in Versions => NoneAbove(cells, posts, i, quote[r][i])

\* The prices a run is going to write are those it was quoted.
BatchIsQuoted(r) ==
    \A w \in batch[r].rewritten, i \in Isins, v \in Versions :
        (batch[r].results[w].price = <<i, v>>) => (quote[r][i] = v)

\* The inductive invariant; the order of the prices alone is not inductive, as
\* it says nothing of the quotes and posts that are to come.
OrderInv ==
    /\ TypeOK
    /\ QuotesLead(out, late)
    /\ \A r \in Runs, i \in Isins : quote[r][i] \in Versions => quote[r][i] <= market[i]
    /\ \A r \in Runs : /\ BatchIsQuoted(r)
                       /\ pc[r] \in {"idle", "read", "refresh"} => batch[r].rewritten = {}

\* Nothing is shown or quoted before the first run.
LEMMA InitOrder == Init => OrderInv
<1> SUFFICES ASSUME Init PROVE OrderInv
  OBVIOUS
<1>1. \A i \in Isins : \A n : NoneAbove(out, late, i, n)
  BY CellsAssumption DEF Init, NoneAbove, AtMost, Empty, Versions
<1>2. \A r \in Runs : batch[r].rewritten = {}
  BY DEF Init, EmptyBatch
<1>3. \A r \in Runs, i \in Isins : quote[r][i] \notin Versions
  BY LimitsAssumption DEF Init, Unknown, Versions
<1> QED
  BY <1>1, <1>2, <1>3, InitType DEF OrderInv, QuotesLead, BatchIsQuoted

\* The prices of the batch of a run, and of the worksheet after its post, are
\* not ahead of the market nor of its quotes.
LEMMA BatchLeads ==
    ASSUME OrderInv, NEW r \in Runs, NEW i \in Isins, NEW n \in Versions,
           n = market[i] \/ n = quote[r][i]
    PROVE  /\ \A w \in batch[r].rewritten : AtMost(batch[r].results[w].price, i, n)
           /\ Apply(batch[r]) => \A w \in Rows : AtMost(out'[w].price, i, n)
<1>1. ASSUME NEW w \in batch[r].rewritten, NEW v \in Versions,
             batch[r].results[w].price = <<i, v>>
      PROVE  v <= n
  <2>1. quote[r][i] = v
    BY <1>1 DEF OrderInv, BatchIsQuoted
  <2>2. v <= market[i] /\ market[i] \in Versions
    BY <2>1 DEF OrderInv, TypeOK
  <2> QED
    BY <2>1, <2>2 DEF Versions
<1>2. ASSUME NEW w \in Rows, NEW v \in Versions, Apply(batch[r]), out'[w].price = <<i, v>>
      PROVE  v <= n
  <2>1. NoneAbove(out, late, i, n)
    BY DEF OrderInv, QuotesLead
  <2>2. CASE w \in batch[r].rewritten
    BY <1>1, <1>2, <2>2 DEF Apply
  <2>3. CASE w \notin batch[r].rewritten
    <3>1. out \in [Rows -> Results]
      BY DEF OrderInv, TypeOK
    <3>2. [out[w] EXCEPT !.verdict = "invalid", !.mark = "invalid"].price = out[w].price
      BY <3>1 DEF Results
    <3>3. out'[w].price = out[w].price
      BY <1>2, <2>3, <3>2 DEF Apply
    <3> QED
      BY <1>2, <2>1, <3>3 DEF NoneAbove, AtMost
  <2> QED
    BY <2>2, <2>3
<1> QED
  BY <1>1, <1>2 DEF AtMost

\* A step that shows or sends nothing ahead of the market and the quotes, moves
\* no market back, and keeps or drops what each run was quoted and has built.
LEMMA OrderStep ==
    ASSUME OrderInv, TypeOK', QuotesLead(out', late'),
           \A i \in Isins : market'[i] >= market[i],
           \A r \in Runs :
             \/ /\ batch'[r] = batch[r] /\ quote'[r] = quote[r]
                /\ pc'[r] \in {"idle", "read", "refresh"}
                     => pc[r] \in {"idle", "read", "refresh"}
             \/ batch'[r] = EmptyBatch /\ quote'[r] = [i \in Isins |-> Unknown]
    PROVE  OrderInv'
<1>1. \A i \in Isins : market[i] \in Nat /\ market'[i] \in Nat
  BY LimitsAssumption DEF OrderInv, TypeOK, Versions
<1>2. \A r \in Runs, i \in Isins :
        quote'[r][i] \in Versions => quote'[r][i] = quote[r][i]
  BY LimitsAssumption DEF Unknown, Versions
<1>3. \A i \in Isins : NoneAbove(out', late', i, market'[i])
  BY <1>1 DEF QuotesLead, NoneAbove, AtMost, Versions
<1>4. \A r \in Runs, i \in Isins :
        quote'[r][i] \in Versions => /\ NoneAbove(out', late', i, quote'[r][i])
                                     /\ quote'[r][i] <= market'[i]
  BY <1>1, <1>2 DEF QuotesLead, OrderInv, Versions
<1>5. \A r \in Runs : /\ BatchIsQuoted(r)'
                      /\ pc'[r] \in {"idle", "read", "refresh"} => batch'[r].rewritten = {}
  BY DEF OrderInv, BatchIsQuoted, EmptyBatch
<1> QED
  BY <1>3, <1>4, <1>5 DEF OrderInv, QuotesLead

\* What RetryOrRaise and EndRun leave of the runs.
LEMMA RunKeepsOrDrops ==
    ASSUME TypeOK, NEW s \in Runs, RetryOrRaise(s) \/ EndRun(s)
    PROVE  \A r \in Runs :
             \/ batch'[r] = batch[r] /\ quote'[r] = quote[r] /\ pc'[r] = pc[r]
             \/ batch'[r] = EmptyBatch /\ quote'[r] = [i \in Isins |-> Unknown]
  BY DEF RetryOrRaise, EndRun, TypeOK

\* Every step keeps the order, when runs follow each other.
LEMMA NextOrder ==
    ASSUME Serial, OrderInv, [Next]_vars PROVE OrderInv'
<1>0. TypeOK /\ TypeOK' /\ QuotesLead(out, late)
  BY NextType DEF OrderInv
<1>1. ASSUME UNCHANGED <<out, late, quote, batch>>, 
             \A i \in Isins : market'[i] >= market[i],
             \A r \in Runs : pc'[r] \in {"idle", "read", "refresh"}
                               => pc[r] \in {"idle", "read", "refresh"}
      PROVE  OrderInv'
  BY <1>0, <1>1, OrderStep
<1>2. ASSUME UNCHANGED market PROVE \A i \in Isins : market'[i] >= market[i]
  BY <1>0, <1>2, LimitsAssumption DEF TypeOK, Versions
<1>3. ASSUME NEW r \in Runs, StartRun(r) \/ ReadRows(r) PROVE OrderInv'
  BY <1>0, <1>1, <1>2, <1>3 DEF StartRun, ReadRows, TypeOK, sheetVars, worldVars
<1>4. ASSUME NEW w \in Rows, EditCell(w) PROVE OrderInv'
  BY <1>1, <1>2, <1>4 DEF EditCell, runVars
<1>5. ASSUME NEW i \in Isins, MarketMoves(i) PROVE OrderInv'
  <2>1. \A j \in Isins : market'[j] >= market[j]
    BY <1>0, <1>5, LimitsAssumption DEF MarketMoves, TypeOK, Versions
  <2> QED
    BY <1>1, <1>5, <2>1 DEF MarketMoves, sheetVars, runVars
<1>6. CASE UNCHANGED vars
  BY <1>1, <1>2, <1>6 DEF vars, sheetVars, runVars, worldVars
<1>7. ASSUME NEW v \in Rows, NEW w \in Rows, SwapRows(v, w) PROVE OrderInv'
  <2>1. \A u \in Rows : \E x \in Rows : out'[u] = out[x]
    BY <1>7 DEF SwapRows
  <2>2. UNCHANGED <<late, quote, batch, pc, market>>
    BY <1>7 DEF SwapRows, runVars
  <2>3. QuotesLead(out', late')
    BY <1>0, <2>1, <2>2 DEF QuotesLead, NoneAbove
  <2> QED
    BY <1>0, <1>2, <2>2, <2>3, OrderStep
<1>8. ASSUME NEW r \in Runs, EndRun(r), UNCHANGED <<sheetVars, late, worldVars>>
      PROVE  OrderInv'
  <2>1. UNCHANGED <<out, late, market>>
    BY <1>8 DEF sheetVars, worldVars
  <2> QED
    BY <1>0, <1>2, <1>8, <2>1, RunKeepsOrDrops, OrderStep
<1>9. ASSUME NEW b \in late, LateArrival(b) PROVE OrderInv'
  <2>1. late' \subseteq late /\ UNCHANGED <<quote, batch, pc, market>>
    BY <1>9 DEF LateArrival, runVars, worldVars
  <2>2. \A w \in Rows : \/ w \in b.rewritten /\ out'[w].price = b.results[w].price
                        \/ out'[w].price = out[w].price
    <3>1. \A w \in Rows : [out[w] EXCEPT !.verdict = "invalid", !.mark = "invalid"].price
                            = out[w].price
      BY <1>0 DEF TypeOK, Results
    <3> QED
      BY <1>9, <3>1 DEF LateArrival, Apply
  <2>3. QuotesLead(out', late')
    BY <1>0, <2>1, <2>2 DEF QuotesLead, NoneAbove
  <2> QED
    BY <1>0, <1>2, <2>1, <2>3, OrderStep
<1>10. ASSUME NEW r \in Runs, PostAnswered(r) \/ AnswerLost(r) PROVE OrderInv'
  <2>1. Apply(batch[r]) /\ UNCHANGED <<late, market>> /\ pc[r] = "post"
    BY <1>10 DEF PostAnswered, AnswerLost, worldVars
  <2>2. \A s \in Runs :
          \/ /\ batch'[s] = batch[s] /\ quote'[s] = quote[s]
             /\ pc'[s] = pc[s] \/ pc'[s] = "commit"
          \/ batch'[s] = EmptyBatch /\ quote'[s] = [i \in Isins |-> Unknown]
    BY <1>0, <1>10, RunKeepsOrDrops DEF PostAnswered, AnswerLost, TypeOK
  <2>3. QuotesLead(out', late')
    <3>1. ASSUME NEW i \in Isins, NEW n \in Versions, n = market[i] \/ n = quote[r][i]
          PROVE  NoneAbove(out', late', i, n)
      BY <1>0, <2>1, <3>1, BatchLeads DEF QuotesLead, NoneAbove
    <3>2. \A i \in Isins : market[i] \in Versions
      BY <1>0 DEF TypeOK
    <3> QED
      BY <3>1, <3>2 DEF QuotesLead, Serial
  <2> QED
    BY <1>0, <1>2, <2>1, <2>2, <2>3, OrderStep
<1>11. ASSUME NEW r \in Runs, PostUnanswered(r) PROVE OrderInv'
  <2>1. RetryOrRaise(r) /\ UNCHANGED <<out, market>> /\ late' \subseteq late \union {batch[r]}
    BY <1>11 DEF PostUnanswered, sheetVars, worldVars
  <2>2. QuotesLead(out', late')
    <3>1. ASSUME NEW i \in Isins, NEW n \in Versions, n = market[i] \/ n = quote[r][i]
          PROVE  NoneAbove(out', late', i, n)
      BY <1>0, <2>1, <3>1, BatchLeads DEF QuotesLead, NoneAbove
    <3>2. \A i \in Isins : market[i] \in Versions
      BY <1>0 DEF TypeOK
    <3> QED
      BY <3>1, <3>2 DEF QuotesLead, Serial
  <2> QED
    BY <1>0, <1>2, <2>1, <2>2, RunKeepsOrDrops, OrderStep
<1>12. ASSUME NEW r \in Runs, NEW i \in Isins, RefreshIsin(r, i) PROVE OrderInv'
  <2>1. PICK q \in {market[i], NoOffer, Failed} : quote' = [quote EXCEPT ![r][i] = q]
    BY <1>12 DEF RefreshIsin
  <2>2. UNCHANGED <<out, late, batch, pc, market>> /\ pc[r] = "refresh"
    BY <1>12 DEF RefreshIsin, sheetVars, worldVars
  <2>3. \A s \in Runs, j \in Isins :
          quote'[s][j] = IF s = r /\ j = i THEN q ELSE quote[s][j]
    BY <1>0, <2>1 DEF TypeOK
  <2>4. q \in Versions => q = market[i]
    BY LimitsAssumption DEF NoOffer, Failed, Versions
  <2>5. market[i] \in Nat
    BY <1>0, LimitsAssumption DEF TypeOK, Versions
  <2>6. \A s \in Runs, j \in Isins :
          quote'[s][j] \in Versions => /\ NoneAbove(out, late, j, quote'[s][j])
                                       /\ quote'[s][j] <= market[j]
    BY <1>0, <2>3, <2>4, <2>5 DEF OrderInv, QuotesLead
  <2>7. \A s \in Runs : BatchIsQuoted(s)'
    BY <2>2, <2>3 DEF OrderInv, BatchIsQuoted
  <2> QED
    BY <1>0, <2>2, <2>6, <2>7 DEF OrderInv, QuotesLead
<1>13. ASSUME NEW r \in Runs, BuildUpdates(r) PROVE OrderInv'
  <2>1. PICK answered \in SUBSET Rows, parsed \in SUBSET Rows, usable \in SUBSET Rows :
          batch' = [batch EXCEPT ![r] = BatchFor(r, answered, parsed, usable)]
    BY <1>13 DEF BuildUpdates
  <2>2. UNCHANGED <<out, late, quote, market>> /\ pc' = [pc EXCEPT ![r] = "post"]
    BY <1>13 DEF BuildUpdates, sheetVars, worldVars
  <2>3. \A s \in Runs : s = r
    BY DEF Serial
  <2>4. batch'[r] = BatchFor(r, answered, parsed, usable) /\ pc'[r] = "post"
    BY <1>0, <2>1, <2>2 DEF TypeOK
  <2>5. BatchIsQuoted(r)'
    <3> SUFFICES ASSUME NEW w \in ValidRows(snap[r]), NEW i \in Isins, NEW v \in Versions,
                        ResultFor(r, w, answered, parsed, usable).price = <<i, v>>
                 PROVE  quote[r][i] = v
      BY <2>2, <2>4 DEF BatchIsQuoted, BatchFor, ValidRows
    <3> DEFINE q == quote[r][snap[r].isin[w]]
    <3>1. Blank # <<i, v>>
      BY CellsAssumption DEF Versions
    <3>2. q \in Versions /\ <<snap[r].isin[w], q>> = <<i, v>>
      BY <3>1 DEF ResultFor
    <3> QED
      BY <3>2
  <2> QED
    BY <1>0, <2>2, <2>3, <2>4, <2>5 DEF OrderInv, QuotesLead
<1> QED
  BY <1>3, <1>4, <1>5, <1>6, <1>7, <1>8, <1>9, <1>10, <1>11, <1>12, <1>13
     DEF Next, RunStep, CommitRun, AbortRun

\* A post writes no row back to an older price.
LEMMA PostsForward ==
    ASSUME OrderInv, NEW r \in Runs, PostAnswered(r) \/ AnswerLost(r), NEW w \in Rows,
           out[w].price # Blank, out'[w].price # Blank, TypeOK',
           out[w].price[1] = isin[w], out'[w].price[1] = isin[w]
    PROVE  out'[w].price[2] >= out[w].price[2]
<1>1. Apply(batch[r])
  BY DEF PostAnswered, AnswerLost
<1>2. /\ out \in [Rows -> Results] /\ out' \in [Rows -> Results]
      /\ batch[r] \in Batches
  BY DEF OrderInv, TypeOK
<1>3. PICK i \in Isins, n \in Versions : out[w].price = <<i, n>>
  BY <1>2 DEF Results, Shown
<1>4. PICK v \in Versions : out'[w].price = <<i, v>>
  BY <1>2, <1>3 DEF Results, Shown
<1>5. CASE w \in batch[r].rewritten
  <2>1. batch[r].results[w].price = <<i, v>>
    BY <1>1, <1>4, <1>5 DEF Apply
  <2>2. quote[r][i] = v
    BY <1>5, <2>1 DEF OrderInv, BatchIsQuoted
  <2>3. n <= v
    BY <1>3, <2>2 DEF OrderInv, QuotesLead, NoneAbove, AtMost
  <2> QED
    BY <1>3, <1>4, <2>3 DEF Versions
<1>6. CASE w \notin batch[r].rewritten
  <2>1. [out[w] EXCEPT !.verdict = "invalid", !.mark = "invalid"].price = out[w].price
    BY <1>2 DEF Results
  <2>2. out'[w].price = out[w].price
    BY <1>1, <1>6, <2>1 DEF Apply
  <2> QED
    BY <1>3, <2>2 DEF Versions
<1> QED
  BY <1>5, <1>6

\* With one run at a time the posts of the runs, answered, repeated or with their
\* answer lost, never replace the price of a row by older market data, whatever
\* the user edits meanwhile and whatever posts given up earlier arrive in between.
\* What a post given up does to the worksheet when it does arrive is not covered.
THEOREM PricesMoveForward == ASSUME Serial PROVE Spec => NeverOlder
<1>1. Init => OrderInv
  BY InitOrder
<1>2. OrderInv /\ [Next]_vars => OrderInv'
  BY NextOrder
<1>3. Spec => []OrderInv
  BY <1>1, <1>2, PTL DEF Spec
<1>4. OrderInv /\ OrderInv' /\ [Next]_vars =>
        [\A w \in Rows :
           (/\ \E r \in Runs : PostAnswered(r) \/ AnswerLost(r)
            /\ out[w].price # Blank /\ out'[w].price # Blank
            /\ out[w].price[1] = isin[w] /\ out'[w].price[1] = isin[w])
             => (out'[w].price[2] >= out[w].price[2])]_vars
  BY PostsForward DEF OrderInv
<1> QED
  BY <1>3, <1>4, PTL DEF Spec, NeverOlder
=============================================================================
