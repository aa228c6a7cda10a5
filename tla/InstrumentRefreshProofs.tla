----------------------- MODULE InstrumentRefreshProofs -----------------------
(* Proofs about InstrumentRefresh: stored market data is consistent unless   *)
(* refreshes overtake one another, and nothing that was stored is lost.      *)
EXTENDS InstrumentRefresh, TLAPS

\* The request refreshes its ISIN; MOEX has answered it.
Refreshing(r) ==
    request[r].step \in {"fetching", "answered", "flushed", "compared", "raised", "marking"}
HasAnswer(r) == request[r].step \in {"answered", "flushed", "compared"}

\* What goes with each step of a request.
Shape(r) ==
    /\ request[r].step = "idle" => request[r].kind = "none"
    /\ request[r].step = "next" => request[r].kind \in {"all", "sheet"}
    /\ request[r].step = "event" => request[r].kind = "api"
    /\ Refreshing(r) => request[r].kind \in {"api", "all", "sheet"}
    /\ request[r].step \in {"stub", "stubbed"} =>
         request[r].kind = "lot" /\ request[r].seen[request[r].isin] = Absent
    /\ request[r].step \notin {"idle", "next", "event"} =>
         request[r].isin \in Isins /\ request[r].isin \notin request[r].todo
Shapes == \A r \in Requests : Shape(r)

\* An answer has a time of the past; what was compared is of the answer.
AnswerIsPast(r) ==
    /\ HasAnswer(r) => request[r].received \in 1..clock
    /\ request[r].step = "compared" =>
         request[r].stamp \in 1..clock /\ request[r].new \subseteq request[r].calendar
Answers == \A r \in Requests : AnswerIsPast(r)

\* A row that is not there is blank.
AbsentIsBlank == \A i \in Isins : instrument[i].known = "absent" => instrument[i] = Absent

\* What was read of a row is the row, unless the request was overtaken there.
IsFresh(r, i) ==
    HasRead(r, i) /\ i \notin request[r].overtaken => request[r].seen[i] = instrument[i]
ReadsAreFresh == \A r \in Requests, i \in Isins : IsFresh(r, i)

\* Instruments stay.
Stays(r, i) == request[r].seen[i].known # "absent" => instrument[i].known # "absent"
RowsStay == \A r \in Requests, i \in Isins : Stays(r, i)

\* What was found new is new, unless the request was overtaken.
IsNew(r) ==
    request[r].step = "compared" /\ request[r].isin \notin request[r].overtaken =>
        request[r].new \cap DOMAIN actions[request[r].isin] = {}
NewIsNew == \A r \in Requests : IsNew(r)

\* No two snapshots of an ISIN, stored or still to be stored, have one time.
StoredTimesDiffer == \A i \in Isins : \A s, t \in snapshots[i] : s.received = t.received => s = t
AnswerDiffers(r) ==
    HasAnswer(r) => \A s \in snapshots[request[r].isin] : s.received # request[r].received
BothDiffer(r, q) ==
    r # q /\ HasAnswer(r) /\ HasAnswer(q) => request[q].received # request[r].received
AnswersDiffer == \A r, q \in Requests : BothDiffer(r, q)
AllAnswersDiffer == \A r \in Requests : AnswerDiffers(r)
TimesDiffer == StoredTimesDiffer /\ AllAnswersDiffer /\ AnswersDiffer

\* An answer is newer than what is stored, unless the request was overtaken.
AnswerIsNewest(r) ==
    HasAnswer(r) /\ request[r].isin \notin request[r].overtaken =>
        \A s \in snapshots[request[r].isin] : s.received < request[r].received
AnswersAreNewest == \A r \in Requests : AnswerIsNewest(r)

\* Who has inserted a bare instrument keeps all others from writing it.
HasNoRow(r) == request[r].step = "stubbed" => instrument[request[r].isin].known = "absent"
Excludes(r, q) ==
    r # q /\ request[r].step = "stubbed" /\ request[q].isin = request[r].isin =>
        request[q].step \notin {"stubbed", "flushed", "compared"}
StubsHaveNoRow == \A r \in Requests : HasNoRow(r)
StubsExclude == \A r, q \in Requests : Excludes(r, q)
StubsAreAlone == StubsHaveNoRow /\ StubsExclude

\* Only a refresh makes snapshots.
SnapshotsHaveRows ==
    \A i \in Isins : snapshots[i] # {} => instrument[i].known = "quoted"

\* Who has committed something, and not yet queued the event for it.
Announces(r) == request[r].step = "event" \/ request[r].kind = "all"
EventIsPending == unsynced => excused \/ \E r \in Requests : Announces(r)

\* The bodies of two invariants, for one request.
IsExplained(r) ==
    request[r].step = "broken" =>
        \/ request[r].isin \in request[r].overtaken
        \/ request[r].new \cap request[r].repeated # {}
MarksItsOwn(r) ==
    request[r].step = "marking" /\ request[r].isin \notin request[r].overtaken \cup torn =>
        \A s \in snapshots[request[r].isin] : s.received = request[r].received =>
            /\ s.quote.face = request[r].seen[request[r].isin].face
            /\ s.quote.day = request[r].seen[request[r].isin].day

IInv ==
    /\ TypeOK
    /\ Shapes /\ Answers /\ AbsentIsBlank
    /\ ReadsAreFresh /\ RowsStay /\ NewIsNew
    /\ TimesDiffer /\ AnswersAreNewest
    /\ StubsAreAlone /\ SnapshotsHaveRows
    /\ EventIsPending
    /\ RowFollowsNewestSnapshot /\ RefusalsAreExplained /\ FailureMarksItsOwn

-----------------------------------------------------------------------------
\* What a commit leaves of another request.
Same(q) ==
    /\ request'[q].kind = request[q].kind /\ request'[q].step = request[q].step
    /\ request'[q].isin = request[q].isin /\ request'[q].todo = request[q].todo
    /\ request'[q].seen = request[q].seen /\ request'[q].quote = request[q].quote
    /\ request'[q].calendar = request[q].calendar /\ request'[q].received = request[q].received
    /\ request'[q].new = request[q].new /\ request'[q].stamp = request[q].stamp
    /\ request'[q].repeated = request[q].repeated

\* A commit overtakes whoever has read its row, and changes nothing else of the others.
LEMMA OvertakingOthers ==
    ASSUME request \in [Requests -> RequestType], NEW r \in Requests, NEW i \in Isins,
           NEW own \in RequestType, request' = Overtaking(r, i, own)
    PROVE  /\ request' \in [Requests -> RequestType]
           /\ request'[r] = own
           /\ \A q \in Requests \ {r} :
                /\ Same(q)
                /\ request[q].overtaken \subseteq request'[q].overtaken
                /\ HasRead(q, i) => i \in request'[q].overtaken
  <1>1. \A q \in Requests : [request[q] EXCEPT !.overtaken = request[q].overtaken \cup {i}] \in RequestType
    BY DEF RequestType
  <1>2. request' \in [Requests -> RequestType]
    <2> HIDE DEF RequestType
    <2> QED
      BY <1>1 DEF Overtaking
  <1>3. request'[r] = own
    BY DEF Overtaking
  <1>4. ASSUME NEW q \in Requests \ {r}
        PROVE  /\ Same(q)
               /\ request[q].overtaken \subseteq request'[q].overtaken
               /\ HasRead(q, i) => i \in request'[q].overtaken
    <2>1. CASE HasRead(q, i)
      <3>1. request'[q] = [request[q] EXCEPT !.overtaken = request[q].overtaken \cup {i}]
        BY <2>1 DEF Overtaking
      <3> QED
        BY <3>1 DEF Same, RequestType
    <2>2. CASE ~HasRead(q, i)
      <3>1. request'[q] = request[q]
        BY <2>2 DEF Overtaking
      <3> QED
        BY <3>1, <2>2 DEF Same
    <2> QED
      BY <2>1, <2>2
  <1> QED
    BY <1>2, <1>3, <1>4

\* A request that has nothing to do is well typed.
LEMMA IdleType == Idle \in RequestType
  BY QuotesAssumption DEF Idle, RequestType, Absent, Row

\* A request that is done with an instrument is well typed.
LEMMA ProceedType ==
    ASSUME TypeOK, NEW r \in Requests, request[r].isin \in Isins
    PROVE  Proceed(r) \in RequestType
  <1>1. [request[r].seen EXCEPT ![request[r].isin] = Absent] \in [Isins -> Row]
    BY DEF TypeOK, RequestType, Absent, Row
  <1>2. request[r] \in RequestType
    BY DEF TypeOK
  <1>3. CASE request[r].kind \in {"all", "sheet"}
    <2>1. Proceed(r) = [kind |-> request[r].kind, step |-> "next", isin |-> NoIsin,
                        todo |-> request[r].todo,
                        seen |-> [request[r].seen EXCEPT ![request[r].isin] = Absent],
                        quote |-> NoQuote, calendar |-> NoCalendar, repeated |-> {},
                        received |-> 0, new |-> {},
                        stamp |-> 0, poisoned |-> request[r].poisoned,
                        overtaken |-> request[r].overtaken \ {request[r].isin}]
      BY <1>3 DEF Proceed, Idle
    <2>2. request[r].overtaken \ {request[r].isin} \in SUBSET Isins
      BY <1>2 DEF RequestType
    <2> QED
      BY <1>1, <1>2, <2>1, <2>2 DEF RequestType
  <1>4. CASE request[r].kind \notin {"all", "sheet"}
    BY <1>4, IdleType DEF Proceed
  <1> QED
    BY <1>3, <1>4

\* A marked snapshot is a snapshot.
LEMMA MarkType ==
    ASSUME NEW S, NEW T, NEW s \in [received : S, quote : T, error : BOOLEAN]
    PROVE  [s EXCEPT !.error = TRUE] \in [received : S, quote : T, error : BOOLEAN]
  OBVIOUS

\* An action that changes nothing but one request, the time and the history is well
\* typed when the request is.
LEMMA OneRequest ==
    ASSUME TypeOK, NEW r \in Requests, NEW new \in RequestType,
           request' = [request EXCEPT ![r] = new],
           HasAnswer(r)' => new.quote # NoQuote /\ new.calendar # NoCalendar,
           UNCHANGED <<marketVars, torn>>, clock' \in clock..MaxClock,
           unsynced' \in BOOLEAN, excused' \in BOOLEAN
    PROVE  TypeOK'
  <1>1. request' \in [Requests -> RequestType] /\ request'[r] = new
    BY DEF TypeOK
  <1>2. \A q \in Requests : request'[q].step \in {"answered", "flushed", "compared"} =>
          request'[q].quote # NoQuote /\ request'[q].calendar # NoCalendar
    BY <1>1 DEF TypeOK, HasAnswer
  <1>3. clock' \in Nat /\ clock \in Nat /\ 1..clock \subseteq 1..clock' /\ clock' \in 0..MaxClock
    BY ClockAssumption DEF TypeOK
  <1>4. snapshots' \in [Isins -> SUBSET [received : 1..clock', quote : Quotes, error : BOOLEAN]]
    BY <1>3 DEF TypeOK, marketVars
  <1>5. /\ DOMAIN actions' = Isins
        /\ \A i \in Isins : /\ DOMAIN actions'[i] \subseteq UNION Calendars
                            /\ \A a \in DOMAIN actions'[i] : actions'[i][a] \in 1..clock'
    BY <1>3 DEF TypeOK, marketVars
  <1> QED
    BY <1>1, <1>2, <1>3, <1>4, <1>5 DEF TypeOK, marketVars

\* Every step keeps the types.
LEMMA NextType == IInv /\ [RefreshNext]_refreshVars => TypeOK'
  <1> SUFFICES ASSUME IInv, [RefreshNext]_refreshVars PROVE TypeOK'
    OBVIOUS
  <1>1. ASSUME NEW r \in Requests, NEW i \in Isins, BeginRefresh(r, i) PROVE TypeOK'
    <2> USE DEF IInv, TypeOK
    <2> DEFINE new == [Idle EXCEPT !.kind = "api", !.step = "fetching", !.isin = i,
                           !.seen = [Idle.seen EXCEPT ![i] = instrument[i]]]
    <2>a. [Idle.seen EXCEPT ![i] = instrument[i]] \in [Isins -> Row]
      BY IdleType DEF RequestType
    <2>1. new \in RequestType
      BY <2>a, IdleType DEF RequestType
    <2>2. request' = [request EXCEPT ![r] = new]
      BY <1>1 DEF BeginRefresh
    <2>3. HasAnswer(r)' => new.quote # NoQuote /\ new.calendar # NoCalendar
      BY <1>1, <2>2, QuotesAssumption DEF BeginRefresh, HasAnswer, Idle, RequestType, Proceed
    <2>4. /\ UNCHANGED <<marketVars, torn>> /\ clock' \in clock..MaxClock
          /\ unsynced' \in BOOLEAN /\ excused' \in BOOLEAN
      BY <1>1, ClockAssumption DEF BeginRefresh, historyVars
    <2> HIDE DEF new
    <2> QED
      BY <2>1, <2>2, <2>3, <2>4, OneRequest
  <1>2. ASSUME NEW r \in Requests, NEW i \in Isins, BeginBare(r, i) PROVE TypeOK'
    <2> USE DEF IInv, TypeOK
    <2> DEFINE new == [Idle EXCEPT !.kind = "lot", !.step = "stub", !.isin = i]
    <2>1. new \in RequestType
      BY IdleType DEF RequestType
    <2>2. request' = [request EXCEPT ![r] = new]
      BY <1>2 DEF BeginBare
    <2>3. HasAnswer(r)' => new.quote # NoQuote /\ new.calendar # NoCalendar
      BY <1>2, <2>2, QuotesAssumption DEF BeginBare, HasAnswer, Idle, RequestType, Proceed
    <2>4. /\ UNCHANGED <<marketVars, torn>> /\ clock' \in clock..MaxClock
          /\ unsynced' \in BOOLEAN /\ excused' \in BOOLEAN
      BY <1>2, ClockAssumption DEF BeginBare, historyVars
    <2> HIDE DEF new
    <2> QED
      BY <2>1, <2>2, <2>3, <2>4, OneRequest
  <1>3. ASSUME NEW r \in Requests, BeginAll(r) PROVE TypeOK'
    <2> USE DEF IInv, TypeOK
    <2> DEFINE new == [Idle EXCEPT !.kind = "all", !.step = "next", !.seen = instrument,
                           !.todo = {i \in Isins : instrument[i].known # "absent"}]
    <2>1. new \in RequestType
      BY IdleType DEF RequestType
    <2>2. request' = [request EXCEPT ![r] = new]
      BY <1>3 DEF BeginAll
    <2>3. HasAnswer(r)' => new.quote # NoQuote /\ new.calendar # NoCalendar
      BY <1>3, <2>2, QuotesAssumption DEF BeginAll, HasAnswer, Idle, RequestType, Proceed
    <2>4. /\ UNCHANGED <<marketVars, torn>> /\ clock' \in clock..MaxClock
          /\ unsynced' \in BOOLEAN /\ excused' \in BOOLEAN
      BY <1>3, ClockAssumption DEF BeginAll, historyVars
    <2> HIDE DEF new
    <2> QED
      BY <2>1, <2>2, <2>3, <2>4, OneRequest
  <1>4. ASSUME NEW r \in Requests, NEW isins \in SUBSET Isins,
              BeginSheet(r, isins)
       PROVE  TypeOK'
    <2> USE DEF IInv, TypeOK
    <2> DEFINE new == [Idle EXCEPT !.kind = "sheet", !.step = "next", !.todo = isins]
    <2>1. new \in RequestType
      BY IdleType DEF RequestType
    <2>2. request' = [request EXCEPT ![r] = new]
      BY <1>4 DEF BeginSheet
    <2>3. HasAnswer(r)' => new.quote # NoQuote /\ new.calendar # NoCalendar
      BY <1>4, <2>2, QuotesAssumption DEF BeginSheet, HasAnswer, Idle, RequestType, Proceed
    <2>4. /\ UNCHANGED <<marketVars, torn>> /\ clock' \in clock..MaxClock
          /\ unsynced' \in BOOLEAN /\ excused' \in BOOLEAN
      BY <1>4, ClockAssumption DEF BeginSheet, historyVars
    <2> HIDE DEF new
    <2> QED
      BY <2>1, <2>2, <2>3, <2>4, OneRequest
  <1>5. ASSUME NEW r \in Requests, NEW i \in Isins, NextIsin(r, i) PROVE TypeOK'
    <2> USE DEF IInv, TypeOK
    <2> DEFINE todo == request[r].todo \ {i}
               seen == [request[r].seen EXCEPT ![i] =
                          IF request[r].kind = "all" THEN request[r].seen[i] ELSE instrument[i]]
               new == [request[r] EXCEPT !.step = "fetching", !.isin = i, !.todo = todo, !.seen = seen]
    <2>a. request[r] \in RequestType /\ instrument[i] \in Row
      OBVIOUS
    <2>b. todo \in SUBSET Isins /\ seen \in [Isins -> Row]
      BY <2>a DEF RequestType
    <2>2. request' = [request EXCEPT ![r] = new]
      BY <1>5 DEF NextIsin
    <2>1. new \in RequestType
      <3> HIDE DEF todo, seen, TypeOK, IInv
      <3> QED
        BY <2>a, <2>b DEF RequestType
    <2>3. HasAnswer(r)' => new.quote # NoQuote /\ new.calendar # NoCalendar
      BY <1>5, <2>2, QuotesAssumption DEF NextIsin, HasAnswer, Idle, RequestType, Proceed
    <2>4. /\ UNCHANGED <<marketVars, torn>> /\ clock' \in clock..MaxClock
          /\ unsynced' \in BOOLEAN /\ excused' \in BOOLEAN
      BY <1>5, ClockAssumption DEF NextIsin, historyVars
    <2> HIDE DEF new
    <2> QED
      BY <2>1, <2>2, <2>3, <2>4, OneRequest
  <1>6. ASSUME NEW r \in Requests, GiveUpBatch(r) PROVE TypeOK'
    <2> USE DEF IInv, TypeOK
    <2> DEFINE new == Idle
    <2>1. new \in RequestType
      BY IdleType
    <2>2. request' = [request EXCEPT ![r] = new]
      BY <1>6 DEF GiveUpBatch
    <2>3. HasAnswer(r)' => new.quote # NoQuote /\ new.calendar # NoCalendar
      BY <1>6, <2>2, QuotesAssumption DEF GiveUpBatch, HasAnswer, Idle, RequestType, Proceed
    <2>4. /\ UNCHANGED <<marketVars, torn>> /\ clock' \in clock..MaxClock
          /\ unsynced' \in BOOLEAN /\ excused' \in BOOLEAN
      BY <1>6, ClockAssumption DEF GiveUpBatch, historyVars
    <2> HIDE DEF new
    <2> QED
      BY <2>1, <2>2, <2>3, <2>4, OneRequest
  <1>7. ASSUME NEW r \in Requests, EndBatch(r) PROVE TypeOK'
    <2> USE DEF IInv, TypeOK
    <2> DEFINE new == Idle
    <2>1. new \in RequestType
      BY IdleType
    <2>2. request' = [request EXCEPT ![r] = new]
      BY <1>7 DEF EndBatch
    <2>3. HasAnswer(r)' => new.quote # NoQuote /\ new.calendar # NoCalendar
      BY <1>7, <2>2, QuotesAssumption DEF EndBatch, HasAnswer, Idle, RequestType, Proceed
    <2>4. /\ UNCHANGED <<marketVars, torn>> /\ clock' \in clock..MaxClock
          /\ unsynced' \in BOOLEAN /\ excused' \in BOOLEAN
      BY <1>7, ClockAssumption DEF EndBatch, historyVars
    <2> HIDE DEF new
    <2> QED
      BY <2>1, <2>2, <2>3, <2>4, OneRequest
  <1>8. ASSUME NEW r \in Requests, NEW quote \in Quotes, NEW calendar \in Calendars,
              NEW repeated \in SUBSET calendar, ClientAnswers(r, quote, calendar, repeated)
       PROVE  TypeOK'
    <2> USE DEF IInv, TypeOK
    <2> DEFINE new == [request[r] EXCEPT !.step = "answered", !.received = clock + 1,
                                       !.quote = quote, !.calendar = calendar,
                                       !.repeated = repeated]
    <2>a. request[r] \in RequestType /\ clock + 1 \in Nat
      BY ClockAssumption
    <2>1. new \in RequestType
      BY <2>a DEF RequestType
    <2>2. request' = [request EXCEPT ![r] = new]
      BY <1>8 DEF ClientAnswers
    <2>3. HasAnswer(r)' => new.quote # NoQuote /\ new.calendar # NoCalendar
      BY <1>8, <2>2, QuotesAssumption DEF ClientAnswers, HasAnswer, Idle, RequestType, Proceed
    <2>4. /\ UNCHANGED <<marketVars, torn>> /\ clock' \in clock..MaxClock
          /\ unsynced' \in BOOLEAN /\ excused' \in BOOLEAN
      BY <1>8, ClockAssumption DEF ClientAnswers, historyVars
    <2> HIDE DEF new
    <2> QED
      BY <2>1, <2>2, <2>3, <2>4, OneRequest
  <1>9. ASSUME NEW r \in Requests, ClientRaises(r) PROVE TypeOK'
    <2> USE DEF IInv, TypeOK
    <2> DEFINE new == [request[r] EXCEPT !.step = "raised"]
    <2>a. request[r] \in RequestType
      OBVIOUS
    <2>1. new \in RequestType
      BY <2>a DEF RequestType
    <2>2. request' = [request EXCEPT ![r] = new]
      BY <1>9 DEF ClientRaises
    <2>3. HasAnswer(r)' => new.quote # NoQuote /\ new.calendar # NoCalendar
      BY <1>9, <2>2, QuotesAssumption DEF ClientRaises, HasAnswer, Idle, RequestType, Proceed
    <2>4. /\ UNCHANGED <<marketVars, torn>> /\ clock' \in clock..MaxClock
          /\ unsynced' \in BOOLEAN /\ excused' \in BOOLEAN
      BY <1>9, ClockAssumption DEF ClientRaises, historyVars
    <2> HIDE DEF new
    <2> QED
      BY <2>1, <2>2, <2>3, <2>4, OneRequest
  <1>10. ASSUME NEW r \in Requests, Flush(r) PROVE TypeOK'
    <2> USE DEF IInv, TypeOK
    <2> DEFINE after ==
         IF request[r].seen[request[r].isin].known = "absent" /\ instrument[request[r].isin].known # "absent"
         THEN "broken" ELSE IF request[r].step = "stub" THEN "stubbed" ELSE "flushed"
               new == [request[r] EXCEPT !.step = after]
    <2>a. request[r] \in RequestType /\ after \in {"broken", "stubbed", "flushed"}
      OBVIOUS
    <2>2. request' = [request EXCEPT ![r] = new]
      BY <1>10 DEF Flush
    <2>1. new \in RequestType
      <3> HIDE DEF after, TypeOK, IInv
      <3> QED
        BY <2>a DEF RequestType
    <2>3. HasAnswer(r)' => new.quote # NoQuote /\ new.calendar # NoCalendar
      BY <1>10, <2>2, QuotesAssumption DEF Flush, HasAnswer, Idle, RequestType, Proceed
    <2>4. /\ UNCHANGED <<marketVars, torn>> /\ clock' \in clock..MaxClock
          /\ unsynced' \in BOOLEAN /\ excused' \in BOOLEAN
      BY <1>10, ClockAssumption DEF Flush, historyVars
    <2> HIDE DEF new
    <2> QED
      BY <2>1, <2>2, <2>3, <2>4, OneRequest
  <1>11. ASSUME NEW r \in Requests, CommitBare(r) PROVE TypeOK'
    <2> USE DEF IInv, TypeOK
    <2>1. request[r].isin \in Isins
      BY <1>11 DEF CommitBare, Shapes, Shape
    <2>2. /\ request' \in [Requests -> RequestType]
          /\ request'[r] = Idle /\ \A q \in Requests \ {r} : Same(q)
      BY <2>1, <1>11, OvertakingOthers, IdleType DEF CommitBare
    <2>3. instrument' \in [Isins -> Row]
      BY <1>11 DEF CommitBare, Bare, Row
    <2>4. ASSUME NEW q \in Requests, request'[q].step \in {"answered", "flushed", "compared"}
          PROVE  request'[q].quote # NoQuote /\ request'[q].calendar # NoCalendar
      <3>1. q # r
        BY <2>2, <2>4 DEF Idle
      <3> QED
        BY <3>1, <2>2, <2>4 DEF Same
    <2> QED
      BY <2>2, <2>3, <2>4, <1>11 DEF CommitBare, historyVars
  <1>12. ASSUME NEW r \in Requests, Compare(r) PROVE TypeOK'
    <2> USE DEF IInv, TypeOK
    <2> DEFINE new == [request[r] EXCEPT !.step = "compared", !.stamp = clock + 1,
                             !.new = request[r].calendar \ DOMAIN actions[request[r].isin]]
    <2>a. /\ request[r] \in RequestType /\ clock + 1 \in Nat
          /\ request[r].calendar \in Calendars
      BY <1>12, ClockAssumption DEF Compare, RequestType
    <2>1. new \in RequestType
      BY <2>a DEF RequestType
    <2>2. request' = [request EXCEPT ![r] = new]
      BY <1>12 DEF Compare
    <2>3. HasAnswer(r)' => new.quote # NoQuote /\ new.calendar # NoCalendar
      BY <1>12, <2>2, QuotesAssumption DEF Compare, HasAnswer, Idle, RequestType, Proceed
    <2>4. /\ UNCHANGED <<marketVars, torn>> /\ clock' \in clock..MaxClock
          /\ unsynced' \in BOOLEAN /\ excused' \in BOOLEAN
      BY <1>12, ClockAssumption DEF Compare, historyVars
    <2> HIDE DEF new
    <2> QED
      BY <2>1, <2>2, <2>3, <2>4, OneRequest
  <1>13. ASSUME NEW r \in Requests, CommitRefused(r) PROVE TypeOK'
    <2> USE DEF IInv, TypeOK
    <2> DEFINE new == [request[r] EXCEPT !.step = "broken"]
    <2>a. request[r] \in RequestType
      OBVIOUS
    <2>1. new \in RequestType
      BY <2>a DEF RequestType
    <2>2. request' = [request EXCEPT ![r] = new]
      BY <1>13 DEF CommitRefused
    <2>3. HasAnswer(r)' => new.quote # NoQuote /\ new.calendar # NoCalendar
      BY <1>13, <2>2, QuotesAssumption DEF CommitRefused, HasAnswer, Idle, RequestType, Proceed
    <2>4. /\ UNCHANGED <<marketVars, torn>> /\ clock' \in clock..MaxClock
          /\ unsynced' \in BOOLEAN /\ excused' \in BOOLEAN
      BY <1>13, ClockAssumption DEF CommitRefused, historyVars
    <2> HIDE DEF new
    <2> QED
      BY <2>1, <2>2, <2>3, <2>4, OneRequest
  <1>14. ASSUME NEW r \in Requests, Commit(r) PROVE TypeOK'
    <2> USE DEF IInv, TypeOK
    <2> DEFINE i == request[r].isin
               own == IF request[r].kind = "api" THEN [Idle EXCEPT !.kind = "api", !.step = "event"]
                      ELSE Proceed(r)
               snapshot == [received |-> request[r].received, quote |-> request[r].quote,
                            error |-> FALSE]
    <2>1. /\ i \in Isins /\ request[r].received \in 1..clock /\ request[r].stamp \in 1..clock
          /\ request[r].new \subseteq UNION Calendars /\ request[r].quote \in Quotes
      BY <1>14 DEF Commit, Shapes, Shape, Answers, AnswerIsPast, RequestType, HasAnswer
    <2>2. own \in RequestType
      <3>1. [Idle EXCEPT !.kind = "api", !.step = "event"] \in RequestType
        BY IdleType DEF RequestType
      <3> QED
        BY <2>1, <3>1, ProceedType
    <2>3. own.step \in {"event", "next", "idle"}
      BY DEF Proceed, Idle
    <2>4. /\ request' \in [Requests -> RequestType]
          /\ \A q \in Requests : request'[q].step \in {"answered", "flushed", "compared"} =>
               request'[q].quote # NoQuote /\ request'[q].calendar # NoCalendar
      <3>1. request' = Overtaking(r, i, own)
        BY <1>14 DEF Commit
      <3> HIDE DEF own
      <3> QED
        BY <2>1, <2>2, <2>3, <3>1, OvertakingOthers DEF Same
    <2>5. instrument' \in [Isins -> Row]
      BY <2>1, <1>14, QuotesAssumption DEF Commit, Row
    <2>6. /\ DOMAIN actions' = Isins
          /\ \A j \in Isins \ {i} : actions'[j] = actions[j]
          /\ actions'[i] = Extended(actions[i], request[r].new, request[r].stamp)
      BY <2>1, <1>14 DEF Commit
    <2>7. /\ DOMAIN actions'[i] \subseteq UNION Calendars
          /\ \A a \in DOMAIN actions'[i] : actions'[i][a] \in 1..clock
      <3>1. /\ DOMAIN actions'[i] = request[r].new \cup DOMAIN actions[i]
            /\ \A a \in DOMAIN actions'[i] :
                 actions'[i][a] = IF a \in request[r].new THEN request[r].stamp ELSE actions[i][a]
        BY <2>6 DEF Extended
      <3> QED
        BY <2>1, <3>1
    <2>8. snapshot \in [received : 1..clock, quote : Quotes, error : BOOLEAN]
      BY <2>1
    <2>9. snapshots' = [snapshots EXCEPT ![i] = @ \cup {snapshot}]
      BY <1>14 DEF Commit
    <2>10. snapshots' \in [Isins -> SUBSET [received : 1..clock, quote : Quotes, error : BOOLEAN]]
      <3> HIDE DEF snapshot
      <3> QED
        BY <2>1, <2>8, <2>9
    <2>11. torn' \subseteq Isins /\ unsynced' \in BOOLEAN /\ UNCHANGED <<clock, excused>>
      BY <2>1, <1>14 DEF Commit
    <2> QED
      BY <2>4, <2>5, <2>6, <2>7, <2>10, <2>11
  <1>15. ASSUME NEW r \in Requests, Fail(r) PROVE TypeOK'
    <2> USE DEF IInv, TypeOK
    <2> DEFINE new == IF Proceed(r).step = "next" THEN [Proceed(r) EXCEPT !.poisoned = TRUE] ELSE Idle
    <2>a. Proceed(r) \in RequestType
      BY <1>15, ProceedType DEF Fail, Shapes, Shape
    <2>b. [Proceed(r) EXCEPT !.poisoned = TRUE] \in RequestType
      BY <2>a DEF RequestType
    <2>1. new \in RequestType
      BY <2>a, <2>b, IdleType
    <2>2. request' = [request EXCEPT ![r] = new]
      BY <1>15 DEF Fail
    <2>3. HasAnswer(r)' => new.quote # NoQuote /\ new.calendar # NoCalendar
      BY <1>15, <2>2, QuotesAssumption DEF Fail, HasAnswer, Idle, RequestType, Proceed
    <2>4. /\ UNCHANGED <<marketVars, torn>> /\ clock' \in clock..MaxClock
          /\ unsynced' \in BOOLEAN /\ excused' \in BOOLEAN
      BY <1>15, ClockAssumption DEF Fail, historyVars
    <2> HIDE DEF new
    <2> QED
      BY <2>1, <2>2, <2>3, <2>4, OneRequest
  <1>16. ASSUME NEW r \in Requests, QueueEvent(r) PROVE TypeOK'
    <2> USE DEF IInv, TypeOK
    <2> DEFINE new == Idle
    <2>1. new \in RequestType
      BY IdleType
    <2>2. request' = [request EXCEPT ![r] = new]
      BY <1>16 DEF QueueEvent
    <2>3. HasAnswer(r)' => new.quote # NoQuote /\ new.calendar # NoCalendar
      BY <1>16, <2>2, QuotesAssumption DEF QueueEvent, HasAnswer, Idle, RequestType, Proceed
    <2>4. /\ UNCHANGED <<marketVars, torn>> /\ clock' \in clock..MaxClock
          /\ unsynced' \in BOOLEAN /\ excused' \in BOOLEAN
      <3>1. UNCHANGED <<marketVars, clock, torn, excused>> /\ unsynced' = FALSE
        BY <1>16 DEF QueueEvent
      <3>2. clock \in clock..MaxClock
        BY ClockAssumption
      <3>3. unsynced' \in BOOLEAN
        BY <3>1
      <3>4. excused' \in BOOLEAN
        BY <3>1
      <3> QED
        BY <3>1, <3>2, <3>3, <3>4
    <2> HIDE DEF new
    <2> QED
      BY <2>1, <2>2, <2>3, <2>4, OneRequest
  <1>17. ASSUME NEW r \in Requests, FindSnapshot(r) PROVE TypeOK'
    <2> USE DEF IInv, TypeOK
    <2>1. request[r].isin \in Isins /\ request[r] \in RequestType
      BY <1>17 DEF FindSnapshot, Shapes, Shape
    <2>2. PICK new \in RequestType : /\ request' = [request EXCEPT ![r] = new]
                                     /\ new.step \in {"next", "idle", "marking"}
      <3>1. CASE request' = [request EXCEPT ![r] = Proceed(r)]
        BY <2>1, <3>1, ProceedType DEF Proceed, Idle
      <3>2. ASSUME NEW s \in Newest(request[r].isin),
                   request' = [request EXCEPT ![r].step = "marking", ![r].received = s.received]
            PROVE  \E new \in RequestType : /\ request' = [request EXCEPT ![r] = new]
                                            /\ new.step \in {"next", "idle", "marking"}
        <4>1. s.received \in Nat
          BY <2>1 DEF Newest
        <4> DEFINE new == [request[r] EXCEPT !.step = "marking", !.received = s.received]
        <4>2. new \in RequestType /\ new.step = "marking"
          BY <2>1, <4>1 DEF RequestType
        <4>3. request' = [request EXCEPT ![r] = new]
          BY <3>2
        <4> QED
          BY <4>2, <4>3
      <3> QED
        BY <1>17, <3>1, <3>2 DEF FindSnapshot
    <2>3. ~HasAnswer(r)'
      BY <2>2 DEF HasAnswer
    <2>4. /\ UNCHANGED <<marketVars, torn>> /\ clock' \in clock..MaxClock
          /\ unsynced' \in BOOLEAN /\ excused' \in BOOLEAN
      BY <1>17, ClockAssumption DEF FindSnapshot, historyVars
    <2> QED
      BY <2>2, <2>3, <2>4, OneRequest
  <1>18. ASSUME NEW r \in Requests, MarkSnapshot(r) PROVE TypeOK'
    <2> USE DEF IInv, TypeOK
    <2>1. request[r].isin \in Isins
      BY <1>18 DEF MarkSnapshot, Shapes, Shape
    <2>2. Proceed(r) \in RequestType /\ Proceed(r).step \in {"next", "idle"}
      BY <2>1, ProceedType DEF Proceed, Idle
    <2>3. /\ request' \in [Requests -> RequestType]
          /\ \A q \in Requests : request'[q].step \in {"answered", "flushed", "compared"} =>
               request'[q].quote # NoQuote /\ request'[q].calendar # NoCalendar
      BY <2>2, <1>18 DEF MarkSnapshot
    <2>4. \A s \in snapshots[request[r].isin] :
            [s EXCEPT !.error = TRUE] \in [received : 1..clock, quote : Quotes, error : BOOLEAN]
      <3>1. \A s \in snapshots[request[r].isin] :
              s \in [received : 1..clock, quote : Quotes, error : BOOLEAN]
        BY <2>1
      <3> QED
        BY <3>1, MarkType
    <2>5. snapshots' \in [Isins -> SUBSET [received : 1..clock, quote : Quotes, error : BOOLEAN]]
      BY <2>1, <2>4, <1>18 DEF MarkSnapshot
    <2> QED
      BY <2>3, <2>5, <1>18 DEF MarkSnapshot, historyVars
  <1>19. ASSUME Restart PROVE TypeOK'
    <2> USE DEF IInv, TypeOK
    <2>1. request' \in [Requests -> RequestType] /\ \A r \in Requests : request'[r].step = "idle"
      BY <1>19, IdleType DEF Restart, Idle
    <2>2. excused' \in BOOLEAN
      BY <1>19 DEF Restart
    <2>3. UNCHANGED <<instrument, actions, snapshots, clock, torn, unsynced>>
      BY <1>19 DEF Restart, marketVars
    <2> QED
      BY <2>1, <2>2, <2>3
  <1> USE DEF IInv, TypeOK
  <1>20. ASSUME UNCHANGED refreshVars PROVE TypeOK'
    BY IdleType, <1>20 DEF refreshVars, marketVars
  <1> QED
    BY <1>1, <1>2, <1>3, <1>4, <1>5, <1>6, <1>7, <1>8, <1>9, <1>10,
       <1>11, <1>12, <1>13, <1>14, <1>15, <1>16, <1>17, <1>18, <1>19, <1>20
    DEF RefreshNext, Begin, Step

-----------------------------------------------------------------------------
\* Going on to the next ISIN, or not.
GoesOn(r, new) ==
    \/ /\ request[r].kind \in {"all", "sheet"}
       /\ new.kind = request[r].kind /\ new.step = "next" /\ new.todo = request[r].todo
       /\ \A j \in Isins \ {request[r].isin} : new.seen[j] = request[r].seen[j]
       /\ new.seen[request[r].isin] = Absent
       /\ new.overtaken = request[r].overtaken \ {request[r].isin}
    \/ request[r].kind \notin {"all", "sheet"} /\ new = Idle

\* Who is done with an instrument goes on with its batch or ends.
LEMMA ProceedGoesOn ==
    ASSUME TypeOK, NEW r \in Requests, request[r].isin \in Isins
    PROVE  GoesOn(r, Proceed(r))
  BY DEF TypeOK, RequestType, Proceed, GoesOn, Idle

\* What a refresh does when it commits.
Commits(r, i) ==
    /\ request[r].step = "compared" /\ i = request[r].isin /\ i \in Isins
    /\ request[r].kind \in {"api", "all", "sheet"}
    /\ \/ request[r].kind = "api" /\ request'[r] = [Idle EXCEPT !.kind = "api", !.step = "event"]
       \/ request[r].kind # "api" /\ GoesOn(r, request'[r])
    /\ instrument'[i].known = "quoted"
    /\ \A j \in Isins \ {i} :
         instrument'[j] = instrument[j] /\ actions'[j] = actions[j] /\ snapshots'[j] = snapshots[j]
    /\ DOMAIN actions'[i] = request[r].new \cup DOMAIN actions[i]
    /\ snapshots'[i] = snapshots[i] \cup
         {[received |-> request[r].received, quote |-> request[r].quote, error |-> FALSE]}
    /\ \A q \in Requests \ {r} :
         /\ Same(q)
         /\ request[q].overtaken \subseteq request'[q].overtaken
         /\ HasRead(q, i) => i \in request'[q].overtaken

\* The commit of a refresh, with every field it changes.
LEMMA CommitFacts ==
    ASSUME IInv, NEW r \in Requests, Commit(r)
    PROVE  Commits(r, request[r].isin)
  <1> DEFINE i == request[r].isin
             own == IF request[r].kind = "api" THEN [Idle EXCEPT !.kind = "api", !.step = "event"]
                    ELSE Proceed(r)
  <1>1. /\ TypeOK /\ i \in Isins /\ request[r].step = "compared"
        /\ request[r].kind \in {"api", "all", "sheet"}
    BY DEF IInv, Shapes, Shape, Commit, Refreshing
  <1>2. own \in RequestType
    <2>1. [Idle EXCEPT !.kind = "api", !.step = "event"] \in RequestType
      BY IdleType DEF RequestType
    <2> QED
      BY <1>1, <2>1, ProceedType
  <1>3. request' = Overtaking(r, i, own) /\ request \in [Requests -> RequestType]
    BY <1>1 DEF Commit, TypeOK
  <1>4. \/ request[r].kind = "api" /\ own = [Idle EXCEPT !.kind = "api", !.step = "event"]
        \/ request[r].kind # "api" /\ GoesOn(r, own)
    BY <1>1, ProceedGoesOn
  <1>5. /\ instrument'[i].known = "quoted"
        /\ \A j \in Isins \ {i} :
             instrument'[j] = instrument[j] /\ actions'[j] = actions[j] /\ snapshots'[j] = snapshots[j]
        /\ DOMAIN actions'[i] = request[r].new \cup DOMAIN actions[i]
        /\ snapshots'[i] = snapshots[i] \cup
             {[received |-> request[r].received, quote |-> request[r].quote, error |-> FALSE]}
    BY <1>1 DEF Commit, TypeOK, Extended
  <1> HIDE DEF own
  <1> QED
    BY <1>1, <1>2, <1>3, <1>4, <1>5, OvertakingOthers DEF Commits

\* What a refresh does when it fails or has failed: it goes on with its request.
GivesUp(r) ==
    /\ request[r].isin \in Isins /\ request[r].step \in {"broken", "raised", "marking"}
    /\ GoesOn(r, request'[r])
    /\ \A q \in Requests \ {r} : request'[q] = request[q]
    /\ UNCHANGED <<instrument, actions, clock, historyVars>>

\* A refused flush ends in the rollback; the market data stay.
LEMMA FailFacts ==
    ASSUME IInv, NEW r \in Requests, Fail(r)
    PROVE  GivesUp(r) /\ snapshots' = snapshots
  <1>1. TypeOK /\ request[r].isin \in Isins /\ request[r].step = "broken" /\ UNCHANGED marketVars
    BY DEF IInv, Shapes, Shape, Fail
  <1>2. Proceed(r) \in RequestType /\ GoesOn(r, Proceed(r))
    BY <1>1, ProceedType, ProceedGoesOn
  <1>3. request'[r] = IF Proceed(r).step = "next" THEN [Proceed(r) EXCEPT !.poisoned = TRUE] ELSE Idle
    BY <1>1 DEF Fail, TypeOK
  <1>4. GoesOn(r, request'[r])
    <2>1. CASE Proceed(r).step = "next"
      <3>1. request[r].kind \in {"all", "sheet"}
        BY <1>2, <2>1 DEF GoesOn, Idle
      <3> QED
        BY <1>2, <1>3, <2>1, <3>1 DEF GoesOn, RequestType
    <2>2. CASE Proceed(r).step # "next"
      BY <1>2, <1>3, <2>2 DEF GoesOn
    <2> QED
      BY <2>1, <2>2
  <1> QED
    BY <1>1, <1>4 DEF GivesUp, Fail, marketVars, TypeOK

\* What marking a snapshot does.
LEMMA MarkFacts ==
    ASSUME IInv, NEW r \in Requests, MarkSnapshot(r)
    PROVE  /\ GivesUp(r)
           /\ \A i \in Isins : \A s \in snapshots'[i] : \E t \in snapshots[i] :
                s.received = t.received /\ s.quote = t.quote
           /\ \A i \in Isins : \A s \in snapshots[i] : \E t \in snapshots'[i] :
                s.received = t.received /\ s.quote = t.quote
           /\ \A i \in Isins : \A s, t \in snapshots'[i] : s.received = t.received => s = t
  <1> DEFINE Marked(s) == IF s.received = request[r].received THEN [s EXCEPT !.error = TRUE] ELSE s
  <1>1. TypeOK /\ request[r].isin \in Isins /\ request[r].step = "marking" /\ StoredTimesDiffer
    BY DEF IInv, Shapes, Shape, MarkSnapshot, TimesDiffer
  <1>2. GoesOn(r, request'[r])
    BY <1>1, ProceedGoesOn DEF MarkSnapshot, TypeOK
  <1>3. GivesUp(r)
    BY <1>1, <1>2 DEF GivesUp, MarkSnapshot, TypeOK
  <1>4. \A i \in Isins : snapshots'[i] =
          IF i = request[r].isin THEN {Marked(s) : s \in snapshots[i]} ELSE snapshots[i]
    BY <1>1 DEF MarkSnapshot, TypeOK
  <1>5. ASSUME NEW i \in Isins, NEW s \in snapshots[i]
        PROVE  Marked(s).received = s.received /\ Marked(s).quote = s.quote
    BY <1>1 DEF TypeOK
  <1>6. \A i \in Isins : \A s \in snapshots'[i] : \E t \in snapshots[i] :
          /\ s.received = t.received /\ s.quote = t.quote
          /\ s = IF i = request[r].isin THEN Marked(t) ELSE t
    <2> SUFFICES ASSUME NEW i \in Isins, NEW s \in snapshots'[i]
                 PROVE  \E t \in snapshots[i] :
                          /\ s.received = t.received /\ s.quote = t.quote
                          /\ s = IF i = request[r].isin THEN Marked(t) ELSE t
      OBVIOUS
    <2> HIDE DEF Marked
    <2>1. CASE i = request[r].isin
      <3>1. snapshots'[i] = {Marked(t) : t \in snapshots[i]}
        BY <1>4, <2>1
      <3>2. PICK t \in snapshots[i] : s = Marked(t)
        BY <3>1
      <3> QED
        BY <1>5, <2>1, <3>2
    <2>2. CASE i # request[r].isin
      <3>1. s \in snapshots[i]
        BY <1>4, <2>2
      <3> QED
        BY <2>2, <3>1
    <2> QED
      BY <2>1, <2>2
  <1>7. \A i \in Isins : \A s \in snapshots[i] : \E t \in snapshots'[i] :
          s.received = t.received /\ s.quote = t.quote
    <2> SUFFICES ASSUME NEW i \in Isins, NEW s \in snapshots[i]
                 PROVE  \E t \in snapshots'[i] : s.received = t.received /\ s.quote = t.quote
      OBVIOUS
    <2> HIDE DEF Marked
    <2>1. CASE i = request[r].isin
      <3>1. Marked(s) \in snapshots'[i]
        BY <1>4, <2>1
      <3> QED
        BY <1>5, <3>1
    <2>2. CASE i # request[r].isin
      <3>1. snapshots'[i] = snapshots[i]
        BY <1>4, <2>2
      <3> QED
        BY <3>1
    <2> QED
      BY <2>1, <2>2
  <1>8. \A i \in Isins : \A s, t \in snapshots'[i] : s.received = t.received => s = t
    <2> HIDE DEF Marked
    <2> QED
      BY <1>1, <1>6 DEF StoredTimesDiffer
  <1> QED
    BY <1>3, <1>6, <1>7, <1>8

\* What looking for the newest snapshot does.
LEMMA FindFacts ==
    ASSUME IInv, NEW r \in Requests, FindSnapshot(r)
    PROVE  /\ UNCHANGED <<marketVars, clock, historyVars>>
           /\ request[r].step = "raised" /\ request[r].isin \in Isins
           /\ \A q \in Requests \ {r} : request'[q] = request[q]
           /\ \/ GivesUp(r)
              \/ \E s \in Newest(request[r].isin) :
                   request'[r] = [request[r] EXCEPT !.step = "marking", !.received = s.received]
  <1>1. TypeOK /\ request[r].isin \in Isins /\ request[r].step = "raised"
        /\ UNCHANGED <<marketVars, clock, historyVars>>
    BY DEF IInv, Shapes, Shape, FindSnapshot
  <1>2. CASE request' = [request EXCEPT ![r] = Proceed(r)]
    <2>1. GoesOn(r, request'[r]) /\ \A q \in Requests \ {r} : request'[q] = request[q]
      BY <1>1, <1>2, ProceedGoesOn DEF TypeOK
    <2> QED
      BY <1>1, <2>1 DEF GivesUp, marketVars
  <1>3. ASSUME NEW s \in Newest(request[r].isin),
               request' = [request EXCEPT ![r].step = "marking", ![r].received = s.received]
        PROVE  /\ request'[r] = [request[r] EXCEPT !.step = "marking", !.received = s.received]
               /\ \A q \in Requests \ {r} : request'[q] = request[q]
    BY <1>1, <1>3 DEF TypeOK
  <1> QED
    BY <1>1, <1>2, <1>3 DEF FindSnapshot

\* What it means that a bare instrument is committed.
LEMMA CommitBareFacts ==
    ASSUME IInv, NEW r \in Requests, CommitBare(r)
    PROVE  /\ request[r].step = "stubbed" /\ request[r].isin \in Isins /\ request'[r] = Idle
           /\ \A i \in Isins : instrument'[i] = IF i = request[r].isin THEN Bare ELSE instrument[i]
           /\ \A q \in Requests \ {r} :
                /\ Same(q)
                /\ request[q].overtaken \subseteq request'[q].overtaken
                /\ HasRead(q, request[r].isin) => request[r].isin \in request'[q].overtaken
  <1>1. /\ TypeOK /\ request[r].isin \in Isins /\ request[r].step = "stubbed"
    BY DEF IInv, Shapes, Shape, CommitBare
  <1> QED
    BY <1>1, IdleType, OvertakingOthers DEF CommitBare, TypeOK

-----------------------------------------------------------------------------
\* Every step has its shape.
LEMMA NextShapes == IInv /\ [RefreshNext]_refreshVars => Shapes'
  <1> SUFFICES ASSUME IInv, [RefreshNext]_refreshVars PROVE Shapes'
    OBVIOUS
  <1>1. ASSUME NEW r \in Requests, CommitBare(r) PROVE Shapes'
    <2> SUFFICES ASSUME NEW q \in Requests PROVE Shape(q)'
      BY DEF Shapes
    <2>0. TypeOK /\ Shape(q) /\ Shape(r)
      BY DEF IInv, Shapes
    <2>1. UNCHANGED <<actions, snapshots, clock, torn>>
      BY <1>1 DEF CommitBare, historyVars
    <2>2. CASE q = r
      BY <1>1, CommitBareFacts, <2>0, <2>1, <2>2 DEF Shape, Refreshing, Idle, Bare
    <2>3. CASE q # r
      BY <1>1, CommitBareFacts, <2>0, <2>1, <2>3 DEF Shape, Refreshing, Same, Bare
    <2> QED
      BY <2>2, <2>3
  <1>2. ASSUME NEW r \in Requests, Commit(r) PROVE Shapes'
    <2> SUFFICES ASSUME NEW q \in Requests PROVE Shape(q)'
      BY DEF Shapes
    <2>0. TypeOK /\ Shape(q) /\ Shape(r)
      BY DEF IInv, Shapes
    <2>1. Commits(r, request[r].isin) /\ UNCHANGED clock
          /\ \A i \in Isins \ {request[r].isin} : i \in torn' <=> i \in torn
      BY <1>2, CommitFacts DEF Commit
    <2>2. CASE q = r /\ request[r].kind = "api"
      BY <2>0, <2>1, <2>2 DEF Shape, Refreshing, Commits, Idle
    <2>3. CASE q = r /\ request[r].kind # "api"
      BY <2>0, <2>1, <2>3 DEF Shape, Refreshing, Commits, GoesOn
    <2>4. CASE q # r
      BY <2>0, <2>1, <2>4 DEF Shape, Refreshing, Commits, Same
    <2> QED
      BY <2>2, <2>3, <2>4
  <1>3. ASSUME NEW r \in Requests, Fail(r) PROVE Shapes'
    <2> SUFFICES ASSUME NEW q \in Requests PROVE Shape(q)'
      BY DEF Shapes
    <2>0. TypeOK /\ Shape(q) /\ Shape(r)
      BY DEF IInv, Shapes
    <2>1. GivesUp(r) /\ UNCHANGED <<snapshots, torn>>
      BY <1>3, FailFacts DEF GivesUp, historyVars
    <2>2. CASE q = r
      BY <2>0, <2>1, <2>2 DEF Shape, Refreshing, GivesUp, GoesOn, Idle
    <2>3. CASE q # r
      BY <2>0, <2>1, <2>3 DEF Shape, Refreshing, GivesUp
    <2> QED
      BY <2>2, <2>3
  <1>4. ASSUME NEW r \in Requests, FindSnapshot(r) PROVE Shapes'
    <2> SUFFICES ASSUME NEW q \in Requests PROVE Shape(q)'
      BY DEF Shapes
    <2>0. TypeOK /\ Shape(q) /\ Shape(r)
      BY DEF IInv, Shapes
    <2>1. /\ UNCHANGED <<instrument, actions, snapshots, clock, torn>> /\ request[r].step = "raised"
          /\ \A p \in Requests \ {r} : request'[p] = request[p]
      BY <1>4, FindFacts DEF marketVars, historyVars
    <2>2. CASE q # r
      BY <2>0, <2>1, <2>2 DEF Shape, Refreshing
    <2>3. CASE q = r /\ GivesUp(r)
      BY <2>0, <2>3 DEF Shape, Refreshing, GivesUp, GoesOn, Idle
    <2>4. ASSUME q = r, NEW s \in Newest(request[r].isin),
                 request'[r] = [request[r] EXCEPT !.step = "marking", !.received = s.received]
          PROVE  Shape(q)'
      BY <2>0, <2>1, <2>4 DEF Shape, Refreshing, TypeOK, RequestType
    <2> QED
      BY <1>4, FindFacts, <2>2, <2>3, <2>4
  <1>5. ASSUME NEW r \in Requests, MarkSnapshot(r) PROVE Shapes'
    <2> SUFFICES ASSUME NEW q \in Requests PROVE Shape(q)'
      BY DEF Shapes
    <2>0. TypeOK /\ Shape(q) /\ Shape(r)
      BY DEF IInv, Shapes
    <2>1. GivesUp(r) /\ UNCHANGED torn
      BY <1>5, MarkFacts DEF GivesUp, historyVars
    <2>2. CASE q = r
      BY <2>0, <2>1, <2>2 DEF Shape, Refreshing, GivesUp, GoesOn, Idle
    <2>3. CASE q # r
      BY <1>5, MarkFacts, <2>0, <2>1, <2>3 DEF Shape, Refreshing, GivesUp
    <2> QED
      BY <2>2, <2>3
  <1> USE DEF IInv, Shapes, Shape, Refreshing, TypeOK, RequestType, Idle
  <1>6. ASSUME NEW r \in Requests, NEW i \in Isins, BeginRefresh(r, i) PROVE Shapes'
    BY QuotesAssumption, <1>6 DEF BeginRefresh, marketVars, historyVars
  <1>7. ASSUME NEW r \in Requests, NEW i \in Isins, BeginBare(r, i) PROVE Shapes'
    BY QuotesAssumption, <1>7 DEF BeginBare, marketVars, historyVars
  <1>8. ASSUME NEW r \in Requests, BeginAll(r) PROVE Shapes'
    BY QuotesAssumption, <1>8 DEF BeginAll, marketVars, historyVars
  <1>9. ASSUME NEW r \in Requests, NEW isins \in SUBSET Isins,
              BeginSheet(r, isins)
       PROVE  Shapes'
    BY QuotesAssumption, <1>9 DEF BeginSheet, marketVars, historyVars
  <1>10. ASSUME NEW r \in Requests, NEW i \in Isins, NextIsin(r, i) PROVE Shapes'
    BY QuotesAssumption, <1>10 DEF NextIsin, marketVars, historyVars
  <1>11. ASSUME NEW r \in Requests, GiveUpBatch(r) PROVE Shapes'
    BY QuotesAssumption, <1>11 DEF GiveUpBatch, marketVars, historyVars
  <1>12. ASSUME NEW r \in Requests, EndBatch(r) PROVE Shapes'
    BY QuotesAssumption, <1>12 DEF EndBatch, marketVars, historyVars
  <1>13. ASSUME NEW r \in Requests, NEW quote \in Quotes, NEW calendar \in Calendars,
              NEW repeated \in SUBSET calendar, ClientAnswers(r, quote, calendar, repeated)
       PROVE  Shapes'
    BY QuotesAssumption, <1>13 DEF ClientAnswers, marketVars, historyVars
  <1>14. ASSUME NEW r \in Requests, ClientRaises(r) PROVE Shapes'
    BY QuotesAssumption, <1>14 DEF ClientRaises, marketVars, historyVars
  <1>15. ASSUME NEW r \in Requests, Flush(r) PROVE Shapes'
    BY QuotesAssumption, <1>15 DEF Flush, marketVars, historyVars
  <1>16. ASSUME NEW r \in Requests, Compare(r) PROVE Shapes'
    BY QuotesAssumption, <1>16 DEF Compare, marketVars, historyVars
  <1>17. ASSUME NEW r \in Requests, CommitRefused(r) PROVE Shapes'
    BY QuotesAssumption, <1>17 DEF CommitRefused, marketVars, historyVars
  <1>18. ASSUME NEW r \in Requests, QueueEvent(r) PROVE Shapes'
    BY QuotesAssumption, <1>18 DEF QueueEvent, marketVars, historyVars
  <1>19. ASSUME Restart PROVE Shapes'
    BY QuotesAssumption, <1>19 DEF Restart, marketVars, historyVars
  <1>20. ASSUME UNCHANGED refreshVars PROVE Shapes'
    BY QuotesAssumption, <1>20 DEF refreshVars, marketVars
  <1> QED
    BY <1>1, <1>2, <1>3, <1>4, <1>5, <1>6, <1>7, <1>8, <1>9, <1>10,
       <1>11, <1>12, <1>13, <1>14, <1>15, <1>16, <1>17, <1>18, <1>19, <1>20
    DEF RefreshNext, Begin, Step

\* Time goes on.
LEMMA NextAnswers == IInv /\ [RefreshNext]_refreshVars => Answers'
  <1> SUFFICES ASSUME IInv, [RefreshNext]_refreshVars PROVE Answers'
    OBVIOUS
  <1>1. ASSUME NEW r \in Requests, CommitBare(r) PROVE Answers'
    <2> SUFFICES ASSUME NEW q \in Requests PROVE AnswerIsPast(q)'
      BY DEF Answers
    <2>0. TypeOK /\ AnswerIsPast(q) /\ AnswerIsPast(r)
      BY DEF IInv, Answers
    <2>1. UNCHANGED <<actions, snapshots, clock, torn>>
      BY <1>1 DEF CommitBare, historyVars
    <2>2. CASE q = r
      BY <1>1, CommitBareFacts, <2>0, <2>1, <2>2 DEF AnswerIsPast, HasAnswer, Idle, Bare
    <2>3. CASE q # r
      BY <1>1, CommitBareFacts, <2>0, <2>1, <2>3 DEF AnswerIsPast, HasAnswer, Same, Bare
    <2> QED
      BY <2>2, <2>3
  <1>2. ASSUME NEW r \in Requests, Commit(r) PROVE Answers'
    <2> SUFFICES ASSUME NEW q \in Requests PROVE AnswerIsPast(q)'
      BY DEF Answers
    <2>0. TypeOK /\ AnswerIsPast(q) /\ AnswerIsPast(r)
      BY DEF IInv, Answers
    <2>1. Commits(r, request[r].isin) /\ UNCHANGED clock
          /\ \A i \in Isins \ {request[r].isin} : i \in torn' <=> i \in torn
      BY <1>2, CommitFacts DEF Commit
    <2>2. CASE q = r /\ request[r].kind = "api"
      BY <2>0, <2>1, <2>2 DEF AnswerIsPast, HasAnswer, Commits, Idle
    <2>3. CASE q = r /\ request[r].kind # "api"
      BY <2>0, <2>1, <2>3 DEF AnswerIsPast, HasAnswer, Commits, GoesOn
    <2>4. CASE q # r
      BY <2>0, <2>1, <2>4 DEF AnswerIsPast, HasAnswer, Commits, Same
    <2> QED
      BY <2>2, <2>3, <2>4
  <1>3. ASSUME NEW r \in Requests, Fail(r) PROVE Answers'
    <2> SUFFICES ASSUME NEW q \in Requests PROVE AnswerIsPast(q)'
      BY DEF Answers
    <2>0. TypeOK /\ AnswerIsPast(q) /\ AnswerIsPast(r)
      BY DEF IInv, Answers
    <2>1. GivesUp(r) /\ UNCHANGED <<snapshots, torn>>
      BY <1>3, FailFacts DEF GivesUp, historyVars
    <2>2. CASE q = r
      BY <2>0, <2>1, <2>2 DEF AnswerIsPast, HasAnswer, GivesUp, GoesOn, Idle
    <2>3. CASE q # r
      BY <2>0, <2>1, <2>3 DEF AnswerIsPast, HasAnswer, GivesUp
    <2> QED
      BY <2>2, <2>3
  <1>4. ASSUME NEW r \in Requests, FindSnapshot(r) PROVE Answers'
    <2> SUFFICES ASSUME NEW q \in Requests PROVE AnswerIsPast(q)'
      BY DEF Answers
    <2>0. TypeOK /\ AnswerIsPast(q) /\ AnswerIsPast(r)
      BY DEF IInv, Answers
    <2>1. /\ UNCHANGED <<instrument, actions, snapshots, clock, torn>> /\ request[r].step = "raised"
          /\ \A p \in Requests \ {r} : request'[p] = request[p]
      BY <1>4, FindFacts DEF marketVars, historyVars
    <2>2. CASE q # r
      BY <2>0, <2>1, <2>2 DEF AnswerIsPast, HasAnswer
    <2>3. CASE q = r /\ GivesUp(r)
      BY <2>0, <2>3 DEF AnswerIsPast, HasAnswer, GivesUp, GoesOn, Idle
    <2>4. ASSUME q = r, NEW s \in Newest(request[r].isin),
                 request'[r] = [request[r] EXCEPT !.step = "marking", !.received = s.received]
          PROVE  AnswerIsPast(q)'
      BY <2>0, <2>1, <2>4 DEF AnswerIsPast, HasAnswer, TypeOK, RequestType
    <2> QED
      BY <1>4, FindFacts, <2>2, <2>3, <2>4
  <1>5. ASSUME NEW r \in Requests, MarkSnapshot(r) PROVE Answers'
    <2> SUFFICES ASSUME NEW q \in Requests PROVE AnswerIsPast(q)'
      BY DEF Answers
    <2>0. TypeOK /\ AnswerIsPast(q) /\ AnswerIsPast(r)
      BY DEF IInv, Answers
    <2>1. GivesUp(r) /\ UNCHANGED torn
      BY <1>5, MarkFacts DEF GivesUp, historyVars
    <2>2. CASE q = r
      BY <2>0, <2>1, <2>2 DEF AnswerIsPast, HasAnswer, GivesUp, GoesOn, Idle
    <2>3. CASE q # r
      BY <1>5, MarkFacts, <2>0, <2>1, <2>3 DEF AnswerIsPast, HasAnswer, GivesUp
    <2> QED
      BY <2>2, <2>3
  <1> USE DEF IInv, Answers, AnswerIsPast, HasAnswer, TypeOK, RequestType, Idle
  <1>6. ASSUME NEW r \in Requests, NEW i \in Isins, BeginRefresh(r, i) PROVE Answers'
    BY QuotesAssumption, ClockAssumption, <1>6 DEF BeginRefresh, marketVars, historyVars
  <1>7. ASSUME NEW r \in Requests, NEW i \in Isins, BeginBare(r, i) PROVE Answers'
    BY QuotesAssumption, ClockAssumption, <1>7 DEF BeginBare, marketVars, historyVars
  <1>8. ASSUME NEW r \in Requests, BeginAll(r) PROVE Answers'
    BY QuotesAssumption, ClockAssumption, <1>8 DEF BeginAll, marketVars, historyVars
  <1>9. ASSUME NEW r \in Requests, NEW isins \in SUBSET Isins,
              BeginSheet(r, isins)
       PROVE  Answers'
    BY QuotesAssumption, ClockAssumption, <1>9 DEF BeginSheet, marketVars, historyVars
  <1>10. ASSUME NEW r \in Requests, NEW i \in Isins, NextIsin(r, i) PROVE Answers'
    BY QuotesAssumption, ClockAssumption, <1>10 DEF NextIsin, marketVars, historyVars
  <1>11. ASSUME NEW r \in Requests, GiveUpBatch(r) PROVE Answers'
    BY QuotesAssumption, ClockAssumption, <1>11 DEF GiveUpBatch, marketVars, historyVars
  <1>12. ASSUME NEW r \in Requests, EndBatch(r) PROVE Answers'
    BY QuotesAssumption, ClockAssumption, <1>12 DEF EndBatch, marketVars, historyVars
  <1>13. ASSUME NEW r \in Requests, NEW quote \in Quotes, NEW calendar \in Calendars,
              NEW repeated \in SUBSET calendar, ClientAnswers(r, quote, calendar, repeated)
       PROVE  Answers'
    BY QuotesAssumption, ClockAssumption, <1>13 DEF ClientAnswers, marketVars, historyVars
  <1>14. ASSUME NEW r \in Requests, ClientRaises(r) PROVE Answers'
    BY QuotesAssumption, ClockAssumption, <1>14 DEF ClientRaises, marketVars, historyVars
  <1>15. ASSUME NEW r \in Requests, Flush(r) PROVE Answers'
    BY QuotesAssumption, ClockAssumption, <1>15 DEF Flush, marketVars, historyVars
  <1>16. ASSUME NEW r \in Requests, Compare(r) PROVE Answers'
    BY QuotesAssumption, ClockAssumption, <1>16 DEF Compare, marketVars, historyVars
  <1>17. ASSUME NEW r \in Requests, CommitRefused(r) PROVE Answers'
    BY QuotesAssumption, ClockAssumption, <1>17 DEF CommitRefused, marketVars, historyVars
  <1>18. ASSUME NEW r \in Requests, QueueEvent(r) PROVE Answers'
    BY QuotesAssumption, ClockAssumption, <1>18 DEF QueueEvent, marketVars, historyVars
  <1>19. ASSUME Restart PROVE Answers'
    BY QuotesAssumption, ClockAssumption, <1>19 DEF Restart, marketVars, historyVars
  <1>20. ASSUME UNCHANGED refreshVars PROVE Answers'
    BY QuotesAssumption, ClockAssumption, <1>20 DEF refreshVars, marketVars
  <1> QED
    BY <1>1, <1>2, <1>3, <1>4, <1>5, <1>6, <1>7, <1>8, <1>9, <1>10,
       <1>11, <1>12, <1>13, <1>14, <1>15, <1>16, <1>17, <1>18, <1>19, <1>20
    DEF RefreshNext, Begin, Step

\* A row that is not there stays blank.
LEMMA NextBlank == IInv /\ [RefreshNext]_refreshVars => AbsentIsBlank'
  <1> SUFFICES ASSUME IInv, [RefreshNext]_refreshVars PROVE AbsentIsBlank'
    OBVIOUS
  <1>1. ASSUME NEW r \in Requests, CommitBare(r) PROVE AbsentIsBlank'
    <2>1. AbsentIsBlank
      BY DEF IInv
    <2> QED
      BY <1>1, <2>1, CommitBareFacts DEF AbsentIsBlank, Bare
  <1>2. ASSUME NEW r \in Requests, Commit(r) PROVE AbsentIsBlank'
    <2>1. Commits(r, request[r].isin) /\ AbsentIsBlank
      BY <1>2, CommitFacts DEF IInv
    <2> QED
      BY <2>1 DEF AbsentIsBlank, Commits
  <1>3. ASSUME NEW r \in Requests, Fail(r) PROVE AbsentIsBlank'
    <2>1. AbsentIsBlank /\ GivesUp(r)
      BY <1>3, FailFacts DEF IInv
    <2> QED
      BY <2>1 DEF AbsentIsBlank, GivesUp
  <1>4. ASSUME NEW r \in Requests, MarkSnapshot(r) PROVE AbsentIsBlank'
    <2>1. AbsentIsBlank /\ GivesUp(r)
      BY <1>4, MarkFacts DEF IInv
    <2> QED
      BY <2>1 DEF AbsentIsBlank, GivesUp
  <1> USE DEF IInv, AbsentIsBlank, Absent, Bare, TypeOK, RequestType, Idle
  <1>5. ASSUME NEW r \in Requests, NEW i \in Isins,
              BeginRefresh(r, i)
       PROVE  AbsentIsBlank'
    BY QuotesAssumption, <1>5 DEF BeginRefresh, marketVars, historyVars
  <1>6. ASSUME NEW r \in Requests, NEW i \in Isins, BeginBare(r, i) PROVE AbsentIsBlank'
    BY QuotesAssumption, <1>6 DEF BeginBare, marketVars, historyVars
  <1>7. ASSUME NEW r \in Requests, BeginAll(r) PROVE AbsentIsBlank'
    BY QuotesAssumption, <1>7 DEF BeginAll, marketVars, historyVars
  <1>8. ASSUME NEW r \in Requests, NEW isins \in SUBSET Isins,
              BeginSheet(r, isins)
       PROVE  AbsentIsBlank'
    BY QuotesAssumption, <1>8 DEF BeginSheet, marketVars, historyVars
  <1>9. ASSUME NEW r \in Requests, NEW i \in Isins, NextIsin(r, i) PROVE AbsentIsBlank'
    BY QuotesAssumption, <1>9 DEF NextIsin, marketVars, historyVars
  <1>10. ASSUME NEW r \in Requests, GiveUpBatch(r) PROVE AbsentIsBlank'
    BY QuotesAssumption, <1>10 DEF GiveUpBatch, marketVars, historyVars
  <1>11. ASSUME NEW r \in Requests, EndBatch(r) PROVE AbsentIsBlank'
    BY QuotesAssumption, <1>11 DEF EndBatch, marketVars, historyVars
  <1>12. ASSUME NEW r \in Requests, NEW quote \in Quotes, NEW calendar \in Calendars,
              NEW repeated \in SUBSET calendar, ClientAnswers(r, quote, calendar, repeated)
       PROVE  AbsentIsBlank'
    BY QuotesAssumption, <1>12 DEF ClientAnswers, marketVars, historyVars
  <1>13. ASSUME NEW r \in Requests, ClientRaises(r) PROVE AbsentIsBlank'
    BY QuotesAssumption, <1>13 DEF ClientRaises, marketVars, historyVars
  <1>14. ASSUME NEW r \in Requests, Flush(r) PROVE AbsentIsBlank'
    BY QuotesAssumption, <1>14 DEF Flush, marketVars, historyVars
  <1>15. ASSUME NEW r \in Requests, Compare(r) PROVE AbsentIsBlank'
    BY QuotesAssumption, <1>15 DEF Compare, marketVars, historyVars
  <1>16. ASSUME NEW r \in Requests, CommitRefused(r) PROVE AbsentIsBlank'
    BY QuotesAssumption, <1>16 DEF CommitRefused, marketVars, historyVars
  <1>17. ASSUME NEW r \in Requests, QueueEvent(r) PROVE AbsentIsBlank'
    BY QuotesAssumption, <1>17 DEF QueueEvent, marketVars, historyVars
  <1>18. ASSUME NEW r \in Requests, FindSnapshot(r) PROVE AbsentIsBlank'
    BY QuotesAssumption, <1>18 DEF FindSnapshot, marketVars, historyVars, Proceed
  <1>19. ASSUME Restart PROVE AbsentIsBlank'
    BY QuotesAssumption, <1>19 DEF Restart, marketVars, historyVars
  <1>20. ASSUME UNCHANGED refreshVars PROVE AbsentIsBlank'
    BY QuotesAssumption, <1>20 DEF refreshVars, marketVars
  <1> QED
    BY <1>1, <1>2, <1>3, <1>4, <1>5, <1>6, <1>7, <1>8, <1>9, <1>10,
       <1>11, <1>12, <1>13, <1>14, <1>15, <1>16, <1>17, <1>18, <1>19, <1>20
    DEF RefreshNext, Begin, Step

\* Who has read a row that is committed is overtaken.
LEMMA NextReads == IInv /\ [RefreshNext]_refreshVars => ReadsAreFresh'
  <1> SUFFICES ASSUME IInv, [RefreshNext]_refreshVars PROVE ReadsAreFresh'
    OBVIOUS
  <1>1. ASSUME NEW r \in Requests, NEW i \in Isins, BeginBare(r, i) PROVE ReadsAreFresh'
    <2> SUFFICES ASSUME NEW q \in Requests, NEW j \in Isins PROVE IsFresh(q, j)'
      BY DEF ReadsAreFresh
    <2>0. TypeOK /\ IsFresh(q, j) /\ Shape(r) /\ AbsentIsBlank
      BY DEF IInv, ReadsAreFresh, Shapes
    <2>1. /\ instrument[i].known = "absent" /\ clock' = clock /\ UNCHANGED <<marketVars, historyVars>>
          /\ request'[r] = [Idle EXCEPT !.kind = "lot", !.step = "stub", !.isin = i]
          /\ \A p \in Requests \ {r} : request'[p] = request[p]
      BY <1>1, <2>0 DEF BeginBare, TypeOK, historyVars
    <2>2. CASE q = r
      <3>1. instrument'[i] = Absent
        BY <2>0, <2>1 DEF AbsentIsBlank, marketVars
      <3>2. request'[r].kind = "lot" /\ request'[r].isin = i /\ request'[r].seen[i] = Absent
        BY <2>1 DEF Idle
      <3> QED
        BY <2>2, <3>1, <3>2 DEF IsFresh, HasRead
    <2>3. CASE q # r
      BY <2>0, <2>1, <2>3 DEF IsFresh, HasRead, marketVars, historyVars
    <2> QED
      BY <2>2, <2>3
  <1>2. ASSUME NEW r \in Requests, CommitBare(r) PROVE ReadsAreFresh'
    <2> SUFFICES ASSUME NEW q \in Requests, NEW j \in Isins PROVE IsFresh(q, j)'
      BY DEF ReadsAreFresh
    <2>0. TypeOK /\ IsFresh(q, j) /\ Shape(r) /\ AbsentIsBlank
      BY DEF IInv, ReadsAreFresh, Shapes
    <2>1. UNCHANGED <<actions, snapshots, clock, torn>>
      BY <1>2 DEF CommitBare, historyVars
    <2>2. CASE q = r
      BY <1>2, CommitBareFacts, <2>0, <2>1, <2>2 DEF IsFresh, HasRead, Idle, Bare, Shape, Refreshing
    <2>3. CASE q # r
      BY <1>2, CommitBareFacts, <2>0, <2>1, <2>3 DEF IsFresh, HasRead, Same, Bare
    <2> QED
      BY <2>2, <2>3
  <1>3. ASSUME NEW r \in Requests, Commit(r) PROVE ReadsAreFresh'
    <2> SUFFICES ASSUME NEW q \in Requests, NEW j \in Isins PROVE IsFresh(q, j)'
      BY DEF ReadsAreFresh
    <2>0. TypeOK /\ IsFresh(q, j) /\ Shape(r) /\ AbsentIsBlank
      BY DEF IInv, ReadsAreFresh, Shapes
    <2>1. Commits(r, request[r].isin) /\ UNCHANGED clock
          /\ \A i \in Isins \ {request[r].isin} : i \in torn' <=> i \in torn
      BY <1>3, CommitFacts DEF Commit
    <2>2. CASE q = r /\ request[r].kind = "api"
      BY <2>0, <2>1, <2>2 DEF IsFresh, HasRead, Commits, Idle, Shape, Refreshing
    <2>3. CASE q = r /\ request[r].kind # "api"
      BY <2>0, <2>1, <2>3 DEF IsFresh, HasRead, Commits, GoesOn, Shape, Refreshing
    <2>4. CASE q # r
      BY <2>0, <2>1, <2>4 DEF IsFresh, HasRead, Commits, Same
    <2> QED
      BY <2>2, <2>3, <2>4
  <1>4. ASSUME NEW r \in Requests, Fail(r) PROVE ReadsAreFresh'
    <2> SUFFICES ASSUME NEW q \in Requests, NEW j \in Isins PROVE IsFresh(q, j)'
      BY DEF ReadsAreFresh
    <2>0. TypeOK /\ IsFresh(q, j) /\ Shape(r) /\ AbsentIsBlank
      BY DEF IInv, ReadsAreFresh, Shapes
    <2>1. GivesUp(r) /\ UNCHANGED <<snapshots, torn>>
      BY <1>4, FailFacts DEF GivesUp, historyVars
    <2>2. CASE q = r
      BY <2>0, <2>1, <2>2 DEF IsFresh, HasRead, GivesUp, GoesOn, Idle, Shape, Refreshing
    <2>3. CASE q # r
      BY <2>0, <2>1, <2>3 DEF IsFresh, HasRead, GivesUp
    <2> QED
      BY <2>2, <2>3
  <1>5. ASSUME NEW r \in Requests, FindSnapshot(r) PROVE ReadsAreFresh'
    <2> SUFFICES ASSUME NEW q \in Requests, NEW j \in Isins PROVE IsFresh(q, j)'
      BY DEF ReadsAreFresh
    <2>0. TypeOK /\ IsFresh(q, j) /\ Shape(r) /\ AbsentIsBlank
      BY DEF IInv, ReadsAreFresh, Shapes
    <2>1. /\ UNCHANGED <<instrument, actions, snapshots, clock, torn>> /\ request[r].step = "raised"
          /\ \A p \in Requests \ {r} : request'[p] = request[p]
      BY <1>5, FindFacts DEF marketVars, historyVars
    <2>2. CASE q # r
      BY <2>0, <2>1, <2>2 DEF IsFresh, HasRead
    <2>3. CASE q = r /\ GivesUp(r)
      BY <2>0, <2>3 DEF IsFresh, HasRead, GivesUp, GoesOn, Idle, Shape, Refreshing
    <2>4. ASSUME q = r, NEW s \in Newest(request[r].isin),
                 request'[r] = [request[r] EXCEPT !.step = "marking", !.received = s.received]
          PROVE  IsFresh(q, j)'
      BY <2>0, <2>1, <2>4 DEF IsFresh, HasRead, TypeOK, RequestType, Shape, Refreshing
    <2> QED
      BY <1>5, FindFacts, <2>2, <2>3, <2>4
  <1>6. ASSUME NEW r \in Requests, MarkSnapshot(r) PROVE ReadsAreFresh'
    <2> SUFFICES ASSUME NEW q \in Requests, NEW j \in Isins PROVE IsFresh(q, j)'
      BY DEF ReadsAreFresh
    <2>0. TypeOK /\ IsFresh(q, j) /\ Shape(r) /\ AbsentIsBlank
      BY DEF IInv, ReadsAreFresh, Shapes
    <2>1. GivesUp(r) /\ UNCHANGED torn
      BY <1>6, MarkFacts DEF GivesUp, historyVars
    <2>2. CASE q = r
      BY <2>0, <2>1, <2>2 DEF IsFresh, HasRead, GivesUp, GoesOn, Idle, Shape, Refreshing
    <2>3. CASE q # r
      BY <1>6, MarkFacts, <2>0, <2>1, <2>3 DEF IsFresh, HasRead, GivesUp
    <2> QED
      BY <2>2, <2>3
  <1> USE DEF IInv, ReadsAreFresh, IsFresh, HasRead, TypeOK, RequestType, Idle
  <1>7. ASSUME NEW r \in Requests, NEW i \in Isins,
              BeginRefresh(r, i)
       PROVE  ReadsAreFresh'
    BY QuotesAssumption, <1>7 DEF BeginRefresh, marketVars, historyVars
  <1>8. ASSUME NEW r \in Requests, BeginAll(r) PROVE ReadsAreFresh'
    BY QuotesAssumption, <1>8 DEF BeginAll, marketVars, historyVars
  <1>9. ASSUME NEW r \in Requests, NEW isins \in SUBSET Isins,
              BeginSheet(r, isins)
       PROVE  ReadsAreFresh'
    BY QuotesAssumption, <1>9 DEF BeginSheet, marketVars, historyVars
  <1>10. ASSUME NEW r \in Requests, NEW i \in Isins, NextIsin(r, i) PROVE ReadsAreFresh'
    BY QuotesAssumption, <1>10 DEF NextIsin, marketVars, historyVars
  <1>11. ASSUME NEW r \in Requests, GiveUpBatch(r) PROVE ReadsAreFresh'
    BY QuotesAssumption, <1>11 DEF GiveUpBatch, marketVars, historyVars
  <1>12. ASSUME NEW r \in Requests, EndBatch(r) PROVE ReadsAreFresh'
    BY QuotesAssumption, <1>12 DEF EndBatch, marketVars, historyVars
  <1>13. ASSUME NEW r \in Requests, NEW quote \in Quotes, NEW calendar \in Calendars,
              NEW repeated \in SUBSET calendar, ClientAnswers(r, quote, calendar, repeated)
       PROVE  ReadsAreFresh'
    BY QuotesAssumption, <1>13 DEF ClientAnswers, marketVars, historyVars
  <1>14. ASSUME NEW r \in Requests, ClientRaises(r) PROVE ReadsAreFresh'
    BY QuotesAssumption, <1>14 DEF ClientRaises, marketVars, historyVars
  <1>15. ASSUME NEW r \in Requests, Flush(r) PROVE ReadsAreFresh'
    BY QuotesAssumption, <1>15 DEF Flush, marketVars, historyVars
  <1>16. ASSUME NEW r \in Requests, Compare(r) PROVE ReadsAreFresh'
    BY QuotesAssumption, <1>16 DEF Compare, marketVars, historyVars
  <1>17. ASSUME NEW r \in Requests, CommitRefused(r) PROVE ReadsAreFresh'
    BY QuotesAssumption, <1>17 DEF CommitRefused, marketVars, historyVars
  <1>18. ASSUME NEW r \in Requests, QueueEvent(r) PROVE ReadsAreFresh'
    BY QuotesAssumption, <1>18 DEF QueueEvent, marketVars, historyVars
  <1>19. ASSUME Restart PROVE ReadsAreFresh'
    BY QuotesAssumption, <1>19 DEF Restart, marketVars, historyVars
  <1>20. ASSUME UNCHANGED refreshVars PROVE ReadsAreFresh'
    BY QuotesAssumption, <1>20 DEF refreshVars, marketVars
  <1> QED
    BY <1>1, <1>2, <1>3, <1>4, <1>5, <1>6, <1>7, <1>8, <1>9, <1>10,
       <1>11, <1>12, <1>13, <1>14, <1>15, <1>16, <1>17, <1>18, <1>19, <1>20
    DEF RefreshNext, Begin, Step

\* No step removes an instrument.
LEMMA NextStay == IInv /\ [RefreshNext]_refreshVars => RowsStay'
  <1> SUFFICES ASSUME IInv, [RefreshNext]_refreshVars PROVE RowsStay'
    OBVIOUS
  <1>1. ASSUME NEW r \in Requests, CommitBare(r) PROVE RowsStay'
    <2> SUFFICES ASSUME NEW q \in Requests, NEW j \in Isins PROVE Stays(q, j)'
      BY DEF RowsStay
    <2>0. TypeOK /\ Stays(q, j)
      BY DEF IInv, RowsStay
    <2>1. UNCHANGED <<actions, snapshots, clock, torn>>
      BY <1>1 DEF CommitBare, historyVars
    <2>2. CASE q = r
      BY <1>1, CommitBareFacts, <2>0, <2>1, <2>2 DEF Stays, Absent, Idle, Bare
    <2>3. CASE q # r
      BY <1>1, CommitBareFacts, <2>0, <2>1, <2>3 DEF Stays, Absent, Same, Bare
    <2> QED
      BY <2>2, <2>3
  <1>2. ASSUME NEW r \in Requests, Commit(r) PROVE RowsStay'
    <2> SUFFICES ASSUME NEW q \in Requests, NEW j \in Isins PROVE Stays(q, j)'
      BY DEF RowsStay
    <2>0. TypeOK /\ Stays(q, j)
      BY DEF IInv, RowsStay
    <2>1. Commits(r, request[r].isin) /\ UNCHANGED clock
          /\ \A i \in Isins \ {request[r].isin} : i \in torn' <=> i \in torn
      BY <1>2, CommitFacts DEF Commit
    <2>2. CASE q = r /\ request[r].kind = "api"
      <3>1. request'[r] = [Idle EXCEPT !.kind = "api", !.step = "event"]
        BY <2>1, <2>2 DEF Commits
      <3>2. request'[r].seen[j] = Absent
        BY <3>1 DEF Idle
      <3> QED
        BY <2>2, <3>2 DEF Stays, Absent
    <2>3. CASE q = r /\ request[r].kind # "api"
      BY <2>0, <2>1, <2>3 DEF Stays, Absent, Commits, GoesOn
    <2>4. CASE q # r
      BY <2>0, <2>1, <2>4 DEF Stays, Absent, Commits, Same
    <2> QED
      BY <2>2, <2>3, <2>4
  <1>3. ASSUME NEW r \in Requests, Fail(r) PROVE RowsStay'
    <2> SUFFICES ASSUME NEW q \in Requests, NEW j \in Isins PROVE Stays(q, j)'
      BY DEF RowsStay
    <2>0. TypeOK /\ Stays(q, j)
      BY DEF IInv, RowsStay
    <2>1. GivesUp(r) /\ UNCHANGED <<snapshots, torn>>
      BY <1>3, FailFacts DEF GivesUp, historyVars
    <2>2. CASE q = r
      BY <2>0, <2>1, <2>2 DEF Stays, Absent, GivesUp, GoesOn, Idle
    <2>3. CASE q # r
      BY <2>0, <2>1, <2>3 DEF Stays, Absent, GivesUp
    <2> QED
      BY <2>2, <2>3
  <1>4. ASSUME NEW r \in Requests, FindSnapshot(r) PROVE RowsStay'
    <2> SUFFICES ASSUME NEW q \in Requests, NEW j \in Isins PROVE Stays(q, j)'
      BY DEF RowsStay
    <2>0. TypeOK /\ Stays(q, j)
      BY DEF IInv, RowsStay
    <2>1. /\ UNCHANGED <<instrument, actions, snapshots, clock, torn>> /\ request[r].step = "raised"
          /\ \A p \in Requests \ {r} : request'[p] = request[p]
      BY <1>4, FindFacts DEF marketVars, historyVars
    <2>2. CASE q # r
      BY <2>0, <2>1, <2>2 DEF Stays, Absent
    <2>3. CASE q = r /\ GivesUp(r)
      BY <2>0, <2>3 DEF Stays, Absent, GivesUp, GoesOn, Idle
    <2>4. ASSUME q = r, NEW s \in Newest(request[r].isin),
                 request'[r] = [request[r] EXCEPT !.step = "marking", !.received = s.received]
          PROVE  Stays(q, j)'
      BY <2>0, <2>1, <2>4 DEF Stays, Absent, TypeOK, RequestType
    <2> QED
      BY <1>4, FindFacts, <2>2, <2>3, <2>4
  <1>5. ASSUME NEW r \in Requests, MarkSnapshot(r) PROVE RowsStay'
    <2> SUFFICES ASSUME NEW q \in Requests, NEW j \in Isins PROVE Stays(q, j)'
      BY DEF RowsStay
    <2>0. TypeOK /\ Stays(q, j)
      BY DEF IInv, RowsStay
    <2>1. GivesUp(r) /\ UNCHANGED torn
      BY <1>5, MarkFacts DEF GivesUp, historyVars
    <2>2. CASE q = r
      BY <2>0, <2>1, <2>2 DEF Stays, Absent, GivesUp, GoesOn, Idle
    <2>3. CASE q # r
      BY <1>5, MarkFacts, <2>0, <2>1, <2>3 DEF Stays, Absent, GivesUp
    <2> QED
      BY <2>2, <2>3
  <1> USE DEF IInv, RowsStay, Stays, Absent, TypeOK, RequestType, Idle
  <1>6. ASSUME NEW r \in Requests, NEW i \in Isins, BeginRefresh(r, i) PROVE RowsStay'
    BY QuotesAssumption, <1>6 DEF BeginRefresh, marketVars, historyVars
  <1>7. ASSUME NEW r \in Requests, NEW i \in Isins, BeginBare(r, i) PROVE RowsStay'
    BY QuotesAssumption, <1>7 DEF BeginBare, marketVars, historyVars
  <1>8. ASSUME NEW r \in Requests, BeginAll(r) PROVE RowsStay'
    BY QuotesAssumption, <1>8 DEF BeginAll, marketVars, historyVars
  <1>9. ASSUME NEW r \in Requests, NEW isins \in SUBSET Isins,
              BeginSheet(r, isins)
       PROVE  RowsStay'
    BY QuotesAssumption, <1>9 DEF BeginSheet, marketVars, historyVars
  <1>10. ASSUME NEW r \in Requests, NEW i \in Isins, NextIsin(r, i) PROVE RowsStay'
    BY QuotesAssumption, <1>10 DEF NextIsin, marketVars, historyVars
  <1>11. ASSUME NEW r \in Requests, GiveUpBatch(r) PROVE RowsStay'
    BY QuotesAssumption, <1>11 DEF GiveUpBatch, marketVars, historyVars
  <1>12. ASSUME NEW r \in Requests, EndBatch(r) PROVE RowsStay'
    BY QuotesAssumption, <1>12 DEF EndBatch, marketVars, historyVars
  <1>13. ASSUME NEW r \in Requests, NEW quote \in Quotes, NEW calendar \in Calendars,
              NEW repeated \in SUBSET calendar, ClientAnswers(r, quote, calendar, repeated)
       PROVE  RowsStay'
    BY QuotesAssumption, <1>13 DEF ClientAnswers, marketVars, historyVars
  <1>14. ASSUME NEW r \in Requests, ClientRaises(r) PROVE RowsStay'
    BY QuotesAssumption, <1>14 DEF ClientRaises, marketVars, historyVars
  <1>15. ASSUME NEW r \in Requests, Flush(r) PROVE RowsStay'
    BY QuotesAssumption, <1>15 DEF Flush, marketVars, historyVars
  <1>16. ASSUME NEW r \in Requests, Compare(r) PROVE RowsStay'
    BY QuotesAssumption, <1>16 DEF Compare, marketVars, historyVars
  <1>17. ASSUME NEW r \in Requests, CommitRefused(r) PROVE RowsStay'
    BY QuotesAssumption, <1>17 DEF CommitRefused, marketVars, historyVars
  <1>18. ASSUME NEW r \in Requests, QueueEvent(r) PROVE RowsStay'
    BY QuotesAssumption, <1>18 DEF QueueEvent, marketVars, historyVars
  <1>19. ASSUME Restart PROVE RowsStay'
    BY QuotesAssumption, <1>19 DEF Restart, marketVars, historyVars
  <1>20. ASSUME UNCHANGED refreshVars PROVE RowsStay'
    BY QuotesAssumption, <1>20 DEF refreshVars, marketVars
  <1> QED
    BY <1>1, <1>2, <1>3, <1>4, <1>5, <1>6, <1>7, <1>8, <1>9, <1>10,
       <1>11, <1>12, <1>13, <1>14, <1>15, <1>16, <1>17, <1>18, <1>19, <1>20
    DEF RefreshNext, Begin, Step

\* Actions are added under those who have compared only by overtaking them.
LEMMA NextNew == IInv /\ [RefreshNext]_refreshVars => NewIsNew'
  <1> SUFFICES ASSUME IInv, [RefreshNext]_refreshVars PROVE NewIsNew'
    OBVIOUS
  <1>1. ASSUME NEW r \in Requests, CommitBare(r) PROVE NewIsNew'
    <2> SUFFICES ASSUME NEW q \in Requests PROVE IsNew(q)'
      BY DEF NewIsNew
    <2>0. TypeOK /\ IsNew(q) /\ Shape(q)
      BY DEF IInv, NewIsNew, Shapes
    <2>1. UNCHANGED <<actions, snapshots, clock, torn>>
      BY <1>1 DEF CommitBare, historyVars
    <2>2. CASE q = r
      BY <1>1, CommitBareFacts, <2>0, <2>1, <2>2 DEF IsNew, HasRead, Idle, Bare
    <2>3. CASE q # r
      BY <1>1, CommitBareFacts, <2>0, <2>1, <2>3 DEF IsNew, HasRead, Same, Bare, Shape
    <2> QED
      BY <2>2, <2>3
  <1>2. ASSUME NEW r \in Requests, Commit(r) PROVE NewIsNew'
    <2> SUFFICES ASSUME NEW q \in Requests PROVE IsNew(q)'
      BY DEF NewIsNew
    <2>0. TypeOK /\ IsNew(q) /\ Shape(q)
      BY DEF IInv, NewIsNew, Shapes
    <2>1. Commits(r, request[r].isin) /\ UNCHANGED clock
          /\ \A i \in Isins \ {request[r].isin} : i \in torn' <=> i \in torn
      BY <1>2, CommitFacts DEF Commit
    <2>2. CASE q = r /\ request[r].kind = "api"
      BY <2>0, <2>1, <2>2 DEF IsNew, HasRead, Commits, Idle
    <2>3. CASE q = r /\ request[r].kind # "api"
      BY <2>0, <2>1, <2>3 DEF IsNew, HasRead, Commits, GoesOn
    <2>4. CASE q # r
      BY <2>0, <2>1, <2>4 DEF IsNew, HasRead, Commits, Same, Shape
    <2> QED
      BY <2>2, <2>3, <2>4
  <1>3. ASSUME NEW r \in Requests, Fail(r) PROVE NewIsNew'
    <2> SUFFICES ASSUME NEW q \in Requests PROVE IsNew(q)'
      BY DEF NewIsNew
    <2>0. TypeOK /\ IsNew(q) /\ Shape(q)
      BY DEF IInv, NewIsNew, Shapes
    <2>1. GivesUp(r) /\ UNCHANGED <<snapshots, torn>>
      BY <1>3, FailFacts DEF GivesUp, historyVars
    <2>2. CASE q = r
      BY <2>0, <2>1, <2>2 DEF IsNew, HasRead, GivesUp, GoesOn, Idle
    <2>3. CASE q # r
      BY <2>0, <2>1, <2>3 DEF IsNew, HasRead, GivesUp, Shape
    <2> QED
      BY <2>2, <2>3
  <1>4. ASSUME NEW r \in Requests, FindSnapshot(r) PROVE NewIsNew'
    <2> SUFFICES ASSUME NEW q \in Requests PROVE IsNew(q)'
      BY DEF NewIsNew
    <2>0. TypeOK /\ IsNew(q) /\ Shape(q)
      BY DEF IInv, NewIsNew, Shapes
    <2>1. /\ UNCHANGED <<instrument, actions, snapshots, clock, torn>> /\ request[r].step = "raised"
          /\ \A p \in Requests \ {r} : request'[p] = request[p]
      BY <1>4, FindFacts DEF marketVars, historyVars
    <2>2. CASE q # r
      BY <2>0, <2>1, <2>2 DEF IsNew, HasRead, Shape
    <2>3. CASE q = r /\ GivesUp(r)
      BY <2>0, <2>3 DEF IsNew, HasRead, GivesUp, GoesOn, Idle
    <2>4. ASSUME q = r, NEW s \in Newest(request[r].isin),
                 request'[r] = [request[r] EXCEPT !.step = "marking", !.received = s.received]
          PROVE  IsNew(q)'
      BY <2>0, <2>1, <2>4 DEF IsNew, HasRead, TypeOK, RequestType
    <2> QED
      BY <1>4, FindFacts, <2>2, <2>3, <2>4
  <1>5. ASSUME NEW r \in Requests, MarkSnapshot(r) PROVE NewIsNew'
    <2> SUFFICES ASSUME NEW q \in Requests PROVE IsNew(q)'
      BY DEF NewIsNew
    <2>0. TypeOK /\ IsNew(q) /\ Shape(q)
      BY DEF IInv, NewIsNew, Shapes
    <2>1. GivesUp(r) /\ UNCHANGED torn
      BY <1>5, MarkFacts DEF GivesUp, historyVars
    <2>2. CASE q = r
      BY <2>0, <2>1, <2>2 DEF IsNew, HasRead, GivesUp, GoesOn, Idle
    <2>3. CASE q # r
      BY <1>5, MarkFacts, <2>0, <2>1, <2>3 DEF IsNew, HasRead, GivesUp, Shape
    <2> QED
      BY <2>2, <2>3
  <1> USE DEF IInv, NewIsNew, IsNew, HasRead, TypeOK, RequestType, Idle
  <1>6. ASSUME NEW r \in Requests, NEW i \in Isins, BeginRefresh(r, i) PROVE NewIsNew'
    BY QuotesAssumption, <1>6 DEF BeginRefresh, marketVars, historyVars
  <1>7. ASSUME NEW r \in Requests, NEW i \in Isins, BeginBare(r, i) PROVE NewIsNew'
    BY QuotesAssumption, <1>7 DEF BeginBare, marketVars, historyVars
  <1>8. ASSUME NEW r \in Requests, BeginAll(r) PROVE NewIsNew'
    BY QuotesAssumption, <1>8 DEF BeginAll, marketVars, historyVars
  <1>9. ASSUME NEW r \in Requests, NEW isins \in SUBSET Isins,
              BeginSheet(r, isins)
       PROVE  NewIsNew'
    BY QuotesAssumption, <1>9 DEF BeginSheet, marketVars, historyVars
  <1>10. ASSUME NEW r \in Requests, NEW i \in Isins, NextIsin(r, i) PROVE NewIsNew'
    BY QuotesAssumption, <1>10 DEF NextIsin, marketVars, historyVars
  <1>11. ASSUME NEW r \in Requests, GiveUpBatch(r) PROVE NewIsNew'
    BY QuotesAssumption, <1>11 DEF GiveUpBatch, marketVars, historyVars
  <1>12. ASSUME NEW r \in Requests, EndBatch(r) PROVE NewIsNew'
    BY QuotesAssumption, <1>12 DEF EndBatch, marketVars, historyVars
  <1>13. ASSUME NEW r \in Requests, NEW quote \in Quotes, NEW calendar \in Calendars,
              NEW repeated \in SUBSET calendar, ClientAnswers(r, quote, calendar, repeated)
       PROVE  NewIsNew'
    <2> SUFFICES ASSUME NEW q \in Requests PROVE IsNew(q)'
      BY DEF NewIsNew
    <2>1. UNCHANGED marketVars
      BY <1>13 DEF ClientAnswers
    <2>2. CASE q = r
      <3>1. request'[r].step = "answered"
        BY <1>13 DEF ClientAnswers, TypeOK, RequestType
      <3> QED
        BY <2>2, <3>1 DEF IsNew
    <2>3. CASE q # r
      <3>1. request'[q] = request[q]
        BY <1>13, <2>3 DEF ClientAnswers, TypeOK
      <3> QED
        BY <2>1, <3>1 DEF IsNew, NewIsNew, marketVars
    <2> QED
      BY <2>2, <2>3
  <1>14. ASSUME NEW r \in Requests, ClientRaises(r) PROVE NewIsNew'
    BY QuotesAssumption, <1>14 DEF ClientRaises, marketVars, historyVars
  <1>15. ASSUME NEW r \in Requests, Flush(r) PROVE NewIsNew'
    BY QuotesAssumption, <1>15 DEF Flush, marketVars, historyVars
  <1>16. ASSUME NEW r \in Requests, Compare(r) PROVE NewIsNew'
    BY QuotesAssumption, <1>16 DEF Compare, marketVars, historyVars
  <1>17. ASSUME NEW r \in Requests, CommitRefused(r) PROVE NewIsNew'
    BY QuotesAssumption, <1>17 DEF CommitRefused, marketVars, historyVars
  <1>18. ASSUME NEW r \in Requests, QueueEvent(r) PROVE NewIsNew'
    BY QuotesAssumption, <1>18 DEF QueueEvent, marketVars, historyVars
  <1>19. ASSUME Restart PROVE NewIsNew'
    BY QuotesAssumption, <1>19 DEF Restart, marketVars, historyVars
  <1>20. ASSUME UNCHANGED refreshVars PROVE NewIsNew'
    BY QuotesAssumption, <1>20 DEF refreshVars, marketVars
  <1> QED
    BY <1>1, <1>2, <1>3, <1>4, <1>5, <1>6, <1>7, <1>8, <1>9, <1>10,
       <1>11, <1>12, <1>13, <1>14, <1>15, <1>16, <1>17, <1>18, <1>19, <1>20
    DEF RefreshNext, Begin, Step

\* No two snapshots of one time are stored.
LEMMA NextStored == IInv /\ [RefreshNext]_refreshVars => StoredTimesDiffer'
  <1> SUFFICES ASSUME IInv, [RefreshNext]_refreshVars PROVE StoredTimesDiffer'
    OBVIOUS
  <1>1. ASSUME NEW r \in Requests, CommitBare(r) PROVE StoredTimesDiffer'
    <2>1. StoredTimesDiffer /\ UNCHANGED snapshots
      BY <1>1 DEF IInv, CommitBare, TimesDiffer
    <2> QED
      BY <2>1 DEF StoredTimesDiffer
  <1>2. ASSUME NEW r \in Requests, Commit(r) PROVE StoredTimesDiffer'
    <2>1. Commits(r, request[r].isin) /\ StoredTimesDiffer /\ AnswerDiffers(r)
      BY <1>2, CommitFacts DEF IInv, TimesDiffer, AllAnswersDiffer
    <2> DEFINE new == [received |-> request[r].received, quote |-> request[r].quote, error |-> FALSE]
    <2>2. /\ request[r].isin \in Isins /\ new.received = request[r].received
          /\ \A s \in snapshots[request[r].isin] : s.received # request[r].received
      BY <2>1 DEF AnswerDiffers, HasAnswer, Commits
    <2>3. /\ snapshots'[request[r].isin] = snapshots[request[r].isin] \cup {new}
          /\ \A j \in Isins \ {request[r].isin} : snapshots'[j] = snapshots[j]
      BY <2>1 DEF Commits
    <2> HIDE DEF new
    <2> QED
      BY <2>1, <2>2, <2>3 DEF StoredTimesDiffer
  <1>3. ASSUME NEW r \in Requests, MarkSnapshot(r) PROVE StoredTimesDiffer'
    <2> QED
      BY <1>3, MarkFacts DEF StoredTimesDiffer
  <1> USE DEF IInv, StoredTimesDiffer, TimesDiffer, TypeOK, RequestType, Idle
  <1>4. ASSUME NEW r \in Requests, NEW i \in Isins,
              BeginRefresh(r, i)
       PROVE  StoredTimesDiffer'
    BY QuotesAssumption, <1>4 DEF BeginRefresh, marketVars, historyVars
  <1>5. ASSUME NEW r \in Requests, NEW i \in Isins,
              BeginBare(r, i)
       PROVE  StoredTimesDiffer'
    BY QuotesAssumption, <1>5 DEF BeginBare, marketVars, historyVars
  <1>6. ASSUME NEW r \in Requests, BeginAll(r) PROVE StoredTimesDiffer'
    BY QuotesAssumption, <1>6 DEF BeginAll, marketVars, historyVars
  <1>7. ASSUME NEW r \in Requests, NEW isins \in SUBSET Isins,
              BeginSheet(r, isins)
       PROVE  StoredTimesDiffer'
    BY QuotesAssumption, <1>7 DEF BeginSheet, marketVars, historyVars
  <1>8. ASSUME NEW r \in Requests, NEW i \in Isins,
              NextIsin(r, i)
       PROVE  StoredTimesDiffer'
    BY QuotesAssumption, <1>8 DEF NextIsin, marketVars, historyVars
  <1>9. ASSUME NEW r \in Requests, GiveUpBatch(r) PROVE StoredTimesDiffer'
    BY QuotesAssumption, <1>9 DEF GiveUpBatch, marketVars, historyVars
  <1>10. ASSUME NEW r \in Requests, EndBatch(r) PROVE StoredTimesDiffer'
    BY QuotesAssumption, <1>10 DEF EndBatch, marketVars, historyVars
  <1>11. ASSUME NEW r \in Requests, NEW quote \in Quotes, NEW calendar \in Calendars,
              NEW repeated \in SUBSET calendar, ClientAnswers(r, quote, calendar, repeated)
       PROVE  StoredTimesDiffer'
    BY QuotesAssumption, <1>11 DEF ClientAnswers, marketVars, historyVars
  <1>12. ASSUME NEW r \in Requests, ClientRaises(r) PROVE StoredTimesDiffer'
    BY QuotesAssumption, <1>12 DEF ClientRaises, marketVars, historyVars
  <1>13. ASSUME NEW r \in Requests, Flush(r) PROVE StoredTimesDiffer'
    BY QuotesAssumption, <1>13 DEF Flush, marketVars, historyVars
  <1>14. ASSUME NEW r \in Requests, Compare(r) PROVE StoredTimesDiffer'
    BY QuotesAssumption, <1>14 DEF Compare, marketVars, historyVars
  <1>15. ASSUME NEW r \in Requests, CommitRefused(r) PROVE StoredTimesDiffer'
    BY QuotesAssumption, <1>15 DEF CommitRefused, marketVars, historyVars
  <1>16. ASSUME NEW r \in Requests, Fail(r) PROVE StoredTimesDiffer'
    BY QuotesAssumption, <1>16 DEF Fail, marketVars, historyVars, Proceed
  <1>17. ASSUME NEW r \in Requests, QueueEvent(r) PROVE StoredTimesDiffer'
    BY QuotesAssumption, <1>17 DEF QueueEvent, marketVars, historyVars
  <1>18. ASSUME NEW r \in Requests, FindSnapshot(r) PROVE StoredTimesDiffer'
    BY QuotesAssumption, <1>18 DEF FindSnapshot, marketVars, historyVars, Proceed
  <1>19. ASSUME Restart PROVE StoredTimesDiffer'
    BY QuotesAssumption, <1>19 DEF Restart, marketVars, historyVars
  <1>20. ASSUME UNCHANGED refreshVars PROVE StoredTimesDiffer'
    BY QuotesAssumption, <1>20 DEF refreshVars, marketVars
  <1> QED
    BY <1>1, <1>2, <1>3, <1>4, <1>5, <1>6, <1>7, <1>8, <1>9, <1>10,
       <1>11, <1>12, <1>13, <1>14, <1>15, <1>16, <1>17, <1>18, <1>19, <1>20
    DEF RefreshNext, Begin, Step

\* The time of an answer is that of no stored snapshot.
LEMMA NextDiffers == IInv /\ [RefreshNext]_refreshVars => AllAnswersDiffer'
  <1> SUFFICES ASSUME IInv, [RefreshNext]_refreshVars PROVE AllAnswersDiffer'
    OBVIOUS
  <1>1. ASSUME NEW r \in Requests, NEW quote \in Quotes, NEW calendar \in Calendars,
              NEW repeated \in SUBSET calendar, ClientAnswers(r, quote, calendar, repeated)
       PROVE  AllAnswersDiffer'
    <2> SUFFICES ASSUME NEW q \in Requests PROVE AnswerDiffers(q)'
      BY DEF AllAnswersDiffer
    <2>0. TypeOK /\ AnswerDiffers(q) /\ Shape(q) /\ (\A p \in Requests : BothDiffer(q, p))
      BY DEF IInv, AllAnswersDiffer, TimesDiffer, AnswersDiffer, Shapes
    <2>1. /\ request[r].step = "fetching" /\ clock' = clock + 1 /\ UNCHANGED <<marketVars, historyVars>>
          /\ request'[r] = [request[r] EXCEPT !.step = "answered", !.received = clock + 1,
                                          !.quote = quote, !.calendar = calendar,
                                       !.repeated = repeated]
          /\ \A p \in Requests \ {r} : request'[p] = request[p]
      BY <1>1, <2>0 DEF ClientAnswers, TypeOK, historyVars
    <2>2. CASE q = r
      <3>1. request'[r].isin = request[r].isin /\ request'[r].received = clock + 1
        BY <2>0, <2>1 DEF TypeOK, RequestType
      <3>2. \A s \in snapshots'[request[r].isin] : s.received \in 1..clock
        BY <2>0, <2>1, <2>2 DEF TypeOK, Shape, marketVars
      <3> QED
        BY ClockAssumption, <2>0, <2>2, <3>1, <3>2 DEF AnswerDiffers, TypeOK
    <2>3. CASE q # r
      BY ClockAssumption, <2>0, <2>1, <2>3 DEF AnswerDiffers, HasAnswer, marketVars, historyVars, Shape, BothDiffer
    <2> QED
      BY <2>2, <2>3
  <1>2. ASSUME NEW r \in Requests, CommitBare(r) PROVE AllAnswersDiffer'
    <2> SUFFICES ASSUME NEW q \in Requests PROVE AnswerDiffers(q)'
      BY DEF AllAnswersDiffer
    <2>0. TypeOK /\ AnswerDiffers(q) /\ Shape(q) /\ (\A p \in Requests : BothDiffer(q, p))
      BY DEF IInv, AllAnswersDiffer, TimesDiffer, AnswersDiffer, Shapes
    <2>1. UNCHANGED <<actions, snapshots, clock, torn>>
      BY <1>2 DEF CommitBare, historyVars
    <2>2. CASE q = r
      BY <1>2, CommitBareFacts, <2>0, <2>1, <2>2 DEF AnswerDiffers, HasAnswer, Idle, Bare, Shape
    <2>3. CASE q # r
      BY <1>2, CommitBareFacts, <2>0, <2>1, <2>3 DEF AnswerDiffers, HasAnswer, Same, Bare, Shape, BothDiffer
    <2> QED
      BY <2>2, <2>3
  <1>3. ASSUME NEW r \in Requests, Commit(r) PROVE AllAnswersDiffer'
    <2> SUFFICES ASSUME NEW q \in Requests PROVE AnswerDiffers(q)'
      BY DEF AllAnswersDiffer
    <2>0. TypeOK /\ AnswerDiffers(q) /\ Shape(q) /\ (\A p \in Requests : BothDiffer(q, p))
      BY DEF IInv, AllAnswersDiffer, TimesDiffer, AnswersDiffer, Shapes
    <2>1. Commits(r, request[r].isin) /\ UNCHANGED clock
          /\ \A i \in Isins \ {request[r].isin} : i \in torn' <=> i \in torn
      BY <1>3, CommitFacts DEF Commit
    <2>2. CASE q = r /\ request[r].kind = "api"
      BY <2>0, <2>1, <2>2 DEF AnswerDiffers, HasAnswer, Commits, Idle, Shape
    <2>3. CASE q = r /\ request[r].kind # "api"
      BY <2>0, <2>1, <2>3 DEF AnswerDiffers, HasAnswer, Commits, GoesOn, Shape
    <2>4. CASE q # r
      BY <2>0, <2>1, <2>4 DEF AnswerDiffers, HasAnswer, Commits, Same, Shape, BothDiffer
    <2> QED
      BY <2>2, <2>3, <2>4
  <1>4. ASSUME NEW r \in Requests, Fail(r) PROVE AllAnswersDiffer'
    <2> SUFFICES ASSUME NEW q \in Requests PROVE AnswerDiffers(q)'
      BY DEF AllAnswersDiffer
    <2>0. TypeOK /\ AnswerDiffers(q) /\ Shape(q) /\ (\A p \in Requests : BothDiffer(q, p))
      BY DEF IInv, AllAnswersDiffer, TimesDiffer, AnswersDiffer, Shapes
    <2>1. GivesUp(r) /\ UNCHANGED <<snapshots, torn>>
      BY <1>4, FailFacts DEF GivesUp, historyVars
    <2>2. CASE q = r
      BY <2>0, <2>1, <2>2 DEF AnswerDiffers, HasAnswer, GivesUp, GoesOn, Idle, Shape
    <2>3. CASE q # r
      BY <2>0, <2>1, <2>3 DEF AnswerDiffers, HasAnswer, GivesUp, Shape, BothDiffer
    <2> QED
      BY <2>2, <2>3
  <1>5. ASSUME NEW r \in Requests, FindSnapshot(r) PROVE AllAnswersDiffer'
    <2> SUFFICES ASSUME NEW q \in Requests PROVE AnswerDiffers(q)'
      BY DEF AllAnswersDiffer
    <2>0. TypeOK /\ AnswerDiffers(q) /\ Shape(q) /\ (\A p \in Requests : BothDiffer(q, p))
      BY DEF IInv, AllAnswersDiffer, TimesDiffer, AnswersDiffer, Shapes
    <2>1. /\ UNCHANGED <<instrument, actions, snapshots, clock, torn>> /\ request[r].step = "raised"
          /\ \A p \in Requests \ {r} : request'[p] = request[p]
      BY <1>5, FindFacts DEF marketVars, historyVars
    <2>2. CASE q # r
      BY <2>0, <2>1, <2>2 DEF AnswerDiffers, HasAnswer, Shape, BothDiffer
    <2>3. CASE q = r /\ GivesUp(r)
      BY <2>0, <2>3 DEF AnswerDiffers, HasAnswer, GivesUp, GoesOn, Idle, Shape
    <2>4. ASSUME q = r, NEW s \in Newest(request[r].isin),
                 request'[r] = [request[r] EXCEPT !.step = "marking", !.received = s.received]
          PROVE  AnswerDiffers(q)'
      BY <2>0, <2>1, <2>4 DEF AnswerDiffers, HasAnswer, TypeOK, RequestType, Shape
    <2> QED
      BY <1>5, FindFacts, <2>2, <2>3, <2>4
  <1>6. ASSUME NEW r \in Requests, MarkSnapshot(r) PROVE AllAnswersDiffer'
    <2> SUFFICES ASSUME NEW q \in Requests PROVE AnswerDiffers(q)'
      BY DEF AllAnswersDiffer
    <2>0. TypeOK /\ AnswerDiffers(q) /\ Shape(q) /\ (\A p \in Requests : BothDiffer(q, p))
      BY DEF IInv, AllAnswersDiffer, TimesDiffer, AnswersDiffer, Shapes
    <2>1. GivesUp(r) /\ UNCHANGED torn
      BY <1>6, MarkFacts DEF GivesUp, historyVars
    <2>2. CASE q = r
      BY <2>0, <2>1, <2>2 DEF AnswerDiffers, HasAnswer, GivesUp, GoesOn, Idle, Shape
    <2>3. CASE q # r
      BY <1>6, MarkFacts, <2>0, <2>1, <2>3 DEF AnswerDiffers, HasAnswer, GivesUp, Shape, BothDiffer
    <2> QED
      BY <2>2, <2>3
  <1> USE DEF IInv, AllAnswersDiffer, AnswerDiffers, HasAnswer, TypeOK, RequestType, Idle, TimesDiffer
  <1>7. ASSUME NEW r \in Requests, NEW i \in Isins,
              BeginRefresh(r, i)
       PROVE  AllAnswersDiffer'
    BY QuotesAssumption, <1>7 DEF BeginRefresh, marketVars, historyVars
  <1>8. ASSUME NEW r \in Requests, NEW i \in Isins,
              BeginBare(r, i)
       PROVE  AllAnswersDiffer'
    BY QuotesAssumption, <1>8 DEF BeginBare, marketVars, historyVars
  <1>9. ASSUME NEW r \in Requests, BeginAll(r) PROVE AllAnswersDiffer'
    BY QuotesAssumption, <1>9 DEF BeginAll, marketVars, historyVars
  <1>10. ASSUME NEW r \in Requests, NEW isins \in SUBSET Isins,
              BeginSheet(r, isins)
       PROVE  AllAnswersDiffer'
    BY QuotesAssumption, <1>10 DEF BeginSheet, marketVars, historyVars
  <1>11. ASSUME NEW r \in Requests, NEW i \in Isins,
              NextIsin(r, i)
       PROVE  AllAnswersDiffer'
    BY QuotesAssumption, <1>11 DEF NextIsin, marketVars, historyVars
  <1>12. ASSUME NEW r \in Requests, GiveUpBatch(r) PROVE AllAnswersDiffer'
    BY QuotesAssumption, <1>12 DEF GiveUpBatch, marketVars, historyVars
  <1>13. ASSUME NEW r \in Requests, EndBatch(r) PROVE AllAnswersDiffer'
    BY QuotesAssumption, <1>13 DEF EndBatch, marketVars, historyVars
  <1>14. ASSUME NEW r \in Requests, ClientRaises(r) PROVE AllAnswersDiffer'
    BY QuotesAssumption, <1>14 DEF ClientRaises, marketVars, historyVars
  <1>15. ASSUME NEW r \in Requests, Flush(r) PROVE AllAnswersDiffer'
    BY QuotesAssumption, <1>15 DEF Flush, marketVars, historyVars
  <1>16. ASSUME NEW r \in Requests, Compare(r) PROVE AllAnswersDiffer'
    BY QuotesAssumption, <1>16 DEF Compare, marketVars, historyVars
  <1>17. ASSUME NEW r \in Requests, CommitRefused(r) PROVE AllAnswersDiffer'
    BY QuotesAssumption, <1>17 DEF CommitRefused, marketVars, historyVars
  <1>18. ASSUME NEW r \in Requests, QueueEvent(r) PROVE AllAnswersDiffer'
    BY QuotesAssumption, <1>18 DEF QueueEvent, marketVars, historyVars
  <1>19. ASSUME Restart PROVE AllAnswersDiffer'
    BY QuotesAssumption, <1>19 DEF Restart, marketVars, historyVars
  <1>20. ASSUME UNCHANGED refreshVars PROVE AllAnswersDiffer'
    BY QuotesAssumption, <1>20 DEF refreshVars, marketVars
  <1> QED
    BY <1>1, <1>2, <1>3, <1>4, <1>5, <1>6, <1>7, <1>8, <1>9, <1>10,
       <1>11, <1>12, <1>13, <1>14, <1>15, <1>16, <1>17, <1>18, <1>19, <1>20
    DEF RefreshNext, Begin, Step

\* No two answers have one time.
LEMMA NextPairs == IInv /\ [RefreshNext]_refreshVars => AnswersDiffer'
  <1> SUFFICES ASSUME IInv, [RefreshNext]_refreshVars PROVE AnswersDiffer'
    OBVIOUS
  <1>1. ASSUME NEW r \in Requests, NEW quote \in Quotes, NEW calendar \in Calendars,
              NEW repeated \in SUBSET calendar, ClientAnswers(r, quote, calendar, repeated)
       PROVE  AnswersDiffer'
    <2> SUFFICES ASSUME NEW p \in Requests, NEW q \in Requests PROVE BothDiffer(p, q)'
      BY DEF AnswersDiffer
    <2>0. TypeOK /\ BothDiffer(p, q) /\ AnswerIsPast(p) /\ AnswerIsPast(q)
      BY DEF IInv, AnswersDiffer, TimesDiffer, Answers
    <2>1. /\ request[r].step = "fetching" /\ clock' = clock + 1 /\ UNCHANGED <<marketVars, historyVars>>
          /\ request'[r] = [request[r] EXCEPT !.step = "answered", !.received = clock + 1,
                                          !.quote = quote, !.calendar = calendar,
                                       !.repeated = repeated]
          /\ \A o \in Requests \ {r} : request'[o] = request[o]
      BY <1>1, <2>0 DEF ClientAnswers, TypeOK, historyVars
    <2>2. request'[r].received = clock + 1 /\ clock \in Nat
      BY <2>0, <2>1, ClockAssumption DEF TypeOK, RequestType
    <2>3. CASE p # r /\ q # r
      BY <2>0, <2>1, <2>3 DEF BothDiffer, HasAnswer
    <2>4. CASE p = r /\ q # r
      <3>1. request'[q] = request[q] /\ request'[p].received = clock + 1
        BY <2>1, <2>2, <2>4
      <3>2. HasAnswer(q)' => request'[q].received \in 1..clock
        BY <2>0, <3>1 DEF HasAnswer, AnswerIsPast
      <3> QED
        BY <2>2, <3>1, <3>2 DEF BothDiffer
    <2>5. CASE p # r /\ q = r
      <3>1. request'[p] = request[p] /\ request'[q].received = clock + 1
        BY <2>1, <2>2, <2>5
      <3>2. HasAnswer(p)' => request'[p].received \in 1..clock
        BY <2>0, <3>1 DEF HasAnswer, AnswerIsPast
      <3> QED
        BY <2>2, <3>1, <3>2 DEF BothDiffer
    <2>6. CASE p = q
      BY <2>6 DEF BothDiffer, HasAnswer
    <2> QED
      BY <2>3, <2>4, <2>5, <2>6
  <1>2. ASSUME NEW r \in Requests, CommitBare(r) PROVE AnswersDiffer'
    <2> SUFFICES ASSUME NEW p \in Requests, NEW q \in Requests PROVE BothDiffer(p, q)'
      BY DEF AnswersDiffer
    <2>0. TypeOK /\ BothDiffer(p, q) /\ AnswerIsPast(p) /\ AnswerIsPast(q)
      BY DEF IInv, AnswersDiffer, TimesDiffer, Answers
    <2>1. request'[r] = Idle /\ \A o \in Requests \ {r} : Same(o)
      BY <1>2, CommitBareFacts
    <2>2. request'[r].step \notin {"answered", "flushed", "compared", "stubbed"}
      BY <2>0, <2>1 DEF Idle
    <2>3. CASE p = r \/ q = r
      BY <2>2, <2>3 DEF BothDiffer, HasAnswer
    <2>4. CASE p # r /\ q # r
      BY <2>0, <2>1, <2>4 DEF BothDiffer, HasAnswer, Same
    <2> QED
      BY <2>3, <2>4
  <1>3. ASSUME NEW r \in Requests, Commit(r) PROVE AnswersDiffer'
    <2> SUFFICES ASSUME NEW p \in Requests, NEW q \in Requests PROVE BothDiffer(p, q)'
      BY DEF AnswersDiffer
    <2>0. TypeOK /\ BothDiffer(p, q) /\ AnswerIsPast(p) /\ AnswerIsPast(q)
      BY DEF IInv, AnswersDiffer, TimesDiffer, Answers
    <2>1. Commits(r, request[r].isin)
      BY <1>3, CommitFacts
    <2>2. request'[r].step \notin {"answered", "flushed", "compared", "stubbed"}
      BY <2>0, <2>1 DEF Commits, GoesOn, Idle
    <2>3. CASE p = r \/ q = r
      BY <2>2, <2>3 DEF BothDiffer, HasAnswer
    <2>4. CASE p # r /\ q # r
      BY <2>0, <2>1, <2>4 DEF BothDiffer, HasAnswer, Commits, Same
    <2> QED
      BY <2>3, <2>4
  <1>4. ASSUME NEW r \in Requests, Fail(r) PROVE AnswersDiffer'
    <2> SUFFICES ASSUME NEW p \in Requests, NEW q \in Requests PROVE BothDiffer(p, q)'
      BY DEF AnswersDiffer
    <2>0. TypeOK /\ BothDiffer(p, q) /\ AnswerIsPast(p) /\ AnswerIsPast(q)
      BY DEF IInv, AnswersDiffer, TimesDiffer, Answers
    <2>1. GivesUp(r)
      BY <1>4, FailFacts
    <2>2. request'[r].step \notin {"answered", "flushed", "compared", "stubbed"}
      BY <2>0, <2>1 DEF GivesUp, GoesOn, Idle
    <2>3. CASE p = r \/ q = r
      BY <2>2, <2>3 DEF BothDiffer, HasAnswer
    <2>4. CASE p # r /\ q # r
      BY <2>0, <2>1, <2>4 DEF BothDiffer, HasAnswer, GivesUp
    <2> QED
      BY <2>3, <2>4
  <1>5. ASSUME NEW r \in Requests, FindSnapshot(r) PROVE AnswersDiffer'
    <2> SUFFICES ASSUME NEW p \in Requests, NEW q \in Requests PROVE BothDiffer(p, q)'
      BY DEF AnswersDiffer
    <2>0. TypeOK /\ BothDiffer(p, q) /\ AnswerIsPast(p) /\ AnswerIsPast(q)
      BY DEF IInv, AnswersDiffer, TimesDiffer, Answers
    <2>1. \A o \in Requests \ {r} : request'[o] = request[o]
      BY <1>5, FindFacts
    <2>2. request'[r].step \notin {"answered", "flushed", "compared", "stubbed"}
      <3>1. CASE GivesUp(r)
        BY <3>1 DEF GivesUp, GoesOn, Idle
      <3>2. ASSUME NEW s, request'[r] = [request[r] EXCEPT !.step = "marking", !.received = s.received]
            PROVE  request'[r].step \notin {"answered", "flushed", "compared", "stubbed"}
        BY <2>0, <3>2 DEF TypeOK, RequestType
      <3> QED
        BY <1>5, FindFacts, <3>1, <3>2
    <2>3. CASE p = r \/ q = r
      BY <2>2, <2>3 DEF BothDiffer, HasAnswer
    <2>4. CASE p # r /\ q # r
      BY <2>0, <2>1, <2>4 DEF BothDiffer, HasAnswer
    <2> QED
      BY <2>3, <2>4
  <1>6. ASSUME NEW r \in Requests, MarkSnapshot(r) PROVE AnswersDiffer'
    <2> SUFFICES ASSUME NEW p \in Requests, NEW q \in Requests PROVE BothDiffer(p, q)'
      BY DEF AnswersDiffer
    <2>0. TypeOK /\ BothDiffer(p, q) /\ AnswerIsPast(p) /\ AnswerIsPast(q)
      BY DEF IInv, AnswersDiffer, TimesDiffer, Answers
    <2>1. GivesUp(r)
      BY <1>6, MarkFacts
    <2>2. request'[r].step \notin {"answered", "flushed", "compared", "stubbed"}
      BY <2>0, <2>1 DEF GivesUp, GoesOn, Idle
    <2>3. CASE p = r \/ q = r
      BY <2>2, <2>3 DEF BothDiffer, HasAnswer
    <2>4. CASE p # r /\ q # r
      BY <2>0, <2>1, <2>4 DEF BothDiffer, HasAnswer, GivesUp
    <2> QED
      BY <2>3, <2>4
  <1> USE DEF IInv, AnswersDiffer, BothDiffer, HasAnswer, TypeOK, RequestType, Idle, TimesDiffer
  <1>7. ASSUME NEW r \in Requests, NEW i \in Isins,
              BeginRefresh(r, i)
       PROVE  AnswersDiffer'
    BY QuotesAssumption, <1>7 DEF BeginRefresh, marketVars, historyVars
  <1>8. ASSUME NEW r \in Requests, NEW i \in Isins, BeginBare(r, i) PROVE AnswersDiffer'
    BY QuotesAssumption, <1>8 DEF BeginBare, marketVars, historyVars
  <1>9. ASSUME NEW r \in Requests, BeginAll(r) PROVE AnswersDiffer'
    BY QuotesAssumption, <1>9 DEF BeginAll, marketVars, historyVars
  <1>10. ASSUME NEW r \in Requests, NEW isins \in SUBSET Isins,
              BeginSheet(r, isins)
       PROVE  AnswersDiffer'
    BY QuotesAssumption, <1>10 DEF BeginSheet, marketVars, historyVars
  <1>11. ASSUME NEW r \in Requests, NEW i \in Isins, NextIsin(r, i) PROVE AnswersDiffer'
    BY QuotesAssumption, <1>11 DEF NextIsin, marketVars, historyVars
  <1>12. ASSUME NEW r \in Requests, GiveUpBatch(r) PROVE AnswersDiffer'
    BY QuotesAssumption, <1>12 DEF GiveUpBatch, marketVars, historyVars
  <1>13. ASSUME NEW r \in Requests, EndBatch(r) PROVE AnswersDiffer'
    BY QuotesAssumption, <1>13 DEF EndBatch, marketVars, historyVars
  <1>14. ASSUME NEW r \in Requests, ClientRaises(r) PROVE AnswersDiffer'
    BY QuotesAssumption, <1>14 DEF ClientRaises, marketVars, historyVars
  <1>15. ASSUME NEW r \in Requests, Flush(r) PROVE AnswersDiffer'
    BY QuotesAssumption, <1>15 DEF Flush, marketVars, historyVars
  <1>16. ASSUME NEW r \in Requests, Compare(r) PROVE AnswersDiffer'
    BY QuotesAssumption, <1>16 DEF Compare, marketVars, historyVars
  <1>17. ASSUME NEW r \in Requests, CommitRefused(r) PROVE AnswersDiffer'
    BY QuotesAssumption, <1>17 DEF CommitRefused, marketVars, historyVars
  <1>18. ASSUME NEW r \in Requests, QueueEvent(r) PROVE AnswersDiffer'
    BY QuotesAssumption, <1>18 DEF QueueEvent, marketVars, historyVars
  <1>19. ASSUME Restart PROVE AnswersDiffer'
    BY QuotesAssumption, <1>19 DEF Restart, marketVars, historyVars
  <1>20. ASSUME UNCHANGED refreshVars PROVE AnswersDiffer'
    BY QuotesAssumption, <1>20 DEF refreshVars, marketVars
  <1> QED
    BY <1>1, <1>2, <1>3, <1>4, <1>5, <1>6, <1>7, <1>8, <1>9, <1>10,
       <1>11, <1>12, <1>13, <1>14, <1>15, <1>16, <1>17, <1>18, <1>19, <1>20
    DEF RefreshNext, Begin, Step

\* The time of an answer is the newest there is.
LEMMA NextNewest == IInv /\ [RefreshNext]_refreshVars => AnswersAreNewest'
  <1> SUFFICES ASSUME IInv, [RefreshNext]_refreshVars PROVE AnswersAreNewest'
    OBVIOUS
  <1>1. ASSUME NEW r \in Requests, NEW quote \in Quotes, NEW calendar \in Calendars,
              NEW repeated \in SUBSET calendar, ClientAnswers(r, quote, calendar, repeated)
       PROVE  AnswersAreNewest'
    <2> SUFFICES ASSUME NEW q \in Requests PROVE AnswerIsNewest(q)'
      BY DEF AnswersAreNewest
    <2>0. TypeOK /\ AnswerIsNewest(q) /\ Shape(q)
      BY DEF IInv, AnswersAreNewest, Shapes
    <2>1. /\ request[r].step = "fetching" /\ clock' = clock + 1 /\ UNCHANGED <<marketVars, historyVars>>
          /\ request'[r] = [request[r] EXCEPT !.step = "answered", !.received = clock + 1,
                                          !.quote = quote, !.calendar = calendar,
                                       !.repeated = repeated]
          /\ \A p \in Requests \ {r} : request'[p] = request[p]
      BY <1>1, <2>0 DEF ClientAnswers, TypeOK, historyVars
    <2>2. CASE q = r
      <3>1. request'[r].isin = request[r].isin /\ request'[r].received = clock + 1
        BY <2>0, <2>1 DEF TypeOK, RequestType
      <3>2. \A s \in snapshots'[request[r].isin] : s.received \in 1..clock
        BY <2>0, <2>1, <2>2 DEF TypeOK, Shape, marketVars
      <3> QED
        BY ClockAssumption, <2>0, <2>2, <3>1, <3>2 DEF AnswerIsNewest, TypeOK
    <2>3. CASE q # r
      BY ClockAssumption, <2>0, <2>1, <2>3 DEF AnswerIsNewest, HasAnswer, HasRead, marketVars, historyVars, Shape
    <2> QED
      BY <2>2, <2>3
  <1>2. ASSUME NEW r \in Requests, CommitBare(r) PROVE AnswersAreNewest'
    <2> SUFFICES ASSUME NEW q \in Requests PROVE AnswerIsNewest(q)'
      BY DEF AnswersAreNewest
    <2>0. TypeOK /\ AnswerIsNewest(q) /\ Shape(q)
      BY DEF IInv, AnswersAreNewest, Shapes
    <2>1. UNCHANGED <<actions, snapshots, clock, torn>>
      BY <1>2 DEF CommitBare, historyVars
    <2>2. CASE q = r
      BY <1>2, CommitBareFacts, <2>0, <2>1, <2>2 DEF AnswerIsNewest, HasAnswer, HasRead, Idle, Bare, Shape
    <2>3. CASE q # r
      BY <1>2, CommitBareFacts, <2>0, <2>1, <2>3 DEF AnswerIsNewest, HasAnswer, HasRead, Same, Bare, Shape
    <2> QED
      BY <2>2, <2>3
  <1>3. ASSUME NEW r \in Requests, Commit(r) PROVE AnswersAreNewest'
    <2> SUFFICES ASSUME NEW q \in Requests PROVE AnswerIsNewest(q)'
      BY DEF AnswersAreNewest
    <2>0. TypeOK /\ AnswerIsNewest(q) /\ Shape(q)
      BY DEF IInv, AnswersAreNewest, Shapes
    <2>1. Commits(r, request[r].isin) /\ UNCHANGED clock
          /\ \A i \in Isins \ {request[r].isin} : i \in torn' <=> i \in torn
      BY <1>3, CommitFacts DEF Commit
    <2>2. CASE q = r /\ request[r].kind = "api"
      BY <2>0, <2>1, <2>2 DEF AnswerIsNewest, HasAnswer, HasRead, Commits, Idle, Shape
    <2>3. CASE q = r /\ request[r].kind # "api"
      BY <2>0, <2>1, <2>3 DEF AnswerIsNewest, HasAnswer, HasRead, Commits, GoesOn, Shape
    <2>4. CASE q # r
      BY <2>0, <2>1, <2>4 DEF AnswerIsNewest, HasAnswer, HasRead, Commits, Same, Shape
    <2> QED
      BY <2>2, <2>3, <2>4
  <1>4. ASSUME NEW r \in Requests, Fail(r) PROVE AnswersAreNewest'
    <2> SUFFICES ASSUME NEW q \in Requests PROVE AnswerIsNewest(q)'
      BY DEF AnswersAreNewest
    <2>0. TypeOK /\ AnswerIsNewest(q) /\ Shape(q)
      BY DEF IInv, AnswersAreNewest, Shapes
    <2>1. GivesUp(r) /\ UNCHANGED <<snapshots, torn>>
      BY <1>4, FailFacts DEF GivesUp, historyVars
    <2>2. CASE q = r
      BY <2>0, <2>1, <2>2 DEF AnswerIsNewest, HasAnswer, HasRead, GivesUp, GoesOn, Idle, Shape
    <2>3. CASE q # r
      BY <2>0, <2>1, <2>3 DEF AnswerIsNewest, HasAnswer, HasRead, GivesUp, Shape
    <2> QED
      BY <2>2, <2>3
  <1>5. ASSUME NEW r \in Requests, FindSnapshot(r) PROVE AnswersAreNewest'
    <2> SUFFICES ASSUME NEW q \in Requests PROVE AnswerIsNewest(q)'
      BY DEF AnswersAreNewest
    <2>0. TypeOK /\ AnswerIsNewest(q) /\ Shape(q)
      BY DEF IInv, AnswersAreNewest, Shapes
    <2>1. /\ UNCHANGED <<instrument, actions, snapshots, clock, torn>> /\ request[r].step = "raised"
          /\ \A p \in Requests \ {r} : request'[p] = request[p]
      BY <1>5, FindFacts DEF marketVars, historyVars
    <2>2. CASE q # r
      BY <2>0, <2>1, <2>2 DEF AnswerIsNewest, HasAnswer, HasRead, Shape
    <2>3. CASE q = r /\ GivesUp(r)
      BY <2>0, <2>3 DEF AnswerIsNewest, HasAnswer, HasRead, GivesUp, GoesOn, Idle, Shape
    <2>4. ASSUME q = r, NEW s \in Newest(request[r].isin),
                 request'[r] = [request[r] EXCEPT !.step = "marking", !.received = s.received]
          PROVE  AnswerIsNewest(q)'
      BY <2>0, <2>1, <2>4 DEF AnswerIsNewest, HasAnswer, HasRead, TypeOK, RequestType, Shape
    <2> QED
      BY <1>5, FindFacts, <2>2, <2>3, <2>4
  <1>6. ASSUME NEW r \in Requests, MarkSnapshot(r) PROVE AnswersAreNewest'
    <2> SUFFICES ASSUME NEW q \in Requests PROVE AnswerIsNewest(q)'
      BY DEF AnswersAreNewest
    <2>0. TypeOK /\ AnswerIsNewest(q) /\ Shape(q)
      BY DEF IInv, AnswersAreNewest, Shapes
    <2>1. GivesUp(r) /\ UNCHANGED torn
      BY <1>6, MarkFacts DEF GivesUp, historyVars
    <2>2. CASE q = r
      BY <2>0, <2>1, <2>2 DEF AnswerIsNewest, HasAnswer, HasRead, GivesUp, GoesOn, Idle, Shape
    <2>3. CASE q # r
      BY <1>6, MarkFacts, <2>0, <2>1, <2>3 DEF AnswerIsNewest, HasAnswer, HasRead, GivesUp, Shape
    <2> QED
      BY <2>2, <2>3
  <1> USE DEF IInv, AnswersAreNewest, AnswerIsNewest, HasAnswer, HasRead, TypeOK, RequestType, Idle
  <1>7. ASSUME NEW r \in Requests, NEW i \in Isins,
              BeginRefresh(r, i)
       PROVE  AnswersAreNewest'
    BY QuotesAssumption, <1>7 DEF BeginRefresh, marketVars, historyVars
  <1>8. ASSUME NEW r \in Requests, NEW i \in Isins,
              BeginBare(r, i)
       PROVE  AnswersAreNewest'
    BY QuotesAssumption, <1>8 DEF BeginBare, marketVars, historyVars
  <1>9. ASSUME NEW r \in Requests, BeginAll(r) PROVE AnswersAreNewest'
    BY QuotesAssumption, <1>9 DEF BeginAll, marketVars, historyVars
  <1>10. ASSUME NEW r \in Requests, NEW isins \in SUBSET Isins,
              BeginSheet(r, isins)
       PROVE  AnswersAreNewest'
    BY QuotesAssumption, <1>10 DEF BeginSheet, marketVars, historyVars
  <1>11. ASSUME NEW r \in Requests, NEW i \in Isins,
              NextIsin(r, i)
       PROVE  AnswersAreNewest'
    BY QuotesAssumption, <1>11 DEF NextIsin, marketVars, historyVars
  <1>12. ASSUME NEW r \in Requests, GiveUpBatch(r) PROVE AnswersAreNewest'
    BY QuotesAssumption, <1>12 DEF GiveUpBatch, marketVars, historyVars
  <1>13. ASSUME NEW r \in Requests, EndBatch(r) PROVE AnswersAreNewest'
    BY QuotesAssumption, <1>13 DEF EndBatch, marketVars, historyVars
  <1>14. ASSUME NEW r \in Requests, ClientRaises(r) PROVE AnswersAreNewest'
    BY QuotesAssumption, <1>14 DEF ClientRaises, marketVars, historyVars
  <1>15. ASSUME NEW r \in Requests, Flush(r) PROVE AnswersAreNewest'
    BY QuotesAssumption, <1>15 DEF Flush, marketVars, historyVars
  <1>16. ASSUME NEW r \in Requests, Compare(r) PROVE AnswersAreNewest'
    BY QuotesAssumption, <1>16 DEF Compare, marketVars, historyVars
  <1>17. ASSUME NEW r \in Requests, CommitRefused(r) PROVE AnswersAreNewest'
    BY QuotesAssumption, <1>17 DEF CommitRefused, marketVars, historyVars
  <1>18. ASSUME NEW r \in Requests, QueueEvent(r) PROVE AnswersAreNewest'
    BY QuotesAssumption, <1>18 DEF QueueEvent, marketVars, historyVars
  <1>19. ASSUME Restart PROVE AnswersAreNewest'
    BY QuotesAssumption, <1>19 DEF Restart, marketVars, historyVars
  <1>20. ASSUME UNCHANGED refreshVars PROVE AnswersAreNewest'
    BY QuotesAssumption, <1>20 DEF refreshVars, marketVars
  <1> QED
    BY <1>1, <1>2, <1>3, <1>4, <1>5, <1>6, <1>7, <1>8, <1>9, <1>10,
       <1>11, <1>12, <1>13, <1>14, <1>15, <1>16, <1>17, <1>18, <1>19, <1>20
    DEF RefreshNext, Begin, Step

\* A row that is being inserted is not there.
LEMMA NextNoRow == IInv /\ [RefreshNext]_refreshVars => StubsHaveNoRow'
  <1> SUFFICES ASSUME IInv, [RefreshNext]_refreshVars PROVE StubsHaveNoRow'
    OBVIOUS
  <1>1. ASSUME NEW r \in Requests, Flush(r) PROVE StubsHaveNoRow'
    <2> SUFFICES ASSUME NEW q \in Requests PROVE HasNoRow(q)'
      BY DEF StubsHaveNoRow
    <2>0. TypeOK /\ HasNoRow(q) /\ Shape(q) /\ Shape(r) /\ Excludes(q, r)
      BY DEF IInv, StubsHaveNoRow, Shapes, StubsAreAlone, StubsExclude
    <2>1. /\ request[r].step \in {"answered", "stub"} /\ clock' = clock /\ UNCHANGED <<marketVars, historyVars>>
          /\ request'[r] = [request[r] EXCEPT !.step =
               IF request[r].seen[request[r].isin].known = "absent"
                    /\ instrument[request[r].isin].known # "absent" THEN "broken"
               ELSE IF request[r].step = "stub" THEN "stubbed" ELSE "flushed"]
          /\ \A p \in Requests \ {r} : request'[p] = request[p]
      BY <1>1, <2>0 DEF Flush, TypeOK, historyVars
    <2>2. CASE q = r
      <3>1. /\ request'[r].isin = request[r].isin
            /\ request'[r].step = "stubbed" =>
                 request[r].step = "stub" /\ ~(/\ request[r].seen[request[r].isin].known = "absent"
                                              /\ instrument[request[r].isin].known # "absent")
        BY <2>0, <2>1 DEF TypeOK, RequestType
      <3>2. request[r].step = "stub" => request[r].seen[request[r].isin].known = "absent"
        BY <2>0 DEF Shape, Absent
      <3> QED
        BY <2>1, <2>2, <3>1, <3>2 DEF HasNoRow, marketVars
    <2>3. CASE q # r
      BY <2>0, <2>1, <2>3 DEF HasNoRow, marketVars, historyVars, Shape, Excludes
    <2> QED
      BY <2>2, <2>3
  <1>2. ASSUME NEW r \in Requests, CommitBare(r) PROVE StubsHaveNoRow'
    <2> SUFFICES ASSUME NEW q \in Requests PROVE HasNoRow(q)'
      BY DEF StubsHaveNoRow
    <2>0. TypeOK /\ HasNoRow(q) /\ Shape(q) /\ Shape(r) /\ Excludes(q, r)
      BY DEF IInv, StubsHaveNoRow, Shapes, StubsAreAlone, StubsExclude
    <2>1. UNCHANGED <<actions, snapshots, clock, torn>>
      BY <1>2 DEF CommitBare, historyVars
    <2>2. CASE q = r
      BY <1>2, CommitBareFacts, <2>0, <2>1, <2>2 DEF HasNoRow, Idle, Bare, Shape
    <2>3. CASE q # r
      BY <1>2, CommitBareFacts, <2>0, <2>1, <2>3 DEF HasNoRow, Same, Bare, Shape, Excludes
    <2> QED
      BY <2>2, <2>3
  <1>3. ASSUME NEW r \in Requests, Commit(r) PROVE StubsHaveNoRow'
    <2> SUFFICES ASSUME NEW q \in Requests PROVE HasNoRow(q)'
      BY DEF StubsHaveNoRow
    <2>0. TypeOK /\ HasNoRow(q) /\ Shape(q) /\ Shape(r) /\ Excludes(q, r)
      BY DEF IInv, StubsHaveNoRow, Shapes, StubsAreAlone, StubsExclude
    <2>1. Commits(r, request[r].isin) /\ UNCHANGED clock
          /\ \A i \in Isins \ {request[r].isin} : i \in torn' <=> i \in torn
      BY <1>3, CommitFacts DEF Commit
    <2>2. CASE q = r /\ request[r].kind = "api"
      BY <2>0, <2>1, <2>2 DEF HasNoRow, Commits, Idle, Shape
    <2>3. CASE q = r /\ request[r].kind # "api"
      BY <2>0, <2>1, <2>3 DEF HasNoRow, Commits, GoesOn, Shape
    <2>4. CASE q # r
      BY <2>0, <2>1, <2>4 DEF HasNoRow, Commits, Same, Shape, Excludes
    <2> QED
      BY <2>2, <2>3, <2>4
  <1>4. ASSUME NEW r \in Requests, Fail(r) PROVE StubsHaveNoRow'
    <2> SUFFICES ASSUME NEW q \in Requests PROVE HasNoRow(q)'
      BY DEF StubsHaveNoRow
    <2>0. TypeOK /\ HasNoRow(q) /\ Shape(q) /\ Shape(r) /\ Excludes(q, r)
      BY DEF IInv, StubsHaveNoRow, Shapes, StubsAreAlone, StubsExclude
    <2>1. GivesUp(r) /\ UNCHANGED <<snapshots, torn>>
      BY <1>4, FailFacts DEF GivesUp, historyVars
    <2>2. CASE q = r
      BY <2>0, <2>1, <2>2 DEF HasNoRow, GivesUp, GoesOn, Idle, Shape
    <2>3. CASE q # r
      BY <2>0, <2>1, <2>3 DEF HasNoRow, GivesUp, Shape, Excludes
    <2> QED
      BY <2>2, <2>3
  <1>5. ASSUME NEW r \in Requests, FindSnapshot(r) PROVE StubsHaveNoRow'
    <2> SUFFICES ASSUME NEW q \in Requests PROVE HasNoRow(q)'
      BY DEF StubsHaveNoRow
    <2>0. TypeOK /\ HasNoRow(q) /\ Shape(q) /\ Shape(r) /\ Excludes(q, r)
      BY DEF IInv, StubsHaveNoRow, Shapes, StubsAreAlone, StubsExclude
    <2>1. /\ UNCHANGED <<instrument, actions, snapshots, clock, torn>> /\ request[r].step = "raised"
          /\ \A p \in Requests \ {r} : request'[p] = request[p]
      BY <1>5, FindFacts DEF marketVars, historyVars
    <2>2. CASE q # r
      BY <2>0, <2>1, <2>2 DEF HasNoRow, Shape, Excludes
    <2>3. CASE q = r /\ GivesUp(r)
      BY <2>0, <2>3 DEF HasNoRow, GivesUp, GoesOn, Idle, Shape
    <2>4. ASSUME q = r, NEW s \in Newest(request[r].isin),
                 request'[r] = [request[r] EXCEPT !.step = "marking", !.received = s.received]
          PROVE  HasNoRow(q)'
      BY <2>0, <2>1, <2>4 DEF HasNoRow, TypeOK, RequestType, Shape
    <2> QED
      BY <1>5, FindFacts, <2>2, <2>3, <2>4
  <1>6. ASSUME NEW r \in Requests, MarkSnapshot(r) PROVE StubsHaveNoRow'
    <2> SUFFICES ASSUME NEW q \in Requests PROVE HasNoRow(q)'
      BY DEF StubsHaveNoRow
    <2>0. TypeOK /\ HasNoRow(q) /\ Shape(q) /\ Shape(r) /\ Excludes(q, r)
      BY DEF IInv, StubsHaveNoRow, Shapes, StubsAreAlone, StubsExclude
    <2>1. GivesUp(r) /\ UNCHANGED torn
      BY <1>6, MarkFacts DEF GivesUp, historyVars
    <2>2. CASE q = r
      BY <2>0, <2>1, <2>2 DEF HasNoRow, GivesUp, GoesOn, Idle, Shape
    <2>3. CASE q # r
      BY <1>6, MarkFacts, <2>0, <2>1, <2>3 DEF HasNoRow, GivesUp, Shape, Excludes
    <2> QED
      BY <2>2, <2>3
  <1> USE DEF IInv, StubsHaveNoRow, HasNoRow, TypeOK, RequestType, Idle, StubsAreAlone
  <1>7. ASSUME NEW r \in Requests, NEW i \in Isins,
              BeginRefresh(r, i)
       PROVE  StubsHaveNoRow'
    BY QuotesAssumption, <1>7 DEF BeginRefresh, marketVars, historyVars
  <1>8. ASSUME NEW r \in Requests, NEW i \in Isins, BeginBare(r, i) PROVE StubsHaveNoRow'
    BY QuotesAssumption, <1>8 DEF BeginBare, marketVars, historyVars
  <1>9. ASSUME NEW r \in Requests, BeginAll(r) PROVE StubsHaveNoRow'
    BY QuotesAssumption, <1>9 DEF BeginAll, marketVars, historyVars
  <1>10. ASSUME NEW r \in Requests, NEW isins \in SUBSET Isins,
              BeginSheet(r, isins)
       PROVE  StubsHaveNoRow'
    BY QuotesAssumption, <1>10 DEF BeginSheet, marketVars, historyVars
  <1>11. ASSUME NEW r \in Requests, NEW i \in Isins, NextIsin(r, i) PROVE StubsHaveNoRow'
    BY QuotesAssumption, <1>11 DEF NextIsin, marketVars, historyVars
  <1>12. ASSUME NEW r \in Requests, GiveUpBatch(r) PROVE StubsHaveNoRow'
    BY QuotesAssumption, <1>12 DEF GiveUpBatch, marketVars, historyVars
  <1>13. ASSUME NEW r \in Requests, EndBatch(r) PROVE StubsHaveNoRow'
    BY QuotesAssumption, <1>13 DEF EndBatch, marketVars, historyVars
  <1>14. ASSUME NEW r \in Requests, NEW quote \in Quotes, NEW calendar \in Calendars,
              NEW repeated \in SUBSET calendar, ClientAnswers(r, quote, calendar, repeated)
       PROVE  StubsHaveNoRow'
    BY QuotesAssumption, <1>14 DEF ClientAnswers, marketVars, historyVars
  <1>15. ASSUME NEW r \in Requests, ClientRaises(r) PROVE StubsHaveNoRow'
    BY QuotesAssumption, <1>15 DEF ClientRaises, marketVars, historyVars
  <1>16. ASSUME NEW r \in Requests, Compare(r) PROVE StubsHaveNoRow'
    BY QuotesAssumption, <1>16 DEF Compare, marketVars, historyVars
  <1>17. ASSUME NEW r \in Requests, CommitRefused(r) PROVE StubsHaveNoRow'
    BY QuotesAssumption, <1>17 DEF CommitRefused, marketVars, historyVars
  <1>18. ASSUME NEW r \in Requests, QueueEvent(r) PROVE StubsHaveNoRow'
    BY QuotesAssumption, <1>18 DEF QueueEvent, marketVars, historyVars
  <1>19. ASSUME Restart PROVE StubsHaveNoRow'
    BY QuotesAssumption, <1>19 DEF Restart, marketVars, historyVars
  <1>20. ASSUME UNCHANGED refreshVars PROVE StubsHaveNoRow'
    BY QuotesAssumption, <1>20 DEF refreshVars, marketVars
  <1> QED
    BY <1>1, <1>2, <1>3, <1>4, <1>5, <1>6, <1>7, <1>8, <1>9, <1>10,
       <1>11, <1>12, <1>13, <1>14, <1>15, <1>16, <1>17, <1>18, <1>19, <1>20
    DEF RefreshNext, Begin, Step

\* A flush waits for the flushed row of another.
LEMMA NextExclude == IInv /\ [RefreshNext]_refreshVars => StubsExclude'
  <1> SUFFICES ASSUME IInv, [RefreshNext]_refreshVars PROVE StubsExclude'
    OBVIOUS
  <1>1. ASSUME NEW r \in Requests, Flush(r) PROVE StubsExclude'
    <2> SUFFICES ASSUME NEW p \in Requests, NEW q \in Requests PROVE Excludes(p, q)'
      BY DEF StubsExclude
    <2>0. TypeOK /\ Excludes(p, q) /\ HasNoRow(p) /\ Shape(r)
          /\ \A i \in Isins, o \in Requests : Stays(o, i)
      BY DEF IInv, StubsExclude, StubsAreAlone, StubsHaveNoRow, Shapes, RowsStay
    <2>1. /\ request[r].step \in {"answered", "stub"} /\ clock' = clock /\ UNCHANGED <<marketVars, historyVars>>
          /\ request'[r] = [request[r] EXCEPT !.step =
               IF request[r].seen[request[r].isin].known = "absent"
                    /\ instrument[request[r].isin].known # "absent" THEN "broken"
               ELSE IF request[r].step = "stub" THEN "stubbed" ELSE "flushed"]
          /\ \A o \in Requests \ {r} : request'[o] = request[o]
      BY <1>1, <2>0 DEF Flush, TypeOK, historyVars
    <2>2. /\ request'[r].isin = request[r].isin /\ request[r].isin \in Isins
          /\ request'[r].step = "stubbed" => /\ request[r].step = "stub"
                                             /\ instrument[request[r].isin].known = "absent"
          /\ request'[r].step = "flushed" => request[r].step = "answered"
          /\ request'[r].step \in {"broken", "stubbed", "flushed"}
      BY <2>0, <2>1 DEF Shape, Absent, TypeOK, RequestType
    <2>3. request[r].step = "stub" \/ Writes(r) => ~Blocked(r)
      BY <1>1 DEF Flush
    <2>4. ASSUME NEW o \in Requests \ {r}, request[o].isin = request[r].isin, ~Writes(o)
          PROVE  instrument[request[r].isin].known # "absent"
      BY <2>0, <2>2, <2>4 DEF Writes, Stays
    <2>5. ~Writes(r) => instrument[request[r].isin].known # "absent"
      BY <2>0, <2>2 DEF Writes, Stays
    <2>6. CASE p = r /\ q # r
      <3>1. request'[q] = request[q]
        BY <2>1, <2>6
      <3> SUFFICES ASSUME request'[r].step = "stubbed", request[q].isin = request[r].isin,
                          request[q].step \in {"stubbed", "flushed", "compared"}
                   PROVE  FALSE
        BY <2>2, <2>6, <3>1 DEF Excludes
      <3>2. Writes(q)
        BY <2>2, <2>4, <2>6
      <3>3. Blocked(r)
        BY <2>6, <3>2 DEF Blocked
      <3> QED
        BY <2>2, <2>3, <3>3
    <2>7. CASE p # r /\ q = r
      BY <2>0, <2>1, <2>2, <2>3, <2>5, <2>7 DEF Excludes, Blocked, HasNoRow
    <2>8. CASE p # r /\ q # r
      BY <2>0, <2>1, <2>8 DEF Excludes
    <2>9. CASE p = q
      BY <2>9 DEF Excludes
    <2> QED
      BY <2>6, <2>7, <2>8, <2>9
  <1>2. ASSUME NEW r \in Requests, CommitBare(r) PROVE StubsExclude'
    <2> SUFFICES ASSUME NEW p \in Requests, NEW q \in Requests PROVE Excludes(p, q)'
      BY DEF StubsExclude
    <2>0. TypeOK /\ Excludes(p, q) /\ HasNoRow(p) /\ Shape(r)
          /\ \A i \in Isins, o \in Requests : Stays(o, i)
      BY DEF IInv, StubsExclude, StubsAreAlone, StubsHaveNoRow, Shapes, RowsStay
    <2>1. request'[r] = Idle /\ \A o \in Requests \ {r} : Same(o)
      BY <1>2, CommitBareFacts
    <2>2. request'[r].step \notin {"answered", "flushed", "compared", "stubbed"}
      BY <2>0, <2>1 DEF Idle
    <2>3. CASE p = r \/ q = r
      BY <2>2, <2>3 DEF Excludes
    <2>4. CASE p # r /\ q # r
      BY <2>0, <2>1, <2>4 DEF Excludes, Same
    <2> QED
      BY <2>3, <2>4
  <1>3. ASSUME NEW r \in Requests, Commit(r) PROVE StubsExclude'
    <2> SUFFICES ASSUME NEW p \in Requests, NEW q \in Requests PROVE Excludes(p, q)'
      BY DEF StubsExclude
    <2>0. TypeOK /\ Excludes(p, q) /\ HasNoRow(p) /\ Shape(r)
          /\ \A i \in Isins, o \in Requests : Stays(o, i)
      BY DEF IInv, StubsExclude, StubsAreAlone, StubsHaveNoRow, Shapes, RowsStay
    <2>1. Commits(r, request[r].isin)
      BY <1>3, CommitFacts
    <2>2. request'[r].step \notin {"answered", "flushed", "compared", "stubbed"}
      BY <2>0, <2>1 DEF Commits, GoesOn, Idle
    <2>3. CASE p = r \/ q = r
      BY <2>2, <2>3 DEF Excludes
    <2>4. CASE p # r /\ q # r
      BY <2>0, <2>1, <2>4 DEF Excludes, Commits, Same
    <2> QED
      BY <2>3, <2>4
  <1>4. ASSUME NEW r \in Requests, Fail(r) PROVE StubsExclude'
    <2> SUFFICES ASSUME NEW p \in Requests, NEW q \in Requests PROVE Excludes(p, q)'
      BY DEF StubsExclude
    <2>0. TypeOK /\ Excludes(p, q) /\ HasNoRow(p) /\ Shape(r)
          /\ \A i \in Isins, o \in Requests : Stays(o, i)
      BY DEF IInv, StubsExclude, StubsAreAlone, StubsHaveNoRow, Shapes, RowsStay
    <2>1. GivesUp(r)
      BY <1>4, FailFacts
    <2>2. request'[r].step \notin {"answered", "flushed", "compared", "stubbed"}
      BY <2>0, <2>1 DEF GivesUp, GoesOn, Idle
    <2>3. CASE p = r \/ q = r
      BY <2>2, <2>3 DEF Excludes
    <2>4. CASE p # r /\ q # r
      BY <2>0, <2>1, <2>4 DEF Excludes, GivesUp
    <2> QED
      BY <2>3, <2>4
  <1>5. ASSUME NEW r \in Requests, FindSnapshot(r) PROVE StubsExclude'
    <2> SUFFICES ASSUME NEW p \in Requests, NEW q \in Requests PROVE Excludes(p, q)'
      BY DEF StubsExclude
    <2>0. TypeOK /\ Excludes(p, q) /\ HasNoRow(p) /\ Shape(r)
          /\ \A i \in Isins, o \in Requests : Stays(o, i)
      BY DEF IInv, StubsExclude, StubsAreAlone, StubsHaveNoRow, Shapes, RowsStay
    <2>1. \A o \in Requests \ {r} : request'[o] = request[o]
      BY <1>5, FindFacts
    <2>2. request'[r].step \notin {"answered", "flushed", "compared", "stubbed"}
      <3>1. CASE GivesUp(r)
        BY <3>1 DEF GivesUp, GoesOn, Idle
      <3>2. ASSUME NEW s, request'[r] = [request[r] EXCEPT !.step = "marking", !.received = s.received]
            PROVE  request'[r].step \notin {"answered", "flushed", "compared", "stubbed"}
        BY <2>0, <3>2 DEF TypeOK, RequestType
      <3> QED
        BY <1>5, FindFacts, <3>1, <3>2
    <2>3. CASE p = r \/ q = r
      BY <2>2, <2>3 DEF Excludes
    <2>4. CASE p # r /\ q # r
      BY <2>0, <2>1, <2>4 DEF Excludes
    <2> QED
      BY <2>3, <2>4
  <1>6. ASSUME NEW r \in Requests, MarkSnapshot(r) PROVE StubsExclude'
    <2> SUFFICES ASSUME NEW p \in Requests, NEW q \in Requests PROVE Excludes(p, q)'
      BY DEF StubsExclude
    <2>0. TypeOK /\ Excludes(p, q) /\ HasNoRow(p) /\ Shape(r)
          /\ \A i \in Isins, o \in Requests : Stays(o, i)
      BY DEF IInv, StubsExclude, StubsAreAlone, StubsHaveNoRow, Shapes, RowsStay
    <2>1. GivesUp(r)
      BY <1>6, MarkFacts
    <2>2. request'[r].step \notin {"answered", "flushed", "compared", "stubbed"}
      BY <2>0, <2>1 DEF GivesUp, GoesOn, Idle
    <2>3. CASE p = r \/ q = r
      BY <2>2, <2>3 DEF Excludes
    <2>4. CASE p # r /\ q # r
      BY <2>0, <2>1, <2>4 DEF Excludes, GivesUp
    <2> QED
      BY <2>3, <2>4
  <1> USE DEF IInv, StubsExclude, Excludes, TypeOK, RequestType, Idle, StubsAreAlone
  <1>7. ASSUME NEW r \in Requests, NEW i \in Isins, BeginRefresh(r, i) PROVE StubsExclude'
    BY QuotesAssumption, <1>7 DEF BeginRefresh, marketVars, historyVars
  <1>8. ASSUME NEW r \in Requests, NEW i \in Isins, BeginBare(r, i) PROVE StubsExclude'
    BY QuotesAssumption, <1>8 DEF BeginBare, marketVars, historyVars
  <1>9. ASSUME NEW r \in Requests, BeginAll(r) PROVE StubsExclude'
    BY QuotesAssumption, <1>9 DEF BeginAll, marketVars, historyVars
  <1>10. ASSUME NEW r \in Requests, NEW isins \in SUBSET Isins,
              BeginSheet(r, isins)
       PROVE  StubsExclude'
    BY QuotesAssumption, <1>10 DEF BeginSheet, marketVars, historyVars
  <1>11. ASSUME NEW r \in Requests, NEW i \in Isins, NextIsin(r, i) PROVE StubsExclude'
    BY QuotesAssumption, <1>11 DEF NextIsin, marketVars, historyVars
  <1>12. ASSUME NEW r \in Requests, GiveUpBatch(r) PROVE StubsExclude'
    BY QuotesAssumption, <1>12 DEF GiveUpBatch, marketVars, historyVars
  <1>13. ASSUME NEW r \in Requests, EndBatch(r) PROVE StubsExclude'
    BY QuotesAssumption, <1>13 DEF EndBatch, marketVars, historyVars
  <1>14. ASSUME NEW r \in Requests, NEW quote \in Quotes, NEW calendar \in Calendars,
              NEW repeated \in SUBSET calendar, ClientAnswers(r, quote, calendar, repeated)
       PROVE  StubsExclude'
    BY QuotesAssumption, <1>14 DEF ClientAnswers, marketVars, historyVars
  <1>15. ASSUME NEW r \in Requests, ClientRaises(r) PROVE StubsExclude'
    BY QuotesAssumption, <1>15 DEF ClientRaises, marketVars, historyVars
  <1>16. ASSUME NEW r \in Requests, Compare(r) PROVE StubsExclude'
    BY QuotesAssumption, <1>16 DEF Compare, marketVars, historyVars
  <1>17. ASSUME NEW r \in Requests, CommitRefused(r) PROVE StubsExclude'
    BY QuotesAssumption, <1>17 DEF CommitRefused, marketVars, historyVars
  <1>18. ASSUME NEW r \in Requests, QueueEvent(r) PROVE StubsExclude'
    BY QuotesAssumption, <1>18 DEF QueueEvent, marketVars, historyVars
  <1>19. ASSUME Restart PROVE StubsExclude'
    BY QuotesAssumption, <1>19 DEF Restart, marketVars, historyVars
  <1>20. ASSUME UNCHANGED refreshVars PROVE StubsExclude'
    BY QuotesAssumption, <1>20 DEF refreshVars, marketVars
  <1> QED
    BY <1>1, <1>2, <1>3, <1>4, <1>5, <1>6, <1>7, <1>8, <1>9, <1>10,
       <1>11, <1>12, <1>13, <1>14, <1>15, <1>16, <1>17, <1>18, <1>19, <1>20
    DEF RefreshNext, Begin, Step

\* A bare instrument is committed only where there is none.
LEMMA NextRows == IInv /\ [RefreshNext]_refreshVars => SnapshotsHaveRows'
  <1> SUFFICES ASSUME IInv, [RefreshNext]_refreshVars PROVE SnapshotsHaveRows'
    OBVIOUS
  <1>1. ASSUME NEW r \in Requests, CommitBare(r) PROVE SnapshotsHaveRows'
    <2>1. SnapshotsHaveRows /\ instrument[request[r].isin].known = "absent" /\ UNCHANGED snapshots
      BY <1>1, CommitBareFacts DEF IInv, StubsAreAlone, StubsHaveNoRow, HasNoRow, CommitBare
    <2> QED
      BY <1>1, <2>1, CommitBareFacts DEF SnapshotsHaveRows
  <1>2. ASSUME NEW r \in Requests, Commit(r) PROVE SnapshotsHaveRows'
    <2>1. Commits(r, request[r].isin) /\ SnapshotsHaveRows
      BY <1>2, CommitFacts DEF IInv
    <2> QED
      BY <2>1 DEF SnapshotsHaveRows, Commits
  <1>3. ASSUME NEW r \in Requests, MarkSnapshot(r) PROVE SnapshotsHaveRows'
    <2>1. SnapshotsHaveRows /\ GivesUp(r)
      BY <1>3, MarkFacts DEF IInv
    <2> QED
      BY <1>3, <2>1, MarkFacts DEF SnapshotsHaveRows, GivesUp
  <1> USE DEF IInv, SnapshotsHaveRows, TypeOK, RequestType, Idle
  <1>4. ASSUME NEW r \in Requests, NEW i \in Isins,
              BeginRefresh(r, i)
       PROVE  SnapshotsHaveRows'
    BY QuotesAssumption, <1>4 DEF BeginRefresh, marketVars, historyVars
  <1>5. ASSUME NEW r \in Requests, NEW i \in Isins,
              BeginBare(r, i)
       PROVE  SnapshotsHaveRows'
    BY QuotesAssumption, <1>5 DEF BeginBare, marketVars, historyVars
  <1>6. ASSUME NEW r \in Requests, BeginAll(r) PROVE SnapshotsHaveRows'
    BY QuotesAssumption, <1>6 DEF BeginAll, marketVars, historyVars
  <1>7. ASSUME NEW r \in Requests, NEW isins \in SUBSET Isins,
              BeginSheet(r, isins)
       PROVE  SnapshotsHaveRows'
    BY QuotesAssumption, <1>7 DEF BeginSheet, marketVars, historyVars
  <1>8. ASSUME NEW r \in Requests, NEW i \in Isins,
              NextIsin(r, i)
       PROVE  SnapshotsHaveRows'
    BY QuotesAssumption, <1>8 DEF NextIsin, marketVars, historyVars
  <1>9. ASSUME NEW r \in Requests, GiveUpBatch(r) PROVE SnapshotsHaveRows'
    BY QuotesAssumption, <1>9 DEF GiveUpBatch, marketVars, historyVars
  <1>10. ASSUME NEW r \in Requests, EndBatch(r) PROVE SnapshotsHaveRows'
    BY QuotesAssumption, <1>10 DEF EndBatch, marketVars, historyVars
  <1>11. ASSUME NEW r \in Requests, NEW quote \in Quotes, NEW calendar \in Calendars,
              NEW repeated \in SUBSET calendar, ClientAnswers(r, quote, calendar, repeated)
       PROVE  SnapshotsHaveRows'
    BY QuotesAssumption, <1>11 DEF ClientAnswers, marketVars, historyVars
  <1>12. ASSUME NEW r \in Requests, ClientRaises(r) PROVE SnapshotsHaveRows'
    BY QuotesAssumption, <1>12 DEF ClientRaises, marketVars, historyVars
  <1>13. ASSUME NEW r \in Requests, Flush(r) PROVE SnapshotsHaveRows'
    BY QuotesAssumption, <1>13 DEF Flush, marketVars, historyVars
  <1>14. ASSUME NEW r \in Requests, Compare(r) PROVE SnapshotsHaveRows'
    BY QuotesAssumption, <1>14 DEF Compare, marketVars, historyVars
  <1>15. ASSUME NEW r \in Requests, CommitRefused(r) PROVE SnapshotsHaveRows'
    BY QuotesAssumption, <1>15 DEF CommitRefused, marketVars, historyVars
  <1>16. ASSUME NEW r \in Requests, Fail(r) PROVE SnapshotsHaveRows'
    BY QuotesAssumption, <1>16 DEF Fail, marketVars, historyVars, Proceed
  <1>17. ASSUME NEW r \in Requests, QueueEvent(r) PROVE SnapshotsHaveRows'
    BY QuotesAssumption, <1>17 DEF QueueEvent, marketVars, historyVars
  <1>18. ASSUME NEW r \in Requests, FindSnapshot(r) PROVE SnapshotsHaveRows'
    BY QuotesAssumption, <1>18 DEF FindSnapshot, marketVars, historyVars, Proceed
  <1>19. ASSUME Restart PROVE SnapshotsHaveRows'
    BY QuotesAssumption, <1>19 DEF Restart, marketVars, historyVars
  <1>20. ASSUME UNCHANGED refreshVars PROVE SnapshotsHaveRows'
    BY QuotesAssumption, <1>20 DEF refreshVars, marketVars
  <1> QED
    BY <1>1, <1>2, <1>3, <1>4, <1>5, <1>6, <1>7, <1>8, <1>9, <1>10,
       <1>11, <1>12, <1>13, <1>14, <1>15, <1>16, <1>17, <1>18, <1>19, <1>20
    DEF RefreshNext, Begin, Step

\* An event or an end with an excuse follows every commit.
LEMMA NextEvent == IInv /\ [RefreshNext]_refreshVars => EventIsPending'
  <1> SUFFICES ASSUME IInv, [RefreshNext]_refreshVars PROVE EventIsPending'
    OBVIOUS
  <1>1. ASSUME NEW r \in Requests, CommitBare(r) PROVE EventIsPending'
    <2>1. EventIsPending /\ Shape(r) /\ UNCHANGED historyVars
      BY <1>1 DEF IInv, CommitBare, Shapes
    <2>2. ~Announces(r)
      BY <1>1, <2>1, CommitBareFacts DEF Announces, Shape
    <2>3. \A q \in Requests \ {r} : Announces(q) => Announces(q)'
      BY <1>1, CommitBareFacts DEF Same, Announces
    <2> QED
      BY <2>1, <2>2, <2>3 DEF EventIsPending, historyVars
  <1>2. ASSUME NEW r \in Requests, Commit(r) PROVE EventIsPending'
    <2>1. Commits(r, request[r].isin) /\ EventIsPending
          /\ excused' = excused /\ unsynced' = (unsynced \/ request[r].kind # "sheet")
      BY <1>2, CommitFacts DEF IInv, Commit
    <2>2. CASE request[r].kind = "api"
      <3>1. request'[r].step = "event"
        BY <2>1, <2>2 DEF Commits, Idle
      <3> QED
        BY <3>1 DEF EventIsPending, Announces
    <2>3. CASE request[r].kind = "all"
      <3>1. request'[r].kind = "all"
        BY <2>1, <2>3 DEF Commits, GoesOn
      <3> QED
        BY <3>1 DEF EventIsPending, Announces
    <2>4. CASE request[r].kind = "sheet"
      <3>1. ~Announces(r) /\ (unsynced' => unsynced)
        BY <2>1, <2>4 DEF Commits, Announces
      <3>2. \A q \in Requests \ {r} : Announces(q) => Announces(q)'
        BY <2>1 DEF Commits, Same, Announces
      <3> QED
        BY <2>1, <3>1, <3>2 DEF EventIsPending
    <2> QED
      BY <2>1, <2>2, <2>3, <2>4 DEF Commits
  <1>3. ASSUME NEW r \in Requests, Fail(r) PROVE EventIsPending'
    <2>1. EventIsPending /\ GivesUp(r)
      BY <1>3, FailFacts DEF IInv
    <2>2. \A q \in Requests : Announces(q) => Announces(q)'
      BY <2>1 DEF GivesUp, GoesOn, Announces
    <2> QED
      BY <2>1, <2>2 DEF EventIsPending, GivesUp, historyVars
  <1>4. ASSUME NEW r \in Requests, FindSnapshot(r) PROVE EventIsPending'
    <2>1. /\ EventIsPending /\ request[r].step = "raised" /\ UNCHANGED historyVars
          /\ \A q \in Requests \ {r} : request'[q] = request[q]
      BY <1>4, FindFacts DEF IInv
    <2>2. Announces(r) => Announces(r)'
      <3>1. CASE GivesUp(r)
        BY <3>1 DEF GivesUp, GoesOn, Announces
      <3>2. ASSUME NEW s, request'[r] = [request[r] EXCEPT !.step = "marking", !.received = s.received]
            PROVE  Announces(r) => Announces(r)'
        <4>1. request[r] \in RequestType
          BY DEF IInv, TypeOK
        <4> QED
          BY <2>1, <3>2, <4>1 DEF Announces, RequestType
      <3> QED
        BY <1>4, FindFacts, <3>1, <3>2
    <2> QED
      BY <2>1, <2>2 DEF EventIsPending, Announces, historyVars
  <1>5. ASSUME NEW r \in Requests, MarkSnapshot(r) PROVE EventIsPending'
    <2>1. EventIsPending /\ GivesUp(r)
      BY <1>5, MarkFacts DEF IInv
    <2>2. \A q \in Requests : Announces(q) => Announces(q)'
      BY <2>1 DEF GivesUp, GoesOn, Announces
    <2> QED
      BY <2>1, <2>2 DEF EventIsPending, GivesUp, historyVars
  <1> USE DEF IInv, EventIsPending, Announces, Shapes, Shape, TypeOK, RequestType, Idle
  <1>6. ASSUME NEW r \in Requests, NEW i \in Isins,
              BeginRefresh(r, i)
       PROVE  EventIsPending'
    BY QuotesAssumption, <1>6 DEF BeginRefresh, marketVars, historyVars
  <1>7. ASSUME NEW r \in Requests, NEW i \in Isins, BeginBare(r, i) PROVE EventIsPending'
    BY QuotesAssumption, <1>7 DEF BeginBare, marketVars, historyVars
  <1>8. ASSUME NEW r \in Requests, BeginAll(r) PROVE EventIsPending'
    BY QuotesAssumption, <1>8 DEF BeginAll, marketVars, historyVars
  <1>9. ASSUME NEW r \in Requests, NEW isins \in SUBSET Isins,
              BeginSheet(r, isins)
       PROVE  EventIsPending'
    BY QuotesAssumption, <1>9 DEF BeginSheet, marketVars, historyVars
  <1>10. ASSUME NEW r \in Requests, NEW i \in Isins, NextIsin(r, i) PROVE EventIsPending'
    BY QuotesAssumption, <1>10 DEF NextIsin, marketVars, historyVars
  <1>11. ASSUME NEW r \in Requests, GiveUpBatch(r) PROVE EventIsPending'
    BY QuotesAssumption, <1>11 DEF GiveUpBatch, marketVars, historyVars
  <1>12. ASSUME NEW r \in Requests, EndBatch(r) PROVE EventIsPending'
    BY QuotesAssumption, <1>12 DEF EndBatch, marketVars, historyVars
  <1>13. ASSUME NEW r \in Requests, NEW quote \in Quotes, NEW calendar \in Calendars,
              NEW repeated \in SUBSET calendar, ClientAnswers(r, quote, calendar, repeated)
       PROVE  EventIsPending'
    BY QuotesAssumption, <1>13 DEF ClientAnswers, marketVars, historyVars
  <1>14. ASSUME NEW r \in Requests, ClientRaises(r) PROVE EventIsPending'
    BY QuotesAssumption, <1>14 DEF ClientRaises, marketVars, historyVars
  <1>15. ASSUME NEW r \in Requests, Flush(r) PROVE EventIsPending'
    BY QuotesAssumption, <1>15 DEF Flush, marketVars, historyVars
  <1>16. ASSUME NEW r \in Requests, Compare(r) PROVE EventIsPending'
    BY QuotesAssumption, <1>16 DEF Compare, marketVars, historyVars
  <1>17. ASSUME NEW r \in Requests, CommitRefused(r) PROVE EventIsPending'
    BY QuotesAssumption, <1>17 DEF CommitRefused, marketVars, historyVars
  <1>18. ASSUME NEW r \in Requests, QueueEvent(r) PROVE EventIsPending'
    BY QuotesAssumption, <1>18 DEF QueueEvent, marketVars, historyVars
  <1>19. ASSUME Restart PROVE EventIsPending'
    BY QuotesAssumption, <1>19 DEF Restart, marketVars, historyVars
  <1>20. ASSUME UNCHANGED refreshVars PROVE EventIsPending'
    BY QuotesAssumption, <1>20 DEF refreshVars, marketVars
  <1> QED
    BY <1>1, <1>2, <1>3, <1>4, <1>5, <1>6, <1>7, <1>8, <1>9, <1>10,
       <1>11, <1>12, <1>13, <1>14, <1>15, <1>16, <1>17, <1>18, <1>19, <1>20
    DEF RefreshNext, Begin, Step

\* A commit that is not overtaken makes row and newest snapshot equal.
LEMMA NextFollows == IInv /\ [RefreshNext]_refreshVars => RowFollowsNewestSnapshot'
  <1> SUFFICES ASSUME IInv, [RefreshNext]_refreshVars PROVE RowFollowsNewestSnapshot'
    OBVIOUS
  <1>1. ASSUME NEW r \in Requests, CommitBare(r) PROVE RowFollowsNewestSnapshot'
    <2>1. /\ RowFollowsNewestSnapshot /\ snapshots[request[r].isin] = {}
          /\ UNCHANGED <<snapshots, torn>>
      BY <1>1, CommitBareFacts DEF IInv, StubsAreAlone, StubsHaveNoRow, HasNoRow, SnapshotsHaveRows, CommitBare, historyVars
    <2> QED
      BY <1>1, <2>1, CommitBareFacts DEF RowFollowsNewestSnapshot, Newest
  <1>2. ASSUME NEW r \in Requests, Commit(r) PROVE RowFollowsNewestSnapshot'
    <2>a. PICK i \in Isins : i = request[r].isin
      BY <1>2, CommitFacts DEF Commits
    <2> DEFINE new == [received |-> request[r].received, quote |-> request[r].quote, error |-> FALSE]
    <2>1. /\ TypeOK /\ RowFollowsNewestSnapshot /\ Commits(r, i)
          /\ IsFresh(r, i) /\ AnswerIsNewest(r) /\ Shape(r) /\ AnswerIsPast(r)
      BY <1>2, <2>a, CommitFacts DEF IInv, ReadsAreFresh, AnswersAreNewest, Shapes, Answers
    <2>2. torn' = IF i \in request[r].overtaken THEN torn \cup {i} ELSE torn \ {i}
      BY <1>2, <2>a DEF Commit
    <2>3. ASSUME NEW j \in Isins \ torn', NEW s \in snapshots'[j], s \in Newest(j)', j # i
          PROVE  /\ instrument'[j].known = "quoted"
                 /\ instrument'[j].face = s.quote.face /\ instrument'[j].day = s.quote.day
      <3>1. j \notin torn /\ snapshots'[j] = snapshots[j] /\ instrument'[j] = instrument[j]
        BY <2>1, <2>2, <2>3 DEF Commits
      <3> QED
        BY <2>1, <2>3, <3>1 DEF RowFollowsNewestSnapshot, Newest
    <2>4. ASSUME i \notin torn', NEW s \in snapshots'[i], s \in Newest(i)'
          PROVE  /\ instrument'[i].known = "quoted"
                 /\ instrument'[i].face = s.quote.face /\ instrument'[i].day = s.quote.day
      <3>1. i \notin request[r].overtaken /\ request[r].step = "compared"
        BY <2>1, <2>2, <2>4 DEF Commits
      <3>2. /\ request[r].seen[i] = instrument[i]
            /\ \A t \in snapshots[i] : t.received < request[r].received
        BY <2>a, <2>1, <3>1 DEF IsFresh, HasRead, AnswerIsNewest, HasAnswer
      <3>3. /\ request[r].received \in 1..clock /\ clock \in Nat
            /\ \A t \in snapshots[i] : t.received \in 1..clock
        BY <2>1, <3>1, ClockAssumption DEF AnswerIsPast, HasAnswer, TypeOK
      <3>4. new \in snapshots'[i] /\ (s = new \/ s \in snapshots[i])
        BY <2>1, <2>4 DEF Commits
      <3>5. request[r].received <= s.received
        BY <2>4, <3>4 DEF Newest
      <3>6. s.quote = request[r].quote
        BY <3>2, <3>3, <3>4, <3>5
      <3>7. instrument'[i] =
              [known |-> "quoted",
               face |-> IF instrument[i].known = "quoted" /\ instrument[i].face = request[r].quote.face
                        THEN instrument[i].face ELSE request[r].quote.face,
               day |-> IF instrument[i].known = "quoted" /\ instrument[i].day = request[r].quote.day
                       THEN instrument[i].day ELSE request[r].quote.day]
        BY <1>2, <2>a, <2>1, <3>2 DEF Commit, TypeOK
      <3> QED
        BY <3>6, <3>7
    <2> QED
      BY <2>3, <2>4 DEF RowFollowsNewestSnapshot, Newest
  <1>3. ASSUME NEW r \in Requests, Fail(r) PROVE RowFollowsNewestSnapshot'
    <2>1. RowFollowsNewestSnapshot /\ UNCHANGED <<instrument, snapshots, torn>>
      BY <1>3, FailFacts DEF IInv, GivesUp, historyVars
    <2> QED
      BY <2>1 DEF RowFollowsNewestSnapshot, Newest
  <1>4. ASSUME NEW r \in Requests, FindSnapshot(r) PROVE RowFollowsNewestSnapshot'
    <2>1. RowFollowsNewestSnapshot /\ UNCHANGED <<instrument, snapshots, torn>>
      BY <1>4, FindFacts DEF IInv, marketVars, historyVars
    <2> QED
      BY <2>1 DEF RowFollowsNewestSnapshot, Newest
  <1>5. ASSUME NEW r \in Requests, MarkSnapshot(r) PROVE RowFollowsNewestSnapshot'
    <2>1. RowFollowsNewestSnapshot /\ UNCHANGED <<instrument, torn>>
      BY <1>5, MarkFacts DEF IInv, GivesUp, historyVars
    <2>2. ASSUME NEW j \in Isins \ torn, NEW s \in snapshots'[j], s \in Newest(j)'
          PROVE  \E t \in Newest(j) : t.quote = s.quote
      <3>1. PICK t \in snapshots[j] : t.received = s.received /\ t.quote = s.quote
        BY <1>5, MarkFacts
      <3>2. \A p \in snapshots[j] : p.received <= t.received
        BY <1>5, <2>2, <3>1, MarkFacts DEF Newest
      <3> QED
        BY <3>1, <3>2 DEF Newest
    <2> QED
      BY <2>1, <2>2 DEF RowFollowsNewestSnapshot, Newest
  <1> USE DEF IInv, RowFollowsNewestSnapshot, Newest, TypeOK, RequestType, Idle
  <1>6. ASSUME NEW r \in Requests, NEW i \in Isins,
              BeginRefresh(r, i)
       PROVE  RowFollowsNewestSnapshot'
    BY QuotesAssumption, <1>6 DEF BeginRefresh, marketVars, historyVars
  <1>7. ASSUME NEW r \in Requests, NEW i \in Isins,
              BeginBare(r, i)
       PROVE  RowFollowsNewestSnapshot'
    BY QuotesAssumption, <1>7 DEF BeginBare, marketVars, historyVars
  <1>8. ASSUME NEW r \in Requests, BeginAll(r) PROVE RowFollowsNewestSnapshot'
    BY QuotesAssumption, <1>8 DEF BeginAll, marketVars, historyVars
  <1>9. ASSUME NEW r \in Requests, NEW isins \in SUBSET Isins,
              BeginSheet(r, isins)
       PROVE  RowFollowsNewestSnapshot'
    BY QuotesAssumption, <1>9 DEF BeginSheet, marketVars, historyVars
  <1>10. ASSUME NEW r \in Requests, NEW i \in Isins,
              NextIsin(r, i)
       PROVE  RowFollowsNewestSnapshot'
    BY QuotesAssumption, <1>10 DEF NextIsin, marketVars, historyVars
  <1>11. ASSUME NEW r \in Requests, GiveUpBatch(r) PROVE RowFollowsNewestSnapshot'
    BY QuotesAssumption, <1>11 DEF GiveUpBatch, marketVars, historyVars
  <1>12. ASSUME NEW r \in Requests, EndBatch(r) PROVE RowFollowsNewestSnapshot'
    BY QuotesAssumption, <1>12 DEF EndBatch, marketVars, historyVars
  <1>13. ASSUME NEW r \in Requests, NEW quote \in Quotes, NEW calendar \in Calendars,
              NEW repeated \in SUBSET calendar, ClientAnswers(r, quote, calendar, repeated)
       PROVE  RowFollowsNewestSnapshot'
    BY QuotesAssumption, <1>13 DEF ClientAnswers, marketVars, historyVars
  <1>14. ASSUME NEW r \in Requests, ClientRaises(r) PROVE RowFollowsNewestSnapshot'
    BY QuotesAssumption, <1>14 DEF ClientRaises, marketVars, historyVars
  <1>15. ASSUME NEW r \in Requests, Flush(r) PROVE RowFollowsNewestSnapshot'
    BY QuotesAssumption, <1>15 DEF Flush, marketVars, historyVars
  <1>16. ASSUME NEW r \in Requests, Compare(r) PROVE RowFollowsNewestSnapshot'
    BY QuotesAssumption, <1>16 DEF Compare, marketVars, historyVars
  <1>17. ASSUME NEW r \in Requests, CommitRefused(r) PROVE RowFollowsNewestSnapshot'
    BY QuotesAssumption, <1>17 DEF CommitRefused, marketVars, historyVars
  <1>18. ASSUME NEW r \in Requests, QueueEvent(r) PROVE RowFollowsNewestSnapshot'
    BY QuotesAssumption, <1>18 DEF QueueEvent, marketVars, historyVars
  <1>19. ASSUME Restart PROVE RowFollowsNewestSnapshot'
    BY QuotesAssumption, <1>19 DEF Restart, marketVars, historyVars
  <1>20. ASSUME UNCHANGED refreshVars PROVE RowFollowsNewestSnapshot'
    BY QuotesAssumption, <1>20 DEF refreshVars, marketVars
  <1> QED
    BY <1>1, <1>2, <1>3, <1>4, <1>5, <1>6, <1>7, <1>8, <1>9, <1>10,
       <1>11, <1>12, <1>13, <1>14, <1>15, <1>16, <1>17, <1>18, <1>19, <1>20
    DEF RefreshNext, Begin, Step

\* A refusal needs a row that was read before it was committed.
LEMMA NextRefusals == IInv /\ [RefreshNext]_refreshVars => RefusalsAreExplained'
  <1> SUFFICES ASSUME IInv, [RefreshNext]_refreshVars PROVE RefusalsAreExplained'
    OBVIOUS
  <1>1. ASSUME NEW r \in Requests, Flush(r) PROVE RefusalsAreExplained'
    <2> SUFFICES ASSUME NEW q \in Requests PROVE IsExplained(q)'
      BY DEF RefusalsAreExplained, IsExplained
    <2>0. TypeOK /\ IsExplained(q) /\ Shape(r) /\ IsNew(r) /\ (\A i \in Isins : IsFresh(r, i))
      BY DEF IInv, RefusalsAreExplained, Shapes, NewIsNew, ReadsAreFresh, IsExplained
    <2>1. /\ request[r].step \in {"answered", "stub"} /\ clock' = clock /\ UNCHANGED <<marketVars, historyVars>>
          /\ request'[r] = [request[r] EXCEPT !.step =
               IF request[r].seen[request[r].isin].known = "absent"
                    /\ instrument[request[r].isin].known # "absent" THEN "broken"
               ELSE IF request[r].step = "stub" THEN "stubbed" ELSE "flushed"]
          /\ \A p \in Requests \ {r} : request'[p] = request[p]
      BY <1>1, <2>0 DEF Flush, TypeOK, historyVars
    <2>2. CASE q = r
      <3>1. /\ request'[r].isin = request[r].isin /\ request'[r].overtaken = request[r].overtaken
            /\ request'[r].step = "broken" =>
                 /\ request[r].seen[request[r].isin].known = "absent"
                 /\ instrument[request[r].isin].known # "absent"
        BY <2>0, <2>1 DEF TypeOK, RequestType
      <3>2. request[r].isin \in Isins /\ HasRead(r, request[r].isin)
        BY <2>0, <2>1 DEF Shape, HasRead
      <3> QED
        BY <2>0, <2>1, <2>2, <3>1, <3>2 DEF IsExplained, IsFresh
    <2>3. CASE q # r
      BY <2>0, <2>1, <2>3 DEF IsExplained, Absent, marketVars, historyVars
    <2> QED
      BY <2>2, <2>3
  <1>2. ASSUME NEW r \in Requests, CommitBare(r) PROVE RefusalsAreExplained'
    <2> SUFFICES ASSUME NEW q \in Requests PROVE IsExplained(q)'
      BY DEF RefusalsAreExplained, IsExplained
    <2>0. TypeOK /\ IsExplained(q) /\ Shape(r) /\ IsNew(r) /\ (\A i \in Isins : IsFresh(r, i))
      BY DEF IInv, RefusalsAreExplained, Shapes, NewIsNew, ReadsAreFresh, IsExplained
    <2>1. UNCHANGED <<actions, snapshots, clock, torn>>
      BY <1>2 DEF CommitBare, historyVars
    <2>2. CASE q = r
      BY <1>2, CommitBareFacts, <2>0, <2>1, <2>2 DEF IsExplained, Absent, Idle, Bare
    <2>3. CASE q # r
      BY <1>2, CommitBareFacts, <2>0, <2>1, <2>3 DEF IsExplained, Absent, Same, Bare
    <2> QED
      BY <2>2, <2>3
  <1>3. ASSUME NEW r \in Requests, CommitRefused(r) PROVE RefusalsAreExplained'
    <2> SUFFICES ASSUME NEW q \in Requests PROVE IsExplained(q)'
      BY DEF RefusalsAreExplained, IsExplained
    <2>0. TypeOK /\ IsExplained(q) /\ Shape(r) /\ IsNew(r) /\ (\A i \in Isins : IsFresh(r, i))
      BY DEF IInv, RefusalsAreExplained, Shapes, NewIsNew, ReadsAreFresh, IsExplained
    <2>1. /\ request[r].step = "compared" /\ clock' = clock
          /\ Refused(r) /\ UNCHANGED <<marketVars, historyVars>>
          /\ request'[r] = [request[r] EXCEPT !.step = "broken"]
          /\ \A p \in Requests \ {r} : request'[p] = request[p]
      BY <1>3, <2>0 DEF CommitRefused, TypeOK, historyVars
    <2>2. CASE q = r
      BY <2>0, <2>1, <2>2 DEF IsExplained, Absent, TypeOK, RequestType, marketVars, historyVars, IsNew, Refused
    <2>3. CASE q # r
      BY <2>0, <2>1, <2>3 DEF IsExplained, Absent, marketVars, historyVars
    <2> QED
      BY <2>2, <2>3
  <1>4. ASSUME NEW r \in Requests, Commit(r) PROVE RefusalsAreExplained'
    <2> SUFFICES ASSUME NEW q \in Requests PROVE IsExplained(q)'
      BY DEF RefusalsAreExplained, IsExplained
    <2>0. TypeOK /\ IsExplained(q) /\ Shape(r) /\ IsNew(r) /\ (\A i \in Isins : IsFresh(r, i))
      BY DEF IInv, RefusalsAreExplained, Shapes, NewIsNew, ReadsAreFresh, IsExplained
    <2>1. Commits(r, request[r].isin) /\ UNCHANGED clock
          /\ \A i \in Isins \ {request[r].isin} : i \in torn' <=> i \in torn
      BY <1>4, CommitFacts DEF Commit
    <2>2. CASE q = r /\ request[r].kind = "api"
      BY <2>0, <2>1, <2>2 DEF IsExplained, Absent, Commits, Idle
    <2>3. CASE q = r /\ request[r].kind # "api"
      BY <2>0, <2>1, <2>3 DEF IsExplained, Absent, Commits, GoesOn
    <2>4. CASE q # r
      BY <2>0, <2>1, <2>4 DEF IsExplained, Absent, Commits, Same
    <2> QED
      BY <2>2, <2>3, <2>4
  <1>5. ASSUME NEW r \in Requests, Fail(r) PROVE RefusalsAreExplained'
    <2> SUFFICES ASSUME NEW q \in Requests PROVE IsExplained(q)'
      BY DEF RefusalsAreExplained, IsExplained
    <2>0. TypeOK /\ IsExplained(q) /\ Shape(r) /\ IsNew(r) /\ (\A i \in Isins : IsFresh(r, i))
      BY DEF IInv, RefusalsAreExplained, Shapes, NewIsNew, ReadsAreFresh, IsExplained
    <2>1. GivesUp(r) /\ UNCHANGED <<snapshots, torn>>
      BY <1>5, FailFacts DEF GivesUp, historyVars
    <2>2. CASE q = r
      BY <2>0, <2>1, <2>2 DEF IsExplained, Absent, GivesUp, GoesOn, Idle
    <2>3. CASE q # r
      BY <2>0, <2>1, <2>3 DEF IsExplained, Absent, GivesUp
    <2> QED
      BY <2>2, <2>3
  <1>6. ASSUME NEW r \in Requests, FindSnapshot(r) PROVE RefusalsAreExplained'
    <2> SUFFICES ASSUME NEW q \in Requests PROVE IsExplained(q)'
      BY DEF RefusalsAreExplained, IsExplained
    <2>0. TypeOK /\ IsExplained(q) /\ Shape(r) /\ IsNew(r) /\ (\A i \in Isins : IsFresh(r, i))
      BY DEF IInv, RefusalsAreExplained, Shapes, NewIsNew, ReadsAreFresh, IsExplained
    <2>1. /\ UNCHANGED <<instrument, actions, snapshots, clock, torn>> /\ request[r].step = "raised"
          /\ \A p \in Requests \ {r} : request'[p] = request[p]
      BY <1>6, FindFacts DEF marketVars, historyVars
    <2>2. CASE q # r
      BY <2>0, <2>1, <2>2 DEF IsExplained, Absent
    <2>3. CASE q = r /\ GivesUp(r)
      BY <2>0, <2>3 DEF IsExplained, Absent, GivesUp, GoesOn, Idle
    <2>4. ASSUME q = r, NEW s \in Newest(request[r].isin),
                 request'[r] = [request[r] EXCEPT !.step = "marking", !.received = s.received]
          PROVE  IsExplained(q)'
      BY <2>0, <2>1, <2>4 DEF IsExplained, Absent, TypeOK, RequestType
    <2> QED
      BY <1>6, FindFacts, <2>2, <2>3, <2>4
  <1>7. ASSUME NEW r \in Requests, MarkSnapshot(r) PROVE RefusalsAreExplained'
    <2> SUFFICES ASSUME NEW q \in Requests PROVE IsExplained(q)'
      BY DEF RefusalsAreExplained, IsExplained
    <2>0. TypeOK /\ IsExplained(q) /\ Shape(r) /\ IsNew(r) /\ (\A i \in Isins : IsFresh(r, i))
      BY DEF IInv, RefusalsAreExplained, Shapes, NewIsNew, ReadsAreFresh, IsExplained
    <2>1. GivesUp(r) /\ UNCHANGED torn
      BY <1>7, MarkFacts DEF GivesUp, historyVars
    <2>2. CASE q = r
      BY <2>0, <2>1, <2>2 DEF IsExplained, Absent, GivesUp, GoesOn, Idle
    <2>3. CASE q # r
      BY <1>7, MarkFacts, <2>0, <2>1, <2>3 DEF IsExplained, Absent, GivesUp
    <2> QED
      BY <2>2, <2>3
  <1> USE DEF IInv, RefusalsAreExplained, IsExplained, Absent, TypeOK, RequestType, Idle
  <1>8. ASSUME NEW r \in Requests, NEW i \in Isins,
              BeginRefresh(r, i)
       PROVE  RefusalsAreExplained'
    BY QuotesAssumption, <1>8 DEF BeginRefresh, marketVars, historyVars
  <1>9. ASSUME NEW r \in Requests, NEW i \in Isins,
              BeginBare(r, i)
       PROVE  RefusalsAreExplained'
    BY QuotesAssumption, <1>9 DEF BeginBare, marketVars, historyVars
  <1>10. ASSUME NEW r \in Requests, BeginAll(r) PROVE RefusalsAreExplained'
    BY QuotesAssumption, <1>10 DEF BeginAll, marketVars, historyVars
  <1>11. ASSUME NEW r \in Requests, NEW isins \in SUBSET Isins,
              BeginSheet(r, isins)
       PROVE  RefusalsAreExplained'
    BY QuotesAssumption, <1>11 DEF BeginSheet, marketVars, historyVars
  <1>12. ASSUME NEW r \in Requests, NEW i \in Isins,
              NextIsin(r, i)
       PROVE  RefusalsAreExplained'
    BY QuotesAssumption, <1>12 DEF NextIsin, marketVars, historyVars
  <1>13. ASSUME NEW r \in Requests, GiveUpBatch(r) PROVE RefusalsAreExplained'
    BY QuotesAssumption, <1>13 DEF GiveUpBatch, marketVars, historyVars
  <1>14. ASSUME NEW r \in Requests, EndBatch(r) PROVE RefusalsAreExplained'
    BY QuotesAssumption, <1>14 DEF EndBatch, marketVars, historyVars
  <1>15. ASSUME NEW r \in Requests, NEW quote \in Quotes, NEW calendar \in Calendars,
              NEW repeated \in SUBSET calendar, ClientAnswers(r, quote, calendar, repeated)
       PROVE  RefusalsAreExplained'
    BY QuotesAssumption, <1>15 DEF ClientAnswers, marketVars, historyVars
  <1>16. ASSUME NEW r \in Requests, ClientRaises(r) PROVE RefusalsAreExplained'
    BY QuotesAssumption, <1>16 DEF ClientRaises, marketVars, historyVars
  <1>17. ASSUME NEW r \in Requests, Compare(r) PROVE RefusalsAreExplained'
    BY QuotesAssumption, <1>17 DEF Compare, marketVars, historyVars
  <1>18. ASSUME NEW r \in Requests, QueueEvent(r) PROVE RefusalsAreExplained'
    BY QuotesAssumption, <1>18 DEF QueueEvent, marketVars, historyVars
  <1>19. ASSUME Restart PROVE RefusalsAreExplained'
    BY QuotesAssumption, <1>19 DEF Restart, marketVars, historyVars
  <1>20. ASSUME UNCHANGED refreshVars PROVE RefusalsAreExplained'
    BY QuotesAssumption, <1>20 DEF refreshVars, marketVars
  <1> QED
    BY <1>1, <1>2, <1>3, <1>4, <1>5, <1>6, <1>7, <1>8, <1>9, <1>10,
       <1>11, <1>12, <1>13, <1>14, <1>15, <1>16, <1>17, <1>18, <1>19, <1>20
    DEF RefreshNext, Begin, Step

\* The snapshot found newest is that of the row that was read.
LEMMA NextMarks == IInv /\ [RefreshNext]_refreshVars => FailureMarksItsOwn'
  <1> SUFFICES ASSUME IInv, [RefreshNext]_refreshVars PROVE FailureMarksItsOwn'
    OBVIOUS
  <1>1. ASSUME NEW r \in Requests, NEW quote \in Quotes, NEW calendar \in Calendars,
              NEW repeated \in SUBSET calendar, ClientAnswers(r, quote, calendar, repeated)
       PROVE  FailureMarksItsOwn'
    <2> SUFFICES ASSUME NEW q \in Requests PROVE MarksItsOwn(q)'
      BY DEF FailureMarksItsOwn, MarksItsOwn
    <2>0. TypeOK /\ MarksItsOwn(q) /\ Shape(q) /\ StoredTimesDiffer
          /\ RowFollowsNewestSnapshot /\ \A i \in Isins : IsFresh(r, i)
      BY DEF IInv, FailureMarksItsOwn, Shapes, ReadsAreFresh, TimesDiffer, MarksItsOwn
    <2>1. /\ request[r].step = "fetching" /\ clock' = clock + 1 /\ UNCHANGED <<marketVars, historyVars>>
          /\ request'[r] = [request[r] EXCEPT !.step = "answered", !.received = clock + 1,
                                          !.quote = quote, !.calendar = calendar,
                                       !.repeated = repeated]
          /\ \A p \in Requests \ {r} : request'[p] = request[p]
      BY <1>1, <2>0 DEF ClientAnswers, TypeOK, historyVars
    <2>2. CASE q = r
      <3>1. request'[r].step # "marking"
        BY <2>0, <2>1 DEF TypeOK, RequestType
      <3> QED
        BY <2>2, <3>1 DEF MarksItsOwn
    <2>3. CASE q # r
      BY <2>0, <2>1, <2>3 DEF MarksItsOwn, HasRead, marketVars, historyVars, Shape
    <2> QED
      BY <2>2, <2>3
  <1>2. ASSUME NEW r \in Requests, CommitBare(r) PROVE FailureMarksItsOwn'
    <2> SUFFICES ASSUME NEW q \in Requests PROVE MarksItsOwn(q)'
      BY DEF FailureMarksItsOwn, MarksItsOwn
    <2>0. TypeOK /\ MarksItsOwn(q) /\ Shape(q) /\ StoredTimesDiffer
          /\ RowFollowsNewestSnapshot /\ \A i \in Isins : IsFresh(r, i)
      BY DEF IInv, FailureMarksItsOwn, Shapes, ReadsAreFresh, TimesDiffer, MarksItsOwn
    <2>1. UNCHANGED <<actions, snapshots, clock, torn>>
      BY <1>2 DEF CommitBare, historyVars
    <2>2. CASE q = r
      BY <1>2, CommitBareFacts, <2>0, <2>1, <2>2 DEF MarksItsOwn, HasRead, Idle, Bare
    <2>3. CASE q # r
      BY <1>2, CommitBareFacts, <2>0, <2>1, <2>3 DEF MarksItsOwn, HasRead, Same, Bare, Shape
    <2> QED
      BY <2>2, <2>3
  <1>3. ASSUME NEW r \in Requests, Compare(r) PROVE FailureMarksItsOwn'
    <2> SUFFICES ASSUME NEW q \in Requests PROVE MarksItsOwn(q)'
      BY DEF FailureMarksItsOwn, MarksItsOwn
    <2>0. TypeOK /\ MarksItsOwn(q) /\ Shape(q) /\ StoredTimesDiffer
          /\ RowFollowsNewestSnapshot /\ \A i \in Isins : IsFresh(r, i)
      BY DEF IInv, FailureMarksItsOwn, Shapes, ReadsAreFresh, TimesDiffer, MarksItsOwn
    <2>1. /\ request[r].step = "flushed" /\ clock' = clock + 1 /\ UNCHANGED <<marketVars, historyVars>>
          /\ request'[r] = [request[r] EXCEPT !.step = "compared", !.stamp = clock + 1,
                            !.new = request[r].calendar \ DOMAIN actions[request[r].isin]]
          /\ \A p \in Requests \ {r} : request'[p] = request[p]
      BY <1>3, <2>0 DEF Compare, TypeOK, historyVars
    <2>2. CASE q = r
      <3>1. request'[r].step # "marking"
        BY <2>0, <2>1 DEF TypeOK, RequestType
      <3> QED
        BY <2>2, <3>1 DEF MarksItsOwn
    <2>3. CASE q # r
      BY <2>0, <2>1, <2>3 DEF MarksItsOwn, HasRead, marketVars, historyVars, Shape
    <2> QED
      BY <2>2, <2>3
  <1>4. ASSUME NEW r \in Requests, Commit(r) PROVE FailureMarksItsOwn'
    <2> SUFFICES ASSUME NEW q \in Requests PROVE MarksItsOwn(q)'
      BY DEF FailureMarksItsOwn, MarksItsOwn
    <2>0. TypeOK /\ MarksItsOwn(q) /\ Shape(q) /\ StoredTimesDiffer
          /\ RowFollowsNewestSnapshot /\ \A i \in Isins : IsFresh(r, i)
      BY DEF IInv, FailureMarksItsOwn, Shapes, ReadsAreFresh, TimesDiffer, MarksItsOwn
    <2>1. Commits(r, request[r].isin) /\ UNCHANGED clock
          /\ \A i \in Isins \ {request[r].isin} : i \in torn' <=> i \in torn
      BY <1>4, CommitFacts DEF Commit
    <2>2. CASE q = r /\ request[r].kind = "api"
      BY <2>0, <2>1, <2>2 DEF MarksItsOwn, HasRead, Commits, Idle
    <2>3. CASE q = r /\ request[r].kind # "api"
      BY <2>0, <2>1, <2>3 DEF MarksItsOwn, HasRead, Commits, GoesOn
    <2>4. CASE q # r
      BY <2>0, <2>1, <2>4 DEF MarksItsOwn, HasRead, Commits, Same, Shape
    <2> QED
      BY <2>2, <2>3, <2>4
  <1>5. ASSUME NEW r \in Requests, Fail(r) PROVE FailureMarksItsOwn'
    <2> SUFFICES ASSUME NEW q \in Requests PROVE MarksItsOwn(q)'
      BY DEF FailureMarksItsOwn, MarksItsOwn
    <2>0. TypeOK /\ MarksItsOwn(q) /\ Shape(q) /\ StoredTimesDiffer
          /\ RowFollowsNewestSnapshot /\ \A i \in Isins : IsFresh(r, i)
      BY DEF IInv, FailureMarksItsOwn, Shapes, ReadsAreFresh, TimesDiffer, MarksItsOwn
    <2>1. GivesUp(r) /\ UNCHANGED <<snapshots, torn>>
      BY <1>5, FailFacts DEF GivesUp, historyVars
    <2>2. CASE q = r
      BY <2>0, <2>1, <2>2 DEF MarksItsOwn, HasRead, GivesUp, GoesOn, Idle
    <2>3. CASE q # r
      BY <2>0, <2>1, <2>3 DEF MarksItsOwn, HasRead, GivesUp, Shape
    <2> QED
      BY <2>2, <2>3
  <1>6. ASSUME NEW r \in Requests, FindSnapshot(r) PROVE FailureMarksItsOwn'
    <2> SUFFICES ASSUME NEW q \in Requests PROVE MarksItsOwn(q)'
      BY DEF FailureMarksItsOwn, MarksItsOwn
    <2>0. TypeOK /\ MarksItsOwn(q) /\ Shape(q) /\ StoredTimesDiffer
          /\ RowFollowsNewestSnapshot /\ \A i \in Isins : IsFresh(r, i)
      BY DEF IInv, FailureMarksItsOwn, Shapes, ReadsAreFresh, TimesDiffer, MarksItsOwn
    <2>1. /\ UNCHANGED <<instrument, actions, snapshots, clock, torn>> /\ request[r].step = "raised"
          /\ \A p \in Requests \ {r} : request'[p] = request[p]
      BY <1>6, FindFacts DEF marketVars, historyVars
    <2>2. CASE q # r
      BY <2>0, <2>1, <2>2 DEF MarksItsOwn, HasRead, Shape
    <2>3. CASE q = r /\ GivesUp(r)
      BY <2>0, <2>3 DEF MarksItsOwn, HasRead, GivesUp, GoesOn, Idle
    <2>4. ASSUME q = r, NEW s \in Newest(request[r].isin),
                 request'[r] = [request[r] EXCEPT !.step = "marking", !.received = s.received]
          PROVE  MarksItsOwn(q)'
      <3>1. request'[r].isin = request[r].isin /\ request'[r].seen = request[r].seen
            /\ request'[r].overtaken = request[r].overtaken /\ request'[r].received = s.received
        BY <2>0, <2>4 DEF TypeOK, RequestType
      <3>2. request[r].isin \notin request[r].overtaken => request[r].seen[request[r].isin] = instrument[request[r].isin]
        BY <2>0, <2>1, <2>4 DEF IsFresh, HasRead, Shape
      <3>3. \A t \in snapshots[request[r].isin] : t.received = s.received => t = s
        BY <2>0, <2>1, <2>4 DEF StoredTimesDiffer, Newest, Shape
      <3>4. request[r].isin \notin torn => /\ instrument[request[r].isin].face = s.quote.face
                                     /\ instrument[request[r].isin].day = s.quote.day
        BY <2>0, <2>1, <2>4 DEF RowFollowsNewestSnapshot, Shape
      <3> QED
        BY <2>1, <2>4, <3>1, <3>2, <3>3, <3>4 DEF MarksItsOwn
    <2> QED
      BY <1>6, FindFacts, <2>2, <2>3, <2>4
  <1>7. ASSUME NEW r \in Requests, MarkSnapshot(r) PROVE FailureMarksItsOwn'
    <2> SUFFICES ASSUME NEW q \in Requests PROVE MarksItsOwn(q)'
      BY DEF FailureMarksItsOwn, MarksItsOwn
    <2>0. TypeOK /\ MarksItsOwn(q) /\ Shape(q) /\ StoredTimesDiffer
          /\ RowFollowsNewestSnapshot /\ \A i \in Isins : IsFresh(r, i)
      BY DEF IInv, FailureMarksItsOwn, Shapes, ReadsAreFresh, TimesDiffer, MarksItsOwn
    <2>1. GivesUp(r) /\ UNCHANGED torn
      BY <1>7, MarkFacts DEF GivesUp, historyVars
    <2>2. CASE q = r
      BY <2>0, <2>1, <2>2 DEF MarksItsOwn, HasRead, GivesUp, GoesOn, Idle
    <2>3. CASE q # r
      BY <1>7, MarkFacts, <2>0, <2>1, <2>3 DEF MarksItsOwn, HasRead, GivesUp, Shape
    <2> QED
      BY <2>2, <2>3
  <1> USE DEF IInv, FailureMarksItsOwn, MarksItsOwn, HasRead, TypeOK, RequestType, Idle
  <1>8. ASSUME NEW r \in Requests, NEW i \in Isins,
              BeginRefresh(r, i)
       PROVE  FailureMarksItsOwn'
    BY QuotesAssumption, <1>8 DEF BeginRefresh, marketVars, historyVars
  <1>9. ASSUME NEW r \in Requests, NEW i \in Isins,
              BeginBare(r, i)
       PROVE  FailureMarksItsOwn'
    BY QuotesAssumption, <1>9 DEF BeginBare, marketVars, historyVars
  <1>10. ASSUME NEW r \in Requests, BeginAll(r) PROVE FailureMarksItsOwn'
    BY QuotesAssumption, <1>10 DEF BeginAll, marketVars, historyVars
  <1>11. ASSUME NEW r \in Requests, NEW isins \in SUBSET Isins,
              BeginSheet(r, isins)
       PROVE  FailureMarksItsOwn'
    BY QuotesAssumption, <1>11 DEF BeginSheet, marketVars, historyVars
  <1>12. ASSUME NEW r \in Requests, NEW i \in Isins,
              NextIsin(r, i)
       PROVE  FailureMarksItsOwn'
    BY QuotesAssumption, <1>12 DEF NextIsin, marketVars, historyVars
  <1>13. ASSUME NEW r \in Requests, GiveUpBatch(r) PROVE FailureMarksItsOwn'
    BY QuotesAssumption, <1>13 DEF GiveUpBatch, marketVars, historyVars
  <1>14. ASSUME NEW r \in Requests, EndBatch(r) PROVE FailureMarksItsOwn'
    BY QuotesAssumption, <1>14 DEF EndBatch, marketVars, historyVars
  <1>15. ASSUME NEW r \in Requests, ClientRaises(r) PROVE FailureMarksItsOwn'
    BY QuotesAssumption, <1>15 DEF ClientRaises, marketVars, historyVars
  <1>16. ASSUME NEW r \in Requests, Flush(r) PROVE FailureMarksItsOwn'
    BY QuotesAssumption, <1>16 DEF Flush, marketVars, historyVars
  <1>17. ASSUME NEW r \in Requests, CommitRefused(r) PROVE FailureMarksItsOwn'
    BY QuotesAssumption, <1>17 DEF CommitRefused, marketVars, historyVars
  <1>18. ASSUME NEW r \in Requests, QueueEvent(r) PROVE FailureMarksItsOwn'
    BY QuotesAssumption, <1>18 DEF QueueEvent, marketVars, historyVars
  <1>19. ASSUME Restart PROVE FailureMarksItsOwn'
    BY QuotesAssumption, <1>19 DEF Restart, marketVars, historyVars
  <1>20. ASSUME UNCHANGED refreshVars PROVE FailureMarksItsOwn'
    BY QuotesAssumption, <1>20 DEF refreshVars, marketVars
  <1> QED
    BY <1>1, <1>2, <1>3, <1>4, <1>5, <1>6, <1>7, <1>8, <1>9, <1>10,
       <1>11, <1>12, <1>13, <1>14, <1>15, <1>16, <1>17, <1>18, <1>19, <1>20
    DEF RefreshNext, Begin, Step

-----------------------------------------------------------------------------
\* Nothing has happened at the start.
LEMMA InitIInv == RefreshInit => IInv
  <1> SUFFICES ASSUME RefreshInit PROVE IInv
    OBVIOUS
  <1>1. /\ instrument = [i \in Isins |-> Absent] /\ actions = [i \in Isins |-> <<>>]
        /\ snapshots = [i \in Isins |-> {}] /\ request = [r \in Requests |-> Idle]
        /\ clock = 0 /\ torn = {} /\ unsynced = FALSE /\ excused = FALSE
    BY DEF RefreshInit, MarketInit
  <1>2. \A r \in Requests : /\ request[r].step = "idle" /\ request[r].kind = "none"
                            /\ request[r].isin = NoIsin /\ request[r].todo = {}
                            /\ request[r].seen = [i \in Isins |-> Absent]
    BY <1>1 DEF Idle
  <1>3. TypeOK
    <2>1. instrument \in [Isins -> Row]
      BY <1>1 DEF Absent, Row
    <2>2. \A i \in Isins : DOMAIN actions[i] = {}
      <3>1. DOMAIN <<>> = {}
        BY SMT
      <3>2. \A i \in Isins : actions[i] = <<>>
        BY <1>1, Zenon
      <3> QED
        BY <3>1, <3>2, Zenon
    <2>3. request \in [Requests -> RequestType]
      BY <1>1, IdleType
    <2>4. snapshots \in [Isins -> SUBSET [received : 1..clock, quote : Quotes, error : BOOLEAN]]
      BY <1>1
    <2>5. clock \in 0..MaxClock
      BY <1>1, ClockAssumption
    <2> QED
      BY <1>1, <1>2, <2>1, <2>2, <2>3, <2>4, <2>5 DEF TypeOK
  <1>4. Shapes /\ Answers /\ NewIsNew /\ AnswersAreNewest
    BY <1>2 DEF Shapes, Shape, Refreshing, Answers, AnswerIsPast, HasAnswer, NewIsNew, IsNew,
                AnswersAreNewest, AnswerIsNewest
  <1>5. AbsentIsBlank /\ SnapshotsHaveRows /\ EventIsPending
    BY <1>1 DEF AbsentIsBlank, SnapshotsHaveRows, EventIsPending
  <1>6. ReadsAreFresh /\ RowsStay
    BY <1>1, <1>2 DEF ReadsAreFresh, IsFresh, HasRead, RowsStay, Stays
  <1>7. TimesDiffer
    BY <1>1, <1>2 DEF TimesDiffer, StoredTimesDiffer, AllAnswersDiffer, AnswerDiffers,
                      AnswersDiffer, BothDiffer, HasAnswer
  <1>8. StubsAreAlone
    BY <1>2 DEF StubsAreAlone, StubsHaveNoRow, HasNoRow, StubsExclude, Excludes
  <1>9. RowFollowsNewestSnapshot /\ RefusalsAreExplained /\ FailureMarksItsOwn
    BY <1>1, <1>2 DEF RowFollowsNewestSnapshot, Newest, RefusalsAreExplained, FailureMarksItsOwn
  <1> QED
    BY <1>3, <1>4, <1>5, <1>6, <1>7, <1>8, <1>9 DEF IInv

\* Every reachable state satisfies the inductive invariant.
THEOREM Invariance == RefreshSpec => []IInv
  <1>1. IInv /\ [RefreshNext]_refreshVars => IInv'
    <2> SUFFICES ASSUME IInv, [RefreshNext]_refreshVars PROVE IInv'
      OBVIOUS
    <2>1. TypeOK' /\ Shapes' /\ Answers' /\ AbsentIsBlank'
      BY NextType, NextShapes, NextAnswers, NextBlank
    <2>2. ReadsAreFresh' /\ RowsStay' /\ NewIsNew'
      BY NextReads, NextStay, NextNew
    <2>3. TimesDiffer' /\ AnswersAreNewest'
      BY NextStored, NextDiffers, NextPairs, NextNewest DEF TimesDiffer
    <2>4. StubsAreAlone' /\ SnapshotsHaveRows' /\ EventIsPending'
      BY NextNoRow, NextExclude, NextRows, NextEvent DEF StubsAreAlone
    <2>5. RowFollowsNewestSnapshot' /\ RefusalsAreExplained' /\ FailureMarksItsOwn'
      BY NextFollows, NextRefusals, NextMarks
    <2> QED
      BY <2>1, <2>2, <2>3, <2>4, <2>5 DEF IInv
  <1> QED
    BY <1>1, InitIInv, PTL DEF RefreshSpec

\* Rows, answers and requests are well typed, and no request without an answer is in a
\* step that needs one: refresh flushes and compares what the client has returned.
THEOREM TypeCorrectness == RefreshSpec => []TypeOK
  <1>1. IInv => TypeOK
    BY DEF IInv
  <1> QED
    BY <1>1, Invariance, PTL

\* The row of an instrument and its newest snapshot are of one answer of MOEX, unless the
\* last refresh that committed was overtaken: refresh writes both in one transaction.
THEOREM RowsFollowSnapshots == RefreshSpec => []RowFollowsNewestSnapshot
  <1>1. IInv => RowFollowsNewestSnapshot
    BY DEF IInv
  <1> QED
    BY <1>1, Invariance, PTL

\* A unique constraint refuses a refresh or a bare instrument only after another request
\* has committed the same instrument, or when the answer repeats an action that is new.
THEOREM RefusalsHaveTwoCauses == RefreshSpec => []RefusalsAreExplained
  <1>1. IInv => RefusalsAreExplained
    BY DEF IInv
  <1> QED
    BY <1>1, Invariance, PTL

\* _record_refresh_error marks the snapshot its own row came from, unless it was overtaken.
THEOREM FailuresMarkTheirOwn == RefreshSpec => []FailureMarksItsOwn
  <1>1. IInv => FailureMarksItsOwn
    BY DEF IInv
  <1> QED
    BY <1>1, Invariance, PTL

\* What a handler committed is followed by an event, unless the process died in between or
\* a whole batch broke.
THEOREM EveryChangeIsAnnounced == RefreshSpec => []ChangesAreAnnounced
  <1>1. IInv => ChangesAreAnnounced
    <2> SUFFICES ASSUME IInv, unsynced, ~excused
                 PROVE  \E r \in Requests : request[r].step # "idle" /\ request[r].kind \in {"api", "all"}
      BY DEF ChangesAreAnnounced
    <2>1. PICK r \in Requests : Announces(r)
      BY DEF IInv, EventIsPending
    <2>2. Shape(r)
      BY DEF IInv, Shapes
    <2> QED
      BY <2>1, <2>2 DEF Announces, Shape
  <1> QED
    BY <1>1, Invariance, PTL

-----------------------------------------------------------------------------
\* A refresh that commits publishes one snapshot, the new actions and the row.
LEMMA CommitPublishes ==
    ASSUME IInv, NEW r \in Requests, Commit(r)
    PROVE  Published(request[r].isin)
  <1>0. PICK i \in Isins : i = request[r].isin
    BY CommitFacts DEF Commits
  <1> DEFINE new == [received |-> request[r].received, quote |-> request[r].quote, error |-> FALSE]
  <1>1. /\ TypeOK /\ Commits(r, i) /\ AnswerIsPast(r) /\ AnswerDiffers(r)
        /\ request[r].step = "compared" /\ request[r].new \cap DOMAIN actions[i] = {}
    BY <1>0, CommitFacts DEF IInv, Answers, TimesDiffer, AllAnswersDiffer, Commit, Refused
  <1>2. /\ request[r].received \in 1..MaxClock /\ request[r].stamp \in 1..MaxClock
        /\ request[r].quote \in Quotes /\ request[r].calendar \in Calendars
        /\ request[r].new \subseteq request[r].calendar
    BY <1>1, ClockAssumption DEF TypeOK, RequestType, AnswerIsPast, HasAnswer
  <1>3. \A s \in snapshots[i] : s.received # request[r].received
    BY <1>0, <1>1 DEF AnswerDiffers, HasAnswer
  <1>4. new \in snapshots'[i] \ snapshots[i]
    BY <1>1, <1>3 DEF Commits
  <1>5. DOMAIN actions'[i] \ DOMAIN actions[i] = request[r].new
    BY <1>1 DEF Commits
  <1>6. /\ instrument' = [instrument EXCEPT ![i] = instrument'[i]]
        /\ actions' = [actions EXCEPT ![i] = Extended(@, request[r].new, request[r].stamp)]
        /\ snapshots' = [snapshots EXCEPT ![i] = @ \cup {new}]
    BY <1>0, <1>1 DEF Commit, TypeOK
  <1>7. /\ instrument'[i].known = "quoted"
        /\ instrument'[i].face \in {instrument[i].face, request[r].quote.face}
        /\ instrument'[i].day \in {instrument[i].day, request[r].quote.day}
    BY <1>0, <1>1 DEF Commit, TypeOK
  <1>8. Publish(i, instrument'[i], request[r].quote, request[r].new, request[r].stamp,
                request[r].received)
    BY <1>1, <1>3, <1>6, <1>7 DEF Publish
  <1>9. new.quote = request[r].quote /\ new.received = request[r].received
    OBVIOUS
  <1> HIDE DEF new
  <1>10. Published(i)
    BY <1>2, <1>4, <1>5, <1>8, <1>9 DEF Published
  <1> QED
    BY <1>0, <1>10

\* Whatever refreshes do, however they overlap and wherever they fail, the market data
\* change as MarketData says: nothing that was stored is lost.
THEOREM RefreshImplementsMarketData == RefreshSpec => ImplementsMarketData
  <1>1. RefreshInit => MarketInit
    BY DEF RefreshInit
  <1>2. IInv /\ [RefreshNext]_refreshVars => [MarketNext]_marketVars
    <2> SUFFICES ASSUME IInv, [RefreshNext]_refreshVars PROVE [MarketNext]_marketVars
      OBVIOUS
    <2>1. ASSUME NEW r \in Requests, Commit(r) PROVE MarketNext
      BY <2>1, CommitPublishes, CommitFacts DEF MarketNext, Commits
    <2>2. ASSUME NEW r \in Requests, CommitBare(r) PROVE MarketNext
      <3>1. PICK i \in Isins : i = request[r].isin
        BY <2>2, CommitBareFacts
      <3>2. instrument[i].known = "absent"
        BY <2>2, <3>1, CommitBareFacts DEF IInv, StubsAreAlone, StubsHaveNoRow, HasNoRow
      <3>3. AddBare(i)
        BY <2>2, <3>1, <3>2 DEF AddBare, CommitBare
      <3> QED
        BY <3>3 DEF MarketNext
    <2>3. ASSUME NEW r \in Requests, MarkSnapshot(r) PROVE [MarketNext]_marketVars
      <3>1. PICK i \in Isins : i = request[r].isin
        BY <2>3, MarkFacts DEF GivesUp
      <3>2. CASE \E s \in snapshots[i] : s.received = request[r].received
        <4>1. PICK s \in snapshots[i] : s.received = request[r].received
          BY <3>2
        <4>2. MarkFailed(i, s.received)
          BY <2>3, <3>1, <4>1 DEF MarkFailed, MarkSnapshot
        <4> QED
          BY <4>2 DEF MarketNext
      <3>3. CASE \A s \in snapshots[i] : s.received # request[r].received
        <4>1. snapshots' = [snapshots EXCEPT ![i] = {s : s \in snapshots[i]}]
          BY <2>3, <3>1, <3>3 DEF MarkSnapshot
        <4>2. snapshots' = snapshots
          BY <4>1 DEF IInv, TypeOK
        <4> QED
          BY <2>3, <4>2 DEF MarkSnapshot, marketVars
      <3> QED
        BY <3>2, <3>3
    <2>4. ASSUME NEW r \in Requests,
                 Begin(r) \/ (\E i \in Isins : NextIsin(r, i)) \/ GiveUpBatch(r) \/ EndBatch(r)
          PROVE  UNCHANGED marketVars
      BY <2>4 DEF Begin, BeginAll, BeginRefresh, BeginBare, BeginSheet, NextIsin, GiveUpBatch,
                  EndBatch
    <2>5. ASSUME NEW r \in Requests,
                 \/ \E quote \in Quotes, calendar \in Calendars : \E repeated \in SUBSET calendar :
                      ClientAnswers(r, quote, calendar, repeated)
                 \/ ClientRaises(r) \/ Flush(r) \/ Compare(r) \/ CommitRefused(r)
                 \/ Fail(r) \/ QueueEvent(r) \/ FindSnapshot(r)
          PROVE  UNCHANGED marketVars
      BY <2>5 DEF ClientAnswers, ClientRaises, Flush, Compare, CommitRefused, Fail, QueueEvent,
                  FindSnapshot
    <2>6. ASSUME Restart \/ UNCHANGED refreshVars PROVE UNCHANGED marketVars
      BY <2>6 DEF Restart, refreshVars
    <2> QED
      BY <2>1, <2>2, <2>3, <2>4, <2>5, <2>6 DEF RefreshNext, Step
  <1> QED
    BY <1>1, <1>2, Invariance, PTL DEF RefreshSpec, ImplementsMarketData, MarketSpec

=============================================================================
