------------------------ MODULE SheetSyncQueueProofs ------------------------
(***************************************************************************)
(* Theorems about SheetSyncQueue, for every set of connections, requests   *)
(* and workers and every value of the bounds.                              *)
(***************************************************************************)
EXTENDS SheetSyncQueue, FiniteSetTheorems, TLAPS

\* Rows are inserted in order, once, with a connection and no attempt used.
RowsInOrder ==
    \A j \in Jobs :
        /\ (status[j] = "absent") <=> (j >= nextJob)
        /\ (status[j] = "absent") => (attempts[j] = 0)
        /\ (status[j] # "absent") => (connectionOf[j] \in Connections)

\* A request in flight has a connection.
RequestsHaveConnections ==
    \A h \in Handlers : (rpc[h] # "idle") <=> (rconn[h] # NoConnection)

\* Rows are staged only between the look-ups and the commit of the scheduler.
StagedWhileScanning ==
    \A w \in Workers : (staged[w] # {}) => (wpc[w] = "scan")

\* What Next preserves: SingleRunner alone is not inductive, since a claim of
\* a row already running would satisfy it until the row is settled twice.
IInv ==
    /\ TypeOK
    /\ SingleRunner
    /\ AttemptDiscipline
    /\ RowsInOrder
    /\ RequestsHaveConnections
    /\ StagedWhileScanning

-----------------------------------------------------------------------------
\* The next row numbers are still numbers of rows when rows are inserted.
LEMMA InsertedRows ==
    ASSUME TypeOK, NEW cs \in SUBSET Connections, InsertJobs(cs)
    PROVE  /\ Cardinality(cs) \in Nat
           /\ nextJob' = nextJob + Cardinality(cs)
           /\ nextJob' \in 1..(MaxJobs + 1)
           /\ nextJob' >= nextJob
  <1>1. Cardinality(cs) \in Nat
    BY FS_Subset, FS_CardinalityType, ConnectionsAssumption
  <1>2. nextJob' = nextJob + Cardinality(cs)
    BY DEF InsertJobs
  <1>3. CASE Cardinality(cs) = 0
    BY <1>1, <1>2, <1>3 DEF TypeOK
  <1>4. CASE Cardinality(cs) # 0
    <2>1. nextJob \in Nat /\ nextJob >= 1
      BY BoundsAssumption DEF TypeOK
    <2>2. nextJob + Cardinality(cs) - 1 \in nextJob .. (nextJob + Cardinality(cs) - 1)
      BY <1>1, <1>4, <2>1
    <2>3. nextJob + Cardinality(cs) - 1 \in 1..MaxJobs
      BY <2>2 DEF InsertJobs, Jobs
    <2> QED
      BY <1>1, <1>2, <2>1, <2>3, BoundsAssumption
  <1> QED
    BY <1>1, <1>3, <1>4

\* An insert makes the absent rows it fills queued jobs of the connections it
\* is given, and touches no other row.
RowsFilledFor(cs) ==
    /\ status' \in [Jobs -> Statuses]
    /\ ready' \in [Jobs -> BOOLEAN]
    /\ connectionOf' \in [Jobs -> Connections \union {NoConnection}]
    /\ attempts' = attempts
    /\ nextJob' \in 1..(MaxJobs + 1)
    /\ nextJob' >= nextJob
    /\ \A j \in Jobs :
         IF status[j] = "absent" /\ j < nextJob'
           THEN status'[j] = "queued" /\ connectionOf'[j] \in cs
           ELSE status'[j] = status[j] /\ connectionOf'[j] = connectionOf[j]

\* What the rows look like after the inserts of one transaction.
LEMMA InsertEffect ==
    ASSUME TypeOK, RowsInOrder, NEW cs \in SUBSET Connections, InsertJobs(cs)
    PROVE  RowsFilledFor(cs)
  <1> DEFINE new == nextJob .. (nextJob + Cardinality(cs) - 1)
  <1>1. /\ Cardinality(cs) \in Nat
        /\ nextJob' = nextJob + Cardinality(cs)
        /\ nextJob' \in 1..(MaxJobs + 1)
        /\ nextJob' >= nextJob
    BY InsertedRows
  <1>2. PICK f \in Bijection(new, cs) :
          connectionOf' = [j \in Jobs |-> IF j \in new THEN f[j] ELSE connectionOf[j]]
    BY DEF InsertJobs
  <1>3. f \in [new -> cs]
    BY <1>2 DEF Bijection, Injection, Surjection
  <1>4. connectionOf' \in [Jobs -> Connections \union {NoConnection}]
    BY <1>2, <1>3 DEF TypeOK
  <1>5. \A j \in Jobs : (j \in new) <=> (status[j] = "absent" /\ j < nextJob')
    <2> SUFFICES ASSUME NEW j \in Jobs
                 PROVE  (j \in new) <=> (status[j] = "absent" /\ j < nextJob')
      OBVIOUS
    <2>1. j \in Nat /\ nextJob \in Nat
      BY DEF TypeOK, Jobs
    <2>2. (status[j] = "absent") <=> (j >= nextJob)
      BY DEF RowsInOrder
    <2> QED
      BY <1>1, <2>1, <2>2
  <1>6. /\ status' = [j \in Jobs |-> IF j \in new THEN "queued" ELSE status[j]]
        /\ ready' = [j \in Jobs |-> IF j \in new THEN TRUE ELSE ready[j]]
        /\ attempts' = attempts
    BY DEF InsertJobs
  <1>7. status' \in [Jobs -> Statuses] /\ ready' \in [Jobs -> BOOLEAN]
    BY <1>6 DEF TypeOK, Statuses
  <1>8. \A j \in Jobs :
          IF j \in new
            THEN status'[j] = "queued" /\ connectionOf'[j] \in cs
            ELSE status'[j] = status[j] /\ connectionOf'[j] = connectionOf[j]
    BY <1>2, <1>3, <1>6
  <1> QED
    BY <1>1, <1>4, <1>5, <1>6, <1>7, <1>8 DEF RowsFilledFor

-----------------------------------------------------------------------------
\* The empty queue satisfies the invariant.
LEMMA InitEstablishesIInv == Init => IInv
  <1> SUFFICES ASSUME Init PROVE IInv
    OBVIOUS
  <1> USE DEF Init
  <1>1. TypeOK
    BY BoundsAssumption
    DEF TypeOK, Statuses, RequestStates, WorkerStates, Jobs, NoJob
  <1>2. SingleRunner /\ AttemptDiscipline
    BY DEF SingleRunner, AttemptDiscipline
  <1>3. RowsInOrder /\ RequestsHaveConnections /\ StagedWhileScanning
    BY DEF RowsInOrder, RequestsHaveConnections, StagedWhileScanning, Jobs
  <1> QED
    BY <1>1, <1>2, <1>3 DEF IInv

\* One step per action; the rows, locks and stages an action leaves alone are
\* settled by its UNCHANGED clause.
LEMMA NextPreservesIInv == IInv /\ [Next]_vars => IInv'
  <1> SUFFICES ASSUME IInv, [Next]_vars
               PROVE  IInv'
    OBVIOUS
  <1> DEFINE Rest == /\ SingleRunner /\ AttemptDiscipline /\ RowsInOrder
                     /\ RequestsHaveConnections /\ StagedWhileScanning
  <1> USE DEF IInv, TypeOK, SingleRunner, AttemptDiscipline, RowsInOrder,
              RequestsHaveConnections, StagedWhileScanning,
              connectionVars, jobVars, requestVars, workerVars,
              Statuses, RequestStates, WorkerStates, Jobs, NoJob
  <1>0. \A c \in Connections : c # NoConnection
    BY ConnectionsAssumption
  <1>1. ASSUME NEW h \in Handlers, NEW c \in Connections, BeginEvent(h, c)
       PROVE  IInv'
    BY <1>1, <1>0, BoundsAssumption DEF BeginEvent
  <1>2. ASSUME NEW h \in Handlers, NEW c \in Connections, BeginManual(h, c)
       PROVE  IInv'
    BY <1>2, <1>0, BoundsAssumption DEF BeginManual
  <1>3. ASSUME NEW h \in Handlers, AbandonRequest(h)
       PROVE  IInv'
    BY <1>3, <1>0, BoundsAssumption DEF AbandonRequest, EndRequest
  <1>4. ASSUME NEW c \in Connections, Configure(c)
       PROVE  IInv'
    BY <1>4, <1>0, BoundsAssumption DEF Configure
  <1>5. ASSUME NEW c \in Connections, IntervalElapses(c)
       PROVE  IInv'
    BY <1>5, <1>0, BoundsAssumption DEF IntervalElapses
  <1>6. ASSUME NEW j \in Jobs, BackoffElapses(j)
       PROVE  IInv'
    BY <1>6, <1>0, BoundsAssumption DEF BackoffElapses
  <1>7. ASSUME NEW w \in Workers, CheckpointRun(w)
       PROVE  IInv'
    BY <1>7, <1>0, BoundsAssumption DEF CheckpointRun
  <1>8. ASSUME NEW w \in Workers, RestartWorker(w)
       PROVE  IInv'
    BY <1>8, <1>0, BoundsAssumption DEF RestartWorker
  <1>9. ASSUME UNCHANGED vars
       PROVE  IInv'
    BY <1>9, <1>0, BoundsAssumption DEF vars
  <1>10. ASSUME NEW h \in Handlers, LookUpQueued(h)
       PROVE  IInv'
    <2>1. PICK pc \in {"coalescing", "inserting"} :
            rpc[h] = "looking" /\ rpc' = [rpc EXCEPT ![h] = pc]
      BY <1>10 DEF LookUpQueued
    <2>2. UNCHANGED <<connectionVars, jobVars, rconn, workerVars, crashes, dirty>>
      BY <1>10 DEF LookUpQueued
    <2>3. TypeOK'
      BY <2>1, <2>2
    <2>4. Rest'
      BY <2>1, <2>2
    <2> QED
      BY <2>3, <2>4
  <1>11. ASSUME NEW h \in Handlers, CommitCoalesced(h)
       PROVE  IInv'
    <2>1. TypeOK'
      BY <1>11, <1>0, BoundsAssumption DEF CommitCoalesced, EndRequest
    <2>2. Rest'
      BY <1>11, <1>0 DEF CommitCoalesced, EndRequest
    <2> QED
      BY <2>1, <2>2
  <1>12. ASSUME NEW h \in Handlers, LookUpManual(h)
       PROVE  IInv'
    <2> USE <1>12
    <2>1. UNCHANGED <<connectionVars, jobVars, workerVars, crashes, dirty>>
      BY DEF LookUpManual
    <2>2. CASE EndRequest(h)
      BY <2>1, <2>2 DEF EndRequest
    <2>3. CASE /\ rpc[h] = "manualLooking"
               /\ rpc' = [rpc EXCEPT ![h] = "manualInserting"]
               /\ UNCHANGED rconn
      BY <2>1, <2>3
    <2> QED
      BY <2>2, <2>3 DEF LookUpManual
  <1>13. ASSUME NEW w \in Workers, ScanConnections(w)
       PROVE  IInv'
    <2>1. TypeOK'
      BY <1>13, <1>0, BoundsAssumption DEF ScanConnections
    <2>2. Rest'
      BY <1>13, <1>0 DEF ScanConnections
    <2> QED
      BY <2>1, <2>2
  <1>14. ASSUME NEW w \in Workers, LockJob(w)
       PROVE  IInv'
    <2>1. TypeOK'
      BY <1>14, <1>0, BoundsAssumption DEF LockJob, Claimable
    <2>2. Rest'
      BY <1>14, <1>0 DEF LockJob, Claimable
    <2> QED
      BY <2>1, <2>2
  <1>15. ASSUME NEW w \in Workers, NothingToClaim(w)
       PROVE  IInv'
    <2>1. TypeOK'
      BY <1>15, <1>0, BoundsAssumption DEF NothingToClaim
    <2>2. Rest'
      BY <1>15, <1>0 DEF NothingToClaim
    <2> QED
      BY <2>1, <2>2
  <1>16. ASSUME NEW w \in Workers, CrashWorker(w)
       PROVE  IInv'
    <2>1. TypeOK'
      BY <1>16, <1>0, BoundsAssumption DEF CrashWorker
    <2>2. Rest'
      BY <1>16, <1>0 DEF CrashWorker
    <2> QED
      BY <2>1, <2>2
  <1>17. ASSUME NEW w \in Workers, NEW c \in Connections, CheckDue(w, c)
       PROVE  IInv'
    <2>1. todo' \in [Workers -> SUBSET Connections]
      BY <1>17 DEF CheckDue
    <2>2. staged' \in [Workers -> SUBSET Connections]
      BY <1>17 DEF CheckDue
    <2>3. TypeOK'
      BY <1>17, <2>1, <2>2 DEF CheckDue
    <2>4. Rest'
      BY <1>17 DEF CheckDue
    <2> QED
      BY <2>3, <2>4
  <1>18. ASSUME NEW w \in Workers, StartJob(w)
       PROVE  IInv'
    <2>1. wjob[w] \in Jobs /\ status[wjob[w]] = "queued"
      BY <1>18 DEF StartJob
    <2>2. connectionOf[wjob[w]] \in Connections
      BY <2>1
    <2>3. TypeOK'
      BY <1>18, <2>1, <2>2, BoundsAssumption DEF StartJob
    <2>4. SingleRunner'
      BY <1>18, <2>1 DEF StartJob
    <2>5. AttemptDiscipline'
      BY <1>18, <2>1, BoundsAssumption DEF StartJob
    <2>6. RowsInOrder'
      BY <1>18, <2>1 DEF StartJob
    <2>7. RequestsHaveConnections' /\ StagedWhileScanning'
      BY <1>18 DEF StartJob
    <2> QED
      BY <2>3, <2>4, <2>5, <2>6, <2>7
  <1>19. ASSUME NEW w \in Workers, SucceedJob(w)
       PROVE  IInv'
    <2>1. wjob[w] \in Jobs /\ status[wjob[w]] = "running"
      BY <1>19 DEF SucceedJob
    <2>2. connectionOf[wjob[w]] \in Connections
      BY <2>1
    <2>3. TypeOK'
      BY <1>19, <2>1, <2>2, BoundsAssumption DEF SucceedJob
    <2>4. SingleRunner'
      BY <1>19, <2>1 DEF SucceedJob
    <2>5. AttemptDiscipline'
      BY <1>19, <2>1, BoundsAssumption DEF SucceedJob
    <2>6. RowsInOrder'
      BY <1>19, <2>1 DEF SucceedJob
    <2>7. RequestsHaveConnections' /\ StagedWhileScanning'
      BY <1>19 DEF SucceedJob
    <2> QED
      BY <2>3, <2>4, <2>5, <2>6, <2>7
  <1>20. ASSUME NEW w \in Workers, RecordFailure(w)
       PROVE  IInv'
    <2>1. wjob[w] \in Jobs /\ status[wjob[w]] = "running"
      BY <1>20 DEF RecordFailure
    <2>2. connectionOf[wjob[w]] \in Connections
      BY <2>1
    <2>3. PICK outcome \in {"queued", "failed"} :
            /\ status' = [status EXCEPT ![wjob[w]] = outcome]
            /\ (outcome = "queued") => (attempts[wjob[w]] < MaxAttempts)
            /\ (outcome = "failed") => ~(attempts[wjob[w]] < MaxAttempts)
      BY <1>20 DEF RecordFailure, MayRetry
    <2>4. ready' \in [Jobs -> BOOLEAN]
      <3>1. ready \in [Jobs -> BOOLEAN]
        OBVIOUS
      <3> HIDE DEF IInv, TypeOK, Jobs
      <3>2. ready' = ready \/ ready' = [ready EXCEPT ![wjob[w]] = FALSE]
        BY <1>20 DEF RecordFailure
      <3> QED
        BY <3>1, <3>2
    <2>5. /\ due' = [due EXCEPT ![connectionOf[wjob[w]]] = FALSE]
          /\ wpc[w] = "execute"
          /\ wpc' = [wpc EXCEPT ![w] = "poll"]
          /\ wjob' = [wjob EXCEPT ![w] = NoJob]
          /\ UNCHANGED <<enabled, attempts, connectionOf, nextJob, requestVars,
                         todo, staged, crashes, dirty>>
      BY <1>20 DEF RecordFailure
    <2>6. TypeOK'
      BY <2>1, <2>2, <2>3, <2>4, <2>5
    <2>7. SingleRunner'
      BY <2>1, <2>3, <2>5
    <2>8. AttemptDiscipline'
      BY <2>1, <2>3, <2>5, BoundsAssumption
    <2>9. RowsInOrder'
      BY <2>1, <2>3, <2>5
    <2>10. RequestsHaveConnections' /\ StagedWhileScanning'
      BY <2>5
    <2> QED
      BY <2>6, <2>7, <2>8, <2>9, <2>10
  <1>21. ASSUME NEW h \in Handlers, CommitInserted(h)
       PROVE  IInv'
    <2>1. {rconn[h]} \in SUBSET Connections /\ InsertJobs({rconn[h]})
      BY <1>21 DEF CommitInserted, EndRequest
    <2>2. RowsFilledFor({rconn[h]})
      BY <2>1, InsertEffect
    <2>3. TypeOK'
      BY <1>21, <2>2 DEF CommitInserted, EndRequest, RowsFilledFor
    <2>4. SingleRunner' /\ AttemptDiscipline'
      BY <1>21, <2>2, BoundsAssumption DEF CommitInserted, EndRequest, RowsFilledFor
    <2>5. RowsInOrder'
      BY <2>1, <2>2 DEF RowsFilledFor
    <2>6. RequestsHaveConnections' /\ StagedWhileScanning'
      BY <1>21 DEF CommitInserted, EndRequest
    <2> QED
      BY <2>3, <2>4, <2>5, <2>6
  <1>22. ASSUME NEW h \in Handlers, CommitManual(h)
       PROVE  IInv'
    <2>1. {rconn[h]} \in SUBSET Connections /\ InsertJobs({rconn[h]})
      BY <1>22 DEF CommitManual, EndRequest
    <2>2. RowsFilledFor({rconn[h]})
      BY <2>1, InsertEffect
    <2>3. TypeOK'
      BY <1>22, <2>2 DEF CommitManual, EndRequest, RowsFilledFor
    <2>4. SingleRunner' /\ AttemptDiscipline'
      BY <1>22, <2>2, BoundsAssumption DEF CommitManual, EndRequest, RowsFilledFor
    <2>5. RowsInOrder'
      BY <2>1, <2>2 DEF RowsFilledFor
    <2>6. RequestsHaveConnections' /\ StagedWhileScanning'
      BY <1>22 DEF CommitManual, EndRequest
    <2> QED
      BY <2>3, <2>4, <2>5, <2>6
  <1>23. ASSUME NEW w \in Workers, CommitDue(w)
       PROVE  IInv'
    <2>1. staged[w] \in SUBSET Connections /\ InsertJobs(staged[w])
      BY <1>23 DEF CommitDue
    <2>2. RowsFilledFor(staged[w])
      BY <2>1, InsertEffect
    <2>3. TypeOK'
      BY <1>23, <2>2 DEF CommitDue, RowsFilledFor
    <2>4. SingleRunner' /\ AttemptDiscipline'
      BY <1>23, <2>2, BoundsAssumption DEF CommitDue, RowsFilledFor
    <2>5. RowsInOrder'
      BY <2>1, <2>2 DEF RowsFilledFor
    <2>6. RequestsHaveConnections' /\ StagedWhileScanning'
      BY <1>23 DEF CommitDue
    <2> QED
      BY <2>3, <2>4, <2>5, <2>6
  <1> QED
    BY <1>1, <1>2, <1>3, <1>4, <1>5, <1>6, <1>7, <1>8, <1>9, <1>10, <1>11, <1>12, <1>13, <1>14,
       <1>15, <1>16, <1>17, <1>18, <1>19, <1>20, <1>21, <1>22, <1>23
    DEF Next, RequestStep, WorkerStep

-----------------------------------------------------------------------------
(* Theorems *)

\* The strengthened invariant holds of every reachable state.
THEOREM Invariance == Spec => []IInv
  BY InitEstablishesIInv, NextPreservesIInv, PTL DEF Spec

\* Type correctness.
THEOREM TypeCorrectness == Spec => []TypeOK
  <1>1. IInv => TypeOK
    BY DEF IInv
  <1> QED
    BY <1>1, Invariance, PTL

\* No job row is ever locked or executed by two workers.
THEOREM OneRunnerPerJob == Spec => []SingleRunner
  <1>1. IInv => SingleRunner
    BY DEF IInv
  <1> QED
    BY <1>1, Invariance, PTL

\* A job is started at most max_attempts times and fails only after the last.
THEOREM BoundedAttempts == Spec => []AttemptDiscipline
  <1>1. IInv => AttemptDiscipline
    BY DEF IInv
  <1> QED
    BY <1>1, Invariance, PTL

-----------------------------------------------------------------------------
\* The steps that touch a row: one insert, one claim, one settlement.
LEMMA RowSteps ==
    ASSUME IInv, [Next]_vars
    PROVE  \/ UNCHANGED <<status, attempts>>
           \/ \E cs \in SUBSET Connections : InsertJobs(cs)
           \/ \E w \in Workers : StartJob(w) \/ SucceedJob(w) \/ RecordFailure(w)
  <1> USE DEF vars, jobVars
  <1>1. ASSUME NEW h \in Handlers, RequestStep(h)
        PROVE  \/ UNCHANGED <<status, attempts>>
               \/ \E cs \in SUBSET Connections : InsertJobs(cs)
    <2>1. CASE CommitInserted(h) \/ CommitManual(h)
      <3>1. InsertJobs({rconn[h]}) /\ rpc[h] # "idle"
        BY <2>1 DEF CommitInserted, CommitManual
      <3>2. rconn[h] \in Connections
        BY <3>1 DEF IInv, TypeOK, RequestsHaveConnections
      <3> QED
        BY <3>1, <3>2
    <2> QED
      BY <1>1, <2>1 DEF RequestStep, BeginEvent, BeginManual, LookUpQueued,
           CommitCoalesced, LookUpManual, AbandonRequest
  <1>2. ASSUME NEW w \in Workers, CommitDue(w)
        PROVE  \E cs \in SUBSET Connections : InsertJobs(cs)
    BY <1>2 DEF CommitDue, IInv, TypeOK
  <1> QED
    BY <1>1, <1>2 DEF Next, WorkerStep, ScanConnections, CheckDue, LockJob,
         NothingToClaim, CheckpointRun, CrashWorker, RestartWorker,
         Configure, IntervalElapses, BackoffElapses

\* A settled job is never claimed, retried or settled again.
THEOREM SettledForever == Spec => TerminalIsFinal
  <1> DEFINE Final == \A j \in Jobs : status[j] \in Terminal =>
                         /\ status'[j] = status[j]
                         /\ attempts'[j] = attempts[j]
  <1>1. ASSUME IInv, [Next]_vars
        PROVE  Final
    <2> SUFFICES ASSUME NEW j \in Jobs, status[j] \in Terminal
                 PROVE  status'[j] = status[j] /\ attempts'[j] = attempts[j]
      OBVIOUS
    <2>1. status[j] \notin {"absent", "queued", "running"}
      BY DEF Terminal
    <2>2. CASE UNCHANGED <<status, attempts>>
      BY <2>2
    <2>3. ASSUME NEW cs \in SUBSET Connections, InsertJobs(cs)
          PROVE  status'[j] = status[j] /\ attempts'[j] = attempts[j]
      BY <1>1, <2>1, <2>3, InsertEffect DEF IInv, RowsFilledFor
    <2>4. ASSUME NEW w \in Workers, StartJob(w) \/ SucceedJob(w) \/ RecordFailure(w)
          PROVE  status'[j] = status[j] /\ attempts'[j] = attempts[j]
      <3>1. wpc[w] \in {"locked", "execute"}
        BY <2>4 DEF StartJob, SucceedJob, RecordFailure
      <3>2. wjob[w] # j
        BY <1>1, <2>1, <3>1 DEF IInv, SingleRunner
      <3> QED
        BY <1>1, <2>4, <3>2 DEF StartJob, SucceedJob, RecordFailure, IInv, TypeOK
    <2> QED
      BY <1>1, <2>2, <2>3, <2>4, RowSteps
  <1>2. IInv /\ [Next]_vars => [Final]_vars
    BY <1>1
  <1> HIDE DEF Final
  <1>3. Spec => [][Final]_vars
    BY <1>2, Invariance, PTL DEF Spec
  <1> QED
    BY <1>3 DEF TerminalIsFinal, Final

-----------------------------------------------------------------------------
\* The lease: a step that does not concern an executing worker leaves the
\* runners of every job alone.
LEMMA RunnersUnchanged ==
    ASSUME \A w \in Workers :
             \/ wpc'[w] = wpc[w] /\ wjob'[w] = wjob[w]
             \/ wpc[w] # "execute" /\ wpc'[w] # "execute"
    PROVE  Runners' = Runners
  BY DEF Runners

\* The runner set of a job, looked up.
LEMMA RunnersOfJobs ==
    ASSUME IInv, NEW w \in Workers, wpc[w] = "execute"
    PROVE  wjob[w] \in Jobs /\ Runners[wjob[w]] = {w}
  BY DEF IInv, TypeOK, SingleRunner, Runners

\* The worker w leaves its job: nobody is at it any more.
LEMMA RunnerLeaves ==
    ASSUME IInv, NEW w \in Workers, wpc[w] = "execute", NEW pc, pc # "execute",
           wpc' = [wpc EXCEPT ![w] = pc], wjob' = [wjob EXCEPT ![w] = NoJob]
    PROVE  Runners' = [Runners EXCEPT ![wjob[w]] = {}]
  <1>1. \A v \in Workers, j \in Jobs :
          (wpc'[v] = "execute" /\ wjob'[v] = j)
            <=> (v # w /\ wpc[v] = "execute" /\ wjob[v] = j)
    BY DEF IInv, TypeOK
  <1>2. \A v \in Workers : (v # w) => (wjob[v] # wjob[w])
    BY DEF IInv, SingleRunner
  <1>3. \A j \in Jobs :
          Runners'[j] = IF j = wjob[w] THEN {} ELSE Runners[j]
    BY <1>1, <1>2 DEF Runners
  <1> QED
    BY <1>3 DEF Runners

\* The empty queue is an empty lease table.
LEMMA LeaseInitially == Init => Lease!LeaseInit
  BY DEF Init, Lease!LeaseInit, Runners

\* A committed claim is a Start of the lease.
LEMMA StartIsStart ==
    ASSUME IInv, NEW w \in Workers, StartJob(w)
    PROVE  Lease!Start(wjob[w], w)
  <1>1. wjob[w] \in Jobs /\ status[wjob[w]] = "queued" /\ wpc[w] = "locked"
    BY DEF IInv, TypeOK, SingleRunner, StartJob
  <1>2. attempts[wjob[w]] < MaxAttempts
    BY <1>1 DEF IInv, AttemptDiscipline
  <1>3. \A i \in Jobs : w \notin Runners[i]
    BY <1>1 DEF Runners
  <1>4. \A v \in Workers : (wjob[v] = wjob[w]) => (v = w)
    BY <1>1 DEF IInv, SingleRunner, NoJob, Jobs
  <1>5. Runners[wjob[w]] = {}
    BY <1>1, <1>4 DEF Runners
  <1>6. Runners' = [Runners EXCEPT ![wjob[w]] = {w}]
    <2>1. wpc' = [wpc EXCEPT ![w] = "execute"] /\ wjob' = wjob
      BY DEF StartJob
    <2>2. wpc \in [Workers -> WorkerStates]
      BY DEF IInv, TypeOK
    <2> QED
      BY <1>1, <1>4, <2>1, <2>2 DEF Runners
  <1> QED
    BY <1>1, <1>2, <1>3, <1>5, <1>6 DEF StartJob, Lease!Start

\* A success, a retry and a last failure are a Settle of the lease.
LEMMA SettleIsSettle ==
    ASSUME IInv, NEW w \in Workers, SucceedJob(w) \/ RecordFailure(w)
    PROVE  Lease!Settle(wjob[w], w)
  <1>1. /\ wpc[w] = "execute"
        /\ wpc' = [wpc EXCEPT ![w] = "poll"]
        /\ wjob' = [wjob EXCEPT ![w] = NoJob]
        /\ UNCHANGED attempts
    BY DEF SucceedJob, RecordFailure
  <1>2. status[wjob[w]] = "running"
    BY <1>1 DEF IInv, SingleRunner
  <1>3. Runners[wjob[w]] = {w} /\ Runners' = [Runners EXCEPT ![wjob[w]] = {}]
    BY <1>1, RunnersOfJobs, RunnerLeaves
  <1>4. \E outcome \in {"succeeded",
                       IF attempts[wjob[w]] < MaxAttempts THEN "queued" ELSE "failed"} :
          status' = [status EXCEPT ![wjob[w]] = outcome]
    BY DEF SucceedJob, RecordFailure, MayRetry
  <1> QED
    BY <1>1, <1>2, <1>3, <1>4 DEF Lease!Settle

\* A crash loses the job that was executed, and no other.
LEMMA CrashIsLoseOrStutter ==
    ASSUME IInv, NEW w \in Workers, CrashWorker(w)
    PROVE  \/ Lease!Lose(wjob[w], w) /\ wjob[w] \in Jobs
           \/ UNCHANGED <<status, attempts, Runners>>
  <1>1. /\ wpc' = [wpc EXCEPT ![w] = "down"]
        /\ wjob' = [wjob EXCEPT ![w] = NoJob]
        /\ UNCHANGED <<status, attempts>>
    BY DEF CrashWorker, jobVars
  <1>2. CASE wpc[w] = "execute"
    <2>1. status[wjob[w]] = "running"
      BY <1>2 DEF IInv, SingleRunner
    <2>2. /\ wjob[w] \in Jobs
          /\ Runners[wjob[w]] = {w}
          /\ Runners' = [Runners EXCEPT ![wjob[w]] = {}]
      BY <1>1, <1>2, RunnersOfJobs, RunnerLeaves
    <2> QED
      BY <1>1, <2>1, <2>2 DEF Lease!Lose
  <1>3. CASE wpc[w] # "execute"
    <2>1. \A v \in Workers :
            \/ wpc'[v] = wpc[v] /\ wjob'[v] = wjob[v]
            \/ wpc[v] # "execute" /\ wpc'[v] # "execute"
      BY <1>1, <1>3 DEF IInv, TypeOK
    <2> QED
      BY <1>1, <2>1, RunnersUnchanged
  <1> QED
    BY <1>2, <1>3

\* Any other step inserts rows, or leaves the lease as it is.
LEMMA OtherSteps ==
    ASSUME IInv, [Next]_vars,
           \A w \in Workers : ~(\/ StartJob(w) \/ SucceedJob(w)
                               \/ RecordFailure(w) \/ CrashWorker(w))
    PROVE  /\ Runners' = Runners
           /\ \/ UNCHANGED <<status, attempts>>
              \/ \E cs \in SUBSET Connections : InsertJobs(cs)
  <1>1. \A w \in Workers :
          \/ wpc'[w] = wpc[w] /\ wjob'[w] = wjob[w]
          \/ wpc[w] # "execute" /\ wpc'[w] # "execute"
    <2> USE DEF vars, workerVars, IInv, TypeOK
    <2>1. ASSUME NEW v \in Workers, WorkerStep(v) \/ RestartWorker(v)
          PROVE  \A w \in Workers :
                   \/ wpc'[w] = wpc[w] /\ wjob'[w] = wjob[w]
                   \/ wpc[w] # "execute" /\ wpc'[w] # "execute"
      BY <2>1 DEF WorkerStep, ScanConnections, CheckDue, CommitDue, LockJob,
           NothingToClaim, RestartWorker
    <2>2. ASSUME ~(\E v \in Workers : WorkerStep(v) \/ RestartWorker(v))
          PROVE  UNCHANGED <<wpc, wjob>>
      BY <2>2 DEF Next, RequestStep, CheckpointRun, Configure, IntervalElapses,
           BackoffElapses, BeginEvent, BeginManual, LookUpQueued, CommitCoalesced,
           CommitInserted, LookUpManual, CommitManual, AbandonRequest
    <2> QED
      BY <2>1, <2>2
  <1> QED
    BY <1>1, RunnersUnchanged, RowSteps

\* The queue implements the lease: every job has one runner at a time, is
\* started at most max_attempts times, and only its runner settles it.
THEOREM QueueImplementsLease == Spec => ImplementsLease
  <1>1. ASSUME IInv, [Next]_vars
        PROVE  [Lease!LeaseNext]_(Lease!leaseVars)
    <2>1. ASSUME NEW w \in Workers,
                 StartJob(w) \/ SucceedJob(w) \/ RecordFailure(w) \/ CrashWorker(w)
          PROVE  [Lease!LeaseNext]_(Lease!leaseVars)
      <3>1. CASE StartJob(w)
        <4>1. wjob[w] \in Jobs
          BY <1>1, <3>1 DEF IInv, TypeOK, SingleRunner, StartJob
        <4> QED
          BY <1>1, <3>1, <4>1, StartIsStart DEF Lease!LeaseNext
      <3>2. CASE SucceedJob(w) \/ RecordFailure(w)
        <4>1. wjob[w] \in Jobs
          BY <1>1, <3>2, RunnersOfJobs DEF SucceedJob, RecordFailure
        <4> QED
          BY <1>1, <3>2, <4>1, SettleIsSettle DEF Lease!LeaseNext
      <3>3. CASE CrashWorker(w)
        BY <1>1, <3>3, CrashIsLoseOrStutter DEF Lease!LeaseNext, Lease!leaseVars
      <3> QED
        BY <2>1, <3>1, <3>2, <3>3
    <2>2. CASE \A w \in Workers : ~(\/ StartJob(w) \/ SucceedJob(w)
                                   \/ RecordFailure(w) \/ CrashWorker(w))
      <3>1. ASSUME NEW cs \in SUBSET Connections, InsertJobs(cs), Runners' = Runners
            PROVE  [Lease!LeaseNext]_(Lease!leaseVars)
        <4> DEFINE new == {j \in Jobs : status[j] = "absent" /\ j < nextJob'}
        <4>1. RowsFilledFor(cs)
          BY <1>1, <3>1, InsertEffect DEF IInv
        <4>2. status' = [j \in Jobs |-> IF j \in new THEN "queued" ELSE status[j]]
          BY <4>1 DEF RowsFilledFor
        <4>3. Lease!Enqueue(new)
          BY <3>1, <4>1, <4>2 DEF Lease!Enqueue, RowsFilledFor
        <4> QED
          BY <4>3 DEF Lease!LeaseNext
      <3> QED
        BY <1>1, <2>2, <3>1, OtherSteps DEF Lease!leaseVars
    <2> QED
      BY <2>1, <2>2
  <1> QED
    BY <1>1, LeaseInitially, Invariance, PTL DEF Spec, ImplementsLease, Lease!LeaseSpec

-----------------------------------------------------------------------------
(* The bound on the work open for one connection, for every number of       *)
(* workers and requests.  Work is opened for a connection only by an actor  *)
(* that saw none queued: at that moment what is open is at most one item    *)
(* per actor.  While a job is queued work only moves: a staged insert       *)
(* becomes a queued job, a queued job an executed one, an executed job a    *)
(* retried one.                                                             *)

Limit == Cardinality(Workers) + Cardinality(Handlers)

-----------------------------------------------------------------------------
(* Cardinalities *)

\* A set that gains at most one element has at most one element more.
LEMMA GrowsByOne ==
    ASSUME NEW T, IsFiniteSet(T), NEW x, NEW S \in SUBSET (T \union {x})
    PROVE  /\ IsFiniteSet(S)
           /\ Cardinality(S) \in Nat /\ Cardinality(T) \in Nat
           /\ Cardinality(S) <= Cardinality(T) + 1
  <1>1. /\ IsFiniteSet(T \union {x})
        /\ Cardinality(T \union {x}) <= Cardinality(T) + 1
        /\ Cardinality(T) \in Nat
    BY FS_AddElement, FS_CardinalityType
  <1>2. /\ IsFiniteSet(S)
        /\ Cardinality(S) <= Cardinality(T \union {x})
    BY <1>1, FS_Subset
  <1>3. Cardinality(S) \in Nat /\ Cardinality(T \union {x}) \in Nat
    BY <1>1, <1>2, FS_CardinalityType
  <1> QED
    BY <1>1, <1>2, <1>3

\* A set that loses an element has one element less at least.
LEMMA ShrinksByOne ==
    ASSUME NEW T, IsFiniteSet(T), NEW x \in T, NEW S \in SUBSET (T \ {x})
    PROVE  /\ IsFiniteSet(S)
           /\ Cardinality(S) \in Nat /\ Cardinality(T) \in Nat
           /\ Cardinality(S) + 1 <= Cardinality(T)
  <1>1. /\ IsFiniteSet(T \ {x})
        /\ Cardinality(T \ {x}) = Cardinality(T) - 1
        /\ Cardinality(T) \in Nat
    BY FS_RemoveElement, FS_CardinalityType
  <1>2. /\ IsFiniteSet(S)
        /\ Cardinality(S) <= Cardinality(T \ {x})
    BY <1>1, FS_Subset
  <1>3. Cardinality(S) \in Nat
    BY <1>2, FS_CardinalityType
  <1> QED
    BY <1>1, <1>2, <1>3

\* The four kinds of open work are finite sets.
LEMMA WorkIsFinite ==
    ASSUME NEW c \in Connections
    PROVE  /\ IsFiniteSet(QueuedFor(c)) /\ Cardinality(QueuedFor(c)) \in Nat
           /\ IsFiniteSet(Executing(c)) /\ Cardinality(Executing(c)) \in Nat
           /\ IsFiniteSet(Inserting(c)) /\ Cardinality(Inserting(c)) \in Nat
           /\ IsFiniteSet(Scheduling(c)) /\ Cardinality(Scheduling(c)) \in Nat
  <1>1. IsFiniteSet(Jobs)
    BY FS_Interval, BoundsAssumption DEF Jobs
  <1>2. /\ QueuedFor(c) \subseteq Jobs /\ Executing(c) \subseteq Workers
        /\ Inserting(c) \subseteq Handlers /\ Scheduling(c) \subseteq Workers
    BY DEF QueuedFor, Executing, Inserting, Scheduling
  <1> QED
    BY <1>1, <1>2, FS_Subset, FS_CardinalityType, ActorsAssumption

\* The backlog with its four sets named.
LEMMA BacklogIsSum ==
    ASSUME NEW c \in Connections
    PROVE  Backlog(c) = Cardinality(QueuedFor(c)) + Cardinality(Executing(c))
                        + Cardinality(Inserting(c)) + Cardinality(Scheduling(c))
  BY DEF Backlog, QueuedFor

\* A backlog is a number, as its parts are finite.
LEMMA BacklogIsNatural == \A c \in Connections : Backlog(c) \in Nat
  BY WorkIsFinite, BacklogIsSum

\* An actor is at one item of a connection's work: with nothing queued the
\* limit holds whatever the actors do.
LEMMA NothingQueued ==
    \A c \in Connections : IInv /\ QueuedFor(c) = {} => Backlog(c) <= Limit
  <1> SUFFICES ASSUME IInv, NEW c \in Connections, QueuedFor(c) = {}
               PROVE  Backlog(c) <= Limit
    OBVIOUS
  <1>1. Executing(c) \intersect Scheduling(c) = {}
    BY DEF IInv, StagedWhileScanning, Executing, Scheduling
  <1>2. /\ IsFiniteSet(Executing(c)) /\ IsFiniteSet(Scheduling(c))
        /\ Cardinality(Executing(c)) \in Nat /\ Cardinality(Scheduling(c)) \in Nat
        /\ Cardinality(Inserting(c)) \in Nat
    BY WorkIsFinite
  <1>3. Cardinality(Executing(c) \union Scheduling(c))
          = Cardinality(Executing(c)) + Cardinality(Scheduling(c))
    BY <1>1, <1>2, FS_Union, FS_EmptySet
  <1>4. Executing(c) \union Scheduling(c) \subseteq Workers
    BY DEF Executing, Scheduling
  <1>5. Cardinality(Executing(c) \union Scheduling(c)) <= Cardinality(Workers)
    BY <1>4, FS_Subset, ActorsAssumption
  <1>6. Cardinality(Inserting(c)) <= Cardinality(Handlers)
    BY FS_Subset, ActorsAssumption DEF Inserting
  <1>7. Cardinality(Workers) \in Nat /\ Cardinality(Handlers) \in Nat
    BY FS_CardinalityType, ActorsAssumption
  <1>8. Cardinality(QueuedFor(c)) = 0
    BY FS_EmptySet
  <1> QED
    BY <1>2, <1>3, <1>5, <1>6, <1>7, <1>8, BacklogIsSum DEF Limit

\* The same two facts of the state after a step.
LEMMA NothingQueuedNext ==
    (\A c \in Connections : IInv /\ QueuedFor(c) = {} => Backlog(c) <= Limit)'
  BY NothingQueued, PTL

\* And so it is after a step.
LEMMA BacklogIsNaturalNext == (\A c \in Connections : Backlog(c) \in Nat)'
  BY BacklogIsNatural, PTL

-----------------------------------------------------------------------------
(* Steps *)

NoNewInserting(c)  == Inserting(c)' \subseteq Inserting(c)
NoNewScheduling(c) == Scheduling(c)' \subseteq Scheduling(c)
NoNewExecuting(c)  == Executing(c)' \subseteq Executing(c)

\* Work only moves, or is dropped.
Stays(c) ==
    /\ QueuedFor(c)' \subseteq QueuedFor(c)
    /\ NoNewExecuting(c) /\ NoNewInserting(c) /\ NoNewScheduling(c)

InsertToQueue(c) ==
    \E j, h :
        /\ QueuedFor(c)' \subseteq QueuedFor(c) \union {j}
        /\ h \in Inserting(c) /\ Inserting(c)' \subseteq Inserting(c) \ {h}
        /\ NoNewExecuting(c) /\ NoNewScheduling(c)

ScheduleToQueue(c) ==
    \E j, w :
        /\ QueuedFor(c)' \subseteq QueuedFor(c) \union {j}
        /\ w \in Scheduling(c) /\ Scheduling(c)' \subseteq Scheduling(c) \ {w}
        /\ NoNewExecuting(c) /\ NoNewInserting(c)

RunToQueue(c) ==
    \E j, w :
        /\ QueuedFor(c)' \subseteq QueuedFor(c) \union {j}
        /\ w \in Executing(c) /\ Executing(c)' \subseteq Executing(c) \ {w}
        /\ NoNewInserting(c) /\ NoNewScheduling(c)

QueueToRun(c) ==
    \E j, w :
        /\ j \in QueuedFor(c) /\ QueuedFor(c)' \subseteq QueuedFor(c) \ {j}
        /\ Executing(c)' \subseteq Executing(c) \union {w}
        /\ NoNewInserting(c) /\ NoNewScheduling(c)

Opens(c) == QueuedFor(c) = {} /\ QueuedFor(c)' = {}

\* Moving work does not add to it.
LEMMA MovesKeepBacklog ==
    ASSUME NEW c \in Connections,
           \/ Stays(c) \/ InsertToQueue(c) \/ ScheduleToQueue(c)
           \/ RunToQueue(c) \/ QueueToRun(c)
    PROVE  Backlog(c)' <= Backlog(c)
  <1> DEFINE Q == QueuedFor(c)
             E == Executing(c)
             I == Inserting(c)
             S == Scheduling(c)
  <1>1. /\ IsFiniteSet(Q) /\ IsFiniteSet(E) /\ IsFiniteSet(I) /\ IsFiniteSet(S)
        /\ Cardinality(Q) \in Nat /\ Cardinality(E) \in Nat
        /\ Cardinality(I) \in Nat /\ Cardinality(S) \in Nat
    BY WorkIsFinite
  <1>2. /\ Cardinality(Q') \in Nat /\ Cardinality(E') \in Nat
        /\ Cardinality(I') \in Nat /\ Cardinality(S') \in Nat
    <2>1. /\ IsFiniteSet(Q') /\ IsFiniteSet(E') /\ IsFiniteSet(I') /\ IsFiniteSet(S')
      <3>1. IsFiniteSet(Jobs)
        BY FS_Interval, BoundsAssumption DEF Jobs
      <3>2. Q' \subseteq Jobs /\ E' \subseteq Workers
            /\ I' \subseteq Handlers /\ S' \subseteq Workers
        BY DEF QueuedFor, Executing, Inserting, Scheduling
      <3> QED
        BY <3>1, <3>2, FS_Subset, ActorsAssumption
    <2> QED
      BY <2>1, FS_CardinalityType
  <1>3. (E' \subseteq E) => Cardinality(E') <= Cardinality(E)
    BY <1>1, FS_Subset
  <1>4. (I' \subseteq I) => Cardinality(I') <= Cardinality(I)
    BY <1>1, FS_Subset
  <1>5. (S' \subseteq S) => Cardinality(S') <= Cardinality(S)
    BY <1>1, FS_Subset
  <1>6. (Q' \subseteq Q) => Cardinality(Q') <= Cardinality(Q)
    BY <1>1, FS_Subset
  <1>7. \A x : (Q' \subseteq Q \union {x}) => Cardinality(Q') <= Cardinality(Q) + 1
    BY <1>1, GrowsByOne
  <1>8. \A x : (E' \subseteq E \union {x}) => Cardinality(E') <= Cardinality(E) + 1
    BY <1>1, GrowsByOne
  <1>9. \A x \in Q : (Q' \subseteq Q \ {x}) => Cardinality(Q') + 1 <= Cardinality(Q)
    BY <1>1, ShrinksByOne
  <1>10. \A x \in E : (E' \subseteq E \ {x}) => Cardinality(E') + 1 <= Cardinality(E)
    BY <1>1, ShrinksByOne
  <1>11. \A x \in I : (I' \subseteq I \ {x}) => Cardinality(I') + 1 <= Cardinality(I)
    BY <1>1, ShrinksByOne
  <1>12. \A x \in S : (S' \subseteq S \ {x}) => Cardinality(S') + 1 <= Cardinality(S)
    BY <1>1, ShrinksByOne
  <1>13. /\ Backlog(c) = Cardinality(Q) + Cardinality(E) + Cardinality(I) + Cardinality(S)
         /\ Backlog(c)' = Cardinality(Q') + Cardinality(E')
                          + Cardinality(I') + Cardinality(S')
    BY DEF Backlog, QueuedFor
  <1> HIDE DEF Q, E, I, S
  <1>14. \/ Cardinality(Q') <= Cardinality(Q) /\ Cardinality(E') <= Cardinality(E)
            /\ Cardinality(I') <= Cardinality(I) /\ Cardinality(S') <= Cardinality(S)
         \/ Cardinality(Q') <= Cardinality(Q) + 1 /\ Cardinality(E') <= Cardinality(E)
            /\ Cardinality(I') + 1 <= Cardinality(I) /\ Cardinality(S') <= Cardinality(S)
         \/ Cardinality(Q') <= Cardinality(Q) + 1 /\ Cardinality(E') <= Cardinality(E)
            /\ Cardinality(I') <= Cardinality(I) /\ Cardinality(S') + 1 <= Cardinality(S)
         \/ Cardinality(Q') <= Cardinality(Q) + 1 /\ Cardinality(E') + 1 <= Cardinality(E)
            /\ Cardinality(I') <= Cardinality(I) /\ Cardinality(S') <= Cardinality(S)
         \/ Cardinality(Q') + 1 <= Cardinality(Q) /\ Cardinality(E') <= Cardinality(E) + 1
            /\ Cardinality(I') <= Cardinality(I) /\ Cardinality(S') <= Cardinality(S)
    BY <1>3, <1>4, <1>5, <1>6, <1>7, <1>8, <1>9, <1>10, <1>11, <1>12
    DEF Stays, InsertToQueue, ScheduleToQueue, RunToQueue, QueueToRun,
        NoNewExecuting, NoNewInserting, NoNewScheduling, Q, E, I, S
  <1> QED
    BY <1>1, <1>2, <1>13, <1>14

\* An insert queues at most one job for each connection it is given.
LEMMA InsertedForOne ==
    ASSUME IInv, NEW cs \in SUBSET Connections, InsertJobs(cs), NEW c \in Connections
    PROVE  /\ (c \notin cs) => (QueuedFor(c)' \subseteq QueuedFor(c))
           /\ \E j : QueuedFor(c)' \subseteq QueuedFor(c) \union {j}
  <1> DEFINE new == nextJob .. (nextJob + Cardinality(cs) - 1)
  <1>1. PICK f \in Bijection(new, cs) :
          connectionOf' = [j \in Jobs |-> IF j \in new THEN f[j] ELSE connectionOf[j]]
    BY DEF InsertJobs
  <1>2. f \in [new -> cs] /\ \A i, j \in new : (f[i] = f[j]) => (i = j)
    BY <1>1 DEF Bijection, Injection, Surjection, IsInjective
  <1>3. status' = [j \in Jobs |-> IF j \in new THEN "queued" ELSE status[j]]
    BY DEF InsertJobs
  <1> HIDE DEF new
  <1>4. \A j \in QueuedFor(c)' : j \in QueuedFor(c) \/ (j \in new /\ f[j] = c)
    BY <1>1, <1>3 DEF QueuedFor
  <1>5. CASE \E j \in new : f[j] = c
    <2>1. PICK j \in new : f[j] = c
      BY <1>5
    <2>2. c \in cs
      BY <1>2, <2>1
    <2>3. QueuedFor(c)' \subseteq QueuedFor(c) \union {j}
      BY <1>2, <1>4, <2>1
    <2> QED
      BY <2>2, <2>3
  <1>6. CASE ~(\E j \in new : f[j] = c)
    <2>1. QueuedFor(c)' \subseteq QueuedFor(c)
      BY <1>4, <1>6
    <2> QED
      BY <2>1
  <1> QED
    BY <1>5, <1>6

Moves(c) ==
    \/ Stays(c) \/ InsertToQueue(c) \/ ScheduleToQueue(c)
    \/ RunToQueue(c) \/ QueueToRun(c)

\* A request opens work only when it sees nothing queued.
LEMMA RequestMoves ==
    ASSUME IInv, NEW h \in Handlers, RequestStep(h), NEW c \in Connections
    PROVE  Moves(c) \/ Opens(c)
  <1> USE DEF Moves, Stays, NoNewExecuting, NoNewInserting, NoNewScheduling
  <1>0. rpc \in [Handlers -> RequestStates]
        /\ rconn \in [Handlers -> Connections \union {NoConnection}]
    BY DEF IInv, TypeOK
  <1>1. CASE CommitInserted(h) \/ CommitManual(h)
    <2>1. /\ rpc[h] \in {"inserting", "manualInserting"}
          /\ InsertJobs({rconn[h]})
          /\ rpc' = [rpc EXCEPT ![h] = "idle"]
          /\ rconn' = [rconn EXCEPT ![h] = NoConnection]
          /\ UNCHANGED workerVars
      BY <1>1 DEF CommitInserted, CommitManual, EndRequest
    <2>2. rconn[h] \in Connections
      BY <2>1 DEF IInv, TypeOK, RequestsHaveConnections
    <2>3. Inserting(c)' \subseteq Inserting(c) \ {h}
      BY <1>0, <2>1 DEF Inserting
    <2>4. Scheduling(c)' = Scheduling(c)
      BY <2>1 DEF Scheduling, workerVars
    <2>5. Executing(c)' \subseteq Executing(c)
      <3>1. \A w \in Workers : wpc[w] = "execute" =>
              wjob[w] \in Jobs /\ status[wjob[w]] = "running"
        BY DEF IInv, TypeOK, SingleRunner
      <3>2. RowsFilledFor({rconn[h]})
        BY <2>1, <2>2, InsertEffect DEF IInv
      <3> QED
        BY <2>1, <3>1, <3>2 DEF Executing, workerVars, RowsFilledFor
    <2>6. CASE c = rconn[h]
      <3>1. h \in Inserting(c)
        BY <2>1, <2>6 DEF Inserting
      <3> QED
        BY <2>1, <2>2, <2>3, <2>4, <2>5, <3>1, InsertedForOne DEF InsertToQueue
    <2>7. CASE c # rconn[h]
      BY <2>1, <2>2, <2>3, <2>4, <2>5, <2>7, InsertedForOne
    <2> QED
      BY <2>6, <2>7
  <1>2. CASE LookUpQueued(h) \/ LookUpManual(h)
    <2>1. UNCHANGED <<jobVars, workerVars>>
      BY <1>2 DEF LookUpQueued, LookUpManual
    <2>2. /\ QueuedFor(c)' = QueuedFor(c) /\ Executing(c)' = Executing(c)
          /\ Scheduling(c)' = Scheduling(c)
      BY <2>1 DEF QueuedFor, Executing, Scheduling, jobVars, workerVars
    <2>3. CASE QueuedFor(rconn[h]) = {} /\ c = rconn[h]
      BY <2>2, <2>3 DEF Opens
    <2>4. CASE QueuedFor(rconn[h]) = {} /\ c # rconn[h]
      BY <1>0, <1>2, <2>2, <2>4 DEF LookUpQueued, LookUpManual, EndRequest, Inserting
    <2>5. CASE QueuedFor(rconn[h]) # {}
      BY <1>0, <1>2, <2>2, <2>5 DEF LookUpQueued, LookUpManual, EndRequest, Inserting
    <2> QED
      BY <2>3, <2>4, <2>5
  <1>3. CASE CommitCoalesced(h) \/ AbandonRequest(h)
             \/ \E d \in Connections : BeginEvent(h, d) \/ BeginManual(h, d)
    <2>1. UNCHANGED <<jobVars, workerVars>>
      BY <1>3 DEF CommitCoalesced, AbandonRequest, BeginEvent, BeginManual
    <2>2. /\ QueuedFor(c)' = QueuedFor(c) /\ Executing(c)' = Executing(c)
          /\ Scheduling(c)' = Scheduling(c)
      BY <2>1 DEF QueuedFor, Executing, Scheduling, jobVars, workerVars
    <2>3. Inserting(c)' \subseteq Inserting(c)
      BY <1>0, <1>3 DEF CommitCoalesced, AbandonRequest, BeginEvent, BeginManual,
                        EndRequest, Inserting
    <2> QED
      BY <2>2, <2>3
  <1> QED
    BY <1>1, <1>2, <1>3 DEF RequestStep

\* A worker opens work only when it sees the connection unoccupied.
LEMMA WorkerMoves ==
    ASSUME IInv, NEW w \in Workers,
           WorkerStep(w) \/ CheckpointRun(w) \/ CrashWorker(w) \/ RestartWorker(w),
           NEW c \in Connections
    PROVE  Moves(c) \/ Opens(c)
  <1> USE DEF Moves, Stays, NoNewExecuting, NoNewInserting, NoNewScheduling
  <1>0. /\ wpc \in [Workers -> WorkerStates]
        /\ staged \in [Workers -> SUBSET Connections]
        /\ wjob \in [Workers -> Jobs \union {NoJob}]
        /\ status \in [Jobs -> Statuses]
    BY DEF IInv, TypeOK
  <1>1. Inserting(c)' = Inserting(c)
    BY DEF Inserting, requestVars, WorkerStep, ScanConnections, CheckDue, CommitDue,
           LockJob, NothingToClaim, StartJob, SucceedJob, RecordFailure,
           CheckpointRun, CrashWorker, RestartWorker
  <1>2. CASE CommitDue(w)
    <2>1. /\ wpc[w] = "scan"
          /\ InsertJobs(staged[w])
          /\ wpc' = [wpc EXCEPT ![w] = "claim"]
          /\ staged' = [staged EXCEPT ![w] = {}]
          /\ UNCHANGED wjob
      BY <1>2 DEF CommitDue
    <2>2. staged[w] \in SUBSET Connections
      BY <1>0
    <2>3. Scheduling(c)' \subseteq Scheduling(c) \ {w}
      BY <1>0, <2>1 DEF Scheduling
    <2>4. Executing(c)' \subseteq Executing(c)
      <3>1. \A v \in Workers : wpc[v] = "execute" =>
              wjob[v] \in Jobs /\ status[wjob[v]] = "running"
        BY DEF IInv, TypeOK, SingleRunner
      <3>2. RowsFilledFor(staged[w])
        BY <2>1, <2>2, InsertEffect DEF IInv
      <3> QED
        BY <1>0, <2>1, <3>1, <3>2 DEF Executing, RowsFilledFor
    <2>5. CASE c \in staged[w]
      <3>1. w \in Scheduling(c)
        BY <2>5 DEF Scheduling
      <3> QED
        BY <1>1, <2>1, <2>2, <2>3, <2>4, <3>1, InsertedForOne DEF ScheduleToQueue
    <2>6. CASE c \notin staged[w]
      BY <1>1, <2>1, <2>2, <2>3, <2>4, <2>6, InsertedForOne
    <2> QED
      BY <2>5, <2>6
  <1>3. ASSUME NEW d \in Connections, CheckDue(w, d)
        PROVE  Moves(c) \/ Opens(c)
    <2>1. /\ QueuedFor(c)' = QueuedFor(c)
          /\ Executing(c)' = Executing(c)
      BY <1>3 DEF CheckDue, QueuedFor, Executing, jobVars
    <2>2. CASE OccupiedBy(d) = {} /\ c = d
      BY <2>1, <2>2 DEF Opens, OccupiedBy, QueuedFor
    <2>3. CASE ~(OccupiedBy(d) = {} /\ c = d)
      <3>1. Scheduling(c)' \subseteq Scheduling(c)
        BY <1>0, <1>3, <2>3 DEF CheckDue, Scheduling
      <3> QED
        BY <1>1, <2>1, <3>1
    <2> QED
      BY <2>2, <2>3
  <1>4. CASE StartJob(w)
    <2>1. /\ wpc[w] = "locked"
          /\ status' = [status EXCEPT ![wjob[w]] = "running"]
          /\ wpc' = [wpc EXCEPT ![w] = "execute"]
          /\ UNCHANGED <<connectionOf, staged, wjob>>
      BY <1>4 DEF StartJob
    <2>2. wjob[w] \in Jobs /\ status[wjob[w]] = "queued"
      BY <2>1 DEF IInv, TypeOK, SingleRunner
    <2>3. Scheduling(c)' = Scheduling(c)
      BY <2>1 DEF Scheduling
    <2>4. QueuedFor(c)' \subseteq QueuedFor(c) \ {wjob[w]}
      BY <1>0, <2>1, <2>2 DEF QueuedFor
    <2>5. CASE connectionOf[wjob[w]] = c
      <3>1. wjob[w] \in QueuedFor(c)
        BY <2>2, <2>5 DEF QueuedFor
      <3>2. Executing(c)' \subseteq Executing(c) \union {w}
        BY <1>0, <2>1 DEF Executing
      <3> QED
        BY <1>1, <2>3, <2>4, <3>1, <3>2 DEF QueueToRun
    <2>6. CASE connectionOf[wjob[w]] # c
      <3>1. Executing(c)' \subseteq Executing(c)
        BY <1>0, <2>1, <2>6 DEF Executing
      <3> QED
        BY <1>1, <2>3, <2>4, <3>1
    <2> QED
      BY <2>5, <2>6
  <1>5. CASE SucceedJob(w) \/ RecordFailure(w)
    <2>1. /\ wpc[w] = "execute"
          /\ wpc' = [wpc EXCEPT ![w] = "poll"]
          /\ wjob' = [wjob EXCEPT ![w] = NoJob]
          /\ UNCHANGED <<connectionOf, staged>>
      BY <1>5 DEF SucceedJob, RecordFailure
    <2>2. PICK outcome \in Statuses : status' = [status EXCEPT ![wjob[w]] = outcome]
      BY <1>5 DEF SucceedJob, RecordFailure, MayRetry, Statuses
    <2>3. wjob[w] \in Jobs
      BY <2>1 DEF IInv, TypeOK, SingleRunner
    <2>4. Scheduling(c)' = Scheduling(c)
      BY <2>1 DEF Scheduling
    <2>5. Executing(c)' \subseteq Executing(c) \ {w}
      BY <1>0, <2>1 DEF Executing
    <2>6. CASE connectionOf[wjob[w]] = c
      <3>1. w \in Executing(c)
        BY <2>1, <2>6 DEF Executing
      <3>2. QueuedFor(c)' \subseteq QueuedFor(c) \union {wjob[w]}
        BY <1>0, <2>1, <2>2 DEF QueuedFor
      <3> QED
        BY <1>1, <2>4, <2>5, <3>1, <3>2 DEF RunToQueue
    <2>7. CASE connectionOf[wjob[w]] # c
      <3>1. QueuedFor(c)' \subseteq QueuedFor(c)
        BY <1>0, <2>1, <2>2, <2>7 DEF QueuedFor
      <3> QED
        BY <1>1, <2>4, <2>5, <3>1
    <2> QED
      BY <2>6, <2>7
  <1>6. CASE ScanConnections(w) \/ LockJob(w) \/ NothingToClaim(w)
             \/ CheckpointRun(w) \/ CrashWorker(w) \/ RestartWorker(w)
    <2>1. QueuedFor(c)' = QueuedFor(c)
      BY <1>6 DEF ScanConnections, LockJob, NothingToClaim, CheckpointRun,
                  CrashWorker, RestartWorker, QueuedFor, jobVars
    <2>2. Scheduling(c)' \subseteq Scheduling(c)
      BY <1>0, <1>6 DEF ScanConnections, LockJob, NothingToClaim, CheckpointRun,
                  CrashWorker, RestartWorker, Scheduling, workerVars
    <2>3. \A v \in Workers : wpc'[v] = "execute" =>
            wpc[v] = "execute" /\ wjob'[v] = wjob[v] /\ UNCHANGED connectionOf
      BY <1>0, <1>6 DEF ScanConnections, LockJob, NothingToClaim, CheckpointRun,
                  CrashWorker, RestartWorker, workerVars, jobVars
    <2>4. Executing(c)' \subseteq Executing(c)
      BY <2>3 DEF Executing
    <2> QED
      BY <1>1, <2>1, <2>2, <2>4
  <1> QED
    BY <1>2, <1>3, <1>4, <1>5, <1>6 DEF WorkerStep

\* Every step moves open work, or opens one piece where nothing was queued.
LEMMA StepMovesOrOpens ==
    ASSUME IInv, [Next]_vars, NEW c \in Connections
    PROVE  Moves(c) \/ Opens(c)
  <1>1. CASE \E h \in Handlers : RequestStep(h)
    BY <1>1, RequestMoves
  <1>2. CASE \E w \in Workers : \/ WorkerStep(w) \/ CheckpointRun(w)
                               \/ CrashWorker(w) \/ RestartWorker(w)
    BY <1>2, WorkerMoves
  <1>3. CASE \/ \E d \in Connections : Configure(d) \/ IntervalElapses(d)
             \/ \E j \in Jobs : BackoffElapses(j)
             \/ UNCHANGED vars
    <2>1. UNCHANGED <<status, connectionOf, requestVars, workerVars>>
      BY <1>3 DEF Configure, IntervalElapses, BackoffElapses, jobVars, vars
    <2> QED
      BY <2>1 DEF Moves, Stays, NoNewExecuting, NoNewInserting, NoNewScheduling,
                  QueuedFor, Executing, Inserting, Scheduling, requestVars, workerVars
  <1> QED
    BY <1>1, <1>2, <1>3 DEF Next

-----------------------------------------------------------------------------
\* However many jobs are asked for, at most one per worker and request is open
\* for a connection at any time.
THEOREM BoundedBacklog == Spec => []BacklogBounded
  <1>1. Init => BacklogBounded
    <2> SUFFICES ASSUME Init, NEW c \in Connections
                 PROVE  Backlog(c) <= Limit
      BY DEF BacklogBounded, Limit
    <2>1. QueuedFor(c) = {}
      BY DEF Init, QueuedFor
    <2> QED
      BY <2>1, InitEstablishesIInv, NothingQueued
  <1>2. ASSUME IInv, BacklogBounded, [Next]_vars
        PROVE  BacklogBounded'
    <2> SUFFICES ASSUME NEW c \in Connections
                 PROVE  Backlog(c)' <= Limit
      BY DEF BacklogBounded, Limit
    <2>1. CASE Moves(c)
      <3>1. Backlog(c)' <= Backlog(c)
        BY <2>1, MovesKeepBacklog DEF Moves
      <3>2. Backlog(c) <= Limit
        BY <1>2 DEF BacklogBounded, Limit
      <3>3. Backlog(c) \in Nat /\ Backlog(c)' \in Nat /\ Limit \in Nat
        BY BacklogIsNatural, BacklogIsNaturalNext, FS_CardinalityType, ActorsAssumption DEF Limit
      <3> QED
        BY <3>1, <3>2, <3>3
    <2>2. CASE Opens(c)
      <3>1. IInv' /\ QueuedFor(c)' = {}
        BY <1>2, <2>2, NextPreservesIInv DEF Opens
      <3> QED
        BY <3>1, NothingQueuedNext
    <2> QED
      BY <1>2, <2>1, <2>2, StepMovesOrOpens
  <1> QED
    BY <1>1, <1>2, Invariance, PTL DEF Spec

-----------------------------------------------------------------------------
(* Orphaned rows *)

Orphans == {j \in Jobs : Orphaned(j)}

\* A step that kills no worker orphans no row: only a claim makes a row RUNNING,
\* and its worker keeps it; a worker lets go of a row it settles.
LEMMA NoNewOrphan ==
    ASSUME IInv, [Next]_vars, \A w \in Workers : ~CrashWorker(w)
    PROVE  Orphans' \subseteq Orphans
  <1> SUFFICES ASSUME NEW j \in Jobs, Orphaned(j)'
               PROVE  Orphaned(j)
    BY DEF Orphans
  <1>1. status'[j] = "running" /\ \A w \in Workers : wjob'[w] # j
    BY DEF Orphaned
  <1>2. /\ wjob \in [Workers -> Jobs \union {NoJob}]
        /\ status \in [Jobs -> Statuses]
    BY DEF IInv, TypeOK
  <1>3. ASSUME NEW cs \in SUBSET Connections, InsertJobs(cs)
        PROVE  status[j] = "running"
    BY <1>1, <1>3, InsertEffect DEF IInv, RowsFilledFor
  <1>4. ASSUME NEW w \in Workers, StartJob(w) \/ SucceedJob(w) \/ RecordFailure(w)
        PROVE  Orphaned(j)
    <2>1. wjob[w] \in Jobs /\ (wpc[w] = "execute" => status[wjob[w]] = "running")
      BY <1>2, <1>4 DEF IInv, SingleRunner, StartJob, SucceedJob, RecordFailure
    <2>2. wjob[w] # j
      BY <1>1, <1>2, <1>4, <2>1 DEF StartJob, SucceedJob, RecordFailure
    <2>3. status[j] = "running"
      BY <1>1, <1>2, <1>4, <2>2 DEF StartJob, SucceedJob, RecordFailure
    <2>4. \A v \in Workers : wjob[v] # j
      BY <1>1, <1>2, <1>4, <2>2 DEF StartJob, SucceedJob, RecordFailure
    <2> QED
      BY <2>3, <2>4 DEF Orphaned
  <1>5. CASE ~(\E w \in Workers : StartJob(w) \/ SucceedJob(w) \/ RecordFailure(w))
    <2>1. status[j] = "running"
      BY <1>1, <1>3, <1>5, RowSteps
    <2>2. wjob' = wjob \/ \E w \in Workers : LockJob(w)
      BY <1>5 DEF Next, vars, workerVars, RequestStep, WorkerStep, CheckpointRun,
           Configure, IntervalElapses, BackoffElapses, BeginEvent, BeginManual,
           LookUpQueued, CommitCoalesced, CommitInserted, LookUpManual, CommitManual,
           AbandonRequest, ScanConnections, CheckDue, CommitDue, NothingToClaim,
           RestartWorker
    <2>3. ASSUME NEW w \in Workers, LockJob(w)
          PROVE  wjob[w] = NoJob /\ \A v \in Workers : v # w => wjob'[v] = wjob[v]
      BY <1>2, <2>3 DEF LockJob, IInv, SingleRunner
    <2>4. \A v \in Workers : wjob[v] # j
      BY <1>1, <2>2, <2>3 DEF Jobs, NoJob
    <2> QED
      BY <2>1, <2>4 DEF Orphaned
  <1> QED
    BY <1>4, <1>5

\* A worker that dies leaves at most the row it was executing.
LEMMA CrashOrphansOne ==
    ASSUME IInv, NEW w \in Workers, CrashWorker(w)
    PROVE  Orphans' \subseteq Orphans \union {wjob[w]}
  <1>1. /\ wjob' = [wjob EXCEPT ![w] = NoJob]
        /\ UNCHANGED status
        /\ wjob \in [Workers -> Jobs \union {NoJob}]
    BY DEF CrashWorker, jobVars, IInv, TypeOK
  <1> QED
    BY <1>1 DEF Orphans, Orphaned

\* However many jobs, workers and retries there are, every RUNNING row nobody
\* executes was left by a worker that died, each by another death.
THEOREM OrphansAreCrashes == Spec => []OrphansComeFromCrashes
  <1>1. Init => OrphansComeFromCrashes
    <2> SUFFICES ASSUME Init
                 PROVE  Cardinality(Orphans) <= crashes
      BY DEF OrphansComeFromCrashes, Orphans
    <2>1. Orphans = {}
      BY DEF Init, Orphans, Orphaned
    <2> QED
      BY <2>1, FS_EmptySet DEF Init
  <1>2. ASSUME IInv, OrphansComeFromCrashes, [Next]_vars
        PROVE  OrphansComeFromCrashes'
    <2>1. Cardinality(Orphans) <= crashes /\ crashes \in Nat
      BY <1>2, BoundsAssumption DEF OrphansComeFromCrashes, Orphans, IInv, TypeOK
    <2>2. IsFiniteSet(Orphans)
      <3>1. IsFiniteSet(Jobs)
        BY FS_Interval, BoundsAssumption DEF Jobs
      <3> QED
        BY <3>1, FS_Subset DEF Orphans
    <2>3. ASSUME NEW w \in Workers, CrashWorker(w)
          PROVE  Cardinality(Orphans') <= crashes'
      <3>1. crashes' = crashes + 1
        BY <2>3 DEF CrashWorker
      <3>2. Orphans' \subseteq Orphans \union {wjob[w]}
        BY <1>2, <2>3, CrashOrphansOne
      <3>3. /\ Cardinality(Orphans') \in Nat /\ Cardinality(Orphans) \in Nat
            /\ Cardinality(Orphans') <= Cardinality(Orphans) + 1
        BY <2>2, <3>2, GrowsByOne
      <3> QED
        BY <2>1, <3>1, <3>3
    <2>4. ASSUME \A w \in Workers : ~CrashWorker(w)
          PROVE  Cardinality(Orphans') <= crashes'
      <3>1. Orphans' \subseteq Orphans
        BY <1>2, <2>4, NoNewOrphan
      <3>2. /\ Cardinality(Orphans') <= Cardinality(Orphans)
            /\ Cardinality(Orphans') \in Nat /\ Cardinality(Orphans) \in Nat
        BY <2>2, <3>1, FS_Subset, FS_CardinalityType
      <3>3. crashes' = crashes
        BY <1>2, <2>4 DEF Next, vars, RequestStep, WorkerStep, CheckpointRun,
             Configure, IntervalElapses, BackoffElapses, BeginEvent, BeginManual,
             LookUpQueued, CommitCoalesced, CommitInserted, LookUpManual, CommitManual,
             AbandonRequest, ScanConnections, CheckDue, CommitDue, LockJob,
             NothingToClaim, StartJob, SucceedJob, RecordFailure, RestartWorker
      <3> QED
        BY <2>1, <3>2, <3>3
    <2>5. Cardinality(Orphans') <= crashes'
      BY <2>3, <2>4
    <2> QED
      BY <2>5 DEF OrphansComeFromCrashes, Orphans
  <1> QED
    BY <1>1, <1>2, Invariance, PTL DEF Spec
=============================================================================
