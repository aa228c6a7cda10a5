--------------------------- MODULE SheetSyncQueue ---------------------------
(***************************************************************************)
(* The queue of Google Sheets synchronisation jobs: the rows of            *)
(* sheet_sync_jobs, the API requests that enqueue jobs, and the worker     *)
(* processes that schedule, claim, execute and settle them.                *)
(*                                                                         *)
(* One action is one committed database transaction or one SELECT of it,   *)
(* the granularity at which PostgreSQL (READ COMMITTED) interleaves the    *)
(* sessions.  What a run reads and writes in the spreadsheet is left out:  *)
(* a run either succeeds, or raises, or dies with its process.             *)
(***************************************************************************)
EXTENDS Integers, FiniteSets, Functions

CONSTANTS
    Connections,   \* rows of sheet_connections
    NoConnection,  \* connection of a job row that does not exist yet
    Handlers,      \* API requests that may be in flight at one time
    Workers,       \* sheet-sync-worker processes
    MaxJobs,       \* bound: job rows ever created
    MaxAttempts,   \* max_attempts of record_sheet_sync_failure
    MaxCrashes     \* bound: worker processes that die

ASSUME ConnectionsAssumption ==
    IsFiniteSet(Connections) /\ NoConnection \notin Connections
ASSUME ActorsAssumption == IsFiniteSet(Handlers) /\ IsFiniteSet(Workers)
ASSUME BoundsAssumption ==
    MaxJobs \in Nat /\ MaxAttempts \in Nat \ {0} /\ MaxCrashes \in Nat

Jobs  == 1..MaxJobs   \* in the order of created_at
NoJob == 0

VARIABLES
    enabled,       \* connection -> automatic synchronisation is on
    due,           \* connection -> last_attempt_at + interval <= now
    status,        \* job -> "absent" (no row) or SheetSyncJobStatus
    attempts,      \* job -> attempt_count
    ready,         \* job -> next_attempt_at <= now
    connectionOf,  \* job -> connection_id
    nextJob,       \* the next row to be inserted
    rpc,           \* request -> where its transaction stands
    rconn,         \* request -> the connection of its user
    wpc,           \* worker -> where process_one_job stands
    todo,          \* worker -> due connections it has still to look at
    staged,        \* worker -> connections whose new job is not committed
    wjob,          \* worker -> the job row it holds locked or executes
    crashes,       \* worker deaths so far
    dirty          \* history: connection -> a committed event no run follows yet

connectionVars == <<enabled, due>>
jobVars        == <<status, attempts, ready, connectionOf, nextJob>>
requestVars    == <<rpc, rconn>>
workerVars     == <<wpc, todo, staged, wjob>>
vars == <<connectionVars, jobVars, requestVars, workerVars, crashes, dirty>>

Statuses      == {"absent", "queued", "running", "succeeded", "failed"}
Terminal      == {"succeeded", "failed"}
RequestStates == {"idle", "looking", "coalescing", "inserting",
                  "manualLooking", "manualInserting"}
WorkerStates  == {"poll", "scan", "claim", "locked", "execute", "down"}

TypeOK ==
    /\ enabled \in [Connections -> BOOLEAN]
    /\ due \in [Connections -> BOOLEAN]
    /\ status \in [Jobs -> Statuses]
    /\ attempts \in [Jobs -> 0..MaxAttempts]
    /\ ready \in [Jobs -> BOOLEAN]
    /\ connectionOf \in [Jobs -> Connections \union {NoConnection}]
    /\ nextJob \in 1..(MaxJobs + 1)
    /\ rpc \in [Handlers -> RequestStates]
    /\ rconn \in [Handlers -> Connections \union {NoConnection}]
    /\ wpc \in [Workers -> WorkerStates]
    /\ todo \in [Workers -> SUBSET Connections]
    /\ staged \in [Workers -> SUBSET Connections]
    /\ wjob \in [Workers -> Jobs \union {NoJob}]
    /\ crashes \in 0..MaxCrashes
    /\ dirty \in [Connections -> BOOLEAN]

Init ==
    /\ enabled \in [Connections -> BOOLEAN]
    /\ due = [c \in Connections |-> FALSE]
    /\ status = [j \in Jobs |-> "absent"]
    /\ attempts = [j \in Jobs |-> 0]
    /\ ready = [j \in Jobs |-> FALSE]
    /\ connectionOf = [j \in Jobs |-> NoConnection]
    /\ nextJob = 1
    /\ rpc = [h \in Handlers |-> "idle"]
    /\ rconn = [h \in Handlers |-> NoConnection]
    /\ wpc = [w \in Workers |-> "poll"]
    /\ todo = [w \in Workers |-> {}]
    /\ staged = [w \in Workers |-> {}]
    /\ wjob = [w \in Workers |-> NoJob]
    /\ crashes = 0
    /\ dirty = [c \in Connections |-> FALSE]

-----------------------------------------------------------------------------
(* What one SELECT sees, and the rows one commit inserts. *)

QueuedFor(c) ==
    {j \in Jobs : status[j] = "queued" /\ connectionOf[j] = c}

\* Mutant of OccupiedBy: only RUNNING jobs stop the scheduler.
OccupiedByRunningOnly(c) ==
    {j \in Jobs : status[j] = "running" /\ connectionOf[j] = c}

\* Mutant of OccupiedBy: the filter on the status is forgotten.
OccupiedByAnyJob(c) == {j \in Jobs : connectionOf[j] = c}

OccupiedBy(c) ==
    {j \in Jobs : status[j] \in {"queued", "running"} /\ connectionOf[j] = c}

Inserting(c) ==
    {h \in Handlers : /\ rpc[h] \in {"inserting", "manualInserting"}
                      /\ rconn[h] = c}

Scheduling(c) == {w \in Workers : c \in staged[w]}

\* The bound MaxJobs: an insert is only decided while a row is left for it.
Room ==
    nextJob + Cardinality({h \in Handlers : \E c \in Connections : h \in Inserting(c)})
            + Cardinality({p \in Workers \X Connections : p[2] \in staged[p[1]]})
        <= MaxJobs

\* One commit that inserts a job for every connection of cs, in any order.
InsertJobs(cs) ==
    LET new == nextJob .. (nextJob + Cardinality(cs) - 1) IN
    /\ new \subseteq Jobs
    /\ \E f \in Bijection(new, cs) :
         connectionOf' = [j \in Jobs |-> IF j \in new THEN f[j] ELSE connectionOf[j]]
    /\ status' = [j \in Jobs |-> IF j \in new THEN "queued" ELSE status[j]]
    /\ ready' = [j \in Jobs |-> IF j \in new THEN TRUE ELSE ready[j]]
    /\ nextJob' = nextJob + Cardinality(cs)
    /\ UNCHANGED attempts

-----------------------------------------------------------------------------
(* API requests.  enqueue_sheet_sync looks the connection up, then a queued *)
(* job, and leaves the commit to its caller, which commits the business     *)
(* change and the new job together.                                         *)

EndRequest(h) ==
    /\ rpc' = [rpc EXCEPT ![h] = "idle"]
    /\ rconn' = [rconn EXCEPT ![h] = NoConnection]

BeginEvent(h, c) ==
    /\ rpc[h] = "idle"
    /\ enabled[c]
    /\ rpc' = [rpc EXCEPT ![h] = "looking"]
    /\ rconn' = [rconn EXCEPT ![h] = c]
    /\ UNCHANGED <<connectionVars, jobVars, workerVars, crashes, dirty>>

LookUpQueued(h) ==
    /\ rpc[h] = "looking"
    /\ \/ /\ QueuedFor(rconn[h]) # {}
          /\ rpc' = [rpc EXCEPT ![h] = "coalescing"]
       \/ /\ QueuedFor(rconn[h]) = {}
          /\ Room
          /\ rpc' = [rpc EXCEPT ![h] = "inserting"]
    /\ UNCHANGED <<connectionVars, jobVars, rconn, workerVars, crashes, dirty>>

\* The caller commits its change; the job it found carries it.
CommitCoalesced(h) ==
    /\ rpc[h] = "coalescing"
    /\ EndRequest(h)
    /\ dirty' = [dirty EXCEPT ![rconn[h]] = TRUE]
    /\ UNCHANGED <<connectionVars, jobVars, workerVars, crashes>>

\* The caller commits its change and the new job in one transaction.
CommitInserted(h) ==
    /\ rpc[h] = "inserting"
    /\ InsertJobs({rconn[h]})
    /\ EndRequest(h)
    /\ dirty' = [dirty EXCEPT ![rconn[h]] = TRUE]
    /\ UNCHANGED <<connectionVars, workerVars, crashes>>

\* SheetSyncService.enqueue: the "refresh now" button works while disabled.
BeginManual(h, c) ==
    /\ rpc[h] = "idle"
    /\ rpc' = [rpc EXCEPT ![h] = "manualLooking"]
    /\ rconn' = [rconn EXCEPT ![h] = c]
    /\ UNCHANGED <<connectionVars, jobVars, workerVars, crashes, dirty>>

LookUpManual(h) ==
    /\ rpc[h] = "manualLooking"
    /\ \/ /\ QueuedFor(rconn[h]) # {}
          /\ EndRequest(h)
       \/ /\ QueuedFor(rconn[h]) = {}
          /\ Room
          /\ rpc' = [rpc EXCEPT ![h] = "manualInserting"]
          /\ UNCHANGED rconn
    /\ UNCHANGED <<connectionVars, jobVars, workerVars, crashes, dirty>>

CommitManual(h) ==
    /\ rpc[h] = "manualInserting"
    /\ InsertJobs({rconn[h]})
    /\ EndRequest(h)
    /\ UNCHANGED <<connectionVars, workerVars, crashes, dirty>>

\* get_session rolls the transaction back when the request raises.
AbandonRequest(h) ==
    /\ rpc[h] # "idle"
    /\ EndRequest(h)
    /\ UNCHANGED <<connectionVars, jobVars, workerVars, crashes, dirty>>

\* PUT of the connection: switches it on or off and may change its interval.
Configure(c) ==
    /\ \E on, elapsed \in BOOLEAN :
         /\ enabled' = [enabled EXCEPT ![c] = on]
         /\ due' = [due EXCEPT ![c] = elapsed]
    /\ UNCHANGED <<jobVars, requestVars, workerVars, crashes, dirty>>

-----------------------------------------------------------------------------
(* process_one_job: schedule, claim, execute, settle. *)

ScanConnections(w) ==
    /\ wpc[w] = "poll"
    /\ wpc' = [wpc EXCEPT ![w] = "scan"]
    /\ todo' = [todo EXCEPT ![w] = {c \in Connections : enabled[c] /\ due[c]}]
    /\ UNCHANGED <<connectionVars, jobVars, requestVars, staged, wjob, crashes, dirty>>

CheckDue(w, c) ==
    /\ wpc[w] = "scan"
    /\ c \in todo[w]
    /\ todo' = [todo EXCEPT ![w] = @ \ {c}]
    /\ IF OccupiedBy(c) = {} /\ Room
         THEN staged' = [staged EXCEPT ![w] = @ \union {c}]
         ELSE UNCHANGED staged
    /\ UNCHANGED <<connectionVars, jobVars, requestVars, wpc, wjob, crashes, dirty>>

CommitDue(w) ==
    /\ wpc[w] = "scan"
    /\ todo[w] = {}
    /\ InsertJobs(staged[w])
    /\ wpc' = [wpc EXCEPT ![w] = "claim"]
    /\ staged' = [staged EXCEPT ![w] = {}]
    /\ UNCHANGED <<connectionVars, requestVars, todo, wjob, crashes, dirty>>

\* Mutant of Claimable: the row is read without FOR UPDATE SKIP LOCKED.
ClaimableUnlocked(j) == status[j] = "queued" /\ ready[j]

\* Mutant of Claimable: only jobs that were never started are claimed.
ClaimableFresh(j) ==
    /\ status[j] = "queued"
    /\ ready[j]
    /\ attempts[j] = 0
    /\ \A w \in Workers : wjob[w] # j

\* Rows another session holds FOR UPDATE are skipped.
Claimable(j) ==
    /\ status[j] = "queued"
    /\ ready[j]
    /\ \A w \in Workers : wjob[w] # j

LockJob(w) ==
    /\ wpc[w] = "claim"
    /\ \E j \in Jobs :
         /\ Claimable(j)
         /\ \A i \in 1..(j - 1) : ~Claimable(i)
         /\ wjob' = [wjob EXCEPT ![w] = j]
    /\ wpc' = [wpc EXCEPT ![w] = "locked"]
    /\ UNCHANGED <<connectionVars, jobVars, requestVars, todo, staged, crashes, dirty>>

NothingToClaim(w) ==
    /\ wpc[w] = "claim"
    /\ \A j \in Jobs : ~Claimable(j)
    /\ wpc' = [wpc EXCEPT ![w] = "poll"]
    /\ UNCHANGED <<connectionVars, jobVars, requestVars, todo, staged, wjob,
                   crashes, dirty>>

\* Mutant of StartJob: attempt_count is not incremented.
StartJobUncounted(w) ==
    LET j == wjob[w] IN
    /\ wpc[w] = "locked"
    /\ status' = [status EXCEPT ![j] = "running"]
    /\ wpc' = [wpc EXCEPT ![w] = "execute"]
    /\ dirty' = [dirty EXCEPT ![connectionOf[j]] = FALSE]
    /\ UNCHANGED <<connectionVars, attempts, ready, connectionOf, nextJob,
                   requestVars, todo, staged, wjob, crashes>>

\* The claim is committed and the row lock released.
StartJob(w) ==
    LET j == wjob[w] IN
    /\ wpc[w] = "locked"
    /\ status' = [status EXCEPT ![j] = "running"]
    /\ attempts' = [attempts EXCEPT ![j] = @ + 1]
    /\ wpc' = [wpc EXCEPT ![w] = "execute"]
    /\ dirty' = [dirty EXCEPT ![connectionOf[j]] = FALSE]
    /\ UNCHANGED <<connectionVars, ready, connectionOf, nextJob, requestVars,
                   todo, staged, wjob, crashes>>

\* A refresh inside execute commits the session, and last_attempt_at with it.
CheckpointRun(w) ==
    /\ wpc[w] = "execute"
    /\ due' = [due EXCEPT ![connectionOf[wjob[w]]] = FALSE]
    /\ UNCHANGED <<enabled, jobVars, requestVars, workerVars, crashes, dirty>>

SucceedJob(w) ==
    LET j == wjob[w] IN
    /\ wpc[w] = "execute"
    /\ status' = [status EXCEPT ![j] = "succeeded"]
    /\ due' = [due EXCEPT ![connectionOf[j]] = FALSE]
    /\ wpc' = [wpc EXCEPT ![w] = "poll"]
    /\ wjob' = [wjob EXCEPT ![w] = NoJob]
    /\ UNCHANGED <<enabled, attempts, ready, connectionOf, nextJob, requestVars,
                   todo, staged, crashes, dirty>>

\* Mutant of MayRetry: one retry too many.
MayRetryOnceMore(j) == attempts[j] <= MaxAttempts

MayRetry(j) == attempts[j] < MaxAttempts

\* Mutant of RecordFailure: the status of a retried job is not written.
RecordFailureKeepsRunning(w) ==
    LET j == wjob[w] IN
    /\ wpc[w] = "execute"
    /\ IF MayRetry(j)
         THEN /\ ready' = [ready EXCEPT ![j] = FALSE]
              /\ UNCHANGED status
         ELSE /\ status' = [status EXCEPT ![j] = "failed"]
              /\ UNCHANGED ready
    /\ due' = [due EXCEPT ![connectionOf[j]] = FALSE]
    /\ wpc' = [wpc EXCEPT ![w] = "poll"]
    /\ wjob' = [wjob EXCEPT ![w] = NoJob]
    /\ UNCHANGED <<enabled, attempts, connectionOf, nextJob, requestVars,
                   todo, staged, crashes, dirty>>

RecordFailure(w) ==
    LET j == wjob[w] IN
    /\ wpc[w] = "execute"
    /\ IF MayRetry(j)
         THEN /\ status' = [status EXCEPT ![j] = "queued"]
              /\ ready' = [ready EXCEPT ![j] = FALSE]
         ELSE /\ status' = [status EXCEPT ![j] = "failed"]
              /\ UNCHANGED ready
    /\ due' = [due EXCEPT ![connectionOf[j]] = FALSE]
    /\ wpc' = [wpc EXCEPT ![w] = "poll"]
    /\ wjob' = [wjob EXCEPT ![w] = NoJob]
    /\ UNCHANGED <<enabled, attempts, connectionOf, nextJob, requestVars,
                   todo, staged, crashes, dirty>>

\* A killed process, or an exception that escapes process_one_job: the open
\* transaction is rolled back and its locks go, a committed RUNNING row stays.
CrashWorker(w) ==
    /\ wpc[w] # "down"
    /\ crashes < MaxCrashes
    /\ crashes' = crashes + 1
    /\ wpc' = [wpc EXCEPT ![w] = "down"]
    /\ todo' = [todo EXCEPT ![w] = {}]
    /\ staged' = [staged EXCEPT ![w] = {}]
    /\ wjob' = [wjob EXCEPT ![w] = NoJob]
    /\ UNCHANGED <<connectionVars, jobVars, requestVars, dirty>>

RestartWorker(w) ==
    /\ wpc[w] = "down"
    /\ wpc' = [wpc EXCEPT ![w] = "poll"]
    /\ UNCHANGED <<connectionVars, jobVars, requestVars, todo, staged, wjob,
                   crashes, dirty>>

-----------------------------------------------------------------------------
(* Time: an interval or a backoff elapses. *)

IntervalElapses(c) ==
    /\ ~due[c]
    /\ due' = [due EXCEPT ![c] = TRUE]
    /\ UNCHANGED <<enabled, jobVars, requestVars, workerVars, crashes, dirty>>

BackoffElapses(j) ==
    /\ status[j] = "queued"
    /\ ~ready[j]
    /\ ready' = [ready EXCEPT ![j] = TRUE]
    /\ UNCHANGED <<connectionVars, status, attempts, connectionOf, nextJob,
                   requestVars, workerVars, crashes, dirty>>

-----------------------------------------------------------------------------
RequestStep(h) ==
    \/ \E c \in Connections : BeginEvent(h, c) \/ BeginManual(h, c)
    \/ LookUpQueued(h) \/ CommitCoalesced(h) \/ CommitInserted(h)
    \/ LookUpManual(h) \/ CommitManual(h) \/ AbandonRequest(h)

\* What run_worker goes on doing as long as the process lives.
WorkerStep(w) ==
    \/ ScanConnections(w) \/ CommitDue(w)
    \/ \E c \in Connections : CheckDue(w, c)
    \/ LockJob(w) \/ NothingToClaim(w) \/ StartJob(w)
    \/ SucceedJob(w) \/ RecordFailure(w)

Next ==
    \/ \E h \in Handlers : RequestStep(h)
    \/ \E w \in Workers : \/ WorkerStep(w) \/ CheckpointRun(w)
                          \/ CrashWorker(w) \/ RestartWorker(w)
    \/ \E c \in Connections : Configure(c) \/ IntervalElapses(c)
    \/ \E j \in Jobs : BackoffElapses(j)

Spec == Init /\ [][Next]_vars

\* run_worker loops until it is stopped and every call of a run has a timeout;
\* the container is restarted unless stopped; clocks advance.  Nothing is
\* assumed of requests, of the configuration or of crashes.
Fairness ==
    /\ \A w \in Workers : WF_vars(WorkerStep(w)) /\ WF_vars(RestartWorker(w))
    /\ \A j \in Jobs : WF_vars(BackoffElapses(j))

FairSpec == Spec /\ Fairness

-----------------------------------------------------------------------------
(* Safety *)

\* FOR UPDATE SKIP LOCKED and the committed claim give a job to one worker: a
\* locked row is still queued, an executed one is running, and no two workers
\* are ever at the same row.
SingleRunner ==
    /\ \A w \in Workers :
         /\ (wpc[w] \in {"locked", "execute"}) <=> (wjob[w] # NoJob)
         /\ (wpc[w] = "locked") => (status[wjob[w]] = "queued")
         /\ (wpc[w] = "execute") => (status[wjob[w]] = "running")
    /\ \A v, w \in Workers : (wjob[v] = wjob[w] /\ wjob[v] # NoJob) => (v = w)

\* A job is started at most max_attempts times: one that waits has an attempt
\* left, one that runs has used one, and it fails only when all are used.
AttemptDiscipline ==
    \A j \in Jobs :
        /\ (status[j] = "queued") => (attempts[j] < MaxAttempts)
        /\ (status[j] = "running") => (attempts[j] > 0)
        /\ (status[j] = "failed") => (attempts[j] = MaxAttempts)

\* A RUNNING row nobody executes.
Orphaned(j) == status[j] = "running" /\ \A w \in Workers : wjob[w] # j

\* The only RUNNING rows nobody executes are those of workers that died: one
\* per crash at most, none is lost by settling, retrying or rolling back.
OrphansComeFromCrashes ==
    Cardinality({j \in Jobs : Orphaned(j)}) <= crashes

\* No constraint of the schema limits the queue.  The look-ups before every
\* insert still bound the work open for one connection (jobs queued, jobs
\* executed, inserts decided and not committed) by the number of actors.
Executing(c) == {w \in Workers : wpc[w] = "execute" /\ connectionOf[wjob[w]] = c}

Backlog(c) ==
    Cardinality({j \in Jobs : status[j] = "queued" /\ connectionOf[j] = c})
    + Cardinality(Executing(c)) + Cardinality(Inserting(c)) + Cardinality(Scheduling(c))

BacklogBounded ==
    \A c \in Connections : Backlog(c) <= Cardinality(Workers) + Cardinality(Handlers)

\* A settled job is history: no late claim, retry or second worker reopens it.
TerminalIsFinal ==
    [][\A j \in Jobs : status[j] \in Terminal =>
           /\ status'[j] = status[j]
           /\ attempts'[j] = attempts[j]]_vars

\* The queue implements the lease of SyncJobLease.
Runners == [j \in Jobs |-> {w \in Workers : wpc[w] = "execute" /\ wjob[w] = j}]

Lease == INSTANCE SyncJobLease WITH runners <- Runners

ImplementsLease == Lease!LeaseSpec

-----------------------------------------------------------------------------
(* Liveness, under FairSpec *)

\* A queued job is claimed in the end, whatever its connection, its age and
\* its retries, and though workers die and are restarted.
QueuedIsClaimed ==
    \A j \in Jobs : (status[j] = "queued") ~> (status[j] # "queued")

\* Every job is settled, but for the RUNNING row a dead worker left behind.
EveryJobSettles ==
    \A j \in Jobs : (status[j] = "queued") ~> (status[j] \in Terminal \/ Orphaned(j))

\* A connection that is enabled and due is attempted, or switched off, as long
\* as it has no orphaned job (or the bound on job rows is reached).
DueIsServed ==
    \A c \in Connections :
        (enabled[c] /\ due[c])
            ~> (\/ ~enabled[c] \/ ~due[c] \/ ~Room
                \/ \E j \in Jobs : Orphaned(j) /\ connectionOf[j] = c)

-----------------------------------------------------------------------------
(* What the documents promise and the code does not do *)

\* docs/google-sheets.md: the worker finds the connections whose interval has
\* passed, and its queue is reliable.
DueIsAttempted ==
    \A c \in Connections :
        (enabled[c] /\ due[c]) ~> (~enabled[c] \/ ~due[c] \/ ~Room)

\* docs/google-sheets.md: the change is not lost.  A committed event waits for
\* a run that starts after it: a job for it is queued until one does.
EventIsNotLost ==
    \A c \in Connections : dirty[c] => QueuedFor(c) # {}
=============================================================================
