--------------------------- MODULE ImportPipeline ---------------------------
(***************************************************************************)
(* From a spreadsheet sent by a user to an import batch: the object in     *)
(* MinIO, its row in uploaded_files, the preview kept in the memory of the *)
(* API process, and the batch with its lots.                               *)
(*                                                                         *)
(* Requests of several users interleave between any two calls of the       *)
(* storage or of the database; both may refuse a call, or execute it and   *)
(* lose the answer, and the API process may be restarted.  The API and the *)
(* web pages run the same services and are not distinguished.              *)
(***************************************************************************)
EXTENDS Naturals, Sequences

CONSTANTS
    Owners,      \* users
    Contents,    \* the bytes of a spreadsheet, told apart by their checksum
    Readable,    \* the contents in which SpreadsheetPortfolioReader finds a table
    Uploads,     \* bound: upload ids, each drawn once by uuid4
    Requests,    \* bound: HTTP requests in flight at one time
    NoOwner, NoContent, NoUpload

ASSUME ReadableAssumption == Readable \subseteq Contents
ASSUME NobodyAssumption ==
    NoOwner \notin Owners /\ NoContent \notin Contents /\ NoUpload \notin Uploads

VARIABLES
    objects,   \* uploads whose bytes are in the bucket
    owner,     \* upload -> who sends it (in the object key and in the row)
    content,   \* upload -> its bytes
    status,    \* upload -> "absent" (no row) or the status of the row
    cached,    \* uploads with a preview in ImportPreviewCache
    batches,   \* the committed rows of import_batches, each with its lots
    rpc,       \* request -> where it stands
    rupload,   \* request -> the upload it stores or commits
    ruser,     \* request -> the authenticated user
    faulted    \* history: uploads whose storing met an error or a restart

requestVars == <<rpc, rupload, ruser>>
rowVars     == <<status, batches>>
vars == <<objects, owner, content, cached, rowVars, requestVars, faulted>>

Statuses == {"absent", "uploaded", "parsed", "failed", "imported", "duplicate"}
Storing    == {"putting", "storing", "compensating"}
Previewing == {"reading", "caching"}
Committing == {"looking", "inserting", "flushed", "replaying", "discarding"}

\* A batch belongs to the user who commits it; its content (checksum and name
\* of the sheet) and its upload are those of the preview.
Batches == [owner : Owners, content : Contents, upload : Uploads]

TypeOK ==
    /\ objects \in SUBSET Uploads
    /\ owner \in [Uploads -> Owners \union {NoOwner}]
    /\ content \in [Uploads -> Contents \union {NoContent}]
    /\ status \in [Uploads -> Statuses]
    /\ cached \in SUBSET Uploads
    /\ batches \in Seq(Batches)
    /\ rpc \in [Requests -> {"idle"} \union Storing \union Previewing \union Committing]
    /\ rupload \in [Requests -> Uploads \union {NoUpload}]
    /\ ruser \in [Requests -> Owners \union {NoOwner}]
    /\ faulted \in SUBSET Uploads

Init ==
    /\ objects = {} /\ cached = {} /\ batches = <<>> /\ faulted = {}
    /\ owner = [u \in Uploads |-> NoOwner]
    /\ content = [u \in Uploads |-> NoContent]
    /\ status = [u \in Uploads |-> "absent"]
    /\ rpc = [r \in Requests |-> "idle"]
    /\ rupload = [r \in Requests |-> NoUpload]
    /\ ruser = [r \in Requests |-> NoOwner]

-----------------------------------------------------------------------------
\* Request r goes on, or ends with an answer or an exception.
GoesTo(r, state) == rpc' = [rpc EXCEPT ![r] = state] /\ UNCHANGED <<rupload, ruser>>
Ends(r) ==
    /\ rpc' = [rpc EXCEPT ![r] = "idle"]
    /\ rupload' = [rupload EXCEPT ![r] = NoUpload]
    /\ ruser' = [ruser EXCEPT ![r] = NoOwner]
Begins(r, state, u, o) ==
    /\ rpc[r] = "idle"
    /\ rpc' = [rpc EXCEPT ![r] = state]
    /\ rupload' = [rupload EXCEPT ![r] = u]
    /\ ruser' = [ruser EXCEPT ![r] = o]

-----------------------------------------------------------------------------
(* POST /imports/preview *)

\* The name, the type and the size of the file are accepted; store draws the id
\* and derives the object key from the user and the id.
BeginPreview(r, u, o, c) ==
    /\ owner[u] = NoOwner
    /\ Begins(r, "putting", u, o)
    /\ owner' = [owner EXCEPT ![u] = o]
    /\ content' = [content EXCEPT ![u] = c]
    /\ UNCHANGED <<objects, cached, rowVars, faulted>>

PutObject(r) ==
    /\ rpc[r] = "putting"
    /\ objects' = objects \union {rupload[r]}
    /\ GoesTo(r, "storing")
    /\ UNCHANGED <<owner, content, cached, rowVars, faulted>>

\* Mutant: an error of the storage is swallowed.
PutRaisesSwallowed(r) ==
    /\ rpc[r] = "putting"
    /\ objects' \in {objects, objects \union {rupload[r]}}
    /\ GoesTo(r, "storing")
    /\ UNCHANGED <<owner, content, cached, rowVars, faulted>>

\* put raises, whether the object was written or not, and the client gets 503:
\* nothing has been promised, and nothing is compensated.
PutRaises(r) ==
    /\ rpc[r] = "putting"
    /\ objects' \in {objects, objects \union {rupload[r]}}
    /\ faulted' = faulted \union {rupload[r]}
    /\ Ends(r)
    /\ UNCHANGED <<owner, content, cached, rowVars>>

StoreRow(r) ==
    /\ rpc[r] = "storing"
    /\ status' = [status EXCEPT ![rupload[r]] = "uploaded"]
    /\ GoesTo(r, "reading")
    /\ UNCHANGED <<objects, owner, content, cached, batches, faulted>>

\* commit raises: the row is absent, or it is there and only the answer is lost.
StoreRaises(r) ==
    /\ rpc[r] = "storing"
    /\ \/ UNCHANGED <<status, faulted>>
       \/ /\ status' = [status EXCEPT ![rupload[r]] = "uploaded"]
          /\ faulted' = faulted \union {rupload[r]}
    /\ GoesTo(r, "compensating")
    /\ UNCHANGED <<objects, owner, content, cached, batches>>

\* Mutant: the failed commit is raised without deleting the object.
CompensateForgotten(r) ==
    /\ rpc[r] = "compensating"
    /\ UNCHANGED objects
    /\ Ends(r)
    /\ UNCHANGED <<owner, content, cached, rowVars, faulted>>

\* The handler of the failed commit deletes the object.
Compensate(r) ==
    /\ rpc[r] = "compensating"
    /\ objects' = objects \ {rupload[r]}
    /\ Ends(r)
    /\ UNCHANGED <<owner, content, cached, rowVars, faulted>>

CompensateRaises(r) ==
    /\ rpc[r] = "compensating"
    /\ objects' \in {objects, objects \ {rupload[r]}}
    /\ faulted' = faulted \union {rupload[r]}
    /\ Ends(r)
    /\ UNCHANGED <<owner, content, cached, rowVars>>

\* The reader finds the table and mark_parsed commits ...
MarkParsed(r) ==
    /\ rpc[r] = "reading"
    /\ content[rupload[r]] \in Readable
    /\ status' = [status EXCEPT ![rupload[r]] = "parsed"]
    /\ GoesTo(r, "caching")
    /\ UNCHANGED <<objects, owner, content, cached, batches, faulted>>

\* ... and when its answer arrives the preview is kept for the user.
CachePreview(r) ==
    /\ rpc[r] = "caching"
    /\ cached' = cached \union {rupload[r]}
    /\ Ends(r)
    /\ UNCHANGED <<objects, owner, content, rowVars, faulted>>

\* SpreadsheetImportError: the row says why, and the client gets 422.
MarkFailed(r) ==
    /\ rpc[r] = "reading"
    /\ content[rupload[r]] \notin Readable
    /\ status' = [status EXCEPT ![rupload[r]] = "failed"]
    /\ Ends(r)
    /\ UNCHANGED <<objects, owner, content, cached, batches, faulted>>

-----------------------------------------------------------------------------
(* POST /imports/commit *)

\* Mutant: the cache does not compare the owner of a preview.
MayCommitOfAnyone(u, o) == u \in cached

\* ImportPreviewCache.get: the preview of u is there, not expired, and o's own.
MayCommit(u, o) == u \in cached /\ owner[u] = o

BeginCommit(r, u, o) ==
    /\ MayCommit(u, o)
    /\ Begins(r, "looking", u, o)
    /\ UNCHANGED <<objects, owner, content, cached, rowVars, faulted>>

\* The committed batches the unique key (owner, checksum, sheet) compares.
BatchesOf(o, c) ==
    {b \in DOMAIN batches : batches[b].owner = o /\ batches[b].content = c}

\* Mutant: the look-up of the batch does not compare the owner.
ImportedByAnyone(r) ==
    \E b \in DOMAIN batches : batches[b].content = content[rupload[r]]

Imported(r) == BatchesOf(ruser[r], content[rupload[r]]) # {}

LookUpBatch(r) ==
    /\ rpc[r] = "looking"
    /\ GoesTo(r, IF Imported(r) THEN "replaying" ELSE "inserting")
    /\ UNCHANGED <<objects, owner, content, cached, rowVars, faulted>>

\* The content was imported before: the upload of this preview is a duplicate.
MarkDuplicate(r) ==
    /\ rpc[r] = "replaying"
    /\ status' = [status EXCEPT ![rupload[r]] = "duplicate"]
    /\ GoesTo(r, "discarding")
    /\ UNCHANGED <<objects, owner, content, cached, batches, faulted>>

\* A request whose flushed batch has the key of r's: PostgreSQL makes r wait
\* for the end of that transaction.
SameKey(r, s) == ruser[r] = ruser[s] /\ content[rupload[r]] = content[rupload[s]]
\* Mutant: requests that are about to flush one content wait for one another.
AheadInserting(r) ==
    {s \in Requests \ {r} : rpc[s] \in {"inserting", "flushed"} /\ SameKey(r, s)}

Ahead(r) == {s \in Requests : rpc[s] = "flushed" /\ SameKey(r, s)}

\* Mutant: import_batches without its unique key.
FlushBatchUnkeyed(r) ==
    /\ rpc[r] = "inserting"
    /\ GoesTo(r, "flushed")
    /\ UNCHANGED <<objects, owner, content, cached, rowVars, faulted>>

FlushBatch(r) ==
    /\ rpc[r] = "inserting"
    /\ Ahead(r) = {} /\ ~Imported(r)
    /\ GoesTo(r, "flushed")
    /\ UNCHANGED <<objects, owner, content, cached, rowVars, faulted>>

\* IntegrityError: the other transaction committed first.
FlushRefused(r) ==
    /\ rpc[r] = "inserting"
    /\ Imported(r)
    /\ Ends(r)
    /\ UNCHANGED <<objects, owner, content, cached, rowVars, faulted>>

\* The instruments, the lots, the status of the upload and the job of the
\* spreadsheet are committed with the batch.
CommitBatch(r) ==
    /\ rpc[r] = "flushed"
    /\ batches' = Append(batches, [owner   |-> ruser[r],
                                   content |-> content[rupload[r]],
                                   upload  |-> rupload[r]])
    /\ status' = [status EXCEPT ![rupload[r]] = "imported"]
    /\ GoesTo(r, "discarding")
    /\ UNCHANGED <<objects, owner, content, cached, faulted>>

DiscardPreview(r) ==
    /\ rpc[r] = "discarding"
    /\ cached' = cached \ {rupload[r]}
    /\ Ends(r)
    /\ UNCHANGED <<objects, owner, content, rowVars, faulted>>

-----------------------------------------------------------------------------
(* What may happen to a request, to the cache and to the process *)

\* An exception of the database, of the reader or of the validation rolls the
\* open transaction back; after a commit it is the answer that is lost.
AbandonRequest(r) ==
    /\ rpc[r] \in Previewing \union Committing
    /\ Ends(r)
    /\ UNCHANGED <<objects, owner, content, cached, rowVars, faulted>>

PreviewExpires(u) ==
    /\ u \in cached
    /\ cached' = cached \ {u}
    /\ UNCHANGED <<objects, owner, content, rowVars, requestVars, faulted>>

\* The API process is replaced: its requests and the cache are gone.
RestartProcess ==
    /\ rpc' = [r \in Requests |-> "idle"]
    /\ rupload' = [r \in Requests |-> NoUpload]
    /\ ruser' = [r \in Requests |-> NoOwner]
    /\ cached' = {}
    /\ faulted' = faulted \union {rupload[r] : r \in {s \in Requests : rpc[s] \in Storing}}
    /\ UNCHANGED <<objects, owner, content, rowVars>>

PreviewStep(r) ==
    \/ PutObject(r) \/ PutRaises(r) \/ StoreRow(r) \/ StoreRaises(r)
    \/ Compensate(r) \/ CompensateRaises(r)
    \/ MarkParsed(r) \/ CachePreview(r) \/ MarkFailed(r)

CommitStep(r) ==
    \/ LookUpBatch(r) \/ MarkDuplicate(r) \/ FlushBatch(r) \/ FlushRefused(r)
    \/ CommitBatch(r) \/ DiscardPreview(r)

Next ==
    \/ \E r \in Requests, u \in Uploads, o \in Owners :
         \/ \E c \in Contents : BeginPreview(r, u, o, c)
         \/ BeginCommit(r, u, o)
    \/ \E r \in Requests : PreviewStep(r) \/ CommitStep(r) \/ AbandonRequest(r)
    \/ \E u \in Uploads : PreviewExpires(u)
    \/ RestartProcess

Spec == Init /\ [][Next]_vars

\* A request that has something to do, and is not waiting for another
\* transaction, goes on: the event loop and the database serve it.
Fairness == \A r \in Requests : WF_vars(PreviewStep(r) \/ CommitStep(r))

FairSpec == Spec /\ Fairness

-----------------------------------------------------------------------------
(* Properties *)

\* A content is imported at most once for a user, whatever requests of any
\* preview of it interleave: its lots are never doubled.
ImportedOnce ==
    \A a, b \in DOMAIN batches :
        (batches[a].owner = batches[b].owner /\ batches[a].content = batches[b].content)
            => (a = b)

\* A batch belongs to the user who sent its upload and has that upload's bytes;
\* the reader accepted them, and the upload tells that it was imported.
BatchesAreOwned ==
    \A b \in DOMAIN batches :
        LET u == batches[b].upload
        IN  /\ owner[u] = batches[b].owner
            /\ content[u] = batches[b].content
            /\ content[u] \in Readable
            /\ status[u] \in {"imported", "duplicate"}

\* Conversely the status of an upload can be accounted for by what is stored:
\* "imported" by its own batch, "duplicate" by a batch with the same bytes of
\* the same user, "failed" by its bytes.
StatusExplained ==
    \A u \in Uploads :
        /\ (status[u] = "imported") => \E b \in DOMAIN batches : batches[b].upload = u
        /\ (status[u] = "duplicate") => BatchesOf(owner[u], content[u]) # {}
        /\ (status[u] = "failed") => content[u] \notin Readable

\* Every row has its object, so a download finds the bytes.  The only exception
\* is a row whose commit looked like a failure: compensation removed the object.
RowsHaveObjects ==
    \A u \in Uploads :
        (status[u] # "absent") => \/ u \in objects
                                  \/ u \in faulted /\ status[u] = "uploaded"

\* An object without a row belongs to a request that is still storing it, or is
\* left over from an error or a restart: compensation leaves nothing behind.
OrphansComeFromFaults ==
    \A u \in objects :
        (status[u] = "absent") =>
            \/ u \in faulted
            \/ \E r \in Requests : rpc[r] \in Storing /\ rupload[r] = u

\* Every request ends: one that waits for the batch of another is served or
\* refused when the other commits or fails, unless batches that are ahead of it
\* are flushed and rolled back again and again for ever.
RollBack == \E s \in Requests : rpc[s] = "flushed" /\ rpc'[s] = "idle"

RequestsEnd ==
    <>[][~RollBack]_vars => \A r \in Requests : (rpc[r] # "idle") ~> (rpc[r] = "idle")

\* Requests, previews, storage and failures show their users no more than the ledger
\* of ImportLedger: a batch and its status are one step, and no status goes back.
Ledger == INSTANCE ImportLedger

ImplementsLedger == Ledger!LedgerSpec
=============================================================================
