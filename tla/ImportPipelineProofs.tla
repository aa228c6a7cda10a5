------------------------ MODULE ImportPipelineProofs ------------------------
(* Proofs about ImportPipeline: an import is never doubled, what rows say of *)
(* batches and objects is true.                                              *)
EXTENDS ImportPipeline, TLAPS

Busy     == Storing \union Previewing
Accepted == {"parsed", "imported", "duplicate"}

\* An upload nobody has sent yet leaves no trace.
UnsentIsBlank ==
    \A u \in Uploads : (owner[u] = NoOwner) =>
        status[u] = "absent" /\ u \notin objects /\ u \notin cached

\* A request works on an upload of its own user.
OwnUpload ==
    \A r \in Requests : (rpc[r] # "idle") =>
        /\ rupload[r] \in Uploads
        /\ ruser[r] \in Owners
        /\ owner[rupload[r]] = ruser[r]
        /\ content[rupload[r]] \in Contents

\* A request that stores or previews an upload is the only one at it, and no
\* preview of it is kept yet.
AloneAtUpload ==
    /\ \A r, s \in Requests :
         (rpc[r] \in Busy /\ rpc[s] # "idle" /\ rupload[r] = rupload[s]) => (r = s)
    /\ \A r \in Requests : (rpc[r] \in Busy) => (rupload[r] \notin cached)

\* What a request knows of its upload where it stands.
Phases ==
    \A r \in Requests :
        LET u == rupload[r]
        IN  /\ (rpc[r] \in {"putting", "storing"}) => (status[u] = "absent")
            /\ (rpc[r] \in {"storing", "compensating", "reading"}) => (u \in objects)
            /\ (rpc[r] = "compensating") =>
                 \/ status[u] = "absent"
                 \/ status[u] = "uploaded" /\ u \in faulted
            /\ (rpc[r] = "reading") => (status[u] = "uploaded")
            /\ (rpc[r] \in {"caching"} \union Committing) => (status[u] \in Accepted)

\* Only an accepted upload has a preview or a batch.
AcceptedIsReadable ==
    \A u \in Uploads : /\ (status[u] \in Accepted) => (content[u] \in Readable)
                       /\ (u \in cached) => (status[u] \in Accepted)

\* A flushed batch is the only one of its key; a replay has its batch.
KeysHeld ==
    \A r \in Requests :
        /\ (rpc[r] = "flushed") => ~Imported(r) /\ Ahead(r) = {r}
        /\ (rpc[r] = "replaying") => Imported(r)

IInv ==
    /\ TypeOK
    /\ UnsentIsBlank
    /\ OwnUpload
    /\ AloneAtUpload
    /\ Phases
    /\ AcceptedIsReadable
    /\ KeysHeld
    /\ ImportedOnce
    /\ BatchesAreOwned
    /\ StatusExplained
    /\ RowsHaveObjects
    /\ OrphansComeFromFaults

-----------------------------------------------------------------------------
\* The rows of import_batches have the fields of a batch.
LEMMA BatchFields ==
    ASSUME IInv, NEW b \in DOMAIN batches
    PROVE  /\ batches[b] \in Batches
           /\ batches[b].owner \in Owners
           /\ batches[b].content \in Contents
           /\ batches[b].upload \in Uploads
  <1>1. batches \in Seq(Batches)
    BY DEF IInv, TypeOK
  <1>2. batches[b] \in Batches
    BY <1>1
  <1> QED
    BY <1>2 DEF Batches

\* A committed batch is appended to those there are.
LEMMA BatchAppended ==
    ASSUME IInv, NEW r \in Requests, CommitBatch(r)
    PROVE  \E n : /\ n \notin DOMAIN batches
                  /\ DOMAIN batches' = DOMAIN batches \union {n}
                  /\ batches'[n].owner = ruser[r]
                  /\ batches'[n].content = content[rupload[r]]
                  /\ batches'[n].upload = rupload[r]
                  /\ \A b \in DOMAIN batches : batches'[b] = batches[b]
  <1> DEFINE new == [owner |-> ruser[r], content |-> content[rupload[r]], upload |-> rupload[r]]
             n   == Len(batches) + 1
  <1>1. batches \in Seq(Batches)
    BY DEF IInv, TypeOK
  <1>2. new \in Batches
    BY DEF IInv, OwnUpload, CommitBatch, Batches
  <1>3. batches' = Append(batches, new)
    BY DEF CommitBatch
  <1>4. new.owner = ruser[r] /\ new.content = content[rupload[r]] /\ new.upload = rupload[r]
    OBVIOUS
  <1> HIDE DEF new
  <1>5. /\ n \notin DOMAIN batches
        /\ DOMAIN batches' = DOMAIN batches \union {n}
        /\ batches'[n] = new
        /\ \A b \in DOMAIN batches : batches'[b] = batches[b]
    BY <1>1, <1>2, <1>3
  <1> QED
    BY <1>4, <1>5

\* The id uuid4 draws has no row, no batch and no request.
LEMMA FreshUpload ==
    ASSUME IInv, NEW u \in Uploads, owner[u] = NoOwner
    PROVE  /\ status[u] = "absent"
           /\ \A s \in Requests : (rpc[s] # "idle") => (rupload[s] # u)
           /\ \A b \in DOMAIN batches : batches[b].upload # u
  BY NobodyAssumption, BatchFields DEF IInv, UnsentIsBlank, OwnUpload, BatchesAreOwned

-----------------------------------------------------------------------------
\* The empty tables satisfy the invariant.
LEMMA InitIInv == Init => IInv
  <1> SUFFICES ASSUME Init PROVE IInv
    OBVIOUS
  <1> USE DEF Init
  <1>1. TypeOK
    BY DEF TypeOK, Statuses
  <1>2. UnsentIsBlank /\ OwnUpload /\ AloneAtUpload /\ Phases
    BY DEF UnsentIsBlank, OwnUpload, AloneAtUpload, Phases, Busy, Storing, Previewing, Committing
  <1>3. AcceptedIsReadable /\ KeysHeld
    BY DEF AcceptedIsReadable, Accepted, KeysHeld
  <1>4. ImportedOnce /\ BatchesAreOwned
    BY DEF ImportedOnce, BatchesAreOwned
  <1>5. StatusExplained /\ RowsHaveObjects /\ OrphansComeFromFaults
    BY DEF StatusExplained, RowsHaveObjects, OrphansComeFromFaults
  <1> QED
    BY <1>1, <1>2, <1>3, <1>4, <1>5 DEF IInv

\* Every step keeps the types.
LEMMA NextType == IInv /\ [Next]_vars => TypeOK'
  <1> SUFFICES ASSUME IInv, [Next]_vars PROVE TypeOK'
    OBVIOUS
  <1> USE DEF IInv, TypeOK, OwnUpload, Statuses, Batches, rowVars, requestVars, Storing, Previewing, Committing
  <1>1. ASSUME NEW r \in Requests, NEW u \in Uploads, NEW o \in Owners, NEW c \in Contents,
              BeginPreview(r, u, o, c)
       PROVE  TypeOK'
    BY <1>1 DEF BeginPreview, Begins
  <1>2. ASSUME NEW r \in Requests, NEW u \in Uploads, NEW o \in Owners, BeginCommit(r, u, o)
       PROVE  TypeOK'
    BY <1>2 DEF BeginCommit, Begins, MayCommit
  <1>3. ASSUME NEW r \in Requests, PutObject(r) PROVE TypeOK'
    BY <1>3 DEF PutObject, GoesTo
  <1>4. ASSUME NEW r \in Requests, PutRaises(r) PROVE TypeOK'
    BY <1>4 DEF PutRaises, Ends
  <1>5. ASSUME NEW r \in Requests, StoreRow(r) PROVE TypeOK'
    BY <1>5 DEF StoreRow, GoesTo
  <1>6. ASSUME NEW r \in Requests, StoreRaises(r) PROVE TypeOK'
    BY <1>6 DEF StoreRaises, GoesTo
  <1>7. ASSUME NEW r \in Requests, Compensate(r) PROVE TypeOK'
    BY <1>7 DEF Compensate, Ends
  <1>8. ASSUME NEW r \in Requests, CompensateRaises(r) PROVE TypeOK'
    BY <1>8 DEF CompensateRaises, Ends
  <1>9. ASSUME NEW r \in Requests, MarkParsed(r) PROVE TypeOK'
    BY <1>9 DEF MarkParsed, GoesTo
  <1>10. ASSUME NEW r \in Requests, CachePreview(r) PROVE TypeOK'
    BY <1>10 DEF CachePreview, Ends
  <1>11. ASSUME NEW r \in Requests, MarkFailed(r) PROVE TypeOK'
    BY <1>11 DEF MarkFailed, Ends
  <1>12. ASSUME NEW r \in Requests, LookUpBatch(r) PROVE TypeOK'
    BY <1>12 DEF LookUpBatch, GoesTo
  <1>13. ASSUME NEW r \in Requests, MarkDuplicate(r) PROVE TypeOK'
    BY <1>13 DEF MarkDuplicate, GoesTo
  <1>14. ASSUME NEW r \in Requests, FlushBatch(r) PROVE TypeOK'
    BY <1>14 DEF FlushBatch, GoesTo
  <1>15. ASSUME NEW r \in Requests, FlushRefused(r) PROVE TypeOK'
    BY <1>15 DEF FlushRefused, Ends
  <1>16. ASSUME NEW r \in Requests, CommitBatch(r) PROVE TypeOK'
    BY <1>16 DEF CommitBatch, GoesTo
  <1>17. ASSUME NEW r \in Requests, DiscardPreview(r) PROVE TypeOK'
    BY <1>17 DEF DiscardPreview, Ends
  <1>18. ASSUME NEW r \in Requests, AbandonRequest(r) PROVE TypeOK'
    BY <1>18 DEF AbandonRequest, Ends
  <1>19. ASSUME NEW u \in Uploads, PreviewExpires(u) PROVE TypeOK'
    BY <1>19 DEF PreviewExpires
  <1>20. ASSUME RestartProcess PROVE TypeOK'
    BY <1>20 DEF RestartProcess
  <1>21. ASSUME UNCHANGED vars PROVE TypeOK'
    BY <1>21 DEF vars
  <1> QED
    BY <1>1, <1>2, <1>3, <1>4, <1>5, <1>6, <1>7, <1>8, <1>9, <1>10, <1>11,
       <1>12, <1>13, <1>14, <1>15, <1>16, <1>17, <1>18, <1>19, <1>20, <1>21
    DEF Next, PreviewStep, CommitStep

\* A request only touches uploads that have been sent.
LEMMA NextUnsent == IInv /\ [Next]_vars => UnsentIsBlank'
  <1> SUFFICES ASSUME IInv, [Next]_vars PROVE UnsentIsBlank'
    OBVIOUS
  <1> USE DEF IInv, TypeOK, UnsentIsBlank, OwnUpload, rowVars, requestVars, Storing, Previewing, Committing
  <1>1. ASSUME NEW r \in Requests, NEW u \in Uploads, NEW o \in Owners, NEW c \in Contents,
              BeginPreview(r, u, o, c)
       PROVE  UnsentIsBlank'
    BY NobodyAssumption, <1>1 DEF BeginPreview, Begins
  <1>2. ASSUME NEW r \in Requests, NEW u \in Uploads, NEW o \in Owners, BeginCommit(r, u, o)
       PROVE  UnsentIsBlank'
    BY NobodyAssumption, <1>2 DEF BeginCommit, Begins, MayCommit
  <1>3. ASSUME NEW r \in Requests, PutObject(r) PROVE UnsentIsBlank'
    BY NobodyAssumption, <1>3 DEF PutObject, GoesTo
  <1>4. ASSUME NEW r \in Requests, PutRaises(r) PROVE UnsentIsBlank'
    BY NobodyAssumption, <1>4 DEF PutRaises, Ends
  <1>5. ASSUME NEW r \in Requests, StoreRow(r) PROVE UnsentIsBlank'
    BY NobodyAssumption, <1>5 DEF StoreRow, GoesTo
  <1>6. ASSUME NEW r \in Requests, StoreRaises(r) PROVE UnsentIsBlank'
    BY NobodyAssumption, <1>6 DEF StoreRaises, GoesTo
  <1>7. ASSUME NEW r \in Requests, Compensate(r) PROVE UnsentIsBlank'
    BY NobodyAssumption, <1>7 DEF Compensate, Ends
  <1>8. ASSUME NEW r \in Requests, CompensateRaises(r) PROVE UnsentIsBlank'
    BY NobodyAssumption, <1>8 DEF CompensateRaises, Ends
  <1>9. ASSUME NEW r \in Requests, MarkParsed(r) PROVE UnsentIsBlank'
    BY NobodyAssumption, <1>9 DEF MarkParsed, GoesTo
  <1>10. ASSUME NEW r \in Requests, CachePreview(r) PROVE UnsentIsBlank'
    BY NobodyAssumption, <1>10 DEF CachePreview, Ends
  <1>11. ASSUME NEW r \in Requests, MarkFailed(r) PROVE UnsentIsBlank'
    BY NobodyAssumption, <1>11 DEF MarkFailed, Ends
  <1>12. ASSUME NEW r \in Requests, LookUpBatch(r) PROVE UnsentIsBlank'
    BY NobodyAssumption, <1>12 DEF LookUpBatch, GoesTo
  <1>13. ASSUME NEW r \in Requests, MarkDuplicate(r) PROVE UnsentIsBlank'
    BY NobodyAssumption, <1>13 DEF MarkDuplicate, GoesTo
  <1>14. ASSUME NEW r \in Requests, FlushBatch(r) PROVE UnsentIsBlank'
    BY NobodyAssumption, <1>14 DEF FlushBatch, GoesTo
  <1>15. ASSUME NEW r \in Requests, FlushRefused(r) PROVE UnsentIsBlank'
    BY NobodyAssumption, <1>15 DEF FlushRefused, Ends
  <1>16. ASSUME NEW r \in Requests, CommitBatch(r) PROVE UnsentIsBlank'
    BY NobodyAssumption, <1>16 DEF CommitBatch, GoesTo
  <1>17. ASSUME NEW r \in Requests, DiscardPreview(r) PROVE UnsentIsBlank'
    BY NobodyAssumption, <1>17 DEF DiscardPreview, Ends
  <1>18. ASSUME NEW r \in Requests, AbandonRequest(r) PROVE UnsentIsBlank'
    BY NobodyAssumption, <1>18 DEF AbandonRequest, Ends
  <1>19. ASSUME NEW u \in Uploads, PreviewExpires(u) PROVE UnsentIsBlank'
    BY NobodyAssumption, <1>19 DEF PreviewExpires
  <1>20. ASSUME RestartProcess PROVE UnsentIsBlank'
    BY NobodyAssumption, <1>20 DEF RestartProcess
  <1>21. ASSUME UNCHANGED vars PROVE UnsentIsBlank'
    BY NobodyAssumption, <1>21 DEF vars
  <1> QED
    BY <1>1, <1>2, <1>3, <1>4, <1>5, <1>6, <1>7, <1>8, <1>9, <1>10, <1>11,
       <1>12, <1>13, <1>14, <1>15, <1>16, <1>17, <1>18, <1>19, <1>20, <1>21
    DEF Next, PreviewStep, CommitStep

\* Every step leaves requests at uploads of their users.
LEMMA NextOwn == IInv /\ [Next]_vars => OwnUpload'
  <1> SUFFICES ASSUME IInv, [Next]_vars PROVE OwnUpload'
    OBVIOUS
  <1> USE DEF IInv, TypeOK, UnsentIsBlank, OwnUpload, Accepted, AcceptedIsReadable, rowVars, requestVars, Storing, Previewing, Committing
  <1>1. ASSUME NEW r \in Requests, NEW u \in Uploads, NEW o \in Owners, NEW c \in Contents,
              BeginPreview(r, u, o, c)
       PROVE  OwnUpload'
    BY NobodyAssumption, ReadableAssumption, <1>1 DEF BeginPreview, Begins
  <1>2. ASSUME NEW r \in Requests, NEW u \in Uploads, NEW o \in Owners, BeginCommit(r, u, o)
       PROVE  OwnUpload'
    BY NobodyAssumption, ReadableAssumption, <1>2 DEF BeginCommit, Begins, MayCommit
  <1>3. ASSUME NEW r \in Requests, PutObject(r) PROVE OwnUpload'
    BY NobodyAssumption, ReadableAssumption, <1>3 DEF PutObject, GoesTo
  <1>4. ASSUME NEW r \in Requests, PutRaises(r) PROVE OwnUpload'
    BY NobodyAssumption, ReadableAssumption, <1>4 DEF PutRaises, Ends
  <1>5. ASSUME NEW r \in Requests, StoreRow(r) PROVE OwnUpload'
    BY NobodyAssumption, ReadableAssumption, <1>5 DEF StoreRow, GoesTo
  <1>6. ASSUME NEW r \in Requests, StoreRaises(r) PROVE OwnUpload'
    BY NobodyAssumption, ReadableAssumption, <1>6 DEF StoreRaises, GoesTo
  <1>7. ASSUME NEW r \in Requests, Compensate(r) PROVE OwnUpload'
    BY NobodyAssumption, ReadableAssumption, <1>7 DEF Compensate, Ends
  <1>8. ASSUME NEW r \in Requests, CompensateRaises(r) PROVE OwnUpload'
    BY NobodyAssumption, ReadableAssumption, <1>8 DEF CompensateRaises, Ends
  <1>9. ASSUME NEW r \in Requests, MarkParsed(r) PROVE OwnUpload'
    BY NobodyAssumption, ReadableAssumption, <1>9 DEF MarkParsed, GoesTo
  <1>10. ASSUME NEW r \in Requests, CachePreview(r) PROVE OwnUpload'
    BY NobodyAssumption, ReadableAssumption, <1>10 DEF CachePreview, Ends
  <1>11. ASSUME NEW r \in Requests, MarkFailed(r) PROVE OwnUpload'
    BY NobodyAssumption, ReadableAssumption, <1>11 DEF MarkFailed, Ends
  <1>12. ASSUME NEW r \in Requests, LookUpBatch(r) PROVE OwnUpload'
    BY NobodyAssumption, ReadableAssumption, <1>12 DEF LookUpBatch, GoesTo
  <1>13. ASSUME NEW r \in Requests, MarkDuplicate(r) PROVE OwnUpload'
    BY NobodyAssumption, ReadableAssumption, <1>13 DEF MarkDuplicate, GoesTo
  <1>14. ASSUME NEW r \in Requests, FlushBatch(r) PROVE OwnUpload'
    BY NobodyAssumption, ReadableAssumption, <1>14 DEF FlushBatch, GoesTo
  <1>15. ASSUME NEW r \in Requests, FlushRefused(r) PROVE OwnUpload'
    BY NobodyAssumption, ReadableAssumption, <1>15 DEF FlushRefused, Ends
  <1>16. ASSUME NEW r \in Requests, CommitBatch(r) PROVE OwnUpload'
    BY NobodyAssumption, ReadableAssumption, <1>16 DEF CommitBatch, GoesTo
  <1>17. ASSUME NEW r \in Requests, DiscardPreview(r) PROVE OwnUpload'
    BY NobodyAssumption, ReadableAssumption, <1>17 DEF DiscardPreview, Ends
  <1>18. ASSUME NEW r \in Requests, AbandonRequest(r) PROVE OwnUpload'
    BY NobodyAssumption, ReadableAssumption, <1>18 DEF AbandonRequest, Ends
  <1>19. ASSUME NEW u \in Uploads, PreviewExpires(u) PROVE OwnUpload'
    BY NobodyAssumption, ReadableAssumption, <1>19 DEF PreviewExpires
  <1>20. ASSUME RestartProcess PROVE OwnUpload'
    BY NobodyAssumption, ReadableAssumption, <1>20 DEF RestartProcess
  <1>21. ASSUME UNCHANGED vars PROVE OwnUpload'
    BY NobodyAssumption, ReadableAssumption, <1>21 DEF vars
  <1> QED
    BY <1>1, <1>2, <1>3, <1>4, <1>5, <1>6, <1>7, <1>8, <1>9, <1>10, <1>11,
       <1>12, <1>13, <1>14, <1>15, <1>16, <1>17, <1>18, <1>19, <1>20, <1>21
    DEF Next, PreviewStep, CommitStep

\* Nobody comes to an upload while it is stored and previewed.
LEMMA NextAlone == IInv /\ [Next]_vars => AloneAtUpload'
  <1> SUFFICES ASSUME IInv, [Next]_vars PROVE AloneAtUpload'
    OBVIOUS
  <1> USE DEF IInv, TypeOK, UnsentIsBlank, OwnUpload, AloneAtUpload, Busy, rowVars, requestVars, Storing, Previewing, Committing
  <1>1. ASSUME NEW r \in Requests, NEW u \in Uploads, NEW o \in Owners, NEW c \in Contents,
              BeginPreview(r, u, o, c)
       PROVE  AloneAtUpload'
    BY NobodyAssumption, <1>1 DEF BeginPreview, Begins
  <1>2. ASSUME NEW r \in Requests, NEW u \in Uploads, NEW o \in Owners, BeginCommit(r, u, o)
       PROVE  AloneAtUpload'
    BY NobodyAssumption, <1>2 DEF BeginCommit, Begins, MayCommit
  <1>3. ASSUME NEW r \in Requests, PutObject(r) PROVE AloneAtUpload'
    BY NobodyAssumption, <1>3 DEF PutObject, GoesTo
  <1>4. ASSUME NEW r \in Requests, PutRaises(r) PROVE AloneAtUpload'
    BY NobodyAssumption, <1>4 DEF PutRaises, Ends
  <1>5. ASSUME NEW r \in Requests, StoreRow(r) PROVE AloneAtUpload'
    BY NobodyAssumption, <1>5 DEF StoreRow, GoesTo
  <1>6. ASSUME NEW r \in Requests, StoreRaises(r) PROVE AloneAtUpload'
    BY NobodyAssumption, <1>6 DEF StoreRaises, GoesTo
  <1>7. ASSUME NEW r \in Requests, Compensate(r) PROVE AloneAtUpload'
    BY NobodyAssumption, <1>7 DEF Compensate, Ends
  <1>8. ASSUME NEW r \in Requests, CompensateRaises(r) PROVE AloneAtUpload'
    BY NobodyAssumption, <1>8 DEF CompensateRaises, Ends
  <1>9. ASSUME NEW r \in Requests, MarkParsed(r) PROVE AloneAtUpload'
    BY NobodyAssumption, <1>9 DEF MarkParsed, GoesTo
  <1>10. ASSUME NEW r \in Requests, CachePreview(r) PROVE AloneAtUpload'
    BY NobodyAssumption, <1>10 DEF CachePreview, Ends
  <1>11. ASSUME NEW r \in Requests, MarkFailed(r) PROVE AloneAtUpload'
    BY NobodyAssumption, <1>11 DEF MarkFailed, Ends
  <1>12. ASSUME NEW r \in Requests, LookUpBatch(r) PROVE AloneAtUpload'
    BY NobodyAssumption, <1>12 DEF LookUpBatch, GoesTo
  <1>13. ASSUME NEW r \in Requests, MarkDuplicate(r) PROVE AloneAtUpload'
    BY NobodyAssumption, <1>13 DEF MarkDuplicate, GoesTo
  <1>14. ASSUME NEW r \in Requests, FlushBatch(r) PROVE AloneAtUpload'
    BY NobodyAssumption, <1>14 DEF FlushBatch, GoesTo
  <1>15. ASSUME NEW r \in Requests, FlushRefused(r) PROVE AloneAtUpload'
    BY NobodyAssumption, <1>15 DEF FlushRefused, Ends
  <1>16. ASSUME NEW r \in Requests, CommitBatch(r) PROVE AloneAtUpload'
    BY NobodyAssumption, <1>16 DEF CommitBatch, GoesTo
  <1>17. ASSUME NEW r \in Requests, DiscardPreview(r) PROVE AloneAtUpload'
    BY NobodyAssumption, <1>17 DEF DiscardPreview, Ends
  <1>18. ASSUME NEW r \in Requests, AbandonRequest(r) PROVE AloneAtUpload'
    BY NobodyAssumption, <1>18 DEF AbandonRequest, Ends
  <1>19. ASSUME NEW u \in Uploads, PreviewExpires(u) PROVE AloneAtUpload'
    BY NobodyAssumption, <1>19 DEF PreviewExpires
  <1>20. ASSUME RestartProcess PROVE AloneAtUpload'
    BY NobodyAssumption, <1>20 DEF RestartProcess
  <1>21. ASSUME UNCHANGED vars PROVE AloneAtUpload'
    BY NobodyAssumption, <1>21 DEF vars
  <1> QED
    BY <1>1, <1>2, <1>3, <1>4, <1>5, <1>6, <1>7, <1>8, <1>9, <1>10, <1>11,
       <1>12, <1>13, <1>14, <1>15, <1>16, <1>17, <1>18, <1>19, <1>20, <1>21
    DEF Next, PreviewStep, CommitStep

\* Every step takes a request from one phase to the next.
LEMMA NextPhases == IInv /\ [Next]_vars => Phases'
  <1> SUFFICES ASSUME IInv, [Next]_vars PROVE Phases'
    OBVIOUS
  <1> USE DEF IInv, TypeOK, UnsentIsBlank, OwnUpload, AloneAtUpload, Busy, Phases, Accepted, AcceptedIsReadable, rowVars, requestVars, Storing, Previewing, Committing
  <1>1. ASSUME NEW r \in Requests, NEW u \in Uploads, NEW o \in Owners, NEW c \in Contents,
              BeginPreview(r, u, o, c)
       PROVE  Phases'
    BY <1>1 DEF BeginPreview, Begins
  <1>2. ASSUME NEW r \in Requests, NEW u \in Uploads, NEW o \in Owners, BeginCommit(r, u, o)
       PROVE  Phases'
    BY <1>2 DEF BeginCommit, Begins, MayCommit
  <1>3. ASSUME NEW r \in Requests, PutObject(r) PROVE Phases'
    BY <1>3 DEF PutObject, GoesTo
  <1>4. ASSUME NEW r \in Requests, PutRaises(r) PROVE Phases'
    BY <1>4 DEF PutRaises, Ends
  <1>5. ASSUME NEW r \in Requests, StoreRow(r) PROVE Phases'
    BY <1>5 DEF StoreRow, GoesTo
  <1>6. ASSUME NEW r \in Requests, StoreRaises(r) PROVE Phases'
    BY <1>6 DEF StoreRaises, GoesTo
  <1>7. ASSUME NEW r \in Requests, Compensate(r) PROVE Phases'
    BY <1>7 DEF Compensate, Ends
  <1>8. ASSUME NEW r \in Requests, CompensateRaises(r) PROVE Phases'
    BY <1>8 DEF CompensateRaises, Ends
  <1>9. ASSUME NEW r \in Requests, MarkParsed(r) PROVE Phases'
    BY <1>9 DEF MarkParsed, GoesTo
  <1>10. ASSUME NEW r \in Requests, CachePreview(r) PROVE Phases'
    BY <1>10 DEF CachePreview, Ends
  <1>11. ASSUME NEW r \in Requests, MarkFailed(r) PROVE Phases'
    BY <1>11 DEF MarkFailed, Ends
  <1>12. ASSUME NEW r \in Requests, LookUpBatch(r) PROVE Phases'
    BY <1>12 DEF LookUpBatch, GoesTo
  <1>13. ASSUME NEW r \in Requests, MarkDuplicate(r) PROVE Phases'
    BY <1>13 DEF MarkDuplicate, GoesTo
  <1>14. ASSUME NEW r \in Requests, FlushBatch(r) PROVE Phases'
    BY <1>14 DEF FlushBatch, GoesTo
  <1>15. ASSUME NEW r \in Requests, FlushRefused(r) PROVE Phases'
    BY <1>15 DEF FlushRefused, Ends
  <1>16. ASSUME NEW r \in Requests, CommitBatch(r) PROVE Phases'
    BY <1>16 DEF CommitBatch, GoesTo
  <1>17. ASSUME NEW r \in Requests, DiscardPreview(r) PROVE Phases'
    BY <1>17 DEF DiscardPreview, Ends
  <1>18. ASSUME NEW r \in Requests, AbandonRequest(r) PROVE Phases'
    BY <1>18 DEF AbandonRequest, Ends
  <1>19. ASSUME NEW u \in Uploads, PreviewExpires(u) PROVE Phases'
    BY <1>19 DEF PreviewExpires
  <1>20. ASSUME RestartProcess PROVE Phases'
    BY <1>20 DEF RestartProcess
  <1>21. ASSUME UNCHANGED vars PROVE Phases'
    BY <1>21 DEF vars
  <1> QED
    BY <1>1, <1>2, <1>3, <1>4, <1>5, <1>6, <1>7, <1>8, <1>9, <1>10, <1>11,
       <1>12, <1>13, <1>14, <1>15, <1>16, <1>17, <1>18, <1>19, <1>20, <1>21
    DEF Next, PreviewStep, CommitStep

\* Only mark_parsed accepts an upload, and only then a preview is kept.
LEMMA NextAccepted == IInv /\ [Next]_vars => AcceptedIsReadable'
  <1> SUFFICES ASSUME IInv, [Next]_vars PROVE AcceptedIsReadable'
    OBVIOUS
  <1> USE DEF IInv, TypeOK, UnsentIsBlank, OwnUpload, AloneAtUpload, Busy, Phases, Accepted, AcceptedIsReadable, rowVars, requestVars, Storing, Previewing, Committing
  <1>1. ASSUME NEW r \in Requests, NEW u \in Uploads, NEW o \in Owners, NEW c \in Contents,
              BeginPreview(r, u, o, c)
       PROVE  AcceptedIsReadable'
    BY <1>1 DEF BeginPreview, Begins
  <1>2. ASSUME NEW r \in Requests, NEW u \in Uploads, NEW o \in Owners, BeginCommit(r, u, o)
       PROVE  AcceptedIsReadable'
    BY <1>2 DEF BeginCommit, Begins, MayCommit
  <1>3. ASSUME NEW r \in Requests, PutObject(r) PROVE AcceptedIsReadable'
    BY <1>3 DEF PutObject, GoesTo
  <1>4. ASSUME NEW r \in Requests, PutRaises(r) PROVE AcceptedIsReadable'
    BY <1>4 DEF PutRaises, Ends
  <1>5. ASSUME NEW r \in Requests, StoreRow(r) PROVE AcceptedIsReadable'
    BY <1>5 DEF StoreRow, GoesTo
  <1>6. ASSUME NEW r \in Requests, StoreRaises(r) PROVE AcceptedIsReadable'
    BY <1>6 DEF StoreRaises, GoesTo
  <1>7. ASSUME NEW r \in Requests, Compensate(r) PROVE AcceptedIsReadable'
    BY <1>7 DEF Compensate, Ends
  <1>8. ASSUME NEW r \in Requests, CompensateRaises(r) PROVE AcceptedIsReadable'
    BY <1>8 DEF CompensateRaises, Ends
  <1>9. ASSUME NEW r \in Requests, MarkParsed(r) PROVE AcceptedIsReadable'
    BY <1>9 DEF MarkParsed, GoesTo
  <1>10. ASSUME NEW r \in Requests, CachePreview(r) PROVE AcceptedIsReadable'
    BY <1>10 DEF CachePreview, Ends
  <1>11. ASSUME NEW r \in Requests, MarkFailed(r) PROVE AcceptedIsReadable'
    BY <1>11 DEF MarkFailed, Ends
  <1>12. ASSUME NEW r \in Requests, LookUpBatch(r) PROVE AcceptedIsReadable'
    BY <1>12 DEF LookUpBatch, GoesTo
  <1>13. ASSUME NEW r \in Requests, MarkDuplicate(r) PROVE AcceptedIsReadable'
    BY <1>13 DEF MarkDuplicate, GoesTo
  <1>14. ASSUME NEW r \in Requests, FlushBatch(r) PROVE AcceptedIsReadable'
    BY <1>14 DEF FlushBatch, GoesTo
  <1>15. ASSUME NEW r \in Requests, FlushRefused(r) PROVE AcceptedIsReadable'
    BY <1>15 DEF FlushRefused, Ends
  <1>16. ASSUME NEW r \in Requests, CommitBatch(r) PROVE AcceptedIsReadable'
    BY <1>16 DEF CommitBatch, GoesTo
  <1>17. ASSUME NEW r \in Requests, DiscardPreview(r) PROVE AcceptedIsReadable'
    BY <1>17 DEF DiscardPreview, Ends
  <1>18. ASSUME NEW r \in Requests, AbandonRequest(r) PROVE AcceptedIsReadable'
    BY <1>18 DEF AbandonRequest, Ends
  <1>19. ASSUME NEW u \in Uploads, PreviewExpires(u) PROVE AcceptedIsReadable'
    BY <1>19 DEF PreviewExpires
  <1>20. ASSUME RestartProcess PROVE AcceptedIsReadable'
    BY <1>20 DEF RestartProcess
  <1>21. ASSUME UNCHANGED vars PROVE AcceptedIsReadable'
    BY <1>21 DEF vars
  <1> QED
    BY <1>1, <1>2, <1>3, <1>4, <1>5, <1>6, <1>7, <1>8, <1>9, <1>10, <1>11,
       <1>12, <1>13, <1>14, <1>15, <1>16, <1>17, <1>18, <1>19, <1>20, <1>21
    DEF Next, PreviewStep, CommitStep

\* The unique key: a second flush waits or is refused.
LEMMA NextKeys == IInv /\ [Next]_vars => KeysHeld'
  <1> SUFFICES ASSUME IInv, [Next]_vars PROVE KeysHeld'
    OBVIOUS
  <1>1. ASSUME NEW r \in Requests, NEW u \in Uploads, NEW o \in Owners, NEW c \in Contents,
              BeginPreview(r, u, o, c)
       PROVE  KeysHeld'
    <2>1. \A s \in Requests : (rpc'[s] \in Committing) =>
            /\ rpc[s] = rpc'[s] /\ rupload'[s] = rupload[s] /\ ruser'[s] = ruser[s]
            /\ content'[rupload[s]] = content[rupload[s]]
      BY <1>1, FreshUpload DEF BeginPreview, Begins, IInv, TypeOK, OwnUpload, Committing
    <2>2. UNCHANGED batches /\ KeysHeld
      BY <1>1 DEF BeginPreview, rowVars, IInv
    <2>3. \A s \in Requests : (rpc'[s] \in Committing) => (Imported(s)' <=> Imported(s))
      BY <2>1, <2>2 DEF Imported, BatchesOf
    <2>4. \A s \in Requests : (rpc'[s] = "flushed") => (Ahead(s)' = Ahead(s))
      BY <2>1, <1>1 DEF Ahead, SameKey, Committing, BeginPreview, Begins, IInv, TypeOK
    <2> QED
      BY <2>1, <2>2, <2>3, <2>4 DEF KeysHeld, Committing
  <1>2. ASSUME NEW r \in Requests, CommitBatch(r) PROVE KeysHeld'
    <2> PICK n : /\ n \notin DOMAIN batches
                 /\ DOMAIN batches' = DOMAIN batches \union {n}
                 /\ batches'[n].owner = ruser[r]
                 /\ batches'[n].content = content[rupload[r]]
                 /\ batches'[n].upload = rupload[r]
                 /\ \A b \in DOMAIN batches : batches'[b] = batches[b]
      BY <1>2, BatchAppended
    <2>1. /\ \A s \in Requests \ {r} : rpc'[s] = rpc[s]
          /\ rpc[r] = "flushed" /\ rpc'[r] = "discarding"
          /\ UNCHANGED <<rupload, ruser, content>>
      BY <1>2 DEF CommitBatch, GoesTo, IInv, TypeOK
    <2>2. KeysHeld
      BY DEF IInv
    <2>3. \A s \in Requests : Imported(s) => Imported(s)'
      BY <1>2, <2>1 DEF Imported, BatchesOf
    <2>4. ASSUME NEW s \in Requests, rpc'[s] = "flushed"
          PROVE  ~Imported(s)' /\ Ahead(s)' = {s}
      <3>1. s # r /\ rpc[s] = "flushed"
        BY <2>1, <2>4
      <3>2. ~Imported(s) /\ Ahead(s) = {s}
        BY <2>2, <3>1 DEF KeysHeld
      <3>3. ~SameKey(r, s)
        BY <2>1, <3>1, <3>2 DEF Ahead, SameKey
      <3>4. ~Imported(s)'
        BY <1>2, <2>1, <3>2, <3>3 DEF Imported, BatchesOf, SameKey
      <3>5. Ahead(s)' = {s}
        BY <2>1, <3>1, <3>2 DEF Ahead, SameKey
      <3> QED
        BY <3>4, <3>5
    <2> QED
      BY <2>1, <2>2, <2>3, <2>4 DEF KeysHeld
  <1> USE DEF IInv, TypeOK, OwnUpload, KeysHeld, Imported, Ahead, SameKey, BatchesOf, rowVars, requestVars, Storing, Previewing, Committing
  <1>3. ASSUME NEW r \in Requests, NEW u \in Uploads, NEW o \in Owners, BeginCommit(r, u, o)
       PROVE  KeysHeld'
    BY <1>3 DEF BeginCommit, Begins, MayCommit
  <1>4. ASSUME NEW r \in Requests, PutObject(r) PROVE KeysHeld'
    BY <1>4 DEF PutObject, GoesTo
  <1>5. ASSUME NEW r \in Requests, PutRaises(r) PROVE KeysHeld'
    BY <1>5 DEF PutRaises, Ends
  <1>6. ASSUME NEW r \in Requests, StoreRow(r) PROVE KeysHeld'
    BY <1>6 DEF StoreRow, GoesTo
  <1>7. ASSUME NEW r \in Requests, StoreRaises(r) PROVE KeysHeld'
    BY <1>7 DEF StoreRaises, GoesTo
  <1>8. ASSUME NEW r \in Requests, Compensate(r) PROVE KeysHeld'
    BY <1>8 DEF Compensate, Ends
  <1>9. ASSUME NEW r \in Requests, CompensateRaises(r) PROVE KeysHeld'
    BY <1>9 DEF CompensateRaises, Ends
  <1>10. ASSUME NEW r \in Requests, MarkParsed(r) PROVE KeysHeld'
    BY <1>10 DEF MarkParsed, GoesTo
  <1>11. ASSUME NEW r \in Requests, CachePreview(r) PROVE KeysHeld'
    BY <1>11 DEF CachePreview, Ends
  <1>12. ASSUME NEW r \in Requests, MarkFailed(r) PROVE KeysHeld'
    BY <1>12 DEF MarkFailed, Ends
  <1>13. ASSUME NEW r \in Requests, LookUpBatch(r) PROVE KeysHeld'
    BY <1>13 DEF LookUpBatch, GoesTo
  <1>14. ASSUME NEW r \in Requests, MarkDuplicate(r) PROVE KeysHeld'
    BY <1>14 DEF MarkDuplicate, GoesTo
  <1>15. ASSUME NEW r \in Requests, FlushBatch(r) PROVE KeysHeld'
    BY <1>15 DEF FlushBatch, GoesTo
  <1>16. ASSUME NEW r \in Requests, FlushRefused(r) PROVE KeysHeld'
    BY <1>16 DEF FlushRefused, Ends
  <1>17. ASSUME NEW r \in Requests, DiscardPreview(r) PROVE KeysHeld'
    BY <1>17 DEF DiscardPreview, Ends
  <1>18. ASSUME NEW r \in Requests, AbandonRequest(r) PROVE KeysHeld'
    BY <1>18 DEF AbandonRequest, Ends
  <1>19. ASSUME NEW u \in Uploads, PreviewExpires(u) PROVE KeysHeld'
    BY <1>19 DEF PreviewExpires
  <1>20. ASSUME RestartProcess PROVE KeysHeld'
    BY <1>20 DEF RestartProcess
  <1>21. ASSUME UNCHANGED vars PROVE KeysHeld'
    BY <1>21 DEF vars
  <1> QED
    BY <1>1, <1>2, <1>3, <1>4, <1>5, <1>6, <1>7, <1>8, <1>9, <1>10, <1>11,
       <1>12, <1>13, <1>14, <1>15, <1>16, <1>17, <1>18, <1>19, <1>20, <1>21
    DEF Next, PreviewStep, CommitStep

\* A batch is added only by the holder of its key.
LEMMA NextImportedOnce == IInv /\ [Next]_vars => ImportedOnce'
  <1> SUFFICES ASSUME IInv, [Next]_vars PROVE ImportedOnce'
    OBVIOUS
  <1>1. ASSUME NEW r \in Requests, CommitBatch(r) PROVE ImportedOnce'
    <2> PICK n : /\ n \notin DOMAIN batches
                 /\ DOMAIN batches' = DOMAIN batches \union {n}
                 /\ batches'[n].owner = ruser[r]
                 /\ batches'[n].content = content[rupload[r]]
                 /\ batches'[n].upload = rupload[r]
                 /\ \A b \in DOMAIN batches : batches'[b] = batches[b]
      BY <1>1, BatchAppended
    <2>1. rpc[r] = "flushed" /\ ~Imported(r) /\ ImportedOnce
      BY <1>1 DEF IInv, KeysHeld, CommitBatch
    <2> QED
      BY <1>1, <2>1 DEF Imported, BatchesOf, ImportedOnce
  <1> USE DEF IInv, ImportedOnce, rowVars, requestVars
  <1>2. ASSUME NEW r \in Requests, NEW u \in Uploads, NEW o \in Owners, NEW c \in Contents,
              BeginPreview(r, u, o, c)
       PROVE  ImportedOnce'
    BY <1>2 DEF BeginPreview, Begins
  <1>3. ASSUME NEW r \in Requests, NEW u \in Uploads, NEW o \in Owners, BeginCommit(r, u, o)
       PROVE  ImportedOnce'
    BY <1>3 DEF BeginCommit, Begins, MayCommit
  <1>4. ASSUME NEW r \in Requests, PutObject(r) PROVE ImportedOnce'
    BY <1>4 DEF PutObject, GoesTo
  <1>5. ASSUME NEW r \in Requests, PutRaises(r) PROVE ImportedOnce'
    BY <1>5 DEF PutRaises, Ends
  <1>6. ASSUME NEW r \in Requests, StoreRow(r) PROVE ImportedOnce'
    BY <1>6 DEF StoreRow, GoesTo
  <1>7. ASSUME NEW r \in Requests, StoreRaises(r) PROVE ImportedOnce'
    BY <1>7 DEF StoreRaises, GoesTo
  <1>8. ASSUME NEW r \in Requests, Compensate(r) PROVE ImportedOnce'
    BY <1>8 DEF Compensate, Ends
  <1>9. ASSUME NEW r \in Requests, CompensateRaises(r) PROVE ImportedOnce'
    BY <1>9 DEF CompensateRaises, Ends
  <1>10. ASSUME NEW r \in Requests, MarkParsed(r) PROVE ImportedOnce'
    BY <1>10 DEF MarkParsed, GoesTo
  <1>11. ASSUME NEW r \in Requests, CachePreview(r) PROVE ImportedOnce'
    BY <1>11 DEF CachePreview, Ends
  <1>12. ASSUME NEW r \in Requests, MarkFailed(r) PROVE ImportedOnce'
    BY <1>12 DEF MarkFailed, Ends
  <1>13. ASSUME NEW r \in Requests, LookUpBatch(r) PROVE ImportedOnce'
    BY <1>13 DEF LookUpBatch, GoesTo
  <1>14. ASSUME NEW r \in Requests, MarkDuplicate(r) PROVE ImportedOnce'
    BY <1>14 DEF MarkDuplicate, GoesTo
  <1>15. ASSUME NEW r \in Requests, FlushBatch(r) PROVE ImportedOnce'
    BY <1>15 DEF FlushBatch, GoesTo
  <1>16. ASSUME NEW r \in Requests, FlushRefused(r) PROVE ImportedOnce'
    BY <1>16 DEF FlushRefused, Ends
  <1>17. ASSUME NEW r \in Requests, DiscardPreview(r) PROVE ImportedOnce'
    BY <1>17 DEF DiscardPreview, Ends
  <1>18. ASSUME NEW r \in Requests, AbandonRequest(r) PROVE ImportedOnce'
    BY <1>18 DEF AbandonRequest, Ends
  <1>19. ASSUME NEW u \in Uploads, PreviewExpires(u) PROVE ImportedOnce'
    BY <1>19 DEF PreviewExpires
  <1>20. ASSUME RestartProcess PROVE ImportedOnce'
    BY <1>20 DEF RestartProcess
  <1>21. ASSUME UNCHANGED vars PROVE ImportedOnce'
    BY <1>21 DEF vars
  <1> QED
    BY <1>1, <1>2, <1>3, <1>4, <1>5, <1>6, <1>7, <1>8, <1>9, <1>10, <1>11,
       <1>12, <1>13, <1>14, <1>15, <1>16, <1>17, <1>18, <1>19, <1>20, <1>21
    DEF Next, PreviewStep, CommitStep

\* A batch is added for the user and the content of the preview.
LEMMA NextOwned == IInv /\ [Next]_vars => BatchesAreOwned'
  <1> SUFFICES ASSUME IInv, [Next]_vars PROVE BatchesAreOwned'
    OBVIOUS
  <1>1. ASSUME NEW r \in Requests, NEW u \in Uploads, NEW o \in Owners, NEW c \in Contents,
              BeginPreview(r, u, o, c)
       PROVE  BatchesAreOwned'
    <2>1. \A b \in DOMAIN batches : batches[b].upload \in Uploads \ {u}
      BY <1>1, BatchFields, FreshUpload DEF BeginPreview
    <2>2. \A v \in Uploads \ {u} : owner'[v] = owner[v] /\ content'[v] = content[v]
      BY <1>1 DEF BeginPreview, IInv, TypeOK
    <2>3. UNCHANGED <<status, batches>> /\ BatchesAreOwned
      BY <1>1 DEF BeginPreview, rowVars, IInv
    <2> QED
      BY <2>1, <2>2, <2>3 DEF BatchesAreOwned
  <1>2. ASSUME NEW r \in Requests, StoreRaises(r) PROVE BatchesAreOwned'
    <2>1. \A b \in DOMAIN batches : batches[b].upload \in Uploads \ {rupload[r]}
      BY <1>2, BatchFields DEF StoreRaises, IInv, Phases, BatchesAreOwned
    <2>2. \A u \in Uploads \ {rupload[r]} : status'[u] = status[u]
      BY <1>2 DEF StoreRaises, IInv, TypeOK
    <2>3. UNCHANGED <<owner, content, batches>> /\ BatchesAreOwned
      BY <1>2 DEF StoreRaises, IInv
    <2> QED
      BY <2>1, <2>2, <2>3 DEF BatchesAreOwned
  <1>3. ASSUME NEW r \in Requests, CommitBatch(r) PROVE BatchesAreOwned'
    <2> PICK n : /\ n \notin DOMAIN batches
                 /\ DOMAIN batches' = DOMAIN batches \union {n}
                 /\ batches'[n].owner = ruser[r]
                 /\ batches'[n].content = content[rupload[r]]
                 /\ batches'[n].upload = rupload[r]
                 /\ \A b \in DOMAIN batches : batches'[b] = batches[b]
      BY <1>3, BatchAppended
    <2>1. /\ rupload[r] \in Uploads
          /\ owner[rupload[r]] = ruser[r]
          /\ content[rupload[r]] \in Readable
      BY <1>3 DEF CommitBatch, IInv, OwnUpload, Phases, AcceptedIsReadable, Committing
    <2>2. /\ status' = [status EXCEPT ![rupload[r]] = "imported"]
          /\ UNCHANGED <<owner, content>>
          /\ BatchesAreOwned
      BY <1>3 DEF CommitBatch, IInv
    <2>3. status \in [Uploads -> Statuses]
      BY DEF IInv, TypeOK
    <2> QED
      BY <1>3, <2>1, <2>2, <2>3, BatchFields DEF BatchesAreOwned
  <1> USE DEF IInv, TypeOK, OwnUpload, Phases, Accepted, AcceptedIsReadable, BatchesAreOwned, Batches, rowVars, requestVars, Storing, Previewing, Committing
  <1>4. ASSUME NEW r \in Requests, NEW u \in Uploads, NEW o \in Owners, BeginCommit(r, u, o)
       PROVE  BatchesAreOwned'
    BY <1>4 DEF BeginCommit, Begins, MayCommit
  <1>5. ASSUME NEW r \in Requests, PutObject(r) PROVE BatchesAreOwned'
    BY <1>5 DEF PutObject, GoesTo
  <1>6. ASSUME NEW r \in Requests, PutRaises(r) PROVE BatchesAreOwned'
    BY <1>6 DEF PutRaises, Ends
  <1>7. ASSUME NEW r \in Requests, StoreRow(r) PROVE BatchesAreOwned'
    BY <1>7 DEF StoreRow, GoesTo
  <1>8. ASSUME NEW r \in Requests, Compensate(r) PROVE BatchesAreOwned'
    BY <1>8 DEF Compensate, Ends
  <1>9. ASSUME NEW r \in Requests, CompensateRaises(r) PROVE BatchesAreOwned'
    BY <1>9 DEF CompensateRaises, Ends
  <1>10. ASSUME NEW r \in Requests, MarkParsed(r) PROVE BatchesAreOwned'
    BY <1>10 DEF MarkParsed, GoesTo
  <1>11. ASSUME NEW r \in Requests, CachePreview(r) PROVE BatchesAreOwned'
    BY <1>11 DEF CachePreview, Ends
  <1>12. ASSUME NEW r \in Requests, MarkFailed(r) PROVE BatchesAreOwned'
    BY <1>12 DEF MarkFailed, Ends
  <1>13. ASSUME NEW r \in Requests, LookUpBatch(r) PROVE BatchesAreOwned'
    BY <1>13 DEF LookUpBatch, GoesTo
  <1>14. ASSUME NEW r \in Requests, MarkDuplicate(r) PROVE BatchesAreOwned'
    BY <1>14 DEF MarkDuplicate, GoesTo
  <1>15. ASSUME NEW r \in Requests, FlushBatch(r) PROVE BatchesAreOwned'
    BY <1>15 DEF FlushBatch, GoesTo
  <1>16. ASSUME NEW r \in Requests, FlushRefused(r) PROVE BatchesAreOwned'
    BY <1>16 DEF FlushRefused, Ends
  <1>17. ASSUME NEW r \in Requests, DiscardPreview(r) PROVE BatchesAreOwned'
    BY <1>17 DEF DiscardPreview, Ends
  <1>18. ASSUME NEW r \in Requests, AbandonRequest(r) PROVE BatchesAreOwned'
    BY <1>18 DEF AbandonRequest, Ends
  <1>19. ASSUME NEW u \in Uploads, PreviewExpires(u) PROVE BatchesAreOwned'
    BY <1>19 DEF PreviewExpires
  <1>20. ASSUME RestartProcess PROVE BatchesAreOwned'
    BY <1>20 DEF RestartProcess
  <1>21. ASSUME UNCHANGED vars PROVE BatchesAreOwned'
    BY <1>21 DEF vars
  <1> QED
    BY <1>1, <1>2, <1>3, <1>4, <1>5, <1>6, <1>7, <1>8, <1>9, <1>10, <1>11,
       <1>12, <1>13, <1>14, <1>15, <1>16, <1>17, <1>18, <1>19, <1>20, <1>21
    DEF Next, PreviewStep, CommitStep

\* Every status that is written is true, and stays true.
LEMMA NextStatus == IInv /\ [Next]_vars => StatusExplained'
  <1> SUFFICES ASSUME IInv, [Next]_vars PROVE StatusExplained'
    OBVIOUS
  <1>1. ASSUME NEW r \in Requests, NEW u \in Uploads, NEW o \in Owners, NEW c \in Contents,
              BeginPreview(r, u, o, c)
       PROVE  StatusExplained'
    <2>1. \A v \in Uploads \ {u} : owner'[v] = owner[v] /\ content'[v] = content[v]
      BY <1>1 DEF BeginPreview, IInv, TypeOK
    <2>2. status[u] = "absent" /\ UNCHANGED <<status, batches>> /\ StatusExplained
      BY <1>1, FreshUpload DEF BeginPreview, rowVars, IInv
    <2> QED
      BY <2>1, <2>2 DEF StatusExplained, BatchesOf
  <1>2. ASSUME NEW r \in Requests, CommitBatch(r) PROVE StatusExplained'
    <2>1. /\ rupload[r] \in Uploads
          /\ status \in [Uploads -> Statuses]
          /\ status' = [status EXCEPT ![rupload[r]] = "imported"]
          /\ UNCHANGED <<owner, content>>
          /\ StatusExplained
      BY <1>2 DEF CommitBatch, IInv, TypeOK, OwnUpload
    <2>2. \A o, c : BatchesOf(o, c) # {} => BatchesOf(o, c)' # {}
      BY <1>2, BatchAppended DEF BatchesOf
    <2>3. \E b \in DOMAIN batches' : batches'[b].upload = rupload[r]
      BY <1>2, BatchAppended
    <2>4. \A u \in Uploads : (\E b \in DOMAIN batches : batches[b].upload = u)
              => (\E b \in DOMAIN batches' : batches'[b].upload = u)
      BY <1>2, BatchAppended
    <2> QED
      BY <2>1, <2>2, <2>3, <2>4 DEF StatusExplained
  <1> USE DEF IInv, TypeOK, OwnUpload, Phases, KeysHeld, Imported, BatchesOf, StatusExplained, Batches, rowVars, requestVars, Storing, Previewing, Committing
  <1>3. ASSUME NEW r \in Requests, NEW u \in Uploads, NEW o \in Owners, BeginCommit(r, u, o)
       PROVE  StatusExplained'
    BY <1>3 DEF BeginCommit, Begins, MayCommit
  <1>4. ASSUME NEW r \in Requests, PutObject(r) PROVE StatusExplained'
    BY <1>4 DEF PutObject, GoesTo
  <1>5. ASSUME NEW r \in Requests, PutRaises(r) PROVE StatusExplained'
    BY <1>5 DEF PutRaises, Ends
  <1>6. ASSUME NEW r \in Requests, StoreRow(r) PROVE StatusExplained'
    BY <1>6 DEF StoreRow, GoesTo
  <1>7. ASSUME NEW r \in Requests, StoreRaises(r) PROVE StatusExplained'
    BY <1>7 DEF StoreRaises, GoesTo
  <1>8. ASSUME NEW r \in Requests, Compensate(r) PROVE StatusExplained'
    BY <1>8 DEF Compensate, Ends
  <1>9. ASSUME NEW r \in Requests, CompensateRaises(r) PROVE StatusExplained'
    BY <1>9 DEF CompensateRaises, Ends
  <1>10. ASSUME NEW r \in Requests, MarkParsed(r) PROVE StatusExplained'
    BY <1>10 DEF MarkParsed, GoesTo
  <1>11. ASSUME NEW r \in Requests, CachePreview(r) PROVE StatusExplained'
    BY <1>11 DEF CachePreview, Ends
  <1>12. ASSUME NEW r \in Requests, MarkFailed(r) PROVE StatusExplained'
    BY <1>12 DEF MarkFailed, Ends
  <1>13. ASSUME NEW r \in Requests, LookUpBatch(r) PROVE StatusExplained'
    BY <1>13 DEF LookUpBatch, GoesTo
  <1>14. ASSUME NEW r \in Requests, MarkDuplicate(r) PROVE StatusExplained'
    BY <1>14 DEF MarkDuplicate, GoesTo
  <1>15. ASSUME NEW r \in Requests, FlushBatch(r) PROVE StatusExplained'
    BY <1>15 DEF FlushBatch, GoesTo
  <1>16. ASSUME NEW r \in Requests, FlushRefused(r) PROVE StatusExplained'
    BY <1>16 DEF FlushRefused, Ends
  <1>17. ASSUME NEW r \in Requests, DiscardPreview(r) PROVE StatusExplained'
    BY <1>17 DEF DiscardPreview, Ends
  <1>18. ASSUME NEW r \in Requests, AbandonRequest(r) PROVE StatusExplained'
    BY <1>18 DEF AbandonRequest, Ends
  <1>19. ASSUME NEW u \in Uploads, PreviewExpires(u) PROVE StatusExplained'
    BY <1>19 DEF PreviewExpires
  <1>20. ASSUME RestartProcess PROVE StatusExplained'
    BY <1>20 DEF RestartProcess
  <1>21. ASSUME UNCHANGED vars PROVE StatusExplained'
    BY <1>21 DEF vars
  <1> QED
    BY <1>1, <1>2, <1>3, <1>4, <1>5, <1>6, <1>7, <1>8, <1>9, <1>10, <1>11,
       <1>12, <1>13, <1>14, <1>15, <1>16, <1>17, <1>18, <1>19, <1>20, <1>21
    DEF Next, PreviewStep, CommitStep

\* Only compensation removes an object.
LEMMA NextRows == IInv /\ [Next]_vars => RowsHaveObjects'
  <1> SUFFICES ASSUME IInv, [Next]_vars PROVE RowsHaveObjects'
    OBVIOUS
  <1> USE DEF IInv, TypeOK, UnsentIsBlank, OwnUpload, AloneAtUpload, Busy, Phases, Accepted, RowsHaveObjects, rowVars, requestVars, Storing, Previewing, Committing
  <1>1. ASSUME NEW r \in Requests, NEW u \in Uploads, NEW o \in Owners, NEW c \in Contents,
              BeginPreview(r, u, o, c)
       PROVE  RowsHaveObjects'
    BY <1>1 DEF BeginPreview, Begins
  <1>2. ASSUME NEW r \in Requests, NEW u \in Uploads, NEW o \in Owners, BeginCommit(r, u, o)
       PROVE  RowsHaveObjects'
    BY <1>2 DEF BeginCommit, Begins, MayCommit
  <1>3. ASSUME NEW r \in Requests, PutObject(r) PROVE RowsHaveObjects'
    BY <1>3 DEF PutObject, GoesTo
  <1>4. ASSUME NEW r \in Requests, PutRaises(r) PROVE RowsHaveObjects'
    BY <1>4 DEF PutRaises, Ends
  <1>5. ASSUME NEW r \in Requests, StoreRow(r) PROVE RowsHaveObjects'
    BY <1>5 DEF StoreRow, GoesTo
  <1>6. ASSUME NEW r \in Requests, StoreRaises(r) PROVE RowsHaveObjects'
    BY <1>6 DEF StoreRaises, GoesTo
  <1>7. ASSUME NEW r \in Requests, Compensate(r) PROVE RowsHaveObjects'
    BY <1>7 DEF Compensate, Ends
  <1>8. ASSUME NEW r \in Requests, CompensateRaises(r) PROVE RowsHaveObjects'
    BY <1>8 DEF CompensateRaises, Ends
  <1>9. ASSUME NEW r \in Requests, MarkParsed(r) PROVE RowsHaveObjects'
    BY <1>9 DEF MarkParsed, GoesTo
  <1>10. ASSUME NEW r \in Requests, CachePreview(r) PROVE RowsHaveObjects'
    BY <1>10 DEF CachePreview, Ends
  <1>11. ASSUME NEW r \in Requests, MarkFailed(r) PROVE RowsHaveObjects'
    BY <1>11 DEF MarkFailed, Ends
  <1>12. ASSUME NEW r \in Requests, LookUpBatch(r) PROVE RowsHaveObjects'
    BY <1>12 DEF LookUpBatch, GoesTo
  <1>13. ASSUME NEW r \in Requests, MarkDuplicate(r) PROVE RowsHaveObjects'
    BY <1>13 DEF MarkDuplicate, GoesTo
  <1>14. ASSUME NEW r \in Requests, FlushBatch(r) PROVE RowsHaveObjects'
    BY <1>14 DEF FlushBatch, GoesTo
  <1>15. ASSUME NEW r \in Requests, FlushRefused(r) PROVE RowsHaveObjects'
    BY <1>15 DEF FlushRefused, Ends
  <1>16. ASSUME NEW r \in Requests, CommitBatch(r) PROVE RowsHaveObjects'
    BY <1>16 DEF CommitBatch, GoesTo
  <1>17. ASSUME NEW r \in Requests, DiscardPreview(r) PROVE RowsHaveObjects'
    BY <1>17 DEF DiscardPreview, Ends
  <1>18. ASSUME NEW r \in Requests, AbandonRequest(r) PROVE RowsHaveObjects'
    BY <1>18 DEF AbandonRequest, Ends
  <1>19. ASSUME NEW u \in Uploads, PreviewExpires(u) PROVE RowsHaveObjects'
    BY <1>19 DEF PreviewExpires
  <1>20. ASSUME RestartProcess PROVE RowsHaveObjects'
    BY <1>20 DEF RestartProcess
  <1>21. ASSUME UNCHANGED vars PROVE RowsHaveObjects'
    BY <1>21 DEF vars
  <1> QED
    BY <1>1, <1>2, <1>3, <1>4, <1>5, <1>6, <1>7, <1>8, <1>9, <1>10, <1>11,
       <1>12, <1>13, <1>14, <1>15, <1>16, <1>17, <1>18, <1>19, <1>20, <1>21
    DEF Next, PreviewStep, CommitStep

\* A request leaves an object without a row only through a fault.
LEMMA NextOrphans == IInv /\ [Next]_vars => OrphansComeFromFaults'
  <1> SUFFICES ASSUME IInv, [Next]_vars PROVE OrphansComeFromFaults'
    OBVIOUS
  <1> USE DEF IInv, TypeOK, UnsentIsBlank, OwnUpload, AloneAtUpload, Busy, Phases, OrphansComeFromFaults, rowVars, requestVars, Storing, Previewing, Committing
  <1>1. ASSUME NEW r \in Requests, NEW u \in Uploads, NEW o \in Owners, NEW c \in Contents,
              BeginPreview(r, u, o, c)
       PROVE  OrphansComeFromFaults'
    BY <1>1 DEF BeginPreview, Begins
  <1>2. ASSUME NEW r \in Requests, NEW u \in Uploads, NEW o \in Owners, BeginCommit(r, u, o)
       PROVE  OrphansComeFromFaults'
    BY <1>2 DEF BeginCommit, Begins, MayCommit
  <1>3. ASSUME NEW r \in Requests, PutObject(r) PROVE OrphansComeFromFaults'
    BY <1>3 DEF PutObject, GoesTo
  <1>4. ASSUME NEW r \in Requests, PutRaises(r) PROVE OrphansComeFromFaults'
    BY <1>4 DEF PutRaises, Ends
  <1>5. ASSUME NEW r \in Requests, StoreRow(r) PROVE OrphansComeFromFaults'
    BY <1>5 DEF StoreRow, GoesTo
  <1>6. ASSUME NEW r \in Requests, StoreRaises(r) PROVE OrphansComeFromFaults'
    BY <1>6 DEF StoreRaises, GoesTo
  <1>7. ASSUME NEW r \in Requests, Compensate(r) PROVE OrphansComeFromFaults'
    BY <1>7 DEF Compensate, Ends
  <1>8. ASSUME NEW r \in Requests, CompensateRaises(r) PROVE OrphansComeFromFaults'
    BY <1>8 DEF CompensateRaises, Ends
  <1>9. ASSUME NEW r \in Requests, MarkParsed(r) PROVE OrphansComeFromFaults'
    BY <1>9 DEF MarkParsed, GoesTo
  <1>10. ASSUME NEW r \in Requests, CachePreview(r) PROVE OrphansComeFromFaults'
    BY <1>10 DEF CachePreview, Ends
  <1>11. ASSUME NEW r \in Requests, MarkFailed(r) PROVE OrphansComeFromFaults'
    BY <1>11 DEF MarkFailed, Ends
  <1>12. ASSUME NEW r \in Requests, LookUpBatch(r) PROVE OrphansComeFromFaults'
    BY <1>12 DEF LookUpBatch, GoesTo
  <1>13. ASSUME NEW r \in Requests, MarkDuplicate(r) PROVE OrphansComeFromFaults'
    BY <1>13 DEF MarkDuplicate, GoesTo
  <1>14. ASSUME NEW r \in Requests, FlushBatch(r) PROVE OrphansComeFromFaults'
    BY <1>14 DEF FlushBatch, GoesTo
  <1>15. ASSUME NEW r \in Requests, FlushRefused(r) PROVE OrphansComeFromFaults'
    BY <1>15 DEF FlushRefused, Ends
  <1>16. ASSUME NEW r \in Requests, CommitBatch(r) PROVE OrphansComeFromFaults'
    BY <1>16 DEF CommitBatch, GoesTo
  <1>17. ASSUME NEW r \in Requests, DiscardPreview(r) PROVE OrphansComeFromFaults'
    BY <1>17 DEF DiscardPreview, Ends
  <1>18. ASSUME NEW r \in Requests, AbandonRequest(r) PROVE OrphansComeFromFaults'
    BY <1>18 DEF AbandonRequest, Ends
  <1>19. ASSUME NEW u \in Uploads, PreviewExpires(u) PROVE OrphansComeFromFaults'
    BY <1>19 DEF PreviewExpires
  <1>20. ASSUME RestartProcess PROVE OrphansComeFromFaults'
    BY <1>20 DEF RestartProcess
  <1>21. ASSUME UNCHANGED vars PROVE OrphansComeFromFaults'
    BY <1>21 DEF vars
  <1> QED
    BY <1>1, <1>2, <1>3, <1>4, <1>5, <1>6, <1>7, <1>8, <1>9, <1>10, <1>11,
       <1>12, <1>13, <1>14, <1>15, <1>16, <1>17, <1>18, <1>19, <1>20, <1>21
    DEF Next, PreviewStep, CommitStep

-----------------------------------------------------------------------------
\* The invariant holds of every reachable state.
LEMMA Invariance == Spec => []IInv
  <1>1. IInv /\ [Next]_vars => IInv'
    BY NextType, NextUnsent, NextOwn, NextAlone, NextPhases, NextAccepted, NextKeys,
       NextImportedOnce, NextOwned, NextStatus, NextRows, NextOrphans
    DEF IInv
  <1> QED
    BY InitIInv, <1>1, PTL DEF Spec

\* Type correctness of rows, objects, previews and requests.
THEOREM TypeCorrectness == Spec => []TypeOK
  <1>1. IInv => TypeOK
    BY DEF IInv
  <1> QED
    BY Invariance, <1>1, PTL

\* However many requests commit previews of one content at the same time, its
\* lots are created once for a user.
THEOREM NothingIsImportedTwice == Spec => []ImportedOnce
  <1>1. IInv => ImportedOnce
    BY DEF IInv
  <1> QED
    BY Invariance, <1>1, PTL

\* A batch is made only from an upload of its owner that the reader accepted.
THEOREM EveryBatchIsOwned == Spec => []BatchesAreOwned
  <1>1. IInv => BatchesAreOwned
    BY DEF IInv
  <1> QED
    BY Invariance, <1>1, PTL

\* The status of an upload agrees with the batches and with its bytes.
THEOREM StatusesAreTrue == Spec => []StatusExplained
  <1>1. IInv => StatusExplained
    BY DEF IInv
  <1> QED
    BY Invariance, <1>1, PTL

\* A row can be downloaded, unless its commit looked like a failure.
THEOREM ObjectsOfRows == Spec => []RowsHaveObjects
  <1>1. IInv => RowsHaveObjects
    BY DEF IInv
  <1> QED
    BY Invariance, <1>1, PTL

\* Objects without rows come from errors of the storage and from restarts only.
THEOREM OrphansAreFaults == Spec => []OrphansComeFromFaults
  <1>1. IInv => OrphansComeFromFaults
    BY DEF IInv
  <1> QED
    BY Invariance, <1>1, PTL

-----------------------------------------------------------------------------
(* The ledger *)

\* A key is entered when a batch of it is committed.
LEMMA EnteredIsImported ==
    ASSUME NEW r \in Requests, owner[rupload[r]] = ruser[r]
    PROVE  Ledger!Entered(owner[rupload[r]], content[rupload[r]]) <=> Imported(r)
  BY DEF Ledger!Entered, Imported, BatchesOf

\* A request that commits a batch does so for an upload that was only parsed.
LEMMA CommitsParsed ==
    ASSUME IInv, NEW r \in Requests, rpc[r] = "flushed"
    PROVE  status[rupload[r]] = "parsed"
  <1> DEFINE u == rupload[r]
  <1>1. u \in Uploads /\ owner[u] = ruser[r]
    BY DEF IInv, OwnUpload
  <1>2. status[u] \in {"parsed", "imported", "duplicate"}
    BY DEF IInv, Phases, Accepted, Committing
  <1>3. \A b \in DOMAIN batches : ~(batches[b].owner = owner[u] /\ batches[b].content = content[u])
    BY <1>1 DEF IInv, KeysHeld, Imported, BatchesOf
  <1>4. status[u] # "duplicate"
    BY <1>1, <1>3 DEF IInv, StatusExplained, BatchesOf
  <1>5. status[u] # "imported"
    <2>1. \A b \in DOMAIN batches : batches[b].upload # u
      BY <1>3 DEF IInv, BatchesAreOwned
    <2> QED
      BY <1>1, <2>1 DEF IInv, StatusExplained
  <1> QED
    BY <1>2, <1>4, <1>5

\* A step of a preview sends, stores or reads an upload, or shows nothing.
LEMMA PreviewsInLedger ==
    ASSUME IInv, NEW r \in Requests, PreviewStep(r)
    PROVE  [Ledger!LedgerNext]_(Ledger!ledgerVars)
  <1> DEFINE u == rupload[r]
  <1> USE DEF Ledger!ledgerVars, rowVars, requestVars
  <1>1. rpc[r] # "idle" => u \in Uploads /\ owner[u] # NoOwner
    BY NobodyAssumption DEF IInv, OwnUpload
  <1>2. rpc[r] = "storing" => status[u] = "absent"
    BY DEF IInv, Phases
  <1>3. rpc[r] = "reading" => status[u] = "uploaded"
    BY DEF IInv, Phases
  <1>4. CASE StoreRow(r) \/ StoreRaises(r)
    <2>1. rpc[r] = "storing" /\ UNCHANGED <<owner, content, batches>>
      BY <1>4 DEF StoreRow, StoreRaises
    <2>2. UNCHANGED status \/ status' = [status EXCEPT ![u] = "uploaded"]
      BY <1>4 DEF StoreRow, StoreRaises
    <2>3. CASE UNCHANGED status
      BY <2>1, <2>3
    <2>4. CASE status' = [status EXCEPT ![u] = "uploaded"]
      <3>1. Ledger!Store(u)
        BY <1>1, <1>2, <2>1, <2>4 DEF Ledger!Store, Ledger!Tells
      <3> QED
        BY <1>1, <2>1, <3>1 DEF Ledger!LedgerNext
    <2> QED
      BY <2>2, <2>3, <2>4
  <1>5. CASE MarkParsed(r) \/ MarkFailed(r)
    <2>1. rpc[r] = "reading" /\ UNCHANGED <<owner, content, batches>>
      BY <1>5 DEF MarkParsed, MarkFailed
    <2>2. status' = [status EXCEPT ![u] = IF content[u] \in Readable THEN "parsed" ELSE "failed"]
      BY <1>5 DEF MarkParsed, MarkFailed
    <2>3. Ledger!Read(u)
      BY <1>3, <2>1, <2>2 DEF Ledger!Read, Ledger!Tells
    <2> QED
      BY <1>1, <2>1, <2>3 DEF Ledger!LedgerNext
  <1>6. CASE PutObject(r) \/ PutRaises(r) \/ Compensate(r) \/ CompensateRaises(r) \/ CachePreview(r)
    <2>1. UNCHANGED <<owner, content, status, batches>>
      BY <1>6 DEF PutObject, PutRaises, Compensate, CompensateRaises, CachePreview
    <2> QED
      BY <2>1
  <1> QED
    BY <1>4, <1>5, <1>6 DEF PreviewStep

\* A step of a commit imports an upload or finds it a duplicate, or shows nothing.
LEMMA CommitsInLedger ==
    ASSUME IInv, NEW r \in Requests, CommitStep(r)
    PROVE  [Ledger!LedgerNext]_(Ledger!ledgerVars)
  <1> DEFINE u == rupload[r]
  <1> USE DEF Ledger!ledgerVars, rowVars, requestVars
  <1>1. rpc[r] # "idle" => u \in Uploads /\ owner[u] = ruser[r]
    BY DEF IInv, OwnUpload
  <1>2. CASE CommitBatch(r)
    <2>1. rpc[r] = "flushed" /\ UNCHANGED <<owner, content>>
      BY <1>2 DEF CommitBatch
    <2>2. status[u] = "parsed" /\ ~Imported(r)
      BY <2>1, CommitsParsed DEF IInv, KeysHeld
    <2>3. ~Ledger!Entered(owner[u], content[u])
      BY <1>1, <2>1, <2>2, EnteredIsImported
    <2>4. batches' = Append(batches, [owner |-> owner[u], content |-> content[u], upload |-> u])
      BY <1>1, <1>2, <2>1 DEF CommitBatch
    <2>5. status' = [status EXCEPT ![u] = "imported"]
      BY <1>2 DEF CommitBatch
    <2>6. Ledger!Import(u)
      BY <2>1, <2>2, <2>3, <2>4, <2>5 DEF Ledger!Import, Ledger!Tells
    <2> QED
      BY <1>1, <2>1, <2>6 DEF Ledger!LedgerNext
  <1>3. CASE MarkDuplicate(r)
    <2>1. rpc[r] = "replaying" /\ UNCHANGED <<owner, content, batches>>
      BY <1>3 DEF MarkDuplicate
    <2>2. status[u] \in {"parsed", "imported", "duplicate"} /\ Imported(r)
      BY <2>1 DEF IInv, KeysHeld, Phases, Accepted, Committing
    <2>3. Ledger!Entered(owner[u], content[u])
      BY <1>1, <2>1, <2>2, EnteredIsImported
    <2>4. status' = [status EXCEPT ![u] = "duplicate"]
      BY <1>3 DEF MarkDuplicate
    <2>5. Ledger!Repeat(u)
      BY <2>1, <2>2, <2>3, <2>4 DEF Ledger!Repeat, Ledger!Tells
    <2> QED
      BY <1>1, <2>1, <2>5 DEF Ledger!LedgerNext
  <1>4. CASE LookUpBatch(r) \/ FlushBatch(r) \/ FlushRefused(r) \/ DiscardPreview(r)
    <2>1. UNCHANGED <<owner, content, status, batches>>
      BY <1>4 DEF LookUpBatch, FlushBatch, FlushRefused, DiscardPreview
    <2> QED
      BY <2>1
  <1> QED
    BY <1>2, <1>3, <1>4 DEF CommitStep

\* The pipeline implements the ledger: whatever requests interleave, fail or are lost, a
\* content is imported once for a user, in one step with the status that says so, and an
\* upload only goes forward from sent to stored, read, and imported or duplicate.
THEOREM PipelineImplementsLedger == Spec => ImplementsLedger
  <1>1. Init => Ledger!LedgerInit
    BY DEF Init, Ledger!LedgerInit
  <1>2. ASSUME IInv, [Next]_vars
        PROVE  [Ledger!LedgerNext]_(Ledger!ledgerVars)
    <2>1. ASSUME NEW r \in Requests, NEW u \in Uploads, NEW o \in Owners, NEW c \in Contents,
                 BeginPreview(r, u, o, c)
          PROVE  Ledger!LedgerNext
      <3>1. Ledger!Send(u, o, c)
        BY <2>1 DEF BeginPreview, Ledger!Send, rowVars
      <3> QED
        BY <3>1 DEF Ledger!LedgerNext
    <2>2. ASSUME NEW r \in Requests, NEW u \in Uploads, NEW o \in Owners, BeginCommit(r, u, o)
          PROVE  UNCHANGED <<owner, content, status, batches>>
      BY <2>2 DEF BeginCommit, rowVars
    <2>3. ASSUME NEW r \in Requests, AbandonRequest(r)
          PROVE  UNCHANGED <<owner, content, status, batches>>
      BY <2>3 DEF AbandonRequest, rowVars
    <2>4. ASSUME NEW u \in Uploads, PreviewExpires(u)
          PROVE  UNCHANGED <<owner, content, status, batches>>
      BY <2>4 DEF PreviewExpires, rowVars
    <2>5. CASE RestartProcess \/ UNCHANGED vars
      <3>1. UNCHANGED <<owner, content, status, batches>>
        BY <2>5 DEF RestartProcess, vars, rowVars
      <3> QED
        BY <3>1 DEF Ledger!ledgerVars
    <2> QED
      BY <1>2, <2>1, <2>2, <2>3, <2>4, <2>5, PreviewsInLedger, CommitsInLedger
      DEF Next, Ledger!ledgerVars
  <1> QED
    BY Invariance, <1>1, <1>2, PTL DEF Spec, ImplementsLedger, Ledger!LedgerSpec
=============================================================================
