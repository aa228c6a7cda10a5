----------------------------- MODULE ImportLedger -----------------------------
(***************************************************************************)
(* What imports promise their users, without requests, caches, storage and *)
(* failures: an upload is sent once and read once, a content enters the    *)
(* ledger of its user once, in the same step in which the upload says so,  *)
(* and an upload is called a duplicate only when its content is there.     *)
(***************************************************************************)
EXTENDS Naturals, Sequences

CONSTANTS Owners, Contents, Readable, Uploads, NoOwner, NoContent

VARIABLES
    owner,     \* upload -> who has sent it
    content,   \* upload -> its bytes
    status,    \* upload -> what its user is told
    batches    \* what has been imported

ledgerVars == <<owner, content, status, batches>>

LedgerInit ==
    /\ owner = [u \in Uploads |-> NoOwner]
    /\ content = [u \in Uploads |-> NoContent]
    /\ status = [u \in Uploads |-> "absent"]
    /\ batches = <<>>

Entered(o, c) == \E b \in DOMAIN batches : batches[b].owner = o /\ batches[b].content = c

Tells(u, new) == status' = [status EXCEPT ![u] = new] /\ UNCHANGED <<owner, content>>

Send(u, o, c) ==
    /\ owner[u] = NoOwner
    /\ owner' = [owner EXCEPT ![u] = o]
    /\ content' = [content EXCEPT ![u] = c]
    /\ UNCHANGED <<status, batches>>

Store(u) ==
    /\ owner[u] # NoOwner
    /\ status[u] = "absent"
    /\ Tells(u, "uploaded") /\ UNCHANGED batches

Read(u) ==
    /\ status[u] = "uploaded"
    /\ Tells(u, IF content[u] \in Readable THEN "parsed" ELSE "failed") /\ UNCHANGED batches

Import(u) ==
    /\ status[u] = "parsed"
    /\ ~Entered(owner[u], content[u])
    /\ batches' = Append(batches, [owner |-> owner[u], content |-> content[u], upload |-> u])
    /\ Tells(u, "imported")

\* The upload that was imported may itself be sent again, when its answer was lost.
Repeat(u) ==
    /\ status[u] \in {"parsed", "imported", "duplicate"}
    /\ Entered(owner[u], content[u])
    /\ Tells(u, "duplicate") /\ UNCHANGED batches

LedgerNext ==
    \E u \in Uploads :
        \/ \E o \in Owners, c \in Contents : Send(u, o, c)
        \/ Store(u) \/ Read(u) \/ Import(u) \/ Repeat(u)

LedgerSpec == LedgerInit /\ [][LedgerNext]_ledgerVars
=============================================================================
