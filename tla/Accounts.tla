------------------------------ MODULE Accounts ------------------------------
(***************************************************************************)
(* Accounts, passwords and server-side sessions: AuthService, the API and  *)
(* web handlers over it, and the bootstrap of the accounts at every start  *)
(* of the application.                                                     *)
(*                                                                         *)
(* A request runs in a database session of its own, without autoflush and  *)
(* at READ COMMITTED: what it SELECTs may be stale when it commits.  The   *)
(* flush of the changed rows belongs to the commit (one step), while an    *)
(* UPDATE of auth_sessions is a statement before it: it marks the rows     *)
(* committed by then, which stay locked until the request ends.            *)
(***************************************************************************)
EXTENDS FiniteSets

CONSTANTS
    Users,          \* accounts that may ever exist, by user name
    Admins,         \* those whose role is ADMIN
    Boot,           \* the accounts of the settings' [auth] section
    BootAdmin,      \* the one whose password follows the settings
    Passwords,      \* passwords, as their hashes verify
    NoPassword,     \* the password of an account that does not exist
    Sessions,       \* rows of auth_sessions, reused once they are closed
    Requests        \* requests in flight at a time

ASSUME UsersAssumption ==
    Admins \subseteq Users /\ Boot \subseteq Users /\ BootAdmin \in Boot \cap Admins

VARIABLES
    account,        \* per user: absent, active or disabled
    password,       \* per user: the password its hash verifies
    session,        \* per row: open (neither revoked nor expired), user, ...
    request,        \* per request: the step it has reached and what it has read
    skewed          \* history: a check of set_active was overtaken (see CommitSwitch)

vars == <<account, password, session, request, skewed>>

\* "with" is the password the session was opened with, and "late" says that its
\* login was in flight while sessions of its user were being revoked (history).
Closed == [open |-> FALSE, user |-> BootAdmin, with |-> NoPassword, late |-> FALSE]

Idle == [step |-> "idle", user |-> BootAdmin, with |-> NoPassword, late |-> FALSE,
         asked |-> FALSE, read |-> FALSE, staged |-> {}]

Hash == Passwords \cup {NoPassword}

SessionType == [open : BOOLEAN, user : Users, with : Hash, late : BOOLEAN]

RequestType ==
    [step : {"idle", "login", "change", "changed", "switch", "counted", "switched", "create"},
     user : Users, with : Hash, late : BOOLEAN,
     asked : BOOLEAN, read : BOOLEAN, staged : SUBSET Sessions]

-----------------------------------------------------------------------------
(* Helpers *)

\* resolve: the token's session is neither revoked nor expired, its user is active.
Resolves(s) == session[s].open /\ account[session[s].user] = "active"

\* The rows an UPDATE ... WHERE user_id = u AND revoked_at IS NULL finds committed.
OpenSessions(u) == {s \in Sessions : session[s].open /\ session[s].user = u}

\* No other transaction holds the rows: an UPDATE of them would wait.
Unlocked(rows) == \A q \in Requests : request[q].staged \cap rows = {}

\* revoked_at is set on the rows: they resolve nothing from then on.
Revoked(rows) == [s \in Sessions |-> IF s \in rows THEN Closed ELSE session[s]]

\* A revocation of u's sessions has run its UPDATE and has not committed.
BeingRevoked(u) ==
    \E q \in Requests : /\ request[q].user = u
                        /\ \/ request[q].step = "changed"
                           \/ request[q].step = "switched" /\ ~request[q].asked

\* The UPDATE of request r runs for u: it stages the rows, and every login of u
\* in flight is overtaken by it.
StageRevocation(r, u, step) ==
    /\ Unlocked(OpenSessions(u))
    /\ request' = [q \in Requests |->
         IF q = r THEN [request[r] EXCEPT !.step = step, !.staged = OpenSessions(u)]
         ELSE IF request[q].step = "login" /\ request[q].user = u
              THEN [request[q] EXCEPT !.late = TRUE]
              ELSE request[q]]

OtherActiveAdmin(u) == \E v \in Admins \ {u} : account[v] = "active"

\* set_active of request q has counted the other administrators and will disable.
Disabling(q) == /\ \/ request[q].step = "counted"
                   \/ request[q].step = "switched" /\ ~request[q].asked
                /\ request[q].user \in Admins

-----------------------------------------------------------------------------
(* Login: the account is read and the password verified, then the session   *)
(* is inserted and committed.                                               *)

BeginLogin(r, u) ==
    /\ request[r].step = "idle"
    /\ account[u] = "active"
    /\ request' = [request EXCEPT ![r] =
         [Idle EXCEPT !.step = "login", !.user = u, !.with = password[u],
                      !.late = BeingRevoked(u)]]
    /\ UNCHANGED <<account, password, session, skewed>>

\* Mutant: the password change revokes nothing but the session it came with.
ChangeRevokesOne(r) ==
    /\ request[r].step = "change"
    /\ \E s \in Sessions : /\ session[s].open /\ session[s].user = request[r].user
                           /\ Unlocked({s})
                           /\ request' = [request EXCEPT ![r].step = "changed", ![r].staged = {s}]
    /\ UNCHANGED <<account, password, session, skewed>>

CommitLogin(r, s) ==
    /\ request[r].step = "login"
    /\ ~session[s].open /\ Unlocked({s})
    /\ session' = [session EXCEPT ![s] =
         [open |-> TRUE, user |-> request[r].user, with |-> request[r].with,
          late |-> request[r].late]]
    /\ request' = [request EXCEPT ![r] = Idle]
    /\ UNCHANGED <<account, password, skewed>>

\* Logout: the session is resolved and revoked; a row that another transaction
\* is revoking is waited for, and revoking it again changes nothing.
Logout(s) ==
    /\ Resolves(s)
    /\ Unlocked({s})
    /\ session' = Revoked({s})
    /\ UNCHANGED <<account, password, request, skewed>>

\* expires_at passes.
Expire(s) ==
    /\ session[s].open
    /\ session' = Revoked({s})
    /\ UNCHANGED <<account, password, request, skewed>>

-----------------------------------------------------------------------------
(* Change of one's own password *)

\* The session resolves and the current password verifies against the hash read.
BeginChange(r, s) ==
    /\ request[r].step = "idle"
    /\ Resolves(s)
    /\ request' = [request EXCEPT ![r] =
         [Idle EXCEPT !.step = "change", !.user = session[s].user]]
    /\ UNCHANGED <<account, password, session, skewed>>

RevokeForChange(r) ==
    /\ request[r].step = "change"
    /\ StageRevocation(r, request[r].user, "changed")
    /\ UNCHANGED <<account, password, session, skewed>>

CommitChange(r, p) ==
    /\ request[r].step = "changed"
    /\ password' = [password EXCEPT ![request[r].user] = p]
    /\ session' = Revoked(request[r].staged)
    /\ request' = [request EXCEPT ![r] = Idle]
    /\ UNCHANGED <<account, skewed>>

-----------------------------------------------------------------------------
(* An administrator enables or disables an account *)

\* Neither the API nor the web switch disables the administrator's own account.
\* The API is given the value, the web switch asks for the opposite of what it read.
BeginSwitch(r, s, u, active) ==
    /\ request[r].step = "idle"
    /\ Resolves(s) /\ session[s].user \in Admins
    /\ account[u] # "absent"
    /\ u = session[s].user => active
    /\ request' = [request EXCEPT ![r] =
         [Idle EXCEPT !.step = "switch", !.user = u, !.asked = active,
                      !.read = (account[u] = "active")]]
    /\ UNCHANGED <<account, password, session, skewed>>

\* Mutant: the last administrator may be disabled by another one's session.
CountNoAdmins(r) ==
    /\ request[r].step = "switch"
    /\ request[r].user \in Admins /\ ~request[r].asked
    /\ request' = [request EXCEPT ![r].step = "counted"]
    /\ UNCHANGED <<account, password, session, skewed>>

\* Disabling an administrator needs another active one.
CountAdmins(r) ==
    /\ request[r].step = "switch"
    /\ request[r].user \in Admins /\ ~request[r].asked
    /\ request' = [request EXCEPT ![r] =
         IF OtherActiveAdmin(request[r].user) THEN [request[r] EXCEPT !.step = "counted"]
                                              ELSE Idle]
    /\ UNCHANGED <<account, password, session, skewed>>

\* Disabling revokes the sessions; enabling has nothing to send before its commit.
RevokeForSwitch(r) ==
    /\ \/ request[r].step = "counted"
       \/ request[r].step = "switch" /\ (request[r].user \notin Admins \/ request[r].asked)
    /\ IF request[r].asked
       THEN request' = [request EXCEPT ![r].step = "switched"]
       ELSE StageRevocation(r, request[r].user, "switched")
    /\ UNCHANGED <<account, password, session, skewed>>

\* is_active is written only where it differs from the value that was read.  The
\* history variable records that a pending disabling has lost the administrator
\* its check had found.
CommitSwitch(r) ==
    LET u == request[r].user IN
    /\ request[r].step = "switched"
    /\ account' = IF request[r].asked = request[r].read THEN account
                  ELSE [account EXCEPT ![u] = IF request[r].asked THEN "active" ELSE "disabled"]
    /\ session' = Revoked(request[r].staged)
    /\ request' = [request EXCEPT ![r] = Idle]
    /\ skewed' = (skewed \/ \E q \in Requests \ {r} :
                      /\ Disabling(q)
                      /\ ~\E v \in Admins \ {request[q].user} : account'[v] = "active")
    /\ UNCHANGED password

-----------------------------------------------------------------------------
(* An administrator creates an account *)

\* No account of this name is found; the password passes its checks.
BeginCreate(r, s, u) ==
    /\ request[r].step = "idle"
    /\ Resolves(s) /\ session[s].user \in Admins
    /\ account[u] = "absent"
    /\ request' = [request EXCEPT ![r] = [Idle EXCEPT !.step = "create", !.user = u]]
    /\ UNCHANGED <<account, password, session, skewed>>

\* Mutant: the account is stored before its password is hashed.
CreateWithoutHash(r, p) ==
    LET u == request[r].user IN
    /\ request[r].step = "create"
    /\ account' = IF account[u] = "absent" THEN [account EXCEPT ![u] = "active"] ELSE account
    /\ request' = [request EXCEPT ![r] = Idle]
    /\ UNCHANGED <<password, session, skewed>>

\* The unique user name refuses a second insert.
CommitCreate(r, p) ==
    LET u == request[r].user IN
    /\ request[r].step = "create"
    /\ IF account[u] = "absent"
       THEN /\ account' = [account EXCEPT ![u] = "active"]
            /\ password' = [password EXCEPT ![u] = p]
       ELSE UNCHANGED <<account, password>>
    /\ request' = [request EXCEPT ![r] = Idle]
    /\ UNCHANGED <<session, skewed>>

-----------------------------------------------------------------------------
(* The process *)

\* A request dies before its commit: client gone, statement failed.
Abandon(r) ==
    /\ request[r].step # "idle"
    /\ request' = [request EXCEPT ![r] = Idle]
    /\ UNCHANGED <<account, password, session, skewed>>

\* The process starts (again), with password p for the bootstrap administrator:
\* requests in flight are gone; ensure_bootstrap_users creates the missing
\* accounts and, where the administrator's hash does not verify p, replaces it
\* and revokes the sessions.  A disabled account stays disabled.
Start(p) ==
    LET changed == account[BootAdmin] # "absent" /\ password[BootAdmin] # p IN
    /\ account' = [u \in Users |->
         IF u \in Boot /\ account[u] = "absent" THEN "active" ELSE account[u]]
    /\ \E q \in Passwords : password' = [u \in Users |->
         IF u = BootAdmin THEN p
         ELSE IF u \in Boot /\ account[u] = "absent" THEN q ELSE password[u]]
    /\ session' = IF changed THEN Revoked(OpenSessions(BootAdmin)) ELSE session
    /\ request' = [r \in Requests |-> Idle]
    /\ UNCHANGED skewed

-----------------------------------------------------------------------------

Init ==
    /\ account = [u \in Users |-> "absent"]
    /\ password = [u \in Users |-> NoPassword]
    /\ session = [s \in Sessions |-> Closed]
    /\ request = [r \in Requests |-> Idle]
    /\ skewed = FALSE

Next ==
    \/ \E p \in Passwords : Start(p)
    \/ \E s \in Sessions : Logout(s) \/ Expire(s)
    \/ \E r \in Requests :
         \/ \E u \in Users : BeginLogin(r, u)
         \/ \E s \in Sessions : CommitLogin(r, s) \/ BeginChange(r, s)
         \/ \E u \in Users, s \in Sessions :
              BeginCreate(r, s, u) \/ \E active \in BOOLEAN : BeginSwitch(r, s, u, active)
         \/ RevokeForChange(r)
         \/ \E p \in Passwords : CommitChange(r, p) \/ CommitCreate(r, p)
         \/ CountAdmins(r) \/ RevokeForSwitch(r) \/ CommitSwitch(r)
         \/ Abandon(r)

Spec == Init /\ [][Next]_vars

-----------------------------------------------------------------------------
(* Properties *)

\* The type of the state: accounts, hashes, session rows and requests; an account
\* that exists has a password.
TypeOK ==
    /\ account \in [Users -> {"absent", "active", "disabled"}]
    /\ password \in [Users -> Hash]
    /\ \A u \in Users : account[u] # "absent" => password[u] \in Passwords
    /\ session \in [Sessions -> SessionType]
    /\ request \in [Requests -> RequestType]
    /\ skewed \in BOOLEAN

\* set_active leaves an active administrator, whatever requests, restarts and
\* creations interleave, unless the check of a pending disabling was overtaken by
\* the commit of another: the check and the commit are not one transaction's.
AdminRemainsUnlessSkewed ==
    account[BootAdmin] = "absent" \/ skewed \/ \E v \in Admins : account[v] = "active"

\* docs/authentication.md: the last active administrator cannot be disabled.
\* Without the exemption above: two administrators disabled at the same time.
AdminRemains ==
    account[BootAdmin] = "absent" \/ \E v \in Admins : account[v] = "active"

\* Changing a password, disabling an account and a bootstrap with a new password
\* end the sessions of the account: a session still open belongs to an active
\* account and was opened with the password in force, unless its login was in
\* flight while the sessions were being revoked.
RevocationIsComplete ==
    \A s \in Sessions : session[s].open /\ ~session[s].late =>
        /\ account[session[s].user] = "active"
        /\ session[s].with = password[session[s].user]

=============================================================================
