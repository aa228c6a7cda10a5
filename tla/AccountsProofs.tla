--------------------------- MODULE AccountsProofs ---------------------------
(* Proofs about Accounts: an active administrator remains, and a revocation  *)
(* reaches every session whose login it did not overtake.                    *)
EXTENDS Accounts, TLAPS

\* The request is between the UPDATE that revokes the sessions of its user and
\* the commit that follows it.
Revoking(q) ==
    \/ request[q].step = "changed"
    \/ request[q].step = "switched" /\ ~request[q].asked

\* A check of set_active that no commit has overtaken still holds.
CountHolds ==
    skewed \/ \A q \in Requests : Disabling(q) => OtherActiveAdmin(request[q].user)

\* The account that is switched exists.
SwitchedExists ==
    \A q \in Requests : request[q].step \in {"switch", "counted", "switched"} =>
        account[request[q].user] # "absent"

\* What a login has read is still true unless a revocation overtook it.
LoginsAreFresh ==
    \A q \in Requests : request[q].step = "login" /\ ~request[q].late =>
        /\ account[request[q].user] = "active"
        /\ request[q].with = password[request[q].user]

\* A revocation has staged every session of its user but those of the logins it
\* overtook, and knows which logins these are.
StagedIsComplete ==
    \A q \in Requests : Revoking(q) =>
        /\ \A s \in Sessions :
             session[s].open /\ session[s].user = request[q].user /\ ~session[s].late
               => s \in request[q].staged
        /\ \A r \in Requests :
             request[r].step = "login" /\ request[r].user = request[q].user
               => request[r].late

IInv ==
    /\ TypeOK
    /\ SwitchedExists
    /\ CountHolds
    /\ AdminRemainsUnlessSkewed
    /\ LoginsAreFresh
    /\ StagedIsComplete
    /\ RevocationIsComplete

-----------------------------------------------------------------------------
\* What the UPDATE of a revocation does to the requests.
LEMMA Staging ==
    ASSUME IInv, NEW r \in Requests, NEW u \in Users, NEW step \in {"changed", "switched"},
           StageRevocation(r, u, step)
    PROVE  /\ request' \in [Requests -> RequestType]
           /\ request'[r].step = step /\ request'[r].user = request[r].user
           /\ request'[r].staged = OpenSessions(u)
           /\ request'[r].asked <=> request[r].asked
           /\ \A q \in Requests \ {r} :
                /\ request'[q].step = request[q].step /\ request'[q].user = request[q].user
                /\ request'[q].with = request[q].with /\ request'[q].staged = request[q].staged
                /\ request'[q].asked <=> request[q].asked
                /\ request[q].late => request'[q].late
                /\ request[q].step = "login" /\ request[q].user = u => request'[q].late
  <1>1. request \in [Requests -> RequestType] /\ OpenSessions(u) \in SUBSET Sessions
    BY DEF IInv, TypeOK, OpenSessions
  <1>2. /\ [request[r] EXCEPT !.step = step, !.staged = OpenSessions(u)] \in RequestType
        /\ \A q \in Requests : [request[q] EXCEPT !.late = TRUE] \in RequestType
    BY <1>1 DEF RequestType
  <1>3. request' \in [Requests -> RequestType]
    <2> HIDE DEF RequestType
    <2> QED
      BY <1>1, <1>2 DEF StageRevocation
  <1>4. request'[r] = [request[r] EXCEPT !.step = step, !.staged = OpenSessions(u)]
    BY DEF StageRevocation
  <1>5. \A q \in Requests \ {r} :
          request'[q] = IF request[q].step = "login" /\ request[q].user = u
                        THEN [request[q] EXCEPT !.late = TRUE] ELSE request[q]
    BY DEF StageRevocation
  <1>6. /\ request'[r].step = step /\ request'[r].user = request[r].user
        /\ request'[r].staged = OpenSessions(u)
        /\ request'[r].asked <=> request[r].asked
    BY <1>1, <1>4 DEF RequestType
  <1>7. ASSUME NEW q \in Requests \ {r}
        PROVE  /\ request'[q].step = request[q].step /\ request'[q].user = request[q].user
               /\ request'[q].with = request[q].with /\ request'[q].staged = request[q].staged
               /\ request'[q].asked <=> request[q].asked
               /\ request[q].late => request'[q].late
               /\ request[q].step = "login" /\ request[q].user = u => request'[q].late
    BY <1>1, <1>5 DEF RequestType
  <1> QED
    BY <1>3, <1>6, <1>7

-----------------------------------------------------------------------------
\* Before the first start there is nothing.
LEMMA InitIInv == Init => IInv
  <1> SUFFICES ASSUME Init PROVE IInv
    OBVIOUS
  <1> USE UsersAssumption DEF Init, Idle, Closed, SessionType, RequestType, Hash
  <1>1. TypeOK
    BY DEF TypeOK
  <1>2. SwitchedExists /\ CountHolds /\ AdminRemainsUnlessSkewed
    BY DEF SwitchedExists, CountHolds, Disabling, AdminRemainsUnlessSkewed
  <1>3. LoginsAreFresh /\ StagedIsComplete /\ RevocationIsComplete
    BY DEF LoginsAreFresh, StagedIsComplete, Revoking, RevocationIsComplete
  <1> QED
    BY <1>1, <1>2, <1>3 DEF IInv

\* Every step keeps the types.
LEMMA NextType == IInv /\ [Next]_vars => TypeOK'
  <1> SUFFICES ASSUME IInv, [Next]_vars PROVE TypeOK'
    OBVIOUS
  <1>1. ASSUME NEW r \in Requests, NEW u \in Users, BeginLogin(r, u) PROVE TypeOK'
    <2>1. BeingRevoked(u) \in BOOLEAN
      BY DEF BeingRevoked
    <2> HIDE DEF BeingRevoked
    <2>2. [Idle EXCEPT !.step = "login", !.user = u, !.with = password[u],
                       !.late = BeingRevoked(u)] \in RequestType
      BY <2>1, UsersAssumption DEF IInv, TypeOK, Idle, RequestType, Hash
    <2> QED
      BY <2>2, <1>1 DEF BeginLogin, IInv, TypeOK
  <1>2. ASSUME NEW r \in Requests, RevokeForChange(r) PROVE TypeOK'
    BY <1>2, Staging DEF RevokeForChange, IInv, TypeOK, RequestType
  <1>3. ASSUME NEW r \in Requests, NEW p \in Passwords, CommitCreate(r, p) PROVE TypeOK'
    <2>1. Idle \in RequestType
      BY UsersAssumption DEF Idle, RequestType, Hash
    <2>2. request' \in [Requests -> RequestType]
      BY <2>1, <1>3 DEF CommitCreate, IInv, TypeOK
    <2>3. request[r].user \in Users
      BY DEF IInv, TypeOK, RequestType
    <2> QED
      BY <2>2, <2>3, <1>3 DEF CommitCreate, IInv, TypeOK, Hash
  <1>4. ASSUME NEW r \in Requests, RevokeForSwitch(r) PROVE TypeOK'
    <2>1. CASE request[r].asked
      BY <2>1, <1>4 DEF RevokeForSwitch, IInv, TypeOK, RequestType
    <2>2. CASE ~request[r].asked
      BY <2>2, <1>4, Staging DEF RevokeForSwitch, IInv, TypeOK, RequestType
    <2> QED
      BY <2>1, <2>2
  <1>5. ASSUME NEW r \in Requests, CommitSwitch(r) PROVE TypeOK'
    <2>1. Idle \in RequestType /\ Closed \in SessionType
      BY UsersAssumption DEF Idle, Closed, RequestType, SessionType, Hash
    <2>2. request' \in [Requests -> RequestType] /\ session' \in [Sessions -> SessionType]
      BY <2>1, <1>5 DEF CommitSwitch, IInv, TypeOK, Revoked
    <2>3. request[r].user \in Users
      BY DEF IInv, TypeOK, RequestType
    <2>4. skewed' \in BOOLEAN
      BY <1>5 DEF CommitSwitch
    <2>5. CASE request[r].asked = request[r].read
      BY <2>2, <2>4, <2>5, <1>5 DEF CommitSwitch, IInv, TypeOK
    <2>6. CASE request[r].asked # request[r].read
      <3>1. /\ account' \in [Users -> {"absent", "active", "disabled"}]
            /\ UNCHANGED password
        BY <2>3, <2>6, <1>5 DEF CommitSwitch, IInv, TypeOK
      <3>2. \A v \in Users : account'[v] # "absent" => password[v] \in Passwords
        BY <2>3, <2>6, <1>5 DEF CommitSwitch, IInv, TypeOK, SwitchedExists
      <3> QED
        BY <2>2, <2>4, <3>1, <3>2 DEF IInv, TypeOK
    <2> QED
      BY <2>5, <2>6
  <1> USE DEF IInv, TypeOK, SessionType, RequestType, Hash, Idle, Closed
  <1>6. ASSUME NEW p \in Passwords, Start(p) PROVE TypeOK'
    BY UsersAssumption, <1>6 DEF Start, OpenSessions, Revoked
  <1>7. ASSUME NEW s \in Sessions, Logout(s) PROVE TypeOK'
    BY UsersAssumption, <1>7 DEF Logout, Revoked
  <1>8. ASSUME NEW s \in Sessions, Expire(s) PROVE TypeOK'
    BY UsersAssumption, <1>8 DEF Expire, Revoked
  <1>9. ASSUME NEW r \in Requests, NEW s \in Sessions, CommitLogin(r, s) PROVE TypeOK'
    BY UsersAssumption, <1>9 DEF CommitLogin
  <1>10. ASSUME NEW r \in Requests, NEW s \in Sessions, BeginChange(r, s) PROVE TypeOK'
    BY UsersAssumption, <1>10 DEF BeginChange
  <1>11. ASSUME NEW r \in Requests, NEW u \in Users, NEW s \in Sessions,
              BeginCreate(r, s, u)
       PROVE  TypeOK'
    BY UsersAssumption, <1>11 DEF BeginCreate
  <1>12. ASSUME NEW r \in Requests, NEW u \in Users, NEW s \in Sessions, NEW active \in BOOLEAN,
              BeginSwitch(r, s, u, active)
       PROVE  TypeOK'
    BY UsersAssumption, <1>12 DEF BeginSwitch
  <1>13. ASSUME NEW r \in Requests, NEW p \in Passwords, CommitChange(r, p) PROVE TypeOK'
    BY UsersAssumption, <1>13 DEF CommitChange, Revoked
  <1>14. ASSUME NEW r \in Requests, CountAdmins(r) PROVE TypeOK'
    BY UsersAssumption, <1>14 DEF CountAdmins
  <1>15. ASSUME NEW r \in Requests, Abandon(r) PROVE TypeOK'
    BY UsersAssumption, <1>15 DEF Abandon
  <1>16. ASSUME UNCHANGED vars PROVE TypeOK'
    BY UsersAssumption, <1>16 DEF vars
  <1> QED
    BY <1>1, <1>2, <1>3, <1>4, <1>5, <1>6, <1>7, <1>8, <1>9, <1>10,
       <1>11, <1>12, <1>13, <1>14, <1>15, <1>16
    DEF Next

\* Accounts are never deleted.
LEMMA NextTargets == IInv /\ [Next]_vars => SwitchedExists'
  <1> SUFFICES ASSUME IInv, [Next]_vars PROVE SwitchedExists'
    OBVIOUS
  <1>1. ASSUME NEW r \in Requests, RevokeForChange(r) PROVE SwitchedExists'
    <2> USE DEF IInv, TypeOK, SwitchedExists
    <2>1. /\ StageRevocation(r, request[r].user, "changed")
          /\ UNCHANGED <<account, password, session, skewed>>
      BY <1>1 DEF RevokeForChange
    <2>2. request[r].user \in Users /\ request[r].step = "change"
      BY <1>1 DEF RevokeForChange, RequestType
    <2> QED
      BY <2>1, <2>2, Staging DEF OpenSessions
  <1>2. ASSUME NEW r \in Requests, RevokeForSwitch(r) PROVE SwitchedExists'
    <2> USE DEF IInv, TypeOK, SwitchedExists
    <2>1. /\ request[r].user \in Users
          /\ request[r].step \in {"switch", "counted"}
          /\ UNCHANGED <<account, password, session, skewed>>
      BY <1>2 DEF RevokeForSwitch, RequestType
    <2>2. CASE request[r].asked
      <3>1. /\ request'[r].step = "switched" /\ request'[r].user = request[r].user
            /\ request'[r].asked
            /\ \A q \in Requests \ {r} : request'[q] = request[q]
        BY <2>1, <2>2, <1>2 DEF RevokeForSwitch, RequestType
      <3> QED
        BY <2>1, <2>2, <3>1
    <2>3. CASE ~request[r].asked
      <3>1. StageRevocation(r, request[r].user, "switched")
        BY <2>3, <1>2 DEF RevokeForSwitch
      <3>2. request[r].user \in Admins => request[r].step = "counted"
        BY <2>3, <1>2 DEF RevokeForSwitch
      <3> QED
        BY <2>1, <2>3, <3>1, <3>2, Staging DEF OpenSessions
    <2> QED
      BY <2>2, <2>3
  <1> USE DEF IInv, TypeOK, SwitchedExists, SessionType, RequestType, Hash, Idle, Closed
  <1>3. ASSUME NEW p \in Passwords, Start(p) PROVE SwitchedExists'
    BY UsersAssumption, <1>3 DEF Start, OpenSessions, Revoked
  <1>4. ASSUME NEW s \in Sessions, Logout(s) PROVE SwitchedExists'
    BY UsersAssumption, <1>4 DEF Logout, Revoked
  <1>5. ASSUME NEW s \in Sessions, Expire(s) PROVE SwitchedExists'
    BY UsersAssumption, <1>5 DEF Expire, Revoked
  <1>6. ASSUME NEW r \in Requests, NEW u \in Users, BeginLogin(r, u) PROVE SwitchedExists'
    BY UsersAssumption, <1>6 DEF BeginLogin
  <1>7. ASSUME NEW r \in Requests, NEW s \in Sessions,
              CommitLogin(r, s)
       PROVE  SwitchedExists'
    BY UsersAssumption, <1>7 DEF CommitLogin
  <1>8. ASSUME NEW r \in Requests, NEW s \in Sessions,
              BeginChange(r, s)
       PROVE  SwitchedExists'
    BY UsersAssumption, <1>8 DEF BeginChange
  <1>9. ASSUME NEW r \in Requests, NEW u \in Users, NEW s \in Sessions,
              BeginCreate(r, s, u)
       PROVE  SwitchedExists'
    BY UsersAssumption, <1>9 DEF BeginCreate
  <1>10. ASSUME NEW r \in Requests, NEW u \in Users, NEW s \in Sessions, NEW active \in BOOLEAN,
              BeginSwitch(r, s, u, active)
       PROVE  SwitchedExists'
    BY UsersAssumption, <1>10 DEF BeginSwitch
  <1>11. ASSUME NEW r \in Requests, NEW p \in Passwords,
              CommitChange(r, p)
       PROVE  SwitchedExists'
    BY UsersAssumption, <1>11 DEF CommitChange, Revoked
  <1>12. ASSUME NEW r \in Requests, NEW p \in Passwords,
              CommitCreate(r, p)
       PROVE  SwitchedExists'
    BY UsersAssumption, <1>12 DEF CommitCreate
  <1>13. ASSUME NEW r \in Requests, CountAdmins(r) PROVE SwitchedExists'
    BY UsersAssumption, <1>13 DEF CountAdmins
  <1>14. ASSUME NEW r \in Requests, CommitSwitch(r) PROVE SwitchedExists'
    BY UsersAssumption, <1>14 DEF CommitSwitch, Revoked
  <1>15. ASSUME NEW r \in Requests, Abandon(r) PROVE SwitchedExists'
    BY UsersAssumption, <1>15 DEF Abandon
  <1>16. ASSUME UNCHANGED vars PROVE SwitchedExists'
    BY UsersAssumption, <1>16 DEF vars
  <1> QED
    BY <1>1, <1>2, <1>3, <1>4, <1>5, <1>6, <1>7, <1>8, <1>9, <1>10,
       <1>11, <1>12, <1>13, <1>14, <1>15, <1>16
    DEF Next

\* Only a disabling takes an administrator away, and it records what it overtakes.
LEMMA NextCount == IInv /\ [Next]_vars => CountHolds'
  <1> SUFFICES ASSUME IInv, [Next]_vars PROVE CountHolds'
    OBVIOUS
  <1>1. ASSUME NEW r \in Requests, RevokeForSwitch(r) PROVE CountHolds'
    <2> USE DEF IInv, TypeOK, CountHolds, Disabling, OtherActiveAdmin
    <2>1. /\ request[r].user \in Users
          /\ request[r].step \in {"switch", "counted"}
          /\ UNCHANGED <<account, password, session, skewed>>
      BY <1>1 DEF RevokeForSwitch, RequestType
    <2>2. CASE request[r].asked
      <3>1. /\ request'[r].step = "switched" /\ request'[r].user = request[r].user
            /\ request'[r].asked
            /\ \A q \in Requests \ {r} : request'[q] = request[q]
        BY <2>1, <2>2, <1>1 DEF RevokeForSwitch, RequestType
      <3> QED
        BY <2>1, <2>2, <3>1
    <2>3. CASE ~request[r].asked
      <3>1. StageRevocation(r, request[r].user, "switched")
        BY <2>3, <1>1 DEF RevokeForSwitch
      <3>2. request[r].user \in Admins => request[r].step = "counted"
        BY <2>3, <1>1 DEF RevokeForSwitch
      <3> QED
        BY <2>1, <2>3, <3>1, <3>2, Staging DEF OpenSessions
    <2> QED
      BY <2>2, <2>3
  <1> USE DEF IInv, TypeOK, CountHolds, Disabling, OtherActiveAdmin, SessionType,
              RequestType, Hash, Idle, Closed
  <1>2. ASSUME NEW p \in Passwords, Start(p) PROVE CountHolds'
    BY UsersAssumption, <1>2 DEF Start, OpenSessions, Revoked
  <1>3. ASSUME NEW s \in Sessions, Logout(s) PROVE CountHolds'
    BY UsersAssumption, <1>3 DEF Logout, Revoked
  <1>4. ASSUME NEW s \in Sessions, Expire(s) PROVE CountHolds'
    BY UsersAssumption, <1>4 DEF Expire, Revoked
  <1>5. ASSUME NEW r \in Requests, NEW u \in Users, BeginLogin(r, u) PROVE CountHolds'
    BY UsersAssumption, <1>5 DEF BeginLogin
  <1>6. ASSUME NEW r \in Requests, NEW s \in Sessions, CommitLogin(r, s) PROVE CountHolds'
    BY UsersAssumption, <1>6 DEF CommitLogin
  <1>7. ASSUME NEW r \in Requests, NEW s \in Sessions, BeginChange(r, s) PROVE CountHolds'
    BY UsersAssumption, <1>7 DEF BeginChange
  <1>8. ASSUME NEW r \in Requests, NEW u \in Users, NEW s \in Sessions,
              BeginCreate(r, s, u)
       PROVE  CountHolds'
    BY UsersAssumption, <1>8 DEF BeginCreate
  <1>9. ASSUME NEW r \in Requests, NEW u \in Users, NEW s \in Sessions, NEW active \in BOOLEAN,
              BeginSwitch(r, s, u, active)
       PROVE  CountHolds'
    BY UsersAssumption, <1>9 DEF BeginSwitch
  <1>10. ASSUME NEW r \in Requests, RevokeForChange(r) PROVE CountHolds'
    BY UsersAssumption, <1>10 DEF RevokeForChange, StageRevocation, OpenSessions
  <1>11. ASSUME NEW r \in Requests, NEW p \in Passwords,
              CommitChange(r, p)
       PROVE  CountHolds'
    BY UsersAssumption, <1>11 DEF CommitChange, Revoked
  <1>12. ASSUME NEW r \in Requests, NEW p \in Passwords,
              CommitCreate(r, p)
       PROVE  CountHolds'
    BY UsersAssumption, <1>12 DEF CommitCreate
  <1>13. ASSUME NEW r \in Requests, CountAdmins(r) PROVE CountHolds'
    BY UsersAssumption, <1>13 DEF CountAdmins
  <1>14. ASSUME NEW r \in Requests, CommitSwitch(r) PROVE CountHolds'
    BY UsersAssumption, <1>14 DEF CommitSwitch, Revoked
  <1>15. ASSUME NEW r \in Requests, Abandon(r) PROVE CountHolds'
    BY UsersAssumption, <1>15 DEF Abandon
  <1>16. ASSUME UNCHANGED vars PROVE CountHolds'
    BY UsersAssumption, <1>16 DEF vars
  <1> QED
    BY <1>1, <1>2, <1>3, <1>4, <1>5, <1>6, <1>7, <1>8, <1>9, <1>10,
       <1>11, <1>12, <1>13, <1>14, <1>15, <1>16
    DEF Next

\* The administrator that the check found survives the disabling.
LEMMA NextAdmin == IInv /\ [Next]_vars => AdminRemainsUnlessSkewed'
  <1> SUFFICES ASSUME IInv, [Next]_vars PROVE AdminRemainsUnlessSkewed'
    OBVIOUS
  <1> USE DEF IInv, TypeOK, CountHolds, AdminRemainsUnlessSkewed, Disabling,
              OtherActiveAdmin, SessionType, RequestType
  <1>1. ASSUME NEW p \in Passwords, Start(p) PROVE AdminRemainsUnlessSkewed'
    BY UsersAssumption, <1>1 DEF Start, OpenSessions, Revoked
  <1>2. ASSUME NEW s \in Sessions, Logout(s) PROVE AdminRemainsUnlessSkewed'
    BY UsersAssumption, <1>2 DEF Logout, Revoked
  <1>3. ASSUME NEW s \in Sessions, Expire(s) PROVE AdminRemainsUnlessSkewed'
    BY UsersAssumption, <1>3 DEF Expire, Revoked
  <1>4. ASSUME NEW r \in Requests, NEW u \in Users,
              BeginLogin(r, u)
       PROVE  AdminRemainsUnlessSkewed'
    BY UsersAssumption, <1>4 DEF BeginLogin
  <1>5. ASSUME NEW r \in Requests, NEW s \in Sessions,
              CommitLogin(r, s)
       PROVE  AdminRemainsUnlessSkewed'
    BY UsersAssumption, <1>5 DEF CommitLogin
  <1>6. ASSUME NEW r \in Requests, NEW s \in Sessions,
              BeginChange(r, s)
       PROVE  AdminRemainsUnlessSkewed'
    BY UsersAssumption, <1>6 DEF BeginChange
  <1>7. ASSUME NEW r \in Requests, NEW u \in Users, NEW s \in Sessions,
              BeginCreate(r, s, u)
       PROVE  AdminRemainsUnlessSkewed'
    BY UsersAssumption, <1>7 DEF BeginCreate
  <1>8. ASSUME NEW r \in Requests, NEW u \in Users, NEW s \in Sessions, NEW active \in BOOLEAN,
              BeginSwitch(r, s, u, active)
       PROVE  AdminRemainsUnlessSkewed'
    BY UsersAssumption, <1>8 DEF BeginSwitch
  <1>9. ASSUME NEW r \in Requests, RevokeForChange(r) PROVE AdminRemainsUnlessSkewed'
    BY UsersAssumption, <1>9 DEF RevokeForChange, StageRevocation, OpenSessions
  <1>10. ASSUME NEW r \in Requests, NEW p \in Passwords,
              CommitChange(r, p)
       PROVE  AdminRemainsUnlessSkewed'
    BY UsersAssumption, <1>10 DEF CommitChange, Revoked
  <1>11. ASSUME NEW r \in Requests, NEW p \in Passwords,
              CommitCreate(r, p)
       PROVE  AdminRemainsUnlessSkewed'
    BY UsersAssumption, <1>11 DEF CommitCreate
  <1>12. ASSUME NEW r \in Requests, CountAdmins(r) PROVE AdminRemainsUnlessSkewed'
    BY UsersAssumption, <1>12 DEF CountAdmins
  <1>13. ASSUME NEW r \in Requests, RevokeForSwitch(r) PROVE AdminRemainsUnlessSkewed'
    BY UsersAssumption, <1>13 DEF RevokeForSwitch, StageRevocation, OpenSessions
  <1>14. ASSUME NEW r \in Requests, CommitSwitch(r) PROVE AdminRemainsUnlessSkewed'
    BY UsersAssumption, <1>14 DEF CommitSwitch, Revoked
  <1>15. ASSUME NEW r \in Requests, Abandon(r) PROVE AdminRemainsUnlessSkewed'
    BY UsersAssumption, <1>15 DEF Abandon
  <1>16. ASSUME UNCHANGED vars PROVE AdminRemainsUnlessSkewed'
    BY UsersAssumption, <1>16 DEF vars
  <1> QED
    BY <1>1, <1>2, <1>3, <1>4, <1>5, <1>6, <1>7, <1>8, <1>9, <1>10,
       <1>11, <1>12, <1>13, <1>14, <1>15, <1>16
    DEF Next

\* A password or an account changes under late logins only.
LEMMA NextLogins == IInv /\ [Next]_vars => LoginsAreFresh'
  <1> SUFFICES ASSUME IInv, [Next]_vars PROVE LoginsAreFresh'
    OBVIOUS
  <1>1. ASSUME NEW r \in Requests, RevokeForChange(r) PROVE LoginsAreFresh'
    <2> USE DEF IInv, TypeOK, LoginsAreFresh
    <2>1. /\ StageRevocation(r, request[r].user, "changed")
          /\ UNCHANGED <<account, password, session, skewed>>
      BY <1>1 DEF RevokeForChange
    <2>2. request[r].user \in Users /\ request[r].step = "change"
      BY <1>1 DEF RevokeForChange, RequestType
    <2> QED
      BY <2>1, <2>2, Staging DEF OpenSessions
  <1>2. ASSUME NEW r \in Requests, RevokeForSwitch(r) PROVE LoginsAreFresh'
    <2> USE DEF IInv, TypeOK, LoginsAreFresh
    <2>1. /\ request[r].user \in Users
          /\ request[r].step \in {"switch", "counted"}
          /\ UNCHANGED <<account, password, session, skewed>>
      BY <1>2 DEF RevokeForSwitch, RequestType
    <2>2. CASE request[r].asked
      <3>1. /\ request'[r].step = "switched" /\ request'[r].user = request[r].user
            /\ request'[r].asked
            /\ \A q \in Requests \ {r} : request'[q] = request[q]
        BY <2>1, <2>2, <1>2 DEF RevokeForSwitch, RequestType
      <3> QED
        BY <2>1, <2>2, <3>1
    <2>3. CASE ~request[r].asked
      <3>1. StageRevocation(r, request[r].user, "switched")
        BY <2>3, <1>2 DEF RevokeForSwitch
      <3>2. request[r].user \in Admins => request[r].step = "counted"
        BY <2>3, <1>2 DEF RevokeForSwitch
      <3> QED
        BY <2>1, <2>3, <3>1, <3>2, Staging DEF OpenSessions
    <2> QED
      BY <2>2, <2>3
  <1> USE DEF IInv, TypeOK, LoginsAreFresh, StagedIsComplete, Revoking, BeingRevoked,
              SessionType, RequestType, Hash, Idle, Closed
  <1>3. ASSUME NEW p \in Passwords, Start(p) PROVE LoginsAreFresh'
    BY UsersAssumption, <1>3 DEF Start, OpenSessions, Revoked
  <1>4. ASSUME NEW s \in Sessions, Logout(s) PROVE LoginsAreFresh'
    BY UsersAssumption, <1>4 DEF Logout, Revoked
  <1>5. ASSUME NEW s \in Sessions, Expire(s) PROVE LoginsAreFresh'
    BY UsersAssumption, <1>5 DEF Expire, Revoked
  <1>6. ASSUME NEW r \in Requests, NEW u \in Users, BeginLogin(r, u) PROVE LoginsAreFresh'
    BY UsersAssumption, <1>6 DEF BeginLogin
  <1>7. ASSUME NEW r \in Requests, NEW s \in Sessions,
              CommitLogin(r, s)
       PROVE  LoginsAreFresh'
    BY UsersAssumption, <1>7 DEF CommitLogin
  <1>8. ASSUME NEW r \in Requests, NEW s \in Sessions,
              BeginChange(r, s)
       PROVE  LoginsAreFresh'
    BY UsersAssumption, <1>8 DEF BeginChange
  <1>9. ASSUME NEW r \in Requests, NEW u \in Users, NEW s \in Sessions,
              BeginCreate(r, s, u)
       PROVE  LoginsAreFresh'
    BY UsersAssumption, <1>9 DEF BeginCreate
  <1>10. ASSUME NEW r \in Requests, NEW u \in Users, NEW s \in Sessions, NEW active \in BOOLEAN,
              BeginSwitch(r, s, u, active)
       PROVE  LoginsAreFresh'
    BY UsersAssumption, <1>10 DEF BeginSwitch
  <1>11. ASSUME NEW r \in Requests, NEW p \in Passwords,
              CommitChange(r, p)
       PROVE  LoginsAreFresh'
    BY UsersAssumption, <1>11 DEF CommitChange, Revoked
  <1>12. ASSUME NEW r \in Requests, NEW p \in Passwords,
              CommitCreate(r, p)
       PROVE  LoginsAreFresh'
    BY UsersAssumption, <1>12 DEF CommitCreate
  <1>13. ASSUME NEW r \in Requests, CountAdmins(r) PROVE LoginsAreFresh'
    BY UsersAssumption, <1>13 DEF CountAdmins
  <1>14. ASSUME NEW r \in Requests, CommitSwitch(r) PROVE LoginsAreFresh'
    BY UsersAssumption, <1>14 DEF CommitSwitch, Revoked
  <1>15. ASSUME NEW r \in Requests, Abandon(r) PROVE LoginsAreFresh'
    BY UsersAssumption, <1>15 DEF Abandon
  <1>16. ASSUME UNCHANGED vars PROVE LoginsAreFresh'
    BY UsersAssumption, <1>16 DEF vars
  <1> QED
    BY <1>1, <1>2, <1>3, <1>4, <1>5, <1>6, <1>7, <1>8, <1>9, <1>10,
       <1>11, <1>12, <1>13, <1>14, <1>15, <1>16
    DEF Next

\* While a revocation is pending, only late sessions open.
LEMMA NextStaged == IInv /\ [Next]_vars => StagedIsComplete'
  <1> SUFFICES ASSUME IInv, [Next]_vars PROVE StagedIsComplete'
    OBVIOUS
  <1>1. ASSUME NEW r \in Requests, RevokeForChange(r) PROVE StagedIsComplete'
    <2> USE DEF IInv, TypeOK, StagedIsComplete, Revoking
    <2>1. /\ StageRevocation(r, request[r].user, "changed")
          /\ UNCHANGED <<account, password, session, skewed>>
      BY <1>1 DEF RevokeForChange
    <2>2. request[r].user \in Users /\ request[r].step = "change"
      BY <1>1 DEF RevokeForChange, RequestType
    <2> QED
      BY <2>1, <2>2, Staging DEF OpenSessions
  <1>2. ASSUME NEW r \in Requests, RevokeForSwitch(r) PROVE StagedIsComplete'
    <2> USE DEF IInv, TypeOK, StagedIsComplete, Revoking
    <2>1. /\ request[r].user \in Users
          /\ request[r].step \in {"switch", "counted"}
          /\ UNCHANGED <<account, password, session, skewed>>
      BY <1>2 DEF RevokeForSwitch, RequestType
    <2>2. CASE request[r].asked
      <3>1. /\ request'[r].step = "switched" /\ request'[r].user = request[r].user
            /\ request'[r].asked
            /\ \A q \in Requests \ {r} : request'[q] = request[q]
        BY <2>1, <2>2, <1>2 DEF RevokeForSwitch, RequestType
      <3> QED
        BY <2>1, <2>2, <3>1
    <2>3. CASE ~request[r].asked
      <3>1. StageRevocation(r, request[r].user, "switched")
        BY <2>3, <1>2 DEF RevokeForSwitch
      <3>2. request[r].user \in Admins => request[r].step = "counted"
        BY <2>3, <1>2 DEF RevokeForSwitch
      <3> QED
        BY <2>1, <2>3, <3>1, <3>2, Staging DEF OpenSessions
    <2> QED
      BY <2>2, <2>3
  <1> USE DEF IInv, TypeOK, StagedIsComplete, Revoking, BeingRevoked, SessionType,
              RequestType, Hash, Idle, Closed
  <1>3. ASSUME NEW p \in Passwords, Start(p) PROVE StagedIsComplete'
    BY UsersAssumption, <1>3 DEF Start, OpenSessions, Revoked
  <1>4. ASSUME NEW s \in Sessions, Logout(s) PROVE StagedIsComplete'
    BY UsersAssumption, <1>4 DEF Logout, Revoked
  <1>5. ASSUME NEW s \in Sessions, Expire(s) PROVE StagedIsComplete'
    BY UsersAssumption, <1>5 DEF Expire, Revoked
  <1>6. ASSUME NEW r \in Requests, NEW u \in Users,
              BeginLogin(r, u)
       PROVE  StagedIsComplete'
    BY UsersAssumption, <1>6 DEF BeginLogin
  <1>7. ASSUME NEW r \in Requests, NEW s \in Sessions,
              CommitLogin(r, s)
       PROVE  StagedIsComplete'
    BY UsersAssumption, <1>7 DEF CommitLogin
  <1>8. ASSUME NEW r \in Requests, NEW s \in Sessions,
              BeginChange(r, s)
       PROVE  StagedIsComplete'
    BY UsersAssumption, <1>8 DEF BeginChange
  <1>9. ASSUME NEW r \in Requests, NEW u \in Users, NEW s \in Sessions,
              BeginCreate(r, s, u)
       PROVE  StagedIsComplete'
    BY UsersAssumption, <1>9 DEF BeginCreate
  <1>10. ASSUME NEW r \in Requests, NEW u \in Users, NEW s \in Sessions, NEW active \in BOOLEAN,
              BeginSwitch(r, s, u, active)
       PROVE  StagedIsComplete'
    BY UsersAssumption, <1>10 DEF BeginSwitch
  <1>11. ASSUME NEW r \in Requests, NEW p \in Passwords,
              CommitChange(r, p)
       PROVE  StagedIsComplete'
    BY UsersAssumption, <1>11 DEF CommitChange, Revoked
  <1>12. ASSUME NEW r \in Requests, NEW p \in Passwords,
              CommitCreate(r, p)
       PROVE  StagedIsComplete'
    BY UsersAssumption, <1>12 DEF CommitCreate
  <1>13. ASSUME NEW r \in Requests, CountAdmins(r) PROVE StagedIsComplete'
    BY UsersAssumption, <1>13 DEF CountAdmins
  <1>14. ASSUME NEW r \in Requests, CommitSwitch(r) PROVE StagedIsComplete'
    BY UsersAssumption, <1>14 DEF CommitSwitch, Revoked
  <1>15. ASSUME NEW r \in Requests, Abandon(r) PROVE StagedIsComplete'
    BY UsersAssumption, <1>15 DEF Abandon
  <1>16. ASSUME UNCHANGED vars PROVE StagedIsComplete'
    BY UsersAssumption, <1>16 DEF vars
  <1> QED
    BY <1>1, <1>2, <1>3, <1>4, <1>5, <1>6, <1>7, <1>8, <1>9, <1>10,
       <1>11, <1>12, <1>13, <1>14, <1>15, <1>16
    DEF Next

\* A commit that ends sessions leaves none but those of late logins.
LEMMA NextRevocation == IInv /\ [Next]_vars => RevocationIsComplete'
  <1> SUFFICES ASSUME IInv, [Next]_vars PROVE RevocationIsComplete'
    OBVIOUS
  <1> USE DEF IInv, TypeOK, RevocationIsComplete, LoginsAreFresh, StagedIsComplete,
              Revoking, SessionType, RequestType, Hash, Idle, Closed
  <1>1. ASSUME NEW p \in Passwords, Start(p) PROVE RevocationIsComplete'
    BY UsersAssumption, <1>1 DEF Start, OpenSessions, Revoked
  <1>2. ASSUME NEW s \in Sessions, Logout(s) PROVE RevocationIsComplete'
    BY UsersAssumption, <1>2 DEF Logout, Revoked
  <1>3. ASSUME NEW s \in Sessions, Expire(s) PROVE RevocationIsComplete'
    BY UsersAssumption, <1>3 DEF Expire, Revoked
  <1>4. ASSUME NEW r \in Requests, NEW u \in Users,
              BeginLogin(r, u)
       PROVE  RevocationIsComplete'
    BY UsersAssumption, <1>4 DEF BeginLogin
  <1>5. ASSUME NEW r \in Requests, NEW s \in Sessions,
              CommitLogin(r, s)
       PROVE  RevocationIsComplete'
    BY UsersAssumption, <1>5 DEF CommitLogin
  <1>6. ASSUME NEW r \in Requests, NEW s \in Sessions,
              BeginChange(r, s)
       PROVE  RevocationIsComplete'
    BY UsersAssumption, <1>6 DEF BeginChange
  <1>7. ASSUME NEW r \in Requests, NEW u \in Users, NEW s \in Sessions,
              BeginCreate(r, s, u)
       PROVE  RevocationIsComplete'
    BY UsersAssumption, <1>7 DEF BeginCreate
  <1>8. ASSUME NEW r \in Requests, NEW u \in Users, NEW s \in Sessions, NEW active \in BOOLEAN,
              BeginSwitch(r, s, u, active)
       PROVE  RevocationIsComplete'
    BY UsersAssumption, <1>8 DEF BeginSwitch
  <1>9. ASSUME NEW r \in Requests, RevokeForChange(r) PROVE RevocationIsComplete'
    BY UsersAssumption, <1>9 DEF RevokeForChange, StageRevocation, OpenSessions
  <1>10. ASSUME NEW r \in Requests, NEW p \in Passwords,
              CommitChange(r, p)
       PROVE  RevocationIsComplete'
    BY UsersAssumption, <1>10 DEF CommitChange, Revoked
  <1>11. ASSUME NEW r \in Requests, NEW p \in Passwords,
              CommitCreate(r, p)
       PROVE  RevocationIsComplete'
    BY UsersAssumption, <1>11 DEF CommitCreate
  <1>12. ASSUME NEW r \in Requests, CountAdmins(r) PROVE RevocationIsComplete'
    BY UsersAssumption, <1>12 DEF CountAdmins
  <1>13. ASSUME NEW r \in Requests, RevokeForSwitch(r) PROVE RevocationIsComplete'
    BY UsersAssumption, <1>13 DEF RevokeForSwitch, StageRevocation, OpenSessions
  <1>14. ASSUME NEW r \in Requests, CommitSwitch(r) PROVE RevocationIsComplete'
    BY UsersAssumption, <1>14 DEF CommitSwitch, Revoked
  <1>15. ASSUME NEW r \in Requests, Abandon(r) PROVE RevocationIsComplete'
    BY UsersAssumption, <1>15 DEF Abandon
  <1>16. ASSUME UNCHANGED vars PROVE RevocationIsComplete'
    BY UsersAssumption, <1>16 DEF vars
  <1> QED
    BY <1>1, <1>2, <1>3, <1>4, <1>5, <1>6, <1>7, <1>8, <1>9, <1>10,
       <1>11, <1>12, <1>13, <1>14, <1>15, <1>16
    DEF Next

-----------------------------------------------------------------------------
\* The invariant holds of every reachable state.
LEMMA Invariance == Spec => []IInv
  <1>1. IInv /\ [Next]_vars => IInv'
    BY NextType, NextTargets, NextCount, NextAdmin, NextLogins, NextStaged, NextRevocation
    DEF IInv
  <1> QED
    BY InitIInv, <1>1, PTL DEF Spec

\* Type correctness of accounts, hashes, sessions and requests.
THEOREM TypeCorrectness == Spec => []TypeOK
  <1>1. IInv => TypeOK
    BY DEF IInv
  <1> QED
    BY Invariance, <1>1, PTL

\* Whatever set of administrators, requests and restarts: an active administrator
\* remains unless a commit has overtaken the check of a pending disabling.
THEOREM AnAdministratorRemains == Spec => []AdminRemainsUnlessSkewed
  <1>1. IInv => AdminRemainsUnlessSkewed
    BY DEF IInv
  <1> QED
    BY Invariance, <1>1, PTL

\* A session open under an old password or a disabled account can only come from a
\* login that was in flight during the revocation.
THEOREM RevocationsAreComplete == Spec => []RevocationIsComplete
  <1>1. IInv => RevocationIsComplete
    BY DEF IInv
  <1> QED
    BY Invariance, <1>1, PTL
=============================================================================
