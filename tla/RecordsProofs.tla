--------------------------- MODULE RecordsProofs ----------------------------
(***************************************************************************)
(* Proofs about the records that many requests share: the accounts and     *)
(* their sessions, the rate limits, the reports with their links, and what *)
(* they say side by side in MCRecords.                                     *)
(***************************************************************************)
EXTENDS MCRecords, TestRunsProofs, FiniteSetTheorems, SequenceTheorems, TLAPS

-----------------------------------------------------------------------------
(* The accounts.                                                           *)

User == [status : {"absent", "active", "gone"}, email : Emails \union {"none"}, password : Passwords \union {NoPassword}]
SessionRow == [status : {"unused", "live", "expired", "ended"}, owner : Accounts \union {NoAccount}]
ResetRow == [status : {"unused", "open", "over", "gone"}, owner : Accounts \union {NoAccount}]

AccountsTypeOK ==
    /\ users \in [Accounts -> User]
    /\ sessions \in [Sessions -> SessionRow]
    /\ resets \in [Resets -> ResetRow]
    /\ caller \in [Callers -> Waiting]

\* What a request that waits remembers: an account it read, the reset of that
\* account it was sent, and that the password typed was the current one.
CallersRemember ==
    \A c \in Callers :
        /\ caller[c].op \in {"login", "reset", "patch", "rehash", "delete"} => caller[c].account \in Accounts
        /\ caller[c].op = "rehash" => caller[c].verified
        /\ caller[c].op = "reset" => /\ caller[c].reset \in Resets
                                     /\ resets[caller[c].reset].owner = caller[c].account
                                     /\ resets[caller[c].reset].status # "unused"

AccountsInv == AccountsTypeOK /\ CallersRemember /\ AccountsHold

\* A request that begins.
Begins(c) ==
    \/ \E e \in Emails, p \in Passwords : signupReads(c, e, p) \/ loginReads(c, e, p)
    \/ \E t \in Resets, p \in Passwords : resetReads(c, t, p)
    \/ \E s \in Sessions : deleteReads(c, s)
    \/ \E s \in Sessions, e \in Emails, p \in Passwords, new \in Passwords \union {NoPassword} : patchReads(c, s, e, p, new)

LEMMA ActionsOfAccounts ==
    ASSUME [AccountsNext]_acVariables
    PROVE  \/ UNCHANGED acVariables
           \/ \E c \in Callers : Begins(c)
           \/ \E c \in Callers : \/ signupCreates(c) \/ loginOpens(c) \/ resetApplies(c) \/ patchSaves(c)
                                 \/ patchRehashes(c) \/ deleteAccount(c)
           \/ \E s \in Sessions : logout(s) \/ logoutAllSessions(s) \/ sessionExpires(s)
           \/ \E e \in Emails : issuePasswordReset(e)
           \/ \E t \in Resets : resetExpires(t)
           \/ cleanupExpiredSessions
           \/ deleteExpiredPasswordResets
BY DEF AccountsNext, Begins

LEMMA RequestsAreWaiting ==
    /\ NotWaiting \in Waiting
    /\ [NotWaiting EXCEPT !.op = "answered"] \in Waiting
    /\ \A e \in Emails, p \in Passwords :
          /\ [NotWaiting EXCEPT !.op = "signup", !.email = e, !.new = p] \in Waiting
          /\ \A a \in Accounts, v \in BOOLEAN :
                [NotWaiting EXCEPT !.op = "login", !.account = a, !.verified = v] \in Waiting
    /\ \A a \in Accounts \union {NoAccount} :
          /\ \A t \in Resets, p \in Passwords :
                [NotWaiting EXCEPT !.op = "reset", !.account = a, !.new = p, !.reset = t] \in Waiting
          /\ \A e \in Emails, v \in BOOLEAN, new \in Passwords \union {NoPassword} :
                [NotWaiting EXCEPT !.op = "patch", !.account = a, !.email = e, !.verified = v, !.new = new] \in Waiting
          /\ [NotWaiting EXCEPT !.op = "delete", !.account = a] \in Waiting
BY DEF NotWaiting, Waiting

LEMMA CallerTypes ==
    ASSUME caller \in [Callers -> Waiting], NEW c \in Callers
    PROVE  /\ \A request \in Waiting : Waits(c, request) => caller' \in [Callers -> Waiting]
           /\ Answers(c) => caller' \in [Callers -> Waiting]
BY RequestsAreWaiting DEF Waits, Answers

LEMMA RowTypes ==
    ASSUME AccountsTypeOK
    PROVE  /\ \A a, spared : deleteAllSessionsForUser(a, spared) => sessions' \in [Sessions -> SessionRow]
           /\ \A a \in Accounts, s \in Sessions : startSession(s, a) => sessions' \in [Sessions -> SessionRow]
           /\ \A s \in Sessions : endSession(s) => sessions' \in [Sessions -> SessionRow]
           /\ \A a \in Accounts, p \in Passwords \union {NoPassword} :
                updateUserPassword(a, p) => users' \in [Accounts -> User]
           /\ \A a \in Accounts, e \in Emails \union {"none"} :
                updateUserProfile(a, e) => users' \in [Accounts -> User]
           /\ \A a \in Accounts, e \in Emails \union {"none"}, p \in Passwords \union {NoPassword} :
                createUser(a, e, p) => users' \in [Accounts -> User]
           /\ \A a : invalidated(a) \in [Resets -> ResetRow]
<1> USE DEF AccountsTypeOK
<1>1. \A a, spared : deleteAllSessionsForUser(a, spared) => sessions' \in [Sessions -> SessionRow]
  BY DEF deleteAllSessionsForUser, SessionRow
<1>2. \A a \in Accounts, s \in Sessions : startSession(s, a) => sessions' \in [Sessions -> SessionRow]
  BY DEF startSession, SessionRow
<1>3. \A s \in Sessions : endSession(s) => sessions' \in [Sessions -> SessionRow]
  BY DEF endSession, SessionRow
<1>4. \A a \in Accounts, p \in Passwords \union {NoPassword} : updateUserPassword(a, p) => users' \in [Accounts -> User]
  BY DEF updateUserPassword, User
<1>5. \A a \in Accounts, e \in Emails \union {"none"} : updateUserProfile(a, e) => users' \in [Accounts -> User]
  BY DEF updateUserProfile, User
<1>6. \A a \in Accounts, e \in Emails \union {"none"}, p \in Passwords \union {NoPassword} :
          createUser(a, e, p) => users' \in [Accounts -> User]
  BY DEF createUser, User
<1>7. \A a : invalidated(a) \in [Resets -> ResetRow]
  BY DEF invalidated, ResetRow
<1>8. QED
  BY <1>1, <1>2, <1>3, <1>4, <1>5, <1>6, <1>7

LEMMA ReadsTypes == ASSUME AccountsTypeOK, NEW c \in Callers, Begins(c) PROVE AccountsTypeOK'
<1>2. UNCHANGED <<users, sessions, resets>>
  BY DEF Begins, signupReads, loginReads, resetReads, deleteReads, patchReads
<1>3. (\E request \in Waiting : Waits(c, request)) => AccountsTypeOK'
  BY <1>2, CallerTypes DEF AccountsTypeOK
<1>4. ASSUME NEW e \in Emails, NEW p \in Passwords, signupReads(c, e, p) PROVE AccountsTypeOK'
  BY <1>3, <1>4, RequestsAreWaiting DEF signupReads
<1>5. ASSUME NEW e \in Emails, NEW p \in Passwords, loginReads(c, e, p) PROVE AccountsTypeOK'
  <2>1. PICK a \in Accounts : Waits(c, [NotWaiting EXCEPT !.op = "login", !.account = a, !.verified = (p = users[a].password)])
    BY <1>5 DEF loginReads, findUserByEmail
  <2>2. (p = users[a].password) \in BOOLEAN
    OBVIOUS
  <2>3. QED
    BY <1>3, <2>1, <2>2, RequestsAreWaiting
<1>6. ASSUME NEW t \in Resets, NEW p \in Passwords, resetReads(c, t, p) PROVE AccountsTypeOK'
  BY <1>3, <1>6, RequestsAreWaiting DEF resetReads, AccountsTypeOK, ResetRow
<1>7. ASSUME NEW s \in Sessions, deleteReads(c, s) PROVE AccountsTypeOK'
  BY <1>3, <1>7, RequestsAreWaiting DEF deleteReads, AccountsTypeOK, SessionRow
<1>8. ASSUME NEW s \in Sessions, NEW e \in Emails, NEW p \in Passwords, NEW new \in Passwords \union {NoPassword},
             patchReads(c, s, e, p, new)
      PROVE  AccountsTypeOK'
  <2>1. (p = users[sessions[s].owner].password) \in BOOLEAN /\ sessions[s].owner \in Accounts \union {NoAccount}
    BY DEF AccountsTypeOK, SessionRow
  <2>2. QED
    BY <1>3, <1>8, <2>1, RequestsAreWaiting DEF patchReads
<1>9. QED
  BY <1>4, <1>5, <1>6, <1>7, <1>8 DEF Begins

LEMMA AccountsTypes == AccountsTypeOK /\ CallersRemember /\ [AccountsNext]_acVariables => AccountsTypeOK'
<1> SUFFICES ASSUME AccountsTypeOK, CallersRemember, [AccountsNext]_acVariables PROVE AccountsTypeOK'
  OBVIOUS
<1>1. CASE UNCHANGED acVariables
  BY <1>1 DEF AccountsTypeOK, acVariables
<1>2. \A c \in Callers : /\ caller[c].email \in Emails \union {"none"}
                         /\ caller[c].new \in Passwords \union {NoPassword}
  BY DEF AccountsTypeOK, Waiting
<1>3. ASSUME NEW c \in Callers, signupCreates(c) PROVE AccountsTypeOK'
  <2>1. caller' \in [Callers -> Waiting] /\ UNCHANGED resets
    BY <1>3, CallerTypes DEF signupCreates, AccountsTypeOK
  <2>2. \/ \E a \in Accounts, s \in Sessions : createUser(a, caller[c].email, caller[c].new) /\ startSession(s, a)
        \/ UNCHANGED <<users, sessions>>
    BY <1>3 DEF signupCreates
  <2>3. QED
    BY <2>1, <2>2, <1>2, RowTypes DEF AccountsTypeOK
<1>4. ASSUME NEW c \in Callers, loginOpens(c) PROVE AccountsTypeOK'
  <2>1. caller' \in [Callers -> Waiting] /\ UNCHANGED <<users, resets>>
    BY <1>4, CallerTypes DEF loginOpens, AccountsTypeOK
  <2>2. (\E s \in Sessions : startSession(s, caller[c].account)) \/ UNCHANGED sessions
    BY <1>4 DEF loginOpens
  <2>3. QED
    BY <1>4, <2>1, <2>2, RowTypes DEF AccountsTypeOK, CallersRemember, loginOpens
<1>5. ASSUME NEW c \in Callers, resetApplies(c) PROVE AccountsTypeOK'
  <2>1. users' \in [Accounts -> User] /\ sessions' \in [Sessions -> SessionRow]
    BY <1>2, <1>5, RowTypes DEF resetApplies, CallersRemember
  <2>2. resets' = [invalidated(caller[c].account) EXCEPT ![caller[c].reset].status = IF @ = "open" THEN "over" ELSE @]
    BY <1>5 DEF resetApplies
  <2>3. ASSUME NEW f \in [Resets -> ResetRow], NEW t,
               resets' = [f EXCEPT ![t].status = IF @ = "open" THEN "over" ELSE @]
        PROVE  resets' \in [Resets -> ResetRow]
    BY <2>3 DEF ResetRow
  <2>4. resets' \in [Resets -> ResetRow]
    BY <2>2, <2>3, RowTypes
  <2>5. QED
    BY <1>5, <2>1, <2>4, CallerTypes DEF AccountsTypeOK, resetApplies
<1>6. ASSUME NEW c \in Callers, patchSaves(c) PROVE AccountsTypeOK'
  <2>1. users' \in [Accounts -> User]
    BY <1>2, <1>6, RowTypes DEF patchSaves, CallersRemember, AccountsTypeOK
  <2>2. caller' \in [Callers -> Waiting]
    <3>1. CASE Answers(c)
      BY <3>1, CallerTypes DEF AccountsTypeOK
    <3>2. CASE caller' = [caller EXCEPT ![c].op = "rehash"]
      BY <3>2 DEF AccountsTypeOK, Waiting
    <3>3. QED
      BY <1>6, <3>1, <3>2 DEF patchSaves
  <2>3. QED
    BY <1>6, <2>1, <2>2 DEF AccountsTypeOK, patchSaves
<1>7. ASSUME NEW c \in Callers, patchRehashes(c) PROVE AccountsTypeOK'
  BY <1>2, <1>7, CallerTypes, RowTypes DEF AccountsTypeOK, patchRehashes, CallersRemember
<1>8. ASSUME NEW c \in Callers, deleteAccount(c) PROVE AccountsTypeOK'
  <2>1. caller' \in [Callers -> Waiting]
    BY <1>8, CallerTypes DEF deleteAccount, AccountsTypeOK
  <2>2. CASE UNCHANGED <<users, sessions, resets>>
    BY <2>1, <2>2 DEF AccountsTypeOK
  <2>3. ASSUME users' = [users EXCEPT ![caller[c].account].status = "gone"],
               deleteAllSessionsForUser(caller[c].account, {}),
               resets' = [t \in Resets |-> IF resets[t].owner = caller[c].account
                                           THEN [resets[t] EXCEPT !.status = "gone"] ELSE resets[t]]
        PROVE  AccountsTypeOK'
    <3>1. users' \in [Accounts -> User]
      BY <2>3 DEF AccountsTypeOK, User
    <3>2. resets' \in [Resets -> ResetRow]
      BY <2>3 DEF AccountsTypeOK, ResetRow
    <3>3. sessions' \in [Sessions -> SessionRow]
      BY <2>3, RowTypes
    <3>4. QED
      BY <2>1, <3>1, <3>2, <3>3 DEF AccountsTypeOK
  <2>4. QED
    BY <1>8, <2>2, <2>3 DEF deleteAccount
<1>9. ASSUME NEW s \in Sessions, logout(s) \/ logoutAllSessions(s) \/ sessionExpires(s) PROVE AccountsTypeOK'
  <2>1. sessions' = [sessions EXCEPT ![s].status = "expired"] => sessions' \in [Sessions -> SessionRow]
    BY DEF AccountsTypeOK, SessionRow
  <2>2. QED
    BY <1>9, <2>1, RowTypes DEF AccountsTypeOK, logout, logoutAllSessions, sessionExpires
<1>10. ASSUME NEW e \in Emails, issuePasswordReset(e) PROVE AccountsTypeOK'
  <2>1. PICK a \in Accounts, t \in Resets : resets' = [invalidated(a) EXCEPT ![t] = [status |-> "open", owner |-> a]]
    BY <1>10 DEF issuePasswordReset, findUserByEmail
  <2>2. resets' \in [Resets -> ResetRow]
    BY <2>1, RowTypes DEF ResetRow
  <2>3. QED
    BY <1>10, <2>2 DEF AccountsTypeOK, issuePasswordReset
<1>11. ASSUME NEW t \in Resets, resetExpires(t) PROVE AccountsTypeOK'
  BY <1>11 DEF resetExpires, AccountsTypeOK, ResetRow
<1>12. CASE cleanupExpiredSessions
  BY <1>12 DEF cleanupExpiredSessions, AccountsTypeOK, SessionRow
<1>13. CASE deleteExpiredPasswordResets
  BY <1>13 DEF deleteExpiredPasswordResets, AccountsTypeOK, ResetRow
<1>14. QED
  BY ActionsOfAccounts, ReadsTypes, <1>1, <1>3, <1>4, <1>5, <1>6, <1>7, <1>8, <1>9, <1>10, <1>11, <1>12, <1>13

LEMMA ReadsKeepRows == ASSUME NEW c, Begins(c) PROVE UNCHANGED <<users, sessions, resets>>
BY DEF Begins, signupReads, loginReads, resetReads, deleteReads, patchReads

\* A reset that was asked for keeps its account, and a session its owner.
LEMMA OwnersStay ==
    ASSUME AccountsTypeOK, CallersRemember, [AccountsNext]_acVariables
    PROVE  /\ \A t \in Resets : resets[t].status # "unused" =>
                  resets'[t].status # "unused" /\ resets'[t].owner = resets[t].owner
           /\ \A s \in Sessions : sessions[s].status # "unused" =>
                  sessions'[s].status # "unused" /\ sessions'[s].owner = sessions[s].owner
<1> USE DEF AccountsTypeOK
<1>1. \A c \in Callers : caller[c].op = "reset" => caller[c].reset \in Resets
  BY DEF CallersRemember
<1>2. ASSUME NEW a, NEW spared, deleteAllSessionsForUser(a, spared)
      PROVE  \A s \in Sessions : sessions[s].status # "unused" =>
                  sessions'[s].status # "unused" /\ sessions'[s].owner = sessions[s].owner
  BY <1>2 DEF deleteAllSessionsForUser, SessionRow
<1>3. \A a : \A t \in Resets : resets[t].status # "unused" =>
                  invalidated(a)[t].status # "unused" /\ invalidated(a)[t].owner = resets[t].owner
  BY DEF invalidated, ResetRow
<1>4. CASE UNCHANGED acVariables \/ \E c \in Callers : Begins(c)
  BY <1>4, ReadsKeepRows DEF acVariables
<1>5. ASSUME NEW c \in Callers, signupCreates(c) \/ loginOpens(c) \/ patchSaves(c)
      PROVE  /\ UNCHANGED resets
             /\ \A s \in Sessions : sessions[s].status # "unused" => sessions'[s] = sessions[s]
  BY <1>5 DEF signupCreates, loginOpens, startSession, patchSaves
<1>6. ASSUME NEW c \in Callers, patchRehashes(c) PROVE deleteAllSessionsForUser(caller[c].account, {}) /\ UNCHANGED resets
  BY <1>6 DEF patchRehashes
<1>7. ASSUME NEW c \in Callers, resetApplies(c)
      PROVE  /\ deleteAllSessionsForUser(caller[c].account, {})
             /\ \A t \in Resets : resets[t].status # "unused" =>
                  resets'[t].status # "unused" /\ resets'[t].owner = resets[t].owner
  <2>1. resets' = [invalidated(caller[c].account) EXCEPT ![caller[c].reset].status = IF @ = "open" THEN "over" ELSE @]
    BY <1>7 DEF resetApplies
  <2>2. ASSUME NEW f \in [Resets -> ResetRow], NEW u,
               resets' = [f EXCEPT ![u].status = IF @ = "open" THEN "over" ELSE @]
        PROVE  \A t \in Resets : f[t].status # "unused" => resets'[t].status # "unused" /\ resets'[t].owner = f[t].owner
    BY <2>2 DEF ResetRow
  <2>3. QED
    BY <1>3, <1>7, <2>1, <2>2, RowTypes DEF resetApplies
<1>8. ASSUME NEW c \in Callers, deleteAccount(c)
      PROVE  /\ deleteAllSessionsForUser(caller[c].account, {}) \/ UNCHANGED sessions
             /\ \A t \in Resets : resets[t].status # "unused" =>
                  resets'[t].status # "unused" /\ resets'[t].owner = resets[t].owner
  BY <1>8 DEF deleteAccount, ResetRow
<1>9. ASSUME NEW s \in Sessions, logout(s) \/ logoutAllSessions(s) \/ sessionExpires(s)
      PROVE  /\ UNCHANGED resets
             /\ \/ deleteAllSessionsForUser(sessions[s].owner, {s})
                \/ \E over \in {"ended", "expired"} : sessions' = [sessions EXCEPT ![s].status = over]
  BY <1>9 DEF logout, logoutAllSessions, sessionExpires, endSession
<1>10. ASSUME NEW s \in Sessions, NEW over \in {"ended", "expired"}, sessions' = [sessions EXCEPT ![s].status = over]
       PROVE  \A r \in Sessions : sessions[r].status # "unused" =>
                  sessions'[r].status # "unused" /\ sessions'[r].owner = sessions[r].owner
  BY <1>10 DEF SessionRow
<1>11. ASSUME NEW e \in Emails, issuePasswordReset(e)
       PROVE  /\ UNCHANGED sessions
              /\ \A t \in Resets : resets[t].status # "unused" =>
                  resets'[t].status # "unused" /\ resets'[t].owner = resets[t].owner
  <2>1. PICK a \in findUserByEmail(e), u \in Resets : /\ resets[u].status = "unused"
                               /\ resets' = [invalidated(a) EXCEPT ![u] = [status |-> "open", owner |-> a]]
    BY <1>11 DEF issuePasswordReset
  <2>2. QED
    BY <1>3, <1>11, <2>1, RowTypes DEF issuePasswordReset
<1>12. ASSUME NEW t \in Resets, resetExpires(t)
       PROVE  /\ UNCHANGED sessions
              /\ \A u \in Resets : resets[u].status # "unused" =>
                  resets'[u].status # "unused" /\ resets'[u].owner = resets[u].owner
  BY <1>12 DEF resetExpires, ResetRow
<1>13. cleanupExpiredSessions => /\ UNCHANGED resets
                                 /\ \A s \in Sessions : sessions[s].status # "unused" =>
                                      sessions'[s].status # "unused" /\ sessions'[s].owner = sessions[s].owner
  BY DEF cleanupExpiredSessions, SessionRow
<1>14. deleteExpiredPasswordResets => /\ UNCHANGED sessions
                                      /\ \A t \in Resets : resets[t].status # "unused" =>
                                           resets'[t].status # "unused" /\ resets'[t].owner = resets[t].owner
  BY DEF deleteExpiredPasswordResets, ResetRow
<1>15. QED
  BY ActionsOfAccounts, <1>2, <1>4, <1>5, <1>6, <1>7, <1>8, <1>9, <1>10, <1>11, <1>12, <1>13, <1>14

\* A request that is answered remembers nothing that matters.
LEMMA CallersGoOn ==
    ASSUME AccountsTypeOK, CallersRemember, CredentialsAreOwned, [AccountsNext]_acVariables, NEW c \in Callers
    PROVE  \/ caller'[c] = caller[c]
           \/ caller'[c].op \in {"answered", "signup"}
           \/ /\ caller'[c].op \in {"login", "reset", "patch", "delete"} /\ caller'[c].account \in Accounts
              /\ caller'[c].op = "reset" => /\ caller'[c].reset \in Resets
                                            /\ resets[caller'[c].reset].owner = caller'[c].account
                                            /\ resets[caller'[c].reset].status = "open"
           \/ caller[c].op = "patch" /\ caller[c].verified /\ caller'[c] = [caller[c] EXCEPT !.op = "rehash"]
<1> USE DEF AccountsTypeOK
<1>1. ASSUME NEW d \in Callers, Answers(d) PROVE caller'[c] = caller[c] \/ caller'[c].op = "answered"
  BY <1>1 DEF Answers, NotWaiting
<1>2. CASE UNCHANGED caller
  BY <1>2
<1>3. ASSUME NEW d \in Callers, signupCreates(d) \/ loginOpens(d) \/ resetApplies(d) \/ patchRehashes(d) \/ deleteAccount(d)
      PROVE  Answers(d)
  BY <1>3 DEF signupCreates, loginOpens, resetApplies, patchRehashes, deleteAccount
<1>4. ASSUME NEW d \in Callers, patchSaves(d), ~Answers(d)
      PROVE  caller[d].op = "patch" /\ caller[d].verified /\ caller' = [caller EXCEPT ![d].op = "rehash"]
  BY <1>4 DEF patchSaves
<1>5. ASSUME NEW d \in Callers, Begins(d)
      PROVE  \/ caller'[c] = caller[c]
             \/ caller'[c].op = "signup"
             \/ /\ caller'[c].op \in {"login", "reset", "patch", "delete"} /\ caller'[c].account \in Accounts
                /\ caller'[c].op = "reset" => /\ caller'[c].reset \in Resets
                                              /\ resets[caller'[c].reset].owner = caller'[c].account
                                              /\ resets[caller'[c].reset].status = "open"
  <2>2. CASE c # d
    BY <1>5, <2>2 DEF Begins, signupReads, loginReads, resetReads, deleteReads, patchReads, Waits
  <2>3. CASE c = d
    <3>1. ASSUME NEW e \in Emails, NEW p \in Passwords, signupReads(d, e, p) PROVE caller'[d].op = "signup"
      BY <3>1 DEF signupReads, Waits, NotWaiting
    <3>2. ASSUME NEW e \in Emails, NEW p \in Passwords, loginReads(d, e, p)
          PROVE caller'[d].op = "login" /\ caller'[d].account \in Accounts
      BY <3>2 DEF loginReads, Waits, NotWaiting, findUserByEmail
    <3>3. ASSUME NEW t \in Resets, NEW p \in Passwords, resetReads(d, t, p)
          PROVE /\ caller'[d].op = "reset" /\ caller'[d].reset = t /\ caller'[d].account = resets[t].owner
                /\ resets[t].status = "open" /\ resets[t].owner \in Accounts
      BY <3>3 DEF resetReads, Waits, NotWaiting, findPasswordReset, CredentialsAreOwned, Active
    <3>4. ASSUME NEW s \in Sessions, deleteReads(d, s)
          PROVE caller'[d].op = "delete" /\ caller'[d].account \in Accounts
      BY <3>4 DEF deleteReads, Waits, NotWaiting, restoreUser, Active
    <3>5. ASSUME NEW s \in Sessions, NEW e \in Emails, NEW p \in Passwords, NEW new \in Passwords \union {NoPassword},
                 patchReads(d, s, e, p, new)
          PROVE caller'[d].op = "patch" /\ caller'[d].account \in Accounts
      BY <3>5 DEF patchReads, Waits, NotWaiting, restoreUser, Active
    <3>6. QED
      BY <1>5, <2>3, <3>1, <3>2, <3>3, <3>4, <3>5 DEF Begins
  <2>4. QED
    BY <2>2, <2>3
<1>6. QED
  BY ActionsOfAccounts, <1>1, <1>2, <1>3, <1>4, <1>5
  DEF logout, logoutAllSessions, sessionExpires, issuePasswordReset, resetExpires, cleanupExpiredSessions,
      deleteExpiredPasswordResets, acVariables

LEMMA CallersStillRemember ==
    ASSUME AccountsTypeOK, CallersRemember, CredentialsAreOwned, [AccountsNext]_acVariables
    PROVE  CallersRemember'
<1> SUFFICES ASSUME NEW c \in Callers
             PROVE  /\ caller'[c].op \in {"login", "reset", "patch", "rehash", "delete"} => caller'[c].account \in Accounts
                    /\ caller'[c].op = "rehash" => caller'[c].verified
                    /\ caller'[c].op = "reset" => /\ caller'[c].reset \in Resets
                                                  /\ resets'[caller'[c].reset].owner = caller'[c].account
                                                  /\ resets'[caller'[c].reset].status # "unused"
  BY DEF CallersRemember
<1>1. CASE caller'[c] = caller[c]
  BY <1>1, OwnersStay DEF CallersRemember
<1>2. CASE caller'[c].op \in {"answered", "signup"}
  BY <1>2
<1>3. CASE /\ caller'[c].op \in {"login", "reset", "patch", "delete"} /\ caller'[c].account \in Accounts
           /\ caller'[c].op = "reset" => /\ caller'[c].reset \in Resets
                                         /\ resets[caller'[c].reset].owner = caller'[c].account
                                         /\ resets[caller'[c].reset].status = "open"
  BY <1>3, OwnersStay
<1>4. CASE caller[c].op = "patch" /\ caller[c].verified /\ caller'[c] = [caller[c] EXCEPT !.op = "rehash"]
  BY <1>4 DEF CallersRemember, AccountsTypeOK, Waiting
<1>5. QED
  BY <1>1, <1>2, <1>3, <1>4, CallersGoOn

\* Only a deletion takes an account away, and it takes what it owns.
LEMMA AccountsStay ==
    ASSUME AccountsTypeOK, CallersRemember, [AccountsNext]_acVariables, NEW a \in Accounts, Active(a), ~Active(a)'
    PROVE  /\ \A s \in Sessions : sessions[s].owner = a => ~findSessionByTokenHash(s)'
           /\ \A t \in Resets : resets[t].owner = a => resets'[t].status = "gone"
           /\ \A b \in Accounts \ {a} : users'[b] = users[b]
           /\ \A s \in Sessions : findSessionByTokenHash(s)' => findSessionByTokenHash(s) /\ sessions'[s].owner = sessions[s].owner
           /\ \A t \in Resets : resets'[t] = resets[t] \/ resets'[t].status = "gone"
           /\ users'[a].status = "gone"
<1> USE DEF AccountsTypeOK, Active
<1>1. ~UNCHANGED users
  OBVIOUS
<1>2. ASSUME NEW c \in Callers, signupCreates(c) PROVE FALSE
  BY <1>2 DEF signupCreates, createUser
<1>3. ASSUME NEW c \in Callers, loginOpens(c) \/ Begins(c) PROVE FALSE
  BY <1>1, <1>3, ReadsKeepRows DEF loginOpens
<1>4. ASSUME NEW b \in Accounts, NEW p, updateUserPassword(b, p) PROVE FALSE
  BY <1>4 DEF updateUserPassword, User
<1>5. ASSUME NEW c \in Callers, resetApplies(c) \/ patchRehashes(c) PROVE FALSE
  BY <1>4, <1>5 DEF resetApplies, patchRehashes, CallersRemember
<1>6. ASSUME NEW c \in Callers, patchSaves(c) PROVE FALSE
  BY <1>6 DEF patchSaves, updateUserProfile, User
<1>7. PICK c \in Callers : deleteAccount(c)
  BY <1>1, <1>2, <1>3, <1>5, <1>6, ActionsOfAccounts
  DEF acVariables, logout, logoutAllSessions, sessionExpires, issuePasswordReset, resetExpires,
      cleanupExpiredSessions, deleteExpiredPasswordResets
<1>8. /\ caller[c].account = a
      /\ users' = [users EXCEPT ![a].status = "gone"]
      /\ deleteAllSessionsForUser(a, {})
      /\ resets' = [t \in Resets |-> IF resets[t].owner = a THEN [resets[t] EXCEPT !.status = "gone"] ELSE resets[t]]
  BY <1>1, <1>7 DEF deleteAccount, CallersRemember, User
<1>9. /\ \A b \in Accounts \ {a} : users'[b] = users[b]
      /\ users'[a].status = "gone"
  BY <1>8 DEF User
<1>10. /\ \A s \in Sessions : sessions[s].owner = a => ~findSessionByTokenHash(s)'
       /\ \A s \in Sessions : findSessionByTokenHash(s)' => findSessionByTokenHash(s) /\ sessions'[s].owner = sessions[s].owner
  BY <1>8 DEF deleteAllSessionsForUser, findSessionByTokenHash, SessionRow
<1>11. /\ \A t \in Resets : resets[t].owner = a => resets'[t].status = "gone"
       /\ \A t \in Resets : resets'[t] = resets[t] \/ resets'[t].status = "gone"
  BY <1>8 DEF ResetRow
<1>12. QED
  BY <1>9, <1>10, <1>11

\* What is there was there, or was made for an account that is there.
LEMMA CredentialsComeFromAccounts ==
    ASSUME AccountsTypeOK, CallersRemember, [AccountsNext]_acVariables
    PROVE  /\ \A s \in Sessions : findSessionByTokenHash(s)' =>
                 \/ findSessionByTokenHash(s) /\ sessions'[s].owner = sessions[s].owner
                 \/ sessions[s].status = "unused" /\ Active(sessions[s].owner)'
           /\ \A t \in Resets : resets'[t].status \in {"open", "over"} =>
                 \/ resets[t].status \in {"open", "over"} /\ resets'[t].owner = resets[t].owner
                 \/ resets[t].status = "unused" /\ Active(resets[t].owner)'
<1> USE DEF AccountsTypeOK, findSessionByTokenHash
<1> DEFINE Kept(s) == findSessionByTokenHash(s)' =>
                        \/ findSessionByTokenHash(s) /\ sessions'[s].owner = sessions[s].owner
                        \/ sessions[s].status = "unused" /\ Active(sessions[s].owner)'
           KeptReset(t) == resets'[t].status \in {"open", "over"} =>
                        \/ resets[t].status \in {"open", "over"} /\ resets'[t].owner = resets[t].owner
                        \/ resets[t].status = "unused" /\ Active(resets[t].owner)'
<1>1. UNCHANGED sessions => \A s \in Sessions : Kept(s)
  OBVIOUS
<1>2. UNCHANGED resets => \A t \in Resets : KeptReset(t)
  OBVIOUS
<1>3. ASSUME NEW a, NEW spared, deleteAllSessionsForUser(a, spared) PROVE \A s \in Sessions : Kept(s)
  BY <1>3 DEF deleteAllSessionsForUser, SessionRow
<1>4. ASSUME NEW s \in Sessions, NEW over \in {"ended", "expired"}, sessions' = [sessions EXCEPT ![s].status = over],
             over = "expired" => sessions[s].status = "live"
      PROVE  \A r \in Sessions : Kept(r)
  BY <1>4 DEF SessionRow
<1>5. ASSUME NEW c \in Callers, signupCreates(c)
      PROVE  UNCHANGED resets /\ \A s \in Sessions : Kept(s)
  <2>1. UNCHANGED resets
    BY <1>5 DEF signupCreates
  <2>2. ASSUME NEW a \in Accounts, NEW s \in Sessions, sessions[s].status = "unused",
               createUser(a, caller[c].email, caller[c].new), startSession(s, a)
        PROVE  \A r \in Sessions : Kept(r)
    BY <2>2 DEF createUser, startSession, Active
  <2>3. QED
    BY <1>1, <1>5, <2>1, <2>2 DEF signupCreates
<1>6. ASSUME NEW c \in Callers, loginOpens(c)
      PROVE  UNCHANGED resets /\ \A s \in Sessions : Kept(s)
  BY <1>1, <1>6 DEF loginOpens, startSession, Active
<1>7. ASSUME NEW c \in Callers, resetApplies(c)
      PROVE  (\A s \in Sessions : Kept(s)) /\ (\A t \in Resets : KeptReset(t))
  <2>1. ASSUME NEW f \in [Resets -> ResetRow], NEW u,
               resets' = [f EXCEPT ![u].status = IF @ = "open" THEN "over" ELSE @]
        PROVE  \A t \in Resets : resets'[t].status \in {"open", "over"} =>
                  f[t].status \in {"open", "over"} /\ resets'[t].owner = f[t].owner
    BY <2>1 DEF ResetRow
  <2>2. \A t \in Resets : invalidated(caller[c].account)[t].status \in {"open", "over"} =>
            resets[t].status \in {"open", "over"} /\ invalidated(caller[c].account)[t].owner = resets[t].owner
    BY DEF invalidated, ResetRow
  <2>3. \A t \in Resets : KeptReset(t)
    BY <1>7, <2>1, <2>2, RowTypes DEF resetApplies
  <2>4. QED
    BY <1>3, <1>7, <2>3 DEF resetApplies
<1>8. ASSUME NEW c \in Callers, patchSaves(c) \/ patchRehashes(c)
      PROVE  UNCHANGED resets /\ \A s \in Sessions : Kept(s)
  BY <1>1, <1>3, <1>8 DEF patchSaves, patchRehashes
<1>9. ASSUME NEW c \in Callers, deleteAccount(c)
      PROVE  (\A s \in Sessions : Kept(s)) /\ (\A t \in Resets : KeptReset(t))
  <2>1. \A s \in Sessions : Kept(s)
    BY <1>1, <1>3, <1>9 DEF deleteAccount
  <2>2. \A t \in Resets : KeptReset(t)
    BY <1>2, <1>9 DEF deleteAccount, ResetRow
  <2>3. QED
    BY <2>1, <2>2
<1>10. ASSUME NEW s \in Sessions, logout(s) \/ logoutAllSessions(s) \/ sessionExpires(s)
       PROVE  UNCHANGED resets /\ \A r \in Sessions : Kept(r)
  BY <1>3, <1>4, <1>10 DEF logout, logoutAllSessions, sessionExpires, endSession
<1>11. ASSUME NEW e \in Emails, issuePasswordReset(e)
       PROVE  UNCHANGED sessions /\ \A t \in Resets : KeptReset(t)
  <2>1. PICK a \in findUserByEmail(e), u \in Resets :
            /\ resets[u].status = "unused"
            /\ resets' = [invalidated(a) EXCEPT ![u] = [status |-> "open", owner |-> a]]
    BY <1>11 DEF issuePasswordReset
  <2>2. Active(a)'
    BY <1>11, <2>1 DEF findUserByEmail, Active, issuePasswordReset
  <2>3. \A t \in Resets : invalidated(a)[t].status \in {"open", "over"} =>
            resets[t].status \in {"open", "over"} /\ invalidated(a)[t].owner = resets[t].owner
    BY DEF invalidated, ResetRow
  <2>4. resets'[u].owner = a /\ \A t \in Resets \ {u} : resets'[t] = invalidated(a)[t]
    BY <2>1, RowTypes
  <2>5. QED
    BY <1>11, <2>1, <2>2, <2>3, <2>4 DEF issuePasswordReset
<1>12. ASSUME NEW t \in Resets, resetExpires(t) PROVE UNCHANGED sessions /\ \A u \in Resets : KeptReset(u)
  BY <1>12 DEF resetExpires, ResetRow
<1>13. cleanupExpiredSessions => UNCHANGED resets /\ \A s \in Sessions : Kept(s)
  BY DEF cleanupExpiredSessions, SessionRow
<1>14. deleteExpiredPasswordResets => UNCHANGED sessions /\ \A t \in Resets : KeptReset(t)
  BY DEF deleteExpiredPasswordResets, ResetRow
<1>15. (\A s \in Sessions : Kept(s)) /\ (\A t \in Resets : KeptReset(t))
  BY ActionsOfAccounts, ReadsKeepRows, <1>1, <1>2, <1>5, <1>6, <1>7, <1>8, <1>9, <1>10, <1>11, <1>12, <1>13, <1>14 DEF acVariables
<1>16. QED
  BY <1>15

LEMMA CredentialsStayOwned ==
    ASSUME AccountsTypeOK, CallersRemember, CredentialsAreOwned, [AccountsNext]_acVariables
    PROVE  CredentialsAreOwned'
<1>1. ASSUME NEW s \in Sessions, findSessionByTokenHash(s)' PROVE Active(sessions[s].owner)'
  <2>1. CASE findSessionByTokenHash(s) /\ sessions'[s].owner = sessions[s].owner
    <3>1. Active(sessions[s].owner)
      BY <2>1 DEF CredentialsAreOwned
    <3>2. QED
      BY <1>1, <2>1, <3>1, AccountsStay DEF Active
  <2>2. QED
    BY <1>1, <2>1, CredentialsComeFromAccounts
<1>2. ASSUME NEW t \in Resets, resets'[t].status \in {"open", "over"} PROVE Active(resets[t].owner)'
  <2>1. CASE resets[t].status \in {"open", "over"} /\ resets'[t].owner = resets[t].owner
    <3>1. Active(resets[t].owner)
      BY <2>1 DEF CredentialsAreOwned
    <3>2. QED
      BY <1>2, <2>1, <3>1, AccountsStay DEF Active
  <2>2. QED
    BY <1>2, <2>1, CredentialsComeFromAccounts
<1>3. QED
  BY <1>1, <1>2 DEF CredentialsAreOwned, findSessionByTokenHash, Active

LEMMA EmailsStayUnique ==
    ASSUME AccountsTypeOK, CallersRemember, EmailsAreUnique, [AccountsNext]_acVariables
    PROVE  EmailsAreUnique'
<1> USE DEF AccountsTypeOK, Active
<1>1. CASE UNCHANGED users
  BY <1>1 DEF EmailsAreUnique
<1>2. ASSUME NEW a \in Accounts, NEW p, updateUserPassword(a, p) PROVE EmailsAreUnique'
  BY <1>2 DEF updateUserPassword, EmailsAreUnique, User
<1>3. ASSUME NEW c \in Callers, signupCreates(c) PROVE EmailsAreUnique'
  <2>1. ASSUME NEW a \in Accounts, users[a].status = "absent", findUserByEmail(caller[c].email) = {},
               createUser(a, caller[c].email, caller[c].new)
        PROVE  EmailsAreUnique'
    BY <2>1 DEF createUser, findUserByEmail, EmailsAreUnique, User
  <2>2. QED
    BY <1>1, <1>3, <2>1 DEF signupCreates
<1>4. ASSUME NEW c \in Callers, patchSaves(c) PROVE EmailsAreUnique'
  <2>1. CASE UNCHANGED users
    BY <1>1, <2>1
  <2>2. CASE ~UNCHANGED users
    <3>1. /\ updateUserProfile(caller[c].account, caller[c].email)
          /\ findUserByEmail(caller[c].email) \subseteq {caller[c].account}
      BY <1>4, <2>2 DEF patchSaves
    <3>2. QED
      BY <3>1 DEF updateUserProfile, findUserByEmail, EmailsAreUnique, User
  <2>3. QED
    BY <2>1, <2>2
<1>5. ASSUME NEW c \in Callers, resetApplies(c) \/ patchRehashes(c) PROVE EmailsAreUnique'
  BY <1>2, <1>5 DEF resetApplies, patchRehashes, CallersRemember
<1>6. ASSUME NEW c \in Callers, deleteAccount(c) PROVE EmailsAreUnique'
  BY <1>6 DEF deleteAccount, EmailsAreUnique, User
<1>7. QED
  BY ActionsOfAccounts, ReadsKeepRows, <1>1, <1>3, <1>4, <1>5, <1>6
  DEF loginOpens, acVariables, logout, logoutAllSessions, sessionExpires, issuePasswordReset, resetExpires,
      cleanupExpiredSessions, deleteExpiredPasswordResets

\* Only issuePasswordReset opens a reset, and closes those there were.
LEMMA ResetsStaySingle ==
    ASSUME AccountsTypeOK, CallersRemember, OneOpenReset, [AccountsNext]_acVariables
    PROVE  OneOpenReset'
<1> USE DEF AccountsTypeOK
<1>1. ASSUME \A t \in Resets : resets'[t].status = "open" => resets[t].status = "open" /\ resets'[t].owner = resets[t].owner
      PROVE  OneOpenReset'
  BY <1>1 DEF OneOpenReset
<1>2. CASE UNCHANGED resets
  BY <1>1, <1>2
<1>3. ASSUME NEW a PROVE \A t \in Resets : invalidated(a)[t].status = "open" =>
                           /\ resets[t].status = "open" /\ invalidated(a)[t].owner = resets[t].owner
                           /\ resets[t].owner # a
  BY DEF invalidated, ResetRow
<1>4. ASSUME NEW c \in Callers, resetApplies(c) PROVE OneOpenReset'
  <2>1. ASSUME NEW f \in [Resets -> ResetRow], NEW u,
               resets' = [f EXCEPT ![u].status = IF @ = "open" THEN "over" ELSE @]
        PROVE  \A t \in Resets : resets'[t].status = "open" => f[t].status = "open" /\ resets'[t].owner = f[t].owner
    BY <2>1 DEF ResetRow
  <2>2. \A t \in Resets : resets'[t].status = "open" => resets[t].status = "open" /\ resets'[t].owner = resets[t].owner
    BY <1>3, <1>4, <2>1, RowTypes DEF resetApplies
  <2>3. QED
    BY <1>1, <2>2
<1>5. ASSUME NEW c \in Callers, deleteAccount(c) PROVE OneOpenReset'
  BY <1>1, <1>2, <1>5 DEF deleteAccount, ResetRow
<1>6. ASSUME NEW e \in Emails, issuePasswordReset(e) PROVE OneOpenReset'
  <2>1. PICK a \in findUserByEmail(e), u \in Resets :
            resets' = [invalidated(a) EXCEPT ![u] = [status |-> "open", owner |-> a]]
    BY <1>6 DEF issuePasswordReset
  <2>2. resets'[u].owner = a /\ \A t \in Resets \ {u} : resets'[t] = invalidated(a)[t]
    BY <2>1, RowTypes
  <2>3. QED
    BY <1>3, <2>2 DEF OneOpenReset
<1>7. ASSUME NEW t \in Resets, resetExpires(t) PROVE OneOpenReset'
  BY <1>1, <1>7 DEF resetExpires, ResetRow
<1>8. deleteExpiredPasswordResets => OneOpenReset'
  BY <1>1 DEF deleteExpiredPasswordResets, ResetRow
<1>9. QED
  BY ActionsOfAccounts, ReadsKeepRows, <1>2, <1>4, <1>5, <1>6, <1>7, <1>8
  DEF signupCreates, loginOpens, patchSaves, patchRehashes, acVariables, logout, logoutAllSessions, sessionExpires,
      cleanupExpiredSessions

LEMMA AccountsStart == AccountsInit => AccountsInv
<1> SUFFICES ASSUME AccountsInit PROVE AccountsInv
  OBVIOUS
<1>1. AccountsTypeOK
  BY RequestsAreWaiting DEF AccountsInit, AccountsTypeOK, User, SessionRow, ResetRow
<1>2. CallersRemember
  BY DEF AccountsInit, CallersRemember, NotWaiting
<1>3. AccountsHold
  BY DEF AccountsInit, AccountsHold, EmailsAreUnique, CredentialsAreOwned, OneOpenReset, Active, findSessionByTokenHash
<1>4. QED
  BY <1>1, <1>2, <1>3 DEF AccountsInv

LEMMA AccountsStep == AccountsInv /\ [AccountsNext]_acVariables => AccountsInv'
<1> SUFFICES ASSUME AccountsInv, [AccountsNext]_acVariables PROVE AccountsInv'
  OBVIOUS
<1>1. AccountsTypeOK'
  BY AccountsTypes DEF AccountsInv
<1>2. CallersRemember'
  BY CallersStillRemember DEF AccountsInv, AccountsHold
<1>3. AccountsHold'
  BY EmailsStayUnique, CredentialsStayOwned, ResetsStaySingle DEF AccountsInv, AccountsHold
<1>4. QED
  BY <1>1, <1>2, <1>3 DEF AccountsInv

\* No two accounts have one address, what signs in belongs to an account that
\* is there and an account has one reset that is open, for any accounts,
\* tokens and requests that wait (app/api/auth, app/api/me).
THEOREM AccountsAreSound == AccountsSpec => []AccountsHold
<1>1. AccountsInv => AccountsHold
  BY DEF AccountsInv
<1>2. QED
  BY <1>1, AccountsStart, AccountsStep, PTL DEF AccountsSpec

LEMMA PasswordChanges ==
    ASSUME AccountsInv, [AccountsNext]_acVariables
    PROVE  PasswordsAreEarned
<1> SUFFICES ASSUME NEW a \in Accounts, Active(a), Active(a)', users'[a].password # users[a].password
             PROVE  /\ \E c \in Callers :
                          /\ caller[c].account = a /\ caller[c].new = users'[a].password
                          /\ \/ caller[c].op = "rehash" /\ caller[c].verified
                             \/ caller[c].op = "reset" /\ resets[caller[c].reset].owner = a
                    /\ \A s \in Sessions : sessions[s].owner = a => ~findSessionByTokenHash(s)'
  BY DEF PasswordsAreEarned
<1> USE DEF AccountsInv, AccountsTypeOK
<1>1. ASSUME NEW c \in Callers, signupCreates(c) \/ patchSaves(c) \/ deleteAccount(c) PROVE FALSE
  BY <1>1 DEF signupCreates, createUser, patchSaves, updateUserProfile, deleteAccount, User, Active
<1>2. PICK c \in Callers : resetApplies(c) \/ patchRehashes(c)
  BY ActionsOfAccounts, ReadsKeepRows, <1>1
  DEF loginOpens, acVariables, logout, logoutAllSessions, sessionExpires, issuePasswordReset, resetExpires,
      cleanupExpiredSessions, deleteExpiredPasswordResets
<1>3. /\ updateUserPassword(caller[c].account, caller[c].new)
      /\ deleteAllSessionsForUser(caller[c].account, {})
      /\ caller[c].op \in {"reset", "rehash"}
  BY <1>2 DEF resetApplies, patchRehashes
<1>4. caller[c].account = a /\ caller[c].new = users'[a].password
  BY <1>3 DEF updateUserPassword, User
<1>5. \A s \in Sessions : sessions[s].owner = a => ~findSessionByTokenHash(s)'
  BY <1>3, <1>4 DEF deleteAllSessionsForUser, findSessionByTokenHash, SessionRow
<1>6. QED
  BY <1>3, <1>4, <1>5 DEF CallersRemember

LEMMA OverIsOver ==
    ASSUME AccountsInv, [AccountsNext]_acVariables
    PROVE  CredentialsStayOver
<1> USE DEF AccountsInv, AccountsTypeOK
<1>1. ASSUME NEW a \in Accounts, users[a].status = "gone" PROVE users'[a].status = "gone"
  <2>1. ASSUME NEW c \in Callers, signupCreates(c) \/ patchSaves(c) \/ deleteAccount(c) PROVE users'[a].status = "gone"
    BY <1>1, <2>1 DEF signupCreates, createUser, patchSaves, updateUserProfile, deleteAccount, User, Active
  <2>2. ASSUME NEW c \in Callers, resetApplies(c) \/ patchRehashes(c) PROVE users'[a].status = "gone"
    BY <1>1, <2>2 DEF resetApplies, patchRehashes, updateUserPassword, User
  <2>3. QED
    BY ActionsOfAccounts, ReadsKeepRows, <1>1, <2>1, <2>2
    DEF loginOpens, acVariables, logout, logoutAllSessions, sessionExpires, issuePasswordReset, resetExpires,
        cleanupExpiredSessions, deleteExpiredPasswordResets
<1>2. ASSUME NEW s \in Sessions, sessions[s].status \in {"expired", "ended"} PROVE sessions'[s].status # "live"
  <2>1. ASSUME NEW a, NEW spared, deleteAllSessionsForUser(a, spared) PROVE sessions'[s].status # "live"
    BY <1>2, <2>1 DEF deleteAllSessionsForUser
  <2>2. ASSUME NEW c \in Callers, signupCreates(c) \/ loginOpens(c) PROVE sessions'[s].status # "live"
    BY <1>2, <2>2 DEF signupCreates, loginOpens, startSession
  <2>3. ASSUME NEW c \in Callers, resetApplies(c) \/ patchSaves(c) \/ patchRehashes(c) \/ deleteAccount(c)
        PROVE  sessions'[s].status # "live"
    BY <1>2, <2>1, <2>3 DEF resetApplies, patchSaves, patchRehashes, deleteAccount
  <2>4. ASSUME NEW r \in Sessions, logout(r) \/ logoutAllSessions(r) \/ sessionExpires(r) PROVE sessions'[s].status # "live"
    BY <1>2, <2>1, <2>4 DEF logout, logoutAllSessions, sessionExpires, endSession, SessionRow
  <2>5. cleanupExpiredSessions => sessions'[s].status # "live"
    BY <1>2 DEF cleanupExpiredSessions
  <2>6. QED
    BY ActionsOfAccounts, ReadsKeepRows, <1>2, <2>2, <2>3, <2>4, <2>5
    DEF acVariables, issuePasswordReset, resetExpires, deleteExpiredPasswordResets
<1>3. ASSUME NEW t \in Resets, resets[t].status \notin {"unused", "open"} PROVE resets'[t].status # "open"
  <2>1. resets[t].status = "over" \/ resets[t].status = "gone"
    BY <1>3 DEF ResetRow
  <2>2. CASE resets'[t].status \in {"open", "over"} /\ resets[t].status = "gone"
    BY <2>2, CredentialsComeFromAccounts
  <2>3. CASE resets[t].status = "over"
    <3>1. \A a : invalidated(a)[t].status = "over"
      BY <2>3 DEF invalidated
    <3>2. ASSUME NEW f \in [Resets -> ResetRow], NEW u, f[t].status = "over",
                 resets' = [f EXCEPT ![u].status = IF @ = "open" THEN "over" ELSE @]
          PROVE  resets'[t].status # "open"
      BY <3>2 DEF ResetRow
    <3>3. ASSUME NEW c \in Callers, resetApplies(c) PROVE resets'[t].status # "open"
      BY <3>1, <3>2, <3>3, RowTypes DEF resetApplies
    <3>4. ASSUME NEW c \in Callers, deleteAccount(c) PROVE resets'[t].status # "open"
      BY <2>3, <3>4 DEF deleteAccount, ResetRow
    <3>5. ASSUME NEW e \in Emails, issuePasswordReset(e) PROVE resets'[t].status # "open"
      <4>1. PICK a \in findUserByEmail(e), u \in Resets :
                /\ resets[u].status = "unused"
                /\ resets' = [invalidated(a) EXCEPT ![u] = [status |-> "open", owner |-> a]]
        BY <3>5 DEF issuePasswordReset
      <4>2. QED
        BY <2>3, <3>1, <4>1, RowTypes
    <3>6. ASSUME NEW u \in Resets, resetExpires(u) PROVE resets'[t].status # "open"
      BY <2>3, <3>6 DEF resetExpires
    <3>7. deleteExpiredPasswordResets => resets'[t].status # "open"
      BY <2>3 DEF deleteExpiredPasswordResets
    <3>8. QED
      BY ActionsOfAccounts, ReadsKeepRows, <2>3, <3>3, <3>4, <3>5, <3>6, <3>7
      DEF acVariables, signupCreates, loginOpens, patchSaves, patchRehashes, logout, logoutAllSessions, sessionExpires,
          cleanupExpiredSessions
  <2>4. QED
    BY <2>1, <2>2, <2>3
<1>4. QED
  BY <1>1, <1>2, <1>3 DEF CredentialsStayOver

\* A password changes only by who typed the current one or was sent a reset,
\* no session outlives the change, and what is over stays over.
THEOREM CredentialsAreSound == AccountsSpec => [][PasswordsAreEarned /\ CredentialsStayOver]_acVariables
BY AccountsStart, AccountsStep, PasswordChanges, OverIsOver, PTL DEF AccountsSpec

-----------------------------------------------------------------------------
(* The rate limits.                                                        *)

Granted == [at : Nat, from : Int]
Bucket == [count : Nat, resetAt : Nat]
Counter == [count : Nat, until : Nat]
CallStates == {"connecting", "failing", "counting", "expiring", "asking", "refused", "allowed", "limited", "error"}
Call == {call \in [state : CallStates, process : Processes, request : Requests, next : Nat \ {0},
                   by : {"none", "memory", "redis"}, window : Windows, again : Nat, failed : BOOLEAN] :
            call.next <= Len(call.request.keys)}

RateLimitsTypeOK ==
    /\ clock \in 1 .. MaxTime
    /\ deployment \in [provider : {"memory", "redis"}, production : BOOLEAN]
    /\ store \in [Processes -> {"none", "memory", "redis"}]
    /\ initializing \in [Processes -> BOOLEAN]
    /\ buckets \in [Processes -> [Keys -> Bucket]]
    /\ counters \in [Keys -> [Windows -> Counter]]
    /\ calls \in [Clients -> Call \union {NoRequest}]
    /\ granted \in [Processes -> [Keys -> Seq(Granted)]]

\* Of what was granted to a key, g: each in its window, the windows a length or
\* more apart, not more than the allowance of them in one, and the first of a
\* window that is full at its beginning.
InWindows(g, allowed, now) ==
    /\ \A i \in DOMAIN g : g[i].from <= g[i].at /\ g[i].at < g[i].from + Window /\ g[i].at <= now
    /\ \A i, j \in DOMAIN g : i <= j => g[i].from = g[j].from \/ g[i].from + Window <= g[j].from
    /\ \A i, j \in DOMAIN g : j = i + allowed => g[i].from # g[j].from
    /\ \A i, j \in DOMAIN g : j = i + allowed - 1 /\ g[i].from = g[j].from => g[i].at = g[i].from

\* The bucket counts the last of them, those of its window.
CountsLast(g, bucket, allowed) ==
    /\ g = <<>> => bucket.resetAt = 0
    /\ g # <<>> =>
          /\ bucket.count \in 1 .. allowed /\ bucket.count <= Len(g)
          /\ \A i \in DOMAIN g : i > Len(g) - bucket.count <=> g[i].from = bucket.resetAt - Window
          /\ g[Len(g) - bucket.count + 1].at = bucket.resetAt - Window

BucketsCount ==
    \A p \in Processes, k \in Keys :
        /\ InWindows(granted[p][k], Allowance[k], clock)
        /\ CountsLast(granted[p][k], buckets[p][k], Allowance[k])

\* A process counts in Redis or, after a failure, by itself.
CountsAreShared ==
    deployment = [provider |-> "redis", production |-> TRUE] =>
        /\ \A p \in Processes : store[p] # "memory"
        /\ \A c \in Clients : calls[c] # NoRequest =>
              calls[c].by # "memory" /\ (calls[c].state = "failing" => calls[c].failed)
        /\ \/ \E c \in Clients : calls[c] # NoRequest /\ calls[c].failed
           \/ \A p \in Processes, k \in Keys : granted[p][k] = <<>>

\* A window that is counted has begun, and its counter ends after it.
CountersEnd ==
    /\ \A c \in Clients : calls[c] # NoRequest => calls[c].window <= clock \div Window
    /\ \A k \in Keys, w \in Windows : counters[k][w].until # Never => counters[k][w].until \div Window > w

RateLimitsInv ==
    /\ RateLimitsTypeOK
    /\ BucketsCount
    /\ CountsAreShared
    /\ \A p \in Processes : initializing[p] => store[p] # "redis"
    /\ CountersEnd
    /\ RefusalsEnd

LEMMA Divisions ==
  ASSUME NEW a \in Nat, NEW b \in Nat, NEW w \in Nat \ {0}
  PROVE  /\ a \div w \in Nat
         /\ (a + w) \div w = (a \div w) + 1
         /\ a <= b => a \div w <= b \div w
  OBVIOUS

\* A grant in a new window, after the last one ended.
LEMMA WindowBegins ==
  ASSUME NEW g \in Seq(Granted), NEW bucket \in Bucket, NEW allowed \in Nat \ {0}, NEW now \in Nat \ {0},
         InWindows(g, allowed, now), CountsLast(g, bucket, allowed), bucket.resetAt <= now
  PROVE  LET h == Append(g, [at |-> now, from |-> now])
             b == [count |-> 1, resetAt |-> now + Window]
         IN  h \in Seq(Granted) /\ b \in Bucket /\ InWindows(h, allowed, now) /\ CountsLast(h, b, allowed)
<1> DEFINE x == [at |-> now, from |-> now]
           h == Append(g, x)
           b == [count |-> 1, resetAt |-> now + Window]
<1> Window \in Nat \ {0}
  BY RateLimitsAssumption
<1>1. x \in Granted /\ b \in Bucket
  BY DEF Granted, Bucket
<1>2. /\ h \in Seq(Granted) /\ Len(h) = Len(g) + 1 /\ Len(g) \in Nat
      /\ DOMAIN g = 1 .. Len(g) /\ DOMAIN h = 1 .. Len(g) + 1
      /\ h[Len(g) + 1] = x /\ \A i \in DOMAIN g : h[i] = g[i] /\ g[i] \in Granted
  BY <1>1
<1> HIDE DEF h
<1>3. \A i \in DOMAIN g : g[i].at \in Nat /\ g[i].from \in Int /\ g[i].from + Window <= now
  <2> SUFFICES ASSUME NEW i \in DOMAIN g
               PROVE  g[i].at \in Nat /\ g[i].from \in Int /\ g[i].from + Window <= now
    OBVIOUS
  <2>1. g[i].at \in Nat /\ g[i].from \in Int
    BY <1>2 DEF Granted
  <2>2. bucket.count \in 1 .. allowed /\ bucket.count <= Len(g) /\ bucket.resetAt \in Nat
    BY <1>2 DEF CountsLast, Bucket
  <2>3. Len(g) \in DOMAIN g /\ Len(g) > Len(g) - bucket.count /\ i <= Len(g)
    BY <1>2, <2>2
  <2>4. g[Len(g)].from = bucket.resetAt - Window
    BY <1>2, <2>2, <2>3 DEF CountsLast
  <2>5. g[i].from = g[Len(g)].from \/ g[i].from + Window <= g[Len(g)].from
    BY <2>3 DEF InWindows
  <2>6. QED
    BY <2>1, <2>2, <2>4, <2>5
<1>4. InWindows(h, allowed, now)
  <2>1. \A i \in DOMAIN h : h[i].from <= h[i].at /\ h[i].at < h[i].from + Window /\ h[i].at <= now
    BY <1>2, <1>3 DEF InWindows
  <2>2. ASSUME NEW i \in DOMAIN h, NEW j \in DOMAIN h, i <= j
        PROVE  h[i].from = h[j].from \/ h[i].from + Window <= h[j].from
    BY <1>2, <1>3, <2>2 DEF InWindows
  <2>3. ASSUME NEW i \in DOMAIN h, NEW j \in DOMAIN h, j = i + allowed
        PROVE  h[i].from # h[j].from
    BY <1>2, <1>3, <2>3 DEF InWindows
  <2>4. ASSUME NEW i \in DOMAIN h, NEW j \in DOMAIN h, j = i + allowed - 1, h[i].from = h[j].from
        PROVE  h[i].at = h[i].from
    <3>1. CASE j = Len(g) + 1 /\ i # j
      BY <1>2, <1>3, <2>4, <3>1
    <3>2. CASE j = Len(g) + 1 /\ i = j
      BY <1>2, <3>2
    <3>3. CASE j # Len(g) + 1
      <4>1. i \in DOMAIN g /\ j \in DOMAIN g
        BY <1>2, <2>4, <3>3
      <4>2. QED
        BY <1>2, <2>4, <4>1 DEF InWindows
    <3>4. QED
      BY <3>1, <3>2, <3>3
  <2>5. QED
    BY <2>1, <2>2, <2>3, <2>4 DEF InWindows
<1>5. CountsLast(h, b, allowed)
  <2>1. h # <<>> /\ b.count = 1 /\ b.resetAt - Window = now /\ Len(h) - b.count + 1 = Len(g) + 1
    BY <1>2
  <2>2. \A i \in DOMAIN h : i > Len(h) - b.count <=> h[i].from = b.resetAt - Window
    BY <1>2, <1>3, <2>1
  <2>3. h[Len(h) - b.count + 1].at = b.resetAt - Window
    BY <1>2, <2>1
  <2>4. b.count \in 1 .. allowed /\ b.count <= Len(h)
    BY <1>2, <2>1
  <2>5. QED
    BY <2>1, <2>2, <2>3, <2>4 DEF CountsLast
<1>6. QED
  BY <1>1, <1>2, <1>4, <1>5 DEF h

\* A grant in the window that runs.
LEMMA WindowGoesOn ==
  ASSUME NEW g \in Seq(Granted), NEW bucket \in Bucket, NEW allowed \in Nat \ {0}, NEW now \in Nat \ {0},
         InWindows(g, allowed, now), CountsLast(g, bucket, allowed), bucket.resetAt > now, bucket.count < allowed
  PROVE  LET h == Append(g, [at |-> now, from |-> bucket.resetAt - Window])
             b == [bucket EXCEPT !.count = @ + 1]
         IN  h \in Seq(Granted) /\ b \in Bucket /\ InWindows(h, allowed, now) /\ CountsLast(h, b, allowed)
<1> DEFINE from == bucket.resetAt - Window
           n == bucket.count
           x == [at |-> now, from |-> from]
           h == Append(g, x)
           b == [bucket EXCEPT !.count = @ + 1]
<1> Window \in Nat \ {0}
  BY RateLimitsAssumption
<1>1. x \in Granted /\ b \in Bucket /\ b.count = n + 1 /\ b.resetAt = bucket.resetAt /\ from \in Int /\ n \in Nat
      /\ bucket.resetAt \in Nat
  BY DEF Granted, Bucket
<1>2. /\ h \in Seq(Granted) /\ Len(h) = Len(g) + 1 /\ Len(g) \in Nat
      /\ DOMAIN g = 1 .. Len(g) /\ DOMAIN h = 1 .. Len(g) + 1
      /\ h[Len(g) + 1] = x /\ \A i \in DOMAIN g : h[i] = g[i] /\ g[i] \in Granted
  BY <1>1
<1> HIDE DEF h, b
<1>3. g # <<>> /\ n \in 1 .. allowed /\ n <= Len(g)
  BY <1>1 DEF CountsLast
<1>4. /\ \A i \in DOMAIN g : i > Len(g) - n <=> g[i].from = from
      /\ g[Len(g) - n + 1].at = from
  BY <1>3 DEF CountsLast
<1>5. \A i \in DOMAIN g : /\ g[i].at \in Nat /\ g[i].from \in Int
                          /\ g[i].from = from \/ g[i].from + Window <= from
  <2> SUFFICES ASSUME NEW i \in DOMAIN g
               PROVE  /\ g[i].at \in Nat /\ g[i].from \in Int
                      /\ g[i].from = from \/ g[i].from + Window <= from
    OBVIOUS
  <2>1. g[i].at \in Nat /\ g[i].from \in Int
    BY <1>2 DEF Granted
  <2>2. Len(g) \in DOMAIN g /\ i <= Len(g) /\ Len(g) > Len(g) - n
    BY <1>1, <1>2, <1>3
  <2>3. g[Len(g)].from = from
    BY <1>4, <2>2
  <2>4. QED
    BY <2>1, <2>2, <2>3 DEF InWindows
<1>6. from <= now /\ now < from + Window
  <2>1. Len(g) \in DOMAIN g /\ Len(g) > Len(g) - n
    BY <1>1, <1>2, <1>3
  <2>2. g[Len(g)].from = from /\ g[Len(g)].from <= g[Len(g)].at /\ g[Len(g)].at <= now
    BY <1>4, <2>1 DEF InWindows
  <2>3. QED
    BY <1>1, <1>5, <2>1, <2>2
<1>7. InWindows(h, allowed, now)
  <2>1. \A i \in DOMAIN h : h[i].from <= h[i].at /\ h[i].at < h[i].from + Window /\ h[i].at <= now
    BY <1>2, <1>6 DEF InWindows
  <2>2. ASSUME NEW i \in DOMAIN h, NEW j \in DOMAIN h, i <= j
        PROVE  h[i].from = h[j].from \/ h[i].from + Window <= h[j].from
    BY <1>2, <1>5, <2>2 DEF InWindows
  <2>3. ASSUME NEW i \in DOMAIN h, NEW j \in DOMAIN h, j = i + allowed
        PROVE  h[i].from # h[j].from
    <3>1. CASE j = Len(g) + 1
      <4>1. i \in DOMAIN g /\ ~(i > Len(g) - n)
        BY <1>1, <1>2, <1>3, <2>3, <3>1
      <4>2. QED
        BY <1>2, <1>4, <3>1, <4>1
    <3>2. CASE j # Len(g) + 1
      <4>1. i \in DOMAIN g /\ j \in DOMAIN g
        BY <1>2, <2>3, <3>2
      <4>2. QED
        BY <1>2, <2>3, <4>1 DEF InWindows
    <3>3. QED
      BY <3>1, <3>2
  <2>4. ASSUME NEW i \in DOMAIN h, NEW j \in DOMAIN h, j = i + allowed - 1, h[i].from = h[j].from
        PROVE  h[i].at = h[i].from
    <3>1. CASE j = Len(g) + 1
      <4>1. i \in DOMAIN g
        BY <1>1, <1>2, <1>3, <2>4, <3>1
      <4>2. g[i].from = from /\ i > Len(g) - n
        BY <1>2, <1>4, <2>4, <3>1, <4>1
      <4>3. i \in Nat /\ allowed = n + 1 /\ i + allowed = Len(g) + 2
        <5>1. i \in Nat /\ i + allowed = Len(g) + 2
          BY <1>2, <2>4, <3>1
        <5>2. n \in Nat /\ Len(g) \in Nat /\ allowed \in Nat /\ n < allowed /\ i > Len(g) - n
          BY <1>1, <1>2, <4>2
        <5> HIDE DEF n
        <5>3. allowed = n + 1
          BY <5>1, <5>2
        <5>4. QED
          BY <5>1, <5>3
      <4>4. QED
        <5>1. i = Len(g) - n + 1
          <6>1. Len(g) \in Nat /\ n \in Nat
            BY <1>1, <1>2
          <6> HIDE DEF n
          <6>2. QED
            BY <4>3, <6>1
        <5>2. QED
          BY <1>2, <1>4, <4>1, <4>2, <5>1
    <3>2. CASE j # Len(g) + 1
      <4>1. i \in DOMAIN g /\ j \in DOMAIN g
        BY <1>2, <2>4, <3>2
      <4>2. QED
        BY <1>2, <2>4, <4>1 DEF InWindows
    <3>3. QED
      BY <3>1, <3>2
  <2>5. QED
    BY <2>1, <2>2, <2>3, <2>4 DEF InWindows
<1>8. CountsLast(h, b, allowed)
  <2>1. h # <<>> /\ Len(h) - b.count = Len(g) - n /\ b.resetAt - Window = from
    <3>1. h # <<>>
      BY <1>2
    <3>2. Len(h) - b.count = Len(g) - n
      <4>1. Len(h) = Len(g) + 1 /\ b.count = n + 1 /\ Len(g) \in Nat /\ n \in Nat
        BY <1>1, <1>2
      <4> HIDE DEF n
      <4>2. QED
        BY <4>1
    <3>3. b.resetAt - Window = from
      BY <1>1
    <3>4. QED
      BY <3>1, <3>2, <3>3
  <2>2. \A i \in DOMAIN h : i > Len(h) - b.count <=> h[i].from = b.resetAt - Window
    <3> SUFFICES ASSUME NEW i \in DOMAIN h PROVE i > Len(g) - n <=> h[i].from = from
      BY <2>1
    <3>1. CASE i \in DOMAIN g
      BY <1>2, <1>4, <3>1
    <3>2. CASE i = Len(g) + 1
      <4>1. i > Len(g) - n
        BY <1>1, <1>2, <1>3, <3>2
      <4>2. QED
        BY <1>2, <3>2, <4>1
    <3>3. QED
      BY <1>2, <3>1, <3>2
  <2>3. Len(g) - n + 1 \in DOMAIN g
    BY <1>1, <1>2, <1>3
  <2>4. h[Len(h) - b.count + 1].at = b.resetAt - Window
    BY <1>2, <1>4, <2>1, <2>3
  <2>5. b.count \in 1 .. allowed /\ b.count <= Len(h)
    BY <1>1, <1>2, <1>3
  <2>6. QED
    BY <2>1, <2>2, <2>4, <2>5 DEF CountsLast
<1>9. QED
  BY <1>1, <1>2, <1>7, <1>8 DEF h, b

\* What the windows say of any stretch of twice the allowance.
LEMMA WindowsBound ==
  ASSUME NEW g, NEW allowed \in Nat \ {0}, NEW now
  PROVE  g \in Seq(Granted) /\ InWindows(g, allowed, now) =>
            \A i, j \in DOMAIN g : j >= i + 2 * allowed - 1 => g[j].at >= g[i].at + Window
<1> Window \in Nat \ {0}
  BY RateLimitsAssumption
<1>0. SUFFICES ASSUME g \in Seq(Granted), InWindows(g, allowed, now),
                      NEW i \in DOMAIN g, NEW j \in DOMAIN g, j >= i + 2 * allowed - 1
               PROVE  g[j].at >= g[i].at + Window
  OBVIOUS
<1>1. /\ DOMAIN g = 1 .. Len(g) /\ Len(g) \in Nat /\ i \in Nat /\ j \in Nat
      /\ \A l \in DOMAIN g : g[l].at \in Nat /\ g[l].from \in Int
  <2>1. DOMAIN g = 1 .. Len(g) /\ Len(g) \in Nat /\ i \in Nat /\ j \in Nat
    BY <1>0
  <2>2. \A l \in DOMAIN g : g[l] \in Granted
    BY <1>0
  <2>3. QED
    BY <2>1, <2>2 DEF Granted
<1>2. \A l, n \in DOMAIN g : l <= n => g[l].from = g[n].from \/ g[l].from + Window <= g[n].from
  BY <1>0 DEF InWindows
<1>3. g[j].from <= g[j].at /\ g[i].at < g[i].from + Window
  BY <1>0 DEF InWindows
<1>4. PICK m \in DOMAIN g : m = i + allowed - 1
  BY <1>0, <1>1
<1>5. CASE g[i].from = g[m].from
  <2>1. g[i].at = g[i].from
    BY <1>0, <1>4, <1>5 DEF InWindows
  <2>2. PICK q \in DOMAIN g : q = i + allowed
    BY <1>0, <1>1
  <2>3. g[i].from # g[q].from
    BY <1>0, <2>2 DEF InWindows
  <2>4. i <= q /\ q <= j
    BY <1>0, <1>1, <2>2
  <2>5. g[i].from + Window <= g[q].from
    BY <1>2, <2>3, <2>4
  <2>6. g[q].from = g[j].from \/ g[q].from + Window <= g[j].from
    BY <1>2, <2>4
  <2>7. g[q].from \in Int /\ g[j].from \in Int /\ g[j].at \in Nat /\ g[i].from \in Int
    BY <1>1
  <2>8. QED
    BY <1>3, <2>1, <2>5, <2>6, <2>7
<1>6. CASE g[i].from # g[m].from
  <2>1. PICK q \in DOMAIN g : q = m + allowed
    BY <1>0, <1>1, <1>4
  <2>2. i <= m /\ m <= q /\ q <= j
    BY <1>0, <1>1, <1>4, <2>1
  <2>3. g[m].from # g[q].from
    BY <1>0, <2>1 DEF InWindows
  <2>4. g[i].from + Window <= g[m].from
    BY <1>2, <1>6, <2>2
  <2>5. g[m].from + Window <= g[q].from
    BY <1>2, <2>2, <2>3
  <2>6. g[q].from = g[j].from \/ g[q].from + Window <= g[j].from
    BY <1>2, <2>2
  <2>7. g[j].at \in Nat /\ g[i].at \in Nat
    BY <1>1
  <2>8. g[q].from \in Int /\ g[j].from \in Int /\ g[m].from \in Int /\ g[i].from \in Int
    BY <1>1
  <2>9. g[q].from <= g[j].at
    BY <1>3, <2>6, <2>7, <2>8
  <2>10. g[i].at + Window <= g[q].from
    BY <1>3, <2>4, <2>5, <2>7, <2>8
  <2>11. QED
    BY <2>7, <2>8, <2>9, <2>10
<1>7. QED
  BY <1>5, <1>6

-----------------------------------------------------------------------------
LEMMA WindowNow == RateLimitsTypeOK => clock \div Window \in Windows /\ clock \div Window \in Nat /\ 0 \in Windows
<1> SUFFICES ASSUME RateLimitsTypeOK
             PROVE  clock \div Window \in Windows /\ clock \div Window \in Nat /\ 0 \in Windows
  OBVIOUS
<1>1. clock \in Nat /\ MaxTime \in Nat /\ clock <= MaxTime /\ Window \in Nat \ {0}
  BY RateLimitsAssumption DEF RateLimitsTypeOK
<1>2. clock \div Window \in Nat /\ MaxTime \div Window \in Nat /\ clock \div Window <= MaxTime \div Window
  BY <1>1, Divisions
<1>3. QED
  BY <1>2 DEF Windows

LEMMA RequestsAreCalls ==
  ASSUME RateLimitsTypeOK, NEW c \in Clients
  PROVE  /\ NoRequest \notin Call /\ NoRequest.state = "none"
         /\ calls[c] # NoRequest <=> calls[c] \in Call
         /\ calls[c].state # "none" => calls[c] \in Call
         /\ calls[c] \in Call => Key(c) \in Keys /\ Len(calls[c].request.keys) \in Nat
<1>1. NoRequest.state = "none" /\ \A call \in Call : call.state # "none"
  BY DEF NoRequest, Call, CallStates
<1>2. calls[c] \in Call \union {NoRequest}
  BY DEF RateLimitsTypeOK
<1>3. ASSUME calls[c] \in Call PROVE Key(c) \in Keys /\ Len(calls[c].request.keys) \in Nat
  <2>1. calls[c].request \in Requests /\ calls[c].next \in 1 .. Len(calls[c].request.keys)
    BY <1>3 DEF Call
  <2>2. calls[c].request.keys \in Seq(Keys)
    BY <2>1, RateLimitsAssumption
  <2>3. QED
    BY <2>1, <2>2 DEF Key
<1>4. QED
  BY <1>1, <1>2, <1>3

LEMMA CountingIsACall ==
  ASSUME RateLimitsTypeOK, NEW call \in Call, NEW by \in {"none", "memory", "redis"}
  PROVE  /\ Counting(call, by) \in Call
         /\ Counting(call, by).state = "counting" /\ Counting(call, by).by = by
         /\ Counting(call, by).window = clock \div Window /\ Counting(call, by).failed = call.failed
BY WindowNow DEF Counting, Call, CallStates

LEMMA PassedIsACall ==
  ASSUME RateLimitsTypeOK, NEW c \in Clients, calls[c] \in Call
  PROVE  /\ Passed(c) \in Call
         /\ Passed(c).state \in {"counting", "allowed"} /\ Passed(c).by = calls[c].by
         /\ Passed(c).window \in {calls[c].window, clock \div Window} /\ Passed(c).failed = calls[c].failed
<1>1. CASE calls[c].next < Len(calls[c].request.keys)
  <2> DEFINE call == [calls[c] EXCEPT !.next = @ + 1]
  <2>1. Len(calls[c].request.keys) \in Nat
    BY RequestsAreCalls
  <2>2. call \in Call /\ call.failed = calls[c].failed
    BY <1>1, <2>1 DEF Call
  <2>3. calls[c].by \in {"none", "memory", "redis"}
    BY DEF Call
  <2>4. Passed(c) = Counting(call, calls[c].by)
    BY <1>1 DEF Passed
  <2> HIDE DEF call
  <2>5. QED
    BY <2>2, <2>3, <2>4, CountingIsACall
<1>2. CASE ~(calls[c].next < Len(calls[c].request.keys))
  BY <1>2 DEF Passed, Call, CallStates
<1>3. QED
  BY <1>1, <1>2

\* What a request finds in the bucket of its process.
LEMMA ChecksCount ==
  ASSUME RateLimitsTypeOK, BucketsCount, NEW c \in Clients, calls[c] \in Call, NEW failed \in BOOLEAN,
         checkRateLimit(c, failed)
  PROVE  /\ buckets' \in [Processes -> [Keys -> Bucket]] /\ granted' \in [Processes -> [Keys -> Seq(Granted)]]
         /\ \A p \in Processes, k \in Keys :
               InWindows(granted'[p][k], Allowance[k], clock) /\ CountsLast(granted'[p][k], buckets'[p][k], Allowance[k])
         /\ \E call \in Call :
               /\ calls' = [calls EXCEPT ![c] = call]
               /\ call.state \in {"counting", "allowed", "limited"} /\ call.by = calls[c].by
               /\ call.window \in {calls[c].window, clock \div Window} /\ call.failed = failed
<1> DEFINE p == calls[c].process
           k == Key(c)
           bucket == buckets[p][k]
           g == granted[p][k]
           passed == [Passed(c) EXCEPT !.failed = failed]
           Kept(h, b) == /\ h \in Seq(Granted) /\ b \in Bucket
                         /\ InWindows(h, Allowance[k], clock) /\ CountsLast(h, b, Allowance[k])
<1>1. p \in Processes /\ k \in Keys /\ Allowance[k] \in Nat \ {0} /\ clock \in Nat \ {0}
  <2>1. p \in Processes /\ k \in Keys
    BY RequestsAreCalls DEF Call
  <2>2. QED
    BY <2>1, RateLimitsAssumption DEF RateLimitsTypeOK
<1>2. g \in Seq(Granted) /\ bucket \in Bucket /\ InWindows(g, Allowance[k], clock) /\ CountsLast(g, bucket, Allowance[k])
  BY <1>1 DEF RateLimitsTypeOK, BucketsCount
<1>3. passed \in Call /\ passed.state \in {"counting", "allowed", "limited"} /\ passed.by = calls[c].by
      /\ passed.window \in {calls[c].window, clock \div Window} /\ passed.failed = failed
  BY PassedIsACall DEF Call
<1>4. ASSUME NEW h, NEW b, Kept(h, b),
             buckets' = [buckets EXCEPT ![p][k] = b], granted' = [granted EXCEPT ![p][k] = h]
      PROVE  /\ buckets' \in [Processes -> [Keys -> Bucket]] /\ granted' \in [Processes -> [Keys -> Seq(Granted)]]
             /\ \A q \in Processes, l \in Keys :
                   InWindows(granted'[q][l], Allowance[l], clock) /\ CountsLast(granted'[q][l], buckets'[q][l], Allowance[l])
  <2> HIDE DEF p, k
  <2>1. buckets \in [Processes -> [Keys -> Bucket]] /\ granted \in [Processes -> [Keys -> Seq(Granted)]]
    BY DEF RateLimitsTypeOK
  <2>2. buckets' \in [Processes -> [Keys -> Bucket]] /\ granted' \in [Processes -> [Keys -> Seq(Granted)]]
    BY <1>1, <1>4, <2>1
  <2>3. ASSUME NEW q \in Processes, NEW l \in Keys
        PROVE  InWindows(granted'[q][l], Allowance[l], clock) /\ CountsLast(granted'[q][l], buckets'[q][l], Allowance[l])
    <3>1. CASE q = p /\ l = k
      <4>1. buckets'[q][l] = b /\ granted'[q][l] = h
        BY <1>1, <1>4, <2>1, <3>1
      <4>2. QED
        BY <1>4, <3>1, <4>1
    <3>2. CASE ~(q = p /\ l = k)
      <4>1. buckets'[q][l] = buckets[q][l] /\ granted'[q][l] = granted[q][l]
        BY <1>1, <1>4, <2>1, <3>2
      <4>2. QED
        BY <4>1 DEF BucketsCount
    <3>3. QED
      BY <3>1, <3>2
  <2>4. QED
    BY <2>2, <2>3
<1>5. CASE bucket.resetAt <= clock /\ calls' = [calls EXCEPT ![c] = passed]
           /\ buckets' = [buckets EXCEPT ![p][k] = [count |-> 1, resetAt |-> clock + Window]]
           /\ Grants(p, k, clock)
  <2> DEFINE h == Append(g, [at |-> clock, from |-> clock])
             b == [count |-> 1, resetAt |-> clock + Window]
  <2>1. Kept(h, b)
    BY <1>1, <1>2, <1>5, WindowBegins
  <2>2. buckets' = [buckets EXCEPT ![p][k] = b] /\ granted' = [granted EXCEPT ![p][k] = h]
    BY <1>1, <1>5 DEF Grants, RateLimitsTypeOK
  <2> HIDE DEF h, b, Kept, passed, p, k
  <2>3. QED
    BY <1>3, <1>4, <1>5, <2>1, <2>2
<1>6. CASE calls' = [calls EXCEPT ![c] = [[calls[c] EXCEPT !.state = "limited"] EXCEPT !.failed = failed]]
           /\ UNCHANGED <<buckets, granted>>
  <2> DEFINE call == [[calls[c] EXCEPT !.state = "limited"] EXCEPT !.failed = failed]
  <2>1. call \in Call /\ call.state = "limited" /\ call.by = calls[c].by /\ call.window = calls[c].window
        /\ call.failed = failed
    BY DEF Call, CallStates
  <2> HIDE DEF call
  <2>2. QED
    BY <1>6, <2>1 DEF BucketsCount, RateLimitsTypeOK, call
<1>7. CASE bucket.resetAt > clock /\ bucket.count < Allowance[k] /\ calls' = [calls EXCEPT ![c] = passed]
           /\ buckets' = [buckets EXCEPT ![p][k].count = @ + 1]
           /\ Grants(p, k, bucket.resetAt - Window)
  <2> DEFINE h == Append(g, [at |-> clock, from |-> bucket.resetAt - Window])
             b == [bucket EXCEPT !.count = @ + 1]
  <2>1. Kept(h, b)
    BY <1>1, <1>2, <1>7, WindowGoesOn
  <2>2. buckets' = [buckets EXCEPT ![p][k] = b] /\ granted' = [granted EXCEPT ![p][k] = h]
    BY <1>1, <1>7 DEF Grants, RateLimitsTypeOK
  <2> HIDE DEF h, b, Kept, passed, p, k
  <2>3. QED
    BY <1>3, <1>4, <1>7, <2>1, <2>2
<1>8. QED
  BY <1>5, <1>6, <1>7 DEF checkRateLimit

\* A request that falls back has failed.
LEMMA FallsBackCounts ==
  ASSUME RateLimitsTypeOK, BucketsCount, NEW c \in Clients, calls[c] \in Call, fallsBack(c)
  PROVE  /\ buckets' \in [Processes -> [Keys -> Bucket]] /\ granted' \in [Processes -> [Keys -> Seq(Granted)]]
         /\ \A p \in Processes, k \in Keys :
               InWindows(granted'[p][k], Allowance[k], clock) /\ CountsLast(granted'[p][k], buckets'[p][k], Allowance[k])
         /\ \E call \in Call :
               /\ calls' = [calls EXCEPT ![c] = call]
               /\ call.state \in {"counting", "allowed", "limited", "error"} /\ call.by = calls[c].by
               /\ call.window \in {calls[c].window, clock \div Window} /\ call.failed = TRUE
<1>1. CASE checkRateLimit(c, TRUE)
  BY <1>1, ChecksCount
<1>2. CASE calls' = [calls EXCEPT ![c].state = "error", ![c].failed = TRUE] /\ UNCHANGED <<buckets, granted>>
  <2> DEFINE call == [[calls[c] EXCEPT !.state = "error"] EXCEPT !.failed = TRUE]
  <2>1. call \in Call /\ call.state = "error" /\ call.by = calls[c].by /\ call.window = calls[c].window
        /\ call.failed = TRUE
    BY DEF Call, CallStates
  <2>2. calls' = [calls EXCEPT ![c] = call]
    BY <1>2 DEF RateLimitsTypeOK
  <2> HIDE DEF call
  <2>3. QED
    BY <1>2, <2>1, <2>2 DEF BucketsCount, RateLimitsTypeOK
<1>3. QED
  BY <1>1, <1>2 DEF fallsBack

-----------------------------------------------------------------------------
IsShared == deployment = [provider |-> "redis", production |-> TRUE]

EndsKept == \A k \in Keys, w \in Windows : counters'[k][w].until # Never => counters'[k][w].until \div Window > w

CountsKept ==
    /\ buckets' \in [Processes -> [Keys -> Bucket]] /\ granted' \in [Processes -> [Keys -> Seq(Granted)]]
    /\ \A p \in Processes, k \in Keys :
          InWindows(granted'[p][k], Allowance[k], clock) /\ CountsLast(granted'[p][k], buckets'[p][k], Allowance[k])

LEMMA CountsUnchanged == RateLimitsTypeOK /\ BucketsCount /\ UNCHANGED <<buckets, granted>> => CountsKept
BY DEF RateLimitsTypeOK, BucketsCount, CountsKept

\* The step of one request: what it leaves in its place.
LEMMA CallMoves ==
  ASSUME RateLimitsInv, NEW c \in Clients, NEW call \in Call, calls' = [calls EXCEPT ![c] = call],
         UNCHANGED <<clock, deployment>>,
         store' \in [Processes -> {"none", "memory", "redis"}], initializing' \in [Processes -> BOOLEAN],
         counters' \in [Keys -> [Windows -> Counter]],
         \A p \in Processes : initializing'[p] => store'[p] # "redis",
         CountsKept, EndsKept,
         IsShared => /\ \A p \in Processes : store'[p] # "memory"
                     /\ call.by # "memory" /\ (call.state = "failing" => call.failed)
                     /\ call.failed \/ granted' = granted,
         calls[c] # NoRequest /\ calls[c].failed => call.failed,
         call.window <= clock \div Window,
         call.state = "refused" /\ call.again # Never => call.again \div Window > call.window
  PROVE  RateLimitsInv'
<1>1. calls \in [Clients -> Call \union {NoRequest}] /\ RateLimitsTypeOK
  BY DEF RateLimitsInv, RateLimitsTypeOK
<1>2. /\ calls' \in [Clients -> Call \union {NoRequest}] /\ calls'[c] = call
      /\ \A d \in Clients : d # c => calls'[d] = calls[d]
  BY <1>1
<1>3. call # NoRequest
  BY RequestsAreCalls, <1>1
<1>4. RateLimitsTypeOK'
  BY <1>1, <1>2 DEF RateLimitsTypeOK, CountsKept
<1>5. BucketsCount'
  BY DEF BucketsCount, CountsKept, InWindows, CountsLast
<1>6. CountsAreShared'
  <2> SUFFICES ASSUME IsShared
               PROVE  /\ \A p \in Processes : store'[p] # "memory"
                      /\ \A d \in Clients : calls'[d] # NoRequest =>
                            calls'[d].by # "memory" /\ (calls'[d].state = "failing" => calls'[d].failed)
                      /\ \/ \E d \in Clients : calls'[d] # NoRequest /\ calls'[d].failed
                         \/ \A p \in Processes, k \in Keys : granted'[p][k] = <<>>
    BY DEF CountsAreShared, IsShared
  <2>1. /\ \A d \in Clients : calls[d] # NoRequest =>
              calls[d].by # "memory" /\ (calls[d].state = "failing" => calls[d].failed)
        /\ \/ \E d \in Clients : calls[d] # NoRequest /\ calls[d].failed
           \/ \A p \in Processes, k \in Keys : granted[p][k] = <<>>
    BY DEF RateLimitsInv, CountsAreShared, IsShared
  <2>2. \A d \in Clients : calls'[d] # NoRequest =>
            calls'[d].by # "memory" /\ (calls'[d].state = "failing" => calls'[d].failed)
    BY <1>2, <2>1
  <2>3. CASE \E d \in Clients : calls[d] # NoRequest /\ calls[d].failed
    <3>1. PICK d \in Clients : calls[d] # NoRequest /\ calls[d].failed
      BY <2>3
    <3>2. calls'[d] # NoRequest /\ calls'[d].failed
      BY <1>2, <1>3, <3>1
    <3>3. QED
      BY <2>2, <3>2
  <2>4. CASE \A p \in Processes, k \in Keys : granted[p][k] = <<>>
    BY <1>2, <1>3, <2>2, <2>4
  <2>5. QED
    BY <2>1, <2>3, <2>4
<1>7. CountersEnd'
  <2>1. \A d \in Clients : calls'[d] # NoRequest => calls'[d].window <= clock \div Window
    BY <1>2 DEF RateLimitsInv, CountersEnd
  <2>2. QED
    BY <2>1 DEF CountersEnd, EndsKept
<1>8. RefusalsEnd'
  BY <1>2 DEF RateLimitsInv, RefusalsEnd
<1>9. QED
  BY <1>4, <1>5, <1>6, <1>7, <1>8 DEF RateLimitsInv

\* How a counter that is counted, or is to expire, ends.
LEMMA IncrementEnds ==
  ASSUME RateLimitsInv, NEW c \in Clients, calls[c] \in Call, increment(c)
  PROVE  counters' \in [Keys -> [Windows -> Counter]] /\ EndsKept
<1> DEFINE k == Key(c)
           w == calls[c].window
           counted == Counted(counters[k][w])
<1>1. k \in Keys /\ w \in Windows /\ counters \in [Keys -> [Windows -> Counter]]
  BY RequestsAreCalls DEF RateLimitsInv, RateLimitsTypeOK, Call
<1>2. counters[k][w] \in Counter
  BY <1>1
<1>3. counted \in Counter /\ counted.until \in {Never, counters[k][w].until}
  BY <1>2 DEF Counted, Counter, Never
<1>4. counters' = [counters EXCEPT ![k][w] = counted]
  BY DEF increment
<1> HIDE DEF k, w, counted
<1>5. counters' \in [Keys -> [Windows -> Counter]]
  BY <1>1, <1>3, <1>4
<1>6. ASSUME NEW l \in Keys, NEW v \in Windows
      PROVE  counters'[l][v].until # Never => counters'[l][v].until \div Window > v
  <2>1. counters[l][v].until # Never => counters[l][v].until \div Window > v
    BY DEF RateLimitsInv, CountersEnd
  <2>2. CASE l = k /\ v = w
    <3>1. counters'[l][v] = counted
      BY <1>1, <1>4, <2>2
    <3>2. QED
      BY <1>3, <2>1, <2>2, <3>1
  <2>3. CASE ~(l = k /\ v = w)
    <3>1. counters'[l][v] = counters[l][v]
      BY <1>1, <1>4, <2>3
    <3>2. QED
      BY <2>1, <3>1
  <2>4. QED
    BY <2>2, <2>3
<1>7. QED
  BY <1>5, <1>6 DEF EndsKept

LEMMA ExpiryEnds ==
  ASSUME RateLimitsInv, NEW c \in Clients, calls[c] \in Call
  PROVE  counters' = [counters EXCEPT ![Key(c)][calls[c].window].until = clock + Window] =>
            counters' \in [Keys -> [Windows -> Counter]] /\ EndsKept
<1>0. SUFFICES ASSUME counters' = [counters EXCEPT ![Key(c)][calls[c].window].until = clock + Window]
               PROVE  counters' \in [Keys -> [Windows -> Counter]] /\ EndsKept
  OBVIOUS
<1> DEFINE k == Key(c)
           w == calls[c].window
           counter == [counters[k][w] EXCEPT !.until = clock + Window]
<1>1. k \in Keys /\ w \in Windows /\ counters \in [Keys -> [Windows -> Counter]]
  BY RequestsAreCalls DEF RateLimitsInv, RateLimitsTypeOK, Call
<1>2. clock \in Nat /\ Window \in Nat \ {0} /\ w \in Nat /\ w <= clock \div Window
  <2>1. calls[c] # NoRequest
    BY RequestsAreCalls DEF RateLimitsInv
  <2>2. w <= clock \div Window
    BY <2>1 DEF RateLimitsInv, CountersEnd
  <2>3. QED
    BY <1>1, <2>2, RateLimitsAssumption DEF RateLimitsInv, RateLimitsTypeOK, Windows
<1>3. counter \in Counter /\ counter.until = clock + Window
  <2>1. counters[k][w] \in Counter /\ clock + Window \in Nat
    BY <1>1, <1>2
  <2> HIDE DEF k, w
  <2>2. QED
    BY <2>1 DEF Counter
<1>4. (clock + Window) \div Window > w
  <2>1. (clock + Window) \div Window = (clock \div Window) + 1 /\ clock \div Window \in Nat
    BY <1>2, Divisions
  <2>2. QED
    BY <1>2, <2>1
<1>5. counters' = [counters EXCEPT ![k][w] = counter]
  BY <1>0, <1>1
<1> HIDE DEF k, w, counter
<1>6. counters' \in [Keys -> [Windows -> Counter]]
  <2>1. counter \in Counter
    BY <1>3
  <2>2. QED
    BY <1>1, <1>5, <2>1
<1>7. ASSUME NEW l \in Keys, NEW v \in Windows
      PROVE  counters'[l][v].until # Never => counters'[l][v].until \div Window > v
  <2>1. counters[l][v].until # Never => counters[l][v].until \div Window > v
    BY DEF RateLimitsInv, CountersEnd
  <2>2. CASE l = k /\ v = w
    <3>1. counters'[l][v] = counter
      BY <1>1, <1>5, <2>2
    <3>2. QED
      BY <1>3, <1>4, <2>2, <3>1
  <2>3. CASE ~(l = k /\ v = w)
    <3>1. counters'[l][v] = counters[l][v]
      BY <1>1, <1>5, <2>3
    <3>2. QED
      BY <2>1, <3>1
  <2>4. QED
    BY <2>2, <2>3
<1>8. QED
  BY <1>6, <1>7 DEF EndsKept

-----------------------------------------------------------------------------
LEMMA RateLimitsStart == RateLimitsInit => RateLimitsInv
<1> SUFFICES ASSUME RateLimitsInit PROVE RateLimitsInv
  OBVIOUS
<1>1. RateLimitsTypeOK
  <2>1. clock \in 1 .. MaxTime
    BY RateLimitsAssumption DEF RateLimitsInit
  <2>2. [count |-> 0, resetAt |-> 0] \in Bucket /\ [count |-> 0, until |-> Never] \in Counter /\ <<>> \in Seq(Granted)
    BY DEF Bucket, Counter, Never
  <2>3. QED
    BY <2>1, <2>2 DEF RateLimitsInit, RateLimitsTypeOK
<1>2. \A p \in Processes, k \in Keys : granted[p][k] = <<>> /\ buckets[p][k].resetAt = 0
  BY DEF RateLimitsInit
<1>3. BucketsCount
  BY <1>2 DEF BucketsCount, InWindows, CountsLast
<1>4. \A c \in Clients : calls[c] = NoRequest
  BY DEF RateLimitsInit
<1>5. \A k \in Keys, w \in Windows : counters[k][w].until = Never
  BY DEF RateLimitsInit
<1>6. CountsAreShared /\ CountersEnd /\ RefusalsEnd /\ \A p \in Processes : initializing[p] => store[p] # "redis"
  BY <1>2, <1>4, <1>5 DEF RateLimitsInit, CountsAreShared, CountersEnd, RefusalsEnd, NoRequest
<1>7. QED
  BY <1>1, <1>3, <1>6 DEF RateLimitsInv

LEMMA Arrivals ==
  ASSUME RateLimitsTypeOK, NEW p \in Processes, NEW r \in Requests
  PROVE  /\ Arrived(p, r) \in Call /\ Arrived(p, r).state = "connecting" /\ Arrived(p, r).by = "none"
         /\ Arrived(p, r).window = 0 /\ Arrived(p, r).failed = FALSE
<1>1. r.keys \in Seq(Keys) /\ r.keys # <<>>
  BY RateLimitsAssumption
<1>2. 1 <= Len(r.keys)
  BY <1>1
<1>3. QED
  BY <1>2, WindowNow DEF Arrived, Call, CallStates, Never

\* A request that comes.
LEMMA ArrivalKeeps ==
  ASSUME RateLimitsInv, NEW c \in Clients, NEW p \in Processes, NEW r \in Requests, getCoordinationStore(c, p, r)
  PROVE  RateLimitsInv'
<1>1. RateLimitsTypeOK /\ BucketsCount /\ calls[c] = NoRequest
  BY DEF RateLimitsInv, getCoordinationStore
<1>2. /\ Arrived(p, r) \in Call /\ Arrived(p, r).state = "connecting" /\ Arrived(p, r).by = "none"
      /\ Arrived(p, r).window = 0 /\ Arrived(p, r).failed = FALSE
  BY <1>1, Arrivals
<1>3. CountsKept /\ EndsKept /\ UNCHANGED <<clock, deployment, counters, granted>>
      /\ counters' \in [Keys -> [Windows -> Counter]]
  BY <1>1, CountsUnchanged
     DEF getCoordinationStore, RateLimitsInv, CountersEnd, EndsKept, RateLimitsTypeOK
<1>4. /\ store \in [Processes -> {"none", "memory", "redis"}] /\ initializing \in [Processes -> BOOLEAN]
      /\ \A q \in Processes : initializing[q] => store[q] # "redis"
      /\ IsShared => deployment.provider = "redis" /\ \A q \in Processes : store[q] # "memory"
  BY <1>1 DEF RateLimitsTypeOK, RateLimitsInv, CountsAreShared, IsShared
<1>5. clock \div Window \in Nat
  BY <1>1, WindowNow
<1>6. CASE /\ store[p] # "none" /\ calls' = [calls EXCEPT ![c] = Counting(Arrived(p, r), store[p])]
           /\ UNCHANGED <<store, initializing>>
  <2> DEFINE call == Counting(Arrived(p, r), store[p])
  <2>1. call \in Call /\ call.state = "counting" /\ call.by = store[p] /\ call.window = clock \div Window
        /\ call.failed = FALSE
    BY <1>1, <1>2, <1>4, CountingIsACall
  <2>2. calls' = [calls EXCEPT ![c] = call]
    BY <1>6
  <2> HIDE DEF call
  <2>3. store' \in [Processes -> {"none", "memory", "redis"}] /\ initializing' \in [Processes -> BOOLEAN]
        /\ \A q \in Processes : initializing'[q] => store'[q] # "redis"
    BY <1>4, <1>6
  <2>4. IsShared => (\A q \in Processes : store'[q] # "memory") /\ call.by # "memory" /\ granted' = granted
    BY <1>3, <1>4, <1>6, <2>1
  <2>5. call.window <= clock \div Window
    BY <1>5, <2>1
  <2>6. QED
    BY <1>1, <1>3, <2>1, <2>2, <2>3, <2>4, <2>5, CallMoves
<1>7. CASE /\ store[p] = "none" /\ deployment.provider = "memory" /\ store' = [store EXCEPT ![p] = "memory"]
           /\ calls' = [calls EXCEPT ![c] = Counting(Arrived(p, r), "memory")] /\ UNCHANGED initializing
  <2> DEFINE call == Counting(Arrived(p, r), "memory")
  <2>1. call \in Call /\ call.state = "counting" /\ call.by = "memory" /\ call.window = clock \div Window
        /\ call.failed = FALSE
    BY <1>1, <1>2, CountingIsACall
  <2>2. calls' = [calls EXCEPT ![c] = call]
    BY <1>7
  <2>3. ~IsShared
    BY <1>4, <1>7
  <2>4. store' \in [Processes -> {"none", "memory", "redis"}] /\ initializing' \in [Processes -> BOOLEAN]
        /\ \A q \in Processes : initializing'[q] => store'[q] # "redis"
    BY <1>4, <1>7
  <2> HIDE DEF call
  <2>5. call.window <= clock \div Window
    BY <1>5, <2>1
  <2>6. QED
    BY <1>1, <1>3, <2>1, <2>2, <2>3, <2>4, <2>5, CallMoves
<1>8. CASE /\ store[p] = "none" /\ initializing' = [initializing EXCEPT ![p] = TRUE]
           /\ calls' = [calls EXCEPT ![c] = Arrived(p, r)] /\ UNCHANGED store
  <2> DEFINE call == Arrived(p, r)
  <2>1. call \in Call /\ call.state = "connecting" /\ call.by = "none" /\ call.window = 0 /\ call.failed = FALSE
    BY <1>2
  <2>2. calls' = [calls EXCEPT ![c] = call]
    BY <1>8
  <2>3. store' \in [Processes -> {"none", "memory", "redis"}] /\ initializing' \in [Processes -> BOOLEAN]
        /\ \A q \in Processes : initializing'[q] => store'[q] # "redis"
    BY <1>4, <1>8
  <2> HIDE DEF call
  <2>4. IsShared => (\A q \in Processes : store'[q] # "memory") /\ call.by # "memory" /\ granted' = granted
    BY <1>3, <1>4, <1>8, <2>1
  <2>5. call.window <= clock \div Window
    BY <1>5, <2>1
  <2>6. QED
    BY <1>1, <1>3, <2>1, <2>2, <2>3, <2>4, <2>5, CallMoves
<1>9. QED
  BY <1>6, <1>7, <1>8 DEF getCoordinationStore

\* What the process learns of its connection.
LEMMA ConnectionKeeps ==
  ASSUME RateLimitsInv, NEW p \in Processes, created(p) \/ createFails(p) \/ getCoordinationStoreSync(p)
  PROVE  RateLimitsInv'
<1>1. /\ RateLimitsTypeOK /\ BucketsCount /\ UNCHANGED <<clock, deployment, buckets, counters, granted>>
  BY DEF RateLimitsInv, created, createFails, getCoordinationStoreSync
<1>2. /\ BucketsCount'
      /\ \A k \in Keys, w \in Windows : counters'[k][w].until # Never => counters'[k][w].until \div Window > w
  BY <1>1 DEF BucketsCount, InWindows, CountsLast, RateLimitsInv, CountersEnd
<1>3. /\ store \in [Processes -> {"none", "memory", "redis"}] /\ initializing \in [Processes -> BOOLEAN]
      /\ \A q \in Processes : initializing[q] => store[q] # "redis"
      /\ calls \in [Clients -> Call \union {NoRequest}]
  BY <1>1 DEF RateLimitsInv, RateLimitsTypeOK
<1>4. /\ store' \in [Processes -> {"none", "memory", "redis"}] /\ initializing' \in [Processes -> BOOLEAN]
      /\ \A q \in Processes : initializing'[q] => store'[q] # "redis"
      /\ IsShared => \A q \in Processes : store'[q] # "memory"
  <2>1. IsShared => deployment.provider = "redis" /\ deployment.production /\ \A q \in Processes : store[q] # "memory"
    BY DEF RateLimitsInv, CountsAreShared, IsShared
  <2>2. QED
    BY <1>3, <2>1 DEF created, createFails, getCoordinationStoreSync
<1>5. ASSUME NEW c \in Clients
      PROVE  \/ calls'[c] = calls[c]
             \/ /\ calls[c] \in Call /\ calls'[c] \in Call /\ calls'[c].by \in {calls[c].by, "redis"}
                /\ calls'[c].state \in {"counting", "failing"} /\ calls'[c].window \in {calls[c].window, clock \div Window}
                /\ calls[c].failed => calls'[c].failed
                /\ calls'[c].state = "failing" => calls'[c].failed
  <2>1. calls[c].state = "connecting" => calls[c] \in Call
    BY <1>1, RequestsAreCalls
  <2>2. CASE created(p)
    BY <1>1, <2>1, <2>2, CountingIsACall DEF created
  <2>3. CASE createFails(p)
    <3>1. \/ calls'[c] = calls[c]
          \/ calls[c].state = "connecting" /\ calls'[c] = [calls[c] EXCEPT !.state = "failing", !.failed = TRUE]
      BY <2>3 DEF createFails
    <3>2. QED
      BY <2>1, <3>1 DEF Call, CallStates
  <2>4. CASE getCoordinationStoreSync(p)
    BY <2>4 DEF getCoordinationStoreSync
  <2>5. QED
    BY <2>2, <2>3, <2>4
<1>6. calls' \in [Clients -> Call \union {NoRequest}]
  <2>1. \A c \in Clients : calls'[c] \in Call \union {NoRequest}
    BY <1>3, <1>5
  <2>2. calls' = [c \in Clients |-> calls'[c]]
    BY <1>3 DEF created, createFails, getCoordinationStoreSync
  <2>3. QED
    BY <2>1, <2>2
<1>7. RateLimitsTypeOK'
  BY <1>1, <1>4, <1>6 DEF RateLimitsTypeOK
<1>8. \A c \in Clients : (calls[c] # NoRequest <=> calls'[c] # NoRequest)
  BY <1>1, <1>5, RequestsAreCalls
<1>9. CountsAreShared'
  <2> SUFFICES ASSUME IsShared
               PROVE  /\ \A q \in Processes : store'[q] # "memory"
                      /\ \A d \in Clients : calls'[d] # NoRequest =>
                            calls'[d].by # "memory" /\ (calls'[d].state = "failing" => calls'[d].failed)
                      /\ \/ \E d \in Clients : calls'[d] # NoRequest /\ calls'[d].failed
                         \/ \A q \in Processes, k \in Keys : granted'[q][k] = <<>>
    BY <1>1 DEF CountsAreShared, IsShared
  <2>1. /\ \A d \in Clients : calls[d] # NoRequest =>
              calls[d].by # "memory" /\ (calls[d].state = "failing" => calls[d].failed)
        /\ \/ \E d \in Clients : calls[d] # NoRequest /\ calls[d].failed
           \/ \A q \in Processes, k \in Keys : granted[q][k] = <<>>
    BY DEF RateLimitsInv, CountsAreShared, IsShared
  <2>2. QED
    BY <1>1, <1>4, <1>5, <1>8, <2>1
<1>10. CountersEnd'
  <2>1. ASSUME NEW c \in Clients, calls'[c] # NoRequest PROVE calls'[c].window <= clock \div Window
    <3>1. calls[c].window <= clock \div Window
      BY <1>8, <2>1 DEF RateLimitsInv, CountersEnd
    <3>2. clock \div Window \in Nat
      BY <1>1, WindowNow
    <3>3. QED
      BY <1>5, <3>1, <3>2
  <2>2. QED
    BY <1>1, <1>2, <2>1 DEF CountersEnd
<1>11. RefusalsEnd'
  BY <1>5 DEF RateLimitsInv, RefusalsEnd
<1>12. QED
  BY <1>2, <1>4, <1>7, <1>9, <1>10, <1>11 DEF RateLimitsInv

\* A request that counts in its process, or falls back on it.
LEMMA BucketKeeps ==
  ASSUME RateLimitsInv, NEW c \in Clients, connectionFailed(c) \/ memoryRateLimit(c) \/ rateLimitFails(c)
  PROVE  RateLimitsInv'
<1>1. RateLimitsTypeOK /\ BucketsCount /\ UNCHANGED <<clock, deployment, store, initializing>>
  BY DEF RateLimitsInv, connectionFailed, memoryRateLimit, rateLimitFails
<1>2. calls[c] \in Call /\ calls[c] # NoRequest
  <2>1. calls[c].state # "none"
    BY DEF connectionFailed, memoryRateLimit, rateLimitFails
  <2>2. QED
    BY <1>1, <2>1, RequestsAreCalls
<1>3. counters' \in [Keys -> [Windows -> Counter]] /\ EndsKept
  <2>1. CASE UNCHANGED counters
    BY <1>1, <2>1 DEF RateLimitsInv, CountersEnd, EndsKept, RateLimitsTypeOK
  <2>2. CASE increment(c)
    BY <1>2, <2>2, IncrementEnds
  <2>3. CASE counters' = [counters EXCEPT ![Key(c)][calls[c].window].until = clock + Window]
    BY <1>2, <2>3, ExpiryEnds
  <2>4. QED
    BY <2>1, <2>2, <2>3 DEF connectionFailed, memoryRateLimit, rateLimitFails
<1>4. /\ store' \in [Processes -> {"none", "memory", "redis"}] /\ initializing' \in [Processes -> BOOLEAN]
      /\ \A p \in Processes : initializing'[p] => store'[p] # "redis"
  BY <1>1 DEF RateLimitsTypeOK, RateLimitsInv
<1>5. IsShared => (\A p \in Processes : store'[p] # "memory") /\ calls[c].by # "memory"
  BY <1>1, <1>2 DEF RateLimitsInv, CountsAreShared, IsShared
<1>6. clock \div Window \in Nat /\ calls[c].window <= clock \div Window
  BY <1>1, <1>2, WindowNow DEF RateLimitsInv, CountersEnd
<1>7. ASSUME NEW call \in Call, calls' = [calls EXCEPT ![c] = call], CountsKept,
             call.state \in {"counting", "allowed", "limited", "error"}, call.by = calls[c].by,
             call.window \in {calls[c].window, clock \div Window},
             calls[c].failed => call.failed, IsShared => call.failed
      PROVE  RateLimitsInv'
  <2>1. call.window <= clock \div Window
    BY <1>6, <1>7
  <2>2. QED
    BY <1>1, <1>2, <1>3, <1>4, <1>5, <1>7, <2>1, CallMoves
<1>8. CASE fallsBack(c)
  <2>1. CountsKept
    BY <1>1, <1>2, <1>8, FallsBackCounts DEF CountsKept
  <2>2. PICK call \in Call : /\ calls' = [calls EXCEPT ![c] = call]
                             /\ call.state \in {"counting", "allowed", "limited", "error"} /\ call.by = calls[c].by
                             /\ call.window \in {calls[c].window, clock \div Window} /\ call.failed = TRUE
    BY <1>1, <1>2, <1>8, FallsBackCounts
  <2>3. QED
    BY <1>7, <2>1, <2>2
<1>9. CASE calls[c].by = "memory" /\ checkRateLimit(c, calls[c].failed)
  <2>0. calls[c].failed \in BOOLEAN
    BY <1>2 DEF Call
  <2>1. CountsKept
    BY <1>1, <1>2, <1>9, <2>0, ChecksCount DEF CountsKept
  <2>2. PICK call \in Call : /\ calls' = [calls EXCEPT ![c] = call]
                             /\ call.state \in {"counting", "allowed", "limited"} /\ call.by = calls[c].by
                             /\ call.window \in {calls[c].window, clock \div Window} /\ call.failed = calls[c].failed
    BY <1>1, <1>2, <1>9, <2>0, ChecksCount
  <2>3. ~IsShared
    BY <1>5, <1>9
  <2>4. QED
    BY <1>7, <2>1, <2>2, <2>3
<1>10. QED
  BY <1>8, <1>9 DEF connectionFailed, memoryRateLimit, rateLimitFails

\* A request that counts in Redis, and its command is answered.
LEMMA CounterKeeps ==
  ASSUME RateLimitsInv, NEW c \in Clients, rateLimitCounts(c) \/ rateLimitExpires(c) \/ rateLimitRefuses(c)
  PROVE  RateLimitsInv'
<1>1. RateLimitsTypeOK /\ BucketsCount /\ UNCHANGED <<clock, deployment, store, initializing, buckets, granted>>
  BY DEF RateLimitsInv, rateLimitCounts, rateLimitExpires, rateLimitRefuses
<1>2. calls[c] \in Call /\ calls[c] # NoRequest /\ calls[c].state \in {"counting", "expiring", "asking"}
  <2>1. calls[c].state \in {"counting", "expiring", "asking"}
    BY DEF rateLimitCounts, rateLimitExpires, rateLimitRefuses
  <2>2. QED
    BY <1>1, <2>1, RequestsAreCalls
<1>3. counters' \in [Keys -> [Windows -> Counter]] /\ EndsKept
  <2>1. CASE UNCHANGED counters
    BY <1>1, <2>1 DEF RateLimitsInv, CountersEnd, EndsKept, RateLimitsTypeOK
  <2>2. CASE increment(c)
    BY <1>2, <2>2, IncrementEnds
  <2>3. CASE counters' = [counters EXCEPT ![Key(c)][calls[c].window].until = clock + Window]
    BY <1>2, <2>3, ExpiryEnds
  <2>4. QED
    BY <2>1, <2>2, <2>3 DEF rateLimitCounts, rateLimitExpires, rateLimitRefuses
<1>4. /\ store' \in [Processes -> {"none", "memory", "redis"}] /\ initializing' \in [Processes -> BOOLEAN]
      /\ \A p \in Processes : initializing'[p] => store'[p] # "redis"
      /\ CountsKept
  BY <1>1, CountsUnchanged DEF RateLimitsTypeOK, RateLimitsInv
<1>5. IsShared => (\A p \in Processes : store'[p] # "memory") /\ calls[c].by # "memory"
  BY <1>1, <1>2 DEF RateLimitsInv, CountsAreShared, IsShared
<1>6. clock \div Window \in Nat /\ calls[c].window <= clock \div Window
  BY <1>1, <1>2, WindowNow DEF RateLimitsInv, CountersEnd
<1>7. ASSUME NEW call \in Call, calls' = [calls EXCEPT ![c] = call],
             call.state # "failing", call.by = calls[c].by, call.failed = calls[c].failed,
             call.window \in {calls[c].window, clock \div Window},
             call.state = "refused" /\ call.again # Never => call.again \div Window > call.window
      PROVE  RateLimitsInv'
  <2>1. call.window <= clock \div Window
    BY <1>6, <1>7
  <2>2. QED
    BY <1>1, <1>2, <1>3, <1>4, <1>5, <1>7, <2>1, CallMoves
<1>8. CASE calls' = [calls EXCEPT ![c] = Passed(c)]
  <2> DEFINE call == Passed(c)
  <2>1. call \in Call /\ call.state \in {"counting", "allowed"} /\ call.by = calls[c].by
        /\ call.window \in {calls[c].window, clock \div Window} /\ call.failed = calls[c].failed
    BY <1>1, <1>2, PassedIsACall
  <2>2. calls' = [calls EXCEPT ![c] = call]
    BY <1>8
  <2> HIDE DEF call
  <2>3. QED
    BY <1>7, <2>1, <2>2
<1>9. ASSUME NEW s \in {"expiring", "asking"}, calls' = [calls EXCEPT ![c].state = s]
      PROVE  RateLimitsInv'
  <2> DEFINE call == [calls[c] EXCEPT !.state = s]
  <2>1. call \in Call /\ call.state = s /\ call.by = calls[c].by /\ call.window = calls[c].window
        /\ call.failed = calls[c].failed
    BY <1>2 DEF Call, CallStates
  <2>2. calls' = [calls EXCEPT ![c] = call]
    BY <1>1, <1>9 DEF RateLimitsTypeOK
  <2> HIDE DEF call
  <2>3. QED
    BY <1>7, <2>1, <2>2
<1>10. CASE rateLimitRefuses(c)
  <2> DEFINE until == counters[Key(c)][calls[c].window].until
             again == IF until > clock THEN until ELSE Never
             call == [[calls[c] EXCEPT !.state = "refused"] EXCEPT !.again = again]
  <2>1. Key(c) \in Keys /\ calls[c].window \in Windows
    BY <1>1, <1>2, RequestsAreCalls DEF Call
  <2>2. until \in Nat /\ (until # Never => until \div Window > calls[c].window)
    BY <2>1 DEF RateLimitsInv, RateLimitsTypeOK, CountersEnd, Counter
  <2>3. again \in Nat /\ (again # Never => again \div Window > calls[c].window)
    BY <2>2 DEF Never
  <2>4. calls' = [calls EXCEPT ![c] = call]
    BY <1>1, <1>10 DEF RateLimitsTypeOK, rateLimitRefuses
  <2> HIDE DEF again, until
  <2>5. call \in Call /\ call.state = "refused" /\ call.by = calls[c].by /\ call.window = calls[c].window
        /\ call.failed = calls[c].failed /\ call.again = again
    BY <1>2, <2>3 DEF Call, CallStates
  <2> HIDE DEF call
  <2>6. QED
    BY <1>7, <2>3, <2>4, <2>5
<1>11. QED
  BY <1>8, <1>9, <1>10 DEF rateLimitCounts, rateLimitExpires

LEMMA TickKeeps == RateLimitsInv /\ tick => RateLimitsInv'
<1> SUFFICES ASSUME RateLimitsInv, tick PROVE RateLimitsInv'
  OBVIOUS
<1>1. clock \in Nat /\ clock' \in Nat /\ clock <= clock' /\ clock' \in 1 .. MaxTime
      /\ Window \in Nat \ {0}
  BY RateLimitsAssumption DEF RateLimitsInv, RateLimitsTypeOK, tick
<1>2. RateLimitsTypeOK'
  BY <1>1 DEF RateLimitsInv, RateLimitsTypeOK, tick
<1>3. ASSUME NEW p \in Processes, NEW k \in Keys
      PROVE  InWindows(granted'[p][k], Allowance[k], clock') /\ CountsLast(granted'[p][k], buckets'[p][k], Allowance[k])
  <2> DEFINE g == granted[p][k]
  <2>1. granted' = granted /\ buckets' = buckets /\ g \in Seq(Granted)
    BY DEF tick, RateLimitsInv, RateLimitsTypeOK
  <2>2. InWindows(g, Allowance[k], clock) /\ CountsLast(g, buckets[p][k], Allowance[k])
    BY DEF RateLimitsInv, BucketsCount
  <2>3. \A i \in DOMAIN g : g[i] \in Granted
    BY <2>1
  <2> HIDE DEF g
  <2>4. \A i \in DOMAIN g : g[i].at \in Nat
    BY <2>3 DEF Granted
  <2>5. InWindows(g, Allowance[k], clock')
    BY <1>1, <2>2, <2>4 DEF InWindows
  <2>6. QED
    BY <2>1, <2>2, <2>5 DEF g
<1>4. BucketsCount'
  BY <1>3 DEF BucketsCount
<1>5. CountersEnd'
  <2>1. clock \div Window \in Nat /\ clock' \div Window \in Nat /\ clock \div Window <= clock' \div Window
    BY <1>1, Divisions
  <2>2. ASSUME NEW c \in Clients, calls[c] # NoRequest PROVE calls[c].window <= clock' \div Window
    <3>1. calls[c].window <= clock \div Window
      BY <2>2 DEF RateLimitsInv, CountersEnd
    <3>2. calls[c].window \in Nat
      BY <2>2, RequestsAreCalls DEF RateLimitsInv, Call, Windows
    <3>3. QED
      BY <2>1, <3>1, <3>2
  <2>3. QED
    BY <2>2 DEF RateLimitsInv, CountersEnd, tick
<1>6. CountsAreShared' /\ RefusalsEnd' /\ \A p \in Processes : initializing'[p] => store'[p] # "redis"
  BY DEF RateLimitsInv, CountsAreShared, RefusalsEnd, tick
<1>7. QED
  BY <1>2, <1>4, <1>5, <1>6 DEF RateLimitsInv

LEMMA RateLimitsStep == RateLimitsInv /\ [RateLimitsNext]_rlVars => RateLimitsInv'
<1> SUFFICES ASSUME RateLimitsInv, [RateLimitsNext]_rlVars PROVE RateLimitsInv'
  OBVIOUS
<1>1. CASE \E c \in Clients, p \in Processes, r \in Requests : getCoordinationStore(c, p, r)
  BY <1>1, ArrivalKeeps
<1>2. CASE \E p \in Processes : getCoordinationStoreSync(p) \/ created(p) \/ createFails(p)
  BY <1>2, ConnectionKeeps
<1>3. CASE \E c \in Clients : connectionFailed(c) \/ memoryRateLimit(c) \/ rateLimitFails(c)
  BY <1>3, BucketKeeps
<1>4. CASE \E c \in Clients : rateLimitCounts(c) \/ rateLimitExpires(c) \/ rateLimitRefuses(c)
  BY <1>4, CounterKeeps
<1>5. CASE tick
  BY <1>5, TickKeeps
<1>6. CASE UNCHANGED rlVars
  BY <1>6 DEF rlVars, RateLimitsInv, RateLimitsTypeOK, BucketsCount, InWindows, CountsLast, CountsAreShared,
              CountersEnd, RefusalsEnd
<1>7. QED
  BY <1>1, <1>2, <1>3, <1>4, <1>5, <1>6 DEF RateLimitsNext

LEMMA RateLimitsHoldNow == RateLimitsInv => RateLimitsHold
<1> SUFFICES ASSUME RateLimitsInv PROVE RateLimitsHold
  OBVIOUS
<1>1. BucketsAreBounded
  <2> SUFFICES ASSUME NEW p \in Processes, NEW k \in Keys
               PROVE  \A i, j \in DOMAIN granted[p][k] :
                         j >= i + 2 * Allowance[k] - 1 => granted[p][k][j].at >= granted[p][k][i].at + Window
    BY DEF BucketsAreBounded
  <2>1. granted[p][k] \in Seq(Granted) /\ InWindows(granted[p][k], Allowance[k], clock)
    BY DEF RateLimitsInv, RateLimitsTypeOK, BucketsCount
  <2>2. Allowance[k] \in Nat \ {0}
    BY RateLimitsAssumption
  <2>3. QED
    BY <2>1, <2>2, WindowsBound
<1>2. LimitsAreShared
  <2>1. ASSUME IsShared, failures = 0, NEW p \in Processes, NEW k \in Keys
        PROVE  granted[p][k] = <<>>
    <3> DEFINE failing == {c \in Clients : calls[c].state # "none" /\ calls[c].failed}
    <3>1. IsFiniteSet(failing)
      BY RateLimitsAssumption, FS_Subset
    <3>2. failing = {}
      BY <2>1, <3>1, FS_EmptySet DEF failures
    <3>3. ASSUME NEW c \in Clients, calls[c] # NoRequest PROVE ~calls[c].failed
      <4>1. calls[c].state # "none"
        BY <3>3, RequestsAreCalls DEF RateLimitsInv, Call, CallStates
      <4>2. QED
        BY <3>2, <4>1
    <3>4. QED
      BY <2>1, <3>3 DEF RateLimitsInv, CountsAreShared, IsShared
  <2>2. QED
    BY <2>1 DEF LimitsAreShared, RateLimitsInv, IsShared
<1>3. QED
  BY <1>1, <1>2 DEF RateLimitsInv, RateLimitsHold

\* A process grants less than twice an allowance in the time of a window,
\* processes that share their limits count apart only after a failure, and a
\* refusal names a time that comes after its window: for any processes, keys,
\* allowances, window and requests, whatever fails (lib/auth/rate-limit,
\* lib/coordination).
THEOREM RateLimitsAreSound == RateLimitsSpec => []RateLimitsHold
BY RateLimitsHoldNow, RateLimitsStart, RateLimitsStep, PTL DEF RateLimitsSpec

-----------------------------------------------------------------------------
(* The reports.                                                            *)

Counts == [passed : Nat, failed : Nat, warnings : Nat]
RunOutcomes == {None, "PASSED", "FAILED", "WARNING", "SKIPPED", "TIMEOUT", "INFRASTRUCTURE_ERROR", "CANCELLED"}
Extension == [status : {"absent", "there", "gone"}, owner : Owners \union {None}, score : Scores]
Snapshot == [status : {"absent", "there", "gone"}, extension : Extensions \union {None},
             at : {0} \union {Cardinality(S) + 1 : S \in SUBSET Snapshots}]
ScoredRun == [status : {"absent", "active", "gone"} \union Terminal, owner : Owners \union {None},
              outcome : RunOutcomes, score : Scores, counts : Counts]
Report == [status : {"absent", "there", "gone"}, owner : Owners \union {None}, organization : BOOLEAN,
           extension : Extensions \union {None}, snapshot : Snapshots \union {None}, run : Tests \union {None},
           health : Int, runtime : Int, overall : Int, tests : {"none", "executed", "not-executed"}, counts : Counts]
Share == [status : {"unused", "live", "over"}, report : Reports \union {None}, expires : BOOLEAN]
Publication == [report : Reports \union {None}, by : Owners \union {None}]

ReportsTypeOK ==
    /\ accounts \subseteq Owners
    /\ extensions \in [Extensions -> Extension]
    /\ snapshots \in [Snapshots -> Snapshot]
    /\ testRuns \in [Tests -> ScoredRun]
    /\ reports \in [Reports -> Report]
    /\ shares \in [Shares -> Share]
    /\ publications \in [Slugs -> Publication]
    /\ sharers \in [Sharers -> Reports \union {None, "answered"}]

\* A run scores 0 until its results are saved, and one that is not there is nobody's.
RunsAreScored ==
    \A t \in Tests :
        /\ testRuns[t].outcome = None /\ testRuns[t].counts = NoCounts => testRuns[t].score = 0
        /\ testRuns[t].status \in {"absent", "gone"} => testRuns[t].owner = None

\* What was published was there.
PublishedWereThere ==
    \A g \in Slugs : publications[g] # NoPublication =>
        publications[g].report \in Reports /\ reports[publications[g].report].status # "absent"

ReportsInv ==
    /\ ReportsTypeOK /\ RunsAreScored /\ PublishedWereThere
    /\ ScoresAreTheirs /\ ReferencesExist /\ LinksAreSingle /\ PublicationsAreOrganizations

LEMMA ReportsConstants ==
    /\ \A x \in Owners \union Extensions \union Snapshots \union Tests \union Reports : x # None
    /\ Scores \subseteq Int /\ 0 \in Scores /\ -1 \notin Scores /\ Null = -1
    /\ NoCounts \in Counts
BY ReportsAssumption DEF Null, NoCounts, Counts

\* Two reports compared the other way round have changed the other way round.
LEMMA DirectionsMirror == ComparisonsMirror
<1>1. SUFFICES ASSUME NEW a \in Scores \union {Null}, NEW b \in Scores \union {Null}, NEW invert \in BOOLEAN
               PROVE  Direction(b, a, invert) = Opposite(Direction(a, b, invert))
  BY DEF ComparisonsMirror
<1>2. OrZero(a) \in Int /\ OrZero(b) \in Int
  BY ReportsConstants DEF OrZero
<1>3. QED
  BY <1>2 DEF Direction, Opposite

LEMMA TypesStart == ReportsInit => ReportsTypeOK
<1> SUFFICES ASSUME ReportsInit PROVE ReportsTypeOK
  OBVIOUS
<1> USE DEF ReportsInit
<1>1. accounts \subseteq Owners
  OBVIOUS
<1>2. extensions \in [Extensions -> Extension] /\ snapshots \in [Snapshots -> Snapshot]
  BY ReportsConstants DEF NoExtension, NoSnapshot, Extension, Snapshot
<1>3. testRuns \in [Tests -> ScoredRun]
  <2>1. NoRun \in ScoredRun
    BY ReportsConstants DEF NoRun, ScoredRun, RunOutcomes
  <2>2. LegacyRuns \subseteq ScoredRun
    BY DEF LegacyRuns, ScoredRun, RunOutcomes, Counts
  <2>3. QED
    BY <2>1, <2>2
<1>4. reports \in [Reports -> Report]
  BY ReportsConstants DEF NoReport, Report
<1>5. shares \in [Shares -> Share] /\ publications \in [Slugs -> Publication]
  BY DEF NoShare, NoPublication, Share, Publication
<1>6. sharers \in [Sharers -> Reports \union {None, "answered"}]
  OBVIOUS
<1>7. QED
  BY <1>1, <1>2, <1>3, <1>4, <1>5, <1>6 DEF ReportsTypeOK

LEMMA ReportsStart == ReportsInit => ReportsInv
<1> SUFFICES ASSUME ReportsInit PROVE ReportsInv
  OBVIOUS
<1>1. ReportsTypeOK
  BY TypesStart
<1>2. There(reports) = {}
  BY DEF ReportsInit, There, NoReport
<1>3. RunsAreScored
  <2>1. ASSUME NEW t \in Tests, testRuns[t] = NoRun \/ testRuns[t] \in LegacyRuns
        PROVE  /\ testRuns[t].outcome = None /\ testRuns[t].counts = NoCounts => testRuns[t].score = 0
               /\ testRuns[t].status \in {"absent", "gone"} => testRuns[t].owner = None
    BY <2>1 DEF NoRun, LegacyRuns, NoCounts, Terminal
  <2>2. QED
    BY <2>1 DEF ReportsInit, RunsAreScored
<1>4. PublishedWereThere /\ PublicationsAreOrganizations
  BY DEF ReportsInit, PublishedWereThere, PublicationsAreOrganizations
<1>5. ScoresAreTheirs /\ ReferencesExist
  BY <1>2 DEF ScoresAreTheirs, ReferencesExist
<1>6. LinksAreSingle
  BY DEF ReportsInit, LinksAreSingle, NoShare
<1>7. QED
  BY <1>1, <1>3, <1>4, <1>5, <1>6 DEF ReportsInv

LEMMA ThereRows ==
    ASSUME ReportsTypeOK
    PROVE  /\ There(reports) = {r \in Reports : reports[r].status = "there"}
           /\ There(extensions) = {x \in Extensions : extensions[x].status = "there"}
           /\ There(snapshots) = {n \in Snapshots : snapshots[n].status = "there"}
BY DEF ReportsTypeOK, There, Report, Extension, Snapshot

\* A step of a run.
LEMMA RunSteps ==
    ASSUME ReportsInv, NEW t \in Tests, NEW row \in ScoredRun, rpRunStep(t, row),
           row.outcome = None /\ row.counts = NoCounts => row.score = 0,
           row.status \notin {"absent", "gone"},
           testRuns[t].status \notin {"absent", "gone"} =>
                row.owner = testRuns[t].owner /\ (row.score = testRuns[t].score \/ AwaitsResults(t))
    PROVE  ReportsInv'
<1> USE DEF ReportsInv
<1>1. /\ UNCHANGED <<accounts, extensions, snapshots, reports, shares, publications, sharers>>
      /\ testRuns' \in [Tests -> ScoredRun] /\ testRuns'[t] = row /\ \A u \in Tests \ {t} : testRuns'[u] = testRuns[u]
  BY DEF rpRunStep, ReportsTypeOK
<1>2. ReportsTypeOK'
  BY <1>1 DEF ReportsTypeOK
<1>3. RunsAreScored'
  BY <1>1 DEF RunsAreScored
<1>4. There(reports)' = There(reports) /\ There(extensions)' = There(extensions) /\ There(snapshots)' = There(snapshots)
  BY <1>1 DEF There
<1>5. PublishedWereThere' /\ LinksAreSingle' /\ PublicationsAreOrganizations'
  BY <1>1, <1>4 DEF PublishedWereThere, LinksAreSingle, PublicationsAreOrganizations, getLiveShareByToken,
                    getActiveShareForReport, getPublicReportBySlug
<1>6. ReferencesExist'
  BY <1>1, <1>4 DEF ReferencesExist, getOwnedExtension, getOwnedSnapshot
<1>7. ASSUME NEW r \in There(reports), reports[r].run # None
      PROVE  /\ testRuns'[reports[r].run].owner = reports[r].owner
             /\ reports[r].runtime \in {Null, 0, testRuns'[reports[r].run].score}
  <2>1. reports[r].run \in Tests /\ reports[r].owner \in Owners
    BY <1>7, ThereRows DEF ReportsTypeOK, Report, ReferencesExist
  <2>2. /\ testRuns[reports[r].run].owner = reports[r].owner
        /\ reports[r].runtime \in {Null, 0, testRuns[reports[r].run].score}
    BY <1>7 DEF ScoresAreTheirs
  <2>3. testRuns[reports[r].run].status \notin {"absent", "gone"}
    BY <2>1, <2>2, ReportsConstants DEF RunsAreScored
  <2>4. CASE reports[r].run # t
    BY <1>1, <2>1, <2>2, <2>4
  <2>5. CASE reports[r].run = t /\ row.score = testRuns[t].score
    BY <1>1, <2>2, <2>3, <2>5
  <2>6. CASE reports[r].run = t /\ AwaitsResults(t)
    BY <1>1, <2>2, <2>3, <2>6 DEF RunsAreScored, AwaitsResults
  <2>7. QED
    BY <2>3, <2>4, <2>5, <2>6
<1>8. ScoresAreTheirs'
  <2> SUFFICES ASSUME NEW r \in There(reports)
               PROVE  LET rep == reports[r] IN
                      /\ rep.run # None => /\ testRuns'[rep.run].owner = rep.owner
                                           /\ rep.runtime \in {Null, 0, testRuns'[rep.run].score}
                      /\ rep.health # Null /\ rep.runtime = Null => rep.overall = rep.health
                      /\ rep.tests = "not-executed" => rep.runtime = Null
    BY <1>1, <1>4 DEF ScoresAreTheirs
  <2>1. QED
    BY <1>7 DEF ScoresAreTheirs
<1>9. QED
  BY <1>2, <1>3, <1>5, <1>6, <1>8

LEMMA RunsKeepReports ==
    ASSUME ReportsInv, NEW t \in Tests,
           \/ \E u \in Owners : createTestRun(u, t)
           \/ \E state \in Terminal : notifyStatus(t, state)
           \/ \E state \in Terminal : \E ended \in outcomesOf(state) :
                finalizesWithoutResults(t, state, ended) \/ \E score \in Scores : savesFinal(t, ended, score)
           \/ requeuesForRetry(t)
    PROVE  ReportsInv'
<1>1. testRuns[t] \in ScoredRun
  BY DEF ReportsInv, ReportsTypeOK
<1>2. testRuns[t].outcome = None /\ testRuns[t].counts = NoCounts => testRuns[t].score = 0
  BY DEF ReportsInv, RunsAreScored
<1>3. ASSUME NEW u \in Owners, createTestRun(u, t) PROVE ReportsInv'
  <2> DEFINE row == [NoRun EXCEPT !.status = "active", !.owner = u]
  <2>1. row \in ScoredRun /\ row.score = 0 /\ row.status = "active"
    BY ReportsConstants DEF NoRun, ScoredRun, RunOutcomes
  <2>2. rpRunStep(t, row) /\ testRuns[t].status = "absent"
    BY <1>3 DEF createTestRun
  <2> HIDE DEF row
  <2>3. QED
    BY <2>1, <2>2, RunSteps
<1>4. ASSUME NEW state \in Terminal, notifyStatus(t, state) PROVE ReportsInv'
  <2> DEFINE row == [testRuns[t] EXCEPT !.status = state]
  <2>1. /\ row \in ScoredRun /\ row.score = testRuns[t].score /\ row.owner = testRuns[t].owner
        /\ row.outcome = testRuns[t].outcome /\ row.counts = testRuns[t].counts /\ row.status = state
    BY <1>1 DEF ScoredRun
  <2>2. rpRunStep(t, row) /\ state \notin {"absent", "gone"}
    BY <1>4 DEF notifyStatus, Terminal
  <2> HIDE DEF row
  <2>3. QED
    BY <1>2, <2>1, <2>2, RunSteps
<1>5. ASSUME NEW state \in Terminal, NEW ended \in outcomesOf(state), finalizesWithoutResults(t, state, ended)
      PROVE  ReportsInv'
  <2> DEFINE row == [testRuns[t] EXCEPT !.status = state, !.outcome = ended]
  <2>1. ended \in RunOutcomes \ {None} /\ state \in {"failed", "destroyed"}
    BY <1>5 DEF finalizesWithoutResults, RunOutcomes, None
  <2>2. /\ row \in ScoredRun /\ row.score = testRuns[t].score /\ row.owner = testRuns[t].owner
        /\ row.outcome = ended /\ row.status = state
    BY <1>1, <2>1 DEF ScoredRun
  <2>3. rpRunStep(t, row)
    BY <1>5 DEF finalizesWithoutResults
  <2> HIDE DEF row
  <2>4. QED
    BY <2>1, <2>2, <2>3, RunSteps
<1>6. ASSUME NEW state \in Terminal, NEW ended \in outcomesOf(state), NEW score \in Scores, savesFinal(t, ended, score)
      PROVE  ReportsInv'
  <2> DEFINE counts == [passed |-> IF ended = "PASSED" THEN 1 ELSE 0, failed |-> IF ended = "FAILED" THEN 1 ELSE 0,
                        warnings |-> IF ended = "WARNING" THEN 1 ELSE 0]
             row == [testRuns[t] EXCEPT !.outcome = ended, !.score = score, !.counts = counts]
  <2>1. ended \in RunOutcomes \ {None}
    BY <1>6 DEF outcomesOf, RunOutcomes, None
  <2>2. counts \in Counts
    BY DEF Counts
  <2> HIDE DEF counts
  <2>3. /\ row \in ScoredRun /\ row.owner = testRuns[t].owner /\ row.outcome = ended /\ row.status = testRuns[t].status
    BY <1>1, <2>1, <2>2 DEF ScoredRun
  <2>4. rpRunStep(t, row) /\ AwaitsResults(t) /\ testRuns[t].status \notin {"absent", "gone"}
    BY <1>6 DEF savesFinal, AwaitsResults, Terminal, counts
  <2> HIDE DEF row
  <2>5. QED
    BY <2>1, <2>3, <2>4, RunSteps
<1>7. ASSUME requeuesForRetry(t) PROVE ReportsInv'
  <2> DEFINE row == [testRuns[t] EXCEPT !.status = "active"]
  <2>1. /\ row \in ScoredRun /\ row.score = testRuns[t].score /\ row.owner = testRuns[t].owner
        /\ row.outcome = testRuns[t].outcome /\ row.counts = testRuns[t].counts /\ row.status = "active"
    BY <1>1 DEF ScoredRun
  <2>2. rpRunStep(t, row)
    BY <1>7 DEF requeuesForRetry
  <2> HIDE DEF row
  <2>3. QED
    BY <1>2, <2>1, <2>2, RunSteps
<1>8. QED
  BY <1>3, <1>4, <1>5, <1>6, <1>7

\* A new report.
LEMMA NewReports ==
    ASSUME ReportsInv, NEW u \in Owners, NEW r \in Reports, NEW row \in Report, rpNewReport(u, r, row),
           row.status = "there", row.owner = u,
           row.run # None => testRuns[row.run].owner = u /\ row.runtime \in {Null, 0, testRuns[row.run].score},
           row.health # Null /\ row.runtime = Null => row.overall = row.health,
           row.tests = "not-executed" => row.runtime = Null,
           row.extension # None => getOwnedExtension(u, row.extension),
           row.snapshot # None => getOwnedSnapshot(u, row.snapshot)
    PROVE  ReportsInv'
<1> USE DEF ReportsInv
<1>1. /\ UNCHANGED <<accounts, extensions, snapshots, testRuns, shares, publications, sharers>>
      /\ u \in accounts /\ reports[r].status = "absent"
      /\ reports' \in [Reports -> Report] /\ reports'[r] = row /\ \A q \in Reports \ {r} : reports'[q] = reports[q]
  BY DEF rpNewReport, ReportsTypeOK
<1>2. ReportsTypeOK'
  BY <1>1 DEF ReportsTypeOK
<1>3. /\ There(reports)' = There(reports) \union {r} /\ r \notin There(reports) /\ There(reports) \subseteq Reports
      /\ There(extensions)' = There(extensions) /\ There(snapshots)' = There(snapshots)
  <2>1. There(reports)' = {q \in Reports : reports'[q].status = "there"}
    BY <1>2 DEF There, ReportsTypeOK, Report
  <2>2. QED
    BY <1>1, <2>1, ThereRows DEF There
<1>4. RunsAreScored'
  BY <1>1 DEF RunsAreScored
<1>5. PublishedWereThere'
  BY <1>1 DEF PublishedWereThere
<1>6. PublicationsAreOrganizations'
  BY <1>1, <1>3 DEF PublicationsAreOrganizations, PublishedWereThere, getPublicReportBySlug
<1>7. LinksAreSingle'
  BY <1>1, <1>3 DEF LinksAreSingle, getLiveShareByToken, getActiveShareForReport
<1>8. ASSUME NEW q \in There(reports)'
      PROVE  LET rep == reports'[q] IN
                /\ rep.run # None => /\ testRuns[rep.run].owner = rep.owner
                                     /\ rep.runtime \in {Null, 0, testRuns[rep.run].score}
                /\ rep.health # Null /\ rep.runtime = Null => rep.overall = rep.health
                /\ rep.tests = "not-executed" => rep.runtime = Null
                /\ rep.owner \in accounts
                /\ rep.extension # None => getOwnedExtension(rep.owner, rep.extension)
                /\ rep.snapshot # None => getOwnedSnapshot(rep.owner, rep.snapshot)
  BY <1>1, <1>3 DEF ScoresAreTheirs, ReferencesExist
<1>9. ScoresAreTheirs'
  BY <1>1, <1>8 DEF ScoresAreTheirs
<1>10. ReferencesExist'
  BY <1>1, <1>3, <1>8 DEF ReferencesExist, getOwnedExtension, getOwnedSnapshot
<1>11. QED
  BY <1>2, <1>4, <1>5, <1>6, <1>7, <1>9, <1>10

LEMMA CreatedReports ==
    ASSUME ReportsInv, NEW u \in Owners, NEW r \in Reports,
           \/ \E x \in Extensions, named \in Snapshots \union {None}, t \in Tests \union {None} : createReport(u, r, x, named, t)
           \/ \E x \in Extensions \union {None}, score \in Scores \union {Null}, org \in BOOLEAN :
                 createCrossReport(u, r, x, score, org)
    PROVE  ReportsInv'
<1>1. ASSUME NEW x \in Extensions, NEW named \in Snapshots \union {None}, NEW t \in Tests \union {None},
             createReport(u, r, x, named, t)
      PROVE  ReportsInv'
  <2> DEFINE part == RuntimePart(t)
             health == extensions[x].score
             Row(n) == [status |-> "there", owner |-> u, organization |-> FALSE, extension |-> x, snapshot |-> n,
                        run |-> t, health |-> health, runtime |-> part.runtime, tests |-> part.tests,
                        overall |-> IF part.runtime = Null THEN health ELSE OverallScore(health, part.runtime),
                        counts |-> part.counts]
  <2>1. PICK n \in IF named = None THEN getLatestSnapshot(x) ELSE {named} :
            (named # None => getOwnedSnapshot(u, n)) /\ rpNewReport(u, r, Row(n))
    BY <1>1 DEF createReport
  <2>2. getOwnedExtension(u, x) /\ health \in Scores /\ health \in Int
    BY <1>1, ThereRows, ReportsConstants DEF createReport, getOwnedExtension, ReportsInv, ReportsTypeOK, Extension
  <2>3. n \in Snapshots /\ getOwnedSnapshot(u, n)
    BY <2>1, <2>2, ThereRows DEF getLatestSnapshot, getOwnedSnapshot, getOwnedExtension, ReportsInv, There
  <2>4. /\ part.runtime \in Int /\ part.counts \in Counts /\ part.tests \in {"none", "executed", "not-executed"}
        /\ part.tests = "not-executed" => part.runtime = Null
        /\ t # None => part.runtime \in {Null, testRuns[t].score}
    <3>1. CASE t = None
      BY <3>1, ReportsConstants DEF RuntimePart
    <3>2. CASE t # None
      <4>1. testRuns[t].score \in Int /\ testRuns[t].counts \in Counts
        BY <3>2, ReportsConstants DEF ReportsInv, ReportsTypeOK, ScoredRun
      <4>2. QED
        BY <3>2, <4>1, ReportsConstants DEF RuntimePart
    <3>3. QED
      BY <3>1, <3>2
  <2>5. t # None => testRuns[t].owner = u
    BY <1>1 DEF createReport
  <2> HIDE DEF part, health
  <2>6. (health + part.runtime + 1) \div 2 \in Int
    BY <2>2, <2>4
  <2>7. /\ Row(n) \in Report /\ Row(n).status = "there" /\ Row(n).owner = u /\ Row(n).run = t
        /\ Row(n).runtime = part.runtime /\ Row(n).tests = part.tests /\ Row(n).extension = x /\ Row(n).snapshot = n
        /\ Row(n).runtime = Null => Row(n).overall = Row(n).health
    BY <2>2, <2>3, <2>4, <2>6 DEF Report, OverallScore
  <2> HIDE DEF Row
  <2>8. QED
    BY <2>1, <2>2, <2>3, <2>4, <2>5, <2>7, NewReports
<1>2. ASSUME NEW x \in Extensions \union {None}, NEW score \in Scores \union {Null}, NEW org \in BOOLEAN,
             createCrossReport(u, r, x, score, org)
      PROVE  ReportsInv'
  <2> DEFINE row == [NoReport EXCEPT !.status = "there", !.owner = u, !.organization = org, !.extension = x,
                                     !.runtime = score, !.overall = score]
  <2>1. /\ row \in Report /\ row.status = "there" /\ row.owner = u /\ row.run = None /\ row.snapshot = None
        /\ row.health = Null /\ row.tests = "none" /\ row.extension = x
    <3>1. score \in Int /\ Null \in Int
      BY ReportsConstants
    <3>2. NoReport \in Report
      BY <3>1, ReportsConstants DEF NoReport, Report
    <3>3. row \in Report /\ row.status = "there" /\ row.owner = u /\ row.extension = x
      BY <3>1, <3>2 DEF Report
    <3>4. row.run = NoReport.run /\ row.snapshot = NoReport.snapshot /\ row.health = NoReport.health /\ row.tests = NoReport.tests
      BY <3>2 DEF Report
    <3>5. QED
      BY <3>3, <3>4 DEF NoReport
  <2>2. rpNewReport(u, r, row) /\ (x # None => getOwnedExtension(u, x))
    BY <1>2 DEF createCrossReport
  <2> HIDE DEF row
  <2>3. QED
    BY <2>1, <2>2, NewReports
<1>3. QED
  BY <1>1, <1>2

\* Links and publications.
LEMMA LinksKeepReports ==
    ASSUME ReportsInv,
           \/ \E c \in Sharers : \/ \E r \in Reports : shareLooksUp(c, r)
                                 \/ \E s \in Shares, expires \in BOOLEAN : createShare(c, s, expires)
           \/ \E r \in Reports : revokeShare(r)
           \/ \E s \in Shares : shareExpires(s)
    PROVE  ReportsInv'
<1> USE DEF ReportsInv
<1>1. UNCHANGED <<accounts, extensions, snapshots, testRuns, reports, publications>>
  BY DEF shareLooksUp, createShare, revokeShare, shareExpires
<1>2. There(reports)' = There(reports) /\ There(extensions)' = There(extensions) /\ There(snapshots)' = There(snapshots)
  BY <1>1 DEF There
<1>3. /\ RunsAreScored' /\ PublishedWereThere' /\ PublicationsAreOrganizations' /\ ScoresAreTheirs'
  BY <1>1, <1>2 DEF RunsAreScored, PublishedWereThere, PublicationsAreOrganizations, getPublicReportBySlug, ScoresAreTheirs
<1>4. ReferencesExist'
  BY <1>1, <1>2 DEF ReferencesExist, getOwnedExtension, getOwnedSnapshot
<1>5. NoShare \in Share /\ OverShare \in Share /\ OverShare.status = "over"
  BY DEF NoShare, OverShare, Share
<1>6. \A some : /\ revoked(some) \in [Shares -> Share]
                /\ \A s \in Shares : revoked(some)[s].status = "live" => s \notin some /\ revoked(some)[s] = shares[s]
  BY <1>5 DEF revoked, ReportsTypeOK
<1>7. ASSUME shares' \in [Shares -> Share],
             \A s \in Shares : shares'[s].status = "live" => shares'[s] = shares[s]
      PROVE  LinksAreSingle'
  BY <1>2, <1>7 DEF LinksAreSingle, getLiveShareByToken, getActiveShareForReport
<1>8. ASSUME NEW c \in Sharers, NEW r \in Reports, shareLooksUp(c, r) PROVE ReportsTypeOK' /\ LinksAreSingle'
  BY <1>1, <1>7, <1>8 DEF shareLooksUp, ReportsTypeOK
<1>9. ASSUME NEW c \in Sharers, NEW s \in Shares, NEW expires \in BOOLEAN, createShare(c, s, expires)
      PROVE  ReportsTypeOK' /\ LinksAreSingle'
  <2> DEFINE r == sharers[c]
             old == revoked(getActiveShareForReport(r))
             new == [status |-> "live", report |-> r, expires |-> expires]
  <2>1. sharers' \in [Sharers -> Reports \union {None, "answered"}] /\ r \in Reports /\ new \in Share
    BY <1>9 DEF createShare, ReportsTypeOK, Share
  <2>2. CASE UNCHANGED shares
    BY <1>1, <1>7, <2>1, <2>2 DEF ReportsTypeOK
  <2>3. CASE r \in There(reports) /\ shares' = [old EXCEPT ![s] = new]
    <3>1. shares' \in [Shares -> Share] /\ shares'[s] = new /\ \A q \in Shares \ {s} : shares'[q] = old[q]
      BY <1>6, <2>1, <2>3
    <3>2. \A q \in Shares : shares'[q].status = "live" /\ q # s =>
              shares'[q] = shares[q] /\ shares[q].status = "live" /\ shares[q].report # r
      <4>1. ASSUME NEW q \in Shares, shares'[q].status = "live", q # s
            PROVE  q \notin getActiveShareForReport(r) /\ shares'[q] = shares[q]
        BY <1>6, <3>1, <4>1
      <4>2. QED
        BY <4>1 DEF getActiveShareForReport
    <3>3. LinksAreSingle'
      <4> SUFFICES ASSUME NEW q \in Shares, shares'[q].status = "live"
                   PROVE  shares'[q].report \in There(reports) /\ {p \in Shares : shares'[p].status = "live" /\ shares'[p].report = shares'[q].report} = {q}
        BY <1>2 DEF LinksAreSingle, getLiveShareByToken, getActiveShareForReport
      <4>1. CASE q = s
        BY <2>3, <3>1, <3>2, <4>1
      <4>2. CASE q # s
        BY <3>1, <3>2, <4>2 DEF LinksAreSingle, getLiveShareByToken, getActiveShareForReport
      <4>3. QED
        BY <4>1, <4>2
    <3>4. QED
      BY <1>1, <2>1, <3>1, <3>3 DEF ReportsTypeOK
  <2>4. QED
    BY <1>9, <2>2, <2>3 DEF createShare
<1>10. ASSUME NEW r \in Reports, revokeShare(r) PROVE ReportsTypeOK' /\ LinksAreSingle'
  BY <1>1, <1>6, <1>7, <1>10 DEF revokeShare, ReportsTypeOK
<1>11. ASSUME NEW s \in Shares, shareExpires(s) PROVE ReportsTypeOK' /\ LinksAreSingle'
  BY <1>1, <1>5, <1>7, <1>11 DEF shareExpires, ReportsTypeOK
<1>12. QED
  BY <1>3, <1>4, <1>8, <1>9, <1>10, <1>11

LEMMA PublicationsKeepReports ==
    ASSUME ReportsInv,
           \/ \E u \in Owners, g \in Slugs, r \in Reports : publishReport(u, g, r)
           \/ \E g \in Slugs : unpublishReport(g)
    PROVE  ReportsInv'
<1> USE DEF ReportsInv
<1>1. UNCHANGED <<accounts, extensions, snapshots, testRuns, reports, shares, sharers>>
  BY DEF publishReport, unpublishReport
<1>2. There(reports)' = There(reports) /\ There(extensions)' = There(extensions) /\ There(snapshots)' = There(snapshots)
  BY <1>1 DEF There
<1>3. /\ RunsAreScored' /\ ScoresAreTheirs' /\ LinksAreSingle'
  BY <1>1, <1>2 DEF RunsAreScored, ScoresAreTheirs, LinksAreSingle, getLiveShareByToken, getActiveShareForReport
<1>4. ReferencesExist'
  BY <1>1, <1>2 DEF ReferencesExist, getOwnedExtension, getOwnedSnapshot
<1>5. ASSUME NEW u \in Owners, NEW g \in Slugs, NEW r \in Reports, publishReport(u, g, r)
      PROVE  ReportsTypeOK' /\ PublishedWereThere' /\ PublicationsAreOrganizations'
  <2>1. /\ publications' \in [Slugs -> Publication] /\ publications'[g] = [report |-> r, by |-> u]
        /\ \A h \in Slugs \ {g} : publications'[h] = publications[h]
        /\ u \in accounts /\ reports[r].organization /\ reports[r].status = "there"
    BY <1>5, ThereRows DEF publishReport, ReportsTypeOK, Publication
  <2>2. ReportsTypeOK'
    BY <1>1, <2>1 DEF ReportsTypeOK
  <2>3. PublishedWereThere'
    BY <1>1, <2>1 DEF PublishedWereThere
  <2>4. PublicationsAreOrganizations'
    BY <1>1, <1>2, <2>1 DEF PublicationsAreOrganizations, getPublicReportBySlug
  <2>5. QED
    BY <2>2, <2>3, <2>4
<1>6. ASSUME NEW g \in Slugs, unpublishReport(g)
      PROVE  ReportsTypeOK' /\ PublishedWereThere' /\ PublicationsAreOrganizations'
  <2>1. /\ publications' \in [Slugs -> Publication] /\ publications'[g] = NoPublication
        /\ \A h \in Slugs \ {g} : publications'[h] = publications[h]
    BY <1>6 DEF unpublishReport, ReportsTypeOK, Publication, NoPublication
  <2>2. QED
    BY <1>1, <1>2, <2>1 DEF ReportsTypeOK, PublishedWereThere, PublicationsAreOrganizations, getPublicReportBySlug
<1>7. QED
  BY <1>3, <1>4, <1>5, <1>6

\* Extensions come, are analyzed again and go with their snapshots.
LEMMA AnalysesKeepReports ==
    ASSUME ReportsInv, NEW u \in Owners, NEW x \in Extensions, NEW n \in Snapshots, NEW score \in Scores,
           saveAnalysis(u, x, n, score)
    PROVE  ReportsInv'
<1> USE DEF ReportsInv
<1> DEFINE made == Cardinality({m \in Snapshots : snapshots[m].at > 0}) + 1
           row == [status |-> "there", owner |-> u, score |-> score]
           new == [status |-> "there", extension |-> x, at |-> made]
<1>1. /\ UNCHANGED <<accounts, testRuns, reports, shares, publications, sharers>>
      /\ extensions[x].status = "absent" \/ getOwnedExtension(u, x)
      /\ snapshots[n].status = "absent"
      /\ extensions' = [extensions EXCEPT ![x] = row] /\ snapshots' = [snapshots EXCEPT ![n] = new]
  BY DEF saveAnalysis, createSnapshot
<1>2. made \in {Cardinality(S) + 1 : S \in SUBSET Snapshots}
  OBVIOUS
<1>3. row \in Extension /\ new \in Snapshot
  BY <1>2 DEF Extension, Snapshot
<1> HIDE DEF made
<1>4. /\ extensions' \in [Extensions -> Extension] /\ extensions'[x] = row
      /\ \A y \in Extensions \ {x} : extensions'[y] = extensions[y]
      /\ snapshots' \in [Snapshots -> Snapshot] /\ \A m \in Snapshots \ {n} : snapshots'[m] = snapshots[m]
  BY <1>1, <1>3 DEF ReportsTypeOK
<1>5. ReportsTypeOK'
  BY <1>1, <1>4 DEF ReportsTypeOK
<1>6. There(reports)' = There(reports) /\ There(reports) \subseteq Reports
  BY <1>1, ThereRows DEF There
<1>7. /\ RunsAreScored' /\ PublishedWereThere' /\ ScoresAreTheirs' /\ LinksAreSingle' /\ PublicationsAreOrganizations'
  BY <1>1, <1>6 DEF RunsAreScored, PublishedWereThere, ScoresAreTheirs, LinksAreSingle, getLiveShareByToken,
                    getActiveShareForReport, PublicationsAreOrganizations, getPublicReportBySlug
<1>8. ASSUME NEW v, NEW y, getOwnedExtension(v, y) PROVE getOwnedExtension(v, y)'
  BY <1>1, <1>4, <1>8 DEF getOwnedExtension, There, ReportsTypeOK
<1>9. ASSUME NEW v, NEW m, getOwnedSnapshot(v, m) PROVE getOwnedSnapshot(v, m)'
  <2>1. m \in Snapshots \ {n} /\ snapshots[m].status \notin {"absent", "gone"} /\ getOwnedExtension(v, snapshots[m].extension)
    BY <1>1, <1>9 DEF getOwnedSnapshot, There, ReportsTypeOK
  <2>2. snapshots'[m] = snapshots[m] /\ m \in There(snapshots)'
    BY <1>4, <2>1 DEF There
  <2>3. getOwnedExtension(v, snapshots[m].extension)'
    BY <1>8, <2>1, <2>2 DEF getOwnedExtension
  <2>4. QED
    BY <2>2, <2>3 DEF getOwnedSnapshot
<1>10. ReferencesExist'
  <2> SUFFICES ASSUME NEW r \in There(reports)
               PROVE  /\ reports[r].owner \in accounts
                      /\ reports[r].extension # None => getOwnedExtension(reports[r].owner, reports[r].extension)'
                      /\ reports[r].snapshot # None => getOwnedSnapshot(reports[r].owner, reports[r].snapshot)'
    BY <1>1, <1>6 DEF ReferencesExist
  <2>1. QED
    BY <1>1, <1>8, <1>9 DEF ReferencesExist
<1>11. QED
  BY <1>5, <1>7, <1>10

\* What stays of the rows when some extensions go.
LEMMA Cascades ==
    ASSUME ReportsTypeOK, NEW gone \in SUBSET Extensions, cascades(gone)
    PROVE  /\ extensions' \in [Extensions -> Extension] /\ snapshots' \in [Snapshots -> Snapshot]
           /\ \A v, y : getOwnedExtension(v, y) /\ y \notin gone => getOwnedExtension(v, y)'
           /\ \A v, m : getOwnedSnapshot(v, m) /\ snapshots[m].extension \notin gone => getOwnedSnapshot(v, m)'
<1> USE DEF ReportsTypeOK
<1>1. /\ [NoExtension EXCEPT !.status = "gone"] \in Extension
      /\ \A m \in Snapshots : [NoSnapshot EXCEPT !.status = "gone", !.at = snapshots[m].at] \in Snapshot
  BY ReportsConstants DEF NoExtension, NoSnapshot, Extension, Snapshot
<1>2. extensions' \in [Extensions -> Extension] /\ snapshots' \in [Snapshots -> Snapshot]
  BY <1>1 DEF cascades
<1>3. /\ \A y \in Extensions \ gone : extensions'[y] = extensions[y]
      /\ \A m \in Snapshots : snapshots[m].extension \notin gone => snapshots'[m] = snapshots[m]
  BY DEF cascades
<1>4. ASSUME NEW v, NEW y, getOwnedExtension(v, y), y \notin gone PROVE getOwnedExtension(v, y)'
  BY <1>2, <1>3, <1>4 DEF getOwnedExtension, There
<1>5. ASSUME NEW v, NEW m, getOwnedSnapshot(v, m), snapshots[m].extension \notin gone PROVE getOwnedSnapshot(v, m)'
  <2>1. m \in Snapshots /\ snapshots[m].status \notin {"absent", "gone"} /\ getOwnedExtension(v, snapshots[m].extension)
    BY <1>5 DEF getOwnedSnapshot, There
  <2>2. snapshots'[m] = snapshots[m] /\ m \in There(snapshots)'
    BY <1>2, <1>3, <1>5, <2>1 DEF There
  <2>3. getOwnedExtension(v, snapshots[m].extension)'
    BY <1>4, <1>5, <2>1, <2>2 DEF getOwnedExtension
  <2>4. QED
    BY <2>2, <2>3 DEF getOwnedSnapshot
<1>6. QED
  BY <1>2, <1>4, <1>5

LEMMA DeletionsKeepReports ==
    ASSUME ReportsInv, NEW u \in Owners, NEW x \in Extensions, deleteExtension(u, x)
    PROVE  ReportsInv'
<1> USE DEF ReportsInv
<1>1. /\ UNCHANGED <<accounts, testRuns, shares, publications, sharers>>
      /\ cascades({x}) /\ reports' = [r \in Reports |-> Cleared(reports[r], {x})]
  BY DEF deleteExtension
<1>2. ASSUME NEW r \in Reports
      PROVE  /\ reports'[r] \in Report
             /\ reports'[r].status = reports[r].status /\ reports'[r].owner = reports[r].owner
             /\ reports'[r].organization = reports[r].organization /\ reports'[r].run = reports[r].run
             /\ reports'[r].health = reports[r].health /\ reports'[r].runtime = reports[r].runtime
             /\ reports'[r].overall = reports[r].overall /\ reports'[r].tests = reports[r].tests
             /\ reports'[r].extension # None => reports'[r].extension = reports[r].extension /\ reports[r].extension # x
             /\ reports'[r].snapshot # None => /\ reports'[r].snapshot = reports[r].snapshot
                                               /\ snapshots[reports[r].snapshot].extension # x
  <2>1. reports[r] \in Report /\ reports'[r] = Cleared(reports[r], {x})
    BY <1>1 DEF ReportsTypeOK
  <2>2. QED
    BY <2>1 DEF Cleared, Report
<1>3. reports' \in [Reports -> Report]
  BY <1>1, <1>2
<1>4. ReportsTypeOK'
  BY <1>1, <1>3, Cascades DEF ReportsTypeOK
<1>5. There(reports)' = There(reports) /\ There(reports) \subseteq Reports
  BY <1>2, <1>3, ThereRows DEF There, ReportsTypeOK
<1>6. RunsAreScored' /\ LinksAreSingle'
  BY <1>1, <1>5 DEF RunsAreScored, LinksAreSingle, getLiveShareByToken, getActiveShareForReport
<1>7. PublishedWereThere'
  BY <1>1, <1>2 DEF PublishedWereThere
<1>8. PublicationsAreOrganizations'
  BY <1>1, <1>2, <1>5 DEF PublicationsAreOrganizations, getPublicReportBySlug
<1>9. ScoresAreTheirs'
  <2> SUFFICES ASSUME NEW r \in There(reports)
               PROVE  LET rep == reports'[r] IN
                      /\ rep.run # None => /\ testRuns[rep.run].owner = rep.owner
                                           /\ rep.runtime \in {Null, 0, testRuns[rep.run].score}
                      /\ rep.health # Null /\ rep.runtime = Null => rep.overall = rep.health
                      /\ rep.tests = "not-executed" => rep.runtime = Null
    BY <1>1, <1>5 DEF ScoresAreTheirs
  <2>1. QED
    BY <1>2, <1>5 DEF ScoresAreTheirs
<1>10. ASSUME NEW r \in There(reports)
       PROVE  /\ reports'[r].owner \in accounts
              /\ reports'[r].extension # None => getOwnedExtension(reports[r].owner, reports[r].extension)'
                                                  /\ reports'[r].extension = reports[r].extension
              /\ reports'[r].snapshot # None => getOwnedSnapshot(reports[r].owner, reports[r].snapshot)'
                                                  /\ reports'[r].snapshot = reports[r].snapshot
  <2>1. /\ reports[r].owner \in accounts
        /\ reports[r].extension # None => getOwnedExtension(reports[r].owner, reports[r].extension)
        /\ reports[r].snapshot # None => getOwnedSnapshot(reports[r].owner, reports[r].snapshot)
    BY DEF ReferencesExist
  <2>2. {x} \in SUBSET Extensions
    OBVIOUS
  <2>3. /\ \A v, y : getOwnedExtension(v, y) /\ y \notin {x} => getOwnedExtension(v, y)'
        /\ \A v, m : getOwnedSnapshot(v, m) /\ snapshots[m].extension \notin {x} => getOwnedSnapshot(v, m)'
    BY <1>1, <2>2, Cascades
  <2>4. QED
    BY <1>2, <1>5, <2>1, <2>3
<1>11. ReferencesExist'
  BY <1>1, <1>2, <1>5, <1>10 DEF ReferencesExist
<1>12. QED
  BY <1>4, <1>6, <1>7, <1>8, <1>9, <1>11

LEMMA AccountsTakeTheirReports ==
    ASSUME ReportsInv, NEW u \in Owners, accountDeleted(u)
    PROVE  ReportsInv'
<1> USE DEF ReportsInv
<1> DEFINE lost == {r \in Reports : reports[r].owner = u}
           hers == {x \in Extensions : extensions[x].owner = u}
<1>1. /\ UNCHANGED sharers /\ accounts' = accounts \ {u} /\ cascades(hers)
      /\ testRuns' = [t \in Tests |-> IF testRuns[t].owner = u THEN [NoRun EXCEPT !.status = "gone"] ELSE testRuns[t]]
      /\ reports' = [r \in Reports |-> IF r \in lost THEN [NoReport EXCEPT !.status = "gone"] ELSE reports[r]]
      /\ shares' = [s \in Shares |-> IF shares[s].report \in lost THEN OverShare ELSE shares[s]]
      /\ publications' = [g \in Slugs |-> IF publications[g].by = u THEN NoPublication ELSE publications[g]]
  BY DEF accountDeleted
<1>2. NoRun \in ScoredRun /\ NoReport \in Report /\ OverShare \in Share /\ NoPublication \in Publication
  <2>1. NoRun \in ScoredRun
    BY ReportsConstants DEF NoRun, ScoredRun, RunOutcomes
  <2>2. NoReport \in Report
    BY ReportsConstants DEF NoReport, Report
  <2>3. OverShare \in Share /\ NoPublication \in Publication
    BY DEF OverShare, NoShare, Share, NoPublication, Publication
  <2>4. QED
    BY <2>1, <2>2, <2>3
<1>3. /\ [NoRun EXCEPT !.status = "gone"] \in ScoredRun
      /\ [NoReport EXCEPT !.status = "gone"] \in Report
  BY <1>2 DEF ScoredRun, Report
<1>4. ReportsTypeOK'
  <2>1. testRuns' \in [Tests -> ScoredRun]
    BY <1>1, <1>3 DEF ReportsTypeOK
  <2>2. reports' \in [Reports -> Report]
    BY <1>1, <1>3 DEF ReportsTypeOK
  <2>3. shares' \in [Shares -> Share] /\ publications' \in [Slugs -> Publication]
    BY <1>1, <1>2 DEF ReportsTypeOK
  <2>4. QED
    BY <1>1, <2>1, <2>2, <2>3, Cascades DEF ReportsTypeOK
<1>5. /\ \A r \in There(reports)' : /\ r \in There(reports) /\ reports'[r] = reports[r]
                                     /\ reports[r].owner # u /\ r \in Reports
      /\ \A r \in There(reports) : r \notin lost => r \in There(reports)'
  <2>1. There(reports)' = {r \in Reports : reports'[r].status = "there"}
    BY <1>4 DEF ReportsTypeOK, There, Report
  <2>2. [NoReport EXCEPT !.status = "gone"].status = "gone"
    BY <1>2 DEF Report
  <2>3. QED
    BY <1>1, <2>1, <2>2, ThereRows
<1>6. RunsAreScored'
  <2>1. \A t \in Tests : testRuns[t].owner = u => testRuns'[t].score = 0 /\ testRuns'[t].owner = None
    BY <1>1 DEF NoRun
  <2>2. \A t \in Tests : testRuns[t].owner # u => testRuns'[t] = testRuns[t]
    BY <1>1
  <2>3. QED
    BY <2>1, <2>2 DEF RunsAreScored
<1>7. \A g \in Slugs : publications'[g] # NoPublication => publications'[g] = publications[g] /\ publications[g].by # u
  BY <1>1
<1>8. PublishedWereThere'
  <2>1. \A r \in Reports : reports'[r].status = "absent" => reports'[r] = reports[r]
    BY <1>1 DEF NoReport
  <2>2. QED
    BY <1>7, <2>1 DEF PublishedWereThere
<1>9. PublicationsAreOrganizations'
  <2> SUFFICES ASSUME NEW g \in Slugs, publications'[g] # NoPublication
               PROVE  /\ publications'[g].by \in accounts'
                      /\ publications'[g].report \in There(reports)' => reports'[publications'[g].report].organization
    BY DEF PublicationsAreOrganizations, getPublicReportBySlug
  <2>1. /\ publications[g].by \in accounts
        /\ publications[g].report \in There(reports) /\ publications[g].report # None => reports[publications[g].report].organization
    BY <1>7 DEF PublicationsAreOrganizations, getPublicReportBySlug
  <2>2. QED
    BY <1>1, <1>5, <1>7, <2>1, ReportsConstants
<1>10. ScoresAreTheirs'
  <2> SUFFICES ASSUME NEW r \in There(reports)'
               PROVE  LET rep == reports'[r] IN
                      /\ rep.run # None => /\ testRuns'[rep.run].owner = rep.owner
                                           /\ rep.runtime \in {Null, 0, testRuns'[rep.run].score}
                      /\ rep.health # Null /\ rep.runtime = Null => rep.overall = rep.health
                      /\ rep.tests = "not-executed" => rep.runtime = Null
    BY DEF ScoresAreTheirs
  <2>1. r \in There(reports) /\ reports'[r] = reports[r] /\ reports[r].owner # u /\ reports[r].run \in Tests \union {None}
    BY <1>5 DEF ReportsTypeOK, Report
  <2>2. reports[r].run # None => testRuns'[reports[r].run] = testRuns[reports[r].run]
    BY <1>1, <2>1 DEF ScoresAreTheirs
  <2>3. QED
    BY <2>1, <2>2 DEF ScoresAreTheirs
<1>11. ReferencesExist'
  <2> SUFFICES ASSUME NEW r \in There(reports)'
               PROVE  /\ reports'[r].owner \in accounts'
                      /\ reports'[r].extension # None => getOwnedExtension(reports[r].owner, reports[r].extension)'
                      /\ reports'[r].snapshot # None => getOwnedSnapshot(reports[r].owner, reports[r].snapshot)'
    BY DEF ReferencesExist
  <2>1. r \in There(reports) /\ reports'[r] = reports[r] /\ reports[r].owner # u
    BY <1>5
  <2>2. \A y : getOwnedExtension(reports[r].owner, y) => y \notin hers
    BY <2>1 DEF getOwnedExtension
  <2>3. hers \in SUBSET Extensions
    OBVIOUS
  <2> HIDE DEF hers
  <2>4. ASSUME NEW y, getOwnedExtension(reports[r].owner, y) PROVE getOwnedExtension(reports[r].owner, y)'
    BY <1>1, <2>1, <2>2, <2>3, <2>4, Cascades DEF getOwnedExtension
  <2>5. ASSUME NEW m, getOwnedSnapshot(reports[r].owner, m) PROVE getOwnedSnapshot(reports[r].owner, m)'
    BY <1>1, <2>1, <2>2, <2>3, <2>5, Cascades DEF getOwnedSnapshot, getOwnedExtension
  <2>6. QED
    BY <1>1, <2>1, <2>4, <2>5 DEF ReferencesExist
<1>12. LinksAreSingle'
  <2>1. \A s \in Shares : shares'[s].status = "live" => shares'[s] = shares[s] /\ shares[s].report \notin lost
    BY <1>1 DEF OverShare, NoShare
  <2> HIDE DEF lost
  <2>2. QED
    BY <1>5, <2>1 DEF LinksAreSingle, getLiveShareByToken, getActiveShareForReport
<1>13. QED
  BY <1>4, <1>6, <1>8, <1>9, <1>10, <1>11, <1>12

LEMMA ReportsStep == ReportsInv /\ [ReportsNext]_rpVars => ReportsInv'
<1> SUFFICES ASSUME ReportsInv, [ReportsNext]_rpVars PROVE ReportsInv'
  OBVIOUS
<1>1. CASE UNCHANGED rpVars
  BY <1>1 DEF rpVars, ReportsInv, ReportsTypeOK, RunsAreScored, PublishedWereThere, ScoresAreTheirs, ReferencesExist,
              LinksAreSingle, PublicationsAreOrganizations, There, getOwnedExtension, getOwnedSnapshot,
              getLiveShareByToken, getActiveShareForReport, getPublicReportBySlug
<1>2. CASE ReportsNext
  BY <1>2, RunsKeepReports, CreatedReports, LinksKeepReports, PublicationsKeepReports, AnalysesKeepReports,
     DeletionsKeepReports, AccountsTakeTheirReports DEF ReportsNext
<1>3. QED
  BY <1>1, <1>2

\* What a report says of its run and its analysis is theirs, what it names is
\* there, one link of it is live and what a slug shows is an organization's,
\* for any users, extensions, runs, reports, links and slugs.
THEOREM ReportsAreSound == ReportsSpec => []ReportsHold
<1>1. ReportsInv => ReportsHold
  BY DirectionsMirror DEF ReportsInv, ReportsHold
<1>2. QED
  BY <1>1, ReportsStart, ReportsStep, PTL DEF ReportsSpec

-----------------------------------------------------------------------------
(* Side by side.                                                           *)

\* In the composition, too, the records of every part say what is so, if the
\* dashboard asks for the version it shows.
THEOREM RecordsAreSound ==
    ASSUME Asked \subseteq {1}
    PROVE  RecordsSpec => []RecordsHold
<1>1. RecordsInit => SavedInv /\ AccountsInv /\ RateLimitsInv /\ ReportsInv
  BY SavedStart, AccountsStart, RateLimitsStart, ReportsStart DEF RecordsInit
<1>2. [RecordsNext]_<<record, vars, stVars, acVariables, rlVars, rpVars>> =>
          [SavedTestsNext]_stVars /\ [AccountsNext]_acVariables /\ [RateLimitsNext]_rlVars /\ [ReportsNext]_rpVars
  BY DEF RecordsNext, OfReports
<1>3. SavedInv /\ AccountsInv /\ RateLimitsInv /\ ReportsInv => RecordsHold
  BY RateLimitsHoldNow, DirectionsMirror
  DEF RecordsHold, SavedInv, RunsAreSettled, RunsBindVersion, Settled, AccountsInv, AccountsHold, ReportsInv, ReportsHold
<1>4. SavedInv /\ [SavedTestsNext]_stVars => SavedInv'
  BY SavedStep
<1>5. QED
  BY <1>1, <1>2, <1>3, <1>4, AccountsStep, RateLimitsStep, ReportsStep, PTL DEF RecordsSpec

\* So do the changes of an account and of what it was given.
THEOREM RecordsMoveSoundly == RecordsSpec => RecordsMove
<1>1. RecordsInit => AccountsInv
  BY AccountsStart DEF RecordsInit
<1>2. [RecordsNext]_<<record, vars, stVars, acVariables, rlVars, rpVars>> => [AccountsNext]_acVariables
  BY DEF RecordsNext, OfReports
<1>3. AccountsInv /\ [AccountsNext]_acVariables => PasswordsAreEarned /\ CredentialsStayOver
  BY PasswordChanges, OverIsOver
<1>4. QED
  BY <1>1, <1>2, <1>3, AccountsStep, PTL DEF RecordsSpec, RecordsMove
=============================================================================
