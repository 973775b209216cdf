------------------------------ MODULE Accounts ------------------------------
(***************************************************************************)
(* Accounts, their sessions and their password resets (app/api/auth,       *)
(* app/api/me, app/api/sessions, lib/auth and the repositories under it).  *)
(* One web process answers: what a handler does between two awaits is one  *)
(* step.  A password takes an await to be verified or hashed, so that a    *)
(* sign-up, a sign-in, a reset, a change of the account and its deletion   *)
(* all finish on what they read before; rows meanwhile change and go.      *)
(***************************************************************************)
EXTENDS Naturals, FiniteSets

CONSTANTS
    Accounts,       \* the ids of accounts, each given once
    Emails,
    Passwords,
    Sessions,       \* the tokens of sessions, each given once
    Resets,         \* the tokens of resets, each given once
    Callers         \* the requests that wait for a password or a provider, each made once

NoAccount == "none"
NoPassword == "none"    \* no new password, or one that validatePassword refuses

ASSUME AccountsAssumption ==
    NoAccount \notin Accounts /\ NoPassword \notin Passwords

VARIABLES
    users,          \* users: the rows; an account that was deleted stays gone
    sessions,       \* sessions: the row of each token
    resets,         \* password_resets: the row of each token
    caller          \* the handlers that wait

acVariables == <<users, sessions, resets, caller>>

Waiting == [op : {"none", "answered", "signup", "login", "reset", "patch", "rehash", "delete"},
            account : Accounts \union {NoAccount}, email : Emails \union {"none"},
            verified : BOOLEAN,
            new : Passwords \union {NoPassword}, reset : Resets \union {"none"}]
NotWaiting == [op |-> "none", account |-> NoAccount, email |-> "none",
               verified |-> FALSE, new |-> NoPassword, reset |-> "none"]

AccountsInit ==
    /\ users = [a \in Accounts |-> [status |-> "absent", email |-> "none", password |-> NoPassword]]
    /\ sessions = [s \in Sessions |-> [status |-> "unused", owner |-> NoAccount]]
    /\ resets = [t \in Resets |-> [status |-> "unused", owner |-> NoAccount]]
    /\ caller = [c \in Callers |-> NotWaiting]

-----------------------------------------------------------------------------
(* The repositories.                                                       *)

Active(a) == a \in Accounts /\ users[a].status = "active"

\* users.email is UNIQUE: at most one row answers.
findUserByEmail(e) == {a \in Accounts : Active(a) /\ users[a].email = e}

\* A row of a session is there until it is deleted; it is good until it expires.
findSessionByTokenHash(s) == sessions[s].status \in {"live", "expired"}
restoreUser(s) == findSessionByTokenHash(s) /\ sessions[s].status = "live" /\ Active(sessions[s].owner)

findPasswordReset(t) == resets[t].status = "open"

createUser(a, e, p) ==
    users' = [users EXCEPT ![a] = [status |-> "active", email |-> e, password |-> p]]
updateUserProfile(a, e) == users' = [users EXCEPT ![a].email = e]
updateUserPassword(a, p) ==
    users' = IF Active(a) THEN [users EXCEPT ![a].password = p] ELSE users

startSession(s, a) == sessions' = [sessions EXCEPT ![s] = [status |-> "live", owner |-> a]]
endSession(s) == sessions' = [sessions EXCEPT ![s].status = "ended"]

\* All but the ones in spared.
deleteAllSessionsForUser(a, spared) ==
    sessions' = [s \in Sessions |->
        IF findSessionByTokenHash(s) /\ sessions[s].owner = a /\ s \notin spared
        THEN [sessions[s] EXCEPT !.status = "ended"] ELSE sessions[s]]

\* The resets of an account that were not used, each of them used now.
invalidated(a) ==
    [t \in Resets |-> IF resets[t].status = "open" /\ resets[t].owner = a
                      THEN [resets[t] EXCEPT !.status = "over"] ELSE resets[t]]

Waits(c, request) == caller[c] = NotWaiting /\ caller' = [caller EXCEPT ![c] = request]
Answers(c) == caller' = [caller EXCEPT ![c] = [NotWaiting EXCEPT !.op = "answered"]]

-----------------------------------------------------------------------------
(* Signing up, in and out.                                                 *)

signupReads(c, e, p) ==
    /\ findUserByEmail(e) = {}
    /\ Waits(c, [NotWaiting EXCEPT !.op = "signup", !.email = e, !.new = p])
    /\ UNCHANGED <<users, sessions, resets>>

\* The address may have been taken since: then the insertion fails.
signupCreates(c) ==
    /\ caller[c].op = "signup"
    /\ Answers(c)
    /\ \/ /\ findUserByEmail(caller[c].email) = {}
          /\ \E a \in Accounts, s \in Sessions :
                /\ users[a].status = "absent" /\ sessions[s].status = "unused"
                /\ createUser(a, caller[c].email, caller[c].new)
                /\ startSession(s, a)
       \/ /\ findUserByEmail(caller[c].email) # {}
          /\ UNCHANGED <<users, sessions>>
    /\ UNCHANGED resets

loginReads(c, e, p) ==
    /\ \E a \in findUserByEmail(e) :
          Waits(c, [NotWaiting EXCEPT !.op = "login", !.account = a,
                                      !.verified = (p = users[a].password)])
    /\ UNCHANGED <<users, sessions, resets>>

\* A session of an account that went meanwhile violates its foreign key.
loginOpens(c) ==
    /\ caller[c].op = "login"
    /\ Answers(c)
    /\ \/ /\ caller[c].verified /\ Active(caller[c].account)
          /\ \E s \in Sessions : sessions[s].status = "unused" /\ startSession(s, caller[c].account)
       \/ /\ ~caller[c].verified \/ ~Active(caller[c].account)
          /\ UNCHANGED sessions
    /\ UNCHANGED <<users, resets>>

logout(s) ==
    /\ findSessionByTokenHash(s)
    /\ endSession(s)
    /\ UNCHANGED <<users, resets, caller>>

\* Every session of the user but the one that asks.
logoutAllSessions(s) ==
    /\ restoreUser(s)
    /\ deleteAllSessionsForUser(sessions[s].owner, {s})
    /\ UNCHANGED <<users, resets, caller>>

-----------------------------------------------------------------------------
(* A password that was forgotten.                                          *)

\* One transaction: the earlier resets are used up and the new one is open.
issuePasswordReset(e) ==
    /\ \E a \in findUserByEmail(e), t \in Resets :
          /\ resets[t].status = "unused"
          /\ resets' = [invalidated(a) EXCEPT ![t] = [status |-> "open", owner |-> a]]
    /\ UNCHANGED <<users, sessions, caller>>

resetReads(c, t, p) ==
    /\ findPasswordReset(t)
    /\ Waits(c, [NotWaiting EXCEPT !.op = "reset", !.account = resets[t].owner, !.new = p, !.reset = t])
    /\ UNCHANGED <<users, sessions, resets>>

\* Mutated resetApplies: who has signed in stays signed in.
resetAppliesAlone(c) ==
    /\ caller[c].op = "reset"
    /\ Answers(c)
    /\ updateUserPassword(caller[c].account, caller[c].new)
    /\ resets' = [invalidated(caller[c].account) EXCEPT
                     ![caller[c].reset].status = IF @ = "open" THEN "over" ELSE @]
    /\ UNCHANGED sessions

\* Nothing is read again after the hash.  The row may have been used, have
\* expired or be gone; it is marked if it is there.
resetApplies(c) ==
    /\ caller[c].op = "reset"
    /\ Answers(c)
    /\ updateUserPassword(caller[c].account, caller[c].new)
    /\ resets' = [invalidated(caller[c].account) EXCEPT
                     ![caller[c].reset].status = IF @ = "open" THEN "over" ELSE @]
    /\ deleteAllSessionsForUser(caller[c].account, {})

-----------------------------------------------------------------------------
(* The settings of the account.                                            *)

patchReads(c, s, e, p, new) ==
    /\ restoreUser(s)
    /\ findUserByEmail(e) \subseteq {sessions[s].owner}
    /\ Waits(c, [NotWaiting EXCEPT !.op = "patch", !.account = sessions[s].owner, !.email = e,
                                   !.verified = (p = users[sessions[s].owner].password), !.new = new])
    /\ UNCHANGED <<users, sessions, resets>>

\* The profile is saved before the new password is looked at: one that is
\* refused leaves the profile changed.
patchSaves(c) ==
    /\ caller[c].op = "patch"
    /\ LET a == caller[c].account
           fits == /\ caller[c].verified /\ Active(a)
                   /\ findUserByEmail(caller[c].email) \subseteq {a}
       IN /\ IF fits THEN updateUserProfile(a, caller[c].email) ELSE UNCHANGED users
          /\ IF fits /\ caller[c].new \in Passwords
             THEN caller' = [caller EXCEPT ![c].op = "rehash"]
             ELSE Answers(c)
    /\ UNCHANGED <<sessions, resets>>

\* Every session goes, the one that asks with them.
patchRehashes(c) ==
    /\ caller[c].op = "rehash"
    /\ Answers(c)
    /\ updateUserPassword(caller[c].account, caller[c].new)
    /\ deleteAllSessionsForUser(caller[c].account, {})
    /\ UNCHANGED resets

deleteReads(c, s) ==
    /\ restoreUser(s)
    /\ Waits(c, [NotWaiting EXCEPT !.op = "delete", !.account = sessions[s].owner])
    /\ UNCHANGED <<users, sessions, resets>>

\* The provider may refuse to cancel, and then nothing is deleted.  The rows
\* of the account go with its own, by ON DELETE CASCADE.
deleteAccount(c) ==
    /\ caller[c].op = "delete"
    /\ Answers(c)
    /\ \/ /\ users' = [users EXCEPT ![caller[c].account].status = "gone"]
          /\ deleteAllSessionsForUser(caller[c].account, {})
          /\ resets' = [t \in Resets |-> IF resets[t].owner = caller[c].account
                                         THEN [resets[t] EXCEPT !.status = "gone"] ELSE resets[t]]
       \/ UNCHANGED <<users, sessions, resets>>

-----------------------------------------------------------------------------
(* Time, and the maintenance that follows it.                              *)

sessionExpires(s) ==
    /\ sessions[s].status = "live"
    /\ sessions' = [sessions EXCEPT ![s].status = "expired"]
    /\ UNCHANGED <<users, resets, caller>>

resetExpires(t) ==
    /\ resets[t].status = "open"
    /\ resets' = [resets EXCEPT ![t].status = "over"]
    /\ UNCHANGED <<users, sessions, caller>>

cleanupExpiredSessions ==
    /\ \E s \in Sessions : sessions[s].status = "expired"
    /\ sessions' = [s \in Sessions |-> IF sessions[s].status = "expired"
                                       THEN [sessions[s] EXCEPT !.status = "ended"] ELSE sessions[s]]
    /\ UNCHANGED <<users, resets, caller>>

\* A reset that is over was used, superseded or has expired: the rows whose
\* time has passed go, used or not.
deleteExpiredPasswordResets ==
    /\ \E expired \in SUBSET {t \in Resets : resets[t].status = "over"} :
          resets' = [t \in Resets |-> IF t \in expired THEN [resets[t] EXCEPT !.status = "gone"] ELSE resets[t]]
    /\ UNCHANGED <<users, sessions, caller>>

AccountsNext ==
    \/ \E c \in {d \in Callers : caller[d] = NotWaiting} :
          \/ \E e \in Emails, p \in Passwords : signupReads(c, e, p) \/ loginReads(c, e, p)
          \/ \E t \in Resets, p \in Passwords : resetReads(c, t, p)
          \/ \E s \in Sessions : deleteReads(c, s)
          \/ \E s \in Sessions, e \in Emails, p \in Passwords, new \in Passwords \union {NoPassword} :
                patchReads(c, s, e, p, new)
    \/ \E c \in Callers :
          signupCreates(c) \/ loginOpens(c) \/ resetApplies(c) \/ patchSaves(c) \/ patchRehashes(c) \/ deleteAccount(c)
    \/ \E s \in Sessions : logout(s) \/ logoutAllSessions(s) \/ sessionExpires(s)
    \/ \E e \in Emails : issuePasswordReset(e)
    \/ \E t \in Resets : resetExpires(t)
    \/ cleanupExpiredSessions
    \/ deleteExpiredPasswordResets

AccountsSpec == AccountsInit /\ [][AccountsNext]_acVariables

-----------------------------------------------------------------------------
\* No two accounts have one e-mail address, although each request looks the
\* address up before an await and writes it after.
EmailsAreUnique == \A a, b \in Accounts : Active(a) /\ Active(b) /\ users[a].email = users[b].email => a = b

\* A session or a reset that is there belongs to an account that is there,
\* whatever was in flight when the account was deleted.
CredentialsAreOwned ==
    /\ \A s \in Sessions : findSessionByTokenHash(s) => Active(sessions[s].owner)
    /\ \A t \in Resets : resets[t].status \in {"open", "over"} => Active(resets[t].owner)

\* Of the resets of an account at most the last that was asked for is open.
OneOpenReset ==
    \A t, u \in Resets : resets[t].status = "open" /\ resets[u].status = "open"
                            /\ resets[t].owner = resets[u].owner => t = u

AccountsHold == EmailsAreUnique /\ CredentialsAreOwned /\ OneOpenReset

\* A password changes only by a request that waited with that password, for
\* the account it was read for, with the current password typed as it was
\* read or with a reset that was open; and no session outlives the change.
PasswordsAreEarned ==
    \A a \in Accounts : Active(a) /\ Active(a)' /\ users'[a].password # users[a].password =>
        /\ \E c \in Callers :
              /\ caller[c].account = a /\ caller[c].new = users'[a].password
              /\ \/ caller[c].op = "rehash" /\ caller[c].verified
                 \/ caller[c].op = "reset" /\ resets[caller[c].reset].owner = a
        /\ \A s \in Sessions : sessions[s].owner = a => ~findSessionByTokenHash(s)'

\* What is over stays over: an account that was deleted, a session that ended
\* and a reset that was used, expired or was superseded is never good again.
CredentialsStayOver ==
    /\ \A a \in Accounts : users[a].status = "gone" => users'[a].status = "gone"
    /\ \A s \in Sessions : sessions[s].status \in {"expired", "ended"} => sessions'[s].status # "live"
    /\ \A t \in Resets : resets[t].status \notin {"unused", "open"} => resets'[t].status # "open"
=============================================================================
