------------------------------ MODULE Sessions ------------------------------
(***************************************************************************)
(* Local operators and their sessions (auth/service.py, backend/security.py*)
(* and routers/auth.py).  Requests run in threads of the API process.  A   *)
(* login reads the password in one transaction and stores its session in   *)
(* another; a change of password checks the old one, then replaces it and  *)
(* deletes the other sessions of the account.  Failed changes are counted  *)
(* in memory, without a lock around the check and the count.               *)
(***************************************************************************)
EXTENDS Naturals, FiniteSets

CONSTANTS
    Users,
    Tokens,         \* bound: sessions ever opened
    Threads,        \* requests under way at a time
    Passwords,      \* passwords operators choose or mistype
    MaxFailures,    \* PASSWORD_CHANGE_MAX_FAILURES
    MaxChanges,     \* bound: changes of passwords
    NoUser

VARIABLES
    password,       \* password_hash of each account
    version,        \* history: how often each password was changed
    sessions,       \* rows of sessions, by token
    failures,       \* AttemptThrottle: failures of each account in the window
    thread          \* the requests

authVars == <<password, version, sessions, failures, thread>>

ASSUME AuthAssumption ==
    /\ MaxFailures \in Nat \ {0} /\ NoUser \notin Users
    /\ IsFiniteSet(Tokens) /\ IsFiniteSet(Threads) /\ Threads # {}

NoSession == [user |-> NoUser, spent |-> FALSE]
Spent == [user |-> NoUser, spent |-> TRUE]      \* a token is never drawn again
IsOpen(k) == sessions[k].user # NoUser
Session == {NoSession, Spent} \cup
    [user : Users, opened : Nat, expired : BOOLEAN]
Free == [step |-> "free"]

Doing(t, s) == thread[t].step = s
Spawn(t, r) == thread' = [thread EXCEPT ![t] = r]
End(t) == thread' = [thread EXCEPT ![t] = Free]

AuthInit ==
    /\ password \in [Users -> Passwords]
    /\ version = [u \in Users |-> 0]
    /\ sessions = [k \in Tokens |-> NoSession]
    /\ failures = [u \in Users |-> 0]
    /\ thread = [t \in Threads |-> Free]

-----------------------------------------------------------------------------
\* POST /auth/login: authenticate, then create_session in a second transaction.
Authenticate(t, u, p) ==
    /\ thread[t] = Free
    /\ password[u] = p
    /\ Spawn(t, [step |-> "login", user |-> u, version |-> version[u]])
    /\ UNCHANGED <<password, version, sessions, failures>>

CreateSession(t, k) ==
    /\ Doing(t, "login") /\ sessions[k] = NoSession
    /\ sessions' = [sessions EXCEPT ![k] =
          [user |-> thread[t].user, opened |-> thread[t].version, expired |-> FALSE]]
    /\ End(t)
    /\ UNCHANGED <<password, version, failures>>

\* auth_guard and resolve_token: an expired session is deleted when it is used.
Guard(k) ==
    /\ IsOpen(k) /\ sessions[k].expired
    /\ sessions' = [sessions EXCEPT ![k] = Spent]
    /\ UNCHANGED <<password, version, failures, thread>>

\* POST /auth/logout.
Logout(k) ==
    /\ IsOpen(k)
    /\ sessions' = [sessions EXCEPT ![k] = Spent]
    /\ UNCHANGED <<password, version, failures, thread>>

Expire(k) ==
    /\ IsOpen(k) /\ ~sessions[k].expired
    /\ sessions' = [sessions EXCEPT ![k].expired = TRUE]
    /\ UNCHANGED <<password, version, failures, thread>>

-----------------------------------------------------------------------------
\* AttemptThrottle.blocked.
Blocked(u) == failures[u] >= MaxFailures

\* POST /auth/password of a valid session: the throttle is looked at first.
BeginChange(t, k) ==
    /\ thread[t] = Free
    /\ IsOpen(k) /\ ~sessions[k].expired
    /\ ~Blocked(sessions[k].user)
    /\ Spawn(t, [step |-> "verify", user |-> sessions[k].user, token |-> k])
    /\ UNCHANGED <<password, version, sessions, failures>>

\* authenticate with the current password; a failure is counted.
Verify(t, p) ==
    /\ Doing(t, "verify")
    /\ LET u == thread[t].user IN
         IF password[u] = p
           THEN /\ Spawn(t, [thread[t] EXCEPT !.step = "set"])
                /\ UNCHANGED failures
           ELSE /\ failures' = [failures EXCEPT ![u] = @ + 1]
                /\ End(t)
    /\ UNCHANGED <<password, version, sessions>>

\* A change that leaves the other sessions alone.
MutSetPassword(t, p) ==
    /\ Doing(t, "set")
    /\ LET u == thread[t].user IN
         /\ version[u] < MaxChanges
         /\ password' = [password EXCEPT ![u] = p]
         /\ version' = [version EXCEPT ![u] = @ + 1]
         /\ sessions' = [k \in Tokens |->
               IF sessions[k].user = u /\ k = thread[t].token
                 THEN [sessions[k] EXCEPT !.opened = version'[u]] ELSE sessions[k]]
    /\ Spawn(t, [thread[t] EXCEPT !.step = "clear"])
    /\ UNCHANGED failures

\* set_password, one transaction: the other sessions of the account go, the one
\* of this request stays, if it still exists.
SetPassword(t, p) ==
    /\ Doing(t, "set")
    /\ LET u == thread[t].user IN
         /\ version[u] < MaxChanges
         /\ password' = [password EXCEPT ![u] = p]
         /\ version' = [version EXCEPT ![u] = @ + 1]
         /\ sessions' = [k \in Tokens |->
               IF sessions[k].user # u THEN sessions[k]
               ELSE IF k = thread[t].token THEN [sessions[k] EXCEPT !.opened = version'[u]]
               ELSE Spent]
    /\ Spawn(t, [thread[t] EXCEPT !.step = "clear"])
    /\ UNCHANGED failures

\* The count is cleared after the change has been committed.
ClearFailures(t) ==
    /\ Doing(t, "clear")
    /\ failures' = [failures EXCEPT ![thread[t].user] = 0]
    /\ End(t)
    /\ UNCHANGED <<password, version, sessions>>

\* PASSWORD_CHANGE_WINDOW_SECONDS pass, or the process restarts.
ForgetFailures(u) ==
    /\ failures[u] > 0
    /\ failures' = [failures EXCEPT ![u] = 0]
    /\ UNCHANGED <<password, version, sessions, thread>>

Restart ==
    /\ thread' = [t \in Threads |-> Free]
    /\ failures' = [u \in Users |-> 0]
    /\ UNCHANGED <<password, version, sessions>>

AuthNext ==
    \/ \E t \in Threads, u \in Users, p \in Passwords : Authenticate(t, u, p)
    \/ \E t \in Threads, k \in Tokens : CreateSession(t, k) \/ BeginChange(t, k)
    \/ \E k \in Tokens : Guard(k) \/ Logout(k) \/ Expire(k)
    \/ \E t \in Threads, p \in Passwords : Verify(t, p) \/ SetPassword(t, p)
    \/ \E t \in Threads : ClearFailures(t)
    \/ \E u \in Users : ForgetFailures(u)
    \/ Restart

AuthSpec == AuthInit /\ [][AuthNext]_authVars

-----------------------------------------------------------------------------
AuthTypeOK ==
    /\ password \in [Users -> Passwords]
    /\ sessions \in [Tokens -> Session]
    /\ failures \in [Users -> Nat]

(***************************************************************************)
(* A session is opened with the password of the day: a change of password  *)
(* ends every session opened before it but its own.  The exception is a    *)
(* login that had checked the old password before the change and stored    *)
(* its session after it, so a session may be one change behind for every   *)
(* request that is under way.                                              *)
(***************************************************************************)
SessionsRevoked ==
    \A u \in Users :
        Cardinality({k \in Tokens : sessions[k].user = u /\ sessions[k].opened < version[u]})
          <= Cardinality(Threads) - 1
=============================================================================
