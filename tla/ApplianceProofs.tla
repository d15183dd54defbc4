--------------------------- MODULE ApplianceProofs ---------------------------
(***************************************************************************)
(* Theorems about the parts of the appliance beside its audits: Installer, *)
(* for any command lines and any number of installations that fail or are  *)
(* killed at any step and are repeated; Sessions, for any accounts, tokens *)
(* and threads; NetControl, for any interfaces, changes and requests; and  *)
(* EvidenceStore, for any artifacts and audits.                            *)
(***************************************************************************)
EXTENDS EvidenceStore, Installer, Sessions, NetControl, FiniteSetTheorems, TLAPS

-----------------------------------------------------------------------------
(***************************************************************************)
(* The installer.                                                          *)
(***************************************************************************)

\* The steps after everything that the services need is in place.
AfterMigrate == {"password", "copyAuditor", "copyViewer", "bootstrap", "unlink", "start", "done"}
AfterUnits == AfterMigrate \cup {"kioskFiles", "migrate"}
AfterVenv == AfterUnits \cup {"dumpcap", "units"}
AfterEnv == AfterVenv \cup {"netctl", "proxy", "venv"}
AfterDirectories == AfterEnv \cup {"env"}
AfterAccount == AfterDirectories \cup {"directories"}

Complete ==
    environment # "none" /\ {"account", "directories", "venv", "units", "migrate"} \subseteq installed

\* What the steps before the present one have put in place; services only run on
\* all of it.
Progressed ==
    /\ step \in AfterAccount => "account" \in installed
    /\ step \in AfterDirectories => "directories" \in installed
    /\ step \in AfterEnv => environment # "none"
    /\ step \in AfterVenv => "venv" \in installed
    /\ step \in AfterUnits => "units" \in installed
    /\ step \in AfterMigrate => "migrate" \in installed
    /\ services => Complete

Typed ==
    /\ InstTypeOK
    /\ generated \in 0..MaxGenerated
    /\ services \in BOOLEAN /\ removed \in BOOLEAN

\* A generated password that is in use, or about to be, is the one in
\* initial-admin.txt.
Recorded ==
    ~removed => /\ accounts["auditor"] > OwnPassword => initialAdmin = accounts["auditor"]
                /\ copies["auditor"] > OwnPassword => initialAdmin = copies["auditor"]

\* What a command line holds.
LEMMA OptionTypes ==
    /\ \A o \in Options : o.bind \in {"loopback", "lan"}
    /\ MaxGenerated \in Nat
  BY OptionsAssumption DEF Option

\* The type invariant holds at the start.
LEMMA TypedInit ==
    InstInit => Typed
<1> SUFFICES ASSUME InstInit PROVE Typed
    OBVIOUS
<1> USE DEF InstInit
<1>1. 0 \in 0..MaxGenerated /\ 0 \in 0..MaxGenerated + 1
    BY OptionTypes
<1>2. step \in {"idle"} \cup InstallSteps
    OBVIOUS
<1>3. accounts \in [Names -> 0..MaxGenerated + 1] /\ copies \in [Names -> 0..MaxGenerated + 1]
    BY <1>1
<1>. QED
    BY <1>1, <1>2, <1>3 DEF Typed, InstTypeOK

\* Every step keeps the types.
LEMMA TypedStep ==
    Typed /\ [InstNext]_instVars => Typed'
<1> SUFFICES ASSUME Typed, [InstNext]_instVars PROVE Typed'
    OBVIOUS
<1> USE DEF Typed, InstTypeOK, InstallSteps, Following, After, Advance, At, Names, OwnPassword
<1>1. ASSUME NEW o \in Options, Install(o) PROVE Typed'
    BY <1>1, OptionTypes DEF Install
<1>2. CASE InstallFails
    BY <1>2 DEF InstallFails
<1>3. CASE InstallPackages
    BY <1>3 DEF InstallPackages, PutInPlace
<1>4. CASE InstallAccount
    BY <1>4 DEF InstallAccount, PutInPlace
<1>5. CASE InstallDirectories
    BY <1>5 DEF InstallDirectories, PutInPlace
<1>6. CASE InstallNetctl
    BY <1>6 DEF InstallNetctl, PutInPlace
<1>7. CASE InstallProxyExamples
    BY <1>7 DEF InstallProxyExamples, PutInPlace
<1>8. CASE InstallVenv
    BY <1>8 DEF InstallVenv, PutInPlace
<1>9. CASE InstallUnits
    BY <1>9 DEF InstallUnits, PutInPlace
<1>10. CASE InstallKioskFiles
    BY <1>10 DEF InstallKioskFiles, PutInPlace
<1>11. CASE Migrate
    BY <1>11 DEF Migrate, PutInPlace
<1>12. CASE InstallDumpcap
    BY <1>12 DEF InstallDumpcap
<1>13. CASE InstallEnv
    BY <1>13, OptionTypes DEF InstallEnv, Promotes
<1>14. CASE Password
    BY <1>14, OptionTypes DEF Password
<1>15. ASSUME NEW n \in Names, CopyPassword(n) PROVE Typed'
    BY <1>15, OptionTypes DEF CopyPassword, Given
<1>16. ASSUME NEW all \in BOOLEAN, Bootstrap(all) PROVE Typed'
    BY <1>16, OptionTypes DEF Bootstrap, FirstAccounts
<1>17. ASSUME NEW ok \in BOOLEAN, UnlinkCopies(ok) PROVE Typed'
    BY <1>17, OptionTypes DEF UnlinkCopies
<1>18. ASSUME NEW systemd \in BOOLEAN, NEW kiosk \in BOOLEAN, StartServices(systemd, kiosk) PROVE Typed'
    BY <1>18 DEF StartServices
<1>19. CASE Finish
    BY <1>19 DEF Finish
<1>20. CASE RemoveInitialAdmin
    BY <1>20, OptionTypes DEF RemoveInitialAdmin
<1>21. CASE UNCHANGED instVars
    BY <1>21 DEF instVars
<1>. QED
    BY <1>1, <1>2, <1>3, <1>4, <1>5, <1>6, <1>7, <1>8, <1>9, <1>10, <1>11, <1>12, <1>13, <1>14, <1>15, <1>16, <1>17, <1>18, <1>19, <1>20, <1>21 DEF InstNext

\* A step puts its part in place before the next one starts.
LEMMA ProgressedStep ==
    Typed /\ Progressed /\ [InstNext]_instVars => Progressed'
<1> SUFFICES ASSUME Typed /\ Progressed, [InstNext]_instVars PROVE Progressed'
    OBVIOUS
<1> USE DEF Progressed, Complete, Typed, InstTypeOK, Following, After, Advance, At, AfterAccount, AfterDirectories, AfterEnv, AfterVenv, AfterUnits, AfterMigrate
<1>1. ASSUME NEW o \in Options, Install(o) PROVE Progressed'
    BY <1>1 DEF Install
<1>2. CASE InstallFails
    BY <1>2 DEF InstallFails
<1>3. CASE InstallPackages
    BY <1>3 DEF InstallPackages, PutInPlace
<1>4. CASE InstallAccount
    BY <1>4 DEF InstallAccount, PutInPlace
<1>5. CASE InstallDirectories
    BY <1>5 DEF InstallDirectories, PutInPlace
<1>6. CASE InstallNetctl
    BY <1>6 DEF InstallNetctl, PutInPlace
<1>7. CASE InstallProxyExamples
    BY <1>7 DEF InstallProxyExamples, PutInPlace
<1>8. CASE InstallVenv
    BY <1>8 DEF InstallVenv, PutInPlace
<1>9. CASE InstallUnits
    BY <1>9 DEF InstallUnits, PutInPlace
<1>10. CASE InstallKioskFiles
    BY <1>10 DEF InstallKioskFiles, PutInPlace
<1>11. CASE Migrate
    BY <1>11 DEF Migrate, PutInPlace
<1>12. CASE InstallDumpcap
    BY <1>12 DEF InstallDumpcap
<1>13. CASE InstallEnv
    BY <1>13, OptionTypes DEF InstallEnv, Promotes
<1>14. CASE Password
    BY <1>14 DEF Password
<1>15. ASSUME NEW n \in Names, CopyPassword(n) PROVE Progressed'
    BY <1>15 DEF CopyPassword
<1>16. ASSUME NEW all \in BOOLEAN, Bootstrap(all) PROVE Progressed'
    BY <1>16 DEF Bootstrap
<1>17. ASSUME NEW ok \in BOOLEAN, UnlinkCopies(ok) PROVE Progressed'
    BY <1>17 DEF UnlinkCopies
<1>18. ASSUME NEW systemd \in BOOLEAN, NEW kiosk \in BOOLEAN, StartServices(systemd, kiosk) PROVE Progressed'
    BY <1>18 DEF StartServices
<1>19. CASE Finish
    BY <1>19 DEF Finish
<1>20. CASE RemoveInitialAdmin
    BY <1>20 DEF RemoveInitialAdmin
<1>21. CASE UNCHANGED instVars
    BY <1>21 DEF instVars
<1>. QED
    BY <1>1, <1>2, <1>3, <1>4, <1>5, <1>6, <1>7, <1>8, <1>9, <1>10, <1>11, <1>12, <1>13, <1>14, <1>15, <1>16, <1>17, <1>18, <1>19, <1>20, <1>21 DEF InstNext

\* No step replaces or removes the password of the first account.
LEMMA RecordedStep ==
    Typed /\ Recorded /\ [InstNext]_instVars => Recorded'
<1> SUFFICES ASSUME Typed /\ Recorded, [InstNext]_instVars PROVE Recorded'
    OBVIOUS
<1> USE DEF Recorded, Typed, InstTypeOK, Following, After, Advance, At, Names, OwnPassword, Given, FirstAccounts
<1>1. ASSUME NEW o \in Options, Install(o) PROVE Recorded'
    BY <1>1 DEF Install
<1>2. CASE InstallFails
    BY <1>2 DEF InstallFails
<1>3. CASE InstallPackages
    BY <1>3 DEF InstallPackages, PutInPlace
<1>4. CASE InstallAccount
    BY <1>4 DEF InstallAccount, PutInPlace
<1>5. CASE InstallDirectories
    BY <1>5 DEF InstallDirectories, PutInPlace
<1>6. CASE InstallNetctl
    BY <1>6 DEF InstallNetctl, PutInPlace
<1>7. CASE InstallProxyExamples
    BY <1>7 DEF InstallProxyExamples, PutInPlace
<1>8. CASE InstallVenv
    BY <1>8 DEF InstallVenv, PutInPlace
<1>9. CASE InstallUnits
    BY <1>9 DEF InstallUnits, PutInPlace
<1>10. CASE InstallKioskFiles
    BY <1>10 DEF InstallKioskFiles, PutInPlace
<1>11. CASE Migrate
    BY <1>11 DEF Migrate, PutInPlace
<1>12. CASE InstallDumpcap
    BY <1>12 DEF InstallDumpcap
<1>13. CASE InstallEnv
    BY <1>13 DEF InstallEnv
<1>14. CASE Password
    BY <1>14 DEF Password
<1>15. ASSUME NEW n \in Names, CopyPassword(n) PROVE Recorded'
    BY <1>15 DEF CopyPassword
<1>16. ASSUME NEW all \in BOOLEAN, Bootstrap(all) PROVE Recorded'
    BY <1>16 DEF Bootstrap
<1>17. ASSUME NEW ok \in BOOLEAN, UnlinkCopies(ok) PROVE Recorded'
  <2>1. CASE removed \/ (options.consume /\ ~options.auditorFile)
    <3>1. removed' = TRUE
        BY <2>1, <1>17, Zenon DEF UnlinkCopies
    <3>. QED
        BY <3>1
  <2>2. CASE ~(removed \/ (options.consume /\ ~options.auditorFile))
    <3>1. initialAdmin' = initialAdmin /\ accounts' = accounts /\ removed = FALSE
        BY <2>2, <1>17 DEF UnlinkCopies
    <3>2. copies'["auditor"] = 0
        BY <1>17 DEF UnlinkCopies
    <3>. QED
        BY <3>1, <3>2
  <2>. QED
      BY <2>1, <2>2
<1>18. ASSUME NEW systemd \in BOOLEAN, NEW kiosk \in BOOLEAN, StartServices(systemd, kiosk) PROVE Recorded'
    BY <1>18 DEF StartServices
<1>19. CASE Finish
    BY <1>19 DEF Finish
<1>20. CASE RemoveInitialAdmin
    BY <1>20 DEF RemoveInitialAdmin
<1>21. CASE UNCHANGED instVars
    BY <1>21 DEF instVars
<1>. QED
    BY <1>1, <1>2, <1>3, <1>4, <1>5, <1>6, <1>7, <1>8, <1>9, <1>10, <1>11, <1>12, <1>13, <1>14, <1>15, <1>16, <1>17, <1>18, <1>19, <1>20, <1>21 DEF InstNext

-----------------------------------------------------------------------------
(***************************************************************************)
(* The installer keeps the types of InstTypeOK.                            *)
(***************************************************************************)
THEOREM InstallerTypeCorrect == InstSpec => []InstTypeOK
<1>2. Typed => InstTypeOK
    BY DEF Typed
<1>. QED
    BY <1>2, TypedInit, TypedStep, PTL DEF InstSpec

(***************************************************************************)
(* Services are started on a complete installation only.                   *)
(***************************************************************************)
THEOREM ServicesStartedComplete == InstSpec => []StartedComplete
<1>1. InstInit => Progressed
    BY DEF InstInit, Progressed, AfterAccount, AfterDirectories, AfterEnv, AfterVenv, AfterUnits, AfterMigrate
<1>2. Progressed => StartedComplete
    BY DEF Progressed, Complete, StartedComplete
<1>. QED
    BY <1>1, <1>2, TypedInit, TypedStep, ProgressedStep, PTL DEF InstSpec

(***************************************************************************)
(* The generated password of the first account stays in initial-admin.txt  *)
(* until it is removed on request.                                         *)
(***************************************************************************)
THEOREM FirstPasswordIsKept == InstSpec => []FirstPasswordKept
<1>1. InstInit => Recorded
    BY DEF InstInit, Names, Recorded, OwnPassword
<1>2. Recorded => FirstPasswordKept
    BY DEF Recorded, FirstPasswordKept
<1>. QED
    BY <1>1, <1>2, TypedInit, TypedStep, RecordedStep, PTL DEF InstSpec
-----------------------------------------------------------------------------
(***************************************************************************)
(* Sessions.  A session that is behind its account's password was stored   *)
(* by a login that was under way when the password changed; each such      *)
(* login leaves at most one, and the thread that changed the password was  *)
(* not logging in.                                                         *)
(***************************************************************************)
OpenSession == [user : Users, opened : Nat, expired : BOOLEAN]
ThreadState ==
    {Free} \cup [step : {"login"}, user : Users, version : Nat]
           \cup [step : {"verify", "set", "clear"}, user : Users, token : Tokens]

AuthTyped ==
    /\ AuthTypeOK
    /\ version \in [Users -> Nat]
    /\ thread \in [Threads -> ThreadState]

StaleSessions(u) ==
    {k \in Tokens : sessions[k].user = u /\ sessions[k].opened < version[u]}
StaleLogins(u) ==
    {t \in Threads : /\ Doing(t, "login")
                     /\ thread[t].user = u /\ thread[t].version < version[u]}

FewStale(u) ==
    Cardinality(StaleSessions(u)) + Cardinality(StaleLogins(u))
        <= Cardinality(Threads) - 1

\* What the state of a thread holds.
LEMMA ThreadShape ==
    ASSUME AuthTyped, NEW t \in Threads
    PROVE  /\ Doing(t, "login") =>
                thread[t] \in [step : {"login"}, user : Users, version : Nat]
           /\ (Doing(t, "verify") \/ Doing(t, "set") \/ Doing(t, "clear")) =>
                thread[t] \in [step : {"verify", "set", "clear"}, user : Users,
                               token : Tokens]
BY DEF AuthTyped, ThreadState, Free, Doing

\* A token whose row names a user holds an open session.
LEMMA SessionShape ==
    ASSUME AuthTyped, NEW k \in Tokens, sessions[k].user # NoUser
    PROVE  sessions[k] \in OpenSession
BY DEF AuthTyped, AuthTypeOK, Session, OpenSession, NoSession, Spent

\* Every request keeps the tables and the threads well typed.
LEMMA AuthTypeStep ==
    ASSUME AuthTyped, [AuthNext]_authVars
    PROVE  AuthTyped'
<1> USE DEF AuthTyped
<1>1. ASSUME NEW t \in Threads, NEW u \in Users, NEW p \in Passwords,
             Authenticate(t, u, p)
      PROVE  AuthTyped'
  BY <1>1 DEF Authenticate, Spawn, AuthTypeOK, ThreadState
<1>2. ASSUME NEW t \in Threads, NEW k \in Tokens, CreateSession(t, k)
      PROVE  AuthTyped'
  <2>1. thread[t].user \in Users /\ thread[t].version \in Nat
    BY <1>2, ThreadShape DEF CreateSession
  <2>2. thread' \in [Threads -> ThreadState]
    BY <1>2 DEF CreateSession, End, ThreadState
  <2>3. sessions' \in [Tokens -> Session]
    BY <1>2, <2>1 DEF CreateSession, AuthTypeOK, Session
  <2> QED
    BY <1>2, <2>2, <2>3 DEF CreateSession, AuthTypeOK
<1>3. ASSUME NEW t \in Threads, NEW k \in Tokens, BeginChange(t, k)
      PROVE  AuthTyped'
  <2>1. sessions[k].user \in Users
    BY <1>3, SessionShape DEF BeginChange, IsOpen, OpenSession
  <2> QED
    BY <1>3, <2>1 DEF BeginChange, Spawn, AuthTypeOK, ThreadState
<1>4. ASSUME NEW k \in Tokens, Guard(k) \/ Logout(k) PROVE AuthTyped'
  BY <1>4 DEF Guard, Logout, AuthTypeOK, Session
<1>5. ASSUME NEW k \in Tokens, Expire(k) PROVE AuthTyped'
  <2>1. sessions[k] \in OpenSession
    BY <1>5, SessionShape DEF Expire, IsOpen
  <2>2. [sessions[k] EXCEPT !.expired = TRUE] \in Session
    BY <2>1 DEF OpenSession, Session
  <2> QED
    BY <1>5, <2>2 DEF Expire, AuthTypeOK
<1>6. ASSUME NEW t \in Threads, NEW p \in Passwords, Verify(t, p)
      PROVE  AuthTyped'
  <2>1. thread[t] \in [step : {"verify", "set", "clear"}, user : Users,
                       token : Tokens]
    BY <1>6, ThreadShape DEF Verify
  <2>2. [thread[t] EXCEPT !.step = "set"] \in ThreadState
    BY <2>1 DEF ThreadState
  <2>3. thread' \in [Threads -> ThreadState]
    BY <1>6, <2>2 DEF Verify, Spawn, End, ThreadState
  <2>4. failures' \in [Users -> Nat]
    BY <1>6, <2>1 DEF Verify, AuthTypeOK
  <2> QED
    BY <1>6, <2>3, <2>4 DEF Verify, AuthTypeOK
<1>7. ASSUME NEW t \in Threads, NEW p \in Passwords, SetPassword(t, p)
      PROVE  AuthTyped'
  <2>1. thread[t] \in [step : {"verify", "set", "clear"}, user : Users,
                       token : Tokens]
    BY <1>7, ThreadShape DEF SetPassword
  <2>2. [thread[t] EXCEPT !.step = "clear"] \in ThreadState
    BY <2>1 DEF ThreadState
  <2>3. /\ thread' \in [Threads -> ThreadState]
        /\ password' \in [Users -> Passwords]
        /\ version' \in [Users -> Nat]
    BY <1>7, <2>1, <2>2 DEF SetPassword, Spawn, AuthTypeOK
  <2>4. sessions' \in [Tokens -> Session]
    <3> DEFINE u == thread[t].user
    <3>1. sessions' = [k \in Tokens |->
               IF sessions[k].user # u THEN sessions[k]
               ELSE IF k = thread[t].token
                      THEN [sessions[k] EXCEPT !.opened = version'[u]]
               ELSE Spent]
      BY <1>7 DEF SetPassword
    <3>2. u \in Users /\ version'[u] \in Nat
      BY <2>1, <2>3
    <3>3. ASSUME NEW k \in Tokens, sessions[k].user = u
          PROVE  [sessions[k] EXCEPT !.opened = version'[u]] \in Session
      <4>1. sessions[k] \in OpenSession
        BY <3>2, <3>3, SessionShape, AuthAssumption
      <4> QED
        BY <3>2, <4>1 DEF OpenSession, Session
    <3>4. Spent \in Session /\ \A k \in Tokens : sessions[k] \in Session
      BY DEF Session, AuthTypeOK
    <3> QED
      BY <3>1, <3>3, <3>4
  <2> QED
    BY <1>7, <2>3, <2>4 DEF SetPassword, AuthTypeOK
<1>8. ASSUME NEW t \in Threads, ClearFailures(t) PROVE AuthTyped'
  BY <1>8, ThreadShape DEF ClearFailures, End, AuthTypeOK, ThreadState
<1>9. ASSUME NEW u \in Users, ForgetFailures(u) PROVE AuthTyped'
  BY <1>9 DEF ForgetFailures, AuthTypeOK
<1>10. ASSUME Restart PROVE AuthTyped'
  BY <1>10 DEF Restart, AuthTypeOK, ThreadState
<1>11. CASE UNCHANGED authVars
  BY <1>11 DEF authVars, AuthTypeOK
<1> QED
  BY <1>1, <1>2, <1>3, <1>4, <1>5, <1>6, <1>7, <1>8, <1>9, <1>10, <1>11
     DEF AuthNext

\* The sets that are counted are finite.
LEMMA StaleFinite ==
    ASSUME NEW u
    PROVE  /\ IsFiniteSet(StaleSessions(u)) /\ Cardinality(StaleSessions(u)) \in Nat
           /\ IsFiniteSet(StaleLogins(u)) /\ Cardinality(StaleLogins(u)) \in Nat
           /\ IsFiniteSet(StaleSessions(u)') /\ Cardinality(StaleSessions(u)') \in Nat
           /\ IsFiniteSet(StaleLogins(u)') /\ Cardinality(StaleLogins(u)') \in Nat
           /\ Cardinality(Threads) \in Nat
<1>1. /\ StaleSessions(u) \subseteq Tokens /\ StaleLogins(u) \subseteq Threads
      /\ StaleSessions(u)' \subseteq Tokens /\ StaleLogins(u)' \subseteq Threads
  BY DEF StaleSessions, StaleLogins
<1> QED
  BY <1>1, AuthAssumption, FS_Subset, FS_CardinalityType

\* Fewer stale sessions and logins are few as well.
LEMMA FewerStale ==
    ASSUME NEW u, FewStale(u), StaleSessions(u)' \subseteq StaleSessions(u),
           StaleLogins(u)' \subseteq StaleLogins(u)
    PROVE  FewStale(u)'
<1>1. /\ Cardinality(StaleSessions(u)') <= Cardinality(StaleSessions(u))
      /\ Cardinality(StaleLogins(u)') <= Cardinality(StaleLogins(u))
  BY StaleFinite, FS_Subset
<1> QED
  BY <1>1, StaleFinite DEF FewStale

\* No request adds to the stale sessions and logins of an account, except the
\* change of its password, which starts their count anew.
LEMMA FewStaleStep ==
    ASSUME AuthTyped, [AuthNext]_authVars, NEW u \in Users, FewStale(u)
    PROVE  FewStale(u)'
<1> USE DEF AuthTyped
<1>1. ASSUME NEW t \in Threads, NEW v \in Users, NEW p \in Passwords,
             Authenticate(t, v, p)
      PROVE  FewStale(u)'
  <2>1. StaleSessions(u)' = StaleSessions(u)
    BY <1>1 DEF Authenticate, StaleSessions
  <2>2. StaleLogins(u)' \subseteq StaleLogins(u)
    BY <1>1 DEF Authenticate, Spawn, StaleLogins, Doing
  <2> QED
    BY <2>1, <2>2, FewerStale
<1>2. ASSUME NEW t \in Threads, NEW k \in Tokens, CreateSession(t, k)
      PROVE  FewStale(u)'
  <2>1. /\ sessions' = [sessions EXCEPT ![k] =
              [user |-> thread[t].user, opened |-> thread[t].version, expired |-> FALSE]]
        /\ thread' = [thread EXCEPT ![t] = Free] /\ version' = version
        /\ Doing(t, "login") /\ sessions[k] = NoSession
    BY <1>2 DEF CreateSession, End
  <2>2. StaleLogins(u)' = StaleLogins(u) \ {t}
    BY <2>1 DEF StaleLogins, Doing, Free
  <2>3. CASE t \in StaleLogins(u)
    <3>1. StaleSessions(u)' \subseteq StaleSessions(u) \cup {k}
      BY <2>1 DEF StaleSessions, AuthTypeOK
    <3>2. /\ IsFiniteSet(StaleSessions(u) \cup {k})
          /\ Cardinality(StaleSessions(u) \cup {k}) \in Nat
          /\ Cardinality(StaleSessions(u) \cup {k}) <= Cardinality(StaleSessions(u)) + 1
      <4> DEFINE S == StaleSessions(u)
      <4>1. IsFiniteSet(S) /\ Cardinality(S) \in Nat
        BY StaleFinite
      <4> HIDE DEF S
      <4>2. IsFiniteSet(S \cup {k})
        BY <4>1, FS_AddElement
      <4>3. Cardinality(S \cup {k}) \in {Cardinality(S), Cardinality(S) + 1}
        BY <4>1, FS_AddElement
      <4> QED
        BY <4>1, <4>2, <4>3 DEF S
    <3>3. Cardinality(StaleSessions(u)') <= Cardinality(StaleSessions(u)) + 1
      BY <3>1, <3>2, StaleFinite, FS_Subset
    <3>4. Cardinality(StaleLogins(u)') = Cardinality(StaleLogins(u)) - 1
      BY <2>2, <2>3, StaleFinite, FS_RemoveElement
    <3> QED
      BY <3>3, <3>4, StaleFinite DEF FewStale
  <2>4. CASE t \notin StaleLogins(u)
    <3>1. ~(thread[t].user = u /\ thread[t].version < version[u])
      BY <2>1, <2>4 DEF StaleLogins
    <3>2. StaleSessions(u)' \subseteq StaleSessions(u)
      BY <2>1, <3>1 DEF StaleSessions, AuthTypeOK
    <3> QED
      BY <2>2, <3>2, FewerStale
  <2> QED
    BY <2>3, <2>4
<1>3. ASSUME NEW t \in Threads, NEW k \in Tokens, BeginChange(t, k)
      PROVE  FewStale(u)'
  <2>1. StaleSessions(u)' = StaleSessions(u)
    BY <1>3 DEF BeginChange, StaleSessions
  <2>2. StaleLogins(u)' \subseteq StaleLogins(u)
    BY <1>3 DEF BeginChange, Spawn, StaleLogins, Doing
  <2> QED
    BY <2>1, <2>2, FewerStale
<1>4. ASSUME NEW k \in Tokens, Guard(k) \/ Logout(k) PROVE FewStale(u)'
  <2>1. StaleLogins(u)' = StaleLogins(u)
    BY <1>4 DEF Guard, Logout, StaleLogins, Doing
  <2>2. StaleSessions(u)' \subseteq StaleSessions(u)
    BY <1>4, AuthAssumption DEF Guard, Logout, StaleSessions, AuthTypeOK, Spent
  <2> QED
    BY <2>1, <2>2, FewerStale
<1>5. ASSUME NEW k \in Tokens, Expire(k) PROVE FewStale(u)'
  <2>1. StaleLogins(u)' = StaleLogins(u)
    BY <1>5 DEF Expire, StaleLogins, Doing
  <2>2. sessions[k] \in OpenSession
    BY <1>5, SessionShape DEF Expire, IsOpen
  <2>3. /\ [sessions[k] EXCEPT !.expired = TRUE].user = sessions[k].user
        /\ [sessions[k] EXCEPT !.expired = TRUE].opened = sessions[k].opened
    BY <2>2 DEF OpenSession
  <2>4. StaleSessions(u)' \subseteq StaleSessions(u)
    BY <1>5, <2>3 DEF Expire, StaleSessions, AuthTypeOK
  <2> QED
    BY <2>1, <2>4, FewerStale
<1>6. ASSUME NEW t \in Threads, NEW p \in Passwords, Verify(t, p)
      PROVE  FewStale(u)'
  <2>1. StaleSessions(u)' = StaleSessions(u)
    BY <1>6 DEF Verify, StaleSessions
  <2>2. thread[t] \in [step : {"verify", "set", "clear"}, user : Users,
                       token : Tokens]
    BY <1>6, ThreadShape DEF Verify
  <2>3. /\ \A r \in Threads : r # t => thread'[r] = thread[r]
        /\ thread'[t].step # "login"
    BY <1>6, <2>2 DEF Verify, Spawn, End, Free
  <2>4. StaleLogins(u)' \subseteq StaleLogins(u)
    BY <1>6, <2>3 DEF Verify, StaleLogins, Doing
  <2> QED
    BY <2>1, <2>4, FewerStale
<1>7. ASSUME NEW t \in Threads, NEW p \in Passwords, SetPassword(t, p)
      PROVE  FewStale(u)'
  <2> DEFINE v == thread[t].user
  <2>1. thread[t] \in [step : {"verify", "set", "clear"}, user : Users,
                       token : Tokens]
    BY <1>7, ThreadShape DEF SetPassword
  <2>2. /\ \A r \in Threads : r # t => thread'[r] = thread[r]
        /\ thread'[t].step = "clear"
    BY <1>7, <2>1 DEF SetPassword, Spawn
  <2>3. /\ version' = [version EXCEPT ![v] = @ + 1]
        /\ sessions' = [k \in Tokens |->
               IF sessions[k].user # v THEN sessions[k]
               ELSE IF k = thread[t].token
                      THEN [sessions[k] EXCEPT !.opened = version'[v]]
               ELSE Spent]
    BY <1>7 DEF SetPassword
  <2>4. CASE u # v
    <3>1. StaleSessions(u)' \subseteq StaleSessions(u)
      <4> SUFFICES ASSUME NEW k \in Tokens, sessions'[k].user = u,
                          sessions'[k].opened < version'[u]
                   PROVE  k \in StaleSessions(u)
        BY DEF StaleSessions
      <4>1. version'[u] = version[u]
        BY <2>1, <2>3, <2>4
      <4>2. CASE sessions[k].user # v
        BY <2>3, <4>1, <4>2 DEF StaleSessions
      <4>3. CASE sessions[k].user = v
        <5>1. sessions[k] \in OpenSession
          BY <2>1, <4>3, SessionShape, AuthAssumption
        <5>2. [sessions[k] EXCEPT !.opened = version'[v]].user = v
          BY <4>3, <5>1 DEF OpenSession
        <5>3. Spent.user # u
          BY AuthAssumption DEF Spent
        <5> QED
          BY <2>3, <2>4, <4>3, <5>2, <5>3
      <4> QED
        BY <4>2, <4>3
    <3>2. StaleLogins(u)' \subseteq StaleLogins(u)
      BY <2>1, <2>2, <2>3, <2>4 DEF StaleLogins, Doing
    <3> QED
      BY <3>1, <3>2, FewerStale
  <2>5. CASE u = v
    <3>1. StaleSessions(u)' = {}
      <4> SUFFICES ASSUME NEW k \in Tokens, sessions'[k].user = u,
                          sessions'[k].opened < version'[u]
                   PROVE  FALSE
        BY DEF StaleSessions
      <4>1. sessions[k].user = v /\ k = thread[t].token
        BY <2>3, <2>5, AuthAssumption DEF Spent
      <4>2. sessions[k] \in OpenSession
        BY <4>1, SessionShape, AuthAssumption, <2>5
      <4>3. sessions'[k].opened = version'[u]
        BY <2>3, <2>5, <4>1, <4>2 DEF OpenSession
      <4>4. version'[u] \in Nat
        BY <2>3, <2>5
      <4> QED
        BY <4>3, <4>4
    <3>2. StaleLogins(u)' \subseteq Threads \ {t}
      BY <2>2 DEF StaleLogins, Doing
    <3>3. /\ IsFiniteSet(Threads \ {t})
          /\ Cardinality(Threads \ {t}) = Cardinality(Threads) - 1
      BY AuthAssumption, FS_RemoveElement
    <3>4. Cardinality(StaleLogins(u)') <= Cardinality(Threads) - 1
      BY <3>2, <3>3, FS_Subset
    <3>5. Cardinality(StaleSessions(u)') = 0
      BY <3>1, FS_EmptySet
    <3> QED
      BY <3>4, <3>5, StaleFinite DEF FewStale
  <2> QED
    BY <2>4, <2>5
<1>8. ASSUME NEW t \in Threads, ClearFailures(t) PROVE FewStale(u)'
  <2>1. StaleSessions(u)' = StaleSessions(u)
    BY <1>8 DEF ClearFailures, StaleSessions
  <2>2. StaleLogins(u)' \subseteq StaleLogins(u)
    BY <1>8 DEF ClearFailures, End, StaleLogins, Doing, Free
  <2> QED
    BY <2>1, <2>2, FewerStale
<1>9. ASSUME Restart PROVE FewStale(u)'
  <2>1. StaleSessions(u)' = StaleSessions(u) /\ StaleLogins(u)' \subseteq StaleLogins(u)
    BY <1>9 DEF Restart, StaleSessions, StaleLogins, Doing, Free
  <2> QED
    BY <2>1, FewerStale
<1>10. ASSUME UNCHANGED authVars \/ \E v \in Users : ForgetFailures(v)
       PROVE  FewStale(u)'
  <2>1. StaleSessions(u)' = StaleSessions(u) /\ StaleLogins(u)' = StaleLogins(u)
    BY <1>10 DEF authVars, ForgetFailures, StaleSessions, StaleLogins, Doing
  <2> QED
    BY <2>1, FewerStale
<1> QED
  BY <1>1, <1>2, <1>3, <1>4, <1>5, <1>6, <1>7, <1>8, <1>9, <1>10 DEF AuthNext

\* At the start there is no session and no request.
LEMMA FewStaleInit ==
    ASSUME AuthInit, NEW u \in Users
    PROVE  FewStale(u)
<1>1. StaleSessions(u) = {} /\ StaleLogins(u) = {}
  BY AuthAssumption
     DEF AuthInit, StaleSessions, StaleLogins, NoSession, Doing, Free
<1>2. Cardinality(StaleSessions(u)) = 0 /\ Cardinality(StaleLogins(u)) = 0
  BY <1>1, FS_EmptySet
<1>3. Cardinality(Threads) # 0
  BY AuthAssumption, FS_EmptySet
<1> QED
  BY <1>2, <1>3, StaleFinite DEF FewStale

\* Accounts, sessions and requests stay within their types.
THEOREM SessionsTyped == AuthSpec => []AuthTyped
<1>1. AuthInit => AuthTyped
  BY DEF AuthInit, AuthTyped, AuthTypeOK, Session, ThreadState
<1>2. AuthTyped /\ [AuthNext]_authVars => AuthTyped'
  BY AuthTypeStep
<1> QED
  BY <1>1, <1>2, PTL DEF AuthSpec

\* A change of password ends the sessions opened with the old one, for any
\* number of accounts, tokens and threads: at most one session per other
\* request under way can be behind.
THEOREM SessionsAreRevoked == AuthSpec => []SessionsRevoked
<1> DEFINE Few == \A u \in Users : FewStale(u)
<1>1. AuthInit => Few
  BY FewStaleInit
<1>2. AuthTyped /\ Few /\ [AuthNext]_authVars => Few'
  BY FewStaleStep
<1>3. Few => SessionsRevoked
  <2> SUFFICES ASSUME NEW u \in Users, FewStale(u)
               PROVE  Cardinality(StaleSessions(u)) <= Cardinality(Threads) - 1
    BY DEF SessionsRevoked, StaleSessions
  <2> QED
    BY StaleFinite DEF FewStale
<1> QED
  BY <1>1, <1>2, <1>3, SessionsTyped, PTL DEF AuthSpec
-----------------------------------------------------------------------------
(***************************************************************************)
(* The network helper.                                                     *)
(***************************************************************************)
Configuration == [method : Methods \cup {"unmanaged"}, default : BOOLEAN]
Request ==
    [step : {"helper", "write", "up", "clean", "roles", "save"}, change : Changes,
     fresh : BOOLEAN, alone : BOOLEAN, read : [Nics -> Roles \cup {"none"}]]

NetTyped == NetTypeOK /\ persistent \in [Nics -> Configuration]

\* What a change holds.
LEMMA ChangeShape ==
    ASSUME NEW x \in Changes
    PROVE  /\ x.nic \in Nics /\ x.role \in Roles /\ x.method \in Methods
           /\ x.gateway \in BOOLEAN /\ x.confirm \in BOOLEAN
BY ChangesAssumption DEF Change

\* A caller that is not idle has a request.
LEMMA CallerShape ==
    ASSUME NetTyped, NEW c \in Callers
    PROVE  /\ caller[c].step # "idle" => caller[c] \in Request
           /\ caller[c].step = "idle" <=> caller[c] = Idle
           /\ caller[c] \in Request \cup {Idle}
BY DEF NetTyped, NetTypeOK, Caller, Idle, Request

\* What is written for a change is a configuration.
LEMMA ConfigType ==
    ASSUME NEW x \in Changes
    PROVE  /\ Config(x) \in Configuration
           /\ Config(x).method = x.method
           /\ Config(x).default = BringsDefault(x)
<1>1. BringsDefault(x) \in BOOLEAN
  BY DEF BringsDefault
<1>2. x.method \in Methods
  BY ChangeShape
<1> QED
  BY <1>1, <1>2 DEF Config, Configuration

\* The configuration of a capture interface brings no default route with it,
\* except a lease of ifupdown.
LEMMA CaptureNoDefault ==
    ASSUME NEW x \in Changes, x.role = "capture",
           ~(manager = "ifupdown" /\ x.method = "dhcp")
    PROVE  ~BringsDefault(x)
BY DEF BringsDefault

\* What the network manager does to the interface it brings up, and to others.
LEMMA UpEffect ==
    ASSUME NetTyped, NEW n \in Nics, NEW config \in Configuration,
           NEW answered \in BOOLEAN, Up(n, config, answered)
    PROVE  /\ addressing' \in [Nics -> {"dhcp", "static", "none"}]
           /\ defaults' \subseteq Nics
           /\ \A m \in Nics \ {n} : /\ addressing'[m] = addressing[m]
                                    /\ m \in defaults' <=> m \in defaults
           /\ config.method = "none" => addressing'[n] = "none"
           /\ config.method = "static" => addressing'[n] = "static"
           /\ ~config.default => n \notin defaults'
<1>1. addressing' \in [Nics -> {"dhcp", "static", "none"}]
  BY DEF Up, NetTyped, NetTypeOK
<1>2. defaults' \subseteq Nics
  BY DEF Up, NetTyped, NetTypeOK
<1>3. \A m \in Nics \ {n} : /\ addressing'[m] = addressing[m]
                            /\ m \in defaults' <=> m \in defaults
  BY DEF Up, NetTyped, NetTypeOK
<1>4. /\ config.method = "none" => addressing'[n] = "none"
      /\ config.method = "static" => addressing'[n] = "static"
  BY DEF Up, NetTyped, NetTypeOK
<1>5. ~config.default => n \notin defaults'
  BY DEF Up
<1> QED
  BY <1>1, <1>2, <1>3, <1>4, <1>5

\* The state of a caller whose check has become out of date.
LEMMA OutdatedShape ==
    ASSUME NetTyped, NEW c, NEW d \in Callers
    PROVE  /\ Outdated(c, d) \in Caller
           /\ Outdated(c, d).step = caller[d].step
           /\ caller[d] # Idle =>
                /\ Outdated(c, d).change = caller[d].change
                /\ Outdated(c, d).read = caller[d].read
                /\ Outdated(c, d).alone = caller[d].alone
                /\ Outdated(c, d).fresh => caller[d].fresh
                /\ d # c /\ addressing' # addressing => ~Outdated(c, d).fresh
           /\ caller[d] = Idle => Outdated(c, d) = Idle
<1>1. CASE caller[d] = Idle
  BY <1>1 DEF Outdated, NetTyped, NetTypeOK
<1>2. CASE caller[d] # Idle
  <2>1. caller[d] \in Request
    BY <1>2, CallerShape
  <2>2. Request \subseteq Caller
    BY DEF Request, Caller
  <2> DEFINE r == [caller[d] EXCEPT !.fresh = FALSE]
  <2>3. /\ r \in Request /\ r.step = caller[d].step /\ r.change = caller[d].change
        /\ r.read = caller[d].read /\ r.alone = caller[d].alone /\ ~r.fresh
    BY <2>1 DEF Request
  <2>4. Outdated(c, d) = IF d # c /\ addressing' # addressing THEN r ELSE caller[d]
    BY <1>2 DEF Outdated
  <2> HIDE DEF r
  <2> QED
    BY <1>2, <2>1, <2>2, <2>3, <2>4
<1> QED
  BY <1>1, <1>2

\* The commands that bring an interface up, whichever manager runs them.
BringUp(c, config, answered) ==
    /\ caller[c].step = "up"
    /\ config = persistent[caller[c].change.nic] \/ config = Config(caller[c].change)
    /\ manager = "ip" => config = Config(caller[c].change)
    /\ Up(caller[c].change.nic, config, answered)
    /\ BroughtUp(c)

\* Each of the four is one of them.
LEMMA BringUps ==
    ASSUME NEW c \in Callers, NEW answered \in BOOLEAN,
           \/ NmcliUp(c, answered) \/ Ifup(c, answered)
           \/ NetworkctlUp(c, answered) \/ ApplyIpLive(c, answered)
    PROVE  \E config : BringUp(c, config, answered)
BY DEF NmcliUp, Ifup, NetworkctlUp, ApplyIpLive, BringUp

\* A request that goes to another step stays a request.
LEMMA GotoShape ==
    ASSUME NetTyped, NEW c \in Callers, caller[c] \in Request,
           NEW s \in {"write", "up", "clean", "roles", "save"}
    PROVE  LET r == [caller[c] EXCEPT !.step = s]
           IN  /\ r \in Request /\ r.step = s /\ r.change = caller[c].change
               /\ r.read = caller[c].read /\ r.alone = caller[c].alone
               /\ r.fresh = caller[c].fresh
BY DEF Request

\* Every step of a request, every lease and every restart keeps the types.
LEMMA NetTypeStep ==
    ASSUME NetTyped, [NetNext]_netVars
    PROVE  NetTyped'
<1> USE DEF NetTyped
<1>0. Request \subseteq Caller /\ Idle \in Caller
  BY DEF Request, Caller
<1>1. ASSUME NEW c \in Callers, NEW x \in Changes, AskChange(c, x)
      PROVE  NetTyped'
  <2>1. [step |-> "helper", change |-> x, fresh |-> TRUE, alone |-> TRUE,
         read |-> [n \in Nics |-> "none"]] \in Request
    BY DEF Request
  <2>2. caller' \in [Callers -> Caller]
    BY <1>0, <1>1, <2>1 DEF AskChange, NetTypeOK
  <2> QED
    BY <1>1, <2>2 DEF AskChange, hostVars, NetTypeOK
<1>2. ASSUME NEW c \in Callers, HelperCheck(c) PROVE NetTyped'
  <2>1. caller[c] \in Request
    BY <1>2, CallerShape DEF HelperCheck
  <2> DEFINE quiet == \A e \in Callers \ {c} : ~Busy(e)
  <2>2. quiet \in BOOLEAN
    OBVIOUS
  <2> HIDE DEF quiet
  <2>3. [caller[c] EXCEPT !.step = "write", !.fresh = TRUE, !.alone = quiet] \in Request
    BY <2>1, <2>2 DEF Request
  <2>4. ASSUME NEW d \in Callers, Busy(d)
        PROVE  [caller[d] EXCEPT !.alone = FALSE] \in Request
    <3>1. caller[d] \in Request
      BY <2>4, CallerShape DEF Busy
    <3> QED
      BY <3>1 DEF Request
  <2>5. \A d \in Callers : caller[d] \in Caller
    BY DEF NetTypeOK
  <2>6. caller' \in [Callers -> Caller]
    BY <1>0, <1>2, <2>3, <2>4, <2>5 DEF HelperCheck, quiet, NetTypeOK
  <2> QED
    BY <1>2, <2>6 DEF HelperCheck, hostVars, NetTypeOK
<1>3. ASSUME NEW c \in Callers, WriteConfig(c) PROVE NetTyped'
  <2>1. caller[c] \in Request /\ caller[c].change \in Changes
    BY <1>3, CallerShape DEF WriteConfig, Request
  <2>2. caller[c].change.nic \in Nics /\ Config(caller[c].change) \in Configuration
    BY <2>1, ChangeShape, ConfigType
  <2>3. caller' \in [Callers -> Caller]
    BY <1>0, <1>3, <2>1, GotoShape DEF WriteConfig, NetTypeOK
  <2>4. /\ persistent' \in [Nics -> Configuration]
        /\ lasting' \in [Nics -> Changes \cup {NoChange}]
    BY <1>3, <2>2 DEF WriteConfig, NetTypeOK
  <2> QED
    BY <1>3, <2>3, <2>4 DEF WriteConfig, NetTypeOK
<1>4. ASSUME NEW c \in Callers, UnnoticedFailure(c) PROVE NetTyped'
  <2>1. caller[c] \in Request
    BY <1>4, CallerShape DEF UnnoticedFailure
  <2>2. [caller[c] EXCEPT !.step = "clean", !.alone = FALSE] \in Request
    BY <2>1 DEF Request
  <2>3. caller' = [caller EXCEPT ![c] = [caller[c] EXCEPT !.step = "clean", !.alone = FALSE]]
    BY <1>4 DEF UnnoticedFailure, NetTypeOK
  <2>4. caller' \in [Callers -> Caller]
    BY <1>0, <2>2, <2>3 DEF NetTypeOK
  <2> QED
    BY <1>4, <2>4 DEF UnnoticedFailure, hostVars, NetTypeOK
<1>5. ASSUME NEW c \in Callers, caller[c] \in Request,
             NEW s \in {"write", "up", "clean", "roles", "save"}, Goto(c, s)
      PROVE  caller' \in [Callers -> Caller]
  BY <1>0, <1>5, GotoShape, OutdatedShape DEF Goto
<1>6. ASSUME NEW c \in Callers, NEW config, NEW answered \in BOOLEAN,
             BringUp(c, config, answered)
      PROVE  NetTyped'
  <2>1. caller[c] \in Request /\ caller[c].change \in Changes
    BY <1>6, CallerShape DEF BringUp, Request
  <2>2. caller[c].change.nic \in Nics /\ Config(caller[c].change) \in Configuration
    BY <2>1, ChangeShape, ConfigType
  <2>3. config \in Configuration
    BY <1>6, <2>2 DEF BringUp
  <2>4. /\ addressing' \in [Nics -> {"dhcp", "static", "none"}]
        /\ defaults' \subseteq Nics
    BY <1>6, <2>2, <2>3, UpEffect DEF BringUp
  <2> QED
    BY <1>5, <1>6, <2>1, <2>4 DEF BringUp, BroughtUp, NetTypeOK
<1>7. ASSUME NEW c \in Callers, CommandFails(c) PROVE NetTyped'
  <2>1. caller' \in [Callers -> Caller]
    BY <1>0, <1>7, OutdatedShape DEF CommandFails
  <2>2. /\ addressing' \in [Nics -> {"dhcp", "static", "none"}]
        /\ defaults' \subseteq Nics
    BY <1>7 DEF CommandFails, NetTypeOK
  <2> QED
    BY <1>7, <2>1, <2>2 DEF CommandFails, NetTypeOK
<1>8. ASSUME NEW c \in Callers, Clean(c) PROVE NetTyped'
  <2>1. caller[c] \in Request
    BY <1>8, CallerShape DEF Clean
  <2>2. caller' \in [Callers -> Caller]
    BY <1>5, <1>8, <2>1 DEF Clean
  <2>3. /\ addressing' \in [Nics -> {"dhcp", "static", "none"}]
        /\ defaults' \subseteq Nics
    BY <1>8 DEF Clean, NetTypeOK
  <2> QED
    BY <1>8, <2>2, <2>3 DEF Clean, NetTypeOK
<1>9. ASSUME NEW c \in Callers, LoadRoles(c) PROVE NetTyped'
  <2>1. caller[c] \in Request
    BY <1>9, CallerShape DEF LoadRoles
  <2>2. [caller[c] EXCEPT !.step = "save", !.read = roles] \in Request
    BY <2>1 DEF Request, NetTypeOK
  <2>3. caller' = [caller EXCEPT ![c] = [caller[c] EXCEPT !.step = "save", !.read = roles]]
    BY <1>9 DEF LoadRoles, NetTypeOK
  <2>4. caller' \in [Callers -> Caller]
    BY <1>0, <2>2, <2>3 DEF NetTypeOK
  <2> QED
    BY <1>9, <2>4 DEF LoadRoles, hostVars, NetTypeOK
<1>10. ASSUME NEW c \in Callers, SaveRoles(c) PROVE NetTyped'
  <2>1. caller[c] \in Request /\ caller[c].change \in Changes
    BY <1>10, CallerShape DEF SaveRoles, Request
  <2>2. caller[c].change.nic \in Nics /\ caller[c].change.role \in Roles
    BY <2>1, ChangeShape
  <2>3. roles' \in [Nics -> Roles \cup {"none"}]
    BY <1>10, <2>1, <2>2 DEF SaveRoles, Request
  <2>4. lasting' \in [Nics -> Changes \cup {NoChange}]
    BY <1>10, <2>1, <2>2 DEF SaveRoles, NetTypeOK
  <2>5. caller' \in [Callers -> Caller]
    BY <1>0, <1>10 DEF SaveRoles, NetTypeOK
  <2> QED
    BY <1>10, <2>3, <2>4, <2>5 DEF SaveRoles, NetTypeOK
<1>11. ASSUME NEW n \in Nics, NEW answered \in BOOLEAN, Renew(n, answered)
       PROVE  NetTyped'
  <2>1. /\ addressing' \in [Nics -> {"dhcp", "static", "none"}]
        /\ defaults' \subseteq Nics
    BY <1>11, UpEffect DEF Renew
  <2>2. caller' \in [Callers -> Caller]
    BY <1>11, OutdatedShape DEF Renew
  <2> QED
    BY <1>11, <2>1, <2>2 DEF Renew, NetTypeOK
<1>12. ASSUME Reboot PROVE NetTyped'
  <2>1. addressing' \in [Nics -> {"dhcp", "static", "none"}]
    BY <1>12 DEF Reboot, Configuration, Methods
  <2>2. caller' \in [Callers -> Caller]
    BY <1>0, <1>12 DEF Reboot
  <2>3. lasting' \in [Nics -> Changes \cup {NoChange}]
    BY <1>12 DEF Reboot, NetTypeOK
  <2> QED
    BY <1>12, <2>1, <2>2, <2>3 DEF Reboot, NetTypeOK
<1>13. CASE UNCHANGED netVars
  BY <1>13 DEF netVars, NetTypeOK
<1> QED
  BY <1>1, <1>2, <1>3, <1>4, <1>6, <1>7, <1>8, <1>9, <1>10, <1>11, <1>12,
     <1>13, BringUps
     DEF NetNext, CallerStep

\* Interfaces, files, roles and requests stay within their types.
THEOREM NetworkTyped == NetSpec => []NetTyped
<1>1. NetInit => NetTyped
  <2> SUFFICES ASSUME NetInit PROVE NetTyped
    OBVIOUS
  <2>1. persistent \in [Nics -> Configuration]
    BY DEF NetInit, NoConfig, Configuration, Methods
  <2>2. NetTypeOK
    BY DEF NetInit, NetTypeOK, Caller
  <2> QED
    BY <2>1, <2>2 DEF NetTyped
<1>2. NetTyped /\ [NetNext]_netVars => NetTyped'
  BY NetTypeStep
<1> QED
  BY <1>1, <1>2, PTL DEF NetSpec
-----------------------------------------------------------------------------
\* What the step of another request, or of the host, leaves of a request.
Bystander(d) ==
    /\ caller'[d].step = caller[d].step
    /\ caller[d] # Idle =>
          /\ caller'[d].change = caller[d].change
          /\ caller'[d].read = caller[d].read
          /\ caller'[d].alone => caller[d].alone
          /\ caller'[d].fresh => caller[d].fresh /\ addressing' = addressing

\* A request is a bystander of the steps of every other request.
LEMMA Bystanders ==
    ASSUME NetTyped, NEW c \in Callers, CallerStep(c), NEW d \in Callers \ {c}
    PROVE  Bystander(d)
<1>1. ASSUME caller'[d] = caller[d], addressing' = addressing PROVE Bystander(d)
  BY <1>1 DEF Bystander
<1>2. ASSUME caller'[d] = Outdated(c, d) PROVE Bystander(d)
  BY <1>2, OutdatedShape DEF Bystander
<1>3. ASSUME NEW x \in Changes, AskChange(c, x) PROVE Bystander(d)
  BY <1>1, <1>3 DEF AskChange, hostVars, NetTyped, NetTypeOK
<1>4. ASSUME HelperCheck(c) PROVE Bystander(d)
  <2>1. addressing' = addressing
    BY <1>4 DEF HelperCheck, hostVars
  <2>2. CASE caller'[d] = caller[d]
    BY <1>1, <2>1, <2>2
  <2>3. CASE caller'[d] # caller[d]
    <3>1. Busy(d) /\ caller'[d] = [caller[d] EXCEPT !.alone = FALSE]
      BY <1>4, <2>3 DEF HelperCheck, NetTyped, NetTypeOK
    <3>2. caller[d] \in Request
      BY <3>1, CallerShape DEF Busy
    <3> QED
      BY <2>1, <3>1, <3>2 DEF Bystander, Request
  <2> QED
    BY <2>2, <2>3
<1>5. ASSUME WriteConfig(c) \/ UnnoticedFailure(c) \/ LoadRoles(c) \/ SaveRoles(c)
      PROVE  Bystander(d)
  BY <1>1, <1>5 DEF WriteConfig, UnnoticedFailure, LoadRoles, SaveRoles,
                    hostVars, NetTyped, NetTypeOK
<1>6. ASSUME CommandFails(c) PROVE Bystander(d)
  BY <1>2, <1>6 DEF CommandFails
<1>7. ASSUME Clean(c) PROVE Bystander(d)
  BY <1>2, <1>7 DEF Clean, Goto
<1>8. ASSUME NEW config, NEW answered \in BOOLEAN, BringUp(c, config, answered)
      PROVE  Bystander(d)
  BY <1>2, <1>8 DEF BringUp, BroughtUp, Goto
<1> QED
  BY <1>3, <1>4, <1>5, <1>6, <1>7, <1>8, BringUps DEF CallerStep

\* Every request is a bystander when a lease is renewed.
LEMMA RenewBystanders ==
    ASSUME NetTyped, NEW n \in Nics, NEW answered \in BOOLEAN, Renew(n, answered),
           NEW d \in Callers
    PROVE  Bystander(d)
<1>1. caller'[d] = Outdated(NoNic, d) /\ d # NoNic
  BY ChangesAssumption DEF Renew
<1> QED
  BY <1>1, OutdatedShape DEF Bystander

\* What a request under way does: it keeps to its change and to its interface.
LEMMA OwnStep ==
    ASSUME NetTyped, NEW c \in Callers, Busy(c), CallerStep(c), caller'[c] # Idle
    PROVE  /\ caller'[c].change = caller[c].change
           /\ caller'[c].fresh = caller[c].fresh
           /\ \A m \in Nics \ {caller[c].change.nic} :
                 /\ addressing'[m] = addressing[m]
                 /\ m \in defaults' <=> m \in defaults
<1> DEFINE Goal == /\ caller'[c].change = caller[c].change
                   /\ caller'[c].fresh = caller[c].fresh
                   /\ \A m \in Nics \ {caller[c].change.nic} :
                         /\ addressing'[m] = addressing[m]
                         /\ m \in defaults' <=> m \in defaults
<1>0. /\ caller[c] \in Request /\ caller[c].change \in Changes
      /\ caller[c].change.nic \in Nics
  BY CallerShape, ChangeShape DEF Busy, Request
<1>1. ASSUME NEW s \in {"write", "up", "clean", "roles", "save"},
             caller'[c] = [caller[c] EXCEPT !.step = s]
      PROVE  /\ caller'[c].change = caller[c].change
             /\ caller'[c].fresh = caller[c].fresh
  BY <1>0, <1>1, GotoShape
<1>2. ASSUME (\E x \in Changes : AskChange(c, x)) \/ HelperCheck(c) PROVE FALSE
  <2>1. HelperCheck(c) => caller[c].step = "helper"
    BY DEF HelperCheck
  <2>2. ASSUME NEW x \in Changes, AskChange(c, x) PROVE caller[c].step = "idle"
    BY <2>2 DEF AskChange, Idle
  <2> QED
    BY <1>2, <2>1, <2>2 DEF Busy
<1>3. ASSUME WriteConfig(c) PROVE Goal
  <2>1. caller'[c] = [caller[c] EXCEPT !.step = "up"]
    BY <1>3 DEF WriteConfig, NetTyped, NetTypeOK
  <2> QED
    BY <1>1, <1>3, <2>1 DEF WriteConfig
<1>4. ASSUME UnnoticedFailure(c) PROVE Goal
  <2>1. caller'[c] = [caller[c] EXCEPT !.step = "clean", !.alone = FALSE]
    BY <1>4 DEF UnnoticedFailure, NetTyped, NetTypeOK
  <2>2. caller'[c].change = caller[c].change /\ caller'[c].fresh = caller[c].fresh
    BY <1>0, <2>1 DEF Request
  <2> QED
    BY <1>4, <2>2 DEF UnnoticedFailure, hostVars
<1>5. ASSUME NEW config, NEW answered \in BOOLEAN, BringUp(c, config, answered)
      PROVE  Goal
  <2>1. caller'[c] = [caller[c] EXCEPT !.step = "clean"]
    BY <1>5 DEF BringUp, BroughtUp, Goto
  <2>2. config \in Configuration
    BY <1>0, <1>5, ConfigType DEF BringUp, NetTyped
  <2> QED
    BY <1>0, <1>1, <1>5, <2>1, <2>2, UpEffect DEF BringUp
<1>6. ASSUME CommandFails(c) PROVE FALSE
  BY <1>6 DEF CommandFails
<1>7. ASSUME Clean(c) PROVE Goal
  <2>1. caller'[c] = [caller[c] EXCEPT !.step = "roles"]
    BY <1>7 DEF Clean, Goto
  <2>2. \A m \in Nics \ {caller[c].change.nic} :
           /\ addressing'[m] = addressing[m]
           /\ m \in defaults' <=> m \in defaults
    BY <1>7 DEF Clean, NetTyped, NetTypeOK
  <2> QED
    BY <1>1, <2>1, <2>2
<1>8. ASSUME LoadRoles(c) PROVE Goal
  <2>1. caller'[c] = [caller[c] EXCEPT !.step = "save", !.read = roles]
    BY <1>8 DEF LoadRoles, NetTyped, NetTypeOK
  <2>2. caller'[c].change = caller[c].change /\ caller'[c].fresh = caller[c].fresh
    BY <1>0, <2>1 DEF Request
  <2> QED
    BY <1>8, <2>2 DEF LoadRoles, hostVars
<1>9. ASSUME SaveRoles(c) PROVE FALSE
  BY <1>9 DEF SaveRoles, NetTyped, NetTypeOK
<1> QED
  BY <1>2, <1>3, <1>4, <1>5, <1>6, <1>7, <1>8, <1>9, BringUps DEF CallerStep

(***************************************************************************)
(* The last address.  What the helper has checked still holds while no     *)
(* other request or lease has changed an address.                          *)
(***************************************************************************)
AnotherAddress(c) ==
    /\ LanBound /\ Busy(c) /\ caller[c].fresh
    /\ ~caller[c].change.confirm /\ caller[c].change.method = "none"
    => \E n \in Nics \ {caller[c].change.nic} : addressing[n] # "none"

\* The check of the helper holds until the request ends or is out of date.
LEMMA AnotherAddressStep ==
    ASSUME NetTyped, \A d \in Callers : AnotherAddress(d), [NetNext]_netVars,
           NEW c \in Callers
    PROVE  AnotherAddress(c)'
<1> SUFFICES ASSUME LanBound, Busy(c)', caller'[c].fresh,
                    ~caller'[c].change.confirm, caller'[c].change.method = "none"
             PROVE  \E n \in Nics \ {caller'[c].change.nic} : addressing'[n] # "none"
  BY DEF AnotherAddress
<1>1. ASSUME Bystander(c) PROVE \E n \in Nics \ {caller'[c].change.nic} :
                                    addressing'[n] # "none"
  <2>1. Busy(c) /\ caller[c] # Idle
    BY <1>1 DEF Bystander, Busy, Idle
  <2> QED
    BY <1>1, <2>1 DEF Bystander, AnotherAddress
<1>2. ASSUME NEW d \in Callers, d # c, CallerStep(d) PROVE Bystander(c)
  BY <1>2, Bystanders
<1>3. CASE CallerStep(c)
  <2>0. caller'[c] # Idle
    BY DEF Busy, Idle
  <2>1. CASE Busy(c)
    <3>1. /\ caller'[c].change = caller[c].change
          /\ caller'[c].fresh = caller[c].fresh
          /\ \A m \in Nics \ {caller[c].change.nic} : addressing'[m] = addressing[m]
      BY <1>3, <2>0, <2>1, OwnStep
    <3> QED
      BY <2>1, <3>1 DEF AnotherAddress
  <2>2. CASE ~Busy(c)
    <3>1. HelperCheck(c) \/ \E x \in Changes : AskChange(c, x)
      BY <1>3, <2>2
         DEF CallerStep, Busy, WriteConfig, UnnoticedFailure, NmcliUp, Ifup,
             NetworkctlUp, ApplyIpLive, CommandFails, Clean, LoadRoles, SaveRoles
    <3>2. ASSUME NEW x \in Changes, AskChange(c, x) PROVE FALSE
      BY <3>2 DEF AskChange, Busy, NetTyped, NetTypeOK
    <3>3. HelperCheck(c) /\ ~NeedsConfirm(caller[c].change)
      BY <2>0, <3>1, <3>2 DEF HelperCheck, NetTyped, NetTypeOK
    <3>4. caller[c] \in Request
      BY <3>3, CallerShape DEF HelperCheck
    <3>5. caller'[c].change = caller[c].change
      BY <3>3, <3>4 DEF HelperCheck, Request
    <3>6. Projected(caller[c].change) # {}
      BY <3>3, <3>5 DEF NeedsConfirm
    <3>7. \E n \in Nics \ {caller[c].change.nic} : addressing[n] # "none"
      BY <3>5, <3>6 DEF Projected
    <3> QED
      BY <3>3, <3>5, <3>7 DEF HelperCheck, hostVars
  <2> QED
    BY <2>1, <2>2
<1>4. ASSUME NEW n \in Nics, NEW answered \in BOOLEAN, Renew(n, answered)
      PROVE  Bystander(c)
  BY <1>4, RenewBystanders
<1>5. ASSUME Reboot PROVE FALSE
  BY <1>5 DEF Reboot, Busy, Idle
<1>6. CASE UNCHANGED netVars
  BY <1>1, <1>6 DEF netVars, Bystander
<1> QED
  BY <1>1, <1>2, <1>3, <1>4, <1>5, <1>6 DEF NetNext

\* A request never takes the last address away unasked.
LEMMA LastAddressStep ==
    ASSUME NetTyped, NEW c \in Callers, AnotherAddress(c), [NetNext]_netVars,
           LanBound, Busy(c), caller'[c].step # caller[c].step,
           \E n \in Nics : addressing[n] # "none",
           \A n \in Nics : addressing'[n] = "none"
    PROVE  \/ caller[c].change.confirm
           \/ caller[c].change.method # "none"
           \/ ~caller[c].fresh
           \/ caller'[c] = Idle
<1>1. ASSUME Bystander(c) PROVE FALSE
  BY <1>1 DEF Bystander
<1>2. ASSUME NEW d \in Callers, d # c, CallerStep(d) PROVE FALSE
  BY <1>1, <1>2, Bystanders
<1>3. ASSUME CallerStep(c), caller'[c] # Idle
      PROVE  \/ caller[c].change.confirm
             \/ caller[c].change.method # "none"
             \/ ~caller[c].fresh
  BY <1>3, OwnStep DEF AnotherAddress
<1>4. ASSUME NEW n \in Nics, NEW answered \in BOOLEAN, Renew(n, answered)
      PROVE  FALSE
  BY <1>1, <1>4, RenewBystanders
<1>5. ASSUME Reboot PROVE caller'[c] = Idle
  BY <1>5 DEF Reboot
<1>6. ASSUME UNCHANGED netVars PROVE FALSE
  BY <1>6 DEF netVars
<1> QED
  BY <1>2, <1>3, <1>4, <1>5, <1>6 DEF NetNext

\* The appliance loses its last address to a request only as the operator
\* wants, for any interfaces, managers and requests.
THEOREM LastAddressesConfirmed == NetSpec => LastAddressConfirmed
<1> DEFINE Another == \A c \in Callers : AnotherAddress(c)
<1>1. NetInit => Another
  BY DEF NetInit, AnotherAddress, Busy, Idle
<1>2. NetTyped /\ Another /\ [NetNext]_netVars => Another'
  BY AnotherAddressStep
<1>3. NetTyped /\ Another /\ [NetNext]_netVars =>
        [\A c \in Callers :
          /\ LanBound /\ Busy(c) /\ caller'[c].step # caller[c].step
          /\ \E n \in Nics : addressing[n] # "none"
          /\ \A n \in Nics : addressing'[n] = "none"
          => \/ caller[c].change.confirm
             \/ caller[c].change.method # "none"
             \/ ~caller[c].fresh
             \/ caller'[c] = Idle]_netVars
  BY LastAddressStep
<1> QED
  BY <1>1, <1>2, <1>3, NetworkTyped, PTL DEF NetSpec, LastAddressConfirmed
-----------------------------------------------------------------------------
(***************************************************************************)
(* Lasting changes.  A change that lasts has its configuration on disk and *)
(* no request in hand on its interface; a request that is alone has, at    *)
(* each of its steps, what the steps before it brought about.              *)
(***************************************************************************)
Written(n, x) == manager # "ip" => persistent[n] = Config(x)
Addressed(n, x) ==
    /\ x.method = "none" => addressing[n] = "none"
    /\ x.method = "static" => addressing[n] = "static"
Routed(n, x) ==
    x.role = "capture" /\ ~(manager = "ifupdown" /\ x.method = "dhcp")
        => n \notin defaults

AfterWrite == {"up", "clean", "roles", "save"}
InHand(n) == \E c \in Callers : caller[c].step \in AfterWrite
                                /\ caller[c].change.nic = n

LastingSound ==
    \A n \in Nics : lasting[n] # NoChange =>
        /\ ~InHand(n)
        /\ Written(n, lasting[n]) /\ Addressed(n, lasting[n])
        /\ Routed(n, lasting[n]) /\ roles[n] = lasting[n].role

Achieved(reached, read, x) ==
    /\ reached \in AfterWrite => Written(x.nic, x)
    /\ reached \in AfterWrite \ {"up"} => Addressed(x.nic, x)
    /\ reached \in {"roles", "save"} => Routed(x.nic, x)
    /\ reached = "save" => read = roles

AloneSound ==
    \A c \in Callers : Busy(c) /\ caller[c].alone =>
        /\ \A d \in Callers \ {c} : ~Busy(d)
        /\ Achieved(caller[c].step, caller[c].read, caller[c].change)

\* The plain "ip" backend writes no configuration.
IpUnmanaged == manager = "ip" => \A n \in Nics : persistent[n].method = "unmanaged"

LastingInv == LastingSound /\ AloneSound /\ IpUnmanaged

\* The three facts stay true of an interface that nobody touches.
LEMMA FactsKept ==
    ASSUME NEW n, NEW x, manager' = manager, persistent'[n] = persistent[n],
           addressing'[n] = addressing[n], n \in defaults' <=> n \in defaults
    PROVE  /\ Written(n, x) => Written(n, x)'
           /\ Addressed(n, x) => Addressed(n, x)'
           /\ Routed(n, x) => Routed(n, x)'
BY DEF Written, Addressed, Routed, Config, BringsDefault

\* While a request is under way, no other one is alone.
LEMMA OthersNotAlone ==
    ASSUME NetTyped, AloneSound, NEW c \in Callers, Busy(c), CallerStep(c),
           NEW d \in Callers \ {c}
    PROVE  ~(Busy(d)' /\ caller'[d].alone)
<1>1. Bystander(d)
  BY Bystanders
<1>2. SUFFICES ASSUME Busy(d)', caller'[d].alone PROVE FALSE
  OBVIOUS
<1>3. Busy(d) /\ caller[d] # Idle
  BY <1>1, <1>2 DEF Bystander, Busy, Idle
<1>4. caller[d].alone
  BY <1>1, <1>2, <1>3 DEF Bystander
<1> QED
  BY <1>3, <1>4 DEF AloneSound

\* AloneSound after a step of a request under way: only that request counts.
LEMMA AloneAfter ==
    ASSUME NetTyped, AloneSound, NEW c \in Callers, Busy(c), CallerStep(c),
           Busy(c)' /\ caller'[c].alone =>
              /\ caller[c].alone
              /\ Achieved(caller[c].step, caller[c].read, caller[c].change)'
    PROVE  AloneSound'
<1> SUFFICES ASSUME NEW e \in Callers, Busy(e)', caller'[e].alone
             PROVE  /\ \A d \in Callers \ {e} : ~Busy(d)'
                    /\ Achieved(caller[e].step, caller[e].read, caller[e].change)'
  BY DEF AloneSound
<1>1. e = c
  BY OthersNotAlone
<1>2. \A d \in Callers \ {c} : ~Busy(d)
  BY <1>1 DEF AloneSound
<1>3. \A d \in Callers \ {c} : caller'[d].step = caller[d].step
  BY Bystanders DEF Bystander
<1>4. \A d \in Callers \ {c} : ~Busy(d)'
  BY <1>2, <1>3 DEF Busy
<1> QED
  BY <1>1, <1>4

\* An interface is in hand after the step of c only if it was before or c has
\* taken it up.
LEMMA InHandAfter ==
    ASSUME NetTyped, NEW c \in Callers, CallerStep(c), NEW n \in Nics, InHand(n)',
           ~(caller'[c].step \in AfterWrite /\ caller'[c].change.nic = n)
    PROVE  InHand(n)
<1>1. PICK d \in Callers : caller'[d].step \in AfterWrite /\ caller'[d].change.nic = n
  BY DEF InHand
<1>2. d # c /\ Bystander(d)
  BY <1>1, Bystanders
<1>3. caller[d].step \in AfterWrite /\ caller[d] # Idle
  BY <1>1, <1>2 DEF Bystander, AfterWrite, Idle
<1> QED
  BY <1>1, <1>2, <1>3 DEF Bystander, InHand

\* A lease renewed on an interface with a written change does it no harm.
LEMMA RenewFacts ==
    ASSUME NetTyped, IpUnmanaged, NEW n \in Nics, NEW answered \in BOOLEAN,
           Renew(n, answered), NEW m \in Nics, NEW x \in Changes, Written(m, x)
    PROVE  /\ Written(m, x)'
           /\ Addressed(m, x) => Addressed(m, x)'
           /\ Routed(m, x) => Routed(m, x)'
<1>0. manager' = manager /\ persistent' = persistent
  BY DEF Renew
<1>1. persistent[n] \in Configuration
  BY DEF NetTyped
<1>2. Up(n, persistent[n], answered)
  BY DEF Renew
<1>3. CASE m # n
  BY <1>0, <1>1, <1>2, <1>3, UpEffect, FactsKept
<1>4. CASE m = n
  <2>1. persistent[n].method = "dhcp" /\ manager # "ip"
    BY DEF Renew, IpUnmanaged
  <2>2. persistent[n] = Config(x)
    BY <1>4, <2>1 DEF Written
  <2>3. x.method = "dhcp" /\ persistent[n].default = BringsDefault(x)
    BY <2>1, <2>2, ConfigType
  <2>4. Written(m, x)'
    BY <1>0, <1>4, <2>2 DEF Written, Config, BringsDefault
  <2>5. Addressed(m, x)'
    BY <2>3 DEF Addressed
  <2>6. Routed(m, x)'
    <3> SUFFICES ASSUME x.role = "capture", manager # "ifupdown"
                 PROVE  n \notin defaults'
      BY <1>0, <1>4, <2>3 DEF Routed
    <3>1. ~persistent[n].default
      BY <2>3, CaptureNoDefault
    <3> QED
      BY <1>1, <1>2, <3>1, UpEffect
  <2> QED
    BY <2>4, <2>5, <2>6
<1> QED
  BY <1>3, <1>4

\* What lasts on interface m is still there after a step.
StillLasts(m, x) ==
    /\ ~InHand(m)'
    /\ Written(m, x)' /\ Addressed(m, x)' /\ Routed(m, x)'
    /\ roles'[m] = x.role

\* LastingSound after a step, one interface and one change at a time.
LEMMA LastingAfter ==
    ASSUME NetTyped',
           \A m \in Nics, x \in Changes :
              x # NoChange /\ lasting'[m] = x => StillLasts(m, x)
    PROVE  LastingSound'
<1> SUFFICES ASSUME NEW m \in Nics, lasting'[m] # NoChange
             PROVE  /\ ~InHand(m)'
                    /\ Written(m, lasting[m])' /\ Addressed(m, lasting[m])'
                    /\ Routed(m, lasting[m])' /\ roles'[m] = lasting'[m].role
  BY DEF LastingSound
<1>1. PICK x \in Changes : x = lasting'[m]
  BY DEF NetTyped, NetTypeOK
<1>2. StillLasts(m, x)
  BY <1>1
<1>3. ~InHand(m)' /\ roles'[m] = lasting'[m].role
  BY <1>1, <1>2 DEF StillLasts
<1>4. Written(m, x)' /\ Addressed(m, x)' /\ Routed(m, x)'
  BY <1>2 DEF StillLasts
<1>5. Written(m, lasting[m])'
  BY <1>1, <1>4 DEF Written, Config, BringsDefault
<1>6. Addressed(m, lasting[m])'
  BY <1>1, <1>4 DEF Addressed
<1>7. Routed(m, lasting[m])'
  BY <1>1, <1>4 DEF Routed
<1> QED
  BY <1>3, <1>5, <1>6, <1>7

\* A step of c leaves alone what lasts on an interface it does not take up.
LEMMA LastingElsewhere ==
    ASSUME NetTyped, LastingSound, NEW c \in Callers, CallerStep(c),
           NEW m \in Nics, NEW x \in Changes, x # NoChange, lasting[m] = x,
           manager' = manager, persistent'[m] = persistent[m],
           addressing'[m] = addressing[m], m \in defaults' <=> m \in defaults,
           roles'[m] = roles[m],
           ~(caller'[c].step \in AfterWrite /\ caller'[c].change.nic = m)
    PROVE  StillLasts(m, x)
<1>1. /\ ~InHand(m) /\ Written(m, x) /\ Addressed(m, x) /\ Routed(m, x)
      /\ roles[m] = x.role
  BY DEF LastingSound
<1>2. ~InHand(m)'
  BY <1>1, InHandAfter
<1>3. Written(m, x)' /\ Addressed(m, x)' /\ Routed(m, x)'
  BY <1>1, FactsKept
<1> QED
  BY <1>1, <1>2, <1>3 DEF StillLasts

\* A request that is asked for, or checked by the helper, touches nothing that
\* lasts, and is alone only if nobody else is under way.
LEMMA LastingIdleStep ==
    ASSUME NetTyped, NetTyped', LastingInv, NEW c \in Callers,
           (\E x \in Changes : AskChange(c, x)) \/ HelperCheck(c)
    PROVE  LastingInv'
<1>0. /\ CallerStep(c) /\ UNCHANGED <<manager, addressing, defaults, persistent, roles, lasting>>
  BY DEF CallerStep, AskChange, HelperCheck, hostVars
<1>1. ASSUME NEW x \in Changes, AskChange(c, x) PROVE caller'[c].step = "helper"
  BY <1>1 DEF AskChange, NetTyped, NetTypeOK
<1>2. ASSUME HelperCheck(c), NeedsConfirm(caller[c].change) PROVE caller'[c].step = "idle"
  BY <1>2 DEF HelperCheck, Idle, NetTyped, NetTypeOK
<1> DEFINE quiet == \A d \in Callers \ {c} : ~Busy(d)
<1>3. ASSUME HelperCheck(c), ~NeedsConfirm(caller[c].change)
      PROVE  caller'[c].step = "write" /\ caller'[c].alone = quiet
  <2>1. caller'[c] = [caller[c] EXCEPT !.step = "write", !.fresh = TRUE, !.alone = quiet]
    BY <1>3 DEF HelperCheck
  <2>2. caller[c] \in Request
    BY <1>3, CallerShape DEF HelperCheck
  <2>3. quiet \in BOOLEAN
    OBVIOUS
  <2> HIDE DEF quiet
  <2> QED
    BY <2>1, <2>2, <2>3 DEF Request
<1> HIDE DEF quiet
<1>4. caller'[c].step \notin AfterWrite
  BY <1>1, <1>2, <1>3 DEF AfterWrite
<1>5. LastingSound'
  <2>1. ASSUME NEW m \in Nics, NEW x \in Changes, x # NoChange, lasting'[m] = x
        PROVE  StillLasts(m, x)
    BY <1>0, <1>4, <2>1, LastingElsewhere DEF LastingInv
  <2> QED
    BY <2>1, LastingAfter
<1>6. AloneSound'
  <2> SUFFICES ASSUME NEW e \in Callers, Busy(e)', caller'[e].alone
               PROVE  /\ \A d \in Callers \ {e} : ~Busy(d)'
                      /\ Achieved(caller[e].step, caller[e].read, caller[e].change)'
    BY DEF AloneSound
  <2>1. \A d \in Callers \ {c} : Busy(d)' <=> Busy(d)
    BY <1>0, Bystanders DEF Bystander, Busy
  <2>2. CASE e = c
    <3>1. caller'[c].step = "write" /\ quiet
      BY <1>1, <1>2, <1>3, <2>2 DEF Busy
    <3>2. \A d \in Callers \ {c} : ~Busy(d)'
      BY <2>1, <3>1 DEF quiet
    <3>3. Achieved(caller[c].step, caller[c].read, caller[c].change)'
      BY <3>1 DEF Achieved, AfterWrite
    <3> QED
      BY <2>2, <3>2, <3>3
  <2>3. CASE e # c
    <3>1. Busy(e) /\ caller[e] \in Request
      BY <2>1, <2>3, CallerShape DEF Busy
    <3>2. Bystander(e) /\ caller[e] # Idle
      BY <1>0, <2>3, <3>1, Bystanders DEF Busy, Idle
    <3>3. ~Busy(c)'
      <4>1. ASSUME HelperCheck(c), ~NeedsConfirm(caller[c].change) PROVE FALSE
        <5>1. caller'[e] = [caller[e] EXCEPT !.alone = FALSE]
          BY <2>3, <3>1, <4>1 DEF HelperCheck
        <5>2. ~caller'[e].alone
          BY <3>1, <5>1 DEF Request
        <5> QED
          BY <5>2
      <4> QED
        BY <1>1, <1>2, <4>1 DEF Busy
    <3>4. /\ caller[e].alone /\ caller'[e].step = caller[e].step
          /\ caller'[e].change = caller[e].change /\ caller'[e].read = caller[e].read
      BY <3>2 DEF Bystander
    <3>5. /\ \A d \in Callers \ {e} : ~Busy(d)
          /\ Achieved(caller[e].step, caller[e].read, caller[e].change)
      BY <3>1, <3>4 DEF LastingInv, AloneSound
    <3>6. Achieved(caller[e].step, caller[e].read, caller[e].change)'
      BY <1>0, <3>4, <3>5
         DEF Achieved, Written, Addressed, Routed, Config, BringsDefault
    <3>7. \A d \in Callers \ {e} : ~Busy(d)'
      BY <2>1, <3>3, <3>5
    <3> QED
      BY <3>6, <3>7
  <2> QED
    BY <2>2, <2>3
<1>7. IpUnmanaged'
  BY <1>0 DEF LastingInv, IpUnmanaged
<1> QED
  BY <1>5, <1>6, <1>7 DEF LastingInv

\* What a request has achieved after a step, in terms of its change.
LEMMA AchievedAfter ==
    ASSUME NEW c \in Callers, NEW x, caller'[c].change = x,
           caller'[c].step \in AfterWrite => Written(x.nic, x)',
           caller'[c].step \in AfterWrite \ {"up"} => Addressed(x.nic, x)',
           caller'[c].step \in {"roles", "save"} => Routed(x.nic, x)',
           caller'[c].step = "save" => caller'[c].read = roles'
    PROVE  Achieved(caller[c].step, caller[c].read, caller[c].change)'
<1>1. caller'[c].step \in AfterWrite => Written(caller[c].change.nic, caller[c].change)'
  BY DEF Written, Config, BringsDefault
<1>2. caller'[c].step \in AfterWrite \ {"up"} =>
         Addressed(caller[c].change.nic, caller[c].change)'
  BY DEF Addressed
<1>3. caller'[c].step \in {"roles", "save"} =>
         Routed(caller[c].change.nic, caller[c].change)'
  BY DEF Routed
<1> QED
  BY <1>1, <1>2, <1>3 DEF Achieved, AfterWrite

\* A step of a request under way that ends on its own interface leaves what
\* lasts on the other ones.
LEMMA LastingOwnNic ==
    ASSUME NetTyped, NetTyped', LastingSound, NEW c \in Callers, CallerStep(c),
           NEW n \in Nics, manager' = manager, lasting'[n] = NoChange,
           \A m \in Nics \ {n} :
              /\ persistent'[m] = persistent[m] /\ addressing'[m] = addressing[m]
              /\ m \in defaults' <=> m \in defaults
              /\ roles'[m] = roles[m] /\ lasting'[m] = lasting[m],
           caller'[c].step \in AfterWrite => caller'[c].change.nic = n
    PROVE  LastingSound'
<1>1. ASSUME NEW m \in Nics, NEW x \in Changes, x # NoChange, lasting'[m] = x
      PROVE  StillLasts(m, x)
  BY <1>1, LastingElsewhere
<1> QED
  BY <1>1, LastingAfter

\* Writing the configuration starts the change anew.
LEMMA LastingWrite ==
    ASSUME NetTyped, NetTyped', LastingInv, NEW c \in Callers, WriteConfig(c)
    PROVE  LastingInv'
<1>0. Busy(c) /\ CallerStep(c)
  BY DEF WriteConfig, Busy, CallerStep
<1>1. PICK x \in Changes : x = caller[c].change
  BY CallerShape DEF WriteConfig, Request
<1>2. caller[c] \in Request /\ x.nic \in Nics
  BY <1>1, CallerShape, ChangeShape DEF WriteConfig
<1>3. caller'[c] = [caller[c] EXCEPT !.step = "up"]
  BY DEF WriteConfig, NetTyped, NetTypeOK
<1>4. /\ caller'[c].step = "up" /\ caller'[c].change = x
      /\ caller'[c].alone = caller[c].alone
  BY <1>1, <1>2, <1>3, GotoShape
<1>5. /\ persistent' = IF manager = "ip" THEN persistent
                       ELSE [persistent EXCEPT ![x.nic] = Config(x)]
      /\ lasting' = [lasting EXCEPT ![x.nic] = NoChange]
      /\ UNCHANGED <<manager, addressing, defaults, roles>>
  BY <1>1 DEF WriteConfig
<1>6. Written(x.nic, x)'
  <2>1. Config(x)' = Config(x)
    BY <1>5 DEF Config, BringsDefault
  <2>2. manager # "ip" => persistent'[x.nic] = Config(x)
    BY <1>2, <1>5 DEF NetTyped
  <2> QED
    BY <1>5, <2>1, <2>2 DEF Written
<1>7. LastingSound'
  <2>1. lasting'[x.nic] = NoChange
    BY <1>2, <1>5 DEF NetTyped, NetTypeOK
  <2>2. \A m \in Nics \ {x.nic} :
           persistent'[m] = persistent[m] /\ lasting'[m] = lasting[m]
    BY <1>5 DEF NetTyped, NetTypeOK
  <2> QED
    BY <1>0, <1>2, <1>4, <1>5, <2>1, <2>2, LastingOwnNic DEF LastingInv
<1>8. AloneSound'
  <2>1. Achieved(caller[c].step, caller[c].read, caller[c].change)'
    BY <1>4, <1>6, AchievedAfter
  <2> QED
    BY <1>0, <1>4, <2>1, AloneAfter DEF LastingInv
<1>9. IpUnmanaged'
  BY <1>5 DEF LastingInv, IpUnmanaged
<1> QED
  BY <1>7, <1>8, <1>9 DEF LastingInv

\* An interface that is in hand has nothing that lasts.
LEMMA InHandNoChange ==
    ASSUME NetTyped, LastingSound, NEW c \in Callers, caller[c].step \in AfterWrite
    PROVE  /\ caller[c] \in Request /\ caller[c].change \in Changes
           /\ caller[c].change.nic \in Nics /\ Busy(c)
           /\ lasting[caller[c].change.nic] = NoChange
<1>1. caller[c] \in Request
  BY CallerShape DEF AfterWrite
<1>2. caller[c].change \in Changes /\ caller[c].change.nic \in Nics
  BY <1>1, ChangeShape DEF Request
<1>3. InHand(caller[c].change.nic)
  BY DEF InHand
<1> QED
  BY <1>1, <1>2, <1>3 DEF LastingSound, Busy, AfterWrite

\* Bringing the interface up gives it the address of the change.
LEMMA LastingUp ==
    ASSUME NetTyped, NetTyped', LastingInv, NEW c \in Callers, NEW config,
           NEW answered \in BOOLEAN, BringUp(c, config, answered), CallerStep(c)
    PROVE  LastingInv'
<1>0. caller[c].step = "up" /\ caller[c].step \in AfterWrite
  BY DEF BringUp, AfterWrite
<1>1. PICK x \in Changes : x = caller[c].change
  BY <1>0, InHandNoChange DEF LastingInv
<1>2. /\ caller[c] \in Request /\ Busy(c) /\ x.nic \in Nics /\ lasting[x.nic] = NoChange
  BY <1>0, <1>1, InHandNoChange DEF LastingInv
<1>3. /\ caller'[c].step = "clean" /\ caller'[c].change = x
      /\ caller'[c].alone = caller[c].alone
  BY <1>1, <1>2, GotoShape DEF BringUp, BroughtUp, Goto
<1>4. UNCHANGED <<manager, persistent, roles, lasting>>
  BY DEF BringUp, BroughtUp
<1>5. config \in Configuration
  BY <1>1, <1>2, ConfigType DEF BringUp, NetTyped
<1>6. Up(x.nic, config, answered)
  BY <1>1 DEF BringUp
<1>7. LastingSound'
  BY <1>2, <1>3, <1>4, <1>5, <1>6, UpEffect, LastingOwnNic DEF LastingInv
<1>8. AloneSound'
  <2>1. SUFFICES ASSUME caller[c].alone
                 PROVE  Achieved(caller[c].step, caller[c].read, caller[c].change)'
    BY <1>2, <1>3, AloneAfter DEF LastingInv
  <2>2. Written(x.nic, x)
    BY <1>0, <1>1, <1>2, <2>1 DEF LastingInv, AloneSound, Achieved
  <2>3. config = Config(x)
    BY <1>1, <2>2 DEF BringUp, Written
  <2>4. Addressed(x.nic, x)'
    BY <1>2, <1>5, <1>6, <2>3, UpEffect, ConfigType DEF Addressed
  <2>5. Written(x.nic, x)'
    BY <1>4, <2>2 DEF Written, Config, BringsDefault
  <2> QED
    BY <1>3, <2>4, <2>5, AchievedAfter
<1>9. IpUnmanaged'
  BY <1>4 DEF LastingInv, IpUnmanaged
<1> QED
  BY <1>7, <1>8, <1>9 DEF LastingInv

\* A failing network manager ends a request that is not alone any more.
LEMMA LastingUnnoticed ==
    ASSUME NetTyped, NetTyped', LastingInv, NEW c \in Callers, UnnoticedFailure(c)
    PROVE  LastingInv'
<1>0. caller[c].step = "up" /\ caller[c].step \in AfterWrite /\ CallerStep(c)
  BY DEF UnnoticedFailure, AfterWrite, CallerStep
<1>1. /\ caller[c] \in Request /\ Busy(c) /\ caller[c].change.nic \in Nics
      /\ lasting[caller[c].change.nic] = NoChange
  BY <1>0, InHandNoChange DEF LastingInv
<1>2. caller'[c] = [caller[c] EXCEPT !.step = "clean", !.alone = FALSE]
  BY DEF UnnoticedFailure, NetTyped, NetTypeOK
<1>3. ~caller'[c].alone /\ caller'[c].change = caller[c].change
  BY <1>1, <1>2 DEF Request
<1>4. UNCHANGED <<manager, addressing, defaults, persistent, roles, lasting>>
  BY DEF UnnoticedFailure, hostVars
<1>5. LastingSound'
  BY <1>0, <1>1, <1>3, <1>4, LastingOwnNic DEF LastingInv
<1>6. AloneSound'
  BY <1>0, <1>1, <1>3, AloneAfter DEF LastingInv
<1> QED
  BY <1>4, <1>5, <1>6 DEF LastingInv, IpUnmanaged

\* A command that fails may take the address of the interface in hand, and the
\* request is over.
LEMMA LastingFails ==
    ASSUME NetTyped, NetTyped', LastingInv, NEW c \in Callers, CommandFails(c)
    PROVE  LastingInv'
<1>0. Busy(c) /\ CallerStep(c)
  BY DEF CommandFails, Busy, CallerStep
<1>1. caller'[c] = Idle /\ UNCHANGED <<manager, persistent, roles, lasting>>
  BY DEF CommandFails
<1>2. ~Busy(c)' /\ caller'[c].step \notin AfterWrite
  BY <1>1 DEF Busy, Idle, AfterWrite
<1>3. LastingSound'
  <2>1. CASE UNCHANGED <<addressing, defaults>>
    <3>1. ASSUME NEW m \in Nics, NEW x \in Changes, x # NoChange, lasting'[m] = x
          PROVE  StillLasts(m, x)
      BY <1>0, <1>1, <1>2, <2>1, <3>1, LastingElsewhere DEF LastingInv
    <3> QED
      BY <3>1, LastingAfter
  <2>2. CASE caller[c].step = "up"
             /\ addressing' = [addressing EXCEPT ![caller[c].change.nic] = "none"]
             /\ defaults' = defaults \ {caller[c].change.nic}
    <3>1. /\ caller[c].change.nic \in Nics
          /\ lasting[caller[c].change.nic] = NoChange
      BY <2>2, InHandNoChange DEF LastingInv, AfterWrite
    <3>2. \A m \in Nics \ {caller[c].change.nic} :
             addressing'[m] = addressing[m] /\ (m \in defaults' <=> m \in defaults)
      BY <2>2 DEF NetTyped, NetTypeOK
    <3> QED
      BY <1>0, <1>1, <1>2, <3>1, <3>2, LastingOwnNic DEF LastingInv
  <2> QED
    BY <2>1, <2>2 DEF CommandFails
<1>4. AloneSound'
  BY <1>0, <1>2, AloneAfter DEF LastingInv
<1> QED
  BY <1>1, <1>3, <1>4 DEF LastingInv, IpUnmanaged

\* Dropping the default route of a capture interface, and its address if it is
\* to have none.
LEMMA LastingClean ==
    ASSUME NetTyped, NetTyped', LastingInv, NEW c \in Callers, Clean(c)
    PROVE  LastingInv'
<1>0. caller[c].step = "clean" /\ caller[c].step \in AfterWrite /\ CallerStep(c)
  BY DEF Clean, AfterWrite, CallerStep
<1>1. PICK x \in Changes : x = caller[c].change
  BY <1>0, InHandNoChange DEF LastingInv
<1>2. caller[c] \in Request /\ Busy(c) /\ x.nic \in Nics /\ lasting[x.nic] = NoChange
  BY <1>0, <1>1, InHandNoChange DEF LastingInv
<1>3. /\ caller'[c].step = "roles" /\ caller'[c].change = x
      /\ caller'[c].alone = caller[c].alone
  BY <1>1, <1>2, GotoShape DEF Clean, Goto
<1>4. UNCHANGED <<manager, persistent, roles, lasting>>
  BY DEF Clean
<1>5. /\ defaults' = IF x.role = "capture" THEN defaults \ {x.nic} ELSE defaults
      /\ addressing' = IF x.role = "capture" /\ x.method = "none"
                               /\ manager \in {"ifupdown", "networkd"}
                            THEN [addressing EXCEPT ![x.nic] = "none"] ELSE addressing
  BY <1>1 DEF Clean
<1>6. LastingSound'
  <2>1. \A m \in Nics \ {x.nic} :
           addressing'[m] = addressing[m] /\ (m \in defaults' <=> m \in defaults)
    BY <1>5 DEF NetTyped, NetTypeOK
  <2> QED
    BY <1>0, <1>2, <1>3, <1>4, <2>1, LastingOwnNic DEF LastingInv
<1>7. AloneSound'
  <2>1. SUFFICES ASSUME caller[c].alone
                 PROVE  Achieved(caller[c].step, caller[c].read, caller[c].change)'
    BY <1>0, <1>2, <1>3, AloneAfter DEF LastingInv
  <2>2. Written(x.nic, x) /\ Addressed(x.nic, x)
    BY <1>0, <1>1, <1>2, <2>1 DEF LastingInv, AloneSound, Achieved
  <2>3. Written(x.nic, x)'
    BY <1>4, <2>2 DEF Written, Config, BringsDefault
  <2>4. Addressed(x.nic, x)'
    BY <1>2, <1>5, <2>2 DEF Addressed, NetTyped, NetTypeOK
  <2>5. Routed(x.nic, x)'
    BY <1>5 DEF Routed
  <2> QED
    BY <1>3, <2>3, <2>4, <2>5, AchievedAfter
<1> QED
  BY <1>4, <1>6, <1>7 DEF LastingInv, IpUnmanaged

\* Reading the roles.
LEMMA LastingLoad ==
    ASSUME NetTyped, NetTyped', LastingInv, NEW c \in Callers, LoadRoles(c)
    PROVE  LastingInv'
<1>0. caller[c].step = "roles" /\ caller[c].step \in AfterWrite /\ CallerStep(c)
  BY DEF LoadRoles, AfterWrite, CallerStep
<1>1. PICK x \in Changes : x = caller[c].change
  BY <1>0, InHandNoChange DEF LastingInv
<1>2. caller[c] \in Request /\ Busy(c) /\ x.nic \in Nics /\ lasting[x.nic] = NoChange
  BY <1>0, <1>1, InHandNoChange DEF LastingInv
<1>3. caller'[c] = [caller[c] EXCEPT !.step = "save", !.read = roles]
  BY DEF LoadRoles, NetTyped, NetTypeOK
<1>4. /\ caller'[c].step = "save" /\ caller'[c].change = x
      /\ caller'[c].alone = caller[c].alone /\ caller'[c].read = roles
  BY <1>1, <1>2, <1>3 DEF Request
<1>5. UNCHANGED <<manager, addressing, defaults, persistent, roles, lasting>>
  BY DEF LoadRoles, hostVars
<1>6. LastingSound'
  BY <1>0, <1>2, <1>4, <1>5, LastingOwnNic DEF LastingInv
<1>7. AloneSound'
  <2>1. SUFFICES ASSUME caller[c].alone
                 PROVE  Achieved(caller[c].step, caller[c].read, caller[c].change)'
    BY <1>0, <1>2, <1>4, AloneAfter DEF LastingInv
  <2>2. Written(x.nic, x) /\ Addressed(x.nic, x) /\ Routed(x.nic, x)
    BY <1>0, <1>1, <1>2, <2>1 DEF LastingInv, AloneSound, Achieved
  <2>3. Written(x.nic, x)' /\ Addressed(x.nic, x)' /\ Routed(x.nic, x)'
    BY <1>5, <2>2, FactsKept
  <2> QED
    BY <1>4, <1>5, <2>3, AchievedAfter
<1> QED
  BY <1>5, <1>6, <1>7 DEF LastingInv, IpUnmanaged

\* Saving the roles: the change of a request that was alone lasts from now on.
LEMMA LastingSave ==
    ASSUME NetTyped, NetTyped', LastingInv, NEW c \in Callers, SaveRoles(c)
    PROVE  LastingInv'
<1>0. caller[c].step = "save" /\ caller[c].step \in AfterWrite /\ CallerStep(c)
  BY DEF SaveRoles, AfterWrite, CallerStep
<1>1. PICK x \in Changes : x = caller[c].change
  BY <1>0, InHandNoChange DEF LastingInv
<1>2. caller[c] \in Request /\ Busy(c) /\ x.nic \in Nics
  BY <1>0, <1>1, InHandNoChange DEF LastingInv
<1>3. caller'[c] = Idle /\ UNCHANGED <<manager, addressing, defaults, persistent>>
  BY DEF SaveRoles, NetTyped, NetTypeOK
<1>4. ~Busy(c)' /\ caller'[c].step \notin AfterWrite
  BY <1>3 DEF Busy, Idle, AfterWrite
<1>5. LastingSound'
  <2>1. CASE ~caller[c].alone
    <3>1. \A m \in Nics : lasting'[m] = NoChange
      BY <2>1 DEF SaveRoles
    <3> QED
      BY <3>1 DEF LastingSound
  <2>2. CASE caller[c].alone
    <3>1. /\ Written(x.nic, x) /\ Addressed(x.nic, x) /\ Routed(x.nic, x)
          /\ caller[c].read = roles /\ \A d \in Callers \ {c} : ~Busy(d)
      BY <1>0, <1>1, <1>2, <2>2 DEF LastingInv, AloneSound, Achieved
    <3>2. /\ roles' = [roles EXCEPT ![x.nic] = x.role]
          /\ lasting' = [lasting EXCEPT ![x.nic] = x]
      BY <1>1, <2>2, <3>1 DEF SaveRoles
    <3>3. \A d \in Callers : caller'[d].step \notin AfterWrite
      BY <1>0, <1>4, <3>1, Bystanders DEF Bystander, Busy, AfterWrite
    <3>4. StillLasts(x.nic, x)
      <4>1. ~InHand(x.nic)'
        BY <3>3 DEF InHand
      <4>2. Written(x.nic, x)' /\ Addressed(x.nic, x)' /\ Routed(x.nic, x)'
        BY <1>3, <3>1, FactsKept
      <4>3. roles'[x.nic] = x.role
        BY <1>2, <3>2 DEF NetTyped, NetTypeOK
      <4> QED
        BY <4>1, <4>2, <4>3 DEF StillLasts
    <3>5. ASSUME NEW m \in Nics \ {x.nic}, NEW y \in Changes, y # NoChange,
                 lasting'[m] = y
          PROVE  StillLasts(m, y)
      <4>1. lasting[m] = y /\ roles'[m] = roles[m]
        BY <3>2, <3>5 DEF NetTyped, NetTypeOK
      <4> QED
        BY <1>0, <1>3, <1>4, <3>5, <4>1, LastingElsewhere DEF LastingInv
    <3>6. lasting'[x.nic] = x
      BY <1>2, <3>2 DEF NetTyped, NetTypeOK
    <3> QED
      BY <3>4, <3>5, <3>6, LastingAfter
  <2> QED
    BY <2>1, <2>2
<1>6. AloneSound'
  BY <1>0, <1>2, <1>4, AloneAfter DEF LastingInv
<1> QED
  BY <1>3, <1>5, <1>6 DEF LastingInv, IpUnmanaged

\* A lease that runs out or is given.
LEMMA LastingRenew ==
    ASSUME NetTyped, NetTyped', LastingInv, NEW n \in Nics, NEW answered \in BOOLEAN,
           Renew(n, answered)
    PROVE  LastingInv'
<1>0. UNCHANGED <<manager, persistent, roles, lasting>>
  BY DEF Renew
<1>1. \A d \in Callers : Bystander(d)
  BY RenewBystanders
<1>2. \A d \in Callers : Busy(d)' <=> Busy(d)
  BY <1>1 DEF Bystander, Busy
<1>3. LastingSound'
  <2>1. ASSUME NEW m \in Nics, NEW x \in Changes, x # NoChange, lasting'[m] = x
        PROVE  StillLasts(m, x)
    <3>1. /\ ~InHand(m) /\ Written(m, x) /\ Addressed(m, x) /\ Routed(m, x)
          /\ roles'[m] = x.role
      BY <1>0, <2>1 DEF LastingInv, LastingSound
    <3>2. Written(m, x)' /\ Addressed(m, x)' /\ Routed(m, x)'
      BY <3>1, RenewFacts DEF LastingInv
    <3>3. ASSUME InHand(m)' PROVE FALSE
      <4>1. PICK d \in Callers : caller'[d].step \in AfterWrite /\ caller'[d].change.nic = m
        BY <3>3 DEF InHand
      <4>2. caller[d].step \in AfterWrite /\ caller[d] # Idle
        BY <1>1, <4>1 DEF Bystander, AfterWrite, Idle
      <4>3. caller[d].change.nic = m
        BY <1>1, <4>1, <4>2 DEF Bystander
      <4> QED
        BY <3>1, <4>2, <4>3 DEF InHand
    <3> QED
      BY <3>1, <3>2, <3>3 DEF StillLasts
  <2> QED
    BY <2>1, LastingAfter
<1>4. AloneSound'
  <2> SUFFICES ASSUME NEW e \in Callers, Busy(e)', caller'[e].alone
               PROVE  /\ \A d \in Callers \ {e} : ~Busy(d)'
                      /\ Achieved(caller[e].step, caller[e].read, caller[e].change)'
    BY DEF AloneSound
  <2>1. Busy(e) /\ caller[e] # Idle /\ caller[e] \in Request
    BY <1>2, CallerShape DEF Busy, Idle
  <2>2. /\ caller[e].alone /\ caller'[e].step = caller[e].step
        /\ caller'[e].change = caller[e].change /\ caller'[e].read = caller[e].read
    BY <1>1, <2>1 DEF Bystander
  <2>3. /\ \A d \in Callers \ {e} : ~Busy(d)
        /\ Achieved(caller[e].step, caller[e].read, caller[e].change)
    BY <2>1, <2>2 DEF LastingInv, AloneSound
  <2>4. PICK x \in Changes : x = caller[e].change
    BY <2>1 DEF Request
  <2>5. x.nic \in Nics
    BY ChangeShape
  <2>6. caller[e].step \in AfterWrite => Written(x.nic, x)
    BY <2>3, <2>4 DEF Achieved
  <2>7. caller[e].step \in AfterWrite => Written(x.nic, x)'
    BY <2>5, <2>6, RenewFacts DEF LastingInv
  <2>8. caller[e].step \in AfterWrite \ {"up"} => Addressed(x.nic, x)'
    <3>1. caller[e].step \in AfterWrite \ {"up"} => Addressed(x.nic, x)
      BY <2>3, <2>4 DEF Achieved
    <3> QED
      BY <2>5, <2>6, <3>1, RenewFacts DEF LastingInv
  <2>9. caller[e].step \in {"roles", "save"} => Routed(x.nic, x)'
    <3>1. caller[e].step \in {"roles", "save"} =>
             Routed(x.nic, x) /\ caller[e].step \in AfterWrite
      BY <2>3, <2>4 DEF Achieved, AfterWrite
    <3> QED
      BY <2>5, <2>6, <3>1, RenewFacts DEF LastingInv
  <2>10. caller[e].step = "save" => caller'[e].read = roles'
    BY <1>0, <2>2, <2>3 DEF Achieved
  <2>11. Achieved(caller[e].step, caller[e].read, caller[e].change)'
    BY <2>2, <2>4, <2>7, <2>8, <2>9, <2>10, AchievedAfter
  <2> QED
    BY <1>2, <2>3, <2>11
<1> QED
  BY <1>0, <1>3, <1>4 DEF LastingInv, IpUnmanaged

\* A restart brings every interface up from the configuration that was written.
LEMMA LastingReboot ==
    ASSUME NetTyped, NetTyped', LastingInv, Reboot
    PROVE  LastingInv'
<1>1. \A c \in Callers : caller'[c].step = "idle"
  BY DEF Reboot, Idle
<1>2. manager' = manager /\ persistent' = persistent /\ roles' = roles
  BY DEF Reboot
<1>3. LastingSound'
  <2>1. ASSUME NEW m \in Nics, NEW x \in Changes, x # NoChange, lasting'[m] = x
        PROVE  StillLasts(m, x)
    <3>1. manager # "ip" /\ lasting[m] = x
      BY <2>1 DEF Reboot
    <3>2. persistent[m] = Config(x) /\ roles[m] = x.role
      BY <2>1, <3>1 DEF LastingInv, LastingSound, Written
    <3>3. /\ persistent[m].method = x.method
          /\ persistent[m].default = BringsDefault(x)
      BY <3>2, ConfigType
    <3>4. Written(m, x)'
      BY <1>2, <3>2 DEF Written, Config, BringsDefault
    <3>5. Addressed(m, x)'
      BY <3>3 DEF Reboot, Addressed
    <3>6. Routed(m, x)'
      BY <1>2, <3>3, CaptureNoDefault DEF Reboot, Routed
    <3>7. ~InHand(m)'
      BY <1>1 DEF InHand, AfterWrite
    <3> QED
      BY <1>2, <3>2, <3>4, <3>5, <3>6, <3>7 DEF StillLasts
  <2> QED
    BY <2>1, LastingAfter
<1>4. AloneSound'
  BY <1>1 DEF AloneSound, Busy
<1> QED
  BY <1>2, <1>3, <1>4 DEF LastingInv, IpUnmanaged

\* Every step keeps what lasts.
LEMMA LastingStep ==
    ASSUME NetTyped, NetTyped', LastingInv, [NetNext]_netVars
    PROVE  LastingInv'
<1>1. ASSUME NEW c \in Callers, CallerStep(c) PROVE LastingInv'
  <2>1. ASSUME NEW answered \in BOOLEAN,
               \/ NmcliUp(c, answered) \/ Ifup(c, answered)
               \/ NetworkctlUp(c, answered) \/ ApplyIpLive(c, answered)
        PROVE  LastingInv'
    <3>1. PICK config : BringUp(c, config, answered)
      BY <2>1, BringUps
    <3> QED
      BY <1>1, <3>1, LastingUp
  <2> QED
    BY <1>1, <2>1, LastingIdleStep, LastingWrite, LastingUnnoticed, LastingFails,
       LastingClean, LastingLoad, LastingSave DEF CallerStep
<1>2. CASE UNCHANGED netVars
  <2>1. LastingSound'
    BY <1>2 DEF netVars, LastingInv, LastingSound, InHand, Written, Addressed, Routed,
                Config, BringsDefault
  <2>2. AloneSound'
    BY <1>2 DEF netVars, LastingInv, AloneSound, Busy, Achieved, Written, Addressed,
                Routed, Config, BringsDefault
  <2> QED
    BY <1>2, <2>1, <2>2 DEF netVars, LastingInv, IpUnmanaged
<1> QED
  BY <1>1, <1>2, LastingRenew, LastingReboot DEF NetNext

\* A change made by a request that was alone holds through leases, restarts and
\* failures elsewhere, for any interfaces, managers and requests.
THEOREM ChangesLast == NetSpec => []ChangeLasts
<1>1. NetInit => LastingInv
  <2> SUFFICES ASSUME NetInit PROVE LastingInv
    OBVIOUS
  <2>1. LastingSound
    BY DEF NetInit, LastingSound
  <2>2. AloneSound
    BY DEF NetInit, AloneSound, Busy, Idle
  <2>3. IpUnmanaged
    BY DEF NetInit, IpUnmanaged, NoConfig
  <2> QED
    BY <2>1, <2>2, <2>3 DEF LastingInv
<1>2. NetTyped /\ NetTyped' /\ LastingInv /\ [NetNext]_netVars => LastingInv'
  BY LastingStep
<1>3. LastingInv => ChangeLasts
  BY DEF LastingInv, LastingSound, ChangeLasts, Addressed, Routed
<1> QED
  BY <1>1, <1>2, <1>3, NetworkTyped, PTL DEF NetSpec

-----------------------------------------------------------------------------
(***************************************************************************)
(* The evidence store.  What makes RowBacked inductive is that a put, a    *)
(* sweep and a deletion never meet on one artifact: whatever a sweep or a  *)
(* deletion remembers about a file was recorded after the put of that file *)
(* was over.                                                               *)
(***************************************************************************)

\* A put that is not over is in no list of the other actors.
Apart ==
    \A x \in Artifact : put[x] # "over" =>
        /\ x \notin row \cup old \cup doomed
        /\ x \notin retention.todo \cup retention.ids
        /\ \A c \in Process : x \notin sweep[c].stale

\* How far a put has brought its file, while its audit exists.
Staged ==
    \A x \in Artifact :
        /\ put[x] = "idle" => place[x] = "none"
        /\ AuditOf[x] \in audits =>
              /\ put[x] = "writing" => place[x] = "temp"
              /\ put[x] = "named" => place[x] = "new" /\ content[x] = "synced"
              /\ put[x] = "registering" => Durable(x)

\* What is about to be unlinked has no row, or retention may delete it.
Condemned ==
    /\ doomed \cap row = {}
    /\ tree \cap audits = {}
    /\ \A x \in row : AuditOf[x] \in audits
    /\ \A c \in Process : sweep[c].step = "orphans" =>
          (sweep[c].stale \ sweep[c].known) \cap row = {}
    /\ retention.todo \cup retention.ids \subseteq Perishable

IInv == TypeOK /\ Apart /\ Staged /\ Condemned /\ RowBacked

-----------------------------------------------------------------------------
\* Every step keeps the type of every variable.
LEMMA TypeStep == ASSUME TypeOK, [Next]_vars PROVE TypeOK'
<1> USE DEF TypeOK
<1>1. ASSUME NEW S \in SUBSET Artifact, Unlink(S)
      PROVE  place' \in [Artifact -> Place] /\ old' \subseteq Artifact
  BY <1>1 DEF Unlink, Place
<1>2. ASSUME NEW x \in Artifact,
             Open(x) \/ Write(x) \/ SyncFile(x) \/ Rename(x) \/ SyncDirectory(x)
      PROVE  TypeOK'
  BY <1>2 DEF Open, Write, SyncFile, Rename, SyncDirectory, Place, Content, PutState,
              InProgress
<1>3. ASSUME NEW x \in Artifact, Register(x) \/ DeleteArtifact(x) \/ Age(x)
      PROVE  TypeOK'
  BY <1>3 DEF Register, DeleteArtifact, Age, PutState
<1>4. ASSUME NEW x \in Artifact, PutFails(x) PROVE TypeOK'
  BY <1>1, <1>4 DEF PutFails, PutState
<1>5. ASSUME NEW x \in Artifact, UnlinkDoomed(x) PROVE TypeOK'
  BY <1>1, <1>5 DEF UnlinkDoomed
<1>6. ASSUME NEW x \in Artifact, UnlinkCandidate(x) PROVE TypeOK'
  BY <1>1, <1>6 DEF UnlinkCandidate
<1>7. ASSUME NEW a \in Audit, DeleteAudit(a) PROVE TypeOK'
  BY <1>7 DEF DeleteAudit
<1>8. ASSUME NEW a \in Audit, RemoveTree(a) PROVE TypeOK'
  BY <1>1, <1>8 DEF RemoveTree
<1>9. ASSUME NEW c \in Process, ListTemps(c) \/ ListFiles(c) \/ EndSweep(c)
      PROVE  TypeOK'
  BY <1>9 DEF ListTemps, ListFiles, EndSweep, Sweep, NoSweep
<1>10. ASSUME NEW c \in Process, NEW x \in Artifact,
              VisitTemp(c, x) \/ VisitFile(c, x)
       PROVE  TypeOK'
  <2>1. sweep' \in [Process -> Sweep]
    BY <1>10 DEF VisitTemp, VisitFile, Vanished, Sweep, NoSweep
  <2>2. place' \in [Artifact -> Place] /\ old' \subseteq Artifact
    BY <1>1, <1>10 DEF VisitTemp, VisitFile, Vanished
  <2> QED
    BY <1>10, <2>1, <2>2 DEF VisitTemp, VisitFile
<1>11. ASSUME NEW S \in SUBSET Artifact, CollectCandidates(S) PROVE TypeOK'
  BY <1>11 DEF CollectCandidates
<1>12. CASE DeleteCandidates
  BY <1>12 DEF DeleteCandidates, NoRetention
<1>13. ASSUME NEW P \in SUBSET Process, Die(P)
       PROVE  /\ put' \in [Artifact -> PutState] /\ doomed' \subseteq Artifact
              /\ tree' \subseteq Audit /\ sweep' \in [Process -> Sweep]
              /\ retention' \in [todo : SUBSET Artifact, ids : SUBSET Artifact]
  BY <1>13 DEF Die, PutState, NoSweep, Sweep, NoRetention
<1>14. ASSUME NEW c \in Process, Kill(c) PROVE TypeOK'
  BY <1>13, <1>14 DEF Kill
<1>15. CASE PowerLoss
  BY <1>13, <1>15 DEF PowerLoss
<1>16. CASE UNCHANGED vars
  BY <1>16 DEF vars
<1> QED
  BY <1>2, <1>3, <1>4, <1>5, <1>6, <1>7, <1>8, <1>9, <1>10, <1>11, <1>12, <1>14,
     <1>15, <1>16 DEF Next

\* The type invariant: the variables of put_bytes, the sweeps, the deletions
\* and retention keep their types.
THEOREM TypeCorrect == Spec => []TypeOK
<1>1. Init => TypeOK
  BY DEF Init, TypeOK, Place, Content, PutState, NoSweep, Sweep, NoRetention
<1> QED
  BY <1>1, TypeStep, PTL DEF Spec

-----------------------------------------------------------------------------
\* Each action keeps a put apart from what the other actors remember.
LEMMA ApartStep == ASSUME IInv, [Next]_vars PROVE Apart'
<1> USE DEF IInv, TypeOK, Apart
<1>1. ASSUME NEW x \in Artifact,
             Open(x) \/ Write(x) \/ SyncFile(x) \/ Rename(x) \/ SyncDirectory(x)
      PROVE  Apart'
  BY <1>1 DEF Open, Write, SyncFile, Rename, SyncDirectory
<1>2. ASSUME NEW x \in Artifact, Register(x) \/ DeleteArtifact(x)
      PROVE  Apart'
  BY <1>2 DEF Register, DeleteArtifact
<1>3. ASSUME NEW x \in Artifact, Age(x) PROVE Apart'
  <2>1. put[x] = "over"
    BY <1>3 DEF Age, Staged, PutState
  <2> QED
    BY <1>3, <2>1 DEF Age
<1>4. ASSUME NEW x \in Artifact,
             PutFails(x) \/ UnlinkDoomed(x) \/ UnlinkCandidate(x)
      PROVE  Apart'
  BY <1>4 DEF PutFails, UnlinkDoomed, UnlinkCandidate, Unlink
<1>5. ASSUME NEW a \in Audit, DeleteAudit(a) \/ RemoveTree(a) PROVE Apart'
  BY <1>5 DEF DeleteAudit, RemoveTree, Unlink
<1>6. ASSUME NEW c \in Process, ListTemps(c) \/ ListFiles(c) \/ EndSweep(c)
      PROVE  Apart'
  BY <1>6 DEF ListTemps, ListFiles, EndSweep, NoSweep, Sweep
<1>7. ASSUME NEW c \in Process, NEW x \in Artifact,
             VisitTemp(c, x) \/ VisitFile(c, x)
      PROVE  Apart'
  BY <1>7 DEF VisitTemp, VisitFile, Vanished, Unlink, NoSweep, Sweep
<1>8. ASSUME NEW S \in SUBSET Artifact, CollectCandidates(S) PROVE Apart'
  BY <1>8 DEF CollectCandidates
<1>9. CASE DeleteCandidates
  BY <1>9 DEF DeleteCandidates, NoRetention
<1>10. ASSUME NEW P \in SUBSET Process, Die(P), UNCHANGED row, old' \subseteq old
       PROVE  Apart'
  BY <1>10 DEF Die, NoSweep, NoRetention, InProgress
<1>11. ASSUME NEW c \in Process, Kill(c) PROVE Apart'
  BY <1>10, <1>11 DEF Kill
<1>12. CASE PowerLoss
  BY <1>10, <1>12 DEF PowerLoss
<1>13. CASE UNCHANGED vars
  BY <1>13 DEF vars
<1> QED
  BY <1>1, <1>2, <1>3, <1>4, <1>5, <1>6, <1>7, <1>8, <1>9, <1>11, <1>12, <1>13
     DEF Next

\* The files an action unlinks are those of puts that are over, fail in that
\* action, or belong to a deleted audit; so each put keeps its place.
LEMMA StagedStep == ASSUME IInv, [Next]_vars PROVE Staged'
<1> USE DEF IInv, TypeOK, Staged, Durable
<1>1. ASSUME NEW x \in Artifact,
             Open(x) \/ Write(x) \/ SyncFile(x) \/ Rename(x) \/ SyncDirectory(x)
      PROVE  Staged'
  BY <1>1 DEF Open, Write, SyncFile, Rename, SyncDirectory
<1>2. ASSUME NEW x \in Artifact, Register(x) \/ DeleteArtifact(x) \/ Age(x)
      PROVE  Staged'
  BY <1>2 DEF Register, DeleteArtifact, Age
<1>3. ASSUME NEW S \in SUBSET Artifact, Unlink(S),
             \A x \in S : put[x] = "over" \/ AuditOf[x] \notin audits,
             UNCHANGED <<audits, content, put>>
      PROVE  Staged'
  BY <1>3 DEF Unlink
<1>4. ASSUME NEW x \in Artifact, PutFails(x) PROVE Staged'
  BY <1>4 DEF PutFails, Unlink
<1>5. ASSUME NEW x \in Artifact, UnlinkDoomed(x) \/ UnlinkCandidate(x)
      PROVE  Staged'
  BY <1>3, <1>5 DEF UnlinkDoomed, UnlinkCandidate, Apart
<1>6. ASSUME NEW a \in Audit, DeleteAudit(a) PROVE Staged'
  BY <1>6 DEF DeleteAudit
<1>7. ASSUME NEW a \in Audit, RemoveTree(a) PROVE Staged'
  BY <1>3, <1>7 DEF RemoveTree, Condemned
<1>8. ASSUME NEW c \in Process, ListTemps(c) \/ ListFiles(c) \/ EndSweep(c)
      PROVE  Staged'
  BY <1>8 DEF ListTemps, ListFiles, EndSweep
<1>9. ASSUME NEW c \in Process, NEW x \in Artifact,
             VisitTemp(c, x) \/ VisitFile(c, x)
      PROVE  Staged'
  BY <1>3, <1>9 DEF VisitTemp, VisitFile, Vanished, Apart
<1>10. ASSUME NEW S \in SUBSET Artifact, CollectCandidates(S) PROVE Staged'
  BY <1>10 DEF CollectCandidates
<1>11. CASE DeleteCandidates
  BY <1>11 DEF DeleteCandidates
<1>12. ASSUME NEW c \in Process, Kill(c) PROVE Staged'
  BY <1>12 DEF Kill, Die
<1>13. CASE PowerLoss
  <2>1. \A x \in Artifact : put'[x] \in {"idle", "over"}
    BY <1>13 DEF PowerLoss, Die, PutState, InProgress, Writer, Process
  <2>2. \A x \in Artifact : put'[x] = "idle" => put[x] = "idle"
    BY <1>13 DEF PowerLoss, Die
  <2>3. \A x \in Artifact : place[x] = "none" => place'[x] = "none"
    BY <1>13 DEF PowerLoss, Surviving
  <2> QED
    BY <2>1, <2>2, <2>3
<1>14. CASE UNCHANGED vars
  BY <1>14 DEF vars
<1> QED
  BY <1>1, <1>2, <1>4, <1>5, <1>6, <1>7, <1>8, <1>9, <1>10, <1>11, <1>12, <1>13,
     <1>14 DEF Next

\* No action gives a row to what a deletion or a sweep is about to unlink.
LEMMA CondemnedStep == ASSUME IInv, [Next]_vars PROVE Condemned'
<1> USE DEF IInv, TypeOK, Condemned
<1>1. ASSUME NEW x \in Artifact,
             Open(x) \/ Write(x) \/ SyncFile(x) \/ Rename(x) \/ SyncDirectory(x)
      PROVE  Condemned'
  BY <1>1 DEF Open, Write, SyncFile, Rename, SyncDirectory
<1>2. ASSUME NEW x \in Artifact, Register(x) PROVE Condemned'
  <2>1. x \notin doomed /\ \A c \in Process : x \notin sweep[c].stale
    BY <1>2 DEF Register, Apart
  <2> QED
    BY <1>2, <2>1 DEF Register
<1>3. ASSUME NEW x \in Artifact, DeleteArtifact(x) \/ Age(x) \/ PutFails(x)
                                   \/ UnlinkDoomed(x)
      PROVE  Condemned'
  BY <1>3 DEF DeleteArtifact, Age, PutFails, UnlinkDoomed
<1>4. ASSUME NEW x \in Artifact, UnlinkCandidate(x) PROVE Condemned'
  BY <1>4 DEF UnlinkCandidate
<1>5. ASSUME NEW a \in Audit, DeleteAudit(a) \/ RemoveTree(a) PROVE Condemned'
  BY <1>5, ArtifactAssumption DEF DeleteAudit, RemoveTree
<1>6. ASSUME NEW c \in Process, ListTemps(c) \/ ListFiles(c) \/ EndSweep(c)
      PROVE  Condemned'
  BY <1>6 DEF ListTemps, ListFiles, EndSweep, NoSweep, Sweep
<1>7. ASSUME NEW c \in Process, NEW x \in Artifact,
             VisitTemp(c, x) \/ VisitFile(c, x)
      PROVE  Condemned'
  BY <1>7 DEF VisitTemp, VisitFile, Vanished, NoSweep, Sweep
<1>8. ASSUME NEW S \in SUBSET Artifact, CollectCandidates(S) PROVE Condemned'
  BY <1>8 DEF CollectCandidates
<1>9. CASE DeleteCandidates
  BY <1>9 DEF DeleteCandidates, NoRetention
<1>10. ASSUME NEW P \in SUBSET Process, Die(P), UNCHANGED <<audits, row>>
       PROVE  Condemned'
  BY <1>10 DEF Die, NoSweep, NoRetention
<1>11. ASSUME NEW c \in Process, Kill(c) PROVE Condemned'
  BY <1>10, <1>11 DEF Kill
<1>12. CASE PowerLoss
  BY <1>10, <1>12 DEF PowerLoss
<1>13. CASE UNCHANGED vars
  BY <1>13 DEF vars
<1> QED
  BY <1>1, <1>2, <1>3, <1>4, <1>5, <1>6, <1>7, <1>8, <1>9, <1>11, <1>12, <1>13
     DEF Next

\* No action takes away the file of a row, but for retention.
LEMMA RowBackedStep == ASSUME IInv, [Next]_vars PROVE RowBacked'
<1> USE DEF IInv, TypeOK, RowBacked, Durable
<1>1. ASSUME NEW x \in Artifact,
             Open(x) \/ Write(x) \/ SyncFile(x) \/ Rename(x) \/ SyncDirectory(x)
      PROVE  RowBacked'
  <2>1. x \notin row
    BY <1>1 DEF Open, Write, SyncFile, Rename, SyncDirectory, Apart
  <2> QED
    BY <1>1, <2>1 DEF Open, Write, SyncFile, Rename, SyncDirectory
<1>2. ASSUME NEW x \in Artifact, Register(x) \/ DeleteArtifact(x) \/ Age(x)
      PROVE  RowBacked'
  BY <1>2 DEF Register, DeleteArtifact, Age, Staged
<1>3. ASSUME NEW S \in SUBSET Artifact, Unlink(S),
             \A x \in S : x \notin row \/ x \in Perishable,
             UNCHANGED <<row, content>>
      PROVE  RowBacked'
  BY <1>3 DEF Unlink
<1>4. ASSUME NEW x \in Artifact, PutFails(x) PROVE RowBacked'
  BY <1>3, <1>4 DEF PutFails, Apart, InProgress
<1>5. ASSUME NEW x \in Artifact, UnlinkDoomed(x) \/ UnlinkCandidate(x)
      PROVE  RowBacked'
  BY <1>3, <1>5 DEF UnlinkDoomed, UnlinkCandidate, Condemned
<1>6. ASSUME NEW a \in Audit, DeleteAudit(a) PROVE RowBacked'
  BY <1>6 DEF DeleteAudit
<1>7. ASSUME NEW a \in Audit, RemoveTree(a) PROVE RowBacked'
  BY <1>3, <1>7 DEF RemoveTree, Condemned
<1>8. ASSUME NEW c \in Process, ListTemps(c) \/ ListFiles(c) \/ EndSweep(c)
      PROVE  RowBacked'
  BY <1>8 DEF ListTemps, ListFiles, EndSweep
<1>9. ASSUME NEW c \in Process, NEW x \in Artifact, VisitTemp(c, x)
      PROVE  RowBacked'
  BY <1>3, <1>9 DEF VisitTemp, Vanished
<1>10. ASSUME NEW c \in Process, NEW x \in Artifact, VisitFile(c, x)
       PROVE  RowBacked'
  BY <1>3, <1>10 DEF VisitFile, Vanished, Condemned
<1>11. ASSUME NEW S \in SUBSET Artifact, CollectCandidates(S) PROVE RowBacked'
  BY <1>11 DEF CollectCandidates
<1>12. CASE DeleteCandidates
  BY <1>12 DEF DeleteCandidates
<1>13. ASSUME NEW c \in Process, Kill(c) PROVE RowBacked'
  BY <1>13 DEF Kill
<1>14. CASE PowerLoss
  <2>1. \A x \in Artifact : place[x] \in {"none", "final"} => place'[x] = place[x]
    BY <1>14 DEF PowerLoss, Surviving
  <2>2. \A x \in Artifact : content[x] = "synced" => content'[x] = "synced"
    BY <1>14 DEF PowerLoss
  <2> QED
    BY <1>14, <2>1, <2>2 DEF PowerLoss
<1>15. CASE UNCHANGED vars
  BY <1>15 DEF vars
<1> QED
  BY <1>1, <1>2, <1>4, <1>5, <1>6, <1>7, <1>8, <1>9, <1>10, <1>11, <1>12, <1>13,
     <1>14, <1>15 DEF Next

\* The strengthened invariant.
LEMMA Invariant == Spec => []IInv
<1>1. Init => IInv
  BY DEF Init, IInv, TypeOK, Place, Content, PutState, NoSweep, Sweep, NoRetention,
         Apart, Staged, Condemned, RowBacked
<1>2. IInv /\ [Next]_vars => IInv'
  BY TypeStep, ApartStep, StagedStep, CondemnedStep, RowBackedStep DEF IInv
<1> QED
  BY <1>1, <1>2, PTL DEF Spec

\* Every row of the artifacts table has its complete file, for any number of
\* artifacts and audits and any order of puts, sweeps, deletions and crashes.
THEOREM RowsBacked == Spec => []RowBacked
<1>1. IInv => RowBacked
  BY DEF IInv
<1> QED
  BY <1>1, Invariant, PTL

\* A put in progress loses its file only to the deletion of its audit: the
\* sweeps compare ages, and a put is younger than the age limit.
THEOREM PutsKeepFiles == Spec => PutKeepsFile
<1>1. ASSUME [Next]_vars PROVE audits' = audits \/ place' = place
  BY <1>1 DEF Next, vars, Open, Write, SyncFile, Rename, SyncDirectory,
     Register, PutFails, DeleteArtifact, UnlinkDoomed, UnlinkCandidate, Age,
     DeleteAudit, RemoveTree, ListTemps, ListFiles, EndSweep, Kill, VisitTemp,
     VisitFile, CollectCandidates, DeleteCandidates, PowerLoss
<1>2. ASSUME IInv, [Next]_vars, NEW x \in Artifact,
             put[x] \in InProgress, put'[x] \in InProgress,
             place[x] # "none", place'[x] = "none"
      PROVE  AuditOf[x] \notin audits
  <2>1. audits' = audits
    BY <1>1, <1>2
  <2>2. Staged'
    BY <1>2, StagedStep
  <2> QED
    BY <1>2, <2>1, <2>2 DEF Staged, Durable, InProgress
<1>3. IInv /\ [Next]_vars =>
        [\A x \in Artifact :
           /\ put[x] \in InProgress /\ put'[x] \in InProgress
           /\ place[x] # "none" /\ place'[x] = "none"
           => AuditOf[x] \notin audits]_vars
  BY <1>2
<1> QED
  BY <1>3, Invariant, PTL DEF Spec, PutKeepsFile

=============================================================================
