------------------------------ MODULE Installer ------------------------------
(***************************************************************************)
(* The installer of the appliance (appliance/install.py), which is also    *)
(* its upgrade: a sequence of steps, each of which may raise, run again    *)
(* and again with other options on what earlier, possibly killed, runs     *)
(* have left.  Password files are copied to where the service account can  *)
(* read them, used by a second process to create the first accounts, and   *)
(* removed.                                                                *)
(***************************************************************************)
EXTENDS Naturals

CONSTANTS
    Options,        \* command lines of cmd_install
    MaxGenerated    \* bound: passwords the installer generates

VARIABLES
    step,           \* where the running installation is
    options,        \* its command line
    installed,      \* what the steps have put in place
    environment,    \* bind address in wirescope.env
    accounts,       \* password of each account; 0 where there is none
    initialAdmin,   \* password in initial-admin.txt, 0 if there is no such file
    given,          \* password files of the operator that still exist
    copies,         \* passwords in runtime/bootstrap, 0 where there is none
    services,       \* are the API and the worker enabled and started?
    kioskEnabled,
    generated,      \* passwords generated so far
    removed         \* history: initial-admin.txt was removed on request

instVars == <<step, options, installed, environment, accounts, initialAdmin, given,
              copies, services, kioskEnabled, generated, removed>>

Names == {"auditor", "viewer"}

Option == [userSession : BOOLEAN, packages : BOOLEAN, overwriteEnv : BOOLEAN,
           bind : {"loopback", "lan"}, trustProxy : BOOLEAN, generate : BOOLEAN,
           auditorFile : BOOLEAN, viewerFile : BOOLEAN, consume : BOOLEAN,
           start : BOOLEAN, kiosk : BOOLEAN]

ASSUME OptionsAssumption == Options \subseteq Option /\ MaxGenerated \in Nat

\* The order of install(); the creation of accounts is several steps.
Following ==
    [packages |-> "account", account |-> "directories", directories |-> "env", env |-> "netctl",
     netctl |-> "proxy", proxy |-> "venv", venv |-> "dumpcap", dumpcap |-> "units",
     units |-> "kioskFiles", kioskFiles |-> "migrate", migrate |-> "password",
     password |-> "copyAuditor", copyAuditor |-> "copyViewer", copyViewer |-> "bootstrap",
     bootstrap |-> "unlink", unlink |-> "start", start |-> "done"]
InstallSteps == DOMAIN Following \cup {"done"}
After(s) == Following[s]

At(s) == step = s
Advance == step' = After(step)
Given(name) == IF name = "auditor" THEN options.auditorFile ELSE options.viewerFile
\* The operator's own password files; generated passwords are larger.
OwnPassword == 1

InstInit ==
    /\ step = "idle"
    /\ options \in Options
    /\ installed = {}
    /\ environment = "none"
    /\ accounts = [n \in Names |-> 0]
    /\ initialAdmin = 0
    /\ given = Names
    /\ copies = [n \in Names |-> 0]
    /\ services = FALSE /\ kioskEnabled = FALSE
    /\ generated = 0 /\ removed = FALSE

Install(o) ==
    /\ At("idle")
    /\ options' = o
    /\ step' = "packages"
    /\ UNCHANGED <<installed, environment, accounts, initialAdmin, given, copies,
                   services, kioskEnabled, generated, removed>>

\* InstallError, HostError, BootstrapError, a signal or a power cut.
InstallFails ==
    /\ step \notin {"idle", "done"}
    /\ step' = "idle"
    /\ UNCHANGED <<options, installed, environment, accounts, initialAdmin, given,
                   copies, services, kioskEnabled, generated, removed>>

-----------------------------------------------------------------------------
\* Steps that put one thing in place and are skipped or repeated without harm:
\* packages, the account and its groups, directories, the network helper with
\* its sudoers file, proxy samples, the virtual environment, unit files.
PutInPlace(s, wanted) ==
    /\ At(s)
    /\ installed' = IF wanted THEN installed \cup {s} ELSE installed
    /\ Advance
    /\ UNCHANGED <<options, environment, accounts, initialAdmin, given, copies,
                   services, kioskEnabled, generated, removed>>

InstallPackages == PutInPlace("packages", options.packages /\ ~options.userSession)
InstallAccount == PutInPlace("account", TRUE)
InstallDirectories == PutInPlace("directories", TRUE)
InstallNetctl == PutInPlace("netctl", ~options.userSession)
InstallProxyExamples == PutInPlace("proxy", TRUE)
InstallVenv == PutInPlace("venv", TRUE)
InstallUnits == PutInPlace("units", TRUE)
InstallKioskFiles == PutInPlace("kioskFiles", TRUE)
Migrate == PutInPlace("migrate", TRUE)

\* configure_dumpcap: group, owner, mode and capabilities are set, then the
\* result is inspected; a user session may only inspect it.
InstallDumpcap ==
    /\ At("dumpcap")
    /\ installed' = IF options.userSession THEN installed
                    ELSE installed \cup {"dumpcap"}
    /\ Advance
    /\ UNCHANGED <<options, environment, accounts, initialAdmin, given, copies,
                   services, kioskEnabled, generated, removed>>

\* An existing file is kept, but for a loopback address that the options replace
\* by one of the LAN.
Promotes ==
    ~options.userSession /\ ~options.trustProxy /\ options.bind = "lan"

InstallEnv ==
    /\ At("env")
    /\ environment' =
          IF environment = "none" \/ options.overwriteEnv THEN options.bind
          ELSE IF environment = "loopback" /\ Promotes THEN options.bind
          ELSE environment
    /\ Advance
    /\ UNCHANGED <<options, installed, accounts, initialAdmin, given, copies,
                   services, kioskEnabled, generated, removed>>

-----------------------------------------------------------------------------
\* The first half of _bootstrap_admin: which file holds the password?  Without
\* one no account is created.
Password ==
    /\ At("password")
    /\ IF options.auditorFile
         THEN Advance /\ UNCHANGED <<initialAdmin, generated>>
         ELSE IF ~options.generate
         THEN step' = "start" /\ UNCHANGED <<initialAdmin, generated>>
         ELSE /\ Advance
              /\ IF initialAdmin # 0 THEN UNCHANGED <<initialAdmin, generated>>
                 ELSE /\ generated < MaxGenerated
                      /\ generated' = generated + 1
                      /\ initialAdmin' = OwnPassword + generated'
    /\ UNCHANGED <<options, installed, environment, accounts, given, copies,
                   services, kioskEnabled, removed>>

\* password_from_host raises where the file is missing: see InstallFails.
CopyPassword(name) ==
    /\ step = IF name = "auditor" THEN "copyAuditor" ELSE "copyViewer"
    /\ IF name = "viewer" /\ ~options.viewerFile THEN UNCHANGED copies
       ELSE IF Given(name)
         THEN name \in given /\ copies' = [copies EXCEPT ![name] = OwnPassword]
         ELSE copies' = [copies EXCEPT ![name] = initialAdmin]
    /\ Advance
    /\ UNCHANGED <<options, installed, environment, accounts, initialAdmin, given,
                   services, kioskEnabled, generated, removed>>

\* create_initial_operators: nothing if there is any account; each account is
\* committed by itself, and the second may fail.
FirstAccounts(o, all) ==
    IF \E n \in Names : accounts[n] # 0 THEN accounts
    ELSE [n \in Names |-> IF n = "auditor" \/ (all /\ o.viewerFile)
                            THEN copies[n] ELSE 0]

Bootstrap(all) ==
    /\ At("bootstrap")
    /\ accounts' = FirstAccounts(options, all)
    /\ Advance
    /\ UNCHANGED <<options, installed, environment, initialAdmin, given, copies,
                   services, kioskEnabled, generated, removed>>

\* A failed bootstrap that also takes the generated password away.
MutUnlinkCopies(ok) ==
    /\ At("unlink")
    /\ copies' = [n \in Names |-> 0]
    /\ initialAdmin' = IF ok THEN initialAdmin ELSE 0
    /\ step' = IF ok THEN After(step) ELSE "idle"
    /\ UNCHANGED <<options, installed, environment, accounts, given, services,
                   kioskEnabled, generated, removed>>

\* The copies, and with consume_password_files the originals, are removed before
\* the result of the process is looked at.
UnlinkCopies(ok) ==
    /\ At("unlink")
    /\ copies' = [n \in Names |-> IF n = "auditor" \/ options.viewerFile
                                    THEN 0 ELSE copies[n]]
    /\ given' = IF options.consume THEN given \ {n \in Names : Given(n)} ELSE given
    /\ initialAdmin' = IF options.consume /\ ~options.auditorFile THEN 0 ELSE initialAdmin
    /\ removed' = (removed \/ (options.consume /\ ~options.auditorFile))
    /\ step' = IF ok THEN After(step) ELSE "idle"
    /\ UNCHANGED <<options, installed, environment, accounts, services,
                   kioskEnabled, generated>>

\* daemon-reload and enable --now, where systemd runs; the kiosk needs Chromium
\* and, in a user session, a display, and never fails the installation.
StartServices(systemd, kiosk) ==
    /\ At("start")
    /\ services' = (services \/ (options.start /\ systemd))
    /\ kioskEnabled' = 
          (kioskEnabled \/ (options.start /\ systemd /\ options.kiosk /\ kiosk))
    /\ Advance
    /\ UNCHANGED <<options, installed, environment, accounts, initialAdmin, given,
                   copies, generated, removed>>

Finish ==
    /\ At("done")
    /\ step' = "idle"
    /\ UNCHANGED <<options, installed, environment, accounts, initialAdmin, given,
                   copies, services, kioskEnabled, generated, removed>>

\* The operator reads the file and removes it, as the documentation says.
RemoveInitialAdmin ==
    /\ At("idle") /\ initialAdmin # 0 /\ accounts["auditor"] # 0
    /\ initialAdmin' = 0
    /\ removed' = TRUE
    /\ UNCHANGED <<step, options, installed, environment, accounts, given, copies,
                   services, kioskEnabled, generated>>

InstNext ==
    \/ \E o \in Options : Install(o)
    \/ InstallFails
    \/ InstallPackages \/ InstallAccount \/ InstallDirectories \/ InstallNetctl
    \/ InstallProxyExamples \/ InstallVenv \/ InstallUnits \/ InstallKioskFiles
    \/ Migrate
    \/ InstallDumpcap \/ InstallEnv \/ Password
    \/ \E n \in Names : CopyPassword(n)
    \/ \E all \in BOOLEAN : Bootstrap(all)
    \/ \E ok \in BOOLEAN : UnlinkCopies(ok)
    \/ \E systemd, kiosk \in BOOLEAN : StartServices(systemd, kiosk)
    \/ Finish
    \/ RemoveInitialAdmin

InstSpec == InstInit /\ [][InstNext]_instVars

-----------------------------------------------------------------------------
InstTypeOK ==
    /\ step \in {"idle"} \cup InstallSteps
    /\ options \in Options
    /\ environment \in {"none", "loopback", "lan"}
    /\ accounts \in [Names -> 0..MaxGenerated + 1]
    /\ initialAdmin \in 0..MaxGenerated + 1
    /\ copies \in [Names -> 0..MaxGenerated + 1]

(***************************************************************************)
(* The services are started on a complete installation only: whatever runs *)
(* failed or were killed before, there is a configuration, a virtual       *)
(* environment, the units, and a migrated database.                        *)
(***************************************************************************)
StartedComplete ==
    services => /\ environment # "none"
                /\ {"account", "directories", "venv", "units", "migrate"} \subseteq installed

(***************************************************************************)
(* The password of the first account is never lost: if it was generated,   *)
(* initial-admin.txt holds it until it is removed on request, however      *)
(* often installations are killed and repeated.                            *)
(***************************************************************************)
FirstPasswordKept ==
    accounts["auditor"] > OwnPassword /\ ~removed => initialAdmin = accounts["auditor"]
=============================================================================
