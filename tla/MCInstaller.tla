---------------------------- MODULE MCInstaller ----------------------------
(***************************************************************************)
(* Five command lines: the usual one, a kiosk behind a proxy that is not   *)
(* started, a user session without generated password, password files that *)
(* are consumed, and a generated password with consumed files.             *)
(***************************************************************************)
EXTENDS Installer

Plain ==
    [userSession |-> FALSE, packages |-> TRUE, overwriteEnv |-> FALSE, bind |-> "lan",
     trustProxy |-> FALSE, generate |-> TRUE, auditorFile |-> FALSE, viewerFile |-> FALSE,
     consume |-> FALSE, start |-> TRUE, kiosk |-> FALSE]

MCOptions ==
    {Plain,
     [Plain EXCEPT !.bind = "loopback", !.trustProxy = TRUE, !.viewerFile = TRUE,
                   !.kiosk = TRUE, !.start = FALSE],
     [Plain EXCEPT !.generate = FALSE, !.userSession = TRUE, !.packages = FALSE,
                   !.overwriteEnv = TRUE],
     [Plain EXCEPT !.auditorFile = TRUE, !.viewerFile = TRUE, !.consume = TRUE],
     [Plain EXCEPT !.consume = TRUE]}
=============================================================================
