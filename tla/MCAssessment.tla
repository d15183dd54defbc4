---------------------------- MODULE MCAssessment ----------------------------
(***************************************************************************)
(* A web server, whose certificate is about to expire and which may be     *)
(* repaired, and a directory server that may stop answering.               *)
(***************************************************************************)
EXTENDS Assessment

Reachable(protocol, port, name, tokens) ==
    [protocol |-> protocol, port |-> port, name |-> name, tokens |-> tokens,
     tunnel |-> "", products |-> {}]

MCRecordOf ==
    [s \in Services |-> IF s = "web" THEN Reachable("tcp", 443, "https", {"http", "https"})
                                     ELSE Reachable("tcp", 389, "ldap", {"ldap"})]

MCAnswers ==
    [s \in Services |->
       IF s = "web"
         THEN {{"tls1.0", "certificate", "expires", "strict-transport-security",
                "x-frame-options", "content-security-policy"},
               {"strict-transport-security"}}
         ELSE {{"rootdse"}, {}}]

MCPassiveResults == {[sensors |-> {"llmnr"}, servers |-> 1]}
=============================================================================
