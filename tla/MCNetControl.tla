---------------------------- MODULE MCNetControl ----------------------------
(***************************************************************************)
(* Two interfaces.  One is given an address or loses it, as a capture      *)
(* interface with or without a lease; the other is given a static address  *)
(* for management, and the operator confirms that its session is there.    *)
(***************************************************************************)
EXTENDS NetControl

Ask(n, r, m, g, c, s) ==
    [nic |-> n, role |-> r, method |-> m, gateway |-> g, confirm |-> c, session |-> s]

MCChanges ==
    {Ask("e0", "capture", "none", FALSE, FALSE, "none"),
     Ask("e0", "capture", "dhcp", FALSE, FALSE, "none"),
     Ask("e1", "management", "static", TRUE, TRUE, "e1")}
=============================================================================
