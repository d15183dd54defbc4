----------------------------- MODULE MCHandlers -----------------------------
(***************************************************************************)
(* What a handler is given, whom it may talk to and what it leaves behind: *)
(* the files handed to the worker through cancellations, kills and         *)
(* cleanups, the confirmed scopes and the packets sent under them, and the *)
(* steps of every handler with its tool.  The three share no variable;     *)
(* part says which of them runs, the others stay as they start.            *)
(***************************************************************************)
EXTENDS MCHandOff, MCScopeProbes, Handlers

VARIABLE part

MCInit ==
    /\ part \in {"files", "scope", "handlers"}
    /\ Init /\ HandlerInit /\ ScopeInit
    /\ part # "handlers" => plan = "findings"
    /\ part # "scope" => host = Wide

MCNext ==
    \/ part = "files" /\ Next /\ UNCHANGED <<part, scopeVars, handlerVars>>
    \/ part = "scope" /\ ScopeNext /\ UNCHANGED <<part, vars, handlerVars>>
    \/ part = "handlers" /\ HandlerNext /\ UNCHANGED <<part, vars, scopeVars>>

MCSpec ==
    /\ MCInit /\ [][MCNext]_<<part, vars, scopeVars, handlerVars>>
    /\ part = "files" => HandOffFairness
    /\ part = "handlers" => HandlerFairness

\* Every execution of a handler ends, whatever its tool does: by the deadline of
\* ToolRunner.run, by a cancellation or by itself (HandlerEnds).
HandlersEnd == part = "handlers" => HandlerEnds
=============================================================================
