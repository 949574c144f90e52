--------------------------- MODULE MCServiceAccess ---------------------------
(***************************************************************************)
(* Instances of ServiceAccess for TLC: an operator gives the orchestrator  *)
(* more scopes, adds a second executor, or drops the key of the approver.  *)
(***************************************************************************)
EXTENDS ServiceAccess

Principal(id, kind, scopes) ==
    [id |-> id, kind |-> kind, scopes |-> scopes, token |-> <<id, 1>>]

Mighty ==
    [Generated(1) EXCEPT !.principals =
        {IF p.kind = "orchestrator" THEN [p EXCEPT !.scopes = @ \cup {"permit:execute"}] ELSE p
            : p \in @}]

MCEdits ==
    {Mighty,
     [Generated(1) EXCEPT !.principals =
        @ \cup {Principal("second", "executor", {"permit:execute"})}],
     [Generated(1) EXCEPT !.principals =
        @ \cup {[Principal("shared", "approver", {"approval:create"}) EXCEPT
                    !.token = <<"executor", 1>>]}],
     [Generated(1) EXCEPT !.approverKeys = {}]}
=============================================================================
