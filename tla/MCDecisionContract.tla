------------------------- MODULE MCDecisionContract -------------------------
(***************************************************************************)
(* An instance of DecisionContract for TLC: two actions, three secrets and *)
(* drafts that each miss one assert, next to the ones that pass them all.  *)
(***************************************************************************)
EXTENDS DecisionContract, TLC

CONSTANTS s1, s2, s3, a1, a2

Hash == s1 :> "h1" @@ s2 :> "h2" @@ s3 :> "h3"

Draft(action, decision, version, validUntil, count, required, contradictions) ==
    [action |-> action, decision |-> decision, policyVersion |-> version,
     validUntil |-> validUntil, evidenceCount |-> count,
     requiredEvidenceCount |-> required, contradictionCount |-> contradictions]

SomeDrafts ==
    {Draft(a1, "ALLOW", 1, 2, 2, 2, 0), Draft(a2, "ALLOW", 1, 1, 3, 2, 0),
     Draft(a1, "REVIEW_REQUIRED", 1, 2, 1, 2, 0), Draft(a2, "DENY", 1, 2, 2, 2, 1),
     Draft(a2, "ALLOW", 1, 2, 1, 2, 0), Draft(a2, "ALLOW", 1, 2, 2, 2, 1),
     Draft(a1, "ALLOW", 1, 2, 0, 0, 0), Draft(a1, "ALLOW", 0, 2, 2, 2, 0)}
=============================================================================
