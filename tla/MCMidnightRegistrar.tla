------------------------ MODULE MCMidnightRegistrar ------------------------
(***************************************************************************)
(* Instances of MidnightRegistrar for TLC: the security check, which       *)
(* rotates twice, next to an operator's rotation, an anchor of the backend *)
(* and a change of the active network.                                     *)
(***************************************************************************)
EXTENDS MidnightRegistrar, TLC

CONSTANTS c1, c2, c3, c4, s1, s2, s3, s4, s5, a1

Hash == s1 :> "h1" @@ s2 :> "h2" @@ s3 :> "h3" @@ s4 :> "h4" @@ s5 :> "h5"

With(first, second) == c1 :> first @@ c2 :> second @@ c3 :> "anchor" @@ c4 :> "network"

\* The last two deploy, once over whatever commands do before and after, once twice,
\* killed and with lost replies.
FaultlessOrFaulty ==
    {[faults |-> {}, setUp |-> TRUE, task |-> With("security-check", "rotate-registrar")],
     [faults |-> Faults, setUp |-> TRUE, task |-> With("revoke-registrar", "rotate-registrar")],
     [faults |-> {}, setUp |-> FALSE, task |-> With("deploy", "rotate-registrar")],
     [faults |-> {"kill", "lostAck"}, setUp |-> FALSE, task |-> With("deploy", "deploy")]}

ManagedByEnvironment ==
    {[faults |-> {"env"}, setUp |-> TRUE, task |-> c1 :> "rotate-registrar" @@ c2 :> "anchor"]}

Allow == [action |-> a1, decision |-> "ALLOW", policyVersion |-> 1, validUntil |-> 1,
          evidenceCount |-> 2, requiredEvidenceCount |-> 2, contradictionCount |-> 0]
OneDraft == {Allow}

Draws == <<s3, s4, s5>>
=============================================================================
