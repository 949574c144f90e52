-------------------------- MODULE MCEvidenceIntake --------------------------
(***************************************************************************)
(* Instances of EvidenceIntake for TLC: the origins and approvals of an    *)
(* action that needs review, with a contradiction; stale keys and          *)
(* declarations beside an action beyond all limits; simulations of two     *)
(* actions, or over a reset; the GitHub App with and without its webhook.  *)
(***************************************************************************)
EXTENDS EvidenceIntake

CONSTANTS plain, risky, huge, v1, v2, w

MCClassOf == [identity |-> "signed_identity", ci |-> "signed_ci",
              approval |-> "signed_approval", user |-> SelfDeclared]
MCClaimOf == [identity |-> "agent_authenticated", ci |-> "pipeline_passed",
              approval |-> "production_approved", user |-> "agent_authenticated"]
MCRequestOf == (plain :> "request" @@ risky :> "other" @@ huge :> "request")
MCBuilds == (w :> {plain, huge})

About(sources, subjects, requests, receipts) ==
    [sources |-> sources, subjects |-> subjects, requests |-> requests, callers |-> {},
     deliveryIds |-> {}, requireWebhook |-> TRUE, receipts |-> receipts]

AboutCi(settings, callers, deliveryIds) ==
    [settings EXCEPT !.callers = callers, !.deliveryIds = deliveryIds,
                     !.requireWebhook = deliveryIds # {}]

MCSettings ==
    {About({"identity", "ci", "approval"}, {risky}, {"evaluate"}, 4),
     About({"identity", "ci", "user"}, {plain, huge}, {"reset"}, 3),
     About({}, {plain, risky}, {"simulate", "expire"}, 4),
     About({"ci"}, {plain}, {"simulate", "reset"}, 3),
     AboutCi(About({}, {plain}, {"reset"}, 2), {v1}, {"d1", "d2", "d3"}),
     AboutCi(About({}, {plain}, {}, 2), {v1, v2}, {"d1", "d2"}),
     AboutCi(About({}, {plain}, {"reset"}, 2), {v1, v2}, {}),
     AboutCi(About({"ci"}, {plain}, {}, 2), {v1}, {})}

Interchangeable == Permutations({v1, v2})
=============================================================================
