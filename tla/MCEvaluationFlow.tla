-------------------------- MODULE MCEvaluationFlow --------------------------
(***************************************************************************)
(* Instances of EvaluationFlow for TLC: two evaluations, of an action that *)
(* needs review or of another one, and two approvals.                      *)
(***************************************************************************)
EXTENDS EvaluationFlow, TLC

CONSTANTS e1, e2, r1, r2, yes, sure, risky, plain, s1, here, there

Hash == s1 :> "h1"

\* A bound of the run: contracts change only while the two evaluations are of one
\* action; evaluations of two actions all meet the contract that is watched.
RequestsCompete == \A e, f \in Evaluations : subject[e] = subject[f]

MCFlowInit == FlowInit /\ (RequestsCompete \/ active = Watched)
MCFlowNext == FlowNext /\ (RequestsCompete \/ UNCHANGED active)
MCFlowSpec == MCFlowInit /\ [][MCFlowNext]_vars

Interchangeable == Permutations({e1, e2}) \cup Permutations({r1, r2})
                   \cup Permutations({yes, sure})
=============================================================================
