-------------------------- MODULE MCExecutionGate --------------------------
(***************************************************************************)
(* Instances of ExecutionGate for TLC.  p1 and p2 are two permits for one  *)
(* action (one nonce), as two ALLOW evaluations of it give; p3 permits     *)
(* a deployment to production, which the executor does not accept.         *)
(***************************************************************************)
EXTENDS ExecutionGate, TLC

CONSTANTS c1, c2, c3, k1, k2, p1, p2, p3, n1, n2, preview, preprod

OneNonce    == p1 :> n1 @@ p2 :> n1
LocalAnchor == p1 :> LocalSimulator @@ p2 :> LocalSimulator
MixedAnchor == p1 :> preview @@ p2 :> LocalSimulator

TwoNonces   == p1 :> n1 @@ p3 :> n2
LocalAnchors == p1 :> LocalSimulator @@ p3 :> LocalSimulator

SameCallsAndKeys == Permutations({c1, c2}) \cup Permutations({k1, k2})
Interchangeable ==
    Permutations({c1, c2, c3}) \cup Permutations({k1, k2}) \cup Permutations({p1, p2})
=============================================================================
