--------------------------- MODULE OneTimePermit ---------------------------
(***************************************************************************)
(* What the execution gate promises to the owner of a permit, with no      *)
(* handler, store or HTTP exchange in it: a permit is claimed by at most   *)
(* one execution, permits for the same action nonce exclude each other,    *)
(* the outside world is touched at most once per permit and only under a   *)
(* claim, and the verdict on a claim is given once.                        *)
(*                                                                         *)
(* A wipe (POST /api/reset) forgets the claims.  A forgotten claim that    *)
(* was already under way may still fire, so it is kept as an orphan.       *)
(***************************************************************************)
EXTENDS Naturals

CONSTANTS Permits,   \* identifiers of issued permits
          Nonces,    \* requestIds of the permitted actions
          NonceOf    \* the nonce of each permit, in [Permits -> Nonces]

VARIABLES claimed,   \* permits claimed in the current database
          orphaned,  \* permits whose claim a wipe forgot
          firings,   \* how often the effect of a permit reached the outside world
          verdict    \* what the gate recorded about the claim of a permit

promise == <<claimed, orphaned, firings, verdict>>

Verdicts == {"open", "succeeded", "failed"}

PromiseTypeOK ==
    /\ claimed \subseteq Permits
    /\ orphaned \subseteq Permits
    /\ firings \in [Permits -> Nat]
    /\ verdict \in [Permits -> Verdicts]

PromiseInit ==
    /\ claimed = {}
    /\ orphaned = {}
    /\ firings = [p \in Permits |-> 0]
    /\ verdict = [p \in Permits |-> "open"]

Claim(p) ==
    /\ p \notin claimed \cup orphaned
    /\ \A q \in claimed : NonceOf[q] # NonceOf[p]
    /\ claimed' = claimed \cup {p}
    /\ UNCHANGED <<orphaned, firings, verdict>>

Fire(p) ==
    /\ p \in claimed \cup orphaned
    /\ firings[p] = 0
    /\ firings' = [firings EXCEPT ![p] = 1]
    /\ UNCHANGED <<claimed, orphaned, verdict>>

\* Success may be recorded only of an effect that happened.
Settle(p, v) ==
    /\ p \in claimed
    /\ verdict[p] = "open"
    /\ v = "succeeded" => firings[p] = 1
    /\ verdict' = [verdict EXCEPT ![p] = v]
    /\ UNCHANGED <<claimed, orphaned, firings>>

Wipe ==
    /\ claimed' = {}
    /\ orphaned' = orphaned \cup claimed
    /\ UNCHANGED <<firings, verdict>>

PromiseNext ==
    \/ \E p \in Permits : Claim(p) \/ Fire(p)
    \/ \E p \in Permits, v \in Verdicts \ {"open"} : Settle(p, v)
    \/ Wipe

PromiseSpec == PromiseInit /\ [][PromiseNext]_promise
=============================================================================
