---------------------------- MODULE PolicyEngine ----------------------------
(***************************************************************************)
(* evaluateEvidencePolicy (packages/core/src/policy.ts), the receipt       *)
(* signature (evidence.ts) and the Merkle root of the accepted receipts    *)
(* (merkle.ts), for one scenario of packages/shared/src/scenarios.ts.      *)
(*                                                                         *)
(* A receipt names its action by the action commitment, which covers every *)
(* field receiptMatchesAction compares.  Hashes are the terms they hash.   *)
(***************************************************************************)
EXTENDS Integers, FiniteSets, Sequences, SequencesExt

CONSTANTS
    Actions,
    ReviewActions,     \* beyond maxValueWithoutReview or for a reviewed environment
    ExcessiveActions,  \* beyond maxValueAllowed
    Sources,           \* sources of the scenario and "user-declaration"
    ClassOf, ClaimOf,  \* sourceClass and claimType of a source
    RequiredSources,   \* role "required"
    ReviewSources,     \* role "review"
    MaxAge             \* maxAgeMinutes

SelfDeclared == "self_declared"

ASSUME PolicyAssumption ==
    /\ ReviewActions \subseteq Actions /\ ExcessiveActions \subseteq Actions
    /\ IsFiniteSet(Sources)
    /\ RequiredSources \cup ReviewSources \subseteq Sources
    /\ RequiredSources \cap ReviewSources = {}
    /\ ClassOf \in [Sources -> STRING] /\ ClaimOf \in [Sources -> STRING]
    /\ \A s \in Sources : s \in RequiredSources \cup ReviewSources <=> ClassOf[s] # SelfDeclared
    /\ \A s, t \in RequiredSources \cup ReviewSources : ClassOf[s] = ClassOf[t] => s = t
    /\ MaxAge \in Nat \ {0}

\* buildScenario: a claim per source, expected in its field "status".
ClaimsOf(sources) == {[claimType |-> ClaimOf[s], sourceClass |-> ClassOf[s]] : s \in sources}
RequiredClaims == ClaimsOf(RequiredSources)
ReviewRequiredClaims == ClaimsOf(ReviewSources)
MinIndependentSources == Cardinality(RequiredSources)

-----------------------------------------------------------------------------
\* signedBy is the generation whose origin key signed the receipt, 0 for none; the
\* database names the public keys of its own generation.
VerifyEvidenceReceipt(receipt, generation) == receipt.signedBy = generation

Verified(receipt, generation) ==
    /\ ClassOf[receipt.source] # SelfDeclared
    /\ VerifyEvidenceReceipt(receipt, generation)

MutFreshInFuture(receipt, now) == receipt.expiresAt >= now /\ now - receipt.observedAt <= MaxAge
IsFresh(receipt, now) ==
    /\ receipt.expiresAt >= now
    /\ now - receipt.observedAt \in 0..MaxAge

\* The receipts of evidence, by id, that the evaluation of an action considers.
Considered(evidence, action, generation, now) ==
    {i \in DOMAIN evidence : /\ evidence[i].action = action
                             /\ Verified(evidence[i], generation)
                             /\ IsFresh(evidence[i], now)}

Answers(receipt, requirement) ==
    /\ ClaimOf[receipt.source] = requirement.claimType
    /\ ClassOf[receipt.source] = requirement.sourceClass

MerkleLevel(leaves) == [i \in DOMAIN leaves |-> <<"leaf", leaves[i]>>]

\* An odd level pairs its last hash with itself.
MutHashPairs(level) ==
    [i \in 1..(Len(level) \div 2) |-> <<"pair", level[2 * i - 1], level[2 * i]>>]
HashPairs(level) ==
    [i \in 1..((Len(level) + 1) \div 2) |->
        <<"pair", level[2 * i - 1], level[IF 2 * i <= Len(level) THEN 2 * i ELSE 2 * i - 1]>>]

\* level[n] is the level after n rounds; rounds stop at one hash.
MerkleRoot(leaves) ==
    LET level[n \in Nat] == IF n = 0 THEN MerkleLevel(leaves)
                            ELSE IF Len(level[n - 1]) <= 1 THEN level[n - 1]
                            ELSE HashPairs(level[n - 1])
    IN  IF leaves = <<>> THEN <<"empty">> ELSE Head(level[Len(leaves)])

\* Sorted by id, each once: the k-th id has k - 1 ids below it.
IdsInOrder(ids) ==
    [k \in 1..Cardinality(ids) |-> CHOOSE i \in ids : Cardinality({j \in ids : j < i}) = k - 1]

-----------------------------------------------------------------------------
\* A consistent receipt has the status its claim expects and the action's value; a
\* contradictory one has neither, and its source is told of twice.
Matching(evidence, considered, claims) ==
    {i \in considered : /\ \E claim \in claims : Answers(evidence[i], claim)
                        /\ evidence[i].consistent}

Missing(evidence, considered, claims) ==
    {claim \in claims :
        \A i \in considered : Answers(evidence[i], claim) => ~evidence[i].consistent}

Contradictions(evidence, considered) ==
    {evidence[i].source : i \in {j \in considered : ~evidence[j].consistent}}
        \X {"status", "value"}

MutEvidenceIds(evidence, considered) == Matching(evidence, considered, RequiredClaims)
EvidenceIds(evidence, considered) ==
    Matching(evidence, considered, RequiredClaims \cup ReviewRequiredClaims)

EvaluateEvidencePolicy(evidence, action, generation, now) ==
    LET considered     == Considered(evidence, action, generation, now)
        accepted       == EvidenceIds(evidence, considered)
        contradictions == Contradictions(evidence, considered)
        sources        == {evidence[i].source : i \in accepted}
        reviewRequired == action \in ReviewActions
        missing        == \/ Missing(evidence, considered, RequiredClaims) # {}
                          \/ Cardinality(sources) < MinIndependentSources
        reviewMissing  == Missing(evidence, considered, ReviewRequiredClaims) # {}
    IN  [status |->
            IF action \in ExcessiveActions \/ missing \/ contradictions # {} THEN "DENY"
            ELSE IF reviewRequired /\ (ReviewRequiredClaims = {} \/ reviewMissing)
                 THEN "REVIEW_REQUIRED"
            ELSE "ALLOW",
         evidenceIds        |-> accepted,
         independentSources |-> Cardinality(sources),
         requiredSources    |-> MinIndependentSources
                                + IF reviewRequired THEN Cardinality(ReviewRequiredClaims) ELSE 0,
         contradictionCount |-> Cardinality(contradictions),
         evidenceRoot       |-> MerkleRoot(IdsInOrder(accepted))]
=============================================================================
