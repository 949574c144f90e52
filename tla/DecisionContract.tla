-------------------------- MODULE DecisionContract --------------------------
(***************************************************************************)
(* The Compact contract midnight/contract/hello-world.compact: the public  *)
(* ledger and its three circuits.  A circuit call is one transaction and   *)
(* is applied atomically or not at all (a failed assert changes nothing).  *)
(* Callers are anonymous: whoever knows the secret behind the registrar    *)
(* commitment is the registrar, so every action has the secret the witness *)
(* registrarSecret() returns as a parameter.                               *)
(***************************************************************************)
EXTENDS Naturals

CONSTANTS
    Secrets,        \* 32-byte registrar secrets
    Commitments,    \* values of deriveRegistrarCommitment
    CommitmentOf,   \* the domain-separated hash, free of collisions
    Actions,        \* action commitments
    Drafts,         \* arguments callers pass to registerDecision
    MaxTime,        \* bounds of the model: block time, anchors, rotations
    MaxAnchors,
    MaxEpoch

Decisions == {"DENY", "REVIEW_REQUIRED", "ALLOW"}

\* evidenceRoot and policyCommitment are stored and never looked at.
Anchor == [action : Actions, decision : Decisions, policyVersion : Nat,
           validUntil : Nat, evidenceCount : Nat, requiredEvidenceCount : Nat,
           contradictionCount : Nat]

ASSUME ContractAssumption ==
    /\ CommitmentOf \in [Secrets -> Commitments]
    /\ \A s, t \in Secrets : CommitmentOf[s] = CommitmentOf[t] => s = t
    /\ Drafts \subseteq Anchor
    /\ {MaxTime, MaxAnchors} \subseteq Nat
    /\ MaxEpoch \in Nat \ {0}

VARIABLES
    registrarCommitment,
    registrarRevoked,
    registrarEpoch,
    anchors,             \* Map<Uint<64>, DecisionAnchor>
    usedAllowActions,    \* Set<Bytes<32>>
    nextId,
    blockTime

registrar == <<registrarCommitment, registrarRevoked, registrarEpoch>>
register  == <<anchors, usedAllowActions, nextId>>
ledger    == <<registrar, register, blockTime>>

LedgerTypeOK ==
    /\ registrarCommitment \in Commitments
    /\ registrarRevoked \in BOOLEAN
    /\ registrarEpoch \in 1..MaxEpoch
    /\ nextId \in 0..MaxAnchors
    /\ anchors \in [1..nextId -> Anchor]
    /\ usedAllowActions \subseteq Actions
    /\ blockTime \in 0..MaxTime

\* The constructor, run with the deployer's secret.
Deploy(secret) ==
    /\ registrarCommitment = CommitmentOf[secret]
    /\ registrarRevoked = FALSE
    /\ registrarEpoch = 1
    /\ anchors = [id \in {} |-> id]
    /\ usedAllowActions = {}
    /\ nextId = 0
    /\ blockTime = 0

LedgerInit == \E secret \in Secrets : Deploy(secret)

MutAnyRegistrar(secret) == secret \in Secrets
RequireRegistrar(secret) == registrarCommitment = CommitmentOf[secret]

\* The asserts of registerDecision that do not depend on the decision.
MutAdmissibleWithoutRevocation(draft) ==
    /\ draft.policyVersion > 0
    /\ blockTime < draft.validUntil
    /\ draft.requiredEvidenceCount > 0
MutAdmissibleAtExpiry(draft) ==
    /\ ~registrarRevoked
    /\ draft.policyVersion > 0
    /\ blockTime <= draft.validUntil
    /\ draft.requiredEvidenceCount > 0
Admissible(draft) ==
    /\ ~registrarRevoked
    /\ draft.policyVersion > 0
    /\ blockTime < draft.validUntil
    /\ draft.requiredEvidenceCount > 0

\* The asserts of its ALLOW branch.
MutAllowReplayable(draft) ==
    /\ draft.evidenceCount >= draft.requiredEvidenceCount
    /\ draft.contradictionCount = 0
MutAllowOneShort(draft) ==
    /\ draft.evidenceCount + 1 >= draft.requiredEvidenceCount
    /\ draft.contradictionCount = 0
    /\ draft.action \notin usedAllowActions
AllowBacked(draft) ==
    /\ draft.evidenceCount >= draft.requiredEvidenceCount
    /\ draft.contradictionCount = 0
    /\ draft.action \notin usedAllowActions

MutMarkedAlways(draft) == usedAllowActions \cup {draft.action}
Marked(draft) == IF draft.decision = "ALLOW" THEN usedAllowActions \cup {draft.action}
                                            ELSE usedAllowActions

\* A Counter's value is read after its increment: the first anchor has id 1.
MutNewIdBeforeIncrement == nextId
NewId == nextId + 1

RegisterDecision(secret, draft) ==
    /\ RequireRegistrar(secret)
    /\ Admissible(draft)
    /\ draft.decision = "ALLOW" => AllowBacked(draft)
    /\ nextId < MaxAnchors
    /\ usedAllowActions' = Marked(draft)
    /\ nextId' = nextId + 1
    /\ anchors' = [id \in DOMAIN anchors \cup {NewId} |->
                     IF id = NewId THEN draft ELSE anchors[id]]
    /\ UNCHANGED <<registrar, blockTime>>

\* Also the recovery from a revocation: a revoked registrar may still rotate.
RotateRegistrar(secret, nextSecret) ==
    /\ RequireRegistrar(secret)
    /\ registrarCommitment # CommitmentOf[nextSecret]
    /\ registrarEpoch < MaxEpoch
    /\ registrarCommitment' = CommitmentOf[nextSecret]
    /\ registrarRevoked' = FALSE
    /\ registrarEpoch' = registrarEpoch + 1
    /\ UNCHANGED <<register, blockTime>>

RevokeRegistrar(secret) ==
    /\ RequireRegistrar(secret)
    /\ registrarRevoked' = TRUE
    /\ UNCHANGED <<registrarCommitment, registrarEpoch, register, blockTime>>

NextBlock ==
    /\ blockTime < MaxTime
    /\ blockTime' = blockTime + 1
    /\ UNCHANGED <<registrar, register>>

LedgerNext ==
    \/ \E secret \in Secrets, draft \in Drafts : RegisterDecision(secret, draft)
    \/ \E secret, nextSecret \in Secrets : RotateRegistrar(secret, nextSecret)
    \/ \E secret \in Secrets : RevokeRegistrar(secret)
    \/ NextBlock

LedgerSpec == LedgerInit /\ [][LedgerNext]_ledger

-----------------------------------------------------------------------------
AllowIds == {id \in DOMAIN anchors : anchors[id].decision = "ALLOW"}

\* No two ALLOW anchors name the same action, whoever the registrars were
\* between them (assert "ALLOW action already anchored").
OneAllowPerAction ==
    \A i, j \in AllowIds : anchors[i].action = anchors[j].action => i = j

\* usedAllowActions, which the assert reads, is exactly what the anchors say:
\* an action that was only denied or sent to review can still be allowed.
UsedActionsAreAnchored ==
    usedAllowActions = {anchors[id].action : id \in AllowIds}

\* Every ALLOW a reader finds on the ledger rested on enough evidence without
\* contradictions, whatever the caller passed.
AllowsAreBacked ==
    \A id \in AllowIds :
        /\ anchors[id].requiredEvidenceCount \in 1..anchors[id].evidenceCount
        /\ anchors[id].contradictionCount = 0

\* An anchor is never changed or removed, and only one whose validity has not
\* ended is added: its reader needs no history.
AnchorsAppendOnly ==
    [][/\ \A id \in DOMAIN anchors : id \in DOMAIN anchors' /\ anchors'[id] = anchors[id]
       /\ \A id \in DOMAIN anchors' \ DOMAIN anchors :
             blockTime < anchors'[id].validUntil]_ledger

\* From a revocation on the register is frozen, and only a rotation to another
\* registrar, which opens an epoch, ends it.
RevocationFreezes ==
    [][registrarRevoked =>
         /\ UNCHANGED register
         /\ ~registrarRevoked' => /\ registrarEpoch' = registrarEpoch + 1
                                  /\ registrarCommitment' # registrarCommitment]_ledger
=============================================================================
