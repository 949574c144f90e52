----------------------- MODULE DecisionContractProofs -----------------------
(***************************************************************************)
(* Proofs about DecisionContract for every set of secrets, actions and     *)
(* drafts and for every bound.                                             *)
(***************************************************************************)
EXTENDS DecisionContract, TLAPS

\* What the ledger's readers and the replay assert rely on, made inductive by
\* the types: an id that was not used yet is not in the domain of anchors.
LedgerInv ==
    /\ LedgerTypeOK
    /\ UsedActionsAreAnchored
    /\ OneAllowPerAction
    /\ AllowsAreBacked

LEMMA ConstantTypes ==
    /\ MaxTime \in Nat /\ MaxAnchors \in Nat /\ MaxEpoch \in Nat /\ MaxEpoch >= 1
    /\ \A secret \in Secrets : CommitmentOf[secret] \in Commitments
    /\ \A draft \in Drafts : draft \in Anchor
BY ContractAssumption DEF ContractAssumption

USE ConstantTypes

\* A registration adds one anchor under a new id and leaves the others alone.
LEMMA NewAnchor ==
    ASSUME LedgerTypeOK, NEW secret \in Secrets, NEW draft \in Anchor,
           RegisterDecision(secret, draft)
    PROVE  /\ NewId \notin DOMAIN anchors
           /\ NewId \in 1..MaxAnchors
           /\ nextId' = NewId
           /\ DOMAIN anchors = 1..nextId
           /\ DOMAIN anchors' = DOMAIN anchors \cup {NewId}
           /\ \A id \in DOMAIN anchors : anchors'[id] = anchors[id]
           /\ anchors'[NewId] = draft
           /\ usedAllowActions' = IF draft.decision = "ALLOW"
                                  THEN usedAllowActions \cup {draft.action}
                                  ELSE usedAllowActions
           /\ UNCHANGED <<registrar, blockTime>>
<1>1. DOMAIN anchors = 1..nextId /\ nextId \in 0..MaxAnchors /\ nextId < MaxAnchors
  BY DEF LedgerTypeOK, RegisterDecision
<1>2. NewId \notin DOMAIN anchors /\ NewId \in 1..MaxAnchors
  BY <1>1 DEF NewId
<1>3. anchors' = [id \in DOMAIN anchors \cup {NewId} |->
                    IF id = NewId THEN draft ELSE anchors[id]]
  BY DEF RegisterDecision
<1>4. \A id \in DOMAIN anchors : anchors'[id] = anchors[id]
  BY <1>2, <1>3
<1>5. usedAllowActions' = Marked(draft) /\ nextId' = NewId /\ UNCHANGED <<registrar, blockTime>>
  BY DEF RegisterDecision, NewId
<1>6. anchors'[NewId] = draft /\ DOMAIN anchors' = DOMAIN anchors \cup {NewId}
  BY <1>3
<1> QED BY <1>1, <1>2, <1>4, <1>5, <1>6 DEF Marked

LEMMA LedgerTypeInit == LedgerInit => LedgerTypeOK
<1> SUFFICES ASSUME NEW secret \in Secrets, Deploy(secret) PROVE LedgerTypeOK
  BY DEF LedgerInit
<1>1. 1..0 = {} OBVIOUS
<1>2. anchors \in [1..nextId -> Anchor]
  BY <1>1 DEF Deploy
<1>3. registrarCommitment \in Commitments /\ usedAllowActions \subseteq Actions
  BY DEF Deploy
<1>4. registrarRevoked \in BOOLEAN
  BY Zenon DEF Deploy
<1>5. registrarEpoch \in 1..MaxEpoch /\ nextId \in 0..MaxAnchors /\ blockTime \in 0..MaxTime
  BY DEF Deploy
<1> QED BY <1>2, <1>3, <1>4, <1>5 DEF LedgerTypeOK

\* Whatever anchor it is asked for, a registration keeps the types.
LEMMA RegisterTyped ==
    ASSUME LedgerTypeOK, NEW secret \in Secrets, NEW draft \in Anchor,
           RegisterDecision(secret, draft)
    PROVE  LedgerTypeOK'
<1>1. /\ NewId \in 1..MaxAnchors /\ nextId' = NewId
      /\ DOMAIN anchors' = (1..nextId) \cup {NewId}
      /\ \A id \in 1..nextId : anchors'[id] = anchors[id]
      /\ anchors'[NewId] = draft
      /\ UNCHANGED <<registrar, blockTime>>
  BY NewAnchor
<1>2. anchors \in [1..nextId -> Anchor] /\ nextId \in 0..MaxAnchors
  BY DEF LedgerTypeOK
<1>3. (1..nextId) \cup {NewId} = 1..nextId'
  BY <1>1, <1>2 DEF NewId
<1>4. \A id \in 1..nextId' : anchors'[id] \in Anchor
  BY <1>1, <1>2, <1>3
<1>5. anchors' = [id \in DOMAIN anchors' |-> anchors'[id]]
  BY DEF RegisterDecision
<1>6. anchors' \in [1..nextId' -> Anchor]
  BY <1>1, <1>3, <1>4, <1>5
<1>7. usedAllowActions \subseteq Actions /\ draft.action \in Actions
  BY <1>1 DEF LedgerTypeOK, Anchor
<1>8. usedAllowActions' \subseteq Actions
  BY <1>7 DEF RegisterDecision, Marked
<1> QED BY <1>1, <1>6, <1>8 DEF LedgerTypeOK, registrar

LEMMA LedgerTypeStep == LedgerTypeOK /\ [LedgerNext]_ledger => LedgerTypeOK'
<1> SUFFICES ASSUME LedgerTypeOK, [LedgerNext]_ledger PROVE LedgerTypeOK'
  OBVIOUS
<1>1. ASSUME NEW secret \in Secrets, NEW draft \in Drafts, RegisterDecision(secret, draft)
      PROVE  LedgerTypeOK'
  BY <1>1, RegisterTyped
<1>2. ASSUME NEW secret \in Secrets, NEW nextSecret \in Secrets,
             RotateRegistrar(secret, nextSecret)
      PROVE  LedgerTypeOK'
  <2>1. registrarCommitment' \in Commitments /\ registrarRevoked' \in BOOLEAN
    BY <1>2 DEF RotateRegistrar
  <2>2. registrarEpoch' \in 1..MaxEpoch
    BY <1>2 DEF RotateRegistrar, LedgerTypeOK
  <2>3. UNCHANGED <<anchors, usedAllowActions, nextId, blockTime>>
    BY <1>2 DEF RotateRegistrar, register
  <2> QED BY <2>1, <2>2, <2>3 DEF LedgerTypeOK
<1>3. ASSUME NEW secret \in Secrets, RevokeRegistrar(secret) PROVE LedgerTypeOK'
  BY <1>3 DEF LedgerTypeOK, RevokeRegistrar, register
<1>4. CASE NextBlock
  BY <1>4 DEF LedgerTypeOK, NextBlock, registrar, register
<1>5. CASE UNCHANGED ledger
  BY <1>5 DEF LedgerTypeOK, ledger, registrar, register
<1> QED BY <1>1, <1>2, <1>3, <1>4, <1>5 DEF LedgerNext

\* Every state of the ledger is well typed.
THEOREM LedgerTypeCorrect == LedgerSpec => []LedgerTypeOK
<1> QED BY LedgerTypeInit, LedgerTypeStep, PTL DEF LedgerSpec

-----------------------------------------------------------------------------
\* The part of the invariant that only reads the register survives a step that
\* leaves the register alone.
LEMMA RegisterUnchanged ==
    ASSUME LedgerInv, UNCHANGED register
    PROVE  UsedActionsAreAnchored' /\ OneAllowPerAction' /\ AllowsAreBacked'
BY DEF LedgerInv, register, UsedActionsAreAnchored, OneAllowPerAction,
       AllowsAreBacked, AllowIds

LEMMA LedgerInvInit == LedgerInit => LedgerInv
<1> SUFFICES ASSUME LedgerInit PROVE LedgerInv
  OBVIOUS
<1>1. AllowIds = {} /\ usedAllowActions = {}
  BY DEF LedgerInit, Deploy, AllowIds
<1> QED BY <1>1, LedgerTypeInit
        DEF LedgerInv, UsedActionsAreAnchored, OneAllowPerAction, AllowsAreBacked

LEMMA RegisterPreserves ==
    ASSUME LedgerInv, NEW secret \in Secrets, NEW draft \in Anchor,
           RegisterDecision(secret, draft)
    PROVE  UsedActionsAreAnchored' /\ OneAllowPerAction' /\ AllowsAreBacked'
<1>1. /\ NewId \notin DOMAIN anchors
      /\ DOMAIN anchors' = DOMAIN anchors \cup {NewId}
      /\ \A id \in DOMAIN anchors : anchors'[id] = anchors[id]
      /\ anchors'[NewId] = draft
      /\ usedAllowActions' = IF draft.decision = "ALLOW"
                             THEN usedAllowActions \cup {draft.action}
                             ELSE usedAllowActions
  BY NewAnchor DEF LedgerInv
<1>2. CASE draft.decision = "ALLOW"
  <2>1. AllowIds' = AllowIds \cup {NewId}
    BY <1>1, <1>2 DEF AllowIds
  <2>2. /\ draft.evidenceCount >= draft.requiredEvidenceCount
        /\ draft.contradictionCount = 0
        /\ draft.action \notin usedAllowActions
        /\ draft.requiredEvidenceCount > 0
    BY <1>2 DEF RegisterDecision, AllowBacked, Admissible
  <2>3. UsedActionsAreAnchored'
    BY <1>1, <1>2, <2>1 DEF LedgerInv, UsedActionsAreAnchored, AllowIds
  <2>4. OneAllowPerAction'
    BY <1>1, <2>1, <2>2 DEF LedgerInv, UsedActionsAreAnchored, OneAllowPerAction, AllowIds
  <2>5. draft.requiredEvidenceCount \in 1..draft.evidenceCount
    BY <1>1, <2>2 DEF Anchor
  <2>6. AllowsAreBacked'
    BY <1>1, <2>1, <2>2, <2>5 DEF LedgerInv, AllowsAreBacked, AllowIds
  <2> QED BY <2>3, <2>4, <2>6
<1>3. CASE draft.decision # "ALLOW"
  <2>1. AllowIds' = AllowIds
    BY <1>1, <1>3 DEF AllowIds
  <2> QED BY <1>1, <1>3, <2>1
          DEF LedgerInv, UsedActionsAreAnchored, OneAllowPerAction, AllowsAreBacked, AllowIds
<1> QED BY <1>2, <1>3

LEMMA LedgerInvStep == LedgerInv /\ [LedgerNext]_ledger => LedgerInv'
<1> SUFFICES ASSUME LedgerInv, [LedgerNext]_ledger PROVE LedgerInv'
  OBVIOUS
<1>0. LedgerTypeOK'
  BY LedgerTypeStep DEF LedgerInv
<1>1. ASSUME NEW secret \in Secrets, NEW draft \in Drafts, RegisterDecision(secret, draft)
      PROVE  LedgerInv'
  BY <1>0, <1>1, RegisterPreserves DEF LedgerInv
<1>2. ASSUME UNCHANGED register PROVE LedgerInv'
  BY <1>0, <1>2, RegisterUnchanged DEF LedgerInv
<1>3. CASE \E secret, nextSecret \in Secrets : RotateRegistrar(secret, nextSecret)
  BY <1>2, <1>3 DEF RotateRegistrar
<1>4. CASE \E secret \in Secrets : RevokeRegistrar(secret)
  BY <1>2, <1>4 DEF RevokeRegistrar, register
<1>5. CASE NextBlock
  BY <1>2, <1>5 DEF NextBlock, register
<1>6. CASE UNCHANGED ledger
  BY <1>2, <1>6 DEF ledger, register
<1> QED BY <1>1, <1>3, <1>4, <1>5, <1>6 DEF LedgerNext

THEOREM LedgerInvariant == LedgerSpec => []LedgerInv
<1> QED BY LedgerInvInit, LedgerInvStep, PTL DEF LedgerSpec

\* No two ALLOW anchors name the same action, across rotations and revocations.
THEOREM LedgerOneAllowPerAction == LedgerSpec => []OneAllowPerAction
<1>1. LedgerInv => OneAllowPerAction
  BY DEF LedgerInv
<1> QED BY <1>1, LedgerInvariant, PTL

\* The set the replay assert reads is exactly what the anchors say.
THEOREM LedgerUsedActionsAreAnchored == LedgerSpec => []UsedActionsAreAnchored
<1>1. LedgerInv => UsedActionsAreAnchored
  BY DEF LedgerInv
<1> QED BY <1>1, LedgerInvariant, PTL

\* Every ALLOW on the ledger rested on enough evidence without contradictions.
THEOREM LedgerAllowsAreBacked == LedgerSpec => []AllowsAreBacked
<1>1. LedgerInv => AllowsAreBacked
  BY DEF LedgerInv
<1> QED BY <1>1, LedgerInvariant, PTL

-----------------------------------------------------------------------------
\* Anchors are never changed, removed or added after their validity.
THEOREM LedgerAnchorsAppendOnly == LedgerSpec => AnchorsAppendOnly
<1> DEFINE Appends ==
        /\ \A id \in DOMAIN anchors : id \in DOMAIN anchors' /\ anchors'[id] = anchors[id]
        /\ \A id \in DOMAIN anchors' \ DOMAIN anchors : blockTime < anchors'[id].validUntil
<1>1. ASSUME LedgerTypeOK, [LedgerNext]_ledger PROVE Appends
  <2>1. ASSUME NEW secret \in Secrets, NEW draft \in Drafts, RegisterDecision(secret, draft)
        PROVE  Appends
    <3>1. blockTime < draft.validUntil
      BY <2>1 DEF RegisterDecision, Admissible
    <3> QED BY <1>1, <2>1, <3>1, NewAnchor
  <2>2. ASSUME anchors' = anchors PROVE Appends
    BY <2>2
  <2> QED BY <1>1, <2>1, <2>2
          DEF LedgerNext, RotateRegistrar, RevokeRegistrar, NextBlock, ledger, register
<1>2. LedgerTypeOK /\ [LedgerNext]_ledger => [Appends]_ledger
  BY <1>1
<1>3. LedgerSpec => [][Appends]_ledger
  BY <1>2, LedgerTypeCorrect, PTL DEF LedgerSpec
<1> QED BY <1>3 DEF AnchorsAppendOnly

\* From a revocation on the register is frozen until another registrar opens an
\* epoch.
THEOREM LedgerRevocationFreezes == LedgerSpec => RevocationFreezes
<1> DEFINE Freezes ==
        registrarRevoked =>
          /\ UNCHANGED register
          /\ ~registrarRevoked' => /\ registrarEpoch' = registrarEpoch + 1
                                   /\ registrarCommitment' # registrarCommitment
<1>1. ASSUME [LedgerNext]_ledger PROVE Freezes
  <2>1. ASSUME NEW secret \in Secrets, NEW draft \in Drafts, RegisterDecision(secret, draft)
        PROVE  Freezes
    BY <2>1 DEF RegisterDecision, Admissible
  <2>2. ASSUME NEW secret \in Secrets, NEW nextSecret \in Secrets,
               RotateRegistrar(secret, nextSecret)
        PROVE  Freezes
    BY <2>2 DEF RotateRegistrar, RequireRegistrar
  <2>3. ASSUME NEW secret \in Secrets, RevokeRegistrar(secret) PROVE Freezes
    BY <2>3 DEF RevokeRegistrar, register
  <2>4. CASE NextBlock
    BY <2>4 DEF NextBlock, registrar, register
  <2>5. CASE UNCHANGED ledger
    BY <2>5 DEF ledger, registrar, register
  <2> QED BY <1>1, <2>1, <2>2, <2>3, <2>4, <2>5 DEF LedgerNext
<1>2. [LedgerNext]_ledger => [Freezes]_ledger
  BY <1>1
<1>3. LedgerSpec => [][Freezes]_ledger
  BY <1>2, PTL DEF LedgerSpec
<1> QED BY <1>3 DEF RevocationFreezes
=============================================================================
