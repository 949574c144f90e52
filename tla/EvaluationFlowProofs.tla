------------------------ MODULE EvaluationFlowProofs ------------------------
(***************************************************************************)
(* Proofs about EvaluationFlow: types, one permit per action, and that     *)
(* what is stored is anchored, reviewed and approved once, for any number  *)
(* of evaluations, approvals, resets and actions.                          *)
(***************************************************************************)
EXTENDS EvaluationFlow, DecisionContractProofs

\* A transaction belongs to an evaluation that has decided; what follows the wait
\* follows an applied transaction; only an evaluation that ended is stored.
PhasesAgree ==
    \A e \in Evaluations :
        /\ evaluating[e] = "idle" => transaction[e] = "none"
        /\ evaluating[e] \in {"anchored", "ready", "done"} => transaction[e] = "applied"
        /\ storedIn[e] # 0 => evaluating[e] = "done"

\* The decision is the policy's, of a database that is not newer than the current one.
DecisionsAreThePolicys ==
    \A e \in Evaluations :
        /\ decided[e].status = PolicyStatus(subject[e], decided[e].basis)
        /\ decided[e].generation <= generation

\* The watched contract applied the transaction.
Applied(e) == transaction[e] = "applied" /\ contract[e] = Watched

\* An applied transaction left its anchor, and an ALLOW used its action up.
AppliedIsAnchored ==
    \A e \in Evaluations : Applied(e) =>
        /\ \E id \in DOMAIN anchors : anchors[id] = AnchorArguments(e)
        /\ decided[e].status = "ALLOW" => subject[e] \in usedAllowActions

OneAllowApplied ==
    \A e, f \in Evaluations :
        /\ Applied(e) /\ Applied(f)
        /\ decided[e].status = "ALLOW" /\ decided[f].status = "ALLOW"
        /\ subject[e] = subject[f]
        => e = f

\* An approval that has been checked is of a decision.
CheckedHasDecision ==
    \A r \in Approvals : approving[r] = "checked" => reviewed[r] \in Evaluations

\* There is a stored approval of a decision that asked for review of the action.
ApprovedBefore(a) ==
    \E record \in approvals : /\ subject[record.decision] = a
                              /\ decided[record.decision].status = "REVIEW_REQUIRED"

\* The fact "approval" comes from such an approval of this database, also when a
\* decision of this database rests on it.
ApprovalsAreBacked ==
    /\ \A a \in Actions : "approval" \in evidence[a] => ApprovedBefore(a)
    /\ \A e \in Evaluations :
          decided[e].generation = generation /\ "approval" \in decided[e].basis
          => ApprovedBefore(subject[e])

FlowInv ==
    /\ FlowTypeOK
    /\ PhasesAgree
    /\ DecisionsAreThePolicys
    /\ AppliedIsAnchored
    /\ OneAllowApplied
    /\ CheckedHasDecision
    /\ ApprovalsAreBacked
    /\ ApprovalsAreBound

-----------------------------------------------------------------------------
\* What the constants of the flow and of its contract satisfy.
LEMMA FlowConstants ==
    /\ ReviewActions \subseteq Actions
    /\ RegistrarSecret \in Secrets
    /\ NoEvaluation \notin Evaluations
    /\ Watched \in Contracts
    /\ Validity \in Nat /\ MaxGenerations \in Nat /\ MaxGenerations >= 1
BY FlowAssumption DEF FlowAssumption

\* What the CLI is asked to anchor is an anchor.
LEMMA AnchorArgumentsTyped ==
    ASSUME FlowTypeOK, NEW e \in Evaluations
    PROVE  AnchorArguments(e) \in Anchor
<1>1. subject[e] \in Actions /\ decided[e] \in Decision
  BY DEF FlowTypeOK
<1>2. decided[e].status \in Decisions /\ decided[e].validUntil \in Nat
  BY <1>1 DEF Decision
<1> QED BY <1>1, <1>2 DEF AnchorArguments, RequiredSources, Anchor

\* The policy decides one of the three statuses.
LEMMA PolicyDecides ==
    ASSUME NEW a, NEW basis
    PROVE  PolicyStatus(a, basis) \in Decisions
BY DEF PolicyStatus, Decisions

\* Initially nothing is decided, stored, approved or anchored.
LEMMA FlowInvInit == FlowInit => FlowInv
<1> SUFFICES ASSUME FlowInit PROVE FlowInv
  OBVIOUS
<1> USE FlowConstants
<1>1. LedgerTypeOK
  BY LedgerTypeInit DEF FlowInit, LedgerInit
<1>2. NoDecision \in Decision
  BY DEF NoDecision, Decision, Decisions
<1>3. FlowTypeOK
  BY <1>1, <1>2 DEF FlowInit, FlowTypeOK
<1>4. PhasesAgree /\ AppliedIsAnchored /\ OneAllowApplied
  BY DEF FlowInit, PhasesAgree, AppliedIsAnchored, OneAllowApplied, Applied
<1>5. DecisionsAreThePolicys
  BY DEF FlowInit, DecisionsAreThePolicys, NoDecision, PolicyStatus
<1>6. CheckedHasDecision /\ ApprovalsAreBacked /\ ApprovalsAreBound
  BY DEF FlowInit, CheckedHasDecision, ApprovalsAreBacked, ApprovalsAreBound, NoDecision
<1> QED BY <1>3, <1>4, <1>5, <1>6 DEF FlowInv

-----------------------------------------------------------------------------
(* One lemma per group of actions, by the variables they may change.       *)

\* The ledger part of the invariant reads what was decided, the transactions and
\* the register.
LEMMA LedgerPartUnchanged ==
    ASSUME FlowInv, UNCHANGED <<subject, decided, transaction, contract, ledger>>
    PROVE  LedgerTypeOK' /\ AppliedIsAnchored' /\ OneAllowApplied'
<1>1. LedgerTypeOK'
  BY DEF FlowInv, FlowTypeOK, LedgerTypeOK, ledger, registrar, register
<1>2. anchors' = anchors /\ usedAllowActions' = usedAllowActions
  BY DEF ledger, register
<1>3. \A e \in Evaluations : AnchorArguments(e)' = AnchorArguments(e)
  BY DEF AnchorArguments
<1>4. AppliedIsAnchored'
  BY <1>2, <1>3 DEF FlowInv, AppliedIsAnchored, Applied
<1>5. OneAllowApplied'
  BY DEF FlowInv, OneAllowApplied, Applied
<1> QED BY <1>1, <1>4, <1>5

\* The approval part reads the decisions, where they are stored, the approvals and
\* what the receipts add up to.
LEMMA ApprovalPartUnchanged ==
    ASSUME FlowInv, UNCHANGED <<subject, decided, storedIn, approvalVars, databaseVars>>
    PROVE  CheckedHasDecision' /\ ApprovalsAreBacked' /\ ApprovalsAreBound'
BY DEF FlowInv, approvalVars, databaseVars, CheckedHasDecision, ApprovalsAreBacked,
       ApprovedBefore, ApprovalsAreBound, AwaitsReview, InDatabase

\* Receipts arrive and grow stale; no approval does.
LEMMA EvidenceStep ==
    ASSUME FlowInv, NEW a \in Actions, NEW fact \in Facts, Collect(a, fact) \/ GoStale(a, fact)
    PROVE  FlowInv'
<1>1. UNCHANGED <<evaluationVars, approvalVars, generation, approvals, active, ledger>>
  BY DEF Collect, GoStale
<1>2. /\ evidence' \in [Actions -> SUBSET Facts]
      /\ \A b \in Actions : "approval" \in evidence'[b] => "approval" \in evidence[b]
  BY DEF Collect, GoStale, FlowInv, FlowTypeOK
<1>3. LedgerTypeOK' /\ AppliedIsAnchored' /\ OneAllowApplied'
  BY <1>1, LedgerPartUnchanged DEF evaluationVars
<1>4. FlowTypeOK'
  BY <1>1, <1>2, <1>3 DEF FlowInv, FlowTypeOK, evaluationVars, approvalVars
<1>5. PhasesAgree' /\ DecisionsAreThePolicys'
  BY <1>1 DEF FlowInv, PhasesAgree, DecisionsAreThePolicys, evaluationVars
<1>6. CheckedHasDecision' /\ ApprovalsAreBacked' /\ ApprovalsAreBound'
  BY <1>1, <1>2 DEF FlowInv, evaluationVars, approvalVars, CheckedHasDecision,
     ApprovalsAreBacked, ApprovedBefore, ApprovalsAreBound, AwaitsReview, InDatabase
<1> QED BY <1>3, <1>4, <1>5, <1>6 DEF FlowInv

\* An evaluation decides once, before anything of it is anchored or stored: the
\* decisions other requests rely on are not touched.
LEMMA EvaluateStep ==
    ASSUME FlowInv, NEW e \in Evaluations, Evaluate(e)
    PROVE  FlowInv'
<1> DEFINE a == subject[e]
           d == [status |-> PolicyStatus(a, evidence[a]), basis |-> evidence[a],
                 generation |-> generation, validUntil |-> blockTime + Validity]
<1> USE FlowConstants
<1>1. /\ decided' = [decided EXCEPT ![e] = d]
      /\ evaluating' = [evaluating EXCEPT ![e] = "anchoring"]
      /\ transaction' = [transaction EXCEPT ![e] = "sent"]
      /\ contract' = [contract EXCEPT ![e] = active]
      /\ UNCHANGED <<subject, signedIn, storedIn, approvalVars, databaseVars, active, ledger>>
  BY DEF Evaluate
<1>2. /\ a \in Actions /\ evidence[a] \subseteq Facts /\ generation \in 1..MaxGenerations
      /\ blockTime \in Nat
  BY DEF FlowInv, FlowTypeOK, LedgerTypeOK
<1>3. d \in Decision
  BY <1>2, PolicyDecides DEF Decision
<1>4. evaluating[e] = "idle" /\ storedIn[e] = 0 /\ transaction[e] = "none"
  BY DEF Evaluate, FlowInv, PhasesAgree
<1>5. FlowTypeOK'
  BY <1>1, <1>3 DEF FlowInv, FlowTypeOK, LedgerTypeOK, approvalVars, databaseVars, ledger,
     registrar, register
<1>6. \A f \in Evaluations : f # e => /\ decided'[f] = decided[f]
                                      /\ transaction'[f] = transaction[f]
                                      /\ contract'[f] = contract[f]
                                      /\ evaluating'[f] = evaluating[f]
  BY <1>1 DEF FlowInv, FlowTypeOK
<1>7. decided'[e] = d /\ transaction'[e] = "sent" /\ evaluating'[e] = "anchoring"
  BY <1>1 DEF FlowInv, FlowTypeOK
<1>8. PhasesAgree'
  BY <1>1, <1>4, <1>6, <1>7 DEF FlowInv, PhasesAgree
<1>9. DecisionsAreThePolicys'
  <2>1. d.status = PolicyStatus(a, d.basis) /\ d.generation <= generation
    BY <1>2
  <2>2. subject' = subject /\ generation' = generation
    BY <1>1 DEF databaseVars
  <2> QED BY <1>6, <1>7, <2>1, <2>2 DEF FlowInv, DecisionsAreThePolicys, PolicyStatus
<1>10. AppliedIsAnchored'
  <2>1. \A f \in Evaluations : f # e => AnchorArguments(f)' = AnchorArguments(f)
    BY <1>1, <1>6 DEF AnchorArguments
  <2>2. anchors' = anchors /\ usedAllowActions' = usedAllowActions
    BY <1>1 DEF ledger, register
  <2> QED BY <1>1, <1>6, <1>7, <2>1, <2>2 DEF FlowInv, AppliedIsAnchored, Applied
<1>11. OneAllowApplied'
  BY <1>1, <1>6, <1>7 DEF FlowInv, OneAllowApplied, Applied
<1>12. \A record \in approvals : record.decision \in Evaluations /\ record.decision # e
  BY <1>2, <1>4 DEF FlowInv, FlowTypeOK, ApprovalsAreBound, AwaitsReview, InDatabase
<1>13. UNCHANGED <<generation, approvals, evidence, storedIn, subject, approving, reviewed>>
  BY <1>1 DEF approvalVars, databaseVars
<1>14. CheckedHasDecision' /\ ApprovalsAreBound'
  BY <1>6, <1>12, <1>13 DEF FlowInv, CheckedHasDecision, ApprovalsAreBound, AwaitsReview, InDatabase
<1>15. \A b \in Actions : ApprovedBefore(b)' <=> ApprovedBefore(b)
  BY <1>6, <1>12, <1>13 DEF ApprovedBefore
<1>16. ApprovalsAreBacked'
  BY <1>2, <1>6, <1>7, <1>13, <1>15 DEF FlowInv, FlowTypeOK, ApprovalsAreBacked
<1> QED BY <1>5, <1>8, <1>9, <1>10, <1>11, <1>14, <1>16 DEF FlowInv

\* The transaction meets the ledger: it leaves the evaluation's anchor, and an ALLOW
\* is only accepted for an action no applied ALLOW has used up.
LEMMA AnchoredStep ==
    ASSUME FlowInv, NEW e \in Evaluations, Anchored(e)
    PROVE  FlowInv'
<1> DEFINE draft == AnchorArguments(e)
<1>1. /\ transaction[e] = "sent" /\ contract[e] = Watched
      /\ RegisterDecision(RegistrarSecret, draft)
      /\ transaction' = [transaction EXCEPT ![e] = "applied"]
      /\ UNCHANGED <<evaluating, subject, decided, contract, signedIn, storedIn, approvalVars,
                     databaseVars, active>>
  BY DEF Anchored
<1>2. LedgerTypeOK /\ draft \in Anchor /\ RegistrarSecret \in Secrets
  BY AnchorArgumentsTyped, FlowConstants DEF FlowInv, FlowTypeOK
<1>3. draft.action = subject[e] /\ draft.decision = decided[e].status
  BY DEF AnchorArguments
<1> HIDE DEF draft
<1>4. LedgerTypeOK'
  BY <1>1, <1>2, RegisterTyped
<1>5. /\ DOMAIN anchors' = DOMAIN anchors \cup {NewId}
      /\ \A id \in DOMAIN anchors : anchors'[id] = anchors[id]
      /\ anchors'[NewId] = draft
      /\ usedAllowActions' = IF draft.decision = "ALLOW" THEN usedAllowActions \cup {draft.action}
                                                         ELSE usedAllowActions
  BY <1>1, <1>2, NewAnchor
<1>6. draft.decision = "ALLOW" => draft.action \notin usedAllowActions
  BY <1>1 DEF RegisterDecision, AllowBacked
<1>7. \A f \in Evaluations : /\ transaction'[f] = IF f = e THEN "applied" ELSE transaction[f]
                             /\ AnchorArguments(f)' = AnchorArguments(f)
  BY <1>1 DEF FlowInv, FlowTypeOK, AnchorArguments
<1>8. FlowTypeOK'
  BY <1>1, <1>4 DEF FlowInv, FlowTypeOK, approvalVars, databaseVars
<1>9. PhasesAgree'
  BY <1>1, <1>7 DEF FlowInv, PhasesAgree
<1>10. DecisionsAreThePolicys'
  BY <1>1 DEF FlowInv, DecisionsAreThePolicys, databaseVars
<1>11. AppliedIsAnchored'
  <2>1. ASSUME NEW f \in Evaluations, Applied(f)'
        PROVE  /\ \E id \in DOMAIN anchors' : anchors'[id] = AnchorArguments(f)'
               /\ decided'[f].status = "ALLOW" => subject'[f] \in usedAllowActions'
    <3>1. CASE f = e
      BY <1>1, <1>3, <1>5, <1>7, <3>1 DEF draft
    <3>2. CASE f # e
      BY <1>1, <1>5, <1>7, <2>1, <3>2 DEF FlowInv, AppliedIsAnchored, Applied
    <3> QED BY <3>1, <3>2
  <2> QED BY <2>1 DEF AppliedIsAnchored
<1>12. OneAllowApplied'
  <2>1. \A f \in Evaluations :
           Applied(f) /\ decided[f].status = "ALLOW" => subject[f] \in usedAllowActions
    BY DEF FlowInv, AppliedIsAnchored
  <2> QED BY <1>1, <1>3, <1>6, <1>7, <2>1 DEF FlowInv, OneAllowApplied, Applied
<1>13. CheckedHasDecision' /\ ApprovalsAreBacked' /\ ApprovalsAreBound'
  BY <1>1, ApprovalPartUnchanged
<1> QED BY <1>8, <1>9, <1>10, <1>11, <1>12, <1>13 DEF FlowInv

\* Another contract applies a transaction: nothing the invariant says of the watched
\* one is touched.
LEMMA AnchoredElsewhereStep ==
    ASSUME FlowInv, NEW e \in Evaluations, AnchoredElsewhere(e)
    PROVE  FlowInv'
<1>1. /\ transaction[e] = "sent" /\ contract[e] # Watched
      /\ transaction' = [transaction EXCEPT ![e] = "applied"]
      /\ UNCHANGED <<evaluating, subject, decided, contract, signedIn, storedIn, approvalVars,
                     databaseVars, active, ledger>>
  BY DEF AnchoredElsewhere
<1>2. LedgerTypeOK' /\ anchors' = anchors /\ usedAllowActions' = usedAllowActions
  BY <1>1 DEF FlowInv, FlowTypeOK, LedgerTypeOK, ledger, registrar, register
<1>3. \A f \in Evaluations : /\ transaction'[f] = IF f = e THEN "applied" ELSE transaction[f]
                             /\ AnchorArguments(f)' = AnchorArguments(f)
  BY <1>1 DEF FlowInv, FlowTypeOK, AnchorArguments
<1>4. FlowTypeOK'
  BY <1>1, <1>2 DEF FlowInv, FlowTypeOK, approvalVars, databaseVars
<1>5. PhasesAgree' /\ DecisionsAreThePolicys'
  BY <1>1, <1>3 DEF FlowInv, PhasesAgree, DecisionsAreThePolicys, databaseVars
<1>6. \A f \in Evaluations : Applied(f)' => Applied(f)
  BY <1>1, <1>3 DEF Applied
<1>7. AppliedIsAnchored' /\ OneAllowApplied'
  BY <1>1, <1>2, <1>3, <1>6 DEF FlowInv, AppliedIsAnchored, OneAllowApplied
<1>8. CheckedHasDecision' /\ ApprovalsAreBacked' /\ ApprovalsAreBound'
  BY <1>1, ApprovalPartUnchanged
<1> QED BY <1>2, <1>4, <1>5, <1>7, <1>8 DEF FlowInv

\* The rest of an evaluation: it resumes only after an applied transaction, and
\* what it stores then was not stored, hence not approved, before.
LEMMA ResumeStep ==
    ASSUME FlowInv, NEW e \in Evaluations,
           AnchorReturns(e) \/ AnchorThrows(e) \/ SignPermit(e) \/ Persist(e)
    PROVE  FlowInv'
<1> USE FlowConstants
<1>1. UNCHANGED <<subject, decided, transaction, contract, approvalVars, databaseVars, active,
                  ledger>>
  BY DEF AnchorReturns, AnchorThrows, SignPermit, Persist
<1>2. LedgerTypeOK' /\ AppliedIsAnchored' /\ OneAllowApplied'
  BY <1>1, LedgerPartUnchanged
<1>3. FlowTypeOK'
  BY <1>1, <1>2 DEF FlowInv, FlowTypeOK, approvalVars, databaseVars,
     AnchorReturns, AnchorThrows, SignPermit, Persist
<1>4. DecisionsAreThePolicys'
  BY <1>1 DEF FlowInv, DecisionsAreThePolicys, databaseVars
<1>5. PhasesAgree'
  <2>1. CASE AnchorReturns(e)
    BY <1>1, <2>1 DEF FlowInv, FlowTypeOK, PhasesAgree, AnchorReturns
  <2>2. CASE AnchorThrows(e)
    BY <1>1, <2>2 DEF FlowInv, FlowTypeOK, PhasesAgree, AnchorThrows
  <2>3. CASE SignPermit(e)
    BY <1>1, <2>3 DEF FlowInv, FlowTypeOK, PhasesAgree, SignPermit
  <2>4. CASE Persist(e)
    BY <1>1, <2>4 DEF FlowInv, FlowTypeOK, PhasesAgree, Persist
  <2> QED BY <2>1, <2>2, <2>3, <2>4
<1>6. CASE storedIn' = storedIn
  BY <1>1, <1>2, <1>3, <1>4, <1>5, <1>6, ApprovalPartUnchanged DEF FlowInv
<1>7. CASE Persist(e)
  <2>1. storedIn[e] = 0 /\ generation \in 1..MaxGenerations
    BY <1>7 DEF Persist, FlowInv, FlowTypeOK, PhasesAgree
  <2>2. \A f \in Evaluations : f # e => storedIn'[f] = storedIn[f]
    BY <1>7 DEF Persist, FlowInv, FlowTypeOK
  <2>3. \A record \in approvals : record.decision \in Evaluations /\ record.decision # e
    BY <2>1 DEF FlowInv, FlowTypeOK, ApprovalsAreBound, AwaitsReview, InDatabase
  <2>4. UNCHANGED <<approving, reviewed, generation, evidence, approvals>>
    BY <1>1 DEF approvalVars, databaseVars
  <2>5. ApprovalsAreBound'
    BY <1>1, <2>2, <2>3, <2>4 DEF FlowInv, ApprovalsAreBound, AwaitsReview, InDatabase
  <2>6. CheckedHasDecision' /\ ApprovalsAreBacked'
    BY <1>1, <2>4 DEF FlowInv, CheckedHasDecision, ApprovalsAreBacked, ApprovedBefore
  <2> QED BY <1>2, <1>3, <1>4, <1>5, <2>5, <2>6 DEF FlowInv
<1> QED BY <1>6, <1>7 DEF AnchorReturns, AnchorThrows, SignPermit

\* An approval request changes neither the ledger nor what evaluations hold; a
\* record is added after the decision is looked up again, beside no other of it.
LEMMA ApprovalStep ==
    ASSUME FlowInv, NEW r \in Approvals,
           CheckApproval(r) \/ RecordApproval(r) \/ ReuseApproval(r) \/ ApprovalConflict(r)
    PROVE  FlowInv'
<1>1. UNCHANGED <<evaluationVars, content, generation, active, ledger>>
  BY DEF CheckApproval, RecordApproval, ReuseApproval, ApprovalConflict, databaseVars
<1>2. LedgerTypeOK' /\ AppliedIsAnchored' /\ OneAllowApplied'
  BY <1>1, LedgerPartUnchanged DEF evaluationVars
<1>3. PhasesAgree' /\ DecisionsAreThePolicys'
  BY <1>1 DEF FlowInv, PhasesAgree, DecisionsAreThePolicys, evaluationVars
<1>4. ASSUME UNCHANGED databaseVars,
             approving' \in [Approvals -> {"idle", "checked", "done", "refused"}],
             reviewed' \in [Approvals -> Evaluations \cup {NoEvaluation}],
             CheckedHasDecision'
      PROVE  FlowInv'
  <2>1. FlowTypeOK'
    BY <1>1, <1>2, <1>4 DEF FlowInv, FlowTypeOK, evaluationVars, databaseVars
  <2>2. ApprovalsAreBacked' /\ ApprovalsAreBound'
    BY <1>1, <1>4 DEF FlowInv, evaluationVars, databaseVars, ApprovalsAreBacked,
       ApprovedBefore, ApprovalsAreBound, AwaitsReview, InDatabase
  <2> QED BY <1>2, <1>3, <1>4, <2>1, <2>2 DEF FlowInv
<1>5. CASE CheckApproval(r)
  <2>1. PICK e \in Evaluations : reviewed' = [reviewed EXCEPT ![r] = e]
    BY <1>5 DEF CheckApproval
  <2>2. approving' = [approving EXCEPT ![r] = "checked"] /\ UNCHANGED databaseVars
    BY <1>5 DEF CheckApproval
  <2>3. CheckedHasDecision'
    BY <2>1, <2>2 DEF FlowInv, FlowTypeOK, CheckedHasDecision
  <2>4. /\ approving' \in [Approvals -> {"idle", "checked", "done", "refused"}]
        /\ reviewed' \in [Approvals -> Evaluations \cup {NoEvaluation}]
    BY <2>1, <2>2 DEF FlowInv, FlowTypeOK
  <2> QED BY <1>4, <2>2, <2>3, <2>4
<1>6. CASE ReuseApproval(r) \/ ApprovalConflict(r)
  <2>1. UNCHANGED <<reviewed, databaseVars>>
    BY <1>6 DEF ReuseApproval, ApprovalConflict
  <2>2. \/ approving' = [approving EXCEPT ![r] = "done"]
        \/ approving' = [approving EXCEPT ![r] = "refused"]
    BY <1>6 DEF ReuseApproval, ApprovalConflict
  <2>3. CheckedHasDecision'
    BY <2>1, <2>2 DEF FlowInv, FlowTypeOK, CheckedHasDecision
  <2>4. /\ approving' \in [Approvals -> {"idle", "checked", "done", "refused"}]
        /\ reviewed' \in [Approvals -> Evaluations \cup {NoEvaluation}]
    BY <2>1, <2>2 DEF FlowInv, FlowTypeOK
  <2> QED BY <1>4, <2>1, <2>3, <2>4
<1>7. CASE RecordApproval(r)
  <2> DEFINE d == reviewed[r]
             record == [decision |-> d, content |-> content[r]]
             a == subject[d]
  <2>1. /\ d \in Evaluations
        /\ AwaitsReview(d)
        /\ \A other \in approvals : other.decision # d
        /\ approvals' = approvals \cup {record}
        /\ evidence' = [evidence EXCEPT ![a] = @ \cup {"approval"}]
        /\ approving' = [approving EXCEPT ![r] = "done"]
        /\ reviewed' = reviewed
    BY <1>7 DEF RecordApproval, Existing, FlowInv, CheckedHasDecision
  <2>2. content[r] \in Contents /\ a \in Actions
    BY <2>1 DEF FlowInv, FlowTypeOK
  <2>3. FlowTypeOK'
    BY <1>1, <1>2, <2>1, <2>2 DEF FlowInv, FlowTypeOK, evaluationVars, Facts
  <2>4. CheckedHasDecision'
    BY <2>1 DEF FlowInv, FlowTypeOK, CheckedHasDecision
  <2>5. UNCHANGED <<subject, decided, storedIn, generation>>
    BY <1>1 DEF evaluationVars
  <2>6. ApprovalsAreBound'
    BY <2>1, <2>5 DEF FlowInv, ApprovalsAreBound, AwaitsReview, InDatabase
  <2>7. \A b \in Actions : b = a => ApprovedBefore(b)'
    <3>1. record \in approvals' /\ record.decision = d
      BY <2>1
    <3>2. subject'[d] = a /\ decided'[d].status = "REVIEW_REQUIRED"
      BY <2>1, <2>5 DEF AwaitsReview
    <3> QED BY <3>1, <3>2 DEF ApprovedBefore
  <2>8. \A b \in Actions : ApprovedBefore(b) => ApprovedBefore(b)'
    BY <2>1, <2>5 DEF ApprovedBefore
  <2>9. ApprovalsAreBacked'
    <3>1. \A b \in Actions : "approval" \in evidence'[b] => b = a \/ "approval" \in evidence[b]
      BY <2>1 DEF FlowInv, FlowTypeOK
    <3>2. \A e \in Evaluations : subject[e] \in Actions
      BY DEF FlowInv, FlowTypeOK
    <3>3. \A b \in Actions : "approval" \in evidence'[b] => ApprovedBefore(b)'
      BY <2>7, <2>8, <3>1 DEF FlowInv, ApprovalsAreBacked
    <3>4. \A e \in Evaluations :
             decided'[e].generation = generation' /\ "approval" \in decided'[e].basis
             => ApprovedBefore(subject[e])'
      BY <2>5, <2>8, <3>2 DEF FlowInv, ApprovalsAreBacked
    <3> QED BY <2>5, <3>3, <3>4 DEF ApprovalsAreBacked
  <2> QED BY <1>2, <1>3, <2>3, <2>4, <2>6, <2>9 DEF FlowInv
<1> QED BY <1>5, <1>6, <1>7

\* A reset begins a database without receipts and approvals, and no decision is of
\* a database that does not exist yet.
LEMMA ResetStep == ASSUME FlowInv, Reset PROVE FlowInv'
<1>1. /\ generation < MaxGenerations /\ generation' = generation + 1
      /\ evidence' = [a \in Actions |-> {}]
      /\ approvals' = {}
      /\ UNCHANGED <<evaluationVars, approvalVars, active, ledger>>
  BY DEF Reset
<1>2. LedgerTypeOK' /\ AppliedIsAnchored' /\ OneAllowApplied'
  BY <1>1, LedgerPartUnchanged DEF evaluationVars
<1>3. generation \in 1..MaxGenerations /\ generation' \in 1..MaxGenerations
  BY <1>1, FlowConstants DEF FlowInv, FlowTypeOK
<1>4. FlowTypeOK'
  BY <1>1, <1>2, <1>3 DEF FlowInv, FlowTypeOK, evaluationVars, approvalVars
<1>5. PhasesAgree' /\ CheckedHasDecision' /\ ApprovalsAreBound'
  BY <1>1 DEF FlowInv, PhasesAgree, CheckedHasDecision, ApprovalsAreBound, evaluationVars,
     approvalVars
<1>6. \A e \in Evaluations : /\ decided[e].generation \in 0..MaxGenerations
                             /\ decided[e].generation <= generation
  BY DEF FlowInv, FlowTypeOK, Decision, DecisionsAreThePolicys
<1>7. \A e \in Evaluations : /\ decided[e].generation <= generation'
                             /\ decided[e].generation # generation'
  BY <1>1, <1>3, <1>6
<1>8. DecisionsAreThePolicys' /\ ApprovalsAreBacked'
  BY <1>1, <1>7 DEF FlowInv, DecisionsAreThePolicys, ApprovalsAreBacked, evaluationVars
<1> QED BY <1>2, <1>4, <1>5, <1>8 DEF FlowInv

\* Block time, another active contract and stuttering.
LEMMA FlowUnchanged ==
    ASSUME FlowInv, UNCHANGED <<evaluationVars, approvalVars, databaseVars, registrar, register>>,
           blockTime' \in 0..MaxTime, active' \in Contracts
    PROVE  FlowInv'
<1>1. UNCHANGED <<approvalVars, databaseVars>>
  OBVIOUS
<1>2. UNCHANGED <<evaluating, subject, decided, transaction, contract, signedIn, storedIn,
                  anchors, usedAllowActions>>
  BY DEF evaluationVars, register
<1>3. LedgerTypeOK'
  BY DEF FlowInv, FlowTypeOK, LedgerTypeOK, registrar, register
<1>4. FlowTypeOK'
  BY <1>1, <1>2, <1>3 DEF FlowInv, FlowTypeOK, approvalVars, databaseVars
<1>5. \A e \in Evaluations : AnchorArguments(e)' = AnchorArguments(e)
  BY <1>2 DEF AnchorArguments
<1>6. PhasesAgree' /\ DecisionsAreThePolicys' /\ AppliedIsAnchored' /\ OneAllowApplied'
  BY <1>1, <1>2, <1>5 DEF FlowInv, PhasesAgree, DecisionsAreThePolicys, AppliedIsAnchored,
     OneAllowApplied, Applied, databaseVars
<1>7. CheckedHasDecision' /\ ApprovalsAreBacked' /\ ApprovalsAreBound'
  BY <1>1, <1>2, ApprovalPartUnchanged
<1> QED BY <1>4, <1>6, <1>7 DEF FlowInv

LEMMA FlowInvStep == FlowInv /\ [FlowNext]_vars => FlowInv'
<1> SUFFICES ASSUME FlowInv, [FlowNext]_vars PROVE FlowInv'
  OBVIOUS
<1>1. ASSUME NEW e \in Evaluations, NEW fact \in Facts,
             Collect(subject[e], fact) \/ GoStale(subject[e], fact)
      PROVE  FlowInv'
  <2>1. subject[e] \in Actions
    BY DEF FlowInv, FlowTypeOK
  <2> QED BY <1>1, <2>1, EvidenceStep
<1>2. ASSUME NEW e \in Evaluations, Evaluate(e) PROVE FlowInv'
  BY <1>2, EvaluateStep
<1>3. ASSUME NEW e \in Evaluations, Anchored(e) PROVE FlowInv'
  BY <1>3, AnchoredStep
<1>4. ASSUME NEW e \in Evaluations, AnchoredElsewhere(e) PROVE FlowInv'
  BY <1>4, AnchoredElsewhereStep
<1>5. ASSUME NEW e \in Evaluations,
             AnchorReturns(e) \/ AnchorThrows(e) \/ SignPermit(e) \/ Persist(e)
      PROVE  FlowInv'
  BY <1>5, ResumeStep
<1>6. ASSUME NEW r \in Approvals,
             CheckApproval(r) \/ RecordApproval(r) \/ ReuseApproval(r) \/ ApprovalConflict(r)
      PROVE  FlowInv'
  BY <1>6, ApprovalStep
<1>7. CASE Reset
  BY <1>7, ResetStep
<1>8. blockTime \in 0..MaxTime /\ active \in Contracts
  BY DEF FlowInv, FlowTypeOK, LedgerTypeOK
<1>9. CASE NextBlock /\ UNCHANGED flow
  <2>1. blockTime' \in 0..MaxTime /\ UNCHANGED <<registrar, register>>
    BY <1>8, <1>9, ConstantTypes DEF NextBlock
  <2> QED BY <1>8, <1>9, <2>1, FlowUnchanged DEF flow
<1>10. ASSUME NEW c \in Contracts, SelectContract(c) PROVE FlowInv'
  BY <1>8, <1>10, FlowUnchanged DEF SelectContract, ledger
<1>11. CASE UNCHANGED vars
  BY <1>8, <1>11, FlowUnchanged DEF vars, flow, ledger
<1> QED BY <1>1, <1>2, <1>3, <1>4, <1>5, <1>6, <1>7, <1>9, <1>10, <1>11 DEF FlowNext

-----------------------------------------------------------------------------
\* The inductive invariant holds in every reachable state.
THEOREM FlowInvariant == FlowSpec => []FlowInv
<1> QED BY FlowInvInit, FlowInvStep, PTL DEF FlowSpec

\* Every state of the flow is well typed.
THEOREM FlowTypeCorrect == FlowSpec => []FlowTypeOK
<1>1. FlowInv => FlowTypeOK
  BY DEF FlowInv
<1> QED BY <1>1, FlowInvariant, PTL

\* At most one evaluation of an action that is anchored in a given contract ever stores
\* an ALLOW, across resets of the database and changes of the active contract, however
\* the evaluations interleave.  Watched is any contract, so this holds of each.
THEOREM FlowOnePermitPerAction == FlowSpec => []OnePermitPerAction
<1>1. FlowInv => OnePermitPerAction
  <2>1. FlowInv => \A e \in Evaluations : Stored(e) => transaction[e] = "applied"
    BY DEF FlowInv, PhasesAgree, Stored
  <2> QED BY <2>1 DEF FlowInv, OneAllowApplied, Applied, OnePermitPerAction, Allowed
<1> QED BY <1>1, FlowInvariant, PTL

\* What the database holds is on the ledger of its contract, with the counts it was
\* decided on.
THEOREM FlowDecisionsAreAnchored == FlowSpec => []DecisionsAreAnchored
<1>1. FlowInv => DecisionsAreAnchored
  BY DEF FlowInv, PhasesAgree, AppliedIsAnchored, Applied, DecisionsAreAnchored, Stored
<1> QED BY <1>1, FlowInvariant, PTL

\* A usable permit of an action that needs review goes back to an approval, in the
\* same database, of a decision that asked for it.
THEOREM FlowUsableMeansReviewed == FlowSpec => []UsableMeansReviewed
<1>1. FlowInv => UsableMeansReviewed
  <2> SUFFICES ASSUME FlowInv, NEW e \in Evaluations, Usable(e), subject[e] \in ReviewActions
               PROVE  ApprovedBefore(subject[e])
    BY DEF UsableMeansReviewed, ApprovedBefore
  <2>1. decided[e].status = "ALLOW" /\ decided[e].generation = generation
    BY DEF Usable, Allowed
  <2>2. "approval" \in decided[e].basis
    BY <2>1 DEF FlowInv, DecisionsAreThePolicys, PolicyStatus
  <2> QED BY <2>1, <2>2 DEF FlowInv, ApprovalsAreBacked
<1> QED BY <1>1, FlowInvariant, PTL

\* Every approval is the only one of a decision of this database that asked for it.
THEOREM FlowApprovalsAreBound == FlowSpec => []ApprovalsAreBound
<1>1. FlowInv => ApprovalsAreBound
  BY DEF FlowInv
<1> QED BY <1>1, FlowInvariant, PTL

-----------------------------------------------------------------------------
\* The contract keeps what it promises its readers also when the backend is its
\* only caller, with arguments outside any fixed set of drafts.
THEOREM FlowKeepsTheContract == FlowSpec => []LedgerInv
<1>1. FlowInit => LedgerInv
  BY LedgerInvInit, FlowConstants DEF FlowInit, LedgerInit
<1>2. FlowInv /\ FlowInv' /\ LedgerInv /\ [FlowNext]_vars => LedgerInv'
  <2> SUFFICES ASSUME FlowInv, FlowInv', LedgerInv, [FlowNext]_vars PROVE LedgerInv'
    OBVIOUS
  <2>1. LedgerTypeOK'
    BY DEF FlowInv, FlowTypeOK
  <2>2. ASSUME UNCHANGED register PROVE LedgerInv'
    BY <2>1, <2>2, RegisterUnchanged DEF LedgerInv
  <2>3. ASSUME NEW e \in Evaluations, Anchored(e) PROVE LedgerInv'
    <3>1. AnchorArguments(e) \in Anchor /\ RegistrarSecret \in Secrets
      BY AnchorArgumentsTyped, FlowConstants DEF FlowInv
    <3>2. RegisterDecision(RegistrarSecret, AnchorArguments(e))
      BY <2>3 DEF Anchored
    <3> QED BY <2>1, <3>1, <3>2, RegisterPreserves DEF LedgerInv
  <2>4. (\E e \in Evaluations : Anchored(e)) \/ UNCHANGED register
    BY DEF FlowNext, Collect, GoStale, Evaluate, AnchoredElsewhere, AnchorReturns, AnchorThrows,
       SelectContract, SignPermit, Persist, CheckApproval, RecordApproval, ReuseApproval,
       ApprovalConflict, Reset, NextBlock, vars, ledger
  <2> QED BY <2>2, <2>3, <2>4
<1> QED BY <1>1, <1>2, FlowInvariant, PTL DEF FlowSpec
=============================================================================
