--------------------------- MODULE EvaluationFlow ---------------------------
(***************************************************************************)
(* From evidence to permit (backend/src/routes.ts): evidence arrives, an   *)
(* evaluation decides on a snapshot of the database, waits for minutes     *)
(* while the Midnight CLI anchors the decision in DecisionContract, signs  *)
(* a permit and stores the decision in the database it then finds; a       *)
(* responsible person approves a decision that requires review.            *)
(*                                                                         *)
(* MIDNIGHT_MODE is "cli".  A database is the one of a generation; a reset *)
(* begins the next one with new signing keys.  The receipts of an action   *)
(* are kept as what they add up to for the policy: all its required claims *)
(* match, a claim contradicts, a responsible person approved.              *)
(*                                                                         *)
(* Each network has a contract, and a deployment replaces it.  Which one a *)
(* CLI finds depends on the network that is selected when it starts.  The  *)
(* ledger of one of them is modelled, whichever it is (Watched); a         *)
(* transaction for another one may be applied or refused as it likes.      *)
(***************************************************************************)
EXTENDS DecisionContract

CONSTANTS
    Evaluations,     \* POST /api/evaluate requests
    Approvals,       \* POST /api/approvals requests
    Contents,        \* signed approvals such a request may carry
    ReviewActions,   \* actions beyond maxValueWithoutReview or in production
    RegistrarSecret, \* the secret the CLI finds, the registrar's throughout
    NoEvaluation,
    Contracts,       \* deployments of the contract, of all networks
    Watched,         \* the one whose ledger is followed
    NoContract,
    Validity,        \* of a decision, in units of block time
    MaxGenerations

ASSUME FlowAssumption ==
    /\ ReviewActions \subseteq Actions
    /\ RegistrarSecret \in Secrets
    /\ NoEvaluation \notin Evaluations
    /\ Watched \in Contracts /\ NoContract \notin Contracts
    /\ Validity \in Nat \ {0} /\ MaxGenerations \in Nat \ {0}

VARIABLES
    evaluating,   \* where an evaluation is suspended
    subject,      \* the action it was sent (fixed)
    decided,      \* the decision evaluateEvidencePolicy returned to it
    transaction,  \* its registerDecision transaction
    contract,     \* the deployment its CLI found when it started
    signedIn,     \* the generation whose key signed its permit
    storedIn,     \* the generation its decision was stored in
    approving,    \* where an approval request is suspended
    reviewed,     \* the decision it approves
    content,      \* the approval it carries (fixed)
    generation,   \* the current database
    evidence,     \* what the receipts of an action add up to
    approvals,    \* database.approvals
    active        \* the deployment of the active network (.midnight-state.json)

evaluationVars == <<evaluating, subject, decided, transaction, contract, signedIn, storedIn>>
approvalVars   == <<approving, reviewed, content>>
databaseVars   == <<generation, evidence, approvals>>
flow           == <<evaluationVars, approvalVars, databaseVars, active>>
vars           == <<ledger, flow>>

Facts == {"required", "contradiction", "approval"}

\* The root stands for the receipts the policy accepted.
Decision == [status : Decisions, basis : SUBSET Facts, generation : 0..MaxGenerations,
             validUntil : Nat]
NoDecision == [status |-> "DENY", basis |-> {}, generation |-> 0, validUntil |-> 0]

FlowTypeOK ==
    /\ LedgerTypeOK
    /\ evaluating \in [Evaluations -> {"idle", "anchoring", "anchored", "ready", "done", "failed"}]
    /\ subject \in [Evaluations -> Actions]
    /\ decided \in [Evaluations -> Decision]
    /\ transaction \in [Evaluations -> {"none", "sent", "applied"}]
    /\ contract \in [Evaluations -> Contracts \cup {NoContract}]
    /\ {signedIn, storedIn} \subseteq [Evaluations -> 0..MaxGenerations]
    /\ approving \in [Approvals -> {"idle", "checked", "done", "refused"}]
    /\ reviewed \in [Approvals -> Evaluations \cup {NoEvaluation}]
    /\ content \in [Approvals -> Contents]
    /\ generation \in 1..MaxGenerations
    /\ evidence \in [Actions -> SUBSET Facts]
    /\ approvals \subseteq [decision : Evaluations, content : Contents]
    /\ active \in Contracts

FlowInit ==
    /\ Deploy(RegistrarSecret)
    /\ evaluating = [e \in Evaluations |-> "idle"]
    /\ subject \in [Evaluations -> Actions]
    /\ decided = [e \in Evaluations |-> NoDecision]
    /\ transaction = [e \in Evaluations |-> "none"]
    /\ contract = [e \in Evaluations |-> NoContract]
    /\ signedIn = [e \in Evaluations |-> 0]
    /\ storedIn = [e \in Evaluations |-> 0]
    /\ approving = [r \in Approvals |-> "idle"]
    /\ reviewed = [r \in Approvals |-> NoEvaluation]
    /\ content \in [Approvals -> Contents]
    /\ generation = 1
    /\ evidence = [a \in Actions |-> {}]
    /\ approvals = {}
    /\ active \in Contracts

-----------------------------------------------------------------------------
(* Evidence.                                                               *)

\* The receipts of the origins; "contradiction" is a verified receipt with another
\* value.  An approval is evidence only through POST /api/approvals.  A receipt
\* signed with the key of an erased database does not verify and adds nothing.
Collect(a, fact) ==
    /\ fact \in {"required", "contradiction"} \ evidence[a]
    /\ evidence' = [evidence EXCEPT ![a] = @ \cup {fact}]
    /\ UNCHANGED <<evaluationVars, approvalVars, generation, approvals, active, ledger>>

\* Receipts are fresh for maxAgeMinutes.
GoStale(a, fact) ==
    /\ fact \in evidence[a]
    /\ evidence' = [evidence EXCEPT ![a] = @ \ {fact}]
    /\ UNCHANGED <<evaluationVars, approvalVars, generation, approvals, active, ledger>>

-----------------------------------------------------------------------------
(* evaluateAndPersist.                                                     *)

\* evaluateEvidencePolicy with a policy that denies on contradiction, for a value
\* within maxValueAllowed.
MutPolicyStatus(a, basis) ==
    IF "required" \notin basis \/ "contradiction" \in basis THEN "DENY" ELSE "ALLOW"
PolicyStatus(a, basis) ==
    IF "required" \notin basis \/ "contradiction" \in basis THEN "DENY"
    ELSE IF a \in ReviewActions /\ "approval" \notin basis THEN "REVIEW_REQUIRED"
    ELSE "ALLOW"

\* store.read, the decision, and the start of the CLI, which resolves the active network
\* and its contract once.  A switch before it does is one before the request: between
\* the two nothing else of the request happens.
Evaluate(e) ==
    /\ evaluating[e] = "idle"
    /\ decided' = [decided EXCEPT ![e] =
                     [status |-> PolicyStatus(subject[e], evidence[subject[e]]),
                      basis |-> evidence[subject[e]], generation |-> generation,
                      validUntil |-> blockTime + Validity]]
    /\ evaluating' = [evaluating EXCEPT ![e] = "anchoring"]
    /\ transaction' = [transaction EXCEPT ![e] = "sent"]
    /\ contract' = [contract EXCEPT ![e] = active]
    /\ UNCHANGED <<subject, signedIn, storedIn, approvalVars, databaseVars, active, ledger>>

\* The arguments of "anchor": independentSources, requiredSources and the number
\* of contradictions.  One source stands for each fact the policy wants.
RequiredSources(a) == IF a \in ReviewActions THEN 2 ELSE 1
AnchorArguments(e) ==
    LET basis == decided[e].basis
    IN  [action |-> subject[e], decision |-> decided[e].status, policyVersion |-> 1,
         validUntil |-> decided[e].validUntil,
         evidenceCount |-> (IF "required" \in basis THEN 1 ELSE 0)
                           + (IF "approval" \in basis THEN 1 ELSE 0),
         requiredEvidenceCount |-> RequiredSources(subject[e]),
         contradictionCount |-> IF "contradiction" \in basis THEN 1 ELSE 0]

\* The transaction meets the ledger whenever it does, also after the timeout.
Anchored(e) ==
    /\ transaction[e] = "sent" /\ contract[e] = Watched
    /\ RegisterDecision(RegistrarSecret, AnchorArguments(e))
    /\ transaction' = [transaction EXCEPT ![e] = "applied"]
    /\ UNCHANGED <<evaluating, subject, decided, contract, signedIn, storedIn, approvalVars,
                   databaseVars, active>>

\* To another contract the action is as new as it ever was.
AnchoredElsewhere(e) ==
    /\ transaction[e] = "sent" /\ contract[e] # Watched
    /\ transaction' = [transaction EXCEPT ![e] = "applied"]
    /\ UNCHANGED <<evaluating, subject, decided, contract, signedIn, storedIn, approvalVars,
                   databaseVars, active, ledger>>

MutAnchorReturnsEarly(e) ==
    /\ evaluating[e] = "anchoring"
    /\ evaluating' = [evaluating EXCEPT ![e] = IF decided[e].status = "ALLOW"
                                               THEN "anchored" ELSE "ready"]
    /\ UNCHANGED <<subject, decided, transaction, contract, signedIn, storedIn, approvalVars,
                   databaseVars, active, ledger>>

\* ANCHOR_RESULT was printed.
AnchorReturns(e) ==
    /\ evaluating[e] = "anchoring"
    /\ transaction[e] = "applied"
    /\ evaluating' = [evaluating EXCEPT ![e] = IF decided[e].status = "ALLOW"
                                               THEN "anchored" ELSE "ready"]
    /\ UNCHANGED <<subject, decided, transaction, contract, signedIn, storedIn, approvalVars,
                   databaseVars, active, ledger>>

\* MIDNIGHT_ANCHOR_FAILED (the CLI ends, an assert rejects the transaction) or, at any
\* time, MIDNIGHT_ANCHOR_TIMEOUT: nothing is stored.  A transaction that is rejected
\* stays "sent" and is never applied.
AnchorThrows(e) ==
    /\ evaluating[e] = "anchoring"
    /\ evaluating' = [evaluating EXCEPT ![e] = "failed"]
    /\ UNCHANGED <<subject, decided, transaction, contract, signedIn, storedIn, approvalVars,
                   databaseVars, active, ledger>>

\* The permit names the public key of the snapshot; the key that signs it is read now.
SignPermit(e) ==
    /\ evaluating[e] = "anchored"
    /\ signedIn' = [signedIn EXCEPT ![e] = generation]
    /\ evaluating' = [evaluating EXCEPT ![e] = "ready"]
    /\ UNCHANGED <<subject, decided, transaction, contract, storedIn, approvalVars, databaseVars,
                   active, ledger>>

Persist(e) ==
    /\ evaluating[e] = "ready"
    /\ storedIn' = [storedIn EXCEPT ![e] = generation]
    /\ evaluating' = [evaluating EXCEPT ![e] = "done"]
    /\ UNCHANGED <<subject, decided, transaction, contract, signedIn, approvalVars, databaseVars,
                   active, ledger>>

-----------------------------------------------------------------------------
(* POST /api/approvals, with a valid signature of an independent person.   *)

InDatabase(e) == storedIn[e] = generation

AwaitsReview(e) == InDatabase(e) /\ decided[e].status = "REVIEW_REQUIRED"

\* The checks on a snapshot.
CheckApproval(r) ==
    /\ approving[r] = "idle"
    /\ \E e \in {d \in Evaluations : AwaitsReview(d) /\ blockTime < decided[d].validUntil} :
          reviewed' = [reviewed EXCEPT ![r] = e]
    /\ approving' = [approving EXCEPT ![r] = "checked"]
    /\ UNCHANGED <<evaluationVars, content, databaseVars, active, ledger>>

Existing(r) == {record \in approvals : record.decision = reviewed[r]}

\* The update: the decision is looked up again.
MutRecordApproval(r) ==
    /\ approving[r] = "checked"
    /\ AwaitsReview(reviewed[r])
    /\ approvals' = approvals \cup {[decision |-> reviewed[r], content |-> content[r]]}
    /\ evidence' = [evidence EXCEPT ![subject[reviewed[r]]] = @ \cup {"approval"}]
    /\ approving' = [approving EXCEPT ![r] = "done"]
    /\ UNCHANGED <<evaluationVars, reviewed, content, generation, active, ledger>>
MutRecordApprovalUnchecked(r) ==
    /\ approving[r] = "checked"
    /\ Existing(r) = {}
    /\ approvals' = approvals \cup {[decision |-> reviewed[r], content |-> content[r]]}
    /\ evidence' = [evidence EXCEPT ![subject[reviewed[r]]] = @ \cup {"approval"}]
    /\ approving' = [approving EXCEPT ![r] = "done"]
    /\ UNCHANGED <<evaluationVars, reviewed, content, generation, active, ledger>>
RecordApproval(r) ==
    /\ approving[r] = "checked"
    /\ AwaitsReview(reviewed[r])
    /\ Existing(r) = {}
    /\ approvals' = approvals \cup {[decision |-> reviewed[r], content |-> content[r]]}
    /\ evidence' = [evidence EXCEPT ![subject[reviewed[r]]] = @ \cup {"approval"}]
    /\ approving' = [approving EXCEPT ![r] = "done"]
    /\ UNCHANGED <<evaluationVars, reviewed, content, generation, active, ledger>>

\* The same approval again: the stored record is returned.
ReuseApproval(r) ==
    /\ approving[r] = "checked"
    /\ AwaitsReview(reviewed[r])
    /\ \E record \in Existing(r) : record.content = content[r]
    /\ approving' = [approving EXCEPT ![r] = "done"]
    /\ UNCHANGED <<evaluationVars, reviewed, content, databaseVars, active, ledger>>

ApprovalConflict(r) ==
    /\ approving[r] = "checked"
    /\ \/ ~AwaitsReview(reviewed[r])
       \/ \E record \in Existing(r) : record.content # content[r]
    /\ approving' = [approving EXCEPT ![r] = "refused"]
    /\ UNCHANGED <<evaluationVars, reviewed, content, databaseVars, active, ledger>>

-----------------------------------------------------------------------------
MutResetKeepsEvidence ==
    /\ generation < MaxGenerations
    /\ generation' = generation + 1
    /\ approvals' = {}
    /\ UNCHANGED <<evaluationVars, approvalVars, evidence, active, ledger>>
Reset ==
    /\ generation < MaxGenerations
    /\ generation' = generation + 1
    /\ evidence' = [a \in Actions |-> {}]
    /\ approvals' = {}
    /\ UNCHANGED <<evaluationVars, approvalVars, active, ledger>>

\* POST /api/network/select, or deploy.ts recorded another contract of the network.
SelectContract(c) ==
    /\ c # active
    /\ active' = c
    /\ UNCHANGED <<evaluationVars, approvalVars, databaseVars, ledger>>

FlowNext ==
    \/ \E e \in Evaluations, fact \in Facts : Collect(subject[e], fact) \/ GoStale(subject[e], fact)
    \/ \E e \in Evaluations :
          \/ Evaluate(e) \/ Anchored(e) \/ AnchoredElsewhere(e)
          \/ AnchorReturns(e) \/ AnchorThrows(e) \/ SignPermit(e) \/ Persist(e)
    \/ \E r \in Approvals : CheckApproval(r) \/ RecordApproval(r) \/ ReuseApproval(r)
                              \/ ApprovalConflict(r)
    \/ Reset
    \/ \E c \in Contracts : SelectContract(c)
    \/ NextBlock /\ UNCHANGED flow

FlowSpec == FlowInit /\ [][FlowNext]_vars

-----------------------------------------------------------------------------
Stored(e)  == storedIn[e] # 0
Allowed(e) == Stored(e) /\ decided[e].status = "ALLOW"

\* What executionDispatch accepts: the permit verifies with the key of the database
\* it is found in, so all its parts come from one generation, and it was anchored in
\* the contract of the active network.
Usable(e) ==
    /\ InDatabase(e) /\ Allowed(e)
    /\ decided[e].generation = generation /\ signedIn[e] = generation
    /\ contract[e] = active

\* Two evaluations of one action that are anchored in one contract never both give a
\* permit, whether they run side by side, one after the other or in databases a reset
\* separates, and although the network may be switched away and back meanwhile and
\* the backend keeps no record of what it already allowed.  Permits of one action
\* in two contracts do exist; they are never usable at the same time.
OnePermitPerAction ==
    \A e, f \in Evaluations :
        /\ Allowed(e) /\ Allowed(f) /\ subject[e] = subject[f]
        /\ contract[e] = contract[f] /\ contract[e] = Watched
        => e = f

\* A stored decision is on the ledger of its contract with the counts and the validity
\* it was made with; an evaluation that timed out stores nothing.
DecisionsAreAnchored ==
    \A e \in Evaluations : Stored(e) /\ contract[e] = Watched =>
        \E id \in DOMAIN anchors : anchors[id] = AnchorArguments(e)

\* A permit that can be executed for production or a high risk goes back to an
\* approval, in the same database, of an earlier decision that asked for review
\* of that action (docs/SEGURANCA.md, "Produção sem supervisão").
UsableMeansReviewed ==
    \A e \in Evaluations : Usable(e) /\ subject[e] \in ReviewActions =>
        \E record \in approvals :
            /\ subject[record.decision] = subject[e]
            /\ decided[record.decision].status = "REVIEW_REQUIRED"

\* A decision has at most one approval, and it is a decision of this database that
\* asked for one, although request and update are separated by an await.
ApprovalsAreBound ==
    \A record \in approvals :
        /\ AwaitsReview(record.decision)
        /\ \A other \in approvals : other.decision = record.decision => other = record
=============================================================================
