--------------------------- MODULE EvidenceIntake ---------------------------
(***************************************************************************)
(* How receipts come into the database and leave it again                  *)
(* (backend/src/routes.ts, origins.ts, github.ts): the demonstration       *)
(* origins, declarations of the user, approvals, the GitHub App with its   *)
(* webhook, simulations, the erasure of raw evidence and the reset; with   *)
(* the decisions evaluateEvidencePolicy takes of them.                     *)
(*                                                                         *)
(* The scenario stays selected.  The anchor a decision waits for and the   *)
(* two looks of an approval at the database are in EvaluationFlow.         *)
(***************************************************************************)
EXTENDS PolicyEngine

CONSTANTS
    DefaultAction,  \* of the scenario
    RequestOf,      \* requestId of an action
    UserSource,
    ApprovalSource, CiSource, \* approval-agent-deploy and ci-agent-deploy
    Callers,        \* POST /api/integrations/github/verify-ci requests of agent_deploy
    DeliveryIds,
    Runs, Builds,   \* workflow runs, and the actions whose commit a run builds
    NoRun,
    Skew,           \* MAX_CLOCK_SKEW_MS
    DeliveriesKept, \* 1000
    Validity,       \* of a decision
    MaxTime, MaxGenerations, MaxChanges,
    Settings        \* what a behaviour is about

ASSUME IntakeAssumption ==
    /\ DefaultAction \in Actions /\ RequestOf \in [Actions -> STRING]
    /\ UserSource \in Sources /\ ClassOf[UserSource] = SelfDeclared
    \* Only agent_deploy has these two; github.ts:494 refuses every other scenario.
    /\ ApprovalSource \in Sources => ApprovalSource \in ReviewSources
    /\ Callers # {} => CiSource \in RequiredSources
    /\ Builds \in [Runs -> SUBSET Actions] /\ NoRun \notin Runs
    /\ {Skew, Validity, MaxTime, MaxChanges} \subseteq Nat
    /\ {DeliveriesKept, MaxGenerations} \subseteq Nat \ {0}
    /\ Settings \subseteq [sources : SUBSET Sources, subjects : SUBSET Actions,
                           requests : SUBSET {"evaluate", "simulate", "expire", "reset"},
                           callers : SUBSET Callers, deliveryIds : SUBSET DeliveryIds,
                           requireWebhook : BOOLEAN, receipts : Nat]

VARIABLES
    setting,        \* who asks for what, and how many receipts there may be (fixed)
    clock,
    generation,     \* of the database; a reset begins the next
    evidence,       \* database.evidence, a receipt's id is its place
    readable,       \* receipts whose key evidenceSecrets has
    defaultAction,
    awaiting,       \* validity of a stored decision that awaits review, 0 for none
    deliveries,     \* database.githubDeliveries
    evaluating,     \* an evaluation of an action, perhaps of a simulation
    verifying,      \* where a verify-ci request is suspended
    runs,           \* the workflow runs at GitHub
    history         \* what they have been

database == <<generation, evidence, readable, defaultAction, awaiting, deliveries>>
github   == <<runs, history>>
vars     == <<setting, clock, database, evaluating, verifying, github>>

Generation == 1..MaxGenerations
Time       == 0..(MaxTime + Skew + Validity + MaxAge)

Receipt == [source : Sources, action : Actions, observedAt : Time, expiresAt : Time,
            consistent : BOOLEAN, signedBy : 0..MaxGenerations,
            provider : {"user", "origin", "github-actions", "proofrail-human-approval"}]

Evaluation == [phase : {"idle", "collected", "anchoring", "stored", "expired"},
               simulated : BOOLEAN, status : {"ALLOW", "REVIEW_REQUIRED", "DENY"},
               evidenceIds : SUBSET Nat, generation : 0..MaxGenerations]
NoEvaluation == [phase |-> "idle", simulated |-> FALSE, status |-> "DENY", evidenceIds |-> {},
                 generation |-> 0]

Verification == [phase : {"idle", "asking", "ran", "fresh", "keyed", "done", "failed"},
                 action : Actions, run : Runs \cup {NoRun}, observedAt : Time,
                 key : 0..MaxGenerations]
NoVerification == [phase |-> "idle", action |-> DefaultAction, run |-> NoRun,
                   observedAt |-> 0, key |-> 0]

Conclusions == {"none", "success", "failure"}

Init ==
    /\ setting \in Settings
    /\ clock = 0
    /\ generation = 1
    /\ evidence = <<>>
    /\ readable = {}
    /\ defaultAction = DefaultAction
    /\ awaiting = [a \in Actions |-> 0]
    /\ deliveries = <<>>
    /\ evaluating = [a \in Actions |-> NoEvaluation]
    /\ verifying = [c \in Callers |-> NoVerification]
    /\ runs = [r \in Runs |-> [conclusion |-> "none", updatedAt |-> 0, artifact |-> FALSE]]
    /\ history = {}

-----------------------------------------------------------------------------
(* Receipts.                                                               *)

\* The receipts are stored with the keys of their encrypted raw evidence.
Store(receipts) ==
    /\ Len(evidence) + Len(receipts) <= setting.receipts
    /\ evidence' = evidence \o receipts
    /\ readable' = readable \cup {Len(evidence) + k : k \in DOMAIN receipts}

\* createSignedEvidence, with the origin's key of generation key.
SignedEvidence(s, a, consistent, key) ==
    [source |-> s, action |-> a, observedAt |-> clock, expiresAt |-> clock + MaxAge,
     consistent |-> consistent, signedBy |-> key, provider |-> "origin"]

Collectable == {s \in Sources : ClassOf[s] # SelfDeclared /\ s # ApprovalSource}

\* POST /api/evidence/collect: the key was read when the request arrived, perhaps
\* before a reset.
Collect(a, s, consistent, key) ==
    /\ s \in Collectable
    /\ key <= generation
    /\ Store(<<SignedEvidence(s, a, consistent, key)>>)
    /\ defaultAction' = a
    /\ UNCHANGED <<setting, clock, generation, awaiting, deliveries, evaluating, verifying, github>>

\* POST /api/evidence/self-declared and document; the claim is that of the first
\* required source.
SelfDeclare(a) ==
    /\ Store(<<[source |-> UserSource, action |-> a, observedAt |-> clock,
                expiresAt |-> clock + MaxAge, consistent |-> TRUE, signedBy |-> 0,
                provider |-> "user"]>>)
    /\ defaultAction' = a
    /\ UNCHANGED <<setting, clock, generation, awaiting, deliveries, evaluating, verifying, github>>

\* POST /api/approvals: an independent person signed an approval of the decision.  Where
\* the scenario has no origin for it createApprovalEvidence throws and nothing is stored.
Approve(a, approvedAt, expiresAt) ==
    /\ ApprovalSource \in Sources
    /\ approvedAt < expiresAt
    /\ expiresAt <= awaiting[a]
    /\ expiresAt > clock /\ approvedAt <= clock + Skew
    /\ Store(<<[source |-> ApprovalSource, action |-> a, observedAt |-> approvedAt,
                expiresAt |-> Min({approvedAt + MaxAge, expiresAt}), consistent |-> TRUE,
                signedBy |-> generation, provider |-> "proofrail-human-approval"]>>)
    /\ awaiting' = [awaiting EXCEPT ![a] = 0]
    /\ UNCHANGED <<setting, clock, generation, defaultAction, deliveries, evaluating, verifying,
                   github>>

-----------------------------------------------------------------------------
(* Evaluations and simulations.                                            *)

Reusable(s, a) ==
    \E i \in DOMAIN evidence :
        /\ evidence[i].source = s /\ evidence[i].action = a
        /\ Verified(evidence[i], generation)
        /\ evidence[i].expiresAt > clock

\* The first part of POST /api/simulation/run: a valid receipt of each origin that
\* has none to reuse.  The keys were read one after the other.
Simulate(a, keyOf) ==
    LET absent == SetToSeq({s \in Collectable : ~Reusable(s, a)})
    IN  /\ evaluating[a].phase \in {"idle", "expired"}
        /\ Store([k \in DOMAIN absent |-> SignedEvidence(absent[k], a, TRUE, keyOf[absent[k]])])
        /\ defaultAction' = a
        /\ evaluating' = [evaluating EXCEPT ![a] =
                            [NoEvaluation EXCEPT !.phase = "collected", !.simulated = TRUE]]
        /\ UNCHANGED <<setting, clock, generation, awaiting, deliveries, verifying, github>>

\* evaluateAndPersist up to the anchor, of a simulation or of POST /api/evaluate.
Evaluate(a) ==
    LET decision == EvaluateEvidencePolicy(evidence, a, generation, clock)
    IN  /\ evaluating[a].phase \in {"idle", "expired", "collected"}
        /\ evaluating' = [evaluating EXCEPT ![a] =
             [phase |-> "anchoring", simulated |-> evaluating[a].phase = "collected",
              status |-> decision.status, evidenceIds |-> decision.evidenceIds,
              generation |-> generation]]
        /\ UNCHANGED <<setting, clock, database, verifying, github>>

\* Its update, in the database of that moment.
Persist(a) ==
    /\ evaluating[a].phase = "anchoring"
    /\ defaultAction' = a
    /\ awaiting' = IF evaluating[a].status = "REVIEW_REQUIRED"
                   THEN [awaiting EXCEPT ![a] = clock + Validity] ELSE awaiting
    /\ evaluating' = [evaluating EXCEPT ![a] =
                        IF @.simulated THEN [@ EXCEPT !.phase = "stored"] ELSE NoEvaluation]
    /\ UNCHANGED <<setting, clock, generation, evidence, readable, deliveries, verifying, github>>

\* MidnightAnchorError: nothing is stored, and a simulation ends here.
AnchorFails(a) ==
    /\ evaluating[a].phase = "anchoring"
    /\ evaluating' = [evaluating EXCEPT ![a] = NoEvaluation]
    /\ UNCHANGED <<setting, clock, database, verifying, github>>

\* expireRequestEvidence
ExpireRequest(request) ==
    readable' = {i \in readable : RequestOf[evidence[i].action] # request}

MutSimulationExpires(a) ==
    /\ evaluating[a].phase = "stored"
    /\ ExpireRequest(RequestOf[defaultAction])
    /\ evaluating' = [evaluating EXCEPT ![a].phase = "expired"]
    /\ UNCHANGED <<setting, clock, generation, evidence, defaultAction, awaiting, deliveries,
                   verifying, github>>
\* The end of a simulation.
SimulationExpires(a) ==
    /\ evaluating[a].phase = "stored"
    /\ ExpireRequest(RequestOf[a])
    /\ evaluating' = [evaluating EXCEPT ![a].phase = "expired"]
    /\ UNCHANGED <<setting, clock, generation, evidence, defaultAction, awaiting, deliveries,
                   verifying, github>>

\* POST /api/lifecycle/expire
Expire ==
    /\ ExpireRequest(RequestOf[defaultAction])
    /\ UNCHANGED <<setting, clock, generation, evidence, defaultAction, awaiting, deliveries,
                   evaluating, verifying, github>>

\* POST /api/reset
Reset ==
    /\ generation < MaxGenerations
    /\ generation' = generation + 1
    /\ evidence' = <<>>
    /\ readable' = {}
    /\ defaultAction' = DefaultAction
    /\ awaiting' = [a \in Actions |-> 0]
    /\ deliveries' = <<>>
    /\ UNCHANGED <<setting, clock, evaluating, verifying, github>>

-----------------------------------------------------------------------------
(* The GitHub App.                                                         *)

\* A run ends, or starts again; its artifact, with the digest of the actions it
\* builds, is there or has expired.  GitHub's clock is up to Skew ahead.
RunChanges(r, conclusion, artifact, ahead) ==
    /\ Cardinality(history) < MaxChanges
    /\ runs' = [runs EXCEPT ![r] = [conclusion |-> conclusion, updatedAt |-> clock + ahead,
                                    artifact |-> artifact]]
    /\ history' = history \cup {[run |-> r, conclusion |-> conclusion,
                                 updatedAt |-> clock + ahead]}
    /\ UNCHANGED <<setting, clock, database, evaluating, verifying>>

MutKept(seq) == seq
\* The last DeliveriesKept of a sequence.
Kept(seq) == SubSeq(seq, Max({1, Len(seq) - DeliveriesKept + 1}), Len(seq))

\* POST /api/integrations/github/webhook, signed, of something that happened: at
\* any time, repeatedly and in any order.  A known id changes nothing, whether it
\* is a duplicate or, with other contents, a collision (409).
Deliver(id, event) ==
    /\ \A k \in DOMAIN deliveries : deliveries[k].id # id
    /\ deliveries' = Kept(Append(deliveries, [id |-> id, run |-> event.run,
                                              conclusion |-> event.conclusion]))
    /\ UNCHANGED <<setting, clock, generation, evidence, readable, defaultAction, awaiting,
                   evaluating, verifying, github>>

\* reusableGitHubCiEvidence
ReusableCi(a) ==
    {i \in DOMAIN evidence : /\ evidence[i].source = CiSource /\ evidence[i].action = a
                             /\ evidence[i].expiresAt >= clock
                             /\ VerifyEvidenceReceipt(evidence[i], generation)}

\* The remembered deliveries of the action's commit, or the one the request names.
MatchingDeliveries(a, named) ==
    {k \in DOMAIN deliveries : /\ a \in Builds[deliveries[k].run]
                               /\ named \in {"", deliveries[k].id}}

Await(c, phase) == verifying' = [verifying EXCEPT ![c].phase = phase]

\* POST /api/integrations/github/verify-ci, signed by the agent.
VerifyReuses(c, a) ==
    /\ verifying[c].phase = "idle"
    /\ ReusableCi(a) # {}
    /\ Await(c, "done")
    /\ UNCHANGED <<setting, clock, database, evaluating, github>>

\* The latest matching delivery must be a success; without one any run of the
\* commit will do.
VerifyStart(c, a, named) ==
    LET matching == MatchingDeliveries(a, named)
        latest   == deliveries[Max(matching)]
    IN  /\ verifying[c].phase = "idle"
        /\ ReusableCi(a) = {}
        /\ IF matching = {} THEN ~setting.requireWebhook ELSE latest.conclusion = "success"
        /\ verifying' = [verifying EXCEPT ![c] =
             [NoVerification EXCEPT !.phase = "asking", !.action = a,
                                    !.run = IF matching = {} THEN NoRun ELSE latest.run]]
        /\ UNCHANGED <<setting, clock, database, evaluating, github>>

\* 409 or 422.
VerifyRefused(c, a, named) ==
    LET matching == MatchingDeliveries(a, named)
    IN  /\ verifying[c].phase = "idle"
        /\ ReusableCi(a) = {}
        /\ IF matching = {} THEN setting.requireWebhook
                            ELSE deliveries[Max(matching)].conclusion # "success"
        /\ Await(c, "failed")
        /\ UNCHANGED <<setting, clock, database, evaluating, github>>

MutRunAnswers(c, r) ==
    /\ verifying[c].phase = "asking"
    /\ verifying[c].run \in {r, NoRun} /\ verifying[c].action \in Builds[r]
    /\ verifying' = [verifying EXCEPT ![c].phase = "ran", ![c].run = r,
                                      ![c].observedAt = runs[r].updatedAt]
    /\ UNCHANGED <<setting, clock, database, evaluating, github>>
\* GitHub shows the run of the delivery, or a successful one of the commit.
RunAnswers(c, r) ==
    /\ verifying[c].phase = "asking"
    /\ verifying[c].run \in {r, NoRun} /\ verifying[c].action \in Builds[r]
    /\ runs[r].conclusion = "success"
    /\ verifying' = [verifying EXCEPT ![c].phase = "ran", ![c].run = r,
                                      ![c].observedAt = runs[r].updatedAt]
    /\ UNCHANGED <<setting, clock, database, evaluating, github>>

\* isGitHubObservationFresh
ObservationFresh(observedAt) == observedAt \in (clock - MaxAge)..(clock + Skew)

\* GitHub lists the artifact, and the run is fresh.
ArtifactAnswers(c) ==
    /\ verifying[c].phase = "ran"
    /\ runs[verifying[c].run].artifact
    /\ ObservationFresh(verifying[c].observedAt)
    /\ Await(c, "fresh")
    /\ UNCHANGED <<setting, clock, database, evaluating, github>>

\* An answer of GitHub that is missing, refused, another run, no artifact or too old.
VerifyFails(c) ==
    /\ verifying[c].phase \in {"asking", "ran"}
    /\ Await(c, "failed")
    /\ UNCHANGED <<setting, clock, database, evaluating, github>>

\* store.originPrivateKey
VerifyReadsKey(c) ==
    /\ verifying[c].phase = "fresh"
    /\ verifying' = [verifying EXCEPT ![c].phase = "keyed", ![c].key = generation]
    /\ UNCHANGED <<setting, clock, database, evaluating, github>>

\* createGitHubCiEvidence
CiEvidence(v) ==
    [source |-> CiSource, action |-> v.action, observedAt |-> v.observedAt,
     expiresAt |-> v.observedAt + MaxAge, consistent |-> TRUE, signedBy |-> v.key,
     provider |-> "github-actions"]

MutVerifyStores(c) ==
    /\ verifying[c].phase = "keyed"
    /\ defaultAction' = verifying[c].action
    /\ Store(<<CiEvidence(verifying[c])>>)
    /\ Await(c, "done")
    /\ UNCHANGED <<setting, clock, generation, awaiting, deliveries, evaluating, github>>
\* The update looks for a receipt to reuse again.
VerifyStores(c) ==
    /\ verifying[c].phase = "keyed"
    /\ IF ReusableCi(verifying[c].action) # {}
       THEN UNCHANGED <<defaultAction, evidence, readable>>
       ELSE defaultAction' = verifying[c].action /\ Store(<<CiEvidence(verifying[c])>>)
    /\ Await(c, "done")
    /\ UNCHANGED <<setting, clock, generation, awaiting, deliveries, evaluating, github>>

-----------------------------------------------------------------------------
Tick ==
    /\ clock < MaxTime
    /\ clock' = clock + 1
    /\ UNCHANGED <<setting, database, evaluating, verifying, github>>

Next ==
    \/ \E a \in setting.subjects :
          \/ \E s \in setting.sources, consistent \in BOOLEAN, key \in 1..generation :
                Collect(a, s, consistent, key)
          \/ UserSource \in setting.sources /\ SelfDeclare(a)
          \/ \E approvedAt \in 0..(clock + Skew), expiresAt \in (clock + 1)..awaiting[a] :
                Approve(a, approvedAt, expiresAt)
          \/ \E keyOf \in [Collectable -> 1..generation] :
                "simulate" \in setting.requests /\ Simulate(a, keyOf)
          \/ /\ "evaluate" \in setting.requests \/ evaluating[a].phase = "collected"
             /\ Evaluate(a)
          \/ Persist(a) \/ AnchorFails(a) \/ SimulationExpires(a)
    \/ \E r \in Runs, conclusion \in Conclusions, artifact \in BOOLEAN, ahead \in 0..Skew :
          setting.callers # {} /\ RunChanges(r, conclusion, artifact, ahead)
    \/ \E id \in setting.deliveryIds, event \in history : Deliver(id, event)
    \/ \E c \in setting.callers :
          \/ \E a \in setting.subjects :
                \/ VerifyReuses(c, a)
                \/ \E named \in {""} \cup setting.deliveryIds :
                      VerifyStart(c, a, named) \/ VerifyRefused(c, a, named)
          \/ \E r \in Runs : RunAnswers(c, r)
          \/ ArtifactAnswers(c) \/ VerifyFails(c) \/ VerifyReadsKey(c) \/ VerifyStores(c)
    \/ "expire" \in setting.requests /\ Expire
    \/ "reset" \in setting.requests /\ Reset
    \/ Tick

Spec == Init /\ [][Next]_vars

-----------------------------------------------------------------------------
EvidenceTypeOK ==
    /\ setting \in Settings /\ clock \in 0..MaxTime /\ generation \in Generation
    /\ evidence \in Seq(Receipt) /\ Len(evidence) <= setting.receipts
    /\ readable \subseteq DOMAIN evidence
    /\ defaultAction \in Actions
    /\ awaiting \in [Actions -> 0..(MaxTime + Validity)]
    /\ deliveries \in Seq([id : DeliveryIds, run : Runs, conclusion : Conclusions])
    /\ Len(deliveries) <= DeliveriesKept
    /\ evaluating \in [Actions -> Evaluation]
    /\ verifying \in [Callers -> Verification]
    /\ runs \in [Runs -> [conclusion : Conclusions, updatedAt : Time, artifact : BOOLEAN]]
    /\ history \subseteq [run : Runs, conclusion : Conclusions, updatedAt : Time]

InForce(i, a) ==
    /\ evidence[i].action = a
    /\ evidence[i].signedBy = generation
    /\ clock \in evidence[i].observedAt..evidence[i].expiresAt
    /\ clock - evidence[i].observedAt <= MaxAge

Testifies(s, a) ==
    \E i \in DOMAIN evidence :
        /\ evidence[i].source = s
        /\ InForce(i, a) /\ evidence[i].consistent
        /\ s = ApprovalSource => evidence[i].provider = "proofrail-human-approval"

Decision(a) == EvaluateEvidencePolicy(evidence, a, generation, clock)

\* An action is allowed exactly when every source it needs testifies for it now, in
\* this database, a person for what needs review, and no source contradicts,
\* through resets, stale keys, clocks ahead and edited actions (policy.ts).  Where a
\* scenario has no review sources, what needs review is never allowed.
AllowIsJustified ==
    \A a \in Actions :
        Decision(a).status = "ALLOW" <=>
            /\ a \notin ExcessiveActions
            /\ a \in ReviewActions => ReviewSources # {}
            /\ \A s \in RequiredSources \cup IF a \in ReviewActions THEN ReviewSources ELSE {} :
                  Testifies(s, a)
            /\ \A i \in DOMAIN evidence : InForce(i, a) => evidence[i].consistent

\* What the backend sends with an ALLOW satisfies the asserts of registerDecision:
\* enough independent sources and no contradiction (DecisionContract).
AllowPassesContract ==
    \A a \in Actions : Decision(a).status = "ALLOW" =>
        /\ Decision(a).independentSources >= Decision(a).requiredSources
        /\ Decision(a).contradictionCount = 0

\* A root stands for one set of receipts, also where a level of the tree pairs its
\* last hash with itself (merkle.ts).
RootsIdentifyEvidence ==
    Cardinality({MerkleRoot(IdsInOrder(ids)) : ids \in SUBSET DOMAIN evidence})
        = 2 ^ Len(evidence)

\* A receipt of the GitHub App says when a run of the action's commit was a
\* success, whatever the run, the webhooks and the database became meanwhile.
CiReceiptsAreObserved ==
    \A i \in DOMAIN evidence : evidence[i].provider = "github-actions" =>
        \E event \in history : /\ evidence[i].action \in Builds[event.run]
                               /\ event.conclusion = "success"
                               /\ event.updatedAt = evidence[i].observedAt

\* Requests that verify one action beside each other leave one receipt in force:
\* the App adds none while another CI receipt could be reused.
OneCiReceiptPerAction ==
    \A i, j \in DOMAIN evidence :
        /\ i < j
        /\ evidence[i].source = CiSource /\ evidence[j].provider = "github-actions"
        /\ evidence[i].action = evidence[j].action /\ evidence[i].signedBy = generation
        => evidence[i].expiresAt < clock

\* A simulation that ended leaves no key to the raw evidence its decision rests
\* on, although other requests came between its parts.
SimulationErasesEvidence ==
    \A a \in Actions :
        evaluating[a].phase = "expired" /\ evaluating[a].generation = generation =>
            evaluating[a].evidenceIds \cap readable = {}
=============================================================================
