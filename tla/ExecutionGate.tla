--------------------------- MODULE ExecutionGate ---------------------------
(***************************************************************************)
(* POST /api/execute (backend/src/routes.ts), the handler that consumes a  *)
(* one-time permit and dispatches the staging workflow.                    *)
(*                                                                         *)
(* A call is one HTTP request.  Its handler awaits, in this order, the     *)
(* network status, the store update that reserves the permit, the update   *)
(* that starts the execution, the dispatch to GitHub and the update that   *)
(* records the outcome; between two awaits any other handler, a reset, a   *)
(* scenario or network change, or a crash of the process may run.  Store   *)
(* updates are atomic towards each other (PostgresStateStore's revision    *)
(* check, JsonStore's queue), and a reset does not fall into one of them.  *)
(*                                                                         *)
(* executions holds every record ever inserted, indexed by the call that   *)
(* inserted it (the code draws a random id).  A reset replaces the         *)
(* database: it is modelled by the generation number, and the database is  *)
(* the set of records of the current generation.                           *)
(***************************************************************************)
EXTENDS Naturals, FiniteSets

CONSTANTS
    Calls,           \* POST /api/execute requests
    Keys,            \* values of the Idempotency-Key header
    Permits,         \* ids of permits of agent_deploy decisions
    Nonces,          \* requestIds of the permitted actions
    NonceOf,         \* permit.action.requestId
    Deployments,     \* contract deployments of the public networks
    LocalSimulator,  \* anchorNetwork "local-simulator"
    NoDeployment,    \* getNetworkStatus: nothing deployed, or the file unreadable
    AnchorOf,        \* the deployment that anchored the ALLOW of a permit
    LocalMode,       \* MIDNIGHT_MODE is "local"
    Deployable,      \* permits of the closed staging action with CI provenance
    NoCall,
    \* What the environment may do, and the bound on the resets.
    StoreMayThrow,   \* an update may throw before it commits
    AckMayBeLost,    \* an update may commit and throw (lost COMMIT reply, Postgres)
    MayCrash,
    MaxResets

ASSUME GateAssumption ==
    /\ NonceOf \in [Permits -> Nonces]
    /\ AnchorOf \in [Permits -> Deployments \cup {LocalSimulator}]
    /\ Deployable \subseteq Permits
    /\ NoCall \notin Calls
    /\ MaxResets \in Nat
    /\ {LocalMode, StoreMayThrow, AckMayBeLost, MayCrash} \subseteq BOOLEAN

VARIABLES
    request,       \* the key and the permit each call carries (fixed)
    phase,         \* where the handler of a call is suspended
    seenNetwork,   \* the deployment getNetworkStatus returned to a call
    wire,          \* the dispatch request of a call, on its way to GitHub
    reply,         \* the answer the client got
    answer,        \* the call whose record was returned in the answer
    executions,    \* the execution records, by the call that inserted them
    generation,    \* resets so far
    standing,      \* what executionDispatch finds about a permit
    deployPolicy,  \* database.policy is the agent_deploy policy
    activeNetwork  \* the deployment .midnight-state.json points at

handlerVars == <<request, phase, seenNetwork, wire, reply, answer>>
storeVars   == <<executions, generation, standing, deployPolicy>>
vars        == <<handlerVars, storeVars, activeNetwork>>

-----------------------------------------------------------------------------
(* Types.  Definitions named Mut... are faulty variants of the definition  *)
(* that follows them; no specification uses them.                          *)

ExecutionStatus == {"pending", "executing", "succeeded", "failed"}

Phases == {"idle",        \* not sent yet
           "admitted",    \* parsed, network status read
           "reserved",    \* the reservation update returned
           "started",     \* the start update returned
           "dispatching", \* waiting for GitHub's answer
           "dispatched",  \* dispatch returned, success not yet recorded
           "failing",     \* in the catch block, failure not yet recorded
           "replied",
           "lost"}        \* the process died under the call

Refusals == {"PERMIT_NOT_FOUND", "PERMIT_INVALID", "PERMIT_EXPIRED",
             "EXECUTION_NOT_ALLOWED"}

Replies == Refusals \cup
           {"none", "CREATED", "REPLAYED", "IDEMPOTENCY_CONFLICT",
            "EXECUTION_IN_PROGRESS", "PERMIT_ALREADY_CONSUMED",
            "EXECUTION_FAILED", "INTERNAL_ERROR"}

Record   == [status : ExecutionStatus \cup {"none"}, generation : 0..MaxResets]
NoRecord == [status |-> "none", generation |-> 0]

TypeOK ==
    /\ request \in [Calls -> [key : Keys, permit : Permits]]
    /\ phase \in [Calls -> Phases]
    /\ seenNetwork \in [Calls -> Deployments \cup {NoDeployment}]
    /\ wire \in [Calls -> {"none", "sent", "accepted", "refused"}]
    /\ reply \in [Calls -> Replies]
    /\ answer \in [Calls -> Calls \cup {NoCall}]
    /\ executions \in [Calls -> Record]
    /\ generation \in 0..MaxResets
    /\ standing \in [Permits -> {"absent", "valid", "expired", "erased"}]
    /\ deployPolicy \in BOOLEAN
    /\ activeNetwork \in Deployments \cup {NoDeployment}

-----------------------------------------------------------------------------
(* The database as an update sees it.                                      *)

Permit(c) == request[c].permit
Key(c)    == request[c].key
Nonce(c)  == NonceOf[Permit(c)]

HasRecord(c) == executions[c].status # "none"

InStore(c) == HasRecord(c) /\ executions[c].generation = generation

MutPriorKeyByPermit(c) == {d \in Calls : InStore(d) /\ Permit(d) = Permit(c)}

\* routes.ts:1191 database.executions.find by idempotencyKey.
PriorKey(c) == {d \in Calls : InStore(d) /\ Key(d) = Key(c)}

MutConsumingPermitOnly(c) == {d \in Calls : InStore(d) /\ Permit(d) = Permit(c)}
MutConsumingFinished(c) ==
    {d \in Calls : /\ InStore(d) /\ Nonce(d) = Nonce(c)
                   /\ executions[d].status \in {"succeeded", "failed"}}

\* routes.ts:1210 database.executions.find by permitId or requestId.
Consuming(c) ==
    {d \in Calls : InStore(d) /\ (Permit(d) = Permit(c) \/ Nonce(d) = Nonce(c))}

\* routes.ts:351 the permit was anchored by what the call saw as active.
AnchorIsActive(p, seen) ==
    IF AnchorOf[p] = LocalSimulator THEN LocalMode ELSE AnchorOf[p] = seen

\* executionDispatch throws, and with which code: the permit is looked up, then
\* its policy version, its expiry, its action, its anchor and its CI provenance
\* are checked in this order.
Refuses(p, seen, code) ==
    \/ standing[p] \in {"absent", "erased"} /\ code = "PERMIT_NOT_FOUND"
    \/ /\ standing[p] \in {"valid", "expired"}
       /\ ~deployPolicy
       /\ code = "PERMIT_INVALID"
    \/ standing[p] = "expired" /\ deployPolicy /\ code = "PERMIT_EXPIRED"
    \/ /\ standing[p] = "valid" /\ deployPolicy
       /\ \/ p \notin Deployable /\ code \in {"EXECUTION_NOT_ALLOWED", "PERMIT_INVALID"}
          \/ ~AnchorIsActive(p, seen) /\ code = "PERMIT_INVALID"

Dispatchable(p, seen) ==
    /\ standing[p] = "valid" /\ deployPolicy
    /\ p \in Deployable /\ AnchorIsActive(p, seen)

-----------------------------------------------------------------------------
Init ==
    /\ request \in [Calls -> [key : Keys, permit : Permits]]
    /\ phase = [c \in Calls |-> "idle"]
    /\ seenNetwork = [c \in Calls |-> NoDeployment]
    /\ wire = [c \in Calls |-> "none"]
    /\ reply = [c \in Calls |-> "none"]
    /\ answer = [c \in Calls |-> NoCall]
    /\ executions = [c \in Calls |-> NoRecord]
    /\ generation = 0
    /\ standing = [p \in Permits |-> "absent"]
    /\ deployPolicy = TRUE
    /\ activeNetwork \in Deployments \cup {NoDeployment}

-----------------------------------------------------------------------------
(* The handler.  Each action is the code between two awaits.               *)

Answered(c, code) ==
    /\ phase' = [phase EXCEPT ![c] = "replied"]
    /\ reply' = [reply EXCEPT ![c] = code]

\* The update of c rejects: in the inner try block the catch block takes over,
\* elsewhere the outer catch rethrows and the client gets a 500.
Throws(c) ==
    IF phase[c] = "dispatched"
    THEN /\ phase' = [phase EXCEPT ![c] = "failing"]
         /\ UNCHANGED reply
    ELSE Answered(c, "INTERNAL_ERROR")

\* Whether the caller of an update that committed learns about it.
Acks == IF AckMayBeLost THEN BOOLEAN ELSE {TRUE}

\* The request is parsed and getNetworkStatus awaited; it falls back to
\* "undeployed" when the state file cannot be read.
Receive(c) ==
    /\ phase[c] = "idle"
    /\ phase' = [phase EXCEPT ![c] = "admitted"]
    /\ \E seen \in {activeNetwork, NoDeployment} :
          seenNetwork' = [seenNetwork EXCEPT ![c] = seen]
    /\ UNCHANGED <<request, wire, reply, answer, storeVars, activeNetwork>>

\* A retry: the key is known and bound to the same permit.
ReplayRecord(c) ==
    /\ phase[c] = "admitted"
    /\ \E d \in PriorKey(c) :
          /\ Permit(d) = Permit(c)
          /\ answer' = [answer EXCEPT ![c] = d]
    /\ Answered(c, "REPLAYED")
    /\ UNCHANGED <<request, seenNetwork, wire, storeVars, activeNetwork>>

RejectKey(c) ==
    /\ phase[c] = "admitted"
    /\ \E d \in PriorKey(c) : Permit(d) # Permit(c)
    /\ Answered(c, "IDEMPOTENCY_CONFLICT")
    /\ UNCHANGED <<request, seenNetwork, wire, answer, storeVars, activeNetwork>>

RejectPermit(c) ==
    /\ phase[c] = "admitted"
    /\ PriorKey(c) = {}
    /\ \E code \in Refusals :
          /\ Refuses(Permit(c), seenNetwork[c], code)
          /\ Answered(c, code)
    /\ UNCHANGED <<request, seenNetwork, wire, answer, storeVars, activeNetwork>>

RejectConsumed(c) ==
    /\ phase[c] = "admitted"
    /\ PriorKey(c) = {}
    /\ Dispatchable(Permit(c), seenNetwork[c])
    /\ \E d \in Consuming(c) :
          Answered(c, IF executions[d].status \in {"pending", "executing"}
                      THEN "EXECUTION_IN_PROGRESS"
                      ELSE "PERMIT_ALREADY_CONSUMED")
    /\ UNCHANGED <<request, seenNetwork, wire, answer, storeVars, activeNetwork>>

\* Read, checks and insertion are one update.
Reserve(c, acked) ==
    /\ phase[c] = "admitted"
    /\ PriorKey(c) = {}
    /\ Dispatchable(Permit(c), seenNetwork[c])
    /\ Consuming(c) = {}
    /\ executions' = [executions EXCEPT
                        ![c] = [status |-> "pending", generation |-> generation]]
    /\ IF acked THEN /\ phase' = [phase EXCEPT ![c] = "reserved"]
                     /\ UNCHANGED reply
                ELSE Throws(c)
    /\ UNCHANGED <<request, seenNetwork, wire, answer, generation, standing,
                   deployPolicy, activeNetwork>>

MutStartUnrecorded(c, acked) ==
    /\ phase[c] = "reserved"
    /\ InStore(c)
    /\ phase' = [phase EXCEPT ![c] = "started"]
    /\ UNCHANGED <<request, seenNetwork, wire, reply, answer, storeVars, activeNetwork>>

Start(c, acked) ==
    /\ phase[c] = "reserved"
    /\ InStore(c)
    /\ executions' = [executions EXCEPT ![c].status = "executing"]
    /\ IF acked THEN /\ phase' = [phase EXCEPT ![c] = "started"]
                     /\ UNCHANGED reply
                ELSE Throws(c)
    /\ UNCHANGED <<request, seenNetwork, wire, answer, generation, standing,
                   deployPolicy, activeNetwork>>

\* executor.dispatch issues the request.
Dispatch(c) ==
    /\ phase[c] = "started"
    /\ phase' = [phase EXCEPT ![c] = "dispatching"]
    /\ wire' = [wire EXCEPT ![c] = "sent"]
    /\ UNCHANGED <<request, seenNetwork, reply, answer, storeVars, activeNetwork>>

\* A 2xx response of acceptable size.
DispatchReturns(c) ==
    /\ phase[c] = "dispatching"
    /\ wire[c] = "accepted"
    /\ phase' = [phase EXCEPT ![c] = "dispatched"]
    /\ UNCHANGED <<request, seenNetwork, wire, reply, answer, storeVars, activeNetwork>>

MutDispatchIgnoresStatus(c) ==
    /\ phase[c] = "dispatching"
    /\ wire[c] = "refused"
    /\ phase' = [phase EXCEPT ![c] = "dispatched"]
    /\ UNCHANGED <<request, seenNetwork, wire, reply, answer, storeVars, activeNetwork>>
MutDispatchWithoutTimeout(c) ==
    /\ phase[c] = "dispatching"
    /\ wire[c] = "refused"
    /\ phase' = [phase EXCEPT ![c] = "failing"]
    /\ UNCHANGED <<request, seenNetwork, wire, reply, answer, storeVars, activeNetwork>>

\* A non-2xx response, or the 10 s abort, a broken connection, an oversized or
\* unreadable body: these tell nothing of what GitHub did or will do.
DispatchThrows(c) ==
    /\ phase[c] = "dispatching"
    /\ phase' = [phase EXCEPT ![c] = "failing"]
    /\ UNCHANGED <<request, seenNetwork, wire, reply, answer, storeVars, activeNetwork>>

RecordSuccess(c, acked) ==
    /\ phase[c] = "dispatched"
    /\ InStore(c)
    /\ executions' = [executions EXCEPT ![c].status = "succeeded"]
    /\ IF acked THEN /\ Answered(c, "CREATED")
                     /\ answer' = [answer EXCEPT ![c] = c]
                ELSE Throws(c) /\ UNCHANGED answer
    /\ UNCHANGED <<request, seenNetwork, wire, generation, standing, deployPolicy,
                   activeNetwork>>

MutFailureReopens(c, acked) ==
    /\ phase[c] = "failing"
    /\ InStore(c)
    /\ executions' = [executions EXCEPT ![c].status = "pending"]
    /\ Answered(c, "EXECUTION_FAILED")
    /\ UNCHANGED <<request, seenNetwork, wire, answer, generation, standing,
                   deployPolicy, activeNetwork>>
MutFailureReleasesPermit(c, acked) ==
    /\ phase[c] = "failing"
    /\ InStore(c)
    /\ executions' = [executions EXCEPT ![c] = NoRecord]
    /\ Answered(c, "EXECUTION_FAILED")
    /\ UNCHANGED <<request, seenNetwork, wire, answer, generation, standing,
                   deployPolicy, activeNetwork>>

MutFailureCodeAsStatus(c, acked) ==
    /\ phase[c] = "failing"
    /\ InStore(c)
    /\ executions' = [executions EXCEPT ![c].status = "EXECUTION_FAILED"]
    /\ Answered(c, "EXECUTION_FAILED")
    /\ UNCHANGED <<request, seenNetwork, wire, answer, generation, standing,
                   deployPolicy, activeNetwork>>

RecordFailure(c, acked) ==
    /\ phase[c] = "failing"
    /\ InStore(c)
    /\ executions' = [executions EXCEPT ![c].status = "failed"]
    /\ IF acked THEN Answered(c, "EXECUTION_FAILED") ELSE Throws(c)
    /\ UNCHANGED <<request, seenNetwork, wire, answer, generation, standing,
                   deployPolicy, activeNetwork>>

MutMissingRecordIgnored(c) ==
    /\ StoreMayThrow /\ phase[c] \in {"admitted", "reserved", "dispatched", "failing"}
    /\ Throws(c)
    /\ UNCHANGED <<request, seenNetwork, wire, answer, storeVars, activeNetwork>>

\* An update rejects without committing: the store fails, or the record the
\* mutator dereferences was removed by a reset (a TypeError).
UpdateThrows(c) ==
    /\ \/ StoreMayThrow /\ phase[c] \in {"admitted", "reserved", "dispatched", "failing"}
       \/ phase[c] \in {"reserved", "dispatched", "failing"} /\ ~InStore(c)
    /\ Throws(c)
    /\ UNCHANGED <<request, seenNetwork, wire, answer, storeVars, activeNetwork>>

Handler(c) ==
    \/ ReplayRecord(c) \/ RejectKey(c) \/ RejectPermit(c) \/ RejectConsumed(c)
    \/ \E acked \in Acks : \/ Reserve(c, acked) \/ Start(c, acked)
                            \/ RecordSuccess(c, acked) \/ RecordFailure(c, acked)
    \/ Dispatch(c) \/ DispatchReturns(c) \/ DispatchThrows(c) \/ UpdateThrows(c)

-----------------------------------------------------------------------------
(* The environment of the handlers.                                        *)

\* GitHub decides on a dispatch request whenever it arrives, whether or not the
\* handler still waits for the response.
GitHubAccepts(c) ==
    /\ wire[c] = "sent"
    /\ wire' = [wire EXCEPT ![c] = "accepted"]
    /\ UNCHANGED <<request, phase, seenNetwork, reply, answer, storeVars, activeNetwork>>

GitHubRefuses(c) ==
    /\ wire[c] = "sent"
    /\ wire' = [wire EXCEPT ![c] = "refused"]
    /\ UNCHANGED <<request, phase, seenNetwork, reply, answer, storeVars, activeNetwork>>

\* evaluateAndPersist stores an ALLOW decision with a permit of a fresh id.
IssuePermit(p) ==
    /\ standing[p] = "absent"
    /\ standing' = [standing EXCEPT ![p] = "valid"]
    /\ UNCHANGED <<handlerVars, executions, generation, deployPolicy, activeNetwork>>

PermitExpires(p) ==
    /\ standing[p] = "valid"
    /\ standing' = [standing EXCEPT ![p] = "expired"]
    /\ UNCHANGED <<handlerVars, executions, generation, deployPolicy, activeNetwork>>

SelectScenario ==
    /\ deployPolicy' = ~deployPolicy
    /\ UNCHANGED <<handlerVars, executions, generation, standing, activeNetwork>>

SelectNetwork ==
    /\ activeNetwork' \in (Deployments \cup {NoDeployment}) \ {activeNetwork}
    /\ UNCHANGED <<handlerVars, storeVars>>

\* The seed database has no decision and no execution; the scenario of the
\* request decides the policy.
Reset ==
    /\ generation < MaxResets
    /\ generation' = generation + 1
    /\ standing' = [p \in Permits |->
                      IF standing[p] = "absent" THEN "absent" ELSE "erased"]
    /\ deployPolicy' \in BOOLEAN
    /\ UNCHANGED <<handlerVars, executions, activeNetwork>>

\* The process dies and is restarted; init() of the store leaves the execution
\* records as they are, and nothing resumes them.
Crash ==
    /\ MayCrash
    /\ \E c \in Calls : phase[c] \notin {"idle", "replied", "lost"}
    /\ phase' = [c \in Calls |-> IF phase[c] \in {"idle", "replied"}
                                THEN phase[c] ELSE "lost"]
    /\ UNCHANGED <<request, seenNetwork, wire, reply, answer, storeVars, activeNetwork>>

Next ==
    \/ \E c \in Calls : Receive(c) \/ Handler(c) \/ GitHubAccepts(c) \/ GitHubRefuses(c)
    \/ \E p \in Permits : IssuePermit(p) \/ PermitExpires(p)
    \/ SelectScenario \/ SelectNetwork \/ Reset \/ Crash

Spec == Init /\ [][Next]_vars

\* The event loop runs every handler that can continue; the abort timer, and the
\* body timeout of fetch once there is a response, make an unanswered dispatch
\* throw.  Nothing is assumed of clients, GitHub or operators.
FairSpec == Spec /\ \A c \in Calls : WF_vars(Handler(c))

-----------------------------------------------------------------------------
(* Safety.                                                                 *)

\* The staging workflow is dispatched at most once for a permit, whatever the
\* interleaving of calls and retries, the resets, crashes and store failures
\* (docs/SEGURANCA.md: "Retry dispara duas ações externas").
OneEffectPerPermit ==
    \A c, d \in Calls :
        wire[c] = "accepted" /\ wire[d] = "accepted" /\ Permit(c) = Permit(d) => c = d

\* Two ALLOW decisions for the same action give two permits with one requestId;
\* at most one of them is ever dispatched, unless a reset erased the record.
OneEffectPerNonce ==
    \A c, d \in Calls :
        /\ wire[c] = "accepted" /\ wire[d] = "accepted" /\ Nonce(c) = Nonce(d)
        /\ executions[c].generation = executions[d].generation
        => c = d

\* No two records of a database share a key, a permit or an action nonce: the
\* three database.executions.find calls have at most one record to find.
ReservationsDisjoint ==
    \A c, d \in Calls :
        InStore(c) /\ InStore(d) /\ c # d =>
            Key(c) # Key(d) /\ Permit(c) # Permit(d) /\ Nonce(c) # Nonce(d)

\* A dispatch request leaves only after its record says "executing", so a record
\* a crash left "pending" is known to have had no effect.
PendingHasNoEffect ==
    \A c \in Calls :
        executions[c].status \in {"none", "pending"} => wire[c] = "none"

\* What the client was told is what is stored: 201 only with a stored success of
\* an accepted dispatch, 502 only with a stored failure.
AnswersAreTruthful ==
    \A c \in Calls :
        /\ reply[c] = "CREATED" =>
              executions[c].status = "succeeded" /\ wire[c] = "accepted"
        /\ reply[c] = "EXECUTION_FAILED" => executions[c].status = "failed"

\* Every answer to one key names one and the same record of a database, and that
\* record is bound to the key and the permit of the request that gets it.
ReplayIsSameRecord ==
    \A c \in Calls : answer[c] # NoCall =>
        /\ Key(answer[c]) = Key(c) /\ Permit(answer[c]) = Permit(c)
        /\ \A d \in Calls :
              /\ answer[d] # NoCall /\ Key(d) = Key(c)
              /\ executions[answer[d]].generation = executions[answer[c]].generation
              => answer[d] = answer[c]

\* A change of the record of c is the next step of an execution, in the database
\* of now.
Forward(c) ==
    executions'[c] # executions[c] =>
        /\ <<executions[c].status, executions'[c].status>> \in
              {<<"none", "pending">>, <<"pending", "executing">>,
               <<"executing", "succeeded">>, <<"executing", "failed">>}
        /\ executions'[c].generation = generation

\* A record goes from pending to executing to one verdict and then stays, and no
\* handler writes into a record of an erased database.  This is about JsonStore:
\* with a lost COMMIT reply the catch block overwrites "succeeded" by "failed".
RecordsProgress == [][\A c \in Calls : Forward(c)]_vars

\* What the audit trail says of a failed execution (routes.ts:1311, "O efeito
\* externo falhou depois da reserva do permit"): the effect did not happen.
FailedMeansNoEffect ==
    \A c \in Calls : executions[c].status = "failed" => wire[c] # "accepted"

-----------------------------------------------------------------------------
(* Liveness, without crashes and store failures.                           *)

\* A reservation does not stay open: it gets a verdict or is erased by a reset.
ReservationsSettle ==
    \A c \in Calls :
        InStore(c) /\ executions[c].status \in {"pending", "executing"}
        ~> ~InStore(c) \/ executions[c].status \in {"succeeded", "failed"}

\* Every admitted call is answered, also when GitHub never answers and when a
\* reset removes the record under the handler.
CallsAreAnswered ==
    \A c \in Calls : phase[c] = "admitted" ~> phase[c] = "replied"

-----------------------------------------------------------------------------
(* The gate implements the one-time permit.                                *)

ClaimedPermits  == {Permit(c) : c \in {d \in Calls : InStore(d)}}
OrphanedPermits == {Permit(c) : c \in {d \in Calls : HasRecord(d) /\ ~InStore(d)}}

Accepted(p) == {c \in Calls : Permit(c) = p /\ wire[c] = "accepted"}
Firings     == [p \in Permits |-> Cardinality(Accepted(p))]

HasStatus(p, s) == \E c \in Calls : Permit(c) = p /\ executions[c].status = s
VerdictOn ==
    [p \in Permits |-> IF HasStatus(p, "succeeded") THEN "succeeded"
                       ELSE IF HasStatus(p, "failed") THEN "failed" ELSE "open"]

Promise == INSTANCE OneTimePermit WITH
    claimed  <- ClaimedPermits,
    orphaned <- OrphanedPermits,
    firings  <- Firings,
    verdict  <- VerdictOn

\* Every step of the gate is a step of OneTimePermit or changes nothing there.
ImplementsOneTimePermit == Promise!PromiseSpec
=============================================================================
