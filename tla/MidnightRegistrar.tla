------------------------- MODULE MidnightRegistrar -------------------------
(***************************************************************************)
(* The custody of the registrar secret: CLI commands (midnight/overrides/  *)
(* cli.ts) that call the circuits of DecisionContract and keep the secret  *)
(* in .midnight-state.json (network.ts) or take it from the environment.   *)
(*                                                                         *)
(* Each command is an operating-system process.  It reads the secret when  *)
(* it starts and may call the contract much later, after the wallet is in  *)
(* sync; a rotation first changes the chain and then the file.  The file   *)
(* is replaced as a whole: loadState, then saveState of what was loaded.   *)
(*                                                                         *)
(* Away is set up: it has a wallet, a contract and a secret.  Home may not *)
(* be, and is then deployed (deploy.ts), or deployed again.  A contract    *)
(* whose address was never recorded, or no longer is, is out of reach; the *)
(* ledger is that of the recorded one.                                     *)
(***************************************************************************)
EXTENDS DecisionContract, Sequences

CONSTANTS
    Commands,          \* processes started by an operator or by the backend
    Home,              \* the network of the contract modelled here
    Away,              \* another network with a contract of its own
    FirstSecret,       \* the secret Home was deployed with, or the environment provides
    AwaySecret,
    NoSecret,
    RandomSecrets,     \* what randomBytes(32) returns, draw by draw
    Situations         \* what the commands are asked to do and what may go wrong

Networks == {Home, Away}

\* "env": PROOFRAIL_REGISTRAR_SECRET_<HOME> is set; "lostAck": a transaction may be
\* applied and its call still reject; "kill": a command may be killed, e.g. by the
\* 600 s timeout of the backend; "race": another process may run between loadState
\* and saveState.
Faults == {"env", "lostAck", "kill", "race"}

CommandNames == {"anchor", "rotate-registrar", "revoke-registrar", "security-check", "network",
                 "deploy"}
Rotating == {"rotate-registrar", "security-check"}
Situation == [faults : SUBSET Faults, task : [Commands -> CommandNames], setUp : BOOLEAN]

\* The circuit calls and file updates of a command, in order; the calls that
\* security-check expects to be rejected change nothing and are left out.
MutScript(command) ==
    CASE command = "anchor"          -> <<"register">>
      [] command = "rotate-registrar" -> <<"rotate">>
      [] command = "revoke-registrar" -> <<"revoke">>
      [] command = "security-check"  -> <<"register", "rotate", "revoke", "rotate", "record">>
      [] command = "network"         -> <<"switch">>
      [] command = "deploy"          -> <<"sync", "fund", "dust", "deploy", "address">>
Script(command) ==
    CASE command = "anchor"          -> <<"register">>
      [] command = "rotate-registrar" -> <<"rotate", "record">>
      [] command = "revoke-registrar" -> <<"revoke">>
      [] command = "security-check"  ->
            <<"register", "rotate", "record", "revoke", "rotate", "record">>
      [] command = "network"         -> <<"switch">>
      [] command = "deploy"          -> <<"sync", "fund", "dust", "deploy", "address">>

ASSUME RegistrarAssumption ==
    /\ Situations \subseteq Situation
    /\ \A s \in Situations : s.setUp \/ "race" \notin s.faults
    /\ Home # Away
    /\ {FirstSecret, AwaySecret} \subseteq Secrets /\ FirstSecret # AwaySecret
    /\ NoSecret \notin Secrets
    /\ RandomSecrets \in Seq(Secrets \ {FirstSecret, AwaySecret})
    /\ \A i, j \in DOMAIN RandomSecrets : RandomSecrets[i] = RandomSecrets[j] => i = j

VARIABLES
    status,     \* of a command
    done,       \* how many entries of its script it has completed
    network,    \* the network it addresses
    held,       \* the secret its contract binding proves knowledge of
    drawn,      \* the next secret of a rotation, in its memory only
    copy,       \* what loadState returned to it
    stateFile,  \* .midnight-state.json
    draws,      \* random secrets drawn so far
    faults,     \* what may go wrong (fixed)
    task        \* what a command was asked to do (fixed)

commands == <<status, done, network, held, drawn, copy>>
setting  == <<faults, task>>
custody  == <<commands, stateFile, draws, setting>>
vars     == <<ledger, custody>>

EnvSecret(n) == IF "env" \in faults /\ n = Home THEN FirstSecret ELSE NoSecret

StoredSecret(n) == IF EnvSecret(n) # NoSecret THEN EnvSecret(n) ELSE stateFile.registrars[n]

State == [activeNetwork : Networks, registrars : [Networks -> Secrets \cup {NoSecret}],
          deployed : [Networks -> BOOLEAN]]

\* Types; and a deployed network has a secret to call its contract with: a file
\* written back, or a deployment, never leaves one without.
CustodyTypeOK ==
    /\ LedgerTypeOK
    /\ status \in [Commands -> {"idle", "running", "saving", "exited"}]
    /\ done \in [Commands -> 0..6]
    /\ network \in [Commands -> Networks]
    /\ held \in [Commands -> Secrets \cup {NoSecret}]
    /\ drawn \in [Commands -> Secrets \cup {NoSecret}]
    /\ stateFile \in State
    /\ \A n \in Networks : stateFile.deployed[n] => StoredSecret(n) # NoSecret
    /\ copy \in [Commands -> State]
    /\ draws \in 0..Len(RandomSecrets)
    /\ faults \subseteq Faults /\ task \in [Commands -> CommandNames]

\* Until Home is deployed the ledger says nothing.
CustodyInit ==
    /\ Deploy(FirstSecret)
    /\ \E s \in Situations :
          /\ faults = s.faults /\ task = s.task
          /\ stateFile = [activeNetwork |-> Home,
                          registrars |-> [n \in Networks |-> IF n = Away THEN AwaySecret
                                                             ELSE IF s.setUp THEN FirstSecret
                                                             ELSE NoSecret],
                          deployed |-> [n \in Networks |-> n = Away \/ s.setUp]]
    /\ status = [p \in Commands |-> "idle"]
    /\ done = [p \in Commands |-> 0]
    /\ network = [p \in Commands |-> Home]
    /\ held = [p \in Commands |-> NoSecret]
    /\ drawn = [p \in Commands |-> NoSecret]
    /\ copy = [p \in Commands |-> stateFile]
    /\ draws = 0

-----------------------------------------------------------------------------
CurrentStep(p) == Script(task[p])[done[p] + 1]

At(p, step) ==
    /\ status[p] = "running"
    /\ done[p] < Len(Script(task[p]))
    /\ CurrentStep(p) = step

Advance(p) ==
    /\ done' = [done EXCEPT ![p] = @ + 1]
    /\ status' = [status EXCEPT ![p] = IF done[p] + 1 = Len(Script(task[p]))
                                       THEN "exited" ELSE "running"]

Exit(p) ==
    /\ status' = [status EXCEPT ![p] = "exited"]
    /\ UNCHANGED done

\* An operator deploys when no other command runs.
Alone(p) == \A q \in Commands \ {p} :
    "deploy" \in {task[p], task[q]} => status[q] \in {"idle", "exited"}

\* resolveNetwork (a flag, or the active network) and the look for a deployment.
StartsOn(p, n) ==
    /\ status[p] = "idle" /\ Alone(p)
    /\ network' = [network EXCEPT ![p] = n]
    /\ status' = [status EXCEPT ![p] =
                     IF stateFile.deployed[n] \/ task[p] \in {"deploy", "network"}
                     THEN "running" ELSE "exited"]
    /\ UNCHANGED <<done, drawn, copy, ledger, setting>>

\* getOrCreateRegistrarSecret; the command "network" uses none.
Begin(p, n) ==
    /\ StoredSecret(n) # NoSecret \/ task[p] = "network"
    /\ StartsOn(p, n)
    /\ held' = [held EXCEPT ![p] = StoredSecret(n)]
    /\ UNCHANGED <<stateFile, draws>>

FileIsFree == "race" \in faults \/ \A q \in Commands : status[q] # "saving"

BeginWithNewSecret(p, n) ==
    /\ StoredSecret(n) = NoSecret /\ task[p] # "network"
    /\ FileIsFree
    /\ draws < Len(RandomSecrets)
    /\ StartsOn(p, n)
    /\ draws' = draws + 1
    /\ held' = [held EXCEPT ![p] = RandomSecrets[draws']]
    /\ stateFile' = [stateFile EXCEPT !.activeNetwork = n,
                                      !.registrars = [@ EXCEPT ![n] = RandomSecrets[draws']]]

\* The transaction of p is applied; whether the call also returns is acked.
Outcome(p, acked) == IF acked THEN Advance(p) ELSE Exit(p)
Acks == IF "lostAck" \in faults THEN BOOLEAN ELSE {TRUE}

\* On Away the call concerns a contract that is not modelled.
Register(p, acked) ==
    /\ At(p, "register")
    /\ IF network[p] = Home THEN \E draft \in Drafts : RegisterDecision(held[p], draft)
                            ELSE UNCHANGED ledger
    /\ Outcome(p, acked)
    /\ UNCHANGED <<network, held, drawn, copy, stateFile, draws, setting>>

Revoke(p, acked) ==
    /\ At(p, "revoke")
    /\ IF network[p] = Home THEN RevokeRegistrar(held[p]) ELSE UNCHANGED ledger
    /\ Outcome(p, acked)
    /\ UNCHANGED <<network, held, drawn, copy, stateFile, draws, setting>>

\* No more rotations than RandomSecrets has entries.
Rotate(p, acked) ==
    /\ At(p, "rotate")
    /\ draws < Len(RandomSecrets)
    /\ draws' = draws + 1
    /\ IF network[p] = Home THEN RotateRegistrar(held[p], RandomSecrets[draws'])
                            ELSE UNCHANGED ledger
    /\ drawn' = [drawn EXCEPT ![p] = IF acked THEN RandomSecrets[draws'] ELSE NoSecret]
    /\ Outcome(p, acked)
    /\ UNCHANGED <<network, held, copy, stateFile, setting>>

\* deploy: the wallet is in sync and has tNIGHT, on a public network from the faucet.
PrepareWallet(p) ==
    /\ At(p, "sync") \/ At(p, "fund")
    /\ Advance(p)
    /\ UNCHANGED <<network, held, drawn, copy, stateFile, draws, ledger, setting>>

\* registerDustWithRetry; an attempt that fails for a while changes nothing here.
RegisterDust(p) ==
    /\ At(p, "dust")
    /\ Advance(p)
    /\ UNCHANGED <<network, held, drawn, copy, stateFile, draws, ledger, setting>>

\* deployContract, of which the script may see only its timeout.
DeployContract(p, acked) ==
    /\ At(p, "deploy")
    /\ Outcome(p, acked)
    /\ UNCHANGED <<network, held, drawn, copy, stateFile, draws, ledger, setting>>

\* A rejected proof or transaction: a failed assert, a node or proof server that
\* is down, no funds.  The call throws and the command ends.
CallFails(p) ==
    /\ \E call \in {"register", "revoke", "rotate", "sync", "fund", "dust", "deploy"} : At(p, call)
    /\ Exit(p)
    /\ UNCHANGED <<network, held, drawn, copy, stateFile, draws, ledger, setting>>

\* recordRegistrarRotation refuses when the environment manages the secret; the
\* command then ends, and the drawn secret with it.
RecordRefused(p) ==
    /\ At(p, "record")
    /\ EnvSecret(network[p]) # NoSecret
    /\ drawn' = [drawn EXCEPT ![p] = NoSecret]
    /\ Exit(p)
    /\ UNCHANGED <<network, held, copy, stateFile, draws, ledger, setting>>

LoadState(p) ==
    /\ \/ At(p, "record") /\ EnvSecret(network[p]) = NoSecret
       \/ At(p, "switch") /\ stateFile.activeNetwork # network[p]
       \/ At(p, "address")
    /\ FileIsFree
    /\ copy' = [copy EXCEPT ![p] = stateFile]
    /\ status' = [status EXCEPT ![p] = "saving"]
    /\ UNCHANGED <<done, network, held, drawn, stateFile, draws, ledger, setting>>

\* setActiveNetwork: the network is active already.
SwitchIsNoop(p) ==
    /\ At(p, "switch")
    /\ stateFile.activeNetwork = network[p]
    /\ Exit(p)
    /\ UNCHANGED <<network, held, drawn, copy, stateFile, draws, ledger, setting>>

\* saveState; after a rotation security-check binds the contract to the new secret.
MutSaveDropsSecret(p) ==
    /\ status[p] = "saving" /\ CurrentStep(p) # "address"
    /\ stateFile' = [copy[p] EXCEPT !.activeNetwork = network[p]]
    /\ held' = [held EXCEPT ![p] = IF drawn[p] # NoSecret THEN drawn[p] ELSE @]
    /\ drawn' = [drawn EXCEPT ![p] = NoSecret]
    /\ Advance(p)
    /\ UNCHANGED <<network, copy, draws, ledger, setting>>
MutSaveRecordsAlways(p) ==
    /\ status[p] = "saving" /\ CurrentStep(p) # "address"
    /\ stateFile' = [copy[p] EXCEPT !.registrars = [@ EXCEPT ![network[p]] = drawn[p]]]
    /\ drawn' = [drawn EXCEPT ![p] = NoSecret]
    /\ Advance(p)
    /\ UNCHANGED <<network, held, copy, draws, ledger, setting>>
SaveState(p) ==
    /\ status[p] = "saving" /\ CurrentStep(p) # "address"
    /\ IF drawn[p] # NoSecret
       THEN /\ stateFile' = [copy[p] EXCEPT !.registrars =
                               [@ EXCEPT ![network[p]] = drawn[p]]]
            /\ held' = [held EXCEPT ![p] = drawn[p]]
       ELSE /\ stateFile' = [copy[p] EXCEPT !.activeNetwork = network[p]]
            /\ UNCHANGED held
    /\ drawn' = [drawn EXCEPT ![p] = NoSecret]
    /\ Advance(p)
    /\ UNCHANGED <<network, copy, draws, ledger, setting>>

\* recordDeployment: commands that begin now find the new contract.
SaveDeployment(p) ==
    /\ status[p] = "saving" /\ CurrentStep(p) = "address"
    /\ stateFile' = [copy[p] EXCEPT !.deployed = [@ EXCEPT ![network[p]] = TRUE]]
    /\ IF network[p] = Home
       THEN /\ registrarCommitment' = CommitmentOf[held[p]]
            /\ registrarRevoked' = FALSE /\ registrarEpoch' = 1
            /\ anchors' = <<>> /\ usedAllowActions' = {} /\ nextId' = 0
            /\ UNCHANGED blockTime
       ELSE UNCHANGED ledger
    /\ Advance(p)
    /\ UNCHANGED <<network, held, drawn, copy, draws, setting>>

Die(p) ==
    /\ "kill" \in faults
    /\ status[p] \in {"running", "saving"}
    /\ drawn' = [drawn EXCEPT ![p] = NoSecret]
    /\ Exit(p)
    /\ UNCHANGED <<network, held, copy, stateFile, draws, ledger, setting>>

Run(p) ==
    \/ \E n \in Networks : Begin(p, n) \/ BeginWithNewSecret(p, n)
    \/ PrepareWallet(p) \/ RegisterDust(p) \/ CallFails(p)
    \/ RecordRefused(p) \/ LoadState(p) \/ SwitchIsNoop(p) \/ SaveState(p) \/ SaveDeployment(p)
    \/ \E acked \in Acks : \/ Register(p, acked) \/ Revoke(p, acked) \/ Rotate(p, acked)
                           \/ DeployContract(p, acked)

CustodyNext ==
    \/ \E p \in Commands : Run(p) \/ Die(p)
    \/ NextBlock /\ UNCHANGED custody

CustodySpec == CustodyInit /\ [][CustodyNext]_vars

\* The operating system schedules a process that has started.
FairCustodySpec == CustodySpec /\ \A p \in Commands : WF_vars(status[p] # "idle" /\ Run(p))

-----------------------------------------------------------------------------
\* The contract never has a registrar whose secret nobody knows: it is stored
\* where the next command looks for it, or a living command is about to store
\* it.  Otherwise nobody could register, rotate or revoke again (README.md:73,
\* "supports rotation, revocation, and recovery").
RegistrarKnown == stateFile.deployed[Home] =>
    registrarCommitment \in
        {CommitmentOf[s] : s \in ({StoredSecret(Home)} \ {NoSecret}) \cup
            {drawn[p] : p \in {q \in Commands : /\ network[q] = Home
                                              /\ status[q] # "exited"
                                              /\ drawn[q] # NoSecret}}}

\* So it is for any commands side by side without faults, and through killed
\* commands and lost replies as long as nobody rotates: the first secret is in the
\* file before there is a contract for it.
RegistrarStaysKnown ==
    \/ faults = {}
    \/ "race" \notin faults /\ \A p \in Commands : task[p] \notin Rotating
    => RegistrarKnown

\* A command that bound the contract before a rotation changes nothing on the
\* ledger after it, until it binds the contract again (docs/SEGURANCA.md:98).
RotationCutsOff ==
    [][\A p \in Commands :
         /\ network[p] = Home /\ task[p] # "deploy" /\ held[p] # NoSecret
         /\ CommitmentOf[held[p]] # registrarCommitment
         /\ done'[p] # done[p]
         => UNCHANGED ledger]_vars

\* After a rotation the next command can be the registrar: the stored secret
\* catches up with the chain.
Recoverable == stateFile.deployed[Home] =>
    StoredSecret(Home) # NoSecret /\ CommitmentOf[StoredSecret(Home)] = registrarCommitment
RotationsAreStored == faults = {} /\ ~Recoverable ~> Recoverable
=============================================================================
