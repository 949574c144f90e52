---------------------- MODULE MidnightRegistrarProofs ----------------------
(***************************************************************************)
(* Proofs about MidnightRegistrar: the file never has a deployed network   *)
(* without a secret, the registrar's secret is never lost, and a rotation  *)
(* cuts off who bound the contract before it, for any commands side by     *)
(* side and any number of secrets.                                         *)
(***************************************************************************)
EXTENDS MidnightRegistrar, DecisionContractProofs

Active(p) == status[p] \in {"running", "saving"}

\* A command that has not ended has a next entry in its script, and one that calls
\* the contract has a secret.
ScriptsInProgress ==
    \A p \in Commands :
        /\ status[p] # "exited" => done[p] < Len(Script(task[p]))
        /\ Active(p) /\ task[p] # "network" => held[p] # NoSecret

\* Secrets that have been handed out.
Issued == {NoSecret, FirstSecret, AwaySecret} \cup {RandomSecrets[i] : i \in 1..draws}

\* The secret of a rotation that is not recorded yet: only its command knows it, and
\* recording it comes next.
DrawnIsItsOwn ==
    \A p \in Commands : drawn[p] # NoSecret =>
        /\ Active(p) /\ CurrentStep(p) = "record"
        /\ drawn[p] \notin {NoSecret, FirstSecret, AwaySecret}
        /\ \A q \in Commands : held[q] # drawn[p] /\ (drawn[q] = drawn[p] => q = p)
        /\ \A n \in Networks : /\ stateFile.registrars[n] # drawn[p]
                               /\ \A q \in Commands : copy[q].registrars[n] # drawn[p]

\* Nobody has a secret that was not issued: the next one drawn is new.
KnownIsIssued ==
    /\ \A p \in Commands : held[p] \in Issued /\ drawn[p] \in Issued
    /\ \A n \in Networks : /\ stateFile.registrars[n] \in Issued
                           /\ \A p \in Commands : copy[p].registrars[n] \in Issued

DeploysAlone ==
    \A p, q \in Commands :
        task[p] = "deploy" /\ Active(p) /\ Active(q) => p = q

\* Without races one command at a time is between loadState and saveState, and what
\* it loaded is what the file still holds.
CopiesAreCurrent ==
    "race" \notin faults =>
        \A p \in Commands : status[p] = "saving" =>
            /\ copy[p] = stateFile
            /\ \A q \in Commands : status[q] = "saving" => q = p

\* Where files race every network was set up before.
RacesNeedSetUp ==
    "race" \in faults =>
        \A n \in Networks : /\ stateFile.registrars[n] # NoSecret
                            /\ \A p \in Commands : copy[p].registrars[n] # NoSecret

\* A deployment uses the secret the file has, from its start to the address.
DeployerIsStored ==
    "race" \notin faults =>
        \A p \in Commands :
            task[p] = "deploy" /\ Active(p) => held[p] = StoredSecret(network[p])

Pending(p) == network[p] = Home /\ drawn[p] # NoSecret

Quiet == \/ faults = {}
         \/ "race" \notin faults /\ \A p \in Commands : task[p] \notin Rotating

\* The registrar is who is about to be recorded, otherwise who is stored.
RegistrarIsPendingOrStored ==
    Quiet =>
        /\ \A p \in Commands : Pending(p) => registrarCommitment = CommitmentOf[drawn[p]]
        /\ stateFile.deployed[Home] /\ (\A p \in Commands : ~Pending(p))
           => registrarCommitment = CommitmentOf[StoredSecret(Home)]

CustodyInv ==
    /\ CustodyTypeOK
    /\ ScriptsInProgress
    /\ DrawnIsItsOwn
    /\ KnownIsIssued
    /\ DeploysAlone
    /\ CopiesAreCurrent
    /\ RacesNeedSetUp
    /\ DeployerIsStored
    /\ RegistrarIsPendingOrStored

-----------------------------------------------------------------------------
\* The networks, the secrets and the draws are what they are named for.
LEMMA CustodyConstants ==
    /\ Home \in Networks /\ Away \in Networks /\ Home # Away
    /\ FirstSecret \in Secrets /\ AwaySecret \in Secrets /\ FirstSecret # AwaySecret
    /\ NoSecret \notin Secrets
    /\ Len(RandomSecrets) \in Nat
    /\ \A i \in 1..Len(RandomSecrets) :
          RandomSecrets[i] \in Secrets /\ RandomSecrets[i] \notin {NoSecret, FirstSecret, AwaySecret}
    /\ \A i, j \in 1..Len(RandomSecrets) : RandomSecrets[i] = RandomSecrets[j] => i = j
BY RegistrarAssumption DEF RegistrarAssumption, Networks

\* What the scripts have in common: a rotation is recorded next, and only a
\* deployment changes an address.
LEMMA Scripts ==
    ASSUME NEW t \in CommandNames
    PROVE  /\ Len(Script(t)) \in 1..6
           /\ \A k \in 1..Len(Script(t)) :
                 /\ Script(t)[k] = "rotate" => /\ k + 1 \in 1..Len(Script(t))
                                               /\ Script(t)[k + 1] = "record"
                 /\ Script(t)[k] \in {"rotate", "record"} => t \in Rotating
                 /\ Script(t)[k] \in {"register", "rotate", "revoke"} => t \notin {"deploy", "network"}
                 /\ Script(t)[k] = "address" => t = "deploy"
<1>1. CASE t = "anchor"
  BY <1>1 DEF Script, Rotating
<1>2. CASE t = "rotate-registrar"
  BY <1>2 DEF Script, Rotating
<1>3. CASE t = "revoke-registrar"
  BY <1>3 DEF Script, Rotating
<1>4. CASE t = "security-check"
  BY <1>4 DEF Script, Rotating
<1>5. CASE t = "network"
  BY <1>5 DEF Script, Rotating
<1>6. CASE t = "deploy"
  BY <1>6 DEF Script, Rotating
<1> QED BY <1>1, <1>2, <1>3, <1>4, <1>5, <1>6 DEF CommandNames

\* The next entry of a command that has not ended.
LEMMA NextEntry ==
    ASSUME CustodyInv, NEW p \in Commands, Active(p)
    PROVE  /\ done[p] \in 0..6 /\ done[p] < Len(Script(task[p])) /\ Len(Script(task[p])) \in 1..6
           /\ done[p] + 1 \in 1..Len(Script(task[p]))
           /\ task[p] \in CommandNames
           /\ CurrentStep(p) = "rotate" =>
                 /\ done[p] + 2 \in 1..Len(Script(task[p]))
                 /\ Script(task[p])[done[p] + 2] = "record"
           /\ CurrentStep(p) \in {"rotate", "record"} => task[p] \in Rotating
           /\ CurrentStep(p) \in {"register", "rotate", "revoke"} =>
                 /\ task[p] \notin {"deploy", "network"}
                 /\ held[p] \in Secrets
           /\ CurrentStep(p) = "address" => task[p] = "deploy"
<1> DEFINE t == task[p]
<1>1. t \in CommandNames /\ done[p] \in 0..6 /\ done[p] < Len(Script(t))
  BY DEF CustodyInv, CustodyTypeOK, ScriptsInProgress, Active
<1>2. held[p] \in Secrets \cup {NoSecret} /\ (t # "network" => held[p] # NoSecret)
  BY DEF CustodyInv, CustodyTypeOK, ScriptsInProgress
<1>3. Len(Script(t)) \in 1..6
  BY <1>1, Scripts
<1>4. done[p] + 1 \in 1..Len(Script(t)) /\ done[p] + 2 = done[p] + 1 + 1
  BY <1>1, <1>3
<1> HIDE DEF t
<1> QED BY <1>1, <1>2, <1>3, <1>4, Scripts DEF CurrentStep, t

\* A command completes an entry, or ends; the others stay where they are.
LEMMA Progress ==
    ASSUME CustodyInv, NEW p \in Commands, Active(p), Advance(p) \/ Exit(p)
    PROVE  /\ status' \in [Commands -> {"idle", "running", "saving", "exited"}]
           /\ done' \in [Commands -> 0..6]
           /\ \A q \in Commands : q # p => status'[q] = status[q] /\ done'[q] = done[q]
           /\ status'[p] \in {"running", "exited"}
           /\ status'[p] # "exited" => /\ done'[p] = done[p] + 1
                                       /\ done'[p] < Len(Script(task[p]))
<1>1. /\ status \in [Commands -> {"idle", "running", "saving", "exited"}]
      /\ done \in [Commands -> 0..6]
  BY DEF CustodyInv, CustodyTypeOK
<1>2. done[p] \in 0..6 /\ done[p] < Len(Script(task[p])) /\ Len(Script(task[p])) \in 1..6
  BY NextEntry
<1>3. CASE Exit(p)
  BY <1>1, <1>3 DEF Exit
<1>4. CASE Advance(p)
  <2> DEFINE length == Len(Script(task[p]))
             next   == IF done[p] + 1 = length THEN "exited" ELSE "running"
  <2>1. done' = [done EXCEPT ![p] = done[p] + 1] /\ status' = [status EXCEPT ![p] = next]
    BY <1>4 DEF Advance
  <2>2. done[p] \in 0..6 /\ done[p] < length /\ length \in 1..6
    BY <1>2
  <2> HIDE DEF length
  <2>3. done[p] + 1 \in 0..6
    BY <2>2
  <2>4. next # "exited" => done[p] + 1 < length
    BY <2>2
  <2>5. next \in {"running", "exited"}
    OBVIOUS
  <2> HIDE DEF next
  <2> QED BY <2>3, <2>4, <2>5, <1>1, <2>1, <2>2 DEF length
<1> QED BY <1>3, <1>4

\* A secret that is drawn and not recorded belongs to a rotating command about to
\* record it.
LEMMA DrawnIsRecordedNext ==
    ASSUME CustodyInv, NEW p \in Commands, drawn[p] # NoSecret
    PROVE  Active(p) /\ CurrentStep(p) = "record" /\ task[p] \in Rotating
BY NextEntry DEF CustodyInv, DrawnIsItsOwn

-----------------------------------------------------------------------------
\* A command that goes on or ends without a word to the file or to the registrar; a
\* secret it has drawn dies with it, which cannot happen while all is quiet.
LEMMA ControlStep ==
    ASSUME CustodyInv, NEW p \in Commands, Active(p), Advance(p) \/ Exit(p),
           LedgerTypeOK', registrarCommitment' = registrarCommitment,
           drawn' = [drawn EXCEPT ![p] = NoSecret],
           Quiet => drawn[p] = NoSecret,
           UNCHANGED <<network, held, copy, stateFile, draws, setting>>
    PROVE  CustodyInv'
<1>1. /\ status' \in [Commands -> {"idle", "running", "saving", "exited"}]
      /\ done' \in [Commands -> 0..6]
      /\ \A q \in Commands : q # p => status'[q] = status[q] /\ done'[q] = done[q]
      /\ status'[p] \in {"running", "exited"}
      /\ status'[p] # "exited" => done'[p] < Len(Script(task[p]))
  BY Progress
<1>2. faults' = faults /\ task' = task
  BY DEF setting
<1>3. drawn \in [Commands -> Secrets \cup {NoSecret}]
  BY DEF CustodyInv, CustodyTypeOK
<1>4. \A q \in Commands : drawn'[q] = IF q = p THEN NoSecret ELSE drawn[q]
  BY <1>3
<1>5. \A n \in Networks : StoredSecret(n)' = StoredSecret(n)
  BY <1>2 DEF StoredSecret, EnvSecret
<1>6. CustodyTypeOK'
  BY <1>1, <1>2, <1>3, <1>5 DEF CustodyInv, CustodyTypeOK
<1>7. \A q \in Commands : Active(q)' => Active(q)
  BY <1>1 DEF Active
<1>8. ScriptsInProgress'
  BY <1>1, <1>2, <1>7 DEF CustodyInv, ScriptsInProgress
<1>9. DrawnIsItsOwn'
  <2>1. ASSUME NEW q \in Commands, drawn'[q] # NoSecret
        PROVE  q # p /\ drawn'[q] = drawn[q] /\ drawn[q] # NoSecret
    BY <1>4, <2>1
  <2>2. \A q \in Commands : q # p => Active(q)' = Active(q) /\ CurrentStep(q)' = CurrentStep(q)
    BY <1>1, <1>2 DEF Active, CurrentStep
  <2> QED BY <1>4, <2>1, <2>2 DEF CustodyInv, DrawnIsItsOwn
<1>10. KnownIsIssued'
  BY <1>4 DEF CustodyInv, KnownIsIssued, Issued
<1>11. DeploysAlone' /\ RacesNeedSetUp'
  BY <1>2, <1>7 DEF CustodyInv, DeploysAlone, RacesNeedSetUp
<1>12. CopiesAreCurrent'
  BY <1>1, <1>2 DEF CustodyInv, CopiesAreCurrent
<1>13. \A q \in Commands : network[q] \in Networks
  BY DEF CustodyInv, CustodyTypeOK
<1>14. DeployerIsStored'
  BY <1>2, <1>5, <1>7, <1>13 DEF CustodyInv, DeployerIsStored
<1>15. RegistrarIsPendingOrStored'
  <2>1. Quiet' => Quiet
    BY <1>2 DEF Quiet
  <2>2. Quiet => \A q \in Commands : drawn'[q] = drawn[q]
    BY <1>4
  <2>3. Quiet => \A q \in Commands : Pending(q)' = Pending(q)
    BY <2>2 DEF Pending
  <2> QED BY <1>5, <2>1, <2>2, <2>3, CustodyConstants DEF CustodyInv, RegistrarIsPendingOrStored
<1> QED BY <1>6, <1>8, <1>9, <1>10, <1>11, <1>12, <1>14, <1>15 DEF CustodyInv

\* The calls that leave the registrar as it is, whatever becomes of them, and the
\* ends of a command.
LEMMA CallStep ==
    ASSUME CustodyInv, NEW p \in Commands,
           \/ PrepareWallet(p) \/ RegisterDust(p) \/ CallFails(p) \/ SwitchIsNoop(p)
           \/ RecordRefused(p) \/ Die(p)
           \/ \E acked \in BOOLEAN : Register(p, acked) \/ Revoke(p, acked) \/ DeployContract(p, acked)
    PROVE  CustodyInv'
<1>1. /\ Active(p) /\ (Advance(p) \/ Exit(p))
      /\ UNCHANGED <<network, held, copy, stateFile, draws, setting>>
  BY DEF PrepareWallet, RegisterDust, CallFails, SwitchIsNoop, RecordRefused, Die, Register,
     Revoke, DeployContract, Outcome, At, Active
<1>2. LedgerTypeOK' /\ registrarCommitment' = registrarCommitment
  <2>1. CASE UNCHANGED ledger
    BY <2>1 DEF CustodyInv, CustodyTypeOK, LedgerTypeOK, ledger, registrar, register
  <2>2. CASE (\E acked \in BOOLEAN : Register(p, acked) \/ Revoke(p, acked)) /\ ~UNCHANGED ledger
    <3>1. held[p] \in Secrets
      BY <1>1, <2>2, NextEntry DEF Register, Revoke, At
    <3>2. (\E draft \in Drafts : RegisterDecision(held[p], draft)) \/ RevokeRegistrar(held[p])
      BY <2>2 DEF Register, Revoke
    <3>3. LedgerNext
      BY <3>1, <3>2 DEF LedgerNext
    <3>4. registrarCommitment' = registrarCommitment
      BY <3>2 DEF RegisterDecision, RevokeRegistrar, registrar
    <3> QED BY <3>3, <3>4, LedgerTypeStep DEF CustodyInv, CustodyTypeOK
  <2> QED BY <2>1, <2>2 DEF PrepareWallet, RegisterDust, CallFails, SwitchIsNoop, RecordRefused,
          Die, DeployContract
<1>3. drawn \in [Commands -> Secrets \cup {NoSecret}]
  BY DEF CustodyInv, CustodyTypeOK
<1>4. CASE RecordRefused(p) \/ Die(p)
  <2>1. drawn' = [drawn EXCEPT ![p] = NoSecret]
    BY <1>4 DEF RecordRefused, Die
  <2>2. CASE drawn[p] = NoSecret
    BY <1>1, <1>2, <2>1, <2>2, ControlStep
  <2>3. CASE drawn[p] # NoSecret
    <3>1. task[p] \in Rotating
      BY <2>3, DrawnIsRecordedNext
    <3>2. faults # {}
      BY <1>4 DEF RecordRefused, EnvSecret, Die
    <3>3. ~Quiet
      BY <3>1, <3>2 DEF Quiet
    <3> QED BY <1>1, <1>2, <2>1, <3>3, ControlStep
  <2> QED BY <2>2, <2>3
<1>5. CASE ~(RecordRefused(p) \/ Die(p))
  <2>1. drawn' = drawn /\ CurrentStep(p) # "record"
    BY <1>5 DEF PrepareWallet, RegisterDust, CallFails, SwitchIsNoop, Register, Revoke,
       DeployContract, At
  <2>2. drawn[p] = NoSecret
    BY <2>1, DrawnIsRecordedNext
  <2>3. drawn' = [drawn EXCEPT ![p] = NoSecret]
    BY <1>3, <2>1, <2>2
  <2> QED BY <1>1, <1>2, <2>2, <2>3, ControlStep
<1> QED BY <1>4, <1>5

\* The start of a command, perhaps with a secret that is drawn and stored for it: it
\* takes the secret the file then has.
LEMMA BeginStep ==
    ASSUME CustodyInv, NEW p \in Commands, NEW n \in Networks, StartsOn(p, n),
           NEW secret, held' = [held EXCEPT ![p] = secret],
           \/ /\ secret = StoredSecret(n)
              /\ secret # NoSecret \/ task[p] = "network"
              /\ UNCHANGED <<stateFile, draws>>
           \/ /\ StoredSecret(n) = NoSecret /\ FileIsFree
              /\ draws < Len(RandomSecrets) /\ draws' = draws + 1
              /\ secret = RandomSecrets[draws']
              /\ stateFile' = [stateFile EXCEPT !.activeNetwork = n,
                                                !.registrars = [@ EXCEPT ![n] = secret]]
    PROVE  CustodyInv'
<1> USE CustodyConstants
<1>1. /\ status[p] = "idle" /\ Alone(p)
      /\ network' = [network EXCEPT ![p] = n]
      /\ UNCHANGED <<done, drawn, copy, ledger, setting>>
  BY DEF StartsOn
<1>2. faults' = faults /\ task' = task /\ registrarCommitment' = registrarCommitment
  BY <1>1 DEF setting, ledger, registrar
<1>3. /\ status' \in [Commands -> {"idle", "running", "saving", "exited"}]
      /\ \A q \in Commands : q # p => status'[q] = status[q]
      /\ status'[p] \in {"running", "exited"}
  BY DEF StartsOn, CustodyInv, CustodyTypeOK
<1>4. \A q \in Commands : /\ network'[q] = IF q = p THEN n ELSE network[q]
                          /\ held'[q] = IF q = p THEN secret ELSE held[q]
  BY <1>1 DEF CustodyInv, CustodyTypeOK
<1>5. stateFile \in State /\ draws \in 0..Len(RandomSecrets)
  BY DEF CustodyInv, CustodyTypeOK
<1>6. StoredSecret(n) \in Issued /\ Issued \subseteq Secrets \cup {NoSecret}
  BY <1>5 DEF CustodyInv, KnownIsIssued, StoredSecret, EnvSecret, Issued
<1>7. /\ secret \in Secrets \cup {NoSecret}
      /\ task[p] # "network" => secret # NoSecret
      /\ stateFile' \in State /\ draws' \in 0..Len(RandomSecrets)
      /\ stateFile'.deployed = stateFile.deployed
      /\ draws' \in {draws, draws + 1}
  <2>1. CASE secret = StoredSecret(n) /\ UNCHANGED <<stateFile, draws>>
    BY <1>5, <1>6, <2>1
  <2>2. CASE secret = RandomSecrets[draws'] /\ draws < Len(RandomSecrets) /\ draws' = draws + 1
    <3>1. draws' \in 1..Len(RandomSecrets)
      BY <1>5, <2>2
    <3>2. secret \in Secrets
      BY <2>2, <3>1
    <3>3. stateFile' = [stateFile EXCEPT !.activeNetwork = n,
                                         !.registrars = [@ EXCEPT ![n] = secret]]
      BY <1>5, <2>2
    <3>4. stateFile' \in State /\ stateFile'.deployed = stateFile.deployed
      BY <1>5, <3>2, <3>3 DEF State
    <3> QED BY <2>2, <3>1, <3>2, <3>4
  <2> QED BY <2>1, <2>2
<1>8. \A m \in Networks : /\ \/ stateFile'.registrars[m] = stateFile.registrars[m]
                             \/ /\ stateFile'.registrars[m] = secret
                                /\ m = n /\ EnvSecret(n) = NoSecret
                                /\ stateFile.registrars[m] = NoSecret
                          /\ StoredSecret(m)' = IF m = n THEN secret ELSE StoredSecret(m)
  <2>1. \A m \in Networks : EnvSecret(m)' = EnvSecret(m)
    BY <1>2 DEF EnvSecret
  <2>2. CASE secret = StoredSecret(n) /\ UNCHANGED stateFile
    BY <2>1, <2>2 DEF StoredSecret
  <2>3. CASE /\ StoredSecret(n) = NoSecret
             /\ stateFile' = [stateFile EXCEPT !.activeNetwork = n,
                                               !.registrars = [@ EXCEPT ![n] = secret]]
    <3>1. EnvSecret(n) = NoSecret /\ stateFile.registrars[n] = NoSecret
      BY <2>3 DEF StoredSecret
    <3>2. \A m \in Networks :
             stateFile'.registrars[m] = IF m = n THEN secret ELSE stateFile.registrars[m]
      BY <1>5, <2>3 DEF State
    <3> QED BY <2>1, <3>1, <3>2 DEF StoredSecret
  <2> QED BY <2>2, <2>3
<1>9. secret \in Issued' /\ Issued \subseteq Issued'
  <2>1. CASE secret = StoredSecret(n) /\ UNCHANGED draws
    BY <1>6, <2>1 DEF Issued
  <2>2. CASE secret = RandomSecrets[draws'] /\ draws' = draws + 1
    BY <1>5, <2>2 DEF Issued
  <2> QED BY <2>1, <2>2
<1>10. \A q \in Commands : drawn[q] # NoSecret => drawn[q] # secret
  <2>1. CASE secret = StoredSecret(n)
    BY <2>1 DEF CustodyInv, DrawnIsItsOwn, StoredSecret, EnvSecret
  <2>2. CASE secret = RandomSecrets[draws'] /\ draws < Len(RandomSecrets) /\ draws' = draws + 1
    <3>1. RandomSecrets[draws + 1] \notin Issued
      BY <1>5, <2>2 DEF Issued
    <3> QED BY <2>2, <3>1 DEF CustodyInv, KnownIsIssued
  <2> QED BY <2>1, <2>2
<1>11. drawn[p] = NoSecret
  BY <1>1, DrawnIsRecordedNext DEF Active
<1>12. CustodyTypeOK'
  <2>1. LedgerTypeOK'
    BY <1>1 DEF CustodyInv, CustodyTypeOK, LedgerTypeOK, ledger, registrar, register
  <2>2. \A m \in Networks : stateFile'.deployed[m] => StoredSecret(m)' # NoSecret
    BY <1>7, <1>8 DEF CustodyInv, CustodyTypeOK
  <2> QED BY <1>1, <1>2, <1>3, <1>7, <2>1, <2>2 DEF CustodyInv, CustodyTypeOK
<1>13. ScriptsInProgress'
  BY <1>1, <1>2, <1>3, <1>4, <1>7 DEF CustodyInv, ScriptsInProgress, Active
<1>14. DrawnIsItsOwn'
  <2>1. \A q \in Commands : q # p => Active(q)' = Active(q) /\ CurrentStep(q)' = CurrentStep(q)
    BY <1>1, <1>2, <1>3 DEF Active, CurrentStep
  <2> QED BY <1>1, <1>4, <1>8, <1>10, <1>11, <2>1 DEF CustodyInv, DrawnIsItsOwn
<1>15. KnownIsIssued'
  BY <1>1, <1>4, <1>8, <1>9 DEF CustodyInv, KnownIsIssued
<1>16. DeploysAlone'
  BY <1>1, <1>2, <1>3 DEF CustodyInv, DeploysAlone, Active, Alone
<1>17. CopiesAreCurrent'
  <2>1. ASSUME NEW q \in Commands, "race" \notin faults, status[q] = "saving"
        PROVE  stateFile' = stateFile
    BY <2>1 DEF FileIsFree
  <2> QED BY <1>1, <1>2, <1>3, <2>1 DEF CustodyInv, CopiesAreCurrent
<1>18. RacesNeedSetUp'
  BY <1>1, <1>2, <1>8 DEF CustodyInv, RacesNeedSetUp
<1>19. DeployerIsStored'
  <2>1. ASSUME NEW q \in Commands, q # p, task[q] = "deploy" PROVE ~Active(q)
    BY <1>1, <2>1 DEF Alone, Active
  <2> QED BY <1>1, <1>2, <1>3, <1>4, <1>8, <2>1 DEF CustodyInv, DeployerIsStored, Active
<1>20. RegistrarIsPendingOrStored'
  <2>1. Quiet' = Quiet
    BY <1>2 DEF Quiet
  <2>2. \A q \in Commands : Pending(q)' = Pending(q)
    BY <1>1, <1>4, <1>11 DEF Pending
  <2>3. stateFile.deployed[Home] => StoredSecret(Home)' = StoredSecret(Home)
    BY <1>8 DEF CustodyInv, CustodyTypeOK
  <2> QED BY <1>1, <1>2, <1>7, <2>1, <2>2, <2>3 DEF CustodyInv, RegistrarIsPendingOrStored
<1> QED BY <1>12, <1>13, <1>14, <1>15, <1>16, <1>17, <1>18, <1>19, <1>20 DEF CustodyInv

\* A rotation: nobody else is about to record one of the same registrar, because
\* whoever rotates proves that it knows the current secret.
LEMMA RotateStep ==
    ASSUME CustodyInv, NEW p \in Commands, NEW acked \in Acks, Rotate(p, acked)
    PROVE  CustodyInv'
<1> USE CustodyConstants
<1> DEFINE new == RandomSecrets[draws + 1]
<1>1. /\ Active(p) /\ CurrentStep(p) = "rotate" /\ draws < Len(RandomSecrets)
      /\ draws' = draws + 1
      /\ drawn' = [drawn EXCEPT ![p] = IF acked THEN new ELSE NoSecret]
      /\ Outcome(p, acked)
      /\ UNCHANGED <<network, held, copy, stateFile, setting>>
  BY DEF Rotate, At, Active
<1>2. /\ task[p] \in Rotating /\ task[p] # "deploy" /\ held[p] \in Secrets
      /\ done[p] + 1 # Len(Script(task[p]))
      /\ Script(task[p])[done[p] + 2] = "record"
      /\ done[p] \in 0..6
  BY <1>1, NextEntry
<1>3. /\ draws \in 0..Len(RandomSecrets) /\ draws + 1 \in 1..Len(RandomSecrets)
      /\ new \in Secrets /\ new \notin {NoSecret, FirstSecret, AwaySecret}
  BY <1>1 DEF CustodyInv, CustodyTypeOK
<1>4. new \notin Issued /\ new \in Issued' /\ Issued \subseteq Issued'
  BY <1>1, <1>3 DEF Issued
<1> HIDE DEF new
<1>5. faults' = faults /\ task' = task
  BY <1>1 DEF setting
<1>6. /\ status' \in [Commands -> {"idle", "running", "saving", "exited"}]
      /\ done' \in [Commands -> 0..6]
      /\ \A q \in Commands : q # p => status'[q] = status[q] /\ done'[q] = done[q]
      /\ status'[p] \in {"running", "exited"}
      /\ status'[p] # "exited" => /\ done'[p] = done[p] + 1
                                  /\ done'[p] < Len(Script(task[p]))
  BY <1>1, Progress DEF Outcome
<1>7. acked => status'[p] = "running"
  BY <1>1, <1>2 DEF Outcome, Advance, CustodyInv, CustodyTypeOK
<1>8. \A q \in Commands : drawn'[q] = IF q # p THEN drawn[q] ELSE IF acked THEN new ELSE NoSecret
  BY <1>1 DEF CustodyInv, CustodyTypeOK
<1>9. /\ LedgerTypeOK'
      /\ network[p] = Home => /\ registrarCommitment = CommitmentOf[held[p]]
                              /\ registrarCommitment' = CommitmentOf[new]
      /\ network[p] # Home => registrarCommitment' = registrarCommitment
  <2>1. CASE network[p] = Home
    <3>1. RotateRegistrar(held[p], new)
      BY <1>1, <2>1 DEF Rotate, new
    <3>2. LedgerNext
      BY <1>2, <1>3, <3>1 DEF LedgerNext
    <3>3. LedgerTypeOK'
      BY <3>2, LedgerTypeStep DEF CustodyInv, CustodyTypeOK
    <3> QED BY <2>1, <3>1, <3>3 DEF RotateRegistrar, RequireRegistrar
  <2>2. CASE network[p] # Home
    <3>1. UNCHANGED ledger
      BY <2>2 DEF Rotate
    <3> QED BY <2>2, <3>1 DEF CustodyInv, CustodyTypeOK, LedgerTypeOK, ledger, registrar, register
  <2> QED BY <2>1, <2>2
<1>10. \A n \in Networks : StoredSecret(n)' = StoredSecret(n)
  BY <1>1, <1>5 DEF StoredSecret, EnvSecret
<1>11. drawn' \in [Commands -> Secrets \cup {NoSecret}]
  BY <1>1, <1>3 DEF CustodyInv, CustodyTypeOK
<1>12. CustodyTypeOK'
  BY <1>1, <1>3, <1>5, <1>6, <1>9, <1>10, <1>11 DEF CustodyInv, CustodyTypeOK
<1>13. \A q \in Commands : Active(q)' => Active(q)
  BY <1>1, <1>6 DEF Active
<1>14. ScriptsInProgress'
  BY <1>1, <1>5, <1>6, <1>13 DEF CustodyInv, ScriptsInProgress
<1>15. DrawnIsItsOwn'
  <2>1. /\ \A q \in Commands : held[q] # new /\ drawn[q] # new
        /\ \A n \in Networks : /\ stateFile.registrars[n] # new
                               /\ \A q \in Commands : copy[q].registrars[n] # new
    BY <1>4 DEF CustodyInv, KnownIsIssued
  <2>2. \A q \in Commands : q # p => Active(q)' = Active(q) /\ CurrentStep(q)' = CurrentStep(q)
    BY <1>5, <1>6 DEF Active, CurrentStep
  <2>3. acked => Active(p)' /\ CurrentStep(p)' = "record"
    <3>1. ASSUME acked PROVE done'[p] + 1 = done[p] + 2
      BY <1>2, <1>6, <1>7, <3>1
    <3> QED BY <1>2, <1>5, <1>7, <3>1 DEF Active, CurrentStep
  <2>4. ASSUME NEW q \in Commands, drawn'[q] # NoSecret
        PROVE  \/ q = p /\ acked /\ drawn'[q] = new
               \/ q # p /\ drawn'[q] = drawn[q] /\ drawn[q] # NoSecret /\ drawn[q] # drawn'[p]
    BY <1>8, <2>1, <2>4
  <2> QED BY <1>1, <1>3, <1>8, <2>1, <2>2, <2>3, <2>4 DEF CustodyInv, DrawnIsItsOwn
<1>16. KnownIsIssued'
  <2>1. NoSecret \in Issued'
    BY DEF Issued
  <2> QED BY <1>1, <1>4, <1>8, <2>1 DEF CustodyInv, KnownIsIssued
<1>17. DeploysAlone' /\ RacesNeedSetUp'
  BY <1>1, <1>5, <1>13 DEF CustodyInv, DeploysAlone, RacesNeedSetUp
<1>18. CopiesAreCurrent'
  BY <1>1, <1>5, <1>6 DEF CustodyInv, CopiesAreCurrent
<1>19. DeployerIsStored'
  <2>1. \A q \in Commands : network[q] \in Networks
    BY DEF CustodyInv, CustodyTypeOK
  <2> QED BY <1>1, <1>5, <1>10, <1>13, <2>1 DEF CustodyInv, DeployerIsStored
<1>20. RegistrarIsPendingOrStored'
  <2> SUFFICES ASSUME Quiet
               PROVE  /\ \A q \in Commands :
                            Pending(q)' => registrarCommitment' = CommitmentOf[drawn'[q]]
                      /\ stateFile'.deployed[Home] /\ (\A q \in Commands : ~Pending(q)')
                         => registrarCommitment' = CommitmentOf[StoredSecret(Home)']
    BY <1>5 DEF RegistrarIsPendingOrStored, Quiet
  <2>1. acked
    BY <1>2 DEF Quiet, Acks
  <2>2. \A q \in Commands : q # p => Pending(q)' = Pending(q) /\ drawn'[q] = drawn[q]
    BY <1>1, <1>8 DEF Pending
  <2>3. Pending(p)' <=> network[p] = Home
    BY <1>1, <1>3, <1>8, <2>1 DEF Pending
  <2>4. drawn[p] = NoSecret
    BY <1>1, DrawnIsRecordedNext
  <2>5. CASE network[p] = Home
    <3>1. ASSUME NEW q \in Commands, Pending(q) PROVE FALSE
      <4>1. CommitmentOf[drawn[q]] = CommitmentOf[held[p]]
        BY <1>9, <2>5, <3>1 DEF CustodyInv, RegistrarIsPendingOrStored
      <4>2. drawn[q] \in Secrets /\ held[p] # drawn[q]
        BY <3>1 DEF Pending, CustodyInv, CustodyTypeOK, DrawnIsItsOwn
      <4> QED BY <1>2, <4>1, <4>2, ContractAssumption DEF ContractAssumption
    <3> QED BY <1>8, <1>9, <2>1, <2>2, <2>3, <2>5, <3>1
  <2>6. CASE network[p] # Home
    <3>1. ~Pending(p)
      BY <2>4 DEF Pending
    <3> QED BY <1>1, <1>9, <1>10, <2>2, <2>3, <2>6, <3>1 DEF CustodyInv, RegistrarIsPendingOrStored
  <2> QED BY <2>5, <2>6
<1> QED BY <1>12, <1>14, <1>15, <1>16, <1>17, <1>18, <1>19, <1>20 DEF CustodyInv

\* loadState: what it returns is what the file holds.
LEMMA LoadStep == ASSUME CustodyInv, NEW p \in Commands, LoadState(p) PROVE CustodyInv'
<1>1. /\ status[p] = "running" /\ FileIsFree
      /\ copy' = [copy EXCEPT ![p] = stateFile]
      /\ status' = [status EXCEPT ![p] = "saving"]
      /\ UNCHANGED <<done, network, held, drawn, stateFile, draws, ledger, setting>>
  BY DEF LoadState, At
<1>2. faults' = faults /\ task' = task /\ registrarCommitment' = registrarCommitment
  BY <1>1 DEF setting, ledger, registrar
<1>3. \A q \in Commands : /\ copy'[q] = IF q = p THEN stateFile ELSE copy[q]
                          /\ status'[q] = IF q = p THEN "saving" ELSE status[q]
                          /\ Active(q)' = Active(q)
                          /\ CurrentStep(q)' = CurrentStep(q)
                          /\ Pending(q)' = Pending(q)
  BY <1>1, <1>2 DEF CustodyInv, CustodyTypeOK, Active, CurrentStep, Pending
<1>4. \A n \in Networks : StoredSecret(n)' = StoredSecret(n)
  BY <1>1, <1>2 DEF StoredSecret, EnvSecret
<1>5. CustodyTypeOK'
  <2>1. LedgerTypeOK'
    BY <1>1 DEF CustodyInv, CustodyTypeOK, LedgerTypeOK, ledger, registrar, register
  <2> QED BY <1>1, <1>2, <1>4, <2>1 DEF CustodyInv, CustodyTypeOK
<1>6. ScriptsInProgress'
  BY <1>1, <1>2, <1>3 DEF CustodyInv, ScriptsInProgress
<1>7. DrawnIsItsOwn' /\ KnownIsIssued'
  BY <1>1, <1>3 DEF CustodyInv, DrawnIsItsOwn, KnownIsIssued, Issued
<1>8. DeploysAlone' /\ RacesNeedSetUp'
  BY <1>1, <1>2, <1>3 DEF CustodyInv, DeploysAlone, RacesNeedSetUp
<1>9. CopiesAreCurrent'
  BY <1>1, <1>2, <1>3 DEF CustodyInv, CopiesAreCurrent, FileIsFree
<1>10. DeployerIsStored'
  <2>1. \A q \in Commands : network[q] \in Networks
    BY DEF CustodyInv, CustodyTypeOK
  <2> QED BY <1>1, <1>2, <1>3, <1>4, <2>1 DEF CustodyInv, DeployerIsStored
<1>11. RegistrarIsPendingOrStored'
  BY <1>1, <1>2, <1>3, <1>4, CustodyConstants
     DEF CustodyInv, RegistrarIsPendingOrStored, Quiet
<1> QED BY <1>5, <1>6, <1>7, <1>8, <1>9, <1>10, <1>11 DEF CustodyInv

\* saveState of a rotation or of the active network: the secret that was pending is
\* stored, and where no file races nothing else of the file changes.
LEMMA SaveStep == ASSUME CustodyInv, NEW p \in Commands, SaveState(p) PROVE CustodyInv'
<1> USE CustodyConstants
<1> DEFINE n == network[p]
           d == drawn[p]
<1>1. /\ status[p] = "saving" /\ Active(p) /\ Advance(p)
      /\ drawn' = [drawn EXCEPT ![p] = NoSecret]
      /\ UNCHANGED <<network, copy, draws, ledger, setting>>
  BY DEF SaveState, Active
<1>2. faults' = faults /\ task' = task /\ registrarCommitment' = registrarCommitment
  BY <1>1 DEF setting, ledger, registrar
<1>3. /\ status' \in [Commands -> {"idle", "running", "saving", "exited"}]
      /\ done' \in [Commands -> 0..6]
      /\ \A q \in Commands : q # p => status'[q] = status[q] /\ done'[q] = done[q]
      /\ status'[p] \in {"running", "exited"}
      /\ status'[p] # "exited" => done'[p] < Len(Script(task[p]))
  BY <1>1, Progress
<1>4. n \in Networks /\ d \in Secrets \cup {NoSecret} /\ copy[p] \in State
  BY DEF CustodyInv, CustodyTypeOK
<1>5. /\ stateFile' \in State
      /\ stateFile'.deployed = copy[p].deployed
      /\ \A m \in Networks : stateFile'.registrars[m] =
            IF d # NoSecret /\ m = n THEN d ELSE copy[p].registrars[m]
  <2>1. CASE d # NoSecret
    <3>1. stateFile' = [copy[p] EXCEPT !.registrars = [@ EXCEPT ![n] = d]]
      BY <2>1 DEF SaveState
    <3> HIDE DEF d, n
    <3> QED BY <1>4, <2>1, <3>1 DEF State
  <2>2. CASE d = NoSecret
    <3>1. stateFile' = [copy[p] EXCEPT !.activeNetwork = n]
      BY <2>2 DEF SaveState
    <3> HIDE DEF d, n
    <3> QED BY <1>4, <2>2, <3>1 DEF State
  <2> QED BY <2>1, <2>2
<1>6. /\ \A q \in Commands : held'[q] = IF q = p /\ d # NoSecret THEN d ELSE held[q]
      /\ held' \in [Commands -> Secrets \cup {NoSecret}]
  BY <1>4 DEF SaveState, CustodyInv, CustodyTypeOK
<1>7. \A q \in Commands : drawn'[q] = IF q = p THEN NoSecret ELSE drawn[q]
  BY <1>1 DEF CustodyInv, CustodyTypeOK
<1>8. "race" \notin faults => copy[p] = stateFile /\ \A q \in Commands : status[q] = "saving" => q = p
  BY <1>1 DEF CustodyInv, CopiesAreCurrent
<1>9. d # NoSecret => task[p] \in Rotating
  BY DrawnIsRecordedNext
<1> HIDE DEF d, n
<1>10. \A m \in Networks : EnvSecret(m)' = EnvSecret(m)
  BY <1>2 DEF EnvSecret
<1>11. CustodyTypeOK'
  <2>1. LedgerTypeOK'
    BY <1>1 DEF CustodyInv, CustodyTypeOK, LedgerTypeOK, ledger, registrar, register
  <2>2. ASSUME NEW m \in Networks, stateFile'.deployed[m] PROVE StoredSecret(m)' # NoSecret
    <3>1. CASE "race" \in faults
      <4>1. stateFile'.registrars[m] # NoSecret
        BY <1>5, <3>1 DEF CustodyInv, RacesNeedSetUp
      <4> QED BY <4>1 DEF StoredSecret
    <3>2. CASE "race" \notin faults
      <4>1. StoredSecret(m) # NoSecret
        BY <1>5, <1>8, <2>2, <3>2 DEF CustodyInv, CustodyTypeOK
      <4> QED BY <1>5, <1>8, <1>10, <3>2, <4>1 DEF StoredSecret
    <3> QED BY <3>1, <3>2
  <2>3. drawn' \in [Commands -> Secrets \cup {NoSecret}]
    BY <1>1 DEF CustodyInv, CustodyTypeOK
  <2> QED BY <1>1, <1>2, <1>3, <1>5, <1>6, <2>1, <2>2, <2>3 DEF CustodyInv, CustodyTypeOK
<1>12. \A q \in Commands : Active(q)' => Active(q)
  BY <1>1, <1>3 DEF Active
<1>13. ScriptsInProgress'
  BY <1>2, <1>3, <1>6, <1>12 DEF CustodyInv, ScriptsInProgress
<1>14. DrawnIsItsOwn'
  <2>1. \A q \in Commands : q # p => Active(q)' = Active(q) /\ CurrentStep(q)' = CurrentStep(q)
    BY <1>2, <1>3 DEF Active, CurrentStep
  <2>2. ASSUME NEW q \in Commands, drawn'[q] # NoSecret
        PROVE  q # p /\ drawn'[q] = drawn[q] /\ drawn[q] # NoSecret /\ drawn[q] # d
    BY <1>7, <2>2 DEF CustodyInv, DrawnIsItsOwn, d
  <2> QED BY <1>1, <1>5, <1>6, <1>7, <2>1, <2>2 DEF CustodyInv, DrawnIsItsOwn
<1>15. KnownIsIssued'
  <2>1. d \in Issued /\ NoSecret \in Issued /\ Issued' = Issued
    BY <1>1 DEF CustodyInv, KnownIsIssued, Issued, d
  <2> QED BY <1>1, <1>5, <1>6, <1>7, <2>1 DEF CustodyInv, KnownIsIssued
<1>16. DeploysAlone'
  BY <1>2, <1>12 DEF CustodyInv, DeploysAlone
<1>17. CopiesAreCurrent'
  BY <1>2, <1>3, <1>8 DEF CopiesAreCurrent
<1>18. RacesNeedSetUp'
  BY <1>1, <1>2, <1>5 DEF CustodyInv, RacesNeedSetUp
<1>19. DeployerIsStored'
  <2> SUFFICES ASSUME "race" \notin faults, NEW q \in Commands, task[q] = "deploy", Active(q)
               PROVE  held'[q] = StoredSecret(network[q])'
    BY <1>1, <1>2, <1>12 DEF DeployerIsStored
  <2>1. q = p
    BY <1>1 DEF CustodyInv, DeploysAlone
  <2>2. d = NoSecret
    BY <1>9, <2>1 DEF Rotating
  <2>3. \A m \in Networks : StoredSecret(m)' = StoredSecret(m)
    BY <1>5, <1>8, <1>10, <2>2 DEF StoredSecret
  <2>4. held[p] = StoredSecret(network[p]) /\ network[p] \in Networks
    BY <1>4, <2>1 DEF CustodyInv, DeployerIsStored, n
  <2>5. held'[p] = held[p] /\ network' = network
    BY <1>1, <1>6, <2>2
  <2> QED BY <2>1, <2>3, <2>4, <2>5
<1>20. RegistrarIsPendingOrStored'
  <2> SUFFICES ASSUME Quiet
               PROVE  /\ \A q \in Commands :
                            Pending(q)' => registrarCommitment = CommitmentOf[drawn'[q]]
                      /\ stateFile'.deployed[Home] /\ (\A q \in Commands : ~Pending(q)')
                         => registrarCommitment = CommitmentOf[StoredSecret(Home)']
    BY <1>2 DEF RegistrarIsPendingOrStored, Quiet
  <2>1. "race" \notin faults
    BY DEF Quiet
  <2>2. \A q \in Commands : /\ q # p => Pending(q)' = Pending(q) /\ drawn'[q] = drawn[q]
                            /\ q = p => ~Pending(q)'
    BY <1>1, <1>7 DEF Pending
  <2>3. CASE Pending(p)
    <3>1. registrarCommitment = CommitmentOf[d] /\ n = Home /\ d # NoSecret
      BY <2>3 DEF Pending, CustodyInv, RegistrarIsPendingOrStored, d, n
    <3>2. EnvSecret(Home) = NoSecret
      BY <1>9, <3>1 DEF Quiet, EnvSecret
    <3>3. StoredSecret(Home)' = d
      BY <1>5, <1>10, <3>1, <3>2 DEF StoredSecret
    <3> QED BY <2>2, <3>1, <3>3 DEF CustodyInv, RegistrarIsPendingOrStored
  <2>4. CASE ~Pending(p)
    <3>1. n # Home \/ d = NoSecret
      BY <2>4 DEF Pending, d, n
    <3>2. StoredSecret(Home)' = StoredSecret(Home)
      BY <1>5, <1>8, <1>10, <2>1, <3>1 DEF StoredSecret
    <3>3. stateFile'.deployed = stateFile.deployed
      BY <1>5, <1>8, <2>1
    <3> QED BY <2>2, <2>4, <3>2, <3>3 DEF CustodyInv, RegistrarIsPendingOrStored
  <2> QED BY <2>3, <2>4
<1> QED BY <1>11, <1>13, <1>14, <1>15, <1>16, <1>17, <1>18, <1>19, <1>20 DEF CustodyInv

\* recordDeployment: the only running command stores the address, and the secret of
\* the contract has been in the file since it began.
LEMMA SaveDeploymentStep ==
    ASSUME CustodyInv, NEW p \in Commands, SaveDeployment(p)
    PROVE  CustodyInv'
<1> USE CustodyConstants
<1> DEFINE n == network[p]
<1>1. /\ status[p] = "saving" /\ CurrentStep(p) = "address" /\ Active(p) /\ Advance(p)
      /\ stateFile' = [copy[p] EXCEPT !.deployed = [@ EXCEPT ![n] = TRUE]]
      /\ UNCHANGED <<network, held, drawn, copy, draws, setting>>
  BY DEF SaveDeployment, Active
<1>2. faults' = faults /\ task' = task
  BY <1>1 DEF setting
<1>3. /\ status' \in [Commands -> {"idle", "running", "saving", "exited"}]
      /\ done' \in [Commands -> 0..6]
      /\ \A q \in Commands : q # p => status'[q] = status[q] /\ done'[q] = done[q]
      /\ status'[p] \in {"running", "exited"}
      /\ status'[p] # "exited" => done'[p] < Len(Script(task[p]))
  BY <1>1, Progress
<1>4. task[p] = "deploy" /\ held[p] \in Secrets /\ n \in Networks /\ copy[p] \in State
  BY <1>1, NextEntry DEF CustodyInv, CustodyTypeOK, ScriptsInProgress
<1>5. \A q \in Commands : (Active(q) => q = p) /\ drawn[q] = NoSecret
  <2>1. \A q \in Commands : Active(q) => q = p
    BY <1>1, <1>4 DEF CustodyInv, DeploysAlone
  <2> QED BY <1>1, <2>1, DrawnIsRecordedNext
<1>6. /\ stateFile' \in State
      /\ stateFile'.registrars = copy[p].registrars
      /\ \A m \in Networks : stateFile'.deployed[m] = IF m = n THEN TRUE ELSE copy[p].deployed[m]
  <2> HIDE DEF n
  <2> QED BY <1>1, <1>4 DEF State
<1>7. "race" \notin faults => /\ copy[p] = stateFile
                              /\ \A q \in Commands : status[q] = "saving" => q = p
                              /\ held[p] = StoredSecret(n)
  BY <1>1, <1>4 DEF CustodyInv, CopiesAreCurrent, DeployerIsStored
<1>8. \A m \in Networks : /\ EnvSecret(m)' = EnvSecret(m)
                          /\ "race" \notin faults => StoredSecret(m)' = StoredSecret(m)
  BY <1>2, <1>6, <1>7 DEF EnvSecret, StoredSecret
<1>9. /\ LedgerTypeOK'
      /\ n = Home => registrarCommitment' = CommitmentOf[held[p]]
      /\ n # Home => registrarCommitment' = registrarCommitment
  <2>1. CASE n = Home
    <3>1. /\ registrarCommitment' = CommitmentOf[held[p]]
          /\ registrarRevoked' = FALSE /\ registrarEpoch' = 1
          /\ anchors' = <<>> /\ usedAllowActions' = {} /\ nextId' = 0 /\ blockTime' = blockTime
      BY <2>1 DEF SaveDeployment
    <3>2. registrarCommitment' \in Commitments /\ registrarRevoked' \in BOOLEAN
      BY <1>4, <3>1, ConstantTypes
    <3>3. anchors' \in [1..nextId' -> Anchor]
      <4>1. 1..0 = {} OBVIOUS
      <4> QED BY <3>1, <4>1
    <3>4. blockTime \in 0..MaxTime
      BY DEF CustodyInv, CustodyTypeOK, LedgerTypeOK
    <3> QED BY <2>1, <3>1, <3>2, <3>3, <3>4, ConstantTypes DEF LedgerTypeOK
  <2>2. CASE n # Home
    <3>1. UNCHANGED ledger
      BY <2>2 DEF SaveDeployment
    <3> QED BY <2>2, <3>1 DEF CustodyInv, CustodyTypeOK, LedgerTypeOK, ledger, registrar, register
  <2> QED BY <2>1, <2>2
<1>10. CustodyTypeOK'
  <2>1. ASSUME NEW m \in Networks, stateFile'.deployed[m] PROVE StoredSecret(m)' # NoSecret
    <3>1. CASE "race" \in faults
      <4>1. stateFile'.registrars[m] # NoSecret
        BY <1>6, <3>1 DEF CustodyInv, RacesNeedSetUp
      <4> QED BY <4>1 DEF StoredSecret
    <3>2. CASE "race" \notin faults
      <4>1. m # n => stateFile.deployed[m]
        BY <1>6, <1>7, <2>1, <3>2
      <4>2. StoredSecret(m) # NoSecret
        BY <1>4, <1>7, <3>2, <4>1 DEF CustodyInv, CustodyTypeOK
      <4> QED BY <1>8, <3>2, <4>2
    <3> QED BY <3>1, <3>2
  <2> QED BY <1>1, <1>2, <1>3, <1>6, <1>9, <2>1 DEF CustodyInv, CustodyTypeOK
<1>11. \A q \in Commands : Active(q)' => Active(q)
  BY <1>1, <1>3 DEF Active
<1>12. ScriptsInProgress'
  BY <1>1, <1>2, <1>3, <1>11 DEF CustodyInv, ScriptsInProgress
<1>13. DrawnIsItsOwn'
  BY <1>1, <1>5 DEF DrawnIsItsOwn
<1>14. KnownIsIssued'
  BY <1>1, <1>6 DEF CustodyInv, KnownIsIssued, Issued
<1>15. DeploysAlone' /\ CopiesAreCurrent'
  BY <1>2, <1>3, <1>7, <1>11 DEF CustodyInv, DeploysAlone, CopiesAreCurrent
<1>16. RacesNeedSetUp'
  BY <1>1, <1>2, <1>6 DEF CustodyInv, RacesNeedSetUp
<1>17. DeployerIsStored'
  <2>1. \A q \in Commands : network[q] \in Networks
    BY DEF CustodyInv, CustodyTypeOK
  <2> QED BY <1>1, <1>2, <1>8, <1>11, <2>1 DEF CustodyInv, DeployerIsStored
<1>18. RegistrarIsPendingOrStored'
  <2> SUFFICES ASSUME Quiet
               PROVE  stateFile'.deployed[Home]
                         => registrarCommitment' = CommitmentOf[StoredSecret(Home)']
    BY <1>1, <1>2, <1>5 DEF RegistrarIsPendingOrStored, Quiet, Pending
  <2>1. "race" \notin faults
    BY DEF Quiet
  <2>2. CASE n = Home
    BY <1>7, <1>8, <1>9, <2>1, <2>2
  <2>3. CASE n # Home
    <3>1. stateFile'.deployed[Home] = stateFile.deployed[Home]
      BY <1>6, <1>7, <2>1, <2>3
    <3> QED BY <1>5, <1>8, <1>9, <2>1, <2>3, <3>1
            DEF CustodyInv, RegistrarIsPendingOrStored, Pending
  <2> QED BY <2>2, <2>3
<1> QED BY <1>10, <1>12, <1>13, <1>14, <1>15, <1>16, <1>17, <1>18 DEF CustodyInv

\* Block time and stuttering.
LEMMA CustodyUnchanged ==
    ASSUME CustodyInv, UNCHANGED <<custody, registrarCommitment>>, LedgerTypeOK'
    PROVE  CustodyInv'
<1>1. UNCHANGED <<status, done, network, held, drawn, copy, stateFile, draws, faults, task>>
  BY DEF custody, commands, setting
<1>2. \A n \in Networks : StoredSecret(n)' = StoredSecret(n)
  BY <1>1 DEF StoredSecret, EnvSecret
<1>3. \A p \in Commands : /\ Active(p)' = Active(p) /\ CurrentStep(p)' = CurrentStep(p)
                          /\ Pending(p)' = Pending(p)
  BY <1>1 DEF Active, CurrentStep, Pending
<1>4. \A p \in Commands : network[p] \in Networks
  BY DEF CustodyInv, CustodyTypeOK
<1>5. CustodyTypeOK'
  BY <1>1, <1>2 DEF CustodyInv, CustodyTypeOK
<1>6. ScriptsInProgress' /\ DrawnIsItsOwn' /\ KnownIsIssued'
  BY <1>1, <1>3 DEF CustodyInv, ScriptsInProgress, DrawnIsItsOwn, KnownIsIssued, Issued
<1>7. DeploysAlone' /\ CopiesAreCurrent' /\ RacesNeedSetUp' /\ DeployerIsStored'
  BY <1>1, <1>2, <1>3, <1>4
     DEF CustodyInv, DeploysAlone, CopiesAreCurrent, RacesNeedSetUp, DeployerIsStored
<1>8. RegistrarIsPendingOrStored'
  BY <1>1, <1>2, <1>3, CustodyConstants DEF CustodyInv, RegistrarIsPendingOrStored, Quiet
<1> QED BY <1>5, <1>6, <1>7, <1>8 DEF CustodyInv

\* Initially no command runs; a network that is deployed has its first secret.
LEMMA CustodyInvInit == CustodyInit => CustodyInv
<1> SUFFICES ASSUME CustodyInit PROVE CustodyInv
  OBVIOUS
<1> USE CustodyConstants
<1>1. PICK s \in Situations :
         /\ faults = s.faults /\ task = s.task
         /\ stateFile = [activeNetwork |-> Home,
                         registrars |-> [n \in Networks |-> IF n = Away THEN AwaySecret
                                                            ELSE IF s.setUp THEN FirstSecret
                                                            ELSE NoSecret],
                         deployed |-> [n \in Networks |-> n = Away \/ s.setUp]]
  BY DEF CustodyInit
<1>2. /\ faults \subseteq Faults /\ task \in [Commands -> CommandNames]
      /\ s.setUp \in BOOLEAN /\ ("race" \in faults => s.setUp)
  BY <1>1, RegistrarAssumption DEF RegistrarAssumption, Situation
<1>3. /\ status = [p \in Commands |-> "idle"] /\ done = [p \in Commands |-> 0]
      /\ network = [p \in Commands |-> Home] /\ held = [p \in Commands |-> NoSecret]
      /\ drawn = [p \in Commands |-> NoSecret] /\ copy = [p \in Commands |-> stateFile]
      /\ draws = 0
  BY DEF CustodyInit
<1>4. /\ stateFile \in State
      /\ \A n \in Networks : /\ stateFile.registrars[n] \in {NoSecret, FirstSecret, AwaySecret}
                             /\ stateFile.deployed[n] => stateFile.registrars[n] # NoSecret
                             /\ s.setUp => stateFile.registrars[n] # NoSecret
      /\ stateFile.deployed[Home] => stateFile.registrars[Home] = FirstSecret
  BY <1>1, <1>2 DEF State, Networks
<1>5. registrarCommitment = CommitmentOf[FirstSecret] /\ LedgerTypeOK
  BY LedgerTypeInit DEF CustodyInit, LedgerInit, Deploy
<1>6. \A n \in Networks : stateFile.deployed[n] => StoredSecret(n) # NoSecret
  BY <1>4 DEF StoredSecret
<1>7. CustodyTypeOK
  BY <1>2, <1>3, <1>4, <1>5, <1>6 DEF CustodyTypeOK
<1>8. \A p \in Commands : ~Active(p) /\ drawn[p] = NoSecret /\ status[p] # "saving"
  BY <1>3 DEF Active
<1>9. ScriptsInProgress
  <2>1. ASSUME NEW p \in Commands PROVE done[p] < Len(Script(task[p]))
    <3> DEFINE length == Len(Script(task[p]))
    <3>1. done[p] = 0 /\ length \in 1..6
      BY <1>2, <1>3, Scripts
    <3> HIDE DEF length
    <3>2. done[p] < length
      BY <3>1
    <3> QED BY <3>2 DEF length
  <2> QED BY <1>8, <2>1 DEF ScriptsInProgress
<1>10. DrawnIsItsOwn /\ DeploysAlone /\ CopiesAreCurrent /\ DeployerIsStored
  BY <1>8 DEF DrawnIsItsOwn, DeploysAlone, CopiesAreCurrent, DeployerIsStored
<1>11. KnownIsIssued /\ RacesNeedSetUp
  BY <1>2, <1>3, <1>4 DEF KnownIsIssued, Issued, RacesNeedSetUp
<1>12. RegistrarIsPendingOrStored
  BY <1>3, <1>4, <1>5 DEF RegistrarIsPendingOrStored, Pending, StoredSecret, EnvSecret
<1> QED BY <1>7, <1>9, <1>10, <1>11, <1>12 DEF CustodyInv

LEMMA CustodyInvStep == CustodyInv /\ [CustodyNext]_vars => CustodyInv'
<1> SUFFICES ASSUME CustodyInv, [CustodyNext]_vars PROVE CustodyInv'
  OBVIOUS
<1>1. ASSUME NEW p \in Commands, NEW n \in Networks, Begin(p, n) PROVE CustodyInv'
  BY <1>1, BeginStep DEF Begin
<1>2. ASSUME NEW p \in Commands, NEW n \in Networks, BeginWithNewSecret(p, n) PROVE CustodyInv'
  BY <1>2, BeginStep DEF BeginWithNewSecret
<1>3. ASSUME NEW p \in Commands,
             PrepareWallet(p) \/ RegisterDust(p) \/ CallFails(p) \/ RecordRefused(p)
             \/ SwitchIsNoop(p) \/ Die(p)
      PROVE  CustodyInv'
  BY <1>3, CallStep
<1>4. ASSUME NEW p \in Commands, NEW acked \in Acks,
             Register(p, acked) \/ Revoke(p, acked) \/ DeployContract(p, acked)
      PROVE  CustodyInv'
  <2>1. acked \in BOOLEAN
    BY DEF Acks
  <2> QED BY <1>4, <2>1, CallStep
<1>5. ASSUME NEW p \in Commands, NEW acked \in Acks, Rotate(p, acked) PROVE CustodyInv'
  BY <1>5, RotateStep
<1>6. ASSUME NEW p \in Commands, LoadState(p) \/ SaveState(p) \/ SaveDeployment(p) PROVE CustodyInv'
  BY <1>6, LoadStep, SaveStep, SaveDeploymentStep
<1>7. CASE NextBlock /\ UNCHANGED custody
  <2>1. LedgerTypeOK'
    BY <1>7, LedgerTypeStep DEF CustodyInv, CustodyTypeOK, LedgerNext
  <2> QED BY <1>7, <2>1, CustodyUnchanged DEF NextBlock, registrar
<1>8. CASE UNCHANGED vars
  <2>1. LedgerTypeOK'
    BY <1>8, LedgerTypeStep DEF CustodyInv, CustodyTypeOK, vars
  <2> QED BY <1>8, <2>1, CustodyUnchanged DEF vars, ledger, registrar
<1> QED BY <1>1, <1>2, <1>3, <1>4, <1>5, <1>6, <1>7, <1>8 DEF CustodyNext, Run

-----------------------------------------------------------------------------
\* The inductive invariant holds in every reachable state.
THEOREM CustodyInvariant == CustodySpec => []CustodyInv
<1> QED BY CustodyInvInit, CustodyInvStep, PTL DEF CustodySpec

\* Every state is well typed, and no deployed network is ever without a secret,
\* through races of the file, killed commands and deployments.
THEOREM CustodyTypeCorrect == CustodySpec => []CustodyTypeOK
<1>1. CustodyInv => CustodyTypeOK
  BY DEF CustodyInv
<1> QED BY <1>1, CustodyInvariant, PTL

\* The registrar's secret is stored or about to be: without faults for any commands
\* side by side, and without rotations and races also through kills and lost replies.
THEOREM CustodyRegistrarStaysKnown == CustodySpec => []RegistrarStaysKnown
<1>1. CustodyInv => RegistrarStaysKnown
  <2> SUFFICES ASSUME CustodyInv, Quiet, stateFile.deployed[Home]
               PROVE  \E s \in ({StoredSecret(Home)} \ {NoSecret}) \cup
                          {drawn[p] : p \in {q \in Commands : /\ network[q] = Home
                                                              /\ status[q] # "exited"
                                                              /\ drawn[q] # NoSecret}} :
                         registrarCommitment = CommitmentOf[s]
    BY DEF RegistrarStaysKnown, RegistrarKnown, Quiet
  <2>1. ASSUME NEW p \in Commands, Pending(p)
        PROVE  /\ network[p] = Home /\ status[p] # "exited" /\ drawn[p] # NoSecret
               /\ registrarCommitment = CommitmentOf[drawn[p]]
    BY <2>1 DEF CustodyInv, DrawnIsItsOwn, RegistrarIsPendingOrStored, Pending, Active
  <2>2. CASE \A p \in Commands : ~Pending(p)
    BY <2>2, CustodyConstants DEF CustodyInv, CustodyTypeOK, RegistrarIsPendingOrStored
  <2> QED BY <2>1, <2>2
<1> QED BY <1>1, CustodyInvariant, PTL

\* A rotation cuts off every command that bound the contract before it: until it
\* binds the contract again, nothing it completes changes the ledger.
THEOREM CustodyRotationCutsOff == CustodySpec => RotationCutsOff
<1> DEFINE CutOff ==
        \A p \in Commands :
            /\ network[p] = Home /\ task[p] # "deploy" /\ held[p] # NoSecret
            /\ CommitmentOf[held[p]] # registrarCommitment
            /\ done'[p] # done[p]
            => UNCHANGED ledger
<1>1. ASSUME CustodyInv, [CustodyNext]_vars PROVE CutOff
  <2> SUFFICES ASSUME NEW p \in Commands, network[p] = Home, task[p] # "deploy",
                      CommitmentOf[held[p]] # registrarCommitment, done'[p] # done[p]
               PROVE  UNCHANGED ledger
    OBVIOUS
  <2>1. ASSUME NEW q \in Commands, Run(q) \/ Die(q), q # p PROVE FALSE
    <3>1. done' = done \/ done' = [done EXCEPT ![q] = @ + 1]
      BY <2>1 DEF Run, Die, Begin, BeginWithNewSecret, StartsOn, PrepareWallet, RegisterDust,
         CallFails, RecordRefused, LoadState, SwitchIsNoop, SaveState, SaveDeployment, Register,
         Revoke, Rotate, DeployContract, Outcome, Advance, Exit
    <3> QED BY <1>1, <2>1, <3>1 DEF CustodyInv, CustodyTypeOK
  <2>2. CASE Run(p) \/ Die(p)
    <3>1. ~SaveDeployment(p)
      <4>1. ASSUME SaveDeployment(p) PROVE task[p] = "deploy"
        BY <1>1, <4>1, NextEntry DEF SaveDeployment, Active
      <4> QED BY <4>1
    <3>2. ASSUME NEW acked \in Acks, Register(p, acked) \/ Revoke(p, acked) \/ Rotate(p, acked)
          PROVE  FALSE
      BY <3>2 DEF Register, Revoke, Rotate, RegisterDecision, RevokeRegistrar, RotateRegistrar,
         RequireRegistrar
    <3> QED BY <2>2, <3>1, <3>2 DEF Run, Die, Begin, BeginWithNewSecret, StartsOn, PrepareWallet,
            RegisterDust, CallFails, RecordRefused, LoadState, SwitchIsNoop, SaveState, DeployContract
  <2>3. CASE NextBlock /\ UNCHANGED custody
    BY <2>3 DEF custody, commands
  <2>4. CASE UNCHANGED vars
    BY <2>4 DEF vars
  <2> QED BY <1>1, <2>1, <2>2, <2>3, <2>4 DEF CustodyNext
<1>2. CustodyInv /\ [CustodyNext]_vars => [CutOff]_vars
  BY <1>1
<1>3. CustodySpec => [][CutOff]_vars
  BY <1>2, CustodyInvariant, PTL DEF CustodySpec
<1> QED BY <1>3 DEF RotationCutsOff

-----------------------------------------------------------------------------
\* Whatever commands run side by side, are killed or deploy again: the contract that
\* is recorded keeps what DecisionContract promises the readers of its anchors.
THEOREM CustodyKeepsTheContract == CustodySpec => []LedgerInv
<1>1. CustodyInit => LedgerInv
  BY LedgerInvInit, CustodyConstants DEF CustodyInit, LedgerInit
<1>2. CustodyInv /\ CustodyInv' /\ LedgerInv /\ [CustodyNext]_vars => LedgerInv'
  <2> SUFFICES ASSUME CustodyInv, CustodyInv', LedgerInv, [CustodyNext]_vars PROVE LedgerInv'
    OBVIOUS
  <2>1. LedgerTypeOK'
    BY DEF CustodyInv, CustodyTypeOK
  <2>2. ASSUME UNCHANGED register PROVE LedgerInv'
    BY <2>1, <2>2, RegisterUnchanged DEF LedgerInv
  <2>3. ASSUME NEW p \in Commands, NEW acked \in Acks, Register(p, acked) PROVE LedgerInv'
    <3>1. held[p] \in Secrets
      BY <2>3, NextEntry DEF Register, At, Active
    <3>2. CASE UNCHANGED ledger
      BY <2>2, <3>2 DEF ledger
    <3>3. CASE \E draft \in Drafts : RegisterDecision(held[p], draft)
      BY <2>1, <3>1, <3>3, RegisterPreserves, ConstantTypes DEF LedgerInv
    <3> QED BY <2>3, <3>2, <3>3 DEF Register
  <2>4. ASSUME NEW p \in Commands, SaveDeployment(p) PROVE LedgerInv'
    <3>1. CASE UNCHANGED ledger
      BY <2>2, <3>1 DEF ledger
    <3>2. CASE anchors' = <<>> /\ usedAllowActions' = {}
      <4>1. AllowIds' = {}
        BY <3>2 DEF AllowIds
      <4> QED BY <2>1, <3>2, <4>1
              DEF LedgerInv, UsedActionsAreAnchored, OneAllowPerAction, AllowsAreBacked
    <3> QED BY <2>4, <3>1, <3>2 DEF SaveDeployment
  <2>5. \/ \E p \in Commands : \/ \E acked \in Acks : Register(p, acked)
                               \/ SaveDeployment(p)
        \/ UNCHANGED register
    BY DEF CustodyNext, Run, Die, Begin, BeginWithNewSecret, StartsOn, PrepareWallet, RegisterDust,
       CallFails, RecordRefused, LoadState, SwitchIsNoop, SaveState, Revoke, Rotate, DeployContract,
       RevokeRegistrar, RotateRegistrar, NextBlock, vars, ledger
  <2> QED BY <2>2, <2>3, <2>4, <2>5
<1> QED BY <1>1, <1>2, CustodyInvariant, PTL DEF CustodySpec
=============================================================================
