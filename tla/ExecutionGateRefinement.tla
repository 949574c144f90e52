---------------------- MODULE ExecutionGateRefinement ----------------------
(***************************************************************************)
(* On a store whose update either commits or throws (JsonStore: the rename *)
(* of the temporary file is the commit), the records only move forward and *)
(* the gate implements OneTimePermit.  Without that assumption neither     *)
(* holds: a lost COMMIT reply lets the catch block overwrite a success.    *)
(***************************************************************************)
EXTENDS ExecutionGateProofs, FiniteSetTheorems

\* The catch block finds a record without a verdict.
NoVerdictYet ==
    \A c \in Calls : phase[c] = "failing" => executions[c].status = "executing"

LEMMA StepNoVerdict ==
  ASSUME ~AckMayBeLost
  PROVE  TypeOK /\ CallInv /\ NoVerdictYet /\ [Next]_vars => NoVerdictYet'
<1> SUFFICES ASSUME TypeOK, CallInv, NoVerdictYet, [Next]_vars, NEW d \in Calls,
                    phase'[d] = "failing"
             PROVE  executions'[d].status = "executing"
  BY DEF NoVerdictYet
<1>0. /\ phase[d] = "failing" => executions[d].status = "executing"
      /\ CallOK(d)
  BY DEF NoVerdictYet, CallInv
<1>1. \A acked \in Acks : acked = TRUE
  BY DEF Acks
<1> USE <1>0 DEF TypeOK, CallOK, handlerVars, storeVars
<1>2. ASSUME NEW c \in Calls,
             \/ Receive(c) \/ ReplayRecord(c) \/ RejectKey(c) \/ RejectPermit(c)
             \/ RejectConsumed(c) \/ Dispatch(c)
      PROVE executions'[d].status = "executing"
  BY <1>2 DEF Receive, ReplayRecord, RejectKey, RejectPermit, RejectConsumed,
     Answered, Dispatch
<1>3. ASSUME NEW c \in Calls, DispatchReturns(c) \/ DispatchThrows(c)
      PROVE executions'[d].status = "executing"
  BY <1>3 DEF DispatchReturns, DispatchThrows
<1>4. ASSUME NEW c \in Calls, NEW acked \in Acks, Reserve(c, acked)
      PROVE executions'[d].status = "executing"
  BY <1>1, <1>4 DEF Reserve
<1>5. ASSUME NEW c \in Calls, NEW acked \in Acks, Start(c, acked)
      PROVE executions'[d].status = "executing"
  BY <1>1, <1>5, WriteStatus DEF Start, ExecutionStatus
<1>6. ASSUME NEW c \in Calls, NEW acked \in Acks, RecordSuccess(c, acked)
      PROVE executions'[d].status = "executing"
  BY <1>1, <1>6, WriteStatus DEF RecordSuccess, Answered, ExecutionStatus
<1>7. ASSUME NEW c \in Calls, NEW acked \in Acks, RecordFailure(c, acked)
      PROVE executions'[d].status = "executing"
  BY <1>1, <1>7, WriteStatus DEF RecordFailure, Answered, ExecutionStatus
<1>8. ASSUME NEW c \in Calls, UpdateThrows(c)
      PROVE executions'[d].status = "executing"
  BY <1>8 DEF UpdateThrows, Throws, Answered
<1>9. ASSUME NEW c \in Calls, GitHubAccepts(c) \/ GitHubRefuses(c)
      PROVE executions'[d].status = "executing"
  BY <1>9 DEF GitHubAccepts, GitHubRefuses
<1>10. ASSUME NEW p \in Permits, IssuePermit(p) \/ PermitExpires(p)
       PROVE executions'[d].status = "executing"
  BY <1>10 DEF IssuePermit, PermitExpires
<1>11. CASE SelectScenario \/ SelectNetwork \/ Reset
  BY <1>11 DEF SelectScenario, SelectNetwork, Reset
<1>12. CASE Crash
  BY <1>12 DEF Crash
<1>13. CASE UNCHANGED vars
  BY <1>13 DEF vars
<1> QED
  BY <1>2, <1>3, <1>4, <1>5, <1>6, <1>7, <1>8, <1>9, <1>10, <1>11, <1>12, <1>13
     DEF Next, Handler

\* What the theorems below rest on.
RInv == IInv /\ NoVerdictYet

LEMMA RefinementInvariant ==
  ASSUME ~AckMayBeLost
  PROVE  Spec => []RInv
<1>1. Init => NoVerdictYet
  BY DEF Init, NoVerdictYet
<1>2. IInv /\ NoVerdictYet /\ [Next]_vars => NoVerdictYet'
  BY StepNoVerdict DEF IInv
<1> QED
  BY GateInvariant, <1>1, <1>2, PTL DEF Spec, RInv

-----------------------------------------------------------------------------
(* Records only move forward.                                              *)

LEMMA StepForward == RInv /\ [Next]_vars => \A c \in Calls : Forward(c)
<1> SUFFICES ASSUME RInv, [Next]_vars, NEW d \in Calls PROVE Forward(d)
  OBVIOUS
<1>0. TypeOK /\ CallOK(d) /\ (phase[d] = "failing" => executions[d].status = "executing")
  BY DEF RInv, IInv, CallInv, NoVerdictYet
<1> USE <1>0 DEF TypeOK, CallOK, Forward
<1>1. ASSUME NEW c \in Calls, NEW acked \in Acks, Reserve(c, acked) PROVE Forward(d)
  BY <1>1 DEF Reserve
<1>2. ASSUME NEW c \in Calls, NEW acked \in Acks, Start(c, acked) PROVE Forward(d)
  BY <1>2, WriteStatus DEF Start, ExecutionStatus, InStore
<1>3. ASSUME NEW c \in Calls, NEW acked \in Acks, RecordSuccess(c, acked)
      PROVE Forward(d)
  BY <1>3, WriteStatus DEF RecordSuccess, ExecutionStatus, InStore
<1>4. ASSUME NEW c \in Calls, NEW acked \in Acks, RecordFailure(c, acked)
      PROVE Forward(d)
  BY <1>4, WriteStatus DEF RecordFailure, ExecutionStatus, InStore
<1>5. ASSUME UNCHANGED executions PROVE Forward(d)
  BY <1>5
<1> QED
  BY <1>1, <1>2, <1>3, <1>4, <1>5 DEF Next, Handler, Receive, ReplayRecord, RejectKey,
     RejectPermit, RejectConsumed, Dispatch, DispatchReturns, DispatchThrows,
     UpdateThrows, GitHubAccepts, GitHubRefuses, IssuePermit, PermitExpires,
     SelectScenario, SelectNetwork, Reset, Crash, vars, handlerVars, storeVars

\* No verdict is ever revised and no erased record is written.
THEOREM GateRecordsProgress ==
  ASSUME ~AckMayBeLost
  PROVE  Spec => RecordsProgress
<1>1. RInv /\ [Next]_vars => [\A c \in Calls : Forward(c)]_vars
  BY StepForward
<1> QED
  BY RefinementInvariant, <1>1, PTL DEF Spec, RecordsProgress

-----------------------------------------------------------------------------
(* The refinement: reservation, acceptance, verdict and reset map to       *)
(* Claim, Fire, Settle and Wipe; every other step changes nothing of what  *)
(* OneTimePermit sees.                                                     *)

\* OneTimePermit's variables are functions of these four.
LEMMA SameView ==
  ASSUME UNCHANGED <<request, wire, executions, generation>>
  PROVE  UNCHANGED <<ClaimedPermits, OrphanedPermits, Firings, VerdictOn>>
  BY DEF ClaimedPermits, OrphanedPermits, Firings, VerdictOn, Accepted, HasStatus,
     InStore, HasRecord, Permit

\* The view of the records does not depend on their status.
LEMMA SameClaims ==
  ASSUME UNCHANGED <<request, generation>>,
         \A c \in Calls : /\ HasRecord(c)' <=> HasRecord(c)
                          /\ executions'[c].generation = executions[c].generation
  PROVE  UNCHANGED <<ClaimedPermits, OrphanedPermits>>
<1>1. \A c \in Calls : Permit(c)' = Permit(c) /\ InStore(c)' = InStore(c)
  BY DEF Permit, InStore
<1> QED
  BY <1>1 DEF ClaimedPermits, OrphanedPermits

LEMMA SameFirings ==
  ASSUME UNCHANGED <<request, wire>>
  PROVE  UNCHANGED Firings
  BY DEF Firings, Accepted, Permit

\* The only call that can have touched the world for the permit of c is c.
LEMMA OneRecordPerPermit ==
  ASSUME IInv, NEW c \in Calls, HasRecord(c), NEW d \in Calls, Permit(d) = Permit(c),
         HasRecord(d) \/ wire[d] # "none"
  PROVE  d = c
  BY DEF IInv, CallInv, CallOK, RecordInv, HasRecord

LEMMA ReserveClaims ==
  ASSUME RInv, NEW c \in Calls, NEW acked \in Acks, Reserve(c, acked)
  PROVE  Promise!Claim(Permit(c))
<1> DEFINE new == [status |-> "pending", generation |-> generation]
<1>1. /\ executions' = [executions EXCEPT ![c] = new]
      /\ UNCHANGED <<request, wire, generation>>
      /\ standing[Permit(c)] = "valid"
      /\ phase[c] = "admitted"
  BY DEF Reserve, Dispatchable
<1>2. executions'[c] = new /\ \A d \in Calls : d # c => executions'[d] = executions[d]
  BY <1>1 DEF RInv, IInv, TypeOK
<1>3. \A d \in Calls : Permit(d)' = Permit(d)
  BY <1>1 DEF Permit
<1>4. ~HasRecord(c)
  BY <1>1 DEF RInv, IInv, CallInv, CallOK, HasRecord
<1>5. generation \in Nat /\ \A d \in Calls : executions[d].generation \in Nat
  BY GateAssumption DEF RInv, IInv, TypeOK, Record
<1>6. \A d \in Calls : HasRecord(d) => Permit(d) # Permit(c)
  <2>1. \A d \in Calls : InStore(d) => Permit(d) # Permit(c)
    BY DEF Reserve, Consuming
  <2> QED
    BY <1>1, <1>5, <2>1 DEF RInv, IInv, RecordInv, InStore
<1>7. Permit(c) \notin ClaimedPermits \cup OrphanedPermits
  BY <1>6 DEF ClaimedPermits, OrphanedPermits, InStore
<1>8. \A q \in ClaimedPermits : NonceOf[q] # NonceOf[Permit(c)]
  BY DEF Reserve, Consuming, ClaimedPermits, Nonce
<1>9. \A d \in Calls : InStore(d)' <=> (InStore(d) \/ d = c)
  BY <1>1, <1>2 DEF InStore, HasRecord
<1>10. \A d \in Calls : (HasRecord(d) /\ ~InStore(d))' <=> (HasRecord(d) /\ ~InStore(d))
  BY <1>1, <1>2, <1>4 DEF InStore, HasRecord
<1>11. ClaimedPermits' = ClaimedPermits \cup {Permit(c)}
  BY <1>3, <1>9 DEF ClaimedPermits
<1>12. OrphanedPermits' = OrphanedPermits
  BY <1>3, <1>10 DEF OrphanedPermits
<1>13. UNCHANGED Firings
  BY <1>1, SameFirings
<1>14. UNCHANGED VerdictOn
  <2>1. \A s \in {"succeeded", "failed"}, d \in Calls :
           executions'[d].status = s <=> executions[d].status = s
    BY <1>2, <1>4 DEF HasRecord
  <2>2. \A s \in {"succeeded", "failed"}, p \in Permits : HasStatus(p, s)' <=> HasStatus(p, s)
    BY <1>3, <2>1 DEF HasStatus
  <2> QED
    BY <2>2 DEF VerdictOn
<1> QED
  BY <1>7, <1>8, <1>11, <1>12, <1>13, <1>14 DEF Promise!Claim

LEMMA AcceptanceFires ==
  ASSUME RInv, NEW c \in Calls, GitHubAccepts(c)
  PROVE  Promise!Fire(Permit(c))
<1>1. /\ wire[c] = "sent" /\ wire' = [wire EXCEPT ![c] = "accepted"]
      /\ UNCHANGED <<request, executions, generation>>
  BY DEF GitHubAccepts, storeVars
<1>2. wire'[c] = "accepted" /\ \A d \in Calls : d # c => wire'[d] = wire[d]
  BY <1>1 DEF RInv, IInv, TypeOK
<1>3. HasRecord(c) /\ Permit(c) \in Permits
  BY <1>1 DEF RInv, IInv, CallInv, CallOK, TypeOK, HasRecord, Permit
<1>4. \A d \in Calls : Permit(d)' = Permit(d)
  BY <1>1 DEF Permit
<1> PICK q \in Permits : q = Permit(c)
  BY <1>3
<1>5. Accepted(q) = {}
  BY <1>1, <1>3, OneRecordPerPermit DEF RInv, Accepted
<1>6. Accepted(q)' = {c}
  <2>1. \A d \in Calls : Permit(d) = Permit(c) /\ wire[d] # "none" => d = c
    BY <1>3, OneRecordPerPermit DEF RInv
  <2>2. \A d \in Calls : Permit(d) = Permit(c) /\ wire'[d] = "accepted" <=> d = c
    BY <1>2, <2>1
  <2> QED
    BY <1>4, <2>2 DEF Accepted
<1>7. \A p \in Permits : p # q => Accepted(p)' = Accepted(p)
  BY <1>2, <1>4 DEF Accepted
<1>8. Firings[q] = 0
  BY <1>3, <1>5, FS_EmptySet DEF Firings
<1>9. Firings' = [Firings EXCEPT ![q] = 1]
  <2>1. Cardinality(Accepted(q)') = 1
    BY <1>6, FS_Singleton
  <2>2. Firings' = [p \in Permits |-> Cardinality(Accepted(p)')]
    BY DEF Firings
  <2> QED
    BY <1>3, <1>7, <2>1, <2>2 DEF Firings
<1>10. Permit(c) \in ClaimedPermits \cup OrphanedPermits
  BY <1>3 DEF ClaimedPermits, OrphanedPermits
<1>11. UNCHANGED <<ClaimedPermits, OrphanedPermits>>
  BY <1>1, SameClaims DEF HasRecord
<1>12. UNCHANGED VerdictOn
  BY <1>1 DEF VerdictOn, HasStatus, Permit
<1> QED
  BY <1>8, <1>9, <1>10, <1>11, <1>12 DEF Promise!Fire

\* Writing a status into the record of c touches neither claims nor firings.
LEMMA VerdictKeepsClaims ==
  ASSUME RInv, NEW c \in Calls, HasRecord(c), NEW s \in ExecutionStatus,
         executions' = [executions EXCEPT ![c].status = s],
         UNCHANGED <<request, wire, generation>>
  PROVE  UNCHANGED <<ClaimedPermits, OrphanedPermits, Firings>>
<1>1. \A d \in Calls : /\ HasRecord(d)' <=> HasRecord(d)
                       /\ executions'[d].generation = executions[d].generation
  BY WriteStatus DEF RInv, IInv, TypeOK, HasRecord, ExecutionStatus
<1> QED
  BY <1>1, SameClaims, SameFirings

LEMMA StartIsHidden ==
  ASSUME RInv, NEW c \in Calls, NEW acked \in Acks, Start(c, acked)
  PROVE  UNCHANGED <<ClaimedPermits, OrphanedPermits, Firings, VerdictOn>>
<1>1. /\ executions' = [executions EXCEPT ![c].status = "executing"]
      /\ UNCHANGED <<request, wire, generation>>
      /\ HasRecord(c)
      /\ executions[c].status = "pending"
  BY DEF Start, InStore, RInv, IInv, CallInv, CallOK
<1>2. UNCHANGED <<ClaimedPermits, OrphanedPermits, Firings>>
  BY <1>1, VerdictKeepsClaims DEF ExecutionStatus
<1>3. \A s \in {"succeeded", "failed"}, d \in Calls :
         executions'[d].status = s <=> executions[d].status = s
  BY <1>1, WriteStatus DEF RInv, IInv, TypeOK, ExecutionStatus
<1>4. \A s \in {"succeeded", "failed"}, p \in Permits : HasStatus(p, s)' <=> HasStatus(p, s)
  BY <1>1, <1>3 DEF HasStatus, Permit
<1> QED
  BY <1>2, <1>4 DEF VerdictOn

\* Recording an outcome on an open record settles the claim.
LEMMA OutcomeSettles ==
  ASSUME RInv, NEW c \in Calls, NEW v \in {"succeeded", "failed"},
         executions' = [executions EXCEPT ![c].status = v],
         UNCHANGED <<request, wire, generation>>,
         InStore(c), executions[c].status = "executing",
         v = "succeeded" => wire[c] = "accepted"
  PROVE  Promise!Settle(Permit(c), v)
<1>1. HasRecord(c) /\ Permit(c) \in Permits /\ UNCHANGED request
  BY DEF RInv, IInv, TypeOK, InStore, Permit
<1> PICK q \in Permits : q = Permit(c)
  BY <1>1
<1>2. \A d \in Calls : Permit(d) = q /\ HasRecord(d) => d = c
  BY <1>1, OneRecordPerPermit DEF RInv
<1>3. /\ executions'[c].status = v
      /\ \A d \in Calls : d # c => executions'[d] = executions[d]
  BY WriteStatus DEF RInv, IInv, TypeOK, ExecutionStatus
<1>4. \A d \in Calls : Permit(d)' = Permit(d)
  BY <1>1 DEF Permit
<1>5. UNCHANGED <<ClaimedPermits, OrphanedPermits, Firings>>
  BY <1>1, VerdictKeepsClaims DEF ExecutionStatus
<1>6. q \in ClaimedPermits
  BY DEF ClaimedPermits
<1>7. VerdictOn[q] = "open"
  <2>1. \A s \in {"succeeded", "failed"} : ~HasStatus(q, s)
    BY <1>2 DEF HasStatus, HasRecord
  <2> QED
    BY <2>1 DEF VerdictOn
<1>8. v = "succeeded" => Firings[q] = 1
  <2>1. SUFFICES ASSUME wire[c] = "accepted" PROVE Firings[q] = 1
    OBVIOUS
  <2>2. \A d \in Calls : Permit(d) = q /\ wire[d] = "accepted" => d = c
    BY <1>1, OneRecordPerPermit DEF RInv
  <2>3. Accepted(q) = {c}
    BY <2>1, <2>2 DEF Accepted
  <2> QED
    BY <2>3, FS_Singleton DEF Firings
<1>9. VerdictOn' = [VerdictOn EXCEPT ![q] = v]
  <2>1. \A s \in {"succeeded", "failed"} : HasStatus(q, s)' <=> s = v
    BY <1>2, <1>3, <1>4 DEF HasStatus, HasRecord
  <2>2. \A s \in {"succeeded", "failed"}, p \in Permits :
           p # q => (HasStatus(p, s)' <=> HasStatus(p, s))
    BY <1>3, <1>4 DEF HasStatus
  <2> QED
    BY <2>1, <2>2 DEF VerdictOn
<1> QED
  BY <1>5, <1>6, <1>7, <1>8, <1>9 DEF Promise!Settle

LEMMA ResetWipes ==
  ASSUME RInv, Reset
  PROVE  Promise!Wipe
<1>1. UNCHANGED <<request, wire, executions>> /\ generation' = generation + 1
  BY DEF Reset, handlerVars
<1>2. generation \in Nat /\ \A d \in Calls : executions[d].generation \in Nat
  BY GateAssumption DEF RInv, IInv, TypeOK, Record
<1>3. \A d \in Calls : /\ HasRecord(d)' <=> HasRecord(d)
                       /\ ~InStore(d)'
                       /\ Permit(d)' = Permit(d)
  BY <1>1, <1>2 DEF RInv, IInv, RecordInv, InStore, HasRecord, Permit
<1>4. ClaimedPermits' = {}
  BY <1>3 DEF ClaimedPermits
<1>5. OrphanedPermits' = OrphanedPermits \cup ClaimedPermits
  BY <1>3 DEF OrphanedPermits, ClaimedPermits, InStore
<1>6. UNCHANGED <<Firings, VerdictOn>>
  BY <1>1 DEF Firings, Accepted, VerdictOn, HasStatus, Permit
<1> QED
  BY <1>4, <1>5, <1>6 DEF Promise!Wipe

LEMMA InitPromise == Init => Promise!PromiseInit
<1> SUFFICES ASSUME Init PROVE Promise!PromiseInit
  OBVIOUS
<1>1. \A c \in Calls : executions[c].status = "none" /\ wire[c] = "none"
  BY DEF Init, NoRecord
<1>2. ClaimedPermits = {} /\ OrphanedPermits = {}
  BY <1>1 DEF ClaimedPermits, OrphanedPermits, InStore, HasRecord
<1>3. Firings = [p \in Permits |-> 0]
  BY <1>1, FS_EmptySet DEF Firings, Accepted
<1>4. VerdictOn = [p \in Permits |-> "open"]
  BY <1>1 DEF VerdictOn, HasStatus
<1> QED
  BY <1>2, <1>3, <1>4 DEF Promise!PromiseInit

LEMMA StepPromise ==
  ASSUME RInv, [Next]_vars
  PROVE  [Promise!PromiseNext]_(Promise!promise)
<1> DEFINE Same == UNCHANGED <<ClaimedPermits, OrphanedPermits, Firings, VerdictOn>>
<1>0. \A c \in Calls : Permit(c) \in Permits
  BY DEF RInv, IInv, TypeOK, Permit
<1>1. ASSUME NEW c \in Calls, NEW acked \in Acks, Reserve(c, acked)
      PROVE Promise!PromiseNext
  BY <1>0, <1>1, ReserveClaims DEF Promise!PromiseNext
<1>2. ASSUME NEW c \in Calls, NEW acked \in Acks, Start(c, acked) PROVE Same
  BY <1>2, StartIsHidden
<1>3. ASSUME NEW c \in Calls, NEW acked \in Acks, RecordSuccess(c, acked)
      PROVE Promise!PromiseNext
  <2>1. /\ executions' = [executions EXCEPT ![c].status = "succeeded"]
        /\ UNCHANGED <<request, wire, generation>>
        /\ InStore(c) /\ executions[c].status = "executing" /\ wire[c] = "accepted"
    BY <1>3 DEF RecordSuccess, RInv, IInv, CallInv, CallOK
  <2>2. Promise!Settle(Permit(c), "succeeded")
    BY <2>1, OutcomeSettles
  <2> QED
    BY <1>0, <2>2 DEF Promise!PromiseNext, Promise!Verdicts
<1>4. ASSUME NEW c \in Calls, NEW acked \in Acks, RecordFailure(c, acked)
      PROVE Promise!PromiseNext
  <2>1. /\ executions' = [executions EXCEPT ![c].status = "failed"]
        /\ UNCHANGED <<request, wire, generation>>
        /\ InStore(c) /\ executions[c].status = "executing"
    BY <1>4 DEF RecordFailure, RInv, NoVerdictYet
  <2>2. Promise!Settle(Permit(c), "failed")
    BY <2>1, OutcomeSettles
  <2> QED
    BY <1>0, <2>2 DEF Promise!PromiseNext, Promise!Verdicts
<1>5. ASSUME NEW c \in Calls, GitHubAccepts(c) PROVE Promise!PromiseNext
  BY <1>0, <1>5, AcceptanceFires DEF Promise!PromiseNext
<1>6. ASSUME NEW c \in Calls, Dispatch(c) \/ GitHubRefuses(c) PROVE Same
  <2>1. UNCHANGED <<request, executions, generation>>
    BY <1>6 DEF Dispatch, GitHubRefuses, storeVars
  <2>2. \A d \in Calls : wire'[d] = "accepted" <=> wire[d] = "accepted"
    BY <1>6 DEF Dispatch, GitHubRefuses, RInv, IInv, TypeOK, CallInv, CallOK
  <2>3. UNCHANGED Firings
    BY <2>1, <2>2 DEF Firings, Accepted, Permit
  <2>4. UNCHANGED <<ClaimedPermits, OrphanedPermits, VerdictOn>>
    BY <2>1 DEF ClaimedPermits, OrphanedPermits, VerdictOn, HasStatus, InStore,
       HasRecord, Permit
  <2> QED
    BY <2>3, <2>4
<1>7. ASSUME Reset PROVE Promise!PromiseNext
  BY <1>7, ResetWipes DEF Promise!PromiseNext
<1>8. ASSUME UNCHANGED <<request, wire, executions, generation>> PROVE Same
  BY <1>8, SameView
<1>9. ASSUME NEW c \in Calls,
             \/ Receive(c) \/ ReplayRecord(c) \/ RejectKey(c) \/ RejectPermit(c)
             \/ RejectConsumed(c) \/ DispatchReturns(c) \/ DispatchThrows(c)
             \/ UpdateThrows(c)
      PROVE Same
  BY <1>8, <1>9 DEF Receive, ReplayRecord, RejectKey, RejectPermit, RejectConsumed,
     DispatchReturns, DispatchThrows, UpdateThrows, storeVars
<1>10. ASSUME NEW p \in Permits, IssuePermit(p) \/ PermitExpires(p) PROVE Same
  BY <1>8, <1>10 DEF IssuePermit, PermitExpires, handlerVars
<1>11. ASSUME SelectScenario \/ SelectNetwork \/ Crash PROVE Same
  BY <1>8, <1>11 DEF SelectScenario, SelectNetwork, Crash, handlerVars, storeVars
<1>12. ASSUME UNCHANGED vars PROVE Same
  BY <1>8, <1>12 DEF vars, handlerVars, storeVars
<1>13. Promise!PromiseNext \/ Same
  BY <1>1, <1>2, <1>3, <1>4, <1>5, <1>6, <1>7, <1>9, <1>10, <1>11, <1>12
     DEF Next, Handler
<1> QED
  BY <1>13 DEF Promise!promise

\* The handler, with all its retries, races, crashes and resets, is a one-time
\* permit.
THEOREM GateImplementsOneTimePermit ==
  ASSUME ~AckMayBeLost
  PROVE  Spec => ImplementsOneTimePermit
<1>1. RInv /\ [Next]_vars => [Promise!PromiseNext]_(Promise!promise)
  BY StepPromise
<1> QED
  BY RefinementInvariant, InitPromise, <1>1, PTL
     DEF Spec, ImplementsOneTimePermit, Promise!PromiseSpec
=============================================================================
