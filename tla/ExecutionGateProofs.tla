------------------------ MODULE ExecutionGateProofs ------------------------
(***************************************************************************)
(* Proofs about ExecutionGate for every set of calls, keys, permits and    *)
(* deployments, every binding of permits to nonces, every bound on resets  *)
(* and with all of the failures the specification knows.                   *)
(*                                                                         *)
(* CallInv ties the place where a handler is suspended to the record and   *)
(* the dispatch request it left behind; RecordInv says that the records of *)
(* one database exclude each other and that a permit whose record a reset  *)
(* erased can never pass executionDispatch again.  Neither is inductive    *)
(* without the other.                                                      *)
(***************************************************************************)
EXTENDS ExecutionGate, TLAPS

\* Where a handler is determines the status of its record.
CallOK(c) ==
    /\ phase[c] \in {"idle", "admitted"} => executions[c].status = "none"
    /\ phase[c] = "reserved" => executions[c].status = "pending"
    /\ phase[c] \in {"started", "dispatching", "dispatched"} =>
            executions[c].status = "executing"
    /\ phase[c] = "failing" => executions[c].status \in {"executing", "succeeded"}
    /\ phase[c] \in {"idle", "admitted", "reserved", "started"} => wire[c] = "none"
    /\ phase[c] = "dispatched" => wire[c] = "accepted"
    /\ wire[c] # "none" => executions[c].status \in {"executing", "succeeded", "failed"}
    /\ executions[c].status = "succeeded" => wire[c] = "accepted"
    /\ phase[c] # "replied" => reply[c] = "none" /\ answer[c] = NoCall
    /\ reply[c] = "CREATED" => executions[c].status = "succeeded"
    /\ reply[c] = "EXECUTION_FAILED" => executions[c].status = "failed"

CallInv == \A c \in Calls : CallOK(c)

\* Records exclude each other, and a reset retires the permits it erases.
RecordInv ==
    /\ \A c \in Calls : HasRecord(c) =>
          /\ executions[c].generation <= generation
          /\ executions[c].generation < generation => standing[Permit(c)] = "erased"
          /\ executions[c].generation = generation =>
                standing[Permit(c)] \in {"valid", "expired"}
    /\ \A c, d \in Calls :
          HasRecord(c) /\ HasRecord(d) /\ c # d =>
             /\ Permit(c) # Permit(d)
             /\ executions[c].generation = executions[d].generation =>
                   Key(c) # Key(d) /\ Nonce(c) # Nonce(d)

\* The record named in an answer exists and matches the request.
AnswerInv ==
    \A c \in Calls : answer[c] # NoCall =>
        /\ HasRecord(answer[c])
        /\ Key(answer[c]) = Key(c)
        /\ Permit(answer[c]) = Permit(c)

IInv == TypeOK /\ CallInv /\ RecordInv /\ AnswerInv

-----------------------------------------------------------------------------
(* Type correctness.                                                       *)

LEMMA InitType == Init => TypeOK
  BY GateAssumption DEF Init, TypeOK, Phases, Replies, Refusals, Record, NoRecord,
     ExecutionStatus

\* Writing a status into a record leaves it a record of the same generation.
LEMMA WriteStatusType ==
  ASSUME executions \in [Calls -> Record],
         NEW c \in Calls, NEW s \in ExecutionStatus
  PROVE  [executions EXCEPT ![c].status = s] \in [Calls -> Record]
  BY DEF Record

LEMMA StepType == TypeOK /\ [Next]_vars => TypeOK'
<1> SUFFICES ASSUME TypeOK, [Next]_vars PROVE TypeOK'
  OBVIOUS
<1> USE GateAssumption DEF TypeOK, Phases, Replies, Refusals, Record, NoRecord,
       ExecutionStatus, handlerVars, storeVars
<1>1. ASSUME NEW c \in Calls, Receive(c) PROVE TypeOK'
  BY <1>1 DEF Receive
<1>2. ASSUME NEW c \in Calls, ReplayRecord(c) PROVE TypeOK'
  BY <1>2 DEF ReplayRecord, Answered, PriorKey
<1>3. ASSUME NEW c \in Calls, RejectKey(c) \/ RejectPermit(c) \/ RejectConsumed(c)
      PROVE TypeOK'
  <2>1. CASE RejectKey(c)
    BY <2>1 DEF RejectKey, Answered
  <2>2. CASE RejectPermit(c)
    BY <2>2 DEF RejectPermit, Answered
  <2>3. CASE RejectConsumed(c)
    BY <2>3 DEF RejectConsumed, Answered
  <2> QED
    BY <1>3, <2>1, <2>2, <2>3
<1>4. ASSUME NEW c \in Calls, NEW acked \in Acks, Reserve(c, acked) PROVE TypeOK'
  BY <1>4 DEF Reserve, Throws, Answered
<1>5. ASSUME NEW c \in Calls, NEW acked \in Acks, Start(c, acked) PROVE TypeOK'
  <2>1. executions' \in [Calls -> Record]
    BY <1>5, WriteStatusType DEF Start
  <2>2. phase' \in [Calls -> Phases] /\ reply' \in [Calls -> Replies]
    BY <1>5 DEF Start, Throws, Answered
  <2>3. answer' \in [Calls -> Calls \cup {NoCall}]
    BY <1>5 DEF Start
  <2> QED
    BY <1>5, <2>1, <2>2, <2>3 DEF Start
<1>6. ASSUME NEW c \in Calls, Dispatch(c) \/ DispatchReturns(c) \/ DispatchThrows(c)
      PROVE TypeOK'
  BY <1>6 DEF Dispatch, DispatchReturns, DispatchThrows
<1>7. ASSUME NEW c \in Calls, NEW acked \in Acks, RecordSuccess(c, acked) PROVE TypeOK'
  <2>1. executions' \in [Calls -> Record]
    BY <1>7, WriteStatusType DEF RecordSuccess
  <2>2. phase' \in [Calls -> Phases] /\ reply' \in [Calls -> Replies]
    BY <1>7 DEF RecordSuccess, Throws, Answered
  <2>3. answer' \in [Calls -> Calls \cup {NoCall}]
    BY <1>7 DEF RecordSuccess
  <2> QED
    BY <1>7, <2>1, <2>2, <2>3 DEF RecordSuccess
<1>8. ASSUME NEW c \in Calls, NEW acked \in Acks, RecordFailure(c, acked) PROVE TypeOK'
  <2>1. executions' \in [Calls -> Record]
    BY <1>8, WriteStatusType DEF RecordFailure
  <2>2. phase' \in [Calls -> Phases] /\ reply' \in [Calls -> Replies]
    BY <1>8 DEF RecordFailure, Throws, Answered
  <2>3. answer' \in [Calls -> Calls \cup {NoCall}]
    BY <1>8 DEF RecordFailure
  <2> QED
    BY <1>8, <2>1, <2>2, <2>3 DEF RecordFailure
<1>9. ASSUME NEW c \in Calls, UpdateThrows(c) PROVE TypeOK'
  BY <1>9 DEF UpdateThrows, Throws, Answered
<1>10. ASSUME NEW c \in Calls, GitHubAccepts(c) \/ GitHubRefuses(c) PROVE TypeOK'
  BY <1>10 DEF GitHubAccepts, GitHubRefuses
<1>11. ASSUME NEW p \in Permits, IssuePermit(p) \/ PermitExpires(p) PROVE TypeOK'
  BY <1>11 DEF IssuePermit, PermitExpires
<1>12. CASE SelectScenario \/ SelectNetwork
  BY <1>12 DEF SelectScenario, SelectNetwork
<1>13. CASE Reset
  BY <1>13 DEF Reset
<1>14. CASE Crash
  BY <1>14 DEF Crash
<1>15. CASE UNCHANGED vars
  BY <1>15 DEF vars
<1> QED
  BY <1>1, <1>2, <1>3, <1>4, <1>5, <1>6, <1>7, <1>8, <1>9, <1>10, <1>11, <1>12,
     <1>13, <1>14, <1>15 DEF Next, Handler

\* The gate's state is well-typed in every reachable state.
THEOREM GateTypeCorrect == Spec => []TypeOK
  BY InitType, StepType, PTL DEF Spec

-----------------------------------------------------------------------------
(* A handler's place and its record.                                       *)

\* The effect of writing a status into the record of c.
LEMMA WriteStatus ==
  ASSUME executions \in [Calls -> Record],
         NEW c \in Calls, NEW s \in ExecutionStatus,
         executions' = [executions EXCEPT ![c].status = s]
  PROVE  /\ executions'[c].status = s
         /\ \A d \in Calls : executions'[d].generation = executions[d].generation
         /\ \A d \in Calls : d # c => executions'[d] = executions[d]
  BY DEF Record

LEMMA StepCall == TypeOK /\ CallInv /\ [Next]_vars => CallInv'
<1> SUFFICES ASSUME TypeOK, CallInv, [Next]_vars, NEW d \in Calls PROVE CallOK(d)'
  BY DEF CallInv
<1>0. CallOK(d)
  BY DEF CallInv
<1> USE GateAssumption, <1>0 DEF TypeOK, CallOK, handlerVars, storeVars
<1>1. ASSUME NEW c \in Calls, Receive(c) PROVE CallOK(d)'
  BY <1>1 DEF Receive
<1>2. ASSUME NEW c \in Calls, ReplayRecord(c) PROVE CallOK(d)'
  BY <1>2 DEF ReplayRecord, Answered
<1>3. ASSUME NEW c \in Calls, RejectKey(c) PROVE CallOK(d)'
  BY <1>3 DEF RejectKey, Answered
<1>4. ASSUME NEW c \in Calls, RejectPermit(c) PROVE CallOK(d)'
  BY <1>4 DEF RejectPermit, Answered, Refusals
<1>5. ASSUME NEW c \in Calls, RejectConsumed(c) PROVE CallOK(d)'
  BY <1>5 DEF RejectConsumed, Answered
<1>6. ASSUME NEW c \in Calls, NEW acked \in Acks, Reserve(c, acked) PROVE CallOK(d)'
  BY <1>6 DEF Reserve, Throws, Answered
<1>7. ASSUME NEW c \in Calls, NEW acked \in Acks, Start(c, acked) PROVE CallOK(d)'
  BY <1>7, WriteStatus DEF Start, Throws, Answered, ExecutionStatus
<1>8. ASSUME NEW c \in Calls, Dispatch(c) PROVE CallOK(d)'
  BY <1>8 DEF Dispatch
<1>9. ASSUME NEW c \in Calls, DispatchReturns(c) \/ DispatchThrows(c) PROVE CallOK(d)'
  BY <1>9 DEF DispatchReturns, DispatchThrows
<1>10. ASSUME NEW c \in Calls, NEW acked \in Acks, RecordSuccess(c, acked)
       PROVE CallOK(d)'
  BY <1>10, WriteStatus DEF RecordSuccess, Throws, Answered, ExecutionStatus
<1>11. ASSUME NEW c \in Calls, NEW acked \in Acks, RecordFailure(c, acked)
       PROVE CallOK(d)'
  BY <1>11, WriteStatus DEF RecordFailure, Throws, Answered, ExecutionStatus
<1>12. ASSUME NEW c \in Calls, UpdateThrows(c) PROVE CallOK(d)'
  BY <1>12 DEF UpdateThrows, Throws, Answered
<1>13. ASSUME NEW c \in Calls, GitHubAccepts(c) \/ GitHubRefuses(c) PROVE CallOK(d)'
  BY <1>13 DEF GitHubAccepts, GitHubRefuses
<1>14. ASSUME NEW p \in Permits, IssuePermit(p) \/ PermitExpires(p) PROVE CallOK(d)'
  BY <1>14 DEF IssuePermit, PermitExpires
<1>15. CASE SelectScenario \/ SelectNetwork \/ Reset
  BY <1>15 DEF SelectScenario, SelectNetwork, Reset
<1>16. CASE Crash
  BY <1>16 DEF Crash
<1>17. CASE UNCHANGED vars
  BY <1>17 DEF vars
<1> QED
  BY <1>1, <1>2, <1>3, <1>4, <1>5, <1>6, <1>7, <1>8, <1>9, <1>10, <1>11, <1>12,
     <1>13, <1>14, <1>15, <1>16, <1>17 DEF Next, Handler

-----------------------------------------------------------------------------
(* Exclusion of records.                                                   *)

\* A step that inserts no record and erases no permit keeps the exclusion.
LEMMA SameRecords ==
  ASSUME RecordInv, UNCHANGED <<request, generation, standing>>,
         \A c \in Calls : /\ HasRecord(c)' => HasRecord(c)
                          /\ executions'[c].generation = executions[c].generation
  PROVE  RecordInv'
  BY DEF RecordInv, Permit, Key, Nonce

LEMMA StepRecord == TypeOK /\ CallInv /\ RecordInv /\ [Next]_vars => RecordInv'
<1> SUFFICES ASSUME TypeOK, CallInv, RecordInv, [Next]_vars PROVE RecordInv'
  OBVIOUS
<1>1. ASSUME NEW c \in Calls, NEW acked \in Acks, Reserve(c, acked) PROVE RecordInv'
  <2> DEFINE new == [status |-> "pending", generation |-> generation]
  <2>1. /\ executions' = [executions EXCEPT ![c] = new]
        /\ UNCHANGED <<request, generation, standing>>
    BY <1>1 DEF Reserve
  <2>2. executions'[c] = new /\ \A d \in Calls : d # c => executions'[d] = executions[d]
    BY <2>1 DEF TypeOK
  <2>3. generation \in Nat /\ \A d \in Calls : executions[d].generation \in Nat
    BY GateAssumption DEF TypeOK, Record
  <2>4. standing[Permit(c)] = "valid"
    BY <1>1 DEF Reserve, Dispatchable
  <2>5. \A d \in Calls : InStore(d) =>
           Key(d) # Key(c) /\ Permit(d) # Permit(c) /\ Nonce(d) # Nonce(c)
    BY <1>1 DEF Reserve, PriorKey, Consuming
  <2>6. \A d \in Calls : HasRecord(d) => Permit(d) # Permit(c)
    BY <2>3, <2>4, <2>5 DEF RecordInv, InStore
  <2>7. \A d \in Calls : HasRecord(d) /\ executions[d].generation = generation =>
           Key(d) # Key(c) /\ Nonce(d) # Nonce(c)
    BY <2>5 DEF InStore
  <2>8. \A d \in Calls : HasRecord(d)' /\ d # c => HasRecord(d)
    BY <2>2 DEF HasRecord
  <2>9. \A d \in Calls : HasRecord(d)' =>
          /\ executions'[d].generation <= generation
          /\ executions'[d].generation < generation => standing[Permit(d)] = "erased"
          /\ executions'[d].generation = generation =>
                standing[Permit(d)] \in {"valid", "expired"}
    BY <2>2, <2>3, <2>4, <2>8 DEF RecordInv
  <2>10. \A d, e \in Calls : HasRecord(d)' /\ HasRecord(e)' /\ d # e =>
          /\ Permit(d) # Permit(e)
          /\ executions'[d].generation = executions'[e].generation =>
                Key(d) # Key(e) /\ Nonce(d) # Nonce(e)
    BY <2>2, <2>6, <2>7, <2>8 DEF RecordInv
  <2> QED
    BY <2>1, <2>9, <2>10 DEF RecordInv, Permit, Key, Nonce
<1>2. ASSUME NEW c \in Calls, NEW acked \in Acks,
             Start(c, acked) \/ RecordSuccess(c, acked) \/ RecordFailure(c, acked)
      PROVE RecordInv'
  <2>1. PICK s \in ExecutionStatus : executions' = [executions EXCEPT ![c].status = s]
    BY <1>2 DEF Start, RecordSuccess, RecordFailure, ExecutionStatus
  <2>2. HasRecord(c)
    BY <1>2 DEF Start, RecordSuccess, RecordFailure, InStore
  <2>3. \A d \in Calls : /\ HasRecord(d)' => HasRecord(d)
                         /\ executions'[d].generation = executions[d].generation
    BY <2>1, <2>2, WriteStatus DEF TypeOK, HasRecord
  <2>4. UNCHANGED <<request, generation, standing>>
    BY <1>2 DEF Start, RecordSuccess, RecordFailure
  <2> QED
    BY <2>3, <2>4, SameRecords
<1>3. ASSUME UNCHANGED <<request, executions, generation, standing>> PROVE RecordInv'
  BY <1>3 DEF RecordInv, HasRecord, Permit, Key, Nonce
<1>4. ASSUME NEW c \in Calls,
             \/ Receive(c) \/ ReplayRecord(c) \/ RejectKey(c) \/ RejectPermit(c)
             \/ RejectConsumed(c) \/ Dispatch(c) \/ DispatchReturns(c)
             \/ DispatchThrows(c) \/ UpdateThrows(c)
             \/ GitHubAccepts(c) \/ GitHubRefuses(c)
      PROVE RecordInv'
  BY <1>3, <1>4 DEF Receive, ReplayRecord, RejectKey, RejectPermit, RejectConsumed,
     Dispatch, DispatchReturns, DispatchThrows, UpdateThrows, GitHubAccepts,
     GitHubRefuses, storeVars
<1>5. ASSUME NEW p \in Permits, IssuePermit(p) \/ PermitExpires(p) PROVE RecordInv'
  <2>1. UNCHANGED <<request, executions, generation>>
    BY <1>5 DEF IssuePermit, PermitExpires, handlerVars
  <2>2. \A q \in Permits :
          /\ standing[q] = "erased" => standing'[q] = "erased"
          /\ standing[q] \in {"valid", "expired"} => standing'[q] \in {"valid", "expired"}
    BY <1>5 DEF IssuePermit, PermitExpires, TypeOK
  <2>3. \A c \in Calls : Permit(c) \in Permits
    BY DEF TypeOK, Permit
  <2> QED
    BY <2>1, <2>2, <2>3 DEF RecordInv, HasRecord, Permit, Key, Nonce
<1>6. CASE SelectScenario \/ SelectNetwork \/ Crash
  BY <1>3, <1>6 DEF SelectScenario, SelectNetwork, Crash, handlerVars, storeVars
<1>7. CASE Reset
  <2>1. /\ UNCHANGED <<request, executions>>
        /\ generation' = generation + 1
        /\ \A p \in Permits : standing[p] # "absent" => standing'[p] = "erased"
    BY <1>7 DEF Reset, handlerVars
  <2>2. generation \in Nat /\ \A d \in Calls : executions[d].generation \in Nat
    BY GateAssumption DEF TypeOK, Record
  <2>3. \A c \in Calls : Permit(c) \in Permits
    BY DEF TypeOK, Permit
  <2>4. \A c \in Calls : HasRecord(c) =>
          /\ executions[c].generation < generation'
          /\ standing'[Permit(c)] = "erased"
    BY <2>1, <2>2, <2>3 DEF RecordInv
  <2> QED
    BY <2>1, <2>2, <2>4 DEF RecordInv, HasRecord, Permit, Key, Nonce
<1>8. CASE UNCHANGED vars
  BY <1>3, <1>8 DEF vars, handlerVars, storeVars
<1> QED
  BY <1>1, <1>2, <1>4, <1>5, <1>6, <1>7, <1>8 DEF Next, Handler

-----------------------------------------------------------------------------
(* Answers.                                                                *)

\* A step that keeps every record and answers nobody keeps the answers right.
LEMMA SameAnswers ==
  ASSUME TypeOK, AnswerInv, UNCHANGED <<request, answer>>,
         \A c \in Calls : HasRecord(c) => HasRecord(c)'
  PROVE  AnswerInv'
  BY DEF TypeOK, AnswerInv, Permit, Key

LEMMA StepAnswer == TypeOK /\ CallInv /\ AnswerInv /\ [Next]_vars => AnswerInv'
<1> SUFFICES ASSUME TypeOK, CallInv, AnswerInv, [Next]_vars PROVE AnswerInv'
  OBVIOUS
<1>1. ASSUME NEW c \in Calls, ReplayRecord(c) PROVE AnswerInv'
  <2>1. PICK d \in Calls : /\ InStore(d) /\ Key(d) = Key(c) /\ Permit(d) = Permit(c)
                           /\ answer' = [answer EXCEPT ![c] = d]
    BY <1>1 DEF ReplayRecord, PriorKey
  <2>2. UNCHANGED <<request, executions>>
    BY <1>1 DEF ReplayRecord, storeVars
  <2> QED
    BY <2>1, <2>2 DEF TypeOK, AnswerInv, InStore, HasRecord, Key, Permit
<1>2. ASSUME NEW c \in Calls, NEW acked \in Acks, Reserve(c, acked) PROVE AnswerInv'
  <2>1. UNCHANGED <<request, answer>>
    BY <1>2 DEF Reserve
  <2>2. \A d \in Calls : HasRecord(d) => HasRecord(d)'
    BY <1>2 DEF Reserve, TypeOK, HasRecord
  <2> QED
    BY <2>1, <2>2, SameAnswers
<1>3. ASSUME NEW c \in Calls, NEW acked \in Acks,
             Start(c, acked) \/ RecordSuccess(c, acked) \/ RecordFailure(c, acked)
      PROVE AnswerInv'
  <2>1. PICK s \in ExecutionStatus : executions' = [executions EXCEPT ![c].status = s]
    BY <1>3 DEF Start, RecordSuccess, RecordFailure, ExecutionStatus
  <2>2. \A d \in Calls : HasRecord(d) => HasRecord(d)'
    BY <2>1, WriteStatus DEF TypeOK, HasRecord, ExecutionStatus
  <2>3. UNCHANGED request
    BY <1>3 DEF Start, RecordSuccess, RecordFailure
  <2>4. HasRecord(c)
    BY <1>3 DEF Start, RecordSuccess, RecordFailure, InStore
  <2>5. answer' = answer \/ answer' = [answer EXCEPT ![c] = c]
    BY <1>3 DEF Start, RecordSuccess, RecordFailure
  <2> QED
    BY <2>2, <2>3, <2>4, <2>5 DEF TypeOK, AnswerInv, Key, Permit
<1>4. ASSUME UNCHANGED <<request, answer, executions>> PROVE AnswerInv'
  BY <1>4, SameAnswers DEF HasRecord
<1>5. ASSUME NEW c \in Calls,
             \/ Receive(c) \/ RejectKey(c) \/ RejectPermit(c)
             \/ RejectConsumed(c) \/ Dispatch(c) \/ DispatchReturns(c)
             \/ DispatchThrows(c) \/ UpdateThrows(c)
             \/ GitHubAccepts(c) \/ GitHubRefuses(c)
      PROVE AnswerInv'
  BY <1>4, <1>5 DEF Receive, RejectKey, RejectPermit, RejectConsumed,
     Dispatch, DispatchReturns, DispatchThrows, UpdateThrows, GitHubAccepts,
     GitHubRefuses, storeVars
<1>6. ASSUME NEW p \in Permits, IssuePermit(p) \/ PermitExpires(p) PROVE AnswerInv'
  BY <1>4, <1>6 DEF IssuePermit, PermitExpires, handlerVars
<1>7. CASE SelectScenario \/ SelectNetwork \/ Crash \/ Reset
  BY <1>4, <1>7 DEF SelectScenario, SelectNetwork, Crash, Reset, handlerVars, storeVars
<1>8. CASE UNCHANGED vars
  BY <1>4, <1>8 DEF vars, handlerVars, storeVars
<1> QED
  BY <1>1, <1>2, <1>3, <1>5, <1>6, <1>7, <1>8 DEF Next, Handler

-----------------------------------------------------------------------------
(* The inductive invariant and what follows from it.                       *)

LEMMA InitInv == Init => IInv
<1> SUFFICES ASSUME Init PROVE IInv
  OBVIOUS
<1>1. TypeOK
  BY InitType
<1>2. \A c \in Calls : executions[c] = NoRecord /\ answer[c] = NoCall
  BY DEF Init
<1>3. CallInv
  BY DEF Init, CallInv, CallOK, NoRecord
<1> QED
  BY <1>1, <1>2, <1>3 DEF IInv, RecordInv, AnswerInv, HasRecord, NoRecord

THEOREM GateInvariant == Spec => []IInv
<1>1. IInv /\ [Next]_vars => IInv'
  BY StepType, StepCall, StepRecord, StepAnswer DEF IInv
<1> QED
  BY InitInv, <1>1, PTL DEF Spec

\* At most one dispatch per permit: both accepted dispatches would have a record
\* for the permit, and RecordInv allows one, also across resets.
THEOREM GateOneEffectPerPermit == Spec => []OneEffectPerPermit
<1>1. IInv => OneEffectPerPermit
  BY DEF IInv, CallInv, CallOK, RecordInv, OneEffectPerPermit, HasRecord
<1> QED
  BY GateInvariant, <1>1, PTL

\* At most one dispatch per action nonce between two resets.
THEOREM GateOneEffectPerNonce == Spec => []OneEffectPerNonce
<1>1. IInv => OneEffectPerNonce
  BY DEF IInv, CallInv, CallOK, RecordInv, OneEffectPerNonce, HasRecord
<1> QED
  BY GateInvariant, <1>1, PTL

\* The find calls of the reservation have at most one record to find.
THEOREM GateReservationsDisjoint == Spec => []ReservationsDisjoint
<1>1. IInv => ReservationsDisjoint
  BY DEF IInv, RecordInv, ReservationsDisjoint, InStore
<1> QED
  BY GateInvariant, <1>1, PTL

\* A record that a crash left pending had no effect.
THEOREM GatePendingHasNoEffect == Spec => []PendingHasNoEffect
<1>1. IInv => PendingHasNoEffect
  BY DEF IInv, TypeOK, CallInv, CallOK, PendingHasNoEffect
<1> QED
  BY GateInvariant, <1>1, PTL

\* 201 and 502 say what is stored.
THEOREM GateAnswersAreTruthful == Spec => []AnswersAreTruthful
<1>1. IInv => AnswersAreTruthful
  BY DEF IInv, CallInv, CallOK, AnswersAreTruthful
<1> QED
  BY GateInvariant, <1>1, PTL

\* All answers to one key name one record.
THEOREM GateReplayIsSameRecord == Spec => []ReplayIsSameRecord
<1>1. ASSUME IInv PROVE ReplayIsSameRecord
  <2>1. \A c \in Calls : answer[c] # NoCall => answer[c] \in Calls
    BY <1>1 DEF IInv, TypeOK
  <2> QED
    BY <1>1, <2>1 DEF IInv, AnswerInv, RecordInv, ReplayIsSameRecord
<1> QED
  BY GateInvariant, <1>1, PTL
=============================================================================
