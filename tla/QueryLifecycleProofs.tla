------------------------ MODULE QueryLifecycleProofs ------------------------
(***************************************************************************)
(* The attempts of the query handlers, for any number of requests, HTTP    *)
(* sessions, chats and workers and under every fault: type correctness, no *)
(* active attempt that was not executed, and no attempt that moves back.   *)
(*                                                                         *)
(* None of these is inductive by itself.  That an active attempt has been  *)
(* executed depends on who wrote its record and where that request is now; *)
(* AttemptInv says both.                                                   *)
(***************************************************************************)
EXTENDS QueryControlProofs, QueryLifecycle

(* The inductive invariant of the attempts.  The attempt that a retry or   *)
(* an accept was called with belongs to the same HTTP session and its      *)
(* request is over.  The active attempt of an HTTP session was made by one *)
(* of its requests, and if its record is not an executed one then a        *)
(* request is about to drop it (or died before it could).                  *)
PriorOK(q) ==
    /\ Prior(q) # None => Http[Prior(q)] = Http[q] /\ pc[Prior(q)] \in Over
    /\ frame[q].tmo \in {None, q, Prior(q)}
    /\ pc[q] = "start" => frame[q].tmo = None

PriorsOK == \A q \in Requests : PriorOK(q)

ActiveOK ==
    \A h \in HttpSessions : active[h] # None =>
        /\ Http[active[h]] = h
        /\ pc[active[h]] \in PostActive
        /\ attempt[active[h]] # None /\ attempt[active[h]].state # "EXECUTED" =>
              \E q \in Requests : Http[q] = h /\ pc[q] \in {"t_active", "crashed"}

AttemptInv == TypeOK /\ RequestsOK /\ PriorsOK /\ ActiveOK

(* A step of request r, whatever its kind. *)
Alike(f, g) ==
    /\ f.chat = g.chat /\ f.prior = g.prior /\ f.state = g.state
    /\ f.trk = g.trk /\ f.tmo = g.tmo /\ f.late = g.late

RequestStep(r) ==
    /\ Goes(r, Labels)
    /\ frame' \in [Requests -> Frames]
    /\ \A q \in Requests \ {r} : Alike(frame'[q], frame[q])
    /\ pc[r] # "crashed"
    /\ pc[r] \in PostActive => pc'[r] \in PostActive
    /\ pc[r] \in Over => pc'[r] \in Over
    /\ RequestOK(r)'
    /\ PriorOK(r)'

(* The steps outside the try block: the lock, the finally clause, the end  *)
(* of the transaction, accept_query and delete_session.                    *)
FramesAlike ==
    /\ frame' \in [Requests -> Frames]
    /\ \A q \in Requests : Alike(frame'[q], frame[q])

Outer == PlainPc \cup AcceptPc \cup DeletePc

Before == {"reserved", "prepare", "load_active"}

OuterAction(r) ==
    \/ AcquireLockBegin(r) \/ AcquireLock(r) \/ OpenAttempt(r)
    \/ ClearQueryOperation(r) \/ ClearQueryOperationFails(r) \/ ReleaseLockIfOwned(r)
    \/ CommitOrRollback(r) \/ AcceptStep(r) \/ DeleteStep(r)

(* The two halves of TypeOK that are not about the control state. *)
KeysTyped ==
    /\ lock \in [HttpSessions -> Maybe(Requests)]
    /\ op \in [Chats -> Maybe(Requests)]
    /\ tracked \in [Chats -> SUBSET Requests]
    /\ marker \in [Chats -> Maybe(Requests)]
    /\ acceptLock \in [Requests -> BOOLEAN]
    /\ inflight \in [Workers \X HttpSessions -> Maybe(Requests)]

RowsTyped ==
    /\ sessions \subseteq Chats
    /\ saved \in [Requests -> Maybe(Rows)]
    /\ txn \in [Requests -> Txns]

(* A step of a request is local, writes its keys, or is outside the try block. *)
LEMMA StepCases ==
  ASSUME NEW r \in Requests, Step(r) \/ Interrupt(r)
  PROVE  LocalAction(r) \/ KeyAction(r) \/ OuterAction(r)
  BY Zenon DEF Step, Interrupt, QueryStep, LocalAction, KeyAction, OuterAction

(* The steps of a query between taking the lock and the finally clause leave *)
(* the keys of others alone, the operation key too unless they register.     *)
LEMMA QueryMoves ==
  ASSUME QueryAssumption, TypeOK, NEW r \in Requests, RequestOK(r), LocalAction(r) \/ KeyAction(r)
  PROVE  QueryMove(r)
  <1>1. CASE LocalAction(r)
    BY <1>1, InsideSteps DEF QueryMove, AttemptStep, ActiveStep, TypeOK, redis
  <1>2. CASE KeyAction(r)
    <2>1. UNCHANGED <<lock, marker, acceptLock, inflight, database>> /\ (op' = op \/ RegisterQueryOperation(r))
      BY <1>2, Zenon DEF KeyAction, RegisterQueryOperation, TrackSessionAttempt, StoreAttempt,
        SetActiveAttempt, RetryTrackNew, DeletePrior, DropActive, RejectTrack, RejectStore,
        RejectPrior, HandleCancelledExecution, TimeoutDeletePrior, TimeoutStore, TimeoutDropActive,
        DiscardInvalidatedAttempt
    <2> QED
      BY Zenon, <1>2, <2>1, InsideSteps, KeySteps DEF QueryMove
  <1> QED
    BY Zenon, <1>1, <1>2

(* The transaction of a handler. *)
LEMMA NoTxnType == NoTxn \in Txns
  BY DEF NoTxn, Txns, Maybe

(* Writing a transaction, or a field of it, keeps the type. *)
LEMMA TxnWritten ==
  ASSUME TypeOK, NEW r \in Requests, NEW t \in Txns, txn' = [txn EXCEPT ![r] = t]
  PROVE  txn' \in [Requests -> Txns]
  BY DEF TypeOK

LEMMA TxnUpdates ==
  ASSUME TypeOK, NEW r \in Requests, NEW c \in Maybe(Chats),
         \/ txn' = [txn EXCEPT ![r].updates = c]
         \/ txn' = [txn EXCEPT ![r].creates = c]
  PROVE  txn' \in [Requests -> Txns]
  <1>1. txn \in [Requests -> Txns]
    BY DEF TypeOK
  <1>2. CASE txn' = [txn EXCEPT ![r].updates = c]
    <2> DEFINE t == [txn[r] EXCEPT !.updates = c]
    <2>1. t \in Txns
      BY <1>1, Zenon DEF Txns
    <2>2. txn' = [txn EXCEPT ![r] = t]
      BY <1>2, Zenon
    <2> HIDE DEF t
    <2> QED
      BY Zenon, <2>1, <2>2, TxnWritten
  <1>3. CASE txn' = [txn EXCEPT ![r].creates = c]
    <2> DEFINE t == [txn[r] EXCEPT !.creates = c]
    <2>1. t \in Txns
      BY <1>1, Zenon DEF Txns
    <2>2. txn' = [txn EXCEPT ![r] = t]
      BY <1>3, Zenon
    <2> HIDE DEF t
    <2> QED
      BY Zenon, <2>1, <2>2, TxnWritten
  <1> QED
    BY <1>2, <1>3

(* Only an accept is at a step of accept. *)
LEMMA AcceptOnly ==
  ASSUME QueryAssumption, NEW q \in Requests, NEW l \in AcceptPc, Fits(q, l)
  PROVE  Kind[q] = "accept"
  BY Roles DEF Fits, SubmitLabels, RetryLabels, QueryLabels, DeleteLabels, AcceptPc, DeletePc

(***************************************************************************)
(* What a request writes to its keys, to its transaction and to the        *)
(* platform database has the type of that key or row.                      *)
(***************************************************************************)
LEMMA StepTyped ==
  ASSUME QueryAssumption, TypeOK, NEW r \in Requests, RequestOK(r), Step(r) \/ Interrupt(r)
  PROVE  KeysTyped' /\ RowsTyped'
  <1>TypedAtFirst. TypeOK => KeysTyped /\ RowsTyped
    BY DEF TypeOK, KeysTyped, RowsTyped
  <1>TxnAudits.
    ASSUME txn' = [txn EXCEPT ![r].audit = TRUE]
    PROVE  txn' \in [Requests -> Txns]
    <2> USE <1>TxnAudits
    <2>1. txn \in [Requests -> Txns]
      BY DEF TypeOK
    <2> DEFINE t == [txn[r] EXCEPT !.audit = TRUE]
    <2>2. t \in Txns
      BY <2>1, Zenon DEF Txns
    <2>3. txn' = [txn EXCEPT ![r] = t]
      BY Zenon
    <2> HIDE DEF t
    <2> QED
      BY Zenon, <2>2, <2>3, TxnWritten
  <1>TxnSaves.
    ASSUME NEW q \in Maybe(Requests), NEW c \in Maybe(Chats), NEW v \in Maybe(Rows),
           txn' = [txn EXCEPT ![r].row = q, ![r].refers = c, ![r].value = v]
    PROVE  txn' \in [Requests -> Txns]
    <2> USE <1>TxnSaves
    <2>1. txn \in [Requests -> Txns]
      BY DEF TypeOK
    <2> DEFINE t == [txn[r] EXCEPT !.row = q, !.refers = c, !.value = v]
    <2>2. t \in Txns
      BY <2>1, Zenon DEF Txns
    <2>3. txn' = [txn EXCEPT ![r] = t]
      BY Zenon
    <2> HIDE DEF t
    <2> QED
      BY Zenon, <2>2, <2>3, TxnWritten
  <1>RowType.
    ASSUME NEW a \in Requests, NEW c \in Maybe(Chats)
    PROVE  [attempt |-> a, chat |-> c] \in Maybe(Rows)
    BY <1>RowType, Zenon DEF Rows, Maybe
  <1>ChatType. Chat(r) \in Maybe(Chats)
    BY DEF TypeOK, Frames, Chat
  <1>LocalTxn.
    ASSUME LocalAction(r)
    PROVE  txn' \in [Requests -> Txns]
    <2> USE <1>LocalTxn
    <2>RetrySaveTxn.
      ASSUME RetrySave(r)
      PROVE  txn' \in [Requests -> Txns]
      <3> USE <2>RetrySaveTxn
      <3> DEFINE row == IF RowsOf(Prior(r)) = {} THEN r ELSE CHOOSE q \in RowsOf(Prior(r)) : TRUE
                 chat == IF row = r THEN Chat(r) ELSE saved[row].chat
      <3>1. row \in Requests /\ (row # r => saved[row] # None)
        BY DEF RowsOf
      <3>2. chat \in Maybe(Chats)
        <4>1. saved[row] # None => saved[row] \in Rows
          BY <3>1 DEF TypeOK, Maybe
        <4> HIDE DEF row
        <4> QED
          BY Zenon, <3>1, <4>1, <1>ChatType DEF Rows
      <3>3. \/ UNCHANGED txn
            \/ txn' = [txn EXCEPT ![r].row = row, ![r].refers = Chat(r),
                                  ![r].value = [attempt |-> r, chat |-> chat]]
        BY Zenon DEF RetrySave
      <3> HIDE DEF row, chat
      <3>4. CASE UNCHANGED txn
        BY <3>4 DEF TypeOK
      <3>5. row \in Maybe(Requests)
        BY Zenon, <3>1 DEF Maybe
      <3> QED
        BY Zenon, <3>2, <3>3, <3>4, <3>5, <1>TxnSaves, <1>RowType, <1>ChatType
    <2>1. CASE UNCHANGED txn
      BY <2>1 DEF TypeOK
    <2>2. CASE OpenChatSession(r)
      <3>1. Target[r] \in Maybe(Chats)
        BY DEF Maybe, QueryAssumption
      <3>2. \/ UNCHANGED txn
            \/ txn' = [txn EXCEPT ![r].updates = Target[r]]
            \/ txn' = [txn EXCEPT ![r].creates = Target[r]]
        BY <2>2, Zenon DEF OpenChatSession
      <3> QED
        BY <2>1, <3>1, <3>2, TxnUpdates
    <2>3. CASE LogSubmitAndResolvePolicy(r)
      BY <2>3, <1>TxnAudits, SMTT(30) DEF LogSubmitAndResolvePolicy
    <2>4. CASE SubmitSave(r)
      <3>1. r \in Maybe(Requests)
        BY Zenon DEF Maybe
      <3>2. txn' = [txn EXCEPT ![r].row = r, ![r].refers = Chat(r),
                               ![r].value = [attempt |-> r, chat |-> Chat(r)]]
        BY <2>4 DEF SubmitSave
      <3> QED
        BY Zenon, <3>1, <3>2, <1>TxnSaves, <1>RowType, <1>ChatType
    <2>5. CASE RollbackRequest(r)
      BY Zenon, <2>5, TxnWritten, NoTxnType DEF RollbackRequest
    <2>6. CASE RetrySave(r)
      BY <2>6, <2>RetrySaveTxn
    <2> QED
      BY <2>1, <2>2, <2>3, <2>4, <2>5, <2>6, ZenonT(30) DEF LocalAction, PrepareSubmit, LoadActive, LoadAttempt,
          EnsureSessionActive, LogAuditDurably, SubmitGenerate,
          SubmitEvaluate, SubmitQuota, SubmitExecute, Reply,
          RetryDecide, RetryBound, ConsumeRetryQuota, RetryGenerate, RetryEvaluate, RetryExecute,
          HandleCancelled, DeadlineExpires, StageCancelled, DiscardCutShort
  <1>OperationKeys.
    ASSUME KeyAction(r)
    PROVE  (op' = op \/ RegisterQueryOperation(r)) /\ op' \in [Chats -> Maybe(Requests)]
    <2> USE <1>OperationKeys
    <2>OperationWritten.
      ASSUME NEW c, op' = [op EXCEPT ![c] = r]
      PROVE  op' \in [Chats -> Maybe(Requests)]
      BY Zenon, <2>OperationWritten DEF TypeOK, Maybe
    <2>1. CASE RegisterQueryOperation(r)
      <3>1. op' = op \/ op' = [op EXCEPT ![Chat(r)] = r]
        BY <2>1, Zenon DEF RegisterQueryOperation
      <3>2. op' \in [Chats -> Maybe(Requests)]
        BY Zenon, <3>1, <2>OperationWritten DEF TypeOK
      <3> QED
        BY <2>1, <3>2
    <2>2. CASE ~RegisterQueryOperation(r)
      <3>1. op' = op
        BY <2>2, Zenon DEF KeyAction, TrackSessionAttempt, StoreAttempt,
            SetActiveAttempt, RetryTrackNew, DeletePrior, DropActive, RejectTrack, RejectStore,
            RejectPrior, HandleCancelledExecution, TimeoutDeletePrior, TimeoutStore,
            TimeoutDropActive, DiscardInvalidatedAttempt
      <3> QED
        BY <3>1 DEF TypeOK
    <2> QED
      BY <2>1, <2>2
  <1>TrackedKeys.
    ASSUME KeyAction(r)
    PROVE  tracked' \in [Chats -> SUBSET Requests]
    <2> USE <1>TrackedKeys
    <2>TrackedWritten.
      ASSUME NEW a \in Requests, NEW c, tracked' = [tracked EXCEPT ![c] = @ \cup {a}]
      PROVE  tracked' \in [Chats -> SUBSET Requests]
      BY Zenon, <2>TrackedWritten DEF TypeOK
    <2>UntrackedWritten.
      ASSUME NEW a, NEW c, tracked' = [tracked EXCEPT ![c] = @ \ {a}]
      PROVE  tracked' \in [Chats -> SUBSET Requests]
      BY Zenon, <2>UntrackedWritten DEF TypeOK
    <2>1. CASE UNCHANGED tracked
      BY <2>1 DEF TypeOK
    <2>2. CASE TrackSessionAttempt(r)
      <3>1. IsQuery(r) /\ pc[r] # "start"
        BY Zenon, <2>2, QueryOnly, TryHas, InsideFacts DEF TrackSessionAttempt, At, RequestOK, Locked
      <3>2. OperationAttempt(r) \in Requests
        BY <3>1 DEF RequestOK, OperationAttempt, IsQuery
      <3> QED
        BY Zenon, <2>2, <3>2, <2>TrackedWritten DEF TrackSessionAttempt
    <2>3. CASE RetryTrackNew(r) \/ RejectTrack(r)
      <3>1. tracked' = [tracked EXCEPT ![Chat(r)] = @ \cup {r}]
        BY <2>3, Zenon DEF RetryTrackNew, RejectTrack
      <3> QED
        BY Zenon, <3>1, <2>TrackedWritten
    <2>4. CASE DiscardInvalidatedAttempt(r)
      <3>1. \/ UNCHANGED tracked
            \/ tracked' = [tracked EXCEPT ![Chat(r)] = @ \ {frame[r].trk}]
        BY <2>4, Zenon DEF DiscardInvalidatedAttempt
      <3> QED
        BY Zenon, <2>1, <3>1, <2>UntrackedWritten
    <2> QED
      BY <2>1, <2>2, <2>3, <2>4, Zenon DEF KeyAction, RegisterQueryOperation, StoreAttempt,
          SetActiveAttempt, DeletePrior, DropActive, RejectStore, RejectPrior,
          HandleCancelledExecution, TimeoutDeletePrior, TimeoutStore, TimeoutDropActive
  <1>KeyTxn.
    ASSUME KeyAction(r)
    PROVE  txn' \in [Requests -> Txns]
    <2> USE <1>KeyTxn
    <2>1. CASE DiscardInvalidatedAttempt(r)
      BY Zenon, <2>1, TxnWritten, NoTxnType DEF DiscardInvalidatedAttempt
    <2>2. CASE UNCHANGED txn
      BY <2>2 DEF TypeOK
    <2> QED
      BY <2>1, <2>2, Zenon DEF KeyAction, RegisterQueryOperation, TrackSessionAttempt, StoreAttempt,
        SetActiveAttempt, RetryTrackNew, DeletePrior, DropActive, RejectTrack, RejectStore,
        RejectPrior, HandleCancelledExecution, TimeoutDeletePrior, TimeoutStore, TimeoutDropActive
  <1>KeysQuiet.
    ASSUME KeysTyped, UNCHANGED <<lock, op, tracked, marker, acceptLock, inflight>>
    PROVE  KeysTyped'
    BY <1>KeysQuiet DEF KeysTyped
  <1>RowsQuiet.
    ASSUME RowsTyped, UNCHANGED <<database, txn>>
    PROVE  RowsTyped'
    BY Zenon, <1>RowsQuiet DEF RowsTyped, database
  (* Keys that are set to the request or removed. *)
  <1>LockKeysTyped.
    ASSUME AcquireLockBegin(r) \/ AcquireLock(r) \/ ClearQueryOperation(r) \/ ReleaseLockIfOwned(r)
    PROVE  KeysTyped' /\ RowsTyped'
    <2> USE <1>LockKeysTyped
    <2>0. KeysTyped /\ RowsTyped
      BY Zenon, <1>TypedAtFirst
    <2>1. RowsTyped'
      BY Zenon, <2>0, <1>RowsQuiet DEF AcquireLockBegin, AcquireLock, ClearQueryOperation, ReleaseLockIfOwned
    <2>2. \A v \in {r, None} : v \in Maybe(Requests)
      BY DEF Maybe
    <2>3. UNCHANGED <<tracked, marker, acceptLock>>
      BY Zenon DEF AcquireLockBegin, AcquireLock, ClearQueryOperation, ReleaseLockIfOwned, redis
    <2>4. lock' \in [HttpSessions -> Maybe(Requests)]
      <3>1. UNCHANGED lock \/ \E v \in {r, None} : lock' = [lock EXCEPT ![Http[r]] = v]
        BY Zenon, <2>0 DEF AcquireLockBegin, AcquireLock, ClearQueryOperation, ReleaseLockIfOwned, redis, KeysTyped
      <3> QED
        BY <2>0, <2>2, <3>1 DEF KeysTyped
    <2>5. inflight' \in [Workers \X HttpSessions -> Maybe(Requests)]
      <3>1. UNCHANGED inflight \/ \E v \in {r, None} : inflight' = [inflight EXCEPT ![Slot(r)] = v]
        BY Zenon, <2>0 DEF AcquireLockBegin, AcquireLock, ClearQueryOperation, ReleaseLockIfOwned, KeysTyped
      <3> QED
        BY <2>0, <2>2, <3>1 DEF KeysTyped
    <2>6. op' \in [Chats -> Maybe(Requests)]
      <3>1. UNCHANGED op \/ op' = [s \in Chats |-> IF op[s] = r THEN None ELSE op[s]]
        BY Zenon DEF AcquireLockBegin, AcquireLock, ClearQueryOperation, ReleaseLockIfOwned, redis
      <3> QED
        BY Zenon, <2>0, <2>2, <3>1 DEF KeysTyped
    <2> QED
      BY ZenonT(30), <2>0, <2>1, <2>3, <2>4, <2>5, <2>6 DEF KeysTyped
  <1>EndTyped.
    ASSUME OpenAttempt(r) \/ ClearQueryOperationFails(r) \/ CommitOrRollback(r)
    PROVE  KeysTyped' /\ RowsTyped'
    <2> USE <1>EndTyped
    <2>0. KeysTyped /\ RowsTyped
      BY Zenon, <1>TypedAtFirst
    <2>1. KeysTyped'
      BY Zenon, <2>0, <1>KeysQuiet DEF OpenAttempt, ClearQueryOperationFails, CommitOrRollback, redis
    <2>2. CASE OpenAttempt(r) \/ ClearQueryOperationFails(r)
      BY Zenon, <2>0, <2>1, <2>2, <1>RowsQuiet DEF OpenAttempt, ClearQueryOperationFails
    <2>3. CASE CommitOrRollback(r)
      <3>1. txn' \in [Requests -> Txns]
        BY Zenon, <2>3, TxnWritten, NoTxnType DEF CommitOrRollback
      <3>2. /\ txn[r].creates \in Maybe(Chats) /\ txn[r].value \in Maybe(Rows)
        BY <2>0, Zenon DEF RowsTyped, Txns
      <3>3. sessions' \subseteq Chats
        BY Zenon, <2>0, <2>3, <3>2 DEF CommitOrRollback, RowsTyped, Maybe, database
      <3>4. saved' \in [Requests -> Maybe(Rows)]
        <4>1. UNCHANGED saved \/ saved' = [saved EXCEPT ![txn[r].row] = txn[r].value]
          BY <2>3, Zenon DEF CommitOrRollback, database
        <4> QED
          BY <2>0, <3>2, <4>1 DEF RowsTyped
      <3> QED
        BY ZenonT(30), <2>1, <3>1, <3>3, <3>4 DEF RowsTyped
    <2> QED
      BY <2>2, <2>3
  <1>AcceptTyped.
    ASSUME AcceptStep(r)
    PROVE  KeysTyped' /\ RowsTyped'
    <2> USE <1>AcceptTyped
    <2>0. KeysTyped /\ RowsTyped
      BY <1>TypedAtFirst
    <2>1. UNCHANGED <<lock, op, tracked, marker, inflight, database>>
      BY Zenon DEF AcceptStep, AcceptLock, AcceptCheckActive, AcceptLoadAttempt,
          AcceptFindOrCreateRow, AcceptDeleteAttempt, AcceptDropActive, AcceptAudit, AcceptUnlock,
          redis
    <2>2. acceptLock' \in [Requests -> BOOLEAN]
      <3>1. \/ UNCHANGED acceptLock
            \/ acceptLock' = [acceptLock EXCEPT ![Prior(r)] = TRUE]
            \/ acceptLock' = [acceptLock EXCEPT ![Prior(r)] = FALSE]
        BY Zenon DEF AcceptStep, AcceptLock, AcceptCheckActive, AcceptLoadAttempt,
            AcceptFindOrCreateRow, AcceptDeleteAttempt, AcceptDropActive, AcceptAudit, AcceptUnlock,
            redis
      <3>2. acceptLock \in [Requests -> BOOLEAN]
        BY <2>0 DEF KeysTyped
      <3>3. ASSUME NEW x, NEW b \in BOOLEAN PROVE [acceptLock EXCEPT ![x] = b] \in [Requests -> BOOLEAN]
        BY <3>2, Zenon
      <3> QED
        BY <3>1, <3>2, <3>3, Zenon
    <2>3. txn' \in [Requests -> Txns]
      <3>1. CASE AcceptFindOrCreateRow(r)
        <4>1. Prior(r) \in Requests /\ r \in Maybe(Requests)
          BY <3>1, AcceptOnly, OtherHas DEF AcceptFindOrCreateRow, At, RequestOK, Maybe
        <4>2. \/ UNCHANGED txn
              \/ txn' = [txn EXCEPT ![r].row = r, ![r].refers = Chat(r),
                                    ![r].value = [attempt |-> Prior(r), chat |-> Chat(r)]]
          BY <3>1, Zenon DEF AcceptFindOrCreateRow
        <4>3. PICK v \in Maybe(Rows) : v = [attempt |-> Prior(r), chat |-> Chat(r)]
          BY Zenon, <4>1, <1>ChatType, <1>RowType
        <4>4. UNCHANGED txn \/ txn' = [txn EXCEPT ![r].row = r, ![r].refers = Chat(r), ![r].value = v]
          BY <4>2, <4>3
        <4> QED
          BY Zenon, <2>0, <4>1, <4>4, <1>TxnSaves, <1>ChatType DEF RowsTyped
      <3>2. CASE AcceptAudit(r)
        BY Zenon, <3>2, <1>TxnAudits DEF AcceptAudit
      <3>3. CASE UNCHANGED txn
        BY Zenon, <2>0, <3>3 DEF RowsTyped
      <3> QED
        BY <3>1, <3>2, <3>3, ZenonT(30) DEF AcceptStep, AcceptLock, AcceptCheckActive, AcceptLoadAttempt,
            AcceptDeleteAttempt, AcceptDropActive, AcceptUnlock
    <2> QED
      BY Zenon, <2>0, <2>1, <2>2, <2>3 DEF KeysTyped, RowsTyped, database
  <1>DeleteTyped.
    ASSUME DeleteStep(r)
    PROVE  KeysTyped' /\ RowsTyped'
    <2> USE <1>DeleteTyped
    <2>0. KeysTyped /\ RowsTyped
      BY <1>TypedAtFirst
    <2>1. UNCHANGED <<acceptLock, inflight>>
      BY Zenon DEF DeleteStep, DeleteFindSession, MarkSessionCancelling, CancelLocalSessionWork,
          CleanupCancelledSessionState, DeleteSessionRow, DeleteCommit, DeleteUndo, redis
    <2>2. \/ UNCHANGED <<lock, op, tracked>>
          \/ CleanupCancelledSessionState(r)
      BY Zenon DEF DeleteStep, DeleteFindSession, MarkSessionCancelling, CancelLocalSessionWork,
          DeleteSessionRow, DeleteCommit, DeleteUndo, redis
    <2>3. lock' \in [HttpSessions -> Maybe(Requests)]
      BY <2>0, <2>2 DEF CleanupCancelledSessionState, KeysTyped, Maybe
    <2>4. op' \in [Chats -> Maybe(Requests)]
      BY Zenon, <2>0, <2>2 DEF CleanupCancelledSessionState, KeysTyped, Maybe
    <2>5. tracked' \in [Chats -> SUBSET Requests]
      BY Zenon, <2>0, <2>2 DEF CleanupCancelledSessionState, KeysTyped
    <2>6. marker' \in [Chats -> Maybe(Requests)]
      <3>1. UNCHANGED marker \/ \E v \in {r, None} : marker' = [marker EXCEPT ![Target[r]] = v]
        <4>1. CASE DeleteUndo(r)
          BY Zenon, <2>0, <4>1 DEF DeleteUndo, KeysTyped
        <4>2. CASE ~DeleteUndo(r)
          BY Zenon, <4>2 DEF DeleteStep, DeleteFindSession, MarkSessionCancelling,
            CancelLocalSessionWork, CleanupCancelledSessionState, DeleteSessionRow, DeleteCommit, redis
        <4> QED
          BY Zenon, <4>1, <4>2
      <3>2. marker \in [Chats -> Maybe(Requests)] /\ \A v \in {r, None} : v \in Maybe(Requests)
        BY Zenon, <2>0 DEF KeysTyped, Maybe
      <3>3. ASSUME NEW v \in Maybe(Requests), marker' = [marker EXCEPT ![Target[r]] = v]
            PROVE  marker' \in [Chats -> Maybe(Requests)]
        BY Zenon, <3>2, <3>3
      <3> QED
        BY Zenon, <3>1, <3>2, <3>3
    <2>7. sessions' \subseteq Chats
      <3>1. UNCHANGED sessions \/ sessions' = sessions \ {Target[r]}
        BY Zenon DEF DeleteStep, DeleteFindSession, MarkSessionCancelling, CancelLocalSessionWork,
          CleanupCancelledSessionState, DeleteSessionRow, DeleteCommit, DeleteUndo, database
      <3> QED
        BY <2>0, <3>1 DEF RowsTyped
    <2>8. saved' \in [Requests -> Maybe(Rows)]
      <3>1. \/ UNCHANGED saved
            \/ saved' = [q \in Requests |->
                           IF saved[q] # None /\ saved[q].chat = Target[r] THEN None ELSE saved[q]]
        BY Zenon DEF DeleteStep, DeleteFindSession, MarkSessionCancelling, CancelLocalSessionWork,
          CleanupCancelledSessionState, DeleteSessionRow, DeleteCommit, DeleteUndo, database
      <3> QED
        BY <2>0, <3>1 DEF RowsTyped, Maybe
    <2>9. txn' \in [Requests -> Txns]
      <3>1. \/ UNCHANGED txn
            \/ txn' = [txn EXCEPT ![r] = NoTxn]
            \/ txn' = [txn EXCEPT ![r].updates = Target[r]]
        BY Zenon DEF DeleteStep, DeleteFindSession, MarkSessionCancelling, CancelLocalSessionWork,
          CleanupCancelledSessionState, DeleteSessionRow, DeleteCommit, DeleteUndo
      <3>2. Target[r] \in Maybe(Chats)
        BY DEF Maybe, QueryAssumption
      <3> QED
        BY ZenonT(30), <2>0, <3>1, <3>2, TxnWritten, NoTxnType, TxnUpdates DEF RowsTyped
    <2> QED
      BY ZenonT(30), <2>1, <2>0, <2>3, <2>4, <2>5, <2>6, <2>7, <2>8, <2>9 DEF KeysTyped, RowsTyped
  <1>0. KeysTyped /\ RowsTyped
    BY Zenon, <1>TypedAtFirst
  <1>1. CASE LocalAction(r)
    <2>1. UNCHANGED <<redis, inflight, database>>
      BY Zenon, <1>1, InsideSteps
    <2> QED
      BY Zenon, <1>0, <1>1, <2>1, <1>LocalTxn DEF KeysTyped, RowsTyped, redis, database
  <1>2. CASE KeyAction(r)
    <2>1. UNCHANGED <<lock, marker, acceptLock, inflight, database>>
      BY Zenon, <1>2, QueryMoves DEF QueryMove
    <2> QED
      BY Zenon, <1>0, <1>2, <2>1, <1>OperationKeys, <1>TrackedKeys, <1>KeyTxn DEF KeysTyped, RowsTyped, database
  <1>3. CASE OuterAction(r)
    BY Zenon, <1>3, <1>LockKeysTyped, <1>EndTyped, <1>AcceptTyped, <1>DeleteTyped DEF OuterAction
  <1> QED
    BY Zenon, <1>1, <1>2, <1>3, StepCases

(* A step inside the try block is a step of the request. *)
LEMMA InsideIsStep ==
  ASSUME QueryAssumption, AttemptInv, NEW r \in Requests, InsideStep(r)
  PROVE  RequestStep(r)
  <1>1. pc[r] \notin Over /\ "fin_op" \in Labels
    BY Zenon, LabelsHas, OtherHas DEF InsideStep, Inside, TryPc, Stages, TimeoutPc, Over
  <1>2. Goes(r, Labels)
    BY Zenon, <1>1, InsideFacts DEF InsideStep, Goes
  <1>3. \A q \in Requests \ {r} : Alike(frame'[q], frame[q])
    BY Zenon DEF InsideStep, FrameInside, Alike
  <1>4. PriorOK(r)'
    <2>1. frame'[r].prior = frame[r].prior /\ frame'[r].tmo \in {r, frame[r].tmo, frame[r].prior}
      BY Zenon DEF InsideStep, FrameInside
    <2>2. PriorOK(r)
      BY Zenon DEF AttemptInv, PriorsOK
    <2>3. Prior(r) # None => Prior(r) \in Requests \ {r}
      BY Zenon, <1>1, <2>2 DEF PriorOK, AttemptInv, TypeOK, Frames, Maybe, Prior
    <2>4. Prior(r) # None => pc'[Prior(r)] = pc[Prior(r)]
      BY Zenon, <1>2, <2>3 DEF Goes
    <2>5. pc'[r] # "start"
      BY Zenon, LabelsHas, OtherHas, InsideFacts DEF InsideStep, Goes
    <2> QED
      BY Zenon, <2>1, <2>2, <2>4, <2>5 DEF PriorOK, Prior
  <1> QED
    BY Zenon, <1>1, <1>2, <1>3, <1>4 DEF InsideStep, RequestStep, FrameInside, Over

(* A request that does not move keeps what is known of it. *)
LEMMA OthersRequestOK ==
  ASSUME NEW q \in Requests, RequestOK(q), pc'[q] = pc[q], due'[q] = due[q],
         Alike(frame'[q], frame[q]), attempt'[q] \in {attempt[q], None} \/ pc[q] \in Over
  PROVE  RequestOK(q)'
  <1>1. LabelFits(q, pc[q], frame'[q]) /\ FrameFits(q, frame'[q])
    BY Zenon DEF RequestOK, LabelFits, FrameFits, Alike
  <1>2. AttemptFits(q, pc[q], frame'[q].state, attempt'[q])
    <2>1. CASE pc[q] \in Over
      BY Zenon, <2>1, PlainFits DEF PlainPc, Over
    <2>2. CASE attempt'[q] \in {attempt[q], None}
      BY Zenon, <2>2 DEF RequestOK, AttemptFits, Alike
    <2> QED
      BY Zenon, <2>1, <2>2
  <1>3. Fits(q, pc'[q]) /\ LabelFits(q, pc'[q], frame'[q]) /\ AttemptFits(q, pc'[q], frame'[q].state, attempt'[q])
    BY Zenon, <1>1, <1>2 DEF RequestOK
  <1>4. IsRetry(q) \/ Kind[q] = "accept" => pc'[q] = "start" \/ frame'[q].prior \in Requests
    BY Zenon DEF RequestOK, Alike, Prior
  <1>5. due'[q] # <<>> => pc'[q] \in TryPc \cup {"t_store"}
    BY Zenon DEF RequestOK
  <1> QED
    BY Zenon, <1>1, <1>3, <1>4, <1>5, RequestOKNext

(* One step of a request that keeps to these rules keeps the invariant. *)
LEMMA AttemptInvKept ==
  ASSUME QueryAssumption, AttemptInv, NEW r \in Requests, RequestStep(r), AttemptStep(r), ActiveStep(r)
  PROVE  RequestsOK' /\ PriorsOK' /\ ActiveOK'
  <1>1. \A a \in Requests : a = frame[r].tmo => a = r \/ (a = Prior(r) /\ pc[a] \in Over /\ Http[a] = Http[r])
    BY DEF AttemptInv, PriorsOK, PriorOK, QueryAssumption
  <1>2. \A q \in Requests \ {r} : pc'[q] = pc[q] /\ due'[q] = due[q] /\ Alike(frame'[q], frame[q])
    BY Zenon DEF RequestStep, Goes
  <1>3. ASSUME NEW q \in Requests PROVE RequestOK(q)'
    <2>1. CASE q = r
      BY Zenon, <2>1 DEF RequestStep
    <2>2. CASE q # r
      <3>1. attempt'[q] \in {attempt[q], None} \/ pc[q] \in Over
        BY Zenon, <1>1, <2>2 DEF AttemptStep
      <3>2. RequestOK(q)
        BY Zenon DEF AttemptInv, RequestsOK
      <3> QED
        BY Zenon, <1>2, <2>2, <3>1, <3>2, OthersRequestOK
    <2> QED
      BY Zenon, <2>1, <2>2
  <1>4. ASSUME NEW q \in Requests PROVE PriorOK(q)'
    <2>1. CASE q = r
      BY Zenon, <2>1 DEF RequestStep
    <2>2. CASE q # r
      <3>1. PriorOK(q)
        BY Zenon DEF AttemptInv, PriorsOK
      <3>2. frame'[q].prior = frame[q].prior /\ frame'[q].tmo = frame[q].tmo
        BY Zenon, <1>2, <2>2 DEF Alike
      <3>3. Prior(q) # None => Prior(q) \in Requests
        BY Zenon DEF AttemptInv, TypeOK, Frames, Maybe, Prior
      <3>4. Prior(q) # None => pc'[Prior(q)] \in Over
        BY Zenon, <1>2, <3>1, <3>3 DEF PriorOK, RequestStep
      <3> QED
        BY Zenon, <1>2, <2>2, <3>1, <3>2, <3>4 DEF PriorOK, Prior
    <2> QED
      BY Zenon, <2>1, <2>2
  <1>5. ASSUME NEW h \in HttpSessions, active'[h] # None
        PROVE  /\ Http[active'[h]] = h
               /\ pc'[active'[h]] \in PostActive
               /\ attempt'[active'[h]] # None /\ attempt'[active'[h]].state # "EXECUTED" =>
                    \E q \in Requests : Http[q] = h /\ pc'[q] \in {"t_active", "crashed"}
    <2>1. CASE active'[h] = active[h]
      <3>1. PICK a \in Requests : a = active[h]
        BY Zenon, <1>5, <2>1 DEF AttemptInv, TypeOK, Maybe
      <3>2. Http[a] = h /\ pc[a] \in PostActive
        BY Zenon, <1>5, <2>1, <3>1 DEF AttemptInv, ActiveOK
      <3>3. pc'[a] \in PostActive
        BY Zenon, <1>2, <3>2 DEF RequestStep
      <3>4. ASSUME attempt'[a] # None, attempt'[a].state # "EXECUTED"
            PROVE  \E q \in Requests : Http[q] = h /\ pc'[q] \in {"t_active", "crashed"}
        <4>1. CASE attempt'[a] = attempt[a]
          <5>1. PICK q \in Requests : Http[q] = h /\ pc[q] \in {"t_active", "crashed"}
            BY <1>5, <2>1, <3>1, <3>4, <4>1, SMTT(30) DEF AttemptInv, ActiveOK
          <5>2. q # r
            BY Zenon, <1>5, <5>1 DEF ActiveStep, RequestStep
          <5> QED
            BY Zenon, <1>2, <5>1, <5>2
        <4>2. CASE a = r /\ pc[r] \in Working
          BY Zenon, <3>2, <4>2, WorkingFacts
        <4>3. CASE a = frame[r].tmo /\ pc'[r] = "t_active"
          BY Zenon, <1>1, <3>2, <4>3
        <4> QED
          BY Zenon, <3>4, <4>1, <4>2, <4>3 DEF AttemptStep
      <3> QED
        BY Zenon, <2>1, <3>1, <3>2, <3>3, <3>4
    <2>2. CASE h = Http[r] /\ active'[h] = r /\ pc[r] = "activate" /\ attempt' = attempt /\ pc'[r] \in PostActive
      <3>1. attempt[r] # None => attempt[r].state = "EXECUTED"
        BY Zenon, <2>2 DEF AttemptInv, RequestsOK, RequestOK, AttemptFits
      <3> QED
        BY Zenon, <2>2, <3>1
    <2> QED
      BY Zenon, <1>5, <2>1, <2>2 DEF ActiveStep
  <1> QED
    BY Zenon, <1>3, <1>4, <1>5 DEF RequestsOK, PriorsOK, ActiveOK

(***************************************************************************)
(* The steps outside the try block: the lock, the finally clause, the end  *)
(* of the transaction, accept_query and delete_session.                    *)
(***************************************************************************)
LEMMA OuterSteps ==
  ASSUME QueryAssumption, AttemptInv, NEW r \in Requests, OuterAction(r)
  PROVE  RequestStep(r) /\ AttemptStep(r) /\ ActiveStep(r)
  <1> TypeOK
    BY Zenon DEF AttemptInv
  <1>KeptAlike.
    ASSUME FrameKept(r)
    PROVE  FramesAlike
    BY Zenon, <1>KeptAlike DEF FrameKept, FrameMoves, FrameStep, FramesAlike, Alike
  <1>SameAlike.
    ASSUME UNCHANGED frame
    PROVE  FramesAlike
    BY Zenon, <1>SameAlike DEF TypeOK, FramesAlike, Alike
  <1>OuterFits.
    ASSUME NEW q, NEW l \in Outer
    PROVE  /\ \A f : LabelFits(q, l, f)
           /\ \A st, rec : AttemptFits(q, l, st, rec)
    <2> USE <1>OuterFits
    <2>1. CASE l \in PlainPc
      BY Zenon, <2>1, PlainFits
    <2>2. CASE l \in AcceptPc \cup DeletePc
      BY Zenon, <2>2 DEF AcceptPc, DeletePc, LabelFits, StateFits, TimeoutPc, Loaded, Unregistered, Working,
                  AttemptFits
    <2> QED
      BY Zenon, <2>1, <2>2 DEF Outer
  <1>BeforeFits.
    ASSUME NEW q, NEW l \in Before, NEW f, f.trk = None
    PROVE  LabelFits(q, l, f)
    BY Zenon, <1>BeforeFits DEF Before, LabelFits, StateFits, TimeoutPc, Loaded, Working
  <1>OuterStep.
    ASSUME NEW l \in Labels, Goes(r, {l}), FramesAlike, attempt'[r] \in {attempt[r], None},
           Fits(r, l), pc[r] # "crashed", IsRetry(r) \/ Kind[r] = "accept" => pc[r] # "start",
           l \in Outer \/ (l \in Before /\ pc[r] \in Unregistered),
           pc[r] \in PostActive => l \in PostActive, pc[r] \in Over => l \in Over
    PROVE  RequestStep(r)
    <2> USE <1>OuterStep
    <2>0. RequestOK(r) /\ PriorOK(r)
      BY Zenon DEF AttemptInv, RequestsOK, PriorsOK
    <2>1. Alike(frame'[r], frame[r])
      BY Zenon DEF FramesAlike
    <2>2. pc'[r] = l /\ Goes(r, Labels)
      BY Zenon DEF Goes
    <2>3. LabelFits(r, l, frame'[r]) /\ AttemptFits(r, l, frame'[r].state, attempt'[r])
      <3>1. CASE l \in Outer
        BY Zenon, <3>1, <1>OuterFits
      <3>2. CASE l \in Before /\ pc[r] \in Unregistered
        <4>1. frame'[r].trk = None /\ attempt'[r] = None
          BY Zenon, <2>0, <2>1, <3>2, EarlySource DEF Alike
        <4> QED
          BY <3>2, <4>1, <1>BeforeFits DEF AttemptFits
      <3> QED
        BY Zenon, <3>1, <3>2
    <2>4. FrameFits(r, frame'[r])
      BY Zenon, <2>0, <2>1 DEF RequestOK, FrameFits, Alike
    <2>5. IsRetry(r) \/ Kind[r] = "accept" => frame'[r].prior \in Requests
      BY Zenon, <2>0, <2>1 DEF RequestOK, Alike, Prior
    <2>6. due'[r] # <<>> => pc'[r] \in TryPc \cup {"t_store"}
      BY DEF Goes
    <2>7. RequestOK(r)'
      BY Zenon, <2>2, <2>3, <2>4, <2>5, <2>6, RequestOKNext
    <2>8. PriorOK(r)'
      <3>1. frame'[r].prior = frame[r].prior /\ frame'[r].tmo = frame[r].tmo
        BY Zenon, <2>1 DEF Alike
      <3>2. Prior(r) # None => Prior(r) \in Requests
        BY Zenon DEF AttemptInv, TypeOK, Frames, Maybe, Prior
      <3>3. Prior(r) # None => pc'[Prior(r)] \in Over
        BY Zenon, <2>0, <2>2, <3>2 DEF PriorOK, Goes
      <3>4. l # "start"
        BY Zenon DEF Outer, Before, PlainPc, AcceptPc, DeletePc
      <3> QED
        BY Zenon, <2>0, <2>2, <3>1, <3>3, <3>4 DEF PriorOK, Prior
    <2> QED
      BY Zenon, <2>2, <2>7, <2>8 DEF RequestStep, FramesAlike
  (* Where they lead. *)
  <1>OuterHas. /\ "fin_lock" \in PlainPc /\ "end" \in PlainPc /\ "done" \in PlainPc
               /\ "fin_lock" \in PostActive /\ "end" \in PostActive /\ "done" \in PostActive
               /\ "end" \in Over /\ "done" \in Over /\ PlainPc \subseteq Outer
               /\ AcceptPc \subseteq Outer /\ DeletePc \subseteq Outer
    BY Zenon DEF PlainPc, PostActive, Over, Outer
  <1>FitsEnd.
    ASSUME NEW q \in Requests
    PROVE  Fits(q, "done") /\ (Kind[q] # "delete" => Fits(q, "end"))
    BY Zenon, <1>FitsEnd, Roles DEF Fits, SubmitLabels, RetryLabels, QueryLabels, AcceptLabels, DeleteLabels
  <1>AcceptTo.
    ASSUME NEW q, NEW l \in AcceptLabels, Kind[q] = "accept"
    PROVE  Fits(q, l)
    BY Zenon, <1>AcceptTo DEF Fits, IsRetry
  <1>DeleteTo.
    ASSUME NEW q, NEW l \in DeleteLabels, Kind[q] = "delete"
    PROVE  Fits(q, l)
    BY Zenon, <1>DeleteTo DEF Fits, IsRetry
  <1>DeleteOnly.
    ASSUME NEW q \in Requests, NEW l \in DeletePc, Fits(q, l)
    PROVE  Kind[q] = "delete"
    BY Zenon, <1>DeleteOnly, Roles DEF Fits, SubmitLabels, RetryLabels, QueryLabels, AcceptLabels, AcceptPc, DeletePc
  <1>OtherPcFacts. /\ AcceptPc \cap PostActive = {} /\ DeletePc \cap PostActive = {} /\ Over \subseteq PostActive
                   /\ "crashed" \notin AcceptPc \cup DeletePc /\ "start" \notin AcceptPc \cup DeletePc
                   /\ "t_active" \notin AcceptPc \cup DeletePc \cup Over
    BY Zenon DEF AcceptPc, DeletePc, PostActive, Over
  (* A step of accept_query. *)
  <1>AcceptMoves.
    ASSUME pc[r] \in AcceptPc, NEW l \in AcceptPc \cup {"end", "done"}, Goes(r, {l}), FramesAlike,
           attempt'[r] \in {attempt[r], None}
    PROVE  RequestStep(r)
    <2> USE <1>AcceptMoves
    <2>1. Kind[r] = "accept" /\ pc[r] \notin PostActive \cup Over /\ pc[r] \notin {"crashed", "start"}
      BY Zenon, AcceptOnly, <1>OtherPcFacts DEF AttemptInv, RequestsOK, RequestOK
    <2>2. Fits(r, l) /\ l \in Labels /\ l \in Outer
      BY Zenon, <2>1, <1>AcceptTo, LabelsHas, <1>OuterHas DEF AcceptLabels
    <2> QED
      BY Zenon, <2>1, <2>2, <1>OuterStep
  (* A step of delete_session. *)
  <1>DeleteMoves.
    ASSUME pc[r] \in DeletePc, NEW l \in DeletePc \cup {"done"}, Goes(r, {l}), FramesAlike,
           attempt'[r] \in {attempt[r], None}
    PROVE  RequestStep(r)
    <2> USE <1>DeleteMoves
    <2>1. Kind[r] = "delete" /\ pc[r] \notin PostActive \cup Over /\ pc[r] \notin {"crashed", "start"}
      BY Zenon, <1>DeleteOnly, <1>OtherPcFacts DEF AttemptInv, RequestsOK, RequestOK
    <2>2. Fits(r, l) /\ l \in Labels /\ l \in Outer
      BY Zenon, <2>1, <1>DeleteTo, LabelsHas, <1>OuterHas DEF DeleteLabels
    <2> QED
      BY Zenon, <2>1, <2>2, <1>OuterStep
  (* A step that leaves the attempt keys alone. *)
  <1>QuietKeys.
    ASSUME UNCHANGED <<attempt, active>>, pc[r] # "t_active"
    PROVE  AttemptStep(r) /\ ActiveStep(r)
    BY Zenon, <1>QuietKeys, AttemptsKept, ActiveKept
  <1>LockSteps. /\ AcquireLockBegin(r) => RequestStep(r) /\ AttemptStep(r) /\ ActiveStep(r)
                /\ AcquireLock(r) => RequestStep(r) /\ AttemptStep(r) /\ ActiveStep(r)
                /\ ClearQueryOperation(r) => RequestStep(r) /\ AttemptStep(r) /\ ActiveStep(r)
                /\ ClearQueryOperationFails(r) => RequestStep(r) /\ AttemptStep(r) /\ ActiveStep(r)
                /\ ReleaseLockIfOwned(r) => RequestStep(r) /\ AttemptStep(r) /\ ActiveStep(r)
                /\ CommitOrRollback(r) => RequestStep(r) /\ AttemptStep(r) /\ ActiveStep(r)
    <2>0. TypeOK /\ RequestOK(r) /\ Fits(r, pc[r])
      BY Zenon DEF AttemptInv, RequestsOK, RequestOK
    <2>1. ASSUME AcquireLockBegin(r) PROVE RequestStep(r) /\ AttemptStep(r) /\ ActiveStep(r)
      <3>1. /\ pc[r] \in {"start", "ready"} /\ (IsRetry(r) => pc[r] = "ready") /\ IsQuery(r)
            /\ UNCHANGED <<attempt, active>> /\ FramesAlike
        BY Zenon, <2>0, <2>1, <1>SameAlike DEF AcquireLockBegin, At, IsQuery, IsRetry, redis
      <3>2. AttemptStep(r) /\ ActiveStep(r)
        BY Zenon, <2>0, <3>1, <1>QuietKeys
      <3>3. pc[r] \in Unregistered /\ pc[r] \notin PostActive \cup Over \cup {"crashed"}
        BY Zenon, <3>1 DEF Unregistered, PostActive, Over
      <3>4. CASE Goto(r, "done")
        <4>1. Goes(r, {"done"})
          BY Zenon, <2>0, <3>4, GotoGoes, LabelsHas
        <4> QED
          BY Zenon, <3>1, <3>2, <3>3, <4>1, <1>OuterStep, <1>OuterHas, <1>FitsEnd, LabelsHas DEF IsQuery
      <3>5. CASE Goto(r, "reserved")
        <4>1. Goes(r, {"reserved"})
          BY Zenon, <2>0, <3>5, GotoGoes, LabelsHas
        <4>2. Fits(r, "reserved") /\ "reserved" \in Before
          BY Zenon, <3>1, QueryTo DEF QueryLabels, Before
        <4> QED
          BY Zenon, <3>1, <3>2, <3>3, <4>1, <4>2, <1>OuterStep, LabelsHas DEF IsQuery
      <3> QED
        BY Zenon, <2>1, <3>4, <3>5 DEF AcquireLockBegin
    <2>2. ASSUME AcquireLock(r) PROVE RequestStep(r) /\ AttemptStep(r) /\ ActiveStep(r)
      <3>1. pc[r] = "reserved" /\ UNCHANGED <<attempt, active>> /\ FramesAlike
        BY Zenon, <2>0, <2>2, <1>SameAlike DEF AcquireLock, At
      <3>2. AttemptStep(r) /\ ActiveStep(r)
        BY Zenon, <2>0, <3>1, <1>QuietKeys
      <3>3. pc[r] \in Unregistered /\ pc[r] \notin PostActive \cup Over \cup {"crashed", "start"}
        BY Zenon, <3>1 DEF Unregistered, PostActive, Over
      <3>4. IsQuery(r)
        BY Zenon, <2>0, <3>1, QueryOnly
      <3>5. CASE Goto(r, "done")
        <4>1. Goes(r, {"done"})
          BY ZenonT(30), <2>0, <3>5, GotoGoes, LabelsHas
        <4> QED
          BY ZenonT(30), <3>1, <3>2, <3>3, <4>1, <1>OuterStep, <1>OuterHas, <1>FitsEnd, LabelsHas
      <3>6. CASE Goto(r, IF Kind[r] = "submit" THEN "prepare" ELSE "load_active")
        <4>1. PICK l \in {"prepare", "load_active"} :
                 Goto(r, l) /\ (l = "prepare" <=> Kind[r] = "submit")
          BY Zenon, <3>6
        <4>2. l \in Labels /\ l \in Before
          BY Zenon, LabelsHas, TryHas DEF Before
        <4>3. Goes(r, {l})
          BY Zenon, <2>0, <4>1, <4>2, GotoGoes
        <4>4. Fits(r, l)
          BY ZenonT(30), <3>4, <4>1, SubmitTo, RetryTo DEF IsQuery, SubmitLabels, RetryLabels
        <4> QED
          BY Zenon, <3>1, <3>2, <3>3, <4>2, <4>3, <4>4, <1>OuterStep
      <3> QED
        BY Zenon, <2>2, <3>5, <3>6 DEF AcquireLock
    <2>3. ASSUME ClearQueryOperation(r) PROVE RequestStep(r) /\ AttemptStep(r) /\ ActiveStep(r)
      <3>1. pc[r] = "fin_op" /\ UNCHANGED <<attempt, active>> /\ FramesAlike
        BY Zenon, <2>0, <2>3, <1>SameAlike DEF ClearQueryOperation, At
      <3>2. AttemptStep(r) /\ ActiveStep(r)
        BY Zenon, <2>0, <3>1, <1>QuietKeys
      <3>3. pc[r] \notin Over \cup {"crashed", "start"} /\ pc[r] \in Locked
        BY <3>1, OtherHas DEF Over, Locked
      <3>4. Goes(r, {"fin_lock"})
        BY Zenon, <2>0, <2>3, GotoGoes, OtherHas, LabelsHas DEF ClearQueryOperation
      <3>5. Fits(r, "fin_lock")
        BY ZenonT(30), <2>0, <3>3, QueryOnly, QueryTo DEF QueryLabels
      <3> QED
        BY Zenon, <3>1, <3>2, <3>3, <3>4, <3>5, <1>OuterStep, <1>OuterHas, LabelsHas, OtherHas
    <2>4. ASSUME ClearQueryOperationFails(r) PROVE RequestStep(r) /\ AttemptStep(r) /\ ActiveStep(r)
      <3>1. pc[r] = "fin_op" /\ UNCHANGED <<attempt, active>>
        BY Zenon, <2>4 DEF ClearQueryOperationFails, At, redis
      <3>2. AttemptStep(r) /\ ActiveStep(r)
        BY Zenon, <2>0, <3>1, <1>QuietKeys
      <3>3. pc[r] \notin Over \cup {"crashed", "start"} /\ pc[r] \in Locked
        BY Zenon, <3>1, OtherHas DEF Over, Locked
      <3>4. Goes(r, {"end"})
        BY ZenonT(30), <2>0, <2>4, GotoGoes, LabelsHas DEF ClearQueryOperationFails
      <3>5. FramesAlike
        BY Zenon, <2>0, <2>4, FailFrame, <1>KeptAlike DEF ClearQueryOperationFails, Fail
      <3>6. Kind[r] # "delete"
        BY Zenon, <2>0, <3>3, QueryOnly DEF IsQuery, IsRetry
      <3> QED
        BY Zenon, <3>1, <3>2, <3>3, <3>4, <3>5, <3>6, <1>OuterStep, <1>OuterHas, LabelsHas, <1>FitsEnd
    <2>5. ASSUME ReleaseLockIfOwned(r) PROVE RequestStep(r) /\ AttemptStep(r) /\ ActiveStep(r)
      <3>1. pc[r] = "fin_lock" /\ UNCHANGED <<attempt, active>> /\ FramesAlike
        BY Zenon, <2>0, <2>5, <1>SameAlike DEF ReleaseLockIfOwned, At
      <3>2. AttemptStep(r) /\ ActiveStep(r)
        BY Zenon, <2>0, <3>1, <1>QuietKeys
      <3>3. pc[r] \notin Over \cup {"crashed", "start"} /\ pc[r] \in Locked
        BY Zenon, <3>1, OtherHas DEF Over, Locked
      <3>4. Goes(r, {"end"})
        BY ZenonT(30), <2>0, <2>5, GotoGoes, LabelsHas DEF ReleaseLockIfOwned
      <3>5. Kind[r] # "delete"
        BY ZenonT(30), <2>0, <3>3, QueryOnly DEF IsQuery, IsRetry
      <3> QED
        BY ZenonT(30), <3>1, <3>2, <3>3, <3>4, <3>5, <1>OuterStep, <1>OuterHas, LabelsHas, <1>FitsEnd
    <2>6. ASSUME CommitOrRollback(r) PROVE RequestStep(r) /\ AttemptStep(r) /\ ActiveStep(r)
      <3>1. pc[r] = "end" /\ UNCHANGED <<attempt, active>>
        BY Zenon, <2>6 DEF CommitOrRollback, At, redis
      <3>2. AttemptStep(r) /\ ActiveStep(r)
        BY Zenon, <2>0, <3>1, <1>QuietKeys
      <3>3. Goes(r, {"done"})
        BY Zenon, <2>0, <2>6, GotoGoes, LabelsHas DEF CommitOrRollback
      <3>4. FramesAlike
        <4>1. CASE UNCHANGED frame
          BY ZenonT(30), <2>0, <4>1, <1>SameAlike
        <4>2. CASE frame' = [frame EXCEPT ![r].ok = @ /\ ReplyBeforeCommit]
          <5>1. PICK v \in BOOLEAN : v = (frame[r].ok /\ ReplyBeforeCommit)
            BY Zenon
          <5>2. frame' = [frame EXCEPT ![r].ok = v]
            BY Zenon, <4>2, <5>1
          <5>3. frame \in [Requests -> Frames]
            BY <2>0, SMTT(30) DEF TypeOK
          <5> QED
            BY Zenon, <5>2, <5>3, WriteOk, <1>KeptAlike
        <4> QED
          BY Zenon, <2>6, <4>1, <4>2 DEF CommitOrRollback
      <3> QED
        BY Zenon, <3>1, <3>2, <3>3, <3>4, <1>OuterStep, <1>OuterHas, LabelsHas, <1>FitsEnd
    <2> QED
      BY Zenon, <2>1, <2>2, <2>3, <2>4, <2>5, <2>6
  (* The attempt that the client names is the active one, whose request is   *)
  (* over: the client knows its id from the response.                        *)
  <1>OpenAttemptStep.
    ASSUME OpenAttempt(r)
    PROVE  RequestStep(r) /\ AttemptStep(r) /\ ActiveStep(r)
    <2> USE <1>OpenAttemptStep
    <2>WritePriorChat.
      ASSUME frame \in [Requests -> Frames], NEW p \in Maybe(Requests), NEW c \in Maybe(Chats),
             frame' = [frame EXCEPT ![r].prior = p, ![r].chat = c]
      PROVE  FrameStep(r, c, p, frame[r].trk, frame[r].state, frame[r].tmo, frame[r].late)
      <3> USE <2>WritePriorChat
      <3> DEFINE f == [frame[r] EXCEPT !.prior = p, !.chat = c]
      <3>1. f \in Frames
        BY ZenonT(30) DEF Frames
      <3>2. frame' = [frame EXCEPT ![r] = f]
        BY Zenon
      <3>3. /\ f.chat = c /\ f.prior = p /\ f.trk = frame[r].trk
            /\ f.state = frame[r].state /\ f.tmo = frame[r].tmo /\ f.late = frame[r].late
        BY ZenonT(30) DEF Frames
      <3> HIDE DEF f
      <3> QED
        BY <3>1, <3>2, <3>3, FrameWritten, Zenon
    <2>0. /\ TypeOK /\ RequestOK(r) /\ PriorOK(r) /\ pc[r] = "start"
          /\ UNCHANGED <<attempt, active>> /\ (IsRetry(r) \/ Kind[r] = "accept")
      BY Zenon DEF AttemptInv, RequestsOK, PriorsOK, OpenAttempt, At, redis
    <2>1. AttemptStep(r) /\ ActiveStep(r)
      BY <2>0, <1>QuietKeys
    <2>2. PICK a \in Requests :
            /\ Answered(a) /\ active[Http[r]] = a /\ attempt[a] # None
            /\ \E c \in IF Kind[r] = "accept" THEN {None, attempt[a].chat} ELSE {None} :
                  frame' = [frame EXCEPT ![r].prior = a, ![r].chat = c]
      BY Zenon DEF OpenAttempt
    <2>3. PICK c : /\ c \in {None, attempt[a].chat}
                   /\ frame' = [frame EXCEPT ![r].prior = a, ![r].chat = c]
      BY <2>2, ZenonT(30)
    <2>4. a \in Maybe(Requests) /\ c \in Maybe(Chats) /\ frame \in [Requests -> Frames]
      BY <2>0, <2>2, <2>3, SMTT(30) DEF TypeOK, Attempts, Maybe
    <2>5. FrameStep(r, c, a, frame[r].trk, frame[r].state, frame[r].tmo, frame[r].late)
      BY Zenon, <2>3, <2>4, <2>WritePriorChat
    <2>6. frame[r].trk = None /\ attempt'[r] = None /\ frame[r].tmo = None
      BY Zenon, <2>0, EarlySource DEF Unregistered, PriorOK
    <2>7. PICK l \in {"ready", "a_lock"} : Goto(r, l) /\ (l = "ready" <=> IsRetry(r))
      BY Zenon DEF OpenAttempt
    <2>8. Goes(r, {l}) /\ l \in Labels
      BY Zenon, <2>0, <2>7, GotoGoes, LabelsHas, OtherHas
    <2>9. Fits(r, l)
      BY Zenon, <2>0, <2>7, RetryTo, <1>AcceptTo, OtherHas DEF RetryLabels, AcceptLabels
    <2>10. LabelFits(r, l, frame'[r])
      BY ZenonT(30), <2>5, <2>6 DEF FrameStep, LabelFits, StateFits, TimeoutPc, Loaded, Working
    <2>11. FrameFits(r, frame'[r])
      BY Zenon, <2>0, <2>5, <2>6 DEF FrameStep, FrameFits, IsRetry
    <2>12. pc'[r] = l /\ due'[r] = <<>>
      BY Zenon, <2>0, <2>7 DEF Goto, AwaitThen, TypeOK
    <2>13. RequestOK(r)'
      BY Zenon, <2>5, <2>6, <2>9, <2>10, <2>11, <2>12, RequestOKNext DEF AttemptFits, FrameStep
    <2>14. Http[a] = Http[r] /\ pc[a] \in Over /\ a # r
      BY ZenonT(30), <2>0, <2>2 DEF AttemptInv, ActiveOK, QueryAssumption, Answered, Over
    <2>15. PriorOK(r)'
      BY Zenon, <2>5, <2>6, <2>8, <2>12, <2>14 DEF PriorOK, Prior, FrameStep, Goes
    <2>16. \A q \in Requests \ {r} : Alike(frame'[q], frame[q])
      BY Zenon, <2>5 DEF FrameStep, Alike
    <2> QED
      BY Zenon, <2>0, <2>1, <2>5, <2>8, <2>13, <2>15, <2>16 DEF RequestStep, Goes, FrameStep, PostActive, Over
  <1>AcceptSteps.
    ASSUME AcceptStep(r)
    PROVE  RequestStep(r) /\ AttemptStep(r) /\ ActiveStep(r)
    <2> USE <1>AcceptSteps
    <2>0. TypeOK
      BY Zenon DEF AttemptInv
    <2>1. pc[r] \in AcceptPc /\ pc[r] # "t_active"
      BY OtherHas, <1>OtherPcFacts DEF AcceptStep, AcceptLock, AcceptCheckActive, AcceptLoadAttempt,
          AcceptFindOrCreateRow, AcceptDeleteAttempt, AcceptDropActive, AcceptAudit, AcceptUnlock, At
    <2>2. PICK l \in AcceptPc \cup {"end", "done"} : Goto(r, l)
      BY OtherHas, Zenon DEF AcceptStep, AcceptLock, AcceptCheckActive, AcceptLoadAttempt,
          AcceptFindOrCreateRow, AcceptDeleteAttempt, AcceptDropActive, AcceptAudit, AcceptUnlock,
          AcceptRaise
    <2>3. Goes(r, {l})
      BY ZenonT(30), <2>0, <2>2, GotoGoes, LabelsHas
    <2>4. UNCHANGED frame \/ Fail(r)
      BY Zenon DEF AcceptStep, AcceptLock, AcceptCheckActive, AcceptLoadAttempt,
          AcceptFindOrCreateRow, AcceptDeleteAttempt, AcceptDropActive, AcceptAudit, AcceptUnlock,
          AcceptRaise, Fail
    <2>5. FramesAlike
      BY Zenon, <2>0, <2>4, <1>SameAlike, FailFrame, <1>KeptAlike
    <2>6. UNCHANGED attempt \/ attempt' = [attempt EXCEPT ![Prior(r)] = None]
      BY Zenon DEF AcceptStep, AcceptLock, AcceptCheckActive, AcceptLoadAttempt,
          AcceptFindOrCreateRow, AcceptDeleteAttempt, AcceptDropActive, AcceptAudit, AcceptUnlock,
          redis
    <2>7. AttemptStep(r)
      BY ZenonT(30), <2>0, <2>6, AttemptsKept, AttemptRemoved
    <2>8. UNCHANGED active \/ active' = [active EXCEPT ![Http[r]] = None]
      BY Zenon DEF AcceptStep, AcceptLock, AcceptCheckActive, AcceptLoadAttempt,
          AcceptFindOrCreateRow, AcceptDeleteAttempt, AcceptDropActive, AcceptAudit, AcceptUnlock,
          redis
    <2>9. ActiveStep(r)
      BY Zenon, <2>0, <2>1, <2>8, ActiveKept, ActiveRemoved
    <2>10. attempt'[r] \in {attempt[r], None}
      BY Zenon, <2>0, <2>6 DEF TypeOK
    <2> QED
      BY ZenonT(30), <2>1, <2>3, <2>5, <2>7, <2>9, <2>10, <1>AcceptMoves
  <1>DeleteSteps.
    ASSUME DeleteStep(r)
    PROVE  RequestStep(r) /\ AttemptStep(r) /\ ActiveStep(r)
    <2> USE <1>DeleteSteps
    (* cancel_local_session_work sets killed in the frames of other requests. *)
    <2>LocalWorkAlike.
      ASSUME CancelLocalSessionWork(r)
      PROVE  FramesAlike
      <3> USE <2>LocalWorkAlike
      <3>1. ASSUME NEW q \in Requests
            PROVE  frame'[q] \in Frames /\ Alike(frame'[q], frame[q])
        <4>1. frame[q] \in Frames
          BY Zenon DEF TypeOK
        <4>2. CASE frame'[q] = frame[q]
          BY <4>1, <4>2 DEF Alike
        <4>3. CASE frame'[q] = [frame[q] EXCEPT !.killed = TRUE]
          <5> DEFINE f == [frame[q] EXCEPT !.killed = TRUE]
          <5>1. f \in Frames
            BY <4>1, Zenon DEF Frames
          <5>2. Alike(f, frame[q])
            BY <4>1, ZenonT(30) DEF Frames, Alike
          <5> HIDE DEF f
          <5> QED
            BY ZenonT(30), <4>3, <5>1, <5>2 DEF f
        <4> QED
          BY Zenon, <4>2, <4>3 DEF CancelLocalSessionWork
      <3>2. frame' = [q \in Requests |-> frame'[q]]
        BY Zenon DEF CancelLocalSessionWork
      <3> QED
        BY Zenon, <3>1, <3>2 DEF FramesAlike
    (* The cleanup script removes records and active attempts, nothing else. *)
    <2>CleanupKeys.
      ASSUME CleanupCancelledSessionState(r), pc[r] # "t_active"
      PROVE  AttemptStep(r) /\ ActiveStep(r) /\ attempt'[r] \in {attempt[r], None}
      <3> USE <2>CleanupKeys
      <3> DEFINE gone == tracked[Target[r]] \cup
                         (IF op[Target[r]] = None THEN {} ELSE {OperationAttempt(op[Target[r]])})
      <3>1. \/ UNCHANGED attempt
            \/ attempt' = [a \in Requests |-> IF a \in gone THEN None ELSE attempt[a]]
        BY Zenon DEF CleanupCancelledSessionState
      <3>2. \/ UNCHANGED active
            \/ active' = [h \in HttpSessions |-> IF active[h] \in gone THEN None ELSE active[h]]
        BY DEF CleanupCancelledSessionState
      <3> HIDE DEF gone
      <3>3. AttemptStep(r) /\ attempt'[r] \in {attempt[r], None}
        BY Zenon, <3>1 DEF AttemptStep, TypeOK, Maybe
      <3>4. ActiveStep(r)
        BY ZenonT(30), <3>2 DEF ActiveStep, TypeOK, Maybe
      <3> QED
        BY Zenon, <3>3, <3>4
    <2>0. TypeOK
      BY SMTT(30) DEF AttemptInv
    <2>1. CASE DeleteFindSession(r)
      <3>1. /\ pc[r] = "start" /\ Kind[r] = "delete" /\ UNCHANGED <<attempt, active>> /\ FramesAlike
        BY Zenon, <2>0, <2>1, <1>SameAlike DEF DeleteFindSession, At, redis
      <3>2. AttemptStep(r) /\ ActiveStep(r)
        BY Zenon, <2>0, <3>1, <1>QuietKeys
      <3>3. PICK l \in {"d_mark", "done"} : Goto(r, l)
        BY Zenon, <2>1 DEF DeleteFindSession
      <3>4. Goes(r, {l}) /\ l \in Labels /\ l \in DeleteLabels
        BY Zenon, <2>0, <3>3, GotoGoes, LabelsHas, OtherHas DEF DeleteLabels
      <3>5. l \in Outer
        BY Zenon, <1>OuterHas, OtherHas
      <3>6. Fits(r, l)
        BY Zenon, <3>1, <3>4, <1>DeleteTo
      <3>7. pc[r] \notin PostActive \cup Over /\ ~IsRetry(r)
        BY Zenon, <3>1 DEF PostActive, Over, IsRetry
      <3> QED
        BY Zenon, <3>1, <3>2, <3>4, <3>5, <3>6, <3>7, <1>OuterStep
    <2>2. CASE ~DeleteFindSession(r)
      <3>1. pc[r] \in DeletePc /\ pc[r] # "t_active"
        BY ZenonT(30), <2>2, OtherHas, <1>OtherPcFacts DEF DeleteStep, MarkSessionCancelling, CancelLocalSessionWork,
            CleanupCancelledSessionState, DeleteSessionRow, DeleteCommit, DeleteUndo, At
      <3>2. PICK l \in DeletePc \cup {"done"} : Goto(r, l)
        BY <2>2, OtherHas, Zenon DEF DeleteStep, MarkSessionCancelling, CancelLocalSessionWork,
            CleanupCancelledSessionState, DeleteSessionRow, DeleteCommit, DeleteUndo
      <3>3. Goes(r, {l})
        BY ZenonT(30), <2>0, <3>2, GotoGoes, LabelsHas
      <3>4. UNCHANGED frame \/ Fail(r) \/ CancelLocalSessionWork(r)
        BY <2>2, Zenon DEF DeleteStep, MarkSessionCancelling,
            CleanupCancelledSessionState, DeleteSessionRow, DeleteCommit, DeleteUndo, Fail
      <3>5. FramesAlike
        BY ZenonT(30), <2>0, <3>4, <1>SameAlike, FailFrame, <1>KeptAlike, <2>LocalWorkAlike
      <3>6. UNCHANGED <<attempt, active>> \/ CleanupCancelledSessionState(r)
        BY <2>2, Zenon DEF DeleteStep, MarkSessionCancelling, CancelLocalSessionWork,
            DeleteSessionRow, DeleteCommit, DeleteUndo, redis
      <3>7. AttemptStep(r) /\ ActiveStep(r) /\ attempt'[r] \in {attempt[r], None}
        BY ZenonT(30), <2>0, <3>1, <3>6, <1>QuietKeys, <2>CleanupKeys
      <3> QED
        BY Zenon, <3>1, <3>3, <3>5, <3>7, <1>DeleteMoves
    <2> QED
      BY Zenon, <2>1, <2>2
  <1> QED
    BY Zenon, <1>LockSteps, <1>OpenAttemptStep, <1>AcceptSteps, <1>DeleteSteps DEF OuterAction

(* A step of a request keeps to the rules of AttemptInvKept and to the types. *)
LEMMA RequestMoves ==
  ASSUME QueryAssumption, AttemptInv, NEW r \in Requests, Step(r) \/ Interrupt(r)
  PROVE  RequestStep(r) /\ AttemptStep(r) /\ ActiveStep(r) /\ TypeOK'
  <1>1. TypeOK /\ RequestOK(r)
    BY Zenon DEF AttemptInv, RequestsOK
  <1>2. RequestStep(r) /\ AttemptStep(r) /\ ActiveStep(r)
    BY Zenon, <1>1, StepCases, QueryMoves, InsideIsStep, OuterSteps DEF QueryMove
  <1>3. KeysTyped' /\ RowsTyped'
    BY Zenon, <1>1, StepTyped
  <1> QED
    BY Zenon, <1>2, <1>3 DEF TypeOK, KeysTyped, RowsTyped, RequestStep, Goes, AttemptStep, ActiveStep

(* A key that expires. *)
LEMMA ExpiryKeeps ==
  ASSUME QueryAssumption, AttemptInv, Expiry
  PROVE  /\ AttemptInv'
         /\ \A a \in Requests : attempt'[a] \in {attempt[a], None}
  <1>0. TypeOK /\ UNCHANGED <<tracked, active, marker, inflight, database, pc, due, frame, txn>>
    BY Zenon DEF AttemptInv, Expiry, LockExpires, OperationExpires, AttemptExpires, AcceptLockExpires
  <1>1. /\ attempt' \in [Requests -> Maybe(Attempts)]
        /\ \A a \in Requests : attempt'[a] \in {attempt[a], None}
    <2>1. UNCHANGED attempt \/ \E a \in Requests : attempt' = [attempt EXCEPT ![a] = None]
      BY Zenon DEF Expiry, LockExpires, OperationExpires, AttemptExpires, AcceptLockExpires
    <2> QED
      BY Zenon, <1>0, <2>1 DEF TypeOK, Maybe
  <1>2. lock' \in [HttpSessions -> Maybe(Requests)]
    <2>1. UNCHANGED lock \/ \E h \in HttpSessions : lock' = [lock EXCEPT ![h] = None]
      BY Zenon DEF Expiry, LockExpires, OperationExpires, AttemptExpires, AcceptLockExpires
    <2> QED
      BY Zenon, <1>0, <2>1 DEF TypeOK, Maybe
  <1>3. op' \in [Chats -> Maybe(Requests)]
    <2>1. UNCHANGED op \/ \E s \in Chats : op' = [op EXCEPT ![s] = None]
      BY Zenon DEF Expiry, LockExpires, OperationExpires, AttemptExpires, AcceptLockExpires
    <2> QED
      BY Zenon, <1>0, <2>1 DEF TypeOK, Maybe
  <1>4. acceptLock' \in [Requests -> BOOLEAN]
    <2>1. UNCHANGED acceptLock \/ \E a \in Requests : acceptLock' = [acceptLock EXCEPT ![a] = FALSE]
      BY Zenon DEF Expiry, LockExpires, OperationExpires, AttemptExpires, AcceptLockExpires
    <2> QED
      BY Zenon, <1>0, <2>1 DEF TypeOK
  <1>5. TypeOK'
    BY Zenon, <1>0, <1>1, <1>2, <1>3, <1>4 DEF TypeOK, database
  <1>6. RequestsOK'
    <2>1. ASSUME NEW q \in Requests PROVE RequestOK(q)'
      <3>1. RequestOK(q) /\ Alike(frame'[q], frame[q])
        BY <1>0, SMTT(30) DEF AttemptInv, RequestsOK, Alike
      <3> QED
        BY Zenon, <1>0, <1>1, <3>1, OthersRequestOK
    <2> QED
      BY Zenon, <2>1 DEF RequestsOK
  <1>7. PriorsOK'
    BY Zenon, <1>0 DEF AttemptInv, PriorsOK, PriorOK, Prior
  <1>8. ActiveOK'
    <2>1. \A h \in HttpSessions : active[h] # None => active[h] \in Requests
      BY Zenon, <1>0 DEF TypeOK, Maybe
    <2> QED
      BY <1>0, <1>1, <2>1 DEF AttemptInv, ActiveOK
  <1> QED
    BY Zenon, <1>1, <1>5, <1>6, <1>7, <1>8 DEF AttemptInv

(* A worker that dies. *)
LEMMA CrashKeeps ==
  ASSUME QueryAssumption, AttemptInv, NEW w \in Workers, WorkerCrash(w)
  PROVE  AttemptInv' /\ UNCHANGED attempt
  <1>0. TypeOK /\ UNCHANGED <<redis, database, frame>> /\ UNCHANGED <<attempt, active>>
    BY Zenon DEF AttemptInv, WorkerCrash, redis
  <1>1. \A q \in Requests : \/ pc'[q] = pc[q] /\ due'[q] \in {due[q], <<>>}
                            \/ pc'[q] = "crashed" /\ due'[q] = <<>> /\ pc[q] # "start"
    BY Zenon DEF WorkerCrash, Alive
  <1>2. pc' \in [Requests -> Labels] /\ due' \in [Requests -> Seq({"ensure", "log"})]
    <2>1. <<>> \in Seq({"ensure", "log"})
      BY Zenon, WaitsType, WaitsHas
    <2> QED
      BY Zenon, <1>0, <2>1, LabelsHas DEF WorkerCrash, TypeOK
  <1>3. inflight' \in [Workers \X HttpSessions -> Maybe(Requests)]
    BY Zenon, <1>0 DEF WorkerCrash, TypeOK, Maybe
  <1>4. txn' \in [Requests -> Txns]
    BY Zenon, <1>0, NoTxnType DEF WorkerCrash, TypeOK
  <1>5. TypeOK'
    BY Zenon, <1>0, <1>2, <1>3, <1>4 DEF TypeOK, redis, database
  <1>6. RequestsOK'
    <2>1. ASSUME NEW q \in Requests PROVE RequestOK(q)'
      <3>0. RequestOK(q) /\ frame'[q] = frame[q] /\ attempt'[q] = attempt[q]
        BY <1>0, SMTT(30) DEF AttemptInv, RequestsOK
      <3>1. CASE pc'[q] = pc[q] /\ due'[q] \in {due[q], <<>>}
        BY Zenon, <3>0, <3>1, RequestOKNext DEF RequestOK, Prior
      <3>2. CASE pc'[q] = "crashed" /\ due'[q] = <<>> /\ pc[q] # "start"
        <4>1. Fits(q, "crashed")
          BY Zenon, Roles DEF Fits, SubmitLabels, RetryLabels, QueryLabels, AcceptLabels, DeleteLabels
        <4>2. LabelFits(q, "crashed", frame'[q]) /\ AttemptFits(q, "crashed", frame'[q].state, attempt'[q])
          BY Zenon, PlainFits DEF PlainPc
        <4> QED
          BY Zenon, <3>0, <3>2, <4>1, <4>2, RequestOKNext DEF RequestOK, Prior
      <3> QED
        BY Zenon, <1>1, <3>1, <3>2
    <2> QED
      BY Zenon, <2>1 DEF RequestsOK
  <1>7. PriorsOK'
    <2>1. ASSUME NEW q \in Requests PROVE PriorOK(q)'
      <3>1. PriorOK(q) /\ frame'[q] = frame[q]
        BY Zenon, <1>0 DEF AttemptInv, PriorsOK
      <3>2. Prior(q) # None => Prior(q) \in Requests
        BY <1>0 DEF TypeOK, Frames, Maybe, Prior
      <3>3. Prior(q) # None => pc'[Prior(q)] \in Over
        BY Zenon, <1>1, <3>1, <3>2 DEF PriorOK, Over
      <3>4. pc'[q] = "start" => pc[q] = "start"
        BY Zenon, <1>1
      <3> QED
        BY Zenon, <3>1, <3>3, <3>4 DEF PriorOK, Prior
    <2> QED
      BY Zenon, <2>1 DEF PriorsOK
  <1>8. ActiveOK'
    <2>1. ASSUME NEW h \in HttpSessions, active[h] # None
          PROVE  /\ Http[active[h]] = h
                 /\ pc'[active[h]] \in PostActive
                 /\ attempt[active[h]] # None /\ attempt[active[h]].state # "EXECUTED" =>
                      \E q \in Requests : Http[q] = h /\ pc'[q] \in {"t_active", "crashed"}
      <3>1. PICK a \in Requests : a = active[h]
        BY Zenon, <1>0, <2>1 DEF TypeOK, Maybe
      <3>2. Http[a] = h /\ pc[a] \in PostActive
        BY <2>1, <3>1 DEF AttemptInv, ActiveOK
      <3>3. pc'[a] \in PostActive
        BY Zenon, <1>1, <3>2 DEF PostActive, Over
      <3>4. ASSUME attempt[a] # None, attempt[a].state # "EXECUTED"
            PROVE  \E q \in Requests : Http[q] = h /\ pc'[q] \in {"t_active", "crashed"}
        <4>1. PICK q \in Requests : Http[q] = h /\ pc[q] \in {"t_active", "crashed"}
          BY Zenon, <2>1, <3>1, <3>4 DEF AttemptInv, ActiveOK
        <4> QED
          BY Zenon, <1>1, <4>1
      <3> QED
        BY Zenon, <3>1, <3>2, <3>3, <3>4
    <2> QED
      BY Zenon, <1>0, <2>1 DEF ActiveOK
  <1> QED
    BY Zenon, <1>0, <1>5, <1>6, <1>7, <1>8 DEF AttemptInv

(* The invariant holds initially ... *)
LEMMA AttemptInvInit ==
  ASSUME QueryAssumption, Init
  PROVE  AttemptInv
  <1>1. TypeOK
    <2>1. frame \in [Requests -> Frames]
      <3>1. ASSUME NEW r \in Requests PROVE frame[r] \in Frames
        <4>1. PICK c \in Maybe(Chats) : c = IF Kind[r] \in {"submit", "delete"} THEN Target[r] ELSE None
          BY Zenon DEF QueryAssumption, Maybe
        <4>2. frame[r] = [chat |-> c, prior |-> None, state |-> None, trk |-> None, tmo |-> None,
                          operation |-> FALSE, late |-> FALSE, killed |-> FALSE, ok |-> TRUE]
          BY Zenon, <4>1 DEF Init
        <4>3. None \in Maybe(Requests) /\ None \in Maybe(AttemptStates)
          BY DEF Maybe
        <4>4. [chat |-> c, prior |-> None, state |-> None, trk |-> None, tmo |-> None,
               operation |-> FALSE, late |-> FALSE, killed |-> FALSE, ok |-> TRUE] \in Frames
          BY <4>3, Zenon DEF Frames
        <4> QED
          BY Zenon, <4>2, <4>4
      <3>2. frame = [r \in Requests |-> frame[r]]
        BY Zenon DEF Init
      <3> QED
        BY Zenon, <3>1, <3>2
    <2>2. pc \in [Requests -> Labels] /\ due \in [Requests -> Seq({"ensure", "log"})]
      BY Zenon, LabelsHas, WaitsType, WaitsHas DEF Init
    <2>3. txn \in [Requests -> Txns]
      BY Zenon, NoTxnType DEF Init
    <2>4. attempt \in [Requests -> Maybe(Attempts)] /\ active \in [HttpSessions -> Maybe(Requests)]
      BY Zenon DEF Init, Maybe
    <2>5. KeysTyped
      BY Zenon DEF Init, KeysTyped, Maybe
    <2>6. RowsTyped
      BY Zenon, <2>3 DEF Init, RowsTyped, Maybe, QueryAssumption
    <2> QED
      BY Zenon, <2>1, <2>2, <2>4, <2>5, <2>6 DEF TypeOK, KeysTyped, RowsTyped
  <1>2. \A q \in Requests : /\ pc[q] = "start" /\ due[q] = <<>> /\ attempt[q] = None
                            /\ frame[q].prior = None /\ frame[q].tmo = None /\ frame[q].trk = None
    BY Zenon DEF Init
  <1>3. \A q \in Requests : Kind[q] \in {"submit", "delete"} => frame[q].chat = Target[q]
    BY Zenon DEF Init
  <1>4. RequestsOK
    <2>1. ASSUME NEW q \in Requests PROVE RequestOK(q)
      <3>1. Fits(q, "start")
        BY Zenon DEF Fits, SubmitLabels, RetryLabels, QueryLabels, AcceptLabels, DeleteLabels
      <3>2. LabelFits(q, "start", frame[q])
        BY Zenon, <1>2 DEF LabelFits, StateFits, TimeoutPc, Loaded, Working
      <3>3. FrameFits(q, frame[q])
        BY Zenon, <1>2, <1>3 DEF FrameFits
      <3> QED
        BY Zenon, <1>2, <3>1, <3>2, <3>3 DEF RequestOK, AttemptFits
    <2> QED
      BY <2>1, SMTT(30) DEF RequestsOK
  <1>5. PriorsOK
    BY Zenon, <1>2 DEF PriorsOK, PriorOK, Prior
  <1>6. ActiveOK
    BY Zenon DEF Init, ActiveOK
  <1> QED
    BY Zenon, <1>1, <1>4, <1>5, <1>6 DEF AttemptInv

(* ... and every step keeps it. *)
LEMMA AttemptInvNext ==
  ASSUME QueryAssumption, AttemptInv, [Next]_vars
  PROVE  AttemptInv'
  <1>1. ASSUME NEW r \in Requests, Step(r) \/ Interrupt(r) PROVE AttemptInv'
    BY ZenonT(30), <1>1, RequestMoves, AttemptInvKept DEF AttemptInv
  <1>2. CASE Expiry
    BY Zenon, <1>2, ExpiryKeeps
  <1>3. ASSUME NEW w \in Workers, WorkerCrash(w) PROVE AttemptInv'
    BY Zenon, <1>3, CrashKeeps
  <1>4. CASE UNCHANGED vars
    <2>1. UNCHANGED <<lock, op, tracked, attempt, active, marker, acceptLock>>
      BY Zenon, <1>4 DEF vars, redis
    <2>2. UNCHANGED <<inflight, sessions, saved, pc, due, frame, txn>>
      BY Zenon, <1>4 DEF vars, database
    <2>3. TypeOK'
      BY Zenon, <2>1, <2>2 DEF AttemptInv, TypeOK
    <2>4. RequestsOK'
      <3>1. ASSUME NEW q \in Requests PROVE RequestOK(q)'
        BY Zenon, <2>1, <2>2, OthersRequestOK DEF AttemptInv, RequestsOK, Alike
      <3> QED
        BY <3>1, SMTT(30) DEF RequestsOK
    <2>5. PriorsOK' /\ ActiveOK'
      BY Zenon, <2>1, <2>2 DEF AttemptInv, PriorsOK, PriorOK, Prior, ActiveOK
    <2> QED
      BY Zenon, <2>3, <2>4, <2>5 DEF AttemptInv
  <1> QED
    BY Zenon, <1>1, <1>2, <1>3, <1>4 DEF Next, Idle

(* The inductive invariant holds, whatever the environment may do. *)
THEOREM AttemptsCorrect == Spec => []AttemptInv
  <1>1. Init => AttemptInv
    BY Zenon, QueryAssumption, AttemptInvInit
  <1>2. AttemptInv /\ [Next]_vars => AttemptInv'
    BY QueryAssumption, AttemptInvNext
  <1> QED
    BY <1>1, <1>2, PTL DEF Spec

(***************************************************************************)
(* Every variable keeps its type: what a handler writes to Redis, to its   *)
(* transaction and to the platform database is a value of that key or row. *)
(***************************************************************************)
THEOREM TypeCorrect == Spec => []TypeOK
  <1>1. AttemptInv => TypeOK
    BY DEF AttemptInv
  <1> QED
    BY <1>1, AttemptsCorrect, PTL

(***************************************************************************)
(* When no request of an HTTP session is under way, its active attempt is  *)
(* an executed one, for any number of requests, sessions, chats and        *)
(* workers and whatever the environment does: the timeout handler, a       *)
(* rejection and a failed stage never leave their attempt open.            *)
(***************************************************************************)
THEOREM ActiveIsExecuted == Spec => []ActiveAttemptIsExecuted
  <1>1. AttemptInv => ActiveAttemptIsExecuted
    <2> SUFFICES ASSUME AttemptInv, NEW h \in HttpSessions, active[h] # None, attempt[active[h]] # None,
                        \A r \in Requests : Http[r] = h => ~Alive(r) /\ pc[r] # "crashed"
                 PROVE  attempt[active[h]].state = "EXECUTED"
      BY Zenon DEF ActiveAttemptIsExecuted
    <2> QED
      BY Zenon DEF AttemptInv, ActiveOK, Alive
  <1> QED
    BY <1>1, AttemptsCorrect, PTL

(***************************************************************************)
(* The stored state of an attempt only moves forward: store_attempt of the *)
(* pipeline, of the timeout handler and of a rejection never put back an   *)
(* earlier state, whatever the other requests did in between.              *)
(***************************************************************************)
THEOREM AttemptsMoveForward == Spec => AttemptMovesForward
  <1> DEFINE Forward == \A a \in Requests :
                attempt[a] # None /\ attempt'[a] # None
                    => Rank[attempt[a].state] =< Rank[attempt'[a].state]
  <1>1. AttemptInv /\ [Next]_vars => [Forward]_vars
    <2> SUFFICES ASSUME AttemptInv, Next, NEW a \in Requests, attempt[a] # None, attempt'[a] # None
                 PROVE  Rank[attempt[a].state] =< Rank[attempt'[a].state]
      BY Zenon
    <2>1. CASE attempt'[a] = attempt[a]
      <3>1. attempt[a].state \in AttemptStates
        BY Zenon DEF AttemptInv, TypeOK, Maybe, Attempts
      <3> QED
        BY <2>1, <3>1, RankOrder
    <2>2. CASE attempt'[a] # attempt[a]
      <3>1. ASSUME NEW r \in Requests, Step(r) \/ Interrupt(r)
            PROVE  Rank[attempt[a].state] =< Rank[attempt'[a].state]
        BY Zenon, <2>2, <3>1, QueryAssumption, RequestMoves DEF AttemptStep
      <3>2. CASE Expiry
        BY Zenon, <2>2, <3>2, QueryAssumption, ExpiryKeeps
      <3>3. ASSUME NEW w \in Workers, WorkerCrash(w)
            PROVE  Rank[attempt[a].state] =< Rank[attempt'[a].state]
        BY Zenon, <2>2, <3>3, QueryAssumption, CrashKeeps
      <3>4. CASE Idle
        BY <2>2, <3>4 DEF Idle, vars, redis
      <3> QED
        BY ZenonT(30), <3>1, <3>2, <3>3, <3>4 DEF Next
    <2> QED
      BY Zenon, <2>1, <2>2
  <1> HIDE DEF Forward
  <1>2. Spec => [][Forward]_vars
    BY <1>1, AttemptsCorrect, PTL DEF Spec
  <1> QED
    BY Zenon, <1>2 DEF AttemptMovesForward, Forward
=============================================================================
