--------------------------- MODULE QueryLifecycle ---------------------------
(***************************************************************************)
(* The life of a question: the query handlers of QueryPipeline together    *)
(* with POST /query/accept and DELETE /sessions/:id, run as concurrent     *)
(* requests of several workers over one Redis and one platform database,   *)
(* whose keys expire and whose workers may die.                            *)
(***************************************************************************)
EXTENDS QueryPipeline

-----------------------------------------------------------------------------
(* accept_query: no processing lock, a lock of its own per attempt with a  *)
(* TTL of five seconds and no owner.                                       *)
AcceptLock(r) ==
    /\ At(r, "a_lock")
    /\ IF acceptLock[Prior(r)]
       THEN Goto(r, "done") /\ UNCHANGED acceptLock
       ELSE Goto(r, "a_active") /\ acceptLock' = [acceptLock EXCEPT ![Prior(r)] = TRUE]
    /\ UNCHANGED <<lock, op, tracked, attempt, active, marker, inflight, database, frame, txn>>

(* An accept that raises still deletes its lock. *)
AcceptRaise(r) ==
    /\ frame' = [frame EXCEPT ![r].ok = FALSE]
    /\ Goto(r, "a_unlock")

AcceptCheckActive(r) ==
    /\ At(r, "a_active")
    /\ IF active[Http[r]] = Prior(r)
       THEN Goto(r, "a_attempt") /\ UNCHANGED frame
       ELSE AcceptRaise(r)
    /\ UNCHANGED <<redis, inflight, database, txn>>

AcceptLoadAttempt(r) ==
    /\ At(r, "a_attempt")
    /\ IF attempt[Prior(r)] # None /\ attempt[Prior(r)].state = "EXECUTED"
       THEN Goto(r, "a_row") /\ UNCHANGED frame
       ELSE AcceptRaise(r)
    /\ UNCHANGED <<redis, inflight, database, txn>>

(* A row for this attempt is enough; otherwise one is inserted, which      *)
(* waits for a deletion of its chat session and fails if that is gone.     *)
AcceptFindOrCreateRow(r) ==
    /\ At(r, "a_row")
    /\ \/ /\ Cardinality(RowsOf(Prior(r))) = 1
          /\ Goto(r, "a_drop")
          /\ UNCHANGED <<frame, txn>>
       \/ /\ Cardinality(RowsOf(Prior(r))) > 1
          /\ AcceptRaise(r)
          /\ UNCHANGED txn
       \/ /\ RowsOf(Prior(r)) = {}
          /\ \A q \in Requests : Kind[q] = "delete" => txn[q].updates \notin {Chat(r)} \ {None}
          /\ IF Chat(r) \in sessions \cup {None}
             THEN /\ txn' = [txn EXCEPT ![r].row = r, ![r].refers = Chat(r),
                                        ![r].value = [attempt |-> Prior(r), chat |-> Chat(r)]]
                  /\ Goto(r, "a_drop")
                  /\ UNCHANGED frame
             ELSE AcceptRaise(r) /\ UNCHANGED txn
    /\ UNCHANGED <<redis, inflight, database>>

AcceptDeleteAttempt(r) ==
    /\ At(r, "a_drop")
    /\ attempt' = [attempt EXCEPT ![Prior(r)] = None]
    /\ Goto(r, "a_inactive")
    /\ UNCHANGED <<lock, op, tracked, active, marker, acceptLock,
                    inflight, database, frame, txn>>

AcceptDropActive(r) ==
    /\ At(r, "a_inactive")
    /\ active' = [active EXCEPT ![Http[r]] = None]
    /\ Goto(r, "a_audit")
    /\ UNCHANGED <<lock, op, tracked, attempt, marker, acceptLock,
                    inflight, database, frame, txn>>

(* QUERY_ACCEPT is logged in the request transaction. *)
AcceptAudit(r) ==
    /\ At(r, "a_audit")
    /\ AuditFree
    /\ txn' = [txn EXCEPT ![r].audit = TRUE]
    /\ Goto(r, "a_unlock")
    /\ UNCHANGED <<redis, inflight, database, frame>>

AcceptUnlock(r) ==
    /\ At(r, "a_unlock")
    /\ acceptLock' = [acceptLock EXCEPT ![Prior(r)] = FALSE]
    /\ Goto(r, "end")
    /\ UNCHANGED <<lock, op, tracked, attempt, active, marker, inflight, database, frame, txn>>

-----------------------------------------------------------------------------
(* delete_session. *)
DeleteFindSession(r) ==
    /\ Kind[r] = "delete"
    /\ At(r, "start")
    /\ Goto(r, IF Target[r] \in sessions THEN "d_mark" ELSE "done")
    /\ UNCHANGED <<redis, inflight, database, frame, txn>>

(* SET NX of session_cancelled:<s>: a second deletion answers 404. *)
MarkSessionCancelling(r) ==
    /\ At(r, "d_mark")
    /\ IF marker[Target[r]] = None
       THEN Goto(r, "d_cancel") /\ marker' = [marker EXCEPT ![Target[r]] = r]
       ELSE Goto(r, "done") /\ UNCHANGED marker
    /\ UNCHANGED <<lock, op, tracked, attempt, active, acceptLock,
                    inflight, database, frame, txn>>

(* Cancels the stage tasks of this worker only. *)
CancelLocalSessionWork(r) ==
    /\ At(r, "d_cancel")
    /\ frame' = [q \in Requests |->
                    IF pc[q] \in Stages /\ due[q] = <<>> /\ Worker[q] = Worker[r] /\ Chat(q) = Target[r]
                    THEN [frame[q] EXCEPT !.killed = TRUE] ELSE frame[q]]
    /\ Goto(r, "d_clean")
    /\ UNCHANGED <<redis, inflight, database, txn>>

(* mutant of CleanupCancelledSessionState *)
CleanupNeedsOperation(r) ==
    /\ At(r, "d_clean")
    /\ Goto(r, IF op[Target[r]] = None THEN "d_undo" ELSE "d_delete")
    /\ op' = [op EXCEPT ![Target[r]] = None]
    /\ UNCHANGED <<lock, tracked, attempt, active, marker, acceptLock,
                    inflight, database, frame, txn>>

(* _CLEAN_CANCELLED_STATE_SCRIPT: the registered operation with its lock   *)
(* and attempt, then every tracked attempt; 503 if the marker is not ours. *)
CleanupCancelledSessionState(r) ==
    /\ At(r, "d_clean")
    /\ LET s == Target[r]
           q == op[s]
           gone == tracked[s] \cup (IF q = None THEN {} ELSE {OperationAttempt(q)})
       IN IF marker[s] # r
          THEN Goto(r, "d_undo") /\ UNCHANGED <<lock, op, tracked, attempt, active>>
          ELSE /\ lock' = [h \in HttpSessions |->
                              IF q # None /\ lock[h] = q THEN None ELSE lock[h]]
               /\ op' = [op EXCEPT ![s] = None]
               /\ tracked' = [tracked EXCEPT ![s] = {}]
               /\ attempt' = [a \in Requests |-> IF a \in gone THEN None ELSE attempt[a]]
               /\ active' = [h \in HttpSessions |->
                                IF active[h] \in gone THEN None ELSE active[h]]
               /\ Goto(r, "d_delete")
    /\ UNCHANGED <<marker, acceptLock, inflight, database, frame, txn>>

(* DELETE waits for every transaction that updated or refers to the row. *)
DeleteSessionRow(r) ==
    /\ At(r, "d_delete")
    /\ \A q \in Requests \ {r} : Target[r] \notin {txn[q].updates, txn[q].refers}
    /\ IF Target[r] \in sessions
       THEN Goto(r, "d_commit") /\ txn' = [txn EXCEPT ![r].updates = Target[r]]
       ELSE Goto(r, "d_undo") /\ UNCHANGED txn
    /\ UNCHANGED <<redis, inflight, database, frame>>

(* The rows of the chat session go with it (ON DELETE CASCADE). *)
DeleteCommit(r) ==
    /\ At(r, "d_commit")
    /\ \/ /\ sessions' = sessions \ {Target[r]}
          /\ saved' = [q \in Requests |->
                          IF saved[q] # None /\ saved[q].chat = Target[r] THEN None ELSE saved[q]]
          /\ txn' = [txn EXCEPT ![r] = NoTxn]
          /\ Goto(r, "done")
       \/ /\ "commit" \in Faults
          /\ Goto(r, "d_undo")
          /\ UNCHANGED <<database, txn>>
    /\ UNCHANGED <<redis, inflight, frame>>

(* Any exception: roll back, then clear_cancellation_if_owned. *)
DeleteUndo(r) ==
    /\ At(r, "d_undo")
    /\ txn' = [txn EXCEPT ![r] = NoTxn]
    /\ marker' = [marker EXCEPT ![Target[r]] = IF @ = r THEN None ELSE @]
    /\ frame' = [frame EXCEPT ![r].ok = FALSE]
    /\ Goto(r, "done")
    /\ UNCHANGED <<lock, op, tracked, attempt, active, acceptLock, inflight, database>>

-----------------------------------------------------------------------------
(* Environment. *)
Finished(r) == pc[r] \in {"done", "crashed"}
Unwinding(r) == pc[r] \in FinallyPc \cup TimeoutPc \cup {"end"} \/ frame[r].late

(* mutant of LockExpires *)
LockWithoutTTL(h) ==
    /\ h \notin HttpSessions
    /\ UNCHANGED vars

(* The TTL of the lock is the query timeout plus five seconds, so it can   *)
(* only pass while its owner is past its deadline or gone.                 *)
LockExpires(h) ==
    /\ "expiry" \in Faults
    /\ lock[h] # None
    /\ Finished(lock[h]) \/ Unwinding(lock[h])
    /\ lock' = [lock EXCEPT ![h] = None]
    /\ UNCHANGED <<op, tracked, attempt, active, marker, acceptLock,
                    inflight, database, pc, due, frame, txn>>

(* Operations, attempts and markers live fifteen minutes, well beyond any  *)
(* request; tracking sets live as long and are left to their attempts.     *)
OperationExpires(s) ==
    /\ "expiry" \in Faults
    /\ op[s] # None /\ Finished(op[s])
    /\ op' = [op EXCEPT ![s] = None]
    /\ UNCHANGED <<lock, tracked, attempt, active, marker, acceptLock,
                    inflight, database, pc, due, frame, txn>>

AttemptExpires(a) ==
    /\ "expiry" \in Faults
    /\ attempt[a] # None /\ Finished(a)
    /\ attempt' = [attempt EXCEPT ![a] = None]
    /\ UNCHANGED <<lock, op, tracked, active, marker, acceptLock,
                    inflight, database, pc, due, frame, txn>>

(* Five seconds are short: an accept may wait longer for the audit lock. *)
AcceptLockExpires(a) ==
    /\ "expiry" \in Faults
    /\ acceptLock[a]
    /\ acceptLock' = [acceptLock EXCEPT ![a] = FALSE]
    /\ UNCHANGED <<lock, op, tracked, attempt, active, marker,
                    inflight, database, pc, due, frame, txn>>

(* A worker dies: its memory and its open transactions are gone. *)
Alive(r) == pc[r] \notin {"start", "done", "crashed"}

WorkerCrash(w) ==
    /\ "crash" \in Faults
    /\ \E r \in Requests : Worker[r] = w /\ Alive(r)
    /\ inflight' = [x \in Workers \X HttpSessions |-> IF x[1] = w THEN None ELSE inflight[x]]
    /\ pc' = [r \in Requests |-> IF Worker[r] = w /\ Alive(r) THEN "crashed" ELSE pc[r]]
    /\ due' = [r \in Requests |-> IF Worker[r] = w THEN <<>> ELSE due[r]]
    /\ txn' = [r \in Requests |-> IF Worker[r] = w THEN NoTxn ELSE txn[r]]
    /\ UNCHANGED <<redis, database, frame>>

-----------------------------------------------------------------------------
QueryStep(r) ==
    \/ AcquireLockBegin(r) \/ AcquireLock(r) \/ PrepareSubmit(r) \/ OpenChatSession(r)
    \/ OpenAttempt(r) \/ LoadActive(r) \/ LoadAttempt(r)
    \/ RegisterQueryOperation(r) \/ TrackSessionAttempt(r) \/ EnsureSessionActive(r)
    \/ StoreAttempt(r) \/ LogSubmitAndResolvePolicy(r)
    \/ SubmitGenerate(r) \/ SubmitEvaluate(r) \/ SubmitQuota(r)
    \/ SubmitExecute(r) \/ SubmitSave(r)
    \/ SetActiveAttempt(r) \/ Reply(r) \/ RollbackRequest(r) \/ LogAuditDurably(r)
    \/ RetryDecide(r) \/ RetryBound(r) \/ ConsumeRetryQuota(r)
    \/ RetryGenerate(r) \/ RetryEvaluate(r) \/ RetryExecute(r)
    \/ RetrySave(r) \/ RetryTrackNew(r) \/ DeletePrior(r) \/ DropActive(r)
    \/ RejectTrack(r) \/ RejectStore(r) \/ RejectPrior(r)
    \/ HandleCancelled(r) \/ HandleCancelledExecution(r)
    \/ TimeoutDeletePrior(r) \/ TimeoutStore(r) \/ TimeoutDropActive(r)
    \/ DiscardInvalidatedAttempt(r)
    \/ ClearQueryOperation(r) \/ ReleaseLockIfOwned(r) \/ CommitOrRollback(r)

AcceptStep(r) ==
    \/ AcceptLock(r) \/ AcceptCheckActive(r) \/ AcceptLoadAttempt(r)
    \/ AcceptFindOrCreateRow(r) \/ AcceptDeleteAttempt(r) \/ AcceptDropActive(r)
    \/ AcceptAudit(r) \/ AcceptUnlock(r)

DeleteStep(r) ==
    \/ DeleteFindSession(r) \/ MarkSessionCancelling(r) \/ CancelLocalSessionWork(r)
    \/ CleanupCancelledSessionState(r) \/ DeleteSessionRow(r) \/ DeleteCommit(r)
    \/ DeleteUndo(r)

Step(r) == QueryStep(r) \/ AcceptStep(r) \/ DeleteStep(r)

Interrupt(r) ==
    \/ DeadlineExpires(r) \/ StageCancelled(r) \/ DiscardCutShort(r)
    \/ ClearQueryOperationFails(r)

Expiry ==
    \/ \E h \in HttpSessions : LockExpires(h)
    \/ \E s \in Chats : OperationExpires(s)
    \/ \E a \in Requests : AttemptExpires(a) \/ AcceptLockExpires(a)

(* No request is under way and none can begin. *)
Idle ==
    /\ \A r \in Requests : ~Alive(r)
    /\ UNCHANGED vars

Next ==
    \/ \E r \in Requests : Step(r) \/ Interrupt(r)
    \/ Expiry
    \/ \E w \in Workers : WorkerCrash(w)
    \/ Idle

Spec == Init /\ [][Next]_vars

(* Each handler is a task of an event loop: it runs on while its next step *)
(* is possible.                                                            *)
FairSpec == Spec /\ \A r \in Requests : WF_vars(Step(r))

(* Redis drops a key whose TTL has passed. *)
ExpirySpec ==
    /\ FairSpec
    /\ \A h \in HttpSessions : WF_vars(LockExpires(h))
    /\ \A s \in Chats : WF_vars(OperationExpires(s))

-----------------------------------------------------------------------------
(* Properties. *)

(* A query request between its acquired lock and its finally clause. *)
InFlight(r) == pc[r] \in TryPc \cup {"discard"} /\ ~frame[r].late
Registered(r) == InFlight(r) /\ frame[r].trk # None
Cancelled(r) == Chat(r) # None /\ marker[Chat(r)] # None

(***************************************************************************)
(* The finally clauses leave nothing behind: once the handler of submit,   *)
(* reject or regenerate is over, no lock, no entry of _inflight_owners and *)
(* no registered operation names it, whichever way it ended (answer, 4xx,  *)
(* 5xx, timeout, cancellation, a deletion that removed its keys first).    *)
(***************************************************************************)
FinallyReleases ==
    \A r \in Requests : pc[r] = "done" =>
        /\ \A h \in HttpSessions : lock[h] # r
        /\ \A x \in Workers \X HttpSessions : inflight[x] # r
        /\ \A s \in Chats : op[s] # r

(***************************************************************************)
(* Two queries of one HTTP session are under way together only if the chat *)
(* session of one of them is being cancelled: the lock of a query is taken *)
(* from it by nothing but a deletion, and never while it may still answer. *)
(***************************************************************************)
OverlapOnlyWhenCancelled ==
    \A r1, r2 \in Requests :
        r1 # r2 /\ Http[r1] = Http[r2] /\ InFlight(r1) /\ InFlight(r2)
            => Cancelled(r1) \/ Cancelled(r2)

(***************************************************************************)
(* The processing lock is held while its owner may answer and not longer:  *)
(* every exit of a handler returns it, and nothing else but a deletion     *)
(* takes it (release_lock_if_owned, cleanup_cancelled_session_state).      *)
(***************************************************************************)
LockIsReturned == FinallyReleases /\ OverlapOnlyWhenCancelled

(***************************************************************************)
(* Two registered operations share a chat session (from different HTTP     *)
(* sessions and workers) only while that chat session is being cancelled:  *)
(* session_operation:<s> keeps one writer per conversation.                *)
(***************************************************************************)
OneOperationPerChat ==
    \A r1, r2 \in Requests :
        r1 # r2 /\ Registered(r1) /\ Registered(r2) /\ Chat(r1) = Chat(r2) => Cancelled(r1)

(***************************************************************************)
(* When no request of an HTTP session is under way, its active attempt, if *)
(* its record has not expired, is an executed one: a timeout, a rejection  *)
(* or a failure never leaves its attempt open to accept or regenerate.     *)
(***************************************************************************)
ActiveAttemptIsExecuted ==
    \A h \in HttpSessions :
        /\ active[h] # None /\ attempt[active[h]] # None
        /\ \A r \in Requests : Http[r] = h => ~Alive(r) /\ pc[r] # "crashed"
        => attempt[active[h]].state = "EXECUTED"

(***************************************************************************)
(* The stored state of an attempt only moves forward through the pipeline; *)
(* a rejected, failed or timed-out attempt is never revived.               *)
(***************************************************************************)
AttemptMovesForward ==
    [][\A a \in Requests :
        attempt[a] # None /\ attempt'[a] # None
            => Rank[attempt[a].state] =< Rank[attempt'[a].state]]_vars

(***************************************************************************)
(* Every request that began comes to its end: no handler waits for ever on *)
(* the audit chain's advisory lock (its own request transaction included), *)
(* on the row of a chat session, or on another request.                    *)
(***************************************************************************)
EveryRequestEnds == \A r \in Requests : Alive(r) ~> Finished(r)

(***************************************************************************)
(* A deletion that has marked its chat session goes through (unless its    *)
(* worker dies), although it has to wait for the transactions of the       *)
(* queries it cancels.                                                     *)
(***************************************************************************)
MarkedSessionIsDeleted ==
    \A r \in Requests :
        pc[r] = "d_cancel" ~> Target[r] \notin sessions \/ pc[r] = "crashed"

(***************************************************************************)
(* A worker that dies does not lock a user out: whatever lock or operation *)
(* its requests leave in Redis is gone after a while.                      *)
(***************************************************************************)
KeysAreTemporary ==
    /\ \A h \in HttpSessions : lock[h] # None ~> lock[h] = None
    /\ \A s \in Chats : op[s] # None ~> op[s] = None

-----------------------------------------------------------------------------
(* Statements of the repository's documents. *)

(***************************************************************************)
(* query_service.py, Auto-save regenerated result: the prior saved row is  *)
(* updated in place "to avoid confusing duplicates in history".            *)
(***************************************************************************)
NoDuplicateInHistory ==
    \A q1, q2 \in Requests :
        q1 # q2 /\ saved[q1] # None /\ saved[q2] # None =>
            saved[q1].attempt \notin {saved[q2].attempt, Prior(saved[q2].attempt)}
=============================================================================
