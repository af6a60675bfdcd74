--------------------------- MODULE QueryPipeline ---------------------------
(***************************************************************************)
(* The handlers of a question: POST /query/submit, /query/regenerate and   *)
(* /query/reject (which only adds an audit entry), from the processing     *)
(* lock to the finally clause and the end of the request transaction, with *)
(* their deadline and their cancellation.  QueryLifecycle adds the         *)
(* requests that meet them and the environment.                            *)
(*                                                                         *)
(* Every await on Redis or on the platform database is a step of its own.  *)
(* Reads whose value is used in the same step are part of that step.  The  *)
(* code calls ensure_session_active before almost every such step; the     *)
(* check and the step it protects are two awaits, so they are two actions  *)
(* here: due[r] lists what is still awaited before step pc[r], checks and  *)
(* audit entries that are committed in a transaction of their own.         *)
(*                                                                         *)
(* A request stands for the uuids it creates: its lock owner token, its    *)
(* operation token, its cancellation token, its attempt id and the id of   *)
(* the accepted_queries row it inserts.  A chat session belongs to one     *)
(* user, so user ids are left out.                                         *)
(***************************************************************************)
EXTENDS Integers, FiniteSets, Sequences

CONSTANTS
    Requests, HttpSessions, Workers, Http, Worker, None,
    Chats,          \* chat sessions
    OldChats,       \* those that are in the database at the start
    Kind,           \* Requests -> RequestKinds
    Target,         \* the chat session of a submit or of a delete
    Faults,         \* what the environment may do, see FaultKinds
    ReplyBeforeCommit  \* the response is sent before get_db commits

RequestKinds == {"submit", "regenerate", "reject", "accept", "delete"}

(* expiry: TTLs pass; crash: a worker dies; commit: the final commit of a  *)
(* request fails; redis: the Redis call that clears an operation fails.    *)
FaultKinds == {"expiry", "crash", "commit", "redis"}

ASSUME QueryAssumption ==
    /\ Http \in [Requests -> HttpSessions]
    /\ Worker \in [Requests -> Workers]
    /\ None \notin Requests \cup Chats
    /\ OldChats \subseteq Chats
    /\ Kind \in [Requests -> RequestKinds]
    /\ Target \in [Requests -> Chats]
    /\ Faults \subseteq FaultKinds
    /\ ReplyBeforeCommit \in BOOLEAN

VARIABLES
    \* Redis
    lock,       \* processing_lock:<h> -> owner
    op,         \* session_operation:<s> -> the registered request
    tracked,    \* session_attempts:<s> -> set of attempt ids
    attempt,    \* attempt:<a> -> record
    active,     \* active_attempt:<h> -> attempt id, no TTL
    marker,     \* session_cancelled:<s> -> the deleting request
    acceptLock, \* accept:<a> -> is set
    \* worker processes
    inflight,   \* _inflight_owners
    \* platform database, committed
    sessions,   \* sessions rows
    saved,      \* accepted_queries rows: id -> [attempt, chat]
    \* requests
    pc, due,
    frame,      \* local variables of the handler, see Frames
    txn         \* the open transaction of the handler, see Txns

redis == <<lock, op, tracked, attempt, active, marker, acceptLock>>
database == <<sessions, saved>>
vars == <<redis, inflight, database, pc, due, frame, txn>>

AttemptStates ==
    {"PENDING", "GENERATED", "EVALUATED", "EXECUTED", "REJECTED", "TIMEOUT", "FAILED"}

(* How far an attempt has come. *)
Rank == [PENDING |-> 0, GENERATED |-> 1, EVALUATED |-> 2, EXECUTED |-> 3,
         REJECTED |-> 4, FAILED |-> 5, TIMEOUT |-> 6]

Maybe(S) == S \cup {None}
Attempts == [state : AttemptStates, http : HttpSessions, chat : Chats]
Rows == [attempt : Requests, chat : Maybe(Chats)]

(* Steps while the deadline is armed, inside the try block of submit_question *)
(* and _retry_query.                                                          *)
Stages == {"llm", "eval", "exec"}
TryPc == {"prepare", "touch", "load_active", "load_attempt", "register", "track",
          "store", "policy", "decide", "bound", "quota_llm", "quota_exec", "save",
          "track_new", "activate", "retire_prior", "drop_prior", "drop_active",
          "reject_track", "reject_store", "reject_prior", "reply", "rollback",
          "cancel", "cancel_exec"} \cup Stages
TimeoutPc == {"t_prior", "t_store", "t_active"}
FinallyPc == {"fin_op", "fin_lock"}
AcceptPc == {"a_lock", "a_active", "a_attempt", "a_row", "a_drop", "a_inactive",
             "a_audit", "a_unlock"}
DeletePc == {"d_mark", "d_cancel", "d_clean", "d_delete", "d_commit", "d_undo"}
Labels == {"start", "ready", "reserved", "discard", "end", "done", "crashed"}
          \cup TryPc \cup TimeoutPc \cup FinallyPc \cup AcceptPc \cup DeletePc

(* chat: chat_session_id; prior: the attempt id a retry or an accept was   *)
(* called with; state: attempt.state of the attempt object in hand; trk:   *)
(* tracked_attempt; tmo: timeout_attempt; operation: query_operation is    *)
(* set; late: the deadline has fired; killed: cancel_local_session_work    *)
(* cancelled the stage task; ok: the handler has not raised.               *)
Frames == [chat : Maybe(Chats), prior : Maybe(Requests), state : Maybe(AttemptStates),
           trk : Maybe(Requests), tmo : Maybe(Requests), operation : BOOLEAN,
           late : BOOLEAN, killed : BOOLEAN, ok : BOOLEAN]

(* updates: the chat session whose row the transaction updated or deleted; *)
(* refers: the chat session its accepted_queries row refers to (a foreign  *)
(* key takes a share lock); creates: the lazily created chat session; row, *)
(* value: the pending write of accepted_queries; audit: the transaction    *)
(* holds the advisory lock of the audit chain until it ends.               *)
NoTxn == [updates |-> None, refers |-> None, creates |-> None,
          row |-> None, value |-> None, audit |-> FALSE]
Txns == [updates : Maybe(Chats), refers : Maybe(Chats), creates : Maybe(Chats),
         row : Maybe(Requests), value : Maybe(Rows), audit : BOOLEAN]

TypeOK ==
    /\ lock \in [HttpSessions -> Maybe(Requests)]
    /\ op \in [Chats -> Maybe(Requests)]
    /\ tracked \in [Chats -> SUBSET Requests]
    /\ attempt \in [Requests -> Maybe(Attempts)]
    /\ active \in [HttpSessions -> Maybe(Requests)]
    /\ marker \in [Chats -> Maybe(Requests)]
    /\ acceptLock \in [Requests -> BOOLEAN]
    /\ inflight \in [Workers \X HttpSessions -> Maybe(Requests)]
    /\ sessions \subseteq Chats
    /\ saved \in [Requests -> Maybe(Rows)]
    /\ pc \in [Requests -> Labels]
    /\ due \in [Requests -> Seq({"ensure", "log"})]
    /\ frame \in [Requests -> Frames]
    /\ txn \in [Requests -> Txns]

Init ==
    /\ lock = [h \in HttpSessions |-> None]
    /\ op = [s \in Chats |-> None]
    /\ tracked = [s \in Chats |-> {}]
    /\ attempt = [a \in Requests |-> None]
    /\ active = [h \in HttpSessions |-> None]
    /\ marker = [s \in Chats |-> None]
    /\ acceptLock = [a \in Requests |-> FALSE]
    /\ inflight = [x \in Workers \X HttpSessions |-> None]
    /\ sessions = OldChats
    /\ saved = [q \in Requests |-> None]
    /\ pc = [r \in Requests |-> "start"]
    /\ due = [r \in Requests |-> <<>>]
    /\ frame = [r \in Requests |->
                  [chat |-> IF Kind[r] \in {"submit", "delete"} THEN Target[r] ELSE None,
                   prior |-> None, state |-> None, trk |-> None, tmo |-> None,
                   operation |-> FALSE, late |-> FALSE, killed |-> FALSE, ok |-> TRUE]]
    /\ txn = [r \in Requests |-> NoTxn]

-----------------------------------------------------------------------------
(* Control flow. *)
At(r, l) == pc[r] = l /\ due[r] = <<>>

(* The next step is l, after the awaits in list. *)
AwaitThen(r, list, l) ==
    /\ pc' = [pc EXCEPT ![r] = l]
    /\ due' = [due EXCEPT ![r] = list]

Goto(r, l) == AwaitThen(r, <<>>, l)
EnsureThen(r, l) == AwaitThen(r, <<"ensure">>, l)

(* The handler will raise once it has passed step l. *)
Fail(r) == frame' = [frame EXCEPT ![r].ok = FALSE]

(* The handler raises: what is left of it is its finally clause. *)
Raise(r) == Fail(r) /\ Goto(r, "fin_op")

IsRetry(r) == Kind[r] \in {"regenerate", "reject"}
Chat(r) == frame[r].chat
Prior(r) == frame[r].prior

(* mutant of Record *)
RecordWithoutChat(r, st) == [state |-> st, http |-> Http[r]]

(* The record that store_attempt writes for request r. *)
Record(r, st) == [state |-> st, http |-> Http[r], chat |-> Chat(r)]

(* Advisory lock of AuditService.log: held to the end of the transaction. *)
AuditFree == \A q \in Requests : ~txn[q].audit

(* ensure_session_active; a cancelled session raises SessionInvalidated. *)
EnsureSessionActive(r) ==
    /\ due[r] # <<>> /\ Head(due[r]) = "ensure"
    /\ IF Chat(r) # None /\ marker[Chat(r)] # None
       THEN Goto(r, "discard")
       ELSE AwaitThen(r, Tail(due[r]), pc[r])
    /\ UNCHANGED <<redis, inflight, database, frame, txn>>

(* _log_audit_durably: the entry is committed in a transaction of its own. *)
LogAuditDurably(r) ==
    /\ due[r] # <<>> /\ Head(due[r]) = "log"
    /\ AuditFree
    /\ AwaitThen(r, Tail(due[r]), pc[r])
    /\ UNCHANGED <<redis, inflight, database, frame, txn>>

-----------------------------------------------------------------------------
(* processing_lock.py, as in module ProcessingLock. *)
Slot(r) == <<Worker[r], Http[r]>>

AcquireLockBegin(r) ==
    /\ \/ Kind[r] = "submit" /\ At(r, "start")
       \/ IsRetry(r) /\ At(r, "ready")
    /\ IF inflight[Slot(r)] = None
       THEN /\ inflight' = [inflight EXCEPT ![Slot(r)] = r]
            /\ Goto(r, "reserved")
       ELSE /\ Goto(r, "done")
            /\ UNCHANGED inflight
    /\ UNCHANGED <<redis, database, frame, txn>>

(* mutant of AcquireLock *)
AcquireLockWithoutNX(r) ==
    /\ At(r, "reserved")
    /\ lock' = [lock EXCEPT ![Http[r]] = r]
    /\ Goto(r, IF Kind[r] = "submit" THEN "prepare" ELSE "load_active")
    /\ UNCHANGED <<op, tracked, attempt, active, marker, acceptLock,
                    inflight, database, frame, txn>>

AcquireLock(r) ==
    /\ At(r, "reserved")
    /\ IF lock[Http[r]] = None
       THEN /\ lock' = [lock EXCEPT ![Http[r]] = r]
            /\ Goto(r, IF Kind[r] = "submit" THEN "prepare" ELSE "load_active")
            /\ UNCHANGED inflight
       ELSE /\ inflight' = [inflight EXCEPT ![Slot(r)] = None]
            /\ Goto(r, "done")
            /\ UNCHANGED lock
    /\ UNCHANGED <<op, tracked, attempt, active, marker, acceptLock, database, frame, txn>>

(* The finally clause of submit_question and _retry_query. *)
ClearQueryOperation(r) ==
    /\ At(r, "fin_op")
    /\ op' = [s \in Chats |-> IF op[s] = r THEN None ELSE op[s]]
    /\ Goto(r, "fin_lock")
    /\ UNCHANGED <<lock, tracked, attempt, active, marker, acceptLock,
                    inflight, database, frame, txn>>

(* A Redis error in clear_query_operation_if_owned leaves the finally      *)
(* clause before release_lock_if_owned runs.                               *)
ClearQueryOperationFails(r) ==
    /\ "redis" \in Faults
    /\ At(r, "fin_op")
    /\ frame[r].operation
    /\ frame' = [frame EXCEPT ![r].ok = FALSE]
    /\ Goto(r, "end")
    /\ UNCHANGED <<redis, inflight, database, txn>>

(* mutant of ReleaseLockIfOwned *)
ReleaseEntryOnlyWithLock(r) ==
    /\ At(r, "fin_lock")
    /\ lock' = [lock EXCEPT ![Http[r]] = IF @ = r THEN None ELSE @]
    /\ inflight' = IF lock[Http[r]] = r THEN [inflight EXCEPT ![Slot(r)] = None] ELSE inflight
    /\ Goto(r, "end")
    /\ UNCHANGED <<op, tracked, attempt, active, marker, acceptLock, database, frame, txn>>

(* mutant of ReleaseLockIfOwned *)
ReleaseAnyLock(r) ==
    /\ At(r, "fin_lock")
    /\ lock' = [lock EXCEPT ![Http[r]] = None]
    /\ inflight' = [inflight EXCEPT ![Slot(r)] = IF @ = r THEN None ELSE @]
    /\ Goto(r, "end")
    /\ UNCHANGED <<op, tracked, attempt, active, marker, acceptLock, database, frame, txn>>

ReleaseLockIfOwned(r) ==
    /\ At(r, "fin_lock")
    /\ lock' = [lock EXCEPT ![Http[r]] = IF @ = r THEN None ELSE @]
    /\ inflight' = [inflight EXCEPT ![Slot(r)] = IF @ = r THEN None ELSE @]
    /\ Goto(r, "end")
    /\ UNCHANGED <<op, tracked, attempt, active, marker, acceptLock, database, frame, txn>>

(* get_db: commit after a normal return, roll back after an exception.  A  *)
(* client that has its response already does not see a commit fail.        *)
CommitOrRollback(r) ==
    /\ At(r, "end")
    /\ \/ /\ frame[r].ok
          /\ sessions' = sessions \cup ({txn[r].creates} \ {None})
          /\ saved' = IF txn[r].row = None THEN saved
                      ELSE [saved EXCEPT ![txn[r].row] = txn[r].value]
          /\ UNCHANGED frame
       \/ /\ ~frame[r].ok \/ "commit" \in Faults
          /\ frame' = [frame EXCEPT ![r].ok = @ /\ ReplyBeforeCommit]
          /\ UNCHANGED database
    /\ txn' = [txn EXCEPT ![r] = NoTxn]
    /\ Goto(r, "done")
    /\ UNCHANGED <<redis, inflight>>

-----------------------------------------------------------------------------
(* submit_question and _retry_query up to the registered operation. *)
RowFree(r, s) == \A q \in Requests \ {r} : txn[q].updates # s

(* The user row (401), hostile-input detection (503, 400; a block or a     *)
(* flag is logged and committed at once) and the queries quota (503, 429). *)
PrepareSubmit(r) ==
    /\ At(r, "prepare")
    /\ \/ Raise(r)
       \/ AwaitThen(r, <<"log">>, "reply") /\ Fail(r)
       \/ \E list \in {<<>>, <<"log">>} : AwaitThen(r, list, "touch") /\ UNCHANGED frame
    /\ UNCHANGED <<redis, inflight, database, txn>>

(* A new chat session is created lazily; an existing one must be there     *)
(* (404) and its last_activity_at is updated, which waits for the row lock *)
(* of any other transaction.  The connection may not match (422).          *)
OpenChatSession(r) ==
    /\ At(r, "touch")
    /\ IF Target[r] \in OldChats \ sessions
       THEN Raise(r) /\ UNCHANGED txn
       ELSE /\ Target[r] \in OldChats => RowFree(r, Target[r])
            /\ \/ Raise(r) /\ UNCHANGED txn
               \/ /\ txn' = IF Target[r] \in OldChats
                            THEN [txn EXCEPT ![r].updates = Target[r]]
                            ELSE [txn EXCEPT ![r].creates = Target[r]]
                  /\ frame' = [frame EXCEPT ![r].tmo = r, ![r].state = "PENDING"]
                  /\ EnsureThen(r, "register")
    /\ UNCHANGED <<redis, inflight, database>>

(* The client knows the id of an attempt from the response to it. *)
Answered(a) ==
    /\ frame[a].ok
    /\ pc[a] \in IF ReplyBeforeCommit THEN {"end", "done"} ELSE {"done"}

(* _build_query_service_for_attempt: the attempt must be the active one    *)
(* of this HTTP session and its chat session must not be cancelled; else   *)
(* the request ends (422) without any effect.  An accept may or may not    *)
(* name its chat session in the request body.                              *)
OpenAttempt(r) ==
    /\ IsRetry(r) \/ Kind[r] = "accept"
    /\ At(r, "start")
    /\ \E a \in Requests :
        /\ Answered(a)
        /\ active[Http[r]] = a
        /\ attempt[a] # None /\ attempt[a].http = Http[r]
        /\ marker[attempt[a].chat] = None
        /\ \E c \in IF Kind[r] = "accept" THEN {None, attempt[a].chat} ELSE {None} :
              frame' = [frame EXCEPT ![r].prior = a, ![r].chat = c]
    /\ Goto(r, IF IsRetry(r) THEN "ready" ELSE "a_lock")
    /\ UNCHANGED <<redis, inflight, database, txn>>

(* The active attempt is read again under the lock (422) ... *)
LoadActive(r) ==
    /\ At(r, "load_active")
    /\ IF active[Http[r]] = Prior(r)
       THEN Goto(r, "load_attempt") /\ UNCHANGED frame
       ELSE Raise(r)
    /\ UNCHANGED <<redis, inflight, database, txn>>

(* ... and then its record, which must be EXECUTED. *)
LoadAttempt(r) ==
    /\ At(r, "load_attempt")
    /\ IF attempt[Prior(r)] # None /\ attempt[Prior(r)].state = "EXECUTED"
       THEN /\ frame' = [frame EXCEPT ![r].tmo = Prior(r),
                                      ![r].chat = attempt[Prior(r)].chat]
            /\ EnsureThen(r, "register")
       ELSE Raise(r)
    /\ UNCHANGED <<redis, inflight, database, txn>>

(* The attempt id that the operation and the tracking set name. *)
OperationAttempt(r) == IF Kind[r] = "submit" THEN r ELSE Prior(r)

(* mutant of RegisterQueryOperation *)
RegisterWithoutNX(r) ==
    /\ At(r, "register")
    /\ op' = [op EXCEPT ![Chat(r)] = r]
    /\ frame' = [frame EXCEPT ![r].operation = TRUE, ![r].trk = OperationAttempt(r)]
    /\ Goto(r, "track")
    /\ UNCHANGED <<lock, tracked, attempt, active, marker, acceptLock,
                    inflight, database, txn>>

(* SET NX of session_operation:<s>; 409 when another operation is on it. *)
RegisterQueryOperation(r) ==
    /\ At(r, "register")
    /\ IF op[Chat(r)] = None
       THEN /\ op' = [op EXCEPT ![Chat(r)] = r]
            /\ frame' = [frame EXCEPT ![r].operation = TRUE, ![r].trk = OperationAttempt(r)]
            /\ Goto(r, "track")
       ELSE /\ frame' = [frame EXCEPT ![r].operation = TRUE, ![r].ok = FALSE]
            /\ Goto(r, "fin_op")
            /\ UNCHANGED op
    /\ UNCHANGED <<lock, tracked, attempt, active, marker, acceptLock,
                    inflight, database, txn>>

TrackSessionAttempt(r) ==
    /\ At(r, "track")
    /\ tracked' = [tracked EXCEPT ![Chat(r)] = @ \cup {OperationAttempt(r)}]
    /\ EnsureThen(r, IF Kind[r] = "submit" THEN "store" ELSE "decide")
    /\ UNCHANGED <<lock, op, attempt, active, marker, acceptLock,
                    inflight, database, frame, txn>>

-----------------------------------------------------------------------------
(* submit_question: the pipeline. *)

(* store_attempt with the state in hand. *)
AfterStore == [PENDING |-> "policy", GENERATED |-> "eval", EVALUATED |-> "quota_exec",
               EXECUTED |-> "save"]

StoreAttempt(r) ==
    /\ At(r, "store")
    /\ attempt' = [attempt EXCEPT ![r] = Record(r, frame[r].state)]
    /\ CASE IsRetry(r) -> Goto(r, "activate")
         [] Kind[r] = "submit" /\ frame[r].state \in {"REJECTED", "FAILED"} -> Goto(r, "rollback")
         [] OTHER -> EnsureThen(r, AfterStore[frame[r].state])
    /\ UNCHANGED <<lock, op, tracked, active, marker, acceptLock,
                    inflight, database, frame, txn>>

(* The attempt object changes its state and is to be stored. *)
ToStore(r, st) == frame' = [frame EXCEPT ![r].state = st]

(* QUERY_SUBMIT is logged in the request transaction, which keeps the      *)
(* advisory lock from here on; then the role policy is resolved, and a     *)
(* deny-all policy rejects the attempt before the LLM sees it.             *)
LogSubmitAndResolvePolicy(r) ==
    /\ At(r, "policy")
    /\ AuditFree
    /\ txn' = [txn EXCEPT ![r].audit = TRUE]
    /\ \/ EnsureThen(r, "llm") /\ UNCHANGED frame
       \/ EnsureThen(r, "store") /\ ToStore(r, "REJECTED")
    /\ UNCHANGED <<redis, inflight, database>>

(* LLM generation: an SQL text, or 502. *)
SubmitGenerate(r) ==
    /\ Kind[r] = "submit"
    /\ At(r, "llm")
    /\ \/ EnsureThen(r, "store") /\ ToStore(r, "GENERATED")
       \/ Raise(r)
    /\ UNCHANGED <<redis, inflight, database, txn>>

(* The evaluator, then the role authorization rule. *)
SubmitEvaluate(r) ==
    /\ Kind[r] = "submit"
    /\ At(r, "eval")
    /\ EnsureThen(r, "store")
    /\ ToStore(r, "EVALUATED") \/ ToStore(r, "REJECTED")
    /\ UNCHANGED <<redis, inflight, database, txn>>

(* Row filters (409) and the executions quota (503; 429 is logged). *)
SubmitQuota(r) ==
    /\ Kind[r] = "submit"
    /\ At(r, "quota_exec")
    /\ \/ EnsureThen(r, "exec") /\ UNCHANGED frame
       \/ Goto(r, "rollback") /\ Fail(r)
       \/ Raise(r)
    /\ UNCHANGED <<redis, inflight, database, txn>>

(* The source database and the column masks.  A failure of the source      *)
(* stores FAILED, one of the masks is an unhandled error.                  *)
SubmitExecute(r) ==
    /\ Kind[r] = "submit"
    /\ At(r, "exec")
    /\ \/ EnsureThen(r, "store") /\ ToStore(r, "EXECUTED")
       \/ /\ Goto(r, "store")
          /\ frame' = [frame EXCEPT ![r].state = "FAILED", ![r].ok = FALSE]
       \/ EnsureThen(r, "reply") /\ Fail(r)
    /\ UNCHANGED <<redis, inflight, database, txn>>

(* Auto-save: a fresh attempt id, so a new row.  The transaction holds the *)
(* row of the chat session, so the foreign key cannot fail.                *)
SubmitSave(r) ==
    /\ Kind[r] = "submit"
    /\ At(r, "save")
    /\ txn' = [txn EXCEPT ![r].row = r, ![r].refers = Chat(r),
                          ![r].value = [attempt |-> r, chat |-> Chat(r)]]
    /\ EnsureThen(r, "activate")
    /\ UNCHANGED <<redis, inflight, database, frame>>

(* SET active_attempt:<h>; a retry then deletes the attempt it replaces. *)
SetActiveAttempt(r) ==
    /\ At(r, "activate")
    /\ active' = [active EXCEPT ![Http[r]] = r]
    /\ EnsureThen(r, IF Kind[r] = "submit" THEN "reply" ELSE "retire_prior")
    /\ UNCHANGED <<lock, op, tracked, attempt, marker, acceptLock,
                    inflight, database, frame, txn>>

Reply(r) ==
    /\ At(r, "reply")
    /\ Goto(r, "fin_op")
    /\ UNCHANGED <<redis, inflight, database, frame, txn>>

(* mutant of RollbackRequest *)
LogWithoutRollback(r) ==
    /\ At(r, "rollback")
    /\ AwaitThen(r, IF frame[r].ok THEN <<"log", "ensure">> ELSE <<"log">>, "reply")
    /\ UNCHANGED <<redis, inflight, database, frame, txn>>

(* _persist_audit_without_request_side_effects: the request transaction is *)
(* rolled back first, which gives up the advisory lock that the entry then *)
(* needs.                                                                  *)
RollbackRequest(r) ==
    /\ At(r, "rollback")
    /\ txn' = [txn EXCEPT ![r] = NoTxn]
    /\ AwaitThen(r, IF frame[r].ok THEN <<"log", "ensure">> ELSE <<"log">>, "reply")
    /\ UNCHANGED <<redis, inflight, database, frame>>

-----------------------------------------------------------------------------
(* _retry_query: the pipeline.  Its audit entries are all written in their *)
(* own transactions.                                                       *)

(* The user row (401) and the entry of a reject. *)
RetryDecide(r) ==
    /\ At(r, "decide")
    /\ \/ Goto(r, "drop_active") /\ Fail(r)
       \/ /\ AwaitThen(r, IF Kind[r] = "reject" THEN <<"ensure", "log", "ensure">>
                                              ELSE <<"ensure">>, "bound")
          /\ UNCHANGED frame
    /\ UNCHANGED <<redis, inflight, database, txn>>

(* The bound on regenerations and a deny-all policy end the retry. *)
RetryBound(r) ==
    /\ At(r, "bound")
    /\ \/ EnsureThen(r, "quota_llm")
       \/ \E list \in {<<"ensure">>, <<"ensure", "log">>} : AwaitThen(r, list, "drop_active")
    /\ UNCHANGED <<redis, inflight, database, frame, txn>>

(* _consume_retry_quota, for queries and for executions (503; 429 is       *)
(* logged).  From the first one on a timeout is one of the new attempt.    *)
ConsumeRetryQuota(r) ==
    /\ IsRetry(r)
    /\ At(r, "quota_llm") \/ At(r, "quota_exec")
    /\ \/ /\ Goto(r, IF pc[r] = "quota_llm" THEN "llm" ELSE "exec")
          /\ frame' = [frame EXCEPT ![r].tmo = r]
       \/ /\ \E l \in {"reply", "rollback"} : EnsureThen(r, l)
          /\ frame' = [frame EXCEPT ![r].tmo = r, ![r].ok = FALSE]
    /\ UNCHANGED <<redis, inflight, database, txn>>

(* A provider failure drops the active attempt; SQL equal to the prior one *)
(* drops the prior attempt too.                                            *)
RetryGenerate(r) ==
    /\ IsRetry(r)
    /\ At(r, "llm")
    /\ \/ AwaitThen(r, <<"ensure", "log", "ensure">>, "eval") /\ UNCHANGED frame
       \/ AwaitThen(r, <<"ensure", "log", "ensure", "log">>, "drop_prior") /\ UNCHANGED frame
       \/ AwaitThen(r, <<"ensure", "log">>, "drop_active") /\ Fail(r)
    /\ UNCHANGED <<redis, inflight, database, txn>>

(* The evaluator or the role authorization rejects, a row filter does not  *)
(* fit the schema (409), or all pass.                                      *)
RetryEvaluate(r) ==
    /\ IsRetry(r)
    /\ At(r, "eval")
    /\ \/ AwaitThen(r, <<"ensure", "log">>, "reject_track") /\ UNCHANGED frame
       \/ AwaitThen(r, <<"ensure", "log", "ensure", "log">>, "reject_track") /\ UNCHANGED frame
       \/ AwaitThen(r, <<"ensure", "log", "ensure", "log">>, "drop_prior") /\ Fail(r)
       \/ AwaitThen(r, <<"ensure", "log", "ensure">>, "quota_exec") /\ UNCHANGED frame
    /\ UNCHANGED <<redis, inflight, database, txn>>

(* The source database and the column masks; both failures are logged. *)
RetryExecute(r) ==
    /\ IsRetry(r)
    /\ At(r, "exec")
    /\ \/ EnsureThen(r, "save") /\ UNCHANGED frame
       \/ /\ \E list \in {<<"log">>, <<"ensure", "log">>} : AwaitThen(r, list, "drop_prior")
          /\ Fail(r)
    /\ UNCHANGED <<redis, inflight, database, txn>>

RowsOf(a) == {q \in Requests : saved[q] # None /\ saved[q].attempt = a}

(* The row of the prior attempt is updated in place, or a new row is made. *)
(* Both wait for a deletion of the chat session that is under way; without *)
(* a prior row a chat session that is gone breaks the foreign key.         *)
RetrySave(r) ==
    /\ IsRetry(r)
    /\ At(r, "save")
    /\ \A q \in Requests : Kind[q] = "delete" => txn[q].updates # Chat(r)
    /\ LET row == IF RowsOf(Prior(r)) = {} THEN r ELSE CHOOSE q \in RowsOf(Prior(r)) : TRUE
       IN IF Cardinality(RowsOf(Prior(r))) > 1 \/ (row = r /\ Chat(r) \notin sessions)
          THEN /\ Fail(r)
               /\ AwaitThen(r, <<"log">>, "reply")
               /\ UNCHANGED txn
          ELSE /\ \A q \in Requests \ {r} : txn[q].row # row
               /\ txn' = [txn EXCEPT ![r].row = row, ![r].refers = Chat(r),
                                     ![r].value = [attempt |-> r, chat |->
                                        IF row = r THEN Chat(r) ELSE saved[row].chat]]
               /\ AwaitThen(r, <<"ensure", "log", "ensure">>, "track_new")
               /\ UNCHANGED frame
    /\ UNCHANGED <<redis, inflight, database>>

(* The new attempt is tracked, stored (StoreAttempt) and made active       *)
(* (SetActiveAttempt).                                                     *)
RetryTrackNew(r) ==
    /\ At(r, "track_new")
    /\ tracked' = [tracked EXCEPT ![Chat(r)] = @ \cup {r}]
    /\ frame' = [frame EXCEPT ![r].trk = r, ![r].tmo = r, ![r].state = "EXECUTED"]
    /\ EnsureThen(r, "store")
    /\ UNCHANGED <<lock, op, attempt, active, marker, acceptLock, inflight, database, txn>>

(* delete_attempt(prior) and DEL active_attempt:<h>: on success the prior  *)
(* attempt only ("retire_prior"); on a duplicate or a failure both.        *)
DeletePrior(r) ==
    /\ At(r, "retire_prior") \/ At(r, "drop_prior")
    /\ attempt' = [attempt EXCEPT ![Prior(r)] = None]
    /\ Goto(r, IF pc[r] = "retire_prior" THEN "reply" ELSE "drop_active")
    /\ UNCHANGED <<lock, op, tracked, active, marker, acceptLock,
                    inflight, database, frame, txn>>

DropActive(r) ==
    /\ At(r, "drop_active")
    /\ active' = [active EXCEPT ![Http[r]] = None]
    /\ Goto(r, "fin_op")
    /\ UNCHANGED <<lock, op, tracked, attempt, marker, acceptLock,
                    inflight, database, frame, txn>>

(* _store_rejected_retry. *)
RejectTrack(r) ==
    /\ At(r, "reject_track")
    /\ tracked' = [tracked EXCEPT ![Chat(r)] = @ \cup {r}]
    /\ EnsureThen(r, "reject_store")
    /\ UNCHANGED <<lock, op, attempt, active, marker, acceptLock,
                    inflight, database, frame, txn>>

RejectStore(r) ==
    /\ At(r, "reject_store")
    /\ attempt' = [attempt EXCEPT ![r] = Record(r, "REJECTED")]
    /\ Goto(r, "reject_prior")
    /\ UNCHANGED <<lock, op, tracked, active, marker, acceptLock,
                    inflight, database, frame, txn>>

RejectPrior(r) ==
    /\ At(r, "reject_prior")
    /\ attempt' = [attempt EXCEPT ![Prior(r)] = None]
    /\ EnsureThen(r, "drop_active")
    /\ UNCHANGED <<lock, op, tracked, active, marker, acceptLock,
                    inflight, database, frame, txn>>

-----------------------------------------------------------------------------
(* Cancellation and deadline. *)

(* A stage task is cancelled, by the deadline or by a deletion served by   *)
(* the same worker; the handler then checks the session.                   *)
StageCancelled(r) ==
    /\ pc[r] \in Stages /\ due[r] = <<>>
    /\ \/ frame[r].killed /\ UNCHANGED frame
       \/ ~frame[r].late /\ frame' = [frame EXCEPT ![r].late = TRUE]
    /\ EnsureThen(r, IF pc[r] = "exec" THEN "cancel_exec" ELSE "cancel")
    /\ UNCHANGED <<redis, inflight, database, txn>>

(* Where an expired deadline leads: a retry that already has its new       *)
(* attempt id first deletes the prior attempt.                             *)
ToTimeout(r) ==
    IF IsRetry(r) /\ frame[r].tmo = r THEN Goto(r, "t_prior") ELSE EnsureThen(r, "t_store")

Reraise(r) ==
    IF frame[r].late
    THEN ToTimeout(r) /\ frame' = [frame EXCEPT ![r].ok = FALSE]
    ELSE Raise(r)

HandleCancelled(r) ==
    /\ At(r, "cancel")
    /\ Reraise(r)
    /\ UNCHANGED <<redis, inflight, database, txn>>

(* A cancelled execution stores FAILED (submit) or drops the active        *)
(* attempt (retry).                                                        *)
HandleCancelledExecution(r) ==
    /\ At(r, "cancel_exec")
    /\ IF Kind[r] = "submit"
       THEN attempt' = [attempt EXCEPT ![r] = Record(r, "FAILED")] /\ UNCHANGED active
       ELSE active' = [active EXCEPT ![Http[r]] = None] /\ UNCHANGED attempt
    /\ Reraise(r)
    /\ UNCHANGED <<lock, op, tracked, marker, acceptLock, inflight, database, txn>>

(* The deadline cancels the handler at any await of its try block, or a    *)
(* provider reports its own timeout.                                       *)
DeadlineExpires(r) ==
    /\ pc[r] \in TryPc
    /\ ~frame[r].late
    /\ frame' = [frame EXCEPT ![r].late = TRUE, ![r].ok = FALSE]
    /\ ToTimeout(r)
    /\ UNCHANGED <<redis, inflight, database, txn>>

TimeoutDeletePrior(r) ==
    /\ At(r, "t_prior")
    /\ attempt' = [attempt EXCEPT ![Prior(r)] = None]
    /\ EnsureThen(r, "t_store")
    /\ UNCHANGED <<lock, op, tracked, active, marker, acceptLock,
                    inflight, database, frame, txn>>

(* mutant of TimeoutStore *)
TimeoutReopens(r) ==
    /\ At(r, "t_store")
    /\ attempt' = IF frame[r].tmo = None THEN attempt
                  ELSE [attempt EXCEPT ![frame[r].tmo] = Record(r, "PENDING")]
    /\ Goto(r, "t_active")
    /\ UNCHANGED <<lock, op, tracked, active, marker, acceptLock,
                    inflight, database, frame, txn>>

(* _raise_timeout. *)
TimeoutStore(r) ==
    /\ At(r, "t_store")
    /\ attempt' = IF frame[r].tmo = None THEN attempt
                  ELSE [attempt EXCEPT ![frame[r].tmo] = Record(r, "TIMEOUT")]
    /\ Goto(r, "t_active")
    /\ UNCHANGED <<lock, op, tracked, active, marker, acceptLock,
                    inflight, database, frame, txn>>

(* mutant of TimeoutDropActive *)
TimeoutKeepsActive(r) ==
    /\ At(r, "t_active")
    /\ EnsureThen(r, "rollback")
    /\ UNCHANGED <<redis, inflight, database, frame, txn>>

TimeoutDropActive(r) ==
    /\ At(r, "t_active")
    /\ active' = [active EXCEPT ![Http[r]] = None]
    /\ EnsureThen(r, "rollback")
    /\ UNCHANGED <<lock, op, tracked, attempt, marker, acceptLock,
                    inflight, database, frame, txn>>

(* _discard_invalidated_attempt: roll back and run the discard script,     *)
(* which does nothing for an attempt that is no longer tracked.  The       *)
(* deadline is still armed and may cut it short.                           *)
DiscardInvalidatedAttempt(r) ==
    /\ At(r, "discard")
    /\ LET a == frame[r].trk
       IN IF a # None /\ a \in tracked[Chat(r)]
          THEN /\ tracked' = [tracked EXCEPT ![Chat(r)] = @ \ {a}]
               /\ attempt' = [attempt EXCEPT ![a] = None]
               /\ active' = [active EXCEPT ![Http[r]] = IF @ = a THEN None ELSE @]
          ELSE UNCHANGED <<tracked, attempt, active>>
    /\ txn' = [txn EXCEPT ![r] = NoTxn]
    /\ Raise(r)
    /\ UNCHANGED <<lock, op, marker, acceptLock, inflight, database>>

DiscardCutShort(r) ==
    /\ At(r, "discard")
    /\ ~frame[r].late
    /\ Raise(r)
    /\ UNCHANGED <<redis, inflight, database, txn>>
=============================================================================
